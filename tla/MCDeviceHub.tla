------------------------------- MODULE MCDeviceHub -------------------------------
(* Small instance of the hub. *)
EXTENDS DeviceHub
================================================================================
