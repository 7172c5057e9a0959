------------------------------ MODULE MCChatStream ------------------------------
(* Small instance of the event stream. *)
EXTENDS ChatStream
================================================================================
