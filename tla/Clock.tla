----------------------------------- MODULE Clock -----------------------------------
(* The time that windows and caches are measured with. *)
EXTENDS Naturals

VARIABLE now

(* Time passes, up to a bound.                                             *)
Tick(bound) == now < bound /\ now' = now + 1
================================================================================
