-------------------------- MODULE MCPermissionGuard --------------------------
(* Small instance of the permission guard. *)
EXTENDS PermissionGuard, TLC

CONSTANTS read, write, wipe

MCCalls == {read, write, wipe}
MCSigs == {<<c>> : c \in MCCalls}
MCSig == [c \in MCCalls |-> <<c>>]
MCRead == {read}
MCDeny == {wipe}
MCConfirm == {write, wipe}   \* what a deny rule matches, a confirm rule matches too

Symmetry ==
  Permutations(Sessions) \cup Permutations(PermIds) \cup Permutations(Runs)
================================================================================
