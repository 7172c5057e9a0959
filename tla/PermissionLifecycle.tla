-------------------------- MODULE PermissionLifecycle --------------------------
(***************************************************************************)
(* What the permission guard promises of one confirmation, with nothing of *)
(* its maps: a confirmation is issued to a session, answered once, and, if *)
(* it was approved, resumed at most once.  A session holds one approved    *)
(* confirmation at a time: a newer confirmation or approval of the same    *)
(* session takes its place and the older one is lost.                      *)
(***************************************************************************)
EXTENDS Naturals

CONSTANTS Sessions, PermIds, None

VARIABLES
  fate,   \* what became of each confirmation
  owner   \* the session it was issued to, None before that

lifecycleVars == <<fate, owner>>

Fates == {"fresh", "pending", "approved", "rejected", "resumed", "lost"}

LifecycleInit ==
  /\ fate = [id \in PermIds |-> "fresh"]
  /\ owner = [id \in PermIds |-> None]

(* The fate of i once something of session s took the session's slot. *)
Superseded(s, i) ==
  IF owner[i] = s /\ fate[i] = "approved" THEN "lost" ELSE fate[i]

LifeIssue(s, id) ==
  /\ fate[id] = "fresh"
  /\ fate' = [i \in PermIds |-> IF i = id THEN "pending" ELSE Superseded(s, i)]
  /\ owner' = [owner EXCEPT ![id] = s]

LifeApprove(id) ==
  /\ fate[id] = "pending"
  /\ fate' = [i \in PermIds |-> IF i = id THEN "approved" ELSE Superseded(owner[id], i)]
  /\ UNCHANGED owner

LifeReject(id) ==
  /\ fate[id] = "pending"
  /\ fate' = [fate EXCEPT ![id] = "rejected"]
  /\ UNCHANGED owner

LifeResume(id) ==
  /\ fate[id] = "approved"
  /\ fate' = [fate EXCEPT ![id] = "resumed"]
  /\ UNCHANGED owner

LifecycleNext ==
  \E id \in PermIds :
    \/ \E s \in Sessions : LifeIssue(s, id)
    \/ LifeApprove(id)
    \/ LifeReject(id)
    \/ LifeResume(id)

LifecycleSpec == LifecycleInit /\ [][LifecycleNext]_lifecycleVars
================================================================================
