----------------------------- MODULE MCConversation -----------------------------
(* Small instance of sessions and messages. *)
EXTENDS Conversation, TLC

Losses == Cardinality({s \in Sessions : lost[s] # <<>>})

(* An export in a behaviour, or a restart and a session that loses         *)
(* messages: what mysql exports it has, so that losses do not show in it.  *)
OneAtATime ==
  /\ restarts + exports <= 1
  /\ exports + Losses <= 1

Symmetry == Permutations(Runs) \cup Permutations(Sessions)
================================================================================
