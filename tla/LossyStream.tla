------------------------------ MODULE LossyStream ------------------------------
(***************************************************************************)
(* What the event stream of a chat promises, without its goroutines and    *)
(* channels: events are numbered in the order they are offered, the reader *)
(* sees them in that order, each at most once, and one is lost only while  *)
(* Backlog events or more wait for the reader.  Offering never waits.      *)
(***************************************************************************)
EXTENDS Naturals, Sequences

CONSTANT Backlog

VARIABLES
  offered,  \* how many events were offered
  waiting,  \* events the reader has yet to see, oldest first
  seen,     \* events the reader saw, oldest first
  open      \* more events may be offered

lossyVars == <<offered, waiting, seen, open>>

LossyInit ==
  /\ offered = 0 /\ waiting = <<>> /\ seen = <<>> /\ open = TRUE

Offer ==
  /\ open
  /\ offered' = offered + 1
  /\ waiting' = Append(waiting, offered + 1)
  /\ UNCHANGED <<seen, open>>

Lose ==
  /\ open /\ Len(waiting) >= Backlog
  /\ offered' = offered + 1
  /\ UNCHANGED <<waiting, seen, open>>

See ==
  /\ waiting # <<>>
  /\ seen' = Append(seen, Head(waiting))
  /\ waiting' = Tail(waiting)
  /\ UNCHANGED <<offered, open>>

End ==
  /\ open
  /\ open' = FALSE
  /\ UNCHANGED <<offered, waiting, seen>>

LossyNext == Offer \/ Lose \/ See \/ End

LossySpec == LossyInit /\ [][LossyNext]_lossyVars
================================================================================
