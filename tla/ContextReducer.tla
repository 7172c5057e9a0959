------------------------------ MODULE ContextReducer -------------------------------
(***************************************************************************)
(* What of a session's history goes into the prompt: TrimHistory, which is *)
(* HybridReducer of domain/agent/service/context/reducer.  A history that  *)
(* fits the budget stays as it is.  Of a longer one the most important     *)
(* messages and the latest ones are kept, and if these are still too long, *)
(* the latest of them.  Reducing never reorders: a reduced history is      *)
(* given by the indices that are kept.                                     *)
(*                                                                         *)
(* The history grows by one message at a time.  A message is its role and  *)
(* its text: two messages with the same of both count as one (sameMessage).*)
(***************************************************************************)
EXTENDS Naturals, Sequences, SequencesExt, FiniteSetsExt

CONSTANTS
  MessageTexts,    \* the texts a message may have
  Tokens,          \* how long each is, by the estimate of the reducers
  Overhead,        \* what selecting a message adds to that (4)
  Budgets,         \* the budgets to trim to (half the tokens of a run)
  MaxMessages      \* bound: messages of the history (100 are loaded)

ASSUME ReducerAssumption ==
  /\ Tokens \in [MessageTexts -> Nat] /\ Overhead \in Nat
  /\ Budgets \subseteq Nat \ {0} /\ MaxMessages \in Nat

VARIABLE history

Priority == [user |-> 2, assistant |-> 2, tool |-> 1]

Messages == [role : {"user", "tool"}, text : MessageTexts]

ReducerInit == history = <<>>

(* A run saves a message, for the next run to load.                        *)
Remember(m) == Len(history) < MaxMessages /\ history' = Append(history, m)

ReducerNext == \E m \in Messages : Remember(m)

--------------------------------------------------------------------------------

Estimate(h, I) == MapThenSumSet(LAMBDA i : Tokens[h[i].text], I)
Cost(h, i) == Tokens[h[i].text] + Overhead
Costs(h, I) == MapThenSumSet(LAMBDA i : Cost(h, i), I)

From(I, i) == {k \in I : k >= i}
LastTwo(I) == {i \in I : Cardinality(From(I, i)) <= 2}

(* SlidingWindowReducer: as many of the last messages as fit.              *)
Sliding(h, I, budget) == {i \in I : Costs(h, From(I, i)) <= budget} \cup LastTwo(I)

(* PriorityReducer: the important ones first, and of these the later; what *)
(* does not fit is passed over.                                            *)
ByPriority(h, budget) ==
  LET Better(i, j) == \/ Priority[h[i].role] > Priority[h[j].role]
                      \/ Priority[h[i].role] = Priority[h[j].role] /\ i > j
      Take(kept, i) ==
        IF Costs(h, kept \cup {i}) > budget /\ Cardinality(kept) >= 2
        THEN kept ELSE kept \cup {i}
  IN FoldLeft(Take, {}, SetToSortSeq(DOMAIN h, Better)) \cup LastTwo(DOMAIN h)

(* The first message that is the same stands for each.                     *)
IndexSet(h, I) ==
  {k \in DOMAIN h : (\E i \in I : h[i] = h[k]) /\ \A j \in 1 .. k - 1 : h[j] # h[k]}

TrimHistory_ImportantOnly(h, budget) ==
  IF Estimate(h, DOMAIN h) <= budget THEN DOMAIN h
  ELSE LET kept == IndexSet(h, ByPriority(h, budget)) \cup LastTwo(DOMAIN h)
       IN IF Estimate(h, kept) <= budget THEN kept ELSE Sliding(h, kept, budget)

TrimHistory(h, budget) ==
  IF Estimate(h, DOMAIN h) <= budget THEN DOMAIN h
  ELSE LET kept == IndexSet(h, ByPriority(h, budget))
                     \cup IndexSet(h, Sliding(h, DOMAIN h, budget))
                     \cup LastTwo(DOMAIN h)
       IN IF Estimate(h, kept) <= budget THEN kept ELSE Sliding(h, kept, budget)

--------------------------------------------------------------------------------
(* Properties *)

(* Message i, and all after it, would fit into the budget.                 *)
FitsFrom(h, i, budget) == Costs(h, From(DOMAIN h, i)) <= budget

(* A trimmed history is within its budget, unless it is down to the last   *)
(* two messages, which are always there; and of the messages at its end    *)
(* that fit into the budget none is missing, unless the same was said      *)
(* before: of two that are the same the first is kept, and may then fall   *)
(* out of the window.                                                      *)
TrimKeepsTheEnd ==
  \A budget \in Budgets :
    LET kept == TrimHistory(history, budget)
    IN /\ LastTwo(DOMAIN history) \subseteq kept
       /\ Estimate(history, kept) <= budget \/ Cardinality(kept) <= 2
       /\ \A i \in DOMAIN history \ kept :
            FitsFrom(history, i, budget) => \E k \in 1 .. i - 1 : history[k] = history[i]
================================================================================
