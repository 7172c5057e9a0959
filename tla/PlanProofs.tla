------------------------------- MODULE PlanProofs -------------------------------
(* Proofs about the task plan: however the runs of a session race on it,   *)
(* it never claims more than was done, and runs that follow one another    *)
(* share the cached one; for any runs, tools and outlines.                 *)
EXTENDS TaskPlan, FiniteSetTheorems, TLAPS

(* What a local state may hold; the names keep what is said of records     *)
(* apart from what is said of their fields.                                *)
Flags == BOOLEAN

PlanNames == Runs \cup {None}

ToolNames == Tools \cup {None}

Locals == [at : Labels, tries : Nat, worthy : Flags, plan : PlanNames, tool : ToolNames,
           i : Nat, text : {"running", "done"}, left : SUBSET {"text", "len"}, moves : Flags,
           tools : Nat]

PlansTyped ==
  /\ cache \in Runs \cup {None}
  /\ plan \in [Runs -> Plans \cup {None}]
  /\ run \in [Runs -> Locals]
  /\ worked \in [Runs -> Nat]
  /\ overlap \in BOOLEAN

PlansFit ==
  \A p \in Runs : plan[p] # None =>
    Len(plan[p].status) = Len(plan[p].expected) /\ plan[p].current <= Len(plan[p].expected)

Planless == {"idle", "lookup", "should", "break"}

Looking == {"running", "expected", "pending", "start", "write", "index"}

(* With these plans, a run has made none before it works, one that works   *)
(* has a plan that was made, and one that looks at a subtask looks at one  *)
(* of those there are.                                                     *)
Knows(r, l, plans) ==
  /\ l.at \in Planless => plans[r] = None
  /\ l.at \notin Planless \cup {"done"} => l.plan \in Runs /\ plans[l.plan] # None
  /\ l.at \in Looking => l.i \in 1 .. Len(plans[l.plan].status)

RunsKnow ==
  /\ cache # None => plan[cache] # None
  /\ \A r \in Runs : Knows(r, run[r], plan)

(* A run owes a subtask between the execution of its tool and the last     *)
(* word it writes.                                                         *)
Writing(l) == l.at = "write" /\ l.text = "done"

Owing(l) == l.at \in {"running", "expected", "pending"} \/ Writing(l)

Unspent(p) == {r \in Runs : run[r].plan = p /\ Owing(run[r])}

BeingWritten(p) == {run[r].i : r \in {q \in Runs : run[q].plan = p /\ Writing(run[q])}}

Counted(p) == Finished(p) \ BeingWritten(p)

(* Each finished subtask that nobody is writing, and each run that owes    *)
(* one, has a tool of its own.                                             *)
Earned ==
  \A p \in Runs : plan[p] # None =>
    Cardinality(Counted(p)) + Cardinality(Unspent(p)) <= worked[p]

PlanInv == PlansTyped /\ PlansFit /\ RunsKnow /\ Earned

--------------------------------------------------------------------------------
(* What the invariant says of one plan and of one run *)

USE DEF At

LEMMA PlanTypes ==
  ASSUME PlansTyped, NEW p \in Runs, plan[p] # None
  PROVE  /\ plan[p] \in Plans /\ plan[p].expected \in Outlines
         /\ plan[p].status \in Seq(Words) /\ plan[p].current \in Nat
BY DEF PlansTyped, Plans

LEMMA RunTypes ==
  ASSUME PlansTyped, NEW r \in Runs
  PROVE  /\ run[r] \in Locals /\ run[r].at \in Labels /\ run[r].plan \in Runs \cup {None}
         /\ run[r].i \in Nat /\ run[r].text \in {"running", "done"}
         /\ run[r].left \subseteq {"text", "len"} /\ run[r].moves \in BOOLEAN
BY DEF PlansTyped, Locals, PlanNames, Flags

(* The sets that are counted are finite. *)
LEMMA CountsAreFinite ==
  ASSUME PlansTyped, NEW p \in Runs, plan[p] # None
  PROVE  /\ IsFiniteSet(Finished(p)) /\ IsFiniteSet(Counted(p)) /\ IsFiniteSet(Unspent(p))
         /\ Cardinality(Counted(p)) \in Nat /\ Cardinality(Unspent(p)) \in Nat
<1> DEFINE n == Len(plan[p].status)
<1>1. plan[p].status \in Seq(Words)
  BY PlanTypes
<1>2. DOMAIN plan[p].status = 1 .. n /\ n \in Int /\ 1 \in Int
  BY <1>1
<1> HIDE DEF n
<1>3. IsFiniteSet(1 .. n)
  BY <1>2, FS_Interval
<1>4. Finished(p) \subseteq 1 .. n
  BY <1>2 DEF Finished
<1>5. IsFiniteSet(Finished(p))
  BY <1>3, <1>4, FS_Subset
<1>6. IsFiniteSet(Counted(p))
  BY <1>5, FS_Subset DEF Counted
<1>7. IsFiniteSet(Unspent(p))
  BY PlanAssumption, FS_Subset DEF Unspent
<1>8. QED
  BY <1>5, <1>6, <1>7, FS_CardinalityType

(* At most as many subtasks are being written as runs owe one. *)
LEMMA FinishedIsCovered ==
  ASSUME PlansTyped, NEW p \in Runs, plan[p] # None
  PROVE  /\ Cardinality(Finished(p)) \in Nat
         /\ Cardinality(Finished(p)) <= Cardinality(Counted(p)) + Cardinality(Unspent(p))
<1> DEFINE writers == {q \in Runs : run[q].plan = p /\ Writing(run[q])}
           written == BeingWritten(p)
           I == [q \in writers |-> run[q].i]
<1>1. IsFiniteSet(Counted(p)) /\ IsFiniteSet(Unspent(p)) /\ IsFiniteSet(Finished(p))
  BY CountsAreFinite
<1>2. writers \subseteq Unspent(p)
  BY DEF Unspent, Owing
<1>3. IsFiniteSet(writers) /\ Cardinality(writers) <= Cardinality(Unspent(p))
  BY <1>1, <1>2, FS_Subset
<1>4. I \in Surjection(writers, written)
  BY DEF Surjection, BeingWritten
<1>5. IsFiniteSet(written) /\ Cardinality(written) <= Cardinality(writers)
  BY <1>3, <1>4, FS_Surjection
<1>6. IsFiniteSet(Counted(p) \cup written)
      /\ Cardinality(Counted(p) \cup written)
           = Cardinality(Counted(p)) + Cardinality(written) - Cardinality(Counted(p) \cap written)
  BY <1>1, <1>5, FS_Union
<1>7. Finished(p) \subseteq Counted(p) \cup written
  BY DEF Counted
<1>8. Cardinality(Finished(p)) <= Cardinality(Counted(p) \cup written)
  BY <1>6, <1>7, FS_Subset
<1>9. Counted(p) \cap written = {}
  BY DEF Counted
<1>10. Cardinality(Counted(p) \cap written) = 0
  BY <1>9, FS_EmptySet
<1>11. /\ Cardinality(Finished(p)) \in Nat /\ Cardinality(Counted(p)) \in Nat
       /\ Cardinality(written) \in Nat /\ Cardinality(writers) \in Nat
       /\ Cardinality(Unspent(p)) \in Nat
  BY <1>1, <1>3, <1>5, FS_CardinalityType
<1> HIDE DEF writers, written
<1>12. QED
  BY <1>3, <1>5, <1>6, <1>8, <1>10, <1>11

LEMMA PlanInvGives == PlanInv => DoneIsEarned
<1> SUFFICES ASSUME PlanInv PROVE DoneIsEarned
  OBVIOUS
<1>1. PlansTyped
  BY DEF PlanInv
<1>2. ASSUME NEW p \in Runs, plan[p] # None
      PROVE  /\ plan[p].expected \in Outlines
             /\ plan[p].status \in [DOMAIN plan[p].expected -> Words]
             /\ plan[p].current \in 0 .. Len(plan[p].expected)
  <2>1. /\ plan[p].expected \in Outlines /\ plan[p].status \in Seq(Words)
        /\ plan[p].current \in Nat
    BY <1>1, <1>2, PlanTypes
  <2>2. Len(plan[p].status) = Len(plan[p].expected) /\ plan[p].current <= Len(plan[p].expected)
    BY <1>2 DEF PlanInv, PlansFit
  <2>3. plan[p].expected \in Seq(SUBSET Tools)
    BY <2>1, PlanAssumption
  <2>4. QED
    BY <2>1, <2>2, <2>3
<1>3. ASSUME NEW r \in Runs
      PROVE  /\ run[r].at \in Labels
             /\ run[r].at \notin {"idle", "lookup", "should", "break", "done"} =>
                  run[r].plan \in Runs /\ plan[run[r].plan] # None
             /\ run[r].left \subseteq {"text", "len"}
  <2>1. Knows(r, run[r], plan)
    BY DEF PlanInv, RunsKnow
  <2>2. QED
    BY <1>1, <2>1, RunTypes DEF Knows, Planless
<1>4. PlanTypeOK
  BY <1>1, <1>2, <1>3 DEF PlanTypeOK, PlansTyped
<1>5. ASSUME NEW p \in Runs, plan[p] # None PROVE Cardinality(Finished(p)) <= worked[p]
  <2>1. Cardinality(Counted(p)) + Cardinality(Unspent(p)) <= worked[p]
    BY <1>5 DEF PlanInv, Earned
  <2>2. worked[p] \in Nat
    BY <1>1 DEF PlansTyped
  <2>3. QED
    BY <1>1, <1>5, <2>1, <2>2, FinishedIsCovered, CountsAreFinite
<1>6. QED
  BY <1>4, <1>5 DEF DoneIsEarned

--------------------------------------------------------------------------------
(* What a step does *)

(* A step of r gives it a new local state and leaves the others alone. *)
LEMMA RunBecomes ==
  ASSUME PlansTyped, NEW r \in Runs, NEW local \in Locals, run' = [run EXCEPT ![r] = local]
  PROVE  /\ run' \in [Runs -> Locals] /\ run'[r] = local
         /\ \A q \in Runs : q # r => run'[q] = run[q]
BY DEF PlansTyped

(* A plan keeps its subtasks; and who makes a plan makes its first.        *)
PlansStay(r) ==
  /\ \A p \in Runs : plan[p] # None =>
       plan'[p] # None /\ Len(plan'[p].status) = Len(plan[p].status)
  /\ \A q \in Runs : q # r /\ plan[q] = None => plan'[q] = None

(* The others know what they knew. *)
LEMMA KnowledgeStays ==
  ASSUME PlanInv, NEW r \in Runs, NEW local \in Locals, run' = [run EXCEPT ![r] = local],
         PlansStay(r), cache' # None => cache' \in Runs /\ plan'[cache'] # None,
         Knows(r, local, plan')
  PROVE  RunsKnow'
<1>1. /\ run'[r] = local
      /\ \A q \in Runs : q # r => run'[q] = run[q]
  BY RunBecomes DEF PlanInv
<1>2. ASSUME NEW q \in Runs, q # r PROVE Knows(q, run'[q], plan')
  <2>1. Knows(q, run[q], plan)
    BY DEF PlanInv, RunsKnow
  <2>2. run[q].at \in Looking => run[q].at \notin Planless \cup {"done"}
    BY DEF Looking, Planless
  <2>3. run[q].at \in Planless => plan'[q] = None
    BY <1>2, <2>1 DEF Knows, PlansStay
  <2>4. run[q].at \notin Planless \cup {"done"} =>
          /\ run[q].plan \in Runs /\ plan'[run[q].plan] # None
          /\ Len(plan'[run[q].plan].status) = Len(plan[run[q].plan].status)
    BY <2>1 DEF Knows, PlansStay
  <2>5. run[q].at \in Looking => run[q].i \in 1 .. Len(plan'[run[q].plan].status)
    BY <2>1, <2>2, <2>4 DEF Knows
  <2>6. QED
    BY <1>1, <1>2, <2>3, <2>4, <2>5 DEF Knows
<1>3. ASSUME NEW q \in Runs PROVE Knows(q, run'[q], plan')
  <2>1. CASE q = r
    BY <1>1, <2>1 DEF Knows
  <2>2. QED
    BY <1>2, <2>1
<1>4. QED
  BY <1>3 DEF RunsKnow

(* What a plan has earned stays earned when no more is counted.            *)
LEMMA StaysEarned ==
  ASSUME PlanInv, NEW p \in Runs, plan[p] # None, worked'[p] = worked[p],
         Counted(p)' \subseteq Counted(p), Unspent(p)' \subseteq Unspent(p)
  PROVE  Cardinality(Counted(p)') + Cardinality(Unspent(p)') <= worked'[p]
<1>1. IsFiniteSet(Counted(p)) /\ IsFiniteSet(Unspent(p))
      /\ Cardinality(Counted(p)) \in Nat /\ Cardinality(Unspent(p)) \in Nat
  BY CountsAreFinite DEF PlanInv
<1>2. IsFiniteSet(Counted(p)') /\ Cardinality(Counted(p)') <= Cardinality(Counted(p))
  BY <1>1, FS_Subset
<1>3. IsFiniteSet(Unspent(p)') /\ Cardinality(Unspent(p)') <= Cardinality(Unspent(p))
  BY <1>1, FS_Subset
<1>4. Cardinality(Counted(p)') \in Nat /\ Cardinality(Unspent(p)') \in Nat
  BY <1>2, <1>3, FS_CardinalityType
<1>5. Cardinality(Counted(p)) + Cardinality(Unspent(p)) <= worked[p] /\ worked[p] \in Nat
  BY DEF PlanInv, Earned, PlansTyped
<1> DEFINE a == Cardinality(Counted(p)')
           b == Cardinality(Unspent(p)')
           c == Cardinality(Counted(p))
           d == Cardinality(Unspent(p))
<1> HIDE DEF a, b, c, d
<1>6. a \in Nat /\ b \in Nat /\ c \in Nat /\ d \in Nat /\ a <= c /\ b <= d /\ c + d <= worked[p]
  BY <1>1, <1>2, <1>3, <1>4, <1>5 DEF a, b, c, d
<1>7. a + b <= worked'[p]
  BY <1>5, <1>6
<1>8. QED
  BY <1>7 DEF a, b

(* Nothing is earned that was not, and nothing owed that was not.          *)
LEMMA NothingIsCounted ==
  ASSUME PlanInv,
         \A p \in Runs : plan'[p] # None =>
           /\ plan[p] # None /\ Counted(p)' \subseteq Counted(p)
           /\ Unspent(p)' \subseteq Unspent(p) /\ worked'[p] = worked[p]
  PROVE  Earned'
<1> SUFFICES ASSUME NEW p \in Runs, plan'[p] # None
             PROVE  Cardinality(Counted(p)') + Cardinality(Unspent(p)') <= worked'[p]
  BY DEF Earned
<1>1. QED
  BY StaysEarned

(* An element more. *)
LEMMA AddsOne ==
  ASSUME NEW S, IsFiniteSet(S), Cardinality(S) \in Nat, NEW x
  PROVE  IsFiniteSet(S \cup {x}) /\ Cardinality(S \cup {x}) <= Cardinality(S) + 1
<1>1. /\ IsFiniteSet(S \cup {x})
      /\ Cardinality(S \cup {x}) = IF x \in S THEN Cardinality(S) ELSE Cardinality(S) + 1
  BY FS_AddElement, ZenonT(40)
<1>2. QED
  BY <1>1

(* The last word of a subtask is written: it counts, and r owes it no more. *)
LEMMA OneIsSettled ==
  ASSUME PlanInv, NEW p \in Runs, plan[p] # None, worked'[p] = worked[p], NEW i \in Nat, NEW r \in Runs,
         Counted(p)' \subseteq Counted(p) \cup {i},
         r \in Unspent(p), Unspent(p)' \subseteq Unspent(p) \ {r}
  PROVE  Cardinality(Counted(p)') + Cardinality(Unspent(p)') <= worked'[p]
<1> DEFINE C == Counted(p)
           D == Unspent(p)
<1>1. IsFiniteSet(C) /\ IsFiniteSet(D) /\ Cardinality(C) \in Nat /\ Cardinality(D) \in Nat
  BY CountsAreFinite DEF PlanInv
<1>2. Cardinality(C) + Cardinality(D) <= worked[p] /\ worked[p] \in Nat
  BY DEF PlanInv, Earned, PlansTyped
<1> DEFINE C2 == Counted(p)'
           D2 == Unspent(p)'
<1>3. C2 \subseteq C \cup {i} /\ r \in D /\ D2 \subseteq D \ {r}
  OBVIOUS
<1> HIDE DEF C, D, C2, D2
<1>4. IsFiniteSet(C \cup {i}) /\ Cardinality(C \cup {i}) <= Cardinality(C) + 1
  BY <1>1, AddsOne, ZenonT(40)
<1>5. IsFiniteSet(D \ {r}) /\ Cardinality(D \ {r}) = Cardinality(D) - 1
  BY <1>1, <1>3, FS_RemoveElement
<1>6. IsFiniteSet(C2) /\ Cardinality(C2) <= Cardinality(C \cup {i})
  BY <1>3, <1>4, FS_Subset
<1>7. IsFiniteSet(D2) /\ Cardinality(D2) <= Cardinality(D \ {r})
  BY <1>3, <1>5, FS_Subset
<1>8. /\ Cardinality(C2) \in Nat /\ Cardinality(D2) \in Nat
      /\ Cardinality(C \cup {i}) \in Nat /\ Cardinality(D \ {r}) \in Nat
  BY <1>4, <1>5, <1>6, <1>7, FS_CardinalityType
<1>9. Cardinality(C2) + Cardinality(D2) <= worked[p]
  BY <1>1, <1>2, <1>4, <1>5, <1>6, <1>7, <1>8
<1>10. QED
  BY <1>9 DEF C2, D2

(* A tool was executed: r owes its subtask, and the tool pays for it.      *)
LEMMA OneIsOwed ==
  ASSUME PlanInv, NEW p \in Runs, plan[p] # None, worked'[p] = worked[p] + 1, NEW r \in Runs,
         Counted(p)' \subseteq Counted(p), Unspent(p)' \subseteq Unspent(p) \cup {r}
  PROVE  Cardinality(Counted(p)') + Cardinality(Unspent(p)') <= worked'[p]
<1> DEFINE C == Counted(p)
           D == Unspent(p)
<1>1. IsFiniteSet(C) /\ IsFiniteSet(D) /\ Cardinality(C) \in Nat /\ Cardinality(D) \in Nat
  BY CountsAreFinite DEF PlanInv
<1>2. Cardinality(C) + Cardinality(D) <= worked[p] /\ worked[p] \in Nat
  BY DEF PlanInv, Earned, PlansTyped
<1> DEFINE C2 == Counted(p)'
           D2 == Unspent(p)'
<1>3. C2 \subseteq C /\ D2 \subseteq D \cup {r}
  OBVIOUS
<1> HIDE DEF C, D, C2, D2
<1>4. IsFiniteSet(D \cup {r}) /\ Cardinality(D \cup {r}) <= Cardinality(D) + 1
  BY <1>1, AddsOne, ZenonT(40)
<1>5. IsFiniteSet(C2) /\ Cardinality(C2) <= Cardinality(C)
  BY <1>1, <1>3, FS_Subset
<1>6. IsFiniteSet(D2) /\ Cardinality(D2) <= Cardinality(D \cup {r})
  BY <1>3, <1>4, FS_Subset
<1>7. Cardinality(C2) \in Nat /\ Cardinality(D2) \in Nat /\ Cardinality(D \cup {r}) \in Nat
  BY <1>4, <1>5, <1>6, FS_CardinalityType
<1>8. Cardinality(C2) + Cardinality(D2) <= worked[p] + 1
  BY <1>1, <1>2, <1>4, <1>5, <1>6, <1>7
<1>9. QED
  BY <1>8 DEF C2, D2

(* A step of r after which it owes nothing it did not owe, and still       *)
(* writes what it was writing, unless that is not finished.                *)
LEMMA RunMoves ==
  ASSUME PlansTyped, NEW r \in Runs, NEW local \in Locals, run' = [run EXCEPT ![r] = local],
         Owing(local) => Owing(run[r]) /\ local.plan = run[r].plan,
         Writing(run[r]) => Writing(local) /\ local.plan = run[r].plan /\ local.i = run[r].i,
         NEW p \in Runs, Finished(p)' \subseteq Finished(p) \cup BeingWritten(p)
  PROVE  Counted(p)' \subseteq Counted(p) /\ Unspent(p)' \subseteq Unspent(p)
<1>1. /\ run'[r] = local
      /\ \A q \in Runs : q # r => run'[q] = run[q]
  BY RunBecomes
<1>2. Unspent(p)' \subseteq Unspent(p)
  BY <1>1 DEF Unspent
<1>3. BeingWritten(p) \subseteq BeingWritten(p)'
  <2> SUFFICES ASSUME NEW q \in Runs, run[q].plan = p, Writing(run[q])
               PROVE  run[q].i \in BeingWritten(p)'
    BY DEF BeingWritten
  <2>1. run'[q].plan = p /\ Writing(run'[q]) /\ run'[q].i = run[q].i
    BY <1>1
  <2>2. QED
    BY <2>1 DEF BeingWritten, Writing
<1>4. QED
  BY <1>2, <1>3 DEF Counted

(* A step that leaves the plans alone, and after which r owes nothing new. *)
LEMMA PlansAlone ==
  ASSUME PlanInv, NEW r \in Runs, NEW local \in Locals, run' = [run EXCEPT ![r] = local],
         UNCHANGED <<plan, worked>>, cache' = cache,
         overlap' \in BOOLEAN, Knows(r, local, plan),
         Owing(local) => Owing(run[r]) /\ local.plan = run[r].plan,
         Writing(run[r]) => Writing(local) /\ local.plan = run[r].plan /\ local.i = run[r].i
  PROVE  PlanInv'
<1>1. PlansTyped /\ PlansFit /\ RunsKnow
  BY DEF PlanInv
<1>2. PlansTyped'
  BY <1>1, RunBecomes DEF PlansTyped
<1>3. PlansFit'
  BY <1>1 DEF PlansFit
<1>4. RunsKnow'
  <2>1. PlansStay(r)
    BY DEF PlansStay
  <2>2. Knows(r, local, plan')
    BY DEF Knows
  <2>3. cache' # None => cache' \in Runs /\ plan'[cache'] # None
    BY <1>1 DEF RunsKnow, PlansTyped
  <2>4. QED
    BY <2>1, <2>2, <2>3, KnowledgeStays
<1>5. ASSUME NEW p \in Runs PROVE Finished(p)' \subseteq Finished(p) \cup BeingWritten(p)
  BY DEF Finished
<1>6. Earned'
  BY <1>1, <1>2, <1>5, RunMoves, NothingIsCounted
<1>7. QED
  BY <1>2, <1>3, <1>4, <1>6 DEF PlanInv

--------------------------------------------------------------------------------
(* The steps that leave the plans alone *)

(* What the steps on the way to a plan make of the local state. *)
LEMMA LocalGoes ==
  ASSUME NEW l \in Locals, NEW at \in Labels
  PROVE  /\ [l EXCEPT !.at = at] \in Locals
         /\ [l EXCEPT !.at = at].at = at
BY DEF Locals

LEMMA LocalTakes ==
  ASSUME NEW l \in Locals, NEW at \in Labels, NEW p \in PlanNames
  PROVE  LET local == [l EXCEPT !.at = at, !.plan = p]
         IN  local \in Locals /\ local.at = at /\ local.plan = p
BY DEF Locals

LEMMA LocalRetries ==
  ASSUME NEW l \in Locals
  PROVE  /\ [l EXCEPT !.at = "lookup", !.tries = 1] \in Locals
         /\ [l EXCEPT !.at = "lookup", !.tries = 1].at = "lookup"
BY DEF Locals, Labels

LEMMA LocalStarts ==
  ASSUME NEW l \in Locals, NEW tries \in {1, 2}, NEW worthy \in Flags
  PROVE  /\ [l EXCEPT !.at = "lookup", !.tries = tries, !.worthy = worthy] \in Locals
         /\ [l EXCEPT !.at = "lookup", !.tries = tries, !.worthy = worthy].at = "lookup"
<1>1. tries \in Nat /\ "lookup" \in Labels
  BY DEF Labels
<1> DEFINE a == [l EXCEPT !.at = "lookup", !.tries = tries]
<1>2. a \in Locals /\ a.at = "lookup"
  BY <1>1 DEF Locals
<1>3. [l EXCEPT !.at = "lookup", !.tries = tries, !.worthy = worthy] = [a EXCEPT !.worthy = worthy]
  BY DEF Locals
<1> HIDE DEF a
<1>4. [a EXCEPT !.worthy = worthy] \in Locals /\ [a EXCEPT !.worthy = worthy].at = "lookup"
  BY <1>2 DEF Locals
<1>5. QED
  BY <1>3, <1>4

LEMMA IdleTyped == Idle \in Locals /\ Idle.at = "idle"
BY DEF Idle, Locals, Labels, Flags, PlanNames, ToolNames

(* What Ready makes of it, as it is or with a search to follow. *)
LEMMA LocalReady ==
  ASSUME NEW p \in PlanNames, NEW n \in Nat
  PROVE  /\ [Idle EXCEPT !.at = "ready", !.plan = p, !.tools = n] \in Locals
         /\ [Idle EXCEPT !.at = "ready", !.plan = p, !.tools = n].at = "ready"
         /\ [Idle EXCEPT !.at = "ready", !.plan = p, !.tools = n].plan = p
BY IdleTyped DEF Locals, Labels

LEMMA LocalSearches ==
  ASSUME NEW l \in Locals
  PROVE  /\ [l EXCEPT !.at = "start", !.i = 1] \in Locals
         /\ [l EXCEPT !.at = "start", !.i = 1].at = "start"
         /\ [l EXCEPT !.at = "start", !.i = 1].plan = l.plan
         /\ [l EXCEPT !.at = "start", !.i = 1].i = 1
BY DEF Locals, Labels

LEMMA ReadyTyped ==
  ASSUME PlansTyped, NEW r \in Runs
  PROVE  /\ Ready(r) \in Locals /\ Ready(r).at = "ready" /\ Ready(r).plan = run[r].plan
         /\ [Ready(r) EXCEPT !.at = "start", !.i = 1] \in Locals
         /\ [Ready(r) EXCEPT !.at = "start", !.i = 1].at = "start"
         /\ [Ready(r) EXCEPT !.at = "start", !.i = 1].plan = run[r].plan
         /\ [Ready(r) EXCEPT !.at = "start", !.i = 1].i = 1
<1>1. run[r].plan \in PlanNames /\ run[r].tools \in Nat
  BY DEF PlansTyped, Locals
<1>2. Ready(r) \in Locals /\ Ready(r).at = "ready" /\ Ready(r).plan = run[r].plan
  BY <1>1, LocalReady, Zenon DEF Ready
<1>3. /\ [Ready(r) EXCEPT !.at = "start", !.i = 1] \in Locals
      /\ [Ready(r) EXCEPT !.at = "start", !.i = 1].at = "start"
      /\ [Ready(r) EXCEPT !.at = "start", !.i = 1].plan = Ready(r).plan
      /\ [Ready(r) EXCEPT !.at = "start", !.i = 1].i = 1
  BY <1>2, LocalSearches, Zenon
<1>4. QED
  BY <1>2, <1>3, Zenon

(* A step among the places that owe nothing. *)
LEMMA FreeMoves ==
  ASSUME PlanInv, NEW r \in Runs, NEW local \in Locals, run' = [run EXCEPT ![r] = local],
         UNCHANGED <<cache, plan, worked>>, overlap' \in BOOLEAN,
         local.at \notin {"running", "expected", "pending", "write"}, run[r].at # "write",
         Knows(r, local, plan)
  PROVE  PlanInv'
BY PlansAlone DEF Owing, Writing

LEMMA StartStep ==
  ASSUME PlanInv, NEW r \in Runs, NEW tries \in {1, 2}, NEW worthy \in BOOLEAN,
         Start(r, tries, worthy)
  PROVE  PlanInv'
<1> DEFINE local == [run[r] EXCEPT !.at = "lookup", !.tries = tries, !.worthy = worthy]
<1>1. run' = [run EXCEPT ![r] = local]
  BY DEF Start
<1>2. run[r] \in Locals /\ overlap \in BOOLEAN
  BY DEF PlanInv, PlansTyped
<1>4. local \in Locals /\ local.at = "lookup"
  BY <1>2, LocalStarts, Zenon DEF Flags
<1>5. Knows(r, run[r], plan)
  BY DEF PlanInv, RunsKnow
<1> HIDE DEF local
<1>6. Knows(r, local, plan)
  BY <1>4, <1>5 DEF Knows, Start, Planless, Looking
<1>7. overlap' \in BOOLEAN
  BY <1>2 DEF Start
<1>8. QED
  BY <1>1, <1>4, <1>6, <1>7, FreeMoves DEF Start

LEMMA ContinueStep ==
  ASSUME PlanInv, NEW r \in Runs, Continue(r)
  PROVE  PlanInv'
<1>1. run[r] \in Locals /\ overlap' \in BOOLEAN /\ cache \in PlanNames
  BY DEF PlanInv, PlansTyped, PlanNames, Continue
<1>2. "begin" \in Labels /\ "done" \in Labels
  BY DEF Labels
<1>3. cache # None => cache \in Runs /\ plan[cache] # None
  BY <1>1 DEF PlanNames, PlanInv, RunsKnow
<1>4. CASE cache # None
  <2> DEFINE local == [run[r] EXCEPT !.at = "begin", !.plan = cache]
  <2>1. run' = [run EXCEPT ![r] = local]
    BY <1>4 DEF Continue
  <2>2. local \in Locals /\ local.at = "begin" /\ local.plan = cache
    BY <1>1, <1>2, LocalTakes, ZenonT(40)
  <2> HIDE DEF local
  <2>3. Knows(r, local, plan)
    BY <1>3, <1>4, <2>2 DEF Knows, Planless, Looking
  <2>4. QED
    BY <1>1, <2>1, <2>2, <2>3, FreeMoves DEF Continue
<1>5. CASE cache = None
  <2> DEFINE local == [run[r] EXCEPT !.at = "done", !.plan = cache]
  <2>1. run' = [run EXCEPT ![r] = local]
    BY <1>5 DEF Continue
  <2>2. local \in Locals /\ local.at = "done" /\ local.plan = cache
    BY <1>1, <1>2, LocalTakes, ZenonT(40)
  <2> HIDE DEF local
  <2>3. Knows(r, local, plan)
    BY <2>2 DEF Knows, Planless, Looking
  <2>4. QED
    BY <1>1, <2>1, <2>2, <2>3, FreeMoves DEF Continue
<1>6. QED
  BY <1>4, <1>5

(* No plan came of it. *)
LEMMA WithoutPlanStep ==
  ASSUME PlanInv, NEW r \in Runs, run[r].at \in Planless, WithoutPlan(r),
         UNCHANGED <<cache, plan, worked, overlap>>
  PROVE  PlanInv'
<1>1. run[r] \in Locals /\ overlap \in BOOLEAN
  BY DEF PlanInv, PlansTyped
<1>2. plan[r] = None
  BY DEF PlanInv, RunsKnow, Knows
<1>3. "lookup" \in Labels /\ "done" \in Labels
  BY DEF Labels
<1>4. CASE run[r].tries > 1
  <2> DEFINE local == [run[r] EXCEPT !.at = "lookup", !.tries = 1]
  <2>1. run' = [run EXCEPT ![r] = local]
    BY <1>4 DEF WithoutPlan
  <2>2. local \in Locals /\ local.at = "lookup"
    BY <1>1, LocalRetries, Zenon
  <2> HIDE DEF local
  <2>3. Knows(r, local, plan)
    BY <1>2, <2>2 DEF Knows, Planless, Looking
  <2>4. QED
    BY <1>1, <2>1, <2>2, <2>3, FreeMoves DEF Planless
<1>5. CASE ~(run[r].tries > 1)
  <2> DEFINE local == [run[r] EXCEPT !.at = "done"]
  <2>1. run' = [run EXCEPT ![r] = local]
    BY <1>5 DEF WithoutPlan, Goes
  <2>2. local \in Locals /\ local.at = "done"
    BY <1>1, <1>3, LocalGoes, Zenon
  <2> HIDE DEF local
  <2>3. Knows(r, local, plan)
    BY <2>2 DEF Knows, Planless, Looking
  <2>4. QED
    BY <1>1, <2>1, <2>2, <2>3, FreeMoves DEF Planless
<1>6. QED
  BY <1>4, <1>5

LEMMA LookupStep ==
  ASSUME PlanInv, NEW r \in Runs, Lookup(r)
  PROVE  PlanInv'
<1>1. run[r] \in Locals /\ overlap \in BOOLEAN /\ cache \in PlanNames
  BY DEF PlanInv, PlansTyped, PlanNames
<1>2. plan[r] = None /\ run[r].at # "write"
  BY DEF PlanInv, RunsKnow, Knows, Lookup, Planless
<1>3. "begin" \in Labels /\ "should" \in Labels
  BY DEF Labels
<1>4. CASE cache # None
  <2> DEFINE local == [run[r] EXCEPT !.at = "begin", !.plan = cache]
  <2>1. run' = [run EXCEPT ![r] = local]
    BY <1>4 DEF Lookup
  <2>2. local \in Locals /\ local.at = "begin" /\ local.plan = cache
    BY <1>1, <1>3, LocalTakes, ZenonT(40)
  <2> HIDE DEF local
  <2>3. Knows(r, local, plan)
    BY <1>1, <1>4, <2>2 DEF Knows, Planless, Looking, PlanInv, RunsKnow, PlanNames
  <2>4. QED
    BY <1>1, <1>2, <2>1, <2>2, <2>3, FreeMoves DEF Lookup
<1>5. CASE cache = None
  <2> DEFINE local == [run[r] EXCEPT !.at = "should"]
  <2>1. run' = [run EXCEPT ![r] = local]
    BY <1>5 DEF Lookup, Goes
  <2>2. local \in Locals /\ local.at = "should"
    BY <1>1, <1>3, LocalGoes, Zenon
  <2> HIDE DEF local
  <2>3. Knows(r, local, plan)
    BY <1>2, <2>2 DEF Knows, Planless, Looking
  <2>4. QED
    BY <1>1, <1>2, <2>1, <2>2, <2>3, FreeMoves DEF Lookup
<1>6. QED
  BY <1>4, <1>5

LEMMA ShouldStep ==
  ASSUME PlanInv, NEW r \in Runs, Should(r)
  PROVE  PlanInv'
<1>1. run[r] \in Locals /\ overlap \in BOOLEAN
  BY DEF PlanInv, PlansTyped
<1>2. plan[r] = None /\ run[r].at # "write" /\ run[r].at \in Planless
  BY DEF PlanInv, RunsKnow, Knows, Should, Planless
<1>3. CASE cache = None /\ run[r].worthy
  <2> DEFINE local == [run[r] EXCEPT !.at = "break"]
  <2>1. run' = [run EXCEPT ![r] = local]
    BY <1>3 DEF Should, Goes
  <2>2. "break" \in Labels
    BY DEF Labels
  <2>3. local \in Locals /\ local.at = "break"
    BY <1>1, <2>2, LocalGoes, Zenon
  <2> HIDE DEF local
  <2>4. Knows(r, local, plan)
    BY <1>2, <2>3 DEF Knows, Planless, Looking
  <2>5. QED
    BY <1>1, <1>2, <2>1, <2>3, <2>4, FreeMoves DEF Should
<1>4. CASE ~(cache = None /\ run[r].worthy)
  BY <1>2, <1>4, WithoutPlanStep DEF Should
<1>5. QED
  BY <1>3, <1>4

LEMMA BreakFailsStep ==
  ASSUME PlanInv, NEW r \in Runs, BreakFails(r)
  PROVE  PlanInv'
BY WithoutPlanStep DEF BreakFails, Planless

LEMMA EndStep ==
  ASSUME PlanInv, NEW r \in Runs, End(r)
  PROVE  PlanInv'
<1> DEFINE local == [Idle EXCEPT !.at = "done"]
<1>1. run' = [run EXCEPT ![r] = local]
  BY DEF End
<1>2. "done" \in Labels /\ overlap \in BOOLEAN
  BY DEF Labels, PlanInv, PlansTyped
<1>3. local \in Locals /\ local.at = "done"
  BY <1>2, IdleTyped, LocalGoes, Zenon
<1> HIDE DEF local
<1>4. Knows(r, local, plan)
  BY <1>3 DEF Knows, Planless, Looking
<1>5. QED
  BY <1>1, <1>2, <1>3, <1>4, FreeMoves DEF End

(* A plan that is known has a first subtask. *)
LEMMA FirstSubtask ==
  ASSUME PlanInv, NEW r \in Runs, run[r].at \notin Planless \cup {"done"}
  PROVE  /\ run[r].plan \in Runs /\ plan[run[r].plan] # None
         /\ Len(plan[run[r].plan].status) \in Nat /\ 1 \in 1 .. Len(plan[run[r].plan].status)
<1>1. run[r].plan \in Runs /\ plan[run[r].plan] # None
  BY DEF PlanInv, RunsKnow, Knows
<1> DEFINE p == run[r].plan
<1> HIDE DEF p
<1>2. p \in Runs /\ plan[p] # None
  BY <1>1 DEF p
<1>3. Len(plan[p].status) = Len(plan[p].expected)
  BY <1>2 DEF PlanInv, PlansFit
<1>4. plan[p].expected \in Outlines
  BY <1>2, PlanTypes DEF PlanInv
<1>5. Len(plan[p].expected) \in Nat /\ Len(plan[p].expected) >= 2
  BY <1>4, PlanAssumption
<1>6. QED
  BY <1>1, <1>3, <1>5 DEF p

(* Ready, with or without a search for the next subtask, is known.         *)
LEMMA ReadyKnows ==
  ASSUME PlanInv, NEW r \in Runs, run[r].at \notin Planless \cup {"done"}
  PROVE  /\ Knows(r, Ready(r), plan)
         /\ Knows(r, [Ready(r) EXCEPT !.at = "start", !.i = 1], plan)
<1>1. PlansTyped
  BY DEF PlanInv
<1> DEFINE a == Ready(r)
           b == [Ready(r) EXCEPT !.at = "start", !.i = 1]
<1>2. a.at = "ready" /\ a.plan = run[r].plan /\ b.at = "start" /\ b.plan = run[r].plan /\ b.i = 1
  BY <1>1, ReadyTyped
<1> HIDE DEF a, b
<1>3. Knows(r, a, plan) /\ Knows(r, b, plan)
  BY <1>2, FirstSubtask DEF Knows, Planless, Looking
<1>4. QED
  BY <1>3 DEF a, b

LEMMA BeginStep ==
  ASSUME PlanInv, NEW r \in Runs, Begin(r)
  PROVE  PlanInv'
<1>1. PlansTyped /\ overlap \in BOOLEAN
  BY DEF PlanInv, PlansTyped
<1>2. run[r].at \notin Planless \cup {"done"} /\ run[r].at # "write"
  BY DEF Begin, Planless
<1> DEFINE local == IF Unfinished(run[r].plan) /\ Its(r).current = 0
                    THEN [Ready(r) EXCEPT !.at = "start", !.i = 1]
                    ELSE Ready(r)
<1>3. run' = [run EXCEPT ![r] = local]
  BY DEF Begin
<1>4. local \in Locals /\ local.at \in {"start", "ready"} /\ Knows(r, local, plan)
  BY <1>1, <1>2, ReadyTyped, ReadyKnows
<1> HIDE DEF local
<1>5. QED
  BY <1>1, <1>2, <1>3, <1>4, FreeMoves DEF Begin

(* What a search makes of the local state. *)
Hits(l, text, moves) ==
  [l EXCEPT !.at = "write", !.left = {"text", "len"}, !.text = text, !.moves = moves]

LEMMA LocalWrites ==
  ASSUME NEW l \in Locals, NEW text \in {"running", "done"}, NEW moves \in Flags
  PROVE  LET local == Hits(l, text, moves)
         IN  local \in Locals /\ local.at = "write" /\ local.text = text /\ local.plan = l.plan
             /\ local.i = l.i
<1> DEFINE a == [l EXCEPT !.at = "write", !.left = {"text", "len"}]
           b == [a EXCEPT !.text = text]
           c == [b EXCEPT !.moves = moves]
<1>1. "write" \in Labels /\ {"text", "len"} \in SUBSET {"text", "len"}
  BY DEF Labels
<1>2. a \in Locals /\ a.at = "write" /\ a.plan = l.plan /\ a.i = l.i
  BY <1>1 DEF Locals
<1>3. Hits(l, text, moves) = c
  BY DEF Locals, Hits
<1> HIDE DEF a
<1>4. b \in Locals /\ b.at = "write" /\ b.plan = l.plan /\ b.i = l.i /\ b.text = text
  BY <1>2 DEF Locals
<1> HIDE DEF b
<1>5. c \in Locals /\ c.at = "write" /\ c.plan = l.plan /\ c.i = l.i /\ c.text = text
  BY <1>4 DEF Locals
<1> HIDE DEF c
<1>6. QED
  BY <1>3, <1>5

LEMMA LocalLooks ==
  ASSUME NEW l \in Locals, NEW i \in Nat
  PROVE  LET local == [l EXCEPT !.i = i]
         IN  local \in Locals /\ local.at = l.at /\ local.plan = l.plan /\ local.i = i
BY DEF Locals

LEMMA LocalTurns ==
  ASSUME NEW l \in Locals, NEW at \in Labels
  PROVE  LET local == [l EXCEPT !.at = at, !.i = 1]
         IN  local \in Locals /\ local.at = at /\ local.plan = l.plan /\ local.i = 1
BY DEF Locals

(* Looking changes nobody's claims: who finds a subtask still owes it, and *)
(* who finds none owes nothing any more.                                   *)
LEMMA LookStep ==
  ASSUME PlanInv, NEW r \in Runs, Look(r)
  PROVE  PlanInv'
<1>1. PlansTyped /\ run[r] \in Locals /\ overlap' \in BOOLEAN
  BY DEF PlanInv, PlansTyped, Look
<1> DEFINE at == run[r].at
           n == Len(plan[run[r].plan].status)
<1>2. at \in {"running", "expected", "pending", "start"}
  BY DEF Look, Searching
<1>3. ~Writing(run[r]) /\ (at # "start" => Owing(run[r]))
  BY <1>2 DEF Owing, Writing
<1>4. /\ run[r].plan \in Runs /\ plan[run[r].plan] # None
      /\ n \in Nat /\ 1 \in 1 .. n
  BY <1>2, FirstSubtask DEF Planless
<1>5. run[r].i \in 1 .. n
  BY <1>2 DEF PlanInv, RunsKnow, Knows, Looking
<1>6. CASE Hit(r)
  <2> DEFINE text == IF At(r, "start") THEN "running" ELSE "done"
             moves == ~At(r, "running")
             local == Hits(run[r], text, moves)
  <2>1. run' = [run EXCEPT ![r] = local]
    BY <1>6, Zenon DEF Look, Found, Hits
  <2>2. text \in {"running", "done"} /\ moves \in Flags
    BY DEF Flags
  <2>3. text = "done" => at # "start"
    OBVIOUS
  <2>4. /\ local \in Locals /\ local.at = "write" /\ local.text = text
        /\ local.plan = run[r].plan /\ local.i = run[r].i
    <3> HIDE DEF text, moves
    <3>1. QED
      BY <1>1, <2>2, LocalWrites, SMTT(30)
  <2> HIDE DEF local, text
  <2>5. Knows(r, local, plan)
    BY <1>4, <1>5, <2>4 DEF Knows, Planless, Looking
  <2>6. Owing(local) => Owing(run[r]) /\ local.plan = run[r].plan
    BY <1>3, <2>3, <2>4 DEF Owing, Writing
  <2>7. UNCHANGED <<cache, plan, worked>>
    BY DEF Look
  <2>8. QED
    BY <1>1, <1>3, <2>1, <2>4, <2>5, <2>6, <2>7, PlansAlone
<1>7. CASE ~Hit(r) /\ run[r].i < n
  <2> DEFINE i == run[r].i + 1
             local == [run[r] EXCEPT !.i = i]
  <2>1. run' = [run EXCEPT ![r] = local]
    BY <1>7 DEF Look, Its
  <2>2. i \in Nat /\ i \in 1 .. n
    BY <1>4, <1>5, <1>7
  <2>3. local \in Locals /\ local.at = at /\ local.plan = run[r].plan /\ local.i = i
    <3> HIDE DEF i
    <3>1. QED
      BY <1>1, <2>2, LocalLooks, Zenon
  <2> HIDE DEF local, i
  <2>4. Knows(r, local, plan)
    BY <1>2, <1>4, <2>2, <2>3 DEF Knows, Planless, Looking
  <2>5. Owing(local) => Owing(run[r]) /\ local.plan = run[r].plan
    BY <1>2, <1>3, <2>3 DEF Owing, Writing
  <2>6. UNCHANGED <<cache, plan, worked>>
    BY DEF Look
  <2>7. QED
    BY <1>1, <1>3, <2>1, <2>3, <2>4, <2>5, <2>6, PlansAlone
<1>8. CASE ~Hit(r) /\ ~(run[r].i < n) /\ at \in {"pending", "start"}
  <2> DEFINE local == Ready(r)
  <2>1. run' = [run EXCEPT ![r] = local]
    BY <1>8 DEF Look, Its
  <2>2. local \in Locals /\ local.at = "ready" /\ Knows(r, local, plan)
    BY <1>1, <1>2, ReadyTyped, ReadyKnows DEF Planless
  <2> HIDE DEF local
  <2>3. UNCHANGED <<cache, plan, worked>> /\ at # "write"
    BY <1>2 DEF Look
  <2>4. QED
    BY <1>1, <2>1, <2>2, <2>3, FreeMoves
<1>9. CASE ~Hit(r) /\ ~(run[r].i < n) /\ at \notin {"pending", "start"}
  <2> DEFINE next == NextSearch[at]
             local == [run[r] EXCEPT !.at = next, !.i = 1]
  <2>1. run' = [run EXCEPT ![r] = local]
    BY <1>9, Zenon DEF Look, Its
  <2>2. next \in {"expected", "pending"} /\ next \in Labels
    BY <1>2, <1>9 DEF NextSearch, Labels
  <2>3. local \in Locals /\ local.at = next /\ local.plan = run[r].plan /\ local.i = 1
    <3> HIDE DEF next
    <3>1. QED
      BY <1>1, <2>2, LocalTurns, Zenon
  <2> HIDE DEF local, next
  <2>4. Knows(r, local, plan)
    BY <1>4, <2>2, <2>3 DEF Knows, Planless, Looking
  <2>5. Owing(local) => Owing(run[r]) /\ local.plan = run[r].plan
    BY <1>3, <1>9, <2>3
  <2>6. UNCHANGED <<cache, plan, worked>>
    BY DEF Look
  <2>7. QED
    BY <1>1, <1>3, <2>1, <2>3, <2>4, <2>5, <2>6, PlansAlone
<1>10. QED
  BY <1>6, <1>7, <1>8, <1>9

--------------------------------------------------------------------------------
(* The steps that change a plan, or what was done with it *)

(* A plan that is changed keeps its subtasks. *)
LEMMA PlanChanges ==
  ASSUME PlanInv, NEW r \in Runs, NEW local \in Locals, run' = [run EXCEPT ![r] = local],
         Knows(r, local, plan), UNCHANGED <<cache, worked, overlap>>,
         NEW p \in Runs, plan[p] # None, NEW new \in Plans, plan' = [plan EXCEPT ![p] = new],
         new.expected = plan[p].expected, Len(new.status) = Len(plan[p].status),
         new.current <= Len(new.expected)
  PROVE  /\ PlansTyped' /\ PlansFit' /\ RunsKnow'
         /\ plan'[p] = new /\ \A q \in Runs : q # p => plan'[q] = plan[q]
         /\ \A q \in Runs : plan'[q] # None => plan[q] # None
<1>1. PlansTyped /\ PlansFit /\ RunsKnow
  BY DEF PlanInv
<1>2. new # None
  BY PlanAssumption
<1>3. plan'[p] = new /\ \A q \in Runs : q # p => plan'[q] = plan[q]
  BY <1>1 DEF PlansTyped
<1>4. PlansTyped'
  <2>1. plan' \in [Runs -> Plans \cup {None}]
    BY <1>1 DEF PlansTyped
  <2>2. run' \in [Runs -> Locals]
    BY <1>1, RunBecomes
  <2>3. QED
    BY <1>1, <2>1, <2>2 DEF PlansTyped
<1>5. PlansFit'
  BY <1>1, <1>3 DEF PlansFit
<1>6. PlansStay(r)
  BY <1>2, <1>3 DEF PlansStay
<1>7. cache' # None => cache' \in Runs /\ plan'[cache'] # None
  BY <1>1, <1>2, <1>3 DEF RunsKnow, PlansTyped
<1>8. Knows(r, local, plan')
  <2>1. local.at \in Planless => plan'[r] = None
    BY <1>3 DEF Knows
  <2>2. local.at \notin Planless \cup {"done"} =>
          /\ local.plan \in Runs /\ plan'[local.plan] # None
          /\ Len(plan'[local.plan].status) = Len(plan[local.plan].status)
    BY <1>2, <1>3 DEF Knows
  <2>3. local.at \in Looking => local.at \notin Planless \cup {"done"}
    BY DEF Looking, Planless
  <2>4. QED
    BY <2>1, <2>2, <2>3 DEF Knows
<1>9. RunsKnow'
  BY <1>6, <1>7, <1>8, KnowledgeStays
<1>10. QED
  BY <1>3, <1>4, <1>5, <1>9

(* Where a run goes from its last write. *)
LEMMA AfterWriteKnows ==
  ASSUME PlanInv, NEW r \in Runs, run[r].at \notin Planless \cup {"done"}
  PROVE  /\ AfterWrite(r) \in Locals /\ AfterWrite(r).at \in {"ready", "start"}
         /\ Knows(r, AfterWrite(r), plan)
<1>1. PlansTyped
  BY DEF PlanInv
<1>2. AfterWrite(r) = Ready(r) \/ AfterWrite(r) = [Ready(r) EXCEPT !.at = "start", !.i = 1]
  BY DEF AfterWrite
<1>3. /\ Ready(r) \in Locals /\ Ready(r).at = "ready" /\ Knows(r, Ready(r), plan)
  BY <1>1, ReadyTyped, ReadyKnows
<1>4. LET local == [Ready(r) EXCEPT !.at = "start", !.i = 1]
      IN  local \in Locals /\ local.at = "start" /\ Knows(r, local, plan)
  BY <1>1, ReadyTyped, ReadyKnows
<1>5. CASE AfterWrite(r) = Ready(r)
  BY <1>3, <1>5
<1>6. CASE AfterWrite(r) = [Ready(r) EXCEPT !.at = "start", !.i = 1]
  BY <1>4, <1>6
<1>7. QED
  BY <1>2, <1>5, <1>6

LEMMA IndexStep ==
  ASSUME PlanInv, NEW r \in Runs, Index(r)
  PROVE  PlanInv'
<1>1. PlansTyped /\ run[r].at = "index"
  BY DEF PlanInv, Index
<1> DEFINE local == AfterWrite(r)
           p == run[r].plan
           new == [plan[p] EXCEPT !.current = run[r].i]
<1>2. run' = [run EXCEPT ![r] = local] /\ UNCHANGED <<cache, worked, overlap>>
  BY DEF Index
<1>3. plan' = [plan EXCEPT ![p] = new]
  BY DEF Index
<1>4. local \in Locals /\ local.at \in {"ready", "start"} /\ Knows(r, local, plan)
  BY <1>1, AfterWriteKnows DEF Planless
<1>5. p \in Runs /\ plan[p] # None
  BY <1>1, FirstSubtask DEF Planless
<1>6. run[r].i \in 1 .. Len(plan[p].status)
  BY <1>1 DEF PlanInv, RunsKnow, Knows, Looking
<1> HIDE DEF local, p
<1>7. plan[p] \in Plans /\ plan[p].status \in Seq(Words)
  BY <1>1, <1>5, PlanTypes
<1>8. Len(plan[p].status) \in Nat /\ Len(plan[p].status) = Len(plan[p].expected)
  BY <1>5, <1>7 DEF PlanInv, PlansFit
<1>9. /\ new \in Plans /\ new.status = plan[p].status /\ new.expected = plan[p].expected
      /\ new.current = run[r].i
  <2>1. run[r].i \in Nat
    BY <1>6, <1>8
  <2>2. QED
    BY <1>7, <2>1 DEF Plans
<1>10. new.current <= Len(new.expected)
  BY <1>6, <1>8, <1>9
<1> HIDE DEF new
<1>11. /\ PlansTyped' /\ PlansFit' /\ RunsKnow'
       /\ plan'[p] = new /\ \A q \in Runs : q # p => plan'[q] = plan[q]
       /\ \A q \in Runs : plan'[q] # None => plan[q] # None
  BY <1>2, <1>3, <1>4, <1>5, <1>9, <1>10, PlanChanges
<1>12. ASSUME NEW q \in Runs PROVE Finished(q)' \subseteq Finished(q) \cup BeingWritten(q)
  <2>1. plan'[q].status = plan[q].status
    BY <1>9, <1>11
  <2>2. QED
    BY <2>1 DEF Finished
<1>13. ~Owing(local) /\ ~Writing(run[r])
  BY <1>1, <1>4 DEF Owing, Writing
<1>14. \A q \in Runs : Counted(q)' \subseteq Counted(q) /\ Unspent(q)' \subseteq Unspent(q)
  BY <1>1, <1>2, <1>4, <1>12, <1>13, RunMoves
<1>15. Earned'
  BY <1>2, <1>11, <1>14, NothingIsCounted
<1>16. QED
  BY <1>11, <1>15 DEF PlanInv

(* A plan that is made has nothing finished, and nobody works on it.       *)
LEMMA BreakStep ==
  ASSUME PlanInv, NEW r \in Runs, NEW outline \in Outlines, Break(r, outline)
  PROVE  PlanInv'
<1>1. PlansTyped /\ PlansFit /\ RunsKnow /\ run[r] \in Locals /\ run[r].at = "break"
  BY DEF PlanInv, PlansTyped, Break
<1>2. plan[r] = None
  BY <1>1 DEF RunsKnow, Knows, Planless
<1> DEFINE local == [run[r] EXCEPT !.at = "begin", !.plan = r]
           new == Fresh(outline)
<1>3. run' = [run EXCEPT ![r] = local] /\ cache' = r /\ UNCHANGED <<worked, overlap>>
  BY DEF Break
<1>4. plan' = [plan EXCEPT ![r] = new]
  BY DEF Break
<1>5. "begin" \in Labels /\ r \in PlanNames
  BY DEF Labels, PlanNames
<1>6. local \in Locals /\ local.at = "begin" /\ local.plan = r
  BY <1>1, <1>5, LocalTakes, Zenon
<1>7. /\ new.expected = outline /\ new.current = 0
      /\ new.status = [i \in DOMAIN outline |-> Word("pending")]
      /\ new = [expected |-> outline, status |-> new.status, current |-> 0]
  BY DEF Fresh
<1>8. outline \in Seq(SUBSET Tools) /\ Len(outline) \in Nat
  BY PlanAssumption
<1>9. Word("pending") \in Words
  BY DEF Word, Words
<1>10. new.status \in Seq(Words) /\ Len(new.status) = Len(outline)
       /\ \A i \in DOMAIN new.status : new.status[i] = Word("pending")
  <2> DEFINE s == [i \in DOMAIN outline |-> Word("pending")]
  <2>1. DOMAIN outline = 1 .. Len(outline)
    BY <1>8
  <2>2. s \in Seq(Words) /\ Len(s) = Len(outline)
    BY <1>8, <1>9, <2>1
  <2>3. \A i \in DOMAIN s : s[i] = Word("pending")
    OBVIOUS
  <2>4. QED
    BY <1>7, <2>2, <2>3
<1>11. new \in Plans
  BY <1>7, <1>10 DEF Plans
<1> HIDE DEF local, new
<1>12. new # None
  BY <1>11, PlanAssumption
<1>13. plan'[r] = new /\ \A q \in Runs : q # r => plan'[q] = plan[q]
  BY <1>1, <1>4 DEF PlansTyped
<1>14. PlansTyped'
  <2>1. plan' \in [Runs -> Plans \cup {None}]
    BY <1>1, <1>4, <1>11 DEF PlansTyped
  <2>2. run' \in [Runs -> Locals]
    BY <1>1, <1>3, <1>6, RunBecomes
  <2>3. QED
    BY <1>1, <1>3, <2>1, <2>2 DEF PlansTyped
<1>15. PlansFit'
  <2>1. Len(new.status) = Len(new.expected) /\ new.current <= Len(new.expected)
    BY <1>7, <1>8, <1>10
  <2>2. QED
    BY <1>1, <1>13, <2>1 DEF PlansFit
<1>16. RunsKnow'
  <2>1. PlansStay(r)
    BY <1>2, <1>13 DEF PlansStay
  <2>2. Knows(r, local, plan')
    BY <1>6, <1>12, <1>13 DEF Knows, Planless, Looking
  <2>3. QED
    BY <1>3, <1>6, <1>12, <1>13, <2>1, <2>2, KnowledgeStays
<1>17. ~Owing(local) /\ ~Writing(run[r])
  BY <1>1, <1>6 DEF Owing, Writing
<1>18. ASSUME NEW q \in Runs, q # r, plan'[q] # None
       PROVE  Cardinality(Counted(q)') + Cardinality(Unspent(q)') <= worked'[q]
  <2>1. plan'[q] = plan[q]
    BY <1>13, <1>18
  <2>2. Finished(q)' \subseteq Finished(q) \cup BeingWritten(q)
    BY <2>1 DEF Finished
  <2>3. Counted(q)' \subseteq Counted(q) /\ Unspent(q)' \subseteq Unspent(q)
    BY <1>1, <1>3, <1>6, <1>17, <2>2, RunMoves
  <2>4. worked'[q] = worked[q]
    BY <1>3
  <2>5. QED
    BY <1>18, <2>1, <2>3, <2>4, StaysEarned
<1>19. Cardinality(Counted(r)') + Cardinality(Unspent(r)') <= worked'[r]
  <2>1. Counted(r)' = {}
    <3>1. Finished(r)' = {}
      BY <1>10, <1>13 DEF Finished
    <3>2. QED
      BY <3>1 DEF Counted
  <2>2. Unspent(r)' = {}
    <3>1. run'[r] = local /\ \A q \in Runs : q # r => run'[q] = run[q]
      BY <1>1, <1>3, <1>6, RunBecomes
    <3>2. ASSUME NEW q \in Runs, run[q].plan = r PROVE ~Owing(run[q])
      <4>1. Knows(q, run[q], plan)
        BY <1>1 DEF RunsKnow
      <4>2. QED
        BY <1>2, <3>2, <4>1 DEF Knows, Planless, Owing, Writing
    <3>3. \A q \in Runs : run'[q].plan = r => ~Owing(run'[q])
      BY <1>17, <3>1, <3>2
    <3>4. QED
      BY <3>3 DEF Unspent, Owing, Writing
  <2>3. Cardinality(Counted(r)') = 0 /\ Cardinality(Unspent(r)') = 0
    BY <2>1, <2>2, FS_EmptySet
  <2>4. worked'[r] \in Nat
    BY <1>14 DEF PlansTyped
  <2>5. QED
    BY <2>3, <2>4
<1>20. Earned'
  BY <1>18, <1>19 DEF Earned
<1>21. QED
  BY <1>14, <1>15, <1>16, <1>20 DEF PlanInv

(* What the execution of a tool makes of the local state. *)
Works(l, t) == [l EXCEPT !.at = "running", !.i = 1, !.tool = t, !.tools = @ + 1]

LEMMA LocalWorks ==
  ASSUME NEW l \in Locals, NEW t \in ToolNames
  PROVE  LET local == Works(l, t)
         IN  local \in Locals /\ local.at = "running" /\ local.plan = l.plan /\ local.i = 1
<1> DEFINE n == l.tools + 1
           a == [l EXCEPT !.at = "running", !.i = 1]
           b == [a EXCEPT !.tool = t]
           c == [b EXCEPT !.tools = n]
<1>1. "running" \in Labels
  BY DEF Labels
<1>2. n \in Nat
  BY DEF Locals
<1>3. a \in Locals /\ a.at = "running" /\ a.plan = l.plan /\ a.i = 1
  BY <1>1 DEF Locals
<1>4. Works(l, t) = c
  BY DEF Locals, Works
<1> HIDE DEF a, n
<1>5. b \in Locals /\ b.at = "running" /\ b.plan = l.plan /\ b.i = 1
  BY <1>3 DEF Locals
<1> HIDE DEF b
<1>6. c \in Locals /\ c.at = "running" /\ c.plan = l.plan /\ c.i = 1
  BY <1>2, <1>5 DEF Locals
<1> HIDE DEF c
<1>7. QED
  BY <1>4, <1>6

LEMMA ToolStep ==
  ASSUME PlanInv, NEW r \in Runs, NEW t \in Tools, Tool(r, t)
  PROVE  PlanInv'
<1>1. PlansTyped /\ PlansFit /\ RunsKnow /\ run[r] \in Locals /\ run[r].at = "ready"
  BY DEF PlanInv, PlansTyped, Tool
<1> DEFINE local == Works(run[r], t)
           p == run[r].plan
<1>2. run' = [run EXCEPT ![r] = local]
  BY Zenon DEF Tool, Works
<1>3. worked' = [worked EXCEPT ![p] = worked[p] + 1] /\ UNCHANGED <<cache, plan, overlap>>
  BY DEF Tool
<1>4. t \in ToolNames
  BY DEF ToolNames
<1>5. local \in Locals /\ local.at = "running" /\ local.plan = p /\ local.i = 1
  BY <1>1, <1>4, LocalWorks, Zenon
<1>6. p \in Runs /\ plan[p] # None /\ 1 \in 1 .. Len(plan[p].status)
  BY <1>1, FirstSubtask DEF Planless
<1> HIDE DEF local, p
<1>7. run'[r] = local /\ \A q \in Runs : q # r => run'[q] = run[q]
  BY <1>1, <1>2, <1>5, RunBecomes
<1>8. worked' \in [Runs -> Nat] /\ worked'[p] = worked[p] + 1
      /\ \A q \in Runs : q # p => worked'[q] = worked[q]
  BY <1>1, <1>3, <1>6 DEF PlansTyped
<1>9. PlansTyped'
  <2>1. run' \in [Runs -> Locals]
    BY <1>1, <1>2, <1>5, RunBecomes
  <2>2. QED
    BY <1>1, <1>3, <1>8, <2>1 DEF PlansTyped
<1>10. PlansFit'
  BY <1>1, <1>3 DEF PlansFit
<1>11. RunsKnow'
  <2>1. PlansStay(r)
    BY <1>3 DEF PlansStay
  <2>2. cache' # None => cache' \in Runs /\ plan'[cache'] # None
    BY <1>1, <1>3 DEF RunsKnow, PlansTyped
  <2>3. Knows(r, local, plan')
    BY <1>3, <1>5, <1>6 DEF Knows, Planless, Looking
  <2>4. QED
    BY <1>2, <1>5, <2>1, <2>2, <2>3, KnowledgeStays
<1>12. ASSUME NEW q \in Runs PROVE Counted(q)' \subseteq Counted(q)
  <2>1. Finished(q)' = Finished(q)
    BY <1>3 DEF Finished
  <2>2. ~Writing(run[r])
    BY <1>1 DEF Writing
  <2>3. ASSUME NEW o \in Runs, run[o].plan = q, Writing(run[o])
        PROVE  run[o].i \in BeingWritten(q)'
    <3>1. run'[o] = run[o]
      BY <1>7, <2>2, <2>3
    <3>2. run'[o].plan = q /\ Writing(run'[o]) /\ run'[o].i = run[o].i
      BY <2>3, <3>1
    <3>3. QED
      BY <3>2 DEF BeingWritten, Writing
  <2>4. BeingWritten(q) \subseteq BeingWritten(q)'
    BY <2>3 DEF BeingWritten
  <2>5. QED
    BY <2>1, <2>4 DEF Counted
<1>13. ASSUME NEW q \in Runs, q # p PROVE Unspent(q)' \subseteq Unspent(q)
  BY <1>5, <1>7, <1>13 DEF Unspent, Owing, Writing
<1>14. ASSUME NEW q \in Runs PROVE Unspent(q)' \subseteq Unspent(q) \cup {r}
  BY <1>7 DEF Unspent, Owing, Writing
<1>15. ASSUME NEW q \in Runs, plan'[q] # None
       PROVE  Cardinality(Counted(q)') + Cardinality(Unspent(q)') <= worked'[q]
  <2>1. plan[q] # None
    BY <1>3, <1>15
  <2>2. CASE q = p
    <3>1. worked'[q] = worked[q] + 1
      BY <1>8, <2>2
    <3>2. QED
      BY <1>12, <1>14, <2>1, <3>1, OneIsOwed
  <2>3. CASE q # p
    <3>1. worked'[q] = worked[q]
      BY <1>8, <2>3
    <3>2. QED
      BY <1>12, <1>13, <2>1, <2>3, <3>1, StaysEarned
  <2>4. QED
    BY <2>2, <2>3
<1>16. Earned'
  BY <1>15 DEF Earned
<1>17. QED
  BY <1>9, <1>10, <1>11, <1>16 DEF PlanInv

(* A status with one of its words rewritten.                               *)
Rewritten(v, w, text) == [v EXCEPT ![w] = Word(text)[w]]

Open == {Word("pending"), Word("running")}

LEMMA WordWritten ==
  ASSUME NEW v \in Words, NEW w \in {"text", "len"}, NEW text \in {"running", "done"}
  PROVE  /\ Rewritten(v, w, text) \in Words
         /\ text = "running" /\ v \in Open => Rewritten(v, w, text) \in Open
<1>1. /\ v.text \in {"pending", "running", "done"} /\ v.len \in {4, 7}
      /\ v = [text |-> v.text, len |-> v.len]
  BY DEF Words
<1>2. /\ Word(text).text = text /\ Word(text).len \in {4, 7}
      /\ text = "running" => Word(text).len = 7
  BY DEF Word
<1>3. Open = {[text |-> "pending", len |-> 7], [text |-> "running", len |-> 7]}
  BY DEF Open, Word
<1> DEFINE n == Word(text).len
<1> HIDE DEF n
<1>4. CASE w = "text"
  <2>1. Rewritten(v, w, text) = [text |-> text, len |-> v.len]
    <3>1. Rewritten(v, w, text) = [v EXCEPT !.text = Word(text).text]
      BY <1>4, Zenon DEF Rewritten
    <3>2. [v EXCEPT !.text = Word(text).text] = [v EXCEPT !.text = text]
      BY <1>2, Zenon DEF n
    <3>3. [v EXCEPT !.text = text] = [text |-> text, len |-> v.len]
      BY <1>1
    <3>4. QED
      BY <3>1, <3>2, <3>3, Zenon
  <2>2. v \in Open => v.len = 7
    BY <1>3
  <2>3. QED
    BY <1>1, <1>3, <2>1, <2>2 DEF Words
<1>5. CASE w = "len"
  <2>1. Rewritten(v, w, text) = [text |-> v.text, len |-> n]
    <3>1. Rewritten(v, w, text) = [v EXCEPT !.len = Word(text).len]
      BY <1>5, Zenon DEF Rewritten
    <3>2. [v EXCEPT !.len = Word(text).len] = [v EXCEPT !.len = n]
      BY <1>2, Zenon DEF n
    <3>3. [v EXCEPT !.len = n] = [text |-> v.text, len |-> n]
      BY <1>1
    <3>4. QED
      BY <3>1, <3>2, <3>3, Zenon
  <2>2. v \in Open => v.text \in {"pending", "running"}
    BY <1>3
  <2>3. QED
    BY <1>1, <1>2, <1>3, <2>1, <2>2 DEF Words, n
<1>6. QED
  BY <1>4, <1>5

LEMMA StatusWritten ==
  ASSUME NEW old \in Plans, NEW i \in 1 .. Len(old.status), NEW v \in Words
  PROVE  LET new == [old EXCEPT !.status[i] = v]
         IN  /\ new \in Plans /\ new.expected = old.expected /\ new.current = old.current
             /\ new.status \in Seq(Words) /\ Len(new.status) = Len(old.status)
             /\ new.status[i] = v
             /\ \A j \in 1 .. Len(old.status) : j # i => new.status[j] = old.status[j]
<1> DEFINE s == [old.status EXCEPT ![i] = v]
           new == [old EXCEPT !.status = s]
<1>1. old.status \in Seq(Words) /\ Len(old.status) \in Nat
  BY DEF Plans
<1>2. /\ s \in Seq(Words) /\ Len(s) = Len(old.status) /\ s[i] = v
      /\ \A j \in 1 .. Len(old.status) : j # i => s[j] = old.status[j]
  BY <1>1
<1>3. [old EXCEPT !.status[i] = v] = new
  OBVIOUS
<1> HIDE DEF s
<1>4. new \in Plans /\ new.expected = old.expected /\ new.current = old.current /\ new.status = s
  BY <1>2 DEF Plans
<1> HIDE DEF new
<1>5. QED
  BY <1>2, <1>3, <1>4

(* Where a run is after it wrote a word: still writing the same subtask,   *)
(* or past it.                                                             *)
LEMMA WriteGoes ==
  ASSUME PlanInv, NEW r \in Runs, NEW w \in {"text", "len"}, Write(r, w)
  PROVE  \E local \in Locals :
           /\ run' = [run EXCEPT ![r] = local]
           /\ Knows(r, local, plan)
           /\ \/ /\ local.at = "write" /\ local.plan = run[r].plan
                 /\ local.i = run[r].i /\ local.text = run[r].text
              \/ local.at \in {"index", "ready", "start"}
<1>1. PlansTyped /\ run[r] \in Locals /\ run[r].at = "write"
  BY DEF PlanInv, PlansTyped, Write
<1>2. run[r].i \in 1 .. Len(plan[run[r].plan].status)
  BY <1>1 DEF PlanInv, RunsKnow, Knows, Looking
<1>3. run[r].plan \in Runs /\ plan[run[r].plan] # None
  BY <1>1, FirstSubtask DEF Planless
<1>4. CASE run[r].left # {w}
  <2> DEFINE left == run[r].left \ {w}
             local == [run[r] EXCEPT !.left = left]
  <2>1. run' = [run EXCEPT ![r] = local]
    BY <1>4 DEF Write
  <2>2. left \in SUBSET {"text", "len"}
    BY <1>1, RunTypes
  <2>3. /\ local \in Locals /\ local.at = "write" /\ local.plan = run[r].plan
        /\ local.i = run[r].i /\ local.text = run[r].text
    <3> HIDE DEF left
    <3>1. QED
      BY <1>1, <2>2 DEF Locals
  <2> HIDE DEF local
  <2>4. Knows(r, local, plan)
    BY <1>2, <1>3, <2>3 DEF Knows, Planless, Looking
  <2>5. QED
    BY <2>1, <2>3, <2>4
<1>5. CASE run[r].left = {w} /\ run[r].moves
  <2> DEFINE local == [run[r] EXCEPT !.at = "index", !.left = {}]
  <2>1. run' = [run EXCEPT ![r] = local]
    BY <1>5 DEF Write
  <2>2. "index" \in Labels /\ {} \in SUBSET {"text", "len"}
    BY DEF Labels
  <2>3. local \in Locals /\ local.at = "index" /\ local.plan = run[r].plan /\ local.i = run[r].i
    BY <1>1, <2>2 DEF Locals
  <2> HIDE DEF local
  <2>4. Knows(r, local, plan)
    BY <1>2, <1>3, <2>3 DEF Knows, Planless, Looking
  <2>5. QED
    BY <2>1, <2>3, <2>4
<1>6. CASE run[r].left = {w} /\ ~run[r].moves
  <2>1. run' = [run EXCEPT ![r] = AfterWrite(r)]
    BY <1>6 DEF Write
  <2>2. /\ AfterWrite(r) \in Locals /\ AfterWrite(r).at \in {"ready", "start"}
        /\ Knows(r, AfterWrite(r), plan)
    BY <1>1, AfterWriteKnows DEF Planless
  <2>3. QED
    BY <2>1, <2>2
<1>7. QED
  BY <1>4, <1>5, <1>6

LEMMA WriteStep ==
  ASSUME PlanInv, NEW r \in Runs, NEW w \in {"text", "len"}, Write(r, w)
  PROVE  PlanInv'
<1>1. PlansTyped /\ run[r] \in Locals /\ run[r].at = "write"
  BY DEF PlanInv, PlansTyped, Write
<1> DEFINE p == run[r].plan
           i == run[r].i
           text == run[r].text
           v == plan[p].status[i]
           v2 == Rewritten(v, w, text)
           new == [plan[p] EXCEPT !.status[i] = v2]
<1>2. p \in Runs /\ plan[p] # None
  BY <1>1, FirstSubtask DEF Planless
<1>3. i \in 1 .. Len(plan[p].status)
  BY <1>1 DEF PlanInv, RunsKnow, Knows, Looking
<1>4. text \in {"running", "done"} /\ UNCHANGED <<cache, worked, overlap>>
  BY <1>1, RunTypes DEF Write
<1>5. PICK local \in Locals :
        /\ run' = [run EXCEPT ![r] = local]
        /\ Knows(r, local, plan)
        /\ \/ /\ local.at = "write" /\ local.plan = p /\ local.i = i /\ local.text = text
           \/ local.at \in {"index", "ready", "start"}
  BY WriteGoes
<1>6. plan' = [plan EXCEPT ![p] = new]
  BY Zenon DEF Write, Rewritten
<1>7. Writing(run[r]) <=> text = "done"
  BY <1>1 DEF Writing
<1> HIDE DEF p, i, text
<1>8. plan[p] \in Plans /\ plan[p].status \in Seq(Words) /\ Len(plan[p].status) \in Nat
  BY <1>1, <1>2, PlanTypes
<1>9. v \in Words
  BY <1>3, <1>8
<1> HIDE DEF v
<1>10. v2 \in Words /\ (text = "running" /\ v \in Open => v2 \in Open)
  BY <1>4, <1>9, WordWritten
<1> HIDE DEF v2
<1>11. /\ new \in Plans /\ new.expected = plan[p].expected /\ new.current = plan[p].current
       /\ new.status \in Seq(Words) /\ Len(new.status) = Len(plan[p].status)
       /\ new.status[i] = v2
       /\ \A j \in 1 .. Len(plan[p].status) : j # i => new.status[j] = plan[p].status[j]
  BY <1>3, <1>8, <1>10, StatusWritten
<1> HIDE DEF new
<1>12. new.current <= Len(new.expected)
  BY <1>2, <1>11 DEF PlanInv, PlansFit
<1>13. /\ PlansTyped' /\ PlansFit' /\ RunsKnow'
       /\ plan'[p] = new /\ \A q \in Runs : q # p => plan'[q] = plan[q]
       /\ \A q \in Runs : plan'[q] # None => plan[q] # None
  BY <1>2, <1>4, <1>5, <1>6, <1>11, <1>12, PlanChanges
<1>14. \A q \in Runs : q # p => Finished(q)' = Finished(q)
  BY <1>13 DEF Finished
<1>15. ASSUME NEW q \in Runs, q = p
       PROVE  /\ Finished(q)' \subseteq Finished(q) \cup {i}
              /\ text = "running" => Finished(q)' \subseteq Finished(q)
  <2>1. /\ DOMAIN plan'[q].status = 1 .. Len(plan[p].status)
        /\ DOMAIN plan[q].status = 1 .. Len(plan[p].status)
    BY <1>8, <1>11, <1>13, <1>15
  <2>2. /\ plan'[q].status[i] = v2 /\ plan[q].status[i] = v
        /\ \A j \in 1 .. Len(plan[p].status) : j # i => plan'[q].status[j] = plan[q].status[j]
    BY <1>11, <1>13, <1>15 DEF v
  <2>3. /\ Finished(q) = {j \in 1 .. Len(plan[p].status) : plan[q].status[j] \notin Open}
        /\ Finished(q)' = {j \in 1 .. Len(plan[p].status) : plan'[q].status[j] \notin Open}
    BY <2>1 DEF Finished, Open, Word
  <2>4. QED
    BY <1>10, <2>2, <2>3
<1>16. /\ run'[r] = local
       /\ \A q \in Runs : q # r => run'[q] = run[q]
  BY <1>1, <1>5, RunBecomes
<1>17. CASE ~(text = "done" /\ local.at # "write")
  <2>1. text = "done" => local.at = "write"
    BY <1>17
  <2>2. ASSUME NEW q \in Runs PROVE Finished(q)' \subseteq Finished(q) \cup BeingWritten(q)
    <3>1. CASE q # p
      BY <1>14, <3>1
    <3>2. CASE q = p /\ text = "running"
      BY <1>15, <3>2
    <3>3. CASE q = p /\ text = "done"
      <4>1. i \in BeingWritten(q)
        BY <1>7, <3>3 DEF BeingWritten, i, p
      <4>2. QED
        BY <1>15, <3>3, <4>1
    <3>4. QED
      BY <1>4, <3>1, <3>2, <3>3
  <2>3. Writing(run[r]) => Writing(local) /\ local.plan = run[r].plan /\ local.i = run[r].i
    BY <1>5, <1>7, <2>1 DEF Writing, p, i
  <2>4. Owing(local) => Owing(run[r]) /\ local.plan = run[r].plan
    BY <1>1, <1>5, <1>7 DEF Owing, Writing, p
  <2>5. \A q \in Runs : Counted(q)' \subseteq Counted(q) /\ Unspent(q)' \subseteq Unspent(q)
    BY <1>1, <1>5, <2>2, <2>3, <2>4, RunMoves
  <2>6. Earned'
    BY <1>4, <1>13, <2>5, NothingIsCounted
  <2>7. QED
    BY <1>13, <2>6 DEF PlanInv
<1>18. CASE text = "done" /\ local.at # "write"
  <2>1. ~Owing(local) /\ ~Writing(local) /\ Writing(run[r]) /\ Owing(run[r])
    BY <1>5, <1>7, <1>18 DEF Owing, Writing
  <2>2. ASSUME NEW q \in Runs PROVE Unspent(q)' \subseteq Unspent(q) \ {r}
    <3>1. ~Owing(run'[r])
      BY <1>16, <2>1
    <3>2. \A o \in Runs : run'[o].plan = q /\ Owing(run'[o]) => o # r /\ run'[o] = run[o]
      BY <1>16, <3>1
    <3>3. Unspent(q)' = {o \in Runs : run'[o].plan = q /\ Owing(run'[o])}
      BY DEF Unspent, Owing, Writing
    <3>4. QED
      BY <3>2, <3>3 DEF Unspent
  <2>3. ASSUME NEW q \in Runs, NEW o \in Runs, o # r, run[o].plan = q, Writing(run[o])
        PROVE  run[o].i \in BeingWritten(q)'
    <3>1. run'[o].plan = q /\ Writing(run'[o]) /\ run'[o].i = run[o].i
      BY <1>16, <2>3
    <3>2. QED
      BY <3>1 DEF BeingWritten, Writing
  <2>4. ASSUME NEW q \in Runs, q # p PROVE Counted(q)' \subseteq Counted(q)
    <3>1. run[r].plan # q
      BY <2>4 DEF p
    <3>2. BeingWritten(q) \subseteq BeingWritten(q)'
      BY <2>3, <3>1 DEF BeingWritten
    <3>3. QED
      BY <1>14, <2>4, <3>2 DEF Counted
  <2>5. ASSUME NEW q \in Runs, q = p PROVE Counted(q)' \subseteq Counted(q) \cup {i}
    <3>1. BeingWritten(q) \subseteq BeingWritten(q)' \cup {i}
      BY <2>3 DEF BeingWritten, i
    <3>2. QED
      BY <1>15, <2>5, <3>1 DEF Counted
  <2>6. r \in Unspent(p)
    BY <2>1 DEF Unspent, p
  <2>7. i \in Nat
    BY <1>1, RunTypes DEF i
  <2>8. ASSUME NEW q \in Runs, plan'[q] # None
        PROVE  Cardinality(Counted(q)') + Cardinality(Unspent(q)') <= worked'[q]
    <3>1. plan[q] # None /\ worked'[q] = worked[q]
      BY <1>4, <1>13, <2>8
    <3>2. CASE q = p
      BY <2>2, <2>5, <2>6, <2>7, <3>1, <3>2, OneIsSettled
    <3>3. CASE q # p
      <4>1. Counted(q)' \subseteq Counted(q) /\ Unspent(q)' \subseteq Unspent(q)
        BY <2>2, <2>4, <3>3
      <4>2. QED
        BY <3>1, <4>1, StaysEarned
    <3>4. QED
      BY <3>2, <3>3
  <2>9. Earned'
    BY <2>8 DEF Earned
  <2>10. QED
    BY <1>13, <2>9 DEF PlanInv
<1>19. QED
  BY <1>17, <1>18

--------------------------------------------------------------------------------
(* The theorems *)

LEMMA PlanInitially == PlanInit => PlanInv
<1> SUFFICES ASSUME PlanInit PROVE PlanInv
  OBVIOUS
<1>1. \A r \in Runs : run[r] = Idle /\ plan[r] = None
  BY DEF PlanInit
<1>2. PlansTyped
  BY IdleTyped DEF PlanInit, PlansTyped
<1>3. PlansFit
  BY <1>1 DEF PlansFit
<1>4. RunsKnow
  BY <1>1, IdleTyped DEF PlanInit, RunsKnow, Knows, Planless, Looking
<1>5. Earned
  BY <1>1 DEF Earned
<1>6. QED
  BY <1>2, <1>3, <1>4, <1>5 DEF PlanInv

LEMMA PlanInductive == PlanInv /\ [PlanNext]_planVars => PlanInv'
<1> SUFFICES ASSUME PlanInv, [PlanNext]_planVars PROVE PlanInv'
  OBVIOUS
<1>1. ASSUME NEW r \in Runs, RunStep(r) PROVE PlanInv'
  BY <1>1, StartStep, ContinueStep, LookupStep, ShouldStep, BreakStep, BreakFailsStep, BeginStep,
     ToolStep, EndStep, LookStep, WriteStep, IndexStep
  DEF RunStep
<1>2. CASE UNCHANGED planVars
  BY <1>2 DEF planVars, PlanInv, PlansTyped, PlansFit, RunsKnow, Knows, Earned, Counted, Finished,
     BeingWritten, Unspent, Owing, Writing
<1>3. QED
  BY <1>1, <1>2 DEF PlanNext

(* The invariant of a plan (valobj/task_plan.go and task/breakdown.go) and *)
(* of the runs that share it without a lock.                               *)
THEOREM PlanInvariant == PlanSpec => []PlanInv
BY PlanInitially, PlanInductive, PTL DEF PlanSpec

(* However runs race on a plan (AdvanceWithTool, StartNext), each subtask  *)
(* it counts as finished has a tool of its own that was executed.          *)
THEOREM DoneEarned == PlanSpec => []DoneIsEarned
BY PlanInvariant, PlanInvGives, PTL

--------------------------------------------------------------------------------
(* Runs that follow one another *)

(* A run has no plan before it works.  As long as no two runs were at work *)
(* at the same time, one is at most, and its plan is the one that is       *)
(* cached: nobody else can have replaced it.                               *)
SerialInv ==
  /\ \A r \in Runs : run[r].at \in Planless => run[r].plan = None
  /\ ~overlap => \A r \in Active : run[r].plan \in {None, cache} /\ Active \subseteq {r}

LEMMA SerialRunMoves ==
  ASSUME PlanInv, SerialInv, NEW r \in Runs, NEW local \in Locals, run' = [run EXCEPT ![r] = local],
         local.at \in Planless => local.plan = None,
         ~overlap' => ~overlap /\ Active \subseteq {r} /\ local.plan \in {None, cache'}
  PROVE  SerialInv'
<1>1. /\ run'[r] = local
      /\ \A q \in Runs : q # r => run'[q] = run[q]
  BY RunBecomes DEF PlanInv
<1>2. ASSUME NEW q \in Runs, run'[q].at \in Planless PROVE run'[q].plan = None
  BY <1>1, <1>2 DEF SerialInv
<1>3. ASSUME ~overlap', NEW q \in Active'
      PROVE  run'[q].plan \in {None, cache'} /\ Active' \subseteq {q}
  <2>1. Active' \subseteq {r}
    BY <1>1, <1>3 DEF Active
  <2>2. q = r
    BY <2>1
  <2>3. QED
    BY <1>1, <1>3, <2>1, <2>2
<1>4. QED
  BY <1>2, <1>3 DEF SerialInv

(* A run at work keeps its plan, takes the cached one or leaves. *)
LEMMA SerialRunWorks ==
  ASSUME PlanInv, SerialInv, NEW r \in Active, NEW local \in Locals, run' = [run EXCEPT ![r] = local],
         local.at \in Planless => local.plan = None,
         local.plan \in {None, run[r].plan, cache}, UNCHANGED <<cache, overlap>>
  PROVE  SerialInv'
<1>1. r \in Runs
  BY DEF Active
<1>2. ~overlap' => ~overlap /\ Active \subseteq {r} /\ local.plan \in {None, cache'}
  BY DEF SerialInv
<1>3. QED
  BY <1>1, <1>2, SerialRunMoves

LEMMA SerialStart ==
  ASSUME PlanInv, SerialInv, NEW r \in Runs, NEW tries \in {1, 2}, NEW worthy \in BOOLEAN,
         Start(r, tries, worthy)
  PROVE  SerialInv'
<1> DEFINE local == [run[r] EXCEPT !.at = "lookup", !.tries = tries, !.worthy = worthy]
<1>1. run' = [run EXCEPT ![r] = local]
  BY DEF Start
<1>2. run[r] \in Locals /\ overlap \in BOOLEAN
  BY DEF PlanInv, PlansTyped
<1>3. local \in Locals /\ local.at = "lookup"
  BY <1>2, LocalStarts, Zenon DEF Flags
<1>4. local.plan = run[r].plan
  BY <1>2 DEF Locals
<1>5. run[r].plan = None
  BY DEF SerialInv, Start, Planless
<1>6. ~overlap' => ~overlap /\ Active = {}
  BY <1>2 DEF Start
<1> HIDE DEF local
<1>7. QED
  BY <1>1, <1>3, <1>4, <1>5, <1>6, SerialRunMoves

LEMMA SerialContinue ==
  ASSUME PlanInv, SerialInv, NEW r \in Runs, Continue(r)
  PROVE  SerialInv'
<1> DEFINE to == IF cache = None THEN "done" ELSE "begin"
           local == [run[r] EXCEPT !.at = to, !.plan = cache]
<1>1. run' = [run EXCEPT ![r] = local]
  BY DEF Continue
<1>2. run[r] \in Locals /\ overlap \in BOOLEAN /\ cache \in PlanNames /\ to \in Labels
  BY DEF PlanInv, PlansTyped, PlanNames, Labels
<1>3. to \notin Planless
  BY DEF Planless
<1> HIDE DEF to
<1>4. local \in Locals /\ local.at = to /\ local.plan = cache
  BY <1>2 DEF Locals
<1>5. ~overlap' => ~overlap /\ Active = {} /\ cache' = cache
  BY <1>2 DEF Continue
<1> HIDE DEF local
<1>6. QED
  BY <1>1, <1>3, <1>4, <1>5, SerialRunMoves

LEMMA SerialWithoutPlan ==
  ASSUME PlanInv, SerialInv, NEW r \in Active, run[r].at \in Planless, WithoutPlan(r),
         UNCHANGED <<cache, overlap>>
  PROVE  SerialInv'
<1>1. run[r] \in Locals /\ run[r].plan = None
  BY DEF PlanInv, PlansTyped, SerialInv, Active
<1>2. "lookup" \in Labels /\ "done" \in Labels
  BY DEF Labels
<1>3. CASE run[r].tries > 1
  <2> DEFINE local == [run[r] EXCEPT !.at = "lookup", !.tries = 1]
  <2>1. run' = [run EXCEPT ![r] = local]
    BY <1>3 DEF WithoutPlan
  <2>2. local \in Locals /\ local.plan = run[r].plan
    BY <1>1, <1>2 DEF Locals
  <2> HIDE DEF local
  <2>3. QED
    BY <1>1, <2>1, <2>2, SerialRunWorks
<1>4. CASE ~(run[r].tries > 1)
  <2> DEFINE local == [run[r] EXCEPT !.at = "done"]
  <2>1. run' = [run EXCEPT ![r] = local]
    BY <1>4 DEF WithoutPlan, Goes
  <2>2. local \in Locals /\ local.plan = run[r].plan
    BY <1>1, <1>2 DEF Locals
  <2> HIDE DEF local
  <2>3. QED
    BY <1>1, <2>1, <2>2, SerialRunWorks
<1>5. QED
  BY <1>3, <1>4

LEMMA SerialLookup ==
  ASSUME PlanInv, SerialInv, NEW r \in Runs, Lookup(r)
  PROVE  SerialInv'
<1>1. run[r] \in Locals /\ cache \in PlanNames
  BY DEF PlanInv, PlansTyped, PlanNames
<1>2. r \in Active /\ run[r].plan = None
  BY DEF Active, Lookup, SerialInv, Planless
<1>3. "begin" \in Labels /\ "should" \in Labels
  BY DEF Labels
<1>4. CASE cache # None
  <2> DEFINE local == [run[r] EXCEPT !.at = "begin", !.plan = cache]
  <2>1. run' = [run EXCEPT ![r] = local]
    BY <1>4 DEF Lookup
  <2>2. local \in Locals /\ local.at = "begin" /\ local.plan = cache
    BY <1>1, <1>3 DEF Locals
  <2> HIDE DEF local
  <2>3. local.at \notin Planless
    BY <2>2 DEF Planless
  <2>4. QED
    BY <1>2, <2>1, <2>2, <2>3, SerialRunWorks DEF Lookup
<1>5. CASE cache = None
  <2> DEFINE local == [run[r] EXCEPT !.at = "should"]
  <2>1. run' = [run EXCEPT ![r] = local]
    BY <1>5 DEF Lookup, Goes
  <2>2. local \in Locals /\ local.plan = run[r].plan
    BY <1>1, <1>3 DEF Locals
  <2> HIDE DEF local
  <2>3. QED
    BY <1>2, <2>1, <2>2, SerialRunWorks DEF Lookup
<1>6. QED
  BY <1>4, <1>5

LEMMA SerialShould ==
  ASSUME PlanInv, SerialInv, NEW r \in Runs, Should(r)
  PROVE  SerialInv'
<1>1. run[r] \in Locals /\ "break" \in Labels
  BY DEF PlanInv, PlansTyped, Labels
<1>2. r \in Active /\ run[r].plan = None /\ run[r].at \in Planless
  BY DEF Active, Should, SerialInv, Planless
<1>3. CASE cache = None /\ run[r].worthy
  <2> DEFINE local == [run[r] EXCEPT !.at = "break"]
  <2>1. run' = [run EXCEPT ![r] = local]
    BY <1>3 DEF Should, Goes
  <2>2. local \in Locals /\ local.plan = run[r].plan
    BY <1>1 DEF Locals
  <2> HIDE DEF local
  <2>3. QED
    BY <1>2, <2>1, <2>2, SerialRunWorks DEF Should
<1>4. CASE ~(cache = None /\ run[r].worthy)
  BY <1>2, <1>4, SerialWithoutPlan DEF Should
<1>5. QED
  BY <1>3, <1>4

LEMMA SerialBreakFails ==
  ASSUME PlanInv, SerialInv, NEW r \in Runs, BreakFails(r)
  PROVE  SerialInv'
<1>1. r \in Active /\ run[r].at \in Planless
  BY DEF Active, BreakFails, Planless
<1>2. QED
  BY <1>1, SerialWithoutPlan DEF BreakFails

(* A new plan takes the place of the old one: of nobody else's. *)
LEMMA SerialBreak ==
  ASSUME PlanInv, SerialInv, NEW r \in Runs, NEW o \in Outlines, Break(r, o)
  PROVE  SerialInv'
<1> DEFINE local == [run[r] EXCEPT !.at = "begin", !.plan = r]
<1>1. run' = [run EXCEPT ![r] = local]
  BY DEF Break
<1>2. run[r] \in Locals /\ "begin" \in Labels /\ r \in PlanNames
  BY DEF PlanInv, PlansTyped, Labels, PlanNames
<1>3. local \in Locals /\ local.at = "begin" /\ local.plan = r
  BY <1>2 DEF Locals
<1> HIDE DEF local
<1>4. local.at \notin Planless
  BY <1>3 DEF Planless
<1>5. r \in Active /\ cache' = r /\ overlap' = overlap
  BY DEF Active, Break
<1>6. ~overlap' => ~overlap /\ Active \subseteq {r} /\ local.plan \in {None, cache'}
  BY <1>3, <1>5 DEF SerialInv
<1>7. QED
  BY <1>1, <1>3, <1>4, <1>6, SerialRunMoves

(* The steps of a run that works on its plan. *)
LEMMA SerialReady ==
  ASSUME PlanInv, SerialInv, NEW r \in Active, run[r].at \notin Planless,
         \/ run' = [run EXCEPT ![r] = Ready(r)]
         \/ run' = [run EXCEPT ![r] = [Ready(r) EXCEPT !.at = "start", !.i = 1]],
         UNCHANGED <<cache, overlap>>
  PROVE  SerialInv'
<1>1. r \in Runs /\ PlansTyped
  BY DEF Active, PlanInv
<1>2. PICK local \in Locals :
        /\ run' = [run EXCEPT ![r] = local]
        /\ local.at \in {"ready", "start"} /\ local.plan = run[r].plan
  BY <1>1, ReadyTyped
<1>3. local.at \notin Planless
  BY <1>2 DEF Planless
<1>4. QED
  BY <1>2, <1>3, SerialRunWorks

LEMMA SerialBegin ==
  ASSUME PlanInv, SerialInv, NEW r \in Runs, Begin(r)
  PROVE  SerialInv'
<1>1. r \in Active /\ run[r].at \notin Planless /\ UNCHANGED <<cache, overlap>>
  BY DEF Active, Begin, Planless
<1>2. \/ run' = [run EXCEPT ![r] = Ready(r)]
      \/ run' = [run EXCEPT ![r] = [Ready(r) EXCEPT !.at = "start", !.i = 1]]
  BY DEF Begin
<1>3. QED
  BY <1>1, <1>2, SerialReady

LEMMA SerialTool ==
  ASSUME PlanInv, SerialInv, NEW r \in Runs, NEW t \in Tools, Tool(r, t)
  PROVE  SerialInv'
<1> DEFINE n == run[r].tools + 1
           local == [run[r] EXCEPT !.at = "running", !.i = 1, !.tool = t, !.tools = n]
<1>1. run' = [run EXCEPT ![r] = local]
  BY DEF Tool
<1>2. run[r] \in Locals /\ "running" \in Labels /\ t \in ToolNames
  BY DEF PlanInv, PlansTyped, Labels, ToolNames
<1>3. n \in Nat
  BY <1>2 DEF Locals
<1> HIDE DEF n
<1>4. local \in Locals /\ local.at = "running" /\ local.plan = run[r].plan
  BY <1>2, <1>3 DEF Locals
<1> HIDE DEF local
<1>5. local.at \notin Planless /\ r \in Active /\ UNCHANGED <<cache, overlap>>
  BY <1>4 DEF Planless, Active, Tool
<1>6. QED
  BY <1>1, <1>4, <1>5, SerialRunWorks

LEMMA SerialEnd ==
  ASSUME PlanInv, SerialInv, NEW r \in Runs, End(r)
  PROVE  SerialInv'
<1> DEFINE local == [Idle EXCEPT !.at = "done"]
<1>1. run' = [run EXCEPT ![r] = local]
  BY DEF End
<1>2. local \in Locals /\ local.at = "done" /\ local.plan = None
  BY DEF Idle, Locals, Labels, Flags, PlanNames, ToolNames
<1> HIDE DEF local
<1>3. r \in Active /\ UNCHANGED <<cache, overlap>>
  BY DEF Active, End
<1>4. QED
  BY <1>1, <1>2, <1>3, SerialRunWorks

LEMMA SerialLook ==
  ASSUME PlanInv, SerialInv, NEW r \in Runs, Look(r)
  PROVE  SerialInv'
<1>1. PlansTyped /\ run[r] \in Locals
  BY DEF PlanInv, PlansTyped
<1>2. /\ run[r].at \in {"running", "expected", "pending", "start"}
      /\ UNCHANGED <<cache, overlap>>
  BY DEF Look, Searching
<1>3. r \in Active /\ run[r].at \notin Planless
  BY <1>2 DEF Active, Planless
<1>4. CASE Hit(r)
  <2> DEFINE text == IF At(r, "start") THEN "running" ELSE "done"
             moves == ~At(r, "running")
             local == Hits(run[r], text, moves)
  <2>1. run' = [run EXCEPT ![r] = local]
    BY <1>4, Zenon DEF Look, Found, Hits
  <2>2. text \in {"running", "done"} /\ moves \in Flags
    BY DEF Flags
  <2>3. local \in Locals /\ local.at = "write" /\ local.plan = run[r].plan
    <3> HIDE DEF text, moves
    <3>1. QED
      BY <1>1, <2>2, LocalWrites, Zenon
  <2> HIDE DEF local
  <2>4. local.at \notin Planless
    BY <2>3 DEF Planless
  <2>5. QED
    BY <1>2, <1>3, <2>1, <2>3, <2>4, SerialRunWorks
<1>5. CASE ~Hit(r) /\ run[r].i < Len(Its(r).status)
  <2> DEFINE i == run[r].i + 1
             local == [run[r] EXCEPT !.i = i]
  <2>1. run' = [run EXCEPT ![r] = local]
    BY <1>5 DEF Look
  <2>2. i \in Nat
    BY <1>1 DEF Locals
  <2> HIDE DEF i
  <2>3. local \in Locals /\ local.at = run[r].at /\ local.plan = run[r].plan
    BY <1>1, <2>2, LocalLooks, Zenon
  <2> HIDE DEF local
  <2>4. QED
    BY <1>2, <1>3, <2>1, <2>3, SerialRunWorks
<1>6. CASE ~Hit(r) /\ ~(run[r].i < Len(Its(r).status)) /\ run[r].at \in {"pending", "start"}
  <2>1. run' = [run EXCEPT ![r] = Ready(r)]
    BY <1>6 DEF Look
  <2>2. QED
    BY <1>2, <1>3, <2>1, SerialReady
<1>7. CASE ~Hit(r) /\ ~(run[r].i < Len(Its(r).status)) /\ run[r].at \notin {"pending", "start"}
  <2> DEFINE next == NextSearch[run[r].at]
             local == [run[r] EXCEPT !.at = next, !.i = 1]
  <2>1. run' = [run EXCEPT ![r] = local]
    BY <1>7, Zenon DEF Look
  <2>2. next \in {"expected", "pending"} /\ next \in Labels
    BY <1>2, <1>7 DEF NextSearch, Labels
  <2>3. local \in Locals /\ local.at = next /\ local.plan = run[r].plan
    <3> HIDE DEF next
    <3>1. QED
      BY <1>1, <2>2, LocalTurns, Zenon
  <2> HIDE DEF local, next
  <2>4. local.at \notin Planless
    BY <2>2, <2>3 DEF Planless
  <2>5. QED
    BY <1>2, <1>3, <2>1, <2>3, <2>4, SerialRunWorks
<1>8. QED
  BY <1>4, <1>5, <1>6, <1>7

LEMMA SerialAfterWrite ==
  ASSUME PlanInv, SerialInv, NEW r \in Active, run[r].at \notin Planless,
         run' = [run EXCEPT ![r] = AfterWrite(r)], UNCHANGED <<cache, overlap>>
  PROVE  SerialInv'
<1>1. AfterWrite(r) = Ready(r) \/ AfterWrite(r) = [Ready(r) EXCEPT !.at = "start", !.i = 1]
  BY DEF AfterWrite
<1>2. QED
  BY <1>1, SerialReady

LEMMA SerialWrite ==
  ASSUME PlanInv, SerialInv, NEW r \in Runs, NEW w \in {"text", "len"}, Write(r, w)
  PROVE  SerialInv'
<1>1. PlansTyped /\ run[r] \in Locals
  BY DEF PlanInv, PlansTyped
<1>2. run[r].at = "write" /\ UNCHANGED <<cache, overlap>>
  BY DEF Write
<1>3. r \in Active /\ run[r].at \notin Planless
  BY <1>2 DEF Active, Planless
<1>4. CASE run[r].left # {w}
  <2> DEFINE left == run[r].left \ {w}
             local == [run[r] EXCEPT !.left = left]
  <2>1. run' = [run EXCEPT ![r] = local]
    BY <1>4 DEF Write
  <2>2. left \in SUBSET {"text", "len"}
    BY <1>1, RunTypes
  <2> HIDE DEF left
  <2>3. local \in Locals /\ local.at = run[r].at /\ local.plan = run[r].plan
    BY <1>1, <2>2 DEF Locals
  <2> HIDE DEF local
  <2>4. QED
    BY <1>2, <1>3, <2>1, <2>3, SerialRunWorks
<1>5. CASE run[r].left = {w} /\ run[r].moves
  <2> DEFINE local == [run[r] EXCEPT !.at = "index", !.left = {}]
  <2>1. run' = [run EXCEPT ![r] = local]
    BY <1>5 DEF Write
  <2>2. "index" \in Labels /\ {} \in SUBSET {"text", "len"}
    BY DEF Labels
  <2>3. local \in Locals /\ local.at = "index" /\ local.plan = run[r].plan
    BY <1>1, <2>2 DEF Locals
  <2> HIDE DEF local
  <2>4. local.at \notin Planless
    BY <2>3 DEF Planless
  <2>5. QED
    BY <1>2, <1>3, <2>1, <2>3, <2>4, SerialRunWorks
<1>6. CASE run[r].left = {w} /\ ~run[r].moves
  <2>1. run' = [run EXCEPT ![r] = AfterWrite(r)]
    BY <1>6 DEF Write
  <2>2. QED
    BY <1>2, <1>3, <2>1, SerialAfterWrite
<1>7. QED
  BY <1>4, <1>5, <1>6

LEMMA SerialIndex ==
  ASSUME PlanInv, SerialInv, NEW r \in Runs, Index(r)
  PROVE  SerialInv'
<1>1. r \in Active /\ run[r].at \notin Planless
  BY DEF Index, Active, Planless
<1>2. QED
  BY <1>1, SerialAfterWrite DEF Index

LEMMA SerialInductive == PlanInv /\ SerialInv /\ [PlanNext]_planVars => SerialInv'
<1> SUFFICES ASSUME PlanInv, SerialInv, [PlanNext]_planVars PROVE SerialInv'
  OBVIOUS
<1>1. ASSUME NEW r \in Runs, RunStep(r) PROVE SerialInv'
  BY <1>1, SerialStart, SerialContinue, SerialLookup, SerialShould, SerialBreak, SerialBreakFails,
     SerialBegin, SerialTool, SerialEnd, SerialLook, SerialWrite, SerialIndex
  DEF RunStep
<1>2. CASE UNCHANGED planVars
  BY <1>2 DEF planVars, SerialInv, Active
<1>3. QED
  BY <1>1, <1>2 DEF PlanNext

(* Runs of a session that follow one another work on the one plan that is  *)
(* cached for it (task/breakdown.go: Breakdown, GetPlan, and the requests  *)
(* that continue), whoever of them made it.                                *)
THEOREM SerialRunsShare == PlanSpec => []SerialRunsShareThePlan
<1>1. PlanInit => SerialInv
  BY DEF PlanInit, SerialInv, Active, Idle
<1>2. SerialInv => SerialRunsShareThePlan
  BY DEF SerialInv, SerialRunsShareThePlan
<1>3. QED
  BY <1>1, <1>2, PlanInvariant, SerialInductive, PTL DEF PlanSpec

--------------------------------------------------------------------------------
(* Runs in sequence keep the order of a plan *)

(* The first k subtasks are done, the next one has this status, and the    *)
(* others are pending.                                                     *)
Line(v, k, word) ==
  \A j \in 1 .. Len(v.status) : v.status[j] =
    IF j <= k THEN Word("done") ELSE IF j = k + 1 THEN word ELSE Word("pending")

(* A status while these words of it are left to write.                     *)
Between(from, to, left) ==
  [text |-> IF "text" \in left THEN from ELSE to,
   len |-> IF "len" \in left THEN Word(from).len ELSE Word(to).len]

(* Plan v as it is between operations when w tools were executed with it,  *)
(* and as it was made.                                                     *)
Rests(v, w) ==
  /\ v.current # 0
  /\ Line(v, IF w < Len(v.status) THEN w ELSE Len(v.status), Word("running"))

New(v, w) == v.current = 0 /\ w = 0 /\ Line(v, 0, Word("pending"))

(* Plan v while a run is at work on it whose local state is l: what has    *)
(* been looked at so far, which subtask is being written, and how much of  *)
(* it is.                                                                  *)
Stands(l, v, w) ==
  /\ l.at = "begin" => New(v, w) \/ Rests(v, w)
  /\ l.at = "ready" => Rests(v, w)
  /\ l.at = "running" =>
       /\ w > 0 /\ v.current # 0 /\ l.i <= w
       /\ Line(v, IF w - 1 < Len(v.status) THEN w - 1 ELSE Len(v.status), Word("running"))
  /\ l.at \in {"expected", "pending"} =>
       v.current # 0 /\ w > Len(v.status) /\ Line(v, Len(v.status), Word("running"))
  /\ l.at = "start" =>
       /\ w <= Len(v.status) /\ l.i <= w + 1 /\ (w # 0 => v.current # 0)
       /\ Line(v, w, Word("pending"))
  /\ l.at = "write" /\ l.text = "done" =>
       /\ v.current # 0 /\ ~l.moves /\ l.i = w /\ l.left # {}
       /\ Line(v, w - 1, Between("running", "done", l.left))
  /\ l.at = "write" /\ l.text = "running" =>
       /\ l.moves /\ l.i = w + 1 /\ l.left # {}
       /\ Line(v, w, Between("pending", "running", l.left))
  /\ l.at = "index" =>
       l.i = w + 1 /\ l.text = "running" /\ Line(v, w, Word("running"))

Resting == Planless \cup {"done"}

(* As long as no two runs have overlapped there is one plan at most, the   *)
(* cached one, and it is where the run at work, or the last one, has       *)
(* brought it.                                                             *)
OrderInv ==
  ~overlap =>
    /\ \A r \in Runs : run[r].at \in Planless => worked[r] = 0
    /\ \A p \in Runs : plan[p] # None => p = cache
    /\ \A r \in Active : run[r].at = "break" => cache = None
    /\ \A r \in Active : run[r].at \notin Resting => Stands(run[r], plan[cache], worked[cache])
    /\ (\A r \in Active : run[r].at \in Resting) =>
         (cache # None => Rests(plan[cache], worked[cache]))

LEMMA OrderRunMoves ==
  ASSUME PlanInv, SerialInv, OrderInv, NEW r \in Runs, NEW local \in Locals, run' = [run EXCEPT ![r] = local],
         ~overlap' =>
           /\ ~overlap /\ Active \subseteq {r}
           /\ local.at \in Planless => run[r].at \in Planless
           /\ \A p \in Runs : plan[p] = None => worked'[p] = worked[p]
           /\ \A p \in Runs : plan'[p] # None => p = cache'
           /\ local.at = "break" => cache' = None
           /\ local.at \notin Resting => Stands(local, plan'[cache'], worked'[cache'])
           /\ local.at \in Resting => (cache' # None => Rests(plan'[cache'], worked'[cache']))
  PROVE  OrderInv'
<1>1. /\ run'[r] = local
      /\ \A q \in Runs : q # r => run'[q] = run[q]
  BY RunBecomes DEF PlanInv
<1> SUFFICES ASSUME ~overlap' PROVE OrderInv'
  BY DEF OrderInv
<1>2. Active' \subseteq {r}
  BY <1>1 DEF Active
<1>3. \A q \in Active' : run'[q] = local
  BY <1>1, <1>2
<1>4. \A q \in Active' : run'[q].at = "break" => cache' = None
  BY <1>3
<1>5. \A q \in Active' : run'[q].at \notin Resting =>
        Stands(run'[q], plan'[cache'], worked'[cache'])
  BY <1>3
<1>6. (\A q \in Active' : run'[q].at \in Resting) => local.at \in Resting
  <2>1. CASE r \in Active'
    BY <1>1, <2>1
  <2>2. CASE r \notin Active'
    <3>1. local.at \in {"idle", "done"}
      BY <1>1, <2>2 DEF Active
    <3>2. QED
      BY <3>1 DEF Resting, Planless
  <2>3. QED
    BY <2>1, <2>2
<1>7. ASSUME NEW q \in Runs, run'[q].at \in Planless PROVE worked'[q] = 0
  <2>1. run[q].at \in Planless
    BY <1>1, <1>7
  <2>2. plan[q] = None
    BY <2>1 DEF PlanInv, RunsKnow, Knows
  <2>3. QED
    BY <2>1, <2>2 DEF OrderInv
<1>8. QED
  BY <1>4, <1>5, <1>6, <1>7 DEF OrderInv

(* A run that has no plan yet, or is done with it, leaves it as it is; or  *)
(* takes it.                                                               *)
LEMMA OrderStays ==
  ASSUME PlanInv, SerialInv, OrderInv, NEW r \in Runs, run[r].at \in Planless,
         NEW local \in Locals, run' = [run EXCEPT ![r] = local],
         local.at \in Resting \cup {"begin"}, 
         local.at = "begin" => cache # None, local.at = "break" => cache = None,
         UNCHANGED <<cache, plan, worked>>,
         ~overlap' => ~overlap /\ Active \subseteq {r}
  PROVE  OrderInv'
<1> SUFFICES ASSUME ~overlap' PROVE OrderInv'
  BY DEF OrderInv
<1>1. ~overlap /\ Active \subseteq {r}
  OBVIOUS
<1>2. \A q \in Active : run[q].at \in Resting
  BY <1>1 DEF Resting
<1>3. cache # None => Rests(plan[cache], worked[cache])
  BY <1>1, <1>2 DEF OrderInv
<1>4. \A p \in Runs : plan'[p] # None => p = cache'
  BY <1>1 DEF OrderInv
<1>5. local.at \notin Resting => local.at = "begin" /\ Stands(local, plan'[cache'], worked'[cache'])
  <2> DEFINE v == plan'[cache']
             w == worked'[cache']
  <2>1. local.at = "begin" => Rests(v, w)
    BY <1>3
  <2> HIDE DEF v, w
  <2>2. local.at \notin Resting => local.at = "begin"
    OBVIOUS
  <2>3. local.at \notin Resting => Stands(local, v, w)
    BY <2>1, <2>2 DEF Stands
  <2>4. QED
    BY <2>2, <2>3 DEF v, w
<1>6. QED
  BY <1>1, <1>3, <1>4, <1>5, OrderRunMoves

LEMMA OrderStart ==
  ASSUME PlanInv, SerialInv, OrderInv, NEW r \in Runs, NEW tries \in {1, 2}, NEW worthy \in BOOLEAN,
         Start(r, tries, worthy)
  PROVE  OrderInv'
<1> DEFINE local == [run[r] EXCEPT !.at = "lookup", !.tries = tries, !.worthy = worthy]
<1>1. run' = [run EXCEPT ![r] = local]
  BY DEF Start
<1>2. run[r] \in Locals /\ overlap \in BOOLEAN
  BY DEF PlanInv, PlansTyped
<1>3. local \in Locals /\ local.at = "lookup"
  BY <1>2, LocalStarts, Zenon DEF Flags
<1>4. ~overlap' => ~overlap /\ Active = {}
  BY <1>2 DEF Start
<1> HIDE DEF local
<1>5. run[r].at \in Planless /\ local.at \in Resting
  BY <1>3 DEF Start, Resting, Planless
<1>6. QED
  BY <1>1, <1>3, <1>4, <1>5, OrderStays DEF Start

LEMMA OrderContinue ==
  ASSUME PlanInv, SerialInv, OrderInv, NEW r \in Runs, Continue(r)
  PROVE  OrderInv'
<1> DEFINE to == IF cache = None THEN "done" ELSE "begin"
           local == [run[r] EXCEPT !.at = to, !.plan = cache]
<1>1. run' = [run EXCEPT ![r] = local]
  BY DEF Continue
<1>2. run[r] \in Locals /\ overlap \in BOOLEAN /\ cache \in PlanNames /\ to \in Labels
  BY DEF PlanInv, PlansTyped, PlanNames, Labels
<1>3. /\ to \in Resting \cup {"begin"} /\ to # "break" /\ (to = "begin" => cache # None)
      /\ run[r].at \in Planless
  BY DEF Resting, Planless, Continue
<1> HIDE DEF to
<1>4. local \in Locals /\ local.at = to
  BY <1>2 DEF Locals
<1>5. ~overlap' => ~overlap /\ Active = {}
  BY <1>2 DEF Continue
<1> HIDE DEF local
<1>6. QED
  BY <1>1, <1>3, <1>4, <1>5, OrderStays DEF Continue

LEMMA OrderWithoutPlan ==
  ASSUME PlanInv, SerialInv, OrderInv, NEW r \in Active, run[r].at \in Planless, WithoutPlan(r),
         UNCHANGED <<cache, plan, worked, overlap>>
  PROVE  OrderInv'
<1>1. run[r] \in Locals /\ r \in Runs
  BY DEF PlanInv, PlansTyped, Active
<1>2. "lookup" \in Labels /\ "done" \in Labels
  BY DEF Labels
<1>3. PICK local \in Locals : run' = [run EXCEPT ![r] = local] /\ local.at \in {"lookup", "done"}
  <2>1. CASE run[r].tries > 1
    <3> DEFINE local == [run[r] EXCEPT !.at = "lookup", !.tries = 1]
    <3>1. run' = [run EXCEPT ![r] = local]
      BY <2>1 DEF WithoutPlan
    <3>2. local \in Locals /\ local.at = "lookup"
      BY <1>1, <1>2 DEF Locals
    <3> HIDE DEF local
    <3>3. QED
      BY <3>1, <3>2
  <2>2. CASE ~(run[r].tries > 1)
    <3> DEFINE local == [run[r] EXCEPT !.at = "done"]
    <3>1. run' = [run EXCEPT ![r] = local]
      BY <2>2 DEF WithoutPlan, Goes
    <3>2. local \in Locals /\ local.at = "done"
      BY <1>1, <1>2 DEF Locals
    <3> HIDE DEF local
    <3>3. QED
      BY <3>1, <3>2
  <2>3. QED
    BY <2>1, <2>2
<1>4. ~overlap' => ~overlap /\ Active \subseteq {r}
  BY DEF SerialInv
<1>5. local.at \in Resting /\ local.at \notin {"begin", "break"}
  BY <1>3 DEF Resting, Planless
<1>6. QED
  BY <1>1, <1>3, <1>4, <1>5, OrderStays

LEMMA OrderLookup ==
  ASSUME PlanInv, SerialInv, OrderInv, NEW r \in Runs, Lookup(r)
  PROVE  OrderInv'
<1>1. run[r] \in Locals /\ cache \in PlanNames
  BY DEF PlanInv, PlansTyped, PlanNames
<1>2. r \in Active /\ run[r].at \in Planless
  BY DEF Active, Lookup, Planless
<1>3. PICK local \in Locals :
        /\ run' = [run EXCEPT ![r] = local]
        /\ (cache # None /\ local.at = "begin") \/ local.at = "should"
  <2>1. "begin" \in Labels /\ "should" \in Labels
    BY DEF Labels
  <2>2. CASE cache # None
    <3> DEFINE local == [run[r] EXCEPT !.at = "begin", !.plan = cache]
    <3>1. run' = [run EXCEPT ![r] = local]
      BY <2>2 DEF Lookup
    <3>2. local \in Locals /\ local.at = "begin"
      BY <1>1, <2>1 DEF Locals
    <3> HIDE DEF local
    <3>3. QED
      BY <2>2, <3>1, <3>2
  <2>3. CASE cache = None
    <3> DEFINE local == [run[r] EXCEPT !.at = "should"]
    <3>1. run' = [run EXCEPT ![r] = local]
      BY <2>3 DEF Lookup, Goes
    <3>2. local \in Locals /\ local.at = "should"
      BY <1>1, <2>1 DEF Locals
    <3> HIDE DEF local
    <3>3. QED
      BY <3>1, <3>2
  <2>4. QED
    BY <2>2, <2>3
<1>4. ~overlap' => ~overlap /\ Active \subseteq {r}
  BY <1>2 DEF SerialInv, Lookup
<1>5. local.at \in Resting \cup {"begin"} /\ local.at # "break"
  BY <1>3 DEF Resting, Planless
<1>6. QED
  BY <1>2, <1>3, <1>4, <1>5, OrderStays DEF Lookup

LEMMA OrderShould ==
  ASSUME PlanInv, SerialInv, OrderInv, NEW r \in Runs, Should(r)
  PROVE  OrderInv'
<1>1. run[r] \in Locals /\ "break" \in Labels
  BY DEF PlanInv, PlansTyped, Labels
<1>2. r \in Active /\ run[r].at \in Planless
  BY DEF Active, Should, Planless
<1>3. CASE cache = None /\ run[r].worthy
  <2> DEFINE local == [run[r] EXCEPT !.at = "break"]
  <2>1. run' = [run EXCEPT ![r] = local]
    BY <1>3 DEF Should, Goes
  <2>2. local \in Locals /\ local.at = "break"
    BY <1>1 DEF Locals
  <2> HIDE DEF local
  <2>3. local.at \in Resting
    BY <2>2 DEF Resting, Planless
  <2>4. ~overlap' => ~overlap /\ Active \subseteq {r}
    BY <1>2 DEF SerialInv, Should
  <2>5. QED
    BY <1>2, <1>3, <2>1, <2>2, <2>3, <2>4, OrderStays DEF Should
<1>4. CASE ~(cache = None /\ run[r].worthy)
  BY <1>2, <1>4, OrderWithoutPlan DEF Should
<1>5. QED
  BY <1>3, <1>4

LEMMA OrderBreakFails ==
  ASSUME PlanInv, SerialInv, OrderInv, NEW r \in Runs, BreakFails(r)
  PROVE  OrderInv'
<1>1. r \in Active /\ run[r].at \in Planless
  BY DEF Active, BreakFails, Planless
<1>2. QED
  BY <1>1, OrderWithoutPlan DEF BreakFails

LEMMA OrderEnd ==
  ASSUME PlanInv, SerialInv, OrderInv, NEW r \in Runs, End(r)
  PROVE  OrderInv'
<1> DEFINE local == [Idle EXCEPT !.at = "done"]
<1>1. run' = [run EXCEPT ![r] = local]
  BY DEF End
<1>2. local \in Locals /\ local.at = "done"
  BY DEF Idle, Locals, Labels, Flags, PlanNames, ToolNames
<1> HIDE DEF local
<1>3. r \in Active /\ run[r].at \notin Resting /\ run[r].at = "ready"
  BY DEF Active, End, Resting, Planless
<1> SUFFICES ASSUME ~overlap' PROVE OrderInv'
  BY DEF OrderInv
<1>4. ~overlap /\ Active \subseteq {r}
  BY <1>3 DEF End, SerialInv
<1>5. Rests(plan[cache], worked[cache])
  <2> DEFINE v == plan[cache]
             w == worked[cache]
  <2>1. Stands(run[r], v, w)
    BY <1>3, <1>4 DEF OrderInv
  <2> HIDE DEF v, w
  <2>2. Rests(v, w)
    BY <1>3, <2>1 DEF Stands
  <2>3. QED
    BY <2>2 DEF v, w
<1>6. \A p \in Runs : plan[p] # None => p = cache
  BY <1>4 DEF OrderInv
<1>7. local.at \in Resting \ Planless /\ local.at # "break"
  BY <1>2 DEF Resting, Planless
<1>8. UNCHANGED <<cache, plan, worked>>
  BY DEF End
<1>9. QED
  BY <1>1, <1>2, <1>4, <1>5, <1>6, <1>7, <1>8, OrderRunMoves

(* A plan that is made is the only one, and new. *)
LEMMA OrderBreak ==
  ASSUME PlanInv, SerialInv, OrderInv, NEW r \in Runs, NEW o \in Outlines, Break(r, o)
  PROVE  OrderInv'
<1> DEFINE local == [run[r] EXCEPT !.at = "begin", !.plan = r]
<1>1. run' = [run EXCEPT ![r] = local]
  BY DEF Break
<1>2. run[r] \in Locals /\ "begin" \in Labels /\ r \in PlanNames
  BY DEF PlanInv, PlansTyped, Labels, PlanNames
<1>3. local \in Locals /\ local.at = "begin"
  BY <1>2 DEF Locals
<1> HIDE DEF local
<1> SUFFICES ASSUME ~overlap' PROVE OrderInv'
  BY DEF OrderInv
<1>4. r \in Active /\ run[r].at \in Planless /\ run[r].at = "break"
  BY DEF Active, Break, Planless
<1>5. ~overlap /\ Active \subseteq {r} /\ cache' = r /\ worked' = worked
  BY <1>4 DEF SerialInv, Break
<1>6. cache = None /\ \A p \in Runs : plan[p] = None
  BY <1>4, <1>5, PlanAssumption DEF OrderInv
<1>7. plan' = [plan EXCEPT ![r] = Fresh(o)] /\ plan \in [Runs -> Plans \cup {None}]
  BY DEF Break, PlanInv, PlansTyped
<1>8. plan'[r] = Fresh(o) /\ \A p \in Runs : p # r => plan'[p] = None
  BY <1>6, <1>7
<1>9. worked[r] = 0
  BY <1>4, <1>5 DEF OrderInv
<1> DEFINE v == plan'[r]
<1>10. v.current = 0 /\ v.status = [i \in DOMAIN o |-> Word("pending")]
  BY <1>8 DEF Fresh
<1>11. Len(v.status) = Len(o) /\ Len(o) \in Nat /\ DOMAIN o = 1 .. Len(o)
  BY <1>10, PlanAssumption
<1> HIDE DEF v
<1>12. Line(v, 0, Word("pending"))
  BY <1>10, <1>11 DEF Line
<1>13. New(v, 0)
  BY <1>10, <1>12 DEF New
<1>14. Stands(local, v, 0)
  BY <1>3, <1>13 DEF Stands
<1>15. Stands(local, plan'[cache'], worked'[cache'])
  BY <1>5, <1>9, <1>14 DEF v
<1>16. local.at \notin Resting \cup Planless /\ local.at # "break"
  BY <1>3 DEF Resting, Planless
<1>17. QED
  BY <1>1, <1>3, <1>5, <1>8, <1>15, <1>16, OrderRunMoves

--------------------------------------------------------------------------------
(* The steps of a run on its plan *)

(* Whoever works while nobody has overlapped is alone with the cached plan. *)
LEMMA AloneAtWork ==
  ASSUME PlanInv, SerialInv, OrderInv, NEW r \in Runs, run[r].at \notin Resting, ~overlap
  PROVE  /\ Active \subseteq {r} /\ run[r].plan = cache /\ cache \in Runs /\ plan[cache] # None
         /\ plan[cache] \in Plans /\ worked[cache] \in Nat
         /\ Len(plan[cache].status) \in Nat /\ Len(plan[cache].status) >= 2
         /\ Stands(run[r], plan[cache], worked[cache])
         /\ \A p \in Runs : plan[p] # None => p = cache
<1>1. r \in Active /\ run[r].at \notin Planless \cup {"done"}
  BY DEF Active, Resting, Planless
<1>2. run[r].plan \in Runs /\ plan[run[r].plan] # None
  BY <1>1, FirstSubtask
<1>3. Active \subseteq {r} /\ run[r].plan = cache
  BY <1>1, <1>2, PlanAssumption DEF SerialInv
<1>4. plan[cache] \in Plans /\ plan[cache].expected \in Outlines
      /\ Len(plan[cache].status) = Len(plan[cache].expected)
  BY <1>2, <1>3, PlanTypes DEF PlanInv, PlansFit
<1>5. Len(plan[cache].expected) \in Nat /\ Len(plan[cache].expected) >= 2
  BY <1>4, PlanAssumption
<1>6. worked[cache] \in Nat
  BY <1>2, <1>3 DEF PlanInv, PlansTyped
<1>7. /\ Stands(run[r], plan[cache], worked[cache])
      /\ \A p \in Runs : plan[p] # None => p = cache
  BY <1>1 DEF OrderInv
<1>8. QED
  BY <1>2, <1>3, <1>4, <1>5, <1>6, <1>7

LEMMA OrderWorks ==
  ASSUME PlanInv, SerialInv, OrderInv, NEW r \in Runs, run[r].at \notin Resting,
         NEW local \in Locals, run' = [run EXCEPT ![r] = local], local.at \notin Resting,
         UNCHANGED <<cache, overlap>>,
         \A p \in Runs : p # run[r].plan => plan'[p] = plan[p] /\ worked'[p] = worked[p],
         ~overlap => Stands(local, plan'[cache], worked'[cache])
  PROVE  OrderInv'
<1> SUFFICES ASSUME ~overlap' PROVE OrderInv'
  BY DEF OrderInv
<1>1. /\ Active \subseteq {r} /\ run[r].plan = cache /\ cache \in Runs /\ plan[cache] # None
      /\ \A p \in Runs : plan[p] # None => p = cache
  BY AloneAtWork
<1>2. \A p \in Runs : plan'[p] # None => p = cache'
  BY <1>1
<1>3. \A p \in Runs : plan[p] = None => worked'[p] = worked[p]
  BY <1>1
<1>4. local.at \notin Planless /\ local.at # "break"
  BY DEF Resting, Planless
<1>5. Stands(local, plan'[cache'], worked'[cache'])
  OBVIOUS
<1>6. QED
  BY <1>1, <1>2, <1>3, <1>4, <1>5, OrderRunMoves

(* A plan that is new is begun, another one is where it was left. *)
LEMMA BeginsNew ==
  ASSUME NEW v \in Plans, NEW w \in Nat, Len(v.status) >= 2, New(v, w) \/ Rests(v, w)
  PROVE  /\ v.current = 0 => w = 0 /\ v.status[1] = Word("pending") /\ Line(v, w, Word("pending"))
         /\ v.current # 0 => Rests(v, w)
<1>1. v.current = 0 => w = 0 /\ Line(v, 0, Word("pending"))
  BY DEF New, Rests
<1>2. v.current = 0 => v.status[1] = Word("pending")
  BY <1>1 DEF Line
<1>3. QED
  BY <1>1, <1>2 DEF New

LEMMA OrderBegin ==
  ASSUME PlanInv, SerialInv, OrderInv, NEW r \in Runs, Begin(r)
  PROVE  OrderInv'
<1>1. run[r].at = "begin" /\ run[r].at \notin Resting /\ PlansTyped
  BY DEF Begin, Resting, Planless, PlanInv
<1> DEFINE begins == Unfinished(run[r].plan) /\ Its(r).current = 0
           local == IF begins THEN [Ready(r) EXCEPT !.at = "start", !.i = 1] ELSE Ready(r)
<1>2. run' = [run EXCEPT ![r] = local]
  BY DEF Begin
<1>3. /\ local \in Locals
      /\ begins => local.at = "start" /\ local.i = 1
      /\ ~begins => local.at = "ready"
  BY <1>1, ReadyTyped
<1>4. UNCHANGED <<cache, plan, worked, overlap>>
  BY DEF Begin
<1>5. ASSUME ~overlap PROVE Stands(local, plan[cache], worked[cache])
  <2> DEFINE v == plan[cache]
             w == worked[cache]
  <2>1. /\ v \in Plans /\ w \in Nat /\ Len(v.status) \in Nat /\ Len(v.status) >= 2
        /\ Stands(run[r], v, w) /\ run[r].plan = cache
    BY <1>1, <1>5, AloneAtWork
  <2>2. begins <=> (v.current = 0 /\ \E i \in DOMAIN v.status : v.status[i] \in Open)
    BY <2>1 DEF Unfinished, Its, Open
  <2>3. v.status \in Seq(Words)
    BY <2>1 DEF Plans
  <2> HIDE DEF v, w, begins, local
  <2>4. New(v, w) \/ Rests(v, w)
    BY <1>1, <2>1 DEF Stands
  <2>5. /\ v.current = 0 => w = 0 /\ v.status[1] = Word("pending") /\ Line(v, w, Word("pending"))
        /\ v.current # 0 => Rests(v, w)
    BY <2>1, <2>4, BeginsNew
  <2>6. 1 \in DOMAIN v.status
    BY <2>1, <2>3
  <2>7. begins <=> v.current = 0
    BY <2>2, <2>5, <2>6 DEF Open
  <2>8. v.current = 0 => Stands(local, v, w)
    BY <1>3, <2>1, <2>5, <2>7 DEF Stands
  <2>9. v.current # 0 => Stands(local, v, w)
    BY <1>3, <2>5, <2>7 DEF Stands
  <2>10. QED
    BY <2>8, <2>9 DEF v, w
<1> HIDE DEF local, begins
<1>6. local.at \notin Resting
  BY <1>3 DEF Resting, Planless
<1>7. QED
  BY <1>1, <1>2, <1>3, <1>4, <1>5, <1>6, OrderWorks

LEMMA OrderTool ==
  ASSUME PlanInv, SerialInv, OrderInv, NEW r \in Runs, NEW t \in Tools, Tool(r, t)
  PROVE  OrderInv'
<1>1. PlansTyped /\ run[r] \in Locals /\ run[r].at = "ready" /\ run[r].at \notin Resting
  BY DEF PlanInv, PlansTyped, Tool, Resting, Planless
<1> DEFINE local == Works(run[r], t)
           p == run[r].plan
<1>2. run' = [run EXCEPT ![r] = local]
  BY Zenon DEF Tool, Works
<1>3. worked' = [worked EXCEPT ![p] = worked[p] + 1] /\ UNCHANGED <<cache, plan, overlap>>
  BY DEF Tool
<1>4. t \in ToolNames
  BY DEF ToolNames
<1>5. local \in Locals /\ local.at = "running" /\ local.i = 1
  BY <1>1, <1>4, LocalWorks, Zenon
<1> HIDE DEF local, p
<1>6. p \in Runs
  BY <1>1, FirstSubtask DEF Planless, p
<1>7. worked'[p] = worked[p] + 1 /\ \A q \in Runs : q # p => worked'[q] = worked[q]
  BY <1>1, <1>3, <1>6 DEF PlansTyped
<1>8. ASSUME ~overlap PROVE Stands(local, plan'[cache], worked'[cache])
  <2> DEFINE v == plan[cache]
             w == worked[cache]
             k == w + 1
  <2>1. v \in Plans /\ w \in Nat /\ Stands(run[r], v, w) /\ p = cache
    BY <1>1, <1>8, AloneAtWork DEF p
  <2>2. plan'[cache] = v /\ worked'[cache] = k
    BY <1>3, <1>7, <2>1
  <2> HIDE DEF v, w
  <2>3. Rests(v, w)
    BY <1>1, <2>1 DEF Stands
  <2>4. k > 0 /\ 1 <= k /\ k - 1 = w
    BY <2>1
  <2> HIDE DEF k
  <2>5. v.current # 0
        /\ Line(v, IF k - 1 < Len(v.status) THEN k - 1 ELSE Len(v.status), Word("running"))
    BY <2>3, <2>4 DEF Rests
  <2>6. Stands(local, v, k)
    BY <1>5, <2>4, <2>5 DEF Stands
  <2>7. QED
    BY <2>2, <2>6
<1>9. local.at \notin Resting
  BY <1>5 DEF Resting, Planless
<1>10. \A q \in Runs : q # run[r].plan => plan'[q] = plan[q] /\ worked'[q] = worked[q]
  BY <1>3, <1>7 DEF p
<1>11. QED
  BY <1>1, <1>2, <1>3, <1>5, <1>8, <1>9, <1>10, OrderWorks

(* What a search finds while nobody else works: the first subtask that is  *)
(* running, or the first that is pending; and if there is none it goes on. *)
LEMMA LineAt ==
  ASSUME NEW v \in Plans, NEW k \in Nat, NEW word, Line(v, k, word), NEW j \in 1 .. Len(v.status)
  PROVE  /\ j <= k => v.status[j] = Word("done")
         /\ j = k + 1 => v.status[j] = word
         /\ j > k + 1 => v.status[j] = Word("pending")
<1>1. j \in Int
  BY DEF Plans
<1>2. QED
  BY <1>1 DEF Line

LEMMA WordsDiffer ==
  /\ Word("running") # Word("pending")
  /\ Word("done") # Word("pending") /\ Word("done") # Word("running")
  /\ Between("running", "done", {"text", "len"}) = Word("running")
  /\ Between("pending", "running", {"text", "len"}) = Word("pending")
  /\ \A from, to \in {"pending", "running", "done"} : Between(from, to, {}) = Word(to)
BY DEF Word, Between

LEMMA SearchesRunning ==
  ASSUME NEW v \in Plans, NEW w \in Nat, NEW l \in Locals, Len(v.status) \in Nat,
         l.i \in 1 .. Len(v.status), Stands(l, v, w), l.at = "running"
  PROVE  /\ w > 0 /\ v.current # 0
         /\ v.status[l.i] = Word("running") =>
              l.i = w /\ Line(v, w - 1, Between("running", "done", {"text", "len"}))
         /\ v.status[l.i] # Word("running") /\ l.i < Len(v.status) => l.i + 1 <= w
         /\ v.status[l.i] # Word("running") /\ ~(l.i < Len(v.status)) =>
              w > Len(v.status) /\ Line(v, Len(v.status), Word("running"))
<1> DEFINE n == Len(v.status)
           i == l.i
           m == w - 1
           k == IF m < n THEN m ELSE n
<1>1. w > 0 /\ v.current # 0 /\ i <= w /\ Line(v, k, Word("running"))
  BY DEF Stands
<1>2. i \in Nat /\ i \in 1 .. n /\ n \in Nat /\ m \in Nat /\ k \in Nat
  BY <1>1
<1>3. /\ i <= k => v.status[i] = Word("done")
      /\ i = k + 1 => v.status[i] = Word("running")
  <2>1. Line(v, k, Word("running"))
    BY <1>1
  <2>2. k \in Nat /\ i \in 1 .. Len(v.status)
    BY <1>2
  <2> HIDE DEF k, i
  <2>3. QED
    BY <2>1, <2>2, LineAt, SMTT(30)
<1>4. v.status[i] = Word("running") => i = w /\ k = w - 1
  BY <1>1, <1>2, <1>3, WordsDiffer
<1>5. v.status[i] # Word("running") => i < w
  BY <1>1, <1>2, <1>3
<1>6. v.status[i] # Word("running") /\ ~(i < n) => w > n /\ k = n
  BY <1>2, <1>5
<1>7. v.status[i] # Word("running") /\ i < n => i + 1 <= w
  BY <1>2, <1>5
<1>8. v.status[i] = Word("running") => Line(v, w - 1, Between("running", "done", {"text", "len"}))
  BY <1>1, <1>4, WordsDiffer
<1>9. v.status[i] # Word("running") /\ ~(i < n) => Line(v, n, Word("running"))
  BY <1>1, <1>6
<1>10. QED
  BY <1>1, <1>4, <1>6, <1>7, <1>8, <1>9

LEMMA SearchesPending ==
  ASSUME NEW v \in Plans, NEW w \in Nat, NEW l \in Locals, Len(v.status) \in Nat, Len(v.status) >= 2,
         l.i \in 1 .. Len(v.status), Stands(l, v, w), l.at = "start"
  PROVE  /\ w <= Len(v.status)
         /\ v.status[l.i] = Word("pending") =>
              l.i = w + 1 /\ Line(v, w, Between("pending", "running", {"text", "len"}))
         /\ v.status[l.i] # Word("pending") /\ l.i < Len(v.status) => l.i + 1 <= w + 1
         /\ v.status[l.i] # Word("pending") /\ ~(l.i < Len(v.status)) => Rests(v, w)
<1> DEFINE n == Len(v.status)
           i == l.i
<1>1. w <= n /\ i <= w + 1 /\ (w # 0 => v.current # 0) /\ Line(v, w, Word("pending"))
  BY DEF Stands
<1>2. i \in Nat /\ i \in 1 .. n /\ n \in Nat /\ n >= 2
  OBVIOUS
<1>3. /\ i <= w => v.status[i] = Word("done")
      /\ i = w + 1 => v.status[i] = Word("pending")
  <2>1. Line(v, w, Word("pending"))
    BY <1>1
  <2>2. i \in 1 .. Len(v.status)
    BY <1>2
  <2> HIDE DEF i
  <2>3. QED
    BY <2>1, <2>2, LineAt, SMTT(30)
<1>4. v.status[i] = Word("pending") => i = w + 1
  BY <1>1, <1>2, <1>3, WordsDiffer
<1>5. v.status[i] # Word("pending") => i < w + 1
  BY <1>1, <1>2, <1>3
<1>6. v.status[i] = Word("pending") => Line(v, w, Between("pending", "running", {"text", "len"}))
  BY <1>1, WordsDiffer
<1>7. v.status[i] # Word("pending") /\ i < n => i + 1 <= w + 1
  BY <1>2, <1>5
<1>8. ASSUME v.status[i] # Word("pending"), ~(i < n) PROVE Rests(v, w)
  <2>1. w = n /\ w # 0
    BY <1>1, <1>2, <1>5, <1>8
  <2>2. ASSUME NEW j \in 1 .. n PROVE v.status[j] = Word("done") /\ j <= n
    <3>1. j <= w
      BY <2>1
    <3>2. QED
      BY <1>1, <2>1, <3>1, LineAt
  <2>3. Line(v, n, Word("running"))
    BY <2>2 DEF Line
  <2>4. QED
    BY <1>1, <2>1, <2>3 DEF Rests
<1>9. QED
  BY <1>1, <1>4, <1>6, <1>7, <1>8

(* With every subtask done, neither search finds one. *)
LEMMA SearchesNothing ==
  ASSUME NEW v \in Plans, NEW w \in Nat, NEW l \in Locals, Len(v.status) \in Nat,
         l.i \in 1 .. Len(v.status), Stands(l, v, w), l.at \in {"expected", "pending"}
  PROVE  /\ v.current # 0 /\ w > Len(v.status) /\ Line(v, Len(v.status), Word("running"))
         /\ v.status[l.i] # Word("pending") /\ Rests(v, w)
<1> DEFINE n == Len(v.status)
<1>1. v.current # 0 /\ w > n /\ Line(v, n, Word("running"))
  BY DEF Stands
<1>2. v.status[l.i] = Word("done")
  BY <1>1, LineAt
<1>3. Rests(v, w)
  <2>1. ~(w < n)
    BY <1>1
  <2>2. QED
    BY <1>1, <2>1 DEF Rests
<1>4. QED
  BY <1>1, <1>2, <1>3, WordsDiffer

LEMMA LocalFinds ==
  ASSUME NEW l \in Locals, NEW text \in {"running", "done"}, NEW moves \in Flags
  PROVE  Hits(l, text, moves).left = {"text", "len"} /\ Hits(l, text, moves).moves = moves
<1> DEFINE a == [l EXCEPT !.at = "write", !.left = {"text", "len"}]
           b == [a EXCEPT !.text = text]
<1>1. "write" \in Labels /\ {"text", "len"} \in SUBSET {"text", "len"}
  BY DEF Labels
<1>2. a \in Locals /\ a.left = {"text", "len"}
  BY <1>1 DEF Locals
<1>3. Hits(l, text, moves) = [b EXCEPT !.moves = moves]
  BY DEF Locals, Hits
<1> HIDE DEF a
<1>4. b \in Locals /\ b.left = {"text", "len"}
  BY <1>2 DEF Locals
<1> HIDE DEF b
<1>5. QED
  BY <1>3, <1>4 DEF Locals

LEMMA OrderLook ==
  ASSUME PlanInv, SerialInv, OrderInv, NEW r \in Runs, Look(r)
  PROVE  OrderInv'
<1>1. PlansTyped /\ run[r] \in Locals
  BY DEF PlanInv, PlansTyped
<1> DEFINE at == run[r].at
           l == run[r]
           n == Len(Its(r).status)
<1>2. at \in {"running", "expected", "pending", "start"} /\ UNCHANGED <<cache, plan, worked, overlap>>
  BY DEF Look, Searching
<1>3. at \notin Resting
  BY <1>2 DEF Resting, Planless
<1>4. l.i \in 1 .. n
  BY <1>2 DEF PlanInv, RunsKnow, Knows, Looking, Its
(* What the run does next stands with the plan as it is.                   *)
<1>5. ASSUME NEW local \in Locals, run' = [run EXCEPT ![r] = local], local.at \notin Resting,
             \A v \in Plans, w \in Nat :
               /\ ~overlap /\ v = Its(r) /\ Len(v.status) \in Nat /\ Len(v.status) >= 2
               /\ Stands(l, v, w)
               => Stands(local, v, w)
      PROVE  OrderInv'
  <2>1. ASSUME ~overlap PROVE Stands(local, plan'[cache], worked'[cache])
    <3>1. /\ plan[cache] \in Plans /\ worked[cache] \in Nat /\ run[r].plan = cache
          /\ Len(plan[cache].status) \in Nat /\ Len(plan[cache].status) >= 2
          /\ Stands(l, plan[cache], worked[cache])
      BY <1>3, <2>1, AloneAtWork
    <3>2. plan[cache] = Its(r)
      BY <3>1 DEF Its
    <3>3. Stands(local, plan[cache], worked[cache])
      BY <1>5, <2>1, <3>1, <3>2
    <3>4. QED
      BY <1>2, <3>3
  <2>2. QED
    BY <1>2, <1>3, <1>5, <2>1, OrderWorks
<1>6. CASE Hit(r)
  <2> DEFINE text == IF At(r, "start") THEN "running" ELSE "done"
             moves == ~At(r, "running")
             local == Hits(l, text, moves)
  <2>1. run' = [run EXCEPT ![r] = local]
    BY <1>6, Zenon DEF Look, Found, Hits
  <2>2. /\ text \in {"running", "done"} /\ moves \in Flags
        /\ at = "start" => text = "running" /\ moves
        /\ at = "running" => text = "done" /\ ~moves
    BY DEF Flags
  <2>3. /\ at = "running" => Its(r).status[l.i] = Word("running")
        /\ at # "running" => Its(r).status[l.i] = Word("pending")
    BY <1>6 DEF Hit, Status
  <2> HIDE DEF text, moves
  <2>4. /\ local \in Locals /\ local.at = "write" /\ local.text = text
        /\ local.i = l.i /\ local.left = {"text", "len"} /\ local.moves = moves
    <3>1. local \in Locals /\ local.at = "write" /\ local.text = text /\ local.i = l.i
      BY <1>1, <2>2, LocalWrites, SMTT(30)
    <3>2. local.left = {"text", "len"} /\ local.moves = moves
      BY <1>1, <2>2, LocalFinds
    <3>3. QED
      BY <3>1, <3>2, Zenon
  <2> HIDE DEF local
  <2>5. local.at \notin Resting
    BY <2>4 DEF Resting, Planless
  <2>6. ASSUME NEW v \in Plans, NEW w \in Nat, v = Its(r), Len(v.status) \in Nat, Len(v.status) >= 2,
               Stands(l, v, w)
        PROVE  Stands(local, v, w)
    <3>1. CASE at = "running"
      <4>1. /\ w > 0 /\ v.current # 0 /\ l.i = w
            /\ Line(v, w - 1, Between("running", "done", {"text", "len"}))
        BY <1>1, <1>4, <2>3, <2>6, <3>1, SearchesRunning
      <4>2. QED
        BY <2>2, <2>4, <3>1, <4>1 DEF Stands
    <3>2. CASE at = "start"
      <4>1. /\ l.i = w + 1
            /\ Line(v, w, Between("pending", "running", {"text", "len"}))
        BY <1>1, <1>4, <2>3, <2>6, <3>2, SearchesPending
      <4>2. QED
        BY <2>2, <2>4, <3>2, <4>1 DEF Stands
    <3>3. CASE at \in {"expected", "pending"}
      BY <1>1, <1>4, <2>3, <2>6, <3>3, SearchesNothing
    <3>4. QED
      BY <1>2, <3>1, <3>2, <3>3
  <2>7. QED
    BY <1>5, <2>1, <2>4, <2>5, <2>6
<1>7. ~Hit(r) => /\ at = "running" => Its(r).status[l.i] # Word("running")
                 /\ at \in {"pending", "start"} => Its(r).status[l.i] # Word("pending")
  BY DEF Hit, Status
<1>8. CASE ~Hit(r) /\ l.i < n
  <2> DEFINE i == l.i + 1
             local == [run[r] EXCEPT !.i = i]
  <2>1. run' = [run EXCEPT ![r] = local]
    BY <1>8 DEF Look, Its
  <2>2. i \in Nat
    BY <1>1 DEF Locals
  <2>3. local \in Locals /\ local.at = at /\ local.i = i
    <3> HIDE DEF i
    <3>1. QED
      BY <1>1, <2>2, LocalLooks, Zenon
  <2> HIDE DEF local
  <2>4. ASSUME NEW v \in Plans, NEW w \in Nat, v = Its(r), Len(v.status) \in Nat, Len(v.status) >= 2,
               Stands(l, v, w)
        PROVE  Stands(local, v, w)
    <3>1. CASE at = "running"
      <4>1. l.i + 1 <= w
        BY <1>1, <1>4, <1>7, <1>8, <2>4, <3>1, SearchesRunning
      <4>2. QED
        BY <2>3, <2>4, <3>1, <4>1 DEF Stands
    <3>2. CASE at = "start"
      <4>1. l.i + 1 <= w + 1
        BY <1>1, <1>4, <1>7, <1>8, <2>4, <3>2, SearchesPending
      <4>2. QED
        BY <2>3, <2>4, <3>2, <4>1 DEF Stands
    <3>3. CASE at \in {"expected", "pending"}
      BY <2>3, <2>4, <3>3 DEF Stands
    <3>4. QED
      BY <1>2, <3>1, <3>2, <3>3
  <2>5. QED
    BY <1>3, <1>5, <2>1, <2>3, <2>4
<1>9. CASE ~Hit(r) /\ ~(l.i < n) /\ at \in {"pending", "start"}
  <2> DEFINE local == Ready(r)
  <2>1. run' = [run EXCEPT ![r] = local]
    BY <1>9 DEF Look, Its
  <2>2. local \in Locals /\ local.at = "ready"
    BY <1>1, ReadyTyped
  <2> HIDE DEF local
  <2>3. local.at \notin Resting
    BY <2>2 DEF Resting, Planless
  <2>4. ASSUME NEW v \in Plans, NEW w \in Nat, v = Its(r), Len(v.status) \in Nat, Len(v.status) >= 2,
               Stands(l, v, w)
        PROVE  Stands(local, v, w)
    <3>1. Rests(v, w)
      <4>1. CASE at = "start"
        BY <1>1, <1>4, <1>7, <1>9, <2>4, <4>1, SearchesPending
      <4>2. CASE at = "pending"
        BY <1>1, <1>4, <2>4, <4>2, SearchesNothing
      <4>3. QED
        BY <1>9, <4>1, <4>2
    <3>2. QED
      BY <2>2, <3>1 DEF Stands
  <2>5. QED
    BY <1>5, <2>1, <2>2, <2>3, <2>4
<1>10. CASE ~Hit(r) /\ ~(l.i < n) /\ at \notin {"pending", "start"}
  <2> DEFINE next == NextSearch[at]
             local == [run[r] EXCEPT !.at = next, !.i = 1]
  <2>1. run' = [run EXCEPT ![r] = local]
    BY <1>10, Zenon DEF Look, Its
  <2>2. next \in {"expected", "pending"} /\ next \in Labels
    BY <1>2, <1>10 DEF NextSearch, Labels
  <2>3. local \in Locals /\ local.at = next /\ local.i = 1
    <3> HIDE DEF next
    <3>1. QED
      BY <1>1, <2>2, LocalTurns, Zenon
  <2> HIDE DEF local, next
  <2>4. local.at \notin Resting
    BY <2>2, <2>3 DEF Resting, Planless
  <2>5. ASSUME NEW v \in Plans, NEW w \in Nat, v = Its(r), Len(v.status) \in Nat, Len(v.status) >= 2,
               Stands(l, v, w)
        PROVE  Stands(local, v, w)
    <3>1. v.current # 0 /\ w > Len(v.status) /\ Line(v, Len(v.status), Word("running"))
      <4>1. CASE at = "running"
        BY <1>1, <1>4, <1>7, <1>10, <2>5, <4>1, SearchesRunning
      <4>2. CASE at = "expected"
        BY <1>1, <1>4, <2>5, <4>2, SearchesNothing
      <4>3. QED
        BY <1>2, <1>10, <4>1, <4>2
    <3>2. QED
      BY <2>2, <2>3, <3>1 DEF Stands
  <2>6. QED
    BY <1>5, <2>1, <2>3, <2>4, <2>5
<1>11. QED
  BY <1>6, <1>8, <1>9, <1>10

(* A word that is written is one less to write.                            *)
LEMMA WordsLeft ==
  ASSUME NEW from \in {"pending", "running", "done"}, NEW to \in {"pending", "running", "done"},
         NEW left \in SUBSET {"text", "len"}, NEW w \in left
  PROVE  [Between(from, to, left) EXCEPT ![w] = Word(to)[w]] = Between(from, to, left \ {w})
<1>1. CASE w = "text"
  BY <1>1 DEF Between, Word
<1>2. CASE w = "len"
  BY <1>2 DEF Between, Word
<1>3. QED
  BY <1>1, <1>2

(* The subtask behind those that are done, with another status.            *)
LEMMA LineWritten ==
  ASSUME NEW v \in Plans, NEW k \in Nat, k + 1 \in 1 .. Len(v.status), NEW from, Line(v, k, from),
         NEW v2 \in Plans, Len(v2.status) = Len(v.status), NEW to, v2.status[k + 1] = to,
         \A j \in 1 .. Len(v.status) : j # k + 1 => v2.status[j] = v.status[j]
  PROVE  Line(v2, k, to) /\ v.status[k + 1] = from
BY DEF Line

(* With that one done the next is looked for.                              *)
LEMMA LineDone ==
  ASSUME NEW v \in Plans, NEW k \in Nat, k # 0, Line(v, k - 1, Word("done"))
  PROVE  Line(v, k, Word("pending"))
<1> DEFINE m == k - 1
<1>1. m \in Nat /\ m + 1 = k
  OBVIOUS
<1>2. ASSUME NEW j \in 1 .. Len(v.status)
      PROVE  v.status[j] = IF j <= k THEN Word("done") ELSE Word("pending")
  <2>1. v.status[j] = IF j <= m THEN Word("done") ELSE IF j = m + 1 THEN Word("done")
                      ELSE Word("pending")
    BY DEF Line
  <2>2. j \in Int
    BY DEF Plans
  <2>3. j <= k <=> (j <= m \/ j = m + 1)
    BY <1>1, <2>2
  <2>4. QED
    BY <2>1, <2>3
<1>3. QED
  BY <1>2 DEF Line

LEMMA OrderIndex ==
  ASSUME PlanInv, SerialInv, OrderInv, NEW r \in Runs, Index(r)
  PROVE  OrderInv'
<1>1. PlansTyped /\ run[r] \in Locals /\ run[r].at = "index" /\ run[r].at \notin Resting
  BY DEF PlanInv, PlansTyped, Index, Resting, Planless
<1> DEFINE p == run[r].plan
           i == run[r].i
           new == [plan[p] EXCEPT !.current = i]
           local == AfterWrite(r)
<1>2. plan' = [plan EXCEPT ![p] = new] /\ UNCHANGED <<cache, worked, overlap>>
  BY DEF Index
<1>3. run' = [run EXCEPT ![r] = local]
  BY DEF Index
<1>4. p \in Runs /\ plan[p] # None /\ i \in 1 .. Len(plan[p].status)
  BY <1>1, FirstSubtask DEF Planless, PlanInv, RunsKnow, Knows, Looking
<1>5. local \in Locals /\ local.at \in {"ready", "start"}
  BY <1>1, AfterWriteKnows DEF Planless
<1>6. run[r].text = "running" => local = Ready(r) /\ local.at = "ready"
  BY <1>1, ReadyTyped DEF AfterWrite
<1> HIDE DEF local
<1>7. plan \in [Runs -> Plans \cup {None}] /\ plan[p] \in Plans
  BY <1>1, <1>4, PlanTypes DEF PlansTyped
<1> HIDE DEF p
<1>8. plan'[p] = new /\ \A q \in Runs : q # p => plan'[q] = plan[q]
  BY <1>2, <1>4, <1>7
<1>9. new.status = plan[p].status /\ new.current = i
  BY <1>7 DEF Plans
<1>10. ASSUME ~overlap PROVE Stands(local, plan'[cache], worked'[cache])
  <2> DEFINE v == plan[cache]
             w == worked[cache]
  <2>1. /\ p = cache /\ w \in Nat /\ Len(v.status) \in Nat /\ Stands(run[r], v, w)
    BY <1>1, <1>10, AloneAtWork DEF p
  <2> HIDE DEF v, w, i, new
  <2>2. i = w + 1 /\ run[r].text = "running" /\ Line(v, w, Word("running"))
    BY <1>1, <2>1 DEF Stands, i
  <2>3. new.status = v.status /\ new.current # 0 /\ w < Len(v.status)
    BY <1>4, <1>9, <2>1, <2>2 DEF v
  <2>4. Line(new, w, Word("running"))
    BY <2>2, <2>3 DEF Line
  <2>5. Rests(new, w)
    BY <2>3, <2>4 DEF Rests
  <2>6. Stands(local, new, w)
    BY <1>6, <2>2, <2>5 DEF Stands
  <2>7. QED
    BY <1>2, <1>8, <2>1, <2>6 DEF w
<1>11. local.at \notin Resting
  BY <1>5 DEF Resting, Planless
<1>12. \A q \in Runs : q # run[r].plan => plan'[q] = plan[q] /\ worked'[q] = worked[q]
  BY <1>2, <1>8 DEF p
<1>13. QED
  BY <1>1, <1>2, <1>3, <1>5, <1>10, <1>11, <1>12, OrderWorks

(* What a run is at after a word: at the other word, or past the subtask.  *)
LEMMA WordGoes ==
  ASSUME PlanInv, NEW r \in Runs, NEW w \in {"text", "len"}, Write(r, w)
  PROVE  \E local \in Locals :
           /\ run' = [run EXCEPT ![r] = local]
           /\ local.at \in {"write", "index", "ready", "start"}
           /\ run[r].left # {w} =>
                /\ local.at = "write" /\ local.i = run[r].i /\ local.text = run[r].text
                /\ local.moves = run[r].moves /\ local.left = run[r].left \ {w}
           /\ run[r].left = {w} /\ run[r].moves =>
                local.at = "index" /\ local.i = run[r].i /\ local.text = run[r].text
           /\ run[r].left = {w} /\ ~run[r].moves /\ run[r].text = "done" =>
                local.at = "start" /\ local.i = 1
<1>1. PlansTyped /\ run[r] \in Locals /\ run[r].at = "write"
  BY DEF PlanInv, PlansTyped, Write
<1>2. CASE run[r].left # {w}
  <2> DEFINE left == run[r].left \ {w}
             local == [run[r] EXCEPT !.left = left]
  <2>1. run' = [run EXCEPT ![r] = local]
    BY <1>2 DEF Write
  <2>2. left \in SUBSET {"text", "len"}
    BY <1>1, RunTypes
  <2>3. /\ local \in Locals /\ local.at = "write" /\ local.i = run[r].i
        /\ local.text = run[r].text /\ local.moves = run[r].moves /\ local.left = left
    <3> HIDE DEF left
    <3>1. QED
      BY <1>1, <2>2 DEF Locals
  <2> HIDE DEF local
  <2>4. QED
    BY <1>2, <2>1, <2>3
<1>3. CASE run[r].left = {w} /\ run[r].moves
  <2> DEFINE local == [run[r] EXCEPT !.at = "index", !.left = {}]
  <2>1. run' = [run EXCEPT ![r] = local]
    BY <1>3 DEF Write
  <2>2. "index" \in Labels /\ {} \in SUBSET {"text", "len"}
    BY DEF Labels
  <2>3. local \in Locals /\ local.at = "index" /\ local.i = run[r].i /\ local.text = run[r].text
    BY <1>1, <2>2 DEF Locals
  <2> HIDE DEF local
  <2>4. QED
    BY <1>3, <2>1, <2>3
<1>4. CASE run[r].left = {w} /\ ~run[r].moves
  <2> DEFINE local == AfterWrite(r)
  <2>1. run' = [run EXCEPT ![r] = local]
    BY <1>4 DEF Write
  <2>2. local \in Locals /\ local.at \in {"ready", "start"}
    BY <1>1, AfterWriteKnows DEF Planless
  <2>3. run[r].text = "done" => local.at = "start" /\ local.i = 1
    BY <1>1, ReadyTyped DEF AfterWrite
  <2> HIDE DEF local
  <2>4. QED
    BY <1>4, <2>1, <2>2, <2>3
<1>5. QED
  BY <1>2, <1>3, <1>4

LEMMA OrderWrite ==
  ASSUME PlanInv, SerialInv, OrderInv, NEW r \in Runs, NEW x \in {"text", "len"}, Write(r, x)
  PROVE  OrderInv'
<1>1. PlansTyped /\ run[r] \in Locals /\ run[r].at = "write" /\ run[r].at \notin Resting
  BY DEF PlanInv, PlansTyped, Write, Resting, Planless
<1> DEFINE p == run[r].plan
           i == run[r].i
           to == run[r].text
           left == run[r].left
           word == Rewritten(plan[p].status[i], x, to)
           new == [plan[p] EXCEPT !.status[i] = word]
<1>2. plan' = [plan EXCEPT ![p] = new] /\ UNCHANGED <<cache, worked, overlap>> /\ x \in left
  BY Zenon DEF Write, Rewritten
<1>3. PICK local \in Locals :
        /\ run' = [run EXCEPT ![r] = local]
        /\ local.at \in {"write", "index", "ready", "start"}
        /\ left # {x} =>
             /\ local.at = "write" /\ local.i = i /\ local.text = to
             /\ local.moves = run[r].moves /\ local.left = left \ {x}
        /\ left = {x} /\ run[r].moves =>
             local.at = "index" /\ local.i = i /\ local.text = to
        /\ left = {x} /\ ~run[r].moves /\ to = "done" =>
             local.at = "start" /\ local.i = 1
  BY WordGoes
<1>4. p \in Runs /\ plan[p] # None /\ i \in 1 .. Len(plan[p].status)
  BY <1>1, FirstSubtask DEF Planless, PlanInv, RunsKnow, Knows, Looking
<1>5. plan \in [Runs -> Plans \cup {None}] /\ plan[p] \in Plans /\ plan[p].status \in Seq(Words)
  BY <1>1, <1>4, PlanTypes DEF PlansTyped
<1>6. to \in {"running", "done"} /\ left \in SUBSET {"text", "len"}
  BY <1>1, RunTypes
<1> HIDE DEF p, i, to, left
<1>7. plan[p].status[i] \in Words
  BY <1>4, <1>5
<1>8. word \in Words
  BY <1>6, <1>7, WordWritten
<1>9. /\ new \in Plans /\ new.current = plan[p].current /\ Len(new.status) = Len(plan[p].status)
      /\ new.status[i] = word
      /\ \A j \in 1 .. Len(plan[p].status) : j # i => new.status[j] = plan[p].status[j]
  <2> HIDE DEF word
  <2>1. QED
    BY <1>4, <1>5, <1>8, StatusWritten
<1> HIDE DEF new
<1>10. plan'[p] = new /\ \A q \in Runs : q # p => plan'[q] = plan[q]
  BY <1>2, <1>4, <1>5
<1>11. ASSUME ~overlap PROVE Stands(local, plan'[cache], worked'[cache])
  <2> DEFINE v == plan[cache]
             w == worked[cache]
             k == w - 1
  <2>1. /\ p = cache /\ w \in Nat /\ v \in Plans /\ Len(v.status) \in Nat /\ Stands(run[r], v, w)
    BY <1>1, <1>11, AloneAtWork DEF p
  <2>2. plan'[cache] = new /\ worked'[cache] = w
    BY <1>2, <1>10, <2>1
  <2> HIDE DEF v, w
  <2>3. /\ i \in 1 .. Len(v.status) /\ new.current = v.current /\ Len(new.status) = Len(v.status)
        /\ \A j \in 1 .. Len(v.status) : j # i => new.status[j] = v.status[j]
        /\ new.status[i] = [v.status[i] EXCEPT ![x] = Word(to)[x]]
    BY <1>4, <1>9, <2>1 DEF v, Rewritten
  <2> DEFINE from == IF to = "done" THEN "running" ELSE "pending"
  <2>4. from \in {"pending", "running", "done"} /\ to \in {"pending", "running", "done"}
    BY <1>6
  <2> HIDE DEF from
  <2>5. [Between(from, to, left) EXCEPT ![x] = Word(to)[x]] = Between(from, to, left \ {x})
    BY <1>2, <1>6, <2>4, WordsLeft
  <2>6. v.status[i] = Between(from, to, left) => new.status[i] = Between(from, to, left \ {x})
    BY <2>3, <2>5
  <2>7. CASE to = "done"
    <3>1. /\ v.current # 0 /\ ~run[r].moves /\ i = w
          /\ Line(v, k, Between("running", "done", left))
      BY <1>1, <2>1, <2>7 DEF Stands, i, to, left
    <3>2. k \in Nat /\ k + 1 = i /\ w # 0 /\ w <= Len(v.status)
      BY <2>1, <2>3, <3>1
    <3> HIDE DEF k
    <3>3. v.status[i] = Between("running", "done", left)
      BY <2>1, <2>3, <3>1, <3>2, LineAt
    <3>4. new.status[i] = Between("running", "done", left \ {x})
      BY <2>7, <2>6, <3>3 DEF from
    <3>5. Line(new, k, Between("running", "done", left \ {x}))
      BY <1>9, <2>1, <2>3, <3>1, <3>2, <3>4, LineWritten
    <3>6. ASSUME left # {x} PROVE Stands(local, new, w)
      <4>1. local.left # {}
        BY <1>2, <1>3, <3>6
      <4>2. Line(new, w - 1, Between("running", "done", local.left))
        BY <1>3, <3>5, <3>6 DEF k
      <4>3. QED
        BY <1>3, <2>3, <2>7, <3>1, <3>6, <4>1, <4>2 DEF Stands
    <3>7. ASSUME left = {x} PROVE Stands(local, new, w)
      <4>1. left \ {x} = {}
        BY <3>7
      <4>2. Between("running", "done", {}) = Word("done")
        BY WordsDiffer
      <4>3. Line(new, w - 1, Word("done"))
        BY <3>5, <4>1, <4>2 DEF k
      <4>4. Line(new, w, Word("pending"))
        BY <1>9, <2>1, <3>2, <4>3, LineDone
      <4>5. local.at = "start" /\ local.i = 1
        BY <1>3, <2>7, <3>1, <3>7
      <4>6. w <= Len(new.status) /\ local.i <= w + 1 /\ new.current # 0
        BY <2>1, <2>3, <3>1, <3>2, <4>5
      <4>7. QED
        BY <4>4, <4>5, <4>6 DEF Stands
    <3>8. QED
      BY <2>2, <3>6, <3>7
  <2>8. CASE to = "running"
    <3>1. /\ run[r].moves /\ i = w + 1
          /\ Line(v, w, Between("pending", "running", left))
      BY <1>1, <2>1, <2>8 DEF Stands, i, to, left
    <3>2. v.status[i] = Between("pending", "running", left)
      BY <2>1, <2>3, <3>1, LineAt
    <3>3. new.status[i] = Between("pending", "running", left \ {x})
      BY <2>8, <2>6, <3>2 DEF from
    <3>4. Line(new, w, Between("pending", "running", left \ {x}))
      BY <1>9, <2>1, <2>3, <3>1, <3>3, LineWritten
    <3>5. left # {x} => Stands(local, new, w)
      BY <1>2, <1>3, <2>8, <3>1, <3>4 DEF Stands
    <3>6. left = {x} => Stands(local, new, w)
      <4>1. left = {x} => Line(new, w, Word("running"))
        BY <3>4, WordsDiffer
      <4>2. QED
        BY <1>3, <2>8, <3>1, <4>1 DEF Stands
    <3>7. QED
      BY <2>2, <3>5, <3>6
  <2>9. QED
    BY <1>6, <2>7, <2>8
<1>12. local.at \notin Resting
  BY <1>3 DEF Resting, Planless
<1>13. \A q \in Runs : q # run[r].plan => plan'[q] = plan[q] /\ worked'[q] = worked[q]
  BY <1>2, <1>10 DEF p
<1>14. QED
  BY <1>1, <1>2, <1>3, <1>11, <1>12, <1>13, OrderWorks

LEMMA OrderInductive == PlanInv /\ SerialInv /\ OrderInv /\ [PlanNext]_planVars => OrderInv'
<1> SUFFICES ASSUME PlanInv, SerialInv, OrderInv, [PlanNext]_planVars PROVE OrderInv'
  OBVIOUS
<1>1. ASSUME NEW r \in Runs, RunStep(r) PROVE OrderInv'
  BY <1>1, OrderStart, OrderContinue, OrderLookup, OrderShould, OrderBreak, OrderBreakFails,
     OrderBegin, OrderTool, OrderEnd, OrderLook, OrderWrite, OrderIndex
  DEF RunStep
<1>2. CASE UNCHANGED planVars
  BY <1>2 DEF planVars, OrderInv, Active
<1>3. QED
  BY <1>1, <1>2 DEF PlanNext

(* Between operations the cached plan is where its tools have brought it.  *)
LEMMA OrderGives == PlanInv /\ SerialInv /\ OrderInv => SerialRunsKeepOrder
<1> SUFFICES ASSUME PlanInv, SerialInv, OrderInv, ~overlap, NEW p \in Runs, plan[p] # None,
                    \A r \in Active : run[r].at = "ready" \/ run[r].plan = None
             PROVE  Settled(p)
  BY DEF SerialRunsKeepOrder
<1> DEFINE v == plan[p]
           w == worked[p]
<1>1. p = cache /\ p # None
  BY PlanAssumption DEF OrderInv
<1>2. Rests(v, w)
  <2>1. CASE \A r \in Active : run[r].at \in Resting
    BY <1>1, <2>1 DEF OrderInv
  <2>2. ASSUME NEW r \in Active, run[r].at \notin Resting PROVE Rests(v, w)
    <3>1. r \in Runs /\ run[r].plan \in Runs
      BY <2>2, FirstSubtask DEF Active, Resting
    <3>2. run[r].at = "ready"
      BY <3>1, PlanAssumption
    <3>3. Stands(run[r], v, w)
      BY <1>1, <2>2 DEF OrderInv
    <3> HIDE DEF v, w
    <3>4. QED
      BY <3>2, <3>3 DEF Stands
  <2>3. QED
    BY <2>1, <2>2
<1>3. Settled(p)
  BY <1>2 DEF Rests, Line, Settled
<1>4. QED
  BY <1>3

(* Runs of a session that follow one another keep the order of its plan    *)
(* (valobj/task_plan.go: AdvanceWithTool, StartNext): between operations   *)
(* as many subtasks are done as tools were executed with it, the first     *)
(* ones, the next one is running, and the others are pending.              *)
THEOREM SerialOrderKept == PlanSpec => []SerialRunsKeepOrder
<1>1. PlanInit => SerialInv /\ OrderInv
  BY DEF PlanInit, SerialInv, OrderInv, Active, Idle
<1>2. QED
  BY <1>1, PlanInvariant, SerialInductive, OrderInductive, OrderGives, PTL DEF PlanSpec
================================================================================
