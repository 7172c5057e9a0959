------------------------------ MODULE EngineProofs ------------------------------
(* Proofs about the permission guard and the agent engine.  The guard      *)
(* keeps its invariant for every set of sessions, calls, confirmations and *)
(* goroutines.  The engine uses it as it expects, what it does in one      *)
(* request is bounded and authorised, an approved call is resumed once,    *)
(* and repeated replies are cut.                                           *)
EXTENDS AgentEngine, SequenceTheorems, FiniteSetTheorems, TLAPS

--------------------------------------------------------------------------------
(* The permission guard *)

LEMMA GuardTypesInit == GuardInit => GuardTypeOK
BY GuardAssumption DEF GuardInit, GuardTypeOK

LEMMA VerdictType == \A c \in Calls : RuleVerdict(c) \in {"denyRule", "allow", "confirm"}
BY DEF RuleVerdict

(* Each operation writes values of their types. *)
LEMMA GuardTypesStep == GuardTypeOK /\ [GuardNext]_guardVars => GuardTypeOK'
<1> SUFFICES ASSUME GuardTypeOK, [GuardNext]_guardVars PROVE GuardTypeOK'
  OBVIOUS
<1> USE GuardAssumption DEF GuardTypeOK, stateVars, historyVars, Confirms, Resumes, Checks
<1>1. ASSUME NEW r \in Runs, NEW s \in Sessions, NEW c \in Calls, BeginCheck(r, s, c)
      PROVE GuardTypeOK'
  BY <1>1 DEF BeginCheck
<1>2. ASSUME NEW r \in Runs, DecideCheck(r) PROVE GuardTypeOK'
  BY <1>2, VerdictType DEF DecideCheck
<1>3. ASSUME NEW r \in Runs, IncDeny(r) PROVE GuardTypeOK'
  BY <1>3 DEF IncDeny
<1>4. ASSUME NEW r \in Runs, ReturnCheck(r) PROVE GuardTypeOK'
  BY <1>4 DEF ReturnCheck
<1>5. ASSUME NEW r \in Runs, NEW id \in PermIds, CreatePending(r, id) PROVE GuardTypeOK'
  BY <1>5 DEF CreatePending
<1>6. ASSUME NEW id \in PermIds, NEW scope \in {"once", "session"}, Approve(id, scope)
      PROVE GuardTypeOK'
  <2> DEFINE p == pending[id]
  <2>1. p \in Confirms
    BY <1>6 DEF Approve
  <2>2. sessionAllow' \in [Sessions -> SUBSET (Sigs \cup {AutoAll})]
    BY <1>6, <2>1 DEF Approve, Granted
  <2>3. awaiting' \in [Sessions -> Resumes \cup {None}]
    <3>1. CASE awaiting[p.session] # None /\ awaiting[p.session].perm = id
      <4>1. [awaiting[p.session] EXCEPT !.ready = TRUE] \in Resumes
        <5>1. awaiting[p.session] \in Resumes
          BY <2>1, <3>1
        <5>2. \A a \in Resumes : [a EXCEPT !.ready = TRUE] \in Resumes
          BY DEF Resumes
        <5>3. QED
          BY <5>1, <5>2
      <4>2. QED
        BY <1>6, <2>1, <3>1, <4>1 DEF Approve
    <3>2. CASE ~(awaiting[p.session] # None /\ awaiting[p.session].perm = id)
      BY <1>6, <2>1, <3>2 DEF Approve
    <3>3. QED
      BY <3>1, <3>2
  <2>4. QED
    BY <1>6, <2>1, <2>2, <2>3 DEF Approve, Answered
<1>7. ASSUME NEW id \in PermIds, Reject(id) PROVE GuardTypeOK'
  BY <1>7 DEF Reject, Answered, Withdrawn
<1>8. ASSUME NEW s \in Sessions, TakeReadyResume(s) PROVE GuardTypeOK'
  BY <1>8 DEF TakeReadyResume, Ready
<1>9. CASE UNCHANGED guardVars
  BY <1>9 DEF guardVars
<1>10. QED
  BY <1>1, <1>2, <1>3, <1>4, <1>5, <1>6, <1>7, <1>8, <1>9 DEF GuardNext

(* Every variable keeps its type. *)
THEOREM GuardTypeCorrect == GuardSpec => []GuardTypeOK
BY GuardTypesInit, GuardTypesStep, PTL DEF GuardSpec

--------------------------------------------------------------------------------
(* The ledger: pending, issued, approved and resumed agree. *)

LEMMA LedgerStep ==
  GuardTypeOK /\ PendingIsUnanswered /\ AnswersWereAsked /\ AwaitingIsAnswerable
    /\ [GuardNext]_guardVars => PendingIsUnanswered' /\ AnswersWereAsked'
<1> SUFFICES ASSUME GuardTypeOK, PendingIsUnanswered, AnswersWereAsked,
                    AwaitingIsAnswerable, [GuardNext]_guardVars
             PROVE  PendingIsUnanswered' /\ AnswersWereAsked'
  OBVIOUS
<1> USE GuardAssumption DEF GuardTypeOK, PendingIsUnanswered, AnswersWereAsked,
        stateVars, historyVars, Confirms
<1>1. ASSUME UNCHANGED <<pending, historyVars>>
      PROVE PendingIsUnanswered' /\ AnswersWereAsked'
  BY <1>1
<1>2. ASSUME NEW r \in Runs, NEW id \in PermIds, CreatePending(r, id)
      PROVE PendingIsUnanswered' /\ AnswersWereAsked'
  BY <1>2 DEF CreatePending, Checks
<1>3. ASSUME NEW id \in PermIds, NEW scope \in {"once", "session"}, Approve(id, scope)
      PROVE PendingIsUnanswered' /\ AnswersWereAsked'
  BY <1>3 DEF Approve, Answered
<1>4. ASSUME NEW id \in PermIds, Reject(id)
      PROVE PendingIsUnanswered' /\ AnswersWereAsked'
  BY <1>4 DEF Reject, Answered
<1>5. ASSUME NEW s \in Sessions, TakeReadyResume(s)
      PROVE PendingIsUnanswered' /\ AnswersWereAsked'
  BY <1>5 DEF TakeReadyResume, Ready, AwaitingIsAnswerable, Resumes
<1>6. QED
  BY <1>1, <1>2, <1>3, <1>4, <1>5
  DEF GuardNext, guardVars, BeginCheck, DecideCheck, IncDeny, ReturnCheck

(* A session's slot names a confirmation of that session. *)
LEMMA AwaitingOwner ==
  ASSUME AwaitingIsAnswerable, NEW s \in Sessions, awaiting[s] # None
  PROVE  issued[awaiting[s].perm].session = s
<1>1. issued[awaiting[s].perm] = [session |-> s, call |-> awaiting[s].call]
  BY DEF AwaitingIsAnswerable
<1>2. [session |-> s, call |-> awaiting[s].call].session = s
  OBVIOUS
<1>3. QED
  BY <1>1, <1>2

LEMMA AwaitingStep ==
  GuardTypeOK /\ PendingIsUnanswered /\ AnswersWereAsked /\ AwaitingIsAnswerable
    /\ [GuardNext]_guardVars => AwaitingIsAnswerable'
<1> SUFFICES ASSUME GuardTypeOK, PendingIsUnanswered, AnswersWereAsked,
                    AwaitingIsAnswerable, [GuardNext]_guardVars,
                    NEW t \in Sessions, awaiting'[t] # None
             PROVE  LET a == awaiting'[t] IN
                      /\ issued'[a.perm] = [session |-> t, call |-> a.call]
                      /\ a.perm \notin resumed'
                      /\ IF a.ready THEN approved'[a.perm] # "none" /\ pending'[a.perm] = None
                         ELSE pending'[a.perm] # None
  BY DEF AwaitingIsAnswerable
<1> DEFINE Good == LET a == awaiting'[t] IN
                      /\ issued'[a.perm] = [session |-> t, call |-> a.call]
                      /\ a.perm \notin resumed'
                      /\ IF a.ready THEN approved'[a.perm] # "none" /\ pending'[a.perm] = None
                         ELSE pending'[a.perm] # None
<1> USE GuardAssumption DEF GuardTypeOK, stateVars, historyVars, Confirms, Resumes
<1>1. ASSUME UNCHANGED <<pending, awaiting, historyVars>> PROVE Good
  BY <1>1 DEF AwaitingIsAnswerable
<1>2. ASSUME NEW r \in Runs, NEW id \in PermIds, CreatePending(r, id) PROVE Good
  BY <1>2 DEF CreatePending, Checks, AwaitingIsAnswerable, AnswersWereAsked
<1>3. ASSUME NEW id \in PermIds, NEW scope \in {"once", "session"}, Approve(id, scope)
      PROVE Good
  <2>1. pending[id] \in Confirms /\ pending[id] = issued[id] /\ id \notin resumed
    BY <1>3 DEF Approve, PendingIsUnanswered
  <2>2. CASE t = pending[id].session
    BY <1>3, <2>1, <2>2 DEF Approve, Answered, AwaitingIsAnswerable
  <2>3. CASE t # pending[id].session
    BY <1>3, <2>1, <2>3 DEF Approve, Answered, AwaitingIsAnswerable
  <2>4. QED
    BY <2>2, <2>3
<1>4. ASSUME NEW id \in PermIds, Reject(id) PROVE Good
  <2>1. pending[id] \in Confirms /\ pending[id] = issued[id]
    BY <1>4 DEF Reject, PendingIsUnanswered
  <2>2. awaiting'[t] = awaiting[t] /\ awaiting[t].perm # id
    <3>1. CASE t = pending[id].session
      BY <1>4, <2>1, <3>1 DEF Reject, Withdrawn
    <3>2. CASE t # pending[id].session
      <4>1. awaiting'[t] = awaiting[t]
        BY <1>4, <2>1, <3>2 DEF Reject
      <4>2. issued[awaiting[t].perm].session = t
        BY <4>1, AwaitingOwner
      <4>3. QED
        BY <2>1, <3>2, <4>1, <4>2
    <3>3. QED
      BY <3>1, <3>2
  <2>3. QED
    BY <1>4, <2>2 DEF Reject, Answered, AwaitingIsAnswerable
<1>5. ASSUME NEW s \in Sessions, TakeReadyResume(s) PROVE Good
  <2>1. t # s /\ awaiting'[t] = awaiting[t]
    BY <1>5 DEF TakeReadyResume
  <2>2. issued[awaiting[t].perm].session = t /\ issued[awaiting[s].perm].session = s
    BY <1>5, <2>1, AwaitingOwner DEF TakeReadyResume, Ready
  <2>3. QED
    BY <1>5, <2>1, <2>2 DEF TakeReadyResume, AwaitingIsAnswerable
<1>6. QED
  BY <1>1, <1>2, <1>3, <1>4, <1>5
  DEF GuardNext, guardVars, BeginCheck, DecideCheck, IncDeny, ReturnCheck

(* A remembered signature keeps its approval as a witness. *)
LEMMA AllowedStep ==
  GuardTypeOK /\ PendingIsUnanswered /\ AnswersWereAsked /\ AllowedWasApproved
    /\ [GuardNext]_guardVars => AllowedWasApproved'
<1> SUFFICES ASSUME GuardTypeOK, PendingIsUnanswered, AnswersWereAsked,
                    AllowedWasApproved, [GuardNext]_guardVars
             PROVE  AllowedWasApproved'
  OBVIOUS
<1> DEFINE W(s, g, id) == /\ issued[id] # None /\ issued[id].session = s
                          /\ IF g = AutoAll THEN approved[id] = "session"
                             ELSE approved[id] = "once" /\ Sig[issued[id].call] = g
<1>1. ASSUME UNCHANGED <<sessionAllow, issued, approved>> PROVE AllowedWasApproved'
  BY <1>1 DEF AllowedWasApproved
<1>2. ASSUME NEW r \in Runs, NEW id \in PermIds, CreatePending(r, id)
      PROVE AllowedWasApproved'
  <2>1. \A i \in PermIds : issued[i] # None => issued'[i] = issued[i]
    BY <1>2 DEF CreatePending, GuardTypeOK
  <2>2. QED
    BY <1>2, <2>1 DEF CreatePending, AllowedWasApproved
<1>3. ASSUME NEW id \in PermIds, NEW scope \in {"once", "session"}, Approve(id, scope)
      PROVE AllowedWasApproved'
  <2>1. /\ pending[id] \in Confirms /\ pending[id] = issued[id]
        /\ approved[id] = "none" /\ issued' = issued
    BY <1>3 DEF Approve, PendingIsUnanswered, GuardTypeOK, GuardAssumption
  <2>2. approved'[id] = scope /\ \A i \in PermIds \ {id} : approved'[i] = approved[i]
    BY <1>3 DEF Approve, GuardTypeOK
  <2>3. SUFFICES ASSUME NEW s \in Sessions, NEW g \in sessionAllow'[s]
                 PROVE  \E i \in PermIds : W(s, g, i)'
    BY <2>1 DEF AllowedWasApproved
  <2>4. CASE g \in sessionAllow[s]
    <3>1. PICK i \in PermIds : W(s, g, i)
      BY <2>4 DEF AllowedWasApproved
    <3>2. i # id
      BY <3>1, <2>1
    <3>3. QED
      BY <3>1, <3>2, <2>1, <2>2
  <2>5. CASE g \notin sessionAllow[s]
    <3>1. s = pending[id].session /\ g = Granted(id, scope)
      BY <1>3, <2>1, <2>5 DEF Approve, GuardTypeOK
    <3>2. Sig[pending[id].call] # AutoAll
      BY <2>1, GuardAssumption DEF GuardAssumption, Confirms
    <3>3. W(s, g, id)'
      BY <2>1, <2>2, <3>1, <3>2, GuardAssumption
      DEF Granted, GuardAssumption
    <3>4. QED
      BY <3>3
  <2>6. QED
    BY <2>4, <2>5
<1>4. QED
  BY <1>1, <1>2, <1>3
  DEF GuardNext, guardVars, stateVars, historyVars, BeginCheck, DecideCheck, IncDeny,
      ReturnCheck, Reject, TakeReadyResume

LEMMA GuardInvInit == GuardInit => GuardInv
BY GuardTypesInit
DEF GuardInit, GuardInv, PendingIsUnanswered, AnswersWereAsked, AwaitingIsAnswerable,
    AllowedWasApproved

LEMMA GuardInvStep == GuardInv /\ [GuardNext]_guardVars => GuardInv'
BY GuardTypesStep, LedgerStep, AwaitingStep, AllowedStep DEF GuardInv

(* The guard's maps stay consistent: the ledger of confirmations, the slot *)
(* of each session and the remembered signatures.                          *)
THEOREM GuardInvariant == GuardSpec => []GuardInv
BY GuardInvInit, GuardInvStep, PTL DEF GuardSpec

(* A session never waits on a confirmation nobody can answer and never     *)
(* resumes a call that was not approved for it.                            *)
THEOREM SlotIsAnswerable == GuardSpec => []AwaitingIsAnswerable
<1>1. GuardInv => AwaitingIsAnswerable
  BY DEF GuardInv
<1>2. QED
  BY <1>1, GuardInvariant, PTL

(* A session skips the question only for what was approved in it. *)
THEOREM RememberedWasApproved == GuardSpec => []AllowedWasApproved
<1>1. GuardInv => AllowedWasApproved
  BY DEF GuardInv
<1>2. QED
  BY <1>1, GuardInvariant, PTL

--------------------------------------------------------------------------------
(* The guard implements the life of a confirmation. *)

LEMMA LifecycleInitially == GuardInit => Lifecycle!LifecycleInit
BY DEF GuardInit, Lifecycle!LifecycleInit, FateOf, OwnerOf

(* What a step leaves alone keeps every fate and owner. *)
LEMMA FateUnchanged ==
  UNCHANGED <<pending, awaiting, historyVars>> => UNCHANGED Lifecycle!lifecycleVars
BY DEF historyVars, Lifecycle!lifecycleVars, FateOf, OwnerOf, Ready

LEMMA IssueIsLifecycle ==
  ASSUME GuardInv, NEW r \in Runs, NEW id \in PermIds, CreatePending(r, id)
  PROVE  \E s \in Sessions : Lifecycle!LifeIssue(s, id)
<1> DEFINE s == check[r].session
<1> USE GuardAssumption DEF GuardInv, GuardTypeOK
<1>1. check[r] \in Checks /\ s \in Sessions
  BY DEF CreatePending, Checks
<1>2. FateOf(id) = "fresh"
  BY DEF CreatePending, FateOf
<1>3. issued'[id] # None /\ issued'[id].session = s /\ pending'[id] # None
  <2>1. [session |-> s, call |-> check[r].call] \in Confirms
    BY <1>1 DEF Checks, Confirms
  <2>2. QED
    BY <2>1 DEF CreatePending, GuardAssumption
<1>4. \A i \in PermIds \ {id} : issued'[i] = issued[i] /\ pending'[i] = pending[i]
  BY DEF CreatePending
<1>5. awaiting'[s] # None /\ ~awaiting'[s].ready
  <2>1. [call |-> check[r].call, perm |-> id, ready |-> FALSE] \in Resumes
    BY <1>1 DEF Checks, Resumes
  <2>2. QED
    BY <1>1, <2>1 DEF CreatePending, GuardAssumption
<1>6. \A t \in Sessions \ {s} : awaiting'[t] = awaiting[t]
  BY DEF CreatePending
<1>7. \A i \in PermIds : OwnerOf(i)' = IF i = id THEN s ELSE OwnerOf(i)
  BY <1>3, <1>4 DEF OwnerOf
<1>8. ASSUME NEW i \in PermIds
      PROVE FateOf(i)' = IF i = id THEN "pending" ELSE Lifecycle!Superseded(s, i)
  <2>1. CASE i = id
    BY <1>3, <2>1 DEF FateOf
  <2>2. CASE i # id /\ issued[i] = None
    BY <1>4, <2>2 DEF FateOf, Lifecycle!Superseded
  <2>3. CASE i # id /\ issued[i] # None
    <3>1. issued[i].session \in Sessions
      BY <2>3 DEF Confirms
    <3>2. approved' = approved /\ resumed' = resumed
      BY DEF CreatePending
    <3>3. OwnerOf(i) = issued[i].session
      BY <2>3 DEF OwnerOf
    <3>4. CASE issued[i].session = s
      BY <1>4, <1>5, <2>3, <3>2, <3>3, <3>4 DEF FateOf, Ready, Lifecycle!Superseded
    <3>5. CASE issued[i].session # s
      BY <1>4, <1>6, <2>3, <3>1, <3>2, <3>3, <3>5 DEF FateOf, Ready, Lifecycle!Superseded
    <3>6. QED
      BY <3>4, <3>5
  <2>4. QED
    BY <2>1, <2>2, <2>3
<1>9. Lifecycle!LifeIssue(s, id)
  BY <1>2, <1>7, <1>8, ZenonT(40) DEF Lifecycle!LifeIssue
<1>10. QED
  BY <1>1, <1>9

LEMMA ApproveIsLifecycle ==
  ASSUME GuardInv, NEW id \in PermIds, NEW scope \in {"once", "session"}, Approve(id, scope)
  PROVE  Lifecycle!LifeApprove(id)
<1> DEFINE s == pending[id].session
<1> USE GuardAssumption DEF GuardInv, GuardTypeOK
<1>1. /\ pending[id] \in Confirms /\ pending[id] # None /\ pending[id] = issued[id]
      /\ id \notin resumed /\ issued[id] # None /\ s \in Sessions
  BY DEF Approve, PendingIsUnanswered, Confirms
<1>2. FateOf(id) = "pending" /\ OwnerOf(id) = s
  BY <1>1 DEF FateOf, OwnerOf
<1>3. /\ issued' = issued /\ resumed' = resumed /\ pending'[id] = None
      /\ approved'[id] # "none"
      /\ \A i \in PermIds \ {id} : pending'[i] = pending[i] /\ approved'[i] = approved[i]
      /\ \A t \in Sessions \ {s} : awaiting'[t] = awaiting[t]
  BY <1>1 DEF Approve, Answered
<1>4. awaiting'[s] # None /\ awaiting'[s].ready /\ awaiting'[s].perm = id
  <2>1. CASE awaiting[s] # None /\ awaiting[s].perm = id
    <3>1. awaiting[s] \in Resumes
      BY <1>1, <2>1
    <3>2. \A a \in Resumes :
            /\ [a EXCEPT !.ready = TRUE] \in Resumes
            /\ [a EXCEPT !.ready = TRUE].ready /\ [a EXCEPT !.ready = TRUE].perm = a.perm
      BY DEF Resumes
    <3>3. awaiting'[s] = [awaiting[s] EXCEPT !.ready = TRUE]
      BY <1>1, <2>1 DEF Approve
    <3>4. QED
      BY <2>1, <3>1, <3>2, <3>3 DEF GuardAssumption
  <2>2. CASE ~(awaiting[s] # None /\ awaiting[s].perm = id)
    <3>1. awaiting'[s] = [call |-> pending[id].call, perm |-> id, ready |-> TRUE]
      BY <1>1, <2>2 DEF Approve
    <3>2. awaiting'[s] \in Resumes
      BY <1>1, <3>1 DEF Confirms, Resumes
    <3>3. awaiting'[s] # None
      BY <3>2 DEF GuardAssumption
    <3>4. awaiting'[s].ready /\ awaiting'[s].perm = id
      <4> DEFINE a == [call |-> pending[id].call, perm |-> id, ready |-> TRUE]
      <4>1. a.ready /\ a.perm = id
        OBVIOUS
      <4>2. awaiting'[s] = a
        BY <3>1
      <4> HIDE DEF a
      <4>3. QED
        BY <4>1, <4>2
    <3>5. QED
      BY <3>3, <3>4
  <2>3. QED
    BY <2>1, <2>2
<1>5. ASSUME NEW i \in PermIds
      PROVE FateOf(i)' = IF i = id THEN "approved" ELSE Lifecycle!Superseded(OwnerOf(id), i)
  <2>1. CASE i = id
    BY <1>1, <1>3, <1>4, <2>1 DEF FateOf, Ready
  <2>2. CASE i # id /\ issued[i] = None
    BY <1>3, <2>2 DEF FateOf, Lifecycle!Superseded
  <2>3. CASE i # id /\ issued[i] # None
    <3>1. issued[i].session \in Sessions /\ OwnerOf(i) = issued[i].session
      BY <2>3 DEF Confirms, OwnerOf
    <3>2. CASE issued[i].session = s
      BY <1>2, <1>3, <1>4, <2>3, <3>1, <3>2 DEF FateOf, Ready, Lifecycle!Superseded
    <3>3. CASE issued[i].session # s
      BY <1>2, <1>3, <2>3, <3>1, <3>3 DEF FateOf, Ready, Lifecycle!Superseded
    <3>4. QED
      BY <3>2, <3>3
  <2>4. QED
    BY <2>1, <2>2, <2>3
<1>6. \A i \in PermIds : OwnerOf(i)' = OwnerOf(i)
  BY <1>3 DEF OwnerOf
<1>7. QED
  BY <1>2, <1>5, <1>6 DEF Lifecycle!LifeApprove

LEMMA RejectIsLifecycle ==
  ASSUME GuardInv, NEW id \in PermIds, Reject(id)
  PROVE  Lifecycle!LifeReject(id)
<1> DEFINE s == pending[id].session
<1> USE GuardAssumption DEF GuardInv, GuardTypeOK
<1>1. /\ pending[id] \in Confirms /\ pending[id] # None /\ pending[id] = issued[id]
      /\ id \notin resumed /\ approved[id] = "none" /\ s \in Sessions
  BY DEF Reject, PendingIsUnanswered, Confirms
<1>2. FateOf(id) = "pending"
  BY <1>1 DEF FateOf
<1>3. /\ issued' = issued /\ resumed' = resumed /\ approved' = approved
      /\ pending'[id] = None /\ \A i \in PermIds \ {id} : pending'[i] = pending[i]
      /\ \A t \in Sessions \ {s} : awaiting'[t] = awaiting[t]
      /\ awaiting'[s] = Withdrawn(s, id)
  BY <1>1 DEF Reject, Answered, historyVars
<1>4. ASSUME NEW i \in PermIds
      PROVE FateOf(i)' = IF i = id THEN "rejected" ELSE FateOf(i)
  <2>1. CASE i = id
    BY <1>1, <1>3, <2>1 DEF FateOf
  <2>2. CASE i # id /\ issued[i] = None
    BY <1>3, <2>2 DEF FateOf
  <2>3. CASE i # id /\ issued[i] # None
    <3>1. issued[i].session \in Sessions
      BY <2>3 DEF Confirms
    <3>2. CASE issued[i].session = s
      BY <1>3, <2>3, <3>2 DEF FateOf, Ready, Withdrawn
    <3>3. CASE issued[i].session # s
      BY <1>3, <2>3, <3>1, <3>3 DEF FateOf, Ready
    <3>4. QED
      BY <3>2, <3>3
  <2>4. QED
    BY <2>1, <2>2, <2>3
<1>5. \A i \in PermIds : OwnerOf(i)' = OwnerOf(i)
  BY <1>3 DEF OwnerOf
<1>6. QED
  BY <1>2, <1>4, <1>5 DEF Lifecycle!LifeReject

LEMMA ResumeIsLifecycle ==
  ASSUME GuardInv, NEW s \in Sessions, TakeReadyResume(s)
  PROVE  \E id \in PermIds : Lifecycle!LifeResume(id)
<1> DEFINE id == awaiting[s].perm
<1> USE GuardAssumption DEF GuardInv, GuardTypeOK
<1>1. id \in PermIds /\ awaiting[s] # None /\ awaiting[s].ready
  BY DEF TakeReadyResume, Ready, Resumes
<1>2. issued[id].session = s
  BY <1>1, AwaitingOwner
<1>3. issued[id] # None /\ pending[id] = None /\ approved[id] # "none" /\ id \notin resumed
  BY <1>1 DEF AwaitingIsAnswerable, AnswersWereAsked
<1>4. FateOf(id) = "approved"
  BY <1>1, <1>2, <1>3 DEF FateOf, Ready
<1>5. /\ issued' = issued /\ pending' = pending /\ approved' = approved
      /\ resumed' = resumed \cup {id} /\ awaiting'[s] = None
      /\ \A t \in Sessions \ {s} : awaiting'[t] = awaiting[t]
  BY DEF TakeReadyResume
<1>6. ASSUME NEW i \in PermIds
      PROVE FateOf(i)' = IF i = id THEN "resumed" ELSE FateOf(i)
  <2>1. CASE i = id
    BY <1>3, <1>5, <2>1 DEF FateOf
  <2>2. CASE i # id /\ issued[i] = None
    BY <1>5, <2>2 DEF FateOf
  <2>3. CASE i # id /\ issued[i] # None
    <3>1. issued[i].session \in Sessions
      BY <2>3 DEF Confirms
    <3>2. CASE issued[i].session = s
      BY <1>1, <1>5, <2>3, <3>2 DEF FateOf, Ready
    <3>3. CASE issued[i].session # s
      BY <1>5, <2>3, <3>1, <3>3 DEF FateOf, Ready
    <3>4. QED
      BY <3>2, <3>3
  <2>4. QED
    BY <2>1, <2>2, <2>3
<1>7. \A i \in PermIds : OwnerOf(i)' = OwnerOf(i)
  BY <1>5 DEF OwnerOf
<1>8. Lifecycle!LifeResume(id)
  BY <1>1, <1>4, <1>6, <1>7 DEF Lifecycle!LifeResume
<1>9. QED
  BY <1>1, <1>8

LEMMA LifecycleStep ==
  GuardInv /\ [GuardNext]_guardVars => [Lifecycle!LifecycleNext]_(Lifecycle!lifecycleVars)
<1> SUFFICES ASSUME GuardInv, [GuardNext]_guardVars
             PROVE  Lifecycle!LifecycleNext \/ UNCHANGED Lifecycle!lifecycleVars
  OBVIOUS
<1>1. ASSUME NEW r \in Runs, NEW id \in PermIds, CreatePending(r, id)
      PROVE Lifecycle!LifecycleNext
  BY <1>1, IssueIsLifecycle DEF Lifecycle!LifecycleNext
<1>2. ASSUME NEW id \in PermIds, NEW scope \in {"once", "session"}, Approve(id, scope)
      PROVE Lifecycle!LifecycleNext
  BY <1>2, ApproveIsLifecycle DEF Lifecycle!LifecycleNext
<1>3. ASSUME NEW id \in PermIds, Reject(id) PROVE Lifecycle!LifecycleNext
  BY <1>3, RejectIsLifecycle DEF Lifecycle!LifecycleNext
<1>4. ASSUME NEW s \in Sessions, TakeReadyResume(s) PROVE Lifecycle!LifecycleNext
  BY <1>4, ResumeIsLifecycle DEF Lifecycle!LifecycleNext
<1>5. ASSUME UNCHANGED <<pending, awaiting, historyVars>>
      PROVE UNCHANGED Lifecycle!lifecycleVars
  BY <1>5, FateUnchanged
<1>6. QED
  BY <1>1, <1>2, <1>3, <1>4, <1>5
  DEF GuardNext, guardVars, stateVars, BeginCheck, DecideCheck, IncDeny, ReturnCheck

(* Every confirmation lives the life PermissionLifecycle describes.        *)
THEOREM GuardImplementsLifecycle == GuardSpec => ImplementsLifecycle
<1>1. GuardInv /\ [GuardNext]_guardVars
        => [Lifecycle!LifecycleNext]_(Lifecycle!lifecycleVars)
  BY LifecycleStep
<1>2. QED
  BY <1>1, LifecycleInitially, GuardInvariant, PTL
  DEF GuardSpec, ImplementsLifecycle, Lifecycle!LifecycleSpec

--------------------------------------------------------------------------------
(* The circuit breaker's counter passes its limit by a bounded amount,     *)
(* however many goroutines race between reading and incrementing it.       *)

LEMMA FiniteParts ==
  /\ \A s \in Sessions : IsFiniteSet(InFlight(s)) /\ Cardinality(InFlight(s)) <= Cardinality(Runs)
  /\ IsFiniteSet(Rejected)
  /\ \A s \in Sessions : Cardinality(InFlight(s)) \in Nat
  /\ Cardinality(Runs) \in Nat /\ Cardinality(Rejected) \in Nat
<1>1. Rejected \subseteq PermIds /\ \A s \in Sessions : InFlight(s) \subseteq Runs
  BY DEF Rejected, InFlight
<1>2. QED
  BY <1>1, FiniteAssumption, FS_Subset, FS_CardinalityType

LEMMA OvershootInit == GuardInit => OvershootInv
<1> SUFFICES ASSUME GuardInit, NEW s \in Sessions
             PROVE denyStreak[s] + Cardinality(InFlight(s))
                     < CircuitLimit + Cardinality(Runs) + Cardinality(Rejected)
  BY DEF OvershootInv
<1>1. denyStreak[s] = 0
  BY DEF GuardInit
<1>2. QED
  BY <1>1, FiniteParts, GuardAssumption DEF GuardAssumption

(* A step that starts no check, adds no denial and forgets no rejection    *)
(* keeps the bound.                                                        *)
LEMMA OvershootMonotone ==
  ASSUME GuardTypeOK, GuardTypeOK', OvershootInv, NEW s \in Sessions,
         denyStreak'[s] <= denyStreak[s], InFlight(s)' \subseteq InFlight(s),
         Rejected' = Rejected
  PROVE  denyStreak'[s] + Cardinality(InFlight(s)')
           < CircuitLimit + Cardinality(Runs) + Cardinality(Rejected')
<1>1. Cardinality(InFlight(s)') <= Cardinality(InFlight(s))
  BY FiniteParts, FS_Subset
<1>2. IsFiniteSet(InFlight(s)') /\ Cardinality(InFlight(s)') \in Nat
  BY FiniteParts, FS_Subset, FS_CardinalityType
<1>3. denyStreak[s] \in Nat /\ denyStreak'[s] \in Nat
  BY DEF GuardTypeOK
<1>4. denyStreak[s] + Cardinality(InFlight(s))
        < CircuitLimit + Cardinality(Runs) + Cardinality(Rejected)
  BY DEF OvershootInv
<1>5. QED
  BY <1>1, <1>2, <1>3, <1>4, FiniteParts, GuardAssumption DEF GuardAssumption

LEMMA OvershootStep == GuardInv /\ OvershootInv /\ [GuardNext]_guardVars => OvershootInv'
<1> DEFINE Bound(s) == denyStreak[s] + Cardinality(InFlight(s))
                         < CircuitLimit + Cardinality(Runs) + Cardinality(Rejected)
<1> SUFFICES ASSUME GuardInv, OvershootInv, [GuardNext]_guardVars, NEW t \in Sessions
             PROVE  Bound(t)'
  BY DEF OvershootInv
<1>0. GuardTypeOK /\ GuardTypeOK'
  BY GuardTypesStep DEF GuardInv
<1>a. /\ Cardinality(InFlight(t)') \in Nat /\ Cardinality(InFlight(t)') <= Cardinality(Runs)
      /\ Cardinality(Rejected') \in Nat
  <2>1. Rejected' \subseteq PermIds /\ InFlight(t)' \subseteq Runs
    BY DEF Rejected, InFlight
  <2>2. QED
    BY <2>1, FiniteAssumption, FS_Subset, FS_CardinalityType
<1> USE GuardAssumption
<1>1. ASSUME NEW r \in Runs, NEW s \in Sessions, NEW c \in Calls, BeginCheck(r, s, c)
      PROVE Bound(t)'
  <2>1. Rejected' = Rejected /\ denyStreak' = denyStreak
    BY <1>1 DEF BeginCheck, Rejected, stateVars, historyVars
  <2>2. CASE t = s /\ ~BreakerOpen(s)
    <3>1. denyStreak'[t] < CircuitLimit /\ denyStreak'[t] \in Nat
      BY <1>0, <2>1, <2>2 DEF BreakerOpen, GuardTypeOK, GuardAssumption
    <3>2. QED
      BY <1>a, <2>1, <3>1, FiniteParts DEF GuardAssumption
  <2>3. CASE ~(t = s /\ ~BreakerOpen(s))
    <3>1. InFlight(t)' \subseteq InFlight(t)
      BY <1>0, <1>1, <2>3 DEF BeginCheck, InFlight, GuardTypeOK
    <3>2. QED
      BY <1>0, <2>1, <3>1, OvershootMonotone DEF GuardTypeOK
  <2>4. QED
    BY <2>2, <2>3
<1>2. ASSUME NEW r \in Runs, DecideCheck(r) \/ ReturnCheck(r)
      PROVE Bound(t)'
  <2>1. Rejected' = Rejected /\ denyStreak' = denyStreak
    BY <1>2 DEF DecideCheck, ReturnCheck, Rejected, stateVars, historyVars
  <2>2. \A q \in Runs : check'[q] # None => check[q] # None /\ check'[q].session = check[q].session
    BY <1>0, <1>2 DEF DecideCheck, ReturnCheck, GuardTypeOK, Checks
  <2>3. \A q \in Runs : check'[q] # None /\ check'[q] # check[q] => check[q].at = "streakRead"
    BY <1>0, <1>2 DEF DecideCheck, ReturnCheck, GuardTypeOK
  <2>4. InFlight(t)' \subseteq InFlight(t)
    BY <2>2, <2>3 DEF InFlight
  <2>5. QED
    BY <1>0, <2>1, <2>4, OvershootMonotone DEF GuardTypeOK
<1>3. ASSUME NEW r \in Runs, IncDeny(r) PROVE Bound(t)'
  <2>1. Rejected' = Rejected
    BY <1>3 DEF IncDeny, Rejected, historyVars
  <2>2. check[r] \in Checks /\ check[r].session \in Sessions
    BY <1>0, <1>3 DEF IncDeny, GuardTypeOK, Checks
  <2>3. check'[r].at = "deny" /\ \A q \in Runs \ {r} : check'[q] = check[q]
    BY <1>0, <1>3, <2>2 DEF IncDeny, GuardTypeOK, Checks
  <2>4. CASE t = check[r].session
    <3>1. r \in InFlight(t)
      BY <1>3, <2>4 DEF IncDeny, InFlight
    <3>2. InFlight(t)' = InFlight(t) \ {r}
      BY <2>3 DEF InFlight
    <3>3. Cardinality(InFlight(t)') = Cardinality(InFlight(t)) - 1
      <4>1. IsFiniteSet(InFlight(t))
        BY FiniteParts
      <4>2. Cardinality(InFlight(t) \ {r}) = Cardinality(InFlight(t)) - 1
        BY <3>1, <4>1, FS_RemoveElement
      <4>3. QED
        BY <3>2, <4>2
    <3>4. denyStreak'[t] = denyStreak[t] + 1 /\ denyStreak[t] \in Nat
      BY <1>0, <1>3, <2>2, <2>4 DEF IncDeny, GuardTypeOK
    <3>5. Bound(t)
      BY DEF OvershootInv
    <3>6. QED
      BY <2>1, <3>3, <3>4, <3>5, FiniteParts DEF GuardAssumption
  <2>5. CASE t # check[r].session
    <3>1. denyStreak'[t] = denyStreak[t] /\ denyStreak[t] \in Nat
      BY <1>0, <1>3, <2>2, <2>5 DEF IncDeny, GuardTypeOK
    <3>2. InFlight(t)' \subseteq InFlight(t)
      BY <2>3 DEF InFlight
    <3>3. QED
      BY <1>0, <2>1, <3>1, <3>2, OvershootMonotone
  <2>6. QED
    BY <2>4, <2>5
<1>4. ASSUME NEW r \in Runs, NEW id \in PermIds, CreatePending(r, id) PROVE Bound(t)'
  <2>1. check[r] \in Checks
    BY <1>0, <1>4 DEF CreatePending, GuardTypeOK
  <2>2. pending'[id] # None
    <3>1. [session |-> check[r].session, call |-> check[r].call] \in Confirms
      BY <2>1 DEF Checks, Confirms
    <3>2. QED
      BY <1>0, <1>4, <3>1 DEF CreatePending, GuardTypeOK, GuardAssumption
  <2>3. Rejected' = Rejected /\ denyStreak' = denyStreak
    BY <1>0, <1>4, <2>2 DEF CreatePending, Rejected, GuardTypeOK
  <2>4. InFlight(t)' \subseteq InFlight(t)
    BY <1>0, <1>4 DEF CreatePending, InFlight, GuardTypeOK
  <2>5. QED
    BY <1>0, <2>3, <2>4, OvershootMonotone DEF GuardTypeOK
<1>5. ASSUME NEW id \in PermIds, NEW scope \in {"once", "session"}, Approve(id, scope)
      PROVE Bound(t)'
  <2>1. Rejected' = Rejected
    BY <1>0, <1>5 DEF Approve, Answered, Rejected, GuardTypeOK
  <2>2. denyStreak'[t] <= denyStreak[t]
    <3>1. denyStreak'[t] \in {0, denyStreak[t]} /\ denyStreak[t] \in Nat
      BY <1>0, <1>5 DEF Approve, GuardTypeOK
    <3>2. QED
      BY <3>1
  <2>3. InFlight(t)' = InFlight(t)
    BY <1>5 DEF Approve, InFlight
  <2>4. QED
    BY <1>0, <2>1, <2>2, <2>3, OvershootMonotone
<1>6. ASSUME NEW id \in PermIds, Reject(id) PROVE Bound(t)'
  <2>1. id \notin Rejected /\ Rejected' = Rejected \cup {id}
    BY <1>0, <1>6 DEF Reject, Answered, Rejected, historyVars, GuardTypeOK, GuardInv,
       PendingIsUnanswered
  <2>2. Cardinality(Rejected') = Cardinality(Rejected) + 1
    BY <2>1, FiniteParts, FS_AddElement
  <2>3. InFlight(t)' = InFlight(t)
    BY <1>6 DEF Reject, InFlight
  <2>4. denyStreak[t] \in Nat /\ denyStreak'[t] <= denyStreak[t] + 1 /\ denyStreak'[t] \in Nat
    BY <1>0, <1>6 DEF Reject, GuardTypeOK
  <2>5. Bound(t)
    BY DEF OvershootInv
  <2>6. QED
    BY <2>2, <2>3, <2>4, <2>5, FiniteParts DEF GuardAssumption
<1>7. ASSUME UNCHANGED <<denyStreak, check, pending, issued, approved>> PROVE Bound(t)'
  <2>1. InFlight(t)' = InFlight(t) /\ Rejected' = Rejected /\ denyStreak' = denyStreak
    BY <1>7 DEF InFlight, Rejected
  <2>2. QED
    BY <2>1 DEF OvershootInv
<1>8. QED
  BY <1>1, <1>2, <1>3, <1>4, <1>5, <1>6, <1>7
  DEF GuardNext, guardVars, stateVars, historyVars, TakeReadyResume

(* Races push the breaker's counter past its limit by less than the number *)
(* of goroutines, and rejections by one each.                              *)
THEOREM BreakerOvershoot == GuardSpec => []OvershootIsBounded
<1>1. GuardTypeOK /\ OvershootInv => OvershootIsBounded
  <2> SUFFICES ASSUME GuardTypeOK, OvershootInv, NEW s \in Sessions
               PROVE denyStreak[s] < CircuitLimit + Cardinality(Runs) + Cardinality(Rejected)
    BY DEF OvershootIsBounded
  <2>1. denyStreak[s] \in Nat
    BY DEF GuardTypeOK
  <2>2. denyStreak[s] + Cardinality(InFlight(s))
          < CircuitLimit + Cardinality(Runs) + Cardinality(Rejected)
    BY DEF OvershootInv
  <2>3. QED
    BY <2>1, <2>2, FiniteParts, GuardAssumption DEF GuardAssumption
<1>2. GuardInv => GuardTypeOK
  BY DEF GuardInv
<1>3. QED
  BY <1>1, <1>2, OvershootInit, OvershootStep, GuardInvariant, PTL DEF GuardSpec

--------------------------------------------------------------------------------
(* The agent engine *)

(* Each step of the engine is a step of the guard, or leaves it alone. *)
LEMMA EngineStepsGuard ==
  ASSUME GuardInv, RunTypes, CheckAgrees, RunsAreConsistent, [EngineNext]_engineVars
  PROVE  [GuardNext]_guardVars
<1> USE DEF GuardNext
<1>1. ASSUME NEW r \in Runs, NEW s \in Sessions, NEW q \in Requests, Start(r, s, q[1], q[2])
      PROVE [GuardNext]_guardVars
  BY <1>1 DEF Start
<1>2. ASSUME NEW r \in Runs, Resume(r) PROVE [GuardNext]_guardVars
  BY <1>2 DEF Resume, RunsAreConsistent, Consistent, At
<1>3. ASSUME NEW r \in Runs, ResumeExec(r) PROVE [GuardNext]_guardVars
  BY <1>3 DEF ResumeExec
<1>4. ASSUME NEW r \in Runs, Cancel(r) PROVE [GuardNext]_guardVars
  BY <1>4 DEF Cancel
<1>5. ASSUME NEW r \in Runs, RoundBegins(r) PROVE [GuardNext]_guardVars
  BY <1>5 DEF RoundBegins
<1>6. ASSUME NEW r \in Runs, LLMFails(r) PROVE [GuardNext]_guardVars
  BY <1>6 DEF LLMFails
<1>7. ASSUME NEW r \in Runs, LLMAnswers(r) PROVE [GuardNext]_guardVars
  BY <1>7 DEF LLMAnswers
<1>8. ASSUME NEW r \in Runs, NEW reply \in Replies, LLMCallsTools(r, reply)
      PROVE [GuardNext]_guardVars
  BY <1>8 DEF LLMCallsTools
<1>9. ASSUME NEW r \in Runs, NextCall(r) PROVE [GuardNext]_guardVars
  BY <1>9 DEF NextCall, RunsAreConsistent, Consistent, At, RoundIsOver, RunTypes, Runnings
<1>10. ASSUME NEW r \in Runs, Checking(r) PROVE [GuardNext]_guardVars
  BY <1>10 DEF Checking
<1>11. ASSUME NEW r \in Runs, Verdict(r) PROVE [GuardNext]_guardVars
  BY <1>11 DEF Verdict
<1>12. ASSUME NEW r \in Runs, NEW id \in PermIds, Confirm(r, id) PROVE [GuardNext]_guardVars
  BY <1>12 DEF Confirm
<1>13. ASSUME NEW r \in Runs, Exec(r) PROVE [GuardNext]_guardVars
  BY <1>13 DEF Exec
<1>14. ASSUME NEW r \in Runs, EndRound(r) PROVE [GuardNext]_guardVars
  BY <1>14 DEF EndRound
<1>15. ASSUME UserAnswers PROVE [GuardNext]_guardVars
  BY <1>15 DEF UserAnswers
<1>16. ASSUME UNCHANGED engineVars PROVE [GuardNext]_guardVars
  BY <1>16 DEF engineVars
<1>17. QED
  BY <1>1, <1>2, <1>3, <1>4, <1>5, <1>6, <1>7, <1>8, <1>9, <1>10, <1>11, <1>12, <1>13, <1>14,
     <1>15, <1>16
     DEF EngineNext, RunStep

--------------------------------------------------------------------------------
(* Types of a run's local state. *)

LEMMA LocalsNext ==
  ASSUME NEW v \in Runnings
  PROVE  /\ v.step + 1 \in Nat /\ v.total + 1 \in Nat /\ v.attempt + 1 \in Nat
         /\ v.sameSig + 1 \in Nat
         /\ v.calls # <<>> => Head(v.calls) \in Calls /\ Tail(v.calls) \in Seq(Calls)
<1>1. v.calls \in Seq(Calls) /\ {v.step, v.total, v.attempt, v.sameSig} \subseteq Nat
  BY DEF Runnings
<1>2. QED
  BY <1>1, HeadTailProperties

LEMMA LocalsBecome ==
  ASSUME RunTypes, NEW r \in Runs, NEW v \in Runnings, Becomes(r, v)
  PROVE  run' \in [Runs -> Runnings]
BY DEF RunTypes, Becomes

LEMMA KeptIsPrefix ==
  ASSUME NEW reply \in Replies
  PROVE  /\ reply \in Seq(Calls) \ {<<>>}
         /\ Kept(reply) \in Seq(Calls)
         /\ Len(Kept(reply)) <= MaxToolCallsPerRound
<1>1. reply \in Seq(Calls) \ {<<>>} /\ MaxToolCallsPerRound \in Nat \ {0}
  BY EngineAssumption
<1>2. CASE Len(reply) <= MaxToolCallsPerRound
  BY <1>1, <1>2 DEF Kept
<1>3. CASE ~(Len(reply) <= MaxToolCallsPerRound)
  <2>1. Len(reply) \in Nat
    BY <1>1, LenProperties
  <2>2. /\ SubSeq(reply, 1, MaxToolCallsPerRound) \in Seq(Calls)
        /\ Len(SubSeq(reply, 1, MaxToolCallsPerRound)) = MaxToolCallsPerRound
    BY <1>1, <1>3, <2>1, SubSeqProperties
  <2>3. QED
    BY <1>1, <1>3, <2>2 DEF Kept
<1>4. QED
  BY <1>2, <1>3

LEMMA ExecutesType ==
  ASSUME RunTypes, NEW r \in Runs, NEW c \in Calls, NEW via \in Vias,
         NEW perm \in PermIds \cup {None}, Execute(r, c, via, perm)
  PROVE  executed' \in [Runs -> Seq(Executions)]
<1>1. run[r] \in Runnings /\ executed[r] \in Seq(Executions)
  BY DEF RunTypes
<1>2. run[r].step \in Nat
  BY <1>1 DEF Runnings
<1> DEFINE e == [call |-> c, via |-> via, perm |-> perm, step |-> run[r].step]
<1>3. e \in Executions
  BY <1>2 DEF Executions
<1>4. Append(executed[r], e) \in Seq(Executions)
  BY <1>1, <1>3, AppendProperties
<1>5. executed' = [executed EXCEPT ![r] = Append(executed[r], e)]
  BY DEF Execute
<1>6. QED
  BY <1>4, <1>5 DEF RunTypes

LEMMA FinishType ==
  ASSUME RunTypes, NEW r \in Runs, NEW outcome \in Outcomes, Finish(r, outcome)
  PROVE  run' \in [Runs -> Runnings]
<1>1. run[r] \in Runnings
  BY DEF RunTypes
<1>2. [run[r] EXCEPT !.at = "done", !.outcome = outcome] \in Runnings
  BY <1>1 DEF Runnings, Labels
<1>3. QED
  BY <1>2, LocalsBecome DEF Finish

(* Each step of the engine writes values of their types. *)
LEMMA RunTypesStep ==
  ASSUME GuardTypeOK, RunTypes, CheckAgrees, RunsAreConsistent, [EngineNext]_engineVars
  PROVE  RunTypes'
<1> USE EngineAssumption DEF Labels
<1>1. ASSUME NEW r \in Runs, NEW s \in Sessions, NEW q \in Requests, Start(r, s, q[1], q[2])
      PROVE  RunTypes'
  <2>1. q[1] \in Kinds /\ q[2] \in BOOLEAN
    BY DEF Kinds
  <2>2. <<>> \in Seq(Calls)
    BY EmptySeq
  <2>3. Fresh(s, q[1], q[2]) \in Runnings
    BY <2>1, <2>2 DEF Fresh, Runnings, Vias
  <2>4. QED
    BY <1>1, <2>3, LocalsBecome DEF Start, RunTypes
<1>2. ASSUME NEW r \in Runs, Resume(r) PROVE RunTypes'
  <2> DEFINE s == run[r].session
  <2>1. run[r] \in Runnings
    BY DEF RunTypes
  <2>2. s \in Sessions
    BY <1>2 DEF Resume, RunsAreConsistent, Consistent, At
  <2>3. CASE Ready(s)
    <3>1. awaiting[s] \in Resumes
      BY <2>2, <2>3 DEF GuardTypeOK, Ready
    <3>2. awaiting[s].call \in Calls /\ awaiting[s].perm \in PermIds
      BY <3>1 DEF Resumes
    <3>3. <<awaiting[s].call>> \in Seq(Calls)
      BY <3>2
    <3>4. [run[r] EXCEPT !.at = "resumeExec", !.calls = <<awaiting[s].call>>,
                         !.perm = awaiting[s].perm] \in Runnings
      BY <2>1, <3>2, <3>3 DEF Runnings
    <3>5. QED
      BY <1>2, <2>3, <3>4, LocalsBecome DEF Resume, RunTypes
  <2>4. CASE ~Ready(s)
    <3>1. [run[r] EXCEPT !.at = "round"] \in Runnings
      BY <2>1 DEF Runnings
    <3>2. QED
      BY <1>2, <2>4, <3>1, LocalsBecome DEF Resume, RunTypes
  <2>5. QED
    BY <2>3, <2>4
<1>3. ASSUME NEW r \in Runs, ResumeExec(r) PROVE RunTypes'
  <2>1. run[r] \in Runnings /\ run[r].calls # <<>>
    BY <1>3 DEF RunTypes, ResumeExec, RunsAreConsistent, Consistent, At
  <2>2. run[r].total + 1 \in Nat /\ Head(run[r].calls) \in Calls
    BY <2>1, LocalsNext
  <2>3. run[r].perm \in PermIds \cup {None}
    BY <2>1 DEF Runnings
  <2>4. executed' \in [Runs -> Seq(Executions)]
    BY <1>3, <2>2, <2>3, ExecutesType DEF ResumeExec, Vias
  <2>5. <<>> \in Seq(Calls)
    BY EmptySeq
  <2>6. [run[r] EXCEPT !.at = "round", !.calls = <<>>, !.perm = None,
                       !.total = run[r].total + 1] \in Runnings
    BY <2>1, <2>2, <2>5 DEF Runnings
  <2>7. QED
    BY <1>3, <2>4, <2>6, LocalsBecome DEF ResumeExec, RunTypes
<1>4. ASSUME NEW r \in Runs, Cancel(r) PROVE RunTypes'
  BY <1>4, FinishType DEF Cancel, RunTypes, Outcomes
<1>5. ASSUME NEW r \in Runs, RoundBegins(r) PROVE RunTypes'
  <2>1. run[r] \in Runnings
    BY DEF RunTypes
  <2>2. run[r].step + 1 \in Nat
    BY <2>1, LocalsNext
  <2>3. [run[r] EXCEPT !.at = "llm", !.step = run[r].step + 1, !.attempt = 0] \in Runnings
    BY <2>1, <2>2 DEF Runnings
  <2>4. QED
    BY <1>5, <2>3, LocalsBecome DEF RoundBegins, RunTypes
<1>6. ASSUME NEW r \in Runs, LLMFails(r) PROVE RunTypes'
  <2>1. run[r] \in Runnings
    BY DEF RunTypes
  <2>2. run[r].attempt + 1 \in Nat
    BY <2>1, LocalsNext
  <2>3. [run[r] EXCEPT !.at = "llm", !.attempt = run[r].attempt + 1] \in Runnings
    BY <2>1, <2>2 DEF Runnings
  <2>4. QED
    BY <1>6, <2>3, LocalsBecome, FinishType DEF LLMFails, RunTypes, Outcomes
<1>7. ASSUME NEW r \in Runs, LLMAnswers(r) PROVE RunTypes'
  BY <1>7, FinishType DEF LLMAnswers, RunTypes, Outcomes
<1>8. ASSUME NEW r \in Runs, NEW reply \in Replies, LLMCallsTools(r, reply) PROVE RunTypes'
  <2> DEFINE n == RepeatCount(r, reply)
  <2>1. run[r] \in Runnings /\ replied[r] \in Seq(Replies)
    BY DEF RunTypes
  <2>2. n \in Nat
    BY <2>1, LocalsNext DEF RepeatCount
  <2> HIDE DEF n
  <2>3. reply \in Seq(Calls) /\ Kept(reply) \in Seq(Calls)
    BY KeptIsPrefix
  <2>4. [run[r] EXCEPT !.at = "call", !.calls = Kept(reply), !.sameSig = n,
                       !.lastSig = reply] \in Runnings
    BY <2>1, <2>2, <2>3 DEF Runnings
  <2>5. Append(replied[r], reply) \in Seq(Replies)
    BY <2>1, AppendProperties
  <2>6. CASE n >= DiminishingReturnsThreshold
    BY <1>8, <2>6, FinishType DEF LLMCallsTools, RunTypes, Outcomes, n
  <2>7. CASE ~(n >= DiminishingReturnsThreshold)
    BY <1>8, <2>4, <2>5, <2>7, LocalsBecome DEF LLMCallsTools, RunTypes, n
  <2>8. QED
    BY <2>6, <2>7
<1>9. ASSUME NEW r \in Runs, NextCall(r) PROVE RunTypes'
  <2>1. run[r] \in Runnings
    BY DEF RunTypes
  <2>2. run[r].total + 1 \in Nat
    BY <2>1, LocalsNext
  <2>3. [run[r] EXCEPT !.at = "exec", !.total = run[r].total + 1, !.via = "auto",
                       !.perm = None] \in Runnings
    BY <2>1, <2>2 DEF Runnings, Vias
  <2>4. [run[r] EXCEPT !.at = "check", !.total = run[r].total + 1] \in Runnings
    BY <2>1, <2>2 DEF Runnings
  <2>5. QED
    BY <1>9, <2>3, <2>4, LocalsBecome DEF NextCall, RunTypes
<1>10. ASSUME NEW r \in Runs, Checking(r) PROVE RunTypes'
  BY <1>10 DEF Checking, RunTypes
<1>11. ASSUME NEW r \in Runs, Verdict(r) PROVE RunTypes'
  <2>1. run[r] \in Runnings /\ run[r].calls # <<>>
    BY <1>11 DEF RunTypes, Verdict, RunsAreConsistent, Consistent, At
  <2>2. Tail(run[r].calls) \in Seq(Calls)
    BY <2>1, LocalsNext
  <2>3. [run[r] EXCEPT !.at = "call", !.calls = Tail(run[r].calls)] \in Runnings
    BY <2>1, <2>2 DEF Runnings
  <2>4. [run[r] EXCEPT !.at = "exec", !.via = "allowed", !.perm = None] \in Runnings
    BY <2>1 DEF Runnings, Vias
  <2>5. QED
    BY <1>11, <2>3, <2>4, LocalsBecome DEF Verdict, Denied, RunTypes
<1>12. ASSUME NEW r \in Runs, NEW id \in PermIds, Confirm(r, id) PROVE RunTypes'
  <2>1. run[r] \in Runnings
    BY DEF RunTypes
  <2>2. [run[r] EXCEPT !.at = "exec", !.via = "confirm", !.perm = id,
                       !.asked = TRUE] \in Runnings
    BY <2>1 DEF Runnings, Vias
  <2>3. QED
    BY <1>12, <2>2, LocalsBecome DEF Confirm, RunTypes
<1>13. ASSUME NEW r \in Runs, Exec(r) PROVE RunTypes'
  <2>1. run[r] \in Runnings /\ run[r].calls # <<>>
    BY <1>13 DEF RunTypes, Exec, RunsAreConsistent, Consistent, At
  <2>2. Head(run[r].calls) \in Calls /\ Tail(run[r].calls) \in Seq(Calls)
    BY <2>1, LocalsNext
  <2>3. run[r].perm \in PermIds \cup {None} /\ run[r].via \in Vias
    BY <2>1 DEF Runnings
  <2>4. executed' \in [Runs -> Seq(Executions)]
    BY <1>13, <2>2, <2>3, ExecutesType DEF Exec
  <2>5. [run[r] EXCEPT !.at = "call", !.calls = Tail(run[r].calls), !.perm = None]
          \in Runnings
    BY <2>1, <2>2 DEF Runnings
  <2>6. QED
    BY <1>13, <2>4, <2>5, LocalsBecome DEF Exec, RunTypes
<1>14. ASSUME NEW r \in Runs, EndRound(r) PROVE RunTypes'
  <2>1. run[r] \in Runnings /\ <<>> \in Seq(Calls)
    BY EmptySeq DEF RunTypes
  <2>2. [run[r] EXCEPT !.at = "round", !.calls = <<>>] \in Runnings
    BY <2>1 DEF Runnings
  <2>3. QED
    BY <1>14, <2>2, LocalsBecome, FinishType DEF EndRound, RunTypes, Outcomes
<1>15. ASSUME UserAnswers PROVE RunTypes'
  BY <1>15 DEF UserAnswers, RunTypes
<1>16. ASSUME UNCHANGED engineVars PROVE RunTypes'
  BY <1>16 DEF engineVars, RunTypes
<1>17. QED
  BY <1>1, <1>2, <1>3, <1>4, <1>5, <1>6, <1>7, <1>8, <1>9, <1>10, <1>11, <1>12, <1>13,
     <1>14, <1>15, <1>16 DEF EngineNext, RunStep

--------------------------------------------------------------------------------
(* What each step does to the local state of its run. *)

(* The other runs, and what they did, stay as they are. *)
OthersKeep(r) == \A q \in Runs : q # r => run'[q] = run[q]
HistoriesKeep(r) ==
  \A q \in Runs \ {r} : executed'[q] = executed[q] /\ replied'[q] = replied[q]

(* Parts of r itself that a step leaves alone. *)
SameRequest(r) ==
  /\ run'[r].session = run[r].session
  /\ run'[r].kind = run[r].kind
  /\ run'[r].auto = run[r].auto

SameCounters(r) == run'[r].total = run[r].total /\ run'[r].step = run[r].step

SameQuestion(r) == run'[r].asked = run[r].asked

LEMMA BecomesEffect ==
  ASSUME RunTypes, NEW r \in Runs, NEW v, Becomes(r, v)
  PROVE  run'[r] = v /\ OthersKeep(r)
BY DEF RunTypes, Becomes, OthersKeep

LEMMA FinishEffect ==
  ASSUME RunTypes, NEW r \in Runs, NEW outcome, Finish(r, outcome)
  PROVE  /\ run'[r].at = "done" /\ run'[r].outcome = outcome
         /\ SameRequest(r) /\ SameCounters(r) /\ SameQuestion(r) /\ OthersKeep(r)
<1>1. run[r] \in Runnings
  BY DEF RunTypes
<1>2. run'[r] = [run[r] EXCEPT !.at = "done", !.outcome = outcome] /\ OthersKeep(r)
  BY BecomesEffect DEF Finish
<1>3. QED
  BY <1>1, <1>2 DEF Runnings, SameRequest, SameCounters, SameQuestion

LEMMA StartEffect ==
  ASSUME RunTypes, NEW r \in Runs, NEW s, NEW kind, NEW auto, Start(r, s, kind, auto)
  PROVE  /\ run'[r].at \in {"resume", "round"}
         /\ run'[r].session = s /\ run'[r].total = 0 /\ run'[r].step = 0
         /\ run'[r].kind = kind /\ run'[r].asked = FALSE /\ OthersKeep(r)
BY BecomesEffect DEF Start, Fresh

LEMMA ResumeEffect ==
  ASSUME RunTypes, NEW r \in Runs, Resume(r)
  PROVE  /\ \/ run'[r].at = "resumeExec" /\ run'[r].calls # <<>>
            \/ run'[r].at = "round"
         /\ SameRequest(r) /\ SameCounters(r) /\ SameQuestion(r) /\ OthersKeep(r)
<1>1. run[r] \in Runnings
  BY DEF RunTypes
<1> DEFINE s == run[r].session
<1>2. CASE Ready(s)
  <2>1. /\ run'[r] = [run[r] EXCEPT !.at = "resumeExec", !.calls = <<awaiting[s].call>>,
                                    !.perm = awaiting[s].perm]
        /\ OthersKeep(r)
    BY <1>2, BecomesEffect DEF Resume
  <2>2. <<awaiting[s].call>> # <<>>
    OBVIOUS
  <2>3. QED
    BY <1>1, <2>1, <2>2 DEF Runnings, SameRequest, SameCounters, SameQuestion
<1>3. CASE ~Ready(s)
  <2>1. run'[r] = [run[r] EXCEPT !.at = "round"] /\ OthersKeep(r)
    BY <1>3, BecomesEffect DEF Resume
  <2>2. QED
    BY <1>1, <2>1 DEF Runnings, SameRequest, SameCounters, SameQuestion
<1>4. QED
  BY <1>2, <1>3

LEMMA ResumeExecEffect ==
  ASSUME RunTypes, NEW r \in Runs, ResumeExec(r)
  PROVE  /\ run'[r].at = "round" /\ run'[r].total = run[r].total + 1
         /\ run'[r].step = run[r].step
         /\ SameRequest(r) /\ SameQuestion(r) /\ OthersKeep(r)
<1>1. run[r] \in Runnings
  BY DEF RunTypes
<1>2. /\ run'[r] = [run[r] EXCEPT !.at = "round", !.calls = <<>>, !.perm = None,
                                  !.total = run[r].total + 1]
      /\ OthersKeep(r)
  BY BecomesEffect DEF ResumeExec
<1>3. QED
  BY <1>1, <1>2 DEF Runnings, SameRequest, SameQuestion

LEMMA RoundBeginsEffect ==
  ASSUME RunTypes, NEW r \in Runs, RoundBegins(r)
  PROVE  /\ run'[r].at = "llm" /\ run'[r].total = run[r].total
         /\ run'[r].step = run[r].step + 1
         /\ SameRequest(r) /\ SameQuestion(r) /\ OthersKeep(r)
<1>1. run[r] \in Runnings
  BY DEF RunTypes
<1>2. /\ run'[r] = [run[r] EXCEPT !.at = "llm", !.step = run[r].step + 1, !.attempt = 0]
      /\ OthersKeep(r)
  BY BecomesEffect DEF RoundBegins
<1>3. QED
  BY <1>1, <1>2 DEF Runnings, SameRequest, SameQuestion

LEMMA LLMFailsEffect ==
  ASSUME RunTypes, NEW r \in Runs, LLMFails(r)
  PROVE  /\ run'[r].at \in {"llm", "done"}
         /\ SameRequest(r) /\ SameCounters(r) /\ SameQuestion(r) /\ OthersKeep(r)
<1>1. run[r] \in Runnings
  BY DEF RunTypes
<1>2. CASE run[r].attempt < MaxAiRetries
  <2>1. /\ run'[r] = [run[r] EXCEPT !.at = "llm", !.attempt = run[r].attempt + 1]
        /\ OthersKeep(r)
    BY <1>2, BecomesEffect DEF LLMFails
  <2>2. QED
    BY <1>1, <2>1 DEF Runnings, SameRequest, SameCounters, SameQuestion
<1>3. CASE ~(run[r].attempt < MaxAiRetries)
  BY <1>3, FinishEffect DEF LLMFails
<1>4. QED
  BY <1>2, <1>3

LEMMA LLMCallsToolsEffect ==
  ASSUME RunTypes, NEW r \in Runs, NEW reply \in Replies, LLMCallsTools(r, reply)
  PROVE  /\ \/ run'[r].at = "done" /\ UNCHANGED replied
            \/ run'[r].at = "call" /\ run'[r].calls = Kept(reply)
                 /\ replied' = [replied EXCEPT ![r] = Append(@, reply)]
         /\ SameRequest(r) /\ SameCounters(r) /\ SameQuestion(r) /\ OthersKeep(r)
<1> DEFINE n == RepeatCount(r, reply)
<1>1. run[r] \in Runnings
  BY DEF RunTypes
<1>2. CASE n >= DiminishingReturnsThreshold
  <2>1. Finish(r, "loop") /\ UNCHANGED replied
    BY <1>2 DEF LLMCallsTools
  <2>2. QED
    BY <2>1, FinishEffect
<1>3. CASE ~(n >= DiminishingReturnsThreshold)
  <2>1. /\ run'[r] = [run[r] EXCEPT !.at = "call", !.calls = Kept(reply),
                                    !.sameSig = n, !.lastSig = reply]
        /\ replied' = [replied EXCEPT ![r] = Append(@, reply)] /\ OthersKeep(r)
    BY <1>3, BecomesEffect DEF LLMCallsTools
  <2> HIDE DEF n
  <2>2. QED
    BY <1>1, <2>1 DEF Runnings, SameRequest, SameCounters, SameQuestion
<1>4. QED
  BY <1>2, <1>3

LEMMA NextCallEffect ==
  ASSUME RunTypes, NEW r \in Runs, NextCall(r)
  PROVE  /\ IF run[r].auto THEN run'[r].at = "exec" /\ run'[r].via = "auto"
            ELSE run'[r].at = "check"
         /\ run'[r].total = run[r].total + 1 /\ run'[r].step = run[r].step
         /\ run'[r].calls = run[r].calls
         /\ SameRequest(r) /\ SameQuestion(r) /\ OthersKeep(r)
<1>1. run[r] \in Runnings
  BY DEF RunTypes
<1>2. CASE run[r].auto
  <2>1. /\ run'[r] = [run[r] EXCEPT !.at = "exec", !.total = run[r].total + 1,
                                    !.via = "auto", !.perm = None]
        /\ OthersKeep(r)
    BY <1>2, BecomesEffect DEF NextCall
  <2>2. /\ run'[r].at = "exec" /\ run'[r].via = "auto"
        /\ run'[r].total = run[r].total + 1 /\ run'[r].step = run[r].step
        /\ run'[r].calls = run[r].calls
    BY <1>1, <2>1 DEF Runnings
  <2>3. SameRequest(r) /\ SameQuestion(r)
    BY <1>1, <2>1, Zenon DEF Runnings, SameRequest, SameQuestion
  <2>4. QED
    BY <1>2, <2>1, <2>2, <2>3
<1>3. CASE ~run[r].auto
  <2>1. /\ run'[r] = [run[r] EXCEPT !.at = "check", !.total = run[r].total + 1]
        /\ OthersKeep(r)
    BY <1>3, BecomesEffect DEF NextCall
  <2>2. QED
    BY <1>1, <1>3, <2>1 DEF Runnings, SameRequest, SameQuestion
<1>4. QED
  BY <1>2, <1>3

LEMMA VerdictEffect ==
  ASSUME RunTypes, NEW r \in Runs, Verdict(r)
  PROVE  /\ IF check[r].at = "deny"
            THEN run'[r].at = "call" /\ run'[r].calls = Tail(run[r].calls)
            ELSE /\ run'[r].at = "exec" /\ run'[r].via = "allowed"
                 /\ run'[r].calls = run[r].calls
         /\ SameRequest(r) /\ SameCounters(r) /\ SameQuestion(r) /\ OthersKeep(r)
<1>1. run[r] \in Runnings
  BY DEF RunTypes
<1>2. CASE check[r].at = "deny"
  <2>1. /\ run'[r] = [run[r] EXCEPT !.at = "call", !.calls = Tail(run[r].calls)]
        /\ OthersKeep(r)
    BY <1>2, BecomesEffect DEF Verdict, Denied
  <2>2. QED
    BY <1>1, <1>2, <2>1 DEF Runnings, SameRequest, SameCounters, SameQuestion
<1>3. CASE check[r].at # "deny"
  <2>1. /\ run'[r] = [run[r] EXCEPT !.at = "exec", !.via = "allowed", !.perm = None]
        /\ OthersKeep(r)
    BY <1>3, BecomesEffect DEF Verdict
  <2>2. QED
    BY <1>1, <1>3, <2>1 DEF Runnings, SameRequest, SameCounters, SameQuestion
<1>4. QED
  BY <1>2, <1>3

LEMMA ConfirmEffect ==
  ASSUME RunTypes, NEW r \in Runs, NEW id \in PermIds, Confirm(r, id)
  PROVE  /\ run'[r].at = "exec" /\ run'[r].via = "confirm" /\ run'[r].asked = TRUE
         /\ run'[r].calls = run[r].calls
         /\ SameRequest(r) /\ SameCounters(r) /\ OthersKeep(r)
<1>1. run[r] \in Runnings
  BY DEF RunTypes
<1>2. /\ run'[r] = [run[r] EXCEPT !.at = "exec", !.via = "confirm", !.perm = id,
                                  !.asked = TRUE]
      /\ OthersKeep(r)
  BY BecomesEffect DEF Confirm
<1>3. QED
  BY <1>1, <1>2 DEF Runnings, SameRequest, SameCounters

LEMMA ExecEffect ==
  ASSUME RunTypes, NEW r \in Runs, Exec(r)
  PROVE  /\ run'[r].at = "call" /\ run'[r].calls = Tail(run[r].calls)
         /\ SameRequest(r) /\ SameCounters(r) /\ SameQuestion(r) /\ OthersKeep(r)
<1>1. run[r] \in Runnings
  BY DEF RunTypes
<1>2. /\ run'[r] = [run[r] EXCEPT !.at = "call", !.calls = Tail(run[r].calls),
                                  !.perm = None]
      /\ OthersKeep(r)
  BY BecomesEffect DEF Exec
<1>3. QED
  BY <1>1, <1>2 DEF Runnings, SameRequest, SameCounters, SameQuestion

LEMMA EndRoundEffect ==
  ASSUME RunTypes, NEW r \in Runs, EndRound(r)
  PROVE  /\ \/ run'[r].at = "done" /\ (run[r].asked => run'[r].outcome = "permission")
            \/ run'[r].at = "round" /\ ~run[r].asked /\ ~LastRound(r)
         /\ SameRequest(r) /\ SameCounters(r) /\ SameQuestion(r) /\ OthersKeep(r)
<1>1. run[r] \in Runnings
  BY DEF RunTypes
<1>2. CASE run[r].asked \/ LastRound(r)
  BY <1>2, FinishEffect DEF EndRound
<1>3. CASE ~(run[r].asked \/ LastRound(r))
  <2>1. /\ run'[r] = [run[r] EXCEPT !.at = "round", !.calls = <<>>]
        /\ OthersKeep(r)
    BY <1>3, BecomesEffect DEF EndRound
  <2>2. QED
    BY <1>1, <1>3, <2>1 DEF Runnings, SameRequest, SameCounters, SameQuestion
<1>4. QED
  BY <1>2, <1>3


--------------------------------------------------------------------------------
(* A run that asked stops. *)
LEMMA StopsStep ==
  ASSUME RunTypes, StopsAfterAsking, [EngineNext]_engineVars
  PROVE  StopsAfterAsking'
<1>1. ASSUME NEW r \in Runs, NEW s \in Sessions, NEW q \in Requests, Start(r, s, q[1], q[2])
      PROVE StopsAfterAsking'
  BY <1>1, StartEffect, ZenonT(40)
     DEF Start, StopsAfterAsking, OthersKeep, SameQuestion, At
<1>2. ASSUME NEW r \in Runs, Resume(r) PROVE StopsAfterAsking'
  BY <1>2, ResumeEffect
     DEF Resume, StopsAfterAsking, OthersKeep, SameQuestion, At
<1>3. ASSUME NEW r \in Runs, ResumeExec(r) PROVE StopsAfterAsking'
  BY <1>3, ResumeExecEffect
     DEF ResumeExec, StopsAfterAsking, OthersKeep, SameQuestion, At
<1>4. ASSUME NEW r \in Runs, Cancel(r) PROVE StopsAfterAsking'
  BY <1>4, FinishEffect
     DEF Cancel, StopsAfterAsking, OthersKeep, SameQuestion, At
<1>5. ASSUME NEW r \in Runs, RoundBegins(r) PROVE StopsAfterAsking'
  BY <1>5, RoundBeginsEffect
     DEF RoundBegins, StopsAfterAsking, OthersKeep, SameQuestion, At
<1>6. ASSUME NEW r \in Runs, LLMFails(r) PROVE StopsAfterAsking'
  BY <1>6, LLMFailsEffect
     DEF LLMFails, StopsAfterAsking, OthersKeep, SameQuestion, At
<1>7. ASSUME NEW r \in Runs, LLMAnswers(r) PROVE StopsAfterAsking'
  BY <1>7, FinishEffect
     DEF LLMAnswers, StopsAfterAsking, OthersKeep, SameQuestion, At
<1>8. ASSUME NEW r \in Runs, NEW reply \in Replies, LLMCallsTools(r, reply) PROVE StopsAfterAsking'
  BY <1>8, LLMCallsToolsEffect
     DEF LLMCallsTools, StopsAfterAsking, OthersKeep, SameQuestion, At
<1>9. ASSUME NEW r \in Runs, NextCall(r) PROVE StopsAfterAsking'
  BY <1>9, NextCallEffect, ZenonT(40)
     DEF NextCall, StopsAfterAsking, OthersKeep, SameQuestion, At
<1>10. ASSUME NEW r \in Runs, Checking(r) PROVE StopsAfterAsking'
  BY <1>10
     DEF Checking, StopsAfterAsking, OthersKeep, SameQuestion, At
<1>11. ASSUME NEW r \in Runs, Verdict(r) PROVE StopsAfterAsking'
  BY <1>11, VerdictEffect, ZenonT(40)
     DEF Verdict, StopsAfterAsking, OthersKeep, SameQuestion, At
<1>12. ASSUME NEW r \in Runs, NEW id \in PermIds, Confirm(r, id) PROVE StopsAfterAsking'
  BY <1>12, ConfirmEffect
     DEF Confirm, StopsAfterAsking, OthersKeep, SameQuestion, At
<1>13. ASSUME NEW r \in Runs, Exec(r) PROVE StopsAfterAsking'
  BY <1>13, ExecEffect
     DEF Exec, StopsAfterAsking, OthersKeep, SameQuestion, At
<1>14. ASSUME NEW r \in Runs, EndRound(r) PROVE StopsAfterAsking'
  BY <1>14, EndRoundEffect
     DEF EndRound, StopsAfterAsking, OthersKeep, SameQuestion, At
<1>15. ASSUME UserAnswers PROVE StopsAfterAsking'
  BY <1>15
     DEF UserAnswers, StopsAfterAsking, OthersKeep, SameQuestion, At
<1>16. ASSUME UNCHANGED engineVars PROVE StopsAfterAsking'
  BY <1>16
     DEF engineVars, StopsAfterAsking, OthersKeep, SameQuestion, At
<1>17. QED
  BY <1>1, <1>2, <1>3, <1>4, <1>5, <1>6, <1>7, <1>8, <1>9, <1>10, <1>11, <1>12, <1>13, <1>14,
     <1>15, <1>16
     DEF EngineNext, RunStep

(* Signatures are only ever added to what a session remembers. *)
LEMMA GuardKeepsAllowed ==
  ASSUME GuardTypeOK, [GuardNext]_guardVars, NEW s \in Sessions
  PROVE  sessionAllow[s] \subseteq sessionAllow'[s]
<1>1. ASSUME NEW id \in PermIds, NEW scope \in {"once", "session"}, Approve(id, scope)
      PROVE  sessionAllow[s] \subseteq sessionAllow'[s]
  <2>1. \E p, g : sessionAllow' = [sessionAllow EXCEPT ![p.session] = @ \cup {g}]
    BY <1>1 DEF Approve
  <2>2. QED
    BY <2>1 DEF GuardTypeOK
<1>2. \/ UNCHANGED sessionAllow
      \/ \E id \in PermIds, scope \in {"once", "session"} : Approve(id, scope)
  BY DEF GuardNext, guardVars, stateVars, BeginCheck, DecideCheck, IncDeny, ReturnCheck,
         CreatePending, Reject, TakeReadyResume
<1>3. QED
  BY <1>1, <1>2

LEMMA CoveredKeeps ==
  ASSUME NEW s, NEW c, sessionAllow[s] \subseteq sessionAllow'[s], Covered(s, c)
  PROVE  Covered(s, c)'
BY DEF Covered, Remembered, RuleVerdict

LEMMA AnswersKeepCovered ==
  ASSUME GuardTypeOK, UserAnswers, NEW s \in Sessions, NEW c, Covered(s, c)
  PROVE  Covered(s, c)'
<1>1. GuardNext
  BY DEF UserAnswers, GuardNext
<1>2. QED
  BY <1>1, GuardKeepsAllowed, CoveredKeeps

LEMMA AgreesKeeps ==
  ASSUME NEW k \in Runs, Agrees(k), run'[k] = run[k], check'[k] = check[k],
         UNCHANGED sessionAllow
  PROVE  Agrees(k)'
BY DEF Agrees, At, Covered, Remembered

(* The run and the guard agree on the Check the run is in. *)
LEMMA AgreesStep ==
  ASSUME GuardTypeOK, RunTypes, CheckAgrees, RunsAreConsistent, [EngineNext]_engineVars
  PROVE  CheckAgrees'
<1>1. ASSUME NEW r \in Runs, NEW s \in Sessions, NEW q \in Requests, Start(r, s, q[1], q[2])
      PROVE CheckAgrees'
  <2>1. run'[r].at # "check" /\ OthersKeep(r) /\ At(r, "idle")
        /\ UNCHANGED <<check, sessionAllow>>
    BY <1>1, StartEffect DEF Start, guardVars, stateVars
  <2>2. Agrees(r)'
    BY <2>1 DEF CheckAgrees, Agrees, At
  <2>3. \A k \in Runs \ {r} : Agrees(k)'
    BY <2>1, AgreesKeeps DEF CheckAgrees, OthersKeep
  <2>4. QED
    BY <2>2, <2>3 DEF CheckAgrees
<1>2. ASSUME NEW r \in Runs, Resume(r) PROVE CheckAgrees'
  BY <1>2, ResumeEffect
     DEF Resume, TakeReadyResume, guardVars, stateVars, Covered, Remembered, CheckAgrees,
         Agrees, OthersKeep, SameRequest, At
<1>3. ASSUME NEW r \in Runs, ResumeExec(r) PROVE CheckAgrees'
  BY <1>3, ResumeExecEffect
     DEF ResumeExec, guardVars, stateVars, Covered, Remembered, CheckAgrees, Agrees,
         OthersKeep, SameRequest, At
<1>4. ASSUME NEW r \in Runs, Cancel(r) PROVE CheckAgrees'
  BY <1>4, FinishEffect
     DEF Cancel, guardVars, stateVars, Covered, Remembered, CheckAgrees, Agrees,
         OthersKeep, SameRequest, At
<1>5. ASSUME NEW r \in Runs, RoundBegins(r) PROVE CheckAgrees'
  BY <1>5, RoundBeginsEffect
     DEF RoundBegins, guardVars, stateVars, Covered, Remembered, CheckAgrees, Agrees,
         OthersKeep, SameRequest, At
<1>6. ASSUME NEW r \in Runs, LLMFails(r) PROVE CheckAgrees'
  BY <1>6, LLMFailsEffect, ZenonT(40)
     DEF LLMFails, guardVars, stateVars, Covered, Remembered, CheckAgrees, Agrees,
         OthersKeep, SameRequest, At
<1>7. ASSUME NEW r \in Runs, LLMAnswers(r) PROVE CheckAgrees'
  BY <1>7, FinishEffect
     DEF LLMAnswers, guardVars, stateVars, Covered, Remembered, CheckAgrees, Agrees,
         OthersKeep, SameRequest, At
<1>8. ASSUME NEW r \in Runs, NEW reply \in Replies, LLMCallsTools(r, reply) PROVE CheckAgrees'
  BY <1>8, LLMCallsToolsEffect
     DEF LLMCallsTools, guardVars, stateVars, Covered, Remembered, CheckAgrees, Agrees,
         OthersKeep, SameRequest, At
<1>9. ASSUME NEW r \in Runs, NextCall(r) PROVE CheckAgrees'
  <2> DEFINE s == run[r].session
  <2>1. At(r, "call") /\ OthersKeep(r) /\ check[r] = None
    BY <1>9, NextCallEffect DEF NextCall, CheckAgrees, Agrees, At
  <2>2. CASE run[r].auto
    <3>1. At(r, "exec")' /\ UNCHANGED <<check, sessionAllow>>
      BY <1>9, <2>2, NextCallEffect DEF NextCall, At, guardVars, stateVars
    <3>2. Agrees(r)'
      BY <2>1, <3>1 DEF Agrees, At
    <3>3. \A k \in Runs \ {r} : Agrees(k)'
      BY <2>1, <3>1, AgreesKeeps DEF CheckAgrees, OthersKeep
    <3>4. QED
      BY <3>2, <3>3 DEF CheckAgrees
  <2>3. CASE ~run[r].auto
    <3>1. BeginCheck(r, s, Head(run[r].calls))
      BY <1>9, <2>3 DEF NextCall
    <3>2. /\ check'[r] = [session |-> s, call |-> Head(run[r].calls),
                          at |-> IF BreakerOpen(s) THEN "deny" ELSE "streakRead"]
          /\ \A k \in Runs \ {r} : check'[k] = check[k]
          /\ UNCHANGED sessionAllow
      BY <3>1 DEF BeginCheck, GuardTypeOK, stateVars
    <3>3. /\ At(r, "check")' /\ run'[r].session = s
          /\ run'[r].calls = run[r].calls /\ run'[r].auto = run[r].auto
      BY <1>9, <2>3, NextCallEffect DEF At, SameRequest
    <3>4. s \in Sessions /\ Head(run[r].calls) \in Calls
      <4>1. run[r] \in Runnings /\ run[r].calls # <<>>
        BY <1>9 DEF NextCall, RunTypes, RoundIsOver
      <4>2. QED
        BY <2>1, <4>1, LocalsNext DEF RunsAreConsistent, Consistent, At
    <3>5. check'[r] \in Checks
      BY <3>2, <3>4 DEF Checks
    <3>6. check'[r] # None
      BY <3>5, GuardAssumption
    <3>7. check'[r].session = s /\ check'[r].call = Head(run[r].calls)
            /\ check'[r].at # "allow"
      BY <3>2
    <3>8. Agrees(r)'
      BY <2>3, <3>3, <3>6, <3>7 DEF Agrees, At
    <3>9. \A k \in Runs \ {r} : Agrees(k)'
      BY <2>1, <3>2, AgreesKeeps DEF CheckAgrees, OthersKeep
    <3>10. QED
      BY <3>8, <3>9 DEF CheckAgrees
  <2>4. QED
    BY <2>2, <2>3
<1>10. ASSUME NEW r \in Runs, Checking(r) PROVE CheckAgrees'
  BY <1>10, GuardAssumption
     DEF Checking, DecideCheck, IncDeny, RuleVerdict, stateVars, Covered, Remembered,
         GuardTypeOK, Checks, CheckAgrees, Agrees, OthersKeep, SameRequest, At
<1>11. ASSUME NEW r \in Runs, Verdict(r) PROVE CheckAgrees'
  BY <1>11, VerdictEffect, ZenonT(40)
     DEF Verdict, ReturnCheck, stateVars, Covered, Remembered, GuardTypeOK, CheckAgrees,
         Agrees, OthersKeep, SameRequest, At
<1>12. ASSUME NEW r \in Runs, NEW id \in PermIds, Confirm(r, id) PROVE CheckAgrees'
  <2>1. /\ check'[r] = None
        /\ \A k \in Runs \ {r} : check'[k] = check[k]
        /\ UNCHANGED sessionAllow
    BY <1>12 DEF Confirm, CreatePending, GuardTypeOK
  <2>2. At(r, "exec")' /\ OthersKeep(r)
    BY <1>12, ConfirmEffect DEF At
  <2>3. Agrees(r)'
    BY <2>1, <2>2 DEF Agrees, At
  <2>4. \A k \in Runs \ {r} : Agrees(k)'
    BY <2>1, <2>2, AgreesKeeps DEF CheckAgrees, OthersKeep
  <2>5. QED
    BY <2>3, <2>4 DEF CheckAgrees
<1>13. ASSUME NEW r \in Runs, Exec(r) PROVE CheckAgrees'
  BY <1>13, ExecEffect
     DEF Exec, guardVars, stateVars, Covered, Remembered, CheckAgrees, Agrees, OthersKeep,
         SameRequest, At
<1>14. ASSUME NEW r \in Runs, EndRound(r) PROVE CheckAgrees'
  BY <1>14, EndRoundEffect
     DEF EndRound, guardVars, stateVars, Covered, Remembered, CheckAgrees, Agrees,
         OthersKeep, SameRequest, At
<1>15. ASSUME UserAnswers PROVE CheckAgrees'
  <2>1. UNCHANGED <<run, check>>
    BY <1>15 DEF UserAnswers, Approve, Reject
  <2>2. ASSUME NEW k \in Runs PROVE Agrees(k)'
    <3>1. Agrees(k) /\ (check[k] # None => check[k].session \in Sessions)
      BY DEF CheckAgrees, GuardTypeOK, Checks
    <3>2. check[k] # None /\ Covered(check[k].session, check[k].call)
            => Covered(check[k].session, check[k].call)'
      BY <2>1, <3>1, AnswersKeepCovered, <1>15
    <3>3. QED
      BY <2>1, <3>1, <3>2 DEF Agrees, At
  <2>3. QED
    BY <2>2 DEF CheckAgrees
<1>16. ASSUME UNCHANGED engineVars PROVE CheckAgrees'
  BY <1>16
     DEF engineVars, guardVars, stateVars, Covered, Remembered, CheckAgrees, Agrees,
         OthersKeep, SameRequest, At
<1>17. QED
  BY <1>1, <1>2, <1>3, <1>4, <1>5, <1>6, <1>7, <1>8, <1>9, <1>10, <1>11, <1>12, <1>13, <1>14,
     <1>15, <1>16
     DEF EngineNext, RunStep


--------------------------------------------------------------------------------
(* What a run holds stays consistent, and what it executed stays covered.  *)

LEMMA UnaskedStays ==
  ASSUME GuardTypeOK, [GuardNext]_guardVars, RunsAreConsistent,
         NEW k \in Runs, ~At(k, "idle"), NEW via, NEW c, Unasked(k, via, c),
         run'[k].session = run[k].session, run'[k].auto = run[k].auto
  PROVE  Unasked(k, via, c)'
<1>1. run[k].session \in Sessions
  BY DEF RunsAreConsistent, Consistent
<1>2. Covered(run[k].session, c) => Covered(run[k].session, c)'
  BY <1>1, GuardKeepsAllowed, CoveredKeeps
<1>3. QED
  BY <1>2 DEF Unasked

LEMMA ConsistentKeeps ==
  ASSUME GuardTypeOK, [GuardNext]_guardVars, RunsAreConsistent, NEW k \in Runs,
         run'[k] = run[k], executed'[k] = executed[k], replied'[k] = replied[k]
  PROVE  Consistent(k)'
<1>1. Consistent(k)
  BY DEF RunsAreConsistent
<1>2. At(k, "exec") => Unasked(k, run[k].via, Head(run[k].calls))'
  BY <1>1, UnaskedStays DEF Consistent, At
<1>3. QED
  BY <1>1, <1>2 DEF Consistent, At

LEMMA ConsistentStep ==
  ASSUME GuardTypeOK, RunTypes, CheckAgrees, RunsAreConsistent, [GuardNext]_guardVars,
         [EngineNext]_engineVars
  PROVE  RunsAreConsistent'
<1>1. ASSUME NEW r \in Runs, NEW s \in Sessions, NEW q \in Requests, Start(r, s, q[1], q[2])
      PROVE RunsAreConsistent'
  <2>1. OthersKeep(r) /\ HistoriesKeep(r)
    BY <1>1, StartEffect DEF Start, Execute, RunTypes, HistoriesKeep
  <2>2. Consistent(r)'
    BY <1>1, StartEffect DEF Start, RunsAreConsistent, Consistent, At
  <2>3. QED
    BY <2>1, <2>2, ConsistentKeeps DEF RunsAreConsistent, OthersKeep, HistoriesKeep
<1>2. ASSUME NEW r \in Runs, Resume(r) PROVE RunsAreConsistent'
  <2>1. OthersKeep(r) /\ HistoriesKeep(r)
    BY <1>2, ResumeEffect DEF Resume, Execute, RunTypes, HistoriesKeep
  <2>2. Consistent(r)'
    BY <1>2, ResumeEffect DEF Resume, RunsAreConsistent, Consistent, At, SameRequest, SameCounters
  <2>3. QED
    BY <2>1, <2>2, ConsistentKeeps DEF RunsAreConsistent, OthersKeep, HistoriesKeep
<1>3. ASSUME NEW r \in Runs, ResumeExec(r) PROVE RunsAreConsistent'
  <2>1. OthersKeep(r) /\ HistoriesKeep(r)
    BY <1>3, ResumeExecEffect DEF ResumeExec, Execute, RunTypes, HistoriesKeep
  <2>2. Consistent(r)'
    BY <1>3, ResumeExecEffect
       DEF ResumeExec, RunsAreConsistent, Consistent, At, SameRequest, SameCounters
  <2>3. QED
    BY <2>1, <2>2, ConsistentKeeps DEF RunsAreConsistent, OthersKeep, HistoriesKeep
<1>4. ASSUME NEW r \in Runs, Cancel(r) PROVE RunsAreConsistent'
  <2>1. OthersKeep(r) /\ HistoriesKeep(r)
    BY <1>4, FinishEffect DEF Cancel, Execute, RunTypes, HistoriesKeep
  <2>2. Consistent(r)'
    BY <1>4, FinishEffect DEF Cancel, RunsAreConsistent, Consistent, At, SameRequest, SameCounters
  <2>3. QED
    BY <2>1, <2>2, ConsistentKeeps DEF RunsAreConsistent, OthersKeep, HistoriesKeep
<1>5. ASSUME NEW r \in Runs, RoundBegins(r) PROVE RunsAreConsistent'
  <2>1. OthersKeep(r) /\ HistoriesKeep(r)
    BY <1>5, RoundBeginsEffect DEF RoundBegins, Execute, RunTypes, HistoriesKeep
  <2>2. Consistent(r)'
    BY <1>5, RoundBeginsEffect
       DEF RoundBegins, RunsAreConsistent, Consistent, At, SameRequest, SameCounters
  <2>3. QED
    BY <2>1, <2>2, ConsistentKeeps DEF RunsAreConsistent, OthersKeep, HistoriesKeep
<1>6. ASSUME NEW r \in Runs, LLMFails(r) PROVE RunsAreConsistent'
  <2>1. OthersKeep(r) /\ HistoriesKeep(r)
    BY <1>6, LLMFailsEffect DEF LLMFails, Execute, RunTypes, HistoriesKeep
  <2>2. Consistent(r)'
    BY <1>6, LLMFailsEffect
       DEF LLMFails, RunsAreConsistent, Consistent, At, SameRequest, SameCounters
  <2>3. QED
    BY <2>1, <2>2, ConsistentKeeps DEF RunsAreConsistent, OthersKeep, HistoriesKeep
<1>7. ASSUME NEW r \in Runs, LLMAnswers(r) PROVE RunsAreConsistent'
  <2>1. OthersKeep(r) /\ HistoriesKeep(r)
    BY <1>7, FinishEffect DEF LLMAnswers, Execute, RunTypes, HistoriesKeep
  <2>2. Consistent(r)'
    BY <1>7, FinishEffect
       DEF LLMAnswers, RunsAreConsistent, Consistent, At, SameRequest, SameCounters
  <2>3. QED
    BY <2>1, <2>2, ConsistentKeeps DEF RunsAreConsistent, OthersKeep, HistoriesKeep
<1>8. ASSUME NEW r \in Runs, NEW reply \in Replies, LLMCallsTools(r, reply) PROVE RunsAreConsistent'
  <2>1. OthersKeep(r) /\ HistoriesKeep(r)
    BY <1>8, LLMCallsToolsEffect DEF LLMCallsTools, Execute, RunTypes, HistoriesKeep
  <2>2. Consistent(r)'
    BY <1>8, LLMCallsToolsEffect
       DEF LLMCallsTools, RunsAreConsistent, Consistent, At, SameRequest, SameCounters
  <2>3. QED
    BY <2>1, <2>2, ConsistentKeeps DEF RunsAreConsistent, OthersKeep, HistoriesKeep
<1>9. ASSUME NEW r \in Runs, NextCall(r) PROVE RunsAreConsistent'
  <2>1. OthersKeep(r) /\ HistoriesKeep(r)
    BY <1>9, NextCallEffect DEF NextCall, Execute, RunTypes, HistoriesKeep
  <2>2. Consistent(r)'
    <3>1. run'[r].at \in {"exec", "check"} /\ run'[r].calls = run[r].calls
          /\ run[r].calls # <<>> /\ run'[r].session = run[r].session /\ At(r, "call")
      BY <1>9, NextCallEffect DEF NextCall, SameRequest, RoundIsOver
    <3>2. run[r].session \in Sessions
      BY <3>1 DEF RunsAreConsistent, Consistent, At
    <3>3. run'[r].at = "exec" => run'[r].via = "auto" /\ run'[r].auto
      BY <1>9, NextCallEffect DEF SameRequest
    <3>4. QED
      BY <3>1, <3>2, <3>3 DEF Consistent, At, Unasked
  <2>3. QED
    BY <2>1, <2>2, ConsistentKeeps DEF RunsAreConsistent, OthersKeep, HistoriesKeep
<1>10. ASSUME NEW r \in Runs, Checking(r) PROVE RunsAreConsistent'
  <2>1. UNCHANGED <<run, executed, replied>>
    BY <1>10 DEF Checking
  <2>2. QED
    BY <2>1, ConsistentKeeps DEF RunsAreConsistent
<1>11. ASSUME NEW r \in Runs, Verdict(r) PROVE RunsAreConsistent'
  <2>1. OthersKeep(r) /\ HistoriesKeep(r)
    BY <1>11, VerdictEffect DEF Verdict, Execute, RunTypes, HistoriesKeep
  <2>2. Consistent(r)'
    <3>1. /\ At(r, "check") /\ run'[r].session = run[r].session /\ ~run'[r].auto
          /\ Agrees(r) /\ Consistent(r) /\ check[r].at \in {"allow", "deny"}
          /\ UNCHANGED sessionAllow
      BY <1>11, VerdictEffect
         DEF Verdict, ReturnCheck, CheckAgrees, Agrees, RunsAreConsistent, SameRequest,
             stateVars, At
    <3>2. CASE check[r].at = "deny"
      BY <1>11, <3>1, <3>2, VerdictEffect DEF Consistent, At
    <3>3. CASE check[r].at = "allow"
      <4>1. run'[r].at = "exec" /\ run'[r].via = "allowed" /\ run'[r].calls = run[r].calls
        BY <1>11, <3>3, VerdictEffect
      <4>2. Covered(run[r].session, Head(run[r].calls))
        BY <3>1, <3>3 DEF Agrees
      <4>3. Covered(run[r].session, Head(run[r].calls))'
        BY <3>1, <4>1, <4>2 DEF Covered, Remembered
      <4>4. Unasked(r, run[r].via, Head(run[r].calls))'
        BY <3>1, <4>1, <4>3 DEF Unasked
      <4>5. QED
        BY <3>1, <4>1, <4>4 DEF Consistent, At
    <3>4. QED
      BY <3>1, <3>2, <3>3
  <2>3. QED
    BY <2>1, <2>2, ConsistentKeeps DEF RunsAreConsistent, OthersKeep, HistoriesKeep
<1>12. ASSUME NEW r \in Runs, NEW id \in PermIds, Confirm(r, id) PROVE RunsAreConsistent'
  <2>1. OthersKeep(r) /\ HistoriesKeep(r)
    BY <1>12, ConfirmEffect DEF Confirm, Execute, RunTypes, HistoriesKeep
  <2>2. Consistent(r)'
    BY <1>12, ConfirmEffect DEF Confirm, RunsAreConsistent, Consistent, At, SameRequest, Unasked
  <2>3. QED
    BY <2>1, <2>2, ConsistentKeeps DEF RunsAreConsistent, OthersKeep, HistoriesKeep
<1>13. ASSUME NEW r \in Runs, Exec(r) PROVE RunsAreConsistent'
  <2>1. OthersKeep(r) /\ HistoriesKeep(r)
    BY <1>13, ExecEffect DEF Exec, Execute, RunTypes, HistoriesKeep
  <2>2. Consistent(r)'
    BY <1>13, ExecEffect DEF Exec, RunsAreConsistent, Consistent, At, SameRequest, SameCounters
  <2>3. QED
    BY <2>1, <2>2, ConsistentKeeps DEF RunsAreConsistent, OthersKeep, HistoriesKeep
<1>14. ASSUME NEW r \in Runs, EndRound(r) PROVE RunsAreConsistent'
  <2>1. OthersKeep(r) /\ HistoriesKeep(r)
    BY <1>14, EndRoundEffect DEF EndRound, Execute, RunTypes, HistoriesKeep
  <2>2. Consistent(r)'
    BY <1>14, EndRoundEffect
       DEF EndRound, RunsAreConsistent, Consistent, At, SameRequest, SameCounters
  <2>3. QED
    BY <2>1, <2>2, ConsistentKeeps DEF RunsAreConsistent, OthersKeep, HistoriesKeep
<1>15. ASSUME UserAnswers PROVE RunsAreConsistent'
  <2>1. UNCHANGED <<run, executed, replied>>
    BY <1>15 DEF UserAnswers
  <2>2. QED
    BY <2>1, ConsistentKeeps DEF RunsAreConsistent
<1>16. ASSUME UNCHANGED engineVars PROVE RunsAreConsistent'
  <2>1. UNCHANGED <<run, executed, replied>>
    BY <1>16 DEF engineVars
  <2>2. QED
    BY <2>1, ConsistentKeeps DEF RunsAreConsistent
<1>17. QED
  BY <1>1, <1>2, <1>3, <1>4, <1>5, <1>6, <1>7, <1>8, <1>9, <1>10, <1>11, <1>12, <1>13, <1>14,
     <1>15, <1>16
     DEF EngineNext, RunStep

LEMMA UnaskedKeeps ==
  ASSUME GuardTypeOK, [GuardNext]_guardVars, RunsAreConsistent, UnaskedWasCovered,
         UNCHANGED executed,
         \A k \in Runs : run'[k].session = run[k].session /\ run'[k].auto = run[k].auto
  PROVE  UnaskedWasCovered'
<1>1. ASSUME NEW k \in Runs, NEW i \in DOMAIN executed[k]
      PROVE  Unasked(k, executed[k][i].via, executed[k][i].call)'
  <2>1. Unasked(k, executed[k][i].via, executed[k][i].call)
    BY <1>1 DEF UnaskedWasCovered
  <2>2. ~At(k, "idle")
    BY <1>1 DEF RunsAreConsistent, Consistent, At
  <2>3. QED
    BY <2>1, <2>2, UnaskedStays
<1>2. QED
  BY <1>1 DEF UnaskedWasCovered

LEMMA UnaskedAppends ==
  ASSUME GuardTypeOK, RunTypes, [GuardNext]_guardVars, RunsAreConsistent, UnaskedWasCovered,
         NEW r \in Runs, NEW e, Unasked(r, e.via, e.call), ~At(r, "idle"),
         OthersKeep(r), SameRequest(r), executed' = [executed EXCEPT ![r] = Append(@, e)]
  PROVE  UnaskedWasCovered'
<1>1. ASSUME NEW k \in Runs, NEW i \in DOMAIN executed'[k], NEW x, x = executed'[k][i]
      PROVE  Unasked(k, x.via, x.call)'
  <2>1. executed[k] \in Seq(Executions)
    BY DEF RunTypes
  <2>2. CASE k # r
    <3>1. executed'[k] = executed[k] /\ run'[k] = run[k]
      BY <2>2 DEF RunTypes, OthersKeep
    <3>2. ~At(k, "idle")
      BY <1>1, <3>1 DEF RunsAreConsistent, Consistent, At
    <3>3. Unasked(k, x.via, x.call)
      BY <1>1, <3>1 DEF UnaskedWasCovered
    <3>4. QED
      BY <3>1, <3>2, <3>3, UnaskedStays
  <2>3. CASE k = r
    <3>1. executed'[r] = Append(executed[r], e)
      BY DEF RunTypes
    <3>2. \/ i \in DOMAIN executed[r] /\ x = executed[r][i]
          \/ x = e
      BY <1>1, <2>1, <2>3, <3>1
    <3>3. Unasked(r, x.via, x.call)
      BY <3>2, <2>3 DEF UnaskedWasCovered
    <3>4. QED
      BY <2>3, <3>3, UnaskedStays DEF SameRequest
  <2>4. QED
    BY <2>2, <2>3
<1>2. ASSUME NEW k \in Runs, NEW i \in DOMAIN executed'[k]
      PROVE  Unasked(k, executed[k][i].via, executed[k][i].call)'
  BY <1>1 DEF Unasked, Covered, Remembered
<1>3. QED
  BY <1>2 DEF UnaskedWasCovered

LEMMA UnaskedStep ==
  ASSUME GuardTypeOK, RunTypes, CheckAgrees, RunsAreConsistent, UnaskedWasCovered,
         [GuardNext]_guardVars, [EngineNext]_engineVars
  PROVE  UnaskedWasCovered'
<1>1. ASSUME NEW r \in Runs, NEW s \in Sessions, NEW q \in Requests, Start(r, s, q[1], q[2])
      PROVE UnaskedWasCovered'
  <2>1. OthersKeep(r) /\ UNCHANGED executed /\ executed[r] = <<>>
    BY <1>1, StartEffect DEF Start, RunsAreConsistent, Consistent, At
  <2>2. ASSUME NEW k \in Runs, NEW i \in DOMAIN executed[k], NEW x, x = executed[k][i]
        PROVE  Unasked(k, x.via, x.call)'
    <3>1. k # r /\ run'[k] = run[k]
      BY <2>1, <2>2 DEF OthersKeep
    <3>2. ~At(k, "idle")
      BY <2>2 DEF RunsAreConsistent, Consistent, At
    <3>3. Unasked(k, x.via, x.call)
      BY <2>2 DEF UnaskedWasCovered
    <3>4. QED
      BY <3>1, <3>2, <3>3, UnaskedStays
  <2>3. ASSUME NEW k \in Runs, NEW i \in DOMAIN executed'[k]
        PROVE  Unasked(k, executed[k][i].via, executed[k][i].call)'
    BY <2>1, <2>2 DEF Unasked, Covered, Remembered
  <2>4. QED
    BY <2>3 DEF UnaskedWasCovered
<1>2. ASSUME NEW r \in Runs, Resume(r) PROVE UnaskedWasCovered'
  BY <1>2, ResumeEffect, UnaskedKeeps DEF Resume, OthersKeep, SameRequest
<1>3. ASSUME NEW r \in Runs, ResumeExec(r) PROVE UnaskedWasCovered'
  <2> DEFINE e == [call |-> Head(run[r].calls), via |-> "resume", perm |-> run[r].perm,
                  step |-> run[r].step]
  <2>1. /\ OthersKeep(r) /\ SameRequest(r) /\ ~At(r, "idle")
        /\ executed' = [executed EXCEPT ![r] = Append(@, e)]
    BY <1>3, ResumeExecEffect DEF ResumeExec, Execute, At
  <2>2. Unasked(r, e.via, e.call)
    BY DEF Unasked
  <2>3. QED
    BY <2>1, <2>2, UnaskedAppends
<1>4. ASSUME NEW r \in Runs, Cancel(r) PROVE UnaskedWasCovered'
  BY <1>4, FinishEffect, UnaskedKeeps DEF Cancel, OthersKeep, SameRequest
<1>5. ASSUME NEW r \in Runs, RoundBegins(r) PROVE UnaskedWasCovered'
  BY <1>5, RoundBeginsEffect, UnaskedKeeps DEF RoundBegins, OthersKeep, SameRequest
<1>6. ASSUME NEW r \in Runs, LLMFails(r) PROVE UnaskedWasCovered'
  BY <1>6, LLMFailsEffect, UnaskedKeeps DEF LLMFails, OthersKeep, SameRequest
<1>7. ASSUME NEW r \in Runs, LLMAnswers(r) PROVE UnaskedWasCovered'
  BY <1>7, FinishEffect, UnaskedKeeps DEF LLMAnswers, OthersKeep, SameRequest
<1>8. ASSUME NEW r \in Runs, NEW reply \in Replies, LLMCallsTools(r, reply) PROVE UnaskedWasCovered'
  BY <1>8, LLMCallsToolsEffect, UnaskedKeeps DEF LLMCallsTools, OthersKeep, SameRequest
<1>9. ASSUME NEW r \in Runs, NextCall(r) PROVE UnaskedWasCovered'
  BY <1>9, NextCallEffect, UnaskedKeeps DEF NextCall, OthersKeep, SameRequest
<1>10. ASSUME NEW r \in Runs, Checking(r) PROVE UnaskedWasCovered'
  BY <1>10, UnaskedKeeps DEF Checking
<1>11. ASSUME NEW r \in Runs, Verdict(r) PROVE UnaskedWasCovered'
  BY <1>11, VerdictEffect, UnaskedKeeps DEF Verdict, OthersKeep, SameRequest
<1>12. ASSUME NEW r \in Runs, NEW id \in PermIds, Confirm(r, id) PROVE UnaskedWasCovered'
  BY <1>12, ConfirmEffect, UnaskedKeeps DEF Confirm, OthersKeep, SameRequest
<1>13. ASSUME NEW r \in Runs, Exec(r) PROVE UnaskedWasCovered'
  <2> DEFINE e == [call |-> Head(run[r].calls), via |-> run[r].via, perm |-> run[r].perm,
                  step |-> run[r].step]
  <2>1. /\ OthersKeep(r) /\ SameRequest(r) /\ ~At(r, "idle")
        /\ executed' = [executed EXCEPT ![r] = Append(@, e)]
    BY <1>13, ExecEffect DEF Exec, Execute, At
  <2>2. Unasked(r, e.via, e.call)
    BY <1>13 DEF Exec, RunsAreConsistent, Consistent, At
  <2>3. QED
    BY <2>1, <2>2, UnaskedAppends
<1>14. ASSUME NEW r \in Runs, EndRound(r) PROVE UnaskedWasCovered'
  BY <1>14, EndRoundEffect, UnaskedKeeps DEF EndRound, OthersKeep, SameRequest
<1>15. ASSUME UserAnswers PROVE UnaskedWasCovered'
  BY <1>15, UnaskedKeeps DEF UserAnswers
<1>16. ASSUME UNCHANGED engineVars PROVE UnaskedWasCovered'
  BY <1>16, UnaskedKeeps DEF engineVars
<1>17. QED
  BY <1>1, <1>2, <1>3, <1>4, <1>5, <1>6, <1>7, <1>8, <1>9, <1>10, <1>11, <1>12, <1>13, <1>14,
     <1>15, <1>16
     DEF EngineNext, RunStep


--------------------------------------------------------------------------------
(* The counters cover the histories. *)

LEMMA Limits ==
  /\ MaxRounds \in Nat \ {0} /\ MaxToolCallsPerRound \in Nat \ {0}
  /\ \A kind : TotalBudget(kind) \in Nat \ {0}
BY EngineAssumption DEF TotalBudget

LEMMA ExecutedInIsFinite ==
  ASSUME RunTypes, NEW r \in Runs, NEW k
  PROVE  IsFiniteSet(ExecutedIn(r, k)) /\ Cardinality(ExecutedIn(r, k)) \in Nat
<1>1. executed[r] \in Seq(Executions)
  BY DEF RunTypes
<1>2. DOMAIN executed[r] = 1 .. Len(executed[r]) /\ Len(executed[r]) \in Nat
  BY <1>1, LenProperties
<1>3. IsFiniteSet(DOMAIN executed[r])
  <2>1. \A n \in Nat : IsFiniteSet(1 .. n)
    BY FS_Interval
  <2>2. QED
    BY <1>2, <2>1
<1>4. ExecutedIn(r, k) \subseteq DOMAIN executed[r]
  BY DEF ExecutedIn
<1>5. QED
  BY <1>3, <1>4, FS_Subset, FS_CardinalityType

LEMMA CounterTypes ==
  ASSUME RunTypes, NEW r \in Runs
  PROVE  /\ run[r].step \in Nat /\ run[r].total \in Nat /\ Len(run[r].calls) \in Nat
         /\ Len(executed[r]) \in Nat /\ Len(replied[r]) \in Nat
         /\ \A i \in DOMAIN executed[r] : executed[r][i].step \in Nat
         /\ run[r].calls # <<>> => Len(Tail(run[r].calls)) = Len(run[r].calls) - 1
<1>1. /\ run[r] \in Runnings /\ executed[r] \in Seq(Executions)
      /\ replied[r] \in Seq(Replies)
  BY DEF RunTypes
<1>2. run[r].step \in Nat /\ run[r].total \in Nat /\ run[r].calls \in Seq(Calls)
  BY <1>1 DEF Runnings
<1>3. \A i \in DOMAIN executed[r] : executed[r][i] \in Executions
  BY <1>1, ElementOfSeq, LenProperties
<1>4. QED
  BY <1>1, <1>2, <1>3, LenProperties, HeadTailProperties DEF Executions

LEMMA TailIsShorter ==
  ASSUME RunTypes, NEW r \in Runs
  PROVE  /\ Len(run[r].calls) \in Nat /\ Len(run[r].calls) <= Len(run[r].calls)
         /\ run[r].calls # <<>> =>
              /\ Len(Tail(run[r].calls)) \in Nat
              /\ Len(Tail(run[r].calls)) <= Len(run[r].calls)
<1>1. run[r] \in Runnings
  BY DEF RunTypes
<1>2. run[r].calls \in Seq(Calls)
  BY <1>1 DEF Runnings
<1>3. QED
  BY <1>2, LenProperties, HeadTailProperties

LEMMA CountersKeep ==
  ASSUME NEW k \in Runs, BudgetKept(k), StepsBehind(k), RoundKept(k),
         run'[k] = run[k], executed'[k] = executed[k], replied'[k] = replied[k]
  PROVE  BudgetKept(k)' /\ StepsBehind(k)' /\ RoundKept(k)'
BY DEF BudgetKept, StepsBehind, RoundKept, ExecutedIn, At

(* A run that executes nothing in this step and keeps its counters, its    *)
(* calls growing no longer.                                                *)
LEMMA RoundKeeps ==
  ASSUME RunTypes, NEW r \in Runs, RoundKept(r), executed'[r] = executed[r],
         run'[r].step = run[r].step, Len(run'[r].calls) \in Nat,
         run'[r].at \in {"call", "check", "exec"} =>
           /\ run[r].at \in {"call", "check", "exec"}
           /\ Len(run'[r].calls) <= Len(run[r].calls)
  PROVE  RoundKept(r)'
<1>1. ASSUME NEW k \in 0 .. MaxRounds
      PROVE  /\ Cardinality(ExecutedIn(r, k)') <= MaxToolCallsPerRound
             /\ k = run'[r].step /\ run'[r].at \in {"call", "check", "exec"} =>
                  Cardinality(ExecutedIn(r, k)') + Len(run'[r].calls) <= MaxToolCallsPerRound
  <2>1. ExecutedIn(r, k)' = ExecutedIn(r, k) /\ Cardinality(ExecutedIn(r, k)) \in Nat
    BY ExecutedInIsFinite DEF ExecutedIn
  <2>2. MaxToolCallsPerRound \in Nat /\ Len(run[r].calls) \in Nat
    BY Limits, CounterTypes
  <2>3. /\ Cardinality(ExecutedIn(r, k)) <= MaxToolCallsPerRound
        /\ k = run[r].step /\ run[r].at \in {"call", "check", "exec"} =>
             Cardinality(ExecutedIn(r, k)) + Len(run[r].calls) <= MaxToolCallsPerRound
    BY <1>1 DEF RoundKept
  <2>4. QED
    BY <2>1, <2>2, <2>3
<1>2. QED
  BY <1>1 DEF RoundKept

(* ... and keeps within its budget ... *)
LEMMA BudgetKeeps ==
  ASSUME RunTypes, NEW r \in Runs, BudgetKept(r), executed'[r] = executed[r],
         replied'[r] = replied[r], run'[r].kind = run[r].kind, SameCounters(r),
         run'[r].at \in {"check", "exec"} => run[r].at \in {"check", "exec"},
         run'[r].at = "llm" => run[r].at = "llm",
         run'[r].at = "round" => run[r].at = "round" \/ run[r].step < MaxRounds
  PROVE  BudgetKept(r)'
<1>1. /\ run[r].step \in Nat /\ run[r].total \in Nat
      /\ Len(executed[r]) \in Nat /\ Len(replied[r]) \in Nat /\ MaxRounds \in Nat
  BY CounterTypes, Limits
<1>2. QED
  BY <1>1 DEF BudgetKept, At, SameCounters

(* ... and its rounds in order. *)
LEMMA StepsKeep ==
  ASSUME RunTypes, NEW r \in Runs, StepsBehind(r), executed'[r] = executed[r],
         run'[r].step = run[r].step, run'[r].at = "llm" => run[r].at = "llm"
  PROVE  StepsBehind(r)'
<1>1. run[r].step \in Nat /\ \A i \in DOMAIN executed[r] : executed[r][i].step \in Nat
  BY CounterTypes
<1>2. QED
  BY <1>1 DEF StepsBehind, At

(* Executing a call in the present round adds it to that round only. *)
LEMMA ExecutedInAppends ==
  ASSUME RunTypes, NEW r \in Runs, NEW e, executed'[r] = Append(executed[r], e), NEW k
  PROVE  Cardinality(ExecutedIn(r, k)') =
           Cardinality(ExecutedIn(r, k)) + (IF e.step = k THEN 1 ELSE 0)
<1> DEFINE n == Len(executed[r]) + 1
<1>1. executed[r] \in Seq(Executions)
  BY DEF RunTypes
<1>2. /\ DOMAIN executed'[r] = (DOMAIN executed[r]) \cup {n}
      /\ n \notin DOMAIN executed[r]
      /\ \A i \in DOMAIN executed[r] : executed'[r][i] = executed[r][i]
      /\ executed'[r][n] = e
  BY <1>1, LenProperties
<1>3. IsFiniteSet(ExecutedIn(r, k)) /\ Cardinality(ExecutedIn(r, k)) \in Nat
  BY ExecutedInIsFinite
<1>4. CASE e.step = k
  <2>1. ExecutedIn(r, k)' = ExecutedIn(r, k) \cup {n} /\ n \notin ExecutedIn(r, k)
    BY <1>2, <1>4 DEF ExecutedIn
  <2>2. Cardinality(ExecutedIn(r, k) \cup {n}) = Cardinality(ExecutedIn(r, k)) + 1
    BY <1>3, <2>1, FS_AddElement
  <2>3. QED
    BY <1>4, <2>1, <2>2
<1>5. CASE e.step # k
  <2>1. ExecutedIn(r, k)' = ExecutedIn(r, k)
    BY <1>2, <1>5 DEF ExecutedIn
  <2>2. QED
    BY <1>3, <1>5, <2>1
<1>6. QED
  BY <1>4, <1>5

LEMMA LenOfCallsNext ==
  ASSUME RunTypes', NEW r \in Runs
  PROVE  Len(run'[r].calls) \in Nat
<1>1. run'[r] \in Runnings
  BY DEF RunTypes
<1>2. run'[r].calls \in Seq(Calls)
  BY <1>1 DEF Runnings
<1>3. QED
  BY <1>2, LenProperties

LEMMA CountersStep ==
  ASSUME RunTypes, RunTypes', RunsAreConsistent, CountersCover, [EngineNext]_engineVars
  PROVE  CountersCover'
<1>1. ASSUME NEW r \in Runs, NEW s \in Sessions, NEW q \in Requests, Start(r, s, q[1], q[2])
      PROVE CountersCover'
  <2>1. OthersKeep(r) /\ HistoriesKeep(r)
    BY <1>1, StartEffect DEF Start, Execute, RunTypes, HistoriesKeep
  <2>2. BudgetKept(r) /\ StepsBehind(r) /\ RoundKept(r) /\ Consistent(r)
    BY DEF CountersCover, RunsAreConsistent
  <2>3. /\ executed'[r] = <<>> /\ replied'[r] = <<>> /\ run'[r].total = 0 /\ run'[r].step = 0
        /\ run'[r].at \in {"resume", "round"}
    BY <1>1, <2>2, StartEffect DEF Start, Consistent, At
  <2>4. BudgetKept(r)'
    BY <2>3, Limits, EmptySeq DEF BudgetKept, At
  <2>5. StepsBehind(r)'
    BY <2>3 DEF StepsBehind
  <2>6. RoundKept(r)'
    <3>1. \A k : ExecutedIn(r, k)' = {}
      BY <2>3 DEF ExecutedIn
    <3>2. Cardinality({}) = 0
      BY FS_EmptySet
    <3>3. \A k : Cardinality(ExecutedIn(r, k)') = 0
      BY <3>1, <3>2
    <3>4. run'[r].at \notin {"call", "check", "exec"}
      BY <2>3
    <3>5. QED
      BY <3>3, <3>4, Limits DEF RoundKept
  <2>7. QED
    BY <2>1, <2>2, <2>4, <2>5, <2>6, CountersKeep
       DEF CountersCover, OthersKeep, HistoriesKeep
<1>2. ASSUME NEW r \in Runs, Resume(r) PROVE CountersCover'
  <2>1. OthersKeep(r) /\ HistoriesKeep(r)
    BY <1>2, ResumeEffect DEF Resume, Execute, RunTypes, HistoriesKeep
  <2>2. BudgetKept(r) /\ StepsBehind(r) /\ RoundKept(r) /\ Consistent(r)
    BY DEF CountersCover, RunsAreConsistent
  <2>3. executed'[r] = executed[r] /\ replied'[r] = replied[r]
    BY <1>2 DEF Resume
  <2>4. BudgetKept(r)'
    <3>1. run[r].step < MaxRounds
      BY <1>2, <2>2, Limits DEF Resume, Consistent, At
    <3>2. QED
      BY <1>2, <2>2, <2>3, ResumeEffect, BudgetKeeps, <3>1
         DEF Resume, At, SameRequest, SameCounters
  <2>5. StepsBehind(r)'
    BY <1>2, <2>2, <2>3, ResumeEffect, StepsKeep DEF Resume, At, SameCounters
  <2>6. RoundKept(r)'
    <3>1. Len(run'[r].calls) \in Nat
      BY LenOfCallsNext
    <3>2. QED
      BY <1>2, <2>2, <2>3, <3>1, ResumeEffect, RoundKeeps
         DEF Resume, At, SameCounters, Consistent
  <2>7. QED
    BY <2>1, <2>2, <2>4, <2>5, <2>6, CountersKeep
       DEF CountersCover, OthersKeep, HistoriesKeep
<1>3. ASSUME NEW r \in Runs, ResumeExec(r) PROVE CountersCover'
  <2>1. OthersKeep(r) /\ HistoriesKeep(r)
    BY <1>3, ResumeExecEffect DEF ResumeExec, Execute, RunTypes, HistoriesKeep
  <2>2. BudgetKept(r) /\ StepsBehind(r) /\ RoundKept(r) /\ Consistent(r)
    BY DEF CountersCover, RunsAreConsistent
  <2> DEFINE e == [call |-> Head(run[r].calls), via |-> "resume", perm |-> run[r].perm,
                  step |-> run[r].step]
  <2>3. executed'[r] = Append(executed[r], e) /\ executed[r] \in Seq(Executions)
    BY <1>3 DEF ResumeExec, Execute, RunTypes
  <2>4. /\ Len(executed'[r]) = Len(executed[r]) + 1
        /\ \A i \in DOMAIN executed'[r] :
             \/ i \in DOMAIN executed[r] /\ executed'[r][i] = executed[r][i]
             \/ executed'[r][i] = e
    BY <2>3
  <2>5. BudgetKept(r)'
    <3>1. /\ run[r].step \in Nat /\ run[r].total \in Nat
          /\ Len(executed[r]) \in Nat /\ Len(replied[r]) \in Nat
          /\ MaxRounds \in Nat \ {0} /\ TotalBudget(run[r].kind) \in Nat \ {0}
      BY CounterTypes, Limits
    <3>2. /\ run'[r].total = 1 /\ Len(executed'[r]) = 1 /\ Len(replied'[r]) = 0 /\ run'[r].step = 0
          /\ run'[r].kind = run[r].kind /\ run'[r].at = "round"
      <4>1. At(r, "resumeExec") /\ replied' = replied
        BY <1>3 DEF ResumeExec
      <4>2. executed[r] = <<>> /\ replied[r] = <<>> /\ run[r].total = 0 /\ run[r].step = 0
        BY <2>2, <4>1 DEF Consistent, At
      <4>3. Len(executed[r]) = 0 /\ Len(replied'[r]) = 0
        BY <4>1, <4>2
      <4>4. QED
        BY <1>3, <2>4, <4>2, <4>3, ResumeExecEffect DEF SameRequest
    <3>3. QED
      BY <2>2, <3>1, <3>2 DEF BudgetKept, At
  <2>6. StepsBehind(r)'
    <3>1. At(r, "resumeExec") /\ run'[r].step = run[r].step /\ ~At(r, "llm")'
      BY <1>3, ResumeExecEffect DEF ResumeExec, At, SameCounters
    <3>2. QED
      BY <2>2, <2>4, <3>1, CounterTypes DEF StepsBehind, At
  <2>7. RoundKept(r)'
    <3>1. \A k : Cardinality(ExecutedIn(r, k)') =
                   Cardinality(ExecutedIn(r, k)) + (IF run[r].step = k THEN 1 ELSE 0)
      BY <2>3, ExecutedInAppends
    <3>2. At(r, "round")' /\ executed[r] = <<>>
      BY <1>3, <2>2, ResumeExecEffect DEF ResumeExec, At, Consistent
    <3>3. \A k : ExecutedIn(r, k) = {}
      BY <3>2 DEF ExecutedIn
    <3>4. \A k : Cardinality(ExecutedIn(r, k)) = 0
      BY <3>3, FS_EmptySet
    <3>5. QED
      BY <3>1, <3>2, <3>4, Limits DEF RoundKept, At
  <2>8. QED
    BY <2>1, <2>2, <2>5, <2>6, <2>7, CountersKeep
       DEF CountersCover, OthersKeep, HistoriesKeep
<1>4. ASSUME NEW r \in Runs, Cancel(r) PROVE CountersCover'
  <2>1. OthersKeep(r) /\ HistoriesKeep(r)
    BY <1>4, FinishEffect DEF Cancel, Execute, RunTypes, HistoriesKeep
  <2>2. BudgetKept(r) /\ StepsBehind(r) /\ RoundKept(r) /\ Consistent(r)
    BY DEF CountersCover, RunsAreConsistent
  <2>3. executed'[r] = executed[r] /\ replied'[r] = replied[r]
    BY <1>4 DEF Cancel
  <2>4. BudgetKept(r)'
    BY <1>4, <2>2, <2>3, FinishEffect, BudgetKeeps
       DEF Cancel, At, SameRequest, SameCounters
  <2>5. StepsBehind(r)'
    BY <1>4, <2>2, <2>3, FinishEffect, StepsKeep DEF Cancel, At, SameCounters
  <2>6. RoundKept(r)'
    <3>1. Len(run'[r].calls) \in Nat
      BY LenOfCallsNext
    <3>2. QED
      BY <1>4, <2>2, <2>3, <3>1, FinishEffect, RoundKeeps
         DEF Cancel, At, SameCounters, Consistent
  <2>7. QED
    BY <2>1, <2>2, <2>4, <2>5, <2>6, CountersKeep
       DEF CountersCover, OthersKeep, HistoriesKeep
<1>5. ASSUME NEW r \in Runs, RoundBegins(r) PROVE CountersCover'
  <2>1. OthersKeep(r) /\ HistoriesKeep(r)
    BY <1>5, RoundBeginsEffect DEF RoundBegins, Execute, RunTypes, HistoriesKeep
  <2>2. BudgetKept(r) /\ StepsBehind(r) /\ RoundKept(r) /\ Consistent(r)
    BY DEF CountersCover, RunsAreConsistent
  <2>3. executed'[r] = executed[r] /\ replied'[r] = replied[r]
    BY <1>5 DEF RoundBegins
  <2>4. BudgetKept(r)'
    <3>1. /\ run[r].step \in Nat /\ run[r].total \in Nat
          /\ Len(executed[r]) \in Nat /\ Len(replied[r]) \in Nat
          /\ MaxRounds \in Nat \ {0} /\ TotalBudget(run[r].kind) \in Nat \ {0}
      BY CounterTypes, Limits
    <3>2. /\ run[r].at = "round" /\ run'[r].at = "llm" /\ run'[r].kind = run[r].kind
          /\ run'[r].total = run[r].total /\ run'[r].step = run[r].step + 1
      BY <1>5, RoundBeginsEffect DEF RoundBegins, At, SameRequest
    <3>3. QED
      BY <2>2, <2>3, <3>1, <3>2 DEF BudgetKept, At
  <2>5. StepsBehind(r)'
    <3>1. run'[r].step = run[r].step + 1 /\ run[r].at # "llm"
      BY <1>5, RoundBeginsEffect DEF RoundBegins, At
    <3>2. run[r].step \in Nat /\ \A i \in DOMAIN executed[r] : executed[r][i].step \in Nat
      BY CounterTypes
    <3>3. QED
      BY <2>2, <2>3, <3>1, <3>2 DEF StepsBehind, At
  <2>6. RoundKept(r)'
    <3>1. \A k : ExecutedIn(r, k)' = ExecutedIn(r, k) /\ Cardinality(ExecutedIn(r, k)) \in Nat
      BY <2>3, ExecutedInIsFinite DEF ExecutedIn
    <3>2. QED
      BY <1>5, <2>2, <3>1, CounterTypes, RoundBeginsEffect, Limits DEF RoundKept, RoundBegins, At
  <2>7. QED
    BY <2>1, <2>2, <2>4, <2>5, <2>6, CountersKeep
       DEF CountersCover, OthersKeep, HistoriesKeep
<1>6. ASSUME NEW r \in Runs, LLMFails(r) PROVE CountersCover'
  <2>1. OthersKeep(r) /\ HistoriesKeep(r)
    BY <1>6, LLMFailsEffect DEF LLMFails, Execute, RunTypes, HistoriesKeep
  <2>2. BudgetKept(r) /\ StepsBehind(r) /\ RoundKept(r) /\ Consistent(r)
    BY DEF CountersCover, RunsAreConsistent
  <2>3. executed'[r] = executed[r] /\ replied'[r] = replied[r]
    BY <1>6 DEF LLMFails
  <2>4. BudgetKept(r)'
    BY <1>6, <2>2, <2>3, LLMFailsEffect, BudgetKeeps
       DEF LLMFails, At, SameRequest, SameCounters
  <2>5. StepsBehind(r)'
    BY <1>6, <2>2, <2>3, LLMFailsEffect, StepsKeep DEF LLMFails, At, SameCounters
  <2>6. RoundKept(r)'
    <3>1. Len(run'[r].calls) \in Nat
      BY LenOfCallsNext
    <3>2. QED
      BY <1>6, <2>2, <2>3, <3>1, LLMFailsEffect, RoundKeeps
         DEF LLMFails, At, SameCounters, Consistent
  <2>7. QED
    BY <2>1, <2>2, <2>4, <2>5, <2>6, CountersKeep
       DEF CountersCover, OthersKeep, HistoriesKeep
<1>7. ASSUME NEW r \in Runs, LLMAnswers(r) PROVE CountersCover'
  <2>1. OthersKeep(r) /\ HistoriesKeep(r)
    BY <1>7, FinishEffect DEF LLMAnswers, Execute, RunTypes, HistoriesKeep
  <2>2. BudgetKept(r) /\ StepsBehind(r) /\ RoundKept(r) /\ Consistent(r)
    BY DEF CountersCover, RunsAreConsistent
  <2>3. executed'[r] = executed[r] /\ replied'[r] = replied[r]
    BY <1>7 DEF LLMAnswers
  <2>4. BudgetKept(r)'
    BY <1>7, <2>2, <2>3, FinishEffect, BudgetKeeps
       DEF LLMAnswers, At, SameRequest, SameCounters
  <2>5. StepsBehind(r)'
    BY <1>7, <2>2, <2>3, FinishEffect, StepsKeep DEF LLMAnswers, At, SameCounters
  <2>6. RoundKept(r)'
    <3>1. Len(run'[r].calls) \in Nat
      BY LenOfCallsNext
    <3>2. QED
      BY <1>7, <2>2, <2>3, <3>1, FinishEffect, RoundKeeps
         DEF LLMAnswers, At, SameCounters, Consistent
  <2>7. QED
    BY <2>1, <2>2, <2>4, <2>5, <2>6, CountersKeep
       DEF CountersCover, OthersKeep, HistoriesKeep
<1>8. ASSUME NEW r \in Runs, NEW reply \in Replies, LLMCallsTools(r, reply) PROVE CountersCover'
  <2>1. OthersKeep(r) /\ HistoriesKeep(r)
    BY <1>8, LLMCallsToolsEffect DEF LLMCallsTools, Execute, RunTypes, HistoriesKeep
  <2>2. BudgetKept(r) /\ StepsBehind(r) /\ RoundKept(r) /\ Consistent(r)
    BY DEF CountersCover, RunsAreConsistent
  <2>3. executed'[r] = executed[r] /\ At(r, "llm") /\ SameRequest(r) /\ SameCounters(r)
    BY <1>8, LLMCallsToolsEffect DEF LLMCallsTools
  <2>4. Len(replied'[r]) <= Len(replied[r]) + 1 /\ Len(replied'[r]) \in Nat
    BY <1>8, LLMCallsToolsEffect DEF RunTypes
  <2>5. run'[r].at \in {"done", "call"} /\ (run'[r].at = "call" => run'[r].calls = Kept(reply))
    BY <1>8, LLMCallsToolsEffect
  <2>6. BudgetKept(r)'
    <3>1. /\ run[r].step \in Nat /\ run[r].total \in Nat
          /\ Len(executed[r]) \in Nat /\ Len(replied[r]) \in Nat
          /\ MaxRounds \in Nat \ {0} /\ TotalBudget(run[r].kind) \in Nat \ {0}
      BY CounterTypes, Limits
    <3>2. /\ run'[r].kind = run[r].kind /\ run'[r].total = run[r].total
          /\ run'[r].step = run[r].step
      BY <2>3 DEF SameRequest, SameCounters
    <3>3. QED
      BY <2>2, <2>3, <2>4, <2>5, <3>1, <3>2 DEF BudgetKept, At
  <2>7. StepsBehind(r)'
    BY <2>2, <2>3, <2>5, CounterTypes DEF StepsBehind, At, SameCounters
  <2>8. RoundKept(r)'
    <3>1. \A k : ExecutedIn(r, k)' = ExecutedIn(r, k) /\ Cardinality(ExecutedIn(r, k)) \in Nat
      BY <2>3, ExecutedInIsFinite DEF ExecutedIn
    <3>2. ExecutedIn(r, run[r].step) = {}
      BY <2>2, <2>3, CounterTypes DEF ExecutedIn, StepsBehind
    <3>3. Cardinality(ExecutedIn(r, run[r].step)) = 0
      BY <3>2, FS_EmptySet
    <3>4. Len(Kept(reply)) <= MaxToolCallsPerRound /\ Len(Kept(reply)) \in Nat
      BY KeptIsPrefix, LenProperties
    <3>5. QED
      BY <2>2, <2>3, <2>5, <3>1, <3>3, <3>4, CounterTypes, Limits
         DEF RoundKept, At, SameCounters
  <2>9. QED
    BY <2>1, <2>2, <2>6, <2>7, <2>8, CountersKeep
       DEF CountersCover, OthersKeep, HistoriesKeep
<1>9. ASSUME NEW r \in Runs, NextCall(r) PROVE CountersCover'
  <2>1. OthersKeep(r) /\ HistoriesKeep(r)
    BY <1>9, NextCallEffect DEF NextCall, Execute, RunTypes, HistoriesKeep
  <2>2. BudgetKept(r) /\ StepsBehind(r) /\ RoundKept(r) /\ Consistent(r)
    BY DEF CountersCover, RunsAreConsistent
  <2>3. executed'[r] = executed[r] /\ replied'[r] = replied[r]
    BY <1>9 DEF NextCall
  <2>4. BudgetKept(r)'
    <3>1. /\ run[r].step \in Nat /\ run[r].total \in Nat
          /\ Len(executed[r]) \in Nat /\ Len(replied[r]) \in Nat
          /\ MaxRounds \in Nat \ {0} /\ TotalBudget(run[r].kind) \in Nat \ {0}
      BY CounterTypes, Limits
    <3>2. /\ run[r].at = "call" /\ run'[r].at \in {"check", "exec"} /\ run'[r].kind = run[r].kind
          /\ run'[r].total = run[r].total + 1 /\ run'[r].step = run[r].step
          /\ ~(run[r].total >= TotalBudget(run[r].kind))
      BY <1>9, NextCallEffect DEF NextCall, At, SameRequest, RoundIsOver
    <3>3. QED
      BY <2>2, <2>3, <3>1, <3>2 DEF BudgetKept, At
  <2>5. StepsBehind(r)'
    BY <1>9, <2>2, <2>3, NextCallEffect, StepsKeep DEF NextCall, At, SameCounters
  <2>6. RoundKept(r)'
    <3>1. Len(run'[r].calls) \in Nat /\ Len(run'[r].calls) <= Len(run[r].calls)
      BY <1>9, NextCallEffect, TailIsShorter
    <3>2. run[r].at \in {"call", "check"} /\ run'[r].step = run[r].step
      BY <1>9, NextCallEffect DEF NextCall, At, SameCounters
    <3>3. QED
      BY <2>2, <2>3, <3>1, <3>2, RoundKeeps
  <2>7. QED
    BY <2>1, <2>2, <2>4, <2>5, <2>6, CountersKeep
       DEF CountersCover, OthersKeep, HistoriesKeep
<1>10. ASSUME NEW r \in Runs, Checking(r) PROVE CountersCover'
  <2>1. UNCHANGED <<run, executed, replied>>
    BY <1>10 DEF Checking
  <2>2. QED
    BY <2>1, CountersKeep DEF CountersCover
<1>11. ASSUME NEW r \in Runs, Verdict(r) PROVE CountersCover'
  <2>1. OthersKeep(r) /\ HistoriesKeep(r)
    BY <1>11, VerdictEffect DEF Verdict, Execute, RunTypes, HistoriesKeep
  <2>2. BudgetKept(r) /\ StepsBehind(r) /\ RoundKept(r) /\ Consistent(r)
    BY DEF CountersCover, RunsAreConsistent
  <2>3. executed'[r] = executed[r] /\ replied'[r] = replied[r]
    BY <1>11 DEF Verdict
  <2>4. BudgetKept(r)'
    BY <1>11, <2>2, <2>3, VerdictEffect, BudgetKeeps
       DEF Verdict, At, SameRequest, SameCounters
  <2>5. StepsBehind(r)'
    BY <1>11, <2>2, <2>3, VerdictEffect, StepsKeep DEF Verdict, At, SameCounters
  <2>6. RoundKept(r)'
    <3>1. Len(run'[r].calls) \in Nat /\ Len(run'[r].calls) <= Len(run[r].calls)
      <4>1. run[r].calls # <<>>
        BY <1>11, <2>2 DEF Verdict, At, Consistent
      <4>2. QED
        BY <1>11, <4>1, VerdictEffect, TailIsShorter
    <3>2. run[r].at \in {"call", "check"} /\ run'[r].step = run[r].step
      BY <1>11, VerdictEffect DEF Verdict, At, SameCounters
    <3>3. QED
      BY <2>2, <2>3, <3>1, <3>2, RoundKeeps
  <2>7. QED
    BY <2>1, <2>2, <2>4, <2>5, <2>6, CountersKeep
       DEF CountersCover, OthersKeep, HistoriesKeep
<1>12. ASSUME NEW r \in Runs, NEW id \in PermIds, Confirm(r, id) PROVE CountersCover'
  <2>1. OthersKeep(r) /\ HistoriesKeep(r)
    BY <1>12, ConfirmEffect DEF Confirm, Execute, RunTypes, HistoriesKeep
  <2>2. BudgetKept(r) /\ StepsBehind(r) /\ RoundKept(r) /\ Consistent(r)
    BY DEF CountersCover, RunsAreConsistent
  <2>3. executed'[r] = executed[r] /\ replied'[r] = replied[r]
    BY <1>12 DEF Confirm
  <2>4. BudgetKept(r)'
    BY <1>12, <2>2, <2>3, ConfirmEffect, BudgetKeeps
       DEF Confirm, At, SameRequest, SameCounters
  <2>5. StepsBehind(r)'
    BY <1>12, <2>2, <2>3, ConfirmEffect, StepsKeep DEF Confirm, At, SameCounters
  <2>6. RoundKept(r)'
    <3>1. Len(run'[r].calls) \in Nat /\ Len(run'[r].calls) <= Len(run[r].calls)
      BY <1>12, ConfirmEffect, TailIsShorter
    <3>2. run[r].at \in {"call", "check"} /\ run'[r].step = run[r].step
      BY <1>12, ConfirmEffect DEF Confirm, At, SameCounters
    <3>3. QED
      BY <2>2, <2>3, <3>1, <3>2, RoundKeeps
  <2>7. QED
    BY <2>1, <2>2, <2>4, <2>5, <2>6, CountersKeep
       DEF CountersCover, OthersKeep, HistoriesKeep
<1>13. ASSUME NEW r \in Runs, Exec(r) PROVE CountersCover'
  <2>1. OthersKeep(r) /\ HistoriesKeep(r)
    BY <1>13, ExecEffect DEF Exec, Execute, RunTypes, HistoriesKeep
  <2>2. BudgetKept(r) /\ StepsBehind(r) /\ RoundKept(r) /\ Consistent(r)
    BY DEF CountersCover, RunsAreConsistent
  <2> DEFINE e == [call |-> Head(run[r].calls), via |-> run[r].via, perm |-> run[r].perm,
                  step |-> run[r].step]
  <2>3. executed'[r] = Append(executed[r], e) /\ executed[r] \in Seq(Executions)
    BY <1>13 DEF Exec, Execute, RunTypes
  <2>4. /\ Len(executed'[r]) = Len(executed[r]) + 1
        /\ \A i \in DOMAIN executed'[r] :
             \/ i \in DOMAIN executed[r] /\ executed'[r][i] = executed[r][i]
             \/ executed'[r][i] = e
    BY <2>3
  <2>5. BudgetKept(r)'
    <3>1. /\ run[r].step \in Nat /\ run[r].total \in Nat
          /\ Len(executed[r]) \in Nat /\ Len(replied[r]) \in Nat
          /\ MaxRounds \in Nat \ {0} /\ TotalBudget(run[r].kind) \in Nat \ {0}
      BY CounterTypes, Limits
    <3>2. /\ run'[r].total = run[r].total /\ run'[r].step = run[r].step
          /\ Len(executed'[r]) = Len(executed[r]) + 1 /\ replied'[r] = replied[r]
          /\ run'[r].kind = run[r].kind /\ run[r].at = "exec" /\ run'[r].at = "call"
      BY <1>13, <2>2, <2>4, ExecEffect DEF Exec, At, SameRequest, SameCounters, RunTypes
    <3>3. QED
      BY <2>2, <3>1, <3>2 DEF BudgetKept, At
  <2>6. StepsBehind(r)'
    <3>1. At(r, "exec") /\ run'[r].step = run[r].step /\ ~At(r, "llm")'
      BY <1>13, ExecEffect DEF Exec, At, SameCounters
    <3>2. QED
      BY <2>2, <2>4, <3>1, CounterTypes DEF StepsBehind, At
  <2>7. RoundKept(r)'
    <3>1. \A k : Cardinality(ExecutedIn(r, k)') =
                   Cardinality(ExecutedIn(r, k)) + (IF run[r].step = k THEN 1 ELSE 0)
      BY <2>3, ExecutedInAppends
    <3>2. /\ run'[r].step = run[r].step /\ At(r, "call")' /\ At(r, "exec")
          /\ Len(run'[r].calls) = Len(run[r].calls) - 1
      BY <1>13, <2>2, ExecEffect, CounterTypes DEF Exec, At, SameCounters, Consistent
    <3>3. \A k : Cardinality(ExecutedIn(r, k)) \in Nat
      BY ExecutedInIsFinite
    <3>4. QED
      BY <2>2, <3>1, <3>2, <3>3, CounterTypes, Limits, SMTT(90) DEF RoundKept, At
  <2>8. QED
    BY <2>1, <2>2, <2>5, <2>6, <2>7, CountersKeep
       DEF CountersCover, OthersKeep, HistoriesKeep
<1>14. ASSUME NEW r \in Runs, EndRound(r) PROVE CountersCover'
  <2>1. OthersKeep(r) /\ HistoriesKeep(r)
    BY <1>14, EndRoundEffect DEF EndRound, Execute, RunTypes, HistoriesKeep
  <2>2. BudgetKept(r) /\ StepsBehind(r) /\ RoundKept(r) /\ Consistent(r)
    BY DEF CountersCover, RunsAreConsistent
  <2>3. executed'[r] = executed[r] /\ replied'[r] = replied[r]
    BY <1>14 DEF EndRound
  <2>4. BudgetKept(r)'
    <3>1. ~LastRound(r) => run[r].step < MaxRounds
      BY CounterTypes, Limits DEF LastRound
    <3>2. QED
      BY <1>14, <2>2, <2>3, EndRoundEffect, BudgetKeeps, <3>1
         DEF EndRound, At, SameRequest, SameCounters
  <2>5. StepsBehind(r)'
    BY <1>14, <2>2, <2>3, EndRoundEffect, StepsKeep DEF EndRound, At, SameCounters
  <2>6. RoundKept(r)'
    <3>1. Len(run'[r].calls) \in Nat
      BY LenOfCallsNext
    <3>2. QED
      BY <1>14, <2>2, <2>3, <3>1, EndRoundEffect, RoundKeeps
         DEF EndRound, At, SameCounters, Consistent
  <2>7. QED
    BY <2>1, <2>2, <2>4, <2>5, <2>6, CountersKeep
       DEF CountersCover, OthersKeep, HistoriesKeep
<1>15. ASSUME UserAnswers PROVE CountersCover'
  <2>1. UNCHANGED <<run, executed, replied>>
    BY <1>15 DEF UserAnswers
  <2>2. QED
    BY <2>1, CountersKeep DEF CountersCover
<1>16. ASSUME UNCHANGED engineVars PROVE CountersCover'
  <2>1. UNCHANGED <<run, executed, replied>>
    BY <1>16 DEF engineVars
  <2>2. QED
    BY <2>1, CountersKeep DEF CountersCover
<1>17. QED
  BY <1>1, <1>2, <1>3, <1>4, <1>5, <1>6, <1>7, <1>8, <1>9, <1>10, <1>11, <1>12, <1>13, <1>14,
     <1>15, <1>16
     DEF EngineNext, RunStep

--------------------------------------------------------------------------------
(* The invariant holds of every behaviour of the engine. *)

LEMMA EngineInvInit == EngineInit => EngineInv
<1> SUFFICES ASSUME EngineInit PROVE EngineInv
  OBVIOUS
<1>1. GuardInv /\ GuardTypeOK
  BY GuardInvInit DEF EngineInit, GuardInv
<1>2. \A r \in Runs : run[r] = Idle /\ executed[r] = <<>> /\ replied[r] = <<>> /\ check[r] = None
  BY DEF EngineInit, GuardInit
<1>3. Idle.at = "idle" /\ ~Idle.asked /\ Idle.total = 0 /\ Idle.step = 0
  BY DEF Idle, Fresh
<1>4. RunTypes
  <2>1. <<>> \in Seq(Calls) /\ <<>> \in Seq(Executions) /\ <<>> \in Seq(Replies)
    BY EmptySeq
  <2>2. Idle \in Runnings
    BY <2>1 DEF Idle, Fresh, Runnings, Labels, Kinds, Vias
  <2>3. QED
    BY <2>1, <2>2 DEF EngineInit, RunTypes
<1>5. CheckAgrees
  BY <1>2, <1>3 DEF CheckAgrees, Agrees, At
<1>6. RunsAreConsistent
  BY <1>2, <1>3 DEF RunsAreConsistent, Consistent, At
<1>7. CountersCover
  <2> SUFFICES ASSUME NEW r \in Runs PROVE BudgetKept(r) /\ StepsBehind(r) /\ RoundKept(r)
    BY DEF CountersCover
  <2>1. Len(executed[r]) = 0 /\ Len(replied[r]) = 0 /\ DOMAIN executed[r] = {}
    BY <1>2
  <2>2. BudgetKept(r)
    BY <1>2, <1>3, <2>1, Limits DEF BudgetKept, At
  <2>3. StepsBehind(r)
    BY <2>1 DEF StepsBehind
  <2>4. \A k : ExecutedIn(r, k) = {}
    BY <2>1 DEF ExecutedIn
  <2>5. \A k : Cardinality(ExecutedIn(r, k)) = 0
    BY <2>4, FS_EmptySet
  <2>6. RoundKept(r)
    BY <1>2, <1>3, <2>5, Limits DEF RoundKept
  <2>7. QED
    BY <2>2, <2>3, <2>6
<1>8. UnaskedWasCovered
  BY <1>2 DEF UnaskedWasCovered
<1>9. StopsAfterAsking
  BY <1>2, <1>3 DEF StopsAfterAsking
<1>10. QED
  BY <1>1, <1>4, <1>5, <1>6, <1>7, <1>8, <1>9 DEF EngineInv

LEMMA EngineInvStep == EngineInv /\ [EngineNext]_engineVars => EngineInv'
<1> SUFFICES ASSUME EngineInv, [EngineNext]_engineVars PROVE EngineInv'
  OBVIOUS
<1>1. /\ GuardInv /\ GuardTypeOK /\ RunTypes /\ CheckAgrees /\ RunsAreConsistent
      /\ CountersCover /\ UnaskedWasCovered /\ StopsAfterAsking
  BY DEF EngineInv, GuardInv
<1>2. [GuardNext]_guardVars
  BY <1>1, EngineStepsGuard
<1>3. GuardInv'
  BY <1>1, <1>2, GuardInvStep
<1>4. RunTypes'
  BY <1>1, RunTypesStep
<1>5. CheckAgrees'
  BY <1>1, AgreesStep
<1>6. RunsAreConsistent'
  BY <1>1, <1>2, ConsistentStep
<1>7. CountersCover'
  BY <1>1, <1>4, CountersStep
<1>8. UnaskedWasCovered'
  BY <1>1, <1>2, UnaskedStep
<1>9. StopsAfterAsking'
  BY <1>1, StopsStep
<1>10. QED
  BY <1>3, <1>4, <1>5, <1>6, <1>7, <1>8, <1>9 DEF EngineInv

(* The engine's invariant holds in every reachable state, for any number   *)
(* of runs and sessions and any limits of the loop.                        *)
THEOREM EngineInvariant == EngineSpec => []EngineInv
BY EngineInvInit, EngineInvStep, PTL DEF EngineSpec

(* Every variable of the engine and of the guard keeps its type. *)
THEOREM EngineTypeCorrect == EngineSpec => []EngineTypeOK
<1>1. EngineInv => EngineTypeOK
  BY DEF EngineInv, EngineTypeOK, GuardInv
<1>2. QED
  BY <1>1, EngineInvariant, PTL

(* A run that asked the user for a confirmation (needBreakForPerm) asks    *)
(* the model nothing more and reports the question (agent_engine.go:524).  *)
THEOREM AskingStops == EngineSpec => []StopsAfterAsking
<1>1. EngineInv => StopsAfterAsking
  BY DEF EngineInv
<1>2. QED
  BY <1>1, EngineInvariant, PTL

(* What a run executes without asking is allowed by the rules or by an     *)
(* approval its session remembers, or the request approves everything.     *)
THEOREM NothingUnasked == EngineSpec => []UnaskedWasCovered
<1>1. EngineInv => UnaskedWasCovered
  BY DEF EngineInv
<1>2. QED
  BY <1>1, EngineInvariant, PTL

(* The rounds, the calls of a request and the calls of a round stay within *)
(* the limits of the loop's configuration.                                 *)
THEOREM WorkBounded == EngineSpec => []WorkIsBounded
<1>1. EngineInv => WorkIsBounded
  <2> SUFFICES ASSUME EngineInv, NEW r \in Runs
               PROVE  /\ Len(replied[r]) <= MaxRounds
                      /\ Len(executed[r]) <= TotalBudget(run[r].kind)
                      /\ \A k \in 0 .. MaxRounds :
                           Cardinality(ExecutedIn(r, k)) <= MaxToolCallsPerRound
    BY DEF WorkIsBounded
  <2>1. RunTypes /\ BudgetKept(r) /\ RoundKept(r)
    BY DEF EngineInv, CountersCover
  <2>2. /\ Len(replied[r]) \in Nat /\ Len(executed[r]) \in Nat
        /\ run[r].step \in Nat /\ run[r].total \in Nat
    BY <2>1, CounterTypes
  <2>3. QED
    BY <2>1, <2>2, Limits DEF BudgetKept, RoundKept
<1>2. QED
  BY <1>1, EngineInvariant, PTL

(* The engine is a client of the guard: it starts the guard as New does    *)
(* and every step of it is an operation of the guard or leaves it alone,   *)
(* so the guard's theorems hold inside the engine.                         *)
THEOREM EngineImplementsGuard == EngineSpec => EngineUsesGuard
<1>1. EngineInit => GuardInit
  BY DEF EngineInit
<1>2. EngineInv /\ [EngineNext]_engineVars => [GuardNext]_guardVars
  BY EngineStepsGuard DEF EngineInv
<1>3. QED
  BY <1>1, <1>2, EngineInvariant, PTL DEF EngineSpec, EngineUsesGuard, GuardSpec

(* Inside the engine too, every confirmation lives the life                *)
(* PermissionLifecycle describes: answered once, resumed at most once.     *)
THEOREM EngineKeepsLifecycle == EngineSpec => ImplementsLifecycle
BY EngineImplementsGuard, GuardImplementsLifecycle DEF EngineUsesGuard

--------------------------------------------------------------------------------
(* What a run of the agent engine leaves behind: an approved call is       *)
(* resumed once, as it was approved, and repeated replies are cut.         *)

(* The execution is one of a call that was approved before. *)
IsResumption(e) == e.via = "resume"

(* A run that took an approved call holds it, nobody else does, and it has *)
(* not been executed.  Exec never counts as a resumption.                  *)
HandsHold ==
  \A r \in Runs :
    /\ At(r, "exec") => run[r].via # "resume"
    /\ At(r, "resumeExec") =>
         /\ run[r].perm \in resumed
         /\ issued[run[r].perm] = [session |-> run[r].session, call |-> Head(run[r].calls)]
         /\ \A q \in Runs : q # r /\ At(q, "resumeExec") => run[q].perm # run[r].perm
         /\ \A q \in Runs : \A j \in DOMAIN executed[q] :
              IsResumption(executed[q][j]) => executed[q][j].perm # run[r].perm

(* A resumption is of the call and the session that were approved, *)
ResumptionsAsApproved ==
  \A r \in Runs : \A i \in DOMAIN executed[r] : IsResumption(executed[r][i]) =>
    /\ executed[r][i].perm \in resumed
    /\ issued[executed[r][i].perm] = [session |-> run[r].session, call |-> executed[r][i].call]

(* and no two are of the same confirmation. *)
ResumptionsDiffer ==
  \A r, q \in Runs : \A i \in DOMAIN executed[r], j \in DOMAIN executed[q] :
    /\ IsResumption(executed[r][i]) /\ IsResumption(executed[q][j])
    /\ executed[r][i].perm = executed[q][j].perm
    => q = r /\ j = i

ResumeInv == HandsHold /\ ResumptionsAsApproved /\ ResumptionsDiffer

--------------------------------------------------------------------------------
(* The guard never takes back what it issued or handed out. *)
LEMMA LedgerGrows ==
  ASSUME GuardInv, [GuardNext]_guardVars
  PROVE  /\ resumed \subseteq resumed'
         /\ \A id \in resumed : issued[id] # None /\ issued'[id] = issued[id]
<1>1. resumed \subseteq PermIds /\ \A id \in resumed : issued[id] # None
  BY DEF GuardInv, GuardTypeOK, AnswersWereAsked
<1>2. resumed \subseteq resumed'
  BY DEF GuardNext, guardVars, stateVars, historyVars, BeginCheck, DecideCheck, IncDeny, ReturnCheck,
         CreatePending, Approve, Reject, TakeReadyResume
<1>3. \A id \in PermIds : issued[id] # None => issued'[id] = issued[id]
  <2>1. ASSUME NEW r \in Runs, NEW new \in PermIds, CreatePending(r, new)
        PROVE  \A id \in PermIds : issued[id] # None => issued'[id] = issued[id]
    BY <2>1 DEF CreatePending, GuardInv, GuardTypeOK
  <2>2. \/ UNCHANGED issued
        \/ \E r \in Runs, new \in PermIds : CreatePending(r, new)
    BY DEF GuardNext, guardVars, stateVars, historyVars, BeginCheck, DecideCheck, IncDeny,
           ReturnCheck, Approve, Reject, TakeReadyResume
  <2>3. QED
    BY <2>1, <2>2
<1>4. QED
  BY <1>1, <1>2, <1>3

(* A step of r that neither takes nor executes an approved call keeps the  *)
(* invariant: what it executed before is in r's history still, and what it *)
(* adds is no resumption.                                                  *)
LEMMA ResumeKeeps ==
  ASSUME EngineInv, ResumeInv, [GuardNext]_guardVars, NEW r \in Runs, OthersKeep(r),
         run[r].at # "resumeExec", run'[r].at # "resumeExec",
         run'[r].at = "exec" => run'[r].via # "resume",
         executed[r] # <<>> => run'[r].session = run[r].session,
         \A q \in Runs : \A i \in DOMAIN executed'[q] : IsResumption(executed'[q][i]) =>
           i \in DOMAIN executed[q] /\ executed'[q][i] = executed[q][i]
  PROVE  ResumeInv'
<1>1. /\ resumed \subseteq resumed'
      /\ \A id \in resumed : issued[id] # None /\ issued'[id] = issued[id]
  BY LedgerGrows DEF EngineInv
<1>2. \A q \in Runs : q # r => run'[q] = run[q]
  BY DEF OthersKeep
<1>3. HandsHold'
  <2> SUFFICES ASSUME NEW q \in Runs
               PROVE  /\ At(q, "exec")' => run'[q].via # "resume"
                      /\ At(q, "resumeExec")' =>
                           /\ run'[q].perm \in resumed'
                           /\ issued'[run'[q].perm] =
                                [session |-> run'[q].session, call |-> Head(run'[q].calls)]
                           /\ \A k \in Runs : k # q /\ At(k, "resumeExec")' =>
                                run'[k].perm # run'[q].perm
                           /\ \A k \in Runs : \A j \in DOMAIN executed'[k] :
                                IsResumption(executed'[k][j]) =>
                                  executed'[k][j].perm # run'[q].perm
    BY DEF HandsHold, IsResumption
  <2>1. CASE q = r
    BY <2>1 DEF At
  <2>2. CASE q # r
    <3>1. run'[q] = run[q]
      BY <1>2, <2>2
    <3>2. At(q, "exec")' => run'[q].via # "resume"
      BY <3>1 DEF At, ResumeInv, HandsHold
    <3>3. ASSUME At(q, "resumeExec")
          PROVE  /\ run[q].perm \in resumed'
                 /\ issued'[run[q].perm] = [session |-> run[q].session, call |-> Head(run[q].calls)]
                 /\ \A k \in Runs : k # q /\ At(k, "resumeExec")' => run'[k].perm # run[q].perm
                 /\ \A k \in Runs : \A j \in DOMAIN executed'[k] :
                      IsResumption(executed'[k][j]) => executed'[k][j].perm # run[q].perm
      <4>1. /\ run[q].perm \in resumed
            /\ issued[run[q].perm] = [session |-> run[q].session, call |-> Head(run[q].calls)]
            /\ \A k \in Runs : k # q /\ At(k, "resumeExec") => run[k].perm # run[q].perm
            /\ \A k \in Runs : \A j \in DOMAIN executed[k] :
                 IsResumption(executed[k][j]) => executed[k][j].perm # run[q].perm
        BY <3>3 DEF ResumeInv, HandsHold
      <4>2. \A k \in Runs : At(k, "resumeExec")' => At(k, "resumeExec") /\ run'[k] = run[k]
        BY <1>2 DEF At
      <4>3. \A k \in Runs : \A j \in DOMAIN executed'[k] :
              IsResumption(executed'[k][j]) => executed'[k][j].perm # run[q].perm
        BY <4>1
      <4>4. QED
        BY <1>1, <4>1, <4>2, <4>3
    <3>4. QED
      BY <3>1, <3>2, <3>3 DEF At
  <2>3. QED
    BY <2>1, <2>2
<1>4. ResumptionsAsApproved'
  <2> SUFFICES ASSUME NEW q \in Runs, NEW i \in DOMAIN executed'[q], IsResumption(executed'[q][i])
               PROVE  /\ executed'[q][i].perm \in resumed'
                      /\ issued'[executed'[q][i].perm] =
                           [session |-> run'[q].session, call |-> executed'[q][i].call]
    BY DEF ResumptionsAsApproved, IsResumption
  <2>1. i \in DOMAIN executed[q] /\ executed'[q][i] = executed[q][i]
    OBVIOUS
  <2>2. /\ executed[q][i].perm \in resumed
        /\ issued[executed[q][i].perm] = [session |-> run[q].session, call |-> executed[q][i].call]
    BY <2>1 DEF ResumeInv, ResumptionsAsApproved
  <2>3. executed[q] # <<>>
    BY <2>1
  <2>4. run'[q].session = run[q].session
    BY <1>2, <2>3
  <2>5. QED
    BY <1>1, <2>1, <2>2, <2>4
<1>5. ResumptionsDiffer'
  BY DEF ResumeInv, ResumptionsDiffer, IsResumption
<1>6. QED
  BY <1>3, <1>4, <1>5 DEF ResumeInv

(* What Execute does to the history of its run. *)
LEMMA ExecuteAppends ==
  ASSUME RunTypes, NEW r \in Runs, NEW c \in Calls, NEW via \in Vias,
         NEW perm \in PermIds \cup {None}, Execute(r, c, via, perm)
  PROVE  \E e \in Executions :
           /\ e.call = c /\ e.via = via /\ e.perm = perm
           /\ executed'[r] = Append(executed[r], e)
           /\ DOMAIN executed'[r] = 1 .. Len(executed[r]) + 1
           /\ executed'[r][Len(executed[r]) + 1] = e
           /\ \A i \in 1 .. Len(executed[r]) : executed'[r][i] = executed[r][i]
           /\ DOMAIN executed[r] = 1 .. Len(executed[r]) /\ Len(executed[r]) \in Nat
           /\ \A q \in Runs : q # r => executed'[q] = executed[q]
<1> DEFINE e == [call |-> c, via |-> via, perm |-> perm, step |-> run[r].step]
<1>1. e \in Executions /\ e.call = c /\ e.via = via /\ e.perm = perm
  BY DEF RunTypes, Runnings, Executions
<1>2. executed' = [executed EXCEPT ![r] = Append(executed[r], e)]
  BY DEF Execute
<1>3. executed[r] \in Seq(Executions) /\ executed \in [Runs -> Seq(Executions)]
  BY DEF RunTypes
<1> HIDE DEF e
<1>4. /\ executed'[r] = Append(executed[r], e)
      /\ \A q \in Runs : q # r => executed'[q] = executed[q]
  BY <1>2, <1>3
<1>5. /\ Append(executed[r], e) \in Seq(Executions)
      /\ Len(Append(executed[r], e)) = Len(executed[r]) + 1
      /\ \A i \in 1 .. Len(executed[r]) : Append(executed[r], e)[i] = executed[r][i]
      /\ Append(executed[r], e)[Len(executed[r]) + 1] = e
  BY <1>1, <1>3, AppendProperties
<1>6. /\ DOMAIN executed[r] = 1 .. Len(executed[r]) /\ Len(executed[r]) \in Nat
      /\ DOMAIN Append(executed[r], e) = 1 .. Len(executed[r]) + 1
  BY <1>3, <1>5, LenProperties
<1>7. QED
  BY <1>1, <1>4, <1>5, <1>6

(* A run that takes the approved call of its session holds what nobody     *)
(* held before: the guard hands each out once.                             *)
LEMMA ResumeTakes ==
  ASSUME EngineInv, ResumeInv, NEW r \in Runs, Resume(r), Ready(run[r].session)
  PROVE  ResumeInv'
<1> DEFINE s == run[r].session
           taken == awaiting[s]
<1>1. /\ run[r] \in Runnings /\ s \in Sessions /\ At(r, "resume") /\ executed[r] = <<>>
  BY DEF EngineInv, RunTypes, RunsAreConsistent, Consistent, Resume, At
<1>2. /\ taken # None /\ taken.ready /\ taken \in Resumes
      /\ issued[taken.perm] = [session |-> s, call |-> taken.call]
      /\ taken.perm \notin resumed /\ approved[taken.perm] # "none"
  BY <1>1 DEF Ready, EngineInv, GuardInv, GuardTypeOK, AwaitingIsAnswerable
<1>3. taken.perm \in PermIds /\ taken.call \in Calls
  BY <1>2 DEF Resumes
<1>4. /\ resumed' = resumed \cup {taken.perm} /\ UNCHANGED <<issued, executed>>
      /\ Becomes(r, [run[r] EXCEPT !.at = "resumeExec", !.calls = <<taken.call>>,
                                   !.perm = taken.perm])
  BY DEF Resume, TakeReadyResume
<1> HIDE DEF taken
<1>5. OthersKeep(r)
  BY <1>4, BecomesEffect DEF EngineInv
<1>6. /\ run'[r].at = "resumeExec" /\ Head(run'[r].calls) = taken.call
      /\ run'[r].perm = taken.perm /\ run'[r].session = s
  <2>1. run'[r] = [run[r] EXCEPT !.at = "resumeExec", !.calls = <<taken.call>>,
                                 !.perm = taken.perm]
    BY <1>4, BecomesEffect DEF EngineInv
  <2> DEFINE one == <<taken.call>>
  <2>2. Head(one) = taken.call
    OBVIOUS
  <2> HIDE DEF one
  <2>3. run'[r] = [run[r] EXCEPT !.at = "resumeExec", !.calls = one, !.perm = taken.perm]
    BY <2>1 DEF one
  <2>4. QED
    BY <1>1, <2>2, <2>3 DEF Runnings
<1> HIDE DEF s
<1>7. \A q \in Runs : q # r => run'[q] = run[q]
  BY <1>5 DEF OthersKeep
<1>8. HandsHold'
  <2> SUFFICES ASSUME NEW q \in Runs
               PROVE  /\ At(q, "exec")' => run'[q].via # "resume"
                      /\ At(q, "resumeExec")' =>
                           /\ run'[q].perm \in resumed'
                           /\ issued'[run'[q].perm] =
                                [session |-> run'[q].session, call |-> Head(run'[q].calls)]
                           /\ \A k \in Runs : k # q /\ At(k, "resumeExec")' =>
                                run'[k].perm # run'[q].perm
                           /\ \A k \in Runs : \A j \in DOMAIN executed'[k] :
                                IsResumption(executed'[k][j]) =>
                                  executed'[k][j].perm # run'[q].perm
    BY DEF HandsHold, IsResumption
  <2>1. CASE q = r
    <3>1. \A k \in Runs : k # r /\ At(k, "resumeExec")' => run'[k].perm # taken.perm
      BY <1>2, <1>7 DEF At, ResumeInv, HandsHold
    <3>2. \A k \in Runs : \A j \in DOMAIN executed[k] :
            IsResumption(executed[k][j]) => executed[k][j].perm # taken.perm
      BY <1>2 DEF ResumeInv, ResumptionsAsApproved
    <3>3. QED
      BY <1>2, <1>4, <1>6, <2>1, <3>1, <3>2 DEF At
  <2>2. CASE q # r
    <3>1. run'[q] = run[q]
      BY <1>7, <2>2
    <3>2. At(q, "exec") => run[q].via # "resume"
      BY DEF ResumeInv, HandsHold
    <3>3. ASSUME At(q, "resumeExec")
          PROVE  /\ run[q].perm \in resumed'
                 /\ issued'[run[q].perm] = [session |-> run[q].session, call |-> Head(run[q].calls)]
                 /\ \A k \in Runs : k # q /\ At(k, "resumeExec")' => run'[k].perm # run[q].perm
                 /\ \A k \in Runs : \A j \in DOMAIN executed'[k] :
                      IsResumption(executed'[k][j]) => executed'[k][j].perm # run[q].perm
      <4>1. /\ run[q].perm \in resumed
            /\ issued[run[q].perm] = [session |-> run[q].session, call |-> Head(run[q].calls)]
            /\ \A k \in Runs : k # q /\ At(k, "resumeExec") => run[k].perm # run[q].perm
            /\ \A k \in Runs : \A j \in DOMAIN executed[k] :
                 IsResumption(executed[k][j]) => executed[k][j].perm # run[q].perm
        BY <3>3 DEF ResumeInv, HandsHold
      <4>2. ASSUME NEW k \in Runs, k # q, At(k, "resumeExec")'
            PROVE  run'[k].perm # run[q].perm
        BY <1>2, <1>6, <1>7, <4>1, <4>2 DEF At
      <4>3. QED
        BY <1>4, <4>1, <4>2
    <3>4. QED
      BY <3>1, <3>2, <3>3 DEF At
  <2>3. QED
    BY <2>1, <2>2
<1>9. ResumptionsAsApproved'
  BY <1>1, <1>4, <1>6, <1>7 DEF ResumeInv, ResumptionsAsApproved, IsResumption, s
<1>10. ResumptionsDiffer'
  BY <1>4 DEF ResumeInv, ResumptionsDiffer, IsResumption
<1>11. QED
  BY <1>8, <1>9, <1>10 DEF ResumeInv

(* The call it holds is executed once. *)
LEMMA ResumeExecutes ==
  ASSUME EngineInv, ResumeInv, NEW r \in Runs, ResumeExec(r)
  PROVE  ResumeInv'
<1> DEFINE c == Head(run[r].calls)
           p == run[r].perm
<1>1. /\ run[r] \in Runnings /\ run[r].calls # <<>> /\ At(r, "resumeExec") /\ executed[r] = <<>>
  BY DEF EngineInv, RunTypes, RunsAreConsistent, Consistent, ResumeExec, At
<1>2. c \in Calls /\ p \in PermIds \cup {None}
  BY <1>1, LocalsNext DEF Runnings
<1>3. PICK e \in Executions :
        /\ e.call = c /\ e.via = "resume" /\ e.perm = p
        /\ DOMAIN executed'[r] = 1 .. Len(executed[r]) + 1
        /\ executed'[r][Len(executed[r]) + 1] = e
        /\ \A q \in Runs : q # r => executed'[q] = executed[q]
  BY <1>2, ExecuteAppends DEF ResumeExec, EngineInv, Vias
<1>4. DOMAIN executed'[r] = {1} /\ executed'[r][1] = e
  <2>1. Len(executed[r]) = 0
    BY <1>1, EmptySeq
  <2>2. QED
    BY <1>3, <2>1
<1>5. /\ p \in resumed /\ issued[p] = [session |-> run[r].session, call |-> c]
      /\ \A q \in Runs : q # r /\ At(q, "resumeExec") => run[q].perm # p
      /\ \A q \in Runs : \A j \in DOMAIN executed[q] :
           IsResumption(executed[q][j]) => executed[q][j].perm # p
  BY <1>1 DEF ResumeInv, HandsHold
<1>6. /\ run'[r].at = "round" /\ run'[r].session = run[r].session
      /\ \A q \in Runs : q # r => run'[q] = run[q]
      /\ UNCHANGED <<resumed, issued>>
  BY ResumeExecEffect DEF ResumeExec, EngineInv, SameRequest, OthersKeep, guardVars, historyVars
<1> HIDE DEF c, p
<1>7. HandsHold'
  <2> SUFFICES ASSUME NEW q \in Runs, q # r
               PROVE  /\ At(q, "exec") => run[q].via # "resume"
                      /\ At(q, "resumeExec") =>
                           /\ run[q].perm \in resumed
                           /\ issued[run[q].perm] =
                                [session |-> run[q].session, call |-> Head(run[q].calls)]
                           /\ \A k \in Runs : k # q /\ At(k, "resumeExec")' =>
                                run'[k].perm # run[q].perm
                           /\ \A k \in Runs : \A j \in DOMAIN executed'[k] :
                                IsResumption(executed'[k][j]) =>
                                  executed'[k][j].perm # run[q].perm
    BY <1>6 DEF HandsHold, IsResumption, At
  <2>1. At(q, "exec") => run[q].via # "resume"
    BY DEF ResumeInv, HandsHold
  <2>2. ASSUME At(q, "resumeExec")
        PROVE  /\ run[q].perm \in resumed
               /\ issued[run[q].perm] = [session |-> run[q].session, call |-> Head(run[q].calls)]
               /\ \A k \in Runs : k # q /\ At(k, "resumeExec")' => run'[k].perm # run[q].perm
               /\ \A k \in Runs : \A j \in DOMAIN executed'[k] :
                    IsResumption(executed'[k][j]) => executed'[k][j].perm # run[q].perm
    <3>1. /\ run[q].perm \in resumed
          /\ issued[run[q].perm] = [session |-> run[q].session, call |-> Head(run[q].calls)]
          /\ \A k \in Runs : k # q /\ At(k, "resumeExec") => run[k].perm # run[q].perm
          /\ \A k \in Runs : \A j \in DOMAIN executed[k] :
               IsResumption(executed[k][j]) => executed[k][j].perm # run[q].perm
      BY <2>2 DEF ResumeInv, HandsHold
    <3>2. \A k \in Runs : k # q /\ At(k, "resumeExec")' => run'[k].perm # run[q].perm
      BY <1>6, <3>1 DEF At
    <3>3. ASSUME NEW k \in Runs, NEW j \in DOMAIN executed'[k], IsResumption(executed'[k][j])
          PROVE  executed'[k][j].perm # run[q].perm
      <4>1. CASE k = r
        BY <1>3, <1>4, <1>5, <2>2, <4>1
      <4>2. CASE k # r
        BY <1>3, <3>1, <3>3, <4>2
      <4>3. QED
        BY <4>1, <4>2
    <3>4. QED
      BY <3>1, <3>2, <3>3
  <2>3. QED
    BY <2>1, <2>2
<1>8. ResumptionsAsApproved'
  <2> SUFFICES ASSUME NEW q \in Runs, NEW i \in DOMAIN executed'[q], IsResumption(executed'[q][i])
               PROVE  /\ executed'[q][i].perm \in resumed
                      /\ issued[executed'[q][i].perm] =
                           [session |-> run'[q].session, call |-> executed'[q][i].call]
    BY <1>6 DEF ResumptionsAsApproved, IsResumption
  <2>1. CASE q = r
    BY <1>3, <1>4, <1>5, <1>6, <2>1
  <2>2. CASE q # r
    BY <1>3, <1>6, <2>2 DEF ResumeInv, ResumptionsAsApproved
  <2>3. QED
    BY <2>1, <2>2
<1>9. ResumptionsDiffer'
  <2> SUFFICES ASSUME NEW k \in Runs, NEW q \in Runs, NEW i \in DOMAIN executed'[k],
                      NEW j \in DOMAIN executed'[q],
                      IsResumption(executed'[k][i]), IsResumption(executed'[q][j]),
                      executed'[k][i].perm = executed'[q][j].perm
               PROVE  q = k /\ j = i
    BY DEF ResumptionsDiffer, IsResumption
  <2>1. CASE k = r /\ q = r
    BY <1>4, <2>1
  <2>2. CASE k = r /\ q # r
    BY <1>3, <1>4, <1>5, <2>2
  <2>3. CASE k # r /\ q = r
    BY <1>3, <1>4, <1>5, <2>3
  <2>4. CASE k # r /\ q # r
    BY <1>3, <2>4 DEF ResumeInv, ResumptionsDiffer
  <2>5. QED
    BY <2>1, <2>2, <2>3, <2>4
<1>10. QED
  BY <1>7, <1>8, <1>9 DEF ResumeInv

(* Any other execution is no resumption. *)
LEMMA ExecKeepsResumptions ==
  ASSUME EngineInv, ResumeInv, NEW r \in Runs, Exec(r)
  PROVE  \A q \in Runs : \A i \in DOMAIN executed'[q] : IsResumption(executed'[q][i]) =>
           i \in DOMAIN executed[q] /\ executed'[q][i] = executed[q][i]
<1>1. run[r] \in Runnings /\ run[r].calls # <<>> /\ At(r, "exec")
  BY DEF EngineInv, RunTypes, RunsAreConsistent, Consistent, Exec, At
<1>2. /\ Head(run[r].calls) \in Calls /\ run[r].perm \in PermIds \cup {None}
      /\ run[r].via \in Vias /\ run[r].via # "resume"
  BY <1>1, LocalsNext DEF Runnings, ResumeInv, HandsHold
<1>3. PICK e \in Executions :
        /\ e.via = run[r].via
        /\ DOMAIN executed'[r] = 1 .. Len(executed[r]) + 1
        /\ executed'[r][Len(executed[r]) + 1] = e
        /\ \A i \in 1 .. Len(executed[r]) : executed'[r][i] = executed[r][i]
        /\ DOMAIN executed[r] = 1 .. Len(executed[r]) /\ Len(executed[r]) \in Nat
        /\ \A q \in Runs : q # r => executed'[q] = executed[q]
  BY <1>2, ExecuteAppends DEF Exec, EngineInv
<1>4. TAKE q \in Runs
<1>5. CASE q = r
  <2> TAKE i \in DOMAIN executed'[q]
  <2>1. CASE i \in 1 .. Len(executed[r])
    BY <1>3, <1>5, <2>1
  <2>2. CASE i = Len(executed[r]) + 1
    BY <1>2, <1>3, <1>5, <2>2 DEF IsResumption
  <2>3. QED
    BY <1>3, <1>5, <2>1, <2>2
<1>6. CASE q # r
  BY <1>3, <1>6
<1>7. QED
  BY <1>5, <1>6

(* Nor is there one where nothing is executed. *)
LEMMA NothingExecuted ==
  ASSUME UNCHANGED executed
  PROVE  \A q \in Runs : \A i \in DOMAIN executed'[q] : IsResumption(executed'[q][i]) =>
           i \in DOMAIN executed[q] /\ executed'[q][i] = executed[q][i]
OBVIOUS

LEMMA ResumeAnswers ==
  ASSUME EngineInv, ResumeInv, [GuardNext]_guardVars, UNCHANGED <<run, executed>>
  PROVE  ResumeInv'
<1>1. /\ resumed \subseteq resumed'
      /\ \A id \in resumed : issued[id] # None /\ issued'[id] = issued[id]
  BY LedgerGrows DEF EngineInv
<1>2. HandsHold'
  BY <1>1 DEF ResumeInv, HandsHold, At, IsResumption
<1>3. ResumptionsAsApproved'
  BY <1>1 DEF ResumeInv, ResumptionsAsApproved, IsResumption
<1>4. ResumptionsDiffer'
  BY DEF ResumeInv, ResumptionsDiffer, IsResumption
<1>5. QED
  BY <1>2, <1>3, <1>4 DEF ResumeInv

LEMMA ResumeStep ==
  ASSUME EngineInv, ResumeInv, [EngineNext]_engineVars
  PROVE  ResumeInv'
<1> USE DEF At
<1>1. [GuardNext]_guardVars /\ RunTypes
  BY EngineStepsGuard DEF EngineInv
<1>2. ASSUME NEW r \in Runs, NEW s \in Sessions, NEW q \in Requests, Start(r, s, q[1], q[2])
      PROVE  ResumeInv'
  <2>1. executed[r] = <<>> /\ run[r].at = "idle" /\ UNCHANGED executed
    BY <1>2 DEF Start, EngineInv, RunsAreConsistent, Consistent
  <2>2. run'[r].at \in {"resume", "round"} /\ OthersKeep(r)
    BY <1>1, <1>2, StartEffect
  <2>3. QED
    BY <1>1, <2>1, <2>2, NothingExecuted, ResumeKeeps
<1>3. ASSUME NEW r \in Runs, Resume(r) PROVE ResumeInv'
  <2>1. CASE Ready(run[r].session)
    BY <1>3, <2>1, ResumeTakes
  <2>2. CASE ~Ready(run[r].session)
    <3>1. /\ run[r].at = "resume" /\ UNCHANGED executed
          /\ Becomes(r, [run[r] EXCEPT !.at = "round"])
      BY <1>3, <2>2 DEF Resume
    <3>2. run'[r].at = "round" /\ run'[r].session = run[r].session /\ OthersKeep(r)
      <4>1. run[r] \in Runnings
        BY <1>1 DEF RunTypes
      <4>2. run'[r] = [run[r] EXCEPT !.at = "round"] /\ OthersKeep(r)
        BY <1>1, <3>1, BecomesEffect
      <4>3. QED
        BY <4>1, <4>2 DEF Runnings
    <3>3. QED
      BY <1>1, <3>1, <3>2, NothingExecuted, ResumeKeeps
  <2>3. QED
    BY <2>1, <2>2
<1>4. ASSUME NEW r \in Runs, ResumeExec(r) PROVE ResumeInv'
  BY <1>4, ResumeExecutes
<1>5. ASSUME NEW r \in Runs, Cancel(r) PROVE ResumeInv'
  <2>1. run[r].at = "round" /\ UNCHANGED executed /\ Finish(r, "cancel")
    BY <1>5 DEF Cancel
  <2>2. QED
    BY <1>1, <2>1, FinishEffect, NothingExecuted, ResumeKeeps DEF SameRequest
<1>6. ASSUME NEW r \in Runs, RoundBegins(r) PROVE ResumeInv'
  <2>1. run[r].at = "round" /\ UNCHANGED executed
    BY <1>6 DEF RoundBegins
  <2>2. QED
    BY <1>1, <1>6, <2>1, RoundBeginsEffect, NothingExecuted, ResumeKeeps DEF SameRequest
<1>7. ASSUME NEW r \in Runs, LLMFails(r) PROVE ResumeInv'
  <2>1. run[r].at = "llm" /\ UNCHANGED executed
    BY <1>7 DEF LLMFails
  <2>2. QED
    BY <1>1, <1>7, <2>1, LLMFailsEffect, NothingExecuted, ResumeKeeps DEF SameRequest
<1>8. ASSUME NEW r \in Runs, LLMAnswers(r) PROVE ResumeInv'
  <2>1. run[r].at = "llm" /\ UNCHANGED executed /\ Finish(r, "answer")
    BY <1>8 DEF LLMAnswers
  <2>2. QED
    BY <1>1, <2>1, FinishEffect, NothingExecuted, ResumeKeeps DEF SameRequest
<1>9. ASSUME NEW r \in Runs, NEW reply \in Replies, LLMCallsTools(r, reply) PROVE ResumeInv'
  <2>1. run[r].at = "llm" /\ UNCHANGED executed
    BY <1>9 DEF LLMCallsTools
  <2>2. QED
    BY <1>1, <1>9, <2>1, LLMCallsToolsEffect, NothingExecuted, ResumeKeeps DEF SameRequest
<1>10. ASSUME NEW r \in Runs, NextCall(r) PROVE ResumeInv'
  <2>1. run[r].at = "call" /\ UNCHANGED executed
    BY <1>10 DEF NextCall
  <2>2. QED
    BY <1>1, <1>10, <2>1, NextCallEffect, NothingExecuted, ResumeKeeps DEF SameRequest
<1>11. ASSUME NEW r \in Runs, Checking(r) PROVE ResumeInv'
  <2>1. UNCHANGED <<run, executed>>
    BY <1>11 DEF Checking
  <2>2. QED
    BY <1>1, <2>1, ResumeAnswers
<1>12. ASSUME NEW r \in Runs, Verdict(r) PROVE ResumeInv'
  <2>1. run[r].at = "check" /\ UNCHANGED executed
    BY <1>12 DEF Verdict
  <2>2. QED
    BY <1>1, <1>12, <2>1, VerdictEffect, NothingExecuted, ResumeKeeps DEF SameRequest
<1>13. ASSUME NEW r \in Runs, NEW id \in PermIds, Confirm(r, id) PROVE ResumeInv'
  <2>1. run[r].at = "check" /\ UNCHANGED executed
    BY <1>13 DEF Confirm
  <2>2. QED
    BY <1>1, <1>13, <2>1, ConfirmEffect, NothingExecuted, ResumeKeeps DEF SameRequest
<1>14. ASSUME NEW r \in Runs, Exec(r) PROVE ResumeInv'
  <2>1. run[r].at = "exec"
    BY <1>14 DEF Exec
  <2>2. QED
    BY <1>1, <1>14, <2>1, ExecEffect, ExecKeepsResumptions, ResumeKeeps DEF SameRequest
<1>15. ASSUME NEW r \in Runs, EndRound(r) PROVE ResumeInv'
  <2>1. run[r].at = "call" /\ UNCHANGED executed
    BY <1>15 DEF EndRound
  <2>2. QED
    BY <1>1, <1>15, <2>1, EndRoundEffect, NothingExecuted, ResumeKeeps DEF SameRequest
<1>16. CASE UserAnswers \/ UNCHANGED engineVars
  <2>1. UNCHANGED <<run, executed>>
    BY <1>16 DEF UserAnswers, engineVars
  <2>2. QED
    BY <1>1, <2>1, ResumeAnswers
<1>17. QED
  BY <1>2, <1>3, <1>4, <1>5, <1>6, <1>7, <1>8, <1>9, <1>10, <1>11, <1>12, <1>13, <1>14, <1>15,
     <1>16 DEF EngineNext, RunStep

LEMMA ResumeInitially == EngineInit => ResumeInv
<1> SUFFICES ASSUME EngineInit PROVE ResumeInv
  OBVIOUS
<1>1. \A r \in Runs : run[r].at = "idle" /\ DOMAIN executed[r] = {}
  BY DEF EngineInit, Idle, Fresh
<1>2. QED
  BY <1>1 DEF ResumeInv, HandsHold, ResumptionsAsApproved, ResumptionsDiffer, At

(* However many "continue" requests race (permission_guard.go,             *)
(* TakeReadyResume, and agent_engine.go, the resumption), an approved call *)
(* is resumed by one of them, once, in its session, as it was approved.    *)
THEOREM ResumptionsUnique == EngineSpec => []ResumedOnceAsApproved
<1>1. EngineInv /\ ResumeInv => ResumedOnceAsApproved
  BY SMTT(30) DEF EngineInv, GuardInv, GuardTypeOK, AnswersWereAsked, ResumeInv, ResumptionsAsApproved,
         ResumptionsDiffer, IsResumption, ResumedOnceAsApproved
<1>2. EngineInv /\ ResumeInv /\ [EngineNext]_engineVars => ResumeInv'
  BY ResumeStep
<1>3. QED
  BY <1>1, <1>2, ResumeInitially, EngineInvariant, PTL DEF EngineSpec

--------------------------------------------------------------------------------
(* Repeated replies *)

(* A run knows its last reply, and counts at least as many repeats of it   *)
(* as there are in a row at the end of its history.                        *)
RepeatsCounted(r) ==
  LET n == Len(replied[r]) IN
    /\ n > 0 => run[r].lastSig = replied[r][n]
    /\ \A m \in 0 .. n - 1 :
         (\A j \in n - m .. n : replied[r][j] = replied[r][n]) => m <= run[r].sameSig

RepeatInv == RepeatsAreCut /\ \A r \in Runs : RepeatsCounted(r)

SameSigs(r) == run'[r].sameSig = run[r].sameSig /\ run'[r].lastSig = run[r].lastSig

LEMMA RepeatKeeps ==
  ASSUME RepeatInv, NEW r \in Runs, OthersKeep(r), SameSigs(r) \/ replied[r] = <<>>,
         RunTypes, RunTypes', UNCHANGED replied
  PROVE  RepeatInv'
<1>1. RepeatsAreCut'
  BY DEF RepeatInv, RepeatsAreCut
<1>2. ASSUME NEW q \in Runs PROVE RepeatsCounted(q)'
  <2>1. CASE q = r /\ replied[r] = <<>>
    <3>1. Len(replied[q]) = 0 /\ replied'[q] = replied[q]
      BY <2>1, EmptySeq
    <3>2. 0 .. 0 - 1 = {}
      OBVIOUS
    <3>3. QED
      BY <3>1, <3>2 DEF RepeatsCounted
  <2>2. CASE q = r /\ SameSigs(r)
    BY <2>2 DEF RepeatInv, RepeatsCounted, SameSigs
  <2>3. CASE q # r
    BY <2>3 DEF RepeatInv, RepeatsCounted, OthersKeep
  <2>4. QED
    BY <2>1, <2>2, <2>3
<1>3. QED
  BY <1>1, <1>2 DEF RepeatInv

(* Only a reply with calls changes what is counted. *)
LEMMA SigsStay ==
  ASSUME RunTypes, NEW r \in Runs,
         \/ Resume(r) \/ ResumeExec(r) \/ Cancel(r) \/ RoundBegins(r) \/ LLMFails(r)
         \/ LLMAnswers(r) \/ NextCall(r) \/ Checking(r) \/ Verdict(r)
         \/ (\E id \in PermIds : Confirm(r, id)) \/ Exec(r) \/ EndRound(r)
  PROVE  SameSigs(r) /\ OthersKeep(r) /\ UNCHANGED replied
<1>1. run[r] \in Runnings
  BY DEF RunTypes
<1>2. UNCHANGED replied
  BY DEF Resume, ResumeExec, Cancel, RoundBegins, LLMFails, LLMAnswers, NextCall, Checking,
         Verdict, Confirm, Exec, EndRound
<1>3. ASSUME NEW outcome, Finish(r, outcome)
      PROVE  SameSigs(r) /\ OthersKeep(r)
  <2>1. run'[r] = [run[r] EXCEPT !.at = "done", !.outcome = outcome] /\ OthersKeep(r)
    BY <1>3, BecomesEffect DEF Finish
  <2>2. QED
    BY <1>1, <2>1 DEF Runnings, SameSigs
<1>4. CASE Resume(r)
  <2> DEFINE one == <<awaiting[run[r].session].call>>
             perm == awaiting[run[r].session].perm
  <2>1. \/ Becomes(r, [run[r] EXCEPT !.at = "resumeExec", !.calls = one, !.perm = perm])
        \/ Becomes(r, [run[r] EXCEPT !.at = "round"])
    BY <1>4 DEF Resume
  <2> HIDE DEF one, perm
  <2>2. /\ OthersKeep(r)
        /\ \/ run'[r] = [run[r] EXCEPT !.at = "resumeExec", !.calls = one, !.perm = perm]
           \/ run'[r] = [run[r] EXCEPT !.at = "round"]
    BY <2>1, BecomesEffect
  <2>3. QED
    BY <1>1, <1>2, <2>2 DEF Runnings, SameSigs
<1>5. CASE ResumeExec(r)
  <2>1. /\ run'[r] = [run[r] EXCEPT !.at = "round", !.calls = <<>>, !.perm = None,
                                    !.total = run[r].total + 1]
        /\ OthersKeep(r)
    BY <1>5, BecomesEffect DEF ResumeExec
  <2>2. QED
    BY <1>1, <1>2, <2>1 DEF Runnings, SameSigs
<1>6. CASE Cancel(r) \/ LLMAnswers(r)
  BY <1>2, <1>3, <1>6 DEF Cancel, LLMAnswers
<1>7. CASE RoundBegins(r)
  <2>1. /\ run'[r] = [run[r] EXCEPT !.at = "llm", !.step = run[r].step + 1, !.attempt = 0]
        /\ OthersKeep(r)
    BY <1>7, BecomesEffect DEF RoundBegins
  <2>2. QED
    BY <1>1, <1>2, <2>1 DEF Runnings, SameSigs
<1>8. CASE LLMFails(r)
  <2>1. \/ Becomes(r, [run[r] EXCEPT !.at = "llm", !.attempt = run[r].attempt + 1])
        \/ Finish(r, "llm")
    BY <1>8 DEF LLMFails
  <2>2. CASE Becomes(r, [run[r] EXCEPT !.at = "llm", !.attempt = run[r].attempt + 1])
    <3>1. /\ run'[r] = [run[r] EXCEPT !.at = "llm", !.attempt = run[r].attempt + 1]
          /\ OthersKeep(r)
      BY <2>2, BecomesEffect
    <3>2. QED
      BY <1>1, <1>2, <3>1 DEF Runnings, SameSigs
  <2>3. QED
    BY <1>2, <1>3, <2>1, <2>2
<1>9. CASE NextCall(r)
  <2>1. \/ Becomes(r, [run[r] EXCEPT !.at = "exec", !.total = run[r].total + 1, !.via = "auto",
                                     !.perm = None])
        \/ Becomes(r, [run[r] EXCEPT !.at = "check", !.total = run[r].total + 1])
    BY <1>9 DEF NextCall
  <2>2. /\ OthersKeep(r)
        /\ \/ run'[r] = [run[r] EXCEPT !.at = "exec", !.total = run[r].total + 1,
                                       !.via = "auto", !.perm = None]
           \/ run'[r] = [run[r] EXCEPT !.at = "check", !.total = run[r].total + 1]
    BY <2>1, BecomesEffect
  <2>3. QED
    BY <1>1, <1>2, <2>2 DEF Runnings, SameSigs
<1>10. CASE Checking(r)
  BY <1>2, <1>10 DEF Checking, SameSigs, OthersKeep
<1>11. CASE Verdict(r)
  <2> DEFINE rest == Tail(run[r].calls)
  <2>1. \/ Becomes(r, [run[r] EXCEPT !.at = "call", !.calls = rest])
        \/ Becomes(r, [run[r] EXCEPT !.at = "exec", !.via = "allowed", !.perm = None])
    BY <1>11 DEF Verdict, Denied
  <2> HIDE DEF rest
  <2>2. /\ OthersKeep(r)
        /\ \/ run'[r] = [run[r] EXCEPT !.at = "call", !.calls = rest]
           \/ run'[r] = [run[r] EXCEPT !.at = "exec", !.via = "allowed", !.perm = None]
    BY <2>1, BecomesEffect
  <2>3. QED
    BY <1>1, <1>2, <2>2 DEF Runnings, SameSigs
<1>12. ASSUME NEW id \in PermIds, Confirm(r, id) PROVE SameSigs(r) /\ OthersKeep(r)
  <2>1. /\ run'[r] = [run[r] EXCEPT !.at = "exec", !.via = "confirm", !.perm = id,
                                    !.asked = TRUE]
        /\ OthersKeep(r)
    BY <1>12, BecomesEffect DEF Confirm
  <2>2. QED
    BY <1>1, <2>1 DEF Runnings, SameSigs
<1>13. CASE Exec(r)
  <2> DEFINE rest == Tail(run[r].calls)
  <2>1. /\ run'[r] = [run[r] EXCEPT !.at = "call", !.calls = rest, !.perm = None]
        /\ OthersKeep(r)
    BY <1>13, BecomesEffect DEF Exec
  <2> HIDE DEF rest
  <2>2. QED
    BY <1>1, <1>2, <2>1 DEF Runnings, SameSigs
<1>14. CASE EndRound(r)
  <2>1. \/ Becomes(r, [run[r] EXCEPT !.at = "round", !.calls = <<>>])
        \/ Finish(r, "permission") \/ Finish(r, "loop")
    BY <1>14 DEF EndRound
  <2>2. CASE Becomes(r, [run[r] EXCEPT !.at = "round", !.calls = <<>>])
    <3>1. run'[r] = [run[r] EXCEPT !.at = "round", !.calls = <<>>] /\ OthersKeep(r)
      BY <2>2, BecomesEffect
    <3>2. QED
      BY <1>1, <1>2, <3>1 DEF Runnings, SameSigs
  <2>3. QED
    BY <1>2, <1>3, <2>1, <2>2
<1>15. QED
  BY <1>2, <1>4, <1>5, <1>6, <1>7, <1>8, <1>9, <1>10, <1>11, <1>12, <1>13, <1>14

(* A reply that is taken up is counted, and cut before there are too many  *)
(* of it in a row.                                                         *)
LEMMA RepeatAppends ==
  ASSUME RepeatInv, RunTypes, NEW r \in Runs, NEW reply \in Replies, LLMCallsTools(r, reply)
  PROVE  RepeatInv'
<1> DEFINE count == RepeatCount(r, reply)
           old == replied[r]
           new == replied'[r]
           n == Len(replied[r])
           K == DiminishingReturnsThreshold
           kept == Kept(reply)
<1>1. run[r] \in Runnings /\ old \in Seq(Replies) /\ replied \in [Runs -> Seq(Replies)]
      /\ n \in Nat /\ K \in Nat \ {0}
  BY LenProperties, EngineAssumption DEF RunTypes
<1>2. CASE count >= K
  <2>1. Finish(r, "loop") /\ UNCHANGED replied
    BY <1>2 DEF LLMCallsTools
  <2>2. run'[r] = [run[r] EXCEPT !.at = "done", !.outcome = "loop"] /\ OthersKeep(r)
    BY <2>1, BecomesEffect DEF Finish
  <2>3. SameSigs(r)
    BY <1>1, <2>2 DEF Runnings, SameSigs
  <2>4. RepeatsAreCut'
    BY <2>1 DEF RepeatInv, RepeatsAreCut
  <2>5. ASSUME NEW q \in Runs PROVE RepeatsCounted(q)'
    BY <2>1, <2>2, <2>3 DEF RepeatInv, RepeatsCounted, SameSigs, OthersKeep
  <2>6. QED
    BY <2>4, <2>5 DEF RepeatInv
<1>3. CASE ~(count >= K)
  <2>1. /\ replied' = [replied EXCEPT ![r] = Append(old, reply)]
        /\ Becomes(r, [run[r] EXCEPT !.at = "call", !.calls = kept, !.sameSig = count,
                                     !.lastSig = reply])
    BY <1>3 DEF LLMCallsTools
  <2> HIDE DEF kept, count
  <2>2. /\ run'[r] = [run[r] EXCEPT !.at = "call", !.calls = kept, !.sameSig = count,
                                    !.lastSig = reply]
        /\ OthersKeep(r)
    BY <2>1, BecomesEffect
  <2>3. run'[r].sameSig = count /\ run'[r].lastSig = reply
    BY <1>1, <2>2 DEF Runnings
  <2>4. /\ count \in Nat /\ count < K
        /\ reply = run[r].lastSig => count = run[r].sameSig + 1
    <3>1. run[r].sameSig \in Nat
      BY <1>1 DEF Runnings
    <3>2. QED
      BY <1>1, <1>3, <3>1 DEF count, RepeatCount
  <2>5. /\ new \in Seq(Replies) /\ Len(new) = n + 1 /\ new[n + 1] = reply
        /\ DOMAIN new = 1 .. n + 1 /\ DOMAIN old = 1 .. n
        /\ \A i \in 1 .. n : new[i] = old[i]
        /\ \A q \in Runs : q # r => replied'[q] = replied[q]
    <3>1. new = Append(old, reply) /\ \A q \in Runs : q # r => replied'[q] = replied[q]
      BY <1>1, <2>1
    <3>2. /\ Append(old, reply) \in Seq(Replies) /\ Len(Append(old, reply)) = n + 1
          /\ Append(old, reply)[n + 1] = reply
          /\ \A i \in 1 .. n : Append(old, reply)[i] = old[i]
      BY <1>1, AppendProperties
    <3>3. DOMAIN old = 1 .. n /\ DOMAIN Append(old, reply) = 1 .. n + 1
      BY <1>1, <3>2, LenProperties
    <3>4. QED
      BY <3>1, <3>2, <3>3
  <2>6. /\ n > 0 => run[r].lastSig = old[n]
        /\ \A m \in 0 .. n - 1 : (\A j \in n - m .. n : old[j] = old[n]) => m <= run[r].sameSig
    BY DEF RepeatInv, RepeatsCounted
  <2> HIDE DEF n, K, old, new
  <2>7. ASSUME NEW m \in 0 .. n, \A j \in n + 1 - m .. n + 1 : new[j] = reply
        PROVE  m <= count
    <3>1. CASE m = 0
      BY <2>4, <3>1
    <3>2. CASE m # 0
      <4>1. m \in Nat /\ n > 0 /\ m - 1 \in 0 .. n - 1 /\ n + 1 - m >= 1
        BY <1>1, <3>2
      <4>2. \A j \in n - (m - 1) .. n : j \in 1 .. n /\ j \in n + 1 - m .. n + 1
        BY <1>1, <4>1
      <4>3. \A j \in n - (m - 1) .. n : old[j] = reply
        BY <2>5, <2>7, <4>2
      <4>4. n \in n - (m - 1) .. n
        BY <1>1, <4>1
      <4>5. old[n] = reply
        BY <4>3, <4>4
      <4>6. m - 1 <= run[r].sameSig /\ run[r].lastSig = reply
        BY <2>6, <4>1, <4>3, <4>5
      <4>7. run[r].sameSig \in Nat
        BY <1>1 DEF Runnings
      <4>8. QED
        BY <2>4, <4>1, <4>6, <4>7
    <3>3. QED
      BY <3>1, <3>2
  <2>8. RepeatsCounted(r)'
    <3>1. run'[r].lastSig = new[n + 1] /\ run'[r].sameSig = count
      BY <2>3, <2>5
    <3>2. \A m \in 0 .. n : (\A j \in n + 1 - m .. n + 1 : new[j] = new[n + 1]) => m <= count
      BY <2>5, <2>7
    <3>3. n + 1 - 1 = n
      BY <1>1
    <3>4. Len(new) = n + 1
      BY <2>5
    <3>5. /\ run'[r].lastSig = new[Len(new)]
          /\ \A m \in 0 .. Len(new) - 1 :
               (\A j \in Len(new) - m .. Len(new) : new[j] = new[Len(new)]) =>
                 m <= run'[r].sameSig
      <4>1. run'[r].lastSig = new[Len(new)]
        BY <3>1, <3>4
      <4>2. ASSUME NEW m \in 0 .. Len(new) - 1,
                   \A j \in Len(new) - m .. Len(new) : new[j] = new[Len(new)]
            PROVE  m <= run'[r].sameSig
        <5>1. m \in 0 .. n
          BY <1>1, <3>3, <3>4
        <5>2. \A j \in n + 1 - m .. n + 1 : new[j] = new[n + 1]
          BY <1>1, <3>4, <4>2
        <5>3. m <= count
          BY <3>2, <5>1, <5>2
        <5>4. QED
          BY <3>1, <5>3
      <4>3. QED
        BY <4>1, <4>2
    <3>6. QED
      BY <3>5 DEF RepeatsCounted, new
  <2>9. \A q \in Runs : q # r => RepeatsCounted(q)'
    BY <2>2, <2>5 DEF RepeatInv, RepeatsCounted, OthersKeep
  <2>10. ASSUME NEW i \in 1 .. n + 1, i > K
         PROVE  \E j \in i - K .. i - 1 : new[j] # new[i]
    <3>1. CASE i \in 1 .. n
      <4>1. PICK j \in i - K .. i - 1 : old[j] # old[i]
        BY <2>5, <2>10, <3>1 DEF RepeatInv, RepeatsAreCut, old, K
      <4>2. j \in 1 .. n
        BY <1>1, <2>10, <3>1
      <4>3. QED
        BY <2>5, <3>1, <4>1, <4>2
    <3>2. CASE i = n + 1
      <4>1. SUFFICES ASSUME \A j \in i - K .. i - 1 : new[j] = new[i] PROVE FALSE
        OBVIOUS
      <4>2. \A j \in n + 1 - K .. n + 1 : j \in i - K .. i - 1 \/ j = i
        BY <1>1, <3>2
      <4>3. \A j \in n + 1 - K .. n + 1 : new[j] = reply
        BY <2>5, <3>2, <4>1, <4>2
      <4>4. K \in 0 .. n
        BY <1>1, <2>10, <3>2
      <4>5. K <= count
        BY <2>7, <4>3, <4>4
      <4>6. QED
        BY <1>1, <2>4, <4>5
    <3>3. QED
      BY <1>1, <3>1, <3>2
  <2>11. RepeatsAreCut'
    <3> SUFFICES ASSUME NEW q \in Runs, NEW i \in DOMAIN replied'[q], i > K
                 PROVE  \E j \in i - K .. i - 1 : replied'[q][j] # replied'[q][i]
      BY DEF RepeatsAreCut, K
    <3>1. CASE q = r
      BY <2>5, <2>10, <3>1 DEF new
    <3>2. CASE q # r
      BY <2>5, <3>2 DEF RepeatInv, RepeatsAreCut, K
    <3>3. QED
      BY <3>1, <3>2
  <2>12. QED
    BY <2>8, <2>9, <2>11 DEF RepeatInv
<1>4. QED
  BY <1>2, <1>3

LEMMA RepeatStep ==
  ASSUME EngineInv, EngineInv', RepeatInv, [EngineNext]_engineVars
  PROVE  RepeatInv'
<1>1. RunTypes /\ RunTypes'
  BY DEF EngineInv
<1>2. ASSUME NEW r \in Runs, NEW s \in Sessions, NEW q \in Requests, Start(r, s, q[1], q[2])
      PROVE  RepeatInv'
  <2>1. replied[r] = <<>> /\ UNCHANGED replied
    BY <1>2 DEF Start, EngineInv, RunsAreConsistent, Consistent, At
  <2>2. OthersKeep(r)
    BY <1>1, <1>2, StartEffect
  <2>3. QED
    BY <1>1, <2>1, <2>2, RepeatKeeps
<1>3. ASSUME NEW r \in Runs, NEW reply \in Replies, LLMCallsTools(r, reply)
      PROVE  RepeatInv'
  BY <1>1, <1>3, RepeatAppends
<1>4. ASSUME NEW r \in Runs, RunStep(r), \A reply \in Replies : ~LLMCallsTools(r, reply)
      PROVE  RepeatInv'
  <2>1. SameSigs(r) /\ OthersKeep(r) /\ UNCHANGED replied
    BY <1>1, <1>4, SigsStay DEF RunStep
  <2>2. QED
    BY <1>1, <2>1, RepeatKeeps
<1>5. CASE UserAnswers \/ UNCHANGED engineVars
  <2>1. UNCHANGED <<run, replied>>
    BY <1>5 DEF UserAnswers, engineVars
  <2>2. QED
    BY <2>1 DEF RepeatInv, RepeatsAreCut, RepeatsCounted
<1>6. QED
  BY <1>2, <1>3, <1>4, <1>5 DEF EngineNext

LEMMA RepeatInitially == EngineInit => RepeatInv
<1> SUFFICES ASSUME EngineInit PROVE RepeatInv
  OBVIOUS
<1>1. \A r \in Runs : replied[r] = <<>> /\ Len(replied[r]) = 0 /\ DOMAIN replied[r] = {}
  BY DEF EngineInit
<1>2. 0 .. 0 - 1 = {}
  OBVIOUS
<1>3. QED
  BY <1>1, <1>2 DEF RepeatInv, RepeatsAreCut, RepeatsCounted

(* A run takes up the same reply at most so many times in a row as the     *)
(* threshold of the loop says (agent_engine.go, sameSigCount).             *)
THEOREM RepeatsCut == EngineSpec => []RepeatsAreCut
<1>1. RepeatInv => RepeatsAreCut
  BY DEF RepeatInv
<1>2. EngineInv /\ EngineInv' /\ RepeatInv /\ [EngineNext]_engineVars => RepeatInv'
  BY RepeatStep
<1>3. QED
  BY <1>1, <1>2, RepeatInitially, EngineInvariant, PTL DEF EngineSpec
================================================================================
