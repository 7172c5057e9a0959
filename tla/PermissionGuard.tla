---------------------------- MODULE PermissionGuard ----------------------------
(***************************************************************************)
(* The permission guard of the agent engine (domain/agent/service/         *)
(* security/permission_guard.go): the verdict on a tool call, the          *)
(* confirmations a user answers over HTTP, the slot a session's approved   *)
(* call waits in until "continue", and the circuit breaker.                *)
(*                                                                         *)
(* Check takes the guard's lock up to three times and releases it in       *)
(* between, so it is three steps here; every other method is one step.     *)
(* A method that answers "not found" or nil changes nothing and has no     *)
(* step.                                                                   *)
(***************************************************************************)
EXTENDS Naturals, FiniteSets

CONSTANTS
  Sessions,      \* session ids
  Calls,         \* tool calls (tool name and arguments)
  Sigs,          \* what toolSig can return
  Sig,           \* toolSig: tool name and main argument of a call
  ReadCalls,     \* calls of the tools that only read
  DenyCalls,     \* calls a deny rule matches
  ConfirmCalls,  \* calls a confirm rule matches, or of a write/delete/command tool
  PermIds,       \* the ids CreatePending makes, one per instant of the clock
  Runs,          \* goroutines that call Check
  CircuitLimit,  \* denials after which a session is cut off
  AutoAll,       \* the "*" signature
  None           \* nil

Confirms == [session : Sessions, call : Calls]
Resumes == [call : Calls, perm : PermIds, ready : BOOLEAN]
Checks == [session : Sessions, call : Calls,
           at : {"streakRead", "denyRule", "allow", "deny", "confirm"}]

ASSUME GuardAssumption ==
  /\ Sig \in [Calls -> Sigs]
  /\ ReadCalls \subseteq Calls /\ DenyCalls \subseteq Calls /\ ConfirmCalls \subseteq Calls
  /\ CircuitLimit \in Nat \ {0}
  /\ AutoAll \notin Sigs
  /\ None \notin Confirms \cup Resumes \cup Checks \cup Sessions

(* What the counting argument about the breaker needs: a process life has  *)
(* finitely many goroutines and confirmations.                             *)
ASSUME FiniteAssumption == IsFiniteSet(Runs) /\ IsFiniteSet(PermIds)

VARIABLES
  sessionAllow,  \* signatures a session no longer asks for
  pending,       \* confirmations nobody has answered
  awaiting,      \* a session's call to execute on "continue"
  denyStreak,    \* denials the breaker counts
  check          \* each goroutine's Check, None when it is in none

(* History: what was issued under an id, how it was approved, and which    *)
(* ids TakeReadyResume handed out.  No action's guard reads them except    *)
(* that an id is issued once.                                              *)
VARIABLES issued, approved, resumed

stateVars == <<sessionAllow, pending, awaiting, denyStreak>>
historyVars == <<issued, approved, resumed>>
guardVars == <<stateVars, check, historyVars>>

GuardInit ==
  /\ sessionAllow = [s \in Sessions |-> {}]
  /\ pending = [id \in PermIds |-> None]
  /\ awaiting = [s \in Sessions |-> None]
  /\ denyStreak = [s \in Sessions |-> 0]
  /\ check = [r \in Runs |-> None]
  /\ issued = [id \in PermIds |-> None]
  /\ approved = [id \in PermIds |-> "none"]
  /\ resumed = {}

--------------------------------------------------------------------------------
(* Check *)

(* The verdict of the static rules, in the order Check asks them. *)
RuleVerdict(c) ==
  IF c \in ReadCalls THEN "allow"
  ELSE IF c \in DenyCalls THEN "denyRule"
  ELSE IF c \in ConfirmCalls THEN "confirm"
  ELSE "allow"

Remembered(s, c) == {Sig[c], AutoAll} \cap sessionAllow[s] # {}

(* The mutants of this module, X_Bug for an operator X, are faults the    *)
(* properties below must detect; nothing of the model uses them.           *)
BreakerOpen_OffByOne(s) == denyStreak[s] > CircuitLimit

BreakerOpen(s) == denyStreak[s] >= CircuitLimit

(* A run enters Check and reads the streak under the read lock. *)
BeginCheck(r, s, c) ==
  /\ check[r] = None
  /\ check' = [check EXCEPT ![r] =
       [session |-> s, call |-> c,
        at |-> IF BreakerOpen(s) THEN "deny" ELSE "streakRead"]]
  /\ UNCHANGED <<stateVars, historyVars>>

(* It takes the lock again for the remembered signatures, then the rules. *)
DecideCheck(r) ==
  /\ check[r] # None /\ check[r].at = "streakRead"
  /\ check' = [check EXCEPT ![r].at =
       IF Remembered(check[r].session, check[r].call) THEN "allow"
       ELSE RuleVerdict(check[r].call)]
  /\ UNCHANGED <<stateVars, historyVars>>

(* A deny rule matched: the streak grows under the write lock. *)
IncDeny(r) ==
  /\ check[r] # None /\ check[r].at = "denyRule"
  /\ denyStreak' = [denyStreak EXCEPT ![check[r].session] = @ + 1]
  /\ check' = [check EXCEPT ![r].at = "deny"]
  /\ UNCHANGED <<sessionAllow, pending, awaiting, historyVars>>

(* Check returned allow or deny to its caller. *)
ReturnCheck(r) ==
  /\ check[r] # None /\ check[r].at \in {"allow", "deny"}
  /\ check' = [check EXCEPT ![r] = None]
  /\ UNCHANGED <<stateVars, historyVars>>

--------------------------------------------------------------------------------
(* Confirmations *)

(* The pending map once id was answered. *)
Answered(id) == [pending EXCEPT ![id] = None]

Granted_AlwaysSession(id, scope) == AutoAll

(* The signature an approval remembers: the user approves for this call    *)
(* ("once") or for the whole session ("session", also spelt "always").     *)
Granted(id, scope) == IF scope = "session" THEN AutoAll ELSE Sig[pending[id].call]

Withdrawn_Kept(s, id) == awaiting[s]

Withdrawn_AnyConfirmation(s, id) == None

(* The slot of session s once id was rejected: emptied if it waits on id. *)
Withdrawn(s, id) ==
  IF awaiting[s] # None /\ awaiting[s].perm = id THEN None ELSE awaiting[s]

(* Check returned confirm: the caller registers the call as pending and,   *)
(* not ready, as the session's call to resume, over whatever was there.    *)
CreatePending(r, id) ==
  /\ check[r] # None /\ check[r].at = "confirm"
  /\ issued[id] = None
  /\ LET p == [session |-> check[r].session, call |-> check[r].call]
     IN /\ pending' = [pending EXCEPT ![id] = p]
        /\ issued' = [issued EXCEPT ![id] = p]
        /\ awaiting' = [awaiting EXCEPT ![p.session] =
             [call |-> p.call, perm |-> id, ready |-> FALSE]]
  /\ check' = [check EXCEPT ![r] = None]
  /\ UNCHANGED <<sessionAllow, denyStreak, approved, resumed>>

(* An approval makes the session's slot ready, and makes a new one if the  *)
(* slot waits on another confirmation.                                     *)
Approve(id, scope) ==
  /\ pending[id] # None
  /\ LET p == pending[id]
     IN /\ sessionAllow' = [sessionAllow EXCEPT ![p.session] =
             @ \cup {Granted(id, scope)}]
        /\ denyStreak' = [denyStreak EXCEPT ![p.session] = 0]
        /\ awaiting' = [awaiting EXCEPT ![p.session] =
             IF @ # None /\ @.perm = id THEN [@ EXCEPT !.ready = TRUE]
             ELSE [call |-> p.call, perm |-> id, ready |-> TRUE]]
  /\ pending' = Answered(id)
  /\ approved' = [approved EXCEPT ![id] = scope]
  /\ UNCHANGED <<check, issued, resumed>>

Reject(id) ==
  /\ pending[id] # None
  /\ LET s == pending[id].session
     IN /\ awaiting' = [awaiting EXCEPT ![s] = Withdrawn(s, id)]
        /\ denyStreak' = [denyStreak EXCEPT ![s] = @ + 1]
  /\ pending' = Answered(id)
  /\ UNCHANGED <<sessionAllow, check, historyVars>>

Ready(s) == awaiting[s] # None /\ awaiting[s].ready

TakeReadyResume_Kept(s) ==
  /\ Ready(s)
  /\ resumed' = resumed \cup {awaiting[s].perm}
  /\ UNCHANGED <<stateVars, check, issued, approved>>

(* A continuing run takes the session's approved call, if there is one. *)
TakeReadyResume(s) ==
  /\ Ready(s)
  /\ resumed' = resumed \cup {awaiting[s].perm}
  /\ awaiting' = [awaiting EXCEPT ![s] = None]
  /\ UNCHANGED <<sessionAllow, pending, denyStreak, check, issued, approved>>

--------------------------------------------------------------------------------
GuardNext ==
  \/ \E r \in Runs :
       \/ \E s \in Sessions, c \in Calls : BeginCheck(r, s, c)
       \/ DecideCheck(r)
       \/ IncDeny(r)
       \/ ReturnCheck(r)
       \/ \E id \in PermIds : CreatePending(r, id)
  \/ \E id \in PermIds :
       \/ \E scope \in {"once", "session"} : Approve(id, scope)
       \/ Reject(id)
  \/ \E s \in Sessions : TakeReadyResume(s)

GuardSpec == GuardInit /\ [][GuardNext]_guardVars

--------------------------------------------------------------------------------
(* Every variable holds a value of its type. *)
GuardTypeOK ==
  /\ sessionAllow \in [Sessions -> SUBSET (Sigs \cup {AutoAll})]
  /\ pending \in [PermIds -> Confirms \cup {None}]
  /\ awaiting \in [Sessions -> Resumes \cup {None}]
  /\ denyStreak \in [Sessions -> Nat]
  /\ check \in [Runs -> Checks \cup {None}]
  /\ issued \in [PermIds -> Confirms \cup {None}]
  /\ approved \in [PermIds -> {"none", "once", "session"}]
  /\ resumed \subseteq PermIds

(* The map of pending confirmations holds what was issued, and only what   *)
(* has not been answered.                                                  *)
PendingIsUnanswered ==
  \A id \in PermIds : pending[id] # None =>
    pending[id] = issued[id] /\ approved[id] = "none" /\ id \notin resumed

(* An approval answers a confirmation that was issued, and only an         *)
(* approved one is ever handed to a run.                                   *)
AnswersWereAsked ==
  \A id \in PermIds :
    /\ approved[id] # "none" => issued[id] # None
    /\ id \in resumed => approved[id] # "none"

(* A session never waits on a confirmation nobody can answer, and never    *)
(* resumes a call other than the one that was approved: the slot of a      *)
(* session names a confirmation of that session and its call; it is ready  *)
(* exactly when that confirmation was approved and not yet resumed, and    *)
(* otherwise the confirmation is still pending.                            *)
AwaitingIsAnswerable ==
  \A s \in Sessions : awaiting[s] # None =>
    LET a == awaiting[s] IN
      /\ issued[a.perm] = [session |-> s, call |-> a.call]
      /\ a.perm \notin resumed
      /\ IF a.ready THEN approved[a.perm] # "none" /\ pending[a.perm] = None
         ELSE pending[a.perm] # None

(* A session skips the question only for a signature one of its own        *)
(* confirmations was approved for, or after a session-wide approval of its *)
(* own (permission_guard.go:214-218).                                      *)
AllowedWasApproved ==
  \A s \in Sessions : \A g \in sessionAllow[s] : \E id \in PermIds :
    /\ issued[id] # None /\ issued[id].session = s
    /\ IF g = AutoAll THEN approved[id] = "session"
       ELSE approved[id] = "once" /\ Sig[issued[id].call] = g

(* The inductive invariant of the guard. *)
GuardInv ==
  /\ GuardTypeOK
  /\ PendingIsUnanswered
  /\ AnswersWereAsked
  /\ AwaitingIsAnswerable
  /\ AllowedWasApproved

(* The runs of a session that read the streak and may still add to it. *)
InFlight(s) ==
  {r \in Runs : /\ check[r] # None /\ check[r].session = s
                /\ check[r].at \in {"streakRead", "denyRule"}}

(* Past its limit the breaker counts at most one denial for each other run *)
(* that read the streak before it was reached, and one for each            *)
(* confirmation the user rejects: Check reads the streak and increments it *)
(* under different acquisitions of the lock (130-132, 298-302).            *)
Rejected == {id \in PermIds : issued[id] # None /\ pending[id] = None /\ approved[id] = "none"}

OvershootIsBounded ==
  \A s \in Sessions :
    denyStreak[s] < CircuitLimit + Cardinality(Runs) + Cardinality(Rejected)

(* The inductive form: a run in flight is a denial that may still come. *)
OvershootInv ==
  \A s \in Sessions :
    denyStreak[s] + Cardinality(InFlight(s))
      < CircuitLimit + Cardinality(Runs) + Cardinality(Rejected)

--------------------------------------------------------------------------------
(* The guard implements PermissionLifecycle: the fate of a confirmation    *)
(* read off the guard's maps and the history.                              *)

FateOf(id) ==
  IF issued[id] = None THEN "fresh"
  ELSE IF pending[id] # None THEN "pending"
  ELSE IF id \in resumed THEN "resumed"
  ELSE IF approved[id] = "none" THEN "rejected"
  ELSE IF Ready(issued[id].session) /\ awaiting[issued[id].session].perm = id
    THEN "approved"
  ELSE "lost"

OwnerOf(id) == IF issued[id] = None THEN None ELSE issued[id].session

Lifecycle == INSTANCE PermissionLifecycle WITH
  fate <- [id \in PermIds |-> FateOf(id)],
  owner <- [id \in PermIds |-> OwnerOf(id)]

(* Every step of the guard is a step of a confirmation's life, or none: a  *)
(* confirmation is answered once and resumed at most once, after it was    *)
(* approved.                                                               *)
ImplementsLifecycle == Lifecycle!LifecycleSpec
================================================================================
