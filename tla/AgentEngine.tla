------------------------------ MODULE AgentEngine ------------------------------
(***************************************************************************)
(* The ReAct loop of the agent engine (domain/agent/service/engine/        *)
(* agent_engine.go, RunWithOptions): one goroutine per chat request, each  *)
(* resuming the call the user approved, then asking the model for tool     *)
(* calls round after round, passing each call by the permission guard and  *)
(* executing it.  Runs of one session are not serialised by anything but   *)
(* the guard's lock.                                                       *)
(*                                                                         *)
(* The guard's state and operations are those of PermissionGuard.  Left    *)
(* out here: prompts, events, milestones, the task plan and what is saved. *)
(***************************************************************************)
EXTENDS PermissionGuard, Sequences

CONSTANTS
  Requests,              \* kind and AutoApprove of the requests clients send
  Replies,               \* non-empty sequences of calls the model may reply with
  MaxRounds,             \* loopCfg.MaxRounds, which AgentEntity.MaxSteps sets
  MaxToolCallsPerRound,
  MaxTotalToolCalls,
  ChatToolCalls,         \* the lower total of a chat intent
  MaxAiRetries,
  DiminishingReturnsThreshold

ASSUME EngineAssumption ==
  /\ Requests \subseteq {"chat", "agent", "continue"} \X BOOLEAN
  /\ Replies \subseteq Seq(Calls) \ {<<>>}
  /\ {MaxRounds, MaxToolCallsPerRound, MaxTotalToolCalls, ChatToolCalls,
      DiminishingReturnsThreshold} \subseteq Nat \ {0}
  /\ MaxAiRetries \in Nat

VARIABLES
  run,       \* the local state of each goroutine's RunWithOptions
  executed,  \* history: the calls each run executed, in order
  replied    \* history: the replies whose calls each run took up, in order

engineVars == <<guardVars, run, executed, replied>>

Kinds == {"chat", "agent", "continue"}
Outcomes == {"answer", "llm", "loop", "permission", "cancel"}

(* How a call came to be executed: no rule objected or it was remembered,  *)
(* the request approved everything, Check asked for a confirmation, or a   *)
(* "continue" took it from the session's slot.                             *)
Vias == {"allowed", "auto", "confirm", "resume"}

Labels == {"idle", "resume", "resumeExec", "round", "llm", "call", "check", "exec", "done"}

Executions == [call : Calls, via : Vias, perm : PermIds \cup {None}, step : Nat]

(* What a run keeps in local variables: where it is, its request, the      *)
(* round and the attempt at the model, the calls of the round still to do, *)
(* totalToolCalls, sameSigCount and lastToolSig, how the call at hand came *)
(* to be executed, needBreakForPerm, and how the run ended.                *)
Runnings ==
  [at : Labels, session : Sessions \cup {None}, kind : Kinds, auto : BOOLEAN,
   step : Nat, attempt : Nat, calls : Seq(Calls), total : Nat,
   sameSig : Nat, lastSig : Seq(Calls), via : Vias, perm : PermIds \cup {None},
   asked : BOOLEAN, outcome : Outcomes \cup {None}]

Fresh(s, kind, auto) ==
  [at |-> IF kind = "continue" THEN "resume" ELSE "round",
   session |-> s, kind |-> kind, auto |-> auto, step |-> 0, attempt |-> 0,
   calls |-> <<>>, total |-> 0, sameSig |-> 0, lastSig |-> <<>>,
   via |-> "allowed", perm |-> None, asked |-> FALSE, outcome |-> None]

Idle == [Fresh(None, "agent", FALSE) EXCEPT !.at = "idle"]

(* loopCfg.MaxTotalToolCalls of a request (LoopConfigFromIntent). *)
TotalBudget(kind) ==
  IF kind = "chat" /\ ChatToolCalls < MaxTotalToolCalls THEN ChatToolCalls
  ELSE MaxTotalToolCalls

EngineInit ==
  /\ GuardInit
  /\ run = [r \in Runs |-> Idle]
  /\ executed = [r \in Runs |-> <<>>]
  /\ replied = [r \in Runs |-> <<>>]

At(r, l) == run[r].at = l

(* The local state of r's goroutine becomes local. *)
Becomes(r, local) == run' = [run EXCEPT ![r] = local]

Finish(r, outcome) ==
  Becomes(r, [run[r] EXCEPT !.at = "done", !.outcome = outcome])

(* The call is looked up and executed (executeTool); a tool that fails or  *)
(* does not exist is a result like another.                                *)
Execute(r, call, via, perm) ==
  executed' = [executed EXCEPT ![r] =
    Append(@, [call |-> call, via |-> via, perm |-> perm, step |-> run[r].step])]

--------------------------------------------------------------------------------
(* A request arrives (122, 140-143, 278-287). *)
Start(r, s, kind, auto) ==
  /\ At(r, "idle")
  /\ Becomes(r, Fresh(s, kind, auto))
  /\ UNCHANGED <<guardVars, executed, replied>>

(* A continuing run takes the approved call, or finds none. *)
Resume(r) ==
  /\ At(r, "resume")
  /\ LET s == run[r].session IN
       \/ /\ Ready(s)
          /\ TakeReadyResume(s)
          /\ Becomes(r, [run[r] EXCEPT !.at = "resumeExec",
                    !.calls = <<awaiting[s].call>>,
                    !.perm = awaiting[s].perm])
       \/ /\ ~Ready(s)
          /\ Becomes(r, [run[r] EXCEPT !.at = "round"])
          /\ UNCHANGED guardVars
  /\ UNCHANGED <<executed, replied>>

(* The approved call runs without another Check and counts as a call. *)
ResumeExec(r) ==
  /\ At(r, "resumeExec")
  /\ Execute(r, Head(run[r].calls), "resume", run[r].perm)
  /\ Becomes(r, [run[r] EXCEPT !.at = "round", !.calls = <<>>, !.perm = None,
            !.total = run[r].total + 1])
  /\ UNCHANGED <<guardVars, replied>>

--------------------------------------------------------------------------------
(* One round: the context is looked at, then the model asked. *)

Cancel_ClearsSlot(r) ==
  /\ At(r, "round")
  /\ Finish(r, "cancel")
  /\ awaiting' = [awaiting EXCEPT ![run[r].session] = None]
  /\ UNCHANGED <<sessionAllow, pending, denyStreak, check, historyVars, executed, replied>>

(* The request's deadline has passed. *)
Cancel(r) ==
  /\ At(r, "round")
  /\ Finish(r, "cancel")
  /\ UNCHANGED <<guardVars, executed, replied>>

RoundBegins(r) ==
  /\ At(r, "round")
  /\ Becomes(r, [run[r] EXCEPT !.at = "llm", !.step = run[r].step + 1,
            !.attempt = 0])
  /\ UNCHANGED <<guardVars, executed, replied>>

LLMFails_RetriesForever(r) ==
  /\ At(r, "llm")
  /\ Becomes(r, [run[r] EXCEPT !.attempt =
            IF run[r].attempt < MaxAiRetries THEN run[r].attempt + 1 ELSE 0])
  /\ UNCHANGED <<guardVars, executed, replied>>

(* The model fails; after MaxAiRetries more attempts the run gives up. *)
LLMFails(r) ==
  /\ At(r, "llm")
  /\ IF run[r].attempt < MaxAiRetries
     THEN Becomes(r, [run[r] EXCEPT !.at = "llm", !.attempt = run[r].attempt + 1])
     ELSE Finish(r, "llm")
  /\ UNCHANGED <<guardVars, executed, replied>>

LLMAnswers(r) ==
  /\ At(r, "llm")
  /\ Finish(r, "answer")
  /\ UNCHANGED <<guardVars, executed, replied>>

RepeatCount_NeverCounts(r, reply) == 0

(* sameSigCount once the model replied: rounds in a row that repeat the    *)
(* calls of the round before.                                              *)
RepeatCount(r, reply) == IF reply = run[r].lastSig THEN run[r].sameSig + 1 ELSE 0

(* The calls of a reply the round keeps. *)
Kept(reply) == 
  IF Len(reply) <= MaxToolCallsPerRound THEN reply
  ELSE SubSeq(reply, 1, MaxToolCallsPerRound)

(* The model replies with tool calls: a reply repeated too often ends the  *)
(* run, and otherwise the first MaxToolCallsPerRound calls are kept.       *)
LLMCallsTools(r, reply) ==
  /\ At(r, "llm")
  /\ LET n == RepeatCount(r, reply) IN
       IF n >= DiminishingReturnsThreshold
       THEN Finish(r, "loop") /\ UNCHANGED replied
       ELSE /\ replied' = [replied EXCEPT ![r] = Append(@, reply)]
            /\ Becomes(r, [run[r] EXCEPT !.at = "call", !.calls = Kept(reply),
                   !.sameSig = n, !.lastSig = reply])
  /\ UNCHANGED <<guardVars, executed>>

--------------------------------------------------------------------------------
(* The calls of a round, one after the other. *)

RoundIsOver_NoTotal(r) == run[r].calls = <<>>

RoundIsOver(r) ==
  run[r].calls = <<>> \/ run[r].total >= TotalBudget(run[r].kind)

(* The next call is counted and, unless the request approves everything,   *)
(* passed by the guard.                                                    *)
NextCall(r) ==
  /\ At(r, "call") /\ ~RoundIsOver(r)
  /\ IF run[r].auto
     THEN /\ Becomes(r, [run[r] EXCEPT !.at = "exec", !.total = run[r].total + 1,
                    !.via = "auto", !.perm = None])
          /\ UNCHANGED guardVars
     ELSE /\ BeginCheck(r, run[r].session, Head(run[r].calls))
          /\ Becomes(r, [run[r] EXCEPT !.at = "check", !.total = run[r].total + 1])
  /\ UNCHANGED <<executed, replied>>

(* Inside Check. *)
Checking(r) ==
  /\ At(r, "check")
  /\ DecideCheck(r) \/ IncDeny(r)
  /\ UNCHANGED <<run, executed, replied>>

Denied_Executed(r) == Becomes(r, [run[r] EXCEPT !.at = "exec", !.via = "allowed",
                             !.perm = None])

(* A denied call is skipped. *)
Denied(r) == Becomes(r, [run[r] EXCEPT !.at = "call", !.calls = Tail(run[r].calls)])

Verdict(r) ==
  /\ At(r, "check")
  /\ ReturnCheck(r)
  /\ IF check[r].at = "deny" THEN Denied(r)
     ELSE Becomes(r, [run[r] EXCEPT !.at = "exec", !.via = "allowed",
                 !.perm = None])
  /\ UNCHANGED <<executed, replied>>

(* Check asks for a confirmation: it is registered, the round is marked as *)
(* the last, and the break at 472 leaves the switch alone: the call is     *)
(* executed next, like an allowed one.                                     *)
Confirm(r, id) ==
  /\ At(r, "check")
  /\ CreatePending(r, id)
  /\ Becomes(r, [run[r] EXCEPT !.at = "exec", !.via = "confirm", !.perm = id,
            !.asked = TRUE])
  /\ UNCHANGED <<executed, replied>>

Exec(r) ==
  /\ At(r, "exec")
  /\ Execute(r, Head(run[r].calls), run[r].via, run[r].perm)
  /\ Becomes(r, [run[r] EXCEPT !.at = "call", !.calls = Tail(run[r].calls),
            !.perm = None])
  /\ UNCHANGED <<guardVars, replied>>

LastRound(r) == run[r].step >= MaxRounds

EndRound_IgnoresAsking(r) ==
  /\ At(r, "call") /\ RoundIsOver(r)
  /\ IF LastRound(r) THEN Finish(r, "loop")
     ELSE Becomes(r, [run[r] EXCEPT !.at = "round", !.calls = <<>>])
  /\ UNCHANGED <<guardVars, executed, replied>>

(* The round is over: the run ends if it asked the user or spent its       *)
(* rounds, and otherwise goes on.                                          *)
EndRound(r) ==
  /\ At(r, "call") /\ RoundIsOver(r)
  /\ IF run[r].asked THEN Finish(r, "permission")
     ELSE IF LastRound(r) THEN Finish(r, "loop")
     ELSE Becomes(r, [run[r] EXCEPT !.at = "round", !.calls = <<>>])
  /\ UNCHANGED <<guardVars, executed, replied>>

--------------------------------------------------------------------------------
(* The user answers confirmations whenever she likes. *)
UserAnswers ==
  /\ \E id \in PermIds :
       \/ \E scope \in {"once", "session"} : Approve(id, scope)
       \/ Reject(id)
  /\ UNCHANGED <<run, executed, replied>>

RunStep(r) ==
  \/ Resume(r) \/ ResumeExec(r)
  \/ Cancel(r) \/ RoundBegins(r)
  \/ LLMFails(r) \/ LLMAnswers(r) \/ \E reply \in Replies : LLMCallsTools(r, reply)
  \/ NextCall(r) \/ Checking(r) \/ Verdict(r) \/ \E id \in PermIds : Confirm(r, id)
  \/ Exec(r) \/ EndRound(r)

EngineNext ==
  \/ \E r \in Runs :
       \/ \E s \in Sessions, q \in Requests : Start(r, s, q[1], q[2])
       \/ RunStep(r)
  \/ UserAnswers

EngineSpec == EngineInit /\ [][EngineNext]_engineVars

(* Where r waits for something that has no deadline: a tool, which may     *)
(* never return (a write to the pipe of an MCP server, a command whose     *)
(* child keeps its output open), or the database, which takes milestones   *)
(* at the start, when the model failed or answered, and around a tool.     *)
Outside(r) ==
  run[r].at \in {"resume", "resumeExec", "llm", "exec"} \/ (At(r, "round") /\ run[r].step = 0)

OwnStep(r) == ~Outside(r) /\ RunStep(r)

(* The scheduler runs every goroutine that does not wait.  Nothing is      *)
(* assumed of tools and database, of requests and of the user's answers.   *)
FairEngineSpec == EngineSpec /\ \A r \in Runs : WF_engineVars(OwnStep(r))

--------------------------------------------------------------------------------
RunTypes ==
  /\ run \in [Runs -> Runnings]
  /\ executed \in [Runs -> Seq(Executions)]
  /\ replied \in [Runs -> Seq(Replies)]

(* Every variable holds a value of its type. *)
EngineTypeOK == GuardTypeOK /\ RunTypes

(* The engine reaches the guard through the guard's operations only, and   *)
(* calls them in the order PermissionGuard describes: what is proved of    *)
(* the guard holds of it inside the engine.                                *)
EngineUsesGuard == GuardSpec

(* The calls run r executed in its round k; the resumed one is in round 0. *)
ExecutedIn(r, k) == {i \in DOMAIN executed[r] : executed[r][i].step = k}

(* A run takes up at most MaxRounds replies, executes at most              *)
(* MaxTotalToolCalls calls, the resumed one included, and at most          *)
(* MaxToolCallsPerRound of one round (loop_config.go:13-15).               *)
WorkIsBounded ==
  \A r \in Runs :
    /\ Len(replied[r]) <= MaxRounds
    /\ Len(executed[r]) <= TotalBudget(run[r].kind)
    /\ \A k \in 0 .. MaxRounds : Cardinality(ExecutedIn(r, k)) <= MaxToolCallsPerRound

(* A run never takes up the same reply more than                           *)
(* DiminishingReturnsThreshold times in a row.                             *)
RepeatsAreCut ==
  \A r \in Runs : \A i \in DOMAIN replied[r] :
    i > DiminishingReturnsThreshold =>
      \E j \in i - DiminishingReturnsThreshold .. i - 1 : replied[r][j] # replied[r][i]

(* However many "continue" requests race, an approved call is resumed by   *)
(* one of them, once, in the session it was asked in, and it is the call   *)
(* that was approved.                                                      *)
ResumedOnceAsApproved ==
  \A r \in Runs : \A i \in DOMAIN executed[r] :
    executed[r][i].via = "resume" =>
      LET e == executed[r][i] IN
        /\ approved[e.perm] # "none"
        /\ issued[e.perm] = [session |-> run[r].session, call |-> e.call]
        /\ \A q \in Runs : \A j \in DOMAIN executed[q] :
             executed[q][j].via = "resume" /\ executed[q][j].perm = e.perm => q = r /\ j = i

Covered(s, c) == RuleVerdict(c) = "allow" \/ Remembered(s, c)

(* What must hold of call c if run r executes it, by "via", unasked. *)
Unasked(r, via, c) ==
  /\ via = "allowed" => ~run[r].auto /\ Covered(run[r].session, c)
  /\ via = "auto" => run[r].auto

(* A call executed without a question in a request that does not approve   *)
(* everything is one no rule objects to, or one its session remembers an   *)
(* approval for, whatever other runs of the session are told meanwhile.    *)
UnaskedWasCovered ==
  \A r \in Runs : \A i \in DOMAIN executed[r] :
    Unasked(r, executed[r][i].via, executed[r][i].call)

(* A run that asked the user asks the model nothing more, and says so in   *)
(* its result.                                                             *)
StopsAfterAsking ==
  \A r \in Runs : run[r].asked =>
    /\ run[r].at \in {"call", "check", "exec", "done"}
    /\ run[r].at = "done" => run[r].outcome = "permission"

(* Where a run is and what its goroutine holds of the guard agree: it is in *)
(* Check for the call at hand, and an answer of Check is a covered call.    *)
Agrees(r) ==
  IF At(r, "check")
  THEN /\ check[r] # None /\ ~run[r].auto
       /\ check[r].session = run[r].session
       /\ check[r].call = Head(run[r].calls)
       /\ check[r].at = "allow" => Covered(check[r].session, check[r].call)
  ELSE check[r] = None

CheckAgrees == \A r \in Runs : Agrees(r)

(* What a run holds at each point of the loop. *)
Consistent(r) ==
  /\ ~At(r, "idle") => run[r].session \in Sessions
  /\ run[r].at \in {"idle", "resume", "resumeExec"} =>
       /\ executed[r] = <<>> /\ replied[r] = <<>>
       /\ run[r].total = 0 /\ run[r].step = 0
  /\ run[r].at \in {"resumeExec", "check", "exec"} => run[r].calls # <<>>
  /\ At(r, "exec") => Unasked(r, run[r].via, Head(run[r].calls))

RunsAreConsistent == \A r \in Runs : Consistent(r)

(* The counters bound the histories: what is still to come is accounted    *)
(* for before it is done.                                                  *)
BudgetKept(r) ==
  /\ run[r].total <= TotalBudget(run[r].kind)
  /\ Len(executed[r]) <= run[r].total
  /\ run[r].at \in {"check", "exec"} => Len(executed[r]) < run[r].total
  /\ run[r].step <= MaxRounds
  /\ At(r, "round") => run[r].step < MaxRounds
  /\ Len(replied[r]) <= run[r].step
  /\ At(r, "llm") => Len(replied[r]) < run[r].step

StepsBehind(r) ==
  \A i \in DOMAIN executed[r] :
    /\ executed[r][i].step <= run[r].step
    /\ At(r, "llm") => executed[r][i].step < run[r].step

RoundKept(r) ==
  \A k \in 0 .. MaxRounds :
    /\ Cardinality(ExecutedIn(r, k)) <= MaxToolCallsPerRound
    /\ k = run[r].step /\ run[r].at \in {"call", "check", "exec"} =>
         Cardinality(ExecutedIn(r, k)) + Len(run[r].calls) <= MaxToolCallsPerRound

CountersCover == \A r \in Runs : BudgetKept(r) /\ StepsBehind(r) /\ RoundKept(r)

(* The inductive invariant of the engine. *)
EngineInv ==
  /\ GuardInv
  /\ RunTypes
  /\ CheckAgrees
  /\ RunsAreConsistent
  /\ CountersCover
  /\ UnaskedWasCovered
  /\ StopsAfterAsking

(* Every run ends, unless it waits for a tool or the database for ever:    *)
(* no sequence of failures, repeats, denials and resumed calls keeps it in *)
(* the loop, and it stands still nowhere else.                             *)
EveryRunEnds ==
  \A r \in Runs :
    /\ <>[][FALSE]_(run[r])
    /\ <>[](run[r].at \in {"idle", "done"} \/ Outside(r))

(* A call that needs a confirmation is not executed before it is approved: *)
(* interview-guide.md:28, the confirmation interrupts the run and waits    *)
(* for the user; eval_agent_smoke.md:21, the file is written after the     *)
(* approval.                                                               *)
NothingBeforeApproval ==
  \A r \in Runs : \A i \in DOMAIN executed[r] :
    executed[r][i].perm # None => approved[executed[r][i].perm] # "none"
================================================================================
