-------------------------------- MODULE TaskPlan --------------------------------
(***************************************************************************)
(* The task plan of a session (domain/agent/model/valobj/task_plan.go and  *)
(* domain/agent/service/task/breakdown.go): a request that needs one makes *)
(* a plan of subtasks and caches it for its session; every run of that     *)
(* session then shares the one *TaskPlan and advances it with each tool it *)
(* executes.  The cache has a lock, the plan has none, so every read of a  *)
(* subtask and every write of a word of its status is a step of its own.   *)
(*                                                                         *)
(* One session; plans are named after the run that made them.              *)
(***************************************************************************)
EXTENDS Naturals, Sequences, FiniteSets

CONSTANTS
  Runs,      \* the requests of the session
  Tools,
  Outlines,  \* the plans a breakdown may make: each subtask's expected tools
  MaxTools,  \* bound: tools a run executes
  None

(* A Go string is a pointer and a length, written one after the other: the *)
(* length is named by the shorter or longer words that have it.            *)
Word(text) == [text |-> text, len |-> IF text = "done" THEN 4 ELSE 7]

Words == [text : {"pending", "running", "done"}, len : {4, 7}]

Plans == [expected : Outlines, status : Seq(Words), current : Nat]

ASSUME PlanAssumption ==
  /\ \A o \in Outlines : o \in Seq(SUBSET Tools) /\ Len(o) >= 2
  /\ MaxTools \in Nat
  /\ IsFiniteSet(Runs) /\ None \notin Runs \cup Plans

VARIABLES
  cache,   \* the session's plan
  plan,    \* the plans made
  run,     \* the local state of each run
  worked,  \* history: the tools executed with each plan
  overlap  \* history: whether two runs were ever at work at the same time

planVars == <<cache, plan, run, worked, overlap>>

(* A plan: the expected tools and the status of its subtasks, and          *)
(* CurrentIndex.                                                           *)
Fresh(outline) ==
  [expected |-> outline,
   status |-> [i \in DOMAIN outline |-> Word("pending")],
   current |-> 0]

Labels == {"idle", "lookup", "should", "break", "begin", "ready",
           "running", "expected", "pending", "start", "write", "index", "done"}

(* What a run keeps: where it is; how often it may still ask for a plan    *)
(* and whether its message is worth one; its plan; the tool it executed;   *)
(* the subtask it looks at, what it writes there, which words of it are    *)
(* left to write and whether it also moves CurrentIndex; the tools it      *)
(* executed so far.                                                        *)
Idle == [at |-> "idle", tries |-> 0, worthy |-> FALSE, plan |-> None, tool |-> None,
         i |-> 0, text |-> "done", left |-> {}, moves |-> FALSE, tools |-> 0]

PlanInit ==
  /\ cache = None
  /\ plan = [r \in Runs |-> None]
  /\ run = [r \in Runs |-> Idle]
  /\ worked = [r \in Runs |-> 0]
  /\ overlap = FALSE

At(r, l) == run[r].at = l

Goes(r, l) == run' = [run EXCEPT ![r].at = l]

(* Run r after an operation on its plan. *)
Ready(r) == [Idle EXCEPT !.at = "ready", !.plan = run[r].plan, !.tools = run[r].tools]

(* The plan run r works on. *)
Its(r) == plan[run[r].plan]

Status(r) == Its(r).status[run[r].i]

--------------------------------------------------------------------------------
(* How a run comes to its plan *)

Active == {r \in Runs : run[r].at \notin {"idle", "done"}}

(* A request arrives.  On the complex route the orchestrator asks for a    *)
(* plan before the engine does; a "continue" takes the plan there is.      *)
Start(r, tries, worthy) ==
  /\ At(r, "idle")
  /\ run' = [run EXCEPT ![r].at = "lookup", ![r].tries = tries, ![r].worthy = worthy]
  /\ overlap' = (overlap \/ Active # {})
  /\ UNCHANGED <<cache, plan, worked>>

Continue(r) ==
  /\ At(r, "idle")
  /\ run' = [run EXCEPT ![r].at = IF cache = None THEN "done" ELSE "begin", ![r].plan = cache]
  /\ overlap' = (overlap \/ Active # {})
  /\ UNCHANGED <<cache, plan, worked>>

(* No plan came of it: the next to ask, if there is one, asks again. *)
WithoutPlan(r) ==
  IF run[r].tries > 1
  THEN run' = [run EXCEPT ![r].at = "lookup", ![r].tries = 1]
  ELSE Goes(r, "done")

(* Breakdown: the cached plan, whatever request it was made for. *)
Lookup(r) ==
  /\ At(r, "lookup")
  /\ IF cache # None THEN run' = [run EXCEPT ![r].at = "begin", ![r].plan = cache]
     ELSE Goes(r, "should")
  /\ UNCHANGED <<cache, plan, worked, overlap>>

(* ShouldBreakdown looks at the cache again: a plan made meanwhile by      *)
(* another run is a reason to make none.                                   *)
Should(r) ==
  /\ At(r, "should")
  /\ IF cache = None /\ run[r].worthy THEN Goes(r, "break") ELSE WithoutPlan(r)
  /\ UNCHANGED <<cache, plan, worked, overlap>>

Break_Uncached(r, outline) ==
  /\ At(r, "break")
  /\ plan' = [plan EXCEPT ![r] = Fresh(outline)]
  /\ run' = [run EXCEPT ![r].at = "begin", ![r].plan = r]
  /\ UNCHANGED <<cache, worked, overlap>>

(* The rules or the model make a plan, which takes the place of one made   *)
(* meanwhile, or neither does.                                             *)
Break(r, outline) ==
  /\ At(r, "break")
  /\ plan' = [plan EXCEPT ![r] = Fresh(outline)]
  /\ cache' = r
  /\ run' = [run EXCEPT ![r].at = "begin", ![r].plan = r]
  /\ UNCHANGED <<worked, overlap>>

BreakFails(r) ==
  /\ At(r, "break")
  /\ WithoutPlan(r)
  /\ UNCHANGED <<cache, plan, worked, overlap>>

Unfinished(p) ==
  \E i \in DOMAIN plan[p].status : plan[p].status[i] \in {Word("pending"), Word("running")}

Begin_Always(r) ==
  /\ At(r, "begin")
  /\ run' = [run EXCEPT ![r] =
       IF Unfinished(run[r].plan) THEN [Ready(r) EXCEPT !.at = "start", !.i = 1]
       ELSE Ready(r)]
  /\ UNCHANGED <<cache, plan, worked, overlap>>

(* The engine starts a subtask unless CurrentIndex says it has been done. *)
Begin(r) ==
  /\ At(r, "begin")
  /\ run' = [run EXCEPT ![r] =
       IF Unfinished(run[r].plan) /\ Its(r).current = 0
       THEN [Ready(r) EXCEPT !.at = "start", !.i = 1]
       ELSE Ready(r)]
  /\ UNCHANGED <<cache, plan, worked, overlap>>

--------------------------------------------------------------------------------
(* How a run advances its plan *)

(* A tool was executed, whatever its result: AdvanceWithTool begins. *)
Tool(r, t) ==
  /\ At(r, "ready") /\ run[r].tools < MaxTools
  /\ run' = [run EXCEPT ![r].at = "running", ![r].i = 1, ![r].tool = t,
                        ![r].tools = @ + 1]
  /\ worked' = [worked EXCEPT ![run[r].plan] = @ + 1]
  /\ UNCHANGED <<cache, plan, overlap>>

End(r) ==
  /\ At(r, "ready")
  /\ run' = [run EXCEPT ![r] = [Idle EXCEPT !.at = "done"]]
  /\ UNCHANGED <<cache, plan, worked, overlap>>

(* AdvanceWithTool looks for the running subtask, then for a pending one   *)
(* that expects the tool, then for any pending one; StartNext looks for a  *)
(* pending one.                                                            *)
Hit(r) ==
  \/ At(r, "running") /\ Status(r) = Word("running")
  \/ At(r, "expected") /\ Status(r) = Word("pending") /\ run[r].tool \in Its(r).expected[run[r].i]
  \/ run[r].at \in {"pending", "start"} /\ Status(r) = Word("pending")

(* The search that follows one which found nothing. *)
NextSearch == [running |-> "expected", expected |-> "pending"]

Searching(r) == run[r].at \in {"running", "expected", "pending", "start"}

Found(r) ==
  [run[r] EXCEPT !.at = "write", !.left = {"text", "len"},
                 !.text = IF At(r, "start") THEN "running" ELSE "done",
                 !.moves = ~At(r, "running")]

(* One subtask is looked at. *)
Look(r) ==
  /\ Searching(r)
  /\ run' = [run EXCEPT ![r] =
       IF Hit(r) THEN Found(r)
       ELSE IF run[r].i < Len(Its(r).status) THEN [run[r] EXCEPT !.i = @ + 1]
       ELSE IF run[r].at \in {"pending", "start"} THEN Ready(r)
       ELSE [run[r] EXCEPT !.at = NextSearch[run[r].at], !.i = 1]]
  /\ UNCHANGED <<cache, plan, worked, overlap>>

AfterWrite_FallsThrough(r) ==
  IF run[r].text = "running" THEN Ready(r)
  ELSE [Ready(r) EXCEPT !.at = IF run[r].moves THEN "start" ELSE "expected", !.i = 1,
                        !.tool = run[r].tool]

(* A subtask that was completed is followed by StartNext. *)
AfterWrite(r) ==
  IF run[r].text = "running" THEN Ready(r) ELSE [Ready(r) EXCEPT !.at = "start", !.i = 1]

(* One word of the status is written. *)
Write(r, w) ==
  /\ At(r, "write") /\ w \in run[r].left
  /\ plan' = [plan EXCEPT ![run[r].plan].status[run[r].i][w] = Word(run[r].text)[w]]
  /\ run' = [run EXCEPT ![r] =
       IF run[r].left # {w} THEN [run[r] EXCEPT !.left = @ \ {w}]
       ELSE IF run[r].moves THEN [@ EXCEPT !.at = "index", !.left = {}]
       ELSE AfterWrite(r)]
  /\ UNCHANGED <<cache, worked, overlap>>

Index(r) ==
  /\ At(r, "index")
  /\ plan' = [plan EXCEPT ![run[r].plan].current = run[r].i]
  /\ run' = [run EXCEPT ![r] = AfterWrite(r)]
  /\ UNCHANGED <<cache, worked, overlap>>

RunStep(r) ==
  \/ \E tries \in {1, 2}, worthy \in BOOLEAN : Start(r, tries, worthy)
  \/ Continue(r)
  \/ Lookup(r) \/ Should(r) \/ (\E o \in Outlines : Break(r, o)) \/ BreakFails(r) \/ Begin(r)
  \/ (\E t \in Tools : Tool(r, t)) \/ End(r)
  \/ Look(r) \/ (\E w \in {"text", "len"} : Write(r, w)) \/ Index(r)

PlanNext == \E r \in Runs : RunStep(r)

PlanSpec == PlanInit /\ [][PlanNext]_planVars

--------------------------------------------------------------------------------
(* Every variable holds a value of its type. *)
PlanTypeOK ==
  /\ cache \in Runs \cup {None}
  /\ \A p \in Runs : plan[p] # None =>
       /\ plan[p].expected \in Outlines
       /\ plan[p].status \in [DOMAIN plan[p].expected -> Words]
       /\ plan[p].current \in 0 .. Len(plan[p].expected)
  /\ \A r \in Runs :
       /\ run[r].at \in Labels
       /\ run[r].at \notin {"idle", "lookup", "should", "break", "done"} =>
            run[r].plan \in Runs /\ plan[run[r].plan] # None
       /\ run[r].left \subseteq {"text", "len"}
  /\ worked \in [Runs -> Nat]
  /\ overlap \in BOOLEAN

(* The subtasks that are neither pending nor running. *)
Finished(p) ==
  {i \in DOMAIN plan[p].status : plan[p].status[i] \notin {Word("pending"), Word("running")}}

(* However runs race on a plan, it never claims more than was done: each   *)
(* subtask it counts as finished has a tool of its own that was executed.  *)
DoneIsEarned ==
  /\ PlanTypeOK
  /\ \A p \in Runs : plan[p] # None => Cardinality(Finished(p)) <= worked[p]

(* Runs that follow one another share the plan of their session. *)
SerialRunsShareThePlan ==
  ~overlap => \A r \in Active : run[r].plan \in {None, cache}

(* Between the operations of runs that follow one another, a plan that has *)
(* been begun is done up to as many subtasks as tools were executed with   *)
(* it, the next one is running and the others are pending.                 *)
Settled(p) ==
  LET n == Len(plan[p].status)
      k == IF worked[p] < n THEN worked[p] ELSE n
  IN  \A i \in 1 .. n : plan[p].status[i] =
        Word(IF i <= k THEN "done" ELSE IF i = k + 1 THEN "running" ELSE "pending")

SerialRunsKeepOrder ==
  ~overlap =>
    \A p \in Runs :
      plan[p] # None /\ (\A r \in Active : At(r, "ready") \/ run[r].plan = None) => Settled(p)
================================================================================
