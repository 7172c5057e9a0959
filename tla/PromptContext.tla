------------------------------- MODULE PromptContext -------------------------------
(***************************************************************************)
(* What a run notes and what it is shown: the milestones of its session    *)
(* (MilestoneTracker), the task of the session (TaskProvider), the results *)
(* of its tools (ToolResultProvider) and what the user corrected, ever     *)
(* (core memory).  BuildPromptContext asks the providers one after the     *)
(* other; all of them are shared by the runs of a session, and each lock   *)
(* is held for one step only.                                              *)
(*                                                                         *)
(* The steps that a run still has to do are a set of records, each with    *)
(* its place in the code; a run does them by their places, one by one,     *)
(* between those of others.                                                *)
(***************************************************************************)
EXTENDS Naturals, Sequences, FiniteSets, SequencesExt

CONSTANTS
  NoteSessions, Owner,   \* the user of each session
  NoteRuns,
  MaxMilestones,   \* milestones in the tracker (100)
  MaxShown,        \* and in a prompt (8)
  MaxMemories,     \* corrections in a prompt (10)
  MaxKeep,         \* tool results (10)
  MaxCalls,        \* bound: calls of tools in all runs
  Nobody

ASSUME PromptAssumption ==
  /\ Owner \in [NoteSessions -> Range(Owner)]
  /\ {MaxMilestones, MaxShown, MaxMemories, MaxKeep} \subseteq Nat \ {0}
  /\ MaxShown <= MaxMilestones /\ MaxCalls \in Nat
  /\ Nobody \notin NoteSessions \cup NoteRuns

VARIABLES
  storage,       \* where the repositories are: "mysql" or "memory"
  milestones,    \* the tracker: whose milestones each session has, and
                 \* whether they tell the text that the run began with
  stored,        \* whether the repository has milestones of the session
  memories,      \* the corrections in the repository, of all users
  tasks,         \* the task of each session
  toolResults,   \* the last results of each session
  runs,          \* each run: its session, what it has to do, its prompt, and
                 \* how many corrections were in the repository before it
  met,           \* history: runs that were under way together in a session
  calls          \* history: the calls of tools

notes == <<milestones, stored, memories, tasks, toolResults>>
promptVars == <<storage, notes, runs, met, calls>>

NoPrompt == [task |-> Nobody, results |-> <<>>, memories |-> {}, milestones |-> <<>>]
NoRun == [session |-> Nobody, todo |-> {}, over |-> FALSE, shown |-> NoPrompt, since |-> 0]

PromptInit ==
  /\ storage \in {"mysql", "memory"}
  /\ milestones = [s \in NoteSessions |-> <<>>]
  /\ stored = [s \in NoteSessions |-> FALSE]
  /\ memories = <<>>
  /\ tasks = [s \in NoteSessions |-> Nobody]
  /\ toolResults = [s \in NoteSessions |-> <<>>]
  /\ runs = [r \in NoteRuns |-> NoRun]
  /\ met = {} /\ calls = 0

LastOf(seq, n) == SubSeq(seq, IF Len(seq) > n THEN Len(seq) - n + 1 ELSE 1, Len(seq))

--------------------------------------------------------------------------------
(* What a run has to do.                                                   *)

Step(place, does, kind) == [place |-> place, does |-> does, kind |-> kind]

(* AddMilestone: into the tracker under its lock, and then saved.          *)
Noting(place, kind) == {Step(place, "note", kind), Step(place + 1, "save", kind)}

(* DetectAndRecordWithUser remembers what a user corrects.                 *)
Detecting(place, kind) ==
  Noting(place, kind)
    \cup (IF kind = "correction" THEN {Step(place + 2, "remember", kind)} ELSE {})

(* Before the first round: the plan, if there is one, the text of the user, *)
(* the task, the prompt.                                                   *)
Planning == Noting(1, "plan")

Preparing(kind) ==
  Detecting(3, kind) \cup Noting(6, "start")
    \cup {Step(8, "set", "task"),
          Step(9, "provide", "task"), Step(10, "provide", "results"),
          Step(11, "provide", "memories"), Step(12, "provide", "milestones")}

(* A continued run may do an approved call before it asks the model.       *)
Resuming == {Step(13, "push", "resumed")}

(* A call of a tool; the results of tools have no user and are never       *)
(* remembered, their errors included.                                      *)
Calling == Noting(1, "called") \cup {Step(3, "push", "called")} \cup Detecting(4, "result")

Ending == Noting(1, "end")

--------------------------------------------------------------------------------

Session(r) == runs[r].session
(* Step x of the run is its next one, and is one of that kind.             *)
Due(r, x, does) ==
  x \in runs[r].todo /\ x.does = does /\ \A y \in runs[r].todo : x.place <= y.place
Shows(r, x, prompt) == runs' = [runs EXCEPT ![r].todo = @ \ {x}, ![r].shown = prompt]
Done(r, x) == Shows(r, x, runs[r].shown)
(* Runs of the session which have steps to do before or between rounds.     *)
UnderWay(s) == {q \in NoteRuns : Session(q) = s /\ runs[q].todo # {}}

(* What continues says a text of its own, which corrects nothing.          *)
BeginRun(r, s, kind) ==
  /\ Session(r) = Nobody
  /\ \E planned \in {{}, Planning}, resumed \in {{}, Resuming} :
       /\ resumed # {} => kind = "input"
       /\ runs' = [runs EXCEPT ![r] = [NoRun EXCEPT !.session = s,
                    !.todo = planned \cup Preparing(kind) \cup resumed, !.since = Len(memories)]]
  /\ met' = met \cup {{r, q} : q \in UnderWay(s)}
  /\ UNCHANGED <<storage, notes, calls>>

Capped_First(seq) == SubSeq(seq, 1, IF Len(seq) > MaxMilestones THEN MaxMilestones ELSE Len(seq))

Capped(seq) == LastOf(seq, MaxMilestones)

NoteMilestone(r) ==
  \E x \in runs[r].todo :
    LET s == Session(r)
        new == [run |-> r, start |-> x.kind = "start"]
    IN /\ Due(r, x, "note") /\ Done(r, x)
       /\ milestones' = [milestones EXCEPT ![s] = Capped(Append(@, new))]
       /\ UNCHANGED <<storage, stored, memories, tasks, toolResults, met, calls>>

(* Saving fails in mysql, for one when a character is cut in two.          *)
SaveMilestone(r) ==
  /\ \E x \in runs[r].todo : Due(r, x, "save") /\ Done(r, x)
  /\ \/ stored' = [stored EXCEPT ![Session(r)] = TRUE]
     \/ storage = "mysql" /\ UNCHANGED stored
  /\ UNCHANGED <<storage, milestones, memories, tasks, toolResults, met, calls>>

RememberCorrection(r) ==
  /\ \E x \in runs[r].todo : Due(r, x, "remember") /\ Done(r, x)
  /\ \/ memories' = Append(memories, [user |-> Owner[Session(r)], run |-> r])
     \/ storage = "mysql" /\ UNCHANGED memories
  /\ UNCHANGED <<storage, milestones, stored, tasks, toolResults, met, calls>>

SetTask_Once(r) ==
  /\ \E x \in runs[r].todo : Due(r, x, "set") /\ Done(r, x)
  /\ tasks' = [tasks EXCEPT ![Session(r)] = IF @ = Nobody THEN r ELSE @]
  /\ UNCHANGED <<storage, milestones, stored, memories, toolResults, met, calls>>

SetTask(r) ==
  /\ \E x \in runs[r].todo : Due(r, x, "set") /\ Done(r, x)
  /\ tasks' = [tasks EXCEPT ![Session(r)] = r]
  /\ UNCHANGED <<storage, milestones, stored, memories, toolResults, met, calls>>

Push(r) ==
  /\ \E x \in runs[r].todo : Due(r, x, "push") /\ Done(r, x)
  /\ toolResults' = [toolResults EXCEPT ![Session(r)] = LastOf(Append(@, r), MaxKeep)]
  /\ UNCHANGED <<storage, milestones, stored, memories, tasks, met, calls>>

(* GetMilestones: what the tracker has of the session, else what was saved *)
(* (of earlier processes).  A run always has notes in the tracker when it  *)
(* asks, so nothing is ever loaded: PromptIsCurrent fails if it is.        *)
Saved(s) == IF stored[s] THEN <<[run |-> Nobody, start |-> FALSE]>> ELSE <<>>
GetMilestones(s) == IF milestones[s] # <<>> THEN milestones[s] ELSE Saved(s)

(* ListByUser: the latest corrections of the user, in whichever session.   *)
LatestOf(mine) ==
  {memories[i] : i \in {j \in mine : Cardinality({k \in mine : k > j}) < MaxMemories}}

ListByUser_OfSession(r) ==
  LatestOf({i \in DOMAIN memories : Session(memories[i].run) = Session(r)})

ListByUser(r) ==
  LatestOf({i \in DOMAIN memories : memories[i].user = Owner[Session(r)]})

(* BuildPromptContext, a provider at a time.                               *)
Provide(r, what, prompt) ==
  /\ \E x \in runs[r].todo : Due(r, x, "provide") /\ x.kind = what /\ Shows(r, x, prompt)
  /\ UNCHANGED <<storage, stored, memories, tasks, toolResults, met, calls>>

ProvideTask(r) ==
  /\ Provide(r, "task", [runs[r].shown EXCEPT !.task = tasks[Session(r)]])
  /\ UNCHANGED milestones

ProvideResults(r) ==
  /\ Provide(r, "results", [runs[r].shown EXCEPT !.results = toolResults[Session(r)]])
  /\ UNCHANGED milestones

ProvideMemories(r) ==
  /\ Provide(r, "memories", [runs[r].shown EXCEPT !.memories = ListByUser(r)])
  /\ UNCHANGED milestones

(* The milestones are taken once more by the run itself, which is what the *)
(* prompt shows.                                                           *)
ProvideMilestones(r) ==
  LET got == GetMilestones(Session(r))
  IN /\ Provide(r, "milestones", [runs[r].shown EXCEPT !.milestones = LastOf(got, MaxShown)])
     /\ milestones' = [milestones EXCEPT ![Session(r)] = got]

Works(r) == Session(r) # Nobody /\ runs[r].todo = {} /\ ~runs[r].over

CallTool(r) ==
  /\ Works(r) /\ calls < MaxCalls
  /\ calls' = calls + 1
  /\ runs' = [runs EXCEPT ![r].todo = Calling]
  /\ UNCHANGED <<storage, notes, met>>

(* The run ends: with an answer or an error of the model, which are noted, *)
(* or with neither.                                                        *)
EndRun(r) ==
  /\ Works(r)
  /\ \E last \in {Ending, {}} :
       runs' = [runs EXCEPT ![r].todo = last, ![r].over = TRUE]
  /\ UNCHANGED <<storage, notes, met, calls>>

(* A restart ends the runs and keeps what is in mysql.  (With storage in   *)
(* the process it is the start of everything.)                             *)
PromptRestarts ==
  /\ storage = "mysql"
  /\ milestones' = [s \in NoteSessions |-> <<>>]
  /\ tasks' = [s \in NoteSessions |-> Nobody]
  /\ toolResults' = [s \in NoteSessions |-> <<>>]
  /\ runs' = [r \in NoteRuns |-> IF Session(r) = Nobody THEN NoRun
                                  ELSE [runs[r] EXCEPT !.todo = {}, !.over = TRUE]]
  /\ UNCHANGED <<storage, stored, memories, met, calls>>

PromptRun(r) ==
  \/ \E s \in NoteSessions, kind \in {"input", "correction"} : BeginRun(r, s, kind)
  \/ NoteMilestone(r) \/ SaveMilestone(r) \/ RememberCorrection(r) \/ SetTask(r) \/ Push(r)
  \/ ProvideTask(r) \/ ProvideResults(r) \/ ProvideMemories(r) \/ ProvideMilestones(r)
  \/ CallTool(r) \/ EndRun(r)

PromptNext == (\E r \in NoteRuns : PromptRun(r)) \/ PromptRestarts

--------------------------------------------------------------------------------
(* Properties *)

PromptTypeOK ==
  /\ \A s \in NoteSessions : Len(milestones[s]) <= MaxMilestones /\ Len(toolResults[s]) <= MaxKeep
  /\ \A r \in NoteRuns : runs[r].over => Session(r) # Nobody
  /\ calls <= MaxCalls

Shown(r) == runs[r].shown
Prompted(r) == Shown(r).milestones # <<>>

(* The prompt of a run shows what the run is about: the note of its start, *)
(* unless as many later ones as a prompt shows came between.               *)
OwnStartIsShown(r) ==
  LET shown == Shown(r).milestones
  IN \/ [run |-> r, start |-> TRUE] \in ToSet(shown)
     \/ Len(shown) = MaxShown /\ \A i \in DOMAIN shown : shown[i].run # r

(* The task is its own, unless another run was under way in its session.   *)
OwnTaskIsShown(r) == Shown(r).task = r \/ {r, Shown(r).task} \in met

(* What its user, and nobody else, corrected before it, in any session and *)
(* before any restart, is there, unless there are as many later ones.      *)
CorrectionsAreShown(r) ==
  LET user == Owner[Session(r)]
      Later(i) == {j \in DOMAIN memories : j > i /\ memories[j].user = user}
  IN /\ \A m \in Shown(r).memories : m.user = user
     /\ \A i \in 1 .. runs[r].since :
          memories[i].user = user =>
            memories[i] \in Shown(r).memories \/ Cardinality(Later(i)) >= MaxMemories

(* What a run is shown, by trackers and providers that all runs share, is  *)
(* its own and up to date in these three respects, at every interleaving.  *)
PromptIsCurrent ==
  /\ PromptTypeOK
  /\ \A r \in NoteRuns :
       Prompted(r) => OwnStartIsShown(r) /\ OwnTaskIsShown(r) /\ CorrectionsAreShown(r)
================================================================================
