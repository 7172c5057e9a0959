------------------------------ MODULE Conversation ------------------------------
(***************************************************************************)
(* What a chat leaves behind: sessions (application/agent_app.go and the   *)
(* session repository), the messages that runs of the engine save, and the *)
(* export and import of sessions (application/export_service.go), over     *)
(* either of the two repositories, with restarts of the process.           *)
(*                                                                         *)
(* A run works on its own copy of the session, loaded when it starts and   *)
(* saved when it ends.  A message is named by its run and what it is; that *)
(* is its id too.  Reading or saving something is one step, and with mysql *)
(* each may fail: a run ignores that and goes on, and counts what it said. *)
(* A reply of the model asks for one tool: several are in AgentEngine.     *)
(***************************************************************************)
EXTENDS Naturals, Sequences, SequencesExt, FiniteSets

CONSTANTS
  Sessions,        \* ids of sessions, all that are ever generated
  Runs,            \* chat requests
  MaxRounds,       \* rounds of a run
  HistoryLimit,    \* messages a run reads (100 in the code)
  ExportLimit,     \* messages of an export (5000)
  MaxRestarts,     \* bound: restarts of the process
  MaxExports,      \* bound: exports of a session
  MaxLost,         \* bound: messages of a session whose save fails
  None

ASSUME ConversationAssumption ==
  /\ {MaxRounds, HistoryLimit, ExportLimit} \subseteq Nat \ {0}
  /\ {MaxRestarts, MaxExports, MaxLost} \subseteq Nat
  /\ None \notin Sessions

VARIABLES
  backend,     \* the repositories: "mysql", or "memory", lost in a restart
  rows,        \* session repository: the number of messages of each session
  messages,    \* message repository: the messages of each session, in order
  run,         \* each request: where it is and what it holds
  export,      \* the export under way
  file,        \* the file the last export wrote
  generated,   \* ids of sessions ever generated
  imported,    \* the ids among them that an import generated
  restarts, exports,
  overlapped,  \* history: sessions two runs worked on at a time, or one left unsaved
  answered,    \* history: the runs whose answer was saved, while it is stored
  lost,        \* history: the messages of each session whose save failed
  clipped      \* history: sessions imported from a file with the oldest cut off

storeVars == <<rows, messages>>
fileVars == <<export, exports, file, generated, imported, clipped>>
historyVars == <<overlapped, answered, lost>>
conversationVars == <<backend, storeVars, run, fileVars, restarts, historyVars>>

Spoken == {"user", "answer"}
MessageIds == Runs \X (Spoken \cup {"call", "result"}) \X (0 .. MaxRounds)

Message(r, what) == <<r, what, run[r].round>>

Newest(seq, n) == IF Len(seq) <= n THEN seq ELSE SubSeq(seq, Len(seq) - n + 1, Len(seq))

Idle ==
  [at |-> "idle", session |-> None, count |-> 0, history |-> <<>>,
   knew |-> {}, round |-> 0]

ConversationInit ==
  /\ backend \in {"mysql", "memory"}
  /\ rows = [s \in Sessions |-> None]
  /\ messages = [s \in Sessions |-> <<>>]
  /\ restarts = 0 /\ exports = 0
  /\ run = [r \in Runs |-> Idle]
  /\ export = None /\ file = None /\ generated = {} /\ imported = {}
  /\ overlapped = {} /\ answered = {} /\ clipped = {}
  /\ lost = [s \in Sessions |-> <<>>]

Active(r) == run[r].at \notin {"idle", "over"}
WorksOn(r, s) == Active(r) /\ run[r].session = s

At(r, where) == run[r].at = where
Becomes(r, local) == run' = [run EXCEPT ![r] = local]
Moves(r, where) == Becomes(r, [run[r] EXCEPT !.at = where])
Over(r) == [Idle EXCEPT !.at = "over", !.session = run[r].session]
Ends(r) == Becomes(r, Over(r))

(* A read or save fails with mysql: it is away, refuses the text, or the   *)
(* time of the chat is over.  Memory never does.                           *)
Possible(kept) == kept \/ backend = "mysql"

(* A run saves a message, and does not look whether that worked.           *)
Saves(r, what, kept) ==
  LET s == run[r].session
      Longer(store) == [store EXCEPT ![s] = Append(@, Message(r, what))]
  IN /\ Possible(kept) /\ (~kept => Len(lost[s]) < MaxLost)
     /\ messages' = IF kept THEN Longer(messages) ELSE messages
     /\ lost' = IF kept THEN lost ELSE Longer(lost)

--------------------------------------------------------------------------------
(* Sessions *)

FindByID(s) == rows[s]
SaveSession(s, count, kept) ==
  Possible(kept) /\ rows' = IF kept THEN [rows EXCEPT ![s] = count] ELSE rows

(* Messages of the user and answers are counted, in the run's copy.        *)
AddMessage(r) == run[r].count + 1

Fresh(s) == s \notin generated

(* The id of the new session is answered whether or not it was saved.      *)
CreateSession(s, kept) ==
  /\ Fresh(s)
  /\ SaveSession(s, 0, kept)
  /\ generated' = generated \cup {s}
  /\ UNCHANGED <<backend, messages, run, export, exports, file,
                 imported, clipped, restarts, historyVars>>

Starts_FromZero(r, s, count) ==
  Becomes(r, [Idle EXCEPT !.at = "resolved", !.session = s])

Starts(r, s, count) ==
  Becomes(r, [Idle EXCEPT !.at = "resolved", !.session = s, !.count = count])

(* A request starts with the session it asks for, or with a new one when   *)
(* it asks for none or for one that is not stored (any more).              *)
Resolve(r, asked, s, kept) ==
  /\ At(r, "idle")
  /\ IF asked # None /\ FindByID(asked) # None
     THEN kept /\ s = asked /\ Starts(r, s, rows[s]) /\ UNCHANGED <<rows, generated>>
     ELSE /\ Fresh(s)
          /\ SaveSession(s, 0, kept)
          /\ Starts(r, s, 0)
          /\ generated' = generated \cup {s}
  /\ overlapped' = overlapped \cup {x \in {s} : \E o \in Runs : WorksOn(o, x)}
  /\ UNCHANGED <<backend, messages, export, exports, file,
                 imported, clipped, restarts, answered, lost>>

(* The session could not be read: the request is answered with the error.  *)
FailToResolve(r) ==
  /\ At(r, "idle") /\ Possible(FALSE)
  /\ Ends(r)
  /\ UNCHANGED <<backend, storeVars, fileVars, restarts, historyVars>>

(* Chat refuses a request over the rate limit, but keeps its new session;  *)
(* ChatStream does not ask.                                                *)
RefuseByRate(r) ==
  /\ At(r, "resolved")
  /\ Ends(r)
  /\ UNCHANGED <<backend, storeVars, fileVars, restarts, historyVars>>

--------------------------------------------------------------------------------
(* A run *)

ListBySession_Oldest(s, n) ==
  IF Len(messages[s]) <= n THEN messages[s] ELSE SubSeq(messages[s], 1, n)

ListBySession(s, n) == Newest(messages[s], n)

(* The history for the prompt; without it the run goes on without.         *)
ReadHistory(r, kept) ==
  LET s == run[r].session
  IN /\ At(r, "resolved") /\ Possible(kept)
     /\ IF ~kept THEN Moves(r, "read")
        ELSE Becomes(r, [run[r] EXCEPT !.at = "read",
               !.history = ListBySession(s, HistoryLimit),
               !.knew = {o \in answered : run[o].session = s}])
     /\ UNCHANGED <<backend, storeVars, fileVars, restarts, historyVars>>

(* The message of the user is saved, and counted in the run's copy; the    *)
(* history has gone into the prompt.                                       *)
SaveUser(r, kept) ==
  /\ At(r, "read")
  /\ Saves(r, "user", kept)
  /\ Becomes(r, [run[r] EXCEPT !.at = "loop", !.count = AddMessage(r), !.history = <<>>, !.knew = {}])
  /\ UNCHANGED <<backend, rows, fileVars, restarts, overlapped, answered>>

(* An approved call is executed before the first round.                    *)
SaveResumed(r, kept) ==
  /\ At(r, "loop") /\ run[r].round = 0
  /\ Saves(r, "call", kept)
  /\ Moves(r, "calling")
  /\ UNCHANGED <<backend, rows, fileVars, restarts, overlapped, answered>>

AtLoop(r) == run[r].at \in {"loop", "resumed"}

NextRound(r) ==
  /\ AtLoop(r) /\ run[r].round < MaxRounds
  /\ Becomes(r, [run[r] EXCEPT !.at = "asking", !.round = @ + 1])
  /\ UNCHANGED <<backend, storeVars, fileVars, restarts, historyVars>>

(* The last round is over.                                                 *)
RunOut(r) ==
  /\ AtLoop(r) /\ run[r].round = MaxRounds
  /\ Moves(r, "closing")
  /\ UNCHANGED <<backend, storeVars, fileVars, restarts, historyVars>>

(* The time of the chat is over at the head of the loop: nothing is saved. *)
Cut(r) ==
  /\ AtLoop(r) /\ run[r].round < MaxRounds
  /\ Ends(r)
  /\ overlapped' = overlapped \cup {run[r].session}
  /\ UNCHANGED <<backend, storeVars, fileVars, restarts, answered, lost>>

(* The model fails, or repeats itself too often.                           *)
GiveUp(r) ==
  /\ At(r, "asking")
  /\ Moves(r, "closing")
  /\ UNCHANGED <<backend, storeVars, fileVars, restarts, historyVars>>

SaveAnswer(r, kept) ==
  /\ At(r, "asking")
  /\ Saves(r, "answer", kept)
  /\ Becomes(r, [run[r] EXCEPT !.at = "closing", !.count = AddMessage(r)])
  /\ answered' = IF kept THEN answered \cup {r} ELSE answered
  /\ UNCHANGED <<backend, rows, fileVars, restarts, overlapped>>

SaveCall_Unsaved(r, kept) ==
  /\ At(r, "asking") /\ kept
  /\ Moves(r, "calling")
  /\ UNCHANGED <<backend, storeVars, fileVars, restarts, historyVars>>

(* The reply that asks for a tool is saved, and the tool executed.         *)
SaveCall(r, kept) ==
  /\ At(r, "asking")
  /\ Saves(r, "call", kept)
  /\ Moves(r, "calling")
  /\ UNCHANGED <<backend, rows, fileVars, restarts, overlapped, answered>>

(* A denied call leaves no message of its own.                             *)
Deny(r) ==
  /\ At(r, "calling") /\ run[r].round > 0
  /\ Moves(r, "loop")
  /\ UNCHANGED <<backend, storeVars, fileVars, restarts, historyVars>>

(* The result is saved; a call the user is asked about ends the loop.      *)
SaveResult(r, asks, kept) ==
  /\ At(r, "calling")
  /\ Saves(r, "result", kept)
  /\ Moves(r, IF asks THEN "closing" ELSE IF run[r].round = 0 THEN "resumed" ELSE "loop")
  /\ UNCHANGED <<backend, rows, fileVars, restarts, overlapped, answered>>

Close_Adds(r, kept) ==
  /\ At(r, "closing") /\ FindByID(run[r].session) # None
  /\ SaveSession(run[r].session, FindByID(run[r].session) + run[r].count, kept)
  /\ Ends(r)
  /\ UNCHANGED <<backend, messages, fileVars, restarts, historyVars>>

(* The run saves its copy of the session over whatever is stored.          *)
Close(r, kept) ==
  LET s == run[r].session
  IN /\ At(r, "closing")
     /\ SaveSession(s, run[r].count, kept)
     /\ Ends(r)
     /\ overlapped' = IF kept THEN overlapped ELSE overlapped \cup {s}
     /\ UNCHANGED <<backend, messages, fileVars, restarts, answered, lost>>

StoreStep(r, kept) ==
  \/ \E asked \in Sessions \cup {None}, s \in Sessions : Resolve(r, asked, s, kept)
  \/ ReadHistory(r, kept) \/ SaveUser(r, kept) \/ SaveResumed(r, kept)
  \/ SaveAnswer(r, kept) \/ SaveCall(r, kept)
  \/ (\E asks \in BOOLEAN : SaveResult(r, asks, kept)) \/ Close(r, kept)

RunStep(r) ==
  \/ \E kept \in BOOLEAN : StoreStep(r, kept)
  \/ FailToResolve(r) \/ RefuseByRate(r) \/ NextRound(r) \/ RunOut(r) \/ Cut(r)
  \/ GiveUp(r) \/ Deny(r)

--------------------------------------------------------------------------------
(* Export, import and restart *)

(* ExportJSON and ExportMarkdown read the session first ...                *)
BeginExport(s) ==
  /\ export = None /\ FindByID(s) # None
  /\ exports < MaxExports /\ exports' = exports + 1
  /\ export' = [session |-> s, count |-> rows[s], messages |-> <<>>, clipped |-> s \in clipped]
  /\ UNCHANGED <<backend, storeVars, run, file, generated, imported, clipped, restarts,
                 historyVars>>

(* ... and then its newest messages.  A read or write that fails ends it.  *)
EndExport(kept) ==
  LET s == export.session
  IN /\ export # None
     /\ file' = IF ~kept THEN file
                ELSE [export EXCEPT !.messages = ListBySession(s, ExportLimit),
                                    !.clipped = @ \/ Len(messages[s]) > ExportLimit]
     /\ export' = None
     /\ UNCHANGED <<backend, storeVars, run, exports, generated, imported, clipped, restarts,
                    historyVars>>

StoredIds == {m \in MessageIds : \E s \in Sessions : Contains(messages[s], m)}

(* What stands in seq at the indices of I, in its order.                   *)
Picked(seq, I) ==
  LET Nth(n) == CHOOSE i \in I : Cardinality({k \in I : k <= i}) = n
  IN [n \in 1 .. Cardinality(I) |-> seq[Nth(n)]]

(* ImportJSON saves the exported session under a new id, and its messages  *)
(* under their own: mysql keeps a row it has where it is.  One step, since *)
(* nobody knows the session before the import answers.                     *)
Import(s) ==
  LET kept == {i \in DOMAIN file.messages :
                 backend = "memory" \/ file.messages[i] \notin StoredIds}
  IN /\ file # None /\ Fresh(s)
     /\ SaveSession(s, file.count, TRUE)
     /\ messages' = [messages EXCEPT ![s] = Picked(file.messages, kept)]
     /\ generated' = generated \cup {s} /\ imported' = imported \cup {s}
     /\ clipped' = IF file.clipped THEN clipped \cup {s} ELSE clipped
     /\ UNCHANGED <<backend, run, export, exports, file, restarts, historyVars>>

Restart ==
  /\ restarts < MaxRestarts
  /\ restarts' = restarts + 1
  /\ run' = [r \in Runs |-> IF Active(r) THEN Over(r) ELSE run[r]]
  /\ export' = None
  /\ overlapped' = overlapped \cup {s \in Sessions : \E r \in Runs : WorksOn(r, s)}
  /\ UNCHANGED <<backend, exports, file, generated, imported, clipped, lost>>
  /\ IF backend = "mysql" THEN UNCHANGED <<storeVars, answered>>
     ELSE /\ rows' = [s \in Sessions |-> None]
          /\ messages' = [s \in Sessions |-> <<>>]
          /\ answered' = {}

ConversationNext ==
  \/ \E r \in Runs : RunStep(r)
  \/ \E s \in Sessions : (\E kept \in BOOLEAN : CreateSession(s, kept)) \/ BeginExport(s) \/ Import(s)
  \/ (\E kept \in BOOLEAN : EndExport(kept)) \/ Restart

ConversationSpec == ConversationInit /\ [][ConversationNext]_conversationVars

--------------------------------------------------------------------------------
(* Properties *)

RunTypeOK(r) ==
  /\ DOMAIN run[r] = DOMAIN Idle
  /\ run[r].session \in Sessions \cup {None}
  /\ run[r].count \in Nat /\ run[r].round \in 0 .. MaxRounds
  /\ run[r].history \in Seq(MessageIds) /\ Len(run[r].history) <= HistoryLimit
  /\ run[r].knew \subseteq Runs

(* Every variable has its type, and the caches keep their limits.          *)
ConversationTypeOK ==
  /\ backend \in {"mysql", "memory"}
  /\ rows \in [Sessions -> Nat \cup {None}]
  /\ {messages, lost} \subseteq [Sessions -> Seq(MessageIds)]
  /\ answered \subseteq Runs /\ clipped \subseteq imported
  /\ imported \subseteq generated /\ generated \subseteq Sessions
  /\ \A r \in Runs : RunTypeOK(r)

Said(seq) == Cardinality({i \in DOMAIN seq : seq[i][2] \in Spoken})

(* A stored session counts no message but those that are stored and those  *)
(* whose save failed, which runs count all the same (agent_engine.go:252,  *)
(* 404), whatever overlaps, is cut off, or is exported meanwhile: the      *)
(* count is saved last, and exported first.  (mysql imports the count      *)
(* without the messages, and an export leaves out what is over its limit.) *)
CountsAreBacked ==
  /\ ConversationTypeOK
  /\ \A s \in Sessions \ clipped :
       rows[s] # None /\ ~(backend = "mysql" /\ s \in imported) =>
         rows[s] <= Said(messages[s]) + Said(lost[s])

(* A session whose runs followed one another, were not cut off and saved   *)
(* it in the end counts every message of the user and every answer, those  *)
(* that could not be saved among them.                                     *)
SerialRunsCountAll ==
  \A s \in generated \ (overlapped \cup imported) :
    rows[s] # None /\ (\A r \in Runs : ~WorksOn(r, s)) =>
      rows[s] = Said(messages[s]) + Said(lost[s])

(* Every result in the messages of a session stands behind the call it     *)
(* answers, also when the run was resumed, cut off, exported or imported:  *)
(* it stands alone only if the save of this very call failed, or an export *)
(* cut the call off.                                                       *)
ResultsFollowCalls ==
  \A s \in Sessions \ clipped : \A i \in DOMAIN messages[s] :
    LET call == <<messages[s][i][1], "call", messages[s][i][3]>>
    IN messages[s][i][2] = "result" =>
         (\E j \in 1 .. i - 1 : messages[s][j] = call) \/ Contains(lost[s], call)

(* What was answered in a session is in the history of its later runs,     *)
(* after a restart on mysql too: it is pushed out only by newer messages.  *)
AnswersAreRemembered ==
  \A r \in Runs : \A o \in run[r].knew :
    LET heard == {m \in ToSet(run[r].history) : m[1] = o}
    IN \/ \E m \in heard : m[2] = "answer"
       \/ heard = {} /\ Len(run[r].history) = HistoryLimit
================================================================================
