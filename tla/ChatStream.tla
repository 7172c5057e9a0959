------------------------------- MODULE ChatStream -------------------------------
(***************************************************************************)
(* The event stream of one chat (application/agent_app.go, ChatStream):    *)
(* the goroutine that runs the engine publishes events into a channel      *)
(* without ever waiting, a forwarder moves them to a second channel, and a *)
(* reader takes them from there: the HTTP handler, which stops at the      *)
(* first event marked Completed, or the desktop shell, which reads until   *)
(* the channel is closed.                                                  *)
(*                                                                         *)
(* An event is its number in the order of publishing.  The engine marks an *)
(* event Completed when it asks for a confirmation, answers, gives up or   *)
(* is done; after the first such event it publishes at most MaxTail more,  *)
(* those of the calls left in the round.                                   *)
(***************************************************************************)
EXTENDS Naturals, Sequences, FiniteSets, Functions

CONSTANTS
  EventCap,    \* capacity of eventCh
  OutCap,      \* capacity of out
  MaxTail,     \* events that may follow the first Completed one
  MaxProgress  \* bound: events before the first Completed one

ASSUME StreamAssumption ==
  /\ {EventCap, OutCap} \subseteq Nat \ {0}
  /\ {MaxTail, MaxProgress} \subseteq Nat

(* What makes the forwarder end: a round of MaxToolCallsPerRound (3) calls *)
(* publishes some 15 events, and out holds 64.                             *)
ASSUME TailFits == MaxTail <= OutCap

VARIABLES
  published,  \* history: of each event, whether it is Completed
  running,    \* the engine runs and eventCh is open
  eventCh,
  forwarder,  \* where the forwarder is and the event in its hands
  out,
  reader,     \* "http" or "desktop" while it reads, then "done"
  seen        \* history: what the reader saw

streamVars == <<published, running, eventCh, forwarder, out, reader, seen>>

Numbers == 1 .. MaxProgress + 1 + MaxTail

(* Hands of the forwarder: an event, or none. *)
Hand == {<<>>} \cup {<<n>> : n \in Numbers}

StreamInit ==
  /\ published = <<>> /\ running = TRUE
  /\ eventCh = <<>> /\ out = <<>> /\ seen = <<>>
  /\ forwarder = [at |-> "receive", hand |-> <<>>]
  /\ reader \in {"http", "desktop"}

--------------------------------------------------------------------------------
(* The engine and the goroutine that runs it *)

CompletedEvents == {i \in DOMAIN published : published[i]}

(* Whether the engine may publish an event of this kind now: its last      *)
(* event is a Completed one.                                               *)
MayPublish(completed) ==
  IF CompletedEvents = {}
  THEN completed \/ Len(published) < MaxProgress
  ELSE \E i \in CompletedEvents :
         /\ \A j \in CompletedEvents : i <= j
         /\ Len(published) < i + MaxTail
         /\ Len(published) + 1 = i + MaxTail => completed

Publish_DropsOldest(completed) ==
  /\ running /\ MayPublish(completed)
  /\ published' = Append(published, completed)
  /\ IF Len(eventCh) < EventCap
     THEN eventCh' = Append(eventCh, Len(published) + 1)
     ELSE eventCh' = Append(Tail(eventCh), Len(published) + 1)
  /\ UNCHANGED <<running, forwarder, out, reader, seen>>

(* The engine publishes an event, which is dropped if eventCh is full. *)
Publish(completed) ==
  /\ running /\ MayPublish(completed)
  /\ published' = Append(published, completed)
  /\ IF Len(eventCh) < EventCap
     THEN eventCh' = Append(eventCh, Len(published) + 1)
     ELSE UNCHANGED eventCh
  /\ UNCHANGED <<running, forwarder, out, reader, seen>>

(* The engine returns, its last event a Completed one (its own, or the     *)
(* error the goroutine publishes for it), and eventCh is closed.           *)
EngineReturns ==
  /\ running
  /\ published # <<>> /\ published[Len(published)]
  /\ running' = FALSE
  /\ UNCHANGED <<published, eventCh, forwarder, out, reader, seen>>

--------------------------------------------------------------------------------
(* The forwarder: both of its loops receive, send and end alike. *)

Receive ==
  /\ forwarder.at = "receive" /\ eventCh # <<>>
  /\ forwarder' = [at |-> "send", hand |-> <<Head(eventCh)>>]
  /\ eventCh' = Tail(eventCh)
  /\ UNCHANGED <<published, running, out, reader, seen>>

Send ==
  /\ forwarder.at = "send" /\ Len(out) < OutCap
  /\ out' = out \o forwarder.hand
  /\ forwarder' = [at |-> "receive", hand |-> <<>>]
  /\ UNCHANGED <<published, running, eventCh, reader, seen>>

ForwarderReturns_OnceCompleted ==
  /\ forwarder.at = "receive" /\ eventCh = <<>> /\ ~running
  /\ \E i \in CompletedEvents : i \in Range(seen \o out)
  /\ forwarder' = [forwarder EXCEPT !.at = "done"]
  /\ UNCHANGED <<published, running, eventCh, out, reader, seen>>

(* eventCh is closed and drained: out is closed. *)
ForwarderReturns ==
  /\ forwarder.at = "receive" /\ eventCh = <<>> /\ ~running
  /\ forwarder' = [forwarder EXCEPT !.at = "done"]
  /\ UNCHANGED <<published, running, eventCh, out, reader, seen>>

--------------------------------------------------------------------------------
(* The reader *)

StopsAt_Any(n) == reader = "http"

(* The handler breaks at a Completed event; the desktop shell never does. *)
StopsAt(n) == reader = "http" /\ published[n]

(* The reader takes an event and hands it to its client, which may be slow. *)
Read ==
  /\ reader # "done" /\ out # <<>>
  /\ seen' = Append(seen, Head(out))
  /\ out' = Tail(out)
  /\ reader' = IF StopsAt(Head(out)) THEN "done" ELSE reader
  /\ UNCHANGED <<published, running, eventCh, forwarder>>

ReaderReturns ==
  /\ reader # "done" /\ out = <<>> /\ forwarder.at = "done"
  /\ reader' = "done"
  /\ UNCHANGED <<published, running, eventCh, forwarder, out, seen>>

--------------------------------------------------------------------------------
EngineStep == \/ \E completed \in BOOLEAN : Publish(completed)
              \/ EngineReturns

ForwarderStep == Receive \/ Send \/ ForwarderReturns

ReaderStep == Read \/ ReaderReturns

StreamNext == EngineStep \/ ForwarderStep \/ ReaderStep

(* The scheduler runs the forwarder.  The engine may wait for a tool that  *)
(* never returns, and the reader writes to a client that may never take    *)
(* its data.                                                               *)
StreamSpec ==
  StreamInit /\ [][StreamNext]_streamVars /\ WF_streamVars(ForwarderStep)

--------------------------------------------------------------------------------
(* Every variable holds a value of its type, and the channels keep their   *)
(* capacities.                                                             *)
StreamTypeOK ==
  /\ published \in Seq(BOOLEAN) /\ Len(published) <= MaxProgress + 1 + MaxTail
  /\ running \in BOOLEAN
  /\ eventCh \in Seq(Numbers) /\ Len(eventCh) <= EventCap
  /\ forwarder \in [at : {"receive", "send", "done"}, hand : Hand]
  /\ out \in Seq(Numbers) /\ Len(out) <= OutCap
  /\ reader \in {"http", "desktop", "done"}
  /\ seen \in Seq(Numbers)

(* What was taken up and not yet seen, oldest first. *)
InFlight == out \o forwarder.hand \o eventCh

(* Once the handler stopped reading, what is left fits into out: the       *)
(* forwarder never waits for a reader that is gone.                        *)
LeftoversFit == StreamTypeOK /\ (reader = "done" => Len(InFlight) <= OutCap)

(* The forwarder does not outlive reader and engine for ever: no goroutine *)
(* leaks although the handler leaves before the channel is closed.         *)
ForwarderIsNotLeaked == (reader = "done" /\ ~running) ~> (forwarder.at = "done")

(* When the engine ends, a reader whose client keeps taking the data comes *)
(* to the end of the stream, even if the Completed events were dropped.    *)
ReaderIsServed == WF_streamVars(ReaderStep) /\ <>~running => <>(reader = "done")

(* The stream keeps the promise of LossyStream. *)
Lossy == INSTANCE LossyStream WITH
  Backlog <- EventCap,
  offered <- Len(published),
  waiting <- InFlight,
  open <- running

ImplementsLossyStream == Lossy!LossySpec
================================================================================
