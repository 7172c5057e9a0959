--------------------------------- MODULE McpRpc ---------------------------------
(***************************************************************************)
(* Calls of an MCP server (infrastructure/mcp): a request is registered    *)
(* under its id, sent, and its goroutine waits for the answer, which a     *)
(* reading goroutine of the client hands over, or gives up.  A client      *)
(* talks to a child process over two pipes ("stdio", stdio_client.go), to  *)
(* a server that answers each POST ("http"), or to one that accepts POSTs  *)
(* and answers on an event stream ("sse", both sse_client.go).             *)
(*                                                                         *)
(* The model starts when "initialize" was answered.  The installation of   *)
(* the client then lists its tools, a request like any other, before the   *)
(* manager stores the client and others call it.  Notifications are left   *)
(* out.                                                                    *)
(***************************************************************************)
EXTENDS Naturals, Sequences, SequencesExt

CONSTANTS
  Ids,      \* request ids
  PipeCap,  \* messages a pipe or the event stream holds
  None

ASSUME RpcAssumption == Ids \subseteq Nat /\ PipeCap \in Nat \ {0} /\ None \notin Ids

VARIABLES
  transport,
  at,        \* where each request's goroutine is
  pending,   \* the ids that are registered
  arrived,   \* the ids whose channel holds an answer
  mutex,     \* the request that holds the client's mutex while it writes
  stdin,     \* the pipe to the child process
  server,    \* whether the server is up, and the requests it works on
  answers,   \* the pipe from the child process, or the event stream
  stream,    \* whether the GET of the event stream is alive
  reader,    \* readLoop or readSSE, and the id it looks up
  install,   \* how far the installation of the client has come
  closed

VARIABLE answered  \* history: the requests the server answered on the stream

linkVars == <<stdin, server, answers, stream>>
clientVars == <<transport, at, pending, arrived, mutex, reader, install, closed>>
rpcVars == <<clientVars, linkVars, answered>>

RpcInit ==
  /\ transport \in {"stdio", "sse", "http"}
  /\ at = [c \in Ids |-> "idle"]
  /\ pending = {} /\ arrived = {} /\ mutex = None
  /\ stdin = <<>> /\ server = [up |-> TRUE, hand |-> {}]
  /\ answers = <<>> /\ stream = "open"
  /\ reader = [at |-> IF transport = "http" THEN "gone" ELSE "check", id |-> None]
  /\ install = "connecting" /\ closed = FALSE
  /\ answered = {}

At(c, l) == at[c] = l

Goes(c, l) == at' = [at EXCEPT ![c] = l]

Quiet == \A c \in Ids : at[c] \in {"idle", "done"}

--------------------------------------------------------------------------------
(* A call *)

(* A request gets the next id.  A closed stdio client refuses it; a closed *)
(* SSE client does not look.  Until the client is stored, only its         *)
(* installation makes requests.                                            *)
Begin(c) ==
  /\ At(c, "idle") /\ \A d \in Ids : d < c => ~At(d, "idle")
  /\ install = "connecting" => \A d \in Ids : At(d, "idle")
  /\ Goes(c, IF closed /\ transport = "stdio" THEN "done" ELSE "register")
  /\ UNCHANGED <<transport, pending, arrived, mutex, reader, install, closed, linkVars, answered>>

Register(c) ==
  /\ At(c, "register") /\ mutex = None
  /\ pending' = pending \cup {c}
  /\ Goes(c, "send")
  /\ UNCHANGED <<transport, arrived, mutex, reader, install, closed, linkVars, answered>>

(* write takes the mutex and keeps it until the pipe took the request. *)
Lock(c) ==
  /\ At(c, "send") /\ transport = "stdio" /\ mutex = None
  /\ mutex' = c
  /\ Goes(c, "write")
  /\ UNCHANGED <<transport, pending, arrived, reader, install, closed, linkVars, answered>>

Write(c) ==
  /\ At(c, "write") /\ server.up /\ Len(stdin) < PipeCap
  /\ stdin' = Append(stdin, c)
  /\ mutex' = None
  /\ Goes(c, "wait")
  /\ UNCHANGED <<transport, pending, arrived, reader, install, closed, server, answers, stream, answered>>

WriteFails(c) ==
  /\ At(c, "write") /\ ~server.up
  /\ mutex' = None
  /\ Goes(c, "leave")
  /\ UNCHANGED <<transport, pending, arrived, reader, install, closed, linkVars, answered>>

(* The request is posted: it reaches the server or it does not, *)
Post(c) ==
  /\ At(c, "send") /\ transport # "stdio"
  /\ \/ server.up /\ server' = [server EXCEPT !.hand = @ \cup {c}]
     \/ UNCHANGED server
  /\ Goes(c, "posted")
  /\ UNCHANGED <<transport, pending, arrived, mutex, reader, install, closed,
                 stdin, answers, stream, answered>>

(* and the POST brings the answer, nothing (whatever its status) or an     *)
(* error of the network, a timeout among them.                             *)
PostReturns(c) ==
  /\ At(c, "posted")
  /\ \/ /\ c \in server.hand
        /\ server' = [server EXCEPT !.hand = @ \ {c}]
        /\ Goes(c, "leave")
     \/ (Goes(c, "wait") \/ Goes(c, "leave")) /\ UNCHANGED server
  /\ UNCHANGED <<transport, pending, arrived, mutex, reader, install, closed,
                 stdin, answers, stream, answered>>

Receive(c) ==
  /\ At(c, "wait") /\ c \in arrived
  /\ Goes(c, "leave")
  /\ UNCHANGED <<transport, pending, arrived, mutex, reader, install, closed, linkVars, answered>>

GiveUp_OnlyIfServerDied(c) ==
  /\ At(c, "wait") /\ ~server.up
  /\ Goes(c, "leave")
  /\ UNCHANGED <<transport, pending, arrived, mutex, reader, install, closed, linkVars, answered>>

(* The timer fires or the context ends. *)
GiveUp(c) ==
  /\ At(c, "wait")
  /\ Goes(c, "leave")
  /\ UNCHANGED <<transport, pending, arrived, mutex, reader, install, closed, linkVars, answered>>

Leave(c) ==
  /\ At(c, "leave") /\ mutex = None
  /\ pending' = pending \ {c}
  /\ Goes(c, "done")
  /\ UNCHANGED <<transport, arrived, mutex, reader, install, closed, linkVars, answered>>

--------------------------------------------------------------------------------
(* The reading goroutine *)

ReaderGoes(l, c) == reader' = [at |-> l, id |-> c]

Check ==
  /\ reader.at = "check"
  /\ ReaderGoes(IF closed THEN "gone" ELSE "read", None)
  /\ UNCHANGED <<transport, at, pending, arrived, mutex, install, closed, linkVars, answered>>

ReadAnswer ==
  /\ reader.at = "read" /\ answers # <<>>
  /\ ReaderGoes("lookup", Head(answers))
  /\ answers' = Tail(answers)
  /\ UNCHANGED <<transport, at, pending, arrived, mutex, install, closed,
                 stdin, server, stream, answered>>

ReadFails ==
  /\ reader.at = "read" /\ answers = <<>>
  /\ ~server.up \/ stream = "cut"
  /\ ReaderGoes("gone", None)
  /\ UNCHANGED <<transport, at, pending, arrived, mutex, install, closed, linkVars, answered>>

(* An answer to a call that is over is dropped. *)
Lookup ==
  /\ reader.at = "lookup" /\ mutex = None
  /\ IF reader.id \in pending THEN ReaderGoes("send", reader.id) ELSE ReaderGoes("check", None)
  /\ UNCHANGED <<transport, at, pending, arrived, mutex, install, closed, linkVars, answered>>

HandOver_Unbuffered ==
  /\ reader.at = "send"
  /\ arrived' = IF At(reader.id, "wait") THEN arrived \cup {reader.id} ELSE arrived
  /\ ReaderGoes("check", None)
  /\ UNCHANGED <<transport, at, pending, mutex, install, closed, linkVars, answered>>

(* The channel holds one answer; another one is dropped. *)
HandOver ==
  /\ reader.at = "send"
  /\ arrived' = arrived \cup {reader.id}
  /\ ReaderGoes("check", None)
  /\ UNCHANGED <<transport, at, pending, mutex, install, closed, linkVars, answered>>

--------------------------------------------------------------------------------
(* The server.  A child process works on one request at a time and waits   *)
(* while its pipe is full (cmd/mcp-demo/main.go is one).                   *)

Take ==
  /\ server.up /\ server.hand = {} /\ stdin # <<>>
  /\ server' = [server EXCEPT !.hand = {Head(stdin)}]
  /\ stdin' = Tail(stdin)
  /\ UNCHANGED <<clientVars, answers, stream, answered>>

(* It answers, perhaps more than once, *)
Answer(c) ==
  /\ c \in server.hand /\ transport # "http"
  /\ stream = "open" /\ Len(answers) < PipeCap
  /\ answers' = Append(answers, c)
  /\ answered' = answered \cup {c}
  /\ \E hand \in {server.hand, server.hand \ {c}} : server' = [server EXCEPT !.hand = hand]
  /\ UNCHANGED <<clientVars, stdin, stream>>

(* or never, *)
Drop(c) ==
  /\ c \in server.hand
  /\ server' = [server EXCEPT !.hand = @ \ {c}]
  /\ UNCHANGED <<clientVars, stdin, answers, stream, answered>>

Down == [up |-> FALSE, hand |-> {}]

(* or it ends. *)
Die ==
  /\ server.up
  /\ server' = Down /\ stdin' = <<>>
  /\ UNCHANGED <<clientVars, answers, stream, answered>>

--------------------------------------------------------------------------------
(* The manager *)

(* startOne puts the client into the manager's map once its tools are      *)
(* listed, or the request for them has failed;                             *)
Store ==
  /\ install = "connecting" /\ Quiet /\ \E c \in Ids : At(c, "done")
  /\ install' = "stored"
  /\ UNCHANGED <<transport, at, pending, arrived, mutex, reader, closed, linkVars, answered>>

(* then the service returns and cancels the context of Initialize, which   *)
(* is the context of the GET of the event stream.                          *)
ContextEnds ==
  /\ transport = "sse" /\ install = "stored"
  /\ install' = "over"
  /\ stream' = "cut" /\ answers' = <<>>
  /\ UNCHANGED <<transport, at, pending, arrived, mutex, reader, closed, stdin, server, answered>>

(* The manager closes a client it stored.  Close ends the child process;   *)
(* it asks for no lock.                                                    *)
Close ==
  /\ ~closed /\ install # "connecting"
  /\ closed' = TRUE
  /\ IF transport = "stdio" THEN server' = Down /\ stdin' = <<>> ELSE UNCHANGED <<server, stdin>>
  /\ UNCHANGED <<transport, at, pending, arrived, mutex, reader, install, answers, stream, answered>>

--------------------------------------------------------------------------------
CallStep(c) ==
  \/ Register(c) \/ Lock(c) \/ Write(c) \/ WriteFails(c) \/ Post(c) \/ PostReturns(c)
  \/ Receive(c) \/ GiveUp(c) \/ Leave(c)

ReaderStep == Check \/ ReadAnswer \/ ReadFails \/ Lookup \/ HandOver

(* What the server does while it is up. *)
ServerStep ==
  \/ Take
  \/ \E c \in Ids : Answer(c) \/ Drop(c)

RpcNext ==
  \/ \E c \in Ids : Begin(c) \/ CallStep(c)
  \/ ReaderStep \/ ServerStep \/ Die
  \/ Store \/ ContextEnds \/ Close

(* The scheduler runs the client's goroutines, and timers fire.  Nothing   *)
(* is assumed of the server, of requests and of the manager.               *)
RpcSpec ==
  /\ RpcInit /\ [][RpcNext]_rpcVars
  /\ \A c \in Ids : WF_rpcVars(CallStep(c))
  /\ WF_rpcVars(ReaderStep)

--------------------------------------------------------------------------------
CallLabels == {"idle", "register", "send", "write", "posted", "wait", "leave", "done"}

(* Every variable holds a value of its type, the mutex is held by the      *)
(* request that writes, and registered are the requests at work.           *)
RpcTypeOK ==
  /\ at \in [Ids -> CallLabels]
  /\ pending = {c \in Ids : at[c] \in {"send", "write", "posted", "wait", "leave"}}
  /\ arrived \subseteq answered
  /\ {c \in Ids : At(c, "write")} = {mutex} \ {None}
  /\ server.hand \subseteq Ids /\ ToSet(stdin) \cup ToSet(answers) \subseteq Ids
  /\ Len(stdin) <= PipeCap /\ Len(answers) <= PipeCap
  /\ reader.at \in {"check", "read", "lookup", "send", "gone"}

(* While the stream lives, what the server answered to a request that      *)
(* still wants it is on its way to it: an answer that comes at once, before *)
(* the request waits for it, is not lost, nor is one behind answers to     *)
(* requests that gave up.                                                  *)
AnswersAreNotLost ==
  /\ RpcTypeOK
  /\ stream = "open" /\ ~closed =>
       \A c \in answered : at[c] \in {"write", "posted", "wait"} =>
         c \in ToSet(answers) \cup {reader.id} \cup arrived

(* A request waits, with the mutex, for the full pipe to a server that     *)
(* does not read.  The others wait for it, those whose timers fired too,   *)
(* and so does the reader: a server that waits to write its answers never  *)
(* reads again.                                                            *)
Blocked == mutex # None /\ Len(stdin) = PipeCap /\ server.up /\ ~closed

(* Whatever the server does, all requests end, with an answer or without,  *)
(* unless one is blocked for ever; closing the client ends them even then. *)
RequestsEnd == <>[](Quiet \/ Blocked)
================================================================================
