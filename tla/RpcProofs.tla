-------------------------------- MODULE RpcProofs --------------------------------
(* Proofs about the calls of an MCP server: an answer on its way to a      *)
(* request that wants it arrives, for any ids and capacities of the pipes. *)
EXTENDS McpRpc, TLAPS

ReaderLabels == {"check", "read", "lookup", "send", "gone"}

RpcTyped ==
  /\ at \in [Ids -> CallLabels]
  /\ server \in [up : BOOLEAN, hand : SUBSET Ids]
  /\ reader \in [at : ReaderLabels, id : Ids \cup {None}]
  /\ stdin \in Seq(Ids) /\ answers \in Seq(Ids) /\ Len(stdin) <= PipeCap /\ Len(answers) <= PipeCap
  /\ answered \subseteq Ids /\ arrived \subseteq answered /\ closed \in BOOLEAN

(* Registered are the requests at work, and the mutex is held by the one   *)
(* that writes.                                                            *)
Registered ==
  /\ pending \subseteq Ids
  /\ \A c \in Ids : c \in pending <=> at[c] \in {"send", "write", "posted", "wait", "leave"}
  /\ mutex \in Ids \cup {None} /\ \A c \in Ids : At(c, "write") <=> mutex = c

(* What the server, a pipe or the stream holds was sent before.            *)
IsSent(c) == at[c] \in {"posted", "wait", "leave", "done"}

OnlySentIsAnswered ==
  /\ \A c \in server.hand : IsSent(c)
  /\ \A i \in 1 .. Len(stdin) : IsSent(stdin[i])
  /\ \A i \in 1 .. Len(answers) : answers[i] \in answered
  /\ \A c \in answered : IsSent(c)

(* The reader has an id in its hand only between reading an answer and     *)
(* handing it over.                                                        *)
ReaderHolds ==
  /\ reader.at \in {"lookup", "send"} => reader.id \in answered
  /\ reader.at \notin {"lookup", "send"} => reader.id = None

(* What is on its way to a request that wants it. *)
Coming(c) == (\E i \in 1 .. Len(answers) : answers[i] = c) \/ reader.id = c \/ c \in arrived

NothingIsLost ==
  stream = "open" /\ ~closed =>
    \A c \in answered : at[c] \in {"posted", "wait"} => Coming(c)

RpcInv == RpcTyped /\ Registered /\ OnlySentIsAnswered /\ ReaderHolds /\ NothingIsLost

--------------------------------------------------------------------------------

USE DEF At, Goes, ReaderGoes

LEMMA RpcInitially == RpcInit => RpcInv
<1> SUFFICES ASSUME RpcInit PROVE RpcInv
  OBVIOUS
<1>1. PipeCap \in Nat /\ Len(<<>>) = 0 /\ <<>> \in Seq(Ids)
  BY RpcAssumption
<1>2. RpcTyped
  <2>1. /\ at \in [Ids -> CallLabels] /\ closed \in BOOLEAN
        /\ answered \subseteq Ids /\ arrived \subseteq answered
    BY DEF RpcInit, CallLabels
  <2>2. server \in [up : BOOLEAN, hand : SUBSET Ids]
    BY DEF RpcInit
  <2>3. reader \in [at : ReaderLabels, id : Ids \cup {None}]
    BY DEF RpcInit, ReaderLabels
  <2>4. /\ stdin \in Seq(Ids) /\ answers \in Seq(Ids)
        /\ Len(stdin) <= PipeCap /\ Len(answers) <= PipeCap
    BY <1>1 DEF RpcInit
  <2>5. QED
    BY <2>1, <2>2, <2>3, <2>4 DEF RpcTyped
<1>3. Registered
  BY RpcAssumption DEF RpcInit, Registered
<1>4. OnlySentIsAnswered
  BY <1>1 DEF RpcInit, OnlySentIsAnswered
<1>5. ReaderHolds /\ NothingIsLost
  BY DEF RpcInit, ReaderHolds, NothingIsLost
<1>6. QED
  BY <1>2, <1>3, <1>4, <1>5 DEF RpcInv

(* The invariant gives the property: sets of sequences are their elements. *)
LEMMA RpcInvGives == RpcInv => AnswersAreNotLost
<1> SUFFICES ASSUME RpcInv PROVE AnswersAreNotLost
  OBVIOUS
<1>1. /\ DOMAIN stdin = 1 .. Len(stdin) /\ DOMAIN answers = 1 .. Len(answers)
      /\ \A i \in 1 .. Len(stdin) : stdin[i] \in Ids
      /\ \A i \in 1 .. Len(answers) : answers[i] \in Ids
  BY DEF RpcInv, RpcTyped
<1>2. /\ ToSet(answers) = {answers[i] : i \in 1 .. Len(answers)}
      /\ ToSet(stdin) = {stdin[i] : i \in 1 .. Len(stdin)}
  BY <1>1 DEF ToSet
<1>3. ToSet(stdin) \cup ToSet(answers) \subseteq Ids
  BY <1>1, <1>2
<1>4. RpcTypeOK
  <2>1. pending = {c \in Ids : at[c] \in {"send", "write", "posted", "wait", "leave"}}
    BY DEF RpcInv, Registered
  <2>2. {c \in Ids : At(c, "write")} = {mutex} \ {None}
    BY RpcAssumption DEF RpcInv, Registered
  <2>3. server.hand \subseteq Ids /\ reader.at \in ReaderLabels
    BY DEF RpcInv, RpcTyped
  <2>4. QED
    BY <1>3, <2>1, <2>2, <2>3 DEF RpcInv, RpcTyped, RpcTypeOK, ReaderLabels
<1>5. ASSUME stream = "open", ~closed, NEW c \in answered, at[c] \in {"write", "posted", "wait"}
      PROVE  c \in ToSet(answers) \cup {reader.id} \cup arrived
  <2>1. at[c] \in {"posted", "wait"}
    BY <1>5 DEF RpcInv, OnlySentIsAnswered, IsSent
  <2>2. Coming(c)
    BY <1>5, <2>1 DEF RpcInv, NothingIsLost
  <2>3. QED
    BY <1>2, <2>2 DEF Coming
<1>6. QED
  BY <1>4, <1>5 DEF AnswersAreNotLost

--------------------------------------------------------------------------------
(* The steps of a call *)

(* A call goes on, and neither the answers nor what was sent change: it    *)
(* does not go back, nor does it begin to want an answer it had none of.   *)
LEMMA CallGoes ==
  ASSUME RpcInv, NEW c \in Ids, NEW l \in CallLabels, at' = [at EXCEPT ![c] = l],
         IsSent(c) => l \in {"posted", "wait", "leave", "done"},
         l \in {"posted", "wait"} => c \notin answered \/ at[c] \in {"posted", "wait"},
         UNCHANGED <<arrived, reader, answers, stream, answered, closed>>
  PROVE  /\ at' \in [Ids -> CallLabels] /\ at'[c] = l /\ \A d \in Ids : d # c => at'[d] = at[d]
         /\ \A d \in Ids : IsSent(d) => IsSent(d)'
         /\ ReaderHolds' /\ NothingIsLost'
<1>1. at' \in [Ids -> CallLabels] /\ at'[c] = l /\ \A d \in Ids : d # c => at'[d] = at[d]
  BY DEF RpcInv, RpcTyped
<1>2. \A d \in Ids : IsSent(d) => IsSent(d)'
  BY <1>1 DEF IsSent
<1>3. ReaderHolds'
  BY DEF RpcInv, ReaderHolds
<1>4. NothingIsLost'
  <2> SUFFICES ASSUME stream = "open", ~closed, NEW d \in answered, at'[d] \in {"posted", "wait"}
               PROVE  Coming(d)'
    BY DEF NothingIsLost
  <2>1. d \in Ids
    BY DEF RpcInv, RpcTyped
  <2>2. at[d] \in {"posted", "wait"}
    BY <1>1, <2>1
  <2>3. Coming(d)
    BY <2>2 DEF RpcInv, NothingIsLost
  <2>4. QED
    BY <2>3 DEF Coming
<1>5. QED
  BY <1>1, <1>2, <1>3, <1>4

(* What was sent stays sent, when the pipes, the stream and the server     *)
(* hold no more than they did.                                             *)
LEMMA SentStays ==
  ASSUME RpcInv, \A d \in Ids : IsSent(d) => IsSent(d)',
         UNCHANGED <<stdin, answers, answered>>, server'.hand \subseteq server.hand
  PROVE  OnlySentIsAnswered'
<1>1. \A i \in 1 .. Len(stdin) : stdin[i] \in Ids
  BY DEF RpcInv, RpcTyped
<1>2. server.hand \subseteq Ids /\ answered \subseteq Ids
  BY DEF RpcInv, RpcTyped
<1>3. /\ \A d \in server.hand : IsSent(d)
      /\ \A i \in 1 .. Len(stdin) : IsSent(stdin[i])
      /\ \A i \in 1 .. Len(answers) : answers[i] \in answered
      /\ \A d \in answered : IsSent(d)
  BY DEF RpcInv, OnlySentIsAnswered
<1>4. QED
  BY <1>1, <1>2, <1>3 DEF OnlySentIsAnswered

(* A step that keeps the pipes, the server and what was sent. *)
LEMMA CallMoves ==
  ASSUME RpcInv, NEW c \in Ids, NEW l \in CallLabels, at' = [at EXCEPT ![c] = l],
         IsSent(c) => l \in {"wait", "leave", "done"},
         l \in {"posted", "wait"} => at[c] \in {"posted", "wait"},
         UNCHANGED <<arrived, reader, answers, stream, answered, closed, stdin>>,
         server' \in [up : BOOLEAN, hand : SUBSET Ids], server'.hand \subseteq server.hand,
         Registered'
  PROVE  RpcInv'
<1>1. /\ at' \in [Ids -> CallLabels] /\ \A d \in Ids : IsSent(d) => IsSent(d)'
      /\ ReaderHolds' /\ NothingIsLost'
  BY CallGoes
<1>2. OnlySentIsAnswered'
  BY <1>1, SentStays
<1>3. RpcTyped'
  BY <1>1 DEF RpcInv, RpcTyped
<1>4. QED
  BY <1>1, <1>2, <1>3 DEF RpcInv

LEMMA RpcTypes ==
  ASSUME RpcInv
  PROVE  /\ at \in [Ids -> CallLabels] /\ server \in [up : BOOLEAN, hand : SUBSET Ids]
         /\ Registered
BY DEF RpcInv, RpcTyped

LEMMA BeginStep ==
  ASSUME RpcInv, NEW c \in Ids, Begin(c)
  PROVE  RpcInv'
<1> DEFINE l == IF closed /\ transport = "stdio" THEN "done" ELSE "register"
<1>1. l \in {"done", "register"} /\ l \in CallLabels
  BY DEF CallLabels
<1>2. at' = [at EXCEPT ![c] = l] /\ at[c] = "idle"
  BY DEF Begin
<1> HIDE DEF l
<1>3. Registered'
  BY <1>1, <1>2, RpcTypes DEF Registered, Begin
<1>4. QED
  BY <1>1, <1>2, <1>3, RpcTypes, CallMoves DEF Begin, IsSent, linkVars

LEMMA RegisterStep ==
  ASSUME RpcInv, NEW c \in Ids, Register(c)
  PROVE  RpcInv'
<1>1. Registered'
  BY RpcTypes DEF Registered, Register
<1>2. "send" \in CallLabels
  BY DEF CallLabels
<1>3. QED
  BY <1>1, <1>2, RpcTypes, CallMoves DEF Register, IsSent, linkVars

LEMMA LockStep ==
  ASSUME RpcInv, NEW c \in Ids, Lock(c)
  PROVE  RpcInv'
<1>1. Registered'
  BY RpcTypes, RpcAssumption DEF Registered, Lock
<1>2. "write" \in CallLabels
  BY DEF CallLabels
<1>3. QED
  BY <1>1, <1>2, RpcTypes, CallMoves DEF Lock, IsSent, linkVars

LEMMA WriteFailsStep ==
  ASSUME RpcInv, NEW c \in Ids, WriteFails(c)
  PROVE  RpcInv'
<1>1. Registered'
  BY RpcTypes, RpcAssumption DEF Registered, WriteFails
<1>2. "leave" \in CallLabels
  BY DEF CallLabels
<1>3. QED
  BY <1>1, <1>2, RpcTypes, CallMoves DEF WriteFails, IsSent, linkVars

LEMMA ReceiveStep ==
  ASSUME RpcInv, NEW c \in Ids, Receive(c) \/ GiveUp(c)
  PROVE  RpcInv'
<1>1. Registered'
  BY RpcTypes DEF Registered, Receive, GiveUp
<1>2. "leave" \in CallLabels
  BY DEF CallLabels
<1>3. QED
  BY <1>1, <1>2, RpcTypes, CallMoves DEF Receive, GiveUp, IsSent, linkVars

LEMMA LeaveStep ==
  ASSUME RpcInv, NEW c \in Ids, Leave(c)
  PROVE  RpcInv'
<1>1. Registered'
  BY RpcTypes DEF Registered, Leave
<1>2. "done" \in CallLabels
  BY DEF CallLabels
<1>3. QED
  BY <1>1, <1>2, RpcTypes, CallMoves DEF Leave, IsSent, linkVars

LEMMA PostReturnsStep ==
  ASSUME RpcInv, NEW c \in Ids, PostReturns(c)
  PROVE  RpcInv'
<1>1. PICK l \in {"wait", "leave"} : at' = [at EXCEPT ![c] = l]
  BY DEF PostReturns
<1>2. /\ server' \in [up : BOOLEAN, hand : SUBSET Ids] /\ server'.hand \subseteq server.hand
  BY RpcTypes DEF PostReturns
<1>3. Registered'
  BY <1>1, RpcTypes DEF Registered, PostReturns
<1>4. l \in CallLabels
  BY <1>1 DEF CallLabels
<1>5. QED
  BY <1>1, <1>2, <1>3, <1>4, CallMoves DEF PostReturns, IsSent

(* Who is about to send was not answered. *)
LEMMA UnsentIsUnanswered ==
  ASSUME RpcInv, NEW c \in Ids, at[c] \in {"send", "write"}
  PROVE  c \notin answered
BY DEF RpcInv, OnlySentIsAnswered, IsSent

LEMMA PostStep ==
  ASSUME RpcInv, NEW c \in Ids, Post(c)
  PROVE  RpcInv'
<1>1. at' = [at EXCEPT ![c] = "posted"] /\ at[c] = "send" /\ "posted" \in CallLabels
  BY DEF Post, CallLabels
<1>2. UNCHANGED <<arrived, reader, answers, stream, answered, closed, stdin, pending, mutex>>
  BY DEF Post
<1>3. /\ at' \in [Ids -> CallLabels] /\ at'[c] = "posted"
      /\ \A d \in Ids : d # c => at'[d] = at[d]
      /\ \A d \in Ids : IsSent(d) => IsSent(d)'
      /\ ReaderHolds' /\ NothingIsLost'
  BY <1>1, <1>2, UnsentIsUnanswered, CallGoes
<1>4. /\ server' \in [up : BOOLEAN, hand : SUBSET Ids] /\ server'.hand \subseteq server.hand \cup {c}
  BY RpcTypes DEF Post
<1>5. OnlySentIsAnswered'
  <2>1. IsSent(c)'
    BY <1>3 DEF IsSent
  <2>2. \A i \in 1 .. Len(stdin) : stdin[i] \in Ids
    BY DEF RpcInv, RpcTyped
  <2>3. server.hand \subseteq Ids /\ answered \subseteq Ids
    BY DEF RpcInv, RpcTyped
  <2>4. /\ \A d \in server.hand : IsSent(d)
        /\ \A i \in 1 .. Len(stdin) : IsSent(stdin[i])
        /\ \A i \in 1 .. Len(answers) : answers[i] \in answered
        /\ \A d \in answered : IsSent(d)
    BY DEF RpcInv, OnlySentIsAnswered
  <2>5. QED
    BY <1>2, <1>3, <1>4, <2>1, <2>2, <2>3, <2>4 DEF OnlySentIsAnswered
<1>6. RpcTyped'
  BY <1>2, <1>3, <1>4 DEF RpcInv, RpcTyped
<1>7. Registered'
  BY <1>1, <1>2, <1>3, RpcTypes DEF Registered
<1>8. QED
  BY <1>3, <1>5, <1>6, <1>7 DEF RpcInv

LEMMA WriteStep ==
  ASSUME RpcInv, NEW c \in Ids, Write(c)
  PROVE  RpcInv'
<1>1. at' = [at EXCEPT ![c] = "wait"] /\ at[c] = "write" /\ "wait" \in CallLabels
  BY DEF Write, CallLabels
<1>2. UNCHANGED <<arrived, reader, answers, stream, answered, closed, server, pending>>
  BY DEF Write
<1>3. /\ at' \in [Ids -> CallLabels] /\ at'[c] = "wait"
      /\ \A d \in Ids : d # c => at'[d] = at[d]
      /\ \A d \in Ids : IsSent(d) => IsSent(d)'
      /\ ReaderHolds' /\ NothingIsLost'
  BY <1>1, <1>2, UnsentIsUnanswered, CallGoes
<1>4. stdin \in Seq(Ids) /\ Len(stdin) \in Nat /\ Len(stdin) < PipeCap /\ PipeCap \in Nat
  BY RpcAssumption DEF RpcInv, RpcTyped, Write
<1>5. /\ stdin' \in Seq(Ids) /\ Len(stdin') = Len(stdin) + 1 /\ stdin'[Len(stdin) + 1] = c
      /\ \A i \in 1 .. Len(stdin) : stdin'[i] = stdin[i] /\ stdin[i] \in Ids
  BY <1>4 DEF Write
<1>6. OnlySentIsAnswered'
  <2>1. server.hand \subseteq Ids /\ answered \subseteq Ids
    BY DEF RpcInv, RpcTyped
  <2>2. /\ \A d \in server.hand : IsSent(d)
        /\ \A i \in 1 .. Len(stdin) : IsSent(stdin[i])
        /\ \A i \in 1 .. Len(answers) : answers[i] \in answered
        /\ \A d \in answered : IsSent(d)
    BY DEF RpcInv, OnlySentIsAnswered
  <2>3. ASSUME NEW i \in 1 .. Len(stdin')
        PROVE  at'[stdin'[i]] \in {"posted", "wait", "leave", "done"}
    <3>1. i \in 1 .. Len(stdin) \/ i = Len(stdin) + 1
      BY <1>4, <1>5
    <3>2. CASE i \in 1 .. Len(stdin)
      <4>1. IsSent(stdin[i]) /\ stdin[i] \in Ids /\ stdin'[i] = stdin[i]
        BY <1>5, <2>2, <3>2
      <4>2. QED
        BY <1>3, <4>1 DEF IsSent
    <3>3. CASE i = Len(stdin) + 1
      BY <1>3, <1>5, <3>3
    <3>4. QED
      BY <3>1, <3>2, <3>3
  <2>4. \A d \in Ids : IsSent(d) => at'[d] \in {"posted", "wait", "leave", "done"}
    BY <1>3 DEF IsSent
  <2>5. /\ \A d \in server'.hand : at'[d] \in {"posted", "wait", "leave", "done"}
        /\ \A d \in answered' : at'[d] \in {"posted", "wait", "leave", "done"}
        /\ \A i \in 1 .. Len(answers') : answers'[i] \in answered'
    BY <1>2, <2>1, <2>2, <2>4
  <2>6. QED
    BY <2>3, <2>5 DEF OnlySentIsAnswered, IsSent
<1>7. RpcTyped'
  BY <1>2, <1>3, <1>4, <1>5 DEF RpcInv, RpcTyped
<1>8. Registered'
  BY <1>1, <1>2, <1>3, RpcTypes, RpcAssumption DEF Registered, Write
<1>9. QED
  BY <1>3, <1>6, <1>7, <1>8 DEF RpcInv

--------------------------------------------------------------------------------
(* The steps of the reader, the server and the manager *)

(* A step between calls: nobody's place changes, and while the stream is   *)
(* open what is answered is on its way and what is on its way stays so.    *)
LEMMA LinkMoves ==
  ASSUME RpcInv, UNCHANGED <<at, pending, mutex>>,
         RpcTyped', ReaderHolds', OnlySentIsAnswered',
         stream' = "open" /\ ~closed' => stream = "open" /\ ~closed,
         stream' = "open" =>
           \A c \in answered' : at[c] \in {"posted", "wait"} /\ (c \in answered => Coming(c)) =>
             Coming(c)'
  PROVE  RpcInv'
<1>1. Registered'
  BY DEF RpcInv, Registered
<1>2. NothingIsLost'
  <2> SUFFICES ASSUME stream' = "open", ~closed', NEW c \in answered', at'[c] \in {"posted", "wait"}
               PROVE  Coming(c)'
    BY DEF NothingIsLost
  <2>1. c \in answered => Coming(c)
    BY DEF RpcInv, NothingIsLost
  <2>2. QED
    BY <2>1
<1>3. QED
  BY <1>1, <1>2 DEF RpcInv

(* What the invariant says of the things that move. *)
LEMMA LinkTypes ==
  ASSUME RpcInv
  PROVE  /\ server \in [up : BOOLEAN, hand : SUBSET Ids] /\ server.hand \subseteq Ids
         /\ reader \in [at : ReaderLabels, id : Ids \cup {None}]
         /\ stdin \in Seq(Ids) /\ answers \in Seq(Ids) /\ Len(stdin) \in Nat /\ Len(answers) \in Nat
         /\ \A i \in 1 .. Len(stdin) : stdin[i] \in Ids
         /\ Len(stdin) <= PipeCap /\ Len(answers) <= PipeCap /\ PipeCap \in Nat
         /\ answered \subseteq Ids /\ arrived \subseteq answered /\ None \notin Ids
         /\ closed \in BOOLEAN /\ at \in [Ids -> CallLabels]
<1>1. stdin \in Seq(Ids) /\ answers \in Seq(Ids)
  BY DEF RpcInv, RpcTyped
<1>2. /\ Len(stdin) \in Nat /\ Len(answers) \in Nat /\ \A i \in 1 .. Len(stdin) : stdin[i] \in Ids
  BY <1>1
<1>3. server.hand \subseteq Ids
  BY DEF RpcInv, RpcTyped
<1>4. QED
  BY <1>1, <1>2, <1>3, RpcAssumption DEF RpcInv, RpcTyped

LEMMA SentOnly ==
  ASSUME RpcInv
  PROVE  /\ \A c \in server.hand : IsSent(c)
         /\ \A i \in 1 .. Len(stdin) : IsSent(stdin[i])
         /\ \A i \in 1 .. Len(answers) : answers[i] \in answered
         /\ \A c \in answered : IsSent(c)
BY DEF RpcInv, OnlySentIsAnswered

(* The reader's own place does not matter while it holds no answer. *)
LEMMA ReaderIdles ==
  ASSUME RpcInv, NEW l \in {"check", "read", "gone"}, reader' = [at |-> l, id |-> None],
         reader.id = None \/ at[reader.id] \notin {"posted", "wait"},
         UNCHANGED <<at, pending, mutex, arrived, closed, linkVars, answered>>
  PROVE  RpcInv'
<1>1. /\ reader' \in [at : ReaderLabels, id : Ids \cup {None}]
      /\ reader'.at = l /\ reader'.id = None
  BY DEF ReaderLabels
<1>2. UNCHANGED <<stdin, server, answers, stream>>
  BY DEF linkVars
<1>3. RpcTyped'
  BY <1>1, <1>2 DEF RpcInv, RpcTyped
<1>4. ReaderHolds'
  BY <1>1 DEF ReaderHolds
<1>5. OnlySentIsAnswered'
  BY <1>2, SentOnly DEF OnlySentIsAnswered, IsSent
<1>6. ASSUME NEW c \in answered, at[c] \in {"posted", "wait"}, Coming(c) PROVE Coming(c)'
  <2>1. c # None
    BY LinkTypes
  <2>2. reader.id # c
    BY <1>6, <2>1
  <2>3. QED
    BY <1>2, <1>6, <2>2 DEF Coming
<1>7. QED
  BY <1>2, <1>3, <1>4, <1>5, <1>6, LinkMoves

LEMMA CheckStep ==
  ASSUME RpcInv, Check
  PROVE  RpcInv'
<1>1. reader.id = None
  BY DEF RpcInv, ReaderHolds, Check
<1>2. PICK l \in {"gone", "read"} : reader' = [at |-> l, id |-> None]
  BY DEF Check
<1>3. QED
  BY <1>1, <1>2, ReaderIdles DEF Check

LEMMA ReadFailsStep ==
  ASSUME RpcInv, ReadFails
  PROVE  RpcInv'
<1>1. reader.id = None
  BY DEF RpcInv, ReaderHolds, ReadFails
<1>2. QED
  BY <1>1, ReaderIdles DEF ReadFails

LEMMA ReadAnswerStep ==
  ASSUME RpcInv, ReadAnswer
  PROVE  RpcInv'
<1>1. reader.id = None
  BY DEF RpcInv, ReaderHolds, ReadAnswer
<1>2. /\ UNCHANGED <<at, pending, arrived, mutex, closed, stdin, server, stream, answered>>
      /\ answers # <<>> /\ answers' = Tail(answers)
      /\ reader' = [at |-> "lookup", id |-> Head(answers)]
  BY DEF ReadAnswer
<1>3. answers \in Seq(Ids) /\ Len(answers) \in Nat
  BY LinkTypes
<1>4. /\ Len(answers) >= 1 /\ Head(answers) = answers[1] /\ answers[1] \in Ids
      /\ answers' \in Seq(Ids) /\ Len(answers') = Len(answers) - 1
      /\ \A i \in 1 .. Len(answers) - 1 : answers'[i] = answers[i + 1]
  BY <1>2, <1>3
<1>5. /\ reader' \in [at : ReaderLabels, id : Ids \cup {None}]
      /\ reader'.at = "lookup" /\ reader'.id = answers[1]
  BY <1>2, <1>4 DEF ReaderLabels
<1>6. RpcTyped'
  <2>1. Len(answers') <= PipeCap
    BY <1>3, <1>4, LinkTypes
  <2>2. QED
    BY <1>2, <1>4, <1>5, <2>1 DEF RpcInv, RpcTyped
<1>7. answers[1] \in answered /\ \A i \in 1 .. Len(answers') : answers'[i] \in answered
  BY <1>3, <1>4, SentOnly
<1>8. ReaderHolds'
  BY <1>2, <1>5, <1>7 DEF ReaderHolds
<1>9. OnlySentIsAnswered'
  BY <1>2, <1>7, SentOnly DEF OnlySentIsAnswered, IsSent
<1>10. ASSUME NEW c \in answered, Coming(c) PROVE Coming(c)'
  <2>1. CASE \E i \in 1 .. Len(answers) : answers[i] = c
    <3>1. PICK i \in 1 .. Len(answers) : answers[i] = c
      BY <2>1
    <3>2. CASE i = 1
      BY <1>5, <3>1, <3>2 DEF Coming
    <3>3. CASE i # 1
      <4>1. i - 1 \in 1 .. Len(answers') /\ answers'[i - 1] = c
        BY <1>3, <1>4, <3>1, <3>3
      <4>2. QED
        BY <4>1 DEF Coming
    <3>4. QED
      BY <3>2, <3>3
  <2>2. CASE reader.id = c
    BY <1>1, <2>2, LinkTypes
  <2>3. CASE c \in arrived
    BY <1>2, <2>3 DEF Coming
  <2>4. QED
    BY <1>10, <2>1, <2>2, <2>3 DEF Coming
<1>11. QED
  BY <1>2, <1>6, <1>8, <1>9, <1>10, LinkMoves

(* Who is not registered wants no answer any more. *)
LEMMA LookupStep ==
  ASSUME RpcInv, Lookup
  PROVE  RpcInv'
<1>1. UNCHANGED <<at, pending, arrived, mutex, closed, linkVars, answered>> /\ reader.at = "lookup"
  BY DEF Lookup
<1>2. reader.id \in answered /\ reader.id \in Ids
  BY <1>1, LinkTypes DEF RpcInv, ReaderHolds
<1>3. CASE reader.id \in pending
  <2>1. reader' = [at |-> "send", id |-> reader.id]
    BY <1>3 DEF Lookup
  <2>2. /\ reader' \in [at : ReaderLabels, id : Ids \cup {None}]
        /\ reader'.at = "send" /\ reader'.id = reader.id
    BY <1>2, <2>1 DEF ReaderLabels
  <2>3. UNCHANGED <<stdin, server, answers, stream>>
    BY <1>1 DEF linkVars
  <2>4. RpcTyped'
    BY <1>1, <2>2, <2>3 DEF RpcInv, RpcTyped
  <2>5. ReaderHolds'
    BY <1>1, <1>2, <2>2 DEF ReaderHolds
  <2>6. OnlySentIsAnswered'
    BY <1>1, <2>3, SentOnly DEF OnlySentIsAnswered, IsSent
  <2>7. \A c \in answered : Coming(c) => Coming(c)'
    BY <1>1, <2>2, <2>3 DEF Coming
  <2>8. QED
    BY <1>1, <2>3, <2>4, <2>5, <2>6, <2>7, LinkMoves
<1>4. CASE reader.id \notin pending
  <2>1. at[reader.id] \notin {"posted", "wait"}
    BY <1>2, <1>4, RpcTypes DEF Registered
  <2>2. reader' = [at |-> "check", id |-> None]
    BY <1>4 DEF Lookup
  <2>3. QED
    BY <1>1, <2>1, <2>2, ReaderIdles
<1>5. QED
  BY <1>3, <1>4

LEMMA HandOverStep ==
  ASSUME RpcInv, HandOver
  PROVE  RpcInv'
<1>1. /\ UNCHANGED <<at, pending, mutex, closed, answered>>
      /\ UNCHANGED <<stdin, server, answers, stream>>
      /\ arrived' = arrived \cup {reader.id} /\ reader.at = "send"
      /\ reader' = [at |-> "check", id |-> None]
  BY DEF HandOver, linkVars
<1>2. reader.id \in answered
  BY <1>1 DEF RpcInv, ReaderHolds
<1>3. /\ reader' \in [at : ReaderLabels, id : Ids \cup {None}]
      /\ reader'.at = "check" /\ reader'.id = None
  BY <1>1 DEF ReaderLabels
<1>4. RpcTyped'
  BY <1>1, <1>2, <1>3 DEF RpcInv, RpcTyped
<1>5. ReaderHolds'
  BY <1>3 DEF ReaderHolds
<1>6. OnlySentIsAnswered'
  BY <1>1, SentOnly DEF OnlySentIsAnswered, IsSent
<1>7. \A c \in answered : Coming(c) => Coming(c)'
  BY <1>1 DEF Coming
<1>8. QED
  BY <1>1, <1>4, <1>5, <1>6, <1>7, LinkMoves

LEMMA TakeStep ==
  ASSUME RpcInv, Take
  PROVE  RpcInv'
<1>1. /\ UNCHANGED <<at, pending, mutex, closed, arrived, reader>>
      /\ UNCHANGED <<answers, stream, answered>>
      /\ stdin # <<>> /\ stdin' = Tail(stdin)
      /\ server' = [server EXCEPT !.hand = {Head(stdin)}]
  BY DEF Take, clientVars
<1>2. stdin \in Seq(Ids) /\ Len(stdin) \in Nat
  BY LinkTypes
<1>3. /\ Len(stdin) >= 1 /\ Head(stdin) = stdin[1] /\ stdin[1] \in Ids
      /\ stdin' \in Seq(Ids) /\ Len(stdin') = Len(stdin) - 1
      /\ \A i \in 1 .. Len(stdin) - 1 : stdin'[i] = stdin[i + 1]
  BY <1>1, <1>2
<1>4. server' \in [up : BOOLEAN, hand : SUBSET Ids] /\ server'.hand = {stdin[1]}
  BY <1>1, <1>3, LinkTypes
<1>5. RpcTyped'
  <2>1. Len(stdin') <= PipeCap
    BY <1>2, <1>3, LinkTypes
  <2>2. QED
    BY <1>1, <1>3, <1>4, <2>1 DEF RpcInv, RpcTyped
<1>6. ReaderHolds'
  BY <1>1 DEF RpcInv, ReaderHolds
<1>7. OnlySentIsAnswered'
  <2>1. IsSent(stdin[1])
    BY <1>2, <1>3, SentOnly
  <2>2. \A i \in 1 .. Len(stdin') : at[stdin'[i]] \in {"posted", "wait", "leave", "done"}
    BY <1>2, <1>3, SentOnly DEF IsSent
  <2>3. QED
    BY <1>1, <1>4, <2>1, <2>2, SentOnly DEF OnlySentIsAnswered, IsSent
<1>8. \A c \in answered : Coming(c) => Coming(c)'
  BY <1>1 DEF Coming
<1>9. QED
  BY <1>1, <1>5, <1>6, <1>7, <1>8, LinkMoves

LEMMA AnswerStep ==
  ASSUME RpcInv, NEW c \in Ids, Answer(c)
  PROVE  RpcInv'
<1>1. /\ UNCHANGED <<at, pending, mutex, closed, arrived, reader>>
      /\ UNCHANGED <<stdin, stream>>
      /\ answers' = Append(answers, c) /\ answered' = answered \cup {c}
      /\ c \in server.hand /\ Len(answers) < PipeCap
  BY DEF Answer, clientVars
<1>2. answers \in Seq(Ids) /\ Len(answers) \in Nat
  BY LinkTypes
<1>3. /\ answers' \in Seq(Ids) /\ Len(answers') = Len(answers) + 1
      /\ answers'[Len(answers) + 1] = c
      /\ \A i \in 1 .. Len(answers) : answers'[i] = answers[i]
  BY <1>1, <1>2
<1>4. server' \in [up : BOOLEAN, hand : SUBSET Ids] /\ server'.hand \subseteq server.hand
  BY LinkTypes DEF Answer
<1>5. RpcTyped'
  <2>1. Len(answers') <= PipeCap
    BY <1>1, <1>2, <1>3, LinkTypes
  <2>2. answered' \subseteq Ids /\ arrived' \subseteq answered'
    BY <1>1, LinkTypes
  <2>3. QED
    BY <1>1, <1>3, <1>4, <2>1, <2>2 DEF RpcInv, RpcTyped
<1>6. ReaderHolds'
  BY <1>1 DEF RpcInv, ReaderHolds
<1>7. OnlySentIsAnswered'
  <2>1. \A i \in 1 .. Len(answers') : answers'[i] \in answered'
    BY <1>1, <1>2, <1>3, SentOnly
  <2>2. QED
    BY <1>1, <1>4, <2>1, SentOnly DEF OnlySentIsAnswered, IsSent
<1>8. ASSUME NEW d \in answered, Coming(d) PROVE Coming(d)'
  <2>1. CASE \E i \in 1 .. Len(answers) : answers[i] = d
    <3>1. PICK i \in 1 .. Len(answers) : answers[i] = d
      BY <2>1
    <3>2. i \in 1 .. Len(answers') /\ answers'[i] = d
      BY <1>2, <1>3, <3>1
    <3>3. QED
      BY <3>2 DEF Coming
  <2>2. QED
    BY <1>1, <1>8, <2>1 DEF Coming
<1>9. Coming(c)'
  <2>1. Len(answers) + 1 \in 1 .. Len(answers')
    BY <1>2, <1>3
  <2>2. QED
    BY <1>3, <2>1 DEF Coming
<1>10. \A d \in answered' : (d \in answered => Coming(d)) => Coming(d)'
  BY <1>1, <1>8, <1>9
<1>11. QED
  BY <1>1, <1>5, <1>6, <1>7, <1>10, LinkMoves

(* The server forgets a request, or all with the pipe to it. *)
LEMMA ServerForgets ==
  ASSUME RpcInv, UNCHANGED <<at, pending, mutex, arrived, reader>>,
         UNCHANGED <<answers, stream, answered>>,
         server' \in [up : BOOLEAN, hand : SUBSET Ids], server'.hand \subseteq server.hand,
         stdin' = stdin \/ stdin' = <<>>, closed' \in BOOLEAN, closed => closed'
  PROVE  RpcInv'
<1>1. stdin' \in Seq(Ids) /\ Len(stdin') <= PipeCap
  <2>1. <<>> \in Seq(Ids) /\ Len(<<>>) = 0 /\ 0 <= PipeCap
    BY LinkTypes
  <2>2. QED
    BY <2>1, LinkTypes
<1>2. RpcTyped'
  BY <1>1 DEF RpcInv, RpcTyped
<1>3. ReaderHolds'
  BY DEF RpcInv, ReaderHolds
<1>4. OnlySentIsAnswered'
  <2>1. CASE stdin' = stdin
    BY <2>1, SentOnly DEF OnlySentIsAnswered, IsSent
  <2>2. CASE stdin' = <<>>
    <3>1. 1 .. Len(stdin') = {}
      BY <2>2
    <3>2. QED
      BY <3>1, SentOnly DEF OnlySentIsAnswered, IsSent
  <2>3. QED
    BY <2>1, <2>2
<1>5. \A c \in answered : Coming(c) => Coming(c)'
  BY DEF Coming
<1>6. QED
  BY <1>2, <1>3, <1>4, <1>5, LinkMoves

LEMMA DropStep ==
  ASSUME RpcInv, NEW c \in Ids, Drop(c)
  PROVE  RpcInv'
<1>1. server' \in [up : BOOLEAN, hand : SUBSET Ids] /\ server'.hand \subseteq server.hand
  BY LinkTypes DEF Drop
<1>2. QED
  BY <1>1, LinkTypes, ServerForgets DEF Drop, clientVars

LEMMA DownTyped == Down \in [up : BOOLEAN, hand : SUBSET Ids] /\ Down.hand = {}
BY DEF Down

LEMMA DieStep ==
  ASSUME RpcInv, Die
  PROVE  RpcInv'
BY DownTyped, LinkTypes, ServerForgets DEF Die, clientVars

LEMMA CloseStep ==
  ASSUME RpcInv, Close
  PROVE  RpcInv'
<1>1. /\ server' \in [up : BOOLEAN, hand : SUBSET Ids] /\ server'.hand \subseteq server.hand
      /\ stdin' = stdin \/ stdin' = <<>>
  BY DownTyped, LinkTypes DEF Close
<1>2. QED
  BY <1>1, ServerForgets DEF Close

LEMMA StoreStep ==
  ASSUME RpcInv, Store
  PROVE  RpcInv'
BY LinkTypes, ServerForgets DEF Store, linkVars

LEMMA ContextEndsStep ==
  ASSUME RpcInv, ContextEnds
  PROVE  RpcInv'
<1>1. /\ UNCHANGED <<at, pending, mutex, arrived, reader, closed>>
      /\ UNCHANGED <<stdin, server, answered>> /\ stream' = "cut" /\ answers' = <<>>
  BY DEF ContextEnds
<1>2. answers' \in Seq(Ids) /\ Len(answers') = 0 /\ 1 .. Len(answers') = {} /\ 0 <= PipeCap
  BY <1>1, LinkTypes
<1>3. RpcTyped'
  BY <1>1, <1>2 DEF RpcInv, RpcTyped
<1>4. ReaderHolds'
  BY <1>1 DEF RpcInv, ReaderHolds
<1>5. OnlySentIsAnswered'
  BY <1>1, <1>2, SentOnly DEF OnlySentIsAnswered, IsSent
<1>6. QED
  BY <1>1, <1>3, <1>4, <1>5, LinkMoves

--------------------------------------------------------------------------------
(* The theorems *)

LEMMA RpcInductive == RpcInv /\ [RpcNext]_rpcVars => RpcInv'
<1> SUFFICES ASSUME RpcInv, [RpcNext]_rpcVars PROVE RpcInv'
  OBVIOUS
<1>1. ASSUME NEW c \in Ids, Begin(c) \/ CallStep(c) PROVE RpcInv'
  BY <1>1, BeginStep, RegisterStep, LockStep, WriteStep, WriteFailsStep, PostStep,
     PostReturnsStep, ReceiveStep, LeaveStep
  DEF CallStep
<1>2. ASSUME ReaderStep PROVE RpcInv'
  BY <1>2, CheckStep, ReadAnswerStep, ReadFailsStep, LookupStep, HandOverStep DEF ReaderStep
<1>3. ASSUME ServerStep PROVE RpcInv'
  BY <1>3, TakeStep, AnswerStep, DropStep DEF ServerStep
<1>4. ASSUME Die \/ Store \/ ContextEnds \/ Close PROVE RpcInv'
  BY <1>4, DieStep, StoreStep, ContextEndsStep, CloseStep
<1>5. CASE UNCHANGED rpcVars
  BY <1>5, LinkTypes, ServerForgets DEF rpcVars, clientVars, linkVars
<1>6. QED
  BY <1>1, <1>2, <1>3, <1>4, <1>5 DEF RpcNext

(* The invariant of a client (infrastructure/mcp/stdio_client.go and       *)
(* sse_client.go) with its requests, its reader and its server.            *)
THEOREM RpcInvariant == RpcSpec => []RpcInv
BY RpcInitially, RpcInductive, PTL DEF RpcSpec

(* What a server answered to a request that still wants it is on its way   *)
(* (call and readLoop): in the stream, with the reader or in the channel.  *)
THEOREM AnswersArrive == RpcSpec => []AnswersAreNotLost
BY RpcInvariant, RpcInvGives, PTL
================================================================================
