--------------------------- MODULE ConversationProofs ---------------------------
(* Proofs about what a chat leaves behind: counts are backed by messages,  *)
(* runs in sequence count everything, results stand behind their calls and *)
(* answers come back as history; for any sessions, runs, rounds, restarts  *)
(* and length of the history, over either repository.                      *)
EXTENDS Conversation, SequenceTheorems, FiniteSetTheorems, TLAPS

Places == {"idle", "resolved", "read", "loop", "resumed", "asking", "calling", "closing", "over"}

RunStates ==
  [at : Places, session : Sessions \cup {None}, count : Nat, history : Seq(MessageIds),
   knew : SUBSET Runs, round : 0 .. MaxRounds]

Exports == [session : Sessions, count : Nat, messages : Seq(MessageIds), clipped : BOOLEAN]

ConversationTyped ==
  /\ backend \in {"mysql", "memory"}
  /\ rows \in [Sessions -> Nat \cup {None}]
  /\ messages \in [Sessions -> Seq(MessageIds)] /\ lost \in [Sessions -> Seq(MessageIds)]
  /\ run \in [Runs -> RunStates]
  /\ export \in Exports \cup {None} /\ file \in Exports \cup {None}
  /\ imported \subseteq generated /\ generated \subseteq Sessions /\ clipped \subseteq imported
  /\ answered \subseteq Runs
  /\ \A r \in Runs : Len(run[r].history) <= HistoryLimit

(* Only sessions that were generated are worked on, stored or exported.    *)
RunsHaveSessions ==
  /\ \A r \in Runs : Active(r) => run[r].session \in generated
  /\ \A r \in answered : run[r].session \in generated
  /\ \A s \in Sessions \ generated : rows[s] = None /\ messages[s] = <<>> /\ lost[s] = <<>>
  /\ \A e \in {export, file} \ {None} : e.session \in generated

(* What mysql exported it still has.                                       *)
FileIsStored ==
  backend = "mysql" /\ file # None =>
    \A i \in 1 .. Len(file.messages) :
      \E s \in Sessions : Contains(messages[s], file.messages[i])

MemoryLosesNothing == backend = "memory" => \A s \in Sessions : lost[s] = <<>>

ConversationInv == ConversationTyped /\ RunsHaveSessions /\ FileIsStored /\ MemoryLosesNothing

--------------------------------------------------------------------------------
(* What is counted *)

Counted(store, gone, s) == Said(store[s]) + Said(gone[s])

(* mysql imports the count without the messages, and of an export at its   *)
(* limit the oldest messages are gone.                                     *)
CountIsImported(s) == (backend = "mysql" /\ s \in imported) \/ s \in clipped

CountsInv ==
  /\ \A s \in Sessions : rows[s] # None /\ ~CountIsImported(s) => rows[s] <= Counted(messages, lost, s)
  /\ \A r \in Runs :
       LET s == run[r].session
       IN Active(r) /\ ~CountIsImported(s) => run[r].count <= Counted(messages, lost, s)
  /\ export # None =>
       /\ export.session \in clipped => export.clipped
       /\ ~CountIsImported(export.session) => export.count <= Counted(messages, lost, export.session)
  /\ file # None /\ backend = "memory" /\ ~file.clipped => file.count <= Said(file.messages)

SerialInv ==
  \A s \in generated \ (overlapped \cup imported) :
    /\ \A r, o \in Runs : WorksOn(r, s) /\ WorksOn(o, s) => r = o
    /\ rows[s] # None /\ (\A r \in Runs : ~WorksOn(r, s)) => rows[s] = Counted(messages, lost, s)
    /\ \A r \in Runs : WorksOn(r, s) =>
         /\ run[r].count = Counted(messages, lost, s)
         /\ At(r, "resolved") => rows[s] \in {None, Counted(messages, lost, s)}

FollowsCalls(seq, gone) ==
  \A i \in DOMAIN seq :
    LET call == <<seq[i][1], "call", seq[i][3]>>
    IN seq[i][2] = "result" => (\E j \in 1 .. i - 1 : seq[j] = call) \/ Contains(gone, call)

ResultsInv ==
  /\ \A s \in Sessions \ clipped : FollowsCalls(messages[s], lost[s])
  /\ export # None => (export.session \in clipped => export.clipped)
  /\ file # None /\ backend = "memory" /\ ~file.clipped => FollowsCalls(file.messages, <<>>)
  /\ \A r \in Runs : At(r, "calling") =>
       \/ Contains(messages[run[r].session], Message(r, "call"))
       \/ Contains(lost[run[r].session], Message(r, "call"))

(* The answer of a run is the last it says in its session.                 *)
EndsWithAnswer(r, seq) ==
  \E i \in DOMAIN seq : /\ seq[i][1] = r /\ seq[i][2] = "answer"
                        /\ \A j \in DOMAIN seq : seq[j][1] = r => j <= i

AnswersInv ==
  /\ \A r \in answered : run[r].at \in {"closing", "over"} /\ EndsWithAnswer(r, messages[run[r].session])
  /\ AnswersAreRemembered

--------------------------------------------------------------------------------
(* Sequences of messages *)

LEMMA SpokenIsNat ==
  ASSUME NEW seq \in Seq(MessageIds)
  PROVE  Said(seq) \in Nat /\ IsFiniteSet({i \in DOMAIN seq : seq[i][2] \in Spoken})
<1>1. IsFiniteSet(1 .. Len(seq))
  BY FS_Interval, LenProperties
<1>2. {i \in DOMAIN seq : seq[i][2] \in Spoken} \subseteq 1 .. Len(seq)
  BY LenProperties
<1>3. QED
  BY <1>1, <1>2, FS_Subset, FS_CardinalityType DEF Said

LEMMA SpokenOfNone == Said(<<>>) = 0
<1>1. {i \in DOMAIN <<>> : <<>>[i][2] \in Spoken} = {}
  OBVIOUS
<1>2. QED
  BY <1>1, FS_EmptySet DEF Said

LEMMA SpokenAppend ==
  ASSUME NEW seq \in Seq(MessageIds), NEW m \in MessageIds
  PROVE  Said(Append(seq, m)) = Said(seq) + (IF m[2] \in Spoken THEN 1 ELSE 0)
<1> DEFINE longer == Append(seq, m)
           old == {i \in DOMAIN seq : seq[i][2] \in Spoken}
           new == {i \in DOMAIN longer : longer[i][2] \in Spoken}
<1>1. /\ longer \in Seq(MessageIds) /\ Len(longer) = Len(seq) + 1
      /\ \A i \in 1 .. Len(seq) : longer[i] = seq[i]
      /\ longer[Len(seq) + 1] = m
  BY AppendProperties
<1>2. DOMAIN seq = 1 .. Len(seq) /\ DOMAIN longer = 1 .. Len(seq) + 1 /\ Len(seq) \in Nat
  BY <1>1, LenProperties
<1>3. CASE m[2] \in Spoken
  <2>1. new = old \cup {Len(seq) + 1}
    BY <1>1, <1>2, <1>3
  <2>2. Len(seq) + 1 \notin old
    BY <1>2
  <2>3. QED
    BY <1>3, <2>1, <2>2, SpokenIsNat, FS_AddElement DEF Said
<1>4. CASE m[2] \notin Spoken
  <2>1. new = old
    BY <1>1, <1>2, <1>4
  <2>2. Said(longer) = Said(seq)
    BY <2>1 DEF Said
  <2>3. Said(seq) \in Nat
    BY SpokenIsNat
  <2>4. QED
    BY <1>4, <2>2, <2>3
<1>5. QED
  BY <1>3, <1>4

LEMMA FollowsAppend ==
  ASSUME NEW seq \in Seq(MessageIds), NEW m \in MessageIds, NEW gone, FollowsCalls(seq, gone),
         m[2] = "result" => \/ Contains(seq, <<m[1], "call", m[3]>>)
                            \/ Contains(gone, <<m[1], "call", m[3]>>)
  PROVE  FollowsCalls(Append(seq, m), gone)
<1> DEFINE longer == Append(seq, m)
           call(i) == <<longer[i][1], "call", longer[i][3]>>
<1>1. /\ Len(seq) \in Nat /\ DOMAIN seq = 1 .. Len(seq) /\ DOMAIN longer = 1 .. Len(seq) + 1
      /\ \A i \in 1 .. Len(seq) : longer[i] = seq[i]
      /\ longer[Len(seq) + 1] = m
  BY AppendProperties, LenProperties
<1> HIDE DEF longer
<1>2. ASSUME NEW i \in DOMAIN longer, longer[i][2] = "result"
      PROVE  (\E j \in 1 .. i - 1 : longer[j] = call(i)) \/ Contains(gone, call(i))
  <2>1. CASE i \in DOMAIN seq
    <3>1. longer[i] = seq[i]
      BY <1>1, <2>1
    <3>2. (\E j \in 1 .. i - 1 : seq[j] = call(i)) \/ Contains(gone, call(i))
      BY <1>2, <2>1, <3>1 DEF FollowsCalls
    <3>3. ASSUME NEW j \in 1 .. i - 1 PROVE longer[j] = seq[j]
      <4>1. j \in 1 .. Len(seq)
        BY <1>1, <2>1
      <4>2. QED
        BY <1>1, <4>1
    <3>4. QED
      BY <3>2, <3>3
  <2>2. CASE i = Len(seq) + 1
    <3>1. call(i) = <<m[1], "call", m[3]>> /\ m[2] = "result"
      BY <1>1, <1>2, <2>2
    <3>2. CASE Contains(gone, <<m[1], "call", m[3]>>)
      BY <3>1, <3>2
    <3>3. CASE Contains(seq, <<m[1], "call", m[3]>>)
      <4>1. PICK j \in 1 .. Len(seq) : seq[j] = <<m[1], "call", m[3]>>
        BY <1>1, <3>3 DEF Contains
      <4>2. j \in 1 .. i - 1 /\ longer[j] = seq[j]
        BY <1>1, <2>2
      <4>3. QED
        BY <3>1, <4>1, <4>2
    <3>4. QED
      BY <3>1, <3>2, <3>3
  <2>3. QED
    BY <1>1, <2>1, <2>2
<1>3. QED
  BY <1>2 DEF FollowsCalls, longer

(* More messages lost excuse no fewer results.                             *)
LEMMA FollowsMore ==
  ASSUME NEW seq, NEW gone, NEW more, FollowsCalls(seq, gone),
         \A m : Contains(gone, m) => Contains(more, m)
  PROVE  FollowsCalls(seq, more)
BY DEF FollowsCalls

LEMMA ContainsAppend ==
  ASSUME NEW seq \in Seq(MessageIds), NEW m \in MessageIds
  PROVE  /\ Contains(Append(seq, m), m)
         /\ \A n : Contains(seq, n) => Contains(Append(seq, m), n)
BY AppendProperties, LenProperties DEF Contains

(* What a run says once it has answered would be the only thing that could *)
(* take its answer the last place.                                         *)
LEMMA AnswerAppend ==
  ASSUME NEW seq \in Seq(MessageIds), NEW m \in MessageIds, NEW r
  PROVE  /\ m[1] # r /\ EndsWithAnswer(r, seq) => EndsWithAnswer(r, Append(seq, m))
         /\ m[1] = r /\ m[2] = "answer" => EndsWithAnswer(r, Append(seq, m))
<1>1. /\ Append(seq, m) \in Seq(MessageIds) /\ Len(Append(seq, m)) = Len(seq) + 1
      /\ \A i \in 1 .. Len(seq) : Append(seq, m)[i] = seq[i]
      /\ Append(seq, m)[Len(seq) + 1] = m
      /\ DOMAIN seq = 1 .. Len(seq) /\ DOMAIN Append(seq, m) = 1 .. Len(seq) + 1
      /\ Len(seq) \in Nat
  BY AppendProperties, LenProperties
<1>2. QED
  BY <1>1 DEF EndsWithAnswer

LEMMA NewestOf ==
  ASSUME NEW seq \in Seq(MessageIds), NEW n \in Nat
  PROVE  /\ Newest(seq, n) \in Seq(MessageIds) /\ Len(Newest(seq, n)) <= n
         /\ \/ Newest(seq, n) = seq
            \/ /\ Len(Newest(seq, n)) = n
               /\ \A i \in 1 .. n : Newest(seq, n)[i] = seq[Len(seq) - n + i]
               /\ Len(seq) > n
<1>1. Len(seq) \in Nat /\ \A i \in 1 .. Len(seq) : seq[i] \in MessageIds
  BY LenProperties, ElementOfSeq
<1>2. CASE Len(seq) <= n
  BY <1>1, <1>2 DEF Newest
<1>3. CASE Len(seq) > n
  <2> DEFINE m == Len(seq) - n + 1
  <2>1. m \in Int /\ Len(seq) \in Int /\ \A i \in m .. Len(seq) : seq[i] \in MessageIds
    BY <1>1, <1>3
  <2>2. /\ SubSeq(seq, m, Len(seq)) \in Seq(MessageIds)
        /\ Len(SubSeq(seq, m, Len(seq))) = IF m <= Len(seq) THEN Len(seq) - m + 1 ELSE 0
        /\ \A i \in 1 .. Len(seq) - m + 1 : SubSeq(seq, m, Len(seq))[i] = seq[m + i - 1]
    BY <2>1, SubSeqProperties
  <2>3. Newest(seq, n) = SubSeq(seq, m, Len(seq))
    BY <1>1, <1>3 DEF Newest
  <2>4. QED
    BY <1>1, <1>3, <2>2, <2>3
<1>4. QED
  BY <1>1, <1>2, <1>3

LEMMA NewestContained ==
  ASSUME NEW seq \in Seq(MessageIds), NEW n \in Nat, NEW i \in 1 .. Len(Newest(seq, n))
  PROVE  Contains(seq, Newest(seq, n)[i])
<1>1. Len(seq) \in Nat /\ DOMAIN seq = 1 .. Len(seq)
  BY LenProperties
<1>2. CASE Newest(seq, n) = seq
  BY <1>1, <1>2 DEF Contains
<1>3. CASE /\ Len(Newest(seq, n)) = n /\ Len(seq) > n
           /\ \A j \in 1 .. n : Newest(seq, n)[j] = seq[Len(seq) - n + j]
  <2>1. Newest(seq, n)[i] = seq[Len(seq) - n + i] /\ Len(seq) - n + i \in 1 .. Len(seq)
    BY <1>1, <1>3
  <2>2. QED
    BY <1>1, <2>1 DEF Contains
<1>4. QED
  BY <1>2, <1>3, NewestOf

(* An answer is in the newest of the messages, or nothing of its run is.   *)
LEMMA AnswerIsRemembered ==
  ASSUME NEW seq \in Seq(MessageIds), NEW n \in Nat, NEW r, EndsWithAnswer(r, seq)
  PROVE  LET heard == {m \in ToSet(Newest(seq, n)) : m[1] = r}
         IN (\E m \in heard : m[2] = "answer") \/ (heard = {} /\ Len(Newest(seq, n)) = n)
<1> DEFINE new == Newest(seq, n)
<1>1. new \in Seq(MessageIds) /\ DOMAIN new = 1 .. Len(new) /\ DOMAIN seq = 1 .. Len(seq) /\ Len(seq) \in Nat
  BY NewestOf, LenProperties
<1>2. PICK i \in 1 .. Len(seq) : /\ seq[i][1] = r /\ seq[i][2] = "answer"
                                 /\ \A j \in 1 .. Len(seq) : seq[j][1] = r => j <= i
  BY <1>1 DEF EndsWithAnswer
<1>3. CASE new = seq
  BY <1>1, <1>2, <1>3 DEF ToSet
<1>4. CASE /\ Len(new) = n /\ Len(seq) > n
           /\ \A j \in 1 .. n : new[j] = seq[Len(seq) - n + j]
  <2>1. CASE i > Len(seq) - n
    <3> DEFINE d == Len(seq) - n
               k == i - d
    <3>1. k \in 1 .. n /\ d + k = i
      BY <1>1, <1>4, <2>1
    <3> HIDE DEF k
    <3>2. new[k] = seq[i]
      BY <1>4, <3>1
    <3>3. k \in DOMAIN new /\ new[k][1] = r /\ new[k][2] = "answer"
      BY <1>1, <1>2, <1>4, <3>1, <3>2
    <3>4. new[k] \in ToSet(new)
      BY <3>3 DEF ToSet
    <3>5. QED
      BY <3>3, <3>4
  <2>2. CASE i <= Len(seq) - n
    <3>1. \A j \in 1 .. n : new[j][1] # r
      BY <1>1, <1>2, <1>4, <2>2
    <3>2. {m \in ToSet(new) : m[1] = r} = {}
      BY <1>1, <1>4, <3>1 DEF ToSet
    <3>3. QED
      BY <1>4, <3>2
  <2>3. i > Len(seq) - n \/ i <= Len(seq) - n
    BY <1>1, <1>2
  <2>4. QED
    BY <2>1, <2>2, <2>3
<1>5. QED
  BY <1>3, <1>4, NewestOf

LEMMA PickedAll ==
  ASSUME NEW seq \in Seq(MessageIds)
  PROVE  Picked(seq, DOMAIN seq) = seq
<1>1. DOMAIN seq = 1 .. Len(seq) /\ Len(seq) \in Nat
  BY LenProperties
<1>2. Cardinality(DOMAIN seq) = Len(seq)
  <2>1. Len(seq) \in Int /\ 1 \in Int
    BY <1>1
  <2>2. Cardinality(1 .. Len(seq)) = IF 1 > Len(seq) THEN 0 ELSE Len(seq) - 1 + 1
    BY <2>1, FS_Interval
  <2>3. QED
    BY <1>1, <2>2
<1>3. ASSUME NEW i \in 1 .. Len(seq) PROVE Cardinality({k \in DOMAIN seq : k <= i}) = i
  <2>1. {k \in DOMAIN seq : k <= i} = 1 .. i
    BY <1>1
  <2>2. i \in Int /\ 1 \in Int /\ i >= 1
    BY <1>1
  <2>3. Cardinality(1 .. i) = IF 1 > i THEN 0 ELSE i - 1 + 1
    BY <2>2, FS_Interval
  <2>4. Cardinality(1 .. i) = i
    BY <2>2, <2>3
  <2>5. QED
    BY <2>1, <2>4
<1>4. ASSUME NEW n \in 1 .. Len(seq)
      PROVE  (CHOOSE i \in DOMAIN seq : Cardinality({k \in DOMAIN seq : k <= i}) = n) = n
  <2>1. n \in DOMAIN seq /\ Cardinality({k \in DOMAIN seq : k <= n}) = n
    BY <1>1, <1>3
  <2>2. \A i \in DOMAIN seq : Cardinality({k \in DOMAIN seq : k <= i}) = n => i = n
    BY <1>1, <1>3
  <2>3. QED
    BY <2>1, <2>2
<1>5. Picked(seq, DOMAIN seq) = [n \in 1 .. Len(seq) |-> seq[n]]
  <2> DEFINE Nth(n) == CHOOSE i \in DOMAIN seq : Cardinality({k \in DOMAIN seq : k <= i}) = n
  <2>1. Picked(seq, DOMAIN seq) = [n \in 1 .. Len(seq) |-> seq[Nth(n)]]
    BY <1>2 DEF Picked
  <2>2. \A n \in 1 .. Len(seq) : Nth(n) = n
    BY <1>4
  <2> HIDE DEF Nth
  <2>3. QED
    BY <2>1, <2>2
<1>6. seq = [n \in 1 .. Len(seq) |-> seq[n]]
  BY LenProperties
<1>7. QED
  BY <1>5, <1>6

LEMMA PickedNone ==
  ASSUME NEW seq
  PROVE  Picked(seq, {}) = <<>>
BY FS_EmptySet DEF Picked
--------------------------------------------------------------------------------
(* What a step of a run does *)

LEMMA ConversationInitially == ConversationInit => ConversationInv
<1> SUFFICES ASSUME ConversationInit PROVE ConversationInv
  OBVIOUS
<1>1. Idle \in RunStates /\ Idle.at = "idle" /\ Idle.history = <<>>
  BY ConversationAssumption DEF Idle, RunStates, Places
<1>2. ConversationTyped
  BY <1>1, ConversationAssumption DEF ConversationInit, ConversationTyped
<1>3. RunsHaveSessions
  BY <1>1 DEF ConversationInit, RunsHaveSessions, Active
<1>4. QED
  BY <1>2, <1>3 DEF ConversationInit, ConversationInv, FileIsStored, MemoryLosesNothing

(* A run moves on in its session.  It keeps what it took up as history, or *)
(* drops it.                                                               *)
Works(r) ==
  LET local == run'[r]
  IN /\ run' \in [Runs -> RunStates] /\ \A o \in Runs : o # r => run'[o] = run[o]
     /\ Active(r) /\ local.at \notin {"idle", "over"} /\ local.session = run[r].session
     /\ run[r].at = "closing" => local.at = "closing"
     /\ local.at = "resolved" => run[r].at = "resolved"
     /\ local.at = "calling" => local.round = run[r].round
     /\ \/ \E kept \in BOOLEAN : ReadHistory(r, kept)
        \/ local.knew = {} /\ local.history = <<>>
        \/ local.knew = run[r].knew /\ local.history = run[r].history
     /\ UNCHANGED <<backend, rows, fileVars, restarts, overlapped>>

(* It saves nothing, for want of anything to say.                          *)
IsSilent(r) ==
  /\ UNCHANGED <<messages, lost, answered>>
  /\ run'[r].count = run[r].count
  /\ run'[r].at = "calling" => run[r].at = "calling"

(* What it says is saved, or, with mysql, lost.                            *)
Says(r, what, kept) ==
  LET s == run[r].session
      Longer(store) == [store EXCEPT ![s] = Append(@, Message(r, what))]
  IN /\ kept \in BOOLEAN /\ Possible(kept)
     /\ run[r].at # "closing" /\ run'[r].at # "resolved"
     /\ messages' = IF kept THEN Longer(messages) ELSE messages
     /\ lost' = IF kept THEN lost ELSE Longer(lost)
     /\ run'[r].count = run[r].count + (IF what \in Spoken THEN 1 ELSE 0)
     /\ what = "result" => run[r].at = "calling"
     /\ run'[r].at = "calling" => what = "call"
     /\ what = "answer" => run'[r].at = "closing"
     /\ answered' = IF what = "answer" /\ kept THEN answered \cup {r} ELSE answered

Sayings == Spoken \cup {"call", "result"}

SaysSomething(r) == \E what \in Sayings, kept \in BOOLEAN : Says(r, what, kept)

LEMMA RunTyped ==
  ASSUME ConversationTyped, NEW r \in Runs
  PROVE  run \in [Runs -> RunStates] /\ run[r] \in RunStates
BY DEF ConversationTyped

LEMMA RunWorks ==
  ASSUME ConversationInv, NEW r \in Runs, NEW kept \in BOOLEAN,
         \/ ReadHistory(r, kept) \/ SaveUser(r, kept) \/ SaveResumed(r, kept) \/ NextRound(r)
         \/ RunOut(r) \/ GiveUp(r) \/ SaveAnswer(r, kept) \/ SaveCall(r, kept) \/ Deny(r)
         \/ (\E asks \in BOOLEAN : SaveResult(r, asks, kept))
  PROVE  Works(r) /\ (IsSilent(r) \/ SaysSomething(r))
<1> USE DEF Becomes, Moves, At, fileVars, storeVars, historyVars
<1>1. run \in [Runs -> RunStates] /\ run[r] \in RunStates /\ ConversationTyped
  BY RunTyped DEF ConversationInv
<1>2. CASE ReadHistory(r, kept)
  <2>1. messages[run[r].session] \in Seq(MessageIds)
    BY <1>1, <1>2 DEF ConversationInv, RunsHaveSessions, ReadHistory, Active, ConversationTyped
  <2>2. ListBySession(run[r].session, HistoryLimit) \in Seq(MessageIds)
    BY <2>1, NewestOf, ConversationAssumption DEF ListBySession
  <2>3. PICK local : /\ Becomes(r, local)
                     /\ \/ local = [run[r] EXCEPT !.at = "read"]
                        \/ local = [run[r] EXCEPT !.at = "read",
                             !.history = ListBySession(run[r].session, HistoryLimit),
                             !.knew = {o \in answered : run[o].session = run[r].session}]
    BY <1>2 DEF ReadHistory
  <2>4. {o \in answered : run[o].session = run[r].session} \in SUBSET Runs
    BY <1>1 DEF ConversationTyped
  <2>5. /\ local \in RunStates /\ local.at = "read" /\ local.session = run[r].session
        /\ local.count = run[r].count
    BY <1>1, <2>2, <2>3, <2>4 DEF RunStates, Places
  <2>6. run' \in [Runs -> RunStates] /\ run'[r] = local /\ \A o \in Runs : o # r => run'[o] = run[o]
    BY <1>1, <2>3, <2>5
  <2>7. /\ run[r].at = "resolved" /\ UNCHANGED <<backend, rows, fileVars, restarts, overlapped>>
        /\ UNCHANGED <<messages, lost, answered>>
    BY <1>2 DEF ReadHistory
  <2>8. Works(r)
    BY <1>2, <2>5, <2>6, <2>7 DEF Works, Active
  <2>9. IsSilent(r)
    BY <2>5, <2>6, <2>7 DEF IsSilent
  <2>10. QED
    BY <2>8, <2>9
<1>3. CASE SaveUser(r, kept)
  <2> DEFINE local == [run[r] EXCEPT !.at = "loop", !.count = run[r].count + 1, !.history = <<>>, !.knew = {}]
  <2>a. local \in RunStates
    <3>1. <<>> \in Seq(MessageIds) /\ {} \in SUBSET Runs /\ run[r].count + 1 \in Nat
      BY <1>1 DEF RunStates
    <3>2. QED
      BY <1>1, <3>1 DEF RunStates, Places
  <2>b. run' = [run EXCEPT ![r] = local] /\ run[r].at = "read" /\ UNCHANGED <<backend, rows, fileVars, restarts, overlapped>>
    BY <1>3 DEF SaveUser, AddMessage
  <2>c. /\ local.at = "loop" /\ local.session = run[r].session
        /\ local.knew = {} /\ local.history = <<>>
    BY <1>1 DEF RunStates
  <2> HIDE DEF local
  <2>d. run' \in [Runs -> RunStates] /\ run'[r] = local /\ \A o \in Runs : o # r => run'[o] = run[o]
    BY <1>1, <2>a, <2>b
  <2>1. Works(r)
    BY <2>b, <2>c, <2>d DEF Works, Active
  <2>2. /\ run'[r].at = "loop" /\ run'[r].count = run[r].count + 1 /\ run[r].at = "read"
    BY <1>1, <1>3 DEF SaveUser, RunStates, AddMessage
  <2>3. Says(r, "user", kept)
    BY <1>3, <2>2 DEF SaveUser, Saves, Says, Spoken
  <2>4. QED
    BY <2>1, <2>3 DEF SaysSomething, Sayings, Spoken
<1>4. CASE SaveResumed(r, kept)
  <2>1. Works(r)
    BY <1>1, <1>4 DEF SaveResumed, Works, Active, RunStates, Places
  <2>2. run'[r].at = "calling" /\ run'[r].count = run[r].count /\ run[r].at = "loop" /\ run[r].count \in Nat
    BY <1>1, <1>4 DEF SaveResumed, RunStates
  <2>3. Says(r, "call", kept)
    BY <1>4, <2>2 DEF SaveResumed, Saves, Says, Spoken
  <2>4. QED
    BY <2>1, <2>3 DEF SaysSomething, Sayings
<1>5. CASE NextRound(r)
  <2>a. run[r].round + 1 \in 0 .. MaxRounds
    <3>1. run[r].round \in 0 .. MaxRounds /\ run[r].round < MaxRounds /\ MaxRounds \in Nat
      BY <1>1, <1>5, ConversationAssumption DEF NextRound, RunStates
    <3>2. QED
      BY <3>1
  <2>1. Works(r)
    BY <1>1, <1>5, <2>a DEF NextRound, AtLoop, Works, Active, RunStates, Places
  <2>2. IsSilent(r)
    BY <1>1, <1>5 DEF NextRound, IsSilent, RunStates
  <2>3. QED
    BY <2>1, <2>2
<1>6. CASE RunOut(r) \/ GiveUp(r)
  <2>a. /\ run' = [run EXCEPT ![r] = [run[r] EXCEPT !.at = "closing"]] /\ Active(r)
        /\ UNCHANGED <<backend, rows, fileVars, restarts, overlapped>>
    BY <1>6 DEF RunOut, GiveUp, AtLoop, Active
  <2>1. Works(r)
    BY <1>1, <2>a DEF Works, RunStates, Places
  <2>2. IsSilent(r)
    BY <1>1, <1>6 DEF RunOut, GiveUp, IsSilent, RunStates
  <2>3. QED
    BY <2>1, <2>2
<1>7. CASE SaveAnswer(r, kept)
  <2>a. run' = [run EXCEPT ![r] = [run[r] EXCEPT !.at = "closing", !.count = run[r].count + 1]]
    BY <1>7 DEF SaveAnswer, AddMessage
  <2>b. run[r].count + 1 \in Nat
    BY <1>1 DEF RunStates
  <2>c. /\ run' \in [Runs -> RunStates] /\ \A o \in Runs : o # r => run'[o] = run[o]
        /\ run'[r].at = "closing" /\ run'[r].session = run[r].session
        /\ run'[r].knew = run[r].knew /\ run'[r].history = run[r].history
    BY <1>1, <2>a, <2>b DEF RunStates, Places
  <2>d. run[r].at = "asking" /\ UNCHANGED <<backend, rows, fileVars, restarts, overlapped>>
    BY <1>7 DEF SaveAnswer
  <2>1. Works(r)
    BY <2>c, <2>d DEF Works, Active
  <2>2. /\ run'[r].at = "closing" /\ run'[r].count = run[r].count + 1 /\ run[r].at = "asking"
    BY <1>1, <1>7 DEF SaveAnswer, RunStates, AddMessage
  <2>3. Says(r, "answer", kept)
    BY <1>7, <2>2 DEF SaveAnswer, Saves, Says, Spoken
  <2>4. QED
    BY <2>1, <2>3 DEF SaysSomething, Sayings, Spoken
<1>8. CASE SaveCall(r, kept)
  <2>1. Works(r)
    BY <1>1, <1>8 DEF SaveCall, Works, Active, RunStates, Places
  <2>2. run'[r].at = "calling" /\ run'[r].count = run[r].count /\ run[r].at = "asking" /\ run[r].count \in Nat
    BY <1>1, <1>8 DEF SaveCall, RunStates
  <2>3. Says(r, "call", kept)
    BY <1>8, <2>2 DEF SaveCall, Saves, Says, Spoken
  <2>4. QED
    BY <2>1, <2>3 DEF SaysSomething, Sayings
<1>9. CASE Deny(r)
  <2>1. Works(r)
    BY <1>1, <1>9 DEF Deny, Works, Active, RunStates, Places
  <2>2. IsSilent(r)
    BY <1>1, <1>9 DEF Deny, IsSilent, RunStates
  <2>3. QED
    BY <2>1, <2>2
<1>10. ASSUME NEW asks \in BOOLEAN, SaveResult(r, asks, kept)
       PROVE  Works(r) /\ (IsSilent(r) \/ SaysSomething(r))
  <2> DEFINE where == IF asks THEN "closing" ELSE IF run[r].round = 0 THEN "resumed" ELSE "loop"
  <2>1. /\ run' = [run EXCEPT ![r] = [run[r] EXCEPT !.at = where]]
        /\ Saves(r, "result", kept) /\ run[r].at = "calling" /\ answered' = answered
        /\ UNCHANGED <<backend, rows, fileVars, restarts, overlapped>>
    BY <1>10 DEF SaveResult
  <2>2. where \in {"closing", "resumed", "loop"}
    OBVIOUS
  <2> HIDE DEF where
  <2>3. Works(r)
    BY <1>1, <2>1, <2>2 DEF Works, Active, RunStates, Places
  <2>4. run'[r].at # "calling" /\ run'[r].at # "resolved" /\ run'[r].count = run[r].count /\ run[r].count \in Nat
    BY <1>1, <2>1, <2>2 DEF RunStates
  <2>5. Says(r, "result", kept)
    BY <2>1, <2>4 DEF Saves, Says, Spoken
  <2>6. QED
    BY <2>3, <2>5 DEF SaysSomething, Sayings
<1>11. QED
  BY <1>2, <1>3, <1>4, <1>5, <1>6, <1>7, <1>8, <1>9, <1>10

(* A run ends: its copy of the session is saved, or not.                   *)
EndsWork(r) ==
  /\ run' \in [Runs -> RunStates] /\ \A o \in Runs : o # r => run'[o] = run[o]
  /\ Active(r) /\ run'[r].at = "over" /\ run'[r].session = run[r].session
  /\ run'[r].knew = {} /\ run'[r].history = <<>>
  /\ UNCHANGED <<backend, messages, fileVars, answered, lost>>
  /\ \/ rows' = [rows EXCEPT ![run[r].session] = run[r].count] /\ overlapped' = overlapped
     \/ rows' = rows /\ overlapped' = overlapped \cup {run[r].session}
     \/ rows' = rows /\ overlapped' = overlapped /\ At(r, "resolved")

LEMMA OverIsTyped ==
  ASSUME ConversationTyped, NEW r \in Runs
  PROVE  /\ Over(r) \in RunStates /\ Over(r).at = "over" /\ Over(r).session = run[r].session
         /\ Over(r).knew = {} /\ Over(r).history = <<>>
<1>1. /\ <<>> \in Seq(MessageIds) /\ 0 \in 0 .. MaxRounds /\ {} \in SUBSET Runs
      /\ run[r].session \in Sessions \cup {None}
  BY RunTyped, ConversationAssumption DEF RunStates
<1>2. QED
  BY <1>1 DEF Over, Idle, RunStates, Places

LEMMA RunEndsWork ==
  ASSUME ConversationInv, NEW r \in Runs, NEW kept \in BOOLEAN,
         RefuseByRate(r) \/ Cut(r) \/ Close(r, kept)
  PROVE  EndsWork(r)
<1> USE DEF At, fileVars, storeVars, historyVars
<1>1. run \in [Runs -> RunStates] /\ run[r] \in RunStates
  BY RunTyped DEF ConversationInv
<1>2. run' = [run EXCEPT ![r] = Over(r)]
  BY DEF RefuseByRate, Cut, Close, Ends, Becomes
<1>3. /\ Over(r) \in RunStates /\ Over(r).at = "over" /\ Over(r).session = run[r].session
      /\ Over(r).knew = {} /\ Over(r).history = <<>>
  BY OverIsTyped DEF ConversationInv
<1> HIDE DEF Over
<1>4. /\ run'[r].at = "over" /\ run'[r].session = run[r].session
      /\ run'[r].knew = {} /\ run'[r].history = <<>>
      /\ run' \in [Runs -> RunStates] /\ \A o \in Runs : o # r => run'[o] = run[o]
  BY <1>1, <1>2, <1>3
<1>5. QED
  BY <1>4 DEF EndsWork, RefuseByRate, Cut, Close, Active, AtLoop, SaveSession

(* A request whose session cannot be read is over before it works on any.  *)
Fails(r) ==
  /\ run' \in [Runs -> RunStates] /\ \A o \in Runs : o # r => run'[o] = run[o]
  /\ run[r].at = "idle" /\ run'[r].at = "over" /\ run'[r].session = run[r].session
  /\ run'[r].knew = {} /\ run'[r].history = <<>>
  /\ UNCHANGED <<backend, storeVars, fileVars, historyVars>>

LEMMA RunFails ==
  ASSUME ConversationInv, NEW r \in Runs, FailToResolve(r)
  PROVE  Fails(r)
<1>1. run \in [Runs -> RunStates] /\ run[r] \in RunStates
  BY RunTyped DEF ConversationInv
<1>2. /\ Over(r) \in RunStates /\ Over(r).at = "over" /\ Over(r).session = run[r].session
      /\ Over(r).knew = {} /\ Over(r).history = <<>>
  BY OverIsTyped DEF ConversationInv
<1>3. /\ run' = [run EXCEPT ![r] = Over(r)] /\ run[r].at = "idle"
      /\ UNCHANGED <<backend, storeVars, fileVars, historyVars>>
  BY DEF FailToResolve, Ends, Becomes, At
<1> HIDE DEF Over
<1>4. QED
  BY <1>1, <1>2, <1>3 DEF Fails

(* Nobody comes to a session or leaves it while a run works.               *)
LEMMA WorkersStay ==
  ASSUME ConversationInv, NEW r \in Runs, Works(r), NEW o \in Runs
  PROVE  /\ run'[o].session = run[o].session /\ Active(o)' = Active(o)
         /\ \A s : WorksOn(o, s)' = WorksOn(o, s)
         /\ o # r => run'[o] = run[o]
BY DEF Works, Active, WorksOn

LEMMA WorkerLeaves ==
  ASSUME ConversationInv, NEW r \in Runs, EndsWork(r), NEW o \in Runs
  PROVE  /\ run'[o].session = run[o].session
         /\ o = r => ~Active(o)'
         /\ o # r => run'[o] = run[o] /\ Active(o)' = Active(o)
         /\ \A s : WorksOn(o, s)' <=> WorksOn(o, s) /\ o # r
BY DEF EndsWork, Active, WorksOn

LEMMA FailedWasNoWorker ==
  ASSUME ConversationInv, NEW r \in Runs, Fails(r), NEW o \in Runs
  PROVE  /\ run'[o].session = run[o].session /\ Active(o)' = Active(o)
         /\ \A s : WorksOn(o, s)' = WorksOn(o, s)
         /\ Active(o) => run'[o] = run[o]
         /\ run'[o] = run[o] \/ run'[o].knew = {}
BY DEF Fails, Active, WorksOn

LEMMA WorkHasSession ==
  ASSUME ConversationInv, NEW r \in Runs, Active(r)
  PROVE  /\ run[r].session \in Sessions /\ run[r].session \in generated
         /\ messages[run[r].session] \in Seq(MessageIds) /\ lost[run[r].session] \in Seq(MessageIds)
BY DEF ConversationInv, RunsHaveSessions, ConversationTyped

LEMMA MessageIs ==
  ASSUME ConversationInv, NEW r \in Runs, NEW what \in Sayings
  PROVE  Message(r, what) \in MessageIds /\ Message(r, what) = <<r, what, run[r].round>>
<1>1. run[r].round \in 0 .. MaxRounds
  BY RunTyped DEF ConversationInv, RunStates
<1>2. QED
  BY <1>1 DEF Message, MessageIds, Sayings

(* What a run says joins what is stored, or else what is lost.             *)
LEMMA SaidIs ==
  ASSUME ConversationInv, NEW r \in Runs, Works(r), NEW what \in Sayings, NEW kept \in BOOLEAN,
         Says(r, what, kept)
  PROVE  LET s == run[r].session
             m == Message(r, what)
         IN /\ s \in Sessions /\ s \in generated /\ m \in MessageIds /\ m = <<r, what, run[r].round>>
            /\ messages[s] \in Seq(MessageIds) /\ lost[s] \in Seq(MessageIds)
            /\ messages' \in [Sessions -> Seq(MessageIds)] /\ lost' \in [Sessions -> Seq(MessageIds)]
            /\ kept => messages'[s] = Append(messages[s], m) /\ Contains(messages'[s], m) /\ lost' = lost
            /\ ~kept => lost'[s] = Append(lost[s], m) /\ Contains(lost'[s], m) /\ messages' = messages
            /\ \A t \in Sessions : t # s => messages'[t] = messages[t] /\ lost'[t] = lost[t]
            /\ \A t \in Sessions : \A n : /\ Contains(messages[t], n) => Contains(messages'[t], n)
                                          /\ Contains(lost[t], n) => Contains(lost'[t], n)
<1> DEFINE s == run[r].session
           m == Message(r, what)
<1>1. s \in Sessions /\ s \in generated /\ messages[s] \in Seq(MessageIds) /\ lost[s] \in Seq(MessageIds)
  BY WorkHasSession DEF Works
<1>2. m \in MessageIds /\ m = <<r, what, run[r].round>>
  BY MessageIs
<1>3. /\ messages \in [Sessions -> Seq(MessageIds)] /\ lost \in [Sessions -> Seq(MessageIds)]
      /\ messages' = IF kept THEN [messages EXCEPT ![s] = Append(@, m)] ELSE messages
      /\ lost' = IF kept THEN lost ELSE [lost EXCEPT ![s] = Append(@, m)]
  BY DEF ConversationInv, ConversationTyped, Says
<1> HIDE DEF s, m
<1>4. CASE kept
  <2>1. messages' = [messages EXCEPT ![s] = Append(messages[s], m)] /\ lost' = lost
    BY <1>3, <1>4
  <2>2. /\ messages' \in [Sessions -> Seq(MessageIds)] /\ messages'[s] = Append(messages[s], m)
        /\ Contains(messages'[s], m) /\ \A t \in Sessions : t # s => messages'[t] = messages[t]
        /\ \A t \in Sessions : \A n : Contains(messages[t], n) => Contains(messages'[t], n)
    <3>1. /\ messages' \in [Sessions -> Seq(MessageIds)] /\ messages'[s] = Append(messages[s], m)
          /\ \A t \in Sessions : t # s => messages'[t] = messages[t]
      BY <1>1, <1>2, <1>3, <2>1
    <3>2. /\ Contains(messages'[s], m)
          /\ \A n : Contains(messages[s], n) => Contains(messages'[s], n)
      <4>1. /\ Contains(Append(messages[s], m), m)
            /\ \A n : Contains(messages[s], n) => Contains(Append(messages[s], m), n)
        BY <1>1, <1>2, ContainsAppend
      <4>2. QED
        BY <3>1, <4>1, Zenon
    <3>3. ASSUME NEW t \in Sessions, NEW n, Contains(messages[t], n) PROVE Contains(messages'[t], n)
      <4>1. CASE t = s
        BY <3>2, <3>3, <4>1
      <4>2. CASE t # s
        BY <3>1, <3>3, <4>2
      <4>3. QED
        BY <4>1, <4>2
    <3>4. QED
      BY <3>1, <3>2, <3>3
  <2>3. QED
    BY <1>1, <1>2, <1>3, <1>4, <2>1, <2>2 DEF s, m
<1>5. CASE ~kept
  <2>1. lost' = [lost EXCEPT ![s] = Append(lost[s], m)] /\ messages' = messages
    BY <1>3, <1>5
  <2>2. /\ lost' \in [Sessions -> Seq(MessageIds)] /\ lost'[s] = Append(lost[s], m)
        /\ Contains(lost'[s], m) /\ \A t \in Sessions : t # s => lost'[t] = lost[t]
        /\ \A t \in Sessions : \A n : Contains(lost[t], n) => Contains(lost'[t], n)
    <3>1. /\ lost' \in [Sessions -> Seq(MessageIds)] /\ lost'[s] = Append(lost[s], m)
          /\ \A t \in Sessions : t # s => lost'[t] = lost[t]
      BY <1>1, <1>2, <1>3, <2>1
    <3>2. /\ Contains(lost'[s], m)
          /\ \A n : Contains(lost[s], n) => Contains(lost'[s], n)
      <4>1. /\ Contains(Append(lost[s], m), m)
            /\ \A n : Contains(lost[s], n) => Contains(Append(lost[s], m), n)
        BY <1>1, <1>2, ContainsAppend
      <4>2. QED
        BY <3>1, <4>1, Zenon
    <3>3. ASSUME NEW t \in Sessions, NEW n, Contains(lost[t], n) PROVE Contains(lost'[t], n)
      <4>1. CASE t = s
        BY <3>2, <3>3, <4>1
      <4>2. CASE t # s
        BY <3>1, <3>3, <4>2
      <4>3. QED
        BY <4>1, <4>2
    <3>4. QED
      BY <3>1, <3>2, <3>3
  <2>3. QED
    BY <1>1, <1>2, <1>3, <1>5, <2>1, <2>2 DEF s, m
<1>6. QED
  BY <1>4, <1>5

(* Nothing that is stored or lost is forgotten while a run works.          *)
LEMMA WorkAdds ==
  ASSUME ConversationInv, NEW r \in Runs, Works(r), IsSilent(r) \/ SaysSomething(r)
  PROVE  /\ messages' \in [Sessions -> Seq(MessageIds)] /\ lost' \in [Sessions -> Seq(MessageIds)]
         /\ \A t \in Sessions : t # run[r].session => messages'[t] = messages[t] /\ lost'[t] = lost[t]
         /\ \A t \in Sessions : \A n : /\ Contains(messages[t], n) => Contains(messages'[t], n)
                                       /\ Contains(lost[t], n) => Contains(lost'[t], n)
<1>1. CASE IsSilent(r)
  BY <1>1 DEF IsSilent, ConversationInv, ConversationTyped
<1>2. CASE SaysSomething(r)
  BY <1>2, SaidIs DEF SaysSomething
<1>3. QED
  BY <1>1, <1>2

(* A run begins with a session as it is stored, or with a new one.         *)
Begins(r, s) ==
  /\ run' \in [Runs -> RunStates] /\ \A o \in Runs : o # r => run'[o] = run[o]
  /\ ~Active(r) /\ run[r].at = "idle"
  /\ run'[r].at = "resolved" /\ run'[r].session = s
  /\ run'[r].history = <<>> /\ run'[r].knew = {}
  /\ rows' \in [Sessions -> Nat \cup {None}]
  /\ \/ /\ rows' = rows /\ rows[s] # None /\ generated' = generated /\ s \in generated
        /\ run'[r].count = rows[s]
     \/ /\ Fresh(s) /\ rows'[s] \in {None, 0} /\ \A t \in Sessions : t # s => rows'[t] = rows[t]
        /\ generated' = generated \cup {s} /\ run'[r].count = 0
  /\ overlapped' = overlapped \cup {x \in {s} : \E o \in Runs : WorksOn(o, x)}
  /\ UNCHANGED <<backend, messages, lost, export, file, imported, clipped, answered>>

LEMMA StartIsTyped ==
  ASSUME ConversationInv, NEW r \in Runs, NEW s \in Sessions, NEW count \in Nat, Starts(r, s, count)
  PROVE  /\ run' \in [Runs -> RunStates] /\ \A o \in Runs : o # r => run'[o] = run[o]
         /\ run'[r].at = "resolved" /\ run'[r].session = s /\ run'[r].count = count
         /\ run'[r].history = <<>> /\ run'[r].knew = {}
<1> DEFINE local == [Idle EXCEPT !.at = "resolved", !.session = s, !.count = count]
<1>1. <<>> \in Seq(MessageIds) /\ 0 \in 0 .. MaxRounds /\ {} \in SUBSET Runs
  BY ConversationAssumption
<1>2. /\ local \in RunStates /\ local.at = "resolved" /\ local.session = s /\ local.count = count
      /\ local.history = <<>> /\ local.knew = {}
  BY <1>1 DEF Idle, RunStates, Places
<1>3. run' = [run EXCEPT ![r] = local] /\ run \in [Runs -> RunStates]
  BY DEF Starts, Becomes, ConversationInv, ConversationTyped
<1> HIDE DEF local
<1>4. QED
  BY <1>2, <1>3

LEMMA RunBegins ==
  ASSUME ConversationInv, NEW r \in Runs, NEW asked \in Sessions \cup {None}, NEW s \in Sessions,
         NEW kept \in BOOLEAN, Resolve(r, asked, s, kept)
  PROVE  Begins(r, s)
<1>1. rows \in [Sessions -> Nat \cup {None}] /\ \A t \in Sessions \ generated : rows[t] = None
  BY DEF ConversationInv, ConversationTyped, RunsHaveSessions
<1>2. /\ run[r].at = "idle" /\ ~Active(r)
      /\ overlapped' = overlapped \cup {x \in {s} : \E o \in Runs : WorksOn(o, x)}
      /\ UNCHANGED <<backend, messages, lost, export, file, imported, clipped, answered>>
  BY DEF Resolve, At, Active
<1>3. CASE asked # None /\ FindByID(asked) # None
  <2>1. /\ s = asked /\ Starts(r, s, rows[s]) /\ UNCHANGED <<rows, generated>>
        /\ rows[s] # None /\ rows[s] \in Nat /\ s \in generated
    BY <1>1, <1>3 DEF Resolve, FindByID
  <2>2. QED
    BY <1>1, <1>2, <2>1, StartIsTyped DEF Begins
<1>4. CASE ~(asked # None /\ FindByID(asked) # None)
  <2>1. /\ Fresh(s) /\ SaveSession(s, 0, kept) /\ Starts(r, s, 0) /\ generated' = generated \cup {s}
    BY <1>4 DEF Resolve
  <2>2. /\ rows' \in [Sessions -> Nat \cup {None}] /\ rows'[s] \in {None, 0}
        /\ \A t \in Sessions : t # s => rows'[t] = rows[t]
    BY <1>1, <2>1 DEF SaveSession, Fresh
  <2>3. QED
    BY <1>2, <2>1, <2>2, StartIsTyped DEF Begins
<1>5. QED
  BY <1>3, <1>4

(* A session is created by itself.                                         *)
Creates(s) ==
  /\ Fresh(s) /\ rows' \in [Sessions -> Nat \cup {None}] /\ rows'[s] \in {None, 0}
  /\ \A t \in Sessions : t # s => rows'[t] = rows[t]
  /\ generated' = generated \cup {s}
  /\ UNCHANGED <<backend, messages, lost, run, export, file, imported, clipped, overlapped, answered>>

LEMMA SessionIsCreated ==
  ASSUME ConversationInv, NEW s \in Sessions, NEW kept \in BOOLEAN, CreateSession(s, kept)
  PROVE  Creates(s)
<1>1. rows \in [Sessions -> Nat \cup {None}] /\ \A t \in Sessions \ generated : rows[t] = None
  BY DEF ConversationInv, ConversationTyped, RunsHaveSessions
<1>2. QED
  BY <1>1 DEF CreateSession, SaveSession, Fresh, Creates, historyVars

(* A restart ends every run.                                               *)
Crashes ==
  /\ run' \in [Runs -> RunStates]
  /\ \A r \in Runs : /\ ~Active(r)' /\ run'[r].session = run[r].session
                     /\ ~Active(r) => run'[r] = run[r]
                     /\ Active(r) => run'[r].at = "over" /\ run'[r].knew = {} /\ run'[r].history = <<>>
  /\ export' = None
  /\ overlapped' = overlapped \cup {s \in Sessions : \E r \in Runs : WorksOn(r, s)}
  /\ \/ backend = "mysql" /\ UNCHANGED <<rows, messages, answered>>
     \/ /\ backend = "memory" /\ answered' = {}
        /\ rows' = [s \in Sessions |-> None] /\ messages' = [s \in Sessions |-> <<>>]
  /\ UNCHANGED <<backend, file, generated, imported, clipped, lost>>

LEMMA RestartCrashes ==
  ASSUME ConversationInv, Restart
  PROVE  Crashes
<1>1. run \in [Runs -> RunStates] /\ backend \in {"mysql", "memory"}
  BY DEF ConversationInv, ConversationTyped
<1>2. ASSUME NEW r \in Runs
      PROVE  /\ Over(r) \in RunStates /\ Over(r).at = "over" /\ Over(r).session = run[r].session
             /\ Over(r).knew = {} /\ Over(r).history = <<>>
  BY OverIsTyped DEF ConversationInv
<1>3. run' = [r \in Runs |-> IF Active(r) THEN Over(r) ELSE run[r]]
  BY DEF Restart
<1> HIDE DEF Over
<1>4. run' \in [Runs -> RunStates]
  BY <1>1, <1>2, <1>3
<1>5. ASSUME NEW r \in Runs
      PROVE  /\ ~Active(r)' /\ run'[r].session = run[r].session
             /\ ~Active(r) => run'[r] = run[r]
             /\ Active(r) => run'[r].at = "over" /\ run'[r].knew = {} /\ run'[r].history = <<>>
  <2>1. run'[r] = IF Active(r) THEN Over(r) ELSE run[r]
    BY <1>3
  <2>2. CASE Active(r)
    BY <1>2, <2>1, <2>2 DEF Active
  <2>3. CASE ~Active(r)
    BY <2>1, <2>3 DEF Active
  <2>4. QED
    BY <2>2, <2>3
<1>6. QED
  BY <1>1, <1>4, <1>5 DEF Restart, Crashes, storeVars

(* An import brings the messages of a file of the memory, and to mysql,    *)
(* which has them all, none.                                               *)
Imports(s) ==
  /\ file \in Exports /\ file # None /\ Fresh(s) /\ messages[s] = <<>> /\ lost[s] = <<>>
  /\ messages'[s] = IF backend = "memory" THEN file.messages ELSE <<>>
  /\ messages' \in [Sessions -> Seq(MessageIds)]
  /\ \A t \in Sessions : t # s => messages'[t] = messages[t] /\ rows'[t] = rows[t]
  /\ rows' \in [Sessions -> Nat \cup {None}] /\ rows'[s] = file.count
  /\ generated' = generated \cup {s} /\ imported' = imported \cup {s}
  /\ clipped' = IF file.clipped THEN clipped \cup {s} ELSE clipped
  /\ UNCHANGED <<backend, run, export, file, overlapped, answered, lost>>

LEMMA ImportImports ==
  ASSUME ConversationInv, NEW s \in Sessions, Import(s)
  PROVE  Imports(s)
<1> DEFINE kept == {i \in DOMAIN file.messages :
                      backend = "memory" \/ file.messages[i] \notin StoredIds}
           new == Picked(file.messages, kept)
<1>1. /\ file \in Exports /\ file # None /\ Fresh(s)
      /\ messages' = [messages EXCEPT ![s] = new] /\ rows' = [rows EXCEPT ![s] = file.count]
      /\ generated' = generated \cup {s} /\ imported' = imported \cup {s}
      /\ clipped' = IF file.clipped THEN clipped \cup {s} ELSE clipped
      /\ UNCHANGED <<backend, run, export, file, overlapped, answered, lost>>
  BY DEF Import, SaveSession, ConversationInv, ConversationTyped, historyVars
<1>2. /\ file.messages \in Seq(MessageIds) /\ file.count \in Nat
      /\ messages \in [Sessions -> Seq(MessageIds)] /\ rows \in [Sessions -> Nat \cup {None}]
      /\ backend \in {"mysql", "memory"} /\ messages[s] = <<>> /\ lost[s] = <<>>
  BY <1>1 DEF ConversationInv, ConversationTyped, Exports, RunsHaveSessions, Fresh
<1>3. new = IF backend = "memory" THEN file.messages ELSE <<>>
  <2>1. CASE backend = "memory"
    <3>1. kept = DOMAIN file.messages
      BY <2>1
    <3>2. QED
      BY <1>2, <2>1, <3>1, PickedAll
  <2>2. CASE backend = "mysql"
    <3>1. ASSUME NEW i \in DOMAIN file.messages PROVE file.messages[i] \in StoredIds
      <4>1. i \in 1 .. Len(file.messages) /\ file.messages[i] \in MessageIds
        BY <1>2, <3>1, LenProperties, ElementOfSeq
      <4>2. \E t \in Sessions : Contains(messages[t], file.messages[i])
        BY <1>1, <2>2, <4>1 DEF ConversationInv, FileIsStored
      <4>3. QED
        BY <4>1, <4>2 DEF StoredIds
    <3>2. kept = {}
      BY <2>2, <3>1
    <3>3. QED
      BY <2>2, <3>2, PickedNone
  <2>3. QED
    BY <1>2, <2>1, <2>2
<1> HIDE DEF new
<1>4. new \in Seq(MessageIds)
  BY <1>2, <1>3
<1>5. QED
  BY <1>1, <1>2, <1>3, <1>4 DEF Imports

--------------------------------------------------------------------------------
(* What holds of the stores in every state                                 *)

(* The messages of the export are written to its file.                     *)
Exported(s) ==
  /\ export \in Exports /\ export # None /\ s = export.session /\ s \in Sessions
  /\ file' \in Exports /\ file'.session = s /\ file'.count = export.count
  /\ file'.messages = Newest(messages[s], ExportLimit)
  /\ file'.clipped \/ (~export.clipped /\ Len(messages[s]) <= ExportLimit)

(* An export begins, or ends, with a file written or not.                  *)
Exporting ==
  /\ \/ \E s \in Sessions : /\ rows[s] \in Nat /\ rows[s] # None /\ s \in generated /\ file' = file
                            /\ export' = [session |-> s, count |-> rows[s], messages |-> <<>>,
                                          clipped |-> s \in clipped]
     \/ export' = None /\ file' = file
     \/ export' = None /\ \E s \in Sessions : Exported(s)
  /\ UNCHANGED <<backend, rows, messages, lost, run, generated, imported, clipped, overlapped, answered>>

LEMMA ExportsAreExporting ==
  ASSUME ConversationInv,
         \/ \E s \in Sessions : BeginExport(s)
         \/ \E kept \in BOOLEAN : EndExport(kept)
  PROVE  Exporting
<1> USE DEF storeVars, historyVars
<1>1. ASSUME NEW s \in Sessions, BeginExport(s) PROVE Exporting
  <2>1. rows[s] \in Nat /\ rows[s] # None /\ s \in generated
    BY <1>1 DEF BeginExport, FindByID, ConversationInv, ConversationTyped, RunsHaveSessions
  <2>2. QED
    BY <1>1, <2>1 DEF BeginExport, Exporting
<1>2. ASSUME NEW kept \in BOOLEAN, EndExport(kept) PROVE Exporting
  <2> DEFINE s == export.session
             new == Newest(messages[s], ExportLimit)
             cut == export.clipped \/ Len(messages[s]) > ExportLimit
  <2>1. export \in Exports /\ export # None /\ s \in Sessions /\ messages[s] \in Seq(MessageIds)
    BY <1>2 DEF EndExport, Exports, ConversationInv, ConversationTyped
  <2>2. CASE ~kept
    BY <1>2, <2>2 DEF EndExport, Exporting
  <2>3. CASE kept
    <3>1. file' = [export EXCEPT !.messages = new, !.clipped = cut]
      BY <1>2, <2>3 DEF EndExport, ListBySession
    <3>2. new \in Seq(MessageIds) /\ cut \in BOOLEAN /\ export.clipped \in BOOLEAN /\ Len(messages[s]) \in Nat
      BY <2>1, NewestOf, LenProperties, ConversationAssumption DEF Exports
    <3> HIDE DEF new, cut, s
    <3>3. file' = [session |-> export.session, count |-> export.count, messages |-> new, clipped |-> cut]
      BY <2>1, <3>1 DEF Exports
    <3>4. file' \in Exports /\ file'.session = s /\ file'.count = export.count /\ file'.messages = new
          /\ file'.clipped = cut
      BY <2>1, <3>2, <3>3 DEF Exports, s
    <3>5. file'.clipped \/ (~export.clipped /\ Len(messages[s]) <= ExportLimit)
      <4>1. ExportLimit \in Nat
        BY ConversationAssumption
      <4>2. Len(messages[s]) > ExportLimit \/ Len(messages[s]) <= ExportLimit
        BY <3>2, <4>1
      <4>3. QED
        BY <3>4, <4>2, Zenon DEF cut
    <3>6. /\ export' = None
          /\ UNCHANGED <<backend, storeVars, run, exports, generated, imported, clipped, restarts,
                         historyVars>>
      BY <1>2, Zenon DEF EndExport
    <3>7. Exported(s)
      BY <2>1, <3>4, <3>5, Zenon DEF Exported, new, s
    <3>8. QED
      BY <2>1, <3>6, <3>7 DEF Exporting
  <2>4. QED
    BY <2>2, <2>3
<1>3. QED
  BY <1>1, <1>2

LEMMA ExportingKnowsClipped ==
  ASSUME Exporting, export' # None
  PROVE  \E s \in Sessions : /\ rows[s] # None /\ export'.session = s /\ export'.count = rows[s]
                             /\ export'.clipped = (s \in clipped)
<1>1. PICK s \in Sessions :
        /\ rows[s] # None
        /\ export' = [session |-> s, count |-> rows[s], messages |-> <<>>, clipped |-> s \in clipped]
  BY DEF Exporting
<1>2. QED
  BY <1>1

(* A step is one of few kinds.                                             *)
LEMMA ConversationSteps ==
  ASSUME ConversationInv, ConversationNext
  PROVE  \/ \E r \in Runs : Works(r) /\ (IsSilent(r) \/ SaysSomething(r))
         \/ \E r \in Runs : EndsWork(r) \/ Fails(r)
         \/ \E r \in Runs, s \in Sessions : Begins(r, s)
         \/ \E s \in Sessions : Creates(s) \/ Imports(s)
         \/ Exporting \/ Crashes
<1>1. CASE \E r \in Runs : RunStep(r)
  <2>1. PICK r \in Runs : RunStep(r)
    BY <1>1
  <2>2. ASSUME NEW kept \in BOOLEAN, RefuseByRate(r) \/ Cut(r) \/ Close(r, kept) PROVE EndsWork(r)
    BY <2>2, RunEndsWork
  <2>3. ASSUME NEW kept \in BOOLEAN,
               \E asked \in Sessions \cup {None}, s \in Sessions : Resolve(r, asked, s, kept)
        PROVE  \E s \in Sessions : Begins(r, s)
    BY <2>3, RunBegins
  <2>4. ASSUME NEW kept \in BOOLEAN,
               \/ ReadHistory(r, kept) \/ SaveUser(r, kept) \/ SaveResumed(r, kept) \/ NextRound(r)
               \/ RunOut(r) \/ GiveUp(r) \/ SaveAnswer(r, kept) \/ SaveCall(r, kept) \/ Deny(r)
               \/ (\E asks \in BOOLEAN : SaveResult(r, asks, kept))
        PROVE  Works(r) /\ (IsSilent(r) \/ SaysSomething(r))
    BY <2>4, RunWorks
  <2>5. CASE FailToResolve(r)
    BY <2>5, RunFails
  <2>6. CASE \E kept \in BOOLEAN : StoreStep(r, kept)
    <3>1. PICK kept \in BOOLEAN : StoreStep(r, kept)
      BY <2>6
    <3>2. QED
      BY <2>2, <2>3, <2>4, <3>1 DEF StoreStep
  <2>7. CASE RefuseByRate(r) \/ NextRound(r) \/ RunOut(r) \/ Cut(r) \/ GiveUp(r) \/ Deny(r)
    <3>1. TRUE \in BOOLEAN
      OBVIOUS
    <3>2. QED
      BY <2>2, <2>4, <2>7, <3>1
  <2>8. QED
    BY <2>1, <2>5, <2>6, <2>7 DEF RunStep
<1>2. CASE Restart \/ \E s \in Sessions : Import(s)
  BY <1>2, ImportImports, RestartCrashes
<1>3. CASE \/ \E s \in Sessions : BeginExport(s)
           \/ \E kept \in BOOLEAN : EndExport(kept)
  BY <1>3, ExportsAreExporting
<1>4. CASE \E s \in Sessions, kept \in BOOLEAN : CreateSession(s, kept)
  BY <1>4, SessionIsCreated
<1>5. QED
  BY <1>1, <1>2, <1>3, <1>4 DEF ConversationNext

LEMMA ConversationTypedKept ==
  ASSUME ConversationInv, ConversationNext
  PROVE  ConversationTyped'
<1> USE DEF fileVars, storeVars, historyVars
<1>1. ASSUME NEW r \in Runs, Works(r), IsSilent(r) \/ SaysSomething(r) PROVE ConversationTyped'
  <2>1. /\ messages' \in [Sessions -> Seq(MessageIds)] /\ lost' \in [Sessions -> Seq(MessageIds)]
        /\ answered' \subseteq Runs
    <3>1. answered' \in {answered, answered \cup {r}}
      BY <1>1 DEF IsSilent, SaysSomething, Says
    <3>2. QED
      BY <1>1, <3>1, WorkAdds DEF ConversationInv, ConversationTyped
  <2>2. ASSUME NEW o \in Runs PROVE Len(run'[o].history) <= HistoryLimit
    <3>1. CASE o # r
      BY <1>1, <3>1 DEF Works, ConversationInv, ConversationTyped
    <3>2. CASE o = r /\ run'[o].history = run[o].history
      BY <3>2 DEF ConversationInv, ConversationTyped
    <3>3. CASE o = r /\ run'[o].history = <<>>
      BY <3>3, ConversationAssumption
    <3>4. ASSUME o = r, NEW kept \in BOOLEAN, ReadHistory(r, kept)
          PROVE  Len(run'[o].history) <= HistoryLimit
      <4>1. run[r] \in RunStates /\ run \in [Runs -> RunStates]
        BY RunTyped DEF ConversationInv
      <4>2. \/ run'[r].history = run[r].history
            \/ run'[r].history = Newest(messages[run[r].session], HistoryLimit)
        BY <4>1, <3>4 DEF ReadHistory, Moves, Becomes, ListBySession, RunStates
      <4>3. messages[run[r].session] \in Seq(MessageIds) /\ HistoryLimit \in Nat
        BY <1>1, WorkHasSession, ConversationAssumption DEF Works
      <4>4. QED
        BY <3>2, <3>4, <4>2, <4>3, NewestOf
    <3>5. QED
      BY <1>1, <3>1, <3>2, <3>3, <3>4 DEF Works
  <2>3. QED
    BY <1>1, <2>1, <2>2 DEF ConversationInv, ConversationTyped, Works
<1>2. ASSUME NEW r \in Runs, EndsWork(r) PROVE ConversationTyped'
  <2>1. run[r].session \in Sessions /\ run[r].count \in Nat
    BY <1>2, WorkHasSession, RunTyped DEF EndsWork, ConversationInv, RunStates
  <2>2. rows' \in [Sessions -> Nat \cup {None}]
    BY <1>2, <2>1 DEF EndsWork, ConversationInv, ConversationTyped
  <2>3. \A o \in Runs : Len(run'[o].history) <= HistoryLimit
    BY <1>2, ConversationAssumption DEF EndsWork, ConversationInv, ConversationTyped
  <2>4. QED
    BY <1>2, <2>2, <2>3 DEF EndsWork, ConversationInv, ConversationTyped
<1>3. ASSUME NEW r \in Runs, NEW s \in Sessions, Begins(r, s) PROVE ConversationTyped'
  <2>1. \A o \in Runs : Len(run'[o].history) <= HistoryLimit
    BY <1>3, ConversationAssumption DEF Begins, ConversationInv, ConversationTyped
  <2>2. generated' \subseteq Sessions /\ imported \subseteq generated'
    BY <1>3 DEF Begins, ConversationInv, ConversationTyped
  <2>3. QED
    BY <1>3, <2>1, <2>2 DEF Begins, ConversationInv, ConversationTyped
<1>4. ASSUME NEW s \in Sessions, Creates(s) PROVE ConversationTyped'
  BY <1>4 DEF Creates, ConversationInv, ConversationTyped
<1>5. CASE Exporting
  <2>1. ASSUME NEW s \in Sessions, rows[s] \in Nat
        PROVE  [session |-> s, count |-> rows[s], messages |-> <<>>, clipped |-> s \in clipped] \in Exports
    <3>1. <<>> \in Seq(MessageIds) /\ (s \in clipped) \in BOOLEAN
      OBVIOUS
    <3>2. QED
      BY <2>1, <3>1 DEF Exports
  <2>2. export' \in Exports \cup {None} /\ file' \in Exports \cup {None}
    BY <1>5, <2>1 DEF Exporting, Exported, ConversationInv, ConversationTyped
  <2>3. QED
    BY <1>5, <2>2 DEF Exporting, ConversationInv, ConversationTyped
<1>6. ASSUME NEW s \in Sessions, Imports(s) PROVE ConversationTyped'
  BY <1>6 DEF Imports, ConversationInv, ConversationTyped
<1>7. ASSUME NEW r \in Runs, Fails(r) PROVE ConversationTyped'
  <2>1. \A o \in Runs : Len(run'[o].history) <= HistoryLimit
    BY <1>7, ConversationAssumption DEF Fails, ConversationInv, ConversationTyped
  <2>2. QED
    BY <1>7, <2>1 DEF Fails, ConversationInv, ConversationTyped
<1>8. CASE Crashes
  <2>1. <<>> \in Seq(MessageIds) /\ HistoryLimit \in Nat
    BY ConversationAssumption
  <2>2. rows' \in [Sessions -> Nat \cup {None}] /\ messages' \in [Sessions -> Seq(MessageIds)]
    BY <1>8, <2>1 DEF Crashes, ConversationInv, ConversationTyped
  <2>3. ASSUME NEW r \in Runs PROVE Len(run'[r].history) <= HistoryLimit
    BY <1>8, <2>1 DEF Crashes, ConversationInv, ConversationTyped
  <2>4. QED
    BY <1>8, <2>2, <2>3 DEF Crashes, ConversationInv, ConversationTyped
<1>9. QED
  BY <1>1, <1>2, <1>3, <1>4, <1>5, <1>6, <1>7, <1>8, ConversationSteps

LEMMA RunsHaveSessionsKept ==
  ASSUME ConversationInv, ConversationNext
  PROVE  RunsHaveSessions'
<1> USE DEF fileVars, storeVars, historyVars
<1>1. ASSUME NEW r \in Runs, Works(r), IsSilent(r) \/ SaysSomething(r) PROVE RunsHaveSessions'
  <2>1. \A o \in Runs : Active(o)' => run'[o].session \in generated'
    BY <1>1, WorkersStay DEF Works, ConversationInv, RunsHaveSessions
  <2>2. \A o \in answered' : run'[o].session \in generated'
    <3>1. \A o \in answered' : o \in answered \/ o = r
      BY <1>1 DEF IsSilent, SaysSomething, Says
    <3>2. run[r].session \in generated /\ answered \subseteq Runs
      BY <1>1, WorkHasSession DEF Works, ConversationInv, ConversationTyped
    <3>3. QED
      BY <1>1, <3>1, <3>2, WorkersStay DEF Works, ConversationInv, RunsHaveSessions
  <2>3. \A s \in Sessions \ generated : rows'[s] = None /\ messages'[s] = <<>> /\ lost'[s] = <<>>
    <3>1. run[r].session \in generated
      BY <1>1, WorkHasSession DEF Works
    <3>2. \A s \in Sessions \ generated : messages'[s] = messages[s] /\ lost'[s] = lost[s]
      BY <1>1, <3>1, WorkAdds
    <3>3. QED
      BY <1>1, <3>2 DEF Works, ConversationInv, RunsHaveSessions
  <2>4. QED
    BY <1>1, <2>1, <2>2, <2>3 DEF Works, ConversationInv, RunsHaveSessions
<1>2. ASSUME NEW r \in Runs, EndsWork(r) PROVE RunsHaveSessions'
  <2>1. run[r].session \in generated /\ answered \subseteq Runs
    BY <1>2, WorkHasSession DEF EndsWork, ConversationInv, ConversationTyped
  <2>2. \A s \in Sessions \ generated : rows'[s] = rows[s]
    BY <1>2, <2>1 DEF EndsWork, ConversationInv, ConversationTyped
  <2>3. QED
    BY <1>2, <2>1, <2>2, WorkerLeaves DEF EndsWork, ConversationInv, RunsHaveSessions
<1>3. ASSUME NEW r \in Runs, NEW s \in Sessions, Begins(r, s) PROVE RunsHaveSessions'
  <2>1. generated \subseteq generated' /\ s \in generated'
    BY <1>3 DEF Begins
  <2>2. \A o \in Runs : Active(o)' => run'[o].session \in generated'
    BY <1>3, <2>1 DEF Begins, Active, ConversationInv, RunsHaveSessions
  <2>3. \A o \in answered' : run'[o].session \in generated'
    BY <1>3, <2>1 DEF Begins, ConversationInv, RunsHaveSessions, ConversationTyped
  <2>4. \A t \in Sessions \ generated' : rows'[t] = None /\ messages'[t] = <<>> /\ lost'[t] = <<>>
    BY <1>3, <2>1 DEF Begins, ConversationInv, RunsHaveSessions
  <2>5. QED
    BY <1>3, <2>1, <2>2, <2>3, <2>4 DEF Begins, ConversationInv, RunsHaveSessions
<1>4. ASSUME NEW s \in Sessions, Creates(s) PROVE RunsHaveSessions'
  BY <1>4 DEF Creates, Active, ConversationInv, RunsHaveSessions
<1>5. CASE Exporting
  <2>1. \A e \in {export', file'} \ {None} : e.session \in generated
    <3>1. CASE \E s \in Sessions : /\ rows[s] \in Nat /\ rows[s] # None /\ s \in generated /\ file' = file
                                   /\ export' = [session |-> s, count |-> rows[s], messages |-> <<>>,
                                                 clipped |-> s \in clipped]
      BY <3>1 DEF ConversationInv, RunsHaveSessions
    <3>2. CASE export' = None /\ file' = file
      BY <3>2 DEF ConversationInv, RunsHaveSessions
    <3>3. CASE export' = None /\ \E s \in Sessions : Exported(s)
      BY <3>3 DEF Exported, ConversationInv, RunsHaveSessions
    <3>4. QED
      BY <1>5, <3>1, <3>2, <3>3 DEF Exporting
  <2>2. QED
    BY <1>5, <2>1 DEF Exporting, Active, ConversationInv, RunsHaveSessions
<1>6. ASSUME NEW s \in Sessions, Imports(s) PROVE RunsHaveSessions'
  BY <1>6 DEF Imports, Active, ConversationInv, RunsHaveSessions
<1>7. ASSUME NEW r \in Runs, Fails(r) PROVE RunsHaveSessions'
  BY <1>7, FailedWasNoWorker DEF Fails, ConversationInv, RunsHaveSessions, ConversationTyped
<1>8. CASE Crashes
  BY <1>8 DEF Crashes, ConversationInv, ConversationTyped, RunsHaveSessions
<1>9. QED
  BY <1>1, <1>2, <1>3, <1>4, <1>5, <1>6, <1>7, <1>8, ConversationSteps

LEMMA FileIsStoredKept ==
  ASSUME ConversationInv, ConversationNext
  PROVE  FileIsStored'
<1> USE DEF fileVars, storeVars, historyVars
<1>1. CASE /\ file' = file /\ backend' = backend
           /\ \A t \in Sessions : \A m : Contains(messages[t], m) => Contains(messages'[t], m)
  BY <1>1 DEF ConversationInv, FileIsStored
<1>2. ASSUME NEW r \in Runs, Works(r), IsSilent(r) \/ SaysSomething(r) PROVE FileIsStored'
  <2>1. file' = file /\ backend' = backend
    BY <1>2 DEF Works
  <2>2. \A t \in Sessions : \A m : Contains(messages[t], m) => Contains(messages'[t], m)
    BY <1>2, WorkAdds
  <2>3. QED
    BY <1>1, <2>1, <2>2
<1>3. ASSUME NEW s \in Sessions, Imports(s) PROVE FileIsStored'
  <2>1. \A m : ~Contains(messages[s], m)
    BY <1>3 DEF Imports, Contains
  <2>2. QED
    BY <1>1, <1>3, <2>1 DEF Imports
<1>4. CASE Exporting
  <2>1. CASE file' = file
    BY <1>1, <1>4, <2>1 DEF Exporting
  <2>2. ASSUME NEW s \in Sessions, Exported(s) PROVE FileIsStored'
    <3>1. messages' = messages /\ s \in Sessions /\ messages[s] \in Seq(MessageIds)
      BY <1>4, <2>2 DEF Exporting, Exported, ConversationInv, ConversationTyped
    <3>2. file'.messages = Newest(messages[s], ExportLimit) /\ ExportLimit \in Nat
      BY <2>2, ConversationAssumption DEF Exported
    <3>3. \A i \in 1 .. Len(file'.messages) : Contains(messages'[s], file'.messages[i])
      BY <3>1, <3>2, NewestContained
    <3>4. QED
      BY <3>1, <3>3 DEF FileIsStored
  <2>3. QED
    BY <1>4, <2>1, <2>2 DEF Exporting
<1>5. CASE Crashes
  BY <1>1, <1>5 DEF Crashes, FileIsStored
<1>6. CASE \/ \E r \in Runs : EndsWork(r) \/ Fails(r)
           \/ \E r \in Runs, s \in Sessions : Begins(r, s)
           \/ \E s \in Sessions : Creates(s)
  BY <1>1, <1>6 DEF EndsWork, Fails, Begins, Creates
<1>7. QED
  BY <1>2, <1>3, <1>4, <1>5, <1>6, ConversationSteps

LEMMA MemoryLosesNothingKept ==
  ASSUME ConversationInv, ConversationNext
  PROVE  MemoryLosesNothing'
<1> USE DEF fileVars, storeVars, historyVars
<1>1. CASE UNCHANGED <<backend, lost>>
  BY <1>1 DEF ConversationInv, MemoryLosesNothing
<1>2. ASSUME NEW r \in Runs, Works(r), IsSilent(r) \/ SaysSomething(r) PROVE MemoryLosesNothing'
  <2>1. backend' = backend /\ (lost' = lost \/ backend = "mysql")
    BY <1>2 DEF Works, IsSilent, SaysSomething, Says, Possible
  <2>2. QED
    BY <1>1, <2>1 DEF MemoryLosesNothing
<1>3. QED
  BY <1>1, <1>2, ConversationSteps DEF EndsWork, Fails, Begins, Creates, Imports, Exporting, Crashes

(* The invariant of the stores is kept by every step.                      *)
LEMMA ConversationKept ==
  ConversationInv /\ [ConversationNext]_conversationVars => ConversationInv'
<1> SUFFICES ASSUME ConversationInv, [ConversationNext]_conversationVars PROVE ConversationInv'
  OBVIOUS
<1>1. CASE ConversationNext
  BY <1>1, ConversationTypedKept, RunsHaveSessionsKept, FileIsStoredKept, MemoryLosesNothingKept
     DEF ConversationInv
<1>2. CASE UNCHANGED conversationVars
  BY <1>2 DEF conversationVars, storeVars, fileVars, historyVars, ConversationInv, ConversationTyped,
    RunsHaveSessions, FileIsStored, MemoryLosesNothing, Active
<1>3. QED
  BY <1>1, <1>2

--------------------------------------------------------------------------------
(* Counts                                                                  *)

LEMMA CountedIsNat ==
  ASSUME NEW store \in [Sessions -> Seq(MessageIds)], NEW gone \in [Sessions -> Seq(MessageIds)],
         NEW s \in Sessions
  PROVE  Counted(store, gone, s) \in Nat
<1>1. Said(store[s]) \in Nat /\ Said(gone[s]) \in Nat
  BY SpokenIsNat
<1>2. QED
  BY <1>1 DEF Counted

LEMMA CountedInStore ==
  ASSUME ConversationInv, NEW s \in Sessions
  PROVE  Counted(messages, lost, s) \in Nat
BY CountedIsNat DEF ConversationInv, ConversationTyped

LEMMA FreshCountsNothing ==
  ASSUME ConversationInv, NEW s \in Sessions, Fresh(s)
  PROVE  Counted(messages, lost, s) = 0
<1>1. messages[s] = <<>> /\ lost[s] = <<>>
  BY DEF Fresh, ConversationInv, RunsHaveSessions
<1>2. QED
  BY <1>1, SpokenOfNone DEF Counted

(* What a run says adds to what is counted in its session, saved or lost,  *)
(* and nothing to any other.                                               *)
LEMMA SaidCounts ==
  ASSUME ConversationInv, NEW r \in Runs, Works(r), IsSilent(r) \/ SaysSomething(r)
  PROVE  LET s == run[r].session
             before == Counted(messages, lost, s)
             after == Counted(messages', lost', s)
         IN /\ \E more \in Nat : after = before + more /\ run'[r].count = run[r].count + more
            /\ \A t \in Sessions : t # s => Counted(messages', lost', t) = Counted(messages, lost, t)
<1> DEFINE s == run[r].session
           before == Counted(messages, lost, s)
           after == Counted(messages', lost', s)
<1>1. \A t \in Sessions : t # s => Counted(messages', lost', t) = Counted(messages, lost, t)
  BY WorkAdds DEF Counted
<1>2. s \in Sessions /\ before \in Nat /\ run[r].count \in Nat
  BY WorkHasSession, CountedInStore, RunTyped DEF Works, ConversationInv, RunStates
<1>3. CASE IsSilent(r)
  <2>1. after = before + 0 /\ run'[r].count = run[r].count + 0
    BY <1>2, <1>3 DEF IsSilent
  <2>2. QED
    BY <1>1, <2>1
<1>4. ASSUME NEW what \in Sayings, NEW kept \in BOOLEAN, Says(r, what, kept)
      PROVE  \E more \in Nat : after = before + more /\ run'[r].count = run[r].count + more
  <2> DEFINE more == IF what \in Spoken THEN 1 ELSE 0
             m == Message(r, what)
  <2>1. /\ messages[s] \in Seq(MessageIds) /\ lost[s] \in Seq(MessageIds) /\ m \in MessageIds
        /\ kept => messages'[s] = Append(messages[s], m) /\ lost'[s] = lost[s]
        /\ ~kept => lost'[s] = Append(lost[s], m) /\ messages'[s] = messages[s]
    BY <1>4, SaidIs
  <2>2. m[2] = what
    BY <1>4, MessageIs
  <2>3. Said(messages[s]) \in Nat /\ Said(lost[s]) \in Nat
    BY <2>1, SpokenIsNat
  <2>4. /\ kept => Said(messages'[s]) = Said(messages[s]) + more /\ Said(lost'[s]) = Said(lost[s])
        /\ ~kept => Said(lost'[s]) = Said(lost[s]) + more /\ Said(messages'[s]) = Said(messages[s])
    BY <2>1, <2>2, SpokenAppend
  <2>5. more \in Nat /\ run'[r].count = run[r].count + more
    BY <1>4 DEF Says
  <2> HIDE DEF more, m, s
  <2>6. Counted(messages', lost', s) = Counted(messages, lost, s) + more
    BY <2>3, <2>4, <2>5 DEF Counted
  <2>7. QED
    BY <2>5, <2>6
<1>5. QED
  BY <1>1, <1>3, <1>4 DEF SaysSomething

LEMMA CountsAtFirst == ConversationInit => CountsInv
BY DEF ConversationInit, CountsInv, Active, Idle

LEMMA CountsWhileWorking ==
  ASSUME ConversationInv, CountsInv, NEW r \in Runs, Works(r), IsSilent(r) \/ SaysSomething(r)
  PROVE  CountsInv'
<1> USE DEF fileVars
<1>1. \A t \in Sessions : Counted(messages, lost, t) \in Nat /\ Counted(messages', lost', t) \in Nat
  BY CountedInStore, CountedIsNat, WorkAdds
<1>2. PICK more \in Nat :
        /\ Counted(messages', lost', run[r].session) = Counted(messages, lost, run[r].session) + more
        /\ run'[r].count = run[r].count + more
  BY SaidCounts
<1>3. \A t \in Sessions : t # run[r].session => Counted(messages', lost', t) = Counted(messages, lost, t)
  BY SaidCounts
<1>4. /\ \A t \in Sessions : Counted(messages, lost, t) <= Counted(messages', lost', t)
      /\ run[r].session \in Sessions
  <2>1. run[r].session \in Sessions
    BY WorkHasSession DEF Works
  <2>2. ASSUME NEW t \in Sessions PROVE Counted(messages, lost, t) <= Counted(messages', lost', t)
    <3>1. CASE t = run[r].session
      BY <1>1, <1>2, <3>1
    <3>2. CASE t # run[r].session
      BY <1>1, <1>3, <3>2
    <3>3. QED
      BY <3>1, <3>2
  <2>3. QED
    BY <2>1, <2>2
<1>5. UNCHANGED <<backend, rows, export, file, imported, clipped>>
  BY DEF Works
<1>6. \A s \in Sessions : rows[s] # None /\ ~CountIsImported(s) => rows[s] <= Counted(messages', lost', s)
  <2>1. \A s \in Sessions : rows[s] # None => rows[s] \in Nat
    BY DEF ConversationInv, ConversationTyped
  <2>2. QED
    BY <1>1, <1>4, <2>1 DEF CountsInv
<1>7. ASSUME NEW o \in Runs, Active(o)', ~CountIsImported(run[o].session)
      PROVE  run'[o].count <= Counted(messages', lost', run[o].session)
  <2>1. Active(o)
    BY <1>7, WorkersStay
  <2>2. /\ run[o].count <= Counted(messages, lost, run[o].session) /\ run[o].session \in Sessions
        /\ run[o].count \in Nat
    BY <1>7, <2>1, WorkHasSession, RunTyped DEF CountsInv, ConversationInv, RunStates
  <2>3. CASE o # r
    <3>1. run'[o].count = run[o].count
      BY <2>3, WorkersStay
    <3>2. QED
      BY <1>1, <1>4, <2>2, <3>1
  <2>4. CASE o = r
    BY <1>1, <1>2, <2>2, <2>4
  <2>5. QED
    BY <2>3, <2>4
<1>8. export # None /\ ~CountIsImported(export.session) =>
        export.count <= Counted(messages', lost', export.session)
  <2>1. export # None => export.session \in Sessions /\ export.count \in Nat
    BY DEF ConversationInv, ConversationTyped, Exports
  <2>2. QED
    BY <1>1, <1>4, <2>1 DEF CountsInv
<1>9. \A o \in Runs : run'[o].session = run[o].session
  BY WorkersStay
<1> HIDE DEF fileVars
<1>10. QED
  BY <1>5, <1>6, <1>7, <1>8, <1>9 DEF CountsInv, CountIsImported

LEMMA CountsKept ==
  ASSUME ConversationInv, CountsInv, ConversationNext
  PROVE  CountsInv'
<1> USE DEF fileVars, storeVars, historyVars
<1>1. ASSUME NEW r \in Runs, EndsWork(r) PROVE CountsInv'
  <2>1. UNCHANGED <<backend, messages, lost, export, file, imported, clipped>>
    BY <1>1 DEF EndsWork
  <2>2. ASSUME NEW s \in Sessions, rows'[s] # None, ~CountIsImported(s)
        PROVE  rows'[s] <= Counted(messages, lost, s)
    <3>1. CASE rows'[s] = rows[s]
      BY <2>2, <3>1 DEF CountsInv
    <3>2. CASE s = run[r].session /\ rows'[s] = run[r].count
      BY <1>1, <2>2, <3>2 DEF CountsInv, EndsWork
    <3>3. QED
      BY <1>1, <3>1, <3>2 DEF EndsWork, ConversationInv, ConversationTyped
  <2>3. ASSUME NEW o \in Runs, Active(o)', ~CountIsImported(run'[o].session)
        PROVE  run'[o].count <= Counted(messages, lost, run'[o].session)
    BY <1>1, <2>3, WorkerLeaves DEF CountsInv
  <2>4. QED
    BY <2>1, <2>2, <2>3 DEF CountsInv, CountIsImported
<1>2. ASSUME NEW r \in Runs, NEW s \in Sessions, Begins(r, s) PROVE CountsInv'
  <2>1. UNCHANGED <<backend, messages, lost, export, file, imported, clipped>>
    BY <1>2 DEF Begins
  <2>2. Counted(messages, lost, s) \in Nat
    BY CountedInStore
  <2>3. ASSUME NEW t \in Sessions, rows'[t] # None, ~CountIsImported(t)
        PROVE  rows'[t] <= Counted(messages, lost, t)
    <3>1. CASE rows'[t] = rows[t]
      BY <2>3, <3>1 DEF CountsInv
    <3>2. CASE t = s /\ rows'[t] = 0
      BY <2>2, <3>2
    <3>3. QED
      BY <1>2, <2>3, <3>1, <3>2 DEF Begins
  <2>4. ASSUME NEW o \in Runs, Active(o)', ~CountIsImported(run'[o].session)
        PROVE  run'[o].count <= Counted(messages, lost, run'[o].session)
    <3>1. CASE o = r
      <4>1. run'[r].session = s /\ (run'[r].count = 0 \/ (run'[r].count = rows[s] /\ rows[s] # None))
        BY <1>2 DEF Begins
      <4>2. CASE run'[r].count = 0
        BY <2>2, <3>1, <4>1, <4>2
      <4>3. CASE run'[r].count = rows[s] /\ rows[s] # None
        BY <2>4, <3>1, <4>1, <4>3 DEF CountsInv
      <4>4. QED
        BY <4>1, <4>2, <4>3
    <3>2. CASE o # r
      BY <1>2, <2>4, <3>2 DEF Begins, Active, CountsInv
    <3>3. QED
      BY <3>1, <3>2
  <2>5. QED
    BY <2>1, <2>3, <2>4 DEF CountsInv, CountIsImported
<1>3. ASSUME NEW s \in Sessions, Creates(s) PROVE CountsInv'
  <2>1. UNCHANGED <<backend, messages, lost, run, export, file, imported, clipped>>
    BY <1>3 DEF Creates
  <2>2. \A t \in Sessions : rows'[t] = rows[t] \/ rows'[t] = None \/ rows'[t] = 0
    BY <1>3 DEF Creates
  <2>3. \A t \in Sessions : Counted(messages, lost, t) \in Nat
    BY CountedInStore
  <2>4. \A t \in Sessions : rows'[t] # None /\ ~CountIsImported(t) => rows'[t] <= Counted(messages, lost, t)
    BY <2>2, <2>3 DEF CountsInv
  <2>5. QED
    BY <2>1, <2>4 DEF CountsInv, CountIsImported, Active
<1>4. CASE Exporting
  <2>1. UNCHANGED <<backend, rows, messages, lost, run, imported, clipped>>
    BY <1>4 DEF Exporting
  <2>2. export' # None =>
          /\ export'.session \in clipped => export'.clipped
          /\ ~CountIsImported(export'.session) => export'.count <= Counted(messages, lost, export'.session)
    <3>1. SUFFICES ASSUME export' # None
                   PROVE  /\ export'.session \in clipped => export'.clipped
                          /\ ~CountIsImported(export'.session) =>
                               export'.count <= Counted(messages, lost, export'.session)
      OBVIOUS
    <3>2. PICK s \in Sessions : /\ rows[s] # None /\ export'.session = s /\ export'.count = rows[s]
                                /\ export'.clipped = (s \in clipped)
      BY <1>4, <3>1, ExportingKnowsClipped
    <3>3. ~CountIsImported(s) => rows[s] <= Counted(messages, lost, s)
      BY <3>2 DEF CountsInv
    <3>4. QED
      BY <3>2, <3>3
  <2>3. file' # None /\ backend = "memory" /\ ~file'.clipped => file'.count <= Said(file'.messages)
    <3>1. CASE file' = file
      BY <3>1 DEF CountsInv
    <3>2. ASSUME NEW s \in Sessions, Exported(s), backend = "memory", ~file'.clipped
          PROVE  file'.count <= Said(file'.messages)
      <4>1. /\ export # None /\ s = export.session /\ ~export.clipped
            /\ file'.count = export.count /\ file'.messages = Newest(messages[s], ExportLimit)
            /\ Len(messages[s]) <= ExportLimit
        BY <3>2 DEF Exported
      <4>2. file'.messages = messages[s]
        BY <4>1 DEF Newest
      <4>3. ~CountIsImported(s)
        BY <3>2, <4>1 DEF CountsInv, CountIsImported
      <4>4. export.count <= Counted(messages, lost, s)
        BY <4>1, <4>3 DEF CountsInv
      <4>5. lost[s] = <<>>
        BY <3>2 DEF ConversationInv, MemoryLosesNothing
      <4>6. Counted(messages, lost, s) = Said(messages[s]) + 0
        BY <4>5, SpokenOfNone DEF Counted
      <4>7. Said(messages[s]) \in Nat
        BY SpokenIsNat DEF ConversationInv, ConversationTyped
      <4>8. QED
        BY <4>1, <4>2, <4>4, <4>6, <4>7
    <3>3. QED
      BY <1>4, <3>1, <3>2 DEF Exporting
  <2>4. QED
    BY <2>1, <2>2, <2>3 DEF CountsInv, CountIsImported, Active
<1>5. ASSUME NEW r \in Runs, Fails(r) PROVE CountsInv'
  <2>1. UNCHANGED <<backend, rows, messages, lost, export, file, imported, clipped>>
    BY <1>5 DEF Fails
  <2>2. \A o \in Runs : Active(o)' => Active(o) /\ run'[o] = run[o]
    BY <1>5, FailedWasNoWorker
  <2>3. QED
    BY <2>1, <2>2 DEF CountsInv, CountIsImported
<1>6. ASSUME NEW s \in Sessions, Imports(s) PROVE CountsInv'
  <2>1. \A t : t # s => CountIsImported(t)' = CountIsImported(t)
    BY <1>6 DEF Imports, CountIsImported
  <2>2. ASSUME NEW t \in Sessions, t # s PROVE Counted(messages', lost', t) = Counted(messages, lost, t)
    BY <1>6, <2>2 DEF Imports, Counted
  <2>3. ASSUME NEW t \in Sessions, rows'[t] # None, ~CountIsImported(t)'
        PROVE  rows'[t] <= Counted(messages', lost', t)
    <3>1. CASE t # s
      BY <1>6, <2>1, <2>2, <2>3, <3>1 DEF Imports, CountsInv
    <3>2. CASE t = s
      <4>1. backend = "memory" /\ ~file.clipped
        BY <1>6, <2>3, <3>2 DEF Imports, CountIsImported, ConversationInv, ConversationTyped
      <4>2. /\ rows'[s] = file.count /\ messages'[s] = file.messages /\ lost'[s] = <<>>
            /\ file.messages \in Seq(MessageIds)
        BY <1>6, <4>1 DEF Imports, Exports
      <4>3. file.count <= Said(file.messages)
        BY <1>6, <4>1 DEF Imports, CountsInv
      <4>4. Counted(messages', lost', s) = Said(file.messages) + 0 /\ Said(file.messages) \in Nat
        BY <4>2, SpokenOfNone, SpokenIsNat DEF Counted
      <4>5. QED
        BY <3>2, <4>2, <4>3, <4>4
    <3>3. QED
      BY <3>1, <3>2
  <2>4. ASSUME NEW o \in Runs, Active(o)',
               ~(backend' = "mysql" /\ run'[o].session \in imported'), run'[o].session \notin clipped'
        PROVE  run'[o].count <= Counted(messages', lost', run'[o].session)
    <3>1. Active(o) /\ run'[o] = run[o]
      BY <1>6, <2>4 DEF Imports, Active
    <3>2. run[o].session \in generated /\ run[o].session \in Sessions /\ s \notin generated
      BY <1>6, <3>1, WorkHasSession DEF Imports, Fresh
    <3>3. ~CountIsImported(run[o].session)
      BY <1>6, <2>4, <3>1, <3>2 DEF Imports, CountIsImported
    <3>4. QED
      BY <2>2, <3>1, <3>2, <3>3 DEF CountsInv
  <2>5. export # None => export.session \in generated /\ export.session \in Sessions /\ s \notin generated
    BY <1>6 DEF Imports, Fresh, ConversationInv, ConversationTyped, RunsHaveSessions
  <2>6. export # None =>
          /\ export.session \in clipped' => export.clipped
          /\ ~CountIsImported(export.session)' => export.count <= Counted(messages', lost', export.session)
    BY <1>6, <2>1, <2>2, <2>5 DEF Imports, CountsInv
  <2>7. export' = export /\ file' = file /\ backend' = backend
    BY <1>6 DEF Imports
  <2>8. QED
    BY <2>3, <2>4, <2>6, <2>7 DEF CountsInv, CountIsImported
<1>7. CASE Crashes
  <2>1. /\ UNCHANGED <<backend, lost, file, imported, clipped>> /\ export' = None
        /\ \A r \in Runs : ~Active(r)'
    BY <1>7 DEF Crashes
  <2>2. CASE UNCHANGED <<rows, messages>>
    BY <2>1, <2>2 DEF CountsInv, CountIsImported
  <2>3. CASE rows' = [s \in Sessions |-> None]
    BY <2>1, <2>3 DEF CountsInv, CountIsImported
  <2>4. QED
    BY <1>7, <2>2, <2>3 DEF Crashes
<1>8. QED
  BY <1>1, <1>2, <1>3, <1>4, <1>5, <1>6, <1>7, CountsWhileWorking, ConversationSteps

LEMMA SerialAtFirst == ConversationInit => SerialInv
BY DEF ConversationInit, SerialInv

LEMMA SerialWhileWorking ==
  ASSUME ConversationInv, SerialInv, NEW r \in Runs, Works(r), IsSilent(r) \/ SaysSomething(r)
  PROVE  SerialInv'
<1>1. /\ UNCHANGED <<generated, overlapped, imported, rows>>
      /\ \A o \in Runs : \A s : WorksOn(o, s)' = WorksOn(o, s)
  BY WorkersStay DEF Works, fileVars
<1>2. PICK more \in Nat :
        /\ Counted(messages', lost', run[r].session) = Counted(messages, lost, run[r].session) + more
        /\ run'[r].count = run[r].count + more
  BY SaidCounts
<1>3. \A t \in Sessions : t # run[r].session => Counted(messages', lost', t) = Counted(messages, lost, t)
  BY SaidCounts
<1>4. At(r, "resolved")' => At(r, "resolved") /\ IsSilent(r)
  BY DEF Works, At, SaysSomething, Says
<1>5. IsSilent(r) => Counted(messages', lost', run[r].session) = Counted(messages, lost, run[r].session)
  BY DEF IsSilent
<1>6. ASSUME NEW s \in generated \ (overlapped \cup imported)
      PROVE  /\ \A p, o \in Runs : WorksOn(p, s) /\ WorksOn(o, s) => p = o
             /\ rows[s] # None /\ (\A o \in Runs : ~WorksOn(o, s)) => rows[s] = Counted(messages', lost', s)
             /\ \A o \in Runs : WorksOn(o, s) =>
                  /\ run'[o].count = Counted(messages', lost', s)
                  /\ At(o, "resolved")' => rows[s] \in {None, Counted(messages', lost', s)}
  <2>1. \A p, o \in Runs : WorksOn(p, s) /\ WorksOn(o, s) => p = o
    BY <1>6 DEF SerialInv
  <2>2. s \in Sessions
    BY DEF ConversationInv, ConversationTyped
  <2>3. CASE s # run[r].session
    <3>1. Counted(messages', lost', s) = Counted(messages, lost, s)
      BY <1>3, <2>2, <2>3
    <3>2. \A o \in Runs : WorksOn(o, s) => o # r /\ run'[o] = run[o]
      BY <2>3, WorkersStay DEF WorksOn
    <3>3. QED
      BY <1>6, <2>1, <3>1, <3>2 DEF SerialInv, At
  <2>4. CASE s = run[r].session
    <3>1. WorksOn(r, s) /\ \A o \in Runs : WorksOn(o, s) => o = r
      BY <2>1, <2>4 DEF Works, WorksOn
    <3>2. /\ run[r].count = Counted(messages, lost, s)
          /\ At(r, "resolved") => rows[s] \in {None, Counted(messages, lost, s)}
      BY <1>6, <3>1 DEF SerialInv
    <3>3. run'[r].count = Counted(messages', lost', s)
      BY <1>2, <2>4, <3>2
    <3>4. At(r, "resolved")' => rows[s] \in {None, Counted(messages', lost', s)}
      BY <1>4, <1>5, <2>4, <3>2
    <3>5. QED
      BY <2>1, <3>1, <3>3, <3>4
  <2>5. QED
    BY <2>3, <2>4
<1>7. QED
  BY <1>1, <1>6 DEF SerialInv

LEMMA SerialKept ==
  ASSUME ConversationInv, SerialInv, ConversationNext
  PROVE  SerialInv'
<1> USE DEF fileVars, storeVars, historyVars
<1>1. ASSUME NEW r \in Runs, EndsWork(r) PROVE SerialInv'
  <2>1. /\ UNCHANGED <<messages, lost, generated, imported>> /\ overlapped \subseteq overlapped'
        /\ \A o \in Runs : \A s : WorksOn(o, s)' <=> WorksOn(o, s) /\ o # r
        /\ \A o \in Runs : o # r => run'[o] = run[o]
    BY <1>1, WorkerLeaves DEF EndsWork
  <2>2. ASSUME NEW s \in generated \ (overlapped' \cup imported)
        PROVE  /\ \A p, o \in Runs : WorksOn(p, s)' /\ WorksOn(o, s)' => p = o
               /\ rows'[s] # None /\ (\A o \in Runs : ~WorksOn(o, s)') => rows'[s] = Counted(messages, lost, s)
               /\ \A o \in Runs : WorksOn(o, s)' =>
                    /\ run'[o].count = Counted(messages, lost, s)
                    /\ At(o, "resolved")' => rows'[s] \in {None, Counted(messages, lost, s)}
    <3>1. s \in generated \ (overlapped \cup imported) /\ s \in Sessions
      BY <2>1 DEF ConversationInv, ConversationTyped
    <3>2. \A p, o \in Runs : WorksOn(p, s) /\ WorksOn(o, s) => p = o
      BY <3>1 DEF SerialInv
    <3>3. CASE s # run[r].session
      <4>1. rows'[s] = rows[s] /\ ~WorksOn(r, s)
        BY <1>1, <3>1, <3>3 DEF EndsWork, WorksOn, ConversationInv, ConversationTyped
      <4>2. QED
        BY <2>1, <3>1, <4>1 DEF SerialInv, At
    <3>4. CASE s = run[r].session
      <4>1. WorksOn(r, s)
        BY <1>1, <3>4 DEF EndsWork, WorksOn
      <4>2. \A o \in Runs : ~WorksOn(o, s)'
        BY <2>1, <3>2, <4>1
      <4>3. /\ run[r].count = Counted(messages, lost, s)
            /\ At(r, "resolved") => rows[s] \in {None, Counted(messages, lost, s)}
        BY <3>1, <4>1 DEF SerialInv
      <4>4. rows'[s] \in {None, Counted(messages, lost, s)}
        BY <1>1, <2>2, <3>1, <3>4, <4>3 DEF EndsWork, ConversationInv, ConversationTyped
      <4>5. QED
        BY <4>2, <4>4
    <3>5. QED
      BY <3>3, <3>4
  <2>3. QED
    BY <2>1, <2>2 DEF SerialInv
<1>2. ASSUME NEW r \in Runs, NEW s \in Sessions, Begins(r, s) PROVE SerialInv'
  <2>1. /\ UNCHANGED <<messages, lost, imported>> /\ overlapped \subseteq overlapped'
        /\ \A o \in Runs : o # r => run'[o] = run[o]
        /\ \A o \in Runs : \A t : o # r => (WorksOn(o, t)' <=> WorksOn(o, t))
        /\ \A t : WorksOn(r, t)' <=> t = s
        /\ \A t : ~WorksOn(r, t)
    BY <1>2 DEF Begins, WorksOn, Active
  <2>2. ASSUME NEW t \in generated' \ (overlapped' \cup imported)
        PROVE  /\ \A p, o \in Runs : WorksOn(p, t)' /\ WorksOn(o, t)' => p = o
               /\ rows'[t] # None /\ (\A o \in Runs : ~WorksOn(o, t)') => rows'[t] = Counted(messages, lost, t)
               /\ \A o \in Runs : WorksOn(o, t)' =>
                    /\ run'[o].count = Counted(messages, lost, t)
                    /\ At(o, "resolved")' => rows'[t] \in {None, Counted(messages, lost, t)}
    <3>1. CASE t # s
      <4>1. t \in generated \ (overlapped \cup imported) /\ t \in Sessions /\ rows'[t] = rows[t]
        BY <1>2, <2>1, <2>2, <3>1 DEF Begins, ConversationInv, ConversationTyped
      <4>2. QED
        BY <2>1, <3>1, <4>1 DEF SerialInv, At
    <3>2. CASE t = s
      <4>1. \A o \in Runs : ~WorksOn(o, s)
        BY <1>2, <2>2, <3>2 DEF Begins
      <4>2. run'[r].count = Counted(messages, lost, s) /\ rows'[s] \in {None, Counted(messages, lost, s)}
        <5>1. CASE rows' = rows /\ rows[s] # None /\ s \in generated /\ run'[r].count = rows[s]
          BY <2>1, <2>2, <3>2, <4>1, <5>1 DEF SerialInv
        <5>2. CASE Fresh(s) /\ rows'[s] \in {None, 0} /\ run'[r].count = 0
          BY <5>2, FreshCountsNothing
        <5>3. QED
          BY <1>2, <5>1, <5>2 DEF Begins
      <4>3. \A o \in Runs : WorksOn(o, s)' => o = r
        BY <2>1, <4>1
      <4>4. WorksOn(r, s)'
        BY <2>1
      <4>5. QED
        BY <3>2, <4>2, <4>3, <4>4
    <3>3. QED
      BY <3>1, <3>2
  <2>3. QED
    BY <2>1, <2>2 DEF SerialInv
<1>3. ASSUME NEW s \in Sessions, Creates(s) PROVE SerialInv'
  <2>1. /\ generated' = generated \cup {s} /\ s \notin generated /\ rows'[s] \in {None, 0}
        /\ \A t \in Sessions : t # s => rows'[t] = rows[t]
        /\ UNCHANGED <<messages, lost, run, imported, overlapped>>
    BY <1>3 DEF Creates, Fresh
  <2>2. /\ \A o \in Runs : \A t : WorksOn(o, t)' = WorksOn(o, t)
        /\ \A o \in Runs : ~WorksOn(o, s)
    BY <2>1 DEF WorksOn, Active, ConversationInv, RunsHaveSessions
  <2>3. Counted(messages, lost, s) = 0 /\ generated \subseteq Sessions
    BY <1>3, FreshCountsNothing DEF Creates, ConversationInv, ConversationTyped
  <2>4. QED
    BY <2>1, <2>2, <2>3 DEF SerialInv, At
<1>4. ASSUME NEW s \in Sessions, Imports(s) PROVE SerialInv'
  <2>1. /\ generated' = generated \cup {s} /\ imported' = imported \cup {s}
        /\ \A t \in Sessions : t # s => rows'[t] = rows[t] /\ messages'[t] = messages[t] /\ lost'[t] = lost[t]
        /\ UNCHANGED <<run, overlapped>> /\ generated \subseteq Sessions
    BY <1>4 DEF Imports, ConversationInv, ConversationTyped
  <2>2. \A o \in Runs : \A t : WorksOn(o, t)' = WorksOn(o, t)
    BY <2>1 DEF WorksOn, Active
  <2>3. \A t \in Sessions : t # s => Counted(messages', lost', t) = Counted(messages, lost, t)
    BY <2>1 DEF Counted
  <2>4. QED
    BY <2>1, <2>2, <2>3 DEF SerialInv, At
<1>5. CASE Crashes
  <2>1. \A o \in Runs : \A t : ~WorksOn(o, t)'
    BY <1>5 DEF Crashes, WorksOn
  <2>2. ASSUME NEW s \in generated \ (overlapped' \cup imported), rows'[s] # None
        PROVE  rows'[s] = Counted(messages', lost', s)
    <3>1. s \in Sessions /\ UNCHANGED <<rows, messages, lost>>
      BY <1>5, <2>2 DEF Crashes, ConversationInv, ConversationTyped
    <3>2. \A o \in Runs : ~WorksOn(o, s)
      BY <1>5, <2>2, <3>1 DEF Crashes
    <3>3. s \in generated \ (overlapped \cup imported)
      BY <1>5, <2>2 DEF Crashes
    <3>4. QED
      BY <2>2, <3>1, <3>2, <3>3 DEF SerialInv
  <2>3. QED
    BY <1>5, <2>1, <2>2 DEF Crashes, SerialInv
<1>6. CASE Exporting
  <2>1. UNCHANGED <<rows, messages, lost, run, generated, imported, overlapped>>
    BY <1>6 DEF Exporting
  <2>2. QED
    BY <2>1 DEF SerialInv, WorksOn, Active, At
<1>7. ASSUME NEW r \in Runs, Fails(r) PROVE SerialInv'
  <2>1. /\ UNCHANGED <<rows, messages, lost, generated, imported, overlapped>>
        /\ \A o \in Runs : \A t : WorksOn(o, t)' = WorksOn(o, t)
        /\ \A o \in Runs : \A t : WorksOn(o, t) => run'[o] = run[o]
    BY <1>7, FailedWasNoWorker DEF Fails, WorksOn
  <2>2. QED
    BY <2>1 DEF SerialInv, At
<1>8. QED
  BY <1>1, <1>2, <1>3, <1>4, <1>5, <1>6, <1>7, SerialWhileWorking, ConversationSteps

--------------------------------------------------------------------------------
(* Results and answers                                                     *)

(* The call a run is about to answer is stored, or was lost.               *)
CallIsKnown(store, gone, s, r, round) ==
  Contains(store[s], <<r, "call", round>>) \/ Contains(gone[s], <<r, "call", round>>)

LEMMA ResultsAtFirst == ConversationInit => ResultsInv
BY DEF ConversationInit, ResultsInv, FollowsCalls, At, Idle

LEMMA ResultsWhileWorking ==
  ASSUME ConversationInv, ResultsInv, NEW r \in Runs, Works(r), IsSilent(r) \/ SaysSomething(r)
  PROVE  ResultsInv'
<1>1. ASSUME NEW s \in Sessions \ clipped PROVE FollowsCalls(messages'[s], lost'[s])
  <2>1. FollowsCalls(messages[s], lost[s])
    BY DEF ResultsInv
  <2>2. FollowsCalls(messages[s], lost'[s])
    BY <2>1, WorkAdds, FollowsMore
  <2>3. CASE messages'[s] = messages[s]
    BY <2>2, <2>3
  <2>4. ASSUME NEW what \in Sayings, NEW kept \in BOOLEAN, Says(r, what, kept), s = run[r].session, kept
        PROVE  FollowsCalls(messages'[s], lost'[s])
    <3>1. /\ Message(r, what) \in MessageIds /\ Message(r, what) = <<r, what, run[r].round>>
          /\ messages[s] \in Seq(MessageIds) /\ messages'[s] = Append(messages[s], Message(r, what))
          /\ lost' = lost
      BY <2>4, SaidIs
    <3>2. what = "result" => \/ Contains(messages[s], <<r, "call", run[r].round>>)
                             \/ Contains(lost'[s], <<r, "call", run[r].round>>)
      BY <2>4, <3>1 DEF Says, ResultsInv, At, Message
    <3>3. QED
      BY <2>2, <3>1, <3>2, FollowsAppend
  <2>5. QED
    BY <2>3, <2>4, WorkAdds DEF IsSilent, SaysSomething, Says
<1>2. ASSUME NEW o \in Runs, At(o, "calling")'
      PROVE  CallIsKnown(messages', lost', run'[o].session, o, run'[o].round)
  <2>1. run'[o].session = run[o].session
    BY <1>2, WorkersStay
  <2>2. CASE At(o, "calling") /\ run'[o].round = run[o].round
    <3>1. CallIsKnown(messages, lost, run[o].session, o, run[o].round)
      BY <2>2 DEF ResultsInv, Message, CallIsKnown
    <3>2. run[o].session \in Sessions
      BY <2>2, WorkHasSession DEF Active, At
    <3>3. QED
      BY <2>1, <2>2, <3>1, <3>2, WorkAdds DEF CallIsKnown
  <2>3. CASE o = r /\ ~At(o, "calling")
    <3>1. PICK kept \in BOOLEAN : Says(r, "call", kept)
      BY <1>2, <2>3 DEF IsSilent, SaysSomething, Says, At
    <3>2. run'[r].round = run[r].round /\ "call" \in Sayings
      BY <1>2, <2>3 DEF Works, At, Sayings
    <3>3. \/ Contains(messages'[run[r].session], <<r, "call", run[r].round>>)
          \/ Contains(lost'[run[r].session], <<r, "call", run[r].round>>)
      BY <3>1, <3>2, SaidIs
    <3>4. QED
      BY <2>1, <2>3, <3>2, <3>3 DEF CallIsKnown
  <2>4. QED
    BY <1>2, <2>2, <2>3 DEF Works, At
<1>3. UNCHANGED <<backend, export, file, clipped>>
  BY DEF Works, fileVars
<1>4. QED
  BY <1>1, <1>2, <1>3 DEF ResultsInv, Message, CallIsKnown

LEMMA ResultsKept ==
  ASSUME ConversationInv, ResultsInv, ConversationNext
  PROVE  ResultsInv'
<1> USE DEF fileVars, storeVars, historyVars
<1>1. ASSUME UNCHANGED <<backend, messages, lost, export, file, clipped>>,
             \A o \in Runs : At(o, "calling")' => run'[o] = run[o]
      PROVE  ResultsInv'
  BY <1>1 DEF ResultsInv, At, Message
<1>2. ASSUME NEW r \in Runs, EndsWork(r) \/ Fails(r) PROVE ResultsInv'
  BY <1>1, <1>2 DEF EndsWork, Fails, At
<1>3. ASSUME NEW r \in Runs, NEW s \in Sessions, Begins(r, s) PROVE ResultsInv'
  BY <1>1, <1>3 DEF Begins, At
<1>4. ASSUME NEW s \in Sessions, Creates(s) PROVE ResultsInv'
  BY <1>1, <1>4 DEF Creates
<1>5. ASSUME NEW s \in Sessions, Imports(s) PROVE ResultsInv'
  <2>1. FollowsCalls(<<>>, <<>>)
    BY DEF FollowsCalls
  <2>2. FollowsCalls(messages'[s], lost'[s]) \/ s \in clipped'
    <3>1. CASE backend = "mysql"
      BY <1>5, <2>1, <3>1 DEF Imports
    <3>2. CASE backend = "memory"
      BY <1>5, <3>2 DEF Imports, ResultsInv
    <3>3. QED
      BY <3>1, <3>2 DEF ConversationInv, ConversationTyped
  <2>3. \A t \in Sessions \ clipped' : FollowsCalls(messages'[t], lost'[t])
    BY <1>5, <2>2 DEF Imports, ResultsInv
  <2>4. ASSUME NEW o \in Runs, At(o, "calling")
        PROVE  messages'[run[o].session] = messages[run[o].session]
    BY <1>5, <2>4, WorkHasSession DEF Imports, Fresh, At, Active
  <2>5. export # None => export.session # s
    BY <1>5 DEF Imports, Fresh, ConversationInv, RunsHaveSessions
  <2>6. QED
    BY <1>5, <2>3, <2>4, <2>5 DEF Imports, ResultsInv, At, Message
<1>6. CASE Exporting
  <2>1. UNCHANGED <<backend, messages, lost, run, clipped>>
    BY <1>6 DEF Exporting
  <2>2. export' # None => (export'.session \in clipped => export'.clipped)
    BY <1>6, ExportingKnowsClipped
  <2>3. file' # None /\ backend = "memory" /\ ~file'.clipped => FollowsCalls(file'.messages, <<>>)
    <3>1. CASE file' = file
      BY <3>1 DEF ResultsInv
    <3>2. ASSUME NEW s \in Sessions, Exported(s), backend = "memory", ~file'.clipped
          PROVE  FollowsCalls(file'.messages, <<>>)
      <4>1. /\ export # None /\ s = export.session /\ ~export.clipped
            /\ file'.messages = Newest(messages[s], ExportLimit) /\ Len(messages[s]) <= ExportLimit
        BY <3>2 DEF Exported
      <4>2. file'.messages = messages[s]
        BY <4>1 DEF Newest
      <4>3. s \notin clipped /\ lost[s] = <<>>
        BY <3>2, <4>1 DEF ResultsInv, ConversationInv, MemoryLosesNothing
      <4>4. FollowsCalls(messages[s], lost[s])
        BY <4>3 DEF ResultsInv
      <4>5. QED
        BY <4>2, <4>3, <4>4
    <3>3. QED
      BY <1>6, <3>1, <3>2 DEF Exporting
  <2>4. QED
    BY <2>1, <2>2, <2>3 DEF ResultsInv, At, Message
<1>7. CASE Crashes
  <2>1. FollowsCalls(<<>>, <<>>)
    BY DEF FollowsCalls
  <2>2. \A s \in Sessions \ clipped : FollowsCalls(messages'[s], lost[s])
    <3>1. CASE messages' = messages
      BY <3>1 DEF ResultsInv
    <3>2. CASE backend = "memory" /\ messages' = [s \in Sessions |-> <<>>]
      BY <2>1, <3>2 DEF ConversationInv, MemoryLosesNothing
    <3>3. QED
      BY <1>7, <3>1, <3>2 DEF Crashes
  <2>3. \A r \in Runs : ~At(r, "calling")'
    BY <1>7 DEF Crashes, Active, At
  <2>4. QED
    BY <1>7, <2>2, <2>3 DEF Crashes, ResultsInv
<1>8. QED
  BY <1>2, <1>3, <1>4, <1>5, <1>6, <1>7, ResultsWhileWorking, ConversationSteps

(* What a run has as history tells of the runs it knew.                    *)
Remembers(local) ==
  \A o \in local.knew :
    LET heard == {m \in ToSet(local.history) : m[1] = o}
    IN (\E m \in heard : m[2] = "answer") \/ (heard = {} /\ Len(local.history) = HistoryLimit)

LEMMA AnswersAreRememberedBy == AnswersAreRemembered <=> \A r \in Runs : Remembers(run[r])
BY DEF AnswersAreRemembered, Remembers

LEMMA NothingToRemember == \A local : local.knew = {} => Remembers(local)
BY DEF Remembers

LEMMA AnswersAtFirst == ConversationInit => AnswersInv
BY AnswersAreRememberedBy, NothingToRemember DEF ConversationInit, AnswersInv, Idle

LEMMA AnswersWhileWorking ==
  ASSUME ConversationInv, AnswersInv, NEW r \in Runs, Works(r), IsSilent(r) \/ SaysSomething(r)
  PROVE  AnswersInv'
<1>1. run \in [Runs -> RunStates] /\ run[r] \in RunStates /\ answered \subseteq Runs
  BY RunTyped DEF ConversationInv, ConversationTyped
<1>2. ASSUME NEW o \in answered'
      PROVE  run'[o].at \in {"closing", "over"} /\ EndsWithAnswer(o, messages'[run'[o].session])
  <2>1. CASE messages' = messages /\ answered' = answered
    <3>1. o \in answered /\ o \in Runs
      BY <1>1, <1>2, <2>1
    <3>2. run'[o].session = run[o].session
      BY <3>1, WorkersStay
    <3>3. run'[o].at \in {"closing", "over"}
      BY <3>1 DEF AnswersInv, Works, Active
    <3>4. QED
      BY <2>1, <3>1, <3>2, <3>3 DEF AnswersInv
  <2>2. ASSUME NEW what \in Sayings, NEW kept \in BOOLEAN, Says(r, what, kept), kept
        PROVE  run'[o].at \in {"closing", "over"} /\ EndsWithAnswer(o, messages'[run'[o].session])
    <3> DEFINE m == Message(r, what)
               s == run[r].session
    <3>a. m = <<r, what, run[r].round>>
      BY MessageIs
    <3>b. /\ m \in MessageIds /\ messages[s] \in Seq(MessageIds) /\ s \in Sessions
          /\ messages'[s] = Append(messages[s], m)
          /\ \A t \in Sessions : t # s => messages'[t] = messages[t]
      BY <2>2, SaidIs
    <3>1. m[1] = r /\ m[2] = what
      BY <3>a
    <3>2. r \notin answered
      BY <2>2 DEF Says, AnswersInv, Works, Active
    <3> HIDE DEF m, s
    <3>3. CASE o = r
      <4>1. what = "answer" /\ run'[r].at = "closing"
        BY <1>2, <2>2, <3>2, <3>3 DEF Says
      <4>2. EndsWithAnswer(r, messages'[s])
        BY <3>1, <3>b, <4>1, AnswerAppend
      <4>3. QED
        BY <3>3, <4>1, <4>2 DEF Works, s
    <3>4. CASE o # r
      <4>1. o \in answered /\ o \in Runs /\ run'[o] = run[o]
        BY <1>1, <1>2, <2>2, <3>4 DEF Says, Works
      <4>2. run[o].at \in {"closing", "over"} /\ EndsWithAnswer(o, messages[run[o].session])
        BY <4>1 DEF AnswersInv
      <4>3. run[o].session \in Sessions
        BY <4>1 DEF ConversationInv, ConversationTyped, RunsHaveSessions
      <4>4. EndsWithAnswer(o, messages'[run[o].session])
        BY <3>1, <3>b, <3>4, <4>2, <4>3, AnswerAppend
      <4>5. QED
        BY <4>1, <4>2, <4>4
    <3>5. QED
      BY <3>3, <3>4
  <2>3. QED
    BY <2>1, <2>2 DEF IsSilent, SaysSomething, Says
<1>3. ASSUME NEW o \in Runs PROVE Remembers(run'[o])
  <2>1. Remembers(run[o])
    BY AnswersAreRememberedBy DEF AnswersInv
  <2>2. CASE run'[o].knew = run[o].knew /\ run'[o].history = run[o].history
    BY <2>1, <2>2 DEF Remembers
  <2>3. CASE run'[o].knew = {}
    BY <2>3, NothingToRemember
  <2>4. ASSUME o = r, NEW kept \in BOOLEAN, ReadHistory(r, kept) PROVE Remembers(run'[o])
    <3>1. CASE ~kept
      BY <1>1, <2>2, <2>4, <3>1 DEF ReadHistory, Moves, Becomes, RunStates
    <3>2. CASE kept
      <4> DEFINE s == run[r].session
                 new == Newest(messages[s], HistoryLimit)
      <4>1. run'[r].knew = {p \in answered : run[p].session = s} /\ run'[r].history = new
        <5> DEFINE k == {p \in answered : run[p].session = s}
        <5>1. run' = [run EXCEPT ![r] = [run[r] EXCEPT !.at = "read", !.history = new, !.knew = k]]
          BY <2>4, <3>2 DEF ReadHistory, Becomes, ListBySession
        <5> HIDE DEF k, new, s
        <5>2. QED
          BY <1>1, <5>1 DEF RunStates, k, s
      <4>2. messages[s] \in Seq(MessageIds) /\ HistoryLimit \in Nat
        BY WorkHasSession, ConversationAssumption DEF Works
      <4>3. ASSUME NEW p \in run'[r].knew
            PROVE  LET heard == {m \in ToSet(new) : m[1] = p}
                   IN (\E m \in heard : m[2] = "answer") \/ (heard = {} /\ Len(new) = HistoryLimit)
        <5>1. EndsWithAnswer(p, messages[s])
          BY <4>1, <4>3 DEF AnswersInv
        <5>2. QED
          BY <4>2, <5>1, AnswerIsRemembered
      <4> HIDE DEF new
      <4>4. QED
        BY <2>4, <4>1, <4>3 DEF Remembers
    <3>3. QED
      BY <3>1, <3>2
  <2>5. QED
    BY <2>2, <2>3, <2>4, WorkersStay DEF Works
<1>4. QED
  BY <1>2, <1>3 DEF AnswersInv, AnswersAreRemembered, Remembers

LEMMA AnswersKept ==
  ASSUME ConversationInv, AnswersInv, ConversationNext
  PROVE  AnswersInv'
<1> USE DEF fileVars, storeVars, historyVars
<1>1. \A r \in Runs : Remembers(run[r])
  BY AnswersAreRememberedBy DEF AnswersInv
<1>2. ASSUME \A r \in Runs : run'[r] = run[r] \/ run'[r].knew = {},
             \A r \in answered' : /\ run'[r].at \in {"closing", "over"}
                                  /\ EndsWithAnswer(r, messages'[run'[r].session])
      PROVE  AnswersInv'
  <2>1. \A r \in Runs : Remembers(run'[r])
    BY <1>1, <1>2, NothingToRemember
  <2>2. QED
    BY <1>2, <2>1 DEF AnswersInv, AnswersAreRemembered, Remembers
<1>3. ASSUME NEW r \in Runs, EndsWork(r) \/ Fails(r) PROVE AnswersInv'
  BY <1>2, <1>3 DEF EndsWork, Fails, AnswersInv, ConversationInv, ConversationTyped
<1>4. ASSUME NEW r \in Runs, NEW s \in Sessions, Begins(r, s) PROVE AnswersInv'
  BY <1>2, <1>4 DEF Begins, AnswersInv, ConversationInv, ConversationTyped
<1>5. ASSUME Exporting \/ \E s \in Sessions : Creates(s) PROVE AnswersInv'
  <2>1. UNCHANGED <<run, messages, answered>>
    BY <1>5 DEF Creates, Exporting
  <2>2. QED
    BY <1>2, <2>1 DEF AnswersInv
<1>6. ASSUME NEW s \in Sessions, Imports(s) PROVE AnswersInv'
  <2>1. \A r \in answered : messages'[run[r].session] = messages[run[r].session]
    BY <1>6 DEF Imports, Fresh, ConversationInv, ConversationTyped, RunsHaveSessions
  <2>2. QED
    BY <1>2, <1>6, <2>1 DEF Imports, AnswersInv
<1>7. CASE Crashes
  <2>1. \A r \in answered' : r \in answered /\ messages' = messages
    BY <1>7 DEF Crashes
  <2>2. \A r \in answered : /\ run'[r].session = run[r].session
                            /\ run'[r].at \in {"closing", "over"}
    BY <1>7 DEF Crashes, AnswersInv, ConversationInv, ConversationTyped
  <2>3. \A r \in Runs : run'[r] = run[r] \/ run'[r].knew = {}
    BY <1>7 DEF Crashes
  <2>4. QED
    BY <1>2, <2>1, <2>2, <2>3 DEF AnswersInv
<1>8. QED
  BY <1>3, <1>4, <1>5, <1>6, <1>7, AnswersWhileWorking, ConversationSteps

--------------------------------------------------------------------------------
(* Theorems                                                                *)

ConversationIInv == ConversationInv /\ CountsInv /\ SerialInv /\ ResultsInv /\ AnswersInv

(* What the stores, the runs and the files have to do with each other      *)
(* holds in every state.                                                   *)
THEOREM ConversationHolds == ConversationSpec => []ConversationIInv
<1>1. ConversationInit => ConversationIInv
  BY ConversationInitially, CountsAtFirst, SerialAtFirst, ResultsAtFirst, AnswersAtFirst
     DEF ConversationIInv
<1>2. ConversationIInv /\ [ConversationNext]_conversationVars => ConversationIInv'
  <2> SUFFICES ASSUME ConversationIInv, [ConversationNext]_conversationVars PROVE ConversationIInv'
    OBVIOUS
  <2>1. CASE ConversationNext
    BY <2>1, ConversationKept, CountsKept, SerialKept, ResultsKept, AnswersKept DEF ConversationIInv
  <2>2. CASE UNCHANGED conversationVars
    <3>1. ConversationInv'
      BY <2>2, ConversationKept DEF ConversationIInv
    <3>2. UNCHANGED <<backend, rows, messages, lost, run, export, file, generated, imported, clipped,
                    overlapped, answered>>
      BY <2>2 DEF conversationVars, storeVars, fileVars, historyVars
    <3>3. CountsInv' /\ SerialInv' /\ ResultsInv' /\ AnswersInv'
      BY <3>2 DEF ConversationIInv, CountsInv, SerialInv, ResultsInv, AnswersInv, AnswersAreRemembered,
        CountIsImported, WorksOn, Active, At, Message
    <3>4. QED
      BY <3>1, <3>3 DEF ConversationIInv
  <2>3. QED
    BY <2>1, <2>2
<1>3. QED
  BY <1>1, <1>2, PTL DEF ConversationSpec

LEMMA ConversationIsTyped == ConversationInv => ConversationTypeOK
<1> SUFFICES ASSUME ConversationInv PROVE ConversationTypeOK
  OBVIOUS
<1>1. ASSUME NEW r \in Runs PROVE RunTypeOK(r)
  <2>1. run[r] \in RunStates /\ Len(run[r].history) <= HistoryLimit
    BY <1>1 DEF ConversationInv, ConversationTyped
  <2>2. DOMAIN run[r] = {"at", "session", "count", "history", "knew", "round"}
    BY <2>1 DEF RunStates
  <2>3. DOMAIN Idle = {"at", "session", "count", "history", "knew", "round"}
    BY DEF Idle
  <2>4. QED
    BY <2>1, <2>2, <2>3 DEF RunTypeOK, RunStates
<1>2. QED
  BY <1>1 DEF ConversationTypeOK, ConversationInv, ConversationTyped

(* However runs of one session overlap, are cut off, refused or exported,  *)
(* and whichever of their saves fail: the count of a stored session is     *)
(* never higher than the number of its messages that are stored and of     *)
(* those whose save failed, two kinds of import apart.                     *)
THEOREM CountsAreAlwaysBacked == ConversationSpec => []CountsAreBacked
<1>1. ConversationIInv => CountsAreBacked
  BY ConversationIsTyped DEF ConversationIInv, CountsInv, CountsAreBacked, CountIsImported, Counted
<1>2. QED
  BY <1>1, ConversationHolds, PTL

(* Runs that follow one another in a session, are not cut off and save it  *)
(* in the end, count everything that was said, saved or not.               *)
THEOREM SerialRunsAlwaysCountAll == ConversationSpec => []SerialRunsCountAll
<1>1. ConversationIInv => SerialRunsCountAll
  BY DEF ConversationIInv, SerialInv, SerialRunsCountAll, Counted
<1>2. QED
  BY <1>1, ConversationHolds, PTL

(* No result is stored, exported or imported without the call it answers   *)
(* before it, whatever run was cut off or refused between the two, except  *)
(* where the save of this call failed or an export cut it off.             *)
THEOREM ResultsAlwaysFollowCalls == ConversationSpec => []ResultsFollowCalls
<1>1. ConversationIInv => ResultsFollowCalls
  BY DEF ConversationIInv, ResultsInv, FollowsCalls, ResultsFollowCalls
<1>2. QED
  BY <1>1, ConversationHolds, PTL

(* The history a run reads has the answer of every earlier run of its      *)
(* session, unless it is full of newer messages and has nothing of it.     *)
THEOREM AnswersAreAlwaysRemembered == ConversationSpec => []AnswersAreRemembered
<1>1. ConversationIInv => AnswersAreRemembered
  BY DEF ConversationIInv, AnswersInv
<1>2. QED
  BY <1>1, ConversationHolds, PTL
================================================================================
