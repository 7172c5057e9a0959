------------------------------ MODULE ConnectionProofs ------------------------------
(* Proofs about what the server tells its clients while they are           *)
(* connected.  The event stream of a chat keeps the promise of LossyStream *)
(* for any capacities of the two channels, and what the handler leaves     *)
(* behind fits into the channel to it.  The lists of the device hub follow *)
(* the goroutines, for any devices and connections.                        *)
EXTENDS ChatStream, DeviceHub, SequenceTheorems, TLAPS

--------------------------------------------------------------------------------
(* The event stream of a chat *)

(* The forwarder has an event in its hands only while it sends, and is     *)
(* done only when no more can come.                                        *)
HandsAgree ==
  /\ forwarder.at # "send" => forwarder.hand = <<>>
  /\ forwarder.at = "done" => eventCh = <<>> /\ ~running

(* How much the engine may have published.                                 *)
PublishedFits ==
  \/ CompletedEvents = {} /\ Len(published) <= MaxProgress
  \/ \E first \in CompletedEvents :
       /\ \A j \in CompletedEvents : first <= j
       /\ first <= MaxProgress + 1 /\ Len(published) <= first + MaxTail

(* Events under way are in order and were published: so many come after    *)
(* one of them, at least, as are behind it.                                *)
InFlightIsOrdered ==
  /\ \A i, j \in 1 .. Len(InFlight) : i < j => InFlight[i] < InFlight[j]
  /\ \A i \in 1 .. Len(InFlight) : InFlight[i] + (Len(InFlight) - i) <= Len(published)

(* The reader is done at the end of the stream or at a Completed event.    *)
LeftIsLater ==
  reader = "done" =>
    \/ InFlight = <<>> /\ ~running
    \/ \E n \in CompletedEvents : \A i \in 1 .. Len(InFlight) : n < InFlight[i]

StreamInv ==
  StreamTypeOK /\ HandsAgree /\ PublishedFits /\ InFlightIsOrdered /\ LeftIsLater

--------------------------------------------------------------------------------
(* Sequences *)

LEMMA ConcatAppend ==
  ASSUME NEW S, NEW s \in Seq(S), NEW t \in Seq(S), NEW e \in S
  PROVE  s \o Append(t, e) = Append(s \o t, e)
<1>1. <<e>> \in Seq(S) /\ s \o t \in Seq(S)
  BY ConcatProperties
<1>2. s \o (t \o <<e>>) = (s \o t) \o <<e>>
  BY <1>1, ConcatAssociative
<1>3. QED
  BY <1>1, <1>2, AppendIsConcat

LEMMA ConcatTail ==
  ASSUME NEW S, NEW s \in Seq(S), NEW t \in Seq(S), s # <<>>
  PROVE  s \o t # <<>> /\ Head(s \o t) = Head(s) /\ Tail(s \o t) = Tail(s) \o t
<1>1. /\ s \o t \in Seq(S) /\ Len(s \o t) = Len(s) + Len(t)
      /\ \A i \in 1 .. Len(s) + Len(t) :
           (s \o t)[i] = IF i <= Len(s) THEN s[i] ELSE t[i - Len(s)]
  BY ConcatProperties
<1>2. Len(s) \in Nat \ {0} /\ Len(t) \in Nat
  BY EmptySeq, LenProperties
<1>3. s \o t # <<>>
  BY <1>1, <1>2, EmptySeq
<1>4. Head(s \o t) = Head(s)
  BY <1>1, <1>2
<1>5. /\ Tail(s) \in Seq(S) /\ Len(Tail(s)) = Len(s) - 1
      /\ \A i \in 1 .. Len(s) - 1 : Tail(s)[i] = s[i + 1]
  BY HeadTailProperties
<1>6. /\ Tail(s \o t) \in Seq(S) /\ Len(Tail(s \o t)) = Len(s) + Len(t) - 1
      /\ \A i \in 1 .. Len(s) + Len(t) - 1 : Tail(s \o t)[i] = (s \o t)[i + 1]
  BY <1>1, <1>3, HeadTailProperties
<1>7. /\ Tail(s) \o t \in Seq(S) /\ Len(Tail(s) \o t) = Len(s) - 1 + Len(t)
      /\ \A i \in 1 .. Len(s) - 1 + Len(t) :
           (Tail(s) \o t)[i] = IF i <= Len(s) - 1 THEN Tail(s)[i] ELSE t[i - (Len(s) - 1)]
  BY <1>5, ConcatProperties
<1>8. ASSUME NEW i \in 1 .. Len(s) + Len(t) - 1
      PROVE  Tail(s \o t)[i] = (Tail(s) \o t)[i]
  <2>1. i + 1 \in 1 .. Len(s) + Len(t) /\ i \in 1 .. Len(s) - 1 + Len(t)
    BY <1>2
  <2>2. CASE i <= Len(s) - 1
    <3>1. i + 1 <= Len(s) /\ i \in 1 .. Len(s) - 1
      BY <1>2, <2>2
    <3>2. Tail(s \o t)[i] = s[i + 1]
      BY <1>1, <1>6, <2>1, <3>1
    <3>3. QED
      BY <1>5, <1>7, <2>1, <2>2, <3>1, <3>2
  <2>3. CASE ~(i <= Len(s) - 1)
    <3>1. ~(i + 1 <= Len(s)) /\ i + 1 - Len(s) = i - (Len(s) - 1)
      BY <1>2, <2>3
    <3>2. Tail(s \o t)[i] = t[i + 1 - Len(s)]
      BY <1>1, <1>6, <2>1, <3>1
    <3>3. QED
      BY <1>7, <2>1, <2>3, <3>1, <3>2
  <2>4. QED
    BY <2>2, <2>3
<1>9. Tail(s \o t) = Tail(s) \o t
  <2>1. Len(Tail(s \o t)) = Len(Tail(s) \o t)
    BY <1>2, <1>6, <1>7
  <2>2. QED
    BY <1>6, <1>7, <1>8, <2>1, SeqEqual
<1>10. QED
  BY <1>3, <1>4, <1>9

LEMMA HeadConcatTail ==
  ASSUME NEW S, NEW s \in Seq(S), s # <<>>
  PROVE  <<Head(s)>> \o Tail(s) = s
<1>1. /\ Head(s) \in S /\ Tail(s) \in Seq(S) /\ Len(Tail(s)) = Len(s) - 1
      /\ \A i \in 1 .. Len(Tail(s)) : Tail(s)[i] = s[i + 1]
      /\ Len(s) \in Nat \ {0} /\ Head(s) = s[1]
  BY HeadTailProperties, EmptySeq
<1>2. <<Head(s)>> \in Seq(S) /\ Len(<<Head(s)>>) = 1 /\ <<Head(s)>>[1] = Head(s)
  BY <1>1
<1>3. /\ <<Head(s)>> \o Tail(s) \in Seq(S) /\ Len(<<Head(s)>> \o Tail(s)) = 1 + Len(Tail(s))
      /\ \A i \in 1 .. 1 + Len(Tail(s)) :
           (<<Head(s)>> \o Tail(s))[i] = IF i <= 1 THEN <<Head(s)>>[i] ELSE Tail(s)[i - 1]
  BY <1>1, <1>2, ConcatProperties
<1>4. ASSUME NEW i \in 1 .. Len(s) PROVE (<<Head(s)>> \o Tail(s))[i] = s[i]
  <2>1. CASE i = 1
    BY <1>1, <1>2, <1>3, <2>1
  <2>2. CASE i # 1
    <3>1. i - 1 \in 1 .. Len(Tail(s)) /\ (i - 1) + 1 = i /\ i \in 1 .. 1 + Len(Tail(s)) /\ ~(i <= 1)
      BY <1>1, <2>2
    <3>2. QED
      BY <1>1, <1>3, <3>1
  <2>3. QED
    BY <2>1, <2>2
<1>5. QED
  BY <1>1, <1>3, <1>4, SeqEqual

--------------------------------------------------------------------------------
(* What a step does to the events under way *)

LEMMA InFlightTyped ==
  ASSUME StreamTypeOK
  PROVE  /\ out \in Seq(Numbers) /\ forwarder.hand \in Seq(Numbers) /\ eventCh \in Seq(Numbers)
         /\ out \o forwarder.hand \in Seq(Numbers) /\ InFlight \in Seq(Numbers)
         /\ Len(InFlight) \in Nat /\ Len(InFlight) >= Len(eventCh)
         /\ Numbers \subseteq Nat /\ Len(published) \in Nat
<1>1. /\ out \in Seq(Numbers) /\ eventCh \in Seq(Numbers) /\ forwarder.hand \in Hand
      /\ Len(published) \in Nat
  BY LenProperties DEF StreamTypeOK
<1>2. forwarder.hand \in Seq(Numbers)
  <2>1. <<>> \in Seq(Numbers) /\ \A n \in Numbers : <<n>> \in Seq(Numbers)
    OBVIOUS
  <2>2. QED
    BY <1>1, <2>1 DEF Hand
<1>3. /\ out \o forwarder.hand \in Seq(Numbers) /\ InFlight \in Seq(Numbers)
      /\ Len(InFlight) = Len(out \o forwarder.hand) + Len(eventCh)
  BY <1>1, <1>2, ConcatProperties DEF InFlight
<1>4. Len(InFlight) \in Nat /\ Len(out \o forwarder.hand) \in Nat /\ Len(eventCh) \in Nat
  BY <1>1, <1>3, LenProperties
<1>5. QED
  BY <1>1, <1>2, <1>3, <1>4, StreamAssumption DEF Numbers

LEMMA PublishInFlight ==
  ASSUME StreamTypeOK, NEW completed \in BOOLEAN, Publish(completed),
         Len(published) + 1 \in Numbers
  PROVE  \/ /\ Len(eventCh) < EventCap /\ InFlight' = Append(InFlight, Len(published) + 1)
         \/ /\ Len(eventCh) >= EventCap /\ InFlight' = InFlight
            /\ Len(InFlight) >= EventCap
<1>1. CASE Len(eventCh) < EventCap
  <2>1. /\ eventCh' = Append(eventCh, Len(published) + 1)
        /\ out' = out /\ forwarder' = forwarder
    BY <1>1 DEF Publish
  <2>2. (out \o forwarder.hand) \o Append(eventCh, Len(published) + 1)
          = Append((out \o forwarder.hand) \o eventCh, Len(published) + 1)
    <3> DEFINE taken == out \o forwarder.hand
               number == Len(published) + 1
    <3>1. taken \in Seq(Numbers) /\ eventCh \in Seq(Numbers) /\ number \in Numbers
      BY InFlightTyped
    <3> HIDE DEF taken, number
    <3>2. taken \o Append(eventCh, number) = Append(taken \o eventCh, number)
      BY <3>1, ConcatAppend
    <3>3. QED
      BY <3>2 DEF taken, number
  <2>3. InFlight' = (out \o forwarder.hand) \o Append(eventCh, Len(published) + 1)
    BY <2>1, Zenon DEF InFlight
  <2>4. InFlight = (out \o forwarder.hand) \o eventCh
    BY Zenon DEF InFlight
  <2>5. QED
    BY <1>1, <2>2, <2>3, <2>4, Zenon
<1>2. CASE ~(Len(eventCh) < EventCap)
  <2>1. InFlight' = InFlight
    BY <1>2 DEF Publish, InFlight
  <2>2. Len(eventCh) \in Nat
    BY LenProperties DEF StreamTypeOK
  <2>3. QED
    BY <1>2, <2>1, <2>2, InFlightTyped, StreamAssumption
<1>3. QED
  BY <1>1, <1>2

LEMMA ForwardInFlight ==
  ASSUME StreamTypeOK, HandsAgree, Receive \/ Send \/ ForwarderReturns
  PROVE  InFlight' = InFlight
<1>1. CASE Receive
  <2>1. /\ forwarder.hand = <<>> /\ forwarder'.hand = <<Head(eventCh)>>
        /\ eventCh # <<>> /\ eventCh' = Tail(eventCh) /\ out' = out
    BY <1>1 DEF Receive, HandsAgree
  <2>2. <<Head(eventCh)>> \in Seq(Numbers) /\ Tail(eventCh) \in Seq(Numbers)
    BY <2>1, InFlightTyped, HeadTailProperties
  <2>3. (out \o <<Head(eventCh)>>) \o Tail(eventCh) = out \o eventCh
    <3> DEFINE head == <<Head(eventCh)>>
    <3> HIDE DEF head
    <3>1. (out \o head) \o Tail(eventCh) = out \o (head \o Tail(eventCh))
      <4>1. out \in Seq(Numbers) /\ head \in Seq(Numbers) /\ Tail(eventCh) \in Seq(Numbers)
        BY <2>2, InFlightTyped DEF head
      <4>2. QED
        BY <4>1, ConcatAssociative
    <3>2. head \o Tail(eventCh) = eventCh
      BY <2>1, InFlightTyped, HeadConcatTail DEF head
    <3>3. QED
      BY <3>1, <3>2 DEF head
  <2>4. out \o <<>> = out
    BY InFlightTyped, ConcatEmptySeq
  <2>5. QED
    BY <2>1, <2>3, <2>4 DEF InFlight
<1>2. CASE Send
  <2>1. out' = out \o forwarder.hand /\ forwarder'.hand = <<>> /\ eventCh' = eventCh
    BY <1>2 DEF Send
  <2>2. (out \o forwarder.hand) \o <<>> = out \o forwarder.hand
    BY InFlightTyped, ConcatEmptySeq
  <2>3. QED
    BY <2>1, <2>2 DEF InFlight
<1>3. CASE ForwarderReturns
  BY <1>3 DEF ForwarderReturns, InFlight, StreamTypeOK
<1>4. QED
  BY <1>1, <1>2, <1>3

LEMMA ReadInFlight ==
  ASSUME StreamTypeOK, Read
  PROVE  /\ InFlight # <<>> /\ Head(InFlight) = Head(out) /\ Head(out) \in Numbers
         /\ InFlight' = Tail(InFlight)
<1>1. /\ out # <<>> /\ out' = Tail(out) /\ forwarder' = forwarder /\ eventCh' = eventCh
  BY DEF Read
<1>2. /\ out \o forwarder.hand # <<>> /\ Head(out \o forwarder.hand) = Head(out)
      /\ Tail(out \o forwarder.hand) = Tail(out) \o forwarder.hand
  BY <1>1, InFlightTyped, ConcatTail
<1>3. /\ InFlight # <<>> /\ Head(InFlight) = Head(out \o forwarder.hand)
      /\ Tail(InFlight) = Tail(out \o forwarder.hand) \o eventCh
  BY <1>2, InFlightTyped, ConcatTail DEF InFlight
<1>4. Head(out) \in Numbers
  BY <1>1, InFlightTyped, HeadTailProperties
<1>5. QED
  BY <1>1, <1>2, <1>3, <1>4 DEF InFlight

--------------------------------------------------------------------------------
(* The inductive invariant *)

LEMMA StreamInitially == StreamInit => StreamInv
<1> SUFFICES ASSUME StreamInit PROVE StreamInv
  OBVIOUS
<1>1. /\ published = <<>> /\ Len(published) = 0 /\ eventCh = <<>> /\ out = <<>> /\ seen = <<>>
      /\ forwarder = [at |-> "receive", hand |-> <<>>] /\ running = TRUE
      /\ reader \in {"http", "desktop"}
  BY EmptySeq DEF StreamInit
<1>2. InFlight = <<>>
  BY <1>1, ConcatEmptySeq, EmptySeq DEF InFlight
<1>3. StreamTypeOK
  BY <1>1, EmptySeq, StreamAssumption DEF StreamTypeOK, Hand
<1>4. PublishedFits
  BY <1>1, StreamAssumption DEF PublishedFits, CompletedEvents
<1>5. HandsAgree /\ InFlightIsOrdered /\ LeftIsLater
  BY <1>1, <1>2 DEF HandsAgree, InFlightIsOrdered, LeftIsLater
<1>6. QED
  BY <1>3, <1>4, <1>5 DEF StreamInv

(* The engine numbers its events on and keeps to what it may publish.      *)
LEMMA PublishFits ==
  ASSUME StreamInv, NEW completed \in BOOLEAN, Publish(completed)
  PROVE  /\ PublishedFits' /\ Len(published)' = Len(published) + 1
         /\ Len(published) + 1 \in Numbers
         /\ published' \in Seq(BOOLEAN) /\ CompletedEvents \subseteq CompletedEvents'
<1>1. /\ published \in Seq(BOOLEAN) /\ published' = Append(published, completed)
      /\ MayPublish(completed) /\ PublishedFits
  BY DEF StreamInv, StreamTypeOK, Publish
<1>2. /\ published' \in Seq(BOOLEAN) /\ Len(published') = Len(published) + 1
      /\ \A i \in 1 .. Len(published) : published'[i] = published[i]
      /\ published'[Len(published) + 1] = completed
      /\ DOMAIN published = 1 .. Len(published) /\ DOMAIN published' = 1 .. Len(published) + 1
      /\ Len(published) \in Nat
  BY <1>1, AppendProperties, LenProperties
<1>3. CompletedEvents \subseteq 1 .. Len(published)
  BY <1>2 DEF CompletedEvents
<1>4. CompletedEvents' = IF completed THEN CompletedEvents \cup {Len(published) + 1}
                         ELSE CompletedEvents
  BY <1>2 DEF CompletedEvents
<1>5. CASE CompletedEvents = {}
  <2>1. Len(published) <= MaxProgress /\ (completed \/ Len(published) < MaxProgress)
    BY <1>1, <1>5 DEF PublishedFits, MayPublish
  <2>2. CASE completed
    <3>1. CompletedEvents' = {Len(published) + 1}
      BY <1>4, <1>5, <2>2
    <3>2. PublishedFits'
      BY <1>2, <2>1, <3>1, StreamAssumption DEF PublishedFits
    <3>3. Len(published) + 1 \in Numbers
      BY <1>2, <2>1, StreamAssumption DEF Numbers
    <3>4. QED
      BY <1>2, <1>5, <3>2, <3>3
  <2>3. CASE ~completed
    <3>1. CompletedEvents' = {}
      BY <1>4, <1>5, <2>3
    <3>2. PublishedFits'
      BY <1>2, <2>1, <2>3, <3>1, StreamAssumption DEF PublishedFits
    <3>3. Len(published) + 1 \in Numbers
      BY <1>2, <2>1, StreamAssumption DEF Numbers
    <3>4. QED
      BY <1>2, <1>5, <3>2, <3>3
  <2>4. QED
    BY <2>2, <2>3
<1>6. CASE CompletedEvents # {}
  <2>1. PICK first \in CompletedEvents :
          /\ \A j \in CompletedEvents : first <= j
          /\ first <= MaxProgress + 1
    BY <1>1, <1>6 DEF PublishedFits
  <2>2. PICK i \in CompletedEvents :
          (\A j \in CompletedEvents : i <= j) /\ Len(published) < i + MaxTail
    BY <1>1, <1>6 DEF MayPublish
  <2>3. i = first /\ first \in 1 .. Len(published)
    BY <1>3, <2>1, <2>2
  <2>4. first \in CompletedEvents' /\ \A j \in CompletedEvents' : first <= j
    BY <1>2, <1>4, <2>1, <2>3
  <2>5. PublishedFits'
    BY <1>2, <2>1, <2>2, <2>3, <2>4, StreamAssumption DEF PublishedFits
  <2>6. Len(published) + 1 \in Numbers
    BY <1>2, <2>1, <2>2, <2>3, StreamAssumption DEF Numbers
  <2>7. QED
    BY <1>2, <1>4, <2>5, <2>6
<1>7. QED
  BY <1>5, <1>6

LEMMA PublishKeeps ==
  ASSUME StreamInv, NEW completed \in BOOLEAN, Publish(completed)
  PROVE  StreamInv'
<1>1. /\ StreamTypeOK /\ HandsAgree /\ InFlightIsOrdered /\ LeftIsLater
      /\ running /\ UNCHANGED <<running, forwarder, out, reader, seen>>
  BY DEF StreamInv, Publish
<1>2. /\ PublishedFits' /\ Len(published)' = Len(published) + 1 /\ Len(published) + 1 \in Numbers
      /\ published' \in Seq(BOOLEAN) /\ CompletedEvents \subseteq CompletedEvents'
  BY PublishFits
<1>3. InFlight \in Seq(Numbers) /\ Len(InFlight) \in Nat /\ Len(published) \in Nat
      /\ Numbers \subseteq Nat
  BY <1>1, InFlightTyped
<1>4. InFlight' = InFlight \/ InFlight' = Append(InFlight, Len(published) + 1)
  BY <1>1, <1>2, PublishInFlight
<1>5. ASSUME NEW i \in 1 .. Len(InFlight)
      PROVE  InFlight[i] \in Nat /\ InFlight[i] <= Len(published)
  <2>1. InFlight[i] \in Nat
    BY <1>3, ElementOfSeq
  <2>2. InFlight[i] + (Len(InFlight) - i) <= Len(published)
    BY <1>1 DEF InFlightIsOrdered
  <2>3. QED
    BY <1>3, <2>1, <2>2
<1>6. StreamTypeOK'
  <2>1. Len(published') <= MaxProgress + 1 + MaxTail
    BY <1>2, StreamAssumption DEF Numbers
  <2>2. eventCh \in Seq(Numbers) /\ Len(eventCh) \in Nat /\ Len(eventCh) <= EventCap
    BY <1>1, LenProperties DEF StreamTypeOK
  <2>3. eventCh' \in Seq(Numbers) /\ Len(eventCh') <= EventCap
    <3>1. CASE Len(eventCh) < EventCap
      <4>1. eventCh' = Append(eventCh, Len(published) + 1)
        BY <3>1 DEF Publish
      <4>2. eventCh' \in Seq(Numbers) /\ Len(eventCh') = Len(eventCh) + 1
        BY <1>2, <2>2, <4>1, AppendProperties
      <4>3. QED
        BY <2>2, <3>1, <4>2, StreamAssumption
    <3>2. CASE ~(Len(eventCh) < EventCap)
      BY <2>2, <3>2 DEF Publish
    <3>3. QED
      BY <3>1, <3>2
  <2>4. QED
    BY <1>1, <1>2, <2>1, <2>3 DEF StreamTypeOK
<1>7. HandsAgree'
  BY <1>1 DEF HandsAgree
<1>8. CASE InFlight' = InFlight
  <2>1. InFlightIsOrdered'
    BY <1>1, <1>2, <1>3, <1>5, <1>8 DEF InFlightIsOrdered
  <2>2. LeftIsLater'
    BY <1>1, <1>2, <1>8 DEF LeftIsLater
  <2>3. QED
    BY <1>2, <1>6, <1>7, <2>1, <2>2 DEF StreamInv
<1>9. CASE InFlight' = Append(InFlight, Len(published) + 1)
  <2>1. /\ Len(InFlight') = Len(InFlight) + 1
        /\ \A i \in 1 .. Len(InFlight) : InFlight'[i] = InFlight[i]
        /\ InFlight'[Len(InFlight) + 1] = Len(published) + 1
    BY <1>2, <1>3, <1>9, AppendProperties
  <2>2. InFlightIsOrdered'
    <3>1. ASSUME NEW i \in 1 .. Len(InFlight) + 1
          PROVE  InFlight'[i] + (Len(InFlight) + 1 - i) <= Len(published) + 1
      <4>1. CASE i = Len(InFlight) + 1
        BY <1>3, <2>1, <4>1
      <4>2. CASE i # Len(InFlight) + 1
        <5>1. i \in 1 .. Len(InFlight) /\ InFlight'[i] = InFlight[i] /\ InFlight[i] \in Nat
              /\ InFlight[i] + (Len(InFlight) - i) <= Len(published)
          BY <1>1, <1>3, <1>5, <2>1, <4>2 DEF InFlightIsOrdered
        <5>2. QED
          BY <1>3, <5>1
      <4>3. QED
        BY <4>1, <4>2
    <3>2. ASSUME NEW i \in 1 .. Len(InFlight) + 1, NEW j \in 1 .. Len(InFlight) + 1, i < j
          PROVE  InFlight'[i] < InFlight'[j]
      <4>1. i \in 1 .. Len(InFlight) /\ InFlight'[i] = InFlight[i]
            /\ InFlight[i] \in Nat /\ InFlight[i] <= Len(published)
        BY <1>3, <1>5, <2>1, <3>2
      <4>2. CASE j = Len(InFlight) + 1
        BY <1>3, <2>1, <4>1, <4>2
      <4>3. CASE j # Len(InFlight) + 1
        <5>1. j \in 1 .. Len(InFlight) /\ InFlight'[j] = InFlight[j]
          BY <1>3, <2>1, <4>3
        <5>2. QED
          BY <1>1, <3>2, <4>1, <5>1 DEF InFlightIsOrdered
      <4>4. QED
        BY <4>2, <4>3
    <3>3. QED
      BY <1>2, <2>1, <3>1, <3>2 DEF InFlightIsOrdered
  <2>3. LeftIsLater'
    <3>1. SUFFICES ASSUME reader = "done" PROVE LeftIsLater'
      BY <1>1 DEF LeftIsLater
    <3>2. PICK n \in CompletedEvents : \A i \in 1 .. Len(InFlight) : n < InFlight[i]
      BY <1>1, <3>1 DEF LeftIsLater
    <3>3. n \in Nat /\ n <= Len(published)
      BY <1>1, LenProperties DEF CompletedEvents, StreamTypeOK
    <3>4. \A i \in 1 .. Len(InFlight) + 1 : n < InFlight'[i]
      BY <1>3, <2>1, <3>2, <3>3
    <3>5. QED
      BY <1>2, <2>1, <3>2, <3>4 DEF LeftIsLater
  <2>4. QED
    BY <1>2, <1>6, <1>7, <2>2, <2>3 DEF StreamInv
<1>10. QED
  BY <1>4, <1>8, <1>9

LEMMA ReturnsKeep ==
  ASSUME StreamInv, EngineReturns \/ ReaderReturns
  PROVE  StreamInv' /\ InFlight' = InFlight
<1>1. /\ UNCHANGED <<published, eventCh, forwarder, out, seen>>
      /\ running' \in BOOLEAN /\ (~running => ~running')
      /\ \/ reader' = reader
         \/ reader' = "done" /\ out = <<>> /\ forwarder.at = "done" /\ running' = running
  <2>1. CASE EngineReturns
    BY <2>1 DEF EngineReturns
  <2>2. CASE ReaderReturns
    <3>1. running' = running /\ running \in BOOLEAN
      BY <2>2 DEF ReaderReturns, StreamInv, StreamTypeOK
    <3>2. QED
      BY <2>2, <3>1 DEF ReaderReturns
  <2>3. QED
    BY <2>1, <2>2
<1>2. InFlight' = InFlight
  BY <1>1 DEF InFlight
<1>3. PublishedFits' /\ CompletedEvents' = CompletedEvents
  BY <1>1 DEF StreamInv, PublishedFits, CompletedEvents
<1>4. StreamTypeOK' /\ HandsAgree'
  BY <1>1 DEF StreamInv, StreamTypeOK, HandsAgree
<1>5. InFlightIsOrdered'
  BY <1>1, <1>2 DEF StreamInv, InFlightIsOrdered
<1>6. LeftIsLater'
  <2>1. CASE reader' = reader
    BY <1>1, <1>2, <1>3, <2>1 DEF StreamInv, LeftIsLater
  <2>2. CASE reader' # reader
    <3>1. out = <<>> /\ forwarder.hand = <<>> /\ eventCh = <<>> /\ ~running'
      BY <1>1, <2>2 DEF StreamInv, HandsAgree
    <3>2. InFlight = <<>>
      BY <3>1, EmptySeq, ConcatEmptySeq DEF InFlight
    <3>3. QED
      BY <1>2, <3>1, <3>2 DEF LeftIsLater
  <2>3. QED
    BY <2>1, <2>2
<1>7. QED
  BY <1>2, <1>3, <1>4, <1>5, <1>6 DEF StreamInv

LEMMA ForwardKeeps ==
  ASSUME StreamInv, Receive \/ Send \/ ForwarderReturns
  PROVE  StreamInv'
<1>1. /\ StreamTypeOK /\ HandsAgree /\ UNCHANGED <<published, running, reader, seen>>
  BY DEF StreamInv, Receive, Send, ForwarderReturns
<1>2. InFlight' = InFlight
  BY <1>1, ForwardInFlight
<1>3. /\ PublishedFits' /\ InFlightIsOrdered' /\ LeftIsLater'
  BY <1>1, <1>2 DEF StreamInv, PublishedFits, InFlightIsOrdered, LeftIsLater, CompletedEvents
<1>4. HandsAgree' /\ StreamTypeOK'
  <2>1. CASE Receive
    <3>1. /\ eventCh # <<>> /\ eventCh' = Tail(eventCh) /\ out' = out
          /\ forwarder' = [at |-> "send", hand |-> <<Head(eventCh)>>]
      BY <2>1 DEF Receive
    <3>2. eventCh \in Seq(Numbers) /\ Len(eventCh) \in Nat /\ Len(eventCh) <= EventCap
      BY <1>1, LenProperties DEF StreamTypeOK
    <3>3. /\ Head(eventCh) \in Numbers /\ eventCh' \in Seq(Numbers)
          /\ Len(eventCh') = Len(eventCh) - 1
      BY <3>1, <3>2, HeadTailProperties
    <3>4. Len(eventCh') <= EventCap
      BY <3>2, <3>3, StreamAssumption
    <3>5. forwarder' \in [at : {"receive", "send", "done"}, hand : Hand]
      BY <3>1, <3>3 DEF Hand
    <3>6. QED
      BY <1>1, <3>1, <3>3, <3>4, <3>5 DEF StreamTypeOK, HandsAgree
  <2>2. CASE Send
    <3>1. /\ Len(out) < OutCap /\ out' = out \o forwarder.hand /\ eventCh' = eventCh
          /\ forwarder' = [at |-> "receive", hand |-> <<>>]
      BY <2>2 DEF Send
    <3>2. out \in Seq(Numbers) /\ forwarder.hand \in Seq(Numbers) /\ forwarder.hand \in Hand
      BY <1>1, InFlightTyped DEF StreamTypeOK
    <3>3. /\ out' \in Seq(Numbers) /\ Len(out') = Len(out) + Len(forwarder.hand)
          /\ Len(out) \in Nat /\ Len(forwarder.hand) \in Nat
      BY <3>1, <3>2, ConcatProperties, LenProperties
    <3>4. Len(forwarder.hand) <= 1
      <4>1. CASE forwarder.hand = <<>>
        BY <4>1
      <4>2. CASE \E n \in Numbers : forwarder.hand = <<n>>
        <5>1. PICK n \in Numbers : forwarder.hand = <<n>>
          BY <4>2
        <5>2. QED
          BY <5>1
      <4>3. QED
        BY <3>2, <4>1, <4>2 DEF Hand
    <3>5. Len(out') <= OutCap
      BY <3>1, <3>3, <3>4, StreamAssumption
    <3>6. QED
      BY <1>1, <3>1, <3>3, <3>5 DEF StreamTypeOK, HandsAgree, Hand
  <2>3. CASE ForwarderReturns
    BY <1>1, <2>3 DEF ForwarderReturns, StreamTypeOK, HandsAgree
  <2>4. QED
    BY <2>1, <2>2, <2>3
<1>5. QED
  BY <1>3, <1>4 DEF StreamInv

LEMMA ReadKeeps ==
  ASSUME StreamInv, Read
  PROVE  StreamInv'
<1>1. /\ StreamTypeOK /\ HandsAgree /\ InFlightIsOrdered /\ LeftIsLater
      /\ reader # "done" /\ out # <<>> /\ seen' = Append(seen, Head(out)) /\ out' = Tail(out)
      /\ reader' = (IF StopsAt(Head(out)) THEN "done" ELSE reader)
      /\ UNCHANGED <<published, running, eventCh, forwarder>>
  BY DEF StreamInv, Read
<1>2. /\ InFlight # <<>> /\ Head(InFlight) = Head(out) /\ Head(out) \in Numbers
      /\ InFlight' = Tail(InFlight)
  BY <1>1, ReadInFlight
<1>3. /\ InFlight \in Seq(Numbers) /\ Len(InFlight) \in Nat /\ Len(published) \in Nat
      /\ Numbers \subseteq Nat
  BY <1>1, InFlightTyped
<1>4. /\ Len(InFlight') = Len(InFlight) - 1 /\ Len(InFlight) >= 1
      /\ \A i \in 1 .. Len(InFlight) - 1 : InFlight'[i] = InFlight[i + 1]
      /\ Head(InFlight) = InFlight[1]
  BY <1>2, <1>3, HeadTailProperties, EmptySeq
<1>5. PublishedFits' /\ CompletedEvents' = CompletedEvents
  BY <1>1 DEF StreamInv, PublishedFits, CompletedEvents
<1>6. HandsAgree'
  BY <1>1 DEF HandsAgree
<1>7. StreamTypeOK'
  <2>1. out \in Seq(Numbers) /\ Len(out) <= OutCap /\ seen \in Seq(Numbers)
    BY <1>1 DEF StreamTypeOK
  <2>2. out' \in Seq(Numbers) /\ Len(out') = Len(out) - 1 /\ Len(out) \in Nat
    BY <1>1, <2>1, HeadTailProperties, LenProperties
  <2>3. seen' \in Seq(Numbers)
    BY <1>1, <1>2, <2>1, AppendProperties
  <2>4. Len(out') <= OutCap
    BY <2>1, <2>2, StreamAssumption
  <2>5. reader' \in {"http", "desktop", "done"}
    BY <1>1 DEF StreamTypeOK
  <2>6. QED
    BY <1>1, <2>2, <2>3, <2>4, <2>5 DEF StreamTypeOK
<1>8. InFlightIsOrdered'
  <2>1. \A i \in 1 .. Len(InFlight) : InFlight[i] \in Nat
    BY <1>3, ElementOfSeq
  <2>2. ASSUME NEW i \in 1 .. Len(InFlight) - 1
        PROVE  InFlight'[i] + (Len(InFlight) - 1 - i) <= Len(published)
    <3>1. /\ i + 1 \in 1 .. Len(InFlight) /\ InFlight'[i] = InFlight[i + 1]
          /\ InFlight[i + 1] + (Len(InFlight) - (i + 1)) <= Len(published)
      BY <1>1, <1>3, <1>4 DEF InFlightIsOrdered
    <3>2. QED
      BY <1>3, <2>1, <3>1
  <2>3. ASSUME NEW i \in 1 .. Len(InFlight) - 1, NEW j \in 1 .. Len(InFlight) - 1, i < j
        PROVE  InFlight'[i] < InFlight'[j]
    <3>1. i + 1 \in 1 .. Len(InFlight) /\ j + 1 \in 1 .. Len(InFlight) /\ i + 1 < j + 1
      BY <1>3, <2>3
    <3>2. QED
      BY <1>1, <1>4, <3>1 DEF InFlightIsOrdered
  <2>4. QED
    BY <1>1, <1>4, <2>2, <2>3 DEF InFlightIsOrdered
<1>9. LeftIsLater'
  <2>1. SUFFICES ASSUME reader' = "done" PROVE LeftIsLater'
    BY DEF LeftIsLater
  <2>2. published[Head(out)]
    <3>1. StopsAt(Head(out))
      BY <1>1, <2>1
    <3>2. QED
      BY <3>1, Zenon DEF StopsAt
  <2>3. 1 \in 1 .. Len(InFlight) /\ InFlight[1] = Head(out) /\ Head(out) \in Nat
    <3>1. 1 \in 1 .. Len(InFlight)
      BY <1>3, <1>4
    <3>2. InFlight[1] = Head(out)
      BY <1>2, <1>4, Zenon
    <3>3. Head(out) \in Nat
      BY <1>2, <1>3, Zenon
    <3>4. QED
      BY <3>1, <3>2, <3>3
  <2>4. Head(out) <= Len(published)
    <3>1. InFlight[1] + (Len(InFlight) - 1) <= Len(published)
      BY <1>1, <2>3 DEF InFlightIsOrdered
    <3>2. QED
      BY <1>3, <1>4, <2>3, <3>1
  <2>5. Head(out) \in CompletedEvents
    <3>1. Head(out) \in DOMAIN published
      BY <1>1, <1>2, <2>4, LenProperties DEF StreamTypeOK, Numbers
    <3>2. QED
      BY <2>2, <3>1 DEF CompletedEvents
  <2>6. ASSUME NEW i \in 1 .. Len(InFlight) - 1 PROVE Head(out) < InFlight'[i]
    <3>1. i + 1 \in 1 .. Len(InFlight) /\ 1 < i + 1
      BY <1>3
    <3>2. QED
      BY <1>1, <1>4, <2>3, <3>1 DEF InFlightIsOrdered
  <2>7. QED
    BY <1>4, <1>5, <2>5, <2>6 DEF LeftIsLater
<1>10. QED
  BY <1>5, <1>6, <1>7, <1>8, <1>9 DEF StreamInv

(* The channels keep their capacities, the events their order and the      *)
(* engine its tail, at every interleaving of the three goroutines.         *)
THEOREM StreamInvariant == StreamSpec => []StreamInv
<1>1. ASSUME StreamInv, [StreamNext]_streamVars PROVE StreamInv'
  <2>1. CASE StreamNext
    BY <1>1, <2>1, PublishKeeps, ReturnsKeep, ForwardKeeps, ReadKeeps
       DEF StreamNext, EngineStep, ForwarderStep, ReaderStep
  <2>2. CASE UNCHANGED streamVars
    BY <1>1, <2>2
       DEF streamVars, StreamInv, StreamTypeOK, HandsAgree, PublishedFits, InFlightIsOrdered,
           LeftIsLater, CompletedEvents, InFlight
  <2>3. QED
    BY <1>1, <2>1, <2>2
<1>2. QED
  BY <1>1, StreamInitially, PTL DEF StreamSpec

(* What the handler of a stream leaves behind, when it stops at an event   *)
(* that is Completed, always fits into the channel to it: a forwarder does *)
(* not wait for a reader that is gone (trigger/http/server.go, 253).       *)
THEOREM LeftoversAlwaysFit == StreamSpec => []LeftoversFit
<1>1. StreamInv => LeftoversFit
  <2> SUFFICES ASSUME StreamInv, reader = "done" PROVE Len(InFlight) <= OutCap
    BY DEF StreamInv, LeftoversFit
  <2>1. /\ InFlight \in Seq(Numbers) /\ Len(InFlight) \in Nat /\ Len(published) \in Nat
        /\ Numbers \subseteq Nat
    BY InFlightTyped DEF StreamInv
  <2>2. CASE Len(InFlight) = 0
    BY <2>2, StreamAssumption
  <2>3. CASE Len(InFlight) # 0
    <3>1. PICK n \in CompletedEvents : \A i \in 1 .. Len(InFlight) : n < InFlight[i]
      BY <2>3, EmptySeq DEF StreamInv, LeftIsLater
    <3>2. PICK first \in CompletedEvents :
            first <= n /\ Len(published) <= first + MaxTail
      BY DEF StreamInv, PublishedFits
    <3>3. n \in Nat /\ first \in Nat
      BY LenProperties DEF CompletedEvents, StreamInv, StreamTypeOK
    <3>4. /\ 1 \in 1 .. Len(InFlight) /\ InFlight[1] \in Nat /\ n < InFlight[1]
          /\ InFlight[1] + (Len(InFlight) - 1) <= Len(published)
      <4>1. 1 \in 1 .. Len(InFlight)
        BY <2>1, <2>3
      <4>2. InFlight[1] \in Nat
        BY <2>1, <4>1, ElementOfSeq
      <4>3. InFlight[1] + (Len(InFlight) - 1) <= Len(published)
        BY <4>1 DEF StreamInv, InFlightIsOrdered
      <4>4. QED
        BY <3>1, <4>1, <4>2, <4>3
    <3>5. QED
      BY <2>1, <3>2, <3>3, <3>4, StreamAssumption, TailFits
  <2>4. QED
    BY <2>2, <2>3
<1>2. QED
  BY <1>1, StreamInvariant, PTL

(* The two channels with their goroutines keep the promise of LossyStream: *)
(* events arrive in order and at most once, and one is lost only when the  *)
(* first channel is full (application/agent_app.go, ChatStream).           *)
THEOREM StreamImplementsLossy == StreamSpec => ImplementsLossyStream
<1>1. StreamInit => Lossy!LossyInit
  <2> SUFFICES ASSUME StreamInit PROVE Lossy!LossyInit
    OBVIOUS
  <2>1. InFlight = <<>>
    BY ConcatEmptySeq, EmptySeq DEF StreamInit, InFlight
  <2>2. QED
    BY <2>1, EmptySeq DEF StreamInit, Lossy!LossyInit
<1>2. ASSUME StreamInv, [StreamNext]_streamVars PROVE [Lossy!LossyNext]_Lossy!lossyVars
  <2>1. ASSUME NEW completed \in BOOLEAN, Publish(completed)
        PROVE  Lossy!Offer \/ Lossy!Lose
    <3>1. /\ Len(published)' = Len(published) + 1 /\ running /\ UNCHANGED <<seen, running>>
          /\ Len(published) + 1 \in Numbers /\ StreamTypeOK
      BY <1>2, <2>1, PublishFits DEF StreamInv, Publish
    <3>2. \/ InFlight' = Append(InFlight, Len(published) + 1)
          \/ InFlight' = InFlight /\ Len(InFlight) >= EventCap
      BY <2>1, <3>1, PublishInFlight
    <3>3. QED
      BY <3>1, <3>2 DEF Lossy!Offer, Lossy!Lose
  <2>2. CASE EngineReturns
    <3>1. InFlight' = InFlight
      BY <1>2, <2>2, ReturnsKeep
    <3>2. Lossy!End
      BY <2>2, <3>1 DEF EngineReturns, Lossy!End
    <3>3. QED
      BY <3>2 DEF Lossy!LossyNext
  <2>3. CASE ForwarderStep
    <3>1. InFlight' = InFlight
      BY <1>2, <2>3, ForwardInFlight DEF ForwarderStep, StreamInv
    <3>2. QED
      BY <2>3, <3>1 DEF ForwarderStep, Receive, Send, ForwarderReturns, Lossy!lossyVars
  <2>4. CASE Read
    <3>1. InFlight # <<>> /\ Head(InFlight) = Head(out) /\ InFlight' = Tail(InFlight)
      BY <1>2, <2>4, ReadInFlight DEF StreamInv
    <3>2. Lossy!See
      BY <2>4, <3>1 DEF Read, Lossy!See
    <3>3. QED
      BY <3>2 DEF Lossy!LossyNext
  <2>5. CASE ReaderReturns
    <3>1. InFlight' = InFlight
      BY <1>2, <2>5, ReturnsKeep
    <3>2. QED
      BY <2>5, <3>1 DEF ReaderReturns, Lossy!lossyVars
  <2>6. CASE UNCHANGED streamVars
    BY <2>6 DEF streamVars, InFlight, Lossy!lossyVars
  <2>7. QED
    BY <1>2, <2>1, <2>2, <2>3, <2>4, <2>5, <2>6
       DEF StreamNext, EngineStep, ReaderStep, Lossy!LossyNext
<1>3. QED
  BY <1>1, <1>2, StreamInvariant, PTL DEF StreamSpec, ImplementsLossyStream, Lossy!LossySpec

--------------------------------------------------------------------------------
(* The device hub *)

(* Only a broadcast, which holds the lock, has consoles left to write to.  *)
LeftAreHeld == \A c \in Conns : conn[c].left # {} => conn[c].holds

(* Connections of one device that were listed at the same time have met.   *)
SameIdHasMet ==
  \A a, b \in Conns :
    a # b /\ Registered(a) /\ Registered(b) /\ IsDevice(a) /\ conn[a].id = conn[b].id =>
      a \in crossed

(* The inductive invariant: what the lists promise, and what a connection  *)
(* that leaves must know of the others not to break it.                    *)
HubInv == ListedAreServed /\ ConnectedAreListed /\ LeftAreHeld /\ SameIdHasMet

USE DEF IsDevice, At

LEMMA HubInitially == HubInit => HubInv
BY HubAssumption
   DEF HubInit, HubInv, Idle, ListedAreServed, ConnectedAreListed, LeftAreHeld, SameIdHasMet,
       Registered, HubTypeOK, Goroutines, Places

(* A step of c gives it a new local state and leaves the others alone.     *)
LEMMA HubBecomes ==
  ASSUME conn \in [Conns -> Goroutines], NEW c \in Conns, NEW local \in Goroutines,
         Becomes(c, local)
  PROVE  /\ conn' \in [Conns -> Goroutines] /\ conn'[c] = local
         /\ \A o \in Conns : o # c => conn'[o] = conn[o]
BY DEF Becomes

LEMMA HubTyped ==
  ASSUME HubInv
  PROVE  /\ conn \in [Conns -> Goroutines] /\ clients \subseteq Conns
         /\ devices \in [Devices -> Conns \cup {None}]
         /\ \A c \in Conns : conn[c] \in Goroutines /\ conn[c].left \subseteq clients
                            /\ (conn[c].left # {} => conn[c].holds)
BY DEF HubInv, ListedAreServed, HubTypeOK, LeftAreHeld

(* A step that changes neither list and moves its goroutine neither into   *)
(* the lists nor out of them, nor its id, keeps the invariant.             *)
LEMMA HubMoves ==
  ASSUME HubInv, NEW c \in Conns, NEW local \in Goroutines, Becomes(c, local),
         UNCHANGED <<devices, clients, crossed>>,
         local.at \in {"none", "registering", "gone"} <=> ~Registered(c),
         Registered(c) => local.id = conn[c].id,
         local.left \subseteq clients, local.left # {} => local.holds
  PROVE  HubInv'
<1>1. /\ conn' \in [Conns -> Goroutines] /\ conn'[c] = local
      /\ \A o \in Conns : o # c => conn'[o] = conn[o]
  BY HubTyped, HubBecomes
<1>2. \A o \in Conns : /\ Registered(o)' <=> Registered(o)
                       /\ Registered(o) => conn'[o].id = conn[o].id
  BY <1>1 DEF Registered
<1>3. ListedAreServed'
  BY <1>1, <1>2 DEF HubInv, ListedAreServed, HubTypeOK
<1>4. ConnectedAreListed'
  BY <1>2 DEF HubInv, ConnectedAreListed, ListedAreServed, HubTypeOK
<1>5. LeftAreHeld'
  BY <1>1 DEF HubInv, LeftAreHeld
<1>6. SameIdHasMet'
  BY <1>2 DEF HubInv, SameIdHasMet
<1>7. QED
  BY <1>3, <1>4, <1>5, <1>6 DEF HubInv

(* Of a device that registers nobody else of its id stays uncrossed.       *)
LEMMA HubRegisters ==
  ASSUME HubInv, NEW c \in Conns, Register(c)
  PROVE  HubInv'
<1> USE DEF HubInv
<1>1. /\ conn \in [Conns -> Goroutines]
      /\ \A o \in Conns : conn[o].left = {}
  BY DEF Register, CanLock, LeftAreHeld, ListedAreServed, HubTypeOK
<1>2. CASE IsDevice(c)
  <2> DEFINE local == [conn[c] EXCEPT !.at = "greeting"]
  <2>1. /\ Becomes(c, local) /\ local \in Goroutines
        /\ devices' = [devices EXCEPT ![conn[c].id] = c]
        /\ clients' = clients
    BY <1>1, <1>2 DEF Register, Goroutines, Places
  <2>2. /\ conn' \in [Conns -> Goroutines]
        /\ \A o \in Conns : /\ conn'[o].id = conn[o].id /\ conn'[o].left = {}
                            /\ o # c => conn'[o] = conn[o]
        /\ Registered(c)' /\ ~Registered(c)
    BY <1>1, <2>1, HubBecomes DEF Register, Goroutines, Registered
  <2>3. conn[c].id \in Devices
    BY <1>1, <1>2 DEF Goroutines
  <2>4. \A o \in Conns : o # c => (Registered(o)' <=> Registered(o))
    BY <2>2 DEF Registered
  <2>5. crossed' \subseteq Conns /\ crossed \subseteq crossed'
    BY <1>2 DEF Register, ListedAreServed, HubTypeOK
  <2>6. \A o \in Conns : Registered(o) /\ conn[o].id = conn[c].id => {o, c} \subseteq crossed'
    BY <1>2 DEF Register
  <2>7. ListedAreServed'
    BY <2>1, <2>2, <2>3, <2>4, <2>5 DEF ListedAreServed, HubTypeOK
  <2>8. ConnectedAreListed'
    BY <1>2, <2>1, <2>2, <2>3, <2>4, <2>5, <2>6 DEF ConnectedAreListed, ListedAreServed, HubTypeOK
  <2>9. LeftAreHeld'
    BY <2>2 DEF LeftAreHeld
  <2>10. SameIdHasMet'
    BY <2>2, <2>4, <2>5, <2>6 DEF SameIdHasMet
  <2>11. QED
    BY <2>7, <2>8, <2>9, <2>10
<1>3. CASE ~IsDevice(c)
  <2> DEFINE local == [conn[c] EXCEPT !.at = "reading", !.greeted = TRUE]
  <2>1. /\ Becomes(c, local) /\ clients' = clients \cup {c}
        /\ devices' = devices /\ crossed' = crossed /\ ~Registered(c)
    BY <1>3 DEF Register, Registered
  <2> conn[c] \in Goroutines /\ conn[c].left = {}
    BY <1>1
  <2>9. /\ local \in Goroutines /\ local.at = "reading"
         /\ local.id = conn[c].id /\ local.left = {}
    BY DEF Goroutines, Places
  <2> HIDE DEF local
  <2>2. /\ conn' \in [Conns -> Goroutines]
        /\ \A o \in Conns : /\ conn'[o].id = conn[o].id /\ conn'[o].left = {}
                            /\ o # c => conn'[o] = conn[o]
        /\ Registered(c)' /\ ~Registered(c)
    BY <1>1, <2>1, <2>9, HubBecomes DEF Registered
  <2>3. \A o \in Conns : o # c => (Registered(o)' <=> Registered(o))
    BY <2>2 DEF Registered
  <2>4. ListedAreServed'
    BY <1>3, <2>1, <2>2, <2>3 DEF ListedAreServed, HubTypeOK
  <2>5. ConnectedAreListed'
    BY <1>3, <2>1, <2>2, <2>3 DEF ConnectedAreListed
  <2>6. LeftAreHeld'
    BY <2>2 DEF LeftAreHeld
  <2>7. SameIdHasMet'
    BY <1>3, <2>1, <2>2, <2>3 DEF SameIdHasMet
  <2>8. QED
    BY <2>4, <2>5, <2>6, <2>7
<1>4. QED
  BY <1>2, <1>3

(* Who leaves takes the entry of its id; whose else that was has met it.   *)
LEMMA HubLeaves ==
  ASSUME HubInv, NEW c \in Conns, Leave(c)
  PROVE  HubInv'
<1> USE DEF HubInv
<1>1. /\ conn \in [Conns -> Goroutines]
      /\ \A o \in Conns : conn[o].left = {}
      /\ Becomes(c, [conn[c] EXCEPT !.at = "gone"]) /\ crossed' = crossed
      /\ [conn[c] EXCEPT !.at = "gone"] \in Goroutines
  BY HubTyped DEF Leave, CanLock, Goroutines, Places
<1>2. /\ conn' \in [Conns -> Goroutines]
      /\ \A o \in Conns : /\ conn'[o].id = conn[o].id /\ conn'[o].left = {}
                          /\ o # c => conn'[o] = conn[o]
      /\ ~Registered(c)' /\ Registered(c)
  BY <1>1, HubBecomes DEF Leave, Goroutines, Registered
<1>3. \A o \in Conns : o # c => (Registered(o)' <=> Registered(o))
  BY <1>2 DEF Registered
<1>4. LeftAreHeld' /\ SameIdHasMet'
  BY <1>1, <1>2, <1>3 DEF LeftAreHeld, SameIdHasMet
<1>5. CASE IsDevice(c)
  <2>1. devices' = [devices EXCEPT ![conn[c].id] = None] /\ clients' = clients
    BY <1>5 DEF Leave
  <2>2. conn[c].id \in Devices
    BY <1>1, <1>5 DEF Goroutines
  <2>3. ListedAreServed'
    BY <1>1, <1>2, <1>3, <1>5, <2>1, <2>2 DEF ListedAreServed, HubTypeOK
  <2>4. ConnectedAreListed'
    BY <1>1, <1>2, <1>3, <1>5, <2>1, <2>2
       DEF ConnectedAreListed, SameIdHasMet, ListedAreServed, HubTypeOK
  <2>5. QED
    BY <1>4, <2>3, <2>4
<1>6. CASE ~IsDevice(c)
  <2>1. clients' = clients \ {c} /\ devices' = devices
    BY <1>6 DEF Leave
  <2>2. ListedAreServed'
    BY <1>1, <1>2, <1>3, <1>6, <2>1, HubAssumption DEF ListedAreServed, HubTypeOK
  <2>3. ConnectedAreListed'
    BY <1>1, <1>2, <1>3, <1>6, <2>1 DEF ConnectedAreListed
  <2>4. QED
    BY <1>4, <2>2, <2>3
<1>7. QED
  BY <1>5, <1>6

(* Who connects is not listed yet, and has not been.                       *)
LEMMA HubConnects ==
  ASSUME HubInv, NEW c \in Conns, NEW id \in Devices \cup {None}, Connect(c, id)
  PROVE  HubInv'
<1> DEFINE local == [conn[c] EXCEPT !.at = "registering", !.id = id]
<1>1. Becomes(c, local) /\ ~Registered(c) /\ UNCHANGED <<devices, clients, crossed>>
  BY DEF Connect, Registered
<1> conn[c] \in Goroutines
  BY HubTyped
<1>2. /\ local \in Goroutines /\ local.at = "registering"
      /\ local.left = conn[c].left /\ local.holds = conn[c].holds
  BY DEF Goroutines, Places
<1> HIDE DEF local
<1>3. QED
  BY <1>1, <1>2, HubTyped, HubMoves

(* Every other step moves one goroutine among the places of a listed one.  *)
LEMMA HubWorks ==
  ASSUME HubInv, NEW c \in Conns,
         \/ Greet(c) \/ EndWrite(c) \/ EndBroadcast(c) \/ ReadFails(c) \/ Broadcast(c)
         \/ Panic(c) \/ (\E o \in Conns : WriteNext(c, o))
         \/ (\E d \in Devices : SendToDevice(c, d))
  PROVE  HubInv'
<1> DEFINE Moved(local) ==
      /\ local \in Goroutines /\ Becomes(c, local) /\ UNCHANGED <<devices, clients, crossed>>
      /\ Registered(c) /\ local.at \notin {"none", "registering", "gone"}
      /\ local.id = conn[c].id /\ local.left \subseteq clients
      /\ local.left # {} => local.holds
<1>0. /\ conn[c] \in Goroutines /\ conn[c].left \subseteq clients /\ clients \subseteq Conns
      /\ conn[c].left # {} => conn[c].holds
  BY HubTyped
<1>1. ASSUME Greet(c) PROVE \E local : Moved(local)
  <2> DEFINE local == [conn[c] EXCEPT !.at = "writing", !.to = c]
  <2>1. /\ At(c, "greeting")
        /\ Becomes(c, local) /\ UNCHANGED <<devices, clients, crossed>>
    BY <1>1 DEF Greet, Writes
  <2>2. /\ local \in Goroutines /\ local.at = "writing"
        /\ local.id = conn[c].id /\ local.left = conn[c].left /\ local.holds = conn[c].holds
    BY <1>0 DEF Goroutines, Places
  <2> HIDE DEF local
  <2>3. Moved(local)
    BY <1>0, <2>1, <2>2 DEF Registered
  <2>4. QED
    BY <2>3
<1>2. ASSUME EndWrite(c) PROVE \E local : Moved(local)
  <2> DEFINE local == [conn[c] EXCEPT !.at = IF conn[c].holds THEN "broadcasting" ELSE "reading",
                             !.greeted = TRUE, !.to = None]
  <2>1. /\ At(c, "writing")
        /\ Becomes(c, local) /\ UNCHANGED <<devices, clients, crossed>>
    BY <1>2 DEF EndWrite
  <2>2. /\ local \in Goroutines /\ local.at \in {"broadcasting", "reading"}
        /\ local.id = conn[c].id /\ local.left = conn[c].left /\ local.holds = conn[c].holds
    BY <1>0 DEF Goroutines, Places
  <2> HIDE DEF local
  <2>3. Moved(local)
    BY <1>0, <2>1, <2>2 DEF Registered
  <2>4. QED
    BY <2>3
<1>3. ASSUME EndBroadcast(c) PROVE \E local : Moved(local)
  <2> DEFINE local == [conn[c] EXCEPT !.at = "reading", !.holds = FALSE]
  <2>1. /\ At(c, "broadcasting") /\ conn[c].left = {}
        /\ Becomes(c, local) /\ UNCHANGED <<devices, clients, crossed>>
    BY <1>3 DEF EndBroadcast
  <2>2. /\ local \in Goroutines /\ local.at = "reading"
        /\ local.id = conn[c].id /\ local.left = conn[c].left /\ local.holds = FALSE
    BY <1>0 DEF Goroutines, Places
  <2> HIDE DEF local
  <2>3. Moved(local)
    BY <1>0, <2>1, <2>2 DEF Registered
  <2>4. QED
    BY <2>3
<1>4. ASSUME ReadFails(c) PROVE \E local : Moved(local)
  <2>1. Moved([conn[c] EXCEPT !.at = "leaving"])
    BY <1>4, HubTyped DEF ReadFails, Goroutines, Places, Registered
  <2>2. QED
    BY <2>1
<1>5. ASSUME Broadcast(c) PROVE \E local : Moved(local)
  <2> DEFINE local == [conn[c] EXCEPT !.at = "broadcasting", !.holds = TRUE, !.left = clients]
  <2>1. /\ At(c, "reading")
        /\ Becomes(c, local) /\ UNCHANGED <<devices, clients, crossed>>
    BY <1>5 DEF Broadcast
  <2>2. /\ local \in Goroutines /\ local.at = "broadcasting"
        /\ local.id = conn[c].id /\ local.left = clients /\ local.holds = TRUE
    BY <1>0 DEF Goroutines, Places
  <2> HIDE DEF local
  <2>3. Moved(local)
    BY <1>0, <2>1, <2>2 DEF Registered
  <2>4. QED
    BY <2>3
<1>6. ASSUME Panic(c) PROVE \E local : Moved(local)
  <2> DEFINE local == [conn[c] EXCEPT !.at = IF conn[c].greeted THEN "leaving" ELSE "lost",
                             !.holds = FALSE, !.left = {}, !.to = None]
  <2>1. /\ At(c, "writing")
        /\ Becomes(c, local) /\ UNCHANGED <<devices, clients, crossed>>
    BY <1>6 DEF Panic
  <2>2. /\ local \in Goroutines /\ local.at \in {"leaving", "lost"}
        /\ local.id = conn[c].id /\ local.left = {} /\ local.holds = FALSE
    BY <1>0 DEF Goroutines, Places
  <2> HIDE DEF local
  <2>3. Moved(local)
    BY <1>0, <2>1, <2>2 DEF Registered
  <2>4. QED
    BY <2>3
<1>7. ASSUME NEW o \in Conns, WriteNext(c, o) PROVE \E local : Moved(local)
  <2> DEFINE local == [conn[c] EXCEPT !.at = "writing", !.to = o, !.left = @ \ {o}]
  <2>1. /\ At(c, "broadcasting")
        /\ Becomes(c, local) /\ UNCHANGED <<devices, clients, crossed>>
    BY <1>7 DEF WriteNext
  <2>2. /\ local \in Goroutines /\ local.at = "writing"
        /\ local.id = conn[c].id /\ local.left = conn[c].left \ {o} /\ local.holds = conn[c].holds
    BY <1>0 DEF Goroutines, Places
  <2> HIDE DEF local
  <2>3. Moved(local)
    BY <1>0, <2>1, <2>2 DEF Registered
  <2>4. QED
    BY <2>3
<1>8. ASSUME NEW d \in Devices, SendToDevice(c, d) PROVE \E local : Moved(local)
  <2> DEFINE local == [conn[c] EXCEPT !.at = "writing", !.to = devices[d]]
  <2>1. /\ At(c, "reading") /\ devices[d] \in Conns
        /\ Becomes(c, local) /\ UNCHANGED <<devices, clients, crossed>>
    BY <1>8, HubTyped DEF SendToDevice, Writes
  <2>2. /\ local \in Goroutines /\ local.at = "writing"
        /\ local.id = conn[c].id /\ local.left = conn[c].left /\ local.holds = conn[c].holds
    BY <1>0, <2>1 DEF Goroutines, Places
  <2> HIDE DEF local
  <2>3. Moved(local)
    BY <1>0, <2>1, <2>2 DEF Registered
  <2>4. QED
    BY <2>3
<1>9. PICK local : Moved(local)
  BY <1>1, <1>2, <1>3, <1>4, <1>5, <1>6, <1>7, <1>8
<1>10. QED
  BY <1>9, HubMoves

(* The lists follow the goroutines at every interleaving (trigger/ws/hub.go): *)
(* HubInv is an invariant of the hub.                                      *)
THEOREM HubInvariant == HubSpec => []HubInv
<1>1. ASSUME HubInv, [HubNext]_hubVars PROVE HubInv'
  <2>1. ASSUME NEW c \in Conns, NEW id \in Devices \cup {None}, Connect(c, id) PROVE HubInv'
    BY <1>1, <2>1, HubConnects
  <2>2. ASSUME NEW c \in Conns, Register(c) PROVE HubInv'
    BY <1>1, <2>2, HubRegisters
  <2>3. ASSUME NEW c \in Conns, Leave(c) PROVE HubInv'
    BY <1>1, <2>3, HubLeaves
  <2>4. ASSUME NEW c \in Conns,
               \/ Greet(c) \/ EndWrite(c) \/ EndBroadcast(c) \/ ReadFails(c) \/ Broadcast(c)
               \/ Panic(c) \/ (\E o \in Conns : WriteNext(c, o))
               \/ (\E d \in Devices : SendToDevice(c, d))
        PROVE  HubInv'
    BY <1>1, <2>4, HubWorks
  <2>5. CASE UNCHANGED hubVars
    BY <1>1, <2>5
       DEF hubVars, HubInv, ListedAreServed, ConnectedAreListed, LeftAreHeld, SameIdHasMet,
           HubTypeOK, Registered
  <2>6. QED
    BY <1>1, <2>1, <2>2, <2>3, <2>4, <2>5 DEF HubNext, Works
<1>2. QED
  BY <1>1, HubInitially, PTL DEF HubSpec

(* Who is listed has its goroutine, whatever panics.                       *)
THEOREM ListedServed == HubSpec => []ListedAreServed
<1>1. HubInv => ListedAreServed
  BY DEF HubInv
<1>2. QED
  BY <1>1, HubInvariant, PTL

(* Who is connected, and met nobody of its id, is listed.                  *)
THEOREM ConnectedListed == HubSpec => []ConnectedAreListed
<1>1. HubInv => ConnectedAreListed
  BY DEF HubInv
<1>2. QED
  BY <1>1, HubInvariant, PTL
================================================================================
