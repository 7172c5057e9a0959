------------------------------ MODULE PreparationProofs ------------------------------
(* Proofs about what is done with a text before the rounds of a run: it is *)
(* taken for what it or its session said, for any sessions, runs, rules    *)
(* and guesses; Chat gives no user more than the limit, for any limit,     *)
(* window and number of requests; what a run is shown in its prompt is its *)
(* own and up to date, for any runs, sessions and users; and a trimmed     *)
(* history keeps its end, for any texts and budgets.                       *)
EXTENDS Preparation, SequenceTheorems, FiniteSetTheorems, TLAPS

--------------------------------------------------------------------------------
(* The recognition of intents *)

Stages == {"idle", "looking", "classifying", "unsure", "sure", "putting", "known"}

Recognitions ==
  [at : Stages, session : Sessions \cup {None}, text : Texts \cup {None},
   intent : Intents \cup {None}, confidence : 0 .. 100]

RecognitionTyped ==
  /\ now \in Nat
  /\ context \in [Sessions -> Intents \cup {None}]
  /\ rec \in [Runs -> Recognitions]
  /\ said \in [Sessions -> SUBSET Texts]
  /\ DOMAIN cache \subseteq Keys
  /\ \A k \in DOMAIN cache : cache[k].exp \in Nat /\ cache[k].exp <= now + CacheTTL

CacheIsBounded == IsFiniteSet(DOMAIN cache) /\ Cardinality(DOMAIN cache) <= MaxCache

Guessed == {g.intent : g \in Guesses} \cup {"CHAT"}

(* Somebody said so in the session, or it is what anybody may be taken for.*)
Earned(s, intent) ==
  intent \notin Guessed =>
    \E text \in said[s] \cap DOMAIN Keyworded : Keyworded[text] = intent

Rightly(s, text, intent) ==
  /\ intent \in Intents /\ Earned(s, intent)
  /\ text \in DOMAIN Keyworded => intent = Keyworded[text]

ContextsAreEarned == \A s \in Sessions : context[s] # None => Earned(s, context[s])
CacheIsRight == \A k \in DOMAIN cache : Rightly(k[1], k[2], cache[k].intent)
AnswersAreRight ==
  \A a \in answers : a.session \in Sessions /\ Rightly(a.session, a.text, a.intent)

(* What a run knows of its text at each stage.                             *)
Sound(v) ==
  /\ v.at \notin {"idle", "known"} => v.session \in Sessions /\ v.text \in said[v.session]
  /\ v.at \in {"unsure", "sure", "putting"} => Rightly(v.session, v.text, v.intent)
  /\ v.at = "unsure" => v.text \notin DOMAIN Keyworded

(* The inductive invariant: what is right of the answers must be right of  *)
(* all they are made from, the context, the cache and the runs' own state. *)
RecognitionInv ==
  /\ RecognitionTyped /\ CacheIsBounded
  /\ ContextsAreEarned /\ CacheIsRight /\ AnswersAreRight
  /\ \A r \in Runs : Sound(rec[r])

USE DEF At

LEMMA RecognitionInitially == RecognitionInit => RecognitionInv
<1> SUFFICES ASSUME RecognitionInit PROVE RecognitionInv
  OBVIOUS
<1>1. DOMAIN cache = {} /\ CacheIsBounded
  BY RecognitionAssumption, FS_EmptySet DEF RecognitionInit, CacheIsBounded
<1>2. Unread \in Recognitions
  BY DEF Unread, Recognitions, Stages
<1>3. RecognitionTyped
  BY <1>1, <1>2, RecognitionAssumption DEF RecognitionInit, RecognitionTyped
<1>4. ContextsAreEarned /\ CacheIsRight /\ AnswersAreRight /\ \A r \in Runs : Sound(rec[r])
  BY <1>1 DEF RecognitionInit, ContextsAreEarned, CacheIsRight, AnswersAreRight, Sound, Unread
<1>5. QED
  BY <1>1, <1>3, <1>4 DEF RecognitionInv

(* A step of one run that changes its own state only.                      *)
LEMMA RunMoves ==
  ASSUME RecognitionInv, NEW r \in Runs, NEW v \in Recognitions, Sound(v),
         rec' = [rec EXCEPT ![r] = v], UNCHANGED <<now, context, cache, said, answers>>
  PROVE  RecognitionInv'
<1>1. rec' \in [Runs -> Recognitions] /\ \A o \in Runs : rec'[o] = IF o = r THEN v ELSE rec[o]
  BY DEF RecognitionInv, RecognitionTyped
<1>2. RecognitionTyped' /\ CacheIsBounded'
  BY <1>1 DEF RecognitionInv, RecognitionTyped, CacheIsBounded
<1>3. ContextsAreEarned' /\ CacheIsRight' /\ AnswersAreRight'
  BY DEF RecognitionInv, ContextsAreEarned, CacheIsRight, AnswersAreRight, Rightly, Earned
<1>4. \A o \in Runs : Sound(rec[o])'
  BY <1>1 DEF RecognitionInv, Sound, Rightly, Earned
<1>5. QED
  BY <1>2, <1>3, <1>4 DEF RecognitionInv

LEMMA BeginRight ==
  ASSUME RecognitionInv, NEW r \in Runs, NEW s \in Sessions, NEW text \in Texts,
         Begin(r, s, text)
  PROVE  RecognitionInv'
<1> DEFINE v == [rec[r] EXCEPT !.at = "looking", !.session = s, !.text = text]
<1>1. rec[r] \in Recognitions /\ rec \in [Runs -> Recognitions] /\ RecognitionTyped
  BY DEF RecognitionInv, RecognitionTyped
<1>2. v \in Recognitions /\ v.at = "looking" /\ v.session = s /\ v.text = text
  BY <1>1 DEF Recognitions, Stages
<1>3. rec' = [rec EXCEPT ![r] = v]
  BY <1>1 DEF Begin
<1>4. UNCHANGED <<now, context, cache, answers>> /\ said' = [said EXCEPT ![s] = @ \cup {text}]
  BY DEF Begin
<1> HIDE DEF v
<1>5. rec' \in [Runs -> Recognitions] /\ \A o \in Runs : rec'[o] = IF o = r THEN v ELSE rec[o]
  BY <1>1, <1>2, <1>3
<1>6. /\ said' \in [Sessions -> SUBSET Texts]
      /\ \A o \in Sessions : said[o] \subseteq said'[o]
      /\ text \in said'[s]
  BY <1>1, <1>4 DEF RecognitionTyped
<1>7. RecognitionTyped' /\ CacheIsBounded'
  BY <1>1, <1>4, <1>5, <1>6 DEF RecognitionTyped, CacheIsBounded, RecognitionInv
<1>8. ContextsAreEarned' /\ CacheIsRight' /\ AnswersAreRight'
  <2>1. \A k \in DOMAIN cache : k[1] \in Sessions
    BY <1>1 DEF RecognitionTyped, Keys
  <2>2. ContextsAreEarned'
    BY <1>4, <1>6 DEF RecognitionInv, ContextsAreEarned, Earned
  <2>3. CacheIsRight'
    <3>1. SUFFICES ASSUME NEW k \in DOMAIN cache PROVE Rightly(k[1], k[2], cache[k].intent)'
      BY <1>4 DEF CacheIsRight
    <3>2. Rightly(k[1], k[2], cache[k].intent) /\ said[k[1]] \subseteq said'[k[1]]
      BY <1>6, <2>1 DEF RecognitionInv, CacheIsRight
    <3>3. QED
      BY <1>4, <3>2 DEF Rightly, Earned
  <2>4. AnswersAreRight'
    <3>1. SUFFICES ASSUME NEW a \in answers
                   PROVE  a.session \in Sessions /\ Rightly(a.session, a.text, a.intent)'
      BY <1>4 DEF AnswersAreRight
    <3>2. /\ a.session \in Sessions /\ Rightly(a.session, a.text, a.intent)
          /\ said[a.session] \subseteq said'[a.session]
      BY <1>6 DEF RecognitionInv, AnswersAreRight
    <3>3. QED
      BY <3>2 DEF Rightly, Earned
  <2>5. QED
    BY <2>2, <2>3, <2>4
<1>9. \A o \in Runs : Sound(rec[o])'
  <2>1. Sound(rec[r])'
    BY <1>2, <1>5, <1>6 DEF Sound
  <2>2. ASSUME NEW o \in Runs, o # r PROVE Sound(rec[o])'
    <3>1. Sound(rec[o]) /\ rec'[o] = rec[o]
      BY <1>5, <2>2 DEF RecognitionInv
    <3>2. rec[o].session \in Sessions => said[rec[o].session] \subseteq said'[rec[o].session]
      BY <1>6
    <3>3. rec[o].at \in {"unsure", "sure", "putting"} =>
            Rightly(rec[o].session, rec[o].text, rec[o].intent)'
      BY <3>1, <3>2 DEF Sound, Rightly, Earned
    <3>4. QED
      BY <3>1, <3>2, <3>3 DEF Sound
  <2>3. QED
    BY <1>5, <2>1, <2>2
<1>10. QED
  BY <1>7, <1>8, <1>9 DEF RecognitionInv

(* A run gets an answer that is right.                                     *)
LEMMA AnswerRight ==
  ASSUME RecognitionInv, NEW r \in Runs, rec[r].session \in Sessions,
         NEW intent, NEW source, Rightly(rec[r].session, rec[r].text, intent),
         Answered(r, intent, source), said' = said
  PROVE  AnswersAreRight' /\ rec' \in [Runs -> Recognitions] /\ \A o \in Runs : Sound(rec[o])'
<1>1. rec \in [Runs -> Recognitions] /\ AnswersAreRight
  BY DEF RecognitionInv, RecognitionTyped
<1>2. [Unread EXCEPT !.at = "known"] \in Recognitions
      /\ [Unread EXCEPT !.at = "known"].at = "known"
  BY DEF Unread, Recognitions, Stages
<1>3. /\ rec' \in [Runs -> Recognitions] /\ rec'[r].at = "known"
      /\ \A o \in Runs : o # r => rec'[o] = rec[o]
  BY <1>1, <1>2 DEF Answered
<1>4. \A o \in Runs : Sound(rec[o])'
  BY <1>3 DEF RecognitionInv, Sound, Rightly, Earned
<1>5. AnswersAreRight'
  BY <1>1 DEF Answered, AnswersAreRight, Rightly, Earned
<1>6. QED
  BY <1>3, <1>4, <1>5

LEMMA HitRight ==
  ASSUME RecognitionInv, NEW r \in Runs, Hit(r)
  PROVE  RecognitionInv'
<1>1. Key(r) \in DOMAIN cache /\ UNCHANGED <<now, context, cache, said>>
  BY DEF Hit, Holds
<1>2. rec[r].session \in Sessions
  BY DEF Hit, RecognitionInv, Sound
<1>3. Rightly(rec[r].session, rec[r].text, cache[Key(r)].intent)
  BY <1>1 DEF RecognitionInv, CacheIsRight, Key
<1>4. AnswersAreRight' /\ rec' \in [Runs -> Recognitions] /\ \A o \in Runs : Sound(rec[o])'
  BY <1>1, <1>2, <1>3, AnswerRight DEF Hit
<1>5. QED
  BY <1>1, <1>4 DEF RecognitionInv, RecognitionTyped, CacheIsBounded, ContextsAreEarned,
     CacheIsRight, Rightly, Earned

LEMMA MissRight ==
  ASSUME RecognitionInv, NEW r \in Runs, Miss(r)
  PROVE  RecognitionInv'
<1> DEFINE v == [rec[r] EXCEPT !.at = "classifying"]
<1>1. rec[r] \in Recognitions /\ rec \in [Runs -> Recognitions]
  BY DEF RecognitionInv, RecognitionTyped
<1>2. /\ v \in Recognitions /\ v.at = "classifying"
      /\ v.session = rec[r].session /\ v.text = rec[r].text
  BY <1>1 DEF Recognitions, Stages
<1>3. rec' = [rec EXCEPT ![r] = v] /\ UNCHANGED <<now, context, cache, said, answers>>
  BY <1>1 DEF Miss
<1>4. rec[r].session \in Sessions /\ rec[r].text \in said[rec[r].session]
  BY DEF Miss, RecognitionInv, Sound
<1> HIDE DEF v
<1>5. Sound(v)
  BY <1>2, <1>4 DEF Sound
<1>6. QED
  BY <1>2, <1>3, <1>5, RunMoves

(* A run comes to an intent that is right.                                 *)
LEMMA SaysRight ==
  ASSUME RecognitionInv, NEW r \in Runs, rec[r].at \in {"classifying", "unsure"},
         NEW intent, NEW confidence \in 0 .. 100, NEW where \in {"sure", "unsure"},
         Rightly(rec[r].session, rec[r].text, intent),
         where = "unsure" => rec[r].text \notin DOMAIN Keyworded,
         Says(r, where, intent, confidence), UNCHANGED <<now, context, cache, said, answers>>
  PROVE  RecognitionInv'
<1> DEFINE v == [rec[r] EXCEPT !.at = where, !.intent = intent, !.confidence = confidence]
<1>1. rec[r] \in Recognitions /\ rec \in [Runs -> Recognitions]
  BY DEF RecognitionInv, RecognitionTyped
<1>2. intent \in Intents
  BY DEF Rightly
<1>3. /\ v \in Recognitions /\ v.at = where /\ v.intent = intent
      /\ v.session = rec[r].session /\ v.text = rec[r].text
  BY <1>1, <1>2 DEF Recognitions, Stages
<1>4. rec' = [rec EXCEPT ![r] = v]
  BY <1>1 DEF Says
<1>5. rec[r].session \in Sessions /\ rec[r].text \in said[rec[r].session]
  BY DEF RecognitionInv, Sound
<1> HIDE DEF v
<1>6. Sound(v)
  BY <1>3, <1>5 DEF Sound
<1>7. QED
  BY <1>3, <1>4, <1>6, RunMoves

(* The rules: a keyword is said in the session; the last intent is earned. *)
LEMMA ClassifyRight ==
  ASSUME RecognitionInv, NEW r \in Runs, Classify(r)
  PROVE  RecognitionInv'
<1> DEFINE s == rec[r].session
           text == rec[r].text
<1>1. /\ rec[r].at = "classifying" /\ s \in Sessions /\ text \in said[s]
      /\ UNCHANGED <<now, context, cache, said, answers>>
  BY DEF Classify, RecognitionInv, Sound
<1>2. 85 \in 0 .. 100 /\ 75 \in 0 .. 100 /\ 30 \in 0 .. 100
  OBVIOUS
<1>3. ASSUME NEW intent, NEW confidence \in 0 .. 100, Rightly(s, text, intent),
             \/ Says(r, "sure", intent, confidence)
             \/ Says(r, "unsure", intent, confidence) /\ text \notin DOMAIN Keyworded
      PROVE  RecognitionInv'
  BY <1>1, <1>3, SaysRight
<1> HIDE DEF s, text
<1>4. CASE text \in DOMAIN Keyworded
  <2>1. Rightly(s, text, Keyworded[text])
    <3>1. Keyworded[text] \in Range(Keyworded)
      BY <1>4 DEF Range
    <3>2. QED
      BY <1>1, <1>4, <3>1 DEF Rightly, Earned, Intents
  <2>2. Says(r, "sure", Keyworded[text], 85)
    BY <1>4 DEF Classify, s, text
  <2>3. QED
    BY <1>2, <1>3, <2>1, <2>2, ZenonT(40)
<1>5. CASE text \notin DOMAIN Keyworded /\ context[s] # None /\ text \in Referring
  <2>1. Rightly(s, text, context[s])
    BY <1>1, <1>5 DEF Rightly, RecognitionInv, RecognitionTyped, ContextsAreEarned
  <2>2. Says(r, "unsure", context[s], 75)
    BY <1>5 DEF Classify, s, text
  <2>3. QED
    BY <1>2, <1>3, <1>5, <2>1, <2>2, ZenonT(40)
<1>6. CASE text \notin DOMAIN Keyworded /\ ~(context[s] # None /\ text \in Referring)
  <2>1. Rightly(s, text, "CHAT")
    BY <1>6 DEF Rightly, Earned, Guessed, Intents
  <2>2. Says(r, "unsure", "CHAT", 30)
    BY <1>6 DEF Classify, s, text
  <2>3. QED
    BY <1>2, <1>3, <1>6, <2>1, <2>2, ZenonT(40)
<1>7. QED
  BY <1>4, <1>5, <1>6

(* The model is only asked about texts without keywords.                   *)
LEMMA AskRight ==
  ASSUME RecognitionInv, NEW r \in Runs, AskModel(r)
  PROVE  RecognitionInv'
<1>1. /\ rec[r].at = "unsure" /\ rec[r].text \notin DOMAIN Keyworded
      /\ Rightly(rec[r].session, rec[r].text, rec[r].intent)
      /\ UNCHANGED <<now, context, cache, said, answers>>
  BY DEF AskModel, RecognitionInv, Sound
<1>2. rec[r].confidence \in 0 .. 100
  BY DEF RecognitionInv, RecognitionTyped, Recognitions
<1>3. CASE Says(r, "sure", rec[r].intent, rec[r].confidence)
  BY <1>1, <1>2, <1>3, SaysRight
<1>4. CASE ~Says(r, "sure", rec[r].intent, rec[r].confidence)
  <2>1. PICK g \in Guesses \cup {[intent |-> "CHAT", confidence |-> 40]} :
          Says(r, "sure", g.intent, g.confidence)
    BY <1>4 DEF AskModel
  <2>2. g.confidence \in 0 .. 100
    BY RecognitionAssumption
  <2>3. g.intent \in Guessed /\ g.intent \in Intents
    BY DEF Guessed, Intents
  <2>4. Rightly(rec[r].session, rec[r].text, g.intent)
    BY <1>1, <2>3 DEF Rightly, Earned
  <2>5. QED
    BY <1>1, <2>1, <2>2, <2>4, SaysRight
<1>5. QED
  BY <1>3, <1>4

LEMMA UpdateRight ==
  ASSUME RecognitionInv, NEW r \in Runs, Update(r)
  PROVE  RecognitionInv'
<1> DEFINE v == [rec[r] EXCEPT !.at = "putting"]
           s == rec[r].session
<1>1. rec[r] \in Recognitions /\ rec \in [Runs -> Recognitions]
  BY DEF RecognitionInv, RecognitionTyped
<1>2. /\ v \in Recognitions /\ v.at = "putting" /\ v.intent = rec[r].intent
      /\ v.session = s /\ v.text = rec[r].text
  BY <1>1 DEF Recognitions, Stages
<1>3. /\ rec' = [rec EXCEPT ![r] = v] /\ context' = [context EXCEPT ![s] = rec[r].intent]
      /\ UNCHANGED <<now, cache, said, answers>>
  BY <1>1 DEF Update
<1>4. s \in Sessions /\ rec[r].text \in said[s] /\ Rightly(s, rec[r].text, rec[r].intent)
  BY DEF Update, RecognitionInv, Sound
<1> HIDE DEF v
<1>5. rec' \in [Runs -> Recognitions] /\ \A o \in Runs : rec'[o] = IF o = r THEN v ELSE rec[o]
  BY <1>1, <1>2, <1>3
<1>6. RecognitionTyped' /\ CacheIsBounded'
  BY <1>3, <1>4, <1>5 DEF RecognitionInv, RecognitionTyped, CacheIsBounded, Rightly
<1>7. ContextsAreEarned'
  BY <1>3, <1>4 DEF RecognitionInv, RecognitionTyped, ContextsAreEarned, Rightly, Earned
<1>8. CacheIsRight' /\ AnswersAreRight'
  BY <1>3 DEF RecognitionInv, CacheIsRight, AnswersAreRight, Rightly, Earned
<1>9. Sound(v)
  BY <1>2, <1>4 DEF Sound
<1>10. \A o \in Runs : Sound(rec[o])'
  BY <1>3, <1>5, <1>9 DEF RecognitionInv, Sound, Rightly, Earned
<1>11. QED
  BY <1>6, <1>7, <1>8, <1>10 DEF RecognitionInv

LEMMA UpToIsFinite == \A n \in Nat : IsFiniteSet(1 .. n)
BY FS_Interval

(* Where a full cache drops something, there is room for one more.         *)
LEMMA CacheFits ==
  ASSUME CacheIsBounded, NEW kept \in SUBSET DOMAIN cache, NEW k,
         IF Cardinality(DOMAIN cache) < MaxCache THEN kept = DOMAIN cache
         ELSE Cardinality(DOMAIN cache \ kept) = Dropped
  PROVE  IsFiniteSet(kept \cup {k}) /\ Cardinality(kept \cup {k}) <= MaxCache
<1> DEFINE all == DOMAIN cache
<1>1. IsFiniteSet(all) /\ Cardinality(all) <= MaxCache /\ Cardinality(all) \in Nat
  BY FS_CardinalityType DEF CacheIsBounded
<1>2. IsFiniteSet(kept) /\ Cardinality(kept) \in Nat
  BY <1>1, FS_Subset, FS_CardinalityType
<1>3. Cardinality(kept) < MaxCache
  <2>1. CASE Cardinality(all) < MaxCache
    BY <1>1, <2>1
  <2>2. CASE ~(Cardinality(all) < MaxCache)
    <3>1. Dropped \in Nat /\ Dropped >= 1
      BY RecognitionAssumption DEF Dropped
    <3>2. all \cap kept = kept
      OBVIOUS
    <3>3. Cardinality(all \ kept) = Cardinality(all) - Cardinality(kept)
      BY <1>1, <3>2, FS_Difference
    <3>4. Cardinality(all \ kept) = Dropped
      BY <2>2
    <3>5. QED
      BY <1>1, <1>2, <3>1, <3>3, <3>4, RecognitionAssumption
  <2>3. QED
    BY <2>1, <2>2
<1>4. /\ IsFiniteSet(kept \cup {k})
      /\ Cardinality(kept \cup {k}) <= Cardinality(kept) + 1
  BY <1>2, FS_AddElement
<1>5. Cardinality(kept \cup {k}) \in Nat
  BY <1>4, FS_CardinalityType
<1>6. QED
  BY <1>2, <1>3, <1>4, <1>5, RecognitionAssumption

LEMMA PutRight ==
  ASSUME RecognitionInv, NEW r \in Runs, PutCache(r)
  PROVE  RecognitionInv'
<1> DEFINE new == [intent |-> rec[r].intent, exp |-> now + CacheTTL]
<1>1. UNCHANGED <<now, context, said>> /\ Answered(r, rec[r].intent, "fresh")
  BY DEF PutCache
<1>2. /\ rec[r].session \in Sessions /\ rec[r].text \in said[rec[r].session]
      /\ Rightly(rec[r].session, rec[r].text, rec[r].intent)
  BY DEF PutCache, RecognitionInv, Sound
<1>3. AnswersAreRight' /\ rec' \in [Runs -> Recognitions] /\ \A o \in Runs : Sound(rec[o])'
  BY <1>1, <1>2, AnswerRight
<1>4. PICK kept \in SUBSET DOMAIN cache :
        /\ IF Cardinality(DOMAIN cache) < MaxCache THEN kept = DOMAIN cache
           ELSE Cardinality(DOMAIN cache \ kept) = Dropped
        /\ cache' = [k \in kept \cup {Key(r)} |-> IF k = Key(r) THEN new ELSE cache[k]]
  BY DEF PutCache
<1>5. /\ DOMAIN cache' = kept \cup {Key(r)}
      /\ \A k \in DOMAIN cache' : cache'[k] = IF k = Key(r) THEN new ELSE cache[k]
  BY <1>4
<1>6. CacheIsBounded'
  <2>1. CacheIsBounded
    BY DEF RecognitionInv
  <2>2. QED
    BY <1>4, <1>5, <2>1, CacheFits DEF CacheIsBounded
<1>7. Key(r) \in Keys
  BY <1>2 DEF Key, Keys, RecognitionInv, RecognitionTyped
<1>8. RecognitionTyped'
  <2>1. now + CacheTTL \in Nat
    BY RecognitionAssumption DEF RecognitionInv, RecognitionTyped
  <2>2. QED
    BY <1>1, <1>3, <1>4, <1>5, <1>7, <2>1 DEF RecognitionInv, RecognitionTyped
<1>9. ContextsAreEarned'
  BY <1>1 DEF RecognitionInv, ContextsAreEarned, Earned
<1>10. CacheIsRight'
  <2>1. Rightly(Key(r)[1], Key(r)[2], new.intent)
    BY <1>2 DEF Key
  <2>2. QED
    BY <1>1, <1>4, <1>5, <2>1 DEF RecognitionInv, CacheIsRight, Rightly, Earned
<1>11. QED
  BY <1>3, <1>6, <1>8, <1>9, <1>10 DEF RecognitionInv

LEMMA RestartRight ==
  ASSUME RecognitionInv, RecognitionRestarts
  PROVE  RecognitionInv'
<1>1. DOMAIN cache' = {} /\ CacheIsBounded'
  BY RecognitionAssumption, FS_EmptySet DEF RecognitionRestarts, CacheIsBounded
<1>2. [Unread EXCEPT !.at = "known"] \in Recognitions
      /\ [Unread EXCEPT !.at = "known"].at = "known"
  BY DEF Unread, Recognitions, Stages
<1>3. RecognitionTyped'
  BY <1>1, <1>2 DEF RecognitionInv, RecognitionTyped, RecognitionRestarts
<1>4. ContextsAreEarned' /\ CacheIsRight' /\ AnswersAreRight'
  BY <1>1 DEF RecognitionInv, RecognitionRestarts, ContextsAreEarned, CacheIsRight,
     AnswersAreRight, Rightly, Earned
<1>5. \A r \in Runs : Sound(rec[r])'
  BY <1>2 DEF RecognitionInv, RecognitionRestarts, Sound
<1>6. QED
  BY <1>1, <1>3, <1>4, <1>5 DEF RecognitionInv

(* The other parts leave recognition alone, and time only goes on.         *)
LEMMA OthersRight ==
  ASSUME RecognitionInv, UNCHANGED recognitionOnly, now' \in Nat, now' >= now
  PROVE  RecognitionInv'
<1>1. RecognitionTyped' /\ CacheIsBounded'
  BY RecognitionAssumption
     DEF RecognitionInv, RecognitionTyped, CacheIsBounded, recognitionOnly
<1>2. /\ ContextsAreEarned' /\ CacheIsRight' /\ AnswersAreRight'
      /\ \A r \in Runs : Sound(rec[r])'
  BY DEF RecognitionInv, recognitionOnly, ContextsAreEarned, CacheIsRight, AnswersAreRight,
         Sound, Rightly, Earned
<1>3. QED
  BY <1>1, <1>2 DEF RecognitionInv

(* However the runs of all sessions interleave, with restarts between, all *)
(* that intents are made from stays right: RecognitionInv is an invariant. *)
THEOREM RecognitionInvariant == PreparationSpec => []RecognitionInv
<1>1. ASSUME RecognitionInv, [PreparationNext]_preparationVars PROVE RecognitionInv'
  <2>1. CASE RecognizeIntent
    <3>1. ASSUME NEW r \in Runs, Recognize(r) PROVE RecognitionInv'
      BY <1>1, <3>1, BeginRight, HitRight, MissRight, ClassifyRight, AskRight, UpdateRight,
         PutRight DEF Recognize
    <3>2. CASE RecognitionTick
      BY <1>1, <3>2, OthersRight
         DEF RecognitionTick, Tick, recognitionOnly, RecognitionInv, RecognitionTyped
    <3>3. QED
      BY <1>1, <2>1, <3>1, <3>2, RestartRight DEF RecognizeIntent, RecognitionNext
  <2>2. CASE CheckRate \/ KeepHistory \/ MakePrompt \/ UNCHANGED preparationVars
    <3>1. UNCHANGED recognitionOnly /\ (now' = now \/ now' = now + 1)
      BY <2>2 DEF CheckRate, KeepHistory, MakePrompt, preparationVars, LimiterNext, AllowRate,
         RateFails, ChatStream, LoseCounters, LimiterTick, Tick
    <3>2. QED
      BY <1>1, <3>1, OthersRight DEF RecognitionInv, RecognitionTyped
  <2>3. QED
    BY <1>1, <2>1, <2>2 DEF PreparationNext
<1>2. PreparationInit => RecognitionInv
  BY RecognitionInitially DEF PreparationInit
<1>3. QED
  BY <1>1, <1>2, PTL DEF PreparationSpec

(* A text is taken for what it says, or for what was wanted in its own     *)
(* session, or for what the model may guess.                               *)
THEOREM IntentsTheirs == PreparationSpec => []IntentsAreTheirs
<1>1. RecognitionInv => IntentsAreTheirs
  <2> SUFFICES ASSUME RecognitionInv PROVE IntentsAreTheirs
    OBVIOUS
  <2>1. RecognitionTypeOK
    BY DEF RecognitionInv, RecognitionTyped, CacheIsBounded, CacheIsRight, Rightly,
       RecognitionTypeOK, Recognitions
  <2>2. KeywordsDecide /\ IntentsStayInTheirSession
    BY DEF RecognitionInv, AnswersAreRight, Rightly, Earned, Guessed, KeywordsDecide,
       IntentsStayInTheirSession
  <2>3. QED
    BY <2>1, <2>2 DEF IntentsAreTheirs
<1>2. QED
  BY <1>1, RecognitionInvariant, PTL

--------------------------------------------------------------------------------
(* The limit *)

Granted(u) == {i \in Allowed(u) : ~asked[i].failed}
Within(u, t) == {i \in Granted(u) : asked[i].time \in t .. t + Window}

(* What redis still has to remember: every request prolongs the counter.   *)
Recent(u) == {i \in Of(u) : now <= asked[i].time + Window}

(* A counter of the process starts a window, that ends at exp.  What was   *)
(* let through since it started, and from the time t on until then.        *)
Inside(u) == {i \in Allowed(u) : counter[u].exp <= asked[i].time + Window}
Earlier(u, t) ==
  {i \in Allowed(u) : t <= asked[i].time /\ asked[i].time + Window < counter[u].exp}

Least(a, b) == IF a <= b THEN a ELSE b

LimiterTyped ==
  /\ now \in Nat /\ LimiterTypeOK
  /\ \A i \in DOMAIN asked : asked[i].time <= now
  /\ \A u \in Users : counter[u].count = 0 => Of(u) = {}
  /\ \A u \in Users : \A i \in Of(u) : asked[i].time <= counter[u].exp

(* In the life of a counter of redis, from request b on, was no pause, and *)
(* what was let through is what it counted, up to the limit.               *)
LivesSince(u, b) ==
  /\ b \in Of(u)
  /\ \A k \in Of(u) : k > b => \E m \in Of(u) : b <= m /\ Before(k, m)
  /\ Cardinality({i \in Allowed(u) : b <= i}) >= Least(counter[u].count, Limit)
  /\ \E l \in Of(u) : b <= l /\ counter[u].exp = asked[l].time + Window

RedisInv ==
  limiter = "redis" => \A u \in Users :
    /\ counter[u].count > 0 => \E b \in Of(u) : LivesSince(u, b)
    /\ Lives(u) => Cardinality(Recent(u)) <= counter[u].count
    /\ \A i \in Of(u) : asked[i].time + Window <= counter[u].exp
    /\ \A t \in Nat : Cardinality(Within(u, t)) <= Limit

MemoryInv ==
  limiter = "memory" =>
    /\ \A i \in DOMAIN asked : ~asked[i].failed
    /\ \A u \in Users :
         /\ counter[u].count > 0 =>
              /\ Cardinality(Inside(u)) = Least(counter[u].count, Limit)
              /\ \E i \in Allowed(u) : counter[u].exp = asked[i].time + Window
         /\ \A t \in Nat : counter[u].exp <= t + 2 * Window => Cardinality(Earlier(u, t)) <= Limit - 1
         /\ \A t \in Nat : Cardinality(Within(u, t)) <= 2 * Limit - 1

LimiterInv == LimiterTyped /\ RedisInv /\ MemoryInv /\ RefusalsAreEarned

Chats == [user : Users, time : Nat, allowed : BOOLEAN, failed : BOOLEAN, streamed : BOOLEAN]

(* The place of the next request among those asked.                        *)
Latest == Len(asked) + 1

LEMMA PartsOf ==
  ASSUME NEW S, IsFiniteSet(S), NEW T \in SUBSET S
  PROVE  IsFiniteSet(T) /\ Cardinality(T) \in Nat /\ Cardinality(T) <= Cardinality(S)
BY FS_Subset, FS_CardinalityType

LEMMA PartsOfBoth ==
  ASSUME NEW S, NEW T, IsFiniteSet(S), IsFiniteSet(T), NEW U \in SUBSET (S \cup T)
  PROVE  Cardinality(U) \in Nat /\ Cardinality(U) <= Cardinality(S) + Cardinality(T)
<1>1. /\ IsFiniteSet(S \cup T)
      /\ Cardinality(S \cup T) = Cardinality(S) + Cardinality(T) - Cardinality(S \cap T)
  BY FS_Union
<1>2. Cardinality(S \cap T) \in Nat /\ Cardinality(S) \in Nat /\ Cardinality(T) \in Nat
  BY PartsOf, FS_CardinalityType
<1>3. Cardinality(U) \in Nat /\ Cardinality(U) <= Cardinality(S \cup T)
  BY <1>1, PartsOf
<1>4. QED
  BY <1>1, <1>2, <1>3

LEMMA OneMore ==
  ASSUME NEW S, IsFiniteSet(S), NEW x, x \notin S
  PROVE  IsFiniteSet(S \cup {x}) /\ Cardinality(S \cup {x}) = Cardinality(S) + 1 /\ Cardinality(S) \in Nat
BY FS_AddElement, FS_CardinalityType

LEMMA AskedIsFinite ==
  ASSUME LimiterTyped, NEW u
  PROVE  IsFiniteSet(Of(u)) /\ IsFiniteSet(Allowed(u))
<1>1. asked \in Seq(Chats)
  BY DEF LimiterTyped, LimiterTypeOK, Chats
<1>2. DOMAIN asked = 1 .. Len(asked) /\ Len(asked) \in Int /\ 1 \in Int
  BY <1>1, LenProperties
<1>3. IsFiniteSet(1 .. Len(asked))
  BY <1>2, FS_Interval
<1>4. Of(u) \subseteq 1 .. Len(asked) /\ Allowed(u) \subseteq Of(u)
  BY <1>2 DEF Of, Allowed
<1>5. QED
  BY <1>3, <1>4, FS_Subset

LEMMA AskedTyped ==
  ASSUME LimiterTyped
  PROVE  /\ DOMAIN asked = 1 .. Len(asked) /\ Len(asked) \in Nat /\ Latest \in Nat
         /\ \A i \in DOMAIN asked :
              /\ i \in Nat /\ i < Latest
              /\ asked[i] \in Chats
              /\ asked[i].time \in Nat /\ asked[i].time <= now
<1>1. asked \in Seq(Chats)
  BY DEF LimiterTyped, LimiterTypeOK, Chats
<1>2. DOMAIN asked = 1 .. Len(asked) /\ Len(asked) \in Nat
  BY <1>1, LenProperties
<1>3. \A i \in DOMAIN asked : asked[i] \in Chats
  BY <1>1, <1>2, ElementOfSeq
<1>4. QED
  BY <1>2, <1>3 DEF LimiterTyped, Latest, Chats

(* Requests are counted one after the other.                               *)
Asks(v, allowed, failed) ==
  /\ counter' = [counter EXCEPT ![v] = Counted(v)]
  /\ asked' = Append(asked, [user |-> v, time |-> now, allowed |-> allowed, failed |-> failed,
                              streamed |-> FALSE])
  /\ IF failed THEN allowed /\ limiter = "redis" ELSE allowed <=> counter'[v].count <= Limit
  /\ UNCHANGED <<now, limiter>>

LEMMA AskedGrows ==
  ASSUME LimiterTyped, NEW v \in Users, NEW allowed \in BOOLEAN, NEW failed \in BOOLEAN,
         Asks(v, allowed, failed)
  PROVE  /\ asked' \in Seq(Chats)
         /\ DOMAIN asked' = DOMAIN asked \cup {Latest} /\ Latest \notin DOMAIN asked
         /\ \A i \in DOMAIN asked : asked'[i] = asked[i]
         /\ asked'[Latest].time = now /\ asked'[Latest].failed = failed
         /\ \A i \in DOMAIN asked' : asked'[i].time \in Nat /\ asked'[i].time <= now
         /\ Of(v)' = Of(v) \cup {Latest}
         /\ Allowed(v)' = Allowed(v) \cup {i \in {Latest} : allowed}
         /\ \A u \in Users : u # v => Of(u)' = Of(u) /\ Allowed(u)' = Allowed(u)
<1> DEFINE e == [user |-> v, time |-> now, allowed |-> allowed, failed |-> failed,
                 streamed |-> FALSE]
           E == Chats
<1>1. asked \in Seq(E) /\ e \in E /\ asked' = Append(asked, e)
  BY DEF LimiterTyped, LimiterTypeOK, Asks, Chats
<1>2. /\ asked' \in Seq(E) /\ Len(asked') = Len(asked) + 1
      /\ \A i \in 1 .. Len(asked) : asked'[i] = asked[i]
      /\ asked'[Len(asked) + 1] = e
  BY <1>1, AppendProperties
<1>3. /\ DOMAIN asked' = DOMAIN asked \cup {Latest} /\ Latest \notin DOMAIN asked
      /\ \A i \in DOMAIN asked : asked'[i] = asked[i]
      /\ asked'[Latest] = e
  BY <1>1, <1>2, LenProperties DEF Latest
<1>4. e.user = v /\ e.allowed = allowed /\ ~e.streamed
  OBVIOUS
<1> HIDE DEF e
<1>5. Of(v)' = Of(v) \cup {Latest}
  BY <1>3, <1>4 DEF Of
<1>6. Allowed(v)' = Allowed(v) \cup {i \in {Latest} : allowed}
  BY <1>3, <1>4 DEF Of, Allowed
<1>7. \A u \in Users : u # v => Of(u)' = Of(u) /\ Allowed(u)' = Allowed(u)
  BY <1>3, <1>4 DEF Of, Allowed
<1>8. e.time = now /\ e.failed = failed
  BY DEF e
<1>9. \A i \in DOMAIN asked' : asked'[i].time \in Nat /\ asked'[i].time <= now
  BY <1>3, <1>8, AskedTyped DEF LimiterTyped
<1>10. QED
  BY <1>2, <1>3, <1>5, <1>6, <1>7, <1>8, <1>9

LEMMA CountedIs ==
  ASSUME LimiterTyped, NEW v \in Users, NEW allowed, NEW failed, Asks(v, allowed, failed)
  PROVE  /\ counter' \in [Users -> [count : Nat, exp : Nat]]
         /\ counter'[v].count = IF Lives(v) THEN counter[v].count + 1 ELSE 1
         /\ counter'[v].exp = IF Lives(v) /\ limiter # "redis" THEN counter[v].exp ELSE now + Window
         /\ \A u \in Users : u # v => counter'[u] = counter[u]
<1>1. /\ counter \in [Users -> [count : Nat, exp : Nat]] /\ now \in Nat /\ Window \in Nat
      /\ counter' = [counter EXCEPT ![v] = Counted(v)]
  BY LimiterAssumption DEF LimiterTyped, LimiterTypeOK, Asks
<1>2. /\ Counted(v) \in [count : Nat, exp : Nat]
      /\ Counted(v).count = IF Lives(v) THEN counter[v].count + 1 ELSE 1
      /\ Counted(v).exp = IF Lives(v) /\ limiter # "redis" THEN counter[v].exp ELSE now + Window
  BY <1>1 DEF Counted
<1>3. QED
  BY <1>1, <1>2

LEMMA AsksTyped ==
  ASSUME LimiterTyped, NEW v \in Users, NEW allowed \in BOOLEAN, NEW failed \in BOOLEAN,
         Asks(v, allowed, failed)
  PROVE  LimiterTyped'
<1>1. now' = now /\ limiter' = limiter /\ now \in Nat /\ Window \in Nat
  BY LimiterAssumption DEF Asks, LimiterTyped
<1>2. LimiterTypeOK'
  BY <1>1, AskedGrows, CountedIs DEF LimiterTypeOK, LimiterTyped, Chats
<1>3. \A i \in DOMAIN asked' : asked'[i].time <= now
  BY AskedGrows
<1>4. ASSUME NEW u \in Users PROVE /\ counter'[u].count = 0 => Of(u)' = {}
                                   /\ \A i \in Of(u)' : asked'[i].time <= counter'[u].exp
  <2>1. CASE u # v
    <3>1. Of(u)' = Of(u) /\ counter'[u] = counter[u] /\ \A i \in Of(u) : asked'[i] = asked[i]
      BY <2>1, AskedGrows, CountedIs DEF Of
    <3>2. QED
      BY <3>1 DEF LimiterTyped
  <2>2. CASE u = v
    <3>1. counter[v].count \in Nat /\ counter[v].exp \in Nat
      BY DEF LimiterTyped, LimiterTypeOK
    <3>2. counter'[v].count # 0
      BY <3>1, CountedIs
    <3>3. now <= counter'[v].exp
      BY <1>1, <3>1, CountedIs DEF Lives
    <3>4. \A i \in Of(u)' : asked'[i].time <= now /\ asked'[i].time \in Nat
      BY AskedGrows DEF Of
    <3>5. counter'[v].exp \in Nat
      BY CountedIs
    <3>6. QED
      BY <1>1, <2>2, <3>2, <3>3, <3>4, <3>5
  <2>3. QED
    BY <2>1, <2>2
<1>5. QED
  BY <1>1, <1>2, <1>3, <1>4 DEF LimiterTyped

LEMMA AskedStaysFinite ==
  ASSUME LimiterTyped, NEW v \in Users, NEW allowed \in BOOLEAN, NEW failed \in BOOLEAN,
         Asks(v, allowed, failed)
  PROVE  IsFiniteSet(Of(v)') /\ IsFiniteSet(Allowed(v)') /\ Allowed(v)' \subseteq Of(v)'
<1>1. Of(v)' = Of(v) \cup {Latest} /\ Allowed(v)' \subseteq Of(v)' /\ Latest \notin Of(v)
  BY AskedGrows DEF Of, Allowed
<1>2. QED
  BY <1>1, AskedIsFinite, OneMore, PartsOf

(* Of the requests of others nothing changes.                              *)
LEMMA OthersAsked ==
  ASSUME LimiterTyped, NEW v \in Users, NEW allowed \in BOOLEAN, NEW failed \in BOOLEAN,
         Asks(v, allowed, failed), NEW u \in Users, u # v
  PROVE  /\ counter'[u] = counter[u] /\ Of(u)' = Of(u) /\ Allowed(u)' = Allowed(u)
         /\ \A i \in Of(u) : asked'[i] = asked[i]
         /\ Lives(u)' = Lives(u) /\ Recent(u)' = Recent(u) /\ Inside(u)' = Inside(u)
         /\ \A t : Within(u, t)' = Within(u, t) /\ Earlier(u, t)' = Earlier(u, t)
         /\ \A b : LivesSince(u, b)' = LivesSince(u, b)
<1>1. /\ counter'[u] = counter[u] /\ Of(u)' = Of(u) /\ Allowed(u)' = Allowed(u)
      /\ \A i \in Of(u) : asked'[i] = asked[i]
      /\ now' = now /\ Allowed(u) \subseteq Of(u)
  BY AskedGrows, CountedIs DEF Of, Allowed, Asks
<1>2. Lives(u)' = Lives(u) /\ Recent(u)' = Recent(u) /\ Inside(u)' = Inside(u)
  BY <1>1 DEF Lives, Recent, Inside
<1>3. \A t : Within(u, t)' = Within(u, t) /\ Earlier(u, t)' = Earlier(u, t)
  BY <1>1 DEF Within, Granted, Earlier
<1>4. ASSUME NEW b PROVE LivesSince(u, b)' = LivesSince(u, b)
  <2>1. \A k, m \in Of(u) : Before(k, m)' = Before(k, m)
    BY <1>1 DEF Before
  <2>2. QED
    BY <1>1, <2>1 DEF LivesSince
<1>5. QED
  BY <1>1, <1>2, <1>3, <1>4

(* Where the newest request is outside, nothing changes within.            *)
LEMMA GrowsWithin ==
  ASSUME LimiterTyped, NEW v \in Users, NEW allowed \in BOOLEAN, NEW failed \in BOOLEAN,
         Asks(v, allowed, failed), NEW t \in Nat
  PROVE  \/ Within(v, t)' = Within(v, t)
         \/ allowed /\ ~failed /\ t <= now /\ now <= t + Window
<1>1. /\ \A i \in DOMAIN asked : asked'[i] = asked[i] /\ i # Latest
      /\ asked'[Latest].time = now /\ asked'[Latest].failed = failed
      /\ Allowed(v)' = Allowed(v) \cup {i \in {Latest} : allowed}
      /\ Allowed(v) \subseteq DOMAIN asked
  BY AskedGrows DEF Allowed, Of
<1>2. CASE Latest \notin Within(v, t)'
  BY <1>1, <1>2 DEF Within, Granted
<1>3. CASE Latest \in Within(v, t)'
  BY <1>1, <1>3, LimiterAssumption DEF Within, Granted, LimiterTyped
<1>4. QED
  BY <1>2, <1>3

--------------------------------------------------------------------------------
(* The counters of redis *)

(* The life of the counter goes on, or begins.                             *)
LEMMA LifeGoesOn ==
  ASSUME LimiterTyped, limiter = "redis", NEW v \in Users, NEW allowed \in BOOLEAN,
         NEW failed \in BOOLEAN, Asks(v, allowed, failed), Lives(v),
         NEW b, LivesSince(v, b)
  PROVE  LivesSince(v, b)'
<1> DEFINE old == {i \in Allowed(v) : b <= i}
           new == {i \in Allowed(v)' : b <= i}
<1>1. /\ \A i \in Of(v) : asked'[i] = asked[i] /\ i < Latest /\ i \in Nat /\ asked[i].time \in Nat
      /\ asked'[Latest].time = now /\ Latest \in Nat /\ now \in Nat /\ Window \in Nat
      /\ Of(v)' = Of(v) \cup {Latest} /\ Allowed(v)' = Allowed(v) \cup {i \in {Latest} : allowed}
      /\ Allowed(v) \subseteq Of(v)
  BY AskedGrows, AskedTyped, LimiterAssumption DEF Of, Allowed, LimiterTyped
<1>2. b \in Of(v)
  BY DEF LivesSince
<1>3. ASSUME NEW k \in Of(v)', k > b PROVE \E m \in Of(v)' : b <= m /\ Before(k, m)'
  <2>1. CASE k \in Of(v)
    <3>1. PICK m \in Of(v) : b <= m /\ Before(k, m)
      BY <1>3, <2>1 DEF LivesSince
    <3>2. QED
      BY <1>1, <2>1, <3>1 DEF Before
  <2>2. CASE k = Latest
    <3>1. PICK l \in Of(v) : b <= l /\ counter[v].exp = asked[l].time + Window
      BY DEF LivesSince
    <3>2. now <= asked[l].time + Window
      BY <3>1 DEF Lives
    <3>3. QED
      BY <1>1, <2>2, <3>1, <3>2 DEF Before
  <2>3. QED
    BY <1>1, <1>3, <2>1, <2>2
<1>4. Cardinality(new) >= Least(counter'[v].count, Limit)
  <2>1. /\ counter[v].count \in Nat /\ counter'[v].count = counter[v].count + 1 /\ Limit \in Nat
    BY CountedIs, LimiterAssumption DEF LimiterTyped, LimiterTypeOK
  <2>2. Cardinality(old) >= Least(counter[v].count, Limit) /\ IsFiniteSet(old) /\ Cardinality(old) \in Nat
    <3>1. IsFiniteSet(Allowed(v)) /\ old \subseteq Allowed(v)
      BY AskedIsFinite
    <3>2. QED
      BY <3>1, PartsOf DEF LivesSince
  <2>3. CASE allowed
    <3>1. new = old \cup {Latest} /\ Latest \notin old
      BY <1>1, <1>2, <2>3
    <3>2. Cardinality(new) = Cardinality(old) + 1
      BY <2>2, <3>1, OneMore
    <3> HIDE DEF new, old
    <3>3. QED
      BY <2>1, <2>2, <3>2 DEF Least
  <2>4. CASE ~allowed
    <3>1. new = old /\ counter'[v].count > Limit
      BY <1>1, <2>1, <2>4 DEF Asks
    <3> HIDE DEF new, old
    <3>2. QED
      BY <2>1, <2>2, <3>1 DEF Least
  <2>5. QED
    BY <2>3, <2>4
<1>5. \E l \in Of(v)' : b <= l /\ counter'[v].exp = asked'[l].time + Window
  <2>1. b <= Latest /\ counter'[v].exp = now + Window
    BY <1>1, <1>2, CountedIs
  <2>2. QED
    BY <1>1, <2>1
<1>6. QED
  BY <1>1, <1>2, <1>3, <1>4, <1>5 DEF LivesSince

LEMMA LifeBegins ==
  ASSUME LimiterTyped, limiter = "redis", NEW v \in Users, NEW allowed \in BOOLEAN,
         NEW failed \in BOOLEAN, Asks(v, allowed, failed), ~Lives(v),
         NEW b, b = Latest
  PROVE  LivesSince(v, b)'
<1>1. /\ \A i \in Of(v) : i < Latest /\ i \in Nat
      /\ asked'[Latest].time = now /\ Latest \in Nat /\ now \in Nat /\ Window \in Nat
      /\ Of(v)' = Of(v) \cup {Latest} /\ Allowed(v)' = Allowed(v) \cup {i \in {Latest} : allowed}
      /\ Allowed(v) \subseteq Of(v)
      /\ DOMAIN asked' = DOMAIN asked \cup {Latest}
  BY AskedGrows, AskedTyped, LimiterAssumption DEF Of, Allowed, LimiterTyped
<1>2. counter'[v].count = 1 /\ counter'[v].exp = now + Window /\ Limit \in Nat /\ Limit >= 1
  BY CountedIs, LimiterAssumption
<1>3. allowed
  BY <1>2 DEF Asks
<1>4. {i \in Allowed(v)' : Latest <= i} = {Latest}
  BY <1>1, <1>3
<1>5. Cardinality({i \in Allowed(v)' : Latest <= i}) = 1
  BY <1>4, FS_Singleton
<1>6. b \in Of(v)' /\ \A k \in Of(v)' : ~(k > b)
  BY <1>1
<1>7. Cardinality({i \in Allowed(v)' : b <= i}) >= Least(counter'[v].count, Limit)
  BY <1>2, <1>5 DEF Least
<1>8. \E l \in Of(v)' : b <= l /\ counter'[v].exp = asked'[l].time + Window
  BY <1>1, <1>2
<1>9. QED
  BY <1>6, <1>7, <1>8 DEF LivesSince

LEMMA RedisKept ==
  ASSUME LimiterTyped, RedisInv, limiter = "redis", NEW v \in Users, NEW allowed \in BOOLEAN,
         NEW failed \in BOOLEAN, Asks(v, allowed, failed)
  PROVE  RedisInv'
<1>1. /\ now \in Nat /\ Window \in Nat /\ Limit \in Nat \ {0} /\ now' = now /\ limiter' = limiter
      /\ counter[v].count \in Nat /\ counter[v].exp \in Nat /\ counter'[v].count \in Nat
      /\ counter'[v].count = IF Lives(v) THEN counter[v].count + 1 ELSE 1
      /\ counter'[v].exp = now + Window
  BY LimiterAssumption, CountedIs DEF LimiterTyped, LimiterTypeOK, Asks
<1>2. /\ \A i \in Of(v) : asked'[i] = asked[i] /\ asked[i].time \in Nat /\ asked[i].time <= now
      /\ asked'[Latest].time = now /\ Of(v)' = Of(v) \cup {Latest} /\ Latest \notin Of(v)
  BY AskedGrows, AskedTyped DEF Of
<1>3. \E b \in Of(v)' : LivesSince(v, b)'
  <2>1. CASE Lives(v)
    <3>1. PICK b \in Of(v) : LivesSince(v, b)
      BY <1>1, <2>1 DEF RedisInv, Lives
    <3>2. LivesSince(v, b)'
      BY <2>1, <3>1, LifeGoesOn
    <3>3. QED
      BY <1>2, <3>1, <3>2
  <2>2. CASE ~Lives(v)
    BY <1>2, <2>2, LifeBegins
  <2>3. QED
    BY <2>1, <2>2
<1>4. \A i \in Of(v)' : asked'[i].time + Window <= counter'[v].exp
  BY <1>1, <1>2
<1>5. Cardinality(Recent(v)') <= counter'[v].count /\ IsFiniteSet(Recent(v)')
  <2>1. Recent(v)' = Recent(v) \cup {Latest} /\ Latest \notin Recent(v)
    BY <1>1, <1>2 DEF Recent
  <2>2. IsFiniteSet(Recent(v)) /\ Cardinality(Recent(v)) \in Nat
    <3>1. Recent(v) \subseteq Of(v)
      BY DEF Recent
    <3>2. QED
      BY <3>1, AskedIsFinite, PartsOf
  <2>3. IsFiniteSet(Recent(v)') /\ Cardinality(Recent(v)') = Cardinality(Recent(v)) + 1
    BY <2>1, <2>2, OneMore
  <2>4. Cardinality(Recent(v)) + 1 <= counter'[v].count
    <3>1. CASE Lives(v)
      <4>1. Cardinality(Recent(v)) <= counter[v].count
        BY <3>1 DEF RedisInv
      <4>2. QED
        BY <1>1, <2>2, <3>1, <4>1
    <3>2. CASE ~Lives(v)
      <4>1. Recent(v) = {}
        <5>1. CASE counter[v].count = 0
          BY <5>1 DEF LimiterTyped, Recent
        <5>2. CASE now > counter[v].exp
          <6>1. \A i \in Of(v) : asked[i].time + Window <= counter[v].exp
            BY DEF RedisInv
          <6>2. QED
            BY <1>1, <1>2, <5>2, <6>1 DEF Recent
        <5>3. QED
          BY <1>1, <3>2, <5>1, <5>2 DEF Lives
      <4>2. Cardinality(Recent(v)) = 0
        BY <4>1, FS_EmptySet
      <4>3. QED
        BY <1>1, <3>2, <4>2
    <3>3. QED
      BY <3>1, <3>2
  <2>5. QED
    BY <2>3, <2>4
<1>6. ASSUME NEW t \in Nat PROVE Cardinality(Within(v, t)') <= Limit
  <2>1. CASE Within(v, t)' = Within(v, t)
    BY <2>1 DEF RedisInv
  <2>2. CASE allowed /\ ~failed /\ t <= now /\ now <= t + Window
    <3>1. \A i \in Of(v)' : asked'[i].time \in Nat
      BY <1>1, <1>2
    <3>2. Within(v, t)' \subseteq Recent(v)'
      BY <1>1, <2>2, <3>1 DEF Within, Granted, Recent, Allowed
    <3>3. Cardinality(Within(v, t)') \in Nat /\ Cardinality(Within(v, t)') <= Cardinality(Recent(v)')
      BY <1>5, <3>2, PartsOf
    <3>4. Cardinality(Recent(v)') \in Nat
      BY <1>5, FS_CardinalityType
    <3>5. counter'[v].count <= Limit
      BY <2>2 DEF Asks
    <3>6. QED
      BY <1>1, <1>5, <3>3, <3>4, <3>5
  <2>3. QED
    BY <2>1, <2>2, GrowsWithin
<1>7. ASSUME NEW u \in Users, u # v
      PROVE  /\ counter'[u].count > 0 => \E b \in Of(u)' : LivesSince(u, b)'
             /\ Lives(u)' => Cardinality(Recent(u)') <= counter'[u].count
             /\ \A i \in Of(u)' : asked'[i].time + Window <= counter'[u].exp
             /\ \A t \in Nat : Cardinality(Within(u, t)') <= Limit
  <2>1. /\ counter'[u] = counter[u] /\ Of(u)' = Of(u)
        /\ \A i \in Of(u) : asked'[i] = asked[i]
        /\ Lives(u)' = Lives(u) /\ Recent(u)' = Recent(u)
        /\ \A t : Within(u, t)' = Within(u, t)
        /\ \A b : LivesSince(u, b)' = LivesSince(u, b)
    BY <1>7, OthersAsked
  <2>2. QED
    BY <2>1 DEF RedisInv
<1>8. QED
  BY <1>3, <1>4, <1>5, <1>6, <1>7 DEF RedisInv

LEMMA RedisWaits ==
  ASSUME LimiterTyped, RedisInv, UNCHANGED <<limiter, counter, asked>>, now' = now + 1
  PROVE  RedisInv'
<1> SUFFICES ASSUME limiter = "redis" PROVE RedisInv'
  BY DEF RedisInv
<1>1. now \in Nat /\ counter \in [Users -> [count : Nat, exp : Nat]] /\ Window \in Nat
  BY LimiterAssumption DEF LimiterTyped, LimiterTypeOK
<1>2. ASSUME NEW u \in Users, Lives(u)' PROVE Cardinality(Recent(u)') <= counter'[u].count
  <2>1. Lives(u)
    BY <1>1, <1>2 DEF Lives
  <2>2. \A i \in Of(u) : asked[i].time \in Nat
    BY AskedTyped DEF Of
  <2>3. Recent(u)' \subseteq Recent(u) /\ Recent(u) \subseteq Of(u)
    BY <1>1, <2>2 DEF Recent, Of
  <2>4. IsFiniteSet(Recent(u)) /\ Cardinality(Recent(u)) \in Nat
    BY <2>3, AskedIsFinite, PartsOf
  <2>5. Cardinality(Recent(u)') \in Nat /\ Cardinality(Recent(u)') <= Cardinality(Recent(u))
    BY <2>3, <2>4, PartsOf
  <2>6. Cardinality(Recent(u)) <= counter[u].count
    BY <2>1 DEF RedisInv
  <2>7. QED
    BY <1>1, <2>4, <2>5, <2>6
<1>3. ASSUME NEW u \in Users
      PROVE  /\ Of(u)' = Of(u) /\ Allowed(u)' = Allowed(u) /\ \A t : Within(u, t)' = Within(u, t)
             /\ \A b : LivesSince(u, b)' = LivesSince(u, b)
  BY DEF Of, Allowed, Within, Granted, LivesSince, Before
<1>4. QED
  BY <1>2, <1>3 DEF RedisInv

--------------------------------------------------------------------------------
(* The counters of the process *)

(* What the counter of a user says after a request: it counts what was let *)
(* through inside its window, and what came before has left its first one  *)
(* out.                                                                    *)
LEMMA InsideIsCounted ==
  ASSUME LimiterTyped, MemoryInv, limiter = "memory", NEW v \in Users, NEW allowed \in BOOLEAN,
         Asks(v, allowed, FALSE)
  PROVE  /\ Cardinality(Inside(v)') = Least(counter'[v].count, Limit)
         /\ \E i \in Allowed(v)' : counter'[v].exp = asked'[i].time + Window
         /\ counter'[v].exp <= now + Window
<1>1. /\ now \in Nat /\ Window \in Nat /\ Limit \in Nat \ {0} /\ now' = now
      /\ counter[v].count \in Nat /\ counter[v].exp \in Nat
      /\ counter'[v].count = IF Lives(v) THEN counter[v].count + 1 ELSE 1
      /\ counter'[v].exp = IF Lives(v) THEN counter[v].exp ELSE now + Window
      /\ allowed <=> counter'[v].count <= Limit
  BY LimiterAssumption, CountedIs DEF LimiterTyped, LimiterTypeOK, Asks
<1>2. /\ \A i \in Allowed(v) : asked'[i] = asked[i] /\ asked[i].time \in Nat /\ asked[i].time <= now
      /\ asked'[Latest].time = now /\ Latest \notin Allowed(v)
      /\ Allowed(v)' = Allowed(v) \cup {i \in {Latest} : allowed}
  BY AskedGrows, AskedTyped DEF Of, Allowed
<1>3. IsFiniteSet(Inside(v)) /\ Inside(v) \subseteq Allowed(v)
  <2>1. Inside(v) \subseteq Allowed(v)
    BY DEF Inside
  <2>2. QED
    BY <2>1, AskedIsFinite, PartsOf
<1>4. CASE Lives(v)
  <2>1. /\ Cardinality(Inside(v)) = Least(counter[v].count, Limit)
        /\ \E i \in Allowed(v) : counter[v].exp = asked[i].time + Window
    BY <1>4 DEF MemoryInv, Lives
  <2>2. counter[v].exp <= now + Window
    BY <1>1, <1>2, <2>1
  <2>3. Inside(v)' = Inside(v) \cup {i \in {Latest} : allowed}
    BY <1>1, <1>2, <1>4, <2>2 DEF Inside
  <2>4. Cardinality(Inside(v)') = Least(counter'[v].count, Limit)
    <3>1. CASE allowed
      <4>1. Inside(v)' = Inside(v) \cup {Latest} /\ Latest \notin Inside(v)
        BY <1>2, <1>3, <2>3, <3>1
      <4>2. Cardinality(Inside(v)') = Cardinality(Inside(v)) + 1
        BY <1>3, <4>1, OneMore
      <4>3. QED
        BY <1>1, <1>4, <2>1, <3>1, <4>2 DEF Least
    <3>2. CASE ~allowed
      <4>1. Inside(v)' = Inside(v)
        BY <2>3, <3>2
      <4>2. QED
        BY <1>1, <1>4, <2>1, <3>2, <4>1 DEF Least
    <3>3. QED
      BY <3>1, <3>2
  <2>5. QED
    BY <1>1, <1>2, <1>4, <2>1, <2>2, <2>4
<1>5. CASE ~Lives(v)
  <2>1. allowed /\ counter'[v].count = 1 /\ counter'[v].exp = now + Window
    BY <1>1, <1>5
  <2>2. \A i \in Allowed(v) : asked[i].time < now
    <3>1. CASE counter[v].count = 0
      BY <3>1 DEF LimiterTyped, Allowed
    <3>2. CASE counter[v].exp < now
      <4>1. \A i \in Allowed(v) : asked[i].time <= counter[v].exp
        BY DEF LimiterTyped, Allowed
      <4>2. QED
        BY <1>1, <1>2, <3>2, <4>1
    <3>3. QED
      BY <1>1, <1>5, <3>1, <3>2 DEF Lives
  <2>3. Inside(v)' = {Latest}
    BY <1>1, <1>2, <2>1, <2>2 DEF Inside
  <2>4. Cardinality(Inside(v)') = 1
    BY <2>3, FS_Singleton
  <2>5. QED
    BY <1>1, <1>2, <2>1, <2>4 DEF Least
<1>6. QED
  BY <1>4, <1>5

LEMMA EarlierIsLess ==
  ASSUME LimiterTyped, MemoryInv, limiter = "memory", NEW v \in Users, NEW allowed \in BOOLEAN,
         Asks(v, allowed, FALSE), NEW t \in Nat, counter'[v].exp <= t + 2 * Window
  PROVE  Cardinality(Earlier(v, t)') <= Limit - 1
<1>1. /\ now \in Nat /\ Window \in Nat /\ Limit \in Nat \ {0} /\ now' = now
      /\ counter[v].count \in Nat /\ counter[v].exp \in Nat
      /\ counter'[v].exp = IF Lives(v) THEN counter[v].exp ELSE now + Window
  BY LimiterAssumption, CountedIs DEF LimiterTyped, LimiterTypeOK, Asks
<1>2. /\ \A i \in Allowed(v) : asked'[i] = asked[i] /\ asked[i].time \in Nat /\ asked[i].time <= now
      /\ asked'[Latest].time = now /\ Latest \notin Allowed(v)
      /\ Allowed(v)' = Allowed(v) \cup {i \in {Latest} : allowed}
  BY AskedGrows, AskedTyped DEF Of, Allowed
<1>3. CASE Lives(v)
  <2>1. Latest \notin Earlier(v, t)'
    <3>1. counter'[v].exp <= now + Window
      BY InsideIsCounted
    <3>2. ~(asked'[Latest].time + Window < counter'[v].exp)
      BY <1>1, <1>2, <1>3, <3>1
    <3>3. QED
      BY <3>2 DEF Earlier
  <2>2. Earlier(v, t)' = Earlier(v, t)
    BY <1>1, <1>2, <1>3, <2>1 DEF Earlier
  <2>3. Cardinality(Earlier(v, t)) <= Limit - 1
    BY <1>1, <1>3 DEF MemoryInv, Lives
  <2>4. QED
    BY <2>2, <2>3
<1>4. CASE ~Lives(v) /\ counter[v].count = 0
  <2>1. Allowed(v) = {}
    BY <1>4 DEF LimiterTyped, Allowed
  <2>2. Earlier(v, t)' = {}
    BY <1>1, <1>2, <1>4, <2>1 DEF Earlier
  <2>3. QED
    BY <1>1, <2>2, FS_EmptySet
<1>5. CASE ~Lives(v) /\ counter[v].count > 0
  <2>1. counter[v].exp < now /\ now <= t + Window
    BY <1>1, <1>5 DEF Lives
  <2>2. PICK first \in Allowed(v) : counter[v].exp = asked[first].time + Window
    BY <1>5 DEF MemoryInv
  <2>3. asked[first].time < t
    BY <1>1, <1>2, <2>1, <2>2
  <2>4. Earlier(v, t)' \subseteq Inside(v) \ {first}
    BY <1>1, <1>2, <1>5, <2>1, <2>2, <2>3 DEF Earlier, Inside
  <2>5. first \in Inside(v) /\ Inside(v) \subseteq Allowed(v)
    BY <1>1, <2>2 DEF Inside
  <2>6. IsFiniteSet(Inside(v)) /\ Cardinality(Inside(v)) <= Limit /\ Cardinality(Inside(v)) \in Nat
    <3>1. Cardinality(Inside(v)) = Least(counter[v].count, Limit)
      BY <1>5 DEF MemoryInv
    <3>2. QED
      BY <1>1, <2>5, <3>1, AskedIsFinite, PartsOf DEF Least
  <2>7. Cardinality(Inside(v) \ {first}) = Cardinality(Inside(v)) - 1 /\ IsFiniteSet(Inside(v) \ {first})
    BY <2>5, <2>6, FS_RemoveElement
  <2>8. Cardinality(Earlier(v, t)') \in Nat /\ Cardinality(Earlier(v, t)') <= Cardinality(Inside(v) \ {first})
    BY <2>4, <2>7, PartsOf
  <2>9. QED
    BY <1>1, <2>6, <2>7, <2>8
<1>6. QED
  BY <1>1, <1>3, <1>4, <1>5

LEMMA MemoryKept ==
  ASSUME LimiterTyped, MemoryInv, limiter = "memory", NEW v \in Users, NEW allowed \in BOOLEAN,
         Asks(v, allowed, FALSE)
  PROVE  MemoryInv'
<1>1. /\ now \in Nat /\ Window \in Nat /\ Limit \in Nat \ {0} /\ now' = now /\ limiter' = limiter
      /\ counter'[v].exp \in Nat /\ counter'[v].count \in Nat
  BY LimiterAssumption, CountedIs DEF LimiterTyped, LimiterTypeOK, Asks
<1>2. \A i \in DOMAIN asked' : ~asked'[i].failed
  BY AskedGrows DEF MemoryInv
<1>3. ASSUME NEW t \in Nat PROVE Cardinality(Within(v, t)') <= 2 * Limit - 1
  <2>1. CASE Within(v, t)' = Within(v, t)
    BY <2>1 DEF MemoryInv
  <2>2. CASE allowed /\ t <= now /\ now <= t + Window
    <3>1. Cardinality(Earlier(v, t)') <= Limit - 1
      <4>1. counter'[v].exp <= now + Window
        BY InsideIsCounted
      <4>2. counter'[v].exp <= t + 2 * Window
        BY <1>1, <2>2, <4>1
      <4>3. QED
        BY <4>2, EarlierIsLess
    <3>2. Cardinality(Inside(v)') <= Limit
      <4>1. Cardinality(Inside(v)') = Least(counter'[v].count, Limit)
        BY InsideIsCounted
      <4>2. Least(counter'[v].count, Limit) <= Limit
        BY <1>1 DEF Least
      <4>3. QED
        BY <4>1, <4>2
    <3>3. \A i \in Allowed(v)' : asked'[i].time \in Nat
      BY AskedGrows DEF Allowed, Of
    <3>4. Within(v, t)' \subseteq Earlier(v, t)' \cup Inside(v)'
      BY <1>1, <3>3 DEF Within, Granted, Earlier, Inside
    <3>5. /\ IsFiniteSet(Earlier(v, t)') /\ IsFiniteSet(Inside(v)')
          /\ Cardinality(Earlier(v, t)') \in Nat /\ Cardinality(Inside(v)') \in Nat
      <4>1. Earlier(v, t)' \subseteq Allowed(v)' /\ Inside(v)' \subseteq Allowed(v)'
        BY DEF Earlier, Inside
      <4>2. QED
        BY <4>1, AskedStaysFinite, PartsOf
    <3>6. /\ Cardinality(Within(v, t)') \in Nat
          /\ Cardinality(Within(v, t)') <= Cardinality(Earlier(v, t)') + Cardinality(Inside(v)')
      BY <3>4, <3>5, PartsOfBoth
    <3>7. QED
      BY <1>1, <3>1, <3>2, <3>5, <3>6
  <2>3. QED
    BY <2>1, <2>2, GrowsWithin
<1>4. ASSUME NEW u \in Users, u # v
      PROVE  /\ counter'[u].count > 0 =>
                  /\ Cardinality(Inside(u)') = Least(counter'[u].count, Limit)
                  /\ \E i \in Allowed(u)' : counter'[u].exp = asked'[i].time + Window
             /\ \A t \in Nat : counter'[u].exp <= t + 2 * Window => Cardinality(Earlier(u, t)') <= Limit - 1
             /\ \A t \in Nat : Cardinality(Within(u, t)') <= 2 * Limit - 1
  <2>1. /\ counter'[u] = counter[u] /\ Allowed(u)' = Allowed(u) /\ Inside(u)' = Inside(u)
        /\ \A i \in Allowed(u) : asked'[i] = asked[i]
        /\ \A t : Within(u, t)' = Within(u, t) /\ Earlier(u, t)' = Earlier(u, t)
    BY <1>4, OthersAsked DEF Allowed
  <2>2. QED
    BY <2>1 DEF MemoryInv
<1>5. QED
  BY <1>1, <1>2, <1>3, <1>4, InsideIsCounted, EarlierIsLess DEF MemoryInv

--------------------------------------------------------------------------------
(* Refusals, and the limiter as a whole *)

(* User u had used up the limit when request j was refused.                *)
Deserved(u, j) ==
  IF limiter = "memory"
  THEN Cardinality({i \in Allowed(u) : Before(j, i)}) >= Limit
  ELSE \E i \in Of(u) : /\ WithoutPause(u, i, j)
                        /\ Cardinality(Allowed(u) \cap (i .. j - 1)) >= Limit

LEMMA RefusalIsEarned ==
  ASSUME LimiterTyped, RedisInv, MemoryInv, NEW v \in Users, Asks(v, FALSE, FALSE)
  PROVE  \A j \in {Latest} :
           IF limiter = "memory"
           THEN Cardinality({i \in Allowed(v) : asked'[j].time <= asked[i].time + Window}) >= Limit
           ELSE \E b \in Of(v) : /\ LivesSince(v, b) /\ LivesSince(v, b)'
                                 /\ Cardinality({i \in Allowed(v) : b <= i}) >= Limit
<1>1. /\ now \in Nat /\ Window \in Nat /\ Limit \in Nat \ {0}
      /\ counter[v].count \in Nat /\ counter[v].exp \in Nat
      /\ counter'[v].count = IF Lives(v) THEN counter[v].count + 1 ELSE 1
      /\ counter'[v].count > Limit /\ limiter \in {"redis", "memory"} /\ counter'[v].count \in Nat
  <2>1. /\ now \in Nat /\ Window \in Nat /\ Limit \in Nat \ {0} /\ limiter \in {"redis", "memory"}
        /\ counter[v].count \in Nat /\ counter[v].exp \in Nat
    BY LimiterAssumption DEF LimiterTyped, LimiterTypeOK
  <2>2. /\ counter' \in [Users -> [count : Nat, exp : Nat]]
        /\ counter'[v].count = IF Lives(v) THEN counter[v].count + 1 ELSE 1
    BY CountedIs
  <2>3. ~(counter'[v].count <= Limit)
    BY DEF Asks
  <2>4. QED
    BY <2>1, <2>2, <2>3
<1>2. Lives(v) /\ counter[v].count >= Limit /\ counter[v].count > 0
  BY <1>1
<1>3. Least(counter[v].count, Limit) = Limit
  BY <1>1, <1>2 DEF Least
<1>4. CASE limiter = "memory"
  <2>1. Cardinality(Inside(v)) = Limit
    BY <1>2, <1>3, <1>4 DEF MemoryInv
  <2>2. asked'[Latest].time = now /\ \A i \in Allowed(v) : asked[i].time \in Nat
    BY AskedGrows, AskedTyped DEF Allowed, Of
  <2>3. Inside(v) \subseteq {i \in Allowed(v) : asked'[Latest].time <= asked[i].time + Window}
    BY <1>1, <1>2, <2>2 DEF Inside, Lives
  <2>4. IsFiniteSet({i \in Allowed(v) : asked'[Latest].time <= asked[i].time + Window})
    BY AskedIsFinite, PartsOf
  <2>5. Cardinality({i \in Allowed(v) : asked'[Latest].time <= asked[i].time + Window}) >= Limit
    BY <1>1, <2>1, <2>3, <2>4, PartsOf, FS_CardinalityType
  <2>6. QED
    BY <1>4, <2>5
<1>5. CASE limiter = "redis"
  <2>1. PICK b \in Of(v) : LivesSince(v, b)
    BY <1>2, <1>5 DEF RedisInv
  <2>2. LivesSince(v, b)'
    BY <1>2, <1>5, <2>1, LifeGoesOn
  <2>3. Cardinality({i \in Allowed(v) : b <= i}) >= Limit
    BY <1>3, <2>1 DEF LivesSince
  <2>4. QED
    BY <1>5, <2>1, <2>2, <2>3
<1>6. QED
  BY <1>1, <1>4, <1>5

LEMMA RefusalsKept ==
  ASSUME LimiterTyped, RedisInv, MemoryInv, RefusalsAreEarned,
         NEW v \in Users, NEW allowed \in BOOLEAN, NEW failed \in BOOLEAN, Asks(v, allowed, failed)
  PROVE  RefusalsAreEarned'
<1>1. /\ \A u \in Users : Of(u) \subseteq Of(u)' /\ Allowed(u) \subseteq Allowed(u)'
      /\ \A u \in Users : \A i \in Of(u)' : i \in Of(u) \/ i = Latest
      /\ \A u \in Users : \A i \in Allowed(u)' : i \in Allowed(u) \/ i = Latest
      /\ \A u \in Users : Allowed(u) \subseteq Of(u)
      /\ \A u \in Users : \A i \in Of(u) : asked'[i] = asked[i] /\ i < Latest /\ i \in Nat
      /\ Latest \in Nat /\ limiter' = limiter
  <2>1. ASSUME NEW u \in Users
        PROVE  /\ Of(u) \subseteq Of(u)' /\ Allowed(u) \subseteq Allowed(u)'
               /\ \A i \in Of(u)' : i \in Of(u) \/ i = Latest
               /\ \A i \in Allowed(u)' : i \in Allowed(u) \/ i = Latest
    <3>1. CASE u = v
      BY <3>1, AskedGrows
    <3>2. CASE u # v
      BY <3>2, AskedGrows
    <3>3. QED
      BY <3>1, <3>2
  <2>2. \A u \in Users : Allowed(u) \subseteq Of(u) /\ Of(u) \subseteq DOMAIN asked
    BY DEF Of, Allowed
  <2>3. \A i \in DOMAIN asked : asked'[i] = asked[i] /\ i < Latest /\ i \in Nat
    BY AskedGrows, AskedTyped
  <2>4. Latest \in Nat /\ limiter' = limiter
    BY AskedTyped DEF Asks
  <2>5. QED
    BY <2>1, <2>2, <2>3, <2>4
<1>2. ASSUME NEW u \in Users, NEW j \in Of(u) \ Allowed(u)
      PROVE  Deserved(u, j)'
  <2>1. CASE limiter = "memory"
    <3>1. {i \in Allowed(u)' : Before(j, i)'} = {i \in Allowed(u) : Before(j, i)}
      BY <1>1, <1>2 DEF Before
    <3>2. QED
      BY <1>1, <1>2, <2>1, <3>1 DEF RefusalsAreEarned, Deserved
  <2>2. CASE limiter # "memory"
    <3>1. PICK i \in Of(u) : /\ WithoutPause(u, i, j)
                             /\ Cardinality(Allowed(u) \cap (i .. j - 1)) >= Limit
      BY <1>2, <2>2 DEF RefusalsAreEarned
    <3>2. Allowed(u)' \cap (i .. j - 1) = Allowed(u) \cap (i .. j - 1)
      BY <1>1, <1>2, <3>1
    <3>3. ASSUME NEW k \in Of(u)' \cap (i + 1 .. j)
          PROVE  \E m \in Of(u)' \cap (i .. k - 1) : Before(k, m)'
      <4>1. k \in Of(u) \cap (i + 1 .. j)
        BY <1>1, <1>2, <3>1, <3>3
      <4>2. PICK m \in Of(u) \cap (i .. k - 1) : Before(k, m)
        BY <3>1, <4>1 DEF WithoutPause
      <4>3. QED
        BY <1>1, <4>1, <4>2 DEF Before
    <3>4. WithoutPause(u, i, j)'
      BY <3>3 DEF WithoutPause
    <3>5. QED
      BY <1>1, <2>2, <3>1, <3>2, <3>4 DEF Deserved
  <2>3. QED
    BY <2>1, <2>2
<1>3. ASSUME NEW u \in Users, NEW j \in Of(u)' \ Allowed(u)', j = Latest
      PROVE  Deserved(u, j)'
  <2>1. u = v /\ ~allowed /\ ~failed
    BY <1>1, <1>3, AskedGrows, AskedTyped DEF Of, Allowed, Asks
  <2>2. Asks(v, FALSE, FALSE) /\ Allowed(v)' = Allowed(v)
    <3>1. allowed = FALSE /\ failed = FALSE
      BY <2>1
    <3>2. QED
      BY <3>1, AskedGrows
  <2>3. CASE limiter = "memory"
    <3>1. {i \in Allowed(v)' : Before(j, i)'}
            = {i \in Allowed(v) : asked'[j].time <= asked[i].time + Window}
      BY <1>1, <1>3, <2>2 DEF Before
    <3>2. Cardinality({i \in Allowed(v) : asked'[j].time <= asked[i].time + Window}) >= Limit
      BY <1>3, <2>2, <2>3, RefusalIsEarned
    <3>3. QED
      BY <1>1, <2>1, <2>3, <3>1, <3>2 DEF Deserved
  <2>4. CASE limiter # "memory"
    <3>1. PICK b \in Of(v) : /\ LivesSince(v, b)'
                             /\ Cardinality({i \in Allowed(v) : b <= i}) >= Limit
      BY <2>2, <2>4, RefusalIsEarned
    <3>2. Allowed(v)' \cap (b .. j - 1) = {i \in Allowed(v) : b <= i}
      BY <1>1, <1>3, <2>2, <3>1
    <3>3. ASSUME NEW k \in Of(v)' \cap (b + 1 .. j)
          PROVE  \E m \in Of(v)' \cap (b .. k - 1) : Before(k, m)'
      <4>1. k > b /\ k \in Of(v)' /\ k \in Nat /\ b \in Nat
        BY <1>1, <1>3, <3>1, <3>3
      <4>2. PICK m \in Of(v)' : b <= m /\ Before(k, m)'
        BY <3>1, <4>1 DEF LivesSince
      <4>3. m < k /\ m \in Nat
        BY <1>1, <4>2 DEF Before
      <4>4. QED
        BY <4>1, <4>2, <4>3
    <3>4. WithoutPause(v, b, j)'
      BY <3>3 DEF WithoutPause
    <3>5. QED
      BY <1>1, <2>1, <2>4, <3>1, <3>2, <3>4 DEF Deserved
  <2>5. QED
    BY <2>3, <2>4
<1>4. ASSUME NEW u \in Users, NEW j \in Of(u)' \ Allowed(u)'
      PROVE  j \in Of(u) \ Allowed(u) \/ j = Latest
  BY <1>1, <1>4
<1>5. \A u \in Users : \A j \in Of(u)' \ Allowed(u)' : Deserved(u, j)'
  BY <1>2, <1>3, <1>4
<1>6. QED
  BY <1>5 DEF RefusalsAreEarned, Deserved

(* What a limiter counts, and to whom it answers no, when time passes.     *)
LEMMA LimiterWaits ==
  ASSUME LimiterInv, UNCHANGED limiterOnly, now' = now \/ now' = now + 1
  PROVE  LimiterInv'
<1>1. UNCHANGED <<limiter, counter, asked>>
  BY DEF limiterOnly
<1>2. now \in Nat /\ \A i \in DOMAIN asked : asked[i].time \in Nat /\ asked[i].time <= now
  BY AskedTyped DEF LimiterInv, LimiterTyped
<1>3. LimiterTyped'
  BY <1>1, <1>2 DEF LimiterInv, LimiterTyped, LimiterTypeOK, Of
<1>4. MemoryInv'
  BY <1>1 DEF LimiterInv, MemoryInv, Inside, Earlier, Within, Granted, Allowed, Of
<1>5. RefusalsAreEarned'
  <2>1. \A u : Of(u)' = Of(u) /\ Allowed(u)' = Allowed(u)
    BY <1>1 DEF Of, Allowed
  <2>2. \A i, j : Before(j, i)' = Before(j, i)
    BY <1>1 DEF Before
  <2>3. \A u, i, j : WithoutPause(u, i, j)' = WithoutPause(u, i, j)
    BY <2>1, <2>2 DEF WithoutPause
  <2>4. RefusalsAreEarned
    BY DEF LimiterInv
  <2>5. QED
    BY <1>1, <2>1, <2>2, <2>3, <2>4 DEF RefusalsAreEarned
<1>6. RedisInv'
  <2>1. CASE now' = now + 1
    BY <1>1, <2>1, RedisWaits DEF LimiterInv
  <2>2. CASE now' = now
    BY <1>1, <2>2 DEF LimiterInv, RedisInv, LivesSince, Before, Lives, Recent, Within, Granted, Allowed, Of
  <2>3. QED
    BY <2>1, <2>2
<1>7. QED
  BY <1>3, <1>4, <1>5, <1>6 DEF LimiterInv

LEMMA LimiterAsks ==
  ASSUME LimiterInv, NEW v \in Users, NEW allowed \in BOOLEAN, NEW failed \in BOOLEAN,
         Asks(v, allowed, failed)
  PROVE  LimiterInv'
<1>1. LimiterTyped' /\ RefusalsAreEarned' /\ limiter' = limiter /\ limiter \in {"redis", "memory"}
  BY AsksTyped, RefusalsKept DEF LimiterInv, LimiterTyped, LimiterTypeOK, Asks
<1>2. CASE limiter = "redis"
  BY <1>1, <1>2, RedisKept DEF LimiterInv, MemoryInv
<1>3. CASE limiter = "memory"
  <2>1. failed = FALSE
    BY <1>3 DEF Asks
  <2>2. MemoryInv'
    BY <1>3, <2>1, MemoryKept DEF LimiterInv
  <2>3. QED
    BY <1>1, <1>3, <2>2 DEF LimiterInv, RedisInv
<1>4. QED
  BY <1>1, <1>2, <1>3

(* With nothing asked yet, nothing is counted.                             *)
LEMMA NothingAsked ==
  ASSUME now \in Nat, limiter \in {"redis", "memory"},
         counter = [u \in Users |-> NoCounter], asked = <<>>
  PROVE  LimiterInv
<1>1. Limit \in Nat \ {0} /\ Window \in Nat
  BY LimiterAssumption
<1>2. \A u : Of(u) = {} /\ Allowed(u) = {} /\ Recent(u) = {} /\ Inside(u) = {}
  BY DEF Of, Allowed, Recent, Inside
<1>3. \A u, t : Within(u, t) = {} /\ Earlier(u, t) = {}
  BY <1>2 DEF Within, Granted, Earlier
<1>4. Cardinality({}) = 0
  BY FS_EmptySet
<1>5. counter \in [Users -> [count : Nat, exp : Nat]] /\ \A u \in Users : counter[u].count = 0
  BY DEF NoCounter
<1>6. LimiterTyped
  BY <1>2, <1>5 DEF LimiterTyped, LimiterTypeOK
<1>7. RedisInv
  <2>1. \A u, t : Cardinality(Within(u, t)) <= Limit
    BY <1>1, <1>3, <1>4
  <2>2. \A u \in Users : ~Lives(u) /\ ~(counter[u].count > 0)
    BY <1>5 DEF Lives
  <2>3. QED
    BY <1>2, <2>1, <2>2 DEF RedisInv
<1>8. MemoryInv
  <2>1. \A u, t : Cardinality(Within(u, t)) <= 2 * Limit - 1 /\ Cardinality(Earlier(u, t)) <= Limit - 1
    <3>1. \A u, t : Cardinality(Within(u, t)) = 0 /\ Cardinality(Earlier(u, t)) = 0
      BY <1>3, <1>4
    <3>2. 0 <= 2 * Limit - 1 /\ 0 <= Limit - 1
      BY <1>1
    <3>3. QED
      BY <3>1, <3>2
  <2>2. \A u \in Users : ~(counter[u].count > 0)
    BY <1>5
  <2>3. asked = <<>>
    OBVIOUS
  <2>4. QED
    BY <2>1, <2>2, <2>3 DEF MemoryInv
<1>9. RefusalsAreEarned
  BY <1>2 DEF RefusalsAreEarned
<1>10. QED
  BY <1>6, <1>7, <1>8, <1>9 DEF LimiterInv

LEMMA CountersAreLost ==
  ASSUME LimiterInv, LoseCounters
  PROVE  LimiterInv'
<1>1. Limit \in Nat \ {0} /\ Window \in Nat /\ now' \in Nat /\ limiter' \in {"redis", "memory"}
  BY LimiterAssumption DEF LoseCounters, LimiterInv, LimiterTyped, LimiterTypeOK
<1>2. counter' = [u \in Users |-> NoCounter] /\ asked' = <<>>
  BY DEF LoseCounters
<1>3. \A u : Of(u)' = {} /\ Allowed(u)' = {} /\ Inside(u)' = {} /\ Recent(u)' = {}
  BY <1>2 DEF Of, Allowed, Inside, Recent
<1>4. \A u, t : Within(u, t)' = {} /\ Earlier(u, t)' = {}
  BY <1>3 DEF Within, Granted, Earlier
<1>5. Cardinality({}) = 0
  BY FS_EmptySet
<1>6. counter' \in [Users -> [count : Nat, exp : Nat]] /\ \A u \in Users : counter'[u].count = 0
  BY <1>2 DEF NoCounter
<1>7. LimiterTyped'
  BY <1>1, <1>2, <1>3, <1>6 DEF LimiterTyped, LimiterTypeOK
<1>8. MemoryInv'
  <2>1. \A u, t : Cardinality(Within(u, t)') <= 2 * Limit - 1 /\ Cardinality(Earlier(u, t)') <= Limit - 1
    <3>1. \A u, t : Cardinality(Within(u, t)') = 0 /\ Cardinality(Earlier(u, t)') = 0
      BY <1>4, <1>5
    <3>2. 0 <= 2 * Limit - 1 /\ 0 <= Limit - 1
      BY <1>1
    <3>3. QED
      BY <3>1, <3>2
  <2>2. \A u \in Users : ~(counter'[u].count > 0)
    BY <1>6
  <2>3. QED
    BY <1>2, <2>1, <2>2 DEF MemoryInv
<1>9. RedisInv'
  <2>1. \A u, t : Cardinality(Within(u, t)') <= Limit
    BY <1>1, <1>4, <1>5
  <2>2. \A u \in Users : ~Lives(u)' /\ ~(counter'[u].count > 0)
    BY <1>6 DEF Lives
  <2>3. QED
    BY <1>3, <2>1, <2>2 DEF RedisInv
<1>10. RefusalsAreEarned'
  BY <1>3 DEF RefusalsAreEarned
<1>11. QED
  BY <1>7, <1>8, <1>9, <1>10 DEF LimiterInv

(* A stream is not counted, and nothing that was counted changes.          *)
LEMMA StreamsAreFree ==
  ASSUME LimiterInv, NEW v \in Users, ChatStream(v)
  PROVE  LimiterInv'
<1> DEFINE e == [user |-> v, time |-> now, allowed |-> TRUE, failed |-> FALSE, streamed |-> TRUE]
<1>1. /\ asked \in Seq(Chats) /\ e \in Chats /\ asked' = Append(asked, e)
      /\ UNCHANGED <<now, limiter, counter>> /\ now \in Nat
  BY DEF LimiterInv, LimiterTyped, LimiterTypeOK, ChatStream, Asked, Chats
<1>2. /\ asked' \in Seq(Chats) /\ Len(asked') = Len(asked) + 1
      /\ \A i \in 1 .. Len(asked) : asked'[i] = asked[i]
      /\ asked'[Len(asked) + 1] = e
  BY <1>1, AppendProperties
<1>3. /\ DOMAIN asked' = DOMAIN asked \cup {Latest} /\ Latest \notin DOMAIN asked
      /\ \A i \in DOMAIN asked : asked'[i] = asked[i]
      /\ asked'[Latest] = e
  BY <1>1, <1>2, LenProperties DEF Latest
<1>4. e.streamed /\ ~e.failed /\ e.time = now
  OBVIOUS
<1> HIDE DEF e
<1>5. \A u : Of(u)' = Of(u) /\ Allowed(u)' = Allowed(u) /\ Of(u) \subseteq DOMAIN asked
             /\ Allowed(u) \subseteq Of(u)
  BY <1>3, <1>4 DEF Of, Allowed
<1>6. /\ \A u : Inside(u)' = Inside(u) /\ Recent(u)' = Recent(u) /\ Lives(u)' = Lives(u)
      /\ \A u, t : Within(u, t)' = Within(u, t) /\ Earlier(u, t)' = Earlier(u, t)
      /\ \A u : \A i, j \in Of(u) : Before(j, i)' = Before(j, i)
  <2>1. \A u : Inside(u)' = Inside(u) /\ Recent(u)' = Recent(u) /\ Lives(u)' = Lives(u)
    BY <1>1, <1>3, <1>5 DEF Inside, Recent, Lives
  <2>2. \A u, t : Within(u, t)' = Within(u, t) /\ Earlier(u, t)' = Earlier(u, t)
    BY <1>1, <1>3, <1>5 DEF Within, Granted, Earlier
  <2>3. \A u : \A i, j \in Of(u) : Before(j, i)' = Before(j, i)
    BY <1>3, <1>5 DEF Before
  <2>4. QED
    BY <2>1, <2>2, <2>3
<1>7. LimiterTyped'
  <2>1. LimiterTypeOK'
    BY <1>1, <1>2 DEF LimiterInv, LimiterTyped, LimiterTypeOK, Chats
  <2>2. \A i \in DOMAIN asked' : asked'[i].time <= now'
    BY <1>1, <1>3, <1>4 DEF LimiterInv, LimiterTyped
  <2>3. ASSUME NEW u \in Users
        PROVE  /\ counter'[u].count = 0 => Of(u)' = {}
               /\ \A i \in Of(u)' : asked'[i].time <= counter'[u].exp
    BY <1>1, <1>3, <1>5 DEF LimiterInv, LimiterTyped
  <2>4. QED
    BY <1>1, <2>1, <2>2, <2>3 DEF LimiterTyped
<1>8. MemoryInv'
  <2>1. limiter = "memory" => \A i \in DOMAIN asked' : ~asked'[i].failed
    BY <1>3, <1>4 DEF LimiterInv, MemoryInv
  <2>2. \A u : \A i \in Allowed(u) : asked'[i] = asked[i]
    BY <1>3, <1>5
  <2>3. QED
    BY <1>1, <1>5, <1>6, <2>1, <2>2 DEF LimiterInv, MemoryInv
<1>9. RedisInv'
  <2>1. \A u : \A i \in Of(u) : asked'[i] = asked[i]
    BY <1>3, <1>5
  <2>2. ASSUME NEW u, NEW b PROVE LivesSince(u, b)' = LivesSince(u, b)
    <3>1. /\ Of(u)' = Of(u) /\ Allowed(u)' = Allowed(u) /\ counter' = counter
          /\ \A i \in Of(u) : asked'[i] = asked[i]
          /\ \A k, m \in Of(u) : Before(k, m)' = Before(k, m)
      BY <1>1, <1>5, <1>6, <2>1
    <3>2. QED
      BY <3>1 DEF LivesSince
  <2>3. QED
    BY <1>1, <1>5, <1>6, <2>1, <2>2 DEF LimiterInv, RedisInv
<1>10. RefusalsAreEarned'
  <2>1. ASSUME NEW u \in Users, NEW j \in Of(u) \ Allowed(u)
        PROVE  Deserved(u, j)'
    <3>1. CASE limiter = "memory"
      <4>1. {i \in Allowed(u)' : Before(j, i)'} = {i \in Allowed(u) : Before(j, i)}
        BY <1>5, <1>6
      <4>2. QED
        BY <1>1, <3>1, <4>1 DEF LimiterInv, RefusalsAreEarned, Deserved
    <3>2. CASE limiter # "memory"
      <4>1. PICK i \in Of(u) : /\ WithoutPause(u, i, j)
                               /\ Cardinality(Allowed(u) \cap (i .. j - 1)) >= Limit
        BY <3>2 DEF LimiterInv, RefusalsAreEarned
      <4>2. WithoutPause(u, i, j)'
        BY <1>5, <1>6, <4>1 DEF WithoutPause
      <4>3. QED
        BY <1>1, <1>5, <3>2, <4>1, <4>2 DEF Deserved
    <3>3. QED
      BY <3>1, <3>2
  <2>2. QED
    BY <1>5, <2>1 DEF RefusalsAreEarned, Deserved
<1>11. QED
  BY <1>7, <1>8, <1>9, <1>10 DEF LimiterInv

(* What a counter knows of the requests it counted holds in every state,   *)
(* whatever fails, restarts or waits: LimiterInv is an invariant.          *)
THEOREM LimiterInvariant == PreparationSpec => []LimiterInv
<1>1. PreparationInit => LimiterInv
  BY NothingAsked DEF PreparationInit, LimiterInit
<1>2. ASSUME LimiterInv, [PreparationNext]_preparationVars PROVE LimiterInv'
  <2>1. CASE CheckRate
    <3>1. ASSUME NEW u \in Users, NEW allowed \in BOOLEAN, AllowRate(u, allowed) PROVE LimiterInv'
      <4>1. Asks(u, allowed, FALSE)
        BY <3>1 DEF AllowRate, Asked, Asks
      <4>2. QED
        BY <1>2, <4>1, LimiterAsks
    <3>2. ASSUME NEW u \in Users, RateFails(u) PROVE LimiterInv'
      <4>1. CASE UNCHANGED <<counter, asked>>
        BY <1>2, <3>2, <4>1, LimiterWaits DEF RateFails, limiterOnly
      <4>2. CASE Asks(u, TRUE, TRUE)
        BY <1>2, <4>2, LimiterAsks
      <4>3. QED
        BY <3>2, <4>1, <4>2 DEF RateFails, Asked, Asks
    <3>3. CASE LimiterTick
      BY <1>2, <3>3, LimiterWaits DEF LimiterTick, Tick, limiterOnly
    <3>4. QED
      BY <1>2, <2>1, <3>1, <3>2, <3>3, StreamsAreFree, CountersAreLost DEF CheckRate, LimiterNext
  <2>2. CASE RecognizeIntent
    <3>1. UNCHANGED limiterOnly
      BY <2>2 DEF RecognizeIntent
    <3>2. now' = now \/ now' = now + 1
      BY <2>2 DEF RecognizeIntent, RecognitionNext, RecognitionTick, Tick, Recognize,
        Begin, Hit, Miss, Classify, AskModel, Says, Answered, Update, PutCache, RecognitionRestarts
    <3>3. QED
      BY <1>2, <3>1, <3>2, LimiterWaits
  <2>3. CASE KeepHistory \/ MakePrompt \/ UNCHANGED preparationVars
    <3>1. UNCHANGED limiterOnly /\ now' = now
      BY <2>3 DEF KeepHistory, MakePrompt, preparationVars
    <3>2. QED
      BY <1>2, <3>1, LimiterWaits
  <2>4. QED
    BY <1>2, <2>1, <2>2, <2>3 DEF PreparationNext
<1>3. QED
  BY <1>1, <1>2, PTL DEF PreparationSpec

(* Since the counters were last lost, Chat lets no user through more often *)
(* than the limit in any window with redis, or than twice the limit less   *)
(* one with the process, and whom it refuses has used up the limit before, *)
(* without a pause; however many streams, that nobody counts, come between *)
(* (Chat, ChatStream and AllowRate).                                       *)
THEOREM LimitAlwaysKept == PreparationSpec => []LimitIsKept
<1>1. LimiterInv => LimitIsKept
  <2> SUFFICES ASSUME LimiterInv PROVE LimitIsKept
    OBVIOUS
  <2>1. LimiterTypeOK /\ RefusalsAreEarned
    BY DEF LimiterInv, LimiterTyped
  <2>2. AdmissionsAreBounded
    <3>1. ASSUME NEW u \in Users, NEW i \in Allowed(u)
          PROVE  Cardinality(Within(u, asked[i].time)) <= IF limiter = "redis" THEN Limit ELSE 2 * Limit - 1
      <4>1. asked[i].time \in Nat
        BY AskedTyped DEF LimiterInv, Allowed, Of
      <4>2. limiter \in {"redis", "memory"}
        BY DEF LimiterInv, LimiterTyped, LimiterTypeOK
      <4>3. QED
        BY <4>1, <4>2 DEF LimiterInv, RedisInv, MemoryInv
    <3>2. ASSUME NEW u \in Users, NEW i \in Allowed(u)
          PROVE  Within(u, asked[i].time) =
                   {j \in Allowed(u) : /\ asked[j].time \in asked[i].time .. asked[i].time + Window
                                       /\ ~asked[j].failed}
      BY DEF Within, Granted
    <3>3. QED
      BY <3>1, <3>2 DEF AdmissionsAreBounded
  <2>3. QED
    BY <2>1, <2>2 DEF LimitIsKept
<1>2. QED
  BY <1>1, LimiterInvariant, PTL

--------------------------------------------------------------------------------
(* Notes and prompts *)

Milestones == [run : NoteRuns \cup {Nobody}, start : BOOLEAN]

Corrections == [user : Range(Owner), run : NoteRuns]

Prompts ==
  [task : NoteRuns \cup {Nobody}, results : Seq(NoteRuns), memories : SUBSET Corrections,
   milestones : Seq(Milestones)]

Steps ==
  [place : 1 .. 13, does : {"note", "save", "remember", "set", "provide", "push"},
   kind : {"plan", "input", "correction", "start", "task", "results", "memories", "milestones",
           "resumed", "called", "result", "end"}]

RunStates ==
  [session : NoteSessions \cup {Nobody}, todo : SUBSET Steps, over : BOOLEAN, shown : Prompts,
   since : Nat]

PromptTyped ==
  /\ storage \in {"mysql", "memory"}
  /\ milestones \in [NoteSessions -> Seq(Milestones)]
  /\ \A s \in NoteSessions : Len(milestones[s]) <= MaxMilestones
  /\ stored \in [NoteSessions -> BOOLEAN]
  /\ memories \in Seq(Corrections)
  /\ tasks \in [NoteSessions -> NoteRuns \cup {Nobody}]
  /\ toolResults \in [NoteSessions -> Seq(NoteRuns)]
  /\ \A s \in NoteSessions : Len(toolResults[s]) <= MaxKeep
  /\ runs \in [NoteRuns -> RunStates]
  /\ calls \in 0 .. MaxCalls

(* The steps before a prompt that every run takes, and those whose place   *)
(* in it the proof speaks of.                                              *)
Start == Step(6, "note", "start")
TaskSet == Step(8, "set", "task")
TaskShown == Step(9, "provide", "task")
MemoriesShown == Step(11, "provide", "memories")
MilestonesShown == Step(12, "provide", "milestones")

Always ==
  Noting(6, "start")
    \cup {TaskSet, TaskShown, Step(10, "provide", "results"), MemoriesShown, MilestonesShown}

BeforePrompt == Planning \cup Preparing("input") \cup Preparing("correction") \cup Resuming

(* A run is before its first round, and what it has done of its steps are  *)
(* the first ones; or it is between its rounds or ends.                    *)
InOrder(q) ==
  \/ /\ q.todo \subseteq BeforePrompt
     /\ \A x \in q.todo, y \in Always : x.place < y.place => y \in q.todo
  \/ q.todo \subseteq Calling \cup Ending

(* The note of the run's start is the last it wrote, or it has been pushed *)
(* out by others.                                                          *)
Stands(ms, r) ==
  \/ \E i \in DOMAIN ms : /\ ms[i] = [run |-> r, start |-> TRUE]
                          /\ \A j \in DOMAIN ms : j > i => ms[j].run # r
  \/ Len(ms) = MaxMilestones /\ \A i \in DOMAIN ms : ms[i].run # r

StartStands(r) == Stands(milestones[Session(r)], r)

Prepares(r, x) == x \in runs[r].todo

(* What is right of a run from each of its steps on: of its steps, of what *)
(* the providers will find, and of what they have shown.                   *)
StepsInOrder(r) ==
  /\ Session(r) = Nobody => runs[r] = NoRun
  /\ runs[r].since <= Len(memories)
  /\ InOrder(runs[r])
  /\ Prompted(r) => \A x \in runs[r].todo : x.does # "provide"

Past(r, x, y) == ~Prepares(r, x) /\ Prepares(r, y)

StartIsThere(r) == Past(r, Start, MilestonesShown) => StartStands(r)
TaskIsThere(r) ==
  Past(r, TaskSet, TaskShown) => tasks[Session(r)] = r \/ {r, tasks[Session(r)]} \in met

StartIsTold(r) == Prompted(r) => OwnStartIsShown(r)
TaskIsTold(r) == Past(r, TaskShown, MilestonesShown) \/ Prompted(r) => OwnTaskIsShown(r)
CorrectionsAreTold(r) ==
  Past(r, MemoriesShown, MilestonesShown) \/ Prompted(r) => CorrectionsAreShown(r)

Prepared(r) ==
  /\ StepsInOrder(r)
  /\ StartIsThere(r) /\ TaskIsThere(r)
  /\ StartIsTold(r) /\ TaskIsTold(r) /\ CorrectionsAreTold(r)

HaveMet ==
  \A r, q \in NoteRuns :
    r # q /\ Session(r) = Session(q) /\ Prepares(r, TaskShown) /\ Prepares(q, TaskShown) =>
      {r, q} \in met

PromptInv == PromptTyped /\ HaveMet /\ \A r \in NoteRuns : Prepared(r)

--------------------------------------------------------------------------------
(* The end of a list *)

LEMMA LimitsOfPrompts ==
  /\ MaxMilestones \in Nat \ {0} /\ MaxShown \in Nat \ {0} /\ MaxMemories \in Nat \ {0}
  /\ MaxKeep \in Nat \ {0} /\ MaxShown <= MaxMilestones /\ MaxCalls \in Nat
  /\ Nobody \notin NoteSessions /\ Nobody \notin NoteRuns
BY PromptAssumption

LEMMA LastOfIs ==
  ASSUME NEW S, NEW seq \in Seq(S), NEW n \in Nat \ {0}
  PROVE  LET last == LastOf(seq, n)
         IN  /\ last \in Seq(S)
             /\ Len(last) = IF Len(seq) > n THEN n ELSE Len(seq)
             /\ \A i \in 1 .. Len(last) : last[i] = seq[i + (Len(seq) - Len(last))]
<1> DEFINE m == IF Len(seq) > n THEN Len(seq) - n + 1 ELSE 1
           last == SubSeq(seq, m, Len(seq))
           size == IF Len(seq) > n THEN n ELSE Len(seq)
<1>1. Len(seq) \in Nat /\ \A i \in 1 .. Len(seq) : seq[i] \in S
  BY LenProperties, ElementOfSeq
<1>2. /\ m \in Int /\ 1 <= m /\ m <= Len(seq) + 1 /\ Len(seq) - m + 1 = size
      /\ size \in Nat /\ m - 1 = Len(seq) - size
  BY <1>1
<1>3. LastOf(seq, n) = last
  BY DEF LastOf
<1> HIDE DEF m, size
<1>4. \A i \in m .. Len(seq) : seq[i] \in S
  BY <1>1, <1>2
<1>5. /\ last \in Seq(S)
      /\ Len(last) = IF m <= Len(seq) THEN Len(seq) - m + 1 ELSE 0
      /\ \A i \in 1 .. Len(seq) - m + 1 : last[i] = seq[m + i - 1]
  BY <1>1, <1>2, <1>4, SubSeqProperties
<1> HIDE DEF last
<1>6. Len(last) = size
  BY <1>1, <1>2, <1>5
<1>7. ASSUME NEW i \in 1 .. Len(last)
      PROVE  last[i] = seq[i + (Len(seq) - Len(last))]
  <2>1. last[i] = seq[m + i - 1]
    BY <1>2, <1>5, <1>6
  <2>2. m + i - 1 = i + (Len(seq) - Len(last))
    BY <1>1, <1>2, <1>6
  <2>3. QED
    BY <2>1, <2>2
<1>8. QED
  BY <1>3, <1>5, <1>6, <1>7 DEF size

(* A note comes to the end of the list, and of a full list the first goes. *)
LEMMA Noted ==
  ASSUME NEW ms \in Seq(Milestones), Len(ms) <= MaxMilestones, NEW new \in Milestones
  PROVE  LET c == Capped(Append(ms, new))
             gone == IF Len(ms) = MaxMilestones THEN 1 ELSE 0
         IN  /\ c \in Seq(Milestones) /\ Len(c) = Len(ms) + 1 - gone
             /\ Len(c) \in 1 .. MaxMilestones /\ c[Len(c)] = new /\ Len(ms) \in Nat
             /\ \A i \in 1 .. Len(c) - 1 : c[i] = ms[i + gone]
<1> DEFINE long == Append(ms, new)
           c == Capped(long)
           gone == IF Len(ms) = MaxMilestones THEN 1 ELSE 0
<1>1. /\ long \in Seq(Milestones) /\ Len(long) = Len(ms) + 1 /\ Len(ms) \in Nat
      /\ \A i \in 1 .. Len(ms) : long[i] = ms[i]
      /\ long[Len(ms) + 1] = new
  BY AppendProperties, LenProperties
<1> HIDE DEF long
<1>2. /\ c \in Seq(Milestones)
      /\ Len(c) = IF Len(long) > MaxMilestones THEN MaxMilestones ELSE Len(long)
      /\ \A i \in 1 .. Len(c) : c[i] = long[i + (Len(long) - Len(c))]
  BY <1>1, LimitsOfPrompts, LastOfIs DEF Capped
<1> HIDE DEF c
<1>3. Len(c) = Len(ms) + 1 - gone /\ Len(c) \in 1 .. MaxMilestones /\ Len(long) - Len(c) = gone
  <2>1. Len(ms) \in Nat /\ MaxMilestones \in Nat /\ MaxMilestones >= 1 /\ Len(ms) <= MaxMilestones
    BY <1>1, LimitsOfPrompts
  <2>2. CASE Len(ms) = MaxMilestones
    <3>1. Len(c) = MaxMilestones /\ Len(long) = MaxMilestones + 1 /\ gone = 1
      BY <1>1, <1>2, <2>1, <2>2
    <3>2. QED
      BY <2>1, <2>2, <3>1
  <2>3. CASE Len(ms) # MaxMilestones
    <3>1. Len(c) = Len(ms) + 1 /\ Len(long) = Len(ms) + 1 /\ gone = 0
      BY <1>1, <1>2, <2>1, <2>3
    <3>2. QED
      BY <2>1, <2>3, <3>1
  <2>4. QED
    BY <2>2, <2>3
<1>4. gone \in {0, 1}
  OBVIOUS
<1> HIDE DEF gone
<1>5. c[Len(c)] = new
  <2>1. Len(c) \in 1 .. Len(c) /\ Len(c) + gone = Len(ms) + 1
    BY <1>1, <1>3, <1>4
  <2>2. c[Len(c)] = long[Len(c) + (Len(long) - Len(c))]
    BY <1>2, <2>1
  <2>3. QED
    BY <1>1, <1>3, <2>1, <2>2
<1>6. ASSUME NEW i \in 1 .. Len(c) - 1 PROVE c[i] = ms[i + gone]
  <2>1. i \in 1 .. Len(c) /\ i + gone \in 1 .. Len(ms)
    BY <1>1, <1>3, <1>4
  <2>2. c[i] = long[i + gone]
    BY <1>2, <1>3, <2>1
  <2>3. QED
    BY <1>1, <2>1, <2>2
<1>7. QED
  BY <1>1, <1>2, <1>3, <1>5, <1>6 DEF long, c, gone

(* The prompt shows the note of the run's start, if that stands.           *)
LEMMA StartIsShown ==
  ASSUME PromptTyped, NEW r \in NoteRuns, Session(r) \in NoteSessions, StartStands(r)
  PROVE  LET shown == LastOf(milestones[Session(r)], MaxShown)
         IN  \/ [run |-> r, start |-> TRUE] \in ToSet(shown)
             \/ Len(shown) = MaxShown /\ \A i \in DOMAIN shown : shown[i].run # r
<1> DEFINE ms == milestones[Session(r)]
           shown == LastOf(ms, MaxShown)
<1>1. ms \in Seq(Milestones) /\ Len(ms) \in Nat /\ DOMAIN ms = 1 .. Len(ms)
  <2>1. ms \in Seq(Milestones)
    BY DEF PromptTyped
  <2> HIDE DEF ms
  <2>2. QED
    BY <2>1, LenProperties
<1>2. \/ \E i \in DOMAIN ms : /\ ms[i] = [run |-> r, start |-> TRUE]
                             /\ \A j \in DOMAIN ms : j > i => ms[j].run # r
      \/ Len(ms) = MaxMilestones /\ \A i \in DOMAIN ms : ms[i].run # r
  BY DEF StartStands, Stands
<1> HIDE DEF ms
<1>3. /\ shown \in Seq(Milestones)
      /\ Len(shown) = IF Len(ms) > MaxShown THEN MaxShown ELSE Len(ms)
      /\ \A i \in 1 .. Len(shown) : shown[i] = ms[i + (Len(ms) - Len(shown))]
  BY <1>1, LimitsOfPrompts, LastOfIs
<1>4. /\ MaxShown \in Nat \ {0} /\ MaxMilestones \in Nat \ {0} /\ MaxShown <= MaxMilestones
  BY LimitsOfPrompts
<1> HIDE DEF shown
<1>5. DOMAIN shown = 1 .. Len(shown) /\ Len(shown) \in Nat
  BY <1>3, LenProperties
<1> DEFINE gone == Len(ms) - Len(shown)
<1>6. /\ gone \in Nat /\ \A i \in 1 .. Len(shown) : shown[i] = ms[i + gone] /\ i + gone \in DOMAIN ms
      /\ (gone > 0 => Len(shown) = MaxShown) /\ gone + Len(shown) = Len(ms)
  <2>1. gone \in Nat /\ gone + Len(shown) = Len(ms) /\ (gone > 0 => Len(shown) = MaxShown)
    BY <1>1, <1>3, <1>4, <1>5
  <2>2. \A i \in 1 .. Len(shown) : shown[i] = ms[i + gone]
    BY <1>3
  <2> HIDE DEF gone
  <2>3. \A i \in 1 .. Len(shown) : i + gone \in DOMAIN ms
    BY <1>1, <1>5, <2>1
  <2>4. QED
    BY <2>1, <2>2, <2>3
<1>7. CASE \E i \in DOMAIN ms : /\ ms[i] = [run |-> r, start |-> TRUE]
                                /\ \A j \in DOMAIN ms : j > i => ms[j].run # r
  <2> HIDE DEF gone
  <2>1. PICK i \in DOMAIN ms : /\ ms[i] = [run |-> r, start |-> TRUE]
                               /\ \A j \in DOMAIN ms : j > i => ms[j].run # r
    BY <1>7
  <2>2. CASE i > gone
    <3>1. i - gone \in 1 .. Len(shown) /\ (i - gone) + gone = i
      BY <1>1, <1>5, <1>6, <2>2
    <3>2. shown[i - gone] = [run |-> r, start |-> TRUE]
      BY <1>6, <2>1, <3>1
    <3>3. [run |-> r, start |-> TRUE] \in ToSet(shown)
      BY <1>5, <3>1, <3>2 DEF ToSet
    <3>4. QED
      BY <3>3 DEF shown, ms
  <2>3. CASE ~(i > gone)
    <3>1. gone > 0 /\ i \in Nat
      BY <1>1, <1>6, <2>3
    <3>2. ASSUME NEW k \in 1 .. Len(shown) PROVE shown[k].run # r
      <4>1. shown[k] = ms[k + gone] /\ k + gone \in DOMAIN ms
        BY <1>6
      <4>2. k + gone > i
        BY <1>5, <1>6, <2>3, <3>1
      <4>3. QED
        BY <2>1, <4>1, <4>2
    <3>3. QED
      BY <1>5, <1>6, <3>1, <3>2 DEF shown, ms
  <2>4. QED
    BY <2>2, <2>3
<1>8. CASE Len(ms) = MaxMilestones /\ \A i \in DOMAIN ms : ms[i].run # r
  <2>1. Len(shown) = MaxShown
    BY <1>1, <1>3, <1>4, <1>8
  <2> HIDE DEF gone
  <2>2. \A i \in DOMAIN shown : shown[i].run # r
    BY <1>5, <1>6, <1>8
  <2>3. QED
    BY <2>1, <2>2 DEF shown, ms
<1>9. QED
  BY <1>2, <1>7, <1>8

(* A note of another run leaves it standing, or pushes it out.             *)
LEMMA StandsOn ==
  ASSUME NEW ms \in Seq(Milestones), Len(ms) <= MaxMilestones, NEW new \in Milestones, NEW r, new.run # r,
         Stands(ms, r)
  PROVE  Stands(Capped(Append(ms, new)), r)
<1> DEFINE c == Capped(Append(ms, new))
           gone == IF Len(ms) = MaxMilestones THEN 1 ELSE 0
<1>1. /\ c \in Seq(Milestones) /\ Len(c) = Len(ms) + 1 - gone
      /\ Len(c) \in 1 .. MaxMilestones /\ c[Len(c)] = new /\ Len(ms) \in Nat
      /\ \A i \in 1 .. Len(c) - 1 : c[i] = ms[i + gone]
  BY Noted
<1>2. gone \in {0, 1} /\ (gone = 1 <=> Len(ms) = MaxMilestones)
  OBVIOUS
<1> HIDE DEF c, gone
<1> DEFINE n == Len(c)
           m == Len(ms)
<1>3. /\ DOMAIN c = 1 .. n /\ n \in Nat /\ DOMAIN ms = 1 .. m /\ m \in Nat
      /\ MaxMilestones \in Nat /\ n >= 1 /\ n <= MaxMilestones /\ n = m + 1 - gone
      /\ c[n] = new /\ \A i \in 1 .. n - 1 : c[i] = ms[i + gone]
      /\ (gone = 1 <=> m = MaxMilestones) /\ gone \in {0, 1}
  BY <1>1, <1>2, LenProperties, LimitsOfPrompts
<1> HIDE DEF n, m
<1>4. ASSUME NEW k \in 1 .. n, NEW i \in 0 .. m,
             \A j \in DOMAIN ms : j > i => ms[j].run # r, k + gone > i
      PROVE  c[k].run # r
  <2>1. CASE k = n
    BY <1>3, <2>1
  <2>2. CASE k # n
    <3>1. k \in 1 .. n - 1
      BY <1>3, <2>2
    <3>2. k + gone \in DOMAIN ms
      BY <1>3, <3>1
    <3>3. QED
      BY <1>3, <1>4, <3>1, <3>2
  <2>3. QED
    BY <2>1, <2>2
<1>5. CASE \E i \in DOMAIN ms : /\ ms[i] = [run |-> r, start |-> TRUE]
                                /\ \A j \in DOMAIN ms : j > i => ms[j].run # r
  <2>1. PICK i \in DOMAIN ms : /\ ms[i] = [run |-> r, start |-> TRUE]
                               /\ \A j \in DOMAIN ms : j > i => ms[j].run # r
    BY <1>5
  <2>2. i \in 0 .. m /\ i >= 1
    BY <1>3
  <2>3. CASE i > gone
    <3>1. i - gone \in 1 .. n - 1 /\ (i - gone) + gone = i
      BY <1>3, <2>2, <2>3, SMTT(30)
    <3>2. c[i - gone] = [run |-> r, start |-> TRUE]
      BY <1>3, <2>1, <3>1
    <3>3. \A j \in DOMAIN c : j > i - gone => c[j].run # r
      <4> SUFFICES ASSUME NEW j \in 1 .. n, j > i - gone PROVE c[j].run # r
        BY <1>3
      <4>1. j + gone > i
        BY <1>3, <2>2
      <4>2. QED
        BY <1>4, <2>1, <2>2, <4>1
    <3>4. i - gone \in DOMAIN c
      BY <1>3, <3>1
    <3>5. QED
      BY <3>2, <3>3, <3>4 DEF c, Stands, n, m
  <2>4. CASE ~(i > gone)
    <3>1. gone = 1 /\ i = 1 /\ n = MaxMilestones
      BY <1>3, <2>2, <2>4
    <3>2. \A j \in DOMAIN c : c[j].run # r
      <4> SUFFICES ASSUME NEW j \in 1 .. n PROVE c[j].run # r
        BY <1>3
      <4>1. j + gone > i
        BY <1>3, <3>1
      <4>2. QED
        BY <1>4, <2>1, <2>2, <4>1
    <3>3. QED
      BY <3>1, <3>2 DEF c, Stands, n, m
  <2>5. QED
    BY <2>3, <2>4
<1>6. CASE m = MaxMilestones /\ \A i \in DOMAIN ms : ms[i].run # r
  <2>1. n = MaxMilestones
    BY <1>3, <1>6
  <2>2. \A j \in DOMAIN c : c[j].run # r
    <3> SUFFICES ASSUME NEW j \in 1 .. n PROVE c[j].run # r
      BY <1>3
    <3>1. 0 \in 0 .. m /\ j + gone > 0
      BY <1>3
    <3>2. QED
      BY <1>4, <1>6, <3>1
  <2>3. QED
    BY <2>1, <2>2 DEF c, Stands, n, m
<1>7. QED
  BY <1>5, <1>6 DEF Stands, m

(* Its own note stands.                                                    *)
LEMMA OwnStands ==
  ASSUME NEW ms \in Seq(Milestones), Len(ms) <= MaxMilestones, NEW r \in NoteRuns
  PROVE  Stands(Capped(Append(ms, [run |-> r, start |-> TRUE])), r)
<1> DEFINE new == [run |-> r, start |-> TRUE]
           c == Capped(Append(ms, new))
<1>1. new \in Milestones
  BY DEF Milestones
<1> HIDE DEF new
<1>2. c \in Seq(Milestones) /\ Len(c) >= 1 /\ c[Len(c)] = new
  BY <1>1, Noted, LimitsOfPrompts
<1> HIDE DEF c
<1>3. DOMAIN c = 1 .. Len(c) /\ Len(c) \in Nat
  BY <1>2, LenProperties
<1>4. Len(c) \in DOMAIN c /\ \A j \in DOMAIN c : ~(j > Len(c))
  BY <1>2, <1>3
<1>5. Stands(c, r)
  BY <1>2, <1>4 DEF Stands, new
<1>6. QED
  BY <1>5 DEF c, new

--------------------------------------------------------------------------------
(* Corrections *)

CorrectedLater(user, i) == {j \in DOMAIN memories : j > i /\ memories[j].user = user}

LEMMA MemoriesTyped ==
  ASSUME PromptTyped
  PROVE  /\ Len(memories) \in Nat /\ DOMAIN memories = 1 .. Len(memories)
         /\ \A i \in DOMAIN memories : memories[i] \in Corrections
         /\ \A S \in SUBSET DOMAIN memories : IsFiniteSet(S) /\ Cardinality(S) \in Nat
<1>1. memories \in Seq(Corrections)
  BY DEF PromptTyped
<1>2. Len(memories) \in Nat /\ DOMAIN memories = 1 .. Len(memories)
  BY <1>1, LenProperties
<1>3. \A i \in DOMAIN memories : memories[i] \in Corrections
  BY <1>1, <1>2, ElementOfSeq
<1>4. \A n \in Nat : IsFiniteSet(1 .. n)
  BY UpToIsFinite
<1>5. IsFiniteSet(DOMAIN memories)
  BY <1>2, <1>4
<1>6. \A S \in SUBSET DOMAIN memories : IsFiniteSet(S) /\ Cardinality(S) \in Nat
  BY <1>5, FS_Subset, FS_CardinalityType
<1>7. QED
  BY <1>2, <1>3, <1>6

(* What ListByUser finds is what a prompt should show.                     *)
LEMMA CorrectionsFound ==
  ASSUME PromptTyped, NEW r \in NoteRuns, NEW n \in Nat, n <= Len(memories)
  PROVE  LET user == Owner[Session(r)]
         IN  /\ ListByUser(r) \in SUBSET Corrections
             /\ \A m \in ListByUser(r) : m.user = user
             /\ \A i \in 1 .. n :
                  memories[i].user = user =>
                    memories[i] \in ListByUser(r) \/ Cardinality(CorrectedLater(user, i)) >= MaxMemories
<1> DEFINE user == Owner[Session(r)]
           mine == {i \in DOMAIN memories : memories[i].user = user}
           after(i) == {k \in mine : k > i}
<1>1. ListByUser(r) = {memories[i] : i \in {j \in mine : Cardinality(after(j)) < MaxMemories}}
  BY DEF ListByUser, LatestOf
<1>2. /\ Len(memories) \in Nat /\ DOMAIN memories = 1 .. Len(memories)
      /\ \A i \in DOMAIN memories : memories[i] \in Corrections
      /\ \A S \in SUBSET DOMAIN memories : IsFiniteSet(S) /\ Cardinality(S) \in Nat
  BY MemoriesTyped
<1>3. \A i : after(i) = CorrectedLater(user, i)
  BY DEF CorrectedLater
<1>4. \A i : CorrectedLater(user, i) \in SUBSET DOMAIN memories
  BY DEF CorrectedLater
<1> HIDE DEF user, after
<1>5. ASSUME NEW i \in 1 .. n, memories[i].user = user
      PROVE  memories[i] \in ListByUser(r) \/ Cardinality(CorrectedLater(user, i)) >= MaxMemories
  <2>1. i \in mine
    BY <1>2, <1>5
  <2>2. Cardinality(after(i)) \in Nat /\ Cardinality(after(i)) = Cardinality(CorrectedLater(user, i))
    BY <1>2, <1>3, <1>4
  <2>3. CASE Cardinality(after(i)) < MaxMemories
    BY <1>1, <2>1, <2>3
  <2>4. CASE ~(Cardinality(after(i)) < MaxMemories)
    BY <2>2, <2>4, LimitsOfPrompts
  <2>5. QED
    BY <2>3, <2>4
<1>6. \A m \in ListByUser(r) : m.user = user
  BY <1>1
<1>7. ListByUser(r) \in SUBSET Corrections
  BY <1>1, <1>2
<1>8. QED
  BY <1>5, <1>6, <1>7 DEF user

(* It stays so when others are remembered.                                 *)
LEMMA CorrectionsStay ==
  ASSUME PromptTyped, NEW r \in NoteRuns, runs[r].since \in Nat, runs[r].since <= Len(memories),
         CorrectionsAreShown(r),
         PromptTyped', UNCHANGED runs[r].shown.memories, UNCHANGED runs[r].session, UNCHANGED runs[r].since,
         memories' = memories \/ \E m \in Corrections : memories' = Append(memories, m)
  PROVE  CorrectionsAreShown(r)'
<1> DEFINE user == Owner[Session(r)]
           later(i) == {j \in DOMAIN memories : j > i /\ memories[j].user = user}
           laterThen(i) == {j \in DOMAIN memories' : j > i /\ memories'[j].user = user}
<1>1. /\ Len(memories) \in Nat /\ DOMAIN memories = 1 .. Len(memories)
  BY MemoriesTyped
<1>2. \A i \in DOMAIN memories : i \in DOMAIN memories' /\ memories'[i] = memories[i]
  <2>1. CASE memories' = memories
    BY <2>1
  <2>2. CASE \E m \in Corrections : memories' = Append(memories, m)
    <3>1. PICK m \in Corrections : memories' = Append(memories, m)
      BY <2>2
    <3>2. memories \in Seq(Corrections)
      BY DEF PromptTyped
    <3>3. /\ Append(memories, m) \in Seq(Corrections)
          /\ Len(Append(memories, m)) = Len(memories) + 1
          /\ \A i \in 1 .. Len(memories) : Append(memories, m)[i] = memories[i]
      BY <3>2, AppendProperties
    <3>4. memories' \in Seq(Corrections) /\ Len(memories') = Len(memories) + 1
      BY <3>1, <3>3
    <3>5. DOMAIN memories' = 1 .. Len(memories) + 1
      BY <3>4, LenProperties
    <3>6. \A i \in DOMAIN memories : memories'[i] = memories[i]
      BY <1>1, <3>1, <3>3
    <3>7. \A i \in DOMAIN memories : i \in DOMAIN memories'
      BY <1>1, <3>5
    <3>8. QED
      BY <3>6, <3>7
  <2>3. QED
    BY <2>1, <2>2
<1>3. \A S \in SUBSET DOMAIN memories' : IsFiniteSet(S) /\ Cardinality(S) \in Nat
  <2>1. memories' \in Seq(Corrections)
    BY DEF PromptTyped
  <2>2. Len(memories') \in Nat /\ DOMAIN memories' = 1 .. Len(memories')
    BY <2>1, LenProperties
  <2>3. \A n \in Nat : IsFiniteSet(1 .. n)
    BY UpToIsFinite
  <2>4. IsFiniteSet(DOMAIN memories')
    BY <2>2, <2>3
  <2>5. QED
    BY <2>4, FS_Subset, FS_CardinalityType
<1>4. ASSUME NEW i PROVE Cardinality(laterThen(i)) >= Cardinality(later(i))
                         /\ Cardinality(laterThen(i)) \in Nat /\ Cardinality(later(i)) \in Nat
  <2>1. later(i) \subseteq laterThen(i)
    BY <1>2
  <2>2. laterThen(i) \in SUBSET DOMAIN memories' /\ later(i) \in SUBSET DOMAIN memories
    OBVIOUS
  <2> HIDE DEF later, laterThen
  <2>3. IsFiniteSet(laterThen(i)) /\ Cardinality(laterThen(i)) \in Nat
    BY <1>3, <2>2
  <2>4. Cardinality(later(i)) \in Nat
    BY <2>2, MemoriesTyped
  <2>5. Cardinality(later(i)) <= Cardinality(laterThen(i))
    BY <2>1, <2>3, FS_Subset
  <2>6. QED
    BY <2>3, <2>4, <2>5
<1>5. /\ \A m \in runs[r].shown.memories : m.user = user
      /\ \A i \in 1 .. runs[r].since :
           memories[i].user = user =>
             memories[i] \in runs[r].shown.memories \/ Cardinality(later(i)) >= MaxMemories
  BY DEF CorrectionsAreShown, Shown
<1> HIDE DEF later, laterThen, user
<1>6. ASSUME NEW i \in 1 .. runs[r].since, memories'[i].user = user
      PROVE  memories'[i] \in runs[r].shown.memories \/ Cardinality(laterThen(i)) >= MaxMemories
  <2>1. i \in DOMAIN memories /\ memories'[i] = memories[i]
    BY <1>1, <1>2
  <2>2. memories[i] \in runs[r].shown.memories \/ Cardinality(later(i)) >= MaxMemories
    BY <1>5, <1>6, <2>1
  <2>3. QED
    BY <1>4, <2>1, <2>2, LimitsOfPrompts
<1>7. QED
  BY <1>5, <1>6 DEF CorrectionsAreShown, Shown, Session, user, later, laterThen

--------------------------------------------------------------------------------
(* The steps of a run *)

(* What the steps are that a run can have.                                 *)
LEMMA StepsAre ==
  /\ BeforePrompt \subseteq Steps /\ Calling \cup Ending \subseteq Steps /\ Always \subseteq BeforePrompt
  /\ \A x \in BeforePrompt :
       /\ x.does = "note" /\ x.kind = "start" => x = Start
       /\ x.does = "note" /\ x.kind # "start" => x.place < 6
       /\ x.does = "set" => x = TaskSet
       /\ x.does = "provide" /\ x.kind = "task" => x = TaskShown
       /\ x.does = "provide" /\ x.kind = "memories" => x = MemoriesShown
       /\ x.does = "provide" /\ x.kind = "milestones" => x = MilestonesShown
       /\ x.place >= 12 /\ x.does = "provide" => x = MilestonesShown
  /\ \A x \in Calling \cup Ending :
       /\ x.does # "set" /\ x.does # "provide" /\ x.kind # "start"
<1>1. BeforePrompt \subseteq Steps
  <2>1. ASSUME NEW kind \in {"input", "correction"} PROVE Preparing(kind) \subseteq Steps
    BY DEF Preparing, Steps, Detecting, Noting, Step
  <2>2. Planning \subseteq Steps /\ Resuming \subseteq Steps
    BY DEF Planning, Resuming, Steps, Noting, Step
  <2>3. QED
    BY <2>1, <2>2 DEF BeforePrompt
<1>2. Calling \cup Ending \subseteq Steps
  BY DEF Calling, Ending, Steps, Detecting, Noting, Step
<1>3. Always \subseteq BeforePrompt
  BY DEF BeforePrompt, Always, Preparing, TaskSet, TaskShown, MemoriesShown, MilestonesShown
<1>4. ASSUME NEW x \in BeforePrompt
      PROVE  /\ x.does = "note" /\ x.kind = "start" => x = Start
             /\ x.does = "note" /\ x.kind # "start" => x.place < 6
             /\ x.does = "set" => x = TaskSet
             /\ x.does = "provide" /\ x.kind = "task" => x = TaskShown
             /\ x.does = "provide" /\ x.kind = "memories" => x = MemoriesShown
             /\ x.does = "provide" /\ x.kind = "milestones" => x = MilestonesShown
             /\ x.place >= 12 /\ x.does = "provide" => x = MilestonesShown
  BY DEF BeforePrompt, Planning, Preparing, Resuming, Detecting, Noting, Step,
         Start, TaskSet, TaskShown, MemoriesShown, MilestonesShown
<1>5. ASSUME NEW x \in Calling \cup Ending
      PROVE  x.does # "set" /\ x.does # "provide" /\ x.kind # "start"
  BY DEF Calling, Ending, Detecting, Noting, Step
<1>6. QED
  BY <1>1, <1>2, <1>3, <1>4, <1>5

LEMMA PlacesAre ==
  /\ Start \in Always /\ Start.place = 6 /\ Start.does = "note" /\ Start.kind = "start"
  /\ TaskSet \in Always /\ TaskSet.place = 8 /\ TaskSet.does = "set"
  /\ TaskShown \in Always /\ TaskShown.place = 9 /\ TaskShown.does = "provide" /\ TaskShown.kind = "task"
  /\ MemoriesShown \in Always /\ MemoriesShown.place = 11
  /\ MemoriesShown.does = "provide" /\ MemoriesShown.kind = "memories"
  /\ MilestonesShown \in Always /\ MilestonesShown.place = 12
  /\ MilestonesShown.does = "provide" /\ MilestonesShown.kind = "milestones"
BY DEF Always, Noting, Step, Start, TaskSet, TaskShown, MemoriesShown, MilestonesShown

(* A run that takes a step has that step no more, and else what it had.    *)
LEMMA Popped ==
  ASSUME PromptTyped, NEW r \in NoteRuns, NEW x, NEW does, Due(r, x, does), NEW prompt \in Prompts,
         Shows(r, x, prompt)
  PROVE  /\ x \in runs[r].todo /\ x.does = does /\ \A y \in runs[r].todo : x.place <= y.place
         /\ runs' \in [NoteRuns -> RunStates]
         /\ runs'[r] \in RunStates /\ runs'[r].todo = runs[r].todo \ {x} /\ runs'[r].shown = prompt
         /\ runs'[r].session = runs[r].session /\ runs'[r].since = runs[r].since
         /\ \A o \in NoteRuns \ {r} : runs'[o] = runs[o]
<1>1. runs \in [NoteRuns -> RunStates]
  BY DEF PromptTyped
<1>2. runs' = [runs EXCEPT ![r].todo = @ \ {x}, ![r].shown = prompt]
  BY DEF Shows
<1>3. runs[r] \in RunStates
  BY <1>1
<1>4. \A o \in NoteRuns \ {r} : runs'[o] = runs[o]
  BY <1>1, <1>2
<1>5. /\ runs'[r].todo = runs[r].todo \ {x} /\ runs'[r].shown = prompt
      /\ runs'[r].session = runs[r].session /\ runs'[r].since = runs[r].since
  BY <1>1, <1>2, <1>3 DEF RunStates
<1>6. runs'[r] \in RunStates
  BY <1>1, <1>2, <1>3 DEF RunStates
<1>7. runs' \in [NoteRuns -> RunStates]
  BY <1>1, <1>2, <1>4, <1>6
<1>8. QED
  BY <1>4, <1>5, <1>6, <1>7 DEF Due

LEMMA ShownTyped ==
  ASSUME PromptTyped, NEW r \in NoteRuns
  PROVE  runs[r] \in RunStates /\ runs[r].shown \in Prompts /\ runs[r].todo \subseteq Steps
         /\ runs[r].since \in Nat /\ runs[r].session \in NoteSessions \cup {Nobody}
BY DEF PromptTyped, RunStates

(* A run that has steps has a session.                                     *)
LEMMA BusyHasSession ==
  ASSUME PromptTyped, NEW r \in NoteRuns, StepsInOrder(r), NEW x \in runs[r].todo
  PROVE  Session(r) \in NoteSessions /\ x \in BeforePrompt \cup Calling \cup Ending
<1>1. Session(r) # Nobody
  BY DEF StepsInOrder, NoRun
<1>2. runs[r].todo \subseteq BeforePrompt \cup Calling \cup Ending
  BY DEF StepsInOrder, InOrder
<1>3. QED
  BY <1>1, <1>2, ShownTyped DEF Session

(* Taking the first step keeps the order of those left.                    *)
LEMMA OrderKept ==
  ASSUME NEW q, NEW p, NEW x \in q.todo, \A y \in q.todo : x.place <= y.place, p.todo = q.todo \ {x},
         InOrder(q)
  PROVE  InOrder(p)
<1>1. CASE q.todo \subseteq Calling \cup Ending
  BY <1>1 DEF InOrder
<1>2. CASE /\ q.todo \subseteq BeforePrompt
           /\ \A z \in q.todo, y \in Always : z.place < y.place => y \in q.todo
  <2>1. ASSUME NEW z \in p.todo, NEW y \in Always, z.place < y.place PROVE y \in p.todo
    <3>1. y \in q.todo /\ x.place <= z.place
      BY <1>2, <2>1
    <3>2. x.place \in Nat /\ y.place \in Nat /\ z.place \in Nat
      BY <1>2, <3>1, StepsAre DEF Steps
    <3>3. y # x
      BY <2>1, <3>1, <3>2
    <3>4. QED
      BY <3>1, <3>3
  <2>2. p.todo \subseteq BeforePrompt
    BY <1>2
  <2>3. QED
    BY <2>1, <2>2 DEF InOrder
<1>3. QED
  BY <1>1, <1>2 DEF InOrder

(* Before the prompt the steps that every run takes are all ahead of it.   *)
LEMMA StillAhead ==
  ASSUME NEW r \in NoteRuns, StepsInOrder(r), NEW x \in runs[r].todo, NEW y \in Always, x \in BeforePrompt,
         x \notin Calling \cup Ending, x.place < y.place
  PROVE  y \in runs[r].todo
BY DEF StepsInOrder, InOrder

--------------------------------------------------------------------------------
(* What a step leaves as it was: of the run that takes it, with its first  *)
(* step gone, and of the others.                                           *)

MemoriesGrow == memories' = memories \/ \E m \in Corrections : memories' = Append(memories, m)

KeepsStanding(o) == StartStands(o) => Stands(milestones'[Session(o)], o)

(* Of run o nothing changes.                                               *)
Waits(o) == UNCHANGED runs[o]

(* Run o takes its first step, x.                                          *)
Takes(o, x) ==
  /\ x \in runs[o].todo /\ \A y \in runs[o].todo : x.place <= y.place
  /\ runs'[o].todo = runs[o].todo \ {x}
  /\ runs'[o].session = runs[o].session /\ runs'[o].since = runs[o].since

Moves(o) == Waits(o) \/ \E x : Takes(o, x)

LEMMA MovesSay ==
  ASSUME PromptTyped, PromptTyped', NEW o \in NoteRuns, Moves(o)
  PROVE  /\ Session(o)' = Session(o) /\ runs'[o].session = Session(o) /\ runs'[o].since = runs[o].since
         /\ runs'[o].todo \subseteq runs[o].todo
         /\ \A x : Prepares(o, x)' => Prepares(o, x)
BY DEF Moves, Waits, Takes, Session, Prepares

LEMMA MemoriesLonger ==
  ASSUME PromptTyped, PromptTyped', MemoriesGrow
  PROVE  Len(memories) <= Len(memories') /\ Len(memories) \in Nat /\ Len(memories') \in Nat
<1>1. memories \in Seq(Corrections) /\ memories' \in Seq(Corrections)
  BY DEF PromptTyped
<1>2. Len(memories) \in Nat /\ Len(memories') \in Nat
  BY <1>1, LenProperties
<1>3. CASE memories' = memories
  BY <1>2, <1>3
<1>4. CASE \E m \in Corrections : memories' = Append(memories, m)
  <2>1. PICK m \in Corrections : memories' = Append(memories, m)
    BY <1>4
  <2>2. Len(memories') = Len(memories) + 1
    BY <1>1, <2>1, AppendProperties
  <2>3. QED
    BY <1>2, <2>2
<1>5. QED
  BY <1>3, <1>4 DEF MemoriesGrow

LEMMA StepsStay ==
  ASSUME PromptTyped, PromptTyped', NEW o \in NoteRuns, StepsInOrder(o), Moves(o), MemoriesGrow,
         runs'[o].shown.milestones = runs[o].shown.milestones
  PROVE  StepsInOrder(o)'
<1>1. Session(o)' = Nobody => runs'[o] = NoRun
  <2>1. CASE Waits(o)
    BY <2>1 DEF Waits, StepsInOrder, Session
  <2>2. CASE \E x : Takes(o, x)
    <3>1. PICK x : Takes(o, x)
      BY <2>2
    <3>2. Session(o) \in NoteSessions /\ x \in runs[o].todo
      BY <3>1, BusyHasSession DEF Takes
    <3>3. QED
      BY <3>2, MovesSay, LimitsOfPrompts
  <2>3. QED
    BY <2>1, <2>2 DEF Moves
<1>2. runs'[o].since <= Len(memories')
  <2>1. runs[o].since \in Nat /\ runs[o].since <= Len(memories) /\ runs'[o].since = runs[o].since
    BY ShownTyped, MovesSay DEF StepsInOrder
  <2>2. Len(memories) <= Len(memories') /\ Len(memories) \in Nat /\ Len(memories') \in Nat
    BY MemoriesLonger
  <2>3. QED
    BY <2>1, <2>2
<1>3. InOrder(runs'[o])
  <2>1. CASE Waits(o)
    BY <2>1 DEF Waits, StepsInOrder
  <2>2. CASE \E x : Takes(o, x)
    <3>1. PICK x : Takes(o, x)
      BY <2>2
    <3>2. InOrder(runs[o])
      BY DEF StepsInOrder
    <3>3. QED
      BY <3>1, <3>2, OrderKept DEF Takes
  <2>3. QED
    BY <2>1, <2>2 DEF Moves
<1>4. Prompted(o)' => \A x \in runs'[o].todo : x.does # "provide"
  BY MovesSay DEF StepsInOrder, Prompted, Shown
<1>5. QED
  BY <1>1, <1>2, <1>3, <1>4 DEF StepsInOrder

LEMMA StartStays ==
  ASSUME PromptTyped, PromptTyped', NEW o \in NoteRuns, StartIsThere(o), Moves(o), KeepsStanding(o),
         ~Takes(o, Start)
  PROVE  StartIsThere(o)'
<1>1. Past(o, Start, MilestonesShown)' => Past(o, Start, MilestonesShown)
  BY MovesSay DEF Past, Prepares, Moves, Waits, Takes
<1>2. Past(o, Start, MilestonesShown) => Stands(milestones'[Session(o)], o)
  BY DEF StartIsThere, KeepsStanding
<1>3. QED
  BY <1>1, <1>2, MovesSay DEF StartIsThere, StartStands

LEMMA TaskStays ==
  ASSUME PromptTyped, PromptTyped', NEW o \in NoteRuns, TaskIsThere(o), Moves(o),
         tasks'[Session(o)] = tasks[Session(o)], met \subseteq met', ~Takes(o, TaskSet)
  PROVE  TaskIsThere(o)'
<1>1. Past(o, TaskSet, TaskShown)' => Past(o, TaskSet, TaskShown)
  BY MovesSay DEF Past, Prepares, Moves, Waits, Takes
<1>2. QED
  BY <1>1, MovesSay DEF TaskIsThere

LEMMA StartStaysTold ==
  ASSUME NEW o \in NoteRuns, StartIsTold(o), runs'[o].shown.milestones = runs[o].shown.milestones
  PROVE  StartIsTold(o)'
BY DEF StartIsTold, OwnStartIsShown, Prompted, Shown

LEMMA TaskStaysTold ==
  ASSUME PromptTyped, PromptTyped', NEW o \in NoteRuns, TaskIsTold(o), Moves(o), met \subseteq met',
         runs'[o].shown.milestones = runs[o].shown.milestones,
         runs'[o].shown.task = runs[o].shown.task, ~Takes(o, TaskShown)
  PROVE  TaskIsTold(o)'
<1>1. Past(o, TaskShown, MilestonesShown)' => Past(o, TaskShown, MilestonesShown)
  BY MovesSay DEF Past, Prepares, Moves, Waits, Takes
<1>2. OwnTaskIsShown(o) => OwnTaskIsShown(o)'
  BY DEF OwnTaskIsShown, Shown
<1>3. QED
  BY <1>1, <1>2 DEF TaskIsTold, Prompted, Shown

LEMMA CorrectionsStayTold ==
  ASSUME PromptTyped, PromptTyped', NEW o \in NoteRuns, StepsInOrder(o), CorrectionsAreTold(o), Moves(o),
         MemoriesGrow, runs'[o].shown.milestones = runs[o].shown.milestones,
         runs'[o].shown.memories = runs[o].shown.memories, ~Takes(o, MemoriesShown)
  PROVE  CorrectionsAreTold(o)'
<1>1. Past(o, MemoriesShown, MilestonesShown)' => Past(o, MemoriesShown, MilestonesShown)
  BY MovesSay DEF Past, Prepares, Moves, Waits, Takes
<1>2. ASSUME CorrectionsAreShown(o) PROVE CorrectionsAreShown(o)'
  <2>1. runs[o].since \in Nat /\ runs[o].since <= Len(memories)
    BY ShownTyped DEF StepsInOrder
  <2>2. /\ UNCHANGED runs[o].shown.memories /\ UNCHANGED runs[o].session /\ UNCHANGED runs[o].since
    BY MovesSay DEF Session
  <2>3. memories' = memories \/ \E m \in Corrections : memories' = Append(memories, m)
    BY DEF MemoriesGrow
  <2>4. QED
    BY <1>2, <2>1, <2>2, <2>3, CorrectionsStay
<1>3. QED
  BY <1>1, <1>2 DEF CorrectionsAreTold, Prompted, Shown

(* A step that is none of those the proof speaks of, and no step at all.   *)
LEMMA StaysPrepared ==
  ASSUME PromptTyped, PromptTyped', NEW o \in NoteRuns, Prepared(o), Moves(o), MemoriesGrow,
         KeepsStanding(o), tasks' = tasks, met \subseteq met',
         runs'[o].shown.milestones = runs[o].shown.milestones,
         runs'[o].shown.task = runs[o].shown.task,
         runs'[o].shown.memories = runs[o].shown.memories,
         \A x \in {Start, TaskSet, TaskShown, MemoriesShown} : ~Takes(o, x)
  PROVE  Prepared(o)'
<1>1. StepsInOrder(o)'
  BY StepsStay DEF Prepared
<1>2. StartIsThere(o)'
  BY StartStays DEF Prepared
<1>3. TaskIsThere(o)'
  BY TaskStays DEF Prepared
<1>4. StartIsTold(o)'
  BY StartStaysTold DEF Prepared
<1>5. TaskIsTold(o)'
  BY TaskStaysTold DEF Prepared
<1>6. CorrectionsAreTold(o)'
  BY CorrectionsStayTold DEF Prepared
<1>7. QED
  BY <1>1, <1>2, <1>3, <1>4, <1>5, <1>6 DEF Prepared

(* Nobody leaves those it has met, and no two meet anew.                   *)
LEMMA HaveMetStays ==
  ASSUME PromptTyped, PromptTyped', HaveMet, \A o \in NoteRuns : Moves(o), met \subseteq met'
  PROVE  HaveMet'
<1> SUFFICES ASSUME NEW r \in NoteRuns, NEW q \in NoteRuns, r # q, Session(r)' = Session(q)',
                    Prepares(r, TaskShown)', Prepares(q, TaskShown)'
             PROVE  {r, q} \in met'
  BY DEF HaveMet
<1>1. Moves(r) /\ Moves(q)
  OBVIOUS
<1>2. Session(r) = Session(q) /\ Prepares(r, TaskShown) /\ Prepares(q, TaskShown)
  BY <1>1, MovesSay
<1>3. QED
  BY <1>2 DEF HaveMet

--------------------------------------------------------------------------------
(* The steps of runs *)

LEMMA StepMoves ==
  ASSUME PromptTyped, NEW r \in NoteRuns, NEW x, NEW does, Due(r, x, does), NEW prompt \in Prompts,
         Shows(r, x, prompt)
  PROVE  /\ Takes(r, x) /\ \A y : Takes(r, y) => y = x
         /\ \A o \in NoteRuns \ {r} : Waits(o) /\ \A y : ~Takes(o, y)
         /\ \A o \in NoteRuns : Moves(o)
<1>1. Takes(r, x)
  BY Popped DEF Takes
<1>2. ASSUME NEW y, Takes(r, y) PROVE y = x
  BY <1>1, <1>2 DEF Takes
<1>3. ASSUME NEW o \in NoteRuns \ {r} PROVE Waits(o) /\ \A y : ~Takes(o, y)
  <2>1. runs'[o] = runs[o]
    BY Popped
  <2>2. QED
    BY <2>1 DEF Waits, Takes
<1>4. QED
  BY <1>1, <1>2, <1>3 DEF Moves

(* The steps before the prompt are none of those after it.                 *)
LEMMA CallingsDiffer == BeforePrompt \cap (Calling \cup Ending) = {}
<1>1. \A x \in BeforePrompt : x.kind \notin {"called", "result", "end"}
  BY DEF BeforePrompt, Planning, Preparing, Resuming, Detecting, Noting, Step
<1>2. \A x \in Calling \cup Ending : x.kind \in {"called", "result", "end"}
  BY DEF Calling, Ending, Detecting, Noting, Step
<1>3. QED
  BY <1>1, <1>2

(* A step of a run that shows nothing of what the proof speaks of, and     *)
(* changes nothing it speaks of but the corrections.                       *)
LEMMA QuietSteps ==
  ASSUME PromptInv, PromptTyped', NEW r \in NoteRuns, NEW x, NEW does, Due(r, x, does),
         NEW prompt \in Prompts, Shows(r, x, prompt),
         prompt.task = runs[r].shown.task, prompt.memories = runs[r].shown.memories,
         prompt.milestones = runs[r].shown.milestones,
         x \notin {Start, TaskSet, TaskShown, MemoriesShown},
         MemoriesGrow, UNCHANGED <<milestones, tasks, met>>
  PROVE  PromptInv'
<1>1. PromptTyped /\ HaveMet /\ \A o \in NoteRuns : Prepared(o)
  BY DEF PromptInv
<1>2. \A o \in NoteRuns : Moves(o) /\ \A y \in {Start, TaskSet, TaskShown, MemoriesShown} : ~Takes(o, y)
  BY <1>1, StepMoves
<1>3. HaveMet'
  BY <1>1, <1>2, HaveMetStays
<1>4. ASSUME NEW o \in NoteRuns PROVE Prepared(o)'
  <2>1. KeepsStanding(o)
    BY DEF KeepsStanding, StartStands
  <2>2. /\ runs'[o].shown.milestones = runs[o].shown.milestones
        /\ runs'[o].shown.task = runs[o].shown.task
        /\ runs'[o].shown.memories = runs[o].shown.memories
    <3>1. CASE o = r
      <4>1. runs'[r].shown = prompt
        BY <1>1, Popped
      <4>2. QED
        BY <3>1, <4>1
    <3>2. CASE o # r
      <4>1. runs'[o] = runs[o]
        BY <1>1, <3>2, Popped
      <4>2. QED
        BY <4>1
    <3>3. QED
      BY <3>1, <3>2
  <2>3. QED
    BY <1>1, <1>2, <2>1, <2>2, StaysPrepared
<1>5. QED
  BY <1>3, <1>4 DEF PromptInv

LEMMA ShownStays ==
  ASSUME PromptTyped, NEW r \in NoteRuns, NEW x, Done(r, x)
  PROVE  runs[r].shown \in Prompts /\ Shows(r, x, runs[r].shown)
BY ShownTyped DEF Done

LEMMA SaveMilestoneKeeps ==
  ASSUME PromptInv, NEW r \in NoteRuns, SaveMilestone(r)
  PROVE  PromptInv'
<1>1. PromptTyped
  BY DEF PromptInv
<1>2. PICK x \in runs[r].todo : Due(r, x, "save") /\ Done(r, x)
  BY DEF SaveMilestone
<1>3. runs[r].shown \in Prompts /\ Shows(r, x, runs[r].shown) /\ x.does = "save"
  BY <1>1, <1>2, ShownStays DEF Due
<1>4. runs' \in [NoteRuns -> RunStates] /\ Session(r) \in NoteSessions
  BY <1>1, <1>2, <1>3, Popped, BusyHasSession DEF PromptInv, Prepared
<1>5. PromptTyped'
  BY <1>1, <1>4 DEF PromptTyped, SaveMilestone
<1>6. x \notin {Start, TaskSet, TaskShown, MemoriesShown}
  BY <1>3, PlacesAre
<1>7. MemoriesGrow /\ UNCHANGED <<milestones, tasks, met>>
  BY DEF SaveMilestone, MemoriesGrow
<1>8. QED
  BY <1>2, <1>3, <1>5, <1>6, <1>7, QuietSteps

LEMMA RememberCorrectionKeeps ==
  ASSUME PromptInv, NEW r \in NoteRuns, RememberCorrection(r)
  PROVE  PromptInv'
<1>1. PromptTyped
  BY DEF PromptInv
<1>2. PICK x \in runs[r].todo : Due(r, x, "remember") /\ Done(r, x)
  BY DEF RememberCorrection
<1>3. runs[r].shown \in Prompts /\ Shows(r, x, runs[r].shown) /\ x.does = "remember"
  BY <1>1, <1>2, ShownStays DEF Due
<1>4. runs' \in [NoteRuns -> RunStates] /\ Session(r) \in NoteSessions
  BY <1>1, <1>2, <1>3, Popped, BusyHasSession DEF PromptInv, Prepared
<1>5. MemoriesGrow
  <2>1. Owner[Session(r)] \in Range(Owner)
    BY <1>4, PromptAssumption
  <2>2. [user |-> Owner[Session(r)], run |-> r] \in Corrections
    BY <2>1 DEF Corrections
  <2>3. QED
    BY <2>2 DEF RememberCorrection, MemoriesGrow
<1>6. memories' \in Seq(Corrections)
  <2>1. memories \in Seq(Corrections)
    BY <1>1 DEF PromptTyped
  <2>2. \A m \in Corrections : Append(memories, m) \in Seq(Corrections)
    BY <2>1, AppendProperties
  <2>3. QED
    BY <1>5, <2>1, <2>2 DEF MemoriesGrow
<1>7. PromptTyped'
  BY <1>1, <1>4, <1>6 DEF PromptTyped, RememberCorrection
<1>8. x \notin {Start, TaskSet, TaskShown, MemoriesShown}
  BY <1>3, PlacesAre
<1>9. UNCHANGED <<milestones, tasks, met>>
  BY DEF RememberCorrection
<1>10. QED
  BY <1>2, <1>3, <1>5, <1>7, <1>8, <1>9, QuietSteps

LEMMA PushKeeps ==
  ASSUME PromptInv, NEW r \in NoteRuns, Push(r)
  PROVE  PromptInv'
<1>1. PromptTyped
  BY DEF PromptInv
<1>2. PICK x \in runs[r].todo : Due(r, x, "push") /\ Done(r, x)
  BY DEF Push
<1>3. runs[r].shown \in Prompts /\ Shows(r, x, runs[r].shown) /\ x.does = "push"
  BY <1>1, <1>2, ShownStays DEF Due
<1>4. runs' \in [NoteRuns -> RunStates] /\ Session(r) \in NoteSessions
  BY <1>1, <1>2, <1>3, Popped, BusyHasSession DEF PromptInv, Prepared
<1> DEFINE last == LastOf(Append(toolResults[Session(r)], r), MaxKeep)
<1>5. last \in Seq(NoteRuns) /\ Len(last) <= MaxKeep
  <2>1. toolResults[Session(r)] \in Seq(NoteRuns)
    BY <1>1, <1>4 DEF PromptTyped
  <2>2. Append(toolResults[Session(r)], r) \in Seq(NoteRuns) /\ MaxKeep \in Nat \ {0}
    BY <2>1, AppendProperties, LimitsOfPrompts
  <2>3. Len(Append(toolResults[Session(r)], r)) \in Nat
    BY <2>2, LenProperties
  <2>4. /\ last \in Seq(NoteRuns)
        /\ Len(last) = IF Len(Append(toolResults[Session(r)], r)) > MaxKeep THEN MaxKeep
                       ELSE Len(Append(toolResults[Session(r)], r))
    BY <2>2, LastOfIs
  <2> HIDE DEF last
  <2>5. QED
    BY <2>2, <2>3, <2>4
<1>6. toolResults' = [toolResults EXCEPT ![Session(r)] = last]
  BY DEF Push
<1> HIDE DEF last
<1>7. /\ toolResults' \in [NoteSessions -> Seq(NoteRuns)]
      /\ \A s \in NoteSessions : Len(toolResults'[s]) <= MaxKeep
  BY <1>1, <1>4, <1>5, <1>6 DEF PromptTyped
<1>8. PromptTyped'
  BY <1>1, <1>4, <1>7 DEF PromptTyped, Push
<1>9. x \notin {Start, TaskSet, TaskShown, MemoriesShown}
  BY <1>3, PlacesAre
<1>10. MemoriesGrow /\ UNCHANGED <<milestones, tasks, met>>
  BY DEF Push, MemoriesGrow
<1>11. QED
  BY <1>2, <1>3, <1>8, <1>9, <1>10, QuietSteps

LEMMA ProvideResultsKeeps ==
  ASSUME PromptInv, NEW r \in NoteRuns, ProvideResults(r)
  PROVE  PromptInv'
<1>1. PromptTyped
  BY DEF PromptInv
<1> DEFINE prompt == [runs[r].shown EXCEPT !.results = toolResults[Session(r)]]
<1>2. PICK x \in runs[r].todo : Due(r, x, "provide") /\ x.kind = "results" /\ Shows(r, x, prompt)
  BY DEF ProvideResults, Provide
<1>3. Session(r) \in NoteSessions
  BY <1>1, <1>2, BusyHasSession DEF PromptInv, Prepared
<1>4. /\ prompt \in Prompts
      /\ prompt.task = runs[r].shown.task /\ prompt.memories = runs[r].shown.memories
      /\ prompt.milestones = runs[r].shown.milestones
  <2>1. runs[r].shown \in Prompts /\ toolResults[Session(r)] \in Seq(NoteRuns)
    BY <1>1, <1>3, ShownTyped DEF PromptTyped
  <2>2. QED
    BY <2>1 DEF Prompts
<1> HIDE DEF prompt
<1>5. runs' \in [NoteRuns -> RunStates]
  BY <1>1, <1>2, <1>4, Popped
<1>6. PromptTyped'
  BY <1>1, <1>5 DEF PromptTyped, ProvideResults, Provide
<1>7. x \notin {Start, TaskSet, TaskShown, MemoriesShown}
  BY <1>2, PlacesAre DEF Due
<1>8. MemoriesGrow /\ UNCHANGED <<milestones, tasks, met>>
  BY DEF ProvideResults, Provide, MemoriesGrow
<1>9. QED
  BY <1>2, <1>4, <1>6, <1>7, <1>8, QuietSteps

--------------------------------------------------------------------------------
(* A note of its start stands; a note of anything else comes before that.  *)
LEMMA NoteMilestoneKeeps ==
  ASSUME PromptInv, NEW r \in NoteRuns, NoteMilestone(r)
  PROVE  PromptInv'
<1>1. PromptTyped /\ HaveMet /\ \A o \in NoteRuns : Prepared(o)
  BY DEF PromptInv
<1>2. PICK x \in runs[r].todo :
        /\ Due(r, x, "note") /\ Done(r, x)
        /\ milestones' = [milestones EXCEPT ![Session(r)] =
                            Capped(Append(@, [run |-> r, start |-> x.kind = "start"]))]
  BY DEF NoteMilestone
<1> DEFINE s == Session(r)
           new == [run |-> r, start |-> x.kind = "start"]
           then == Capped(Append(milestones[s], new))
<1>3. runs[r].shown \in Prompts /\ Shows(r, x, runs[r].shown) /\ x.does = "note"
  BY <1>1, <1>2, ShownStays DEF Due
<1>4. /\ runs' \in [NoteRuns -> RunStates] /\ s \in NoteSessions
      /\ x \in BeforePrompt \cup Calling \cup Ending
  BY <1>1, <1>2, <1>3, Popped, BusyHasSession DEF Prepared
<1>5. new \in Milestones /\ new.run = r
  BY DEF Milestones
<1>6. milestones[s] \in Seq(Milestones) /\ Len(milestones[s]) <= MaxMilestones
  BY <1>1, <1>4 DEF PromptTyped
<1>7. milestones \in [NoteSessions -> Seq(Milestones)] /\ milestones' = [milestones EXCEPT ![s] = then]
  BY <1>1, <1>2 DEF PromptTyped
<1>8. then \in Seq(Milestones) /\ Len(then) <= MaxMilestones
  <2> HIDE DEF new, s
  <2>1. then \in Seq(Milestones) /\ Len(then) \in 1 .. MaxMilestones
    BY <1>5, <1>6, Noted
  <2>2. QED
    BY <2>1, LimitsOfPrompts
<1>9. PromptTyped'
  <2> HIDE DEF then, s
  <2>1. /\ milestones' \in [NoteSessions -> Seq(Milestones)]
        /\ \A t \in NoteSessions : Len(milestones'[t]) <= MaxMilestones
    BY <1>1, <1>4, <1>7, <1>8 DEF PromptTyped
  <2>2. UNCHANGED <<storage, stored, memories, tasks, toolResults, met, calls>>
    BY DEF NoteMilestone
  <2>3. QED
    BY <1>1, <1>4, <2>1, <2>2 DEF PromptTyped
<1>10. MemoriesGrow /\ UNCHANGED <<tasks, met>>
  BY DEF NoteMilestone, MemoriesGrow
<1>11. \A o \in NoteRuns : Moves(o) /\ \A y \in {TaskSet, TaskShown, MemoriesShown} : ~Takes(o, y)
  BY <1>1, <1>3, <1>2, StepMoves, PlacesAre
<1>12. \A o \in NoteRuns : runs'[o].shown = runs[o].shown
  <2>1. runs'[r].shown = runs[r].shown /\ \A o \in NoteRuns \ {r} : runs'[o] = runs[o]
    BY <1>1, <1>2, <1>3, Popped
  <2>2. QED
    BY <2>1
<1>13. ASSUME NEW o \in NoteRuns PROVE StartIsThere(o)'
  <2> SUFFICES ASSUME Prepares(o, MilestonesShown)' PROVE StartIsThere(o)'
    BY DEF StartIsThere, Past
  <2>0. Session(o) \in NoteSessions
    <3>1. MilestonesShown \in runs[o].todo
      BY <1>1, <1>9, <1>11, MovesSay DEF Prepares
    <3>2. QED
      BY <1>1, <3>1, BusyHasSession DEF Prepared
  <2>1. CASE o # r
    <3>1. KeepsStanding(o)
      <4>1. CASE Session(o) = s
        <5>1. milestones'[s] = then
          BY <1>4, <1>7
        <5> HIDE DEF new, s
        <5>2. Stands(milestones[s], o) => Stands(then, o)
          BY <1>5, <1>6, <2>1, StandsOn
        <5> HIDE DEF then
        <5>3. QED
          BY <4>1, <5>1, <5>2 DEF KeepsStanding, StartStands
      <4>2. CASE Session(o) # s
        <5>1. milestones'[Session(o)] = milestones[Session(o)]
          BY <1>7, <2>0, <4>2
        <5>2. QED
          BY <5>1 DEF KeepsStanding, StartStands
      <4>3. QED
        BY <4>1, <4>2
    <3>2. ~Takes(o, Start)
      BY <1>1, <1>2, <1>3, <2>1, StepMoves
    <3>3. QED
      BY <1>1, <1>9, <1>11, <3>1, <3>2, StartStays DEF Prepared
  <2>2. CASE o = r /\ x = Start
    <3>1. new = [run |-> r, start |-> TRUE]
      BY <2>2, PlacesAre
    <3>2. milestones'[s] = then
      BY <1>4, <1>7
    <3>3. Stands(Capped(Append(milestones[s], [run |-> r, start |-> TRUE])), r)
      <4> HIDE DEF s
      <4>1. QED
        BY <1>6, OwnStands
    <3>4. Stands(milestones'[s], r)
      BY <3>1, <3>2, <3>3
    <3>5. Session(r)' = Session(r)
      BY <1>1, <1>9, <1>11, MovesSay
    <3>6. QED
      BY <2>2, <3>4, <3>5 DEF StartIsThere, StartStands
  <2>3. CASE o = r /\ x # Start
    <3>1. CASE x \in Calling \cup Ending
      <4>1. runs[r].todo \subseteq Calling \cup Ending
        BY <1>1, <1>2, <3>1, StepsAre, CallingsDiffer DEF Prepared, StepsInOrder, InOrder
      <4>2. MilestonesShown \notin runs[r].todo
        BY <4>1, StepsAre, PlacesAre
      <4>3. ~Prepares(r, MilestonesShown)'
        BY <1>1, <1>9, <1>11, <4>2, MovesSay DEF Prepares
      <4>4. QED
        BY <2>3, <4>3 DEF StartIsThere, Past
    <3>2. CASE x \notin Calling \cup Ending
      <4>1. x \in BeforePrompt /\ x.kind # "start"
        BY <1>3, <1>4, <2>3, <3>2, StepsAre
      <4>2. x.place < 6
        BY <1>3, <4>1, StepsAre
      <4>3. Start \in runs[r].todo
        BY <1>1, <3>2, <4>1, <4>2, PlacesAre, StillAhead DEF Prepared
      <4>4. runs'[r].todo = runs[r].todo \ {x}
        BY <1>1, <1>2, <1>3, Popped
      <4>5. Prepares(r, Start)'
        BY <2>3, <4>3, <4>4 DEF Prepares
      <4>6. QED
        BY <2>3, <4>5 DEF StartIsThere, Past
    <3>3. QED
      BY <3>1, <3>2
  <2>4. QED
    BY <2>1, <2>2, <2>3
<1>14. ASSUME NEW o \in NoteRuns PROVE Prepared(o)'
  <2>1. StepsInOrder(o)'
    BY <1>1, <1>9, <1>10, <1>11, <1>12, StepsStay DEF Prepared
  <2>2. TaskIsThere(o)'
    BY <1>1, <1>9, <1>10, <1>11, TaskStays DEF Prepared
  <2>3. StartIsTold(o)'
    BY <1>1, <1>12, StartStaysTold DEF Prepared
  <2>4. TaskIsTold(o)'
    BY <1>1, <1>9, <1>10, <1>11, <1>12, TaskStaysTold DEF Prepared
  <2>5. CorrectionsAreTold(o)'
    BY <1>1, <1>9, <1>10, <1>11, <1>12, CorrectionsStayTold DEF Prepared
  <2>6. QED
    BY <1>13, <2>1, <2>2, <2>3, <2>4, <2>5 DEF Prepared
<1>15. HaveMet'
  BY <1>1, <1>9, <1>10, <1>11, HaveMetStays
<1>16. QED
  BY <1>9, <1>14, <1>15 DEF PromptInv

(* Who sets the task has met all whose task it was to be.                  *)
LEMMA SetTaskKeeps ==
  ASSUME PromptInv, NEW r \in NoteRuns, SetTask(r)
  PROVE  PromptInv'
<1>1. PromptTyped /\ HaveMet /\ \A o \in NoteRuns : Prepared(o)
  BY DEF PromptInv
<1>2. PICK x \in runs[r].todo : Due(r, x, "set") /\ Done(r, x)
  BY DEF SetTask
<1>3. runs[r].shown \in Prompts /\ Shows(r, x, runs[r].shown) /\ x.does = "set"
  BY <1>1, <1>2, ShownStays DEF Due
<1>4. /\ runs' \in [NoteRuns -> RunStates] /\ Session(r) \in NoteSessions
      /\ x \in BeforePrompt \cup Calling \cup Ending
  BY <1>1, <1>2, <1>3, Popped, BusyHasSession DEF Prepared
<1>5. x = TaskSet /\ x \notin Calling \cup Ending /\ x \in BeforePrompt
  BY <1>3, <1>4, StepsAre
<1>6. tasks' = [tasks EXCEPT ![Session(r)] = r]
  BY DEF SetTask
<1>7. PromptTyped'
  <2>1. tasks' \in [NoteSessions -> NoteRuns \cup {Nobody}]
    BY <1>1, <1>4, <1>6 DEF PromptTyped
  <2>2. UNCHANGED <<storage, milestones, stored, memories, toolResults, met, calls>>
    BY DEF SetTask
  <2>3. QED
    BY <1>1, <1>4, <2>1, <2>2 DEF PromptTyped
<1>8. MemoriesGrow /\ UNCHANGED <<milestones, met>>
  BY DEF SetTask, MemoriesGrow
<1>9. \A o \in NoteRuns : Moves(o) /\ \A y \in {Start, TaskShown, MemoriesShown} : ~Takes(o, y)
  BY <1>1, <1>2, <1>3, StepMoves, PlacesAre
<1>10. \A o \in NoteRuns : runs'[o].shown = runs[o].shown
  <2>1. runs'[r].shown = runs[r].shown /\ \A o \in NoteRuns \ {r} : runs'[o] = runs[o]
    BY <1>1, <1>2, <1>3, Popped
  <2>2. QED
    BY <2>1
<1>11. Prepares(r, TaskShown)
  BY <1>1, <1>2, <1>5, PlacesAre, StillAhead DEF Prepared, Prepares
<1>12. ASSUME NEW o \in NoteRuns PROVE TaskIsThere(o)'
  <2> SUFFICES ASSUME Prepares(o, TaskShown)' PROVE TaskIsThere(o)'
    BY DEF TaskIsThere, Past
  <2>1. Session(o)' = Session(o) /\ Prepares(o, TaskShown)
    BY <1>1, <1>7, <1>9, MovesSay
  <2>0. Session(o) \in NoteSessions
    BY <1>1, <2>1, BusyHasSession DEF Prepared, Prepares
  <2>2. CASE Session(o) = Session(r)
    <3>1. tasks'[Session(o)] = r
      BY <1>1, <1>4, <1>6, <2>2 DEF PromptTyped
    <3>2. o # r /\ Prepares(o, TaskShown) => {o, r} \in met
      BY <1>1, <1>11, <2>2 DEF HaveMet
    <3>3. QED
      BY <1>8, <2>1, <3>1, <3>2 DEF TaskIsThere, Past
  <2>3. CASE Session(o) # Session(r)
    <3>1. o # r
      BY <2>3
    <3>2. ~Takes(o, TaskSet)
      BY <1>1, <1>2, <1>3, <3>1, StepMoves
    <3>3. tasks'[Session(o)] = tasks[Session(o)]
      BY <1>1, <1>6, <2>0, <2>3 DEF PromptTyped
    <3>4. QED
      BY <1>1, <1>7, <1>8, <1>9, <3>2, <3>3, TaskStays DEF Prepared
  <2>4. QED
    BY <2>2, <2>3
<1>13. ASSUME NEW o \in NoteRuns PROVE Prepared(o)'
  <2>1. StepsInOrder(o)'
    BY <1>1, <1>7, <1>8, <1>9, <1>10, StepsStay DEF Prepared
  <2>2. StartIsThere(o)'
    <3>1. KeepsStanding(o)
      BY <1>8 DEF KeepsStanding, StartStands
    <3>2. QED
      BY <1>1, <1>7, <1>9, <3>1, StartStays DEF Prepared
  <2>3. StartIsTold(o)'
    BY <1>1, <1>10, StartStaysTold DEF Prepared
  <2>4. TaskIsTold(o)'
    BY <1>1, <1>7, <1>8, <1>9, <1>10, TaskStaysTold DEF Prepared
  <2>5. CorrectionsAreTold(o)'
    BY <1>1, <1>7, <1>8, <1>9, <1>10, CorrectionsStayTold DEF Prepared
  <2>6. QED
    BY <1>12, <2>1, <2>2, <2>3, <2>4, <2>5 DEF Prepared
<1>14. HaveMet'
  BY <1>1, <1>7, <1>8, <1>9, HaveMetStays
<1>15. QED
  BY <1>7, <1>13, <1>14 DEF PromptInv

--------------------------------------------------------------------------------
(* What the providers show.  Of the others nothing changes.                *)
LEMMA OthersWait ==
  ASSUME PromptInv, PromptTyped', NEW r \in NoteRuns, NEW x, NEW does, Due(r, x, does),
         NEW prompt \in Prompts, Shows(r, x, prompt),
         memories' = memories, tasks' = tasks, met' = met, milestones' = milestones
  PROVE  \A o \in NoteRuns \ {r} : Prepared(o)'
<1> SUFFICES ASSUME NEW o \in NoteRuns \ {r} PROVE Prepared(o)'
  OBVIOUS
<1>1. PromptTyped /\ Prepared(o) /\ o \in NoteRuns
  BY DEF PromptInv
<1>2. Moves(o) /\ \A y : ~Takes(o, y)
  BY <1>1, StepMoves
<1>3. runs'[o] = runs[o]
  BY <1>1, Popped
<1>4. MemoriesGrow /\ KeepsStanding(o)
  BY DEF MemoriesGrow, KeepsStanding, StartStands
<1>5. /\ runs'[o].shown.milestones = runs[o].shown.milestones
      /\ runs'[o].shown.task = runs[o].shown.task
      /\ runs'[o].shown.memories = runs[o].shown.memories
  BY <1>3
<1>6. QED
  BY <1>1, <1>2, <1>4, <1>5, StaysPrepared

(* Of the steps that every run takes those before the one due are done.    *)
LEMMA DoneBefore ==
  ASSUME PromptTyped, NEW r \in NoteRuns, StepsInOrder(r), NEW x \in BeforePrompt, NEW does,
         Due(r, x, does), NEW y \in Always, y.place < x.place
  PROVE  ~Prepares(r, y)
<1>1. x.place \in Nat /\ y.place \in Nat
  BY StepsAre DEF Steps
<1>2. QED
  BY <1>1 DEF Due, Prepares

LEMMA ProvideTaskKeeps ==
  ASSUME PromptInv, NEW r \in NoteRuns, ProvideTask(r)
  PROVE  PromptInv'
<1>1. PromptTyped /\ HaveMet /\ \A o \in NoteRuns : Prepared(o)
  BY DEF PromptInv
<1> DEFINE prompt == [runs[r].shown EXCEPT !.task = tasks[Session(r)]]
<1>2. PICK x \in runs[r].todo : Due(r, x, "provide") /\ x.kind = "task" /\ Shows(r, x, prompt)
  BY DEF ProvideTask, Provide
<1>3. Session(r) \in NoteSessions /\ x \in BeforePrompt \cup Calling \cup Ending
  BY <1>1, <1>2, BusyHasSession DEF Prepared
<1>4. x.does = "provide" /\ x \in BeforePrompt /\ x = TaskShown
  BY <1>2, <1>3, StepsAre DEF Due
<1>5. /\ prompt \in Prompts /\ prompt.task = tasks[Session(r)]
      /\ prompt.memories = runs[r].shown.memories /\ prompt.milestones = runs[r].shown.milestones
  <2>1. runs[r].shown \in Prompts /\ tasks[Session(r)] \in NoteRuns \cup {Nobody}
    BY <1>1, <1>3, ShownTyped DEF PromptTyped
  <2>2. QED
    BY <2>1 DEF Prompts
<1> HIDE DEF prompt
<1>6. runs' \in [NoteRuns -> RunStates] /\ runs'[r].shown = prompt
  BY <1>1, <1>2, <1>5, Popped
<1>7. UNCHANGED <<storage, milestones, stored, memories, tasks, toolResults, met, calls>>
  BY DEF ProvideTask, Provide
<1>8. PromptTyped'
  BY <1>1, <1>6, <1>7 DEF PromptTyped
<1>9. MemoriesGrow /\ KeepsStanding(r)
  BY <1>7 DEF MemoriesGrow, KeepsStanding, StartStands
<1>10. \A o \in NoteRuns : Moves(o)
  BY <1>1, <1>2, <1>5, StepMoves
<1>11. \A y \in {Start, TaskSet, MemoriesShown} : ~Takes(r, y)
  BY <1>1, <1>2, <1>4, <1>5, StepMoves, PlacesAre
<1>12. Past(r, TaskSet, TaskShown)
  <2>1. ~Prepares(r, TaskSet)
    BY <1>1, <1>2, <1>4, PlacesAre, DoneBefore DEF Prepared
  <2>2. QED
    BY <1>2, <1>4, <2>1 DEF Past, Prepares
<1>13. OwnTaskIsShown(r)'
  <2>1. tasks[Session(r)] = r \/ {r, tasks[Session(r)]} \in met
    BY <1>1, <1>12 DEF Prepared, TaskIsThere
  <2>2. runs'[r].shown.task = tasks[Session(r)]
    BY <1>5, <1>6
  <2>3. QED
    BY <1>7, <2>1, <2>2 DEF OwnTaskIsShown, Shown
<1>14. Prepared(r)'
  <2>1. /\ runs'[r].shown.milestones = runs[r].shown.milestones
        /\ runs'[r].shown.memories = runs[r].shown.memories
    BY <1>5, <1>6
  <2>2. StepsInOrder(r)'
    BY <1>1, <1>8, <1>9, <1>10, <2>1, StepsStay DEF Prepared
  <2>3. StartIsThere(r)'
    BY <1>1, <1>8, <1>9, <1>10, <1>11, StartStays DEF Prepared
  <2>4. TaskIsThere(r)'
    BY <1>1, <1>7, <1>8, <1>10, <1>11, TaskStays DEF Prepared
  <2>5. StartIsTold(r)'
    BY <1>1, <2>1, StartStaysTold DEF Prepared
  <2>6. TaskIsTold(r)'
    BY <1>13 DEF TaskIsTold
  <2>7. CorrectionsAreTold(r)'
    BY <1>1, <1>8, <1>9, <1>10, <1>11, <2>1, CorrectionsStayTold DEF Prepared
  <2>8. QED
    BY <2>2, <2>3, <2>4, <2>5, <2>6, <2>7 DEF Prepared
<1>15. \A o \in NoteRuns \ {r} : Prepared(o)'
  BY <1>2, <1>5, <1>7, <1>8, OthersWait
<1>16. HaveMet'
  BY <1>1, <1>7, <1>8, <1>10, HaveMetStays
<1>17. QED
  BY <1>8, <1>14, <1>15, <1>16 DEF PromptInv

LEMMA ProvideMemoriesKeeps ==
  ASSUME PromptInv, NEW r \in NoteRuns, ProvideMemories(r)
  PROVE  PromptInv'
<1>1. PromptTyped /\ HaveMet /\ \A o \in NoteRuns : Prepared(o)
  BY DEF PromptInv
<1> DEFINE found == ListByUser(r)
           prompt == [runs[r].shown EXCEPT !.memories = found]
<1>2. PICK x \in runs[r].todo : Due(r, x, "provide") /\ x.kind = "memories" /\ Shows(r, x, prompt)
  BY DEF ProvideMemories, Provide
<1>3. Session(r) \in NoteSessions /\ x \in BeforePrompt \cup Calling \cup Ending
  BY <1>1, <1>2, BusyHasSession DEF Prepared
<1>4. x.does = "provide" /\ x \in BeforePrompt /\ x = MemoriesShown
  BY <1>2, <1>3, StepsAre DEF Due
<1>5. runs[r].since \in Nat /\ runs[r].since <= Len(memories)
  BY <1>1, ShownTyped DEF Prepared, StepsInOrder
<1>6. /\ found \in SUBSET Corrections
      /\ \A m \in found : m.user = Owner[Session(r)]
      /\ \A i \in 1 .. runs[r].since :
           memories[i].user = Owner[Session(r)] =>
             memories[i] \in found
               \/ Cardinality(CorrectedLater(Owner[Session(r)], i)) >= MaxMemories
  BY <1>1, <1>5, CorrectionsFound
<1> HIDE DEF found
<1>7. /\ prompt \in Prompts /\ prompt.task = runs[r].shown.task
      /\ prompt.memories = found /\ prompt.milestones = runs[r].shown.milestones
  BY <1>1, <1>6, ShownTyped DEF Prompts
<1> HIDE DEF prompt
<1>8. /\ runs' \in [NoteRuns -> RunStates] /\ runs'[r].shown = prompt
      /\ runs'[r].session = runs[r].session /\ runs'[r].since = runs[r].since
  BY <1>1, <1>2, <1>7, Popped
<1>9. UNCHANGED <<storage, milestones, stored, memories, tasks, toolResults, met, calls>>
  BY DEF ProvideMemories, Provide
<1>10. PromptTyped'
  BY <1>1, <1>8, <1>9 DEF PromptTyped
<1>11. MemoriesGrow /\ KeepsStanding(r)
  BY <1>9 DEF MemoriesGrow, KeepsStanding, StartStands
<1>12. \A o \in NoteRuns : Moves(o)
  BY <1>1, <1>2, <1>7, StepMoves
<1>13. \A y \in {Start, TaskSet, TaskShown} : ~Takes(r, y)
  BY <1>1, <1>2, <1>4, <1>7, StepMoves, PlacesAre
<1>14. CorrectionsAreShown(r)'
  <2>1. runs'[r].shown.memories = found /\ Session(r)' = Session(r)
    BY <1>7, <1>8 DEF Session
  <2>2. QED
    BY <1>6, <1>8, <1>9, <2>1 DEF CorrectionsAreShown, CorrectedLater, Shown
<1>15. Prepared(r)'
  <2>1. /\ runs'[r].shown.milestones = runs[r].shown.milestones
        /\ runs'[r].shown.task = runs[r].shown.task
    BY <1>7, <1>8
  <2>2. StepsInOrder(r)'
    BY <1>1, <1>10, <1>11, <1>12, <2>1, StepsStay DEF Prepared
  <2>3. StartIsThere(r)'
    BY <1>1, <1>10, <1>11, <1>12, <1>13, StartStays DEF Prepared
  <2>4. TaskIsThere(r)'
    BY <1>1, <1>9, <1>10, <1>12, <1>13, TaskStays DEF Prepared
  <2>5. StartIsTold(r)'
    BY <1>1, <2>1, StartStaysTold DEF Prepared
  <2>6. TaskIsTold(r)'
    BY <1>1, <1>9, <1>10, <1>12, <1>13, <2>1, TaskStaysTold DEF Prepared
  <2>7. CorrectionsAreTold(r)'
    BY <1>14 DEF CorrectionsAreTold
  <2>8. QED
    BY <2>2, <2>3, <2>4, <2>5, <2>6, <2>7 DEF Prepared
<1>16. \A o \in NoteRuns \ {r} : Prepared(o)'
  BY <1>2, <1>7, <1>9, <1>10, OthersWait
<1>17. HaveMet'
  BY <1>1, <1>9, <1>10, <1>12, HaveMetStays
<1>18. QED
  BY <1>10, <1>15, <1>16, <1>17 DEF PromptInv

(* The milestones come last, when all the rest is there and shown.         *)
LEMMA ProvideMilestonesKeeps ==
  ASSUME PromptInv, NEW r \in NoteRuns, ProvideMilestones(r)
  PROVE  PromptInv'
<1>1. PromptTyped /\ HaveMet /\ \A o \in NoteRuns : Prepared(o)
  BY DEF PromptInv
<1> DEFINE got == GetMilestones(Session(r))
           last == LastOf(got, MaxShown)
           prompt == [runs[r].shown EXCEPT !.milestones = last]
<1>2. /\ \E x \in runs[r].todo : Due(r, x, "provide") /\ x.kind = "milestones" /\ Shows(r, x, prompt)
      /\ milestones' = [milestones EXCEPT ![Session(r)] = got]
      /\ UNCHANGED <<storage, stored, memories, tasks, toolResults, met, calls>>
  BY DEF ProvideMilestones, Provide
<1>3. PICK x \in runs[r].todo : Due(r, x, "provide") /\ x.kind = "milestones" /\ Shows(r, x, prompt)
  BY <1>2
<1>4. Session(r) \in NoteSessions /\ x \in BeforePrompt \cup Calling \cup Ending
  BY <1>1, <1>3, BusyHasSession DEF Prepared
<1>5. x.does = "provide" /\ x \in BeforePrompt /\ x = MilestonesShown
  BY <1>3, <1>4, StepsAre DEF Due
<1>6. /\ Past(r, Start, MilestonesShown) /\ Past(r, TaskShown, MilestonesShown)
      /\ Past(r, MemoriesShown, MilestonesShown)
  <2>1. ~Prepares(r, Start) /\ ~Prepares(r, TaskShown) /\ ~Prepares(r, MemoriesShown)
    BY <1>1, <1>3, <1>5, PlacesAre, DoneBefore DEF Prepared
  <2>2. QED
    BY <1>3, <1>5, <2>1 DEF Past, Prepares
<1>7. StartStands(r) /\ OwnTaskIsShown(r) /\ CorrectionsAreShown(r)
  BY <1>1, <1>6 DEF Prepared, StartIsThere, TaskIsTold, CorrectionsAreTold
<1>8. milestones[Session(r)] \in Seq(Milestones) /\ milestones \in [NoteSessions -> Seq(Milestones)]
  BY <1>1, <1>4 DEF PromptTyped
<1>9. got = milestones[Session(r)]
  <2>1. ASSUME milestones[Session(r)] = << >> PROVE FALSE
    <3>1. Len(milestones[Session(r)]) = 0 /\ DOMAIN milestones[Session(r)] = {}
      BY <2>1
    <3>2. MaxMilestones # 0
      BY LimitsOfPrompts
    <3>3. QED
      BY <1>7, <3>1, <3>2 DEF StartStands, Stands
  <2>2. QED
    BY <2>1 DEF GetMilestones
<1>10. milestones' = milestones
  BY <1>2, <1>4, <1>8, <1>9
<1>11. last = LastOf(milestones[Session(r)], MaxShown)
  BY <1>9
<1>12. last \in Seq(Milestones)
  <2> HIDE DEF last
  <2>1. QED
    BY <1>8, <1>11, LimitsOfPrompts, LastOfIs
<1>13. \/ [run |-> r, start |-> TRUE] \in ToSet(last)
       \/ Len(last) = MaxShown /\ \A i \in DOMAIN last : last[i].run # r
  <2> HIDE DEF last
  <2>1. QED
    BY <1>1, <1>4, <1>7, <1>11, StartIsShown
<1> HIDE DEF last
<1>14. /\ prompt \in Prompts /\ prompt.task = runs[r].shown.task
       /\ prompt.memories = runs[r].shown.memories /\ prompt.milestones = last
  BY <1>1, <1>12, ShownTyped DEF Prompts
<1> HIDE DEF prompt, got
<1>15. /\ runs' \in [NoteRuns -> RunStates] /\ runs'[r].shown = prompt
       /\ runs'[r].session = runs[r].session /\ runs'[r].since = runs[r].since
       /\ runs'[r].todo = runs[r].todo \ {x}
  BY <1>1, <1>3, <1>14, Popped
<1>16. PromptTyped'
  BY <1>1, <1>2, <1>10, <1>15 DEF PromptTyped
<1>17. \A o \in NoteRuns : Moves(o)
  BY <1>1, <1>3, <1>14, StepMoves
<1>18. ~Prepares(r, MilestonesShown)' /\ ~Prepares(r, TaskShown)'
  <2>1. ~Prepares(r, TaskShown)
    BY <1>6 DEF Past
  <2>2. QED
    BY <1>5, <1>15, <2>1 DEF Prepares
<1>19. StepsInOrder(r)'
  <2>1. Session(r)' # Nobody
    BY <1>4, <1>15, LimitsOfPrompts DEF Session
  <2>2. runs'[r].since <= Len(memories')
    BY <1>1, <1>2, <1>15 DEF Prepared, StepsInOrder
  <2>3. InOrder(runs'[r])
    <3>1. InOrder(runs[r]) /\ \A y \in runs[r].todo : x.place <= y.place
      BY <1>1, <1>3 DEF Prepared, StepsInOrder, Due
    <3>2. QED
      BY <1>15, <3>1, OrderKept
  <2>4. \A y \in runs'[r].todo : y.does # "provide"
    <3> SUFFICES ASSUME NEW y \in runs[r].todo, y # x, y.does = "provide" PROVE FALSE
      BY <1>15
    <3>1. y \in BeforePrompt \cup Calling \cup Ending
      BY <1>1, BusyHasSession DEF Prepared
    <3>2. y \in BeforePrompt /\ x.place <= y.place
      BY <1>3, <3>1, StepsAre DEF Due
    <3>3. y.place >= 12
      BY <1>5, <3>2, PlacesAre, StepsAre DEF Steps
    <3>4. QED
      BY <1>5, <3>2, <3>3, StepsAre
  <2>5. QED
    BY <2>1, <2>2, <2>3, <2>4 DEF StepsInOrder
<1>20. StartIsTold(r)'
  <2>1. Shown(r)' = prompt
    BY <1>15 DEF Shown
  <2>2. QED
    BY <1>13, <1>14, <2>1 DEF StartIsTold, OwnStartIsShown
<1>21. TaskIsTold(r)'
  <2>1. OwnTaskIsShown(r)'
    BY <1>2, <1>7, <1>14, <1>15 DEF OwnTaskIsShown, Shown
  <2>2. QED
    BY <2>1 DEF TaskIsTold
<1>22. CorrectionsAreTold(r)'
  <2>1. CorrectionsAreShown(r)'
    BY <1>2, <1>7, <1>14, <1>15 DEF CorrectionsAreShown, Shown, Session
  <2>2. QED
    BY <2>1 DEF CorrectionsAreTold
<1>23. StartIsThere(r)' /\ TaskIsThere(r)'
  BY <1>18 DEF StartIsThere, TaskIsThere, Past
<1>24. Prepared(r)'
  BY <1>19, <1>20, <1>21, <1>22, <1>23 DEF Prepared
<1>25. \A o \in NoteRuns \ {r} : Prepared(o)'
  BY <1>2, <1>3, <1>10, <1>14, <1>16, OthersWait
<1>26. HaveMet'
  BY <1>1, <1>2, <1>16, <1>17, HaveMetStays
<1>27. QED
  BY <1>16, <1>24, <1>25, <1>26 DEF PromptInv

--------------------------------------------------------------------------------
(* Beginnings and ends *)

LEMMA NoRunTyped == NoRun \in RunStates
<1>1. NoPrompt \in Prompts
  BY EmptySeq DEF NoPrompt, Prompts
<1>2. QED
  BY <1>1 DEF NoRun, RunStates

(* Who begins meets all who are under way.                                 *)
LEMMA BeginRunKeeps ==
  ASSUME PromptInv, NEW r \in NoteRuns, NEW s \in NoteSessions, NEW kind \in {"input", "correction"},
         BeginRun(r, s, kind)
  PROVE  PromptInv'
<1>1. PromptTyped /\ HaveMet /\ \A o \in NoteRuns : Prepared(o)
  BY DEF PromptInv
<1>2. PICK planned \in {{}, Planning}, resumed \in {{}, Resuming} :
        runs' = [runs EXCEPT ![r] = [NoRun EXCEPT !.session = s,
                   !.todo = planned \cup Preparing(kind) \cup resumed, !.since = Len(memories)]]
  BY DEF BeginRun
<1> DEFINE todo == planned \cup Preparing(kind) \cup resumed
           begun == [NoRun EXCEPT !.session = s, !.todo = todo, !.since = Len(memories)]
<1>3. /\ UNCHANGED <<storage, milestones, stored, memories, tasks, toolResults, calls>>
      /\ met' = met \cup {{r, q} : q \in UnderWay(s)}
  BY DEF BeginRun, notes
<1>4. todo \subseteq BeforePrompt /\ Always \subseteq todo
  <2>1. Preparing(kind) \subseteq BeforePrompt
    BY DEF BeforePrompt
  <2>2. Always \subseteq Preparing(kind)
    BY DEF Always, Preparing, TaskSet, TaskShown, MemoriesShown, MilestonesShown
  <2>3. QED
    BY <2>1, <2>2 DEF BeforePrompt
<1> HIDE DEF todo
<1>5. Len(memories) \in Nat
  BY <1>1, MemoriesTyped
<1>6. /\ begun \in RunStates /\ begun.session = s /\ begun.todo = todo /\ begun.since = Len(memories)
      /\ begun.shown.milestones = << >>
  BY <1>4, <1>5, NoRunTyped, StepsAre DEF NoRun, NoPrompt, RunStates
<1>7. runs' = [runs EXCEPT ![r] = begun]
  BY <1>2 DEF todo
<1> HIDE DEF begun
<1>8. /\ runs' \in [NoteRuns -> RunStates] /\ runs'[r] = begun
      /\ \A o \in NoteRuns \ {r} : runs'[o] = runs[o]
  BY <1>1, <1>6, <1>7 DEF PromptTyped
<1>9. PromptTyped'
  BY <1>1, <1>3, <1>8 DEF PromptTyped
<1>10. Prepared(r)'
  <2>1. \A x \in Always : Prepares(r, x)'
    BY <1>4, <1>6, <1>8 DEF Prepares
  <2>2. ~Prompted(r)'
    BY <1>6, <1>8 DEF Prompted, Shown
  <2>3. StepsInOrder(r)'
    <3>1. Session(r)' # Nobody
      BY <1>6, <1>8, LimitsOfPrompts DEF Session
    <3>2. runs'[r].since <= Len(memories')
      BY <1>3, <1>5, <1>6, <1>8
    <3>3. InOrder(runs'[r])
      BY <1>4, <1>6, <1>8 DEF InOrder
    <3>4. QED
      BY <2>2, <3>1, <3>2, <3>3 DEF StepsInOrder
  <2>4. QED
    BY <2>1, <2>2, <2>3, PlacesAre
       DEF Prepared, StartIsThere, TaskIsThere, StartIsTold, TaskIsTold, CorrectionsAreTold, Past
<1>11. met \subseteq met'
  BY <1>3
<1>12. ASSUME NEW o \in NoteRuns \ {r} PROVE Prepared(o)'
  <2>1. Moves(o) /\ \A y : ~Takes(o, y)
    BY <1>8 DEF Moves, Waits, Takes
  <2>2. MemoriesGrow /\ KeepsStanding(o)
    BY <1>3 DEF MemoriesGrow, KeepsStanding, StartStands
  <2>3. /\ runs'[o].shown.milestones = runs[o].shown.milestones
        /\ runs'[o].shown.task = runs[o].shown.task
        /\ runs'[o].shown.memories = runs[o].shown.memories
    BY <1>8
  <2>4. QED
    BY <1>1, <1>3, <1>9, <1>11, <2>1, <2>2, <2>3, StaysPrepared
<1>13. HaveMet'
  <2> SUFFICES ASSUME NEW p \in NoteRuns, NEW q \in NoteRuns, p # q, Session(p)' = Session(q)',
                      Prepares(p, TaskShown)', Prepares(q, TaskShown)'
               PROVE  {p, q} \in met'
    BY DEF HaveMet
  <2>1. ASSUME NEW o \in NoteRuns \ {r}, Session(o)' = Session(r)', Prepares(o, TaskShown)'
        PROVE  {r, o} \in met'
    <3>1. runs[o].session = s /\ TaskShown \in runs[o].todo
      BY <1>6, <1>8, <2>1 DEF Session, Prepares
    <3>2. o \in UnderWay(s)
      BY <3>1 DEF UnderWay, Session
    <3>3. QED
      BY <1>3, <3>2
  <2>2. CASE p = r
    BY <2>1, <2>2
  <2>3. CASE q = r
    <3>1. {r, p} \in met' /\ {r, p} = {p, q}
      BY <2>1, <2>3
    <3>2. QED
      BY <3>1
  <2>4. CASE p # r /\ q # r
    <3>1. Session(p) = Session(q) /\ Prepares(p, TaskShown) /\ Prepares(q, TaskShown)
      BY <1>8, <2>4 DEF Session, Prepares
    <3>2. QED
      BY <1>1, <1>11, <3>1 DEF HaveMet
  <2>5. QED
    BY <2>2, <2>3, <2>4
<1>14. QED
  BY <1>9, <1>10, <1>12, <1>13 DEF PromptInv

(* Between its rounds and when it ends a run has none of those steps.      *)
LEMMA WorkKeeps ==
  ASSUME PromptInv, NEW r \in NoteRuns, runs[r].todo = {}, Session(r) # Nobody,
         runs' \in [NoteRuns -> RunStates], \A o \in NoteRuns \ {r} : runs'[o] = runs[o],
         runs'[r].todo \subseteq Calling \cup Ending, runs'[r].shown = runs[r].shown,
         runs'[r].session = runs[r].session, runs'[r].since = runs[r].since,
         UNCHANGED <<storage, notes, met>>, calls' \in 0 .. MaxCalls
  PROVE  PromptInv'
<1>1. PromptTyped /\ HaveMet /\ \A o \in NoteRuns : Prepared(o)
  BY DEF PromptInv
<1>2. UNCHANGED <<storage, milestones, stored, memories, tasks, toolResults, met>>
  BY DEF notes
<1>3. PromptTyped'
  BY <1>1, <1>2 DEF PromptTyped
<1>4. \A y \in Always : ~Prepares(r, y)'
  BY StepsAre, CallingsDiffer DEF Prepares
<1>5. Prepared(r)'
  <2>1. StepsInOrder(r)'
    <3>1. Session(r)' # Nobody /\ InOrder(runs'[r])
      BY DEF Session, InOrder
    <3>2. runs'[r].since <= Len(memories')
      BY <1>1, <1>2 DEF Prepared, StepsInOrder
    <3>3. \A x \in runs'[r].todo : x.does # "provide"
      BY StepsAre
    <3>4. QED
      BY <3>1, <3>2, <3>3 DEF StepsInOrder
  <2>2. StartIsThere(r)' /\ TaskIsThere(r)'
    BY <1>4, PlacesAre DEF StartIsThere, TaskIsThere, Past
  <2>3. StartIsTold(r)'
    BY <1>1, StartStaysTold DEF Prepared
  <2>4. TaskIsTold(r)'
    <3>1. ~Past(r, TaskShown, MilestonesShown)'
      BY <1>4, PlacesAre DEF Past
    <3>2. Prompted(r)' => OwnTaskIsShown(r)'
      BY <1>1, <1>2 DEF Prepared, TaskIsTold, Prompted, OwnTaskIsShown, Shown
    <3>3. QED
      BY <3>1, <3>2 DEF TaskIsTold
  <2>5. CorrectionsAreTold(r)'
    <3>1. ~Past(r, MemoriesShown, MilestonesShown)'
      BY <1>4, PlacesAre DEF Past
    <3>2. Prompted(r)' => CorrectionsAreShown(r)'
      BY <1>1, <1>2 DEF Prepared, CorrectionsAreTold, Prompted, CorrectionsAreShown, Shown, Session
    <3>3. QED
      BY <3>1, <3>2 DEF CorrectionsAreTold
  <2>6. QED
    BY <2>1, <2>2, <2>3, <2>4, <2>5 DEF Prepared
<1>6. ASSUME NEW o \in NoteRuns \ {r} PROVE Prepared(o)'
  <2>1. Moves(o) /\ \A y : ~Takes(o, y)
    BY DEF Moves, Waits, Takes
  <2>2. MemoriesGrow /\ KeepsStanding(o)
    BY <1>2 DEF MemoriesGrow, KeepsStanding, StartStands
  <2>3. /\ runs'[o].shown.milestones = runs[o].shown.milestones
        /\ runs'[o].shown.task = runs[o].shown.task
        /\ runs'[o].shown.memories = runs[o].shown.memories
    OBVIOUS
  <2>4. QED
    BY <1>1, <1>2, <1>3, <2>1, <2>2, <2>3, StaysPrepared
<1>7. HaveMet'
  <2> SUFFICES ASSUME NEW p \in NoteRuns, NEW q \in NoteRuns, p # q, Session(p)' = Session(q)',
                      Prepares(p, TaskShown)', Prepares(q, TaskShown)'
               PROVE  {p, q} \in met'
    BY DEF HaveMet
  <2>1. p # r /\ q # r
    BY <1>4, PlacesAre
  <2>2. Session(p) = Session(q) /\ Prepares(p, TaskShown) /\ Prepares(q, TaskShown)
    BY <2>1 DEF Session, Prepares
  <2>3. QED
    BY <1>1, <1>2, <2>2 DEF HaveMet
<1>8. QED
  BY <1>3, <1>5, <1>6, <1>7 DEF PromptInv

LEMMA CallToolKeeps ==
  ASSUME PromptInv, NEW r \in NoteRuns, CallTool(r)
  PROVE  PromptInv'
<1>1. /\ runs[r].todo = {} /\ Session(r) # Nobody /\ UNCHANGED <<storage, notes, met>>
      /\ runs' = [runs EXCEPT ![r].todo = Calling] /\ calls' = calls + 1 /\ calls < MaxCalls
  BY DEF CallTool, Works
<1>2. runs \in [NoteRuns -> RunStates] /\ runs[r] \in RunStates /\ calls \in 0 .. MaxCalls
  BY DEF PromptInv, PromptTyped
<1>3. Calling \subseteq Steps
  BY StepsAre
<1>4. runs' \in [NoteRuns -> RunStates] /\ \A o \in NoteRuns \ {r} : runs'[o] = runs[o]
  BY <1>1, <1>2, <1>3 DEF RunStates
<1>5. /\ runs'[r].todo = Calling /\ runs'[r].shown = runs[r].shown
      /\ runs'[r].session = runs[r].session /\ runs'[r].since = runs[r].since
  BY <1>1, <1>2 DEF RunStates
<1>6. calls' \in 0 .. MaxCalls
  BY <1>1, <1>2, LimitsOfPrompts
<1>7. runs'[r].todo \subseteq Calling \cup Ending
  BY <1>5
<1>8. QED
  BY <1>1, <1>4, <1>5, <1>6, <1>7, WorkKeeps

LEMMA EndRunKeeps ==
  ASSUME PromptInv, NEW r \in NoteRuns, EndRun(r)
  PROVE  PromptInv'
<1>1. /\ runs[r].todo = {} /\ Session(r) # Nobody /\ UNCHANGED <<storage, notes, met, calls>>
      /\ \E last \in {Ending, {}} : runs' = [runs EXCEPT ![r].todo = last, ![r].over = TRUE]
  BY DEF EndRun, Works
<1>2. PICK last \in {Ending, {}} : runs' = [runs EXCEPT ![r].todo = last, ![r].over = TRUE]
  BY <1>1
<1>3. runs \in [NoteRuns -> RunStates] /\ runs[r] \in RunStates /\ calls \in 0 .. MaxCalls
  BY DEF PromptInv, PromptTyped
<1>4. last \subseteq Steps /\ last \subseteq Calling \cup Ending
  BY StepsAre
<1>5. runs' \in [NoteRuns -> RunStates] /\ \A o \in NoteRuns \ {r} : runs'[o] = runs[o]
  BY <1>2, <1>3, <1>4 DEF RunStates
<1>6. /\ runs'[r].todo = last /\ runs'[r].shown = runs[r].shown
      /\ runs'[r].session = runs[r].session /\ runs'[r].since = runs[r].since
  BY <1>2, <1>3 DEF RunStates
<1>7. calls' \in 0 .. MaxCalls /\ runs'[r].todo \subseteq Calling \cup Ending
  BY <1>1, <1>3, <1>4, <1>6
<1>8. UNCHANGED <<storage, notes, met>>
  BY <1>1
<1>9. QED
  BY <1>1, <1>5, <1>6, <1>7, <1>8, WorkKeeps

(* A restart leaves what was shown, and nothing to do.                     *)
LEMMA PromptRestartsKeeps ==
  ASSUME PromptInv, PromptRestarts
  PROVE  PromptInv'
<1>1. PromptTyped /\ HaveMet /\ \A o \in NoteRuns : Prepared(o)
  BY DEF PromptInv
<1>2. /\ milestones' = [s \in NoteSessions |-> <<>>] /\ tasks' = [s \in NoteSessions |-> Nobody]
      /\ toolResults' = [s \in NoteSessions |-> <<>>]
      /\ runs' = [r \in NoteRuns |-> IF Session(r) = Nobody THEN NoRun
                                      ELSE [runs[r] EXCEPT !.todo = {}, !.over = TRUE]]
      /\ UNCHANGED <<storage, stored, memories, met, calls>>
  BY DEF PromptRestarts
<1>3. ASSUME NEW o \in NoteRuns
      PROVE  /\ runs'[o] \in RunStates /\ runs'[o].todo = {} /\ runs'[o].shown = runs[o].shown
             /\ runs'[o].session = runs[o].session /\ runs'[o].since = runs[o].since
             /\ Session(o) = Nobody => runs'[o] = NoRun
  <2>1. runs[o] \in RunStates
    BY <1>1, ShownTyped
  <2>2. CASE Session(o) = Nobody
    <3>1. runs[o] = NoRun /\ runs'[o] = NoRun
      BY <1>1, <1>2, <2>2 DEF Prepared, StepsInOrder
    <3>2. NoRun.todo = {}
      BY DEF NoRun
    <3>3. QED
      BY <2>1, <3>1, <3>2
  <2>3. CASE Session(o) # Nobody
    BY <1>2, <2>1, <2>3 DEF RunStates
  <2>4. QED
    BY <2>2, <2>3
<1>4. PromptTyped'
  <2>1. runs' \in [NoteRuns -> RunStates]
    BY <1>2, <1>3
  <2>2. << >> \in Seq(Milestones) /\ << >> \in Seq(NoteRuns) /\ Len(<< >>) = 0
    BY EmptySeq
  <2>3. /\ milestones' \in [NoteSessions -> Seq(Milestones)]
        /\ \A s \in NoteSessions : Len(milestones'[s]) <= MaxMilestones
        /\ toolResults' \in [NoteSessions -> Seq(NoteRuns)]
        /\ \A s \in NoteSessions : Len(toolResults'[s]) <= MaxKeep
    <3>0. 0 <= MaxMilestones /\ 0 <= MaxKeep
      BY LimitsOfPrompts
    <3>1. \A s \in NoteSessions : milestones'[s] = << >> /\ toolResults'[s] = << >>
      BY <1>2
    <3>2. /\ \A s \in NoteSessions : Len(milestones'[s]) <= MaxMilestones
          /\ \A s \in NoteSessions : Len(toolResults'[s]) <= MaxKeep
      BY <2>2, <3>0, <3>1
    <3>3. /\ milestones' \in [NoteSessions -> Seq(Milestones)]
          /\ toolResults' \in [NoteSessions -> Seq(NoteRuns)]
      BY <1>2, <2>2
    <3>4. QED
      BY <3>2, <3>3
  <2>4. tasks' \in [NoteSessions -> NoteRuns \cup {Nobody}]
    BY <1>2
  <2>5. QED
    BY <1>1, <1>2, <2>1, <2>3, <2>4 DEF PromptTyped
<1>5. ASSUME NEW o \in NoteRuns PROVE Prepared(o)'
  <2>0. Shown(o)' = Shown(o) /\ Session(o)' = Session(o) /\ runs'[o].since = runs[o].since
    BY <1>3 DEF Shown, Session
  <2>1. \A y : ~Prepares(o, y)'
    BY <1>3 DEF Prepares
  <2>2. StepsInOrder(o)'
    <3>1. Session(o)' = Nobody => runs'[o] = NoRun
      BY <1>3 DEF Session
    <3>2. runs'[o].since <= Len(memories')
      BY <1>1, <1>2, <1>3 DEF Prepared, StepsInOrder
    <3>3. InOrder(runs'[o]) /\ \A x \in runs'[o].todo : x.does # "provide"
      BY <1>3 DEF InOrder
    <3>4. QED
      BY <3>1, <3>2, <3>3 DEF StepsInOrder
  <2>3. StartIsThere(o)' /\ TaskIsThere(o)'
    BY <2>1 DEF StartIsThere, TaskIsThere, Past
  <2>4. StartIsTold(o)'
    BY <1>1, <1>3, StartStaysTold DEF Prepared
  <2>5. TaskIsTold(o)'
    <3>1. Prompted(o)' => OwnTaskIsShown(o)'
      BY <1>1, <1>2, <2>0 DEF Prepared, TaskIsTold, Prompted, OwnTaskIsShown
    <3>2. QED
      BY <2>1, <3>1 DEF TaskIsTold, Past
  <2>6. CorrectionsAreTold(o)'
    <3>1. Prompted(o)' => CorrectionsAreShown(o)'
      <4>1. CorrectionsAreShown(o) => CorrectionsAreShown(o)'
        BY <1>2, <2>0 DEF CorrectionsAreShown
      <4>2. QED
        BY <1>1, <2>0, <4>1 DEF Prepared, CorrectionsAreTold, Prompted
    <3>2. QED
      BY <2>1, <3>1 DEF CorrectionsAreTold, Past
  <2>7. QED
    BY <2>2, <2>3, <2>4, <2>5, <2>6 DEF Prepared
<1>6. HaveMet'
  BY <1>3 DEF HaveMet, Prepares
<1>7. QED
  BY <1>4, <1>5, <1>6 DEF PromptInv

LEMMA PromptUnchanged ==
  ASSUME PromptInv, UNCHANGED promptVars
  PROVE  PromptInv'
<1>1. UNCHANGED <<storage, milestones, stored, memories, tasks, toolResults, runs, met, calls>>
  BY DEF promptVars, notes
<1>2. PromptTyped'
  BY <1>1 DEF PromptInv, PromptTyped
<1>3. HaveMet'
  BY <1>1 DEF PromptInv, HaveMet, Session, Prepares
<1>4. ASSUME NEW o \in NoteRuns PROVE Prepared(o)'
  <2>1. PromptTyped /\ Prepared(o)
    BY DEF PromptInv
  <2>2. Moves(o) /\ MemoriesGrow /\ KeepsStanding(o)
    BY <1>1 DEF Moves, Waits, MemoriesGrow, KeepsStanding, StartStands
  <2>3. \A y : ~Takes(o, y)
    BY <1>1 DEF Takes
  <2>4. QED
    BY <1>1, <1>2, <2>1, <2>2, <2>3, StaysPrepared
<1>5. QED
  BY <1>2, <1>3, <1>4 DEF PromptInv

LEMMA PromptNextKeeps ==
  ASSUME PromptInv, PromptNext
  PROVE  PromptInv'
<1>1. CASE PromptRestarts
  BY <1>1, PromptRestartsKeeps
<1>2. CASE \E r \in NoteRuns : PromptRun(r)
  <2>1. PICK r \in NoteRuns : PromptRun(r)
    BY <1>2
  <2>2. CASE \E s \in NoteSessions, kind \in {"input", "correction"} : BeginRun(r, s, kind)
    BY <2>2, BeginRunKeeps
  <2>3. CASE NoteMilestone(r)
    BY <2>3, NoteMilestoneKeeps
  <2>4. CASE SaveMilestone(r)
    BY <2>4, SaveMilestoneKeeps
  <2>5. CASE RememberCorrection(r)
    BY <2>5, RememberCorrectionKeeps
  <2>6. CASE SetTask(r)
    BY <2>6, SetTaskKeeps
  <2>7. CASE Push(r)
    BY <2>7, PushKeeps
  <2>8. CASE ProvideTask(r)
    BY <2>8, ProvideTaskKeeps
  <2>9. CASE ProvideResults(r)
    BY <2>9, ProvideResultsKeeps
  <2>10. CASE ProvideMemories(r)
    BY <2>10, ProvideMemoriesKeeps
  <2>11. CASE ProvideMilestones(r)
    BY <2>11, ProvideMilestonesKeeps
  <2>12. CASE CallTool(r)
    BY <2>12, CallToolKeeps
  <2>13. CASE EndRun(r)
    BY <2>13, EndRunKeeps
  <2>14. QED
    BY <2>1, <2>2, <2>3, <2>4, <2>5, <2>6, <2>7, <2>8, <2>9, <2>10, <2>11, <2>12, <2>13 DEF PromptRun
<1>3. QED
  BY <1>1, <1>2 DEF PromptNext

LEMMA PromptInitially ==
  ASSUME PromptInit
  PROVE  PromptInv
<1>1. /\ milestones = [s \in NoteSessions |-> <<>>] /\ stored = [s \in NoteSessions |-> FALSE]
      /\ memories = <<>> /\ tasks = [s \in NoteSessions |-> Nobody]
      /\ toolResults = [s \in NoteSessions |-> <<>>] /\ runs = [r \in NoteRuns |-> NoRun]
      /\ met = {} /\ calls = 0 /\ storage \in {"mysql", "memory"}
  BY DEF PromptInit
<1>2. << >> \in Seq(Milestones) /\ << >> \in Seq(NoteRuns) /\ << >> \in Seq(Corrections) /\ Len(<< >>) = 0
  BY EmptySeq
<1>3. runs \in [NoteRuns -> RunStates]
  BY <1>1, NoRunTyped
<1>4. /\ milestones \in [NoteSessions -> Seq(Milestones)]
      /\ \A s \in NoteSessions : Len(milestones[s]) <= MaxMilestones
      /\ toolResults \in [NoteSessions -> Seq(NoteRuns)]
      /\ \A s \in NoteSessions : Len(toolResults[s]) <= MaxKeep
  BY <1>1, <1>2, LimitsOfPrompts
<1>5. /\ stored \in [NoteSessions -> BOOLEAN] /\ tasks \in [NoteSessions -> NoteRuns \cup {Nobody}]
      /\ memories \in Seq(Corrections) /\ calls \in 0 .. MaxCalls
  BY <1>1, <1>2, LimitsOfPrompts
<1>6. PromptTyped
  BY <1>1, <1>3, <1>4, <1>5 DEF PromptTyped
<1>7. ASSUME NEW o \in NoteRuns PROVE Prepared(o) /\ runs[o].todo = {}
  <2>1. runs[o] = NoRun
    BY <1>1
  <2>2. NoRun.todo = {} /\ NoRun.since = 0 /\ NoRun.shown.milestones = <<>>
    BY DEF NoRun, NoPrompt
  <2>3. StepsInOrder(o)
    <3>1. runs[o].since <= Len(memories)
      BY <1>1, <1>2, <2>1, <2>2
    <3>2. InOrder(runs[o]) /\ \A x \in runs[o].todo : x.does # "provide"
      BY <2>1, <2>2 DEF InOrder
    <3>3. QED
      BY <2>1, <3>1, <3>2 DEF StepsInOrder
  <2>4. ~Prompted(o) /\ \A y : ~Prepares(o, y)
    BY <2>1, <2>2 DEF Prompted, Shown, Prepares
  <2>5. QED
    BY <2>1, <2>2, <2>3, <2>4
       DEF Prepared, StartIsThere, TaskIsThere, StartIsTold, TaskIsTold, CorrectionsAreTold, Past
<1>8. HaveMet
  BY <1>7 DEF HaveMet, Prepares
<1>9. QED
  BY <1>6, <1>7, <1>8 DEF PromptInv

LEMMA PromptInvImplies ==
  ASSUME PromptInv
  PROVE  PromptIsCurrent
<1>1. PromptTypeOK
  <2>1. ASSUME NEW r \in NoteRuns, runs[r].over PROVE Session(r) # Nobody
    <3>1. runs[r] # NoRun
      BY <2>1 DEF NoRun
    <3>2. QED
      BY <3>1 DEF PromptInv, Prepared, StepsInOrder
  <2>2. calls <= MaxCalls
    BY LimitsOfPrompts DEF PromptInv, PromptTyped
  <2>3. QED
    BY <2>1, <2>2 DEF PromptInv, PromptTyped, PromptTypeOK
<1>2. ASSUME NEW r \in NoteRuns, Prompted(r)
      PROVE  OwnStartIsShown(r) /\ OwnTaskIsShown(r) /\ CorrectionsAreShown(r)
  BY <1>2 DEF PromptInv, Prepared, StartIsTold, TaskIsTold, CorrectionsAreTold
<1>3. QED
  BY <1>1, <1>2 DEF PromptIsCurrent

--------------------------------------------------------------------------------
(* What is known of the notes, the steps and the prompts of runs holds at  *)
(* all times: the notes of a run's start and its task stand until they are *)
(* shown, and what is shown stays right.                                   *)
THEOREM PromptHolds == PreparationSpec => []PromptInv
<1>1. PreparationInit => PromptInv
  BY PromptInitially DEF PreparationInit
<1>2. PromptInv /\ [PreparationNext]_preparationVars => PromptInv'
  <2> SUFFICES ASSUME PromptInv, [PreparationNext]_preparationVars PROVE PromptInv'
    OBVIOUS
  <2>1. CASE MakePrompt
    BY <2>1, PromptNextKeeps DEF MakePrompt
  <2>2. CASE CheckRate \/ RecognizeIntent \/ KeepHistory \/ UNCHANGED preparationVars
    <3>1. UNCHANGED promptVars
      BY <2>2 DEF CheckRate, RecognizeIntent, KeepHistory, preparationVars
    <3>2. QED
      BY <3>1, PromptUnchanged
  <2>3. QED
    BY <2>1, <2>2 DEF PreparationNext
<1>3. QED
  BY <1>1, <1>2, PTL DEF PreparationSpec

(* A prompt shows the note of the run's own start or as many later notes   *)
(* of others as it has room for, the run's own task or that of a run it    *)
(* has met, and what its user corrected before it, and nobody else.        *)
THEOREM PromptAlwaysCurrent == PreparationSpec => []PromptIsCurrent
<1>1. PromptInv => PromptIsCurrent
  BY PromptInvImplies
<1>2. QED
  BY <1>1, PromptHolds, PTL

--------------------------------------------------------------------------------
(* Sums over sets of messages *)

LEMMA LeastBy ==
  ASSUME NEW R, \A k, m \in Nat : k < m => <<k, m>> \in R,
         NEW T \in SUBSET Nat, \E m \in T : \A k \in T : ~(<<k, m>> \in R)
  PROVE  \E m \in T : \A k \in T : m <= k
<1>1. PICK m \in T : \A k \in T : ~(<<k, m>> \in R)
  OBVIOUS
<1>2. \A k \in T : ~(k < m)
  BY <1>1
<1>3. \A k \in T : m <= k
  <2> TAKE k \in T
  <2>1. k \in Nat /\ m \in Nat /\ ~(k < m)
    BY <1>2
  <2>2. QED
    BY <2>1
<1>4. QED
  BY <1>3

LEMMA LeastOf ==
  ASSUME NEW T \in SUBSET Nat, T # {}
  PROVE  \E m \in T : \A k \in T : m <= k
<1>1. \E m \in T : \A k \in T : ~(<<k, m>> \in OpToRel(<, Nat))
  BY WFMin, NatLessThanWellFounded
<1>2. \A k, m \in Nat : k < m => <<k, m>> \in OpToRel(<, Nat)
  BY DEF OpToRel
<1>3. QED
  BY <1>1, <1>2, LeastBy

(* What holds at the start, and after each step if before it, holds at the end. *)
LEMMA UpTo ==
  ASSUME NEW n \in Nat, NEW S, 0 \in S, \A i \in 1 .. n : i - 1 \in S => i \in S
  PROVE  n \in S /\ \A i \in 0 .. n : i \in S
<1> DEFINE T == {i \in 0 .. n : i \notin S}
<1>1. T = {}
  <2> SUFFICES ASSUME T # {} PROVE FALSE
    OBVIOUS
  <2>1. T \in SUBSET Nat
    OBVIOUS
  <2>2. PICK m \in T : \A k \in T : m <= k
    <3> HIDE DEF T
    <3> QED BY <2>1, LeastOf
  <2>3. m \in 1 .. n
    OBVIOUS
  <2>4. m - 1 \in S
    <3>1. m - 1 \in 0 .. n /\ ~(m <= m - 1)
      BY <2>3
    <3> QED BY <2>2, <3>1
  <2>5. QED
    BY <2>3, <2>4
<1>2. QED
  BY <1>1


(* What a set has if all its smaller subsets do, all finite sets have.     *)
LEMMA SetsUpTo ==
  ASSUME NEW D, IsFiniteSet(D), NEW C,
         \A s \in SUBSET D : (\A t \in SUBSET s : t # s => t \in C) => s \in C
  PROVE  \A s \in SUBSET D : s \in C
<1> DEFINE T == {s \in SUBSET D : s \notin C}
<1>1. SUFFICES ASSUME T # {} PROVE FALSE
  OBVIOUS
<1>2. IsWellFoundedOn(StrictSubsetOrdering(D), SUBSET D)
  BY FS_StrictSubsetOrderingWellFounded, FS_FiniteSubsetsOfFinite
<1>3. T \subseteq SUBSET D
  OBVIOUS
<1>4. PICK s \in T : \A t \in T : ~(<<t, s>> \in StrictSubsetOrdering(D))
  <2> HIDE DEF T
  <2> QED BY <1>1, <1>2, <1>3, WFMin
<1>5. ASSUME NEW t \in SUBSET s, t # s
      PROVE  t \in C
  <2>1. t \in SUBSET D /\ <<t, s>> \in StrictSubsetOrdering(D)
    BY <1>5 DEF StrictSubsetOrdering
  <2>2. QED
    BY <1>4, <2>1
<1>6. QED
  BY <1>5

One(s) == CHOOSE x \in s : TRUE

LEMMA OneIsIn == \A s : s # {} => One(s) \in s
BY DEF One

(* The sums of all subsets, as MapThenSumSet defines them.                 *)
SumsUp(D, w, g) ==
  g = [s \in SUBSET D |-> IF s = {} THEN 0 ELSE w[One(s)] + g[s \ {One(s)}]]

LEMMA SumsExist ==
  ASSUME NEW D, IsFiniteSet(D), NEW w \in [D -> Nat]
  PROVE  \E g \in [SUBSET D -> Nat] : SumsUp(D, w, g)
<1> DEFINE
     Upto(k) == {s \in SUBSET D : Cardinality(s) <= k}
     Sums(k, g) == \A s \in Upto(k) : g[s] = IF s = {} THEN 0 ELSE w[One(s)] + g[s \ {One(s)}]
     N == Cardinality(D)
     Reached == {k \in 0 .. N : \E g \in [Upto(k) -> Nat] : Sums(k, g)}
<1>1. /\ N \in Nat
      /\ \A s \in SUBSET D : IsFiniteSet(s) /\ Cardinality(s) \in 0 .. N
  BY FS_CardinalityType, FS_Subset
<1>2. \A s \in SUBSET D : s # {} =>
         /\ One(s) \in D /\ s \ {One(s)} \in SUBSET D
         /\ Cardinality(s \ {One(s)}) = Cardinality(s) - 1
  BY <1>1, OneIsIn, FS_RemoveElement
<1>3. \E g \in [Upto(0) -> Nat] : Sums(0, g)
  <2>1. \A s \in Upto(0) : s = {}
    BY <1>1, FS_EmptySet
  <2>2. [s \in Upto(0) |-> 0] \in [Upto(0) -> Nat]
    OBVIOUS
  <2>3. Sums(0, [s \in Upto(0) |-> 0])
    BY <2>1
  <2>4. QED
    <3> HIDE DEF Sums
    <3> QED BY <2>2, <2>3
<1>4. ASSUME NEW k \in 0 .. N, NEW f \in [Upto(k) -> Nat], Sums(k, f)
      PROVE  \E g \in [Upto(k + 1) -> Nat] : Sums(k + 1, g)
  <2> DEFINE g == [s \in Upto(k + 1) |-> IF s = {} THEN 0 ELSE w[One(s)] + f[s \ {One(s)}]]
  <2>1. ASSUME NEW s \in Upto(k + 1), s # {}
        PROVE  s \ {One(s)} \in Upto(k) /\ w[One(s)] \in Nat
    <3>1. s \in SUBSET D /\ Cardinality(s) \in Nat /\ Cardinality(s) <= k + 1
      BY <1>1
    <3>2. Cardinality(s) - 1 <= k
      BY <3>1
    <3>3. QED
      BY <1>2, <2>1, <3>1, <3>2
  <2>2. g \in [Upto(k + 1) -> Nat]
    <3>1. \A s \in Upto(k + 1) : (IF s = {} THEN 0 ELSE w[One(s)] + f[s \ {One(s)}]) \in Nat
      <4> HIDE DEF Upto
      <4> QED BY <2>1
    <3> HIDE DEF Upto
    <3>2. QED
      BY <3>1
  <2>3. ASSUME NEW s \in Upto(k)
        PROVE  s \in Upto(k + 1) /\ g[s] = f[s]
    <3>1. s \in Upto(k + 1)
      BY <1>1
    <3>2. f[s] = IF s = {} THEN 0 ELSE w[One(s)] + f[s \ {One(s)}]
      BY <1>4
    <3>3. g[s] = IF s = {} THEN 0 ELSE w[One(s)] + f[s \ {One(s)}]
      BY <3>1
    <3>4. QED
      <4> HIDE DEF g, Upto
      <4> QED BY <3>1, <3>2, <3>3
  <2>4. ASSUME NEW s \in Upto(k + 1)
        PROVE  g[s] = IF s = {} THEN 0 ELSE w[One(s)] + g[s \ {One(s)}]
    <3>1. g[s] = IF s = {} THEN 0 ELSE w[One(s)] + f[s \ {One(s)}]
      OBVIOUS
    <3>2. s # {} => g[s \ {One(s)}] = f[s \ {One(s)}]
      <4> HIDE DEF g, Upto
      <4> QED BY <2>1, <2>3
    <3>3. QED
      <4> HIDE DEF g, Upto
      <4> QED BY <3>1, <3>2
  <2>5. QED
    <3>1. Sums(k + 1, g)
      <4> HIDE DEF g, Upto
      <4> QED BY <2>4
    <3> HIDE DEF Sums, g, Upto
    <3>2. QED
      BY <2>2, <3>1
<1>5. N \in Reached
  <2>1. 0 \in Reached
    <3>1. 0 \in 0 .. N
      BY <1>1
    <3> HIDE DEF Sums, Upto, N
    <3>2. QED
      BY <1>3, <3>1, Zenon
  <2>2. ASSUME NEW i \in 1 .. N, i - 1 \in Reached
        PROVE  i \in Reached
    <3>1. i - 1 \in 0 .. N /\ i - 1 + 1 = i /\ i \in 0 .. N
      BY <1>1
    <3>2. PICK f \in [Upto(i - 1) -> Nat] : Sums(i - 1, f)
      BY <2>2
    <3> HIDE DEF Sums, Upto, N
    <3>3. \E g \in [Upto(i - 1 + 1) -> Nat] : Sums(i - 1 + 1, g)
      BY <1>4, <3>1, <3>2
    <3>4. QED
      BY <3>1, <3>3
  <2> HIDE DEF Reached, N
  <2>3. QED
    BY <1>1, <2>1, <2>2, UpTo
<1>6. PICK g \in [Upto(N) -> Nat] : Sums(N, g)
  BY <1>5
<1>7. Upto(N) = SUBSET D
  BY <1>1
<1>8. g \in [SUBSET D -> Nat] /\ g = [s \in SUBSET D |-> g[s]]
  <2> HIDE DEF Upto, Sums
  <2> QED BY <1>6, <1>7
<1>9. \A s \in SUBSET D : g[s] = IF s = {} THEN 0 ELSE w[One(s)] + g[s \ {One(s)}]
  <2> HIDE DEF Upto, N
  <2> QED BY <1>6, <1>7
<1>10. QED
  <2> HIDE DEF Upto, Sums
  <2> QED BY <1>8, <1>9 DEF SumsUp

AddsUp(D, w, g) == \A s \in SUBSET D : \A x \in s : g[s] = w[x] + g[s \ {x}]

(* A sum is the same whichever element it is begun with. *)
LEMMA SumByAny ==
  ASSUME NEW D, IsFiniteSet(D), NEW w \in [D -> Nat], NEW g \in [SUBSET D -> Nat], SumsUp(D, w, g)
  PROVE  AddsUp(D, w, g)
<1> DEFINE C == {s \in SUBSET D : \A x \in s : g[s] = w[x] + g[s \ {x}]}
<1>1. ASSUME NEW s \in SUBSET D, \A t \in SUBSET s : t # s => t \in C
      PROVE  s \in C
  <2> SUFFICES ASSUME NEW x \in s PROVE g[s] = w[x] + g[s \ {x}]
    OBVIOUS
  <2> DEFINE y == One(s)
  <2>1. y \in s
    BY OneIsIn
  <2>2. g[s] = w[y] + g[s \ {y}]
    BY <2>1 DEF SumsUp
  <2> HIDE DEF y
  <2>3. CASE x # y
    <3>1. g[s \ {y}] = w[x] + g[(s \ {y}) \ {x}]
      <4>1. s \ {y} \in SUBSET s /\ s \ {y} # s /\ x \in s \ {y}
        BY <2>1, <2>3
      <4>2. QED
        BY <1>1, <4>1
    <3>2. g[s \ {x}] = w[y] + g[(s \ {x}) \ {y}]
      <4>1. s \ {x} \in SUBSET s /\ s \ {x} # s /\ y \in s \ {x}
        BY <2>1, <2>3
      <4>2. QED
        BY <1>1, <4>1
    <3>3. (s \ {x}) \ {y} = (s \ {y}) \ {x}
      OBVIOUS
    <3>4. w[x] \in Nat /\ w[y] \in Nat /\ g[(s \ {y}) \ {x}] \in Nat
      BY <2>1
    <3>5. g[s \ {x}] = w[y] + g[(s \ {y}) \ {x}]
      BY <3>2, <3>3
    <3>6. \A a, b, c \in Nat : b + (a + c) = a + (b + c)
      OBVIOUS
    <3>7. QED
      BY <2>2, <3>1, <3>4, <3>5, <3>6
  <2>4. QED
    BY <2>2, <2>3
<1>2. \A s \in SUBSET D : s \in C
  <2> HIDE DEF C
  <2> QED BY <1>1, SetsUpTo
<1>3. QED
  BY <1>2 DEF AddsUp

(* A sum of less over fewer is not more. *)
LEMMA SumsGrow ==
  ASSUME NEW D, IsFiniteSet(D), NEW w \in [D -> Nat], NEW g \in [SUBSET D -> Nat], SumsUp(D, w, g),
         NEW E \in SUBSET D, NEW v \in [E -> Nat], NEW f \in [SUBSET E -> Nat], SumsUp(E, v, f),
         \A x \in E : v[x] <= w[x]
  PROVE  f[E] <= g[D]
<1> DEFINE C == {s \in SUBSET D : \A t \in SUBSET E : t \subseteq s => f[t] <= g[s]}
<1>1. AddsUp(D, w, g)
  BY SumByAny
<1>2. AddsUp(E, v, f)
  <2>1. IsFiniteSet(E)
    BY FS_Subset
  <2>2. QED
    BY <2>1, SumByAny
<1>3. ASSUME NEW s \in SUBSET D, \A t \in SUBSET s : t # s => t \in C
      PROVE  s \in C
  <2> SUFFICES ASSUME NEW t \in SUBSET E, t \subseteq s PROVE f[t] <= g[s]
    OBVIOUS
  <2>1. CASE t = {}
    <3>1. f[t] = 0 /\ g[s] \in Nat
      BY <2>1 DEF SumsUp
    <3>2. QED
      BY <3>1
  <2>2. CASE t # {}
    <3>1. PICK x : x \in t /\ x \in s /\ x \in E /\ x \in D
      BY <2>2
    <3>2. g[s] = w[x] + g[s \ {x}] /\ f[t] = v[x] + f[t \ {x}]
      BY <1>1, <1>2, <3>1 DEF AddsUp
    <3>3. /\ s \ {x} \in SUBSET s /\ s \ {x} # s
          /\ t \ {x} \in SUBSET E /\ t \ {x} \subseteq s \ {x}
      BY <3>1
    <3>4. s \ {x} \in SUBSET D /\ f[t \ {x}] <= g[s \ {x}]
      BY <1>3, <3>3
    <3>5. f[t \ {x}] \in Nat /\ g[s \ {x}] \in Nat
      BY <3>3, <3>4
    <3>6. v[x] \in Nat /\ w[x] \in Nat /\ v[x] <= w[x]
      BY <3>1
    <3>7. QED
      BY <3>2, <3>4, <3>5, <3>6
  <2>3. QED
    BY <2>1, <2>2
<1>4. D \in C
  <2> HIDE DEF C
  <2> QED BY <1>3, SetsUpTo
<1>5. E \in SUBSET E /\ E \subseteq D
  OBVIOUS
<1>6. QED
  BY <1>4, <1>5

LEMMA SumsTyped ==
  ASSUME NEW D, IsFiniteSet(D), NEW w \in [D -> Nat], NEW g, SumsUp(D, w, g)
  PROVE  g \in [SUBSET D -> Nat]
<1> DEFINE C == {s \in SUBSET D : g[s] \in Nat}
<1>1. ASSUME NEW s \in SUBSET D, \A t \in SUBSET s : t # s => t \in C
      PROVE  s \in C
  <2>1. CASE s = {}
    BY <2>1 DEF SumsUp
  <2>2. CASE s # {}
    <3>1. One(s) \in s
      BY <2>2, OneIsIn
    <3>2. g[s] = w[One(s)] + g[s \ {One(s)}]
      BY <2>2 DEF SumsUp
    <3>3. s \ {One(s)} \in C
      BY <1>1, <3>1
    <3>4. w[One(s)] \in Nat /\ g[s \ {One(s)}] \in Nat
      BY <3>1, <3>3
    <3>5. QED
      BY <3>2, <3>4
  <2>3. QED
    BY <2>1, <2>2
<1>2. \A s \in SUBSET D : s \in C
  <2> HIDE DEF C
  <2> QED BY <1>1, SetsUpTo
<1>3. g = [s \in SUBSET D |-> g[s]]
  BY DEF SumsUp
<1>4. QED
  BY <1>2, <1>3

(* What a fold that adds up over a set of messages computes.               *)
LEMMA CostsAdd ==
  ASSUME NEW h, NEW I, IsFiniteSet(I), \A i \in I : Cost(h, i) \in Nat
  PROVE  \E g \in [SUBSET I -> Nat] : SumsUp(I, [i \in I |-> Cost(h, i)], g) /\ Costs(h, I) = g[I]
<1> DEFINE w == [i \in I |-> Cost(h, i)]
           Rec(g) == g = [s \in SUBSET I |->
                            IF s = {} THEN 0
                            ELSE Cost(h, CHOOSE x \in s : TRUE) + g[s \ {CHOOSE x \in s : TRUE}]]
<1>1. Costs(h, I) = (CHOOSE g : Rec(g))[I]
  BY DEF Costs, MapThenSumSet, MapThenFoldSet
<1>2. w \in [I -> Nat]
  OBVIOUS
<1>3. \A g : Rec(g) <=> SumsUp(I, w, g)
  <2>1. \A s \in SUBSET I : s # {} => w[One(s)] = Cost(h, One(s))
    BY OneIsIn
  <2>2. TAKE g
  <2>3. [s \in SUBSET I |-> IF s = {} THEN 0 ELSE Cost(h, One(s)) + g[s \ {One(s)}]]
          = [s \in SUBSET I |-> IF s = {} THEN 0 ELSE w[One(s)] + g[s \ {One(s)}]]
    <3> HIDE DEF w
    <3> QED BY <2>1
  <2>4. QED
    BY <2>3 DEF SumsUp, One
<1> HIDE DEF w, Rec
<1>4. \E g : Rec(g)
  BY <1>2, <1>3, SumsExist
<1>5. PICK g : Rec(g) /\ Costs(h, I) = g[I]
  BY <1>1, <1>4
<1>6. SumsUp(I, w, g) /\ g \in [SUBSET I -> Nat]
  BY <1>2, <1>3, <1>5, SumsTyped
<1>7. QED
  BY <1>5, <1>6 DEF w

LEMMA EstimatesAdd ==
  ASSUME NEW h, NEW I, IsFiniteSet(I), \A i \in I : Tokens[h[i].text] \in Nat
  PROVE  \E g \in [SUBSET I -> Nat] : SumsUp(I, [i \in I |-> Tokens[h[i].text]], g) /\ Estimate(h, I) = g[I]
<1> DEFINE w == [i \in I |-> Tokens[h[i].text]]
           Rec(g) == g = [s \in SUBSET I |->
                            IF s = {} THEN 0
                            ELSE Tokens[h[CHOOSE x \in s : TRUE].text] + g[s \ {CHOOSE x \in s : TRUE}]]
<1>1. Estimate(h, I) = (CHOOSE g : Rec(g))[I]
  BY DEF Estimate, MapThenSumSet, MapThenFoldSet
<1>2. w \in [I -> Nat]
  OBVIOUS
<1>3. \A g : Rec(g) <=> SumsUp(I, w, g)
  <2>1. \A s \in SUBSET I : s # {} => w[One(s)] = Tokens[h[One(s)].text]
    BY OneIsIn
  <2>2. TAKE g
  <2>3. [s \in SUBSET I |-> IF s = {} THEN 0 ELSE Tokens[h[One(s)].text] + g[s \ {One(s)}]]
          = [s \in SUBSET I |-> IF s = {} THEN 0 ELSE w[One(s)] + g[s \ {One(s)}]]
    <3> HIDE DEF w
    <3> QED BY <2>1
  <2>4. QED
    BY <2>3 DEF SumsUp, One
<1> HIDE DEF w, Rec
<1>4. \E g : Rec(g)
  BY <1>2, <1>3, SumsExist
<1>5. PICK g : Rec(g) /\ Estimate(h, I) = g[I]
  BY <1>1, <1>4
<1>6. SumsUp(I, w, g) /\ g \in [SUBSET I -> Nat]
  BY <1>2, <1>3, <1>5, SumsTyped
<1>7. QED
  BY <1>5, <1>6 DEF w

--------------------------------------------------------------------------------
(* What is kept of a history *)

Weighed(h) ==
  /\ IsFiniteSet(DOMAIN h) /\ DOMAIN h \subseteq Nat
  /\ \A i \in DOMAIN h : Tokens[h[i].text] \in Nat

LEMMA CostsGrow ==
  ASSUME NEW h, Weighed(h), NEW J \in SUBSET DOMAIN h, NEW I \in SUBSET J
  PROVE  /\ Costs(h, I) \in Nat /\ Costs(h, J) \in Nat /\ Estimate(h, I) \in Nat
         /\ Costs(h, I) <= Costs(h, J) /\ Estimate(h, I) <= Costs(h, J)
<1>1. IsFiniteSet(J) /\ IsFiniteSet(I)
  BY FS_Subset DEF Weighed
<1>2. \A i \in DOMAIN h : Tokens[h[i].text] \in Nat /\ Cost(h, i) \in Nat /\ Tokens[h[i].text] <= Cost(h, i)
  BY ReducerAssumption DEF Weighed, Cost
<1> DEFINE w(K) == [i \in K |-> Cost(h, i)]
           v == [i \in I |-> Tokens[h[i].text]]
<1>3. PICK g \in [SUBSET J -> Nat] : SumsUp(J, w(J), g) /\ Costs(h, J) = g[J]
  BY <1>1, <1>2, CostsAdd
<1>4. PICK f \in [SUBSET I -> Nat] : SumsUp(I, w(I), f) /\ Costs(h, I) = f[I]
  BY <1>1, <1>2, CostsAdd
<1>5. PICK e \in [SUBSET I -> Nat] : SumsUp(I, v, e) /\ Estimate(h, I) = e[I]
  BY <1>1, <1>2, EstimatesAdd
<1>6. /\ w(J) \in [J -> Nat] /\ w(I) \in [I -> Nat] /\ v \in [I -> Nat]
      /\ \A i \in I : w(I)[i] <= w(J)[i] /\ v[i] <= w(J)[i]
  BY <1>2
<1> HIDE DEF w, v
<1>7. f[I] <= g[J]
  BY <1>1, <1>3, <1>4, <1>6, SumsGrow
<1>8. e[I] <= g[J]
  BY <1>1, <1>3, <1>5, <1>6, SumsGrow
<1>9. g[J] \in Nat /\ f[I] \in Nat /\ e[I] \in Nat
  OBVIOUS
<1>10. QED
  BY <1>3, <1>4, <1>5, <1>7, <1>8, <1>9

LEMMA LastTwoAreTwo ==
  ASSUME NEW K \in SUBSET Nat, IsFiniteSet(K)
  PROVE  Cardinality(LastTwo(K)) <= 2
<1>1. CASE LastTwo(K) = {}
  BY <1>1, FS_EmptySet
<1>2. CASE LastTwo(K) # {}
  <2>1. LastTwo(K) \in SUBSET Nat
    BY DEF LastTwo
  <2>2. PICK m \in LastTwo(K) : \A k \in LastTwo(K) : m <= k
    BY <1>2, <2>1, LeastOf
  <2>3. LastTwo(K) \subseteq From(K, m) /\ m \in K /\ Cardinality(From(K, m)) <= 2
    BY <2>1, <2>2 DEF LastTwo, From
  <2>4. IsFiniteSet(From(K, m))
    BY FS_Subset DEF From
  <2>5. Cardinality(LastTwo(K)) <= Cardinality(From(K, m)) /\ IsFiniteSet(LastTwo(K))
    BY <2>3, <2>4, FS_Subset
  <2>6. Cardinality(LastTwo(K)) \in Nat /\ Cardinality(From(K, m)) \in Nat
    BY <2>4, <2>5, FS_CardinalityType
  <2>7. QED
    BY <2>3, <2>5, <2>6
<1>3. QED
  BY <1>1, <1>2

(* The window of the last messages is within the budget, or of two at most. *)
LEMMA SlidingFits ==
  ASSUME NEW h, Weighed(h), NEW K \in SUBSET DOMAIN h, NEW budget \in Nat
  PROVE  \/ Estimate(h, Sliding(h, K, budget)) <= budget
         \/ Cardinality(Sliding(h, K, budget)) <= 2
<1> DEFINE W == {i \in K : Costs(h, From(K, i)) <= budget}
<1>1. K \in SUBSET Nat /\ IsFiniteSet(K)
  BY FS_Subset DEF Weighed
<1>2. Sliding(h, K, budget) = W \cup LastTwo(K)
  BY DEF Sliding
<1>3. \A i \in K : From(K, i) \in SUBSET K /\ IsFiniteSet(From(K, i))
  BY <1>1, FS_Subset DEF From
<1>4. CASE W \subseteq LastTwo(K)
  BY <1>1, <1>2, <1>4, LastTwoAreTwo
<1>5. ASSUME NEW i \in W, i \notin LastTwo(K)
      PROVE  Estimate(h, Sliding(h, K, budget)) <= budget
  <2>1. ASSUME NEW j \in LastTwo(K)
        PROVE  j \in W
    <3>1. j \in K /\ i \in K /\ j \in Nat /\ i \in Nat /\ Cardinality(From(K, j)) <= 2
      BY <1>1 DEF LastTwo
    <3>2. CASE j < i
      <4>1. From(K, i) \subseteq From(K, j)
        BY <1>1, <3>1, <3>2 DEF From
      <4>2. Cardinality(From(K, i)) <= Cardinality(From(K, j))
        BY <1>3, <3>1, <4>1, FS_Subset
      <4>3. Cardinality(From(K, i)) \in Nat /\ Cardinality(From(K, j)) \in Nat
        BY <1>3, <3>1, FS_CardinalityType
      <4>4. Cardinality(From(K, i)) <= 2
        BY <3>1, <4>2, <4>3
      <4>5. QED
        BY <1>5, <3>1, <4>4 DEF LastTwo
    <3>3. CASE ~(j < i)
      <4>1. From(K, j) \subseteq From(K, i)
        BY <1>1, <3>1, <3>3 DEF From
      <4>2. From(K, i) \in SUBSET DOMAIN h
        BY <1>3, <3>1
      <4>3. /\ Costs(h, From(K, j)) \in Nat /\ Costs(h, From(K, i)) \in Nat
            /\ Costs(h, From(K, j)) <= Costs(h, From(K, i))
        BY <4>1, <4>2, CostsGrow
      <4>4. Costs(h, From(K, i)) <= budget
        OBVIOUS
      <4>5. QED
        BY <3>1, <4>3, <4>4
    <3>4. QED
      BY <3>2, <3>3
  <2>2. Sliding(h, K, budget) = W
    BY <1>2, <2>1
  <2>3. PICK m \in W : \A k \in W : m <= k
    <3>1. W \in SUBSET Nat /\ W # {}
      BY <1>1
    <3> HIDE DEF W
    <3>2. QED
      BY <3>1, LeastOf
  <2>4. W \subseteq From(K, m) /\ From(K, m) \in SUBSET DOMAIN h /\ m \in K
    BY <1>1, <1>3, <2>3 DEF From
  <2>5. Costs(h, From(K, m)) <= budget
    BY <2>3
  <2> HIDE DEF W
  <2>6. /\ Estimate(h, W) \in Nat /\ Costs(h, From(K, m)) \in Nat
        /\ Estimate(h, W) <= Costs(h, From(K, m))
    BY <2>4, CostsGrow
  <2>7. QED
    BY <2>2, <2>5, <2>6
<1>6. QED
  BY <1>4, <1>5

(* The same of a part of the messages: the window of fewer is not shorter.  *)
LEMMA WindowsGrow ==
  ASSUME NEW h, Weighed(h), NEW K \in SUBSET DOMAIN h, NEW i \in K, NEW budget \in Nat
  PROVE  /\ i \in LastTwo(DOMAIN h) => i \in Sliding(h, K, budget)
         /\ FitsFrom(h, i, budget) => i \in Sliding(h, K, budget)
<1> DEFINE few == From(K, i)
           many == From(DOMAIN h, i)
<1>1. many \in SUBSET DOMAIN h /\ few \in SUBSET many /\ IsFiniteSet(many)
  BY FS_Subset DEF From, Weighed
<1>2. Cardinality(few) \in Nat /\ Cardinality(many) \in Nat /\ Cardinality(few) <= Cardinality(many)
  <2> HIDE DEF few, many
  <2> QED BY <1>1, FS_Subset, FS_CardinalityType
<1>3. Costs(h, few) \in Nat /\ Costs(h, many) \in Nat /\ Costs(h, few) <= Costs(h, many)
  <2> HIDE DEF few, many
  <2> QED BY <1>1, CostsGrow
<1>4. ASSUME i \in LastTwo(DOMAIN h) PROVE i \in Sliding(h, K, budget)
  <2>1. Cardinality(many) <= 2
    BY <1>4 DEF LastTwo
  <2>2. Cardinality(few) <= 2
    BY <1>2, <2>1
  <2>3. QED
    BY <2>2 DEF Sliding, LastTwo
<1>5. ASSUME FitsFrom(h, i, budget) PROVE i \in Sliding(h, K, budget)
  <2>1. Costs(h, many) <= budget
    BY <1>5 DEF FitsFrom
  <2>2. Costs(h, few) <= budget
    BY <1>3, <2>1
  <2>3. QED
    BY <2>2 DEF Sliding
<1>6. QED
  BY <1>4, <1>5

LEMMA FirstOfTheSame ==
  ASSUME NEW h, Weighed(h), NEW i \in DOMAIN h
  PROVE  \E k \in DOMAIN h : h[k] = h[i] /\ k <= i /\ \A j \in DOMAIN h : j < k => h[j] # h[k]
<1> DEFINE S == {k \in DOMAIN h : h[k] = h[i]}
<1>1. S \in SUBSET Nat /\ i \in S
  BY DEF Weighed
<1>2. PICK k \in S : \A j \in S : k <= j
  <2> HIDE DEF S
  <2> QED BY <1>1, LeastOf
<1>3. k <= i
  BY <1>1, <1>2
<1>4. ASSUME NEW j \in DOMAIN h, j < k PROVE h[j] # h[k]
  <2>1. j \in Nat /\ k \in Nat /\ ~(k <= j)
    BY <1>1, <1>4 DEF Weighed
  <2>2. QED
    BY <1>2, <2>1
<1>5. QED
  BY <1>2, <1>3, <1>4

(* What is said of a trimmed history, of any history and budget.           *)
KeepsTheEnd(h, budget, kept) ==
  /\ LastTwo(DOMAIN h) \subseteq kept
  /\ Estimate(h, kept) <= budget \/ Cardinality(kept) <= 2
  /\ \A i \in DOMAIN h \ kept :
       FitsFrom(h, i, budget) => \E k \in 1 .. i - 1 : h[k] = h[i]

LEMMA TrimKeeps ==
  ASSUME NEW n \in Nat, NEW h, DOMAIN h = 1 .. n, Weighed(h), NEW budget \in Nat
  PROVE  KeepsTheEnd(h, budget, TrimHistory(h, budget))
<1> DEFINE important == IndexSet(h, ByPriority(h, budget))
           latest == IndexSet(h, Sliding(h, DOMAIN h, budget))
           K == important \cup latest \cup LastTwo(DOMAIN h)
           kept == TrimHistory(h, budget)
<1>1. CASE Estimate(h, DOMAIN h) <= budget
  <2>1. kept = DOMAIN h
    BY <1>1 DEF TrimHistory
  <2>2. LastTwo(DOMAIN h) \subseteq DOMAIN h
    BY DEF LastTwo
  <2>3. QED
    BY <1>1, <2>1, <2>2 DEF KeepsTheEnd
<1>2. CASE ~(Estimate(h, DOMAIN h) <= budget)
  <2>1. kept = IF Estimate(h, K) <= budget THEN K ELSE Sliding(h, K, budget)
    BY <1>2 DEF TrimHistory
  <2>2. K \in SUBSET DOMAIN h
    BY DEF IndexSet, LastTwo
  <2>3. LastTwo(DOMAIN h) \subseteq kept
    <3>1. ASSUME NEW i \in LastTwo(DOMAIN h) PROVE i \in Sliding(h, K, budget)
      <4>1. i \in K
        OBVIOUS
      <4> HIDE DEF K
      <4>2. QED
        BY <2>2, <3>1, <4>1, WindowsGrow
    <3>2. LastTwo(DOMAIN h) \subseteq K
      OBVIOUS
    <3> HIDE DEF K, kept
    <3>3. QED
      BY <2>1, <3>1, <3>2
  <2>4. Estimate(h, kept) <= budget \/ Cardinality(kept) <= 2
    <3> HIDE DEF K, kept
    <3>1. QED
      BY <2>1, <2>2, SlidingFits
  <2>5. ASSUME NEW i \in DOMAIN h \ kept, FitsFrom(h, i, budget)
        PROVE  \E k \in 1 .. i - 1 : h[k] = h[i]
    <3>1. i \in Sliding(h, DOMAIN h, budget)
      BY <2>5, WindowsGrow
    <3>2. PICK k \in DOMAIN h : h[k] = h[i] /\ k <= i /\ \A j \in DOMAIN h : j < k => h[j] # h[k]
      BY FirstOfTheSame
    <3>3. k \in 1 .. n /\ i \in 1 .. n /\ \A j \in 1 .. k - 1 : h[j] # h[k]
      BY <3>2
    <3>4. k \in latest
      BY <3>1, <3>2, <3>3 DEF IndexSet
    <3>5. k # i
      <4>1. SUFFICES ASSUME i \in K PROVE FALSE
        BY <3>4
      <4> HIDE DEF K, kept
      <4>2. i \in Sliding(h, K, budget)
        BY <2>2, <2>5, <4>1, WindowsGrow
      <4>3. QED
        BY <2>1, <4>1, <4>2
    <3>6. k \in 1 .. i - 1
      BY <3>2, <3>3, <3>5
    <3>7. QED
      BY <3>2, <3>6
  <2>6. QED
    <3> HIDE DEF kept
    <3>1. KeepsTheEnd(h, budget, kept)
      BY <2>3, <2>4, <2>5 DEF KeepsTheEnd
    <3>2. QED
      BY <3>1 DEF kept
<1>3. QED
  BY <1>1, <1>2

HistoryTyped == history \in Seq(Messages)

LEMMA HistoryWeighs ==
  ASSUME HistoryTyped
  PROVE  \E n \in Nat : DOMAIN history = 1 .. n /\ Weighed(history)
<1>1. Len(history) \in Nat /\ DOMAIN history = 1 .. Len(history)
  BY DEF HistoryTyped
<1>2. \A i \in DOMAIN history : Tokens[history[i].text] \in Nat
  <2>1. \A i \in DOMAIN history : history[i] \in Messages
    BY <1>1 DEF HistoryTyped
  <2>2. \A m \in Messages : m.text \in MessageTexts
    BY DEF Messages
  <2>3. QED
    BY <2>1, <2>2, ReducerAssumption
<1>3. IsFiniteSet(DOMAIN history) /\ DOMAIN history \subseteq Nat
  BY <1>1, UpToIsFinite
<1>4. QED
  BY <1>1, <1>2, <1>3 DEF Weighed

(* The history of a session holds messages, whatever is prepared.          *)
THEOREM HistoryHolds == PreparationSpec => []HistoryTyped
<1>1. PreparationInit => HistoryTyped
  BY DEF PreparationInit, ReducerInit, HistoryTyped
<1>2. HistoryTyped /\ [PreparationNext]_preparationVars => HistoryTyped'
  <2> SUFFICES ASSUME HistoryTyped, [PreparationNext]_preparationVars PROVE HistoryTyped'
    OBVIOUS
  <2>1. CASE KeepHistory
    BY <2>1 DEF KeepHistory, ReducerNext, Remember, HistoryTyped
  <2>2. CASE ~KeepHistory
    <3>1. history' = history
      BY <2>2 DEF PreparationNext, CheckRate, RecognizeIntent, MakePrompt, preparationVars
    <3>2. QED
      BY <3>1 DEF HistoryTyped
  <2>3. QED
    BY <2>1, <2>2
<1>3. QED
  BY <1>1, <1>2, PTL DEF PreparationSpec

(* A trimmed history is within its budget, or down to the last two messages; *)
(* and of its end that fits nothing is missing which was not said before.    *)
THEOREM TrimAlwaysKeepsTheEnd == PreparationSpec => []TrimKeepsTheEnd
<1>1. HistoryTyped => TrimKeepsTheEnd
  <2> SUFFICES ASSUME HistoryTyped, NEW budget \in Budgets
               PROVE  KeepsTheEnd(history, budget, TrimHistory(history, budget))
    BY DEF TrimKeepsTheEnd, KeepsTheEnd
  <2>1. budget \in Nat
    BY ReducerAssumption
  <2>2. PICK n \in Nat : DOMAIN history = 1 .. n /\ Weighed(history)
    BY HistoryWeighs
  <2>3. QED
    BY <2>1, <2>2, TrimKeeps
<1>2. QED
  BY <1>1, HistoryHolds, PTL
================================================================================
