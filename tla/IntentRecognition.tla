----------------------------- MODULE IntentRecognition -----------------------------
(***************************************************************************)
(* Recognize of domain/agent/service/intent: what a run takes a text for.  *)
(* The cache answers, else the rules, else the model; what they say goes   *)
(* into the context of the session and into the cache.  Runs of a session  *)
(* do this at the same time; each lock is held for one step only.          *)
(*                                                                         *)
(* A text that says what it wants has keywords of one intent; another one  *)
(* may refer to what was wanted last, as short ones do.  Confidences are   *)
(* in hundredths; entities follow the way of the intent and are left out.  *)
(***************************************************************************)
EXTENDS Clock, FiniteSets, Functions

CONSTANTS
  Sessions,
  Runs,
  Keyworded,    \* the intent of each text with keywords (initRules)
  Referring,    \* other texts that may refer to the last intent
  OtherTexts,   \* texts that do neither
  Guesses,      \* what the model may say: [intent, confidence]
  CacheTTL,     \* how long a result stays in the cache (5 minutes)
  MaxCache,     \* and how many there may be (200)
  MaxIdle,      \* bound: time
  None

Texts == DOMAIN Keyworded \cup Referring \cup OtherTexts
Intents == {"CHAT"} \cup Range(Keyworded) \cup {g.intent : g \in Guesses}
Keys == Sessions \X Texts

ASSUME RecognitionAssumption ==
  /\ DOMAIN Keyworded \cap (Referring \cup OtherTexts) = {}
  /\ \A g \in Guesses : g.confidence \in 1 .. 100
  /\ {CacheTTL, MaxIdle} \subseteq Nat /\ MaxCache \in Nat \ {0} /\ None \notin Intents

VARIABLES
  context,    \* the tracker: the last intent of each session, or None
  cache,      \* results by session and text: intent, and how long they hold
  rec,        \* each run: where its recognition is
  said,       \* history: the texts said in each session
  answers     \* history: what the runs got, and where from

recognitionVars == <<now, context, cache, rec, said, answers>>

Unread == [at |-> "idle", session |-> None, text |-> None, intent |-> None, confidence |-> 0]

RecognitionInit ==
  /\ now = 0
  /\ context = [s \in Sessions |-> None]
  /\ cache = [k \in {} |-> None]
  /\ rec = [r \in Runs |-> Unread]
  /\ said = [s \in Sessions |-> {}]
  /\ answers = {}

At(r, where) == rec[r].at = where

Answered(r, intent, source) ==
  /\ answers' = answers \cup
       {[session |-> rec[r].session, text |-> rec[r].text, intent |-> intent, source |-> source]}
  /\ rec' = [rec EXCEPT ![r] = [Unread EXCEPT !.at = "known"]]

Says(r, where, intent, confidence) ==
  rec' = [rec EXCEPT ![r].at = where, ![r].intent = intent, ![r].confidence = confidence]

Key_Text(r) == <<CHOOSE s \in Sessions : TRUE, rec[r].text>>

Key(r) == <<rec[r].session, rec[r].text>>
Holds(k) == k \in DOMAIN cache /\ now <= cache[k].exp

--------------------------------------------------------------------------------

Begin(r, s, text) ==
  /\ At(r, "idle")
  /\ rec' = [rec EXCEPT ![r].at = "looking", ![r].session = s, ![r].text = text]
  /\ said' = [said EXCEPT ![s] = @ \cup {text}]
  /\ UNCHANGED <<now, context, cache, answers>>

(* A result in the cache answers, and leaves the context as it is.         *)
Hit(r) ==
  /\ At(r, "looking") /\ Holds(Key(r))
  /\ Answered(r, cache[Key(r)].intent, "cache")
  /\ UNCHANGED <<now, context, cache, said>>

Miss(r) ==
  /\ At(r, "looking") /\ ~Holds(Key(r))
  /\ rec' = [rec EXCEPT ![r].at = "classifying"]
  /\ UNCHANGED <<now, context, cache, said, answers>>

(* The rules: keywords, else the last intent for a text that refers to it. *)
Classify(r) ==
  LET last == context[rec[r].session]
      text == rec[r].text
  IN /\ At(r, "classifying")
     /\ IF text \in DOMAIN Keyworded THEN Says(r, "sure", Keyworded[text], 85)
        ELSE IF last # None /\ text \in Referring THEN Says(r, "unsure", last, 75)
        ELSE Says(r, "unsure", "CHAT", 30)
     /\ UNCHANGED <<now, context, cache, said, answers>>

(* Unsure, the model is asked, if there is one; it fails, guesses badly,   *)
(* or its guess counts.                                                    *)
AskModel(r) ==
  /\ At(r, "unsure")
  /\ \/ Says(r, "sure", rec[r].intent, rec[r].confidence)
     \/ \E g \in Guesses \cup {[intent |-> "CHAT", confidence |-> 40]} :
          IF g.confidence >= 50 \/ g.confidence > rec[r].confidence
          THEN Says(r, "sure", g.intent, g.confidence)
          ELSE Says(r, "sure", rec[r].intent, rec[r].confidence)
  /\ UNCHANGED <<now, context, cache, said, answers>>

(* The context of the session takes the intent ...                         *)
Update(r) ==
  LET s == rec[r].session
  IN /\ At(r, "sure")
     /\ context' = [context EXCEPT ![s] = rec[r].intent]
     /\ rec' = [rec EXCEPT ![r].at = "putting"]
     /\ UNCHANGED <<now, cache, said, answers>>

(* Half of a full cache is dropped, one result at least, whichever.        *)
Dropped == IF MaxCache < 2 THEN 1 ELSE MaxCache \div 2

(* ... and the cache, where the later of two runs counts.                  *)
PutCache(r) ==
  LET new == [intent |-> rec[r].intent, exp |-> now + CacheTTL]
      all == DOMAIN cache
  IN /\ At(r, "putting")
     /\ \E kept \in SUBSET all :
          /\ IF Cardinality(all) < MaxCache THEN kept = all
             ELSE Cardinality(all \ kept) = Dropped
          /\ cache' = [k \in kept \cup {Key(r)} |-> IF k = Key(r) THEN new ELSE cache[k]]
     /\ Answered(r, rec[r].intent, "fresh")
     /\ UNCHANGED <<now, context, said>>

(* The cache and the contexts are in the process.                          *)
RecognitionRestarts ==
  /\ context' = [s \in Sessions |-> None]
  /\ cache' = [k \in {} |-> None]
  /\ rec' = [r \in Runs |-> IF At(r, "idle") THEN rec[r] ELSE [Unread EXCEPT !.at = "known"]]
  /\ UNCHANGED <<now, said, answers>>

RecognitionTick == Tick(MaxIdle) /\ UNCHANGED <<context, cache, rec, said, answers>>

Recognize(r) ==
  \/ \E s \in Sessions, text \in Texts : Begin(r, s, text)
  \/ Hit(r) \/ Miss(r) \/ Classify(r) \/ AskModel(r) \/ Update(r) \/ PutCache(r)

RecognitionNext == (\E r \in Runs : Recognize(r)) \/ RecognitionRestarts \/ RecognitionTick

RecognitionSpec == RecognitionInit /\ [][RecognitionNext]_recognitionVars

--------------------------------------------------------------------------------
(* Properties *)

RecognitionTypeOK ==
  /\ context \in [Sessions -> Intents \cup {None}]
  /\ DOMAIN cache \subseteq Keys /\ Cardinality(DOMAIN cache) <= MaxCache
  /\ \A k \in DOMAIN cache : cache[k].intent \in Intents /\ cache[k].exp <= now + CacheTTL
  /\ \A r \in Runs : rec[r].intent \in Intents \cup {None} /\ rec[r].confidence \in 0 .. 100

(* A text that says what it wants is taken for that, whatever the session  *)
(* wanted before, other runs want meanwhile, or the cache holds.           *)
KeywordsDecide ==
  \A a \in answers : a.text \in DOMAIN Keyworded => a.intent = Keyworded[a.text]

(* What the model does not guess is only ever taken for wanted in a        *)
(* session in which somebody said so: neither the context nor the cache    *)
(* of one session reaches into another, however stale they are in theirs.  *)
IntentsStayInTheirSession ==
  \A a \in answers :
    a.intent \notin {g.intent : g \in Guesses} \cup {"CHAT"} =>
      \E text \in said[a.session] \cap DOMAIN Keyworded : Keyworded[text] = a.intent
================================================================================
