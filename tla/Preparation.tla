-------------------------------- MODULE Preparation --------------------------------
(***************************************************************************)
(* What is done with a text before and around the rounds of a run, in the  *)
(* order of Chat and of the engine: the rate is checked, the intent is     *)
(* recognised, notes are taken, the history is trimmed and the prompt is   *)
(* put together.  Each part keeps state that all runs share, and no part   *)
(* reads the state of another, so that their steps commute: a behaviour    *)
(* moves one part, any of them, which shows as much as all interleavings   *)
(* of the four would.                                                      *)
(***************************************************************************)
EXTENDS RateLimiter, IntentRecognition, ContextReducer, PromptContext

CONSTANT Parts   \* those that may move

VARIABLE part   \* the part that moves

recognitionOnly == <<context, cache, rec, said, answers>>
limiterOnly == <<limiter, counter, asked>>
preparationVars == <<part, now, limiterOnly, recognitionOnly, history, promptVars>>

PreparationInit ==
  /\ part \in Parts
  /\ LimiterInit /\ RecognitionInit /\ ReducerInit /\ PromptInit
  /\ part # "rate" => limiter = "redis"
  /\ part # "prompt" => storage = "mysql"

CheckRate ==
  /\ part = "rate" /\ LimiterNext
  /\ UNCHANGED <<recognitionOnly, history, promptVars>>

RecognizeIntent ==
  /\ part = "intent" /\ RecognitionNext
  /\ UNCHANGED <<limiterOnly, history, promptVars>>

KeepHistory ==
  /\ part = "history" /\ ReducerNext
  /\ UNCHANGED <<now, limiterOnly, recognitionOnly, promptVars>>

MakePrompt ==
  /\ part = "prompt" /\ PromptNext
  /\ UNCHANGED <<now, limiterOnly, recognitionOnly, history>>

PreparationNext ==
  (CheckRate \/ RecognizeIntent \/ KeepHistory \/ MakePrompt) /\ UNCHANGED part

PreparationSpec == PreparationInit /\ [][PreparationNext]_preparationVars

--------------------------------------------------------------------------------
(* Properties *)

(* Chat gives a user no more than the limit allows, streams not counted,   *)
(* and who is refused has had as much: see AdmissionsAreBounded and        *)
(* RefusalsAreEarned of RateLimiter.                                       *)
LimitIsKept == LimiterTypeOK /\ AdmissionsAreBounded /\ RefusalsAreEarned

(* A text is taken for what it or its session said: see KeywordsDecide and *)
(* IntentsStayInTheirSession of IntentRecognition.                         *)
IntentsAreTheirs == RecognitionTypeOK /\ KeywordsDecide /\ IntentsStayInTheirSession
================================================================================
