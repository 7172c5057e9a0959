-------------------------------- MODULE RateLimiter --------------------------------
(***************************************************************************)
(* The limit on the chats of a user: AllowRate of infrastructure/redis,    *)
(* asked by Chat before it runs, but not by ChatStream.  The counter of a  *)
(* user is in redis, or, when redis is off or did not answer at the start, *)
(* in the process.                                                         *)
(*                                                                         *)
(* A counter lives up to and including its time exp.  Redis moves exp with *)
(* every request, the process sets it with the first one only.             *)
(***************************************************************************)
EXTENDS Clock, Sequences, FiniteSets

CONSTANTS
  Users,
  Limit,     \* requests let through (60 in the code, unless configured)
  Window,    \* and the time a counter lives (a minute)
  MaxAsked,  \* bound: chats since the counters were last lost
  MaxTime    \* bound: time

ASSUME LimiterAssumption == Limit \in Nat \ {0} /\ {Window, MaxAsked, MaxTime} \subseteq Nat

VARIABLES
  limiter,   \* where the counters are: "redis" or "memory"
  counter,   \* the counter of each user; exp is moot while count = 0
  asked      \* history: the chats that were counted or streamed, in order

limiterVars == <<now, limiter, counter, asked>>

NoCounter == [count |-> 0, exp |-> 0]

LimiterInit ==
  /\ now = 0
  /\ limiter \in {"redis", "memory"}
  /\ counter = [u \in Users |-> NoCounter]
  /\ asked = <<>>

Lives(u) == counter[u].count > 0 /\ now <= counter[u].exp

(* AllowRate: INCR and EXPIRE, or memoryRateAllow.                         *)
Counted_ReArmed(u) ==
  IF Lives(u) THEN [count |-> counter[u].count + 1, exp |-> now + Window]
  ELSE [count |-> 1, exp |-> now + Window]

Counted_Forgets(u) ==
  IF Lives(u) /\ counter[u].count < Limit
  THEN [counter[u] EXCEPT !.count = @ + 1]
  ELSE [count |-> 1, exp |-> now + Window]

Counted(u) ==
  IF Lives(u)
  THEN [count |-> counter[u].count + 1,
        exp |-> IF limiter = "redis" THEN now + Window ELSE counter[u].exp]
  ELSE [count |-> 1, exp |-> now + Window]

Asked(u, allowed, failed, streamed) ==
  /\ Len(asked) < MaxAsked
  /\ asked' = Append(asked, [user |-> u, time |-> now, allowed |-> allowed,
                              failed |-> failed, streamed |-> streamed])

(* Chat: the request is counted, and let through or refused.               *)
AllowRate(u, allowed) ==
  /\ counter' = [counter EXCEPT ![u] = Counted(u)]
  /\ allowed <=> counter'[u].count <= Limit
  /\ Asked(u, allowed, FALSE, FALSE)
  /\ UNCHANGED <<now, limiter>>

(* Redis fails, before or after it counted: the request is let through.    *)
RateFails(u) ==
  /\ limiter = "redis"
  /\ \/ UNCHANGED <<counter, asked>>
     \/ /\ counter' = [counter EXCEPT ![u] = Counted(u)]
        /\ Asked(u, TRUE, TRUE, FALSE)
  /\ UNCHANGED <<now, limiter>>

(* ChatStream, of /chat/stream and of the desktop, asks nobody.            *)
ChatStream(u) ==
  /\ Asked(u, TRUE, FALSE, TRUE)
  /\ UNCHANGED <<now, limiter, counter>>

(* The counters are lost: those of the process when it restarts; those of  *)
(* redis when that does, or when a restart finds it gone.                  *)
LoseCounters ==
  /\ counter' = [u \in Users |-> NoCounter] /\ asked' = <<>>
  /\ limiter' \in {limiter, "memory"}
  /\ UNCHANGED now

LimiterTick == Tick(MaxTime) /\ UNCHANGED <<limiter, counter, asked>>

LimiterNext ==
  \/ \E u \in Users :
       (\E allowed \in BOOLEAN : AllowRate(u, allowed)) \/ RateFails(u) \/ ChatStream(u)
  \/ LoseCounters \/ LimiterTick

LimiterSpec == LimiterInit /\ [][LimiterNext]_limiterVars

--------------------------------------------------------------------------------
(* Properties *)

LimiterTypeOK ==
  /\ limiter \in {"redis", "memory"}
  /\ counter \in [Users -> [count : Nat, exp : Nat]]
  /\ asked \in Seq([user : Users, time : Nat, allowed : BOOLEAN, failed : BOOLEAN,
                    streamed : BOOLEAN])

(* What a user asked of Chat: a stream takes nothing of the limit.         *)
Of(u) == {i \in DOMAIN asked : asked[i].user = u /\ ~asked[i].streamed}
Allowed(u) == {i \in Of(u) : asked[i].allowed}

(* Since the counters were last lost, Chat lets a user through, in no time *)
(* of the length of the window, more often than the limit with redis, or   *)
(* than twice the limit, less one, with the counters of the process, whose *)
(* windows follow each other; failures apart.  Streams come on top, as     *)
(* many as the user likes, although the limit is one of chats per user and *)
(* minute (docs/features.md:20,108, docs/architecture.md:63).              *)
AdmissionsAreBounded ==
  \A u \in Users : \A i \in Allowed(u) :
       LET span == asked[i].time .. asked[i].time + Window
       IN Cardinality({j \in Allowed(u) : asked[j].time \in span /\ ~asked[j].failed})
            <= IF limiter = "redis" THEN Limit ELSE 2 * Limit - 1

Before(j, i) == i < j /\ asked[j].time <= asked[i].time + Window

(* From request i to request j the user never paused for a whole window.   *)
WithoutPause(u, i, j) ==
  \A k \in Of(u) \cap (i + 1 .. j) : \E m \in Of(u) \cap (i .. k - 1) : Before(k, m)

(* Who is refused was let through as often as the limit says, not counting *)
(* streams: within the last window, if the process counts; with redis,     *)
(* where every request prolongs the counter, since the last pause as long  *)
(* as the window, be it ever so long ago: who keeps asking is not let in   *)
(* again.                                                                  *)
RefusalsAreEarned ==
  \A u \in Users : \A j \in Of(u) \ Allowed(u) :
    IF limiter = "memory"
    THEN Cardinality({i \in Allowed(u) : Before(j, i)}) >= Limit
    ELSE \E i \in Of(u) : /\ WithoutPause(u, i, j)
                          /\ Cardinality(Allowed(u) \cap (i .. j - 1)) >= Limit
================================================================================
