----------------------------- MODULE RateLimiter -----------------------------
(***************************************************************************)
(* src/src/services/task_queue.py, class RateLimiter: a token bucket       *)
(* shared by the callers of acquire().  Time is counted in ticks and       *)
(* tokens in units, Unit to a token, Rate units per tick.  The body of     *)
(* acquire() holds a lock without awaiting, so it is one step; a caller    *)
(* that finds no token sleeps and then calls acquire() again.              *)
(***************************************************************************)
EXTENDS Integers, FiniteSets

CONSTANTS
    Caller,   \* the coroutines that call acquire()
    Burst,    \* burst_size, in tokens
    Unit,     \* units per token
    Rate,     \* units added per tick
    MaxLate,  \* a sleep ends at most this many ticks late
    MaxTime   \* bound: the clock

VARIABLES
    tokens,  \* self._tokens, in units
    age,     \* ticks since self._last_update, up to what fills the bucket
    caller,  \* per caller: not in acquire(), about to look, or asleep
    left,    \* per caller: ticks of sleep left, negative when late
    now,     \* ticks since the limiter was made
    granted  \* calls of acquire() that returned

limiterVars == <<tokens, age, caller, left, now, granted>>

Capacity == Burst * Unit

TypeOK ==
    /\ tokens \in 0 .. Capacity
    /\ age \in 0 .. Capacity
    /\ caller \in [Caller -> {"outside", "looking", "asleep"}]
    /\ left \in [Caller -> Int]
    /\ \A c \in Caller : -MaxLate <= left[c] /\ left[c] <= Unit
    /\ now \in Nat /\ granted \in Nat

Init ==
    /\ tokens = Capacity
    /\ age = 0
    /\ caller = [c \in Caller |-> "outside"]
    /\ left = [c \in Caller |-> 0]
    /\ now = 0 /\ granted = 0

Ask(c) ==
    /\ caller[c] = "outside"
    /\ caller' = [caller EXCEPT ![c] = "looking"]
    /\ UNCHANGED <<tokens, age, left, now, granted>>

\* Mutant: the bucket has no bottom to its size.
Refilled_NoCap == tokens + age * Rate

\* What is in the bucket now.
Refilled ==
    IF tokens + age * Rate > Capacity THEN Capacity ELSE tokens + age * Rate

\* Mutant: half a token is enough.
Grant_Early(c) ==
    /\ caller[c] = "looking"
    /\ Refilled > 0
    /\ tokens' = IF Refilled >= Unit THEN Refilled - Unit ELSE 0
    /\ age' = 0
    /\ caller' = [caller EXCEPT ![c] = "outside"]
    /\ granted' = granted + 1
    /\ UNCHANGED <<left, now>>

Grant(c) ==
    /\ caller[c] = "looking"
    /\ Refilled >= Unit
    /\ tokens' = Refilled - Unit
    /\ age' = 0
    /\ caller' = [caller EXCEPT ![c] = "outside"]
    /\ granted' = granted + 1
    /\ UNCHANGED <<left, now>>

\* wait_time, rounded up to whole ticks
WaitTime == (Unit - Refilled + Rate - 1) \div Rate

\* The fraction of a token that is there is thrown away, although the wait
\* is only as long as the missing part takes.
Wait(c) ==
    /\ caller[c] = "looking"
    /\ Refilled < Unit
    /\ left' = [left EXCEPT ![c] = WaitTime]
    /\ tokens' = 0
    /\ age' = 0
    /\ caller' = [caller EXCEPT ![c] = "asleep"]
    /\ UNCHANGED <<now, granted>>

Wake(c) ==
    /\ caller[c] = "asleep"
    /\ left[c] <= 0
    /\ caller' = [caller EXCEPT ![c] = "looking"]
    /\ left' = [left EXCEPT ![c] = 0]
    /\ UNCHANGED <<tokens, age, now, granted>>

\* Time passes when nobody is about to look and no sleep is later than it may.
Tick ==
    /\ now < MaxTime /\ now' = now + 1
    /\ \A c \in Caller :
         /\ caller[c] # "looking"
         /\ caller[c] = "asleep" => left[c] > -MaxLate
    /\ age' = IF age < Capacity THEN age + 1 ELSE age
    /\ left' = [c \in Caller |-> IF caller[c] = "asleep" THEN left[c] - 1 ELSE left[c]]
    /\ UNCHANGED <<tokens, caller, granted>>

Next ==
    \/ \E c \in Caller : Ask(c) \/ Grant(c) \/ Wait(c) \/ Wake(c)
    \/ Tick

Spec == Init /\ [][Next]_limiterVars

-----------------------------------------------------------------------------

(* However the callers and the clock interleave, and whatever partial      *)
(* tokens are thrown away, no more tokens are given out than the full      *)
(* bucket of the start and the refill of the time that has passed.         *)
RateBounded == granted * Unit + tokens + age * Rate <= Capacity + now * Rate

=============================================================================
