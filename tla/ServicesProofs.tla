------------------------------ MODULE ServicesProofs ------------------------------
(* The invariants of Services hold in every behaviour, for every value of its  *)
(* constants.  Each component has an inductive invariant of its own: its types *)
(* and what they do not say.  A step of the whole is a step of one component,  *)
(* which keeps its invariant, and leaves the others alone.                     *)
EXTENDS RecordsProofs

-------------------------------------------------------------------------------
(* The rate limiter.                                                         *)

\* A step of the whole is a step of this component, or leaves it alone.
LEMMA LimiterMoves == [Next]_vars => [Limiter!Next]_(Limiter!limiterVars)
BY DEF Next, Alone, vars, limiterVars, Limiter!limiterVars

LimiterInv == Limiter!TypeOK /\ Limiter!RateBounded

LEMMA LimiterConstants ==
    /\ Burst \in Nat \ {0} /\ Unit \in Nat \ {0} /\ Rate \in Nat \ {0} /\ MaxLate \in Nat
    /\ Unit \in Nat /\ Rate \in Nat
BY ServicesAssumption DEF ServicesAssumption, LimiterAssumption

LEMMA CapacityType == Limiter!Capacity \in Nat /\ Unit \in Nat /\ Rate \in Nat
BY LimiterConstants DEF Limiter!Capacity

LEMMA Distribute ==
    ASSUME NEW a \in Nat, NEW b \in Nat
    PROVE  (a + 1) * b = a * b + b /\ a * b \in Nat /\ 0 * b = 0
OBVIOUS

LEMMA LimiterInit == Limiter!Init => LimiterInv
BY LimiterConstants, CapacityType, Distribute
   DEF Limiter!Init, LimiterInv, Limiter!TypeOK, Limiter!RateBounded

LEMMA RefilledType ==
    ASSUME Limiter!TypeOK
    PROVE  /\ Limiter!Refilled \in 0 .. Limiter!Capacity
           /\ Limiter!Refilled <= supply + age * Rate
<1>1. age \in Nat /\ supply \in Nat /\ supply <= Limiter!Capacity
  BY CapacityType DEF Limiter!TypeOK
<1>2. age * Rate \in Nat
  BY <1>1, CapacityType
<1>3. QED
  BY <1>1, <1>2, CapacityType DEF Limiter!Refilled

LEMMA WaitTimeType ==
    ASSUME Limiter!TypeOK, Limiter!Refilled < Unit
    PROVE  Limiter!WaitTime \in 0 .. Unit
<1> DEFINE d == Unit - Limiter!Refilled
<1>1. d \in 1 .. Unit
  BY RefilledType, CapacityType
<1>2. Rate \in Nat /\ Rate >= 1 /\ Unit \in Nat
  BY LimiterConstants
<1>3. ASSUME NEW q \in Int, NEW r \in Int, NEW x \in Int, NEW u \in Int,
             x >= 1, x <= u, r >= 1, q = (x + r - 1) \div r
      PROVE  q >= 0 /\ q <= u
  <2>1. q * r <= x + r - 1 /\ x + r - 1 < (q + 1) * r
    BY <1>3
  <2>2. q >= 0
    <3>1. q < 0 => (q + 1) * r <= 0
      BY <1>3
    <3>2. QED
      BY <1>3, <2>1, <3>1
  <2>3. q <= x
    <3>1. q > x => (x + 1) * r <= q * r
      BY <1>3
    <3>2. (x + 1) * r = x * r + r /\ x * r >= x
      BY <1>3
    <3>3. QED
      BY <1>3, <2>1, <3>1, <3>2
  <2>4. QED
    BY <1>3, <2>2, <2>3
<1>4. Limiter!WaitTime \in Int /\ Limiter!WaitTime = (d + Rate - 1) \div Rate
  BY <1>1, <1>2 DEF Limiter!WaitTime
<1> HIDE DEF d
<1>5. QED
  BY <1>1, <1>2, <1>3, <1>4

LEMMA LimiterStep == LimiterInv /\ [Limiter!Next]_(Limiter!limiterVars) => LimiterInv'
<1> SUFFICES ASSUME LimiterInv, [Limiter!Next]_(Limiter!limiterVars) PROVE LimiterInv'
  OBVIOUS
<1>1. /\ Limiter!TypeOK /\ now \in Nat /\ granted \in Nat /\ Limiter!RateBounded
      /\ supply \in Nat /\ age \in Nat /\ age * Rate \in Nat
      /\ granted * Unit \in Nat /\ now * Rate \in Nat
      /\ (granted + 1) * Unit = granted * Unit + Unit
      /\ (now + 1) * Rate = now * Rate + Rate
      /\ (age + 1) * Rate = age * Rate + Rate
      /\ 0 * Rate = 0
  BY CapacityType, Distribute DEF LimiterInv, Limiter!TypeOK
<1>2. ASSUME NEW c \in Caller, Limiter!Grant(c)
      PROVE  LimiterInv'
  <2>1. Limiter!Refilled \in 0 .. Limiter!Capacity /\ Limiter!Refilled <= supply + age * Rate
    BY <1>1, RefilledType
  <2>2. /\ Limiter!Refilled >= Unit /\ supply' = Limiter!Refilled - Unit /\ age' = 0
        /\ caller' = [caller EXCEPT ![c] = "outside"] /\ left' = left
        /\ granted' = granted + 1 /\ now' = now
    BY <1>2 DEF Limiter!Grant
  <2>3. Limiter!TypeOK'
    BY <1>1, <2>1, <2>2, CapacityType DEF Limiter!TypeOK
  <2>4. Limiter!RateBounded'
    BY <1>1, <1>2, <2>1, <2>2, CapacityType DEF Limiter!RateBounded, Limiter!Capacity
  <2>5. QED
    BY <1>1, <1>2, <2>3, <2>4 DEF LimiterInv
<1>3. ASSUME NEW c \in Caller, Limiter!Wait(c)
      PROVE  LimiterInv'
  <2>1. /\ Limiter!Refilled < Unit /\ supply' = 0 /\ age' = 0
        /\ left' = [left EXCEPT ![c] = Limiter!WaitTime]
        /\ caller' = [caller EXCEPT ![c] = "asleep"] /\ granted' = granted /\ now' = now
    BY <1>3 DEF Limiter!Wait
  <2>2. Limiter!WaitTime \in 0 .. Unit
    BY <1>1, <2>1, WaitTimeType
  <2>3. Limiter!TypeOK'
    BY <1>1, <2>1, <2>2, CapacityType, LimiterConstants DEF Limiter!TypeOK
  <2>4. Limiter!RateBounded'
    BY <1>1, <1>3, <2>1, CapacityType DEF Limiter!RateBounded, Limiter!Capacity
  <2>5. QED
    BY <1>1, <1>3, <2>3, <2>4 DEF LimiterInv
<1>4. ASSUME NEW c \in Caller, Limiter!Ask(c) \/ Limiter!Wake(c)
      PROVE  LimiterInv'
  <2>1. Limiter!TypeOK'
    BY <1>1, <1>4, CapacityType, LimiterConstants DEF Limiter!TypeOK, Limiter!Ask, Limiter!Wake
  <2>2. supply' = supply /\ age' = age /\ granted' = granted /\ now' = now
    BY <1>4 DEF Limiter!Ask, Limiter!Wake
  <2>3. QED
    BY <1>1, <1>4, <2>1, <2>2 DEF LimiterInv, Limiter!RateBounded, Limiter!Capacity
<1>5. ASSUME Limiter!Tick
      PROVE  LimiterInv'
  <2>0. age' = IF age < Limiter!Capacity THEN age + 1 ELSE age
    BY <1>5 DEF Limiter!Tick
  <2>1. age' = age \/ (age' = age + 1 /\ age < Limiter!Capacity)
    <3>1. CASE age < Limiter!Capacity
      BY <2>0, <3>1
    <3>2. CASE ~(age < Limiter!Capacity)
      BY <2>0, <3>2
    <3>3. QED
      BY <3>1, <3>2
  <2>2. supply' = supply /\ caller' = caller /\ granted' = granted /\ now' = now + 1
    BY <1>5 DEF Limiter!Tick
  <2>3. left' \in [Caller -> Int] /\ \A c \in Caller : -MaxLate <= left'[c] /\ left'[c] <= Unit
    <3>1. left \in [Caller -> Int] /\ \A c \in Caller : -MaxLate <= left[c] /\ left[c] <= Unit
      BY <1>1 DEF Limiter!TypeOK
    <3>2. \A c \in Caller : caller[c] = "asleep" => left[c] > -MaxLate
      BY <1>5 DEF Limiter!Tick
    <3>3. left' = [c \in Caller |-> IF caller[c] = "asleep" THEN left[c] - 1 ELSE left[c]]
      BY <1>5 DEF Limiter!Tick
    <3>4. MaxLate \in Nat
      BY LimiterConstants
    <3>5. left' \in [Caller -> Int]
      BY <3>1, <3>3
    <3>6. ASSUME NEW c \in Caller PROVE -MaxLate <= left'[c] /\ left'[c] <= Unit
      <4>1. left[c] \in Int /\ -MaxLate <= left[c] /\ left[c] <= Unit
        BY <3>1
      <4>2. CASE caller[c] = "asleep"
        BY <3>2, <3>3, <3>4, <4>1, <4>2, CapacityType
      <4>3. CASE caller[c] # "asleep"
        BY <3>3, <4>1, <4>3
      <4>4. QED
        BY <4>2, <4>3
    <3>7. QED
      BY <3>5, <3>6
  <2>4. Limiter!TypeOK'
    BY <1>1, <2>1, <2>2, <2>3, CapacityType DEF Limiter!TypeOK
  <2>5. Limiter!RateBounded'
    BY <1>1, <1>5, <2>1, <2>2, CapacityType DEF Limiter!RateBounded, Limiter!Capacity
  <2>6. QED
    BY <1>1, <1>5, <2>4, <2>5 DEF LimiterInv
<1>6. CASE UNCHANGED Limiter!limiterVars
  BY <1>6 DEF Limiter!limiterVars, LimiterInv, Limiter!TypeOK, Limiter!RateBounded, Limiter!Capacity
<1>7. QED
  BY <1>2, <1>3, <1>4, <1>5, <1>6 DEF Limiter!Next

-------------------------------------------------------------------------------
(* The planner.                                                              *)

\* A step of the whole is a step of this component, or leaves it alone.
LEMMA PlannerMoves == [Next]_vars => [Planner!Next]_(Planner!plannerVars)
BY DEF Next, Alone, vars, plannerVars, Planner!plannerVars

Name == Tool \cup {"unknown_tool"}

\* The calls of a text that are allowed, and what the results of a round are
\* to be.
AskedFor(x, names) == Kept(x, {i \in DOMAIN x : x[i] \in names})

Told(x, told, names) ==
    /\ [i \in DOMAIN told |-> told[i][1]] = AskedFor(x, names)
    /\ \A i \in DOMAIN told : told[i][1] \in names /\ (told[i][2] = "success" => told[i][1] \in Tool)

Talk(list, rounds, names) ==
    /\ \A k \in 1 .. Len(list) : list[k].role = (IF k % 2 = 1 THEN "assistant" ELSE "user")
    /\ \A k \in 1 .. rounds : Told(list[2 * k - 1].text, list[2 * k].text, names)

PlannerTypes ==
    /\ step \in {"idle", "turn", "tools", "final", "done", "raised"}
    /\ allowed \subseteq Name
    /\ iteration \in Nat /\ iteration <= MaxIterations
    /\ tries \in 0 .. Attempts - 1
    /\ messages \in Seq(Planner!Message)
    /\ calls \in Planner!Text
    /\ outcome \in [DOMAIN calls -> {"pending", "success", "error"}]
    /\ answer \in [kind : {"none", "blank", "text"}, body : Planner!Text]
                   \cup [kind : {"results"}, body : Seq(Planner!Result)]

\* How far the conversation is, where run_planner() is.
Rounds ==
    /\ Len(messages) = 2 * iteration + (IF step = "tools" THEN 1 ELSE 0)
    /\ step = "idle" => iteration = 0
    /\ step \in {"turn", "tools"} => iteration < MaxIterations
    /\ step = "final" => iteration = MaxIterations /\ iteration # 0

\* The calls being executed are those the last text may make.
Executing ==
    step = "tools" =>
      /\ calls = AskedFor(messages[2 * iteration + 1].text, allowed)
      /\ \A i \in DOMAIN calls : outcome[i] = "success" => calls[i] \in Tool

FinalAnswer ==
    step = "done" =>
      \/ answer.kind = "blank" /\ (iteration < MaxIterations \/ MaxIterations = 0)
      \/ /\ answer.kind = "text"
         /\ IF iteration < MaxIterations THEN AskedFor(answer.body, allowed) = << >>
                                         ELSE answer.body = << >>
      \/ /\ answer.kind = "results" /\ iteration = MaxIterations
         /\ answer.body = messages[Len(messages)].text

PlannerInv ==
    /\ PlannerTypes /\ Rounds /\ Talk(messages, iteration, allowed) /\ Executing
    /\ FinalAnswer

\* The calls of a text that are allowed, in the words of the proof.
LEMMA PermittedIsAsked == \A x : Planner!Permitted(x) = AskedFor(x, allowed)
BY DEF Planner!Permitted, AskedFor, Planner!Kept, Kept, Planner!Nth, Nth, Planner!Rank, Rank,
   Planner!Cardinality, Cardinality, Planner!IsFiniteSet, IsFiniteSet

\* The calls that are left of a text are calls of it that are allowed.
LEMMA AskedIsText ==
    ASSUME PlannerAssumption, NEW x \in Planner!Text, NEW names
    PROVE  /\ x \in Seq(Name) /\ AskedFor(x, names) \in Planner!Text
           /\ \A i \in DOMAIN AskedFor(x, names) : AskedFor(x, names)[i] \in names
<1> DEFINE P == {i \in DOMAIN x : x[i] \in names}
           y == AskedFor(x, names)
<1>1. PICK n \in 0 .. MaxToolCalls : x \in [1 .. n -> Name]
  BY DEF Planner!Text, Name, Planner!Unknown
<1>2. n \in Nat /\ n <= MaxToolCalls /\ MaxToolCalls \in Nat
  BY DEF PlannerAssumption
<1>3. x \in Seq(Name) /\ Len(x) = n
  <2>1. x \in Seq(Name)
    BY <1>1, <1>2, SeqDef
  <2>2. QED
    BY <1>1, <1>2, <2>1, LenProperties
<1>4. P \in SUBSET DOMAIN x /\ \A i \in P : x[i] \in names
  OBVIOUS
<1>5. y = Kept(x, P)
  BY DEF AskedFor
<1> HIDE DEF P, y
<1>6. /\ y \in Seq(Name) /\ Len(y) = Cardinality(P) /\ Cardinality(P) \in Nat
      /\ Cardinality(P) <= n /\ \A k \in 1 .. Cardinality(P) : y[k] \in names
  BY <1>3, <1>4, <1>5, KeptIsSequence
<1>7. y \in [1 .. Len(y) -> Name] /\ Len(y) \in 0 .. MaxToolCalls
  BY <1>2, <1>6, LenProperties
<1>8. y \in Planner!Text
  BY <1>7 DEF Planner!Text, Name, Planner!Unknown
<1>9. \A i \in DOMAIN y : y[i] \in names
  BY <1>6, <1>7
<1>10. QED
  BY <1>3, <1>8, <1>9 DEF y

\* A blank answer is a text.
LEMMA EmptyText == PlannerAssumption => << >> \in Planner!Text
<1>1. << >> \in [1 .. 0 -> Tool \cup {Planner!Unknown}]
  BY EmptySeq, LenProperties
<1>2. QED
  BY <1>1 DEF PlannerAssumption, Planner!Text

\* The planner has not been asked yet.
LEMMA PlannerInit == PlannerAssumption /\ Planner!Init => PlannerInv
<1> SUFFICES ASSUME PlannerAssumption, Planner!Init PROVE PlannerInv
  OBVIOUS
<1>1. /\ step = "idle" /\ allowed = {} /\ iteration = 0 /\ tries = 0 /\ messages = << >>
      /\ calls = << >> /\ outcome = << >> /\ answer = [kind |-> "none", body |-> << >>]
  BY DEF Planner!Init, Planner!Nothing
<1>2. << >> \in Planner!Text /\ Len(<< >>) = 0 /\ << >> \in Seq(Planner!Message)
  BY EmptyText, EmptySeq
<1>3. outcome \in [DOMAIN calls -> {"pending", "success", "error"}]
  <2>1. << >> \in [1 .. 0 -> {"pending", "success", "error"}] /\ DOMAIN << >> = 1 .. 0
    BY EmptySeq, LenProperties
  <2>2. QED
    BY <1>1, <2>1
<1>4. 0 \in 0 .. Attempts - 1 /\ 0 <= MaxIterations
  BY DEF PlannerAssumption
<1>5. PlannerTypes
  BY <1>1, <1>2, <1>3, <1>4 DEF PlannerTypes
<1>6. QED
  BY <1>1, <1>2, <1>5 DEF PlannerInv, Rounds, Talk, Executing, FinalAnswer

\* The conversation and the answer are what the run checks.
LEMMA PlannerTrue ==
    PlannerAssumption /\ PlannerInv
        => Planner!TypeOK /\ Planner!ConversationIsTrue /\ Planner!AnswerIsFinal
<1> SUFFICES ASSUME PlannerAssumption, PlannerInv
             PROVE  Planner!TypeOK /\ Planner!ConversationIsTrue /\ Planner!AnswerIsFinal
  OBVIOUS
<1>1. PlannerTypes /\ Rounds /\ Talk(messages, iteration, allowed) /\ FinalAnswer
  BY DEF PlannerInv
<1>2. Planner!TypeOK
  <2>1. iteration \in 0 .. MaxIterations
    BY <1>1 DEF PlannerTypes, PlannerAssumption
  <2>2. outcome \in Seq({"pending", "success", "error"})
    <3>1. PICK n \in 0 .. MaxToolCalls : calls \in [1 .. n -> Tool \cup {Planner!Unknown}]
      BY <1>1 DEF PlannerTypes, Planner!Text
    <3>2. n \in Nat /\ DOMAIN calls = 1 .. n
      BY <3>1
    <3>3. QED
      BY <1>1, <3>2, SeqDef DEF PlannerTypes
  <2>3. QED
    BY <1>1, <2>1, <2>2 DEF PlannerTypes, Planner!TypeOK, Name, Planner!Unknown
<1>3. Planner!ConversationIsTrue
  <2>1. DOMAIN messages = 1 .. Len(messages)
    BY <1>1, LenProperties DEF PlannerTypes
  <2>2. QED
    BY <1>1, <2>1, PermittedIsAsked DEF Rounds, Talk, Told, Planner!ConversationIsTrue
<1>4. Planner!AnswerIsFinal
  BY <1>1, PermittedIsAsked DEF FinalAnswer, Planner!AnswerIsFinal
<1>5. QED
  BY <1>2, <1>3, <1>4

\* A request of the model is put to a conversation of whole rounds.
LEMMA TalkAsks ==
    ASSUME NEW S, NEW list \in Seq(S), NEW rounds \in Nat, NEW names, NEW m \in S,
           Len(list) = 2 * rounds, m.role = "assistant", Talk(list, rounds, names)
    PROVE  Talk(Append(list, m), rounds, names)
<1> DEFINE long == Append(list, m)
<1>1. /\ Len(long) = 2 * rounds + 1 /\ long[2 * rounds + 1] = m
      /\ \A i \in 1 .. 2 * rounds : long[i] = list[i]
  BY AppendProperties
<1> HIDE DEF long
<1>2. ASSUME NEW k \in 1 .. 2 * rounds + 1
      PROVE  long[k].role = (IF k % 2 = 1 THEN "assistant" ELSE "user")
  <2>1. CASE k \in 1 .. 2 * rounds
    BY <1>1, <2>1 DEF Talk
  <2>2. CASE k = 2 * rounds + 1
    <3>1. (2 * rounds + 1) % 2 = 1
      OBVIOUS
    <3>2. QED
      BY <1>1, <2>2, <3>1
  <2>3. QED
    BY <2>1, <2>2
<1>3. ASSUME NEW k \in 1 .. rounds PROVE Told(long[2 * k - 1].text, long[2 * k].text, names)
  <2>1. 2 * k - 1 \in 1 .. 2 * rounds /\ 2 * k \in 1 .. 2 * rounds
    OBVIOUS
  <2>2. long[2 * k - 1] = list[2 * k - 1] /\ long[2 * k] = list[2 * k]
    BY <1>1, <2>1
  <2>3. Told(list[2 * k - 1].text, list[2 * k].text, names)
    BY DEF Talk
  <2>4. QED
    BY <2>2, <2>3
<1>4. QED
  BY <1>1, <1>2, <1>3 DEF Talk, long

\* The results of its calls complete a round.
LEMMA TalkAnswers ==
    ASSUME NEW S, NEW list \in Seq(S), NEW rounds \in Nat, NEW names, NEW m \in S,
           Len(list) = 2 * rounds + 1, m.role = "user", Talk(list, rounds, names),
           Told(list[2 * rounds + 1].text, m.text, names)
    PROVE  Talk(Append(list, m), rounds + 1, names)
<1> DEFINE long == Append(list, m)
<1>1. /\ Len(long) = 2 * rounds + 1 + 1 /\ long[2 * rounds + 1 + 1] = m
      /\ \A i \in 1 .. 2 * rounds + 1 : long[i] = list[i]
  BY AppendProperties
<1> HIDE DEF long
<1>2. ASSUME NEW k \in 1 .. 2 * rounds + 1 + 1
      PROVE  long[k].role = (IF k % 2 = 1 THEN "assistant" ELSE "user")
  <2>1. CASE k \in 1 .. 2 * rounds + 1
    BY <1>1, <2>1 DEF Talk
  <2>2. CASE k = 2 * rounds + 1 + 1
    <3>1. (2 * rounds + 1 + 1) % 2 # 1
      OBVIOUS
    <3>2. QED
      BY <1>1, <2>2, <3>1
  <2>3. QED
    BY <2>1, <2>2
<1>3. ASSUME NEW k \in 1 .. rounds + 1
      PROVE  Told(long[2 * k - 1].text, long[2 * k].text, names)
  <2>1. CASE k \in 1 .. rounds
    <3>1. 2 * k - 1 \in 1 .. 2 * rounds + 1 /\ 2 * k \in 1 .. 2 * rounds + 1
      BY <2>1
    <3>2. long[2 * k - 1] = list[2 * k - 1] /\ long[2 * k] = list[2 * k]
      BY <1>1, <3>1
    <3>3. Told(list[2 * k - 1].text, list[2 * k].text, names)
      BY <2>1 DEF Talk
    <3>4. QED
      BY <3>2, <3>3
  <2>2. CASE k = rounds + 1
    <3>1. 2 * k - 1 = 2 * rounds + 1 /\ 2 * k = 2 * rounds + 1 + 1
      BY <2>2
    <3>2. 2 * rounds + 1 \in 1 .. 2 * rounds + 1
      OBVIOUS
    <3>3. long[2 * k - 1] = list[2 * rounds + 1] /\ long[2 * k] = m
      BY <1>1, <3>1, <3>2
    <3>4. QED
      BY <3>3
  <2>3. QED
    BY <2>1, <2>2
<1>4. 2 * rounds + 1 + 1 = 2 * (rounds + 1)
  OBVIOUS
<1>5. QED
  BY <1>1, <1>2, <1>3 DEF Talk, long

\* run_planner() is called with any set of tools.
LEMMA PlannerStarts == PlannerAssumption /\ PlannerInv /\ Planner!run_planner => PlannerInv'
<1> SUFFICES ASSUME PlannerAssumption, PlannerInv, Planner!run_planner PROVE PlannerInv'
  OBVIOUS
<1>1. UNCHANGED <<iteration, tries, messages, calls, outcome>> /\ step = "idle"
  BY DEF Planner!run_planner
<1>2. iteration = 0 /\ Len(messages) = 0 /\ MaxIterations \in Nat
  BY <1>1 DEF PlannerInv, Rounds, PlannerAssumption
<1>3. allowed' \subseteq Name
  BY DEF Planner!run_planner, Name, Planner!Unknown
<1>4. \/ MaxIterations = 0 /\ step' = "done" /\ answer' = [kind |-> "blank", body |-> << >>]
      \/ MaxIterations # 0 /\ step' = "turn" /\ answer' = answer
  BY DEF Planner!run_planner, Planner!Nothing
<1>5. PlannerTypes'
  BY <1>1, <1>3, <1>4, EmptyText DEF PlannerInv, PlannerTypes
<1>6. Rounds' /\ Talk(messages, iteration, allowed)'
  BY <1>1, <1>2, <1>4 DEF Rounds, Talk
<1>7. Executing' /\ FinalAnswer'
  BY <1>4 DEF Executing, FinalAnswer
<1>8. QED
  BY <1>5, <1>6, <1>7 DEF PlannerInv

\* What run_planner() returns inside the loop or after it.
LEMMA PlannerReturns ==
    ASSUME PlannerAssumption, PlannerInv, step \in {"turn", "final"},
           Planner!EmptyResponse \/ Planner!Finalize \/ Planner!RetryableError
             \/ Planner!OtherError
    PROVE  PlannerInv'
<1>1. UNCHANGED <<allowed, iteration, messages, calls, outcome>>
  BY DEF Planner!EmptyResponse, Planner!Finalize, Planner!RetryableError, Planner!OtherError
<1>2. /\ PlannerTypes /\ Rounds /\ Talk(messages, iteration, allowed)
      /\ Attempts \in Nat \ {0} /\ MaxIterations \in Nat
  BY DEF PlannerInv, PlannerAssumption
<1>3. tries' \in 0 .. Attempts - 1
  BY <1>2 DEF PlannerTypes, Planner!EmptyResponse, Planner!Finalize, Planner!RetryableError,
     Planner!OtherError
<1>4. ASSUME step = "final" PROVE messages[Len(messages)].text \in Seq(Planner!Result)
  <2>1. Len(messages) = 2 * iteration /\ iteration \in Nat /\ iteration # 0
        /\ messages \in Seq(Planner!Message)
    BY <1>2, <1>4 DEF Rounds, PlannerTypes
  <2>2. 2 * iteration \in 1 .. 2 * iteration /\ (2 * iteration) % 2 # 1
    BY <2>1
  <2>3. messages[2 * iteration].role = "user" /\ messages[2 * iteration] \in Planner!Message
    BY <1>2, <2>1, <2>2, ElementOfSeq DEF Talk
  <2>4. QED
    BY <2>1, <2>3 DEF Planner!Message
<1>5. \/ step' = step /\ answer' = answer
      \/ step' = "raised" /\ answer' = answer
      \/ step = "turn" /\ step' = "done" /\ answer' = [kind |-> "blank", body |-> << >>]
      \/ step = "final" /\ step' = "done" /\ answer' = [kind |-> "text", body |-> << >>]
      \/ /\ step = "final" /\ step' = "done"
         /\ answer' = [kind |-> "results", body |-> messages[Len(messages)].text]
  BY DEF Planner!EmptyResponse, Planner!Finalize, Planner!RetryableError, Planner!OtherError,
     Planner!Return, Planner!ReturnResults
<1>6. /\ step' \in {"idle", "turn", "tools", "final", "done", "raised"}
      /\ answer' \in [kind : {"none", "blank", "text"}, body : Planner!Text]
                       \cup [kind : {"results"}, body : Seq(Planner!Result)]
  BY <1>2, <1>4, <1>5, EmptyText DEF PlannerTypes
<1>7. PlannerTypes'
  BY <1>1, <1>2, <1>3, <1>6 DEF PlannerTypes
<1>8. Rounds' /\ Talk(messages, iteration, allowed)' /\ Executing'
  BY <1>1, <1>2, <1>5 DEF Rounds, Talk, Executing
<1>9. FinalAnswer'
  <2>1. step = "turn" => iteration < MaxIterations
    BY <1>2 DEF Rounds
  <2>2. step = "final" => iteration = MaxIterations /\ ~(iteration < MaxIterations)
    BY <1>2 DEF Rounds
  <2>3. CASE step' # "done"
    BY <2>3 DEF FinalAnswer
  <2>4. CASE step = "turn" /\ step' = "done" /\ answer' = [kind |-> "blank", body |-> << >>]
    BY <1>1, <2>1, <2>4 DEF FinalAnswer
  <2>5. CASE step = "final" /\ step' = "done" /\ answer' = [kind |-> "text", body |-> << >>]
    BY <1>1, <2>2, <2>5 DEF FinalAnswer
  <2>6. CASE /\ step = "final" /\ step' = "done"
             /\ answer' = [kind |-> "results", body |-> messages[Len(messages)].text]
    BY <1>1, <2>2, <2>6 DEF FinalAnswer
  <2>7. QED
    BY <1>5, <2>3, <2>4, <2>5, <2>6
<1>10. QED
  BY <1>7, <1>8, <1>9 DEF PlannerInv

\* The model answers inside the loop: its calls are executed, or its text is
\* returned.
LEMMA PlannerResponds == PlannerAssumption /\ PlannerInv /\ Planner!Respond => PlannerInv'
<1> SUFFICES ASSUME PlannerAssumption, PlannerInv, Planner!Respond PROVE PlannerInv'
  OBVIOUS
<1>1. PICK x \in Planner!Text :
        IF Planner!Permitted(x) = << >>
          THEN Planner!Return("text", x) /\ UNCHANGED <<messages, calls, outcome>>
          ELSE /\ step' = "tools" /\ calls' = Planner!Permitted(x)
               /\ outcome' = [i \in DOMAIN calls' |-> "pending"]
               /\ messages' = Append(messages, [role |-> "assistant", text |-> x])
               /\ UNCHANGED answer
  BY DEF Planner!Respond
<1>2. step = "turn" /\ tries' = 0 /\ UNCHANGED <<allowed, iteration>>
  BY DEF Planner!Respond
<1>3. /\ PlannerTypes /\ Rounds /\ Talk(messages, iteration, allowed)
      /\ Len(messages) = 2 * iteration /\ iteration \in Nat /\ iteration < MaxIterations
      /\ messages \in Seq(Planner!Message) /\ 0 \in 0 .. Attempts - 1
  BY <1>2 DEF PlannerInv, Rounds, PlannerTypes, PlannerAssumption
<1>4. CASE AskedFor(x, allowed) = << >>
  <2>1. /\ step' = "done" /\ answer' = [kind |-> "text", body |-> x]
        /\ UNCHANGED <<messages, calls, outcome>>
    BY <1>1, <1>4, PermittedIsAsked DEF Planner!Return
  <2>2. PlannerTypes'
    BY <1>2, <1>3, <2>1 DEF PlannerTypes
  <2>3. Rounds' /\ Talk(messages, iteration, allowed)' /\ Executing'
    BY <1>2, <1>3, <2>1 DEF Rounds, Talk, Executing
  <2>4. FinalAnswer'
    BY <1>2, <1>3, <1>4, <2>1 DEF FinalAnswer
  <2>5. QED
    BY <2>2, <2>3, <2>4 DEF PlannerInv
<1>5. CASE AskedFor(x, allowed) # << >>
  <2> DEFINE m == [role |-> "assistant", text |-> x]
             long == Append(messages, m)
             rest == AskedFor(x, allowed)
  <2>1. /\ step' = "tools" /\ calls' = rest /\ outcome' = [i \in DOMAIN rest |-> "pending"]
        /\ messages' = long /\ answer' = answer
    BY <1>1, <1>5, PermittedIsAsked
  <2>2. m \in Planner!Message /\ m.role = "assistant" /\ m.text = x
    BY DEF Planner!Message
  <2> HIDE DEF m
  <2>3. /\ long \in Seq(Planner!Message) /\ Len(long) = 2 * iteration + 1
        /\ long[2 * iteration + 1] = m
    BY <1>3, <2>2, AppendProperties
  <2>4. Talk(long, iteration, allowed)
    BY <1>3, <2>2, TalkAsks
  <2>5. rest \in Planner!Text
    BY AskedIsText
  <2> HIDE DEF long, rest
  <2>6. outcome' \in [DOMAIN rest -> {"pending", "success", "error"}]
    BY <2>1
  <2>7. PlannerTypes'
    BY <1>2, <1>3, <2>1, <2>3, <2>5, <2>6 DEF PlannerTypes
  <2>8. Rounds' /\ FinalAnswer'
    BY <1>2, <1>3, <2>1, <2>3 DEF Rounds, FinalAnswer
  <2>9. Talk(messages, iteration, allowed)'
    BY <1>2, <2>1, <2>4 DEF Talk
  <2>10. Executing'
    <3>1. calls' = AskedFor(messages'[2 * iteration + 1].text, allowed)
      BY <2>1, <2>2, <2>3 DEF rest
    <3>2. \A i \in DOMAIN rest : outcome'[i] = "pending"
      BY <2>1
    <3>3. QED
      BY <1>2, <2>1, <3>1, <3>2 DEF Executing
  <2>11. QED
    BY <2>7, <2>8, <2>9, <2>10 DEF PlannerInv
<1>6. QED
  BY <1>4, <1>5

\* One of the calls of a round ends.
LEMMA PlannerExecutes ==
    ASSUME PlannerAssumption, PlannerInv, NEW i \in DOMAIN calls, Planner!execute_tool_call(i)
    PROVE  PlannerInv'
<1>1. /\ UNCHANGED <<step, allowed, iteration, tries, messages, calls, answer>>
      /\ step = "tools"
  BY DEF Planner!execute_tool_call
<1>2. PICK end \in {"success", "error"} :
        (calls[i] = Planner!Unknown => end = "error") /\ outcome' = [outcome EXCEPT ![i] = end]
  BY DEF Planner!execute_tool_call
<1>3. PlannerTypes' /\ Rounds' /\ Talk(messages, iteration, allowed)' /\ FinalAnswer'
  BY <1>1, <1>2 DEF PlannerInv, PlannerTypes, Rounds, Talk, FinalAnswer
<1>4. ASSUME NEW j \in DOMAIN calls, outcome'[j] = "success" PROVE calls[j] \in Tool
  <2>1. calls[i] \in Tool \/ calls[i] = Planner!Unknown
    BY DEF PlannerInv, PlannerTypes, Planner!Text
  <2>2. QED
    BY <1>1, <1>2, <1>4, <2>1 DEF PlannerInv, PlannerTypes, Executing
<1>5. Executing'
  BY <1>1, <1>4 DEF PlannerInv, Executing
<1>6. QED
  BY <1>3, <1>5 DEF PlannerInv

\* The results of a round are told to the model in the order of its calls.
LEMMA PlannerGathers == PlannerAssumption /\ PlannerInv /\ Planner!Gather => PlannerInv'
<1> SUFFICES ASSUME PlannerAssumption, PlannerInv, Planner!Gather PROVE PlannerInv'
  OBVIOUS
<1> DEFINE told == [i \in DOMAIN calls |-> <<calls[i], outcome[i]>>]
           m == [role |-> "user", text |-> told]
           long == Append(messages, m)
<1>1. /\ step = "tools" /\ \A i \in DOMAIN outcome : outcome[i] # "pending"
      /\ messages' = long /\ iteration' = iteration + 1
      /\ step' = (IF iteration' < MaxIterations THEN "turn" ELSE "final")
      /\ UNCHANGED <<allowed, tries, calls, outcome, answer>>
  BY DEF Planner!Gather
<1>2. /\ PlannerTypes /\ Talk(messages, iteration, allowed)
      /\ Len(messages) = 2 * iteration + 1 /\ iteration \in Nat /\ iteration < MaxIterations
      /\ messages \in Seq(Planner!Message) /\ MaxIterations \in Nat /\ Executing
  BY <1>1 DEF PlannerInv, Rounds, PlannerTypes, PlannerAssumption
<1> DEFINE x == messages[2 * iteration + 1].text
<1>3. calls = AskedFor(x, allowed) /\ \A i \in DOMAIN calls : outcome[i] = "success" => calls[i] \in Tool
  BY <1>1, <1>2 DEF Executing
<1>4. x \in Planner!Text
  <2>1. 2 * iteration + 1 \in 1 .. 2 * iteration + 1 /\ (2 * iteration + 1) % 2 = 1
    BY <1>2
  <2>2. /\ messages[2 * iteration + 1].role = "assistant"
        /\ messages[2 * iteration + 1] \in Planner!Message
    BY <1>2, <2>1, ElementOfSeq DEF Talk
  <2>3. QED
    BY <2>2 DEF Planner!Message
<1>5. \A i \in DOMAIN calls : calls[i] \in allowed
  <2> HIDE DEF x
  <2>1. QED
    BY <1>3, <1>4, AskedIsText
<1>6. PICK n \in Nat : calls \in [1 .. n -> Tool \cup {Planner!Unknown}]
  BY <1>2 DEF PlannerTypes, Planner!Text
<1>7. told \in [1 .. n -> Planner!Result]
  <2>1. DOMAIN outcome = 1 .. n /\ DOMAIN calls = 1 .. n
    BY <1>2, <1>6 DEF PlannerTypes
  <2>2. \A i \in 1 .. n : calls[i] \in Tool \cup {Planner!Unknown}
                          /\ outcome[i] \in {"success", "error"}
    BY <1>1, <1>2, <1>6, <2>1 DEF PlannerTypes
  <2>3. QED
    BY <2>1, <2>2 DEF Planner!Result
<1>8. Told(x, told, allowed)
  <2>1. DOMAIN told = DOMAIN calls /\ \A i \in DOMAIN told : told[i][1] = calls[i]
                                                          /\ told[i][2] = outcome[i]
    OBVIOUS
  <2> HIDE DEF told, x
  <2>2. [i \in DOMAIN told |-> told[i][1]] = calls
    BY <1>6, <2>1
  <2>3. QED
    BY <1>3, <1>5, <2>1, <2>2 DEF Told
<1>9. m \in Planner!Message /\ m.role = "user" /\ m.text = told
  <2> HIDE DEF told
  <2>1. told \in Seq(Planner!Result)
    BY <1>7, SeqDef
  <2>2. QED
    BY <2>1 DEF Planner!Message
<1> HIDE DEF m, told
<1>10. Talk(long, iteration + 1, allowed)
  BY <1>2, <1>8, <1>9, TalkAnswers
<1>11. long \in Seq(Planner!Message) /\ Len(long) = 2 * iteration + 1 + 1
  BY <1>2, <1>9, AppendProperties
<1> HIDE DEF long, x
<1>12. PlannerTypes'
  <2>1. iteration' \in Nat /\ iteration' <= MaxIterations
    BY <1>1, <1>2
  <2>2. QED
    BY <1>1, <1>2, <1>11, <2>1 DEF PlannerTypes
<1>13. Rounds'
  <2>1. Len(messages') = 2 * (iteration + 1) + 0
    BY <1>1, <1>2, <1>11
  <2>2. QED
    BY <1>1, <1>2, <2>1 DEF Rounds
<1>14. Talk(messages, iteration, allowed)'
  BY <1>1, <1>10 DEF Talk
<1>15. Executing' /\ FinalAnswer'
  BY <1>1 DEF Executing, FinalAnswer
<1>16. QED
  BY <1>12, <1>13, <1>14, <1>15 DEF PlannerInv

\* Every step of run_planner() keeps it.
LEMMA PlannerStep ==
    PlannerAssumption /\ PlannerInv /\ [Planner!Next]_(Planner!plannerVars) => PlannerInv'
<1> SUFFICES ASSUME PlannerAssumption, PlannerInv, [Planner!Next]_(Planner!plannerVars)
             PROVE  PlannerInv'
  OBVIOUS
<1>1. CASE UNCHANGED Planner!plannerVars
  BY <1>1 DEF Planner!plannerVars, PlannerInv, PlannerTypes, Rounds, Talk, Executing,
     FinalAnswer
<1>2. CASE \/ Planner!EmptyResponse \/ Planner!Finalize \/ Planner!RetryableError
           \/ Planner!OtherError
  <2>1. step \in {"turn", "final"}
    BY <1>2 DEF Planner!EmptyResponse, Planner!Finalize, Planner!RetryableError,
       Planner!OtherError
  <2>2. QED
    BY <1>2, <2>1, PlannerReturns
<1>3. CASE Planner!Next
  BY <1>2, <1>3, PlannerStarts, PlannerResponds, PlannerExecutes, PlannerGathers
     DEF Planner!Next, Planner!Step
<1>4. QED
  BY <1>1, <1>3

-------------------------------------------------------------------------------
(* The dispatcher.                                                           *)

\* A step of the whole is a step of this component, or leaves it alone.
LEMMA DispatchMoves == [Next]_vars => [Dispatcher!Next]_(Dispatcher!dispatchVars)
BY DEF Next, Alone, vars, dispatchVars, Dispatcher!dispatchVars

Statuses == {"waiting", "running", "command", "success", "error"}
Envelopes == {"none", "success", "error", "retryable"}

\* The rows of a batch have an entry for each of its requests.
BatchIsTyped(b) ==
    /\ requests[b] \in Dispatcher!Batches(b)
    /\ status[b] \in [DOMAIN requests[b] -> Statuses]
    /\ envelope[b] \in [DOMAIN requests[b] -> Envelopes]
    /\ invoked[b] \in [DOMAIN requests[b] -> Nat]
    /\ \A i \in DOMAIN requests[b] :
         /\ invoked[b][i] <= MaxInvocations
         /\ status[b][i] \in {"waiting", "running"} => invoked[b][i] < MaxInvocations

IsTable(f) == f = [b \in Batch |-> f[b]]

DispatchTypes ==
    /\ IsTable(requests) /\ IsTable(status) /\ IsTable(envelope) /\ IsTable(invoked)
    /\ results \in [Batch -> {"none", "open", "returned"}]
    /\ \A b \in Batch : BatchIsTyped(b)

DispatchInv == DispatchTypes /\ Cardinality(Dispatcher!Running) <= MAX_CONCURRENCY

\* The tools that run are finitely many.
LEMMA RunningIsFinite ==
    ASSUME DispatchAssumption, \A b \in Batch : BatchIsTyped(b)
    PROVE  IsFiniteSet(Dispatcher!Running)
<1> DEFINE ofBatch(b) == {<<b, i>> : i \in {j \in DOMAIN requests[b] : status[b][j] \in Dispatcher!Held}}
<1>1. ASSUME NEW b \in Batch PROVE IsFiniteSet(ofBatch(b))
  <2> DEFINE J == {j \in DOMAIN requests[b] : status[b][j] \in Dispatcher!Held}
  <2>1. PICK n \in Nat : DOMAIN requests[b] = 1 .. n
    BY DEF BatchIsTyped, Dispatcher!Batches, DispatchAssumption
  <2>2. IsFiniteSet(J)
    BY <2>1, PositionsAreFinite
  <2> HIDE DEF J
  <2> DEFINE pairs == {<<b, i>> : i \in J}
             pair == [i \in J |-> <<b, i>>]
  <2>3. pair \in Surjection(J, pairs)
    BY DEF Surjection
  <2>4. IsFiniteSet(pairs)
    <3> HIDE DEF pair, pairs
    <3>1. QED
      BY <2>2, <2>3, FS_Surjection
  <2>5. QED
    BY <2>4 DEF J
<1> DEFINE parts == {ofBatch(b) : b \in Batch}
           part == [b \in Batch |-> ofBatch(b)]
<1>2. part \in Surjection(Batch, parts)
  BY DEF Surjection
<1>3. IsFiniteSet(parts)
  <2> HIDE DEF part, parts
  <2>1. QED
    BY <1>2, FS_Surjection DEF DispatchAssumption
<1>4. \A s \in parts : IsFiniteSet(s)
  BY <1>1
<1>5. IsFiniteSet(UNION parts)
  <2> HIDE DEF parts
  <2>1. QED
    BY <1>3, <1>4, FS_UNION
<1>6. QED
  BY <1>5 DEF Dispatcher!Running

\* Which request runs, and that one that stops running leaves fewer.
LEMMA RunningIs ==
    \A b, i : <<b, i>> \in Dispatcher!Running
                <=> b \in Batch /\ i \in DOMAIN requests[b] /\ status[b][i] \in Dispatcher!Held
BY DEF Dispatcher!Running

\* Who runs is a request of a batch.
LEMMA RunningPairs ==
    \A x \in Dispatcher!Running : x = <<x[1], x[2]>>
BY DEF Dispatcher!Running

\* When no request starts to run, the permits suffice.
LEMMA FewerRun ==
    ASSUME DispatchAssumption, DispatchInv, Dispatcher!Running' \subseteq Dispatcher!Running
    PROVE  Cardinality(Dispatcher!Running)' <= MAX_CONCURRENCY
<1> DEFINE R == Dispatcher!Running
           new == Dispatcher!Running'
<1>1. IsFiniteSet(R) /\ Cardinality(R) <= MAX_CONCURRENCY /\ MAX_CONCURRENCY \in Nat
  BY RunningIsFinite DEF DispatchInv, DispatchTypes, DispatchAssumption
<1>2. new \in SUBSET R
  OBVIOUS
<1> HIDE DEF R, new
<1>3. IsFiniteSet(new) /\ Cardinality(new) <= Cardinality(R)
  BY <1>1, <1>2, FS_Subset
<1>4. Cardinality(new) \in Nat /\ Cardinality(R) \in Nat
  BY <1>1, <1>3, FS_CardinalityType
<1>5. Cardinality(new) <= MAX_CONCURRENCY
  BY <1>1, <1>3, <1>4
<1>6. QED
  BY <1>5 DEF new

\* No batch has been submitted yet.
LEMMA DispatchInit == DispatchAssumption /\ Dispatcher!Init => DispatchInv
<1> SUFFICES ASSUME DispatchAssumption, Dispatcher!Init PROVE DispatchInv
  OBVIOUS
<1>1. /\ requests = [b \in Batch |-> << >>] /\ status = [b \in Batch |-> << >>]
      /\ envelope = [b \in Batch |-> << >>] /\ invoked = [b \in Batch |-> << >>]
      /\ results = [b \in Batch |-> "none"]
  BY DEF Dispatcher!Init
<1>2. \A S : << >> \in [1 .. 0 -> S] /\ DOMAIN << >> = 1 .. 0
  BY EmptySeq, LenProperties
<1>3. DOMAIN << >> = {}
  BY <1>2
<1>4. ASSUME NEW b \in Batch PROVE BatchIsTyped(b)
  <2>1. 0 \in 0 .. MaxRequests[b]
    BY DEF DispatchAssumption
  <2>2. << >> \in Dispatcher!Batches(b)
    BY <1>2, <2>1 DEF Dispatcher!Batches
  <2>3. QED
    BY <1>1, <1>2, <1>3, <2>2 DEF BatchIsTyped
<1>5. DispatchTypes
  BY <1>1, <1>4 DEF DispatchTypes, IsTable
<1>6. Dispatcher!Running = {}
  BY <1>1, <1>3 DEF Dispatcher!Running
<1>7. QED
  BY <1>5, <1>6, FS_EmptySet DEF DispatchInv, DispatchAssumption

\* The types of the dispatcher.
LEMMA DispatchTrue == DispatchInv => Dispatcher!TypeOK
<1> SUFFICES ASSUME DispatchInv PROVE Dispatcher!TypeOK
  OBVIOUS
<1>1. ASSUME NEW b \in Batch
      PROVE  /\ requests[b] \in Dispatcher!Batches(b)
             /\ status[b] \in [DOMAIN requests[b] -> Dispatcher!Open \cup {"success", "error"}]
             /\ envelope[b] \in [DOMAIN requests[b] -> {"none", "success", "error", "retryable"}]
             /\ invoked[b] \in [DOMAIN requests[b] -> 0 .. MaxInvocations]
  <2>1. BatchIsTyped(b)
    BY DEF DispatchInv, DispatchTypes
  <2>2. \A i \in DOMAIN requests[b] : invoked[b][i] \in 0 .. MaxInvocations
    BY <2>1 DEF BatchIsTyped
  <2>3. QED
    BY <2>1, <2>2 DEF BatchIsTyped, Statuses, Envelopes, Dispatcher!Open, Dispatcher!Held
<1>2. QED
  BY <1>1 DEF DispatchInv, DispatchTypes, Dispatcher!TypeOK

\* A batch starts with none of its requests running.
LEMMA DispatchStarts ==
    ASSUME DispatchAssumption, DispatchInv, NEW b \in Batch, Dispatcher!batch_execute(b)
    PROVE  DispatchInv'
<1>1. PICK list \in Dispatcher!Batches(b) :
        /\ requests' = [requests EXCEPT ![b] = list]
        /\ status' = [status EXCEPT ![b] = [i \in DOMAIN list |->
                        IF list[i] = "missing" THEN "error" ELSE "waiting"]]
        /\ envelope' = [envelope EXCEPT ![b] = [i \in DOMAIN list |-> "none"]]
        /\ invoked' = [invoked EXCEPT ![b] = [i \in DOMAIN list |-> 0]]
  BY DEF Dispatcher!batch_execute
<1>2. results' \in [Batch -> {"none", "open", "returned"}]
  BY DEF Dispatcher!batch_execute, DispatchInv, DispatchTypes
<1>3. /\ DOMAIN requests = Batch /\ DOMAIN status = Batch /\ DOMAIN envelope = Batch
      /\ DOMAIN invoked = Batch
  BY DEF DispatchInv, DispatchTypes, IsTable
<1>4. /\ requests'[b] = list /\ envelope'[b] = [i \in DOMAIN list |-> "none"]
      /\ invoked'[b] = [i \in DOMAIN list |-> 0]
      /\ status'[b] = [i \in DOMAIN list |->
                         IF list[i] = "missing" THEN "error" ELSE "waiting"]
  BY <1>1, <1>3
<1>5. \A c \in Batch : c # b => /\ requests'[c] = requests[c] /\ status'[c] = status[c]
                                /\ envelope'[c] = envelope[c] /\ invoked'[c] = invoked[c]
  BY <1>1, <1>3
<1>6. IsTable(requests)' /\ IsTable(status)' /\ IsTable(envelope)' /\ IsTable(invoked)'
  BY <1>1, <1>3 DEF IsTable
<1>7. BatchIsTyped(b)'
  BY <1>4 DEF BatchIsTyped, Dispatcher!Batches, Statuses, Envelopes, DispatchAssumption
<1>8. ASSUME NEW c \in Batch, c # b PROVE BatchIsTyped(c)'
  BY <1>5, <1>8 DEF BatchIsTyped, DispatchInv, DispatchTypes, Dispatcher!Batches
<1>9. DispatchTypes'
  BY <1>2, <1>6, <1>7, <1>8 DEF DispatchTypes
<1>10. Dispatcher!Running' \subseteq Dispatcher!Running
  <2>1. ASSUME NEW c \in Batch, NEW i \in DOMAIN requests'[c],
               status'[c][i] \in Dispatcher!Held
        PROVE  i \in DOMAIN requests[c] /\ status[c][i] \in Dispatcher!Held
    <3>1. c # b
      BY <1>4, <2>1 DEF Dispatcher!Held
    <3>2. QED
      BY <1>5, <2>1, <3>1
  <2>2. QED
    BY <2>1 DEF Dispatcher!Running
<1>11. QED
  BY <1>9, <1>10, FewerRun DEF DispatchInv

\* One request of one batch moves on.
MovesOn(b, i, to, told) ==
    /\ UNCHANGED <<requests, results>>
    /\ status' = [status EXCEPT ![b][i] = to] /\ envelope' = [envelope EXCEPT ![b][i] = told]

\* A request that moves on keeps the types.
LEMMA MovesKeepTypes ==
    ASSUME DispatchAssumption, DispatchInv, NEW b \in Batch, NEW i \in DOMAIN requests[b],
           NEW to \in Statuses, NEW told \in Envelopes, NEW n \in Nat, MovesOn(b, i, to, told),
           invoked' = [invoked EXCEPT ![b][i] = n], n <= MaxInvocations,
           to \in {"waiting", "running"} => n < MaxInvocations
    PROVE  DispatchTypes'
<1>1. /\ DOMAIN requests = Batch /\ DOMAIN status = Batch /\ DOMAIN envelope = Batch
      /\ DOMAIN invoked = Batch /\ BatchIsTyped(b)
  BY DEF DispatchInv, DispatchTypes, IsTable
<1>2. /\ status'[b] = [status[b] EXCEPT ![i] = to]
      /\ envelope'[b] = [envelope[b] EXCEPT ![i] = told]
      /\ invoked'[b] = [invoked[b] EXCEPT ![i] = n]
      /\ requests' = requests /\ results' = results
  BY <1>1 DEF MovesOn
<1>3. \A c \in Batch : c # b => /\ status'[c] = status[c]
                                /\ envelope'[c] = envelope[c] /\ invoked'[c] = invoked[c]
  BY <1>1 DEF MovesOn
<1>4. IsTable(requests)' /\ IsTable(status)' /\ IsTable(envelope)' /\ IsTable(invoked)'
  BY <1>1, <1>2 DEF IsTable, MovesOn, DispatchInv, DispatchTypes
<1>5. BatchIsTyped(b)'
  <2>1. /\ status'[b] \in [DOMAIN requests[b] -> Statuses]
        /\ envelope'[b] \in [DOMAIN requests[b] -> Envelopes]
        /\ invoked'[b] \in [DOMAIN requests[b] -> Nat]
    BY <1>1, <1>2 DEF BatchIsTyped
  <2>2. ASSUME NEW j \in DOMAIN requests[b]
        PROVE  /\ invoked'[b][j] <= MaxInvocations
               /\ status'[b][j] \in {"waiting", "running"} => invoked'[b][j] < MaxInvocations
    <3>1. CASE j = i
      BY <1>1, <1>2, <3>1 DEF BatchIsTyped
    <3>2. CASE j # i
      BY <1>1, <1>2, <3>2 DEF BatchIsTyped
    <3>3. QED
      BY <3>1, <3>2
  <2>3. QED
    BY <1>1, <1>2, <2>1, <2>2 DEF BatchIsTyped, Dispatcher!Batches
<1>6. ASSUME NEW c \in Batch, c # b PROVE BatchIsTyped(c)'
  BY <1>2, <1>3, <1>6 DEF BatchIsTyped, DispatchInv, DispatchTypes, Dispatcher!Batches
<1>7. QED
  BY <1>2, <1>4, <1>5, <1>6 DEF DispatchTypes, DispatchInv

\* It starts no other request.
LEMMA MovesKeepOthers ==
    ASSUME DispatchInv, NEW b \in Batch, NEW i \in DOMAIN requests[b],
           NEW to \in Statuses, NEW told \in Envelopes, MovesOn(b, i, to, told)
    PROVE  /\ Dispatcher!Running' \subseteq Dispatcher!Running \cup {<<b, i>>}
           /\ to \notin Dispatcher!Held \/ status[b][i] \in Dispatcher!Held
                => Dispatcher!Running' \subseteq Dispatcher!Running
<1>1. DOMAIN status = Batch /\ BatchIsTyped(b) /\ requests' = requests
      /\ status' = [status EXCEPT ![b][i] = to]
  BY DEF DispatchInv, DispatchTypes, IsTable, MovesOn
<1>2. ASSUME NEW c \in Batch, NEW j \in DOMAIN requests[c], status'[c][j] \in Dispatcher!Held,
             <<c, j>> # <<b, i>>
      PROVE  status[c][j] \in Dispatcher!Held
  BY <1>1, <1>2 DEF BatchIsTyped
<1>3. status'[b][i] = to
  BY <1>1 DEF BatchIsTyped
<1>4. ASSUME NEW c \in Batch, NEW j \in DOMAIN requests[c], status'[c][j] \in Dispatcher!Held
      PROVE  status[c][j] \in Dispatcher!Held \/ (<<c, j>> = <<b, i>> /\ to \in Dispatcher!Held)
  BY <1>2, <1>3, <1>4
<1>5. ASSUME NEW x \in Dispatcher!Running'
      PROVE  x \in Dispatcher!Running \/ (x = <<b, i>> /\ to \in Dispatcher!Held)
  <2>1. PICK c \in Batch : \E j \in DOMAIN requests[c] : x = <<c, j>> /\ status'[c][j] \in Dispatcher!Held
    BY <1>1, <1>5 DEF Dispatcher!Running
  <2>2. PICK j \in DOMAIN requests[c] : x = <<c, j>> /\ status'[c][j] \in Dispatcher!Held
    BY <2>1
  <2>3. QED
    BY <1>4, <2>2, RunningIs
<1>6. QED
  BY <1>5, RunningIs

\* A request that runs starts a command, ends or tries again, without a further permit.
LEMMA DispatchWorks ==
    ASSUME DispatchAssumption, DispatchInv, NEW b \in Batch, NEW i \in DOMAIN requests[b],
           \/ Dispatcher!CallTool(b, i) \/ Dispatcher!execute_local_capability(b, i)
           \/ Dispatcher!UnknownCapability(b, i) \/ Dispatcher!Invoke(b, i)
           \/ Dispatcher!invoke_smithery_tool(b, i)
    PROVE  DispatchInv'
<1>1. /\ IsTable(status) /\ IsTable(envelope) /\ IsTable(invoked) /\ BatchIsTyped(b)
      /\ MaxInvocations \in Nat \ {0}
  BY DEF DispatchInv, DispatchTypes, DispatchAssumption
<1>2. /\ status[b][i] \in Dispatcher!Held /\ envelope[b][i] \in Envelopes
      /\ invoked[b][i] \in Nat /\ invoked[b][i] <= MaxInvocations
      /\ status[b][i] = "running" => invoked[b][i] < MaxInvocations
  BY <1>1 DEF BatchIsTyped, Dispatcher!Held, Dispatcher!CallTool,
     Dispatcher!execute_local_capability, Dispatcher!UnknownCapability, Dispatcher!Invoke,
     Dispatcher!invoke_smithery_tool
<1>3. /\ [envelope EXCEPT ![b][i] = envelope[b][i]] = envelope
      /\ [invoked EXCEPT ![b][i] = invoked[b][i]] = invoked
      /\ [status EXCEPT ![b][i] = status[b][i]] = status
  BY <1>1 DEF IsTable, BatchIsTyped
<1>4. \E to \in Statuses, told \in Envelopes, n \in Nat :
        /\ MovesOn(b, i, to, told) /\ invoked' = [invoked EXCEPT ![b][i] = n]
        /\ n <= MaxInvocations /\ (to \in {"waiting", "running"} => n < MaxInvocations)
  <2>1. CASE Dispatcher!CallTool(b, i)
    <3>1. PICK to \in {"success", "error"} : status' = [status EXCEPT ![b][i] = to]
      BY <2>1 DEF Dispatcher!CallTool
    <3>2. UNCHANGED <<requests, envelope, invoked, results>>
      BY <2>1 DEF Dispatcher!CallTool
    <3>3. MovesOn(b, i, to, envelope[b][i])
      BY <1>3, <3>1, <3>2 DEF MovesOn
    <3>4. invoked' = [invoked EXCEPT ![b][i] = invoked[b][i]]
      BY <1>3, <3>2
    <3>5. to \in Statuses /\ to \notin {"waiting", "running"} /\ invoked[b][i] <= MaxInvocations
      BY <1>1, <1>2 DEF Statuses
    <3>6. QED
      BY <1>2, <3>3, <3>4, <3>5
  <2>2. CASE Dispatcher!execute_local_capability(b, i) \/ Dispatcher!UnknownCapability(b, i)
    <3>1. PICK told \in Envelopes : Dispatcher!Enveloped(b, i, told)
      BY <2>2 DEF Dispatcher!execute_local_capability, Dispatcher!UnknownCapability, Envelopes
    <3>2. UNCHANGED <<requests, invoked, results>>
      BY <2>2 DEF Dispatcher!execute_local_capability, Dispatcher!UnknownCapability
    <3>3. MovesOn(b, i, "success", told)
      BY <3>1, <3>2 DEF MovesOn, Dispatcher!Enveloped
    <3>4. invoked' = [invoked EXCEPT ![b][i] = invoked[b][i]]
      BY <1>3, <3>2
    <3>5. "success" \in Statuses /\ invoked[b][i] <= MaxInvocations
      BY <1>1, <1>2 DEF Statuses
    <3>6. QED
      BY <1>2, <3>3, <3>4, <3>5
  <2>3. CASE Dispatcher!Invoke(b, i)
    <3> DEFINE n == invoked[b][i] + 1
    <3>1. status[b][i] = "running"
      BY <2>3 DEF Dispatcher!Invoke
    <3>2. n \in Nat /\ n <= MaxInvocations
      BY <1>1, <1>2, <3>1
    <3>3. invoked' = [invoked EXCEPT ![b][i] = n]
      BY <2>3 DEF Dispatcher!Invoke
    <3>4. MovesOn(b, i, "command", envelope[b][i])
      BY <1>3, <2>3 DEF MovesOn, Dispatcher!Invoke
    <3>5. "command" \in Statuses /\ "command" \notin {"waiting", "running"}
      BY DEF Statuses
    <3> HIDE DEF n
    <3>6. QED
      BY <1>2, <3>2, <3>3, <3>4, <3>5
  <2>4. CASE Dispatcher!invoke_smithery_tool(b, i)
    <3>1. UNCHANGED <<requests, invoked, results>>
      BY <2>4 DEF Dispatcher!invoke_smithery_tool, Dispatcher!Again
    <3>2. invoked' = [invoked EXCEPT ![b][i] = invoked[b][i]]
      BY <1>3, <3>1
    <3>3. CASE \E told \in {"success", "retryable"} : Dispatcher!Enveloped(b, i, told)
      <4>1. PICK told \in {"success", "retryable"} : Dispatcher!Enveloped(b, i, told)
        BY <3>3
      <4>2. /\ MovesOn(b, i, "success", told) /\ told \in Envelopes /\ "success" \in Statuses
            /\ "success" \notin {"waiting", "running"}
        BY <3>1, <4>1 DEF MovesOn, Dispatcher!Enveloped, Envelopes, Statuses
      <4>3. QED
        BY <1>2, <3>2, <4>2
    <3>4. CASE invoked[b][i] < MaxInvocations /\ Dispatcher!Again(b, i)
      <4>1. MovesOn(b, i, "running", envelope[b][i]) /\ "running" \in Statuses
        BY <1>2, <1>3, <3>1, <3>4 DEF MovesOn, Statuses, Dispatcher!Again
      <4>2. QED
        BY <1>2, <3>2, <3>4, <4>1
    <3>5. QED
      BY <2>4, <3>3, <3>4 DEF Dispatcher!invoke_smithery_tool
  <2>5. QED
    BY <2>1, <2>2, <2>3, <2>4
<1>5. DispatchTypes'
  BY <1>4, MovesKeepTypes
<1>6. Dispatcher!Running' \subseteq Dispatcher!Running
  BY <1>2, <1>4, MovesKeepOthers
<1>7. QED
  BY <1>5, <1>6, FewerRun DEF DispatchInv

\* A permit is only taken when one is free.
LEMMA DispatchAcquires ==
    ASSUME DispatchAssumption, DispatchInv, NEW b \in Batch, NEW i \in DOMAIN requests[b],
           Dispatcher!Acquire(b, i)
    PROVE  DispatchInv'
<1> DEFINE R == Dispatcher!Running
           new == Dispatcher!Running'
<1>1. /\ IsTable(status) /\ IsTable(envelope) /\ IsTable(invoked) /\ BatchIsTyped(b)
      /\ MAX_CONCURRENCY \in Nat
  BY DEF DispatchInv, DispatchTypes, DispatchAssumption
<1>2. /\ status[b][i] = "waiting" /\ envelope[b][i] \in Envelopes /\ invoked[b][i] \in Nat
      /\ invoked[b][i] < MaxInvocations /\ invoked[b][i] <= MaxInvocations
  BY <1>1 DEF BatchIsTyped, Dispatcher!Acquire
<1>3. /\ [envelope EXCEPT ![b][i] = envelope[b][i]] = envelope
      /\ [invoked EXCEPT ![b][i] = invoked[b][i]] = invoked
  BY <1>1 DEF IsTable, BatchIsTyped
<1>4. MovesOn(b, i, "running", envelope[b][i]) /\ "running" \in Statuses
  BY <1>3 DEF MovesOn, Statuses, Dispatcher!Acquire
<1>5. invoked' = [invoked EXCEPT ![b][i] = invoked[b][i]]
  BY <1>3 DEF Dispatcher!Acquire
<1>6. DispatchTypes'
  BY <1>2, <1>4, <1>5, MovesKeepTypes
<1>7. IsFiniteSet(R)
  BY RunningIsFinite DEF DispatchInv, DispatchTypes
<1>8. Cardinality(R) < MAX_CONCURRENCY
  BY DEF Dispatcher!Acquire, Dispatcher!Cardinality, Cardinality, Dispatcher!IsFiniteSet,
     IsFiniteSet
<1>9. new \in SUBSET (R \cup {<<b, i>>})
  BY <1>2, <1>4, MovesKeepOthers
<1> HIDE DEF R, new
<1>10. /\ IsFiniteSet(R \cup {<<b, i>>}) /\ Cardinality(R) \in Nat
       /\ Cardinality(R \cup {<<b, i>>}) \in {Cardinality(R), Cardinality(R) + 1}
  BY <1>7, FS_AddElement, FS_CardinalityType
<1>11. /\ IsFiniteSet(new) /\ Cardinality(new) <= Cardinality(R \cup {<<b, i>>})
       /\ Cardinality(new) \in Nat
  BY <1>9, <1>10, FS_Subset, FS_CardinalityType
<1>12. Cardinality(new) <= MAX_CONCURRENCY
  BY <1>1, <1>8, <1>10, <1>11
<1>13. QED
  BY <1>6, <1>12 DEF DispatchInv, new

\* A batch is answered.
LEMMA DispatchReturns ==
    ASSUME DispatchAssumption, DispatchInv, NEW b \in Batch, Dispatcher!Returned(b)
    PROVE  DispatchInv'
<1>1. UNCHANGED <<requests, status, envelope, invoked>>
  BY DEF Dispatcher!Returned
<1>2. DispatchTypes'
  BY <1>1 DEF DispatchInv, DispatchTypes, IsTable, BatchIsTyped, Dispatcher!Batches,
     Dispatcher!Returned
<1>3. Dispatcher!Running' \subseteq Dispatcher!Running
  BY <1>1 DEF Dispatcher!Running
<1>4. QED
  BY <1>2, <1>3, FewerRun DEF DispatchInv

\* Every step of the batches keeps it.
LEMMA DispatchStep ==
    DispatchAssumption /\ DispatchInv /\ [Dispatcher!Next]_(Dispatcher!dispatchVars)
        => DispatchInv'
<1> SUFFICES ASSUME DispatchAssumption, DispatchInv,
                    [Dispatcher!Next]_(Dispatcher!dispatchVars)
             PROVE  DispatchInv'
  OBVIOUS
<1>1. CASE UNCHANGED Dispatcher!dispatchVars
  <2>1. UNCHANGED <<requests, status, envelope, invoked, results>>
    BY <1>1 DEF Dispatcher!dispatchVars
  <2>2. DispatchTypes'
    BY <2>1 DEF DispatchInv, DispatchTypes, IsTable, BatchIsTyped, Dispatcher!Batches
  <2>3. Dispatcher!Running' \subseteq Dispatcher!Running
    BY <2>1 DEF Dispatcher!Running
  <2>4. QED
    BY <2>2, <2>3, FewerRun DEF DispatchInv
<1>2. CASE Dispatcher!Next
  BY <1>2, DispatchStarts, DispatchWorks, DispatchAcquires, DispatchReturns
     DEF Dispatcher!Next, Dispatcher!Work, Dispatcher!Ended
<1>3. QED
  BY <1>1, <1>2

-------------------------------------------------------------------------------
(* The cost ledger.                                                          *)

\* A step of the whole is a step of this component, or leaves it alone.
LEMMA CostMoves == [Next]_vars => [Costs!Next]_(Costs!costVars)
BY DEF Next, Alone, vars, costVars, Costs!costVars

CostTables == UNION {[S -> Nat] : S \in SUBSET Costs!Key}

CostJob == [step : {"idle", "read", "write"}, key : Costs!Key, cost : Nat, ledger : CostTables]

CostTypes ==
    /\ disk \in CostTables
    /\ mem \in [Process -> CostTables]
    /\ job \in [Process -> CostJob]
    /\ checked \in [Process -> {"none", "OK", "BUDGET_EXCEEDED", "not_ready",
                                "APPROACHING_LIMIT", "WARNING", "WITHIN_BUDGET"}]
    /\ alerts \subseteq [threshold : Nat, triggered : BOOLEAN]
    /\ usage \in Nat
    /\ spent \in [Costs!Key -> Nat]
    /\ recorded \in [Costs!Key -> Nat]
    /\ records \in 0 .. MaxRecords

\* What is charged to the usage tool's key is what its known says.
UsageIsSpent == spent["model_usage"] = usage

\* Who says that a budget is exceeded or an alert reached is right.
VerdictsAreTrue ==
    /\ \A p \in Process : checked[p] = "BUDGET_EXCEEDED" => Costs!Total(spent) > Budget[p]
    /\ \A alert \in alerts : alert.triggered => Costs!Total(spent) >= alert.threshold

CostInv == CostTypes /\ Costs!EntriesAreSpent /\ UsageIsSpent /\ VerdictsAreTrue

\* The cost of a key is a number, in a table that has it and in one that has
\* not.
LEMMA CostTableType ==
    ASSUME NEW l
    PROVE  l \in CostTables <=> Costs!IsLedger(l)
BY DEF CostTables, Costs!IsLedger

\* The empty ledger.
LEMMA EmptyCosts == Costs!Empty \in CostTables /\ DOMAIN Costs!Empty = {}
BY DEF Costs!Empty, CostTables

\* A ledger with one entry raised is a ledger, and only that entry is raised.
LEMMA CostEntries ==
    ASSUME NEW l \in CostTables
    PROVE  /\ DOMAIN l \subseteq Costs!Key
           /\ \A k \in DOMAIN l : l[k] \in Nat
           /\ \A k : Costs!At(l, k) \in Nat
BY DEF CostTables, Costs!At

\* What a ledger adds up to is no more than what was spent.
LEMMA CostTotal ==
    ASSUME CostTypes, NEW l \in CostTables, Costs!Within(l)
    PROVE  Costs!Total(l) \in Nat /\ Costs!Total(spent) \in Nat /\ Costs!Total(l) <= Costs!Total(spent)
<1>1. \A k \in Costs!Key : Costs!At(spent, k) = spent[k] /\ spent[k] \in Nat
  BY DEF CostTypes, Costs!At
<1>2. \A k \in Costs!Key : Costs!At(l, k) \in Nat /\ Costs!At(l, k) <= spent[k]
  BY <1>1, CostEntries DEF Costs!Within, Costs!At
<1>3. QED
  BY <1>1, <1>2 DEF Costs!Total, Costs!Key

\* More is spent, never less.
LEMMA SpentGrows ==
    ASSUME CostTypes, NEW key \in Costs!Key, NEW cost \in Nat,
           spent' = [spent EXCEPT ![key] = @ + cost]
    PROVE  /\ Costs!Total(spent) \in Nat /\ Costs!Total(spent') \in Nat
           /\ Costs!Total(spent) <= Costs!Total(spent')
<1>1. \A k \in Costs!Key : /\ Costs!At(spent, k) \in Nat /\ Costs!At(spent', k) \in Nat
                           /\ Costs!At(spent, k) <= Costs!At(spent', k)
  BY DEF CostTypes, Costs!At
<1>2. QED
  BY <1>1 DEF Costs!Total, Costs!Key

\* As long as no less is spent, what was said stays right.
LEMMA VerdictsStay ==
    ASSUME CostTypes, CostAssumption, VerdictsAreTrue,
           Costs!Total(spent) \in Nat, Costs!Total(spent') \in Nat,
           Costs!Total(spent) <= Costs!Total(spent'), UNCHANGED alerts,
           \A p \in Process : checked'[p] = "BUDGET_EXCEEDED" =>
             checked[p] = "BUDGET_EXCEEDED" \/ Costs!Total(spent') > Budget[p]
    PROVE  VerdictsAreTrue'
<1>1. ASSUME NEW p \in Process, checked'[p] = "BUDGET_EXCEEDED"
      PROVE  Costs!Total(spent') > Budget[p]
  BY <1>1 DEF VerdictsAreTrue, CostAssumption
<1>2. ASSUME NEW alert \in alerts, alert.triggered PROVE Costs!Total(spent') >= alert.threshold
  <2>1. alert.threshold \in Nat
    BY DEF CostTypes
  <2>2. QED
    BY <1>2, <2>1 DEF VerdictsAreTrue
<1>3. QED
  BY <1>1, <1>2 DEF VerdictsAreTrue

\* An entry more: the others stay what they are.
LEMMA CostAdded ==
    ASSUME NEW l \in CostTables, NEW key \in Costs!Key, NEW cost \in Nat
    PROVE  /\ Costs!Add(l, key, cost) \in CostTables
           /\ DOMAIN Costs!Add(l, key, cost) = DOMAIN l \cup {key}
           /\ \A k \in DOMAIN l \cup {key} :
                Costs!Add(l, key, cost)[k] = Costs!At(l, k) + IF k = key THEN cost ELSE 0
<1>1. DOMAIN l \cup {key} \in SUBSET Costs!Key
  BY CostEntries
<1>2. Costs!Add(l, key, cost) = [k \in DOMAIN l \cup {key} |-> Costs!At(l, k) + IF k = key THEN cost ELSE 0]
  BY DEF Costs!Add
<1>3. \A k \in DOMAIN l \cup {key} : (Costs!At(l, k) + IF k = key THEN cost ELSE 0) \in Nat
  BY CostEntries
<1>4. Costs!Add(l, key, cost) \in [DOMAIN l \cup {key} -> Nat]
  BY <1>2, <1>3
<1>5. QED
  BY <1>1, <1>2, <1>4 DEF CostTables

\* A merged entry comes from the tracker or from the known.
LEMMA CostMerged ==
    ASSUME NEW l \in CostTables, NEW known \in CostTables
    PROVE  /\ Costs!Merged(l, known) \in CostTables
           /\ \A k \in DOMAIN Costs!Merged(l, known) :
                \/ k \in DOMAIN l /\ Costs!Merged(l, known)[k] = l[k]
                \/ k \in DOMAIN known /\ Costs!Merged(l, known)[k] = known[k]
<1>1. DOMAIN l \cup DOMAIN known \in SUBSET Costs!Key
  BY CostEntries
<1>2. Costs!Merged(l, known) \in [DOMAIN l \cup DOMAIN known -> Nat]
  BY CostEntries DEF Costs!Merged
<1>3. QED
  BY <1>1, <1>2 DEF CostTables, Costs!Merged

\* A process that does nothing holds a job of the right type.
LEMMA CostIdle == Costs!Idle \in CostJob
BY EmptyCosts DEF Costs!Idle, CostJob, Costs!Key

\* Costs!Conclusions are verdicts, given that the last one was.
LEMMA ConclusionsType ==
    ASSUME CostTypes, NEW p \in Process, NEW said \in Costs!Conclusions(p)
    PROVE  said \in {"none", "OK", "BUDGET_EXCEEDED", "not_ready",
                     "APPROACHING_LIMIT", "WARNING", "WITHIN_BUDGET"}
<1>1. CASE job[p].key = "system"
  BY <1>1, Zenon DEF Costs!Conclusions
<1>2. CASE job[p].key = "governor"
  BY <1>2, Zenon DEF Costs!Conclusions
<1>3. CASE job[p].key \notin {"system", "governor"}
  <2>1. said = checked[p]
    BY <1>3 DEF Costs!Conclusions
  <2>2. QED
    BY <2>1 DEF CostTypes
<1>4. QED
  BY <1>1, <1>2, <1>3

\* The status of a budget is one of the three that the code knows.
LEMMA BudgetStatusType ==
    ASSUME NEW all, NEW budget
    PROVE  Costs!BudgetStatus(all, budget) \in
             {"BUDGET_EXCEEDED", "APPROACHING_LIMIT", "WARNING", "WITHIN_BUDGET"}
BY DEF Costs!BudgetStatus

\* Nothing is spent yet.
LEMMA CostInit == CostAssumption /\ Costs!Init => CostInv
<1> SUFFICES ASSUME CostAssumption, Costs!Init PROVE CostInv
  OBVIOUS
<1>1. CostTypes
  BY EmptyCosts, CostIdle DEF Costs!Init, CostTypes, CostAssumption
<1>2. Costs!EntriesAreSpent
  <2>1. Costs!Within(Costs!Empty)
    BY EmptyCosts DEF Costs!Within
  <2>2. QED
    BY <2>1 DEF Costs!Init, Costs!EntriesAreSpent, Costs!Idle
<1>3. UsageIsSpent
  BY DEF Costs!Init, UsageIsSpent, Costs!Key
<1>4. VerdictsAreTrue
  BY DEF Costs!Init, VerdictsAreTrue
<1>5. QED
  BY <1>1, <1>2, <1>3, <1>4 DEF CostInv

\* A cost is added to a ledger and to what was spent alike.
LEMMA CostRecordKeeps ==
    ASSUME CostAssumption, CostInv, NEW p \in Process, NEW key \in Costs!Key, NEW cost \in Nat,
           Costs!record_cost(p, key, cost), UNCHANGED <<disk, checked, alerts, recorded>>,
           usage' = IF key = "model_usage" THEN usage + cost ELSE usage
    PROVE  CostInv'
<1> DEFINE old == IF key = "global" THEN disk ELSE mem[p]
           new == Costs!Add(old, key, cost)
<1>1. old \in CostTables /\ new \in CostTables
  BY CostAdded DEF CostInv, CostTypes
<1>2. spent' = [spent EXCEPT ![key] = @ + cost] /\ spent' \in [Costs!Key -> Nat]
  BY DEF CostInv, CostTypes, Costs!record_cost
<1>3. \A k \in Costs!Key : /\ spent[k] \in Nat /\ spent'[k] \in Nat
                     /\ spent'[k] = spent[k] + IF k = key THEN cost ELSE 0
  BY <1>2 DEF CostInv, CostTypes
<1>4. \A l \in CostTables : Costs!Within(l) => \A k \in DOMAIN l : l[k] <= spent'[k]
  BY <1>3, CostEntries DEF Costs!Within
<1>5. \A k \in DOMAIN new : new[k] <= spent'[k]
  <2>1. Costs!Within(old)
    BY DEF CostInv, Costs!EntriesAreSpent
  <2>2. \A k \in Costs!Key : Costs!At(old, k) <= spent[k] /\ Costs!At(old, k) \in Nat
    BY <2>1, <1>1, <1>3, CostEntries DEF Costs!Within, Costs!At
  <2>3. \A k \in DOMAIN new : k \in Costs!Key /\ new[k] = Costs!At(old, k) + IF k = key THEN cost ELSE 0
    <3> HIDE DEF old
    <3>1. DOMAIN new = DOMAIN old \cup {key} /\ DOMAIN old \subseteq Costs!Key
      BY <1>1, CostAdded, CostEntries
    <3>2. QED
      BY <1>1, <3>1, CostAdded
  <2>4. QED
    BY <2>2, <2>3, <1>3
<1>6. job' = [job EXCEPT ![p] = [step |-> "read", key |-> key, cost |-> cost, ledger |-> new]]
  BY DEF Costs!record_cost
<1>7. mem' = mem \/ mem' = [mem EXCEPT ![p] = new]
  BY DEF Costs!record_cost
<1>8. CostTypes'
  <2>1. job' \in [Process -> CostJob]
    BY <1>1, <1>6 DEF CostInv, CostTypes, CostJob
  <2>2. mem' \in [Process -> CostTables]
    BY <1>1, <1>7 DEF CostInv, CostTypes
  <2>3. records' \in 0 .. MaxRecords
    BY DEF CostInv, CostTypes, Costs!record_cost, CostAssumption
  <2>4. usage' \in Nat
    BY DEF CostInv, CostTypes
  <2>5. QED
    BY <1>2, <2>1, <2>2, <2>3, <2>4 DEF CostInv, CostTypes
<1>9. Costs!EntriesAreSpent'
  <2>1. Costs!Within(disk)'
    BY <1>4 DEF CostInv, CostTypes, Costs!EntriesAreSpent, Costs!Within
  <2>2. ASSUME NEW q \in Process PROVE Costs!Within(mem[q])'
    <3>1. mem[q] \in CostTables /\ Costs!Within(mem[q])
      BY DEF CostInv, CostTypes, Costs!EntriesAreSpent
    <3>2. mem'[q] = mem[q] \/ mem'[q] = new
      BY <1>7 DEF CostInv, CostTypes
    <3>3. QED
      BY <1>4, <1>5, <3>1, <3>2 DEF Costs!Within
  <2>3. ASSUME NEW q \in Process PROVE Costs!Within(job[q].ledger)'
    <3>1. job[q].ledger \in CostTables /\ Costs!Within(job[q].ledger)
      BY DEF CostInv, CostTypes, Costs!EntriesAreSpent, CostJob
    <3>2. job'[q].ledger = job[q].ledger \/ job'[q].ledger = new
      BY <1>6 DEF CostInv, CostTypes
    <3>3. QED
      BY <1>4, <1>5, <3>1, <3>2 DEF Costs!Within
  <2>4. QED
    BY <2>1, <2>2, <2>3 DEF Costs!EntriesAreSpent
<1>10. UsageIsSpent'
  <2>1. spent'["model_usage"] = spent["model_usage"] + IF "model_usage" = key THEN cost ELSE 0
    BY <1>3 DEF Costs!Key
  <2>2. spent["model_usage"] = usage /\ usage \in Nat
    BY DEF CostInv, UsageIsSpent, CostTypes
  <2>3. QED
    BY <2>1, <2>2 DEF UsageIsSpent
<1>11. VerdictsAreTrue'
  BY <1>2, SpentGrows, VerdictsStay DEF CostInv
<1>12. QED
  BY <1>8, <1>9, <1>10, <1>11 DEF CostInv

\* Reading the file before it is rewritten spends nothing.
LEMMA CostReadKeeps ==
    ASSUME CostInv, NEW p \in Process, Costs!Read(p)
    PROVE  CostInv'
<1> DEFINE new == Costs!Merged(job[p].ledger, disk)
<1>1. job[p] \in CostJob /\ job[p].ledger \in CostTables /\ disk \in CostTables /\ Costs!Within(job[p].ledger) /\ Costs!Within(disk)
  BY DEF CostInv, CostTypes, Costs!EntriesAreSpent, CostJob
<1>2. new \in CostTables /\ Costs!Within(new)
  BY <1>1, CostMerged DEF Costs!Within
<1>3. job' = [job EXCEPT ![p] = [job[p] EXCEPT !.step = "write", !.ledger = new]]
  BY DEF Costs!Read
<1>4. UNCHANGED <<disk, mem, checked, alerts, usage, spent, recorded, records>>
  BY DEF Costs!Read
<1>5. CostTypes'
  <2>1. [job[p] EXCEPT !.step = "write", !.ledger = new] \in CostJob
    BY <1>1, <1>2 DEF CostJob
  <2>2. job' \in [Process -> CostJob]
    BY <1>3, <2>1 DEF CostInv, CostTypes
  <2>3. QED
    BY <1>4, <2>2 DEF CostInv, CostTypes
<1>6. Costs!EntriesAreSpent'
  <2>1. ASSUME NEW q \in Process PROVE Costs!Within(job[q].ledger)'
    <3>1. job'[q].ledger = job[q].ledger \/ job'[q].ledger = new
      BY <1>1, <1>3 DEF CostInv, CostTypes, CostJob
    <3>2. Costs!Within(job[q].ledger)
      BY DEF CostInv, Costs!EntriesAreSpent
    <3>3. QED
      BY <1>2, <1>4, <3>1, <3>2 DEF Costs!Within
  <2>2. QED
    BY <1>4, <2>1 DEF CostInv, Costs!EntriesAreSpent, Costs!Within
<1>7. QED
  BY <1>4, <1>5, <1>6 DEF CostInv, VerdictsAreTrue, UsageIsSpent

\* Between two records a process holds the ledger it wrote, or the known.
LEMMA CostReplaceKeeps ==
    ASSUME CostAssumption, CostInv, NEW p \in Process, Costs!Replace(p)
    PROVE  CostInv'
<1>1. job[p] \in CostJob /\ job[p].ledger \in CostTables /\ job[p].key \in Costs!Key /\ job[p].cost \in Nat
  BY DEF CostInv, CostTypes, CostJob
<1>2. Costs!Within(job[p].ledger)
  BY DEF CostInv, Costs!EntriesAreSpent
<1>3. /\ disk' = job[p].ledger
      /\ mem' = mem \/ mem' = [mem EXCEPT ![p] = job[p].ledger]
      /\ job' = [job EXCEPT ![p] = Costs!Idle]
      /\ UNCHANGED <<alerts, usage, spent, records>>
  BY DEF Costs!Replace
<1>4. CostTypes'
  <2>1. PICK said \in Costs!Conclusions(p) : checked' = [checked EXCEPT ![p] = said]
    BY DEF Costs!Replace
  <2>2. checked' \in [Process -> {"none", "OK", "BUDGET_EXCEEDED", "not_ready",
                                  "APPROACHING_LIMIT", "WARNING", "WITHIN_BUDGET"}]
    BY <2>1, ConclusionsType DEF CostInv, CostTypes
  <2>3. recorded' \in [Costs!Key -> Nat]
    BY <1>1 DEF CostInv, CostTypes, Costs!Replace
  <2>4. job' \in [Process -> CostJob]
    BY <1>3, CostIdle DEF CostInv, CostTypes
  <2>5. mem' \in [Process -> CostTables]
    BY <1>1, <1>3 DEF CostInv, CostTypes
  <2>6. QED
    BY <1>1, <1>3, <2>2, <2>3, <2>4, <2>5 DEF CostInv, CostTypes
<1>5. Costs!EntriesAreSpent'
  <2>1. ASSUME NEW q \in Process PROVE Costs!Within(mem[q])'
    <3>1. mem'[q] = mem[q] \/ mem'[q] = job[p].ledger
      BY <1>3 DEF CostInv, CostTypes
    <3>2. QED
      BY <1>2, <1>3, <3>1 DEF CostInv, Costs!EntriesAreSpent, Costs!Within
  <2>2. ASSUME NEW q \in Process PROVE Costs!Within(job[q].ledger)'
    <3>1. job'[q].ledger = job[q].ledger \/ job'[q].ledger = Costs!Empty
      BY <1>3 DEF CostInv, CostTypes, Costs!Idle
    <3>2. QED
      BY <1>3, <3>1, EmptyCosts DEF CostInv, Costs!EntriesAreSpent, Costs!Within
  <2>3. QED
    BY <1>2, <1>3, <2>1, <2>2 DEF Costs!EntriesAreSpent, Costs!Within
<1>6. VerdictsAreTrue'
  <2>1. Costs!Total(job[p].ledger) <= Costs!Total(spent)
        /\ Costs!Total(job[p].ledger) \in Nat /\ Costs!Total(spent) \in Nat
    BY <1>1, <1>2, CostTotal DEF CostInv
  <2>2. PICK said \in Costs!Conclusions(p) : checked' = [checked EXCEPT ![p] = said]
    BY DEF Costs!Replace
  <2>3. said = "BUDGET_EXCEEDED" =>
          checked[p] = "BUDGET_EXCEEDED" \/ Costs!Total(job[p].ledger) > Budget[p]
    BY DEF Costs!Conclusions
  <2>4. \A q \in Process : checked'[q] = "BUDGET_EXCEEDED" =>
          checked[q] = "BUDGET_EXCEEDED" \/ Costs!Total(spent) > Budget[q]
    BY <2>1, <2>2, <2>3 DEF CostInv, CostTypes, CostAssumption
  <2>5. QED
    BY <1>3, <2>1, <2>4, VerdictsStay DEF CostInv
<1>7. QED
  BY <1>3, <1>4, <1>5, <1>6 DEF CostInv, UsageIsSpent

\* A failure and a death leave ledgers that were there.
LEMMA CostGiveUpKeeps ==
    ASSUME CostInv, NEW p \in Process, Costs!ReplaceFails(p) \/ Costs!Restart(p)
    PROVE  CostInv'
<1>1. /\ mem' = mem \/ mem' = [mem EXCEPT ![p] = disk]
      /\ job' = [job EXCEPT ![p] = Costs!Idle]
      /\ checked' = checked \/ checked' = [checked EXCEPT ![p] = "none"]
      /\ UNCHANGED <<disk, alerts, usage, spent, recorded, records>>
  BY DEF Costs!ReplaceFails, Costs!Restart
<1>2. CostTypes'
  BY <1>1, CostIdle DEF CostInv, CostTypes
<1>3. Costs!EntriesAreSpent'
  <2>1. ASSUME NEW q \in Process PROVE Costs!Within(mem[q])'
    <3>1. mem'[q] = mem[q] \/ mem'[q] = disk
      BY <1>1 DEF CostInv, CostTypes
    <3>2. QED
      BY <1>1, <3>1 DEF CostInv, Costs!EntriesAreSpent, Costs!Within
  <2>2. ASSUME NEW q \in Process PROVE Costs!Within(job[q].ledger)'
    <3>1. job'[q].ledger = job[q].ledger \/ job'[q].ledger = Costs!Empty
      BY <1>1 DEF CostInv, CostTypes, Costs!Idle
    <3>2. QED
      BY <1>1, <3>1, EmptyCosts DEF CostInv, Costs!EntriesAreSpent, Costs!Within
  <2>3. QED
    BY <1>1, <2>1, <2>2 DEF CostInv, Costs!EntriesAreSpent, Costs!Within
<1>4. VerdictsAreTrue'
  BY <1>1 DEF CostInv, CostTypes, VerdictsAreTrue
<1>5. QED
  BY <1>1, <1>2, <1>3, <1>4 DEF CostInv, UsageIsSpent

\* A check of the budget spends nothing.
LEMMA CostCheckKeeps ==
    ASSUME CostAssumption, CostInv, NEW p \in Process,
           Costs!check_budget_status(p) \/ Costs!set_budget_alert(p)
    PROVE  CostInv'
<1>1. UNCHANGED <<disk, mem, job, usage, spent, recorded, records>>
  BY DEF Costs!check_budget_status, Costs!set_budget_alert
<1>2. checked' \in [Process -> {"none", "OK", "BUDGET_EXCEEDED", "not_ready",
                                "APPROACHING_LIMIT", "WARNING", "WITHIN_BUDGET"}]
  BY BudgetStatusType DEF CostInv, CostTypes, Costs!check_budget_status, Costs!set_budget_alert
<1>3. alerts' \subseteq [threshold : Nat, triggered : BOOLEAN]
  <2>1. CASE Costs!check_budget_status(p)
    BY <2>1 DEF CostInv, CostTypes, Costs!check_budget_status
  <2>2. CASE Costs!set_budget_alert(p)
    <3>1. PICK threshold \in Cost :
            alerts' = alerts \cup
              {[threshold |-> threshold, triggered |-> Costs!Total(mem[p]) >= threshold]}
      BY <2>2 DEF Costs!set_budget_alert
    <3>2. [threshold |-> threshold, triggered |-> Costs!Total(mem[p]) >= threshold]
            \in [threshold : Nat, triggered : BOOLEAN]
      BY DEF CostAssumption
    <3>3. QED
      BY <3>1, <3>2 DEF CostInv, CostTypes
  <2>3. QED
    BY <2>1, <2>2
<1>4. Costs!Total(mem[p]) <= Costs!Total(spent)
      /\ Costs!Total(mem[p]) \in Nat /\ Costs!Total(spent) \in Nat
  BY CostTotal DEF CostInv, CostTypes, Costs!EntriesAreSpent
<1>5. VerdictsAreTrue'
  <2>1. CASE Costs!check_budget_status(p)
    <3>1. Costs!BudgetStatus(Costs!Total(mem[p]), Budget[p]) = "BUDGET_EXCEEDED" =>
            Costs!Total(mem[p]) > Budget[p]
      BY DEF Costs!BudgetStatus
    <3>2. \A q \in Process : checked'[q] = "BUDGET_EXCEEDED" =>
            checked[q] = "BUDGET_EXCEEDED" \/ Costs!Total(spent) > Budget[q]
      BY <1>4, <2>1, <3>1 DEF Costs!check_budget_status, CostInv, CostTypes, CostAssumption
    <3>3. QED
      BY <1>1, <1>4, <2>1, <3>2, VerdictsStay DEF Costs!check_budget_status, CostInv
  <2>2. CASE Costs!set_budget_alert(p)
    <3>1. PICK threshold \in Cost :
            alerts' = alerts \cup
              {[threshold |-> threshold, triggered |-> Costs!Total(mem[p]) >= threshold]}
      BY <2>2 DEF Costs!set_budget_alert
    <3>2. threshold \in Nat
      BY DEF CostAssumption
    <3>3. Costs!Total(mem[p]) >= threshold => Costs!Total(spent) >= threshold
      BY <1>4, <3>2
    <3>4. \A alert \in alerts' : alert.triggered => Costs!Total(spent) >= alert.threshold
      <4> DEFINE new == [threshold |-> threshold, triggered |-> Costs!Total(mem[p]) >= threshold]
      <4>1. new.threshold = threshold /\ (new.triggered => Costs!Total(spent) >= threshold)
        BY <3>3
      <4>2. \A alert \in alerts : alert.triggered => Costs!Total(spent) >= alert.threshold
        BY DEF CostInv, VerdictsAreTrue
      <4>3. alerts' = alerts \cup {new}
        BY <3>1
      <4> HIDE DEF new
      <4>4. QED
        BY <4>1, <4>2, <4>3
    <3>5. QED
      BY <1>1, <2>2, <3>4 DEF Costs!set_budget_alert, CostInv, VerdictsAreTrue
  <2>3. QED
    BY <2>1, <2>2
<1>6. QED
  BY <1>1, <1>2, <1>3, <1>5 DEF CostInv, CostTypes, Costs!EntriesAreSpent, Costs!Within, UsageIsSpent

\* Every step of the processes keeps it.
LEMMA CostStep ==
    ASSUME CostAssumption, CostInv, [Costs!Next]_(Costs!costVars)
    PROVE  CostInv'
<1>1. CASE UNCHANGED Costs!costVars
  BY <1>1 DEF Costs!costVars, CostInv, CostTypes, Costs!EntriesAreSpent, Costs!Within, UsageIsSpent, VerdictsAreTrue
<1>2. CASE Costs!Next
  <2> PICK p \in Process :
        \/ Costs!check_quota(p) \/ Costs!run_governance_review(p) \/ Costs!track_model_usage(p)
        \/ Costs!after_agent(p) \/ Costs!Read(p) \/ Costs!Replace(p) \/ Costs!ReplaceFails(p) \/ Costs!Restart(p)
        \/ Costs!check_budget_status(p) \/ Costs!set_budget_alert(p)
    BY <1>2 DEF Costs!Next
  <2> USE DEF CostAssumption
  <2>1. CASE Costs!check_quota(p)
    <3>1. PICK cost \in Nat : Costs!record_cost(p, "system", cost)
      BY <2>1 DEF Costs!check_quota
    <3>2. QED
      BY <2>1, <3>1, CostRecordKeeps DEF Costs!check_quota, Costs!Key
  <2>2. CASE Costs!run_governance_review(p)
    <3>1. PICK cost \in Nat : Costs!record_cost(p, "governor", cost)
      BY <2>2 DEF Costs!run_governance_review
    <3>2. QED
      BY <2>2, <3>1, CostRecordKeeps DEF Costs!run_governance_review, Costs!Key
  <2>3. CASE Costs!track_model_usage(p)
    <3>1. PICK cost \in Nat : Costs!record_cost(p, "model_usage", cost) /\ usage' = usage + cost
      BY <2>3 DEF Costs!track_model_usage
    <3>2. QED
      BY <2>3, <3>1, CostRecordKeeps DEF Costs!track_model_usage, Costs!Key
  <2>4. CASE Costs!after_agent(p)
    <3>1. PICK cost \in Nat : Costs!record_cost(p, "global", cost)
      BY <2>4 DEF Costs!after_agent
    <3>2. QED
      BY <2>4, <3>1, CostRecordKeeps DEF Costs!after_agent, Costs!Key
  <2>5. QED
    BY <2>1, <2>2, <2>3, <2>4, CostReadKeeps, CostReplaceKeeps, CostGiveUpKeeps, CostCheckKeeps
<1>3. QED
  BY <1>1, <1>2

\* No ledger tells more than was spent, and no alert is false.
LEMMA CostTrue == CostInv => Costs!TypeOK /\ Costs!NeverOverstated
<1>1. CostInv => Costs!TypeOK
  BY CostTableType DEF CostInv, CostTypes, Costs!TypeOK, CostJob
<1>2. CostInv => Costs!At(disk, "model_usage") <= usage
  BY CostEntries DEF CostInv, CostTypes, Costs!EntriesAreSpent, Costs!Within, UsageIsSpent,
                     Costs!At, Costs!Key
<1>3. QED
  BY <1>1, <1>2 DEF CostInv, VerdictsAreTrue, Costs!NeverOverstated

-------------------------------------------------------------------------------
(* The performance tracker.                                                  *)

\* A step of the whole is a step of this component, or leaves it alone.
LEMMA PerformanceMoves == [Next]_vars => [Performance!Next]_(Performance!performanceVars)
BY DEF Next, Alone, vars, performanceVars, Performance!performanceVars

Tables == UNION {[D -> Performance!Counts] : D \in SUBSET Asked}

\* No count is above the other's.
Fewer(few, many) ==
    few.success <= many.success /\ few.failure <= many.failure /\ few.slow <= many.slow

\* The two ways to compare the counts of two tables.
LEMMA FewerIsAtMost ==
    ASSUME NEW few, NEW many PROVE Performance!AtMost(few, many) <=> Fewer(few, many)
<1>1. DOMAIN Performance!Zero = {"success", "failure", "slow"}
  BY DEF Performance!Zero
<1>2. QED
  BY <1>1 DEF Performance!AtMost, Fewer

\* Every entry of a table is a count, and so is one it does not have.
LEMMA TableAt ==
    ASSUME NEW table \in Tables
    PROVE  Performance!IsTable(table) /\ \A m \in Asked : Performance!At(table, m) \in Performance!Counts
<1>1. Performance!Zero \in Performance!Counts
  BY DEF Performance!Zero, Performance!Counts
<1>2. QED
  BY <1>1 DEF Tables, Performance!IsTable, Performance!At

\* A table with one entry replaced is a table.
LEMMA TableOver ==
    ASSUME NEW first \in Tables, NEW second \in Tables
    PROVE  LET over == Performance!Over(first, second)
           IN  /\ over \in Tables
               /\ \A m \in Asked : Performance!At(over, m) = IF m \in DOMAIN first
                                     THEN Performance!At(first, m) ELSE Performance!At(second, m)
<1> DEFINE over == Performance!Over(first, second)
<1>1. /\ DOMAIN first \in SUBSET Asked /\ DOMAIN second \in SUBSET Asked
      /\ \A m \in DOMAIN first : first[m] \in Performance!Counts
      /\ \A m \in DOMAIN second : second[m] \in Performance!Counts
  BY DEF Tables
<1>2. /\ over \in [DOMAIN first \cup DOMAIN second -> Performance!Counts]
      /\ \A m \in DOMAIN over : over[m] = IF m \in DOMAIN first THEN first[m] ELSE second[m]
  BY <1>1 DEF Performance!Over
<1>3. over \in Tables
  BY <1>1, <1>2 DEF Tables
<1> HIDE DEF over
<1>4. QED
  BY <1>1, <1>2, <1>3 DEF Performance!At, over

CountedIn(table, counts) == \A m \in Asked : Fewer(Performance!At(table, m), counts[m])

Jobs == [step : {"idle", "read", "replace"}, table : Tables]

PerformanceInv ==
    /\ statsDisk \in Tables /\ statsMem \in [Performance!Tracker -> Tables]
    /\ statsJob \in [Worker -> Jobs]
    /\ statsTotal \in [Asked -> Performance!Counts]
    /\ own \in [Performance!Tracker -> [Asked -> Performance!Counts]]
    /\ statsRecords \in 0 .. MaxRecords
    /\ CountedIn(statsDisk, statsTotal) /\ \A w \in Worker : CountedIn(statsJob[w].table, statsTotal)
    /\ \A p \in Performance!Tracker :
         /\ CountedIn(statsMem[p], statsTotal)
         /\ \A m \in Asked : Fewer(own[p][m], Performance!At(statsMem[p], m))

\* The empty table counts nothing.
LEMMA EmptyTable ==
    Performance!Empty \in Tables /\ \A m : Performance!At(Performance!Empty, m) = Performance!Zero
<1>1. Performance!Empty \in [{} -> Performance!Counts] /\ {} \in SUBSET Asked
  BY DEF Performance!Empty
<1>2. Performance!Empty \in Tables
  BY <1>1 DEF Tables
<1>3. QED
  BY <1>1, <1>2 DEF Performance!At

\* No table counts anything yet.
LEMMA PerformanceInit == PerformanceAssumption /\ Performance!Init => PerformanceInv
<1> SUFFICES ASSUME PerformanceAssumption, Performance!Init PROVE PerformanceInv
  OBVIOUS
<1>1. Performance!Zero \in Performance!Counts /\ Fewer(Performance!Zero, Performance!Zero)
  BY DEF Performance!Zero, Performance!Counts, Fewer
<1>2. QED
  BY <1>1, EmptyTable DEF PerformanceAssumption, Performance!Init, PerformanceInv, CountedIn, Jobs

\* A model that is reliable is not reported for errors, so the best is not.
LEMMA BestIsNotWorst ==
    ASSUME PerformanceAssumption, NEW table \in Tables,
           Performance!get_best_model_for_capability(table)
             \in Performance!get_models_with_high_error_rate(table)
    PROVE  \A i \in DOMAIN Candidates : ~Performance!Reliable(Performance!At(table, Candidates[i]))
<1> DEFINE valid == {i \in DOMAIN Candidates : Candidates[i] \in DOMAIN table
                                  /\ Performance!Reliable(table[Candidates[i]])}
           score == [i \in valid |-> Performance!Score(table[Candidates[i]])]
           best(i) == \A j \in valid : score[i] > score[j] \/ (score[i] = score[j] /\ i <= j)
<1>1. SUFFICES ASSUME valid # {} PROVE FALSE
  <2>1. ~Performance!Reliable(Performance!Zero)
    BY DEF Performance!Reliable, Performance!requests_total, Performance!Zero
  <2>2. QED
    BY <2>1 DEF Performance!At
<1>2. Len(Candidates) \in Nat /\ DOMAIN Candidates = 1 .. Len(Candidates)
  BY LenProperties DEF PerformanceAssumption
<1>3. ASSUME NEW i \in valid
      PROVE  /\ table[Candidates[i]] \in Performance!Counts
             /\ Performance!Score(table[Candidates[i]]) \in Int
             /\ Candidates[i] \notin Performance!get_models_with_high_error_rate(table)
  <2> DEFINE c == table[Candidates[i]]
  <2>1. c \in Performance!Counts
    BY DEF Tables
  <2>2. /\ c.success \in Nat /\ c.failure \in Nat /\ c.slow \in Nat
        /\ c.success + c.failure > 0 /\ 5 * c.success >= 4 * (c.success + c.failure)
    BY <2>1 DEF Performance!Reliable, Performance!requests_total, Performance!Counts
  <2> HIDE DEF c
  <2>3. c.success > 0 /\ ~(2 * c.failure >= c.success + c.failure)
    BY <2>2
  <2>4. /\ (840 * c.success) \div (c.success + c.failure) \in Int
        /\ (360 * (c.success - c.slow)) \div c.success \in Int
    BY <2>2, <2>3
  <2>5. Performance!Score(c) \in Int
    BY <2>2, <2>4 DEF Performance!Score, Performance!requests_total
  <2>6. QED
    BY <2>1, <2>3, <2>5 DEF Performance!get_models_with_high_error_rate,
                            Performance!requests_total, c
<1>4. \E i \in valid : best(i)
  <2>1. valid \in SUBSET (1 .. Len(Candidates)) /\ score \in [valid -> Int]
    BY <1>2, <1>3
  <2> HIDE DEF valid, score
  <2>2. QED
    BY <1>1, <1>2, <2>1, FirstOfTheBest
<1>5. Performance!get_best_model_for_capability(table) = Candidates[CHOOSE i \in valid : best(i)]
  BY <1>1 DEF Performance!get_best_model_for_capability
<1>6. (CHOOSE i \in valid : best(i)) \in valid
  BY <1>4
<1>7. QED
  BY <1>3, <1>5, <1>6

\* No table counts a request that was not made, and the best model is none of
\* those reported for errors.
LEMMA PerformanceCounts == PerformanceAssumption /\ PerformanceInv => Performance!CountsAreReal
<1> SUFFICES ASSUME PerformanceAssumption, PerformanceInv PROVE Performance!CountsAreReal
  OBVIOUS
<1>1. \A p \in Performance!Tracker : statsMem[p] \in Tables
  BY DEF PerformanceInv
<1>2. QED
  BY <1>1, FewerIsAtMost, BestIsNotWorst DEF PerformanceInv, CountedIn, Performance!CountsAreReal

\* The types of the performance tracker.
LEMMA PerformanceTypes == PerformanceInv => Performance!TypeOK
BY TableAt DEF PerformanceInv, Jobs, Performance!TypeOK

\* What is recorded counts more, and is counted.
LEMMA RecordedFacts ==
    ASSUME NEW few \in Performance!Counts, NEW many \in Performance!Counts, Fewer(few, many),
           NEW o \in Performance!Outcome
    PROVE  /\ Performance!Recorded(few, o) \in Performance!Counts
           /\ Fewer(few, Performance!Recorded(few, o))
           /\ Fewer(Performance!Recorded(few, o), Performance!Recorded(many, o))
<1> USE DEF Performance!record_success, Performance!record_failure, Performance!Counts, Fewer
<1>1. CASE o = "failed"
  <2>1. \A c : Performance!Recorded(c, o) = Performance!record_failure(c)
    BY <1>1 DEF Performance!Recorded
  <2>2. QED
    BY <2>1
<1>2. CASE o # "failed"
  <2>1. PICK n \in {0, 1} : n = IF o = "slow" THEN 1 ELSE 0
    OBVIOUS
  <2>2. ASSUME NEW c \in Performance!Counts
        PROVE  LET d == Performance!Recorded(c, o)
               IN  /\ d \in Performance!Counts
                   /\ d.success = c.success + 1 /\ d.failure = c.failure /\ d.slow = c.slow + n
    <3> DEFINE d == [c EXCEPT !.success = @ + 1]
               e == [d EXCEPT !.slow = @ + n]
    <3>1. d \in Performance!Counts /\ d.success = c.success + 1 /\ d.failure = c.failure
          /\ d.slow = c.slow
      OBVIOUS
    <3>2. Performance!Recorded(c, o) = e
      BY <1>2, <2>1 DEF Performance!Recorded
    <3> HIDE DEF d
    <3>3. e \in Performance!Counts /\ e.success = d.success /\ e.failure = d.failure
          /\ e.slow = d.slow + n
      BY <2>1, <3>1
    <3> HIDE DEF e
    <3>4. QED
      BY <3>1, <3>2, <3>3
  <2>3. QED
    BY <2>1, <2>2
<1>3. QED
  BY <1>1, <1>2

\* A request that is recorded was made.
LEMMA PerformanceRecord ==
    ASSUME PerformanceAssumption, PerformanceInv, NEW w \in Worker, NEW m \in Asked,
           NEW o \in Performance!Outcome, Performance!Record(w, m, o)
    PROVE  PerformanceInv'
<1> USE DEF PerformanceInv
<1> DEFINE p == ProcessOf[w]
           c == Performance!Recorded(Performance!At(statsMem[p], m), o)
           one == [x \in {m} |-> c]
           table == Performance!Over(one, statsMem[p])
<1>1. p \in Performance!Tracker
  BY DEF Performance!Tracker
<1>2. /\ statsMem' = [statsMem EXCEPT ![p] = table]
      /\ statsJob' = [statsJob EXCEPT ![w] = [step |-> "read", table |-> table]]
      /\ statsTotal' = [statsTotal EXCEPT ![m] = Performance!Recorded(@, o)]
      /\ own' = [own EXCEPT ![p][m] = Performance!Recorded(@, o)]
      /\ statsRecords' = statsRecords + 1 /\ statsRecords < MaxRecords /\ UNCHANGED statsDisk
  BY DEF Performance!Record
<1>3. \A x \in Asked : Performance!At(statsMem[p], x) \in Performance!Counts
  BY <1>1, TableAt
<1>4. /\ c \in Performance!Counts /\ Fewer(c, Performance!Recorded(statsTotal[m], o))
      /\ Performance!Recorded(statsTotal[m], o) \in Performance!Counts
      /\ Fewer(statsTotal[m], Performance!Recorded(statsTotal[m], o))
      /\ Performance!Recorded(own[p][m], o) \in Performance!Counts
      /\ Fewer(Performance!Recorded(own[p][m], o), c)
  <2>1. Fewer(statsTotal[m], statsTotal[m])
    BY DEF Fewer, Performance!Counts
  <2>2. QED
    BY <1>1, <1>3, <2>1, RecordedFacts DEF CountedIn
<1>5. one \in Tables /\ DOMAIN one = {m} /\ one[m] = c
  <2>1. one \in [{m} -> Performance!Counts] /\ {m} \in SUBSET Asked
    BY <1>4
  <2>2. QED
    BY <2>1 DEF Tables
<1>6. Performance!At(one, m) = c
  BY <1>5 DEF Performance!At
<1> HIDE DEF one, c
<1>7. /\ table \in Tables
      /\ \A x \in Asked : Performance!At(table, x) = IF x = m THEN c
                                                     ELSE Performance!At(statsMem[p], x)
  BY <1>1, <1>5, <1>6, TableOver
<1> HIDE DEF table
<1>8. \A x \in Asked : /\ statsTotal'[x] \in Performance!Counts
                       /\ Fewer(statsTotal[x], statsTotal'[x])
  BY <1>2, <1>4 DEF Fewer, Performance!Counts
<1>9. ASSUME NEW t \in Tables, CountedIn(t, statsTotal) PROVE CountedIn(t, statsTotal')
  <2>1. \A x \in Asked : Performance!At(t, x) \in Performance!Counts
    BY TableAt
  <2>2. ASSUME NEW x \in Asked PROVE Fewer(Performance!At(t, x), statsTotal'[x])
    <3>1. Fewer(Performance!At(t, x), statsTotal[x])
      BY <1>9 DEF CountedIn
    <3>2. QED
      BY <1>8, <2>1, <3>1 DEF Fewer, Performance!Counts
  <2>3. QED
    BY <2>2 DEF CountedIn
<1>10. CountedIn(table, statsTotal')
  <2>1. ASSUME NEW x \in Asked PROVE Fewer(Performance!At(table, x), statsTotal'[x])
    <3>1. CASE x = m
      BY <1>2, <1>4, <1>7, <3>1
    <3>2. CASE x # m
      BY <1>1, <1>2, <1>7, <3>2 DEF CountedIn
    <3>3. QED
      BY <3>1, <3>2
  <2>2. QED
    BY <2>1 DEF CountedIn
<1>11. /\ statsMem' \in [Performance!Tracker -> Tables] /\ statsJob' \in [Worker -> Jobs]
       /\ statsTotal' \in [Asked -> Performance!Counts]
       /\ own' \in [Performance!Tracker -> [Asked -> Performance!Counts]]
       /\ statsRecords' \in 0 .. MaxRecords /\ statsDisk' \in Tables
  BY <1>1, <1>2, <1>4, <1>7 DEF Jobs, PerformanceAssumption
<1>12. CountedIn(statsDisk', statsTotal')
  BY <1>2, <1>9 DEF CountedIn
<1>13. ASSUME NEW v \in Worker PROVE CountedIn(statsJob'[v].table, statsTotal')
  <2>1. statsJob[v].table \in Tables /\ CountedIn(statsJob[v].table, statsTotal)
    BY DEF Jobs
  <2>2. statsJob'[v].table = IF v = w THEN table ELSE statsJob[v].table
    BY <1>2
  <2>3. QED
    BY <1>9, <1>10, <2>1, <2>2 DEF CountedIn
<1>14. ASSUME NEW q \in Performance!Tracker
       PROVE  /\ CountedIn(statsMem'[q], statsTotal')
              /\ \A x \in Asked : Fewer(own'[q][x], Performance!At(statsMem'[q], x))
  <2>1. statsMem'[q] = IF q = p THEN table ELSE statsMem[q]
    BY <1>1, <1>2
  <2>2. CountedIn(statsMem'[q], statsTotal')
    BY <1>9, <1>10, <2>1 DEF CountedIn
  <2>3. ASSUME NEW x \in Asked PROVE Fewer(own'[q][x], Performance!At(statsMem'[q], x))
    <3>1. own'[q][x] = IF q = p /\ x = m THEN Performance!Recorded(own[p][m], o) ELSE own[q][x]
      BY <1>1, <1>2
    <3>2. Fewer(own[q][x], Performance!At(statsMem[q], x))
      OBVIOUS
    <3>3. QED
      BY <1>4, <1>7, <2>1, <3>1, <3>2
  <2>4. QED
    BY <2>2, <2>3
<1>15. QED
  BY <1>11, <1>12, <1>13, <1>14

\* Every step of the workers and of the file keeps it.
LEMMA PerformanceStep ==
    ASSUME PerformanceAssumption, PerformanceInv, [Performance!Next]_(Performance!performanceVars)
    PROVE  PerformanceInv'
<1> USE DEF PerformanceInv
<1>1. CASE UNCHANGED Performance!performanceVars
  BY <1>1 DEF Performance!performanceVars, CountedIn
<1>2. ASSUME NEW w \in Worker, Performance!Persist(w) PROVE PerformanceInv'
  <2> DEFINE table == Performance!Over(statsJob[w].table, statsDisk)
  <2>1. /\ statsJob' = [statsJob EXCEPT ![w] = [step |-> "replace", table |-> table]]
        /\ UNCHANGED <<statsDisk, statsMem, statsTotal, own, statsRecords>>
    BY <1>2 DEF Performance!Persist
  <2>2. statsJob[w].table \in Tables /\ CountedIn(statsJob[w].table, statsTotal)
    BY DEF Jobs
  <2>3. table \in Tables /\ CountedIn(table, statsTotal)
    BY <2>2, TableOver DEF CountedIn
  <2> HIDE DEF table
  <2>4. QED
    BY <2>1, <2>3 DEF CountedIn, Jobs
<1>3. ASSUME NEW w \in Worker, Performance!Replace(w) PROVE PerformanceInv'
  <2> DEFINE p == ProcessOf[w]
             table == Performance!Over(statsMem[p], statsJob[w].table)
  <2>1. p \in Performance!Tracker
    BY DEF Performance!Tracker
  <2>2. /\ statsMem' = [statsMem EXCEPT ![p] = table] /\ statsDisk' = statsJob[w].table
        /\ statsJob' = [statsJob EXCEPT ![w] = [step |-> "idle", table |-> Performance!Empty]]
        /\ UNCHANGED <<statsTotal, own, statsRecords>>
    BY <1>3 DEF Performance!Replace
  <2>3. /\ statsJob[w].table \in Tables /\ CountedIn(statsJob[w].table, statsTotal)
        /\ statsMem[p] \in Tables /\ CountedIn(statsMem[p], statsTotal)
    BY <2>1 DEF Jobs
  <2>4. /\ table \in Tables /\ CountedIn(table, statsTotal)
        /\ \A x \in Asked : Fewer(own[p][x], Performance!At(table, x))
    <3>1. \A x \in Asked : /\ Performance!At(statsJob[w].table, x) \in Performance!Counts
                           /\ own[p][x] \in Performance!Counts
      BY <2>1, <2>3, TableAt
    <3>2. ASSUME NEW x \in Asked PROVE Fewer(own[p][x], Performance!At(table, x))
      <4>1. Fewer(own[p][x], Performance!At(statsMem[p], x))
        BY <2>1
      <4>2. CASE x \in DOMAIN statsMem[p]
        BY <2>3, <4>1, <4>2, TableOver
      <4>3. CASE x \notin DOMAIN statsMem[p]
        <5>1. Performance!At(statsMem[p], x) = Performance!Zero
              /\ Performance!At(table, x) = Performance!At(statsJob[w].table, x)
          BY <2>3, <4>3, TableOver DEF Performance!At
        <5>2. QED
          BY <3>1, <4>1, <5>1 DEF Fewer, Performance!Counts, Performance!Zero
      <4>4. QED
        BY <4>2, <4>3
    <3>3. QED
      BY <2>3, <3>2, TableOver DEF CountedIn
  <2> HIDE DEF table
  <2>5. CountedIn(Performance!Empty, statsTotal)
    BY EmptyTable DEF CountedIn, Fewer, Performance!Zero, Performance!Counts
  <2>6. QED
    BY <2>1, <2>2, <2>3, <2>4, <2>5, EmptyTable DEF CountedIn, Jobs
<1>4. CountedIn(Performance!Empty, statsTotal)
  BY EmptyTable DEF CountedIn, Fewer, Performance!Zero, Performance!Counts
<1>5. ASSUME NEW w \in Worker, Performance!ReplaceFails(w) PROVE PerformanceInv'
  BY <1>4, <1>5, EmptyTable DEF Performance!ReplaceFails, CountedIn, Jobs
<1>6. Performance!Zero \in Performance!Counts
      /\ \A c \in Performance!Counts : Fewer(Performance!Zero, c)
  BY DEF Performance!Zero, Performance!Counts, Fewer
<1>7. ASSUME NEW p \in Performance!Tracker, Performance!reset(p) PROVE PerformanceInv'
  BY <1>4, <1>6, <1>7, EmptyTable DEF Performance!reset, CountedIn, Jobs
<1>8. ASSUME NEW p \in Performance!Tracker, Performance!Load(p) PROVE PerformanceInv'
  <2>1. \A x \in Asked : Fewer(Performance!Zero, Performance!At(statsDisk, x))
    BY <1>6, TableAt
  <2>2. QED
    BY <1>4, <1>6, <1>8, <2>1, EmptyTable DEF Performance!Load, CountedIn, Jobs
<1>9. CASE Performance!Next
  BY <1>2, <1>3, <1>5, <1>7, <1>8, <1>9, PerformanceRecord DEF Performance!Next
<1>10. QED
  BY <1>1, <1>9

-------------------------------------------------------------------------------
(* The metrics registry.                                                     *)

\* A step of the whole is a step of this component, or leaves it alone.
LEMMA MetricsMoves == [Next]_vars => [Metrics!Next]_(Metrics!metricsVars)
BY DEF Next, Alone, vars, metricsVars, Metrics!metricsVars

\* Counts of one table are not above those of another.
Within(few, many) ==
    few.calls <= many.calls /\ few.errors <= many.errors /\ few.tokens <= many.tokens

\* With the counts of the file, which the next process may load.
MetricsInv ==
    /\ Metrics!TypeOK
    /\ Within(statsFile.counts, total) /\ statsFile.counts.errors <= statsFile.counts.calls
    /\ \A p \in Process :
         /\ metrics[p].calls = base[p] + ended[p] /\ metrics[p].errors <= metrics[p].calls
         /\ Within(metrics[p], total)

\* Nothing is counted yet.
LEMMA MetricsInit == Metrics!Init => MetricsInv
BY DEF Metrics!Init, MetricsInv, Metrics!TypeOK, Metrics!Missing, Metrics!Stored, Metrics!Zero,
       Metrics!Counts, Within

\* What a registry sums up is no more than was recorded.
LEMMA MetricsTrue == MetricsInv => Metrics!EveryCallCounts
<1>1. DOMAIN Metrics!Zero = {"calls", "errors", "tokens"}
  BY DEF Metrics!Zero
<1>2. QED
  BY <1>1 DEF MetricsInv, Metrics!EveryCallCounts, Metrics!get_summary, Within

\* A record counts once in the registry and once in all.
LEMMA MetricsRecord ==
    ASSUME MetricsInv, NEW p \in Process, NEW one \in Metrics!Counts,
           one.errors <= one.calls, NEW e \in {0, 1}, one.calls = e,
           metrics' = [metrics EXCEPT ![p] = Metrics!Plus(metrics[p], one)],
           total' = Metrics!Plus(total, one), Metrics!Open(p),
           ended' = [ended EXCEPT ![p] = @ + e], UNCHANGED base,
           call' \in [Process -> [Call -> {"none", "running"}]]
    PROVE  MetricsInv'
<1> DEFINE more(c) == [calls |-> c.calls + one.calls, errors |-> c.errors + one.errors,
                       tokens |-> c.tokens + one.tokens]
<1>1. Metrics!Plus(metrics[p], one) = more(metrics[p]) /\ Metrics!Plus(total, one) = more(total)
  BY DEF Metrics!Plus, Metrics!Zero
<1>2. /\ metrics \in [Process -> Metrics!Counts] /\ total \in Metrics!Counts
      /\ base \in [Process -> Nat] /\ ended \in [Process -> Nat]
  BY DEF MetricsInv, Metrics!TypeOK
<1>3. /\ metrics' = [metrics EXCEPT ![p] = more(metrics[p])] /\ total' = more(total)
      /\ more(metrics[p]) \in Metrics!Counts /\ more(total) \in Metrics!Counts
  BY <1>1, <1>2 DEF Metrics!Counts
<1>4. /\ statsFile' = [state |-> "torn", counts |-> Metrics!Zero]
      /\ Metrics!Zero = [calls |-> 0, errors |-> 0, tokens |-> 0]
      /\ writing' \in [Process -> BOOLEAN]
  BY DEF Metrics!Open, Metrics!Torn, Metrics!Stored, Metrics!Zero, MetricsInv, Metrics!TypeOK
<1>5. Metrics!TypeOK'
  <2>1. statsFile' \in [state : {"missing", "torn", "whole"}, counts : Metrics!Counts]
    BY <1>4 DEF Metrics!Counts
  <2>2. metrics' \in [Process -> Metrics!Counts] /\ ended' \in [Process -> Nat]
        /\ base' \in [Process -> Nat] /\ total' \in Metrics!Counts
    BY <1>2, <1>3
  <2>3. QED
    BY <1>4, <2>1, <2>2 DEF Metrics!TypeOK
<1>6. Within(statsFile'.counts, total') /\ statsFile'.counts.errors <= statsFile'.counts.calls
  BY <1>2, <1>3, <1>4 DEF Within, Metrics!Counts
<1>7. ASSUME NEW o \in Process
      PROVE  /\ metrics'[o].calls = base'[o] + ended'[o]
             /\ metrics'[o].errors <= metrics'[o].calls /\ Within(metrics'[o], total')
  <2>1. metrics[o].calls = base[o] + ended[o] /\ metrics[o].errors <= metrics[o].calls
        /\ Within(metrics[o], total)
    BY DEF MetricsInv
  <2>2. CASE o = p
    BY <1>2, <1>3, <2>1, <2>2 DEF Within, Metrics!Counts
  <2>3. CASE o # p
    BY <1>2, <1>3, <2>1, <2>3 DEF Within, Metrics!Counts
  <2>4. QED
    BY <2>2, <2>3
<1>8. QED
  BY <1>5, <1>6, <1>7 DEF MetricsInv

\* Every call that starts, ends or is killed and every file written keep it.
LEMMA MetricsStep == MetricsInv /\ [Metrics!Next]_(Metrics!metricsVars) => MetricsInv'
<1> SUFFICES ASSUME MetricsInv, [Metrics!Next]_(Metrics!metricsVars) PROVE MetricsInv'
  OBVIOUS
<1>1. CASE UNCHANGED Metrics!metricsVars
  BY <1>1 DEF Metrics!metricsVars, MetricsInv, Metrics!TypeOK
<1>2. ASSUME NEW p \in Process, NEW t \in Call, Metrics!Enter(p, t) PROVE MetricsInv'
  BY <1>2 DEF Metrics!Enter, MetricsInv, Metrics!TypeOK
<1>3. ASSUME NEW p \in Process, NEW t \in Call, Metrics!Exit(p, t) PROVE MetricsInv'
  <2>1. PICK error \in BOOLEAN : Metrics!record_call(p, error)
    BY <1>3 DEF Metrics!Exit
  <2>2. PICK one \in Metrics!Counts :
          /\ one.errors <= one.calls /\ one.calls = 1
          /\ metrics' = [metrics EXCEPT ![p] = Metrics!Plus(metrics[p], one)]
          /\ total' = Metrics!Plus(total, one) /\ Metrics!Open(p)
    <3> DEFINE one(e) == [calls |-> 1, errors |-> e, tokens |-> 0]
    <3>1. one(0) \in Metrics!Counts /\ one(1) \in Metrics!Counts
      BY DEF Metrics!Counts
    <3>2. metrics \in [Process -> Metrics!Counts]
      BY DEF MetricsInv, Metrics!TypeOK
    <3>3. \E e \in {0, 1} :
            /\ metrics' = [metrics EXCEPT ![p] = Metrics!Plus(metrics[p], one(e))]
            /\ total' = Metrics!Plus(total, one(e)) /\ Metrics!Open(p)
      BY <2>1, <3>2 DEF Metrics!record_call
    <3>4. PICK e \in {0, 1} :
            /\ metrics' = [metrics EXCEPT ![p] = Metrics!Plus(metrics[p], one(e))]
            /\ total' = Metrics!Plus(total, one(e)) /\ Metrics!Open(p)
      BY <3>3
    <3>5. one(e) \in Metrics!Counts /\ one(e).errors <= one(e).calls /\ one(e).calls = 1
      BY <3>1
    <3> HIDE DEF one
    <3>6. QED
      BY <3>4, <3>5
  <2>4. /\ ended' = [ended EXCEPT ![p] = @ + 1] /\ UNCHANGED base
        /\ call' \in [Process -> [Call -> {"none", "running"}]]
    BY <1>3 DEF Metrics!Exit, MetricsInv, Metrics!TypeOK
  <2>5. QED
    BY <2>2, <2>4, MetricsRecord
<1>4. ASSUME NEW p \in Process, Metrics!record_tokens(p) PROVE MetricsInv'
  <2> DEFINE one == [Metrics!Zero EXCEPT !.tokens = 1]
  <2>1. one \in Metrics!Counts /\ one.errors <= one.calls /\ one.calls = 0
    BY DEF Metrics!Counts, Metrics!Zero
  <2>2. /\ metrics' = [metrics EXCEPT ![p] = Metrics!Plus(metrics[p], one)]
        /\ total' = Metrics!Plus(total, one) /\ Metrics!Open(p)
        /\ UNCHANGED <<call, ended, base>>
    BY <1>4 DEF Metrics!record_tokens
  <2> HIDE DEF one
  <2>3. /\ ended' = [ended EXCEPT ![p] = @ + 0]
        /\ call' \in [Process -> [Call -> {"none", "running"}]]
    BY <2>2 DEF MetricsInv, Metrics!TypeOK
  <2>4. QED
    BY <2>1, <2>2, <2>3, MetricsRecord
<1>5. ASSUME NEW p \in Process, Metrics!_persist(p) PROVE MetricsInv'
  <2>1. /\ statsFile' \in {[state |-> "whole", counts |-> metrics[p]],
                           [state |-> "torn", counts |-> Metrics!Zero],
                           [state |-> "missing", counts |-> Metrics!Zero]}
        /\ UNCHANGED <<metrics, call, ended, base, total>>
        /\ writing' \in [Process -> BOOLEAN]
    BY <1>5 DEF Metrics!_persist, Metrics!Torn, Metrics!Missing, Metrics!Stored, MetricsInv,
                Metrics!TypeOK
  <2>2. Metrics!Zero = [calls |-> 0, errors |-> 0, tokens |-> 0]
    BY DEF Metrics!Zero
  <2>3. QED
    BY <2>1, <2>2 DEF MetricsInv, Metrics!TypeOK, Metrics!Counts, Within
<1>6. ASSUME NEW p \in Process, Metrics!Restart(p) PROVE MetricsInv'
  <2>1. /\ metrics' = [metrics EXCEPT ![p] = statsFile.counts]
        /\ base' = [base EXCEPT ![p] = statsFile.counts.calls]
        /\ ended' = [ended EXCEPT ![p] = 0] /\ UNCHANGED <<statsFile, total>>
        /\ writing' = [writing EXCEPT ![p] = FALSE]
        /\ call' = [call EXCEPT ![p] = [t \in Call |-> "none"]]
    BY <1>6 DEF Metrics!Restart, Metrics!_load
  <2>2. QED
    BY <2>1 DEF MetricsInv, Metrics!TypeOK, Metrics!Counts, Within
<1>7. ASSUME NEW p \in Process, Metrics!reset(p) PROVE MetricsInv'
  <2>1. Metrics!Zero = [calls |-> 0, errors |-> 0, tokens |-> 0]
    BY DEF Metrics!Zero
  <2>2. QED
    BY <1>7, <2>1 DEF Metrics!reset, Metrics!Missing, Metrics!Stored, MetricsInv,
                      Metrics!TypeOK, Metrics!Counts, Within
<1>8. CASE Metrics!Next
  BY <1>2, <1>3, <1>4, <1>5, <1>6, <1>7, <1>8 DEF Metrics!Next
<1>9. QED
  BY <1>1, <1>8

-------------------------------------------------------------------------------
(* The retrieval of context.                                                 *)

\* A step of the whole is a step of this component, or leaves it alone.
LEMMA RetrievalMoves == [Next]_vars => [Retrieval!Next]_(Retrieval!retrievalVars)
BY DEF Next, Alone, vars, retrievalVars, Retrieval!retrievalVars, Retrieval!store,
   Retrieval!work

CallPlaces == {"idle", "sync", "mark", "upsert", "unmark", "clean", "forget", "keyword", "answer",
          "embed", "charge", "save", "ask", "ask_charge", "ask_save"}

RetrievalTypes ==
    /\ file \in [Doc -> Content \cup {0}]
    /\ DOMAIN index \subseteq Doc /\ index \in [DOMAIN index -> Content]
    /\ DOMAIN hashes \subseteq Doc /\ hashes \in [DOMAIN hashes -> Content]
    /\ \A request \in DOMAIN cache : cache[request] \subseteq Doc \X Content
    /\ used \in Nat /\ pc \in [Call -> CallPlaces] /\ corpus \in [Call -> Requests \cup {{}}]
    /\ todo \in [Call -> SUBSET Doc] /\ seen \in [Call -> SUBSET Doc]
    /\ stale \in [Call -> SUBSET Doc]
    /\ doc \in [Call -> Doc \cup {0}] /\ text \in [Call -> Content \cup {0}]
    /\ bucket \in [Call -> Nat] /\ sources \in [Call -> SUBSET (Doc \X Content)]
    /\ raced \subseteq Doc

\* A path that a call has read and not yet indexed: what was read is what is on
\* disk, or the path was edited since.
InHand(c) == pc[c] \in {"mark", "embed", "charge", "save", "upsert"}

HandIsCurrent ==
    \A c \in Call : InHand(c) =>
      /\ doc[c] \in Doc /\ text[c] \in Content
      /\ doc[c] \notin raced => text[c] = file[doc[c]]

\* Its hash, if it still has one, is that of what was read.
HandIsMarked ==
    \A c \in Call :
      /\ pc[c] \in {"embed", "charge", "save", "upsert"}
      /\ doc[c] \notin raced /\ doc[c] \in DOMAIN hashes
      => hashes[doc[c]] = text[c]

Flying == {"embed", "charge", "save", "upsert", "unmark", "forget"}
Flies(d) == \E c \in Call : doc[c] = d /\ pc[c] \in Flying

HashesAreEarned ==
    \A d \in DOMAIN hashes :
      Flies(d) \/ (d \in DOMAIN index /\ (d \notin raced => index[d] = hashes[d]))

\* Rows are only listed for deletion when every file is read.
StaleIsUnread ==
    \A c \in Call :
      /\ stale[c] \subseteq Retrieval!InCorpora(corpus[c]) \ seen[c]
      /\ pc[c] \in {"idle", "sync", "mark", "embed", "charge", "save", "upsert"} => stale[c] = {}

\* The quota when it is read, checked and saved by one call, and by two.
Charging(c) == pc[c] \in {"charge", "ask_charge"}
Saving(c) == pc[c] \in {"save", "ask_save"}

AloneIn(S) == \A a, b \in S : a = b
PairIn(S) == \A a, b, c \in S : a = b \/ b = c \/ a = c

\* A count of tokens is below the cap, or beyond it by less than one or two usages.
Below(n) == n + 1 <= Cap
OneOver(n) == n + 1 <= Cap + MaxUsage
TwoOver(n) == n + 1 <= Cap + 2 * MaxUsage

QuotaOfOne(c) ==
    /\ Charging(c) => Below(used)
    /\ Saving(c) => OneOver(bucket[c])

QuotaOfTwo(c, o) ==
    /\ Charging(c) => OneOver(used)
    /\ Charging(c) /\ (Charging(o) \/ Saving(o)) => Below(used)
    /\ Saving(c) => OneOver(bucket[c]) \/ (TwoOver(bucket[c]) /\ ~Below(used))
    /\ Saving(c) /\ (Charging(o) \/ Saving(o)) => OneOver(bucket[c])

QuotaIsShared ==
    /\ AloneIn(Call) => OneOver(used) /\ \A c \in Call : QuotaOfOne(c)
    /\ PairIn(Call) => /\ TwoOver(used)
                       /\ \A c, o \in Call : c # o => QuotaOfTwo(c, o)

RetrievalInv ==
    /\ RetrievalTypes /\ HandIsCurrent /\ HandIsMarked /\ HashesAreEarned /\ StaleIsUnread
    /\ QuotaIsShared

\* The index is empty and no call runs.
LEMMA RetrievalInit == RetrievalAssumption /\ Retrieval!Init => RetrievalInv
<1> SUFFICES ASSUME RetrievalAssumption, Retrieval!Init PROVE RetrievalInv
  OBVIOUS
<1>1. RetrievalTypes
  BY DEF Retrieval!Init, Retrieval!Nothing, RetrievalTypes, CallPlaces
<1>2. pc = [c \in Call |-> "idle"] /\ used = 0 /\ hashes = [d \in {} |-> 0]
      /\ stale = [c \in Call |-> {}]
  BY DEF Retrieval!Init, Retrieval!Nothing
<1>3. HandIsCurrent /\ HandIsMarked /\ HashesAreEarned /\ StaleIsUnread
  BY <1>2 DEF HandIsCurrent, InHand, HandIsMarked, HashesAreEarned, StaleIsUnread
<1>4. QuotaIsShared
  BY <1>2 DEF RetrievalAssumption, QuotaIsShared, QuotaOfOne, QuotaOfTwo, Charging, Saving,
     OneOver, TwoOver
<1>5. QED
  BY <1>1, <1>3, <1>4 DEF RetrievalInv

\* Sets of one and of two.
LEMMA FewCalls ==
    ASSUME IsFiniteSet(Call), Call # {}, Cardinality(Call) <= 2
    PROVE  /\ Cardinality(Call) \in {1, 2} /\ PairIn(Call)
           /\ Cardinality(Call) = 1 => AloneIn(Call)
<1>1. Cardinality(Call) \in Nat /\ Cardinality(Call) # 0
  BY FS_CardinalityType, FS_EmptySet
<1>2. ASSUME NEW a \in Call, NEW b \in Call, a # b PROVE Cardinality({a, b}) = 2
  <2>1. IsFiniteSet({a}) /\ Cardinality({a}) = 1
    BY FS_Singleton
  <2>2. {a} \cup {b} = {a, b} /\ b \notin {a}
    BY <1>2
  <2> DEFINE A == {a}
  <2>3. IsFiniteSet(A) /\ Cardinality(A) = 1 /\ b \notin A
    BY <2>1, <2>2
  <2> HIDE DEF A
  <2>4. Cardinality(A \cup {b}) = IF b \in A THEN Cardinality(A) ELSE Cardinality(A) + 1
    BY <2>3, FS_AddElement
  <2>5. QED
    <3>1. Cardinality(A \cup {b}) = 2
      BY <2>3, <2>4
    <3>2. QED
      BY <2>2, <3>1 DEF A
<1>3. ASSUME NEW a \in Call, NEW b \in Call, NEW c \in Call, a # b, b # c, a # c PROVE FALSE
  <2>1. IsFiniteSet({a, b})
    BY FS_Subset
  <2>2. Cardinality({a, b}) = 2
    BY <1>2, <1>3
  <2>3. {a, b} \cup {c} \in SUBSET Call /\ c \notin {a, b}
    BY <1>3
  <2>4. Cardinality({a, b} \cup {c}) = 3
    <3> DEFINE A == {a, b}
    <3>1. IsFiniteSet(A) /\ Cardinality(A) = 2 /\ c \notin A
      BY <2>1, <2>2, <2>3
    <3> HIDE DEF A
    <3>2. Cardinality(A \cup {c}) = IF c \in A THEN Cardinality(A) ELSE Cardinality(A) + 1
      BY <3>1, FS_AddElement
    <3>3. Cardinality(A \cup {c}) = 3
      BY <3>1, <3>2
    <3>4. QED
      BY <3>3 DEF A
  <2>5. Cardinality({a, b} \cup {c}) <= Cardinality(Call)
    BY <2>3, FS_Subset
  <2>6. QED
    BY <1>1, <2>4, <2>5
<1>4. ASSUME Cardinality(Call) = 1, NEW a \in Call, NEW b \in Call, a # b PROVE FALSE
  <2>1. {a, b} \in SUBSET Call
    OBVIOUS
  <2>2. Cardinality({a, b}) <= Cardinality(Call)
    BY <2>1, FS_Subset
  <2>3. QED
    BY <1>2, <1>4, <2>2
<1>5. QED
  BY <1>1, <1>3, <1>4 DEF PairIn, AloneIn

\* The index and the quota are what the run checks.
LEMMA RetrievalTrue ==
    RetrievalAssumption /\ RetrievalInv => Retrieval!TypeOK /\ Retrieval!IndexIsSound
<1> SUFFICES ASSUME RetrievalAssumption, RetrievalInv
             PROVE  Retrieval!TypeOK /\ Retrieval!IndexIsSound
  OBVIOUS
<1>1. Retrieval!TypeOK
  BY DEF RetrievalInv, RetrievalTypes, Retrieval!TypeOK, Retrieval!Embedding, Retrieval!Asking,
     CallPlaces
<1>2. \A d : Retrieval!InFlight(d) <=> Flies(d)
  BY DEF Retrieval!InFlight, Retrieval!Embedding, Flies, Flying
<1>3. Retrieval!Cardinality(Call) = Cardinality(Call)
  BY DEF Retrieval!Cardinality, Cardinality, Retrieval!IsFiniteSet, IsFiniteSet
<1>4. ASSUME Cardinality(Call) <= 2
      PROVE  used <= Cap - 1 + Cardinality(Call) * MaxUsage
  <2>1. /\ Cardinality(Call) \in {1, 2} /\ PairIn(Call)
        /\ Cardinality(Call) = 1 => AloneIn(Call)
    BY <1>4, FewCalls DEF RetrievalAssumption
  <2>2. used \in Nat /\ Cap \in Nat /\ MaxUsage \in Nat
    BY DEF RetrievalInv, RetrievalTypes, RetrievalAssumption
  <2>3. CASE Cardinality(Call) = 1
    <3>1. OneOver(used)
      BY <2>1, <2>3 DEF RetrievalInv, QuotaIsShared
    <3>2. used <= Cap - 1 + 1 * MaxUsage
      BY <2>2, <3>1 DEF OneOver
    <3>3. QED
      BY <2>3, <3>2
  <2>4. CASE Cardinality(Call) = 2
    <3>1. TwoOver(used)
      BY <2>1 DEF RetrievalInv, QuotaIsShared
    <3>2. used <= Cap - 1 + 2 * MaxUsage
      BY <2>2, <3>1 DEF TwoOver
    <3>3. QED
      BY <2>4, <3>2
  <2>5. QED
    BY <2>1, <2>3, <2>4
<1>5. Retrieval!IndexIsSound
  BY <1>2, <1>3, <1>4 DEF RetrievalInv, HashesAreEarned, StaleIsUnread, Retrieval!IndexIsSound
<1>6. QED
  BY <1>1, <1>5

\* The first path listed is one of them.
LEMMA MinIsListed ==
    ASSUME NEW T \in SUBSET Nat, T # {}
    PROVE  Retrieval!Min(T) \in T
<1>1. \E x \in T : \A y \in T : x <= y
  BY LeastNumber
<1>2. QED
  BY <1>1 DEF Retrieval!Min

\* One call moves.
CallMoves(c) ==
    \/ Retrieval!retrieve_context(c) \/ Retrieval!Degraded(c) \/ Retrieval!ReadDoc(c)
    \/ Retrieval!Mark(c) \/ Retrieval!Embed(c) \/ Retrieval!Charge(c) \/ Retrieval!Save(c)
    \/ Retrieval!Fails(c) \/ Retrieval!upsert(c) \/ Retrieval!Unmark(c) \/ Retrieval!Scan(c)
    \/ Retrieval!delete(c) \/ Retrieval!Forget(c) \/ Retrieval!Synced(c)
    \/ Retrieval!keyword_retrieve(c) \/ Retrieval!Answer(c)

\* A path is put into the index or the hashes, or taken out.
LEMMA PutTypes ==
    ASSUME NEW f, NEW S, NEW T, DOMAIN f \subseteq S, f \in [DOMAIN f -> T],
           NEW x \in S, NEW y \in T
    PROVE  /\ DOMAIN Retrieval!Put(f, x, y) \subseteq S
           /\ Retrieval!Put(f, x, y) \in [DOMAIN Retrieval!Put(f, x, y) -> T]
BY DEF Retrieval!Put

\* A path is taken out of the index or of the hashes.
LEMMA DropTypes ==
    ASSUME NEW f, NEW S, NEW T, DOMAIN f \subseteq S, f \in [DOMAIN f -> T], NEW z
    PROVE  /\ DOMAIN Retrieval!Drop(f, z) \subseteq S
           /\ Retrieval!Drop(f, z) \in [DOMAIN Retrieval!Drop(f, z) -> T]
BY DEF Retrieval!Drop

\* A vector makes a row or sources of rows.
LEMMA EmbeddedTypes ==
    ASSUME RetrievalTypes, NEW c \in Call, Retrieval!Embedded(c)
    PROVE  pc' \in [Call -> CallPlaces] /\ sources' \in [Call -> SUBSET (Doc \X Content)]
<1>1. \A d \in DOMAIN index : <<d, index[d]>> \in Doc \X Content
  BY DEF RetrievalTypes
<1>2. \A near \in SUBSET DOMAIN index : {<<d, index[d]>> : d \in near} \subseteq Doc \X Content
  BY <1>1
<1>3. sources \in [Call -> SUBSET (Doc \X Content)] /\ pc \in [Call -> CallPlaces]
  BY DEF RetrievalTypes
<1>4. \/ sources' = sources
      \/ \E near \in SUBSET DOMAIN index :
           sources' = [sources EXCEPT ![c] = {<<d, index[d]>> : d \in near}]
  BY DEF Retrieval!Embedded
<1>5. pc' = [pc EXCEPT ![c] = "upsert"] \/ pc' = [pc EXCEPT ![c] = "answer"]
  BY DEF Retrieval!Embedded, Retrieval!Go
<1>6. QED
  BY <1>2, <1>3, <1>4, <1>5 DEF CallPlaces

\* It leads there and nowhere else, and changes no other local.
LEMMA EmbeddedMoves ==
    ASSUME RetrievalTypes, NEW c \in Call, Retrieval!Embedded(c)
    PROVE  /\ pc[c] \in {"embed", "charge", "save"} => pc' = [pc EXCEPT ![c] = "upsert"]
           /\ pc[c] \notin {"embed", "charge", "save"} => pc' = [pc EXCEPT ![c] = "answer"]
BY DEF Retrieval!Embedded, Retrieval!Go, Retrieval!Embedding

\* The types of the retrieval.
LEMMA RetrievalTypesStep ==
    ASSUME RetrievalAssumption, RetrievalInv, NEW c \in Call, CallMoves(c)
    PROVE  RetrievalTypes'
<1> USE DEF Retrieval!Go, Retrieval!store, Retrieval!work, CallPlaces
<1>1. RetrievalTypes /\ Doc \subseteq Nat
  BY DEF RetrievalInv, RetrievalAssumption
<1>2. CASE Retrieval!retrieve_context(c) \/ Retrieval!Degraded(c)
  <2>1. \A request : Retrieval!Listed(request) \subseteq Doc
    BY DEF Retrieval!Listed, Retrieval!InCorpora
  <2>2. QED
    BY <1>1, <1>2, <2>1 DEF RetrievalTypes, Retrieval!retrieve_context, Retrieval!Degraded
<1>3. CASE Retrieval!ReadDoc(c)
  <2>1. todo[c] \in SUBSET Nat /\ todo[c] # {} /\ todo[c] \subseteq Doc
    BY <1>1, <1>3 DEF Retrieval!ReadDoc, RetrievalTypes
  <2>2. Retrieval!Min(todo[c]) \in Doc
    BY <2>1, MinIsListed
  <2>3. QED
    BY <1>1, <1>3, <2>2 DEF RetrievalTypes, Retrieval!ReadDoc
<1>4. CASE Retrieval!Mark(c)
  <2>1. doc[c] \in Doc /\ text[c] \in Content
    BY <1>4 DEF RetrievalInv, HandIsCurrent, InHand, Retrieval!Mark
  <2>2. DOMAIN hashes' \subseteq Doc /\ hashes' \in [DOMAIN hashes' -> Content]
    <3>1. hashes' = hashes \/ hashes' = Retrieval!Put(hashes, doc[c], text[c])
      BY <1>4 DEF Retrieval!Mark
    <3>2. DOMAIN hashes \subseteq Doc /\ hashes \in [DOMAIN hashes -> Content]
      BY <1>1 DEF RetrievalTypes
    <3> DEFINE new == Retrieval!Put(hashes, doc[c], text[c])
    <3>3. DOMAIN new \subseteq Doc /\ new \in [DOMAIN new -> Content]
      BY <2>1, <3>2, PutTypes
    <3> HIDE DEF new
    <3>4. hashes' = hashes \/ hashes' = new
      BY <3>1 DEF new
    <3>5. QED
      BY <3>2, <3>3, <3>4
  <2>3. QED
    BY <1>1, <1>4, <2>2 DEF RetrievalTypes, Retrieval!Mark
<1>5. CASE Retrieval!Embed(c) \/ Retrieval!Fails(c)
  BY <1>1, <1>5 DEF RetrievalTypes, Retrieval!Embed, Retrieval!Fails
<1>6. CASE Retrieval!Charge(c) \/ Retrieval!Save(c)
  <2>1. pc' \in [Call -> CallPlaces] /\ sources' \in [Call -> SUBSET (Doc \X Content)]
    <3>1. CASE Retrieval!Embedded(c)
      BY <1>1, <3>1, EmbeddedTypes
    <3>2. CASE /\ Retrieval!Go(c, IF pc[c] = "charge" THEN "save" ELSE "ask_save")
               /\ UNCHANGED sources
      BY <1>1, <3>2 DEF RetrievalTypes
    <3>3. QED
      BY <1>6, <3>1, <3>2 DEF Retrieval!Charge, Retrieval!Save
  <2>2. used' \in Nat /\ bucket' \in [Call -> Nat]
    <3>1. used \in Nat /\ bucket \in [Call -> Nat] /\ MaxUsage \in Nat
      BY <1>1 DEF RetrievalTypes, RetrievalAssumption
    <3>2. CASE Retrieval!Charge(c)
      <4>1. \A n \in 1 .. MaxUsage : used + n \in Nat
        BY <3>1
      <4>2. QED
        BY <3>1, <3>2, <4>1 DEF Retrieval!Charge
    <3>3. CASE Retrieval!Save(c)
      BY <3>1, <3>3 DEF Retrieval!Save
    <3>4. QED
      BY <1>6, <3>2, <3>3
  <2>3. QED
    BY <1>1, <1>6, <2>1, <2>2 DEF RetrievalTypes, Retrieval!Charge, Retrieval!Save
<1>7. CASE Retrieval!upsert(c)
  <2>1. doc[c] \in Doc /\ text[c] \in Content
    BY <1>7 DEF RetrievalInv, HandIsCurrent, InHand, Retrieval!upsert
  <2>2. DOMAIN index' \subseteq Doc /\ index' \in [DOMAIN index' -> Content]
    <3>1. index' = index \/ index' = Retrieval!Put(index, doc[c], text[c])
      BY <1>7 DEF Retrieval!upsert
    <3>2. DOMAIN index \subseteq Doc /\ index \in [DOMAIN index -> Content]
      BY <1>1 DEF RetrievalTypes
    <3> DEFINE new == Retrieval!Put(index, doc[c], text[c])
    <3>3. DOMAIN new \subseteq Doc /\ new \in [DOMAIN new -> Content]
      BY <2>1, <3>2, PutTypes
    <3> HIDE DEF new
    <3>4. index' = index \/ index' = new
      BY <3>1 DEF new
    <3>5. QED
      BY <3>2, <3>3, <3>4
  <2>3. QED
    BY <1>1, <1>7, <2>2 DEF RetrievalTypes, Retrieval!upsert
<1>8. CASE Retrieval!Unmark(c) \/ Retrieval!Forget(c)
  <2>1. DOMAIN hashes' \subseteq Doc /\ hashes' \in [DOMAIN hashes' -> Content]
    <3>1. hashes' = Retrieval!Drop(hashes, doc[c])
      BY <1>8 DEF Retrieval!Unmark, Retrieval!Forget
    <3>2. DOMAIN hashes \subseteq Doc /\ hashes \in [DOMAIN hashes -> Content]
      BY <1>1 DEF RetrievalTypes
    <3> DEFINE new == Retrieval!Drop(hashes, doc[c])
    <3>3. DOMAIN new \subseteq Doc /\ new \in [DOMAIN new -> Content]
      BY <3>2, DropTypes
    <3> HIDE DEF new
    <3>4. hashes' = new
      BY <3>1 DEF new
    <3>5. QED
      BY <3>3, <3>4
  <2>2. QED
    BY <1>1, <1>8, <2>1 DEF RetrievalTypes, Retrieval!Unmark, Retrieval!Forget
<1>9. CASE Retrieval!Scan(c) \/ Retrieval!Synced(c)
  <2>1. Retrieval!known_doc_ids(corpus[c]) \subseteq Doc
    BY <1>1 DEF RetrievalTypes, Retrieval!known_doc_ids
  <2>2. QED
    BY <1>1, <1>9, <2>1 DEF RetrievalTypes, Retrieval!Scan, Retrieval!Synced
<1>10. CASE Retrieval!delete(c)
  <2>1. DOMAIN index' \subseteq Doc /\ index' \in [DOMAIN index' -> Content]
    <3>1. PICK d \in stale[c] : index' = Retrieval!Drop(index, d)
      BY <1>10 DEF Retrieval!delete
    <3>2. DOMAIN index \subseteq Doc /\ index \in [DOMAIN index -> Content]
      BY <1>1 DEF RetrievalTypes
    <3> DEFINE new == Retrieval!Drop(index, d)
    <3>3. DOMAIN new \subseteq Doc /\ new \in [DOMAIN new -> Content]
      BY <3>2, DropTypes
    <3> HIDE DEF new
    <3>4. index' = new
      BY <3>1 DEF new
    <3>5. QED
      BY <3>3, <3>4
  <2>2. stale' \in [Call -> SUBSET Doc] /\ doc' \in [Call -> Doc \cup {0}]
    BY <1>1, <1>10 DEF RetrievalTypes, Retrieval!delete
  <2>3. QED
    BY <1>1, <1>10, <2>1, <2>2 DEF RetrievalTypes, Retrieval!delete
<1>11. CASE Retrieval!keyword_retrieve(c)
  <2>1. sources' \in [Call -> SUBSET (Doc \X Content)]
    <3>1. \A d \in Retrieval!Listed(corpus[c]) : <<d, file[d]>> \in Doc \X Content
      BY <1>1 DEF RetrievalTypes, Retrieval!Listed, Retrieval!InCorpora
    <3>2. \A best \in SUBSET Retrieval!Listed(corpus[c]) :
            {<<d, file[d]>> : d \in best} \subseteq Doc \X Content
      BY <3>1
    <3>3. sources \in [Call -> SUBSET (Doc \X Content)]
      BY <1>1 DEF RetrievalTypes
    <3>4. \E best \in SUBSET Retrieval!Listed(corpus[c]) :
               sources' = [sources EXCEPT ![c] = {<<d, file[d]>> : d \in best}]
      BY <1>11 DEF Retrieval!keyword_retrieve
    <3>5. QED
      BY <3>2, <3>3, <3>4
  <2>2. QED
    BY <1>1, <1>11, <2>1 DEF RetrievalTypes, Retrieval!keyword_retrieve
<1>12. CASE Retrieval!Answer(c)
  <2>1. /\ sources' \in [Call -> SUBSET (Doc \X Content)]
        /\ \A request \in DOMAIN cache' : cache'[request] \subseteq Doc \X Content
    BY <1>1, <1>12 DEF RetrievalTypes, Retrieval!Answer, Retrieval!Put
  <2>2. QED
    BY <1>1, <1>12, <2>1 DEF RetrievalTypes, Retrieval!Answer
<1>13. QED
  BY <1>2, <1>3, <1>4, <1>5, <1>6, <1>7, <1>8, <1>9, <1>10, <1>11, <1>12 DEF CallMoves

\* A call leaves the locals of the others alone.
LEMMA OthersStay ==
    ASSUME RetrievalTypes, NEW c \in Call, CallMoves(c), NEW o \in Call, o # c
    PROVE  /\ pc'[o] = pc[o] /\ doc'[o] = doc[o] /\ text'[o] = text[o] /\ bucket'[o] = bucket[o]
           /\ stale'[o] = stale[o] /\ seen'[o] = seen[o] /\ corpus'[o] = corpus[o]
<1> USE DEF RetrievalTypes, Retrieval!Go, Retrieval!store, Retrieval!work
<1>1. CASE \/ Retrieval!retrieve_context(c) \/ Retrieval!Degraded(c) \/ Retrieval!ReadDoc(c)
           \/ Retrieval!Mark(c) \/ Retrieval!Embed(c)
  BY <1>1 DEF Retrieval!retrieve_context, Retrieval!Degraded,
     Retrieval!ReadDoc, Retrieval!Mark, Retrieval!Embed
<1>2. CASE \/ Retrieval!Fails(c) \/ Retrieval!upsert(c)
           \/ Retrieval!Unmark(c) \/ Retrieval!Scan(c) \/ Retrieval!delete(c)
  BY <1>2 DEF Retrieval!Fails, Retrieval!upsert, Retrieval!Unmark,
     Retrieval!Scan, Retrieval!delete
<1>3. CASE \/ Retrieval!Forget(c) \/ Retrieval!Synced(c) \/ Retrieval!keyword_retrieve(c)
           \/ Retrieval!Answer(c)
  BY <1>3 DEF Retrieval!Forget, Retrieval!Synced, Retrieval!keyword_retrieve,
     Retrieval!Answer
<1>4. CASE Retrieval!Charge(c)
  BY <1>4, EmbeddedMoves DEF Retrieval!Charge
<1>5. CASE Retrieval!Save(c)
  BY <1>5, EmbeddedMoves DEF Retrieval!Save
<1>6. QED
  BY <1>1, <1>2, <1>3, <1>4, <1>5 DEF CallMoves

\* What two calls do to the quota, of which one, c, moves.
LEMMA QuotaMoves ==
    ASSUME RetrievalAssumption, RetrievalTypes, NEW c \in Call, CallMoves(c)
    PROVE  \/ used' = used /\ ~Charging(c)' /\ ~Saving(c)'
           \/ used' = used /\ Below(used) /\ Charging(c)' /\ ~Saving(c)'
           \/ used' = used /\ Charging(c) /\ bucket'[c] \in used + 1 .. used + MaxUsage
              /\ Saving(c)' /\ ~Charging(c)'
           \/ used' = bucket[c] /\ Saving(c) /\ ~Charging(c)' /\ ~Saving(c)'
<1> USE DEF RetrievalTypes, Retrieval!Go, Retrieval!store, Retrieval!work, Charging, Saving
<1>1. CASE Retrieval!Embed(c)
  <2>1. PICK estimate \in Estimate : used + estimate <= Cap
    BY <1>1 DEF Retrieval!Embed
  <2>2. estimate \in Nat \ {0} /\ used \in Nat /\ Cap \in Nat
    BY DEF RetrievalAssumption
  <2>3. Below(used)
    BY <2>1, <2>2 DEF Below
  <2>4. QED
    BY <1>1, <2>3 DEF Retrieval!Embed
<1>2. CASE Retrieval!Charge(c)
  <2>1. CASE Retrieval!Embedded(c)
    BY <1>2, <2>1, EmbeddedMoves DEF Retrieval!Charge
  <2>2. CASE \E n \in 1 .. MaxUsage : bucket' = [bucket EXCEPT ![c] = used + n]
    <3>1. PICK n \in 1 .. MaxUsage : bucket' = [bucket EXCEPT ![c] = used + n]
      BY <2>2
    <3>2. used \in Nat /\ MaxUsage \in Nat /\ n \in Nat /\ 1 <= n /\ n <= MaxUsage
      BY <3>1 DEF RetrievalAssumption
    <3>3. bucket'[c] \in used + 1 .. used + MaxUsage
      <4>1. bucket'[c] = used + n
        BY <3>1
      <4>2. used + n \in used + 1 .. used + MaxUsage
        BY <3>2
      <4>3. QED
        BY <4>1, <4>2
    <3>4. CASE Retrieval!Embedded(c)
      BY <2>1, <3>4
    <3>5. CASE ~Retrieval!Embedded(c)
      BY <1>2, <3>3, <3>5 DEF Retrieval!Charge
    <3>6. QED
      BY <3>4, <3>5
  <2>3. QED
    BY <1>2, <2>1, <2>2 DEF Retrieval!Charge
<1>3. CASE Retrieval!Save(c)
  BY <1>3, EmbeddedMoves DEF Retrieval!Save
<1>4. CASE \/ Retrieval!retrieve_context(c) \/ Retrieval!Degraded(c) \/ Retrieval!ReadDoc(c)
           \/ Retrieval!Mark(c) \/ Retrieval!Fails(c) \/ Retrieval!upsert(c)
           \/ Retrieval!Unmark(c)
  BY <1>4 DEF Retrieval!retrieve_context, Retrieval!Degraded, Retrieval!ReadDoc,
     Retrieval!Mark, Retrieval!Fails, Retrieval!upsert, Retrieval!Unmark
<1>5. CASE \/ Retrieval!Scan(c) \/ Retrieval!delete(c) \/ Retrieval!Forget(c)
           \/ Retrieval!Synced(c) \/ Retrieval!keyword_retrieve(c) \/ Retrieval!Answer(c)
  BY <1>5 DEF Retrieval!Scan, Retrieval!delete, Retrieval!Forget, Retrieval!Synced,
     Retrieval!keyword_retrieve, Retrieval!Answer
<1>6. QED
  BY <1>1, <1>2, <1>3, <1>4, <1>5 DEF CallMoves

\* The quota is overrun by less than one usage per call if two calls share it.
LEMMA QuotaStep ==
    ASSUME RetrievalAssumption, RetrievalInv, NEW c \in Call, CallMoves(c)
    PROVE  QuotaIsShared'
<1>1. /\ RetrievalTypes /\ QuotaIsShared /\ used \in Nat /\ Cap \in Nat /\ MaxUsage \in Nat
      /\ \A o \in Call : bucket[o] \in Nat
  BY DEF RetrievalInv, RetrievalTypes, RetrievalAssumption
<1>2. \A o \in Call \ {c} : pc'[o] = pc[o] /\ bucket'[o] = bucket[o]
  BY <1>1, OthersStay
<1>3. \A o \in Call \ {c} : (Charging(o)' <=> Charging(o)) /\ (Saving(o)' <=> Saving(o))
  BY <1>2 DEF Charging, Saving
<1>4. ~(Charging(c) /\ Saving(c)) /\ ~(Charging(c)' /\ Saving(c)')
  BY DEF Charging, Saving
<1>5. \/ used' = used /\ ~Charging(c)' /\ ~Saving(c)'
      \/ used' = used /\ Below(used) /\ Charging(c)' /\ ~Saving(c)'
      \/ /\ used' = used /\ Charging(c) /\ bucket'[c] \in used + 1 .. used + MaxUsage
         /\ Saving(c)' /\ ~Charging(c)'
      \/ used' = bucket[c] /\ Saving(c) /\ ~Charging(c)' /\ ~Saving(c)'
  BY <1>1, QuotaMoves
<1>6. ASSUME AloneIn(Call) PROVE OneOver(used') /\ \A o \in Call : QuotaOfOne(o)'
  <2>1. OneOver(used) /\ QuotaOfOne(c) /\ \A o \in Call : o = c
    BY <1>1, <1>6 DEF QuotaIsShared, AloneIn
  <2>2. OneOver(used') /\ QuotaOfOne(c)'
    BY <1>1, <1>5, <2>1 DEF QuotaOfOne, Below, OneOver, TwoOver
  <2>3. QED
    BY <2>1, <2>2
<1>7. ASSUME PairIn(Call)
      PROVE  TwoOver(used') /\ \A a, o \in Call : a # o => QuotaOfTwo(a, o)'
  <2>1. TwoOver(used) /\ \A a, o \in Call : a # o => QuotaOfTwo(a, o)
    BY <1>1, <1>7 DEF QuotaIsShared
  <2>2. CASE \A o \in Call : o = c
    <3>1. QuotaIsShared => OneOver(used) /\ QuotaOfOne(c)
      BY <2>2 DEF QuotaIsShared, AloneIn
    <3>2. TwoOver(used')
      BY <1>1, <1>5, <3>1 DEF QuotaOfOne, Below, OneOver, TwoOver
    <3>3. QED
      BY <2>2, <3>2
  <2>3. ASSUME NEW o \in Call, o # c
        PROVE  TwoOver(used') /\ QuotaOfTwo(c, o)' /\ QuotaOfTwo(o, c)'
    <3>1. QuotaOfTwo(c, o) /\ QuotaOfTwo(o, c) /\ bucket'[o] = bucket[o]
          /\ (Charging(o)' <=> Charging(o)) /\ (Saving(o)' <=> Saving(o))
          /\ bucket[o] \in Nat /\ bucket[c] \in Nat
      BY <1>1, <1>2, <1>3, <2>1, <2>3
    <3>2. CASE used' = used /\ ~Charging(c)' /\ ~Saving(c)'
      BY <1>1, <2>1, <3>1, <3>2 DEF QuotaOfTwo, Below, OneOver, TwoOver
    <3>3. CASE used' = used /\ Below(used) /\ Charging(c)' /\ ~Saving(c)'
      BY <1>1, <2>1, <3>1, <3>3 DEF QuotaOfTwo, Below, OneOver, TwoOver
    <3>4. CASE /\ used' = used /\ Charging(c) /\ bucket'[c] \in used + 1 .. used + MaxUsage
               /\ Saving(c)' /\ ~Charging(c)'
      BY <1>1, <2>1, <3>1, <3>4 DEF QuotaOfTwo, Below, OneOver, TwoOver
    <3>5. CASE used' = bucket[c] /\ Saving(c) /\ ~Charging(c)' /\ ~Saving(c)'
      BY <1>1, <2>1, <3>1, <3>5 DEF QuotaOfTwo, Below, OneOver, TwoOver
    <3>6. QED
      BY <1>5, <3>2, <3>3, <3>4, <3>5
  <2>4. \A a, o \in Call : a # o => a = c \/ o = c
    BY <1>7 DEF PairIn
  <2>5. CASE \E o \in Call : o # c
    BY <2>3, <2>4, <2>5
  <2>6. QED
    BY <2>2, <2>5
<1>8. QED
  BY <1>6, <1>7 DEF QuotaIsShared

\* What a call has in hand.
LEMMA HandStep ==
    ASSUME RetrievalAssumption, RetrievalInv, NEW c \in Call, CallMoves(c)
    PROVE  HandIsCurrent'
<1> USE DEF Retrieval!Go, Retrieval!store, Retrieval!work
<1>1. RetrievalTypes /\ HandIsCurrent /\ Doc \subseteq Nat
  BY DEF RetrievalInv, RetrievalAssumption
<1>2. file' = file /\ raced' = raced
  BY DEF CallMoves, Retrieval!retrieve_context, Retrieval!Degraded, Retrieval!ReadDoc,
     Retrieval!Mark, Retrieval!Embed, Retrieval!Charge, Retrieval!Save, Retrieval!Fails,
     Retrieval!upsert, Retrieval!Unmark, Retrieval!Scan, Retrieval!delete,
     Retrieval!Forget, Retrieval!Synced, Retrieval!keyword_retrieve, Retrieval!Answer
<1>3. ASSUME NEW o \in Call, o # c, InHand(o)'
      PROVE  /\ doc'[o] \in Doc /\ text'[o] \in Content
             /\ doc'[o] \notin raced' => text'[o] = file'[doc'[o]]
  <2>1. pc'[o] = pc[o] /\ doc'[o] = doc[o] /\ text'[o] = text[o]
    BY <1>1, <1>3, OthersStay
  <2>2. InHand(o)
    BY <1>3, <2>1 DEF InHand
  <2>3. QED
    BY <1>1, <1>2, <2>1, <2>2 DEF HandIsCurrent
<1>4. ASSUME InHand(c)'
      PROVE  /\ doc'[c] \in Doc /\ text'[c] \in Content
             /\ doc'[c] \notin raced' => text'[c] = file'[doc'[c]]
  <2>1. CASE InHand(c) /\ doc'[c] = doc[c] /\ text'[c] = text[c]
    BY <1>1, <1>2, <2>1 DEF HandIsCurrent
  <2>2. CASE Retrieval!ReadDoc(c)
    <3> DEFINE d == Retrieval!Min(todo[c])
    <3>1. pc[c] = "sync" /\ todo[c] # {} /\ todo[c] \in SUBSET Nat /\ todo[c] \subseteq Doc
      BY <1>1, <2>2 DEF Retrieval!ReadDoc, RetrievalTypes
    <3>2. d \in Doc
      BY <3>1, MinIsListed
    <3>3. file[d] # 0 /\ doc' = [doc EXCEPT ![c] = d] /\ text' = [text EXCEPT ![c] = file[d]]
      BY <1>1, <1>4, <2>2, <3>1 DEF Retrieval!ReadDoc, InHand
    <3> HIDE DEF d
    <3>4. doc'[c] = d /\ text'[c] = file[d] /\ file[d] \in Content
      BY <1>1, <3>2, <3>3 DEF RetrievalTypes
    <3>5. QED
      BY <1>2, <3>2, <3>4
  <2>3. CASE CallMoves(c) /\ ~Retrieval!ReadDoc(c)
    <3>1. InHand(c) /\ doc'[c] = doc[c] /\ text'[c] = text[c]
      BY <1>1, <1>4, <2>3, EmbeddedMoves
         DEF CallMoves, RetrievalTypes, InHand, Retrieval!retrieve_context,
         Retrieval!Degraded, Retrieval!Mark, Retrieval!Embed, Retrieval!Charge, Retrieval!Save,
         Retrieval!Fails, Retrieval!upsert, Retrieval!Unmark, Retrieval!Scan,
         Retrieval!delete, Retrieval!Forget, Retrieval!Synced, Retrieval!keyword_retrieve,
         Retrieval!Answer
    <3>2. QED
      BY <2>1, <3>1
  <2>4. QED
    BY <2>2, <2>3
<1>5. QED
  BY <1>3, <1>4 DEF HandIsCurrent

Written == {"embed", "charge", "save", "upsert"}

\* What one step of one call does to the hashes and to the index.
LEMMA StoreMoves ==
    ASSUME RetrievalTypes, NEW c \in Call, CallMoves(c)
    PROVE  /\ raced' = raced
           /\ \/ /\ hashes' = hashes /\ index' = index
                 /\ pc[c] \in Flying => pc'[c] \in Flying /\ doc'[c] = doc[c]
                 /\ pc'[c] \in Written => pc[c] \in Written /\ doc'[c] = doc[c] /\ text'[c] = text[c]
              \/ /\ hashes' = Retrieval!Put(hashes, doc[c], text[c]) /\ index' = index
                 /\ pc[c] = "mark" /\ pc'[c] = "embed" /\ doc'[c] = doc[c] /\ text'[c] = text[c]
              \/ /\ hashes' = hashes /\ index' = Retrieval!Put(index, doc[c], text[c])
                 /\ pc[c] = "upsert" /\ pc'[c] = "sync"
              \/ /\ hashes' = Retrieval!Drop(hashes, doc[c]) /\ index' = index
                 /\ pc'[c] \in {"keyword", "clean"}
              \/ /\ hashes' = hashes /\ index' = Retrieval!Drop(index, doc'[c])
                 /\ pc[c] = "clean" /\ pc'[c] = "forget"
<1> USE DEF RetrievalTypes, Retrieval!Go, Retrieval!store, Retrieval!work, Flying, Written
<1>1. CASE Retrieval!Mark(c)
  BY <1>1 DEF Retrieval!Mark
<1>2. CASE Retrieval!upsert(c)
  BY <1>2 DEF Retrieval!upsert
<1>3. CASE Retrieval!Unmark(c) \/ Retrieval!Forget(c)
  BY <1>3 DEF Retrieval!Unmark, Retrieval!Forget
<1>4. CASE Retrieval!delete(c)
  BY <1>4 DEF Retrieval!delete
<1>5. CASE Retrieval!Embed(c) \/ Retrieval!Charge(c) \/ Retrieval!Save(c) \/ Retrieval!Fails(c)
  BY <1>5, EmbeddedMoves DEF Retrieval!Embed, Retrieval!Charge, Retrieval!Save, Retrieval!Fails
<1>6. CASE \/ Retrieval!retrieve_context(c) \/ Retrieval!Degraded(c) \/ Retrieval!ReadDoc(c)
           \/ Retrieval!Scan(c) \/ Retrieval!Synced(c) \/ Retrieval!keyword_retrieve(c)
           \/ Retrieval!Answer(c)
  BY <1>6 DEF Retrieval!retrieve_context, Retrieval!Degraded, Retrieval!ReadDoc,
     Retrieval!Scan, Retrieval!Synced, Retrieval!keyword_retrieve, Retrieval!Answer
<1>7. QED
  BY <1>1, <1>2, <1>3, <1>4, <1>5, <1>6 DEF CallMoves

\* The hash of a path in hand stays that of what was read.
LEMMA MarkedStep ==
    ASSUME RetrievalAssumption, RetrievalInv, NEW c \in Call, CallMoves(c)
    PROVE  HandIsMarked'
<1>1. RetrievalTypes /\ HandIsCurrent /\ HandIsMarked
  BY DEF RetrievalInv
<1> SUFFICES ASSUME NEW o \in Call, pc'[o] \in Written, doc'[o] \notin raced',
                    doc'[o] \in DOMAIN hashes'
             PROVE  hashes'[doc'[o]] = text'[o]
  BY DEF HandIsMarked, Written
<1>2. raced' = raced
  BY <1>1, StoreMoves
<1>3. CASE o # c
  <2>1. pc'[o] = pc[o] /\ doc'[o] = doc[o] /\ text'[o] = text[o]
    BY <1>1, <1>3, OthersStay
  <2>2. doc[o] \in DOMAIN hashes => hashes[doc[o]] = text[o]
    BY <1>1, <1>2, <2>1 DEF HandIsMarked, Written
  <2>3. CASE hashes' = hashes
    BY <2>1, <2>2, <2>3
  <2>4. CASE hashes' = Retrieval!Put(hashes, doc[c], text[c]) /\ pc[c] = "mark"
    <3>1. CASE doc[o] = doc[c]
      <4>1. text[o] = file[doc[o]] /\ text[c] = file[doc[c]]
        BY <1>1, <1>2, <2>1, <2>4, <3>1 DEF HandIsCurrent, InHand, Written
      <4>2. QED
        BY <2>1, <2>4, <3>1, <4>1 DEF Retrieval!Put
    <3>2. CASE doc[o] # doc[c]
      BY <2>1, <2>2, <2>4, <3>2 DEF Retrieval!Put
    <3>3. QED
      BY <3>1, <3>2
  <2>5. CASE hashes' = Retrieval!Drop(hashes, doc[c])
    BY <2>1, <2>2, <2>5 DEF Retrieval!Drop
  <2>6. QED
    BY <1>1, <2>3, <2>4, <2>5, StoreMoves
<1>4. CASE o = c
  <2>1. CASE hashes' = hashes /\ pc[c] \in Written /\ doc'[c] = doc[c] /\ text'[c] = text[c]
    BY <1>1, <1>2, <1>4, <2>1 DEF HandIsMarked, Written
  <2>2. CASE /\ hashes' = Retrieval!Put(hashes, doc[c], text[c])
             /\ doc'[c] = doc[c] /\ text'[c] = text[c]
    BY <1>4, <2>2 DEF Retrieval!Put
  <2>3. QED
    BY <1>1, <1>4, <2>1, <2>2, StoreMoves DEF Written
<1>5. QED
  BY <1>3, <1>4

\* A hash stays with a row, or with a call that will write or drop one.
LEMMA EarnedStep ==
    ASSUME RetrievalAssumption, RetrievalInv, NEW c \in Call, CallMoves(c)
    PROVE  HashesAreEarned'
<1>1. RetrievalTypes /\ HandIsMarked /\ HashesAreEarned
  BY DEF RetrievalInv
<1> SUFFICES ASSUME NEW d \in DOMAIN hashes', ~Flies(d)'
             PROVE  d \in DOMAIN index' /\ (d \notin raced' => index'[d] = hashes'[d])
  BY DEF HashesAreEarned
<1>2. raced' = raced
  BY <1>1, StoreMoves
<1>3. ASSUME NEW o \in Call, o # c PROVE ~(doc[o] = d /\ pc[o] \in Flying)
  <2>1. pc'[o] = pc[o] /\ doc'[o] = doc[o]
    BY <1>1, <1>3, OthersStay
  <2>2. QED
    BY <2>1 DEF Flies
<1>4. ~(doc'[c] = d /\ pc'[c] \in Flying)
  BY DEF Flies
<1>5. ASSUME d \in DOMAIN hashes, ~(doc[c] = d /\ pc[c] \in Flying)
      PROVE  d \in DOMAIN index /\ (d \notin raced => index[d] = hashes[d])
  <2>1. ~Flies(d)
    BY <1>3, <1>5 DEF Flies
  <2>2. QED
    BY <1>1, <1>5, <2>1 DEF HashesAreEarned
<1>6. CASE /\ hashes' = hashes /\ index' = index
           /\ pc[c] \in Flying => pc'[c] \in Flying /\ doc'[c] = doc[c]
  BY <1>2, <1>4, <1>5, <1>6
<1>7. CASE /\ hashes' = Retrieval!Put(hashes, doc[c], text[c]) /\ index' = index
           /\ pc[c] = "mark" /\ pc'[c] = "embed" /\ doc'[c] = doc[c]
  <2>1. d # doc[c]
    BY <1>4, <1>7 DEF Flying
  <2>2. d \in DOMAIN hashes /\ hashes'[d] = hashes[d]
    BY <1>7, <2>1 DEF Retrieval!Put
  <2>3. QED
    BY <1>2, <1>5, <1>7, <2>1, <2>2
<1>8. CASE /\ hashes' = hashes /\ index' = Retrieval!Put(index, doc[c], text[c])
           /\ pc[c] = "upsert"
  <2>1. CASE d = doc[c]
    BY <1>1, <1>2, <1>8, <2>1 DEF HandIsMarked, Retrieval!Put
  <2>2. CASE d # doc[c]
    BY <1>2, <1>5, <1>8, <2>2 DEF Retrieval!Put
  <2>3. QED
    BY <2>1, <2>2
<1>9. CASE hashes' = Retrieval!Drop(hashes, doc[c]) /\ index' = index
  <2>1. d # doc[c] /\ d \in DOMAIN hashes /\ hashes'[d] = hashes[d]
    BY <1>9 DEF Retrieval!Drop
  <2>2. QED
    BY <1>2, <1>5, <1>9, <2>1
<1>10. CASE /\ hashes' = hashes /\ index' = Retrieval!Drop(index, doc'[c])
            /\ pc[c] = "clean" /\ pc'[c] = "forget"
  <2>1. d # doc'[c] /\ pc[c] \notin Flying
    BY <1>4, <1>10 DEF Flying
  <2>2. d \in DOMAIN index /\ (d \notin raced => index[d] = hashes[d])
    BY <1>5, <1>10, <2>1
  <2>3. QED
    BY <1>2, <1>10, <2>1, <2>2 DEF Retrieval!Drop
<1>11. QED
  BY <1>1, <1>6, <1>7, <1>8, <1>9, <1>10, StoreMoves

Reading == {"idle", "sync", "mark", "embed", "charge", "save", "upsert"}

\* Rows to delete are listed when every file is read, and are then only deleted.
LEMMA StaleMoves ==
    ASSUME RetrievalTypes, NEW c \in Call, CallMoves(c)
    PROVE  \/ stale'[c] = {} \/ (stale'[c] = stale[c] /\ pc[c] = "idle")
           \/ /\ corpus'[c] = corpus[c] /\ seen'[c] = seen[c] /\ stale'[c] \subseteq stale[c]
              /\ pc'[c] \in Reading => pc[c] \in Reading
           \/ /\ corpus'[c] = corpus[c] /\ stale'[c] = stale[c] /\ pc[c] = "sync"
           \/ /\ corpus'[c] = corpus[c] /\ seen'[c] = seen[c] /\ pc'[c] = "clean"
              /\ stale'[c] \subseteq Retrieval!InCorpora(corpus[c]) \ seen[c]
<1> USE DEF RetrievalTypes, Retrieval!Go, Retrieval!store, Retrieval!work, Reading
<1>1. CASE Retrieval!retrieve_context(c) \/ Retrieval!Degraded(c)
  BY <1>1 DEF Retrieval!retrieve_context, Retrieval!Degraded
<1>2. CASE Retrieval!ReadDoc(c)
  BY <1>2 DEF Retrieval!ReadDoc
<1>3. CASE Retrieval!Scan(c)
  BY <1>3 DEF Retrieval!Scan, Retrieval!known_doc_ids
<1>4. CASE Retrieval!delete(c)
  BY <1>4 DEF Retrieval!delete
<1>5. CASE \/ Retrieval!Mark(c) \/ Retrieval!Embed(c) \/ Retrieval!Charge(c)
           \/ Retrieval!Save(c) \/ Retrieval!Fails(c) \/ Retrieval!upsert(c)
  BY <1>5, EmbeddedMoves DEF Retrieval!Mark, Retrieval!Embed, Retrieval!Charge, Retrieval!Save,
     Retrieval!Fails, Retrieval!upsert
<1>6. CASE \/ Retrieval!Unmark(c) \/ Retrieval!Forget(c) \/ Retrieval!Synced(c)
           \/ Retrieval!keyword_retrieve(c) \/ Retrieval!Answer(c)
  BY <1>6 DEF Retrieval!Unmark, Retrieval!Forget, Retrieval!Synced,
     Retrieval!keyword_retrieve, Retrieval!Answer
<1>7. QED
  BY <1>1, <1>2, <1>3, <1>4, <1>5, <1>6 DEF CallMoves

\* What is listed for deletion was asked for and not read.
LEMMA StaleStep ==
    ASSUME RetrievalAssumption, RetrievalInv, NEW c \in Call, CallMoves(c)
    PROVE  StaleIsUnread'
<1>1. RetrievalTypes /\ StaleIsUnread
  BY DEF RetrievalInv
<1>2. \A x : Retrieval!InCorpora(x) = {d \in Doc : CorpusOf[d] \in x}
  BY DEF Retrieval!InCorpora
<1>3. ASSUME NEW o \in Call, o # c
      PROVE  /\ stale'[o] \subseteq {d \in Doc : CorpusOf[d] \in corpus'[o]} \ seen'[o]
             /\ pc'[o] \in Reading => stale'[o] = {}
  <2>1. /\ pc'[o] = pc[o] /\ stale'[o] = stale[o] /\ seen'[o] = seen[o]
        /\ corpus'[o] = corpus[o]
    BY <1>1, <1>3, OthersStay
  <2>2. QED
    BY <1>1, <1>2, <2>1 DEF StaleIsUnread, Reading
<1>4. /\ stale'[c] \subseteq {d \in Doc : CorpusOf[d] \in corpus'[c]} \ seen'[c]
      /\ pc'[c] \in Reading => stale'[c] = {}
  BY <1>1, <1>2, StaleMoves DEF StaleIsUnread, Reading
<1>5. QED
  BY <1>2, <1>3, <1>4 DEF StaleIsUnread, Reading

\* The files change, the process restarts, the cache forgets.
LEMMA RetrievalRests ==
    ASSUME RetrievalAssumption, RetrievalInv,
           Retrieval!Edit \/ Retrieval!Restart \/ Retrieval!Expire
    PROVE  RetrievalInv'
<1>1. /\ RetrievalTypes /\ HandIsCurrent /\ HandIsMarked /\ HashesAreEarned /\ StaleIsUnread
      /\ QuotaIsShared
  BY DEF RetrievalInv
<1>2. CASE Retrieval!Edit
  <2>1. PICK d \in Doc, content \in Content \cup {0} :
          /\ file' = [file EXCEPT ![d] = content]
          /\ raced' = raced \cup {e \in {d} : \E c \in Call :
                       doc[c] = e /\ pc[c] \in Retrieval!Embedding \cup {"mark", "upsert"}}
    BY <1>2 DEF Retrieval!Edit
  <2>2. UNCHANGED <<index, hashes, cache, used, pc, corpus, todo, seen, doc, text, bucket,
                    stale, sources>>
    BY <1>2 DEF Retrieval!Edit, Retrieval!store, Retrieval!work
  <2>3. RetrievalTypes'
    BY <1>1, <2>1, <2>2 DEF RetrievalTypes
  <2>4. HandIsCurrent'
    <3>1. ASSUME NEW c \in Call, InHand(c)
          PROVE  doc[c] \notin raced' => text[c] = file'[doc[c]]
      <4>1. CASE doc[c] = d
        BY <2>1, <3>1, <4>1 DEF InHand, Retrieval!Embedding
      <4>2. CASE doc[c] # d
        BY <1>1, <2>1, <3>1, <4>2 DEF HandIsCurrent, RetrievalTypes
      <4>3. QED
        BY <4>1, <4>2
    <3>2. QED
      BY <1>1, <2>2, <3>1 DEF HandIsCurrent, InHand
  <2>5. raced \subseteq raced'
    BY <2>1
  <2>6. HandIsMarked' /\ HashesAreEarned'
    BY <1>1, <2>2, <2>5 DEF HandIsMarked, HashesAreEarned, Flies
  <2>7. StaleIsUnread' /\ QuotaIsShared'
    BY <1>1, <2>2 DEF StaleIsUnread, Retrieval!InCorpora, QuotaIsShared, QuotaOfOne,
       QuotaOfTwo, Charging, Saving
  <2>8. QED
    BY <2>3, <2>4, <2>6, <2>7 DEF RetrievalInv
<1>3. CASE Retrieval!Restart
  <2>1. /\ hashes' = [d \in {} |-> 0] /\ cache' = [d \in {} |-> 0]
        /\ pc' = [c \in Call |-> "idle"] /\ corpus' = [c \in Call |-> {}]
        /\ todo' = [c \in Call |-> {}] /\ seen' = [c \in Call |-> {}]
        /\ stale' = [c \in Call |-> {}] /\ sources' = [c \in Call |-> {}]
        /\ doc' = [c \in Call |-> 0] /\ text' = [c \in Call |-> 0]
        /\ bucket' = [c \in Call |-> 0]
        /\ UNCHANGED <<file, index, used, raced>>
    BY <1>3 DEF Retrieval!Restart, Retrieval!Nothing
  <2>2. RetrievalTypes'
    BY <1>1, <2>1 DEF RetrievalTypes, CallPlaces
  <2>3. HandIsCurrent' /\ HandIsMarked' /\ HashesAreEarned' /\ StaleIsUnread'
    BY <2>1 DEF HandIsCurrent, InHand, HandIsMarked, HashesAreEarned, StaleIsUnread
  <2>4. QuotaIsShared'
    BY <1>1, <2>1 DEF QuotaIsShared, QuotaOfOne, QuotaOfTwo, Charging, Saving
  <2>5. QED
    BY <2>2, <2>3, <2>4 DEF RetrievalInv
<1>4. CASE Retrieval!Expire
  <2>1. UNCHANGED <<file, index, hashes, used, pc, corpus, todo, seen, doc, text, bucket,
                    stale, sources, raced>>
    BY <1>4 DEF Retrieval!Expire, Retrieval!work
  <2>2. \A request \in DOMAIN cache' : cache'[request] \subseteq Doc \X Content
    BY <1>1, <1>4 DEF RetrievalTypes, Retrieval!Expire, Retrieval!Drop
  <2>3. RetrievalTypes'
    BY <1>1, <2>1, <2>2 DEF RetrievalTypes
  <2>4. HandIsCurrent' /\ HandIsMarked' /\ HashesAreEarned' /\ StaleIsUnread' /\ QuotaIsShared'
    BY <1>1, <2>1 DEF HandIsCurrent, InHand, HandIsMarked, HashesAreEarned, Flies, StaleIsUnread,
       Retrieval!InCorpora, QuotaIsShared, QuotaOfOne, QuotaOfTwo, Charging, Saving
  <2>5. QED
    BY <2>3, <2>4 DEF RetrievalInv
<1>5. QED
  BY <1>2, <1>3, <1>4

\* Every step of the calls, the files and the process keeps it.
LEMMA RetrievalStep ==
    RetrievalAssumption /\ RetrievalInv /\ [Retrieval!Next]_(Retrieval!retrievalVars)
        => RetrievalInv'
<1> SUFFICES ASSUME RetrievalAssumption, RetrievalInv,
                    [Retrieval!Next]_(Retrieval!retrievalVars)
             PROVE  RetrievalInv'
  OBVIOUS
<1>1. CASE UNCHANGED Retrieval!retrievalVars
  BY <1>1 DEF Retrieval!retrievalVars, Retrieval!store, Retrieval!work, RetrievalInv,
     RetrievalTypes, HandIsCurrent, InHand, HandIsMarked, HashesAreEarned, Flies,
     StaleIsUnread, Retrieval!InCorpora, QuotaIsShared, QuotaOfOne, QuotaOfTwo, Charging,
     Saving
<1>2. ASSUME NEW c \in Call, CallMoves(c) PROVE RetrievalInv'
  BY <1>2, RetrievalTypesStep, HandStep, MarkedStep, EarnedStep, StaleStep, QuotaStep
     DEF RetrievalInv
<1>3. CASE Retrieval!Next
  BY <1>2, <1>3, RetrievalRests DEF Retrieval!Next, CallMoves
<1>4. QED
  BY <1>1, <1>3

-------------------------------------------------------------------------------
(* The builder.                                                              *)

\* A step of the whole is a step of this component, or leaves it alone.
LEMMA BuilderMoves == [Next]_vars => [Builder!Next]_(Builder!builderVars)
BY DEF Next, Alone, vars, builderVars, Builder!builderVars, Builder!github

\* Where a call is, and what it has behind it.
BuilderPlaces ==
    \A c \in Call :
      /\ building[c] = "idle" => built[c] = "none" /\ written[c] = {}
      /\ building[c] = "testing" => built[c] = "none"
      /\ building[c] \in {"testing", "create_builder_pr"} =>
           changes[c] # {} /\ written[c] = changes[c]
      /\ building[c] = "create_builder_pr" => tests[c] # "none"
      /\ building[c] \in {"create_branch", "apply_code_changes"} => built[c] = "failure"

BuilderTypes ==
    /\ tree \in [Builder!Accepted -> Builder!Author \cup {"base"}]
    /\ refs \subseteq Branch /\ ahead \subseteq refs /\ open \subseteq Branch
    /\ pulls \in [Branch -> SUBSET Builder!Author]
    /\ building \in [Call -> {"idle", "testing", "create_branch", "apply_code_changes",
                              "create_builder_pr"}]
    /\ task \in [Call -> Branch]
    /\ changes \in [Call -> SUBSET Builder!Path]
    /\ written \in [Call -> SUBSET Builder!Accepted]
    /\ tests \in [Call -> {"none", "passed", "failed", "timeout", "error"}]
    /\ built \in [Call -> {"none", "success", "failure"}]

BuilderInv == BuilderTypes /\ BuilderPlaces /\ Builder!SuccessIsReal

\* No call of the builder has done anything yet.
LEMMA BuilderInit == BuilderAssumption /\ Builder!Init => BuilderInv
BY DEF BuilderAssumption, Builder!Init, BuilderInv, BuilderTypes, BuilderPlaces, Builder!SuccessIsReal,
       Builder!Author, Builder!Path

\* The changes are applied: those that are left out are not in the working
\* tree.
LEMMA BuilderImplement ==
    ASSUME BuilderAssumption, BuilderInv, NEW c \in Call, NEW paths \in SUBSET Builder!Path,
           Builder!implement_from_architecture_note(c, paths)
    PROVE  BuilderInv'
<1> USE DEF BuilderInv, BuilderTypes
<1>1. /\ building[c] = "idle" /\ changes' = [changes EXCEPT ![c] = paths]
      /\ UNCHANGED <<ahead, pulls, open, task, tests>>
      /\ built[c] = "none" /\ written[c] = {}
      /\ \A t \in Branch : c \notin pulls[t]
      /\ \A f \in Builder!Accepted : tree[f] # c
  BY DEF Builder!implement_from_architecture_note, BuilderPlaces, Builder!SuccessIsReal
<1>2. refs' \subseteq Branch /\ ahead' \subseteq refs'
  BY <1>1 DEF Builder!implement_from_architecture_note, Builder!create_branch
<1>3. CASE /\ building' = [building EXCEPT ![c] = "create_branch"]
           /\ built' = [built EXCEPT ![c] = "failure"]
           /\ UNCHANGED <<tree, written>>
  <2>1. BuilderTypes' /\ BuilderPlaces'
    BY <1>1, <1>2, <1>3 DEF BuilderPlaces
  <2>2. Builder!SuccessIsReal'
    BY <1>1, <1>3 DEF BuilderPlaces, Builder!SuccessIsReal
  <2>3. QED
    BY <2>1, <2>2
<1>4. CASE \E done \in SUBSET (paths \cap Builder!Accepted) :
             /\ Builder!apply_code_changes(c, paths, done)
             /\ written' = [written EXCEPT ![c] = done]
             /\ building' = [building EXCEPT ![c] =
                  IF Builder!Applied(paths, done) THEN "testing" ELSE "apply_code_changes"]
             /\ built' = [built EXCEPT ![c] =
                  IF Builder!Applied(paths, done) THEN "none" ELSE "failure"]
  <2>1. PICK done \in SUBSET (paths \cap Builder!Accepted) :
             /\ Builder!apply_code_changes(c, paths, done)
             /\ written' = [written EXCEPT ![c] = done]
             /\ building' = [building EXCEPT ![c] =
                  IF Builder!Applied(paths, done) THEN "testing" ELSE "apply_code_changes"]
             /\ built' = [built EXCEPT ![c] =
                  IF Builder!Applied(paths, done) THEN "none" ELSE "failure"]
    BY <1>4
  <2>2. tree' = [f \in Builder!Accepted |-> IF f \in done THEN c ELSE tree[f]]
    BY <2>1 DEF Builder!apply_code_changes
  <2>3. BuilderTypes'
    BY <1>1, <1>2, <2>1, <2>2 DEF Builder!Author
  <2>4. BuilderPlaces'
    BY <1>1, <2>1 DEF BuilderPlaces, Builder!Applied
  <2>5. ASSUME NEW o \in Call
        PROVE  /\ built'[o] = "success" => o \in pulls'[task'[o]]
               /\ \A t \in Branch : o \in pulls'[t] =>
                    /\ t = task'[o] /\ building'[o] = "create_builder_pr"
                    /\ changes'[o] # {} /\ written'[o] = changes'[o] /\ tests'[o] # "none"
    BY <1>1, <2>1 DEF Builder!SuccessIsReal
  <2>6. ASSUME NEW o \in Call
        PROVE  /\ building'[o] = "create_branch" => written'[o] = {}
               /\ building'[o] = "apply_code_changes" => written'[o] # changes'[o] \/ changes'[o] = {}
    BY <1>1, <2>1 DEF Builder!SuccessIsReal, Builder!Applied
  <2>7. ASSUME NEW o \in Call, NEW f \in Builder!Accepted, tree'[f] = o PROVE f \in written'[o]
    BY <1>1, <2>1, <2>2, <2>7 DEF Builder!SuccessIsReal
  <2>8. QED
    BY <2>3, <2>4, <2>5, <2>6, <2>7 DEF Builder!SuccessIsReal
<1>5. QED
  BY <1>3, <1>4 DEF Builder!implement_from_architecture_note

\* A pull request is opened for the files that were written and tested.
LEMMA BuilderOpens ==
    ASSUME BuilderAssumption, BuilderInv, NEW c \in Call, Builder!create_builder_pr(c)
    PROVE  BuilderInv'
<1> USE DEF BuilderInv, BuilderTypes
<1>1. PICK success \in BOOLEAN :
        /\ Builder!create_pull_request(c, task[c], success)
        /\ built' = [built EXCEPT ![c] = IF success THEN "success" ELSE "failure"]
  BY DEF Builder!create_builder_pr
<1>2. /\ building[c] = "testing" /\ tests[c] # "none"
      /\ building' = [building EXCEPT ![c] = "create_builder_pr"]
      /\ UNCHANGED <<tree, ahead, task, changes, written, tests>>
      /\ built[c] = "none" /\ changes[c] # {} /\ written[c] = changes[c]
      /\ task[c] \in Branch
  BY DEF Builder!create_builder_pr, BuilderPlaces
<1>3. /\ \/ pulls' = [pulls EXCEPT ![task[c]] = @ \cup {c}]
         \/ pulls' = pulls /\ ~success
      /\ open' \subseteq Branch /\ refs \subseteq refs' /\ refs' \subseteq Branch
  BY <1>1, <1>2 DEF Builder!create_pull_request
<1>4. BuilderTypes'
  BY <1>1, <1>2, <1>3 DEF Builder!Author
<1>5. BuilderPlaces'
  BY <1>1, <1>2 DEF BuilderPlaces
<1>6. ASSUME NEW o \in Call
      PROVE  /\ built'[o] = "success" => o \in pulls'[task'[o]]
             /\ \A t \in Branch : o \in pulls'[t] =>
                  /\ t = task'[o] /\ building'[o] = "create_builder_pr"
                  /\ changes'[o] # {} /\ written'[o] = changes'[o] /\ tests'[o] # "none"
  <2>1. CASE o = c
    BY <1>1, <1>2, <1>3, <2>1 DEF Builder!SuccessIsReal
  <2>2. CASE o # c
    BY <1>1, <1>2, <1>3, <2>2 DEF Builder!SuccessIsReal
  <2>3. QED
    BY <2>1, <2>2
<1>7. ASSUME NEW o \in Call
      PROVE  /\ building'[o] = "create_branch" => written'[o] = {}
             /\ building'[o] = "apply_code_changes" => written'[o] # changes'[o] \/ changes'[o] = {}
             /\ \A f \in Builder!Accepted : tree'[f] = o => f \in written'[o]
  BY <1>1, <1>2 DEF Builder!SuccessIsReal
<1>8. QED
  BY <1>4, <1>5, <1>6, <1>7 DEF Builder!SuccessIsReal

\* The tests end one way or another before the pull request is opened.
LEMMA BuilderTests ==
    ASSUME BuilderInv, NEW c \in Call, Builder!run_tests_locally(c)
    PROVE  BuilderInv'
BY DEF Builder!run_tests_locally, BuilderInv, BuilderTypes, BuilderPlaces,
       Builder!SuccessIsReal, Builder!github

\* Others move the branches and the working tree.
LEMMA BuilderAgent ==
    ASSUME BuilderAssumption, BuilderInv, NEW t \in Branch,
           \/ Builder!Agent(t) \/ Builder!Push(t) \/ Builder!merge_pull_request(t)
           \/ Builder!Close(t)
    PROVE  BuilderInv'
<1> USE DEF BuilderInv, BuilderTypes
<1>1. UNCHANGED <<building, task, changes, written, tests, built>>
  BY DEF Builder!Agent, Builder!Push, Builder!merge_pull_request, Builder!Close
<1>2. \/ tree' = tree
      \/ \E f \in Builder!Accepted :
           tree' = [g \in Builder!Accepted |-> IF g \in {f} THEN "agent" ELSE tree[g]]
  BY DEF Builder!Agent, Builder!Push, Builder!merge_pull_request, Builder!Close,
     Builder!apply_code_changes
<1>3. pulls' = pulls \/ pulls' = [pulls EXCEPT ![t] = @ \cup {"agent"}]
  BY DEF Builder!Agent, Builder!Push, Builder!merge_pull_request, Builder!Close,
     Builder!create_pull_request
<1>4. refs' \subseteq Branch /\ ahead' \subseteq refs' /\ open' \subseteq Branch
  BY DEF Builder!Agent, Builder!Push, Builder!merge_pull_request, Builder!Close,
     Builder!create_branch, Builder!create_pull_request
<1>5. BuilderTypes'
  BY <1>1, <1>2, <1>3, <1>4 DEF Builder!Author
<1>6. BuilderPlaces'
  BY <1>1 DEF BuilderPlaces
<1>7. ASSUME NEW o \in Call, NEW b \in Branch
      PROVE  o \in pulls'[b] <=> o \in pulls[b]
  BY <1>3 DEF BuilderAssumption
<1>8. ASSUME NEW o \in Call, NEW f \in Builder!Accepted, tree'[f] = o PROVE tree[f] = o
  BY <1>2, <1>8 DEF BuilderAssumption
<1>9. QED
  BY <1>1, <1>5, <1>6, <1>7, <1>8 DEF Builder!SuccessIsReal

\* Every step of the builder keeps what its answers rest on.
LEMMA BuilderStep ==
    BuilderAssumption /\ BuilderInv /\ [Builder!Next]_(Builder!builderVars) => BuilderInv'
<1> SUFFICES ASSUME BuilderAssumption, BuilderInv, [Builder!Next]_(Builder!builderVars)
             PROVE  BuilderInv'
  OBVIOUS
<1>1. CASE UNCHANGED Builder!builderVars
  BY <1>1 DEF Builder!builderVars, Builder!github, BuilderInv, BuilderTypes, BuilderPlaces,
              Builder!SuccessIsReal
<1>2. CASE Builder!Next
  BY <1>2, BuilderImplement, BuilderOpens, BuilderTests, BuilderAgent DEF Builder!Next
<1>3. QED
  BY <1>1, <1>2

\* The types of the builder.
LEMMA BuilderTrue == BuilderInv => Builder!TypeOK /\ Builder!SuccessIsReal
BY DEF BuilderInv, BuilderTypes, Builder!TypeOK
-------------------------------------------------------------------------------
(* The health reports.                                                       *)

\* A step of the whole is a step of this component, or leaves it alone.
LEMMA PulseMoves == [Next]_vars => [Pulse!Next]_(Pulse!pulseVars)
BY DEF Next, Alone, vars, pulseVars, Pulse!pulseVars

PulseHolding == Pulse!Holding(tasks, tokens, agent_calls)

PulseOpen(r) == reading[r].taken # {} /\ "done" \notin reading[r].taken

\* What an open report has read was so at a time since its first reading, and
\* what was so all the time is in it.
PulseReadingOf(r) ==
    PulseOpen(r) =>
      /\ held[r] \subseteq PulseHolding /\ PulseHolding \subseteq observed[r]
      /\ "agents" \in reading[r].taken =>
           /\ held[r] \cap Pulse!Agent \subseteq reading[r].agents
           /\ reading[r].agents \subseteq observed[r]
      /\ "depth" \in reading[r].taken =>
           /\ "queue" \in held[r] => reading[r].depth > QUEUE_THRESHOLD
           /\ reading[r].depth > QUEUE_THRESHOLD => "queue" \in observed[r]

PulseReportOf(r) ==
    "done" \in reading[r].taken =>
      /\ held[r] \subseteq raised[r] /\ raised[r] \subseteq observed[r]
      /\ Pulse!generate_status(raised[r]) = "HEALTHY" => held[r] = {}

PulseReadings == \A r \in Thread : PulseReadingOf(r)

PulseReading == [agents : SUBSET Pulse!Agent, depth : 0 .. Cardinality(Task),
                 taken : SUBSET {"agents", "depth", "done"}]

PulseTypes ==
    /\ tasks \in [Task -> Pulse!Status]
    /\ tokens \in 0 .. MaxTokens
    /\ agent_calls \in (0 .. MaxTokens) \X (0 .. MaxTokens) /\ agent_calls[2] <= agent_calls[1]
    /\ reading \in [Thread -> PulseReading]
    /\ {raised, observed, held} \subseteq [Thread -> SUBSET Pulse!Condition]
    /\ logged \in [Thread -> SUBSET Pulse!Condition]
    /\ \A r \in Thread : logged[r] \subseteq raised[r] /\ held[r] \subseteq observed[r]

PulseInv == PulseTypes /\ PulseReadings /\ Pulse!ReportIsTrue

\* No report has read anything yet.
LEMMA PulseInitial == PulseAssumption /\ Pulse!Init => PulseInv
<1> SUFFICES ASSUME PulseAssumption, Pulse!Init PROVE PulseInv
  OBVIOUS
<1>1. Cardinality(Task) \in Nat
  BY FS_CardinalityType DEF PulseAssumption
<1>2. PulseTypes
  BY <1>1 DEF PulseAssumption, Pulse!Init, PulseTypes, PulseReading, Pulse!Status
<1>3. QED
  BY <1>2 DEF Pulse!Init, PulseInv, PulseReadings, PulseReadingOf, PulseOpen, Pulse!ReportIsTrue

\* What holds are conditions, each for its reason.
LEMMA HoldingFacts ==
    ASSUME PulseAssumption, NEW statuses, NEW tk, NEW counts
    PROVE  LET current == Pulse!Holding(statuses, tk, counts)
           IN  /\ current \subseteq Pulse!Condition
               /\ current \cap Pulse!Agent = Pulse!check_agent_health(statuses)
               /\ "queue" \in current <=> Pulse!monitor_queue_depth(statuses) > QUEUE_THRESHOLD
               /\ "api" \in current <=> Pulse!check_api_rate_limits(tk)
               /\ "errors" \in current <=> Pulse!error_rate(counts)
<1>1. "queue" \notin Pulse!Agent /\ "api" \notin Pulse!Agent /\ "errors" \notin Pulse!Agent
  BY DEF PulseAssumption, Pulse!Agent
<1>2. QED
  BY <1>1 DEF Pulse!Holding, Pulse!evaluate_alert_conditions, Pulse!check_agent_health,
              Pulse!Condition

\* The depth of a queue is a number of tasks.
LEMMA DepthFacts ==
    ASSUME PulseAssumption, NEW statuses
    PROVE  Pulse!monitor_queue_depth(statuses) \in 0 .. Cardinality(Task)
<1> DEFINE S == {t \in Task : statuses[t] \in {"PENDING", "RUNNING"}}
<1>1. S \in SUBSET Task /\ IsFiniteSet(Task)
  BY DEF PulseAssumption
<1> HIDE DEF S
<1>2. IsFiniteSet(S) /\ Cardinality(S) <= Cardinality(Task)
  BY <1>1, FS_Subset
<1>3. Cardinality(S) \in Nat /\ Cardinality(Task) \in Nat
  BY <1>1, <1>2, FS_CardinalityType
<1>4. Pulse!monitor_queue_depth(statuses) = Cardinality(S)
  BY DEF Pulse!monitor_queue_depth, Pulse!Cardinality, Cardinality, Pulse!IsFiniteSet, IsFiniteSet, S
<1>5. QED
  BY <1>2, <1>3, <1>4

\* What the witnesses of a report say after a step.
LEMMA WitnessFacts ==
    ASSUME Pulse!Witness, NEW r \in Thread, reading[r].taken \subseteq reading'[r].taken,
           PulseOpen(r)' => PulseOpen(r) \/ UNCHANGED <<tasks, tokens, agent_calls>>
    PROVE  IF PulseOpen(r)'
             THEN /\ held'[r] = IF PulseOpen(r) THEN held[r] \cap PulseHolding' ELSE PulseHolding'
                  /\ observed'[r] = IF PulseOpen(r) THEN observed[r] \cup PulseHolding'
                                                    ELSE PulseHolding'
             ELSE held'[r] = held[r] /\ observed'[r] = observed[r]
<1> DEFINE current == Pulse!Holding(tasks, tokens, agent_calls)
           later == Pulse!Holding(tasks', tokens', agent_calls')
<1>1. /\ held'[r] = IF ~PulseOpen(r)' THEN held[r]
                    ELSE IF reading[r].taken = {} THEN current ELSE held[r] \cap later
      /\ observed'[r] = IF ~PulseOpen(r)' THEN observed[r]
                        ELSE IF reading[r].taken = {} THEN current ELSE observed[r] \cup later
  BY DEF Pulse!Witness, PulseOpen
<1>2. current = PulseHolding /\ later = PulseHolding'
  BY DEF PulseHolding
<1>3. PulseOpen(r)' => (PulseOpen(r) <=> reading[r].taken # {})
  BY DEF PulseOpen
<1>4. PulseOpen(r)' /\ ~PulseOpen(r) => current = later
  <2>1. UNCHANGED <<tasks, tokens, agent_calls>> => current = later
    OBVIOUS
  <2>2. QED
    BY <2>1
<1> HIDE DEF current, later
<1>5. QED
  BY <1>1, <1>2, <1>3, <1>4

\* A report that a step is not of stays as true as it was.
LEMMA ReportUntouched ==
    ASSUME PulseAssumption, PulseInv, Pulse!Witness, NEW r \in Thread,
           reading'[r] = reading[r], raised'[r] = raised[r]
    PROVE  PulseReadingOf(r)' /\ PulseReportOf(r)'
<1>1. PulseReadingOf(r) /\ PulseReportOf(r)
  BY DEF PulseInv, PulseReadings, Pulse!ReportIsTrue, PulseReportOf
<1>2. PulseOpen(r)' <=> PulseOpen(r)
  BY DEF PulseOpen
<1>3. CASE PulseOpen(r)
  <2>1. held'[r] = held[r] \cap PulseHolding' /\ observed'[r] = observed[r] \cup PulseHolding'
    BY <1>2, <1>3, WitnessFacts
  <2>2. QED
    BY <1>1, <1>2, <1>3, <2>1 DEF PulseReadingOf, PulseReportOf, PulseOpen
<1>4. CASE ~PulseOpen(r)
  <2>1. held'[r] = held[r] /\ observed'[r] = observed[r]
    BY <1>2, <1>4, WitnessFacts
  <2>2. QED
    BY <1>1, <1>2, <1>4, <2>1 DEF PulseReadingOf, PulseReportOf
<1>5. QED
  BY <1>3, <1>4

\* The witnesses stay conditions.
LEMMA WitnessTypes ==
    ASSUME PulseAssumption, PulseInv, Pulse!Witness,
           \A r \in Thread : reading[r].taken \subseteq reading'[r].taken
    PROVE  /\ held' \in [Thread -> SUBSET Pulse!Condition]
           /\ observed' \in [Thread -> SUBSET Pulse!Condition]
           /\ \A r \in Thread : held'[r] \subseteq observed'[r]
<1> DEFINE current == Pulse!Holding(tasks, tokens, agent_calls)
           later == Pulse!Holding(tasks', tokens', agent_calls')
<1>1. current \subseteq Pulse!Condition /\ later \subseteq Pulse!Condition
  BY HoldingFacts
<1>2. /\ held' = [r \in Thread |-> IF ~PulseOpen(r)' THEN held[r]
                    ELSE IF reading[r].taken = {} THEN current ELSE held[r] \cap later]
      /\ observed' = [r \in Thread |-> IF ~PulseOpen(r)' THEN observed[r]
                    ELSE IF reading[r].taken = {} THEN current ELSE observed[r] \cup later]
  BY DEF Pulse!Witness, PulseOpen
<1>3. held \in [Thread -> SUBSET Pulse!Condition] /\ observed \in [Thread -> SUBSET Pulse!Condition]
      /\ \A r \in Thread : held[r] \subseteq observed[r]
  BY DEF PulseInv, PulseTypes
<1> HIDE DEF current, later
<1>4. QED
  BY <1>1, <1>2, <1>3

\* A step that leaves every report alone.
LEMMA PulseElsewhere ==
    ASSUME PulseAssumption, PulseInv, Pulse!Witness, UNCHANGED <<reading, raised, logged>>,
           tasks' \in [Task -> Pulse!Status], tokens' \in 0 .. MaxTokens,
           agent_calls' \in (0 .. MaxTokens) \X (0 .. MaxTokens), agent_calls'[2] <= agent_calls'[1]
    PROVE  PulseInv'
<1>1. \A r \in Thread : PulseReadingOf(r)' /\ PulseReportOf(r)'
  BY ReportUntouched
<1>2. /\ held' \in [Thread -> SUBSET Pulse!Condition]
      /\ observed' \in [Thread -> SUBSET Pulse!Condition]
      /\ \A r \in Thread : held'[r] \subseteq observed'[r]
  BY WitnessTypes
<1>3. PulseTypes'
  BY <1>2 DEF PulseInv, PulseTypes
<1>4. QED
  BY <1>1, <1>3 DEF PulseInv, PulseReadings, Pulse!ReportIsTrue, PulseReportOf

\* A reading of state.json by one report.
LEMMA PulseReads ==
    ASSUME PulseAssumption, PulseInv, Pulse!Witness, NEW r \in Thread,
           Pulse!ReadAgents(r) \/ Pulse!ReadDepth(r)
    PROVE  PulseInv'
<1>1. UNCHANGED <<tasks, tokens, agent_calls, raised, logged>>
  BY DEF Pulse!ReadAgents, Pulse!ReadDepth
<1>2. reading \in [Thread -> PulseReading] /\ PulseReadingOf(r)
  BY DEF PulseInv, PulseTypes, PulseReadings
<1>3. PICK x \in PulseReading :
        /\ reading' = [reading EXCEPT ![r] = x]
        /\ "done" \notin reading[r].taken /\ "done" \notin x.taken
        /\ \/ /\ x.taken = reading[r].taken \cup {"agents"} /\ x.depth = reading[r].depth
              /\ x.agents = Pulse!check_agent_health(tasks)
           \/ /\ x.taken = reading[r].taken \cup {"depth"} /\ x.agents = reading[r].agents
              /\ x.depth = Pulse!monitor_queue_depth(tasks)
  <2>1. Pulse!check_agent_health(tasks) \in SUBSET Pulse!Agent
    BY DEF Pulse!check_agent_health
  <2>2. Pulse!monitor_queue_depth(tasks) \in 0 .. Cardinality(Task)
    BY DepthFacts
  <2>3. CASE Pulse!ReadAgents(r)
    <3> DEFINE x == [reading[r] EXCEPT !.agents = Pulse!check_agent_health(tasks),
                                       !.taken = @ \cup {"agents"}]
    <3>1. x \in PulseReading
      BY <1>2, <2>1 DEF PulseReading
    <3>2. QED
      BY <1>2, <3>1, <2>3 DEF Pulse!ReadAgents, PulseReading
  <2>4. CASE Pulse!ReadDepth(r)
    <3> DEFINE x == [reading[r] EXCEPT !.depth = Pulse!monitor_queue_depth(tasks),
                                       !.taken = @ \cup {"depth"}]
    <3>1. x \in PulseReading
      BY <1>2, <2>2 DEF PulseReading
    <3>2. QED
      BY <1>2, <3>1, <2>4 DEF Pulse!ReadDepth, PulseReading
  <2>5. QED
    BY <2>3, <2>4
<1>4. /\ held' \in [Thread -> SUBSET Pulse!Condition]
      /\ observed' \in [Thread -> SUBSET Pulse!Condition]
      /\ \A s \in Thread : held'[s] \subseteq observed'[s]
  BY <1>2, <1>3, WitnessTypes
<1>5. PulseTypes'
  BY <1>1, <1>2, <1>3, <1>4 DEF PulseInv, PulseTypes
<1>6. ASSUME NEW s \in Thread, s # r PROVE PulseReadingOf(s)' /\ PulseReportOf(s)'
  BY <1>1, <1>2, <1>3, <1>6, ReportUntouched
<1>7. PulseOpen(r)' /\ PulseHolding' = PulseHolding /\ (PulseOpen(r) <=> reading[r].taken # {})
  BY <1>1, <1>2, <1>3 DEF PulseOpen, PulseHolding
<1>8. /\ held'[r] = IF PulseOpen(r) THEN held[r] \cap PulseHolding ELSE PulseHolding
      /\ observed'[r] = IF PulseOpen(r) THEN observed[r] \cup PulseHolding ELSE PulseHolding
  BY <1>1, <1>2, <1>3, <1>7, WitnessFacts
<1>9. /\ PulseHolding \cap Pulse!Agent = Pulse!check_agent_health(tasks)
      /\ "queue" \in PulseHolding <=> Pulse!monitor_queue_depth(tasks) > QUEUE_THRESHOLD
  BY HoldingFacts DEF PulseHolding
<1>10. PulseReadingOf(r)' /\ PulseReportOf(r)'
  BY <1>2, <1>3, <1>7, <1>8, <1>9 DEF PulseReadingOf, PulseReportOf
<1>11. QED
  BY <1>5, <1>6, <1>10 DEF PulseInv, PulseReadings, Pulse!ReportIsTrue, PulseReportOf

\* The report is written.
LEMMA PulseReports ==
    ASSUME PulseAssumption, PulseInv, Pulse!Witness, NEW r \in Thread,
           Pulse!generate_health_report(r)
    PROVE  PulseInv'
<1> DEFINE x == Pulse!evaluate_alert_conditions(reading[r].agents, reading[r].depth,
                                                tokens, agent_calls)
           y == [reading[r] EXCEPT !.taken = @ \cup {"done"}]
<1>1. UNCHANGED <<tasks, tokens, agent_calls>> /\ raised' = [raised EXCEPT ![r] = x]
      /\ reading' = [reading EXCEPT ![r] = y] /\ reading[r].taken = {"agents", "depth"}
      /\ \E lines \in SUBSET raised'[r] : logged' = [logged EXCEPT ![r] = lines]
  BY DEF Pulse!generate_health_report, PulseInv, PulseTypes, PulseReading
<1>2. reading \in [Thread -> PulseReading] /\ PulseReadingOf(r)
      /\ raised \in [Thread -> SUBSET Pulse!Condition]
      /\ logged \in [Thread -> SUBSET Pulse!Condition]
      /\ \A s \in Thread : logged[s] \subseteq raised[s]
  BY DEF PulseInv, PulseTypes, PulseReadings
<1>3. y \in PulseReading /\ "done" \in y.taken /\ reading[r].taken \subseteq y.taken
  BY <1>1, <1>2 DEF PulseReading
<1>4. x \in SUBSET Pulse!Condition
  BY <1>2 DEF Pulse!evaluate_alert_conditions, Pulse!Condition, PulseReading
<1>5. /\ held' \in [Thread -> SUBSET Pulse!Condition]
      /\ observed' \in [Thread -> SUBSET Pulse!Condition]
      /\ \A s \in Thread : held'[s] \subseteq observed'[s]
  BY <1>1, <1>2, <1>3, WitnessTypes
<1>6. PulseHolding \subseteq Pulse!Condition
      /\ ("api" \in PulseHolding <=> Pulse!check_api_rate_limits(tokens))
      /\ ("errors" \in PulseHolding <=> Pulse!error_rate(agent_calls))
  BY HoldingFacts DEF PulseHolding
<1>7. \A c : c \in x <=> \/ c \in reading[r].agents
                         \/ c = "queue" /\ reading[r].depth > QUEUE_THRESHOLD
                         \/ c = "api" /\ Pulse!check_api_rate_limits(tokens)
                         \/ c = "errors" /\ Pulse!error_rate(agent_calls)
  BY DEF Pulse!evaluate_alert_conditions
<1> HIDE DEF x, y
<1>8. PulseTypes'
  BY <1>1, <1>2, <1>3, <1>4, <1>5 DEF PulseInv, PulseTypes
<1>9. ASSUME NEW s \in Thread, s # r PROVE PulseReadingOf(s)' /\ PulseReportOf(s)'
  BY <1>1, <1>2, <1>3, <1>9, ReportUntouched
<1>10. PulseOpen(r) /\ ~PulseOpen(r)'
  BY <1>1, <1>2, <1>3 DEF PulseOpen
<1>11. held'[r] = held[r] /\ observed'[r] = observed[r]
  BY <1>1, <1>2, <1>3, <1>10, WitnessFacts
<1>12. /\ held[r] \subseteq PulseHolding /\ PulseHolding \subseteq observed[r]
       /\ held[r] \cap Pulse!Agent \subseteq reading[r].agents
       /\ reading[r].agents \subseteq observed[r]
       /\ "queue" \in held[r] => reading[r].depth > QUEUE_THRESHOLD
       /\ reading[r].depth > QUEUE_THRESHOLD => "queue" \in observed[r]
  BY <1>1, <1>2, <1>10 DEF PulseReadingOf
<1>13. held[r] \subseteq x /\ x \subseteq observed[r]
  <2>1. ASSUME NEW c \in held[r] PROVE c \in x
    <3>1. c \in PulseHolding /\ c \in Pulse!Condition
      BY <1>6, <1>12, <2>1
    <3>2. QED
      BY <1>6, <1>7, <1>12, <2>1, <3>1 DEF Pulse!Condition
  <2>2. ASSUME NEW c \in x PROVE c \in observed[r]
    BY <1>6, <1>7, <1>12, <2>2
  <2>3. QED
    BY <2>1, <2>2
<1>14. Pulse!generate_status(x) = "HEALTHY" => x = {}
  BY DEF Pulse!generate_status
<1>15. raised'[r] = x
  BY <1>1, <1>2
<1>16. PulseReadingOf(r)' /\ PulseReportOf(r)'
  BY <1>10, <1>11, <1>13, <1>14, <1>15 DEF PulseReadingOf, PulseReportOf
<1>17. QED
  BY <1>8, <1>9, <1>16 DEF PulseInv, PulseReadings, Pulse!ReportIsTrue, PulseReportOf

\* Every step of the tasks, the tokens and the reports keeps it.
LEMMA PulseStep ==
    PulseAssumption /\ PulseInv /\ [Pulse!Next]_(Pulse!pulseVars) => PulseInv'
<1> SUFFICES ASSUME PulseAssumption, PulseInv, [Pulse!Next]_(Pulse!pulseVars)
             PROVE  PulseInv'
  OBVIOUS
<1> USE DEF PulseInv, PulseTypes
<1>1. CASE UNCHANGED Pulse!pulseVars
  BY <1>1 DEF Pulse!pulseVars, PulseReadings, PulseReadingOf, PulseOpen, PulseHolding,
              Pulse!ReportIsTrue
<1>2. ASSUME Pulse!Witness, NEW t \in Task, NEW s \in {"PENDING", "STALLED", "COMPLETED"},
             Pulse!SetStatus(t, s)
      PROVE  PulseInv'
  <2>1. tasks' \in [Task -> Pulse!Status]
    BY <1>2 DEF Pulse!SetStatus, Pulse!Status
  <2>2. QED
    BY <1>2, <2>1, PulseElsewhere DEF Pulse!SetStatus
<1>3. ASSUME Pulse!Witness, Pulse!record_tokens PROVE PulseInv'
  BY <1>3, PulseElsewhere DEF Pulse!record_tokens, PulseAssumption
<1>4. ASSUME Pulse!Witness, NEW b \in BOOLEAN, Pulse!record_agent_call(b)
      PROVE  PulseInv'
  <2>1. agent_calls' \in (0 .. MaxTokens) \X (0 .. MaxTokens) /\ agent_calls'[2] <= agent_calls'[1]
    BY <1>4 DEF Pulse!record_agent_call, PulseAssumption
  <2>2. QED
    BY <1>4, <2>1, PulseElsewhere DEF Pulse!record_agent_call
<1>5. CASE Pulse!Next
  BY <1>2, <1>3, <1>4, <1>5, PulseReads, PulseReports DEF Pulse!Next, Pulse!Step
<1>6. QED
  BY <1>1, <1>5

\* The types of the health reports.
LEMMA PulseTrue == PulseInv => Pulse!TypeOK /\ Pulse!ReportIsTrue
<1> SUFFICES ASSUME PulseInv PROVE Pulse!TypeOK
  BY DEF PulseInv
<1>1. /\ Pulse!Cardinality(Task) = Cardinality(Task)
      /\ raised \in [Thread -> SUBSET Pulse!Condition]
      /\ observed \in [Thread -> SUBSET Pulse!Condition]
  BY DEF PulseInv, PulseTypes, Pulse!Cardinality, Cardinality, Pulse!IsFiniteSet, IsFiniteSet
<1>2. QED
  BY <1>1 DEF PulseInv, PulseTypes, PulseReading, Pulse!TypeOK

-------------------------------------------------------------------------------
(* The writers of a task's phase.                                            *)

\* A step of the whole is a step of this component, or leaves it alone.
LEMMA LedgerMoves == [Next]_vars => [Ledger!Next]_(Ledger!ledgerVars)
BY DEF Next, Alone, vars, ledgerVars, Ledger!ledgerVars

Items == [phase : Ledger!Phase \cup {"none"}, history : Seq(Ledger!Move)]
Rows == [phase : Ledger!Phase \cup {"none", "unread"}, history : Seq(Ledger!Move), item : Items]

\* The history of an item is a chain of logged moves from PLAN to its phase.
ItemLogged(item, logs) ==
    item # Ledger!NoItem =>
      /\ Ledger!Range(item.history) \subseteq logs
      /\ Ledger!IsChain(item.history, item.phase)
      /\ \A m \in Ledger!Range(item.history) : Ledger!can_advance(m[1], m[2]) \/ m[3] = "forced"
      /\ item.history = << >> => item.phase = "PLAN"

\* What a row, wherever it is kept, shows of the moves that were logged, and of
\* those that a cycle kept without.
RowLogged(r, logs, all) ==
    /\ Ledger!Range(r.history) \subseteq {m \in logs : m[3] = "web" /\ Ledger!can_advance(m[1], m[2])}
    /\ ItemLogged(r.item, all)
    /\ \/ r = Ledger!NoRow \/ r = Ledger!Unread
       \/ r.phase \in Ledger!Phase /\ (r.phase = "PLAN" \/ \E m \in all : m[2] = r.phase)

Places == {"idle", "ensure", "advance", "climb", "save", "done"}
Rungs == {"ARCHITECT", "IMPLEMENT", "REVIEW", "GOVERN"}
LastMove == <<"GOVERN", "OPERATE", "gated">>

\* Whether a row is true at present.
IsTrue(r) == RowLogged(r, Ledger!Range(events), Ledger!Accounted)

\* Where a writer is, and what it has in hand there.
HasInHand(w, where, r) ==
    /\ w \in Process /\ where \in {"advance", "climb", "save"} => r.item # Ledger!NoItem
    /\ w \in Process /\ where = "climb" => r.item.phase \in Rungs
    /\ w \in Thread /\ where = "save" => r # Ledger!NoRow

LedgerInv ==
    /\ row \in Rows /\ cached \in Rows /\ events \in Seq(Ledger!Move) /\ moves \in Nat
    /\ untold \subseteq {LastMove}
    /\ mine \in [Ledger!Writer -> Rows]
    /\ writer \in [Ledger!Writer -> Places]
    /\ IsTrue(row) /\ IsTrue(cached)
    /\ \A w \in Ledger!Writer : IsTrue(mine[w])
    /\ row # Ledger!Unread /\ \A w \in Ledger!Writer : mine[w] # Ledger!Unread
    /\ \A w \in Ledger!Writer : HasInHand(w, writer[w], mine[w])

\* The move that is logged is the last of the log.
LEMMA LoggedMove ==
    ASSUME NEW S, NEW s \in Seq(S), NEW m \in S
    PROVE  /\ Append(s, m) \in Seq(S)
           /\ Ledger!Range(Append(s, m)) = Ledger!Range(s) \cup {m}
<1>1. /\ Append(s, m) \in Seq(S) /\ Len(Append(s, m)) = Len(s) + 1 /\ Len(s) \in Nat
      /\ \A i \in 1 .. Len(s) : Append(s, m)[i] = s[i]
      /\ Append(s, m)[Len(s) + 1] = m
      /\ DOMAIN s = 1 .. Len(s) /\ DOMAIN Append(s, m) = 1 .. Len(s) + 1
  BY AppendProperties, LenProperties
<1>2. 1 .. Len(s) + 1 = (1 .. Len(s)) \cup {Len(s) + 1}
  BY <1>1
<1>3. QED
  BY <1>1, <1>2 DEF Ledger!Range

\* A longer log tells of all the shorter one tells of.
LEMMA LogGrows ==
    ASSUME NEW r, NEW few, NEW many, few \subseteq many,
           NEW some, NEW all, some \subseteq all, RowLogged(r, few, some)
    PROVE  RowLogged(r, many, all)
BY DEF RowLogged, ItemLogged

\* Rows and work items that hold nothing yet.
LEMMA EmptyRows ==
    /\ Ledger!NoRow \in Rows /\ Ledger!Unread \in Rows /\ Ledger!Start \in Rows
    /\ Ledger!NoItem \in Items /\ Ledger!NoRow # Ledger!Unread /\ Ledger!Start # Ledger!Unread
    /\ Ledger!NoRow.item = Ledger!NoItem /\ Ledger!Start.item = Ledger!NoItem
    /\ Ledger!NoRow.history = << >> /\ Ledger!Unread.history = << >>
    /\ Ledger!NoRow.phase = "none" /\ Ledger!Unread.phase = "unread"
    /\ Ledger!NoItem.phase = "none"
    /\ \A logs, all : /\ RowLogged(Ledger!NoRow, logs, all)
                      /\ RowLogged(Ledger!Unread, logs, all)
                      /\ RowLogged(Ledger!Start, logs, all)
<1>1. << >> \in Seq(Ledger!Move)
  BY EmptySeq
<1>2. Ledger!NoItem \in Items /\ Ledger!NoItem.phase = "none"
  BY <1>1 DEF Ledger!NoItem, Items
<1>3. /\ Ledger!Start = [phase |-> "PLAN", history |-> << >>, item |-> Ledger!NoItem]
      /\ Ledger!NoRow = [phase |-> "none", history |-> << >>, item |-> Ledger!NoItem]
      /\ Ledger!Unread = [phase |-> "unread", history |-> << >>, item |-> Ledger!NoItem]
  BY DEF Ledger!Start, Ledger!NoRow, Ledger!Unread
<1>4. /\ Ledger!NoRow \in Rows /\ Ledger!Unread \in Rows /\ Ledger!Start \in Rows
  BY <1>1, <1>2, <1>3 DEF Rows, Ledger!Phase
<1>5. Ledger!Range(<< >>) = {}
  BY DEF Ledger!Range
<1>6. ASSUME NEW logs, NEW all
      PROVE  /\ RowLogged(Ledger!NoRow, logs, all) /\ RowLogged(Ledger!Unread, logs, all)
             /\ RowLogged(Ledger!Start, logs, all)
  BY <1>3, <1>5 DEF RowLogged, ItemLogged, Ledger!Phase
<1>7. QED
  BY <1>2, <1>3, <1>4, <1>6

\* No phase is known to anyone yet.
LEMMA LedgerInit == Ledger!Init => LedgerInv
<1> SUFFICES ASSUME Ledger!Init PROVE LedgerInv
  OBVIOUS
<1>1. << >> \in Seq(Ledger!Move)
  BY EmptySeq
<1>2. mine = [w \in Ledger!Writer |-> Ledger!NoRow] /\ writer = [w \in Ledger!Writer |-> "idle"]
      /\ row = Ledger!NoRow /\ cached = Ledger!Unread /\ events = << >>
      /\ untold = {} /\ moves = 0
  BY DEF Ledger!Init
<1>3. \A w \in Ledger!Writer : mine[w] = Ledger!NoRow /\ writer[w] = "idle"
  BY <1>2
<1>4. mine \in [Ledger!Writer -> Rows]
      /\ writer \in [Ledger!Writer -> Places]
  BY <1>2, EmptyRows DEF Places
<1>5. QED
  BY <1>1, <1>2, <1>3, <1>4, EmptyRows DEF LedgerInv, HasInHand, IsTrue

\* The last move of a history led to the phase.
LEMMA ItemPhase ==
    ASSUME NEW item \in Items, NEW logs, ItemLogged(item, logs), item # Ledger!NoItem
    PROVE  item.phase \in Ledger!Phase /\ (item.phase = "PLAN" \/ \E m \in logs : m[2] = item.phase)
<1>1. item.history \in Seq(Ledger!Move)
  BY DEF Items
<1>2. CASE item.history = << >>
  BY <1>2 DEF ItemLogged, Ledger!Phase
<1>3. CASE item.history # << >>
  <2> DEFINE n == Len(item.history)
             m == item.history[n]
  <2>1. n \in Nat \ {0} /\ DOMAIN item.history = 1 .. n
    BY <1>1, <1>3, EmptySeq, LenProperties
  <2>2. n \in 1 .. n
    BY <2>1
  <2>3. m \in Ledger!Move /\ m \in Ledger!Range(item.history) /\ m[2] = item.phase
    BY <1>1, <1>3, <2>1, <2>2, ElementOfSeq DEF ItemLogged, Ledger!IsChain, Ledger!Range
  <2>4. m \in logs
    BY <2>3 DEF ItemLogged
  <2> HIDE DEF m
  <2>5. QED
    BY <2>3, <2>4 DEF Ledger!Move
<1>4. QED
  BY <1>2, <1>3

\* A move from the phase of an item goes on with its chain.
LEMMA ItemMoves ==
    ASSUME NEW item \in Items, NEW logs, ItemLogged(item, logs), item # Ledger!NoItem,
           NEW target \in Ledger!Phase, NEW how \in {"gated", "forced"},
           how = "gated" => Ledger!can_advance(item.phase, target)
    PROVE  LET this == <<item.phase, target, how>>
               moved == [phase |-> target, history |-> Append(item.history, this)]
           IN  /\ this \in Ledger!Move /\ moved \in Items /\ moved # Ledger!NoItem
               /\ ItemLogged(moved, logs \cup {this})
<1> DEFINE this == <<item.phase, target, how>>
           h == Append(item.history, this)
           moved == [phase |-> target, history |-> h]
           n == Len(item.history)
<1>1. item.history \in Seq(Ledger!Move) /\ item.phase \in Ledger!Phase
  BY ItemPhase DEF Items
<1>2. /\ this \in Ledger!Move /\ this[1] = item.phase /\ this[2] = target /\ this[3] = how
  BY <1>1 DEF Ledger!Move, Ledger!How
<1> HIDE DEF this
<1>3. h \in Seq(Ledger!Move) /\ h # << >> /\ Len(h) = n + 1 /\ n \in Nat
      /\ (\A i \in 1 .. n : h[i] = item.history[i]) /\ h[n + 1] = this
      /\ Ledger!Range(h) = Ledger!Range(item.history) \cup {this}
  BY <1>1, <1>2, AppendProperties, LenProperties, LoggedMove
<1> HIDE DEF h
<1>4. moved \in Items /\ moved # Ledger!NoItem
  BY <1>3 DEF Items, Ledger!NoItem, Ledger!Phase
<1>5. Ledger!IsChain(h, target)
  <2>1. \A i \in 1 .. n - 1 : item.history[i][2] = item.history[i + 1][1]
    BY <1>3 DEF ItemLogged, Ledger!IsChain
  <2>2. n # 0 => item.history[n][2] = item.phase
    BY <1>1, <1>3, EmptySeq DEF ItemLogged, Ledger!IsChain
  <2>3. ASSUME NEW i \in 1 .. Len(h) - 1 PROVE h[i][2] = h[i + 1][1]
    <3>1. i \in 1 .. n
      BY <1>3
    <3>2. CASE i = n
      BY <1>2, <1>3, <2>2, <3>1, <3>2
    <3>3. CASE i # n
      <4>1. i \in 1 .. n - 1 /\ i + 1 \in 1 .. n
        BY <1>3, <3>1, <3>3
      <4>2. QED
        BY <1>3, <2>1, <4>1
    <3>4. QED
      BY <3>2, <3>3
  <2>4. h[Len(h)][2] = target
    BY <1>2, <1>3
  <2>5. QED
    BY <2>3, <2>4 DEF Ledger!IsChain
<1>6. \A m \in Ledger!Range(h) : Ledger!can_advance(m[1], m[2]) \/ m[3] = "forced"
  BY <1>2, <1>3 DEF ItemLogged
<1>7. ItemLogged(moved, logs \cup {this})
  BY <1>3, <1>5, <1>6 DEF ItemLogged
<1>8. QED
  BY <1>2, <1>4, <1>7 DEF this, h

\* A row that mirrors its item is as true as the item.
LEMMA RowMirrors ==
    ASSUME NEW r \in Rows, NEW logs, NEW all, RowLogged(r, logs, all), NEW item \in Items,
           ItemLogged(item, all), item # Ledger!NoItem
    PROVE  LET mirror == Ledger!save_work_item(r, item)
           IN  /\ mirror \in Rows /\ RowLogged(mirror, logs, all) /\ mirror # Ledger!Unread
               /\ mirror.item = item
<1> DEFINE mirror == Ledger!save_work_item(r, item)
<1>1. /\ item.phase \in Ledger!Phase
      /\ item.phase = "PLAN" \/ \E m \in all : m[2] = item.phase
  BY ItemPhase
<1>2. mirror \in Rows /\ mirror.history = r.history /\ mirror.item = item /\ mirror.phase = item.phase
  <2> DEFINE d == [r EXCEPT !.item = item]
             e == [d EXCEPT !.phase = item.phase]
  <2>1. d \in Rows /\ d.history = r.history /\ d.item = item
    BY DEF Rows
  <2>2. mirror = e
    BY DEF Ledger!save_work_item, Rows
  <2> HIDE DEF d
  <2>3. e \in Rows /\ e.history = d.history /\ e.item = d.item /\ e.phase = item.phase
    BY <1>1, <2>1 DEF Rows
  <2> HIDE DEF e, mirror
  <2>4. QED
    BY <2>1, <2>2, <2>3
<1> HIDE DEF mirror
<1>4. mirror # Ledger!Unread
  BY <1>1, <1>2, EmptyRows DEF Ledger!Phase
<1>5. RowLogged(mirror, logs, all)
  BY <1>1, <1>2 DEF RowLogged
<1>6. QED
  BY <1>2, <1>4, <1>5 DEF mirror

\* What a writer that is not the one of a step remembers stays as true.
LEMMA LedgerOthers ==
    ASSUME LedgerInv, NEW w \in Ledger!Writer, NEW x \in Rows,
           mine' = [mine EXCEPT ![w] = x] \/ (mine' = mine /\ x = mine[w]),
           x # Ledger!Unread, RowLogged(x, Ledger!Range(events'), Ledger!Accounted'),
           NEW y \in Places,
           writer' = [writer EXCEPT ![w] = y] \/ (writer' = writer /\ y = writer[w]),
           HasInHand(w, y, x),
           events' \in Seq(Ledger!Move), Ledger!Range(events) \subseteq Ledger!Range(events'),
           untold \subseteq untold', untold' \subseteq {LastMove}, moves' \in Nat,
           row' \in Rows, IsTrue(row)', row' # Ledger!Unread,
           cached' \in Rows, IsTrue(cached)'
    PROVE  LedgerInv'
<1>1. \A o \in Ledger!Writer : mine'[o] = (IF o = w THEN x ELSE mine[o])
                            /\ writer'[o] = (IF o = w THEN y ELSE writer[o])
  BY DEF LedgerInv
<1>2. mine' \in [Ledger!Writer -> Rows] /\ writer' \in [Ledger!Writer -> Places]
  BY DEF LedgerInv
<1>3. Ledger!Accounted \subseteq Ledger!Accounted'
  BY DEF Ledger!Accounted
<1>4. ASSUME NEW o \in Ledger!Writer PROVE IsTrue(mine[o])' /\ mine'[o] # Ledger!Unread
  <2>1. CASE o = w
    BY <1>1, <2>1 DEF IsTrue
  <2>2. CASE o # w
    <3>1. mine'[o] = mine[o] /\ IsTrue(mine[o]) /\ mine[o] # Ledger!Unread
      BY <1>1, <2>2 DEF LedgerInv
    <3>2. QED
      BY <1>3, <3>1, LogGrows DEF IsTrue
  <2>3. QED
    BY <2>1, <2>2
<1>5. \A o \in Ledger!Writer : HasInHand(o, writer'[o], mine'[o])
  BY <1>1 DEF LedgerInv
<1>6. QED
  BY <1>2, <1>4, <1>5 DEF LedgerInv, HasInHand

\* What is true stays so when the log tells of the same and of more.
LEMMA TruthStays ==
    ASSUME NEW r, IsTrue(r), Ledger!Range(events) \subseteq Ledger!Range(events'),
           untold \subseteq untold'
    PROVE  RowLogged(r, Ledger!Range(events'), Ledger!Accounted')
<1>1. Ledger!Accounted \subseteq Ledger!Accounted'
  BY DEF Ledger!Accounted
<1>2. QED
  BY <1>1, LogGrows DEF IsTrue

\* A step of one writer that logs nothing.
LEMMA LedgerQuiet ==
    ASSUME LedgerInv, NEW w \in Ledger!Writer, NEW x \in Rows,
           mine' = [mine EXCEPT ![w] = x] \/ (mine' = mine /\ x = mine[w]),
           x # Ledger!Unread, IsTrue(x),
           NEW y \in Places,
           writer' = [writer EXCEPT ![w] = y] \/ (writer' = writer /\ y = writer[w]),
           HasInHand(w, y, x), UNCHANGED <<events, untold>>, moves' \in Nat,
           row' \in Rows, RowLogged(row', Ledger!Range(events), Ledger!Accounted),
           row' # Ledger!Unread, cached' \in Rows,
           RowLogged(cached', Ledger!Range(events), Ledger!Accounted)
    PROVE  LedgerInv'
<1>1. events' = events /\ untold' = untold /\ Ledger!Accounted' = Ledger!Accounted
  BY DEF Ledger!Accounted
<1>2. RowLogged(x, Ledger!Range(events'), Ledger!Accounted')
  BY <1>1 DEF IsTrue
<1>3. IsTrue(row)' /\ IsTrue(cached)'
  BY <1>1 DEF IsTrue
<1>4. events' \in Seq(Ledger!Move) /\ untold' \subseteq {LastMove}
  BY <1>1 DEF LedgerInv
<1>5. QED
  BY <1>1, <1>2, <1>3, <1>4, LedgerOthers

\* Whoever ends leaves the rest as it is.
LEMMA LedgerEnds ==
    ASSUME LedgerInv, NEW w \in Ledger!Writer, Ledger!End(w), UNCHANGED <<events, untold, moves>>,
           row' \in Rows, RowLogged(row', Ledger!Range(events), Ledger!Accounted),
           row' # Ledger!Unread, cached' \in Rows,
           RowLogged(cached', Ledger!Range(events), Ledger!Accounted)
    PROVE  LedgerInv'
<1>1. mine' = [mine EXCEPT ![w] = Ledger!NoRow] /\ writer' = [writer EXCEPT ![w] = "done"]
  BY DEF Ledger!End
<1>2. IsTrue(Ledger!NoRow) /\ HasInHand(w, "done", Ledger!NoRow) /\ "done" \in Places
  BY EmptyRows DEF IsTrue, HasInHand, Places
<1>3. moves' \in Nat
  BY DEF LedgerInv
<1>4. QED
  BY <1>1, <1>2, <1>3, EmptyRows, LedgerQuiet

\* What a process knows.
LEMMA ProcessKnows ==
    ASSUME LedgerAssumption, LedgerInv, NEW p \in Process
    PROVE  /\ p \in Ledger!Writer /\ p \notin Thread
           /\ mine[p] \in Rows /\ mine[p].item \in Items /\ IsTrue(mine[p])
           /\ mine[p] # Ledger!Unread /\ ItemLogged(mine[p].item, Ledger!Accounted)
           /\ HasInHand(p, writer[p], mine[p]) /\ writer[p] \in Places
           /\ row \in Rows /\ IsTrue(row) /\ row # Ledger!Unread
           /\ cached \in Rows /\ IsTrue(cached) /\ events \in Seq(Ledger!Move)
           /\ mine \in [Ledger!Writer -> Rows] /\ moves \in Nat /\ untold \subseteq {LastMove}
<1>1. p \in Ledger!Writer /\ p \notin Thread
  BY DEF Ledger!Writer, LedgerAssumption
<1>2. mine[p] \in Rows /\ IsTrue(mine[p])
  BY <1>1 DEF LedgerInv
<1>3. mine[p].item \in Items /\ ItemLogged(mine[p].item, Ledger!Accounted)
  BY <1>2 DEF Rows, IsTrue, RowLogged
<1>4. QED
  BY <1>1, <1>2, <1>3 DEF LedgerInv

\* An item is moved in memory; the move is logged, or the handler of the cycle
\* keeps it all the same.
LEMMA LedgerMovesItem ==
    ASSUME LedgerAssumption, LedgerInv, NEW p \in Process, NEW target \in Ledger!Phase,
           NEW how \in {"gated", "forced"}, NEW y \in {"climb", "save"},
           y = "climb" => target \in Rungs,
           writer[p] \in {"advance", "climb"},
           writer' = [writer EXCEPT ![p] = y] \/ (writer' = writer /\ y = writer[p]),
           Ledger!Moved(p, target, how),
           \/ /\ events' = Append(events, <<mine[p].item.phase, target, how>>) /\ UNCHANGED untold
           \/ /\ UNCHANGED events /\ <<mine[p].item.phase, target, how>> = LastMove
              /\ untold' = untold \cup {LastMove},
           moves' \in Nat, UNCHANGED <<row, cached>>
    PROVE  LedgerInv'
<1> DEFINE item == mine[p].item
           this == <<item.phase, target, how>>
           moved == [phase |-> target, history |-> Append(item.history, this)]
           x == [mine[p] EXCEPT !.item = moved]
           logs == Ledger!Range(events)
           all == Ledger!Accounted
<1>1. /\ p \in Ledger!Writer /\ mine[p] \in Rows /\ item \in Items /\ IsTrue(mine[p])
      /\ mine[p] # Ledger!Unread /\ ItemLogged(item, all) /\ item # Ledger!NoItem
      /\ events \in Seq(Ledger!Move) /\ untold \subseteq {LastMove} /\ p \notin Thread
      /\ row \in Rows /\ IsTrue(row) /\ row # Ledger!Unread /\ cached \in Rows /\ IsTrue(cached)
  BY ProcessKnows DEF HasInHand
<1>2. /\ how = "gated" => Ledger!can_advance(item.phase, target)
      /\ mine' = [mine EXCEPT ![p] = x]
  BY <1>1 DEF Ledger!Moved, LedgerInv
<1>3. /\ this \in Ledger!Move /\ moved \in Items /\ moved # Ledger!NoItem
      /\ ItemLogged(moved, all \cup {this}) /\ moved.phase = target
  <2> HIDE DEF item, all
  <2>1. /\ this \in Ledger!Move /\ moved \in Items /\ moved # Ledger!NoItem
        /\ ItemLogged(moved, all \cup {this})
    BY <1>1, <1>2, ItemMoves
  <2>2. QED
    BY <2>1
<1> HIDE DEF this
<1>4. /\ events' \in Seq(Ledger!Move) /\ untold' \subseteq {LastMove}
      /\ logs \subseteq logs' /\ untold \subseteq untold' /\ all' = all \cup {this}
  <2>1. CASE events' = Append(events, this) /\ UNCHANGED untold
    <3>1. events' \in Seq(Ledger!Move) /\ Ledger!Range(events') = Ledger!Range(events) \cup {this}
      BY <1>1, <1>3, <2>1, LoggedMove
    <3>2. QED
      BY <1>1, <2>1, <3>1 DEF Ledger!Accounted
  <2>2. CASE UNCHANGED events /\ this = LastMove /\ untold' = untold \cup {LastMove}
    BY <1>1, <2>2 DEF Ledger!Accounted
  <2>3. QED
    BY <2>1, <2>2 DEF this
<1> HIDE DEF moved, item
<1>5. x \in Rows /\ x.item = moved /\ x.history = mine[p].history /\ x.phase = mine[p].phase
  BY <1>1, <1>3 DEF Rows
<1> HIDE DEF x
<1>6. RowLogged(mine[p], logs', all') /\ IsTrue(row)' /\ IsTrue(cached)'
  BY <1>1, <1>4, TruthStays DEF IsTrue
<1>7. x # Ledger!Unread /\ RowLogged(x, logs', all')
  <2>1. mine[p] # Ledger!NoRow
    BY <1>1, EmptyRows DEF item
  <2>2. x # Ledger!Unread
    BY <1>3, <1>5, EmptyRows DEF Ledger!Unread, Ledger!Start
  <2>3. QED
    BY <1>1, <1>3, <1>4, <1>5, <1>6, <2>1, <2>2 DEF RowLogged
<1>8. HasInHand(p, y, x)
  BY <1>1, <1>3, <1>5 DEF HasInHand
<1>9. y \in Places /\ row' \in Rows /\ cached' \in Rows /\ row' # Ledger!Unread
  BY <1>1 DEF Places
<1>10. QED
  BY <1>1, <1>2, <1>4, <1>5, <1>6, <1>7, <1>8, <1>9, LedgerOthers

\* A process reads the row and gives it an item.
LEMMA LedgerReads ==
    ASSUME LedgerAssumption, LedgerInv, NEW p \in Process,
           Ledger!cmd_phase_advance(p) \/ Ledger!ensure_work_item(p)
    PROVE  LedgerInv'
<1> DEFINE logs == Ledger!Range(events)
           all == Ledger!Accounted
<1>1. /\ p \in Ledger!Writer /\ p \notin Thread /\ mine[p] \in Rows /\ IsTrue(mine[p])
      /\ mine[p] # Ledger!Unread /\ ItemLogged(mine[p].item, all) /\ moves \in Nat
      /\ row \in Rows /\ IsTrue(row) /\ row # Ledger!Unread /\ cached \in Rows /\ IsTrue(cached)
  BY ProcessKnows
<1>2. CASE Ledger!cmd_phase_advance(p)
  <2>1. mine' = [mine EXCEPT ![p] = row] /\ writer' = [writer EXCEPT ![p] = "ensure"]
        /\ UNCHANGED <<row, events, cached, untold, moves>>
    BY <1>2 DEF Ledger!cmd_phase_advance
  <2>2. HasInHand(p, "ensure", row) /\ "ensure" \in Places
    BY <1>1 DEF HasInHand, Places
  <2>3. QED
    BY <1>1, <2>1, <2>2, LedgerQuiet DEF IsTrue
<1>3. CASE Ledger!ensure_work_item(p)
  <2>1. writer' = [writer EXCEPT ![p] = "advance"] /\ UNCHANGED <<events, cached, untold, moves>>
    BY <1>3 DEF Ledger!ensure_work_item
  <2>2. CASE mine[p].item # Ledger!NoItem
    <3>1. UNCHANGED <<row, mine>>
      BY <1>3, <2>2 DEF Ledger!ensure_work_item
    <3>2. HasInHand(p, "advance", mine[p]) /\ "advance" \in Places
      BY <1>1, <2>2 DEF HasInHand, Places
    <3>3. QED
      BY <1>1, <2>1, <3>1, <3>2, LedgerQuiet DEF IsTrue
  <2>3. CASE mine[p].item = Ledger!NoItem
    <3> DEFINE item == [phase |-> "PLAN", history |-> << >>]
               mirror == Ledger!save_work_item(mine[p], item)
    <3>1. row' = mirror /\ mine' = [mine EXCEPT ![p] = row']
      BY <1>3, <2>3 DEF Ledger!ensure_work_item
    <3>2. item \in Items /\ item # Ledger!NoItem
      BY EmptySeq DEF Items, Ledger!Phase, Ledger!NoItem
    <3>3. ItemLogged(item, all)
      <4>1. Ledger!Range(<< >>) = {} /\ 1 .. Len(<< >>) - 1 = {}
        BY DEF Ledger!Range
      <4>2. QED
        BY <4>1 DEF ItemLogged, Ledger!IsChain
    <3> HIDE DEF item
    <3>4. mirror \in Rows /\ RowLogged(mirror, logs, all) /\ mirror # Ledger!Unread
          /\ mirror.item = item
      BY <1>1, <3>2, <3>3, RowMirrors DEF IsTrue
    <3> HIDE DEF mirror
    <3>5. HasInHand(p, "advance", mirror) /\ "advance" \in Places
      BY <1>1, <3>2, <3>4 DEF HasInHand, Places
    <3>6. QED
      BY <1>1, <2>1, <3>1, <3>4, <3>5, LedgerQuiet DEF IsTrue
  <2>4. QED
    BY <2>2, <2>3
<1>4. QED
  BY <1>2, <1>3

\* A process saves, is blocked or gives up, or a cycle replaces the row.
LEMMA LedgerWrites ==
    ASSUME LedgerAssumption, LedgerInv, NEW p \in Process, NEW target,
           \/ Ledger!Save(p) \/ Ledger!GiveUp(p) \/ Ledger!Replace(p)
           \/ Ledger!Blocked(p, target) \/ Ledger!Disallowed(p, target)
    PROVE  LedgerInv'
<1> DEFINE logs == Ledger!Range(events)
           all == Ledger!Accounted
<1>1. /\ p \in Ledger!Writer /\ p \notin Thread /\ mine[p] \in Rows /\ IsTrue(mine[p])
      /\ mine[p].item \in Items /\ mine[p] # Ledger!Unread /\ ItemLogged(mine[p].item, all)
      /\ row \in Rows /\ IsTrue(row) /\ row # Ledger!Unread /\ cached \in Rows /\ IsTrue(cached)
      /\ moves \in Nat /\ writer[p] \in Places
      /\ writer[p] \in {"advance", "climb", "save"} => mine[p].item # Ledger!NoItem
      /\ writer[p] = "climb" => mine[p].item.phase \in Rungs
  BY ProcessKnows DEF HasInHand
<1>2. CASE Ledger!Save(p)
  <2> DEFINE mirror == Ledger!save_work_item(mine[p], mine[p].item)
  <2>1. /\ row' = mirror /\ UNCHANGED <<events, cached, untold, moves>>
        /\ mine[p].item # Ledger!NoItem /\ Ledger!End(p)
    BY <1>1, <1>2 DEF Ledger!Save
  <2>2. mirror \in Rows /\ RowLogged(mirror, logs, all) /\ mirror # Ledger!Unread
    BY <1>1, <2>1, RowMirrors DEF IsTrue
  <2> HIDE DEF mirror
  <2>3. QED
    BY <1>1, <2>1, <2>2, LedgerEnds DEF IsTrue
<1>3. CASE Ledger!GiveUp(p) \/ Ledger!Blocked(p, target)
  <2>1. /\ writer[p] \in {"advance", "climb"} /\ writer' = [writer EXCEPT ![p] = "save"]
        /\ UNCHANGED <<row, events, cached, untold, mine, moves>>
    BY <1>3 DEF Ledger!GiveUp, Ledger!Blocked
  <2>2. HasInHand(p, "save", mine[p]) /\ "save" \in Places
    BY <1>1, <2>1 DEF HasInHand, Places
  <2>3. QED
    BY <1>1, <2>1, <2>2, LedgerQuiet DEF IsTrue
<1>4. CASE Ledger!Disallowed(p, target)
  BY <1>1, <1>4, LedgerEnds DEF Ledger!Disallowed, IsTrue
<1>5. CASE Ledger!Replace(p)
  <2> DEFINE x == [Ledger!Start EXCEPT !.item = mine[p].item]
  <2>1. /\ row' = Ledger!Start /\ mine' = [mine EXCEPT ![p] = x]
        /\ UNCHANGED <<events, cached, untold, writer, moves>>
        /\ writer[p] \in {"climb", "save"}
    BY <1>5 DEF Ledger!Replace
  <2>2. x = [phase |-> "PLAN", history |-> << >>, item |-> mine[p].item]
    BY DEF Ledger!Start
  <2> HIDE DEF x
  <2>3. x \in Rows /\ x.item = mine[p].item /\ x.phase = "PLAN" /\ x.history = << >>
    BY <1>1, <2>2, EmptySeq DEF Rows, Ledger!Phase
  <2>4. Ledger!Range(<< >>) = {}
    BY DEF Ledger!Range
  <2>5. RowLogged(x, logs, all) /\ x # Ledger!Unread
    BY <1>1, <2>3, <2>4, EmptyRows DEF RowLogged, Ledger!Phase
  <2>6. HasInHand(p, writer[p], x)
    BY <1>1, <2>1, <2>3 DEF HasInHand
  <2>7. QED
    BY <1>1, <2>1, <2>3, <2>5, <2>6, EmptyRows, LedgerQuiet DEF IsTrue
<1>6. QED
  BY <1>2, <1>3, <1>4, <1>5

\* A command moves to the phase asked for, a cycle to the next rung.
LEMMA LedgerAdvances ==
    ASSUME LedgerAssumption, LedgerInv, NEW p \in Process,
           \/ \E target \in Target, how \in {"gated", "forced"} : Ledger!Command(p, target, how)
           \/ Ledger!Climb(p) \/ Ledger!AppendFails(p)
    PROVE  LedgerInv'
<1>1. /\ p \in Ledger!Writer /\ moves \in Nat /\ Target \subseteq Ledger!Phase
      /\ writer[p] = "climb" => mine[p].item.phase \in Rungs
  BY ProcessKnows DEF HasInHand, LedgerAssumption
<1>2. ASSUME NEW target \in Target, NEW how \in {"gated", "forced"},
             Ledger!Command(p, target, how)
      PROVE  LedgerInv'
  <2>1. /\ writer[p] = "advance" /\ writer' = [writer EXCEPT ![p] = "save"]
        /\ Ledger!Moved(p, target, how) /\ UNCHANGED <<row, cached, untold>> /\ moves' \in Nat
        /\ events' = Append(events, <<mine[p].item.phase, target, how>>)
    BY <1>1, <1>2 DEF Ledger!Command, Ledger!Advance
  <2>2. target \in Ledger!Phase
    BY <1>1
  <2>3. QED
    BY <1>1, <2>1, <2>2, LedgerMovesItem
<1>3. CASE Ledger!Climb(p)
  <2>1. UNCHANGED <<row, cached, moves>>
    BY <1>3 DEF Ledger!Climb
  <2>2. ASSUME NEW how \in {"gated", "forced"}, writer[p] = "advance",
               Ledger!Advance(p, "ARCHITECT", how), writer' = [writer EXCEPT ![p] = "climb"]
        PROVE  LedgerInv'
    BY <1>1, <2>1, <2>2, LedgerMovesItem DEF Ledger!Advance, Ledger!Phase, Rungs
  <2> DEFINE target == Ledger!Rung[mine[p].item.phase]
             y == IF target = "OPERATE" THEN "save" ELSE "climb"
  <2>3. ASSUME writer[p] = "climb", Ledger!Advance(p, target, "gated"),
               writer' = [writer EXCEPT ![p] = y]
        PROVE  LedgerInv'
    <3>1. target \in Ledger!Phase /\ (target = "OPERATE" \/ target \in Rungs)
      BY <1>1, <2>3 DEF Rungs, Ledger!Rung, Ledger!Phase
    <3>2. y \in {"climb", "save"} /\ (y = "climb" => target \in Rungs)
      BY <3>1
    <3> HIDE DEF y, target
    <3>3. QED
      BY <1>1, <2>1, <2>3, <3>1, <3>2, LedgerMovesItem DEF Ledger!Advance
  <2>4. QED
    BY <1>3, <2>2, <2>3 DEF Ledger!Climb
<1>4. CASE Ledger!AppendFails(p)
  <2>1. /\ writer[p] = "climb" /\ writer' = [writer EXCEPT ![p] = "save"]
        /\ Ledger!Moved(p, "OPERATE", "gated") /\ UNCHANGED <<row, events, cached, moves>>
        /\ untold' = untold \cup {LastMove}
        /\ <<mine[p].item.phase, "OPERATE", "gated">> = LastMove
    BY <1>4 DEF Ledger!AppendFails, LastMove
  <2>2. "OPERATE" \in Ledger!Phase
    BY DEF Ledger!Phase
  <2>3. QED
    BY <1>1, <2>1, <2>2, LedgerMovesItem
<1>5. QED
  BY <1>2, <1>3, <1>4

\* advance_phase() appends its move to the root of the row it has cached.
LEMMA LedgerRequest ==
    ASSUME LedgerAssumption, LedgerInv, NEW t \in Thread, NEW target \in Target,
           Ledger!advance_phase(t, target)
    PROVE  LedgerInv'
<1> DEFINE r == IF cached = Ledger!Unread THEN row ELSE cached
           this == <<r.phase, target, "web">>
           x == [r EXCEPT !.phase = target, !.history = Append(@, this)]
           logs == Ledger!Range(events)
           all == Ledger!Accounted
<1>1. t \in Ledger!Writer /\ t \notin Process /\ target \in Ledger!Phase
  BY DEF Ledger!Writer, LedgerAssumption
<1>2. /\ row \in Rows /\ IsTrue(row) /\ row # Ledger!Unread
      /\ r \in Rows /\ IsTrue(r) /\ r # Ledger!Unread
      /\ events \in Seq(Ledger!Move) /\ mine \in [Ledger!Writer -> Rows]
      /\ mine[t] \in Rows /\ mine[t] # Ledger!Unread /\ IsTrue(mine[t])
      /\ untold \subseteq {LastMove}
  BY <1>1 DEF LedgerInv
<1>3. cached' = r /\ row' = row /\ untold' = untold /\ moves' \in Nat /\ writer[t] = "idle"
  BY DEF Ledger!advance_phase, LedgerInv
<1>4. CASE /\ r # Ledger!NoRow /\ Ledger!can_advance(r.phase, target)
           /\ events' = Append(events, this) /\ mine' = [mine EXCEPT ![t] = x]
           /\ writer' = [writer EXCEPT ![t] = "save"]
  <2>1. r.phase \in Ledger!Phase
    BY <1>2, <1>4 DEF IsTrue, RowLogged
  <2>2. this \in Ledger!Move /\ this[1] = r.phase /\ this[2] = target /\ this[3] = "web"
    BY <1>1, <2>1 DEF Ledger!Move, Ledger!How
  <2> HIDE DEF this
  <2>3. events' \in Seq(Ledger!Move) /\ logs' = logs \cup {this} /\ all' = all \cup {this}
    <3>1. events' \in Seq(Ledger!Move) /\ Ledger!Range(events') = Ledger!Range(events) \cup {this}
      BY <1>2, <1>4, <2>2, LoggedMove
    <3>2. QED
      BY <1>3, <3>1 DEF Ledger!Accounted
  <2>4. RowLogged(r, logs', all') /\ RowLogged(row, logs', all')
    BY <1>2, <1>3, <2>3, TruthStays
  <2>5. r.history \in Seq(Ledger!Move)
    BY <1>2 DEF Rows
  <2> DEFINE h == Append(r.history, this)
  <2>6. h \in Seq(Ledger!Move) /\ Ledger!Range(h) = Ledger!Range(r.history) \cup {this}
    BY <2>2, <2>5, LoggedMove
  <2>7. /\ x \in Rows /\ x.phase = target /\ x.history = h /\ x.item = r.item
    <3> HIDE DEF r
    <3> DEFINE d == [r EXCEPT !.phase = target]
               e == [d EXCEPT !.history = h]
    <3>1. d \in Rows /\ d.phase = target /\ d.item = r.item
      BY <1>1, <1>2 DEF Rows
    <3>2. x = e
      BY <1>2 DEF Rows
    <3> HIDE DEF d, h
    <3>3. e \in Rows /\ e.phase = d.phase /\ e.item = d.item /\ e.history = h
      BY <2>6, <3>1 DEF Rows
    <3> HIDE DEF e, x
    <3>4. QED
      BY <3>1, <3>2, <3>3
  <2> HIDE DEF x, h, r
  <2>8. RowLogged(x, logs', all')
    <3>1. Ledger!Range(h) \subseteq {m \in logs' : m[3] = "web" /\ Ledger!can_advance(m[1], m[2])}
      BY <1>2, <1>4, <2>2, <2>3, <2>6 DEF IsTrue, RowLogged
    <3>2. \E m \in all' : m[2] = target
      BY <2>2, <2>3
    <3>3. QED
      BY <1>1, <2>4, <2>7, <3>1, <3>2 DEF RowLogged
  <2>9. x # Ledger!Unread /\ x # Ledger!NoRow
    BY <1>1, <2>7, EmptyRows DEF Ledger!Phase
  <2>10. HasInHand(t, "save", x) /\ "save" \in Places
    BY <1>1, <2>9 DEF HasInHand, Places
  <2>11. IsTrue(row)' /\ IsTrue(cached)'
    BY <1>3, <2>4 DEF IsTrue
  <2>12. row' \in Rows /\ row' # Ledger!Unread /\ cached' \in Rows /\ logs \subseteq logs'
    BY <1>2, <1>3, <2>3
  <2>13. QED
    BY <1>1, <1>2, <1>3, <1>4, <2>3, <2>7, <2>8, <2>9, <2>10, <2>11, <2>12, LedgerOthers
<1>5. CASE writer' = [writer EXCEPT ![t] = "done"] /\ UNCHANGED <<events, mine>>
  <2> HIDE DEF r
  <2>1. HasInHand(t, "done", mine[t]) /\ "done" \in Places
    BY <1>1 DEF HasInHand, Places
  <2>2. QED
    BY <1>1, <1>2, <1>3, <1>5, <2>1, LedgerQuiet DEF IsTrue
<1>6. QED
  BY <1>4, <1>5 DEF Ledger!advance_phase

\* Every step of the engine, of the CLI and of the web router keeps it.
LEMMA LedgerStep ==
    ASSUME LedgerAssumption, LedgerInv, [Ledger!Next]_(Ledger!ledgerVars)
    PROVE  LedgerInv'
<1>1. CASE UNCHANGED Ledger!ledgerVars
  BY <1>1 DEF Ledger!ledgerVars, LedgerInv, IsTrue, Ledger!Accounted
<1>2. CASE Ledger!SetTask
  BY <1>2, EmptyRows DEF Ledger!SetTask, LedgerInv, IsTrue, Ledger!Accounted
<1>3. ASSUME NEW t \in Thread, Ledger!SaveTask(t) PROVE LedgerInv'
  <2>1. /\ t \in Ledger!Writer /\ writer[t] = "save" /\ row' = mine[t] /\ cached' = mine[t]
        /\ Ledger!End(t) /\ UNCHANGED <<events, untold, moves>>
    BY <1>3 DEF Ledger!SaveTask, Ledger!Writer
  <2>2. mine[t] \in Rows /\ IsTrue(mine[t]) /\ mine[t] # Ledger!Unread
    BY <2>1 DEF LedgerInv
  <2>3. QED
    BY <2>1, <2>2, LedgerEnds DEF IsTrue
<1>4. ASSUME NEW w \in Ledger!Writer, Ledger!Die(w) PROVE LedgerInv'
  <2>1. row \in Rows /\ IsTrue(row) /\ row # Ledger!Unread /\ cached \in Rows /\ IsTrue(cached)
    BY DEF LedgerInv
  <2>2. QED
    BY <1>4, <2>1, LedgerEnds DEF Ledger!Die, IsTrue
<1>5. ASSUME NEW p \in Process,
             \/ Ledger!cmd_phase_advance(p) \/ Ledger!ensure_work_item(p) \/ Ledger!Save(p)
             \/ Ledger!Climb(p) \/ Ledger!AppendFails(p) \/ Ledger!GiveUp(p) \/ Ledger!Replace(p)
             \/ \E target \in Target :
                  \/ \E how \in {"gated", "forced"} : Ledger!Command(p, target, how)
                  \/ Ledger!Blocked(p, target) \/ Ledger!Disallowed(p, target)
      PROVE  LedgerInv'
  BY <1>5, LedgerReads, LedgerWrites, LedgerAdvances
<1>6. CASE Ledger!Next
  BY <1>2, <1>3, <1>4, <1>5, <1>6, LedgerRequest DEF Ledger!Next
<1>7. QED
  BY <1>1, <1>6

\* Every phase that is shown was logged, or is the last of a cycle.
LEMMA LedgerTrue == LedgerInv => Ledger!TypeOK /\ Ledger!LedgersAreLogged
<1> SUFFICES ASSUME LedgerInv PROVE Ledger!TypeOK /\ Ledger!LedgersAreLogged
  OBVIOUS
<1> USE DEF LedgerInv, IsTrue
<1>1. \A r \in Rows : Ledger!IsRow(r)
  BY DEF Rows, Items, Ledger!IsRow
<1>2. LastMove \in Ledger!Move
  BY DEF LastMove, Ledger!Move, Ledger!Phase, Ledger!How
<1>3. Ledger!TypeOK
  BY <1>1, <1>2 DEF Ledger!TypeOK, Places
<1>4. row # Ledger!NoRow =>
         /\ Ledger!Range(row.history) \subseteq
              {m \in Ledger!Range(events) : m[3] = "web" /\ Ledger!can_advance(m[1], m[2])}
         /\ row.item # Ledger!NoItem =>
              /\ Ledger!Range(row.item.history) \subseteq Ledger!Accounted
              /\ Ledger!IsChain(row.item.history, row.item.phase)
              /\ \A m \in Ledger!Range(row.item.history) :
                   Ledger!can_advance(m[1], m[2]) \/ m[3] = "forced"
         /\ Ledger!Reached(row.phase)
  BY DEF RowLogged, ItemLogged, Ledger!Reached
<1>5. Ledger!Range(cached.history) \subseteq Ledger!Range(events)
  BY DEF RowLogged
<1>6. cached.phase \in Ledger!Phase => Ledger!Reached(cached.phase)
  BY EmptyRows DEF RowLogged, Ledger!Phase, Ledger!Reached
<1>7. untold \subseteq {<<"GOVERN", "OPERATE", "gated">>}
  BY DEF LastMove
<1>8. QED
  BY <1>3, <1>4, <1>5, <1>6, <1>7 DEF Ledger!LedgersAreLogged, Ledger!get_task_history,
                               Ledger!get_phase_status
-------------------------------------------------------------------------------
(* The live event stream.                                                    *)

\* A step of the whole is a step of this component, or leaves it alone.
LEMMA DashboardMoves == [Next]_vars => [Dashboard!Next]_(Dashboard!dashboardVars)
BY DEF Next, Alone, vars, dashboardVars, Dashboard!dashboardVars

Events == Seq(1 .. MaxEvents)
Pages == [step : {"idle", "loaded", "answered"}, offset : Nat, events : Events,
          total : 0 .. MaxEvents + 1]

DashboardTypes ==
    /\ log \in Seq(0 .. MaxEvents) /\ half \in BOOLEAN
    /\ Len(log) <= MaxEvents /\ (half => Len(log) < MaxEvents)
    /\ position \in Nat /\ fed \in Nat /\ position <= Len(log) /\ fed <= Len(log)
    /\ feed \in {"running", "raised", "stopped"}
    /\ client \in [Client -> {"none", "registered", "streaming", "leaked", "gone"}]
    /\ joined \in [Client -> Nat]
    /\ queue \in [Client -> Events] /\ sent \in [Client -> Events]
    /\ page \in [Thread -> Pages]

\* A line of the log is the event of its number, or malformed.
LogNumbers ==
    /\ \A i \in 1 .. Len(log) : log[i] = i \/ log[i] = 0
    /\ \A i \in 1 .. fed : log[i] = i
    /\ feed = "running" => position = fed

\* What a client was sent and what waits for it, from the one after joined on.
Stream(c) ==
    /\ joined[c] + Len(sent[c]) + Len(queue[c]) <= fed
    /\ \A k \in 1 .. Len(sent[c]) : sent[c][k] = joined[c] + k
    /\ \A k \in 1 .. Len(queue[c]) : queue[c][k] = joined[c] + Len(sent[c]) + k
    /\ Dashboard!InClients(c) => joined[c] + Len(sent[c]) + Len(queue[c]) = fed
    /\ client[c] = "none" => Len(sent[c]) = 0 /\ Len(queue[c]) = 0

PageFits(r) ==
    /\ page[r].step = "loaded" =>
         page[r].events = << >> \/ Len(log) >= page[r].offset + Len(page[r].events)
    /\ page[r].step = "answered" =>
         \/ page[r].events = << >> \/ page[r].total = 0
         \/ page[r].total >= page[r].offset + Len(page[r].events)

DashboardInv ==
    /\ DashboardTypes /\ LogNumbers
    /\ \A c \in Client : Stream(c)
    /\ \A r \in Thread : PageFits(r)

\* Nothing is logged yet.
LEMMA DashboardInit == DashboardAssumption /\ Dashboard!Init => DashboardInv
<1> SUFFICES ASSUME DashboardAssumption, Dashboard!Init PROVE DashboardInv
  OBVIOUS
<1>1. << >> \in Events /\ << >> \in Seq(0 .. MaxEvents) /\ Len(<< >>) = 0
  BY EmptySeq DEF Events
<1>2. Dashboard!NoPage \in Pages /\ Dashboard!NoPage.step = "idle"
  BY <1>1 DEF Dashboard!NoPage, Pages, DashboardAssumption
<1>3. DashboardTypes
  <2>1. joined \in [Client -> Nat] /\ queue \in [Client -> Events] /\ sent \in [Client -> Events]
        /\ page \in [Thread -> Pages]
    BY <1>1, <1>2 DEF Dashboard!Init
  <2>2. client \in [Client -> {"none", "registered", "streaming", "leaked", "gone"}]
        /\ log = << >> /\ half = FALSE /\ position = 0 /\ fed = 0 /\ feed = "running"
    BY DEF Dashboard!Init
  <2>3. log \in Seq(0 .. MaxEvents) /\ Len(log) = 0
    BY <1>1, <2>2
  <2>4. QED
    <3>1. position \in Nat /\ fed \in Nat /\ position <= Len(log) /\ fed <= Len(log)
          /\ Len(log) <= MaxEvents
      BY <2>2, <2>3 DEF DashboardAssumption
    <3>2. QED
      BY <2>1, <2>2, <2>3, <3>1 DEF DashboardTypes
<1>4. LogNumbers
  BY <1>1 DEF Dashboard!Init, LogNumbers
<1>5. QED
  BY <1>1, <1>2, <1>3, <1>4 DEF Dashboard!Init, DashboardInv, Stream, PageFits

\* What a client was sent and what waits for it is the log since it was
\* registered.
LEMMA DashboardTrue ==
    DashboardAssumption /\ DashboardInv => Dashboard!TypeOK /\ Dashboard!StreamIsTheLog
<1> SUFFICES ASSUME DashboardAssumption, DashboardInv
             PROVE  Dashboard!TypeOK /\ Dashboard!StreamIsTheLog
  OBVIOUS
<1>1. Len(log) \in Nat /\ log \in [1 .. Len(log) -> 0 .. MaxEvents]
  BY LenProperties DEF DashboardInv, DashboardTypes
<1>2. ASSUME NEW c \in Client
      PROVE  /\ joined[c] \in 0 .. MaxEvents
             /\ joined[c] + Len(sent[c] \o queue[c]) <= fed
             /\ sent[c] \o queue[c] =
                  SubSeq(log, joined[c] + 1, joined[c] + Len(sent[c] \o queue[c]))
             /\ Dashboard!InClients(c) => joined[c] + Len(sent[c] \o queue[c]) = fed
  <2>1. /\ sent[c] \in Seq(1 .. MaxEvents) /\ queue[c] \in Seq(1 .. MaxEvents)
        /\ joined[c] \in Nat /\ fed \in Nat /\ MaxEvents \in Nat /\ log \in Seq(0 .. MaxEvents)
        /\ fed <= Len(log) /\ Len(log) <= MaxEvents
    BY DEF DashboardInv, DashboardTypes, Events, DashboardAssumption
  <2>2. Stream(c) /\ \A i \in 1 .. fed : log[i] = i
    BY DEF DashboardInv, LogNumbers
  <2>3. fed <= MaxEvents
    BY <1>1, <2>1
  <2>4. /\ joined[c] + Len(sent[c]) + Len(queue[c]) <= fed
        /\ \A k \in 1 .. Len(sent[c]) : sent[c][k] = joined[c] + k
        /\ \A k \in 1 .. Len(queue[c]) : queue[c][k] = joined[c] + Len(sent[c]) + k
    BY <2>2 DEF Stream
  <2>5. sent[c] \o queue[c] = SubSeq(log, joined[c] + 1, joined[c] + Len(sent[c] \o queue[c]))
    <3>1. /\ \A i \in 1 .. fed : log[i] = i
          /\ \A k \in 1 .. Len(sent[c]) : sent[c][k] = joined[c] + k
          /\ \A k \in 1 .. Len(queue[c]) : queue[c][k] = joined[c] + Len(sent[c]) + k
      BY <2>2, <2>4
    <3> DEFINE s == sent[c]
               q == queue[c]
               j == joined[c]
    <3>2. /\ s \in Seq(1 .. MaxEvents) /\ q \in Seq(1 .. MaxEvents) /\ j \in Nat
          /\ j + Len(s) + Len(q) <= fed /\ \A k \in 1 .. Len(s) : s[k] = j + k
          /\ \A k \in 1 .. Len(q) : q[k] = j + Len(s) + k
      BY <2>1, <2>4
    <3> HIDE DEF s, q, j
    <3>3. s \o q = SubSeq(log, j + 1, j + Len(s \o q))
      BY <2>1, <2>3, <3>1, <3>2, StreamIsPart
    <3>4. QED
      BY <3>3 DEF s, q, j
  <2>6. /\ Len(sent[c] \o queue[c]) = Len(sent[c]) + Len(queue[c])
        /\ Len(sent[c]) \in Nat /\ Len(queue[c]) \in Nat
    BY <2>1, ConcatProperties, LenProperties
  <2>7. joined[c] + Len(sent[c] \o queue[c]) = joined[c] + Len(sent[c]) + Len(queue[c])
    <3>1. PICK x \in Nat, y \in Nat, z \in Nat :
                x = joined[c] /\ y = Len(sent[c]) /\ z = Len(queue[c])
      BY <2>1, <2>6
    <3>2. Len(sent[c] \o queue[c]) = y + z
      BY <2>6, <3>1
    <3>3. x + (y + z) = x + y + z
      OBVIOUS
    <3>4. QED
      BY <3>1, <3>2, <3>3
  <2>8. joined[c] \in 0 .. MaxEvents
    BY <2>1, <2>3, <2>4, <2>6
  <2>9. QED
    BY <2>2, <2>5, <2>7, <2>8 DEF Stream
<1>3. Dashboard!TypeOK
  BY <1>1, <1>2 DEF DashboardInv, DashboardTypes, Dashboard!TypeOK, Pages, Events
<1>4. Dashboard!StreamIsTheLog
  BY <1>2 DEF DashboardInv, LogNumbers, PageFits, Dashboard!StreamIsTheLog
<1>5. QED
  BY <1>3, <1>4

\* An event, or what is left of one, is appended: what was read stays true.
LEMMA DashboardAppends ==
    DashboardAssumption /\ DashboardInv /\ (Dashboard!locked_append \/ Dashboard!Complete)
        => DashboardInv'
<1> SUFFICES ASSUME DashboardAssumption, DashboardInv,
                    Dashboard!locked_append \/ Dashboard!Complete
             PROVE  DashboardInv'
  OBVIOUS
<1>1. /\ log \in Seq(0 .. MaxEvents) /\ Len(log) \in Nat /\ MaxEvents \in Nat
      /\ fed \in Nat /\ position \in Nat /\ fed <= Len(log) /\ position <= Len(log)
      /\ Len(log) <= MaxEvents
  BY LenProperties DEF DashboardInv, DashboardTypes, DashboardAssumption
<1>2. UNCHANGED <<position, fed, feed, client, joined, queue, sent, page>>
  BY DEF Dashboard!locked_append, Dashboard!Complete, Dashboard!Quiet
<1>3. \/ log' = log /\ half' = TRUE /\ Len(log) < MaxEvents
      \/ /\ Len(log) < MaxEvents /\ half' = FALSE
         /\ \E e \in {Len(log) + 1, 0} : log' = Append(log, e)
  BY <1>1 DEF Dashboard!locked_append, Dashboard!Complete, Dashboard!Malformed, DashboardInv,
     DashboardTypes
<1>4. /\ log' \in Seq(0 .. MaxEvents) /\ half' \in BOOLEAN
      /\ Len(log') \in Nat /\ Len(log) <= Len(log') /\ Len(log') <= MaxEvents
      /\ (half' => Len(log') < MaxEvents)
      /\ \A i \in 1 .. Len(log) : log'[i] = log[i]
      /\ \A i \in 1 .. Len(log') : log'[i] = i \/ log'[i] = 0
  <2>1. \A i \in 1 .. Len(log) : log[i] = i \/ log[i] = 0
    BY DEF DashboardInv, LogNumbers
  <2>2. CASE log' = log /\ half' = TRUE /\ Len(log) < MaxEvents
    BY <1>1, <2>1, <2>2
  <2>3. ASSUME NEW e \in {Len(log) + 1, 0}, log' = Append(log, e), half' = FALSE,
               Len(log) < MaxEvents
        PROVE  /\ log' \in Seq(0 .. MaxEvents) /\ Len(log') = Len(log) + 1
               /\ \A i \in 1 .. Len(log) : log'[i] = log[i]
               /\ log'[Len(log) + 1] = e
    <3>1. e \in 0 .. MaxEvents
      BY <1>1, <2>3
    <3>2. QED
      BY <1>1, <2>3, <3>1, AppendProperties
  <2>4. ASSUME NEW e \in {Len(log) + 1, 0}, log' = Append(log, e), half' = FALSE,
               Len(log) < MaxEvents
        PROVE  \A i \in 1 .. Len(log') : log'[i] = i \/ log'[i] = 0
    <3>1. ASSUME NEW i \in 1 .. Len(log) + 1 PROVE log'[i] = i \/ log'[i] = 0
      <4>1. i \in 1 .. Len(log) \/ i = Len(log) + 1
        BY <1>1
      <4>2. QED
        BY <2>1, <2>3, <2>4, <4>1
    <3>2. QED
      BY <2>3, <2>4, <3>1
  <2>5. ASSUME NEW e \in {Len(log) + 1, 0}, log' = Append(log, e), half' = FALSE,
               Len(log) < MaxEvents
        PROVE  Len(log') \in Nat /\ Len(log) <= Len(log') /\ Len(log') <= MaxEvents
    <3>1. Len(log') = Len(log) + 1
      BY <2>3, <2>5
    <3>2. QED
      BY <1>1, <2>5, <3>1
  <2>6. QED
    BY <1>3, <2>2, <2>3, <2>4, <2>5
<1>5. DashboardTypes'
  <2>1. position <= Len(log') /\ fed <= Len(log')
    BY <1>1, <1>4
  <2>2. QED
    BY <1>2, <1>4, <2>1 DEF DashboardInv, DashboardTypes
<1>6. LogNumbers'
  <2>1. ASSUME NEW i \in 1 .. fed PROVE log'[i] = i
    <3>1. i \in 1 .. Len(log)
      BY <1>1
    <3>2. QED
      BY <1>4, <3>1 DEF DashboardInv, LogNumbers
  <2>2. QED
    BY <1>2, <1>4, <2>1 DEF DashboardInv, LogNumbers
<1>7. ASSUME NEW c \in Client PROVE Stream(c)'
  BY <1>2 DEF DashboardInv, Stream, Dashboard!InClients
<1>8. ASSUME NEW r \in Thread PROVE PageFits(r)'
  <2>1. PageFits(r) /\ page' = page /\ page[r].offset \in Nat /\ Len(page[r].events) \in Nat
    BY <1>2, LenProperties DEF DashboardInv, DashboardTypes, Pages, Events
  <2>2. QED
    BY <1>1, <1>4, <2>1 DEF PageFits
<1>9. QED
  BY <1>5, <1>6, <1>7, <1>8 DEF DashboardInv

\* The part of the log that a poll hands over continues every open stream.
LEMMA DashboardTails ==
    DashboardAssumption /\ DashboardInv /\ Dashboard!tail => DashboardInv'
<1> SUFFICES ASSUME DashboardAssumption, DashboardInv, Dashboard!tail PROVE DashboardInv'
  OBVIOUS
<1> DEFINE n == Len(log)
           new == SubSeq(log, position + 1, n)
<1>1. /\ log \in Seq(0 .. MaxEvents) /\ n \in Nat /\ MaxEvents \in Nat
      /\ log \in [1 .. n -> 0 .. MaxEvents]
      /\ fed \in Nat /\ position = fed /\ fed <= n /\ n <= MaxEvents
  BY LenProperties DEF DashboardInv, DashboardTypes, DashboardAssumption, LogNumbers,
     Dashboard!tail
<1>2. PICK good \in 0 .. Len(new) :
        /\ \A i \in 1 .. good : new[i] # 0
        /\ Dashboard!broadcast(SubSeq(new, 1, good)) /\ fed' = fed + good
        /\ \/ good = Len(new) /\ position' = n /\ UNCHANGED feed
           \/ feed' = "raised" /\ UNCHANGED position
  BY DEF Dashboard!tail, Dashboard!Malformed
<1>3. UNCHANGED <<log, half, client, joined, sent, page>>
  BY DEF Dashboard!tail
<1>4. /\ new \in Seq(0 .. MaxEvents) /\ Len(new) = n - fed
      /\ \A i \in 1 .. n - fed : new[i] = log[fed + i]
  <2>1. \A i \in fed + 1 .. n : log[i] \in 0 .. MaxEvents
    BY <1>1
  <2>2. /\ new \in Seq(0 .. MaxEvents)
        /\ Len(new) = IF fed + 1 <= n THEN n - (fed + 1) + 1 ELSE 0
        /\ \A i \in 1 .. n - (fed + 1) + 1 : new[i] = log[fed + 1 + i - 1]
    BY <1>1, <2>1, SubSeqProperties
  <2> HIDE DEF new, n
  <2>3. n - (fed + 1) + 1 = n - fed /\ (~(fed + 1 <= n) => n - fed = 0)
    BY <1>1
  <2>4. ASSUME NEW i \in 1 .. n - fed PROVE new[i] = log[fed + i]
    <3>1. fed + 1 + i - 1 = fed + i
      BY <1>1
    <3>2. QED
      BY <2>2, <2>3, <3>1
  <2>5. QED
    BY <2>2, <2>3, <2>4
<1> DEFINE batch == SubSeq(new, 1, good)
<1> HIDE DEF new, n, batch
<1>5. good \in Nat /\ fed + good <= n
  BY <1>1, <1>4
<1>6. ASSUME NEW i \in 1 .. good PROVE new[i] = fed + i /\ fed + i \in 1 .. n
  <2>1. PICK k \in 1 .. n : k = fed + i
    BY <1>1, <1>5
  <2>2. log[k] = k \/ log[k] = 0
    BY DEF DashboardInv, LogNumbers, n
  <2>3. new[i] = log[k] /\ new[i] # 0
    BY <1>1, <1>2, <1>4, <1>5, <2>1
  <2>4. QED
    BY <2>1, <2>2, <2>3
<1>7. /\ batch \in Events /\ Len(batch) = good
      /\ \A k \in 1 .. good : batch[k] = fed + k
  <2>1. \A i \in 1 .. good : new[i] \in 1 .. MaxEvents
    BY <1>1, <1>6
  <2>2. /\ batch \in Seq(1 .. MaxEvents) /\ Len(batch) = IF 1 <= good THEN good - 1 + 1 ELSE 0
        /\ \A i \in 1 .. good - 1 + 1 : batch[i] = new[1 + i - 1]
    BY <1>5, <2>1, SubSeqProperties DEF batch
  <2>3. good - 1 + 1 = good /\ (~(1 <= good) => good = 0)
    BY <1>5
  <2>4. ASSUME NEW i \in 1 .. good PROVE batch[i] = fed + i
    <3>1. 1 + i - 1 = i
      OBVIOUS
    <3>2. QED
      BY <1>6, <2>2, <2>3, <3>1
  <2>5. QED
    BY <2>2, <2>3, <2>4 DEF Events
<1>8. queue' = [c \in Client |-> IF Dashboard!InClients(c) THEN queue[c] \o batch ELSE queue[c]]
  BY <1>2 DEF Dashboard!broadcast, batch
<1>9. fed' = fed + good
  BY <1>2
<1>10. ASSUME NEW c \in Client PROVE Stream(c)' /\ queue'[c] \in Events
  <2>1. /\ Stream(c) /\ sent[c] \in Events /\ queue[c] \in Events /\ joined[c] \in Nat
        /\ sent' = sent /\ joined' = joined /\ client' = client
        /\ Len(sent[c]) \in Nat /\ Len(queue[c]) \in Nat
    BY <1>3, LenProperties DEF DashboardInv, DashboardTypes, Events
  <2>2. CASE Dashboard!InClients(c)
    <3> DEFINE q == queue[c]
               a == joined[c] + Len(sent[c])
    <3>1. /\ a \in Nat /\ a + Len(q) = fed /\ q \in Events /\ Len(q) \in Nat
          /\ \A k \in 1 .. Len(q) : q[k] = a + k
      BY <2>1, <2>2 DEF Stream
    <3>2. queue'[c] = q \o batch
      BY <1>8, <2>2
    <3> HIDE DEF q, a
    <3>3. /\ queue'[c] \in Events /\ Len(queue'[c]) = Len(q) + good
          /\ \A i \in 1 .. Len(q) + good :
               queue'[c][i] = IF i <= Len(q) THEN q[i] ELSE batch[i - Len(q)]
      <4>1. /\ q \o batch \in Seq(1 .. MaxEvents)
            /\ Len(q \o batch) = Len(q) + Len(batch)
            /\ \A i \in 1 .. Len(q) + Len(batch) :
                 (q \o batch)[i] = IF i <= Len(q) THEN q[i] ELSE batch[i - Len(q)]
        BY <1>7, <3>1, ConcatProperties DEF Events
      <4>2. QED
        BY <1>7, <3>2, <4>1 DEF Events
    <3>4. ASSUME NEW i \in 1 .. Len(queue'[c]) PROVE queue'[c][i] = a + i
      <4>1. CASE i <= Len(q)
        BY <1>5, <3>1, <3>3, <4>1
      <4>2. CASE ~(i <= Len(q))
        <5>0. PICK l \in Nat : l = Len(q)
          BY <3>1
        <5>1. PICK k \in 1 .. good : k = i - Len(q)
          <6>1. i \in 1 .. l + good /\ ~(i <= l)
            BY <3>3, <4>2, <5>0
          <6>2. i - l \in 1 .. good
            BY <1>5, <6>1
          <6>3. QED
            BY <5>0, <6>2
        <5>2. batch[k] = fed + k
          BY <1>7
        <5>3. queue'[c][i] = batch[k]
          BY <3>3, <4>2, <5>1
        <5>4. QED
          BY <3>1, <5>1, <5>2, <5>3
      <4>3. QED
        BY <4>1, <4>2
    <3>5. a + Len(queue'[c]) = fed + good
      BY <1>5, <3>1, <3>3
    <3>6. a + Len(queue'[c]) = fed'
      BY <1>9, <3>5
    <3>7. client[c] # "none"
      BY <2>2 DEF Dashboard!InClients
    <3>8. fed' \in Nat
      BY <1>1, <1>5, <1>9
    <3>9. QED
      BY <2>1, <3>3, <3>4, <3>6, <3>7, <3>8 DEF Stream, a, Dashboard!InClients
  <2>3. CASE ~Dashboard!InClients(c)
    <3>1. queue'[c] = queue[c]
      BY <1>8, <2>3
    <3>2. joined[c] + Len(sent[c]) + Len(queue[c]) <= fed + good
      BY <1>1, <1>5, <2>1 DEF Stream
    <3>3. QED
      BY <1>9, <2>1, <2>3, <3>1, <3>2 DEF Stream, Dashboard!InClients
  <2>4. QED
    BY <2>2, <2>3
<1>11. DashboardTypes'
  <2>1. queue' \in [Client -> Events]
    BY <1>8, <1>10
  <2>2. position' \in Nat /\ position' <= n /\ fed' \in Nat /\ fed' <= n
        /\ feed' \in {"running", "raised", "stopped"}
    BY <1>1, <1>2, <1>5, <1>9 DEF DashboardInv, DashboardTypes
  <2>3. QED
    BY <1>3, <2>1, <2>2 DEF DashboardInv, DashboardTypes, n
<1>12. LogNumbers'
  <2>1. ASSUME NEW i \in 1 .. fed + good PROVE log[i] = i
    <3>1. CASE i <= fed
      BY <1>1, <1>5, <3>1 DEF DashboardInv, LogNumbers
    <3>2. CASE ~(i <= fed)
      <4>1. PICK k \in 1 .. good : i = fed + k
        <5>1. i - fed \in 1 .. good /\ i = fed + (i - fed)
          BY <1>1, <1>5, <3>2
        <5>2. QED
          BY <5>1
      <4>2. log[i] = new[k] /\ new[k] = i
        BY <1>1, <1>4, <1>5, <1>6, <4>1
      <4>3. QED
        BY <4>2
    <3>3. QED
      BY <3>1, <3>2
  <2>2. feed' = "running" => position' = fed + good
    BY <1>1, <1>2, <1>4, <1>5
  <2>3. QED
    BY <1>3, <1>9, <2>1, <2>2 DEF DashboardInv, LogNumbers
<1>13. ASSUME NEW r \in Thread PROVE PageFits(r)'
  BY <1>3 DEF DashboardInv, PageFits
<1>14. QED
  BY <1>10, <1>11, <1>12, <1>13 DEF DashboardInv

\* Connections come and go without what they were sent being touched.
LEMMA DashboardConnects ==
    ASSUME DashboardAssumption, DashboardInv,
           \/ Dashboard!lifespan
           \/ \E c \in Client : \/ Dashboard!stream_events(c) \/ Dashboard!event_generator(c)
                                \/ Dashboard!Disconnect(c)
    PROVE  DashboardInv'
<1>1. UNCHANGED <<log, half, position, fed, queue, sent, page>>
  BY DEF Dashboard!lifespan, Dashboard!stream_events, Dashboard!event_generator,
     Dashboard!Disconnect
<1>2. DashboardTypes'
  BY <1>1 DEF DashboardInv, DashboardTypes, Dashboard!lifespan, Dashboard!stream_events,
     Dashboard!event_generator, Dashboard!Disconnect
<1>3. LogNumbers'
  BY <1>1 DEF DashboardInv, DashboardTypes, LogNumbers, Dashboard!lifespan,
     Dashboard!stream_events, Dashboard!event_generator, Dashboard!Disconnect
<1>4. ASSUME NEW d \in Client PROVE Stream(d)'
  <2>1. /\ Stream(d) /\ joined[d] \in Nat /\ fed \in Nat /\ client \in [Client -> {"none",
              "registered", "streaming", "leaked", "gone"}]
        /\ joined \in [Client -> Nat] /\ Len(sent[d]) \in Nat /\ Len(queue[d]) \in Nat
    BY LenProperties DEF DashboardInv, DashboardTypes, Events
  <2>2. CASE client'[d] = client[d] /\ joined'[d] = joined[d]
    BY <1>1, <2>1, <2>2 DEF Stream, Dashboard!InClients
  <2>3. CASE client[d] = "none" /\ joined'[d] = fed /\ client'[d] = "registered"
    <3>1. Len(sent[d]) = 0 /\ Len(queue[d]) = 0
      BY <2>1, <2>3 DEF Stream
    <3>2. fed + 0 + 0 = fed /\ fed + 0 + 0 <= fed
      BY <2>1
    <3>3. QED
      BY <1>1, <2>3, <3>1, <3>2 DEF Stream, Dashboard!InClients
  <2>4. CASE /\ client[d] \in {"registered", "streaming"} /\ joined'[d] = joined[d]
             /\ client'[d] \in {"streaming", "gone", "leaked"}
    BY <1>1, <2>1, <2>4 DEF Stream, Dashboard!InClients
  <2>5. QED
    BY <2>1, <2>2, <2>3, <2>4 DEF Dashboard!lifespan, Dashboard!stream_events,
       Dashboard!event_generator, Dashboard!Disconnect
<1>5. ASSUME NEW r \in Thread PROVE PageFits(r)'
  BY <1>1 DEF DashboardInv, PageFits
<1>6. QED
  BY <1>2, <1>3, <1>4, <1>5 DEF DashboardInv

\* What is sent is what waited longest.
LEMMA DashboardSends ==
    ASSUME DashboardAssumption, DashboardInv, NEW c \in Client, Dashboard!Send(c)
    PROVE  DashboardInv'
<1> DEFINE s == sent[c]
           q == queue[c]
           a == joined[c] + Len(s)
<1>1. UNCHANGED <<log, half, position, fed, feed, client, joined, page>>
  BY DEF Dashboard!Send
<1>2. /\ s \in Events /\ q \in Events /\ q # << >> /\ joined[c] \in Nat /\ Len(s) \in Nat
      /\ Len(q) \in Nat /\ Stream(c) /\ client[c] = "streaming"
      /\ sent \in [Client -> Events] /\ queue \in [Client -> Events]
  BY LenProperties DEF DashboardInv, DashboardTypes, Events, Dashboard!Send
<1>3. /\ sent' = [sent EXCEPT ![c] = Append(s, Head(q))]
      /\ queue' = [queue EXCEPT ![c] = Tail(q)]
  BY <1>2 DEF Dashboard!Send
<1>4. /\ \A k \in 1 .. Len(s) : s[k] = joined[c] + k
      /\ \A k \in 1 .. Len(q) : q[k] = a + k
  BY <1>2 DEF Stream
<1>5. Head(q) \in 1 .. MaxEvents /\ Head(q) = q[1] /\ Tail(q) \in Events /\ Len(q) # 0
      /\ Len(Tail(q)) = Len(q) - 1 /\ \A i \in 1 .. Len(Tail(q)) : Tail(q)[i] = q[i + 1]
  <2> HIDE DEF q
  <2>1. Len(q) # 0
    BY <1>2, EmptySeq DEF Events
  <2>2. Head(q) = q[1]
    OBVIOUS
  <2>3. QED
    BY <1>2, <2>1, <2>2, HeadTailProperties DEF Events
<1>6. a \in Nat /\ a = joined[c] + Len(s)
  BY <1>2
<1> HIDE DEF s, q, a
<1>7. Head(q) = a + 1
  <2>1. 1 \in 1 .. Len(q)
    BY <1>2, <1>5
  <2>2. QED
    BY <1>4, <1>5, <2>1
<1>8. /\ Append(s, Head(q)) \in Events /\ Len(Append(s, Head(q))) = Len(s) + 1
      /\ \A i \in 1 .. Len(s) : Append(s, Head(q))[i] = s[i]
      /\ Append(s, Head(q))[Len(s) + 1] = Head(q)
  BY <1>2, <1>5, AppendProperties DEF Events
<1>9. sent'[c] = Append(s, Head(q)) /\ queue'[c] = Tail(q)
  BY <1>2, <1>3
<1>10. Stream(c)'
  <2> DEFINE x == sent'[c]
             y == queue'[c]
  <2>1. Len(x) = Len(s) + 1 /\ Len(y) = Len(q) - 1
    BY <1>5, <1>8, <1>9
  <2>2. \A k \in 1 .. Len(s) + 1 : x[k] = joined[c] + k
    <3>1. ASSUME NEW k \in 1 .. Len(s) + 1 PROVE x[k] = joined[c] + k
      <4>1. CASE k \in 1 .. Len(s)
        BY <1>4, <1>8, <1>9, <4>1
      <4>2. CASE k = Len(s) + 1
        <5>1. joined[c] + (Len(s) + 1) = joined[c] + Len(s) + 1
          BY <1>2
        <5>2. QED
          BY <1>6, <1>7, <1>8, <1>9, <4>2, <5>1
      <4>3. QED
        BY <1>2, <4>1, <4>2
    <3>2. QED
      BY <3>1
  <2>3. \A k \in 1 .. Len(q) - 1 : y[k] = joined[c] + (Len(s) + 1) + k
    <3>1. ASSUME NEW k \in 1 .. Len(q) - 1 PROVE y[k] = joined[c] + (Len(s) + 1) + k
      <4>1. PICK i \in 1 .. Len(q) : i = k + 1
        BY <1>2
      <4>2. y[k] = q[i] /\ q[i] = a + i
        BY <1>4, <1>5, <1>9, <4>1
      <4>3. a + i = joined[c] + (Len(s) + 1) + k
        BY <1>2, <1>6, <4>1
      <4>4. QED
        BY <4>2, <4>3
    <3>2. QED
      BY <3>1
  <2>4. joined[c] + Len(s) + Len(q) = fed
    BY <1>2 DEF Stream, Dashboard!InClients, s, q
  <2>5. joined[c] + (Len(s) + 1) + (Len(q) - 1) = joined[c] + Len(s) + Len(q)
    BY <1>2
  <2>6. fed \in Nat
    BY DEF DashboardInv, DashboardTypes
  <2>7. joined[c] + Len(x) + Len(y) = fed
    BY <2>1, <2>4, <2>5
  <2> HIDE DEF x, y
  <2>8. /\ \A k \in 1 .. Len(x) : x[k] = joined[c] + k
        /\ \A k \in 1 .. Len(y) : y[k] = joined[c] + Len(x) + k
        /\ joined[c] + Len(x) + Len(y) <= fed
    BY <2>1, <2>2, <2>3, <2>6, <2>7
  <2>9. joined' = joined /\ fed' = fed /\ client'[c] # "none"
    BY <1>1, <1>2
  <2>10. QED
    BY <2>7, <2>8, <2>9 DEF Stream, x, y
<1>11. ASSUME NEW d \in Client, d # c PROVE Stream(d)'
  <2>1. sent'[d] = sent[d] /\ queue'[d] = queue[d]
    BY <1>2, <1>3, <1>11
  <2>2. QED
    BY <1>1, <2>1 DEF DashboardInv, Stream, Dashboard!InClients
<1>12. DashboardTypes'
  <2>1. sent' \in [Client -> Events] /\ queue' \in [Client -> Events]
    BY <1>2, <1>3, <1>5, <1>8
  <2>2. QED
    BY <1>1, <2>1 DEF DashboardInv, DashboardTypes
<1>13. LogNumbers' /\ \A r \in Thread : PageFits(r)'
  BY <1>1 DEF DashboardInv, LogNumbers, PageFits
<1>14. QED
  BY <1>10, <1>11, <1>12, <1>13 DEF DashboardInv

\* A page holds no more than the log has after its offset, and the log only
\* grows until the total is counted.
LEMMA DashboardLoads ==
    ASSUME DashboardAssumption, DashboardInv, NEW r \in Thread, NEW o \in 0 .. 1,
           Dashboard!load_events(r, o)
    PROVE  DashboardInv'
<1> DEFINE n == Len(log)
           z == IF o + Limit <= n THEN o + Limit ELSE n
           lines == SubSeq(log, o + 1, z)
           P == {i \in DOMAIN lines : lines[i] # 0}
           loaded(x) == [step |-> "loaded", offset |-> o, total |-> 0, events |-> x]
<1>1. /\ log \in [1 .. n -> 0 .. MaxEvents] /\ n \in Nat /\ Limit \in Nat /\ MaxEvents \in Nat
  BY LenProperties DEF DashboardInv, DashboardTypes, DashboardAssumption
<1>2. UNCHANGED <<log, half, position, fed, feed, client, joined, queue, sent>>
  BY DEF Dashboard!load_events
<1>3. \E x \in {<< >>, Kept(lines, P)} : page' = [page EXCEPT ![r] = loaded(x)]
  BY DEF Dashboard!load_events, Dashboard!Malformed, Dashboard!Kept, Kept, Dashboard!Nth, Nth,
     Dashboard!Rank, Rank, Dashboard!Cardinality, Cardinality, Dashboard!IsFiniteSet, IsFiniteSet
<1>4. z \in Nat /\ z <= n
  BY <1>1
<1> HIDE DEF n, z
<1>5. \A i \in o + 1 .. z : log[i] \in 0 .. MaxEvents
  BY <1>1, <1>4
<1>6. /\ lines \in Seq(0 .. MaxEvents) /\ Len(lines) = IF o + 1 <= z THEN z - (o + 1) + 1 ELSE 0
  BY <1>1, <1>4, <1>5, SubSeqProperties
<1> HIDE DEF lines
<1>7. Len(lines) \in Nat /\ (Len(lines) = 0 \/ o + Len(lines) <= n)
  BY <1>1, <1>4, <1>6
<1>8. P \in SUBSET DOMAIN lines /\ \A i \in P : lines[i] \in 1 .. MaxEvents
  <2>1. \A i \in DOMAIN lines : lines[i] \in 0 .. MaxEvents
    BY <1>6, LenProperties
  <2>2. QED
    BY <1>1, <2>1
<1> HIDE DEF P
<1> DEFINE kept == Kept(lines, P)
<1>9. /\ kept \in Seq(0 .. MaxEvents) /\ Len(kept) = Cardinality(P) /\ Cardinality(P) \in Nat
      /\ Cardinality(P) <= Len(lines)
      /\ \A k \in 1 .. Cardinality(P) : kept[k] \in 1 .. MaxEvents
  BY <1>6, <1>8, KeptIsSequence
<1> HIDE DEF kept
<1>10. kept \in Events
  <2>1. kept \in [1 .. Len(kept) -> 0 .. MaxEvents]
    BY <1>9, LenProperties
  <2>2. kept \in [1 .. Len(kept) -> 1 .. MaxEvents]
    BY <1>9, <2>1
  <2>3. Len(kept) \in Nat /\ Events = UNION {[1 .. k -> 1 .. MaxEvents] : k \in Nat}
    BY <1>9, SeqDef DEF Events
  <2>4. QED
    BY <2>2, <2>3
<1>11. kept = << >> \/ n >= o + Len(kept)
  <2>1. CASE Len(kept) = 0
    BY <1>10, <2>1, EmptySeq DEF Events
  <2>2. CASE Len(kept) # 0
    BY <1>1, <1>7, <1>9, <2>2
  <2>3. QED
    BY <2>1, <2>2
<1>12. PICK found \in {<< >>, kept} : page' = [page EXCEPT ![r] = loaded(found)]
  <2> HIDE DEF loaded
  <2>1. QED
    BY <1>3 DEF kept
<1>13. found \in Events /\ (found = << >> \/ n >= o + Len(found))
  BY <1>10, <1>11, EmptySeq DEF Events
<1> DEFINE new == loaded(found)
<1>14. /\ new \in Pages /\ new.step = "loaded" /\ new.offset = o /\ new.events = found
  BY <1>1, <1>13 DEF Pages
<1>15. page' = [page EXCEPT ![r] = new]
  BY <1>12
<1> HIDE DEF new, loaded
<1>16. DashboardTypes'
  <2>1. page' \in [Thread -> Pages]
    BY <1>14, <1>15 DEF DashboardInv, DashboardTypes
  <2>2. QED
    BY <1>2, <2>1 DEF DashboardInv, DashboardTypes
<1>17. LogNumbers' /\ \A c \in Client : Stream(c)'
  BY <1>2 DEF DashboardInv, LogNumbers, Stream, Dashboard!InClients
<1>18. ASSUME NEW t \in Thread PROVE PageFits(t)'
  <2>1. CASE t = r
    <3>1. page'[r] = new /\ log' = log
      BY <1>2, <1>15 DEF DashboardInv, DashboardTypes
    <3>2. QED
      BY <1>13, <1>14, <2>1, <3>1 DEF PageFits, n
  <2>2. CASE t # r
    <3>1. page'[t] = page[t]
      BY <1>15, <2>2 DEF DashboardInv, DashboardTypes
    <3>2. QED
      BY <1>2, <3>1 DEF DashboardInv, PageFits
  <2>3. QED
    BY <2>1, <2>2
<1>19. QED
  BY <1>16, <1>17, <1>18 DEF DashboardInv

\* The total is counted after the page is loaded.
LEMMA DashboardLists ==
    ASSUME DashboardAssumption, DashboardInv, NEW r \in Thread, Dashboard!list_events(r)
    PROVE  DashboardInv'
<1>1. PICK count \in {0, Dashboard!Size} :
        page' = [page EXCEPT ![r].step = "answered", ![r].total = count]
  BY DEF Dashboard!list_events
<1> DEFINE p == page[r]
           d == [p EXCEPT !.step = "answered"]
           e == [d EXCEPT !.total = count]
<1>2. UNCHANGED <<log, half, position, fed, feed, client, joined, queue, sent>>
  BY DEF Dashboard!list_events
<1>3. /\ p \in Pages /\ page \in [Thread -> Pages] /\ p.step = "loaded" /\ PageFits(r)
      /\ Len(log) \in Nat /\ MaxEvents \in Nat /\ Len(log) <= MaxEvents /\ half \in BOOLEAN
  BY LenProperties DEF DashboardInv, DashboardTypes, Dashboard!list_events, DashboardAssumption
<1>4. page' = [page EXCEPT ![r] = e]
  BY <1>1, <1>3
<1>5. /\ count \in 0 .. MaxEvents + 1 /\ count \in Nat
      /\ count = 0 \/ count >= Len(log)
  BY <1>1, <1>3 DEF Dashboard!Size
<1>6. d \in Pages /\ d.step = "answered" /\ d.offset = p.offset /\ d.events = p.events
  BY <1>3 DEF Pages
<1> HIDE DEF p, d
<1>7. /\ e \in Pages /\ e.step = "answered" /\ e.offset = p.offset /\ e.events = p.events
      /\ e.total = count
  BY <1>5, <1>6 DEF Pages
<1> HIDE DEF e
<1>8. DashboardTypes'
  <2>1. page' \in [Thread -> Pages]
    BY <1>3, <1>4, <1>7
  <2>2. QED
    BY <1>2, <2>1 DEF DashboardInv, DashboardTypes
<1>9. LogNumbers' /\ \A c \in Client : Stream(c)'
  BY <1>2 DEF DashboardInv, LogNumbers, Stream, Dashboard!InClients
<1>20. ASSUME NEW t \in Thread PROVE PageFits(t)'
  <2>1. CASE t = r
    <3>1. page'[r] = e
      BY <1>3, <1>4
    <3>2. p.events = << >> \/ Len(log) >= p.offset + Len(p.events)
      BY <1>3 DEF PageFits, p
    <3>3. p.offset \in Nat /\ Len(p.events) \in Nat
      BY <1>3, LenProperties DEF Pages, Events
    <3>4. p.events = << >> \/ count = 0 \/ count >= p.offset + Len(p.events)
      BY <1>3, <1>5, <3>2, <3>3
    <3>5. QED
      BY <1>7, <2>1, <3>1, <3>4 DEF PageFits
  <2>2. CASE t # r
    <3>1. page'[t] = page[t]
      BY <1>3, <1>4, <2>2
    <3>2. QED
      BY <1>2, <3>1 DEF DashboardInv, PageFits
  <2>3. QED
    BY <2>1, <2>2
<1>21. QED
  BY <1>8, <1>9, <1>20 DEF DashboardInv

\* Every step of the log, the feed, the clients and the readers keeps it.
LEMMA DashboardStep ==
    DashboardAssumption /\ DashboardInv /\ [Dashboard!Next]_(Dashboard!dashboardVars)
        => DashboardInv'
<1> SUFFICES ASSUME DashboardAssumption, DashboardInv,
                    [Dashboard!Next]_(Dashboard!dashboardVars)
             PROVE  DashboardInv'
  OBVIOUS
<1>1. CASE UNCHANGED Dashboard!dashboardVars
  BY <1>1 DEF Dashboard!dashboardVars, DashboardInv, DashboardTypes, LogNumbers, Stream,
     PageFits, Dashboard!InClients
<1>2. CASE Dashboard!Next
  BY <1>2, DashboardAppends, DashboardTails, DashboardConnects, DashboardSends, DashboardLoads,
     DashboardLists DEF Dashboard!Next
<1>3. QED
  BY <1>1, <1>2

-------------------------------------------------------------------------------
(* The chat.                                                                 *)

\* A step of the whole is a step of this component, or leaves it alone.
LEMMA ChatMoves == [Next]_vars => [Chat!Next]_(Chat!chatVars)
BY DEF Next, Alone, vars, chatVars, Chat!chatVars, Chat!history

\* Appending to a list without duplicates what it does not hold.
LEMMA Appended ==
    ASSUME NEW S, NEW s \in Seq(S), NEW m \in S
    PROVE  /\ Append(s, m) \in Seq(S) /\ Len(Append(s, m)) = Len(s) + 1 /\ Len(s) \in Nat
           /\ DOMAIN s = 1 .. Len(s) /\ DOMAIN Append(s, m) = 1 .. Len(s) + 1
           /\ \A i \in DOMAIN s : Append(s, m)[i] = s[i] /\ i \in DOMAIN Append(s, m)
           /\ Append(s, m)[Len(s) + 1] = m
           /\ Chat!Range(Append(s, m)) = Chat!Range(s) \cup {m}
           /\ Chat!IsInjective(s) /\ m \notin Chat!Range(s) => Chat!IsInjective(Append(s, m))
<1>1. /\ Append(s, m) \in Seq(S) /\ Len(Append(s, m)) = Len(s) + 1 /\ Len(s) \in Nat
      /\ \A i \in 1 .. Len(s) : Append(s, m)[i] = s[i]
      /\ Append(s, m)[Len(s) + 1] = m
      /\ DOMAIN s = 1 .. Len(s) /\ DOMAIN Append(s, m) = 1 .. Len(s) + 1
  BY AppendProperties, LenProperties
<1>2. 1 .. Len(s) + 1 = (1 .. Len(s)) \cup {Len(s) + 1} /\ Len(s) + 1 \notin 1 .. Len(s)
  BY <1>1
<1>3. Chat!Range(Append(s, m)) = Chat!Range(s) \cup {m}
  BY <1>1, <1>2 DEF Chat!Range
<1>4. Chat!IsInjective(s) /\ m \notin Chat!Range(s) => Chat!IsInjective(Append(s, m))
  BY <1>1, <1>2 DEF Chat!Range, Chat!IsInjective
<1>5. QED
  BY <1>1, <1>2, <1>3, <1>4

Walk == [step : {"new", "walking", "done"}, index : Nat]
Served(m, s) == m \in Chat!Range(received[s]) \/ s \in failed[m]

ChatTypes ==
    /\ listeners \in Seq(Socket) /\ posted \in Seq(Post)
    /\ link \in [Socket -> {"new", "open", "closed"}]
    /\ received \in [Socket -> Seq(Post)]
    /\ place \in [Post -> Walk]
    /\ failed \in [Post -> SUBSET Socket] /\ audience \in [Post -> SUBSET Socket]
    /\ missed \in [Post -> SUBSET Socket] /\ during \in [Post -> SUBSET Post]

\* A socket is in the list once, and only a message that was posted is in hand.
ChatLists ==
    /\ Chat!IsInjective(listeners) /\ \A s \in Chat!Range(listeners) : link[s] # "new"
    /\ \A s \in Socket : /\ Chat!IsInjective(received[s])
                         /\ Chat!Range(received[s]) \subseteq Chat!Range(posted)
                         /\ link[s] = "new" => received[s] = << >>
    /\ \A m \in Post : /\ m \in Chat!Range(posted) <=> place[m].step # "new"
                       /\ place[m].step = "new" => place[m].index = 0

\* Whom the walk of a message has not reached has not got it; whom it has
\* passed was served, unless a removal took it from what was before the walk.
ChatWalks ==
    \A m \in Post :
      /\ Chat!Walking(m) => \A i \in DOMAIN listeners :
           m \in Chat!Range(received[listeners[i]]) => i <= place[m].index
      /\ place[m].step # "new" => \A s \in audience[m] :
           \/ Served(m, s) \/ s \in missed[m]
           \/ Chat!Walking(m) /\ \E i \in DOMAIN listeners :
                listeners[i] = s /\ i > place[m].index

\* What is still being broadcast was so when a later message was posted, and
\* only that can come after the later one.
ChatOrder ==
    /\ \A a, b \in DOMAIN posted :
         a < b /\ Chat!Walking(posted[a]) => posted[a] \in during[posted[b]]
    /\ \A s \in Socket, a, b \in DOMAIN posted : \A i, j \in DOMAIN received[s] :
         a < b /\ i < j /\ received[s][i] = posted[b] /\ received[s][j] = posted[a]
           => posted[a] \in during[posted[b]]

ChatInv == ChatTypes /\ ChatLists /\ ChatWalks /\ ChatOrder

\* Nobody listens yet.
LEMMA ChatInit == Chat!Init => ChatInv
<1> SUFFICES ASSUME Chat!Init PROVE ChatInv
  OBVIOUS
<1>1. /\ listeners = << >> /\ posted = << >> /\ link = [s \in Socket |-> "new"]
      /\ received = [s \in Socket |-> << >>]
      /\ place = [m \in Post |-> [step |-> "new", index |-> 0]]
      /\ failed = [m \in Post |-> {}] /\ audience = [m \in Post |-> {}]
      /\ missed = [m \in Post |-> {}] /\ during = [m \in Post |-> {}]
  BY DEF Chat!Init
<1>2. << >> \in Seq(Socket) /\ << >> \in Seq(Post) /\ [step |-> "new", index |-> 0] \in Walk
  BY EmptySeq DEF Walk
<1>3. Chat!IsInjective(<< >>) /\ Chat!Range(<< >>) = {}
  BY DEF Chat!IsInjective, Chat!Range
<1>4. ChatTypes
  BY <1>1, <1>2 DEF ChatTypes
<1>5. ChatLists
  BY <1>1, <1>3 DEF ChatLists
<1>6. ChatWalks
  BY <1>1 DEF ChatWalks, Chat!Walking
<1>7. ChatOrder
  BY <1>1 DEF ChatOrder
<1>8. QED
  BY <1>4, <1>5, <1>6, <1>7 DEF ChatInv

\* Each listener gets what was posted while it was there, in order but for what
\* was posted during the broadcast of another.
LEMMA ChatTrue == ChatInv => Chat!TypeOK /\ Chat!AudienceIsServed
<1> SUFFICES ASSUME ChatInv PROVE Chat!TypeOK /\ Chat!AudienceIsServed
  OBVIOUS
<1>1. Chat!TypeOK
  BY DEF ChatInv, ChatTypes, Walk, Chat!TypeOK
<1>2. \A m \in Post : place[m].step = "done" => ~Chat!Walking(m) /\ place[m].step # "new"
  BY DEF Chat!Walking
<1>3. Chat!AudienceIsServed
  BY <1>2 DEF ChatInv, ChatLists, ChatWalks, ChatOrder, Served, Chat!AudienceIsServed
<1>4. QED
  BY <1>1, <1>3

\* What is left when some are removed from the list.
LEMMA WithoutFacts ==
    ASSUME ChatInv, NEW gone
    PROVE  LET rest == Chat!Without(gone)
           IN  /\ rest \in Seq(Socket) /\ Chat!IsInjective(rest)
               /\ Chat!Range(rest) \subseteq Chat!Range(listeners)
               /\ \A n \in DOMAIN rest : \E i \in DOMAIN listeners : n <= i /\ rest[n] = listeners[i]
<1> DEFINE P == {i \in DOMAIN listeners : listeners[i] \notin gone}
           rest == Kept(listeners, P)
           C == Cardinality(P)
<1>1. listeners \in Seq(Socket) /\ DOMAIN listeners = 1 .. Len(listeners) /\ Len(listeners) \in Nat
  BY LenProperties DEF ChatInv, ChatTypes
<1>2. Chat!Without(gone) = rest
  BY DEF Chat!Without, Chat!Kept, Kept, Chat!Nth, Nth, Chat!Rank, Rank, Chat!Cardinality,
         Cardinality, Chat!IsFiniteSet, IsFiniteSet
<1>3. P \in SUBSET DOMAIN listeners /\ P \in SUBSET (1 .. Len(listeners))
  BY <1>1
<1> HIDE DEF P
<1>4. /\ rest \in Seq(Socket) /\ Len(rest) = C /\ C \in Nat
      /\ \A n \in 1 .. C : Nth(P, n) \in P /\ rest[n] = listeners[Nth(P, n)]
  BY <1>1, <1>3, KeptIsSequence
<1>5. /\ \A n \in 1 .. C : Nth(P, n) >= n
      /\ \A k, n \in 1 .. C : k < n => Nth(P, k) < Nth(P, n)
  BY <1>1, <1>3, NthPosition
<1> HIDE DEF rest, C
<1>6. DOMAIN rest = 1 .. C
  BY <1>4, LenProperties
<1>7. \A n \in DOMAIN rest : \E i \in DOMAIN listeners : n <= i /\ rest[n] = listeners[i]
  <2>1. ASSUME NEW n \in 1 .. C
        PROVE  Nth(P, n) \in DOMAIN listeners /\ n <= Nth(P, n) /\ rest[n] = listeners[Nth(P, n)]
    BY <1>1, <1>3, <1>4, <1>5
  <2>2. QED
    BY <1>6, <2>1
<1>8. Chat!IsInjective(rest)
  <2>1. ASSUME NEW k \in 1 .. C, NEW n \in 1 .. C, rest[k] = rest[n] PROVE k = n
    <3>1. Nth(P, k) = Nth(P, n)
      BY <1>3, <1>4, <2>1 DEF ChatInv, ChatLists, Chat!IsInjective
    <3>2. Nth(P, k) \in Int /\ k \in Int /\ n \in Int
      BY <1>1, <1>3, <1>4
    <3>3. QED
      BY <1>5, <3>1, <3>2
  <2>2. QED
    BY <1>6, <2>1 DEF Chat!IsInjective
<1>9. Chat!Range(rest) \subseteq Chat!Range(listeners)
  BY <1>7 DEF Chat!Range
<1>10. QED
  BY <1>2, <1>4, <1>7, <1>8, <1>9

\* A socket that connects is served from the next message on.
LEMMA ChatConnects ==
    ASSUME ChatInv, NEW s \in Socket, Chat!add_listener(s)
    PROVE  ChatInv'
<1>1. /\ link[s] = "new" /\ link' = [link EXCEPT ![s] = "open"]
      /\ listeners' = Append(listeners, s)
      /\ UNCHANGED <<posted, received, place, failed, audience, missed, during>>
  BY DEF Chat!add_listener, Chat!history
<1>2. s \notin Chat!Range(listeners) /\ received[s] = << >>
  BY <1>1 DEF ChatInv, ChatLists
<1>3. /\ listeners' \in Seq(Socket) /\ Chat!IsInjective(listeners')
      /\ Chat!Range(listeners') = Chat!Range(listeners) \cup {s}
      /\ DOMAIN listeners = 1 .. Len(listeners) /\ DOMAIN listeners' = 1 .. Len(listeners) + 1
      /\ (\A i \in DOMAIN listeners : listeners'[i] = listeners[i] /\ i \in DOMAIN listeners')
      /\ listeners'[Len(listeners) + 1] = s /\ Len(listeners) \in Nat
  BY <1>1, <1>2, Appended DEF ChatInv, ChatTypes, ChatLists
<1>4. ChatTypes'
  BY <1>1, <1>3 DEF ChatInv, ChatTypes
<1>5. Chat!Range(listeners) \subseteq Socket
  BY <1>3, ElementOfSeq DEF ChatInv, ChatTypes, Chat!Range
<1>6. ChatLists'
  BY <1>1, <1>3, <1>5 DEF ChatInv, ChatTypes, ChatLists
<1>7. ChatWalks'
  <2>2. ASSUME NEW m \in Post, Chat!Walking(m), NEW i \in DOMAIN listeners',
               m \in Chat!Range(received[listeners'[i]])
        PROVE  i <= place[m].index
    <3>1. i # Len(listeners) + 1
      BY <1>2, <1>3, <2>2 DEF Chat!Range
    <3>2. i \in DOMAIN listeners
      BY <1>3, <3>1
    <3>3. QED
      BY <1>3, <2>2, <3>2 DEF ChatInv, ChatWalks
  <2>3. QED
    BY <1>1, <1>3, <2>2 DEF ChatInv, ChatWalks, Served, Chat!Walking
<1>8. ChatOrder'
  BY <1>1 DEF ChatInv, ChatOrder, Chat!Walking
<1>9. QED
  BY <1>4, <1>6, <1>7, <1>8 DEF ChatInv

\* Some listeners are removed; a walk under way may now pass others by.
LEMMA ChatShrinks ==
    ASSUME ChatInv, NEW gone, Chat!Remove(gone),
           UNCHANGED <<posted, received, failed, audience, during>>,
           link' \in [Socket -> {"new", "open", "closed"}],
           \A s \in Socket : link'[s] = "new" <=> link[s] = "new",
           place' \in [Post -> Walk],
           \A m \in Post : place'[m].index = place[m].index
                           /\ (place'[m].step = "new" <=> place[m].step = "new")
                           /\ (Chat!Walking(m)' => Chat!Walking(m)),
           \A m \in Post : Chat!Walking(m) /\ ~Chat!Walking(m)' =>
             \A i \in DOMAIN listeners : ~(i > place[m].index)
    PROVE  ChatInv'
<1> DEFINE rest == Chat!Without(gone)
           Before(m) == Chat!Remaining(listeners, place[m].index)
           After(m) == Chat!Remaining(rest, place[m].index)
<1>1. /\ rest \in Seq(Socket) /\ Chat!IsInjective(rest)
      /\ Chat!Range(rest) \subseteq Chat!Range(listeners)
      /\ \A n \in DOMAIN rest : \E i \in DOMAIN listeners : n <= i /\ rest[n] = listeners[i]
  BY WithoutFacts
<1>2. /\ listeners' = rest
      /\ missed' = [m \in Post |-> IF Chat!Walking(m) THEN missed[m] \cup (Before(m) \ After(m))
                                                      ELSE missed[m]]
  BY DEF Chat!Remove
<1> HIDE DEF rest
<1>3. /\ DOMAIN listeners = 1 .. Len(listeners) /\ DOMAIN rest = 1 .. Len(rest)
      /\ Len(listeners) \in Nat /\ Len(rest) \in Nat /\ \A m \in Post : place[m].index \in Nat
  BY <1>1, LenProperties DEF ChatInv, ChatTypes, Walk
<1>4. Chat!Range(listeners) \subseteq Socket
  BY <1>3, ElementOfSeq DEF ChatInv, ChatTypes, Chat!Range
<1>5. \A m \in Post : Before(m) \subseteq Socket
  BY <1>3, <1>4 DEF Chat!Remaining, Chat!Range
<1>6. missed' \in [Post -> SUBSET Socket] /\ \A m \in Post : missed[m] \subseteq missed'[m]
  BY <1>2, <1>5 DEF ChatInv, ChatTypes
<1>7. ChatTypes'
  BY <1>1, <1>2, <1>6 DEF ChatInv, ChatTypes
<1>8. ChatLists'
  BY <1>1, <1>2, <1>4 DEF ChatInv, ChatLists
<1>9. ASSUME NEW m \in Post, Chat!Walking(m)', NEW n \in DOMAIN rest,
             m \in Chat!Range(received[rest[n]])
      PROVE  n <= place'[m].index
  <2>1. PICK i \in DOMAIN listeners : n <= i /\ rest[n] = listeners[i]
    BY <1>1
  <2>2. i <= place[m].index
    BY <1>9, <2>1 DEF ChatInv, ChatWalks
  <2>3. n \in Int /\ i \in Int /\ place[m].index \in Int /\ place'[m].index = place[m].index
    BY <1>3
  <2>4. QED
    BY <2>1, <2>2, <2>3
<1>10. ASSUME NEW m \in Post, place'[m].step # "new", NEW s \in audience[m]
       PROVE  \/ Served(m, s) \/ s \in missed'[m]
              \/ Chat!Walking(m)' /\ \E i \in DOMAIN rest :
                   rest[i] = s /\ i > place'[m].index
  <2>1. CASE Served(m, s) \/ s \in missed[m]
    BY <1>6, <2>1
  <2>2. CASE ~(Served(m, s) \/ s \in missed[m])
    <3>1. Chat!Walking(m) /\ \E i \in DOMAIN listeners : listeners[i] = s /\ i > place[m].index
      BY <1>10, <2>2 DEF ChatInv, ChatWalks
    <3>2. Chat!Walking(m)'
      BY <3>1
    <3>3. s \in Before(m)
      BY <1>3, <3>1 DEF Chat!Remaining
    <3>4. CASE s \in After(m)
      <4>1. \E i \in DOMAIN rest : rest[i] = s /\ i > place[m].index
        BY <1>3, <3>4 DEF Chat!Remaining
      <4>2. QED
        BY <3>2, <4>1
    <3>5. CASE s \notin After(m)
      BY <1>2, <3>1, <3>3, <3>5
    <3>6. QED
      BY <3>4, <3>5
  <2>3. QED
    BY <2>1, <2>2
<1>11. ChatWalks'
  BY <1>2, <1>9, <1>10 DEF ChatWalks, Served
<1>12. ChatOrder'
  <2>1. \A a \in DOMAIN posted : posted[a] \in Post
    BY LenProperties, ElementOfSeq DEF ChatInv, ChatTypes
  <2>2. QED
    BY <2>1 DEF ChatInv, ChatOrder
<1>13. QED
  BY <1>7, <1>8, <1>11, <1>12 DEF ChatInv

\* A socket that goes is served no more.
LEMMA ChatCloses ==
    ASSUME ChatInv, NEW s \in Socket, Chat!remove_listener(s) \/ Chat!Break(s)
    PROVE  ChatInv'
<1>1. /\ link[s] = "open" /\ link' = [link EXCEPT ![s] = "closed"]
      /\ UNCHANGED <<posted, received, place, failed, audience, during>>
  BY DEF Chat!remove_listener, Chat!Break, Chat!history
<1>2. link' \in [Socket -> {"new", "open", "closed"}]
      /\ \A o \in Socket : link'[o] = "new" <=> link[o] = "new"
  BY <1>1 DEF ChatInv, ChatTypes
<1>3. \A m \in Post : Chat!Walking(m)' <=> Chat!Walking(m)
  BY <1>1 DEF Chat!Walking
<1>4. CASE Chat!remove_listener(s)
  <2>1. Chat!Remove({s})
    BY <1>4 DEF Chat!remove_listener
  <2>2. place' \in [Post -> Walk]
    BY <1>1 DEF ChatInv, ChatTypes
  <2>3. QED
    BY <1>1, <1>2, <1>3, <2>1, <2>2, ChatShrinks
<1>5. CASE Chat!Break(s)
  <2>1. UNCHANGED <<listeners, missed>>
    BY <1>5 DEF Chat!Break, Chat!history
  <2>2. Chat!Range(listeners) \subseteq Socket
    BY LenProperties, ElementOfSeq DEF ChatInv, ChatTypes, Chat!Range
  <2>3. ChatTypes' /\ ChatLists' /\ ChatWalks'
    BY <1>1, <1>2, <2>1, <2>2 DEF ChatInv, ChatTypes, ChatLists, ChatWalks, Served, Chat!Walking
  <2>4. ChatOrder'
    BY <1>1 DEF ChatInv, ChatOrder, Chat!Walking
  <2>5. QED
    BY <2>3, <2>4 DEF ChatInv
<1>6. QED
  BY <1>4, <1>5

\* The walk over the listeners ends.
LEMMA ChatFinishes ==
    ASSUME ChatInv, NEW m \in Post, Chat!Finish(m)
    PROVE  ChatInv'
<1>1. /\ Chat!Walking(m) /\ place[m].index >= Len(listeners)
      /\ Chat!Remove(failed[m])
      /\ place' = [place EXCEPT ![m].step = "done"]
      /\ UNCHANGED <<posted, link, received, failed, audience, during>>
  BY DEF Chat!Finish
<1>2. /\ place \in [Post -> Walk] /\ listeners \in Seq(Socket)
      /\ link \in [Socket -> {"new", "open", "closed"}]
  BY DEF ChatInv, ChatTypes
<1>3. place' \in [Post -> Walk]
  BY <1>1, <1>2 DEF Walk
<1>4. \A n \in Post : /\ place'[n].index = place[n].index
                      /\ place'[n].step = IF n = m THEN "done" ELSE place[n].step
  BY <1>1, <1>2 DEF Walk
<1>5. \A n \in Post : /\ (place'[n].step = "new" <=> place[n].step = "new")
                      /\ (Chat!Walking(n)' <=> n # m /\ Chat!Walking(n))
  BY <1>1, <1>4 DEF Chat!Walking
<1>6. \A i \in DOMAIN listeners : ~(i > place[m].index)
  <2>1. DOMAIN listeners = 1 .. Len(listeners) /\ Len(listeners) \in Nat /\ place[m].index \in Nat
    BY <1>2, LenProperties DEF Walk
  <2>2. QED
    BY <1>1, <2>1
<1>7. \A n \in Post : Chat!Walking(n) /\ ~Chat!Walking(n)' =>
        \A i \in DOMAIN listeners : ~(i > place[n].index)
  BY <1>5, <1>6
<1>8. QED
  BY <1>1, <1>2, <1>3, <1>4, <1>5, <1>7, ChatShrinks

\* A message is posted, and the walk over the listeners starts.
LEMMA ChatPosts ==
    ASSUME ChatInv, NEW m \in Post, Chat!add(m)
    PROVE  ChatInv'
<1>1. /\ place[m].step = "new" /\ posted' = Append(posted, m)
      /\ place' = [place EXCEPT ![m].step = "walking"]
      /\ audience' = [audience EXCEPT ![m] = Chat!Range(listeners)]
      /\ during' = [during EXCEPT ![m] = {n \in Post : Chat!Walking(n)}]
      /\ UNCHANGED <<listeners, link, received, failed, missed>>
  BY DEF Chat!add
<1>2. place \in [Post -> Walk] /\ listeners \in Seq(Socket) /\ posted \in Seq(Post)
  BY DEF ChatInv, ChatTypes
<1>3. posted' \in Seq(Post) /\ Chat!Range(posted') = Chat!Range(posted) \cup {m}
  BY <1>1, <1>2, Appended
<1>4. DOMAIN listeners = 1 .. Len(listeners) /\ Len(listeners) \in Nat
      /\ Chat!Range(listeners) \subseteq Socket
  BY <1>2, LenProperties, ElementOfSeq DEF Chat!Range
<1>5. place' \in [Post -> Walk]
  BY <1>1, <1>2 DEF Walk
<1>6. \A n \in Post : /\ place'[n].index = place[n].index
                      /\ place'[n].step = IF n = m THEN "walking" ELSE place[n].step
  BY <1>1, <1>2 DEF Walk
<1>7. ChatTypes'
  BY <1>1, <1>3, <1>4, <1>5 DEF ChatInv, ChatTypes
<1>8. ChatLists'
  BY <1>1, <1>3, <1>6 DEF ChatInv, ChatLists
<1>9. place[m].index = 0 /\ \A s \in Socket : m \notin Chat!Range(received[s])
  BY <1>1 DEF ChatInv, ChatLists
<1>10. ASSUME NEW n \in Post, place'[n].step = "walking", NEW i \in DOMAIN listeners,
              n \in Chat!Range(received[listeners[i]])
       PROVE  i <= place[n].index
  <2>1. listeners[i] \in Socket
    BY <1>4 DEF Chat!Range
  <2>2. n # m
    BY <1>9, <1>10, <2>1
  <2>3. QED
    BY <1>6, <1>10, <2>2 DEF ChatInv, ChatWalks, Chat!Walking
<1>11. ASSUME NEW n \in Post, place'[n].step # "new", NEW s \in audience'[n]
       PROVE  \/ Served(n, s) \/ s \in missed[n]
              \/ place'[n].step = "walking" /\ \E i \in DOMAIN listeners :
                   listeners[i] = s /\ i > place[n].index
  <2>1. CASE n = m
    <3>1. s \in Chat!Range(listeners)
      BY <1>1, <1>11, <2>1 DEF ChatInv, ChatTypes
    <3>2. PICK i \in DOMAIN listeners : listeners[i] = s
      BY <3>1 DEF Chat!Range
    <3>3. i > place[n].index
      BY <1>4, <1>9, <2>1
    <3>4. QED
      BY <1>6, <2>1, <3>2, <3>3
  <2>2. CASE n # m
    <3>1. s \in audience[n] /\ place'[n].step = place[n].step
      BY <1>1, <1>6, <1>11, <2>2 DEF ChatInv, ChatTypes
    <3>2. QED
      BY <1>11, <3>1 DEF ChatInv, ChatWalks, Chat!Walking
  <2>3. QED
    BY <2>1, <2>2
<1>12. ChatWalks'
  BY <1>1, <1>6, <1>10, <1>11 DEF ChatWalks, Served, Chat!Walking
<1>13. /\ DOMAIN posted = 1 .. Len(posted) /\ DOMAIN posted' = 1 .. Len(posted) + 1
       /\ Len(posted) \in Nat /\ posted'[Len(posted) + 1] = m
       /\ \A a \in DOMAIN posted : posted'[a] = posted[a] /\ posted[a] \in Post /\ posted[a] # m
  <2>1. m \notin Chat!Range(posted)
    BY <1>1 DEF ChatInv, ChatLists
  <2>2. \A a \in DOMAIN posted : posted[a] \in Post /\ posted[a] # m
    BY <1>2, <2>1, LenProperties, ElementOfSeq DEF Chat!Range
  <2>3. QED
    BY <1>1, <1>2, <2>2, Appended
<1>14. \A n \in Post : during'[n] = IF n = m THEN {o \in Post : Chat!Walking(o)} ELSE during[n]
  BY <1>1 DEF ChatInv, ChatTypes
<1>15. \A n \in Post \ {m} : Chat!Walking(n)' <=> Chat!Walking(n)
  BY <1>6 DEF Chat!Walking
<1>16. ASSUME NEW a \in DOMAIN posted', NEW b \in DOMAIN posted', a < b, place'[posted'[a]].step = "walking"
       PROVE  posted'[a] \in during'[posted'[b]]
  <2>1. a \in DOMAIN posted
    BY <1>13, <1>16
  <2>2. posted'[a] = posted[a] /\ posted[a] \in Post \ {m}
    BY <1>13, <2>1
  <2>3. Chat!Walking(posted[a])
    BY <1>15, <1>16, <2>2 DEF Chat!Walking
  <2>4. CASE b \in DOMAIN posted
    BY <1>13, <1>14, <1>16, <2>1, <2>2, <2>3, <2>4 DEF ChatInv, ChatOrder
  <2>5. CASE b = Len(posted) + 1
    BY <1>13, <1>14, <2>2, <2>3, <2>5
  <2>6. QED
    BY <1>13, <2>4, <2>5
<1>17. ASSUME NEW s \in Socket, NEW a \in DOMAIN posted', NEW b \in DOMAIN posted',
              NEW i \in DOMAIN received[s], NEW j \in DOMAIN received[s],
              a < b, i < j, received[s][i] = posted'[b], received[s][j] = posted'[a]
       PROVE  posted'[a] \in during'[posted'[b]]
  <2>1. received[s][i] # m /\ received[s][j] # m
    BY <1>9 DEF Chat!Range
  <2>2. a \in DOMAIN posted /\ b \in DOMAIN posted
    BY <1>13, <1>17, <2>1
  <2>3. QED
    BY <1>13, <1>14, <1>17, <2>2 DEF ChatInv, ChatOrder
<1>18. ChatOrder'
  <2>1. received' = received
    BY <1>1
  <2>2. QED
    BY <1>16, <1>17, <2>1 DEF ChatOrder, Chat!Walking
<1>19. QED
  BY <1>7, <1>8, <1>12, <1>18 DEF ChatInv

\* The next listener of the walk gets the message, or is dropped.
LEMMA ChatBroadcasts ==
    ASSUME ChatInv, NEW m \in Post, Chat!broadcast(m)
    PROVE  ChatInv'
<1> DEFINE k == place[m].index + 1
           s == listeners[k]
<1>1. /\ Chat!Walking(m) /\ place[m].index < Len(listeners)
      /\ place' = [place EXCEPT ![m].index = @ + 1]
      /\ IF link[s] = "open"
           THEN received' = [received EXCEPT ![s] = Append(@, m)] /\ UNCHANGED failed
           ELSE failed' = [failed EXCEPT ![m] = @ \cup {s}] /\ UNCHANGED received
      /\ UNCHANGED <<listeners, posted, link, audience, missed, during>>
  BY DEF Chat!broadcast, Chat!history
<1>2. /\ place \in [Post -> Walk] /\ listeners \in Seq(Socket) /\ posted \in Seq(Post)
      /\ received \in [Socket -> Seq(Post)] /\ failed \in [Post -> SUBSET Socket]
  BY DEF ChatInv, ChatTypes
<1>3. /\ DOMAIN listeners = 1 .. Len(listeners) /\ Len(listeners) \in Nat
      /\ Chat!Range(listeners) \subseteq Socket /\ \A n \in Post : place[n].index \in Nat
  BY <1>2, LenProperties, ElementOfSeq DEF Chat!Range, Walk
<1>4. k \in DOMAIN listeners /\ s \in Socket /\ s \in Chat!Range(listeners)
  BY <1>1, <1>3 DEF Chat!Range
<1>5. place' \in [Post -> Walk]
  <2>1. ASSUME NEW r \in Walk PROVE [r EXCEPT !.index = r.index + 1] \in Walk
    BY DEF Walk
  <2>2. QED
    BY <1>1, <1>2, <2>1
<1>6. \A n \in Post : /\ place'[n].index = IF n = m THEN k ELSE place[n].index
                      /\ place'[n].step = place[n].step
  BY <1>1, <1>2 DEF Walk
<1>7. m \notin Chat!Range(received[s]) /\ m \in Chat!Range(posted) /\ place[m].step = "walking"
  <2>1. ~(k <= place[m].index)
    BY <1>3
  <2>2. m \notin Chat!Range(received[s])
    BY <1>1, <1>4, <2>1 DEF ChatInv, ChatWalks
  <2>3. QED
    BY <1>1, <2>2 DEF ChatInv, ChatLists, Chat!Walking
<1>8. /\ Append(received[s], m) \in Seq(Post)
      /\ Chat!Range(Append(received[s], m)) = Chat!Range(received[s]) \cup {m}
      /\ Chat!IsInjective(Append(received[s], m))
  BY <1>2, <1>4, <1>7, Appended DEF ChatInv, ChatLists
<1> HIDE DEF s, k
<1>9. /\ received' \in [Socket -> Seq(Post)] /\ failed' \in [Post -> SUBSET Socket]
      /\ \A o \in Socket : received'[o] = IF link[s] = "open" /\ o = s
                                            THEN Append(received[s], m) ELSE received[o]
      /\ \A n \in Post : failed[n] \subseteq failed'[n]
      /\ link[s] # "open" => s \in failed'[m]
  <2>1. CASE link[s] = "open"
    BY <1>1, <1>2, <1>4, <1>8, <2>1
  <2>2. CASE link[s] # "open"
    <3>1. failed' = [failed EXCEPT ![m] = failed[m] \cup {s}] /\ received' = received
      BY <1>1, <2>2
    <3>2. QED
      BY <1>2, <1>4, <2>2, <3>1
  <2>3. QED
    BY <2>1, <2>2
<1>10. ChatTypes'
  BY <1>1, <1>5, <1>9 DEF ChatInv, ChatTypes
<1>11. ChatLists'
  <2>1. ASSUME NEW o \in Socket
        PROVE  /\ Chat!IsInjective(received'[o])
               /\ Chat!Range(received'[o]) \subseteq Chat!Range(posted)
               /\ link[o] = "new" => received'[o] = << >>
    <3>1. CASE link[s] = "open" /\ o = s
      <4>1. received'[o] = Append(received[s], m) /\ link[o] # "new"
        BY <1>9, <3>1
      <4>2. Chat!Range(received[s]) \subseteq Chat!Range(posted)
        BY <1>4 DEF ChatInv, ChatLists
      <4>3. QED
        BY <1>7, <1>8, <4>1, <4>2
    <3>2. CASE ~(link[s] = "open" /\ o = s)
      BY <1>9, <3>2 DEF ChatInv, ChatLists
    <3>3. QED
      BY <3>1, <3>2
  <2>2. \A n \in Post : /\ n \in Chat!Range(posted) <=> place'[n].step # "new"
                        /\ place'[n].step = "new" => place'[n].index = 0
    BY <1>6, <1>7 DEF ChatInv, ChatLists
  <2>3. QED
    BY <1>1, <2>1, <2>2 DEF ChatInv, ChatLists
<1>12. \A n \in Post, o \in Socket : Served(n, o) => Served(n, o)'
  BY <1>8, <1>9 DEF Served
<1>13. m \in Chat!Range(received'[s]) \/ s \in failed'[m]
  BY <1>4, <1>8, <1>9
<1>14. ASSUME NEW n \in Post, Chat!Walking(n), NEW i \in DOMAIN listeners,
              n \in Chat!Range(received'[listeners[i]])
       PROVE  i <= place'[n].index
  <2>1. listeners[i] \in Socket
    BY <1>3 DEF Chat!Range
  <2>2. CASE n \in Chat!Range(received[listeners[i]])
    <3>1. i <= place[n].index
      BY <1>14, <2>2 DEF ChatInv, ChatWalks
    <3>2. i \in Int /\ place[n].index \in Int /\ place[n].index <= place'[n].index
      BY <1>3, <1>6 DEF k
    <3>3. QED
      BY <1>3, <1>6, <3>1, <3>2 DEF k
  <2>3. CASE n \notin Chat!Range(received[listeners[i]])
    <3>1. n = m /\ listeners[i] = s
      BY <1>8, <1>9, <1>14, <2>1, <2>3
    <3>2. i = k
      BY <1>4, <3>1 DEF ChatInv, ChatLists, Chat!IsInjective, s
    <3>3. QED
      BY <1>3, <1>6, <3>1, <3>2
  <2>4. QED
    BY <2>2, <2>3
<1>15. ASSUME NEW n \in Post, place[n].step # "new", NEW o \in audience[n]
       PROVE  \/ Served(n, o)' \/ o \in missed[n]
              \/ Chat!Walking(n) /\ \E i \in DOMAIN listeners :
                   listeners[i] = o /\ i > place'[n].index
  <2>1. o \in Socket
    BY DEF ChatInv, ChatTypes
  <2>2. CASE Served(n, o) \/ o \in missed[n]
    BY <1>12, <2>1, <2>2
  <2>3. CASE ~(Served(n, o) \/ o \in missed[n])
    <3>1. Chat!Walking(n)
      BY <1>15, <2>3 DEF ChatInv, ChatWalks
    <3>2. PICK i \in DOMAIN listeners : listeners[i] = o /\ i > place[n].index
      BY <1>15, <2>3 DEF ChatInv, ChatWalks
    <3>3. CASE n = m /\ i = k
      BY <1>13, <3>2, <3>3 DEF s, Served
    <3>4. CASE ~(n = m /\ i = k)
      <4>1. i > place'[n].index
        BY <1>3, <1>6, <3>2, <3>4 DEF k
      <4>2. QED
        BY <3>1, <3>2, <4>1
    <3>5. QED
      BY <3>3, <3>4
  <2>4. QED
    BY <2>2, <2>3
<1>16. \A n \in Post : Chat!Walking(n)' <=> Chat!Walking(n)
  BY <1>6 DEF Chat!Walking
<1>17. ChatWalks'
  BY <1>1, <1>6, <1>14, <1>15, <1>16 DEF ChatWalks
<1>18. ASSUME NEW o \in Socket, NEW a \in DOMAIN posted, NEW b \in DOMAIN posted,
              NEW i \in DOMAIN received'[o], NEW j \in DOMAIN received'[o],
              a < b, i < j, received'[o][i] = posted[b], received'[o][j] = posted[a]
       PROVE  posted[a] \in during[posted[b]]
  <2>1. CASE link[s] = "open" /\ o = s
    <3>1. received[o] \in Seq(Post) /\ received'[o] = Append(received[o], m)
      BY <1>2, <1>9, <2>1
    <3>2. /\ DOMAIN received[o] = 1 .. Len(received[o]) /\ Len(received[o]) \in Nat
          /\ DOMAIN received'[o] = 1 .. Len(received[o]) + 1
          /\ \A n \in DOMAIN received[o] : received'[o][n] = received[o][n]
          /\ received'[o][Len(received[o]) + 1] = m
      BY <3>1, Appended
    <3>3. CASE j \in DOMAIN received[o]
      <4>1. i \in DOMAIN received[o]
        BY <1>18, <3>2, <3>3
      <4>2. QED
        BY <1>18, <3>2, <3>3, <4>1 DEF ChatInv, ChatOrder
    <3>4. CASE j = Len(received[o]) + 1
      <4>1. posted[a] = m
        BY <1>18, <3>2, <3>4
      <4>2. QED
        BY <1>1, <1>18, <4>1 DEF ChatInv, ChatOrder
    <3>5. QED
      BY <3>2, <3>3, <3>4
  <2>2. CASE ~(link[s] = "open" /\ o = s)
    <3>1. received'[o] = received[o]
      BY <1>9, <2>2
    <3>2. QED
      BY <1>18, <3>1 DEF ChatInv, ChatOrder
  <2>3. QED
    BY <2>1, <2>2
<1>19. \A a, b \in DOMAIN posted :
         a < b /\ Chat!Walking(posted[a])' => posted[a] \in during[posted[b]]
  <2>1. \A a \in DOMAIN posted : posted[a] \in Post
    BY <1>2, LenProperties, ElementOfSeq
  <2>2. \A a \in DOMAIN posted : Chat!Walking(posted[a])' => Chat!Walking(posted[a])
    BY <1>1, <1>6, <2>1 DEF Chat!Walking
  <2>3. QED
    BY <2>2 DEF ChatInv, ChatOrder
<1>20. ChatOrder'
  BY <1>1, <1>18, <1>19 DEF ChatOrder, Chat!Walking
<1>21. QED
  BY <1>10, <1>11, <1>17, <1>20 DEF ChatInv

\* Every step of the sockets and of the posts keeps it.
LEMMA ChatStep == ChatInv /\ [Chat!Next]_(Chat!chatVars) => ChatInv'
<1> SUFFICES ASSUME ChatInv, [Chat!Next]_(Chat!chatVars) PROVE ChatInv'
  OBVIOUS
<1>1. CASE UNCHANGED Chat!chatVars
  BY <1>1 DEF Chat!chatVars, Chat!history, ChatInv, ChatTypes, ChatLists, ChatWalks, ChatOrder, Served, Chat!Walking
<1>2. CASE Chat!Next
  BY <1>2, ChatConnects, ChatCloses, ChatPosts, ChatBroadcasts, ChatFinishes DEF Chat!Next
<1>3. QED
  BY <1>1, <1>2

-------------------------------------------------------------------------------
(* All components.                                                             *)

ServicesInv ==
    /\ LimiterInv /\ PlannerInv /\ DispatchInv /\ CostInv /\ PerformanceInv /\ MetricsInv
    /\ RetrievalInv /\ BuilderInv /\ PulseInv /\ LedgerInv /\ DashboardInv /\ ChatInv
    /\ RouterInv /\ LoopInv /\ TournamentInv

\* Every component starts in its invariant, whichever of them runs.
LEMMA ServicesInit == Init => ServicesInv
BY ServicesAssumption, LimiterInit, PlannerInit, DispatchInit, CostInit, PerformanceInit, MetricsInit,
   RetrievalInit, BuilderInit, PulseInitial, LedgerInit, DashboardInit, ChatInit,
   RouterInit, LoopInit, TournamentInit
   DEF ServicesAssumption, Init, Start, ServicesInv

\* The one that moves keeps its invariant, the others stay where they are.
LEMMA ServicesStep == ServicesInv /\ [Next]_vars => ServicesInv'
<1> SUFFICES ASSUME ServicesInv, [Next]_vars PROVE ServicesInv'
  OBVIOUS
<1>1. LimiterInv' /\ PlannerInv' /\ DispatchInv' /\ CostInv'
  BY ServicesAssumption, LimiterMoves, LimiterStep, PlannerMoves, PlannerStep, DispatchMoves, DispatchStep, CostMoves,
     CostStep DEF ServicesInv
<1>2. PerformanceInv' /\ MetricsInv' /\ RetrievalInv' /\ BuilderInv'
  BY ServicesAssumption, PerformanceMoves, PerformanceStep, MetricsMoves, MetricsStep,
     RetrievalMoves, RetrievalStep, BuilderMoves, BuilderStep DEF ServicesInv
<1>3. PulseInv' /\ LedgerInv' /\ DashboardInv' /\ ChatInv'
  BY ServicesAssumption, PulseMoves, PulseStep, LedgerMoves, LedgerStep, DashboardMoves,
     DashboardStep, ChatMoves, ChatStep DEF ServicesInv
<1>4. RouterInv' /\ LoopInv' /\ TournamentInv'
  BY ServicesAssumption, RouterMoves, RouterStep, LoopMoves, LoopStep, TournamentMoves,
     TournamentStep DEF ServicesInv, ServicesAssumption
<1>5. QED
  BY <1>1, <1>2, <1>3, <1>4 DEF ServicesInv

\* The invariants of all components hold together in every behaviour.
LEMMA ServicesInvariant == Spec => []ServicesInv
BY ServicesInit, ServicesStep, PTL DEF Spec

\* The types follow from the invariants of the components.
LEMMA ServicesTypes == ServicesInv => TypeOK
BY ServicesAssumption, PlannerTrue, DispatchTrue, CostTrue, PerformanceTypes, RetrievalTrue,
   BuilderTrue, PulseTrue, LedgerTrue, DashboardTrue, ChatTrue, RouterTrue,
   LoopTrue, TournamentTrue
   DEF ServicesInv, ServicesAssumption, TypeOK, MetricsInv, LimiterInv

(* In every behaviour, whatever runs: the state of every component keeps its   *)
(* type; no counter of a file goes below zero, no request is invoked oftener   *)
(* than it may be, and no page or message lies outside its list.               *)
THEOREM TypeCorrect == Spec => []TypeOK
BY ServicesInvariant, ServicesTypes, PTL

(* In every behaviour: run_planner() answers what the model last said after a  *)
(* conversation that gives every call its own result; a builder call that      *)
(* reports success opened its own pull request after all its changes were      *)
(* written and tested, while others push, merge, close and rewrite the same    *)
(* files; and a health report raises what was the case while it was computed,  *)
(* and misses nothing that was the case all along.                             *)
THEOREM AnswersHold == Spec => []AnswersAreEarned
<1>1. ServicesInv => AnswersAreEarned
  BY ServicesAssumption, PlannerTrue, BuilderTrue, PulseTrue DEF ServicesInv, AnswersAreEarned
<1>2. QED
  BY <1>1, ServicesInvariant, PTL

(* In every behaviour: however many processes rewrite the files of costs,      *)
(* requests and metrics, and lose what others wrote, no file and no process    *)
(* counts more than was recorded, and no budget is reported exceeded that is   *)
(* not; the rate limiter gives out no more than the burst and the time allow.  *)
THEOREM CountsHold == Spec => []CountsAreTrue
<1>1. ServicesInv => CountsAreTrue
  BY ServicesAssumption, CostTrue, PerformanceCounts, MetricsTrue
     DEF ServicesInv, LimiterInv, CountsAreTrue
<1>2. QED
  BY <1>1, ServicesInvariant, PTL

(* In every behaviour: a hash that says "already embedded" has its row, or a   *)
(* call at work that will write the row or drop the hash, under any number of  *)
(* concurrent calls, edits of the files, failures and restarts; and up to two  *)
(* calls, who check the daily cap with an estimate and record what was used,   *)
(* exceed it by no more than the usage of one request each.                    *)
THEOREM IndexHolds == Spec => []IndexIsSound
<1>1. ServicesInv => IndexIsSound
  BY ServicesAssumption, RetrievalTrue DEF ServicesInv, IndexIsSound
<1>2. QED
  BY <1>1, ServicesInvariant, PTL

(* In every behaviour: each move in a history, and the phase that the CLI or   *)
(* the web router shows for a work item, was logged or is the move to OPERATE  *)
(* of a cycle whose append failed and whose handler saved it, although each    *)
(* writer puts down whole rows from the one it read.                           *)
THEOREM LedgersHold == Spec => []LedgersAreLogged
<1>1. ServicesInv => LedgersAreLogged
  BY ServicesAssumption, LedgerTrue DEF ServicesInv, LedgersAreLogged
<1>2. QED
  BY <1>1, ServicesInvariant, PTL

(* In every behaviour: what a client of the event stream was sent and what     *)
(* waits for it is the log since it was registered, until the feed ends; a     *)
(* listener of the chat gets each message posted while it was connected, once, *)
(* but for those that a removal took from what the broadcast had before it,    *)
(* and in the order of the posts, but for those whose broadcasts overlapped.   *)
THEOREM FeedsHold == Spec => []FeedsAreComplete
<1>1. ServicesInv => FeedsAreComplete
  BY ServicesAssumption, DashboardTrue, ChatTrue DEF ServicesInv, FeedsAreComplete
<1>2. QED
  BY <1>1, ServicesInvariant, PTL

(* In every behaviour: execute_with_fallback() gives up only when every model  *)
(* of its chain was tried, each once if the configuration names none twice,    *)
(* and a model's counters are the attempts made of it; AutonomousLoop          *)
(* remembers every run with the outcome that its caller was told, across saves *)
(* and restarts, and what a second attempt does not satisfy none will; a       *)
(* tournament only exchanges rating points, but for half of K that an agent    *)
(* loses by beating itself, its tallies are of the matches played, and a       *)
(* leaderboard has every result of its benchmark, the best first.              *)
THEOREM RecordsHold == Spec => []RecordsAddUp
<1>1. ServicesInv => RecordsAddUp
  BY ServicesAssumption, RouterTrue, LoopTrue, TournamentTrue
     DEF ServicesInv, ServicesAssumption, RecordsAddUp
<1>2. QED
  BY <1>1, ServicesInvariant, PTL

(* In every behaviour: no more tools run at once than the semaphore of         *)
(* batch_execute() has permits, whatever the batches and the retries.          *)
THEOREM PermitsSuffice == Spec => [](Cardinality(Dispatcher!Running) <= MAX_CONCURRENCY)
<1>1. ServicesInv => Cardinality(Dispatcher!Running) <= MAX_CONCURRENCY
  BY DEF ServicesInv, DispatchInv
<1>2. QED
  BY <1>1, ServicesInvariant, PTL
===============================================================================
