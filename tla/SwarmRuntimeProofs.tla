-------------------------- MODULE SwarmRuntimeProofs --------------------------
(* The prompts of the swarm, for any signals, budgets and numbers of prompts   *)
(* and starts: none is processed twice, out of order, or lost in the queue,    *)
(* and the tick keeps to its hourly budget.                                    *)
EXTENDS SwarmRuntime, SublistsProofs

Rising(s) == \A i, j \in DOMAIN s : i < j => s[i] < s[j]

Before(s, t) == \A i \in DOMAIN s, j \in DOMAIN t : s[i] < t[j]

Types ==
    /\ typed \in Nat
    /\ wrote \in Seq(ToSet(wrote))
    /\ handled \in Seq(Nat) /\ batch \in Seq(Nat) /\ queue \in Seq(Nat)

\* PromptsInOrder without concatenations.
Places ==
    /\ Rising(handled) /\ Rising(batch) /\ Rising(queue)
    /\ Before(handled, batch) /\ Before(handled, queue) /\ Before(batch, queue)
    /\ (ToSet(handled) \cup ToSet(batch) \cup ToSet(queue)) \cap lost = {}
    /\ ToSet(handled) \cup ToSet(batch) \cup ToSet(queue) \cup lost = 1 .. issued

\* run_single() has a batch; elsewhere dequeue_prompts() overwrites nothing.
BatchInUse == pc \notin {"prompts", "process", "fallback"} => batch = << >>

IInv == Types /\ Places /\ BatchInUse

-------------------------------------------------------------------------------
(* Sequences.                                                                   *)

LEMMA EmptyFacts ==
    /\ << >> \in Seq(Nat) /\ DOMAIN << >> = {} /\ ToSet(<< >>) = {}
    /\ Rising(<< >>) /\ \A s : Before(<< >>, s) /\ Before(s, << >>)
BY EmptySeq DEF ToSet, Rising, Before

LEMMA AppendFacts ==
    ASSUME NEW s \in Seq(Nat), NEW x \in Nat
    PROVE  /\ Append(s, x) \in Seq(Nat)
           /\ ToSet(Append(s, x)) = ToSet(s) \cup {x}
           /\ \A i \in DOMAIN Append(s, x) :
                \/ i \in DOMAIN s /\ i <= Len(s) /\ Append(s, x)[i] = s[i]
                \/ i = Len(s) + 1 /\ Append(s, x)[i] = x
<1>1. /\ Append(s, x) \in Seq(Nat)
      /\ Len(s) \in Nat /\ Len(Append(s, x)) = Len(s) + 1
      /\ DOMAIN s = 1 .. Len(s) /\ DOMAIN Append(s, x) = 1 .. (Len(s) + 1)
      /\ \A i \in 1 .. Len(s) : Append(s, x)[i] = s[i]
      /\ Append(s, x)[Len(s) + 1] = x
  BY AppendProperties, LenProperties
<1>2. \A i \in DOMAIN Append(s, x) :
        \/ i \in DOMAIN s /\ i <= Len(s) /\ Append(s, x)[i] = s[i]
        \/ i = Len(s) + 1 /\ Append(s, x)[i] = x
  BY <1>1
<1>3. \A i \in DOMAIN s : i \in DOMAIN Append(s, x) /\ Append(s, x)[i] = s[i]
  BY <1>1
<1>4. Len(s) + 1 \in DOMAIN Append(s, x)
  BY <1>1
<1>5. ToSet(Append(s, x)) \subseteq ToSet(s) \cup {x}
  BY <1>2 DEF ToSet
<1>6. ToSet(s) \cup {x} \subseteq ToSet(Append(s, x))
  BY <1>1, <1>3, <1>4 DEF ToSet
<1>7. QED
  BY <1>1, <1>2, <1>5, <1>6

LEMMA HeadTailFacts ==
    ASSUME NEW s \in Seq(Nat), s # << >>
    PROVE  /\ Head(s) \in Nat /\ Tail(s) \in Seq(Nat)
           /\ 1 \in DOMAIN s /\ Head(s) = s[1]
           /\ \A i \in DOMAIN Tail(s) : i \in Nat /\ i >= 1 /\ i + 1 \in DOMAIN s /\ Tail(s)[i] = s[i + 1]
           /\ ToSet(s) = {Head(s)} \cup ToSet(Tail(s))
<1>1. /\ Head(s) \in Nat /\ Tail(s) \in Seq(Nat)
      /\ Len(Tail(s)) = Len(s) - 1
      /\ \A i \in 1 .. Len(Tail(s)) : Tail(s)[i] = s[i + 1]
  BY HeadTailProperties
<1>2. /\ Len(s) \in Nat /\ Len(s) >= 1 /\ DOMAIN s = 1 .. Len(s)
      /\ DOMAIN Tail(s) = 1 .. (Len(s) - 1)
  BY <1>1, EmptySeq, LenProperties
<1>3. 1 \in DOMAIN s /\ Head(s) = s[1]
  BY <1>2
<1>4. \A i \in DOMAIN Tail(s) : i \in Nat /\ i >= 1 /\ i + 1 \in DOMAIN s /\ Tail(s)[i] = s[i + 1]
  BY <1>1, <1>2
<1>5. \A i \in DOMAIN s : i = 1 \/ (i - 1 \in DOMAIN Tail(s) /\ s[i] = Tail(s)[i - 1])
  BY <1>1, <1>2
<1>6. ToSet(s) = {Head(s)} \cup ToSet(Tail(s))
  <2>1. ToSet(s) \subseteq {Head(s)} \cup ToSet(Tail(s))
    BY <1>3, <1>5 DEF ToSet
  <2>2. Head(s) \in ToSet(s)
    BY <1>3 DEF ToSet
  <2>3. ToSet(Tail(s)) \subseteq ToSet(s)
    BY <1>4 DEF ToSet
  <2>4. QED
    BY <2>1, <2>2, <2>3
<1>7. QED
  BY <1>1, <1>3, <1>4, <1>6

\* Two rising sequences, the one before the other, make a rising one.
LEMMA ConcatFacts ==
    ASSUME NEW s \in Seq(Nat), NEW t \in Seq(Nat)
    PROVE  /\ s \o t \in Seq(Nat)
           /\ ToSet(s \o t) = ToSet(s) \cup ToSet(t)
           /\ Rising(s) /\ Rising(t) /\ Before(s, t) => Rising(s \o t)
           /\ \A u \in Seq(Nat) : Before(s, u) /\ Before(t, u) => Before(s \o t, u)
<1>1. /\ s \o t \in Seq(Nat)
      /\ Len(s \o t) = Len(s) + Len(t)
      /\ \A i \in 1 .. Len(s) + Len(t) :
           (s \o t)[i] = IF i <= Len(s) THEN s[i] ELSE t[i - Len(s)]
  BY ConcatProperties
<1>2. /\ Len(s) \in Nat /\ Len(t) \in Nat
      /\ DOMAIN s = 1 .. Len(s) /\ DOMAIN t = 1 .. Len(t)
      /\ DOMAIN (s \o t) = 1 .. Len(s) + Len(t)
  BY <1>1, LenProperties
<1>3. \A i \in DOMAIN (s \o t) :
        \/ i \in DOMAIN s /\ (s \o t)[i] = s[i]
        \/ i > Len(s) /\ i - Len(s) \in DOMAIN t /\ (s \o t)[i] = t[i - Len(s)]
  BY <1>1, <1>2
<1>4. \A i \in DOMAIN s : i \in DOMAIN (s \o t) /\ (s \o t)[i] = s[i]
  BY <1>1, <1>2
<1>5. \A i \in DOMAIN t : i + Len(s) \in DOMAIN (s \o t) /\ (s \o t)[i + Len(s)] = t[i]
  BY <1>1, <1>2
<1>6. ToSet(s \o t) = ToSet(s) \cup ToSet(t)
  <2>1. ToSet(s \o t) \subseteq ToSet(s) \cup ToSet(t)
    BY <1>3 DEF ToSet
  <2>2. ToSet(s) \subseteq ToSet(s \o t)
    BY <1>4 DEF ToSet
  <2>3. ToSet(t) \subseteq ToSet(s \o t)
    BY <1>5 DEF ToSet
  <2>4. QED
    BY <2>1, <2>2, <2>3
<1>7. ASSUME Rising(s), Rising(t), Before(s, t) PROVE Rising(s \o t)
  <2> SUFFICES ASSUME NEW i \in DOMAIN (s \o t), NEW j \in DOMAIN (s \o t), i < j
               PROVE  (s \o t)[i] < (s \o t)[j]
    BY DEF Rising
  <2>1. CASE i > Len(s)
    <3>1. /\ i - Len(s) \in DOMAIN t /\ (s \o t)[i] = t[i - Len(s)]
          /\ j - Len(s) \in DOMAIN t /\ (s \o t)[j] = t[j - Len(s)]
          /\ i - Len(s) < j - Len(s)
      BY <2>1, <1>2, <1>3
    <3>2. QED
      BY <3>1, <1>7 DEF Rising
  <2>2. CASE i <= Len(s)
    <3>1. i \in DOMAIN s /\ (s \o t)[i] = s[i]
      BY <2>2, <1>2, <1>4
    <3>2. \/ j \in DOMAIN s /\ (s \o t)[j] = s[j]
          \/ j - Len(s) \in DOMAIN t /\ (s \o t)[j] = t[j - Len(s)]
      BY <1>3
    <3>3. QED
      BY <3>1, <3>2, <1>7 DEF Rising, Before
  <2>3. QED
    BY <2>1, <2>2, <1>2
<1>8. ASSUME NEW u \in Seq(Nat), Before(s, u), Before(t, u) PROVE Before(s \o t, u)
  BY <1>3, <1>8 DEF Before
<1>9. QED
  BY <1>1, <1>6, <1>7, <1>8

LEMMA PlacesGiveOrder == IInv => PromptsInOrder
<1> SUFFICES ASSUME IInv PROVE PromptsInOrder
  OBVIOUS
<1> DEFINE most == handled \o batch
           all == most \o queue
<1>1. /\ handled \in Seq(Nat) /\ batch \in Seq(Nat) /\ queue \in Seq(Nat)
      /\ Rising(handled) /\ Rising(batch) /\ Rising(queue)
      /\ Before(handled, batch) /\ Before(handled, queue) /\ Before(batch, queue)
  BY DEF IInv, Types, Places
<1>2. /\ most \in Seq(Nat) /\ Rising(most) /\ Before(most, queue)
      /\ ToSet(most) = ToSet(handled) \cup ToSet(batch)
  BY <1>1, ConcatFacts
<1>3. Rising(all) /\ ToSet(all) = ToSet(most) \cup ToSet(queue)
  <2> HIDE DEF most
  <2>1. QED
    BY <1>1, <1>2, ConcatFacts
<1>4. ToSet(all) \cap lost = {} /\ ToSet(all) \cup lost = 1 .. issued
  <2> HIDE DEF all, most
  <2>1. QED
    BY <1>2, <1>3 DEF IInv, Places
<1>5. PromptsInOrder <=> /\ Rising(all)
                         /\ ToSet(all) \cap lost = {}
                         /\ ToSet(all) \cup lost = 1 .. issued
  BY DEF PromptsInOrder, Rising
<1>6. QED
  BY <1>3, <1>4, <1>5

-------------------------------------------------------------------------------
(* Steps.                                                                       *)

LEMMA InitInvariant == Init => IInv
<1> SUFFICES ASSUME Init PROVE IInv
  OBVIOUS
<1>1. issued = 0
  BY EmptySeq DEF Init, issued
<1>2. << >> \in Seq(ToSet(<< >>))
  BY EmptySeq
<1>3. QED
  BY <1>1, <1>2, EmptyFacts DEF Init, IInv, Types, Places, BatchInUse

\* What no prompt takes part in.
LEMMA QuietKeeps ==
    ASSUME IInv, UNCHANGED <<queue, handled, batch, lost, wrote, typed>>,
           pc \in {"prompts", "process", "fallback"} \/ batch = << >>,
           pc' \in {"prompts", "process", "fallback"} \/ batch = << >>
    PROVE  IInv'
BY DEF IInv, Types, Places, BatchInUse, Rising, Before, ToSet, issued

LEMMA IssuedType ==
    ASSUME Types
    PROVE  issued \in Nat
BY LenProperties DEF Types, issued

\* The next prompt comes after everything that is queued, held or handled.
LEMMA EnqueueKeeps ==
    ASSUME IInv, queue' = Append(queue, issued + 1), issued' = issued + 1,
           typed' \in Nat, wrote' \in Seq(ToSet(wrote')),
           UNCHANGED <<pc, handled, batch, lost>>
    PROVE  IInv'
<1>1. issued \in Nat
  BY IssuedType DEF IInv
<1>2. handled \in Seq(Nat) /\ batch \in Seq(Nat) /\ queue \in Seq(Nat)
  BY DEF IInv, Types
<1>3. /\ queue' \in Seq(Nat)
      /\ ToSet(queue') = ToSet(queue) \cup {issued + 1}
      /\ \A i \in DOMAIN queue' : \/ i \in DOMAIN queue /\ i <= Len(queue) /\ queue'[i] = queue[i]
                                  \/ i = Len(queue) + 1 /\ queue'[i] = issued + 1
  BY <1>1, <1>2, AppendFacts
<1>4. \A s \in {handled, batch, queue} : \A i \in DOMAIN s : s[i] \in 1 .. issued
  BY DEF IInv, Places, ToSet
<1>5. Rising(queue')
  <2>1. DOMAIN queue = 1 .. Len(queue) /\ Len(queue) \in Nat
    BY <1>2, LenProperties
  <2>2. QED
    BY <1>1, <1>3, <1>4, <2>1 DEF IInv, Places, Rising
<1>6. Before(handled, queue') /\ Before(batch, queue')
  BY <1>1, <1>3, <1>4 DEF IInv, Places, Before
<1>7. /\ (ToSet(handled) \cup ToSet(batch) \cup ToSet(queue')) \cap lost = {}
      /\ ToSet(handled) \cup ToSet(batch) \cup ToSet(queue') \cup lost = 1 .. issued'
  <2>1. 1 .. issued' = (1 .. issued) \cup {issued + 1} /\ issued + 1 \notin 1 .. issued
    BY <1>1
  <2>2. lost \subseteq 1 .. issued
    BY DEF IInv, Places
  <2>3. QED
    BY <1>3, <2>1, <2>2 DEF IInv, Places
<1>8. Types' /\ BatchInUse'
  BY <1>3 DEF IInv, Types, BatchInUse
<1>9. Places'
  <2>1. Rising(handled') /\ Rising(batch') /\ Before(handled', batch')
    BY DEF IInv, Places
  <2>2. Before(handled', queue') /\ Before(batch', queue')
    BY <1>6
  <2>3. /\ (ToSet(handled') \cup ToSet(batch') \cup ToSet(queue')) \cap lost' = {}
        /\ ToSet(handled') \cup ToSet(batch') \cup ToSet(queue') \cup lost' = 1 .. issued'
    BY <1>7
  <2>4. QED
    BY <1>5, <2>1, <2>2, <2>3 DEF Places, Rising, Before, ToSet
<1>10. QED
  BY <1>8, <1>9 DEF IInv

LEMMA TypedKeeps ==
    ASSUME IInv, enqueue_prompt
    PROVE  IInv'
<1>1. issued' = issued + 1
  BY LenProperties DEF IInv, Types, enqueue_prompt, issued, thread
<1>2. QED
  BY <1>1, EnqueueKeeps DEF IInv, Types, enqueue_prompt, loop, thread, ToSet

LEMMA DispatchKeeps ==
    ASSUME IInv, dispatch
    PROVE  IInv'
<1> DEFINE x == Last(mem.window)
           S == ToSet(wrote) \cup {x}
<1>1. wrote \in Seq(S)
  BY SeqMonotonic DEF IInv, Types
<1>2. /\ wrote' \in Seq(S) /\ Len(wrote') = Len(wrote) + 1
      /\ \A i \in 1 .. Len(wrote) : wrote'[i] = wrote[i]
      /\ wrote'[Len(wrote) + 1] = x
  <2>1. x \in S /\ wrote' = Append(wrote, x)
    BY DEF dispatch
  <2> HIDE DEF S, x
  <2>2. QED
    BY <1>1, <2>1, AppendProperties
<1>3. wrote' \in Seq(ToSet(wrote'))
  <2>1. DOMAIN wrote' = 1 .. Len(wrote') /\ Len(wrote') \in Nat
    BY <1>2, LenProperties
  <2>2. wrote' \in [1 .. Len(wrote') -> ToSet(wrote')]
    <3>1. wrote' = [i \in 1 .. Len(wrote') |-> wrote'[i]]
      BY <1>2, <2>1
    <3>2. \A i \in 1 .. Len(wrote') : wrote'[i] \in ToSet(wrote')
      BY <2>1 DEF ToSet
    <3>3. QED
      BY <3>1, <3>2
  <2>3. QED
    BY <2>1, <2>2, SeqDef
<1>4. issued' = issued + 1
  BY <1>1, <1>2, LenProperties DEF IInv, Types, dispatch, issued, bounds
<1>5. QED
  BY <1>3, <1>4, EnqueueKeeps DEF IInv, Types, dispatch, loop, bounds

\* The batch is empty, so the queue moves into it as it is.
LEMMA DequeueKeeps ==
    ASSUME IInv, dequeue_prompts
    PROVE  IInv'
<1>1. batch = << >> /\ batch' = queue /\ queue' = << >>
  BY DEF IInv, BatchInUse, dequeue_prompts
<1>2. pc' = "prompts" /\ UNCHANGED <<handled, lost, wrote, typed>>
  BY DEF dequeue_prompts, Go, thread, bounds
<1>3. Types' /\ BatchInUse'
  BY <1>1, <1>2, EmptyFacts DEF IInv, Types, BatchInUse
<1>4. Places'
  <2>1. issued' = issued
    BY <1>2 DEF issued
  <2>2. Rising(handled') /\ Rising(batch') /\ Rising(queue')
    BY <1>1, <1>2, EmptyFacts DEF IInv, Places
  <2>3. Before(handled', batch') /\ Before(handled', queue') /\ Before(batch', queue')
    BY <1>1, <1>2, EmptyFacts DEF IInv, Places
  <2>4. ToSet(batch') = ToSet(queue) /\ ToSet(queue') = {} /\ ToSet(batch) = {}
    BY <1>1, EmptyFacts
  <2>5. QED
    BY <1>2, <2>1, <2>2, <2>3, <2>4 DEF IInv, Places, Rising, Before, ToSet
<1>5. QED
  BY <1>3, <1>4 DEF IInv

\* The first of the batch comes after all that was handled.
LEMMA BeginKeeps ==
    ASSUME IInv, BeginPrompt
    PROVE  IInv'
<1>1. /\ batch # << >> /\ batch' = Tail(batch) /\ handled' = Append(handled, Head(batch))
      /\ pc' = "process" /\ UNCHANGED <<queue, lost, wrote, typed>>
  BY DEF BeginPrompt, Go, files, thread, bounds
<1>2. handled \in Seq(Nat) /\ batch \in Seq(Nat) /\ queue \in Seq(Nat)
  BY DEF IInv, Types
<1>3. /\ Head(batch) \in Nat /\ batch' \in Seq(Nat)
      /\ 1 \in DOMAIN batch /\ Head(batch) = batch[1]
      /\ \A i \in DOMAIN batch' :
           i \in Nat /\ i >= 1 /\ i + 1 \in DOMAIN batch /\ batch'[i] = batch[i + 1]
      /\ ToSet(batch) = {Head(batch)} \cup ToSet(batch')
  BY <1>1, <1>2, HeadTailFacts
<1>4. /\ handled' \in Seq(Nat)
      /\ ToSet(handled') = ToSet(handled) \cup {Head(batch)}
      /\ \A i \in DOMAIN handled' :
           \/ i \in DOMAIN handled /\ i <= Len(handled) /\ handled'[i] = handled[i]
           \/ i = Len(handled) + 1 /\ handled'[i] = Head(batch)
  BY <1>1, <1>2, <1>3, AppendFacts
<1>5. Rising(handled') /\ Rising(batch')
  <2>1. DOMAIN handled = 1 .. Len(handled) /\ Len(handled) \in Nat
    BY <1>2, LenProperties
  <2>2. Rising(handled')
    BY <1>3, <1>4, <2>1 DEF IInv, Places, Rising, Before
  <2>3. Rising(batch')
    BY <1>3 DEF IInv, Places, Rising
  <2>4. QED
    BY <2>2, <2>3
<1>6. Before(handled', batch') /\ Before(handled', queue) /\ Before(batch', queue)
  <2>1. Before(handled', batch')
    <3> SUFFICES ASSUME NEW i \in DOMAIN handled', NEW j \in DOMAIN batch'
                 PROVE  handled'[i] < batch'[j]
      BY DEF Before
    <3>1. j \in Nat /\ j >= 1 /\ j + 1 \in DOMAIN batch /\ batch'[j] = batch[j + 1]
      BY <1>3
    <3>2. CASE i \in DOMAIN handled /\ handled'[i] = handled[i]
      BY <3>1, <3>2 DEF IInv, Places, Before
    <3>3. CASE handled'[i] = Head(batch)
      <4>1. batch[1] < batch[j + 1]
        BY <3>1, <1>3 DEF IInv, Places, Rising
      <4>2. QED
        BY <3>1, <3>3, <4>1, <1>3
    <3>4. QED
      BY <1>4, <3>2, <3>3
  <2>2. Before(handled', queue) /\ Before(batch', queue)
    BY <1>3, <1>4 DEF IInv, Places, Before
  <2>3. QED
    BY <2>1, <2>2
<1>7. issued' = issued
  BY <1>1 DEF issued
<1>8. ToSet(handled') \cup ToSet(batch') = ToSet(handled) \cup ToSet(batch)
  BY <1>3, <1>4
<1>9. Places'
  BY <1>1, <1>5, <1>6, <1>7, <1>8 DEF IInv, Places, Rising, Before, ToSet
<1>10. Types' /\ BatchInUse'
  BY <1>1, <1>3, <1>4 DEF IInv, Types, BatchInUse
<1>11. QED
  BY <1>9, <1>10 DEF IInv

\* A loop that dies loses its batch, which shares no prompt with the rest.
LEMMA DropKeeps ==
    ASSUME IInv, DropBatch, UNCHANGED <<queue, handled, wrote, typed>>
    PROVE  IInv'
<1>1. lost' = lost \cup ToSet(batch) /\ batch' = << >> /\ ToSet(batch') = {}
  BY EmptyFacts DEF DropBatch
<1>2. ToSet(batch) \cap (ToSet(handled) \cup ToSet(queue)) = {}
  <2>1. handled \in Seq(Nat) /\ batch \in Seq(Nat) /\ queue \in Seq(Nat)
    BY DEF IInv, Types
  <2>2. /\ \A i \in DOMAIN handled : handled[i] \in Nat
        /\ \A i \in DOMAIN batch : batch[i] \in Nat
        /\ \A i \in DOMAIN queue : queue[i] \in Nat
    BY <2>1, LenProperties, ElementOfSeq
  <2>3. QED
    BY <2>2 DEF IInv, Places, Before, ToSet
<1>3. issued' = issued
  BY DEF issued
<1>4. Types' /\ BatchInUse'
  BY <1>1, EmptyFacts DEF IInv, Types, BatchInUse
<1>5. Places'
  <2>1. Rising(batch') /\ Before(handled', batch') /\ Before(batch', queue')
    BY <1>1, EmptyFacts
  <2>2. Rising(handled') /\ Rising(queue') /\ Before(handled', queue')
    BY DEF IInv, Places
  <2>3. /\ (ToSet(handled) \cup ToSet(batch') \cup ToSet(queue)) \cap lost' = {}
        /\ ToSet(handled) \cup ToSet(batch') \cup ToSet(queue) \cup lost' = 1 .. issued
    BY <1>1, <1>2 DEF IInv, Places
  <2>4. QED
    BY <1>3, <2>1, <2>2, <2>3 DEF Places, Rising, Before, ToSet
<1>6. QED
  BY <1>4, <1>5 DEF IInv

LEMMA NextInvariant ==
    ASSUME IInv, [Next]_vars
    PROVE  IInv'
<1> USE DEF files, loop, thread, bounds
<1>1. CASE UNCHANGED vars
  BY <1>1, QuietKeeps DEF vars, IInv, BatchInUse
<1>2. CASE cmd_prompt \/ inject_prompt
  BY <1>2, TypedKeeps DEF cmd_prompt, inject_prompt
<1>3. CASE cmd_stop \/ stop_swarm \/ Clock
  BY <1>3, QuietKeeps DEF cmd_stop, stop_swarm, request_shutdown, Clock, IInv, BatchInUse
<1>4. CASE Start
  BY <1>4, QuietKeeps DEF Start, Go, IInv, BatchInUse
<1>5. CASE MainStep
  <2>1. CASE Started \/ InitialPrompt \/ CheckShutdown \/ Wake \/ CancelTick \/ ClearFiles \/ Exit
    BY <2>1, QuietKeeps DEF Started, InitialPrompt, CheckShutdown, Wake, CancelTick, ClearFiles,
                            Exit, Go, IInv, BatchInUse
  <2>2. CASE BatchDone \/ Answered \/ should_fallback_to_planner \/ PlannerAnswered
    BY <2>2, QuietKeeps DEF BatchDone, Answered, should_fallback_to_planner, PlannerAnswered,
                            Go, IInv, BatchInUse
  <2>3. CASE Raise
    BY <2>3, DropKeeps DEF Raise
  <2>4. QED
    BY <1>5, <2>1, <2>2, <2>3, DequeueKeeps, BeginKeeps DEF MainStep
<1>6. CASE Kill
  BY <1>6, DropKeeps DEF Kill
<1>7. CASE ThreadStep
  <2>1. CASE TickStops \/ synthesize \/ try_consume \/ Dump \/ RememberDedup \/ PassFails
    BY <2>1, QuietKeeps DEF TickStops, synthesize, try_consume, Dump, RememberDedup, PassFails,
                            IInv, BatchInUse
  <2>2. QED
    BY <1>7, <2>1, DispatchKeeps DEF ThreadStep
<1>8. QED
  BY <1>1, <1>2, <1>3, <1>4, <1>5, <1>6, <1>7 DEF Next

(* However the writers of prompt_queue.jsonl, the loop of main.py, its         *)
(* exceptions and kills interleave: every prompt is processed at most once and *)
(* in the order of arrival, it is somewhere at every moment, and what is lost  *)
(* was in the batch of a loop that died (swarm_ctl.py, dequeue_prompts()).     *)
THEOREM PromptsCorrect == Spec => []PromptsInOrder
<1>1. Init => IInv
  BY InitInvariant
<1>2. IInv /\ [Next]_vars => IInv'
  BY NextInvariant
<1>3. IInv => PromptsInOrder
  BY PlacesGiveOrder
<1>4. QED
  BY <1>1, <1>2, <1>3, PTL DEF Spec

-------------------------------------------------------------------------------
(* The types of the process and of its tick.                                   *)

\* A prompt is paid for and not yet written.
Paying == tick \in {"saving", "append"}

TickTypes ==
    /\ pc \in {"off", "startup", "initial", "check", "dequeue", "prompts",
               "process", "fallback", "sleep", "closing", "clearing", "joining"}
    /\ looping \in BOOLEAN /\ sentinel \in BOOLEAN /\ pid \in BOOLEAN /\ torn \in BOOLEAN
    /\ tick \in {"none", "idle", "consume", "saving", "append", "commit", "committing"}
    /\ todo \in Seq(Signal) /\ written \subseteq Signal
    /\ mem \in Memory /\ saved \in Memory
    /\ wrote \in Seq(Nat) /\ now \in Nat
    /\ Paying => mem.window # << >> /\ todo # << >>
    /\ pc \in {"off", "startup"} => tick = "none"

\* No memory, and the parts of one.
LEMMA MemoryFacts ==
    /\ NoMemory \in Memory
    /\ \A m \in Memory : m.window \in Seq(Nat) /\ m.dedup \in SUBSET Signal
    /\ \A m \in Memory, w \in Seq(Nat) : [m EXCEPT !.window = w] \in Memory
    /\ \A m \in Memory, d \in SUBSET Signal : [m EXCEPT !.dedup = d] \in Memory
BY EmptySeq DEF NoMemory, Memory

\* The grants that are an hour old at most.
LEMMA LiveFacts ==
    ASSUME TickTypes
    PROVE  /\ Live(mem.window) \in Seq(Nat)
           /\ Append(Live(mem.window), now) \in Seq(Nat)
           /\ Len(Append(Live(mem.window), now)) = Len(Live(mem.window)) + 1
           /\ Append(Live(mem.window), now) # << >>
           /\ Last(Append(Live(mem.window), now)) = now
<1>1. mem.window \in Seq(Nat) /\ now \in Nat
  BY MemoryFacts DEF TickTypes
<1>2. Live(mem.window) \in Seq(Nat)
  BY <1>1, KeptIsSequence DEF Live
<1>3. /\ Append(Live(mem.window), now) \in Seq(Nat)
      /\ Len(Append(Live(mem.window), now)) = Len(Live(mem.window)) + 1
      /\ Append(Live(mem.window), now)[Len(Live(mem.window)) + 1] = now
      /\ Len(Live(mem.window)) \in Nat
  BY <1>1, <1>2, AppendProperties, LenProperties
<1>4. Append(Live(mem.window), now) # << >>
  BY <1>3, EmptySeq
<1>5. QED
  BY <1>2, <1>3, <1>4 DEF Last

\* The last of a list is one of its elements.
LEMMA LastType ==
    ASSUME NEW S, NEW s \in Seq(S), s # << >>
    PROVE  Last(s) \in S /\ Len(s) \in DOMAIN s
<1>1. Len(s) \in Nat /\ Len(s) > 0 /\ DOMAIN s = 1 .. Len(s)
  BY EmptySeq, LenProperties
<1>2. QED
  BY <1>1, ElementOfSeq DEF Last

\* The signals found are listed.
LEMMA FoundIsListed ==
    ASSUME NEW found \in SUBSET Signal, NEW s \in SetToSeqs(found)
    PROVE  s \in Seq(Signal)
<1>1. IsFiniteSet(found) /\ Cardinality(found) \in Nat
  BY SwarmAssumption, FS_Subset, FS_CardinalityType
<1>2. s \in [1 .. Cardinality(found) -> Signal]
  BY DEF SetToSeqs
<1>3. QED
  BY <1>1, <1>2, SeqDef

LEMMA InitTypes == Init => TickTypes
<1>1. << >> \in Seq(Signal) /\ << >> \in Seq(Nat) /\ NoMemory \in Memory
  BY MemoryFacts, EmptySeq
<1>2. SUFFICES ASSUME Init PROVE TickTypes
  OBVIOUS
<1>3. todo \in Seq(Signal) /\ wrote \in Seq(Nat) /\ mem \in Memory /\ saved \in Memory
  BY <1>1, <1>2 DEF Init
<1>4. now \in Nat /\ written \subseteq Signal /\ pc = "off" /\ tick = "none"
  BY <1>2 DEF Init
<1>5. QED
  BY <1>2, <1>3, <1>4 DEF Init, TickTypes, Paying

\* What neither the thread nor a start of the process does.
LEMMA LoopTypes ==
    ASSUME TickTypes, \/ cmd_prompt \/ inject_prompt \/ cmd_stop \/ stop_swarm \/ Clock
                      \/ MainStep \/ Kill
    PROVE  TickTypes'
<1> USE DEF TickTypes, Paying, files, loop, thread, bounds, Go
<1>1. CASE cmd_prompt \/ inject_prompt
  BY <1>1 DEF cmd_prompt, inject_prompt, enqueue_prompt
<1>2. CASE cmd_stop \/ stop_swarm
  BY <1>2 DEF cmd_stop, stop_swarm, request_shutdown
<1>8. CASE Clock
  <2>1. now' \in Nat
    BY <1>8 DEF Clock
  <2>2. QED
    BY <1>8, <2>1 DEF Clock
<1>3. CASE Started \/ InitialPrompt \/ CheckShutdown \/ Wake \/ CancelTick \/ ClearFiles \/ Exit
  BY <1>3 DEF Started, InitialPrompt, CheckShutdown, Wake, CancelTick, ClearFiles, Exit
<1>4. CASE dequeue_prompts \/ BeginPrompt \/ BatchDone \/ Raise
  BY <1>4 DEF dequeue_prompts, BeginPrompt, BatchDone, Raise
<1>5. CASE Answered \/ should_fallback_to_planner \/ PlannerAnswered
  BY <1>5 DEF Answered, should_fallback_to_planner, PlannerAnswered
<1>6. CASE Kill
  BY <1>6, EmptySeq DEF Kill
<1>7. QED
  BY <1>1, <1>2, <1>3, <1>4, <1>5, <1>6, <1>8 DEF MainStep

LEMMA ThreadTypes ==
    ASSUME TickTypes, ThreadStep
    PROVE  TickTypes'
<1> USE DEF TickTypes, Paying, files, loop, thread, bounds
<1>1. CASE TickStops \/ Dump \/ PassFails
  BY <1>1, EmptySeq DEF TickStops, Dump, PassFails
<1>2. CASE synthesize
  <2>1. todo' \in Seq(Signal)
    BY <1>2, FoundIsListed DEF synthesize
  <2>2. QED
    BY <1>2, <2>1 DEF synthesize
<1>3. CASE try_consume
  <2>1. mem' \in Memory /\ mem'.window # << >> /\ saved' \in Memory
    BY <1>3, LiveFacts, MemoryFacts DEF try_consume, Memory
  <2>2. QED
    BY <1>3, <2>1 DEF try_consume
<1>4. CASE dispatch
  <2>1. mem.window \in Seq(Nat) /\ mem.window # << >> /\ todo # << >>
    BY <1>4, MemoryFacts DEF dispatch
  <2>2. Last(mem.window) \in Nat
    BY <2>1, LastType
  <2>3. wrote' \in Seq(Nat)
    BY <1>4, <2>2, AppendProperties DEF dispatch
  <2>4. todo' \in Seq(Signal) /\ written' \subseteq Signal
    BY <1>4, <2>1, HeadTailProperties DEF dispatch
  <2>5. QED
    BY <1>4, <2>3, <2>4 DEF dispatch
<1>5. CASE RememberDedup
  <2>1. PICK kept \in SUBSET (mem.dedup \cup written) : mem' = [mem EXCEPT !.dedup = kept]
    BY <1>5 DEF RememberDedup
  <2>2. kept \in SUBSET Signal
    BY <2>1, MemoryFacts
  <2>3. mem' \in Memory /\ saved' \in Memory
    BY <1>5, <2>1, <2>2, MemoryFacts DEF RememberDedup
  <2>4. QED
    BY <1>5, <2>3, EmptySeq DEF RememberDedup
<1>6. QED
  BY <1>1, <1>2, <1>3, <1>4, <1>5 DEF ThreadStep

LEMMA TypesStep == TickTypes /\ [Next]_vars => TickTypes'
<1> SUFFICES ASSUME TickTypes, [Next]_vars PROVE TickTypes'
  OBVIOUS
<1>1. CASE UNCHANGED vars
  BY <1>1 DEF vars, files, loop, thread, bounds, TickTypes, Paying
<1>2. CASE Start
  BY <1>2 DEF Start, Go, TickTypes, Paying
<1>3. QED
  BY <1>1, <1>2, LoopTypes, ThreadTypes DEF Next

\* A list is one over any set that has its elements.
LEMMA InElements ==
    ASSUME NEW S, NEW s \in Seq(Nat), ToSet(s) \subseteq S
    PROVE  s \in Seq(S)
<1>1. Len(s) \in Nat /\ DOMAIN s = 1 .. Len(s) /\ s = [i \in 1 .. Len(s) |-> s[i]]
  BY LenProperties
<1>2. \A i \in 1 .. Len(s) : s[i] \in S
  BY <1>1 DEF ToSet
<1>3. s \in [1 .. Len(s) -> S]
  BY <1>1, <1>2
<1>4. QED
  BY <1>1, <1>3, SeqDef

(* In every behaviour: the state of the process and of its tick keeps its      *)
(* type; in particular every prompt that is queued, held, handled or lost is   *)
(* one that was issued.                                                        *)
THEOREM SwarmTypes == Spec => []TypeOK
<1>1. Init => IInv /\ TickTypes
  BY InitInvariant, InitTypes
<1>2. IInv /\ TickTypes /\ [Next]_vars => (IInv /\ TickTypes)'
  BY NextInvariant, TypesStep
<1>3. IInv /\ TickTypes => TypeOK
  <2> SUFFICES ASSUME IInv, TickTypes PROVE TypeOK
    OBVIOUS
  <2>1. /\ handled \in Seq(Nat) /\ batch \in Seq(Nat) /\ queue \in Seq(Nat)
        /\ ToSet(handled) \cup ToSet(batch) \cup ToSet(queue) \cup lost = 1 .. issued
    BY DEF IInv, Types, Places
  <2>2. handled \in Seq(1 .. issued) /\ batch \in Seq(1 .. issued) /\ queue \in Seq(1 .. issued)
    BY <2>1, InElements
  <2>3. QED
    BY <2>1, <2>2 DEF TickTypes, TypeOK
<1>4. QED
  BY <1>1, <1>2, <1>3, PTL DEF Spec

-------------------------------------------------------------------------------
(* The budget of the tick.                                                     *)

\* How many numbers of a list are T or more.
AtLeast(s, T) == {i \in DOMAIN s : s[i] >= T}
Since(s, T) == Cardinality(AtLeast(s, T))

\* The grants of the window cover the prompts written, and the one paid for,
\* in every span that ends with or after the last grant: older grants are
\* forgotten, and what they paid for was within the budget of its hour.
Pending(T) == IF Paying /\ Last(mem.window) >= T THEN 1 ELSE 0
Within(t) == {i \in DOMAIN wrote : wrote[i] \in t .. t + Hour}

Covered ==
    \A T \in Nat : mem.window = << >> \/ T + Hour >= Last(mem.window) =>
      Since(wrote, T) + Pending(T) <= Since(mem.window, T)

BudgetInv ==
    ~torn =>
      /\ tick \in {"saving", "committing"} \/ saved = mem
      /\ Len(mem.window) <= MaxPerHour
      /\ \A i \in DOMAIN mem.window : mem.window[i] <= now
      /\ Covered
      /\ \A t \in Nat : Cardinality(Within(t)) <= MaxPerHour

\* They are no more than the list has.
LEMMA SinceType ==
    ASSUME NEW s \in Seq(Nat), NEW T \in Nat
    PROVE  /\ IsFiniteSet(AtLeast(s, T)) /\ Since(s, T) \in Nat
           /\ Len(s) \in Nat /\ Since(s, T) <= Len(s)
<1>1. Len(s) \in Nat /\ DOMAIN s = 1 .. Len(s)
  BY LenProperties
<1>2. AtLeast(s, T) \in SUBSET (1 .. Len(s))
  BY <1>1 DEF AtLeast
<1>3. QED
  BY <1>1, <1>2, PositionsAreFinite DEF Since

\* A number that is appended counts from itself back.
LEMMA SinceAppend ==
    ASSUME NEW s \in Seq(Nat), NEW T \in Nat, NEW x \in Nat
    PROVE  Since(Append(s, x), T) = Since(s, T) + IF x >= T THEN 1 ELSE 0
<1>1. Len(s) \in Nat /\ DOMAIN s = 1 .. Len(s)
  BY LenProperties
<1>2. /\ DOMAIN Append(s, x) = 1 .. Len(s) + 1
      /\ \A i \in 1 .. Len(s) : Append(s, x)[i] = s[i]
      /\ Append(s, x)[Len(s) + 1] = x
  BY <1>1, AppendProperties, LenProperties
<1>3. IsFiniteSet(AtLeast(s, T)) /\ Since(s, T) \in Nat
  BY SinceType
<1>4. CASE x >= T
  <2>1. AtLeast(Append(s, x), T) = AtLeast(s, T) \cup {Len(s) + 1}
    BY <1>1, <1>2, <1>4 DEF AtLeast
  <2>2. Len(s) + 1 \notin AtLeast(s, T)
    BY <1>1 DEF AtLeast
  <2>3. Cardinality(AtLeast(s, T) \cup {Len(s) + 1}) =
          IF Len(s) + 1 \in AtLeast(s, T) THEN Cardinality(AtLeast(s, T))
                                          ELSE Cardinality(AtLeast(s, T)) + 1
    BY <1>3, FS_AddElement
  <2>4. QED
    BY <1>4, <2>1, <2>2, <2>3 DEF Since
<1>5. CASE ~(x >= T)
  <2>1. AtLeast(Append(s, x), T) = AtLeast(s, T)
    BY <1>1, <1>2, <1>5 DEF AtLeast
  <2>2. QED
    BY <1>3, <1>5, <2>1 DEF Since
<1>6. QED
  BY <1>4, <1>5

\* No number from T on is missed if their positions are all kept.
LEMMA SinceKept ==
    ASSUME NEW s \in Seq(Nat), NEW P \in SUBSET DOMAIN s, NEW T \in Nat,
           AtLeast(s, T) \subseteq P
    PROVE  Since(s, T) <= Since(Kept(s, P), T)
<1> DEFINE Q == AtLeast(s, T)
           f == [i \in Q |-> Rank(P, i)]
<1>1. /\ Kept(s, P) \in Seq(Nat) /\ Len(Kept(s, P)) = Cardinality(P)
      /\ \A i \in P : Rank(P, i) \in 1 .. Cardinality(P) /\ Kept(s, P)[Rank(P, i)] = s[i]
  BY KeptIsSequence
<1>2. Len(s) \in Nat /\ DOMAIN s = 1 .. Len(s) /\ DOMAIN Kept(s, P) = 1 .. Cardinality(P)
  BY <1>1, LenProperties
<1>3. \A i \in Q : f[i] \in AtLeast(Kept(s, P), T)
  BY <1>1, <1>2 DEF AtLeast
<1>4. \A i, j \in Q : f[i] = f[j] => i = j
  BY <1>2, RankOrder
<1>5. f \in Injection(Q, AtLeast(Kept(s, P), T))
  BY <1>3, <1>4 DEF Injection, IsInjective
<1>6. IsFiniteSet(AtLeast(Kept(s, P), T))
  BY <1>1, SinceType
<1> HIDE DEF f, Q
<1>7. Cardinality(Q) <= Cardinality(AtLeast(Kept(s, P), T))
  BY <1>5, <1>6, FS_Injection
<1>8. QED
  BY <1>7 DEF Since, Q

LEMMA InitBudget == Init => BudgetInv
<1> SUFFICES ASSUME Init PROVE BudgetInv
  OBVIOUS
<1>1. /\ wrote = << >> /\ mem = NoMemory /\ saved = NoMemory /\ tick = "none"
      /\ mem.window = << >> /\ DOMAIN << >> = {} /\ Len(<< >>) = 0
  BY EmptySeq DEF Init, NoMemory
<1>2. Cardinality({}) = 0
  BY FS_EmptySet
<1>3. \A T \in Nat : Since(wrote, T) = 0 /\ Since(mem.window, T) = 0 /\ Pending(T) = 0
  BY <1>1, <1>2 DEF Since, AtLeast, Pending, Paying
<1>4. \A t \in Nat : Within(t) = {}
  BY <1>1 DEF Within
<1>5. Covered
  BY <1>3 DEF Covered
<1>6. \A t \in Nat : Cardinality(Within(t)) <= MaxPerHour
  BY <1>2, <1>4, SwarmAssumption
<1>7. Len(mem.window) <= MaxPerHour /\ \A i \in DOMAIN mem.window : mem.window[i] <= now
  BY <1>1, SwarmAssumption
<1>8. QED
  BY <1>1, <1>5, <1>6, <1>7 DEF BudgetInv

\* What neither grants nor writes a prompt.
LEMMA BudgetStays ==
    ASSUME TickTypes, BudgetInv, TickTypes', torn' \/ ~torn,
           mem'.window = mem.window, wrote' = wrote, now <= now', Paying' => Paying,
           torn' \/ tick' \in {"saving", "committing"} \/ saved' = mem'
    PROVE  BudgetInv'
<1> SUFFICES ASSUME ~torn' PROVE BudgetInv'
  BY DEF BudgetInv
<1>1. now \in Nat /\ now' \in Nat /\ mem.window \in Seq(Nat) /\ wrote \in Seq(Nat)
  BY MemoryFacts DEF TickTypes
<1>2. \A i \in DOMAIN mem.window : mem.window[i] \in Nat
  BY <1>1, ElementOfSeq, LenProperties
<1>3. ASSUME NEW i \in DOMAIN mem'.window PROVE mem'.window[i] <= now'
  BY <1>1, <1>2 DEF BudgetInv
<1>4. ASSUME NEW T \in Nat, mem'.window = << >> \/ T + Hour >= Last(mem'.window)
      PROVE  Since(wrote', T) + Pending(T)' <= Since(mem'.window, T)
  <2>1. Since(wrote, T) \in Nat /\ Since(mem.window, T) \in Nat
    BY <1>1, SinceType
  <2>2. Since(wrote, T) + Pending(T) <= Since(mem.window, T)
    BY <1>4 DEF BudgetInv, Covered
  <2>3. Pending(T)' <= Pending(T) /\ Pending(T)' \in Nat /\ Pending(T) \in Nat
    BY DEF Pending
  <2>4. QED
    BY <2>1, <2>2, <2>3
<1>5. \A t \in Nat : Cardinality(Within(t)') <= MaxPerHour
  BY DEF BudgetInv, Within
<1>6. Covered'
  BY <1>4 DEF Covered
<1>7. QED
  BY <1>3, <1>5, <1>6 DEF BudgetInv

\* A grant: what is dropped from the window is older than an hour.
LEMMA BudgetGrants ==
    ASSUME TickTypes, BudgetInv, try_consume
    PROVE  BudgetInv'
<1> SUFFICES ASSUME ~torn PROVE BudgetInv'
  BY DEF BudgetInv, try_consume
<1> DEFINE live == Live(mem.window)
           recent == {i \in DOMAIN mem.window : now - mem.window[i] <= Hour}
<1>1. now \in Nat /\ mem.window \in Seq(Nat) /\ wrote \in Seq(Nat) /\ Hour \in Nat
  BY MemoryFacts, SwarmAssumption DEF TickTypes
<1>2. /\ live \in Seq(Nat) /\ Len(live) \in Nat /\ mem'.window = Append(live, now)
      /\ mem'.window \in Seq(Nat) /\ Len(mem'.window) = Len(live) + 1
      /\ mem'.window # << >> /\ Last(mem'.window) = now
  BY LiveFacts, LenProperties, MemoryFacts DEF try_consume, TickTypes, Memory
<1>3. /\ Len(live) < MaxPerHour /\ tick = "consume" /\ tick' = "saving"
      /\ UNCHANGED <<torn, wrote, now>>
  BY DEF try_consume, bounds
<1>4. \A i \in DOMAIN mem'.window : mem'.window[i] <= now
  <2>1. /\ DOMAIN mem'.window = 1 .. Len(live) + 1 /\ mem'.window[Len(live) + 1] = now
        /\ \A i \in 1 .. Len(live) : mem'.window[i] = live[i]
    BY <1>1, <1>2, AppendProperties, LenProperties
  <2>2. /\ Len(live) = Cardinality(recent)
        /\ \A n \in 1 .. Cardinality(recent) : Nth(recent, n) \in recent
                                             /\ live[n] = mem.window[Nth(recent, n)]
    BY <1>1, KeptIsSequence DEF Live
  <2>3. \A n \in 1 .. Len(live) : live[n] <= now
    BY <2>2 DEF BudgetInv
  <2>4. QED
    BY <1>1, <1>2, <2>1, <2>3
<1>5. ASSUME NEW T \in Nat, T + Hour >= now
      PROVE  Since(wrote, T) + Pending(T)' <= Since(mem'.window, T)
  <2>1. Since(wrote, T) \in Nat /\ Since(mem.window, T) \in Nat /\ Since(live, T) \in Nat
    BY <1>1, <1>2, SinceType
  <2>2. AtLeast(mem.window, T) \subseteq recent
    <3>1. \A i \in DOMAIN mem.window : mem.window[i] \in Nat
      BY <1>1, ElementOfSeq, LenProperties
    <3>2. QED
      BY <1>1, <1>5, <3>1 DEF AtLeast
  <2>3. Since(mem.window, T) <= Since(live, T)
    BY <1>1, <2>2, SinceKept DEF Live
  <2>4. mem.window = << >> \/ T + Hour >= Last(mem.window)
    <3>1. mem.window # << >> => Last(mem.window) \in Nat /\ Last(mem.window) <= now
      BY <1>1, LastType DEF BudgetInv, Last
    <3>2. QED
      BY <1>1, <1>5, <3>1
  <2>5. Since(wrote, T) <= Since(mem.window, T)
    <3>1. Since(wrote, T) + Pending(T) <= Since(mem.window, T) /\ Pending(T) = 0
      BY <1>3, <2>4 DEF BudgetInv, Covered, Pending, Paying
    <3>2. QED
      BY <2>1, <3>1
  <2>6. Since(mem'.window, T) = Since(live, T) + IF now >= T THEN 1 ELSE 0
    BY <1>1, <1>2, SinceAppend
  <2>7. Pending(T)' = IF now >= T THEN 1 ELSE 0
    BY <1>2, <1>3 DEF Pending, Paying
  <2>8. QED
    BY <2>1, <2>3, <2>5, <2>6, <2>7
<1>6. Covered'
  BY <1>2, <1>3, <1>5 DEF Covered
<1>7. \A t \in Nat : Cardinality(Within(t)') <= MaxPerHour
  BY <1>3 DEF BudgetInv, Within
<1>8. QED
  BY <1>2, <1>3, <1>4, <1>6, <1>7, SwarmAssumption DEF BudgetInv

\* The prompt is written that was paid for.
LEMMA BudgetWrites ==
    ASSUME TickTypes, BudgetInv, dispatch
    PROVE  BudgetInv'
<1> SUFFICES ASSUME ~torn PROVE BudgetInv'
  BY DEF BudgetInv, dispatch
<1> DEFINE x == Last(mem.window)
<1>1. /\ now \in Nat /\ mem.window \in Seq(Nat) /\ wrote \in Seq(Nat) /\ Hour \in Nat
      /\ MaxPerHour \in Nat
  BY MemoryFacts, SwarmAssumption DEF TickTypes
<1>2. /\ tick = "append" /\ tick' = "consume" /\ wrote' = Append(wrote, x)
      /\ mem.window # << >> /\ UNCHANGED <<mem, saved, torn, now>>
  BY DEF dispatch, bounds, TickTypes, Paying
<1>3. x \in Nat
  BY <1>1, <1>2, LastType
<1>4. wrote' \in Seq(Nat)
  BY <1>1, <1>2, <1>3, AppendProperties
<1>5. ASSUME NEW T \in Nat, T + Hour >= x
      PROVE  Since(wrote', T) <= Since(mem.window, T)
  <2>1. Since(wrote, T) + Pending(T) <= Since(mem.window, T)
    BY <1>5 DEF BudgetInv, Covered
  <2>2. Pending(T) = IF x >= T THEN 1 ELSE 0
    BY <1>2 DEF Pending, Paying
  <2>3. Since(wrote', T) = Since(wrote, T) + IF x >= T THEN 1 ELSE 0
    BY <1>1, <1>2, <1>3, SinceAppend
  <2>4. QED
    BY <2>1, <2>2, <2>3
<1>6. Covered'
  <2> SUFFICES ASSUME NEW T \in Nat, T + Hour >= x
               PROVE  Since(wrote', T) + Pending(T)' <= Since(mem.window, T)
    BY <1>2 DEF Covered
  <2>1. Since(wrote', T) \in Nat /\ Pending(T)' = 0
    BY <1>2, <1>4, SinceType DEF Pending, Paying
  <2>2. QED
    BY <1>5, <2>1
<1>7. ASSUME NEW t \in Nat PROVE Cardinality(Within(t)') <= MaxPerHour
  <2>1. /\ Len(wrote) \in Nat /\ DOMAIN wrote = 1 .. Len(wrote)
        /\ DOMAIN wrote' = 1 .. Len(wrote) + 1 /\ wrote'[Len(wrote) + 1] = x
        /\ \A i \in 1 .. Len(wrote) : wrote'[i] = wrote[i]
    BY <1>1, <1>2, <1>3, <1>4, AppendProperties, LenProperties
  <2>2. CASE x \in t .. t + Hour
    <3>1. Since(wrote', t) <= Since(mem.window, t)
      BY <1>1, <1>3, <1>5, <2>2
    <3>2. Since(mem.window, t) <= MaxPerHour
      <4>1. /\ Since(mem.window, t) \in Nat /\ Len(mem.window) \in Nat
            /\ Since(mem.window, t) <= Len(mem.window)
        BY <1>1, SinceType
      <4>2. Len(mem.window) <= MaxPerHour
        BY DEF BudgetInv
      <4>3. QED
        BY <1>1, <4>1, <4>2
    <3>3. IsFiniteSet(AtLeast(wrote', t)) /\ Since(wrote', t) \in Nat
      BY <1>4, SinceType
    <3>4. Within(t)' \in SUBSET AtLeast(wrote', t)
      BY <1>1 DEF Within, AtLeast
    <3>5. Cardinality(Within(t)') <= Since(wrote', t) /\ Cardinality(Within(t)') \in Nat
      BY <3>3, <3>4, FS_Subset, FS_CardinalityType DEF Since
    <3>6. Since(mem.window, t) \in Nat
      BY <1>1, SinceType
    <3>7. QED
      BY <1>1, <3>1, <3>2, <3>3, <3>5, <3>6
  <2>3. CASE x \notin t .. t + Hour
    <3>1. Within(t)' = Within(t)
      BY <2>1, <2>3 DEF Within
    <3>2. QED
      BY <3>1 DEF BudgetInv
  <2>4. QED
    BY <2>2, <2>3
<1>8. QED
  BY <1>2, <1>6, <1>7 DEF BudgetInv

LEMMA BudgetStep == TickTypes /\ BudgetInv /\ [Next]_vars => BudgetInv'
<1> SUFFICES ASSUME TickTypes, BudgetInv, [Next]_vars PROVE BudgetInv'
  OBVIOUS
<1>1. TickTypes' /\ now \in Nat
  BY TypesStep DEF TickTypes
<1> USE DEF files, loop, thread, bounds, Go, Paying
<1>2. CASE UNCHANGED vars
  BY <1>1, <1>2, BudgetStays DEF vars, BudgetInv
<1>3. CASE \/ cmd_prompt \/ inject_prompt \/ cmd_stop \/ stop_swarm \/ Clock
  BY <1>1, <1>3, BudgetStays DEF cmd_prompt, inject_prompt, enqueue_prompt, cmd_stop, stop_swarm,
                                 request_shutdown, Clock, BudgetInv
<1>4. CASE MainStep
  <2>1. UNCHANGED <<mem, saved, torn, wrote, now>>
    BY <1>4 DEF MainStep, Started, InitialPrompt, CheckShutdown, Wake, CancelTick, ClearFiles,
                Exit, dequeue_prompts, BeginPrompt, BatchDone, Raise, Answered,
                should_fallback_to_planner, PlannerAnswered
  <2>2. tick' = tick \/ (tick' \in {"idle", "none"} /\ tick \in {"idle", "none"})
    BY <1>4 DEF MainStep, Started, InitialPrompt, CheckShutdown, Wake, CancelTick, ClearFiles,
                Exit, dequeue_prompts, BeginPrompt, BatchDone, Raise, Answered,
                should_fallback_to_planner, PlannerAnswered, TickTypes
  <2>3. QED
    BY <1>1, <2>1, <2>2, BudgetStays DEF BudgetInv
<1>5. CASE Start
  <2>1. tick = "none" /\ mem' = saved /\ UNCHANGED <<tick, saved, torn, wrote, now>>
    BY <1>5 DEF Start, TickTypes
  <2>2. QED
    BY <1>1, <2>1, BudgetStays DEF BudgetInv
<1>6. CASE Kill \/ PassFails
  BY <1>1, <1>6, BudgetStays DEF Kill, PassFails, BudgetInv, TickTypes
<1>7. CASE TickStops \/ synthesize \/ Dump
  BY <1>1, <1>7, BudgetStays DEF TickStops, synthesize, Dump, BudgetInv
<1>8. CASE RememberDedup
  <2>1. mem'.window = mem.window
    BY <1>8, MemoryFacts DEF RememberDedup, TickTypes, Memory
  <2>2. QED
    BY <1>1, <1>8, <2>1, BudgetStays DEF RememberDedup
<1>9. QED
  BY <1>2, <1>3, <1>4, <1>5, <1>6, <1>7, <1>8, BudgetGrants, BudgetWrites DEF Next, ThreadStep

(* In every behaviour, unless a write of state.json was cut short: in no hour  *)
(* the tick writes more prompts than MaxPerHour, whatever passes fail and      *)
(* however often the process is killed and started (rate_limiter.py,           *)
(* try_consume() and _save()).                                                 *)
THEOREM BudgetKept == Spec => []BudgetSurvivesRestarts
<1>1. Init => TickTypes /\ BudgetInv
  BY InitTypes, InitBudget
<1>2. TickTypes /\ BudgetInv /\ [Next]_vars => (TickTypes /\ BudgetInv)'
  BY TypesStep, BudgetStep
<1>3. TickTypes /\ BudgetInv => BudgetSurvivesRestarts
  <2> SUFFICES ASSUME TickTypes, BudgetInv, ~torn, NEW t \in 1 .. now
               PROVE  Cardinality({i \in DOMAIN wrote : wrote[i] \in t .. t + Hour}) <= MaxPerHour
    BY DEF BudgetSurvivesRestarts
  <2>1. t \in Nat
    BY DEF TickTypes
  <2>2. QED
    BY <2>1 DEF BudgetInv, Within
<1>4. QED
  BY <1>1, <1>2, <1>3, PTL DEF Spec
===============================================================================
