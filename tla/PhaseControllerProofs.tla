------------------------ MODULE PhaseControllerProofs ------------------------
(***************************************************************************)
(* What PhaseController promises for every set of gates, every number of   *)
(* calls and any number of overrides.                                      *)
(***************************************************************************)
EXTENDS PhaseController, SequenceTheorems, TLAPS

\* An event names only gates that were registered when it was written.
EventsNameGates ==
    \A n \in DOMAIN events : DOMAIN events[n].gates \subseteq DOMAIN gates

IInv ==
    /\ TypeOK
    /\ EventsNameGates
    /\ HistoryIsChain
    /\ LogTellsHistory
    /\ UnforcedMovesAreEarned

LEMMA InitInvariant == Init => IInv
BY GateAssumption DEF Init, IInv, TypeOK, EventsNameGates, HistoryIsChain, Before,
    LogTellsHistory, Told, UnforcedMovesAreEarned, Phase, Event, HistoryEntry

LEMMA RanIsEvaluation ==
    ASSUME TypeOK, NEW target \in Phase, NEW result \in [Ran(target) -> Outcome]
    PROVE  /\ result \in Evaluation
           /\ DOMAIN result \subseteq DOMAIN gates
<1>1. Ran(target) \in SUBSET (1 .. MaxGates)
  BY GateAssumption DEF Ran, TypeOK
<1>2. QED
  BY <1>1 DEF Evaluation, Ran

LEMMA RegisterKeeps ==
    ASSUME IInv, NEW g \in Gate, Register(g)
    PROVE  IInv'
<1> USE DEF IInv
<1>1. /\ gates' = Append(gates, g)
      /\ UNCHANGED <<phase, history, events, calls, forced, untold>>
      /\ gates \in Seq(Gate) /\ gates' \in Seq(Gate)
      /\ Len(gates') <= MaxGates
      /\ \A i \in DOMAIN gates : i \in DOMAIN gates' /\ gates'[i] = gates[i]
  BY GateAssumption DEF Register, TypeOK
<1>2. TypeOK'
  BY <1>1 DEF TypeOK
<1>3. EventsNameGates'
  BY <1>1 DEF EventsNameGates
<1>4. HistoryIsChain'
  BY <1>1 DEF HistoryIsChain, Before
<1>5. \A n \in DOMAIN events : /\ Passed(events[n].gates)' = Passed(events[n].gates)
                               /\ Blockers(events[n].gates)' = Blockers(events[n].gates)
  BY <1>1 DEF EventsNameGates, Passed, Blockers
<1>6. LogTellsHistory'
  BY <1>1, <1>5 DEF LogTellsHistory, SameMove, Told
<1>7. UnforcedMovesAreEarned'
  <2>1. \A k \in DOMAIN history' \ forced' :
          can_advance(history'[k].from_phase, history'[k].to_phase)
    BY <1>1 DEF UnforcedMovesAreEarned
  <2>2. ASSUME HasStateManager, NEW k \in Told \ forced
        PROVE  Blockers(events[history[k].at].gates)' = {}
    <3>1. history[k].at \in DOMAIN events
      BY <2>2 DEF LogTellsHistory
    <3>2. history[k].at' = history[k].at /\ events' = events
      BY <1>1
    <3>3. Blockers(events[history[k].at].gates)' = Blockers(events[history[k].at].gates)
      BY <1>5, <3>1, <3>2
    <3>4. QED
      BY <2>2, <3>3 DEF UnforcedMovesAreEarned
  <2>3. Told' = Told /\ forced' = forced
    BY <1>1 DEF Told
  <2>4. QED
    BY <2>1, <2>2, <2>3 DEF UnforcedMovesAreEarned
<1>8. QED
  BY <1>2, <1>3, <1>4, <1>6, <1>7

\* One more event, of whatever kind, changes nothing that was logged before,
\* and one that is lost changes nothing at all.
LEMMA EmitAppends ==
    ASSUME TypeOK, EventsNameGates,
           NEW action \in {"phase.transition", "phase.transition.blocked",
                           "phase.review.decision"},
           NEW to \in Phase, NEW result \in Evaluation,
           DOMAIN result \subseteq DOMAIN gates,
           NEW fate, Emit(action, to, result, fate), gates' = gates
    PROVE  /\ events' \in Seq(Event)
           /\ EventsNameGates'
           /\ \A n \in DOMAIN events : n \in DOMAIN events' /\ events'[n] = events[n]
           /\ ~(HasStateManager /\ fate = "written") => events' = events
           /\ HasStateManager /\ fate = "written" =>
                /\ DOMAIN events' = DOMAIN events \cup {Len(events) + 1}
                /\ events'[Len(events) + 1] =
                     [action |-> action, from_phase |-> phase,
                      to_phase |-> to, gates |-> result]
<1> DEFINE e == [action |-> action, from_phase |-> phase,
                 to_phase |-> to, gates |-> result]
<1>1. e \in Event /\ events \in Seq(Event)
  BY DEF Event, TypeOK
<1>2. CASE HasStateManager /\ fate = "written"
  <2>1. events' = Append(events, e)
    BY <1>2 DEF Emit
  <2>2. /\ events' \in Seq(Event)
        /\ DOMAIN events' = DOMAIN events \cup {Len(events) + 1}
        /\ events'[Len(events) + 1] = e
        /\ \A n \in DOMAIN events : events'[n] = events[n]
    BY <1>1, <2>1
  <2>3. EventsNameGates'
    BY <2>2 DEF EventsNameGates
  <2>4. QED
    BY <1>2, <2>2, <2>3
<1>3. CASE ~(HasStateManager /\ fate = "written")
  BY <1>1, <1>3 DEF Emit, EventsNameGates
<1>4. QED
  BY <1>2, <1>3

\* A call that logs something other than a transition and moves nothing.
LEMMA NoMoveKeeps ==
    ASSUME IInv,
           NEW action \in {"phase.transition.blocked", "phase.review.decision"},
           NEW to \in Phase, NEW result \in Evaluation,
           DOMAIN result \subseteq DOMAIN gates,
           NEW fate, Emit(action, to, result, fate), calls' = calls + 1,
           UNCHANGED <<gates, phase, history, forced, untold>>
    PROVE  IInv'
<1>1. TypeOK /\ EventsNameGates /\ HistoryIsChain /\ LogTellsHistory
      /\ UnforcedMovesAreEarned
  BY DEF IInv
<1>2. /\ events' \in Seq(Event)
      /\ EventsNameGates'
      /\ \A n \in DOMAIN events : n \in DOMAIN events' /\ events'[n] = events[n]
      /\ \A n \in DOMAIN events' :
           events'[n].action = "phase.transition" => n \in DOMAIN events
  <2>1. gates' = gates
    OBVIOUS
  <2>2. action \in {"phase.transition", "phase.transition.blocked",
                    "phase.review.decision"}
    OBVIOUS
  <2>3. /\ events' \in Seq(Event)
        /\ EventsNameGates'
        /\ \A n \in DOMAIN events : n \in DOMAIN events' /\ events'[n] = events[n]
        /\ ~(HasStateManager /\ fate = "written") => events' = events
        /\ HasStateManager /\ fate = "written" =>
             /\ DOMAIN events' = DOMAIN events \cup {Len(events) + 1}
             /\ events'[Len(events) + 1] =
                  [action |-> action, from_phase |-> phase,
                   to_phase |-> to, gates |-> result]
    BY <1>1, <2>1, <2>2, EmitAppends
  <2>4. \A n \in DOMAIN events' :
          events'[n].action = "phase.transition" => n \in DOMAIN events
    BY <2>3
  <2>5. QED
    BY <2>3, <2>4
<1>3. TypeOK'
  BY <1>1, <1>2 DEF TypeOK
<1>4. HistoryIsChain'
  BY <1>1 DEF HistoryIsChain, Before
<1>5. ASSUME HasStateManager PROVE LogTellsHistory'
  <2>1. \A k \in Told :
          history[k].at \in DOMAIN events /\ SameMove(history[k], events[history[k].at])
    BY <1>1, <1>5 DEF LogTellsHistory
  <2>2. Told' = Told
    BY DEF Told
  <2>3. QED
    BY <1>1, <1>2, <1>5, <2>1, <2>2 DEF LogTellsHistory, SameMove, Passed
<1>6. UnforcedMovesAreEarned'
  <2>1. HasStateManager => \A k \in Told : history[k].at \in DOMAIN events
    BY <1>1 DEF LogTellsHistory
  <2>2. Told' = Told
    BY DEF Told
  <2>3. QED
    BY <1>1, <1>2, <2>1, <2>2 DEF UnforcedMovesAreEarned, Blockers
<1>7. QED
  BY <1>2, <1>3, <1>4, <1>5, <1>6 DEF IInv, LogTellsHistory

\* A call of advance() that moves the item.
LEMMA MoveKeeps ==
    ASSUME IInv, NEW target \in Phase, NEW force \in BOOLEAN,
           force \/ can_advance(phase, target),
           NEW result \in [Ran(target) -> Outcome],
           Blockers(result) = {} \/ force,
           NEW fate \in Fate, Evaluated(target, force, result, fate),
           calls' = calls + 1, gates' = gates
    PROVE  IInv'
<1> DEFINE entry == [from_phase |-> phase, to_phase |-> target,
                     at |-> Len(events) + 1, evidence |-> Passed(result)]
<1>0. PICK N \in Nat : N = Len(history) + 1
  BY DEF IInv, TypeOK
<1>1. TypeOK /\ EventsNameGates /\ HistoryIsChain /\ LogTellsHistory
      /\ UnforcedMovesAreEarned
  BY DEF IInv
<1>2. /\ history' = Append(history, entry)
      /\ phase' = target
      /\ forced' = IF force THEN forced \cup {N} ELSE forced
      /\ untold' = IF fate = "written" THEN untold ELSE untold \cup {N}
      /\ Emit("phase.transition", target, result, fate)
  BY <1>0 DEF Evaluated, Move
<1>3. result \in Evaluation /\ DOMAIN result \subseteq DOMAIN gates
  BY <1>1, RanIsEvaluation
<1>4. /\ events' \in Seq(Event)
      /\ EventsNameGates'
      /\ \A n \in DOMAIN events : n \in DOMAIN events' /\ events'[n] = events[n]
      /\ ~(HasStateManager /\ fate = "written") => events' = events
      /\ HasStateManager /\ fate = "written" =>
           /\ DOMAIN events' = DOMAIN events \cup {Len(events) + 1}
           /\ events'[Len(events) + 1] =
                [action |-> "phase.transition", from_phase |-> phase,
                 to_phase |-> target, gates |-> result]
  BY <1>1, <1>2, <1>3, EmitAppends
<1>5. /\ entry \in HistoryEntry
      /\ history \in Seq(HistoryEntry) /\ history' \in Seq(HistoryEntry)
      /\ Len(history') = N /\ N = Len(history) + 1 /\ Len(history) \in Nat
      /\ DOMAIN history' = DOMAIN history \cup {N}
      /\ DOMAIN history = 1 .. Len(history)
      /\ history'[N] = entry
      /\ \A k \in DOMAIN history : history'[k] = history[k]
  <2>1. Passed(result) \subseteq Gate /\ Len(events) + 1 \in Nat /\ phase \in Phase
    BY <1>1, <1>3 DEF TypeOK, Passed
  <2>2. entry \in HistoryEntry /\ history \in Seq(HistoryEntry)
    BY <1>1, <2>1 DEF HistoryEntry, TypeOK
  <2>3. QED
    BY <1>0, <1>2, <2>2
<1> HIDE DEF entry
<1>6. TypeOK'
  <2>1. forced' \subseteq 1 .. Len(history')
    <3>1. forced \subseteq 1 .. Len(history)
      BY <1>1 DEF TypeOK
    <3>2. 1 .. Len(history) \subseteq 1 .. Len(history') /\ N \in 1 .. Len(history')
      BY <1>5
    <3>3. forced' = forced \/ forced' = forced \cup {N}
      BY <1>2
    <3>4. QED
      BY <3>1, <3>2, <3>3
  <2>2. untold' \subseteq 1 .. Len(history')
    <3>1. untold \subseteq 1 .. Len(history)
      BY <1>1 DEF TypeOK
    <3>2. 1 .. Len(history) \subseteq 1 .. Len(history') /\ N \in 1 .. Len(history')
      BY <1>5
    <3>3. untold' = untold \/ untold' = untold \cup {N}
      BY <1>2
    <3>4. QED
      BY <3>1, <3>2, <3>3
  <2>3. /\ gates' \in Seq(Gate) /\ Len(gates') <= MaxGates
        /\ phase' \in Phase /\ calls' \in Nat
    BY <1>1, <1>2 DEF TypeOK
  <2>4. QED
    BY <1>4, <1>5, <2>1, <2>2, <2>3 DEF TypeOK
<1>7. HistoryIsChain'
  <2>1. \A k \in DOMAIN history : Before(k)' = Before(k)
    BY <1>5 DEF Before
  <2>2. Before(N)' = Before(N) /\ Before(N) = phase
    BY <1>1, <1>5 DEF Before, HistoryIsChain
  <2>3. history'[N].from_phase = phase /\ history'[N].to_phase = target
    BY <1>5 DEF entry
  <2>4. Before(N + 1)' = target
    BY <1>5, <2>3 DEF Before
  <2>5. \A k \in DOMAIN history' : history'[k].from_phase = Before(k)'
    BY <1>1, <1>5, <2>1, <2>2, <2>3 DEF HistoryIsChain
  <2>6. QED
    BY <1>2, <1>5, <2>4, <2>5 DEF HistoryIsChain
<1>8. /\ Told = DOMAIN history \ untold
      /\ N \notin Told
      /\ fate = "written" => Told' = Told \cup {N}
      /\ fate # "written" => Told' = Told
  <2>1. N \notin untold /\ N \notin DOMAIN history
    BY <1>1, <1>5 DEF TypeOK
  <2>2. QED
    BY <1>2, <1>5, <2>1 DEF Told
<1>9. ASSUME HasStateManager PROVE LogTellsHistory'
  <2>1. /\ Len(events) \in Nat
        /\ DOMAIN events = 1 .. Len(events)
        /\ \A k \in Told :
              history[k].at \in DOMAIN events
              /\ SameMove(history[k], events[history[k].at])
    BY <1>1, <1>9 DEF LogTellsHistory, TypeOK
  <2>2. \A k \in Told : /\ history'[k].at \in DOMAIN events'
                        /\ SameMove(history[k], events[history[k].at])'
    BY <1>4, <1>5, <1>8, <2>1 DEF SameMove, Passed
  <2>3. CASE fate = "written"
    <3>1. /\ history'[N].at \in DOMAIN events'
          /\ SameMove(history[N], events[history[N].at])'
      BY <1>4, <1>5, <1>9, <2>3 DEF SameMove, Passed, entry
    <3>2. history'[N].at = Len(events) + 1
      BY <1>5 DEF entry
    <3>3. \A k, l \in Told' : k < l => history'[k].at < history'[l].at
      BY <1>1, <1>5, <1>8, <1>9, <2>1, <2>3, <3>2 DEF LogTellsHistory
    <3>4. \A n \in DOMAIN events' :
            events'[n].action = "phase.transition" =>
              \E k \in Told' : history'[k].at = n
      BY <1>1, <1>4, <1>5, <1>8, <1>9, <2>3, <3>2 DEF LogTellsHistory
    <3>5. QED
      BY <1>8, <2>2, <2>3, <3>1, <3>3, <3>4 DEF LogTellsHistory
  <2>4. CASE fate # "written"
    <3>1. events' = events /\ Told' = Told
      BY <1>4, <1>8, <2>4
    <3>2. \A k, l \in Told' : k < l => history'[k].at < history'[l].at
      BY <1>1, <1>5, <1>8, <1>9, <3>1 DEF LogTellsHistory
    <3>3. \A n \in DOMAIN events' :
            events'[n].action = "phase.transition" =>
              \E k \in Told' : history'[k].at = n
      BY <1>1, <1>5, <1>8, <1>9, <3>1 DEF LogTellsHistory
    <3>4. QED
      BY <2>2, <3>1, <3>2, <3>3 DEF LogTellsHistory
  <2>5. QED
    BY <2>3, <2>4
<1>10. UnforcedMovesAreEarned'
  <2>1. ASSUME NEW k \in DOMAIN history', k \notin forced'
        PROVE  can_advance(history'[k].from_phase, history'[k].to_phase)
    <3>1. CASE k \in DOMAIN history
      BY <1>1, <1>2, <1>5, <2>1, <3>1 DEF UnforcedMovesAreEarned
    <3>2. CASE k = N
      <4>1. ~force
        BY <1>2, <2>1, <3>2
      <4>2. history'[k].from_phase = phase /\ history'[k].to_phase = target
        BY <1>5, <3>2 DEF entry
      <4>3. QED
        BY <4>1, <4>2
    <3>3. QED
      BY <1>5, <2>1, <3>1, <3>2
  <2>2. ASSUME HasStateManager, NEW k \in Told', k \notin forced'
        PROVE  Blockers(events[history[k].at].gates)' = {}
    <3>1. CASE k \in Told
      <4>1. k \notin forced /\ history'[k] = history[k]
        BY <1>2, <1>5, <1>8, <2>2, <3>1
      <4>2. history[k].at \in DOMAIN events
        BY <1>1, <2>2, <3>1 DEF LogTellsHistory
      <4>3. events'[history'[k].at] = events[history[k].at]
        BY <1>4, <4>1, <4>2
      <4>4. QED
        BY <1>1, <2>2, <3>1, <4>1, <4>3 DEF UnforcedMovesAreEarned, Blockers
    <3>2. CASE k \notin Told
      <4>1. k = N /\ fate = "written"
        BY <1>8, <2>2, <3>2
      <4>2. ~force
        BY <1>2, <2>2, <4>1
      <4>3. history'[k].at = Len(events) + 1
        BY <1>5, <4>1 DEF entry
      <4>4. events'[history'[k].at].gates = result
        BY <1>4, <2>2, <4>1, <4>3
      <4>5. QED
        BY <4>2, <4>4 DEF Blockers
    <3>3. QED
      BY <3>1, <3>2
  <2>3. QED
    BY <2>1, <2>2 DEF UnforcedMovesAreEarned
<1>11. QED
  BY <1>4, <1>6, <1>7, <1>9, <1>10 DEF IInv, LogTellsHistory

LEMMA NextKeeps == IInv /\ [Next]_vars => IInv'
<1> SUFFICES ASSUME IInv, [Next]_vars PROVE IInv'
  OBVIOUS
<1>1. ASSUME NEW g \in Gate, Register(g) PROVE IInv'
  BY <1>1, RegisterKeeps
<1>2. ASSUME NEW target \in Phase, NEW force \in BOOLEAN, Advance(target, force)
      PROVE  IInv'
  <2>1. /\ force \/ can_advance(phase, target)
        /\ calls' = calls + 1
        /\ gates' = gates
    BY <1>2 DEF Advance
  <2>2. PICK result \in [Ran(target) -> Outcome], fate \in Fate :
          Evaluated(target, force, result, fate)
    BY <1>2 DEF Advance
  <2>3. CASE Blockers(result) = {} \/ force
    BY <2>1, <2>2, <2>3, MoveKeeps
  <2>4. CASE Blockers(result) # {} /\ ~force
    <3>1. /\ Emit("phase.transition.blocked", target, result, fate)
          /\ UNCHANGED <<phase, history, forced, untold>>
      BY <2>2, <2>4 DEF Evaluated
    <3>2. result \in Evaluation /\ DOMAIN result \subseteq DOMAIN gates
      BY RanIsEvaluation DEF IInv
    <3>3. QED
      BY <2>1, <3>1, <3>2, NoMoveKeeps
  <2>5. QED
    BY <2>3, <2>4
<1>3. ASSUME DecideRework PROVE IInv'
  <2>1. << >> \in Evaluation /\ DOMAIN << >> = {}
    <3>1. << >> \in [{} -> Outcome]
      OBVIOUS
    <3>2. QED
      BY <3>1 DEF Evaluation
  <2>2. phase \in Phase
    BY DEF IInv, TypeOK
  <2>3. QED
    BY <1>3, <2>1, <2>2, NoMoveKeeps DEF DecideRework
<1>4. CASE UNCHANGED vars
  BY <1>4 DEF vars, IInv, TypeOK, EventsNameGates, HistoryIsChain, Before,
     LogTellsHistory, Told, SameMove, Passed, UnforcedMovesAreEarned, Blockers
<1>5. QED
  BY <1>1, <1>2, <1>3, <1>4 DEF Next

(* Types, for every set of gates and every number of calls. *)
THEOREM TypeCorrect == Spec => []TypeOK
<1>1. Spec => []IInv
  BY InitInvariant, NextKeeps, PTL DEF Spec
<1>2. IInv => TypeOK
  BY DEF IInv
<1>3. QED
  BY <1>1, <1>2, PTL

(* The history of a work item is a chain that ends at its phase, whether   *)
(* or not the log took the event; the moves whose line was not lost are in *)
(* the audit stream in that order, and it tells of no other move           *)
(* (advance() and _emit_event() of PhaseController).                       *)
THEOREM HistoryCorrect == Spec => [](HistoryIsChain /\ LogTellsHistory)
<1>1. Spec => []IInv
  BY InitInvariant, NextKeeps, PTL DEF Spec
<1>2. IInv => HistoryIsChain /\ LogTellsHistory
  BY DEF IInv
<1>3. QED
  BY <1>1, <1>2, PTL

(* No gate that blocks is passed, and no edge outside ALLOWED_TRANSITIONS  *)
(* taken, by a call of advance() without force=True.                       *)
THEOREM UnforcedCorrect == Spec => []UnforcedMovesAreEarned
<1>1. Spec => []IInv
  BY InitInvariant, NextKeeps, PTL DEF Spec
<1>2. IInv => UnforcedMovesAreEarned
  BY DEF IInv
<1>3. QED
  BY <1>1, <1>2, PTL

(* An item in OPERATE that nobody forced went through REVIEW and GOVERN. *)
THEOREM GovernanceCorrect == Spec => []OperateIsGoverned
<1>1. Spec => []IInv
  BY InitInvariant, NextKeeps, PTL DEF Spec
<1>2. IInv => OperateIsGoverned
  <2> SUFFICES ASSUME IInv, phase = "OPERATE", forced = {}
               PROVE  LET n == Len(history)
                      IN  /\ n >= 5
                          /\ history[n].from_phase = "GOVERN"
                          /\ history[n - 1].from_phase = "REVIEW"
                          /\ history[n - 2].from_phase = "IMPLEMENT"
    BY DEF OperateIsGoverned
  <2> DEFINE n == Len(history)
  <2>1. n \in Nat /\ DOMAIN history = 1 .. n /\ history \in Seq(HistoryEntry)
    BY DEF IInv, TypeOK
  <2>2. \A k \in 1 .. n :
          /\ history[k].from_phase \in Phase
          /\ history[k].to_phase \in ALLOWED_TRANSITIONS[history[k].from_phase]
          /\ history[k].from_phase = IF k = 1 THEN "PLAN" ELSE history[k - 1].to_phase
    <3> SUFFICES ASSUME NEW k \in 1 .. n
                 PROVE  /\ history[k].from_phase \in Phase
                        /\ history[k].to_phase
                             \in ALLOWED_TRANSITIONS[history[k].from_phase]
                        /\ history[k].from_phase =
                             IF k = 1 THEN "PLAN" ELSE history[k - 1].to_phase
      OBVIOUS
    <3>1. history[k] \in HistoryEntry /\ k \in DOMAIN history \ forced
      BY <2>1
    <3>2. history[k].from_phase = Before(k)
      BY DEF IInv, HistoryIsChain
    <3>3. can_advance(history[k].from_phase, history[k].to_phase)
      BY <3>1 DEF IInv, UnforcedMovesAreEarned
    <3>4. QED
      BY <3>1, <3>2, <3>3 DEF HistoryEntry, Before, can_advance
  <2>3. "OPERATE" = IF n + 1 = 1 THEN "PLAN" ELSE history[n + 1 - 1].to_phase
    BY <2>1 DEF IInv, HistoryIsChain, Before
  <2> HIDE DEF n
  <2>4. n >= 1 /\ history[n].from_phase = "GOVERN"
    BY <2>1, <2>2, <2>3 DEF Phase, ALLOWED_TRANSITIONS
  <2>5. n >= 2 /\ history[n - 1].from_phase = "REVIEW"
    BY <2>1, <2>2, <2>4 DEF Phase, ALLOWED_TRANSITIONS
  <2>6. n >= 3 /\ history[n - 2].from_phase = "IMPLEMENT"
    BY <2>1, <2>2, <2>5 DEF Phase, ALLOWED_TRANSITIONS
  <2>7. n >= 4 /\ history[n - 3].from_phase \in {"ARCHITECT", "REVIEW"}
    BY <2>1, <2>2, <2>6 DEF Phase, ALLOWED_TRANSITIONS
  <2>8. n >= 5
    BY <2>1, <2>2, <2>7
  <2>9. QED
    BY <2>4, <2>5, <2>6, <2>8 DEF n
<1>3. QED
  BY <1>1, <1>2, PTL

(* Every step of the controller is a step of the ladder or leaves it alone. *)
THEOREM ControllerImplementsLadder == Spec => ImplementsLadder
<1> DEFINE moves(h) == [k \in DOMAIN h |-> <<h[k].from_phase, h[k].to_phase>>]
<1>1. Init => Ladder!LadderInit
  <2> SUFFICES ASSUME Init PROVE Ladder!LadderInit
    OBVIOUS
  <2>1. moves(history) = << >>
    BY DEF Init
  <2>2. QED
    BY <2>1 DEF Init, Ladder!LadderInit
<1>2. IInv /\ [Next]_vars => [Ladder!LadderNext]_(Ladder!ladderVars)
  <2> SUFFICES ASSUME IInv, [Next]_vars
               PROVE  [Ladder!LadderNext]_(Ladder!ladderVars)
    OBVIOUS
  <2>1. ASSUME UNCHANGED <<phase, history, forced>>
        PROVE  UNCHANGED Ladder!ladderVars
    BY <2>1 DEF Ladder!ladderVars
  <2>2. ASSUME NEW target \in Phase, NEW force \in BOOLEAN, Advance(target, force)
        PROVE  [Ladder!LadderNext]_(Ladder!ladderVars)
    <3>1. PICK result \in [Ran(target) -> Outcome], fate \in Fate :
            Evaluated(target, force, result, fate)
      BY <2>2 DEF Advance
    <3>2. CASE Blockers(result) # {} /\ ~force
      BY <2>1, <3>1, <3>2 DEF Evaluated
    <3>3. CASE ~(Blockers(result) # {} /\ ~force)
      <4> DEFINE entry == [from_phase |-> phase, to_phase |-> target,
                           at |-> Len(events) + 1, evidence |-> Passed(result)]
      <4>1. /\ history' = Append(history, entry)
            /\ phase' = target
            /\ forced' = IF force THEN forced \cup {Len(history) + 1} ELSE forced
        BY <3>1, <3>3 DEF Evaluated, Move
      <4>2. history \in Seq(HistoryEntry)
        BY DEF IInv, TypeOK
      <4>3. /\ moves(history') = Append(moves(history), <<phase, target>>)
            /\ Len(moves(history)) = Len(history)
        <5> DEFINE s == moves(history)
                   t == moves(history')
                   x == <<phase, target>>
        <5>1. /\ entry.from_phase = phase /\ entry.to_phase = target
              /\ entry \in HistoryEntry
          <6>1. Passed(result) \subseteq Gate
            BY RanIsEvaluation DEF Passed, IInv, TypeOK
          <6>2. QED
            BY <6>1 DEF HistoryEntry, IInv, TypeOK
        <5> HIDE DEF entry
        <5>2. /\ Len(history) \in Nat
              /\ DOMAIN history = 1 .. Len(history)
              /\ DOMAIN history' = 1 .. Len(history) + 1
              /\ history'[Len(history) + 1] = entry
              /\ \A k \in 1 .. Len(history) : history'[k] = history[k]
              /\ \A k \in 1 .. Len(history) : history[k] \in HistoryEntry
          BY <4>1, <4>2, <5>1
        <5>3. s \in [1 .. Len(history) -> Phase \X Phase]
          BY <5>2 DEF HistoryEntry
        <5>4. s \in Seq(Phase \X Phase) /\ Len(s) = Len(history)
          BY <5>2, <5>3
        <5>5. /\ t = [k \in 1 .. Len(history) + 1 |->
                         IF k <= Len(s) THEN s[k] ELSE x]
          BY <5>1, <5>2, <5>4
        <5>6. x \in Phase \X Phase
          BY DEF IInv, TypeOK
        <5> HIDE DEF s, x, t
        <5>7. /\ t \in Seq(Phase \X Phase)
              /\ Len(t) = Len(s) + 1
              /\ \A k \in 1 .. Len(t) : t[k] = IF k <= Len(s) THEN s[k] ELSE x
          <6>1. \A k \in 1 .. Len(s) : s[k] \in Phase \X Phase
            BY <5>4
          <6>2. t \in [1 .. Len(history) + 1 -> Phase \X Phase]
            BY <5>2, <5>4, <5>5, <5>6, <6>1
          <6>3. t \in Seq(Phase \X Phase) /\ Len(t) = Len(history) + 1
            BY <5>2, <6>2
          <6>4. QED
            BY <5>2, <5>4, <5>5, <6>3
        <5>8. /\ Append(s, x) \in Seq(Phase \X Phase)
              /\ Len(Append(s, x)) = Len(s) + 1
              /\ \A k \in 1 .. Len(s) : Append(s, x)[k] = s[k]
              /\ Append(s, x)[Len(s) + 1] = x
          BY <5>4, <5>6, AppendProperties
        <5>9. \A k \in 1 .. Len(t) : t[k] = Append(s, x)[k]
          BY <5>2, <5>4, <5>7, <5>8
        <5>10. t = Append(s, x)
          BY <5>7, <5>8, <5>9, SeqEqual
        <5>11. QED
          BY <5>4, <5>10 DEF s, x, t
      <4>4. CASE force
        <5>1. Ladder!Override(target)
          BY <4>1, <4>3, <4>4 DEF Ladder!Override
        <5>2. QED
          BY <5>1 DEF Ladder!LadderNext, Ladder!Phase, Phase
      <4>5. CASE ~force
        <5>1. can_advance(phase, target)
          BY <2>2, <4>5 DEF Advance
        <5>2. Ladder!Climb(target)
          BY <4>1, <4>3, <4>5, <5>1 DEF Ladder!Climb, Ladder!can_advance,
             Ladder!ALLOWED_TRANSITIONS, can_advance, ALLOWED_TRANSITIONS
        <5>3. QED
          BY <5>2 DEF Ladder!LadderNext, Ladder!Phase, Phase
      <4>6. QED
        BY <4>4, <4>5
    <3>4. QED
      BY <3>2, <3>3
  <2>3. ASSUME NEW g \in Gate, Register(g) PROVE UNCHANGED <<phase, history, forced>>
    BY <2>3 DEF Register
  <2>4. DecideRework => UNCHANGED <<phase, history, forced>>
    BY DEF DecideRework
  <2>5. QED
    BY <2>1, <2>2, <2>3, <2>4 DEF Next, vars
<1>3. Spec => []IInv
  BY InitInvariant, NextKeeps, PTL DEF Spec
<1>4. QED
  BY <1>1, <1>2, <1>3, PTL DEF Spec, ImplementsLadder, Ladder!LadderSpec

=============================================================================
