--------------------------- MODULE PhaseController ---------------------------
(***************************************************************************)
(* src/src/services/phase_controller.py: one controller, its gates, and    *)
(* one work item that callers try to move with advance().  The item lives  *)
(* in memory; transitions, refusals and review decisions are appended to   *)
(* the event log of the attached state manager.  Reasons and messages are  *)
(* left out; a timestamp is the position of the event in the log.  An      *)
(* append to the log may fail: it raises out of advance() when the item    *)
(* has already moved.  A line cut short by a failed append, this item's or *)
(* somebody else's, has no end, so the next one is joined to it and no     *)
(* reader of the log can parse either (file_lock.py, state.py).            *)
(***************************************************************************)
EXTENDS SdlcPhase, FiniteSets

CONSTANTS
    Gate,             \* the quality gates callers may register
    Blocking,         \* those whose failure halts a transition
    AppliesTo,        \* per gate, the phases at which it fires ({}: all)
    HasStateManager,  \* is a state manager (an event log) attached?
    MaxCalls,         \* bound: calls of advance() and decide_rework()
    MaxForced,        \* bound: calls with force=True
    MaxUntold,        \* bound: moves whose event is lost
    MaxGates          \* bound: registered gates

ASSUME GateAssumption ==
    /\ Blocking \subseteq Gate
    /\ AppliesTo \in [Gate -> SUBSET Phase]
    /\ HasStateManager \in BOOLEAN
    /\ MaxCalls \in Nat
    /\ MaxForced \in Nat
    /\ MaxUntold \in Nat
    /\ MaxGates \in Nat

VARIABLES
    gates,    \* self._gates, in registration order
    phase,    \* item.phase
    history,  \* item.history
    events,   \* events.jsonl, the records of this item
    calls,    \* bound: calls so far
    forced,   \* history positions recorded by a call with force=True
    untold    \* history positions whose event did not get into the log

vars == <<gates, phase, history, events, calls, forced, untold>>

Outcome == {"passed", "failed", "crashed"}

Evaluation == UNION {[S -> Outcome] : S \in SUBSET (1 .. MaxGates)}

HistoryEntry ==
    [from_phase : Phase, to_phase : Phase, at : Nat, evidence : SUBSET Gate]

Event ==
    [action : {"phase.transition", "phase.transition.blocked",
               "phase.review.decision"},
     from_phase : Phase, to_phase : Phase, gates : Evaluation]

TypeOK ==
    /\ gates \in Seq(Gate)
    /\ Len(gates) <= MaxGates
    /\ phase \in Phase
    /\ history \in Seq(HistoryEntry)
    /\ events \in Seq(Event)
    /\ calls \in Nat
    /\ forced \subseteq 1 .. Len(history)
    /\ untold \subseteq 1 .. Len(history)

-----------------------------------------------------------------------------

Init ==
    /\ gates = << >>
    /\ phase = "PLAN"
    /\ history = << >>
    /\ events = << >>
    /\ calls = 0
    /\ forced = {}
    /\ untold = {}

\* register(gate)
Register(g) ==
    /\ Len(gates) < MaxGates
    /\ gates' = Append(gates, g)
    /\ UNCHANGED <<phase, history, events, calls, forced, untold>>

\* gate.should_run(target), for the gate registered at position i
should_run(i, target) ==
    AppliesTo[gates[i]] = {} \/ target \in AppliesTo[gates[i]]

\* The positions of the gates that _evaluate runs for a target: every gate
\* that applies, whatever the earlier ones answered.
Ran(target) == {i \in DOMAIN gates : should_run(i, target)}

\* A gate that raises is recorded as failed, blocking if the gate is blocking.
Blockers(result) ==
    {i \in DOMAIN result : gates[i] \in Blocking /\ result[i] # "passed"}

Passed(result) == {gates[i] : i \in {j \in DOMAIN result : result[j] = "passed"}}

\* What becomes of a line given to the log: it is written, the append raises,
\* or it is joined to the torn end of one that raised.
Fate == IF HasStateManager THEN {"written", "raised", "joined"} ELSE {"written"}

\* Mutant: the event's from_phase is read when the item has moved.
Emit_LateFrom(action, to, result, fate) ==
    events' = IF HasStateManager /\ fate = "written"
                THEN Append(events, [action |-> action, from_phase |-> to,
                                     to_phase |-> to, gates |-> result])
                ELSE events

\* _emit_event: without a state manager nothing is logged.
Emit(action, to, result, fate) ==
    events' = IF HasStateManager /\ fate = "written"
                THEN Append(events, [action |-> action, from_phase |-> phase,
                                     to_phase |-> to, gates |-> result])
                ELSE events

\* Mutant: the new phase is assigned before record() reads item.phase.
Move_PhaseFirst(target, force, result, fate) ==
    /\ history' = Append(history,
                         [from_phase |-> target, to_phase |-> target,
                          at |-> Len(events) + 1, evidence |-> Passed(result)])
    /\ phase' = target
    /\ forced' = IF force THEN forced \cup {Len(history) + 1} ELSE forced
    /\ untold' = IF fate = "written" THEN untold ELSE untold \cup {Len(history) + 1}
    /\ fate = "written" \/ Cardinality(untold) < MaxUntold
    /\ Emit("phase.transition", target, result, fate)

\* Mutant: a forced move is not recorded.
Move_NoRecord(target, force, result, fate) ==
    /\ force
    /\ phase' = target
    /\ forced' = forced \cup {Len(history) + 1}
    /\ Emit("phase.transition", target, result, fate)
    /\ UNCHANGED <<history, untold>>

\* item.record() and item.phase = target, and only then the event: whatever
\* becomes of it, the item has moved.
Move(target, force, result, fate) ==
    /\ history' = Append(history,
                         [from_phase |-> phase, to_phase |-> target,
                          at |-> Len(events) + 1, evidence |-> Passed(result)])
    /\ phase' = target
    /\ forced' = IF force THEN forced \cup {Len(history) + 1} ELSE forced
    /\ untold' = IF fate = "written" THEN untold ELSE untold \cup {Len(history) + 1}
    /\ fate = "written" \/ Cardinality(untold) < MaxUntold
    /\ Emit("phase.transition", target, result, fate)

\* Mutant: a gate that crashes does not count as a failure.
Evaluated_CrashPasses(target, force, result, fate) ==
    /\ force \/ \A i \in Blockers(result) : result[i] = "crashed"
    /\ Move(target, force, result, fate)

\* advance(item, target, force=force), past the edge check.
Evaluated(target, force, result, fate) ==
    IF Blockers(result) # {} /\ ~force
      THEN /\ Emit("phase.transition.blocked", target, result, fate)
           /\ UNCHANGED <<phase, history, forced, untold>>
      ELSE Move(target, force, result, fate)

\* Mutant: no edge check.
Advance_NoEdgeCheck(target, force) ==
    /\ calls < MaxCalls
    /\ force => Cardinality(forced) < MaxForced
    /\ calls' = calls + 1
    /\ \E result \in [Ran(target) -> Outcome], fate \in Fate :
         Evaluated(target, force, result, fate)
    /\ UNCHANGED gates

\* A disallowed edge raises PhaseTransitionError before any gate runs and
\* changes nothing, so the call is a stuttering step and is not an action.
Advance(target, force) ==
    /\ calls < MaxCalls
    /\ force => Cardinality(forced) < MaxForced
    /\ force \/ can_advance(phase, target)
    /\ calls' = calls + 1
    /\ \E result \in [Ran(target) -> Outcome], fate \in Fate :
         Evaluated(target, force, result, fate)
    /\ UNCHANGED gates

\* decide_rework(): the rule is review_rework_decision, the answer goes to the
\* caller; the controller only logs that it was asked.
DecideRework ==
    /\ calls < MaxCalls
    /\ calls' = calls + 1
    /\ \E fate \in Fate : Emit("phase.review.decision", phase, << >>, fate)
    /\ UNCHANGED <<gates, phase, history, forced, untold>>

Next ==
    \/ \E g \in Gate : Register(g)
    \/ \E target \in Phase, force \in BOOLEAN : Advance(target, force)
    \/ DecideRework

Spec == Init /\ [][Next]_vars

-----------------------------------------------------------------------------

(* The recorded history is a chain: it starts at PLAN, each entry starts in *)
(* the phase the one before it reached, and the item is where the last one  *)
(* ended.  WorkItem.record() reads item.phase and leaves the assignment of  *)
(* the new phase to its caller, so the order of the two statements in       *)
(* advance() is what this rests on.                                         *)
Before(k) == IF k = 1 THEN "PLAN" ELSE history[k - 1].to_phase

HistoryIsChain ==
    /\ \A k \in 1 .. Len(history) : history[k].from_phase = Before(k)
    /\ phase = Before(Len(history) + 1)

(* The audit stream and the item tell the same story, in the same order:   *)
(* every move is in the log, with the same endpoints and the evidence it   *)
(* cites, but for those whose line was lost (the append raised when the    *)
(* item had moved, or its line was joined to a torn one); and there is no  *)
(* transition event without a move of its own, so what the log does tell   *)
(* happened.                                                               *)
SameMove(h, e) ==
    /\ e.action = "phase.transition"
    /\ e.from_phase = h.from_phase
    /\ e.to_phase = h.to_phase
    /\ h.evidence = Passed(e.gates)

Told == DOMAIN history \ untold

LogTellsHistory ==
    HasStateManager =>
      /\ \A k \in Told : /\ history[k].at \in DOMAIN events
                         /\ SameMove(history[k], events[history[k].at])
      /\ \A k, l \in Told : k < l => history[k].at < history[l].at
      /\ \A n \in DOMAIN events :
           events[n].action = "phase.transition" =>
             \E k \in Told : history[k].at = n

(* Every move nobody forced is on an allowed edge, and no blocking gate     *)
(* that fires at its target failed or crashed when it was made.  The log    *)
(* is the witness of the gates, so this also says that a reader of          *)
(* events.jsonl can tell, of every move it tells of.                        *)
UnforcedMovesAreEarned ==
    /\ \A k \in DOMAIN history \ forced :
         can_advance(history[k].from_phase, history[k].to_phase)
    /\ HasStateManager => \A k \in Told \ forced :
                            Blockers(events[history[k].at].gates) = {}

(* Without an override nothing reaches OPERATE but through REVIEW and       *)
(* GOVERN, however often it was sent back to IMPLEMENT on the way.          *)
OperateIsGoverned ==
    phase = "OPERATE" /\ forced = {} =>
      LET n == Len(history)
      IN  /\ n >= 5
          /\ history[n].from_phase = "GOVERN"
          /\ history[n - 1].from_phase = "REVIEW"
          /\ history[n - 2].from_phase = "IMPLEMENT"

(* The controller implements the ladder: every call of advance() that moves *)
(* the item is a climb or an override, every other call leaves the ladder.  *)
Ladder == INSTANCE PhaseLadder WITH
    at <- phase,
    trail <- [k \in DOMAIN history |->
                <<history[k].from_phase, history[k].to_phase>>],
    overrides <- forced

ImplementsLadder == Ladder!LadderSpec

=============================================================================
