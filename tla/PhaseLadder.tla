----------------------------- MODULE PhaseLadder -----------------------------
(***************************************************************************)
(* What a phase controller promises about one work item: its phase moves   *)
(* along an allowed edge, or by an override that someone asked for, and    *)
(* the trail is the list of moves.  PhaseController implements it.         *)
(***************************************************************************)
EXTENDS SdlcPhase

VARIABLES
    at,        \* the phase the item is in
    trail,     \* the moves so far, <<from, to>> pairs
    overrides  \* the positions of the trail that were overrides

ladderVars == <<at, trail, overrides>>

LadderInit ==
    /\ at = "PLAN"
    /\ trail = << >>
    /\ overrides = {}

Climb(target) ==
    /\ can_advance(at, target)
    /\ at' = target
    /\ trail' = Append(trail, <<at, target>>)
    /\ UNCHANGED overrides

Override(target) ==
    /\ at' = target
    /\ trail' = Append(trail, <<at, target>>)
    /\ overrides' = overrides \cup {Len(trail) + 1}

LadderNext == \E target \in Phase : Climb(target) \/ Override(target)

LadderSpec == LadderInit /\ [][LadderNext]_ladderVars

=============================================================================
