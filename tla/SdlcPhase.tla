------------------------------ MODULE SdlcPhase ------------------------------
(***************************************************************************)
(* The phase model of the SDLC (src/src/services/sdlc_phase.py) and the    *)
(* two decision rules of src/src/services/workflow_graphs.py.  Nothing     *)
(* here has state: the modules that move work items extend it.             *)
(***************************************************************************)
EXTENDS Naturals, Sequences

Phase == {"PLAN", "ARCHITECT", "IMPLEMENT", "REVIEW", "GOVERN", "OPERATE"}

\* Mutant: REVIEW may skip GOVERN.
ALLOWED_TRANSITIONS_SkipGovern ==
    [PLAN      |-> {"ARCHITECT"},
     ARCHITECT |-> {"IMPLEMENT"},
     IMPLEMENT |-> {"REVIEW"},
     REVIEW    |-> {"GOVERN", "IMPLEMENT", "OPERATE"},
     GOVERN    |-> {"OPERATE"},
     OPERATE   |-> {}]

\* Forward edges and the one rework edge, REVIEW -> IMPLEMENT.
ALLOWED_TRANSITIONS ==
    [PLAN      |-> {"ARCHITECT"},
     ARCHITECT |-> {"IMPLEMENT"},
     IMPLEMENT |-> {"REVIEW"},
     REVIEW    |-> {"GOVERN", "IMPLEMENT"},
     GOVERN    |-> {"OPERATE"},
     OPERATE   |-> {}]

can_advance(current, target) == target \in ALLOWED_TRANSITIONS[current]

-----------------------------------------------------------------------------
(* Review verdicts and the bounded review -> rework rule.  A status that is *)
(* neither "pass" nor "block" is treated as a retry.                        *)

ReviewStatus == {"pass", "retry", "block"}

review_rework_decision(builder_attempts, review_status, max_retries) ==
    IF review_status = "pass" THEN "stop"
    ELSE IF review_status # "block" /\ builder_attempts < max_retries
           THEN "builder"
           ELSE "critic_stop"

(* The campaign rule: stop on success, on request, or when the cycle budget *)
(* is used up.                                                              *)
autonomous_retry(cycle_attempts, last_status, max_cycles) ==
    IF last_status \notin {"success", "stop"} /\ cycle_attempts < max_cycles
      THEN "retry"
      ELSE "stop"

=============================================================================
