-------------------------- MODULE MCPhaseController --------------------------
(* Instances of PhaseController for TLC. *)
EXTENDS PhaseController

\* The content guard fires at REVIEW and GOVERN and blocks, the security scan
\* fires at GOVERN and is advisory (quality_gates.py).
MCGate == {"content_guard", "security_scan"}
MCBlocking == {"content_guard"}
MCAppliesTo == [content_guard |-> {"REVIEW", "GOVERN"},
                security_scan |-> {"GOVERN"}]

=============================================================================
