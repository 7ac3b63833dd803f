--------------------------- MODULE MCStateManager ----------------------------
(* Instances of StateManager for TLC. *)
EXTENDS StateManager

\* The engine and the dashboard: two threads and one.
MCThread == {"e1", "e2", "d1"}
MCProcess == {"engine", "dashboard"}
MCHome == [e1 |-> "engine", e2 |-> "engine", d1 |-> "dashboard"]

=============================================================================
