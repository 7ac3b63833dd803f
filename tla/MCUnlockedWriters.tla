-------------------------- MODULE MCUnlockedWriters --------------------------
(* An instance of UnlockedWriters for TLC: the dashboard sets tasks while  *)
(* the engine keeps its quota and prompts itself.                          *)
EXTENDS UnlockedWriters

MCThread == {"d1"}
MCProcess == {"engine", "dashboard"}
MCHome == [d1 |-> "dashboard"]

=============================================================================
