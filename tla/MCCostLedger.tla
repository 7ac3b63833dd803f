----------------------------- MODULE MCCostLedger -----------------------------
(* Two processes that write the same ledger, one of them the governor's.       *)
EXTENDS CostLedger

CONSTANTS p1, p2

BudgetOf == [p \in {p1, p2} |-> IF p = p2 THEN 3 ELSE 2]
===============================================================================
