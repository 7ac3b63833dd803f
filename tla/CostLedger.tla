------------------------------ MODULE CostLedger ------------------------------
(***************************************************************************)
(* costs.jsonl (src/src/observability/cost_tracker.py) and those who write *)
(* it: the FinOps tools (agents/finops.py) and the governor                *)
(* (agents/governor.py), each with a tracker that lives as long as its     *)
(* process, and the agent callback (observability/adk_callbacks.py), which *)
(* makes a new tracker for every cost.  A process does one thing at a time *)
(* - no caller awaits inside record_cost() - so that only processes        *)
(* interleave.  The lock covers the reading of the file, not its replacing.*)
(***************************************************************************)
EXTENDS Naturals

CONSTANTS
    Process,    \* processes with a tracker
    Governor,   \* those of them that run the governor, not FinOps
    Cost,       \* amounts that are recorded
    Budget,     \* per process, its BUDGET_USD
    MaxRecords  \* bound: costs recorded

VARIABLES
    disk,     \* costs.jsonl: a ledger
    mem,      \* per process: _data of its tracker
    job,      \* per process: the record_cost() in progress
    verdict,  \* per process: what the last finished check said
    alerts,   \* budget_alerts.jsonl
    usage,    \* model_usage.jsonl: the sum of its entries
    spent,    \* per key: all costs ever given to record_cost()
    recorded, \* per key: the costs for which it returned
    records   \* bound: costs recorded so far

costVars == <<disk, mem, job, verdict, alerts, usage, spent, recorded, records>>

\* A key is a task and an agent: the quota tool's, the governor's, the
\* callback's, the usage tool's.
Key == {"system", "governor", "global", "model_usage"}

\* A ledger has entries for some of the keys.
IsLedger(ledger) == DOMAIN ledger \subseteq Key /\ ledger \in [DOMAIN ledger -> Nat]
Empty == [k \in {} |-> 0]

Idle == [step |-> "idle", key |-> "system", cost |-> 0, ledger |-> Empty]

TypeOK ==
    /\ IsLedger(disk)
    /\ \A p \in Process :
         /\ IsLedger(mem[p]) /\ IsLedger(job[p].ledger)
         /\ job[p].step \in {"idle", "read", "write"}
         /\ job[p].key \in Key /\ job[p].cost \in Nat
    /\ verdict \in [Process -> {"none", "OK", "BUDGET_EXCEEDED", "not_ready",
                                "APPROACHING_LIMIT", "WARNING", "WITHIN_BUDGET"}]
    /\ alerts \subseteq [threshold : Nat, triggered : BOOLEAN]
    /\ usage \in Nat
    /\ {spent, recorded} \subseteq [Key -> Nat]
    /\ records \in 0 .. MaxRecords

Init ==
    /\ disk = Empty
    /\ mem = [p \in Process |-> Empty]
    /\ job = [p \in Process |-> Idle]
    /\ verdict = [p \in Process |-> "none"]
    /\ alerts = {}
    /\ usage = 0
    /\ spent = [k \in Key |-> 0]
    /\ recorded = [k \in Key |-> 0]
    /\ records = 0

-----------------------------------------------------------------------------
(* The tracker.                                                             *)

At(ledger, key) == IF key \in DOMAIN ledger THEN ledger[key] ELSE 0

Add(ledger, key, cost) ==
    [k \in DOMAIN ledger \cup {key} |-> At(ledger, k) + IF k = key THEN cost ELSE 0]

Total(ledger) ==
    At(ledger, "system") + At(ledger, "governor") + At(ledger, "global")
      + At(ledger, "model_usage")

\* record_cost() up to _persist(): the callback's tracker has just loaded
\* the file, the others add to what they remember.
record_cost(p, key, cost) ==
    LET ledger == Add(IF key = "global" THEN disk ELSE mem[p], key, cost)
    IN  /\ job[p].step = "idle" /\ records < MaxRecords
        /\ job' = [job EXCEPT ![p] =
                     [step |-> "read", key |-> key, cost |-> cost, ledger |-> ledger]]
        /\ mem' = IF key = "global" THEN mem ELSE [mem EXCEPT ![p] = ledger]
        /\ spent' = [spent EXCEPT ![key] = @ + cost]
        /\ records' = records + 1

\* Mutant: costs of both sides are added, as the docstring first suggests.
Merged_Sum(ledger, file) ==
    [k \in DOMAIN ledger \cup DOMAIN file |-> At(ledger, k) + At(file, k)]

\* The file only fills in what the tracker does not know.
Merged(ledger, file) ==
    [k \in DOMAIN ledger \cup DOMAIN file |->
       IF k \in DOMAIN ledger THEN ledger[k] ELSE file[k]]

\* _persist(), under the lock of the file.
Read(p) ==
    /\ job[p].step = "read"
    /\ job' = [job EXCEPT ![p].step = "write", ![p].ledger = Merged(job[p].ledger, disk)]
    /\ UNCHANGED <<disk, mem, verdict, alerts, usage, spent, recorded, records>>

\* What the caller of record_cost() concludes; the governor has concerns of
\* its own: a thin release note, a second review that does not pass.
Conclusions(p) ==
    LET total == Total(job[p].ledger)
    IN  CASE job[p].key = "system" ->
               {IF total > Budget[p] THEN "BUDGET_EXCEEDED" ELSE "OK"}
          [] job[p].key = "governor" ->
               {IF total > Budget[p] THEN "BUDGET_EXCEEDED" ELSE "OK", "not_ready"}
          [] OTHER -> {verdict[p]}

\* The temporary file replaces the ledger, without a lock; the merged view
\* becomes the tracker's.
Replace(p) ==
    /\ job[p].step = "write"
    /\ disk' = job[p].ledger
    /\ mem' = IF job[p].key = "global" THEN mem ELSE [mem EXCEPT ![p] = job[p].ledger]
    /\ \E said \in Conclusions(p) : verdict' = [verdict EXCEPT ![p] = said]
    /\ recorded' = [recorded EXCEPT ![job[p].key] = @ + job[p].cost]
    /\ job' = [job EXCEPT ![p] = Idle]
    /\ UNCHANGED <<alerts, usage, spent, records>>

\* The file cannot be written: record_cost() raises.
ReplaceFails(p) ==
    /\ job[p].step = "write"
    /\ job' = [job EXCEPT ![p] = Idle]
    /\ UNCHANGED <<disk, mem, verdict, alerts, usage, spent, recorded, records>>

\* The process dies; the next one loads the file.
Restart(p) ==
    /\ mem' = [mem EXCEPT ![p] = disk]
    /\ job' = [job EXCEPT ![p] = Idle]
    /\ verdict' = [verdict EXCEPT ![p] = "none"]
    /\ UNCHANGED <<disk, alerts, usage, spent, recorded, records>>

-----------------------------------------------------------------------------
(* Its users.                                                               *)

\* check_quota(): a cost of 0 makes an entry, too.
check_quota(p) ==
    /\ p \notin Governor
    /\ \E cost \in Cost \cup {0} : record_cost(p, "system", cost)
    /\ UNCHANGED <<disk, verdict, alerts, usage, recorded>>

run_governance_review(p) ==
    /\ p \in Governor
    /\ \E cost \in Cost \cup {0} : record_cost(p, "governor", cost)
    /\ UNCHANGED <<disk, verdict, alerts, usage, recorded>>

\* The usage file first, then the tracker.
track_model_usage(p) ==
    /\ p \notin Governor
    /\ \E cost \in Cost : record_cost(p, "model_usage", cost) /\ usage' = usage + cost
    /\ UNCHANGED <<disk, verdict, alerts, recorded>>

\* Only a cost above 0 is recorded.
after_agent(p) ==
    /\ \E cost \in Cost \ {0} : record_cost(p, "global", cost)
    /\ UNCHANGED <<disk, verdict, alerts, usage, recorded>>

\* Mutant: the alarm goes off when the budget is used up, not exceeded.
BudgetStatus_Eager(total, budget) ==
    IF total >= budget THEN "BUDGET_EXCEEDED" ELSE "WITHIN_BUDGET"

BudgetStatus(total, budget) ==
    CASE total > budget -> "BUDGET_EXCEEDED"
      [] total <= budget /\ budget > 0 /\ 10 * total >= 9 * budget -> "APPROACHING_LIMIT"
      [] total <= budget /\ 10 * total < 9 * budget /\ 4 * total >= 3 * budget -> "WARNING"
      [] OTHER -> "WITHIN_BUDGET"

check_budget_status(p) ==
    /\ p \notin Governor /\ job[p].step = "idle"
    /\ verdict' = [verdict EXCEPT ![p] = BudgetStatus(Total(mem[p]), Budget[p])]
    /\ UNCHANGED <<disk, mem, job, alerts, usage, spent, recorded, records>>

\* Checked once, when it is set; nothing checks it again.
set_budget_alert(p) ==
    /\ p \notin Governor /\ job[p].step = "idle"
    /\ \E threshold \in Cost :
         alerts' = alerts \cup
           {[threshold |-> threshold, triggered |-> Total(mem[p]) >= threshold]}
    /\ UNCHANGED <<disk, mem, job, verdict, usage, spent, recorded, records>>

Next ==
    \E p \in Process :
      \/ check_quota(p) \/ run_governance_review(p) \/ track_model_usage(p)
      \/ after_agent(p) \/ Read(p) \/ Replace(p) \/ ReplaceFails(p) \/ Restart(p)
      \/ check_budget_status(p) \/ set_budget_alert(p)

Spec == Init /\ [][Next]_costVars

-----------------------------------------------------------------------------

\* No entry says more than was spent on its key.
Within(ledger) == \A k \in DOMAIN ledger : ledger[k] <= spent[k]

EntriesAreSpent ==
    /\ Within(disk)
    /\ \A p \in Process : Within(mem[p]) /\ Within(job[p].ledger)

(* Whatever the processes overwrite, lose or load again, the ledger only    *)
(* errs on one side: no entry of the file or of a tracker exceeds what was  *)
(* spent, the usage file explains all that is charged to it, and whoever    *)
(* says that a budget is exceeded or an alert threshold reached is right.   *)
NeverOverstated ==
    /\ EntriesAreSpent
    /\ At(disk, "model_usage") <= usage
    /\ \A p \in Process :
         verdict[p] = "BUDGET_EXCEEDED" => Total(spent) > Budget[p]
    /\ \A alert \in alerts : alert.triggered => Total(spent) >= alert.threshold

(* "The later writer preserves the earlier writer's increments (no          *)
(* last-writer-wins data loss)", cost_tracker.py lines 20-24: the file has  *)
(* every cost whose record_cost() returned.                                 *)
IncrementsKept == \A k \in Key : At(disk, k) >= recorded[k]

=============================================================================
