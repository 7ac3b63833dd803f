---------------------------- MODULE TaskLifecycle ----------------------------
(***************************************************************************)
(* What the task queue promises about its tasks: at most MaxWorkers run at *)
(* once, a task that failed is retried at most MaxRetries[t] times, and    *)
(* the statuses COMPLETED, FAILED and CANCELLED are final.  TaskQueue      *)
(* implements it.                                                          *)
(***************************************************************************)
EXTENDS Naturals, FiniteSets

CONSTANTS Task, MaxWorkers, MaxRetries

VARIABLES
    life,   \* the status of each task, "unknown" before it is submitted
    tries   \* retries used by each task

lifeVars == <<life, tries>>

LifeInit ==
    /\ life = [t \in Task |-> "unknown"]
    /\ tries = [t \in Task |-> 0]

Become(t, from, to) ==
    /\ life[t] = from
    /\ life' = [life EXCEPT ![t] = to]
    /\ UNCHANGED tries

Run(t) ==
    /\ Cardinality({u \in Task : life[u] = "RUNNING"}) < MaxWorkers
    /\ Become(t, "PENDING", "RUNNING")

Retry(t) ==
    /\ life[t] = "RUNNING"
    /\ tries[t] < MaxRetries[t]
    /\ life' = [life EXCEPT ![t] = "PENDING"]
    /\ tries' = [tries EXCEPT ![t] = @ + 1]

\* Tasks cancelled together, as stop() does.
CancelAll(ts) ==
    /\ \A t \in ts : life[t] \in {"PENDING", "RUNNING"}
    /\ life' = [t \in Task |-> IF t \in ts THEN "CANCELLED" ELSE life[t]]
    /\ UNCHANGED tries

LifeNext ==
    \/ \E t \in Task :
         \/ Become(t, "unknown", "PENDING")
         \/ Run(t)
         \/ Retry(t)
         \/ Become(t, "RUNNING", "COMPLETED")
         \/ /\ tries[t] = MaxRetries[t]
            /\ Become(t, "RUNNING", "FAILED")
    \/ \E ts \in SUBSET Task : CancelAll(ts)

LifeSpec == LifeInit /\ [][LifeNext]_lifeVars

=============================================================================
