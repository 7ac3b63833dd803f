-------------------------------- MODULE Metrics --------------------------------
(***************************************************************************)
(* src/src/observability/metrics.py: the registry of every process, filled *)
(* by the timers around agents and tools, and metrics.jsonl, which each of *)
(* them truncates and rewrites after every record without a lock.          *)
(***************************************************************************)
EXTENDS Naturals, Sequences, FiniteSets

CONSTANTS
    Process,  \* processes that import the registry
    Task,     \* timed calls of each process, running at the same time
    MaxCalls  \* bound: timed calls, over all processes

VARIABLES
    file,     \* metrics.jsonl: its counts, Torn, or Missing
    metrics,  \* per process: calls_total, errors_total, tokens
    writing,  \* per process: between truncating the file and closing it
    call,     \* per process and task: "none", "running"
    ended,    \* per process: timed calls that ended since it started
    base,     \* per process: calls_total as it was loaded
    total     \* calls, errors and tokens recorded by anyone

metricsVars == <<file, metrics, writing, call, ended, base, total>>

Counts == [calls : Nat, errors : Nat, tokens : Nat]
Zero == [calls |-> 0, errors |-> 0, tokens |-> 0]
Stored(state, counts) == [state |-> state, counts |-> counts]
Missing == Stored("missing", Zero)
Torn == Stored("torn", Zero)

TypeOK ==
    /\ file \in [state : {"missing", "torn", "whole"}, counts : Counts]
    /\ metrics \in [Process -> Counts] /\ writing \in [Process -> BOOLEAN]
    /\ call \in [Process -> [Task -> {"none", "running"}]]
    /\ ended \in [Process -> Nat] /\ base \in [Process -> Nat] /\ total \in Counts

Init ==
    /\ file = Missing /\ metrics = [p \in Process |-> Zero]
    /\ writing = [p \in Process |-> FALSE]
    /\ call = [p \in Process |-> [t \in Task |-> "none"]]
    /\ ended = [p \in Process |-> 0] /\ base = [p \in Process |-> 0] /\ total = Zero

Plus(counts, more) == [f \in DOMAIN Zero |-> counts[f] + more[f]]

\* agent_timer() and tool_timer(): a call starts.
Enter(p, t) ==
    /\ call[p][t] = "none" /\ ~writing[p]
    /\ call' = [call EXCEPT ![p][t] = "running"]
    /\ UNCHANGED <<file, metrics, writing, ended, base, total>>

\* _persist() opens the file for writing: it is empty until it is closed.
Open(p) == file' = Torn /\ writing' = [writing EXCEPT ![p] = TRUE]

\* record_agent_call() and record_tool_call().
record_call(p, error) ==
    LET one == [calls |-> 1, errors |-> IF error THEN 1 ELSE 0, tokens |-> 0]
    IN  /\ metrics' = [metrics EXCEPT ![p] = Plus(@, one)] /\ total' = Plus(total, one)
        /\ Open(p)

\* Mutant: only a call that returns is recorded.
Exit_ReturnsOnly(p, t) ==
    /\ call[p][t] = "running" /\ ~writing[p] /\ total.calls < MaxCalls
    /\ \/ record_call(p, FALSE)
       \/ UNCHANGED <<file, metrics, writing, total>>
    /\ call' = [call EXCEPT ![p][t] = "none"]
    /\ ended' = [ended EXCEPT ![p] = @ + 1]
    /\ UNCHANGED base

\* The call returns, raises or is cancelled; the finally clause records it,
\* a cancelled one without an error.
Exit(p, t) ==
    /\ call[p][t] = "running" /\ ~writing[p] /\ total.calls < MaxCalls
    /\ \E error \in BOOLEAN : record_call(p, error)
    /\ call' = [call EXCEPT ![p][t] = "none"]
    /\ ended' = [ended EXCEPT ![p] = @ + 1]
    /\ UNCHANGED base

record_tokens(p) ==
    LET one == [Zero EXCEPT !.tokens = 1]
    IN  /\ ~writing[p] /\ total.tokens < 1
        /\ metrics' = [metrics EXCEPT ![p] = Plus(@, one)] /\ total' = Plus(total, one)
        /\ Open(p)
        /\ UNCHANGED <<call, ended, base>>

\* _persist() is done: the counts of this process alone.  If another one
\* wrote meanwhile, the end of its longer text may follow; if the file was
\* removed, nobody sees the new one.
_persist(p) ==
    /\ writing[p] /\ writing' = [writing EXCEPT ![p] = FALSE]
    /\ file' \in CASE file.state = "torn" -> {Stored("whole", metrics[p])}
                   [] file.state = "whole" -> {Stored("whole", metrics[p]), Torn}
                   [] OTHER -> {Missing}
    /\ UNCHANGED <<metrics, call, ended, base, total>>

\* _load(): a missing or a torn file counts as nothing.
_load(p) ==
    /\ metrics' = [metrics EXCEPT ![p] = file.counts]
    /\ base' = [base EXCEPT ![p] = file.counts.calls]
    /\ ended' = [ended EXCEPT ![p] = 0]

\* A process dies, maybe while it writes, and is started again.
Restart(p) ==
    /\ _load(p)
    /\ writing' = [writing EXCEPT ![p] = FALSE]
    /\ call' = [call EXCEPT ![p] = [t \in Task |-> "none"]]
    /\ UNCHANGED <<file, total>>

reset(p) ==
    /\ ~writing[p]
    /\ metrics' = [metrics EXCEPT ![p] = Zero]
    /\ base' = [base EXCEPT ![p] = 0] /\ ended' = [ended EXCEPT ![p] = 0]
    /\ file' = Missing
    /\ UNCHANGED <<writing, call, total>>

Next ==
    \E p \in Process :
      \/ \E t \in Task : Enter(p, t) \/ Exit(p, t)
      \/ record_tokens(p) \/ _persist(p) \/ Restart(p) \/ reset(p)

Spec == Init /\ [][Next]_metricsVars

-----------------------------------------------------------------------------

\* get_summary(): what the CLI, the web application and Pulse read.
get_summary(p) == metrics[p]

(* Every timed call that ended is in the summary of its process, and no     *)
(* summary and no file counts a call, an error or a token twice or one that *)
(* never was, whoever truncates the file under whom; errors are calls.      *)
EveryCallCounts ==
    /\ \A p \in Process :
         /\ get_summary(p).calls = base[p] + ended[p]
         /\ get_summary(p).errors <= get_summary(p).calls
         /\ \A f \in DOMAIN Zero : get_summary(p)[f] <= total[f]
    /\ \A f \in DOMAIN Zero : file.counts[f] <= total[f]

=============================================================================
