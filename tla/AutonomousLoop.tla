---------------------------- MODULE AutonomousLoop ----------------------------
(* AutonomousLoop: plan, simulate, reflect, replan, and remember the outcome.   *)
EXTENDS Naturals, Sequences, FiniteSets, Functions, Blueprint, MemoryGraph

CONSTANTS
    Goal,       \* goals a caller asks for
    LengthOf,   \* the length of the workflow whose keyword a goal contains
    WordsOf,    \* the words of a goal
    Criterion,  \* success criteria
    KindOf,     \* "stated": a long word of it is in every plan's text;
                \* "echoed": in its first characters, which a fix step repeats;
                \* "mute": neither
    Retries,    \* values of max_retries
    MaxRuns     \* bound: runs that are remembered

VARIABLES
    memory,     \* the graph of this process
    saved,      \* the graph's file: "missing", "empty", "torn", "whole"
    stored,     \* what a whole file holds: the graph and the runs
    phase,      \* idle, attempt, reflected, or stopped (the process cannot start)
    goal, criteria, retries, \* the arguments of run()
    attempt,    \* attempts made
    blueprint,  \* the plan
    reflection, \* the last one: the gaps and the tasks its notes name
    result,     \* what run() returned
    runs        \* history: the runs memory should hold, oldest first

loopVars == <<memory, saved, stored, phase, goal, criteria, retries, attempt, blueprint,
              reflection, result, runs>>
call == <<goal, criteria, retries>>
persisted == <<saved, stored>>

Unbound == [gaps |-> <<>>, notes |-> {}, bound |-> FALSE]
NoResult == [status |-> "none", attempts |-> 0, gaps |-> <<>>]
Outcome == [task : Goal, outcome : {"success", "failure"}]

TypeOK ==
    /\ Len(memory.nodes) <= 3 * MaxRuns /\ saved \in {"missing", "empty", "torn", "whole"}
    /\ phase \in {"idle", "attempt", "reflected", "stopped"}
    /\ goal \in Goal /\ criteria \in Seq(Criterion) /\ retries \in Retries
    /\ attempt \in 0..retries
    /\ reflection.notes \subseteq Goal /\ reflection.gaps \in Seq(Criterion)
    /\ result.status \in {"none", "success", "max_retries", "raised"}
    /\ runs \in Seq(Outcome)

Init ==
    /\ memory = NoGraph /\ saved = "missing" /\ stored = [graph |-> NoGraph, runs |-> <<>>]
    /\ phase = "idle" /\ goal \in Goal /\ criteria = <<>> /\ retries \in Retries
    /\ attempt = 0 /\ blueprint = <<>> /\ reflection = Unbound /\ result = NoResult
    /\ runs = <<>>

run(g, wanted, max) ==
    /\ phase = "idle" /\ Len(runs) < MaxRuns
    /\ goal' = g /\ criteria' = wanted /\ retries' = max
    /\ blueprint' = plan(LengthOf[g])
    /\ phase' = "attempt" /\ attempt' = 0 /\ reflection' = Unbound /\ result' = NoResult
    /\ UNCHANGED <<memory, persisted, runs>>

\* Whether a long word of the criterion is in the text of the plan's steps.
check_criterion(steps, criterion) ==
    \/ KindOf[criterion] = "stated"
    \/ KindOf[criterion] = "echoed" /\ \E i \in DOMAIN steps : steps[i].gap = criterion

evaluate(steps, wanted) ==
    Kept(wanted, {i \in DOMAIN wanted : ~check_criterion(steps, wanted[i])})

\* The notes name every failure of an agent that did a similar task.
Notes ==
    {h.task : h \in UNION {
        {told \in Range(get_agent_history(memory, memory.nodes[u].name)) : told.outcome = "failure"} :
            u \in UNION {predecessors(memory, n) : n \in find_similar(memory, WordsOf[goal], WordsOf, 3)}}}

\* Mutant: one attempt too many.
reflect_OneMore ==
    /\ phase = "attempt" /\ attempt <= retries
    /\ attempt' = attempt + 1 /\ phase' = "reflected"
    /\ reflection' = [gaps |-> evaluate(blueprint, criteria), notes |-> Notes, bound |-> TRUE]
    /\ UNCHANGED <<memory, persisted, call, blueprint, result, runs>>

reflect ==
    /\ phase = "attempt" /\ attempt < retries
    /\ attempt' = attempt + 1 /\ phase' = "reflected"
    /\ reflection' = [gaps |-> evaluate(blueprint, criteria), notes |-> Notes, bound |-> TRUE]
    /\ UNCHANGED <<memory, persisted, call, blueprint, result, runs>>

record_outcome(outcome) ==
    /\ memory' = record_task(memory, goal, "AutonomousLoop", outcome)
    /\ runs' = Append(runs, [task |-> goal, outcome |-> outcome])

Succeed ==
    /\ phase = "reflected" /\ reflection.gaps = <<>>
    /\ record_outcome("success")
    /\ result' = [status |-> "success", attempts |-> attempt, gaps |-> <<>>]
    /\ phase' = "idle"
    /\ UNCHANGED <<persisted, call, attempt, blueprint, reflection>>

Replan ==
    /\ phase = "reflected" /\ reflection.gaps # <<>>
    /\ blueprint' = replan(blueprint, reflection.gaps)
    /\ phase' = "attempt"
    /\ UNCHANGED <<memory, persisted, call, attempt, reflection, result, runs>>

\* With no attempt allowed, the failure is recorded before ref turns out unbound.
Exhausted ==
    /\ phase = "attempt" /\ attempt = retries
    /\ record_outcome("failure")
    /\ result' = [status |-> IF reflection.bound THEN "max_retries" ELSE "raised",
                  attempts |-> retries, gaps |-> reflection.gaps]
    /\ phase' = "idle"
    /\ UNCHANGED <<persisted, call, attempt, blueprint, reflection>>

\* The caller saves the graph between runs; the file is truncated and rewritten
\* in place, and the process may end in between.
save(file) ==
    /\ phase = "idle" /\ saved' = file
    /\ IF file = "whole"
         THEN stored' = [graph |-> memory, runs |-> runs] /\ UNCHANGED phase
         ELSE phase' = "stopped" /\ UNCHANGED stored
    /\ UNCHANGED <<memory, call, attempt, blueprint, reflection, result, runs>>

\* A new process loads the file; it cannot start from a torn one, and an empty
\* one it takes for no graph at all.
load ==
    /\ phase' = IF saved = "torn" THEN "stopped" ELSE "idle"
    /\ LET known == IF saved = "whole" THEN stored ELSE [graph |-> NoGraph, runs |-> <<>>]
       IN  memory' = known.graph /\ runs' = known.runs
    /\ attempt' = 0 /\ reflection' = Unbound /\ result' = NoResult /\ blueprint' = <<>>
    /\ UNCHANGED <<persisted, call>>

Next ==
    \/ \E g \in Goal, wanted \in UNION {[1..n -> Criterion] : n \in 0..2}, max \in Retries :
            run(g, wanted, max)
    \/ reflect \/ Succeed \/ Replan \/ Exhausted
    \/ \E file \in {"empty", "torn", "whole"} : save(file)
    \/ load

Spec == Init /\ [][Next]_loopVars

-------------------------------------------------------------------------------

(* The agent's history is the list of the runs that ended, each with the       *)
(* outcome its caller was told (a run that raised counts as a failure), across *)
(* saves and restarts, unless a save cut short emptied the file:               *)
(* get_agent_history() finds the agent's one node.  (It lists the oldest run   *)
(* first, although its docstring, memory_graph.py:70, says the most recent.)   *)
RunsAreRemembered ==
    /\ get_agent_history(memory, "AutonomousLoop") = runs
    /\ result.status # "none" =>
         /\ runs[Len(runs)].task = goal
         /\ runs[Len(runs)].outcome = IF result.status = "success" THEN "success" ELSE "failure"

(* More attempts do not help: what a second attempt does not satisfy, none     *)
(* will, and from the second replan on the two verify steps share an id, so    *)
(* that the plan has no order and is simulated as it is listed.                *)
RetriesAreVain ==
    /\ result.status = "success" => result.attempts <= 2
    /\ phase = "attempt" => (Ordered(blueprint) <=> attempt <= 1)
    /\ attempt > 1 /\ phase = "reflected" => \A i \in DOMAIN reflection.gaps : KindOf[reflection.gaps[i]] = "mute"
===============================================================================
