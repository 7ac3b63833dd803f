--------------------------------- MODULE Pulse --------------------------------
(***************************************************************************)
(* src/src/agents/pulse.py: health reports.  A report reads state.json     *)
(* twice, for the agents and for the queue, while other processes write    *)
(* it, then the metrics registry of its own process, and appends a line to *)
(* alerts.jsonl for every condition it finds.  A precomputed reading is    *)
(* one that was taken before the others.                                   *)
(***************************************************************************)
EXTENDS Naturals, FiniteSets

CONSTANTS
    Task,            \* tasks in state.json
    AgentOf,         \* per task, its agent
    Report,          \* reports, one after the other or at the same time
    QUEUE_THRESHOLD, \* DEFAULT_QUEUE_THRESHOLD: alert above it
    API_THRESHOLD,   \* alert above this many tokens (80 % of the limit)
    ERROR_THRESHOLD, \* alert above this percentage of failed calls
    UNRESPONSIVE,    \* more stalled tasks than this (5) make an agent unresponsive
    MaxTokens, MaxCalls \* bounds

VARIABLES
    status,      \* state.json: per task, its status
    tokens,      \* registry: tokens used
    agent_calls, \* registry: calls_total and errors_total of the agents
    reading,     \* per report: what it has read
    alerts,      \* per report: the conditions it alerts to
    logged,      \* per report: those whose line was written
    seen, held   \* per report: conditions that held at a time, all the time, since its first reading

pulseVars == <<status, tokens, agent_calls, reading, alerts, logged, seen, held>>

Agent == {AgentOf[t] : t \in Task}
Status == {"PENDING", "RUNNING", "STALLED", "COMPLETED"}

\* "queue", "api", "errors", or an agent that is unresponsive.
Condition == {"queue", "api", "errors"} \cup Agent

TypeOK ==
    /\ status \in [Task -> Status]
    /\ tokens \in 0 .. MaxTokens
    /\ agent_calls \in (0 .. MaxCalls) \X (0 .. MaxCalls) /\ agent_calls[2] <= agent_calls[1]
    /\ reading \in [Report -> [agents : SUBSET Agent, depth : 0 .. Cardinality(Task),
                               taken : SUBSET {"agents", "depth", "done"}]]
    /\ \A r \in Report : /\ alerts[r] \cup seen[r] \subseteq Condition
                         /\ logged[r] \subseteq alerts[r] /\ held[r] \subseteq seen[r]

-----------------------------------------------------------------------------
(* What the functions compute of the state they read.                       *)

Stalled(statuses, a) == Cardinality({t \in Task : AgentOf[t] = a /\ statuses[t] = "STALLED"})

\* The agents reported as unresponsive; a degraded one gives no alert.
\* Mutant: an agent is unresponsive once one task is stalled.
check_agent_health_Strict(statuses) == {a \in Agent : Stalled(statuses, a) > 0}
check_agent_health(statuses) == {a \in Agent : Stalled(statuses, a) > UNRESPONSIVE}

monitor_queue_depth(statuses) ==
    Cardinality({t \in Task : statuses[t] \in {"PENDING", "RUNNING"}})

check_api_rate_limits(used) == used > API_THRESHOLD

error_rate(counts) == counts[1] > 0 /\ 100 * counts[2] > ERROR_THRESHOLD * counts[1]

evaluate_alert_conditions(agents, depth, used, counts) ==
    agents \cup {c \in {"queue", "api", "errors"} :
                   \/ c = "queue" /\ depth > QUEUE_THRESHOLD
                   \/ c = "api" /\ check_api_rate_limits(used)
                   \/ c = "errors" /\ error_rate(counts)}

\* The status of a report.  No condition is an alert of severity critical.
generate_status(conditions) == IF conditions = {} THEN "HEALTHY" ELSE "DEGRADED"

\* The conditions as they are.
Holding(statuses, used, counts) ==
    {a \in Agent : Stalled(statuses, a) > UNRESPONSIVE}
      \cup evaluate_alert_conditions({}, monitor_queue_depth(statuses), used, counts)

-----------------------------------------------------------------------------

Init ==
    /\ status = [t \in Task |-> "COMPLETED"] /\ tokens = 0 /\ agent_calls = <<0, 0>>
    /\ reading = [r \in Report |-> [agents |-> {}, depth |-> 0, taken |-> {}]]
    /\ alerts = [r \in Report |-> {}] /\ logged = [r \in Report |-> {}]
    /\ seen = [r \in Report |-> {}] /\ held = [r \in Report |-> {}]

\* What an open report could have noticed of a step.
Witness ==
    LET now == Holding(status, tokens, agent_calls)
        later == Holding(status', tokens', agent_calls')
        Open(r) == "done" \notin reading'[r].taken /\ reading'[r].taken # {}
        First(r) == reading[r].taken = {}
    IN  /\ seen' = [r \in Report |-> IF ~Open(r) THEN seen[r]
                                     ELSE IF First(r) THEN now ELSE seen[r] \cup later]
        /\ held' = [r \in Report |-> IF ~Open(r) THEN held[r]
                                     ELSE IF First(r) THEN now ELSE held[r] \cap later]

ReadAgents(r) ==
    /\ reading[r].taken \cap {"agents", "done"} = {}
    /\ reading' = [reading EXCEPT ![r].agents = check_agent_health(status),
                                  ![r].taken = @ \cup {"agents"}]
    /\ UNCHANGED <<status, tokens, agent_calls, alerts, logged>>

ReadDepth(r) ==
    /\ reading[r].taken \cap {"depth", "done"} = {}
    /\ reading' = [reading EXCEPT ![r].depth = monitor_queue_depth(status),
                                  ![r].taken = @ \cup {"depth"}]
    /\ UNCHANGED <<status, tokens, agent_calls, alerts, logged>>

\* The rest of the report.  A line that cannot be written is only logged.
generate_health_report(r) ==
    /\ reading[r].taken = {"agents", "depth"}
    /\ alerts' = [alerts EXCEPT ![r] =
                    evaluate_alert_conditions(reading[r].agents, reading[r].depth,
                                              tokens, agent_calls)]
    /\ \E written \in SUBSET alerts'[r] : logged' = [logged EXCEPT ![r] = written]
    /\ reading' = [reading EXCEPT ![r].taken = @ \cup {"done"}]
    /\ UNCHANGED <<status, tokens, agent_calls>>

\* Other processes write state.json, this one records tokens and calls.
SetStatus(t, s) ==
    /\ status[t] # s /\ status' = [status EXCEPT ![t] = s]
    /\ UNCHANGED <<tokens, agent_calls, reading, alerts, logged>>

record_tokens ==
    /\ tokens < MaxTokens /\ tokens' = tokens + 1
    /\ UNCHANGED <<status, agent_calls, reading, alerts, logged>>

record_agent_call(failed) ==
    /\ agent_calls[1] < MaxCalls
    /\ agent_calls' = <<agent_calls[1] + 1, agent_calls[2] + (IF failed THEN 1 ELSE 0)>>
    /\ UNCHANGED <<status, tokens, reading, alerts, logged>>

Step ==
    \/ \E r \in Report : ReadAgents(r) \/ ReadDepth(r) \/ generate_health_report(r)
    \/ \E t \in Task, s \in {"PENDING", "STALLED", "COMPLETED"} : SetStatus(t, s)
    \/ record_tokens
    \/ \E failed \in BOOLEAN : record_agent_call(failed)

Next == Step /\ Witness

Spec == Init /\ [][Next]_pulseVars

-----------------------------------------------------------------------------

(* generate_health_report() alerts to every condition that held all the     *)
(* time from its first reading, and to none that did not hold at some time; *)
(* it says HEALTHY only if nothing was wrong throughout.                    *)
ReportIsTrue ==
    \A r \in Report : "done" \in reading[r].taken =>
      /\ held[r] \subseteq alerts[r] /\ alerts[r] \subseteq seen[r]
      /\ generate_status(alerts[r]) = "HEALTHY" => held[r] = {}

=============================================================================
