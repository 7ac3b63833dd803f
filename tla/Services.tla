-------------------------------- MODULE Services --------------------------------
(* Components that share no state with one another, side by side: a behaviour  *)
(* is a behaviour of the one that Init chooses.                                *)
EXTENDS Integers, Sequences, FiniteSets

CONSTANTS
    Call,      \* concurrent calls: of the router, of retrieve_context(), of the
               \* builder, and the timed calls of a process
    Process,   \* processes that write costs, metrics and phases
    Governor,  \* those of them that run the governor
    Thread,    \* requests to the web application, and health reports
    Worker,    \* threads that record requests to models
    ProcessOf, \* per worker, its process
    MaxCalls, MaxRecords, \* bounds of several components
    (* Limiter       *) Caller, Burst, Unit, Rate, MaxLate, MaxTime,
    (* Planner       *) Tool, MaxIterations, Attempts, MaxToolCalls,
    (* Dispatcher    *) Batch, MAX_CONCURRENCY, MaxRequests, MaxInvocations,
    (* CostLedger    *) Cost, Budget,
    (* Performance   *) Asked, Candidates, MinRequests,
    (* Retrieval     *) Doc, CorpusOf, Content, Requests, TopK, Cap, Estimate,
                        MaxUsage, MaxEdits,
    (* Builder       *) Branch, File, Upward, Outside,
    (* Pulse         *) Task, AgentOf, QUEUE_THRESHOLD, API_THRESHOLD, ERROR_THRESHOLD,
                        UNRESPONSIVE, MaxTokens,
    (* PhaseLedger   *) Engine, Target, MaxMoves,
    (* Dashboard     *) Client, Limit, MaxEvents,
    (* Chat          *) Socket, Post,
    (* Router        *) Model, Default, FALLBACK_MODELS, Small, Large, HighCapability, Cheap,
                        Free,
    (* Loop          *) Goal, LengthOf, WordsOf, Criterion, KindOf, Retries, MaxRuns,
    (* Tournament    *) Contestant, Benchmark, Matched, Expected, K, Initial, num_rounds,
                        Decisive, MaxMatches, MaxList, MaxResults

VARIABLES
    subject, \* the component that runs
    (* Limiter       *) supply, age, caller, left, now, granted,
    (* Planner       *) step, allowed, iteration, tries, messages, calls, outcome, answer,
    (* Dispatcher    *) requests, status, envelope, invoked, results,
    (* CostLedger    *) disk, mem, job, checked, alerts, usage, spent, recorded, records,
    (* Performance   *) statsDisk, statsMem, statsJob, statsTotal, own, statsRecords,
    (* Metrics       *) statsFile, metrics, writing, call, ended, base, total,
    (* Retrieval     *) file, index, hashes, cache, used, pc, corpus, todo, seen, doc,
                        text, bucket, stale, sources, raced, edits, asked,
    (* Builder       *) tree, refs, ahead, pulls, open, building, task, changes, written,
                        tests, built,
    (* Pulse         *) tasks, tokens, agent_calls, reading, raised, logged, observed, held,
    (* PhaseLedger   *) row, events, cached, untold, writer, mine, moves,
    (* Dashboard     *) log, half, position, fed, feed, client, joined, queue, sent, page,
    (* Chat          *) listeners, posted, link, received, place, failed, audience,
                        missed, during,
    (* Router        *) perf, chain, tried, route,
    (* Loop          *) memory, saved, stored, phase, goal, criteria, retries, attempt,
                        blueprint, reflection, returned, runs,
    (* Tournament    *) agents, scores, elo, tally, least, draw, matches

Limiter == INSTANCE RateLimiter WITH tokens <- supply

Planner == INSTANCE Planner WITH MaxCalls <- MaxToolCalls

Dispatcher == INSTANCE Dispatcher

Costs == INSTANCE CostLedger WITH verdict <- checked

Performance == INSTANCE ModelPerformance WITH
    Model <- Asked, disk <- statsDisk, mem <- statsMem, job <- statsJob, total <- statsTotal,
    records <- statsRecords

Metrics == INSTANCE Metrics WITH Task <- Call, file <- statsFile

Retrieval == INSTANCE Retrieval WITH calls <- asked

Builder == INSTANCE Builder WITH Task <- Branch, step <- building, result <- built

Pulse == INSTANCE Pulse WITH
    Report <- Thread, MaxCalls <- MaxTokens, status <- tasks, alerts <- raised,
    seen <- observed

Ledger == INSTANCE PhaseLedger WITH cache <- cached, pc <- writer

Dashboard == INSTANCE Dashboard WITH Reader <- Thread

Chat == INSTANCE Chat WITH messages <- posted

Router == INSTANCE ModelRouter WITH verdict <- route

Loop == INSTANCE AutonomousLoop WITH result <- returned

Tournament == INSTANCE Tournament WITH results <- scores, Agent <- Contestant

-------------------------------------------------------------------------------

\* A burst of at least one token, and time that fills the bucket.
LimiterAssumption ==
    /\ Burst \in Nat \ {0} /\ Unit \in Nat \ {0} /\ Rate \in Nat \ {0} /\ MaxLate \in Nat
    /\ MaxTime \in Nat

\* One planner, its retries and the limits of the tool calls.
PlannerAssumption ==
    MaxIterations \in Nat /\ Attempts \in Nat \ {0} /\ MaxToolCalls \in Nat

DispatchAssumption ==
    /\ IsFiniteSet(Batch) /\ MAX_CONCURRENCY \in Nat /\ MaxInvocations \in Nat \ {0}
    /\ \A b \in Batch : MaxRequests[b] \in Nat

CostAssumption ==
    Cost \subseteq Nat /\ MaxRecords \in Nat /\ \A p \in Process : Budget[p] \in Nat

PerformanceAssumption == MaxRecords \in Nat /\ Candidates \in Seq(Asked) \ {<< >>}

\* The paths are numbered in the order in which rglob() lists them.
RetrievalAssumption ==
    /\ IsFiniteSet(Call) /\ Call # {} /\ Doc \subseteq Nat /\ Cap \in Nat
    /\ Estimate \subseteq Nat \ {0} /\ MaxUsage \in Nat \ {0}

\* A call is neither the agent nor the commit that the tree starts from.
BuilderAssumption == "agent" \notin Call /\ "base" \notin Call

\* No agent is named like one of the other alerts.
PulseAssumption ==
    /\ IsFiniteSet(Task)
    /\ MaxTokens \in Nat /\ QUEUE_THRESHOLD \in Nat /\ ERROR_THRESHOLD \in Nat
    /\ \A t \in Task : AgentOf[t] \notin {"queue", "api", "errors"}

LedgerAssumption ==
    /\ Process \cap Thread = {} /\ Engine \subseteq Process
    /\ Target \subseteq Ledger!Phase /\ MaxMoves \in Nat

DashboardAssumption == MaxEvents \in Nat /\ Limit \in Nat

\* The registry starts with models for every capability, none of them twice.
RouterAssumption ==
    /\ FALLBACK_MODELS \in Seq(Model)
    /\ Default \in [Router!Capability -> Seq(Model) \ {<< >>}]
    /\ \A c \in Router!Capability : Router!IsInjective(Default[c])

\* Every workflow has a step.
LoopAssumption ==
    /\ \A g \in Goal : LengthOf[g] \in Nat \ {0}
    /\ \A c \in Criterion : KindOf[c] \in {"stated", "echoed", "mute"}
    /\ Retries \subseteq Nat /\ MaxRuns \in Nat

\* Half of K is a number; equals expect it; ratings differ by no more than all
\* matches can make them.
TournamentAssumption ==
    /\ K \in Nat /\ K % 2 = 0 /\ Initial \in Int /\ num_rounds \in Nat
    /\ MaxMatches \in Nat /\ MaxList \in Nat /\ Decisive \subseteq Nat
    /\ \A d \in -(2 * K * MaxMatches) .. 2 * K * MaxMatches : Expected[d] \in 0 .. K
    /\ Expected[0] = K \div 2
    /\ \A a \in Contestant, b \in Benchmark : Matched[a][b] \in 0 .. 3
    /\ Tournament!NoWinner \notin Contestant

ASSUME ServicesAssumption ==
    /\ LimiterAssumption /\ PlannerAssumption /\ DispatchAssumption /\ CostAssumption
    /\ PerformanceAssumption
    /\ RetrievalAssumption /\ BuilderAssumption /\ PulseAssumption /\ LedgerAssumption
    /\ DashboardAssumption /\ RouterAssumption /\ LoopAssumption /\ TournamentAssumption

-------------------------------------------------------------------------------

limiterVars == <<supply, age, caller, left, now, granted>>
plannerVars == <<step, allowed, iteration, tries, messages, calls, outcome, answer>>
dispatchVars == <<requests, status, envelope, invoked, results>>
costVars == <<disk, mem, job, checked, alerts, usage, spent, recorded, records>>
performanceVars == <<statsDisk, statsMem, statsJob, statsTotal, own, statsRecords>>
metricsVars == <<statsFile, metrics, writing, call, ended, base, total>>
retrievalVars == <<file, index, hashes, cache, used, pc, corpus, todo, seen, doc, text,
                   bucket, stale, sources, raced, edits, asked>>
builderVars == <<tree, refs, ahead, pulls, open, building, task, changes, written, tests,
                 built>>
pulseVars == <<tasks, tokens, agent_calls, reading, raised, logged, observed, held>>
ledgerVars == <<row, events, cached, untold, writer, mine, moves>>
dashboardVars == <<log, half, position, fed, feed, client, joined, queue, sent, page>>
chatVars == <<listeners, posted, link, received, place, failed, audience, missed, during>>
routerVars == <<perf, chain, tried, route>>
loopVars == <<memory, saved, stored, phase, goal, criteria, retries, attempt, blueprint,
              reflection, returned, runs>>
tournamentVars == <<agents, scores, elo, tally, least, draw, matches>>

vars == <<subject, limiterVars, plannerVars, dispatchVars, costVars, performanceVars,
          metricsVars, retrievalVars, builderVars, pulseVars, ledgerVars, dashboardVars,
          chatVars, routerVars, loopVars, tournamentVars>>

Runs(name) == subject = name

\* Every component at its start.
Start ==
    /\ Limiter!Init /\ Planner!Init /\ Dispatcher!Init /\ Costs!Init /\ Performance!Init
    /\ Metrics!Init
    /\ Retrieval!Init /\ Builder!Init /\ Pulse!Init /\ Ledger!Init /\ Dashboard!Init
    /\ Chat!Init /\ Router!Init /\ Loop!Init /\ Tournament!Init

Subject == {"limiter", "planner", "dispatcher", "costs", "performance", "metrics",
            "retrieval", "builder", "pulse", "ledger", "dashboard", "chat", "router",
            "loop", "tournament"}

Init == subject \in Subject /\ Start

\* Only one component moves.
Alone(name) ==
    /\ Runs(name) /\ UNCHANGED subject
    /\ name # "limiter" => UNCHANGED limiterVars
    /\ name # "planner" => UNCHANGED plannerVars
    /\ name # "dispatcher" => UNCHANGED dispatchVars
    /\ name # "costs" => UNCHANGED costVars
    /\ name # "performance" => UNCHANGED performanceVars
    /\ name # "metrics" => UNCHANGED metricsVars
    /\ name # "retrieval" => UNCHANGED retrievalVars
    /\ name # "builder" => UNCHANGED builderVars
    /\ name # "pulse" => UNCHANGED pulseVars
    /\ name # "ledger" => UNCHANGED ledgerVars
    /\ name # "dashboard" => UNCHANGED dashboardVars
    /\ name # "chat" => UNCHANGED chatVars
    /\ name # "router" => UNCHANGED routerVars
    /\ name # "loop" => UNCHANGED loopVars
    /\ name # "tournament" => UNCHANGED tournamentVars

Next ==
    \/ Alone("limiter") /\ Limiter!Next
    \/ Alone("planner") /\ Planner!Next
    \/ Alone("dispatcher") /\ Dispatcher!Next
    \/ Alone("costs") /\ Costs!Next
    \/ Alone("performance") /\ Performance!Next
    \/ Alone("metrics") /\ Metrics!Next
    \/ Alone("retrieval") /\ Retrieval!Next
    \/ Alone("builder") /\ Builder!Next
    \/ Alone("pulse") /\ Pulse!Next
    \/ Alone("ledger") /\ Ledger!Next
    \/ Alone("dashboard") /\ Dashboard!Next
    \/ Alone("chat") /\ Chat!Next
    \/ Alone("router") /\ Router!Next
    \/ Alone("loop") /\ Loop!Next
    \/ Alone("tournament") /\ Tournament!Next

Fairness ==
    /\ WF_vars(Alone("dispatcher") /\ \E b \in Batch : Dispatcher!Work(b))
    /\ WF_vars(Alone("planner") /\ Planner!Step)

Spec == Init /\ [][Next]_vars /\ Fairness

-------------------------------------------------------------------------------

(* The types of every component.                                               *)
TypeOK ==
    /\ Runs("limiter") => Limiter!TypeOK
    /\ Runs("planner") => Planner!TypeOK
    /\ Runs("dispatcher") => Dispatcher!TypeOK
    /\ Runs("costs") => Costs!TypeOK
    /\ Runs("performance") => Performance!TypeOK
    /\ Runs("metrics") => Metrics!TypeOK
    /\ Runs("retrieval") => Retrieval!TypeOK
    /\ Runs("builder") => Builder!TypeOK
    /\ Runs("pulse") => Pulse!TypeOK
    /\ Runs("ledger") => Ledger!TypeOK
    /\ Runs("dashboard") => Dashboard!TypeOK
    /\ Runs("chat") => Chat!TypeOK
    /\ Runs("router") => Router!TypeOK
    /\ Runs("loop") => Loop!TypeOK
    /\ Runs("tournament") => Tournament!TypeOK

(* What run_planner() answers is what the model last said or the error of its  *)
(* last turn, after a conversation that names every call with its own result;  *)
(* a builder call that reports success and a health report that raises an      *)
(* alert say what was the case while they ran.                                 *)
AnswersAreEarned ==
    /\ Runs("planner") => Planner!ConversationIsTrue /\ Planner!AnswerIsFinal
    /\ Runs("builder") => Builder!SuccessIsReal
    /\ Runs("pulse") => Pulse!ReportIsTrue

(* execute_with_fallback() gives up only when each model of the chain has been *)
(* tried once; AutonomousLoop remembers the outcome it reports and succeeds in *)
(* its second attempt or never; rating points are only exchanged by the        *)
(* matches of a tournament.                                                    *)
RecordsAddUp ==
    /\ Runs("router") => Router!FallbackIsExhaustive
    /\ Runs("loop") => Loop!RunsAreRemembered /\ Loop!RetriesAreVain
    /\ Runs("tournament") => Tournament!RankingsAddUp

(* batch_execute() answers every batch unless a tool of its own hangs or       *)
(* hanging ones hold all permits, with never more tools running than there are *)
(* permits; a planner that was started returns or raises unless a tool hangs,  *)
(* whatever the model says.                                                    *)
CallersAreAnswered ==
    /\ Runs("dispatcher") => Dispatcher!BatchesAreAnswered
    /\ Runs("planner") => Planner!PlannerEnds

(* CostTracker, ModelPerformanceTracker and MetricsRegistry, each a file that  *)
(* several processes rewrite: no ledger tells more than was spent and no       *)
(* budget is reported exceeded unless it is, no count is of a request that was *)
(* not made, and a timed call is counted by its process however it ends.  The  *)
(* RateLimiter of the task queue gives out no more than its rate allows.       *)
CountsAreTrue ==
    /\ Runs("limiter") => Limiter!RateBounded
    /\ Runs("costs") => Costs!NeverOverstated
    /\ Runs("performance") => Performance!CountsAreReal
    /\ Runs("metrics") => Metrics!EveryCallCounts

(* The vector index and the hashes that decide what is never embedded again    *)
(* stay in agreement under concurrent calls, edits, failures and restarts.     *)
IndexIsSound == Runs("retrieval") => Retrieval!IndexIsSound

(* Every phase of a work item that the CLI or the web router shows was logged  *)
(* as a transition, although both write whole rows from a cached one, or is    *)
(* OPERATE and could not be logged.                                            *)
LedgersAreLogged == Runs("ledger") => Ledger!LedgersAreLogged

(* Those who listen to the event stream get what was written since they were   *)
(* connected, in order and once, until the feed ends; those in the chat get    *)
(* what was posted, once, with the exceptions that the walk over the live list *)
(* makes.                                                                      *)
FeedsAreComplete ==
    /\ Runs("dashboard") => Dashboard!StreamIsTheLog
    /\ Runs("chat") => Chat!AudienceIsServed
===============================================================================
