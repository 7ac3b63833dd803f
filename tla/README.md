# Formal models of gadk

TLA+ models of the parts of this repository that keep state and act
concurrently or over several steps, with TLC runs on small instances and TLAPS
proofs for all instances. Paths below are relative to `src/src/` unless they
start with `src/`.

    tlc -workers 2 -config MCTaskQueue_pool.cfg MCTaskQueue.tla
    tlapm PhaseControllerProofs.tla

## 1. The system

gadk is a set of Python processes that develop a repository: an autonomous
engine runs software-development cycles, a swarm answers queued prompts, a
dashboard and a CLI look on and intervene. They share files in one directory.

| Component | State | Operations | Meets |
|---|---|---|---|
| Phase model, decision rules (`services/sdlc_phase.py`, `services/workflow_graphs.py`) | none | `can_advance`, review/rework rule, campaign retry rule | everybody who moves a work item |
| Phase controller (`services/phase_controller.py`, `services/quality_gates.py`) | registered gates; the item's phase and history; events | `register`, `advance`, `decide_rework` | gates (called), event log (appended) |
| Task queue (`services/task_queue.py`) | priority queue, statuses, running futures, callbacks, workers, counters | `submit`, `submit_with_callback`, `cancel`, `start`, `stop`, worker loop | event loop, task functions, callbacks, rate limiter |
| Rate limiter (same file) | tokens, time of last update | `acquire` | callers that sleep and retry |
| State manager (`state.py`, `utils/file_lock.py`) | `state.json`, `events.jsonl`, a cached copy per process, a thread lock, an flock | `set_task`, `delete_task` | threads and processes that share the files |
| Writers past the lock (`services/embed_quota.py`, `services/self_prompt.py`) | counters kept in the cached rows | `_save`, the final dump of `run_once` | the same `state.json` |
| Autonomous engine (`autonomous_sdlc.py`) | cycle counters, the work item, the artifact, the review | `run`, `run_cycle`, `_plan`, `_build`, `_review`, `_deliver` | phase controller, phase store, state manager, GitHub, LLM agents, shutdown sentinel |
| Phase store and its writers (`services/phase_store.py`, `cli/swarm_cli.py`, `webapp/routers/tasks.py`) | the `_work_item` of a row; the phase and history at its root; the router's cached file | `load`, `save`, `ensure`; `phase advance`; `POST /phase/advance` | each other, over whole rows |
| Swarm (`main.py`, `cli/swarm_ctl.py`, `services/self_prompt.py`) | prompt queue, pid file, shutdown sentinel; budget and dedup window of the self-prompt tick | enqueue, dequeue, main loop, one tick in a thread | CLI, web router, planner |
| Planner (`planner.py`) | one conversation | ask, parse, run tools, feed back | model, tools |
| Tool dispatcher, capabilities (`tools/dispatcher.py`, `capabilities/`) | a semaphore | `batch_execute`, `execute_capability` | tools, Smithery, MCP |
| Model router (`services/model_router.py`) | registry, statistics | `execute_with_fallback` | models that fail |
| Statistics of models (`observability/model_performance.py`) | a file, a table per process | `record_*`, `get_best_model` | other processes and threads |
| Metrics (`observability/metrics.py`) | a file, a registry per process | timers around agents and tools | other processes |
| Costs (`observability/cost_tracker.py`, `agents/finops.py`, `agents/governor.py`, `observability/adk_callbacks.py`) | `costs.jsonl`, a tracker per process, usage and alert files | record, persist, check a budget | every process that calls an LLM |
| Retrieval (`services/retrieval_context.py`, `vector_index.py`, `embedder.py`, `embed_quota.py`) | vector index, hashes, cache, quota of the day | synchronise, query, fall back | threads, edits of the files |
| Builder (`agents/builder.py`, `tools/github_tool.py`) | working tree, branches, pull requests | `implement_from_architecture_note` | other calls in the same tree |
| Pulse (`agents/pulse.py`) | alert file | `generate_health_report` | whoever writes `state.json` |
| Event stream (`webapp/services/event_tailer.py`, `sse_manager.py`, `routers/events.py`) | position in the log, a queue per client | poll, broadcast, connect, page | appends to `events.jsonl` |
| Chat (`webapp/chat_server.py`) | messages, listeners | post, connect, leave | sockets that fail |
| Autonomous loop (`services/autonomous_loop.py`, `blueprint_planner.py`, `reflection_node.py`, `graph_store.py`, `memory_graph.py`) | plan, memory graph and its file | plan, simulate, reflect, replan, remember | restarts |
| Tournament (`harness/`) | agents, results, ratings, matches | register, benchmark, run matches | |
| Others | see `PROJECT.json`, components | | |

### What is hard here

- **Task queue**: one event loop, but a coroutine may be cancelled at every
  `await`. `cancel()` meets a task that waits, runs, sleeps before its retry,
  or has just ended; `stop()` cancels every worker wherever it is; the workers
  that empty the bounded queue also put retries into it.
- **State files**: several processes and threads, failures in the middle of a
  write, deaths between any two steps, writers that ignore the lock.
- **Engine**: exceptions at every call of GitHub or an LLM, some swallowed, some
  turned into strings, some caught; a death loses the work item in memory but
  not the row, the log or the pull request.
- **Phase ladder**: the rework loop, overrides, gates that crash, an audit log
  that must tell the same story as the item, and three programs that write one
  row from copies they read earlier.
- **Swarm**: prompts and the sentinel arrive at any moment, a batch leaves the
  queue before it is processed, any prompt may raise, the process may be killed
  while its thread rewrites `state.json`.
- **Shared ledgers** (costs, statistics, metrics): each process merges a file
  with a table of its own under locks that cover a part of that.
- **Retrieval**: the hash that keeps a document from being embedded twice is set
  before it is embedded; the call that set it may fail or be overtaken.
- **Streams**: clients come and go in the middle of a broadcast.
- **Rate limiter**: several sleepers wake up at once, and late.

### What makes each part correct

- Phase controller: the history is a chain, the log tells the history, an
  unforced move is on an edge and past every blocking gate, nothing reaches
  OPERATE around REVIEW and GOVERN.
- Task queue: a submitted task is in exactly one place and never lost; terminal
  statuses are final; retries and concurrency are bounded; the counters agree
  with the statuses; callbacks are told the truth about their attempt; tasks
  settle; `stop()` returns and leaves nothing running.
- Rate limiter: at most burst + rate x time grants.
- State manager: every set and delete is atomic; the log and the file agree; a
  process reads its own writes; no update is dropped.
- Engine: what is delivered was reviewed and governed; what is saved was logged;
  a cycle cut short starts over; a bounded campaign returns.
- Phase writers: every phase that is shown was logged, whoever overwrites whom.
- Swarm: prompts are processed once and in order; the budget of the tick holds
  across restarts; a shutdown is heeded.
- Planner, dispatcher, router, loop: an answer rests on what was asked and done;
  every caller gets one; a router gives up only when every model has failed.
- Ledgers: nothing is overstated, a call is counted once.
- Retrieval: a path with a hash is indexed, with the content of the hash.
- Builder, Pulse: a report says what was the case.
- Streams: a client of the event stream gets the log from its registration on
  until the feed ends; a chat listener gets each message posted while it was
  there, once, unless a removal shifts it behind the walk, and two messages in
  the other order only if their broadcasts overlapped.

## 2. Modules

| Module | Models | Notes |
|---|---|---|
| `SdlcPhase` | phases, edges, `can_advance`, the two decision rules | no state |
| `PhaseLadder` | *abstract*: an item moves on an edge or by an override | what a controller promises |
| `PhaseController` | `register`, `advance`, `decide_rework`, gates, log | implements `PhaseLadder` |
| `TaskLifecycle` | *abstract*: statuses, bounded retries, bounded concurrency | what the queue promises |
| `TaskQueue` | `AsyncTaskQueue` | implements `TaskLifecycle` |
| `RateLimiter` | `acquire()`, with a clock and a count of grants | |
| `TaskStore` | *abstract*: a map with atomic set and delete | what `state.json` promises |
| `StateManager` | `set_task`, `delete_task`, both locks, the log, failures, deaths | implements `TaskStore` |
| `UnlockedWriters` | `StateManager` and the two writers past the lock | composes them |
| `SdlcEngine` | `run`, `run_cycle`, `_build`, `_review`, `_deliver`, the phase store, the sentinel | uses `SdlcPhase` |
| `PhaseLedger` | engine, CLI and web router as writers of one row | uses `SdlcPhase` |
| `SwarmRuntime` | the swarm process, its queue and files, the self-prompt tick | |
| `Planner`, `Dispatcher` | `run_planner()`; `batch_execute()` and what is behind it | |
| `ModelRouter`, `ModelPerformance` | fallback chains; the statistics that processes share | |
| `CostLedger` | tracker, FinOps tools, governor, agent callback | |
| `Metrics` | timers, registries, the file | |
| `Retrieval` | index synchronisation, query, cache, quota | |
| `Builder`, `Pulse` | builder calls; health reports | |
| `Dashboard`, `Chat` | event tailer, SSE clients, pages; chat broadcasts | |
| `Blueprint`, `MemoryGraph`, `AutonomousLoop` | plans and their order; the graph; the loop | the first two have no state |
| `Tournament` | harness, matches, ratings | |
| `Services` | fifteen of the above that share no state, side by side | see below |
| `Sublists` | `[x for x in s if ...]` and sorting without recursion | used by seven modules |
| `*Proofs` | proofs about the module they are named after | |
| `MC*` | values of the constants for TLC | |

Mutants: operators named `X_Something`, just before `X`, are plausible bugs of
`X`. They are used by nothing. `PROJECT.json` lists which property each breaks.

### PhaseController

An action is one whole call; the code awaits nothing inside one. `advance()`
checks the edge (a disallowed, unforced one raises and changes nothing), runs
every gate that applies, then either logs a refusal or records history, assigns
the phase and logs the transition. A gate answers passed, failed or crashed;
crashed counts as failed. `item.history` entries carry the position in the log
instead of a timestamp. `forced` remembers which entries were overrides; the
code writes it into the history only as text. The item is moved before the
event is appended, so an append that raises, or whose line is joined to the torn
end of an earlier one (`Fate`), leaves a move that the log does not know; `untold`
remembers those.

### TaskQueue

An action is what one coroutine does between two awaits. `pc[w]` is where a
worker is suspended: `get`, `execute` (awaits the attempt), `backoff` (sleeps
before a retry), `requeue` (waits in `put()`), `callback`/`lastcall` (awaits an
async callback, in the second case with a CancelledError going up), `dead`
(loop left), `off` (not started). `future[t]` is the asyncio task of the
current attempt; `interrupt` are workers whose `cancel()` will surface when they
are resumed. `stop()` is two steps, around its `gather()`. A future is `waiting`
while its attempt is in `RateLimiter.acquire()`, which comes before `wait_for`
and has no bound (`Acquired` ends it, if ever), and `active` after that.

Assumed, and not in the repository: the asyncio of Python 3.12 or later, where
a `put()` that finds room does not yield and a waiting one is resumed before
the worker it wakes; task functions do not swallow a cancellation; one owner
calls `start()` and `stop()`, without a timeout.

### RateLimiter

Time is in ticks, tokens in units (`Unit` to a token), because the code's tokens are
fractions. It is one of the components of `Services`. `acquire()` holds its lock
without awaiting while it refills and takes, so that is one step; it then sleeps and
looks again. `Tick` models the clock; sleeps may end up to `MaxLate` ticks late.
`age` stops at `Capacity` ticks, by when any bucket is full.

### StateManager

The steps of one write: `Enter` (thread lock), `Lock` (flock), `Read` (fresh
read and change), `Replace` (`os.replace`), `Unlock` (flock, cache, thread lock),
`AppendEvent`. `Fail` is an exception before the replacement, `AppendFails` one
in the append, `Kill` the death of a process between any two steps, `Restart`
a new `StateManager`, which reads the file without a lock. A failing append may
leave part of its line behind (`torn`); the next line is then joined to it and
is no event for whoever reads the log. A row is the number of the call
that wrote it, so a row tells whose change it is. `commits` and `cut` are
history variables, read by no guard.

Assumed: an flock excludes other processes and is released with its process;
`os.replace` is atomic (what POSIX says).

### SdlcEngine

`pc` is what the engine does next; each await, and each write of the state
file, is a boundary at which an exception (`CycleCrashes`, `DeliveryFails`) or
a death (`Kill`) may come. `row` is the task's row: its status and the phase of
its saved work item. The engine's `set_task()` replaces the whole row, so it
drops the saved item (`SetTask`) until `Save` puts it back. `climb` keeps, of
events.jsonl, the transitions since the last one to ARCHITECT. `prs` keeps the
last pull request of a task, with the artifact and review it carries. Others
may rewrite the staged file between the awaits (`Overwrite`): the critic reads it
in `_review`, `_deliver` reads it again, and `edits` counts the rewrites, so a
review and a pull request know which content they are of. `cached` are the items
in the engine's cache: `save_work_item()` changes the cached row before it writes,
so a write that fails (`SelectFails`, `SaveFails`) leaves it changed.

The engine is the only writer of rows in this module, so but for such a failure
its cached rows are the file's; the other writers are in `UnlockedWriters` and
`PhaseLedger`. The
controller has no gates, as `main()` makes it.

### PhaseLedger

Each program loads `state.json` when it starts (the router only when it writes),
reads the row, appends its move to the log and replaces the whole row, as steps of
its own; each may die in between. The engine and the CLI move `_work_item` and
mirror its phase at the root; the router moves the phase and the history at the
root. A command moves once; a cycle goes up the ladder, may replace the row by a
bare status on its way (`Replace`), and saves at the end. If the append of its move
to OPERATE fails, the handler saves the item all the same (`AppendFails`, `untold`);
anywhere else the exception ends it. `get_task_history` and `get_phase_status` are
what a reader sees.

### SwarmRuntime

`pc` is where `main()` is between two awaits, `tick` where the thread of a
self-prompt pass is. Reading and emptying the queue is one step, under its lock.
`batch` is what was dequeued and not processed; `Raise` is an exception out of
a prompt, `Kill` the death of the process, and both lose the batch (`lost`).
Self-prompt state is read from and written to `state.json` in two steps (the
file is truncated first); `torn` remembers that a write was cut short.

### Planner, Dispatcher

A text is the sequence of tool calls found in it. A turn asks the model up to
`Attempts` times, the tools of a round end in any order. In `Dispatcher` the
batches share one semaphore; a tool ends with a result or an error, and the
capability service behind `execute_capability` turns a failure into an envelope
of its own, after up to `MaxInvocations` attempts for Smithery. Tools and
commands are awaited without a timeout: `CallTool`, `invoke_smithery_tool` and
`execute_tool_call` happen if the tool ends, which it need not.

### ModelRouter, ModelPerformance, CostLedger, Metrics

In `ModelRouter` calls in one process interleave at the awaits: each keeps the
chain it computed when it started while the others change the statistics. Scores are
multiples of 1/1200, exact within the run's bounds. The other three
are files that several processes rewrite: reading, merging and replacing are
steps of their own, in the order and under the locks of the code, with failures
and restarts. `total` and `spent` are history: what was really recorded.

### Retrieval

A content stands for its hash. A call marks the hash, checks the quota with an
estimate, embeds, records the usage that the provider reports (up to `MaxUsage`,
whatever was estimated), upserts the row, or takes the mark back; it deletes the
rows of files that are gone; it then queries the index or falls back to the keyword
search, and caches what it found. Edits and restarts happen at any moment. `raced`
are the paths edited while a call had them in hand.

### Builder, Pulse, Dashboard, Chat

`Builder`: one action per step of the workflow; only the wait for the tests lets
other calls run. Others push, merge (`merge_pull_request`) and close pull requests
meanwhile, so a branch may get several; the reply of GitHub to one that was opened
may be lost. A path is accepted by its text: one with `..` (`Upward`) is written
outside the root, one that is plainly elsewhere (`Outside`) is refused. `Pulse`: a
report reads the state file twice and then the registry; `held` and `observed`
remember which conditions held throughout or at some time. `Dashboard`: lines are
appended in two steps, a poll hands a batch to all queues, a client registers,
streams, disconnects; a malformed line raises; a page may find the file unreadable
for its lines, for its total, or for both. `Chat`: a broadcast is one step per
listener of the live list; `missed` are the listeners that a removal took from what
a walk had before it, `during` the messages that were being broadcast when one was
posted.

### AutonomousLoop, Tournament

`Blueprint` and `MemoryGraph` are what their classes compute, as operators on
sequences (Kahn's algorithm over ids included). The loop reduces texts to the
words that its own keyword tests tell apart. In `Tournament` a random score is
any it may be, `Decisive` are the differences of score that decide a match
(chosen at the start, from 0 on: `tie_threshold` may be 0), and ratings are scaled
to integers; `Expected[d]` is what K times
the expected score of a rating difference `d` rounds to.

### Services, MCServices

Components that share no state with one another are instantiated side by side:
`Init` chooses the `subject`, only that one moves, and each property is the
conjunction of what is promised of those it is about. One behaviour is thus a
behaviour of one component, on its own instance. The fifteen are `RateLimiter`,
`Planner`, `Dispatcher`, `CostLedger`, `ModelPerformance`, `Metrics`, `Retrieval`,
`Builder`, `Pulse`, `PhaseLedger`, `Dashboard`, `Chat`, `ModelRouter`,
`AutonomousLoop` (with `Blueprint` and `MemoryGraph`) and `Tournament`, with the
assumptions on their constants. `MCServices` gives the constants values and fixes
two of the initial choices.

`Sublists` defines `Kept(s, P)`, the elements of `s` at the positions `P`: what
a filtering comprehension keeps. The chat's list without a socket, the tool
calls that are permitted, the valid lines of a page, the live grants of a
window, the models that fit a task and the criteria that are not met are such
lists. `InOrder(S, R)` lists a finite set in a strict order: rankings,
leaderboards and the draw of a tournament are sorted that way, with the position
as the last key, as a stable sort has it. `SublistsProofs` has the facts the
proofs need.

## 3. Runs

| Run | Question | Bounds |
|---|---|---|
| `phase_controller` | do history, log and phase agree, and does the controller implement the ladder? | seven calls, one override, two moves the log did not take, one registration (of a blocking gate or an advisory one, each on a phase of its own): enough to climb from PLAN to OPERATE with two refusals or lost events, or to override anywhere |
| `task_queue` | are tasks lost, run twice, retried too often, left hanging? does `stop()` return? | three tasks (two priorities), two workers, a rate limiter that may never grant, a queue with room for one so that submitters and retries block, one retry, one cancel, one stop, one restart |
| `state_manager` | is the file an atomic store, and does the log agree? | three calls, three threads of two processes, two rows, one death: two threads of one process, two processes, and a third writer after a loss |
| `sdlc_engine` | is what is delivered reviewed and governed? does a campaign end? | one task, two cycles per campaign, three builder attempts, one rewrite of each artifact by others, any number of starts, deaths and shutdown requests; tasks only share the sentinel and the counters, and one task meets itself again in the next cycle and the next campaign |
| `swarm_loop` | are prompts processed once and in order, does the budget hold, is a shutdown heeded? | two prompts from outside and those of the tick, two signals, a budget of one per hour, a dedup window of one, three ticks of the clock, two starts, any number of shutdowns; an hour is a tick, so that budgets expire within the run |
| `services` | do the fifteen components of `Services` answer, count, index, log, report and stream what is true? | two concurrent actors of each kind (three threads of two processes for the statistics, three models for the router); two or three operations each, so that the second meets the first half done; limits of one or two (permits, caps, budgets, thresholds), so that they are reached; for the rate limiter three callers, burst two, two ticks to a token, one tick late, twelve ticks, so that the bucket empties and is waited for several times |
| `pool_shrinks` | does the pool keep `max_workers` workers? | **violated**: see 3.1 |
| `callback_early` | is a callback called when its task completes? | **violated**: two tasks, one worker, one retry |
| `lost_update` | is no process's update dropped? | **violated** with the writers past the lock |
| `engine_resume` | does a cycle start at PLAN? | **violated** |
| `engine_operate` | does OPERATE mean a pull request was opened? | **violated** |
| `cost_increments` | is a recorded cost in the file? | **violated**: two processes, three records |

`services` properties: `AnswersAreEarned` (`Planner`, `Builder`, `Pulse`),
`CountsAreTrue` (`CostLedger`, `ModelPerformance`, `Metrics`, `RateLimiter`),
`IndexIsSound` (`Retrieval`), `LedgersAreLogged` (`PhaseLedger`), `FeedsAreComplete`
(`Dashboard`, `Chat`), `RecordsAddUp` (`ModelRouter`, `AutonomousLoop`,
`Tournament`), `CallersAreAnswered` (`Dispatcher`, `Planner`; liveness).

The check of `Retrieval`'s quota asks for an estimate and the record adds the
usage reported, so even a single call overruns the cap by what it uses beyond its
estimate, and two calls that race by that much each: `used` is at most
`Cap - 1 + 2 * MaxUsage`. That bound does not grow by one request per further
call: `record()` saves a count that it read earlier, so of three calls one may put
an old low count back after another has raised it, and the checks between pass
once more. `IndexIsSound` states the bound for two calls.

`CHECK_DEADLOCK FALSE` where the bounds, or a finished workload, stop the
system: calls are used up, the clock stands, every task has settled. The
engine's and the swarm's runs check for deadlock: they can always be started or
asked to stop again.

**Bounds in the specifications.** Constants marked "bound" (`MaxCalls`, `MaxForced`,
`MaxGates`, `MaxStarts`, `MaxStops`, `MaxCancels`, `MaxTime`, `MaxKills`,
`MaxUntold`, `MaxPrompts`, `MaxRecords`, `MaxEdits`, `MaxMoves`, `MaxEvents`,
`MaxMatches`, `MaxList`, `MaxResults`, `MaxRuns`, `MaxRequests`, `MaxTokens`) bound
what the environment does, never what the code does. The engine needs one for the
rewrites of its artifact only: its counters are bounded by `MAX_CYCLES` and
`MAX_REVIEW_RETRIES`.

**Fairness.**
Task queue: weak fairness of each worker, of each attempt that has the rate
limiter behind it (`wait_for` bounds it), of a `put()` that has room, of `start()`
and of the return of `stop()` - the event loop resumes everything that can run.
Nothing is assumed of `acquire()` and of async callbacks, which no timeout bounds:
`TasksSettle` and `StopEnds` say what follows if each caller of `acquire()` is
granted in the end (`LimiterIsKind`; not needed for `stop()`, whose cancellation
reaches the wait) and callbacks return (`CallbacksReturn`). `TasksSettle` excepts a
pool without a worker and one whose workers all wait to put a retry back
(`PoolGone`), which the code does get into. Nobody has to submit, cancel or
stop. Engine: weak fairness of the engine's own steps (what it awaits returns
or raises); nobody has to start or kill it or ask for a shutdown. Swarm: weak
fairness of the main coroutine (`SwarmRuntime`'s `MainStep`: a prompt is
answered or raises) and of the tick's thread. Planner: weak fairness of its
steps but for the tools (the completion call has a timeout). Dispatcher: weak
fairness of what the event loop does with the batches taken together (a released
permit is taken, a capability of the process itself is a plain function that
returns; their requests are finitely many, so none is passed over for ever). No
tool and no Smithery command has to end: `planner.py:291`, `dispatcher.py:166` and
`smithery_bridge.py:27` await them without a timeout. `CallersAreAnswered` is
conditional on that: a caller is answered unless a tool of its own hangs or hanging
ones hold every permit. The other
components of `services` are checked for safety only and need none.

### 3.1 Where code and prose disagree

Shown by a run:

1. *The pool shrinks.* `task_queue.py:226`: "max_workers: Number of concurrent
   worker tasks". A cancelled attempt re-raises its CancelledError (549-554)
   and ends the worker loop (507-509); nothing replaces the worker.
2. *A callback comes early.* `task_queue.py:368, 373`: "a completion callback",
   "Function to call when task completes". It is popped by the first attempt that
   leaves (605-606), also when that failed and the task is put back for a retry.
3. *Updates are dropped.* `state.py:117-119`: the lock is held "so concurrent
   processes never silently drop each other's updates". `embed_quota.py:64` and
   `self_prompt.py:215, 351` write the cached rows of their process past it.
4. *Cycles do not start at PLAN.* `autonomous_sdlc.py:145-146` says each cycle
   advances PLAN -> ... -> OPERATE. `ensure_work_item` (519) resumes a stored
   item at its phase, `_plan` skips neither failed nor delivered tasks, and
   `advance(ARCHITECT)` raises from there.
5. *OPERATE without a pull request.* `autonomous_sdlc.py:610` logs "PR opened:
   ..." although `_deliver` returned None (415-426) or GitHubTool's error
   string.
6. *Increments are lost.* `cost_tracker.py:20-24` promises no last-writer-wins
   data loss; the lock covers the read (104-106), not the merge and the replace.

Met while reading and modelled as the code has it, without a run:

- Swarm: `main.py:268-271` and `349-351` say the loop keeps going after a
  failure; 365 re-raises and ends it. The tick logs "continuing" and raises. The
  dedup "sliding window" is rebuilt from a set, so any old keys survive.
- Gates: `quality_gates.py:9-11` says evaluation stops at the first blocking
  failure, `phase_controller.py:171-189` runs every gate.
- Router: a model that always failed has no latencies, so its average of 0.0
  counts as fast and it keeps a score of 0.3.
- Costs: the governor's default budget is 10.0, that of FinOps 50.0; the cost
  page's tracker never reloads and parses an indented document line by line.
- Retrieval: `retrieval_context.py:635` "Check cache first", after the
  retrieval; the vector query is not restricted to the corpora asked for; an
  edit during embedding can leave the newer hash with the older row.
- Builder: changes are applied "atomically" (`builder.py:310`), yet a failure leaves
  the files written so far; nothing commits or pushes them; a path with `..` passes
  the check that it is within the project root (330-333).
- Pulse: no condition has severity CRITICAL; at exactly 80 % of the API limit
  the reading says WARNING and no alert is raised; a degraded agent raises none.
- Web: the router never reloads `state.json` before it reads and so restores a
  stale row; an edge that is not allowed answers 500; the state reader looks
  for keys the state manager never writes and shows an empty, healthy system.
- Streams: a malformed line ends the event feed for good and makes the
  shutdown raise; a client that disconnects before its generator ran leaks its
  queue; a chat broadcast skips a listener when another one leaves behind the
  walk.
- Statistics: the "cross-process safety" lock of `model_performance.py` covers
  the read only; `metrics.py` truncates its file without a lock.
- Loop: a second replan repeats the id `step_verify`, so the "DAG" has a cycle,
  `topological_order` raises and the listed order is used; with no attempts
  allowed the run is remembered as failed and then raises on an unbound name; a
  retry passes if it echoes the first 21 characters of the criterion;
  `get_agent_history` returns the oldest first, which `memory_graph.py:70`
  calls "most recent first"; an empty file, as a write cut short leaves it, loads
  as an empty graph, and the history is gone.
- Tournament: with `tie_threshold` or `num_rounds` at 0 equal scores are a win of
  the second agent, and an agent that meets itself wins and loses, and loses half
  of K; `run_tournament` returns the matches of earlier tournaments too.
- MCP: `sdlc_client.py:58-62` passes `tool_args=` to a function that takes
  `args`.

Behaviour a reader may not expect, which the models have: `tasks_cancelled`
counts one cancellation twice (413, 551) and also a `cancel()` that came too
late (418); `submit()` waits on a full queue instead of
raising QueueFull (346); workers that all wait to put back a retry jam the queue
(580; `Jammed`); `RateLimiter` throws the fraction of a token away when a caller
has to wait (195), so a caller may starve; the sentinel stays behind when the
retry rule ends `run()` (667).

## 4. Proofs

TLAPS checks these for every value of the constants that satisfies the modules'
ASSUMEs.

**`PhaseControllerProofs`** (assumes `GateAssumption`: blocking gates are gates,
each gate has a set of phases, the bounds are naturals).

- `TypeCorrect`, `HistoryCorrect` (`HistoryIsChain` and `LogTellsHistory`),
  `UnforcedCorrect`, `GovernanceCorrect` (`OperateIsGoverned`),
  `ControllerImplementsLadder` (`ImplementsLadder`).
- The inductive invariant `IInv` joins these properties with a fact that they
  need: gates are only appended, so an evaluation in the log refers to the same
  gates later. `LogTellsHistory` compares the log with `Told`, the moves of the
  history that are not `untold`: a move whose event is lost adds itself to the
  history and to `untold` and leaves `Told` as it was, any other is at the end of
  both. Every entry that is not forced is on an edge, which makes
  `OperateIsGoverned` follow: OPERATE is entered only from GOVERN, that only
  from REVIEW, that only from IMPLEMENT, and the chain property links the
  entries; `PLAN` at the start gives the length.
- One lemma per action; `Advance` splits into refusal and move, with lemmas on
  `Append` for the history and the log.

**`TaskQueueProofs`** (assumes `QueueAssumption`: tasks and workers are finitely
many, priorities, sizes, budgets and bounds are naturals).

- `TypeCorrect`; `PlacesCorrect` (`TaskInOnePlace`); `TasksCorrect`
  (`NoTaskLost`); `CountersCorrect` (`MetricsMatchStatuses`); `StopCorrect`
  (`StoppedIsQuiet`); `CallbacksCorrect` (`CallbackTellsAttempt`);
  `QueueImplementsLifecycle` (`ImplementsLifecycle`).
- None of these is inductive. `IInv` states where every task is: `Places` (a
  held task is held by one worker, listed in `running` and not queued), `Waiting`
  (a `submit()` that waits for room has not registered its task), `Queued` (what
  a status says about the place), `Told` (the callbacks). `Held` is the heart of it:
  the status of a task in a worker's hands changes behind the worker only by
  `cancel()` and `stop()`, and then the attempt or the worker is being cancelled
  too. Without it `Complete` or a retry could lead a task out of CANCELLED.
  `Interrupts` says that a pending CancelledError finds a live worker.
- `LeavingKeeps` covers all six ways out of `_execute_task`. `CountMoves` is the
  arithmetic of one task that changes its status, `StopKeeps` that of many.
- The refinement maps `Take` to `Run` (`RoomToRun`: the holders are an injection of
  the running tasks into the other workers), `FailAndRetry` to `Retry`, a
  cancellation to `CancelAll`, and `Submit` or `SubmitPut` to the first step of the
  task's life.

**`StateManagerProofs`** (assumes `StateAssumption`: there is a row, the value
that stands for "nobody" is no thread, every thread has a process, the bounds
are naturals).

- `TypeCorrect`; `UpdatesCorrect` (`NoUpdateDropped`);
  `StateManagerImplementsStore` (`ImplementsStore`); `CachesCorrect`
  (`ReadsOwnWrites`); `LogCorrect` (`EventsTellCommits`).
- `NoUpdateDropped` is not inductive: it says nothing of a thread that has read
  the file and not replaced it yet. `IInv` adds `FlockHeld` (whoever is between
  reading and releasing holds the flock, so only one thread is there) and
  `CopyIsFresh` (the copy it is about to write is the file but for its own row).
  `ReplaceKeeps` is where they are used.
- The refinement maps `Enter` to `Ask`, `Replace` to `Apply`, `AppendEvent` and
  `AppendFails` to `Answer`, `Fail` and `Kill` to `GiveUp`, and the rest to
  stuttering, one lemma each.
- The other two theorems add an invariant of their own under `[]IInv`:
  `CopyIsWritten` (between the replacement and the release, the thread's copy is
  the file, so the cache it sets is) and `CallsAreApart` (calls under way have
  different ids that the log does not have yet).
- The proofs hold for any `MaxCalls` and `MaxKills`. They never use the thread
  lock: the flock alone gives exclusion.

**`SdlcEngineProofs`** (assumes `EngineAssumption`: the bounds on cycles and review
retries are naturals).

- `TypeCorrect`; `DeliveryCorrect` (`DeliveredWasReviewed`); `GovernanceCorrect`
  (`GovernedDelivery`); `SavedCorrect` (`SavedPhaseWasLogged`); `RestartCorrect`
  (`CutShortStartsOver`).
- `IInv` says for each place of the cycle what is true there: `Position` (on which
  rung the item is, and that the log's last climb ends there), `Artifacts` (what was
  reviewed last and how), `Climbs` (the transitions of one climb are the rungs in
  order, forced at most at the first), `Rows` (a row at IN_PROGRESS or BUILT has no
  phase but PLAN, so a death there makes the next cycle start over; the cached item
  may be further, if a save of it failed), `Counting` (a cycle is counted at most
  once), `InHand`, `Requests`.
- Steps that log a move go through `ArchitectKeeps` and `RungKeeps`; a climb that
  reached OPERATE is the whole ladder by `WholeLadder`. `MovedUnlogged` is the
  exception `SavedPhaseWasLogged` has: the append of the last move failed.

**`SwarmRuntimeProofs`** (assumes `SwarmAssumption`: finitely many signals; the
budget and the hour are naturals).

- `PromptsCorrect` (`PromptsInOrder`). The invariant `Places` states the same
  with `Rising` and `Before` for the three sequences apart, so that no step needs a fact
  on concatenations; `BatchInUse` says that a batch is empty where the next
  one is taken, which is what keeps `dequeue_prompts` from dropping prompts.
- `SwarmTypes` (`TypeOK`), from `TickTypes`: besides the types, whoever is about
  to write a prompt has one in hand and has paid for it, and nothing of the tick
  runs before the process has started.
- `BudgetKept` (`BudgetSurvivesRestarts`). The property speaks of all hours, the
  window only remembers the last one. `Covered` links the two: for every T that
  is at most an hour before the last grant, the window has at least as many
  grants from T on as prompts were written from T on, plus the one that is paid
  for and not yet written. A grant forgets only what is older than that
  (`BudgetGrants`, by counting positions in the filtered window), and a prompt
  that is written adds to an hour that the window still covers (`BudgetWrites`).
  Between two writes of it `state.json` holds the window of the process, so a
  restart takes up the same one.

**`ServicesProofs`** (assumes `ServicesAssumption`, a conjunct per component:
bounds and limits are naturals, calls, tasks and batches are finitely many, paths
are numbered, there is a model to ask, names do not collide; every capability of
the router starts with a list of models, none twice; every workflow has a step;
half of K is a number, the rounded expectation lies between 0 and K, and equals
expect half of it).

- `TypeCorrect` (`TypeOK`), `AnswersHold` (`AnswersAreEarned`), `CountsHold`
  (`CountsAreTrue`), `IndexHolds` (`IndexIsSound`), `LedgersHold`
  (`LedgersAreLogged`), `FeedsHold` (`FeedsAreComplete`), `RecordsHold`
  (`RecordsAddUp`), and `PermitsSuffice` (the safety half of `CallersAreAnswered`).
- `ServicesInv` is the conjunction of an inductive invariant per component,
  each with its lemmas `...Init`, `...Step` and `...True`; a step of the whole is a step
  of one component and leaves the others alone (`...Moves`). What each invariant
  adds to the types and to the property:
  - *Limiter*: the grants and the tokens left are at most the burst and the refill
    of the time that has passed (`RateBounded`); the rounded-up wait is
    `WaitTimeType`.
  - *Planner*: where in a turn it is, which calls were asked of the model's
    last text, and what the last message is at each place.
  - *Dispatcher*: types, and the number of tools that run.
  - *Costs*: no entry of a ledger on disk, in a tracker or in the hands of
    a record exceeds what was spent on its key; the sums follow from that. An
    alert was raised from a checked sum.
  - *Performance*: every table, wherever it is held, counts at most the
    requests made (`Tables`); that the best model exists is a lemma
    on maxima over positions of a list (`FirstOfTheBest`).
  - *Metrics*: a registry counts what its process ended, on top of the file it
    started from.
  - *Retrieval*: `HashesAreEarned`: whoever is in the way of a hash and its row
    is at a place where it will write the row or take the hash back;
    `StaleIsUnread`; and for two calls, what each holds of the quota's count: one
    that has passed the check has read less than the cap, and adds one usage.
  - *Builder*: what each step of a workflow has behind it, whatever the others
    wrote, pushed, merged and closed since.
  - *Pulse*: what a report has read lies between what held throughout and what
    held at some time.
  - *Phase ledger*: a row in the hands of a process, or anywhere it was written,
    is one whose moves were logged or the `untold` move to OPERATE of a cycle, or
    it carries the move its holder has just logged.
  - *Dashboard*: the tailer's position, the batch it delivers and each queue are
    pieces of the log that meet (`SubSeq` lemmas), as long as the feed goes on.
  - *Chat*: a walk over the live list: who stands behind its index was served,
    failed, or missed by a removal (`ChatShrinks`). `ChatOrder`: a message that is
    still being broadcast was so when a later one was posted, hence in its `during`.
  - *Router* (`RecordsProofs`, as the next two): `CallIsTold`: what a call has tried
    is the beginning of the chain it started with, each attempt a failure but for
    the last of a call that was answered; `AttemptsCount`. A chain names no model
    twice, if the configured fallback models are different, because ranking is a
    permutation (`RouterRanks`), filtering keeps a sublist (`RouterKeeps`), and the
    chosen model is one of the candidates (`RouterRoutes`, `RouterChains`). Scores
    are whole, so they can be compared (`ScoresAreWhole`).
  - *Loop*: `Planning` says what a plan is after k revisions. `Drafted`: after one
    it is still a chain of different ids, which Kahn's algorithm orders
    completely (`ChainIsOrdered`); after two the id `verify` is there twice and the
    algorithm stops short (`DoubledIsNotOrdered`). `Revisits`: after one revision
    every echoed criterion is in the plan, so what fails then is mute and fails
    for ever (`GapsAreMute`); that is why a second attempt is the last that can
    succeed. `Remembered` gives the graph in closed form: nodes 1, 2 and 3 are the
    first task, the agent and the outcome, each further run adds two nodes and two
    edges (`NodesTell`, `EdgesTell`), so the agent's history is the list of runs
    (`OneAgent`, `AgentLeadsToTasks`, `TaskLeadsToOutcome`, `HistoryIsTold`).
    `Filed` says the same of the file, `Reported` of what the caller was told.
  - *Tournament*: `RatingsAreNear` (a match moves a rating by at most K, which
    keeps differences where `Expected` is defined), `TalliesAgree`, and the sum of
    the ratings. `update_elo` writes one agent after the other; that the two
    changes cancel is `RatingsMove`; of an agent that meets itself the second change
    is added to the first and half of K is gone, which `Lonely` counts. The
    leaderboard is a permutation of the results of its benchmark (`LeaderboardIsTrue`).

**`RecordsProofs`** holds the lemmas on the router, the loop and the tournament,
which have most to say about data; `ServicesProofs` extends it.

**`SublistsProofs`**: the lemmas on data that the others cite.

- Ranks and positions: `Kept(s, P)` is a sequence of the elements of `s` at `P`,
  in their order, each once, and all of them (`KeptIsSequence`, `KeptPositions`).
  `InOrder(S, R)` is a bijection from the first numbers onto `S` along `R`
  (`SortedList`).
- Induction. The library's induction theorems have an operator as a parameter,
  which the installed provers cannot instantiate. They can instantiate a set:
  `LeastNumber` (a set of numbers has a least element, from the
  well-foundedness of `<`), `Induction` (a set of numbers with 0 and all successors
  is `Nat`) and `SubsetInduction` (the same for the subsets of a finite set) speak
  of sets, and a proof by induction defines the set for which its claim holds.
- Recursion. A fold or a recursive function is a CHOOSE of a function that solves
  an equation, and says nothing until a solution exists. `IterationSolves` and
  `RecursionSolves` give one, for steps along the numbers and for one element of a
  finite set at a time. From them follow what Kahn's algorithm returns (`TheOrder`),
  what the registry holds (`RegisteredLists`) and that a sum over agents
  changes as its terms do (`TotalUpdates`, `TotalExtends`, `SumsAgree`).

**Only model-checked**: liveness (`TasksSettle`, `StopEnds`, `RunEnds`,
`ShutdownHeeded`, the other half of `CallersAreAnswered`), which is out of the
prover's reach as ENABLED is. Every safety property of the passing runs is a
theorem. No module that is proved about declares a RECURSIVE operator.

## 5. Not modelled

- Prompts, contents, scores and everything an LLM answers: any answer is
  possible. So the agents that are a prompt and a pure function (ideator,
  architect, critic, refactorer) and the concrete gates are left out.
- MCP client and server: off by default, tool functions without state.
- Durable workflows: delegate to a library, or to a fresh controller.
- `GraphOrchestrator`: passes a dictionary from node to node, keeps nothing.
- Tenants: used by nothing but their tests.
- The Memori client, a wrapper of a library; the pages and commands that read
  and format; forecasts and reports of FinOps.
- `TaskQueueManager`, a dictionary of queues; diffs and readers of the state
  manager's log.

`PROJECT.json` has a line for each.

## 6. Plan

Done: phase ladder, task queue, rate limiter, state files, engine, phase
writers, swarm, ledgers, retrieval, agents' tools, streams, and the proofs above.

Left:

1. **Composition** of `SdlcEngine` with `PhaseLedger`: a row that the router
   overwrites in the middle of a cycle, and what of `SavedPhaseWasLogged` is
   left then.
2. **Proofs** of action properties where an invariant says less than the code
   promises: statuses that are final, counters and logs that only grow.
3. **Hazards without a property**: the starving caller of the rate limiter, two
   changes logged in the other order, the pull request that is opened twice.
