------------------------------ MODULE TaskQueue ------------------------------
(***************************************************************************)
(* src/src/services/task_queue.py, class AsyncTaskQueue: callers submit    *)
(* and cancel tasks, a pool of workers executes them with retries, and an  *)
(* owner starts and stops the pool.  Everything runs on one event loop, so *)
(* an action is what one coroutine does between two awaits.                *)
(*                                                                         *)
(* Left out: wait and execution times, labels of the counters, the value a *)
(* task returns, and how the rate limiter decides (module RateLimiter).    *)
(* wait_for bounds a task function (lines 648-650), which does not swallow *)
(* a cancellation; nothing bounds the wait for the limiter before it, nor  *)
(* a callback.                                                             *)
(***************************************************************************)
EXTENDS Naturals, Sequences, FiniteSets, SequencesExt

CONSTANTS
    Task,        \* the tasks callers submit, each once
    Worker,      \* the worker coroutines, max_workers of them
    Priority,    \* the priority of each task: lower runs first
    MaxSize,     \* maxsize of the queue, 0 for unlimited
    MaxRetries,  \* max_retries of each task
    WithCallback,\* the tasks submitted with submit_with_callback
    RateLimited, \* does the queue have a rate limiter?
    MaxStarts,   \* bound: calls of start()
    MaxStops,    \* bound: calls of stop()
    MaxCancels   \* bound: calls of cancel()

ASSUME QueueAssumption ==
    /\ IsFiniteSet(Task)
    /\ IsFiniteSet(Worker)
    /\ Priority \in [Task -> Nat]
    /\ MaxSize \in Nat
    /\ MaxRetries \in [Task -> Nat]
    /\ WithCallback \subseteq Task
    /\ RateLimited \in BOOLEAN
    /\ MaxStarts \in Nat
    /\ MaxStops \in Nat
    /\ MaxCancels \in Nat

VARIABLES
    created,    \* tasks in the order of their created_at
    putting,    \* tasks whose submit() waits in queue.put()
    queue,      \* the priority queue
    status,     \* task.status; "unknown" while not in self._tasks
    retries,    \* task.retry_count
    callback,   \* the callback in the payload, and the success it was told
    running,    \* the keys of self._running
    future,     \* the asyncio task of the current attempt
    pc,         \* where each worker coroutine is suspended
    job,        \* the task each worker holds
    interrupt,  \* workers with a pending CancelledError
    shutdown,   \* self._shutdown
    stopping,   \* stop() waits for the workers
    metrics,    \* self._metrics
    starts,     \* bound: calls of start() so far
    stops,      \* bound: calls of stop() so far
    cancels     \* bound: calls of cancel() so far

loop == <<running, future, pc, job, interrupt>>
owner == <<shutdown, stopping, starts, stops>>
vars == <<created, putting, queue, status, retries, callback, running, future,
          pc, job, interrupt, shutdown, stopping, metrics, starts,
          stops, cancels>>

NoTask == "NoTask"

Status == {"unknown", "PENDING", "RUNNING", "COMPLETED", "FAILED", "CANCELLED"}
Final == {"COMPLETED", "FAILED", "CANCELLED"}

\* A worker that holds a task is executing it, sleeps before its retry, or
\* waits to put it back.  In "callback" and "lastcall" it has let go of the
\* task and waits for its callback, in "lastcall" with a CancelledError on the
\* way up.
Holding == {"execute", "backoff", "requeue"}
Calling == {"callback", "lastcall"}
Place == Holding \cup Calling \cup {"off", "get", "dead"}

Metrics == [submitted : Nat, completed : Nat, failed : Nat,
            cancelled : Nat, retried : Nat]

TypeOK ==
    /\ created \in Seq(Task)
    /\ putting \subseteq Task
    /\ queue \subseteq Task
    /\ status \in [Task -> Status]
    /\ retries \in [Task -> Nat]
    /\ \A t \in Task : retries[t] <= MaxRetries[t]
    /\ callback \in [Task -> {"none", "set", "success", "failure"}]
    /\ running \subseteq Task
    /\ future \in [Task -> {"none", "waiting", "active", "cancelling",
                            "result", "error", "cancelled"}]
    /\ pc \in [Worker -> Place]
    /\ job \in [Worker -> Task \cup {NoTask}]
    /\ interrupt \subseteq Worker
    /\ shutdown \in BOOLEAN
    /\ stopping \in BOOLEAN
    /\ metrics \in Metrics
    /\ starts \in Nat
    /\ stops \in Nat
    /\ cancels \in Nat

Init ==
    /\ created = << >>
    /\ putting = {}
    /\ queue = {}
    /\ status = [t \in Task |-> "unknown"]
    /\ retries = [t \in Task |-> 0]
    /\ callback = [t \in Task |-> "none"]
    /\ running = {}
    /\ future = [t \in Task |-> "none"]
    /\ pc = [w \in Worker |-> "off"]
    /\ job = [w \in Worker |-> NoTask]
    /\ interrupt = {}
    /\ shutdown = FALSE
    /\ stopping = FALSE
    /\ metrics = [submitted |-> 0, completed |-> 0, failed |-> 0,
                  cancelled |-> 0, retried |-> 0]
    /\ starts = 0
    /\ stops = 0
    /\ cancels = 0

-----------------------------------------------------------------------------
(* submit() and submit_with_callback().                                     *)

Full == MaxSize # 0 /\ Cardinality(queue) >= MaxSize

\* What submit() does once put() went through, up to its return; the callback
\* is set in the same breath.
Entered(t) ==
    /\ queue' = queue \cup {t}
    /\ status' = [status EXCEPT ![t] = "PENDING"]
    /\ callback' = [callback EXCEPT ![t] = IF t \in WithCallback THEN "set" ELSE @]
    /\ metrics' = [metrics EXCEPT !.submitted = @ + 1]

\* The task object is built, with its created_at, and put() is called: it
\* waits if the queue is full.
Submit(t) ==
    /\ t \notin ToSet(created)
    /\ created' = Append(created, t)
    /\ IF Full
         THEN /\ putting' = putting \cup {t}
              /\ UNCHANGED <<queue, status, callback, metrics>>
         ELSE Entered(t) /\ UNCHANGED putting
    /\ UNCHANGED <<retries, loop, owner, cancels>>

\* A waiting put() goes through.
SubmitPut(t) ==
    /\ t \in putting
    /\ ~Full
    /\ putting' = putting \ {t}
    /\ Entered(t)
    /\ UNCHANGED <<created, retries, loop, owner, cancels>>

-----------------------------------------------------------------------------
(* cancel().  An unknown or settled task is refused, which changes nothing. *)

\* Mutant: the status is not looked at.
CancelPending_AnyStatus(t) ==
    /\ cancels < MaxCancels
    /\ status[t] # "unknown"
    /\ status' = [status EXCEPT ![t] = "CANCELLED"]
    /\ metrics' = [metrics EXCEPT !.cancelled = @ + 1]
    /\ cancels' = cancels + 1
    /\ UNCHANGED <<created, putting, queue, retries, callback, loop, owner>>

CancelPending(t) ==
    /\ cancels < MaxCancels
    /\ status[t] = "PENDING"
    /\ status' = [status EXCEPT ![t] = "CANCELLED"]
    /\ metrics' = [metrics EXCEPT !.cancelled = @ + 1]
    /\ cancels' = cancels + 1
    /\ UNCHANGED <<created, putting, queue, retries, callback, loop, owner>>

\* future.cancel(): reaches the task only while its attempt is not over.
Interrupted(t) ==
    IF future[t] \in {"waiting", "active"} THEN "cancelling" ELSE future[t]

CancelRunning(t) ==
    /\ cancels < MaxCancels
    /\ status[t] = "RUNNING"
    /\ t \in running
    /\ future' = [future EXCEPT ![t] = Interrupted(t)]
    /\ metrics' = [metrics EXCEPT !.cancelled = @ + 1]
    /\ cancels' = cancels + 1
    /\ UNCHANGED <<created, putting, queue, status, retries, callback, running,
                   pc, job, interrupt, owner>>

-----------------------------------------------------------------------------
(* _worker_loop().                                                          *)

Position(t) == CHOOSE i \in DOMAIN created : created[i] = t

\* The order of TaskPriority: priority, then created_at.
Ahead(t, u) ==
    \/ Priority[t] < Priority[u]
    \/ Priority[t] = Priority[u] /\ Position(t) < Position(u)

\* get() returned t: a task cancelled while it was queued is dropped, any
\* other one is started (_execute_task up to its first await).
Take(w, t) ==
    /\ pc[w] = "get" /\ w \notin interrupt
    /\ t \in queue
    /\ \A u \in queue \ {t} : Ahead(t, u)
    /\ queue' = queue \ {t}
    /\ IF status[t] = "CANCELLED"
         THEN UNCHANGED <<status, running, future, pc, job>>
         ELSE /\ status' = [status EXCEPT ![t] = "RUNNING"]
              /\ running' = running \cup {t}
              /\ future' = [future EXCEPT ![t] = IF RateLimited THEN "waiting"
                                                 ELSE "active"]
              /\ pc' = [pc EXCEPT ![w] = "execute"]
              /\ job' = [job EXCEPT ![w] = t]
    /\ UNCHANGED <<created, putting, retries, callback, interrupt, owner,
                   metrics, cancels>>

\* The worker leaves _execute_task: back to get(), or out of the loop when the
\* pool is shut down.
AfterTask == IF shutdown THEN "dead" ELSE "get"

\* The rate limiter lets the attempt through, and its timeout starts.
Acquired(t) ==
    /\ future[t] = "waiting"
    /\ future' = [future EXCEPT ![t] = "active"]
    /\ UNCHANGED <<created, putting, queue, status, retries, callback, running,
                   pc, job, interrupt, owner, metrics, cancels>>

\* The attempt ends: the task function returns, raises or times out, or the
\* cancellation reaches it.
FutureEnds(t) ==
    /\ \/ /\ future[t] = "active"
          /\ \E result \in {"result", "error"} :
               future' = [future EXCEPT ![t] = result]
       \/ /\ future[t] = "cancelling"
          /\ future' = [future EXCEPT ![t] = "cancelled"]
    /\ UNCHANGED <<created, putting, queue, status, retries, callback, running,
                   pc, job, interrupt, owner, metrics, cancels>>

\* Mutant: the task stays in self._running.
Leave_KeepsRunning(w, t, calling, next) ==
    /\ UNCHANGED <<running, callback>>
    /\ future' = [future EXCEPT ![t] = "none"]
    /\ job' = [job EXCEPT ![w] = NoTask]
    /\ pc' = [pc EXCEPT ![w] = next]

\* Mutant: the outcome is read before the status is set.
Leave_ReadsOldStatus(w, t, calling, next) ==
    /\ running' = running \ {t}
    /\ future' = [future EXCEPT ![t] = "none"]
    /\ job' = [job EXCEPT ![w] = NoTask]
    /\ callback' = [callback EXCEPT ![t] =
                      IF @ # "set" THEN @
                      ELSE IF status[t] = "COMPLETED" THEN "success" ELSE "failure"]
    /\ pc' = [pc EXCEPT ![w] = IF callback[t] = "set" THEN calling ELSE next]

\* The finally block of _execute_task: the task leaves self._running and its
\* callback, if it is still in the payload, is called next.
Leave(w, t, calling, next) ==
    /\ running' = running \ {t}
    /\ future' = [future EXCEPT ![t] = "none"]
    /\ job' = [job EXCEPT ![w] = NoTask]
    /\ callback' = [callback EXCEPT ![t] =
                      IF @ # "set" THEN @
                      ELSE IF status'[t] = "COMPLETED" THEN "success" ELSE "failure"]
    /\ pc' = [pc EXCEPT ![w] = IF callback[t] = "set" THEN calling ELSE next]

\* await task_future returns.
Complete(w) ==
    LET t == job[w] IN
    /\ pc[w] = "execute" /\ w \notin interrupt
    /\ future[t] = "result"
    /\ status' = [status EXCEPT ![t] = "COMPLETED"]
    /\ metrics' = [metrics EXCEPT !.completed = @ + 1]
    /\ Leave(w, t, "callback", AfterTask)
    /\ UNCHANGED <<created, putting, queue, retries, interrupt, owner,
                   cancels>>

\* Mutant: the retry budget is not checked.
FailAndRetry_NoBudget(w) ==
    LET t == job[w] IN
    /\ pc[w] = "execute" /\ w \notin interrupt
    /\ future[t] = "error"
    /\ retries' = [retries EXCEPT ![t] = @ + 1]
    /\ metrics' = [metrics EXCEPT !.retried = @ + 1]
    /\ status' = [status EXCEPT ![t] = "PENDING"]
    /\ pc' = [pc EXCEPT ![w] = "backoff"]
    /\ UNCHANGED <<created, putting, queue, callback, running, future, job,
                   interrupt, owner, cancels>>

\* Mutant: every failed attempt counts as a failed task.
FailAndRetry_CountsFailure(w) ==
    LET t == job[w] IN
    /\ pc[w] = "execute" /\ w \notin interrupt
    /\ future[t] = "error"
    /\ retries[t] < MaxRetries[t]
    /\ retries' = [retries EXCEPT ![t] = @ + 1]
    /\ metrics' = [metrics EXCEPT !.retried = @ + 1, !.failed = @ + 1]
    /\ status' = [status EXCEPT ![t] = "PENDING"]
    /\ pc' = [pc EXCEPT ![w] = "backoff"]
    /\ UNCHANGED <<created, putting, queue, callback, running, future, job,
                   interrupt, owner, cancels>>

\* await task_future raises, and a retry is left: the worker goes to sleep with
\* the task in its hands.
FailAndRetry(w) ==
    LET t == job[w] IN
    /\ pc[w] = "execute" /\ w \notin interrupt
    /\ future[t] = "error"
    /\ retries[t] < MaxRetries[t]
    /\ retries' = [retries EXCEPT ![t] = @ + 1]
    /\ metrics' = [metrics EXCEPT !.retried = @ + 1]
    /\ status' = [status EXCEPT ![t] = "PENDING"]
    /\ pc' = [pc EXCEPT ![w] = "backoff"]
    /\ UNCHANGED <<created, putting, queue, callback, running, future, job,
                   interrupt, owner, cancels>>

\* await task_future raises, and no retry is left.
FailForGood(w) ==
    LET t == job[w] IN
    /\ pc[w] = "execute" /\ w \notin interrupt
    /\ future[t] = "error"
    /\ retries[t] >= MaxRetries[t]
    /\ status' = [status EXCEPT ![t] = "FAILED"]
    /\ metrics' = [metrics EXCEPT !.failed = @ + 1]
    /\ Leave(w, t, "callback", AfterTask)
    /\ UNCHANGED <<created, putting, queue, retries, interrupt, owner,
                   cancels>>

\* queue.put() of the retry goes through.
PutBack(w, t) ==
    /\ queue' = queue \cup {t}
    /\ UNCHANGED status
    /\ Leave(w, t, "callback", AfterTask)

\* Mutant: the task is not put back.
BackoffOver_Drops(w) ==
    /\ pc[w] = "backoff" /\ w \notin interrupt
    /\ UNCHANGED <<queue, status>>
    /\ Leave(w, job[w], "callback", AfterTask)
    /\ UNCHANGED <<created, putting, retries, interrupt, owner, metrics,
                   cancels>>

\* The sleep is over and put() is called: it waits if the queue is full, and
\* the worker with it.
BackoffOver(w) ==
    /\ pc[w] = "backoff" /\ w \notin interrupt
    /\ IF Full
         THEN /\ pc' = [pc EXCEPT ![w] = "requeue"]
              /\ UNCHANGED <<queue, status, callback, running, future, job>>
         ELSE PutBack(w, job[w])
    /\ UNCHANGED <<created, putting, retries, interrupt, owner, metrics,
                   cancels>>

Requeue(w) ==
    /\ pc[w] = "requeue" /\ w \notin interrupt
    /\ ~Full
    /\ PutBack(w, job[w])
    /\ UNCHANGED <<created, putting, retries, interrupt, owner, metrics,
                   cancels>>

\* CancelledError out of await task_future, because the attempt or the worker
\* was cancelled: it is re-raised, so the worker loop breaks.
CancelledInExecute(w) ==
    LET t == job[w] IN
    /\ pc[w] = "execute"
    /\ \/ future[t] = "cancelled"
       \/ w \in interrupt /\ future[t] \in {"result", "error"}
    /\ status' = [status EXCEPT ![t] = "CANCELLED"]
    /\ metrics' = [metrics EXCEPT !.cancelled = @ + 1]
    /\ interrupt' = interrupt \ {w}
    /\ Leave(w, t, "lastcall", "dead")
    /\ UNCHANGED <<created, putting, queue, retries, owner, cancels>>

\* CancelledError out of the sleep or the put of a retry: no handler of
\* _execute_task sees it, but its finally block runs.
CancelledInRetry(w) ==
    LET t == job[w] IN
    /\ pc[w] \in {"backoff", "requeue"}
    /\ w \in interrupt
    /\ interrupt' = interrupt \ {w}
    /\ UNCHANGED status
    /\ Leave(w, t, "lastcall", "dead")
    /\ UNCHANGED <<created, putting, queue, retries, owner, metrics,
                   cancels>>

\* CancelledError out of get() or out of an async callback.
CancelledElsewhere(w) ==
    /\ pc[w] \in Calling \cup {"get"}
    /\ w \in interrupt
    /\ interrupt' = interrupt \ {w}
    /\ pc' = [pc EXCEPT ![w] = "dead"]
    /\ UNCHANGED <<created, putting, queue, status, retries, callback, running,
                   future, job, owner, metrics, cancels>>

\* The callback returns, or raises what the finally block swallows.
CallbackReturns(w) ==
    /\ pc[w] \in Calling /\ w \notin interrupt
    /\ pc' = [pc EXCEPT ![w] = IF @ = "callback" THEN AfterTask ELSE "dead"]
    /\ UNCHANGED <<created, putting, queue, status, retries, callback, running,
                   future, job, interrupt, owner, metrics, cancels>>

-----------------------------------------------------------------------------
(* start() and stop(), called by one owner.  self._workers is empty before  *)
(* the first start() and after a stop().                                    *)

NoPool == \A w \in Worker : pc[w] = "off"

Start ==
    /\ starts < MaxStarts
    /\ NoPool /\ ~stopping
    /\ starts' = starts + 1
    /\ shutdown' = FALSE
    /\ pc' = [w \in Worker |-> "get"]
    /\ UNCHANGED <<created, putting, queue, status, retries, callback, running,
                   future, job, interrupt, stopping, stops, metrics,
                   cancels>>

\* Mutant: only the workers that wait for a task are cancelled.
InterruptedWorkers_OnlyIdle == {w \in Worker : pc[w] = "get"}

\* worker.cancel() cancels what the worker awaits.  If that is an attempt that
\* is not over, the CancelledError comes out of the attempt; else it is raised
\* when the worker is resumed.
InterruptedWorkers ==
    {w \in Worker :
       \/ pc[w] \in Calling \cup {"get", "backoff", "requeue"}
       \/ /\ pc[w] = "execute"
          /\ future[job[w]] \notin {"waiting", "active", "cancelling"}}

\* Mutant: the tasks are not marked as cancelled.
Stop_NoStatus ==
    /\ stops < MaxStops
    /\ ~NoPool /\ ~stopping
    /\ stops' = stops + 1
    /\ shutdown' = TRUE
    /\ stopping' = TRUE
    /\ interrupt' = interrupt \cup InterruptedWorkers
    /\ future' = [t \in Task |-> IF t \in running THEN Interrupted(t) ELSE future[t]]
    /\ metrics' = [metrics EXCEPT !.cancelled = @ + Cardinality(running)]
    /\ UNCHANGED <<created, putting, queue, status, retries, callback, running,
                   pc, job, starts, cancels>>

Stop ==
    /\ stops < MaxStops
    /\ ~NoPool /\ ~stopping
    /\ stops' = stops + 1
    /\ shutdown' = TRUE
    /\ stopping' = TRUE
    /\ interrupt' = interrupt \cup InterruptedWorkers
    /\ future' = [t \in Task |-> IF t \in running THEN Interrupted(t) ELSE future[t]]
    /\ status' = [t \in Task |-> IF t \in running THEN "CANCELLED" ELSE status[t]]
    /\ metrics' = [metrics EXCEPT !.cancelled = @ + Cardinality(running)]
    /\ UNCHANGED <<created, putting, queue, retries, callback, running, pc, job,
                   starts, cancels>>

\* Mutant: stop() does not wait for the workers.
StopReturns_NoWait ==
    /\ stopping
    /\ stopping' = FALSE
    /\ pc' = [w \in Worker |-> "off"]
    /\ UNCHANGED <<created, putting, queue, status, retries, callback, running,
                   future, job, interrupt, shutdown, starts, stops,
                   metrics, cancels>>

\* gather() has all workers; self._workers = [].
StopReturns ==
    /\ stopping
    /\ \A w \in Worker : pc[w] = "dead"
    /\ stopping' = FALSE
    /\ pc' = [w \in Worker |-> "off"]
    /\ UNCHANGED <<created, putting, queue, status, retries, callback, running,
                   future, job, interrupt, shutdown, starts, stops,
                   metrics, cancels>>

-----------------------------------------------------------------------------

\* What the event loop resumes a worker for, whatever callers do.
Resume(w) ==
    \/ \E t \in Task : Take(w, t)
    \/ Complete(w)
    \/ FailAndRetry(w)
    \/ FailForGood(w)
    \/ BackoffOver(w)
    \/ Requeue(w)
    \/ CancelledInExecute(w)
    \/ CancelledInRetry(w)
    \/ CancelledElsewhere(w)

WorkerStep(w) == Resume(w) \/ CallbackReturns(w)

Next ==
    \/ \E t \in Task :
         \/ Submit(t)
         \/ SubmitPut(t)
         \/ CancelPending(t)
         \/ CancelRunning(t)
         \/ Acquired(t)
         \/ FutureEnds(t)
    \/ \E w \in Worker : WorkerStep(w)
    \/ Start
    \/ Stop
    \/ StopReturns

Spec == Init /\ [][Next]_vars

\* The event loop resumes every coroutine that can run, a task function ends
\* within its timeout, and the owner starts the pool.  Nobody has to submit, to
\* cancel or to stop; the rate limiter need not let everybody through, and a
\* callback need not return.
Fairness ==
    /\ \A w \in Worker : WF_vars(Resume(w))
    /\ \A t \in Task : WF_vars(FutureEnds(t)) /\ WF_vars(SubmitPut(t))
    /\ WF_vars(Start)
    /\ WF_vars(StopReturns)

FairSpec == Spec /\ Fairness

-----------------------------------------------------------------------------

(* A task is in one place: no two workers hold it, a held task is not in   *)
(* the queue, and self._running lists exactly the held ones.  If this      *)
(* failed, the `del self._running[task.id]` of the second worker would     *)
(* raise KeyError.                                                         *)
HeldBy(t) == {w \in Worker : pc[w] \in Holding /\ job[w] = t}

TaskInOnePlace ==
    \A t \in Task :
      /\ Cardinality(HeldBy(t)) <= 1
      /\ t \in running <=> HeldBy(t) # {}
      /\ ~(t \in running /\ t \in queue)
      /\ t \in queue \cup running => t \notin putting

(* No task is lost: a PENDING task is queued or waits for its retry in a   *)
(* worker's hands, a RUNNING one is being executed - across cancellations, *)
(* stop() and restarts.                                                    *)
NoTaskLost ==
    \A t \in Task :
      /\ status[t] = "PENDING" =>
           t \in queue \/ \E w \in HeldBy(t) : pc[w] \in {"backoff", "requeue"}
      /\ status[t] = "RUNNING" => \E w \in HeldBy(t) : pc[w] = "execute"

(* The counters agree with the statuses, and a task that failed for good   *)
(* has used every retry it had.                                            *)
With(s) == {t \in Task : status[t] = s}

MetricsMatchStatuses ==
    /\ metrics.completed = Cardinality(With("COMPLETED"))
    /\ metrics.failed = Cardinality(With("FAILED"))
    /\ metrics.submitted = Cardinality(Task \ With("unknown"))
    /\ metrics.cancelled >= Cardinality(With("CANCELLED"))
    /\ \A t \in With("FAILED") : retries[t] = MaxRetries[t]

(* When stop() has returned, no worker and no attempt is left behind, and  *)
(* no task says it is running.                                             *)
StoppedIsQuiet ==
    NoPool =>
      /\ running = {} /\ interrupt = {} /\ With("RUNNING") = {}
      /\ \A t \in Task : future[t] = "none"

(* A callback is told "success" only of a task that has completed, and      *)
(* "failure" of one that completes later only if that task was retried:     *)
(* the first attempt that leaves _execute_task calls it, which is not what  *)
(* submit_with_callback() says (CallbackEndsTask below).                    *)
CallbackTellsAttempt ==
    \A t \in Task :
      /\ callback[t] = "success" => status[t] = "COMPLETED"
      /\ callback[t] = "failure" /\ status[t] = "COMPLETED" => retries[t] > 0

(* The statuses follow the life cycle: bounded retries, bounded            *)
(* concurrency, and no way out of COMPLETED, FAILED and CANCELLED.         *)
Life == INSTANCE TaskLifecycle WITH
    MaxWorkers <- Cardinality(Worker), life <- status, tries <- retries

ImplementsLifecycle == Life!LifeSpec

(* Every live worker waits to put its retry back into a full queue, so      *)
(* nobody takes anything out of it any more.                                *)
Alive == {w \in Worker : pc[w] # "dead"}

Jammed == Alive # {} /\ Full /\ \A w \in Alive : pc[w] = "requeue"

(* Every submitted task settles, and a submit() that waits for room gets   *)
(* it, whatever the cancellations and retries in between - unless the pool *)
(* is stopped, has lost its last worker, or is jammed, or what nothing in  *)
(* the queue bounds never ends: a wait at the rate limiter, which may      *)
(* prefer others for ever, or a callback.  There is no other way to starve *)
(* a task.                                                                 *)
PoolGone == stops > 0 \/ Alive = {} \/ Jammed

LimiterIsKind == \A t \in Task : []<>(future[t] # "waiting")

CallbacksReturn == \A w \in Worker : []<>(pc[w] \notin Calling)

TasksSettle ==
    LimiterIsKind /\ CallbacksReturn =>
      \A t \in Task :
        t \in putting \/ status[t] = "PENDING" ~> status[t] \in Final \/ PoolGone

(* stop() returns: every worker leaves its loop wherever it was, a wait at  *)
(* the rate limiter included - if the callbacks it is in return.            *)
StopEnds == CallbacksReturn => (stopping ~> ~stopping)

-----------------------------------------------------------------------------
(* What the module says of itself, and what happens.                        *)

\* line 226: "max_workers: Number of concurrent worker tasks."
PoolKeepsItsWorkers ==
    ~NoPool /\ ~shutdown => \A w \in Worker : pc[w] # "dead"

\* lines 368 and 373: "Submit a task with a completion callback", "Function to
\* call when task completes."
CallbackEndsTask ==
    \A t \in Task : callback[t] \in {"success", "failure"} => status[t] \in Final

=============================================================================
