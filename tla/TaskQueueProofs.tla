---------------------------- MODULE TaskQueueProofs ----------------------------
(* The task queue, for any tasks, workers, priorities, sizes and budgets.      *)
EXTENDS TaskQueue, FiniteSetTheorems, SequenceTheorems, TLAPS

Holds(w, t) == pc[w] \in Holding /\ job[w] = t

\* A held task is held once and listed; the others are queued or nowhere.
Places ==
    /\ \A w \in Worker : pc[w] \in Holding => job[w] \in running
    /\ \A v, w \in Worker :
         pc[v] \in Holding /\ pc[w] \in Holding /\ job[v] = job[w] => v = w
    /\ \A t \in running : \E w \in Worker : Holds(w, t)
    /\ running \cap queue = {}
    /\ \A t \in Task : future[t] = "none" <=> t \notin running

\* A submit() that waits has not registered its task.
Waiting ==
    /\ \A t \in putting : status[t] = "unknown" /\ t \in ToSet(created)
    /\ \A t \in Task : status[t] # "unknown" => t \in ToSet(created)

Queued ==
    /\ \A t \in queue : status[t] \in {"PENDING", "CANCELLED"}
    /\ \A t \in Task : status[t] = "PENDING" /\ t \notin queue =>
         \E w \in Worker : Holds(w, t) /\ pc[w] # "execute"
    /\ \A t \in Task : status[t] = "RUNNING" =>
         \E w \in Worker : Holds(w, t) /\ pc[w] = "execute"

\* What a worker holds; only cancel() and stop() change the status behind it.
Held ==
    \A w \in Worker :
      /\ pc[w] = "execute" =>
           \/ status[job[w]] = "RUNNING"
           \/ /\ status[job[w]] = "CANCELLED"
              /\ future[job[w]] \in {"cancelling", "cancelled"} \/ w \in interrupt
      /\ pc[w] \in {"backoff", "requeue"} =>
           /\ status[job[w]] \in {"PENDING", "CANCELLED"}
           /\ future[job[w]] = "error"
           /\ retries[job[w]] > 0
           /\ w \in interrupt => status[job[w]] = "CANCELLED"

Interrupts == \A w \in interrupt : pc[w] \notin {"off", "dead"}

Told ==
    \A t \in Task :
      /\ status[t] = "unknown" => callback[t] = "none"
      /\ callback[t] = "success" => status[t] = "COMPLETED"
      /\ callback[t] = "failure" => retries[t] > 0 \/ status[t] \in {"FAILED", "CANCELLED"}

IInv ==
    /\ TypeOK /\ Places /\ Waiting /\ Queued /\ Held /\ Interrupts /\ Told
    /\ MetricsMatchStatuses

-------------------------------------------------------------------------------
(* Counting.                                                                    *)

LEMMA CountsAreNaturals ==
    ASSUME NEW S, S \subseteq Task
    PROVE  IsFiniteSet(S) /\ Cardinality(S) \in Nat
<1>1. IsFiniteSet(Task)
  BY QueueAssumption
<1>2. IsFiniteSet(S)
  BY <1>1, FS_Subset
<1>3. QED
  BY <1>2, FS_CardinalityType

\* One task changes its status.
LEMMA CountMoves ==
    ASSUME TypeOK, NEW t \in Task, NEW s \in Status, s # status[t],
           status' = [status EXCEPT ![t] = s]
    PROVE  \A x : /\ Cardinality(With(x)) \in Nat
                  /\ x = s => Cardinality(With(x)') = Cardinality(With(x)) + 1
                  /\ x = status[t] => Cardinality(With(x)') = Cardinality(With(x)) - 1
                  /\ x \notin {s, status[t]} => With(x)' = With(x)
<1> SUFFICES ASSUME NEW x
             PROVE  /\ Cardinality(With(x)) \in Nat
                    /\ x = s => Cardinality(With(x)') = Cardinality(With(x)) + 1
                    /\ x = status[t] => Cardinality(With(x)') = Cardinality(With(x)) - 1
                    /\ x \notin {s, status[t]} => With(x)' = With(x)
  OBVIOUS
<1>1. With(x) \subseteq Task
  BY DEF With
<1>2. IsFiniteSet(With(x)) /\ Cardinality(With(x)) \in Nat
  BY <1>1, CountsAreNaturals
<1>3. \A u \in Task : status'[u] = IF u = t THEN s ELSE status[u]
  BY DEF TypeOK
<1>4. x = s => With(x)' = With(x) \cup {t} /\ t \notin With(x)
  BY <1>3 DEF With
<1>5. x = status[t] => With(x)' = With(x) \ {t} /\ t \in With(x)
  BY <1>3 DEF With
<1>6. x \notin {s, status[t]} => With(x)' = With(x)
  BY <1>3 DEF With
<1>7. x = s => Cardinality(With(x)') = Cardinality(With(x)) + 1
  BY <1>2, <1>4, FS_AddElement
<1>8. x = status[t] => Cardinality(With(x)') = Cardinality(With(x)) - 1
  BY <1>2, <1>5, FS_RemoveElement
<1>9. QED
  BY <1>2, <1>6, <1>7, <1>8

LEMMA CountRest ==
    ASSUME NEW S, S \subseteq Task
    PROVE  /\ Cardinality(Task) \in Nat
           /\ Cardinality(Task \ S) = Cardinality(Task) - Cardinality(S)
<1>1. IsFiniteSet(Task) /\ Task \cap S = S
  BY QueueAssumption
<1>2. QED
  BY <1>1, CountsAreNaturals, FS_Difference

LEMMA MetricsType ==
    ASSUME NEW m \in Metrics
    PROVE  /\ [m EXCEPT !.submitted = @ + 1] \in Metrics
           /\ [m EXCEPT !.completed = @ + 1] \in Metrics
           /\ [m EXCEPT !.failed = @ + 1] \in Metrics
           /\ [m EXCEPT !.retried = @ + 1] \in Metrics
           /\ [m EXCEPT !.cancelled = @ + 1] \in Metrics
           /\ \A n \in Nat : [m EXCEPT !.cancelled = @ + n] \in Metrics
BY DEF Metrics

\* A task is registered.
LEMMA RegisteredCounts ==
    ASSUME TypeOK, MetricsMatchStatuses, NEW t \in Task, status[t] = "unknown",
           status' = [status EXCEPT ![t] = "PENDING"],
           metrics' = [metrics EXCEPT !.submitted = @ + 1], retries' = retries
    PROVE  MetricsMatchStatuses'
<1>1. "PENDING" \in Status
  BY DEF Status
<1>2. /\ With("COMPLETED")' = With("COMPLETED") /\ With("FAILED")' = With("FAILED")
      /\ With("CANCELLED")' = With("CANCELLED")
      /\ Cardinality(With("unknown")) \in Nat
      /\ Cardinality(With("unknown")') = Cardinality(With("unknown")) - 1
  BY <1>1, CountMoves
<1>3. /\ metrics'.completed = metrics.completed /\ metrics'.failed = metrics.failed
      /\ metrics'.cancelled = metrics.cancelled /\ metrics'.submitted = metrics.submitted + 1
  BY DEF TypeOK, Metrics
<1>4. metrics'.submitted = Cardinality(Task \ With("unknown")')
  <2>1. With("unknown") \subseteq Task /\ With("unknown")' \subseteq Task
    BY DEF With
  <2>2. /\ Cardinality(Task) \in Nat
        /\ Cardinality(Task \ With("unknown")) = Cardinality(Task) - Cardinality(With("unknown"))
        /\ Cardinality(Task \ With("unknown")') = Cardinality(Task) - Cardinality(With("unknown")')
    BY <2>1, CountRest
  <2>3. QED
    BY <1>2, <1>3, <2>2 DEF MetricsMatchStatuses
<1>5. QED
  BY <1>2, <1>3, <1>4 DEF MetricsMatchStatuses

\* A registered task is cancelled.
LEMMA CancelledCounts ==
    ASSUME TypeOK, MetricsMatchStatuses, NEW t \in Task,
           status[t] \in {"PENDING", "RUNNING", "CANCELLED"},
           status' = [status EXCEPT ![t] = "CANCELLED"],
           metrics' = [metrics EXCEPT !.cancelled = @ + 1], retries' = retries
    PROVE  MetricsMatchStatuses'
<1>1. /\ metrics'.completed = metrics.completed /\ metrics'.failed = metrics.failed
      /\ metrics'.cancelled = metrics.cancelled + 1 /\ metrics'.submitted = metrics.submitted
      /\ metrics.cancelled \in Nat /\ Cardinality(With("CANCELLED")) \in Nat
  BY CountsAreNaturals DEF TypeOK, Metrics, With
<1>2. /\ With("COMPLETED")' = With("COMPLETED") /\ With("FAILED")' = With("FAILED")
      /\ With("unknown")' = With("unknown")
  BY DEF TypeOK, With
<1>3. With("CANCELLED")' = With("CANCELLED") \cup {t} /\ IsFiniteSet(With("CANCELLED"))
  BY CountsAreNaturals DEF TypeOK, With
<1>4. Cardinality(With("CANCELLED")') <= Cardinality(With("CANCELLED")) + 1
  <2>1. Cardinality(With("CANCELLED") \cup {t}) =
          IF t \in With("CANCELLED") THEN Cardinality(With("CANCELLED"))
                                     ELSE Cardinality(With("CANCELLED")) + 1
    BY <1>3, FS_AddElement
  <2>2. QED
    BY <1>1, <1>3, <2>1
<1>5. metrics'.cancelled >= Cardinality(With("CANCELLED")')
  <2>1. Cardinality(With("CANCELLED")') \in Nat
    BY CountsAreNaturals DEF With
  <2>2. QED
    BY <1>1, <1>4, <2>1 DEF MetricsMatchStatuses
<1>6. QED
  BY <1>1, <1>2, <1>5 DEF MetricsMatchStatuses

\* A running task settles.
LEMMA SettledCounts ==
    ASSUME TypeOK, MetricsMatchStatuses, NEW t \in Task, status[t] = "RUNNING", retries' = retries,
           \/ /\ status' = [status EXCEPT ![t] = "COMPLETED"]
              /\ metrics' = [metrics EXCEPT !.completed = @ + 1]
           \/ /\ status' = [status EXCEPT ![t] = "FAILED"]
              /\ metrics' = [metrics EXCEPT !.failed = @ + 1]
              /\ retries[t] >= MaxRetries[t]
    PROVE  MetricsMatchStatuses'
<1>1. "COMPLETED" \in Status /\ "FAILED" \in Status
  BY DEF Status
<1>2. CASE /\ status' = [status EXCEPT ![t] = "COMPLETED"]
           /\ metrics' = [metrics EXCEPT !.completed = @ + 1]
  <2>1. /\ Cardinality(With("COMPLETED")') = Cardinality(With("COMPLETED")) + 1
        /\ With("FAILED")' = With("FAILED") /\ With("CANCELLED")' = With("CANCELLED")
        /\ With("unknown")' = With("unknown")
    <3>1. \A x : /\ x = "COMPLETED" => Cardinality(With(x)') = Cardinality(With(x)) + 1
                 /\ x \notin {"COMPLETED", "RUNNING"} => With(x)' = With(x)
      BY <1>1, <1>2, CountMoves
    <3>2. QED
      BY <3>1
  <2>2. /\ metrics'.completed = metrics.completed + 1 /\ metrics'.failed = metrics.failed
        /\ metrics'.cancelled = metrics.cancelled /\ metrics'.submitted = metrics.submitted
    BY <1>2 DEF TypeOK, Metrics
  <2>3. QED
    BY <2>1, <2>2 DEF MetricsMatchStatuses
<1>3. CASE /\ status' = [status EXCEPT ![t] = "FAILED"]
           /\ metrics' = [metrics EXCEPT !.failed = @ + 1]
           /\ retries[t] >= MaxRetries[t]
  <2>1. /\ Cardinality(With("FAILED")') = Cardinality(With("FAILED")) + 1
        /\ With("COMPLETED")' = With("COMPLETED") /\ With("CANCELLED")' = With("CANCELLED")
        /\ With("unknown")' = With("unknown")
    <3>1. \A x : /\ x = "FAILED" => Cardinality(With(x)') = Cardinality(With(x)) + 1
                 /\ x \notin {"FAILED", "RUNNING"} => With(x)' = With(x)
      BY <1>1, <1>3, CountMoves
    <3>2. QED
      BY <3>1
  <2>2. /\ metrics'.failed = metrics.failed + 1 /\ metrics'.completed = metrics.completed
        /\ metrics'.cancelled = metrics.cancelled /\ metrics'.submitted = metrics.submitted
    BY <1>3 DEF TypeOK, Metrics
  <2>3. retries[t] = MaxRetries[t]
    <3>1. retries[t] \in Nat /\ MaxRetries[t] \in Nat /\ retries[t] <= MaxRetries[t]
      BY QueueAssumption DEF TypeOK
    <3>2. QED
      BY <1>3, <3>1
  <2>4. \A u \in With("FAILED")' : u \in With("FAILED") \/ u = t
    BY <1>3 DEF With, TypeOK
  <2>5. QED
    BY <2>1, <2>2, <2>3, <2>4 DEF MetricsMatchStatuses
<1>4. QED
  BY <1>2, <1>3

\* Nothing is counted that the statuses should show.
LEMMA SameCounts ==
    ASSUME TypeOK, MetricsMatchStatuses, NEW t \in Task,
           status[t] \in {"PENDING", "RUNNING"}, status' = [status EXCEPT ![t] = "PENDING"],
           \A u \in Task \ {t} : retries'[u] = retries[u],
           metrics' = metrics \/ metrics' = [metrics EXCEPT !.retried = @ + 1]
    PROVE  MetricsMatchStatuses'
<1>1. /\ metrics'.completed = metrics.completed /\ metrics'.failed = metrics.failed
      /\ metrics'.cancelled = metrics.cancelled /\ metrics'.submitted = metrics.submitted
  BY DEF TypeOK, Metrics
<1>2. /\ With("COMPLETED")' = With("COMPLETED") /\ With("FAILED")' = With("FAILED")
      /\ With("CANCELLED")' = With("CANCELLED") /\ With("unknown")' = With("unknown")
      /\ t \notin With("FAILED")
  BY DEF TypeOK, With
<1>3. \A u \in With("FAILED") : u \in Task \ {t}
  BY <1>2 DEF With
<1>4. QED
  BY <1>1, <1>2, <1>3 DEF MetricsMatchStatuses

-------------------------------------------------------------------------------
(* One lemma per action.                                                        *)

LEMMA InitInvariant == Init => IInv
<1> SUFFICES ASSUME Init PROVE IInv
  OBVIOUS
<1>1. TypeOK
  <2>1. created \in Seq(Task)
    BY EmptySeq DEF Init
  <2>2. \A t \in Task : 0 <= MaxRetries[t]
    BY QueueAssumption
  <2>3. metrics \in Metrics
    BY DEF Init, Metrics
  <2>4. QED
    BY <2>1, <2>2, <2>3 DEF Init, TypeOK, Status, Place
<1>2. Places /\ Waiting /\ Queued /\ Held /\ Interrupts /\ Told
  BY DEF Init, Places, Waiting, Queued, Held, Interrupts, Told, Holding, Holds
<1>3. /\ With("COMPLETED") = {} /\ With("FAILED") = {} /\ With("CANCELLED") = {}
      /\ Task \ With("unknown") = {}
  BY DEF Init, With
<1>4. MetricsMatchStatuses
  <2>1. /\ Cardinality(With("COMPLETED")) = 0 /\ Cardinality(With("FAILED")) = 0
        /\ Cardinality(With("CANCELLED")) = 0 /\ Cardinality(Task \ With("unknown")) = 0
    BY <1>3, FS_EmptySet
  <2>2. QED
    BY <1>3, <2>1 DEF Init, MetricsMatchStatuses
<1>5. QED
  BY <1>1, <1>2, <1>4 DEF IInv

LEMMA SubmitType ==
    ASSUME TypeOK, NEW t \in Task
    PROVE  Append(created, t) \in Seq(Task) /\ ToSet(Append(created, t)) = ToSet(created) \cup {t}
<1>1. /\ created \in Seq(Task) /\ Append(created, t) \in Seq(Task)
      /\ Len(created) \in Nat /\ Len(Append(created, t)) = Len(created) + 1
      /\ DOMAIN created = 1 .. Len(created)
      /\ DOMAIN Append(created, t) = 1 .. (Len(created) + 1)
      /\ \A i \in 1 .. Len(created) : Append(created, t)[i] = created[i]
      /\ Append(created, t)[Len(created) + 1] = t
  BY AppendProperties, LenProperties DEF TypeOK
<1>2. QED
  BY <1>1 DEF ToSet

\* What enters the queue has just been registered.
LEMMA EnterKeeps ==
    ASSUME IInv, NEW t \in Task, Entered(t),
           status[t] = "unknown",
           created' \in Seq(Task), t \in ToSet(created)', ToSet(created) \subseteq ToSet(created)',
           putting' = putting \ {t},
           UNCHANGED <<retries, loop, owner, cancels>>
    PROVE  IInv'
<1> USE DEF IInv
<1>1. /\ queue' = queue \cup {t} /\ status' = [status EXCEPT ![t] = "PENDING"]
      /\ callback' = [callback EXCEPT ![t] = IF t \in WithCallback THEN "set" ELSE @]
      /\ metrics' = [metrics EXCEPT !.submitted = @ + 1]
      /\ UNCHANGED <<retries, running, future, pc, job, interrupt, shutdown, stopping, starts, stops, cancels>>
  BY DEF Entered, loop, owner
<1>2. TypeOK'
  <2>1. metrics' \in Metrics
    BY <1>1, MetricsType DEF TypeOK
  <2>2. callback' \in [Task -> {"none", "set", "success", "failure"}]
    BY <1>1 DEF TypeOK
  <2>3. QED
    BY <1>1, <2>1, <2>2 DEF TypeOK, Status
<1>3. t \notin running
  <2>1. ASSUME NEW w \in Worker, Holds(w, t)
        PROVE  status[t] # "unknown"
    BY <2>1 DEF Held, Holds, Holding
  <2>2. QED
    BY <2>1 DEF Places
<1>4. Places'
  BY <1>1, <1>3 DEF Places, Holds
<1>5. Waiting'
  BY <1>1 DEF Waiting, TypeOK
<1>6. Queued'
  BY <1>1 DEF Queued, TypeOK, Holds
<1>7. Held' /\ Interrupts'
  BY <1>1, <1>3 DEF Held, Interrupts, TypeOK, Places, Holding
<1>8. Told'
  BY <1>1 DEF Told, TypeOK
<1>9. MetricsMatchStatuses'
  BY <1>1, RegisteredCounts DEF TypeOK
<1>10. QED
  BY <1>2, <1>4, <1>5, <1>6, <1>7, <1>8, <1>9

LEMMA SubmitKeeps ==
    ASSUME IInv, NEW t \in Task, Submit(t) \/ SubmitPut(t)
    PROVE  IInv'
<1> USE DEF IInv
<1>1. CASE Submit(t) /\ Full
  <2>1. /\ created' = Append(created, t) /\ putting' = putting \cup {t} /\ t \notin ToSet(created)
        /\ UNCHANGED <<queue, status, callback, metrics, retries, running, future, pc, job,
                       interrupt, shutdown, stopping, starts, stops, cancels>>
    BY <1>1 DEF Submit, loop, owner
  <2>2. created' \in Seq(Task) /\ ToSet(created') = ToSet(created) \cup {t}
    BY <2>1, SubmitType
  <2>3. TypeOK'
    BY <2>1, <2>2 DEF TypeOK
  <2>4. Waiting'
    BY <2>1, <2>2 DEF Waiting
  <2>5. Places' /\ Queued' /\ Held' /\ Interrupts' /\ Told' /\ MetricsMatchStatuses'
    BY <2>1 DEF Places, Queued, Held, Interrupts, Told, MetricsMatchStatuses, With, Holds
  <2>6. QED
    BY <2>3, <2>4, <2>5
<1>2. CASE Submit(t) /\ ~Full
  <2>1. /\ created' = Append(created, t) /\ t \notin ToSet(created)
        /\ Entered(t) /\ putting' = putting /\ UNCHANGED <<retries, loop, owner, cancels>>
    BY <1>2 DEF Submit
  <2>2. created' \in Seq(Task) /\ ToSet(created') = ToSet(created) \cup {t}
    BY <2>1, SubmitType
  <2>3. status[t] = "unknown" /\ putting = putting \ {t}
    BY <2>1 DEF Waiting
  <2>4. QED
    BY <2>1, <2>2, <2>3, EnterKeeps
<1>3. CASE SubmitPut(t)
  <2>1. /\ t \in putting /\ Entered(t) /\ putting' = putting \ {t}
        /\ UNCHANGED <<created, retries, loop, owner, cancels>>
    BY <1>3 DEF SubmitPut
  <2>2. status[t] = "unknown" /\ t \in ToSet(created)
    BY <2>1 DEF Waiting
  <2>3. QED
    BY <2>1, <2>2, EnterKeeps DEF TypeOK
<1>4. QED
  BY <1>1, <1>2, <1>3

LEMMA CancelPendingKeeps ==
    ASSUME IInv, NEW t \in Task, CancelPending(t)
    PROVE  IInv'
<1> USE DEF IInv
<1>1. /\ status[t] = "PENDING" /\ status' = [status EXCEPT ![t] = "CANCELLED"]
      /\ metrics' = [metrics EXCEPT !.cancelled = @ + 1] /\ cancels' = cancels + 1
      /\ UNCHANGED <<created, putting, queue, retries, callback, running, future, pc, job,
                     interrupt, shutdown, stopping, starts, stops>>
  BY DEF CancelPending, loop, owner
<1>2. TypeOK'
  <2>1. metrics' \in Metrics
    BY <1>1, MetricsType DEF TypeOK
  <2>2. QED
    BY <1>1, <2>1 DEF TypeOK, Status
<1>3. Places' /\ Waiting' /\ Interrupts'
  BY <1>1 DEF Places, Waiting, Interrupts, TypeOK, Holds
<1>4. Queued'
  BY <1>1 DEF Queued, TypeOK, Holds
<1>5. Held'
  BY <1>1 DEF Held, Places, TypeOK, Holding
<1>6. Told'
  BY <1>1 DEF Told, TypeOK
<1>7. MetricsMatchStatuses'
  BY <1>1, CancelledCounts DEF TypeOK
<1>8. QED
  BY <1>2, <1>3, <1>4, <1>5, <1>6, <1>7

\* An attempt is cancelled or ends: the task stays where it is.
LEMMA AttemptKeeps ==
    ASSUME IInv, NEW t \in Task, CancelRunning(t) \/ Acquired(t) \/ FutureEnds(t)
    PROVE  IInv'
<1> USE DEF IInv
<1>1. /\ UNCHANGED <<created, putting, queue, status, retries, callback, running, pc, job,
                     interrupt, shutdown, stopping, starts, stops>>
      /\ cancels' \in Nat
      /\ metrics'.cancelled >= metrics.cancelled
      /\ metrics'.completed = metrics.completed /\ metrics'.failed = metrics.failed
      /\ metrics'.submitted = metrics.submitted
  BY DEF CancelRunning, Acquired, FutureEnds, owner, TypeOK, Metrics
<1>2. \E f \in {"active", "cancelling", "result", "error", "cancelled"} :
        /\ future' = [future EXCEPT ![t] = f]
        /\ future[t] # "none"
        /\ f # future[t] => future[t] \in {"waiting", "active", "cancelling"}
        /\ future[t] = "cancelling" => f \in {"cancelling", "cancelled"}
        /\ future[t] = "cancelled" => f = "cancelled"
  BY DEF CancelRunning, Acquired, FutureEnds, Interrupted, TypeOK, Places
<1>3. TypeOK'
  <2>1. metrics' = metrics \/ metrics' = [metrics EXCEPT !.cancelled = @ + 1]
    BY DEF CancelRunning, Acquired, FutureEnds
  <2>2. metrics' \in Metrics
    BY <2>1, MetricsType DEF TypeOK
  <2>3. QED
    BY <1>1, <1>2, <2>2 DEF TypeOK
<1>4. Places'
  BY <1>1, <1>2 DEF Places, TypeOK, Holds
<1>5. Waiting' /\ Queued' /\ Interrupts' /\ Told'
  BY <1>1 DEF Waiting, Queued, Interrupts, Told, Holds
<1>6. Held'
  BY <1>1, <1>2 DEF Held, TypeOK, Places, Holding
<1>7. MetricsMatchStatuses'
  <2>1. \A x : With(x)' = With(x)
    BY <1>1 DEF With
  <2>2. /\ Cardinality(With("CANCELLED")) \in Nat
        /\ metrics.cancelled \in Nat /\ metrics'.cancelled \in Nat
    BY <1>3, CountsAreNaturals DEF With, TypeOK, Metrics
  <2>3. metrics'.cancelled >= Cardinality(With("CANCELLED")')
    BY <1>1, <2>1, <2>2 DEF MetricsMatchStatuses
  <2>4. QED
    BY <1>1, <2>1, <2>3 DEF MetricsMatchStatuses
<1>8. QED
  BY <1>3, <1>4, <1>5, <1>6, <1>7

\* get() returns the first task: a cancelled one is dropped.
LEMMA TakeKeeps ==
    ASSUME IInv, NEW w \in Worker, NEW t \in Task, Take(w, t)
    PROVE  IInv'
<1> USE DEF IInv
<1>1. /\ pc[w] = "get" /\ w \notin interrupt /\ t \in queue /\ queue' = queue \ {t}
      /\ UNCHANGED <<created, putting, retries, callback, interrupt, metrics,
                     shutdown, stopping, starts, stops, cancels>>
  BY DEF Take, owner
<1>2. CASE status[t] = "CANCELLED"
  <2>1. UNCHANGED <<status, running, future, pc, job>>
    BY <1>2 DEF Take
  <2>2. TypeOK' /\ Places' /\ Waiting' /\ Held' /\ Interrupts' /\ Told'
    BY <1>1, <2>1 DEF TypeOK, Places, Waiting, Held, Interrupts, Told, Holds
  <2>3. Queued'
    BY <1>1, <1>2, <2>1 DEF Queued, Holds
  <2>4. MetricsMatchStatuses'
    BY <1>1, <2>1 DEF MetricsMatchStatuses, With
  <2>5. QED
    BY <2>2, <2>3, <2>4
<1>3. CASE status[t] # "CANCELLED"
  <2>1. /\ status' = [status EXCEPT ![t] = "RUNNING"] /\ running' = running \cup {t}
        /\ future' = [future EXCEPT ![t] = IF RateLimited THEN "waiting" ELSE "active"]
        /\ pc' = [pc EXCEPT ![w] = "execute"] /\ job' = [job EXCEPT ![w] = t]
        /\ status[t] = "PENDING" /\ t \notin running
    BY <1>1, <1>3 DEF Take, Queued, Places
  <2>2. TypeOK'
    BY <1>1, <2>1 DEF TypeOK, Status, Place, Holding
  <2>3. \A v \in Worker : pc[v] \in Holding => v # w /\ job[v] # t
    BY <1>1, <2>1 DEF Places, Holding
  <2>4. \A v \in Worker : v # w => pc'[v] = pc[v] /\ job'[v] = job[v]
    BY <2>1 DEF TypeOK
  <2>5. pc'[w] = "execute" /\ job'[w] = t
    BY <2>1 DEF TypeOK
  <2>6. Places'
    BY <1>1, <2>1, <2>3, <2>4, <2>5 DEF Places, Holds, Holding, TypeOK
  <2>7. Waiting' /\ Interrupts' /\ Told'
    BY <1>1, <2>1, <2>4, <2>5 DEF Waiting, Interrupts, Told, TypeOK
  <2>8. Queued'
    BY <1>1, <2>1, <2>3, <2>4, <2>5 DEF Queued, Holds, Holding, TypeOK
  <2>9. Held'
    BY <1>1, <2>1, <2>3, <2>4, <2>5 DEF Held, Holding, TypeOK, Places
  <2>10. MetricsMatchStatuses'
    BY <1>1, <2>1 DEF MetricsMatchStatuses, With, TypeOK
  <2>11. QED
    BY <2>2, <2>6, <2>7, <2>8, <2>9, <2>10
<1>4. QED
  BY <1>2, <1>3

LEMMA HeldTask ==
    ASSUME IInv, NEW w \in Worker, pc[w] \in Holding
    PROVE  /\ job[w] \in Task /\ job[w] \in running /\ job[w] \notin queue
           /\ \A v \in Worker : v # w /\ pc[v] \in Holding => job[v] # job[w]
           /\ status[job[w]] \in {"PENDING", "RUNNING", "CANCELLED"}
BY DEF IInv, TypeOK, Places, Held, Holding

\* What _execute_task leaves behind: a settled task, or one that is queued again.
LEMMA LeavingKeeps ==
    ASSUME IInv, NEW w \in Worker, pc[w] \in Holding,
           NEW calling \in Calling, NEW next \in {"get", "dead"}, NEW s \in Status,
           Leave(w, job[w], calling, next), status' = [status EXCEPT ![job[w]] = s],
           \/ s \in Final /\ queue' = queue /\ (s = "COMPLETED" => status[job[w]] = "RUNNING")
           \/ s = status[job[w]] /\ pc[w] # "execute" /\ queue' = queue \cup {job[w]},
           interrupt' = interrupt \ {w}, metrics' \in Metrics,
           UNCHANGED <<created, putting, retries, owner, cancels>>
    PROVE  TypeOK' /\ Places' /\ Waiting' /\ Queued' /\ Held' /\ Interrupts' /\ Told'
<1> USE DEF IInv
<1> DEFINE t == job[w]
<1>1. /\ t \in Task /\ t \in running /\ t \notin queue
      /\ \A v \in Worker : v # w /\ pc[v] \in Holding => job[v] # t
      /\ status[t] \in {"PENDING", "RUNNING", "CANCELLED"}
  BY HeldTask
<1>2. /\ running' = running \ {t} /\ future' = [future EXCEPT ![t] = "none"]
      /\ job' = [job EXCEPT ![w] = NoTask]
      /\ callback' = [callback EXCEPT ![t] =
                        IF @ # "set" THEN @
                        ELSE IF status'[t] = "COMPLETED" THEN "success" ELSE "failure"]
      /\ pc' = [pc EXCEPT ![w] = IF callback[t] = "set" THEN calling ELSE next]
      /\ UNCHANGED <<shutdown, stopping, starts, stops>>
  BY DEF Leave, owner
<1> HIDE DEF t
<1>3. pc'[w] \notin Holding /\ \A v \in Worker : v # w => pc'[v] = pc[v] /\ job'[v] = job[v]
  BY <1>2 DEF TypeOK, Calling, Holding
<1>4. status'[t] = s /\ \A u \in Task : u # t => status'[u] = status[u]
  BY <1>1 DEF TypeOK, t
<1>5. TypeOK'
  <2>1. pc' \in [Worker -> Place] /\ job' \in [Worker -> Task \cup {NoTask}]
    BY <1>2 DEF TypeOK, Place, Calling
  <2>2. callback' \in [Task -> {"none", "set", "success", "failure"}]
    BY <1>1, <1>2 DEF TypeOK
  <2>3. status' \in [Task -> Status]
    BY DEF TypeOK
  <2>4. queue' \subseteq Task /\ running' \subseteq Task /\ interrupt' \subseteq Worker
    BY <1>1, <1>2 DEF TypeOK, t
  <2>5. QED
    BY <1>2, <2>1, <2>2, <2>3, <2>4 DEF TypeOK
<1>6. Places'
  <2>1. \A v \in Worker : pc'[v] \in Holding => v # w /\ job'[v] \in running'
    BY <1>1, <1>2, <1>3 DEF Places
  <2>2. \A u \in running' : \E v \in Worker : Holds(v, u)'
    BY <1>1, <1>2, <1>3 DEF Places, Holds, t
  <2>3. running' \cap queue' = {}
    BY <1>1, <1>2 DEF Places, t
  <2>4. \A u \in Task : future'[u] = "none" <=> u \notin running'
    BY <1>1, <1>2 DEF Places, TypeOK
  <2>5. QED
    BY <1>3, <2>1, <2>2, <2>3, <2>4 DEF Places
<1>7. Waiting'
  BY <1>1, <1>4 DEF Waiting, TypeOK
<1>8. Queued'
  <2>1. \A u \in queue' : status'[u] \in {"PENDING", "CANCELLED"}
    BY <1>1, <1>4 DEF Queued, Held, t, Holding, TypeOK
  <2>2. ASSUME NEW u \in Task, status'[u] = "PENDING", u \notin queue'
        PROVE  \E v \in Worker : Holds(v, u)' /\ pc'[v] # "execute"
    <3>1. u # t
      BY <1>4, <2>2 DEF Final, t
    <3>2. PICK v \in Worker : Holds(v, u) /\ pc[v] # "execute"
      BY <1>4, <2>2, <3>1 DEF Queued
    <3>3. QED
      BY <1>3, <3>1, <3>2 DEF Holds, t
  <2>3. ASSUME NEW u \in Task, status'[u] = "RUNNING"
        PROVE  \E v \in Worker : Holds(v, u)' /\ pc'[v] = "execute"
    <3>1. u # t
      BY <1>4, <2>3 DEF Final, t, Held, Holding
    <3>2. PICK v \in Worker : Holds(v, u) /\ pc[v] = "execute"
      BY <1>4, <2>3, <3>1 DEF Queued
    <3>3. QED
      BY <1>3, <3>1, <3>2 DEF Holds, t
  <2>4. QED
    BY <2>1, <2>2, <2>3 DEF Queued
<1>9. Held'
  <2>1. ASSUME NEW v \in Worker, pc'[v] \in Holding
        PROVE  /\ v # w /\ pc'[v] = pc[v] /\ job'[v] = job[v] /\ job[v] \in Task
               /\ status'[job[v]] = status[job[v]] /\ future'[job[v]] = future[job[v]]
               /\ v \in interrupt' <=> v \in interrupt
    BY <1>1, <1>2, <1>3, <1>4, <2>1, HeldTask DEF TypeOK
  <2>2. QED
    BY <2>1 DEF Held, Holding
<1>10. Interrupts'
  BY <1>3 DEF Interrupts, TypeOK
<1>11. Told'
  <2>1. \A u \in Task : u # t => callback'[u] = callback[u]
    BY <1>2 DEF TypeOK
  <2>2. callback'[t] = IF callback[t] # "set" THEN callback[t]
                       ELSE IF s = "COMPLETED" THEN "success" ELSE "failure"
    BY <1>1, <1>2, <1>4 DEF TypeOK
  <2>3. \/ s = "COMPLETED" /\ status[t] = "RUNNING"
        \/ s \in {"FAILED", "CANCELLED"}
        \/ s = status[t] /\ retries[t] > 0 /\ s # "unknown" /\ s # "COMPLETED"
    BY <1>1 DEF Final, t, Held, Holding
  <2>4. QED
    BY <1>1, <1>4, <2>1, <2>2, <2>3 DEF Told
<1>12. QED
  BY <1>5, <1>6, <1>7, <1>8, <1>9, <1>10, <1>11

\* await task_future returns, or raises for the last time.
LEMMA SettleKeeps ==
    ASSUME IInv, NEW w \in Worker, Complete(w) \/ FailForGood(w)
    PROVE  IInv'
<1>1. /\ pc[w] = "execute" /\ w \notin interrupt
      /\ future[job[w]] \in {"result", "error"}
      /\ Leave(w, job[w], "callback", AfterTask)
      /\ UNCHANGED <<created, putting, queue, retries, interrupt, owner, cancels>>
      /\ \/ /\ status' = [status EXCEPT ![job[w]] = "COMPLETED"]
            /\ metrics' = [metrics EXCEPT !.completed = @ + 1]
         \/ /\ status' = [status EXCEPT ![job[w]] = "FAILED"]
            /\ metrics' = [metrics EXCEPT !.failed = @ + 1]
            /\ retries[job[w]] >= MaxRetries[job[w]]
  BY DEF Complete, FailForGood
<1>2. job[w] \in Task /\ status[job[w]] = "RUNNING"
  BY <1>1, HeldTask DEF IInv, Held, Holding
<1>3. /\ pc[w] \in Holding /\ "callback" \in Calling /\ AfterTask \in {"get", "dead"}
      /\ "COMPLETED" \in Status \cap Final /\ "FAILED" \in Status \cap Final
      /\ interrupt' = interrupt \ {w}
  BY <1>1 DEF Holding, Calling, AfterTask, Status, Final
<1>4. TypeOK' /\ Places' /\ Waiting' /\ Queued' /\ Held' /\ Interrupts' /\ Told'
  <2>1. metrics' \in Metrics
    BY <1>1, MetricsType DEF IInv, TypeOK
  <2>2. QED
    BY <1>1, <1>2, <1>3, <2>1, LeavingKeeps
<1>5. MetricsMatchStatuses'
  BY <1>1, <1>2, SettledCounts DEF IInv
<1>6. QED
  BY <1>4, <1>5 DEF IInv

\* A retry goes back into the queue.
LEMMA PutBackKeeps ==
    ASSUME IInv, NEW w \in Worker, pc[w] \in {"backoff", "requeue"}, w \notin interrupt,
           PutBack(w, job[w]),
           UNCHANGED <<created, putting, retries, interrupt, owner, metrics, cancels>>
    PROVE  IInv'
<1>1. job[w] \in Task /\ status' = [status EXCEPT ![job[w]] = status[job[w]]]
  BY HeldTask DEF IInv, TypeOK, PutBack, Holding
<1>2. /\ pc[w] \in Holding /\ "callback" \in Calling /\ AfterTask \in {"get", "dead"}
      /\ interrupt' = interrupt \ {w} /\ metrics' \in Metrics /\ status[job[w]] \in Status
      /\ Leave(w, job[w], "callback", AfterTask) /\ queue' = queue \cup {job[w]}
      /\ pc[w] # "execute"
  BY <1>1 DEF Holding, Calling, AfterTask, PutBack, IInv, TypeOK
<1>3. TypeOK' /\ Places' /\ Waiting' /\ Queued' /\ Held' /\ Interrupts' /\ Told'
  BY <1>1, <1>2, LeavingKeeps
<1>4. MetricsMatchStatuses'
  BY DEF IInv, PutBack, MetricsMatchStatuses, With
<1>5. QED
  BY <1>3, <1>4 DEF IInv

\* The sleep of a retry is over; with the queue full the worker waits.
LEMMA RetryKeeps ==
    ASSUME IInv, NEW w \in Worker, BackoffOver(w) \/ Requeue(w)
    PROVE  IInv'
<1>1. CASE BackoffOver(w) /\ Full
  <2>1. /\ pc[w] = "backoff" /\ w \notin interrupt /\ pc' = [pc EXCEPT ![w] = "requeue"]
        /\ UNCHANGED <<queue, status, callback, running, future, job, created, putting, retries,
                       interrupt, shutdown, stopping, starts, stops, metrics, cancels>>
    BY <1>1 DEF BackoffOver, owner
  <2>2. /\ pc'[w] = "requeue" /\ \A v \in Worker : v # w => pc'[v] = pc[v]
        /\ \A v \in Worker : pc'[v] \in Holding <=> pc[v] \in Holding
    BY <2>1 DEF IInv, TypeOK, Holding
  <2>3. TypeOK'
    BY <2>1 DEF IInv, TypeOK, Place, Holding
  <2>4. Places' /\ Waiting' /\ Told' /\ MetricsMatchStatuses'
    BY <2>1, <2>2 DEF IInv, Places, Waiting, Told, MetricsMatchStatuses, With, Holds
  <2>5. Queued'
    BY <2>1, <2>2 DEF IInv, Queued, Holds
  <2>6. Held' /\ Interrupts'
    BY <2>1, <2>2 DEF IInv, Held, Interrupts
  <2>7. QED
    BY <2>3, <2>4, <2>5, <2>6 DEF IInv
<1>2. CASE BackoffOver(w) /\ ~Full
  BY <1>2, PutBackKeeps DEF BackoffOver
<1>3. CASE Requeue(w)
  BY <1>3, PutBackKeeps DEF Requeue
<1>4. QED
  BY <1>1, <1>2, <1>3

LEMMA FailAndRetryKeeps ==
    ASSUME IInv, NEW w \in Worker, FailAndRetry(w)
    PROVE  IInv'
<1> DEFINE t == job[w]
<1>1. /\ pc[w] = "execute" /\ w \notin interrupt /\ future[t] = "error"
      /\ retries[t] < MaxRetries[t] /\ retries' = [retries EXCEPT ![t] = @ + 1]
      /\ metrics' = [metrics EXCEPT !.retried = @ + 1]
      /\ status' = [status EXCEPT ![t] = "PENDING"] /\ pc' = [pc EXCEPT ![w] = "backoff"]
      /\ UNCHANGED <<created, putting, queue, callback, running, future, job, interrupt,
                     shutdown, stopping, starts, stops, cancels>>
  BY DEF FailAndRetry, owner
<1>2. /\ t \in Task /\ t \in running /\ t \notin queue /\ status[t] = "RUNNING"
      /\ \A v \in Worker : v # w /\ pc[v] \in Holding => job[v] # t
  BY <1>1, HeldTask DEF IInv, Held, Holding
<1> HIDE DEF t
<1>3. /\ pc'[w] = "backoff" /\ \A v \in Worker : v # w => pc'[v] = pc[v]
      /\ \A v \in Worker : pc'[v] \in Holding <=> pc[v] \in Holding
  BY <1>1 DEF IInv, TypeOK, Holding
<1>4. /\ status'[t] = "PENDING" /\ \A u \in Task : u # t => status'[u] = status[u]
      /\ retries'[t] > 0 /\ \A u \in Task : u # t => retries'[u] = retries[u]
  BY <1>1, <1>2 DEF IInv, TypeOK
<1>5. TypeOK'
  <2>1. metrics' \in Metrics
    BY <1>1, MetricsType DEF IInv, TypeOK
  <2>2. retries' \in [Task -> Nat] /\ \A u \in Task : retries'[u] <= MaxRetries[u]
    <3>1. retries \in [Task -> Nat] /\ MaxRetries \in [Task -> Nat]
          /\ \A u \in Task : retries[u] <= MaxRetries[u]
      BY QueueAssumption DEF IInv, TypeOK
    <3>2. retries[t] \in Nat /\ MaxRetries[t] \in Nat /\ retries[t] + 1 <= MaxRetries[t]
      BY <1>1, <1>2, <3>1
    <3>3. retries'[t] = retries[t] + 1
      BY <1>1, <1>2, <3>1
    <3>4. QED
      BY <1>1, <1>4, <3>1, <3>2, <3>3
  <2>3. QED
    BY <1>1, <2>1, <2>2 DEF IInv, TypeOK, Status, Place, Holding
<1>6. Places'
  BY <1>1, <1>3 DEF IInv, Places, Holds
<1>7. Waiting' /\ Interrupts'
  BY <1>1, <1>2, <1>3, <1>4 DEF IInv, Waiting, Interrupts, TypeOK
<1>8. Queued'
  BY <1>1, <1>2, <1>3, <1>4 DEF IInv, Queued, Holds, t, TypeOK, Holding
<1>9. Held'
  BY <1>1, <1>2, <1>3, <1>4 DEF IInv, Held, Places, TypeOK, Holding, t
<1>10. Told'
  BY <1>1, <1>2, <1>4 DEF IInv, Told
<1>11. MetricsMatchStatuses'
  BY <1>1, <1>2, <1>4, SameCounts DEF IInv
<1>12. QED
  BY <1>5, <1>6, <1>7, <1>8, <1>9, <1>10, <1>11 DEF IInv

\* A CancelledError reaches a worker that holds a task.
LEMMA CancelledKeeps ==
    ASSUME IInv, NEW w \in Worker, CancelledInExecute(w) \/ CancelledInRetry(w)
    PROVE  IInv'
<1>1. /\ pc[w] \in Holding /\ "lastcall" \in Calling /\ "dead" \in {"get", "dead"}
      /\ "CANCELLED" \in Status \cap Final
      /\ interrupt' = interrupt \ {w} /\ Leave(w, job[w], "lastcall", "dead")
      /\ UNCHANGED <<created, putting, queue, retries, owner, cancels>>
  BY DEF CancelledInExecute, CancelledInRetry, Holding, Calling, Status, Final
<1>2. job[w] \in Task /\ status[job[w]] \in {"PENDING", "RUNNING", "CANCELLED"}
  BY <1>1, HeldTask
<1>3. CASE CancelledInExecute(w)
  <2>1. /\ status' = [status EXCEPT ![job[w]] = "CANCELLED"]
        /\ metrics' = [metrics EXCEPT !.cancelled = @ + 1]
    BY <1>3 DEF CancelledInExecute
  <2>2. metrics' \in Metrics
    BY <2>1, MetricsType DEF IInv, TypeOK
  <2>3. TypeOK' /\ Places' /\ Waiting' /\ Queued' /\ Held' /\ Interrupts' /\ Told'
    BY <1>1, <2>1, <2>2, LeavingKeeps
  <2>4. MetricsMatchStatuses'
    BY <1>1, <1>2, <2>1, CancelledCounts DEF IInv
  <2>5. QED
    BY <2>3, <2>4 DEF IInv
<1>4. CASE CancelledInRetry(w)
  <2>1. status[job[w]] = "CANCELLED" /\ status' = status /\ metrics' = metrics
    BY <1>4 DEF CancelledInRetry, IInv, Held
  <2>2. status' = [status EXCEPT ![job[w]] = "CANCELLED"] /\ metrics' \in Metrics
    BY <1>2, <2>1 DEF IInv, TypeOK
  <2>3. TypeOK' /\ Places' /\ Waiting' /\ Queued' /\ Held' /\ Interrupts' /\ Told'
    BY <1>1, <2>2, LeavingKeeps
  <2>4. MetricsMatchStatuses'
    BY <1>1, <2>1 DEF IInv, MetricsMatchStatuses, With
  <2>5. QED
    BY <2>3, <2>4 DEF IInv
<1>5. QED
  BY <1>3, <1>4

\* A worker without a task moves, or the whole pool does.
LEMMA IdleKeeps ==
    ASSUME IInv, (\E w \in Worker : CancelledElsewhere(w) \/ CallbackReturns(w)) \/ Start \/ StopReturns
    PROVE  IInv'
<1>1. /\ UNCHANGED <<created, putting, queue, status, retries, callback, running, future, job,
                     metrics, cancels>>
      /\ interrupt' \subseteq interrupt
  BY DEF CancelledElsewhere, CallbackReturns, Start, StopReturns, owner
<1>2. /\ pc' \in [Worker -> Place]
      /\ \A v \in Worker : \/ pc'[v] = pc[v]
                           \/ pc[v] \notin Holding /\ pc'[v] \notin Holding
  BY DEF CancelledElsewhere, CallbackReturns, Start, StopReturns, AfterTask, NoPool, Calling,
         Holding, Place, IInv, TypeOK
<1>3. \A v \in interrupt' : pc'[v] \notin {"off", "dead"}
  BY DEF CancelledElsewhere, CallbackReturns, Start, StopReturns, NoPool, Calling, AfterTask,
         IInv, TypeOK, Interrupts
<1>4. TypeOK' /\ Interrupts'
  <2>1. shutdown' \in {shutdown, FALSE} /\ stopping' \in {stopping, FALSE}
        /\ starts' \in {starts, starts + 1} /\ stops' = stops
    BY DEF CancelledElsewhere, CallbackReturns, Start, StopReturns, owner
  <2>2. /\ shutdown' \in BOOLEAN /\ stopping' \in BOOLEAN
        /\ starts' \in Nat /\ stops' \in Nat
    <3>1. /\ shutdown \in BOOLEAN /\ stopping \in BOOLEAN /\ FALSE \in BOOLEAN
          /\ starts \in Nat /\ starts + 1 \in Nat /\ stops \in Nat
      BY DEF IInv, TypeOK
    <3>2. QED
      BY <2>1, <3>1, Zenon
  <2>3. QED
    BY <1>1, <1>2, <1>3, <2>2 DEF IInv, TypeOK, Interrupts
<1>5. Places'
  BY <1>1, <1>2 DEF IInv, Places, Holds
<1>6. Waiting' /\ Told' /\ MetricsMatchStatuses'
  BY <1>1 DEF IInv, Waiting, Told, MetricsMatchStatuses, With
<1>7. Queued'
  BY <1>1, <1>2 DEF IInv, Queued, Holds, Holding
<1>8. Held'
  <2>1. ASSUME NEW v \in Worker, pc'[v] \in Holding
        PROVE  pc'[v] = pc[v] /\ (v \in interrupt' => v \in interrupt)
               /\ (pc[v] = "execute" /\ v \in interrupt => v \in interrupt')
    BY <1>1, <1>2, <2>1 DEF CancelledElsewhere, CallbackReturns, Start, StopReturns, Calling, Holding
  <2>2. QED
    BY <1>1, <2>1 DEF IInv, Held, Holding
<1>9. QED
  BY <1>4, <1>5, <1>6, <1>7, <1>8 DEF IInv

\* stop() cancels what the workers await and marks their tasks.
LEMMA StopKeeps ==
    ASSUME IInv, Stop
    PROVE  IInv'
<1>1. /\ stops' = stops + 1 /\ shutdown' = TRUE /\ stopping' = TRUE
      /\ interrupt' = interrupt \cup InterruptedWorkers
      /\ future' = [t \in Task |-> IF t \in running THEN Interrupted(t) ELSE future[t]]
      /\ status' = [t \in Task |-> IF t \in running THEN "CANCELLED" ELSE status[t]]
      /\ metrics' = [metrics EXCEPT !.cancelled = @ + Cardinality(running)]
      /\ UNCHANGED <<created, putting, queue, retries, callback, running, pc, job, starts, cancels>>
  BY DEF Stop
<1>2. running \subseteq Task /\ IsFiniteSet(running) /\ Cardinality(running) \in Nat
  BY CountsAreNaturals DEF IInv, TypeOK
<1>3. \A t \in running : status[t] \in {"PENDING", "RUNNING", "CANCELLED"}
  BY HeldTask DEF IInv, Places, Holds
<1>4. TypeOK'
  <2>1. metrics' \in Metrics
    BY <1>1, <1>2, MetricsType DEF IInv, TypeOK
  <2>2. InterruptedWorkers \subseteq Worker
    BY DEF InterruptedWorkers
  <2>3. future' \in [Task -> {"none", "waiting", "active", "cancelling",
                                "result", "error", "cancelled"}]
    BY <1>1 DEF IInv, TypeOK, Interrupted
  <2>4. status' \in [Task -> Status] /\ stops' \in Nat
    BY <1>1 DEF IInv, TypeOK, Status
  <2>5. QED
    BY <1>1, <2>1, <2>2, <2>3, <2>4 DEF IInv, TypeOK
<1>5. \A t \in Task : /\ t \in running => /\ status'[t] = "CANCELLED"
                                          /\ future'[t] = IF future[t] \in {"waiting", "active"}
                                                          THEN "cancelling" ELSE future[t]
                      /\ t \notin running => status'[t] = status[t] /\ future'[t] = future[t]
  BY <1>1 DEF Interrupted
<1>6. Places'
  <2>1. \A t \in Task : future'[t] = "none" <=> future[t] = "none"
    BY <1>5
  <2>2. QED
    BY <1>1, <2>1 DEF IInv, Places, Holds
<1>7. Waiting'
  BY <1>1, <1>3, <1>5 DEF IInv, Waiting, TypeOK
<1>8. Queued'
  <2>1. \A t \in queue : t \notin running /\ t \in Task
    BY DEF IInv, Places, TypeOK
  <2>2. \A t \in Task : status'[t] \in {"PENDING", "RUNNING"} => status'[t] = status[t]
    BY <1>5
  <2>3. QED
    BY <1>1, <1>5, <2>1, <2>2 DEF IInv, Queued, Holds
<1>9. Held'
  <2> SUFFICES ASSUME NEW w \in Worker, pc[w] \in Holding
               PROVE  /\ status'[job[w]] = "CANCELLED"
                      /\ pc[w] = "execute" =>
                           future'[job[w]] \in {"cancelling", "cancelled"} \/ w \in interrupt'
                      /\ pc[w] # "execute" => future'[job[w]] = "error" /\ retries'[job[w]] > 0
    BY <1>1 DEF Held, Holding
  <2>1. job[w] \in Task /\ job[w] \in running /\ status'[job[w]] = "CANCELLED"
    BY <1>5, HeldTask
  <2>2. CASE pc[w] = "execute"
    <3>1. future[job[w]] \in {"waiting", "active", "cancelling"} \/ w \in interrupt'
      BY <1>1, <2>2 DEF InterruptedWorkers
    <3>2. QED
      BY <1>5, <2>1, <2>2, <3>1
  <2>3. CASE pc[w] # "execute"
    BY <1>1, <1>5, <2>1, <2>3 DEF IInv, Held, Holding
  <2>4. QED
    BY <2>1, <2>2, <2>3
<1>10. Interrupts'
  BY <1>1 DEF IInv, Interrupts, InterruptedWorkers, Calling, TypeOK
<1>11. Told'
  BY <1>1, <1>3, <1>5 DEF IInv, Told
<1>12. MetricsMatchStatuses'
  <2>1. /\ metrics'.completed = metrics.completed /\ metrics'.failed = metrics.failed
        /\ metrics'.cancelled = metrics.cancelled + Cardinality(running)
        /\ metrics'.submitted = metrics.submitted /\ metrics.cancelled \in Nat
    BY <1>1 DEF IInv, TypeOK, Metrics
  <2>2. /\ With("COMPLETED")' = With("COMPLETED") /\ With("FAILED")' = With("FAILED")
        /\ With("unknown")' = With("unknown")
    BY <1>3, <1>5 DEF With
  <2>3. With("CANCELLED")' = With("CANCELLED") \cup running
    BY <1>2, <1>5 DEF With
  <2>4. /\ IsFiniteSet(With("CANCELLED")) /\ Cardinality(With("CANCELLED")) \in Nat
        /\ Cardinality(With("CANCELLED") \cap running) \in Nat
    BY CountsAreNaturals DEF With
  <2>5. Cardinality(With("CANCELLED") \cup running) =
          Cardinality(With("CANCELLED")) + Cardinality(running)
            - Cardinality(With("CANCELLED") \cap running)
    BY <1>2, <2>4, FS_Union
  <2>6. metrics'.cancelled >= Cardinality(With("CANCELLED")')
    <3> DEFINE before == Cardinality(With("CANCELLED"))
               both   == Cardinality(With("CANCELLED") \cap running)
               after  == Cardinality(With("CANCELLED") \cup running)
               cut    == Cardinality(running)
    <3>a. before \in Nat /\ both \in Nat /\ cut \in Nat /\ after = before + cut - both
      BY <1>2, <2>4, <2>5
    <3>b. after <= before + cut
      <4> HIDE DEF before, both, after, cut
      <4> QED  BY <3>a
    <3>1. Cardinality(With("CANCELLED")') <= Cardinality(With("CANCELLED")) + Cardinality(running)
      BY ONLY <2>3, <3>b
    <3>2. Cardinality(With("CANCELLED")') \in Nat
      BY CountsAreNaturals DEF With
    <3>3. QED
      BY <1>2, <2>1, <2>4, <3>1, <3>2 DEF IInv, MetricsMatchStatuses
  <2>7. QED
    BY <1>1, <2>1, <2>2, <2>6 DEF IInv, MetricsMatchStatuses
<1>13. QED
  BY <1>4, <1>6, <1>7, <1>8, <1>9, <1>10, <1>11, <1>12 DEF IInv

LEMMA NextInvariant ==
    ASSUME IInv, [Next]_vars
    PROVE  IInv'
<1>1. CASE UNCHANGED vars
  BY <1>1 DEF vars, IInv, TypeOK, Places, Waiting, Queued, Held, Interrupts, Told,
              MetricsMatchStatuses, With, Holds
<1>2. ASSUME NEW t \in Task,
             Submit(t) \/ SubmitPut(t) \/ CancelPending(t) \/ CancelRunning(t) \/ Acquired(t) \/ FutureEnds(t)
      PROVE  IInv'
  BY <1>2, SubmitKeeps, CancelPendingKeeps, AttemptKeeps
<1>3. ASSUME NEW w \in Worker, WorkerStep(w)
      PROVE  IInv'
  BY <1>3, TakeKeeps, SettleKeeps, FailAndRetryKeeps, RetryKeeps, CancelledKeeps, IdleKeeps
     DEF WorkerStep, Resume
<1>4. CASE Start \/ Stop \/ StopReturns
  BY <1>4, IdleKeeps, StopKeeps
<1>5. QED
  BY <1>1, <1>2, <1>3, <1>4 DEF Next

LEMMA QueueInvariant == Spec => []IInv
<1>1. IInv /\ [Next]_vars => IInv'
  BY NextInvariant
<1>2. QED
  BY <1>1, InitInvariant, PTL DEF Spec

-------------------------------------------------------------------------------
(* The theorems.                                                                *)

(* The types; no task is retried more often than its max_retries allows.       *)
THEOREM TypeCorrect == Spec => []TypeOK
<1>1. IInv => TypeOK
  BY DEF IInv
<1>2. QED
  BY <1>1, QueueInvariant, PTL

(* No two workers hold one task, nor does one hold a task that is queued, so   *)
(* that `del self._running[task.id]` of _execute_task() never raises.          *)
THEOREM PlacesCorrect == Spec => []TaskInOnePlace
<1>1. ASSUME IInv, NEW t \in Task
      PROVE  /\ Cardinality(HeldBy(t)) <= 1
             /\ t \in running <=> HeldBy(t) # {}
  <2>1. CASE t \in running
    <3>1. PICK w \in Worker : Holds(w, t)
      BY <1>1, <2>1 DEF IInv, Places
    <3>2. HeldBy(t) = {w}
      BY <1>1, <3>1 DEF IInv, Places, HeldBy, Holds
    <3>3. QED
      BY <2>1, <3>2, FS_Singleton
  <2>2. CASE t \notin running
    <3>1. HeldBy(t) = {}
      BY <1>1, <2>2 DEF IInv, Places, HeldBy
    <3>2. QED
      BY <2>2, <3>1, FS_EmptySet
  <2>3. QED
    BY <2>1, <2>2
<1>2. ASSUME IInv, NEW t \in Task
      PROVE  ~(t \in running /\ t \in queue) /\ (t \in queue \cup running => t \notin putting)
  <2>1. t \in running => status[t] # "unknown"
    BY <1>2, HeldTask DEF IInv, Places, Holds
  <2>2. t \in queue => status[t] # "unknown"
    BY <1>2 DEF IInv, Queued
  <2>3. QED
    BY <1>2, <2>1, <2>2 DEF IInv, Places, Waiting
<1>3. IInv => TaskInOnePlace
  BY <1>1, <1>2 DEF TaskInOnePlace
<1>4. QED
  BY <1>3, QueueInvariant, PTL

(* A PENDING task is queued or waits for its retry, a RUNNING one is executed, *)
(* whatever is cancelled, stopped and started again.                           *)
THEOREM TasksCorrect == Spec => []NoTaskLost
<1>1. IInv => NoTaskLost
  <2> SUFFICES ASSUME IInv, NEW t \in Task PROVE
                 /\ status[t] = "PENDING" =>
                      t \in queue \/ \E w \in HeldBy(t) : pc[w] \in {"backoff", "requeue"}
                 /\ status[t] = "RUNNING" => \E w \in HeldBy(t) : pc[w] = "execute"
    BY DEF NoTaskLost
  <2>1. QED
    BY DEF IInv, Queued, HeldBy, Holds, Holding
<1>2. QED
  BY <1>1, QueueInvariant, PTL

(* The counters agree with the statuses, and what failed has used its retries. *)
THEOREM CountersCorrect == Spec => []MetricsMatchStatuses
<1>1. IInv => MetricsMatchStatuses
  BY DEF IInv
<1>2. QED
  BY <1>1, QueueInvariant, PTL

(* After stop() nothing runs, nothing is interrupted and no attempt is left.   *)
THEOREM StopCorrect == Spec => []StoppedIsQuiet
<1>1. ASSUME IInv, NoPool
      PROVE  /\ running = {} /\ interrupt = {} /\ With("RUNNING") = {}
             /\ \A t \in Task : future[t] = "none"
  <2>1. \A w \in Worker : pc[w] \notin Holding /\ pc[w] = "off"
    BY <1>1 DEF NoPool, Holding
  <2>2. running = {} /\ interrupt = {}
    BY <1>1, <2>1 DEF IInv, Places, Interrupts, Holds, TypeOK
  <2>3. With("RUNNING") = {}
    BY <1>1, <2>1 DEF IInv, Queued, Holds, With
  <2>4. QED
    BY <1>1, <2>2, <2>3 DEF IInv, Places
<1>2. IInv => StoppedIsQuiet
  BY <1>1 DEF StoppedIsQuiet
<1>3. QED
  BY <1>2, QueueInvariant, PTL

(* A callback hears "success" of completed tasks only, and "failure" of a      *)
(* completed one only if that one was retried.                                 *)
THEOREM CallbacksCorrect == Spec => []CallbackTellsAttempt
<1>1. IInv => CallbackTellsAttempt
  BY DEF IInv, Told, CallbackTellsAttempt
<1>2. QED
  BY <1>1, QueueInvariant, PTL

-------------------------------------------------------------------------------
(* The life cycle.                                                              *)

LEMMA SameCount ==
    ASSUME NEW S
    PROVE  Life!Cardinality(S) = Cardinality(S)
BY DEF Life!Cardinality, Cardinality

\* A worker that waits for a task runs none.
LEMMA RoomToRun ==
    ASSUME IInv, NEW w \in Worker, pc[w] = "get"
    PROVE  Cardinality(With("RUNNING")) < Cardinality(Worker)
<1> DEFINE holder == [t \in With("RUNNING") |-> CHOOSE v \in Worker : Holds(v, t)]
           others == Worker \ {w}
<1>1. \A t \in With("RUNNING") : \E v \in Worker : Holds(v, t)
  BY DEF IInv, Queued, With
<1>2. \A t \in With("RUNNING") : holder[t] \in Worker /\ Holds(holder[t], t)
  BY <1>1
<1>3. \A t \in With("RUNNING") : holder[t] \in others /\ job[holder[t]] = t
  BY <1>2 DEF Holds, Holding
<1>4. holder \in [With("RUNNING") -> others]
  BY <1>3
<1>5. holder \in Injection(With("RUNNING"), others)
  <2>1. IsInjective(holder)
    BY <1>3 DEF IsInjective
  <2>2. QED
    BY <1>4, <2>1 DEF Injection
<1>6. IsFiniteSet(Worker) /\ Cardinality(Worker) \in Nat
  BY QueueAssumption, FS_CardinalityType
<1>7. IsFiniteSet(others) /\ Cardinality(others) = Cardinality(Worker) - 1
  BY <1>6, FS_RemoveElement
<1>8. Cardinality(With("RUNNING")) <= Cardinality(others)
  BY <1>5, <1>7, FS_Injection
<1>9. Cardinality(With("RUNNING")) \in Nat
  BY CountsAreNaturals DEF With
<1>10. QED
  BY <1>6, <1>7, <1>8, <1>9

\* What the worker awaits without an interruption is a task that is RUNNING.
LEMMA AwaitedRuns ==
    ASSUME IInv, NEW w \in Worker, pc[w] = "execute", w \notin interrupt,
           future[job[w]] \in {"result", "error"}
    PROVE  job[w] \in Task /\ status[job[w]] = "RUNNING"
BY HeldTask DEF IInv, Held, Holding

LEMMA TakeIsRun ==
    ASSUME IInv, NEW w \in Worker, NEW t \in Task, Take(w, t)
    PROVE  Life!Run(t) \/ UNCHANGED <<status, retries>>
<1>1. CASE status[t] = "CANCELLED"
  BY <1>1 DEF Take
<1>2. CASE status[t] # "CANCELLED"
  <2>1. /\ pc[w] = "get" /\ status[t] = "PENDING"
        /\ status' = [status EXCEPT ![t] = "RUNNING"] /\ retries' = retries
    BY <1>2 DEF Take, IInv, Queued
  <2>2. Cardinality({u \in Task : status[u] = "RUNNING"}) < Cardinality(Worker)
    BY <2>1, RoomToRun DEF With
  <2>3. Life!Become(t, "PENDING", "RUNNING")
    BY <2>1 DEF Life!Become
  <2>4. QED
    BY <2>2, <2>3, SameCount DEF Life!Run
<1>3. QED
  BY <1>1, <1>2

LEMMA StopIsCancelAll ==
    ASSUME IInv, Stop
    PROVE  \E ts \in SUBSET Task : Life!CancelAll(ts)
<1> DEFINE ts == {t \in running : status[t] \in {"PENDING", "RUNNING"}}
<1>1. /\ status' = [t \in Task |-> IF t \in running THEN "CANCELLED" ELSE status[t]]
      /\ retries' = retries
  BY DEF Stop
<1>2. \A t \in running : status[t] \in {"PENDING", "RUNNING", "CANCELLED"}
  BY HeldTask DEF IInv, Places, Holds
<1>3. status' = [t \in Task |-> IF t \in ts THEN "CANCELLED" ELSE status[t]]
  BY <1>1, <1>2
<1>4. ts \in SUBSET Task
  BY DEF IInv, TypeOK
<1>5. Life!CancelAll(ts)
  BY <1>1, <1>3 DEF Life!CancelAll
<1>6. QED
  BY <1>4, <1>5

\* One task becomes CANCELLED, or is so already.
LEMMA CancelOne ==
    ASSUME TypeOK, NEW t \in Task, status[t] \in {"PENDING", "RUNNING", "CANCELLED"},
           status' = [status EXCEPT ![t] = "CANCELLED"], retries' = retries
    PROVE  (\E ts \in SUBSET Task : Life!CancelAll(ts)) \/ UNCHANGED <<status, retries>>
<1>1. CASE status[t] = "CANCELLED"
  BY <1>1 DEF TypeOK
<1>2. CASE status[t] # "CANCELLED"
  <2>1. status' = [u \in Task |-> IF u \in {t} THEN "CANCELLED" ELSE status[u]]
    BY DEF TypeOK
  <2>2. Life!CancelAll({t})
    BY <1>2, <2>1 DEF Life!CancelAll
  <2>3. QED
    BY <2>2
<1>3. QED
  BY <1>1, <1>2

LEMMA WorkerStepIsLifeStep ==
    ASSUME IInv, NEW w \in Worker, WorkerStep(w)
    PROVE  Life!LifeNext \/ UNCHANGED <<status, retries>>
<1>1. ASSUME NEW t \in Task, Take(w, t)
      PROVE  Life!LifeNext \/ UNCHANGED <<status, retries>>
  BY <1>1, TakeIsRun DEF Life!LifeNext
<1>2. CASE Complete(w)
  <2>1. job[w] \in Task /\ status[job[w]] = "RUNNING"
    BY <1>2, AwaitedRuns DEF Complete
  <2>2. Life!Become(job[w], "RUNNING", "COMPLETED")
    BY <1>2, <2>1 DEF Complete, Life!Become
  <2>3. QED
    BY <2>1, <2>2 DEF Life!LifeNext
<1>3. CASE FailAndRetry(w)
  <2>1. job[w] \in Task /\ status[job[w]] = "RUNNING"
    BY <1>3, AwaitedRuns DEF FailAndRetry
  <2>2. Life!Retry(job[w])
    BY <1>3, <2>1 DEF FailAndRetry, Life!Retry
  <2>3. QED
    BY <2>1, <2>2 DEF Life!LifeNext
<1>4. CASE FailForGood(w)
  <2>1. job[w] \in Task /\ status[job[w]] = "RUNNING"
    BY <1>4, AwaitedRuns DEF FailForGood
  <2>2. retries[job[w]] = MaxRetries[job[w]]
    <3>1. MaxRetries[job[w]] \in Nat
      BY <2>1, QueueAssumption
    <3>2. retries[job[w]] \in Nat /\ retries[job[w]] <= MaxRetries[job[w]]
      BY <2>1 DEF IInv, TypeOK
    <3>3. retries[job[w]] >= MaxRetries[job[w]]
      BY <1>4 DEF FailForGood
    <3>4. QED
      BY <3>1, <3>2, <3>3
  <2>3. Life!Become(job[w], "RUNNING", "FAILED")
    BY <1>4, <2>1 DEF FailForGood, Life!Become
  <2>4. QED
    BY <2>1, <2>2, <2>3 DEF Life!LifeNext
<1>5. CASE CancelledInExecute(w)
  <2>1. /\ job[w] \in Task /\ status[job[w]] \in {"PENDING", "RUNNING", "CANCELLED"}
    BY <1>5, HeldTask DEF CancelledInExecute, Holding
  <2>2. status' = [status EXCEPT ![job[w]] = "CANCELLED"] /\ retries' = retries
    BY <1>5 DEF CancelledInExecute
  <2>3. QED
    BY <2>1, <2>2, CancelOne DEF IInv, Life!LifeNext
<1>6. CASE BackoffOver(w) \/ Requeue(w) \/ CancelledInRetry(w) \/ CancelledElsewhere(w)
             \/ CallbackReturns(w)
  BY <1>6 DEF BackoffOver, Requeue, PutBack, CancelledInRetry, CancelledElsewhere, CallbackReturns
<1>7. QED
  BY <1>1, <1>2, <1>3, <1>4, <1>5, <1>6 DEF WorkerStep, Resume

LEMMA NextIsLifeStep ==
    ASSUME IInv, [Next]_vars
    PROVE  [Life!LifeNext]_(Life!lifeVars)
<1> SUFFICES Life!LifeNext \/ UNCHANGED <<status, retries>>
  BY DEF Life!lifeVars
<1>1. CASE UNCHANGED vars
  BY <1>1 DEF vars
<1>2. ASSUME NEW t \in Task, Submit(t) \/ SubmitPut(t)
      PROVE  Life!LifeNext \/ UNCHANGED <<status, retries>>
  <2>1. CASE Entered(t) /\ retries' = retries
    <3>1. status[t] = "unknown"
      BY <1>2 DEF Submit, SubmitPut, IInv, Waiting
    <3>2. Life!Become(t, "unknown", "PENDING")
      BY <2>1, <3>1 DEF Entered, Life!Become
    <3>3. QED
      BY <3>2 DEF Life!LifeNext
  <2>2. QED
    BY <1>2, <2>1 DEF Submit, SubmitPut
<1>3. ASSUME NEW t \in Task, CancelPending(t)
      PROVE  Life!LifeNext \/ UNCHANGED <<status, retries>>
  BY <1>3, CancelOne DEF CancelPending, IInv, Life!LifeNext
<1>4. ASSUME NEW t \in Task, CancelRunning(t) \/ Acquired(t) \/ FutureEnds(t)
      PROVE  UNCHANGED <<status, retries>>
  BY <1>4 DEF CancelRunning, Acquired, FutureEnds
<1>5. CASE Stop
  BY <1>5, StopIsCancelAll DEF Life!LifeNext
<1>6. CASE Start \/ StopReturns
  BY <1>6 DEF Start, StopReturns
<1>7. QED
  BY <1>1, <1>2, <1>3, <1>4, <1>5, <1>6, WorkerStepIsLifeStep DEF Next

(* The statuses follow the life cycle: no more tasks RUNNING than workers, no  *)
(* more retries than max_retries, and nothing leaves COMPLETED, FAILED or      *)
(* CANCELLED.                                                                  *)
THEOREM QueueImplementsLifecycle == Spec => ImplementsLifecycle
<1>1. Init => Life!LifeInit
  BY DEF Init, Life!LifeInit
<1>2. IInv /\ [Next]_vars => [Life!LifeNext]_(Life!lifeVars)
  BY NextIsLifeStep
<1>3. QED
  BY <1>1, <1>2, QueueInvariant, PTL DEF Spec, ImplementsLifecycle, Life!LifeSpec

=============================================================================
