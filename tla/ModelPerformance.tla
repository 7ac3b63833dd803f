--------------------------- MODULE ModelPerformance ---------------------------
(***************************************************************************)
(* src/src/observability/model_performance.py: the trackers of several     *)
(* processes, whose threads record requests to models, and the file they   *)
(* share.  A thread takes its snapshot under the tracker's lock, reads the *)
(* file under the file's lock, and replaces the file under neither.        *)
(***************************************************************************)
EXTENDS Naturals, FiniteSets, Sequences

CONSTANTS
    Worker,     \* threads
    ProcessOf,  \* per thread, its process
    Model,      \* models that are asked
    Candidates, \* a list to choose the best model from
    MinRequests,\* min_requests (5)
    MaxRecords  \* bound: requests recorded

VARIABLES
    disk,    \* model_performance.jsonl: per model in it, its counts
    mem,     \* per process: _metrics
    job,     \* per thread: its step, and the table it will write
    total,   \* per model: all requests recorded anywhere
    own,     \* per process and model: those recorded in it since it started
    records  \* bound

performanceVars == <<disk, mem, job, total, own, records>>

Tracker == {ProcessOf[w] : w \in Worker}
Counts == [success : Nat, failure : Nat, slow : Nat]
Zero == [success |-> 0, failure |-> 0, slow |-> 0]
Empty == [m \in {} |-> Zero]
IsTable(table) == DOMAIN table \subseteq Model /\ \A m \in DOMAIN table : table[m] \in Counts

TypeOK ==
    /\ IsTable(disk) /\ \A p \in Tracker : IsTable(mem[p])
    /\ \A w \in Worker : IsTable(job[w].table) /\ job[w].step \in {"idle", "read", "replace"}
    /\ total \in [Model -> Counts] /\ own \in [Tracker -> [Model -> Counts]]
    /\ records \in 0 .. MaxRecords

Init ==
    /\ disk = Empty /\ mem = [p \in Tracker |-> Empty]
    /\ job = [w \in Worker |-> [step |-> "idle", table |-> Empty]]
    /\ total = [m \in Model |-> Zero] /\ own = [p \in Tracker |-> [m \in Model |-> Zero]]
    /\ records = 0

-----------------------------------------------------------------------------

At(table, m) == IF m \in DOMAIN table THEN table[m] ELSE Zero

\* What the first table says, and the second of the models it lacks.
Over(first, second) ==
    [m \in DOMAIN first \cup DOMAIN second |-> IF m \in DOMAIN first THEN first[m] ELSE second[m]]

record_success(counts, slow) ==
    [counts EXCEPT !.success = @ + 1, !.slow = @ + (IF slow THEN 1 ELSE 0)]
record_failure(counts) == [counts EXCEPT !.failure = @ + 1]

Outcome == {"fast", "slow", "failed"}
Recorded(counts, outcome) ==
    IF outcome = "failed" THEN record_failure(counts) ELSE record_success(counts, outcome = "slow")

\* ModelPerformanceTracker.record_success() and record_failure(), up to
\* the snapshot.
Record(w, m, outcome) ==
    LET p == ProcessOf[w]
        table == Over([x \in {m} |-> Recorded(At(mem[p], m), outcome)], mem[p])
    IN  /\ job[w].step = "idle" /\ records < MaxRecords
        /\ mem' = [mem EXCEPT ![p] = table]
        /\ job' = [job EXCEPT ![w] = [step |-> "read", table |-> table]]
        /\ total' = [total EXCEPT ![m] = Recorded(@, outcome)]
        /\ own' = [own EXCEPT ![p][m] = Recorded(@, outcome)]
        /\ records' = records + 1
        /\ UNCHANGED disk

\* Mutant: the counts of the file and of the snapshot are added up.
Persist_Sum(w) ==
    /\ job[w].step = "read"
    /\ job' = [job EXCEPT ![w] = [step |-> "replace", table |->
                 [m \in DOMAIN job[w].table \cup DOMAIN disk |->
                   [f \in DOMAIN Zero |-> At(job[w].table, m)[f] + At(disk, m)[f]]]]]
    /\ UNCHANGED <<disk, mem, total, own, records>>

\* _persist(), reading: the snapshot goes over what the file says.
Persist(w) ==
    /\ job[w].step = "read"
    /\ job' = [job EXCEPT ![w] = [step |-> "replace", table |-> Over(job[w].table, disk)]]
    /\ UNCHANGED <<disk, mem, total, own, records>>

\* _persist(), writing: memory gains the models it does not know.
Replace(w) ==
    /\ job[w].step = "replace"
    /\ disk' = job[w].table
    /\ mem' = [mem EXCEPT ![ProcessOf[w]] = Over(@, job[w].table)]
    /\ job' = [job EXCEPT ![w] = [step |-> "idle", table |-> Empty]]
    /\ UNCHANGED <<total, own, records>>

\* The temporary file cannot be written: the exception is raised.
ReplaceFails(w) ==
    /\ job[w].step = "replace"
    /\ job' = [job EXCEPT ![w] = [step |-> "idle", table |-> Empty]]
    /\ UNCHANGED <<disk, mem, total, own, records>>

\* reset(): memory is cleared and the file removed; others keep theirs.
reset(p) ==
    /\ mem' = [mem EXCEPT ![p] = Empty] /\ disk' = Empty
    /\ own' = [own EXCEPT ![p] = [m \in Model |-> Zero]]
    /\ UNCHANGED <<job, total, records>>

\* A process dies; its successor loads the file.
Load(p) ==
    /\ mem' = [mem EXCEPT ![p] = disk]
    /\ job' = [w \in Worker |-> IF ProcessOf[w] = p THEN [step |-> "idle", table |-> Empty]
                                ELSE job[w]]
    /\ own' = [own EXCEPT ![p] = [m \in Model |-> Zero]]
    /\ UNCHANGED <<disk, total, records>>

-----------------------------------------------------------------------------
(* What is read from a tracker.                                             *)

requests_total(counts) == counts.success + counts.failure

\* success_rate >= min_success_rate = 4/5.
Reliable(counts) == requests_total(counts) > 0 /\ 5 * counts.success >= 4 * requests_total(counts)

\* In 1/1200: 70 % success rate, 30 % speed, ten seconds give none.
Score(counts) ==
    (840 * counts.success) \div requests_total(counts)
      + (360 * (counts.success - counts.slow)) \div counts.success

\* The first of the best; without a reliable one the first candidate.
get_best_model_for_capability(table) ==
    LET valid == {i \in DOMAIN Candidates :
                    Candidates[i] \in DOMAIN table /\ Reliable(table[Candidates[i]])}
        value(i) == Score(table[Candidates[i]])
    IN  IF valid = {} THEN Head(Candidates)
        ELSE Candidates[CHOOSE i \in valid : \A j \in valid :
               value(i) > value(j) \/ (value(i) = value(j) /\ i <= j)]

\* error_rate >= 1/2 after enough requests.
get_models_with_high_error_rate(table) ==
    {m \in DOMAIN table : /\ requests_total(table[m]) >= MinRequests
                          /\ 2 * table[m].failure >= requests_total(table[m])}

Next ==
    \/ \E w \in Worker :
         \/ \E m \in Model, outcome \in Outcome : Record(w, m, outcome)
         \/ Persist(w) \/ Replace(w) \/ ReplaceFails(w)
    \/ \E p \in Tracker : reset(p) \/ Load(p)

Spec == Init /\ [][Next]_performanceVars

-----------------------------------------------------------------------------

AtMost(few, many) == \A f \in DOMAIN Zero : few[f] <= many[f]

(* However snapshots overtake each other and files are replaced, no tracker *)
(* and no file counts a request that was not made, a process counts all of  *)
(* its own, and the model it calls the best is no one it reports for errors *)
(* unless it knows no reliable candidate.                                   *)
CountsAreReal ==
    /\ \A m \in Model : AtMost(At(disk, m), total[m])
    /\ \A p \in Tracker :
         /\ \A m \in Model : /\ AtMost(At(mem[p], m), total[m])
                             /\ AtMost(own[p][m], At(mem[p], m))
         /\ get_best_model_for_capability(mem[p]) \in get_models_with_high_error_rate(mem[p])
              => \A i \in DOMAIN Candidates : ~Reliable(At(mem[p], Candidates[i]))

=============================================================================
