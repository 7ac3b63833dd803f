---------------------------- MODULE StateManager -----------------------------
(***************************************************************************)
(* src/src/state.py, class StateManager: the rows of state.json, shared by *)
(* the threads of several processes.  Each process has one StateManager,   *)
(* with a cached copy of the file (self.data) and a thread lock; a write   *)
(* takes the thread lock, then an flock on state.json.lock, reads the      *)
(* file, changes its copy, replaces the file, and appends an event to      *)
(* events.jsonl when both locks are gone (src/src/utils/file_lock.py).     *)
(*                                                                         *)
(* A row is the number of the call that wrote it.  The diff in an event,   *)
(* tenants (each has files of its own) and storage_type other than "json"  *)
(* are left out.  flock excludes, and is released when its process dies.   *)
(***************************************************************************)
EXTENDS Naturals, Sequences, FiniteSets

CONSTANTS
    Thread,     \* the threads that write
    Process,    \* the processes they belong to
    Home,       \* the process of each thread
    Key,        \* task ids
    MaxCalls,   \* bound: calls of set_task() and delete_task()
    MaxKills    \* bound: processes that die

NoThread == "NoThread"

ASSUME StateAssumption ==
    /\ Key # {}
    /\ NoThread \notin Thread
    /\ Home \in [Thread -> Process]
    /\ MaxCalls \in Nat
    /\ MaxKills \in Nat

Absent == 0
Row == 1 .. MaxCalls
Content == [Key -> Row \cup {Absent}]
Empty == [k \in Key |-> Absent]

NoContent == << >>
NoCall == [id |-> 0]

VARIABLES
    file,     \* state.json
    flock,    \* who holds the lock on state.json.lock
    mutex,    \* per process: who holds self._lock
    cache,    \* per process: self.data, NoContent while it is down
    pc,       \* where each thread is in set_task() or delete_task()
    call,     \* the call it is in
    onDisk,   \* its on_disk
    events,   \* events.jsonl
    torn,     \* does events.jsonl end in part of a line?
    commits,  \* history: the calls that replaced the file
    cut,      \* history: the calls that death or a failing append cut short,
              \* and those whose event was joined to a torn line
    calls,    \* bound: calls so far
    kills     \* bound: deaths so far

vars == <<file, flock, mutex, cache, pc, call, onDisk, events, torn, commits,
          cut, calls, kills>>

\* "lock": waits for the flock; "read": holds it; "write": has its changed
\* copy; "unlock": replaced the file; "event": has to append its event.
Place == {"idle", "lock", "read", "write", "unlock", "event"}
Critical == {"read", "write", "unlock"}

Call == [id : Row, by : Thread, key : Key, value : Row \cup {Absent}]

TypeOK ==
    /\ file \in Content
    /\ flock \in Thread \cup {NoThread}
    /\ mutex \in [Process -> Thread \cup {NoThread}]
    /\ cache \in [Process -> Content \cup {NoContent}]
    /\ pc \in [Thread -> Place]
    /\ call \in [Thread -> Call \cup {NoCall}]
    /\ \A t \in Thread : pc[t] # "idle" => cache[Home[t]] # NoContent
    /\ onDisk \in [Thread -> Content \cup {NoContent}]
    /\ events \in Seq(Call)
    /\ torn \in BOOLEAN
    /\ commits \in Seq(Call)
    /\ cut \subseteq Row
    /\ calls \in 0 .. MaxCalls
    /\ kills \in 0 .. MaxKills

\* Every process starts without a state file.
Init ==
    /\ file = Empty
    /\ flock = NoThread
    /\ mutex = [p \in Process |-> NoThread]
    /\ cache = [p \in Process |-> Empty]
    /\ pc = [t \in Thread |-> "idle"]
    /\ call = [t \in Thread |-> NoCall]
    /\ onDisk = [t \in Thread |-> NoContent]
    /\ events = << >>
    /\ torn = FALSE
    /\ commits = << >>
    /\ cut = {}
    /\ calls = 0
    /\ kills = 0

At(t, place) == pc' = [pc EXCEPT ![t] = place]

\* set_task() or delete_task() is called and gets the thread lock.
Enter(t) ==
    LET p == Home[t] IN
    /\ pc[t] = "idle"
    /\ cache[p] # NoContent
    /\ mutex[p] = NoThread
    /\ calls < MaxCalls
    /\ calls' = calls + 1
    /\ mutex' = [mutex EXCEPT ![p] = t]
    /\ \E k \in Key, v \in {calls + 1, Absent} :
         call' = [call EXCEPT ![t] = [id |-> calls + 1, by |-> t, key |-> k, value |-> v]]
    /\ At(t, "lock")
    /\ UNCHANGED <<file, flock, cache, onDisk, events, torn, commits, cut, kills>>

\* Mutant: the lock is not waited for.
Lock_NoWait(t) ==
    /\ pc[t] = "lock"
    /\ flock' = t
    /\ At(t, "read")
    /\ UNCHANGED <<file, mutex, cache, call, onDisk, events, torn, commits, cut, calls, kills>>

Lock(t) ==
    /\ pc[t] = "lock"
    /\ flock = NoThread
    /\ flock' = t
    /\ At(t, "read")
    /\ UNCHANGED <<file, mutex, cache, call, onDisk, events, torn, commits, cut, calls, kills>>

\* Mutant: the cached copy is changed instead of the file's.
Read_Cache(t) ==
    /\ pc[t] = "read"
    /\ onDisk' = [onDisk EXCEPT ![t] =
                    [cache[Home[t]] EXCEPT ![call[t].key] = call[t].value]]
    /\ At(t, "write")
    /\ UNCHANGED <<file, flock, mutex, cache, call, events, torn, commits, cut, calls, kills>>

\* Mutant: the copy holds nothing but the changed row.
Read_OnlyRow(t) ==
    /\ pc[t] = "read"
    /\ onDisk' = [onDisk EXCEPT ![t] = [k \in {call[t].key} |-> call[t].value]]
    /\ At(t, "write")
    /\ UNCHANGED <<file, flock, mutex, cache, call, events, torn, commits, cut, calls, kills>>

\* The file is read and mutate_fn changes the copy.
Read(t) ==
    /\ pc[t] = "read"
    /\ onDisk' = [onDisk EXCEPT ![t] = [file EXCEPT ![call[t].key] = call[t].value]]
    /\ At(t, "write")
    /\ UNCHANGED <<file, flock, mutex, cache, call, events, torn, commits, cut, calls, kills>>

\* _atomic_write_json(): the temporary file replaces state.json.
Replace(t) ==
    /\ pc[t] = "write"
    /\ file' = onDisk[t]
    /\ commits' = Append(commits, call[t])
    /\ At(t, "unlock")
    /\ UNCHANGED <<flock, mutex, cache, call, onDisk, events, torn, cut, calls, kills>>

\* Mutant: self.data stays as it is.
Unlock_NoSync(t) ==
    /\ pc[t] = "unlock"
    /\ flock' = NoThread
    /\ mutex' = [mutex EXCEPT ![Home[t]] = NoThread]
    /\ onDisk' = [onDisk EXCEPT ![t] = NoContent]
    /\ At(t, "event")
    /\ UNCHANGED <<file, cache, call, events, torn, commits, cut, calls, kills>>

\* The flock is released, self.data = merged, the thread lock is released.
Unlock(t) ==
    /\ pc[t] = "unlock"
    /\ flock' = NoThread
    /\ mutex' = [mutex EXCEPT ![Home[t]] = NoThread]
    /\ cache' = [cache EXCEPT ![Home[t]] = onDisk[t]]
    /\ onDisk' = [onDisk EXCEPT ![t] = NoContent]
    /\ At(t, "event")
    /\ UNCHANGED <<file, call, events, torn, commits, cut, calls, kills>>

\* _append_event() under a lock of its own.  A line that follows a torn one is
\* joined to it, and readers skip what they cannot parse (state.py:241).
AppendEvent(t) ==
    /\ pc[t] = "event"
    /\ torn' = FALSE
    /\ events' = IF torn THEN events ELSE Append(events, call[t])
    /\ cut' = IF torn THEN cut \cup {call[t].id} ELSE cut
    /\ call' = [call EXCEPT ![t] = NoCall]
    /\ At(t, "idle")
    /\ UNCHANGED <<file, flock, mutex, cache, onDisk, commits, calls, kills>>

\* Mutant: the event of a failed call is written all the same.
Fail_StillLogged(t) ==
    /\ pc[t] \in {"lock", "read", "write"}
    /\ flock' = IF flock = t THEN NoThread ELSE flock
    /\ mutex' = [mutex EXCEPT ![Home[t]] = NoThread]
    /\ onDisk' = [onDisk EXCEPT ![t] = NoContent]
    /\ At(t, "event")
    /\ UNCHANGED <<file, cache, call, events, torn, commits, cut, calls, kills>>

\* Opening the lock, reading, parsing or writing fails: the exception leaves
\* both with blocks, the old file stays, and neither the cache nor the log
\* learns of the call.
Fail(t) ==
    /\ pc[t] \in {"lock", "read", "write"}
    /\ flock' = IF flock = t THEN NoThread ELSE flock
    /\ mutex' = [mutex EXCEPT ![Home[t]] = NoThread]
    /\ onDisk' = [onDisk EXCEPT ![t] = NoContent]
    /\ call' = [call EXCEPT ![t] = NoCall]
    /\ At(t, "idle")
    /\ UNCHANGED <<file, cache, events, torn, commits, cut, calls, kills>>

\* The append fails, with none or part of the line in the file: the call
\* raises, but what it changed stays changed.  locked_file() swallows the
\* error of its own flush; it is the close that raises.
AppendFails(t) ==
    /\ pc[t] = "event"
    /\ torn' \in {torn, TRUE}
    /\ cut' = cut \cup {call[t].id}
    /\ call' = [call EXCEPT ![t] = NoCall]
    /\ At(t, "idle")
    /\ UNCHANGED <<file, flock, mutex, cache, onDisk, events, commits, calls, kills>>

Threads(p) == {t \in Thread : Home[t] = p}

\* A process dies between any two steps.
Kill(p) ==
    /\ kills < MaxKills
    /\ cache[p] # NoContent
    /\ kills' = kills + 1
    /\ flock' = IF flock \in Threads(p) THEN NoThread ELSE flock
    /\ mutex' = [mutex EXCEPT ![p] = NoThread]
    /\ cache' = [cache EXCEPT ![p] = NoContent]
    /\ pc' = [t \in Thread |-> IF t \in Threads(p) THEN "idle" ELSE pc[t]]
    /\ call' = [t \in Thread |-> IF t \in Threads(p) THEN NoCall ELSE call[t]]
    /\ onDisk' = [t \in Thread |-> IF t \in Threads(p) THEN NoContent ELSE onDisk[t]]
    /\ cut' = cut \cup {call[t].id : t \in {u \in Threads(p) : pc[u] # "idle"}}
    /\ torn' \in {torn, torn \/ \E t \in Threads(p) : pc[t] = "event"}
    /\ UNCHANGED <<file, events, commits, calls>>

\* It is started again: __init__ reads the file, without a lock.
Restart(p) ==
    /\ cache[p] = NoContent
    /\ cache' = [cache EXCEPT ![p] = file]
    /\ UNCHANGED <<file, flock, mutex, pc, call, onDisk, events, torn, commits, cut,
                   calls, kills>>

Step(t) ==
    \/ Enter(t)
    \/ Lock(t)
    \/ Read(t)
    \/ Replace(t)
    \/ Unlock(t)
    \/ AppendEvent(t)
    \/ Fail(t)
    \/ AppendFails(t)

Next ==
    \/ \E t \in Thread : Step(t)
    \/ \E p \in Process : Kill(p) \/ Restart(p)

Spec == Init /\ [][Next]_vars

-----------------------------------------------------------------------------

(* Every set and delete is atomic, across threads, processes, failures and *)
(* deaths: state.json moves only by one call's change to its one row, made *)
(* once, between the call and its return.                                  *)
Asked(t) ==
    IF pc[t] = "idle"
      THEN [done |-> FALSE]
      ELSE [key |-> call[t].key, value |-> call[t].value,
            done |-> pc[t] \in {"unlock", "event"}]

Store == INSTANCE TaskStore WITH
    Client <- Thread, Value <- Row,
    store <- file, request <- [t \in Thread |-> Asked(t)]

ImplementsStore == Store!StoreSpec

(* The audit log and the file agree: an event is written once and only for *)
(* a change that was made, and a change without an event belongs to a      *)
(* thread that is about to write it, or to one that could not: its process *)
(* died before, the append failed, or the line was joined to a torn one.   *)
Ids(log) == {log[i].id : i \in DOMAIN log}

EventsTellCommits ==
    /\ \A i, j \in DOMAIN events : events[i].id = events[j].id => i = j
    /\ Ids(events) \subseteq Ids(commits)
    /\ Ids(commits) \ Ids(events) \subseteq
         cut \cup {call[t].id : t \in {u \in Thread : pc[u] \in {"unlock", "event"}}}

(* A process reads its own writes: where the last change of a row was made *)
(* by one of its threads, and that thread has its locks behind it, the     *)
(* cached row is the row in the file - whatever its other threads did.     *)
LastChange(k, i) ==
    /\ commits[i].key = k
    /\ \A j \in DOMAIN commits : j > i => commits[j].key # k

ReadsOwnWrites ==
    \A p \in Process, k \in Key :
      cache[p] # NoContent =>
        \A i \in DOMAIN commits :
          LastChange(k, i) /\ Home[commits[i].by] = p =>
            \/ cache[p][k] = file[k]
            \/ pc[commits[i].by] = "unlock"

(* state.py:117-121: the lock is held for the entire read-modify-write     *)
(* cycle "so concurrent processes never silently drop each other's         *)
(* updates": a row is what the last call that changed it made of it.       *)
NoUpdateDropped ==
    \A k \in Key, i \in DOMAIN commits :
      LastChange(k, i) => file[k] = commits[i].value

=============================================================================
