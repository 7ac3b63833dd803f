------------------------- MODULE StateManagerProofs --------------------------
(***************************************************************************)
(* state.json under its two locks, for every set of threads, processes and *)
(* rows and any number of calls, failures and deaths: it is an atomic      *)
(* store, no update is dropped, and caches and event log agree with it.    *)
(***************************************************************************)
EXTENDS StateManager, SequenceTheorems, TLAPS

\* The flock excludes: whoever is between reading and releasing holds it.
FlockHeld == \A t \in Thread : pc[t] \in Critical => flock = t

\* A thread that is about to replace the file has a copy of it that differs
\* in the row of its call, and only there.
CopyIsFresh ==
    \A t \in Thread :
      pc[t] = "write" => onDisk[t] = [file EXCEPT ![call[t].key] = call[t].value]

\* What a thread in a call holds.
CallsAreReal ==
    \A t \in Thread :
      /\ pc[t] # "idle" => call[t] \in Call /\ call[t].by = t
      /\ pc[t] \in {"write", "unlock"} => onDisk[t] \in Content

IInv ==
    /\ TypeOK
    /\ FlockHeld
    /\ CallsAreReal
    /\ CopyIsFresh
    /\ NoUpdateDropped

LEMMA ContentIsThere == NoContent \notin Content /\ Empty \in Content
<1>1. ASSUME NEW f \in Content
      PROVE  f # << >>
  <2>1. DOMAIN f = Key /\ Key # {}
    BY StateAssumption DEF Content
  <2>2. QED
    BY <2>1
<1>2. QED
  BY <1>1 DEF NoContent, Empty, Content

LEMMA InitInvariant == Init => IInv
<1> SUFFICES ASSUME Init PROVE IInv
  OBVIOUS
<1>1. torn \in BOOLEAN
  BY DEF Init
<1>2. TypeOK
  BY <1>1, StateAssumption, ContentIsThere DEF Init, TypeOK, Place, Call
<1>3. FlockHeld /\ CallsAreReal /\ CopyIsFresh /\ NoUpdateDropped
  BY DEF Init, FlockHeld, CallsAreReal, CopyIsFresh, NoUpdateDropped, LastChange,
         Critical
<1>4. QED
  BY <1>2, <1>3 DEF IInv

LEMMA EnterKeeps ==
    ASSUME IInv, NEW t \in Thread, Enter(t)
    PROVE  IInv'
<1> USE DEF IInv
<1>1. PICK k \in Key, v \in {calls + 1, Absent} :
        call' = [call EXCEPT ![t] = [id |-> calls + 1, by |-> t, key |-> k, value |-> v]]
  BY DEF Enter
<1>2. calls + 1 \in Row /\ calls' \in 0 .. MaxCalls
  BY StateAssumption DEF Enter, TypeOK, Row
<1>3. [id |-> calls + 1, by |-> t, key |-> k, value |-> v] \in Call
  BY <1>2 DEF Call
<1>4. Home[t] \in Process
  BY StateAssumption
<1>5. /\ pc' = [pc EXCEPT ![t] = "lock"]
      /\ mutex' = [mutex EXCEPT ![Home[t]] = t]
      /\ cache[Home[t]] # NoContent
      /\ UNCHANGED <<file, flock, cache, onDisk, events, torn, commits, cut, kills>>
  BY DEF Enter, At
<1>6. TypeOK'
  BY <1>1, <1>2, <1>3, <1>4, <1>5 DEF TypeOK, Place
<1>7. FlockHeld' /\ CallsAreReal' /\ CopyIsFresh'
  BY <1>1, <1>3, <1>5 DEF TypeOK, FlockHeld, CallsAreReal, CopyIsFresh, Critical
<1>8. NoUpdateDropped'
  BY <1>5 DEF NoUpdateDropped, LastChange
<1>9. QED
  BY <1>6, <1>7, <1>8

LEMMA LockKeeps ==
    ASSUME IInv, NEW t \in Thread, Lock(t)
    PROVE  IInv'
<1> USE DEF IInv
<1>1. /\ pc' = [pc EXCEPT ![t] = "read"]
      /\ flock = NoThread /\ flock' = t
      /\ pc[t] = "lock"
      /\ UNCHANGED <<file, mutex, cache, call, onDisk, events, torn, commits, cut, calls, kills>>
  BY DEF Lock, At
<1>2. TypeOK'
  BY <1>1 DEF TypeOK, Place
<1>3. FlockHeld' /\ CallsAreReal' /\ CopyIsFresh'
  BY <1>1, StateAssumption DEF TypeOK, FlockHeld, CallsAreReal, CopyIsFresh, Critical
<1>4. NoUpdateDropped'
  BY <1>1 DEF NoUpdateDropped, LastChange
<1>5. QED
  BY <1>2, <1>3, <1>4

LEMMA ReadKeeps ==
    ASSUME IInv, NEW t \in Thread, Read(t)
    PROVE  IInv'
<1> USE DEF IInv
<1>1. /\ pc' = [pc EXCEPT ![t] = "write"]
      /\ onDisk' = [onDisk EXCEPT ![t] = [file EXCEPT ![call[t].key] = call[t].value]]
      /\ pc[t] = "read"
      /\ UNCHANGED <<file, flock, mutex, cache, call, events, torn, commits, cut, calls, kills>>
  BY DEF Read, At
<1>2. [file EXCEPT ![call[t].key] = call[t].value] \in Content
  BY <1>1 DEF CallsAreReal, Call, TypeOK, Content
<1>3. TypeOK'
  BY <1>1, <1>2 DEF TypeOK, Place
<1>4. FlockHeld' /\ CallsAreReal'
  BY <1>1, <1>2 DEF TypeOK, FlockHeld, CallsAreReal, Critical
<1>5. CopyIsFresh'
  BY <1>1 DEF TypeOK, CopyIsFresh
<1>6. NoUpdateDropped'
  BY <1>1 DEF NoUpdateDropped, LastChange
<1>7. QED
  BY <1>3, <1>4, <1>5, <1>6

\* The step at which an update could be dropped.
LEMMA ReplaceKeeps ==
    ASSUME IInv, NEW t \in Thread, Replace(t)
    PROVE  IInv'
<1> USE DEF IInv
<1>1. /\ pc' = [pc EXCEPT ![t] = "unlock"]
      /\ file' = onDisk[t]
      /\ commits' = Append(commits, call[t])
      /\ pc[t] = "write"
      /\ UNCHANGED <<flock, mutex, cache, call, onDisk, events, torn, cut, calls, kills>>
  BY DEF Replace, At
<1>2. /\ call[t] \in Call /\ call[t].key \in Key
      /\ onDisk[t] \in Content
      /\ onDisk[t] = [file EXCEPT ![call[t].key] = call[t].value]
  BY <1>1 DEF CallsAreReal, CopyIsFresh, Call
<1>3. TypeOK'
  BY <1>1, <1>2 DEF TypeOK, Place
<1>4. FlockHeld' /\ CallsAreReal'
  BY <1>1 DEF TypeOK, FlockHeld, CallsAreReal, Critical
<1>5. CopyIsFresh'
  <2>1. ASSUME NEW u \in Thread, pc'[u] = "write"
        PROVE  FALSE
    BY <1>1, <2>1, u = t \/ u # t DEF TypeOK, FlockHeld, Critical
  <2>2. QED
    BY <2>1 DEF CopyIsFresh
<1>6. NoUpdateDropped'
  <2>1. /\ Len(commits') = Len(commits) + 1
        /\ commits'[Len(commits) + 1] = call[t]
        /\ \A i \in 1 .. Len(commits) : commits'[i] = commits[i]
        /\ DOMAIN commits' = 1 .. Len(commits) + 1
        /\ DOMAIN commits = 1 .. Len(commits)
        /\ Len(commits) \in Nat
    BY <1>1, <1>2, AppendProperties DEF TypeOK
  <2>2. SUFFICES ASSUME NEW k \in Key, NEW i \in DOMAIN commits', LastChange(k, i)'
                 PROVE  file'[k] = commits'[i].value
    BY DEF NoUpdateDropped
  <2>3. CASE i = Len(commits) + 1
    BY <1>1, <1>2, <2>1, <2>2, <2>3 DEF LastChange, TypeOK, Content
  <2>4. CASE i # Len(commits) + 1
    <3>1. i \in DOMAIN commits /\ commits'[i] = commits[i]
      BY <2>1, <2>4
    <3>2. commits[i].key = k /\ call[t].key # k
      BY <2>1, <2>2, <3>1 DEF LastChange
    <3>3. LastChange(k, i)
      BY <2>1, <2>2, <3>1 DEF LastChange
    <3>4. QED
      BY <1>1, <1>2, <3>1, <3>2, <3>3 DEF NoUpdateDropped, TypeOK, Content
  <2>5. QED
    BY <2>3, <2>4
<1>7. QED
  BY <1>3, <1>4, <1>5, <1>6

LEMMA UnlockKeeps ==
    ASSUME IInv, NEW t \in Thread, Unlock(t)
    PROVE  IInv'
<1> USE DEF IInv
<1>1. /\ pc' = [pc EXCEPT ![t] = "event"]
      /\ flock' = NoThread
      /\ mutex' = [mutex EXCEPT ![Home[t]] = NoThread]
      /\ cache' = [cache EXCEPT ![Home[t]] = onDisk[t]]
      /\ onDisk' = [onDisk EXCEPT ![t] = NoContent]
      /\ pc[t] = "unlock"
      /\ UNCHANGED <<file, call, events, torn, commits, cut, calls, kills>>
  BY DEF Unlock, At
<1>2. onDisk[t] \in Content /\ onDisk[t] # NoContent
  BY <1>1, ContentIsThere DEF CallsAreReal
<1>3. Home[t] \in Process
  BY StateAssumption
<1>4. TypeOK'
  BY <1>1, <1>2, <1>3 DEF TypeOK, Place
<1>5. FlockHeld' /\ CallsAreReal'
  BY <1>1 DEF TypeOK, FlockHeld, CallsAreReal, Critical
<1>6. CopyIsFresh'
  BY <1>1 DEF TypeOK, CopyIsFresh
<1>7. NoUpdateDropped'
  BY <1>1 DEF NoUpdateDropped, LastChange
<1>8. QED
  BY <1>4, <1>5, <1>6, <1>7

LEMMA AppendEventKeeps ==
    ASSUME IInv, NEW t \in Thread, AppendEvent(t)
    PROVE  IInv'
<1> USE DEF IInv
<1>1. /\ pc' = [pc EXCEPT ![t] = "idle"]
      /\ events' = IF torn THEN events ELSE Append(events, call[t])
      /\ cut' = IF torn THEN cut \cup {call[t].id} ELSE cut
      /\ torn' = FALSE
      /\ call' = [call EXCEPT ![t] = NoCall]
      /\ pc[t] = "event"
      /\ UNCHANGED <<file, flock, mutex, cache, onDisk, commits, calls, kills>>
  BY DEF AppendEvent, At
<1>2. call[t] \in Call /\ call[t].id \in Row
  BY <1>1 DEF CallsAreReal, Call
<1>3. events' \in Seq(Call) /\ cut' \subseteq Row
  BY <1>1, <1>2 DEF TypeOK
<1>4. TypeOK'
  BY <1>1, <1>2, <1>3 DEF TypeOK, Place
<1>5. FlockHeld' /\ CallsAreReal' /\ CopyIsFresh'
  BY <1>1 DEF TypeOK, FlockHeld, CallsAreReal, CopyIsFresh, Critical
<1>6. NoUpdateDropped'
  BY <1>1 DEF NoUpdateDropped, LastChange
<1>7. QED
  BY <1>4, <1>5, <1>6

LEMMA FailKeeps ==
    ASSUME IInv, NEW t \in Thread, Fail(t)
    PROVE  IInv'
<1> USE DEF IInv
<1>1. /\ pc' = [pc EXCEPT ![t] = "idle"]
      /\ flock' = IF flock = t THEN NoThread ELSE flock
      /\ mutex' = [mutex EXCEPT ![Home[t]] = NoThread]
      /\ onDisk' = [onDisk EXCEPT ![t] = NoContent]
      /\ call' = [call EXCEPT ![t] = NoCall]
      /\ UNCHANGED <<file, cache, events, torn, commits, cut, calls, kills>>
  BY DEF Fail, At
<1>2. TypeOK'
  BY <1>1 DEF TypeOK, Place
<1>3. FlockHeld' /\ CallsAreReal' /\ CopyIsFresh'
  BY <1>1 DEF TypeOK, FlockHeld, CallsAreReal, CopyIsFresh, Critical
<1>4. NoUpdateDropped'
  BY <1>1 DEF NoUpdateDropped, LastChange
<1>5. QED
  BY <1>2, <1>3, <1>4

LEMMA AppendFailsKeeps ==
    ASSUME IInv, NEW t \in Thread, AppendFails(t)
    PROVE  IInv'
<1> USE DEF IInv
<1>1. /\ pc' = [pc EXCEPT ![t] = "idle"]
      /\ cut' = cut \cup {call[t].id}
      /\ call' = [call EXCEPT ![t] = NoCall]
      /\ pc[t] = "event"
      /\ torn' \in {torn, TRUE}
      /\ UNCHANGED <<file, flock, mutex, cache, onDisk, events, commits, calls, kills>>
  BY DEF AppendFails, At
<1>2. call[t].id \in Row
  BY <1>1 DEF CallsAreReal, Call
<1>3. TypeOK'
  BY <1>1, <1>2 DEF TypeOK, Place
<1>4. FlockHeld' /\ CallsAreReal' /\ CopyIsFresh'
  BY <1>1 DEF TypeOK, FlockHeld, CallsAreReal, CopyIsFresh, Critical
<1>5. NoUpdateDropped'
  BY <1>1 DEF NoUpdateDropped, LastChange
<1>6. QED
  BY <1>3, <1>4, <1>5

LEMMA KillKeeps ==
    ASSUME IInv, NEW p \in Process, Kill(p)
    PROVE  IInv'
<1> USE DEF IInv
<1>1. /\ kills < MaxKills /\ kills' = kills + 1
      /\ flock' = IF flock \in Threads(p) THEN NoThread ELSE flock
      /\ mutex' = [mutex EXCEPT ![p] = NoThread]
      /\ cache' = [cache EXCEPT ![p] = NoContent]
      /\ pc' = [t \in Thread |-> IF t \in Threads(p) THEN "idle" ELSE pc[t]]
      /\ call' = [t \in Thread |-> IF t \in Threads(p) THEN NoCall ELSE call[t]]
      /\ onDisk' = [t \in Thread |-> IF t \in Threads(p) THEN NoContent ELSE onDisk[t]]
      /\ cut' = cut \cup {call[t].id : t \in {u \in Threads(p) : pc[u] # "idle"}}
      /\ torn' \in BOOLEAN
      /\ UNCHANGED <<file, events, commits, calls>>
  BY DEF Kill, TypeOK
<1>2. {call[t].id : t \in {u \in Threads(p) : pc[u] # "idle"}} \subseteq Row
  BY DEF Threads, CallsAreReal, Call
<1>3. kills' \in 0 .. MaxKills
  BY <1>1, StateAssumption DEF TypeOK
<1>4. cache' \in [Process -> Content \cup {NoContent}] /\ cut' \subseteq Row
  BY <1>1, <1>2 DEF TypeOK
<1>5. \A t \in Thread : pc'[t] # "idle" => cache'[Home[t]] # NoContent
  BY <1>1, StateAssumption DEF TypeOK, Threads
<1>6. TypeOK'
  BY <1>1, <1>3, <1>4, <1>5 DEF TypeOK, Place
<1>7. FlockHeld' /\ CallsAreReal' /\ CopyIsFresh'
  BY <1>1 DEF TypeOK, FlockHeld, CallsAreReal, CopyIsFresh, Critical
<1>8. NoUpdateDropped'
  BY <1>1 DEF NoUpdateDropped, LastChange
<1>9. QED
  BY <1>6, <1>7, <1>8

LEMMA RestartKeeps ==
    ASSUME IInv, NEW p \in Process, Restart(p)
    PROVE  IInv'
<1> USE DEF IInv
<1>1. /\ cache' = [cache EXCEPT ![p] = file]
      /\ UNCHANGED <<file, flock, mutex, pc, call, onDisk, events, torn, commits, cut,
                     calls, kills>>
  BY DEF Restart
<1>2. TypeOK'
  BY <1>1, StateAssumption, ContentIsThere DEF TypeOK
<1>3. FlockHeld' /\ CallsAreReal' /\ CopyIsFresh' /\ NoUpdateDropped'
  BY <1>1 DEF FlockHeld, CallsAreReal, CopyIsFresh, NoUpdateDropped, LastChange
<1>4. QED
  BY <1>2, <1>3

LEMMA NextKeeps == IInv /\ [Next]_vars => IInv'
<1> SUFFICES ASSUME IInv, [Next]_vars
             PROVE  IInv'
  OBVIOUS
<1>1. ASSUME NEW t \in Thread, Step(t)
      PROVE  IInv'
  BY <1>1, EnterKeeps, LockKeeps, ReadKeeps, ReplaceKeeps, UnlockKeeps,
     AppendEventKeeps, FailKeeps, AppendFailsKeeps DEF Step
<1>2. ASSUME NEW p \in Process, Kill(p) \/ Restart(p)
      PROVE  IInv'
  BY <1>2, KillKeeps, RestartKeeps
<1>3. CASE UNCHANGED vars
  BY <1>3 DEF vars, IInv, TypeOK, FlockHeld, CallsAreReal, CopyIsFresh,
              NoUpdateDropped, LastChange
<1>4. QED
  BY <1>1, <1>2, <1>3 DEF Next

THEOREM Invariance == Spec => []IInv
<1>1. Init => IInv
  BY InitInvariant
<1>2. IInv /\ [Next]_vars => IInv'
  BY NextKeeps
<1>3. QED
  BY <1>1, <1>2, PTL DEF Spec

(* Every state of the files, caches and locks has its type, and a thread   *)
(* in a call belongs to a process that runs (state.py:15-213).             *)
THEOREM TypeCorrect == Spec => []TypeOK
<1>1. IInv => TypeOK
  BY DEF IInv
<1>2. QED
  BY <1>1, Invariance, PTL

(* state.py:117-121: no update is dropped, whatever threads and processes  *)
(* write, fail and die: a row is what the last call that changed it made   *)
(* of it.                                                                  *)
THEOREM UpdatesCorrect == Spec => []NoUpdateDropped
<1>1. IInv => NoUpdateDropped
  BY DEF IInv
<1>2. QED
  BY <1>1, Invariance, PTL

-----------------------------------------------------------------------------
(* The refinement: per action, the request of its thread and the step of    *)
(* the store it is.                                                         *)

LEMMA AskedInCall ==
    ASSUME NEW t \in Thread, pc[t] # "idle"
    PROVE  /\ Asked(t) # [done |-> FALSE]
           /\ Asked(t).key = call[t].key
           /\ Asked(t).value = call[t].value
           /\ Asked(t).done = (pc[t] \in {"unlock", "event"})
<1>1. Asked(t) = [key |-> call[t].key, value |-> call[t].value,
                  done |-> pc[t] \in {"unlock", "event"}]
  BY DEF Asked
<1>2. "key" \in DOMAIN Asked(t)
  BY <1>1
<1>3. "key" \notin DOMAIN [done |-> FALSE]
  OBVIOUS
<1>4. Asked(t) # [done |-> FALSE]
  BY <1>2, <1>3
<1>5. QED
  BY <1>1, <1>4

\* Steps of t that change its place and nothing of its request.
LEMMA SameRequest ==
    ASSUME IInv, NEW t \in Thread, Lock(t) \/ Read(t) \/ Unlock(t)
    PROVE  UNCHANGED Store!storeVars
<1> USE DEF IInv
<1>1. file' = file /\ call' = call
  BY DEF Lock, Read, Unlock
<1>2. /\ pc[t] # "idle" /\ pc'[t] # "idle"
      /\ pc[t] \in {"unlock", "event"} <=> pc'[t] \in {"unlock", "event"}
      /\ \A u \in Thread \ {t} : pc'[u] = pc[u]
  BY DEF Lock, Read, Unlock, At, TypeOK
<1>3. \A u \in Thread : Asked(u)' = Asked(u)
  <2>1. ASSUME NEW u \in Thread, u # t
        PROVE  Asked(u)' = Asked(u)
    BY <1>1, <1>2, <2>1 DEF Asked
  <2>2. (pc[t] \in {"unlock", "event"})' = (pc[t] \in {"unlock", "event"})
    BY <1>2
  <2>3. Asked(t)' = Asked(t)
    BY <1>1, <1>2, <2>2 DEF Asked
  <2>4. QED
    BY <2>1, <2>3
<1>4. QED
  BY <1>1, <1>3 DEF Store!storeVars

LEMMA EnterAsks ==
    ASSUME IInv, NEW t \in Thread, Enter(t)
    PROVE  Store!Ask(t)
<1> USE DEF IInv
<1>1. PICK k \in Key, v \in {calls + 1, Absent} :
        call' = [call EXCEPT ![t] = [id |-> calls + 1, by |-> t, key |-> k, value |-> v]]
  BY DEF Enter
<1>2. v \in Row \cup {Absent}
  BY StateAssumption DEF Enter, TypeOK, Row
<1>3. Asked(t) = [done |-> FALSE]
  BY DEF Enter, Asked
<1>4. pc'[t] = "lock" /\ call'[t].key = k /\ call'[t].value = v
  BY <1>1 DEF Enter, At, TypeOK
<1>5. Asked(t)' = [key |-> k, value |-> v, done |-> FALSE]
  <2>1. (pc[t] \in {"unlock", "event"})' = FALSE
    BY <1>4
  <2>2. QED
    BY <1>4, <2>1, Zenon DEF Asked
<1>6. \A u \in Thread \ {t} : Asked(u)' = Asked(u)
  BY <1>1 DEF Enter, At, Asked, TypeOK
<1>7. file' = file
  BY DEF Enter
<1>8. QED
  BY <1>2, <1>3, <1>5, <1>6, <1>7 DEF Store!Ask, Store!NoRequest

LEMMA ReplaceApplies ==
    ASSUME IInv, NEW t \in Thread, Replace(t)
    PROVE  Store!Apply(t)
<1> USE DEF IInv
<1>1. /\ pc[t] = "write" /\ pc'[t] = "unlock" /\ call' = call
      /\ file' = [file EXCEPT ![call[t].key] = call[t].value]
      /\ \A u \in Thread \ {t} : pc'[u] = pc[u]
  BY DEF Replace, At, TypeOK, CopyIsFresh
<1>2. /\ Asked(t) = [key |-> call[t].key, value |-> call[t].value, done |-> FALSE]
      /\ Asked(t)' = [key |-> call[t].key, value |-> call[t].value, done |-> TRUE]
  <2>1. /\ (pc[t] \in {"unlock", "event"}) = FALSE
        /\ (pc[t] \in {"unlock", "event"})' = TRUE
        /\ pc[t] # "idle" /\ pc'[t] # "idle"
    BY <1>1
  <2>2. QED
    BY <1>1, <2>1, Zenon DEF Asked
<1>3. \A u \in Thread \ {t} : Asked(u)' = Asked(u)
  BY <1>1 DEF Asked
<1>4. Asked(t) # [done |-> FALSE]
  BY <1>1, AskedInCall
<1>5. Asked(t)' = [Asked(t) EXCEPT !.done = TRUE]
  <2>1. ASSUME NEW k \in Key, NEW v \in Row \cup {Absent},
               NEW before \in BOOLEAN, NEW after \in BOOLEAN
        PROVE  [key |-> k, value |-> v, done |-> after] =
                 [[key |-> k, value |-> v, done |-> before] EXCEPT !.done = after]
    OBVIOUS
  <2>2. call[t].key \in Key /\ call[t].value \in Row \cup {Absent}
    BY <1>1 DEF CallsAreReal, Call
  <2>3. [key |-> call[t].key, value |-> call[t].value, done |-> TRUE] =
          [[key |-> call[t].key, value |-> call[t].value, done |-> FALSE]
             EXCEPT !.done = TRUE]
    BY <2>1, <2>2, Zenon
  <2>4. QED
    BY <1>2, <2>3, Zenon
<1>6. file' = [file EXCEPT ![Asked(t).key] = Asked(t).value]
  BY <1>1, <1>2
<1>7. ~Asked(t).done
  BY <1>2
<1>8. QED
  BY <1>3, <1>4, <1>5, <1>6, <1>7 DEF Store!Apply, Store!NoRequest

LEMMA EventAnswers ==
    ASSUME IInv, NEW t \in Thread, AppendEvent(t) \/ AppendFails(t)
    PROVE  Store!Answer(t)
<1> USE DEF IInv
<1>1. /\ pc[t] = "event" /\ pc'[t] = "idle" /\ file' = file
      /\ \A u \in Thread \ {t} : pc'[u] = pc[u] /\ call'[u] = call[u]
  BY DEF AppendEvent, AppendFails, At, TypeOK
<1>2. Asked(t).done
  BY <1>1 DEF Asked
<1>3. Asked(t)' = [done |-> FALSE]
  BY <1>1 DEF Asked
<1>4. \A u \in Thread \ {t} : Asked(u)' = Asked(u)
  BY <1>1 DEF Asked
<1>5. QED
  BY <1>1, <1>2, <1>3, <1>4 DEF Store!Answer, Store!NoRequest

LEMMA FailGivesUp ==
    ASSUME IInv, NEW t \in Thread, Fail(t)
    PROVE  Store!GiveUp({t})
<1> USE DEF IInv
<1>1. /\ pc'[t] = "idle" /\ file' = file
      /\ \A u \in Thread \ {t} : pc'[u] = pc[u] /\ call'[u] = call[u]
  BY DEF Fail, At, TypeOK
<1>2. Asked(t)' = [done |-> FALSE]
  BY <1>1 DEF Asked
<1>3. \A u \in Thread \ {t} : Asked(u)' = Asked(u)
  BY <1>1 DEF Asked
<1>4. QED
  BY <1>1, <1>2, <1>3 DEF Store!GiveUp, Store!NoRequest

LEMMA KillGivesUp ==
    ASSUME IInv, NEW p \in Process, Kill(p)
    PROVE  Store!GiveUp(Threads(p))
<1>1. /\ file' = file
      /\ \A u \in Threads(p) : pc'[u] = "idle"
      /\ \A u \in Thread \ Threads(p) : pc'[u] = pc[u] /\ call'[u] = call[u]
  BY DEF Kill, Threads
<1>2. \A u \in Threads(p) : Asked(u)' = [done |-> FALSE]
  BY <1>1 DEF Asked
<1>3. \A u \in Thread \ Threads(p) : Asked(u)' = Asked(u)
  BY <1>1 DEF Asked
<1>4. QED
  BY <1>1, <1>2, <1>3 DEF Store!GiveUp, Store!NoRequest, Threads

LEMMA NextIsStoreStep ==
    IInv /\ [Next]_vars => [Store!StoreNext]_(Store!storeVars)
<1> SUFFICES ASSUME IInv, [Next]_vars
             PROVE  [Store!StoreNext]_(Store!storeVars)
  OBVIOUS
<1>1. ASSUME NEW t \in Thread, Step(t)
      PROVE  [Store!StoreNext]_(Store!storeVars)
  <2>1. CASE Lock(t) \/ Read(t) \/ Unlock(t)
    BY <2>1, SameRequest
  <2>2. CASE Enter(t) \/ Replace(t) \/ AppendEvent(t) \/ AppendFails(t)
    BY <2>2, EnterAsks, ReplaceApplies, EventAnswers DEF Store!StoreNext
  <2>3. CASE Fail(t)
    <3>1. {t} \in SUBSET Thread
      OBVIOUS
    <3>2. QED
      BY <2>3, <3>1, FailGivesUp DEF Store!StoreNext
  <2>4. QED
    BY <1>1, <2>1, <2>2, <2>3 DEF Step
<1>2. ASSUME NEW p \in Process, Kill(p)
      PROVE  [Store!StoreNext]_(Store!storeVars)
  <2>1. Threads(p) \in SUBSET Thread
    BY DEF Threads
  <2>2. QED
    BY <1>2, <2>1, KillGivesUp DEF Store!StoreNext
<1>3. ASSUME NEW p \in Process, Restart(p)
      PROVE  UNCHANGED Store!storeVars
  BY <1>3 DEF Restart, Store!storeVars, Asked
<1>4. CASE UNCHANGED vars
  BY <1>4 DEF vars, Store!storeVars, Asked
<1>5. QED
  BY <1>1, <1>2, <1>3, <1>4 DEF Next

(* state.json is a map whose sets and deletes are atomic, each applied at   *)
(* most once and before its call returns: state.py:114-213 implements       *)
(* TaskStore.                                                               *)
THEOREM StateManagerImplementsStore == Spec => ImplementsStore
<1>1. Init => Store!StoreInit
  BY DEF Init, Store!StoreInit, Store!NoRequest, Asked, Empty
<1>2. IInv /\ [Next]_vars => [Store!StoreNext]_(Store!storeVars)
  BY NextIsStoreStep
<1>3. QED
  BY <1>1, <1>2, Invariance, PTL DEF Spec, ImplementsStore, Store!StoreSpec

-----------------------------------------------------------------------------
(* The caches.                                                              *)

\* A thread that has replaced the file and still holds the flock has the
\* file in its hands; this is what it makes the cache of its process.
CopyIsWritten == \A t \in Thread : pc[t] = "unlock" => onDisk[t] = file

CacheInv == CopyIsWritten /\ ReadsOwnWrites

LEMMA CommitsAreCalls ==
    ASSUME TypeOK
    PROVE  \A i \in DOMAIN commits : commits[i] \in Call /\ commits[i].by \in Thread
<1>1. \A i \in DOMAIN commits : commits[i] \in Call
  BY DEF TypeOK
<1>2. \A c \in Call : c.by \in Thread
  BY DEF Call
<1>3. QED
  BY <1>1, <1>2

LEMMA ReplaceKeepsCaches ==
    ASSUME IInv, CacheInv, NEW t \in Thread, Replace(t)
    PROVE  CacheInv'
<1> USE DEF IInv, CacheInv
<1>1. /\ pc' = [pc EXCEPT ![t] = "unlock"]
      /\ file' = onDisk[t]
      /\ commits' = Append(commits, call[t])
      /\ pc[t] = "write"
      /\ cache' = cache /\ onDisk' = onDisk
  BY DEF Replace, At
<1>2. /\ call[t] \in Call
      /\ onDisk[t] = [file EXCEPT ![call[t].key] = call[t].value]
  BY <1>1 DEF CallsAreReal, CopyIsFresh
<1>3. CopyIsWritten'
  BY <1>1 DEF CopyIsWritten, FlockHeld, Critical, TypeOK
<1>4. ReadsOwnWrites'
  <2>1. /\ commits'[Len(commits) + 1] = call[t]
        /\ \A i \in 1 .. Len(commits) : commits'[i] = commits[i]
        /\ DOMAIN commits' = 1 .. Len(commits) + 1
        /\ DOMAIN commits = 1 .. Len(commits)
        /\ Len(commits) \in Nat
    BY <1>1, <1>2, AppendProperties DEF TypeOK
  <2>2. SUFFICES ASSUME NEW p \in Process, NEW k \in Key, cache[p] # NoContent,
                        NEW i \in DOMAIN commits', LastChange(k, i)',
                        Home[commits'[i].by] = p
                 PROVE  \/ cache[p][k] = file'[k]
                        \/ pc'[commits'[i].by] = "unlock"
    BY <1>1 DEF ReadsOwnWrites
  <2>3. CASE i = Len(commits) + 1
    <3>1. commits'[i].by = t
      <4>1. \A j \in DOMAIN commits' : commits'[j] \in Call
        BY <1>1, <1>2, <2>1 DEF TypeOK
      <4>2. call[t].by = t
        BY <1>1 DEF CallsAreReal
      <4>3. QED
        BY <2>1, <2>3, <4>2
    <3>2. QED
      BY <1>1, <3>1 DEF TypeOK
  <2>4. CASE i # Len(commits) + 1
    <3>1. i \in DOMAIN commits /\ commits'[i] = commits[i] /\ commits[i] \in Call
      BY <2>1, <2>4 DEF TypeOK
    <3>2. call[t].key # k
      BY <2>1, <2>2, <3>1 DEF LastChange
    <3>3. LastChange(k, i)
      BY <2>1, <2>2, <3>1 DEF LastChange
    <3>4. file'[k] = file[k]
      BY <1>1, <1>2, <3>2 DEF TypeOK, Content
    <3>5. commits[i].by \in Thread
      BY <3>1 DEF Call
    <3>6. cache[p][k] = file[k] \/ pc[commits[i].by] = "unlock"
      BY <2>2, <3>1, <3>3 DEF ReadsOwnWrites
    <3>7. QED
      BY <1>1, <3>1, <3>4, <3>5, <3>6 DEF TypeOK
  <2>5. QED
    BY <2>3, <2>4
<1>5. QED
  BY <1>3, <1>4

LEMMA UnlockKeepsCaches ==
    ASSUME IInv, CacheInv, NEW t \in Thread, Unlock(t)
    PROVE  CacheInv'
<1> USE DEF IInv, CacheInv
<1>1. /\ pc' = [pc EXCEPT ![t] = "event"]
      /\ cache' = [cache EXCEPT ![Home[t]] = onDisk[t]]
      /\ onDisk' = [onDisk EXCEPT ![t] = NoContent]
      /\ pc[t] = "unlock"
      /\ file' = file /\ commits' = commits
  BY DEF Unlock, At
<1>2. onDisk[t] = file
  BY <1>1 DEF CopyIsWritten
<1>3. CopyIsWritten'
  BY <1>1 DEF CopyIsWritten, TypeOK
<1>4. ReadsOwnWrites'
  <2>1. SUFFICES ASSUME NEW p \in Process, NEW k \in Key, cache'[p] # NoContent,
                        NEW i \in DOMAIN commits, LastChange(k, i),
                        Home[commits[i].by] = p
                 PROVE  \/ cache'[p][k] = file[k]
                        \/ pc'[commits[i].by] = "unlock"
    BY <1>1 DEF ReadsOwnWrites, LastChange
  <2>2. CASE p = Home[t]
    BY <1>1, <1>2, <2>2 DEF TypeOK
  <2>3. CASE p # Home[t]
    <3>1. commits[i].by \in Thread /\ commits[i].by # t
      BY <2>1, <2>3, CommitsAreCalls
    <3>2. cache'[p] = cache[p]
      BY <1>1, <2>3 DEF TypeOK
    <3>3. QED
      BY <1>1, <2>1, <3>1, <3>2 DEF ReadsOwnWrites, TypeOK
  <2>4. QED
    BY <2>2, <2>3
<1>5. QED
  BY <1>3, <1>4

\* The other steps of a thread leave files and caches alone.
LEMMA OtherStepsKeepCaches ==
    ASSUME IInv, CacheInv, NEW t \in Thread,
           Enter(t) \/ Lock(t) \/ Read(t) \/ AppendEvent(t) \/ Fail(t) \/ AppendFails(t)
    PROVE  CacheInv'
<1> USE DEF IInv, CacheInv
<1>1. /\ file' = file /\ cache' = cache /\ commits' = commits
      /\ pc[t] # "unlock" /\ pc'[t] # "unlock"
      /\ \A u \in Thread \ {t} : pc'[u] = pc[u] /\ onDisk'[u] = onDisk[u]
  BY DEF Enter, Lock, Read, AppendEvent, Fail, AppendFails, At, TypeOK
<1>2. CopyIsWritten'
  BY <1>1 DEF CopyIsWritten
<1>3. \A i \in DOMAIN commits : commits[i].by \in Thread
  BY CommitsAreCalls
<1>4. \A u \in Thread : pc[u] = "unlock" => pc'[u] = "unlock"
  BY <1>1
<1>5. ReadsOwnWrites'
  BY <1>1, <1>3, <1>4 DEF ReadsOwnWrites, LastChange
<1>6. QED
  BY <1>2, <1>5

LEMMA ProcessesKeepCaches ==
    ASSUME IInv, CacheInv, NEW p \in Process, Kill(p) \/ Restart(p)
    PROVE  CacheInv'
<1> USE DEF IInv, CacheInv
<1>1. \A i \in DOMAIN commits : commits[i].by \in Thread
  BY CommitsAreCalls
<1>2. CASE Kill(p)
  <2>1. /\ file' = file /\ commits' = commits
        /\ cache' = [cache EXCEPT ![p] = NoContent]
        /\ \A u \in Threads(p) : pc'[u] # "unlock"
        /\ \A u \in Thread \ Threads(p) : pc'[u] = pc[u] /\ onDisk'[u] = onDisk[u]
    BY <1>2 DEF Kill, Threads
  <2>2. CopyIsWritten'
    BY <2>1 DEF CopyIsWritten
  <2>3. ReadsOwnWrites'
    <3>1. SUFFICES ASSUME NEW q \in Process, NEW k \in Key, cache'[q] # NoContent,
                          NEW i \in DOMAIN commits, LastChange(k, i),
                          Home[commits[i].by] = q
                   PROVE  \/ cache'[q][k] = file[k]
                          \/ pc'[commits[i].by] = "unlock"
      BY <2>1 DEF ReadsOwnWrites, LastChange
    <3>2. q # p /\ cache'[q] = cache[q]
      BY <2>1, <3>1 DEF TypeOK
    <3>3. commits[i].by \in Thread \ Threads(p)
      BY <1>1, <3>1, <3>2 DEF Threads
    <3>4. QED
      BY <2>1, <3>1, <3>2, <3>3 DEF ReadsOwnWrites
  <2>4. QED
    BY <2>2, <2>3
<1>3. CASE Restart(p)
  <2>1. /\ cache' = [cache EXCEPT ![p] = file]
        /\ UNCHANGED <<file, pc, onDisk, commits>>
    BY <1>3 DEF Restart
  <2>2. QED
    BY <2>1 DEF CopyIsWritten, ReadsOwnWrites, LastChange, TypeOK
<1>4. QED
  BY <1>2, <1>3

(* A process reads its own writes (state.py:178): where one of its threads  *)
(* made the last change of a row and has its locks behind it, the cached    *)
(* row is the row in the file.                                              *)
THEOREM CachesCorrect == Spec => []ReadsOwnWrites
<1>1. Init => CacheInv
  BY DEF Init, CacheInv, CopyIsWritten, ReadsOwnWrites
<1>2. IInv /\ CacheInv /\ [Next]_vars => CacheInv'
  <2> SUFFICES ASSUME IInv, CacheInv, [Next]_vars
               PROVE  CacheInv'
    OBVIOUS
  <2>1. CASE UNCHANGED vars
    BY <2>1 DEF vars, CacheInv, CopyIsWritten, ReadsOwnWrites, LastChange
  <2>2. QED
    BY <2>1, ReplaceKeepsCaches, UnlockKeepsCaches, OtherStepsKeepCaches,
       ProcessesKeepCaches DEF Next, Step
<1>3. CacheInv => ReadsOwnWrites
  BY DEF CacheInv
<1>4. QED
  BY <1>1, <1>2, <1>3, Invariance, PTL DEF Spec

-----------------------------------------------------------------------------
(* The event log.                                                           *)

\* Calls under way have ids of their own, none of which is in the log yet;
\* those that have replaced the file are among the commits.
CallsAreApart ==
    /\ \A t \in Thread :
         pc[t] # "idle" => call[t].id <= calls /\ call[t].id \notin Ids(events)
    /\ \A t, u \in Thread :
         pc[t] # "idle" /\ pc[u] # "idle" /\ call[t].id = call[u].id => t = u
    /\ \A id \in Ids(commits) : id <= calls
    /\ \A t \in Thread :
         pc[t] \in {"unlock", "event"} => call[t].id \in Ids(commits)

EventInv == CallsAreApart /\ EventsTellCommits

LEMMA IdsOfAppend ==
    ASSUME NEW log \in Seq(Call), NEW c \in Call
    PROVE  Ids(Append(log, c)) = Ids(log) \cup {c.id}
<1>1. /\ DOMAIN Append(log, c) = 1 .. Len(log) + 1
      /\ DOMAIN log = 1 .. Len(log)
      /\ Len(log) \in Nat
      /\ \A i \in 1 .. Len(log) : Append(log, c)[i] = log[i]
      /\ Append(log, c)[Len(log) + 1] = c
  BY AppendProperties
<1>2. QED
  BY <1>1 DEF Ids

\* The ids of the threads that still have to append their event.
Pending == {call[t].id : t \in {u \in Thread : pc[u] \in {"unlock", "event"}}}

LEMMA EnterKeepsEvents ==
    ASSUME IInv, EventInv, NEW t \in Thread, Enter(t)
    PROVE  EventInv'
<1> USE DEF IInv, EventInv
<1>1. /\ pc[t] = "idle" /\ pc'[t] = "lock"
      /\ call'[t].id = calls + 1 /\ calls' = calls + 1
      /\ \A u \in Thread \ {t} : pc'[u] = pc[u] /\ call'[u] = call[u]
      /\ UNCHANGED <<events, commits, cut>>
  <2>1. PICK k \in Key, v \in {calls + 1, Absent} :
          call' = [call EXCEPT ![t] = [id |-> calls + 1, by |-> t, key |-> k, value |-> v]]
    BY DEF Enter
  <2>2. QED
    BY <2>1 DEF Enter, At, TypeOK
<1>2. calls \in Nat /\ \A id \in Ids(commits) : id \in Nat /\ id <= calls
  <2>1. \A c \in Call : c.id \in Nat
    BY DEF Call, Row
  <2>2. QED
    BY <2>1, CommitsAreCalls DEF TypeOK, CallsAreApart, Ids
<1>3. Ids(events)' = Ids(events) /\ Ids(commits)' = Ids(commits)
  BY <1>1 DEF Ids
<1>4. Ids(events) \subseteq Ids(commits)
  BY DEF EventsTellCommits
<1>5. \A u \in Thread : pc[u] # "idle" => call[u].id \in Nat /\ call[u].id <= calls
  BY DEF CallsAreApart, CallsAreReal, Call, Row
<1>6. CallsAreApart'
  BY <1>1, <1>2, <1>3, <1>4, <1>5 DEF CallsAreApart
<1>7. Pending' = Pending
  BY <1>1 DEF Pending
<1>8. EventsTellCommits'
  BY <1>1, <1>3, <1>7 DEF EventsTellCommits, Pending
<1>9. QED
  BY <1>6, <1>8

\* Steps of t on its way to replacing the file, and the release of the locks.
LEMMA QuietStepsKeepEvents ==
    ASSUME IInv, EventInv, NEW t \in Thread, Lock(t) \/ Read(t) \/ Unlock(t) \/ Fail(t)
    PROVE  EventInv'
<1> USE DEF IInv, EventInv
<1>1. /\ pc[t] # "idle"
      /\ pc'[t] # "idle" => call'[t] = call[t]
      /\ pc'[t] \in {"unlock", "event"} <=> pc[t] \in {"unlock", "event"}
      /\ \A u \in Thread \ {t} : pc'[u] = pc[u] /\ call'[u] = call[u]
      /\ UNCHANGED <<events, commits, cut, calls>>
  BY DEF Lock, Read, Unlock, Fail, At, TypeOK
<1>2. Ids(events)' = Ids(events) /\ Ids(commits)' = Ids(commits)
  BY <1>1 DEF Ids
<1>3. \A u \in Thread : pc'[u] # "idle" => pc[u] # "idle" /\ call'[u] = call[u]
  BY <1>1
<1>4. \A u \in Thread : pc'[u] \in {"unlock", "event"} <=> pc[u] \in {"unlock", "event"}
  BY <1>1
<1>5. CallsAreApart'
  BY <1>1, <1>2, <1>3, <1>4 DEF CallsAreApart
<1>6. Pending' = Pending
  BY <1>3, <1>4 DEF Pending
<1>7. EventsTellCommits'
  BY <1>1, <1>2, <1>6 DEF EventsTellCommits, Pending
<1>8. QED
  BY <1>5, <1>7

LEMMA ReplaceKeepsEvents ==
    ASSUME IInv, EventInv, NEW t \in Thread, Replace(t)
    PROVE  EventInv'
<1> USE DEF IInv, EventInv
<1>1. /\ pc[t] = "write" /\ pc'[t] = "unlock"
      /\ \A u \in Thread \ {t} : pc'[u] = pc[u]
      /\ commits' = Append(commits, call[t])
      /\ UNCHANGED <<call, events, cut, calls>>
  BY DEF Replace, At, TypeOK
<1>2. call[t] \in Call
  BY <1>1 DEF CallsAreReal
<1>3. Ids(commits)' = Ids(commits) \cup {call[t].id}
  <2>1. Ids(Append(commits, call[t])) = Ids(commits) \cup {call[t].id}
    BY <1>2, IdsOfAppend DEF TypeOK
  <2>2. QED
    BY <1>1, <2>1 DEF Ids
<1>4. Ids(events)' = Ids(events)
  BY <1>1 DEF Ids
<1>5. CallsAreApart'
  BY <1>1, <1>3, <1>4 DEF CallsAreApart
<1>6. Pending \subseteq Pending' /\ call[t].id \in Pending'
  BY <1>1 DEF Pending
<1>7. EventsTellCommits'
  BY <1>1, <1>3, <1>4, <1>6 DEF EventsTellCommits, Pending
<1>8. QED
  BY <1>5, <1>7

LEMMA AppendEventKeepsEvents ==
    ASSUME IInv, EventInv, NEW t \in Thread, AppendEvent(t), ~torn
    PROVE  EventInv'
<1> USE DEF IInv, EventInv
<1>1. /\ pc[t] = "event" /\ pc'[t] = "idle"
      /\ \A u \in Thread \ {t} : pc'[u] = pc[u] /\ call'[u] = call[u]
      /\ events' = Append(events, call[t])
      /\ UNCHANGED <<commits, cut, calls>>
  BY DEF AppendEvent, At, TypeOK
<1>2. call[t] \in Call
  BY <1>1 DEF CallsAreReal
<1>3. Ids(events)' = Ids(events) \cup {call[t].id}
  <2>1. Ids(Append(events, call[t])) = Ids(events) \cup {call[t].id}
    BY <1>2, IdsOfAppend DEF TypeOK
  <2>2. QED
    BY <1>1, <2>1 DEF Ids
<1>4. Ids(commits)' = Ids(commits)
  BY <1>1 DEF Ids
<1>5. CallsAreApart'
  BY <1>1, <1>3, <1>4 DEF CallsAreApart
<1>6. Pending \subseteq Pending' \cup {call[t].id}
  BY <1>1 DEF Pending
<1>7. \A i, j \in DOMAIN events' : events'[i].id = events'[j].id => i = j
  <2>1. /\ DOMAIN events' = 1 .. Len(events) + 1
        /\ DOMAIN events = 1 .. Len(events)
        /\ Len(events) \in Nat
        /\ \A i \in 1 .. Len(events) : events'[i] = events[i]
        /\ events'[Len(events) + 1] = call[t]
    BY <1>1, <1>2, AppendProperties DEF TypeOK
  <2>2. \A i \in DOMAIN events : events[i].id # call[t].id
    BY <1>1 DEF CallsAreApart, Ids
  <2>3. QED
    BY <2>1, <2>2 DEF EventsTellCommits
<1>8. call[t].id \in Ids(commits)
  BY <1>1 DEF CallsAreApart
<1>9. EventsTellCommits'
  BY <1>1, <1>3, <1>4, <1>6, <1>7, <1>8 DEF EventsTellCommits, Pending
<1>10. QED
  BY <1>5, <1>9

\* Where an event is lost, its call is counted as cut short.
LEMMA LossKeepsEvents ==
    ASSUME IInv, EventInv,
           \/ \E t \in Thread : AppendFails(t)
           \/ torn /\ \E t \in Thread : AppendEvent(t)
           \/ \E p \in Process : Kill(p)
    PROVE  EventInv'
<1> USE DEF IInv, EventInv
<1> DEFINE Dropped ==
      /\ \A u \in Thread :
           \/ pc'[u] = pc[u] /\ call'[u] = call[u]
           \/ pc'[u] = "idle" /\ (pc[u] # "idle" => call[u].id \in cut')
      /\ cut \subseteq cut'
      /\ UNCHANGED <<events, commits, calls>>
<1>1. Dropped
  <2>1. ASSUME NEW t \in Thread, AppendFails(t) \/ (torn /\ AppendEvent(t))
        PROVE  Dropped
    BY <2>1 DEF AppendFails, AppendEvent, At, TypeOK
  <2>2. ASSUME NEW p \in Process, Kill(p)
        PROVE  Dropped
    <3>1. /\ pc' = [t \in Thread |-> IF t \in Threads(p) THEN "idle" ELSE pc[t]]
          /\ call' = [t \in Thread |-> IF t \in Threads(p) THEN NoCall ELSE call[t]]
          /\ cut' = cut \cup {call[t].id : t \in {u \in Threads(p) : pc[u] # "idle"}}
          /\ UNCHANGED <<events, commits, calls>>
      BY <2>2 DEF Kill
    <3>2. QED
      BY <3>1
  <2>3. QED
    BY <2>1, <2>2
<1>2. Ids(events)' = Ids(events) /\ Ids(commits)' = Ids(commits)
  BY <1>1 DEF Ids
<1>3. CallsAreApart'
  BY <1>1, <1>2 DEF CallsAreApart
<1>4. Pending \subseteq Pending' \cup cut'
  BY <1>1 DEF Pending
<1>5. EventsTellCommits'
  BY <1>1, <1>2, <1>4 DEF EventsTellCommits, Pending
<1>6. QED
  BY <1>3, <1>5

(* The audit log and the file agree (state.py:180-213): an event is written *)
(* once and only for a change that was made, and a change without an event  *)
(* has a thread that is about to write it, or could not.                    *)
THEOREM LogCorrect == Spec => []EventsTellCommits
<1>1. Init => EventInv
  BY DEF Init, EventInv, CallsAreApart, EventsTellCommits, Ids
<1>2. IInv /\ EventInv /\ [Next]_vars => EventInv'
  <2> SUFFICES ASSUME IInv, EventInv, [Next]_vars
               PROVE  EventInv'
    OBVIOUS
  <2>1. ASSUME UNCHANGED <<pc, call, events, commits, cut, calls>>
        PROVE  EventInv'
    <3>1. Ids(events)' = Ids(events) /\ Ids(commits)' = Ids(commits)
      BY <2>1 DEF Ids
    <3>2. Pending' = Pending
      BY <2>1 DEF Pending
    <3>3. CallsAreApart'
      BY <2>1, <3>1 DEF EventInv, CallsAreApart
    <3>4. EventsTellCommits'
      BY <2>1, <3>1, <3>2 DEF EventInv, EventsTellCommits, Pending
    <3>5. QED
      BY <3>3, <3>4 DEF EventInv
  <2>2. CASE UNCHANGED vars
    BY <2>1, <2>2 DEF vars
  <2>3. ASSUME NEW p \in Process, Restart(p)
        PROVE  EventInv'
    BY <2>1, <2>3 DEF Restart
  <2>4. ASSUME NEW t \in Thread, AppendEvent(t)
        PROVE  EventInv'
    <3>1. CASE torn
      BY <2>4, <3>1, LossKeepsEvents
    <3>2. CASE ~torn
      BY <2>4, <3>2, AppendEventKeepsEvents
    <3>3. QED
      BY <3>1, <3>2
  <2>5. QED
    BY <2>2, <2>3, <2>4, EnterKeepsEvents, QuietStepsKeepEvents,
       ReplaceKeepsEvents, LossKeepsEvents DEF Next, Step
<1>3. EventInv => EventsTellCommits
  BY DEF EventInv
<1>4. QED
  BY <1>1, <1>2, <1>3, Invariance, PTL DEF Spec

=============================================================================
