------------------------------ MODULE TaskStore ------------------------------
(***************************************************************************)
(* What the shared state file promises its clients: a map from task ids to *)
(* rows, where every set or delete is one atomic step somewhere between    *)
(* the call and the return, and a call that fails or is killed is applied  *)
(* once or not at all.  StateManager implements it.                        *)
(***************************************************************************)
CONSTANTS Client, Key, Value, Absent

VARIABLES
    store,   \* the rows; Absent where there is none
    request  \* per client: what it asked for, and whether that is done

storeVars == <<store, request>>

Request ==
    [key : Key, value : Value \cup {Absent}, done : BOOLEAN]

NoRequest == [done |-> FALSE]

StoreInit ==
    /\ store = [k \in Key |-> Absent]
    /\ request = [c \in Client |-> NoRequest]

\* A row is set to a value, or deleted.
Ask(c) ==
    /\ request[c] = NoRequest
    /\ \E k \in Key, v \in Value \cup {Absent} :
         request' = [request EXCEPT ![c] = [key |-> k, value |-> v, done |-> FALSE]]
    /\ UNCHANGED store

Apply(c) ==
    /\ request[c] # NoRequest
    /\ ~request[c].done
    /\ store' = [store EXCEPT ![request[c].key] = request[c].value]
    /\ request' = [request EXCEPT ![c].done = TRUE]

Answer(c) ==
    /\ request[c].done
    /\ request' = [request EXCEPT ![c] = NoRequest]
    /\ UNCHANGED store

\* A failure ends one request, the death of a process those of its threads.
GiveUp(cs) ==
    /\ request' = [c \in Client |-> IF c \in cs THEN NoRequest ELSE request[c]]
    /\ UNCHANGED store

StoreNext ==
    \/ \E c \in Client : Ask(c) \/ Apply(c) \/ Answer(c)
    \/ \E cs \in SUBSET Client : GiveUp(cs)

StoreSpec == StoreInit /\ [][StoreNext]_storeVars

=============================================================================
