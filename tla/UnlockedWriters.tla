--------------------------- MODULE UnlockedWriters ---------------------------
(***************************************************************************)
(* The two writers of state.json that go past StateManager's locks: the    *)
(* self-prompt loop (src/src/services/self_prompt.py) and the embedding    *)
(* quota (src/src/services/embed_quota.py) write the cached copy of their  *)
(* process over the file.  The rows of their own that they add to the copy *)
(* are left out.                                                           *)
(***************************************************************************)
EXTENDS StateManager

CONSTANT Dumper  \* the processes in which they run

VARIABLE writing  \* processes between open(filename, "w") and json.dump()

allVars == <<vars, writing>>

UnlockedInit == Init /\ writing = {}

\* embed_quota: the cached copy replaces the file in one step.
QuotaSave(p) ==
    /\ cache[p] # NoContent
    /\ file' = cache[p]
    /\ UNCHANGED <<flock, mutex, cache, pc, call, onDisk, events, torn, commits, cut,
                   calls, kills, writing>>

\* self_prompt: open() empties the file, which StateManager reads as no rows.
OpenForWriting(p) ==
    /\ cache[p] # NoContent
    /\ p \notin writing
    /\ file' = Empty
    /\ writing' = writing \cup {p}
    /\ UNCHANGED <<flock, mutex, cache, pc, call, onDisk, events, torn, commits, cut,
                   calls, kills>>

Dump(p) ==
    /\ p \in writing
    /\ file' = cache[p]
    /\ writing' = writing \ {p}
    /\ UNCHANGED <<flock, mutex, cache, pc, call, onDisk, events, torn, commits, cut,
                   calls, kills>>

UnlockedNext ==
    \/ (\E t \in Thread : Step(t)) /\ UNCHANGED writing
    \/ \E p \in Process : Kill(p) /\ writing' = writing \ {p}
    \/ \E p \in Process : Restart(p) /\ UNCHANGED writing
    \/ \E p \in Dumper : QuotaSave(p) \/ OpenForWriting(p) \/ Dump(p)

UnlockedSpec == UnlockedInit /\ [][UnlockedNext]_allVars

=============================================================================
