------------------------------ MODULE PhaseLedger ------------------------------
(***************************************************************************)
(* The writers of one task's phase.  The engine (autonomous_sdlc.py) and   *)
(* the swarm CLI move the item that src/src/services/phase_store.py keeps  *)
(* in the row; the web router (src/src/webapp/routers/tasks.py) moves the  *)
(* phase and the history at the root of the row, from a copy of state.json *)
(* that is only reloaded when it writes.  Each writer reads the row, adds  *)
(* the move to the event log and replaces the whole row, in steps of its   *)
(* own; an append that fails raises.                                       *)
(***************************************************************************)
EXTENDS SdlcPhase, FiniteSets, Functions

CONSTANTS
    Process, \* engine cycles and CLI commands: each loads state.json when it starts
    Engine,  \* those of them that are cycles
    Thread,  \* requests to the web router, in threads of one process
    Target,  \* phases that are asked for
    MaxMoves \* bound: moves asked of the CLI and of the router

VARIABLES
    row,    \* state.json: the row of the task, or NoRow
    events, \* events.jsonl: the moves it tells of, <<from, to, how>>
    cache,  \* the web process's row, Unread before its first request
    untold, \* moves an engine kept although they could not be appended
    pc,     \* per process and thread: where it is
    mine,   \* per process and thread: the row it read, then the row it will save
    moves   \* bound: moves asked for

ledgerVars == <<row, events, cache, untold, pc, mine, moves>>

Writer == Process \cup Thread
How == {"gated", "forced", "web"}
Move == Phase \X Phase \X How

\* item is _work_item, NoItem before ensure_work_item().
NoItem == [phase |-> "none", history |-> << >>]
Start == [phase |-> "PLAN", history |-> << >>, item |-> NoItem]
NoRow == [Start EXCEPT !.phase = "none"]
Unread == [Start EXCEPT !.phase = "unread"]

IsRow(r) ==
    /\ DOMAIN r = {"phase", "history", "item"}
    /\ r.phase \in Phase \cup {"none", "unread"} /\ r.item.phase \in Phase \cup {"none"}
    /\ r.history \in Seq(Move) /\ r.item.history \in Seq(Move)

TypeOK ==
    /\ IsRow(row) /\ IsRow(cache)
    /\ events \in Seq(Move) /\ untold \subseteq Move /\ moves \in Nat
    /\ pc \in [Writer -> {"idle", "ensure", "advance", "climb", "save", "done"}]
    /\ \A w \in Writer : IsRow(mine[w])

Init ==
    /\ row = NoRow /\ events = << >> /\ cache = Unread /\ untold = {} /\ moves = 0
    /\ pc = [w \in Writer |-> "idle"]
    /\ mine = [w \in Writer |-> NoRow]

\* Another component registers the task.
SetTask ==
    /\ row = NoRow /\ row' = Start
    /\ UNCHANGED <<events, cache, untold, pc, mine, moves>>

-----------------------------------------------------------------------------
(* The engine and the CLI.                                                  *)

\* Whoever ends forgets what it read.
End(w) ==
    /\ pc' = [pc EXCEPT ![w] = "done"]
    /\ mine' = [mine EXCEPT ![w] = NoRow]

\* A StateManager loads the file.
cmd_phase_advance(p) ==
    /\ pc[p] = "idle"
    /\ mine' = [mine EXCEPT ![p] = row]
    /\ pc' = [pc EXCEPT ![p] = "ensure"]
    /\ UNCHANGED <<row, events, cache, untold, moves>>

\* The row as read, with its item; the phase is mirrored at the root.
save_work_item(r, item) ==
    [r EXCEPT !.item = item, !.phase = item.phase]

ensure_work_item(p) ==
    /\ pc[p] = "ensure"
    /\ IF mine[p].item # NoItem
         THEN UNCHANGED <<row, mine>>
         ELSE /\ row' = save_work_item(mine[p], [phase |-> "PLAN", history |-> << >>])
              /\ mine' = [mine EXCEPT ![p] = row']
    /\ pc' = [pc EXCEPT ![p] = "advance"]
    /\ UNCHANGED <<events, cache, untold, moves>>

\* PhaseController.advance(): the gates pass or an override goes past them,
\* and the item is moved ...
Moved(p, target, how) ==
    LET item == mine[p].item
    IN  /\ how = "gated" => can_advance(item.phase, target)
        /\ mine' = [mine EXCEPT ![p].item =
             [phase |-> target, history |-> Append(@.history, <<item.phase, target, how>>)]]

\* Mutant: the move is not logged.
Advance_Unlogged(p, target, how) ==
    Moved(p, target, how) /\ UNCHANGED <<events, untold>>

\* ... before the event is appended.
Advance(p, target, how) ==
    /\ Moved(p, target, how)
    /\ events' = Append(events, <<mine[p].item.phase, target, how>>) /\ UNCHANGED untold

\* A command moves once and saves.
Command(p, target, how) ==
    /\ p \notin Engine /\ pc[p] = "advance" /\ moves < MaxMoves
    /\ Advance(p, target, how)
    /\ pc' = [pc EXCEPT ![p] = "save"] /\ moves' = moves + 1
    /\ UNCHANGED <<row, cache>>

\* A gate blocks: the item is saved all the same.
Blocked(p, target) ==
    /\ p \notin Engine /\ pc[p] = "advance" /\ can_advance(mine[p].item.phase, target)
    /\ pc' = [pc EXCEPT ![p] = "save"]
    /\ UNCHANGED <<row, events, cache, untold, mine, moves>>

\* The edge does not exist: the command or the cycle ends without saving.
Disallowed(p, target) ==
    /\ pc[p] = "advance" /\ (p \in Engine => target = "ARCHITECT")
    /\ ~can_advance(mine[p].item.phase, target)
    /\ End(p) /\ UNCHANGED <<row, events, cache, untold, moves>>

\* A cycle goes to ARCHITECT first, with or without a note, and one rung up
\* after the other from there; it saves at OPERATE.
Rung == [ARCHITECT |-> "IMPLEMENT", IMPLEMENT |-> "REVIEW", REVIEW |-> "GOVERN",
         GOVERN |-> "OPERATE"]

Climb(p) ==
    /\ p \in Engine
    /\ \/ /\ pc[p] = "advance" /\ \E how \in {"gated", "forced"} : Advance(p, "ARCHITECT", how)
          /\ pc' = [pc EXCEPT ![p] = "climb"]
       \/ /\ pc[p] = "climb" /\ LET target == Rung[mine[p].item.phase]
                                IN  /\ Advance(p, target, "gated")
                                    /\ pc' = [pc EXCEPT ![p] =
                                         IF target = "OPERATE" THEN "save" ELSE "climb"]
    /\ UNCHANGED <<row, cache, moves>>

\* The move to OPERATE cannot be appended: the handler saves the item all the
\* same.  Anywhere else, the exception ends the cycle.
AppendFails(p) ==
    /\ p \in Engine /\ pc[p] = "climb" /\ mine[p].item.phase = "GOVERN"
    /\ Moved(p, "OPERATE", "gated") /\ untold' = untold \cup {<<"GOVERN", "OPERATE", "gated">>}
    /\ pc' = [pc EXCEPT ![p] = "save"]
    /\ UNCHANGED <<row, events, cache, moves>>

\* No artifact, the critic stops, or the delivery fails: the item is saved.
GiveUp(p) ==
    /\ p \in Engine /\ pc[p] = "climb"
    /\ mine[p].item.phase \in {"ARCHITECT", "IMPLEMENT", "GOVERN"}
    /\ pc' = [pc EXCEPT ![p] = "save"]
    /\ UNCHANGED <<row, events, cache, untold, mine, moves>>

\* A cycle replaces the row by a status: nothing of a phase is left in it, but
\* the cycle still has the item.
Replace(p) ==
    /\ p \in Engine /\ pc[p] \in {"climb", "save"}
    /\ row' = Start
    /\ mine' = [mine EXCEPT ![p] = [Start EXCEPT !.item = mine[p].item]]
    /\ UNCHANGED <<events, cache, untold, pc, moves>>

Save(p) ==
    /\ p \in Process /\ pc[p] = "save"
    /\ row' = save_work_item(mine[p], mine[p].item)
    /\ End(p) /\ UNCHANGED <<events, cache, untold, moves>>

-----------------------------------------------------------------------------
(* The web router.                                                          *)

\* advance_phase() up to its event; no gates.  404 without a row, an edge that
\* does not exist or an append that fails: nothing happens.  The first
\* request loads the file.
advance_phase(t, target) ==
    LET task == IF cache = Unread THEN row ELSE cache
        this == <<task.phase, target, "web">>
    IN  /\ pc[t] = "idle" /\ moves < MaxMoves /\ moves' = moves + 1
        /\ cache' = task
        /\ \/ /\ task # NoRow /\ can_advance(task.phase, target)
              /\ events' = Append(events, this)
              /\ mine' = [mine EXCEPT ![t] = [task EXCEPT !.phase = target,
                                                          !.history = Append(@, this)]]
              /\ pc' = [pc EXCEPT ![t] = "save"]
           \/ pc' = [pc EXCEPT ![t] = "done"] /\ UNCHANGED <<events, mine>>
        /\ UNCHANGED <<row, untold>>

\* {**task, "phase": ..., "history": ...}: the other fields as they were read.
SaveTask(t) ==
    /\ pc[t] = "save"
    /\ row' = mine[t] /\ cache' = mine[t]
    /\ End(t) /\ UNCHANGED <<events, untold, moves>>

\* get_task_history(): the history of the cached row beside the audit log.
get_task_history == [in_memory |-> cache.history, audit_log |-> events]

\* get_phase_status()
get_phase_status == cache.phase

-----------------------------------------------------------------------------

\* A writer dies or is killed between two steps, or an exception that nobody
\* handles ends it: a command or a cycle whose move cannot be appended.
Die(w) ==
    /\ pc[w] \in {"ensure", "advance", "climb", "save"}
    /\ End(w) /\ UNCHANGED <<row, events, cache, untold, moves>>

Next ==
    \/ SetTask
    \/ \E p \in Process :
         \/ cmd_phase_advance(p) \/ ensure_work_item(p) \/ Save(p)
         \/ Climb(p) \/ AppendFails(p) \/ GiveUp(p) \/ Replace(p)
         \/ \E target \in Target :
              \/ \E how \in {"gated", "forced"} : Command(p, target, how)
              \/ Blocked(p, target) \/ Disallowed(p, target)
    \/ \E t \in Thread :
         \/ SaveTask(t)
         \/ \E target \in Target : advance_phase(t, target)
    \/ \E w \in Writer : Die(w)

Spec == Init /\ [][Next]_ledgerVars

-----------------------------------------------------------------------------

IsChain(history, last) ==
    /\ \A i \in 1 .. Len(history) - 1 : history[i][2] = history[i + 1][1]
    /\ history = << >> \/ history[Len(history)][2] = last

\* The moves that the log or a failing append accounts for.
Accounted == Range(events) \cup untold

Reached(phase) == phase = "PLAN" \/ \E m \in Accounted : m[2] = phase

(* Whoever overwrites whom, and whoever dies: every move that the item, the *)
(* root or the answer of the router shows is in the event log, but for the  *)
(* move to OPERATE of a cycle that could not append it; the history of the  *)
(* item is a chain that ends in its phase, and only an override left the    *)
(* allowed edges; the phase at the root was reached by such a move or is    *)
(* the item's.  (The history at the root is no chain: the item's moves      *)
(* change the phase there and are not in it, and a cycle erases it.)        *)
LedgersAreLogged ==
    /\ untold \subseteq {<<"GOVERN", "OPERATE", "gated">>}
    /\ row # NoRow =>
         /\ Range(row.history) \subseteq {m \in Range(events) : m[3] = "web" /\ can_advance(m[1], m[2])}
         /\ row.item # NoItem =>
              /\ Range(row.item.history) \subseteq Accounted
              /\ IsChain(row.item.history, row.item.phase)
              /\ \A m \in Range(row.item.history) : can_advance(m[1], m[2]) \/ m[3] = "forced"
         /\ Reached(row.phase)
    /\ Range(get_task_history.in_memory) \subseteq Range(get_task_history.audit_log)
    /\ get_phase_status \in Phase => Reached(get_phase_status)

=============================================================================
