---------------------------- MODULE SwarmRuntime ----------------------------
(***************************************************************************)
(* The swarm process of src/src/main.py: it takes prompts from             *)
(* prompt_queue.jsonl until the sentinel .swarm_shutdown appears           *)
(* (cli/swarm_ctl.py), while a thread of the self-prompt tick              *)
(* (services/self_prompt.py) adds prompts of its own.  The command line    *)
(* and the web router put prompts and the sentinel there at any moment,    *)
(* the process may be killed between any two steps.  The queue is read and *)
(* emptied under one lock, so that is one step.                            *)
(*                                                                         *)
(* A prompt is its number in the order of arrival.  What the agents do     *)
(* with one is left out: it is answered, fails, or fails on malformed tool *)
(* calls and goes to the planner.  The collectors are left out too: a pass *)
(* may find any signals.  The self_prompt key of state.json has one        *)
(* writer, this process; UnlockedWriters shows what a second one does.     *)
(***************************************************************************)
EXTENDS Naturals, Sequences, FiniteSets, SequencesExt, Sublists

CONSTANTS
    Signal,      \* keys (hashes) of the signals the collectors may find
    MaxPerHour,  \* Config.SELF_PROMPT_MAX_PER_HOUR
    DedupMax,    \* length of the dedup window (200 in the code)
    Hour,        \* ticks of the clock in 3600 seconds
    MaxTime,     \* bound: the clock
    MaxPrompts,  \* bound: prompts from the command line and the web
    MaxStarts    \* bound: starts of the process

\* A pass of the collectors finds finitely many signals.
ASSUME SwarmAssumption == IsFiniteSet(Signal) /\ MaxPerHour \in Nat /\ Hour \in Nat

VARIABLES
    pc,       \* where main() is; "off" without a process
    looping,  \* AUTONOMOUS_MODE of this process
    sentinel, \* does .swarm_shutdown exist?
    pid,      \* does swarm.pid exist?
    queue,    \* prompt_queue.jsonl
    batch,    \* prompts: taken from the queue, not yet processed
    handled,  \* prompts process_prompt() was called with, in order
    lost,     \* prompts of a batch whose loop died
    tick,     \* where the self-prompt coroutine or its thread is
    todo,     \* prompts of this pass still to be dispatched
    written,  \* keys of the prompts this pass has dispatched
    mem,      \* sm.data["self_prompt"]: the window and the dedup list
    saved,    \* the same key in state.json
    torn,     \* has a write of state.json ever been cut short?
    wrote,    \* per self-prompt ever written, when it was paid for
    now, typed, starts  \* clock, and bounds: prompts typed, starts

files == <<sentinel, pid, queue>>
loop == <<pc, looping, batch, handled, lost>>
thread == <<tick, todo, written, mem, saved, torn, wrote>>
bounds == <<now, typed, starts>>
vars == <<files, loop, thread, bounds>>

Memory == [window : Seq(Nat), dedup : SUBSET Signal]
NoMemory == [window |-> << >>, dedup |-> {}]

issued == Len(wrote) + typed

TypeOK ==
    /\ pc \in {"off", "startup", "initial", "check", "dequeue", "prompts",
               "process", "fallback", "sleep", "closing", "clearing", "joining"}
    /\ {looping, sentinel, pid, torn} \subseteq BOOLEAN
    /\ {queue, batch, handled} \subseteq Seq(1 .. issued)
    /\ lost \subseteq 1 .. issued
    /\ tick \in {"none", "idle", "consume", "saving", "append", "commit",
                 "committing"}
    /\ todo \in Seq(Signal)
    /\ written \subseteq Signal
    /\ {mem, saved} \subseteq Memory
    /\ wrote \in Seq(Nat)
    /\ now \in Nat

Init ==
    /\ pc = "off" /\ looping = FALSE
    /\ sentinel = FALSE /\ pid = FALSE
    /\ queue = << >> /\ batch = << >> /\ handled = << >> /\ lost = {}
    /\ tick = "none" /\ todo = << >> /\ written = {}
    /\ mem = NoMemory /\ saved = NoMemory /\ torn = FALSE
    /\ wrote = << >>
    /\ now = 1 /\ typed = 0 /\ starts = 0

-----------------------------------------------------------------------------
(* Command line, web router, clock.                                         *)

enqueue_prompt ==
    /\ typed < MaxPrompts
    /\ typed' = typed + 1
    /\ queue' = Append(queue, issued + 1)
    /\ UNCHANGED <<sentinel, pid, loop, thread, now, starts>>

\* An empty message changes nothing.
cmd_prompt == enqueue_prompt
inject_prompt == enqueue_prompt

request_shutdown ==
    /\ sentinel' = TRUE
    /\ UNCHANGED <<pid, queue, loop, thread, bounds>>

\* The web router leaves a sentinel that is there alone.
cmd_stop == request_shutdown
stop_swarm == ~sentinel /\ request_shutdown

Clock ==
    /\ now < MaxTime
    /\ now' = now + 1
    /\ UNCHANGED <<files, loop, thread, typed, starts>>

-----------------------------------------------------------------------------
(* main()                                                                   *)

Go(place) == pc' = place

\* clear_shutdown(), write_pid(); the state manager of the tick is loaded.
Start ==
    /\ pc = "off" /\ starts < MaxStarts
    /\ starts' = starts + 1
    /\ Go("startup")
    /\ looping' \in BOOLEAN
    /\ sentinel' = FALSE /\ pid' = TRUE
    /\ mem' = saved
    /\ UNCHANGED <<queue, batch, handled, lost, now, typed,
                   tick, todo, written, saved, torn, wrote>>

\* Services, session, runner and API key are there; the tick is created.
Started ==
    /\ pc = "startup"
    /\ Go(IF looping THEN "initial" ELSE "dequeue")
    /\ tick' = IF looping THEN "idle" ELSE "none"
    /\ UNCHANGED <<files, looping, batch, handled, lost,
                   todo, written, mem, saved, torn, wrote, bounds>>

InitialPrompt ==
    /\ pc = "initial"
    /\ Go("check")
    /\ UNCHANGED <<files, looping, batch, handled, lost, thread, bounds>>

\* Mutant: the sentinel is not looked at.
CheckShutdown_Deaf ==
    /\ pc = "check"
    /\ Go("dequeue")
    /\ UNCHANGED <<files, looping, batch, handled, lost, thread, bounds>>

CheckShutdown ==
    /\ pc = "check"
    /\ Go(IF sentinel THEN "closing" ELSE "dequeue")
    /\ UNCHANGED <<files, looping, batch, handled, lost, thread, bounds>>

\* Mutant: the queue is not truncated.
dequeue_prompts_Keep ==
    /\ pc = "dequeue"
    /\ batch' = queue
    /\ Go("prompts")
    /\ UNCHANGED <<files, looping, handled, lost, thread, bounds>>

dequeue_prompts ==
    /\ pc = "dequeue"
    /\ batch' = queue
    /\ queue' = << >>
    /\ Go("prompts")
    /\ UNCHANGED <<sentinel, pid, looping, handled, lost, thread, bounds>>

\* The next prompt of the batch goes to the runner.
BeginPrompt ==
    /\ pc = "prompts" /\ batch # << >>
    /\ handled' = Append(handled, Head(batch))
    /\ batch' = Tail(batch)
    /\ Go("process")
    /\ UNCHANGED <<files, looping, lost, thread, bounds>>

BatchDone ==
    /\ pc = "prompts" /\ batch = << >>
    /\ Go(IF looping THEN "sleep" ELSE "closing")
    /\ UNCHANGED <<files, looping, batch, handled, lost, thread, bounds>>

\* process_prompt(): the runner answers, or fails on malformed tool calls ...
Answered ==
    /\ pc = "process"
    /\ Go("prompts")
    /\ UNCHANGED <<files, looping, batch, handled, lost, thread, bounds>>

should_fallback_to_planner ==
    /\ pc = "process"
    /\ Go("fallback")
    /\ UNCHANGED <<files, looping, batch, handled, lost, thread, bounds>>

\* ... and the planner answers.
PlannerAnswered ==
    /\ pc = "fallback"
    /\ Go("prompts")
    /\ UNCHANGED <<files, looping, batch, handled, lost, thread, bounds>>

Wake ==
    /\ pc = "sleep"
    /\ Go("check")
    /\ UNCHANGED <<files, looping, batch, handled, lost, thread, bounds>>

\* What is left of the batch is gone with the local variable.
DropBatch ==
    /\ lost' = lost \cup ToSet(batch)
    /\ batch' = << >>

\* Startup, the initial prompt, the look at the sentinel, the queue or a
\* prompt raises.  The loop wraps the exception and raises it again.
Raise ==
    /\ pc \in {"startup", "initial", "check", "dequeue", "process", "fallback"}
    /\ DropBatch
    /\ Go("closing")
    /\ UNCHANGED <<files, looping, handled, thread, bounds>>

\* Both finally blocks: the coroutine is cancelled (its thread is not), the
\* pid file and the sentinel are removed, asyncio.run() waits for the thread.
CancelTick ==
    /\ pc = "closing"
    /\ tick' = IF tick = "idle" THEN "none" ELSE tick
    /\ Go("clearing")
    /\ UNCHANGED <<files, looping, batch, handled, lost,
                   todo, written, mem, saved, torn, wrote, bounds>>

ClearFiles ==
    /\ pc = "clearing"
    /\ pid' = FALSE /\ sentinel' = FALSE
    /\ Go("joining")
    /\ UNCHANGED <<queue, looping, batch, handled, lost, thread, bounds>>

Exit ==
    /\ pc = "joining" /\ tick = "none"
    /\ Go("off")
    /\ UNCHANGED <<files, looping, batch, handled, lost, thread, bounds>>

Kill ==
    /\ pc # "off"
    /\ Go("off")
    /\ DropBatch
    /\ tick' = "none" /\ todo' = << >> /\ written' = {}
    /\ torn' = (torn \/ tick \in {"saving", "committing"})
    /\ UNCHANGED <<files, looping, handled, mem, saved, wrote, bounds>>

-----------------------------------------------------------------------------
(* The self-prompt tick and run_once(), in a thread of its own.             *)

\* The coroutine ends with the sentinel (the soft off-switch does the same).
TickStops ==
    /\ tick = "idle" /\ sentinel
    /\ tick' = "none"
    /\ UNCHANGED <<files, loop, todo, written, mem, saved, torn, wrote, bounds>>

\* run_once() up to synthesize(): the signals found, without those whose key
\* is remembered or was seen before in this pass.
synthesize ==
    /\ tick = "idle" /\ ~sentinel
    /\ \E found \in SUBSET (Signal \ mem.dedup) : todo' \in SetToSeqs(found)
    /\ written' = {}
    /\ tick' = "consume"
    /\ UNCHANGED <<files, loop, mem, saved, torn, wrote, bounds>>

Live(window) == Kept(window, {i \in DOMAIN window : now - window[i] <= Hour})

\* Mutant: the limiter starts with an empty window.
try_consume_Fresh ==
    /\ tick = "consume" /\ todo # << >> /\ MaxPerHour > 0
    /\ mem' = [mem EXCEPT !.window = << now >>]
    /\ saved' = NoMemory
    /\ tick' = "saving"
    /\ UNCHANGED <<files, loop, todo, written, torn, wrote, bounds>>

\* Granted: _save() opens the file, which empties it.
try_consume ==
    /\ tick = "consume" /\ todo # << >>
    /\ Len(Live(mem.window)) < MaxPerHour
    /\ mem' = [mem EXCEPT !.window = Append(Live(mem.window), now)]
    /\ saved' = NoMemory
    /\ tick' = "saving"
    /\ UNCHANGED <<files, loop, todo, written, torn, wrote, bounds>>

\* _save(), run_once(): json.dump() fills it.
Dump ==
    /\ tick \in {"saving", "committing"}
    /\ saved' = mem
    /\ tick' = IF tick = "saving" THEN "append"
               ELSE IF pc \in {"clearing", "joining"} THEN "none" ELSE "idle"
    /\ UNCHANGED <<files, loop, todo, written, mem, torn, wrote, bounds>>

\* Mutant: the caller appends the prompt once more.
dispatch_Twice ==
    /\ tick = "append"
    /\ queue' = queue \o << issued + 1, issued + 2 >>
    /\ wrote' = Append(wrote, Last(mem.window))
    /\ written' = written \cup {Head(todo)}
    /\ todo' = Tail(todo)
    /\ tick' = "consume"
    /\ UNCHANGED <<sentinel, pid, loop, mem, saved, torn, bounds>>

\* locked_append()
dispatch ==
    /\ tick = "append"
    /\ queue' = Append(queue, issued + 1)
    /\ wrote' = Append(wrote, Last(mem.window))
    /\ written' = written \cup {Head(todo)}
    /\ todo' = Tail(todo)
    /\ tick' = "consume"
    /\ UNCHANGED <<sentinel, pid, loop, mem, saved, torn, bounds>>

\* The pass is over, or the limiter refuses: the dedup list takes the new keys
\* behind the old ones (rebuilt from a set) and loses its beginning; which of
\* several new keys go when they alone are too many is left open.
RememberDedup ==
    /\ tick = "consume"
    /\ todo = << >> \/ Len(Live(mem.window)) >= MaxPerHour
    /\ \E kept \in SUBSET (mem.dedup \cup written) :
         /\ written \subseteq kept \/ kept \subseteq written
         /\ Cardinality(kept) <= DedupMax
         /\ kept = mem.dedup \cup written \/ Cardinality(kept) = DedupMax
         /\ mem' = [mem EXCEPT !.dedup = kept]
    /\ saved' = NoMemory
    /\ todo' = << >>
    /\ tick' = "committing"
    /\ UNCHANGED <<files, loop, written, torn, wrote, bounds>>

\* run_once() raises: the coroutine ends, the loop goes on without it.
PassFails ==
    /\ tick \in {"consume", "saving", "append", "committing"}
    /\ tick' = "none" /\ todo' = << >>
    /\ torn' = (torn \/ tick \in {"saving", "committing"})
    /\ UNCHANGED <<files, loop, written, mem, saved, wrote, bounds>>

-----------------------------------------------------------------------------

MainStep ==
    \/ Started \/ InitialPrompt \/ CheckShutdown \/ dequeue_prompts
    \/ BeginPrompt \/ BatchDone \/ Answered \/ should_fallback_to_planner
    \/ PlannerAnswered \/ Wake \/ Raise
    \/ CancelTick \/ ClearFiles \/ Exit

ThreadStep ==
    \/ TickStops \/ synthesize \/ try_consume \/ Dump \/ dispatch
    \/ RememberDedup \/ PassFails

Next ==
    \/ cmd_prompt \/ inject_prompt \/ cmd_stop \/ stop_swarm \/ Clock
    \/ Start \/ MainStep \/ Kill
    \/ ThreadStep

\* The event loop runs main(), prompts are processed sooner or later, and the
\* thread is scheduled.  Nothing else has to happen.
Spec == Init /\ [][Next]_vars /\ WF_vars(MainStep) /\ WF_vars(ThreadStep)

-----------------------------------------------------------------------------

(* swarm_ctl's lock makes reading and emptying the queue one step: however  *)
(* the writers, the loop, its failures and kills interleave, a prompt is    *)
(* processed at most once and in the order of arrival, it is somewhere at   *)
(* every moment, and what is lost was in the batch of a loop that died.     *)
PromptsInOrder ==
    LET all == handled \o batch \o queue
    IN  /\ \A i, j \in DOMAIN all : i < j => all[i] < all[j]
        /\ ToSet(all) \cap lost = {}
        /\ ToSet(all) \cup lost = 1 .. issued

(* "Bounded: token bucket ... persisted so restarts don't reset it": in no  *)
(* hour does the tick write more than its budget, across kills, restarts    *)
(* and failed passes - unless a kill or an error cut a write of state.json  *)
(* short, which is not atomic here.                                         *)
BudgetSurvivesRestarts ==
    ~torn =>
      \A t \in 1 .. now :
        Cardinality({i \in DOMAIN wrote : wrote[i] \in t .. t + Hour}) <= MaxPerHour

(* A stop requested while the loop runs ends the process, whatever the      *)
(* prompts and the self-prompt thread are doing, if only the process is not *)
(* held up in a prompt for ever.                                            *)
ShutdownHeeded ==
    (sentinel /\ pc \in {"initial", "check", "dequeue", "prompts", "process",
                         "fallback", "sleep"}) ~> pc = "off"

=============================================================================
