----------------------------- MODULE SdlcEngine ------------------------------
(***************************************************************************)
(* src/src/autonomous_sdlc.py, class AutonomousSDLCEngine: run() repeats   *)
(* run_cycle(), which takes one task from discovery to a merged pull       *)
(* request and drives its work item up the phase ladder.  The rows of      *)
(* state.json, the transitions in events.jsonl, the pull requests and the  *)
(* shutdown sentinel survive the process; everything else is its memory.   *)
(*                                                                         *)
(* The engine is the only writer of state.json here, and the controller    *)
(* has no gates, as in main().  Prompts, issues and titles are left out:   *)
(* discovery proposes any tasks, the builder, the critic and GitHub give   *)
(* any answer or raise.  Of the artifact it matters who wrote the file:    *)
(* others write to src/staged_agents as well.  A set_task() that raises    *)
(* (StateManager, Fail) is one of the exceptions.                          *)
(***************************************************************************)
EXTENDS SdlcPhase

CONSTANTS
    Task,              \* task ids discovery may propose
    MaxCycles,         \* MAX_CYCLES, 0 for unlimited
    MaxReviewRetries,  \* MAX_REVIEW_RETRIES
    MaxEdits           \* bound: writes of others to one artifact

ASSUME EngineAssumption ==
    MaxCycles \in Nat /\ MaxReviewRetries \in Nat /\ MaxEdits \in Nat

VARIABLES
    row,       \* state.json: per task, its status and its work item's phase
    cached,    \* the work items' phases in the process's cache of state.json
    climb,     \* events.jsonl: per task, its transitions from the last one
               \* to ARCHITECT on (what a cycle logs; older ones never change)
    prs,       \* GitHub: per task, the last pull request the engine opened
    sentinel,  \* does the shutdown file exist?
    pc,        \* where the engine is
    task,      \* the task of this cycle
    phase,     \* item.phase
    attempts,  \* builder_attempts
    artifact,  \* the attempt that made the artifact, 0 for none
    edits,     \* how often others have written the artifact's file since
    review,    \* the artifact last reviewed, with its edits, and the verdict
    cycle,     \* self.cycle
    completed, \* self.tasks_completed
    failed     \* self.tasks_failed - failed_before: the failures of the cycle

stored == <<row, cached, climb, prs>>
local == <<task, phase, attempts, artifact, edits, review>>
counters == <<cycle, completed, failed>>
vars == <<stored, sentinel, pc, local, counters>>

NoTask == "NoTask"
NoItem == "NoItem"
NoVerdict == "NoVerdict"
NoReview == [of |-> 0, edits |-> 0, verdict |-> NoVerdict]
NoPullRequest == [artifact |-> 0, edits |-> 0, review |-> NoReview, merged |-> FALSE]

Status == {"none", "IN_PROGRESS", "BUILT", "FAILED", "REVIEW_BLOCKED",
           "SKIPPED_LOW_VALUE", "DELIVERED"}

\* What awaits or writes next.  "saveDone" is the last statement of the try
\* block around the delivery, "save" any other save_work_item().
Place == {"off", "idle", "plan", "architect", "build", "building", "implement",
          "review", "decide", "blocked", "govern", "deliver", "merge",
          "record", "operate", "saveDone", "undelivered", "save", "tally",
          "stopped"}

\* In these places an exception leaves run_cycle(), in those it is caught by
\* the handler around the delivery.
Raising == {"plan", "architect", "build", "building", "implement", "review",
            "decide", "govern", "blocked", "undelivered"}
Delivering == {"deliver", "record", "operate"}

Move == [from_phase : Phase, to_phase : Phase, forced : BOOLEAN]
Review == [of : Nat, edits : Nat, verdict : ReviewStatus \cup {NoVerdict}]
PullRequest == [artifact : Nat, edits : Nat, review : Review, merged : BOOLEAN]

TypeOK ==
    /\ row \in [Task -> [status : Status, item : Phase \cup {NoItem}]]
    /\ cached \in [Task -> Phase \cup {NoItem}]
    /\ climb \in [Task -> Seq(Move)]
    /\ prs \in [Task -> PullRequest]
    /\ sentinel \in BOOLEAN
    /\ pc \in Place
    /\ task \in Task \cup {NoTask}
    /\ phase \in Phase
    /\ attempts \in Nat
    /\ artifact \in 0 .. attempts
    /\ edits \in 0 .. MaxEdits
    /\ review \in Review
    /\ cycle \in Nat
    /\ completed \in 0 .. cycle
    /\ failed \in 0 .. 2

Init ==
    /\ row = [t \in Task |-> [status |-> "none", item |-> NoItem]]
    /\ cached = [t \in Task |-> NoItem]
    /\ climb = [t \in Task |-> << >>]
    /\ prs = [t \in Task |-> NoPullRequest]
    /\ sentinel = FALSE
    /\ pc = "off"
    /\ task = NoTask
    /\ phase = "PLAN"
    /\ attempts = 0
    /\ artifact = 0
    /\ edits = 0
    /\ review = NoReview
    /\ cycle = 0 /\ completed = 0 /\ failed = 0

-----------------------------------------------------------------------------
(* The process, and the operator who drops the shutdown file.               *)

\* The local variables of run_cycle() are gone.
Forget ==
    /\ task' = NoTask
    /\ phase' = "PLAN"
    /\ attempts' = 0
    /\ artifact' = 0
    /\ edits' = 0
    /\ review' = NoReview

\* The items of the file, as a StateManager that has just read it caches them.
Items(rows) == [t \in Task |-> rows[t].item]

\* A new engine is made, with a new StateManager, and run() called.
Start ==
    /\ pc \in {"off", "stopped"}
    /\ pc' = "idle"
    /\ cached' = Items(row)
    /\ cycle' = 0 /\ completed' = 0 /\ failed' = 0
    /\ UNCHANGED <<row, climb, prs, sentinel, local>>

Kill ==
    /\ pc \notin {"off", "stopped"}
    /\ pc' = "off"
    /\ Forget
    /\ UNCHANGED <<stored, sentinel, counters>>

RequestShutdown ==
    /\ sentinel' = TRUE
    /\ UNCHANGED <<stored, pc, local, counters>>

\* Somebody else - another agent of the swarm, the planner that answers for the
\* critic, a developer - writes the file the artifact is in.
Overwrite ==
    /\ artifact > 0
    /\ edits < MaxEdits
    /\ edits' = edits + 1
    /\ UNCHANGED <<stored, sentinel, pc, task, phase, attempts, artifact, review,
                   counters>>

-----------------------------------------------------------------------------
(* run()                                                                    *)

\* The sentinel is removed.
StopBySentinel ==
    /\ pc = "idle" /\ sentinel
    /\ sentinel' = FALSE
    /\ pc' = "stopped"
    /\ UNCHANGED <<stored, local, counters>>

StopByBudget ==
    /\ pc = "idle" /\ ~sentinel
    /\ MaxCycles > 0 /\ cycle >= MaxCycles
    /\ pc' = "stopped"
    /\ UNCHANGED <<stored, sentinel, local, counters>>

BeginCycle ==
    /\ pc = "idle" /\ ~sentinel
    /\ MaxCycles = 0 \/ cycle < MaxCycles
    /\ cycle' = cycle + 1
    /\ failed' = 0
    /\ pc' = "plan"
    /\ UNCHANGED <<stored, sentinel, local, completed>>

\* run_cycle() returns or raises.
EndCycle == pc' = "tally" /\ Forget

\* An exception leaves run_cycle() and is counted.  advance() moves the item
\* before it logs the move: if the log fails, the moved item is lost here.
CycleCrashes ==
    /\ pc \in Raising
    /\ failed' = failed + 1
    /\ EndCycle
    /\ UNCHANGED <<stored, sentinel, cycle, completed>>

\* After a failure run_autonomous_retry() is asked, which may end run() with
\* the sentinel still there.
Tally ==
    /\ pc = "tally"
    /\ pc' = IF /\ MaxCycles > 0 /\ failed > 0
                /\ autonomous_retry(cycle, "retry", MaxCycles) = "stop"
               THEN "stopped"
               ELSE "idle"
    /\ UNCHANGED <<stored, sentinel, local, counters>>

-----------------------------------------------------------------------------
(* run_cycle()                                                              *)

\* set_task() writes the file and caches what it wrote.
Write(rows) == row' = rows /\ cached' = Items(rows)

\* The engine's own set_task() replaces the whole row, and the work item with it.
SetTask(status) ==
    Write([row EXCEPT ![task] = [status |-> status, item |-> NoItem]])

\* Mutant: an override is not logged.
AdvanceBy_OverrideUnlogged(target, force) ==
    /\ climb' = [climb EXCEPT ![task] =
                   IF force THEN @
                   ELSE Append(IF target = "ARCHITECT" THEN << >> ELSE @,
                               [from_phase |-> phase, to_phase |-> target,
                                forced |-> FALSE])]
    /\ phase' = target

\* controller.advance(): the item moves and the move is logged.
AdvanceBy(target, force) ==
    /\ climb' = [climb EXCEPT ![task] =
                   Append(IF target = "ARCHITECT" THEN << >> ELSE @,
                          [from_phase |-> phase, to_phase |-> target,
                           forced |-> force])]
    /\ phase' = target

Advance(target) == can_advance(phase, target) /\ AdvanceBy(target, FALSE)

OpenPRs == {t \in Task : prs[t] # NoPullRequest /\ ~prs[t].merged}

\* _plan() picks a task that has no open pull request, where GitHub answers
\* with none of them when it fails; no row is ever COMPLETED or MERGED.
Selectable(t) == pc = "plan" /\ \E listed \in {OpenPRs, {}} : t \notin listed

\* ensure_work_item() loads its work item, or makes and saves one.
Select(t) ==
    /\ Selectable(t)
    /\ task' = t
    /\ IF cached[t] = NoItem
         THEN phase' = "PLAN" /\ Write([row EXCEPT ![t].item = "PLAN"])
         ELSE phase' = cached[t] /\ UNCHANGED <<row, cached>>
    /\ pc' = "architect"
    /\ UNCHANGED <<climb, prs, sentinel, attempts, artifact, edits, review,
                   counters>>

\* save_work_item() puts the item into the row it finds in the cache, and only
\* then writes the file; if that raises, the cache has the item all the same.
\* The event is appended after that: if that raises, the file has it as well.
KeptInCache(t, p) ==
    \/ /\ cached' = [cached EXCEPT ![t] = p]
       /\ UNCHANGED row
    \/ Write([row EXCEPT ![t].item = p])

\* The save of a new item raises (of a task without a row, nothing is cached).
SelectFails(t) ==
    /\ Selectable(t)
    /\ cached[t] = NoItem /\ row[t].status # "none"
    /\ KeptInCache(t, "PLAN")
    /\ failed' = failed + 1
    /\ EndCycle
    /\ UNCHANGED <<climb, prs, sentinel, cycle, completed>>

\* Nothing discovered, or nothing to pick.
NothingToDo ==
    /\ pc = "plan"
    /\ EndCycle
    /\ UNCHANGED <<stored, sentinel, counters>>

\* PLAN -> ARCHITECT, forced when no architecture note can be made.
Architect ==
    /\ pc = "architect"
    /\ Advance("ARCHITECT") \/ AdvanceBy("ARCHITECT", TRUE)
    /\ attempts' = 1
    /\ pc' = "build"
    /\ UNCHANGED <<row, cached, prs, sentinel, task, artifact, edits, review,
                   counters>>

\* Mutant: the row is updated instead of replaced.
Build_KeepsItem ==
    /\ pc = "build"
    /\ Write([row EXCEPT ![task].status = "IN_PROGRESS"])
    /\ pc' = "building"
    /\ UNCHANGED <<climb, prs, sentinel, local, counters>>

\* _build(): the row says so before the builder is asked.
Build ==
    /\ pc = "build"
    /\ SetTask("IN_PROGRESS")
    /\ pc' = "building"
    /\ UNCHANGED <<climb, prs, sentinel, local, counters>>

\* The builder wrote a file (or others did meanwhile: the newest one counts).
Built ==
    /\ pc = "building"
    /\ SetTask("BUILT")
    /\ artifact' = attempts
    /\ edits' = 0
    /\ pc' = IF attempts = 1 THEN "implement" ELSE "review"
    /\ UNCHANGED <<climb, prs, sentinel, task, phase, attempts, review, counters>>

\* No artifact: the end of the cycle, or, in a rework, another review of the
\* artifact there was before.
NotBuilt ==
    /\ pc = "building"
    /\ SetTask("FAILED")
    /\ IF attempts = 1
         THEN failed' = failed + 1 /\ pc' = "save"
         ELSE pc' = "review" /\ UNCHANGED failed
    /\ UNCHANGED <<climb, prs, sentinel, local, cycle, completed>>

Implement ==
    /\ pc = "implement"
    /\ Advance("IMPLEMENT")
    /\ pc' = "review"
    /\ UNCHANGED <<row, cached, prs, sentinel, task, attempts, artifact, edits,
                   review, counters>>

\* The file is read and the critic asked: what happens to the file before the
\* verdict is there is an Overwrite after it.
Reviewed ==
    /\ pc = "review"
    /\ \E v \in ReviewStatus :
         review' = [of |-> artifact, edits |-> edits, verdict |-> v]
    /\ pc' = "decide"
    /\ UNCHANGED <<stored, sentinel, task, phase, attempts, artifact, edits,
                   counters>>

\* Mutant: a used up budget counts as a pass.
Decision_ExhaustedPasses ==
    IF review.verdict = "retry" /\ attempts >= MaxReviewRetries
      THEN "stop"
      ELSE review_rework_decision(attempts, review.verdict, MaxReviewRetries)

Decision == review_rework_decision(attempts, review.verdict, MaxReviewRetries)

\* Mutant: a retry asks the critic again and counts nothing.
Rework_ReviewsAgain ==
    /\ pc = "decide" /\ Decision = "builder"
    /\ pc' = "review"
    /\ UNCHANGED <<stored, sentinel, local, counters>>

Rework ==
    /\ pc = "decide" /\ Decision = "builder"
    /\ attempts' = attempts + 1
    /\ pc' = "build"
    /\ UNCHANGED <<stored, sentinel, task, phase, artifact, edits, review, counters>>

GiveUp ==
    /\ pc = "decide" /\ Decision = "critic_stop"
    /\ failed' = failed + 1
    /\ pc' = "blocked"
    /\ UNCHANGED <<stored, sentinel, local, cycle, completed>>

RecordBlocked ==
    /\ pc = "blocked"
    /\ SetTask("REVIEW_BLOCKED")
    /\ pc' = "save"
    /\ UNCHANGED <<climb, prs, sentinel, local, counters>>

\* The review passed: IMPLEMENT -> REVIEW.
ReviewPassed ==
    /\ pc = "decide" /\ Decision = "stop"
    /\ Advance("REVIEW")
    /\ pc' = "govern"
    /\ UNCHANGED <<row, cached, prs, sentinel, task, attempts, artifact, edits,
                   review, counters>>

\* register_external_gate(), whose verdict is noted, and REVIEW -> GOVERN.
Govern ==
    /\ pc = "govern"
    /\ Advance("GOVERN")
    /\ pc' = "deliver"
    /\ UNCHANGED <<row, cached, prs, sentinel, task, attempts, artifact, edits,
                   review, counters>>

-----------------------------------------------------------------------------
(* _deliver() and the try block around it.                                  *)

\* Mutant: an artifact that is not delivered counts as a completed task.
SkipLowValue_Counted ==
    /\ pc = "deliver"
    /\ SetTask("SKIPPED_LOW_VALUE")
    /\ completed' = completed + 1
    /\ pc' = "operate"
    /\ UNCHANGED <<climb, prs, sentinel, local, cycle, failed>>

\* An artifact of low value is not delivered, and nothing is raised.
SkipLowValue ==
    /\ pc = "deliver"
    /\ SetTask("SKIPPED_LOW_VALUE")
    /\ pc' = "operate"
    /\ UNCHANGED <<climb, prs, sentinel, local, counters>>

\* The file is read again, committed and the pull request opened.  GitHubTool
\* turns its errors into strings: such an answer is taken for the pull request,
\* its number cannot be read, and that exception is swallowed like Merge's.  The
\* pull request may have been opened before the error.
OpenPullRequest ==
    /\ pc = "deliver"
    /\ LET opened == [prs EXCEPT ![task] = [artifact |-> artifact, edits |-> edits,
                                            review |-> review, merged |-> FALSE]]
       IN  \/ prs' = opened /\ pc' = "merge"
           \/ prs' \in {opened, prs} /\ pc' = "record"
    /\ UNCHANGED <<row, cached, climb, sentinel, local, counters>>

\* merge_pull_request() works or not; whatever it raises is swallowed.
Merge ==
    /\ pc = "merge"
    /\ \E merged \in BOOLEAN : prs' = [prs EXCEPT ![task].merged = merged]
    /\ pc' = "record"
    /\ UNCHANGED <<row, cached, climb, sentinel, local, counters>>

\* The issue is filed.
RecordDelivery ==
    /\ pc = "record"
    /\ SetTask("DELIVERED")
    /\ pc' = "operate"
    /\ UNCHANGED <<climb, prs, sentinel, local, counters>>

Operate ==
    /\ pc = "operate"
    /\ Advance("OPERATE")
    /\ completed' = completed + 1
    /\ pc' = "saveDone"
    /\ UNCHANGED <<row, cached, prs, sentinel, task, attempts, artifact, edits,
                   review, cycle, failed>>

\* The handler.  A cycle that has already counted as completed may get here;
\* so may one whose item has moved to OPERATE while the log failed.
DeliveryFails ==
    /\ pc \in Delivering
    /\ \/ UNCHANGED phase
       \/ pc = "operate" /\ can_advance(phase, "OPERATE") /\ phase' = "OPERATE"
    /\ failed' = failed + 1
    /\ pc' = "undelivered"
    /\ UNCHANGED <<stored, sentinel, task, attempts, artifact, edits, review,
                   cycle, completed>>

RecordFailure ==
    /\ pc = "undelivered"
    /\ SetTask("FAILED")
    /\ pc' = "save"
    /\ UNCHANGED <<climb, prs, sentinel, local, counters>>

\* Mutant: the item is saved where a retry should resume.
Save_AtReview ==
    /\ pc \in {"save", "saveDone"}
    /\ Write([row EXCEPT ![task].item = "REVIEW"])
    /\ EndCycle
    /\ UNCHANGED <<climb, prs, sentinel, counters>>

\* save_work_item() puts the item back into the row.
Save ==
    /\ pc \in {"save", "saveDone"}
    /\ Write([row EXCEPT ![task].item = phase])
    /\ EndCycle
    /\ UNCHANGED <<climb, prs, sentinel, counters>>

\* ... or raises: out of run_cycle(), or, in the try block, to the handler.
SaveFails ==
    /\ pc \in {"save", "saveDone"}
    /\ KeptInCache(task, phase)
    /\ failed' = failed + 1
    /\ IF pc = "save" THEN EndCycle ELSE pc' = "undelivered" /\ UNCHANGED local
    /\ UNCHANGED <<climb, prs, sentinel, cycle, completed>>

-----------------------------------------------------------------------------

Run == StopBySentinel \/ StopByBudget \/ BeginCycle \/ CycleCrashes \/ Tally

Plan == (\E t \in Task : Select(t) \/ SelectFails(t)) \/ NothingToDo \/ Architect

Make ==
    \/ Build \/ Built \/ NotBuilt \/ Implement
    \/ Reviewed \/ Rework \/ GiveUp \/ RecordBlocked \/ ReviewPassed \/ Govern

Deliver ==
    \/ SkipLowValue \/ OpenPullRequest \/ Merge \/ RecordDelivery \/ Operate
    \/ DeliveryFails \/ RecordFailure \/ Save \/ SaveFails

Step == Run \/ Plan \/ Make \/ Deliver

Next == Step \/ Start \/ Kill \/ RequestShutdown \/ Overwrite

Spec == Init /\ [][Next]_vars

\* What the engine awaits (the planner, GitHub, a sleep) returns or raises.
FairSpec == Spec /\ WF_vars(Step)

-----------------------------------------------------------------------------

(* Whatever is retried, resumed or killed, a task reaches OPERATE in one   *)
(* go from ARCHITECT: it was built, reviewed and governed in that order, on *)
(* edges of the ladder, none of these moves was forced, and the one to      *)
(* ARCHITECT came from PLAN or was the logged override.                     *)
Rungs == <<"ARCHITECT", "IMPLEMENT", "REVIEW", "GOVERN", "OPERATE">>

GovernedDelivery ==
    \A t \in Task :
      LET moves == climb[t] IN
      (\E i \in DOMAIN moves : moves[i].to_phase = "OPERATE") =>
        /\ [i \in DOMAIN moves |-> moves[i].to_phase] = Rungs
        /\ \A i \in 2 .. 5 : /\ ~moves[i].forced
                             /\ moves[i].from_phase = Rungs[i - 1]
        /\ moves[1].forced \/ moves[1].from_phase = "PLAN"

(* A pull request carries the artifact the critic looked at last, and the  *)
(* critic passed it - also after reworks that produced nothing new.  Its   *)
(* content is what the critic saw or a later one: _deliver() reads the     *)
(* file again, so an edit by somebody else in between is delivered         *)
(* unreviewed.                                                             *)
DeliveredWasReviewed ==
    \A t \in Task :
      prs[t] # NoPullRequest =>
        /\ prs[t].review.verdict = "pass"
        /\ prs[t].review.of = prs[t].artifact
        /\ prs[t].artifact > 0
        /\ prs[t].review.edits <= prs[t].edits

(* A work item in state.json says what events.jsonl says: it is at PLAN, or *)
(* where the last transition of its task went, or a cycle picked its task   *)
(* once more and ended right after ARCHITECT; and one that counts as failed *)
(* may stand at OPERATE although only the move to GOVERN was logged.        *)
SavedPhaseWasLogged ==
    \A t \in Task \ {task} :
      row[t].item \notin {NoItem, "PLAN"} =>
        /\ climb[t] # << >>
        /\ LET reached == climb[t][Len(climb[t])].to_phase
           IN  \/ reached \in {row[t].item, "ARCHITECT"}
               \/ /\ row[t] = [status |-> "FAILED", item |-> "OPERATE"]
                  /\ reached = "GOVERN"

(* A task whose build was cut short, by an exception or the death of the   *)
(* process, starts over: the half-finished row it left behind carries no   *)
(* phase, so the next cycle that picks it can climb the ladder again.      *)
CutShortStartsOver ==
    \A t \in Task \ {task} :
      row[t].status \in {"IN_PROGRESS", "BUILT"} => row[t].item \in {NoItem, "PLAN"}

(* run() of a campaign with a cycle budget returns: every review loop,     *)
(* cycle and campaign ends.                                                *)
RunEnds == pc = "idle" ~> pc \in {"stopped", "off"}

-----------------------------------------------------------------------------
(* What the module says of itself, and what happens.                        *)

\* lines 145-146: each cycle routes the selected task through a WorkItem
\* advancing PLAN -> ARCHITECT -> IMPLEMENT -> REVIEW -> GOVERN -> OPERATE.
CyclesStartAtPlan == pc = "architect" => phase = "PLAN"

\* line 610: the move to OPERATE is logged with the reason "PR opened: ...".
OperateMeansPullRequest ==
    \A t \in Task :
      (\E i \in DOMAIN climb[t] : climb[t][i].to_phase = "OPERATE")
        => prs[t] # NoPullRequest

=============================================================================
