------------------------------- MODULE Builder -------------------------------
(***************************************************************************)
(* src/src/agents/builder.py: implement_from_architecture_note() for       *)
(* several tasks and calls in one process.  All calls write to one working *)
(* tree; waiting for the tests is the only point at which a call lets      *)
(* others run.  Nothing here commits or pushes, so what a pull request     *)
(* shows was pushed by someone else; others merge and close them, too.     *)
(***************************************************************************)
EXTENDS Naturals, Sequences, FiniteSets

CONSTANTS
    Call,    \* calls of implement_from_architecture_note()
    Task,    \* tasks: a task names its branch
    File,    \* paths under the project root
    Upward,  \* relative paths that leave it through ".."
    Outside  \* absolute paths elsewhere

VARIABLES
    tree,    \* the files: per path, the call that wrote it last, or "base"
    refs,    \* GitHub: branches that exist
    ahead,   \* GitHub: branches with commits that the base does not have
    pulls,   \* GitHub: per branch, the callers whose pull requests were opened
    open,    \* GitHub: branches with an open pull request
    step,    \* per call: "idle", "testing", or the step that ended it
    task,    \* per call: its task
    changes, \* per call: the paths to write
    written, \* per call: the paths it wrote
    tests,   \* per call: the test result
    result   \* per call: success in the dictionary it returned

github == <<refs, ahead, pulls, open>>
builderVars == <<tree, github, step, task, changes, written, tests, result>>

\* Whether a path is in the root is decided by its text: one with ".." passes.
Accepted == File \cup Upward
Path == Accepted \cup Outside
Author == Call \cup {"agent"}    \* the model may use each tool by itself

TypeOK ==
    /\ tree \in [Accepted -> Author \cup {"base"}]
    /\ refs \subseteq Task /\ ahead \subseteq refs /\ open \subseteq Task
    /\ pulls \in [Task -> SUBSET Author]
    /\ step \in [Call -> {"idle", "testing", "create_branch", "apply_code_changes",
                          "create_builder_pr"}]
    /\ task \in [Call -> Task]
    /\ changes \in [Call -> SUBSET Path]
    /\ written \in [Call -> SUBSET Accepted]
    /\ tests \in [Call -> {"none", "passed", "failed", "timeout", "error"}]
    /\ result \in [Call -> {"none", "success", "failure"}]

Init ==
    /\ tree = [f \in Accepted |-> "base"]
    /\ refs = {} /\ ahead = {} /\ pulls = [t \in Task |-> {}] /\ open = {}
    /\ step = [c \in Call |-> "idle"]
    /\ task \in [Call -> Task]
    /\ changes = [c \in Call |-> {}] /\ written = [c \in Call |-> {}]
    /\ tests = [c \in Call |-> "none"] /\ result = [c \in Call |-> "none"]

-----------------------------------------------------------------------------

\* The base cannot be read: failure.  That the reference cannot be created,
\* because it exists or for another reason, is only logged: success.
create_branch(t, success) ==
    IF success THEN refs' \in {refs, refs \cup {t}} ELSE UNCHANGED refs

\* Path by path: one that is not accepted or fails is skipped, the others stay
\* written.
apply_code_changes(who, paths, done) ==
    /\ done \subseteq paths \cap Accepted
    /\ tree' = [f \in Accepted |-> IF f \in done THEN who ELSE tree[f]]

Applied(paths, done) == paths # {} /\ done = paths

\* Mutant: a pull request is opened whatever apply_code_changes() answered.
implement_from_architecture_note_Anyway(c, paths) ==
    /\ step[c] = "idle" /\ changes' = [changes EXCEPT ![c] = paths]
    /\ create_branch(task[c], TRUE)
    /\ \E done \in SUBSET (paths \cap Accepted) :
         /\ apply_code_changes(c, paths, done)
         /\ written' = [written EXCEPT ![c] = done]
    /\ step' = [step EXCEPT ![c] = "testing"]
    /\ UNCHANGED <<ahead, pulls, open, task, tests, result>>

\* Up to the start of the tests nothing is awaited that suspends.
implement_from_architecture_note(c, paths) ==
    /\ step[c] = "idle" /\ changes' = [changes EXCEPT ![c] = paths]
    /\ \/ /\ create_branch(task[c], FALSE)
          /\ step' = [step EXCEPT ![c] = "create_branch"]
          /\ result' = [result EXCEPT ![c] = "failure"]
          /\ UNCHANGED <<tree, written>>
       \/ /\ create_branch(task[c], TRUE)
          /\ \E done \in SUBSET (paths \cap Accepted) :
               /\ apply_code_changes(c, paths, done)
               /\ written' = [written EXCEPT ![c] = done]
               /\ step' = [step EXCEPT ![c] = IF Applied(paths, done) THEN "testing"
                                                            ELSE "apply_code_changes"]
               /\ result' = [result EXCEPT ![c] = IF Applied(paths, done) THEN "none"
                                                                        ELSE "failure"]
    /\ UNCHANGED <<ahead, pulls, open, task, tests>>

\* They run on the working tree as it is meanwhile.
run_tests_locally(c) ==
    /\ step[c] = "testing" /\ tests[c] = "none"
    /\ \E outcome \in {"passed", "failed", "timeout", "error"} :
         tests' = [tests EXCEPT ![c] = outcome]
    /\ UNCHANGED <<tree, github, step, task, changes, written, result>>

\* A missing branch is created.  GitHub may fail, and refuses a branch that
\* is not ahead of the base or has an open pull request.  The answer to a
\* request that it granted may be lost: success is false then, too.
create_pull_request(who, t, success) ==
    \/ /\ t \in ahead \ open
       /\ pulls' = [pulls EXCEPT ![t] = @ \cup {who}]
       /\ open' = open \cup {t} /\ UNCHANGED refs
    \/ /\ ~success
       /\ refs' \in {refs, refs \cup {t}}
       /\ UNCHANGED <<pulls, open>>

\* Mutant: the answer of the tool is not looked at.
create_builder_pr_Unread(c) ==
    /\ step[c] = "testing" /\ tests[c] # "none"
    /\ \E success \in BOOLEAN : create_pull_request(c, task[c], success)
    /\ result' = [result EXCEPT ![c] = "success"]
    /\ step' = [step EXCEPT ![c] = "create_builder_pr"]
    /\ UNCHANGED <<tree, ahead, task, changes, written, tests>>

\* The pull request is opened however the tests ended.
create_builder_pr(c) ==
    /\ step[c] = "testing" /\ tests[c] # "none"
    /\ \E success \in BOOLEAN :
         /\ create_pull_request(c, task[c], success)
         /\ result' = [result EXCEPT ![c] = IF success THEN "success" ELSE "failure"]
    /\ step' = [step EXCEPT ![c] = "create_builder_pr"]
    /\ UNCHANGED <<tree, ahead, task, changes, written, tests>>

\* The agent uses the tools one by one.
Agent(t) ==
    /\ \/ create_branch(t, TRUE) /\ UNCHANGED <<tree, pulls, open>>
       \/ /\ \E f \in Accepted : apply_code_changes("agent", {f}, {f})
          /\ UNCHANGED <<refs, pulls, open>>
       \/ /\ \E success \in BOOLEAN : create_pull_request("agent", t, success)
          /\ UNCHANGED tree
    /\ UNCHANGED <<ahead, step, task, changes, written, tests, result>>

\* Someone pushes commits to a branch.
Push(t) ==
    /\ refs' = refs \cup {t} /\ ahead' = ahead \cup {t}
    /\ UNCHANGED <<tree, pulls, open, step, task, changes, written, tests, result>>

\* Merging leaves the branch with nothing that the base lacks.
merge_pull_request(t) ==
    /\ t \in open /\ open' = open \ {t} /\ ahead' = ahead \ {t}
    /\ UNCHANGED <<tree, refs, pulls, step, task, changes, written, tests, result>>

\* Someone closes the pull request without merging it.
Close(t) ==
    /\ t \in open /\ open' = open \ {t}
    /\ UNCHANGED <<tree, refs, ahead, pulls, step, task, changes, written, tests, result>>

Next ==
    \/ \E c \in Call :
         \/ \E paths \in SUBSET Path : implement_from_architecture_note(c, paths)
         \/ run_tests_locally(c)
         \/ create_builder_pr(c)
    \/ \E t \in Task : Agent(t) \/ Push(t) \/ merge_pull_request(t) \/ Close(t)

Spec == Init /\ [][Next]_builderVars

-----------------------------------------------------------------------------

(* What implement_from_architecture_note() reports is so, whatever calls on  *)
(* the same branch and the same files, pushes and merges come between its   *)
(* steps: success means that this call opened a pull request of its branch, *)
(* with all its changes written and tests run.  No pull request of a call   *)
(* comes from one that gave up before, so a failure hides one only if it    *)
(* came back from GitHub, and a file shows a call only if that wrote it.    *)
SuccessIsReal ==
    \A c \in Call :
      /\ result[c] = "success" => c \in pulls[task[c]]
      /\ \A t \in Task : c \in pulls[t] =>
           /\ t = task[c] /\ step[c] = "create_builder_pr"
           /\ changes[c] # {} /\ written[c] = changes[c]
           /\ tests[c] # "none"
      /\ step[c] = "create_branch" => written[c] = {}
      /\ step[c] = "apply_code_changes" => written[c] # changes[c] \/ changes[c] = {}
      /\ \A f \in Accepted : tree[f] = c => f \in written[c]

=============================================================================
