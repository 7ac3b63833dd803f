------------------------------ MODULE Dispatcher ------------------------------
(***************************************************************************)
(* src/src/tools/dispatcher.py, batch_execute(): batches of tool calls     *)
(* that share one semaphore, and behind the tool execute_capability the    *)
(* capability service and its backends (src/src/capabilities).  Arguments  *)
(* and outputs are left out; the service answers a failure with an         *)
(* envelope of its own, so that the tool call as such succeeds.            *)
(***************************************************************************)
EXTENDS Naturals, Sequences, FiniteSets

CONSTANTS
    Batch,           \* concurrent calls of batch_execute()
    MAX_CONCURRENCY, \* permits of the semaphore
    MaxRequests,     \* bound: per batch, its requests
    MaxInvocations   \* attempts at a Smithery command (3 in the code)

VARIABLES
    requests,  \* per batch, its requests: what kind of tool each one names
    status,    \* per batch and request: how far it got; "command": its
               \* Smithery command runs
    envelope,  \* per batch and request: what the capability service answered
    invoked,   \* per batch and request: Smithery commands run for it
    results    \* per batch: what batch_execute() returned

dispatchVars == <<requests, status, envelope, invoked, results>>

\* A registered tool, a capability of the local, retrieval or Smithery
\* backend called through execute_capability, a capability nobody
\* registered, or a name that is not in the registry.
Kind == {"tool", "local", "smithery", "unknown_capability", "missing"}

Held == {"running", "command"}  \* it has a permit
Open == {"waiting"} \cup Held
Batches(b) == UNION {[1 .. n -> Kind] : n \in 0 .. MaxRequests[b]}

TypeOK ==
    /\ \A b \in Batch :
         /\ requests[b] \in Batches(b)
         /\ status[b] \in [DOMAIN requests[b] -> Open \cup {"success", "error"}]
         /\ envelope[b] \in [DOMAIN requests[b] -> {"none", "success", "error", "retryable"}]
         /\ invoked[b] \in [DOMAIN requests[b] -> 0 .. MaxInvocations]
    /\ results \in [Batch -> {"none", "open", "returned"}]

Init ==
    /\ requests = [b \in Batch |-> << >>]
    /\ status = [b \in Batch |-> << >>]
    /\ envelope = [b \in Batch |-> << >>]
    /\ invoked = [b \in Batch |-> << >>]
    /\ results = [b \in Batch |-> "none"]

\* The coroutines are gathered: a missing tool is answered at once, without
\* a permit, the others queue for one.
batch_execute(b) ==
    /\ results[b] = "none"
    /\ \E list \in Batches(b) :
         /\ requests' = [requests EXCEPT ![b] = list]
         /\ status' = [status EXCEPT ![b] = [i \in DOMAIN list |->
                         IF list[i] = "missing" THEN "error" ELSE "waiting"]]
         /\ envelope' = [envelope EXCEPT ![b] = [i \in DOMAIN list |-> "none"]]
         /\ invoked' = [invoked EXCEPT ![b] = [i \in DOMAIN list |-> 0]]
    /\ results' = [results EXCEPT ![b] = "open"]

Running == UNION {{<<b, i>> : i \in {j \in DOMAIN requests[b] : status[b][j] \in Held}} :
                     b \in Batch}

Acquire(b, i) ==
    /\ status[b][i] = "waiting"
    /\ Cardinality(Running) < MAX_CONCURRENCY
    /\ status' = [status EXCEPT ![b][i] = "running"]
    /\ UNCHANGED <<requests, envelope, invoked, results>>

\* A tool returns or raises, if it ends: nothing bounds it.  The permit is
\* given back either way.
CallTool(b, i) ==
    /\ status[b][i] = "running" /\ requests[b][i] = "tool"
    /\ \E end \in {"success", "error"} : status' = [status EXCEPT ![b][i] = end]
    /\ UNCHANGED <<requests, envelope, invoked, results>>

Enveloped(b, i, answer) ==
    /\ status' = [status EXCEPT ![b][i] = "success"]
    /\ envelope' = [envelope EXCEPT ![b][i] = answer]

\* CapabilityService.execute() with a handler of this process, which may raise.
execute_local_capability(b, i) ==
    /\ status[b][i] = "running" /\ requests[b][i] = "local"
    /\ \E answer \in {"success", "error"} : Enveloped(b, i, answer)
    /\ UNCHANGED <<requests, invoked, results>>

\* CapabilityService.execute(): nobody registered the name.
UnknownCapability(b, i) ==
    /\ status[b][i] = "running" /\ requests[b][i] = "unknown_capability"
    /\ Enveloped(b, i, "error")
    /\ UNCHANGED <<requests, invoked, results>>

\* create_subprocess_exec(): an attempt at the command.
Invoke(b, i) ==
    /\ status[b][i] = "running" /\ requests[b][i] = "smithery"
    /\ status' = [status EXCEPT ![b][i] = "command"]
    /\ invoked' = [invoked EXCEPT ![b][i] = @ + 1]
    /\ UNCHANGED <<requests, envelope, results>>

Again(b, i) == status' = [status EXCEPT ![b][i] = "running"] /\ UNCHANGED <<envelope, invoked>>

\* Mutant: every failure starts the attempts over.
invoke_smithery_tool_Forever(b, i) ==
    /\ status[b][i] = "command"
    /\ \/ Enveloped(b, i, "success") /\ UNCHANGED invoked
       \/ /\ status' = [status EXCEPT ![b][i] = "running"]
          /\ invoked' = [invoked EXCEPT ![b][i] = 0] /\ UNCHANGED envelope
    /\ UNCHANGED <<requests, results>>

\* Mutant: the last attempt is not the last.
invoke_smithery_tool_OneMore(b, i) ==
    /\ status[b][i] = "command"
    /\ \/ \E answer \in {"success", "retryable"} : Enveloped(b, i, answer) /\ UNCHANGED invoked
       \/ invoked[b][i] <= MaxInvocations /\ Again(b, i)
    /\ UNCHANGED <<requests, results>>

\* _invoke_smithery_tool(), if communicate() ends: the command has succeeded,
\* or failed and is tried again; the last failure, and an error of another
\* kind, becomes a string that the backend takes for a retryable error.
invoke_smithery_tool(b, i) ==
    /\ status[b][i] = "command"
    /\ \/ \E answer \in {"success", "retryable"} : Enveloped(b, i, answer) /\ UNCHANGED invoked
       \/ invoked[b][i] < MaxInvocations /\ Again(b, i)
    /\ UNCHANGED <<requests, results>>

\* gather() has all results.
Returned(b) ==
    /\ results[b] = "open"
    /\ \A i \in DOMAIN requests[b] : status[b][i] \notin Open
    /\ results' = [results EXCEPT ![b] = "returned"]
    /\ UNCHANGED <<requests, status, envelope, invoked>>

\* What the event loop does by itself, and what it is told when a tool or a
\* command has ended.
Work(b) ==
    \/ \E i \in DOMAIN requests[b] :
         \/ Acquire(b, i) \/ execute_local_capability(b, i) \/ UnknownCapability(b, i)
         \/ Invoke(b, i)
    \/ Returned(b)

Ended(b) == \E i \in DOMAIN requests[b] : CallTool(b, i) \/ invoke_smithery_tool(b, i)

Next == \E b \in Batch : batch_execute(b) \/ Work(b) \/ Ended(b)

\* The semaphore serves its waiters.  No tool and no command has to end.
Fairness == WF_dispatchVars(\E b \in Batch : Work(b))

Spec == Init /\ [][Next]_dispatchVars /\ Fairness

-----------------------------------------------------------------------------

InTool(b, i) ==
    /\ i \in DOMAIN requests[b]
    /\ \/ status[b][i] = "command"
       \/ status[b][i] = "running" /\ requests[b][i] = "tool"

\* No tool of the batch and no attempt at a command hangs, and hanging ones of
\* other batches do not keep all permits.
NothingHangs(b) ==
    /\ \A i \in 1 .. MaxRequests[b] : []<>~InTool(b, i)
    /\ []<>(Cardinality(Running) < MAX_CONCURRENCY)

(* However many calls the batches make, however they end and however few    *)
(* permits there are: never more tools run than there are permits, and a    *)
(* batch is answered in full unless a tool of its own hangs or hanging      *)
(* tools hold every permit: the attempts at a command are bounded, and      *)
(* every end gives the permit back.                                         *)
BatchesAreAnswered ==
    /\ [](Cardinality(Running) <= MAX_CONCURRENCY)
    /\ \A b \in Batch : NothingHangs(b) => (results[b] = "open" ~> results[b] = "returned")

=============================================================================
