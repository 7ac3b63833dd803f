------------------------------- MODULE Planner -------------------------------
(***************************************************************************)
(* src/src/planner.py, run_planner(): ask the model, run the tools its     *)
(* answer calls for, feed the results back, until an answer calls for none *)
(* or the iterations are used up.  A text is reduced to the tool calls     *)
(* _parse_tool_calls() finds in it, whichever format they came in; the     *)
(* model may answer with any text, with nothing, or raise; a tool may hang. *)
(***************************************************************************)
EXTENDS Naturals, Sequences, Sublists

CONSTANTS
    Tool,           \* _TOOL_REGISTRY
    MaxIterations,  \* max_iterations
    Attempts,       \* Config.LLM_RETRIES + 1
    MaxCalls        \* bound: tool calls in one text

VARIABLES
    step,        \* where run_planner() is
    allowed,     \* allowed_tools
    iteration,   \* tool rounds completed
    tries,       \* attempts of this turn that gave nothing
    messages,    \* what the model has been told, after the two prompts
    calls,       \* the calls being executed
    outcome,     \* per call: how it ended
    answer       \* what run_planner() returned

plannerVars == <<step, allowed, iteration, tries, messages, calls, outcome, answer>>

Unknown == "unknown_tool"   \* any name the registry does not have
Nothing(kind) == [kind |-> kind, body |-> << >>]   \* "": a blank answer
Text == UNION {[1 .. n -> Tool \cup {Unknown}] : n \in 0 .. MaxCalls}

\* A tool result: its tool and its status.  An unknown tool has no name.
Result == (Tool \cup {Unknown}) \X {"success", "error"}

Message == [role : {"assistant"}, text : Text]
             \cup [role : {"user"}, text : Seq(Result)]

TypeOK ==
    /\ step \in {"idle", "turn", "tools", "final", "done", "raised"}
    /\ allowed \subseteq Tool \cup {Unknown}
    /\ iteration \in 0 .. MaxIterations
    /\ tries \in 0 .. Attempts - 1
    /\ messages \in Seq(Message)
    /\ calls \in Text
    /\ outcome \in Seq({"pending", "success", "error"})
    /\ answer \in [kind : {"none", "blank", "text"}, body : Text]
                   \cup [kind : {"results"}, body : Seq(Result)]

Init ==
    /\ step = "idle" /\ allowed = {}
    /\ iteration = 0 /\ tries = 0
    /\ messages = << >> /\ calls = << >> /\ outcome = << >>
    /\ answer = Nothing("none")

\* allowed_tools is None, or any set of tools.
run_planner ==
    /\ step = "idle"
    /\ allowed' \in (SUBSET Tool) \cup {Tool \cup {Unknown}}
    /\ IF MaxIterations = 0 THEN step' = "done" /\ answer' = Nothing("blank")
                            ELSE step' = "turn" /\ UNCHANGED answer
    /\ UNCHANGED <<iteration, tries, messages, calls, outcome>>

Return(kind, body) == step' = "done" /\ answer' = [kind |-> kind, body |-> body]

ReturnResults == Return("results", messages[Len(messages)].text)

\* Mutant: the calls that are not allowed are executed too.
Permitted_All(text) == text

\* The calls left when unauthorized ones are filtered out.
Permitted(text) == Kept(text, {i \in DOMAIN text : text[i] \in allowed})

\* _llm_turn() gave a text inside the loop: execute its calls, or return it.
Respond ==
    /\ step = "turn"
    /\ tries' = 0
    /\ \E text \in Text :
         IF Permitted(text) = << >>
           THEN /\ Return("text", text)
                /\ UNCHANGED <<messages, calls, outcome>>
           ELSE /\ step' = "tools"
                /\ calls' = Permitted(text)
                /\ outcome' = [i \in DOMAIN calls' |-> "pending"]
                /\ messages' = Append(messages, [role |-> "assistant", text |-> text])
                /\ UNCHANGED answer
    /\ UNCHANGED <<allowed, iteration>>

\* Mutant: the last text is returned whatever it asks for.
Finalize_Any ==
    /\ step = "final"
    /\ tries' = 0
    /\ \E text \in Text : Return("text", text)
    /\ UNCHANGED <<allowed, iteration, messages, calls, outcome>>

\* The turn after the last round: a text that still calls a tool, allowed or
\* not, is replaced by the latest tool results.
Finalize ==
    /\ step = "final"
    /\ tries' = 0
    /\ \E text \in Text :
         IF text = << >> THEN Return("text", text) ELSE ReturnResults
    /\ UNCHANGED <<allowed, iteration, messages, calls, outcome>>

\* The model says nothing: try again; after the last attempt the text is "".
EmptyResponse ==
    /\ step \in {"turn", "final"}
    /\ IF tries + 1 < Attempts
         THEN tries' = tries + 1 /\ UNCHANGED <<step, answer>>
         ELSE /\ tries' = 0
              /\ IF step = "final" THEN ReturnResults ELSE Return("blank", << >>)
    /\ UNCHANGED <<allowed, iteration, messages, calls, outcome>>

\* A retryable error; the last one is raised.
RetryableError ==
    /\ step \in {"turn", "final"}
    /\ IF tries + 1 < Attempts
         THEN tries' = tries + 1 /\ UNCHANGED step
         ELSE tries' = 0 /\ step' = "raised"
    /\ UNCHANGED <<allowed, iteration, messages, calls, outcome, answer>>

OtherError ==
    /\ step \in {"turn", "final"}
    /\ step' = "raised" /\ tries' = 0
    /\ UNCHANGED <<allowed, iteration, messages, calls, outcome, answer>>

\* _execute_tool_call(): the calls run concurrently and end in any order, or
\* not at all, as nothing bounds the wait for them; one that
\* is not registered or raises is an error result, never an exception.
execute_tool_call(i) ==
    /\ step = "tools" /\ outcome[i] = "pending"
    /\ \E status \in {"success", "error"} :
         /\ calls[i] = Unknown => status = "error"
         /\ outcome' = [outcome EXCEPT ![i] = status]
    /\ UNCHANGED <<step, allowed, iteration, tries, messages, calls, answer>>

\* Mutant: the results are listed backwards.
Gather_Backwards ==
    /\ step = "tools"
    /\ \A i \in DOMAIN outcome : outcome[i] # "pending"
    /\ messages' = Append(messages, [role |-> "user",
                     text |-> [i \in DOMAIN calls |->
                                 <<calls[Len(calls) + 1 - i], outcome[Len(calls) + 1 - i]>>]])
    /\ iteration' = iteration + 1
    /\ step' = IF iteration' < MaxIterations THEN "turn" ELSE "final"
    /\ UNCHANGED <<allowed, tries, calls, outcome, answer>>

\* All have ended; gather() lists the results in the order of the calls.
Gather ==
    /\ step = "tools"
    /\ \A i \in DOMAIN outcome : outcome[i] # "pending"
    /\ messages' = Append(messages, [role |-> "user",
                     text |-> [i \in DOMAIN calls |-> <<calls[i], outcome[i]>>]])
    /\ iteration' = iteration + 1
    /\ step' = IF iteration' < MaxIterations THEN "turn" ELSE "final"
    /\ UNCHANGED <<allowed, tries, calls, outcome, answer>>

Step ==
    \/ Respond \/ Finalize \/ EmptyResponse \/ RetryableError \/ OtherError
    \/ Gather

Next == run_planner \/ Step \/ \E i \in DOMAIN calls : execute_tool_call(i)

\* acompletion() has a timeout; the tools have none.
Fairness == WF_plannerVars(Step)

Spec == Init /\ [][Next]_plannerVars /\ Fairness

-----------------------------------------------------------------------------

(* What the model reads of its tools is what happened: requests and results *)
(* alternate, the results of a round answer the allowed calls of the text   *)
(* before them one by one, in order, in whatever order the tools ended.     *)
ConversationIsTrue ==
    /\ Len(messages) = 2 * iteration + (IF step = "tools" THEN 1 ELSE 0)
    /\ \A k \in DOMAIN messages : messages[k].role = (IF k % 2 = 1 THEN "assistant" ELSE "user")
    /\ \A k \in 1 .. iteration :
         LET asked == Permitted(messages[2 * k - 1].text)
             told == messages[2 * k].text
         IN  /\ [i \in DOMAIN told |-> told[i][1]] = asked
             /\ \A i \in DOMAIN told :
                  /\ told[i][1] \in allowed
                  /\ told[i][2] = "success" => told[i][1] \in Tool

(* What is returned leaves nothing to do: a text calls for no allowed tool, *)
(* and for none at all once the iterations are used up; otherwise it is     *)
(* the results of the last round.                                           *)
AnswerIsFinal ==
    step = "done" =>
      CASE answer.kind = "blank" -> iteration < MaxIterations \/ MaxIterations = 0
        [] answer.kind = "text" ->
             IF iteration < MaxIterations THEN Permitted(answer.body) = << >>
                                          ELSE answer.body = << >>
        [] answer.kind = "results" ->
             iteration = MaxIterations /\ answer.body = messages[Len(messages)].text

Pending(i) == step = "tools" /\ i \in DOMAIN outcome /\ outcome[i] = "pending"

(* A planner that was started returns or raises unless a tool hangs: there  *)
(* are no more rounds than iterations and no more tries than attempts,      *)
(* whatever the model says.                                                 *)
PlannerEnds ==
    (\A i \in 1 .. MaxCalls : []<>~Pending(i)) =>
      (step = "turn" ~> step \in {"done", "raised"})

=============================================================================
