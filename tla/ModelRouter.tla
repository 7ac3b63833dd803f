----------------------------- MODULE ModelRouter -----------------------------
(***************************************************************************)
(* src/src/services/model_router.py: concurrent calls of                   *)
(* execute_with_fallback() on one router, which picks a model for the task *)
(* and falls back along a chain ranked by what the models did so far.      *)
(* A description stands for the capability and the complexity its patterns *)
(* give; a request takes no time or ten seconds.  Scores are multiples of  *)
(* 1/1200, exact while a model has at most four successes and failures.    *)
(***************************************************************************)
EXTENDS Naturals, Sequences, FiniteSets, SequencesExt, Sublists

CONSTANTS
    Model,           \* all models
    Default,         \* DEFAULT_CAPABILITIES: per capability, models in order
    FALLBACK_MODELS, \* Config.FALLBACK_MODELS
    Small, Large,    \* the models whose names say mini or flash, gpt-4 or pro
    HighCapability,  \* the models preferred for critical tasks
    Cheap,           \* the models preferred for simple ones
    Free,            \* those whose cost is 0; the others cost 0.01
    Call             \* concurrent calls

Capability == DOMAIN Default

\* "high" is treated like "medium".
Complexity == {"low", "medium", "critical"}

VARIABLES
    perf,    \* _performance_tracking: successes, failures, slow successes
    chain,   \* per call: the models to try
    tried,   \* per call: the attempts that ended, with their outcome
    verdict  \* per call: "none", "trying", "answered", "raised", "cancelled"

routerVars == <<perf, chain, tried, verdict>>

Performance == [success : Nat, failure : Nat, slow : Nat]

TypeOK ==
    /\ perf \in [Model -> Performance]
    /\ chain \in [Call -> Seq(Model)]
    /\ tried \in [Call -> Seq(Model \X BOOLEAN)]
    /\ verdict \in [Call -> {"none", "trying", "answered", "raised", "cancelled"}]

Init ==
    /\ perf = [m \in Model |-> [success |-> 0, failure |-> 0, slow |-> 0]]
    /\ chain = [c \in Call |-> << >>]
    /\ tried = [c \in Call |-> << >>]
    /\ verdict = [c \in Call |-> "none"]

-----------------------------------------------------------------------------
(* The registry and the choice of a model.                                  *)

register_model_capability(table, model, capabilities) ==
    [c \in Capability |->
       IF c \in capabilities /\ model \notin ToSet(table[c])
         THEN Append(table[c], model) ELSE table[c]]

\* A model of neither kind that no capability lists is good for everything.
register_model_by_heuristics(table, model) ==
    LET small == register_model_capability(table, model,
                   IF model \in Small THEN {"quick", "analysis"} ELSE {})
        large == register_model_capability(small, model,
                   IF model \in Large THEN Capability \ {"quick"} ELSE {})
    IN  register_model_capability(large, model,
          IF \E c \in Capability : model \in ToSet(large[c]) THEN {} ELSE Capability)

Registered == FoldLeft(register_model_by_heuristics, Default, FALLBACK_MODELS)

total_requests(m) == perf[m].success + perf[m].failure

\* (weight/100) success_rate, in 1/1200; 0 without requests.
RateScore(m, weight) ==
    IF total_requests(m) = 0 THEN 0
    ELSE (12 * weight * perf[m].success) \div total_requests(m)

\* (weight/100) max(0, 1 - average_response_time/limit): a model that never
\* succeeded has the average 0, hence the full score; ten seconds give none.
SpeedScore(m, weight) ==
    IF perf[m].success = 0 THEN 12 * weight
    ELSE (12 * weight * (perf[m].success - perf[m].slow)) \div perf[m].success

performance_score(m) ==
    IF total_requests(m) = 0 THEN 600 ELSE RateScore(m, 70) + SpeedScore(m, 30)

\* Same scale; a slow request takes twice the limit of 5 seconds.
quick_preference_score(m) ==
    IF total_requests(m) = 0 THEN 600
    ELSE RateScore(m, 50)
           + IF perf[m].success = 0 THEN 600
             ELSE LET fast == perf[m].success - 2 * perf[m].slow
                  IN  IF perf[m].success < 2 * perf[m].slow THEN 0
                      ELSE (600 * fast) \div perf[m].success

\* Stable, best first.
rank_models_by_performance(candidates) ==
    LET score(i) == performance_score(candidates[i])
        better == {p \in (DOMAIN candidates) \X DOMAIN candidates :
                     \/ score(p[1]) > score(p[2])
                     \/ /\ score(p[1]) = score(p[2])
                        /\ p[1] < p[2]}
        order == InOrder(DOMAIN candidates, better)
    IN  [k \in DOMAIN candidates |-> candidates[order[k]]]

filter_by_complexity(candidates, complexity) ==
    LET of(S) == Kept(candidates, {i \in DOMAIN candidates : candidates[i] \in S})
    IN  CASE complexity = "critical" ->
               IF of(HighCapability) # << >> THEN of(HighCapability) ELSE candidates
          [] complexity = "low" -> of(Cheap) \o of(Model \ Cheap)
          [] complexity = "medium" -> candidates

\* For quick and simple tasks, the first cheaper model that is nearly as good
\* as the best one, if the best one costs anything.
apply_cost_tradeoff(ranked, capability, complexity) ==
    LET best == ranked[1]
        cheaper == {i \in 2 .. Len(ranked) :
                     /\ ranked[i] \in Free /\ best \notin Free
                     /\ 10 * quick_preference_score(ranked[i])
                          >= 9 * quick_preference_score(best)}
    IN  IF /\ complexity # "critical"
           /\ capability = "quick" \/ complexity = "low"
           /\ cheaper # {}
          THEN ranked[CHOOSE i \in cheaper : \A j \in cheaper : i <= j] ELSE best

route(capability, complexity) ==
    LET candidates == IF Registered[capability] = << >> THEN FALLBACK_MODELS
                      ELSE Registered[capability]
    IN  apply_cost_tradeoff(
          rank_models_by_performance(filter_by_complexity(candidates, complexity)),
          capability, complexity)

\* Mutant: the primary stays among the fallbacks.
get_fallback_chain_Repeat(primary, candidates) ==
    << primary >> \o rank_models_by_performance(candidates)

get_fallback_chain(primary, candidates) ==
    << primary >> \o rank_models_by_performance(
                       Kept(candidates, {i \in DOMAIN candidates : candidates[i] # primary}))

-----------------------------------------------------------------------------

\* execute_with_fallback(): with a capability the fallbacks are the models
\* registered for it, without one those of the configuration, whatever the
\* description was classified as.
execute_with_fallback(c) ==
    /\ verdict[c] = "none"
    /\ \E capability \in Capability, complexity \in Complexity, given \in BOOLEAN :
         chain' = [chain EXCEPT ![c] =
           get_fallback_chain(route(capability, complexity),
             IF given THEN Registered[capability] ELSE FALLBACK_MODELS)]
    /\ verdict' = [verdict EXCEPT ![c] = "trying"]
    /\ UNCHANGED <<perf, tried>>

Trying(c) == chain[c][Len(tried[c]) + 1]

\* track_model_performance()
track(m, ok, slow) ==
    perf' = [perf EXCEPT
               ![m].success = IF ok THEN @ + 1 ELSE @,
               ![m].failure = IF ok THEN @ ELSE @ + 1,
               ![m].slow = IF slow THEN @ + 1 ELSE @]

Answered(c) ==
    /\ verdict[c] = "trying"
    /\ \E slow \in BOOLEAN : track(Trying(c), TRUE, slow)
    /\ tried' = [tried EXCEPT ![c] = Append(@, <<Trying(c), TRUE>>)]
    /\ verdict' = [verdict EXCEPT ![c] = "answered"]
    /\ UNCHANGED chain

\* Mutant: the last exception is raised one model too early.
Failed_Early(c) ==
    /\ verdict[c] = "trying"
    /\ track(Trying(c), FALSE, FALSE)
    /\ tried' = [tried EXCEPT ![c] = Append(@, <<Trying(c), FALSE>>)]
    /\ verdict' = [verdict EXCEPT ![c] =
                     IF Len(tried'[c]) + 1 >= Len(chain[c]) THEN "raised" ELSE @]
    /\ UNCHANGED chain

\* On to the next model; after the last one the exception is raised.
Failed(c) ==
    /\ verdict[c] = "trying"
    /\ track(Trying(c), FALSE, FALSE)
    /\ tried' = [tried EXCEPT ![c] = Append(@, <<Trying(c), FALSE>>)]
    /\ verdict' = [verdict EXCEPT ![c] =
                     IF Len(tried'[c]) = Len(chain[c]) THEN "raised" ELSE @]
    /\ UNCHANGED chain

\* CancelledError is no Exception: nothing is tracked, nothing tried again.
Cancelled(c) ==
    /\ verdict[c] = "trying"
    /\ verdict' = [verdict EXCEPT ![c] = "cancelled"]
    /\ UNCHANGED <<perf, chain, tried>>

Next == \E c \in Call : \/ execute_with_fallback(c)
                        \/ Answered(c) \/ Failed(c) \/ Cancelled(c)

Spec == Init /\ [][Next]_routerVars

-----------------------------------------------------------------------------

\* The attempts of all calls at a model with that outcome.
AttemptsMade(m, ok) ==
    {a \in UNION {{c} \X DOMAIN tried[c] : c \in Call} : tried[a[1]][a[2]] = <<m, ok>>}

(* A call gives up only when every model of its chain has failed, tries     *)
(* none twice (if the configuration names none twice), stops at the first   *)
(* success, and keeps the chain it started with although other calls change *)
(* the ranking meanwhile; and the statistics the ranking rests on count     *)
(* every attempt of every call once.                                        *)
FallbackIsExhaustive ==
    /\ \A c \in Call :
         /\ IsInjective(FALLBACK_MODELS) =>
              IsInjective([k \in DOMAIN tried[c] |-> tried[c][k][1]])
         /\ \A k \in DOMAIN tried[c] :
              tried[c][k] = <<chain[c][k], verdict[c] = "answered" /\ k = Len(tried[c])>>
         /\ verdict[c] = "raised" => Len(tried[c]) = Len(chain[c])
    /\ \A m \in Model : /\ Cardinality(AttemptsMade(m, TRUE)) = perf[m].success
                        /\ Cardinality(AttemptsMade(m, FALSE)) = perf[m].failure

=============================================================================
