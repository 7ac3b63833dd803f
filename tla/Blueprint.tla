------------------------------- MODULE Blueprint ------------------------------
(* The plans of BlueprintPlanner: a plan is a sequence of steps, each with an  *)
(* id and the ids it depends on.  A step's text is left out but for the gap a  *)
(* fix step repeats.                                                            *)
EXTENDS Naturals, Sequences, Functions

Step(id, deps, gap) == [id |-> id, deps |-> deps, gap |-> gap]
NoGap == "none"

Ids(steps) == {steps[i].id : i \in DOMAIN steps}

\* A chain of the keyword's steps; from three steps on, one that reflects.
plan(length) ==
    LET chain == [i \in 1..length |-> Step(<<"step", i - 1>>,
                                           IF i = 1 THEN <<>> ELSE <<<<"step", i - 2>>>>, NoGap)]
    IN  IF length >= 3
          THEN Append(chain, Step(<<"reflect", 0>>, <<chain[Len(chain)].id>>, NoGap))
          ELSE chain

\* Mutant: a fix step does not say what it fixes.
replan_Silent(steps, gaps) ==
    LET Fixed(i) == IF i = 0 THEN steps[Len(steps)].id ELSE <<"fix", Len(steps) + i - 1>>
        fixes == [i \in DOMAIN gaps |-> Step(Fixed(i), <<Fixed(i - 1)>>, NoGap)]
    IN  IF gaps = <<>> THEN steps
        ELSE steps \o Append(fixes, Step(<<"verify", 0>>, <<Fixed(Len(gaps))>>, NoGap))

\* One fix per gap after the last step, each after the one before, then a step
\* that verifies.
replan(steps, gaps) ==
    LET Fixed(i) == IF i = 0 THEN steps[Len(steps)].id ELSE <<"fix", Len(steps) + i - 1>>
        fixes == [i \in DOMAIN gaps |-> Step(Fixed(i), <<Fixed(i - 1)>>, gaps[i])]
    IN  IF gaps = <<>> THEN steps
        ELSE steps \o Append(fixes, Step(<<"verify", 0>>, <<Fixed(Len(gaps))>>, NoGap))

\* Kahn's algorithm over the ids; steps that share an id share a degree, which
\* is zero when all that they depend on is done.
topological_order(steps) ==
    LET First(id) == CHOOSE i \in DOMAIN steps :
                        steps[i].id = id /\ \A j \in 1..(i - 1) : steps[j].id # id
        Ready(order) == {id \in Ids(steps) :
                           /\ id \notin Range(order)
                           /\ \A i \in DOMAIN steps : steps[i].id = id =>
                                \A d \in Range(steps[i].deps) : d \in Range(order)}
        Next(order) == IF Ready(order) = {} THEN order
                       ELSE Append(order, CHOOSE id \in Ready(order) :
                                \A other \in Ready(order) : First(id) <= First(other))
        After[n \in 0 .. Len(steps)] == IF n = 0 THEN <<>> ELSE Next(After[n - 1])
    IN  After[Len(steps)]

\* topological_order() returns instead of raising.
Ordered(steps) == Len(topological_order(steps)) = Len(steps)
===============================================================================
