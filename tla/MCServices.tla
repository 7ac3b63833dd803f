------------------------------ MODULE MCServices ------------------------------
(* Services on small instances.                                                *)
EXTENDS Services, TLC

CONSTANTS b1, m1, m2, m3, w1, w2, w3

MCMaxRequests == [b \in Batch |-> IF b = b1 THEN 2 ELSE 1]
MCBudget == [p \in Process |-> IF p \in Governor THEN 2 ELSE 1]
MCProcessOf == w1 :> "p" @@ w2 :> "p" @@ w3 :> "q"
MCCandidates == <<m1, m2>>
MCCorpusOf == 1 :> "specs" @@ 2 :> "plans"
MCAgentOf == 1 :> "a" @@ 2 :> "a"

\* The registry, the heuristics of the names, and the models that are preferred.
MCDefault == [code |-> <<m1, m2>>, review |-> <<m2>>, analysis |-> <<m1>>,
              creative |-> <<m2, m1>>, quick |-> <<m2>>]
MCFallback == <<m3, m1>>

MCLengthOf == [g1 |-> 2, g2 |-> 4]
MCWordsOf == [g1 |-> {"v"}, g2 |-> {"v", "w"}]
MCKindOf == [s |-> "stated", e |-> "echoed", m |-> "mute"]

MCMatched == [a |-> [s |-> 1], b |-> [s |-> 0]]
MCExpected == [d \in -24 .. 24 |-> IF d > 0 THEN 3 ELSE IF d = 0 THEN 2 ELSE 1]

\* From one set of files and one goal: edits and later runs bring the others.
MCInit ==
    /\ Init /\ file = <<1, 1>> /\ goal = "g1" /\ retries = 0
    /\ subject = "tournament" \/ least = 1

MCSpec == MCInit /\ [][Next]_vars /\ Fairness
===============================================================================
