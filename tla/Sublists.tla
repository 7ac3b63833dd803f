-------------------------------- MODULE Sublists --------------------------------
(* The list comprehension [x for x in s if ...], what is kept of a sequence,   *)
(* and sorting, without recursion.                                             *)
EXTENDS Naturals, FiniteSets

\* How many of the positions P there are up to i, and which is the n-th.
Rank(P, i) == Cardinality({j \in P : j <= i})
Nth(P, n) == CHOOSE i \in P : Rank(P, i) = n

\* The elements of s at the positions P, in their order.
Kept(s, P) == [n \in 1 .. Cardinality(P) |-> s[Nth(P, n)]]

\* The elements of a finite set in the strict order R, a set of pairs: each
\* stands where as many are ahead of it as R says.
Ahead(S, R, x) == {y \in S : <<y, x>> \in R}
InOrder(S, R) ==
    [k \in 1 .. Cardinality(S) |-> CHOOSE x \in S : Cardinality(Ahead(S, R, x)) = k - 1]
===============================================================================
