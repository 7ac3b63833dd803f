----------------------------- MODULE SublistsProofs -----------------------------
(* What a list comprehension keeps: every chosen position once, in its order;  *)
(* what sorting returns; induction over numbers and over finite sets, and that *)
(* a recursion over the elements of a finite set has a solution.               *)
EXTENDS Sublists, Sequences, FunctionTheorems, FiniteSetTheorems, SequenceTheorems,
        WellFoundedInduction, TLAPS

\* Positions of a list are finite, and no more than it has.
LEMMA PositionsAreFinite ==
    ASSUME NEW m \in Nat, NEW P \in SUBSET (1 .. m)
    PROVE  IsFiniteSet(P) /\ Cardinality(P) \in Nat /\ Cardinality(P) <= m
<1>1. IsFiniteSet(1 .. m) /\ Cardinality(1 .. m) = m
  BY FS_Interval
<1>2. QED
  BY <1>1, FS_Subset, FS_CardinalityType

\* Ranks grow with the positions.
LEMMA RankGrows ==
    ASSUME NEW m \in Nat, NEW P \in SUBSET (1 .. m), NEW i \in P, NEW j \in P, i < j
    PROVE  Rank(P, i) \in Nat /\ Rank(P, j) \in Nat /\ Rank(P, i) < Rank(P, j)
<1> DEFINE U(x) == {y \in P : y <= x}
<1>1. IsFiniteSet(U(j))
  BY PositionsAreFinite, FS_Subset
<1>2. U(i) \in SUBSET U(j) /\ j \in U(j) /\ j \notin U(i)
  <2>1. \A y \in P : y \in Int
    OBVIOUS
  <2>2. \A y \in P : y <= i => y <= j
    BY <2>1
  <2>3. ~(j <= i) /\ j <= j
    BY <2>1
  <2>4. QED
    BY <2>2, <2>3
<1>3. Rank(P, i) = Cardinality(U(i)) /\ Rank(P, j) = Cardinality(U(j))
  BY DEF Rank
<1> HIDE DEF U
<1>4. /\ IsFiniteSet(U(i)) /\ Cardinality(U(i)) <= Cardinality(U(j))
      /\ Cardinality(U(i)) # Cardinality(U(j))
  BY <1>1, <1>2, FS_Subset
<1>5. Cardinality(U(i)) \in Nat /\ Cardinality(U(j)) \in Nat
  BY <1>1, <1>4, FS_CardinalityType
<1>6. QED
  BY <1>3, <1>4, <1>5

\* Ranks tell positions apart and order them.
LEMMA RankOrder ==
    ASSUME NEW m \in Nat, NEW P \in SUBSET (1 .. m), NEW i \in P, NEW j \in P
    PROVE  /\ Rank(P, i) = Rank(P, j) => i = j
           /\ Rank(P, i) < Rank(P, j) => i < j
<1>1. i \in Int /\ j \in Int
  OBVIOUS
<1>2. i = j \/ i < j \/ j < i
  BY <1>1
<1>3. CASE i = j
  <2>1. \A y \in P : y \in Nat
    OBVIOUS
  <2>2. Rank(P, i) \in Nat
    <3>1. {y \in P : y <= i} \in SUBSET (1 .. m)
      OBVIOUS
    <3>2. QED
      BY <3>1, PositionsAreFinite DEF Rank
  <2>3. QED
    BY <1>3, <2>2
<1>4. CASE i < j
  BY <1>4, RankGrows
<1>5. CASE j < i
  <2>1. Rank(P, j) \in Nat /\ Rank(P, i) \in Nat /\ Rank(P, j) < Rank(P, i)
    BY <1>5, RankGrows
  <2>2. QED
    BY <2>1
<1>6. QED
  BY <1>2, <1>3, <1>4, <1>5

\* The ranks are 1 to the number of positions.
LEMMA RanksAreNumbers ==
    ASSUME NEW m \in Nat, NEW P \in SUBSET (1 .. m)
    PROVE  /\ \A i \in P : Rank(P, i) \in 1 .. Cardinality(P)
           /\ \A n \in 1 .. Cardinality(P) : \E i \in P : Rank(P, i) = n
<1> DEFINE C == Cardinality(P)
           rank == [i \in P |-> Rank(P, i)]
<1>1. IsFiniteSet(P) /\ C \in Nat
  BY PositionsAreFinite
<1>2. ASSUME NEW i \in P PROVE Rank(P, i) \in 1 .. C
  <2> DEFINE U == {j \in P : j <= i}
  <2>1. U \in SUBSET P /\ i \in U
    OBVIOUS
  <2>2. Rank(P, i) = Cardinality(U)
    BY DEF Rank
  <2> HIDE DEF U
  <2>3. IsFiniteSet(U) /\ Cardinality(U) <= C
    BY <1>1, <2>1, FS_Subset
  <2>4. Cardinality(U) \in Nat /\ Cardinality(U) # 0
    BY <2>1, <2>3, FS_CardinalityType, FS_EmptySet
  <2>5. QED
    BY <1>1, <2>2, <2>3, <2>4
<1>3. rank \in Injection(P, 1 .. C)
  <2>1. rank \in [P -> 1 .. C]
    BY <1>2
  <2>2. ASSUME NEW i \in P, NEW j \in P, i # j PROVE rank[i] # rank[j]
    BY <2>2, RankOrder
  <2>3. QED
    BY <2>1, <2>2 DEF Injection, IsInjective
<1>4. IsFiniteSet(1 .. C) /\ Cardinality(1 .. C) = C
  BY <1>1, FS_Interval
<1> HIDE DEF C
<1>5. rank \in Surjection(P, 1 .. C)
  <2> HIDE DEF rank
  <2>1. QED
    BY <1>3, <1>4, FS_Injection DEF C
<1>6. ASSUME NEW n \in 1 .. C PROVE \E i \in P : Rank(P, i) = n
  BY <1>5 DEF Surjection
<1>7. QED
  BY <1>2, <1>6 DEF C

\* There are no more positions up to i than numbers.
LEMMA RankBound ==
    ASSUME NEW m \in Nat, NEW P \in SUBSET (1 .. m), NEW i \in P
    PROVE  Rank(P, i) \in Nat /\ i >= Rank(P, i)
<1> DEFINE U == {j \in P : j <= i}
<1>1. i \in Nat /\ \A j \in P : j \in Nat /\ j >= 1
  OBVIOUS
<1>2. \A j \in U : j \in 1 .. i
  BY <1>1
<1>3. U \in SUBSET (1 .. i)
  BY <1>2
<1>4. Rank(P, i) = Cardinality(U)
  BY DEF Rank
<1> HIDE DEF U
<1>5. QED
  BY <1>1, <1>3, <1>4, PositionsAreFinite

\* The n-th position: its rank is n, it is no smaller than n, and later ones
\* are greater.
LEMMA NthPosition ==
    ASSUME NEW m \in Nat, NEW P \in SUBSET (1 .. m)
    PROVE  /\ \A n \in 1 .. Cardinality(P) : Nth(P, n) \in P /\ Rank(P, Nth(P, n)) = n
           /\ \A i \in P : Rank(P, i) \in 1 .. Cardinality(P) /\ Nth(P, Rank(P, i)) = i
           /\ \A n \in 1 .. Cardinality(P) : Nth(P, n) >= n
           /\ \A k, n \in 1 .. Cardinality(P) : k < n => Nth(P, k) < Nth(P, n)
<1>1. IsFiniteSet(P) /\ Cardinality(P) \in Nat
  BY PositionsAreFinite
<1>2. ASSUME NEW n \in 1 .. Cardinality(P) PROVE Nth(P, n) \in P /\ Rank(P, Nth(P, n)) = n
  BY RanksAreNumbers DEF Nth
<1>3. ASSUME NEW i \in P
      PROVE  Rank(P, i) \in 1 .. Cardinality(P) /\ Nth(P, Rank(P, i)) = i
  <2>1. Rank(P, i) \in 1 .. Cardinality(P)
    BY RanksAreNumbers
  <2>2. Nth(P, Rank(P, i)) \in P /\ Rank(P, Nth(P, Rank(P, i))) = Rank(P, i)
    BY <1>2, <2>1
  <2>3. Nth(P, Rank(P, i)) = i
    BY <2>2, RankOrder
  <2>4. QED
    BY <2>1, <2>3
<1>4. ASSUME NEW n \in 1 .. Cardinality(P) PROVE Nth(P, n) >= n
  BY <1>2, RankBound
<1>5. ASSUME NEW k \in 1 .. Cardinality(P), NEW n \in 1 .. Cardinality(P), k < n
      PROVE  Nth(P, k) < Nth(P, n)
  <2>1. Nth(P, k) \in P /\ Rank(P, Nth(P, k)) = k /\ Nth(P, n) \in P /\ Rank(P, Nth(P, n)) = n
    BY <1>2
  <2>2. Rank(P, Nth(P, k)) < Rank(P, Nth(P, n))
    BY <1>5, <2>1
  <2>3. QED
    BY <2>1, <2>2, RankOrder
<1>6. QED
  BY <1>2, <1>3, <1>4, <1>5

\* What is kept of a sequence is a sequence of its elements, and has all those
\* whose position is kept.
LEMMA KeptIsSequence ==
    ASSUME NEW S, NEW s \in Seq(S), NEW P \in SUBSET DOMAIN s
    PROVE  /\ Kept(s, P) \in Seq(S)
           /\ Len(Kept(s, P)) = Cardinality(P)
           /\ Cardinality(P) \in Nat /\ Cardinality(P) <= Len(s)
           /\ \A n \in 1 .. Cardinality(P) : Nth(P, n) \in P /\ Kept(s, P)[n] = s[Nth(P, n)]
           /\ \A i \in P : /\ Rank(P, i) \in 1 .. Cardinality(P)
                           /\ Kept(s, P)[Rank(P, i)] = s[i]
<1>1. Len(s) \in Nat /\ DOMAIN s = 1 .. Len(s) /\ \A i \in DOMAIN s : s[i] \in S
  BY LenProperties, ElementOfSeq
<1>2. Cardinality(P) \in Nat /\ Cardinality(P) <= Len(s)
  BY <1>1, PositionsAreFinite
<1>3. /\ \A n \in 1 .. Cardinality(P) : Nth(P, n) \in P
      /\ \A i \in P : Rank(P, i) \in 1 .. Cardinality(P) /\ Nth(P, Rank(P, i)) = i
  BY <1>1, NthPosition
<1>4. \A n \in 1 .. Cardinality(P) : Kept(s, P)[n] = s[Nth(P, n)]
  BY DEF Kept
<1>5. Kept(s, P) \in [1 .. Cardinality(P) -> S]
  BY <1>1, <1>3 DEF Kept
<1>6. Kept(s, P) \in Seq(S)
  BY <1>2, <1>5, IsASeq DEF Kept
<1>7. Len(Kept(s, P)) = Cardinality(P)
  BY <1>2, <1>5, <1>6, LenProperties
<1>8. QED
  BY <1>2, <1>3, <1>4, <1>6, <1>7

\* If every position is kept, the sequence stays what it is.
LEMMA AllKept ==
    ASSUME NEW S, NEW s \in Seq(S)
    PROVE  Kept(s, DOMAIN s) = s
<1> DEFINE P == DOMAIN s
<1>1. Len(s) \in Nat /\ P = 1 .. Len(s)
  BY LenProperties
<1>2. Cardinality(P) = Len(s)
  BY <1>1, FS_Interval
<1>3. ASSUME NEW i \in P PROVE Rank(P, i) = i
  <2>1. {j \in P : j <= i} = 1 .. i
    BY <1>1
  <2>2. i \in Int /\ i >= 1
    BY <1>1
  <2>3. Cardinality(1 .. i) = i
    BY <2>2, FS_Interval
  <2>4. QED
    BY <2>1, <2>3 DEF Rank
<1>4. \A n \in 1 .. Len(s) : Nth(P, n) = n
  BY <1>1, <1>2, <1>3, NthPosition
<1>5. Kept(s, P) \in Seq(S) /\ Len(Kept(s, P)) = Len(s) /\ \A n \in 1 .. Len(s) : Kept(s, P)[n] = s[n]
  BY <1>1, <1>2, <1>4, KeptIsSequence
<1>6. QED
  BY <1>5, SeqEqual

\* A set of numbers has a least one.
LEMMA LeastNumber ==
    ASSUME NEW T \in SUBSET Nat, T # {}
    PROVE  \E x \in T : \A y \in T : x <= y
<1>1. \E x \in T : \A y \in T : ~(<<y, x>> \in OpToRel(<, Nat))
  BY NatLessThanWellFounded, WFMin
<1>2. ASSUME NEW x \in T, NEW y \in T, y < x PROVE <<y, x>> \in OpToRel(<, Nat)
  BY <1>2 DEF OpToRel
<1>3. PICK x \in T : \A y \in T : ~(y < x)
  BY <1>1, <1>2
<1>4. \A y \in T : x <= y
  BY <1>3
<1>5. QED
  BY <1>4

\* Induction: a set of numbers that has 0 and every successor has all.
LEMMA Induction ==
    ASSUME NEW T \in SUBSET Nat, 0 \in T, \A n \in T : n + 1 \in T
    PROVE  T = Nat
<1> SUFFICES ASSUME Nat \ T # {} PROVE FALSE
  OBVIOUS
<1>1. PICK x \in Nat \ T : \A y \in Nat \ T : x <= y
  BY LeastNumber
<1>2. x - 1 \in Nat /\ ~(x <= x - 1)
  OBVIOUS
<1>3. x - 1 \in T
  BY <1>1, <1>2
<1>4. QED
  BY <1>3

\* A strict order of a set, as a set of pairs.
OrdersStrictly(R, S) ==
    /\ \A x \in S : <<x, x>> \notin R
    /\ \A x, y, z \in S : <<x, y>> \in R /\ <<y, z>> \in R => <<x, z>> \in R
    /\ \A x, y \in S : x = y \/ <<x, y>> \in R \/ <<y, x>> \in R

\* More are ahead of what stands later.
LEMMA AheadGrows ==
    ASSUME NEW S, IsFiniteSet(S), NEW R, OrdersStrictly(R, S),
           NEW x \in S, NEW y \in S, <<x, y>> \in R
    PROVE  /\ Cardinality(Ahead(S, R, x)) \in Nat /\ Cardinality(Ahead(S, R, y)) \in Nat
           /\ Cardinality(Ahead(S, R, x)) < Cardinality(Ahead(S, R, y))
<1>1. Ahead(S, R, x) \in SUBSET Ahead(S, R, y)
  BY DEF Ahead, OrdersStrictly
<1>2. x \in Ahead(S, R, y) /\ x \notin Ahead(S, R, x) /\ Ahead(S, R, y) \in SUBSET S
  BY DEF Ahead, OrdersStrictly
<1>3. IsFiniteSet(Ahead(S, R, y))
  BY <1>2, FS_Subset
<1>4. /\ IsFiniteSet(Ahead(S, R, x)) /\ Cardinality(Ahead(S, R, x)) <= Cardinality(Ahead(S, R, y))
      /\ Cardinality(Ahead(S, R, x)) # Cardinality(Ahead(S, R, y))
  BY <1>1, <1>2, <1>3, FS_Subset
<1>5. Cardinality(Ahead(S, R, x)) \in Nat /\ Cardinality(Ahead(S, R, y)) \in Nat
  BY <1>3, <1>4, FS_CardinalityType
<1>6. QED
  BY <1>4, <1>5

\* Sorting gives a list of the elements, each once, that ascends in the order.
LEMMA SortedList ==
    ASSUME NEW S, IsFiniteSet(S), NEW R, OrdersStrictly(R, S)
    PROVE  /\ Cardinality(S) \in Nat /\ InOrder(S, R) \in Seq(S)
           /\ Len(InOrder(S, R)) = Cardinality(S)
           /\ DOMAIN InOrder(S, R) = 1 .. Cardinality(S)
           /\ InOrder(S, R) \in Bijection(1 .. Cardinality(S), S)
           /\ \A i, j \in 1 .. Cardinality(S) :
                i < j => <<InOrder(S, R)[i], InOrder(S, R)[j]>> \in R
<1> DEFINE C == Cardinality(S)
           before(x) == Cardinality(Ahead(S, R, x))
           rank == [x \in S |-> before(x) + 1]
           list == InOrder(S, R)
<1>1. C \in Nat
  BY FS_CardinalityType
<1>2. ASSUME NEW x \in S PROVE before(x) \in 0 .. (C - 1)
  <2>1. Ahead(S, R, x) \in SUBSET S /\ x \notin Ahead(S, R, x)
    BY DEF Ahead, OrdersStrictly
  <2>2. /\ IsFiniteSet(Ahead(S, R, x)) /\ before(x) <= C
        /\ C # before(x)
    BY <2>1, FS_Subset
  <2>3. before(x) \in Nat
    BY <2>2, FS_CardinalityType
  <2>4. QED
    BY <1>1, <2>2, <2>3
<1>3. ASSUME NEW x \in S, NEW y \in S, <<x, y>> \in R PROVE before(x) < before(y)
  BY <1>3, AheadGrows
<1> HIDE DEF before
<1>4. rank \in Injection(S, 1 .. C)
  <2>1. rank \in [S -> 1 .. C]
    BY <1>1, <1>2
  <2>2. ASSUME NEW x \in S, NEW y \in S, x # y PROVE rank[x] # rank[y]
    <3>1. <<x, y>> \in R \/ <<y, x>> \in R
      BY <2>2 DEF OrdersStrictly
    <3>2. before(x) \in Int /\ before(y) \in Int /\ (before(x) < before(y) \/ before(y) < before(x))
      BY <1>2, <1>3, <3>1
    <3>3. QED
      BY <3>2
  <2>3. QED
    BY <2>1, <2>2 DEF Injection, IsInjective
<1>5. IsFiniteSet(1 .. C) /\ Cardinality(1 .. C) = C
  BY <1>1, FS_Interval
<1> HIDE DEF C, rank
<1>6. rank \in Surjection(S, 1 .. C)
  BY <1>4, <1>5, FS_Injection DEF C
<1>7. ASSUME NEW k \in 1 .. C PROVE list[k] \in S /\ before(list[k]) = k - 1
  <2>1. PICK x \in S : rank[x] = k
    BY <1>6 DEF Surjection
  <2>2. before(x) = k - 1
    BY <1>2, <2>1 DEF rank
  <2>3. list[k] = CHOOSE y \in S : before(y) = k - 1
    BY DEF InOrder, C, before
  <2> HIDE DEF list
  <2>4. QED
    BY <2>2, <2>3
<1>8. list \in [1 .. C -> S]
  <2>1. list = [k \in 1 .. C |-> list[k]]
    BY DEF InOrder, C
  <2> HIDE DEF list
  <2>2. QED
    BY <1>7, <2>1
<1>9. ASSUME NEW x \in S PROVE rank[x] \in 1 .. C /\ list[rank[x]] = x
  <2>1. rank[x] \in 1 .. C /\ rank[x] - 1 = before(x)
    BY <1>1, <1>2 DEF rank
  <2>2. list[rank[x]] \in S /\ before(list[rank[x]]) = before(x)
    BY <1>7, <2>1
  <2>3. rank[list[rank[x]]] = rank[x]
    BY <2>2 DEF rank
  <2> HIDE DEF list
  <2>4. list[rank[x]] = x
    BY <1>4, <2>2, <2>3 DEF Injection, IsInjective
  <2>5. QED
    BY <2>1, <2>4
<1> HIDE DEF list
<1>10. list \in Surjection(1 .. C, S)
  BY <1>8, <1>9 DEF Surjection
<1>11. list \in Injection(1 .. C, S)
  <2>1. ASSUME NEW i \in 1 .. C, NEW j \in 1 .. C, list[i] = list[j] PROVE i = j
    <3>1. i - 1 = j - 1
      BY <1>7, <2>1
    <3>2. QED
      BY <3>1
  <2>2. QED
    BY <1>8, <2>1 DEF Injection, IsInjective
<1>12. ASSUME NEW i \in 1 .. C, NEW j \in 1 .. C, i < j PROVE <<list[i], list[j]>> \in R
  <2>1. list[i] \in S /\ list[j] \in S /\ before(list[i]) = i - 1 /\ before(list[j]) = j - 1
    BY <1>7
  <2>2. ~(before(list[j]) < before(list[i])) /\ list[i] # list[j]
    BY <1>12, <2>1
  <2>3. QED
    BY <1>3, <2>1, <2>2 DEF OrdersStrictly
<1>13. list \in Seq(S) /\ Len(list) = C /\ DOMAIN list = 1 .. C
  <2>1. list \in Seq(S)
    BY <1>1, <1>8, IsASeq
  <2>2. QED
    BY <1>1, <1>8, <2>1, LenProperties
<1>14. QED
  BY <1>1, <1>10, <1>11, <1>12, <1>13 DEF list, C, Bijection

\* Induction over the subsets of a finite set, one element at a time.
LEMMA SubsetInduction ==
    ASSUME NEW S, IsFiniteSet(S), NEW G \in SUBSET (SUBSET S), {} \in G,
           \A s \in SUBSET S : s # {} /\ (\A x \in s : s \ {x} \in G) => s \in G
    PROVE  G = SUBSET S
<1> DEFINE T == {n \in Nat : \A s \in SUBSET S : Cardinality(s) <= n => s \in G}
<1>1. \A s \in SUBSET S : IsFiniteSet(s) /\ Cardinality(s) \in Nat
  BY FS_Subset, FS_CardinalityType
<1>2. 0 \in T
  <2>1. \A s \in SUBSET S : Cardinality(s) <= 0 => s = {}
    BY <1>1, FS_EmptySet
  <2>2. QED
    BY <2>1
<1>3. ASSUME NEW n \in T PROVE n + 1 \in T
  <2>1. ASSUME NEW s \in SUBSET S, Cardinality(s) <= n + 1 PROVE s \in G
    <3>1. ASSUME NEW x \in s PROVE s \ {x} \in G
      <4>1. s \ {x} \in SUBSET S /\ Cardinality(s \ {x}) = Cardinality(s) - 1
        BY <1>1, FS_RemoveElement
      <4>2. Cardinality(s) \in Nat /\ n \in Nat
        BY <1>1
      <4>3. Cardinality(s \ {x}) <= n
        BY <2>1, <4>1, <4>2
      <4>4. QED
        BY <4>1, <4>3
    <3>2. QED
      BY <3>1
  <2>2. QED
    BY <2>1
<1>4. T = Nat
  <2> HIDE DEF T
  <2>1. T \in SUBSET Nat
    BY DEF T
  <2>2. QED
    BY <1>2, <1>3, <2>1, Induction
<1>5. QED
  BY <1>1, <1>4

\* The solutions of a recursion over the subsets of a set.
Solutions(S, V, zero, pick, combine) ==
    {h \in [SUBSET S -> V] : \A s \in SUBSET S :
       h[s] = IF s = {} THEN zero ELSE combine[<<s, h[s \ {pick[s]}]>>]}

\* A recursion that takes one element at a time from a finite set has one.
LEMMA RecursionSolves ==
    ASSUME NEW S, IsFiniteSet(S), NEW V, NEW zero \in V, NEW pick, NEW combine,
           \A s \in SUBSET S : s # {} => pick[s] \in s,
           \A s \in SUBSET S, v \in V : s # {} => combine[<<s, v>>] \in V
    PROVE  Solutions(S, V, zero, pick, combine) # {}
<1> DEFINE Upto(n) == {s \in SUBSET S : Cardinality(s) <= n}
           Solves(h, n) == \A s \in Upto(n) :
                             h[s] = IF s = {} THEN zero ELSE combine[<<s, h[s \ {pick[s]}]>>]
           T == {n \in Nat : \E h \in [Upto(n) -> V] : Solves(h, n)}
<1>1. \A s \in SUBSET S : IsFiniteSet(s) /\ Cardinality(s) \in Nat /\ Cardinality(s) <= Cardinality(S)
  BY FS_Subset, FS_CardinalityType
<1>2. \A s \in SUBSET S : s # {} => /\ s \ {pick[s]} \in SUBSET S
                                    /\ Cardinality(s \ {pick[s]}) = Cardinality(s) - 1
  BY <1>1, FS_RemoveElement
<1>3. \A s \in SUBSET S : Cardinality(s) <= 0 => s = {}
  BY <1>1, FS_EmptySet
<1>4. 0 \in T
  <2> DEFINE h == [s \in Upto(0) |-> zero]
  <2>1. h \in [Upto(0) -> V] /\ Solves(h, 0)
    BY <1>3
  <2>2. QED
    BY <2>1
<1>5. ASSUME NEW n \in T PROVE n + 1 \in T
  <2>1. PICK g \in [Upto(n) -> V] : Solves(g, n)
    OBVIOUS
  <2> DEFINE h == [s \in Upto(n + 1) |-> IF s = {} THEN zero ELSE combine[<<s, g[s \ {pick[s]}]>>]]
  <2>2. \A s \in Upto(n + 1) : s # {} => s \ {pick[s]} \in Upto(n)
    BY <1>1, <1>2
  <2>3. h \in [Upto(n + 1) -> V]
    BY <2>1, <2>2
  <2>4. \A s \in Upto(n) : s \in Upto(n + 1) /\ h[s] = g[s]
    <3>1. \A s \in Upto(n) : s \in Upto(n + 1)
      BY <1>1
    <3>2. QED
      BY <2>1, <3>1
  <2>5. Solves(h, n + 1)
    BY <2>2, <2>4
  <2>6. n + 1 \in Nat
    OBVIOUS
  <2> HIDE DEF h, Solves
  <2>7. \E k \in [Upto(n + 1) -> V] : Solves(k, n + 1)
    BY <2>3, <2>5
  <2>8. QED
    BY <2>6, <2>7
<1>6. T = Nat
  <2> HIDE DEF T
  <2>1. T \in SUBSET Nat
    BY DEF T
  <2>2. QED
    BY <1>4, <1>5, <2>1, Induction
<1>7. Cardinality(S) \in Nat /\ Upto(Cardinality(S)) = SUBSET S
  BY <1>1, FS_CardinalityType
<1>8. PICK h \in [Upto(Cardinality(S)) -> V] : Solves(h, Cardinality(S))
  <2>1. Cardinality(S) \in T
    BY <1>6, <1>7
  <2> HIDE DEF Solves, Upto
  <2>2. QED
    BY <2>1
<1>9. QED
  BY <1>7, <1>8 DEF Solutions

\* The list of the positions P in ascending order.
Ascents(n, D, P) ==
    {f \in [1 .. n -> D] : /\ \A i, j \in 1 .. n : i < j => f[i] < f[j]
                          /\ P = {f[i] : i \in 1 .. n}}

\* Positions are kept in that order.
LEMMA KeptPositions ==
    ASSUME NEW S, NEW s \in Seq(S), NEW n \in Nat, NEW P, NEW f \in Ascents(n, DOMAIN s, P)
    PROVE  /\ Kept(s, P) \in Seq(S) /\ Len(Kept(s, P)) = n
           /\ \A i \in 1 .. n : Kept(s, P)[i] = s[f[i]]
<1> /\ f \in [1 .. n -> DOMAIN s] /\ \A i, j \in 1 .. n : i < j => f[i] < f[j]
    /\ P = {f[i] : i \in 1 .. n}
  BY DEF Ascents
<1>1. Len(s) \in Nat /\ DOMAIN s = 1 .. Len(s)
  BY LenProperties
<1>2. P \in SUBSET (1 .. Len(s))
  BY <1>1
<1>3. \A i \in 1 .. n : f[i] \in Int /\ i \in Int
  BY <1>1
<1>4. \A i, j \in 1 .. n : (f[j] <= f[i] <=> j <= i) /\ (f[i] = f[j] => i = j)
  <2>1. ASSUME NEW i \in 1 .. n, NEW j \in 1 .. n
        PROVE  (f[j] <= f[i] <=> j <= i) /\ (f[i] = f[j] => i = j)
    <3>1. f[i] \in Int /\ f[j] \in Int /\ i \in Int /\ j \in Int
      BY <1>3
    <3>2. (i < j => f[i] < f[j]) /\ (j < i => f[j] < f[i])
      OBVIOUS
    <3>3. QED
      BY <3>1, <3>2
  <2>2. QED
    BY <2>1
<1>5. ASSUME NEW i \in 1 .. n PROVE Rank(P, f[i]) = i
  <2> DEFINE U == {x \in P : x <= f[i]}
             g == [k \in 1 .. i |-> f[k]]
  <2>1. \A k \in 1 .. i : k \in 1 .. n /\ k <= i
    OBVIOUS
  <2>2. g \in [1 .. i -> U]
    BY <1>4, <2>1
  <2>3. \A x \in U : \E k \in 1 .. i : g[k] = x
    <3>1. ASSUME NEW x \in U PROVE \E k \in 1 .. i : g[k] = x
      <4>1. PICK k \in 1 .. n : x = f[k]
        OBVIOUS
      <4>2. k \in 1 .. i
        BY <1>4, <4>1
      <4>3. QED
        BY <4>1, <4>2
    <3>2. QED
      BY <3>1
  <2>4. \A k, l \in 1 .. i : g[k] = g[l] => k = l
    BY <1>4, <2>1
  <2> HIDE DEF g, U
  <2>5. g \in Bijection(1 .. i, U)
    BY <2>2, <2>3, <2>4 DEF Bijection, Injection, IsInjective, Surjection
  <2>6. IsFiniteSet(1 .. i) /\ Cardinality(1 .. i) = i
    BY FS_Interval
  <2>7. Cardinality(U) = i
    BY <2>5, <2>6, FS_Bijection DEF ExistsBijection
  <2>8. QED
    BY <2>7 DEF Rank, U
<1>6. IsFiniteSet(P) /\ Cardinality(P) = n
  <2>1. f \in Bijection(1 .. n, P)
    BY <1>4 DEF Bijection, Injection, IsInjective, Surjection
  <2>2. IsFiniteSet(1 .. n) /\ Cardinality(1 .. n) = n
    BY FS_Interval
  <2>3. QED
    BY <2>1, <2>2, FS_Bijection DEF ExistsBijection
<1>7. \A i \in 1 .. n : Nth(P, i) = f[i]
  <2>1. ASSUME NEW i \in 1 .. n PROVE Nth(P, i) = f[i]
    <3>1. f[i] \in P
      OBVIOUS
    <3>2. Nth(P, Rank(P, f[i])) = f[i]
      BY <1>1, <1>2, <3>1, NthPosition
    <3>3. QED
      BY <1>5, <3>2
  <2>2. QED
    BY <2>1
<1>8. /\ Kept(s, P) \in Seq(S) /\ Len(Kept(s, P)) = n
      /\ \A i \in 1 .. n : Kept(s, P)[i] = s[Nth(P, i)]
  BY <1>1, <1>2, <1>6, KeptIsSequence
<1>9. QED
  BY <1>7, <1>8

\* The first values of a function that is iterated.
Iterations(V, zero, next, n) ==
    {h \in [0 .. n -> V] : h[0] = zero /\ \A k \in 1 .. n : h[k] = next[h[k - 1]]}

\* A function can be iterated.
LEMMA IterationSolves ==
    ASSUME NEW V, NEW zero \in V, NEW next \in [V -> V], NEW n \in Nat
    PROVE  Iterations(V, zero, next, n) # {}
<1> DEFINE Iterates(m, h) == h[0] = zero /\ \A k \in 1 .. m : h[k] = next[h[k - 1]]
           T == {m \in Nat : \E h \in [0 .. m -> V] : Iterates(m, h)}
<1>1. 0 \in T
  <2>1. [k \in 0 .. 0 |-> zero] \in [0 .. 0 -> V] /\ Iterates(0, [k \in 0 .. 0 |-> zero])
    OBVIOUS
  <2>2. QED
    BY <2>1
<1>2. ASSUME NEW m \in T PROVE m + 1 \in T
  <2>1. PICK g \in [0 .. m -> V] : Iterates(m, g)
    OBVIOUS
  <2> DEFINE h == [k \in 0 .. (m + 1) |-> IF k = m + 1 THEN next[g[m]] ELSE g[k]]
  <2>2. h \in [0 .. (m + 1) -> V]
    <3>1. \A k \in 0 .. (m + 1) : k = m + 1 \/ k \in 0 .. m
      OBVIOUS
    <3>2. m \in 0 .. m
      OBVIOUS
    <3>3. QED
      BY <2>1, <3>1, <3>2
  <2>3. Iterates(m + 1, h)
    <3>1. h[0] = zero
      BY <2>1
    <3>2. ASSUME NEW k \in 1 .. (m + 1) PROVE h[k] = next[h[k - 1]]
      <4>1. CASE k = m + 1
        <5>1. h[k] = next[g[m]] /\ h[k - 1] = g[m]
          BY <4>1
        <5>2. QED
          BY <5>1
      <4>2. CASE k \in 1 .. m
        <5>1. h[k] = g[k] /\ h[k - 1] = g[k - 1]
          BY <4>2
        <5>2. g[k] = next[g[k - 1]]
          BY <2>1, <4>2
        <5>3. QED
          BY <5>1, <5>2
      <4>3. QED
        BY <4>1, <4>2
    <3>3. QED
      BY <3>1, <3>2
  <2>4. m + 1 \in Nat
    OBVIOUS
  <2> HIDE DEF h, Iterates
  <2>5. \E k \in [0 .. (m + 1) -> V] : Iterates(m + 1, k)
    BY <2>2, <2>3
  <2>6. QED
    BY <2>4, <2>5
<1>3. T = Nat
  <2> HIDE DEF T
  <2>1. T \in SUBSET Nat
    BY DEF T
  <2>2. QED
    BY <1>1, <1>2, <2>1, Induction
<1>4. n \in T
  BY <1>3
<1>5. QED
  BY <1>4 DEF Iterations

(* Of the positions of a list, each with a score, one is the first of the best.*)
LEMMA FirstOfTheBest ==
    ASSUME NEW n \in Nat, NEW P \in SUBSET (1 .. n), P # {}, NEW score \in [P -> Int]
    PROVE  \E i \in P : \A j \in P : \/ score[i] > score[j]
                                     \/ score[i] = score[j] /\ i <= j
<1> DEFINE Upto(k) == {i \in P : i <= k}
           Best(S, i) == \A j \in S : score[i] > score[j] \/ (score[i] = score[j] /\ i <= j)
           T == {k \in Nat : Upto(k) # {} /\ ~ \E i \in Upto(k) : Best(Upto(k), i)}
<1>0. \A i \in P : i \in Nat /\ 1 <= i /\ i <= n
  OBVIOUS
<1>1. SUFFICES ASSUME n \in T PROVE FALSE
  <2>1. Upto(n) = P
    BY <1>0
  <2>2. QED
    BY <2>1
<1>2. PICK k \in T : \A l \in T : k <= l
  <2>1. T \in SUBSET Nat /\ T # {}
    BY <1>1
  <2> HIDE DEF T
  <2>2. QED
    BY <2>1, LeastNumber
<1>3. k \in Nat /\ k # 0
  <2>1. PICK i \in Upto(k) : TRUE
    BY <1>2
  <2>2. QED
    BY <1>0, <1>2, <2>1
<1>4. k - 1 \in Nat /\ k - 1 \notin T
  BY <1>2, <1>3
<1>5. Upto(k) = IF k \in P THEN Upto(k - 1) \cup {k} ELSE Upto(k - 1)
  <2>1. \A i \in P : i \in Nat /\ (i <= k <=> i <= k - 1 \/ i = k)
    BY <1>3
  <2>2. QED
    BY <2>1
<1>6. CASE k \notin P
  BY <1>2, <1>4, <1>5, <1>6
<1>7. CASE k \in P /\ Upto(k - 1) = {}
  <2>1. Upto(k) = {k}
    BY <1>5, <1>7
  <2>2. Best(Upto(k), k)
    BY <2>1, <1>3, <1>7
  <2>3. QED
    BY <2>1, <2>2, <1>2
<1>8. CASE k \in P /\ Upto(k - 1) # {}
  <2>1. PICK i \in Upto(k - 1) : Best(Upto(k - 1), i)
    BY <1>4, <1>8
  <2>2. i \in Upto(k) /\ k \in Upto(k) /\ i \in Nat /\ i < k
    BY <1>3, <1>5, <1>8, <2>1
  <2>3. CASE score[i] >= score[k]
    <3>1. Best(Upto(k), i)
      BY <1>5, <1>8, <2>1, <2>2, <2>3
    <3>2. QED
      BY <1>2, <2>2, <3>1
  <2>4. CASE score[i] < score[k]
    <3>1. ASSUME NEW j \in Upto(k - 1) PROVE score[k] > score[j]
      BY <1>8, <2>1, <2>4
    <3>2. Best(Upto(k), k)
      BY <1>3, <1>5, <1>8, <3>1
    <3>3. QED
      BY <1>2, <2>2, <3>2
  <2>5. QED
    BY <1>8, <2>2, <2>3, <2>4
<1>9. QED
  BY <1>6, <1>7, <1>8

\* Two lists that continue each other are a part of the log.
LEMMA StreamIsPart ==
    ASSUME NEW m \in Nat, NEW l \in Seq(0 .. m), NEW s \in Seq(1 .. m), NEW q \in Seq(1 .. m),
           NEW j \in Nat, NEW f \in Nat, f <= m, \A i \in 1 .. f : l[i] = i,
           j + Len(s) + Len(q) <= f, \A k \in 1 .. Len(s) : s[k] = j + k,
           \A k \in 1 .. Len(q) : q[k] = j + Len(s) + k
    PROVE  s \o q = SubSeq(l, j + 1, j + Len(s \o q))
<1>0. PICK a \in Nat, b \in Nat : a = Len(s) /\ b = Len(q)
  BY LenProperties
<1> DEFINE x == s \o q
           y == SubSeq(l, j + 1, j + (a + b))
<1>1. /\ x \in Seq(1 .. m) /\ Len(x) = a + b
      /\ \A i \in 1 .. a + b : x[i] = IF i <= a THEN s[i] ELSE q[i - a]
  BY <1>0, ConcatProperties
<1>2. /\ y \in Seq(1 .. m) /\ Len(y) = a + b /\ \A i \in 1 .. a + b : y[i] = l[j + i]
  <2>1. \A i \in j + 1 .. j + (a + b) : l[i] \in 1 .. m
    BY <1>0
  <2>2. /\ y \in Seq(1 .. m)
        /\ Len(y) = IF j + 1 <= j + (a + b) THEN j + (a + b) - (j + 1) + 1 ELSE 0
        /\ \A i \in 1 .. j + (a + b) - (j + 1) + 1 : y[i] = l[j + 1 + i - 1]
    BY <2>1, SubSeqProperties
  <2>3. j + (a + b) - (j + 1) + 1 = a + b /\ (~(j + 1 <= j + (a + b)) => a + b = 0)
    OBVIOUS
  <2> HIDE DEF y
  <2>4. ASSUME NEW i \in 1 .. a + b PROVE y[i] = l[j + i]
    <3>1. j + 1 + i - 1 = j + i
      OBVIOUS
    <3>2. y[i] = l[j + 1 + i - 1]
      BY <2>2, <2>3
    <3>3. QED
      BY <3>1, <3>2
  <2>5. QED
    BY <2>2, <2>3, <2>4
<1> HIDE DEF x, y
<1>3. ASSUME NEW i \in 1 .. a + b PROVE x[i] = y[i]
  <2>1. y[i] = j + i
    <3> DEFINE k == j + i
    <3>1. k \in 1 .. f
      BY <1>0
    <3>2. l[k] = k
      <4> HIDE DEF k
      <4>1. QED
        BY <3>1
    <3>3. QED
      BY <1>2, <3>2
  <2>2. CASE i <= a
    BY <1>0, <1>1, <2>1, <2>2
  <2>3. CASE ~(i <= a)
    <3>1. PICK k \in 1 .. b : k = i - a
      BY <2>3
    <3>2. q[k] = j + a + k
      BY <1>0
    <3>3. x[i] = q[k]
      BY <1>1, <2>3, <3>1
    <3>4. QED
      BY <2>1, <3>1, <3>2, <3>3
  <2>4. QED
    BY <2>2, <2>3
<1>4. x \in [1 .. a + b -> 1 .. m] /\ y \in [1 .. a + b -> 1 .. m]
  BY <1>1, <1>2, LenProperties
<1>5. x = y
  BY <1>3, <1>4
<1>6. QED
  BY <1>1, <1>5 DEF x, y

\* Products of numbers.
LEMMA Products ==
    ASSUME NEW k \in Nat, NEW m \in Nat, NEW n \in Nat, m <= n
    PROVE  /\ k * m \in Nat /\ k * n \in Nat /\ k * m <= k * n
           /\ 2 * k * n = 2 * (k * n) /\ k * (m + 1) = k * m + k
<1> DEFINE d == n - m
<1>1. d \in Nat /\ n = m + d
  OBVIOUS
<1>2. k * (m + d) = k * m + k * d /\ k * d \in Nat /\ k * m \in Nat
  BY <1>1
<1>3. k * (m + 1) = k * m + k /\ 2 * k * n = 2 * (k * n)
  OBVIOUS
<1> HIDE DEF d
<1>4. QED
  BY <1>1, <1>2, <1>3
===============================================================================
