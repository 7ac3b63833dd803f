------------------------------ MODULE RecordsProofs ------------------------------
(* The invariants of the components of Services that keep records of what they *)
(* did: the model router, the autonomous loop and the tournament.              *)
EXTENDS Services, SublistsProofs

-------------------------------------------------------------------------------
(* The model router.                                                           *)

\* A step of the whole is a step of this component, or leaves it alone.
LEMMA RouterMoves == [Next]_vars => [Router!Next]_(Router!routerVars)
BY DEF Next, Alone, vars, routerVars, Router!routerVars

\* Lists of models that name none twice.
Lists == {s \in Seq(Model) \ {<< >>} : Router!IsInjective(s)}
Registries == [Router!Capability -> Lists]

\* A set of positions has a last one.
LEMMA LastPosition ==
    ASSUME NEW n \in Nat, NEW T \in SUBSET (1 .. n), T # {}
    PROVE  Router!Max(T) \in T
<1> DEFINE U == {n - x : x \in T}
<1>1. U \in SUBSET Nat /\ U # {}
  <2>1. \A x \in T : n - x \in Nat
    OBVIOUS
  <2>2. QED
    BY <2>1
<1>2. PICK u \in U : \A v \in U : u <= v
  <2> HIDE DEF U
  <2>1. QED
    BY <1>1, LeastNumber
<1>3. PICK x \in T : u = n - x
  OBVIOUS
<1>4. ASSUME NEW y \in T PROVE x >= y
  <2>1. n - x <= n - y
    BY <1>2, <1>3
  <2>2. x \in Int /\ y \in Int
    OBVIOUS
  <2>3. QED
    BY <2>1, <2>2
<1>5. QED
  BY <1>4 DEF Router!Max

\* A model that joins the lists of some capabilities is nowhere twice.
LEMMA RegistersOnce ==
    ASSUME NEW t \in Registries, NEW model \in Model, NEW capabilities
    PROVE  Router!register_model_capability(t, model, capabilities) \in Registries
<1>1. ASSUME NEW s \in Lists, model \notin Router!ToSet(s) PROVE Append(s, model) \in Lists
  <2>1. s \in Seq(Model) /\ Len(s) \in Nat /\ DOMAIN s = 1 .. Len(s)
    BY LenProperties DEF Lists
  <2>2. /\ Append(s, model) \in Seq(Model) /\ Append(s, model) # << >>
        /\ DOMAIN Append(s, model) = 1 .. Len(s) + 1
        /\ \A i \in 1 .. Len(s) : Append(s, model)[i] = s[i]
        /\ Append(s, model)[Len(s) + 1] = model
    BY <2>1, AppendProperties, LenProperties, EmptySeq
  <2>3. \A i \in 1 .. Len(s) : s[i] # model
    BY <1>1, <2>1 DEF Router!ToSet
  <2>4. \A i, j \in 1 .. Len(s) : s[i] = s[j] => i = j
    BY <2>1 DEF Lists, Router!IsInjective
  <2>5. \A i \in 1 .. Len(s) + 1 : i \in 1 .. Len(s) \/ i = Len(s) + 1
    BY <2>1
  <2>6. Router!IsInjective(Append(s, model))
    BY <2>2, <2>3, <2>4, <2>5 DEF Router!IsInjective
  <2>7. QED
    BY <2>2, <2>6 DEF Lists
<1>2. QED
  BY <1>1 DEF Router!register_model_capability, Registries

LEMMA RegistersByName ==
    ASSUME NEW t \in Registries, NEW model \in Model
    PROVE  Router!register_model_by_heuristics(t, model) \in Registries
<1> DEFINE small == Router!register_model_capability(t, model,
                      IF model \in Small THEN {"quick", "analysis"} ELSE {})
           large == Router!register_model_capability(small, model,
                      IF model \in Large THEN Router!Capability \ {"quick"} ELSE {})
<1>1. small \in Registries
  BY RegistersOnce
<1> HIDE DEF small
<1>2. large \in Registries
  BY <1>1, RegistersOnce
<1>3. Router!register_model_by_heuristics(t, model)
        = Router!register_model_capability(large, model,
            IF \E c \in Router!Capability : model \in Router!ToSet(large[c])
              THEN {} ELSE Router!Capability)
  BY DEF Router!register_model_by_heuristics, small
<1> HIDE DEF large
<1>4. QED
  BY <1>2, <1>3, RegistersOnce

\* Whatever models are registered, every capability keeps a list of different
\* models.
LEMMA RegisteredLists == RouterAssumption => Router!Registered \in Registries
<1> SUFFICES ASSUME RouterAssumption PROVE Router!Registered \in Registries
  OBVIOUS
<1> DEFINE D == DOMAIN FALLBACK_MODELS
           pick == [s \in SUBSET D |-> Router!Max(s)]
           combine == [p \in (SUBSET D) \X Registries |->
                         Router!register_model_by_heuristics(
                           p[2], FALLBACK_MODELS[Router!Max(p[1])])]
           iter == CHOOSE h : h = [s \in SUBSET D |->
                     IF s = {} THEN Default
                     ELSE Router!register_model_by_heuristics(
                            h[s \ {Router!Max(s)}], FALLBACK_MODELS[Router!Max(s)])]
<1>1. /\ D = 1 .. Len(FALLBACK_MODELS) /\ Len(FALLBACK_MODELS) \in Nat
      /\ \A i \in D : FALLBACK_MODELS[i] \in Model
  BY LenProperties, ElementOfSeq DEF RouterAssumption
<1>2. Default \in Registries
  BY DEF RouterAssumption, Registries, Lists, Router!Capability
<1>3. \A s \in SUBSET D : s # {} => Router!Max(s) \in s
  BY <1>1, LastPosition
<1>4. IsFiniteSet(D)
  BY <1>1, FS_Interval
<1> HIDE DEF D
<1>5. PICK h \in [SUBSET D -> Registries] : \A s \in SUBSET D :
             h[s] = IF s = {} THEN Default ELSE combine[<<s, h[s \ {pick[s]}]>>]
  <2>1. \A s \in SUBSET D, v \in Registries : s # {} => combine[<<s, v>>] \in Registries
    BY <1>1, <1>3, RegistersByName DEF D
  <2>2. \A s \in SUBSET D : s # {} => pick[s] \in s
    BY <1>3
  <2> HIDE DEF combine, pick
  <2>3. Solutions(D, Registries, Default, pick, combine) # {}
    BY <1>2, <1>4, <2>1, <2>2, RecursionSolves
  <2>4. QED
    BY <2>3 DEF Solutions
<1>6. h = [s \in SUBSET D |->
             IF s = {} THEN Default
             ELSE Router!register_model_by_heuristics(
                    h[s \ {Router!Max(s)}], FALLBACK_MODELS[Router!Max(s)])]
  BY <1>5
<1>7. iter = [s \in SUBSET D |->
                IF s = {} THEN Default
                ELSE Router!register_model_by_heuristics(
                       iter[s \ {Router!Max(s)}], FALLBACK_MODELS[Router!Max(s)])]
  <2> HIDE DEF iter
  <2>1. QED
    BY <1>6 DEF iter
<1>8. Router!Registered = iter[D]
  BY DEF Router!Registered, Router!FoldLeft, Router!MapThenFoldSet, D
<1> HIDE DEF iter, combine, pick
<1>9. {s \in SUBSET D : iter[s] = h[s]} = SUBSET D
  <2> DEFINE G == {s \in SUBSET D : iter[s] = h[s]}
  <2>1. {} \in G
    BY <1>6, <1>7
  <2>2. ASSUME NEW s \in SUBSET D, s # {}, \A x \in s : s \ {x} \in G PROVE s \in G
    <3>1. iter[s \ {Router!Max(s)}] = h[s \ {Router!Max(s)}]
      BY <1>3, <2>2
    <3>2. QED
      BY <1>6, <1>7, <2>2, <3>1
  <2>3. G \in SUBSET (SUBSET D)
    OBVIOUS
  <2> HIDE DEF G
  <2>4. G = SUBSET D
    BY <1>4, <2>1, <2>2, <2>3, SubsetInduction
  <2>5. QED
    BY <2>4 DEF G
<1>10. iter[D] = h[D] /\ h[D] \in Registries
  BY <1>9
<1>11. QED
  BY <1>8, <1>10

LEMMA RouterSorts ==
    /\ \A S, R : Router!InOrder(S, R) = InOrder(S, R)
    /\ \A s, P : Router!Kept(s, P) = Kept(s, P)
BY DEF Router!InOrder, InOrder, Router!Ahead, Ahead, Router!Kept, Kept, Router!Nth, Nth,
       Router!Rank, Rank, Router!Cardinality, Cardinality, Router!IsFiniteSet, IsFiniteSet

\* Scores are whole.
LEMMA ScoresAreWhole ==
    ASSUME perf \in [Model -> Router!Performance], NEW m \in Model
    PROVE  Router!performance_score(m) \in Int
<1> DEFINE good == perf[m].success
           bad == perf[m].failure
           slow == perf[m].slow
<1>1. good \in Nat /\ bad \in Nat /\ slow \in Nat
  BY DEF Router!Performance
<1>2. Router!performance_score(m)
        = IF good + bad = 0 THEN 600
          ELSE (IF good + bad = 0 THEN 0 ELSE (12 * 70 * good) \div (good + bad))
                 + (IF good = 0 THEN 12 * 30 ELSE (12 * 30 * (good - slow)) \div good)
  BY DEF Router!performance_score, Router!total_requests, Router!RateScore, Router!SpeedScore
<1> HIDE DEF good, bad, slow
<1>3. QED
  BY <1>1, <1>2

\* Ranking keeps every model of a list, the best first.
LEMMA RouterRanks ==
    ASSUME perf \in [Model -> Router!Performance], NEW s \in Seq(Model)
    PROVE  LET r == Router!rank_models_by_performance(s)
           IN  /\ r \in Seq(Model) /\ Len(r) = Len(s)
               /\ \A k \in DOMAIN r : \E i \in DOMAIN s : r[k] = s[i]
               /\ Router!IsInjective(s) => Router!IsInjective(r)
<1> DEFINE P == DOMAIN s
           value == [i \in P |-> Router!performance_score(s[i])]
           better == {p \in P \X P :
                        \/ Router!performance_score(s[p[1]]) > Router!performance_score(s[p[2]])
                        \/ /\ Router!performance_score(s[p[1]]) = Router!performance_score(s[p[2]])
                           /\ p[1] < p[2]}
           order == InOrder(P, better)
           r == [k \in P |-> s[order[k]]]
           C == Cardinality(P)
<1>1. Router!rank_models_by_performance(s) = r
  BY RouterSorts DEF Router!rank_models_by_performance
<1>2. P = 1 .. Len(s) /\ Len(s) \in Nat /\ \A i \in P : s[i] \in Model
  BY LenProperties, ElementOfSeq
<1>3. \A i \in P : i \in Int /\ value[i] \in Int
  BY <1>2, ScoresAreWhole
<1>4. \A i, j \in P : <<i, j>> \in better <=> \/ value[i] > value[j]
                                              \/ value[i] = value[j] /\ i < j
  OBVIOUS
<1>5. IsFiniteSet(P) /\ C = Len(s)
  <2> DEFINE n == Len(s)
  <2>1. n \in Nat /\ P = 1 .. n
    BY <1>2
  <2> HIDE DEF n, P
  <2>2. IsFiniteSet(1 .. n) /\ Cardinality(1 .. n) = n
    BY <2>1, FS_Interval
  <2>3. QED
    BY <2>1, <2>2 DEF n
<1> HIDE DEF P, better, value
<1>6. OrdersStrictly(better, P)
  <2>1. \A i \in P : <<i, i>> \notin better
    BY <1>3, <1>4
  <2>2. ASSUME NEW i \in P, NEW j \in P, NEW k \in P, <<i, j>> \in better, <<j, k>> \in better
        PROVE  <<i, k>> \in better
    BY <1>3, <1>4, <2>2
  <2>3. ASSUME NEW i \in P, NEW j \in P PROVE i = j \/ <<i, j>> \in better \/ <<j, i>> \in better
    BY <1>3, <1>4
  <2>4. QED
    BY <2>1, <2>2, <2>3 DEF OrdersStrictly
<1>7. order \in Bijection(P, P)
  <2>1. order \in Bijection(1 .. C, P)
    BY <1>5, <1>6, SortedList
  <2>2. QED
    BY <1>2, <1>5, <2>1
<1> HIDE DEF order
<1>8. order \in [P -> P] /\ \A i, j \in P : order[i] = order[j] => i = j
  BY <1>7 DEF Bijection, Injection, IsInjective
<1>9. r \in [P -> Model] /\ \A k \in P : r[k] = s[order[k]]
  BY <1>2, <1>8
<1> HIDE DEF r
<1>10. r \in Seq(Model) /\ Len(r) = Len(s)
  <2>1. r \in Seq(Model)
    BY <1>2, <1>9, IsASeq
  <2>2. QED
    BY <1>2, <1>9, <2>1, LenProperties
<1>11. \A k \in DOMAIN r : \E i \in DOMAIN s : r[k] = s[i]
  BY <1>8, <1>9 DEF P
<1>12. Router!IsInjective(s) => Router!IsInjective(r)
  <2>1. DOMAIN r = P /\ DOMAIN s = P
    BY <1>9 DEF P
  <2>2. QED
    BY <1>8, <1>9, <2>1 DEF Router!IsInjective
<1>13. QED
  BY <1>1, <1>10, <1>11, <1>12

\* What is kept of a list of models.
LEMMA RouterKeeps ==
    ASSUME NEW s \in Seq(Model), NEW P \in SUBSET DOMAIN s
    PROVE  /\ Router!Kept(s, P) \in Seq(Model)
           /\ Router!IsInjective(s) => Router!IsInjective(Router!Kept(s, P))
           /\ \A n \in DOMAIN Router!Kept(s, P) : \E i \in P : Router!Kept(s, P)[n] = s[i]
           /\ P # {} => Router!Kept(s, P) # << >>
<1> DEFINE r == Kept(s, P)
           C == Cardinality(P)
<1>1. Router!Kept(s, P) = r
  BY RouterSorts
<1>2. P \in SUBSET (1 .. Len(s)) /\ Len(s) \in Nat /\ IsFiniteSet(P)
  <2>1. P \in SUBSET (1 .. Len(s)) /\ Len(s) \in Nat
    BY LenProperties
  <2>2. QED
    BY <2>1, PositionsAreFinite
<1>3. /\ r \in Seq(Model) /\ Len(r) = C /\ C \in Nat
      /\ \A n \in 1 .. C : Nth(P, n) \in P /\ r[n] = s[Nth(P, n)]
  BY KeptIsSequence
<1>4. \A k, n \in 1 .. C : k < n => Nth(P, k) < Nth(P, n)
  BY <1>2, NthPosition
<1> HIDE DEF r, C
<1>5. DOMAIN r = 1 .. C
  BY <1>3, LenProperties
<1>6. Router!IsInjective(s) => Router!IsInjective(r)
  <2>1. ASSUME Router!IsInjective(s), NEW k \in 1 .. C, NEW n \in 1 .. C, r[k] = r[n] PROVE k = n
    <3>1. Nth(P, k) = Nth(P, n)
      BY <1>3, <2>1 DEF Router!IsInjective
    <3>2. Nth(P, k) \in Int /\ Nth(P, n) \in Int /\ k \in Int /\ n \in Int
      BY <1>2, <1>3
    <3>3. QED
      BY <1>4, <3>1, <3>2
  <2>2. QED
    BY <1>5, <2>1 DEF Router!IsInjective
<1>7. P # {} => r # << >>
  <2>1. P # {} => C # 0
    BY <1>2, FS_EmptySet DEF C
  <2>2. QED
    BY <1>3, <2>1, EmptySeq
<1>8. QED
  BY <1>1, <1>3, <1>5, <1>6, <1>7

\* A task gets a model.
LEMMA RouterRoutes ==
    ASSUME RouterAssumption, perf \in [Model -> Router!Performance],
           NEW capability \in Router!Capability, NEW complexity \in Router!Complexity
    PROVE  Router!route(capability, complexity) \in Model
<1> DEFINE candidates == Router!Registered[capability]
           filtered == Router!filter_by_complexity(candidates, complexity)
           ranked == Router!rank_models_by_performance(filtered)
           P(S) == {i \in DOMAIN candidates : candidates[i] \in S}
<1>1. candidates \in Seq(Model) /\ candidates # << >>
  BY RegisteredLists DEF Registries, Lists
<1>2. Router!route(capability, complexity)
        = Router!apply_cost_tradeoff(ranked, capability, complexity)
  BY <1>1 DEF Router!route
<1>3. /\ DOMAIN candidates = 1 .. Len(candidates) /\ Len(candidates) \in Nat /\ Len(candidates) # 0
      /\ \A i \in DOMAIN candidates : candidates[i] \in Model
  BY <1>1, LenProperties, ElementOfSeq, EmptySeq
<1> HIDE DEF candidates
<1>4. filtered \in Seq(Model) /\ filtered # << >>
  <2>1. CASE complexity = "critical"
    <3>1. Router!Kept(candidates, P(HighCapability)) \in Seq(Model)
      BY <1>1, RouterKeeps
    <3>2. filtered = IF Router!Kept(candidates, P(HighCapability)) # << >>
                       THEN Router!Kept(candidates, P(HighCapability)) ELSE candidates
      BY <2>1 DEF Router!filter_by_complexity
    <3>3. QED
      BY <1>1, <3>1, <3>2
  <2>2. CASE complexity = "low"
    <3> DEFINE cheap == Router!Kept(candidates, P(Cheap))
               dear == Router!Kept(candidates, P(Model \ Cheap))
    <3>1. /\ cheap \in Seq(Model) /\ dear \in Seq(Model)
          /\ P(Cheap) # {} => cheap # << >>
          /\ P(Model \ Cheap) # {} => dear # << >>
      BY <1>1, RouterKeeps
    <3>2. filtered = cheap \o dear
      BY <2>2 DEF Router!filter_by_complexity
    <3>3. 1 \in DOMAIN candidates
      BY <1>3
    <3>4. 1 \in P(Cheap) \/ 1 \in P(Model \ Cheap)
      BY <1>3, <3>3
    <3>5. cheap # << >> \/ dear # << >>
      BY <3>1, <3>4
    <3> HIDE DEF cheap, dear
    <3>6. cheap \o dear \in Seq(Model) /\ Len(cheap \o dear) = Len(cheap) + Len(dear)
          /\ Len(cheap) \in Nat /\ Len(dear) \in Nat /\ (Len(cheap) # 0 \/ Len(dear) # 0)
      BY <3>1, <3>5, ConcatProperties, LenProperties, EmptySeq
    <3>7. Len(cheap \o dear) # 0
      BY <3>6
    <3>8. cheap \o dear # << >>
      BY <3>6, <3>7, EmptySeq
    <3>9. QED
      BY <3>2, <3>6, <3>8
  <2>3. CASE complexity = "medium"
    BY <1>1, <2>3 DEF Router!filter_by_complexity
  <2>4. QED
    BY <2>1, <2>2, <2>3 DEF Router!Complexity
<1> HIDE DEF filtered
<1>5. ranked \in Seq(Model) /\ Len(ranked) = Len(filtered)
  BY <1>4, RouterRanks
<1> HIDE DEF ranked
<1>6. /\ DOMAIN ranked = 1 .. Len(ranked) /\ Len(ranked) \in Nat /\ Len(ranked) # 0
      /\ \A i \in DOMAIN ranked : ranked[i] \in Model
  BY <1>4, <1>5, LenProperties, ElementOfSeq, EmptySeq
<1>7. ranked[1] \in Model
  BY <1>6
<1> DEFINE cheaper == {i \in 2 .. Len(ranked) :
                         /\ ranked[i] \in Free /\ ranked[1] \notin Free
                         /\ 10 * Router!quick_preference_score(ranked[i])
                              >= 9 * Router!quick_preference_score(ranked[1])}
           cheapest == CHOOSE i \in cheaper : \A j \in cheaper : i <= j
<1>8. Router!apply_cost_tradeoff(ranked, capability, complexity)
        \in {ranked[1]} \cup (IF cheaper # {} THEN {ranked[cheapest]} ELSE {})
  BY DEF Router!apply_cost_tradeoff
<1>9. cheaper \in SUBSET Nat /\ \A i \in cheaper : i \in DOMAIN ranked
  BY <1>6
<1> HIDE DEF cheaper
<1>10. cheaper # {} => ranked[cheapest] \in Model
  <2>1. cheaper # {} => cheapest \in cheaper
    BY <1>9, LeastNumber
  <2>2. QED
    BY <1>6, <1>9, <2>1
<1>11. QED
  BY <1>2, <1>7, <1>8, <1>10

\* A chain starts with the primary; if the candidates are different so are its
\* models.
LEMMA RouterChains ==
    ASSUME perf \in [Model -> Router!Performance], NEW primary \in Model,
           NEW candidates \in Seq(Model)
    PROVE  LET s == Router!get_fallback_chain(primary, candidates)
           IN  /\ s \in Seq(Model) \ {<< >>}
               /\ Router!IsInjective(candidates) => Router!IsInjective(s)
<1> DEFINE P == {i \in DOMAIN candidates : candidates[i] # primary}
           others == Router!Kept(candidates, P)
           ranked == Router!rank_models_by_performance(others)
           n == Len(ranked)
           s == << primary >> \o ranked
<1>1. Router!get_fallback_chain(primary, candidates) = s
  BY DEF Router!get_fallback_chain
<1>2. /\ others \in Seq(Model)
      /\ Router!IsInjective(candidates) => Router!IsInjective(others)
      /\ \A k \in DOMAIN others : \E i \in P : others[k] = candidates[i]
  <2>1. P \in SUBSET DOMAIN candidates
    OBVIOUS
  <2> HIDE DEF P
  <2>2. QED
    BY <2>1, RouterKeeps
<1>3. \A k \in DOMAIN others : others[k] # primary
  BY <1>2
<1> HIDE DEF others
<1>4. /\ ranked \in Seq(Model)
      /\ Router!IsInjective(others) => Router!IsInjective(ranked)
      /\ \A k \in DOMAIN ranked : \E i \in DOMAIN others : ranked[k] = others[i]
  BY <1>2, RouterRanks
<1>5. \A k \in DOMAIN ranked : ranked[k] # primary
  BY <1>3, <1>4
<1> HIDE DEF ranked
<1>6. DOMAIN ranked = 1 .. n /\ n \in Nat
  BY <1>4, LenProperties
<1>7. << primary >> \in Seq(Model) /\ Len(<< primary >>) = 1
  OBVIOUS
<1>8. /\ s \in Seq(Model) /\ Len(s) = 1 + n /\ s[1] = primary
      /\ \A k \in 2 .. (n + 1) : s[k] = ranked[k - 1]
  BY <1>4, <1>6, <1>7, ConcatProperties
<1> HIDE DEF s
<1>9. DOMAIN s = 1 .. (n + 1) /\ s # << >>
  BY <1>6, <1>8, LenProperties, EmptySeq
<1>10. ASSUME Router!IsInjective(ranked) PROVE Router!IsInjective(s)
  <2>1. ASSUME NEW i \in 1 .. (n + 1), NEW j \in 1 .. (n + 1), s[i] = s[j] PROVE i = j
    <3>1. CASE i = 1 /\ j = 1
      BY <3>1
    <3>2. CASE i # 1 /\ j = 1
      <4>1. s[i] = ranked[i - 1] /\ i - 1 \in DOMAIN ranked
        BY <1>6, <1>8, <3>2
      <4>2. QED
        BY <1>5, <1>8, <2>1, <3>2, <4>1
    <3>3. CASE i = 1 /\ j # 1
      <4>1. s[j] = ranked[j - 1] /\ j - 1 \in DOMAIN ranked
        BY <1>6, <1>8, <3>3
      <4>2. QED
        BY <1>5, <1>8, <2>1, <3>3, <4>1
    <3>4. CASE i # 1 /\ j # 1
      <4>1. /\ s[i] = ranked[i - 1] /\ i - 1 \in DOMAIN ranked
            /\ s[j] = ranked[j - 1] /\ j - 1 \in DOMAIN ranked
        BY <1>6, <1>8, <3>4
      <4>2. i - 1 = j - 1
        BY <1>10, <2>1, <4>1 DEF Router!IsInjective
      <4>3. QED
        BY <1>6, <4>2
    <3>5. QED
      BY <3>1, <3>2, <3>3, <3>4
  <2>2. QED
    BY <1>9, <2>1 DEF Router!IsInjective
<1>11. QED
  BY <1>1, <1>2, <1>4, <1>8, <1>9, <1>10

CallIsTold(c) ==
    /\ Len(tried[c]) <= Len(chain[c])
    /\ route[c] = "none" => Len(tried[c]) = 0
    /\ route[c] = "trying" => Len(tried[c]) < Len(chain[c])
    /\ route[c] = "raised" => Len(tried[c]) = Len(chain[c])
    /\ \A k \in DOMAIN tried[c] :
         tried[c][k] = <<chain[c][k], route[c] = "answered" /\ k = Len(tried[c])>>
    /\ Router!IsInjective(FALLBACK_MODELS) => Router!IsInjective(chain[c])

AttemptsCount ==
    \A m \in Model :
      /\ IsFiniteSet(Router!AttemptsMade(m, TRUE)) /\ IsFiniteSet(Router!AttemptsMade(m, FALSE))
      /\ Cardinality(Router!AttemptsMade(m, TRUE)) = perf[m].success
      /\ Cardinality(Router!AttemptsMade(m, FALSE)) = perf[m].failure

RouterInv == Router!TypeOK /\ (\A c \in Call : CallIsTold(c)) /\ AttemptsCount

\* Nothing was tried yet.
LEMMA RouterInit == Router!Init => RouterInv
<1> SUFFICES ASSUME Router!Init PROVE RouterInv
  OBVIOUS
<1>1. /\ perf = [m \in Model |-> [success |-> 0, failure |-> 0, slow |-> 0]]
      /\ chain = [c \in Call |-> << >>] /\ tried = [c \in Call |-> << >>]
      /\ route = [c \in Call |-> "none"]
  BY DEF Router!Init
<1>2. Len(<< >>) = 0 /\ DOMAIN << >> = {}
  OBVIOUS
<1>3. Router!TypeOK
  BY <1>1 DEF Router!TypeOK, Router!Performance
<1>4. \A c \in Call : CallIsTold(c)
  BY <1>1, <1>2 DEF CallIsTold, Router!IsInjective
<1>5. \A m \in Model, ok \in BOOLEAN : Router!AttemptsMade(m, ok) = {}
  BY <1>1, <1>2 DEF Router!AttemptsMade
<1>6. IsFiniteSet({}) /\ Cardinality({}) = 0
  BY FS_EmptySet
<1>7. AttemptsCount
  BY <1>1, <1>5, <1>6 DEF AttemptsCount
<1>8. QED
  BY <1>3, <1>4, <1>7 DEF RouterInv

\* A call starts, with the chain of a ranking.
LEMMA RouterStarts ==
    ASSUME RouterAssumption, RouterInv, NEW c \in Call, Router!execute_with_fallback(c)
    PROVE  RouterInv'
<1>1. PICK capability \in Router!Capability, complexity \in Router!Complexity, given \in BOOLEAN :
         chain' = [chain EXCEPT ![c] =
           Router!get_fallback_chain(Router!route(capability, complexity),
             IF given THEN Router!Registered[capability] ELSE FALLBACK_MODELS)]
  BY DEF Router!execute_with_fallback
<1> DEFINE candidates == IF given THEN Router!Registered[capability] ELSE FALLBACK_MODELS
           primary == Router!route(capability, complexity)
           s == Router!get_fallback_chain(primary, candidates)
<1>2. /\ chain' = [chain EXCEPT ![c] = s] /\ route[c] = "none"
      /\ route' = [route EXCEPT ![c] = "trying"] /\ UNCHANGED <<perf, tried>>
  BY <1>1 DEF Router!execute_with_fallback
<1>3. Router!TypeOK /\ perf \in [Model -> Router!Performance]
  BY DEF RouterInv, Router!TypeOK
<1>4. /\ candidates \in Seq(Model)
      /\ Router!IsInjective(FALLBACK_MODELS) => Router!IsInjective(candidates)
  BY RegisteredLists DEF RouterAssumption, Registries, Lists
<1>5. primary \in Model
  BY <1>3, RouterRoutes
<1> HIDE DEF candidates, primary
<1>6. /\ s \in Seq(Model) \ {<< >>}
      /\ Router!IsInjective(candidates) => Router!IsInjective(s)
  BY <1>3, <1>4, <1>5, RouterChains
<1> HIDE DEF s
<1>7. Len(s) \in Nat /\ Len(s) # 0
  BY <1>6, LenProperties, EmptySeq
<1>8. Router!TypeOK'
  BY <1>2, <1>3, <1>6 DEF Router!TypeOK
<1>9. ASSUME NEW d \in Call PROVE CallIsTold(d)'
  <2>1. CallIsTold(d)
    BY DEF RouterInv
  <2>2. CASE d = c
    <3>1. chain'[d] = s /\ route'[d] = "trying" /\ tried'[d] = tried[d] /\ tried[d] \in Seq(Model \X BOOLEAN)
      BY <1>2, <1>3, <2>2 DEF Router!TypeOK
    <3>2. Len(tried[d]) = 0 /\ DOMAIN tried[d] = {}
      BY <1>2, <2>1, <2>2, <3>1, LenProperties DEF CallIsTold
    <3>3. QED
      BY <1>4, <1>6, <1>7, <3>1, <3>2 DEF CallIsTold
  <2>3. CASE d # c
    <3>1. chain'[d] = chain[d] /\ route'[d] = route[d] /\ tried'[d] = tried[d]
      BY <1>2, <1>3, <2>3 DEF Router!TypeOK
    <3>2. QED
      BY <2>1, <3>1 DEF CallIsTold
  <2>4. QED
    BY <2>2, <2>3
<1>10. AttemptsCount'
  BY <1>2 DEF RouterInv, AttemptsCount, Router!AttemptsMade
<1>11. QED
  BY <1>8, <1>9, <1>10 DEF RouterInv

Attempt == Model \X BOOLEAN

AttemptsAt(t, sought) ==
    {a \in UNION {{c} \X DOMAIN t[c] : c \in Call} : t[a[1]][a[2]] = sought}

LEMMA AttemptsBy ==
    /\ AttemptsCount <=> \A m \in Model :
         /\ IsFiniteSet(AttemptsAt(tried, <<m, TRUE>>))
         /\ IsFiniteSet(AttemptsAt(tried, <<m, FALSE>>))
         /\ Cardinality(AttemptsAt(tried, <<m, TRUE>>)) = perf[m].success
         /\ Cardinality(AttemptsAt(tried, <<m, FALSE>>)) = perf[m].failure
    /\ AttemptsCount' <=> \A m \in Model :
         /\ IsFiniteSet(AttemptsAt(tried', <<m, TRUE>>))
         /\ IsFiniteSet(AttemptsAt(tried', <<m, FALSE>>))
         /\ Cardinality(AttemptsAt(tried', <<m, TRUE>>)) = perf'[m].success
         /\ Cardinality(AttemptsAt(tried', <<m, FALSE>>)) = perf'[m].failure
BY DEF AttemptsCount, Router!AttemptsMade, AttemptsAt

Longer(t, c, made) == [t EXCEPT ![c] = Append(@, made)]

\* An attempt is one more of its model and its outcome.
LEMMA AttemptsGrow ==
    ASSUME NEW t \in [Call -> Seq(Attempt)], NEW c \in Call, NEW made \in Attempt, NEW sought,
           IsFiniteSet(AttemptsAt(t, sought))
    PROVE  /\ IsFiniteSet(AttemptsAt(Longer(t, c, made), sought))
           /\ Cardinality(AttemptsAt(Longer(t, c, made), sought))
                = Cardinality(AttemptsAt(t, sought)) + (IF made = sought THEN 1 ELSE 0)
<1> DEFINE n == Len(t[c])
           old == AttemptsAt(t, sought)
           new == AttemptsAt(Longer(t, c, made), sought)
           u == Longer(t, c, made)
<1>2. n \in Nat /\ DOMAIN t[c] = 1 .. n
  BY LenProperties
<1>3. /\ \A d \in Call : d # c => u[d] = t[d]
      /\ u[c] = Append(t[c], made)
  BY DEF Longer
<1>4. /\ DOMAIN u[c] = 1 .. (n + 1) /\ u[c][n + 1] = made
      /\ \A k \in 1 .. n : u[c][k] = t[c][k]
  BY <1>2, <1>3, AppendProperties, LenProperties
<1> HIDE DEF n, u
<1>5. \A a : a \in old <=>
         \E d \in Call : \E k \in DOMAIN t[d] : a = <<d, k>> /\ t[d][k] = sought
  BY DEF AttemptsAt
<1>6. \A a : a \in new <=>
         \E d \in Call : \E k \in DOMAIN u[d] : a = <<d, k>> /\ u[d][k] = sought
  BY DEF AttemptsAt, u
<1>7. \A k : k \in 1 .. (n + 1) <=> k \in 1 .. n \/ k = n + 1
  BY <1>2
<1>8. IsFiniteSet(old)
  OBVIOUS
<1> HIDE DEF old, new
<1>9. ASSUME NEW a, a \in new PROVE a \in old \/ (a = <<c, n + 1>> /\ made = sought)
  <2>1. PICK d \in Call : \E k \in DOMAIN u[d] : a = <<d, k>> /\ u[d][k] = sought
    BY <1>6, <1>9
  <2>2. PICK k \in DOMAIN u[d] : a = <<d, k>> /\ u[d][k] = sought
    BY <2>1
  <2>3. CASE d = c /\ k = n + 1
    BY <1>4, <2>2, <2>3
  <2>4. CASE ~(d = c /\ k = n + 1)
    <3>1. k \in DOMAIN t[d] /\ t[d][k] = sought
      BY <1>2, <1>3, <1>4, <1>7, <2>2, <2>4
    <3>2. QED
      BY <1>5, <2>2, <3>1
  <2>5. QED
    BY <2>3, <2>4
<1>10. ASSUME NEW a, a \in old PROVE a \in new
  <2>1. PICK d \in Call : \E k \in DOMAIN t[d] : a = <<d, k>> /\ t[d][k] = sought
    BY <1>5, <1>10
  <2>2. PICK k \in DOMAIN t[d] : a = <<d, k>> /\ t[d][k] = sought
    BY <2>1
  <2>3. k \in DOMAIN u[d] /\ u[d][k] = sought
    BY <1>2, <1>3, <1>4, <1>7, <2>2
  <2>4. QED
    BY <1>6, <2>2, <2>3
<1>11. made = sought => <<c, n + 1>> \in new
  BY <1>2, <1>4, <1>6, <1>7
<1>12. <<c, n + 1>> \notin old
  <2>1. n + 1 \notin 1 .. n
    BY <1>2
  <2>2. QED
    BY <1>2, <1>5, <2>1
<1>13. Cardinality(old) \in Nat
  BY <1>8, FS_CardinalityType
<1>14. CASE made = sought
  <2>1. new = old \cup {<<c, n + 1>>}
    BY <1>9, <1>10, <1>11, <1>14
  <2>2. IsFiniteSet(new) /\ Cardinality(new) = Cardinality(old) + 1
    BY <1>8, <1>12, <2>1, FS_AddElement
  <2>3. QED
    BY <1>14, <2>2 DEF old, new
<1>15. CASE made # sought
  <2>1. new = old
    BY <1>9, <1>10, <1>15
  <2>2. IsFiniteSet(new) /\ Cardinality(new) = Cardinality(old) + 0
    BY <1>8, <1>13, <2>1
  <2>3. QED
    BY <1>15, <2>2 DEF old, new
<1>16. QED
  BY <1>14, <1>15

\* The statistics count it.
LEMMA AttemptIsTracked ==
    ASSUME Router!TypeOK, AttemptsCount, NEW c \in Call, NEW x \in Model,
           \/ /\ tried' = [tried EXCEPT ![c] = Append(@, <<x, TRUE>>)]
              /\ \E slow \in BOOLEAN : Router!track(x, TRUE, slow)
           \/ /\ tried' = [tried EXCEPT ![c] = Append(@, <<x, FALSE>>)]
              /\ Router!track(x, FALSE, FALSE)
    PROVE  perf' \in [Model -> Router!Performance] /\ AttemptsCount'
<1> DEFINE yes(m) == <<m, TRUE>>
           no(m) == <<m, FALSE>>
<1>1. perf \in [Model -> Router!Performance]
  BY DEF Router!TypeOK
<1>2. ASSUME NEW m \in Model
      PROVE  /\ IsFiniteSet(AttemptsAt(tried, yes(m))) /\ IsFiniteSet(AttemptsAt(tried, no(m)))
             /\ Cardinality(AttemptsAt(tried, yes(m))) = perf[m].success
             /\ Cardinality(AttemptsAt(tried, no(m))) = perf[m].failure
  BY AttemptsBy
<1>3. /\ yes(x) \in Attempt /\ no(x) \in Attempt
      /\ \A m \in Model : /\ yes(x) = yes(m) <=> m = x
                          /\ no(x) = no(m) <=> m = x
                          /\ yes(x) # no(m) /\ no(x) # yes(m)
  BY DEF Attempt
<1>7. \/ /\ tried' = Longer(tried, c, yes(x))
         /\ \E slow \in BOOLEAN : Router!track(x, TRUE, slow)
      \/ /\ tried' = Longer(tried, c, no(x))
         /\ Router!track(x, FALSE, FALSE)
  BY DEF Longer
<1>9. tried \in [Call -> Seq(Attempt)]
  BY DEF Router!TypeOK, Attempt
<1>8. AttemptsCount' <=> \A m \in Model :
         /\ IsFiniteSet(AttemptsAt(tried', yes(m)))
         /\ IsFiniteSet(AttemptsAt(tried', no(m)))
         /\ Cardinality(AttemptsAt(tried', yes(m))) = perf'[m].success
         /\ Cardinality(AttemptsAt(tried', no(m))) = perf'[m].failure
  BY AttemptsBy
<1> HIDE DEF yes, no
<1>4. CASE /\ tried' = Longer(tried, c, yes(x))
           /\ \E slow \in BOOLEAN : Router!track(x, TRUE, slow)
  <2>1. PICK late \in Nat : perf' = [perf EXCEPT ![x].success = @ + 1, ![x].failure = @,
                                                 ![x].slow = late]
    <3>1. PICK slow \in BOOLEAN : Router!track(x, TRUE, slow)
      BY <1>4
    <3>2. perf' = [perf EXCEPT ![x].success = @ + 1, ![x].failure = @,
                               ![x].slow = IF slow THEN @ + 1 ELSE @]
      BY <3>1 DEF Router!track
    <3>3. perf[x].slow \in Nat
      BY <1>1 DEF Router!Performance
    <3>4. CASE slow = TRUE
      <4>1. perf' = [perf EXCEPT ![x].success = @ + 1, ![x].failure = @,
                                 ![x].slow = perf[x].slow + 1]
        BY <3>2, <3>4
      <4>2. perf[x].slow + 1 \in Nat
        BY <3>3
      <4>3. QED
        BY <4>1, <4>2
    <3>5. CASE slow = FALSE
      <4>1. perf' = [perf EXCEPT ![x].success = @ + 1, ![x].failure = @,
                                 ![x].slow = perf[x].slow]
        BY <3>2, <3>5
      <4>2. QED
        BY <3>3, <4>1
    <3>6. QED
      BY <3>4, <3>5
  <2> DEFINE e == [success |-> perf[x].success + 1, failure |-> perf[x].failure, slow |-> late]
  <2>5. perf[x] \in [success : Nat, failure : Nat, slow : Nat]
    BY <1>1 DEF Router!Performance
  <2>6. perf' = [perf EXCEPT ![x] = e] /\ e \in [success : Nat, failure : Nat, slow : Nat]
    <3>1. /\ perf' \in [Model -> {perf'[m] : m \in Model}]
          /\ perf'[x] = e
          /\ \A m \in Model : m # x => perf'[m] = perf[m]
      BY <1>1, <2>1, <2>5
    <3>2. e \in [success : Nat, failure : Nat, slow : Nat]
      BY <2>5
    <3> HIDE DEF e
    <3>3. QED
      BY <1>1, <3>1, <3>2
  <2>2. /\ perf' \in [Model -> Router!Performance]
        /\ \A m \in Model : /\ perf'[m].success = perf[m].success + (IF m = x THEN 1 ELSE 0)
                            /\ perf'[m].failure = perf[m].failure + 0
    BY <1>1, <2>6 DEF Router!Performance
  <2>3. ASSUME NEW m \in Model
        PROVE  /\ IsFiniteSet(AttemptsAt(tried', yes(m))) /\ IsFiniteSet(AttemptsAt(tried', no(m)))
               /\ Cardinality(AttemptsAt(tried', yes(m))) = perf'[m].success
               /\ Cardinality(AttemptsAt(tried', no(m))) = perf'[m].failure
    <3>1. /\ IsFiniteSet(AttemptsAt(tried', yes(m)))
          /\ Cardinality(AttemptsAt(tried', yes(m))) = perf[m].success + (IF m = x THEN 1 ELSE 0)
      BY <1>2, <1>3, <1>4, <1>9, AttemptsGrow
    <3>2. /\ IsFiniteSet(AttemptsAt(tried', no(m)))
          /\ Cardinality(AttemptsAt(tried', no(m))) = perf[m].failure + 0
      BY <1>2, <1>3, <1>4, <1>9, AttemptsGrow
    <3>3. QED
      BY <2>2, <3>1, <3>2
  <2>4. QED
    BY <1>8, <2>2, <2>3
<1>5. CASE /\ tried' = Longer(tried, c, no(x))
           /\ Router!track(x, FALSE, FALSE)
  <2>1. perf' = [perf EXCEPT ![x].success = @, ![x].failure = @ + 1, ![x].slow = @]
    BY <1>5 DEF Router!track
  <2>2. /\ perf' \in [Model -> Router!Performance]
        /\ \A m \in Model : /\ perf'[m].success = perf[m].success + 0
                            /\ perf'[m].failure = perf[m].failure + (IF m = x THEN 1 ELSE 0)
    BY <1>1, <2>1 DEF Router!Performance
  <2>3. ASSUME NEW m \in Model
        PROVE  /\ IsFiniteSet(AttemptsAt(tried', yes(m))) /\ IsFiniteSet(AttemptsAt(tried', no(m)))
               /\ Cardinality(AttemptsAt(tried', yes(m))) = perf'[m].success
               /\ Cardinality(AttemptsAt(tried', no(m))) = perf'[m].failure
    <3>1. /\ IsFiniteSet(AttemptsAt(tried', no(m)))
          /\ Cardinality(AttemptsAt(tried', no(m))) = perf[m].failure + (IF m = x THEN 1 ELSE 0)
      BY <1>2, <1>3, <1>5, <1>9, AttemptsGrow
    <3>2. /\ IsFiniteSet(AttemptsAt(tried', yes(m)))
          /\ Cardinality(AttemptsAt(tried', yes(m))) = perf[m].success + 0
      BY <1>2, <1>3, <1>5, <1>9, AttemptsGrow
    <3>3. QED
      BY <2>2, <3>1, <3>2
  <2>4. QED
    BY <1>8, <2>2, <2>3
<1>6. QED
  BY <1>4, <1>5, <1>7

\* An attempt ends: what is told of the call stays true, whatever others do.
LEMMA RouterAttempts ==
    ASSUME RouterInv, NEW c \in Call, Router!Answered(c) \/ Router!Failed(c)
    PROVE  RouterInv'
<1> DEFINE n == Len(tried[c])
           x == chain[c][n + 1]
<1>1. Router!TypeOK /\ CallIsTold(c) /\ AttemptsCount
  BY DEF RouterInv
<1>2. /\ tried \in [Call -> Seq(Model \X BOOLEAN)] /\ chain \in [Call -> Seq(Model)]
      /\ route \in [Call -> {"none", "trying", "answered", "raised", "cancelled"}]
  BY <1>1 DEF Router!TypeOK
<1>3. route[c] = "trying" /\ chain' = chain
  BY DEF Router!Answered, Router!Failed
<1>4. /\ n \in Nat /\ DOMAIN tried[c] = 1 .. n /\ Len(chain[c]) \in Nat /\ n < Len(chain[c])
      /\ \A k \in 1 .. n : tried[c][k] = <<chain[c][k], FALSE>>
  <2>1. n \in Nat /\ DOMAIN tried[c] = 1 .. n /\ Len(chain[c]) \in Nat
    BY <1>2, LenProperties
  <2>2. n < Len(chain[c])
    BY <1>1, <1>3 DEF CallIsTold
  <2>3. ASSUME NEW k \in 1 .. n PROVE tried[c][k] = <<chain[c][k], FALSE>>
    BY <1>1, <1>3, <2>1 DEF CallIsTold
  <2>4. QED
    BY <2>1, <2>2, <2>3
<1>5. x \in Model
  <2>1. n + 1 \in 1 .. Len(chain[c])
    BY <1>4
  <2>2. QED
    BY <1>2, <2>1, ElementOfSeq
<1>6. perf' \in [Model -> Router!Performance] /\ AttemptsCount'
  <2>1. CASE Router!Answered(c)
    <3>1. /\ tried' = [tried EXCEPT ![c] = Append(@, <<x, TRUE>>)]
          /\ \E slow \in BOOLEAN : Router!track(x, TRUE, slow)
      BY <2>1 DEF Router!Answered, Router!Trying
    <3> HIDE DEF x
    <3>2. QED
      BY <1>1, <1>5, <3>1, AttemptIsTracked
  <2>2. CASE Router!Failed(c)
    <3>1. /\ tried' = [tried EXCEPT ![c] = Append(@, <<x, FALSE>>)] /\ Router!track(x, FALSE, FALSE)
      BY <2>2 DEF Router!Failed, Router!Trying
    <3> HIDE DEF x
    <3>2. QED
      BY <1>1, <1>5, <3>1, AttemptIsTracked
  <2>3. QED
    BY <2>1, <2>2
<1>7. /\ tried' \in [Call -> Seq(Model \X BOOLEAN)] /\ Len(tried'[c]) = n + 1
      /\ DOMAIN tried'[c] = 1 .. (n + 1)
      /\ \A k \in 1 .. n : tried'[c][k] = tried[c][k]
      /\ Router!Answered(c) => tried'[c][n + 1] = <<x, TRUE>>
      /\ Router!Failed(c) => tried'[c][n + 1] = <<x, FALSE>>
      /\ \A d \in Call : d # c => tried'[d] = tried[d]
  <2>1. PICK o \in Model \X BOOLEAN :
          /\ tried' = [tried EXCEPT ![c] = Append(@, o)]
          /\ Router!Answered(c) => o = <<x, TRUE>>
          /\ Router!Failed(c) => o = <<x, FALSE>>
    <3>1. CASE Router!Answered(c)
      <4>1. tried' = [tried EXCEPT ![c] = Append(@, <<x, TRUE>>)] /\ <<x, TRUE>> \in Model \X BOOLEAN
        BY <1>5, <3>1 DEF Router!Answered, Router!Trying
      <4>2. ~Router!Failed(c)
        <5>1. route'[c] = "answered"
          BY <1>2, <3>1 DEF Router!Answered
        <5>2. Router!Failed(c) => route'[c] # "answered"
          BY <1>2, <1>3 DEF Router!Failed
        <5>3. QED
          BY <5>1, <5>2
      <4>3. QED
        BY <4>1, <4>2
    <3>2. CASE ~Router!Answered(c)
      <4>1. tried' = [tried EXCEPT ![c] = Append(@, <<x, FALSE>>)] /\ <<x, FALSE>> \in Model \X BOOLEAN
        BY <1>5, <3>2 DEF Router!Failed, Router!Trying
      <4>2. QED
        BY <3>2, <4>1
    <3>3. QED
      BY <3>1, <3>2
  <2> HIDE DEF x
  <2>2. tried[c] \in Seq(Model \X BOOLEAN)
    BY <1>2
  <2>3. /\ Append(tried[c], o) \in Seq(Model \X BOOLEAN) /\ Len(Append(tried[c], o)) = n + 1
        /\ Append(tried[c], o)[n + 1] = o
        /\ \A k \in 1 .. n : Append(tried[c], o)[k] = tried[c][k]
    BY <2>2, AppendProperties
  <2>4. tried'[c] = Append(tried[c], o) /\ \A d \in Call : d # c => tried'[d] = tried[d]
    BY <1>2, <2>1
  <2>5. DOMAIN Append(tried[c], o) = 1 .. (n + 1)
    BY <2>3, LenProperties
  <2>6. tried' \in [Call -> Seq(Model \X BOOLEAN)]
    BY <1>2, <2>1, <2>3
  <2>7. QED
    BY <2>1, <2>3, <2>4, <2>5, <2>6
<1>8. /\ route' \in [Call -> {"none", "trying", "answered", "raised", "cancelled"}]
      /\ \A d \in Call : d # c => route'[d] = route[d]
      /\ Router!Answered(c) => route'[c] = "answered"
      /\ Router!Failed(c) => route'[c] = IF n + 1 = Len(chain[c]) THEN "raised" ELSE "trying"
  BY <1>2, <1>3, <1>7 DEF Router!Answered, Router!Failed
<1>9. Router!TypeOK'
  BY <1>2, <1>3, <1>6, <1>7, <1>8 DEF Router!TypeOK
<1>10. CallIsTold(c)'
  <2>1. Router!IsInjective(FALLBACK_MODELS) => Router!IsInjective(chain'[c])
    BY <1>1, <1>3 DEF CallIsTold
  <2>2. ASSUME NEW k \in DOMAIN tried'[c]
        PROVE  tried'[c][k] = <<chain'[c][k], route'[c] = "answered" /\ k = Len(tried'[c])>>
    <3>1. k \in 1 .. n \/ k = n + 1
      BY <1>4, <1>7
    <3>2. CASE k \in 1 .. n
      <4>1. tried'[c][k] = <<chain[c][k], FALSE>>
        BY <1>4, <1>7, <3>2
      <4>2. n + 1 \notin 1 .. n
        BY <1>4
      <4>3. k # Len(tried'[c])
        BY <1>7, <3>2, <4>2
      <4>4. QED
        BY <1>3, <4>1, <4>3
    <3>3. CASE k = n + 1 /\ Router!Answered(c)
      BY <1>3, <1>7, <1>8, <3>3
    <3>4. CASE k = n + 1 /\ Router!Failed(c)
      BY <1>3, <1>7, <1>8, <3>4
    <3>5. QED
      BY <3>1, <3>2, <3>3, <3>4
  <2>3. /\ Len(tried'[c]) <= Len(chain'[c]) /\ route'[c] # "none"
        /\ route'[c] = "trying" => Len(tried'[c]) < Len(chain'[c])
        /\ route'[c] = "raised" => Len(tried'[c]) = Len(chain'[c])
    BY <1>3, <1>4, <1>7, <1>8
  <2>4. QED
    BY <2>1, <2>2, <2>3 DEF CallIsTold
<1>11. ASSUME NEW d \in Call, d # c PROVE CallIsTold(d)'
  BY <1>3, <1>7, <1>8, <1>11 DEF RouterInv, CallIsTold
<1>12. QED
  BY <1>6, <1>9, <1>10, <1>11 DEF RouterInv

\* Every step of the calls keeps it.
LEMMA RouterStep ==
    RouterAssumption /\ RouterInv /\ [Router!Next]_(Router!routerVars) => RouterInv'
<1> SUFFICES ASSUME RouterAssumption, RouterInv, [Router!Next]_(Router!routerVars)
             PROVE  RouterInv'
  OBVIOUS
<1>1. CASE UNCHANGED Router!routerVars
  <2>1. UNCHANGED <<perf, chain, tried, route>>
    BY <1>1 DEF Router!routerVars
  <2>2. Router!TypeOK'
    BY <2>1 DEF RouterInv, Router!TypeOK
  <2>3. \A c \in Call : CallIsTold(c)'
    BY <2>1 DEF RouterInv, CallIsTold
  <2>4. AttemptsCount'
    BY <2>1 DEF RouterInv, AttemptsCount, Router!AttemptsMade
  <2>5. QED
    BY <2>2, <2>3, <2>4 DEF RouterInv
<1>2. ASSUME NEW c \in Call, Router!Cancelled(c) PROVE RouterInv'
  <2>1. /\ route' = [route EXCEPT ![c] = "cancelled"] /\ route[c] = "trying"
        /\ UNCHANGED <<perf, chain, tried>>
    BY <1>2 DEF Router!Cancelled
  <2>2. Router!TypeOK'
    BY <2>1 DEF RouterInv, Router!TypeOK
  <2>3. \A d \in Call : route'[d] = IF d = c THEN "cancelled" ELSE route[d]
    BY <2>1 DEF RouterInv, Router!TypeOK
  <2>4. ASSUME NEW d \in Call PROVE CallIsTold(d)'
    <3>1. CallIsTold(d)
      BY DEF RouterInv
    <3>2. /\ chain'[d] = chain[d] /\ tried'[d] = tried[d]
          /\ route'[d] = IF d = c THEN "cancelled" ELSE route[d]
      BY <2>1, <2>3
    <3>3. (route'[d] = "answered") = (route[d] = "answered")
      BY <2>1, <3>2
    <3>4. \A k \in DOMAIN tried[d] :
            tried[d][k] = <<chain[d][k], route'[d] = "answered" /\ k = Len(tried[d])>>
      BY <3>1, <3>3 DEF CallIsTold
    <3>5. QED
      BY <2>1, <3>1, <3>2, <3>4 DEF CallIsTold
  <2>5. AttemptsCount'
    BY <2>1 DEF RouterInv, AttemptsCount, Router!AttemptsMade
  <2>6. QED
    BY <2>2, <2>4, <2>5 DEF RouterInv
<1>3. CASE Router!Next
  BY <1>2, <1>3, RouterStarts, RouterAttempts DEF Router!Next
<1>4. QED
  BY <1>1, <1>3

LEMMA RouterTrue == RouterInv => Router!TypeOK /\ Router!FallbackIsExhaustive
<1> SUFFICES ASSUME RouterInv PROVE Router!TypeOK /\ Router!FallbackIsExhaustive
  OBVIOUS
<1>1. Router!TypeOK
  BY DEF RouterInv
<1>2. ASSUME NEW c \in Call
      PROVE  /\ Router!IsInjective(FALLBACK_MODELS) =>
                  Router!IsInjective([k \in DOMAIN tried[c] |-> tried[c][k][1]])
             /\ \A k \in DOMAIN tried[c] :
                  tried[c][k] = <<chain[c][k], route[c] = "answered" /\ k = Len(tried[c])>>
             /\ route[c] = "raised" => Len(tried[c]) = Len(chain[c])
  <2>1. CallIsTold(c) /\ tried[c] \in Seq(Model \X BOOLEAN) /\ chain[c] \in Seq(Model)
    BY <1>1 DEF RouterInv, Router!TypeOK
  <2>2. /\ DOMAIN tried[c] = 1 .. Len(tried[c]) /\ DOMAIN chain[c] = 1 .. Len(chain[c])
        /\ Len(tried[c]) \in Nat /\ Len(chain[c]) \in Nat /\ Len(tried[c]) <= Len(chain[c])
    BY <2>1, LenProperties DEF CallIsTold
  <2>3. \A k \in DOMAIN tried[c] : tried[c][k][1] = chain[c][k] /\ k \in DOMAIN chain[c]
    BY <2>1, <2>2 DEF CallIsTold
  <2>4. Router!IsInjective(FALLBACK_MODELS) =>
          Router!IsInjective([k \in DOMAIN tried[c] |-> tried[c][k][1]])
    BY <2>1, <2>3 DEF CallIsTold, Router!IsInjective
  <2>5. QED
    BY <2>1, <2>4 DEF CallIsTold
<1>3. \A S : Router!Cardinality(S) = Cardinality(S)
  BY DEF Router!Cardinality, Cardinality, Router!IsFiniteSet, IsFiniteSet
<1>4. \A m \in Model : /\ Router!Cardinality(Router!AttemptsMade(m, TRUE)) = perf[m].success
                       /\ Router!Cardinality(Router!AttemptsMade(m, FALSE)) = perf[m].failure
  BY <1>3 DEF RouterInv, AttemptsCount
<1>5. Router!FallbackIsExhaustive
  BY <1>2, <1>4 DEF Router!FallbackIsExhaustive
<1>6. QED
  BY <1>1, <1>5

-------------------------------------------------------------------------------
(* The autonomous loop.                                                        *)

\* A step of the whole is a step of this component, or leaves it alone.
LEMMA LoopMoves == [Next]_vars => [Loop!Next]_(Loop!loopVars)
BY DEF Next, Alone, vars, loopVars, Loop!loopVars

LEMMA LoopKeeps ==
    /\ \A s, P : Loop!Kept(s, P) = Kept(s, P)
    /\ \A S : Loop!Cardinality(S) = Cardinality(S)
BY DEF Loop!Kept, Kept, Loop!Nth, Nth, Loop!Rank, Rank, Loop!Cardinality, Cardinality,
       Loop!IsFiniteSet, IsFiniteSet

\* Names of the planner's algorithm.
FirstOf(steps, id) ==
    CHOOSE i \in DOMAIN steps : steps[i].id = id /\ \A j \in 1 .. (i - 1) : steps[j].id # id
ReadyOf(steps, order) ==
    {id \in Loop!Ids(steps) :
       /\ id \notin Loop!Range(order)
       /\ \A i \in DOMAIN steps : steps[i].id = id =>
            \A d \in Loop!Range(steps[i].deps) : d \in Loop!Range(order)}
NextOf(steps, order) ==
    IF ReadyOf(steps, order) = {} THEN order
    ELSE Append(order, CHOOSE id \in ReadyOf(steps, order) :
           \A other \in ReadyOf(steps, order) : FirstOf(steps, id) <= FirstOf(steps, other))
Orders(steps) ==
    {h \in [0 .. Len(steps) -> Seq(Loop!Ids(steps))] :
       h[0] = << >> /\ \A n \in 1 .. Len(steps) : h[n] = NextOf(steps, h[n - 1])}

LEMMA TheOrder ==
    ASSUME NEW steps, Len(steps) \in Nat, NEW h \in Orders(steps)
    PROVE  Loop!topological_order(steps) = h[Len(steps)]
<1> DEFINE Solves(g) == g = [n \in 0 .. Len(steps) |-> IF n = 0 THEN << >>
                                                      ELSE NextOf(steps, g[n - 1])]
           after == CHOOSE g : Solves(g)
           n == Len(steps)
<1>1. Loop!topological_order(steps) = after[n]
  BY DEF Loop!topological_order, NextOf, ReadyOf, FirstOf
<1>2. Solves(h)
  <2>1. h = [k \in 0 .. n |-> h[k]]
    BY DEF Orders
  <2>2. ASSUME NEW k \in 0 .. n
        PROVE  h[k] = IF k = 0 THEN << >> ELSE NextOf(steps, h[k - 1])
    <3>1. k = 0 \/ k \in 1 .. n
      OBVIOUS
    <3>2. QED
      BY <3>1 DEF Orders
  <2>3. QED
    BY <2>1, <2>2
<1>3. Solves(after)
  <2> HIDE DEF Solves
  <2>1. QED
    BY <1>2
<1> HIDE DEF after
<1> DEFINE T == {k \in Nat : k <= n => after[k] = h[k]}
<1>4. 0 \in T
  BY <1>2, <1>3
<1>5. ASSUME NEW k \in T PROVE k + 1 \in T
  <2>1. ASSUME k + 1 <= n PROVE after[k + 1] = h[k + 1]
    <3>1. k + 1 \in 0 .. n /\ k + 1 # 0 /\ (k + 1) - 1 = k /\ after[k] = h[k]
      BY <2>1
    <3>2. QED
      BY <1>2, <1>3, <3>1
  <2>2. QED
    BY <2>1
<1>6. T = Nat
  <2> HIDE DEF T
  <2>1. T \in SUBSET Nat
    BY DEF T
  <2>2. QED
    BY <1>4, <1>5, <2>1, Induction
<1>7. after[n] = h[n]
  BY <1>6
<1>8. QED
  BY <1>1, <1>7

\* A chain: every step depends on the one before.
Chained(steps) ==
    /\ Len(steps) \in Nat \ {0} /\ DOMAIN steps = 1 .. Len(steps)
    /\ \A i, j \in DOMAIN steps : steps[i].id = steps[j].id => i = j
    /\ \A i \in DOMAIN steps : steps[i].deps = IF i = 1 THEN << >> ELSE << steps[i - 1].id >>

\* Two of its steps share an id.
Doubled(steps) ==
    /\ Len(steps) \in Nat \ {0} /\ DOMAIN steps = 1 .. Len(steps)
    /\ \E i, j \in DOMAIN steps : i # j /\ steps[i].id = steps[j].id

\* The steps of a chain become ready one after the other.
LEMMA ChainIsReady ==
    ASSUME NEW steps, Chained(steps), NEW n \in 0 .. (Len(steps) - 1),
           NEW order, order = [i \in 1 .. n |-> steps[i].id]
    PROVE  NextOf(steps, order) = [i \in 1 .. (n + 1) |-> steps[i].id]
<1> DEFINE l == Len(steps)
<1>1. /\ l \in Nat \ {0} /\ DOMAIN steps = 1 .. l /\ n + 1 \in 1 .. l /\ n \in Nat
      /\ \A i \in 1 .. n : i \in 1 .. l /\ i \in Nat
  BY DEF Chained
<1>2. order \in Seq(Loop!Ids(steps)) /\ Len(order) = n
  <2>1. order \in [1 .. n -> Loop!Ids(steps)]
    BY <1>1 DEF Loop!Ids
  <2>2. order \in Seq(Loop!Ids(steps))
    BY <1>1, <2>1, IsASeq
  <2>3. QED
    BY <1>1, <2>1, <2>2, LenProperties
<1>3. \A k \in 1 .. l : steps[k].id \in Loop!Range(order) <=> k <= n
  <2>1. ASSUME NEW k \in 1 .. l PROVE steps[k].id \in Loop!Range(order) <=> k <= n
    <3>1. steps[k].id \in Loop!Range(order) <=> \E i \in 1 .. n : steps[i].id = steps[k].id
      BY <1>2 DEF Loop!Range
    <3>2. \A i \in 1 .. n : steps[i].id = steps[k].id => i = k
      BY <1>1 DEF Chained
    <3>3. k \in 1 .. n <=> k <= n
      BY <1>1
    <3>4. QED
      BY <3>1, <3>2, <3>3
  <2>2. QED
    BY <2>1
<1>4. ReadyOf(steps, order) = {steps[n + 1].id}
  <2>1. ASSUME NEW k \in 1 .. l
        PROVE  steps[k].id \in ReadyOf(steps, order) <=> k = n + 1
    <3>1. \A i \in DOMAIN steps : steps[i].id = steps[k].id => i = k
      BY <1>1 DEF Chained
    <3>2. steps[k].id \in ReadyOf(steps, order) <=>
            /\ ~(k <= n)
            /\ \A d \in Loop!Range(steps[k].deps) : d \in Loop!Range(order)
      BY <1>1, <1>3, <3>1 DEF ReadyOf, Loop!Ids
    <3>3. CASE k = 1
      <4>1. steps[k].deps = << >>
        BY <1>1, <3>3 DEF Chained
      <4>2. Loop!Range(steps[k].deps) = {}
        BY <4>1 DEF Loop!Range
      <4>3. QED
        BY <1>1, <3>2, <3>3, <4>2
    <3>4. CASE k # 1
      <4>1. steps[k].deps = << steps[k - 1].id >> /\ k - 1 \in 1 .. l
        <5>1. k - 1 \in 1 .. l /\ k \in DOMAIN steps
          BY <1>1, <3>4
        <5>2. steps[k].deps = IF k = 1 THEN << >> ELSE << steps[k - 1].id >>
          BY <5>1 DEF Chained
        <5>3. QED
          BY <3>4, <5>1, <5>2
      <4>2. Loop!Range(steps[k].deps) = {steps[k - 1].id}
        BY <4>1 DEF Loop!Range
      <4>3. steps[k].id \in ReadyOf(steps, order) <=> ~(k <= n) /\ k - 1 <= n
        BY <1>3, <3>2, <4>1, <4>2
      <4>4. QED
        BY <1>1, <4>3
    <3>5. QED
      BY <3>3, <3>4
  <2>2. ReadyOf(steps, order) \subseteq Loop!Ids(steps)
    BY DEF ReadyOf
  <2>3. \A id \in Loop!Ids(steps) : \E k \in 1 .. l : id = steps[k].id
    BY <1>1 DEF Loop!Ids
  <2>4. QED
    BY <1>1, <2>1, <2>2, <2>3
<1>5. FirstOf(steps, steps[n + 1].id) = n + 1
  <2> DEFINE id == steps[n + 1].id
             Is(i) == steps[i].id = id /\ \A j \in 1 .. (i - 1) : steps[j].id # id
  <2>1. \A i \in DOMAIN steps : steps[i].id = id => i = n + 1
    BY <1>1 DEF Chained
  <2>2. \A j \in 1 .. n : steps[j].id # id
    BY <1>1, <2>1
  <2>3. n + 1 \in DOMAIN steps /\ Is(n + 1)
    BY <1>1, <2>2
  <2>4. \A i \in DOMAIN steps : Is(i) => i = n + 1
    BY <2>1
  <2>5. FirstOf(steps, id) = CHOOSE i \in DOMAIN steps : Is(i)
    BY DEF FirstOf
  <2> HIDE DEF Is, id
  <2>6. FirstOf(steps, id) = n + 1
    BY <2>3, <2>4, <2>5
  <2>7. QED
    BY <2>6 DEF id
<1>6. NextOf(steps, order) = Append(order, steps[n + 1].id)
  <2> DEFINE id == steps[n + 1].id
  <2> HIDE DEF id
  <2>1. ReadyOf(steps, order) = {id} /\ FirstOf(steps, id) <= FirstOf(steps, id)
    BY <1>1, <1>4, <1>5 DEF id
  <2>2. NextOf(steps, order) = Append(order, id)
    BY <2>1 DEF NextOf
  <2>3. QED
    BY <2>2 DEF id
<1>7. Append(order, steps[n + 1].id) = [i \in 1 .. (n + 1) |-> steps[i].id]
  <2> DEFINE id == steps[n + 1].id
             f == [i \in 1 .. (n + 1) |-> steps[i].id]
             S == Loop!Ids(steps)
  <2>1. id \in S
    BY <1>1 DEF Loop!Ids
  <2>2. f \in [1 .. (n + 1) -> S]
    <3>1. \A i \in 1 .. (n + 1) : i \in 1 .. l
      BY <1>1
    <3>2. QED
      BY <1>1, <3>1 DEF Loop!Ids
  <2>3. f[n + 1] = id /\ \A i \in 1 .. n : f[i] = order[i]
    BY <1>1
  <2>4. n + 1 \in Nat /\ order \in Seq(S) /\ Len(order) = n
    BY <1>1, <1>2
  <2> HIDE DEF f, id, S
  <2>5. /\ Append(order, id) \in Seq(S) /\ Len(Append(order, id)) = n + 1
        /\ \A i \in 1 .. n : Append(order, id)[i] = order[i]
        /\ Append(order, id)[n + 1] = id
    BY <2>1, <2>4, AppendProperties
  <2>6. f \in Seq(S) /\ Len(f) = n + 1
    <3>1. f \in Seq(S)
      BY <2>2, <2>4, IsASeq
    <3>2. QED
      BY <2>2, <2>4, <3>1, LenProperties
  <2>7. \A i \in 1 .. (n + 1) : i \in 1 .. n \/ i = n + 1
    BY <1>1
  <2>8. Append(order, id) = f
    BY <2>3, <2>5, <2>6, <2>7, SeqEqual
  <2>9. QED
    BY <2>8 DEF f, id
<1>8. QED
  BY <1>6, <1>7

\* A chain has an order.
LEMMA ChainIsOrdered ==
    ASSUME NEW steps, Chained(steps)
    PROVE  Loop!Ordered(steps)
<1> DEFINE l == Len(steps)
           h == [n \in 0 .. l |-> [i \in 1 .. n |-> steps[i].id]]
<1>1. l \in Nat /\ DOMAIN steps = 1 .. l
  BY DEF Chained
<1>2. ASSUME NEW n \in 0 .. l PROVE h[n] \in Seq(Loop!Ids(steps)) /\ Len(h[n]) = n
  <2>1. \A i \in 1 .. n : i \in 1 .. l
    BY <1>1
  <2>2. h[n] \in [1 .. n -> Loop!Ids(steps)]
    BY <1>1, <2>1 DEF Loop!Ids
  <2>3. h[n] \in Seq(Loop!Ids(steps))
    BY <1>1, <2>2, IsASeq
  <2> HIDE DEF h
  <2>4. QED
    BY <1>1, <2>2, <2>3, LenProperties
<1>3. h[0] = << >>
  BY <1>1
<1>4. ASSUME NEW n \in 1 .. l PROVE h[n] = NextOf(steps, h[n - 1])
  <2>1. n - 1 \in 0 .. (Len(steps) - 1) /\ n - 1 \in 0 .. l /\ (n - 1) + 1 = n
    BY <1>1
  <2>2. h[n - 1] = [i \in 1 .. (n - 1) |-> steps[i].id] /\ h[n] = [i \in 1 .. n |-> steps[i].id]
    BY <2>1
  <2> HIDE DEF h
  <2> DEFINE k == n - 1
  <2>3. k \in 0 .. (Len(steps) - 1) /\ k + 1 = n
    BY <2>1
  <2>4. h[k] = [i \in 1 .. k |-> steps[i].id]
    BY <2>2
  <2> HIDE DEF k
  <2>5. NextOf(steps, h[k]) = [i \in 1 .. (k + 1) |-> steps[i].id]
    BY <2>3, <2>4, ChainIsReady
  <2>6. QED
    BY <2>2, <2>3, <2>5 DEF k
<1>5. h \in [0 .. l -> Seq(Loop!Ids(steps))]
  BY <1>2
<1> HIDE DEF h
<1>6. h \in Orders(steps)
  BY <1>3, <1>4, <1>5 DEF Orders
<1>7. Loop!topological_order(steps) = h[l]
  BY <1>1, <1>6, TheOrder
<1>8. QED
  BY <1>1, <1>2, <1>7 DEF Loop!Ordered

\* Lists of ids that name none twice.
Once(steps) == {order \in Seq(Loop!Ids(steps)) :
                  \A i, j \in 1 .. Len(order) : order[i] = order[j] => i = j}

\* Every id has a first step.
LEMMA FirstIsNumber ==
    ASSUME NEW steps, Len(steps) \in Nat, DOMAIN steps = 1 .. Len(steps),
           NEW id \in Loop!Ids(steps)
    PROVE  FirstOf(steps, id) \in Nat
<1> DEFINE T == {i \in DOMAIN steps : steps[i].id = id}
           Is(i) == steps[i].id = id /\ \A j \in 1 .. (i - 1) : steps[j].id # id
<1>1. T \in SUBSET Nat /\ T # {}
  BY DEF Loop!Ids
<1>2. PICK i \in T : \A j \in T : i <= j
  <2> HIDE DEF T
  <2>1. QED
    BY <1>1, LeastNumber
<1>3. i \in DOMAIN steps /\ Is(i)
  <2>1. ASSUME NEW j \in 1 .. (i - 1) PROVE steps[j].id # id
    <3>1. j \in DOMAIN steps /\ ~(i <= j)
      BY <1>1
    <3>2. QED
      BY <1>2, <3>1
  <2>2. QED
    BY <2>1
<1>4. FirstOf(steps, id) = CHOOSE k \in DOMAIN steps : Is(k)
  BY DEF FirstOf
<1> HIDE DEF Is
<1>5. FirstOf(steps, id) \in DOMAIN steps
  BY <1>3, <1>4
<1>6. QED
  BY <1>5

\* A step of the algorithm adds an id that the list does not have, or none.
LEMMA NextIsOnce ==
    ASSUME NEW steps, Len(steps) \in Nat, DOMAIN steps = 1 .. Len(steps),
           NEW order \in Once(steps)
    PROVE  NextOf(steps, order) \in Once(steps)
<1> DEFINE R == ReadyOf(steps, order)
           F == {FirstOf(steps, id) : id \in R}
           Least(id) == \A other \in R : FirstOf(steps, id) <= FirstOf(steps, other)
           new == CHOOSE id \in R : Least(id)
           S == Loop!Ids(steps)
<1>1. R \in SUBSET S
  BY DEF ReadyOf
<1>2. NextOf(steps, order) = IF R = {} THEN order ELSE Append(order, new)
  BY DEF NextOf
<1>3. ASSUME R # {} PROVE new \in R
  <2>1. F \in SUBSET Nat /\ F # {}
    BY <1>1, <1>3, FirstIsNumber
  <2>2. PICK x \in F : \A y \in F : x <= y
    <3> HIDE DEF F
    <3>1. QED
      BY <2>1, LeastNumber
  <2>3. PICK id \in R : x = FirstOf(steps, id)
    OBVIOUS
  <2>4. Least(id)
    BY <2>2, <2>3
  <2> HIDE DEF Least
  <2>5. QED
    BY <2>4
<1>4. /\ order \in Seq(S) /\ Len(order) \in Nat
      /\ \A i, j \in 1 .. Len(order) : order[i] = order[j] => i = j
  BY LenProperties DEF Once
<1>5. ASSUME NEW id \in R PROVE Append(order, id) \in Once(steps)
  <2> DEFINE n == Len(order)
             longer == Append(order, id)
  <2>1. id \in S /\ \A i \in 1 .. n : order[i] # id
    BY <1>1 DEF ReadyOf, Loop!Range
  <2>2. /\ longer \in Seq(S) /\ Len(longer) = n + 1
        /\ \A i \in 1 .. n : longer[i] = order[i]
        /\ longer[n + 1] = id
    BY <1>4, <2>1, AppendProperties
  <2>3. n \in Nat /\ \A i \in 1 .. (n + 1) : i \in 1 .. n \/ i = n + 1
    BY <1>4
  <2> HIDE DEF longer
  <2>4. \A i, j \in 1 .. Len(longer) : longer[i] = longer[j] => i = j
    BY <1>4, <2>1, <2>2, <2>3
  <2>5. longer \in Once(steps)
    BY <2>2, <2>4 DEF Once
  <2>6. QED
    BY <2>5 DEF longer
<1>6. QED
  BY <1>2, <1>3, <1>5

\* A plan two of whose steps share an id has no order.
LEMMA DoubledIsNotOrdered ==
    ASSUME NEW steps, Doubled(steps)
    PROVE  ~Loop!Ordered(steps)
<1> DEFINE l == Len(steps)
           S == Loop!Ids(steps)
           O == Once(steps)
           next == [order \in O |-> NextOf(steps, order)]
<1>1. l \in Nat \ {0} /\ DOMAIN steps = 1 .. l
  BY DEF Doubled
<1>2. << >> \in O
  BY EmptySeq DEF Once
<1>3. next \in [O -> O]
  BY <1>1, NextIsOnce
<1>4. PICK h \in [0 .. l -> O] : h[0] = << >> /\ \A k \in 1 .. l : h[k] = next[h[k - 1]]
  <2> DEFINE nil == << >>
  <2>1. l \in Nat /\ nil \in O
    BY <1>1, <1>2
  <2> HIDE DEF O, next, l, nil
  <2>2. Iterations(O, nil, next, l) # {}
    BY <1>3, <2>1, IterationSolves
  <2>3. QED
    BY <2>2 DEF Iterations, nil
<1>5. h \in Orders(steps)
  <2>1. h \in [0 .. l -> Seq(S)]
    BY <1>4 DEF Once
  <2>2. ASSUME NEW k \in 1 .. l PROVE h[k] = NextOf(steps, h[k - 1])
    <3>1. k - 1 \in 0 .. l
      BY <1>1
    <3>2. QED
      BY <1>4, <3>1
  <2>3. QED
    BY <1>4, <2>1, <2>2 DEF Orders
<1>6. Loop!topological_order(steps) = h[l] /\ h[l] \in O
  <2>1. l \in 0 .. l
    BY <1>1
  <2>2. h[l] \in O
    BY <1>4, <2>1
  <2>3. QED
    BY <1>1, <1>5, <2>2, TheOrder
<1>7. IsFiniteSet(S) /\ Cardinality(S) \in Nat /\ Cardinality(S) < l
  <2>1. PICK i \in 1 .. l, j \in 1 .. l : i # j /\ steps[i].id = steps[j].id
    BY <1>1 DEF Doubled
  <2> DEFINE D == (1 .. l) \ {j}
             f == [k \in D |-> steps[k].id]
  <2>2. IsFiniteSet(D) /\ Cardinality(D) = l - 1
    <3>1. IsFiniteSet(1 .. l) /\ Cardinality(1 .. l) = l
      BY <1>1, FS_Interval
    <3>2. QED
      BY <3>1, FS_RemoveElement
  <2>3. f \in Surjection(D, S)
    <3>1. f \in [D -> S]
      BY <1>1 DEF Loop!Ids
    <3>2. ASSUME NEW id \in S PROVE \E k \in D : f[k] = id
      <4>1. PICK k \in 1 .. l : steps[k].id = id
        BY <1>1 DEF Loop!Ids
      <4>2. k = j => f[i] = id /\ i \in D
        BY <2>1, <4>1
      <4>3. QED
        BY <4>1, <4>2
    <3>3. QED
      BY <3>1, <3>2 DEF Surjection
  <2> HIDE DEF f, D, S
  <2>4. IsFiniteSet(S) /\ Cardinality(S) <= Cardinality(D)
    BY <2>2, <2>3, FS_Surjection
  <2>5. QED
    BY <1>1, <2>2, <2>4, FS_CardinalityType
<1>8. Len(h[l]) <= Cardinality(S)
  <2> DEFINE order == h[l]
             n == Len(order)
  <2>1. order \in Seq(S) /\ n \in Nat /\ \A i, j \in 1 .. n : order[i] = order[j] => i = j
    BY <1>6, LenProperties DEF Once
  <2>2. order \in Injection(1 .. n, S)
    <3>1. order \in [1 .. n -> S]
      BY <2>1, LenProperties
    <3> HIDE DEF order, n
    <3>2. QED
      BY <2>1, <3>1 DEF Injection, IsInjective
  <2> HIDE DEF order, n, S
  <2>3. IsFiniteSet(1 .. n) /\ Cardinality(1 .. n) = n
    <3>1. n \in Nat
      BY <2>1
    <3>2. QED
      BY <3>1, FS_Interval
  <2>4. n <= Cardinality(S)
    BY <1>7, <2>2, <2>3, FS_Injection
  <2>5. QED
    BY <2>4 DEF order, n
<1>9. Len(h[l]) \in Nat
  BY <1>6, LenProperties DEF Once
<1>10. Len(h[l]) # l
  <2> HIDE DEF l, S
  <2>1. QED
    BY <1>1, <1>7, <1>8, <1>9
<1>11. QED
  BY <1>6, <1>10 DEF Loop!Ordered

\* The steps of a plan.
Id == {"step", "reflect", "fix", "verify"} \X Nat
Steps == [id : Id, deps : Seq(Id), gap : Criterion \cup {Loop!NoGap}]

\* A plan that was never revised, and one that was.
Drawn(steps) == \A i \in DOMAIN steps : steps[i].id[1] \in {"step", "reflect"}
Verified(steps) == \E i \in DOMAIN steps : steps[i].id = <<"verify", 0>>

\* A plan is a chain.
LEMMA PlanIsChain ==
    ASSUME NEW n \in Nat \ {0}
    PROVE  /\ Loop!plan(n) \in Seq(Steps) /\ Chained(Loop!plan(n)) /\ Drawn(Loop!plan(n))
<1> DEFINE deps(i) == IF i = 1 THEN << >> ELSE << <<"step", i - 2>> >>
           chained == [i \in 1 .. n |-> Loop!Step(<<"step", i - 1>>, deps(i), Loop!NoGap)]
           extra == Loop!Step(<<"reflect", 0>>, << chained[Len(chained)].id >>, Loop!NoGap)
           longer == Append(chained, extra)
<1>1. Loop!plan(n) = IF n >= 3 THEN longer ELSE chained
  BY DEF Loop!plan
<1>2. ASSUME NEW i \in 1 .. n
      PROVE  /\ chained[i] \in Steps
             /\ chained[i].id = <<"step", i - 1>> /\ chained[i].id[1] = "step"
             /\ chained[i].deps = IF i = 1 THEN << >> ELSE << chained[i - 1].id >>
  <2>1. chained[i] = [id |-> <<"step", i - 1>>, deps |-> deps(i), gap |-> Loop!NoGap]
    BY DEF Loop!Step
  <2>2. <<"step", i - 1>> \in Id
    BY DEF Id
  <2>3. deps(i) \in Seq(Id)
    <3>1. CASE i = 1
      BY <3>1
    <3>2. CASE i # 1
      <4>1. <<"step", i - 2>> \in Id
        BY <3>2 DEF Id
      <4>2. << <<"step", i - 2>> >> \in Seq(Id)
        BY <4>1
      <4>3. QED
        BY <3>2, <4>2
    <3>3. QED
      BY <3>1, <3>2
  <2>4. i # 1 => chained[i - 1].id = <<"step", i - 2>>
    <3>1. ASSUME i # 1 PROVE chained[i - 1].id = <<"step", i - 2>>
      <4>1. i - 1 \in 1 .. n /\ (i - 1) - 1 = i - 2
        BY <3>1
      <4>2. chained[i - 1] = Loop!Step(<<"step", (i - 1) - 1>>, deps(i - 1), Loop!NoGap)
        BY <4>1
      <4>3. QED
        BY <4>1, <4>2 DEF Loop!Step
    <3>2. QED
      BY <3>1
  <2> HIDE DEF chained
  <2>5. chained[i] \in Steps
    BY <2>1, <2>2, <2>3 DEF Steps
  <2>6. chained[i].id = <<"step", i - 1>> /\ chained[i].id[1] = "step"
    BY <2>1
  <2>7. QED
    BY <2>1, <2>4, <2>5, <2>6
<1>3. DOMAIN chained = 1 .. n
  OBVIOUS
<1> HIDE DEF chained
<1>4. chained \in Seq(Steps) /\ Len(chained) = n
  <2>1. chained = [i \in 1 .. n |-> chained[i]]
    BY <1>3 DEF chained
  <2>2. chained \in [1 .. n -> Steps]
    BY <1>2, <2>1
  <2>3. n \in Nat /\ chained \in Seq(Steps)
    BY <2>2, IsASeq
  <2>4. QED
    BY <1>3, <2>3, LenProperties
<1>5. Chained(chained) /\ Drawn(chained)
  <2>1. ASSUME NEW i \in 1 .. n, NEW j \in 1 .. n, chained[i].id = chained[j].id PROVE i = j
    <3>1. <<"step", i - 1>> = <<"step", j - 1>>
      BY <1>2, <2>1
    <3>2. i - 1 = j - 1
      BY <3>1
    <3>3. QED
      BY <3>2
  <2>2. Chained(chained)
    BY <1>2, <1>3, <1>4, <2>1 DEF Chained
  <2>3. QED
    BY <1>2, <1>3, <2>2 DEF Drawn
<1>6. ASSUME n >= 3 PROVE longer \in Seq(Steps) /\ Chained(longer) /\ Drawn(longer)
  <2>1. chained[Len(chained)] = chained[n] /\ n \in 1 .. n
    BY <1>4
  <2>2. extra \in Steps /\ extra.id = <<"reflect", 0>> /\ extra.deps = << chained[n].id >>
    <3>1. <<"reflect", 0>> \in Id
      BY DEF Id
    <3>2. chained[n].id \in Id
      BY <1>2, <2>1 DEF Steps
    <3>3. << chained[n].id >> \in Seq(Id)
      BY <3>2
    <3>4. extra = [id |-> <<"reflect", 0>>, deps |-> << chained[n].id >>, gap |-> Loop!NoGap]
      BY <2>1 DEF Loop!Step
    <3> HIDE DEF extra
    <3>5. extra \in Steps
      BY <3>1, <3>3, <3>4 DEF Steps
    <3>6. QED
      BY <3>4, <3>5
  <2> HIDE DEF extra
  <2>3. /\ longer \in Seq(Steps) /\ Len(longer) = n + 1
        /\ \A i \in 1 .. n : longer[i] = chained[i]
        /\ longer[n + 1] = extra
    BY <1>4, <2>2, AppendProperties
  <2> HIDE DEF longer
  <2>4. DOMAIN longer = 1 .. (n + 1) /\ \A i \in 1 .. (n + 1) : i \in 1 .. n \/ i = n + 1
    BY <2>3, LenProperties
  <2>5. \A i \in 1 .. n : longer[i].id # longer[n + 1].id
    <3>1. ASSUME NEW i \in 1 .. n PROVE longer[i].id # longer[n + 1].id
      <4>1. longer[i].id = <<"step", i - 1>> /\ longer[n + 1].id = <<"reflect", 0>>
        BY <1>2, <2>2, <2>3
      <4>2. <<"step", i - 1>> # <<"reflect", 0>>
        OBVIOUS
      <4>3. QED
        BY <4>1, <4>2
    <3>2. QED
      BY <3>1
  <2>6. \A i, j \in 1 .. n : longer[i].id = longer[j].id => i = j
    BY <1>3, <1>5, <2>3 DEF Chained
  <2>7. \A i, j \in 1 .. (n + 1) : longer[i].id = longer[j].id => i = j
    BY <2>4, <2>5, <2>6
  <2>8. ASSUME NEW i \in 1 .. (n + 1)
        PROVE  /\ longer[i].deps = IF i = 1 THEN << >> ELSE << longer[i - 1].id >>
               /\ longer[i].id[1] \in {"step", "reflect"}
    <3>1. CASE i = n + 1
      <4>1. longer[i - 1] = chained[n] /\ i # 1 /\ longer[i] = extra
        BY <2>3, <3>1
      <4>2. extra.id[1] = "reflect"
        BY <2>2
      <4>3. QED
        BY <2>2, <4>1, <4>2
    <3>2. CASE i \in 1 .. n
      <4>1. longer[i] = chained[i] /\ (i # 1 => longer[i - 1] = chained[i - 1])
        BY <2>3, <3>2
      <4>2. QED
        BY <1>2, <3>2, <4>1
    <3>3. QED
      BY <2>4, <3>1, <3>2
  <2>9. Chained(longer)
    BY <2>3, <2>4, <2>7, <2>8 DEF Chained
  <2>10. QED
    BY <2>3, <2>4, <2>8, <2>9 DEF Drawn
<1>7. QED
  BY <1>1, <1>4, <1>5, <1>6

\* A revision: after the l steps of a plan a fix per gap, n of them, then a step
\* that verifies.
Revised(steps, gaps, l, n, new) ==
    /\ l \in Nat \ {0} /\ n \in Nat \ {0}
    /\ new \in Seq(Steps) /\ Len(new) = l + n + 1
    /\ \A i \in 1 .. l : new[i] = steps[i]
    /\ \A i \in 1 .. n : /\ new[l + i].id = <<"fix", l + i - 1>>
                         /\ new[l + i].gap = gaps[i]
    /\ new[l + n + 1].id = <<"verify", 0>>
    /\ \A i \in 1 .. (n + 1) : new[l + i].deps = << new[l + i - 1].id >>

LEMMA Revision ==
    ASSUME NEW steps \in Seq(Steps), steps # << >>, NEW gaps \in Seq(Criterion), gaps # << >>,
           NEW l, l = Len(steps), NEW n, n = Len(gaps), NEW new, new = Loop!replan(steps, gaps)
    PROVE  Revised(steps, gaps, l, n, new)
<1> DEFINE Fixed(i) == IF i = 0 THEN steps[Len(steps)].id ELSE <<"fix", Len(steps) + i - 1>>
           fixes == [i \in DOMAIN gaps |-> Loop!Step(Fixed(i), << Fixed(i - 1) >>, gaps[i])]
           check == Loop!Step(<<"verify", 0>>, << Fixed(Len(gaps)) >>, Loop!NoGap)
           rest == Append(fixes, check)
<1>1. new = steps \o rest
  BY DEF Loop!replan
<1>2. /\ l \in Nat \ {0} /\ n \in Nat \ {0} /\ DOMAIN gaps = 1 .. n
      /\ \A i \in 1 .. n : gaps[i] \in Criterion
      /\ \A i \in 1 .. l : steps[i] \in Steps
  BY LenProperties, ElementOfSeq, EmptySeq
<1>3. /\ Fixed(0) = steps[l].id
      /\ \A i \in 1 .. n : Fixed(i) = <<"fix", l + i - 1>>
      /\ \A i \in 0 .. n : Fixed(i) \in Id
  <2>1. Fixed(0) = steps[l].id /\ steps[l].id \in Id
    <3>1. steps[Len(steps)] = steps[l] /\ l \in 1 .. l
      BY <1>2
    <3>2. QED
      BY <1>2, <3>1 DEF Steps
  <2>2. ASSUME NEW i \in 1 .. n PROVE Fixed(i) = <<"fix", l + i - 1>> /\ Fixed(i) \in Id
    <3>1. Fixed(i) = <<"fix", l + i - 1>> /\ l + i - 1 \in Nat
      BY <1>2
    <3>2. <<"fix", l + i - 1>> \in Id
      BY <3>1 DEF Id
    <3>3. QED
      BY <3>1, <3>2
  <2> HIDE DEF Fixed
  <2>3. \A i \in 0 .. n : i = 0 \/ i \in 1 .. n
    BY <1>2
  <2>4. QED
    BY <2>1, <2>2, <2>3
<1> HIDE DEF Fixed
<1>4. ASSUME NEW i \in 0 .. n PROVE << Fixed(i) >> \in Seq(Id)
  BY <1>3
<1>5. ASSUME NEW i \in 1 .. n
      PROVE  /\ fixes[i] \in Steps /\ fixes[i].id = Fixed(i)
             /\ fixes[i].deps = << Fixed(i - 1) >> /\ fixes[i].gap = gaps[i]
  <2>1. fixes[i] = [id |-> Fixed(i), deps |-> << Fixed(i - 1) >>, gap |-> gaps[i]]
    BY <1>2 DEF Loop!Step
  <2>2. i - 1 \in 0 .. n /\ i \in 0 .. n
    BY <1>2
  <2>3. << Fixed(i - 1) >> \in Seq(Id) /\ Fixed(i) \in Id /\ gaps[i] \in Criterion
    BY <1>2, <1>3, <1>4, <2>2
  <2> DEFINE before == << Fixed(i - 1) >>
  <2> HIDE DEF fixes, before
  <2>4. fixes[i] = [id |-> Fixed(i), deps |-> before, gap |-> gaps[i]] /\ before \in Seq(Id)
    BY <2>1, <2>3 DEF before
  <2>5. fixes[i] \in Steps
    BY <2>3, <2>4 DEF Steps
  <2>6. fixes[i].id = Fixed(i) /\ fixes[i].deps = before /\ fixes[i].gap = gaps[i]
    BY <2>4
  <2>7. QED
    BY <2>5, <2>6 DEF before
<1>6. /\ check \in Steps /\ check.id = <<"verify", 0>> /\ check.deps = << Fixed(n) >>
  <2> DEFINE before == << Fixed(n) >>
             id == <<"verify", 0>>
  <2>1. check = [id |-> id, deps |-> before, gap |-> Loop!NoGap]
    BY DEF Loop!Step
  <2>2. n \in 0 .. n
    BY <1>2
  <2>3. before \in Seq(Id) /\ id \in Id
    BY <1>4, <2>2 DEF Id
  <2> HIDE DEF check, before, id
  <2>4. check \in Steps
    BY <2>1, <2>3 DEF Steps
  <2>5. check.id = id /\ check.deps = before
    BY <2>1
  <2>6. QED
    BY <2>4, <2>5 DEF before, id
<1>7. fixes \in Seq(Steps) /\ Len(fixes) = n
  <2>1. DOMAIN fixes = 1 .. n /\ fixes = [i \in 1 .. n |-> fixes[i]]
    BY <1>2
  <2> HIDE DEF fixes
  <2>2. fixes \in [1 .. n -> Steps]
    BY <1>5, <2>1
  <2>3. n \in Nat /\ fixes \in Seq(Steps)
    BY <1>2, <2>2, IsASeq
  <2>4. QED
    BY <2>1, <2>3, LenProperties
<1> HIDE DEF fixes, check
<1>8. /\ rest \in Seq(Steps) /\ Len(rest) = n + 1
      /\ \A i \in 1 .. n : rest[i] = fixes[i]
      /\ rest[n + 1] = check
  BY <1>6, <1>7, AppendProperties
<1> HIDE DEF rest
<1>9. /\ new \in Seq(Steps) /\ Len(new) = l + (n + 1)
      /\ \A i \in 1 .. (l + (n + 1)) : new[i] = IF i <= l THEN steps[i] ELSE rest[i - l]
  <2>1. /\ steps \o rest \in Seq(Steps) /\ Len(steps \o rest) = Len(steps) + Len(rest)
        /\ \A i \in 1 .. (Len(steps) + Len(rest)) :
             (steps \o rest)[i] = IF i <= Len(steps) THEN steps[i] ELSE rest[i - Len(steps)]
    BY <1>8, ConcatProperties
  <2>2. Len(steps) = l /\ Len(rest) = n + 1
    BY <1>8
  <2>3. QED
    BY <1>1, <2>1, <2>2
<1>10. \A i \in 1 .. l : new[i] = steps[i]
  <2>1. \A i \in 1 .. l : i \in 1 .. (l + (n + 1)) /\ i <= l
    BY <1>2
  <2>2. QED
    BY <1>9, <2>1
<1>11. ASSUME NEW i \in 1 .. (n + 1) PROVE new[l + i] = rest[i]
  <2>1. l + i \in 1 .. (l + (n + 1)) /\ ~(l + i <= l) /\ (l + i) - l = i
    BY <1>2
  <2>2. QED
    BY <1>9, <2>1
<1>12. ASSUME NEW i \in 1 .. n
       PROVE  /\ new[l + i].id = <<"fix", l + i - 1>> /\ new[l + i].id = Fixed(i)
              /\ new[l + i].gap = gaps[i] /\ new[l + i].deps = << Fixed(i - 1) >>
  <2>1. new[l + i] = fixes[i]
    BY <1>2, <1>8, <1>11
  <2>2. QED
    BY <1>3, <1>5, <2>1
<1>13. new[l + n + 1] = check
  <2>1. new[l + (n + 1)] = rest[n + 1] /\ l + (n + 1) = l + n + 1
    BY <1>2, <1>11
  <2>2. QED
    BY <1>8, <2>1
<1>14. ASSUME NEW i \in 0 .. n PROVE new[l + i].id = Fixed(i)
  <2>1. CASE i = 0
    <3>1. new[l + i] = steps[l]
      BY <1>2, <1>10, <2>1
    <3>2. QED
      BY <1>3, <2>1, <3>1
  <2>2. CASE i \in 1 .. n
    BY <1>12, <2>2
  <2>3. QED
    BY <1>2, <2>1, <2>2
<1>15. ASSUME NEW i \in 1 .. (n + 1) PROVE new[l + i].deps = << new[l + i - 1].id >>
  <2>1. i - 1 \in 0 .. n /\ l + (i - 1) = l + i - 1
    BY <1>2
  <2>2. new[l + i - 1].id = Fixed(i - 1)
    BY <1>14, <2>1
  <2>3. new[l + i].deps = << Fixed(i - 1) >>
    <3>1. CASE i = n + 1
      <4>1. l + i = l + n + 1 /\ i - 1 = n
        BY <1>2, <3>1
      <4>2. QED
        BY <1>6, <1>13, <4>1
    <3>2. CASE i \in 1 .. n
      BY <1>12, <3>2
    <3>3. QED
      BY <1>2, <3>1, <3>2
  <2>4. QED
    BY <2>2, <2>3
<1>16. l \in Nat \ {0} /\ n \in Nat \ {0} /\ l + (n + 1) = l + n + 1
  BY <1>2
<1>17. new \in Seq(Steps) /\ Len(new) = l + n + 1
  BY <1>9, <1>16
<1>18. new[l + n + 1].id = <<"verify", 0>>
  BY <1>6, <1>13
<1>19. \A i \in 1 .. n : new[l + i].id = <<"fix", l + i - 1>> /\ new[l + i].gap = gaps[i]
  BY <1>12
<1>20. QED
  BY <1>10, <1>15, <1>16, <1>17, <1>18, <1>19 DEF Revised

\* The first revision keeps the chain.
LEMMA RevisionChains ==
    ASSUME NEW steps \in Seq(Steps), steps # << >>, NEW gaps \in Seq(Criterion), gaps # << >>,
           NEW new, new = Loop!replan(steps, gaps), Chained(steps), Drawn(steps)
    PROVE  Chained(new)
<1> DEFINE l == Len(steps)
           n == Len(gaps)
           m == l + n + 1
<1>1. l = Len(steps) /\ n = Len(gaps)
  OBVIOUS
<1> HIDE DEF l, n
<1>2. /\ l \in Nat \ {0} /\ n \in Nat \ {0}
      /\ new \in Seq(Steps) /\ Len(new) = l + n + 1
      /\ \A i \in 1 .. l : new[i] = steps[i]
      /\ \A i \in 1 .. n : /\ new[l + i].id = <<"fix", l + i - 1>>
                           /\ new[l + i].gap = gaps[i]
      /\ new[l + n + 1].id = <<"verify", 0>>
      /\ \A i \in 1 .. (n + 1) : new[l + i].deps = << new[l + i - 1].id >>
  <2>1. Revised(steps, gaps, l, n, new)
    BY <1>1, Revision
  <2>2. QED
    BY <2>1 DEF Revised
<1>3. DOMAIN new = 1 .. m /\ Len(new) = m /\ DOMAIN steps = 1 .. l
  BY <1>1, <1>2, LenProperties
<1>4. ASSUME NEW i \in 1 .. m
      PROVE  \/ i \in 1 .. l /\ new[i] = steps[i] /\ new[i].id[1] \in {"step", "reflect"}
             \/ i \in (l + 1) .. (l + n) /\ new[i].id = <<"fix", i - 1>>
             \/ i = m /\ new[i].id = <<"verify", 0>>
  <2>1. CASE i \in 1 .. l
    BY <1>2, <1>3, <2>1 DEF Drawn
  <2>2. CASE i \in (l + 1) .. (l + n)
    <3>1. i - l \in 1 .. n /\ l + (i - l) = i /\ l + (i - l) - 1 = i - 1
      BY <1>2, <2>2
    <3>2. QED
      BY <1>2, <2>2, <3>1
  <2>3. CASE i = m
    BY <1>2, <2>3
  <2>4. QED
    BY <1>2, <2>1, <2>2, <2>3
<1>5. ASSUME NEW i \in 1 .. m, NEW j \in 1 .. m, new[i].id = new[j].id PROVE i = j
  <2> DEFINE kind(k) == new[k].id[1]
  <2>1. ASSUME NEW k \in 1 .. m
        PROVE  \/ k \in 1 .. l /\ new[k] = steps[k] /\ kind(k) \in {"step", "reflect"}
               \/ new[k].id = <<"fix", k - 1>> /\ kind(k) = "fix"
               \/ k = m /\ kind(k) = "verify"
    BY <1>4
  <2>2. kind(i) = kind(j)
    BY <1>5
  <2>3. CASE kind(i) \in {"step", "reflect"}
    <3>1. i \in 1 .. l /\ j \in 1 .. l /\ new[i] = steps[i] /\ new[j] = steps[j]
      <4> HIDE DEF kind, m
      <4>1. QED
        BY <2>1, <2>2, <2>3
    <3>2. QED
      BY <1>3, <1>5, <3>1 DEF Chained
  <2>4. CASE kind(i) = "fix"
    <3>1. new[i].id = <<"fix", i - 1>> /\ new[j].id = <<"fix", j - 1>>
      <4> HIDE DEF kind, m
      <4>1. QED
        BY <2>1, <2>2, <2>4
    <3>2. i - 1 = j - 1
      <4>1. <<"fix", i - 1>> = <<"fix", j - 1>>
        BY <1>5, <3>1
      <4>2. QED
        BY <4>1
    <3>3. i \in Int /\ j \in Int
      OBVIOUS
    <3>4. QED
      BY <3>2, <3>3
  <2>5. CASE kind(i) = "verify"
    <3>1. i = m /\ j = m
      <4> HIDE DEF kind, m
      <4>1. QED
        BY <2>1, <2>2, <2>5
    <3>2. QED
      BY <3>1
  <2>6. QED
    <3> HIDE DEF kind, m
    <3>1. QED
      BY <2>1, <2>3, <2>4, <2>5
<1>6. ASSUME NEW i \in 1 .. m
      PROVE  new[i].deps = IF i = 1 THEN << >> ELSE << new[i - 1].id >>
  <2>1. CASE i \in 1 .. l
    <3>1. steps[i].deps = IF i = 1 THEN << >> ELSE << steps[i - 1].id >>
      BY <1>3, <2>1 DEF Chained
    <3>2. i # 1 => i - 1 \in 1 .. l
      BY <1>2, <2>1
    <3>3. new[i] = steps[i] /\ (i # 1 => new[i - 1] = steps[i - 1])
      BY <1>2, <2>1, <3>2
    <3>4. QED
      BY <3>1, <3>3
  <2>2. CASE i \in (l + 1) .. m
    <3>1. i - l \in 1 .. (n + 1) /\ l + (i - l) = i /\ l + (i - l) - 1 = i - 1 /\ i # 1
      BY <1>2, <2>2
    <3>2. QED
      BY <1>2, <3>1
  <2>3. QED
    BY <1>2, <2>1, <2>2
<1>7. m \in Nat \ {0}
  BY <1>2
<1>8. QED
  BY <1>3, <1>5, <1>6, <1>7 DEF Chained

\* A further one repeats the id of the step that verifies.
LEMMA RevisionDoubles ==
    ASSUME NEW steps \in Seq(Steps), steps # << >>, NEW gaps \in Seq(Criterion), gaps # << >>,
           NEW new, new = Loop!replan(steps, gaps)
    PROVE  /\ Verified(new)
           /\ Verified(steps) => Doubled(new)
<1> DEFINE l == Len(steps)
           n == Len(gaps)
           m == l + n + 1
<1>1. l = Len(steps) /\ n = Len(gaps)
  OBVIOUS
<1> HIDE DEF l, n
<1>2. /\ l \in Nat \ {0} /\ n \in Nat \ {0} /\ m \in Nat \ {0}
      /\ new \in Seq(Steps) /\ Len(new) = m
      /\ \A i \in 1 .. l : new[i] = steps[i]
      /\ new[m].id = <<"verify", 0>>
  <2>1. Revised(steps, gaps, l, n, new)
    BY <1>1, Revision
  <2>2. QED
    BY <2>1 DEF Revised
<1>3. DOMAIN new = 1 .. m /\ DOMAIN steps = 1 .. l
  BY <1>1, <1>2, LenProperties
<1> DEFINE verify == <<"verify", 0>>
<1> HIDE DEF verify
<1>4. m \in 1 .. m /\ \A i \in 1 .. l : i \in 1 .. m /\ i # m
  BY <1>2
<1>5. new[m].id = verify
  BY <1>2 DEF verify
<1> HIDE DEF m
<1>6. Verified(new)
  BY <1>3, <1>4, <1>5 DEF Verified, verify
<1>7. ASSUME Verified(steps) PROVE Doubled(new)
  <2>1. PICK i \in 1 .. l : steps[i].id = verify
    BY <1>3, <1>7 DEF Verified, verify
  <2>2. new[i].id = new[m].id /\ i \in 1 .. m /\ i # m
    BY <1>2, <1>4, <1>5, <2>1
  <2>3. QED
    BY <1>2, <1>3, <1>4, <2>2 DEF Doubled
<1>8. QED
  BY <1>6, <1>7

\* The gaps are the criteria that the plan does not meet.
LEMMA GapsAreUnmet ==
    ASSUME NEW steps, NEW wanted \in Seq(Criterion),
           NEW gaps, gaps = Loop!evaluate(steps, wanted)
    PROVE  /\ gaps \in Seq(Criterion)
           /\ \A k \in DOMAIN gaps : \E i \in DOMAIN wanted :
                gaps[k] = wanted[i] /\ ~Loop!check_criterion(steps, wanted[i])
           /\ \A i \in DOMAIN wanted : ~Loop!check_criterion(steps, wanted[i]) =>
                \E k \in DOMAIN gaps : gaps[k] = wanted[i]
<1> DEFINE P == {i \in DOMAIN wanted : ~Loop!check_criterion(steps, wanted[i])}
<1>1. gaps = Kept(wanted, P)
  BY LoopKeeps DEF Loop!evaluate
<1>2. P \in SUBSET DOMAIN wanted
  OBVIOUS
<1>3. \A i \in DOMAIN wanted : i \in P <=> ~Loop!check_criterion(steps, wanted[i])
  OBVIOUS
<1> HIDE DEF P
<1>4. /\ gaps \in Seq(Criterion) /\ Len(gaps) = Cardinality(P) /\ Cardinality(P) \in Nat
      /\ \A n \in 1 .. Cardinality(P) : Nth(P, n) \in P /\ gaps[n] = wanted[Nth(P, n)]
      /\ \A i \in P : /\ Rank(P, i) \in 1 .. Cardinality(P)
                      /\ gaps[Rank(P, i)] = wanted[i]
  BY <1>1, <1>2, KeptIsSequence
<1>5. DOMAIN gaps = 1 .. Cardinality(P)
  BY <1>4, LenProperties
<1>6. QED
  BY <1>2, <1>3, <1>4, <1>5

\* The graph of a history: the first run's task, the agent, and the outcome, then
\* two nodes a run; two edges a run.
NodeLike == [type : {"task", "agent", "outcome"},
             name : Goal \cup {"AutonomousLoop", "success", "failure"}]
TaskNode(i) == IF i = 1 THEN 1 ELSE 2 * i
NodesAfter(n) == IF n = 0 THEN 0 ELSE 2 * n + 1
NodesTell(nodes, history) ==
    /\ nodes \in Seq(NodeLike) /\ Len(nodes) = NodesAfter(Len(history))
    /\ history # << >> => nodes[2] = Loop!Node("agent", "AutonomousLoop")
    /\ \A i \in 1 .. Len(history) :
         /\ nodes[TaskNode(i)] = Loop!Node("task", history[i].task)
         /\ nodes[2 * i + 1] = Loop!Node("outcome", history[i].outcome)
EdgesTell(edges, history) ==
    /\ edges \in Seq(Nat \X Nat) /\ Len(edges) = 2 * Len(history)
    /\ \A i \in 1 .. Len(history) :
         edges[2 * i - 1] = <<2, TaskNode(i)>> /\ edges[2 * i] = <<TaskNode(i), 2 * i + 1>>
Remembers(graph, history) ==
    /\ history \in Seq(Loop!Outcome)
    /\ NodesTell(graph.nodes, history) /\ EdgesTell(graph.edges, history)

\* Every node and every edge is of some run.
LEMMA NodesAreOfRuns ==
    ASSUME NEW n \in Nat, NEW k \in 1 .. NodesAfter(n)
    PROVE  k = 2 \/ \E i \in 1 .. n : k = TaskNode(i) \/ k = 2 * i + 1
<1> DEFINE i == k \div 2
<1>1. n # 0 /\ k \in 1 .. (2 * n + 1)
  BY DEF NodesAfter
<1>2. i \in Nat /\ (k = 2 * i \/ k = 2 * i + 1)
  BY <1>1
<1> HIDE DEF i
<1>3. CASE k = 1
  BY <1>1, <1>3 DEF TaskNode
<1>4. CASE k # 1 /\ k # 2
  <2>1. i \in 1 .. n /\ (k = 2 * i => i # 1)
    BY <1>1, <1>2, <1>4
  <2>2. QED
    BY <1>2, <2>1 DEF TaskNode
<1>5. QED
  BY <1>3, <1>4

LEMMA EdgesAreOfRuns ==
    ASSUME NEW n \in Nat, NEW k \in 1 .. (2 * n)
    PROVE  \E i \in 1 .. n : k = 2 * i - 1 \/ k = 2 * i
<1> DEFINE i == (k + 1) \div 2
<1>1. i \in 1 .. n /\ (k = 2 * i - 1 \/ k = 2 * i)
  OBVIOUS
<1>2. QED
  BY <1>1

\* The nodes of a history: the task nodes are those of the runs, and the agent
\* has one.
LEMMA KindsOfNodes ==
    ASSUME NEW history \in Seq(Loop!Outcome), NEW nodes, NodesTell(nodes, history),
           NEW k \in DOMAIN nodes
    PROVE  /\ nodes[k].type = "task" =>
                \E i \in 1 .. Len(history) : k = TaskNode(i) /\ nodes[k].name = history[i].task
           /\ nodes[k].type = "agent" => k = 2
<1> DEFINE n == Len(history)
<1>1. n \in Nat /\ k \in 1 .. NodesAfter(n) /\ Len(nodes) = NodesAfter(n)
  BY LenProperties DEF NodesTell
<1>2. /\ nodes[2].type = "agent" \/ n = 0
      /\ \A i \in 1 .. n : /\ nodes[TaskNode(i)].type = "task"
                           /\ nodes[TaskNode(i)].name = history[i].task
                           /\ nodes[2 * i + 1].type = "outcome"
  <2>1. n # 0 => history # << >>
    BY EmptySeq
  <2>2. nodes[2].type = "agent" \/ n = 0
    BY <2>1 DEF NodesTell, Loop!Node
  <2>3. ASSUME NEW i \in 1 .. n
        PROVE  /\ nodes[TaskNode(i)].type = "task" /\ nodes[TaskNode(i)].name = history[i].task
               /\ nodes[2 * i + 1].type = "outcome"
    <3>1. /\ nodes[TaskNode(i)] = Loop!Node("task", history[i].task)
          /\ nodes[2 * i + 1] = Loop!Node("outcome", history[i].outcome)
      BY DEF NodesTell
    <3>2. QED
      BY <3>1 DEF Loop!Node
  <2>4. QED
    BY <2>2, <2>3
<1>3. n # 0
  BY <1>1 DEF NodesAfter
<1> HIDE DEF n
<1>4. k = 2 \/ \E i \in 1 .. n : k = TaskNode(i) \/ k = 2 * i + 1
  BY <1>1, NodesAreOfRuns
<1>5. QED
  BY <1>2, <1>3, <1>4 DEF n

LEMMA OneAgent ==
    ASSUME NEW history \in Seq(Loop!Outcome), NEW graph, NodesTell(graph.nodes, history)
    PROVE  /\ history = << >> => Loop!Named(graph, "agent", "AutonomousLoop") = {}
           /\ history # << >> =>
                /\ Loop!Named(graph, "agent", "AutonomousLoop") = {2}
                /\ Loop!Oldest({2}) = 2
<1> DEFINE nodes == graph.nodes
           N == Loop!Named(graph, "agent", "AutonomousLoop")
<1>1. \A k \in N : k \in DOMAIN nodes /\ nodes[k].type = "agent"
  BY DEF Loop!Named, Loop!query_by_type
<1>2. \A k \in N : k = 2
  BY <1>1, KindsOfNodes
<1>3. ASSUME history # << >> PROVE 2 \in N
  <2>1. Len(history) \in Nat \ {0}
    BY <1>3, LenProperties, EmptySeq
  <2>2. 2 \in DOMAIN nodes
    <3>1. Len(nodes) \in Nat /\ Len(nodes) >= 2 /\ DOMAIN nodes = 1 .. Len(nodes)
      BY <2>1, LenProperties DEF NodesTell, NodesAfter
    <3>2. QED
      BY <3>1
  <2>3. nodes[2].type = "agent" /\ nodes[2].name = "AutonomousLoop"
    BY <1>3 DEF NodesTell, Loop!Node
  <2>4. QED
    BY <2>2, <2>3 DEF Loop!Named, Loop!query_by_type
<1>4. ASSUME history = << >> PROVE N = {}
  <2>1. Len(history) = 0
    BY <1>4
  <2>2. Len(nodes) = 0 /\ DOMAIN nodes = 1 .. Len(nodes)
    BY <2>1, LenProperties DEF NodesTell, NodesAfter
  <2>3. DOMAIN nodes = {}
    BY <2>2
  <2>4. QED
    BY <1>1, <2>3
<1>5. Loop!Oldest({2}) = 2
  BY DEF Loop!Oldest
<1>6. QED
  BY <1>2, <1>3, <1>4, <1>5

\* What a node leads to: the agent to the tasks, in their order, and a task to
\* its outcome.
LEMMA AgentLeadsToTasks ==
    ASSUME NEW history \in Seq(Loop!Outcome), NEW graph, EdgesTell(graph.edges, history)
    PROVE  Loop!query_related(graph, 2) = [i \in 1 .. Len(history) |-> TaskNode(i)]
<1> DEFINE n == Len(history)
           edges == graph.edges
           D == DOMAIN edges
           P == {i \in D : edges[i][1] = 2}
           f == [i \in 1 .. n |-> 2 * i - 1]
<1>1. /\ n \in Nat /\ D = 1 .. (2 * n) /\ edges \in Seq(Nat \X Nat)
      /\ \A i \in 1 .. n : /\ edges[2 * i - 1][1] = 2 /\ edges[2 * i - 1][2] = TaskNode(i)
                           /\ edges[2 * i][1] = TaskNode(i)
  <2>1. n \in Nat /\ D = 1 .. (2 * n) /\ edges \in Seq(Nat \X Nat)
    BY LenProperties DEF EdgesTell
  <2>2. ASSUME NEW i \in 1 .. n
        PROVE  /\ edges[2 * i - 1][1] = 2 /\ edges[2 * i - 1][2] = TaskNode(i)
               /\ edges[2 * i][1] = TaskNode(i)
    <3>1. edges[2 * i - 1] = <<2, TaskNode(i)>> /\ edges[2 * i] = <<TaskNode(i), 2 * i + 1>>
      BY DEF EdgesTell
    <3>2. QED
      BY <3>1
  <2>3. QED
    BY <2>1, <2>2
<1>2. Loop!query_related(graph, 2)
        = [i \in DOMAIN Kept(edges, P) |-> Kept(edges, P)[i][2]]
  BY LoopKeeps DEF Loop!query_related
<1>3. \A i \in 1 .. n : 2 * i - 1 \in D /\ TaskNode(i) # 2 /\ i \in Int
  BY <1>1 DEF TaskNode
<1>4. f \in [1 .. n -> D] /\ \A i, j \in 1 .. n : i < j => f[i] < f[j]
  BY <1>3
<1>5. P = {f[i] : i \in 1 .. n}
  <2>1. ASSUME NEW k \in P PROVE \E i \in 1 .. n : k = f[i]
    <3>1. PICK i \in 1 .. n : k = 2 * i - 1 \/ k = 2 * i
      BY <1>1, EdgesAreOfRuns
    <3>2. k # 2 * i
      BY <1>1, <1>3
    <3>3. QED
      BY <3>1, <3>2
  <2>2. \A i \in 1 .. n : f[i] \in P
    BY <1>1, <1>3
  <2> HIDE DEF P, f
  <2>3. QED
    BY <2>1, <2>2
<1>6. \A i \in 1 .. n : edges[f[i]][2] = TaskNode(i)
  BY <1>1
<1> DEFINE kept == Kept(edges, P)
<1> HIDE DEF n, edges, P, f
<1>7. kept \in Seq(Nat \X Nat) /\ Len(kept) = n /\ \A i \in 1 .. n : kept[i] = edges[f[i]]
  <2> DEFINE Q == Nat \X Nat
  <2>1. f \in Ascents(n, DOMAIN edges, P)
    BY <1>4, <1>5 DEF Ascents
  <2> HIDE DEF Q, D
  <2>2. edges \in Seq(Q) /\ n \in Nat
    BY <1>1 DEF Q
  <2>3. /\ Kept(edges, P) \in Seq(Q) /\ Len(Kept(edges, P)) = n
        /\ \A i \in 1 .. n : Kept(edges, P)[i] = edges[f[i]]
    BY <2>1, <2>2, KeptPositions
  <2>4. QED
    BY <2>3 DEF Q
<1>8. DOMAIN kept = 1 .. n /\ \A i \in 1 .. n : kept[i][2] = TaskNode(i)
  BY <1>6, <1>7, LenProperties
<1> HIDE DEF kept
<1>9. [i \in DOMAIN kept |-> kept[i][2]] = [i \in 1 .. n |-> TaskNode(i)]
  BY <1>8
<1>10. QED
  BY <1>2, <1>9 DEF n, kept

LEMMA TaskLeadsToOutcome ==
    ASSUME NEW history \in Seq(Loop!Outcome), NEW graph, EdgesTell(graph.edges, history),
           NEW i \in 1 .. Len(history)
    PROVE  Head(Loop!query_related(graph, TaskNode(i))) = 2 * i + 1
<1> DEFINE n == Len(history)
           edges == graph.edges
           P == {k \in DOMAIN edges : edges[k][1] = TaskNode(i)}
           f == [k \in 1 .. 1 |-> 2 * i]
           kept == Kept(edges, P)
<1>1. /\ n \in Nat /\ DOMAIN edges = 1 .. (2 * n) /\ edges \in Seq(Nat \X Nat)
      /\ edges[2 * i][2] = 2 * i + 1
      /\ \A k \in 1 .. n : edges[2 * k - 1][1] = 2 /\ edges[2 * k][1] = TaskNode(k)
  <2>1. n \in Nat /\ DOMAIN edges = 1 .. (2 * n) /\ edges \in Seq(Nat \X Nat)
    BY LenProperties DEF EdgesTell
  <2>2. ASSUME NEW k \in 1 .. n
        PROVE  /\ edges[2 * k - 1][1] = 2 /\ edges[2 * k][1] = TaskNode(k)
               /\ edges[2 * k][2] = 2 * k + 1
    <3>1. edges[2 * k - 1] = <<2, TaskNode(k)>> /\ edges[2 * k] = <<TaskNode(k), 2 * k + 1>>
      BY DEF EdgesTell
    <3>2. QED
      BY <3>1
  <2>3. QED
    BY <2>1, <2>2
<1>2. Loop!query_related(graph, TaskNode(i)) = [k \in DOMAIN kept |-> kept[k][2]]
  BY LoopKeeps DEF Loop!query_related
<1>3. \A k \in 1 .. n : k \in Int /\ TaskNode(k) # 2 /\ (TaskNode(k) = TaskNode(i) => k = i)
  <2>1. ASSUME NEW k \in 1 .. n
        PROVE  k \in Int /\ TaskNode(k) # 2 /\ (TaskNode(k) = TaskNode(i) => k = i)
    <3>1. /\ k \in Int /\ k >= 1 /\ i \in Int /\ i >= 1
          /\ TaskNode(k) = IF k = 1 THEN 1 ELSE 2 * k
          /\ TaskNode(i) = IF i = 1 THEN 1 ELSE 2 * i
      BY <1>1 DEF TaskNode
    <3>2. QED
      BY <3>1
  <2>2. QED
    BY <2>1
<1>4. 2 * i \in DOMAIN edges /\ i \in 1 .. n
  BY <1>1
<1>5. P = {2 * i}
  <2>1. ASSUME NEW k \in P PROVE k = 2 * i
    <3>1. PICK j \in 1 .. n : k = 2 * j - 1 \/ k = 2 * j
      BY <1>1, EdgesAreOfRuns
    <3>2. edges[k][1] = TaskNode(i) /\ TaskNode(i) # 2
      BY <1>3, <1>4
    <3>3. k # 2 * j - 1
      BY <1>1, <3>2
    <3>4. TaskNode(j) = TaskNode(i)
      BY <1>1, <3>1, <3>2, <3>3
    <3>5. QED
      BY <1>3, <3>1, <3>3, <3>4
  <2>2. 2 * i \in P
    BY <1>1, <1>4
  <2> HIDE DEF P
  <2>3. QED
    BY <2>1, <2>2
<1>6. f \in Ascents(1, DOMAIN edges, P)
  <2>1. f \in [1 .. 1 -> DOMAIN edges] /\ {f[k] : k \in 1 .. 1} = {2 * i}
    BY <1>4
  <2>2. \A j, k \in 1 .. 1 : ~(j < k)
    OBVIOUS
  <2> HIDE DEF f, P
  <2>3. QED
    BY <1>5, <2>1, <2>2 DEF Ascents
<1>7. f[1] = 2 * i
  OBVIOUS
<1>8. kept \in Seq(Nat \X Nat) /\ Len(kept) = 1 /\ kept[1] = edges[2 * i]
  <2> DEFINE Q == Nat \X Nat
             one == 1
  <2>1. f \in Ascents(one, DOMAIN edges, P) /\ edges \in Seq(Q) /\ one \in Nat
    BY <1>1, <1>6
  <2> HIDE DEF f, P, edges, Q, one
  <2>2. /\ Kept(edges, P) \in Seq(Q) /\ Len(Kept(edges, P)) = one
        /\ \A k \in 1 .. one : Kept(edges, P)[k] = edges[f[k]]
    BY <2>1, KeptPositions
  <2>3. QED
    BY <1>7, <2>2 DEF Q, one
<1> HIDE DEF kept
<1>9. DOMAIN kept = 1 .. 1 /\ kept[1][2] = 2 * i + 1
  BY <1>1, <1>8, LenProperties
<1>10. [k \in DOMAIN kept |-> kept[k][2]] = << 2 * i + 1 >>
  BY <1>9
<1>11. QED
  BY <1>2, <1>10

\* The agent's history is the list of the runs.
LEMMA HistoryIsTold ==
    ASSUME NEW history, NEW graph, Remembers(graph, history)
    PROVE  Loop!get_agent_history(graph, "AutonomousLoop") = history
<1> DEFINE Done(n) == [task |-> graph.nodes[n].name,
                       outcome |-> graph.nodes[Head(Loop!query_related(graph, n))].name]
           known == Loop!Named(graph, "agent", "AutonomousLoop")
           tasked == IF known = {} THEN << >> ELSE Loop!query_related(graph, Loop!Oldest(known))
           n == Len(history)
<1>1. history \in Seq(Loop!Outcome) /\ NodesTell(graph.nodes, history) /\ EdgesTell(graph.edges, history)
  BY DEF Remembers
<1>2. n \in Nat /\ DOMAIN history = 1 .. n /\ \A i \in 1 .. n : history[i] \in Loop!Outcome
  BY <1>1, LenProperties, ElementOfSeq
<1>3. Loop!get_agent_history(graph, "AutonomousLoop") = [i \in DOMAIN tasked |-> Done(tasked[i])]
  BY DEF Loop!get_agent_history
<1>4. CASE history = << >>
  <2>1. tasked = << >>
    BY <1>1, <1>4, OneAgent
  <2>2. DOMAIN tasked = {}
    BY <2>1
  <2> HIDE DEF tasked
  <2>3. QED
    BY <1>3, <1>4, <2>2
<1>5. CASE history # << >>
  <2>1. tasked = [i \in 1 .. n |-> TaskNode(i)]
    <3>1. known = {2} /\ Loop!Oldest({2}) = 2
      BY <1>1, <1>5, OneAgent
    <3>2. tasked = Loop!query_related(graph, 2)
      BY <3>1
    <3>3. QED
      BY <1>1, <3>2, AgentLeadsToTasks
  <2>2. ASSUME NEW i \in 1 .. n PROVE Done(TaskNode(i)) = history[i]
    <3>1. Head(Loop!query_related(graph, TaskNode(i))) = 2 * i + 1
      BY <1>1, TaskLeadsToOutcome
    <3>2. /\ graph.nodes[TaskNode(i)].name = history[i].task
          /\ graph.nodes[2 * i + 1].name = history[i].outcome
      <4>1. /\ graph.nodes[TaskNode(i)] = Loop!Node("task", history[i].task)
            /\ graph.nodes[2 * i + 1] = Loop!Node("outcome", history[i].outcome)
        BY <1>1 DEF NodesTell
      <4>2. QED
        BY <4>1 DEF Loop!Node
    <3>3. history[i] = [task |-> history[i].task, outcome |-> history[i].outcome]
      BY <1>2 DEF Loop!Outcome
    <3>4. QED
      BY <3>1, <3>2, <3>3
  <2> HIDE DEF Done, tasked
  <2>3. [i \in DOMAIN tasked |-> Done(tasked[i])] = [i \in 1 .. n |-> history[i]]
    BY <2>1, <2>2
  <2>4. [i \in 1 .. n |-> history[i]] = history
    BY <1>1, <1>2
  <2>5. QED
    BY <1>3, <2>3, <2>4
<1>6. QED
  BY <1>4, <1>5

\* A process that starts without a file remembers nothing.
LEMMA NothingIsRemembered == Remembers(Loop!NoGraph, << >>)
<1>1. /\ Loop!NoGraph.nodes = << >> /\ Loop!NoGraph.edges = << >>
      /\ << >> \in Seq(Loop!Outcome) /\ << >> \in Seq(NodeLike) /\ << >> \in Seq(Nat \X Nat)
      /\ Len(<< >>) = 0
  BY DEF Loop!NoGraph
<1>2. NodesTell(<< >>, << >>)
  BY <1>1 DEF NodesTell, NodesAfter
<1>3. EdgesTell(<< >>, << >>)
  BY <1>1 DEF EdgesTell
<1>4. QED
  BY <1>1, <1>2, <1>3 DEF Remembers

\* A run that ends is remembered.
LEMMA RunIsRecorded ==
    ASSUME NEW history, NEW graph, Remembers(graph, history),
           NEW g \in Goal, NEW o \in {"success", "failure"}
    PROVE  Remembers(Loop!record_task(graph, g, "AutonomousLoop", o),
                     Append(history, [task |-> g, outcome |-> o]))
<1> DEFINE new == Loop!record_task(graph, g, "AutonomousLoop", o)
           told == [task |-> g, outcome |-> o]
           longer == Append(history, told)
           nodes == graph.nodes
           edges == graph.edges
           n == Len(history)
           m == Len(nodes)
           T == Loop!Node("task", g)
           A == Loop!Node("agent", "AutonomousLoop")
           O == Loop!Node("outcome", o)
           known == Loop!Named(graph, "agent", "AutonomousLoop")
           extra == IF known = {} THEN << A >> ELSE << >>
           more == Append(nodes, T)
           most == more \o extra
           by == IF known = {} THEN Len(most) ELSE Loop!Oldest(known)
           pair == << <<by, m + 1>>, <<m + 1, Len(most) + 1>> >>
<1>1. new.nodes = Append(most, O) /\ new.edges = edges \o pair
  BY DEF Loop!record_task
<1>2. /\ history \in Seq(Loop!Outcome) /\ nodes \in Seq(NodeLike) /\ edges \in Seq(Nat \X Nat)
      /\ n \in Nat /\ m = NodesAfter(n) /\ Len(edges) = 2 * n /\ (history = << >> <=> n = 0)
  BY LenProperties, EmptySeq DEF Remembers, NodesTell, EdgesTell
<1>3. /\ n = 0 => known = {}
      /\ n # 0 => known = {2} /\ Loop!Oldest({2}) = 2
  BY <1>2, OneAgent DEF Remembers
<1>4. T \in NodeLike /\ A \in NodeLike /\ O \in NodeLike
  BY DEF NodeLike, Loop!Node
<1>5. /\ told \in Loop!Outcome /\ told.task = g /\ told.outcome = o
  BY DEF Loop!Outcome
<1>6. /\ n = 0 => extra = << A >> /\ Len(extra) = 1
      /\ n # 0 => extra = << >> /\ Len(extra) = 0
      /\ extra \in Seq(NodeLike)
  BY <1>3, <1>4
<1> HIDE DEF T, A, O, told
<1>7. m \in Nat /\ TaskNode(n + 1) = m + 1 /\ (n # 0 => m >= 2)
  BY <1>2 DEF NodesAfter, TaskNode
<1> HIDE DEF extra
<1>8. /\ more \in Seq(NodeLike) /\ Len(more) = m + 1
      /\ \A k \in 1 .. m : more[k] = nodes[k]
      /\ more[m + 1] = T
  BY <1>2, <1>4, AppendProperties
<1> HIDE DEF more
<1>9. /\ most \in Seq(NodeLike) /\ Len(most) = 2 * n + 2
      /\ \A k \in 1 .. (m + 1) : most[k] = more[k]
      /\ n = 0 => most[2] = A
  <2>1. /\ most \in Seq(NodeLike) /\ Len(most) = (m + 1) + Len(extra)
        /\ \A k \in 1 .. ((m + 1) + Len(extra)) :
             most[k] = IF k <= m + 1 THEN more[k] ELSE extra[k - (m + 1)]
    <3>1. /\ most \in Seq(NodeLike) /\ Len(most) = Len(more) + Len(extra)
          /\ \A k \in 1 .. (Len(more) + Len(extra)) :
               most[k] = IF k <= Len(more) THEN more[k] ELSE extra[k - Len(more)]
      BY <1>6, <1>8, ConcatProperties
    <3>2. Len(more) = m + 1
      BY <1>8
    <3>3. QED
      BY <3>1, <3>2
  <2>2. (m + 1) + Len(extra) = 2 * n + 2
    <3>1. n \in Nat /\ m = IF n = 0 THEN 0 ELSE 2 * n + 1
      BY <1>2 DEF NodesAfter
    <3>2. Len(extra) = IF n = 0 THEN 1 ELSE 0
      BY <1>6
    <3> HIDE DEF n, m
    <3>3. QED
      BY <3>1, <3>2
  <2>3. \A k \in 1 .. (m + 1) : k \in 1 .. ((m + 1) + Len(extra)) /\ k <= m + 1
    BY <1>2, <1>7, <2>2
  <2>4. ASSUME n = 0 PROVE most[2] = A
    <3>1. m = 0 /\ Len(extra) = 1 /\ extra[1] = A
      BY <1>2, <1>6, <2>4 DEF NodesAfter
    <3>2. most[2] = extra[2 - (m + 1)] /\ 2 - (m + 1) = 1
      BY <2>1, <3>1
    <3>3. QED
      BY <3>1, <3>2
  <2> HIDE DEF most
  <2>5. QED
    BY <2>1, <2>2, <2>3, <2>4
<1> HIDE DEF most
<1> DEFINE full == Append(most, O)
<1>10. /\ full \in Seq(NodeLike) /\ Len(full) = 2 * n + 3
       /\ \A k \in 1 .. (2 * n + 2) : full[k] = most[k]
       /\ full[2 * n + 3] = O
  <2>1. /\ full \in Seq(NodeLike) /\ Len(full) = Len(most) + 1
        /\ \A k \in 1 .. Len(most) : full[k] = most[k]
        /\ full[Len(most) + 1] = O
    BY <1>4, <1>9, AppendProperties
  <2>2. Len(most) = 2 * n + 2 /\ Len(most) + 1 = 2 * n + 3
    BY <1>2, <1>9
  <2> HIDE DEF full
  <2>3. QED
    BY <2>1, <2>2
<1>11. by = 2
  <2>1. n = 0 => known = {} /\ Len(most) = 2
    BY <1>3, <1>9
  <2> HIDE DEF known, n
  <2>2. QED
    BY <1>3, <2>1
<1>12. /\ longer \in Seq(Loop!Outcome) /\ longer # << >> /\ Len(longer) = n + 1
       /\ \A i \in 1 .. n : longer[i] = history[i]
       /\ longer[n + 1] = told
  <2>1. history \in Seq(Loop!Outcome) /\ told \in Loop!Outcome
    BY <1>2, <1>5
  <2>2. QED
    BY <2>1, AppendProperties
<1> HIDE DEF longer, full
<1>13. \A k \in 1 .. m : full[k] = nodes[k]
  <2>1. \A k \in 1 .. m : k \in 1 .. (m + 1) /\ k \in 1 .. (2 * n + 2)
    BY <1>2, <1>7 DEF NodesAfter
  <2>2. QED
    BY <1>8, <1>9, <1>10, <2>1
<1>14. full[m + 1] = T
  <2>1. m + 1 \in 1 .. (m + 1) /\ m + 1 \in 1 .. (2 * n + 2)
    BY <1>2, <1>7 DEF NodesAfter
  <2>2. QED
    BY <1>8, <1>9, <1>10, <2>1
<1>15. full[2] = A
  <2>1. CASE n = 0
    BY <1>9, <1>10, <2>1
  <2>2. CASE n # 0
    <3>1. 2 \in 1 .. m
      BY <1>7, <2>2
    <3>2. nodes[2] = A
      BY <1>2, <2>2 DEF Remembers, NodesTell, A
    <3>3. QED
      BY <1>13, <3>1, <3>2
  <2>3. QED
    BY <2>1, <2>2
<1>16. NodesTell(full, longer)
  <2>1. ASSUME NEW i \in 1 .. (n + 1)
        PROVE  /\ full[TaskNode(i)] = Loop!Node("task", longer[i].task)
               /\ full[2 * i + 1] = Loop!Node("outcome", longer[i].outcome)
    <3>1. CASE i = n + 1
      <4>1. 2 * i + 1 = 2 * n + 3
        BY <1>2, <3>1
      <4>2. longer[i].task = g /\ longer[i].outcome = o
        BY <1>5, <1>12, <3>1
      <4>3. QED
        BY <1>7, <1>10, <1>14, <3>1, <4>1, <4>2 DEF T, O
    <3>2. CASE i \in 1 .. n
      <4>1. TaskNode(i) \in 1 .. m /\ 2 * i + 1 \in 1 .. m
        <5>1. m = 2 * n + 1 /\ n \in Nat /\ i \in 1 .. n
          BY <1>2, <3>2 DEF NodesAfter
        <5>2. TaskNode(i) = 1 \/ TaskNode(i) = 2 * i
          BY DEF TaskNode
        <5> HIDE DEF m, n
        <5>3. QED
          BY <5>1, <5>2
      <4>2. /\ nodes[TaskNode(i)] = Loop!Node("task", history[i].task)
            /\ nodes[2 * i + 1] = Loop!Node("outcome", history[i].outcome)
        BY <3>2 DEF Remembers, NodesTell
      <4>3. QED
        BY <1>12, <1>13, <3>2, <4>1, <4>2
    <3>3. QED
      BY <1>2, <3>1, <3>2
  <2>2. Len(full) = NodesAfter(Len(longer))
    BY <1>2, <1>10, <1>12 DEF NodesAfter
  <2>3. QED
    BY <1>10, <1>12, <1>15, <2>1, <2>2 DEF NodesTell, A
<1> DEFINE both == edges \o pair
<1>17. /\ both \in Seq(Nat \X Nat) /\ Len(both) = 2 * n + 2
       /\ \A k \in 1 .. (2 * n) : both[k] = edges[k]
       /\ both[2 * n + 1] = <<2, m + 1>>
       /\ both[2 * n + 2] = <<m + 1, 2 * n + 3>>
  <2> DEFINE Q == Nat \X Nat
             first == <<2, m + 1>>
             second == <<m + 1, 2 * n + 3>>
  <2>1. first \in Q /\ second \in Q
    BY <1>2, <1>7
  <2>2. pair = << first, second >>
    BY <1>2, <1>9, <1>11
  <2> HIDE DEF first, second, Q, pair, edges
  <2>3. pair \in Seq(Q) /\ Len(pair) = 2 /\ pair[1] = first /\ pair[2] = second
    BY <2>1, <2>2
  <2>4. edges \in Seq(Q) /\ Len(edges) = 2 * n
    BY <1>2 DEF Q
  <2>5. /\ edges \o pair \in Seq(Q) /\ Len(edges \o pair) = Len(edges) + Len(pair)
        /\ \A k \in 1 .. (Len(edges) + Len(pair)) :
             (edges \o pair)[k] = IF k <= Len(edges) THEN edges[k] ELSE pair[k - Len(edges)]
    BY <2>3, <2>4, ConcatProperties
  <2>6. \A k \in 1 .. (2 * n + 2) :
          (edges \o pair)[k] = IF k <= 2 * n THEN edges[k] ELSE pair[k - 2 * n]
    BY <2>3, <2>4, <2>5
  <2>7. /\ \A k \in 1 .. (2 * n) : (edges \o pair)[k] = edges[k]
        /\ (edges \o pair)[2 * n + 1] = pair[1] /\ (edges \o pair)[2 * n + 2] = pair[2]
    <3>1. /\ \A k \in 1 .. (2 * n) : k \in 1 .. (2 * n + 2) /\ k <= 2 * n
          /\ 2 * n + 1 \in 1 .. (2 * n + 2) /\ ~(2 * n + 1 <= 2 * n) /\ (2 * n + 1) - 2 * n = 1
          /\ 2 * n + 2 \in 1 .. (2 * n + 2) /\ ~(2 * n + 2 <= 2 * n) /\ (2 * n + 2) - 2 * n = 2
      BY <1>2
    <3>2. QED
      BY <2>6, <3>1
  <2>8. Len(edges \o pair) = 2 * n + 2
    BY <2>3, <2>4, <2>5
  <2>9. QED
    BY <2>3, <2>5, <2>7, <2>8 DEF Q, first, second
<1> HIDE DEF both
<1>18. EdgesTell(both, longer)
  <2>1. ASSUME NEW i \in 1 .. (n + 1)
        PROVE  both[2 * i - 1] = <<2, TaskNode(i)>> /\ both[2 * i] = <<TaskNode(i), 2 * i + 1>>
    <3>1. CASE i = n + 1
      <4>1. 2 * i - 1 = 2 * n + 1 /\ 2 * i = 2 * n + 2 /\ 2 * i + 1 = 2 * n + 3
        BY <1>2, <3>1
      <4>2. QED
        BY <1>7, <1>17, <3>1, <4>1
    <3>2. CASE i \in 1 .. n
      <4>1. 2 * i - 1 \in 1 .. (2 * n) /\ 2 * i \in 1 .. (2 * n)
        BY <1>2, <3>2
      <4>2. edges[2 * i - 1] = <<2, TaskNode(i)>> /\ edges[2 * i] = <<TaskNode(i), 2 * i + 1>>
        BY <3>2 DEF Remembers, EdgesTell
      <4>3. QED
        BY <1>17, <4>1, <4>2
    <3>3. i = n + 1 \/ i \in 1 .. n
      BY <1>2
    <3>4. QED
      BY <3>1, <3>2, <3>3
  <2>2. Len(both) = 2 * Len(longer)
    BY <1>2, <1>12, <1>17
  <2>3. QED
    BY <1>12, <1>17, <2>1, <2>2 DEF EdgesTell
<1>19. QED
  BY <1>1, <1>12, <1>16, <1>18 DEF Remembers, full, longer, both, told

\* A similar task was done by the agent, so the notes name goals of its runs.
LEMMA NotesAreGoals ==
    ASSUME Remembers(memory, runs)
    PROVE  Loop!Notes \in SUBSET Goal
<1> DEFINE nodes == memory.nodes
           edges == memory.edges
           similar == Loop!find_similar(memory, WordsOf[goal], WordsOf, 3)
           doers == UNION {Loop!predecessors(memory, n) : n \in similar}
           failures(u) == {h \in Loop!Range(Loop!get_agent_history(memory, nodes[u].name)) :
                             h.outcome = "failure"}
<1>1. /\ runs \in Seq(Loop!Outcome) /\ Len(runs) \in Nat
      /\ NodesTell(nodes, runs) /\ EdgesTell(edges, runs)
  BY LenProperties DEF Remembers
<1>2. ASSUME NEW n \in similar PROVE n \in DOMAIN nodes /\ nodes[n].type = "task"
  BY DEF Loop!find_similar
<1>3. ASSUME NEW n \in similar, NEW u \in Loop!predecessors(memory, n)
      PROVE  nodes[u].name = "AutonomousLoop"
  <2>1. PICK j \in 1 .. Len(runs) : n = TaskNode(j)
    BY <1>1, <1>2, KindsOfNodes
  <2>2. PICK k \in 1 .. Len(edges) : edges[k] = <<u, n>>
    <3>1. DOMAIN edges = 1 .. Len(edges)
      BY <1>1, LenProperties DEF EdgesTell
    <3>2. <<u, n>> \in Loop!Range(edges)
      BY DEF Loop!predecessors
    <3>3. QED
      BY <3>1, <3>2 DEF Loop!Range
  <2>3. PICK i \in 1 .. Len(runs) : k = 2 * i - 1 \/ k = 2 * i
    <3>1. k \in 1 .. (2 * Len(runs))
      BY <1>1 DEF EdgesTell
    <3>2. QED
      BY <1>1, <3>1, EdgesAreOfRuns
  <2>4. edges[2 * i - 1] = <<2, TaskNode(i)>> /\ edges[2 * i] = <<TaskNode(i), 2 * i + 1>>
    BY <1>1 DEF EdgesTell
  <2>5. TaskNode(j) # 2 * i + 1
    <3>1. TaskNode(j) = 1 \/ TaskNode(j) = 2 * j
      BY DEF TaskNode
    <3>2. i \in Nat /\ j \in Nat /\ i >= 1
      BY <1>1
    <3>3. QED
      BY <3>1, <3>2
  <2>6. u = 2
    <3>1. CASE k = 2 * i - 1
      <4>1. <<u, n>> = <<2, TaskNode(i)>>
        BY <2>2, <2>4, <3>1
      <4>2. QED
        BY <4>1
    <3>2. CASE k = 2 * i
      <4>1. <<u, n>> = <<TaskNode(i), 2 * i + 1>>
        BY <2>2, <2>4, <3>2
      <4>2. n = 2 * i + 1
        BY <4>1
      <4>3. QED
        BY <2>1, <2>5, <4>2
    <3>3. QED
      BY <2>3, <3>1, <3>2
  <2>7. runs # << >>
    <3>1. Len(runs) # 0
      BY <1>1
    <3>2. QED
      BY <1>1, <3>1, EmptySeq
  <2>8. nodes[2] = Loop!Node("agent", "AutonomousLoop")
    BY <1>1, <2>7 DEF NodesTell
  <2>9. QED
    BY <2>6, <2>8 DEF Loop!Node
<1>4. ASSUME NEW u \in doers PROVE failures(u) \in SUBSET Loop!Outcome
  <2>1. Loop!get_agent_history(memory, "AutonomousLoop") = runs
    BY HistoryIsTold
  <2>2. nodes[u].name = "AutonomousLoop"
    BY <1>3
  <2>3. Loop!get_agent_history(memory, nodes[u].name) = runs
    BY <2>1, <2>2
  <2>4. \A h \in Loop!Range(runs) : h \in Loop!Outcome
    BY <1>1, LenProperties, ElementOfSeq DEF Loop!Range
  <2>5. QED
    BY <2>3, <2>4
<1>5. Loop!Notes = {h.task : h \in UNION {failures(u) : u \in doers}}
  BY DEF Loop!Notes
<1> HIDE DEF doers, failures
<1>6. \A h \in UNION {failures(u) : u \in doers} : h.task \in Goal
  BY <1>4 DEF Loop!Outcome
<1>7. QED
  BY <1>5, <1>6

\* A plan that was revised k times.
Drafted(k, steps) ==
    /\ steps \in Seq(Steps) /\ steps # << >>
    /\ k = 0 => Chained(steps) /\ Drawn(steps)
    /\ k = 1 => Chained(steps)
    /\ k >= 1 => Verified(steps)
    /\ k >= 2 => Doubled(steps)

\* After a revision every echoed criterion is in the plan; after two some
\* criterion is out of reach.
Revisits(k, steps, wanted) ==
    /\ k >= 1 => \A i \in DOMAIN wanted : KindOf[wanted[i]] = "echoed" =>
                   \E j \in DOMAIN steps : steps[j].gap = wanted[i]
    /\ k >= 2 => \E i \in DOMAIN wanted : KindOf[wanted[i]] = "mute"

\* What a revision makes of a plan.
LEMMA PlanIsRevised ==
    ASSUME LoopAssumption, NEW k \in Nat, NEW steps, NEW wanted \in Seq(Criterion),
           Drafted(k, steps), Revisits(k, steps, wanted),
           NEW gaps, gaps = Loop!evaluate(steps, wanted), gaps # << >>,
           NEW new, new = Loop!replan(steps, gaps)
    PROVE  Drafted(k + 1, new) /\ Revisits(k + 1, new, wanted)
<1> DEFINE l == Len(steps)
           n == Len(gaps)
<1>1. steps \in Seq(Steps) /\ steps # << >> /\ gaps \in Seq(Criterion)
  BY GapsAreUnmet DEF Drafted
<1>2. l = Len(steps) /\ n = Len(gaps)
  OBVIOUS
<1> HIDE DEF l, n
<1>3. Revised(steps, gaps, l, n, new)
  BY <1>1, <1>2, Revision
<1>4. /\ l \in Nat \ {0} /\ n \in Nat \ {0} /\ new \in Seq(Steps) /\ new # << >>
      /\ DOMAIN new = 1 .. (l + n + 1) /\ DOMAIN steps = 1 .. l /\ DOMAIN gaps = 1 .. n
      /\ \A i \in 1 .. l : i \in DOMAIN new /\ new[i] = steps[i]
      /\ \A i \in 1 .. n : l + i \in DOMAIN new /\ new[l + i].gap = gaps[i]
  <2>1. /\ l \in Nat \ {0} /\ n \in Nat \ {0} /\ new \in Seq(Steps) /\ Len(new) = l + n + 1
        /\ \A i \in 1 .. l : new[i] = steps[i]
        /\ \A i \in 1 .. n : new[l + i].gap = gaps[i]
    BY <1>3 DEF Revised
  <2>2. DOMAIN new = 1 .. (l + n + 1) /\ DOMAIN steps = 1 .. l /\ DOMAIN gaps = 1 .. n
    BY <1>1, <1>2, <2>1, LenProperties
  <2>3. new # << >>
    BY <2>1, EmptySeq
  <2>4. /\ \A i \in 1 .. l : i \in 1 .. (l + n + 1)
        /\ \A i \in 1 .. n : l + i \in 1 .. (l + n + 1)
    BY <2>1
  <2>5. QED
    BY <2>1, <2>2, <2>3, <2>4
<1>5. /\ Verified(new) /\ (Verified(steps) => Doubled(new))
      /\ Chained(steps) /\ Drawn(steps) => Chained(new)
  BY <1>1, RevisionDoubles, RevisionChains
<1>6. Drafted(k + 1, new)
  <2>1. /\ k + 1 = 1 => k = 0
        /\ k + 1 >= 2 => k >= 1
        /\ ~(k + 1 = 0)
    OBVIOUS
  <2>2. QED
    BY <1>4, <1>5, <2>1 DEF Drafted
<1>7. /\ \A i \in DOMAIN gaps : \E j \in DOMAIN wanted :
           gaps[i] = wanted[j] /\ ~Loop!check_criterion(steps, wanted[j])
      /\ \A j \in DOMAIN wanted : ~Loop!check_criterion(steps, wanted[j]) =>
           \E i \in DOMAIN gaps : gaps[i] = wanted[j]
  BY GapsAreUnmet
<1>8. ASSUME NEW i \in DOMAIN wanted, KindOf[wanted[i]] = "echoed"
      PROVE  \E j \in DOMAIN new : new[j].gap = wanted[i]
  <2>1. CASE Loop!check_criterion(steps, wanted[i])
    <3>1. PICK j \in DOMAIN steps : steps[j].gap = wanted[i]
      BY <1>8, <2>1 DEF Loop!check_criterion
    <3>2. QED
      BY <1>4, <3>1
  <2>2. CASE ~Loop!check_criterion(steps, wanted[i])
    <3>1. PICK j \in DOMAIN gaps : gaps[j] = wanted[i]
      BY <1>7, <2>2
    <3>2. QED
      BY <1>4, <3>1
  <2>3. QED
    BY <2>1, <2>2
<1>9. ASSUME k + 1 >= 2 PROVE \E i \in DOMAIN wanted : KindOf[wanted[i]] = "mute"
  <2>1. 1 \in DOMAIN gaps
    BY <1>4
  <2>2. PICK i \in DOMAIN wanted : ~Loop!check_criterion(steps, wanted[i])
    BY <1>7, <2>1
  <2>3. KindOf[wanted[i]] # "stated" /\ KindOf[wanted[i]] # "echoed"
    BY <1>9, <2>2 DEF Loop!check_criterion, Revisits
  <2>4. wanted[i] \in Criterion
    BY LenProperties, ElementOfSeq
  <2>5. QED
    BY <2>3, <2>4 DEF LoopAssumption
<1>10. QED
  BY <1>6, <1>8, <1>9 DEF Revisits

\* After a revision a gap that is left is out of reach, and after two one is left.
LEMMA GapsAreMute ==
    ASSUME LoopAssumption, NEW k \in Nat, NEW steps, NEW wanted \in Seq(Criterion),
           Revisits(k, steps, wanted), NEW gaps, gaps = Loop!evaluate(steps, wanted)
    PROVE  /\ k >= 1 => \A i \in DOMAIN gaps : KindOf[gaps[i]] = "mute"
           /\ k >= 2 => gaps # << >>
<1>1. /\ \A i \in DOMAIN gaps : \E j \in DOMAIN wanted :
           gaps[i] = wanted[j] /\ ~Loop!check_criterion(steps, wanted[j])
      /\ \A j \in DOMAIN wanted : ~Loop!check_criterion(steps, wanted[j]) =>
           \E i \in DOMAIN gaps : gaps[i] = wanted[j]
  BY GapsAreUnmet
<1>2. ASSUME k >= 1, NEW i \in DOMAIN gaps PROVE KindOf[gaps[i]] = "mute"
  <2>1. PICK j \in DOMAIN wanted :
          gaps[i] = wanted[j] /\ ~Loop!check_criterion(steps, wanted[j])
    BY <1>1
  <2>2. KindOf[wanted[j]] # "stated" /\ KindOf[wanted[j]] # "echoed"
    BY <1>2, <2>1 DEF Loop!check_criterion, Revisits
  <2>3. wanted[j] \in Criterion
    BY LenProperties, ElementOfSeq
  <2>4. QED
    BY <2>1, <2>2, <2>3 DEF LoopAssumption
<1>3. ASSUME k >= 2 PROVE gaps # << >>
  <2>1. PICK j \in DOMAIN wanted : KindOf[wanted[j]] = "mute"
    BY <1>3 DEF Revisits
  <2>2. ~Loop!check_criterion(steps, wanted[j])
    BY <2>1 DEF Loop!check_criterion
  <2>3. DOMAIN gaps # {}
    BY <1>1, <2>2
  <2>4. QED
    BY <2>3
<1>4. QED
  BY <1>2, <1>3

\* The parts of the invariant: the plan of a run, what is remembered of the runs
\* that ended, what the file holds of them, and what the caller was told.
Planning(p, k, steps, wanted, gaps) ==
    /\ p = "attempt" => Drafted(k, steps) /\ Revisits(k, steps, wanted)
    /\ p = "reflected" => /\ k >= 1 /\ Drafted(k - 1, steps) /\ Revisits(k - 1, steps, wanted)
                          /\ gaps = Loop!evaluate(steps, wanted)
Remembered(graph, history, p) ==
    /\ Remembers(graph, history) /\ Len(history) <= MaxRuns
    /\ p \in {"attempt", "reflected"} => Len(history) < MaxRuns
Filed(s, kept) == s = "whole" => Remembered(kept.graph, kept.runs, "idle")
Reported(told, wished, history) ==
    /\ told.status # "none" =>
         /\ history # << >> /\ history[Len(history)].task = wished
         /\ history[Len(history)].outcome = IF told.status = "success" THEN "success" ELSE "failure"
    /\ told.status = "success" => told.attempts <= 2

LoopInv ==
    /\ Loop!TypeOK
    /\ Planning(phase, attempt, blueprint, criteria, reflection.gaps)
    /\ Remembered(memory, runs, phase)
    /\ Filed(saved, stored)
    /\ Reported(returned, goal, runs)

LEMMA GraphFits ==
    ASSUME LoopAssumption, NEW graph, NEW history, NEW p, Remembered(graph, history, p)
    PROVE  /\ Len(graph.nodes) <= 3 * MaxRuns /\ history \in Seq(Loop!Outcome)
           /\ Remembered(graph, history, "idle") /\ Len(history) \in Nat
<1>1. /\ Len(history) \in Nat /\ Len(history) <= MaxRuns /\ MaxRuns \in Nat
      /\ Len(graph.nodes) = NodesAfter(Len(history))
  BY LenProperties DEF Remembered, Remembers, NodesTell, LoopAssumption
<1>2. NodesAfter(Len(history)) <= 3 * MaxRuns
  BY <1>1 DEF NodesAfter
<1>3. QED
  BY <1>1, <1>2 DEF Remembered, Remembers

LEMMA LoopInit == LoopAssumption /\ Loop!Init => LoopInv
<1> SUFFICES ASSUME LoopAssumption, Loop!Init PROVE LoopInv
  OBVIOUS
<1> DEFINE nil == << >>
<1>1. /\ memory = Loop!NoGraph /\ saved = "missing" /\ runs = nil /\ phase = "idle"
      /\ goal \in Goal /\ criteria = nil /\ retries \in Retries /\ attempt = 0
      /\ reflection = Loop!Unbound /\ returned = Loop!NoResult
  BY DEF Loop!Init
<1>2. /\ nil \in Seq(Criterion) /\ nil \in Seq(Loop!Outcome) /\ Len(nil) = 0
  OBVIOUS
<1>3. Remembers(memory, runs)
  BY <1>1, NothingIsRemembered
<1> HIDE DEF nil
<1>4. Remembered(memory, runs, phase)
  BY <1>1, <1>2, <1>3 DEF Remembered, LoopAssumption
<1>5. Planning(phase, attempt, blueprint, criteria, reflection.gaps)
  BY <1>1 DEF Planning
<1>6. Filed(saved, stored)
  BY <1>1 DEF Filed
<1>7. Reported(returned, goal, runs)
  BY <1>1 DEF Reported, Loop!NoResult
<1>8. Len(memory.nodes) <= 3 * MaxRuns
  BY <1>4, GraphFits
<1>9. reflection.notes = {} /\ reflection.gaps = nil
  BY <1>1 DEF Loop!Unbound, nil
<1>10. returned.status = "none" /\ retries \in Nat
  BY <1>1 DEF Loop!NoResult, LoopAssumption
<1>11. Loop!TypeOK
  BY <1>1, <1>2, <1>8, <1>9, <1>10 DEF Loop!TypeOK
<1>12. QED
  BY <1>4, <1>5, <1>6, <1>7, <1>11 DEF LoopInv

\* A run starts with a plan that is a chain.
LEMMA LoopRuns ==
    ASSUME LoopAssumption, LoopInv, NEW g \in Goal, NEW max \in Retries,
           NEW wanted \in UNION {[1 .. n -> Criterion] : n \in 0 .. 2}, Loop!run(g, wanted, max)
    PROVE  LoopInv'
<1>1. /\ phase = "idle" /\ Len(runs) < MaxRuns
      /\ goal' = g /\ criteria' = wanted /\ retries' = max
      /\ blueprint' = Loop!plan(LengthOf[g]) /\ phase' = "attempt" /\ attempt' = 0
      /\ reflection' = Loop!Unbound /\ returned' = Loop!NoResult
      /\ memory' = memory /\ saved' = saved /\ stored' = stored /\ runs' = runs
  BY DEF Loop!run, Loop!persisted
<1>2. /\ Loop!TypeOK /\ Remembered(memory, runs, phase) /\ Filed(saved, stored)
  BY DEF LoopInv
<1>3. wanted \in Seq(Criterion)
  <2>1. PICK n \in 0 .. 2 : wanted \in [1 .. n -> Criterion]
    OBVIOUS
  <2>2. n \in Nat
    OBVIOUS
  <2>3. QED
    BY <2>1, <2>2, IsASeq
<1>4. Drafted(0, blueprint')
  <2> DEFINE steps == Loop!plan(LengthOf[g])
  <2>1. LengthOf[g] \in Nat \ {0}
    BY DEF LoopAssumption
  <2>2. steps \in Seq(Steps) /\ Chained(steps) /\ Drawn(steps)
    BY <2>1, PlanIsChain
  <2> HIDE DEF steps
  <2>3. steps # << >>
    BY <2>2 DEF Chained
  <2>4. Drafted(0, steps)
    BY <2>2, <2>3 DEF Drafted
  <2>5. QED
    BY <1>1, <2>4 DEF steps
<1>5. Revisits(0, blueprint', criteria')
  BY DEF Revisits
<1>6. Planning(phase', attempt', blueprint', criteria', reflection'.gaps)
  BY <1>1, <1>4, <1>5 DEF Planning
<1>7. Remembered(memory', runs', phase')
  BY <1>1, <1>2 DEF Remembered
<1>8. Filed(saved', stored')
  BY <1>1, <1>2
<1>9. Reported(returned', goal', runs')
  BY <1>1 DEF Reported, Loop!NoResult
<1>10. Loop!TypeOK'
  <2>1. max \in Nat
    BY DEF LoopAssumption
  <2>2. /\ reflection'.notes = {} /\ reflection'.gaps \in Seq(Criterion)
        /\ returned'.status = "none"
    BY <1>1 DEF Loop!Unbound, Loop!NoResult
  <2>3. QED
    BY <1>1, <1>2, <1>3, <2>1, <2>2 DEF Loop!TypeOK
<1>11. QED
  BY <1>6, <1>7, <1>8, <1>9, <1>10 DEF LoopInv

\* A reflection lists the gaps of the plan.
LEMMA LoopReflects == ASSUME LoopAssumption, LoopInv, Loop!reflect PROVE LoopInv'
<1>1. /\ phase = "attempt" /\ attempt < retries /\ attempt' = attempt + 1
      /\ phase' = "reflected"
      /\ reflection' = [gaps |-> Loop!evaluate(blueprint, criteria), notes |-> Loop!Notes,
                        bound |-> TRUE]
      /\ memory' = memory /\ saved' = saved /\ stored' = stored
      /\ goal' = goal /\ criteria' = criteria /\ retries' = retries /\ blueprint' = blueprint
      /\ returned' = returned /\ runs' = runs
  BY DEF Loop!reflect, Loop!persisted, Loop!call
<1>2. /\ Loop!TypeOK /\ Remembered(memory, runs, phase) /\ Filed(saved, stored)
      /\ Reported(returned, goal, runs)
      /\ Planning(phase, attempt, blueprint, criteria, reflection.gaps)
  BY DEF LoopInv
<1>3. criteria \in Seq(Criterion) /\ attempt \in Nat /\ retries \in Nat
  BY <1>2 DEF Loop!TypeOK, LoopAssumption
<1>4. Loop!Notes \in SUBSET Goal
  BY <1>2, NotesAreGoals DEF Remembered
<1> DEFINE gaps == Loop!evaluate(blueprint, criteria)
           notes == Loop!Notes
<1>5. gaps \in Seq(Criterion)
  BY <1>3, GapsAreUnmet
<1> HIDE DEF gaps, notes
<1>6. reflection'.gaps = gaps /\ reflection'.notes = notes
  BY <1>1 DEF gaps, notes
<1>7. attempt' >= 1 /\ attempt' - 1 = attempt
  BY <1>1, <1>3
<1>8. Planning(phase', attempt', blueprint', criteria', reflection'.gaps)
  <2>1. Drafted(attempt, blueprint) /\ Revisits(attempt, blueprint, criteria)
    BY <1>1, <1>2 DEF Planning
  <2>2. QED
    BY <1>1, <1>6, <1>7, <2>1 DEF Planning, gaps
<1>9. Remembered(memory', runs', phase')
  BY <1>1, <1>2 DEF Remembered
<1>10. Filed(saved', stored') /\ Reported(returned', goal', runs')
  BY <1>1, <1>2
<1>11. Loop!TypeOK'
  <2>1. notes \in SUBSET Goal /\ attempt' \in 0 .. retries'
    BY <1>1, <1>2, <1>3, <1>4 DEF notes, Loop!TypeOK
  <2>2. QED
    BY <1>1, <1>2, <1>5, <1>6, <2>1 DEF Loop!TypeOK
<1>12. QED
  BY <1>8, <1>9, <1>10, <1>11 DEF LoopInv

\* A replan revises the plan.
LEMMA LoopReplans == ASSUME LoopAssumption, LoopInv, Loop!Replan PROVE LoopInv'
<1>1. /\ phase = "reflected" /\ reflection.gaps # << >>
      /\ blueprint' = Loop!replan(blueprint, reflection.gaps) /\ phase' = "attempt"
      /\ memory' = memory /\ saved' = saved /\ stored' = stored
      /\ goal' = goal /\ criteria' = criteria /\ retries' = retries /\ attempt' = attempt
      /\ reflection' = reflection /\ returned' = returned /\ runs' = runs
  BY DEF Loop!Replan, Loop!persisted, Loop!call
<1>2. /\ Loop!TypeOK /\ Remembered(memory, runs, phase) /\ Filed(saved, stored)
      /\ Reported(returned, goal, runs)
      /\ Planning(phase, attempt, blueprint, criteria, reflection.gaps)
  BY DEF LoopInv
<1> DEFINE k == attempt - 1
           gaps == reflection.gaps
           new == Loop!replan(blueprint, gaps)
<1>3. /\ attempt >= 1 /\ Drafted(k, blueprint) /\ Revisits(k, blueprint, criteria)
      /\ gaps = Loop!evaluate(blueprint, criteria)
  BY <1>1, <1>2 DEF Planning
<1>4. criteria \in Seq(Criterion) /\ k \in Nat /\ k + 1 = attempt
  BY <1>2, <1>3 DEF Loop!TypeOK, LoopAssumption
<1>5. gaps # << >> /\ new = Loop!replan(blueprint, gaps) /\ blueprint' = new
  BY <1>1
<1> HIDE DEF k, gaps, new
<1>6. Drafted(k + 1, new) /\ Revisits(k + 1, new, criteria)
  BY <1>3, <1>4, <1>5, PlanIsRevised
<1>7. Planning(phase', attempt', blueprint', criteria', reflection'.gaps)
  BY <1>1, <1>4, <1>5, <1>6 DEF Planning
<1>8. Remembered(memory', runs', phase')
  BY <1>1, <1>2 DEF Remembered
<1>9. Filed(saved', stored') /\ Reported(returned', goal', runs')
  BY <1>1, <1>2
<1>10. Loop!TypeOK'
  BY <1>1, <1>2 DEF Loop!TypeOK
<1>11. QED
  BY <1>7, <1>8, <1>9, <1>10 DEF LoopInv

\* The end of a run is remembered.
LEMMA RunEnds ==
    ASSUME Remembered(memory, runs, phase), phase \in {"attempt", "reflected"}, goal \in Goal,
           NEW o \in {"success", "failure"}, Loop!record_outcome(o), LoopAssumption
    PROVE  /\ Remembered(memory', runs', "idle") /\ runs' # << >>
           /\ runs'[Len(runs')].task = goal /\ runs'[Len(runs')].outcome = o
<1> DEFINE told == [task |-> goal, outcome |-> o]
           longer == Append(runs, told)
           new == Loop!record_task(memory, goal, "AutonomousLoop", o)
<1>1. memory' = new /\ runs' = longer
  BY DEF Loop!record_outcome
<1>2. Remembers(memory, runs) /\ Len(runs) < MaxRuns /\ runs \in Seq(Loop!Outcome)
  BY DEF Remembered, Remembers
<1>3. Remembers(new, longer)
  BY <1>2, RunIsRecorded
<1>4. told \in Loop!Outcome /\ told.task = goal /\ told.outcome = o
  BY DEF Loop!Outcome
<1> HIDE DEF told, new
<1>5. /\ longer # << >> /\ Len(longer) = Len(runs) + 1 /\ longer[Len(runs) + 1] = told
  BY <1>2, <1>4, AppendProperties
<1>6. Len(runs) \in Nat /\ MaxRuns \in Nat
  BY <1>2, LenProperties DEF LoopAssumption
<1> HIDE DEF longer
<1>7. Len(longer) <= MaxRuns /\ longer[Len(longer)] = told
  BY <1>2, <1>5, <1>6
<1>8. Remembered(new, longer, "idle")
  BY <1>3, <1>7 DEF Remembered
<1>9. QED
  BY <1>1, <1>4, <1>5, <1>7, <1>8

\* A run that succeeds does so in its first attempt or its second.
LEMMA LoopSucceeds == ASSUME LoopAssumption, LoopInv, Loop!Succeed PROVE LoopInv'
<1>1. /\ phase = "reflected" /\ reflection.gaps = << >> /\ Loop!record_outcome("success")
      /\ returned' = [status |-> "success", attempts |-> attempt, gaps |-> << >>]
      /\ phase' = "idle" /\ saved' = saved /\ stored' = stored
      /\ goal' = goal /\ criteria' = criteria /\ retries' = retries /\ attempt' = attempt
      /\ reflection' = reflection
  BY DEF Loop!Succeed, Loop!persisted, Loop!call
<1>2. /\ Loop!TypeOK /\ Remembered(memory, runs, phase) /\ Filed(saved, stored)
      /\ Planning(phase, attempt, blueprint, criteria, reflection.gaps)
  BY DEF LoopInv
<1>3. goal \in Goal /\ criteria \in Seq(Criterion) /\ attempt \in Nat
  BY <1>2 DEF Loop!TypeOK, LoopAssumption
<1>4. /\ Remembered(memory', runs', "idle") /\ runs' # << >>
      /\ runs'[Len(runs')].task = goal /\ runs'[Len(runs')].outcome = "success"
  BY <1>1, <1>2, <1>3, RunEnds
<1>5. attempt <= 2
  <2> DEFINE k == attempt - 1
             gaps == reflection.gaps
  <2>1. k \in Nat /\ Revisits(k, blueprint, criteria) /\ gaps = Loop!evaluate(blueprint, criteria)
    BY <1>1, <1>2, <1>3 DEF Planning
  <2>2. gaps = << >>
    BY <1>1
  <2> HIDE DEF k, gaps
  <2>3. ~(k >= 2)
    BY <1>3, <2>1, <2>2, GapsAreMute
  <2>4. QED
    BY <1>3, <2>3 DEF k
<1>6. Planning(phase', attempt', blueprint', criteria', reflection'.gaps)
  BY <1>1 DEF Planning
<1>7. returned'.status = "success" /\ returned'.attempts = attempt
  BY <1>1
<1>8. Reported(returned', goal', runs')
  BY <1>1, <1>4, <1>5, <1>7 DEF Reported
<1>9. Remembered(memory', runs', phase') /\ Filed(saved', stored')
  BY <1>1, <1>2, <1>4
<1>10. Loop!TypeOK'
  <2>1. Len(memory'.nodes) <= 3 * MaxRuns /\ runs' \in Seq(Loop!Outcome)
    BY <1>4, GraphFits
  <2>2. QED
    BY <1>1, <1>2, <1>7, <2>1 DEF Loop!TypeOK, Loop!Outcome
<1>11. QED
  BY <1>6, <1>8, <1>9, <1>10 DEF LoopInv

LEMMA LoopExhausts == ASSUME LoopAssumption, LoopInv, Loop!Exhausted PROVE LoopInv'
<1> DEFINE ends == IF reflection.bound THEN "max_retries" ELSE "raised"
<1>1. /\ phase = "attempt" /\ Loop!record_outcome("failure")
      /\ returned' = [status |-> ends, attempts |-> retries, gaps |-> reflection.gaps]
      /\ phase' = "idle" /\ saved' = saved /\ stored' = stored
      /\ goal' = goal /\ criteria' = criteria /\ retries' = retries /\ attempt' = attempt
      /\ reflection' = reflection
  BY DEF Loop!Exhausted, Loop!persisted, Loop!call
<1>2. /\ Loop!TypeOK /\ Remembered(memory, runs, phase) /\ Filed(saved, stored)
  BY DEF LoopInv
<1>3. goal \in Goal
  BY <1>2 DEF Loop!TypeOK
<1>4. /\ Remembered(memory', runs', "idle") /\ runs' # << >>
      /\ runs'[Len(runs')].task = goal /\ runs'[Len(runs')].outcome = "failure"
  BY <1>1, <1>2, <1>3, RunEnds
<1>5. Planning(phase', attempt', blueprint', criteria', reflection'.gaps)
  BY <1>1 DEF Planning
<1>6. ends \in {"max_retries", "raised"}
  OBVIOUS
<1> HIDE DEF ends
<1>7. returned'.status = ends
  BY <1>1
<1>8. Reported(returned', goal', runs')
  BY <1>1, <1>4, <1>6, <1>7 DEF Reported
<1>9. Remembered(memory', runs', phase') /\ Filed(saved', stored')
  BY <1>1, <1>2, <1>4
<1>10. Loop!TypeOK'
  <2>1. Len(memory'.nodes) <= 3 * MaxRuns /\ runs' \in Seq(Loop!Outcome)
    BY <1>4, GraphFits
  <2>2. QED
    BY <1>1, <1>2, <1>6, <1>7, <2>1 DEF Loop!TypeOK, Loop!Outcome
<1>11. QED
  BY <1>5, <1>8, <1>9, <1>10 DEF LoopInv

\* A file that is whole holds what a process remembered; a new one takes it up.
LEMMA LoopSaves ==
    ASSUME LoopAssumption, LoopInv, NEW kept \in {"empty", "torn", "whole"}, Loop!save(kept)
    PROVE  LoopInv'
<1>1. /\ phase = "idle" /\ memory' = memory /\ goal' = goal /\ criteria' = criteria
      /\ retries' = retries /\ attempt' = attempt /\ blueprint' = blueprint
      /\ reflection' = reflection /\ returned' = returned /\ runs' = runs
      /\ \/ /\ saved' = "whole" /\ phase' = phase
            /\ stored' = [graph |-> memory, runs |-> runs]
         \/ saved' \in {"empty", "torn"} /\ phase' = "stopped" /\ stored' = stored
  BY DEF Loop!save, Loop!call
<1>2. /\ Loop!TypeOK /\ Remembered(memory, runs, phase) /\ Reported(returned, goal, runs)
  BY DEF LoopInv
<1>3. Planning(phase', attempt', blueprint', criteria', reflection'.gaps)
  BY <1>1 DEF Planning
<1>4. Remembered(memory', runs', phase') /\ Remembered(memory, runs, "idle")
  BY <1>1, <1>2 DEF Remembered
<1>5. Filed(saved', stored')
  <2>1. CASE saved' = "whole" /\ stored' = [graph |-> memory, runs |-> runs]
    <3>1. stored'.graph = memory /\ stored'.runs = runs
      BY <2>1
    <3>2. QED
      BY <1>4, <3>1 DEF Filed
  <2>2. CASE saved' \in {"empty", "torn"}
    BY <2>2 DEF Filed
  <2>3. QED
    BY <1>1, <2>1, <2>2
<1>6. Reported(returned', goal', runs')
  BY <1>1, <1>2
<1>7. Loop!TypeOK'
  BY <1>1, <1>2 DEF Loop!TypeOK, Loop!Outcome
<1>8. QED
  BY <1>3, <1>4, <1>5, <1>6, <1>7 DEF LoopInv

LEMMA LoopLoads == ASSUME LoopAssumption, LoopInv, Loop!load PROVE LoopInv'
<1> DEFINE nil == << >>
<1>1. /\ phase' \in {"idle", "stopped"} /\ attempt' = 0 /\ reflection' = Loop!Unbound
      /\ returned' = Loop!NoResult /\ saved' = saved /\ stored' = stored
      /\ goal' = goal /\ criteria' = criteria /\ retries' = retries
      /\ \/ saved = "whole" /\ memory' = stored.graph /\ runs' = stored.runs
         \/ memory' = Loop!NoGraph /\ runs' = nil
  <2>1. CASE saved = "whole"
    BY <2>1 DEF Loop!load, Loop!persisted, Loop!call
  <2>2. CASE saved # "whole"
    BY <2>2 DEF Loop!load, Loop!persisted, Loop!call
  <2>3. QED
    BY <2>1, <2>2
<1>2. Loop!TypeOK /\ Filed(saved, stored)
  BY DEF LoopInv
<1>3. Remembered(memory', runs', "idle")
  <2>1. CASE saved = "whole" /\ memory' = stored.graph /\ runs' = stored.runs
    BY <1>2, <2>1 DEF Filed
  <2>2. CASE memory' = Loop!NoGraph /\ runs' = nil
    <3>1. Remembers(memory', runs') /\ Len(runs') = 0
      BY <2>2, NothingIsRemembered
    <3>2. QED
      BY <3>1 DEF Remembered, LoopAssumption
  <2>3. QED
    BY <1>1, <2>1, <2>2
<1>4. Remembered(memory', runs', phase')
  BY <1>1, <1>3 DEF Remembered
<1>5. Planning(phase', attempt', blueprint', criteria', reflection'.gaps)
  BY <1>1 DEF Planning
<1>6. Filed(saved', stored')
  BY <1>1, <1>2
<1>7. Reported(returned', goal', runs')
  BY <1>1 DEF Reported, Loop!NoResult
<1>8. Loop!TypeOK'
  <2>1. Len(memory'.nodes) <= 3 * MaxRuns /\ runs' \in Seq(Loop!Outcome)
    BY <1>3, GraphFits
  <2>2. /\ reflection'.notes = {} /\ reflection'.gaps \in Seq(Criterion)
        /\ returned'.status = "none" /\ retries \in Nat
    BY <1>1, <1>2 DEF Loop!Unbound, Loop!NoResult, Loop!TypeOK, LoopAssumption
  <2>3. QED
    BY <1>1, <1>2, <2>1, <2>2 DEF Loop!TypeOK, Loop!Outcome
<1>9. QED
  BY <1>4, <1>5, <1>6, <1>7, <1>8 DEF LoopInv

LEMMA LoopStep == LoopAssumption /\ LoopInv /\ [Loop!Next]_(Loop!loopVars) => LoopInv'
<1> SUFFICES ASSUME LoopAssumption, LoopInv, [Loop!Next]_(Loop!loopVars) PROVE LoopInv'
  OBVIOUS
<1>1. CASE UNCHANGED Loop!loopVars
  <2>1. /\ memory' = memory /\ saved' = saved /\ stored' = stored /\ phase' = phase
        /\ goal' = goal /\ criteria' = criteria /\ retries' = retries /\ attempt' = attempt
        /\ blueprint' = blueprint /\ reflection' = reflection /\ returned' = returned
        /\ runs' = runs
    BY <1>1 DEF Loop!loopVars
  <2>2. Loop!TypeOK'
    BY <2>1 DEF LoopInv, Loop!TypeOK
  <2>3. QED
    BY <2>1, <2>2 DEF LoopInv
<1>2. CASE Loop!Next
  BY <1>2, LoopRuns, LoopReflects, LoopReplans, LoopSucceeds, LoopExhausts, LoopSaves, LoopLoads
     DEF Loop!Next
<1>3. QED
  BY <1>1, <1>2

LEMMA LoopTrue ==
    LoopAssumption /\ LoopInv => Loop!TypeOK /\ Loop!RunsAreRemembered /\ Loop!RetriesAreVain
<1> SUFFICES ASSUME LoopAssumption, LoopInv
             PROVE  Loop!TypeOK /\ Loop!RunsAreRemembered /\ Loop!RetriesAreVain
  OBVIOUS
<1>1. /\ Loop!TypeOK /\ Remembered(memory, runs, phase) /\ Reported(returned, goal, runs)
      /\ Planning(phase, attempt, blueprint, criteria, reflection.gaps)
  BY DEF LoopInv
<1>2. criteria \in Seq(Criterion) /\ attempt \in Nat
  BY <1>1 DEF Loop!TypeOK, LoopAssumption
<1>3. Loop!get_agent_history(memory, "AutonomousLoop") = runs
  BY <1>1, HistoryIsTold DEF Remembered
<1>4. Loop!RunsAreRemembered
  BY <1>1, <1>3 DEF Loop!RunsAreRemembered, Reported
<1>5. ASSUME phase = "attempt" PROVE Loop!Ordered(blueprint) <=> attempt <= 1
  <2>1. Drafted(attempt, blueprint)
    BY <1>1, <1>5 DEF Planning
  <2>2. CASE attempt <= 1
    <3>1. attempt = 0 \/ attempt = 1
      BY <1>2, <2>2
    <3>2. Chained(blueprint)
      BY <2>1, <3>1 DEF Drafted
    <3>3. QED
      BY <2>2, <3>2, ChainIsOrdered
  <2>3. CASE ~(attempt <= 1)
    <3>1. attempt >= 2
      BY <1>2, <2>3
    <3>2. Doubled(blueprint)
      BY <2>1, <3>1 DEF Drafted
    <3>3. QED
      BY <2>3, <3>2, DoubledIsNotOrdered
  <2>4. QED
    BY <2>2, <2>3
<1>6. ASSUME attempt > 1, phase = "reflected"
      PROVE  \A i \in DOMAIN reflection.gaps : KindOf[reflection.gaps[i]] = "mute"
  <2> DEFINE k == attempt - 1
             gaps == reflection.gaps
  <2>1. k \in Nat /\ k >= 1
    BY <1>2, <1>6
  <2>2. Revisits(k, blueprint, criteria) /\ gaps = Loop!evaluate(blueprint, criteria)
    BY <1>1, <1>6 DEF Planning
  <2> HIDE DEF k, gaps
  <2>3. \A i \in DOMAIN gaps : KindOf[gaps[i]] = "mute"
    BY <1>2, <2>1, <2>2, GapsAreMute
  <2>4. QED
    BY <2>3 DEF gaps
<1>7. Loop!RetriesAreVain
  BY <1>1, <1>5, <1>6 DEF Loop!RetriesAreVain, Reported
<1>8. QED
  BY <1>1, <1>4, <1>7

-------------------------------------------------------------------------------
(* The tournament.                                                             *)

\* A sum unfolds at any of its elements.
Sums(f, D) ==
    {h \in [SUBSET D -> Int] :
       /\ h[{}] = 0 /\ Tournament!Total(f) = h[D]
       /\ \A s \in SUBSET D : \A x \in s : h[s] = f[x] + h[s \ {x}]}

First(s) == CHOOSE x \in s : TRUE

\* The fold, which takes the elements in the order of a choice, is such a sum.
LEMMA TotalFolds ==
    ASSUME NEW D, IsFiniteSet(D), NEW f \in [D -> Int]
    PROVE  \E h \in [SUBSET D -> Int] :
             /\ \A s \in SUBSET D : h[s] = IF s = {} THEN 0 ELSE f[First(s)] + h[s \ {First(s)}]
             /\ Tournament!Total(f) = h[D]
<1> DEFINE pick == [s \in SUBSET D |-> First(s)]
           combine == [p \in (SUBSET D) \X Int |-> f[First(p[1])] + p[2]]
           iter == CHOOSE h : h = [s \in SUBSET D |->
                                     IF s = {} THEN 0 ELSE f[First(s)] + h[s \ {First(s)}]]
<1>1. \A s \in SUBSET D : s # {} => First(s) \in s
  BY DEF First
<1>2. PICK h \in [SUBSET D -> Int] : \A s \in SUBSET D :
             h[s] = IF s = {} THEN 0 ELSE combine[<<s, h[s \ {pick[s]}]>>]
  <2> DEFINE V == Int
             zero == 0
  <2>1. \A s \in SUBSET D, v \in V : s # {} => combine[<<s, v>>] \in V
    BY <1>1
  <2>2. \A s \in SUBSET D : s # {} => pick[s] \in s
    BY <1>1
  <2>3. zero \in V
    OBVIOUS
  <2> HIDE DEF combine, pick, V, zero
  <2>4. Solutions(D, V, zero, pick, combine) # {}
    BY <2>1, <2>2, <2>3, RecursionSolves
  <2>5. QED
    BY <2>4 DEF V, zero, Solutions
<1>3. h = [s \in SUBSET D |-> IF s = {} THEN 0 ELSE f[First(s)] + h[s \ {First(s)}]]
  BY <1>2
<1>4. iter = [s \in SUBSET D |-> IF s = {} THEN 0 ELSE f[First(s)] + iter[s \ {First(s)}]]
  <2> HIDE DEF iter
  <2>1. QED
    BY <1>3 DEF iter
<1>5. Tournament!Total(f) = iter[D]
  BY DEF Tournament!Total, Tournament!FoldFunction, Tournament!FoldFunctionOnSet,
         Tournament!MapThenFoldSet, First
<1> HIDE DEF iter
<1>6. {s \in SUBSET D : iter[s] = h[s]} = SUBSET D
  <2> DEFINE G == {s \in SUBSET D : iter[s] = h[s]}
  <2>1. {} \in G
    BY <1>3, <1>4
  <2>2. ASSUME NEW s \in SUBSET D, s # {}, \A x \in s : s \ {x} \in G PROVE s \in G
    BY <1>1, <1>3, <1>4, <2>2
  <2>3. G \in SUBSET (SUBSET D)
    OBVIOUS
  <2> HIDE DEF G
  <2>4. G = SUBSET D
    BY <2>1, <2>2, <2>3, SubsetInduction
  <2>5. QED
    BY <2>4 DEF G
<1>7. iter[D] = h[D]
  BY <1>6
<1>8. \A s \in SUBSET D : h[s] = IF s = {} THEN 0 ELSE f[First(s)] + h[s \ {First(s)}]
  BY <1>3
<1> HIDE DEF combine
<1>9. QED
  BY <1>5, <1>7, <1>8

\* The order of that choice does not matter.
LEMMA TotalIsSum ==
    ASSUME NEW D, IsFiniteSet(D), NEW f \in [D -> Int]
    PROVE  Sums(f, D) # {}
<1>1. PICK h \in [SUBSET D -> Int] :
             /\ \A s \in SUBSET D : h[s] = IF s = {} THEN 0 ELSE f[First(s)] + h[s \ {First(s)}]
             /\ Tournament!Total(f) = h[D]
  BY TotalFolds
<1> DEFINE G == {s \in SUBSET D : \A x \in s : h[s] = f[x] + h[s \ {x}]}
<1>2. ASSUME NEW s \in SUBSET D, s # {}, \A x \in s : s \ {x} \in G PROVE s \in G
  <2> DEFINE p == First(s)
  <2>1. p \in s /\ h[s] = f[p] + h[s \ {p}]
    BY <1>1, <1>2 DEF First
  <2> HIDE DEF p
  <2>2. ASSUME NEW x \in s, x # p PROVE h[s] = f[x] + h[s \ {x}]
    <3>1. x \in s \ {p} /\ p \in s \ {x} /\ (s \ {p}) \ {x} = (s \ {x}) \ {p}
      BY <2>1, <2>2
    <3>2. h[s \ {p}] = f[x] + h[(s \ {p}) \ {x}]
      BY <1>2, <2>1, <3>1
    <3>3. h[s \ {x}] = f[p] + h[(s \ {x}) \ {p}]
      BY <1>2, <3>1
    <3>4. h[(s \ {x}) \ {p}] \in Int /\ f[x] \in Int /\ f[p] \in Int
      BY <2>1
    <3> DEFINE u == h[(s \ {x}) \ {p}]
               v == h[s \ {p}]
               w == h[s \ {x}]
    <3>5. v = f[x] + u /\ w = f[p] + u /\ h[s] = f[p] + v /\ u \in Int
      BY <2>1, <3>1, <3>2, <3>3, <3>4
    <3>6. f[x] \in Int /\ f[p] \in Int
      BY <3>4
    <3> HIDE DEF u, v, w
    <3>7. h[s] = f[x] + w
      BY <3>5, <3>6
    <3>8. QED
      BY <3>7 DEF w
  <2>3. QED
    BY <2>1, <2>2
<1>3. {} \in G /\ G \in SUBSET (SUBSET D)
  OBVIOUS
<1>4. G = SUBSET D
  <2> HIDE DEF G
  <2>1. QED
    BY <1>2, <1>3, SubsetInduction
<1>5. h[{}] = 0
  BY <1>1
<1>6. h \in Sums(f, D)
  BY <1>1, <1>4, <1>5 DEF Sums
<1>7. QED
  BY <1>6

\* Sums of functions that agree on a set agree there.
LEMMA SumsAgree ==
    ASSUME NEW D, NEW E, NEW f, NEW g, NEW h \in Sums(f, D), NEW k \in Sums(g, E),
           NEW S, IsFiniteSet(S), S \subseteq D, S \subseteq E,
           \A x \in S : f[x] = g[x]
    PROVE  h[S] = k[S]
<1> DEFINE G == {s \in SUBSET S : h[s] = k[s]}
<1>1. ASSUME NEW s \in SUBSET S, s # {}, \A x \in s : s \ {x} \in G PROVE s \in G
  <2>1. PICK x \in s : TRUE
    BY <1>1
  <2>2. h[s] = f[x] + h[s \ {x}] /\ k[s] = g[x] + k[s \ {x}] /\ f[x] = g[x]
    BY <2>1 DEF Sums
  <2>3. QED
    BY <1>1, <2>2
<1>2. {} \in G /\ G \in SUBSET (SUBSET S)
  BY DEF Sums
<1>3. G = SUBSET S
  <2> HIDE DEF G
  <2>1. QED
    BY <1>1, <1>2, SubsetInduction
<1>4. QED
  BY <1>3

LEMMA TotalType ==
    ASSUME NEW D, IsFiniteSet(D), NEW f \in [D -> Int]
    PROVE  Tournament!Total(f) \in Int
<1>1. PICK h \in Sums(f, D) : TRUE
  BY TotalIsSum
<1>2. QED
  BY <1>1 DEF Sums

\* One element changes.
LEMMA TotalUpdates ==
    ASSUME NEW D, IsFiniteSet(D), NEW f \in [D -> Int], NEW x \in D, NEW v \in Int
    PROVE  Tournament!Total([f EXCEPT ![x] = v]) = Tournament!Total(f) - f[x] + v
<1> DEFINE g == [f EXCEPT ![x] = v]
<1>1. g \in [D -> Int] /\ g[x] = v /\ \A y \in D \ {x} : g[y] = f[y]
  OBVIOUS
<1> HIDE DEF g
<1>2. PICK h \in Sums(f, D) : TRUE
  BY TotalIsSum
<1>3. PICK k \in Sums(g, D) : TRUE
  BY <1>1, TotalIsSum
<1>4. h[D \ {x}] = k[D \ {x}]
  <2> DEFINE S == D \ {x}
  <2>1. IsFiniteSet(S) /\ S \subseteq D /\ \A y \in S : f[y] = g[y]
    BY <1>1, FS_RemoveElement
  <2> HIDE DEF S
  <2>2. h[S] = k[S]
    BY <1>2, <1>3, <2>1, SumsAgree
  <2>3. QED
    BY <2>2 DEF S
<1>5. h[D] = f[x] + h[D \ {x}] /\ k[D] = v + k[D \ {x}] /\ h[D \ {x}] \in Int /\ f[x] \in Int
  BY <1>1, <1>2, <1>3 DEF Sums
<1>6. Tournament!Total(f) = h[D] /\ Tournament!Total(g) = k[D]
  BY <1>2, <1>3 DEF Sums
<1>7. QED
  BY <1>4, <1>5, <1>6 DEF g

\* Elements are added that all have the same value.
LEMMA TotalExtends ==
    ASSUME NEW E, IsFiniteSet(E), NEW D \in SUBSET E, NEW f \in [D -> Int], NEW c \in Int,
           NEW g \in [E -> Int], \A x \in D : g[x] = f[x], \A x \in E \ D : g[x] = c
    PROVE  /\ Cardinality(E) \in Nat /\ Cardinality(D) \in Nat
           /\ Tournament!Total(g) = Tournament!Total(f) + c * (Cardinality(E) - Cardinality(D))
<1>1. IsFiniteSet(D) /\ IsFiniteSet(E \ D) /\ Cardinality(E) \in Nat /\ Cardinality(D) \in Nat
  BY FS_Subset, FS_CardinalityType, FS_Difference
<1>2. PICK h \in Sums(f, D) : TRUE
  BY <1>1, TotalIsSum
<1>3. PICK k \in Sums(g, E) : TRUE
  BY TotalIsSum
<1> DEFINE G == {s \in SUBSET (E \ D) :
                   k[D \cup s] = h[D] + c * (Cardinality(D \cup s) - Cardinality(D))}
<1>4. {} \in G
  <2>1. h[D] = k[D]
    BY <1>1, <1>2, <1>3, SumsAgree
  <2>2. D \cup {} = D /\ c * (Cardinality(D) - Cardinality(D)) = 0 /\ h[D] \in Int
    BY <1>1, <1>2 DEF Sums
  <2>3. QED
    BY <2>1, <2>2
<1>5. ASSUME NEW s \in SUBSET (E \ D), s # {}, \A x \in s : s \ {x} \in G PROVE s \in G
  <2>1. PICK x \in s : TRUE
    BY <1>5
  <2> DEFINE m == Cardinality(D \cup (s \ {x}))
             n == Cardinality(D)
  <2>2. (D \cup s) \ {x} = D \cup (s \ {x}) /\ D \cup s \in SUBSET E /\ x \in D \cup s /\ g[x] = c
    BY <2>1
  <2>3. k[D \cup s] = c + k[D \cup (s \ {x})]
    <3>1. k[D \cup s] = g[x] + k[(D \cup s) \ {x}]
      BY <1>3, <2>2 DEF Sums
    <3>2. QED
      BY <2>2, <3>1
  <2>4. k[D \cup (s \ {x})] = h[D] + c * (m - n)
    BY <1>5, <2>1
  <2>5. m \in Nat /\ Cardinality(D \cup s) = m + 1 /\ n \in Nat
    <3>1. IsFiniteSet(D \cup (s \ {x})) /\ D \cup s = (D \cup (s \ {x})) \cup {x}
          /\ x \notin D \cup (s \ {x})
      BY <2>1, FS_Subset
    <3>2. QED
      BY <1>1, <3>1, FS_AddElement, FS_CardinalityType
  <2>6. h[D] \in Int
    BY <1>2 DEF Sums
  <2> HIDE DEF m, n
  <2>7. c * ((m + 1) - n) = c + c * (m - n) /\ c * (m - n) \in Int
    BY <2>5
  <2>8. QED
    BY <2>3, <2>4, <2>5, <2>6, <2>7 DEF n
<1>6. G = SUBSET (E \ D)
  <2>1. G \in SUBSET (SUBSET (E \ D))
    OBVIOUS
  <2> HIDE DEF G
  <2>2. QED
    BY <1>1, <1>4, <1>5, <2>1, SubsetInduction
<1>7. D \cup (E \ D) = E /\ k[D \cup (E \ D)] = h[D] + c * (Cardinality(D \cup (E \ D)) - Cardinality(D))
  BY <1>6
<1>8. Tournament!Total(f) = h[D] /\ Tournament!Total(g) = k[E]
  BY <1>2, <1>3 DEF Sums
<1>9. QED
  BY <1>1, <1>7, <1>8

\* A step of the whole is a step of this component, or leaves it alone.
LEMMA TournamentMoves == [Next]_vars => [Tournament!Next]_(Tournament!tournamentVars)
BY DEF Next, Alone, vars, tournamentVars, Tournament!tournamentVars

Tally == [wins : Nat, losses : Nat, ties : Nat]
Column(t, field) == [a \in DOMAIN t |-> t[a][field]]

TournamentTypes ==
    /\ agents \in Seq(Contestant) /\ scores \in Seq(Tournament!Result)
    /\ DOMAIN elo \subseteq Contestant /\ IsFiniteSet(DOMAIN elo) /\ elo \in [DOMAIN elo -> Int]
    /\ tally \in [DOMAIN elo -> Tally] /\ least \in Decisive
    /\ draw \in Seq((DOMAIN elo) \X DOMAIN elo)
    /\ matches \in Seq(Contestant \X Contestant \X (Contestant \cup {Tournament!NoWinner}))
    /\ Len(matches) + Len(draw) <= MaxMatches

RatingsAreNear ==
    \A a \in DOMAIN elo : /\ elo[a] <= Initial + K * Len(matches)
                          /\ elo[a] >= Initial - K * Len(matches)

TalliesAgree ==
    /\ Tournament!Total(Column(tally, "wins")) = Tournament!Total(Column(tally, "losses"))
    /\ Tournament!Total(Column(tally, "wins")) + Tournament!Total(Column(tally, "losses"))
         + Tournament!Total(Column(tally, "ties")) = 2 * Len(matches)

TournamentInv ==
    /\ TournamentTypes /\ RatingsAreNear /\ TalliesAgree
    /\ Tournament!Total(elo) = Initial * Cardinality(DOMAIN elo)
                                - (K \div 2) * Cardinality(Tournament!Lonely)

\* No step has touched it.
LEMMA TournamentRests ==
    ASSUME TournamentInv, UNCHANGED <<elo, tally, least, draw, matches>>,
           agents' \in Seq(Contestant), scores' \in Seq(Tournament!Result)
    PROVE  TournamentInv'
BY DEF TournamentInv, TournamentTypes, RatingsAreNear, TalliesAgree, Tournament!Lonely

\* Nobody has played yet.
LEMMA TournamentInit == TournamentAssumption /\ Tournament!Init => TournamentInv
<1> SUFFICES ASSUME TournamentAssumption, Tournament!Init PROVE TournamentInv
  OBVIOUS
<1> DEFINE nobody == [a \in {} |-> 0]
<1>1. /\ agents = << >> /\ scores = << >> /\ elo = nobody /\ tally = nobody /\ draw = << >>
      /\ matches = << >> /\ least \in Decisive
  BY DEF Tournament!Init
<1>2. IsFiniteSet({}) /\ Cardinality({}) = 0 /\ Len(matches) = 0 /\ Len(draw) = 0
  BY <1>1, FS_EmptySet
<1>3. nobody \in [{} -> Int] /\ DOMAIN nobody = {} /\ nobody \in [{} -> Tally]
  OBVIOUS
<1> HIDE DEF nobody
<1>4. Tournament!Total(nobody) = 0
  <2>1. PICK h \in Sums(nobody, {}) : TRUE
    BY <1>2, <1>3, TotalIsSum
  <2>2. QED
    BY <2>1 DEF Sums
<1>5. Column(tally, "wins") = nobody /\ Column(tally, "losses") = nobody /\ Column(tally, "ties") = nobody
  BY <1>1, <1>3 DEF Column, nobody
<1>6. TournamentTypes
  BY <1>1, <1>2, <1>3 DEF TournamentTypes, TournamentAssumption
<1>7. Initial * Cardinality(DOMAIN elo) = 0 /\ (K \div 2) * Cardinality(Tournament!Lonely) = 0
  <2>1. Tournament!Lonely = {} /\ K \div 2 \in Nat
    BY <1>1 DEF Tournament!Lonely, TournamentAssumption
  <2>2. QED
    BY <1>1, <1>2, <1>3, <2>1 DEF TournamentAssumption
<1>8. RatingsAreNear /\ TalliesAgree
  BY <1>1, <1>2, <1>3, <1>4, <1>5 DEF RatingsAreNear, TalliesAgree
<1>9. QED
  BY <1>1, <1>4, <1>6, <1>7, <1>8 DEF TournamentInv

\* A match exchanges points: what one side gains the other loses, and no
\* rating moves by more than K; an agent that meets itself keeps the loss.
LEMMA RatingsMove ==
    ASSUME TournamentAssumption, TournamentInv, Len(matches) < MaxMatches,
           NEW a \in DOMAIN elo, NEW b \in DOMAIN elo, NEW winner,
           winner \in {a, b, Tournament!NoWinner}, Tournament!update_elo(a, b, winner)
    PROVE  /\ elo' \in [DOMAIN elo -> Int]
           /\ Tournament!Total(elo') = Tournament!Total(elo)
                - (IF a = b /\ winner # Tournament!NoWinner THEN K \div 2 ELSE 0)
           /\ \A x \in DOMAIN elo : elo'[x] <= elo[x] + K /\ elo'[x] >= elo[x] - K
<1> DEFINE D == DOMAIN elo
           n == Len(matches)
           half_k == K \div 2
           ea == Expected[elo[a] - elo[b]]
           sa == Tournament!Score(a, winner)
           ga == sa - ea
           gb == (K - sa) - (K - ea)
           p == elo[a] + ga
           q == elo[b] + gb
           lost == IF a = b /\ winner # Tournament!NoWinner THEN half_k ELSE 0
           first == [elo EXCEPT ![a] = p]
<1>1. elo \in [D -> Int] /\ IsFiniteSet(D) /\ n \in Nat /\ elo[a] \in Int /\ elo[b] \in Int
  BY LenProperties DEF TournamentInv, TournamentTypes
<1>2. half_k \in Nat /\ half_k + half_k = K /\ K \in Nat /\ MaxMatches \in Nat /\ Initial \in Int
  BY DEF TournamentAssumption
<1>3. a # Tournament!NoWinner /\ b # Tournament!NoWinner
  BY DEF TournamentInv, TournamentTypes, TournamentAssumption
<1>4. ea \in 0 .. K /\ (a = b => ea = half_k)
  <2> DEFINE far == K * n
             most == K * MaxMatches
  <2>1. far <= most /\ far \in Nat /\ most \in Nat /\ 2 * K * MaxMatches = 2 * most
    <3>1. n <= MaxMatches
      BY <1>1, <1>2
    <3>2. K \in Nat /\ n \in Nat /\ MaxMatches \in Nat
      BY <1>1, <1>2
    <3> HIDE DEF n
    <3>3. QED
      BY <3>1, <3>2, Products, Zenon
  <2>2. /\ elo[a] <= Initial + far /\ elo[a] >= Initial - far
        /\ elo[b] <= Initial + far /\ elo[b] >= Initial - far
    BY DEF TournamentInv, RatingsAreNear
  <2>3. \A d \in -(2 * most) .. 2 * most : Expected[d] \in 0 .. K
    BY <2>1 DEF TournamentAssumption
  <2>4. Expected[0] = half_k
    BY DEF TournamentAssumption
  <2> HIDE DEF far, most, half_k
  <2> DEFINE u == elo[a]
             v == elo[b]
  <2>5. u - v \in -(2 * most) .. 2 * most
    <3>1. u \in Int /\ v \in Int /\ Initial \in Int
      BY <1>1, <1>2
    <3> HIDE DEF u, v
    <3>2. /\ u <= Initial + far /\ u >= Initial - far
          /\ v <= Initial + far /\ v >= Initial - far
      BY <2>2 DEF u, v
    <3>3. QED
      BY <2>1, <3>1, <3>2
  <2>6. a = b => elo[a] - elo[b] = 0
    BY <1>1
  <2>7. QED
    BY <2>3, <2>4, <2>5, <2>6
<1>5. elo' = [first EXCEPT ![b] = q]
  BY DEF Tournament!update_elo
<1>15. sa = IF winner = a THEN K ELSE IF winner = Tournament!NoWinner THEN half_k ELSE 0
  BY DEF Tournament!Score
<1> HIDE DEF half_k, ea, sa
<1>16. /\ ga \in Int /\ ga <= K /\ ga >= -K /\ gb \in Int /\ gb <= K /\ gb >= -K
       /\ ga + gb = 0 /\ (a = b => gb = -lost) /\ lost \in Nat
  BY <1>2, <1>3, <1>4, <1>15
<1> HIDE DEF ga, gb, lost
<1>6. p \in Int /\ q \in Int /\ p <= elo[a] + K /\ p >= elo[a] - K /\ q <= elo[b] + K /\ q >= elo[b] - K
  <2> DEFINE u == elo[a]
             v == elo[b]
  <2>1. u \in Int /\ v \in Int
    BY <1>1
  <2>2. p = u + ga /\ q = v + gb
    OBVIOUS
  <2> HIDE DEF u, v
  <2>3. p \in Int /\ q \in Int /\ p <= u + K /\ p >= u - K /\ q <= v + K /\ q >= v - K
    BY <1>2, <1>16, <2>1, <2>2
  <2>4. QED
    BY <2>3 DEF u, v
<1>7. IF a = b THEN q = elo[b] - lost ELSE p + q = elo[a] + elo[b]
  BY <1>1, <1>16
<1> HIDE DEF p, q
<1>8. first \in [D -> Int] /\ first[a] = p /\ \A x \in D : x # a => first[x] = elo[x]
  BY <1>1, <1>6
<1>9. Tournament!Total(elo) \in Int /\ Tournament!Total(first) = Tournament!Total(elo) - elo[a] + p
  BY <1>1, <1>6, TotalType, TotalUpdates
<1> HIDE DEF first, D
<1>10. elo' \in [D -> Int] /\ elo'[b] = q /\ \A x \in D : x # b => elo'[x] = first[x]
  BY <1>5, <1>6, <1>8 DEF D
<1>11. Tournament!Total(elo') = Tournament!Total(first) - first[b] + q
  <2>1. b \in D
    BY DEF D
  <2>2. QED
    BY <1>1, <1>5, <1>6, <1>8, <2>1, TotalUpdates
<1>12. Tournament!Total(elo') = Tournament!Total(elo) - lost
  <2>1. CASE a = b
    <3>1. first[b] = p /\ q = elo[a] - lost
      BY <1>7, <1>8, <2>1
    <3>2. QED
      BY <1>1, <1>6, <1>9, <1>11, <1>16, <3>1
  <2>2. CASE a # b
    <3>1. first[b] = elo[b] /\ p + q = elo[a] + elo[b] /\ lost = 0
      BY <1>7, <1>8, <2>2 DEF D, lost
    <3>2. QED
      BY <1>1, <1>6, <1>9, <1>11, <3>1
  <2>3. QED
    BY <2>1, <2>2
<1>13. ASSUME NEW x \in D PROVE elo'[x] <= elo[x] + K /\ elo'[x] >= elo[x] - K
  <2>1. elo[x] \in Int
    BY <1>1
  <2>2. CASE x = b
    BY <1>6, <1>10, <2>2
  <2>3. CASE x # b /\ x = a
    BY <1>6, <1>8, <1>10, <2>3
  <2>4. CASE x # b /\ x # a
    BY <1>2, <1>8, <1>10, <2>1, <2>4
  <2>5. QED
    BY <2>2, <2>3, <2>4
<1>14. QED
  BY <1>10, <1>12, <1>13 DEF D, lost, half_k

Counted(t, x, field) == [t EXCEPT ![x] = [t[x] EXCEPT ![field] = @ + 1]]

\* One more in a column of the tallies leaves the others what they are.
LEMMA ColumnCounts ==
    ASSUME NEW D, IsFiniteSet(D), NEW t \in [D -> Tally], NEW x \in D,
           NEW field \in {"wins", "losses", "ties"}
    PROVE  /\ Counted(t, x, field) \in [D -> Tally]
           /\ \A other \in {"wins", "losses", "ties"} :
                /\ Tournament!Total(Column(t, other)) \in Int
                /\ Tournament!Total(Column(Counted(t, x, field), other))
                     = Tournament!Total(Column(t, other)) + (IF other = field THEN 1 ELSE 0)
<1> DEFINE entry == [t[x] EXCEPT ![field] = @ + 1]
           counted == [t EXCEPT ![x] = entry]
<1>1. t[x] \in Tally /\ DOMAIN t = D
  OBVIOUS
<1>2. /\ entry \in Tally
      /\ \A other \in {"wins", "losses", "ties"} :
           /\ entry[other] = t[x][other] + (IF other = field THEN 1 ELSE 0)
           /\ t[x][other] \in Int /\ entry[other] \in Int
  <2>1. CASE field = "wins"
    BY <1>1, <2>1 DEF Tally
  <2>2. CASE field = "losses"
    BY <1>1, <2>2 DEF Tally
  <2>3. CASE field = "ties"
    BY <1>1, <2>3 DEF Tally
  <2>4. QED
    BY <2>1, <2>2, <2>3
<1> HIDE DEF entry
<1>3. counted \in [D -> Tally] /\ DOMAIN counted = D
  BY <1>2
<1>4. ASSUME NEW other \in {"wins", "losses", "ties"}
      PROVE  /\ Tournament!Total(Column(t, other)) \in Int
             /\ Tournament!Total(Column(counted, other))
                  = Tournament!Total(Column(t, other)) + (IF other = field THEN 1 ELSE 0)
  <2> DEFINE column == Column(t, other)
             v == entry[other]
  <2>1. \A a \in D : t[a][other] \in Int
    BY DEF Tally
  <2>2. column \in [D -> Int] /\ column[x] = t[x][other] /\ v \in Int
    BY <1>1, <1>2, <2>1 DEF Column
  <2>3. Column(counted, other) = [column EXCEPT ![x] = v]
    BY <1>1, <1>3 DEF Column
  <2>4. v = column[x] + (IF other = field THEN 1 ELSE 0)
    BY <1>2, <2>2
  <2> HIDE DEF column, v, counted
  <2>5. Tournament!Total(column) \in Int
    BY <2>2, TotalType
  <2>6. Tournament!Total([column EXCEPT ![x] = v]) = Tournament!Total(column) - column[x] + v
    BY <2>2, TotalUpdates
  <2>7. column[x] \in Int
    BY <2>2
  <2>8. QED
    BY <2>2, <2>3, <2>4, <2>5, <2>6, <2>7 DEF column
<1>5. QED
  BY <1>3, <1>4 DEF counted, entry, Counted

\* A match counts for both sides: as a tie of each, or as a win and a loss.
LEMMA TalliesMove ==
    ASSUME TournamentAssumption, TournamentInv,
           NEW a \in DOMAIN elo, NEW b \in DOMAIN elo, NEW winner,
           winner \in {a, b, Tournament!NoWinner}, Tournament!Count(a, b, winner)
    PROVE  /\ tally' \in [DOMAIN elo -> Tally]
           /\ Tournament!Total(Column(tally', "wins")) = Tournament!Total(Column(tally', "losses"))
           /\ Tournament!Total(Column(tally', "wins")) + Tournament!Total(Column(tally', "losses"))
                + Tournament!Total(Column(tally', "ties")) = 2 * Len(matches) + 2
<1> DEFINE D == DOMAIN elo
           loser == IF winner = a THEN b ELSE a
           sum(t, field) == Tournament!Total(Column(t, field))
<1>1. tally \in [D -> Tally] /\ IsFiniteSet(D) /\ Len(matches) \in Nat
  BY LenProperties DEF TournamentInv, TournamentTypes
<1>2. a # Tournament!NoWinner /\ b # Tournament!NoWinner
  BY DEF TournamentInv, TournamentTypes, TournamentAssumption
<1>3. /\ sum(tally, "wins") = sum(tally, "losses")
      /\ sum(tally, "wins") + sum(tally, "losses") + sum(tally, "ties") = 2 * Len(matches)
  BY DEF TournamentInv, TalliesAgree
<1>4. CASE winner = Tournament!NoWinner
  <2> DEFINE t == Counted(tally, a, "ties")
  <2>1. tally' = Counted(t, b, "ties")
    BY <1>4 DEF Tournament!Count, Counted
  <2>2. /\ t \in [D -> Tally]
        /\ \A other \in {"wins", "losses", "ties"} :
             /\ sum(tally, other) \in Int
             /\ sum(t, other) = sum(tally, other) + (IF other = "ties" THEN 1 ELSE 0)
    BY <1>1, ColumnCounts
  <2> HIDE DEF t
  <2>3. /\ tally' \in [D -> Tally]
        /\ \A other \in {"wins", "losses", "ties"} :
             sum(tally', other) = sum(t, other) + (IF other = "ties" THEN 1 ELSE 0)
    BY <1>1, <2>1, <2>2, ColumnCounts
  <2> HIDE DEF sum
  <2>4. /\ sum(tally', "wins") = sum(tally, "wins") /\ sum(tally', "losses") = sum(tally, "losses")
        /\ sum(tally', "ties") = sum(tally, "ties") + 2
        /\ sum(tally, "wins") \in Int /\ sum(tally, "losses") \in Int /\ sum(tally, "ties") \in Int
    BY <2>2, <2>3
  <2>5. QED
    BY <1>1, <1>3, <2>3, <2>4 DEF sum
<1>5. CASE winner # Tournament!NoWinner
  <2> DEFINE t == Counted(tally, winner, "wins")
  <2>1. winner \in D /\ loser \in D
    BY <1>5
  <2>2. tally' = Counted(t, loser, "losses")
    BY <1>5 DEF Tournament!Count, Counted
  <2> HIDE DEF loser
  <2>3. /\ t \in [D -> Tally]
        /\ \A other \in {"wins", "losses", "ties"} :
             /\ sum(tally, other) \in Int
             /\ sum(t, other) = sum(tally, other) + (IF other = "wins" THEN 1 ELSE 0)
    BY <1>1, <2>1, ColumnCounts
  <2> HIDE DEF t
  <2>4. /\ tally' \in [D -> Tally]
        /\ \A other \in {"wins", "losses", "ties"} :
             sum(tally', other) = sum(t, other) + (IF other = "losses" THEN 1 ELSE 0)
    BY <1>1, <2>1, <2>2, <2>3, ColumnCounts
  <2> HIDE DEF sum
  <2>5. /\ sum(tally', "wins") = sum(tally, "wins") + 1
        /\ sum(tally', "losses") = sum(tally, "losses") + 1
        /\ sum(tally', "ties") = sum(tally, "ties")
        /\ sum(tally, "wins") \in Int /\ sum(tally, "losses") \in Int /\ sum(tally, "ties") \in Int
    BY <2>3, <2>4
  <2>6. QED
    BY <1>1, <1>3, <2>4, <2>5 DEF sum
<1>6. QED
  BY <1>4, <1>5

\* The matches of an agent with itself are some of the matches.
LEMMA LonelyIsFinite ==
    ASSUME TournamentInv
    PROVE  /\ Tournament!Lonely \subseteq 1 .. Len(matches) /\ IsFiniteSet(Tournament!Lonely)
           /\ Cardinality(Tournament!Lonely) \in Nat
<1>1. Len(matches) \in Nat /\ DOMAIN matches = 1 .. Len(matches)
  BY LenProperties DEF TournamentInv, TournamentTypes
<1>2. Tournament!Lonely \in SUBSET (1 .. Len(matches))
  BY <1>1 DEF Tournament!Lonely
<1> DEFINE S == Tournament!Lonely
           n == Len(matches)
<1> HIDE DEF S, n
<1>3. S \in SUBSET (1 .. n) /\ n \in Nat
  BY <1>1, <1>2 DEF S, n
<1>4. IsFiniteSet(1 .. n)
  BY <1>3, FS_Interval
<1>5. IsFiniteSet(S) /\ Cardinality(S) \in Nat
  BY <1>3, <1>4, FS_Subset, FS_CardinalityType
<1>6. QED
  BY <1>3, <1>5 DEF S, n

\* A match leaves the draw and joins the matches.
LEMMA TournamentPlays ==
    ASSUME TournamentAssumption, TournamentInv, Tournament!play_match
    PROVE  TournamentInv'
<1> DEFINE D == DOMAIN elo
           a == Head(draw)[1]
           b == Head(draw)[2]
           n == Len(matches)
<1>1. PICK points_a, points_b \in 0 .. num_rounds :
         LET lead == IF a = b THEN 0 ELSE points_a - points_b
             winner == IF lead < least /\ -lead < least THEN Tournament!NoWinner
                       ELSE IF lead > 0 THEN a ELSE b
         IN  /\ Tournament!update_elo(a, b, winner) /\ Tournament!Count(a, b, winner)
             /\ matches' = Append(matches, <<a, b, winner>>)
  BY DEF Tournament!play_match
<1> DEFINE lead == IF a = b THEN 0 ELSE points_a - points_b
           winner == IF lead < least /\ -lead < least THEN Tournament!NoWinner
                     ELSE IF lead > 0 THEN a ELSE b
<1>2. /\ draw # << >> /\ draw' = Tail(draw) /\ UNCHANGED <<agents, scores, least>>
      /\ Tournament!update_elo(a, b, winner) /\ Tournament!Count(a, b, winner)
      /\ matches' = Append(matches, <<a, b, winner>>)
  BY <1>1 DEF Tournament!play_match
<1>3. winner \in {a, b, Tournament!NoWinner}
  OBVIOUS
<1> HIDE DEF winner
<1>4. /\ draw \in Seq(D \X D) /\ n \in Nat /\ Len(draw) \in Nat /\ n + Len(draw) <= MaxMatches
      /\ D \subseteq Contestant /\ MaxMatches \in Nat /\ K \in Nat /\ Initial \in Int
      /\ elo \in [D -> Int] /\ IsFiniteSet(D)
      /\ matches \in Seq(Contestant \X Contestant \X (Contestant \cup {Tournament!NoWinner}))
  BY LenProperties DEF TournamentInv, TournamentTypes, TournamentAssumption
<1>5. /\ Head(draw) \in D \X D /\ draw' \in Seq(D \X D) /\ Len(draw') = Len(draw) - 1
      /\ Len(draw) >= 1
  BY <1>2, <1>4, HeadTailProperties, EmptySeq
<1>6. a \in D /\ b \in D /\ n < MaxMatches
  BY <1>4, <1>5
<1>7. /\ matches' \in Seq(Contestant \X Contestant \X (Contestant \cup {Tournament!NoWinner}))
      /\ Len(matches') = n + 1
  <2>1. <<a, b, winner>> \in Contestant \X Contestant \X (Contestant \cup {Tournament!NoWinner})
    BY <1>3, <1>4, <1>6
  <2>2. QED
    BY <1>2, <1>4, <2>1, AppendProperties
<1>17. Cardinality(Tournament!Lonely') = Cardinality(Tournament!Lonely)
                 + (IF a = b /\ winner # Tournament!NoWinner THEN 1 ELSE 0)
       /\ Cardinality(Tournament!Lonely) \in Nat
  <2> DEFINE lonely == Tournament!Lonely
  <2>1. lonely \subseteq 1 .. n /\ IsFiniteSet(lonely) /\ Cardinality(lonely) \in Nat
    BY LonelyIsFinite
  <2>2. /\ DOMAIN matches' = 1 .. (n + 1) /\ matches'[n + 1] = <<a, b, winner>>
        /\ \A i \in 1 .. n : matches'[i] = matches[i]
    BY <1>2, <1>4, <1>7, AppendProperties, LenProperties
  <2>3. Tournament!Lonely' = IF a = b /\ winner # Tournament!NoWinner THEN lonely \cup {n + 1}
                                                                    ELSE lonely
    <3> HIDE DEF a, b
    <3>1. DOMAIN matches = 1 .. n /\ 1 .. (n + 1) = (1 .. n) \cup {n + 1}
      BY <1>4, LenProperties
    <3>2. QED
      BY <2>2, <3>1 DEF Tournament!Lonely
  <2>4. n + 1 \notin lonely
    BY <1>4, <2>1
  <2> HIDE DEF lonely
  <2>5. Cardinality(lonely \cup {n + 1}) = Cardinality(lonely) + 1
    BY <2>1, <2>4, FS_AddElement
  <2>6. QED
    <3>1. CASE a = b /\ winner # Tournament!NoWinner
      BY <2>1, <2>3, <2>5, <3>1 DEF lonely
    <3>2. CASE ~(a = b /\ winner # Tournament!NoWinner)
      BY <2>1, <2>3, <3>2 DEF lonely
    <3>3. QED
      BY <3>1, <3>2
<1> HIDE DEF a, b
<1>8. /\ elo' \in [D -> Int]
      /\ Tournament!Total(elo') = Tournament!Total(elo)
           - (IF a = b /\ winner # Tournament!NoWinner THEN K \div 2 ELSE 0)
      /\ \A x \in D : elo'[x] <= elo[x] + K /\ elo'[x] >= elo[x] - K
  BY <1>2, <1>3, <1>6, RatingsMove
<1>9. /\ tally' \in [D -> Tally]
      /\ Tournament!Total(Column(tally', "wins")) = Tournament!Total(Column(tally', "losses"))
      /\ Tournament!Total(Column(tally', "wins")) + Tournament!Total(Column(tally', "losses"))
           + Tournament!Total(Column(tally', "ties")) = 2 * n + 2
  BY <1>2, <1>3, <1>6, TalliesMove
<1>10. DOMAIN elo' = D
  BY <1>8
<1>16. Len(matches') + Len(draw') <= MaxMatches
  BY <1>4, <1>5, <1>7
<1>11. TournamentTypes'
  BY <1>16, <1>2, <1>4, <1>5, <1>7, <1>8, <1>9, <1>10 DEF TournamentInv, TournamentTypes
<1>12. RatingsAreNear'
  <2> DEFINE far == K * n
  <2>1. far \in Int /\ K * Len(matches') = far + K
    <3>1. n <= n
      BY <1>4
    <3>2. K * (n + 1) = K * n + K /\ K * n \in Int
      BY <1>4
    <3>3. QED
      BY <1>7, <3>2
  <2>2. ASSUME NEW x \in D
        PROVE  elo'[x] <= Initial + (far + K) /\ elo'[x] >= Initial - (far + K)
    <3> DEFINE u == elo[x]
               v == elo'[x]
    <3>1. u <= Initial + far /\ u >= Initial - far
      BY DEF TournamentInv, RatingsAreNear
    <3>2. u \in Int /\ v \in Int /\ v <= u + K /\ v >= u - K
      BY <1>4, <1>8
    <3>4. Initial \in Int /\ K \in Nat /\ far \in Int
      BY <1>4, <2>1
    <3> HIDE DEF u, v, far
    <3>3. v <= Initial + (far + K) /\ v >= Initial - (far + K)
      BY <3>1, <3>2, <3>4
    <3>5. QED
      BY <3>3 DEF v
  <2> HIDE DEF far
  <2>3. QED
    BY <1>10, <2>1, <2>2 DEF RatingsAreNear
<1>13. TalliesAgree'
  BY <1>4, <1>7, <1>9 DEF TalliesAgree
<1>14. Tournament!Total(elo') = Initial * Cardinality(DOMAIN elo')
                                  - (K \div 2) * Cardinality(Tournament!Lonely')
  <2> DEFINE c == Cardinality(Tournament!Lonely)
             half_k == K \div 2
             start == Initial * Cardinality(D)
             points == Tournament!Total(elo)
  <2>1. half_k \in Nat /\ c \in Nat /\ start \in Int /\ points = start - half_k * c
    BY <1>4, <1>17, FS_CardinalityType DEF TournamentInv, TournamentAssumption
  <2>2. Tournament!Total(elo') = points - (IF a = b /\ winner # Tournament!NoWinner THEN half_k ELSE 0)
    BY <1>8
  <2>3. Cardinality(Tournament!Lonely') = c + (IF a = b /\ winner # Tournament!NoWinner THEN 1 ELSE 0)
    BY <1>17
  <2> HIDE DEF c, half_k, start, points
  <2>4. half_k * (c + 1) = half_k * c + half_k /\ half_k * c \in Int
    BY <2>1
  <2>5. Tournament!Total(elo') = start - half_k * Cardinality(Tournament!Lonely')
    <3>1. CASE a = b /\ winner # Tournament!NoWinner
      BY <2>1, <2>2, <2>3, <2>4, <3>1
    <3>2. CASE ~(a = b /\ winner # Tournament!NoWinner)
      BY <2>1, <2>2, <2>3, <3>2
    <3>3. QED
      BY <3>1, <3>2
  <2>6. QED
    BY <1>10, <2>5 DEF start, half_k
<1>15. QED
  BY <1>11, <1>12, <1>13, <1>14 DEF TournamentInv

\* The instance sorts as Sublists does.
LEMMA TournamentSorts == \A S, R : Tournament!InOrder(S, R) = InOrder(S, R)
BY DEF Tournament!InOrder, InOrder, Tournament!Ahead, Ahead, Tournament!Cardinality,
       Cardinality, Tournament!IsFiniteSet, IsFiniteSet

\* An agent registers.
LEMMA TournamentRegisters ==
    ASSUME TournamentInv, NEW a \in Contestant, Tournament!register_agent(a)
    PROVE  TournamentInv'
<1>1. agents' \in Seq(Contestant) /\ UNCHANGED <<scores, elo, tally, least, draw, matches>>
  BY AppendProperties DEF TournamentInv, TournamentTypes, Tournament!register_agent
<1>2. scores' \in Seq(Tournament!Result)
  BY <1>1 DEF TournamentInv, TournamentTypes
<1>3. QED
  BY <1>1, <1>2, TournamentRests

\* The results of a benchmark are those of its agents.
LEMMA TournamentScores ==
    ASSUME TournamentAssumption, TournamentInv, NEW benchmark \in Benchmark,
           Tournament!run_benchmark(benchmark)
    PROVE  TournamentInv'
<1> DEFINE Results == UNION {Tournament!evaluate_agent(a, benchmark) : a \in Contestant}
<1>1. PICK scored \in [DOMAIN agents -> Results] : scores' = scores \o scored
  BY DEF Tournament!run_benchmark
<1>2. agents \in Seq(Contestant) /\ scores \in Seq(Tournament!Result) /\ Len(agents) \in Nat
      /\ DOMAIN agents = 1 .. Len(agents)
  BY LenProperties DEF TournamentInv, TournamentTypes
<1>3. Results \subseteq Tournament!Result
  <2>1. ASSUME NEW a \in Contestant, NEW luck \in {-5, 5}
        PROVE  [agent |-> a, benchmark |-> benchmark,
                score |-> 50 + 10 * Matched[a][benchmark] + luck] \in Tournament!Result
    <3> DEFINE m == Matched[a][benchmark]
    <3>1. m \in 0 .. 3
      BY DEF TournamentAssumption
    <3> HIDE DEF m
    <3>2. 50 + 10 * m + luck \in 45 .. 85
      BY <3>1
    <3>3. QED
      BY <3>2 DEF Tournament!Result, m
  <2>2. ASSUME NEW a \in Contestant
        PROVE  Tournament!evaluate_agent(a, benchmark) \subseteq Tournament!Result
    BY <2>1 DEF Tournament!evaluate_agent
  <2>3. QED
    BY <2>2
<1> HIDE DEF Results
<1>4. scored \in Seq(Tournament!Result)
  <2>1. scored \in [1 .. Len(agents) -> Tournament!Result]
    BY <1>2, <1>3
  <2>2. QED
    BY <1>2, <2>1, IsASeq
<1>5. scores' \in Seq(Tournament!Result)
  BY <1>1, <1>2, <1>4, ConcatProperties
<1>6. UNCHANGED <<agents, elo, tally, least, draw, matches>>
  BY DEF Tournament!run_benchmark
<1>7. agents' \in Seq(Contestant)
  BY <1>2, <1>6
<1>8. QED
  BY <1>5, <1>6, <1>7, TournamentRests

\* Every agent meets every later one; new ones start with the initial rating
\* and no match.
LEMMA TournamentDraws ==
    ASSUME TournamentAssumption, TournamentInv, NEW n \in 0 .. MaxList,
           NEW list \in [1 .. n -> Contestant], Tournament!run_tournament(list)
    PROVE  TournamentInv'
<1> DEFINE D == DOMAIN elo
           new == Tournament!Range(list)
           E == D \cup new
           meetings == {p \in (DOMAIN list) \X DOMAIN list : p[1] < p[2]}
           before == {q \in meetings \X meetings :
                        \/ q[1][1] < q[2][1]
                        \/ /\ q[1][1] = q[2][1]
                           /\ q[1][2] < q[2][2]}
           order == InOrder(meetings, before)
           C == Cardinality(meetings)
           zero == [wins |-> 0, losses |-> 0, ties |-> 0]
<1>1. /\ Len(matches) + Len(order) <= MaxMatches
      /\ draw' = [k \in DOMAIN order |-> <<list[order[k][1]], list[order[k][2]]>>]
      /\ elo' = Tournament!ensure_agent(elo, new, Initial)
      /\ tally' = Tournament!ensure_agent(tally, new, zero)
      /\ UNCHANGED <<agents, scores, least, matches>>
  BY TournamentSorts DEF Tournament!run_tournament
<1>2. n \in Nat /\ DOMAIN list = 1 .. n /\ IsFiniteSet(1 .. n)
  BY FS_Interval DEF TournamentAssumption
<1>3. IsFiniteSet(meetings)
  <2>1. IsFiniteSet((1 .. n) \X (1 .. n))
    BY <1>2, FS_Product
  <2>2. meetings \in SUBSET ((1 .. n) \X (1 .. n))
    BY <1>2
  <2> HIDE DEF meetings
  <2>3. QED
    BY <2>1, <2>2, FS_Subset
<1>4. OrdersStrictly(before, meetings)
  <2>1. \A p \in meetings : p[1] \in Int /\ p[2] \in Int /\ p = <<p[1], p[2]>>
    BY <1>2
  <2>2. \A p, q \in meetings : <<p, q>> \in before <=> \/ p[1] < q[1]
                                                       \/ p[1] = q[1] /\ p[2] < q[2]
    OBVIOUS
  <2> HIDE DEF meetings, before
  <2>3. \A p \in meetings : <<p, p>> \notin before
    BY <2>1, <2>2
  <2>4. ASSUME NEW p \in meetings, NEW q \in meetings, NEW r \in meetings,
               <<p, q>> \in before, <<q, r>> \in before
        PROVE  <<p, r>> \in before
    BY <2>1, <2>2, <2>4
  <2>5. ASSUME NEW p \in meetings, NEW q \in meetings
        PROVE  p = q \/ <<p, q>> \in before \/ <<q, p>> \in before
    <3>1. CASE p[1] = q[1] /\ p[2] = q[2]
      BY <2>1, <3>1
    <3>2. CASE ~(p[1] = q[1] /\ p[2] = q[2])
      BY <2>1, <2>2, <3>2
    <3>3. QED
      BY <3>1, <3>2
  <2>6. QED
    BY <2>3, <2>4, <2>5 DEF OrdersStrictly
<1>5. C \in Nat /\ order \in Seq(meetings) /\ Len(order) = C /\ DOMAIN order = 1 .. C
  <2> HIDE DEF meetings, before
  <2>1. QED
    BY <1>3, <1>4, SortedList
<1>6. ASSUME NEW k \in 1 .. C PROVE <<list[order[k][1]], list[order[k][2]]>> \in new \X new
  <2>1. order[k] \in meetings
    BY <1>5, ElementOfSeq
  <2> HIDE DEF order
  <2>2. order[k][1] \in DOMAIN list /\ order[k][2] \in DOMAIN list
    BY <2>1
  <2>3. QED
    BY <2>2 DEF Tournament!Range
<1> HIDE DEF order, C, meetings, before
<1>7. draw' \in Seq(new \X new) /\ Len(draw') = C
  <2>1. draw' \in [1 .. C -> new \X new]
    BY <1>1, <1>5, <1>6
  <2>2. draw' \in Seq(new \X new)
    BY <1>5, <2>1, IsASeq
  <2>3. QED
    BY <1>5, <2>1, <2>2, LenProperties
<1>8. IsFiniteSet(new) /\ new \subseteq Contestant
  <2>1. new = {list[i] : i \in 1 .. n}
    BY <1>2 DEF Tournament!Range
  <2>2. list \in Surjection(1 .. n, new)
    BY <1>2, <2>1 DEF Surjection
  <2> HIDE DEF new
  <2>3. QED
    BY <1>2, <2>1, <2>2, FS_Surjection
<1> HIDE DEF new
<1>9. /\ D \subseteq Contestant /\ IsFiniteSet(D) /\ elo \in [D -> Int] /\ tally \in [D -> Tally]
      /\ Len(matches) \in Nat /\ Initial \in Int /\ K \in Nat
  BY LenProperties DEF TournamentInv, TournamentTypes, TournamentAssumption
<1>10. E \subseteq Contestant /\ IsFiniteSet(E) /\ D \in SUBSET E
  BY <1>8, <1>9, FS_Union
<1>11. /\ elo' \in [E -> Int] /\ \A x \in D : elo'[x] = elo[x]
       /\ \A x \in E \ D : elo'[x] = Initial
  BY <1>1, <1>9 DEF Tournament!ensure_agent
<1>12. /\ tally' \in [E -> Tally] /\ \A x \in D : tally'[x] = tally[x]
       /\ \A x \in E \ D : tally'[x] = zero
  <2>1. zero \in Tally /\ DOMAIN tally = D
    BY <1>9 DEF Tally
  <2> HIDE DEF zero
  <2>2. QED
    BY <1>1, <1>9, <2>1 DEF Tournament!ensure_agent
<1>13. DOMAIN elo' = E
  BY <1>11
<1> HIDE DEF E, D
<1>14. TournamentTypes'
  <2>1. draw' \in Seq(E \X E)
    <3>1. new \X new \subseteq E \X E
      BY DEF E
    <3>2. draw' \in [1 .. C -> E \X E]
      BY <1>7, <3>1, LenProperties, ElementOfSeq
    <3>3. QED
      BY <1>5, <3>2, IsASeq
  <2>2. Len(matches') + Len(draw') <= MaxMatches
    BY <1>1, <1>5, <1>7
  <2>3. QED
    BY <1>1, <1>10, <1>11, <1>12, <1>13, <2>1, <2>2 DEF TournamentInv, TournamentTypes
<1>15. RatingsAreNear'
  <2> DEFINE far == K * Len(matches)
  <2>1. far \in Nat
    BY <1>9
  <2>2. \A x \in D : elo[x] <= Initial + far /\ elo[x] >= Initial - far
    BY DEF TournamentInv, RatingsAreNear, D
  <2> HIDE DEF far
  <2>3. ASSUME NEW x \in E PROVE elo'[x] <= Initial + far /\ elo'[x] >= Initial - far
    <3>1. CASE x \in D
      BY <1>11, <2>2, <3>1
    <3>2. CASE x \notin D
      BY <1>9, <1>11, <2>1, <3>2
    <3>3. QED
      BY <3>1, <3>2
  <2>4. QED
    BY <1>1, <1>13, <2>3 DEF RatingsAreNear, far
<1>16. Tournament!Total(elo') = Initial * Cardinality(E) - (K \div 2) * Cardinality(Tournament!Lonely')
  <2>1. /\ Cardinality(E) \in Nat /\ Cardinality(D) \in Nat
        /\ Tournament!Total(elo') = Tournament!Total(elo) + Initial * (Cardinality(E) - Cardinality(D))
    <3> DEFINE f == elo
               g == elo'
               start == Initial
    <3>1. /\ f \in [D -> Int] /\ g \in [E -> Int] /\ start \in Int /\ \A x \in D : g[x] = f[x]
          /\ \A x \in E \ D : g[x] = start
      BY <1>9, <1>11
    <3> HIDE DEF f, g, start
    <3>2. /\ Cardinality(E) \in Nat /\ Cardinality(D) \in Nat
          /\ Tournament!Total(g) = Tournament!Total(f) + start * (Cardinality(E) - Cardinality(D))
      BY <1>10, <3>1, TotalExtends
    <3>3. QED
      BY <3>2 DEF f, g, start
  <2> DEFINE lost == (K \div 2) * Cardinality(Tournament!Lonely)
  <2>2. Tournament!Total(elo) = Initial * Cardinality(D) - lost /\ lost \in Int
    <3>1. Cardinality(Tournament!Lonely) \in Nat /\ K \div 2 \in Nat
      BY LonelyIsFinite DEF TournamentAssumption
    <3>2. Tournament!Total(elo) = Initial * Cardinality(D) - lost
      BY DEF TournamentInv, D
    <3>3. QED
      BY <3>1, <3>2
  <2>5. Tournament!Lonely' = Tournament!Lonely
    BY <1>1 DEF Tournament!Lonely
  <2>3. Initial * (Cardinality(E) - Cardinality(D)) = Initial * Cardinality(E) - Initial * Cardinality(D)
        /\ Initial * Cardinality(E) \in Int /\ Initial * Cardinality(D) \in Int
    BY <1>9, <2>1
  <2> HIDE DEF lost
  <2>4. Tournament!Total(elo') = Initial * Cardinality(E) - lost
    BY <2>1, <2>2, <2>3
  <2>6. QED
    BY <2>4, <2>5 DEF lost
<1>17. ASSUME NEW field \in {"wins", "losses", "ties"}
       PROVE  Tournament!Total(Column(tally', field)) = Tournament!Total(Column(tally, field))
  <2> DEFINE f == Column(tally, field)
             g == Column(tally', field)
  <2>1. f \in [D -> Int] /\ \A x \in D : f[x] = tally[x][field]
    BY <1>9 DEF Column, Tally
  <2>2. g \in [E -> Int] /\ \A x \in E : g[x] = tally'[x][field]
    BY <1>12 DEF Column, Tally
  <2>3. \A x \in D : g[x] = f[x]
    BY <1>10, <1>12, <2>1, <2>2
  <2>4. \A x \in E \ D : g[x] = 0
    BY <1>12, <2>2
  <2> DEFINE nought == 0
  <2>5. nought \in Int /\ \A x \in E \ D : g[x] = nought
    BY <2>4
  <2> HIDE DEF f, g, nought
  <2>6. /\ Cardinality(E) \in Nat /\ Cardinality(D) \in Nat
        /\ Tournament!Total(g) = Tournament!Total(f) + nought * (Cardinality(E) - Cardinality(D))
    BY <1>10, <2>1, <2>2, <2>3, <2>5, TotalExtends
  <2>7. nought * (Cardinality(E) - Cardinality(D)) = 0 /\ Tournament!Total(f) \in Int
    BY <1>9, <2>1, <2>6, TotalType DEF nought
  <2>8. QED
    BY <2>6, <2>7 DEF f, g
<1>18. TalliesAgree'
  BY <1>1, <1>17 DEF TournamentInv, TalliesAgree
<1>19. QED
  BY <1>13, <1>14, <1>15, <1>16, <1>18 DEF TournamentInv

\* Every step of the tournament keeps it.
LEMMA TournamentStep ==
    TournamentAssumption /\ TournamentInv /\ [Tournament!Next]_(Tournament!tournamentVars)
      => TournamentInv'
<1> SUFFICES ASSUME TournamentAssumption, TournamentInv,
                    [Tournament!Next]_(Tournament!tournamentVars)
             PROVE  TournamentInv'
  OBVIOUS
<1>1. CASE UNCHANGED Tournament!tournamentVars
  <2>1. /\ UNCHANGED <<elo, tally, least, draw, matches>>
        /\ agents' \in Seq(Contestant) /\ scores' \in Seq(Tournament!Result)
    BY <1>1 DEF Tournament!tournamentVars, TournamentInv, TournamentTypes
  <2>2. QED
    BY <2>1, TournamentRests
<1>2. CASE Tournament!Next
  BY <1>2, TournamentRegisters, TournamentScores, TournamentDraws, TournamentPlays
     DEF Tournament!Next
<1>3. QED
  BY <1>1, <1>2

\* A leaderboard has the results of its benchmark, each as often as there are,
\* and the best first.
LEMMA LeaderboardIsTrue ==
    ASSUME scores \in Seq(Tournament!Result), NEW benchmark \in Benchmark
    PROVE  LET board == Tournament!get_leaderboard(benchmark)
           IN  /\ \A i \in 1 .. (Len(board) - 1) : board[i].score >= board[i + 1].score
               /\ \A r \in Tournament!Result : r.benchmark = benchmark =>
                    Cardinality({i \in DOMAIN board : board[i] = r})
                      = Cardinality({i \in DOMAIN scores : scores[i] = r})
<1> DEFINE P == {i \in DOMAIN scores : scores[i].benchmark = benchmark}
           better == {p \in P \X P : \/ scores[p[1]].score > scores[p[2]].score
                                     \/ /\ scores[p[1]].score = scores[p[2]].score
                                        /\ p[1] < p[2]}
           order == InOrder(P, better)
           board == [k \in DOMAIN order |-> scores[order[k]]]
           C == Cardinality(P)
<1>1. Tournament!get_leaderboard(benchmark) = board
  BY TournamentSorts DEF Tournament!get_leaderboard
<1>2. /\ Len(scores) \in Nat /\ DOMAIN scores = 1 .. Len(scores)
      /\ \A i \in DOMAIN scores : scores[i] \in Tournament!Result
  BY LenProperties, ElementOfSeq
<1>3. P \in SUBSET (1 .. Len(scores)) /\ IsFiniteSet(P)
  BY <1>2, PositionsAreFinite
<1>4. \A i \in P : i \in Int /\ i \in DOMAIN scores /\ scores[i].score \in Int
  <2>1. ASSUME NEW r \in Tournament!Result PROVE r.score \in Int
    <3> DEFINE v == r.score
    <3>1. v \in 45 .. 85
      BY DEF Tournament!Result
    <3> HIDE DEF v
    <3>2. v \in Int
      BY <3>1
    <3>3. QED
      BY <3>2 DEF v
  <2>2. QED
    BY <1>2, <2>1
<1>5. \A i, j \in P : <<i, j>> \in better <=> \/ scores[i].score > scores[j].score
                                              \/ scores[i].score = scores[j].score /\ i < j
  OBVIOUS
<1>6. ASSUME NEW r, NEW i \in DOMAIN scores, scores[i] = r, r.benchmark = benchmark PROVE i \in P
  BY <1>6
<1> HIDE DEF P, better
<1>7. OrdersStrictly(better, P)
  <2>1. \A i \in P : <<i, i>> \notin better
    BY <1>4, <1>5
  <2>2. ASSUME NEW i \in P, NEW j \in P, NEW k \in P, <<i, j>> \in better, <<j, k>> \in better
        PROVE  <<i, k>> \in better
    BY <1>4, <1>5, <2>2
  <2>3. ASSUME NEW i \in P, NEW j \in P PROVE i = j \/ <<i, j>> \in better \/ <<j, i>> \in better
    BY <1>4, <1>5
  <2>4. QED
    BY <2>1, <2>2, <2>3 DEF OrdersStrictly
<1>8. /\ C \in Nat /\ order \in Seq(P) /\ DOMAIN order = 1 .. C
      /\ order \in Bijection(1 .. C, P)
      /\ \A i, j \in 1 .. C : i < j => <<order[i], order[j]>> \in better
  BY <1>3, <1>7, SortedList
<1> HIDE DEF order, C
<1>9. order \in [1 .. C -> P]
  BY <1>8 DEF Bijection, Injection
<1>10. DOMAIN board = 1 .. C /\ Len(board) = C /\ \A k \in 1 .. C : board[k] = scores[order[k]]
  <2>1. board \in [1 .. C -> Tournament!Result]
    BY <1>2, <1>4, <1>8, <1>9
  <2>2. board \in Seq(Tournament!Result)
    BY <1>8, <2>1, IsASeq
  <2>3. DOMAIN board = 1 .. C /\ \A k \in 1 .. C : board[k] = scores[order[k]]
    BY <1>8
  <2> HIDE DEF board
  <2>4. QED
    BY <1>8, <2>1, <2>2, <2>3, LenProperties
<1> HIDE DEF board
<1>11. ASSUME NEW i \in 1 .. (C - 1) PROVE board[i].score >= board[i + 1].score
  <2>1. i \in 1 .. C /\ i + 1 \in 1 .. C /\ i < i + 1
    BY <1>8
  <2>2. <<order[i], order[i + 1]>> \in better /\ order[i] \in P /\ order[i + 1] \in P
    BY <1>8, <1>9, <2>1
  <2>3. scores[order[i]].score >= scores[order[i + 1]].score
    BY <1>4, <1>5, <2>2
  <2>4. QED
    BY <1>10, <2>1, <2>3
<1>12. ASSUME NEW r \in Tournament!Result, r.benchmark = benchmark
       PROVE  Cardinality({i \in DOMAIN board : board[i] = r})
                = Cardinality({i \in DOMAIN scores : scores[i] = r})
  <2> DEFINE S == {i \in DOMAIN board : board[i] = r}
             T == {i \in DOMAIN scores : scores[i] = r}
             f == [i \in S |-> order[i]]
  <2>1. f \in [S -> T]
    BY <1>4, <1>9, <1>10
  <2>2. \A i, j \in S : f[i] = f[j] => i = j
    BY <1>8, <1>10 DEF Bijection, Injection, IsInjective
  <2>3. ASSUME NEW i \in T PROVE \E k \in S : f[k] = i
    <3>1. i \in P
      BY <1>6, <1>12
    <3>2. PICK k \in 1 .. C : order[k] = i
      BY <1>8, <3>1 DEF Bijection, Surjection
    <3>3. k \in S
      BY <1>10, <3>2
    <3>4. QED
      BY <3>2, <3>3
  <2>4. IsFiniteSet(S)
    BY <1>8, <1>10, PositionsAreFinite
  <2> HIDE DEF f, S, T
  <2>5. ExistsBijection(S, T)
    BY <2>1, <2>2, <2>3 DEF ExistsBijection, Bijection, Injection, Surjection, IsInjective
  <2>6. Cardinality(T) = Cardinality(S)
    BY <2>4, <2>5, FS_Bijection
  <2>7. QED
    BY <2>6 DEF S, T
<1>13. QED
  BY <1>1, <1>10, <1>11, <1>12

LEMMA TournamentTrue ==
    TournamentAssumption /\ TournamentInv => Tournament!TypeOK /\ Tournament!RankingsAddUp
<1> SUFFICES ASSUME TournamentAssumption, TournamentInv
             PROVE  Tournament!TypeOK /\ Tournament!RankingsAddUp
  OBVIOUS
<1> DEFINE D == DOMAIN elo
<1>1. /\ D \subseteq Contestant /\ elo \in [D -> Int] /\ tally \in [D -> Tally] /\ draw \in Seq(D \X D)
      /\ scores \in Seq(Tournament!Result)
  BY DEF TournamentInv, TournamentTypes
<1>2. draw \in Seq(Contestant \X Contestant)
  <2>1. D \X D \subseteq Contestant \X Contestant
    BY <1>1
  <2>2. Len(draw) \in Nat /\ draw \in [1 .. Len(draw) -> Contestant \X Contestant]
    BY <1>1, <2>1, LenProperties, ElementOfSeq
  <2>3. QED
    BY <2>2, IsASeq
<1>3. Tournament!TypeOK
  BY <1>1, <1>2 DEF Tournament!TypeOK, TournamentInv, TournamentTypes, Tally
<1>4. DOMAIN tally = D
  BY <1>1
<1>5. \A field \in {"wins", "losses", "ties"} :
        Tournament!Sum(field) = Tournament!Total(Column(tally, field))
  BY DEF Tournament!Sum, Column
<1>6. \A S : Tournament!Cardinality(S) = Cardinality(S)
  BY DEF Tournament!Cardinality, Cardinality, Tournament!IsFiniteSet, IsFiniteSet
<1>7. /\ Tournament!Total(elo) = Initial * Tournament!Cardinality(DOMAIN elo)
                                   - (K \div 2) * Tournament!Cardinality(Tournament!Lonely)
      /\ Tournament!Sum("wins") = Tournament!Sum("losses")
      /\ Tournament!Sum("wins") + Tournament!Sum("losses") + Tournament!Sum("ties")
           = 2 * Len(matches)
  BY <1>5, <1>6 DEF TournamentInv, TalliesAgree
<1>8. ASSUME NEW benchmark \in Benchmark
      PROVE  LET board == Tournament!get_leaderboard(benchmark)
             IN  /\ \A i \in 1 .. (Len(board) - 1) : board[i].score >= board[i + 1].score
                 /\ \A r \in Tournament!Result : r.benchmark = benchmark =>
                      Tournament!Cardinality({i \in DOMAIN board : board[i] = r})
                        = Tournament!Cardinality({i \in DOMAIN scores : scores[i] = r})
  BY <1>1, <1>6, LeaderboardIsTrue
<1>9. Tournament!RankingsAddUp
  BY <1>7, <1>8 DEF Tournament!RankingsAddUp
<1>10. QED
  BY <1>3, <1>9

=================================================================================
