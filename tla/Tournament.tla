------------------------------ MODULE Tournament ------------------------------
(***************************************************************************)
(* src/src/harness: AgentHarness registers agents and benchmarks them,     *)
(* TournamentEngine lets lists of them play round robins and keeps their   *)
(* Elo ratings.  Ratings and scores are scaled to integers; a random score *)
(* is any of those it may be.  An agent is its identity, name:version,     *)
(* which two profiles of a list may share.                                 *)
(***************************************************************************)
EXTENDS Integers, Sequences, FiniteSets, Functions, Sublists

CONSTANTS
    Agent,       \* identities
    Benchmark,   \* benchmark_name
    Matched,     \* per agent, then benchmark: the keywords it has, 0 to 3
    Expected,    \* per difference of ratings: the expected score of the first, in 1/K
    K,           \* elo_k_factor
    Initial,     \* elo_initial
    num_rounds,  \* flips in a match
    Decisive,    \* differences of points that may decide a match
    MaxMatches,  \* bound: matches
    MaxList,     \* bound: agents of a tournament
    MaxResults   \* bound: results, and agents registered

VARIABLES
    agents,     \* registered, in order
    results,    \* benchmark_results
    elo,        \* per agent that has played
    tally,      \* per agent that has played: wins, losses, ties
    least,      \* the least of them that does: tie_threshold * num_rounds, rounded up
    draw,       \* the matches still to play in this tournament
    matches     \* matches: pairs with their winner

tournamentVars == <<agents, results, elo, tally, least, draw, matches>>

NoWinner == "tie"
Result == [agent : Agent, benchmark : Benchmark, score : 45 .. 85]

TypeOK ==
    /\ agents \in Seq(Agent) /\ results \in Seq(Result)
    /\ DOMAIN elo \subseteq Agent /\ elo \in [DOMAIN elo -> Int]
    /\ tally \in [DOMAIN elo -> [wins : Nat, losses : Nat, ties : Nat]]
    /\ least \in Decisive /\ draw \in Seq(Agent \X Agent)
    /\ matches \in Seq(Agent \X Agent \X (Agent \cup {NoWinner}))

Init ==
    /\ agents = << >> /\ results = << >>
    /\ elo = [a \in {} |-> 0] /\ tally = elo
    /\ least \in Decisive /\ draw = << >> /\ matches = << >>

-----------------------------------------------------------------------------
(* AgentHarness                                                             *)

register_agent(a) ==
    /\ Len(agents) < MaxResults
    /\ agents' = Append(agents, a)
    /\ UNCHANGED <<results, elo, tally, least, draw, matches>>

\* Percent: 50, 10 for each keyword the agent has, and 5 of luck.
evaluate_agent(a, benchmark) ==
    {[agent |-> a, benchmark |-> benchmark, score |-> 50 + 10 * Matched[a][benchmark] + luck] :
        luck \in {-5, 5}}

run_benchmark(benchmark) ==
    /\ Len(results) + Len(agents) <= MaxResults
    /\ \E scored \in [DOMAIN agents -> UNION {evaluate_agent(a, benchmark) : a \in Agent}] :
         /\ \A i \in DOMAIN agents : scored[i] \in evaluate_agent(agents[i], benchmark)
         /\ results' = results \o scored
    /\ UNCHANGED <<agents, elo, tally, least, draw, matches>>

get_leaderboard(benchmark) ==
    LET of == {i \in DOMAIN results : results[i].benchmark = benchmark}
        better == {p \in of \X of : \/ results[p[1]].score > results[p[2]].score
                                   \/ /\ results[p[1]].score = results[p[2]].score
                                      /\ p[1] < p[2]}
        order == InOrder(of, better)
    IN  [k \in DOMAIN order |-> results[order[k]]]

-----------------------------------------------------------------------------
(* TournamentEngine                                                         *)

ensure_agent(table, new, start) ==
    [a \in DOMAIN table \cup new |-> IF a \in DOMAIN table THEN table[a] ELSE start]

\* Every agent of the list meets every later one.
run_tournament(list) ==
    LET meetings == {p \in (DOMAIN list) \X DOMAIN list : p[1] < p[2]}
        before == {q \in meetings \X meetings :
                     \/ q[1][1] < q[2][1]
                     \/ /\ q[1][1] = q[2][1]
                        /\ q[1][2] < q[2][2]}
        order == InOrder(meetings, before)
    IN  /\ draw = << >> /\ Len(matches) + Len(order) <= MaxMatches
        /\ draw' = [k \in DOMAIN order |-> <<list[order[k][1]], list[order[k][2]]>>]
        /\ elo' = ensure_agent(elo, Range(list), Initial)
        /\ tally' = ensure_agent(tally, Range(list), [wins |-> 0, losses |-> 0, ties |-> 0])
        /\ UNCHANGED <<agents, results, least, matches>>

\* What the match is worth for its first side; the other gets the rest of K.
Score(a, winner) == IF winner = a THEN K ELSE IF winner = NoWinner THEN K \div 2 ELSE 0

\* Mutant: the loser's expected score is not the complement of the winner's.
update_elo_Same(a, b, winner) ==
    LET ea == Expected[elo[a] - elo[b]]
        sa == Score(a, winner)
    IN  elo' = [elo EXCEPT ![a] = elo[a] + (sa - ea), ![b] = elo[b] + ((K - sa) - ea)]

\* Both new ratings come from the old ones; an agent that meets itself keeps the second.
update_elo(a, b, winner) ==
    LET ea == Expected[elo[a] - elo[b]]
        sa == Score(a, winner)
    IN  elo' = [elo EXCEPT ![a] = elo[a] + (sa - ea), ![b] = elo[b] + ((K - sa) - (K - ea))]

Count(a, b, winner) ==
    tally' = IF winner = NoWinner
               THEN [[tally EXCEPT ![a].ties = @ + 1] EXCEPT ![b].ties = @ + 1]
               ELSE LET loser == IF winner = a THEN b ELSE a
                    IN  [tally EXCEPT ![winner].wins = @ + 1, ![loser].losses = @ + 1]

\* Where even no difference decides, b has won; the scores of an agent that
\* meets itself are one.
play_match ==
    /\ draw # << >>
    /\ \E points_a, points_b \in 0 .. num_rounds :
         LET a == Head(draw)[1]
             b == Head(draw)[2]
             ahead == IF a = b THEN 0 ELSE points_a - points_b
             winner == IF ahead < least /\ -ahead < least THEN NoWinner
                       ELSE IF ahead > 0 THEN a ELSE b
         IN  /\ points_a + points_b <= num_rounds
             /\ update_elo(a, b, winner) /\ Count(a, b, winner)
             /\ matches' = Append(matches, <<a, b, winner>>)
    /\ draw' = Tail(draw)
    /\ UNCHANGED <<agents, results, least>>

Next ==
    \/ \E a \in Agent : register_agent(a)
    \/ \E benchmark \in Benchmark : run_benchmark(benchmark)
    \/ \E n \in 0 .. MaxList : \E list \in [1 .. n -> Agent] : run_tournament(list)
    \/ play_match

Spec == Init /\ [][Next]_tournamentVars

-----------------------------------------------------------------------------

Total(f) == FoldFunction(+, 0, f)
Sum(field) == Total([a \in DOMAIN tally |-> tally[a][field]])

\* Matches an agent played against itself that were no tie.
Lonely == {i \in DOMAIN matches : matches[i][1] = matches[i][2] /\ matches[i][3] # NoWinner}

(* Rating points are only exchanged, but for an agent that meets itself     *)
(* where no difference is needed to win: it loses half of K each time;      *)
(* every win is somebody's loss, and each match is in the tallies of both   *)
(* sides; a leaderboard has every result of its benchmark, as often as it   *)
(* was reached, the best first.                                             *)
RankingsAddUp ==
    /\ Total(elo) = Initial * Cardinality(DOMAIN elo) - (K \div 2) * Cardinality(Lonely)
    /\ Sum("wins") = Sum("losses")
    /\ Sum("wins") + Sum("losses") + Sum("ties") = 2 * Len(matches)
    /\ \A benchmark \in Benchmark :
         LET board == get_leaderboard(benchmark)
         IN  /\ \A i \in 1 .. (Len(board) - 1) : board[i].score >= board[i + 1].score
             /\ \A r \in Result : r.benchmark = benchmark =>
                  Cardinality({i \in DOMAIN board : board[i] = r})
                    = Cardinality({i \in DOMAIN results : results[i] = r})
===============================================================================
