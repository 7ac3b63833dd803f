--------------------------- MODULE SdlcEngineProofs ---------------------------
(* What the engine delivers, saves and logs, for any tasks, cycle budgets and  *)
(* review budgets.                                                              *)
EXTENDS SdlcEngine, SequenceTheorems, TLAPS

\* The transitions of one go up the ladder, as far as it went.
IsClimb(moves) ==
    /\ moves \in Seq(Move)
    /\ Len(moves) <= 5
    /\ \A i \in DOMAIN moves : moves[i].to_phase = Rungs[i]
    /\ \A i \in DOMAIN moves \ {1} : ~moves[i].forced /\ moves[i].from_phase = Rungs[i - 1]
    /\ moves # << >> => moves[1].forced \/ moves[1].from_phase = "PLAN"

IsReviewed(pr) ==
    /\ pr.review.verdict = "pass" /\ pr.review.of = pr.artifact /\ pr.artifact > 0
    /\ pr.review.edits <= pr.edits

Unfinished == {"IN_PROGRESS", "BUILT"}

\* The item is on the k-th rung, and that was logged last.
OnRung(moves, p, k) == Len(moves) = k /\ p = Rungs[k]

\* The item has moved to OPERATE, but the log failed.
MovedUnlogged(moves, p) == Len(moves) = 4 /\ p = "OPERATE"

\* A row says what the log says (SavedPhaseWasLogged, for every task).
IsLogged(r, moves) ==
    r.item \notin {NoItem, "PLAN"} =>
      /\ moves # << >>
      /\ \/ moves[Len(moves)].to_phase \in {r.item, "ARCHITECT"}
         \/ /\ r.status = "FAILED" /\ r.item = "OPERATE"
            /\ moves[Len(moves)].to_phase = "GOVERN"

Resting == {"off", "idle", "plan", "tally", "stopped"}

\* The cycle has not counted as completed yet.
Open == {"plan", "architect", "build", "building", "implement", "review", "decide",
         "blocked", "govern", "deliver", "merge", "record", "operate"}

\* The cycle has counted no failure yet.
Clean == (Open \ {"blocked"}) \cup {"saveDone"}

Counting ==
    /\ pc \in Open => completed < cycle
    /\ pc \in Clean => failed = 0
    /\ pc \in {"blocked", "undelivered", "save"} => failed <= 1

InHand == /\ pc \notin Resting => task \in Task
          /\ pc \in Resting \cup {"architect"} => attempts = 0 /\ artifact = 0

Artifacts ==
    /\ pc \in {"build", "building"} => attempts >= 1 /\ (attempts > 1 => artifact > 0)
    /\ pc \in {"implement", "review", "decide", "govern", "deliver"} => artifact > 0
    /\ pc \in {"decide", "govern", "deliver"} => review.of = artifact /\ review.edits <= edits
    /\ pc \in {"govern", "deliver"} => review.verdict = "pass"

Requests ==
    /\ \A t \in Task : prs[t] # NoPullRequest => IsReviewed(prs[t])
    /\ pc = "merge" => IsReviewed(prs[task])

Climbs == \A t \in Task : IsClimb(climb[t])

Position ==
    LET moves == climb[task]
    IN  /\ pc \in {"build", "building"} => OnRung(moves, phase, IF attempts = 1 THEN 1 ELSE 2)
        /\ pc = "implement" => OnRung(moves, phase, 1)
        /\ pc \in {"review", "decide", "blocked"} => OnRung(moves, phase, 2)
        /\ pc = "govern" => OnRung(moves, phase, 3)
        /\ pc \in {"deliver", "merge", "record", "operate"} => OnRung(moves, phase, 4)
        /\ pc = "saveDone" => OnRung(moves, phase, 5)
        /\ pc = "undelivered" => \/ OnRung(moves, phase, 4) \/ OnRung(moves, phase, 5)
                                 \/ MovedUnlogged(moves, phase)
        /\ pc = "save" => \/ OnRung(moves, phase, 1) \/ OnRung(moves, phase, 2)
                          \/ OnRung(moves, phase, 4) \/ OnRung(moves, phase, 5)
                          \/ MovedUnlogged(moves, phase) /\ row[task].status = "FAILED"

Rows ==
    /\ \A t \in Task : IsLogged(row[t], climb[t])
    /\ \A t \in Task : row[t].status \in Unfinished => row[t].item \in {NoItem, "PLAN"}
    /\ \/ pc \in Resting \cup {"architect"}
       \/ pc = "build" /\ attempts = 1
       \/ pc = "undelivered"
       \/ row[task].item = NoItem
    /\ pc \in {"operate", "save", "saveDone"} => row[task].status \notin Unfinished

IInv == TypeOK /\ Counting /\ InHand /\ Artifacts /\ Requests /\ Climbs /\ Position /\ Rows


-------------------------------------------------------------------------------
(* The ladder.                                                                  *)

LEMMA RungFacts ==
    /\ DOMAIN Rungs = 1 .. 5
    /\ Rungs[1] = "ARCHITECT" /\ Rungs[2] = "IMPLEMENT" /\ Rungs[3] = "REVIEW"
    /\ Rungs[4] = "GOVERN" /\ Rungs[5] = "OPERATE"
BY DEF Rungs

\* The edges of the ladder: can_advance() decides where a move may come from.
LEMMA EdgeFacts ==
    ASSUME NEW p \in Phase
    PROVE  /\ can_advance(p, "ARCHITECT") => p = "PLAN"
           /\ can_advance(p, "IMPLEMENT") => p \in {"ARCHITECT", "REVIEW"}
           /\ can_advance(p, "REVIEW") => p = "IMPLEMENT"
           /\ can_advance(p, "GOVERN") => p = "REVIEW"
           /\ can_advance(p, "OPERATE") => p = "GOVERN"
BY DEF can_advance, ALLOWED_TRANSITIONS, Phase

\* A climb starts at ARCHITECT, from PLAN or by an override.
LEMMA ClimbStarts ==
    ASSUME NEW move \in Move, move.to_phase = "ARCHITECT",
           move.forced \/ move.from_phase = "PLAN"
    PROVE  /\ IsClimb(Append(<< >>, move)) /\ Append(<< >>, move) # << >>
           /\ Len(Append(<< >>, move)) = 1 /\ Append(<< >>, move)[1] = move
<1> DEFINE moves == Append(<< >>, move)
<1>1. /\ moves \in Seq(Move) /\ moves # << >> /\ Len(moves) = 1 /\ moves[1] = move
  BY EmptySeq, AppendProperties
<1>2. DOMAIN moves = {1}
  BY <1>1, LenProperties
<1>3. QED
  BY <1>1, <1>2, RungFacts DEF IsClimb

\* ... and goes on with a move from its last rung to the next.
LEMMA ClimbGoesOn ==
    ASSUME NEW moves, IsClimb(moves), NEW k \in 1 .. 4, Len(moves) = k,
           NEW move \in Move, ~move.forced,
           move.from_phase = Rungs[k], move.to_phase = Rungs[k + 1]
    PROVE  /\ IsClimb(Append(moves, move)) /\ Append(moves, move) # << >>
           /\ Len(Append(moves, move)) = k + 1 /\ Append(moves, move)[k + 1] = move
<1> DEFINE more == Append(moves, move)
<1>1. moves \in Seq(Move) /\ moves # << >> /\ DOMAIN moves = 1 .. k
  BY EmptySeq, LenProperties DEF IsClimb
<1>2. /\ more \in Seq(Move) /\ more # << >> /\ Len(more) = k + 1
      /\ \A i \in 1 .. k : more[i] = moves[i]
      /\ more[k + 1] = move
  BY <1>1, AppendProperties
<1>3. DOMAIN more = 1 .. (k + 1) /\ 1 \in 1 .. k
  BY <1>2, LenProperties
<1> HIDE DEF more
<1>4. \A i \in DOMAIN more : more[i].to_phase = Rungs[i]
  BY <1>1, <1>2, <1>3 DEF IsClimb
<1>5. \A i \in DOMAIN more \ {1} : ~more[i].forced /\ more[i].from_phase = Rungs[i - 1]
  BY <1>1, <1>2, <1>3 DEF IsClimb
<1>6. IsClimb(more)
  BY <1>1, <1>2, <1>3, <1>4, <1>5 DEF IsClimb
<1>7. QED
  BY <1>2, <1>6 DEF more

\* What the last move of a climb says.
LEMMA TopRung ==
    ASSUME NEW moves, IsClimb(moves), NEW k \in 1 .. 5, Len(moves) = k
    PROVE  moves # << >> /\ moves[Len(moves)].to_phase = Rungs[k]
BY EmptySeq, LenProperties DEF IsClimb

\* A climb that reached OPERATE is the whole ladder.
LEMMA WholeLadder ==
    ASSUME NEW moves, IsClimb(moves), NEW i \in DOMAIN moves, moves[i].to_phase = "OPERATE"
    PROVE  /\ [j \in DOMAIN moves |-> moves[j].to_phase] = Rungs
           /\ \A j \in 2 .. 5 : ~moves[j].forced /\ moves[j].from_phase = Rungs[j - 1]
           /\ moves[1].forced \/ moves[1].from_phase = "PLAN"
<1>1. DOMAIN moves = 1 .. Len(moves) /\ Len(moves) \in Nat /\ Len(moves) <= 5
  BY LenProperties DEF IsClimb
<1>2. Rungs[i] = "OPERATE" /\ i \in 1 .. 5
  BY <1>1 DEF IsClimb
<1>3. i = 5 /\ Len(moves) = 5
  BY <1>1, <1>2, RungFacts
<1>4. DOMAIN moves = 1 .. 5 /\ moves # << >>
  BY <1>1, <1>3, EmptySeq
<1>5. \A j \in 1 .. 5 : moves[j].to_phase = Rungs[j]
  BY <1>4 DEF IsClimb
<1>6. Rungs = [j \in 1 .. 5 |-> Rungs[j]]
  BY DEF Rungs
<1>7. [j \in DOMAIN moves |-> moves[j].to_phase] = Rungs
  BY <1>4, <1>5, <1>6, Zenon
<1>8. \A j \in 2 .. 5 : ~moves[j].forced /\ moves[j].from_phase = Rungs[j - 1]
  BY <1>4 DEF IsClimb
<1>9. QED
  BY <1>4, <1>7, <1>8 DEF IsClimb

-------------------------------------------------------------------------------
(* Steps that log no move.                                                     *)

LEMMA InitInvariant == Init => IInv
<1> SUFFICES ASSUME Init PROVE IInv
  OBVIOUS
<1>1. << >> \in Seq(Move) /\ Len(<< >>) = 0 /\ DOMAIN << >> = {}
  BY EmptySeq
<1>2. IsClimb(<< >>)
  BY <1>1 DEF IsClimb
<1>3. TypeOK
  <2>1. prs \in [Task -> PullRequest] /\ review \in Review
    BY DEF Init, PullRequest, NoPullRequest, NoReview, Review
  <2>2. /\ row \in [Task -> [status : Status, item : Phase \cup {NoItem}]]
        /\ cached \in [Task -> Phase \cup {NoItem}]
    BY DEF Init, Status
  <2>3. climb \in [Task -> Seq(Move)]
    BY <1>1 DEF Init
  <2>4. artifact \in 0 .. attempts /\ completed \in 0 .. cycle /\ edits \in 0 .. MaxEdits
        /\ failed \in 0 .. 2
    BY EngineAssumption DEF Init
  <2>5. QED
    BY <2>1, <2>2, <2>3, <2>4 DEF Init, TypeOK, Phase, Place
<1>4. Counting /\ InHand /\ Artifacts /\ Requests /\ Position
  BY DEF Init, Counting, InHand, Artifacts, Requests, Position, Open, Clean, Resting
<1>5. Climbs /\ Rows
  BY <1>2 DEF Init, Climbs, Rows, IsLogged, Resting, Unfinished
<1>6. QED
  BY <1>3, <1>4, <1>5 DEF IInv

\* Between two cycles there is no task in hand.
LEMMA RestingKeeps ==
    ASSUME IInv, StopBySentinel \/ StopByBudget \/ BeginCycle \/ Tally \/ Start
    PROVE  IInv'
<1> USE EngineAssumption DEF stored, local, counters, Forget, EndCycle, SetTask, Write, Items, Resting, Open
<1>1. CASE StopBySentinel
  <2>1. TypeOK' /\ Counting' /\ InHand'
    BY <1>1 DEF IInv, StopBySentinel, TypeOK, Counting, InHand, Review, ReviewStatus, NoReview, Phase, Place, Status, Clean, Artifacts
  <2>2. Artifacts' /\ Requests' /\ Climbs'
    BY <1>1 DEF IInv, StopBySentinel, TypeOK, InHand, Artifacts, Requests, Climbs, Decision, review_rework_decision
  <2>3. Position' /\ Rows'
    BY <1>1 DEF IInv, StopBySentinel, TypeOK, InHand, Artifacts, Position, Rows, OnRung, MovedUnlogged, IsLogged, Unfinished, Delivering, Raising, NoItem
  <2>4. QED
    BY <2>1, <2>2, <2>3 DEF IInv
<1>2. CASE StopByBudget
  <2>1. TypeOK' /\ Counting' /\ InHand'
    BY <1>2 DEF IInv, StopByBudget, TypeOK, Counting, InHand, Review, ReviewStatus, NoReview, Phase, Place, Status, Clean, Artifacts
  <2>2. Artifacts' /\ Requests' /\ Climbs'
    BY <1>2 DEF IInv, StopByBudget, TypeOK, InHand, Artifacts, Requests, Climbs, Decision, review_rework_decision
  <2>3. Position' /\ Rows'
    BY <1>2 DEF IInv, StopByBudget, TypeOK, InHand, Artifacts, Position, Rows, OnRung, MovedUnlogged, IsLogged, Unfinished, Delivering, Raising, NoItem
  <2>4. QED
    BY <2>1, <2>2, <2>3 DEF IInv
<1>3. CASE BeginCycle
  <2>1. TypeOK' /\ Counting' /\ InHand'
    BY <1>3 DEF IInv, BeginCycle, TypeOK, Counting, InHand, Review, ReviewStatus, NoReview, Phase, Place, Status, Clean, Artifacts
  <2>2. Artifacts' /\ Requests' /\ Climbs'
    BY <1>3 DEF IInv, BeginCycle, TypeOK, InHand, Artifacts, Requests, Climbs, Decision, review_rework_decision
  <2>3. Position' /\ Rows'
    BY <1>3 DEF IInv, BeginCycle, TypeOK, InHand, Artifacts, Position, Rows, OnRung, MovedUnlogged, IsLogged, Unfinished, Delivering, Raising, NoItem
  <2>4. QED
    BY <2>1, <2>2, <2>3 DEF IInv
<1>4. CASE Tally
  <2>1. TypeOK' /\ Counting' /\ InHand'
    BY <1>4 DEF IInv, Tally, TypeOK, Counting, InHand, Review, ReviewStatus, NoReview, Phase, Place, Status, Clean, Artifacts
  <2>2. Artifacts' /\ Requests' /\ Climbs'
    BY <1>4 DEF IInv, Tally, TypeOK, InHand, Artifacts, Requests, Climbs, Decision, review_rework_decision
  <2>3. Position' /\ Rows'
    BY <1>4 DEF IInv, Tally, TypeOK, InHand, Artifacts, Position, Rows, OnRung, MovedUnlogged, IsLogged, Unfinished, Delivering, Raising, NoItem
  <2>4. QED
    BY <2>1, <2>2, <2>3 DEF IInv
<1>5. CASE Start
  <2>1. TypeOK' /\ Counting' /\ InHand'
    BY <1>5 DEF IInv, Start, TypeOK, Counting, InHand, Review, ReviewStatus, NoReview, Phase, Place, Status, Clean, Artifacts
  <2>2. Artifacts' /\ Requests' /\ Climbs'
    BY <1>5 DEF IInv, Start, TypeOK, InHand, Artifacts, Requests, Climbs, Decision, review_rework_decision
  <2>3. Position' /\ Rows'
    BY <1>5 DEF IInv, Start, TypeOK, InHand, Artifacts, Position, Rows, OnRung, MovedUnlogged, IsLogged, Unfinished, Delivering, Raising, NoItem
  <2>4. QED
    BY <2>1, <2>2, <2>3 DEF IInv
<1>6. QED
  BY <1>1, <1>2, <1>3, <1>4, <1>5

\* A cycle that ends early, a death and a request leave the stored state alone.
LEMMA LeavingKeeps ==
    ASSUME IInv, CycleCrashes \/ Kill \/ RequestShutdown \/ NothingToDo
    PROVE  IInv'
<1> USE EngineAssumption DEF stored, local, counters, Forget, EndCycle, SetTask, Write, Items, Resting, Open
<1>1. CASE CycleCrashes
  <2>1. TypeOK' /\ Counting' /\ InHand'
    BY <1>1 DEF IInv, CycleCrashes, Raising, TypeOK, Counting, InHand, Review, ReviewStatus, NoReview, Phase, Place, Status, Clean, Artifacts
  <2>2. Artifacts' /\ Requests' /\ Climbs'
    BY <1>1 DEF IInv, CycleCrashes, TypeOK, InHand, Artifacts, Requests, Climbs, Decision, review_rework_decision
  <2>3. Position' /\ Rows'
    BY <1>1 DEF IInv, CycleCrashes, TypeOK, InHand, Artifacts, Position, Rows, OnRung, MovedUnlogged, IsLogged, Unfinished, Delivering, Raising, NoItem
  <2>4. QED
    BY <2>1, <2>2, <2>3 DEF IInv
<1>2. CASE Kill
  <2>1. TypeOK' /\ Counting' /\ InHand'
    BY <1>2 DEF IInv, Kill, TypeOK, Counting, InHand, Review, ReviewStatus, NoReview, Phase, Place, Status, Clean, Artifacts
  <2>2. Artifacts' /\ Requests' /\ Climbs'
    BY <1>2 DEF IInv, Kill, TypeOK, InHand, Artifacts, Requests, Climbs, Decision, review_rework_decision
  <2>3. Position' /\ Rows'
    BY <1>2 DEF IInv, Kill, TypeOK, InHand, Artifacts, Position, Rows, OnRung, MovedUnlogged, IsLogged, Unfinished, Delivering, Raising, NoItem
  <2>4. QED
    BY <2>1, <2>2, <2>3 DEF IInv
<1>3. CASE RequestShutdown
  <2>1. TypeOK' /\ Counting' /\ InHand'
    BY <1>3 DEF IInv, RequestShutdown, TypeOK, Counting, InHand, Review, ReviewStatus, NoReview, Phase, Place, Status, Clean, Artifacts
  <2>2. Artifacts' /\ Requests' /\ Climbs'
    BY <1>3 DEF IInv, RequestShutdown, TypeOK, InHand, Artifacts, Requests, Climbs, Decision, review_rework_decision
  <2>3. Position' /\ Rows'
    BY <1>3 DEF IInv, RequestShutdown, TypeOK, InHand, Artifacts, Position, Rows, OnRung, MovedUnlogged, IsLogged, Unfinished, Delivering, Raising, NoItem
  <2>4. QED
    BY <2>1, <2>2, <2>3 DEF IInv
<1>4. CASE NothingToDo
  <2>1. TypeOK' /\ Counting' /\ InHand'
    BY <1>4 DEF IInv, NothingToDo, TypeOK, Counting, InHand, Review, ReviewStatus, NoReview, Phase, Place, Status, Clean, Artifacts
  <2>2. Artifacts' /\ Requests' /\ Climbs'
    BY <1>4 DEF IInv, NothingToDo, TypeOK, InHand, Artifacts, Requests, Climbs, Decision, review_rework_decision
  <2>3. Position' /\ Rows'
    BY <1>4 DEF IInv, NothingToDo, TypeOK, InHand, Artifacts, Position, Rows, OnRung, MovedUnlogged, IsLogged, Unfinished, Delivering, Raising, NoItem
  <2>4. QED
    BY <2>1, <2>2, <2>3 DEF IInv
<1>5. QED
  BY <1>1, <1>2, <1>3, <1>4

\* The review loop: what is decided on is the last artifact.
LEMMA ReviewKeeps ==
    ASSUME IInv, Reviewed \/ Rework \/ GiveUp
    PROVE  IInv'
<1> USE EngineAssumption DEF stored, local, counters, Forget, EndCycle, SetTask, Write, Items, Resting, Open
<1>1. CASE Reviewed
  <2>1. TypeOK' /\ Counting' /\ InHand'
    BY <1>1 DEF IInv, Reviewed, TypeOK, Counting, InHand, Review, ReviewStatus, NoReview, Phase, Place, Status, Clean, Artifacts
  <2>2. Artifacts' /\ Requests' /\ Climbs'
    BY <1>1 DEF IInv, Reviewed, TypeOK, InHand, Artifacts, Requests, Climbs, Decision, review_rework_decision
  <2>3. Position' /\ Rows'
    BY <1>1 DEF IInv, Reviewed, TypeOK, InHand, Artifacts, Position, Rows, OnRung, MovedUnlogged, IsLogged, Unfinished, Delivering, Raising, NoItem
  <2>4. QED
    BY <2>1, <2>2, <2>3 DEF IInv
<1>2. CASE Rework
  <2>1. TypeOK' /\ Counting' /\ InHand'
    BY <1>2 DEF IInv, Rework, TypeOK, Counting, InHand, Review, ReviewStatus, NoReview, Phase, Place, Status, Clean, Artifacts
  <2>2. Artifacts' /\ Requests' /\ Climbs'
    BY <1>2 DEF IInv, Rework, TypeOK, InHand, Artifacts, Requests, Climbs, Decision, review_rework_decision
  <2>3. Position' /\ Rows'
    BY <1>2 DEF IInv, Rework, TypeOK, InHand, Artifacts, Position, Rows, OnRung, MovedUnlogged, IsLogged, Unfinished, Delivering, Raising, NoItem
  <2>4. QED
    BY <2>1, <2>2, <2>3 DEF IInv
<1>3. CASE GiveUp
  <2>1. TypeOK' /\ Counting' /\ InHand'
    BY <1>3 DEF IInv, GiveUp, TypeOK, Counting, InHand, Review, ReviewStatus, NoReview, Phase, Place, Status, Clean, Artifacts
  <2>2. Artifacts' /\ Requests' /\ Climbs'
    BY <1>3 DEF IInv, GiveUp, TypeOK, InHand, Artifacts, Requests, Climbs, Decision, review_rework_decision
  <2>3. Position' /\ Rows'
    BY <1>3 DEF IInv, GiveUp, TypeOK, InHand, Artifacts, Position, Rows, OnRung, MovedUnlogged, IsLogged, Unfinished, Delivering, Raising, NoItem
  <2>4. QED
    BY <2>1, <2>2, <2>3 DEF IInv
<1>4. QED
  BY <1>1, <1>2, <1>3

\* The builder writes rows without an item.
LEMMA BuildKeeps ==
    ASSUME IInv, Build \/ Built \/ NotBuilt
    PROVE  IInv'
<1> USE EngineAssumption DEF stored, local, counters, Forget, EndCycle, SetTask, Write, Items, Resting, Open
<1>1. CASE Build
  <2>1. TypeOK' /\ Counting' /\ InHand'
    BY <1>1 DEF IInv, Build, TypeOK, Counting, InHand, Review, ReviewStatus, NoReview, Phase, Place, Status, Clean, Artifacts
  <2>2. Artifacts' /\ Requests' /\ Climbs'
    BY <1>1 DEF IInv, Build, TypeOK, InHand, Artifacts, Requests, Climbs, Decision, review_rework_decision
  <2>3. Position' /\ Rows'
    BY <1>1 DEF IInv, Build, TypeOK, InHand, Artifacts, Position, Rows, OnRung, MovedUnlogged, IsLogged, Unfinished, Delivering, Raising, NoItem
  <2>4. QED
    BY <2>1, <2>2, <2>3 DEF IInv
<1>2. CASE Built
  <2>1. TypeOK' /\ Counting' /\ InHand'
    BY <1>2 DEF IInv, Built, TypeOK, Counting, InHand, Review, ReviewStatus, NoReview, Phase, Place, Status, Clean, Artifacts
  <2>2. Artifacts' /\ Requests' /\ Climbs'
    BY <1>2 DEF IInv, Built, TypeOK, InHand, Artifacts, Requests, Climbs, Decision, review_rework_decision
  <2>3. Position' /\ Rows'
    BY <1>2 DEF IInv, Built, TypeOK, InHand, Artifacts, Position, Rows, OnRung, MovedUnlogged, IsLogged, Unfinished, Delivering, Raising, NoItem
  <2>4. QED
    BY <2>1, <2>2, <2>3 DEF IInv
<1>3. CASE NotBuilt
  <2>1. TypeOK' /\ Counting' /\ InHand'
    BY <1>3 DEF IInv, NotBuilt, TypeOK, Counting, InHand, Review, ReviewStatus, NoReview, Phase, Place, Status, Clean, Artifacts
  <2>2. Artifacts' /\ Requests' /\ Climbs'
    BY <1>3 DEF IInv, NotBuilt, TypeOK, InHand, Artifacts, Requests, Climbs, Decision, review_rework_decision
  <2>3. Position' /\ Rows'
    BY <1>3 DEF IInv, NotBuilt, TypeOK, InHand, Artifacts, Position, Rows, OnRung, MovedUnlogged, IsLogged, Unfinished, Delivering, Raising, NoItem
  <2>4. QED
    BY <2>1, <2>2, <2>3 DEF IInv
<1>4. QED
  BY <1>1, <1>2, <1>3

\* So do the other writers of the row.
LEMMA RecordKeeps ==
    ASSUME IInv, RecordBlocked \/ SkipLowValue \/ RecordDelivery \/ RecordFailure
    PROVE  IInv'
<1> USE EngineAssumption DEF stored, local, counters, Forget, EndCycle, SetTask, Write, Items, Resting, Open
<1>1. CASE RecordBlocked
  <2>1. TypeOK' /\ Counting' /\ InHand'
    BY <1>1 DEF IInv, RecordBlocked, TypeOK, Counting, InHand, Review, ReviewStatus, NoReview, Phase, Place, Status, Clean, Artifacts
  <2>2. Artifacts' /\ Requests' /\ Climbs'
    BY <1>1 DEF IInv, RecordBlocked, TypeOK, InHand, Artifacts, Requests, Climbs, Decision, review_rework_decision
  <2>3. Position' /\ Rows'
    BY <1>1 DEF IInv, RecordBlocked, TypeOK, InHand, Artifacts, Position, Rows, OnRung, MovedUnlogged, IsLogged, Unfinished, Delivering, Raising, NoItem
  <2>4. QED
    BY <2>1, <2>2, <2>3 DEF IInv
<1>2. CASE SkipLowValue
  <2>1. TypeOK' /\ Counting' /\ InHand'
    BY <1>2 DEF IInv, SkipLowValue, TypeOK, Counting, InHand, Review, ReviewStatus, NoReview, Phase, Place, Status, Clean, Artifacts
  <2>2. Artifacts' /\ Requests' /\ Climbs'
    BY <1>2 DEF IInv, SkipLowValue, TypeOK, InHand, Artifacts, Requests, Climbs, Decision, review_rework_decision
  <2>3. Position' /\ Rows'
    BY <1>2 DEF IInv, SkipLowValue, TypeOK, InHand, Artifacts, Position, Rows, OnRung, MovedUnlogged, IsLogged, Unfinished, Delivering, Raising, NoItem
  <2>4. QED
    BY <2>1, <2>2, <2>3 DEF IInv
<1>3. CASE RecordDelivery
  <2>1. TypeOK' /\ Counting' /\ InHand'
    BY <1>3 DEF IInv, RecordDelivery, TypeOK, Counting, InHand, Review, ReviewStatus, NoReview, Phase, Place, Status, Clean, Artifacts
  <2>2. Artifacts' /\ Requests' /\ Climbs'
    BY <1>3 DEF IInv, RecordDelivery, TypeOK, InHand, Artifacts, Requests, Climbs, Decision, review_rework_decision
  <2>3. Position' /\ Rows'
    BY <1>3 DEF IInv, RecordDelivery, TypeOK, InHand, Artifacts, Position, Rows, OnRung, MovedUnlogged, IsLogged, Unfinished, Delivering, Raising, NoItem
  <2>4. QED
    BY <2>1, <2>2, <2>3 DEF IInv
<1>4. CASE RecordFailure
  <2>1. TypeOK' /\ Counting' /\ InHand'
    BY <1>4 DEF IInv, RecordFailure, TypeOK, Counting, InHand, Review, ReviewStatus, NoReview, Phase, Place, Status, Clean, Artifacts
  <2>2. Artifacts' /\ Requests' /\ Climbs'
    BY <1>4 DEF IInv, RecordFailure, TypeOK, InHand, Artifacts, Requests, Climbs, Decision, review_rework_decision
  <2>3. Position' /\ Rows'
    BY <1>4 DEF IInv, RecordFailure, TypeOK, InHand, Artifacts, Position, Rows, OnRung, MovedUnlogged, IsLogged, Unfinished, Delivering, Raising, NoItem
  <2>4. QED
    BY <2>1, <2>2, <2>3 DEF IInv
<1>5. QED
  BY <1>1, <1>2, <1>3, <1>4

\* The handler: the item may have moved to OPERATE.
LEMMA FailingKeeps ==
    ASSUME IInv, DeliveryFails
    PROVE  IInv'
<1> USE EngineAssumption DEF stored, local, counters, Forget, EndCycle, SetTask, Write, Items, Resting, Open
<1>1. CASE DeliveryFails
  <2>1. TypeOK' /\ Counting' /\ InHand'
    BY <1>1 DEF IInv, DeliveryFails, Delivering, TypeOK, Counting, InHand, Review, ReviewStatus, NoReview, Phase, Place, Status, Clean, Artifacts
  <2>2. Artifacts' /\ Requests' /\ Climbs'
    BY <1>1 DEF IInv, DeliveryFails, TypeOK, InHand, Artifacts, Requests, Climbs, Decision, review_rework_decision
  <2>3. Position' /\ Rows'
    BY <1>1 DEF IInv, DeliveryFails, TypeOK, InHand, Artifacts, Position, Rows, OnRung, MovedUnlogged, IsLogged, Unfinished, Delivering, Raising, NoItem
  <2>4. QED
    BY <2>1, <2>2, <2>3 DEF IInv
<1>2. QED
  BY <1>1

\* An item that was never saved starts at PLAN.
LEMMA SelectKeeps ==
    ASSUME IInv, NEW t \in Task, Select(t)
    PROVE  IInv'
<1>1. /\ task' = t
      /\ \/ /\ phase' = "PLAN"
            /\ row' = [row EXCEPT ![t] = [row[t] EXCEPT !.item = "PLAN"]]
            /\ cached' = Items(row')
         \/ cached[t] # NoItem /\ phase' = cached[t] /\ UNCHANGED <<row, cached>>
      /\ pc = "plan" /\ pc' = "architect"
      /\ UNCHANGED <<climb, prs, sentinel, attempts, artifact, edits, review, cycle, completed, failed>>
  BY DEF Select, Selectable, Write, counters
<1>2. row[t] \in [status : Status, item : Phase \cup {NoItem}]
  BY DEF IInv, TypeOK
<1>3. row' \in [Task -> [status : Status, item : Phase \cup {NoItem}]] /\ phase' \in Phase
  <2>1. [row[t] EXCEPT !.item = "PLAN"] \in [status : Status, item : Phase \cup {NoItem}]
    BY <1>2 DEF Phase
  <2>2. QED
    BY <1>1, <2>1 DEF IInv, TypeOK, Phase
<1>31. cached' \in [Task -> Phase \cup {NoItem}]
  <2>1. Items(row') \in [Task -> Phase \cup {NoItem}]
    BY <1>3 DEF Items
  <2>2. QED
    BY <1>1, <2>1 DEF IInv, TypeOK
<1>4. TypeOK' /\ Counting' /\ InHand'
  BY <1>1, <1>3, <1>31 DEF IInv, TypeOK, Counting, InHand, Open, Clean, Resting, Place
<1>5. Artifacts' /\ Requests' /\ Climbs' /\ Position'
  BY <1>1 DEF IInv, Artifacts, Requests, Climbs, Position
<1>6. ASSUME NEW u \in Task
      PROVE  /\ row'[u].status = row[u].status
             /\ row'[u].item = row[u].item \/ row'[u].item = "PLAN"
  <2>1. row \in [Task -> [status : Status, item : Phase \cup {NoItem}]]
    BY DEF IInv, TypeOK
  <2>2. \/ row' = [row EXCEPT ![t] = [row[t] EXCEPT !.item = "PLAN"]]
        \/ row' = row
    BY <1>1
  <2>3. QED
    BY <1>2, <2>1, <2>2
<1>7. Rows'
  BY <1>1, <1>6 DEF IInv, Rows, IsLogged, Resting
<1>8. QED
  BY <1>4, <1>5, <1>7 DEF IInv

\* Only the ARCHITECT move starts a climb over: whatever was saved before.
LEMMA ArchitectKeeps ==
    ASSUME IInv, Architect
    PROVE  IInv'
<1>1. PICK force \in BOOLEAN :
        /\ force \/ can_advance(phase, "ARCHITECT")
        /\ climb' = [climb EXCEPT ![task] =
                       Append(<< >>, [from_phase |-> phase, to_phase |-> "ARCHITECT", forced |-> force])]
        /\ phase' = "ARCHITECT"
  BY DEF Architect, Advance, AdvanceBy
<1>2. /\ pc = "architect" /\ pc' = "build" /\ attempts' = 1
      /\ UNCHANGED <<row, cached, prs, sentinel, task, artifact, edits, review, cycle, completed, failed>>
  BY DEF Architect, counters
<1> DEFINE move == [from_phase |-> phase, to_phase |-> "ARCHITECT", forced |-> force]
           moves == Append(<< >>, move)
<1>3. task \in Task /\ attempts = 0 /\ artifact = 0 /\ phase \in Phase
  BY <1>2 DEF IInv, InHand, Resting, TypeOK
<1>4. move \in Move /\ move.to_phase = "ARCHITECT" /\ (move.forced \/ move.from_phase = "PLAN")
  BY <1>1, <1>3, EdgeFacts DEF Move, Phase
<1>5. IsClimb(moves) /\ moves # << >> /\ Len(moves) = 1 /\ moves[1] = move
  BY <1>4, ClimbStarts
<1>6. climb' = [climb EXCEPT ![task] = moves] /\ moves \in Seq(Move) /\ moves[1].to_phase = "ARCHITECT"
  BY <1>1, <1>4, <1>5 DEF IsClimb
<1> HIDE DEF moves
<1>7. TypeOK' /\ Counting' /\ InHand'
  <2>1. climb' \in [Task -> Seq(Move)]
    BY <1>6 DEF IInv, TypeOK
  <2>2. phase' \in Phase /\ attempts' \in Nat /\ pc' \in Place
    BY <1>1, <1>2 DEF Phase, Place
  <2>3. QED
    BY <1>2, <1>3, <2>1, <2>2 DEF IInv, TypeOK, Counting, InHand, Open, Clean, Resting
<1>8. Artifacts' /\ Requests' /\ Climbs'
  BY <1>2, <1>3, <1>5, <1>6 DEF IInv, TypeOK, Artifacts, Requests, Climbs
<1>9. Position'
  BY <1>1, <1>2, <1>3, <1>5, <1>6, RungFacts DEF IInv, TypeOK, Position, OnRung
<1>10. Rows'
  BY <1>2, <1>3, <1>5, <1>6 DEF IInv, TypeOK, Rows, IsLogged, Resting
<1>11. QED
  BY <1>7, <1>8, <1>9, <1>10 DEF IInv

\* The later moves go from rung to rung, with no item in the row meanwhile.
LEMMA RungKeeps ==
    ASSUME IInv, NEW k \in 1 .. 4, OnRung(climb[task], phase, k), row[task].item = NoItem,
           task \in Task, Advance(Rungs[k + 1]), UNCHANGED <<row, prs, task>>
    PROVE  /\ climb' \in [Task -> Seq(Move)] /\ phase' \in Phase
           /\ Climbs' /\ OnRung(climb'[task], phase', k + 1)
           /\ \A t \in Task : IsLogged(row[t], climb'[t])
<1> DEFINE move == [from_phase |-> phase, to_phase |-> Rungs[k + 1], forced |-> FALSE]
           moves == Append(climb[task], move)
<1>1. Rungs[k] \in Phase /\ Rungs[k + 1] \in Phase /\ Rungs[k + 1] # "ARCHITECT"
  BY RungFacts DEF Phase
<1>2. climb' = [climb EXCEPT ![task] = moves] /\ phase' = Rungs[k + 1]
  BY <1>1 DEF Advance, AdvanceBy
<1>3. IsClimb(climb[task]) /\ Len(climb[task]) = k /\ phase = Rungs[k]
  BY DEF IInv, Climbs, OnRung
<1>4. move \in Move /\ ~move.forced /\ move.from_phase = Rungs[k] /\ move.to_phase = Rungs[k + 1]
  BY <1>1, <1>3 DEF Move
<1> HIDE DEF move
<1>5. IsClimb(moves) /\ Len(moves) = k + 1
  <2> DEFINE before == climb[task]
  <2>1. IsClimb(before) /\ Len(before) = k
    BY <1>3
  <2> HIDE DEF before
  <2>2. IsClimb(Append(before, move)) /\ Len(Append(before, move)) = k + 1
    BY ONLY <1>4, <2>1, k \in 1 .. 4, ClimbGoesOn
  <2>3. QED
    BY <2>2 DEF before
<1>6. moves \in Seq(Move)
  BY <1>5 DEF IsClimb
<1> HIDE DEF moves
<1>7. climb' \in [Task -> Seq(Move)] /\ climb'[task] = moves
  BY <1>2, <1>6 DEF IInv, TypeOK
<1>8. \A t \in Task : t # task => climb'[t] = climb[t]
  BY <1>2 DEF IInv, TypeOK
<1>9. Climbs'
  BY <1>5, <1>7, <1>8 DEF IInv, Climbs
<1>10. \A t \in Task : IsLogged(row[t], climb'[t])
  BY <1>8 DEF IInv, Rows, IsLogged
<1>11. QED
  BY <1>1, <1>2, <1>5, <1>7, <1>9, <1>10 DEF OnRung

LEMMA ClimbKeeps ==
    ASSUME IInv, Implement \/ ReviewPassed \/ Govern \/ Operate
    PROVE  IInv'
<1> USE DEF counters
<1>1. CASE Implement
  <2>1. task \in Task /\ row[task].item = NoItem /\ OnRung(climb[task], phase, 1)
    BY <1>1 DEF IInv, InHand, Rows, Position, Implement, Resting
  <2>2. Advance(Rungs[1 + 1]) /\ UNCHANGED <<row, prs, task>>
    BY <1>1, RungFacts DEF Implement
  <2>3. /\ climb' \in [Task -> Seq(Move)] /\ phase' \in Phase
        /\ Climbs' /\ OnRung(climb'[task], phase', 1 + 1)
        /\ \A t \in Task : IsLogged(row[t], climb'[t])
    BY <2>1, <2>2, RungKeeps
  <2>4. TypeOK' /\ Counting' /\ InHand' /\ Artifacts' /\ Requests'
    BY <1>1, <2>3 DEF IInv, Implement, TypeOK, Counting, InHand, Artifacts, Requests, Open, Clean, Resting, Place
  <2>5. Position' /\ Rows'
    BY <1>1, <2>1, <2>3 DEF IInv, Implement, Position, Rows
  <2>6. QED
    BY <2>3, <2>4, <2>5 DEF IInv
<1>2. CASE ReviewPassed
  <2>1. task \in Task /\ row[task].item = NoItem /\ OnRung(climb[task], phase, 2)
    BY <1>2 DEF IInv, InHand, Rows, Position, ReviewPassed, Resting
  <2>2. Advance(Rungs[2 + 1]) /\ UNCHANGED <<row, prs, task>>
    BY <1>2, RungFacts DEF ReviewPassed
  <2>3. /\ climb' \in [Task -> Seq(Move)] /\ phase' \in Phase
        /\ Climbs' /\ OnRung(climb'[task], phase', 2 + 1)
        /\ \A t \in Task : IsLogged(row[t], climb'[t])
    BY <2>1, <2>2, RungKeeps
  <2>4. review.verdict = "pass"
    BY <1>2 DEF ReviewPassed, Decision, review_rework_decision
  <2>5. TypeOK' /\ Counting' /\ InHand' /\ Artifacts' /\ Requests'
    BY <1>2, <2>3, <2>4 DEF IInv, ReviewPassed, TypeOK, Counting, InHand, Artifacts, Requests, Open, Clean, Resting, Place
  <2>6. Position' /\ Rows'
    BY <1>2, <2>1, <2>3 DEF IInv, ReviewPassed, Position, Rows
  <2>7. QED
    BY <2>3, <2>5, <2>6 DEF IInv
<1>3. CASE Govern
  <2>1. task \in Task /\ row[task].item = NoItem /\ OnRung(climb[task], phase, 3)
    BY <1>3 DEF IInv, InHand, Rows, Position, Govern, Resting
  <2>2. Advance(Rungs[3 + 1]) /\ UNCHANGED <<row, prs, task>>
    BY <1>3, RungFacts DEF Govern
  <2>3. /\ climb' \in [Task -> Seq(Move)] /\ phase' \in Phase
        /\ Climbs' /\ OnRung(climb'[task], phase', 3 + 1)
        /\ \A t \in Task : IsLogged(row[t], climb'[t])
    BY <2>1, <2>2, RungKeeps
  <2>4. TypeOK' /\ Counting' /\ InHand' /\ Artifacts' /\ Requests'
    BY <1>3, <2>3 DEF IInv, Govern, TypeOK, Counting, InHand, Artifacts, Requests, Open, Clean, Resting, Place
  <2>5. Position' /\ Rows'
    BY <1>3, <2>1, <2>3 DEF IInv, Govern, Position, Rows
  <2>6. QED
    BY <2>3, <2>4, <2>5 DEF IInv
<1>4. CASE Operate
  <2>1. task \in Task /\ row[task].item = NoItem /\ OnRung(climb[task], phase, 4)
    BY <1>4 DEF IInv, InHand, Rows, Position, Operate, Resting
  <2>2. Advance(Rungs[4 + 1]) /\ UNCHANGED <<row, prs, task>>
    BY <1>4, RungFacts DEF Operate
  <2>3. /\ climb' \in [Task -> Seq(Move)] /\ phase' \in Phase
        /\ Climbs' /\ OnRung(climb'[task], phase', 4 + 1)
        /\ \A t \in Task : IsLogged(row[t], climb'[t])
    BY <2>1, <2>2, RungKeeps
  <2>4. TypeOK' /\ Counting' /\ InHand' /\ Artifacts' /\ Requests'
    BY <1>4, <2>3 DEF IInv, Operate, TypeOK, Counting, InHand, Artifacts, Requests, Open, Clean, Resting, Place
  <2>5. Position' /\ Rows'
    BY <1>4, <2>1, <2>3 DEF IInv, Operate, Position, Rows
  <2>6. QED
    BY <2>3, <2>4, <2>5 DEF IInv
<1>5. QED
  BY <1>1, <1>2, <1>3, <1>4

\* What is opened carries the artifact that passed; merging changes neither.
LEMMA RequestKeeps ==
    ASSUME IInv, OpenPullRequest \/ Merge
    PROVE  IInv'
<1> USE DEF counters, local
<1>1. task \in Task
  BY DEF IInv, InHand, Resting, OpenPullRequest, Merge
<1>2. /\ prs' \in [Task -> PullRequest]
      /\ \A t \in Task : prs'[t] # NoPullRequest => IsReviewed(prs'[t])
      /\ pc' = "merge" => IsReviewed(prs'[task])
  <2>1. CASE OpenPullRequest
    <3> DEFINE opened == [artifact |-> artifact, edits |-> edits, review |-> review,
                          merged |-> FALSE]
    <3>1. opened \in PullRequest /\ IsReviewed(opened)
      BY <2>1 DEF IInv, TypeOK, Artifacts, OpenPullRequest, PullRequest, IsReviewed
    <3>2. \/ prs' = prs /\ pc' = "record"
          \/ prs' = [prs EXCEPT ![task] = opened]
      BY <2>1 DEF OpenPullRequest
    <3> HIDE DEF opened
    <3>3. QED
      BY <1>1, <3>1, <3>2 DEF IInv, TypeOK, Requests
  <2>2. CASE Merge
    <3>1. PICK merged \in BOOLEAN :
            prs' = [prs EXCEPT ![task] = [prs[task] EXCEPT !.merged = merged]]
      BY <2>2 DEF Merge
    <3> DEFINE done == [prs[task] EXCEPT !.merged = merged]
    <3>2. done \in PullRequest /\ IsReviewed(done)
      <4>1. prs[task] \in PullRequest /\ IsReviewed(prs[task])
        BY <1>1, <2>2 DEF IInv, TypeOK, Requests, Merge
      <4>2. QED
        BY <4>1 DEF PullRequest, IsReviewed
    <3>3. prs' = [prs EXCEPT ![task] = done] /\ pc' = "record"
      BY <2>2, <3>1 DEF Merge
    <3> HIDE DEF done
    <3>4. QED
      BY <1>1, <3>2, <3>3 DEF IInv, TypeOK, Requests
  <2>3. QED
    BY <2>1, <2>2
<1>3. /\ pc \in {"deliver", "merge"} /\ pc' \in {"merge", "record"}
      /\ UNCHANGED <<row, cached, climb, sentinel, local, counters>>
  BY DEF OpenPullRequest, Merge
<1>4. TypeOK' /\ Counting' /\ InHand' /\ Artifacts'
  BY <1>2, <1>3 DEF IInv, TypeOK, Counting, InHand, Artifacts, Open, Clean, Resting, Place
<1>5. Requests' /\ Climbs' /\ Position' /\ Rows'
  BY <1>2, <1>3 DEF IInv, Requests, Climbs, Position, Rows, Resting
<1>6. QED
  BY <1>4, <1>5 DEF IInv

\* What is saved is where the climb ended, but for a move whose log failed.
LEMMA SavedRow ==
    ASSUME IInv, pc \in {"save", "saveDone"},
           NEW saved, saved = [row[task] EXCEPT !.item = phase]
    PROVE  /\ task \in Task /\ phase \in Phase
           /\ saved \in [status : Status, item : Phase \cup {NoItem}]
           /\ saved.status \notin Unfinished
           /\ IsLogged(saved, climb[task])
<1>1. task \in Task /\ phase \in Phase /\ row[task] \in [status : Status, item : Phase \cup {NoItem}]
  BY DEF IInv, InHand, TypeOK, Resting
<1>2. /\ saved \in [status : Status, item : Phase \cup {NoItem}]
      /\ saved.item = phase /\ saved.status = row[task].status
  BY <1>1
<1>3. saved.status \notin Unfinished
  BY <1>2 DEF IInv, Rows
<1>4. IsLogged(saved, climb[task])
  <2>1. IsClimb(climb[task])
    BY <1>1 DEF IInv, Climbs
  <2>2. ASSUME NEW k \in 1 .. 5, OnRung(climb[task], phase, k)
        PROVE  IsLogged(saved, climb[task])
    BY <1>2, <2>1, <2>2, TopRung DEF OnRung, IsLogged
  <2>3. ASSUME MovedUnlogged(climb[task], phase), row[task].status = "FAILED"
        PROVE  IsLogged(saved, climb[task])
    <3>1. climb[task] # << >> /\ climb[task][Len(climb[task])].to_phase = "GOVERN"
      BY <2>1, <2>3, TopRung, RungFacts DEF MovedUnlogged
    <3>2. QED
      BY <1>2, <2>3, <3>1 DEF MovedUnlogged, IsLogged
  <2>4. QED
    BY <2>2, <2>3 DEF IInv, Position
<1>5. QED
  BY <1>1, <1>2, <1>3, <1>4

\* A save that goes through, or whose event is lost, or that only the cache has.
LEMMA KeptRow ==
    ASSUME IInv, pc \in {"save", "saveDone"}, KeptInCache(task, phase),
           UNCHANGED <<climb, prs>>
    PROVE  /\ row' \in [Task -> [status : Status, item : Phase \cup {NoItem}]]
           /\ cached' \in [Task -> Phase \cup {NoItem}]
           /\ \A t \in Task : IsLogged(row'[t], climb[t])
           /\ \A t \in Task : row'[t].status \in Unfinished => row'[t].item \in {NoItem, "PLAN"}
<1> DEFINE saved == [row[task] EXCEPT !.item = phase]
<1>1. /\ task \in Task /\ phase \in Phase
      /\ saved \in [status : Status, item : Phase \cup {NoItem}]
      /\ saved.status \notin Unfinished
      /\ IsLogged(saved, climb[task])
  BY SavedRow
<1>2. \/ cached' = [cached EXCEPT ![task] = phase] /\ row' = row
      \/ row' = [row EXCEPT ![task] = saved] /\ cached' = Items(row')
  BY DEF KeptInCache, Write
<1> HIDE DEF saved
<1>3. row' \in [Task -> [status : Status, item : Phase \cup {NoItem}]]
  BY <1>1, <1>2 DEF IInv, TypeOK
<1>4. cached' \in [Task -> Phase \cup {NoItem}]
  <2>1. Items(row') \in [Task -> Phase \cup {NoItem}]
    BY <1>3 DEF Items
  <2>2. QED
    BY <1>1, <1>2, <2>1 DEF IInv, TypeOK
<1>5. \A t \in Task : row'[t] = row[t] \/ (t = task /\ row'[t] = saved)
  BY <1>1, <1>2 DEF IInv, TypeOK
<1>6. QED
  BY <1>1, <1>3, <1>4, <1>5 DEF IInv, Rows

LEMMA SaveKeeps ==
    ASSUME IInv, Save \/ SaveFails
    PROVE  IInv'
<1>1. /\ pc \in {"save", "saveDone"} /\ KeptInCache(task, phase)
      /\ \/ pc' = "tally" /\ Forget /\ (failed' = failed \/ (pc = "save" /\ failed' = failed + 1))
         \/ /\ pc = "saveDone" /\ pc' = "undelivered" /\ failed' = failed + 1
            /\ UNCHANGED <<task, phase, attempts, artifact, edits, review>>
      /\ UNCHANGED <<climb, prs, sentinel, cycle, completed>>
  BY DEF Save, SaveFails, KeptInCache, Write, EndCycle, counters, local
<1>2. /\ row' \in [Task -> [status : Status, item : Phase \cup {NoItem}]]
      /\ cached' \in [Task -> Phase \cup {NoItem}]
      /\ \A t \in Task : IsLogged(row'[t], climb[t])
      /\ \A t \in Task : row'[t].status \in Unfinished => row'[t].item \in {NoItem, "PLAN"}
  BY <1>1, KeptRow
<1>3. TypeOK' /\ Counting' /\ InHand'
  BY <1>1, <1>2, EngineAssumption
     DEF IInv, TypeOK, Counting, InHand, Open, Clean, Resting, Place, Phase, NoReview, Review, Forget
<1>4. Artifacts' /\ Requests' /\ Climbs' /\ Position'
  BY <1>1 DEF IInv, Artifacts, Requests, Climbs, Position
<1>5. Rows'
  BY <1>1, <1>2 DEF IInv, Rows, Resting
<1>6. QED
  BY <1>3, <1>4, <1>5 DEF IInv

\* A new item that is not saved, or whose event is lost: the cycle is over.
LEMMA SelectFailsKeeps ==
    ASSUME IInv, NEW t \in Task, SelectFails(t)
    PROVE  IInv'
<1> DEFINE saved == [row[t] EXCEPT !.item = "PLAN"]
<1>1. /\ pc = "plan" /\ pc' = "tally" /\ Forget /\ failed' = failed + 1
      /\ \/ cached' = [cached EXCEPT ![t] = "PLAN"] /\ row' = row
         \/ row' = [row EXCEPT ![t] = saved] /\ cached' = Items(row')
      /\ UNCHANGED <<climb, prs, sentinel, cycle, completed>>
  BY DEF SelectFails, Selectable, KeptInCache, Write, EndCycle
<1>2. saved \in [status : Status, item : Phase \cup {NoItem}] /\ saved.item = "PLAN"
  BY DEF IInv, TypeOK, Phase
<1> HIDE DEF saved
<1>3. row' \in [Task -> [status : Status, item : Phase \cup {NoItem}]]
  BY <1>1, <1>2 DEF IInv, TypeOK
<1>4. cached' \in [Task -> Phase \cup {NoItem}]
  <2>1. Items(row') \in [Task -> Phase \cup {NoItem}]
    BY <1>3 DEF Items
  <2>2. QED
    BY <1>1, <2>1 DEF IInv, TypeOK, Phase
<1>5. \A u \in Task : row'[u] = row[u] \/ row'[u].item = "PLAN"
  BY <1>1, <1>2 DEF IInv, TypeOK
<1>6. TypeOK' /\ Counting' /\ InHand'
  BY <1>1, <1>3, <1>4, EngineAssumption
     DEF IInv, TypeOK, Counting, InHand, Open, Clean, Resting, Place, Phase, NoReview, Review, Forget
<1>7. Artifacts' /\ Requests' /\ Climbs' /\ Position'
  BY <1>1 DEF IInv, Artifacts, Requests, Climbs, Position
<1>8. Rows'
  BY <1>1, <1>5 DEF IInv, Rows, IsLogged, Resting
<1>9. QED
  BY <1>6, <1>7, <1>8 DEF IInv

\* Others write the artifact: the review is of an older content, never a newer one.
LEMMA OverwriteKeeps ==
    ASSUME IInv, Overwrite
    PROVE  IInv'
<1>1. /\ edits' = edits + 1 /\ edits' \in 0 .. MaxEdits
      /\ UNCHANGED <<row, cached, climb, prs, sentinel, pc, task, phase, attempts, artifact,
                     review, cycle, completed, failed>>
  BY EngineAssumption DEF Overwrite, stored, counters, IInv, TypeOK
<1>2. TypeOK' /\ Counting' /\ InHand' /\ Requests' /\ Climbs' /\ Position' /\ Rows'
  BY <1>1 DEF IInv, TypeOK, Counting, InHand, Requests, Climbs, Position, Rows
<1>3. Artifacts'
  BY <1>1, EngineAssumption DEF IInv, TypeOK, Artifacts, Review
<1>4. QED
  BY <1>2, <1>3 DEF IInv

LEMMA NextInvariant ==
    ASSUME IInv, [Next]_vars
    PROVE  IInv'
<1>1. CASE UNCHANGED vars
  BY <1>1 DEF vars, stored, local, counters, IInv, TypeOK, Counting, InHand, Artifacts,
              Requests, Climbs, Position, Rows
<1>2. CASE Run
  BY <1>2, RestingKeeps, LeavingKeeps DEF Run
<1>3. CASE Plan
  BY <1>3, SelectKeeps, SelectFailsKeeps, LeavingKeeps, ArchitectKeeps DEF Plan
<1>4. CASE Make
  BY <1>4, BuildKeeps, ReviewKeeps, RecordKeeps, ClimbKeeps DEF Make
<1>5. CASE Deliver
  BY <1>5, RecordKeeps, RequestKeeps, ClimbKeeps, FailingKeeps, SaveKeeps DEF Deliver
<1>6. CASE Start \/ Kill \/ RequestShutdown \/ Overwrite
  BY <1>6, RestingKeeps, LeavingKeeps, OverwriteKeeps
<1>7. QED
  BY <1>1, <1>2, <1>3, <1>4, <1>5, <1>6 DEF Next, Step

LEMMA EngineInvariant == Spec => []IInv
<1>1. IInv /\ [Next]_vars => IInv'
  BY NextInvariant
<1>2. QED
  BY <1>1, InitInvariant, PTL DEF Spec

-------------------------------------------------------------------------------
(* The theorems.                                                                *)

(* The types; tasks_completed never exceeds the cycles, and no cycle counts     *)
(* more than two failures.                                                      *)
THEOREM TypeCorrect == Spec => []TypeOK
<1>1. IInv => TypeOK
  BY DEF IInv
<1>2. QED
  BY <1>1, EngineInvariant, PTL

(* A pull request of _deliver() carries the artifact the critic passed last,    *)
(* after any number of reworks, failures and restarts, as the critic saw it or  *)
(* as others have rewritten it since.                                           *)
THEOREM DeliveryCorrect == Spec => []DeliveredWasReviewed
<1>1. IInv => DeliveredWasReviewed
  BY DEF IInv, Requests, IsReviewed, DeliveredWasReviewed
<1>2. QED
  BY <1>1, EngineInvariant, PTL

(* A task whose last climb reached OPERATE went up the whole ladder in one go:  *)
(* run_cycle() forces nothing but the first move.                              *)
THEOREM GovernanceCorrect == Spec => []GovernedDelivery
<1>1. IInv => GovernedDelivery
  BY WholeLadder DEF IInv, Climbs, GovernedDelivery
<1>2. QED
  BY <1>1, EngineInvariant, PTL

(* The work item that save_work_item() puts into state.json is where events.jsonl *)
(* says, but for a cycle that ended right after ARCHITECT and an item that      *)
(* moved to OPERATE while the log failed.                                      *)
THEOREM SavedCorrect == Spec => []SavedPhaseWasLogged
<1>1. IInv => SavedPhaseWasLogged
  <2> SUFFICES ASSUME IInv, NEW t \in Task, row[t].item \notin {NoItem, "PLAN"}
               PROVE  /\ climb[t] # << >>
                      /\ LET reached == climb[t][Len(climb[t])].to_phase
                         IN  \/ reached \in {row[t].item, "ARCHITECT"}
                             \/ /\ row[t] = [status |-> "FAILED", item |-> "OPERATE"]
                                /\ reached = "GOVERN"
    BY DEF SavedPhaseWasLogged
  <2>1. IsLogged(row[t], climb[t])
    BY DEF IInv, Rows
  <2>2. row[t] \in [status : Status, item : Phase \cup {NoItem}]
    BY DEF IInv, TypeOK
  <2>3. row[t] = [status |-> row[t].status, item |-> row[t].item]
    BY <2>2
  <2>4. QED
    BY <2>1, <2>3 DEF IsLogged
<1>2. QED
  BY <1>1, EngineInvariant, PTL

(* A row that a build, cut short by an exception or a death, left at IN_PROGRESS *)
(* or BUILT carries no phase, so that its task starts over (set_task() of        *)
(* _build() replaces the whole row).                                             *)
THEOREM RestartCorrect == Spec => []CutShortStartsOver
<1>1. IInv => CutShortStartsOver
  BY DEF IInv, Rows, Unfinished, CutShortStartsOver
<1>2. QED
  BY <1>1, EngineInvariant, PTL
===============================================================================
