--------------------------- MODULE ResearchProofs ---------------------------
(***************************************************************************)
(* Proofs about the research side of the system:                           *)
(*   - ShadowTracking, for any versions, returns, horizons and limits of   *)
(*     the drift check, and any number of days and predictions.  Nothing   *)
(*     is assumed of the verdict: whatever ShouldSuspend says of the track *)
(*     record, the suspension does no harm.                                *)
(*   - FactorGovernance, for any factors, labels, dates, bars and sizes of *)
(*     the walk-forward evaluation, and any number of registrations and    *)
(*     retirements while one runs.                                         *)
(*   - The statistics of EvaluationMetrics: the drawdown of any returns,   *)
(*     the distance of any two samples, the bins of any values.            *)
(*   - The splits and walks of WalkForward and the baseline gate, for any  *)
(*     days, sizes and predictions; ParameterSchema, for any two sets of   *)
(*     parameters.                                                         *)
(***************************************************************************)
EXTENDS MCResearch, FiniteSetTheorems, NaturalsInduction, SequenceTheorems, WellFoundedInduction, TLAPS

(* A sum of returns, or None.  That a sum is a number takes an induction   *)
(* and is not needed.                                                      *)
Answers == {None} \cup {SumOf(returns) : returns \in Seq(Moves)}

Outcomes == [version : Versions, asOf : Nat, horizon : Horizons, expected : Moves,
             actual : Answers, settledAt : Nat \cup {None}]

(* Types, and of the drift check: where it stands on a version, the version *)
(* is one, and before the swap it has seen a row that may be suspended.    *)
Typed ==
  /\ moves \in Seq(Moves)
  /\ outcomes \in Seq(Outcomes)
  /\ stage \in [Versions -> StrategyState]
  /\ monitor \in [pc : {"idle", "load", "swap"}, version : Versions \cup {None},
                  seen : StrategyState \cup {Absent}]
  /\ dropped \subseteq Versions

MonitorFits ==
  /\ monitor.pc # "idle" => monitor.version \in Versions
  /\ monitor.pc = "swap" => "SUSPENDED" \in Allowed(monitor.seen)

(* No prediction is recorded for a day to come; a settled one is dated. *)
RecordedInTime ==
  \A k \in DOMAIN outcomes : /\ outcomes[k].asOf <= Today
                             /\ Settled(outcomes[k]) => outcomes[k].settledAt \in Nat

ShadowInv == Typed /\ MonitorFits /\ RecordedInTime /\ TrackRecordIsHonest /\ DroppedStaysOut

-----------------------------------------------------------------------------
(* A day more leaves the returns before it as they were. *)
LEMMA PastStays ==
  ASSUME NEW S, NEW past \in Seq(S), NEW x \in S, NEW i \in Nat, NEW j \in 0..Len(past)
  PROVE  SubSeq(Append(past, x), i + 1, j) = SubSeq(past, i + 1, j)
OBVIOUS

LEMMA OutcomeDates ==
  ASSUME NEW o \in Outcomes
  PROVE  o.asOf \in Nat /\ SettleDate(o) \in Nat
<1>1. o.asOf \in Nat /\ o.horizon \in Nat
  BY ShadowAssumption DEF Outcomes
<1>2. QED
  BY <1>1 DEF SettleDate

LEMMA InitShadowInv == ShadowInit => ShadowInv
<1> SUFFICES ASSUME ShadowInit PROVE ShadowInv
  OBVIOUS
<1>1. moves = <<>> /\ outcomes = <<>> /\ DOMAIN outcomes = {}
  BY DEF ShadowInit
<1>2. Typed
  <2>1. moves \in Seq(Moves) /\ outcomes \in Seq(Outcomes)
    BY <1>1
  <2>2. QED
    BY <2>1 DEF ShadowInit, Typed, Idle, Absent, StrategyState
<1>3. QED
  BY <1>1, <1>2 DEF ShadowInit, ShadowInv, MonitorFits, RecordedInTime, TrackRecordIsHonest,
                    DroppedStaysOut, Idle

LEMMA NextDayInv == ASSUME ShadowInv, NextDay PROVE ShadowInv'
<1>1. PICK m \in Moves : moves' = Append(moves, m)
  BY DEF NextDay
<1>2. moves \in Seq(Moves) /\ moves' \in Seq(Moves) /\ Today' = Today + 1 /\ Today \in Nat
  BY <1>1 DEF ShadowInv, Typed, Today
<1>3. UNCHANGED <<outcomes, stage, monitor, dropped>>
  BY DEF NextDay
<1>4. ASSUME NEW k \in DOMAIN outcomes, Settled(outcomes[k])
      PROVE  /\ SettleDate(outcomes[k]) <= outcomes[k].settledAt
             /\ outcomes[k].settledAt <= Today'
             /\ outcomes[k].actual = Realised(outcomes[k].asOf, SettleDate(outcomes[k]))'
  <2> DEFINE o == outcomes[k]
  <2>1. o \in Outcomes /\ o.settledAt \in Nat
    BY <1>4 DEF ShadowInv, Typed, RecordedInTime
  <2>2. /\ SettleDate(o) <= o.settledAt /\ o.settledAt <= Today
        /\ o.actual = Realised(o.asOf, SettleDate(o))
    BY <1>4 DEF ShadowInv, TrackRecordIsHonest
  <2>3. o.asOf \in Nat /\ SettleDate(o) \in 0..Len(moves)
    <3>1. o.asOf \in Nat /\ SettleDate(o) \in Nat
      BY <2>1, OutcomeDates
    <3>2. SettleDate(o) <= Today
      BY <1>2, <2>1, <2>2, <3>1
    <3>3. QED
      BY <1>2, <3>1, <3>2 DEF Today
  <2>4. SubSeq(moves', o.asOf + 1, SettleDate(o)) = SubSeq(moves, o.asOf + 1, SettleDate(o))
    BY <1>1, <1>2, <2>3, PastStays
  <2>5. Realised(o.asOf, SettleDate(o))' = Realised(o.asOf, SettleDate(o))
    BY <1>3, <2>4 DEF Realised, SettleDate
  <2>6. QED
    BY <1>2, <1>3, <2>1, <2>2, <2>5
<1>5. TrackRecordIsHonest'
  BY <1>3, <1>4 DEF TrackRecordIsHonest, Settled, SettleDate
<1>6. RecordedInTime'
  <2>1. \A k \in DOMAIN outcomes : outcomes[k] \in Outcomes
    BY DEF ShadowInv, Typed
  <2>2. QED
    BY <1>2, <1>3, <2>1 DEF ShadowInv, RecordedInTime, Settled, Outcomes
<1>7. QED
  BY <1>2, <1>3, <1>5, <1>6 DEF ShadowInv, Typed, MonitorFits, DroppedStaysOut

LEMMA RecordInv ==
  ASSUME ShadowInv, NEW v \in Versions, NEW asOf \in 0..Today, NEW horizon \in Horizons,
         NEW expected \in Moves, RecordPrediction(v, asOf, horizon, expected)
  PROVE  ShadowInv'
<1> DEFINE o == [version |-> v, asOf |-> asOf, horizon |-> horizon, expected |-> expected,
                 actual |-> None, settledAt |-> None]
<1>1. outcomes' = Append(outcomes, o) /\ UNCHANGED <<moves, stage, monitor, dropped>>
  BY DEF RecordPrediction
<1>2. o \in Outcomes /\ outcomes \in Seq(Outcomes) /\ Today \in Nat /\ ~Settled(o) /\ o.asOf = asOf
  BY DEF ShadowInv, Typed, Outcomes, Answers, Today, Settled
<1> HIDE DEF o
<1>3. outcomes' \in Seq(Outcomes)
  BY <1>1, <1>2
<1>4. ASSUME NEW k \in DOMAIN outcomes'
      PROVE  outcomes'[k] = o \/ (k \in DOMAIN outcomes /\ outcomes'[k] = outcomes[k])
  BY <1>1, <1>2
<1>5. RecordedInTime'
  BY <1>1, <1>2, <1>4 DEF ShadowInv, RecordedInTime, Today, Settled
<1>6. TrackRecordIsHonest'
  BY <1>1, <1>2, <1>4 DEF ShadowInv, TrackRecordIsHonest, Today, Settled, SettleDate, Realised
<1>7. QED
  BY <1>1, <1>3, <1>5, <1>6 DEF ShadowInv, Typed, MonitorFits, DroppedStaysOut

(* What is settled is due, so all the days of its horizon have passed. *)
LEMMA SettleInv ==
  ASSUME ShadowInv, NEW ready \in SUBSET DOMAIN outcomes, SettleDue(ready)
  PROVE  ShadowInv'
<1>1. /\ outcomes' = [k \in DOMAIN outcomes |->
                        IF k \in ready THEN Settle(outcomes[k], Today) ELSE outcomes[k]]
      /\ \A k \in ready : ~Settled(outcomes[k]) /\ SettleDate(outcomes[k]) <= Today
      /\ UNCHANGED <<moves, stage, monitor, dropped>>
  BY DEF SettleDue
<1>2. outcomes \in Seq(Outcomes) /\ moves \in Seq(Moves) /\ Today \in Nat /\ Today' = Today
  BY <1>1 DEF ShadowInv, Typed, Today
<1>3. ASSUME NEW k \in ready
      PROVE  /\ outcomes'[k] \in Outcomes
             /\ outcomes'[k].asOf = outcomes[k].asOf
             /\ SettleDate(outcomes'[k]) = SettleDate(outcomes[k])
             /\ outcomes'[k].settledAt = Today
             /\ outcomes'[k].actual = Realised(outcomes[k].asOf, SettleDate(outcomes[k]))
  <2> DEFINE o == outcomes[k]
  <2>1. o \in Outcomes
    BY <1>2
  <2>2. SubSeq(moves, o.asOf + 1, SettleDate(o)) \in Seq(Moves)
    <3>1. o.asOf \in Nat /\ SettleDate(o) \in 0..Len(moves)
      BY <1>1, <1>2, <2>1, OutcomeDates DEF Today
    <3>2. \A i \in o.asOf + 1..SettleDate(o) : i \in DOMAIN moves
      BY <1>2, <3>1
    <3>3. QED
      BY <1>2, <3>1, <3>2, SubSeqProperties
  <2>3. Realised(o.asOf, SettleDate(o)) \in Answers
    BY <2>2 DEF Realised, Answers
  <2>4. outcomes'[k] = [o EXCEPT !.actual = Realised(o.asOf, SettleDate(o)), !.settledAt = Today]
    BY <1>1 DEF Settle
  <2>5. QED
    BY <1>2, <2>1, <2>3, <2>4 DEF Outcomes, SettleDate
<1>4. ASSUME NEW k \in DOMAIN outcomes \ ready PROVE outcomes'[k] = outcomes[k]
  BY <1>1
<1>5. outcomes' \in Seq(Outcomes)
  <2>1. DOMAIN outcomes = 1..Len(outcomes) /\ Len(outcomes) \in Nat
    BY <1>2
  <2>2. \A k \in DOMAIN outcomes : outcomes[k] \in Outcomes
    BY <1>2
  <2>3. \A k \in 1..Len(outcomes) : outcomes'[k] \in Outcomes
    BY <1>3, <1>4, <2>1, <2>2
  <2>4. outcomes' = [k \in 1..Len(outcomes) |-> outcomes'[k]]
    BY <1>1, <2>1
  <2>5. QED
    BY <2>1, <2>3, <2>4
<1>6. DOMAIN outcomes' = DOMAIN outcomes
  BY <1>1
<1>7. RecordedInTime'
  BY <1>2, <1>3, <1>4, <1>6 DEF ShadowInv, RecordedInTime, Settled
<1>8. TrackRecordIsHonest'
  <2> SUFFICES ASSUME NEW k \in DOMAIN outcomes, Settled(outcomes'[k])
               PROVE  /\ SettleDate(outcomes'[k]) <= outcomes'[k].settledAt
                      /\ outcomes'[k].settledAt <= Today
                      /\ outcomes'[k].actual
                           = Realised(outcomes'[k].asOf, SettleDate(outcomes'[k]))
    BY <1>1, <1>2, <1>6 DEF TrackRecordIsHonest, Settled, SettleDate, Realised
  <2>1. CASE k \in ready
    <3>1. SettleDate(outcomes'[k]) <= outcomes'[k].settledAt
      BY <1>1, <1>3, <2>1
    <3>2. outcomes'[k].settledAt <= Today
      BY <1>2, <1>3, <2>1
    <3>3. outcomes'[k].actual = Realised(outcomes'[k].asOf, SettleDate(outcomes'[k]))
      BY <1>3, <2>1
    <3>4. QED
      BY <3>1, <3>2, <3>3
  <2>2. CASE k \notin ready
    BY <1>4, <2>2 DEF ShadowInv, TrackRecordIsHonest, Settled
  <2>3. QED
    BY <2>1, <2>2
<1>9. QED
  BY <1>1, <1>5, <1>7, <1>8 DEF ShadowInv, Typed, MonitorFits, DroppedStaysOut

-----------------------------------------------------------------------------
(* The drift check and other people's decisions. *)

LEMMA TrackerAtRest ==
  ASSUME ShadowInv, UNCHANGED <<moves, outcomes>>
  PROVE  /\ RecordedInTime' /\ TrackRecordIsHonest'
         /\ moves' \in Seq(Moves) /\ outcomes' \in Seq(Outcomes)
BY DEF ShadowInv, Typed, RecordedInTime, TrackRecordIsHonest, Today, Settled, SettleDate, Realised

LEMMA CheckInv ==
  ASSUME ShadowInv, NEW v \in Versions, CheckDrift(v)
  PROVE  ShadowInv'
BY TrackerAtRest DEF CheckDrift, ShadowInv, Typed, MonitorFits, DroppedStaysOut, Idle, Absent

LEMMA SuspendLoadInv == ASSUME ShadowInv, SuspendLoad PROVE ShadowInv'
<1>1. /\ monitor.version \in Versions /\ stage \in [Versions -> StrategyState]
      /\ UNCHANGED <<moves, outcomes, stage, dropped>>
  BY DEF SuspendLoad, ShadowInv, Typed, MonitorFits
<1>2. CASE "SUSPENDED" \in Allowed(stage[monitor.version])
  <2>1. monitor' = [monitor EXCEPT !.pc = "swap", !.seen = stage[monitor.version]]
    BY <1>2 DEF SuspendLoad
  <2>2. QED
    BY <1>1, <1>2, <2>1, TrackerAtRest DEF ShadowInv, Typed, MonitorFits, DroppedStaysOut
<1>3. CASE monitor' = Idle
  BY <1>1, <1>3, TrackerAtRest
  DEF ShadowInv, Typed, MonitorFits, DroppedStaysOut, Idle, Absent
<1>4. QED
  BY <1>2, <1>3 DEF SuspendLoad

LEMMA SuspendSwapInv == ASSUME ShadowInv, SuspendSwap PROVE ShadowInv'
<1>1. monitor.version \in Versions /\ monitor' = Idle
  BY DEF SuspendSwap, ShadowInv, MonitorFits
<1>2. stage' \in [Versions -> StrategyState] /\ dropped' \subseteq Versions /\ DroppedStaysOut'
  BY <1>1 DEF SuspendSwap, ShadowInv, Typed, DroppedStaysOut, StrategyState
<1>3. UNCHANGED <<moves, outcomes>>
  BY DEF SuspendSwap
<1>4. QED
  BY <1>1, <1>2, <1>3, TrackerAtRest DEF ShadowInv, Typed, MonitorFits, Idle, Absent

(* No way leads back from SUSPENDED or RETIRED. *)
LEMMA DecideInv ==
  ASSUME ShadowInv, NEW v \in Versions, NEW to \in StrategyState, Decide(v, to)
  PROVE  ShadowInv'
<1>1. stage \in [Versions -> StrategyState] /\ dropped \subseteq Versions
  BY DEF ShadowInv, Typed
<1>2. to \in Allowed(stage[v]) /\ stage' = [stage EXCEPT ![v] = to]
  BY DEF Decide
<1>3. stage[v] \in {"SUSPENDED", "RETIRED"} => to \in {"SUSPENDED", "RETIRED"}
  BY <1>2 DEF Allowed
<1>4. DroppedStaysOut'
  BY <1>1, <1>2, <1>3 DEF Decide, ShadowInv, DroppedStaysOut
<1>5. UNCHANGED <<moves, outcomes, monitor, dropped>>
  BY DEF Decide
<1>6. QED
  BY <1>1, <1>2, <1>4, <1>5, TrackerAtRest DEF ShadowInv, Typed, MonitorFits

LEMMA NextShadowInv == ShadowInv /\ [ShadowNext]_shadowVars => ShadowInv'
<1> SUFFICES ASSUME ShadowInv, [ShadowNext]_shadowVars PROVE ShadowInv'
  OBVIOUS
<1>1. CASE UNCHANGED shadowVars
  BY <1>1, TrackerAtRest DEF shadowVars, ShadowInv, Typed, MonitorFits, DroppedStaysOut
<1>2. CASE ShadowNext
  BY <1>2, NextDayInv, RecordInv, SettleInv, CheckInv, SuspendLoadInv, SuspendSwapInv, DecideInv
  DEF ShadowNext
<1>3. QED
  BY <1>1, <1>2

LEMMA ShadowInvHolds == ShadowSpec => []ShadowInv
BY InitShadowInv, NextShadowInv, PTL DEF ShadowSpec

(* Every variable keeps its type, and the drift check its place. *)
THEOREM TypeCorrect == ShadowSpec => []Typed
<1>1. ShadowInv => Typed
  BY DEF ShadowInv
<1>2. QED
  BY <1>1, ShadowInvHolds, PTL

(* However late and in however many calls a prediction is settled, it is   *)
(* against the return of its own horizon, all of it past.                  *)
THEOREM RecordHonest == ShadowSpec => []TrackRecordIsHonest
<1>1. ShadowInv => TrackRecordIsHonest
  BY DEF ShadowInv
<1>2. QED
  BY <1>1, ShadowInvHolds, PTL

(* A version the drift check has reported as suspended is out of service   *)
(* from then on, whoever decides what beside it.                           *)
THEOREM DroppedIsOut == ShadowSpec => []DroppedStaysOut
<1>1. ShadowInv => DroppedStaysOut
  BY DEF ShadowInv
<1>2. QED
  BY <1>1, ShadowInvHolds, PTL

-----------------------------------------------------------------------------
(* Verdicts and the lifecycle. *)

LEMMA LadderInOrder ==
  /\ Lifecycle!Climbs("DRAFT", "VALIDATED")
  /\ Lifecycle!Climbs("VALIDATED", "BACKTESTED")
  /\ Lifecycle!Climbs("BACKTESTED", "SHADOW")
  /\ Lifecycle!Climbs("SHADOW", "CANARY")
  /\ Lifecycle!Climbs("CANARY", "PRODUCTION")
  /\ Lifecycle!Rungs = {"DRAFT", "VALIDATED", "BACKTESTED", "SHADOW", "CANARY", "PRODUCTION"}
<1>1. DOMAIN Lifecycle!Ladder = 1..6 /\ 1..6 = {1, 2, 3, 4, 5, 6}
  BY DEF Lifecycle!Ladder
<1>2. /\ Lifecycle!Ladder[1] = "DRAFT"      /\ Lifecycle!Ladder[2] = "VALIDATED"
      /\ Lifecycle!Ladder[3] = "BACKTESTED" /\ Lifecycle!Ladder[4] = "SHADOW"
      /\ Lifecycle!Ladder[5] = "CANARY"     /\ Lifecycle!Ladder[6] = "PRODUCTION"
  BY DEF Lifecycle!Ladder
<1>3. ASSUME NEW i \in DOMAIN Lifecycle!Ladder \ {1}
      PROVE  Lifecycle!Climbs(Lifecycle!Ladder[i - 1], Lifecycle!Ladder[i])
  BY DEF Lifecycle!Climbs
<1>4. 2 - 1 = 1 /\ 3 - 1 = 2 /\ 4 - 1 = 3 /\ 5 - 1 = 4 /\ 6 - 1 = 5
  OBVIOUS
<1>5. Lifecycle!Rungs = {"DRAFT", "VALIDATED", "BACKTESTED", "SHADOW", "CANARY", "PRODUCTION"}
  BY <1>1, <1>2 DEF Lifecycle!Rungs
<1> HIDE DEF Lifecycle!Ladder
<1>6. QED
  BY <1>1, <1>2, <1>3, <1>4, <1>5

LEMMA AllowedFollows ==
  ASSUME NEW s, NEW t \in Allowed(s)
  PROVE  Lifecycle!Climbs(s, t) \/ Lifecycle!Leaves(s, t)
BY LadderInOrder DEF Allowed, Lifecycle!Leaves, Lifecycle!Live

(* A verdict on an old record, and a row read before somebody's decision,  *)
(* move a version only the way its lifecycle goes.                         *)
THEOREM VerdictsFollow == ShadowSpec => VerdictsFollowLifecycle
<1> DEFINE Followed ==
      \A v \in Versions : stage'[v] # stage[v] =>
        \/ Lifecycle!Climbs(stage[v], stage'[v])
        \/ Lifecycle!Leaves(stage[v], stage'[v])
<1>1. ASSUME ShadowInv, [ShadowNext]_shadowVars PROVE [Followed]_shadowVars
  <2> SUFFICES ASSUME NEW v \in Versions, stage'[v] # stage[v]
               PROVE  stage'[v] \in Allowed(stage[v])
    BY AllowedFollows
  <2>1. stage \in [Versions -> StrategyState]
    BY <1>1 DEF ShadowInv, Typed
  <2>2. CASE SuspendSwap
    <3>1. v = monitor.version /\ stage[v] = monitor.seen /\ stage'[v] = "SUSPENDED"
      BY <2>1, <2>2 DEF SuspendSwap
    <3>2. "SUSPENDED" \in Allowed(monitor.seen)
      BY <1>1, <2>2 DEF SuspendSwap, ShadowInv, MonitorFits
    <3>3. QED
      BY <3>1, <3>2
  <2>3. CASE \E w \in Versions, to \in StrategyState : Decide(w, to)
    BY <2>1, <2>3 DEF Decide
  <2>4. QED
    BY <1>1, <2>2, <2>3
    DEF ShadowNext, shadowVars, NextDay, RecordPrediction, SettleDue, CheckDrift, SuspendLoad
<1>2. ShadowSpec => [][Followed]_shadowVars
  BY <1>1, ShadowInvHolds, PTL DEF ShadowSpec
<1>3. QED
  BY <1>2 DEF VerdictsFollowLifecycle

-----------------------------------------------------------------------------
FactorRows == [id : FactorIds, label : Labels, from : Dates, state : {"ACTIVE", "RETIRED"}]

Active(f) == [f EXCEPT !.state = "ACTIVE"]

(* A list of active factors whose rows are still there, retired or not.    *)
Standing(list) ==
  \A g \in list : g.state = "ACTIVE" /\ \E f \in factors : Active(f) = g

FoldAt(T, given) ==
  [train |-> 1..T, test |-> T + 1..T + Horizon, end |-> Days[T],
   features |-> FoldFeatures(Days, T, Horizon, FactorIds, given)]

(* The folds of the last evaluation are those of the list it was given.    *)
FoldsOfGiven ==
  \A fold \in result.folds :
    /\ \E T \in FoldSizes(Len(Days), TrainMin, Horizon, FoldStep) : fold = FoldAt(T, result.given)
    /\ Cardinality(fold.features) >= 2

FactorInv ==
  /\ factors \subseteq FactorRows
  /\ read # <<>> => Standing(read[1])
  /\ Standing(result.given)
  /\ FoldsOfGiven

-----------------------------------------------------------------------------
LEMMA InitFactorInv == FactorInit => FactorInv
BY DEF FactorInit, FactorInv, Standing, FoldsOfGiven

(* Rows are only added or retired, so a list that stands keeps standing.   *)
LEMMA ListsStand ==
  ASSUME factors \subseteq FactorRows, NEW list, Standing(list),
         \A f \in factors : \E g \in factors' : Active(g) = Active(f)
  PROVE  \A g \in list : g.state = "ACTIVE" /\ \E f \in factors' : Active(f) = g
BY DEF Standing

LEMMA AtRestInv ==
  ASSUME FactorInv, factors' \subseteq FactorRows, UNCHANGED <<read, result>>,
         \A f \in factors : \E g \in factors' : Active(g) = Active(f)
  PROVE  FactorInv'
<1>1. read # <<>> => Standing(read[1])'
  BY ListsStand DEF FactorInv, Standing
<1>2. Standing(result.given)'
  BY ListsStand DEF FactorInv, Standing
<1>3. QED
  BY <1>1, <1>2 DEF FactorInv, FoldsOfGiven

LEMMA RegisterInv ==
  ASSUME FactorInv, NEW id \in FactorIds, NEW label \in Labels, NEW from \in Dates,
         RegisterFactor(id, label, from)
  PROVE  FactorInv'
<1>1. [id |-> id, label |-> label, from |-> from, state |-> "ACTIVE"] \in FactorRows
  BY DEF FactorRows
<1>2. factors \subseteq factors' /\ factors' \subseteq FactorRows
  BY <1>1 DEF RegisterFactor, Save, FactorInv
<1>3. QED
  BY <1>2, AtRestInv DEF RegisterFactor

LEMMA RetireInv ==
  ASSUME FactorInv, NEW id \in FactorIds, NEW label \in Labels, RetireFactor(id, label)
  PROVE  FactorInv'
<1> DEFINE active == {f \in RowOf(id, label) : f.state = "ACTIVE"}
<1>1. factors' = (factors \ active) \cup {[f EXCEPT !.state = "RETIRED"] : f \in active}
  BY DEF RetireFactor
<1>2. active \subseteq factors /\ factors \subseteq FactorRows
  BY DEF RowOf, FactorInv
<1>3. ASSUME NEW f \in FactorRows
      PROVE  /\ [f EXCEPT !.state = "RETIRED"] \in FactorRows
             /\ Active([f EXCEPT !.state = "RETIRED"]) = Active(f)
  BY DEF FactorRows, Active
<1>4. factors' \subseteq FactorRows
  BY <1>1, <1>2, <1>3
<1>5. ASSUME NEW f \in factors PROVE \E g \in factors' : Active(g) = Active(f)
  <2>1. CASE f \in active
    BY <1>1, <1>2, <1>3, <2>1
  <2>2. CASE f \notin active
    BY <1>1, <2>2
  <2>3. QED
    BY <2>1, <2>2
<1>6. QED
  BY <1>4, <1>5, AtRestInv DEF RetireFactor

LEMMA StartInv == ASSUME FactorInv, StartEvaluation PROVE FactorInv'
<1>1. UNCHANGED <<factors, result>>
  BY DEF StartEvaluation
<1>2. PICK list \in {ListFactors} \cup {GetAvailableFactors(d) : d \in Range(Days)} :
        read' = <<list>>
  BY DEF StartEvaluation
<1>3. \A g \in list : g \in factors /\ g.state = "ACTIVE"
  BY <1>2 DEF ListFactors, GetAvailableFactors, AvailableAt
<1>4. \A g \in list : Active(g) = g
  BY <1>3 DEF FactorInv, FactorRows, Active
<1>5. Standing(list)
  BY <1>3, <1>4 DEF Standing
<1>6. QED
  BY <1>1, <1>2, <1>5 DEF FactorInv, Standing, FoldsOfGiven

LEMMA FinishInv ==
  ASSUME FactorInv, NEW without, NEW failed, FinishEvaluation(without, failed)
  PROVE  FactorInv'
<1> DEFINE given == {f \in read[1] : f.id \notin without}
           folds == Folds(Days, TrainMin, Horizon, FoldStep, FactorIds, given, failed)
<1>1. /\ read # <<>> /\ read' = <<>> /\ factors' = factors
      /\ result' = [folds |-> folds, given |-> given]
  BY DEF FinishEvaluation
<1>2. Standing(given)
  BY <1>1 DEF FactorInv, Standing
<1>3. ASSUME NEW fold \in folds
      PROVE  /\ \E T \in FoldSizes(Len(Days), TrainMin, Horizon, FoldStep) : fold = FoldAt(T, given)
             /\ Cardinality(fold.features) >= 2
  <2> HIDE DEF given
  <2>1. PICK T \in FoldSizes(Len(Days), TrainMin, Horizon, FoldStep) :
          /\ fold = FoldAt(T, given)
          /\ Cardinality(FoldFeatures(Days, T, Horizon, FactorIds, given)) >= 2
    BY DEF Folds, FoldAt
  <2>2. fold.features = FoldFeatures(Days, T, Horizon, FactorIds, given)
    BY <2>1 DEF FoldAt
  <2>3. QED
    BY <2>1, <2>2
<1> HIDE DEF given, folds
<1>4. QED
  BY <1>1, <1>2, <1>3 DEF FactorInv, Standing, FoldsOfGiven, FoldAt

LEMMA NextFactorInv == FactorInv /\ [FactorNext]_factorVars => FactorInv'
<1> SUFFICES ASSUME FactorInv, [FactorNext]_factorVars PROVE FactorInv'
  OBVIOUS
<1>1. CASE UNCHANGED factorVars
  BY <1>1 DEF factorVars, FactorInv, Standing, FoldsOfGiven
<1>2. CASE FactorNext
  BY <1>2, RegisterInv, RetireInv, StartInv, FinishInv DEF FactorNext
<1>3. QED
  BY <1>1, <1>2

-----------------------------------------------------------------------------
(* From the invariant to the property. *)

LEMMA MaxOfInterval ==
  ASSUME NEW a \in Int, NEW b \in Int, a <= b
  PROVE  Max(a..b) = b
BY DEF Max

LEMMA MinOfInterval ==
  ASSUME NEW a \in Int, NEW b \in Int, a <= b
  PROVE  Min(a..b) = a
BY DEF Min

(* Two different multiples of a step are a step apart. *)
LEMMA StepApart ==
  ASSUME NEW s \in Nat \ {0}, NEW a \in Nat, NEW b \in Nat, a < b, a % s = 0, b % s = 0
  PROVE  a + s <= b
<1>1. PICK p \in Nat : a = s * p
  <2>1. a = s * (a \div s) + (a % s) /\ a \div s \in Nat
    OBVIOUS
  <2>2. QED
    BY <2>1
<1>2. PICK q \in Nat : b = s * q
  <2>1. b = s * (b \div s) + (b % s) /\ b \div s \in Nat
    OBVIOUS
  <2>2. QED
    BY <2>1
<1>3. p < q
  <2>1. ASSUME q <= p PROVE FALSE
    <3>1. PICK d \in Nat : p = q + d
      BY <2>1
    <3>2. s * p = s * q + s * d /\ s * d >= 0
      BY <3>1
    <3>3. QED
      BY <1>1, <1>2, <3>2
  <2>2. QED
    BY <2>1
<1>4. PICK d \in Nat : q = p + 1 + d
  BY <1>3
<1>5. s * q = s * p + s + s * d /\ s * d >= 0 /\ s * d \in Int /\ s * p \in Int
  BY <1>4
<1>6. QED
  BY <1>1, <1>2, <1>5

LEMMA SizesFit ==
  ASSUME NEW T \in FoldSizes(Len(Days), TrainMin, Horizon, FoldStep)
  PROVE  /\ T \in Nat /\ 1 <= T /\ T + Horizon <= Len(Days) /\ TrainMin <= T
         /\ Horizon \in Nat /\ 1 <= Horizon /\ (T - TrainMin) % FoldStep = 0
BY FactorAssumption DEF FoldSizes

(* Every fold trains on the past of its test rows. *)
LEMMA WindowsFit ==
  ASSUME NEW T \in FoldSizes(Len(Days), TrainMin, Horizon, FoldStep)
  PROVE  Max(1..T) < Min(T + 1..T + Horizon) /\ Max(T + 1..T + Horizon) <= Len(Days)
<1>1. /\ T \in Nat /\ 1 <= T /\ T + Horizon <= Len(Days) /\ Horizon \in Nat /\ 1 <= Horizon
  BY SizesFit
<1>2. Max(1..T) = T
  BY <1>1, MaxOfInterval
<1>3. Min(T + 1..T + Horizon) = T + 1 /\ Max(T + 1..T + Horizon) = T + Horizon
  BY <1>1, MaxOfInterval, MinOfInterval
<1>4. QED
  BY <1>1, <1>2, <1>3

LEMMA TestsDisjoint ==
  ASSUME FoldStep >= Horizon,
         NEW T \in FoldSizes(Len(Days), TrainMin, Horizon, FoldStep),
         NEW S \in FoldSizes(Len(Days), TrainMin, Horizon, FoldStep), T < S
  PROVE  (T + 1..T + Horizon) \cap (S + 1..S + Horizon) = {}
<1> DEFINE t == T - TrainMin
           s == S - TrainMin
<1>1. FoldStep \in Nat \ {0} /\ TrainMin \in Nat
  BY FactorAssumption
<1>2. t \in Nat /\ s \in Nat /\ t < s /\ t % FoldStep = 0 /\ s % FoldStep = 0
  BY <1>1, SizesFit, SMTT(40)
<1>3. t + FoldStep <= s
  BY <1>1, <1>2, StepApart
<1>4. T + FoldStep <= S
  BY <1>1, <1>3, SizesFit, SMTT(40)
<1>5. QED
  BY <1>1, <1>4, SizesFit, SMTT(40)

LEMMA PointInTime ==
  ASSUME FactorInv, NEW fold \in result.folds, NEW id \in fold.features
  PROVE  \E f \in factors : /\ f.id = id /\ f.from <= fold.end /\ Active(f) \in result.given
                            /\ f \in FactorRows
<1>1. PICK T : fold = FoldAt(T, result.given)
  BY DEF FactorInv, FoldsOfGiven
<1>2. fold.end = Days[T] /\ fold.features = FoldFeatures(Days, T, Horizon, FactorIds, result.given)
  BY <1>1 DEF FoldAt
<1>3. PICK g \in result.given : g.id = id /\ g.from <= fold.end
  BY <1>2 DEF FoldFeatures, AvailableAt
<1>4. PICK f \in factors : Active(f) = g
  BY DEF FactorInv, Standing
<1>5. f \in FactorRows /\ f.id = g.id /\ f.from = g.from
  BY <1>4 DEF FactorInv, FactorRows, Active
<1>6. QED
  BY <1>3, <1>4, <1>5

LEMMA InvGivesProperty == FactorInv => FoldsArePointInTime
<1> SUFFICES ASSUME FactorInv PROVE FoldsArePointInTime
  OBVIOUS
<1>1. ASSUME NEW fold \in result.folds, NEW id \in fold.features
      PROVE  \E f \in factors : /\ f.id = id /\ f.from <= fold.end
                                /\ [f EXCEPT !.state = "ACTIVE"] \in result.given
  BY <1>1, PointInTime DEF Active
<1>2. ASSUME NEW fold \in result.folds, NEW id \in CheckFactorLeakage(fold.end, fold.features)
      PROVE  \E f \in factors : f.id = id /\ f.state = "RETIRED"
  <2>1. id \in fold.features /\ \A f \in GetAvailableFactors(fold.end) : f.id # id
    BY <1>2 DEF CheckFactorLeakage
  <2>2. PICK f \in factors : f.id = id /\ f.from <= fold.end /\ f \in FactorRows
    BY <2>1, PointInTime
  <2>3. f.state # "ACTIVE"
    BY <2>1, <2>2 DEF GetAvailableFactors, AvailableAt
  <2>4. QED
    BY <2>2, <2>3 DEF FactorRows
<1>3. ASSUME NEW fold \in result.folds
      PROVE  /\ Cardinality(fold.features) >= 2
             /\ Max(fold.train) < Min(fold.test) /\ Max(fold.test) <= Len(Days)
  <2>1. PICK T \in FoldSizes(Len(Days), TrainMin, Horizon, FoldStep) : fold = FoldAt(T, result.given)
    BY DEF FactorInv, FoldsOfGiven
  <2>2. fold.train = 1..T /\ fold.test = T + 1..T + Horizon
    BY <2>1 DEF FoldAt
  <2>3. QED
    BY <2>2, WindowsFit DEF FactorInv, FoldsOfGiven
<1>4. ASSUME FoldStep >= Horizon, NEW a \in result.folds, NEW b \in result.folds, a # b
      PROVE  a.test \cap b.test = {}
  <2>1. PICK T \in FoldSizes(Len(Days), TrainMin, Horizon, FoldStep) : a = FoldAt(T, result.given)
    BY DEF FactorInv, FoldsOfGiven
  <2>2. PICK S \in FoldSizes(Len(Days), TrainMin, Horizon, FoldStep) : b = FoldAt(S, result.given)
    BY DEF FactorInv, FoldsOfGiven
  <2>3. T # S /\ T \in Nat /\ S \in Nat
    BY <1>4, <2>1, <2>2, SizesFit
  <2>4. a.test = T + 1..T + Horizon /\ b.test = S + 1..S + Horizon
    BY <2>1, <2>2 DEF FoldAt
  <2>5. CASE T < S
    BY <1>4, <2>4, <2>5, TestsDisjoint
  <2>6. CASE S < T
    BY <1>4, <2>4, <2>6, TestsDisjoint
  <2>7. QED
    BY <2>3, <2>5, <2>6
<1>5. QED
  BY <1>1, <1>2, <1>3, <1>4 DEF FoldsArePointInTime

(* A fold uses only factors that were available at the end of its training *)
(* window, whatever is registered or retired while it runs; it is tested   *)
(* after it was trained, on rows of its own.                               *)
THEOREM FoldsPointInTime == FactorSpec => []FoldsArePointInTime
<1>1. FactorSpec => []FactorInv
  BY InitFactorInv, NextFactorInv, PTL DEF FactorSpec
<1>2. QED
  BY <1>1, InvGivesProperty, PTL

-----------------------------------------------------------------------------
(* Splits and walks.                                                       *)

(* A stretch of days, from its first to its last.                          *)
Windows == [first : Int, last : Int]

(* Some label end within the horizon of the day is in the window or after  *)
(* it.                                                                     *)
Reaches(d, horizon, valid) == \E e \in d..d + horizon : In(e, valid) \/ e > valid.last

(* Purging by any horizon: no kept training row has a label that ends in   *)
(* the validation window or after it, no row is purged whose labels all    *)
(* end before it, and no row is kept on both sides (datasets/splits.py).   *)
THEOREM PurgeSeparates ==
  ASSUME NEW rows, rows \subseteq Int, NEW train \in Windows, NEW valid \in Windows,
         NEW horizon \in Nat, NEW embargo \in Nat,
         NEW kept, kept = PurgeAndEmbargo(rows, train, valid, horizon, embargo)
  PROVE  /\ \A d \in kept.train : \A e \in d..d + horizon : e < valid.first
         /\ \A d \in {r \in rows : In(r, train)} \ kept.train : Reaches(d, horizon, valid)
         /\ kept.train \cap kept.valid = {}
<1>1. /\ kept.train = {d \in rows : In(d, train) /\ d + horizon < valid.first}
      /\ kept.valid = {d \in rows : ~In(d, train) /\ In(d, valid) /\ d >= valid.first + embargo}
  BY DEF PurgeAndEmbargo
<1>2. valid.first \in Int /\ valid.last \in Int
  BY DEF Windows
<1>3. ASSUME NEW d \in kept.train, NEW e \in d..d + horizon PROVE e < valid.first
  <2>1. d \in Int /\ d + horizon < valid.first
    BY <1>1
  <2>2. e \in Int /\ e <= d + horizon
    BY <2>1
  <2>3. QED
    BY <1>2, <2>1, <2>2
<1>4. ASSUME NEW d \in rows, In(d, train), d \notin kept.train
      PROVE  Reaches(d, horizon, valid)
  <2>1. d \in Int /\ d + horizon >= valid.first
    <3>1. d \in Int /\ ~ (d + horizon < valid.first)
      BY <1>1, <1>4
    <3>2. QED
      BY <1>2, <3>1
  <2>2. d + horizon \in d..d + horizon
    BY <2>1
  <2>3. In(d + horizon, valid) \/ d + horizon > valid.last
    BY <1>2, <2>1 DEF In
  <2>4. QED
    BY <2>2, <2>3 DEF Reaches
<1>5. QED
  BY <1>1, <1>3, <1>4

(* The lengths of the windows and the step of a walk.                      *)
Sizes == [train : Nat \ {0}, valid : Nat \ {0}, test : Nat \ {0}, step : Nat \ {0}]

(* The windows of a split follow one another and end by the last day.      *)
LEMMA SplitsFit ==
  ASSUME NEW size \in Sizes, NEW first \in Int, NEW last \in Int, NEW split \in Splits(size, first, last)
  PROVE  /\ split.train \in Windows /\ split.valid \in Windows
         /\ split.train.last < split.valid.first /\ split.valid.last < split.test.first
         /\ split.test.last <= last
<1> DEFINE Start(k) == first + k * size.step
<1>1. PICK k \in 0..last - first + 1 :
        /\ split = [train |-> Window(Start(k), size.train),
                    valid |-> Window(Start(k) + size.train, size.valid),
                    test  |-> Window(Start(k) + size.train + size.valid, size.test)]
        /\ Window(Start(k) + size.train + size.valid, size.test).last <= last
  BY DEF Splits
<1>2. k * size.step \in Int
  BY DEF Sizes
<1>3. PICK start \in Int : start = Start(k)
  BY <1>2
<1>4. size.train \in Nat /\ size.valid \in Nat /\ size.test \in Nat
  BY DEF Sizes
<1> HIDE DEF Start
<1>5. QED
  BY <1>1, <1>3, <1>4 DEF Window, Windows

(* Two multiples of a step that are less than a step apart are equal.      *)
LEMMA SameAnchor ==
  ASSUME NEW step \in Nat \ {0}, NEW a \in Int, NEW b \in Int,
         a % step = 0, b % step = 0, a - b < step, b - a < step
  PROVE  a = b
<1>1. PICK k \in Int, l \in Int : a = step * k /\ b = step * l
  <2>1. PICK k \in Int : a = step * k
    <3>1. a = step * (a \div step) + (a % step) /\ a \div step \in Int
      OBVIOUS
    <3>2. QED
      BY <3>1
  <2>2. PICK l \in Int : b = step * l
    <3>1. b = step * (b \div step) + (b % step) /\ b \div step \in Int
      OBVIOUS
    <3>2. QED
      BY <3>1
  <2>3. QED
    BY <2>1, <2>2
<1>2. PICK n \in Int : n = k - l
  OBVIOUS
<1>3. a - b = step * n
  BY <1>1, <1>2
<1>4. n < 1
  <2>1. SUFFICES ASSUME n >= 1 PROVE FALSE
    BY <1>2
  <2>2. step * n >= step
    BY <2>1
  <2>3. QED
    BY <1>3, <2>2
<1>5. n > -1
  <2>1. SUFFICES ASSUME n <= -1 PROVE FALSE
    BY <1>2
  <2>2. step * n <= -step
    BY <2>1
  <2>3. QED
    BY <1>3, <2>2
<1>6. n = 0
  BY <1>4, <1>5
<1>7. QED
  BY <1>3, <1>6

(* The caller asks for test windows that overlap.                          *)
WindowsOverlap(size) == size.step < size.test
(* The days of the bars, in order.                                         *)
InOrder(days) == days \in Seq(Int) /\ \A i, j \in 1..Len(days) : i < j => days[i] < days[j]
(* No row is predicted twice.                                              *)
RowsOnce(walk) == \A p, q \in walk : p.row = q.row => p = q

(* For any days in order, horizon and sizes, walk_forward predicts a row   *)
(* with a model trained on rows before its test window, whose labels all   *)
(* end by that row once as many bars of the window as the horizon are      *)
(* behind, and predicts it once unless its test windows are made to overlap*)
(* (training/walkforward.py).                                              *)
THEOREM WalkLooksBack ==
  ASSUME NEW days, InOrder(days),
         NEW usable, NEW horizon \in Nat \ {0}, NEW size \in Sizes, NEW start \in Int, NEW end \in Int,
         NEW walk, walk = OOSPredictions(days, usable, horizon, size, start, end)
  PROVE  /\ \A p \in walk : LooksBack(days, p, size, horizon)
         /\ RowsOnce(walk) \/ WindowsOverlap(size)
<1> DEFINE base == start + size.train + size.test - 1
           Test(a) == WindowBounds(a, size.train, size.test).test
           Train(a) == WindowBounds(a, size.train, size.test).train
<1>0. PICK n \in Nat :
        /\ DOMAIN days = 1..n /\ \A i \in 1..n : days[i] \in Int
        /\ \A i, j \in 1..n : i < j => days[i] < days[j]
  BY DEF InOrder
<1>1. size.train \in Nat \ {0} /\ size.test \in Nat \ {0} /\ size.step \in Nat \ {0}
  BY DEF Sizes
<1>2. ASSUME NEW p \in walk
      PROVE  \E a \in base..end :
               /\ (a - start - size.train - size.test + 1) % size.step = 0
               /\ p = [row |-> p.row, window |-> a, trained |-> Rows(days, Train(a), horizon)]
               /\ p.row \in Rows(days, Test(a), horizon)
  BY <1>2 DEF OOSPredictions
<1>3. ASSUME NEW a \in Int
      PROVE  /\ Test(a).first = a - size.test + 1 /\ Test(a).last = a
             /\ Train(a).last = a - size.test
  BY <1>1, <1>3 DEF WindowBounds, Window
<1>4. ASSUME NEW w, NEW r \in Rows(days, w, horizon)
      PROVE  /\ r.day \in Int /\ w.first <= r.day /\ r.day <= w.last
             /\ r.at \in 1..n /\ r.day = days[r.at]
  BY <1>0, <1>4 DEF Rows, In
<1> HIDE DEF Test, Train
<1>5. ASSUME NEW p \in walk PROVE LooksBack(days, p, size, horizon)
  <2>1. PICK a \in base..end :
               /\ p = [row |-> p.row, window |-> a, trained |-> Rows(days, Train(a), horizon)]
               /\ p.row \in Rows(days, Test(a), horizon)
    BY <1>2
  <2>2. a \in Int /\ p.window = a
    BY <1>1, <2>1
  <2>3. /\ p.row.day \in Int /\ Test(a).first <= p.row.day /\ p.row.at \in 1..n
        /\ Train(a).last < Test(a).first /\ Test(a).first \in Int /\ Train(a).last \in Int
    <3>1. p.row.day \in Int /\ Test(a).first <= p.row.day /\ p.row.at \in 1..n
      BY <1>4, <2>1
    <3>2. Test(a).first = a - size.test + 1 /\ Train(a).last = a - size.test
      BY <1>3, <2>2
    <3>3. QED
      BY <1>1, <2>2, <3>1, <3>2
  <2>4. PICK first \in Int : first = p.row.at - horizon + 1
    BY <2>3
  <2>5. ASSUME NEW t \in p.trained
        PROVE  /\ t.day < Test(a).first /\ t.day < p.row.day
               /\ (first >= 1 /\ In(days[first], Test(a))) => t.at + horizon <= p.row.at
    <3>1. t \in Rows(days, Train(a), horizon)
      BY <2>1, <2>5
    <3>2. t.day \in Int /\ t.day <= Train(a).last /\ t.at \in 1..n /\ t.day = days[t.at]
      BY <1>4, <3>1
    <3>3. t.day < Test(a).first /\ t.day < p.row.day
      BY <2>3, <3>2
    <3>4. ASSUME first >= 1, In(days[first], Test(a)) PROVE t.at + horizon <= p.row.at
      <4>1. first \in 1..n
        BY <2>3, <2>4, <3>4
      <4>2. days[first] \in Int /\ Test(a).first <= days[first]
        BY <1>0, <3>4, <4>1 DEF In
      <4>3. days[t.at] < days[first]
        BY <2>3, <3>2, <3>3, <4>2
      <4>4. t.at < first
        <5>1. SUFFICES ASSUME ~(t.at < first) PROVE FALSE
          OBVIOUS
        <5>2. t.at = first \/ first < t.at
          BY <3>2, <4>1, <5>1
        <5>3. first < t.at => days[first] < days[t.at]
          BY <1>0, <3>2, <4>1
        <5>4. days[t.at] \in Int
          BY <1>0, <3>2
        <5>5. QED
          BY <4>2, <4>3, <5>2, <5>3, <5>4
      <4>5. p.row.at \in Int /\ t.at \in Int
        BY <2>3, <3>2
      <4>6. QED
        BY <2>4, <4>4, <4>5
    <3>5. QED
      BY <3>3, <3>4
  <2>6. QED
    BY <2>2, <2>4, <2>5 DEF LooksBack, Test
<1>6. ASSUME ~ (size.step < size.test), NEW p \in walk, NEW q \in walk, p.row = q.row PROVE p = q
  <2>1. PICK a \in base..end :
               /\ (a - start - size.train - size.test + 1) % size.step = 0
               /\ p = [row |-> p.row, window |-> a, trained |-> Rows(days, Train(a), horizon)]
               /\ p.row \in Rows(days, Test(a), horizon)
    BY <1>2
  <2>2. PICK b \in base..end :
               /\ (b - start - size.train - size.test + 1) % size.step = 0
               /\ q = [row |-> q.row, window |-> b, trained |-> Rows(days, Train(b), horizon)]
               /\ q.row \in Rows(days, Test(b), horizon)
    BY <1>2
  <2>3. a \in Int /\ b \in Int
    BY <1>1, <2>1, <2>2
  <2>4. p.row.day \in Int /\ a - size.test + 1 <= p.row.day /\ p.row.day <= a
    BY <1>3, <1>4, <2>1, <2>3
  <2>5. q.row.day \in Int /\ b - size.test + 1 <= q.row.day /\ q.row.day <= b
    BY <1>3, <1>4, <2>2, <2>3
  <2>6. a - b < size.step /\ b - a < size.step
    <3>1. PICK day \in Int : day = p.row.day /\ day = q.row.day
      BY <1>6, <2>4
    <3>2. a - size.test + 1 <= day /\ day <= a /\ b - size.test + 1 <= day /\ day <= b
      BY <2>4, <2>5, <3>1
    <3>3. size.test <= size.step
      BY <1>1, <1>6
    <3>4. QED
      BY <1>1, <2>3, <3>2, <3>3
  <2>7. PICK x \in Int : x = a - start - size.train - size.test + 1
    BY <1>1, <2>3
  <2>8. PICK y \in Int : y = b - start - size.train - size.test + 1
    BY <1>1, <2>3
  <2>9. x - y = a - b /\ y - x = b - a
    BY <1>1, <2>3, <2>7, <2>8
  <2>10. x = y
    BY <1>1, <2>1, <2>2, <2>6, <2>7, <2>8, <2>9, SameAnchor
  <2>11. a = b
    BY <2>3, <2>9, <2>10
  <2>12. QED
    BY <1>6, <2>1, <2>2, <2>11
<1>7. QED
  BY <1>5, <1>6 DEF RowsOnce, WindowsOverlap

(* The inputs of the splitters.                                            *)
SplitJob ==
  IsJob("split") =>
    /\ job[2] \in [train : 1..3, valid : 1..2, test : 1..2, step : 1..2]
    /\ job[3] \in 1..3 /\ job[4] \in 0..1

(* They are windows, a horizon and an embargo.                             *)
LEMMA SplitJobs == Spec => []SplitJob
<1>1. Init => SplitJob
  BY DEF Init, SplitJob, IsJob
<1>2. SplitJob /\ [Next]_vars => SplitJob'
  <2>1. ASSUME Choose PROVE SplitJob'
    <3>1. SUFFICES ASSUME job'[1] = "split" PROVE SplitJob'
      BY DEF SplitJob, IsJob
    <3>2. PICK train \in 1..3, valid \in 1..2, test \in 1..2, step \in 1..2,
               horizon \in 1..3, embargo \in 0..1 :
            job' = <<"split", [train |-> train, valid |-> valid, test |-> test, step |-> step],
                     horizon, embargo>>
      BY <2>1, <3>1 DEF Choose
    <3>3. QED
      BY <3>2 DEF SplitJob
  <2>2. ASSUME SplitJob, UNCHANGED job PROVE SplitJob'
    BY <2>2 DEF SplitJob, IsJob
  <2>3. QED
    BY <2>1, <2>2 DEF Next, vars
<1>3. QED
  BY <1>1, <1>2, PTL DEF Spec

(* The splits of every run keep training, validation and test apart, and   *)
(* every walk predicts forward: TrainingDoesNotSeeTest from the theorems   *)
(* above.                                                                  *)
THEOREM TrainingNeverSeesTest == Spec => []TrainingDoesNotSeeTest
<1>1. SplitJob => TrainingDoesNotSeeTest
  <2> SUFFICES ASSUME SplitJob, IsJob("split") PROVE TrainingDoesNotSeeTest
    BY DEF TrainingDoesNotSeeTest
  <2>1. job[2] \in Sizes /\ job[3] \in Nat \ {0} /\ job[4] \in Nat
    <3>1. job[2] \in [train : 1..3, valid : 1..2, test : 1..2, step : 1..2]
          /\ job[3] \in 1..3 /\ job[4] \in 0..1
      BY DEF SplitJob
    <3>2. QED
      BY <3>1 DEF Sizes
  <2>2. PICK size \in Sizes, horizon \in Nat \ {0}, embargo \in Nat :
          size = job[2] /\ horizon = job[3] /\ embargo = job[4]
    BY <2>1
  <2>3. ASSUME NEW split \in Splits(size, 1, 9), NEW kept,
               kept = PurgeAndEmbargo(1..9, split.train, split.valid, horizon, embargo)
        PROVE  /\ \A d \in kept.train : \A e \in d..d + horizon : e < split.valid.first
               /\ \A d \in 1..9 : In(d, split.train) /\ d \notin kept.train =>
                    \E e \in d..d + horizon : In(e, split.valid) \/ e > split.valid.last
               /\ kept.train \cap kept.valid = {} /\ split.test.last <= 9
    <3>1. split.train \in Windows /\ split.valid \in Windows /\ split.test.last <= 9
      BY SplitsFit
    <3>2. PICK rows : rows = 1..9
      OBVIOUS
    <3>3. PICK train \in Windows, valid \in Windows : train = split.train /\ valid = split.valid
      BY <3>1
    <3>4. rows \subseteq Int /\ kept = PurgeAndEmbargo(rows, train, valid, horizon, embargo)
      BY <2>3, <3>2, <3>3
    <3>5. \A d \in kept.train : \A e \in d..d + horizon : e < valid.first
      BY <3>4, PurgeSeparates
    <3>6. \A d \in {r \in rows : In(r, train)} \ kept.train : Reaches(d, horizon, valid)
      BY <3>4, PurgeSeparates
    <3>7. kept.train \cap kept.valid = {}
      BY <3>4, PurgeSeparates
    <3>8. QED
      BY <3>1, <3>2, <3>3, <3>5, <3>6, <3>7 DEF Reaches
  <2>4. PICK days : days = MCDays
    OBVIOUS
  <2>5. PICK usable : usable = {1, 3, 5, 6}
    OBVIOUS
  <2>6. PICK start \in Int : start = 1
    OBVIOUS
  <2>7. PICK end \in Int : end = 8
    OBVIOUS
  <2>8. PICK walk : walk = OOSPredictions(days, usable, horizon, size, start, end)
    OBVIOUS
  <2>9. InOrder(days)
    BY <2>4 DEF MCDays, InOrder
  <2>10. \A p \in walk : LooksBack(days, p, size, horizon)
    BY <2>8, <2>9, WalkLooksBack
  <2>11. RowsOnce(walk) \/ WindowsOverlap(size)
    BY <2>8, <2>9, WalkLooksBack
  <2>12. size.step \in Nat /\ size.test \in Nat
    BY DEF Sizes
  <2>13. QED
    BY <2>2, <2>3, <2>4, <2>5, <2>6, <2>7, <2>8, <2>10, <2>11, <2>12
       DEF RowsOnce, WindowsOverlap, TrainingDoesNotSeeTest
<1>2. QED
  BY <1>1, SplitJobs, PTL

-----------------------------------------------------------------------------
(* The diff of two sets of parameters.                                     *)

(* The JSON types of a parameter.                                          *)
ValueTypes == {"integer", "number", "boolean", "string"}
ParamValues == [type : ValueTypes, n : Int]

(* The lines of a diff about one key.                                      *)
LineOf(diff, key) == {d \in diff : d.key = key}

(* The keys a reader of the diff ends up with.                             *)
KeysAfter(old, diff) ==
  (DOMAIN old \cup {d.key : d \in diff}) \ {d.key : d \in {e \in diff : e.sign = "-"}}

(* No value changes its JSON type.                                         *)
SameTypes(old, new) == \A key \in DOMAIN new : new[key].type = old[key].type

(* The diff says what became of every key.                                 *)
Explained(old, new, diff) ==
  \A key \in DOMAIN new : IF LineOf(diff, key) = {} THEN new[key].n = old[key].n
                          ELSE \A d \in LineOf(diff, key) : d.to = new[key]

(* For any two sets of parameters the diff turns the one into the other;   *)
(* it is empty when they are equal, and only then unless a number changes  *)
(* its type (strategy_governance/diff.py).                                 *)
THEOREM DiffExplains ==
  ASSUME NEW D, NEW E, NEW old \in [D -> ParamValues], NEW new \in [E -> ParamValues], old # None,
         NEW diff, diff = Schema!ChangeDiff(old, new)
  PROVE  /\ KeysAfter(old, diff) = DOMAIN new
         /\ Explained(old, new, diff)
         /\ old = new => diff = {}
         /\ old = new \/ diff # {} \/ ~SameTypes(old, new)
<1> DEFINE gone == D \ E
           changed == {key \in D \cap E : ~Schema!SameValue(old[key], new[key])}
           Minus == {[sign |-> "-", key |-> k, from |-> old[k], to |-> None] : k \in gone}
           Plus == {[sign |-> "+", key |-> k, from |-> None, to |-> new[k]] : k \in E \ D}
           Tilde == {[sign |-> "~", key |-> k, from |-> old[k], to |-> new[k]] : k \in changed}
<1>1. diff = Minus \cup Plus \cup Tilde
  BY DEF Schema!ChangeDiff
<1>2. ASSUME NEW d \in diff
      PROVE  \/ d.sign = "-" /\ d.key \in gone
             \/ d.sign = "+" /\ d.key \in E \ D /\ d.to = new[d.key]
             \/ d.sign = "~" /\ d.key \in changed /\ d.to = new[d.key]
  <2>1. CASE d \in Minus
    BY <2>1
  <2>2. CASE d \in Plus
    BY <2>2
  <2>3. CASE d \in Tilde
    BY <2>3
  <2>4. QED
    BY <1>1, <2>1, <2>2, <2>3
<1>3. ASSUME NEW k \in gone PROVE \E d \in diff : d.sign = "-" /\ d.key = k
  <2>1. PICK d \in Minus : d = [sign |-> "-", key |-> k, from |-> old[k], to |-> None]
    OBVIOUS
  <2>2. d.sign = "-" /\ d.key = k /\ d \in diff
    BY <1>1, <2>1
  <2>3. QED
    BY <2>2
<1>4. ASSUME NEW k \in E \ D PROVE \E d \in diff : d.key = k
  <2>1. PICK d \in Plus : d = [sign |-> "+", key |-> k, from |-> None, to |-> new[k]]
    OBVIOUS
  <2>2. d.key = k /\ d \in diff
    BY <1>1, <2>1
  <2>3. QED
    BY <2>2
<1>5. ASSUME NEW k \in changed PROVE \E d \in diff : d.key = k
  <2>1. PICK d \in Tilde : d = [sign |-> "~", key |-> k, from |-> old[k], to |-> new[k]]
    OBVIOUS
  <2>2. d.key = k /\ d \in diff
    BY <1>1, <2>1
  <2>3. QED
    BY <2>2
<1>6. DOMAIN old = D /\ DOMAIN new = E
  OBVIOUS
<1>7. \A k \in D \cap E : k \in changed <=> ~Schema!SameValue(old[k], new[k])
  OBVIOUS
<1>8. changed \subseteq D \cap E /\ gone = D \ E
  OBVIOUS
<1> HIDE DEF Minus, Plus, Tilde, changed, gone
<1>9. KeysAfter(old, diff) = E
  <2>1. {d.key : d \in diff} \subseteq D \cup E
    BY <1>2, <1>8
  <2>2. {d.key : d \in {e \in diff : e.sign = "-"}} = D \ E
    <3>1. ASSUME NEW d \in diff, d.sign = "-" PROVE d.key \in D \ E
      BY <1>2, <1>8, <3>1
    <3>2. QED
      BY <1>3, <1>8, <3>1
  <2>3. E \ D \subseteq {d.key : d \in diff}
    BY <1>4
  <2>4. QED
    BY <1>6, <2>1, <2>2, <2>3 DEF KeysAfter
<1>10. ASSUME NEW key \in E
       PROVE  IF LineOf(diff, key) = {} THEN new[key].n = old[key].n
              ELSE \A d \in LineOf(diff, key) : d.to = new[key]
  <2>1. CASE LineOf(diff, key) = {}
    <3>1. key \in D /\ key \notin changed
      BY <1>4, <1>5, <2>1 DEF LineOf
    <3>2. Schema!SameValue(old[key], new[key])
      BY <1>7, <3>1
    <3>3. QED
      BY <2>1, <3>2 DEF Schema!SameValue
  <2>2. ASSUME NEW d \in LineOf(diff, key) PROVE d.to = new[key]
    BY <1>2, <1>8, <2>2 DEF LineOf
  <2>3. QED
    BY <2>1, <2>2
<1>11. ASSUME old = new PROVE diff = {}
  <2>1. gone = {} /\ E \ D = {}
    BY <1>6, <1>8, <1>11
  <2>2. changed = {}
    BY <1>7, <1>8, <1>11 DEF Schema!SameValue
  <2>3. QED
    BY <1>2, <2>1, <2>2
<1>12. ASSUME diff = {}, SameTypes(old, new) PROVE old = new
  <2>1. D = E
    BY <1>3, <1>4, <1>8, <1>12
  <2>2. ASSUME NEW k \in D PROVE old[k] = new[k]
    <3>1. Schema!SameValue(old[k], new[k])
      BY <1>5, <1>7, <1>12, <2>1
    <3>2. old[k].n = new[k].n /\ old[k].type = new[k].type
      BY <1>6, <1>12, <2>1, <3>1 DEF Schema!SameValue, SameTypes
    <3>3. old[k] \in ParamValues /\ new[k] \in ParamValues
      BY <2>1
    <3>4. QED
      BY <3>2, <3>3 DEF ParamValues
  <2>3. QED
    BY <2>1, <2>2
<1>13. QED
  BY <1>6, <1>9, <1>10, <1>11, <1>12 DEF Explained

(* The inputs of the whitelist and the diff.                               *)
ParamsJob ==
  IsJob("params") => \E p, q \in Proposals : job[2] = Given(p) /\ job[3] = Given(q)

(* They are given by two proposals.                                        *)
LEMMA ParamsJobs == Spec => []ParamsJob
<1>1. Init => ParamsJob
  BY DEF Init, ParamsJob, IsJob
<1>2. ParamsJob /\ [Next]_vars => ParamsJob'
  <2>1. ASSUME Choose PROVE ParamsJob'
    <3>1. SUFFICES ASSUME job'[1] = "params" PROVE ParamsJob'
      BY DEF ParamsJob, IsJob
    <3>2. PICK p \in Proposals, q \in Proposals : job' = <<"params", Given(p), Given(q)>>
      BY <2>1, <3>1 DEF Choose
    <3>3. QED
      BY <3>2 DEF ParamsJob
  <2>2. ASSUME ParamsJob, UNCHANGED job PROVE ParamsJob'
    BY <2>2 DEF ParamsJob, IsJob
  <2>3. QED
    BY <2>1, <2>2 DEF Next, vars
<1>3. QED
  BY <1>1, <1>2, PTL DEF Spec

(* What a proposal gives is a typed value for some of the four keys.       *)
LEMMA GivenIsTyped ==
  ASSUME NEW p \in Proposals
  PROVE  /\ Given(p) \in [{k \in DOMAIN p : p[k] # None} -> ParamValues]
         /\ {k \in DOMAIN p : p[k] # None} \subseteq {"window", "weight", "mode", "leverage"}
<1>1. \A n \in Int : Whole(n) \in ParamValues /\ Float(n) \in ParamValues
                     /\ Bool(n) \in ParamValues /\ Text(n) \in ParamValues
  <2>1. ASSUME NEW n \in Int, NEW type \in ValueTypes PROVE [type |-> type, n |-> n] \in ParamValues
    BY DEF ParamValues
  <2>2. ASSUME NEW n \in Int
        PROVE  /\ Whole(n) \in ParamValues /\ Float(n) \in ParamValues
               /\ Bool(n) \in ParamValues /\ Text(n) \in ParamValues
    <3>1. {"integer", "number", "boolean", "string"} \subseteq ValueTypes
      BY DEF ValueTypes
    <3>2. Whole(n) \in ParamValues
      BY <2>1, <3>1 DEF Whole
    <3>3. Float(n) \in ParamValues
      BY <2>1, <3>1 DEF Float
    <3>4. Bool(n) \in ParamValues
      BY <2>1, <3>1 DEF Bool
    <3>5. Text(n) \in ParamValues
      BY <2>1, <3>1 DEF Text
    <3>6. QED
      BY <3>2, <3>3, <3>4, <3>5
  <2>3. QED
    BY <2>2
<1>2. DOMAIN p = {"window", "weight", "mode", "leverage"}
  BY DEF Proposals
<1>3. \A k \in DOMAIN p : p[k] \in ParamValues \cup {None}
  <2>1. p["window"] \in ParamValues \cup {None}
    BY <1>1 DEF Proposals
  <2>2. p["weight"] \in ParamValues \cup {None}
    BY <1>1 DEF Proposals
  <2>3. p["mode"] \in ParamValues \cup {None}
    BY <1>1 DEF Proposals
  <2>4. p["leverage"] \in ParamValues \cup {None}
    BY <1>1 DEF Proposals
  <2>5. QED
    BY <1>2, <2>1, <2>2, <2>3, <2>4
<1>4. QED
  BY <1>2, <1>3 DEF Given

(* What the whitelist lets through is declared, complete, in range and of  *)
(* the type asked for: an integer is no boolean.                           *)
LEMMA AcceptedFits ==
  ASSUME NEW D, NEW new \in [D -> ParamValues], Schema!Accepts(new, MCSchema)
  PROVE  /\ DOMAIN new \subseteq DOMAIN MCSchema
         /\ "window" \in DOMAIN new /\ new.window \in {Whole(n) : n \in 1..3}
         /\ "weight" \in DOMAIN new => new.weight.type # "string" /\ new.weight.n \in 0..1
         /\ "mode" \in DOMAIN new => new.mode \in {Text(1), Text(2)}
<1>1. DOMAIN MCSchema = {"window", "weight", "mode"} /\ DOMAIN new = D
  BY DEF MCSchema
<1>2. /\ MCSchema["window"] = [type |-> "integer", required |-> TRUE, minimum |-> 1, maximum |-> 3, choices |-> None]
      /\ MCSchema["weight"] = [type |-> "number", required |-> FALSE, minimum |-> 0, maximum |-> 1, choices |-> None]
      /\ MCSchema["mode"] = [type |-> "string", required |-> FALSE, minimum |-> None, maximum |-> None,
                             choices |-> {Text(1), Text(2)}]
  BY DEF MCSchema
<1>3. \A key \in {"window", "weight", "mode"} :
        IF key \in D THEN Schema!WithinSpec(new[key], MCSchema[key]) ELSE ~MCSchema[key].required
  BY <1>1 DEF Schema!Accepts
<1>4. None \notin Int /\ {Text(1), Text(2)} # None
  BY ShadowAssumption, NoneAssumption
<1>5. "window" \in D /\ new["window"] \in {Whole(n) : n \in 1..3}
  <2>1. "window" \in D /\ Schema!WithinSpec(new["window"], MCSchema["window"])
    BY <1>2, <1>3
  <2>2. new["window"] \in ParamValues
    BY <2>1
  <2>3. new["window"].type = "integer" /\ new["window"].n >= 1 /\ new["window"].n <= 3
    BY <1>2, <1>4, <2>1 DEF Schema!WithinSpec, Schema!Fits
  <2>4. new["window"] = Whole(new["window"].n) /\ new["window"].n \in 1..3
    BY <2>2, <2>3 DEF ParamValues, Whole
  <2>5. QED
    BY <2>1, <2>4
<1>6. ASSUME "weight" \in D PROVE new["weight"].type # "string" /\ new["weight"].n \in 0..1
  <2>1. Schema!WithinSpec(new["weight"], MCSchema["weight"])
    BY <1>3, <1>6
  <2>2. new["weight"] \in ParamValues
    BY <1>6
  <2>3. new["weight"].type \in {"integer", "number", "boolean"}
        /\ new["weight"].n >= 0 /\ new["weight"].n <= 1
    BY <1>2, <1>4, <2>1 DEF Schema!WithinSpec, Schema!Fits
  <2>4. QED
    BY <2>2, <2>3 DEF ParamValues
<1>7. ASSUME "mode" \in D PROVE new["mode"] \in {Text(1), Text(2)}
  <2>1. Schema!WithinSpec(new["mode"], MCSchema["mode"])
    BY <1>3, <1>7
  <2>2. new["mode"] \in ParamValues
    BY <1>7
  <2>3. PICK w \in {Text(1), Text(2)} : Schema!SameValue(new["mode"], w)
    BY <1>2, <1>4, <2>1 DEF Schema!WithinSpec
  <2>4. new["mode"].type = "string"
    BY <1>2, <2>1 DEF Schema!WithinSpec, Schema!Fits
  <2>5. new["mode"].n = w.n /\ w = Text(w.n)
    BY <2>3 DEF Schema!SameValue, Text
  <2>6. new["mode"] = Text(new["mode"].n)
    BY <2>2, <2>4 DEF ParamValues, Text
  <2>7. QED
    BY <2>3, <2>5, <2>6
<1>8. D \subseteq {"window", "weight", "mode"}
  BY <1>1 DEF Schema!Accepts
<1>9. new.window = new["window"] /\ new.weight = new["weight"] /\ new.mode = new["mode"]
  OBVIOUS
<1>10. QED
  BY <1>1, <1>5, <1>6, <1>7, <1>8

(* A reviewer of a change sees all of it, and what the whitelist accepts   *)
(* fits the schema: ChangesAreExplained.                                   *)
THEOREM ChangesAlwaysExplained == Spec => []ChangesAreExplained
<1>1. ParamsJob => ChangesAreExplained
  <2> SUFFICES ASSUME ParamsJob, IsJob("params") PROVE ChangesAreExplained
    BY DEF ChangesAreExplained
  <2>1. PICK p \in Proposals, q \in Proposals : job[2] = Given(p) /\ job[3] = Given(q)
    BY DEF ParamsJob
  <2>2. PICK old : old = job[2]
    OBVIOUS
  <2>3. PICK new : new = job[3]
    OBVIOUS
  <2>4. PICK D, E : old \in [D -> ParamValues] /\ new \in [E -> ParamValues]
    <3>1. old \in [{k \in DOMAIN p : p[k] # None} -> ParamValues]
      BY <2>1, <2>2, GivenIsTyped
    <3>2. new \in [{k \in DOMAIN q : q[k] # None} -> ParamValues]
      BY <2>1, <2>3, GivenIsTyped
    <3>3. QED
      BY <3>1, <3>2
  <2>5. old # None
    BY <2>1, <2>2, NoneAssumption
  <2>6. PICK diff : diff = Schema!ChangeDiff(old, new)
    OBVIOUS
  <2>7. KeysAfter(old, diff) = DOMAIN new
    BY <2>4, <2>5, <2>6, DiffExplains
  <2>8. Explained(old, new, diff)
    BY <2>4, <2>5, <2>6, DiffExplains
  <2>9. old = new => diff = {}
    BY <2>4, <2>5, <2>6, DiffExplains
  <2>10. old = new \/ diff # {} \/ ~SameTypes(old, new)
    BY <2>4, <2>5, <2>6, DiffExplains
  <2>11. Schema!Accepts(new, MCSchema) =>
             /\ DOMAIN new \subseteq DOMAIN MCSchema
             /\ "window" \in DOMAIN new /\ new.window \in {Whole(n) : n \in 1..3}
             /\ "weight" \in DOMAIN new => new.weight.type # "string" /\ new.weight.n \in 0..1
             /\ "mode" \in DOMAIN new => new.mode \in {Text(1), Text(2)}
    BY <2>4, AcceptedFits
  <2>12. QED
    BY <2>2, <2>3, <2>6, <2>7, <2>8, <2>9, <2>10, <2>11
       DEF ChangesAreExplained, KeysAfter, Explained, LineOf, SameTypes, Schema!SameContentHash
<1>2. QED
  BY <1>1, ParamsJobs, PTL

-----------------------------------------------------------------------------
(* The baseline gate.                                                      *)

(* The sum over no rows is 0.                                              *)
LEMMA EmptyDot == ASSUME NEW a, NEW b, DOMAIN a = {} PROVE Dot(a, b) = 0
<1> DEFINE Step(g) == [s \in SUBSET {} |-> IF s = {} THEN 0
                         ELSE LET x == CHOOSE x \in s : TRUE IN a[x] * b[x] + g[s \ {x}]]
           It == CHOOSE g : g = Step(g)
<1>1. \E g : g = Step(g)
  <2> DEFINE zero == [s \in SUBSET {} |-> 0]
  <2>1. \A s \in SUBSET {} : s = {}
    OBVIOUS
  <2> HIDE DEF zero
  <2>2. zero = Step(zero)
    BY <2>1 DEF zero
  <2>3. QED
    BY <2>2
<1>2. It = Step(It)
  BY <1>1
<1> HIDE DEF It
<1>3. It[{}] = 0
  BY <1>2
<1>4. QED
  BY <1>3 DEF Dot, MapThenSumSet, MapThenFoldSet, It

(* Without folds both gate metrics are 0, whatever was predicted (the      *)
(* pooled correlation of no pairs, the product of no returns).             *)
THEOREM NoFoldsNoMerit ==
  ASSUME NEW predicted, NEW label, NEW cost
  PROVE  GateMetrics({}, predicted, label, cost) = [ic |-> 0, net_return |-> 0]
<1> DEFINE rows == UNION {{fold} \X fold.test : fold \in {}}
           Pooled(f) == Centred([r \in rows |-> f[r[2]]])
           grown == ProductOver({}, LAMBDA a : Tenths * Cardinality(a.test)
                                          + FoldReturn(a, predicted, label, cost))
           start == ProductOver({}, LAMBDA a : Tenths * Cardinality(a.test))
<1>1. rows = {}
  OBVIOUS
<1>2. DOMAIN Pooled(predicted) = {}
  BY <1>1 DEF Centred
<1>3. start = 1
  <2> DEFINE Step(g) == [s \in SUBSET {} |-> IF s = {} THEN 1
                           ELSE LET x == CHOOSE x \in s : TRUE IN (Tenths * Cardinality(x.test)) * g[s \ {x}]]
             It == CHOOSE g : g = Step(g)
  <2>1. \E g : g = Step(g)
    <3> DEFINE one == [s \in SUBSET {} |-> 1]
    <3>1. \A s \in SUBSET {} : s = {}
      OBVIOUS
    <3> HIDE DEF one
    <3>2. one = Step(one)
      BY <3>1 DEF one
    <3>3. QED
      BY <3>2
  <2>2. It = Step(It)
    BY <2>1
  <2> HIDE DEF It
  <2>3. It[{}] = 1
    BY <2>2
  <2>4. QED
    BY <2>3 DEF ProductOver, MapThenFoldSet, It
<1>4. grown = 1
  <2> DEFINE Step(g) == [s \in SUBSET {} |-> IF s = {} THEN 1
                           ELSE LET x == CHOOSE x \in s : TRUE
                                IN (Tenths * Cardinality(x.test) + FoldReturn(x, predicted, label, cost)) * g[s \ {x}]]
             It == CHOOSE g : g = Step(g)
  <2>1. \E g : g = Step(g)
    <3> DEFINE one == [s \in SUBSET {} |-> 1]
    <3>1. \A s \in SUBSET {} : s = {}
      OBVIOUS
    <3> HIDE DEF one
    <3>2. one = Step(one)
      BY <3>1 DEF one
    <3>3. QED
      BY <3>2
  <2>2. It = Step(It)
    BY <2>1
  <2> HIDE DEF It
  <2>3. It[{}] = 1
    BY <2>2
  <2>4. QED
    BY <2>3 DEF ProductOver, MapThenFoldSet, It
<1> HIDE DEF Pooled
<1>5. Dot(Pooled(predicted), Pooled(label)) = 0
  BY <1>2, EmptyDot
<1>6. GateMetrics({}, predicted, label, cost)
        = [ic |-> Sign(Dot(Pooled(predicted), Pooled(label))), net_return |-> Sign(grown - start)]
  BY DEF GateMetrics, Pooled
<1> HIDE DEF grown, start
<1>7. Sign(0) = 0 /\ Sign(1 - 1) = 0
  BY DEF Sign
<1>8. QED
  BY <1>3, <1>4, <1>5, <1>6, <1>7

(* A candidate with 0 on a metric on which some baseline has 0 or more     *)
(* does not pass the gate.                                                 *)
THEOREM GateTakesMerit ==
  ASSUME NEW candidate, NEW baselines, NEW keys, NEW b \in DOMAIN baselines, NEW key \in keys,
         candidate[key] = 0, baselines[b][key] \in Nat
  PROVE  ~GatePasses(candidate, baselines, keys)
<1>1. <<b, key>> \in (DOMAIN baselines) \X keys
  OBVIOUS
<1>2. candidate[key] <= baselines[b][key]
  OBVIOUS
<1>3. <<b, key>> \in Losses(candidate, baselines, keys)
  BY <1>1, <1>2 DEF Losses
<1>4. QED
  BY <1>3 DEF GatePasses

(* The baselines of the gate.                                              *)
EvaluateJob ==
  IsJob("evaluate") => job[5] \in [{"ic", "net_return"} -> {-1, 0, Missing}]

(* They have both metrics, either of which may be missing.                 *)
LEMMA EvaluateJobs == Spec => []EvaluateJob
<1>1. Init => EvaluateJob
  BY DEF Init, EvaluateJob, IsJob
<1>2. EvaluateJob /\ [Next]_vars => EvaluateJob'
  <2>1. ASSUME Choose PROVE EvaluateJob'
    <3>1. SUFFICES ASSUME job'[1] = "evaluate" PROVE EvaluateJob'
      BY DEF EvaluateJob, IsJob
    <3>2. PICK predicted \in [3..6 -> {-1, 1}], label \in [3..6 -> {-1, 1}], horizon \in 1..3,
               baseline \in [{"ic", "net_return"} -> {-1, 0, Missing}] :
            job' = <<"evaluate", predicted, label, horizon, baseline>>
      BY <2>1, <3>1 DEF Choose
    <3>3. QED
      BY <3>2 DEF EvaluateJob
  <2>2. ASSUME EvaluateJob, UNCHANGED job PROVE EvaluateJob'
    BY <2>2 DEF EvaluateJob, IsJob
  <2>3. QED
    BY <2>1, <2>2 DEF Next, vars
<1>3. QED
  BY <1>1, <1>2, PTL DEF Spec

(* A strategy that was never tested on a fold does not pass against        *)
(* baselines that earn nothing or better: GateNeedsFolds.                  *)
THEOREM GateAlwaysNeedsFolds == Spec => []GateNeedsFolds
<1>1. EvaluateJob => GateNeedsFolds
  <2> SUFFICES ASSUME EvaluateJob, IsJob("evaluate") PROVE GateNeedsFolds
    BY DEF GateNeedsFolds
  <2>1. PICK predicted, label, horizon, baseline :
          predicted = job[2] /\ label = job[3] /\ horizon = job[4] /\ baseline = job[5]
    OBVIOUS
  <2>2. PICK baselines : baselines = [b \in {"hold"} |-> baseline]
    OBVIOUS
  <2>3. PICK folds : folds = Folds(MCDays, 2, horizon, horizon, {"f", "g"},
                       {[id |-> f, state |-> "ACTIVE", from |-> 1] : f \in {"f", "g"}}, {})
    OBVIOUS
  <2>4. PICK metrics : metrics = GateMetrics(folds, predicted, label, 0)
    OBVIOUS
  <2>5. PICK keys : keys = {"ic", "net_return"}
    OBVIOUS
  <2>6. ASSUME GatePasses(metrics, baselines, keys), NEW key \in keys,
               baseline[key] \notin {-1, Missing}, folds = {}
        PROVE  FALSE
    <3>1. metrics = [ic |-> 0, net_return |-> 0]
      BY <2>4, <2>6, NoFoldsNoMerit
    <3>2. metrics[key] = 0
      BY <2>5, <3>1
    <3>3. baseline \in [{"ic", "net_return"} -> {-1, 0, Missing}]
      BY <2>1 DEF EvaluateJob
    <3>4. baseline[key] = 0
      BY <2>5, <2>6, <3>3
    <3>5. "hold" \in DOMAIN baselines /\ baselines["hold"][key] \in Nat
      BY <2>2, <3>4
    <3>6. QED
      BY <2>6, <3>2, <3>5, GateTakesMerit
  <2>7. QED
    BY <2>1, <2>2, <2>3, <2>4, <2>5, <2>6 DEF GateNeedsFolds
<1>2. QED
  BY <1>1, EvaluateJobs, PTL

-----------------------------------------------------------------------------
(* A set of naturals has a least element, by the well-foundedness of <.    *)
LEMMA LeastExists ==
  ASSUME NEW S, S \subseteq Nat, S # {}
  PROVE  \E least \in S : \A e \in S : least <= e
<1> DEFINE Less == OpToRel(<, Nat)
<1>1. \A m, n \in Nat : m < n => <<m, n>> \in Less
  BY DEF OpToRel
<1>2. IsWellFoundedOn(Less, Nat)
  BY NatLessThanWellFounded
<1> HIDE DEF Less
<1>3. PICK least \in S : \A e \in S : ~ (<<e, least>> \in Less)
  BY <1>2, WFMin
<1>4. \A e \in S : e \in Nat /\ least \in Nat /\ ~ (e < least)
  BY <1>1, <1>3
<1>5. QED
  BY <1>4

(* Induction up to n, over a set of naturals: of those left out, none is   *)
(* the least.                                                              *)
LEMMA HoldsUpTo ==
  ASSUME NEW n \in Nat, NEW Good \in SUBSET Nat, 0 \in Good,
         \A k \in 1..n : k - 1 \in Good => k \in Good
  PROVE  0..n \subseteq Good
<1> DEFINE Bad == {k \in 0..n : k \notin Good}
<1>1. Bad = {}
  <2>1. SUFFICES ASSUME Bad # {} PROVE FALSE
    OBVIOUS
  <2>2. PICK m \in Bad : \A e \in Bad : m <= e
    <3>1. Bad \subseteq Nat
      OBVIOUS
    <3>2. QED
      BY <2>1, <3>1, LeastExists
  <2>3. m \in 1..n /\ m - 1 \in 0..n /\ m \notin Good
    BY <2>2
  <2>4. m - 1 \in Good
    BY <2>2, <2>3
  <2>5. QED
    BY <2>3, <2>4
<1>2. QED
  BY <1>1

(* f starts with start and is led by step from one value to the next.      *)
Walks(f, n, start, step) ==
  f[0] = start /\ \A k \in 1..n : f[k] = step[<<k, f[k - 1]>>]

(* There is such a function, so the CHOOSE of a recursive definition is    *)
(* one.                                                                    *)
LEMMA WalkExists ==
  ASSUME NEW n \in Nat, NEW S, NEW start \in S, NEW step \in [(1..n) \X S -> S]
  PROVE  \E f \in [0..n -> S] : Walks(f, n, start, step)
<1> DEFINE Good == {m \in 0..n : \E f \in [0..m -> S] : Walks(f, m, start, step)}
<1>1. 0 \in Good
  <2>1. PICK f : f = [k \in 0..0 |-> start]
    OBVIOUS
  <2>2. f \in [0..0 -> S] /\ f[0] = start
    BY <2>1
  <2>3. Walks(f, 0, start, step)
    BY <2>2 DEF Walks
  <2>4. QED
    BY <2>2, <2>3
<1>2. ASSUME NEW m \in 1..n, m - 1 \in Good PROVE m \in Good
  <2>1. PICK f \in [0..m - 1 -> S] : Walks(f, m - 1, start, step)
    BY <1>2
  <2>2. PICK g : g = [k \in 0..m |-> IF k = m THEN step[<<m, f[m - 1]>>] ELSE f[k]]
    OBVIOUS
  <2>3. f[m - 1] \in S /\ step[<<m, f[m - 1]>>] \in S
    <3>1. m - 1 \in 0..m - 1 /\ m \in 1..n
      OBVIOUS
    <3>2. f[m - 1] \in S
      BY <3>1
    <3>3. <<m, f[m - 1]>> \in (1..n) \X S
      BY <3>1, <3>2
    <3>4. QED
      BY <3>2, <3>3
  <2>4. ASSUME NEW k \in 0..m PROVE g[k] \in S /\ (k # m => g[k] = f[k])
    <3>1. CASE k = m
      BY <2>2, <2>3, <3>1
    <3>2. CASE k # m
      <4>1. k \in 0..m - 1
        BY <3>2
      <4>2. QED
        BY <2>2, <3>2, <4>1
    <3>3. QED
      BY <3>1, <3>2
  <2>5. g \in [0..m -> S]
    <3>1. g = [k \in 0..m |-> g[k]]
      BY <2>2
    <3>2. QED
      BY <2>4, <3>1
  <2>6. g[0] = start
    <3>1. 0 \in 0..m /\ 0 # m
      OBVIOUS
    <3>2. QED
      BY <2>1, <2>4, <3>1 DEF Walks
  <2>7. ASSUME NEW k \in 1..m PROVE g[k] = step[<<k, g[k - 1]>>]
    <3>1. k - 1 \in 0..m /\ k - 1 # m /\ k \in 0..m
      OBVIOUS
    <3>2. g[k - 1] = f[k - 1]
      BY <2>4, <3>1
    <3>3. CASE k = m
      BY <2>2, <3>1, <3>2, <3>3
    <3>4. CASE k # m
      <4>1. k \in 1..m - 1
        BY <3>4
      <4>2. f[k] = step[<<k, f[k - 1]>>]
        BY <2>1, <4>1 DEF Walks
      <4>3. QED
        BY <2>4, <3>1, <3>2, <3>4, <4>2
    <3>5. QED
      BY <3>3, <3>4
  <2>8. Walks(g, m, start, step)
    BY <2>6, <2>7 DEF Walks
  <2>9. m \in 0..n
    OBVIOUS
  <2>10. QED
    BY <2>5, <2>8, <2>9
<1>3. 0..n \subseteq Good
  <2>1. Good \in SUBSET Nat
    OBVIOUS
  <2>2. QED
    BY <1>1, <1>2, <2>1, HoldsUpTo
<1>4. n \in Good
  BY <1>3
<1>5. QED
  BY <1>4

-----------------------------------------------------------------------------
Positive == Nat \ {0}

(* P[k] is the product of the first k of the numbers D.                    *)
Rises(P, D, n) == P[0] = 1 /\ \A k \in 1..n : P[k] = P[k - 1] * D[k]

(* There are such products.                                                *)
LEMMA RisesExist ==
  ASSUME NEW n \in Nat, NEW D \in [1..n -> Int]
  PROVE  \E P \in [0..n -> Int] : Rises(P, D, n)
<1>1. PICK step : step = [at \in (1..n) \X Int |-> at[2] * D[at[1]]]
  OBVIOUS
<1>2. step \in [(1..n) \X Int -> Int]
  <2>1. ASSUME NEW at \in (1..n) \X Int PROVE at[2] * D[at[1]] \in Int
    <3>1. at[1] \in 1..n /\ at[2] \in Int
      OBVIOUS
    <3>2. D[at[1]] \in Int
      BY <3>1
    <3>3. QED
      BY <3>1, <3>2
  <2>2. QED
    BY <1>1, <2>1
<1>3. PICK P \in [0..n -> Int] : Walks(P, n, 1, step)
  <2>1. 1 \in Int
    OBVIOUS
  <2>2. QED
    BY <1>2, <2>1, WalkExists
<1>4. ASSUME NEW k \in 1..n PROVE P[k] = P[k - 1] * D[k]
  <2>1. k - 1 \in 0..n
    OBVIOUS
  <2>2. P[k - 1] \in Int
    BY <2>1
  <2>3. <<k, P[k - 1]>> \in (1..n) \X Int
    BY <2>2
  <2>4. P[k] = step[<<k, P[k - 1]>>]
    BY <1>3 DEF Walks
  <2>5. QED
    BY <1>1, <2>3, <2>4
<1>5. P[0] = 1
  BY <1>3 DEF Walks
<1>6. QED
  BY <1>4, <1>5 DEF Rises

(* The recursive function of Growth, and the one of Rest.                  *)
GrowthWalk(returns, P) ==
  P = [k \in 0..Len(returns) |-> IF k = 0 THEN 1 ELSE P[k - 1] * (Tenths + returns[k])]

RestWalk(n, P) == P = [k \in 0..n |-> IF k = 0 THEN 1 ELSE P[k - 1] * Tenths]

LEMMA ProductsChosen ==
  ASSUME NEW returns, NEW n
  PROVE  /\ Growth(returns) = CHOOSE P : GrowthWalk(returns, P)
         /\ Rest(n) = CHOOSE P : RestWalk(n, P)
BY DEF Growth, GrowthWalk, Rest, RestWalk

(* Growth is the products of the returns, scaled; Rest those of as many    *)
(* days without one.                                                       *)
LEMMA GrowthRises ==
  ASSUME NEW returns \in Seq(Int), NEW n, n = Len(returns), NEW D, D = [k \in 1..n |-> Tenths + returns[k]],
         NEW G, G = Growth(returns)
  PROVE  Rises(G, D, n) /\ n \in Nat
<1>1. n \in Nat /\ \A k \in 1..n : returns[k] \in Int
  OBVIOUS
<1>2. D \in [1..n -> Int]
  BY <1>1 DEF Tenths
<1>3. PICK P \in [0..n -> Int] : Rises(P, D, n)
  BY <1>1, <1>2, RisesExist
<1>4. GrowthWalk(returns, P)
  <2>1. P = [k \in 0..n |-> P[k]]
    OBVIOUS
  <2>2. ASSUME NEW k \in 0..n PROVE P[k] = IF k = 0 THEN 1 ELSE P[k - 1] * (Tenths + returns[k])
    <3>1. CASE k = 0
      BY <1>3, <3>1 DEF Rises
    <3>2. CASE k # 0
      <4>1. k \in 1..n
        BY <1>1, <3>2
      <4>2. P[k] = P[k - 1] * D[k] /\ D[k] = Tenths + returns[k]
        BY <1>3, <4>1 DEF Rises
      <4>3. QED
        BY <3>2, <4>2
    <3>3. QED
      BY <3>1, <3>2
  <2>3. QED
    BY <2>1, <2>2 DEF GrowthWalk
<1>5. GrowthWalk(returns, G)
  BY <1>4, ProductsChosen, Zenon
<1>6. G[0] = 1
  <2>1. 0 \in 0..n
    BY <1>1
  <2>2. QED
    BY <1>5, <2>1 DEF GrowthWalk
<1>7. ASSUME NEW k \in 1..n PROVE G[k] = G[k - 1] * D[k]
  <2>1. k \in 0..n /\ k # 0
    BY <1>1
  <2>2. G[k] = G[k - 1] * (Tenths + returns[k])
    BY <1>5, <2>1 DEF GrowthWalk
  <2>3. QED
    BY <2>2
<1>8. QED
  BY <1>1, <1>6, <1>7 DEF Rises

LEMMA RestRises ==
  ASSUME NEW n \in Nat, NEW D, D = [k \in 1..n |-> Tenths], NEW T, T = Rest(n)
  PROVE  Rises(T, D, n)
<1>1. D \in [1..n -> Int]
  BY DEF Tenths
<1>2. PICK P \in [0..n -> Int] : Rises(P, D, n)
  BY <1>1, RisesExist
<1>3. RestWalk(n, P)
  <2>1. P = [k \in 0..n |-> P[k]]
    OBVIOUS
  <2>2. ASSUME NEW k \in 0..n PROVE P[k] = IF k = 0 THEN 1 ELSE P[k - 1] * Tenths
    <3>1. CASE k = 0
      BY <1>2, <3>1 DEF Rises
    <3>2. CASE k # 0
      <4>1. k \in 1..n
        BY <3>2
      <4>2. P[k] = P[k - 1] * D[k] /\ D[k] = Tenths
        BY <1>2, <4>1 DEF Rises
      <4>3. QED
        BY <3>2, <4>2
    <3>3. QED
      BY <3>1, <3>2
  <2>3. QED
    BY <2>1, <2>2 DEF RestWalk
<1>4. RestWalk(n, T)
  BY <1>3, ProductsChosen, Zenon
<1>5. T[0] = 1 /\ \A k \in 1..n : T[k] = T[k - 1] * D[k]
  <2>1. 0 \in 0..n /\ \A k \in 1..n : k \in 0..n /\ k # 0
    OBVIOUS
  <2>2. T[0] = 1 /\ \A k \in 1..n : T[k] = T[k - 1] * Tenths
    BY <1>4, <2>1 DEF RestWalk
  <2>3. QED
    BY <2>2
<1>6. QED
  BY <1>5 DEF Rises

(* No factor turns or ends the curve.                                      *)
AllPositive(D, n) == \A k \in 1..n : D[k] \in Positive

(* E is the stretch of m numbers of D after the first i, or all of D in    *)
(* the opposite order.                                                     *)
Follows(E, D, i, m) == \A k \in 1..m : E[k] = D[i + k]
Turned(E, D, n) == \A k \in 1..n : E[k] = D[n + 1 - k]

(* What that makes of the products Q of E and P of D.                      *)
ProductsFollow(Q, P, i, m) == \A k \in 0..m : Q[k] * P[i] = P[i + k]
ProductsTurn(Q, P, n) == \A k \in 0..n : Q[k] * P[n - k] = P[n]

(* So no product does.                                                     *)
LEMMA ProductIsPositive ==
  ASSUME NEW x \in Positive, NEW y \in Positive
  PROVE  x * y \in Positive
BY DEF Positive

LEMMA RisesPositive ==
  ASSUME NEW n \in Nat, NEW D, \A k \in 1..n : D[k] \in Positive, NEW P, Rises(P, D, n)
  PROVE  \A k \in 0..n : P[k] \in Positive
<1> DEFINE Good == {k \in Nat : P[k] \in Positive}
<1>1. 0 \in Good
  BY DEF Rises, Positive
<1>2. ASSUME NEW k \in 1..n, k - 1 \in Good PROVE k \in Good
  <2>1. P[k - 1] \in Positive /\ D[k] \in Positive
    BY <1>2
  <2>2. P[k - 1] * D[k] \in Positive
    BY <2>1, ProductIsPositive
  <2>3. P[k] = P[k - 1] * D[k]
    BY DEF Rises
  <2>4. QED
    BY <2>2, <2>3
<1>3. 0..n \subseteq Good
  BY <1>1, <1>2, HoldsUpTo
<1>4. QED
  BY <1>3

(* The products of a stretch are those of the whole over those before the  *)
(* stretch.                                                                *)
LEMMA RisesInside ==
  ASSUME NEW n \in Nat, NEW i \in Nat, NEW m \in Nat, i + m \in 0..n,
         NEW D, AllPositive(D, n), NEW P, Rises(P, D, n),
         NEW E, Follows(E, D, i, m), NEW Q, Rises(Q, E, m)
  PROVE  ProductsFollow(Q, P, i, m)
<1>1. \A k \in 0..n : P[k] \in Positive
  BY RisesPositive DEF AllPositive
<1>2. ASSUME NEW k \in 1..m PROVE E[k] \in Positive /\ E[k] = D[i + k]
  <2>1. i + k \in 1..n
    OBVIOUS
  <2>2. QED
    BY <2>1 DEF AllPositive, Follows
<1>3. \A k \in 0..m : Q[k] \in Positive
  BY <1>2, RisesPositive
<1> DEFINE Good == {k \in Nat : Q[k] * P[i] = P[i + k]}
<1>4. 0 \in Good
  <2>1. P[i] \in Int /\ i + 0 = i
    <3>1. i \in 0..n
      OBVIOUS
    <3>2. QED
      BY <1>1, <3>1 DEF Positive
  <2>2. Q[0] = 1
    BY DEF Rises
  <2>3. QED
    BY <2>1, <2>2
<1>5. ASSUME NEW k \in 1..m, k - 1 \in Good PROVE k \in Good
  <2>1. PICK p, q, d : p = P[i] /\ q = Q[k - 1] /\ d = E[k]
    OBVIOUS
  <2>2. p \in Int /\ q \in Int /\ d \in Int
    <3>1. i \in 0..n /\ k - 1 \in 0..m
      OBVIOUS
    <3>2. QED
      BY <1>1, <1>2, <1>3, <2>1, <3>1 DEF Positive
  <2>3. Q[k] = q * d
    BY <2>1 DEF Rises
  <2>4. P[i + (k - 1)] = q * p
    BY <1>5, <2>1
  <2>5. P[i + k] = P[i + (k - 1)] * d
    <3>1. i + k \in 1..n /\ (i + k) - 1 = i + (k - 1)
      OBVIOUS
    <3>2. P[i + k] = P[(i + k) - 1] * D[i + k]
      BY <3>1 DEF Rises
    <3>3. QED
      BY <1>2, <2>1, <3>1, <3>2
  <2>6. (q * d) * p = (q * p) * d
    BY <2>2
  <2>7. QED
    BY <2>1, <2>3, <2>4, <2>5, <2>6
<1>6. 0..m \subseteq Good
  BY <1>4, <1>5, HoldsUpTo
<1>7. QED
  BY <1>6 DEF ProductsFollow

(* The products in the opposite order are the whole over what is left.     *)
LEMMA RisesMirrored ==
  ASSUME NEW n \in Nat, NEW D, AllPositive(D, n), NEW P, Rises(P, D, n),
         NEW E, Turned(E, D, n), NEW Q, Rises(Q, E, n)
  PROVE  ProductsTurn(Q, P, n)
<1>1. \A k \in 0..n : P[k] \in Positive
  BY RisesPositive DEF AllPositive
<1>2. ASSUME NEW k \in 1..n PROVE E[k] \in Positive /\ E[k] = D[n + 1 - k]
  <2>1. n + 1 - k \in 1..n
    OBVIOUS
  <2>2. QED
    BY <2>1 DEF AllPositive, Turned
<1>3. \A k \in 0..n : Q[k] \in Positive
  BY <1>2, RisesPositive
<1> DEFINE Good == {k \in Nat : Q[k] * P[n - k] = P[n]}
<1>4. 0 \in Good
  <2>1. P[n] \in Int /\ n - 0 = n
    BY <1>1 DEF Positive
  <2>2. Q[0] = 1
    BY DEF Rises
  <2>3. QED
    BY <2>1, <2>2
<1>5. ASSUME NEW k \in 1..n, k - 1 \in Good PROVE k \in Good
  <2>1. PICK p, q, d : p = P[n - k] /\ q = Q[k - 1] /\ d = E[k]
    OBVIOUS
  <2>2. p \in Int /\ q \in Int /\ d \in Int
    <3>1. n - k \in 0..n /\ k - 1 \in 0..n
      OBVIOUS
    <3>2. QED
      BY <1>1, <1>2, <1>3, <2>1, <3>1 DEF Positive
  <2>3. Q[k] = q * d
    BY <2>1 DEF Rises
  <2>4. P[n - (k - 1)] = p * d
    <3>1. n + 1 - k \in 1..n /\ (n + 1 - k) - 1 = n - k /\ n - (k - 1) = n + 1 - k
      OBVIOUS
    <3>2. P[n + 1 - k] = P[(n + 1 - k) - 1] * D[n + 1 - k]
      BY <3>1 DEF Rises
    <3>3. QED
      BY <1>2, <2>1, <3>1, <3>2
  <2>5. q * P[n - (k - 1)] = P[n]
    BY <1>5, <2>1
  <2>6. (q * d) * p = q * (p * d)
    BY <2>2
  <2>7. QED
    BY <2>1, <2>3, <2>4, <2>5, <2>6
<1>6. 0..n \subseteq Good
  BY <1>4, <1>5, HoldsUpTo
<1>7. QED
  BY <1>6 DEF ProductsTurn

-----------------------------------------------------------------------------
(* Ratios of two values of a curve.                                        *)
Ratios == Positive \X Positive

(* The ratio a is at most the ratio b.                                     *)
NotAbove(a, b) == a[1] * b[2] <= b[1] * a[2]

(* It is the order Below and SameRatio belong to, and a total one.         *)
LEMMA BelowOrNot ==
  ASSUME NEW a \in Ratios, NEW b \in Ratios
  PROVE  /\ ~Below(b, a) <=> NotAbove(a, b)
         /\ NotAbove(a, b) \/ NotAbove(b, a)
         /\ SameRatio(a, b) <=> NotAbove(a, b) /\ NotAbove(b, a)
<1>1. PICK p, q, r, s : p = a[1] /\ q = a[2] /\ r = b[1] /\ s = b[2]
  OBVIOUS
<1>2. p \in Int /\ q \in Int /\ r \in Int /\ s \in Int
  BY <1>1 DEF Ratios, Positive
<1>3. PICK x, y : x = p * s /\ y = r * q
  OBVIOUS
<1>4. x \in Int /\ y \in Int
  BY <1>2, <1>3
<1>5. Below(b, a) <=> y < x
  BY <1>1, <1>3 DEF Below
<1>6. NotAbove(a, b) <=> x <= y
  BY <1>1, <1>3 DEF NotAbove
<1>7. NotAbove(b, a) <=> y <= x
  BY <1>1, <1>3 DEF NotAbove
<1>8. SameRatio(a, b) <=> x = y
  BY <1>1, <1>3 DEF SameRatio
<1>9. QED
  BY <1>4, <1>5, <1>6, <1>7, <1>8

(* A positive factor may be cancelled, and multiplied with.                *)
LEMMA FactorCancels ==
  ASSUME NEW p \in Positive, NEW x \in Int, NEW y \in Int, p * x <= p * y
  PROVE  x <= y
<1>1. SUFFICES ASSUME x > y PROVE FALSE
  OBVIOUS
<1>2. PICK d \in Positive : x = y + d
  <2>1. x - y \in Positive /\ x = y + (x - y)
    BY <1>1 DEF Positive
  <2>2. QED
    BY <2>1
<1>3. p * x = p * y + p * d
  BY <1>2 DEF Positive
<1>4. p * d \in Positive
  BY ProductIsPositive
<1>5. p * y \in Int
  BY DEF Positive
<1>6. QED
  BY <1>3, <1>4, <1>5 DEF Positive

LEMMA FactorKeeps ==
  ASSUME NEW p \in Positive, NEW x \in Int, NEW y \in Int, x <= y
  PROVE  p * x <= p * y
<1>1. PICK d \in Nat : y = x + d
  <2>1. y - x \in Nat /\ y = x + (y - x)
    OBVIOUS
  <2>2. QED
    BY <2>1
<1>2. p * y = p * x + p * d
  BY <1>1 DEF Positive
<1>3. p * d \in Nat /\ p * x \in Int
  BY DEF Positive
<1>4. QED
  BY <1>2, <1>3

(* The order is transitive: multiply by the denominators, and cancel the   *)
(* one in the middle.                                                      *)
LEMMA NotAboveIsTransitive ==
  ASSUME NEW a \in Ratios, NEW b \in Ratios, NEW c \in Ratios, NotAbove(a, b), NotAbove(b, c)
  PROVE  NotAbove(a, c)
<1>1. PICK p, q, r, s, t, u : p = a[1] /\ q = a[2] /\ r = b[1] /\ s = b[2] /\ t = c[1] /\ u = c[2]
  OBVIOUS
<1>2. p \in Positive /\ q \in Positive /\ r \in Positive /\ s \in Positive /\ t \in Positive /\ u \in Positive
  BY <1>1 DEF Ratios
<1>3. p \in Int /\ q \in Int /\ r \in Int /\ s \in Int /\ t \in Int /\ u \in Int
  BY <1>2 DEF Positive
<1>4. p * s <= r * q /\ r * u <= t * s
  BY <1>1 DEF NotAbove
<1>5. u * (p * s) <= u * (r * q)
  <2>1. p * s \in Int /\ r * q \in Int
    BY <1>3
  <2>2. QED
    BY <1>2, <1>4, <2>1, FactorKeeps
<1>6. q * (r * u) <= q * (t * s)
  <2>1. r * u \in Int /\ t * s \in Int
    BY <1>3
  <2>2. QED
    BY <1>2, <1>4, <2>1, FactorKeeps
<1>7. u * (r * q) = q * (r * u) /\ u * (p * s) = s * (p * u) /\ q * (t * s) = s * (t * q)
  BY <1>3
<1>8. s * (p * u) <= s * (t * q)
  <2>1. PICK x, y, z : x = u * (p * s) /\ y = u * (r * q) /\ z = q * (t * s)
    OBVIOUS
  <2>2. x \in Int /\ y \in Int /\ z \in Int
    BY <1>3, <2>1
  <2>3. x <= y /\ y <= z
    BY <1>5, <1>6, <1>7, <2>1
  <2>4. x <= z
    BY <2>2, <2>3
  <2>5. QED
    BY <1>7, <2>1, <2>4
<1>9. p * u <= t * q
  <2>1. p * u \in Int /\ t * q \in Int
    BY <1>3
  <2>2. QED
    BY <1>2, <1>8, <2>1, FactorCancels
<1>10. QED
  BY <1>1, <1>9 DEF NotAbove

(* A value over itself is one.                                             *)
LEMMA SameRatioPairs ==
  ASSUME NEW a \in Ratios
  PROVE  /\ NotAbove(a, a)
         /\ \A x \in Positive : NotAbove(a, <<x, x>>) <=> NotAbove(a, <<1, 1>>)
         /\ \A x \in Positive : SameRatio(<<x, x>>, <<1, 1>>)
<1>1. PICK p, q : p = a[1] /\ q = a[2]
  OBVIOUS
<1>2. p \in Positive /\ q \in Positive
  BY <1>1 DEF Ratios
<1>3. NotAbove(a, a)
  BY <1>1, <1>2 DEF NotAbove, Positive
<1>4. ASSUME NEW x \in Positive PROVE SameRatio(<<x, x>>, <<1, 1>>) /\ (NotAbove(a, <<x, x>>) <=> NotAbove(a, <<1, 1>>))
  <2>1. SameRatio(<<x, x>>, <<1, 1>>)
    BY DEF SameRatio, Positive
  <2>2. <<x, x>> \in Ratios /\ <<1, 1>> \in Ratios
    BY DEF Ratios, Positive
  <2>3. NotAbove(<<x, x>>, <<1, 1>>) /\ NotAbove(<<1, 1>>, <<x, x>>)
    BY <2>1, <2>2, BelowOrNot
  <2>4. QED
    BY <2>1, <2>2, <2>3, NotAboveIsTransitive
<1>5. QED
  BY <1>3, <1>4

-----------------------------------------------------------------------------

(* w is the lowest ratio of a value of the curve to an earlier one or to   *)
(* itself.                                                                 *)
IsWorst(E, N, w) ==
  /\ w \in Ratios
  /\ \A a, b \in 1..N : a <= b => NotAbove(w, <<E[b], E[a]>>)
  /\ \E a, b \in 1..N : a <= b /\ SameRatio(w, <<E[b], E[a]>>)

(* peak is the highest value of the curve.                                 *)
IsPeak(E, N, peak) ==
  peak \in Positive /\ (\E c \in 1..N : peak = E[c]) /\ \A c \in 1..N : E[c] <= peak

(* One turn of max_drawdown's loop: the new value over the running peak is *)
(* the lowest of its ratios to the values before it.                       *)
LEMMA WorstSoFar ==
  ASSUME NEW k \in Nat, NEW E, \A c \in 1..k + 1 : E[c] \in Positive,
         NEW acc, k > 0 => IsPeak(E, k, acc.peak) /\ IsWorst(E, k, acc.worst),
         k = 0 => acc = [peak |-> 0, worst |-> <<1, 1>>],
         NEW next, next = Fall(acc, E[k + 1])
  PROVE  IsPeak(E, k + 1, next.peak) /\ IsWorst(E, k + 1, next.worst)
<1>1. PICK v : v = E[k + 1]
  OBVIOUS
<1>2. v \in Positive
  <2>1. k + 1 \in 1..k + 1
    OBVIOUS
  <2>2. QED
    BY <1>1, <2>1
<1>3. next = [peak |-> IF v > acc.peak THEN v ELSE acc.peak,
              worst |-> IF Below(<<v, next.peak>>, acc.worst) THEN <<v, next.peak>> ELSE acc.worst]
  BY <1>1 DEF Fall
<1>4. next.peak = IF v > acc.peak THEN v ELSE acc.peak
  BY <1>3
<1>5. next.worst = IF Below(<<v, next.peak>>, acc.worst) THEN <<v, next.peak>> ELSE acc.worst
  BY <1>3
<1>6. k + 1 \in 1..k + 1 /\ \A c \in 1..k + 1 : c = k + 1 \/ (c \in 1..k /\ k > 0)
  OBVIOUS
<1>7. \A c \in 1..k : c \in 1..k + 1
  OBVIOUS
<1>8. CASE k = 0
  <2>1. acc.peak = 0 /\ acc.worst = <<1, 1>>
    BY <1>8
  <2>2. next.peak = v
    BY <1>2, <1>4, <2>1 DEF Positive
  <2>3. 1..k + 1 = {k + 1}
    BY <1>8
  <2>4. IsPeak(E, k + 1, next.peak)
    BY <1>1, <1>2, <2>2, <2>3 DEF IsPeak, Positive
  <2>5. <<1, 1>> \in Ratios /\ <<v, v>> \in Ratios
    BY <1>2 DEF Ratios, Positive
  <2>6. SameRatio(<<1, 1>>, <<v, v>>)
    BY <1>2 DEF SameRatio, Positive
  <2>7. NotAbove(<<1, 1>>, <<v, v>>) /\ ~Below(<<v, v>>, <<1, 1>>)
    BY <2>5, <2>6, BelowOrNot
  <2>8. next.worst = <<1, 1>>
    BY <1>5, <2>1, <2>2, <2>7
  <2>9. IsWorst(E, k + 1, next.worst)
    BY <1>1, <1>6, <2>3, <2>5, <2>6, <2>7, <2>8 DEF IsWorst
  <2>10. QED
    BY <2>4, <2>9
<1>9. CASE k > 0
  <2>1. IsPeak(E, k, acc.peak) /\ IsWorst(E, k, acc.worst)
    BY <1>9
  <2>2. acc.peak \in Positive
    BY <2>1 DEF IsPeak
  <2>3. next.peak \in Positive /\ acc.peak <= next.peak /\ v <= next.peak
    BY <1>2, <1>4, <2>2 DEF Positive
  <2>4. \E c \in 1..k + 1 : next.peak = E[c]
    BY <1>1, <1>4, <1>6, <1>7, <2>1 DEF IsPeak
  <2>5. \A c \in 1..k + 1 : E[c] <= next.peak
    <3>1. \A c \in 1..k : E[c] <= acc.peak /\ E[c] \in Positive
      BY <1>7, <2>1 DEF IsPeak
    <3>2. \A c \in 1..k : E[c] <= next.peak
      BY <3>1, <2>2, <2>3 DEF Positive
    <3>3. QED
      BY <3>2, <2>3, <1>1, <1>6
  <2>6. IsPeak(E, k + 1, next.peak)
    BY <2>3, <2>4, <2>5 DEF IsPeak
  <2>7. PICK at : at = <<v, next.peak>>
    OBVIOUS
  <2>8. at \in Ratios /\ acc.worst \in Ratios
    BY <1>2, <2>1, <2>3, <2>7 DEF Ratios, IsWorst
  <2>9. next.worst \in Ratios /\ NotAbove(next.worst, at) /\ NotAbove(next.worst, acc.worst)
    <3>1. CASE Below(at, acc.worst)
      <4>1. next.worst = at
        BY <1>5, <2>7, <3>1
      <4>2. ~NotAbove(acc.worst, at)
        BY <2>8, <3>1, BelowOrNot
      <4>3. QED
        BY <2>8, <4>1, <4>2, BelowOrNot, SameRatioPairs
    <3>2. CASE ~Below(at, acc.worst)
      <4>1. next.worst = acc.worst
        BY <1>5, <2>7, <3>2
      <4>2. NotAbove(acc.worst, at)
        BY <2>8, <3>2, BelowOrNot
      <4>3. QED
        BY <2>8, <4>1, <4>2, SameRatioPairs
    <3>3. QED
      BY <3>1, <3>2
  <2>10. ASSUME NEW a \in 1..k + 1, NEW b \in 1..k + 1, a <= b PROVE NotAbove(next.worst, <<E[b], E[a]>>)
    <3>1. E[a] \in Positive /\ E[b] \in Positive
      OBVIOUS
    <3>2. <<E[b], E[a]>> \in Ratios
      BY <3>1 DEF Ratios
    <3>3. CASE b = k + 1
      <4>1. E[b] = v /\ E[a] <= next.peak
        BY <1>1, <2>5, <3>3
      <4>2. v * E[a] <= v * next.peak
        BY <1>2, <2>3, <3>1, <4>1, FactorKeeps DEF Positive
      <4>3. NotAbove(at, <<E[b], E[a]>>)
        BY <2>7, <4>1, <4>2 DEF NotAbove
      <4>4. QED
        BY <2>8, <2>9, <3>2, <4>3, NotAboveIsTransitive
    <3>4. CASE b # k + 1
      <4>1. a \in 1..k /\ b \in 1..k
        BY <2>10, <3>4
      <4>2. NotAbove(acc.worst, <<E[b], E[a]>>)
        BY <2>1, <2>10, <4>1 DEF IsWorst
      <4>3. QED
        BY <2>8, <2>9, <3>2, <4>2, NotAboveIsTransitive
    <3>5. QED
      BY <3>3, <3>4
  <2>11. \E a, b \in 1..k + 1 : a <= b /\ SameRatio(next.worst, <<E[b], E[a]>>)
    <3>1. CASE next.worst = at
      <4>1. PICK c \in 1..k + 1 : next.peak = E[c]
        BY <2>4
      <4>2. SameRatio(at, at)
        BY DEF SameRatio
      <4>3. c <= k + 1
        OBVIOUS
      <4>4. QED
        BY <1>1, <1>6, <2>7, <3>1, <4>1, <4>2, <4>3
    <3>2. CASE next.worst = acc.worst
      <4>1. PICK a \in 1..k, b \in 1..k : a <= b /\ SameRatio(acc.worst, <<E[b], E[a]>>)
        BY <2>1 DEF IsWorst
      <4>2. QED
        BY <1>7, <3>2, <4>1
    <3>3. QED
      BY <1>5, <2>7, <3>1, <3>2
  <2>12. IsWorst(E, k + 1, next.worst)
    BY <2>9, <2>10, <2>11 DEF IsWorst
  <2>13. QED
    BY <2>6, <2>12
<1>10. QED
  BY <1>8, <1>9

(* The recursive function of MaxDrawdown.                                  *)
DrawdownWalk(equity, f) ==
  f = [k \in 0..Len(equity) |->
         IF k = 0 THEN [peak |-> 0, worst |-> <<1, 1>>] ELSE Fall(f[k - 1], equity[k])]

LEMMA DrawdownChosen ==
  ASSUME NEW equity
  PROVE  MaxDrawdown(equity) = (CHOOSE f : DrawdownWalk(equity, f))[Len(equity)].worst
BY DEF MaxDrawdown, DrawdownWalk

(* max_drawdown of a positive curve finds its lowest ratio.                *)
LEMMA DrawdownIsWorst ==
  ASSUME NEW N \in Positive, NEW E, Len(E) = N, \A c \in 1..N : E[c] \in Positive
  PROVE  IsWorst(E, N, MaxDrawdown(E))
<1> DEFINE S == [peak : Nat, worst : Ratios]
<1> DEFINE start == [peak |-> 0, worst |-> <<1, 1>>]
<1>1. N \in Nat /\ N > 0
  BY DEF Positive
<1>2. start \in S
  BY DEF Ratios, Positive
<1>3. PICK step : step = [at \in (1..N) \X S |-> Fall(at[2], E[at[1]])]
  OBVIOUS
<1>4. step \in [(1..N) \X S -> S]
  <2>1. ASSUME NEW at \in (1..N) \X S PROVE Fall(at[2], E[at[1]]) \in S
    <3>1. PICK acc, v : acc = at[2] /\ v = E[at[1]]
      OBVIOUS
    <3>2. acc \in S /\ v \in Positive
      BY <3>1
    <3>3. PICK peak : peak = IF v > acc.peak THEN v ELSE acc.peak
      OBVIOUS
    <3>4. peak \in Positive
      BY <3>2, <3>3 DEF Positive
    <3>5. Fall(acc, v) = [peak |-> peak, worst |-> IF Below(<<v, peak>>, acc.worst) THEN <<v, peak>> ELSE acc.worst]
      BY <3>3 DEF Fall
    <3>6. <<v, peak>> \in Ratios /\ acc.worst \in Ratios
      BY <3>2, <3>4 DEF Ratios
    <3>7. peak \in Nat
      BY <3>4 DEF Positive
    <3>8. Fall(acc, v) \in S
      BY <3>5, <3>6, <3>7
    <3>9. QED
      BY <3>1, <3>8
  <2>2. QED
    BY <1>3, <2>1
<1>5. PICK f \in [0..N -> S] : Walks(f, N, start, step)
  <2> HIDE DEF S, start
  <2>1. QED
    BY <1>1, <1>2, <1>4, WalkExists
<1>6. f[0] = start /\ \A k \in 1..N : f[k] = Fall(f[k - 1], E[k])
  <2>1. ASSUME NEW k \in 1..N PROVE f[k] = Fall(f[k - 1], E[k])
    <3>1. k - 1 \in 0..N
      BY <1>1
    <3>2. f[k - 1] \in S
      BY <3>1
    <3>3. <<k, f[k - 1]>> \in (1..N) \X S
      BY <3>2
    <3>4. f[k] = step[<<k, f[k - 1]>>]
      BY <1>5 DEF Walks
    <3> HIDE DEF S
    <3>5. QED
      BY <1>3, <3>3, <3>4
  <2>2. QED
    BY <1>5, <2>1 DEF Walks
<1>7. DrawdownWalk(E, f)
  <2>1. f = [k \in 0..N |-> f[k]]
    OBVIOUS
  <2>2. ASSUME NEW k \in 0..N PROVE f[k] = IF k = 0 THEN start ELSE Fall(f[k - 1], E[k])
    <3>1. k = 0 \/ k \in 1..N
      BY <1>1
    <3>2. QED
      BY <1>6, <3>1
  <2>3. QED
    BY <2>1, <2>2 DEF DrawdownWalk
<1>8. PICK g : DrawdownWalk(E, g) /\ MaxDrawdown(E) = g[N].worst
  BY <1>7, DrawdownChosen, Zenon
<1> HIDE DEF S
<1> DEFINE Good == {k \in 0..N : /\ k = 0 => g[k] = start
                                 /\ k > 0 => IsPeak(E, k, g[k].peak) /\ IsWorst(E, k, g[k].worst)}
<1>9. g[0] = start /\ \A k \in 1..N : g[k] = Fall(g[k - 1], E[k])
  <2>1. 0 \in 0..N /\ \A k \in 1..N : k \in 0..N /\ k # 0
    BY <1>1
  <2>2. QED
    BY <1>8, <2>1 DEF DrawdownWalk
<1>10. 0 \in Good
  BY <1>1, <1>9
<1>11. ASSUME NEW k \in 1..N, k - 1 \in Good PROVE k \in Good
  <2>1. PICK j \in Nat : j = k - 1
    BY <1>1
  <2>2. k = j + 1 /\ j \in 0..N
    BY <1>1, <2>1
  <2>3. \A c \in 1..j + 1 : E[c] \in Positive
    BY <2>2
  <2>4. (j > 0 => IsPeak(E, j, g[j].peak) /\ IsWorst(E, j, g[j].worst)) /\ (j = 0 => g[j] = start)
    BY <1>11, <2>1
  <2>5. g[k] = Fall(g[j], E[j + 1])
    BY <1>9, <2>1, <2>2
  <2>6. IsPeak(E, j + 1, g[k].peak) /\ IsWorst(E, j + 1, g[k].worst)
    BY <2>3, <2>4, <2>5, WorstSoFar
  <2>7. k > 0
    BY <1>1
  <2>8. QED
    BY <1>1, <2>2, <2>6, <2>7
<1>12. N \in Good
  <2>1. Good \in SUBSET Nat
    BY <1>1
  <2> HIDE DEF Good
  <2>2. 0..N \subseteq Good
    BY <1>1, <1>10, <1>11, <2>1, HoldsUpTo
  <2>3. QED
    BY <1>1, <2>2
<1>13. QED
  BY <1>1, <1>8, <1>12

-----------------------------------------------------------------------------
(* No day of the returns loses everything.                                 *)
AreReturns(returns) ==
  /\ returns \in Seq(Int)
  /\ \A k \in 1..Len(returns) : Tenths + returns[k] \in Positive

(* So growth stays positive ...                                            *)
LEMMA GrowthIsPositive ==
  ASSUME NEW returns, AreReturns(returns), NEW n, n = Len(returns)
  PROVE  /\ n \in Nat
         /\ \A k \in 0..n : Growth(returns)[k] \in Positive /\ Rest(n)[k] \in Positive
         /\ Rises(Growth(returns), [k \in 1..n |-> Tenths + returns[k]], n)
         /\ Rises(Rest(n), [k \in 1..n |-> Tenths], n)
<1>1. PICK D : D = [k \in 1..n |-> Tenths + returns[k]]
  OBVIOUS
<1>2. PICK F : F = [k \in 1..n |-> Tenths]
  OBVIOUS
<1>3. returns \in Seq(Int)
  BY DEF AreReturns
<1>4. Rises(Growth(returns), D, n) /\ n \in Nat
  BY <1>1, <1>3, GrowthRises
<1>5. Rises(Rest(n), F, n)
  BY <1>2, <1>4, RestRises
<1>6. \A k \in 1..n : D[k] \in Positive
  BY <1>1 DEF AreReturns
<1>7. \A k \in 1..n : F[k] \in Positive
  BY <1>2 DEF Tenths, Positive
<1>8. \A k \in 0..n : Growth(returns)[k] \in Positive
  BY <1>4, <1>6, RisesPositive
<1>9. \A k \in 0..n : Rest(n)[k] \in Positive
  BY <1>4, <1>5, <1>7, RisesPositive
<1>10. QED
  BY <1>1, <1>2, <1>4, <1>5, <1>8, <1>9

(* ... and so does the equity curve.                                       *)
LEMMA CurveIsPositive ==
  ASSUME NEW returns, AreReturns(returns), NEW n, n = Len(returns), NEW E, E = EquityCurve(returns)
  PROVE  /\ Len(E) = n + 1 /\ n + 1 \in Positive
         /\ \A k \in 1..n + 1 : E[k] = Growth(returns)[k - 1] * Rest(n)[n + 1 - k] /\ E[k] \in Positive
<1>1. n \in Nat /\ \A k \in 0..n : Growth(returns)[k] \in Positive /\ Rest(n)[k] \in Positive
  BY GrowthIsPositive
<1>2. E = [k \in 1..n + 1 |-> Growth(returns)[k - 1] * Rest(n)[n + 1 - k]]
  BY DEF EquityCurve
<1>3. ASSUME NEW k \in 1..n + 1 PROVE E[k] = Growth(returns)[k - 1] * Rest(n)[n + 1 - k] /\ E[k] \in Positive
  <2>1. k - 1 \in 0..n /\ n + 1 - k \in 0..n
    BY <1>1
  <2>2. Growth(returns)[k - 1] \in Positive /\ Rest(n)[n + 1 - k] \in Positive
    BY <1>1, <2>1
  <2>3. Growth(returns)[k - 1] * Rest(n)[n + 1 - k] \in Positive
    BY <2>2, ProductIsPositive
  <2>4. E[k] = Growth(returns)[k - 1] * Rest(n)[n + 1 - k]
    BY <1>2
  <2>5. QED
    BY <2>3, <2>4
<1>4. Len(E) = n + 1
  <2>1. E \in Seq(Positive)
    <3>1. E = [k \in 1..n + 1 |-> E[k]]
      BY <1>2
    <3>2. E \in [1..n + 1 -> Positive]
      BY <1>3, <3>1
    <3>3. n + 1 \in Nat
      BY <1>1
    <3>4. E \in UNION {[1..m -> Positive] : m \in Nat}
      BY <3>2, <3>3
    <3>5. QED
      BY <3>4, SeqDef
  <2>2. DOMAIN E = 1..n + 1 /\ n + 1 \in Nat
    BY <1>1, <1>2
  <2>3. QED
    BY <2>1, <2>2
<1>5. QED
  BY <1>1, <1>3, <1>4 DEF Positive

(* A value of the curve over an earlier one is the growth of the stretch   *)
(* between them.                                                           *)
LEMMA CurveOverStretch ==
  ASSUME NEW returns, AreReturns(returns), NEW n, n = Len(returns), NEW E, E = EquityCurve(returns),
         NEW i \in 1..n, NEW j \in 1..n, i <= j,
         NEW at, at = <<Growth(SubSeq(returns, i, j))[j - i + 1], Rest(n)[j - i + 1]>>
  PROVE  at \in Ratios /\ SameRatio(<<E[j + 1], E[i]>>, at)
<1>1. n \in Nat /\ returns \in Seq(Int)
  BY GrowthIsPositive DEF AreReturns
<1>2. PICK part, m, o : part = SubSeq(returns, i, j) /\ m = j - i + 1 /\ o = i - 1
  OBVIOUS
<1>3. m \in Nat /\ o \in Nat /\ o + m = j /\ j <= n /\ m \in 0..n /\ m \in 0..m
  BY <1>1, <1>2
<1>4. Len(part) = m /\ \A k \in 1..m : part[k] = returns[o + k] /\ o + k \in 1..n
  <2>1. \A k \in 1..m : o + k \in 1..n /\ i + k - 1 = o + k
    BY <1>1, <1>2, <1>3
  <2>2. part = [k \in 1..m |-> returns[i + k - 1]]
    BY <1>2
  <2>3. Len(part) = m
    BY <1>1, <1>2, <1>3
  <2>4. \A k \in 1..m : part[k] = returns[i + k - 1]
    BY <2>2
  <2>5. QED
    BY <2>1, <2>3, <2>4
<1>5. AreReturns(part)
  <2>1. part \in Seq(Int)
    BY <1>1, <1>2
  <2>2. QED
    BY <1>4, <2>1 DEF AreReturns
<1>6. PICK D, F, H : /\ D = [k \in 1..n |-> Tenths + returns[k]] /\ F = [k \in 1..n |-> Tenths]
                     /\ H = [k \in 1..m |-> Tenths + part[k]]
  OBVIOUS
<1>7. PICK G, T, Q : G = Growth(returns) /\ T = Rest(n) /\ Q = Growth(part)
  OBVIOUS
<1>8. Rises(G, D, n) /\ Rises(T, F, n)
  BY <1>6, <1>7, GrowthIsPositive
<1>9. Rises(Q, H, m) /\ \A k \in 0..m : Q[k] \in Positive
  <2>1. PICK len : len = Len(part)
    OBVIOUS
  <2>2. Rises(Growth(part), [k \in 1..len |-> Tenths + part[k]], len)
        /\ \A k \in 0..len : Growth(part)[k] \in Positive
    BY <1>5, <2>1, GrowthIsPositive
  <2>3. len = m
    BY <1>4, <2>1
  <2>4. QED
    BY <1>6, <1>7, <2>2, <2>3
<1>10. Q[m] * G[o] = G[j]
  <2>1. AllPositive(D, n)
    BY <1>6 DEF AreReturns, AllPositive
  <2>2. Follows(H, D, o, m)
    BY <1>4, <1>6 DEF Follows
  <2>3. n \in Nat /\ o \in Nat /\ m \in Nat /\ o + m \in 0..n
    BY <1>1, <1>3
  <2>4. Rises(G, D, n) /\ Rises(Q, H, m)
    BY <1>8, <1>9
  <2>5. ProductsFollow(Q, G, o, m)
    BY <2>1, <2>2, <2>3, <2>4, RisesInside, Zenon
  <2>6. QED
    BY <1>3, <2>5 DEF ProductsFollow
<1>11. T[m] * T[n - j] = T[n - o]
  <2>1. AllPositive(F, n)
    BY <1>6 DEF Tenths, Positive, AllPositive
  <2>2. PICK r \in Nat : r = n - j
    <3>1. n - j \in Nat
      BY <1>1
    <3>2. QED
      BY <3>1
  <2>3. r + m \in 0..n /\ r + m = n - o
    <3>1. r = n - j /\ o + m = j /\ n \in Int /\ o \in Nat /\ m \in Nat /\ j \in Int
      BY <1>1, <1>3, <2>2
    <3>2. QED
      BY <3>1
  <2>4. \A k \in 1..m : k \in 1..n /\ r + k \in 1..n
    BY <1>1, <1>3, <2>2
  <2>5. Follows(F, F, r, m)
    BY <1>6, <2>4 DEF Follows
  <2>6. Rises(T, F, m)
    BY <1>8, <2>4 DEF Rises
  <2>7. n \in Nat /\ m \in Nat /\ Rises(T, F, n)
    BY <1>1, <1>3, <1>8
  <2>8. ProductsFollow(T, T, r, m)
    BY <2>1, <2>2, <2>3, <2>5, <2>6, <2>7, RisesInside, Zenon
  <2>9. QED
    BY <1>3, <2>2, <2>3, <2>8 DEF ProductsFollow
<1>12. j \in 0..n /\ o \in 0..n /\ n - j \in 0..n /\ n - o \in 0..n
  BY <1>1, <1>3
<1>13. PICK q, x, y, u, w : q = Q[m] /\ x = G[o] /\ y = G[j] /\ u = T[m] /\ w = T[n - j]
  OBVIOUS
<1>14. q \in Positive /\ x \in Positive /\ u \in Positive /\ w \in Positive
  BY <1>3, <1>7, <1>9, <1>12, <1>13, GrowthIsPositive
<1>15. y = q * x /\ T[n - o] = u * w
  BY <1>10, <1>11, <1>13
<1>16. E[j + 1] = y * w
  <2>1. j + 1 \in 1..n + 1 /\ (j + 1) - 1 = j /\ n + 1 - (j + 1) = n - j
    BY <1>1
  <2>2. E[j + 1] = Growth(returns)[(j + 1) - 1] * Rest(n)[n + 1 - (j + 1)]
    BY <2>1, CurveIsPositive
  <2>3. QED
    BY <1>7, <1>13, <2>1, <2>2
<1>17. E[i] = x * (u * w)
  <2>1. i \in 1..n + 1 /\ i - 1 = o /\ n + 1 - i = n - o
    BY <1>1, <1>2
  <2>2. E[i] = Growth(returns)[i - 1] * Rest(n)[n + 1 - i]
    BY <2>1, CurveIsPositive
  <2>3. QED
    BY <1>7, <1>13, <1>15, <2>1, <2>2
<1>18. at = <<q, u>>
  BY <1>2, <1>7, <1>13
<1>19. ((q * x) * w) * u = q * (x * (u * w))
  BY <1>14 DEF Positive
<1>20. E[j + 1] * u = q * E[i]
  BY <1>15, <1>16, <1>17, <1>19
<1>21. QED
  BY <1>14, <1>18, <1>20 DEF SameRatio, Ratios

(* The returns in the opposite order are returns.                          *)
LEMMA ReverseReturns ==
  ASSUME NEW returns, AreReturns(returns), NEW n, n = Len(returns), NEW back, back = Reverse(returns)
  PROVE  AreReturns(back) /\ Len(back) = n /\ \A k \in 1..n : back[k] = returns[n + 1 - k]
<1>1. n \in Nat /\ returns \in Seq(Int)
  BY GrowthIsPositive DEF AreReturns
<1>2. back = [k \in 1..n |-> returns[(n - k) + 1]]
  BY DEF Reverse
<1>3. ASSUME NEW k \in 1..n PROVE back[k] = returns[n + 1 - k] /\ n + 1 - k \in 1..n
  BY <1>1, <1>2
<1>4. \A k \in 1..n : back[k] \in Int /\ Tenths + back[k] \in Positive
  BY <1>1, <1>3 DEF AreReturns
<1>5. back \in Seq(Int) /\ Len(back) = n
  <2>1. back = [k \in 1..n |-> back[k]]
    BY <1>2
  <2>2. back \in [1..n -> Int]
    BY <1>4, <2>1
  <2>3. back \in UNION {[1..m -> Int] : m \in Nat}
    BY <1>1, <2>2
  <2>4. back \in Seq(Int)
    BY <2>3, SeqDef
  <2>5. QED
    BY <1>1, <2>2, <2>4
<1>6. QED
  BY <1>3, <1>4, <1>5 DEF AreReturns

(* F is the curve E of the returns in the opposite order: value by value,  *)
(* their product is the same.                                              *)
Mirrors(E, F, N) ==
  \E all \in Positive : \A k \in 1..N : F[k] * E[N + 1 - k] = all

(* That is what Reverse makes of the curve.                                *)
LEMMA CurveMirrors ==
  ASSUME NEW returns, AreReturns(returns), NEW n, n = Len(returns)
  PROVE  Mirrors(EquityCurve(returns), EquityCurve(Reverse(returns)), n + 1)
<1>1. PICK back, E, F : back = Reverse(returns) /\ E = EquityCurve(returns) /\ F = EquityCurve(back)
  OBVIOUS
<1>2. AreReturns(back) /\ Len(back) = n /\ \A k \in 1..n : back[k] = returns[n + 1 - k]
  BY <1>1, ReverseReturns
<1>3. PICK G, H, T : G = Growth(returns) /\ H = Growth(back) /\ T = Rest(n)
  OBVIOUS
<1>4. PICK D, B, A : D = [k \in 1..n |-> Tenths + returns[k]] /\ B = [k \in 1..n |-> Tenths + back[k]] /\ A = [k \in 1..n |-> Tenths]
  OBVIOUS
<1>5. n \in Nat /\ Rises(G, D, n) /\ Rises(T, A, n)
      /\ \A k \in 0..n : G[k] \in Positive /\ T[k] \in Positive
  BY <1>3, <1>4, GrowthIsPositive
<1>6. Rises(H, B, n) /\ \A k \in 0..n : H[k] \in Positive
  BY <1>2, <1>3, <1>4, GrowthIsPositive
<1>7. \A k \in 1..n : D[k] \in Positive /\ A[k] \in Positive
  BY <1>4 DEF AreReturns, Tenths, Positive
<1>8. \A k \in 1..n : B[k] = D[n + 1 - k] /\ A[k] = A[n + 1 - k]
  <2>1. \A k \in 1..n : n + 1 - k \in 1..n
    BY <1>5
  <2>2. QED
    BY <1>2, <1>4, <2>1
<1>9. \A k \in 0..n : H[k] * G[n - k] = G[n]
  <2>1. n \in Nat /\ Rises(G, D, n) /\ Rises(H, B, n)
    BY <1>5, <1>6
  <2>2. AllPositive(D, n)
    BY <1>7 DEF AllPositive
  <2>3. Turned(B, D, n)
    BY <1>8 DEF Turned
  <2>4. ProductsTurn(H, G, n)
    BY <2>1, <2>2, <2>3, RisesMirrored, Zenon
  <2>5. QED
    BY <2>4 DEF ProductsTurn
<1>10. \A k \in 0..n : T[k] * T[n - k] = T[n]
  <2>1. n \in Nat /\ Rises(T, A, n)
    BY <1>5
  <2>2. AllPositive(A, n)
    BY <1>7 DEF AllPositive
  <2>3. Turned(A, A, n)
    BY <1>8 DEF Turned
  <2>4. ProductsTurn(T, T, n)
    BY <2>1, <2>2, <2>3, RisesMirrored, Zenon
  <2>5. QED
    BY <2>4 DEF ProductsTurn
<1>11. PICK all : all = G[n] * T[n]
  OBVIOUS
<1>12. all \in Positive
  <2>1. n \in 0..n
    BY <1>5
  <2>2. QED
    BY <1>5, <1>11, <2>1, ProductIsPositive
<1>13. ASSUME NEW k \in 1..n + 1 PROVE F[k] * E[n + 1 + 1 - k] = all
  <2>1. PICK l, m : l = k - 1 /\ m = n - l
    OBVIOUS
  <2>2. l \in 0..n /\ m \in 0..n /\ n + 1 - k = m /\ n + 1 + 1 - k \in 1..n + 1
        /\ (n + 1 + 1 - k) - 1 = m /\ n + 1 - (n + 1 + 1 - k) = l
    BY <1>5, <2>1
  <2>3. F[k] = H[l] * T[m]
    <3>1. F[k] = H[k - 1] * T[n + 1 - k]
      BY <1>1, <1>2, <1>3, CurveIsPositive
    <3>2. QED
      BY <2>1, <2>2, <3>1
  <2>4. E[n + 1 + 1 - k] = G[m] * T[l]
    <3>1. PICK z \in 1..n + 1 : z = n + 1 + 1 - k
      BY <2>2
    <3>2. E[z] = G[z - 1] * T[n + 1 - z]
      BY <1>1, <1>3, CurveIsPositive
    <3>3. QED
      BY <2>2, <3>1, <3>2
  <2>5. PICK h, g, t, s : h = H[l] /\ g = G[m] /\ t = T[m] /\ s = T[l]
    OBVIOUS
  <2>6. h \in Int /\ g \in Int /\ t \in Int /\ s \in Int
    BY <1>5, <1>6, <2>2, <2>5 DEF Positive
  <2>7. h * g = G[n] /\ s * t = T[n]
    BY <1>9, <1>10, <2>1, <2>2, <2>5
  <2>8. (h * t) * (g * s) = (h * g) * (s * t)
    BY <2>6
  <2>9. QED
    BY <1>11, <2>3, <2>4, <2>5, <2>7, <2>8
<1>14. QED
  BY <1>1, <1>12, <1>13 DEF Mirrors

(* Each of the two mirrors the other.                                      *)
LEMMA MirrorTurns ==
  ASSUME NEW N \in Positive, NEW E, NEW F, Mirrors(E, F, N),
         \A k \in 1..N : E[k] \in Positive /\ F[k] \in Positive
  PROVE  Mirrors(F, E, N)
<1>1. PICK all \in Positive : \A k \in 1..N : F[k] * E[N + 1 - k] = all
  BY DEF Mirrors
<1>2. ASSUME NEW k \in 1..N PROVE E[k] * F[N + 1 - k] = all
  <2>1. PICK l : l = N + 1 - k
    OBVIOUS
  <2>2. l \in 1..N /\ N + 1 - l = k
    BY <2>1 DEF Positive
  <2>3. F[l] * E[N + 1 - l] = all
    BY <1>1, <2>2
  <2>4. E[k] \in Int /\ F[l] \in Int
    BY <2>2 DEF Positive
  <2>5. E[k] * F[l] = F[l] * E[k]
    BY <2>4
  <2>6. QED
    BY <2>1, <2>2, <2>3, <2>5
<1>3. QED
  BY <1>1, <1>2 DEF Mirrors

(* A fall of the mirrored curve is one of the curve.                       *)
LEMMA MirrorIsNoWorse ==
  ASSUME NEW N \in Positive, NEW E, NEW F, Mirrors(E, F, N),
         \A k \in 1..N : E[k] \in Positive /\ F[k] \in Positive,
         NEW w, IsWorst(E, N, w), NEW z, IsWorst(F, N, z)
  PROVE  NotAbove(w, z)
<1>1. PICK all \in Positive : \A k \in 1..N : F[k] * E[N + 1 - k] = all
  BY DEF Mirrors
<1>2. PICK a \in 1..N, b \in 1..N : a <= b /\ SameRatio(z, <<F[b], F[a]>>)
  BY DEF IsWorst
<1>3. PICK c, d : c = N + 1 - b /\ d = N + 1 - a
  OBVIOUS
<1>4. c \in 1..N /\ d \in 1..N /\ c <= d
  BY <1>2, <1>3 DEF Positive
<1>5. NotAbove(w, <<E[d], E[c]>>)
  BY <1>4 DEF IsWorst
<1>6. SameRatio(<<E[d], E[c]>>, <<F[b], F[a]>>)
  <2>1. F[b] * E[c] = all /\ F[a] * E[d] = all
    BY <1>1, <1>3
  <2>2. E[c] \in Int /\ E[d] \in Int /\ F[a] \in Int /\ F[b] \in Int
    BY <1>4 DEF Positive
  <2>3. E[d] * F[a] = F[b] * E[c]
    BY <2>1, <2>2
  <2>4. QED
    BY <2>3 DEF SameRatio
<1>7. w \in Ratios /\ z \in Ratios /\ <<E[d], E[c]>> \in Ratios /\ <<F[b], F[a]>> \in Ratios
  BY <1>4 DEF IsWorst, Ratios
<1>8. NotAbove(<<E[d], E[c]>>, <<F[b], F[a]>>) /\ NotAbove(<<F[b], F[a]>>, z)
  BY <1>2, <1>6, <1>7, BelowOrNot
<1>9. QED
  BY <1>5, <1>7, <1>8, NotAboveIsTransitive

(* For any number of returns none of which loses everything: the running-  *)
(* peak drawdown is the same newest first and oldest first, no stretch of  *)
(* returns falls further, and unless there is no fall at all some stretch  *)
(* falls as far (shadow.py, _max_drawdown).                                *)
THEOREM WorstStretchFound ==
  ASSUME NEW returns, AreReturns(returns)
  PROVE  FallIsWorstStretch(returns)
<1>1. PICK n, E, fall : n = Len(returns) /\ E = EquityCurve(returns) /\ fall = MaxDrawdown(E)
  OBVIOUS
<1>2. PICK back, F, other : back = Reverse(returns) /\ F = EquityCurve(back) /\ other = MaxDrawdown(F)
  OBVIOUS
<1>3. n \in Nat /\ n + 1 \in Positive
  BY <1>1, GrowthIsPositive, CurveIsPositive
<1>4. Len(E) = n + 1 /\ \A k \in 1..n + 1 : E[k] \in Positive
  BY <1>1, CurveIsPositive
<1>5. Len(F) = n + 1 /\ \A k \in 1..n + 1 : F[k] \in Positive
  <2>1. AreReturns(back) /\ Len(back) = n
    BY <1>1, <1>2, ReverseReturns
  <2>2. QED
    BY <1>2, <2>1, CurveIsPositive
<1>6. IsWorst(E, n + 1, fall)
  BY <1>1, <1>3, <1>4, DrawdownIsWorst
<1>7. IsWorst(F, n + 1, other)
  BY <1>2, <1>3, <1>5, DrawdownIsWorst
<1>8. fall \in Ratios /\ other \in Ratios
  BY <1>6, <1>7 DEF IsWorst
<1>9. SameRatio(fall, other)
  <2>1. Mirrors(E, F, n + 1)
    BY <1>1, <1>2, CurveMirrors
  <2>2. Mirrors(F, E, n + 1)
    BY <1>3, <1>4, <1>5, <2>1, MirrorTurns
  <2>3. NotAbove(fall, other)
    BY <1>3, <1>4, <1>5, <1>6, <1>7, <2>1, MirrorIsNoWorse
  <2>4. NotAbove(other, fall)
    BY <1>3, <1>4, <1>5, <1>6, <1>7, <2>2, MirrorIsNoWorse
  <2>5. QED
    BY <1>8, <2>3, <2>4, BelowOrNot
<1> DEFINE Stretch(i, j) == <<Growth(SubSeq(returns, i, j))[j - i + 1], Rest(n)[j - i + 1]>>
<1>10. ASSUME NEW i \in 1..n, NEW j \in 1..n, i <= j
       PROVE  Stretch(i, j) \in Ratios /\ SameRatio(<<E[j + 1], E[i]>>, Stretch(i, j))
              /\ <<E[j + 1], E[i]>> \in Ratios /\ NotAbove(fall, <<E[j + 1], E[i]>>)
  <2>1. PICK at : at = Stretch(i, j)
    OBVIOUS
  <2>2. at \in Ratios /\ SameRatio(<<E[j + 1], E[i]>>, at)
    BY <1>1, <1>10, <2>1, CurveOverStretch
  <2>3. i \in 1..n + 1 /\ j + 1 \in 1..n + 1 /\ i <= j + 1
    BY <1>3, <1>10
  <2>4. <<E[j + 1], E[i]>> \in Ratios
    BY <1>4, <2>3 DEF Ratios
  <2>5. NotAbove(fall, <<E[j + 1], E[i]>>)
    BY <1>6, <2>3 DEF IsWorst
  <2>6. QED
    BY <2>1, <2>2, <2>4, <2>5
<1> HIDE DEF Stretch
<1>11. ASSUME NEW i \in 1..n, NEW j \in 1..n, i <= j PROVE ~Below(Stretch(i, j), fall)
  <2>1. Stretch(i, j) \in Ratios /\ <<E[j + 1], E[i]>> \in Ratios
        /\ NotAbove(fall, <<E[j + 1], E[i]>>) /\ SameRatio(<<E[j + 1], E[i]>>, Stretch(i, j))
    BY <1>10, <1>11
  <2>2. NotAbove(<<E[j + 1], E[i]>>, Stretch(i, j))
    BY <2>1, BelowOrNot
  <2>3. NotAbove(fall, Stretch(i, j))
    BY <1>8, <2>1, <2>2, NotAboveIsTransitive
  <2>4. QED
    BY <1>8, <2>1, <2>3, BelowOrNot
<1>12. SameRatio(fall, <<1, 1>>) \/ \E i, j \in 1..n : i <= j /\ SameRatio(fall, Stretch(i, j))
  <2>1. PICK a \in 1..n + 1, b \in 1..n + 1 : a <= b /\ SameRatio(fall, <<E[b], E[a]>>)
    BY <1>6 DEF IsWorst
  <2>2. <<E[b], E[a]>> \in Ratios
    BY <1>4 DEF Ratios
  <2>3. NotAbove(fall, <<E[b], E[a]>>) /\ NotAbove(<<E[b], E[a]>>, fall)
    BY <1>8, <2>1, <2>2, BelowOrNot
  <2>4. CASE a = b
    <3>1. PICK x \in Positive : x = E[a]
      BY <1>4
    <3>2. SameRatio(<<x, x>>, <<1, 1>>)
      BY <1>8, <3>1, SameRatioPairs
    <3>3. <<1, 1>> \in Ratios /\ <<x, x>> \in Ratios
      BY DEF Ratios, Positive
    <3>4. NotAbove(<<x, x>>, <<1, 1>>) /\ NotAbove(<<1, 1>>, <<x, x>>)
      BY <3>2, <3>3, BelowOrNot
    <3>5. NotAbove(fall, <<1, 1>>) /\ NotAbove(<<1, 1>>, fall)
      BY <1>8, <2>3, <2>4, <3>1, <3>3, <3>4, NotAboveIsTransitive
    <3>6. SameRatio(fall, <<1, 1>>)
      BY <1>8, <3>3, <3>5, BelowOrNot
    <3>7. QED
      BY <3>6
  <2>5. CASE a # b
    <3>1. PICK j : j = b - 1
      OBVIOUS
    <3>2. a \in 1..n /\ j \in 1..n /\ a <= j /\ b = j + 1
      BY <1>3, <2>1, <2>5, <3>1
    <3>3. Stretch(a, j) \in Ratios /\ SameRatio(<<E[b], E[a]>>, Stretch(a, j))
      BY <1>10, <3>2
    <3>4. NotAbove(<<E[b], E[a]>>, Stretch(a, j)) /\ NotAbove(Stretch(a, j), <<E[b], E[a]>>)
      BY <2>2, <3>3, BelowOrNot
    <3>5. NotAbove(fall, Stretch(a, j)) /\ NotAbove(Stretch(a, j), fall)
      BY <1>8, <2>2, <2>3, <3>3, <3>4, NotAboveIsTransitive
    <3>6. SameRatio(fall, Stretch(a, j))
      BY <1>8, <3>3, <3>5, BelowOrNot
    <3>7. QED
      BY <3>2, <3>6
  <2>6. QED
    BY <2>4, <2>5
<1>13. QED
  BY <1>1, <1>2, <1>9, <1>11, <1>12 DEF FallIsWorstStretch, Stretch

-----------------------------------------------------------------------------
(* Max of a bounded set of integers is its greatest element.               *)
LEMMA GreatestExists ==
  ASSUME NEW S, S \subseteq Int, S # {}, NEW most \in Int, \A x \in S : x <= most
  PROVE  /\ Max(S) \in S
         /\ \A x \in S : x <= Max(S)
<1> DEFINE Gaps == {most - x : x \in S}
<1>1. Gaps \subseteq Nat /\ Gaps # {}
  <2>1. \A x \in S : most - x \in Nat
    OBVIOUS
  <2>2. Gaps \subseteq Nat
    BY <2>1
  <2>3. PICK x \in S : TRUE
    OBVIOUS
  <2>4. most - x \in Gaps
    OBVIOUS
  <2>5. QED
    BY <2>2, <2>4
<1>2. PICK g \in Gaps : \A e \in Gaps : g <= e
  <2> HIDE DEF Gaps
  <2>1. QED
    BY <1>1, LeastExists
<1>3. PICK x \in S : g = most - x
  BY <1>2
<1>4. ASSUME NEW y \in S PROVE x >= y
  <2>1. most - y \in Gaps
    OBVIOUS
  <2>2. g <= most - y /\ x \in Int /\ y \in Int
    BY <1>2, <2>1
  <2>3. QED
    BY <1>3, <2>2
<1>5. Max(S) \in S /\ \A y \in S : Max(S) >= y
  BY <1>4 DEF Max
<1>6. \A y \in S : y \in Int /\ Max(S) \in Int
  BY <1>5
<1>7. QED
  BY <1>5, <1>6

(* How many values of a sample are at most v.                              *)
CountTo(s, v) == Cardinality({i \in DOMAIN s : s[i] <= v})

(* A sample ks_stat has sorted.                                            *)
AreSorted(s) ==
  /\ s \in Seq(Int) /\ Len(s) > 0
  /\ \A i, j \in 1..Len(s) : i <= j => s[i] <= s[j]

(* They are its first ones.                                                *)
LEMMA CountedFirst ==
  ASSUME NEW s, AreSorted(s), NEW v \in Int
  PROVE  /\ CountTo(s, v) \in 0..Len(s)
         /\ \A i \in 1..Len(s) : s[i] <= v <=> i <= CountTo(s, v)
<1>1. PICK n : n = Len(s)
  OBVIOUS
<1>2. n \in Nat /\ DOMAIN s = 1..n /\ \A i \in 1..n : s[i] \in Int
  BY <1>1 DEF AreSorted
<1> DEFINE Over == {i \in 1..n : s[i] > v}
<1>3. PICK p \in 0..n : \A i \in 1..n : s[i] <= v <=> i <= p
  <2>1. CASE Over = {}
    <3>1. \A i \in 1..n : s[i] <= v /\ i <= n
      BY <1>2, <2>1
    <3>2. n \in 0..n
      BY <1>2
    <3>3. QED
      BY <3>1, <3>2
  <2>2. CASE Over # {}
    <3>1. PICK o \in Over : \A i \in Over : o <= i
      <4>1. Over \subseteq Nat
        OBVIOUS
      <4>2. QED
        BY <2>2, <4>1, LeastExists
    <3>2. o \in 1..n /\ s[o] > v
      BY <3>1
    <3>3. ASSUME NEW i \in 1..n PROVE s[i] <= v <=> i <= o - 1
      <4>1. i < o => i \notin Over
        BY <1>2, <3>1, <3>2
      <4>2. i < o => s[i] <= v
        BY <1>2, <4>1
      <4>3. i >= o => s[o] <= s[i]
        BY <1>1, <3>2 DEF AreSorted
      <4>4. i >= o => ~ (s[i] <= v)
        BY <1>2, <3>2, <4>3
      <4>5. QED
        BY <1>2, <3>2, <4>2, <4>4
    <3>4. o - 1 \in 0..n
      BY <1>2, <3>2
    <3>5. QED
      BY <3>3, <3>4
  <2>3. QED
    BY <2>1, <2>2
<1>4. {i \in DOMAIN s : s[i] <= v} = 1..p
  BY <1>2, <1>3
<1>5. CountTo(s, v) = p
  <2>1. Cardinality(1..p) = p
    <3>1. Cardinality(1..p) = IF 1 > p THEN 0 ELSE p - 1 + 1
      BY FS_Interval
    <3>2. QED
      BY <3>1
  <2>2. QED
    BY <1>4, <2>1 DEF CountTo
<1>6. QED
  BY <1>1, <1>3, <1>5

-----------------------------------------------------------------------------
(* The distance of the two empirical distributions after i and j values,   *)
(* scaled by the sizes, and the numbers that are as large.                 *)
Gap(a, b, i, j) == i * Len(b) - j * Len(a)

Covers(d, gap) == gap <= d /\ -gap <= d

(* What one turn of ks_stat's loop does.                                   *)
Moved(a, b, i, j, d, next) ==
  /\ a[i + 1] \in Int /\ b[j + 1] \in Int
  /\ a[i + 1] < b[j + 1] => next.i = i + 1 /\ next.j = j
  /\ a[i + 1] = b[j + 1] => next.i = i + 1 /\ next.j = j + 1
  /\ a[i + 1] > b[j + 1] => next.i = i /\ next.j = j + 1
  /\ next = [i |-> next.i, j |-> next.j, d |-> next.d]
  /\ next.i \in 0..Len(a) /\ next.j \in 0..Len(b)
  /\ next.d \in Nat /\ next.d >= d /\ Covers(next.d, Gap(a, b, next.i, next.j))
  /\ \A most \in Int : d <= most /\ Covers(most, Gap(a, b, next.i, next.j)) => next.d <= most

(* It does so: the sample with the smaller value moves, both if they are   *)
(* equal, and the distance grows just as far as it must.                   *)
LEMMA AdvanceMoves ==
  ASSUME NEW a, NEW b, AreSorted(a), AreSorted(b),
         NEW i \in 0..Len(a) - 1, NEW j \in 0..Len(b) - 1, NEW d \in Nat,
         NEW st, st = [i |-> i, j |-> j, d |-> d], NEW next, next = Advance(a, b, st)
  PROVE  Moved(a, b, i, j, d, next)
<1>1. PICK n, m : n = Len(a) /\ m = Len(b)
  OBVIOUS
<1>2. n \in Nat /\ m \in Nat /\ i + 1 \in 1..n /\ j + 1 \in 1..m
  BY <1>1 DEF AreSorted
<1>3. PICK x, y : x = a[i + 1] /\ y = b[j + 1]
  OBVIOUS
<1>4. x \in Int /\ y \in Int
  BY <1>1, <1>2, <1>3 DEF AreSorted
<1>5. PICK k, l : k = i + (IF x <= y THEN 1 ELSE 0) /\ l = j + (IF y <= x THEN 1 ELSE 0)
  OBVIOUS
<1>6. k \in 0..n /\ l \in 0..m
  BY <1>2, <1>4, <1>5
<1>7. PICK gap : gap = Gap(a, b, k, l)
  OBVIOUS
<1>8. gap \in Int
  BY <1>1, <1>2, <1>6, <1>7 DEF Gap
<1>9. PICK S, e : S = {d, gap, -gap} /\ e = Max(S)
  OBVIOUS
<1>10. e \in S /\ \A z \in S : z <= e
  <2>1. S \subseteq Int /\ S # {}
    BY <1>8, <1>9
  <2>2. \E most \in Int : \A z \in S : z <= most
    <3>1. d <= (IF d > gap THEN (IF d > -gap THEN d ELSE -gap) ELSE (IF gap > -gap THEN gap ELSE -gap))
      BY <1>8
    <3>2. PICK most : most = IF d > gap THEN (IF d > -gap THEN d ELSE -gap) ELSE (IF gap > -gap THEN gap ELSE -gap)
      OBVIOUS
    <3>3. most \in Int /\ d <= most /\ gap <= most /\ -gap <= most
      BY <1>8, <3>2
    <3>4. QED
      BY <1>9, <3>3
  <2>3. QED
    BY <1>9, <2>1, <2>2, GreatestExists
<1>11. e \in Nat /\ e >= d /\ Covers(e, gap)
  BY <1>8, <1>9, <1>10 DEF Covers
<1>12. \A most \in Int : d <= most /\ Covers(most, gap) => e <= most
  BY <1>8, <1>9, <1>10 DEF Covers
<1>13. next = [i |-> k, j |-> l, d |-> e]
  <2>1. ~ (i >= n \/ j >= m)
    BY <1>2
  <2>2. st.i = i /\ st.j = j /\ st.d = d
    OBVIOUS
  <2>3. next = IF i >= n \/ j >= m THEN st ELSE [i |-> k, j |-> l, d |-> Max({d, k * m - l * n, -(k * m - l * n)})]
    BY <1>1, <1>3, <1>5, <2>2 DEF Advance
  <2>4. k * m - l * n = gap
    BY <1>1, <1>7 DEF Gap
  <2>5. QED
    BY <1>9, <2>1, <2>3, <2>4
<1>14. next.i = k /\ next.j = l /\ next.d = e
  BY <1>13
<1>15. /\ x < y => k = i + 1 /\ l = j
       /\ x = y => k = i + 1 /\ l = j + 1
       /\ x > y => k = i /\ l = j + 1
  BY <1>4, <1>5
<1>16. QED
  BY <1>1, <1>3, <1>4, <1>6, <1>7, <1>11, <1>12, <1>13, <1>14, <1>15 DEF Moved

(* A place the walk over both samples can be at, and whether one of them   *)
(* is used up.                                                             *)
IsTurn(a, b, st) == st \in [i : 0..Len(a), j : 0..Len(b), d : Nat]

Ended(a, b, st) == st.i = Len(a) \/ st.j = Len(b)

(* The distance at v is still to come, or covered.                         *)
SeesAll(a, b, st) ==
  \A v \in Int : \/ st.i <= CountTo(a, v) /\ st.j <= CountTo(b, v)
                 \/ Covers(st.d, Gap(a, b, CountTo(a, v), CountTo(b, v)))

(* What holds before each turn.                                            *)
MissesNothing(a, b, st, turn) ==
  /\ IsTurn(a, b, st)
  /\ Ended(a, b, st) \/ turn <= st.i + st.j
  /\ Covers(st.d, Gap(a, b, st.i, st.j))
  /\ SeesAll(a, b, st)

(* A greater distance covers what a smaller one does.                      *)
LEMMA CoversMore ==
  ASSUME NEW d \in Nat, NEW e \in Nat, d <= e, NEW gap \in Int, Covers(d, gap)
  PROVE  Covers(e, gap)
BY DEF Covers

(* A gap is an integer.                                                    *)
LEMMA GapIsInt ==
  ASSUME NEW a, NEW b, AreSorted(a), AreSorted(b), NEW i \in Int, NEW j \in Int
  PROVE  Gap(a, b, i, j) \in Int
<1>1. PICK n, m : n = Len(a) /\ m = Len(b)
  OBVIOUS
<1>2. n \in Int /\ m \in Int
  BY <1>1 DEF AreSorted
<1>3. QED
  BY <1>1, <1>2 DEF Gap

(* A turn that passes v passes it where the counts are those of v.         *)
LEMMA StepMissesNothing ==
  ASSUME NEW a, NEW b, AreSorted(a), AreSorted(b), NEW turn \in Nat,
         NEW st, MissesNothing(a, b, st, turn), NEW next, next = Advance(a, b, st)
  PROVE  MissesNothing(a, b, next, turn + 1)
<1>1. PICK n, m : n = Len(a) /\ m = Len(b)
  OBVIOUS
<1>2. n \in Nat /\ m \in Nat /\ (\A k \in 1..n : a[k] \in Int) /\ \A k \in 1..m : b[k] \in Int
  BY <1>1 DEF AreSorted
<1>3. PICK i, j, d : i = st.i /\ j = st.j /\ d = st.d
  OBVIOUS
<1>4. i \in 0..n /\ j \in 0..m /\ d \in Nat /\ st = [i |-> i, j |-> j, d |-> d]
  BY <1>1, <1>3 DEF MissesNothing, IsTurn
<1>5. CASE Ended(a, b, st)
  <2>1. i >= n \/ j >= m
    BY <1>1, <1>3, <1>4, <1>5 DEF Ended
  <2>2. next = st
    BY <1>1, <1>3, <2>1 DEF Advance
  <2>3. QED
    BY <1>5, <2>2 DEF MissesNothing
<1>6. CASE ~Ended(a, b, st)
  <2>1. i \in 0..n - 1 /\ j \in 0..m - 1 /\ turn <= i + j
    BY <1>1, <1>2, <1>3, <1>4, <1>6 DEF Ended, MissesNothing
  <2>2. PICK x, y, k, l, e : x = a[i + 1] /\ y = b[j + 1] /\ k = next.i /\ l = next.j /\ e = next.d
    OBVIOUS
  <2>3. /\ x \in Int /\ y \in Int
        /\ x < y => k = i + 1 /\ l = j
        /\ x = y => k = i + 1 /\ l = j + 1
        /\ x > y => k = i /\ l = j + 1
        /\ next = [i |-> k, j |-> l, d |-> e]
        /\ k \in 0..n /\ l \in 0..m
        /\ e \in Nat /\ e >= d /\ Covers(e, Gap(a, b, k, l))
    <3>1. i \in 0..Len(a) - 1 /\ j \in 0..Len(b) - 1 /\ d \in Nat /\ st = [i |-> i, j |-> j, d |-> d]
      BY <1>1, <1>4, <2>1
    <3>2. Moved(a, b, i, j, d, next)
      BY <3>1, AdvanceMoves, Zenon
    <3>3. QED
      BY <1>1, <2>2, <3>2 DEF Moved
  <2>4. IsTurn(a, b, next)
    BY <1>1, <2>3 DEF IsTurn
  <2>5. turn + 1 <= k + l
    BY <1>4, <2>1, <2>3
  <2>6. ASSUME NEW v \in Int
        PROVE  \/ k <= CountTo(a, v) /\ l <= CountTo(b, v)
               \/ Covers(e, Gap(a, b, CountTo(a, v), CountTo(b, v)))
    <3>1. PICK p, q : p = CountTo(a, v) /\ q = CountTo(b, v)
      OBVIOUS
    <3>2. p \in 0..n /\ q \in 0..m
      BY <1>1, <3>1, CountedFirst
    <3>3. (x <= v <=> i + 1 <= p) /\ (y <= v <=> j + 1 <= q)
      <4>1. i + 1 \in 1..n /\ j + 1 \in 1..m
        BY <1>2, <2>1
      <4>2. QED
        BY <1>1, <2>2, <3>1, <4>1, CountedFirst
    <3>4. \/ i <= p /\ j <= q
          \/ Covers(d, Gap(a, b, p, q))
      BY <1>3, <3>1 DEF MissesNothing, SeesAll
    <3>5. CASE Covers(d, Gap(a, b, p, q))
      <4>1. Gap(a, b, p, q) \in Int
        BY <3>2, GapIsInt
      <4>2. QED
        BY <1>4, <2>3, <3>1, <3>5, <4>1, CoversMore
    <3>6. CASE i <= p /\ j <= q
      <4>1. (k <= p /\ l <= q) \/ (p = i /\ q = j)
        BY <1>4, <2>1, <2>3, <3>2, <3>3, <3>6
      <4>2. CASE p = i /\ q = j
        <5>1. Covers(d, Gap(a, b, p, q))
          BY <1>3, <4>2 DEF MissesNothing
        <5>2. QED
          BY <3>5, <5>1
      <4>3. QED
        BY <3>1, <4>1, <4>2
    <3>7. QED
      BY <3>4, <3>5, <3>6
  <2>7. SeesAll(a, b, next)
    BY <2>2, <2>6 DEF SeesAll
  <2>8. QED
    BY <2>2, <2>3, <2>4, <2>5, <2>7 DEF MissesNothing
<1>7. QED
  BY <1>5, <1>6

(* When one sample is used up, the distances to come are smaller than the  *)
(* one reached.                                                            *)
LEMMA EndCoversAll ==
  ASSUME NEW a, NEW b, AreSorted(a), AreSorted(b),
         NEW st, NEW turn, MissesNothing(a, b, st, turn), turn = Len(a) + Len(b), NEW v \in Int
  PROVE  Covers(st.d, Gap(a, b, CountTo(a, v), CountTo(b, v)))
<1>1. PICK n, m : n = Len(a) /\ m = Len(b)
  OBVIOUS
<1>2. n \in Nat /\ m \in Nat
  BY <1>1 DEF AreSorted
<1>3. PICK i, j, d : i = st.i /\ j = st.j /\ d = st.d
  OBVIOUS
<1>4. i \in 0..n /\ j \in 0..m /\ d \in Nat /\ Covers(d, Gap(a, b, i, j))
  BY <1>1, <1>3 DEF MissesNothing, IsTurn
<1>5. i = n \/ j = m
  <2>1. Ended(a, b, st) \/ n + m <= i + j
    BY <1>1, <1>3 DEF MissesNothing
  <2>2. Ended(a, b, st) => i = n \/ j = m
    BY <1>1, <1>3 DEF Ended
  <2>3. n + m <= i + j => i = n
    BY <1>2, <1>4
  <2>4. QED
    BY <2>1, <2>2, <2>3
<1>6. PICK p, q : p = CountTo(a, v) /\ q = CountTo(b, v)
  OBVIOUS
<1>7. p \in 0..n /\ q \in 0..m
  BY <1>1, <1>6, CountedFirst
<1>8. (i <= p /\ j <= q) \/ Covers(d, Gap(a, b, p, q))
  BY <1>3, <1>6 DEF MissesNothing, SeesAll
<1>9. CASE i <= p /\ j <= q
  <2>1. PICK im, jn, pm, qn : im = i * m /\ jn = j * n /\ pm = p * m /\ qn = q * n
    OBVIOUS
  <2>2. im \in Int /\ jn \in Int /\ pm \in Int /\ qn \in Int
    BY <1>2, <1>4, <1>7, <2>1
  <2>3. Gap(a, b, i, j) = im - jn /\ Gap(a, b, p, q) = pm - qn
    BY <1>1, <2>1 DEF Gap
  <2>4. im <= pm /\ jn <= qn
    <3>1. i \in Int /\ j \in Int /\ p \in Int /\ q \in Int /\ n \in Positive /\ m \in Positive
      BY <1>1, <1>2, <1>4, <1>7 DEF AreSorted, Positive
    <3>2. m * i <= m * p /\ n * j <= n * q
      BY <1>9, <3>1, FactorKeeps
    <3>3. m * i = i * m /\ m * p = p * m /\ n * j = j * n /\ n * q = q * n
      BY <3>1 DEF Positive
    <3>4. QED
      BY <2>1, <3>2, <3>3
  <2>5. pm <= n * m /\ qn <= n * m /\ (i = n => im = n * m) /\ (j = m => jn = n * m) /\ n * m \in Int
    <3>1. p \in Int /\ q \in Int /\ n \in Positive /\ m \in Positive /\ p <= n /\ q <= m
      BY <1>1, <1>2, <1>7 DEF AreSorted, Positive
    <3>2. m * p <= m * n /\ n * q <= n * m
      BY <3>1, FactorKeeps DEF Positive
    <3>3. m * p = p * m /\ m * n = n * m /\ n * q = q * n /\ n * m \in Int
      BY <3>1 DEF Positive
    <3>4. QED
      BY <2>1, <3>2, <3>3
  <2>6. CASE i = n
    <3>1. pm = n * m /\ im = n * m
      BY <1>7, <1>9, <2>1, <2>5, <2>6, <1>2
    <3>2. im - jn <= d /\ -(im - jn) <= d
      BY <1>4, <2>3 DEF Covers
    <3>3. PICK nm \in Int : nm = n * m
      BY <2>5
    <3>4. pm - qn <= d /\ -(pm - qn) <= d
      BY <1>4, <2>2, <2>4, <2>5, <3>1, <3>2, <3>3, SMTT(40)
    <3>5. QED
      BY <1>3, <1>6, <2>3, <3>4 DEF Covers
  <2>7. CASE j = m
    <3>1. qn = n * m /\ jn = n * m
      <4>1. q = m
        BY <1>7, <1>9, <2>7, <1>2
      <4>2. QED
        BY <2>1, <2>5, <2>7, <4>1
    <3>2. im - jn <= d /\ -(im - jn) <= d
      BY <1>4, <2>3 DEF Covers
    <3>3. PICK nm \in Int : nm = n * m
      BY <2>5
    <3>4. pm - qn <= d /\ -(pm - qn) <= d
      BY <1>4, <2>2, <2>4, <2>5, <3>1, <3>2, <3>3, SMTT(40)
    <3>5. QED
      BY <1>3, <1>6, <2>3, <3>4 DEF Covers
  <2>8. QED
    BY <1>5, <2>6, <2>7
<1>10. QED
  BY <1>3, <1>6, <1>8, <1>9

-----------------------------------------------------------------------------
(* No value met so far comes again, and nothing met is more than `most`.   *)
IsSharp(a, b, st, most) ==
  /\ IsTurn(a, b, st)
  /\ st.i > 0 /\ st.j < Len(b) => a[st.i] < b[st.j + 1]
  /\ st.j > 0 /\ st.i < Len(a) => b[st.j] < a[st.i + 1]
  /\ st.d <= most

(* A sorted sample without repetitions rises.                              *)
LEMMA SampleRises ==
  ASSUME NEW s, AreSorted(s), IsInjective(s), NEW i \in 1..Len(s), NEW j \in 1..Len(s), i < j
  PROVE  s[i] < s[j] /\ s[i] \in Int /\ s[j] \in Int
<1>1. s[i] <= s[j] /\ s[i] \in Int /\ s[j] \in Int /\ DOMAIN s = 1..Len(s)
  BY DEF AreSorted
<1>2. s[i] # s[j]
  BY <1>1 DEF IsInjective
<1>3. QED
  BY <1>1, <1>2

(* As many values are at most v as have been met.                          *)
LEMMA CountMet ==
  ASSUME NEW s, AreSorted(s), NEW v \in Int, NEW k \in 0..Len(s),
         k > 0 => s[k] <= v, k < Len(s) => v < s[k + 1]
  PROVE  CountTo(s, v) = k
<1>1. PICK c : c = CountTo(s, v)
  OBVIOUS
<1>2. c \in 0..Len(s) /\ \A i \in 1..Len(s) : s[i] <= v <=> i <= c
  BY <1>1, CountedFirst
<1>3. k > 0 => k <= c
  BY <1>2 DEF AreSorted
<1>4. k < Len(s) => ~ (k + 1 <= c)
  <2>1. SUFFICES ASSUME k < Len(s) PROVE ~ (k + 1 <= c)
    OBVIOUS
  <2>2. k + 1 \in 1..Len(s) /\ s[k + 1] \in Int
    BY <2>1 DEF AreSorted
  <2>3. ~ (s[k + 1] <= v)
    BY <2>1, <2>2
  <2>4. QED
    BY <1>2, <2>2, <2>3
<1>5. Len(s) \in Nat
  BY DEF AreSorted
<1>6. QED
  BY <1>1, <1>2, <1>3, <1>4, <1>5

(* Without repetitions every place the walk stops at is the one of a       *)
(* value, so its gap is no more than the supremum.                         *)
LEMMA StepIsSharp ==
  ASSUME NEW a, NEW b, AreSorted(a), AreSorted(b), IsInjective(a), IsInjective(b), NEW most \in Int,
         \A v \in Range(a) \cup Range(b) : Covers(most, Gap(a, b, CountTo(a, v), CountTo(b, v))),
         NEW st, IsSharp(a, b, st, most), NEW next, next = Advance(a, b, st)
  PROVE  IsSharp(a, b, next, most)
<1>1. PICK n, m : n = Len(a) /\ m = Len(b)
  OBVIOUS
<1>2. /\ n \in Nat /\ m \in Nat /\ (\A k \in 1..n : a[k] \in Int) /\ (\A k \in 1..m : b[k] \in Int)
      /\ DOMAIN a = 1..n /\ DOMAIN b = 1..m
  BY <1>1 DEF AreSorted
<1>3. PICK i, j, d : i = st.i /\ j = st.j /\ d = st.d
  OBVIOUS
<1>4. i \in 0..n /\ j \in 0..m /\ d \in Nat /\ st = [i |-> i, j |-> j, d |-> d] /\ d <= most
  BY <1>1, <1>3 DEF IsSharp, IsTurn
<1>5. CASE Ended(a, b, st)
  <2>1. i >= n \/ j >= m
    BY <1>1, <1>3, <1>4, <1>5 DEF Ended
  <2>2. next = st
    BY <1>1, <1>3, <2>1 DEF Advance
  <2>3. QED
    BY <2>2
<1>6. CASE ~Ended(a, b, st)
  <2>1. i \in 0..n - 1 /\ j \in 0..m - 1
    BY <1>1, <1>2, <1>3, <1>4, <1>6 DEF Ended
  <2>2. PICK x, y, k, l, e : x = a[i + 1] /\ y = b[j + 1] /\ k = next.i /\ l = next.j /\ e = next.d
    OBVIOUS
  <2>3. /\ x \in Int /\ y \in Int
        /\ x < y => k = i + 1 /\ l = j
        /\ x = y => k = i + 1 /\ l = j + 1
        /\ x > y => k = i /\ l = j + 1
        /\ next = [i |-> k, j |-> l, d |-> e]
        /\ k \in 0..n /\ l \in 0..m /\ e \in Nat
        /\ \A z \in Int : d <= z /\ Covers(z, Gap(a, b, k, l)) => e <= z
    <3>1. i \in 0..Len(a) - 1 /\ j \in 0..Len(b) - 1 /\ d \in Nat /\ st = [i |-> i, j |-> j, d |-> d]
      BY <1>1, <1>4, <2>1
    <3>2. Moved(a, b, i, j, d, next)
      BY <3>1, AdvanceMoves, Zenon
    <3>3. QED
      BY <1>1, <2>2, <3>2 DEF Moved
  <2>4. (i > 0 => a[i] < y) /\ (j > 0 => b[j] < x)
    BY <1>1, <1>2, <1>3, <2>1, <2>2 DEF IsSharp
  <2>5. (i + 1 < n => x < a[i + 2] /\ a[i + 2] \in Int) /\ (i > 0 => a[i] < x /\ a[i] \in Int)
    <3>1. i + 1 < n => i + 1 \in 1..n /\ i + 2 \in 1..n /\ i + 1 < i + 2
      BY <1>2, <2>1
    <3>2. i > 0 => i \in 1..n /\ i + 1 \in 1..n /\ i < i + 1
      BY <1>2, <2>1
    <3>3. QED
      BY <1>1, <2>2, <3>1, <3>2, SampleRises
  <2>6. (j + 1 < m => y < b[j + 2] /\ b[j + 2] \in Int) /\ (j > 0 => b[j] < y /\ b[j] \in Int)
    <3>1. j + 1 < m => j + 1 \in 1..m /\ j + 2 \in 1..m /\ j + 1 < j + 2
      BY <1>2, <2>1
    <3>2. j > 0 => j \in 1..m /\ j + 1 \in 1..m /\ j < j + 1
      BY <1>2, <2>1
    <3>3. QED
      BY <1>1, <2>2, <3>1, <3>2, SampleRises
  <2>7. PICK v : v = IF x <= y THEN x ELSE y
    OBVIOUS
  <2>8. v \in Int /\ v \in Range(a) \cup Range(b)
    <3>1. i + 1 \in 1..n /\ j + 1 \in 1..m
      BY <1>2, <2>1
    <3>2. x \in Range(a) /\ y \in Range(b)
      BY <1>2, <2>2, <3>1 DEF Range
    <3>3. QED
      BY <2>3, <2>7, <3>2
  <2>9. CountTo(a, v) = k
    <3>1. k > 0 => a[k] <= v
      <4>1. CASE x <= y
        BY <2>2, <2>3, <2>7, <4>1, <1>4
      <4>2. CASE x > y
        BY <1>4, <2>3, <2>4, <2>5, <2>7, <4>2
      <4>3. QED
        BY <2>3, <4>1, <4>2
    <3>2. k < n => v < a[k + 1]
      <4>1. CASE x <= y
        <5>1. k = i + 1 /\ v = x /\ k + 1 = i + 2
          BY <1>4, <2>3, <2>7, <4>1
        <5>2. QED
          BY <2>5, <5>1
      <4>2. CASE x > y
        BY <2>2, <2>3, <2>7, <4>2
      <4>3. QED
        BY <2>3, <4>1, <4>2
    <3>3. QED
      BY <1>1, <2>3, <2>8, <3>1, <3>2, CountMet
  <2>10. CountTo(b, v) = l
    <3>1. l > 0 => b[l] <= v
      <4>1. CASE y <= x
        <5>1. l = j + 1 /\ v = y
          BY <2>3, <2>7, <4>1
        <5>2. QED
          BY <2>2, <2>3, <5>1
      <4>2. CASE y > x
        BY <1>4, <2>3, <2>4, <2>6, <2>7, <4>2
      <4>3. QED
        BY <2>3, <4>1, <4>2
    <3>2. l < m => v < b[l + 1]
      <4>1. CASE y <= x
        <5>1. l = j + 1 /\ v = y /\ l + 1 = j + 2
          BY <1>4, <2>3, <2>7, <4>1
        <5>2. QED
          BY <2>6, <5>1
      <4>2. CASE y > x
        BY <2>2, <2>3, <2>7, <4>2
      <4>3. QED
        BY <2>3, <4>1, <4>2
    <3>3. QED
      BY <1>1, <2>3, <2>8, <3>1, <3>2, CountMet
  <2>11. e <= most
    <3>1. Covers(most, Gap(a, b, k, l))
      BY <2>8, <2>9, <2>10
    <3>2. QED
      BY <1>4, <2>3, <3>1
  <2>12. IsTurn(a, b, next)
    BY <1>1, <2>3 DEF IsTurn
  <2>13. (k > 0 /\ l < m => a[k] < b[l + 1]) /\ (l > 0 /\ k < n => b[l] < a[k + 1])
    <3>1. CASE x < y
      <4>1. k = i + 1 /\ l = j /\ k + 1 = i + 2
        BY <1>4, <2>3, <3>1
      <4>2. a[k] < b[l + 1]
        BY <2>2, <3>1, <4>1
      <4>3. l > 0 /\ k < n => b[l] < a[k + 1]
        BY <2>3, <2>4, <2>5, <2>6, <4>1
      <4>4. QED
        BY <4>2, <4>3
    <3>2. CASE x = y
      <4>1. k = i + 1 /\ l = j + 1 /\ k + 1 = i + 2 /\ l + 1 = j + 2
        BY <1>4, <2>3, <3>2
      <4>2. QED
        BY <2>2, <2>5, <2>6, <3>2, <4>1
    <3>3. CASE x > y
      <4>1. k = i /\ l = j + 1 /\ l + 1 = j + 2
        BY <1>4, <2>3, <3>3
      <4>2. b[l] < a[k + 1]
        BY <2>2, <2>3, <3>3, <4>1
      <4>3. k > 0 /\ l < m => a[k] < b[l + 1]
        BY <2>3, <2>4, <2>5, <2>6, <4>1
      <4>4. QED
        BY <4>2, <4>3
    <3>4. QED
      BY <2>3, <3>1, <3>2, <3>3
  <2>14. QED
    BY <1>1, <2>2, <2>11, <2>12, <2>13 DEF IsSharp
<1>7. QED
  BY <1>5, <1>6

-----------------------------------------------------------------------------
(* The gap at a value, and the distances the supremum is taken over.       *)
GapAt(a, b, v) == Gap(a, b, CountTo(a, v), CountTo(b, v))

Distances(a, b) == UNION {{GapAt(a, b, v), -GapAt(a, b, v)} : v \in Range(a) \cup Range(b)}

(* So does the definition.                                                 *)
LEMMA SupremumIsMax ==
  ASSUME NEW a, NEW b
  PROVE  KSSupremum(a, b) = Max(Distances(a, b))
BY DEF KSSupremum, Distances, GapAt, Gap, CountTo

(* The recursive function of KSWalk.                                       *)
DistanceWalk(a, b, f) ==
  f = [turn \in 0..Len(a) + Len(b) |->
         IF turn = 0 THEN [i |-> 0, j |-> 0, d |-> 0] ELSE Advance(a, b, f[turn - 1])]

LEMMA DistanceChosen ==
  ASSUME NEW a, NEW b
  PROVE  KSWalk(a, b) = (CHOOSE f : DistanceWalk(a, b, f))[Len(a) + Len(b)].d
BY DEF KSWalk, DistanceWalk

(* A turn leads from place to place.                                       *)
LEMMA AdvanceStays ==
  ASSUME NEW a, NEW b, AreSorted(a), AreSorted(b), NEW st, IsTurn(a, b, st)
  PROVE  IsTurn(a, b, Advance(a, b, st))
<1>1. PICK n, m : n = Len(a) /\ m = Len(b)
  OBVIOUS
<1>2. n \in Nat /\ m \in Nat
  BY <1>1 DEF AreSorted
<1>3. PICK i, j, d : i = st.i /\ j = st.j /\ d = st.d
  OBVIOUS
<1>4. i \in 0..n /\ j \in 0..m /\ d \in Nat /\ st = [i |-> i, j |-> j, d |-> d]
  BY <1>1, <1>3 DEF IsTurn
<1>5. CASE i >= n \/ j >= m
  <2>1. Advance(a, b, st) = st
    BY <1>1, <1>3, <1>5 DEF Advance
  <2>2. QED
    BY <2>1
<1>6. CASE ~ (i >= n \/ j >= m)
  <2>1. i \in 0..Len(a) - 1 /\ j \in 0..Len(b) - 1
    BY <1>1, <1>2, <1>4, <1>6
  <2>2. PICK next : next = Advance(a, b, st)
    OBVIOUS
  <2>3. Moved(a, b, i, j, d, next)
    BY <1>4, <2>1, <2>2, AdvanceMoves, Zenon
  <2>4. next = [i |-> next.i, j |-> next.j, d |-> next.d]
        /\ next.i \in 0..Len(a) /\ next.j \in 0..Len(b) /\ next.d \in Nat
    BY <2>3 DEF Moved
  <2>5. QED
    BY <2>2, <2>4 DEF IsTurn
<1>7. QED
  BY <1>5, <1>6

(* So KSWalk is the walk from the start, turn by turn.                     *)
LEMMA DistanceWalks ==
  ASSUME NEW a, NEW b, AreSorted(a), AreSorted(b), NEW N, N = Len(a) + Len(b)
  PROVE  /\ N \in Nat
         /\ \E f : /\ KSWalk(a, b) = f[N].d
                   /\ f[0] = [i |-> 0, j |-> 0, d |-> 0]
                   /\ \A t \in 1..N : f[t] = Advance(a, b, f[t - 1])
<1> DEFINE start == [i |-> 0, j |-> 0, d |-> 0]
<1>1. Len(a) \in Nat /\ Len(b) \in Nat /\ N \in Nat
  BY DEF AreSorted
<1>2. PICK S : S = [i : 0..Len(a), j : 0..Len(b), d : Nat]
  OBVIOUS
<1>3. start \in S
  BY <1>1, <1>2
<1>4. PICK step : step = [at \in (1..N) \X S |-> Advance(a, b, at[2])]
  OBVIOUS
<1>5. step \in [(1..N) \X S -> S]
  <2>1. ASSUME NEW at \in (1..N) \X S PROVE Advance(a, b, at[2]) \in S
    <3>1. PICK st \in S : st = at[2]
      OBVIOUS
    <3>2. IsTurn(a, b, st)
      BY <1>2 DEF IsTurn
    <3>3. IsTurn(a, b, Advance(a, b, st))
      BY <3>2, AdvanceStays
    <3>4. QED
      BY <1>2, <3>1, <3>3 DEF IsTurn
  <2>2. QED
    BY <1>4, <2>1
<1> HIDE DEF start
<1>6. PICK f \in [0..N -> S] : Walks(f, N, start, step)
  BY <1>1, <1>3, <1>5, WalkExists
<1>7. f[0] = start /\ \A t \in 1..N : f[t] = Advance(a, b, f[t - 1])
  <2>1. ASSUME NEW t \in 1..N PROVE f[t] = Advance(a, b, f[t - 1])
    <3>1. t - 1 \in 0..N
      BY <1>1
    <3>2. f[t - 1] \in S
      BY <3>1
    <3>3. <<t, f[t - 1]>> \in (1..N) \X S
      BY <3>2
    <3>4. f[t] = step[<<t, f[t - 1]>>]
      BY <1>6 DEF Walks
    <3>5. QED
      BY <1>4, <3>3, <3>4
  <2>2. QED
    BY <1>6, <2>1 DEF Walks
<1>8. DistanceWalk(a, b, f)
  <2>1. f = [t \in 0..N |-> f[t]]
    OBVIOUS
  <2>2. ASSUME NEW t \in 0..N PROVE f[t] = IF t = 0 THEN start ELSE Advance(a, b, f[t - 1])
    <3>1. t = 0 \/ t \in 1..N
      BY <1>1
    <3>2. QED
      BY <1>7, <3>1
  <2>3. QED
    BY <2>1, <2>2 DEF DistanceWalk, start
<1>9. PICK g : DistanceWalk(a, b, g) /\ KSWalk(a, b) = g[N].d
  BY <1>8, DistanceChosen, Zenon
<1>10. g[0] = start /\ \A t \in 1..N : g[t] = Advance(a, b, g[t - 1])
  <2>1. 0 \in 0..N /\ \A t \in 1..N : t \in 0..N /\ t # 0
    BY <1>1
  <2>2. QED
    BY <1>9, <2>1 DEF DistanceWalk, start
<1>11. QED
  BY <1>1, <1>9, <1>10 DEF start

(* Nothing is met or missed before the first turn.                         *)
LEMMA StartMissesNothing ==
  ASSUME NEW a, NEW b, AreSorted(a), AreSorted(b), NEW st, st = [i |-> 0, j |-> 0, d |-> 0]
  PROVE  /\ MissesNothing(a, b, st, 0)
         /\ \A most \in Int : 0 <= most => IsSharp(a, b, st, most)
<1>1. Len(a) \in Nat /\ Len(b) \in Nat
  BY DEF AreSorted
<1>2. IsTurn(a, b, st)
  BY <1>1 DEF IsTurn
<1>3. st.i = 0 /\ st.j = 0 /\ st.d = 0
  OBVIOUS
<1>4. Covers(0, Gap(a, b, 0, 0))
  BY <1>1 DEF Covers, Gap
<1>5. ASSUME NEW v \in Int PROVE 0 <= CountTo(a, v) /\ 0 <= CountTo(b, v)
  <2>1. CountTo(a, v) \in 0..Len(a) /\ CountTo(b, v) \in 0..Len(b)
    BY CountedFirst
  <2>2. QED
    BY <2>1
<1>6. MissesNothing(a, b, st, 0)
  BY <1>2, <1>3, <1>4, <1>5 DEF MissesNothing, SeesAll
<1>7. QED
  BY <1>2, <1>3, <1>6 DEF IsSharp

(* For any two sorted samples of integers, of any sizes: ks_stat is never  *)
(* below sup |F_A - F_B|, so no drift is missed, and it is the supremum if *)
(* no sample repeats a value (drift/metrics.py).                           *)
THEOREM DistanceNeverMissed ==
  ASSUME NEW a, NEW b, AreSorted(a), AreSorted(b)
  PROVE  DistanceIsSupremum(a, b)
<1>1. PICK N : N = Len(a) + Len(b)
  OBVIOUS
<1>2. PICK f : /\ KSWalk(a, b) = f[N].d
               /\ f[0] = [i |-> 0, j |-> 0, d |-> 0]
               /\ \A t \in 1..N : f[t] = Advance(a, b, f[t - 1])
  BY <1>1, DistanceWalks
<1>3. N \in Nat
  BY <1>1, DistanceWalks
<1>4. MissesNothing(a, b, f[N], N)
  <2> DEFINE Good == {t \in Nat : MissesNothing(a, b, f[t], t)}
  <2>1. 0 \in Good
    BY <1>2, StartMissesNothing
  <2>2. ASSUME NEW t \in 1..N, t - 1 \in Good PROVE t \in Good
    <3>1. PICK s \in Nat : s = t - 1
      BY <1>3, <2>2
    <3>2. t = s + 1 /\ t \in Nat
      BY <1>3, <3>1
    <3>3. MissesNothing(a, b, f[s], s) /\ f[t] = Advance(a, b, f[s])
      BY <1>2, <2>2, <3>1
    <3>4. MissesNothing(a, b, f[t], s + 1)
      BY <3>3, StepMissesNothing
    <3>5. QED
      BY <3>2, <3>4
  <2>3. Good \in SUBSET Nat
    OBVIOUS
  <2> HIDE DEF Good
  <2>4. 0..N \subseteq Good
    BY <1>3, <2>1, <2>2, <2>3, HoldsUpTo
  <2>5. N \in Good
    BY <1>3, <2>4
  <2>6. QED
    BY <2>5 DEF Good
<1>5. PICK walk : walk = KSWalk(a, b)
  OBVIOUS
<1>6. walk \in Nat
  BY <1>2, <1>4, <1>5 DEF MissesNothing, IsTurn
<1>7. /\ Range(a) \cup Range(b) \subseteq Int
      /\ Range(a) \cup Range(b) # {}
  <2>1. a \in Seq(Int) /\ b \in Seq(Int) /\ DOMAIN a = 1..Len(a) /\ DOMAIN b = 1..Len(b) /\ 1 \in 1..Len(a)
    BY DEF AreSorted
  <2>2. a[1] \in Range(a) /\ (\A k \in DOMAIN a : a[k] \in Int) /\ \A k \in DOMAIN b : b[k] \in Int
    BY <2>1 DEF Range
  <2>3. \A v \in Range(a) : v \in Int
    BY <2>2 DEF Range
  <2>4. \A v \in Range(b) : v \in Int
    BY <2>2 DEF Range
  <2>5. QED
    BY <2>2, <2>3, <2>4
<1>8. ASSUME NEW v \in Range(a) \cup Range(b) PROVE GapAt(a, b, v) \in Int /\ Covers(walk, GapAt(a, b, v))
  <2>1. v \in Int
    BY <1>7
  <2>2. CountTo(a, v) \in Int /\ CountTo(b, v) \in Int
    <3>1. CountTo(a, v) \in 0..Len(a) /\ CountTo(b, v) \in 0..Len(b)
      BY <2>1, CountedFirst
    <3>2. QED
      BY <3>1
  <2>3. GapAt(a, b, v) \in Int
    BY <2>2, GapIsInt DEF GapAt
  <2>4. Covers(f[N].d, Gap(a, b, CountTo(a, v), CountTo(b, v)))
    BY <1>1, <1>4, <2>1, EndCoversAll
  <2>5. QED
    BY <1>2, <1>5, <2>3, <2>4 DEF GapAt
<1>9. PICK D, sup : D = Distances(a, b) /\ sup = KSSupremum(a, b)
  OBVIOUS
<1>10. \A x \in D : x \in Int /\ x <= walk
  BY <1>6, <1>8, <1>9 DEF Distances, Covers
<1>11. D # {} /\ \A v \in Range(a) \cup Range(b) : GapAt(a, b, v) \in D /\ -GapAt(a, b, v) \in D
  BY <1>7, <1>9 DEF Distances
<1>12. sup \in D /\ \A x \in D : x <= sup
  <2>1. D \subseteq Int /\ walk \in Int /\ \A x \in D : x <= walk
    BY <1>6, <1>10
  <2>2. Max(D) \in D /\ \A x \in D : x <= Max(D)
    BY <1>11, <2>1, GreatestExists
  <2>3. QED
    BY <1>9, <2>2, SupremumIsMax
<1>13. walk >= sup
  BY <1>6, <1>10, <1>12
<1>14. ASSUME IsInjective(a), IsInjective(b) PROVE walk = sup
  <2>1. sup \in Int
    BY <1>10, <1>12
  <2>2. \A v \in Range(a) \cup Range(b) : Covers(sup, GapAt(a, b, v))
    BY <1>11, <1>12 DEF Covers
  <2>3. 0 <= sup
    <3>1. PICK v \in Range(a) \cup Range(b) : TRUE
      BY <1>7
    <3>2. GapAt(a, b, v) \in Int /\ GapAt(a, b, v) <= sup /\ -GapAt(a, b, v) <= sup
      BY <1>8, <2>2 DEF Covers
    <3>3. QED
      BY <2>1, <3>2
  <2> DEFINE Good == {t \in Nat : IsSharp(a, b, f[t], sup)}
  <2>4. 0 \in Good
    BY <1>2, <2>1, <2>3, StartMissesNothing
  <2>5. ASSUME NEW t \in 1..N, t - 1 \in Good PROVE t \in Good
    <3>1. IsSharp(a, b, f[t - 1], sup) /\ f[t] = Advance(a, b, f[t - 1])
      BY <1>2, <2>5
    <3>2. \A v \in Range(a) \cup Range(b) : Covers(sup, Gap(a, b, CountTo(a, v), CountTo(b, v)))
      BY <2>2 DEF GapAt
    <3>3. IsSharp(a, b, f[t], sup)
      BY <1>14, <2>1, <3>1, <3>2, StepIsSharp
    <3>4. t \in Nat
      BY <1>3
    <3>5. QED
      BY <3>3, <3>4
  <2>6. Good \in SUBSET Nat
    OBVIOUS
  <2> HIDE DEF Good
  <2>7. 0..N \subseteq Good
    BY <1>3, <2>4, <2>5, <2>6, HoldsUpTo
  <2>8. N \in Good
    BY <1>3, <2>7
  <2>9. walk <= sup
    BY <1>2, <1>5, <2>8 DEF Good, IsSharp
  <2>10. QED
    BY <1>6, <1>13, <2>1, <2>9
<1>15. QED
  BY <1>5, <1>9, <1>13, <1>14 DEF DistanceIsSupremum

-----------------------------------------------------------------------------
(* The values in bin k, and those in the first k bins.                     *)
InBin(values, edges, k) == {i \in DOMAIN values : edges[k] <= values[i] /\ values[i] < edges[k + 1]}

Filled(values, edges, k) == UNION {InBin(values, edges, j) : j \in 1..k}

(* A bin adds values that no bin before it has, the edges being sorted.    *)
LEMMA BinsAreApart ==
  ASSUME NEW values \in Seq(Int), NEW edges, AreSorted(edges), NEW k \in 1..Len(edges) - 1
  PROVE  /\ Filled(values, edges, k) = Filled(values, edges, k - 1) \cup InBin(values, edges, k)
         /\ Filled(values, edges, k - 1) \cap InBin(values, edges, k) = {}
         /\ Filled(values, edges, k) \subseteq 1..Len(values)
<1>1. Len(edges) \in Nat /\ DOMAIN values = 1..Len(values) /\ \A i \in DOMAIN values : values[i] \in Int
  BY DEF AreSorted
<1>2. 1..k = (1..k - 1) \cup {k}
  BY <1>1
<1>3. ASSUME NEW i \in InBin(values, edges, k), i \in Filled(values, edges, k - 1) PROVE FALSE
  <2>1. PICK j \in 1..k - 1 : i \in InBin(values, edges, j)
    BY <1>3 DEF Filled
  <2>2. j + 1 \in 1..Len(edges) /\ k \in 1..Len(edges) /\ j + 1 <= k
    BY <1>1
  <2>3. edges[j + 1] <= edges[k] /\ edges[j + 1] \in Int /\ edges[k] \in Int
    BY <2>2 DEF AreSorted
  <2>4. edges[k] <= values[i] /\ values[i] < edges[j + 1] /\ values[i] \in Int
    BY <1>1, <2>1 DEF InBin
  <2>5. QED
    BY <2>3, <2>4
<1>4. \A j : InBin(values, edges, j) \subseteq 1..Len(values)
  BY <1>1 DEF InBin
<1>5. QED
  BY <1>2, <1>3, <1>4 DEF Filled

(* The recursive total of BinsAddUp.                                       *)
TotalWalk(counts, n, f) == f = [k \in 0..n |-> IF k = 0 THEN 0 ELSE f[k - 1] + counts[k]]

LEMMA TotalChosen ==
  ASSUME NEW values, NEW edges, NEW counts, counts = Histogram(values, edges),
         NEW n, n = Len(edges) - 1
  PROVE  BinsAddUp(values, edges) <=> (CHOOSE f : TotalWalk(counts, n, f))[n] = Len(values)
BY DEF BinsAddUp, TotalWalk

(* There is one.                                                           *)
LEMMA TotalWalks ==
  ASSUME NEW n \in Nat, NEW counts, \A k \in 1..n : counts[k] \in Nat
  PROVE  \E f : TotalWalk(counts, n, f)
<1>1. PICK step : step = [at \in (1..n) \X Nat |-> at[2] + counts[at[1]]]
  OBVIOUS
<1>2. step \in [(1..n) \X Nat -> Nat]
  <2>1. ASSUME NEW at \in (1..n) \X Nat PROVE at[2] + counts[at[1]] \in Nat
    <3>1. at[1] \in 1..n /\ at[2] \in Nat
      OBVIOUS
    <3>2. counts[at[1]] \in Nat
      BY <3>1
    <3>3. QED
      BY <3>1, <3>2
  <2>2. QED
    BY <1>1, <2>1
<1>3. PICK f \in [0..n -> Nat] : Walks(f, n, 0, step)
  <2>1. 0 \in Nat
    OBVIOUS
  <2>2. QED
    BY <1>2, <2>1, WalkExists
<1>4. ASSUME NEW k \in 0..n PROVE f[k] = IF k = 0 THEN 0 ELSE f[k - 1] + counts[k]
  <2>1. CASE k = 0
    BY <1>3, <2>1 DEF Walks
  <2>2. CASE k # 0
    <3>1. k \in 1..n /\ k - 1 \in 0..n
      BY <2>2
    <3>2. f[k - 1] \in Nat
      BY <3>1
    <3>3. <<k, f[k - 1]>> \in (1..n) \X Nat
      BY <3>1, <3>2
    <3>4. f[k] = step[<<k, f[k - 1]>>]
      BY <1>3, <3>1 DEF Walks
    <3>5. QED
      BY <1>1, <2>2, <3>3, <3>4
  <2>3. QED
    BY <2>1, <2>2
<1>5. f = [k \in 0..n |-> f[k]]
  OBVIOUS
<1>6. TotalWalk(counts, n, f)
  BY <1>4, <1>5 DEF TotalWalk
<1>7. QED
  BY <1>6

(* For any values and two or more sorted edges, each value is counted in   *)
(* one bin, the last one taking all that lie in none (drift/metrics.py,    *)
(* _histogram).                                                            *)
THEOREM BinsNeverLose ==
  ASSUME NEW values \in Seq(Int), NEW edges, AreSorted(edges), Len(edges) > 1
  PROVE  BinsAddUp(values, edges)
<1>1. PICK n, counts, all : n = Len(edges) - 1 /\ counts = Histogram(values, edges) /\ all = 1..Len(values)
  OBVIOUS
<1>2. n \in Nat /\ n > 0 /\ Len(values) \in Nat /\ DOMAIN values = all
  BY <1>1 DEF AreSorted
<1>3. IsFiniteSet(all) /\ Cardinality(all) = Len(values)
  <2>1. PICK len \in Int : len = Len(values)
    BY <1>2
  <2>2. IsFiniteSet(1..len)
    BY FS_Interval
  <2>3. Cardinality(1..len) = IF 1 > len THEN 0 ELSE len - 1 + 1
    BY FS_Interval
  <2>4. QED
    BY <1>1, <1>2, <2>1, <2>2, <2>3
<1>4. \A S \in SUBSET all : IsFiniteSet(S) /\ Cardinality(S) \in Nat
  BY <1>3, FS_Subset, FS_CardinalityType
<1> DEFINE At(k) == InBin(values, edges, k)
<1> DEFINE Full(k) == Filled(values, edges, k)
<1>5. ASSUME NEW k \in 1..n
      PROVE  /\ Full(k) = Full(k - 1) \cup At(k) /\ Full(k - 1) \cap At(k) = {} /\ Full(k) \in SUBSET all
             /\ Cardinality(Full(k)) = Cardinality(Full(k - 1)) + Cardinality(At(k))
  <2>1. k \in 1..Len(edges) - 1
    BY <1>1
  <2>2. Full(k) = Full(k - 1) \cup At(k) /\ Full(k - 1) \cap At(k) = {} /\ Full(k) \in SUBSET all
    BY <1>1, <2>1, BinsAreApart
  <2> HIDE DEF At, Full
  <2>3. IsFiniteSet(Full(k - 1)) /\ IsFiniteSet(At(k)) /\ Cardinality(Full(k - 1)) \in Nat /\ Cardinality(At(k)) \in Nat
    BY <1>4, <2>2
  <2>4. Cardinality(Full(k - 1) \cup At(k)) = Cardinality(Full(k - 1)) + Cardinality(At(k)) - Cardinality(Full(k - 1) \cap At(k))
    BY <2>3, FS_Union
  <2>5. Cardinality(Full(k - 1) \cap At(k)) = 0
    BY <2>2, FS_EmptySet
  <2>6. QED
    BY <2>2, <2>3, <2>4, <2>5
<1>6. PICK lost : lost = all \ Full(n)
  OBVIOUS
<1>7. \A k \in 1..n : counts[k] = Cardinality(At(k)) + IF k = n THEN Cardinality(lost) ELSE 0
  BY <1>1, <1>2, <1>6 DEF Histogram, InBin, Filled
<1> HIDE DEF At, Full
<1>8. \A k \in 1..n : Cardinality(At(k)) \in Nat /\ counts[k] \in Nat
  <2>1. Cardinality(lost) \in Nat
    BY <1>4, <1>6
  <2>2. \A k \in 1..n : At(k) \in SUBSET all
    BY <1>5
  <2>3. QED
    BY <1>4, <1>7, <2>1, <2>2
<1>9. PICK f : TotalWalk(counts, n, f) /\ (BinsAddUp(values, edges) <=> f[n] = Len(values))
  <2>1. \E f : TotalWalk(counts, n, f)
    BY <1>2, <1>8, TotalWalks
  <2>2. TotalWalk(counts, n, CHOOSE f : TotalWalk(counts, n, f))
    BY <2>1
  <2>3. BinsAddUp(values, edges) <=> (CHOOSE f : TotalWalk(counts, n, f))[n] = Len(values)
    BY <1>1, TotalChosen
  <2>4. QED
    BY <2>2, <2>3
<1>10. f[0] = 0 /\ \A k \in 1..n : f[k] = f[k - 1] + counts[k]
  <2>1. 0 \in 0..n /\ \A k \in 1..n : k \in 0..n /\ k # 0
    BY <1>2
  <2>2. QED
    BY <1>9, <2>1 DEF TotalWalk
<1>11. f[n - 1] = Cardinality(Full(n - 1))
  <2> DEFINE Good == {k \in Nat : f[k] = Cardinality(Full(k))}
  <2>1. 0 \in Good
    <3>1. Full(0) = {}
      BY DEF Full, Filled
    <3>2. QED
      BY <1>10, <3>1, FS_EmptySet
  <2>2. ASSUME NEW k \in 1..n - 1, k - 1 \in Good PROVE k \in Good
    <3>1. k \in 1..n /\ k # n /\ k \in Nat
      BY <1>2
    <3>2. counts[k] = Cardinality(At(k))
      BY <1>7, <1>8, <3>1
    <3>3. f[k - 1] = Cardinality(Full(k - 1))
      BY <2>2
    <3>4. QED
      BY <1>5, <1>10, <3>1, <3>2, <3>3
  <2>3. Good \in SUBSET Nat /\ n - 1 \in Nat
    BY <1>2
  <2> HIDE DEF Good
  <2>4. 0..n - 1 \subseteq Good
    BY <2>1, <2>2, <2>3, HoldsUpTo
  <2>5. n - 1 \in Good
    BY <2>3, <2>4
  <2>6. QED
    BY <2>5 DEF Good
<1>12. n \in 1..n /\ Full(n) \in SUBSET all
  BY <1>2, <1>5
<1>13. f[n] = Cardinality(Full(n)) + Cardinality(lost)
  <2>1. f[n] = f[n - 1] + counts[n] /\ counts[n] = Cardinality(At(n)) + Cardinality(lost)
    BY <1>7, <1>10, <1>12
  <2>2. Cardinality(Full(n)) = Cardinality(Full(n - 1)) + Cardinality(At(n))
    BY <1>5, <1>12
  <2>3. Cardinality(Full(n - 1)) \in Nat /\ Cardinality(At(n)) \in Nat /\ Cardinality(lost) \in Nat
    <3>1. Full(n - 1) \in SUBSET all /\ lost \in SUBSET all
      BY <1>5, <1>6, <1>12
    <3>2. QED
      BY <1>4, <1>8, <1>12, <3>1
  <2>4. QED
    BY <1>11, <2>1, <2>2, <2>3
<1>14. Cardinality(all) = Cardinality(Full(n)) + Cardinality(lost)
  <2>1. all = Full(n) \cup lost /\ Full(n) \cap lost = {} /\ lost \in SUBSET all
    BY <1>6, <1>12
  <2>2. IsFiniteSet(Full(n)) /\ IsFiniteSet(lost) /\ Cardinality(Full(n)) \in Nat /\ Cardinality(lost) \in Nat
    BY <1>4, <1>12, <2>1
  <2>3. Cardinality(Full(n) \cup lost) = Cardinality(Full(n)) + Cardinality(lost) - Cardinality(Full(n) \cap lost)
    BY <2>2, FS_Union
  <2>4. Cardinality(Full(n) \cap lost) = 0
    BY <2>1, FS_EmptySet
  <2>5. QED
    BY <2>1, <2>2, <2>3, <2>4
<1>15. QED
  BY <1>3, <1>9, <1>13, <1>14

-----------------------------------------------------------------------------
(* The inputs of the statistics.                                           *)
StatisticsJob ==
  /\ IsJob("returns") => AreReturns(job[2])
  /\ IsJob("drift") => AreSorted(job[2]) /\ AreSorted(job[3])

(* The returns of the run lose at most three tenths a day.                 *)
LEMMA SomeReturns ==
  ASSUME NEW returns \in [1..4 -> -3..2], NEW n \in 1..3
  PROVE  AreReturns(SubSeq(returns, 1, n + 1))
<1>1. PICK part : part = SubSeq(returns, 1, n + 1)
  OBVIOUS
<1>2. part = [k \in 1..n + 1 |-> returns[k]]
  <2>1. part = [k \in 1..(n + 1) - 1 + 1 |-> returns[1 + k - 1]]
    BY <1>1
  <2>2. (n + 1) - 1 + 1 = n + 1 /\ \A k \in 1..n + 1 : 1 + k - 1 = k
    OBVIOUS
  <2>3. QED
    BY <2>1, <2>2
<1>3. \A k \in 1..n + 1 : k \in 1..4 /\ part[k] \in -3..2
  BY <1>2
<1>4. part \in Seq(Int) /\ Len(part) = n + 1
  <2>1. part = [k \in 1..n + 1 |-> part[k]]
    BY <1>2
  <2>2. part \in [1..n + 1 -> Int] /\ n + 1 \in Nat
    BY <1>3, <2>1
  <2>3. part \in UNION {[1..m -> Int] : m \in Nat}
    BY <2>2
  <2>4. part \in Seq(Int)
    BY <2>3, SeqDef
  <2>5. QED
    BY <2>2, <2>4
<1>5. \A k \in 1..Len(part) : Tenths + part[k] \in Positive
  <2>1. ASSUME NEW x \in -3..2 PROVE Tenths + x \in Positive
    BY DEF Tenths, Positive
  <2>2. QED
    BY <1>3, <1>4, <2>1
<1>6. QED
  BY <1>1, <1>4, <1>5 DEF AreReturns

(* Its samples are sorted.                                                 *)
LEMMA AscendingAreSorted ==
  ASSUME NEW n \in 1..3, NEW s \in Ascending(n)
  PROVE  AreSorted(s)
<1>1. s \in [1..n -> 1..3] /\ \A i \in 2..n : s[i - 1] <= s[i]
  BY DEF Ascending
<1>2. \A k \in 1..n : s[k] \in 1..3
  BY <1>1
<1>3. s \in Seq(Int) /\ Len(s) = n
  <2>1. s = [k \in 1..n |-> s[k]]
    BY <1>1
  <2>2. s \in [1..n -> Int] /\ n \in Nat
    BY <1>2, <2>1
  <2>3. s \in UNION {[1..m -> Int] : m \in Nat}
    BY <2>2
  <2>4. s \in Seq(Int)
    BY <2>3, SeqDef
  <2>5. QED
    BY <2>2, <2>4
<1>4. (n >= 2 => s[1] <= s[2]) /\ (n = 3 => s[2] <= s[3])
  <2>1. n >= 2 => 2 \in 2..n /\ 2 - 1 = 1
    OBVIOUS
  <2>2. n = 3 => 3 \in 2..n /\ 3 - 1 = 2
    OBVIOUS
  <2>3. QED
    BY <1>1, <2>1, <2>2
<1>5. ASSUME NEW i \in 1..n, NEW j \in 1..n, i <= j PROVE s[i] <= s[j]
  <2>1. i = j \/ (i = 1 /\ j = 2 /\ n >= 2) \/ (i = 2 /\ j = 3 /\ n = 3) \/ (i = 1 /\ j = 3 /\ n = 3)
    BY <1>5
  <2>2. CASE i = j
    BY <1>2, <2>2
  <2>3. CASE i = 1 /\ j = 2 /\ n >= 2
    BY <1>4, <2>3
  <2>4. CASE i = 2 /\ j = 3 /\ n = 3
    BY <1>4, <2>4
  <2>5. CASE i = 1 /\ j = 3 /\ n = 3
    <3>1. s[1] \in Int /\ s[2] \in Int /\ s[3] \in Int
      BY <1>2, <2>5
    <3>2. QED
      BY <1>4, <2>5, <3>1
  <2>6. QED
    BY <2>1, <2>2, <2>3, <2>4, <2>5
<1>6. QED
  BY <1>3, <1>5 DEF AreSorted

(* Those are the jobs.                                                     *)
LEMMA StatisticsJobs == Spec => []StatisticsJob
<1>1. Init => StatisticsJob
  BY DEF Init, StatisticsJob, IsJob
<1>2. StatisticsJob /\ [Next]_vars => StatisticsJob'
  <2>1. ASSUME Choose PROVE StatisticsJob'
    <3>1. ASSUME job'[1] = "returns" PROVE AreReturns(job'[2])
      <4>1. PICK n \in 1..3, returns \in [1..4 -> -3..2] : job' = <<"returns", SubSeq(returns, 1, n + 1)>>
        BY <2>1, <3>1 DEF Choose
      <4>2. job'[2] = SubSeq(returns, 1, n + 1)
        BY <4>1
      <4>3. QED
        BY <4>2, SomeReturns
    <3>2. ASSUME job'[1] = "drift" PROVE AreSorted(job'[2]) /\ AreSorted(job'[3])
      <4>1. PICK n \in 1..3, k \in 1..3 : \E a \in Ascending(n), b \in Ascending(k) : job' = <<"drift", a, b>>
        BY <2>1, <3>2 DEF Choose
      <4>2. PICK a \in Ascending(n), b \in Ascending(k) : job' = <<"drift", a, b>>
        BY <4>1
      <4>3. job'[2] = a /\ job'[3] = b
        BY <4>2
      <4>4. QED
        BY <4>3, AscendingAreSorted
    <3>3. QED
      BY <3>1, <3>2 DEF StatisticsJob, IsJob
  <2>2. ASSUME StatisticsJob, UNCHANGED job PROVE StatisticsJob'
    BY <2>2 DEF StatisticsJob, IsJob
  <2>3. QED
    BY <2>1, <2>2 DEF Next, vars
<1>3. QED
  BY <1>1, <1>2, PTL DEF Spec

(* On every input the statistics are the ones they stand for:              *)
(* StatisticsAreSound from the theorems above.                             *)
THEOREM StatisticsAlwaysSound == Spec => []StatisticsAreSound
<1>1. StatisticsJob => StatisticsAreSound
  <2> SUFFICES ASSUME StatisticsJob PROVE StatisticsAreSound
    OBVIOUS
  <2>1. DrawdownIsWorstStretch
    BY WorstStretchFound DEF StatisticsJob, DrawdownIsWorstStretch
  <2>2. DriftIsNotMissed
    <3>1. SUFFICES ASSUME IsJob("drift") PROVE DistanceIsSupremum(job[2], job[3]) /\ BinsAddUp(job[2], <<1, 2, 3>>)
      BY DEF DriftIsNotMissed
    <3>2. AreSorted(job[2]) /\ AreSorted(job[3])
      BY <3>1 DEF StatisticsJob
    <3>3. DistanceIsSupremum(job[2], job[3])
      BY <3>2, DistanceNeverMissed
    <3>4. PICK edges : edges = <<1, 2, 3>>
      OBVIOUS
    <3>5. AreSorted(edges) /\ Len(edges) > 1
      BY <3>4 DEF AreSorted
    <3>6. job[2] \in Seq(Int)
      BY <3>2 DEF AreSorted
    <3>7. BinsAddUp(job[2], edges)
      BY <3>5, <3>6, BinsNeverLose
    <3>8. QED
      BY <3>3, <3>4, <3>7
  <2>3. QED
    BY <2>1, <2>2 DEF StatisticsAreSound
<1>2. QED
  BY <1>1, StatisticsJobs, PTL
=============================================================================
