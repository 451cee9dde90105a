--------------------------- MODULE ShadowTracking ---------------------------
(***************************************************************************)
(* ShadowTracker and DriftAutoSuspender (strategy_governance/shadow.py)    *)
(* beside the lifecycle of the versions they watch.                        *)
(*                                                                         *)
(* The tracker is one in-memory object: recording and settling are atomic. *)
(* The drift check is not: it reads the track record, then asks the        *)
(* service to suspend, which reads the version's row in one transaction    *)
(* and changes it in another; a decision of somebody else may come between *)
(* any two of these steps.  Other people's decisions are whole (the races  *)
(* inside transition() are the subject of StrategyGovernance) and free in  *)
(* what StrategyPolicy allows.                                             *)
(*                                                                         *)
(* One strategy, whose versions share the tracker; one instrument, whose   *)
(* daily log-returns `moves` are revealed one day at a time.               *)
(***************************************************************************)
EXTENDS EvaluationMetrics, StrategyPolicy

CONSTANTS
  Versions,        \* versions of the strategy, all past their backtest
  Moves,           \* daily returns in tenths
  Horizons,        \* horizon_days in use
  MaxDays,         \* bound: days that pass
  MaxPredictions,  \* bound: predictions recorded
  MinSample,       \* DriftAutoSuspendConfig.min_sample
  RecentN,         \* DriftAutoSuspendConfig.recent_n
  None

ASSUME ShadowAssumption ==
  /\ MaxDays \in Nat /\ MaxPredictions \in Nat
  /\ MinSample \in Nat /\ RecentN \in Nat
  /\ Horizons \subseteq Nat \ {0}
  /\ None \notin Versions \cup Int

VARIABLES
  moves,      \* the world: the return of each day so far
  outcomes,   \* ShadowTracker._outcomes, in order of insertion
  stage,      \* the state of each version's row
  monitor,    \* program counter and locals of the drift check
  dropped     \* versions check_and_suspend has reported as suspended

shadowVars == <<moves, outcomes, stage, monitor, dropped>>

Idle == [pc |-> "idle", version |-> None, seen |-> Absent]

ShadowInit ==
  /\ moves = <<>> /\ outcomes = <<>>
  /\ stage = [v \in Versions |-> "BACKTESTED"]
  /\ monitor = Idle /\ dropped = {}

Today == Len(moves)

NextDay ==
  /\ Today < MaxDays
  /\ \E m \in Moves : moves' = Append(moves, m)
  /\ UNCHANGED <<outcomes, stage, monitor, dropped>>

-----------------------------------------------------------------------------
(* The tracker.                                                            *)

(* record_prediction: neither the stage of the version nor the date is     *)
(* looked at, so a prediction may be about a day already past.             *)
RecordPrediction(v, asOf, horizon, expected) ==
  /\ Len(outcomes) < MaxPredictions
  /\ outcomes' = Append(outcomes, [version |-> v, asOf |-> asOf, horizon |-> horizon,
                                   expected |-> expected, actual |-> None,
                                   settledAt |-> None])
  /\ UNCHANGED <<moves, stage, monitor, dropped>>

Settled(o) == o.actual # None
SettleDate(o) == o.asOf + o.horizon

SumOf(returns) == FoldLeft(LAMBDA a, b : a + b, 0, returns)

(* The return between two days, as the caller's actual_return_fn gives it  *)
(* when it has the data.                                                   *)
Realised(from, to) == SumOf(SubSeq(moves, from + 1, to))

\* Mutant of Settle: the return runs up to the day of the call.
Settle_UpToCall(o, asOf) ==
  [o EXCEPT !.actual = Realised(o.asOf, asOf), !.settledAt = asOf]

Settle(o, asOf) ==
  [o EXCEPT !.actual = Realised(o.asOf, SettleDate(o)), !.settledAt = asOf]

(* settle_due(as_of = today): every open prediction whose horizon has      *)
(* elapsed and whose data is there.                                        *)
SettleDue(ready) ==
  LET due == {k \in DOMAIN outcomes : ~Settled(outcomes[k]) /\ SettleDate(outcomes[k]) <= Today}
  IN  /\ ready # {} /\ ready \subseteq due
      /\ outcomes' = [k \in DOMAIN outcomes |->
                        IF k \in ready THEN Settle(outcomes[k], Today) ELSE outcomes[k]]
      /\ UNCHANGED <<moves, stage, monitor, dropped>>

(* live_track_record: the RecentN settled predictions with the newest      *)
(* dates, newest first, of all versions of the strategy.                   *)
TrackRecord ==
  LET newestFirst == SetToSortSeq({k \in DOMAIN outcomes : Settled(outcomes[k])}, LAMBDA i, j :
        \/ outcomes[i].asOf > outcomes[j].asOf
        \/ outcomes[i].asOf = outcomes[j].asOf /\ i < j)
  IN  [k \in 1..Min({RecentN, Len(newestFirst)}) |-> outcomes[newestFirst[k]]]

(* should_suspend: enough settled predictions, and a coefficient below 2 % *)
(* or a drawdown beyond 15 %.                                              *)
ShouldSuspend(record) ==
  LET expected == [k \in DOMAIN record |-> record[k].expected]
      actual   == [k \in DOMAIN record |-> record[k].actual]
  IN  /\ Len(record) >= MinSample
      /\ \/ ICBelow(expected, actual, 2)
         \/ Below(MaxDrawdown(EquityCurve(actual)), <<85, 100>>)

-----------------------------------------------------------------------------
(* The drift check.                                                        *)

CheckDrift(v) ==
  /\ monitor.pc = "idle"
  /\ ShouldSuspend(TrackRecord)
  /\ monitor' = [Idle EXCEPT !.pc = "load", !.version = v]
  /\ UNCHANGED <<moves, outcomes, stage, dropped>>

(* service.suspend reads the row; an illegal transition raises, which      *)
(* check_and_suspend reports as "attempted but failed".                    *)
SuspendLoad ==
  /\ monitor.pc = "load"
  /\ IF "SUSPENDED" \in Allowed(stage[monitor.version])
       THEN monitor' = [monitor EXCEPT !.pc = "swap", !.seen = stage[monitor.version]]
       ELSE monitor' = Idle
  /\ UNCHANGED <<moves, outcomes, stage, dropped>>

\* Mutant of SuspendSwap: the row is written whatever it has become.
SuspendSwap_Blind ==
  /\ monitor.pc = "swap"
  /\ stage' = [stage EXCEPT ![monitor.version] = "SUSPENDED"]
  /\ dropped' = dropped \cup {monitor.version}
  /\ monitor' = Idle
  /\ UNCHANGED <<moves, outcomes>>

\* Mutant of SuspendSwap: a lost swap is reported as a suspension.
SuspendSwap_ReportsAnyway ==
  /\ monitor.pc = "swap"
  /\ IF stage[monitor.version] = monitor.seen
       THEN stage' = [stage EXCEPT ![monitor.version] = "SUSPENDED"]
       ELSE UNCHANGED stage
  /\ dropped' = dropped \cup {monitor.version}
  /\ monitor' = Idle
  /\ UNCHANGED <<moves, outcomes>>

(* compare_and_set_state: a row that has moved on is left alone, and the   *)
(* failure swallowed.                                                      *)
SuspendSwap ==
  /\ monitor.pc = "swap"
  /\ IF stage[monitor.version] = monitor.seen
       THEN /\ stage' = [stage EXCEPT ![monitor.version] = "SUSPENDED"]
            /\ dropped' = dropped \cup {monitor.version}
       ELSE UNCHANGED <<stage, dropped>>
  /\ monitor' = Idle
  /\ UNCHANGED <<moves, outcomes>>

(* Somebody's start_shadow, transition, reject or rollback. *)
Decide(v, to) ==
  /\ to \in Allowed(stage[v])
  /\ stage' = [stage EXCEPT ![v] = to]
  /\ UNCHANGED <<moves, outcomes, monitor, dropped>>

ShadowNext ==
  \/ NextDay
  \/ \E v \in Versions, asOf \in 0..Today, horizon \in Horizons, expected \in Moves :
       RecordPrediction(v, asOf, horizon, expected)
  \/ \E ready \in SUBSET DOMAIN outcomes : SettleDue(ready)
  \/ \E v \in Versions : CheckDrift(v)
  \/ SuspendLoad \/ SuspendSwap
  \/ \E v \in Versions, to \in StrategyState : Decide(v, to)

ShadowSpec == ShadowInit /\ [][ShadowNext]_shadowVars

-----------------------------------------------------------------------------
(* "Only records what was predicted and what actually happened": however   *)
(* late a prediction is settled, it is against the return of its own       *)
(* horizon, all of which has passed.                                       *)
TrackRecordIsHonest ==
  \A k \in DOMAIN outcomes : LET o == outcomes[k] IN
    Settled(o) => /\ SettleDate(o) <= o.settledAt /\ o.settledAt <= Today
                  /\ o.actual = Realised(o.asOf, SettleDate(o))

Lifecycle == INSTANCE StrategyLifecycle WITH
  ApprovalIds <- {}, evaluated <- Versions, beat <- Versions,
  approval <- [v \in Versions |-> None]

(* A verdict reached on an old record and a row read before somebody       *)
(* else's decision still only moves a version along an exit it has: a      *)
(* version retired meanwhile is not brought back.                          *)
VerdictsFollowLifecycle ==
  [][\A v \in Versions : stage'[v] # stage[v] =>
       \/ Lifecycle!Climbs(stage[v], stage'[v])
       \/ Lifecycle!Leaves(stage[v], stage'[v])]_shadowVars

(* A version the monitor has reported as suspended is out of service from  *)
(* then on; in particular no failed attempt is reported as a success.      *)
DroppedStaysOut == \A v \in dropped : stage[v] \in {"SUSPENDED", "RETIRED"}
=============================================================================
