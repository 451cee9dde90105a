----------------------------- MODULE Automation -----------------------------
(***************************************************************************)
(* The loop that watches the model in service (packages/automation), over  *)
(* AdminTools: retraining on drift, the IC guard and the weekly review, in *)
(* the order of scripts/run_self_thinking.py.                              *)
(*                                                                         *)
(* A drift report is [psi, ks, ood, ics]: the largest PSI and KS over the  *)
(* features and the share of outliers, in percent, and the rolling ICs in  *)
(* hundredths, latest last.                                                *)
(***************************************************************************)
EXTENDS AdminTools, Sequences

CONSTANTS
  MinInterval,   \* days between two retrainings of a model
  Threshold,     \* drift level that retrains
  Periods,       \* weeks of decay that ask for a rollback
  Window,        \* ICs of a trend
  Reports,       \* drift reports
  Histories,     \* weekly ICs
  MaxDay,        \* bound: days
  MaxTrainings   \* bound: retrainings of one process

ASSUME AutomationAssumption ==
  /\ MinInterval \in Nat /\ Periods \in Nat \ {0}
  /\ \A ics \in Histories : ics \in Seq(Int)

Metrics == INSTANCE EvaluationMetrics

VARIABLES
  day,
  lastRetrain,   \* _last_retrain: model -> day, or Never
  artifacts,     \* keys with an artifact in the registry
  trained,       \* history: <<model, day>> of this process' retrainings
  trail          \* the loop's events in the audit log

autoVars == <<day, lastRetrain, artifacts, trained, trail>>
allVars == <<vars, autoVars>>

Never == -1

AutoInit ==
  /\ Init
  /\ day = 0
  /\ lastRetrain = [m \in Models |-> Never]
  /\ artifacts = {} /\ trained = <<>> /\ trail = {}

-----------------------------------------------------------------------------
(* DriftReport.worst_level. *)
DriftLevel(report) ==
  Metrics!WorstLevel({Metrics!LevelOf(report.psi, <<10, 25, 50>>),
                      Metrics!LevelOf(report.ks, <<5, 10, 20>>),
                      Metrics!LevelOf(report.ood, <<2, 5, 10>>),
                      Metrics!ICTrendLevel(report.ics, Window, -2)})

TooSoon(m) == lastRetrain[m] # Never /\ day - lastRetrain[m] < MinInterval

\* Mutant of Stamped: a retraining counts once its model is registered.
Stamped_Registered(m, k) ==
  IF state[k] = Absent THEN [lastRetrain EXCEPT ![m] = day] ELSE lastRetrain

(* Set as soon as train_fn returns, whatever becomes of the new model.     *)
Stamped(m, k) == [lastRetrain EXCEPT ![m] = day]

(* check_and_retrain: train_fn returns the model k (if it raises, nothing  *)
(* has happened).  The artifact is attached before the answer is read; of  *)
(* a key that is taken the answer is an error without a state, so the call *)
(* raises with the artifact of the registered version replaced.            *)
CheckAndRetrain(m, report, k) ==
  /\ Len(trained) < MaxTrainings
  /\ DriftLevel(report) >= Threshold /\ ~TooSoon(m)
  /\ lastRetrain' = Stamped(m, k)
  /\ trained' = Append(trained, <<m, day>>)
  /\ artifacts' = artifacts \cup {k}
  /\ IF state[k] = Absent
       THEN /\ RegisterModel(k)
            /\ trail' = trail \cup {[action |-> "retrain", of |-> m, verdict |-> "", rollbacks |-> 0]}
       ELSE UNCHANGED <<models, trail>>
  /\ UNCHANGED <<killSwitch, queue, calls, restarts, day>>

\* Mutant of Decayed: the weeks before the window are looked at.
Decayed_Oldest(ics) ==
  Len(ics) >= Periods /\ \A i \in 1..Periods : ics[i] < 5

(* ICGuard: the last Periods weeks are all below the threshold.            *)
Decayed(ics) ==
  Len(ics) >= Periods /\ \A i \in Len(ics) - Periods + 1..Len(ics) : ics[i] < 5

(* WeeklyReviewer.review. *)
Verdict(ics) ==
  LET ic == IF ics = <<>> THEN 0 ELSE ics[Len(ics)]
  IN  IF ic >= 5 THEN "healthy" ELSE IF ic >= 0 THEN "degrading" ELSE "critical"

(* check_and_rollback calls model_request_rollback with parameters it does *)
(* not have: the error is swallowed, no model moves, and the event is      *)
(* logged without a request.  Then the review, with that event.            *)
ReviewWeek(m, ics) ==
  LET rollbacks == IF Decayed(ics) THEN 1 ELSE 0
      Event(action, verdict) == [action |-> action, of |-> m, verdict |-> verdict, rollbacks |-> rollbacks]
  IN  /\ trail' = trail \cup {Event("review", Verdict(ics))}
                        \cup (IF Decayed(ics) THEN {Event("guard", "")} ELSE {})
      /\ UNCHANGED <<vars, day, lastRetrain, artifacts, trained>>

NextDay ==
  /\ day < MaxDay /\ day' = day + 1
  /\ UNCHANGED <<vars, lastRetrain, artifacts, trained, trail>>

(* The engine and its stamps are of one process. *)
AutoRestart ==
  /\ Restart
  /\ lastRetrain' = [m \in Models |-> Never]
  /\ artifacts' = {} /\ trained' = <<>>
  /\ UNCHANGED <<day, trail>>

AutoNext ==
  \/ \E m \in Models, report \in Reports, k \in Keys : CheckAndRetrain(m, report, k)
  \/ \E m \in Models, ics \in Histories : ReviewWeek(m, ics)
  \/ NextDay
  \/ AutoRestart
  \/ Call /\ UNCHANGED autoVars

AutoSpec == AutoInit /\ [][AutoNext]_allVars

-----------------------------------------------------------------------------
(* "Won't retrain more than once per min_interval_days for the same model, *)
(* even if drift stays high": as long as the process lives, also when the  *)
(* new model could not be registered.  An artifact always has a record, so *)
(* nothing is served that was not registered; and no review calls a model  *)
(* healthy in a week in which the guard acted.                             *)
LoopIsBounded ==
  /\ \A i, j \in DOMAIN trained :
       i < j /\ trained[i][1] = trained[j][1] => trained[j][2] - trained[i][2] >= MinInterval
  /\ \A k \in artifacts : state[k] # Absent
  /\ \A e \in trail : e.action = "review" /\ e.rollbacks = 1 => e.verdict # "healthy"
=============================================================================
