-------------------------- MODULE FactorGovernance --------------------------
(***************************************************************************)
(* Factor versions with point-in-time availability (service.py             *)
(* register_factor ... check_incremental_contribution, SqlFactorVersion-   *)
(* Repository) and the walk-forward evaluation that uses them.             *)
(*                                                                         *)
(* An evaluation is given the list of factors its caller read from the     *)
(* service earlier, and runs for long: registrations and retirements come  *)
(* between the read and its end.  Left out: an evaluation that is given no *)
(* list (factor_versions is None, the default), which filters nothing and  *)
(* so says nothing of availability.                                        *)
(***************************************************************************)
EXTENDS WalkForward

CONSTANTS
  FactorIds, Labels,   \* factor ids and version labels
  Days,                \* the days of the bars, ascending
  Dates,               \* available_from dates in use
  TrainMin, Horizon, FoldStep,
  MaxEvents            \* bound: registrations and retirements

ASSUME FactorAssumption ==
  /\ TrainMin \in Nat \ {0} /\ Horizon \in Nat \ {0} /\ FoldStep \in Nat \ {0}
  /\ MaxEvents \in Nat /\ Dates \subseteq Int /\ Days \in Seq(Int)

VARIABLES
  factors,     \* factor_version rows: a set of [id, label, from, state]
  factorAudit, \* audit events, a sequence
  read,        \* the list an evaluation was given, or <<>> when none runs
  result       \* the folds of the last evaluation, and the rows it met

factorVars == <<factors, factorAudit, read, result>>

FactorInit ==
  /\ factors = {} /\ factorAudit = <<>>
  /\ read = <<>> /\ result = [folds |-> {}, given |-> {}]

RowOf(id, label) == {f \in factors : f.id = id /\ f.label = label}

(* SqlFactorVersionRepository.save: an existing (factor_id, version) wins. *)
Save(f) == factors' = IF RowOf(f.id, f.label) = {} THEN factors \cup {f} ELSE factors

RegisterFactor(id, label, from) ==
  /\ Len(factorAudit) < MaxEvents
  /\ Save([id |-> id, label |-> label, from |-> from, state |-> "ACTIVE"])
  /\ factorAudit' = Append(factorAudit, [action |-> "factor.registered", id |-> id,
                                         label |-> label, ok |-> TRUE])
  /\ UNCHANGED <<read, result>>

(* The event is written whether the swap succeeded or not. *)
RetireFactor(id, label) ==
  LET active == {f \in RowOf(id, label) : f.state = "ACTIVE"}
  IN  /\ Len(factorAudit) < MaxEvents
      /\ factors' = (factors \ active) \cup {[f EXCEPT !.state = "RETIRED"] : f \in active}
      /\ factorAudit' = Append(factorAudit, [action |-> "factor.retired", id |-> id,
                                             label |-> label, ok |-> active # {}])
      /\ UNCHANGED <<read, result>>

(* list_factors *)
ListFactors == {f \in factors : f.state = "ACTIVE"}

(* get_available_factors(as_of): list_available_at. *)
GetAvailableFactors(asOf) == AvailableAt(factors, asOf)

(* check_factor_leakage: the ids without any version available then. *)
CheckFactorLeakage(asOf, ids) == ids \ {f.id : f \in GetAvailableFactors(asOf)}

StartEvaluation ==
  /\ read = <<>>
  /\ \E list \in {ListFactors} \cup {GetAvailableFactors(d) : d \in Range(Days)} :
       read' = <<list>>
  /\ UNCHANGED <<factors, factorAudit, result>>

(* StrategyEvaluator.evaluate over the list, some trainings failing; the   *)
(* list without one factor is the second run of                            *)
(* check_incremental_contribution.                                         *)
FinishEvaluation(without, failed) ==
  /\ read # <<>>
  /\ LET given == {f \in read[1] : f.id \notin without}
     IN  result' = [folds |-> Folds(Days, TrainMin, Horizon, FoldStep, FactorIds, given, failed),
                    given |-> given]
  /\ read' = <<>>
  /\ UNCHANGED <<factors, factorAudit>>

FactorNext ==
  \/ \E id \in FactorIds, label \in Labels :
       \/ \E from \in Dates : RegisterFactor(id, label, from)
       \/ RetireFactor(id, label)
  \/ StartEvaluation
  \/ \E without \in {{}} \cup {{id} : id \in FactorIds}, failed \in {{}, {TrainMin}} :
       FinishEvaluation(without, failed)

FactorSpec == FactorInit /\ [][FactorNext]_factorVars

-----------------------------------------------------------------------------
(* "A fold whose training window ends at T may only use factors with       *)
(* available_from <= T" (policy.py), as the registry has it whatever was   *)
(* registered or retired while the evaluation ran, so check_factor_leakage *)
(* objects to a feature of a fold only if it was retired since; and every  *)
(* fold is tested on rows after all its training rows, which no other fold *)
(* was tested on when the step is a whole horizon.                         *)
FoldsArePointInTime ==
  LET folds == result.folds IN
  /\ \A fold \in folds :
       /\ \A id \in fold.features :
            \E f \in factors : /\ f.id = id /\ f.from <= fold.end
                              /\ [f EXCEPT !.state = "ACTIVE"] \in result.given
       /\ \A id \in CheckFactorLeakage(fold.end, fold.features) :
            \E f \in factors : f.id = id /\ f.state = "RETIRED"
       /\ Cardinality(fold.features) >= 2
       /\ Max(fold.train) < Min(fold.test) /\ Max(fold.test) <= Len(Days)
  /\ FoldStep >= Horizon => \A a, b \in folds : a # b => a.test \cap b.test = {}
=============================================================================
