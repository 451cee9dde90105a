------------------------- MODULE StrategyLifecycle --------------------------
(***************************************************************************)
(* What strategy governance promises, whoever calls it and however the     *)
(* calls interleave: a version climbs the promotion ladder one rung at a   *)
(* time, leaves it only through an exit its rung has, never moves again    *)
(* once terminal, and carries an approval exactly while it is live.  A     *)
(* rung that asks for evidence is only entered with the evidence on        *)
(* record.  StrategyGovernance implements this module.                     *)
(*                                                                         *)
(* The rules are restated here from the ladder and its exits rather than   *)
(* taken from policy._ALLOWED, so that the refinement also checks that     *)
(* table.                                                                  *)
(***************************************************************************)
EXTENDS Integers, Sequences

CONSTANTS Versions, ApprovalIds, None

VARIABLES
  stage,       \* stage of each version
  evaluated,   \* versions with an evaluation on record
  beat,        \* versions with an evaluation that beat the baselines
  approval     \* the approval a live version carries

vars == <<stage, evaluated, beat, approval>>

Ladder == <<"DRAFT", "VALIDATED", "BACKTESTED", "SHADOW", "CANARY", "PRODUCTION">>

Rungs == {Ladder[i] : i \in DOMAIN Ladder}
Stages == Rungs \cup {"ABSENT", "REJECTED", "SUSPENDED", "RETIRED"}

(* Stages that run on live data: those are suspended or retired, the ones  *)
(* before them are rejected.                                               *)
Live == {"SHADOW", "CANARY", "PRODUCTION"}

Climbs(from, to) ==
  \E i \in DOMAIN Ladder \ {1} : Ladder[i - 1] = from /\ Ladder[i] = to

Leaves(from, to) ==
  \/ from \in Rungs \ Live /\ to = "REJECTED"
  \/ from \in Live         /\ to \in {"SUSPENDED", "RETIRED"}
  \/ from = "SUSPENDED"    /\ to = "RETIRED"

Init ==
  /\ stage = [v \in Versions |-> "ABSENT"]
  /\ evaluated = {} /\ beat = {}
  /\ approval = [v \in Versions |-> None]

Derive(v) ==
  /\ stage[v] = "ABSENT"
  /\ stage' = [stage EXCEPT ![v] = "DRAFT"]
  /\ UNCHANGED <<evaluated, beat, approval>>

Evaluate(v) ==
  /\ evaluated' = evaluated \cup {v}
  /\ beat' \in {beat, beat \cup {v}}
  /\ UNCHANGED <<stage, approval>>

Move(v, to) ==
  /\ Climbs(stage[v], to) \/ Leaves(stage[v], to)
  /\ to \in {"BACKTESTED", "SHADOW"} => v \in evaluated
  /\ to = "SHADOW" => v \in beat
  /\ stage' = [stage EXCEPT ![v] = to]
  /\ \/ to = "PRODUCTION" /\ \E a \in ApprovalIds : approval' = [approval EXCEPT ![v] = a]
     \/ to # "PRODUCTION" /\ approval' = [approval EXCEPT ![v] = None]
  /\ UNCHANGED <<evaluated, beat>>

Next ==
  \E v \in Versions : Derive(v) \/ Evaluate(v) \/ \E to \in Stages : Move(v, to)

Spec == Init /\ [][Next]_vars
=============================================================================
