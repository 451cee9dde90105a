--------------------------- MODULE StrategyPolicy ---------------------------
(***************************************************************************)
(* The pure rules of packages/strategy_governance/policy.py: which state   *)
(* a strategy version may enter next, and what evidence each entry asks    *)
(* for.  No state: the service (StrategyGovernance) and the abstract       *)
(* lifecycle (StrategyLifecycle) are both written with these sets.         *)
(***************************************************************************)

StrategyState == {"DRAFT", "VALIDATED", "BACKTESTED", "SHADOW", "CANARY",
                  "PRODUCTION", "REJECTED", "SUSPENDED", "RETIRED"}

(* The state of a version label no row has been inserted for. *)
Absent == "ABSENT"

\* Mutant of Allowed: a backtested version may skip its shadow window.
Allowed_SkipShadow(s) ==
  CASE s = "DRAFT"      -> {"VALIDATED", "REJECTED"}
    [] s = "VALIDATED"  -> {"BACKTESTED", "REJECTED"}
    [] s = "BACKTESTED" -> {"SHADOW", "CANARY", "REJECTED"}
    [] s \in {"SHADOW", "CANARY"} -> {"CANARY", "PRODUCTION", "SUSPENDED", "RETIRED"}
    [] s = "PRODUCTION" -> {"SUSPENDED", "RETIRED"}
    [] s = "SUSPENDED"  -> {"RETIRED"}
    [] OTHER            -> {}

(* policy._ALLOWED; `.get(state, frozenset())` is the empty default. *)
Allowed(s) ==
  CASE s = "DRAFT"      -> {"VALIDATED", "REJECTED"}
    [] s = "VALIDATED"  -> {"BACKTESTED", "REJECTED"}
    [] s = "BACKTESTED" -> {"SHADOW", "REJECTED"}
    [] s = "SHADOW"     -> {"CANARY", "SUSPENDED", "RETIRED"}
    [] s = "CANARY"     -> {"PRODUCTION", "SUSPENDED", "RETIRED"}
    [] s = "PRODUCTION" -> {"SUSPENDED", "RETIRED"}
    [] s = "SUSPENDED"  -> {"RETIRED"}
    [] OTHER            -> {}

RequiresEval     == {"BACKTESTED", "SHADOW"}
RequiresGate     == {"CANARY"}
RequiresApproval == {"PRODUCTION"}

(* How a PromotionDecision into state `to` is labelled. *)
Outcome(to) ==
  IF to \in {"REJECTED", "RETIRED", "SUSPENDED"} THEN "REJECTED" ELSE "APPROVED"

=============================================================================
