----------------------------- MODULE ModelRules -----------------------------
(***************************************************************************)
(* The pure rules of packages/models/registry.py, shared (as in the code)  *)
(* by the SQL registry (ModelRegistry), the in-memory one behind the admin *)
(* tools (AdminTools) and the abstract lifecycle (ModelLifecycle).         *)
(***************************************************************************)

ModelState == {"DRAFT", "CANDIDATE", "SHADOW", "PRODUCTION", "RETIRED"}

(* A (model_id, version) nothing has been registered for. *)
Absent == "ABSENT"

(* registry._ALLOWED *)
Allowed(s) ==
  CASE s = "DRAFT"      -> {"CANDIDATE", "RETIRED"}
    [] s = "CANDIDATE"  -> {"SHADOW", "PRODUCTION", "RETIRED"}
    [] s = "SHADOW"     -> {"PRODUCTION", "CANDIDATE", "RETIRED"}
    [] s = "PRODUCTION" -> {"RETIRED", "SHADOW"}
    [] OTHER            -> {}

(* The moves that ask for promotion_gate evidence.  Everything else moves  *)
(* a model that has passed one already, or takes it out of service.        *)
NeedsGate(s, to) == s = "CANDIDATE" /\ to \in {"SHADOW", "PRODUCTION"}

InService == {"SHADOW", "PRODUCTION"}

(* validate_transition without its look at the other versions: `passed`    *)
(* is promotion_gate.passed, FALSE when no gate was given; `approved` is   *)
(* whether approval_id is non-empty.                                       *)
Permits(s, to, passed, approved) ==
  /\ to \in Allowed(s)
  /\ NeedsGate(s, to) => passed
  /\ to = "PRODUCTION" => approved

=============================================================================
