--------------------------- MODULE ModelLifecycle ---------------------------
(***************************************************************************)
(* What a model registry promises, one atomic step per change: a model     *)
(* moves along the allowed edges, nothing enters service before its gate   *)
(* has passed, nothing reaches PRODUCTION without an approval.  That a     *)
(* model has a single PRODUCTION version is not part of it: see the runs.  *)
(***************************************************************************)
EXTENDS ModelRules

CONSTANT Entries   \* the registered things: versions, or (model, version) pairs

VARIABLES
  stage,     \* the state of every entry
  scrutinised, \* entries whose promotion gate has passed
  signed     \* entries a human has approved for PRODUCTION

vars == <<stage, scrutinised, signed>>

Init ==
  /\ stage = [e \in Entries |-> Absent]
  /\ scrutinised = {} /\ signed = {}

Register(e) ==
  /\ stage[e] = Absent
  /\ stage' = [stage EXCEPT ![e] = "DRAFT"]
  /\ UNCHANGED <<scrutinised, signed>>

Move(e, to) ==
  /\ to \in Allowed(stage[e])
  /\ to \in InService => e \in scrutinised'
  /\ to = "PRODUCTION" => e \in signed'
  /\ stage' = [stage EXCEPT ![e] = to]
  /\ scrutinised' \in {scrutinised, scrutinised \cup {e}}
  /\ signed' \in {signed, signed \cup {e}}

Next == \E e \in Entries : Register(e) \/ \E to \in ModelState : Move(e, to)

Spec == Init /\ [][Next]_vars
=============================================================================
