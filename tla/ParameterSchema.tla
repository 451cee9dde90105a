-------------------------- MODULE ParameterSchema ---------------------------
(***************************************************************************)
(* The whitelist of strategy parameters and the readable diff between two  *)
(* sets of them (strategy_governance/policy.py).                           *)
(*                                                                         *)
(* Parameters are a function from keys to Python values, a value a record  *)
(* [type, n]: an "integer", a float ("number"), a "boolean" (n is 0 or 1)  *)
(* or a "string" (n tells strings apart).  A schema is a function from     *)
(* keys to specs [type, required, minimum, maximum, choices], the last     *)
(* three possibly Nothing.                                                 *)
(***************************************************************************)
EXTENDS Integers, FiniteSets

CONSTANT Nothing

(* Python compares True with 1 and with 1.0 as equal.                      *)
SameValue(v, w) == v.n = w.n /\ (v.type = "string" <=> w.type = "string")

\* Mutant of Fits: bool is a subclass of int.
Fits_Subclass(v, type) ==
  v.type \in CASE type = "number"  -> {"integer", "number", "boolean"}
               [] type = "integer" -> {"integer", "boolean"}
               [] OTHER            -> {type}

(* isinstance against _TYPE_MAP, and no boolean for an integer; but a      *)
(* boolean, being an int, passes for a number.                             *)
Fits(v, type) ==
  v.type \in IF type = "number" THEN {"integer", "number", "boolean"} ELSE {type}

WithinSpec(v, spec) ==
  /\ Fits(v, spec.type)
  /\ spec.choices # Nothing => \E w \in spec.choices : SameValue(v, w)
  /\ spec.minimum # Nothing => v.n >= spec.minimum
  /\ spec.maximum # Nothing => v.n <= spec.maximum

(* validate_parameter_schema does not raise.                               *)
Accepts(values, schema) ==
  /\ DOMAIN values \subseteq DOMAIN schema
  /\ \A key \in DOMAIN schema :
       IF key \in DOMAIN values THEN WithinSpec(values[key], schema[key])
       ELSE ~schema[key].required

(* compute_change_diff: a line per key that was dropped, added or changed; *)
(* without a parent, per key.                                              *)
ChangeDiff(parent, child) ==
  LET p == IF parent = Nothing THEN <<>> ELSE parent
      dropped == DOMAIN p \ DOMAIN child
      changed == {key \in DOMAIN p \cap DOMAIN child : ~SameValue(p[key], child[key])}
  IN  {[sign |-> "-", key |-> k, from |-> p[k], to |-> Nothing] : k \in dropped}
        \cup {[sign |-> "+", key |-> k, from |-> Nothing, to |-> child[k]] :
                k \in DOMAIN child \ DOMAIN p}
        \cup {[sign |-> "~", key |-> k, from |-> p[k], to |-> child[k]] : k \in changed}

(* _make_param_set: the content hash tells apart what JSON does, so True   *)
(* and 1 as well.                                                          *)
SameContentHash(p, q) == p = q
=============================================================================
