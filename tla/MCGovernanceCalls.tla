-------------------------- MODULE MCGovernanceCalls -------------------------
(***************************************************************************)
(* StrategyGovernance for TLC, two callers in one of two situations: they  *)
(* derive versions from each other and nothing is evaluated yet, or one    *)
(* version is taken through its life, with evaluation runs.                *)
(***************************************************************************)
EXTENDS MCStrategyGovernance

(* One version, named by one request with valid parameters. *)
OneVersion ==
  /\ Cardinality({v \in Versions : \/ state[v] # Absent
                                   \/ \E c \in Callers : v \in {call[c].version, call[c].parent}
                                   \/ \E r \in Requests : request[r].parent = v}) <= 1
  /\ Cardinality({r \in Requests : request[r] # NoRequest}) <= 1
  /\ \A r \in Requests : request[r].params \in ValidParams \cup {None}

Focus == started = 0 \/ OneVersion
=============================================================================
