------------------------- MODULE StrategyGovernance -------------------------
(***************************************************************************)
(* StrategyGovernanceService over its SQL repositories                     *)
(* (packages/strategy_governance/service.py,                               *)
(*  packages/persistence/strategy_governance.py).                          *)
(*                                                                         *)
(* Each service call is a sequence of separate database transactions, so   *)
(* every caller has a program counter and the transactions of concurrent   *)
(* callers interleave; a caller may die (or meet a database error) between *)
(* any two of them.  Reads whose result no other caller can change are     *)
(* merged with the read before them.  A call the policy refuses returns    *)
(* before it writes anything: a refusal that depends only on the arguments *)
(* and the row just read is a guard of the reading step, one that depends  *)
(* on a later read is the step Refuse.                                     *)
(*                                                                         *)
(* One strategy_id is modelled: strategies share no row.                   *)
(***************************************************************************)
EXTENDS Integers, FiniteSets, StrategyPolicy

CONSTANTS
  Callers,      \* actors running service calls concurrently
  ActorTypes,   \* the actor_type arguments in use
  Versions,     \* version labels of the strategy
  Requests,     \* change request ids (uuid4, so never reused)
  Params,       \* proposed parameter sets
  ValidParams,  \* those validate_parameter_schema accepts
  ApprovalIds,  \* non-blank approval ids
  None,         \* Python None (and blank approval ids, treated alike)
  MaxRuns,      \* bound: evaluation runs started
  MaxCrashes    \* bound: callers lost in the middle of a call

ASSUME ConstantsAssumption ==
  /\ MaxRuns \in Nat /\ MaxCrashes \in Nat
  /\ ValidParams \subseteq Params
  /\ None \notin Callers \cup Versions \cup Requests \cup Params \cup ApprovalIds

VARIABLES
  \* strategy_version rows (state = Absent: no row), one function per column
  state, parent, params, approval,
  request,      \* change_request rows
  runs,         \* evaluation_run rows
  started,      \* runs started so far: the next started_at
  decisions,    \* promotion_decision rows
  audit,        \* audit events
  pc, call,     \* program counter and locals of each caller
  crashes       \* callers lost so far

versionRow == <<state, parent, params, approval>>
callVars   == <<pc, call>>
vars == <<versionRow, request, runs, started, decisions, audit, callVars, crashes>>

NoRequest == [status |-> "NONE", parent |-> None, params |-> None, derived |-> None]

(* Locals of a caller between two transactions. *)
Idle == [version |-> None, seen |-> Absent, to |-> Absent, approval |-> None,
         actorType |-> None, run |-> 0, beat |-> FALSE,
         request |-> None, parent |-> None, params |-> None]

Init ==
  /\ state      = [v \in Versions |-> Absent]
  /\ parent     = [v \in Versions |-> None]
  /\ params     = [v \in Versions |-> None]
  /\ approval   = [v \in Versions |-> None]
  /\ request    = [r \in Requests |-> NoRequest]
  /\ runs = {} /\ started = 0
  /\ decisions = {} /\ audit = {}
  /\ pc   = [c \in Callers |-> "idle"]
  /\ call = [c \in Callers |-> Idle]
  /\ crashes = 0

Goto(c, label, locals) ==
  /\ pc'   = [pc EXCEPT ![c] = label]
  /\ call' = [call EXCEPT ![c] = locals]

Return(c) == Goto(c, "idle", Idle)

-----------------------------------------------------------------------------
(* Change requests: propose_change and validate_and_derive.                *)

ProposeChange(c, r, par, prm) ==
  /\ pc[c] = "idle"
  /\ request[r].status = "NONE"
  /\ request' = [request EXCEPT ![r] = [status |-> "PROPOSED", parent |-> par,
                                        params |-> prm, derived |-> None]]
  /\ Goto(c, "auditProposed", [Idle EXCEPT !.request = r])
  /\ UNCHANGED <<versionRow, runs, started, decisions, audit, crashes>>

AuditProposed(c) ==
  /\ pc[c] = "auditProposed"
  /\ audit' = audit \cup {[action |-> "strategy.change.proposed",
                           request |-> call[c].request]}
  /\ Return(c)
  /\ UNCHANGED <<versionRow, request, runs, started, decisions, crashes>>

(* The parameters pass the whitelist: read the parent the request names.   *)
(* A parent_version without a row yields a first version, which needs the  *)
(* market and horizon arguments (firstArgs) or the call raises.  The       *)
(* request's status is not looked at.                                      *)
LoadRequest(c, r, label, firstArgs) ==
  LET named == request[r].parent
      found == IF named # None /\ state[named] # Absent THEN named ELSE None
  IN  /\ pc[c] = "idle"
      /\ request[r].status # "NONE"
      /\ request[r].params \in ValidParams
      /\ found = None => firstArgs
      /\ Goto(c, "saveVersion", [Idle EXCEPT !.request = r, !.version = label,
                                 !.parent = found, !.params = request[r].params])
      /\ UNCHANGED <<versionRow, request, runs, started, decisions, audit, crashes>>

\* Mutant of SaveVersion: an upsert instead of an insert.
SaveVersion_Upsert(c) ==
  LET v == call[c].version
  IN  /\ pc[c] = "saveVersion"
      /\ state'  = [state  EXCEPT ![v] = "DRAFT"]
      /\ parent' = [parent EXCEPT ![v] = call[c].parent]
      /\ params' = [params EXCEPT ![v] = call[c].params]
      /\ Goto(c, "markValidated", call[c])
      /\ UNCHANGED <<approval, request, runs, started, decisions, audit, crashes>>

(* INSERT of the DRAFT row (after its parameter set); an IntegrityError on *)
(* (strategy_id, version) is swallowed and the old row stays.              *)
SaveVersion(c) ==
  LET v == call[c].version
  IN  /\ pc[c] = "saveVersion"
      /\ IF state[v] = Absent
           THEN /\ state'  = [state  EXCEPT ![v] = "DRAFT"]
                /\ parent' = [parent EXCEPT ![v] = call[c].parent]
                /\ params' = [params EXCEPT ![v] = call[c].params]
           ELSE UNCHANGED <<state, parent, params>>
      /\ Goto(c, "markValidated", call[c])
      /\ UNCHANGED <<approval, request, runs, started, decisions,
                     audit, crashes>>

MarkValidated(c) ==
  /\ pc[c] = "markValidated"
  /\ request' = [request EXCEPT ![call[c].request].status  = "VALIDATED",
                                ![call[c].request].derived = call[c].version]
  /\ Goto(c, "auditValidated", call[c])
  /\ UNCHANGED <<versionRow, runs, started, decisions, audit, crashes>>

AuditValidated(c) ==
  /\ pc[c] = "auditValidated"
  /\ audit' = audit \cup {[action |-> "strategy.change.validated",
                           request |-> call[c].request,
                           version |-> call[c].version]}
  /\ Return(c)
  /\ UNCHANGED <<versionRow, request, runs, started, decisions, crashes>>

(* No schema for the strategy, or the parameters fail it. *)
RejectRequest(c, r) ==
  /\ pc[c] = "idle"
  /\ request[r].status # "NONE"
  /\ request[r].params \notin ValidParams
  /\ request' = [request EXCEPT ![r].status = "REJECTED"]
  /\ Goto(c, "auditRejected", [Idle EXCEPT !.request = r])
  /\ UNCHANGED <<versionRow, runs, started, decisions, audit, crashes>>

AuditRejected(c) ==
  /\ pc[c] = "auditRejected"
  /\ audit' = audit \cup {[action |-> "strategy.change.rejected",
                           request |-> call[c].request]}
  /\ Return(c)
  /\ UNCHANGED <<versionRow, request, runs, started, decisions, crashes>>

-----------------------------------------------------------------------------
(* Evaluation runs.  record_evaluation takes any label, with or without a  *)
(* row, and any metrics; evaluate() asks for the row and computes the gate *)
(* itself, so every run it records is one of these.  `beat` is             *)
(* metrics.get("baseline_gate", 0.0) >= 1.0.  A run is stamped             *)
(* (started_at) when the object is built and stored in a later             *)
(* transaction, always COMPLETED.                                          *)

StartEvaluation(c, v, beat) ==
  /\ pc[c] = "idle"
  /\ started < MaxRuns
  /\ started' = started + 1
  /\ Goto(c, "saveRun", [Idle EXCEPT !.version = v, !.beat = beat,
                                     !.run = started + 1])
  /\ UNCHANGED <<versionRow, request, runs, decisions, audit, crashes>>

SaveRun(c) ==
  /\ pc[c] = "saveRun"
  /\ runs' = runs \cup {[stamp |-> call[c].run, version |-> call[c].version,
                         beat |-> call[c].beat]}
  /\ Goto(c, "auditRun", call[c])
  /\ UNCHANGED <<versionRow, request, started, decisions, audit, crashes>>

AuditRun(c) ==
  /\ pc[c] = "auditRun"
  /\ audit' = audit \cup {[action |-> "strategy.evaluation.completed",
                           run |-> call[c].run]}
  /\ Return(c)
  /\ UNCHANGED <<versionRow, request, runs, started, decisions, crashes>>

-----------------------------------------------------------------------------
(* transition(): the single entry point for a state change.  reject,       *)
(* suspend, start_shadow and the drift monitor's auto-suspend are calls of *)
(* it with fixed arguments.                                                *)

(* list_for_version orders by started_at, newest first. *)
RunsOf(v) == {r \in runs : r.version = v}
IsLatest(r) == r \in runs /\ \A q \in RunsOf(r.version) : q.stamp <= r.stamp

(* The call's arguments against the row just read: allowed edge, the gate  *)
(* signal for CANARY, a non-blank approval for PRODUCTION.                 *)
PolicyPermits(seen, to, approvalArg, gatePassed) ==
  /\ to \in Allowed(seen)
  /\ to \in RequiresGate => gatePassed
  /\ to \in RequiresApproval => approvalArg \in ApprovalIds

(* An approval id given for another target is only copied to the decision; *)
(* no property reads it, so those calls pass None.                         *)
ApprovalArguments(to) ==
  IF to \in RequiresApproval THEN ApprovalIds \cup {None} ELSE {None}

LoadVersion(c, v, to, approvalArg, gatePassed, actorType) ==
  /\ pc[c] = "idle"
  /\ state[v] # Absent
  /\ PolicyPermits(state[v], to, approvalArg, gatePassed)
  /\ Goto(c, "readRuns", [Idle EXCEPT !.version = v, !.seen = state[v], !.to = to,
                          !.approval = approvalArg, !.actorType = actorType])
  /\ UNCHANGED <<versionRow, request, runs, started, decisions, audit, crashes>>

(* rollback(): pick the PRODUCTION row get_production returns (LIMIT 1,    *)
(* any of them), then retire it through transition().                      *)
Rollback(c) ==
  /\ pc[c] = "idle"
  /\ \E v \in Versions :
       /\ state[v] = "PRODUCTION"
       /\ Goto(c, "rollback", [Idle EXCEPT !.version = v, !.to = "RETIRED",
                               !.actorType = "service"])
  /\ UNCHANGED <<versionRow, request, runs, started, decisions, audit, crashes>>

RollbackLoad(c) ==
  LET v == call[c].version
  IN  /\ pc[c] = "rollback"
      /\ IF "RETIRED" \in Allowed(state[v])
           THEN Goto(c, "readRuns", [call[c] EXCEPT !.seen = state[v]])
           ELSE Return(c)
      /\ UNCHANGED <<versionRow, request, runs, started, decisions, audit, crashes>>

\* Mutant of EvidenceFor: the baseline gate is forgotten.
EvidenceFor_NoBaseline(v, to) == to \in RequiresEval => RunsOf(v) # {}

(* Evidence: a COMPLETED run of this version, and for SHADOW one whose     *)
(* newest member beat the baselines.                                       *)
EvidenceFor(v, to) ==
  /\ to \in RequiresEval => RunsOf(v) # {}
  /\ to = "SHADOW" => \E r \in RunsOf(v) : IsLatest(r) /\ r.beat

\* Mutant of ReadRuns: the decision cites any run, not the newest.
ReadRuns_AnyRun(c) ==
  LET v == call[c].version
  IN  /\ pc[c] = "readRuns"
      /\ EvidenceFor(v, call[c].to)
      /\ \/ RunsOf(v) = {} /\ Goto(c, "swap", call[c])
         \/ \E r \in RunsOf(v) : Goto(c, "swap", [call[c] EXCEPT !.run = r.stamp])
      /\ UNCHANGED <<versionRow, request, runs, started, decisions, audit, crashes>>

ReadRuns(c) ==
  LET v == call[c].version
  IN  /\ pc[c] = "readRuns"
      /\ EvidenceFor(v, call[c].to)
      /\ \/ /\ RunsOf(v) = {}
            /\ Goto(c, "swap", call[c])
         \/ \E r \in RunsOf(v) :
              /\ IsLatest(r)
              /\ Goto(c, "swap", [call[c] EXCEPT !.run = r.stamp])
      /\ UNCHANGED <<versionRow, request, runs, started, decisions, audit, crashes>>

Refuse(c) ==
  /\ pc[c] = "readRuns"
  /\ ~EvidenceFor(call[c].version, call[c].to)
  /\ Return(c)
  /\ UNCHANGED <<versionRow, request, runs, started, decisions, audit, crashes>>

\* Mutant of CompareAndSet: the UPDATE does not test the state.
CompareAndSet_Unguarded(c) ==
  LET v == call[c].version
  IN  /\ pc[c] = "swap"
      /\ state' = [state EXCEPT ![v] = call[c].to]
      /\ approval' = [approval EXCEPT ![v] = call[c].approval]
      /\ Goto(c, "decide", call[c])
      /\ UNCHANGED <<parent, params, request, runs, started, decisions, audit, crashes>>

(* compare_and_set_state: one UPDATE guarded by the state read earlier; it *)
(* also writes approval_id (and approved_by), NULL unless `to` is          *)
(* PRODUCTION.                                                             *)
CompareAndSet(c) ==
  LET v == call[c].version
      promoted == call[c].to = "PRODUCTION"
  IN  /\ pc[c] = "swap"
      /\ state[v] = call[c].seen
      /\ state' = [state EXCEPT ![v] = call[c].to]
      /\ approval' = [approval EXCEPT ![v] =
                        IF promoted THEN call[c].approval ELSE None]
      /\ Goto(c, "decide", call[c])
      /\ UNCHANGED <<parent, params, request, runs, started, decisions, audit, crashes>>

(* The row moved on since it was read: IllegalTransitionError. *)
SwapLost(c) ==
  /\ pc[c] = "swap"
  /\ state[call[c].version] # call[c].seen
  /\ Return(c)
  /\ UNCHANGED <<versionRow, request, runs, started, decisions, audit, crashes>>

DecisionOf(c) ==
  [version |-> call[c].version, from |-> call[c].seen, to |-> call[c].to,
   outcome |-> Outcome(call[c].to), run |-> call[c].run,
   approval |-> call[c].approval]

\* Mutant of SaveDecision: only approvals are recorded.
SaveDecision_ApprovedOnly(c) ==
  /\ pc[c] = "decide"
  /\ decisions' = decisions \cup
       (IF Outcome(call[c].to) = "APPROVED" THEN {DecisionOf(c)} ELSE {})
  /\ Goto(c, "auditDecision", call[c])
  /\ UNCHANGED <<versionRow, request, runs, started, audit, crashes>>

SaveDecision(c) ==
  /\ pc[c] = "decide"
  /\ decisions' = decisions \cup {DecisionOf(c)}
  /\ Goto(c, "auditDecision", call[c])
  /\ UNCHANGED <<versionRow, request, runs, started, audit, crashes>>

AuditDecision(c) ==
  /\ pc[c] = "auditDecision"
  /\ audit' = audit \cup
       {[action |-> IF Outcome(call[c].to) = "APPROVED"
                      THEN "strategy.promotion.approved"
                      ELSE "strategy.promotion.rejected",
         decision |-> DecisionOf(c), actorType |-> call[c].actorType]}
  /\ Return(c)
  /\ UNCHANGED <<versionRow, request, runs, started, decisions, crashes>>

-----------------------------------------------------------------------------
(* A caller's process dies, or a statement raises, between two             *)
(* transactions: what it committed stays, the rest of the call is lost.    *)
Crash(c) ==
  /\ pc[c] # "idle"
  /\ crashes < MaxCrashes
  /\ crashes' = crashes + 1
  /\ Return(c)
  /\ UNCHANGED <<versionRow, request, runs, started, decisions, audit>>

(* A caller begins a call ... *)
Begin(c) ==
  \/ \E r \in Requests, par \in Versions \cup {None}, prm \in Params :
       ProposeChange(c, r, par, prm)
  \/ \E r \in Requests, label \in Versions, firstArgs \in BOOLEAN :
       LoadRequest(c, r, label, firstArgs)
  \/ \E r \in Requests : RejectRequest(c, r)
  \/ \E v \in Versions, beat \in BOOLEAN : StartEvaluation(c, v, beat)
  \/ \E v \in Versions, to \in StrategyState, gatePassed \in BOOLEAN,
        actorType \in ActorTypes :
       \E approvalArg \in ApprovalArguments(to) :
         LoadVersion(c, v, to, approvalArg, gatePassed, actorType)
  \/ Rollback(c)

(* ... and runs it on. *)
Continue(c) ==
  \/ AuditProposed(c)
  \/ SaveVersion(c) \/ MarkValidated(c) \/ AuditValidated(c) \/ AuditRejected(c)
  \/ SaveRun(c) \/ AuditRun(c)
  \/ RollbackLoad(c) \/ ReadRuns(c) \/ Refuse(c)
  \/ CompareAndSet(c) \/ SwapLost(c) \/ SaveDecision(c) \/ AuditDecision(c)

Next == \E c \in Callers : Begin(c) \/ Continue(c) \/ Crash(c)

Spec == Init /\ [][Next]_vars

(* A Python call that has begun runs on: nothing in it waits. *)
Fairness == \A c \in Callers : WF_vars(Continue(c))

FairSpec == Spec /\ Fairness

-----------------------------------------------------------------------------
(* Types.                                                                  *)

StateOrAbsent == StrategyState \cup {Absent}

Labels == {"idle", "auditProposed", "saveVersion", "markValidated",
           "auditValidated", "auditRejected", "saveRun", "auditRun",
           "rollback", "readRuns", "swap", "decide", "auditDecision"}

Locals ==
  [version : Versions \cup {None}, seen : StateOrAbsent, to : StateOrAbsent,
   approval : ApprovalIds \cup {None}, actorType : ActorTypes \cup {"service", None},
   run : 0..MaxRuns, beat : BOOLEAN, request : Requests \cup {None},
   parent : Versions \cup {None}, params : Params \cup {None}]

RequestRows ==
  [status : {"NONE", "PROPOSED", "VALIDATED", "REJECTED"},
   parent : Versions \cup {None}, params : Params \cup {None},
   derived : Versions \cup {None}]

RunRows == [stamp : 1..MaxRuns, version : Versions, beat : BOOLEAN]

DecisionRows ==
  [version : Versions, from : StateOrAbsent, to : StateOrAbsent,
   outcome : {"APPROVED", "REJECTED"}, run : 0..MaxRuns,
   approval : ApprovalIds \cup {None}]

(* Type invariant: every table and every caller's locals keep their shape, *)
(* and the bounds MaxRuns and MaxCrashes are kept.                         *)
TypeOK ==
  /\ state \in [Versions -> StateOrAbsent]
  /\ parent \in [Versions -> Versions \cup {None}]
  /\ params \in [Versions -> Params \cup {None}]
  /\ approval \in [Versions -> ApprovalIds \cup {None}]
  /\ request \in [Requests -> RequestRows]
  /\ runs \subseteq RunRows
  /\ started \in 0..MaxRuns
  /\ decisions \subseteq DecisionRows
  /\ pc \in [Callers -> Labels]
  /\ call \in [Callers -> Locals]
  /\ crashes \in 0..MaxCrashes

-----------------------------------------------------------------------------
(* Safety of the lifecycle.                                                *)

(* The caller has changed the row and has not yet recorded why. *)
Moving(c) == pc[c] = "decide"

SameMove(x, y) == x.version = y.version /\ x.from = y.from

(* No lost update: a state of a version is left at most once.  Two calls   *)
(* that both read the row in that state (repositories.py: "concurrent      *)
(* promotions lose loudly") never both get through compare_and_set_state.  *)
OneMovePerState ==
  \A c \in Callers : Moving(c) =>
    /\ \A x \in decisions : ~SameMove(DecisionOf(c), x)
    /\ \A d \in Callers \ {c} :
         Moving(d) => ~SameMove(DecisionOf(c), DecisionOf(d))

(* Every version past the backtest has a completed run of its own on       *)
(* record, and every version that went live has one that beat the          *)
(* baselines, although the runs are read in one transaction and the state  *)
(* is changed in another.                                                  *)
EvidenceOnRecord ==
  \A v \in Versions :
    /\ state[v] \notin {Absent, "DRAFT", "VALIDATED", "REJECTED"} => RunsOf(v) # {}
    /\ state[v] \in {"SHADOW", "CANARY", "PRODUCTION", "SUSPENDED", "RETIRED"} =>
         \E r \in RunsOf(v) : r.beat

(* The run a decision names is the evidence for it: a stored run of the    *)
(* same version, and for SHADOW one that beat the baselines.               *)
DecisionNamesItsEvidence ==
  \A d \in decisions : d.to \in RequiresEval =>
    \E r \in RunsOf(d.version) : r.stamp = d.run /\ (d.to = "SHADOW" => r.beat)

(* The approval column is set on exactly the versions that are live in     *)
(* PRODUCTION: nobody gets there without a human approval id, and leaving  *)
(* clears it.                                                              *)
ApprovedIffProduction ==
  \A v \in Versions : state[v] = "PRODUCTION" <=> approval[v] \in ApprovalIds

DecisionsOn(v) == {d \in decisions : d.version = v}
Promotions == {e \in audit : e.action \in {"strategy.promotion.approved",
                                         "strategy.promotion.rejected"}}

(* "Every state change is mirrored as a promotion_decision row for audit"  *)
(* (migration 0012): when no call is in progress, and none was lost, the   *)
(* decisions of a version are the whole path from DRAFT to its present     *)
(* state, and each has its audit event.                                    *)
HistoryExplainsState ==
  crashes = 0 /\ (\A c \in Callers : pc[c] = "idle") =>
    /\ \A v \in Versions : state[v] \notin {Absent, "DRAFT"} =>
         LET reached == {d.to : d \in DecisionsOn(v)}
         IN  /\ state[v] \in reached
             /\ \A d \in DecisionsOn(v) : d.from \in reached \cup {"DRAFT"}
    /\ decisions = {e.decision : e \in Promotions}

Unrecorded(v) ==
  state[v] \notin {Absent, "DRAFT"} /\ \A d \in DecisionsOn(v) : d.to # state[v]

(* The same promise as liveness: a version does not stay in a state no     *)
(* decision leads to, unless a caller was lost.                            *)
EveryMoveIsRecorded ==
  \A v \in Versions : Unrecorded(v) ~> (~Unrecorded(v) \/ crashes > 0)

-----------------------------------------------------------------------------
(* Safety of derivation.                                                   *)

(* A request is VALIDATED only once a version row stands behind it.        *)
ValidatedHasVersion ==
  \A r \in Requests : request[r].status = "VALIDATED" =>
    request[r].derived \in Versions /\ state[request[r].derived] # Absent

(* No version is its own ancestor, even when a request names its own label *)
(* as parent or two requests are derived under each other's labels: every  *)
(* set of versions has a member whose parent is outside it.                *)
LineageAcyclic ==
  \A S \in (SUBSET Versions) \ {{}} : \E v \in S : parent[v] \notin S

(* Parameters outside the whitelist never reach a version row.             *)
OnlyValidParams ==
  \A v \in Versions : state[v] # Absent => params[v] \in ValidParams

(* "Derived, never edited" (domain.py): once inserted, a version keeps its *)
(* parent and its parameters, whatever is derived under its label later.   *)
VersionsImmutable ==
  [][\A v \in Versions : state[v] # Absent =>
       /\ parent'[v] = parent[v] /\ params'[v] = params[v]
       /\ state'[v] # Absent]_vars

-----------------------------------------------------------------------------
(* What the repository says and the code does not keep.                    *)

(* domain.py: VALIDATED means "params passed schema, version derived": the *)
(* derived version is the one this request proposed.                       *)
ValidatedMeansDerived ==
  \A r \in Requests : request[r].status = "VALIDATED" =>
    params[request[r].derived] = request[r].params

-----------------------------------------------------------------------------
(* Refinement of the abstract lifecycle: a version's stage is its row's    *)
(* state, the evidence is the stored runs.                                 *)

Lifecycle == INSTANCE StrategyLifecycle WITH
  stage     <- state,
  evaluated <- {r.version : r \in runs},
  beat      <- {r.version : r \in {q \in runs : q.beat}}

(* Every governance behaviour, with races and lost callers, is a behaviour *)
(* of the abstract lifecycle.                                              *)
ImplementsLifecycle == Lifecycle!Spec
=============================================================================
