----------------------- MODULE StrategyGovernanceProofs -----------------------
(***************************************************************************)
(* Proofs about StrategyGovernance, for every set of callers, versions,    *)
(* requests and approvals and any number of evaluation runs and crashes.   *)
(*                                                                         *)
(* Each caller's locals carry facts established by an earlier transaction  *)
(* (which version it works on, that the edge is allowed, that the evidence *)
(* was there).  The invariants below say which of those facts still hold   *)
(* when the later transaction commits.                                     *)
(***************************************************************************)
EXTENDS StrategyGovernance, TLAPS

(* Where a caller stands in a call of transition().                        *)
InTransition == {"readRuns", "swap", "decide", "auditDecision"}

(* The arguments a caller at this label still needs are in its locals.     *)
LocalsFit(label, l) ==
  /\ label \in {"saveVersion", "markValidated", "auditValidated", "saveRun",
               "auditRun", "rollback"} \cup InTransition => l.version \in Versions
  /\ label \in {"auditProposed", "saveVersion", "markValidated",
               "auditValidated", "auditRejected"} => l.request \in Requests
  /\ label = "saveRun" => l.run \in 1..MaxRuns
  /\ label = "rollback" => l.to = "RETIRED"

LocalsOK == \A c \in Callers : LocalsFit(pc[c], call[c])

TypeInv == TypeOK /\ LocalsOK

LEMMA InitTypeInv == Init => TypeInv
BY ConstantsAssumption
DEF Init, TypeInv, TypeOK, LocalsOK, LocalsFit, Idle, NoRequest, Locals, RequestRows, Labels,
    StateOrAbsent, Absent, InTransition

LEMMA IdleType == Idle \in Locals
BY ConstantsAssumption DEF Idle, Locals, StateOrAbsent, Absent

(* Moving a caller on keeps the types when its new locals have them.       *)
LEMMA GotoTypes ==
  ASSUME TypeInv, NEW c \in Callers, NEW label \in Labels, NEW locals \in Locals,
         LocalsFit(label, locals), Goto(c, label, locals)
  PROVE  pc' \in [Callers -> Labels] /\ call' \in [Callers -> Locals] /\ LocalsOK'
BY DEF TypeInv, TypeOK, LocalsOK, LocalsFit, Goto

LEMMA ReturnTypes ==
  ASSUME TypeInv, NEW c \in Callers, Return(c)
  PROVE  pc' \in [Callers -> Labels] /\ call' \in [Callers -> Locals] /\ LocalsOK'
<1>1. "idle" \in Labels /\ LocalsFit("idle", Idle)
  BY DEF Labels, LocalsFit, InTransition
<1>2. QED
  BY <1>1, GotoTypes, IdleType DEF Return

(* Every step keeps the types: one step per transaction of the service.    *)
LEMMA NextTypeInv == TypeInv /\ [Next]_vars => TypeInv'
<1> SUFFICES ASSUME TypeInv, [Next]_vars PROVE TypeInv'
  OBVIOUS
<1> USE DEF TypeInv
<1>1. CASE UNCHANGED vars
  BY <1>1 DEF vars, versionRow, callVars, TypeOK, LocalsOK, LocalsFit
<1>2. ASSUME NEW c \in Callers, Begin(c) PROVE TypeInv'
  <2>1. ASSUME NEW r \in Requests, NEW par \in Versions \cup {None}, NEW prm \in Params,
               ProposeChange(c, r, par, prm)
        PROVE  TypeInv'
    <3> DEFINE locals == [Idle EXCEPT !.request = r]
    <3>1. locals \in Locals /\ LocalsFit("auditProposed", locals) /\ "auditProposed" \in Labels
      BY IdleType DEF Locals, LocalsFit, InTransition, Labels, Idle
    <3>2. pc' \in [Callers -> Labels] /\ call' \in [Callers -> Locals] /\ LocalsOK'
      BY <2>1, <3>1, GotoTypes DEF ProposeChange
    <3>3. request' \in [Requests -> RequestRows]
      BY <2>1 DEF ProposeChange, TypeOK, RequestRows
    <3>4. QED
      BY <2>1, <3>2, <3>3 DEF ProposeChange, TypeOK, versionRow
  <2>2. ASSUME NEW r \in Requests, NEW label \in Versions, NEW firstArgs \in BOOLEAN,
               LoadRequest(c, r, label, firstArgs)
        PROVE  TypeInv'
    <3> DEFINE named  == request[r].parent
               found  == IF named # None /\ state[named] # Absent THEN named ELSE None
               locals == [Idle EXCEPT !.request = r, !.version = label,
                                      !.parent = found, !.params = request[r].params]
    <3>1. found \in Versions \cup {None} /\ request[r].params \in Params \cup {None}
      BY DEF TypeOK, RequestRows
    <3>2. locals \in Locals /\ LocalsFit("saveVersion", locals) /\ "saveVersion" \in Labels
      BY <3>1, IdleType, ZenonT(60) DEF Locals, LocalsFit, InTransition, Labels, Idle
    <3>3. Goto(c, "saveVersion", locals)
      BY <2>2 DEF LoadRequest
    <3>4. pc' \in [Callers -> Labels] /\ call' \in [Callers -> Locals] /\ LocalsOK'
      BY <3>2, <3>3, GotoTypes
    <3>5. QED
      BY <2>2, <3>4 DEF LoadRequest, TypeOK, versionRow
  <2>3. ASSUME NEW r \in Requests, RejectRequest(c, r) PROVE TypeInv'
    <3> DEFINE locals == [Idle EXCEPT !.request = r]
    <3>1. locals \in Locals /\ LocalsFit("auditRejected", locals) /\ "auditRejected" \in Labels
      BY IdleType DEF Locals, LocalsFit, InTransition, Labels, Idle
    <3>2. pc' \in [Callers -> Labels] /\ call' \in [Callers -> Locals] /\ LocalsOK'
      BY <2>3, <3>1, GotoTypes DEF RejectRequest
    <3>3. request' \in [Requests -> RequestRows]
      BY <2>3 DEF RejectRequest, TypeOK, RequestRows
    <3>4. QED
      BY <2>3, <3>2, <3>3 DEF RejectRequest, TypeOK, versionRow
  <2>4. ASSUME NEW v \in Versions, NEW beat \in BOOLEAN, StartEvaluation(c, v, beat)
        PROVE  TypeInv'
    <3> DEFINE locals == [Idle EXCEPT !.version = v, !.beat = beat, !.run = started + 1]
    <3>1. started + 1 \in 1..MaxRuns /\ started + 1 \in 0..MaxRuns
      BY <2>4, ConstantsAssumption DEF StartEvaluation, TypeOK
    <3>2. locals \in Locals /\ LocalsFit("saveRun", locals) /\ "saveRun" \in Labels
      <4> DEFINE n == started + 1
      <4>1. n \in 1..MaxRuns /\ n \in 0..MaxRuns
        BY <3>1
      <4> HIDE DEF n
      <4>2. QED
        BY <4>1, IdleType DEF Locals, LocalsFit, InTransition, Labels, Idle, n
    <3>3. pc' \in [Callers -> Labels] /\ call' \in [Callers -> Locals] /\ LocalsOK'
      BY <2>4, <3>2, GotoTypes DEF StartEvaluation
    <3>4. QED
      BY <2>4, <3>1, <3>3 DEF StartEvaluation, TypeOK, versionRow
  <2>5. ASSUME NEW v \in Versions, NEW to \in StrategyState, NEW gatePassed \in BOOLEAN,
               NEW actorType \in ActorTypes, NEW approvalArg \in ApprovalArguments(to),
               LoadVersion(c, v, to, approvalArg, gatePassed, actorType)
        PROVE  TypeInv'
    <3> DEFINE locals == [Idle EXCEPT !.version = v, !.seen = state[v], !.to = to,
                                      !.approval = approvalArg, !.actorType = actorType]
    <3>1. /\ state[v] \in StateOrAbsent /\ to \in StateOrAbsent
          /\ approvalArg \in ApprovalIds \cup {None}
      BY DEF TypeOK, StateOrAbsent, ApprovalArguments
    <3>2. locals \in Locals /\ LocalsFit("readRuns", locals) /\ "readRuns" \in Labels
      BY <3>1, IdleType DEF Locals, LocalsFit, InTransition, Labels, Idle
    <3>3. Goto(c, "readRuns", locals)
      BY <2>5 DEF LoadVersion
    <3>4. pc' \in [Callers -> Labels] /\ call' \in [Callers -> Locals] /\ LocalsOK'
      BY <3>2, <3>3, GotoTypes
    <3>5. QED
      BY <2>5, <3>4 DEF LoadVersion, TypeOK, versionRow
  <2>6. CASE Rollback(c)
    <3>1. PICK v \in Versions : Goto(c, "rollback", [Idle EXCEPT !.version = v,
                                  !.to = "RETIRED", !.actorType = "service"])
      BY <2>6 DEF Rollback
    <3> DEFINE locals == [Idle EXCEPT !.version = v, !.to = "RETIRED",
                                      !.actorType = "service"]
    <3>2. locals \in Locals /\ LocalsFit("rollback", locals) /\ "rollback" \in Labels
      BY IdleType DEF Locals, LocalsFit, InTransition, Labels, Idle, StateOrAbsent, StrategyState
    <3>3. pc' \in [Callers -> Labels] /\ call' \in [Callers -> Locals] /\ LocalsOK'
      BY <3>1, <3>2, GotoTypes
    <3>4. QED
      BY <2>6, <3>3 DEF Rollback, TypeOK, versionRow
  <2>7. QED
    BY <1>2, <2>1, <2>2, <2>3, <2>4, <2>5, <2>6 DEF Begin
<1>3. ASSUME NEW c \in Callers, Continue(c) PROVE TypeInv'
  <2> call[c] \in Locals /\ pc[c] \in Labels /\ LocalsFit(pc[c], call[c])
    BY DEF TypeOK, LocalsOK
  <2>1. CASE AuditProposed(c) \/ AuditValidated(c) \/ AuditRejected(c) \/ AuditRun(c)
             \/ AuditDecision(c)
    BY <2>1, ReturnTypes
    DEF AuditProposed, AuditValidated, AuditRejected, AuditRun, AuditDecision, TypeOK,
        versionRow
  <2>2. CASE SaveVersion(c)
    <3>1. LocalsFit("markValidated", call[c]) /\ "markValidated" \in Labels
      BY <2>2 DEF SaveVersion, LocalsFit, Labels, InTransition
    <3>2. pc' \in [Callers -> Labels] /\ call' \in [Callers -> Locals] /\ LocalsOK'
      BY <2>2, <3>1, GotoTypes DEF SaveVersion
    <3>3. /\ state' \in [Versions -> StateOrAbsent]
          /\ parent' \in [Versions -> Versions \cup {None}]
          /\ params' \in [Versions -> Params \cup {None}]
      BY <2>2 DEF SaveVersion, TypeOK, Locals, StateOrAbsent, StrategyState
    <3>4. QED
      BY <2>2, <3>2, <3>3 DEF SaveVersion, TypeOK
  <2>3. CASE MarkValidated(c)
    <3>1. LocalsFit("auditValidated", call[c]) /\ "auditValidated" \in Labels
      BY <2>3 DEF MarkValidated, LocalsFit, Labels, InTransition
    <3>2. pc' \in [Callers -> Labels] /\ call' \in [Callers -> Locals] /\ LocalsOK'
      BY <2>3, <3>1, GotoTypes DEF MarkValidated
    <3>3. call[c].request \in Requests /\ call[c].version \in Versions
      BY <2>3 DEF MarkValidated, LocalsFit
    <3>4. request' \in [Requests -> RequestRows]
      BY <2>3, <3>3 DEF MarkValidated, TypeOK, RequestRows
    <3>5. QED
      BY <2>3, <3>2, <3>4 DEF MarkValidated, TypeOK, versionRow
  <2>4. CASE SaveRun(c)
    <3>1. LocalsFit("auditRun", call[c]) /\ "auditRun" \in Labels
      BY <2>4 DEF SaveRun, LocalsFit, Labels, InTransition
    <3>2. pc' \in [Callers -> Labels] /\ call' \in [Callers -> Locals] /\ LocalsOK'
      BY <2>4, <3>1, GotoTypes DEF SaveRun
    <3>3. runs' \subseteq RunRows
      BY <2>4 DEF SaveRun, TypeOK, RunRows, Locals, LocalsFit
    <3>4. QED
      BY <2>4, <3>2, <3>3 DEF SaveRun, TypeOK, versionRow
  <2>5. CASE RollbackLoad(c)
    <3> DEFINE v == call[c].version
               locals == [call[c] EXCEPT !.seen = state[v]]
    <3>1. pc[c] = "rollback" /\ v \in Versions /\ state[v] \in StateOrAbsent
      BY <2>5 DEF RollbackLoad, LocalsFit, TypeOK
    <3>2. locals \in Locals /\ LocalsFit("readRuns", locals) /\ "readRuns" \in Labels
      BY <3>1 DEF Locals, LocalsFit, InTransition, Labels
    <3>3. Goto(c, "readRuns", locals) \/ Return(c)
      BY <2>5 DEF RollbackLoad
    <3>4. pc' \in [Callers -> Labels] /\ call' \in [Callers -> Locals] /\ LocalsOK'
      BY <3>2, <3>3, GotoTypes, ReturnTypes
    <3>5. QED
      BY <2>5, <3>4 DEF RollbackLoad, TypeOK, versionRow
  <2>6. CASE ReadRuns(c)
    <3>1. pc[c] = "readRuns" /\ "swap" \in Labels
      BY <2>6 DEF ReadRuns, Labels
    <3>2. CASE Goto(c, "swap", call[c])
      <4>1. LocalsFit("swap", call[c])
        BY <3>1 DEF LocalsFit, InTransition
      <4>2. pc' \in [Callers -> Labels] /\ call' \in [Callers -> Locals] /\ LocalsOK'
        BY <3>1, <3>2, <4>1, GotoTypes
      <4>3. QED
        BY <2>6, <4>2 DEF ReadRuns, TypeOK, versionRow
    <3>3. ASSUME NEW r \in runs, Goto(c, "swap", [call[c] EXCEPT !.run = r.stamp])
          PROVE  TypeInv'
      <4> DEFINE locals == [call[c] EXCEPT !.run = r.stamp]
      <4>1. r.stamp \in 0..MaxRuns
        BY <3>3, ConstantsAssumption DEF TypeOK, RunRows
      <4>2. locals \in Locals /\ LocalsFit("swap", locals)
        BY <3>1, <4>1 DEF Locals, LocalsFit, InTransition
      <4>3. pc' \in [Callers -> Labels] /\ call' \in [Callers -> Locals] /\ LocalsOK'
        BY <3>1, <3>3, <4>2, GotoTypes
      <4>4. QED
        BY <2>6, <4>3 DEF ReadRuns, TypeOK, versionRow
    <3>4. QED
      BY <2>6, <3>2, <3>3 DEF ReadRuns, RunsOf
  <2>7. CASE Refuse(c) \/ SwapLost(c)
    BY <2>7, ReturnTypes DEF Refuse, SwapLost, TypeOK, versionRow
  <2>8. CASE CompareAndSet(c)
    <3>1. LocalsFit("decide", call[c]) /\ "decide" \in Labels
      BY <2>8 DEF CompareAndSet, LocalsFit, Labels, InTransition
    <3>2. pc' \in [Callers -> Labels] /\ call' \in [Callers -> Locals] /\ LocalsOK'
      BY <2>8, <3>1, GotoTypes DEF CompareAndSet
    <3>3. /\ state' \in [Versions -> StateOrAbsent]
          /\ approval' \in [Versions -> ApprovalIds \cup {None}]
      BY <2>8 DEF CompareAndSet, TypeOK, Locals
    <3>4. QED
      BY <2>8, <3>2, <3>3 DEF CompareAndSet, TypeOK
  <2>9. CASE SaveDecision(c)
    <3>1. LocalsFit("auditDecision", call[c]) /\ "auditDecision" \in Labels
      BY <2>9 DEF SaveDecision, LocalsFit, Labels, InTransition
    <3>2. pc' \in [Callers -> Labels] /\ call' \in [Callers -> Locals] /\ LocalsOK'
      BY <2>9, <3>1, GotoTypes DEF SaveDecision
    <3>3. DecisionOf(c) \in DecisionRows
      BY <2>9 DEF SaveDecision, DecisionOf, DecisionRows, Outcome, Locals, LocalsFit,
                  InTransition
    <3>4. QED
      BY <2>9, <3>2, <3>3 DEF SaveDecision, TypeOK, versionRow
  <2>10. QED
    BY <1>3, <2>1, <2>2, <2>3, <2>4, <2>5, <2>6, <2>7, <2>8, <2>9 DEF Continue
<1>4. ASSUME NEW c \in Callers, Crash(c) PROVE TypeInv'
  BY <1>4, ReturnTypes, ConstantsAssumption DEF Crash, TypeOK, versionRow
<1>5. QED
  BY <1>1, <1>2, <1>3, <1>4 DEF Next

(* The type invariant holds in every reachable state.                      *)
THEOREM TypeCorrect == Spec => []TypeOK
<1>1. Spec => []TypeInv
  BY InitTypeInv, NextTypeInv, PTL DEF Spec
<1>2. TypeInv => TypeOK
  BY DEF TypeInv
<1>3. QED
  BY <1>1, <1>2, PTL

-----------------------------------------------------------------------------
(* What a caller's step can do.  The safety proofs below all split on this  *)
(* rather than on the actions.                                              *)

Step(c) == Begin(c) \/ Continue(c) \/ Crash(c)

(* The tables: which transaction writes which.                              *)
LEMMA TableSteps ==
  ASSUME NEW c \in Callers, Step(c)
  PROVE  /\ state' = state \/ SaveVersion(c) \/ CompareAndSet(c)
         /\ approval' = approval \/ CompareAndSet(c)
         /\ decisions' = decisions \/ SaveDecision(c)
         /\ runs' = runs \/ SaveRun(c)
         /\ runs \subseteq runs'
         /\ (parent' = parent /\ params' = params) \/ SaveVersion(c)
BY DEF Step, Begin, Continue, Crash, versionRow, ProposeChange, LoadRequest, RejectRequest,
       StartEvaluation, LoadVersion, Rollback, AuditProposed, SaveVersion, MarkValidated,
       AuditValidated, AuditRejected, SaveRun, AuditRun, RollbackLoad, ReadRuns, Refuse,
       CompareAndSet, SwapLost, SaveDecision, AuditDecision

(* A caller stands in a call of transition() only if it has just begun one  *)
(* that the policy permits, or has carried one on.                          *)
Entered(c) ==
  /\ pc'[c] = "readRuns"
  /\ call'[c].to \in Allowed(call'[c].seen)
  /\ call'[c].to = "PRODUCTION" => call'[c].approval \in ApprovalIds

LEMMA CallerSteps ==
  ASSUME TypeInv, NEW c \in Callers, Step(c)
  PROVE  /\ \A d \in Callers \ {c} : pc'[d] = pc[d] /\ call'[d] = call[d]
         /\ \/ pc'[c] \notin InTransition
            \/ Entered(c)
            \/ ReadRuns(c) \/ CompareAndSet(c) \/ SaveDecision(c)
<1> USE DEF Goto, Return
<1> /\ pc \in [Callers -> Labels] /\ call \in [Callers -> Locals]
    /\ LocalsFit(pc[c], call[c])
  BY DEF TypeInv, TypeOK, LocalsOK
<1>1. \A d \in Callers \ {c} : pc'[d] = pc[d] /\ call'[d] = call[d]
  BY DEF Step, Begin, Continue, Crash, ProposeChange, LoadRequest, RejectRequest,
         StartEvaluation, LoadVersion, Rollback, AuditProposed, SaveVersion, MarkValidated,
         AuditValidated, AuditRejected, SaveRun, AuditRun, RollbackLoad, ReadRuns, Refuse,
         CompareAndSet, SwapLost, SaveDecision, AuditDecision
<1>2. ASSUME NEW v \in Versions, NEW to \in StrategyState, NEW gatePassed \in BOOLEAN,
             NEW actorType \in ActorTypes, NEW approvalArg \in ApprovalArguments(to),
             LoadVersion(c, v, to, approvalArg, gatePassed, actorType)
      PROVE  Entered(c)
  <2>1. /\ pc'[c] = "readRuns" /\ call'[c].to = to /\ call'[c].seen = state[v]
        /\ call'[c].approval = approvalArg
    BY <1>2 DEF LoadVersion, Idle, Locals
  <2>2. to \in Allowed(state[v]) /\ (to = "PRODUCTION" => approvalArg \in ApprovalIds)
    BY <1>2 DEF LoadVersion, PolicyPermits, RequiresApproval
  <2>3. QED
    BY <2>1, <2>2 DEF Entered
<1>3. CASE RollbackLoad(c)
  <2>1. call[c].to = "RETIRED"
    BY <1>3 DEF RollbackLoad, LocalsFit
  <2>2. CASE "RETIRED" \in Allowed(state[call[c].version])
    BY <1>3, <2>1, <2>2 DEF RollbackLoad, Entered, Locals
  <2>3. CASE ~("RETIRED" \in Allowed(state[call[c].version]))
    BY <1>3, <2>3 DEF RollbackLoad, InTransition
  <2>4. QED
    BY <2>2, <2>3
<1>4. CASE \/ \E r \in Requests, par \in Versions \cup {None}, prm \in Params :
                ProposeChange(c, r, par, prm)
           \/ \E r \in Requests, label \in Versions, firstArgs \in BOOLEAN :
                LoadRequest(c, r, label, firstArgs)
           \/ \E r \in Requests : RejectRequest(c, r)
           \/ \E v \in Versions, beat \in BOOLEAN : StartEvaluation(c, v, beat)
           \/ Rollback(c) \/ Crash(c)
  BY <1>1, <1>4 DEF ProposeChange, LoadRequest, RejectRequest, StartEvaluation, Rollback,
                    Crash, InTransition
<1>5. CASE \/ AuditProposed(c) \/ SaveVersion(c) \/ MarkValidated(c) \/ AuditValidated(c)
           \/ AuditRejected(c) \/ SaveRun(c) \/ AuditRun(c) \/ Refuse(c) \/ SwapLost(c)
           \/ AuditDecision(c)
  BY <1>1, <1>5 DEF AuditProposed, SaveVersion, MarkValidated, AuditValidated, AuditRejected,
                    SaveRun, AuditRun, Refuse, SwapLost, AuditDecision, InTransition
<1>6. QED
  BY <1>1, <1>2, <1>3, <1>4, <1>5 DEF Step, Begin, Continue

-----------------------------------------------------------------------------
(* Lost updates.  The lifecycle only climbs: Rank grows along every allowed *)
(* edge, so a state a version has left is behind it for good, and the guard *)
(* of compare_and_set_state cannot be met twice from the same state.        *)

Rank(s) ==
  CASE s = Absent       -> 0
    [] s = "DRAFT"      -> 1
    [] s = "VALIDATED"  -> 2
    [] s = "BACKTESTED" -> 3
    [] s = "SHADOW"     -> 4
    [] s = "CANARY"     -> 5
    [] s = "PRODUCTION" -> 6
    [] s = "SUSPENDED"  -> 7
    [] OTHER            -> 8

LEMMA RankIsNat == ASSUME NEW s PROVE Rank(s) \in Nat
BY DEF Rank

LEMMA RankClimbs ==
  ASSUME NEW s \in StateOrAbsent, NEW t \in Allowed(s)
  PROVE  t \in StrategyState /\ Rank(s) < Rank(t)
BY DEF StateOrAbsent, StrategyState, Absent, Allowed, Rank

(* A caller only carries an edge the policy allows.                         *)
EdgeAllowed ==
  \A c \in Callers : pc[c] \in InTransition => call[c].to \in Allowed(call[c].seen)

(* What has been left is behind: by a recorded move, or by one about to be  *)
(* recorded.                                                                *)
LeftBehind ==
  /\ \A x \in decisions : Rank(x.from) < Rank(state[x.version])
  /\ \A c \in Callers : Moving(c) => Rank(call[c].seen) < Rank(state[call[c].version])

MoveInv == TypeInv /\ EdgeAllowed /\ LeftBehind /\ OneMovePerState

LEMMA InitMoveInv == Init => MoveInv
<1> SUFFICES ASSUME Init PROVE EdgeAllowed /\ LeftBehind /\ OneMovePerState
  BY InitTypeInv DEF MoveInv
<1>1. decisions = {} /\ \A c \in Callers : pc[c] = "idle"
  BY DEF Init
<1>2. QED
  BY <1>1 DEF EdgeAllowed, LeftBehind, OneMovePerState, Moving, InTransition

LEMMA StepEdgeAllowed ==
  ASSUME TypeInv, EdgeAllowed, NEW c \in Callers, Step(c)
  PROVE  EdgeAllowed'
<1> /\ pc \in [Callers -> Labels] /\ call \in [Callers -> Locals]
  BY DEF TypeInv, TypeOK
<1>1. pc'[c] \in InTransition => call'[c].to \in Allowed(call'[c].seen)
  <2>1. CASE ReadRuns(c)
    <3>1. call'[c].to = call[c].to /\ call'[c].seen = call[c].seen /\ pc[c] \in InTransition
      BY <2>1 DEF ReadRuns, Goto, InTransition, Locals
    <3>2. QED
      BY <3>1 DEF EdgeAllowed
  <2>2. CASE CompareAndSet(c) \/ SaveDecision(c)
    BY <2>2 DEF CompareAndSet, SaveDecision, Goto, InTransition, EdgeAllowed
  <2>3. QED
    BY <2>1, <2>2, CallerSteps DEF Entered
<1>2. QED
  BY <1>1, CallerSteps DEF EdgeAllowed

(* A version never sinks.                                                   *)
LEMMA StateClimbs ==
  ASSUME TypeInv, EdgeAllowed, NEW c \in Callers, Step(c), NEW v \in Versions
  PROVE  Rank(state[v]) <= Rank(state'[v])
<1> state \in [Versions -> StateOrAbsent] /\ Rank(state[v]) \in Nat
  BY RankIsNat DEF TypeInv, TypeOK
<1>1. CASE state' = state
  BY <1>1
<1>2. CASE SaveVersion(c)
  <2>1. state'[v] = state[v] \/ (state[v] = Absent /\ state'[v] = "DRAFT")
    BY <1>2 DEF SaveVersion
  <2>2. QED
    BY <2>1 DEF Rank, Absent
<1>3. CASE CompareAndSet(c)
  <2>1. call[c].to \in Allowed(call[c].seen)
    BY <1>3 DEF CompareAndSet, EdgeAllowed, InTransition
  <2>2. state'[v] = state[v] \/ (state[v] = call[c].seen /\ state'[v] = call[c].to)
    BY <1>3 DEF CompareAndSet
  <2>3. Rank(state'[v]) \in Nat
    BY RankIsNat
  <2>4. QED
    BY <2>1, <2>2, <2>3, RankClimbs
<1>4. QED
  BY <1>1, <1>2, <1>3, TableSteps

LEMMA StepLeftBehind ==
  ASSUME TypeInv, EdgeAllowed, LeftBehind, NEW c \in Callers, Step(c)
  PROVE  LeftBehind'
<1> /\ pc \in [Callers -> Labels] /\ call \in [Callers -> Locals]
    /\ state \in [Versions -> StateOrAbsent]
    /\ \A d \in Callers : LocalsFit(pc[d], call[d])
    /\ decisions \subseteq DecisionRows
  BY DEF TypeInv, TypeOK, LocalsOK
<1>1. ASSUME NEW x \in decisions' PROVE Rank(x.from) < Rank(state'[x.version])
  <2>1. CASE x \in decisions
    <3>1. x.version \in Versions
      BY <2>1 DEF DecisionRows
    <3>2. Rank(x.from) < Rank(state[x.version])
      BY <2>1 DEF LeftBehind
    <3>3. Rank(state[x.version]) <= Rank(state'[x.version])
      BY <3>1, StateClimbs
    <3>4. QED
      BY <3>2, <3>3, RankIsNat
  <2>2. CASE SaveDecision(c)
    <3>1. state' = state /\ (x \in decisions \/ x = DecisionOf(c))
      BY <2>2 DEF SaveDecision, versionRow
    <3>2. Rank(call[c].seen) < Rank(state[call[c].version])
      BY <2>2 DEF SaveDecision, LeftBehind, Moving
    <3>3. QED
      BY <2>1, <3>1, <3>2 DEF DecisionOf
  <2>3. QED
    BY <2>1, <2>2, TableSteps
<1>2. ASSUME NEW d \in Callers, Moving(d)'
      PROVE  Rank(call'[d].seen) < Rank(state'[call'[d].version])
  <2>1. CASE Moving(d) /\ call'[d] = call[d]
    <3>1. call[d].version \in Versions
      BY <2>1 DEF Moving, LocalsFit, InTransition
    <3>2. Rank(call[d].seen) < Rank(state[call[d].version])
      BY <2>1 DEF LeftBehind
    <3>3. Rank(state[call[d].version]) <= Rank(state'[call[d].version])
      BY <3>1, StateClimbs
    <3>4. QED
      BY <2>1, <3>2, <3>3, RankIsNat
  <2>2. CASE d = c /\ CompareAndSet(c)
    <3>1. /\ call'[c] = call[c] /\ call[c].version \in Versions
          /\ state'[call[c].version] = call[c].to /\ call[c].seen \in StateOrAbsent
          /\ call[c].to \in Allowed(call[c].seen)
      BY <2>2 DEF CompareAndSet, Goto, LocalsFit, InTransition, Locals, EdgeAllowed
    <3>2. QED
      BY <2>2, <3>1, RankClimbs
  <2>3. CASE d = c /\ ~CompareAndSet(c)
    <3>1. pc'[c] = "decide"
      BY <1>2, <2>3 DEF Moving
    <3>2. ~SaveDecision(c) /\ ~ReadRuns(c) /\ ~Entered(c)
      BY <3>1 DEF SaveDecision, ReadRuns, Entered, Goto
    <3>3. QED
      BY <2>3, <3>1, <3>2, CallerSteps DEF InTransition
  <2>4. QED
    BY <1>2, <2>1, <2>2, <2>3, CallerSteps DEF Moving
<1>3. QED
  BY <1>1, <1>2 DEF LeftBehind

LEMMA StepOneMove ==
  ASSUME TypeInv, EdgeAllowed, LeftBehind, OneMovePerState, NEW c \in Callers, Step(c)
  PROVE  OneMovePerState'
<1> /\ pc \in [Callers -> Labels] /\ call \in [Callers -> Locals]
    /\ state \in [Versions -> StateOrAbsent]
  BY DEF TypeInv, TypeOK
<1>1. CASE CompareAndSet(c)
  \* The row is still in the state c read: whoever left that state before
  \* would have left it behind.
  <2>1. /\ decisions' = decisions /\ call' = call
        /\ \A d \in Callers \ {c} : pc'[d] = pc[d]
        /\ state[call[c].version] = call[c].seen
    BY <1>1 DEF CompareAndSet, Goto
  <2>2. \A x \in decisions : ~SameMove(DecisionOf(c), x)
    BY <2>1, RankIsNat DEF LeftBehind, SameMove, DecisionOf
  <2>3. \A d \in Callers \ {c} : Moving(d) => ~SameMove(DecisionOf(c), DecisionOf(d))
    BY <2>1, RankIsNat DEF LeftBehind, SameMove, DecisionOf, Moving
  <2>4. QED
    BY <2>1, <2>2, <2>3 DEF OneMovePerState, Moving, SameMove, DecisionOf
<1>2. CASE SaveDecision(c)
  \* c's move is recorded; nobody else has made the same one.
  <2>1. /\ decisions' = decisions \cup {DecisionOf(c)} /\ call' = call
        /\ pc'[c] = "auditDecision" /\ Moving(c)
        /\ \A d \in Callers \ {c} : pc'[d] = pc[d]
    BY <1>2 DEF SaveDecision, Goto, Moving
  <2>2. \A d \in Callers \ {c} : Moving(d) => ~SameMove(DecisionOf(d), DecisionOf(c))
    BY <2>1 DEF OneMovePerState
  <2>3. QED
    BY <2>1, <2>2 DEF OneMovePerState, Moving, SameMove, DecisionOf
<1>3. CASE ~CompareAndSet(c) /\ ~SaveDecision(c)
  <2>1. decisions' = decisions
    BY <1>3, TableSteps
  <2>2. pc'[c] # "decide"
    BY <1>3, CallerSteps DEF Entered, ReadRuns, Goto, InTransition
  <2>3. \A d \in Callers : Moving(d)' => Moving(d) /\ call'[d] = call[d]
    BY <2>2, CallerSteps DEF Moving
  <2>4. QED
    BY <2>1, <2>3 DEF OneMovePerState, SameMove, DecisionOf
<1>4. QED
  BY <1>1, <1>2, <1>3

LEMMA NextMoveInv == MoveInv /\ [Next]_vars => MoveInv'
<1> SUFFICES ASSUME MoveInv, [Next]_vars PROVE MoveInv'
  OBVIOUS
<1>1. CASE UNCHANGED vars
  <2>1. TypeInv'
    BY NextTypeInv DEF MoveInv
  <2>2. EdgeAllowed' /\ LeftBehind' /\ OneMovePerState'
    BY <1>1 DEF vars, versionRow, callVars, MoveInv, EdgeAllowed, LeftBehind, OneMovePerState,
                Moving, SameMove, DecisionOf
  <2>3. QED
    BY <2>1, <2>2 DEF MoveInv
<1>2. ASSUME NEW c \in Callers, Step(c) PROVE MoveInv'
  BY <1>2, NextTypeInv, StepEdgeAllowed, StepLeftBehind, StepOneMove DEF MoveInv
<1>3. QED
  BY <1>1, <1>2 DEF Next, Step

(* No lost update, whatever the number of concurrent callers: a version's   *)
(* state is left by at most one recorded or pending move.                   *)
THEOREM NoLostUpdate == Spec => []OneMovePerState
<1>1. Spec => []MoveInv
  BY InitMoveInv, NextMoveInv, PTL DEF Spec
<1>2. MoveInv => OneMovePerState
  BY DEF MoveInv
<1>3. QED
  BY <1>1, <1>2, PTL

-----------------------------------------------------------------------------
(* Evidence.  The runs are read one transaction before the state changes;   *)
(* what was read still holds then, because runs are only ever added.        *)

HasRun(rs, v)  == \E r \in rs : r.version = v
HasBeat(rs, v) == \E r \in rs : r.version = v /\ r.beat

EvidenceHeld ==
  \A c \in Callers : pc[c] = "swap" =>
    /\ call[c].to \in RequiresEval => HasRun(runs, call[c].version)
    /\ call[c].to = "SHADOW" => HasBeat(runs, call[c].version)

EvidenceStands ==
  \A v \in Versions :
    /\ state[v] \notin {Absent, "DRAFT", "VALIDATED", "REJECTED"} => HasRun(runs, v)
    /\ state[v] \in {"SHADOW", "CANARY", "PRODUCTION", "SUSPENDED", "RETIRED"} => HasBeat(runs, v)

LEMMA EvidenceStandsIsOnRecord == EvidenceStands <=> EvidenceOnRecord
BY DEF EvidenceStands, EvidenceOnRecord, HasRun, HasBeat, RunsOf

EvidenceInv == TypeInv /\ EdgeAllowed /\ EvidenceHeld /\ EvidenceStands

LEMMA StepEvidence ==
  ASSUME EvidenceInv, NEW c \in Callers, Step(c)
  PROVE  EvidenceHeld' /\ EvidenceStands'
<1> /\ pc \in [Callers -> Labels] /\ call \in [Callers -> Locals]
    /\ state \in [Versions -> StateOrAbsent]
    /\ TypeInv /\ EdgeAllowed /\ EvidenceHeld /\ EvidenceStands
    /\ runs \subseteq runs'
  BY TableSteps DEF EvidenceInv, TypeInv, TypeOK
<1>1. \A v \in Versions \cup {None} :
        (HasRun(runs, v) => HasRun(runs', v)) /\ (HasBeat(runs, v) => HasBeat(runs', v))
  BY DEF HasRun, HasBeat
<1>2. EvidenceHeld'
  <2>1. ASSUME NEW d \in Callers, pc'[d] = "swap"
        PROVE  /\ call'[d].to \in RequiresEval => HasRun(runs', call'[d].version)
               /\ call'[d].to = "SHADOW" => HasBeat(runs', call'[d].version)
    <3>1. CASE pc[d] = "swap" /\ call'[d] = call[d]
      BY <3>1, <1>1 DEF EvidenceHeld, Locals
    <3>2. CASE d = c /\ ReadRuns(c)
      <4>1. /\ call'[c].to = call[c].to /\ call'[c].version = call[c].version
            /\ EvidenceFor(call[c].version, call[c].to)
        BY <3>2 DEF ReadRuns, Goto, Locals
      <4>2. /\ call[c].to \in RequiresEval => HasRun(runs, call[c].version)
            /\ call[c].to = "SHADOW" => HasBeat(runs, call[c].version)
        BY <4>1 DEF EvidenceFor, HasRun, HasBeat, RunsOf
      <4>3. call[c].version \in Versions \cup {None}
        BY DEF Locals
      <4>4. QED
        BY <3>2, <4>1, <4>2, <4>3, <1>1
    <3>3. CASE d = c /\ ~ReadRuns(c)
      BY <2>1, <3>3, CallerSteps DEF Entered, CompareAndSet, SaveDecision, Goto, InTransition
    <3>4. QED
      BY <2>1, <3>1, <3>2, <3>3, CallerSteps
  <2>2. QED
    BY <2>1 DEF EvidenceHeld
<1>3. EvidenceStands'
  <2>1. CASE state' = state
    BY <2>1, <1>1 DEF EvidenceStands
  <2>2. CASE SaveVersion(c)
    <3>1. \A v \in Versions : state'[v] = state[v] \/ state'[v] = "DRAFT"
      BY <2>2 DEF SaveVersion
    <3>2. QED
      BY <3>1, <1>1 DEF EvidenceStands
  <2>3. CASE CompareAndSet(c)
    <3> DEFINE w == call[c].version
    <3>1. /\ state[w] = call[c].seen /\ call[c].to \in Allowed(call[c].seen)
          /\ call[c].to \in RequiresEval => HasRun(runs, w)
          /\ call[c].to = "SHADOW" => HasBeat(runs, w)
          /\ w \in Versions
      BY <2>3 DEF CompareAndSet, EdgeAllowed, EvidenceHeld, InTransition, TypeInv, LocalsOK,
                  LocalsFit
    <3>2. \A v \in Versions : state'[v] = IF v = w THEN call[c].to ELSE state[v]
      BY <2>3 DEF CompareAndSet
    <3>3. /\ call[c].to \notin {Absent, "DRAFT", "VALIDATED", "REJECTED"} => HasRun(runs, w)
          /\ call[c].to \in {"SHADOW", "CANARY", "PRODUCTION", "SUSPENDED", "RETIRED"}
               => HasBeat(runs, w)
      BY <3>1 DEF EvidenceStands, Allowed, RequiresEval, Absent
    <3>4. QED
      BY <3>1, <3>2, <3>3, <1>1 DEF EvidenceStands
  <2>4. QED
    BY <2>1, <2>2, <2>3, TableSteps
<1>4. QED
  BY <1>2, <1>3

LEMMA InitEvidenceInv == Init => EvidenceInv
<1> SUFFICES ASSUME Init PROVE EdgeAllowed /\ EvidenceHeld /\ EvidenceStands
  BY InitTypeInv DEF EvidenceInv
<1>1. \A c \in Callers : pc[c] = "idle"
  BY DEF Init
<1>2. \A v \in Versions : state[v] = Absent
  BY DEF Init
<1>3. QED
  BY <1>1, <1>2 DEF EdgeAllowed, EvidenceHeld, EvidenceStands, InTransition, Absent

LEMMA NextEvidenceInv == EvidenceInv /\ [Next]_vars => EvidenceInv'
<1> SUFFICES ASSUME EvidenceInv, [Next]_vars PROVE EvidenceInv'
  OBVIOUS
<1>1. CASE UNCHANGED vars
  <2>1. TypeInv'
    BY NextTypeInv DEF EvidenceInv
  <2>2. EdgeAllowed' /\ EvidenceHeld' /\ EvidenceStands'
    BY <1>1 DEF vars, versionRow, callVars, EvidenceInv, EdgeAllowed, EvidenceHeld,
                EvidenceStands, HasRun, HasBeat
  <2>3. QED
    BY <2>1, <2>2 DEF EvidenceInv
<1>2. ASSUME NEW c \in Callers, Step(c) PROVE EvidenceInv'
  BY <1>2, NextTypeInv, StepEdgeAllowed, StepEvidence DEF EvidenceInv
<1>3. QED
  BY <1>1, <1>2 DEF Next, Step

(* Nobody reaches a live state without evidence on record, although it is   *)
(* read before, and not in, the transaction that changes the state.         *)
THEOREM EvidencePrecedesLife == Spec => []EvidenceOnRecord
<1>1. Spec => []EvidenceInv
  BY InitEvidenceInv, NextEvidenceInv, PTL DEF Spec
<1>2. EvidenceInv => EvidenceOnRecord
  BY EvidenceStandsIsOnRecord DEF EvidenceInv
<1>3. QED
  BY <1>1, <1>2, PTL

-----------------------------------------------------------------------------
(* Approval.                                                                *)

(* A caller on its way to PRODUCTION holds a non-blank approval id.         *)
ApprovalHeld ==
  \A c \in Callers : pc[c] \in {"readRuns", "swap"} /\ call[c].to = "PRODUCTION" =>
    call[c].approval \in ApprovalIds

ApprovalInv == TypeInv /\ ApprovalHeld /\ ApprovedIffProduction

LEMMA StepApproval ==
  ASSUME ApprovalInv, NEW c \in Callers, Step(c)
  PROVE  ApprovalHeld' /\ ApprovedIffProduction'
<1> /\ pc \in [Callers -> Labels] /\ call \in [Callers -> Locals]
    /\ state \in [Versions -> StateOrAbsent]
    /\ approval \in [Versions -> ApprovalIds \cup {None}]
    /\ TypeInv /\ ApprovalHeld /\ ApprovedIffProduction
  BY DEF ApprovalInv, TypeInv, TypeOK
<1>1. ApprovalHeld'
  <2>1. ASSUME NEW d \in Callers, pc'[d] \in {"readRuns", "swap"}, call'[d].to = "PRODUCTION"
        PROVE  call'[d].approval \in ApprovalIds
    <3>1. CASE d # c
      BY <2>1, <3>1, CallerSteps DEF ApprovalHeld
    <3>2. CASE d = c /\ Entered(c)
      BY <2>1, <3>2 DEF Entered
    <3>3. CASE d = c /\ ReadRuns(c)
      <4>1. call'[c].to = call[c].to /\ call'[c].approval = call[c].approval
        BY <3>3 DEF ReadRuns, Goto, Locals
      <4>2. QED
        BY <2>1, <3>3, <4>1 DEF ReadRuns, ApprovalHeld
    <3>4. CASE d = c /\ (CompareAndSet(c) \/ SaveDecision(c))
      BY <2>1, <3>4 DEF CompareAndSet, SaveDecision, Goto
    <3>5. QED
      BY <2>1, <3>1, <3>2, <3>3, <3>4, CallerSteps DEF InTransition
  <2>2. QED
    BY <2>1 DEF ApprovalHeld
<1>2. ApprovedIffProduction'
  <2>1. CASE state' = state /\ approval' = approval
    BY <2>1 DEF ApprovedIffProduction
  <2>2. CASE SaveVersion(c)
    <3>1. /\ approval' = approval
          /\ \A v \in Versions : \/ state'[v] = state[v]
                                 \/ state[v] = Absent /\ state'[v] = "DRAFT"
      BY <2>2 DEF SaveVersion
    <3>2. QED
      BY <3>1 DEF ApprovedIffProduction, Absent
  <2>3. CASE CompareAndSet(c)
    <3>1. call[c].to = "PRODUCTION" => call[c].approval \in ApprovalIds
      BY <2>3 DEF CompareAndSet, ApprovalHeld
    <3>2. \A v \in Versions :
            \/ state'[v] = state[v] /\ approval'[v] = approval[v]
            \/ /\ state'[v] = call[c].to
               /\ approval'[v] = IF call[c].to = "PRODUCTION" THEN call[c].approval ELSE None
      BY <2>3 DEF CompareAndSet
    <3>3. None \notin ApprovalIds
      BY ConstantsAssumption
    <3>4. QED
      BY <3>1, <3>2, <3>3 DEF ApprovedIffProduction
  <2>4. QED
    BY <2>1, <2>2, <2>3, TableSteps
<1>3. QED
  BY <1>1, <1>2

LEMMA InitApprovalInv == Init => ApprovalInv
<1> SUFFICES ASSUME Init PROVE ApprovalHeld /\ ApprovedIffProduction
  BY InitTypeInv DEF ApprovalInv
<1>1. ApprovalHeld
  BY DEF Init, ApprovalHeld
<1>2. ApprovedIffProduction
  BY ConstantsAssumption DEF Init, ApprovedIffProduction, Absent
<1>3. QED
  BY <1>1, <1>2

LEMMA NextApprovalInv == ApprovalInv /\ [Next]_vars => ApprovalInv'
<1> SUFFICES ASSUME ApprovalInv, [Next]_vars PROVE ApprovalInv'
  OBVIOUS
<1>1. CASE UNCHANGED vars
  <2>1. TypeInv'
    BY NextTypeInv DEF ApprovalInv
  <2>2. ApprovalHeld' /\ ApprovedIffProduction'
    BY <1>1 DEF vars, versionRow, callVars, ApprovalInv, ApprovalHeld, ApprovedIffProduction
  <2>3. QED
    BY <2>1, <2>2 DEF ApprovalInv
<1>2. ASSUME NEW c \in Callers, Step(c) PROVE ApprovalInv'
  BY <1>2, NextTypeInv, StepApproval DEF ApprovalInv
<1>3. QED
  BY <1>1, <1>2 DEF Next, Step

(* The approval column is set on exactly the versions in PRODUCTION.        *)
THEOREM ApprovalMarksProduction == Spec => []ApprovedIffProduction
<1>1. Spec => []ApprovalInv
  BY InitApprovalInv, NextApprovalInv, PTL DEF Spec
<1>2. ApprovalInv => ApprovedIffProduction
  BY DEF ApprovalInv
<1>3. QED
  BY <1>1, <1>2, PTL

-----------------------------------------------------------------------------
(* Derivation.                                                              *)

(* What a caller is about to insert has passed the whitelist.               *)
ParamsHeld ==
  \A c \in Callers : pc[c] = "saveVersion" => call[c].params \in ValidParams

ParamsInv == TypeInv /\ EdgeAllowed /\ ParamsHeld /\ OnlyValidParams

LEMMA InitParamsInv == Init => ParamsInv
<1> SUFFICES ASSUME Init PROVE EdgeAllowed /\ ParamsHeld /\ OnlyValidParams
  BY InitTypeInv DEF ParamsInv
<1>1. QED
  BY DEF Init, EdgeAllowed, InTransition, ParamsHeld, OnlyValidParams

LEMMA NextParamsInv == ParamsInv /\ [Next]_vars => ParamsInv'
<1> SUFFICES ASSUME ParamsInv, [Next]_vars PROVE ParamsInv'
  OBVIOUS
<1> /\ pc \in [Callers -> Labels] /\ call \in [Callers -> Locals]
    /\ state \in [Versions -> StateOrAbsent] /\ params \in [Versions -> Params \cup {None}]
    /\ ParamsHeld /\ OnlyValidParams /\ EdgeAllowed /\ TypeInv
  BY DEF ParamsInv, TypeInv, TypeOK
<1>1. CASE UNCHANGED vars
  BY <1>1, NextTypeInv
  DEF vars, versionRow, callVars, EdgeAllowed, ParamsHeld, OnlyValidParams, ParamsInv
<1>2. ASSUME NEW c \in Callers, Step(c) PROVE ParamsHeld'
  <2>1. pc'[c] = "saveVersion" => call'[c].params \in ValidParams
    <3>1. ASSUME NEW r \in Requests, NEW label \in Versions, NEW firstArgs \in BOOLEAN,
                 LoadRequest(c, r, label, firstArgs)
          PROVE  call'[c].params \in ValidParams
      BY <3>1 DEF LoadRequest, Goto, Idle, Locals
    <3>2. CASE \E r \in Requests, label \in Versions, firstArgs \in BOOLEAN :
                 LoadRequest(c, r, label, firstArgs)
      BY <3>1, <3>2
    <3>3. CASE ~\E r \in Requests, label \in Versions, firstArgs \in BOOLEAN :
                 LoadRequest(c, r, label, firstArgs)
      BY <1>2, <3>3
      DEF Step, Begin, Continue, Crash, Goto, Return, ProposeChange, RejectRequest,
          StartEvaluation, LoadVersion, Rollback, AuditProposed, SaveVersion, MarkValidated,
          AuditValidated, AuditRejected, SaveRun, AuditRun, RollbackLoad, ReadRuns, Refuse,
          CompareAndSet, SwapLost, SaveDecision, AuditDecision
    <3>4. QED
      BY <3>2, <3>3, <3>1
  <2>2. QED
    BY <1>2, <2>1, CallerSteps DEF ParamsHeld
<1>3. ASSUME NEW c \in Callers, Step(c) PROVE OnlyValidParams'
  <2>1. CASE SaveVersion(c)
    BY <2>1 DEF SaveVersion, ParamsHeld, OnlyValidParams
  <2>2. CASE CompareAndSet(c)
    <3>1. /\ state[call[c].version] = call[c].seen /\ params' = params
          /\ call[c].to \in Allowed(call[c].seen)
      BY <2>2 DEF CompareAndSet, EdgeAllowed, InTransition
    <3>2. call[c].seen # Absent
      BY <3>1 DEF Allowed, Absent
    <3>3. QED
      BY <2>2, <3>1, <3>2 DEF CompareAndSet, OnlyValidParams
  <2>3. CASE ~SaveVersion(c) /\ ~CompareAndSet(c)
    BY <1>3, <2>3, TableSteps DEF OnlyValidParams
  <2>4. QED
    BY <2>1, <2>2, <2>3
<1>4. QED
  BY <1>1, <1>2, <1>3, NextTypeInv, StepEdgeAllowed DEF Next, Step, ParamsInv

(* Parameters that failed the whitelist never become a version.             *)
THEOREM WhitelistHolds == Spec => []OnlyValidParams
<1>1. Spec => []ParamsInv
  BY InitParamsInv, NextParamsInv, PTL DEF Spec
<1>2. ParamsInv => OnlyValidParams
  BY DEF ParamsInv
<1>3. QED
  BY <1>1, <1>2, PTL

(* A version keeps its parent and its parameters from its insertion on.     *)
THEOREM DerivedNeverEdited == Spec => VersionsImmutable
<1> DEFINE Kept == \A v \in Versions : state[v] # Absent =>
                     /\ parent'[v] = parent[v] /\ params'[v] = params[v]
                     /\ state'[v] # Absent
<1>1. ASSUME MoveInv, [Next]_vars PROVE [Kept]_vars
  <2> /\ TypeInv /\ EdgeAllowed
      /\ state \in [Versions -> StateOrAbsent]
      /\ parent \in [Versions -> Versions \cup {None}]
      /\ params \in [Versions -> Params \cup {None}]
    BY <1>1 DEF MoveInv, TypeInv, TypeOK
  <2>1. CASE UNCHANGED vars
    BY <2>1
  <2>2. ASSUME NEW c \in Callers, Step(c), NEW v \in Versions, state[v] # Absent
        PROVE  parent'[v] = parent[v] /\ params'[v] = params[v] /\ state'[v] # Absent
    <3>1. CASE SaveVersion(c)
      BY <2>2, <3>1 DEF SaveVersion
    <3>2. CASE ~SaveVersion(c)
      <4>1. parent' = parent /\ params' = params
        BY <2>2, <3>2, TableSteps
      <4>2. Rank(state[v]) > 0
        BY <2>2 DEF Rank
      <4>3. state'[v] # Absent
        BY <2>2, <4>2, StateClimbs, RankIsNat DEF Rank, Absent
      <4>4. QED
        BY <4>1, <4>3
    <3>3. QED
      BY <3>1, <3>2
  <2>3. QED
    BY <1>1, <2>1, <2>2 DEF Next, Step
<1>2. Spec => [][Kept]_vars
  BY <1>1, InitMoveInv, NextMoveInv, PTL DEF Spec
<1>3. QED
  BY <1>2 DEF VersionsImmutable

-----------------------------------------------------------------------------
(* What is VALIDATED has a version behind it.                               *)

(* A call about to mark its request VALIDATED has inserted the version, or  *)
(* found one under that label.                                              *)
VersionSaved == \A c \in Callers : pc[c] = "markValidated" => state[call[c].version] # Absent

BackedInv == MoveInv /\ VersionSaved /\ ValidatedHasVersion

(* No step removes a version row.                                           *)
LEMMA StepKeepsRows ==
  ASSUME MoveInv, NEW c \in Callers, Step(c), NEW v \in Versions, state[v] # Absent
  PROVE  state'[v] # Absent
<1>1. TypeInv /\ EdgeAllowed
  BY DEF MoveInv
<1>2. Rank(state[v]) > 0
  BY DEF Rank
<1>3. QED
  BY <1>1, <1>2, StateClimbs, RankIsNat DEF Rank, Absent

LEMMA InitBackedInv == Init => BackedInv
<1>1. Init => VersionSaved /\ ValidatedHasVersion
  BY DEF Init, VersionSaved, ValidatedHasVersion, NoRequest
<1>2. QED
  BY <1>1, InitMoveInv DEF BackedInv

LEMMA NextBackedInv == BackedInv /\ [Next]_vars => BackedInv'
<1> SUFFICES ASSUME BackedInv, [Next]_vars PROVE BackedInv'
  OBVIOUS
<1> /\ MoveInv /\ VersionSaved /\ ValidatedHasVersion /\ TypeInv
    /\ pc \in [Callers -> Labels] /\ call \in [Callers -> Locals] /\ LocalsOK
    /\ state \in [Versions -> StateOrAbsent] /\ request \in [Requests -> RequestRows]
  BY DEF BackedInv, MoveInv, TypeInv, TypeOK
<1>1. CASE UNCHANGED vars
  BY <1>1, NextMoveInv
  DEF vars, versionRow, callVars, BackedInv, VersionSaved, ValidatedHasVersion
<1>2. ASSUME NEW c \in Callers, Step(c) PROVE VersionSaved'
  <2>1. ASSUME NEW d \in Callers \ {c}, pc'[d] = "markValidated"
        PROVE  state'[call'[d].version] # Absent
    <3>1. pc[d] = "markValidated" /\ call'[d] = call[d]
      BY <1>2, <2>1, CallerSteps
    <3>2. call[d].version \in Versions /\ state[call[d].version] # Absent
      BY <3>1 DEF LocalsOK, LocalsFit, VersionSaved
    <3>3. QED
      BY <1>2, <3>1, <3>2, StepKeepsRows
  <2>2. ASSUME pc'[c] = "markValidated" PROVE state'[call'[c].version] # Absent
    <3>1. SaveVersion(c)
      BY <1>2, <2>2
      DEF Step, Begin, Continue, Crash, Goto, Return, ProposeChange, LoadRequest, RejectRequest,
          StartEvaluation, LoadVersion, Rollback, AuditProposed, MarkValidated,
          AuditValidated, AuditRejected, SaveRun, AuditRun, RollbackLoad, ReadRuns, Refuse,
          CompareAndSet, SwapLost, SaveDecision, AuditDecision
    <3>2. call'[c] = call[c] /\ call[c].version \in Versions
      BY <3>1 DEF SaveVersion, Goto, LocalsOK, LocalsFit
    <3>3. QED
      BY <3>1, <3>2 DEF SaveVersion, Absent
  <2>3. QED
    BY <2>1, <2>2 DEF VersionSaved
<1>3. ASSUME NEW c \in Callers, Step(c) PROVE ValidatedHasVersion'
  <2> SUFFICES ASSUME NEW r \in Requests, request'[r].status = "VALIDATED"
               PROVE  request'[r].derived \in Versions /\ state'[request'[r].derived] # Absent
    BY DEF ValidatedHasVersion
  <2>1. CASE request'[r] = request[r]
    BY <1>3, <2>1, StepKeepsRows DEF ValidatedHasVersion
  <2>2. CASE request'[r] # request[r]
    <3>1. MarkValidated(c)
      <4>1. ASSUME NEW q \in Requests, NEW par, NEW prm, ProposeChange(c, q, par, prm)
            PROVE  FALSE
        BY <2>2, <4>1 DEF ProposeChange
      <4>2. ASSUME NEW q \in Requests, RejectRequest(c, q) PROVE FALSE
        BY <2>2, <4>2 DEF RejectRequest, RequestRows
      <4>3. \/ request' = request \/ MarkValidated(c)
            \/ \E q \in Requests, par \in Versions \cup {None}, prm \in Params :
                 ProposeChange(c, q, par, prm)
            \/ \E q \in Requests : RejectRequest(c, q)
        BY <1>3
        DEF Step, Begin, Continue, Crash, LoadRequest, StartEvaluation, LoadVersion, Rollback,
            AuditProposed, SaveVersion, AuditValidated, AuditRejected, SaveRun, AuditRun,
            RollbackLoad, ReadRuns, Refuse, CompareAndSet, SwapLost, SaveDecision, AuditDecision
      <4>4. QED
        BY <2>2, <4>1, <4>2, <4>3
    <3>2. /\ call[c].request \in Requests /\ call[c].version \in Versions
          /\ state[call[c].version] # Absent
      BY <3>1 DEF MarkValidated, LocalsOK, LocalsFit, VersionSaved
    <3>3. r = call[c].request /\ request'[r].derived = call[c].version
      BY <2>2, <3>1, <3>2 DEF MarkValidated, RequestRows
    <3>4. state' = state
      BY <3>1 DEF MarkValidated, versionRow
    <3>5. QED
      BY <3>2, <3>3, <3>4
  <2>3. QED
    BY <2>1, <2>2
<1>4. QED
  BY <1>1, <1>2, <1>3, NextMoveInv DEF BackedInv, Next, Step

(* A request is VALIDATED only when a version row stands behind it, however *)
(* calls that derive under the same label interleave or are lost.           *)
THEOREM ValidatedBacked == Spec => []ValidatedHasVersion
<1>1. Spec => []BackedInv
  BY InitBackedInv, NextBackedInv, PTL DEF Spec
<1>2. BackedInv => ValidatedHasVersion
  BY DEF BackedInv
<1>3. QED
  BY <1>1, <1>2, PTL

-----------------------------------------------------------------------------
(* Lineage.                                                                 *)

(* A parent is a version with a row before its child has one: what a call   *)
(* is about to insert, and what the table holds.                            *)
Rooted == {None} \cup {p \in Versions : state[p] # Absent}

ParentsFirst ==
  /\ \A c \in Callers : pc[c] = "saveVersion" => call[c].parent \in Rooted
  /\ \A v \in Versions : parent[v] \in Rooted

LineageInv == MoveInv /\ ParentsFirst /\ LineageAcyclic

LEMMA InitLineageInv == Init => LineageInv
<1> SUFFICES ASSUME Init PROVE ParentsFirst /\ LineageAcyclic
  BY InitMoveInv DEF LineageInv
<1>1. ParentsFirst
  BY DEF Init, ParentsFirst, Rooted
<1>2. ASSUME NEW S \in (SUBSET Versions) \ {{}} PROVE \E v \in S : parent[v] \notin S
  <2>1. PICK v \in S : TRUE
    OBVIOUS
  <2>2. v \in Versions /\ parent[v] = None /\ None \notin S
    BY ConstantsAssumption DEF Init
  <2>3. QED
    BY <2>2
<1>3. QED
  BY <1>1, <1>2 DEF LineageAcyclic

LEMMA RootedStays ==
  ASSUME MoveInv, NEW c \in Callers, Step(c)
  PROVE  Rooted \subseteq Rooted'
BY StepKeepsRows DEF Rooted

LEMMA StepParentsFirst ==
  ASSUME MoveInv, ParentsFirst, NEW c \in Callers, Step(c)
  PROVE  ParentsFirst'
<1> /\ TypeInv /\ pc \in [Callers -> Labels] /\ call \in [Callers -> Locals]
    /\ parent \in [Versions -> Versions \cup {None}] /\ LocalsOK
    /\ request \in [Requests -> RequestRows]
  BY DEF MoveInv, TypeInv, TypeOK
<1>1. ASSUME NEW d \in Callers, pc'[d] = "saveVersion" PROVE call'[d].parent \in Rooted'
  <2>1. CASE d # c
    <3>1. pc[d] = "saveVersion" /\ call'[d] = call[d]
      BY <1>1, <2>1, CallerSteps
    <3>2. QED
      BY <3>1, RootedStays DEF ParentsFirst
  <2>2. CASE d = c
    <3>1. PICK r \in Requests, label \in Versions, firstArgs \in BOOLEAN :
            LoadRequest(c, r, label, firstArgs)
      BY <1>1, <2>2
      DEF Step, Begin, Continue, Crash, Goto, Return, ProposeChange, RejectRequest,
          StartEvaluation, LoadVersion, Rollback, AuditProposed, SaveVersion, MarkValidated,
          AuditValidated, AuditRejected, SaveRun, AuditRun, RollbackLoad, ReadRuns, Refuse,
          CompareAndSet, SwapLost, SaveDecision, AuditDecision
    <3> DEFINE named == request[r].parent
               found == IF named # None /\ state[named] # Absent THEN named ELSE None
    <3>2. call'[c].parent = found
      BY <3>1 DEF LoadRequest, Goto, Idle, Locals
    <3>3. named \in Versions \cup {None}
      BY DEF RequestRows
    <3>4. found \in Rooted
      BY <3>3 DEF Rooted
    <3>5. QED
      BY <2>2, <3>2, <3>4, RootedStays
  <2>3. QED
    BY <2>1, <2>2
<1>2. ASSUME NEW v \in Versions PROVE parent'[v] \in Rooted'
  <2>1. CASE SaveVersion(c)
    <3>1. parent'[v] = parent[v] \/ parent'[v] = call[c].parent
      BY <2>1 DEF SaveVersion
    <3>2. parent[v] \in Rooted /\ call[c].parent \in Rooted
      BY <2>1 DEF SaveVersion, ParentsFirst
    <3>3. QED
      BY <3>1, <3>2, RootedStays
  <2>2. CASE ~SaveVersion(c)
    BY <2>2, TableSteps, RootedStays DEF ParentsFirst
  <2>3. QED
    BY <2>1, <2>2
<1>3. QED
  BY <1>1, <1>2 DEF ParentsFirst

(* A new row is nobody's parent yet, and its own parent has a row: it can   *)
(* close no circle.                                                         *)
LEMMA StepLineage ==
  ASSUME LineageInv, NEW c \in Callers, Step(c)
  PROVE  LineageAcyclic'
<1> /\ TypeInv /\ ParentsFirst /\ LineageAcyclic /\ LocalsOK
    /\ parent \in [Versions -> Versions \cup {None}]
  BY DEF LineageInv, MoveInv, TypeInv, TypeOK
<1>1. CASE parent' = parent
  BY <1>1 DEF LineageAcyclic
<1>2. CASE SaveVersion(c) /\ parent' # parent
  <2> DEFINE n == call[c].version
  <2>1. /\ n \in Versions /\ state[n] = Absent
        /\ parent' = [parent EXCEPT ![n] = call[c].parent] /\ call[c].parent \in Rooted
    BY <1>2 DEF SaveVersion, LocalsOK, LocalsFit, ParentsFirst
  <2>2. parent'[n] # n /\ \A w \in Versions : parent[w] # n
    BY <2>1, ConstantsAssumption DEF Rooted, ParentsFirst
  <2>3. ASSUME NEW S \in (SUBSET Versions) \ {{}} PROVE \E v \in S : parent'[v] \notin S
    <3>1. CASE n \notin S
      <4>1. PICK v \in S : parent[v] \notin S
        BY DEF LineageAcyclic
      <4>2. QED
        BY <2>1, <3>1, <4>1
    <3>2. CASE n \in S /\ S \ {n} = {}
      BY <2>2, <3>2
    <3>3. CASE n \in S /\ S \ {n} # {}
      <4>1. PICK v \in S \ {n} : parent[v] \notin S \ {n}
        BY <3>3 DEF LineageAcyclic
      <4>2. parent'[v] = parent[v] /\ parent[v] # n
        BY <2>1, <2>2, <4>1
      <4>3. QED
        BY <4>1, <4>2
    <3>4. QED
      BY <3>1, <3>2, <3>3
  <2>4. QED
    BY <2>3 DEF LineageAcyclic
<1>3. QED
  BY <1>1, <1>2, TableSteps

LEMMA NextLineageInv == LineageInv /\ [Next]_vars => LineageInv'
<1> SUFFICES ASSUME LineageInv, [Next]_vars PROVE LineageInv'
  OBVIOUS
<1>1. MoveInv'
  BY NextMoveInv DEF LineageInv
<1>2. CASE UNCHANGED vars
  <2>1. ParentsFirst' /\ LineageAcyclic'
    BY <1>2 DEF vars, versionRow, callVars, LineageInv, ParentsFirst, Rooted, LineageAcyclic
  <2>2. QED
    BY <1>1, <2>1 DEF LineageInv
<1>3. ASSUME NEW c \in Callers, Step(c) PROVE LineageInv'
  BY <1>1, <1>3, StepParentsFirst, StepLineage DEF LineageInv
<1>4. QED
  BY <1>2, <1>3 DEF Next, Step

(* No version is its own ancestor, whatever requests name as their parent   *)
(* and however their derivations interleave.                                *)
THEOREM LineageHasRoots == Spec => []LineageAcyclic
<1>1. Spec => []LineageInv
  BY InitLineageInv, NextLineageInv, PTL DEF Spec
<1>2. LineageInv => LineageAcyclic
  BY DEF LineageInv
<1>3. QED
  BY <1>1, <1>2, PTL

-----------------------------------------------------------------------------
(* The evidence a decision names.                                           *)

(* The run with this stamp is evidence for the move.                        *)
Backs(rs, run, v, to) ==
  to \in RequiresEval =>
    \E r \in rs : r.version = v /\ r.stamp = run /\ (to = "SHADOW" => r.beat)

RunsCited ==
  /\ \A c \in Callers : pc[c] \in {"swap", "decide"} =>
       Backs(runs, call[c].run, call[c].version, call[c].to)
  /\ \A d \in decisions : Backs(runs, d.run, d.version, d.to)

CitedInv == TypeInv /\ RunsCited

(* All newest runs of a version have one stamp, so the one that beat the    *)
(* baselines has the stamp of the one cited.                                *)
LEMMA ReadRunsBacks ==
  ASSUME TypeInv, NEW c \in Callers, ReadRuns(c), pc'[c] = "swap"
  PROVE  Backs(runs, call'[c].run, call'[c].version, call'[c].to)
<1> DEFINE v == call[c].version
           to == call[c].to
<1> /\ call \in [Callers -> Locals] /\ runs \subseteq RunRows
  BY DEF TypeInv, TypeOK
<1>1. call'[c].version = v /\ call'[c].to = to /\ EvidenceFor(v, to)
  BY DEF ReadRuns, Goto, Locals
<1>2. CASE RunsOf(v) = {}
  BY <1>1, <1>2 DEF EvidenceFor, Backs
<1>3. CASE RunsOf(v) # {}
  <2>1. PICK r \in RunsOf(v) : IsLatest(r) /\ call'[c].run = r.stamp
    BY <1>3 DEF ReadRuns, Goto, Locals
  <2>2. CASE to = "SHADOW"
    <3>1. PICK q \in RunsOf(v) : IsLatest(q) /\ q.beat
      BY <1>1, <2>2 DEF EvidenceFor
    <3>2. q.stamp <= r.stamp /\ r.stamp <= q.stamp /\ r.stamp \in Int /\ q.stamp \in Int
      BY <2>1, <3>1, ConstantsAssumption DEF IsLatest, RunsOf, RunRows
    <3>3. q.stamp = r.stamp
      BY <3>2
    <3>4. QED
      BY <1>1, <2>1, <3>1, <3>3 DEF Backs, RunsOf
  <2>3. CASE to # "SHADOW"
    BY <1>1, <2>1, <2>3 DEF Backs, RunsOf
  <2>4. QED
    BY <2>2, <2>3
<1>4. QED
  BY <1>2, <1>3

LEMMA StepCited ==
  ASSUME CitedInv, NEW c \in Callers, Step(c)
  PROVE  RunsCited'
<1> /\ TypeInv /\ RunsCited /\ runs \subseteq runs'
    /\ pc \in [Callers -> Labels] /\ call \in [Callers -> Locals]
  BY TableSteps DEF CitedInv, TypeInv, TypeOK
<1>1. ASSUME NEW run, NEW v, NEW to, Backs(runs, run, v, to) PROVE Backs(runs', run, v, to)
  BY <1>1 DEF Backs
<1>2. ASSUME NEW d \in Callers, pc'[d] \in {"swap", "decide"}
      PROVE  Backs(runs', call'[d].run, call'[d].version, call'[d].to)
  <2>1. CASE pc[d] \in {"swap", "decide"} /\ call'[d] = call[d]
    BY <2>1, <1>1 DEF RunsCited
  <2>2. CASE d = c /\ ReadRuns(c)
    <3>1. pc'[c] = "swap"
      BY <1>2, <2>2 DEF ReadRuns, Goto
    <3>2. QED
      BY <2>2, <3>1, ReadRunsBacks, <1>1
  <2>3. CASE d = c /\ CompareAndSet(c)
    BY <2>3, <2>1 DEF CompareAndSet, Goto
  <2>4. CASE d = c /\ ~ReadRuns(c) /\ ~CompareAndSet(c)
    BY <1>2, <2>4, CallerSteps DEF Entered, SaveDecision, Goto, InTransition
  <2>5. CASE d # c
    BY <1>2, <2>5, <2>1, CallerSteps
  <2>6. QED
    BY <2>2, <2>3, <2>4, <2>5
<1>3. ASSUME NEW d \in decisions' PROVE Backs(runs', d.run, d.version, d.to)
  <2>1. CASE d \in decisions
    BY <2>1, <1>1 DEF RunsCited
  <2>2. CASE d \notin decisions
    <3>1. SaveDecision(c)
      BY <1>3, <2>2, TableSteps
    <3>2. d = DecisionOf(c) /\ pc[c] = "decide"
      BY <1>3, <2>2, <3>1 DEF SaveDecision
    <3>3. QED
      BY <3>2, <1>1 DEF RunsCited, DecisionOf
  <2>3. QED
    BY <2>1, <2>2
<1>4. QED
  BY <1>2, <1>3 DEF RunsCited

LEMMA NextCitedInv == CitedInv /\ [Next]_vars => CitedInv'
<1> SUFFICES ASSUME CitedInv, [Next]_vars PROVE CitedInv'
  OBVIOUS
<1>1. TypeInv'
  BY NextTypeInv DEF CitedInv
<1>2. CASE UNCHANGED vars
  <2>1. RunsCited'
    BY <1>2 DEF vars, callVars, CitedInv, RunsCited
  <2>2. QED
    BY <1>1, <2>1 DEF CitedInv
<1>3. ASSUME NEW c \in Callers, Step(c) PROVE CitedInv'
  BY <1>1, <1>3, StepCited DEF CitedInv
<1>4. QED
  BY <1>2, <1>3 DEF Next, Step

(* Every decision names a run that is its evidence, although runs are       *)
(* stored while the call that decides is under way.                         *)
THEOREM DecisionsCiteRuns == Spec => []DecisionNamesItsEvidence
<1>1. Init => CitedInv
  BY InitTypeInv DEF Init, CitedInv, RunsCited
<1>2. Spec => []CitedInv
  BY <1>1, NextCitedInv, PTL DEF Spec
<1>3. CitedInv => DecisionNamesItsEvidence
  BY DEF CitedInv, RunsCited, Backs, DecisionNamesItsEvidence, RunsOf
<1>4. QED
  BY <1>2, <1>3, PTL

-----------------------------------------------------------------------------
(* History.                                                                 *)

(* Where a decision, stored or about to be, has led; and where all begin.   *)
Landings ==
  {<<d.version, d.to>> : d \in decisions}
    \cup {<<call[c].version, call[c].to>> : c \in {b \in Callers : Moving(b)}}

Explained == Landings \cup (Versions \X {Absent, "DRAFT"})

(* As long as no caller is lost: states, and what was left, are reached.    *)
PathsComplete ==
  crashes = 0 =>
    /\ \A v \in Versions : <<v, state[v]>> \in Explained
    /\ \A d \in decisions : d.from # Absent /\ <<d.version, d.from>> \in Explained
    /\ \A c \in Callers : Moving(c) =>
         call[c].seen # Absent /\ <<call[c].version, call[c].seen>> \in Explained

(* Decisions and their audit events differ by the calls between the two.    *)
AuditFollows ==
  /\ \A e \in Promotions : e.decision \in decisions
  /\ \A c \in Callers : pc[c] = "auditDecision" => DecisionOf(c) \in decisions
  /\ crashes = 0 =>
       \A d \in decisions :
         \/ \E e \in Promotions : e.decision = d
         \/ \E c \in Callers : pc[c] = "auditDecision" /\ DecisionOf(c) = d

HistoryInv == TypeInv /\ EdgeAllowed /\ PathsComplete /\ AuditFollows

(* Who enters and leaves the two last transactions of a transition.         *)
LEMMA EndOfTransition ==
  ASSUME TypeInv, NEW c \in Callers, Step(c)
  PROVE  /\ pc'[c] = "decide" => CompareAndSet(c)
         /\ pc'[c] = "auditDecision" => SaveDecision(c)
         /\ pc[c] = "decide" => SaveDecision(c) \/ Crash(c)
         /\ pc[c] = "auditDecision" => AuditDecision(c) \/ Crash(c)
<1> pc \in [Callers -> Labels] /\ call \in [Callers -> Locals]
  BY DEF TypeInv, TypeOK
<1>1. /\ pc'[c] = "decide" => CompareAndSet(c)
      /\ pc'[c] = "auditDecision" => SaveDecision(c)
  BY CallerSteps DEF InTransition, Entered, ReadRuns, CompareAndSet, SaveDecision, Goto
<1>2. /\ pc[c] = "decide" => SaveDecision(c) \/ Crash(c)
      /\ pc[c] = "auditDecision" => AuditDecision(c) \/ Crash(c)
  BY DEF Step, Begin, Continue, ProposeChange, LoadRequest, RejectRequest,
         StartEvaluation, LoadVersion, Rollback, AuditProposed, SaveVersion, MarkValidated,
         AuditValidated, AuditRejected, SaveRun, AuditRun, RollbackLoad, ReadRuns, Refuse,
         CompareAndSet, SwapLost, SaveDecision, AuditDecision
<1>3. QED
  BY <1>1, <1>2

(* The audit log only grows, by a promotion only at the end of one.         *)
LEMMA AuditSteps ==
  ASSUME NEW c \in Callers, Step(c)
  PROVE  Promotions' = Promotions \/ AuditDecision(c)
<1>1. CASE audit' = audit
  BY <1>1 DEF Promotions
<1>2. ASSUME NEW e, audit' = audit \cup {e},
             e.action \notin {"strategy.promotion.approved", "strategy.promotion.rejected"}
      PROVE  Promotions' = Promotions
  BY <1>2 DEF Promotions
<1>3. CASE AuditProposed(c)
  BY <1>2, <1>3 DEF AuditProposed
<1>4. CASE AuditValidated(c)
  BY <1>2, <1>4 DEF AuditValidated
<1>5. CASE AuditRejected(c)
  BY <1>2, <1>5 DEF AuditRejected
<1>6. CASE AuditRun(c)
  BY <1>2, <1>6 DEF AuditRun
<1>7. CASE ~AuditProposed(c) /\ ~AuditValidated(c) /\ ~AuditRejected(c) /\ ~AuditRun(c)
           /\ ~AuditDecision(c)
  BY <1>1, <1>7 DEF Step, Begin, Continue, Crash, ProposeChange, LoadRequest, RejectRequest,
         StartEvaluation, LoadVersion, Rollback, SaveVersion, MarkValidated, SaveRun,
         RollbackLoad, ReadRuns, Refuse, CompareAndSet, SwapLost, SaveDecision
<1>8. QED
  BY <1>3, <1>4, <1>5, <1>6, <1>7

LEMMA NoneLost ==
  ASSUME TypeInv, NEW c \in Callers, Step(c), crashes' = 0
  PROVE  crashes = 0 /\ ~Crash(c)
<1> crashes \in Nat
  BY ConstantsAssumption DEF TypeInv, TypeOK
<1>1. ~Crash(c)
  BY DEF Crash
<1>2. crashes' = crashes
  BY <1>1 DEF Step, Begin, Continue, ProposeChange, LoadRequest, RejectRequest,
         StartEvaluation, LoadVersion, Rollback, AuditProposed, SaveVersion, MarkValidated,
         AuditValidated, AuditRejected, SaveRun, AuditRun, RollbackLoad, ReadRuns, Refuse,
         CompareAndSet, SwapLost, SaveDecision, AuditDecision
<1>3. QED
  BY <1>1, <1>2

LEMMA ExplainedStays ==
  ASSUME TypeInv, NEW c \in Callers, Step(c), ~Crash(c)
  PROVE  Explained \subseteq Explained'
<1> pc \in [Callers -> Labels] /\ call \in [Callers -> Locals]
  BY DEF TypeInv, TypeOK
<1>1. decisions \subseteq decisions'
  BY TableSteps DEF SaveDecision
<1>2. ASSUME NEW d \in decisions PROVE <<d.version, d.to>> \in Landings'
  BY <1>1 DEF Landings
<1>3. ASSUME NEW d \in Callers, Moving(d)
      PROVE  <<call[d].version, call[d].to>> \in Landings'
  <2>1. CASE d # c
    <3>1. pc'[d] = "decide" /\ call'[d] = call[d]
      BY <1>3, <2>1, CallerSteps DEF Moving
    <3>2. QED
      BY <3>1 DEF Landings, Moving
  <2>2. CASE d = c
    <3>1. SaveDecision(c)
      BY <1>3, <2>2, EndOfTransition DEF Moving
    <3>2. /\ DecisionOf(c) \in decisions' /\ DecisionOf(c).version = call[c].version
          /\ DecisionOf(c).to = call[c].to
      BY <3>1 DEF SaveDecision, DecisionOf
    <3>3. QED
      BY <2>2, <3>2 DEF Landings
  <2>3. QED
    BY <2>1, <2>2
<1>4. Landings \subseteq Landings'
  BY <1>2, <1>3 DEF Landings
<1>5. QED
  BY <1>4 DEF Explained

LEMMA StepPaths ==
  ASSUME HistoryInv, NEW c \in Callers, Step(c)
  PROVE  PathsComplete'
<1> SUFFICES ASSUME crashes' = 0
             PROVE  /\ \A v \in Versions : <<v, state'[v]>> \in Explained'
                    /\ \A d \in decisions' :
                         d.from # Absent /\ <<d.version, d.from>> \in Explained'
                    /\ \A d \in Callers : pc'[d] = "decide" =>
                         /\ call'[d].seen # Absent
                         /\ <<call'[d].version, call'[d].seen>> \in Explained'
  BY DEF PathsComplete, Moving
<1> /\ TypeInv /\ EdgeAllowed /\ state \in [Versions -> StateOrAbsent]
    /\ pc \in [Callers -> Labels] /\ call \in [Callers -> Locals] /\ LocalsOK
  BY DEF HistoryInv, TypeInv, TypeOK
<1>1. /\ \A v \in Versions : <<v, state[v]>> \in Explained
      /\ \A d \in decisions : d.from # Absent /\ <<d.version, d.from>> \in Explained
      /\ \A d \in Callers : pc[d] = "decide" =>
           call[d].seen # Absent /\ <<call[d].version, call[d].seen>> \in Explained
  BY NoneLost DEF HistoryInv, PathsComplete, Moving
<1>2. Explained \subseteq Explained'
  BY NoneLost, ExplainedStays
<1>3. CompareAndSet(c) =>
        /\ call[c].version \in Versions /\ call'[c] = call[c] /\ pc'[c] = "decide"
        /\ state[call[c].version] = call[c].seen /\ call[c].seen # Absent
        /\ state' = [state EXCEPT ![call[c].version] = call[c].to]
  BY DEF CompareAndSet, Goto, EdgeAllowed, InTransition, LocalsOK, LocalsFit, Allowed, Absent
<1>4. ASSUME NEW v \in Versions PROVE <<v, state'[v]>> \in Explained'
  <2>1. CASE state'[v] = state[v]
    BY <1>1, <1>2, <2>1
  <2>2. CASE state'[v] = "DRAFT"
    BY <2>2 DEF Explained
  <2>3. CASE state'[v] # state[v] /\ state'[v] # "DRAFT"
    <3>1. CompareAndSet(c)
      BY <2>3, TableSteps DEF SaveVersion
    <3>2. v = call'[c].version /\ state'[v] = call'[c].to /\ pc'[c] = "decide"
      BY <1>3, <2>3, <3>1
    <3>3. QED
      BY <3>2 DEF Explained, Landings, Moving
  <2>4. QED
    BY <2>1, <2>2, <2>3
<1>5. ASSUME NEW d \in decisions'
      PROVE  d.from # Absent /\ <<d.version, d.from>> \in Explained'
  <2>1. CASE d \in decisions
    BY <1>1, <1>2, <2>1
  <2>2. CASE d \notin decisions
    <3>1. d = DecisionOf(c) /\ pc[c] = "decide"
      BY <1>5, <2>2, TableSteps DEF SaveDecision
    <3>2. d.version = call[c].version /\ d.from = call[c].seen
      BY <3>1 DEF DecisionOf
    <3>3. QED
      BY <1>1, <1>2, <3>1, <3>2
  <2>3. QED
    BY <2>1, <2>2
<1>6. ASSUME NEW d \in Callers, pc'[d] = "decide"
      PROVE  call'[d].seen # Absent /\ <<call'[d].version, call'[d].seen>> \in Explained'
  <2>1. CASE d # c
    <3>1. pc[d] = "decide" /\ call'[d] = call[d]
      BY <1>6, <2>1, CallerSteps
    <3>2. QED
      BY <1>1, <1>2, <3>1
  <2>2. CASE d = c
    <3>1. CompareAndSet(c)
      BY <1>6, <2>2, EndOfTransition
    <3>2. QED
      BY <1>1, <1>2, <1>3, <2>2, <3>1
  <2>3. QED
    BY <2>1, <2>2
<1>7. QED
  BY <1>4, <1>5, <1>6

LEMMA StepAudit ==
  ASSUME HistoryInv, NEW c \in Callers, Step(c)
  PROVE  AuditFollows'
<1> /\ TypeInv /\ AuditFollows /\ pc \in [Callers -> Labels] /\ call \in [Callers -> Locals]
  BY DEF HistoryInv, TypeInv, TypeOK
<1>1. decisions \subseteq decisions'
  BY TableSteps DEF SaveDecision
<1>2. AuditDecision(c) =>
        /\ pc[c] = "auditDecision" /\ Promotions \subseteq Promotions'
        /\ \A e \in Promotions' : e \in Promotions \/ e.decision = DecisionOf(c)
        /\ \E e \in Promotions' : e.decision = DecisionOf(c)
  <2> SUFFICES ASSUME AuditDecision(c)
               PROVE  /\ pc[c] = "auditDecision"
                      /\ \E x \in Promotions' : /\ Promotions' = Promotions \cup {x}
                                                /\ x.decision = DecisionOf(c)
    OBVIOUS
  <2> DEFINE x == [action |-> IF Outcome(call[c].to) = "APPROVED"
                                THEN "strategy.promotion.approved"
                                ELSE "strategy.promotion.rejected",
                   decision |-> DecisionOf(c), actorType |-> call[c].actorType]
  <2>1. /\ x.action \in {"strategy.promotion.approved", "strategy.promotion.rejected"}
        /\ x.decision = DecisionOf(c) /\ audit' = audit \cup {x} /\ pc[c] = "auditDecision"
    BY DEF AuditDecision
  <2> HIDE DEF x
  <2>2. Promotions' = Promotions \cup {x} /\ x \in Promotions'
    BY <2>1 DEF Promotions
  <2>3. QED
    BY <2>1, <2>2
<1>3. Promotions \subseteq Promotions'
  BY <1>2, AuditSteps
<1>4. ASSUME NEW e \in Promotions' PROVE e.decision \in decisions'
  BY <1>1, <1>2, AuditSteps DEF AuditFollows
<1>5. ASSUME NEW d \in Callers, pc'[d] = "auditDecision" PROVE DecisionOf(d)' \in decisions'
  <2>1. CASE d # c
    <3>1. pc[d] = "auditDecision" /\ call'[d] = call[d]
      BY <1>5, <2>1, CallerSteps
    <3>2. QED
      BY <1>1, <3>1 DEF AuditFollows, DecisionOf
  <2>2. CASE d = c
    <3>1. SaveDecision(c) /\ call'[c] = call[c]
      BY <1>5, <2>2, EndOfTransition DEF SaveDecision, Goto
    <3>2. QED
      BY <2>2, <3>1 DEF SaveDecision, DecisionOf
  <2>3. QED
    BY <2>1, <2>2
<1>6. ASSUME crashes' = 0, NEW x \in decisions'
      PROVE  \/ \E e \in Promotions' : e.decision = x
             \/ \E d \in Callers : pc'[d] = "auditDecision" /\ DecisionOf(d)' = x
  <2>1. crashes = 0 /\ ~Crash(c)
    BY <1>6, NoneLost
  <2>2. CASE x \notin decisions
    <3>1. SaveDecision(c)
      BY <1>6, <2>2, TableSteps
    <3>2. x = DecisionOf(c) /\ pc'[c] = "auditDecision" /\ call'[c] = call[c]
      BY <1>6, <2>2, <3>1 DEF SaveDecision, Goto
    <3>3. QED
      BY <3>2 DEF DecisionOf
  <2>3. CASE \E e \in Promotions : e.decision = x
    BY <1>3, <2>3
  <2>4. ASSUME NEW d \in Callers, pc[d] = "auditDecision", DecisionOf(d) = x
        PROVE  \/ \E e \in Promotions' : e.decision = x
               \/ \E b \in Callers : pc'[b] = "auditDecision" /\ DecisionOf(b)' = x
    <3>1. CASE d # c
      <4>1. pc'[d] = "auditDecision" /\ call'[d] = call[d]
        BY <2>4, <3>1, CallerSteps
      <4>2. QED
        BY <2>4, <4>1 DEF DecisionOf
    <3>2. CASE d = c
      BY <1>2, <2>1, <2>4, <3>2, EndOfTransition
    <3>3. QED
      BY <3>1, <3>2
  <2>5. QED
    BY <2>1, <2>2, <2>3, <2>4 DEF AuditFollows
<1>7. QED
  BY <1>4, <1>5, <1>6 DEF AuditFollows

LEMMA InitHistoryInv == Init => HistoryInv
<1> SUFFICES ASSUME Init PROVE EdgeAllowed /\ PathsComplete /\ AuditFollows
  BY InitTypeInv DEF HistoryInv
<1>1. /\ decisions = {} /\ audit = {} /\ (\A c \in Callers : pc[c] = "idle")
      /\ \A v \in Versions : state[v] = Absent
  BY DEF Init
<1>2. QED
  BY <1>1 DEF EdgeAllowed, PathsComplete, AuditFollows, Promotions, Explained, Moving,
              InTransition

LEMMA NextHistoryInv == HistoryInv /\ [Next]_vars => HistoryInv'
<1> SUFFICES ASSUME HistoryInv, [Next]_vars PROVE HistoryInv'
  OBVIOUS
<1>1. TypeInv'
  BY NextTypeInv DEF HistoryInv
<1>2. CASE UNCHANGED vars
  <2>1. EdgeAllowed' /\ PathsComplete' /\ AuditFollows'
    BY <1>2 DEF vars, versionRow, callVars, HistoryInv, EdgeAllowed, PathsComplete, Explained,
                Landings, Moving, AuditFollows, Promotions, DecisionOf
  <2>2. QED
    BY <1>1, <2>1 DEF HistoryInv
<1>3. ASSUME NEW c \in Callers, Step(c) PROVE HistoryInv'
  BY <1>1, <1>3, StepEdgeAllowed, StepPaths, StepAudit DEF HistoryInv
<1>4. QED
  BY <1>2, <1>3 DEF Next, Step

(* At rest, and with no caller lost, the decisions of a version are its     *)
(* whole path and every one has its audit event.                            *)
THEOREM HistoryIsComplete == Spec => []HistoryExplainsState
<1>1. Spec => []HistoryInv
  BY InitHistoryInv, NextHistoryInv, PTL DEF Spec
<1>2. ASSUME HistoryInv PROVE HistoryExplainsState
  <2> SUFFICES ASSUME crashes = 0, \A c \in Callers : pc[c] = "idle"
               PROVE  /\ \A v \in Versions : state[v] \notin {Absent, "DRAFT"} =>
                           /\ state[v] \in {d.to : d \in DecisionsOn(v)}
                           /\ \A d \in DecisionsOn(v) :
                                d.from \in {x.to : x \in DecisionsOn(v)} \cup {"DRAFT"}
                      /\ decisions = {e.decision : e \in Promotions}
    BY DEF HistoryExplainsState
  <2>1. ASSUME NEW v, NEW s, s \notin {Absent, "DRAFT"}, <<v, s>> \in Explained
        PROVE  s \in {d.to : d \in DecisionsOn(v)}
    BY <2>1 DEF Explained, Landings, Moving, DecisionsOn
  <2>2. /\ \A v \in Versions : <<v, state[v]>> \in Explained
        /\ \A d \in decisions : d.from # Absent /\ <<d.version, d.from>> \in Explained
    BY <1>2 DEF HistoryInv, PathsComplete
  <2>3. ASSUME NEW v \in Versions, NEW d \in DecisionsOn(v)
        PROVE  d.from \in {x.to : x \in DecisionsOn(v)} \cup {"DRAFT"}
    BY <2>1, <2>2 DEF DecisionsOn
  <2>4. decisions = {e.decision : e \in Promotions}
    BY <1>2 DEF HistoryInv, AuditFollows
  <2>5. QED
    BY <2>1, <2>2, <2>3, <2>4
<1>3. QED
  BY <1>1, <1>2, PTL

-----------------------------------------------------------------------------
(* Refinement of the abstract lifecycle.                                    *)

LEMMA LadderRungs ==
  /\ Lifecycle!Climbs("DRAFT", "VALIDATED")
  /\ Lifecycle!Climbs("VALIDATED", "BACKTESTED")
  /\ Lifecycle!Climbs("BACKTESTED", "SHADOW")
  /\ Lifecycle!Climbs("SHADOW", "CANARY")
  /\ Lifecycle!Climbs("CANARY", "PRODUCTION")
<1>1. /\ 2 \in DOMAIN Lifecycle!Ladder \ {1} /\ 3 \in DOMAIN Lifecycle!Ladder \ {1}
      /\ 4 \in DOMAIN Lifecycle!Ladder \ {1} /\ 5 \in DOMAIN Lifecycle!Ladder \ {1}
      /\ 6 \in DOMAIN Lifecycle!Ladder \ {1}
  BY DEF Lifecycle!Ladder
<1>2. /\ Lifecycle!Ladder[1] = "DRAFT"      /\ Lifecycle!Ladder[2] = "VALIDATED"
      /\ Lifecycle!Ladder[3] = "BACKTESTED" /\ Lifecycle!Ladder[4] = "SHADOW"
      /\ Lifecycle!Ladder[5] = "CANARY"     /\ Lifecycle!Ladder[6] = "PRODUCTION"
  BY DEF Lifecycle!Ladder
<1>3. ASSUME NEW i \in DOMAIN Lifecycle!Ladder \ {1}
      PROVE  Lifecycle!Climbs(Lifecycle!Ladder[i - 1], Lifecycle!Ladder[i])
  BY DEF Lifecycle!Climbs
<1>4. 2 - 1 = 1 /\ 3 - 1 = 2 /\ 4 - 1 = 3 /\ 5 - 1 = 4 /\ 6 - 1 = 5
  OBVIOUS
<1> HIDE DEF Lifecycle!Ladder
<1>5. QED
  BY <1>1, <1>2, <1>3, <1>4

(* policy._ALLOWED only holds rungs of the ladder and exits.                *)
LEMMA AllowedIsLadder ==
  ASSUME NEW s \in StateOrAbsent, NEW t \in Allowed(s)
  PROVE  (Lifecycle!Climbs(s, t) \/ Lifecycle!Leaves(s, t)) /\ t \in Lifecycle!Stages
<1>1. {"DRAFT", "VALIDATED", "BACKTESTED", "SHADOW", "CANARY", "PRODUCTION"}
        = Lifecycle!Rungs
  <2>1. DOMAIN Lifecycle!Ladder = 1..6
    BY DEF Lifecycle!Ladder
  <2>2. 1..6 = {1, 2, 3, 4, 5, 6}
    OBVIOUS
  <2>3. QED
    BY <2>1, <2>2 DEF Lifecycle!Rungs, Lifecycle!Ladder
<1>2. Lifecycle!Climbs(s, t) \/ Lifecycle!Leaves(s, t)
  BY LadderRungs, <1>1 DEF Allowed, Lifecycle!Leaves, Lifecycle!Live
<1>3. t \in Lifecycle!Stages
  BY <1>1 DEF Allowed, Lifecycle!Stages
<1>4. QED
  BY <1>2, <1>3

LEMMA VersionsOfRuns ==
  ASSUME NEW rs, NEW run
  PROVE  /\ {r.version : r \in rs \cup {run}} = {r.version : r \in rs} \cup {run.version}
         /\ {r.version : r \in {q \in rs \cup {run} : q.beat}} =
              {r.version : r \in {q \in rs : q.beat}}
                \cup (IF run.beat THEN {run.version} ELSE {})
<1>1. {r.version : r \in rs \cup {run}} = {r.version : r \in rs} \cup {run.version}
  BY Zenon
<1>2. CASE run.beat
  <2>1. {q \in rs \cup {run} : q.beat} = {q \in rs : q.beat} \cup {run}
    BY <1>2
  <2>2. QED
    BY <1>1, <1>2, <2>1, Zenon
<1>3. CASE ~run.beat
  <2>1. {q \in rs \cup {run} : q.beat} = {q \in rs : q.beat}
    BY <1>3
  <2>2. QED
    BY <1>1, <1>3, <2>1
<1>4. QED
  BY <1>2, <1>3

LifecycleInv == EvidenceInv /\ ApprovalInv

LEMMA StepIsLifecycle ==
  ASSUME LifecycleInv, NEW c \in Callers, Step(c)
  PROVE  [Lifecycle!Next]_(Lifecycle!vars)
<1> DEFINE evaluated == {r.version : r \in runs}
           beat      == {r.version : r \in {q \in runs : q.beat}}
<1> /\ pc \in [Callers -> Labels] /\ call \in [Callers -> Locals]
    /\ state \in [Versions -> StateOrAbsent]
    /\ approval \in [Versions -> ApprovalIds \cup {None}]
    /\ TypeInv /\ EdgeAllowed /\ EvidenceHeld /\ ApprovalHeld
    /\ LocalsFit(pc[c], call[c])
  BY DEF LifecycleInv, EvidenceInv, ApprovalInv, TypeInv, TypeOK, LocalsOK
<1>1. CASE state' = state /\ approval' = approval /\ runs' = runs
  BY <1>1 DEF Lifecycle!vars
<1>2. CASE SaveVersion(c)
  <2>1. call[c].version \in Versions /\ approval' = approval /\ runs' = runs
    BY <1>2 DEF SaveVersion, LocalsFit
  <2>2. CASE state[call[c].version] = Absent
    <3>1. Lifecycle!Derive(call[c].version)
      BY <1>2, <2>1, <2>2 DEF SaveVersion, Lifecycle!Derive, Absent
    <3>2. QED
      BY <2>1, <3>1 DEF Lifecycle!Next
  <2>3. CASE state[call[c].version] # Absent
    BY <1>1, <1>2, <2>1, <2>3 DEF SaveVersion
  <2>4. QED
    BY <2>2, <2>3
<1>3. CASE SaveRun(c)
  <2>0. PICK v \in Versions : v = call[c].version
    BY <1>3 DEF SaveRun, LocalsFit
  <2> DEFINE run == [stamp |-> call[c].run, version |-> v, beat |-> call[c].beat]
  <2>1. state' = state /\ approval' = approval /\ runs' = runs \cup {run}
    BY <1>3, <2>0 DEF SaveRun, versionRow
  <2>2. evaluated' = evaluated \cup {v} /\ (beat' = beat \/ beat' = beat \cup {v})
    <3> run.version = v
      OBVIOUS
    <3> HIDE DEF run
    <3>1. evaluated' = evaluated \cup {run.version}
      BY <2>1, VersionsOfRuns
    <3>2. beat' = beat \cup (IF run.beat THEN {run.version} ELSE {})
      BY <2>1, VersionsOfRuns
    <3>3. QED
      BY <3>1, <3>2
  <2>3. Lifecycle!Evaluate(v)
    BY <2>1, <2>2 DEF Lifecycle!Evaluate
  <2>4. Lifecycle!Next
    BY <2>3 DEF Lifecycle!Next
  <2>5. QED
    BY <2>4
<1>4. CASE CompareAndSet(c)
  <2> DEFINE v == call[c].version
             to == call[c].to
  <2>1. /\ v \in Versions /\ state[v] = call[c].seen /\ to \in Allowed(state[v])
        /\ runs' = runs /\ state' = [state EXCEPT ![v] = to]
        /\ approval' = [approval EXCEPT ![v] = IF to = "PRODUCTION" THEN call[c].approval
                                                                   ELSE None]
    BY <1>4 DEF CompareAndSet, LocalsFit, InTransition, EdgeAllowed
  <2>2. (Lifecycle!Climbs(state[v], to) \/ Lifecycle!Leaves(state[v], to))
        /\ to \in Lifecycle!Stages
    BY <2>1, AllowedIsLadder
  <2>3. (to \in {"BACKTESTED", "SHADOW"} => v \in evaluated) /\ (to = "SHADOW" => v \in beat)
    BY <1>4 DEF CompareAndSet, EvidenceHeld, HasRun, HasBeat, RequiresEval
  <2>4. to = "PRODUCTION" => call[c].approval \in ApprovalIds
    BY <1>4 DEF CompareAndSet, ApprovalHeld
  <2>5. Lifecycle!Move(v, to)
    BY <2>1, <2>2, <2>3, <2>4 DEF Lifecycle!Move
  <2>6. QED
    BY <2>1, <2>2, <2>5 DEF Lifecycle!Next
<1>5. QED
  BY <1>1, <1>2, <1>3, <1>4, TableSteps

(* Every behaviour of the service, with any number of concurrent callers,   *)
(* lost calls and swallowed duplicates, is one of the abstract lifecycle.   *)
THEOREM ServiceImplementsLifecycle == Spec => ImplementsLifecycle
<1>1. Init => Lifecycle!Init
  BY DEF Init, Lifecycle!Init, Absent
<1>2. LifecycleInv /\ [Next]_vars => [Lifecycle!Next]_(Lifecycle!vars)
  <2> SUFFICES ASSUME LifecycleInv, [Next]_vars PROVE [Lifecycle!Next]_(Lifecycle!vars)
    OBVIOUS
  <2>1. CASE UNCHANGED vars
    BY <2>1 DEF vars, versionRow, Lifecycle!vars
  <2>2. CASE Next
    BY <2>2, StepIsLifecycle DEF Next, Step
  <2>3. QED
    BY <2>1, <2>2
<1>3. Spec => []LifecycleInv
  BY InitEvidenceInv, NextEvidenceInv, InitApprovalInv, NextApprovalInv, PTL
  DEF Spec, LifecycleInv
<1>4. QED
  BY <1>1, <1>2, <1>3, PTL DEF Spec, ImplementsLifecycle, Lifecycle!Spec
===============================================================================
