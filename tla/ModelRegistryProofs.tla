------------------------ MODULE ModelRegistryProofs ------------------------
(***************************************************************************)
(* Proofs about ModelRegistry, for every set of callers and versions.  The *)
(* argument: what a caller learned in an earlier transaction (its artifact *)
(* is stored, its row exists, the rules permit the move it is about to     *)
(* make from the state it saw) is a fact no other caller can take away,    *)
(* except the state itself, and that is what the guarded UPDATE tests.     *)
(***************************************************************************)
EXTENDS ModelRegistry, TLAPS

Labels == {"idle", "saveArtifact", "insert", "candidate", "promote", "readLatest", "swap"}

Locals == [version : Versions \cup {None}, seen : StateOrAbsent,
           to : StateOrAbsent, approval : ApprovalIds \cup {None},
           gate : GateEvidence, forecast : BOOLEAN]

Busy(label, l) == label # "idle" => l.version \in Versions

TypeInv == TypeOK /\ \A c \in Callers : Busy(pc[c], call[c])

LEMMA IdleType == Idle \in Locals
BY DEF Idle, Locals, StateOrAbsent, Absent, GateEvidence

LEMMA GotoTypes ==
  ASSUME TypeInv, NEW c \in Callers, NEW label \in Labels, NEW l \in Locals,
         Busy(label, l), Goto(c, label, l)
  PROVE  /\ pc' \in [Callers -> Labels] /\ call' \in [Callers -> Locals]
         /\ \A d \in Callers : Busy(pc'[d], call'[d])
BY DEF TypeInv, TypeOK, Busy, Goto, Labels, Locals

LEMMA ReturnTypes ==
  ASSUME TypeInv, NEW c \in Callers, Return(c)
  PROVE  /\ pc' \in [Callers -> Labels] /\ call' \in [Callers -> Locals]
         /\ \A d \in Callers : Busy(pc'[d], call'[d])
<1>1. "idle" \in Labels /\ Busy("idle", Idle)
  BY DEF Labels, Busy
<1>2. QED
  BY <1>1, IdleType, GotoTypes DEF Return

Answers == Versions \cup {None, "asked", "none", "raised"}

LEMMA RaiseTypes ==
  ASSUME TypeInv, NEW c \in Callers, Raise(c)
  PROVE  /\ pc' \in [Callers -> Labels] /\ call' \in [Callers -> Locals]
         /\ \A d \in Callers : Busy(pc'[d], call'[d])
         /\ answer' \in [Callers -> Answers]
<1>1. Return(c)
  BY DEF Raise
<1>2. answer' \in [Callers -> Answers]
  BY DEF Raise, TypeInv, TypeOK, Answers
<1>3. QED
  BY <1>1, <1>2, ReturnTypes

(* Reading the row leaves the caller before its next transaction, or out.  *)
LEMMA ReadRowTypes ==
  ASSUME TypeInv, NEW c \in Callers, NEW l \in Locals, l.version \in Versions,
         NEW to \in ModelState, ReadRow(c, l, to)
  PROVE  /\ pc' \in [Callers -> Labels] /\ call' \in [Callers -> Locals]
         /\ \A d \in Callers : Busy(pc'[d], call'[d])
         /\ answer' \in [Callers -> Answers]
<1> DEFINE label == IF to = "PRODUCTION" THEN "readLatest" ELSE "swap"
           next  == [l EXCEPT !.seen = state[l.version], !.to = to]
<1>1. label \in Labels /\ next \in Locals /\ Busy(label, next)
  BY DEF Labels, Locals, Busy, TypeInv, TypeOK, StateOrAbsent
<1>2. CASE Goto(c, label, next) /\ UNCHANGED answer
  <2>1. answer' \in [Callers -> Answers]
    BY <1>2 DEF TypeInv, TypeOK, Answers
  <2>2. QED
    BY <1>1, <1>2, <2>1, GotoTypes
<1>3. CASE Raise(c)
  BY <1>3, RaiseTypes
<1>4. QED
  BY <1>2, <1>3 DEF ReadRow

LEMMA InitTypeInv == Init => TypeInv
<1> SUFFICES ASSUME Init PROVE TypeInv
  OBVIOUS
<1>1. /\ state \in [Versions -> StateOrAbsent]
      /\ approval \in [Versions -> ApprovalIds \cup {None}]
      /\ gate \in [Versions -> GateEvidence]
  BY DEF Init, StateOrAbsent, GateEvidence
<1>2. files \subseteq Versions /\ raced \in BOOLEAN
  BY DEF Init
<1>3. moves \in 0..MaxMoves /\ crashes \in 0..MaxCrashes
  BY ConstantsAssumption DEF Init
<1>4. call \in [Callers -> Locals]
  BY IdleType DEF Init
<1>5. /\ pc \in [Callers -> Labels] /\ answer \in [Callers -> Answers]
      /\ \A c \in Callers : Busy(pc[c], call[c])
  BY DEF Init, Labels, Answers, Busy
<1>6. QED
  BY <1>1, <1>2, <1>3, <1>4, <1>5 DEF TypeInv, TypeOK, Labels, Locals, Answers

LEMMA NextTypeInv == TypeInv /\ [Next]_vars => TypeInv'
<1> SUFFICES ASSUME TypeInv, [Next]_vars PROVE TypeInv'
  OBVIOUS
<1> USE DEF TypeInv
<1>1. CASE UNCHANGED vars
  BY <1>1 DEF vars, rows, TypeOK, Busy
<1>2. ASSUME NEW c \in Callers, Begin(c) \/ Continue(c) \/ Crash(c) PROVE TypeInv'
  <2>1. CASE ForecastLoads(c)
    <3>1. answer' \in [Callers -> Answers]
      BY <2>1 DEF ForecastLoads, TypeOK, Live, Answers
    <3>2. QED
      BY <2>1, <3>1 DEF ForecastLoads, TypeOK, Answers, rows
  <2>2. ASSUME NEW v \in Versions, NEW retrain \in BOOLEAN,
               NEW approvalArg \in ApprovalIds \cup {None},
               ForecastTrains(c, v, retrain, approvalArg)
        PROVE  TypeInv'
    <3> DEFINE l == [Idle EXCEPT !.version = v, !.approval = approvalArg,
                                 !.gate = "placeholder", !.forecast = TRUE]
    <3>1. l \in Locals /\ "saveArtifact" \in Labels /\ Busy("saveArtifact", l)
      BY IdleType DEF Locals, Labels, Busy, GateEvidence, Idle
    <3>2. Goto(c, "saveArtifact", l)
      BY <2>2 DEF ForecastTrains
    <3>3. answer' \in [Callers -> Answers]
      BY <2>2 DEF ForecastTrains, TypeOK, Answers
    <3>4. QED
      BY <2>2, <3>1, <3>2, <3>3, GotoTypes
      DEF ForecastTrains, TypeOK, Labels, Locals, Answers, rows
  <2>3. ASSUME NEW v \in Versions, NEW to \in ModelState,
               NEW approvalArg \in ApprovalIds \cup {None}, NEW gateArg \in {"none", "beaten"},
               Transition(c, v, to, approvalArg, gateArg)
        PROVE  TypeInv'
    <3> DEFINE l == [Idle EXCEPT !.version = v, !.approval = approvalArg, !.gate = gateArg]
    <3>1. l \in Locals /\ l.version \in Versions
      BY IdleType DEF Locals, GateEvidence, Idle
    <3>2. ReadRow(c, l, to)
      BY <2>3 DEF Transition
    <3>3. /\ pc' \in [Callers -> Labels] /\ call' \in [Callers -> Locals]
          /\ \A d \in Callers : Busy(pc'[d], call'[d])
          /\ answer' \in [Callers -> Answers]
      BY <3>1, <3>2, ReadRowTypes
    <3>4. QED
      BY <2>3, <3>3 DEF Transition, TypeOK, Labels, Locals, Answers, rows
  <2>4. CASE SaveArtifact(c)
    <3>1. call[c] \in Locals /\ "insert" \in Labels /\ Busy("insert", call[c])
      BY <2>4 DEF SaveArtifact, TypeOK, Locals, Labels, Busy
    <3>2. files' \subseteq Versions
      BY <2>4, <3>1 DEF SaveArtifact, TypeOK, Busy
    <3>3. QED
      BY <2>4, <3>1, <3>2, GotoTypes DEF SaveArtifact, TypeOK, Labels, Locals, rows
  <2>5. CASE Insert(c)
    <3>1. call[c] \in Locals /\ "candidate" \in Labels /\ Busy("candidate", call[c])
      BY <2>5 DEF Insert, TypeOK, Locals, Labels, Busy
    <3>2. state' \in [Versions -> StateOrAbsent]
      BY <2>5 DEF Insert, TypeOK, StateOrAbsent, ModelState
    <3>3. answer' \in [Callers -> Answers]
      BY <2>5 DEF Insert, TypeOK, Answers
    <3>4. /\ pc' \in [Callers -> Labels] /\ call' \in [Callers -> Locals]
          /\ \A d \in Callers : Busy(pc'[d], call'[d])
      BY <2>5, <3>1, GotoTypes, ReturnTypes DEF Insert
    <3>5. QED
      BY <2>5, <3>2, <3>3, <3>4 DEF Insert, TypeOK, Labels, Locals, Answers
  <2>6. CASE ToCandidate(c) \/ ToProduction(c)
    <3>1. call[c] \in Locals /\ call[c].version \in Versions
      BY <2>6 DEF ToCandidate, ToProduction, TypeOK, Locals, Busy
    <3>2. ReadRow(c, call[c], "CANDIDATE") \/ ReadRow(c, call[c], "PRODUCTION")
      BY <2>6 DEF ToCandidate, ToProduction
    <3>3. "CANDIDATE" \in ModelState /\ "PRODUCTION" \in ModelState
      BY DEF ModelState
    <3>4. /\ pc' \in [Callers -> Labels] /\ call' \in [Callers -> Locals]
          /\ \A d \in Callers : Busy(pc'[d], call'[d])
          /\ answer' \in [Callers -> Answers]
      BY <3>1, <3>2, <3>3, ReadRowTypes
    <3>5. QED
      BY <2>6, <3>4 DEF ToCandidate, ToProduction, TypeOK, Labels, Locals, Answers, rows
  <2>7. CASE ReadLatest(c)
    <3>1. call[c] \in Locals /\ "swap" \in Labels /\ Busy("swap", call[c])
      BY <2>7 DEF ReadLatest, TypeOK, Locals, Labels, Busy
    <3>2. (Goto(c, "swap", call[c]) /\ UNCHANGED answer) \/ Raise(c)
      BY <2>7 DEF ReadLatest
    <3>3. /\ pc' \in [Callers -> Labels] /\ call' \in [Callers -> Locals]
          /\ \A d \in Callers : Busy(pc'[d], call'[d])
          /\ answer' \in [Callers -> Answers]
      BY <3>1, <3>2, GotoTypes, RaiseTypes DEF TypeOK, Answers
    <3>4. QED
      BY <2>7, <3>3 DEF ReadLatest, TypeOK, Labels, Locals, Answers, rows
  <2>8. CASE Swap(c)
    <3>1. /\ call[c] \in Locals /\ call[c].version \in Versions
          /\ "promote" \in Labels /\ Busy("promote", call[c])
      BY <2>8 DEF Swap, TypeOK, Locals, Labels, Busy
    <3>2. UpdateRow(call[c].version, call[c].seen, call[c].to, call[c].approval, call[c].gate)
      BY <2>8 DEF Swap
    <3>3. /\ state' \in [Versions -> StateOrAbsent]
          /\ approval' \in [Versions -> ApprovalIds \cup {None}]
          /\ gate' \in [Versions -> GateEvidence]
      BY <3>1, <3>2 DEF UpdateRow, TypeOK, Locals
    <3>4. answer' \in [Callers -> Answers]
      BY <2>8, <3>1 DEF Swap, Resume, TypeOK, Answers
    <3>5. /\ pc' \in [Callers -> Labels] /\ call' \in [Callers -> Locals]
          /\ \A d \in Callers : Busy(pc'[d], call'[d])
      BY <2>8, <3>1, GotoTypes, ReturnTypes DEF Swap, Resume
    <3>6. moves' \in 0..MaxMoves
      BY <2>8, ConstantsAssumption DEF Swap, TypeOK
    <3>7. QED
      BY <2>8, <3>3, <3>4, <3>5, <3>6 DEF Swap, TypeOK, Labels, Locals, Answers
  <2>9. CASE SwapLost(c)
    BY <2>9, RaiseTypes DEF SwapLost, TypeOK, Labels, Locals, Answers, rows
  <2>10. CASE Crash(c)
    <3>1. crashes' \in 0..MaxCrashes
      BY <2>10, ConstantsAssumption DEF Crash, TypeOK
    <3>2. QED
      BY <2>10, <3>1, RaiseTypes DEF Crash, TypeOK, Labels, Locals, Answers, rows
  <2>11. QED
    BY <1>2, <2>1, <2>2, <2>3, <2>4, <2>5, <2>6, <2>7, <2>8, <2>9, <2>10 DEF Begin, Continue
<1>3. QED
  BY <1>1, <1>2 DEF Next

LEMMA TypeInvHolds == Spec => []TypeInv
BY InitTypeInv, NextTypeInv, PTL DEF Spec

(* Every variable keeps its type, whatever the callers do.                 *)
THEOREM TypeCorrect == Spec => []TypeOK
BY TypeInvHolds, PTL DEF TypeInv

-----------------------------------------------------------------------------
(* What a caller between two transactions may rely on.                     *)

Registering == {"saveArtifact", "insert"}
Moving == {"candidate", "promote", "readLatest", "swap"}

(* No one else uses the label of a version that is being registered.       *)
Reserved(c) ==
  pc[c] \in Registering =>
    /\ state[call[c].version] = Absent
    /\ \A d \in Callers \ {c} : call[d].version # call[c].version

Stored(c) == pc[c] = "insert" => call[c].version \in files

Registered(c) == pc[c] \in Moving => state[call[c].version] # Absent

(* The move was checked against the row the caller saw.                    *)
Checked(c) ==
  pc[c] \in {"readLatest", "swap"} =>
    Permits(call[c].seen, call[c].to, call[c].gate # "none", call[c].approval # None)

CallerInv == \A c \in Callers : Reserved(c) /\ Stored(c) /\ Registered(c) /\ Checked(c)

RowInv == RowHasArtifact /\ GateBeforeService /\ LiveIsApproved

IInv == TypeInv /\ CallerInv /\ RowInv

(* Only an insertion or a swap touches the rows, artifacts are never lost, *)
(* and a row never disappears.                                             *)
LEMMA RowSteps ==
  ASSUME TypeInv, NEW c \in Callers, Begin(c) \/ Continue(c) \/ Crash(c)
  PROVE  /\ UNCHANGED rows \/ Insert(c) \/ Swap(c)
         /\ files \subseteq files'
         /\ \A d \in Callers \ {c} : pc'[d] = pc[d] /\ call'[d] = call[d]
<1>1. /\ UNCHANGED rows \/ Insert(c) \/ Swap(c)
      /\ files \subseteq files'
  BY DEF Begin, Continue, Crash, ForecastLoads, ForecastTrains, Transition, SaveArtifact,
         Insert, ToCandidate, ToProduction, ReadLatest, Swap, SwapLost, rows
<1> DEFINE Others == \A d \in Callers \ {c} : pc'[d] = pc[d] /\ call'[d] = call[d]
<1>2. pc \in [Callers -> Labels] /\ call \in [Callers -> Locals]
  BY DEF TypeInv, TypeOK, Labels, Locals
<1>3. ASSUME Begin(c) PROVE Others
  <2>1. CASE ForecastLoads(c)
    BY <2>1 DEF ForecastLoads
  <2>2. ASSUME NEW v \in Versions, NEW retrain \in BOOLEAN,
               NEW approvalArg \in ApprovalIds \cup {None},
               ForecastTrains(c, v, retrain, approvalArg)
        PROVE  Others
    BY <1>2, <2>2 DEF ForecastTrains, Goto
  <2>3. ASSUME NEW v \in Versions, NEW to \in ModelState,
               NEW approvalArg \in ApprovalIds \cup {None}, NEW gateArg \in {"none", "beaten"},
               Transition(c, v, to, approvalArg, gateArg)
        PROVE  Others
    BY <1>2, <2>3 DEF Transition, ReadRow, Raise, Return, Goto
  <2> HIDE DEF Others
  <2>4. QED
    BY <1>3, <2>1, <2>2, <2>3 DEF Begin
<1>4. ASSUME Continue(c) \/ Crash(c) PROVE Others
  <2>1. CASE ToCandidate(c) \/ ToProduction(c)
    BY <1>2, <2>1 DEF ToCandidate, ToProduction, ReadRow, Raise, Return, Goto
  <2>2. CASE SaveArtifact(c) \/ Insert(c) \/ ReadLatest(c) \/ Swap(c) \/ SwapLost(c) \/ Crash(c)
    BY <1>2, <2>2
    DEF SaveArtifact, Insert, ReadLatest, Swap, SwapLost, Crash, Resume, Raise, Return, Goto
  <2>3. QED
    BY <1>4, <2>1, <2>2 DEF Continue
<1>5. QED
  BY <1>1, <1>3, <1>4

(* The row a swap leaves behind.                                           *)
LEMMA SwapRow ==
  ASSUME TypeInv, CallerInv, NEW c \in Callers, Swap(c)
  PROVE  LET v == call[c].version
         IN  /\ v \in Versions /\ state[v] # Absent
             /\ call[c].to \in Allowed(state[v]) /\ call[c].to \in ModelState
             /\ state' = [state EXCEPT ![v] = call[c].to]
             /\ NeedsGate(state[v], call[c].to) =>
                  call[c].gate # "none" /\ gate' = [gate EXCEPT ![v] = call[c].gate]
             /\ ~NeedsGate(state[v], call[c].to) => gate' = gate
             /\ call[c].to = "PRODUCTION" =>
                  /\ call[c].approval # None
                  /\ approval' = [approval EXCEPT ![v] = call[c].approval]
             /\ call[c].to # "PRODUCTION" => approval' = approval
<1>1. /\ pc[c] = "swap" /\ state[call[c].version] = call[c].seen
      /\ UpdateRow(call[c].version, call[c].seen, call[c].to, call[c].approval, call[c].gate)
  BY DEF Swap
<1>2. call[c].version \in Versions
  BY <1>1 DEF TypeInv, Busy
<1>3. Permits(call[c].seen, call[c].to, call[c].gate # "none", call[c].approval # None)
  BY <1>1 DEF CallerInv, Checked
<1>4. call[c].to \in Allowed(call[c].seen)
  BY <1>3 DEF Permits
<1>5. call[c].seen # Absent /\ call[c].to \in ModelState
  BY <1>4 DEF Allowed, Absent, ModelState
<1>6. QED
  BY <1>1, <1>2, <1>3, <1>4, <1>5 DEF UpdateRow, Permits

LEMMA InsertRow ==
  ASSUME TypeInv, CallerInv, NEW c \in Callers, Insert(c)
  PROVE  LET v == call[c].version
         IN  /\ v \in Versions /\ v \in files /\ state[v] = Absent
             /\ \A d \in Callers \ {c} : call[d].version # v
             /\ state' = [state EXCEPT ![v] = "DRAFT"]
             /\ gate' = gate /\ approval' = approval
BY DEF Insert, TypeInv, Busy, CallerInv, Stored, Reserved, Registering

LEMMA InitIInv == Init => IInv
<1> SUFFICES ASSUME Init PROVE IInv
  OBVIOUS
<1>1. CallerInv
  BY DEF Init, CallerInv, Reserved, Stored, Registered, Checked, Registering, Moving
<1>2. RowInv
  BY DEF Init, RowInv, RowHasArtifact, GateBeforeService, LiveIsApproved, InService, Absent
<1>3. QED
  BY <1>1, <1>2, InitTypeInv DEF IInv

(* The rows stay sound: artifact stored, gate passed, approval given.      *)
LEMMA NextRowInv ==
  ASSUME IInv, NEW c \in Callers, Begin(c) \/ Continue(c) \/ Crash(c)
  PROVE  RowInv'
<1> USE DEF IInv
<1>1. CASE UNCHANGED rows
  BY <1>1, RowSteps DEF rows, RowInv, RowHasArtifact, GateBeforeService, LiveIsApproved
<1>2. CASE Insert(c)
  BY <1>2, InsertRow, RowSteps
  DEF RowInv, RowHasArtifact, GateBeforeService, LiveIsApproved, InService, TypeInv, TypeOK
<1>3. CASE Swap(c)
  <2> DEFINE v == call[c].version
  <2>1. RowHasArtifact'
    BY <1>3, SwapRow, RowSteps DEF RowInv, RowHasArtifact, TypeInv, TypeOK
  <2>2. GateBeforeService'
    <3>1. call[c].to \in InService => gate'[v] # "none"
      <4>1. CASE NeedsGate(state[v], call[c].to)
        BY <4>1, <1>3, SwapRow DEF TypeInv, TypeOK
      <4>2. CASE ~NeedsGate(state[v], call[c].to)
        BY <4>2, <1>3, SwapRow
        DEF NeedsGate, Allowed, InService, RowInv, GateBeforeService
      <4>3. QED
        BY <4>1, <4>2
    <3>2. \A w \in Versions \ {v} : state'[w] = state[w] /\ gate'[w] = gate[w]
      BY <1>3, SwapRow DEF TypeInv, TypeOK
    <3>3. v \in Versions /\ state'[v] = call[c].to
      BY <1>3, SwapRow DEF TypeInv, TypeOK
    <3>4. QED
      BY <3>1, <3>2, <3>3 DEF RowInv, GateBeforeService
  <2>3. LiveIsApproved'
    <3>1. \A w \in Versions \ {v} : state'[w] = state[w] /\ approval'[w] = approval[w]
      BY <1>3, SwapRow DEF TypeInv, TypeOK
    <3>2. v \in Versions /\ state'[v] = call[c].to
      BY <1>3, SwapRow DEF TypeInv, TypeOK
    <3>3. call[c].to = "PRODUCTION" => approval'[v] # None
      BY <1>3, SwapRow DEF TypeInv, TypeOK
    <3>4. QED
      BY <3>1, <3>2, <3>3 DEF RowInv, LiveIsApproved
  <2>4. QED
    BY <2>1, <2>2, <2>3 DEF RowInv
<1>4. QED
  BY <1>1, <1>2, <1>3, RowSteps

(* Where a caller that steps can find itself, and with which version.      *)
LEMMA OwnLabel ==
  ASSUME IInv, NEW c \in Callers, Begin(c) \/ Continue(c) \/ Crash(c)
  PROVE  \/ UNCHANGED <<pc, call>>
         \/ pc'[c] = "idle" /\ call'[c].version = None
         \/ /\ pc'[c] = "saveArtifact" /\ UNCHANGED rows
            /\ state[call'[c].version] = Absent
            /\ \A d \in Callers : call[d].version # call'[c].version
         \/ /\ pc[c] = "saveArtifact" /\ pc'[c] = "insert" /\ UNCHANGED rows
            /\ call'[c] = call[c] /\ call[c].version \in files'
         \/ /\ pc'[c] \in {"candidate", "promote"} /\ call'[c] = call[c]
            /\ Insert(c) \/ Swap(c)
         \/ /\ pc'[c] \in {"readLatest", "swap"} /\ UNCHANGED rows
            /\ state[call'[c].version] # Absent
            /\ Permits(call'[c].seen, call'[c].to, call'[c].gate # "none",
                       call'[c].approval # None)
<1> USE DEF IInv
<1>1. pc \in [Callers -> Labels] /\ call \in [Callers -> Locals]
  BY DEF TypeInv, TypeOK, Labels, Locals
<1>2. ASSUME Return(c) PROVE pc'[c] = "idle" /\ call'[c].version = None
  BY <1>1, <1>2 DEF Return, Goto, Idle
<1>3. ASSUME NEW l \in Locals, l.version \in Versions, NEW to \in ModelState,
             ReadRow(c, l, to)
      PROVE  \/ pc'[c] = "idle" /\ call'[c].version = None
             \/ /\ pc'[c] \in {"readLatest", "swap"}
                /\ state[call'[c].version] # Absent
                /\ Permits(call'[c].seen, call'[c].to, call'[c].gate # "none",
                           call'[c].approval # None)
  <2>1. CASE Raise(c)
    BY <1>2, <2>1 DEF Raise
  <2>2. CASE Permits(state[l.version], to, l.gate # "none", l.approval # None)
    <3>1. pc'[c] \in {"readLatest", "swap"}
      BY <1>1, <1>3, <2>2 DEF ReadRow, Goto
    <3>2. call'[c] = [l EXCEPT !.seen = state[l.version], !.to = to]
      BY <1>1, <1>3, <2>2 DEF ReadRow, Goto
    <3>3. /\ call'[c].version = l.version /\ call'[c].seen = state[l.version]
          /\ call'[c].to = to /\ call'[c].gate = l.gate /\ call'[c].approval = l.approval
      BY <3>2 DEF Locals
    <3>4. state[l.version] # Absent
      BY <2>2 DEF Permits, Allowed, Absent
    <3>5. QED
      BY <2>2, <3>1, <3>3, <3>4
  <2>3. QED
    BY <1>3, <2>1, <2>2 DEF ReadRow
<1>4. CASE Begin(c)
  <2>1. CASE ForecastLoads(c)
    BY <2>1 DEF ForecastLoads
  <2>2. ASSUME NEW v \in Versions, NEW retrain \in BOOLEAN,
               NEW approvalArg \in ApprovalIds \cup {None},
               ForecastTrains(c, v, retrain, approvalArg)
        PROVE  /\ pc'[c] = "saveArtifact" /\ UNCHANGED rows
               /\ state[call'[c].version] = Absent
               /\ \A d \in Callers : call[d].version # call'[c].version
    <3>1. pc'[c] = "saveArtifact" /\ call'[c].version = v
      BY <1>1, <2>2 DEF ForecastTrains, Goto, Idle
    <3>2. state[v] = Absent
      BY <2>2 DEF ForecastTrains, RowInv, RowHasArtifact
    <3>3. QED
      BY <2>2, <3>1, <3>2 DEF ForecastTrains
  <2>3. ASSUME NEW v \in Versions, NEW to \in ModelState,
               NEW approvalArg \in ApprovalIds \cup {None}, NEW gateArg \in {"none", "beaten"},
               Transition(c, v, to, approvalArg, gateArg)
        PROVE  /\ UNCHANGED rows
               /\ \/ pc'[c] = "idle" /\ call'[c].version = None
                  \/ /\ pc'[c] \in {"readLatest", "swap"}
                     /\ state[call'[c].version] # Absent
                     /\ Permits(call'[c].seen, call'[c].to, call'[c].gate # "none",
                                call'[c].approval # None)
    <3> DEFINE l == [Idle EXCEPT !.version = v, !.approval = approvalArg, !.gate = gateArg]
    <3>1. l \in Locals /\ l.version \in Versions
      BY IdleType DEF Locals, GateEvidence, Idle
    <3>2. ReadRow(c, l, to) /\ UNCHANGED rows
      BY <2>3 DEF Transition
    <3> HIDE DEF l
    <3>3. QED
      BY <1>3, <3>1, <3>2
  <2>4. QED
    BY <1>4, <2>1, <2>2, <2>3 DEF Begin
<1>5. CASE SaveArtifact(c)
  BY <1>1, <1>5 DEF SaveArtifact, Goto
<1>6. CASE Insert(c)
  BY <1>1, <1>2, <1>6 DEF Insert, Goto
<1>7. CASE ToCandidate(c) \/ ToProduction(c)
  <2>1. call[c] \in Locals /\ call[c].version \in Versions
    BY <1>7 DEF ToCandidate, ToProduction, TypeInv, TypeOK, Locals, Busy
  <2>2. UNCHANGED rows /\ (ReadRow(c, call[c], "CANDIDATE") \/ ReadRow(c, call[c], "PRODUCTION"))
    BY <1>7 DEF ToCandidate, ToProduction
  <2>3. "CANDIDATE" \in ModelState /\ "PRODUCTION" \in ModelState
    BY DEF ModelState
  <2>4. QED
    BY <1>3, <2>1, <2>2, <2>3
<1>8. CASE ReadLatest(c)
  <2>1. pc[c] = "readLatest" /\ UNCHANGED rows
    BY <1>8 DEF ReadLatest
  <2>2. Goto(c, "swap", call[c]) \/ Return(c)
    BY <1>8 DEF ReadLatest, Raise
  <2>3. CASE Goto(c, "swap", call[c])
    <3>1. pc'[c] = "swap" /\ call'[c] = call[c]
      BY <1>1, <2>3 DEF Goto
    <3>2. state[call[c].version] # Absent
      BY <2>1 DEF CallerInv, Registered, Moving
    <3>3. Permits(call[c].seen, call[c].to, call[c].gate # "none", call[c].approval # None)
      BY <2>1 DEF CallerInv, Checked
    <3>4. QED
      BY <2>1, <3>1, <3>2, <3>3
  <2>4. QED
    BY <1>2, <2>2, <2>3
<1>9. CASE Swap(c)
  BY <1>1, <1>2, <1>9 DEF Swap, Resume, Goto
<1>10. CASE SwapLost(c) \/ Crash(c)
  BY <1>2, <1>10 DEF SwapLost, Crash, Raise
<1>11. QED
  BY <1>4, <1>5, <1>6, <1>7, <1>8, <1>9, <1>10 DEF Continue

(* A registered version stays registered. *)
LEMMA RowsStay ==
  ASSUME IInv, NEW c \in Callers, Begin(c) \/ Continue(c) \/ Crash(c),
         NEW v \in Versions, state[v] # Absent
  PROVE  state'[v] # Absent
<1>1. CASE UNCHANGED rows
  BY <1>1 DEF rows
<1>2. CASE Insert(c)
  BY <1>2, InsertRow DEF IInv, TypeInv, TypeOK, Absent
<1>3. CASE Swap(c)
  BY <1>3, SwapRow DEF IInv, TypeInv, TypeOK, Absent, ModelState
<1>4. QED
  BY <1>1, <1>2, <1>3, RowSteps DEF IInv

(* A label that is being registered stays free: no other step creates its  *)
(* row.                                                                    *)
LEMMA LabelStaysFree ==
  ASSUME IInv, NEW c \in Callers, Begin(c) \/ Continue(c) \/ Crash(c),
         NEW v \in Versions, state[v] = Absent, call[c].version # v
  PROVE  state'[v] = Absent
<1>1. CASE UNCHANGED rows
  BY <1>1 DEF rows
<1>2. CASE Insert(c)
  BY <1>2, InsertRow DEF IInv, TypeInv, TypeOK
<1>3. CASE Swap(c)
  BY <1>3, SwapRow DEF IInv, TypeInv, TypeOK
<1>4. QED
  BY <1>1, <1>2, <1>3, RowSteps DEF IInv

LEMMA NextCallerInv ==
  ASSUME IInv, NEW c \in Callers, Begin(c) \/ Continue(c) \/ Crash(c)
  PROVE  CallerInv'
<1>1. \A d \in Callers \ {c} : pc'[d] = pc[d] /\ call'[d] = call[d]
  BY RowSteps DEF IInv
<1>2. files \subseteq files'
  BY RowSteps DEF IInv
<1>3. ASSUME NEW d \in Callers, d # c
      PROVE  Reserved(d)' /\ Stored(d)' /\ Registered(d)' /\ Checked(d)'
  <2>1. pc'[d] = pc[d] /\ call'[d] = call[d]
    BY <1>1, <1>3
  <2>2. ASSUME pc[d] \in Registering
        PROVE  /\ state'[call[d].version] = Absent
               /\ \A e \in Callers \ {d} : call'[e].version # call[d].version
    <3>1. call[d].version \in Versions /\ state[call[d].version] = Absent
      BY <2>2 DEF IInv, TypeInv, Busy, CallerInv, Reserved, Registering
    <3>2. \A e \in Callers \ {d} : call[e].version # call[d].version
      BY <2>2 DEF IInv, CallerInv, Reserved
    <3>3. state'[call[d].version] = Absent
      BY <1>3, <3>1, <3>2, LabelStaysFree
    <3>4. call[d].version # None
      BY <3>1, ConstantsAssumption
    <3>5. call'[c].version # call[d].version
      BY <1>3, <3>1, <3>2, <3>4, OwnLabel
    <3>6. QED
      BY <1>1, <3>2, <3>3, <3>5
  <2>3. Reserved(d)'
    BY <2>1, <2>2 DEF Reserved
  <2>4. Stored(d)'
    BY <1>2, <2>1 DEF Stored, IInv, CallerInv
  <2>5. Registered(d)'
    <3>1. SUFFICES ASSUME pc[d] \in Moving PROVE state'[call[d].version] # Absent
      BY <2>1 DEF Registered
    <3>2. call[d].version \in Versions /\ state[call[d].version] # Absent
      BY <3>1 DEF IInv, TypeInv, Busy, CallerInv, Registered, Moving
    <3>3. QED
      BY <3>2, RowsStay
  <2>6. Checked(d)'
    BY <2>1 DEF Checked, IInv, CallerInv
  <2>7. QED
    BY <2>3, <2>4, <2>5, <2>6
<1>4. Reserved(c)' /\ Stored(c)' /\ Registered(c)' /\ Checked(c)'
  <2>1. CASE UNCHANGED <<pc, call>>
    <3>1. Reserved(c)'
      <4>1. SUFFICES ASSUME pc[c] \in Registering
                     PROVE  /\ state'[call[c].version] = Absent
                            /\ \A d \in Callers \ {c} : call'[d].version # call[c].version
        BY <2>1 DEF Reserved
      <4>2. UNCHANGED rows
        BY <2>1, <4>1, RowSteps
        DEF Insert, Swap, Resume, Return, Goto, Registering, IInv, TypeInv, TypeOK
      <4>3. QED
        BY <2>1, <4>1, <4>2 DEF rows, IInv, CallerInv, Reserved
    <3>2. Stored(c)'
      BY <1>2, <2>1 DEF Stored, IInv, CallerInv
    <3>3. Registered(c)'
      <4>1. SUFFICES ASSUME pc[c] \in Moving PROVE state'[call[c].version] # Absent
        BY <2>1 DEF Registered
      <4>2. call[c].version \in Versions /\ state[call[c].version] # Absent
        BY <4>1 DEF IInv, TypeInv, Busy, CallerInv, Registered, Moving
      <4>3. QED
        BY <4>2, RowsStay
    <3>4. Checked(c)'
      BY <2>1 DEF Checked, IInv, CallerInv
    <3>5. QED
      BY <3>1, <3>2, <3>3, <3>4
  <2>2. CASE pc'[c] = "idle"
    BY <2>2 DEF Reserved, Stored, Registered, Checked, Registering, Moving
  <2>3. CASE /\ pc'[c] = "saveArtifact" /\ UNCHANGED rows
             /\ state[call'[c].version] = Absent
             /\ \A d \in Callers : call[d].version # call'[c].version
    BY <1>1, <2>3 DEF rows, Reserved, Stored, Registered, Checked, Registering, Moving
  <2>4. CASE /\ pc[c] = "saveArtifact" /\ pc'[c] = "insert" /\ UNCHANGED rows
             /\ call'[c] = call[c] /\ call[c].version \in files'
    <3>1. /\ state[call[c].version] = Absent
          /\ \A d \in Callers \ {c} : call[d].version # call[c].version
      BY <2>4 DEF IInv, CallerInv, Reserved, Registering
    <3>2. QED
      BY <1>1, <2>4, <3>1 DEF rows, Reserved, Stored, Registered, Checked, Registering, Moving
  <2>5. CASE /\ pc'[c] \in {"candidate", "promote"} /\ call'[c] = call[c]
             /\ Insert(c) \/ Swap(c)
    <3>1. state'[call[c].version] # Absent
      BY <2>5, InsertRow, SwapRow DEF IInv, TypeInv, TypeOK, Absent, ModelState
    <3>2. QED
      BY <2>5, <3>1 DEF Reserved, Stored, Registered, Checked, Registering, Moving
  <2>6. CASE /\ pc'[c] \in {"readLatest", "swap"} /\ UNCHANGED rows
             /\ state[call'[c].version] # Absent
             /\ Permits(call'[c].seen, call'[c].to, call'[c].gate # "none",
                        call'[c].approval # None)
    BY <2>6 DEF rows, Reserved, Stored, Registered, Checked, Registering, Moving
  <2>7. QED
    BY <2>1, <2>2, <2>3, <2>4, <2>5, <2>6, OwnLabel
<1>5. QED
  BY <1>3, <1>4 DEF CallerInv

LEMMA NextIInv == IInv /\ [Next]_vars => IInv'
<1> SUFFICES ASSUME IInv, [Next]_vars PROVE IInv'
  OBVIOUS
<1>1. TypeInv'
  BY NextTypeInv DEF IInv
<1>2. CASE UNCHANGED vars
  BY <1>1, <1>2
  DEF vars, rows, IInv, CallerInv, Reserved, Stored, Registered, Checked, RowInv,
      RowHasArtifact, GateBeforeService, LiveIsApproved
<1>3. CASE Next
  BY <1>1, <1>3, NextCallerInv, NextRowInv DEF Next, IInv
<1>4. QED
  BY <1>2, <1>3

LEMMA IInvHolds == Spec => []IInv
BY InitIInv, NextIInv, PTL DEF Spec

(* However callers race, a version in SHADOW or PRODUCTION has passed a    *)
(* promotion gate.                                                         *)
THEOREM GateHolds == Spec => []GateBeforeService
BY IInvHolds, PTL DEF IInv, RowInv

(* A PRODUCTION row carries the approval it was promoted with.             *)
THEOREM ApprovalHolds == Spec => []LiveIsApproved
BY IInvHolds, PTL DEF IInv, RowInv

(* No row without its artifact, whenever a registering process dies.       *)
THEOREM ArtifactHolds == Spec => []RowHasArtifact
BY IInvHolds, PTL DEF IInv, RowInv

-----------------------------------------------------------------------------
(* The script: what it forecasts with, and where its gate object gets to.  *)

(* Only the script has the placeholder gate, and it only moves towards     *)
(* PRODUCTION.                                                             *)
ScriptMoves ==
  \A c \in Callers :
    /\ pc[c] # "idle" /\ call[c].gate = "placeholder" => call[c].forecast
    /\ pc[c] \in {"readLatest", "swap"} /\ call[c].forecast =>
         call[c].to \in {"CANDIDATE", "PRODUCTION"}
    /\ pc[c] \in {"saveArtifact", "insert", "candidate", "promote"} => call[c].forecast

ScriptInv == ScriptMoves /\ ForecastIsApproved /\ PlaceholderIsApproved

(* An approval id is never taken off a row. *)
LEMMA ApprovalsStay ==
  ASSUME IInv, NEW c \in Callers, Begin(c) \/ Continue(c) \/ Crash(c),
         NEW v \in Versions, approval[v] # None
  PROVE  approval'[v] # None
<1>1. CASE UNCHANGED rows
  BY <1>1 DEF rows
<1>2. CASE Insert(c)
  BY <1>2, InsertRow DEF IInv
<1>3. CASE Swap(c)
  BY <1>3, SwapRow DEF IInv, TypeInv, TypeOK
<1>4. QED
  BY <1>1, <1>2, <1>3, RowSteps DEF IInv

LEMMA NextPlaceholder ==
  ASSUME IInv, ScriptInv, NEW c \in Callers, Begin(c) \/ Continue(c) \/ Crash(c)
  PROVE  PlaceholderIsApproved'
<1>1. CASE UNCHANGED rows
  BY <1>1 DEF rows, ScriptInv, PlaceholderIsApproved
<1>2. CASE Insert(c)
  BY <1>2, InsertRow DEF IInv, ScriptInv, PlaceholderIsApproved
<1>3. CASE Swap(c)
  <2> DEFINE v == call[c].version
  <2>1. v \in Versions /\ pc[c] = "swap"
    BY <1>3, SwapRow DEF IInv, Swap
  <2>2. ASSUME gate'[v] = "placeholder" PROVE approval'[v] # None
    <3>1. CASE NeedsGate(state[v], call[c].to)
      <4>1. call[c].gate = "placeholder"
        BY <1>3, <2>1, <2>2, <3>1, SwapRow DEF IInv, TypeInv, TypeOK
      <4>2. call[c].to = "PRODUCTION"
        BY <2>1, <3>1, <4>1 DEF ScriptInv, ScriptMoves, NeedsGate
      <4>3. QED
        BY <1>3, <2>1, <4>2, SwapRow DEF IInv, TypeInv, TypeOK
    <3>2. CASE ~NeedsGate(state[v], call[c].to)
      <4>1. gate[v] = "placeholder"
        BY <1>3, <2>2, <3>2, SwapRow DEF IInv
      <4>2. QED
        BY <2>1, <4>1, ApprovalsStay DEF ScriptInv, PlaceholderIsApproved
    <3>3. QED
      BY <3>1, <3>2
  <2>3. ASSUME NEW w \in Versions, w # v, gate'[w] = "placeholder" PROVE approval'[w] # None
    <3>1. gate[w] = "placeholder"
      BY <1>3, <2>3, SwapRow DEF IInv, TypeInv, TypeOK
    <3>2. QED
      BY <3>1, ApprovalsStay DEF ScriptInv, PlaceholderIsApproved
  <2>4. QED
    BY <2>2, <2>3 DEF PlaceholderIsApproved
<1>4. QED
  BY <1>1, <1>2, <1>3, RowSteps DEF IInv

(* What a step may make of the answers of the forecasts.                   *)
LEMMA AnswerSteps ==
  ASSUME IInv, NEW c \in Callers, Begin(c) \/ Continue(c) \/ Crash(c)
  PROVE  /\ \A d \in Callers \ {c} : answer'[d] = answer[d]
         /\ \/ answer'[c] \in {answer[c], "asked", "none", "raised"}
            \/ answer'[c] \in Live /\ UNCHANGED rows
            \/ /\ Swap(c) /\ call[c].forecast /\ call[c].to # "CANDIDATE"
               /\ answer'[c] = call[c].version
<1>1. answer \in [Callers -> Answers]
  BY DEF IInv, TypeInv, TypeOK, Answers
<1>2. CASE UNCHANGED answer
  BY <1>2
<1>3. CASE ForecastLoads(c)
  BY <1>1, <1>3 DEF ForecastLoads
<1>4. CASE \E x \in {"asked", "none", "raised"} : answer' = [answer EXCEPT ![c] = x]
  BY <1>1, <1>4
<1>5. CASE Swap(c)
  BY <1>1, <1>5 DEF Swap, Resume
<1>6. CASE Begin(c) \/ Crash(c) \/ Insert(c) \/ ToCandidate(c) \/ ToProduction(c)
           \/ ReadLatest(c) \/ SwapLost(c) \/ SaveArtifact(c)
  <2>1. CASE Begin(c)
    <3>1. ForecastLoads(c) \/ UNCHANGED answer
             \/ \E x \in {"asked", "none", "raised"} : answer' = [answer EXCEPT ![c] = x]
      <4>1. ASSUME NEW v \in Versions, NEW to \in ModelState,
                   NEW approvalArg \in ApprovalIds \cup {None},
                   NEW gateArg \in {"none", "beaten"},
                   Transition(c, v, to, approvalArg, gateArg)
            PROVE  \/ UNCHANGED answer
                   \/ answer' = [answer EXCEPT ![c] = "raised"]
        BY <4>1 DEF Transition, ReadRow, Raise
      <4>2. ASSUME NEW v \in Versions, NEW retrain \in BOOLEAN,
                   NEW approvalArg \in ApprovalIds \cup {None},
                   ForecastTrains(c, v, retrain, approvalArg)
            PROVE  answer' = [answer EXCEPT ![c] = "asked"]
        BY <4>2 DEF ForecastTrains
      <4>3. QED
        BY <2>1, <4>1, <4>2 DEF Begin
    <3>2. QED
      BY <1>2, <1>3, <1>4, <3>1
  <2>2. UNCHANGED answer \/ \E x \in {"asked", "none", "raised"} : answer' = [answer EXCEPT ![c] = x]
           \/ Begin(c)
    <3>1. CASE Crash(c) \/ SaveArtifact(c)
      BY <3>1 DEF Crash, SaveArtifact, Raise
    <3>2. CASE Insert(c)
      BY <3>2 DEF Insert, Raise
    <3>3. CASE ToCandidate(c) \/ ToProduction(c)
      BY <3>3 DEF ToCandidate, ToProduction, ReadRow, Raise
    <3>4. CASE ReadLatest(c)
      BY <3>4 DEF ReadLatest, Raise
    <3>5. CASE SwapLost(c)
      BY <3>5 DEF SwapLost, Raise
    <3>6. QED
      BY <1>6, <3>1, <3>2, <3>3, <3>4, <3>5
  <2>3. QED
    BY <1>2, <1>4, <2>1, <2>2
<1>7. QED
  BY <1>5, <1>6 DEF Continue

LEMMA NextForecast ==
  ASSUME IInv, ScriptInv, NEW c \in Callers, Begin(c) \/ Continue(c) \/ Crash(c)
  PROVE  ForecastIsApproved'
<1>1. ASSUME NEW d \in Callers, answer'[d] \in Versions, answer'[d] = answer[d]
      PROVE  approval'[answer'[d]] # None
  BY <1>1, ApprovalsStay DEF ScriptInv, ForecastIsApproved
<1>2. ASSUME answer'[c] \in Versions, answer'[c] \in Live, UNCHANGED rows
      PROVE  approval'[answer'[c]] # None
  BY <1>2 DEF rows, Live, IInv, RowInv, LiveIsApproved
<1>3. ASSUME Swap(c), call[c].forecast, call[c].to # "CANDIDATE", answer'[c] = call[c].version
      PROVE  approval'[answer'[c]] # None
  <2>1. call[c].to = "PRODUCTION" /\ call[c].version \in Versions
    BY <1>3, SwapRow DEF Swap, ScriptInv, ScriptMoves, IInv
  <2>2. QED
    BY <1>3, <2>1, SwapRow DEF IInv, TypeInv, TypeOK
<1>4. answer'[c] \in {"asked", "none", "raised"} => answer'[c] \notin Versions
  BY ConstantsAssumption
<1>5. QED
  BY <1>1, <1>2, <1>3, <1>4, AnswerSteps DEF ForecastIsApproved

LEMMA ReadRowKeeps ==
  ASSUME TypeInv, NEW c \in Callers, NEW l \in Locals, NEW to \in ModelState,
         ReadRow(c, l, to)
  PROVE  \/ pc'[c] = "idle"
         \/ /\ pc'[c] \in {"readLatest", "swap"}
            /\ call'[c].forecast = l.forecast /\ call'[c].gate = l.gate /\ call'[c].to = to
<1> DEFINE label == IF to = "PRODUCTION" THEN "readLatest" ELSE "swap"
           next  == [l EXCEPT !.seen = state[l.version], !.to = to]
<1>1. pc \in [Callers -> Labels] /\ call \in [Callers -> Locals]
  BY DEF TypeInv, TypeOK, Labels, Locals
<1>2. next.forecast = l.forecast /\ next.gate = l.gate /\ next.to = to
  BY DEF Locals
<1>3. CASE Goto(c, label, next)
  <2>1. pc'[c] = label /\ call'[c] = next
    BY <1>1, <1>3 DEF Goto
  <2>2. QED
    BY <1>2, <2>1
<1>4. CASE Return(c)
  BY <1>1, <1>4 DEF Return, Goto
<1>5. QED
  BY <1>3, <1>4 DEF ReadRow, Raise

LEMMA NextScriptMoves ==
  ASSUME IInv, ScriptMoves, NEW c \in Callers, Begin(c) \/ Continue(c) \/ Crash(c)
  PROVE  ScriptMoves'
<1>1. pc \in [Callers -> Labels] /\ call \in [Callers -> Locals]
  BY DEF IInv, TypeInv, TypeOK, Labels, Locals
<1> DEFINE Fine ==
      /\ pc'[c] # "idle" /\ call'[c].gate = "placeholder" => call'[c].forecast
      /\ pc'[c] \in {"readLatest", "swap"} /\ call'[c].forecast =>
           call'[c].to \in {"CANDIDATE", "PRODUCTION"}
      /\ pc'[c] \in {"saveArtifact", "insert", "candidate", "promote"} => call'[c].forecast
<1>3. ASSUME Begin(c) PROVE Fine
  <2>1. ASSUME ForecastLoads(c) PROVE Fine
    BY <2>1 DEF ForecastLoads, ScriptMoves
  <2>2. ASSUME NEW v \in Versions, NEW retrain \in BOOLEAN,
               NEW approvalArg \in ApprovalIds \cup {None},
               ForecastTrains(c, v, retrain, approvalArg)
        PROVE  Fine
    BY <1>1, <2>2 DEF ForecastTrains, Goto, Idle
  <2>3. ASSUME NEW v \in Versions, NEW to \in ModelState,
               NEW approvalArg \in ApprovalIds \cup {None}, NEW gateArg \in {"none", "beaten"},
               Transition(c, v, to, approvalArg, gateArg)
        PROVE  Fine
    <3> DEFINE l == [Idle EXCEPT !.version = v, !.approval = approvalArg, !.gate = gateArg]
    <3>1. l \in Locals /\ ~l.forecast /\ l.gate # "placeholder"
      BY IdleType DEF Locals, GateEvidence, Idle
    <3>2. ReadRow(c, l, to)
      BY <2>3 DEF Transition
    <3> HIDE DEF l
    <3>3. QED
      BY <3>1, <3>2, ReadRowKeeps DEF IInv
  <2> HIDE DEF Fine
  <2>4. QED
    BY <1>3, <2>1, <2>2, <2>3 DEF Begin
<1>4. ASSUME ToCandidate(c) \/ ToProduction(c) PROVE Fine
  <2>1. call[c] \in Locals /\ "CANDIDATE" \in ModelState /\ "PRODUCTION" \in ModelState
    BY <1>1 DEF ModelState
  <2>2. /\ pc[c] \in {"candidate", "promote"}
        /\ ReadRow(c, call[c], "CANDIDATE") \/ ReadRow(c, call[c], "PRODUCTION")
    BY <1>4 DEF ToCandidate, ToProduction
  <2>3. call[c].forecast
    BY <2>2 DEF ScriptMoves
  <2>4. QED
    BY <2>1, <2>2, <2>3, ReadRowKeeps DEF IInv
<1>5. ASSUME SaveArtifact(c) \/ Insert(c) PROVE Fine
  BY <1>1, <1>5 DEF SaveArtifact, Insert, Return, Goto, ScriptMoves
<1>6. ASSUME ReadLatest(c) \/ SwapLost(c) \/ Crash(c) PROVE Fine
  BY <1>1, <1>6 DEF ReadLatest, SwapLost, Crash, Raise, Return, Goto, ScriptMoves
<1>7. ASSUME Swap(c) PROVE Fine
  BY <1>1, <1>7 DEF Swap, Resume, Return, Goto, ScriptMoves
<1> HIDE DEF Fine
<1>8. Fine
  BY <1>3, <1>4, <1>5, <1>6, <1>7 DEF Continue
<1>9. \A d \in Callers \ {c} : pc'[d] = pc[d] /\ call'[d] = call[d]
  BY RowSteps DEF IInv
<1>10. QED
  BY <1>8, <1>9 DEF ScriptMoves, Fine

LEMMA ScriptInvHolds == Spec => []ScriptInv
<1>1. Init => ScriptInv
  BY ConstantsAssumption
  DEF Init, ScriptInv, ScriptMoves, ForecastIsApproved, PlaceholderIsApproved
<1>2. IInv /\ ScriptInv /\ [Next]_vars => ScriptInv'
  <2> SUFFICES ASSUME IInv, ScriptInv, [Next]_vars PROVE ScriptInv'
    OBVIOUS
  <2>1. CASE UNCHANGED vars
    BY <2>1 DEF vars, rows, ScriptInv, ScriptMoves, ForecastIsApproved, PlaceholderIsApproved
  <2>2. CASE Next
    BY <2>2, NextScriptMoves, NextForecast, NextPlaceholder DEF Next, ScriptInv
  <2>3. QED
    BY <2>1, <2>2
<1>3. QED
  BY <1>1, <1>2, IInvHolds, PTL DEF Spec

(* A version the script forecasts with was approved by a human.            *)
THEOREM ForecastApproved == Spec => []ForecastIsApproved
BY ScriptInvHolds, PTL DEF ScriptInv

(* The gate object that always passes never puts a version into service    *)
(* without a human approval.                                               *)
THEOREM PlaceholderApproved == Spec => []PlaceholderIsApproved
BY ScriptInvHolds, PTL DEF ScriptInv

-----------------------------------------------------------------------------
(* Refinement of ModelLifecycle.                                           *)

LEMMA InitLifecycle == Init => Lifecycle!Init
BY ConstantsAssumption DEF Init, Lifecycle!Init, Absent, Lifecycle!Absent

LEMMA StepLifecycle == IInv /\ [Next]_vars => [Lifecycle!Next]_(Lifecycle!vars)
<1> SUFFICES ASSUME IInv, [Next]_vars PROVE [Lifecycle!Next]_(Lifecycle!vars)
  OBVIOUS
<1> DEFINE gated(g)  == {v \in Versions : g[v] # "none"}
           signed(a) == {v \in Versions : a[v] # None}
<1>1. CASE UNCHANGED rows
  BY <1>1 DEF rows, Lifecycle!vars
<1>2. ASSUME NEW c \in Callers, Insert(c) PROVE Lifecycle!Next
  <2> DEFINE v == call[c].version
  <2>1. /\ v \in Versions /\ state[v] = Absent /\ state' = [state EXCEPT ![v] = "DRAFT"]
        /\ gate' = gate /\ approval' = approval
    BY <1>2, InsertRow DEF IInv
  <2>2. PICK e \in Versions : e = v
    BY <2>1
  <2>3. Lifecycle!Register(e)
    BY <2>1, <2>2 DEF Lifecycle!Register, Absent, Lifecycle!Absent
  <2>4. QED
    BY <2>3 DEF Lifecycle!Next
<1>3. ASSUME NEW c \in Callers, Swap(c) PROVE Lifecycle!Next
  <2>1. PICK e \in Versions : e = call[c].version
    BY <1>3, SwapRow DEF IInv
  <2>2. PICK to \in ModelState : to = call[c].to
    BY <1>3, SwapRow DEF IInv
  <2>3. /\ to \in Allowed(state[e]) /\ state' = [state EXCEPT ![e] = to]
    BY <1>3, <2>1, <2>2, SwapRow DEF IInv
  <2>4. gate' = gate \/ (gate'[e] # "none" /\ \A w \in Versions \ {e} : gate'[w] = gate[w])
    BY <1>3, <2>1, <2>2, SwapRow DEF IInv, TypeInv, TypeOK
  <2>5. gated(gate') = gated(gate) \/ gated(gate') = gated(gate) \cup {e}
    BY <2>4
  <2>6. \/ approval' = approval
        \/ approval'[e] # None /\ \A w \in Versions \ {e} : approval'[w] = approval[w]
    BY <1>3, <2>1, <2>2, SwapRow DEF IInv, TypeInv, TypeOK
  <2>7. signed(approval') = signed(approval) \/ signed(approval') = signed(approval) \cup {e}
    BY <2>6
  <2>8. RowInv' /\ state'[e] = to
    BY <1>3, <2>3, NextRowInv DEF IInv, TypeInv, TypeOK, Continue
  <2>9. to \in InService => e \in gated(gate')
    BY <2>8 DEF RowInv, GateBeforeService
  <2>10. to = "PRODUCTION" => e \in signed(approval')
    BY <2>8 DEF RowInv, LiveIsApproved
  <2>11. Lifecycle!Move(e, to)
    BY <2>3, <2>5, <2>7, <2>9, <2>10
    DEF Lifecycle!Move, Lifecycle!Allowed, Allowed, Lifecycle!InService, InService
  <2>12. QED
    BY <2>11 DEF Lifecycle!Next, Lifecycle!ModelState, ModelState
<1>4. QED
  <2>1. CASE UNCHANGED vars
    BY <1>1, <2>1 DEF vars
  <2>2. CASE Next
    BY <1>1, <1>2, <1>3, <2>2, RowSteps DEF Next, IInv
  <2>3. QED
    BY <2>1, <2>2

(* The SQL registry, with its races and lost callers, is the lifecycle.    *)
THEOREM RegistryImplementsLifecycle == Spec => ImplementsLifecycle
BY InitLifecycle, StepLifecycle, IInvHolds, PTL DEF Spec, ImplementsLifecycle, Lifecycle!Spec

-----------------------------------------------------------------------------
(* Two live versions.                                                      *)

(* Without a race, a promotion about to be committed still finds no other  *)
(* version live.                                                           *)
LookedUp ==
  ~raced => \A c \in Callers : pc[c] = "swap" /\ call[c].to = "PRODUCTION" =>
    Live \subseteq {call[c].version}

(* Reading the row never leads straight to the commit of a promotion.      *)
LEMMA ReadRowLooksUp ==
  ASSUME TypeInv, NEW c \in Callers, NEW l \in Locals, NEW to \in ModelState,
         ReadRow(c, l, to)
  PROVE  ~(pc'[c] = "swap" /\ call'[c].to = "PRODUCTION")
<1> DEFINE label == IF to = "PRODUCTION" THEN "readLatest" ELSE "swap"
           next  == [l EXCEPT !.seen = state[l.version], !.to = to]
<1>1. pc \in [Callers -> Labels] /\ call \in [Callers -> Locals]
  BY DEF TypeInv, TypeOK, Labels, Locals
<1>2. next.to = to
  BY DEF Locals
<1>3. CASE Goto(c, label, next)
  <2>1. pc'[c] = label /\ call'[c] = next
    BY <1>1, <1>3 DEF Goto
  <2>2. QED
    BY <1>2, <2>1
<1>4. CASE Return(c)
  BY <1>1, <1>4 DEF Return, Goto
<1>5. QED
  BY <1>3, <1>4 DEF ReadRow, Raise

LEMMA NextTwoLive ==
  IInv /\ LookedUp /\ TwoLiveMeansRace /\ [Next]_vars => LookedUp' /\ TwoLiveMeansRace'
<1> SUFFICES ASSUME IInv, LookedUp, TwoLiveMeansRace, [Next]_vars
             PROVE  LookedUp' /\ TwoLiveMeansRace'
  OBVIOUS
<1>1. CASE UNCHANGED vars
  BY <1>1 DEF vars, rows, LookedUp, TwoLiveMeansRace, Live
<1>2. ASSUME NEW c \in Callers, Begin(c) \/ Continue(c) \/ Crash(c)
      PROVE  LookedUp' /\ TwoLiveMeansRace'
  <2>1. pc \in [Callers -> Labels] /\ call \in [Callers -> Locals]
    BY DEF IInv, TypeInv, TypeOK, Labels, Locals
  <2>2. raced' = raced \/ Swap(c)
    BY <1>2 DEF Begin, Continue, Crash, ForecastLoads, ForecastTrains, Transition, SaveArtifact,
                Insert, ToCandidate, ToProduction, ReadLatest, SwapLost
  <2>3. raced => raced'
    BY <2>2 DEF Swap
  <2>4. Live' \subseteq Live \cup (IF Swap(c) /\ call[c].to = "PRODUCTION"
                                   THEN {call[c].version} ELSE {})
    <3>1. CASE UNCHANGED rows
      BY <3>1 DEF rows, Live
    <3>2. CASE Insert(c)
      BY <3>2, InsertRow DEF Live, IInv, TypeInv, TypeOK
    <3>3. CASE Swap(c)
      BY <3>3, SwapRow DEF Live, IInv, TypeInv, TypeOK
    <3>4. QED
      BY <1>2, <3>1, <3>2, <3>3, RowSteps DEF IInv
  <2>5. TwoLiveMeansRace'
    <3>1. ASSUME ~raced, Swap(c), call[c].to = "PRODUCTION" PROVE Live \subseteq {call[c].version}
      BY <3>1 DEF LookedUp, Swap
    <3>2. QED
      BY <2>3, <2>4, <3>1 DEF TwoLiveMeansRace
  <2>6. ASSUME NEW d \in Callers, d # c, ~raced', pc'[d] = "swap", call'[d].to = "PRODUCTION"
        PROVE  Live' \subseteq {call'[d].version}
    <3>1. pc[d] = "swap" /\ call'[d] = call[d]
      BY <1>2, <2>6, RowSteps DEF IInv
    <3>2. Live \subseteq {call[d].version}
      BY <2>3, <2>6, <3>1 DEF LookedUp
    <3>3. Swap(c) /\ call[c].to = "PRODUCTION" => call[c].version = call[d].version
      BY <2>6, <3>1 DEF Swap, Overtakes
    <3>4. QED
      BY <2>4, <3>1, <3>2, <3>3
  <2>7. ASSUME ~raced', pc'[c] = "swap", call'[c].to = "PRODUCTION"
        PROVE  Live' \subseteq {call'[c].version}
    <3>1. CASE ReadLatest(c)
      <4>1. Live' = Live
        BY <3>1 DEF ReadLatest, rows, Live
      <4>2. Goto(c, "swap", call[c]) /\ (Live = {} \/ call[c].version \in Live)
        BY <2>1, <2>7, <3>1 DEF ReadLatest, Raise, Return, Goto
      <4>3. call'[c] = call[c]
        BY <2>1, <4>2 DEF Goto
      <4>4. \A v, w \in Live : v = w
        BY <2>3, <2>7 DEF TwoLiveMeansRace
      <4>5. QED
        BY <4>1, <4>2, <4>3, <4>4
    <3>2. CASE Begin(c)
      <4>1. CASE ForecastLoads(c)
        <5>1. UNCHANGED <<pc, call, rows>>
          BY <4>1 DEF ForecastLoads
        <5>2. QED
          BY <2>3, <2>7, <5>1 DEF LookedUp, Live, rows
      <4>2. pc'[c] = "swap" => ~\E v \in Versions, retrain \in BOOLEAN,
              approvalArg \in ApprovalIds \cup {None} :
                ForecastTrains(c, v, retrain, approvalArg)
        BY <2>1 DEF ForecastTrains, Goto
      <4>3. ASSUME NEW v \in Versions, NEW to \in ModelState,
                   NEW approvalArg \in ApprovalIds \cup {None},
                   NEW gateArg \in {"none", "beaten"},
                   Transition(c, v, to, approvalArg, gateArg)
            PROVE  FALSE
        <5> DEFINE l == [Idle EXCEPT !.version = v, !.approval = approvalArg, !.gate = gateArg]
        <5>1. l \in Locals
          BY IdleType DEF Locals, GateEvidence, Idle
        <5>2. ReadRow(c, l, to)
          BY <4>3 DEF Transition
        <5> HIDE DEF l
        <5>3. QED
          BY <2>7, <5>1, <5>2, ReadRowLooksUp DEF IInv
      <4>4. QED
        BY <2>7, <3>2, <4>1, <4>2, <4>3 DEF Begin
    <3>3. CASE ToCandidate(c) \/ ToProduction(c)
      <4>1. call[c] \in Locals /\ "CANDIDATE" \in ModelState /\ "PRODUCTION" \in ModelState
        BY <2>1 DEF ModelState
      <4>2. ReadRow(c, call[c], "CANDIDATE") \/ ReadRow(c, call[c], "PRODUCTION")
        BY <3>3 DEF ToCandidate, ToProduction
      <4>3. QED
        BY <2>7, <4>1, <4>2, ReadRowLooksUp DEF IInv
    <3>4. CASE SaveArtifact(c) \/ Insert(c) \/ Swap(c) \/ SwapLost(c) \/ Crash(c)
      BY <2>1, <2>7, <3>4
      DEF SaveArtifact, Insert, Swap, SwapLost, Crash, Resume, Goto, Raise, Return
    <3>5. QED
      BY <1>2, <3>1, <3>2, <3>3, <3>4 DEF Continue
  <2>8. QED
    BY <2>5, <2>6, <2>7 DEF LookedUp
<1>3. QED
  BY <1>1, <1>2 DEF Next

(* Two PRODUCTION versions of a model are always the work of two           *)
(* overlapping promotions: otherwise the look-up before a promotion is     *)
(* still right when the promotion commits.                                 *)
THEOREM TwoLiveOnlyByRace == Spec => []TwoLiveMeansRace
<1>1. Init => LookedUp /\ TwoLiveMeansRace
  BY DEF Init, LookedUp, TwoLiveMeansRace, Live, Absent
<1>2. IInv /\ LookedUp /\ TwoLiveMeansRace /\ [Next]_vars
        => LookedUp' /\ TwoLiveMeansRace'
  BY NextTwoLive
<1>3. QED
  BY <1>1, <1>2, IInvHolds, PTL DEF Spec
=============================================================================
