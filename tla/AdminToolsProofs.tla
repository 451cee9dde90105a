-------------------------- MODULE AdminToolsProofs --------------------------
(***************************************************************************)
(* Proofs about AdminTools, for every set of actors, models, versions and  *)
(* requests.  Every tool that changes the state of a record goes through   *)
(* CanMove and Move, so the argument is one lemma about them: the move     *)
(* keeps the registry sound, and the event recorded with it explains it.   *)
(* Two more invariants stand beside that one: the cached status of a job   *)
(* is the stored one unless a write failed, and an open request already    *)
(* counts its requester.                                                   *)
(* The last part is about the automatic loop over the same registry.       *)
(***************************************************************************)
EXTENDS Automation, FiniteSetTheorems, TLAPS

RegistryType ==
  /\ state \in [Keys -> ModelState \cup {Absent}]
  /\ approval \in [Keys -> ApprovalIds \cup {None}]
  /\ gated \subseteq Keys

Sound == OneProductionPerModel /\ GateBeforeService /\ ProductionIsAudited

LEMMA RecordTypes ==
  ASSUME audit \subseteq Promotions, NEW action \in {"approve_promotion", "promote"},
         NEW key \in Keys, NEW to, NEW people \in SUBSET Actors,
         NEW approvalId \in ApprovalIds \cup {None},
         to = "PRODUCTION" => approvalId # None,
         Record(action, key, to, people, approvalId)
  PROVE  audit' \subseteq Promotions
BY DEF Record, Promotions

LEMMA RecordGrows ==
  ASSUME NEW action, NEW key, NEW to, NEW people, NEW approvalId,
         Record(action, key, to, people, approvalId)
  PROVE  /\ audit \subseteq audit'
         /\ to = "PRODUCTION" => \E e \in audit' : e.key = key /\ e.approval = approvalId
<1> DEFINE event == [action |-> action, key |-> key, people |-> people, approval |-> approvalId]
<1>1. event.key = key /\ event.approval = approvalId
  OBVIOUS
<1>2. audit' = IF to = "PRODUCTION" THEN audit \cup {event} ELSE audit
  BY DEF Record
<1> HIDE DEF event
<1>3. QED
  BY <1>1, <1>2

LEMMA MoveTypes ==
  ASSUME RegistryType, NEW k \in Keys, NEW to \in ModelState,
         NEW approvalId \in ApprovalIds \cup {None}, Move(k, to, approvalId)
  PROVE  RegistryType'
BY DEF RegistryType, Move

(* What a move does to the one record it touches. *)
LEMMA MoveRecord ==
  ASSUME RegistryType, NEW k \in Keys, NEW to \in ModelState,
         NEW approvalId \in ApprovalIds \cup {None}, Move(k, to, approvalId)
  PROVE  /\ state'[k] = to
         /\ approvalId # None => approval'[k] = approvalId
         /\ \A o \in Keys \ {k} : state'[o] = state[o] /\ approval'[o] = approval[o]
         /\ gated \subseteq gated'
BY DEF RegistryType, Move

(* A move the registry permits, recorded in the audit log if it leads to   *)
(* PRODUCTION, keeps the registry sound.                                   *)
LEMMA MoveSound ==
  ASSUME RegistryType, Sound, NEW k \in Keys, NEW to \in ModelState,
         NEW approvalId \in ApprovalIds \cup {None}, NEW passed \in BOOLEAN,
         CanMove(k, to, approvalId, passed), Move(k, to, approvalId),
         audit \subseteq audit',
         to = "PRODUCTION" => \E e \in audit' : e.key = k /\ e.approval = approvalId
  PROVE  Sound'
<1>1. OneProductionPerModel'
  BY MoveRecord DEF Sound, OneProductionPerModel, CanMove, OtherLive
<1>2. GateBeforeService'
  <2>1. to \in InService => k \in gated'
    <3>1. CASE NeedsGate(state[k], to)
      BY <3>1 DEF Move
    <3>2. CASE ~NeedsGate(state[k], to)
      BY <3>2 DEF CanMove, Permits, NeedsGate, Allowed, InService, Absent, Move, Sound,
                  GateBeforeService
    <3>3. QED
      BY <3>1, <3>2
  <2>2. QED
    BY <2>1, MoveRecord DEF Sound, GateBeforeService
<1>3. ProductionIsAudited'
  <2>1. to = "PRODUCTION" => approvalId # None
    BY DEF CanMove, Permits
  <2>2. ASSUME NEW o \in Keys, state'[o] = "PRODUCTION"
        PROVE  approval'[o] # None /\ \E e \in audit' : e.key = o /\ e.approval = approval'[o]
    <3>1. CASE o = k
      BY <2>1, <2>2, <3>1, MoveRecord
    <3>2. CASE o # k
      BY <2>2, <3>2, MoveRecord DEF Sound, ProductionIsAudited
    <3>3. QED
      BY <3>1, <3>2
  <2>3. QED
    BY <2>2 DEF ProductionIsAudited
<1>4. QED
  BY <1>1, <1>2, <1>3 DEF Sound

IInv == TypeOK /\ Sound

LEMMA JobRowsHave ==
  /\ NoJob \in JobRows /\ Queued \in JobRows
  /\ \A status \in JobStatus \cup {"none"}, result \in BOOLEAN :
       [status |-> status, result |-> result] \in JobRows
  /\ "QUEUED" \in JobStatus /\ FALSE \in BOOLEAN
BY DEF NoJob, Queued, JobRows, JobStatus

LEMMA InitIInv == Init => IInv
<1> SUFFICES ASSUME Init PROVE IInv
  OBVIOUS
<1>1. Sound
  BY DEF Init, Sound, OneProductionPerModel, GateBeforeService, ProductionIsAudited, InService,
         Absent
<1>2. jobs \in [JobIds -> JobRows] /\ store \in [JobIds -> JobRows]
  BY JobRowsHave DEF Init
<1>3. pending \in [Requests -> RequestRows]
  BY DEF Init, RequestRows
<1>4. /\ state \in [Keys -> ModelState \cup {Absent}]
      /\ approval \in [Keys -> ApprovalIds \cup {None}]
  BY DEF Init
<1>5. /\ gated \subseteq Keys /\ killSwitch \in BOOLEAN
      /\ created \subseteq JobIds /\ unsaved \subseteq JobIds
  BY DEF Init
<1>6. calls \in 0..MaxCalls /\ restarts \in 0..MaxRestarts
  BY ConstantsAssumption DEF Init
<1>7. audit \subseteq Promotions
  BY DEF Init
<1>8. QED
  BY <1>1, <1>2, <1>3, <1>4, <1>5, <1>6, <1>7 DEF IInv, TypeOK

(* Model tools keep the types of the registry, the requests and the log.   *)
ModelTypes ==
  /\ RegistryType
  /\ pending \in [Requests -> RequestRows]
  /\ audit \subseteq Promotions

LEMMA ModelToolsInv == IInv /\ ModelTools => ModelTypes' /\ Sound'
<1> SUFFICES ASSUME IInv, ModelTools PROVE ModelTypes' /\ Sound'
  OBVIOUS
<1>1. RegistryType /\ Sound /\ TypeOK
  BY DEF IInv, TypeOK, RegistryType
<1>2. PICK actor \in Actors, k \in Keys, approvalId \in ApprovalIds \cup {None},
           passed \in BOOLEAN :
        \/ RegisterModel(k)
        \/ StartShadow(k, passed)
        \/ \E r \in Requests : RequestPromotion(r, k, actor)
        \/ \E r \in Requests : ApprovePromotion(r, actor, approvalId, passed)
        \/ \E to \in ModelState : PromoteModel(k, to, actor, approvalId, passed)
        \/ Rollback(approvalId)
  BY DEF ModelTools
<1>3. /\ pending \in [Requests -> RequestRows] /\ audit \subseteq Promotions
      /\ None \in ApprovalIds \cup {None}
  BY DEF IInv, TypeOK
<1>4. CASE RegisterModel(k)
  <2>1. RegistryType'
    BY <1>1, <1>4 DEF RegisterModel, RegistryType, ModelState
  <2>2. ModelTypes'
    BY <1>3, <1>4, <2>1 DEF ModelTypes, RegisterModel
  <2>3. Sound'
    BY <1>1, <1>4
    DEF RegisterModel, RegistryType, Sound, OneProductionPerModel, GateBeforeService,
        ProductionIsAudited, InService
  <2>4. QED
    BY <2>2, <2>3
<1>5. CASE StartShadow(k, passed)
  <2>1. /\ "SHADOW" \in ModelState /\ "SHADOW" # "PRODUCTION"
        /\ CanMove(k, "SHADOW", None, passed) /\ Move(k, "SHADOW", None)
        /\ audit' = audit /\ pending' = pending
    BY <1>5 DEF StartShadow, ModelState
  <2>2. RegistryType' /\ Sound'
    BY <1>1, <1>3, <2>1, MoveTypes, MoveSound
  <2>3. QED
    BY <1>3, <2>1, <2>2 DEF ModelTypes
<1>6. ASSUME NEW r \in Requests, RequestPromotion(r, k, actor) PROVE ModelTypes' /\ Sound'
  <2>1. UNCHANGED registry /\ audit' = audit
    BY <1>6 DEF RequestPromotion
  <2>2. pending' \in [Requests -> RequestRows]
    BY <1>3, <1>6 DEF RequestPromotion, RequestRows
  <2>3. QED
    BY <1>1, <1>3, <2>1, <2>2
    DEF ModelTypes, RegistryType, registry, Sound, OneProductionPerModel, GateBeforeService,
        ProductionIsAudited
<1>7. ASSUME NEW r \in Requests, ApprovePromotion(r, actor, approvalId, passed)
      PROVE  ModelTypes' /\ Sound'
  <2> DEFINE p == pending[r]
  <2>1. p \in RequestRows /\ p.status = "open"
    BY <1>3, <1>7 DEF ApprovePromotion
  <2>2. /\ p \in [status : {"open"}, key : Keys, by : Actors, approvers : SUBSET Actors]
        /\ p.by \in p.approvers
    BY <2>1 DEF RequestRows
  <2>3. PICK key \in Keys, people \in SUBSET Actors :
          key = p.key /\ people = p.approvers \cup {actor}
    BY <2>2
  <2>4. CASE CanMove(p.key, "PRODUCTION", approvalId, passed)
    <3>1. /\ "PRODUCTION" \in ModelState
          /\ CanMove(key, "PRODUCTION", approvalId, passed)
          /\ Move(key, "PRODUCTION", approvalId)
          /\ Record("approve_promotion", key, "PRODUCTION", people, approvalId)
      BY <1>7, <2>3, <2>4 DEF ApprovePromotion, ModelState
    <3>2. pending' \in [Requests -> RequestRows]
      BY <1>3, <1>7, <2>4 DEF ApprovePromotion, RequestRows
    <3>3. approvalId # None
      BY <3>1 DEF CanMove, Permits
    <3>4. audit' \subseteq Promotions
      BY <1>3, <3>1, <3>3, RecordTypes
    <3>5. /\ audit \subseteq audit'
          /\ \E e \in audit' : e.key = key /\ e.approval = approvalId
      BY <3>1, RecordGrows
    <3>6. RegistryType' /\ Sound'
      BY <1>1, <3>1, <3>5, MoveTypes, MoveSound
    <3>7. QED
      BY <3>2, <3>4, <3>6 DEF ModelTypes
  <2>5. CASE ~CanMove(p.key, "PRODUCTION", approvalId, passed)
    <3>1. /\ UNCHANGED <<registry, audit>>
          /\ pending' = [pending EXCEPT ![r].approvers = @ \cup {actor}]
      BY <1>7, <2>5 DEF ApprovePromotion
    <3>2. [p EXCEPT !.approvers = @ \cup {actor}] \in RequestRows
      BY <2>2 DEF RequestRows
    <3>3. pending' \in [Requests -> RequestRows]
      BY <1>3, <3>1, <3>2
    <3>4. QED
      BY <1>1, <1>3, <3>1, <3>3
      DEF ModelTypes, RegistryType, registry, Sound, OneProductionPerModel,
          GateBeforeService, ProductionIsAudited
  <2>6. QED
    BY <2>4, <2>5
<1>8. ASSUME NEW to \in ModelState, PromoteModel(k, to, actor, approvalId, passed)
      PROVE  ModelTypes' /\ Sound'
  <2>1. /\ CanMove(k, to, approvalId, passed) /\ Move(k, to, approvalId)
        /\ Record("promote", k, to, {actor}, approvalId) /\ pending' = pending
    BY <1>8 DEF PromoteModel
  <2>2. to = "PRODUCTION" => approvalId # None
    BY <2>1 DEF CanMove, Permits
  <2>3. {actor} \in SUBSET Actors
    OBVIOUS
  <2>4. audit' \subseteq Promotions
    BY <1>3, <2>1, <2>2, <2>3, RecordTypes
  <2>5. /\ audit \subseteq audit'
        /\ to = "PRODUCTION" => \E e \in audit' : e.key = k /\ e.approval = approvalId
    BY <2>1, RecordGrows
  <2>6. RegistryType' /\ Sound'
    BY <1>1, <2>1, <2>5, MoveTypes, MoveSound
  <2>7. QED
    BY <1>3, <2>1, <2>4, <2>6 DEF ModelTypes
<1>9. CASE Rollback(approvalId)
  <2>1. PICK o \in Keys : state[o] = "PRODUCTION" /\ Move(o, "RETIRED", approvalId)
    BY <1>9 DEF Rollback
  <2>2. CanMove(o, "RETIRED", approvalId, TRUE)
    BY <2>1 DEF CanMove, Permits, Allowed, NeedsGate, Absent
  <2>3. /\ "RETIRED" \in ModelState /\ "RETIRED" # "PRODUCTION"
        /\ pending' = pending /\ audit' = audit
    BY <1>9 DEF Rollback, ModelState
  <2>4. RegistryType' /\ Sound'
    BY <1>1, <2>1, <2>2, <2>3, MoveTypes, MoveSound
  <2>5. QED
    BY <1>3, <2>3, <2>4 DEF ModelTypes
<1>10. QED
  BY <1>2, <1>4, <1>5, <1>6, <1>7, <1>8, <1>9

(* Job tools keep the types of the cache, the rows and the log of jobs.    *)
QueueTypes ==
  /\ jobs \in [JobIds -> JobRows] /\ store \in [JobIds -> JobRows]
  /\ created \subseteq JobIds /\ unsaved \subseteq JobIds

LEMMA JobToolsTypes ==
  ASSUME TypeOK, JobTools
  PROVE  QueueTypes'
<1>1. PICK j \in JobIds, saved \in BOOLEAN :
        \/ CreateJob(j, saved) \/ JobGetStatus(j)
        \/ \E status \in JobStatus, result \in BOOLEAN : MarkJob(j, status, result, saved)
  BY DEF JobTools
<1>2. CASE CreateJob(j, saved)
  BY <1>2, JobRowsHave DEF CreateJob, TypeOK, QueueTypes
<1>3. CASE JobGetStatus(j)
  <2>1. store[j].status \in JobStatus \cup {"none"}
    BY DEF TypeOK, JobRows
  <2>2. [status |-> store[j].status, result |-> FALSE] \in JobRows
    BY <2>1, JobRowsHave
  <2>3. QED
    BY <1>3, <2>2 DEF JobGetStatus, TypeOK, QueueTypes
<1>4. ASSUME NEW status \in JobStatus, NEW result \in BOOLEAN, MarkJob(j, status, result, saved)
      PROVE  QueueTypes'
  <2>1. [status |-> status, result |-> result] \in JobRows
    BY JobRowsHave
  <2>2. QED
    BY <1>4, <2>1 DEF MarkJob, TypeOK, QueueTypes
<1>5. QED
  BY <1>1, <1>2, <1>3, <1>4

LEMMA NextIInv == IInv /\ [Next]_vars => IInv'
<1> SUFFICES ASSUME IInv, [Next]_vars PROVE IInv'
  OBVIOUS
<1>1. ASSUME UNCHANGED models PROVE Sound'
  BY <1>1 DEF models, registry, IInv, Sound, OneProductionPerModel, GateBeforeService,
              ProductionIsAudited
<1>2. CASE UNCHANGED vars
  BY <1>1, <1>2 DEF vars, models, registry, queue, IInv, TypeOK
<1>3. CASE Call
  <2>1. calls' \in 0..MaxCalls /\ restarts' \in 0..MaxRestarts
    BY <1>3, ConstantsAssumption DEF Call, IInv, TypeOK
  <2>2. CASE ModelTools /\ UNCHANGED <<killSwitch, queue>>
    BY <2>1, <2>2, ModelToolsInv DEF queue, IInv, TypeOK, ModelTypes, RegistryType
  <2>3. ASSUME NEW engaged \in BOOLEAN, SetKillSwitch(engaged) PROVE IInv'
    BY <1>1, <2>1, <2>3 DEF SetKillSwitch, models, registry, queue, IInv, TypeOK
  <2>4. CASE JobTools
    <3>1. UNCHANGED <<models, killSwitch>>
      BY <2>4 DEF JobTools
    <3>2. QueueTypes'
      BY <2>4, JobToolsTypes DEF IInv
    <3>3. QED
      BY <1>1, <2>1, <3>1, <3>2 DEF QueueTypes, models, registry, IInv, TypeOK
  <2>5. QED
    BY <1>3, <2>2, <2>3, <2>4 DEF Call
<1>4. CASE Restart
  <2>1. restarts' \in 0..MaxRestarts
    BY <1>4, ConstantsAssumption DEF Restart, IInv, TypeOK
  <2>2. pending' \in [Requests -> RequestRows]
    BY <1>4 DEF Restart, IInv, TypeOK, RequestRows
  <2>3. store' \in [JobIds -> JobRows] /\ jobs' \in [JobIds -> JobRows]
    <3>1. jobs' \in [JobIds -> JobRows]
      BY <1>4, JobRowsHave DEF Restart
    <3>2. store \in [JobIds -> JobRows]
      BY DEF IInv, TypeOK
    <3>3. Queued \in JobRows
      BY JobRowsHave
    <3>4. store' \in [JobIds -> JobRows]
      BY <1>4, <3>2, <3>3 DEF Restart
    <3>5. QED
      BY <3>1, <3>4
  <2>4. Sound'
    BY <1>4 DEF Restart, Sound, OneProductionPerModel, GateBeforeService, ProductionIsAudited,
                InService, Absent
  <2>5. /\ state' \in [Keys -> ModelState \cup {Absent}]
        /\ approval' \in [Keys -> ApprovalIds \cup {None}]
        /\ gated' \subseteq Keys /\ killSwitch' \in BOOLEAN
    BY <1>4 DEF Restart
  <2>6. /\ created' \subseteq JobIds /\ unsaved' \subseteq JobIds /\ calls' \in 0..MaxCalls
        /\ audit' \subseteq Promotions
    BY <1>4 DEF Restart, IInv, TypeOK
  <2>7. QED
    BY <2>1, <2>2, <2>3, <2>4, <2>5, <2>6 DEF IInv, TypeOK
<1>5. QED
  BY <1>2, <1>3, <1>4 DEF Next

LEMMA IInvHolds == Spec => []IInv
BY InitIInv, NextIInv, PTL DEF Spec

(* Records, requests, jobs and the log always have the shape the tools     *)
(* expect; a promotion event always carries an approval.                   *)
THEOREM TypeCorrect == Spec => []TypeOK
BY IInvHolds, PTL DEF IInv

(* A model never has two PRODUCTION versions, whichever tools are used and *)
(* however late a request is approved.                                     *)
THEOREM OneProductionHolds == Spec => []OneProductionPerModel
BY IInvHolds, PTL DEF IInv, Sound

(* A version in service once passed its promotion gate, though not every   *)
(* way into SHADOW or PRODUCTION asks for it.                              *)
THEOREM GateHolds == Spec => []GateBeforeService
BY IInvHolds, PTL DEF IInv, Sound

(* A PRODUCTION record's approval id is that of a recorded promotion.      *)
THEOREM AuditHolds == Spec => []ProductionIsAudited
BY IInvHolds, PTL DEF IInv, Sound

-----------------------------------------------------------------------------
(* The cache of jobs.                                                      *)

LEMMA NextCache == TypeOK /\ CacheAgreesWithStore /\ [Next]_vars => CacheAgreesWithStore'
<1> SUFFICES ASSUME TypeOK, CacheAgreesWithStore, [Next]_vars
             PROVE  CacheAgreesWithStore'
  OBVIOUS
<1> USE DEF CacheAgreesWithStore
<1>1. jobs \in [JobIds -> JobRows] /\ store \in [JobIds -> JobRows]
  BY DEF TypeOK
<1>2. CASE UNCHANGED queue
  BY <1>2 DEF queue
<1>3. ASSUME NEW j \in JobIds, NEW saved \in BOOLEAN, CreateJob(j, saved)
      PROVE  CacheAgreesWithStore'
  <2>1. CASE saved
    <3>1. /\ jobs' = [jobs EXCEPT ![j] = Queued] /\ store' = [store EXCEPT ![j] = Queued]
          /\ created' = created \cup {j} /\ unsaved' = unsaved
      BY <1>3, <2>1 DEF CreateJob
    <3>2. jobs'[j] = Queued /\ store'[j] = Queued /\ Queued # NoJob
      BY <1>1, <3>1 DEF Queued, NoJob
    <3>3. \A i \in JobIds \ {j} : jobs'[i] = jobs[i] /\ store'[i] = store[i]
      BY <1>1, <3>1
    <3>4. QED
      BY <3>1, <3>2, <3>3
  <2>2. CASE ~saved
    BY <1>1, <1>3, <2>2 DEF CreateJob
  <2>3. QED
    BY <2>1, <2>2
<1>4. ASSUME NEW j \in JobIds, JobGetStatus(j) PROVE CacheAgreesWithStore'
  BY <1>1, <1>4 DEF JobGetStatus
<1>5. ASSUME NEW j \in JobIds, NEW status \in JobStatus, NEW result \in BOOLEAN,
             NEW saved \in BOOLEAN, MarkJob(j, status, result, saved)
      PROVE  CacheAgreesWithStore'
  <2>1. status # "none"
    BY DEF JobStatus
  <2>2. CASE saved /\ store[j] # NoJob
    BY <1>1, <1>5, <2>1, <2>2 DEF MarkJob, NoJob
  <2>3. CASE ~(saved /\ store[j] # NoJob)
    BY <1>1, <1>5, <2>3 DEF MarkJob
  <2>4. QED
    BY <2>2, <2>3
<1>6. CASE Restart
  BY <1>1, <1>6 DEF Restart, Queued, NoJob
<1>7. CASE Call
  <2>1. CASE JobTools
    BY <1>3, <1>4, <1>5, <2>1 DEF JobTools
  <2>2. CASE ~JobTools
    BY <1>2, <1>7, <2>2 DEF Call, SetKillSwitch
  <2>3. QED
    BY <2>1, <2>2
<1>8. QED
  BY <1>2, <1>6, <1>7 DEF Next, vars

(* What a process says of a job is what the store says, unless the latest  *)
(* write of the job raised or found no row, and every job in the audit log *)
(* has a row: for any number of jobs, through failed writes and restarts,  *)
(* whether the process dies or goes on (tools.py _queue, _mark_job).       *)
THEOREM CacheHolds == Spec => []CacheAgreesWithStore
<1>1. Init => CacheAgreesWithStore
  BY DEF Init, CacheAgreesWithStore
<1>2. QED
  BY <1>1, NextCache, TypeCorrect, PTL DEF Spec

-----------------------------------------------------------------------------
(* Two people behind a requested promotion.                                *)

LEMMA TwoPeople ==
  ASSUME NEW S, IsFiniteSet(S), NEW a \in S, NEW b \in S, a # b
  PROVE  Cardinality(S) >= 2
<1>1. IsFiniteSet({a}) /\ Cardinality({a}) = 1
  BY FS_Singleton
<1>2. IsFiniteSet({a} \cup {b}) /\ Cardinality({a} \cup {b}) = 2
  <2>1. PICK one : one = {a} /\ IsFiniteSet(one) /\ Cardinality(one) = 1 /\ b \notin one
    BY <1>1
  <2>2. IsFiniteSet(one \cup {b}) /\ Cardinality(one \cup {b}) = Cardinality(one) + 1
    BY <2>1, FS_AddElement
  <2>3. QED
    BY <2>1, <2>2
<1>3. {a} \cup {b} \subseteq S
  OBVIOUS
<1>4. Cardinality({a} \cup {b}) <= Cardinality(S)
  BY <1>3, FS_Subset
<1>5. Cardinality(S) \in Nat
  BY FS_CardinalityType
<1>6. QED
  BY <1>2, <1>4, <1>5

(* The approvers of an open request are finitely many.                     *)
ApproversFinite ==
  \A r \in Requests : pending[r].status = "open" => IsFiniteSet(pending[r].approvers)

LEMMA RecordTakesTwo ==
  ASSUME RequestTakesTwo, NEW action, NEW key, NEW to, NEW people, NEW approvalId,
         Record(action, key, to, people, approvalId),
         action = "approve_promotion" => Cardinality(people) >= 2
  PROVE  RequestTakesTwo'
<1> DEFINE event == [action |-> action, key |-> key, people |-> people, approval |-> approvalId]
<1>1. event.action = action /\ event.people = people
  OBVIOUS
<1>2. audit' = IF to = "PRODUCTION" THEN audit \cup {event} ELSE audit
  BY DEF Record
<1> HIDE DEF event
<1>3. QED
  BY <1>1, <1>2 DEF RequestTakesTwo

LEMMA NextTakesTwo ==
  TypeOK /\ ApproversFinite /\ RequestTakesTwo /\ [Next]_vars
    => ApproversFinite' /\ RequestTakesTwo'
<1> SUFFICES ASSUME TypeOK, ApproversFinite, RequestTakesTwo, [Next]_vars
             PROVE  ApproversFinite' /\ RequestTakesTwo'
  OBVIOUS
<1>1. pending \in [Requests -> RequestRows]
  BY DEF TypeOK
<1>2. CASE UNCHANGED <<pending, audit>>
  BY <1>2 DEF ApproversFinite, RequestTakesTwo
<1>3. CASE Restart
  BY <1>1, <1>3 DEF Restart, ApproversFinite, RequestTakesTwo
<1>4. CASE ModelTools
  <2>1. PICK actor \in Actors, k \in Keys, approvalId \in ApprovalIds \cup {None},
             passed \in BOOLEAN :
          \/ RegisterModel(k)
          \/ StartShadow(k, passed)
          \/ \E r \in Requests : RequestPromotion(r, k, actor)
          \/ \E r \in Requests : ApprovePromotion(r, actor, approvalId, passed)
          \/ \E to \in ModelState : PromoteModel(k, to, actor, approvalId, passed)
          \/ Rollback(approvalId)
    BY <1>4 DEF ModelTools
  <2>2. CASE RegisterModel(k) \/ StartShadow(k, passed) \/ Rollback(approvalId)
    BY <1>2, <2>2 DEF RegisterModel, StartShadow, Rollback
  <2>3. ASSUME NEW to \in ModelState, PromoteModel(k, to, actor, approvalId, passed)
        PROVE  ApproversFinite' /\ RequestTakesTwo'
    <3>1. Record("promote", k, to, {actor}, approvalId) /\ UNCHANGED pending
      BY <2>3 DEF PromoteModel
    <3>2. RequestTakesTwo'
      BY <3>1, RecordTakesTwo
    <3>3. QED
      BY <3>1, <3>2 DEF ApproversFinite
  <2>4. ASSUME NEW r \in Requests, RequestPromotion(r, k, actor)
        PROVE  ApproversFinite' /\ RequestTakesTwo'
    <3>1. IsFiniteSet({actor})
      BY FS_Singleton
    <3>2. /\ pending' = [pending EXCEPT ![r] = [status |-> "open", key |-> k, by |-> actor,
                                                approvers |-> {actor}]]
          /\ UNCHANGED audit
      BY <2>4 DEF RequestPromotion
    <3>3. QED
      BY <1>1, <3>1, <3>2 DEF ApproversFinite, RequestTakesTwo
  <2>5. ASSUME NEW r \in Requests, ApprovePromotion(r, actor, approvalId, passed)
        PROVE  ApproversFinite' /\ RequestTakesTwo'
    <3> DEFINE p == pending[r]
               people == p.approvers \cup {actor}
    <3>1. p \in RequestRows /\ p.status = "open" /\ actor # p.by
      BY <1>1, <2>5 DEF ApprovePromotion
    <3>2. p.by \in p.approvers
      BY <3>1 DEF RequestRows
    <3>3. IsFiniteSet(people)
      BY <3>1, FS_AddElement DEF ApproversFinite
    <3>4. Cardinality(people) >= 2
      BY <3>1, <3>2, <3>3, TwoPeople
    <3>5. CASE CanMove(p.key, "PRODUCTION", approvalId, passed)
      <4>1. /\ Record("approve_promotion", p.key, "PRODUCTION", people, approvalId)
            /\ pending' = [pending EXCEPT ![r] = [status |-> "closed"]]
        BY <2>5, <3>5 DEF ApprovePromotion
      <4>2. RequestTakesTwo'
        BY <3>4, <4>1, RecordTakesTwo
      <4>3. ApproversFinite'
        BY <1>1, <4>1 DEF ApproversFinite
      <4>4. QED
        BY <4>2, <4>3
    <3>6. CASE ~CanMove(p.key, "PRODUCTION", approvalId, passed)
      <4>1. /\ pending' = [pending EXCEPT ![r].approvers = @ \cup {actor}]
            /\ UNCHANGED audit
        BY <2>5, <3>6 DEF ApprovePromotion
      <4>2. \A o \in Requests :
              /\ o # r => pending'[o] = pending[o]
              /\ o = r => pending'[o] = [p EXCEPT !.approvers = people]
        BY <1>1, <4>1
      <4>3. [p EXCEPT !.approvers = people].approvers = people
        BY <3>1, <3>2 DEF RequestRows
      <4>4. ApproversFinite'
        BY <3>3, <4>2, <4>3 DEF ApproversFinite
      <4>5. QED
        BY <4>1, <4>4 DEF RequestTakesTwo
    <3>7. QED
      BY <3>5, <3>6
  <2>6. QED
    BY <2>1, <2>2, <2>3, <2>4, <2>5
<1>5. CASE Call
  <2>1. CASE ~ModelTools
    BY <1>2, <1>5, <2>1 DEF Call, SetKillSwitch, JobTools, models
  <2>2. QED
    BY <1>4, <2>1
<1>6. CASE UNCHANGED vars
  BY <1>2, <1>6 DEF vars, models
<1>7. QED
  BY <1>3, <1>5, <1>6 DEF Next

(* A promotion that went through a request took two different people, for  *)
(* any number of people and of attempts that only added an approver.       *)
THEOREM RequestHolds == Spec => []RequestTakesTwo
<1>1. Init => ApproversFinite /\ RequestTakesTwo
  <2>1. Init => \A r \in Requests : pending[r].status = "unused"
    BY DEF Init
  <2>2. QED
    BY <2>1 DEF Init, ApproversFinite, RequestTakesTwo
<1>2. QED
  BY <1>1, NextTakesTwo, TypeCorrect, PTL DEF Spec

-----------------------------------------------------------------------------
(* The automatic loop, over the registry beside any calls of the tools.     *)

Records == [Keys -> ModelState \cup {Absent}]

(* The stamp of a model is that of its latest retraining, not in the future.*)
StampsFollow ==
  /\ \A m \in Models : lastRetrain[m] # Never => lastRetrain[m] <= day
  /\ \A i \in DOMAIN trained : /\ lastRetrain[trained[i][1]] # Never
                               /\ trained[i][2] <= lastRetrain[trained[i][1]]

LoopTypes ==
  /\ state \in Records /\ day \in Nat
  /\ lastRetrain \in [Models -> Nat \cup {Never}]
  /\ trained \in Seq(Models \X Nat)
  /\ artifacts \subseteq Keys

LoopInv == LoopTypes /\ StampsFollow /\ LoopIsBounded

(* No tool removes a record. *)
LEMMA CallKeepsRecords ==
  ASSUME state \in Records, Call
  PROVE  state' \in Records /\ \A k \in Keys : state[k] # Absent => state'[k] # Absent
<1>1. ASSUME NEW k, NEW to \in ModelState, NEW approvalId, Move(k, to, approvalId)
      PROVE  state' \in Records /\ \A o \in Keys : state[o] # Absent => state'[o] # Absent
  BY <1>1 DEF Move, Records, ModelState, Absent
<1>2. "DRAFT" \in ModelState /\ "SHADOW" \in ModelState /\ "PRODUCTION" \in ModelState
      /\ "RETIRED" \in ModelState /\ Absent \notin ModelState
  BY DEF ModelState, Absent
<1>3. CASE state' = state
  BY <1>3
<1>4. ASSUME NEW actor \in Actors, NEW k \in Keys, NEW approvalId \in ApprovalIds \cup {None},
             NEW passed \in BOOLEAN,
             \/ RegisterModel(k) \/ StartShadow(k, passed)
             \/ \E r \in Requests : RequestPromotion(r, k, actor)
             \/ \E r \in Requests : ApprovePromotion(r, actor, approvalId, passed)
             \/ \E to \in ModelState : PromoteModel(k, to, actor, approvalId, passed)
             \/ Rollback(approvalId)
      PROVE  state' \in Records /\ \A o \in Keys : state[o] # Absent => state'[o] # Absent
  <2>1. CASE RegisterModel(k)
    BY <1>2, <2>1 DEF RegisterModel, Records
  <2>2. CASE StartShadow(k, passed)
    BY <1>1, <1>2, <2>2 DEF StartShadow
  <2>3. CASE \E r \in Requests : RequestPromotion(r, k, actor)
    BY <1>3, <2>3 DEF RequestPromotion, registry
  <2>4. CASE \E r \in Requests : ApprovePromotion(r, actor, approvalId, passed)
    BY <1>1, <1>2, <1>3, <2>4 DEF ApprovePromotion, registry
  <2>5. CASE \E to \in ModelState : PromoteModel(k, to, actor, approvalId, passed)
    BY <1>1, <2>5 DEF PromoteModel
  <2>6. CASE Rollback(approvalId)
    BY <1>1, <1>2, <2>6 DEF Rollback
  <2>7. QED
    BY <1>4, <2>1, <2>2, <2>3, <2>4, <2>5, <2>6
<1>5. CASE ModelTools
  BY <1>4, <1>5 DEF ModelTools
<1>6. CASE ~ModelTools
  BY <1>3, <1>6 DEF Call, SetKillSwitch, JobTools, models, registry
<1>7. QED
  BY <1>5, <1>6

LEMMA RetrainInv ==
  ASSUME LoopInv, NEW m \in Models, NEW report \in Reports, NEW k \in Keys,
         CheckAndRetrain(m, report, k)
  PROVE  LoopInv'
<1> /\ LoopTypes /\ StampsFollow /\ LoopIsBounded
    /\ state \in Records /\ day \in Nat /\ trained \in Seq(Models \X Nat)
    /\ lastRetrain \in [Models -> Nat \cup {Never}] /\ artifacts \subseteq Keys
  BY DEF LoopInv, LoopTypes
<1> DEFINE n == Len(trained)
<1>1. /\ ~TooSoon(m) /\ day' = day /\ lastRetrain' = [lastRetrain EXCEPT ![m] = day]
      /\ trained' = Append(trained, <<m, day>>) /\ artifacts' = artifacts \cup {k}
  BY DEF CheckAndRetrain, Stamped
<1>2. /\ state' \in Records /\ state'[k] # Absent
      /\ \A o \in Keys : state[o] # Absent => state'[o] # Absent
  <2>1. CASE state[k] = Absent
    BY <2>1 DEF CheckAndRetrain, RegisterModel, Records, ModelState, Absent
  <2>2. CASE state[k] # Absent
    BY <2>2 DEF CheckAndRetrain, models, registry
  <2>3. QED
    BY <2>1, <2>2
<1>3. /\ n \in Nat /\ DOMAIN trained = 1..n /\ DOMAIN trained' = 1..n + 1
      /\ \A i \in 1..n : trained'[i] = trained[i] /\ trained[i] \in Models \X Nat
      /\ trained'[n + 1] = <<m, day>> /\ trained' \in Seq(Models \X Nat)
  BY <1>1
<1>4. LoopTypes'
  BY <1>1, <1>2, <1>3 DEF LoopTypes
<1>5. StampsFollow'
  <2>1. \A o \in Models : lastRetrain'[o] # Never => lastRetrain'[o] <= day'
    BY <1>1 DEF StampsFollow
  <2>2. ASSUME NEW i \in 1..n
        PROVE  /\ lastRetrain'[trained'[i][1]] # Never
               /\ trained'[i][2] <= lastRetrain'[trained'[i][1]]
    <3>1. /\ lastRetrain[trained[i][1]] # Never /\ trained[i][1] \in Models
          /\ trained[i][2] <= lastRetrain[trained[i][1]] /\ trained[i][2] \in Nat
          /\ lastRetrain[trained[i][1]] <= day /\ lastRetrain[trained[i][1]] \in Nat
      BY <1>3 DEF StampsFollow
    <3>2. lastRetrain'[trained[i][1]] = IF trained[i][1] = m THEN day ELSE lastRetrain[trained[i][1]]
      BY <1>1, <3>1
    <3>3. QED
      BY <1>3, <3>1, <3>2 DEF Never
  <2>3. /\ lastRetrain'[trained'[n + 1][1]] # Never
        /\ trained'[n + 1][2] <= lastRetrain'[trained'[n + 1][1]]
    BY <1>1, <1>3 DEF Never
  <2>4. \A i \in 1..n + 1 : i \in 1..n \/ i = n + 1
    BY <1>3
  <2>5. \A i \in DOMAIN trained' : /\ lastRetrain'[trained'[i][1]] # Never
                                  /\ trained'[i][2] <= lastRetrain'[trained'[i][1]]
    BY <1>3, <2>2, <2>3, <2>4
  <2>6. QED
    BY <2>1, <2>5 DEF StampsFollow
<1>6. ASSUME NEW i \in 1..n + 1, NEW j \in 1..n + 1, i < j, trained'[i][1] = trained'[j][1]
      PROVE  trained'[j][2] - trained'[i][2] >= MinInterval
  <2>1. CASE j \in 1..n
    <3>1. i \in 1..n
      BY <1>3, <1>6, <2>1
    <3>2. QED
      BY <1>3, <1>6, <2>1, <3>1 DEF LoopIsBounded
  <2>2. CASE j = n + 1
    <3>1. i \in 1..n /\ trained[i][1] = m
      BY <1>3, <1>6, <2>2
    <3>2. /\ lastRetrain[m] # Never /\ lastRetrain[m] \in Nat /\ trained[i][2] \in Nat
          /\ trained[i][2] <= lastRetrain[m]
      BY <1>3, <3>1 DEF StampsFollow
    <3>3. day - lastRetrain[m] >= MinInterval
      BY <1>1, <3>2, AutomationAssumption DEF TooSoon
    <3>4. trained'[j][2] = day /\ trained'[i][2] = trained[i][2]
      BY <1>3, <2>2, <3>1
    <3>5. QED
      BY <3>2, <3>3, <3>4, AutomationAssumption
  <2>3. QED
    BY <1>3, <2>1, <2>2
<1>7. \A o \in artifacts' : state'[o] # Absent
  BY <1>1, <1>2 DEF LoopIsBounded
<1>8. \A e \in trail' : e.action = "review" /\ e.rollbacks = 1 => e.verdict # "healthy"
  <2> DEFINE event == [action |-> "retrain", of |-> m, verdict |-> "", rollbacks |-> 0]
  <2>1. event.action # "review"
    OBVIOUS
  <2>2. trail' \subseteq trail \cup {event}
    BY DEF CheckAndRetrain
  <2> HIDE DEF event
  <2>3. QED
    BY <2>1, <2>2 DEF LoopIsBounded
<1>9. QED
  BY <1>3, <1>4, <1>5, <1>6, <1>7, <1>8 DEF LoopInv, LoopIsBounded

(* A history whose last weeks are all bad ends in a bad one. *)
LEMMA ReviewInv ==
  ASSUME LoopInv, NEW m \in Models, NEW ics \in Histories, ReviewWeek(m, ics)
  PROVE  LoopInv'
<1> DEFINE rollbacks == IF Decayed(ics) THEN 1 ELSE 0
           review == [action |-> "review", of |-> m, verdict |-> Verdict(ics), rollbacks |-> rollbacks]
           guard == [action |-> "guard", of |-> m, verdict |-> "", rollbacks |-> rollbacks]
<1>1. /\ UNCHANGED <<vars, day, lastRetrain, artifacts, trained>>
      /\ trail' \subseteq trail \cup {review, guard}
  BY DEF ReviewWeek
<1>2. Decayed(ics) => Verdict(ics) # "healthy"
  <2> SUFFICES ASSUME Decayed(ics) PROVE Verdict(ics) # "healthy"
    OBVIOUS
  <2>1. ics \in Seq(Int) /\ Len(ics) \in Nat /\ Periods \in Nat \ {0} /\ Len(ics) >= Periods
    BY AutomationAssumption DEF Decayed
  <2>2. Len(ics) \in Len(ics) - Periods + 1..Len(ics) /\ ics # <<>> /\ ics[Len(ics)] \in Int
    BY <2>1
  <2>3. ics[Len(ics)] < 5
    BY <2>2 DEF Decayed
  <2>4. QED
    BY <2>2, <2>3 DEF Verdict
<1>3. /\ review.rollbacks = 1 => review.verdict # "healthy"
      /\ guard.action # "review"
  BY <1>2
<1> HIDE DEF review, guard
<1>4. \A e \in trail' : e.action = "review" /\ e.rollbacks = 1 => e.verdict # "healthy"
  BY <1>1, <1>3 DEF LoopInv, LoopIsBounded
<1>5. QED
  BY <1>1, <1>4 DEF LoopInv, LoopTypes, StampsFollow, LoopIsBounded, vars, models, registry

LEMMA NextLoopInv == LoopInv /\ [AutoNext]_allVars => LoopInv'
<1> SUFFICES ASSUME LoopInv, [AutoNext]_allVars PROVE LoopInv'
  OBVIOUS
<1>1. CASE UNCHANGED allVars
  BY <1>1 DEF allVars, autoVars, vars, models, registry, LoopInv, LoopTypes, StampsFollow,
              LoopIsBounded
<1>2. CASE NextDay
  <2>1. day \in Nat /\ day' = day + 1 /\ lastRetrain \in [Models -> Nat \cup {Never}]
    BY <1>2 DEF NextDay, LoopInv, LoopTypes
  <2>2. UNCHANGED <<state, lastRetrain, artifacts, trained, trail>>
    BY <1>2 DEF NextDay, vars, models, registry
  <2>3. StampsFollow'
    <3>1. ASSUME NEW m \in Models, lastRetrain'[m] # Never PROVE lastRetrain'[m] <= day'
      <4>1. lastRetrain[m] \in Nat /\ lastRetrain[m] <= day
        BY <2>1, <2>2, <3>1 DEF LoopInv, StampsFollow
      <4>2. QED
        BY <2>1, <2>2, <4>1
    <3>2. QED
      BY <2>2, <3>1 DEF LoopInv, StampsFollow
  <2>4. QED
    BY <2>1, <2>2, <2>3 DEF LoopInv, LoopTypes, LoopIsBounded
<1>3. CASE AutoRestart
  <2>1. /\ state' = [k \in Keys |-> Absent] /\ lastRetrain' = [m \in Models |-> Never]
        /\ artifacts' = {} /\ trained' = <<>> /\ UNCHANGED <<day, trail>>
    BY <1>3 DEF AutoRestart, Restart
  <2>2. state' \in Records /\ DOMAIN trained' = {} /\ trained' \in Seq(Models \X Nat)
    BY <2>1 DEF Records
  <2>3. QED
    BY <2>1, <2>2 DEF LoopInv, LoopTypes, StampsFollow, LoopIsBounded
<1>4. CASE Call /\ UNCHANGED autoVars
  <2>1. state' \in Records /\ \A k \in Keys : state[k] # Absent => state'[k] # Absent
    BY <1>4, CallKeepsRecords DEF LoopInv, LoopTypes
  <2>2. QED
    BY <1>4, <2>1 DEF autoVars, LoopInv, LoopTypes, StampsFollow, LoopIsBounded
<1>5. QED
  BY <1>1, <1>2, <1>3, <1>4, RetrainInv, ReviewInv DEF AutoNext

(* Whatever people do beside the loop, it retrains a model at most once in  *)
(* an interval, leaves no artifact without a record, and never calls a      *)
(* model healthy in a week in which the guard acted.                        *)
THEOREM LoopHolds == AutoSpec => []LoopIsBounded
<1>1. AutoInit => LoopInv
  BY DEF AutoInit, Init, LoopInv, LoopTypes, Records, StampsFollow, LoopIsBounded
<1>2. AutoSpec => []LoopInv
  BY <1>1, NextLoopInv, PTL DEF AutoSpec
<1>3. LoopInv => LoopIsBounded
  BY DEF LoopInv
<1>4. QED
  BY <1>2, <1>3, PTL
=============================================================================
