----------------------------- MODULE AdminTools -----------------------------
(***************************************************************************)
(* AdminTools (apps/quant-admin-mcp/tools.py) over InMemoryModelRegistry   *)
(* (packages/models/registry.py), the audit log and the durable job store  *)
(* (SqlJobStore).  The server is one process and every tool is synchronous,*)
(* so a handler is one step; the process may be restarted between any two, *)
(* and inside the one handler that writes two durable stores (_queue).     *)
(* A write of the job store is a transaction that may raise, and the server*)
(* then goes on with what the handler had done before it.  (The audit sink *)
(* of the repository is a list: it does not raise.)                        *)
(* Registry, pending promotions, job cache and kill switch live in memory. *)
(*                                                                         *)
(* All models are of one (market, horizon): get_production, which rollback *)
(* asks, then finds any live version of any of them.                       *)
(***************************************************************************)
EXTENDS Integers, FiniteSets, ModelRules

CONSTANTS
  Actors, Models, Versions, ApprovalIds,
  None,
  Requests,     \* promotion request ids (uuid4, never reused)
  JobIds,       \* job ids (uuid4, never reused)
  MaxCalls,     \* bound: tool calls
  MaxRestarts   \* bound: restarts

ASSUME ConstantsAssumption ==
  /\ MaxCalls \in Nat /\ MaxRestarts \in Nat
  /\ None \notin Actors \cup ApprovalIds

Keys == Models \X Versions

VARIABLES
  state, approval,  \* the registry's records, by (model_id, version)
  gated,            \* history: keys that passed a gate on their way into service
  pending,          \* promotion requests: requester, key, approvers so far
  killSwitch,
  jobs,             \* AdminTools._jobs: status and result of the cached jobs
  store,            \* SqlJobStore rows
  audit,            \* moves to PRODUCTION recorded in the audit log
  created,          \* jobs with a job.create event in the audit log
  unsaved,          \* history: jobs whose latest write in this process stored nothing
  calls, restarts

registry == <<state, approval, gated>>
models == <<registry, pending, audit>>
queue  == <<jobs, store, created, unsaved>>
vars   == <<models, killSwitch, queue, calls, restarts>>

NoJob == [status |-> "none", result |-> FALSE]
Queued == [status |-> "QUEUED", result |-> FALSE]

Init ==
  /\ state = [k \in Keys |-> Absent]
  /\ approval = [k \in Keys |-> None]
  /\ gated = {}
  /\ pending = [r \in Requests |-> [status |-> "unused"]]
  /\ killSwitch = FALSE
  /\ jobs = [j \in JobIds |-> NoJob] /\ store = [j \in JobIds |-> NoJob]
  /\ audit = {} /\ created = {} /\ unsaved = {}
  /\ calls = 0 /\ restarts = 0

(* _audit: who did what to which model, on whose approval.  Of the model   *)
(* tools' events, those of a move to PRODUCTION are kept.                  *)
Record(action, key, to, people, approvalId) ==
  audit' = IF to = "PRODUCTION"
           THEN audit \cup {[action |-> action, key |-> key, people |-> people,
                             approval |-> approvalId]}
           ELSE audit

-----------------------------------------------------------------------------
(* InMemoryModelRegistry.                                                  *)

OtherLive(k) == {o \in Keys : state[o] = "PRODUCTION" /\ o[1] = k[1] /\ o # k}

\* Mutant of CanMove: the other versions of the model are not looked at.
CanMove_Blind(k, to, approvalId, passed) ==
  /\ state[k] # Absent
  /\ Permits(state[k], to, passed, approvalId # None)

(* transition() does not raise. *)
CanMove(k, to, approvalId, passed) ==
  /\ state[k] # Absent
  /\ Permits(state[k], to, passed, approvalId # None)
  /\ to = "PRODUCTION" => OtherLive(k) = {}

\* Mutant of Move: the approval id is not kept on the record.
Move_NoApproval(k, to, approvalId) ==
  /\ state' = [state EXCEPT ![k] = to]
  /\ gated' = IF NeedsGate(state[k], to) THEN gated \cup {k} ELSE gated
  /\ UNCHANGED approval

(* The new record: approval_id or the one it had. *)
Move(k, to, approvalId) ==
  /\ state' = [state EXCEPT ![k] = to]
  /\ approval' = IF approvalId # None THEN [approval EXCEPT ![k] = approvalId] ELSE approval
  /\ gated' = IF NeedsGate(state[k], to) THEN gated \cup {k} ELSE gated

-----------------------------------------------------------------------------
(* Model tools.  A refused call changes nothing, with the one exception of *)
(* a promotion that is approved but cannot be committed.                   *)

RegisterModel(k) ==
  /\ state[k] = Absent
  /\ state' = [state EXCEPT ![k] = "DRAFT"]
  /\ UNCHANGED <<approval, gated, pending, audit>>

(* `passed`: metrics were given and beat every baseline. *)
StartShadow(k, passed) ==
  /\ CanMove(k, "SHADOW", None, passed)
  /\ Move(k, "SHADOW", None)
  /\ UNCHANGED <<pending, audit>>

(* The registered version's state is not looked at. *)
RequestPromotion(r, k, actor) ==
  /\ pending[r].status = "unused" /\ state[k] # Absent
  /\ pending' = [pending EXCEPT ![r] = [status |-> "open", key |-> k, by |-> actor,
                                        approvers |-> {actor}]]
  /\ UNCHANGED <<registry, audit>>

\* Mutant of ApprovePromotion: the requester may approve.
ApprovePromotion_Self(r, actor, approvalId, passed) ==
  LET p == pending[r]
  IN  /\ p.status = "open"
      /\ CanMove(p.key, "PRODUCTION", approvalId, passed)
      /\ Move(p.key, "PRODUCTION", approvalId)
      /\ pending' = [pending EXCEPT ![r] = [status |-> "closed"]]
      /\ Record("approve_promotion", p.key, "PRODUCTION", p.approvers \cup {actor}, approvalId)

(* An approver is added even if the transition then fails; the request     *)
(* stays open in that case.                                                *)
ApprovePromotion(r, actor, approvalId, passed) ==
  LET p == pending[r]
  IN  /\ p.status = "open" /\ actor # p.by
      /\ IF CanMove(p.key, "PRODUCTION", approvalId, passed)
           THEN /\ Move(p.key, "PRODUCTION", approvalId)
                /\ pending' = [pending EXCEPT ![r] = [status |-> "closed"]]
                /\ Record("approve_promotion", p.key, "PRODUCTION", p.approvers \cup {actor}, approvalId)
           ELSE /\ pending' = [pending EXCEPT ![r].approvers = @ \cup {actor}]
                /\ UNCHANGED <<registry, audit>>

(* promote_model, the older tool: any transition, one caller. *)
PromoteModel(k, to, actor, approvalId, passed) ==
  /\ CanMove(k, to, approvalId, passed)
  /\ Move(k, to, approvalId)
  /\ Record("promote", k, to, {actor}, approvalId)
  /\ UNCHANGED pending

(* model_request_rollback (and rollback_production, which calls it): the   *)
(* first live version in registration order is retired.                    *)
Rollback(approvalId) ==
  /\ approvalId # None
  /\ \E k \in Keys :
       /\ state[k] = "PRODUCTION"
       /\ Move(k, "RETIRED", approvalId)
  /\ UNCHANGED <<pending, audit>>

ModelTools ==
  \E actor \in Actors, k \in Keys, approvalId \in ApprovalIds \cup {None}, passed \in BOOLEAN :
    \/ RegisterModel(k)
    \/ StartShadow(k, passed)
    \/ \E r \in Requests : RequestPromotion(r, k, actor)
    \/ \E r \in Requests : ApprovePromotion(r, actor, approvalId, passed)
    \/ \E to \in ModelState : PromoteModel(k, to, actor, approvalId, passed)
    \/ Rollback(approvalId)

-----------------------------------------------------------------------------
(* Kill switch: two tools, each with an approval id. *)

SetKillSwitch(engaged) ==
  /\ killSwitch' = engaged
  /\ UNCHANGED <<models, queue>>

-----------------------------------------------------------------------------
(* Jobs.                                                                   *)

\* Mutant of CreateJob: the audit log is written before the store.
CreateJob_AuditFirst(j, saved) ==
  /\ jobs[j] = NoJob /\ store[j] = NoJob /\ j \notin created
  /\ jobs' = [jobs EXCEPT ![j] = Queued]
  /\ created' = created \cup {j}
  /\ IF saved THEN store' = [store EXCEPT ![j] = Queued] /\ UNCHANGED unsaved
              ELSE unsaved' = unsaved \cup {j} /\ UNCHANGED store

(* _queue: the cache, the store, then the audit log.  When the store raises*)
(* the call does, without an event, and the job stays in the cache.        *)
CreateJob(j, saved) ==
  /\ jobs[j] = NoJob /\ store[j] = NoJob /\ j \notin created
  /\ jobs' = [jobs EXCEPT ![j] = Queued]
  /\ IF saved
       THEN /\ store' = [store EXCEPT ![j] = Queued]
            /\ created' = created \cup {j}
            /\ UNCHANGED unsaved
       ELSE unsaved' = unsaved \cup {j} /\ UNCHANGED <<store, created>>

(* A job unknown to this process is read from the store and cached, without*)
(* its payload and result.                                                 *)
JobGetStatus(j) ==
  /\ jobs[j] = NoJob /\ store[j] # NoJob
  /\ jobs' = [jobs EXCEPT ![j] = [status |-> store[j].status, result |-> FALSE]]
  /\ UNCHANGED <<store, created, unsaved>>

\* Mutant of MarkJob: the store is not written, and nothing raises.
MarkJob_CacheOnly(j, status, result, saved) ==
  /\ jobs[j] # NoJob
  /\ jobs' = [jobs EXCEPT ![j] = [status |-> status, result |-> result]]
  /\ unsaved' = IF saved THEN unsaved \ {j} ELSE unsaved \cup {j}
  /\ UNCHANGED <<store, created>>

(* _mark_job raises KeyError for a job that is not cached; it changes the  *)
(* cache, then the row.  The update may raise, and of a job without a row  *)
(* it changes nothing, without an error.                                   *)
MarkJob(j, status, result, saved) ==
  LET marked == [status |-> status, result |-> result]
      written == saved /\ store[j] # NoJob
  IN  /\ jobs[j] # NoJob
      /\ jobs' = [jobs EXCEPT ![j] = marked]
      /\ store' = IF written THEN [store EXCEPT ![j] = marked] ELSE store
      /\ unsaved' = IF written THEN unsaved \ {j} ELSE unsaved \cup {j}
      /\ UNCHANGED created

JobStatus == {"QUEUED", "RUNNING", "SUCCEEDED", "FAILED"}

JobTools ==
  /\ \E j \in JobIds, saved \in BOOLEAN :
       \/ CreateJob(j, saved) \/ JobGetStatus(j)
       \/ \E status \in JobStatus, result \in BOOLEAN : MarkJob(j, status, result, saved)
  /\ UNCHANGED <<models, killSwitch>>

-----------------------------------------------------------------------------
(* The process is restarted: the memory is gone, the job store and the     *)
(* audit log stay.  `lost` is a job whose row was just inserted when the   *)
(* process died, before its audit event.                                   *)
Restart ==
  /\ restarts < MaxRestarts
  /\ restarts' = restarts + 1
  /\ state' = [k \in Keys |-> Absent]
  /\ approval' = [k \in Keys |-> None]
  /\ gated' = {}
  /\ pending' = [r \in Requests |->
                   IF pending[r].status = "unused" THEN pending[r] ELSE [status |-> "closed"]]
  /\ killSwitch' = FALSE
  /\ jobs' = [j \in JobIds |-> NoJob]
  /\ \/ UNCHANGED store
     \/ \E lost \in JobIds :
          /\ jobs[lost] = NoJob /\ store[lost] = NoJob /\ lost \notin created
          /\ store' = [store EXCEPT ![lost] = Queued]
  /\ unsaved' = {}
  /\ UNCHANGED <<audit, created, calls>>

Call ==
  /\ calls < MaxCalls /\ calls' = calls + 1
  /\ UNCHANGED restarts
  /\ \/ ModelTools /\ UNCHANGED <<killSwitch, queue>>
     \/ \E engaged \in BOOLEAN : SetKillSwitch(engaged)
     \/ JobTools

Next ==
  \/ Call
  \/ Restart

Spec == Init /\ [][Next]_vars

-----------------------------------------------------------------------------
(* Types: the shape of the registry, the requests and the jobs.            *)

JobRows == [status : JobStatus \cup {"none"}, result : BOOLEAN]

RequestRows ==
  [status : {"unused", "closed"}]
    \cup {p \in [status : {"open"}, key : Keys, by : Actors, approvers : SUBSET Actors] :
            p.by \in p.approvers}

Promotions == [action : {"approve_promotion", "promote"}, key : Keys, people : SUBSET Actors,
               approval : ApprovalIds]

TypeOK ==
  /\ state \in [Keys -> ModelState \cup {Absent}]
  /\ approval \in [Keys -> ApprovalIds \cup {None}]
  /\ gated \subseteq Keys
  /\ pending \in [Requests -> RequestRows]
  /\ killSwitch \in BOOLEAN
  /\ jobs \in [JobIds -> JobRows] /\ store \in [JobIds -> JobRows]
  /\ audit \subseteq Promotions
  /\ created \subseteq JobIds /\ unsaved \subseteq JobIds
  /\ calls \in 0..MaxCalls /\ restarts \in 0..MaxRestarts

-----------------------------------------------------------------------------
(* Safety.                                                                 *)

(* "A model_id may have only one PRODUCTION version at a time": through    *)
(* promotions, demotions back to SHADOW, requests opened long before they  *)
(* are approved, and the older promote tool.                               *)
OneProductionPerModel ==
  \A k, o \in Keys : state[k] = "PRODUCTION" /\ state[o] = "PRODUCTION" /\ k[1] = o[1] => k = o

(* A SHADOW record "already carries prior gate evidence" (tools.py): a     *)
(* version is in service only if it once beat its baselines, though the    *)
(* approval of a promotion from SHADOW asks for no gate.                   *)
GateBeforeService == \A k \in Keys : state[k] \in InService => k \in gated

(* "Every mutation goes through AuditLog": a version in PRODUCTION has a   *)
(* promotion event, and the approval id on the record is that event's.     *)
ProductionIsAudited ==
  \A k \in Keys : state[k] = "PRODUCTION" =>
    approval[k] # None /\ \E e \in audit : e.key = k /\ e.approval = approval[k]

(* A promotion that went through a request took two people.                *)
RequestTakesTwo ==
  \A e \in audit : e.action = "approve_promotion" => Cardinality(e.people) >= 2

(* A process says of a job what the store says, through restarts and rows  *)
(* found again, unless its latest write of that job raised or found no row;*)
(* and whatever fails, a job in the audit log has a row, which the next    *)
(* process finds.  (A failed write is not undone in the cache: until the   *)
(* restart job_get_status answers a status that the restart takes back.)   *)
CacheAgreesWithStore ==
  \A j \in JobIds :
    /\ jobs[j] # NoJob /\ j \notin unsaved => jobs[j].status = store[j].status
    /\ j \in created => store[j] # NoJob

=============================================================================
