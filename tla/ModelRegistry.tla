---------------------------- MODULE ModelRegistry ----------------------------
(***************************************************************************)
(* SqlModelRegistry (packages/persistence/repositories.py) and its user,   *)
(* the daily forecast script (scripts/daily_top10_forecast.py), for one    *)
(* model_id: model_ids share no row and no artifact.                       *)
(*                                                                         *)
(* The artifact directory and the model_registry table are two stores, and *)
(* transition() is a read, possibly a second read, and a compare-and-set:  *)
(* concurrent callers interleave between them and may be lost there.       *)
(***************************************************************************)
EXTENDS Integers, ModelRules

CONSTANTS
  Callers,      \* processes using the registry concurrently
  Versions,     \* version labels, each a fresh hash the trainer computes
  ApprovalIds,  \* non-empty approval ids
  None,
  MaxMoves,     \* bound: successful state changes
  MaxCrashes    \* bound: callers lost in the middle of a call

ASSUME ConstantsAssumption ==
  /\ MaxMoves \in Nat /\ MaxCrashes \in Nat
  /\ None \notin Callers \cup Versions \cup ApprovalIds
  /\ {"asked", "none", "raised"} \cap Versions = {}

VARIABLES
  files,     \* versions whose artifact is in the model store
  state,     \* model_registry.state, Absent without a row
  approval,  \* model_registry.approval_id
  gate,      \* history: the gate evidence a version entered service with
  pc, call,  \* program counter and locals of each caller
  answer,    \* what the last forecast of each caller got as its model
  raced,     \* history: a promotion was committed while that of another version,
             \* past its look-up, was about to be
  moves, crashes

rows == <<state, approval, gate>>
vars == <<files, rows, pc, call, answer, raced, moves, crashes>>

Idle == [version |-> None, seen |-> Absent, to |-> Absent, approval |-> None,
         gate |-> "none", forecast |-> FALSE]

Init ==
  /\ files = {}
  /\ state    = [v \in Versions |-> Absent]
  /\ approval = [v \in Versions |-> None]
  /\ gate     = [v \in Versions |-> "none"]
  /\ pc     = [c \in Callers |-> "idle"]
  /\ call   = [c \in Callers |-> Idle]
  /\ answer = [c \in Callers |-> None]
  /\ raced = FALSE /\ moves = 0 /\ crashes = 0

Goto(c, label, locals) ==
  /\ pc'   = [pc EXCEPT ![c] = label]
  /\ call' = [call EXCEPT ![c] = locals]

Return(c) == Goto(c, "idle", Idle)

Live == {v \in Versions : state[v] = "PRODUCTION"}

-----------------------------------------------------------------------------
(* _get_or_train_model of the daily script.                                *)

(* Not --retrain, and a PRODUCTION version whose artifact loads.           *)
ForecastLoads(c) ==
  /\ pc[c] = "idle"
  /\ \E v \in Live \cap files : answer' = [answer EXCEPT ![c] = v]
  /\ UNCHANGED <<files, rows, pc, call, raced, moves, crashes>>

(* Otherwise a model is trained; its version is new.  With an approval id  *)
(* (--promote-approval-id) the script goes on to promote it, with a gate   *)
(* object that says passed=True (gate "placeholder").                      *)
ForecastTrains(c, v, retrain, approvalArg) ==
  /\ pc[c] = "idle"
  /\ retrain \/ Live \cap files = {}
  /\ v \notin files /\ \A d \in Callers : call[d].version # v
  /\ Goto(c, "saveArtifact", [Idle EXCEPT !.version = v, !.approval = approvalArg,
                                          !.gate = "placeholder", !.forecast = TRUE])
  /\ answer' = [answer EXCEPT ![c] = "asked"]
  /\ UNCHANGED <<files, rows, raced, moves, crashes>>

\* Mutant of SaveArtifact: the row is inserted before the artifact is saved.
SaveArtifact_RowFirst(c) ==
  /\ pc[c] = "saveArtifact"
  /\ state' = [state EXCEPT ![call[c].version] = "DRAFT"]
  /\ Goto(c, "insert", call[c])
  /\ UNCHANGED <<files, approval, gate, answer, raced, moves, crashes>>

(* register(): the artifact goes to the model store first ...              *)
SaveArtifact(c) ==
  /\ pc[c] = "saveArtifact"
  /\ files' = files \cup {call[c].version}
  /\ Goto(c, "insert", call[c])
  /\ UNCHANGED <<rows, answer, raced, moves, crashes>>

\* Mutant of Insert: the model just trained is used though it is a DRAFT.
Insert_UsesDraft(c) ==
  LET v == call[c].version
  IN  /\ pc[c] = "insert"
      /\ state' = [state EXCEPT ![v] = "DRAFT"]
      /\ IF call[c].approval = None
           THEN Return(c) /\ answer' = [answer EXCEPT ![c] = v]
           ELSE Goto(c, "candidate", call[c]) /\ UNCHANGED answer
      /\ UNCHANGED <<files, approval, gate, raced, moves, crashes>>

(* ... then the DRAFT row is inserted.  Without an approval id the script  *)
(* ends here and has no model (None).                                      *)
Insert(c) ==
  LET v == call[c].version
  IN  /\ pc[c] = "insert"
      /\ state' = [state EXCEPT ![v] = "DRAFT"]
      /\ IF call[c].approval = None
           THEN Return(c) /\ answer' = [answer EXCEPT ![c] = "none"]
           ELSE Goto(c, "candidate", call[c]) /\ UNCHANGED answer
      /\ UNCHANGED <<files, approval, gate, raced, moves, crashes>>

(* An exception of the registry ends the script. *)
Raise(c) ==
  /\ Return(c)
  /\ answer' = IF call[c].forecast THEN [answer EXCEPT ![c] = "raised"] ELSE answer

-----------------------------------------------------------------------------
(* transition().                                                           *)

(* get() the row and validate against it; only for PRODUCTION is the       *)
(* model's current PRODUCTION version read as well, in a second query.     *)
ReadRow(c, locals, to) ==
  LET v == locals.version
  IN  IF Permits(state[v], to, locals.gate # "none", locals.approval # None)
        THEN /\ Goto(c, IF to = "PRODUCTION" THEN "readLatest" ELSE "swap",
                     [locals EXCEPT !.seen = state[v], !.to = to])
             /\ UNCHANGED answer
        ELSE Raise(c)

(* A call of transition() from an operator; refused calls change nothing.  *)
Transition(c, v, to, approvalArg, gateArg) ==
  /\ pc[c] = "idle"
  /\ state[v] # Absent
  /\ Permits(state[v], to, gateArg # "none", approvalArg # None)
  /\ ReadRow(c, [Idle EXCEPT !.version = v, !.approval = approvalArg,
                             !.gate = gateArg], to)
  /\ UNCHANGED <<files, rows, raced, moves, crashes>>

ToCandidate(c) ==
  /\ pc[c] = "candidate"
  /\ ReadRow(c, call[c], "CANDIDATE")
  /\ UNCHANGED <<files, rows, raced, moves, crashes>>

ToProduction(c) ==
  /\ pc[c] = "promote"
  /\ ReadRow(c, call[c], "PRODUCTION")
  /\ UNCHANGED <<files, rows, raced, moves, crashes>>

\* Mutant of ReadLatest: the PRODUCTION version of the model is not looked up.
ReadLatest_Skipped(c) ==
  /\ pc[c] = "readLatest"
  /\ Goto(c, "swap", call[c])
  /\ UNCHANGED <<files, rows, answer, raced, moves, crashes>>

(* get_latest_production: if several are live, the newest, which may be    *)
(* any.  It also loads that version's artifact.                            *)
ReadLatest(c) ==
  /\ pc[c] = "readLatest"
  /\ \/ /\ Live = {}
        /\ Goto(c, "swap", call[c])
        /\ UNCHANGED answer
     \/ \E existing \in Live :
          IF existing = call[c].version
            THEN Goto(c, "swap", call[c]) /\ UNCHANGED answer
            ELSE Raise(c)
  /\ UNCHANGED <<files, rows, raced, moves, crashes>>

(* The columns the UPDATE sets: approval_id is written on the way into     *)
(* PRODUCTION and never cleared.                                           *)
UpdateRow(v, from, to, approvalId, evidence) ==
  /\ state' = [state EXCEPT ![v] = to]
  /\ approval' = IF to = "PRODUCTION" THEN [approval EXCEPT ![v] = approvalId]
                                      ELSE approval
  /\ gate' = IF NeedsGate(from, to) THEN [gate EXCEPT ![v] = evidence] ELSE gate

(* A transition is done; the script goes on from CANDIDATE to PRODUCTION,  *)
(* and then has its model.                                                 *)
Resume(c) ==
  IF ~call[c].forecast THEN Return(c) /\ UNCHANGED answer
  ELSE IF call[c].to = "CANDIDATE" THEN Goto(c, "promote", call[c]) /\ UNCHANGED answer
  ELSE Return(c) /\ answer' = [answer EXCEPT ![c] = call[c].version]

(* The promotion c is about to commit has a rival past its look-up.        *)
Overtakes(c) ==
  \E d \in Callers :
    /\ pc[d] = "swap" /\ call[d].to = "PRODUCTION" /\ call[c].to = "PRODUCTION"
    /\ call[d].version # call[c].version

\* Mutant of Swap: the UPDATE does not test the state.
Swap_Unguarded(c) ==
  /\ pc[c] = "swap" /\ moves < MaxMoves
  /\ UpdateRow(call[c].version, call[c].seen, call[c].to, call[c].approval, call[c].gate)
  /\ moves' = moves + 1
  /\ raced' = (raced \/ Overtakes(c))
  /\ Resume(c)
  /\ UNCHANGED <<files, crashes>>

(* The UPDATE guarded by the state read earlier.                           *)
Swap(c) ==
  /\ pc[c] = "swap" /\ moves < MaxMoves
  /\ state[call[c].version] = call[c].seen
  /\ UpdateRow(call[c].version, call[c].seen, call[c].to, call[c].approval, call[c].gate)
  /\ moves' = moves + 1
  /\ raced' = (raced \/ Overtakes(c))
  /\ Resume(c)
  /\ UNCHANGED <<files, crashes>>

(* rowcount == 0: ModelTransitionError("concurrent modification").         *)
SwapLost(c) ==
  /\ pc[c] = "swap"
  /\ state[call[c].version] # call[c].seen
  /\ Raise(c)
  /\ UNCHANGED <<files, rows, raced, moves, crashes>>

(* The process dies, or the database or the disk fails, in between.        *)
Crash(c) ==
  /\ pc[c] # "idle"
  /\ crashes < MaxCrashes
  /\ crashes' = crashes + 1
  /\ Raise(c)
  /\ UNCHANGED <<files, rows, raced, moves>>

Begin(c) ==
  \/ ForecastLoads(c)
  \/ \E v \in Versions, retrain \in BOOLEAN, approvalArg \in ApprovalIds \cup {None} :
       ForecastTrains(c, v, retrain, approvalArg)
  \/ \E v \in Versions, to \in ModelState, approvalArg \in ApprovalIds \cup {None},
        gateArg \in {"none", "beaten"} :
       Transition(c, v, to, approvalArg, gateArg)

Continue(c) ==
  \/ SaveArtifact(c) \/ Insert(c) \/ ToCandidate(c) \/ ToProduction(c)
  \/ ReadLatest(c) \/ Swap(c) \/ SwapLost(c)

Next == \E c \in Callers : Begin(c) \/ Continue(c) \/ Crash(c)

Spec == Init /\ [][Next]_vars

-----------------------------------------------------------------------------
(* Types: the shape of the store, the table and the callers' locals.       *)

StateOrAbsent == ModelState \cup {Absent}
GateEvidence == {"none", "placeholder", "beaten"}

TypeOK ==
  /\ files \subseteq Versions
  /\ state \in [Versions -> StateOrAbsent]
  /\ approval \in [Versions -> ApprovalIds \cup {None}]
  /\ gate \in [Versions -> GateEvidence]
  /\ pc \in [Callers -> {"idle", "saveArtifact", "insert", "candidate", "promote",
                         "readLatest", "swap"}]
  /\ call \in [Callers -> [version : Versions \cup {None}, seen : StateOrAbsent,
                           to : StateOrAbsent, approval : ApprovalIds \cup {None},
                           gate : GateEvidence, forecast : BOOLEAN]]
  /\ answer \in [Callers -> Versions \cup {None, "asked", "none", "raised"}]
  /\ raced \in BOOLEAN /\ moves \in 0..MaxMoves /\ crashes \in 0..MaxCrashes

-----------------------------------------------------------------------------
(* Safety.                                                                 *)

(* Whatever path a version took, through however many demotions and races, *)
(* it is in service only if a gate was passed on its way in (tools.py: a   *)
(* SHADOW record "already carries prior gate evidence").                   *)
GateBeforeService == \A v \in Versions : state[v] \in InService => gate[v] # "none"

(* A PRODUCTION row carries the approval it was promoted with, also after  *)
(* demotion and a second promotion.                                        *)
LiveIsApproved == \A v \in Versions : state[v] = "PRODUCTION" => approval[v] # None

(* A row is never without its artifact, whichever of the two writes of     *)
(* register() its process was lost after: a PRODUCTION model can be loaded.*)
RowHasArtifact == \A v \in Versions : state[v] # Absent => v \in files

(* The script "NEVER auto-promotes": a version it forecasts with was        *)
(* approved by a human at some time, also if the script was the one that   *)
(* trained it, lost a race or found it already there.                      *)
ForecastIsApproved ==
  \A c \in Callers : answer[c] \in Versions => approval[answer[c]] # None

(* The gate object that always passes stands in only for an approved       *)
(* promotion: no version is in service on it without a human approval, nor *)
(* gets into SHADOW that way.                                              *)
PlaceholderIsApproved == \A v \in Versions : gate[v] = "placeholder" => approval[v] # None

(* Two versions of the model are live only if two promotions overlapped,   *)
(* each past its look-up when the other committed: the window between the  *)
(* two transactions of transition() is the only way around "only one       *)
(* PRODUCTION version at a time".  In particular one process keeps to it.  *)
TwoLiveMeansRace == raced \/ \A v, w \in Live : v = w

(* The registry implements the abstract lifecycle: no race and no lost     *)
(* caller makes a version take an edge the rules do not have.              *)
Lifecycle == INSTANCE ModelLifecycle WITH
  Entries     <- Versions,
  stage       <- state,
  scrutinised <- {v \in Versions : gate[v] # "none"},
  signed      <- {v \in Versions : approval[v] # None}

ImplementsLifecycle == Lifecycle!Spec

-----------------------------------------------------------------------------
(* What the repository says and the code does not keep.                    *)

(* registry.py: "a model_id may have only one PRODUCTION version at a       *)
(* time".                                                                  *)
OneProductionVersion == \A v, w \in Live : v = w
=============================================================================
