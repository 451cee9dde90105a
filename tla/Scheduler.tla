----------------------------- MODULE Scheduler ------------------------------
(***************************************************************************)
(* SchedulerExecutor (apps/scheduler/executor.py): which jobs are due, the *)
(* in-process runs with their retries and the enqueueing onto RQ, in one   *)
(* process that may be restarted at any moment.                            *)
(*                                                                         *)
(* Time is counted in ticks; a job's cron expression is the set of its     *)
(* firing times, free at the start and fixed from then on.  The clock may  *)
(* advance between any two steps, so a run may last for any time.          *)
(***************************************************************************)
EXTENDS Integers

CONSTANTS
  NumJobs,      \* jobs are looked at in the order of the list, 1 first
  Retries,      \* retries of every job
  LookBack,     \* how far a job never run looks back (2 days)
  LastTime,     \* bound: the clock
  MaxSchedulerRestarts   \* bound: its restarts

ASSUME NumbersAssumption ==
  /\ NumJobs \in Nat \ {0} /\ LastTime \in Nat \ {0}
  /\ {Retries, LookBack, MaxSchedulerRestarts} \subseteq Nat

Jobs == 1..NumJobs
Times == 1..LastTime
NeverRun == 0      \* no entry in _last_run; every time is later

VARIABLES
  clock,
  fires,        \* firing times of each job
  last,         \* _last_run
  mode,         \* "idle", or the call under way: run_due or enqueue_due
  now,          \* its argument, the time of the call
  turn,         \* the job it looks at
  attempt,      \* attempts begun for that job
  history,      \* jobs run or enqueued, numbered in their order
  count,        \* their number
  polled,       \* history: `now` of the latest call that ended normally
  restarted     \* number of restarts

schedulerVars == <<clock, fires, last, mode, now, turn, attempt, history, count, polled, restarted>>

SchedulerInit ==
  /\ clock = 1
  /\ fires \in [Jobs -> SUBSET Times]
  /\ last = [j \in Jobs |-> NeverRun]
  /\ mode = "idle" /\ now = 1 /\ turn = 1 /\ attempt = 0
  /\ history = {} /\ count = 0 /\ polled = NeverRun /\ restarted = 0

-----------------------------------------------------------------------------
\* Mutant of Due: the last run's own instant counts as a new firing time.
Due_Inclusive(j) ==
  LET baseline == IF last[j] = NeverRun THEN now - LookBack ELSE last[j]
  IN  \E f \in fires[j] : baseline <= f /\ f <= now

(* is_due: the first firing time after the baseline is not after now.      *)
Due(j) ==
  LET baseline == IF last[j] = NeverRun THEN now - LookBack ELSE last[j]
  IN  \E f \in fires[j] : baseline < f /\ f <= now

(* The job's entry in _history (a run) or on the queue. *)
Note(j, done) ==
  /\ count' = count + 1
  /\ history' = history \cup {[job |-> j, nth |-> count', now |-> now, done |-> done]}

(* On to the next job, or back to the caller. *)
NextJob ==
  /\ attempt' = 0
  /\ IF turn < NumJobs
     THEN turn' = turn + 1 /\ UNCHANGED <<mode, polled>>
     ELSE turn' = 1 /\ mode' = "idle" /\ polled' = now

(* run_due or enqueue_due is called. *)
Poll(m) ==
  /\ mode = "idle"
  /\ mode' = m /\ now' = clock
  /\ UNCHANGED <<clock, last, turn, attempt, history, count, polled, restarted>>

NotDue ==
  /\ mode # "idle" /\ attempt = 0 /\ ~Due(turn)
  /\ NextJob
  /\ UNCHANGED <<clock, last, now, history, count, restarted>>

\* Mutant of ParamsRaise: the job is passed over.
ParamsRaise_Skip ==
  /\ mode # "idle" /\ attempt = 0 /\ Due(turn)
  /\ NextJob
  /\ UNCHANGED <<clock, last, now, history, count, restarted>>

(* params_provider, or the queue, raises: nothing catches it.              *)
ParamsRaise ==
  /\ mode # "idle" /\ attempt = 0 /\ Due(turn)
  /\ mode' = "idle" /\ turn' = 1
  /\ UNCHANGED <<clock, last, now, attempt, history, count, polled, restarted>>

(* run_job: the first attempt begins. *)
Begin ==
  /\ mode = "run" /\ attempt = 0 /\ Due(turn)
  /\ attempt' = 1
  /\ UNCHANGED <<clock, last, mode, now, turn, history, count, polled, restarted>>

(* dispatch raises and attempts are left. *)
Again ==
  /\ attempt > 0 /\ attempt <= Retries
  /\ attempt' = attempt + 1
  /\ UNCHANGED <<clock, last, mode, now, turn, history, count, polled, restarted>>

(* dispatch returns, or raises in the last attempt: SUCCEEDED and FAILED   *)
(* leave the same trace in _last_run.                                      *)
Finish(succeeded) ==
  /\ attempt > 0
  /\ succeeded \/ attempt = Retries + 1
  /\ last' = [last EXCEPT ![turn] = clock]
  /\ Note(turn, clock)
  /\ NextJob
  /\ UNCHANGED <<clock, now, restarted>>

(* enqueue_due: the job is on the queue, and counts as run at `now`.       *)
Enqueue ==
  /\ mode = "enqueue" /\ Due(turn)
  /\ last' = [last EXCEPT ![turn] = now]
  /\ Note(turn, now)
  /\ NextJob
  /\ UNCHANGED <<clock, now, restarted>>

Tick ==
  /\ clock < LastTime
  /\ clock' = clock + 1
  /\ UNCHANGED <<last, mode, now, turn, attempt, history, count, polled, restarted>>

(* All of the executor's state is in memory. *)
SchedulerRestart ==
  /\ restarted < MaxSchedulerRestarts
  /\ restarted' = restarted + 1
  /\ last' = [j \in Jobs |-> NeverRun]
  /\ mode' = "idle" /\ now' = 1 /\ turn' = 1 /\ attempt' = 0
  /\ history' = {} /\ count' = 0 /\ polled' = NeverRun
  /\ UNCHANGED clock

SchedulerNext ==
  /\ \/ \E m \in {"run", "enqueue"} : Poll(m)
     \/ NotDue \/ ParamsRaise \/ Begin \/ Again
     \/ \E succeeded \in BOOLEAN : Finish(succeeded)
     \/ Enqueue \/ Tick \/ SchedulerRestart
  /\ UNCHANGED fires

SchedulerSpec == SchedulerInit /\ [][SchedulerNext]_schedulerVars

-----------------------------------------------------------------------------
(* Properties.                                                             *)

(* The executor's variables keep their shape; a job is attempted at most   *)
(* retries + 1 times, and only by run_due.                                 *)
SchedulerTypeOK ==
  /\ clock \in Times /\ fires \in [Jobs -> SUBSET Times]
  /\ last \in [Jobs -> 0..clock]
  /\ mode \in {"idle", "run", "enqueue"}
  /\ now \in 1..clock /\ turn \in Jobs
  /\ attempt \in 0..(Retries + 1) /\ (attempt > 0 => mode = "run")
  /\ count \in Nat
  /\ history \subseteq [job : Jobs, nth : 1..count, now : 1..clock, done : 1..clock]
  /\ polled \in 0..clock
  /\ restarted \in 0..MaxSchedulerRestarts

(* In the life of a process no firing time is answered twice: between the  *)
(* end of a run of a job and the call that starts its next one lies a      *)
(* firing time, through runs and calls of any length, failed runs, and     *)
(* both ways of running a job.                                             *)
OneRunPerFire ==
  \A a, b \in history : a.job = b.job /\ a.nth < b.nth =>
    \E f \in fires[a.job] : a.done < f /\ f <= b.now

(* A call that ends normally leaves nothing due: each firing time of the   *)
(* window before it is at or before the end of a run of its job.  (One     *)
(* that fell into a run is skipped with it.)                               *)
NothingLeftDue ==
  \A j \in Jobs : \A f \in fires[j] :
    polled # NeverRun /\ polled - LookBack < f /\ f <= polled =>
      \E h \in history : h.job = j /\ f <= h.done

=============================================================================
