-------------------------- MODULE SchedulerProofs ---------------------------
(***************************************************************************)
(* Proofs about Scheduler, for any jobs, firing times, retries and window. *)
(* _last_run is the end of the job's latest run (LastIsLatest), a job      *)
(* being attempted is still due (StillDue), and the jobs a call has passed *)
(* are clear of firing times (PassedAreClear).                             *)
(***************************************************************************)
EXTENDS Scheduler, TLAPS

(* The job's firing times in the window before t are answered by entries   *)
(* among `entries`.                                                        *)
Clear(entries, j, t) ==
  \A f \in fires[j] : t - LookBack < f /\ f <= t => \E h \in entries : h.job = j /\ f <= h.done

LastIsLatest ==
  /\ \A j \in Jobs : last[j] # NeverRun => \E h \in history : h.job = j /\ h.done = last[j]
  /\ \A h \in history : last[h.job] # NeverRun /\ h.done <= last[h.job]

StillDue == attempt > 0 => Due(turn)

PassedAreClear == mode # "idle" => \A j \in Jobs : j < turn => Clear(history, j, now)

IdleAtFirst == mode = "idle" => turn = 1

IInv == /\ SchedulerTypeOK /\ LastIsLatest /\ StillDue /\ PassedAreClear /\ IdleAtFirst
        /\ OneRunPerFire /\ NothingLeftDue

Entries(n, t) == [job : Jobs, nth : 1..n, now : 1..t, done : 1..t]

LEMMA InitInv == SchedulerInit => IInv
<1> SUFFICES ASSUME SchedulerInit PROVE IInv
  OBVIOUS
<1>1. /\ clock \in Times /\ now \in 1..clock /\ turn \in Jobs /\ attempt \in 0..(Retries + 1)
      /\ polled \in 0..clock /\ restarted \in 0..MaxSchedulerRestarts /\ count \in Nat
  BY NumbersAssumption DEF SchedulerInit, Times, Jobs, NeverRun
<1>2. last \in [Jobs -> 0..clock]
  BY NumbersAssumption DEF SchedulerInit, NeverRun
<1>3. SchedulerTypeOK
  BY <1>1, <1>2 DEF SchedulerInit, SchedulerTypeOK
<1>4. StillDue /\ PassedAreClear /\ IdleAtFirst
  BY DEF SchedulerInit, StillDue, PassedAreClear, IdleAtFirst
<1>5. LastIsLatest /\ OneRunPerFire /\ NothingLeftDue
  BY DEF SchedulerInit, LastIsLatest, OneRunPerFire, NothingLeftDue
<1>6. QED
  BY <1>3, <1>4, <1>5 DEF IInv

(* The types of NextJob's variables. *)
LEMMA NextJobTypes ==
  ASSUME SchedulerTypeOK, mode # "idle", NextJob
  PROVE  /\ attempt' = 0 /\ turn' \in Jobs
         /\ mode' \in {"idle", "run", "enqueue"} /\ polled' \in 0..clock
<1>1. turn \in Jobs /\ now \in 1..clock /\ polled \in 0..clock /\ clock \in Nat
      /\ mode \in {"idle", "run", "enqueue"}
  BY NumbersAssumption DEF SchedulerTypeOK, Times
<1>2. turn < NumJobs => turn + 1 \in Jobs
  BY <1>1, NumbersAssumption DEF Jobs
<1>3. 1 \in Jobs
  BY NumbersAssumption DEF Jobs
<1>4. now \in 0..clock
  BY <1>1
<1>5. QED
  BY <1>1, <1>2, <1>3, <1>4 DEF NextJob

(* More entries answer more. *)
LEMMA ClearGrows ==
  ASSUME NEW A, NEW B, A \subseteq B, NEW j \in Jobs, NEW t, Clear(A, j, t)
  PROVE  Clear(B, j, t)
BY DEF Clear

(* Going on to the next job, when this one is clear and those before it    *)
(* stay so.                                                                *)
LEMMA NextJobClear ==
  ASSUME SchedulerTypeOK, mode # "idle", NextJob, now' = now, fires' = fires,
         history \subseteq history', PassedAreClear, NothingLeftDue, Clear(history', turn, now)
  PROVE  PassedAreClear' /\ NothingLeftDue'
<1>1. turn \in Jobs /\ turn \in Int /\ NumJobs \in Int /\ \A j \in Jobs : j \in Int
  BY NumbersAssumption DEF SchedulerTypeOK, Jobs
<1>2. \A j \in Jobs : j < turn => Clear(history', j, now)
  BY ClearGrows DEF PassedAreClear
<1>3. CASE turn < NumJobs
  <2>1. turn' = turn + 1 /\ polled' = polled
    BY <1>3 DEF NextJob
  <2>2. ASSUME NEW j \in Jobs, j < turn + 1 PROVE Clear(history', j, now)
    <3>1. j < turn \/ j = turn
      BY <1>1, <2>2
    <3>2. QED
      BY <1>2, <3>1
  <2>3. PassedAreClear'
    BY <2>1, <2>2 DEF PassedAreClear, Clear
  <2>4. NothingLeftDue'
    BY <2>1 DEF NothingLeftDue
  <2>5. QED
    BY <2>3, <2>4
<1>4. CASE ~(turn < NumJobs)
  <2>1. mode' = "idle" /\ polled' = now
    BY <1>4 DEF NextJob
  <2>2. ASSUME NEW j \in Jobs PROVE Clear(history', j, now)
    <3>1. j < turn \/ j = turn
      <4>1. j <= NumJobs /\ NumJobs <= turn
        BY <1>1, <1>4 DEF Jobs
      <4>2. QED
        BY <1>1, <4>1
    <3>2. QED
      BY <1>2, <3>1
  <2>3. NothingLeftDue'
    BY <2>1, <2>2 DEF NothingLeftDue, Clear
  <2>4. QED
    BY <2>1, <2>3 DEF PassedAreClear
<1>5. QED
  BY <1>3, <1>4

(* A job recorded as run or enqueued at `done`. *)
LEMMA NoteSound ==
  ASSUME IInv, NEW done \in 1..clock, now <= done, Due(turn), Note(turn, done),
         last' = [last EXCEPT ![turn] = done],
         UNCHANGED <<clock, fires, now>>
  PROVE  /\ LastIsLatest' /\ OneRunPerFire' /\ Clear(history', turn, now)
         /\ history \subseteq history' /\ count' \in Nat
         /\ history' \subseteq Entries(count', clock)
<1> DEFINE new == [job |-> turn, nth |-> count + 1, now |-> now, done |-> done]
<1>1. /\ turn \in Jobs /\ last \in [Jobs -> 0..clock] /\ clock \in Nat /\ now \in 1..clock
      /\ count \in Nat /\ history \subseteq Entries(count, clock)
      /\ fires \in [Jobs -> SUBSET Times] /\ Times \subseteq Int
  BY NumbersAssumption DEF IInv, SchedulerTypeOK, Times, Entries
<1>2. count' = count + 1 /\ history' = history \cup {new}
  BY DEF Note
<1>3. new.job = turn /\ new.nth = count + 1 /\ new.now = now /\ new.done = done
  OBVIOUS
<1>4. new \in Entries(count + 1, clock)
  BY <1>1 DEF Entries
<1>5. Entries(count, clock) \subseteq Entries(count + 1, clock)
  BY <1>1 DEF Entries
<1> HIDE DEF new
<1>6. history' \subseteq Entries(count', clock)
  BY <1>1, <1>2, <1>4, <1>5
<1>7. \A h \in history : h.job \in Jobs /\ h.nth \in 1..count /\ h.done \in 1..clock
                         /\ h.now \in 1..clock
  BY <1>1 DEF Entries
<1>8. PICK f \in fires[turn] : f <= now /\ (last[turn] # NeverRun => last[turn] < f)
  BY DEF Due
<1>9. f \in Int
  BY <1>1, <1>8
<1>10. LastIsLatest'
  <2>1. ASSUME NEW j \in Jobs, last'[j] # NeverRun
        PROVE  \E h \in history' : h.job = j /\ h.done = last'[j]
    <3>1. CASE j = turn
      BY <1>1, <1>2, <1>3, <3>1
    <3>2. CASE j # turn
      BY <1>1, <1>2, <2>1, <3>2 DEF IInv, LastIsLatest
    <3>3. QED
      BY <3>1, <3>2
  <2>2. ASSUME NEW h \in history' PROVE last'[h.job] # NeverRun /\ h.done <= last'[h.job]
    <3>1. CASE h = new
      BY <1>1, <1>3, <3>1 DEF NeverRun
    <3>2. CASE h \in history /\ h.job # turn
      BY <1>1, <1>7, <3>2 DEF IInv, LastIsLatest
    <3>3. CASE h \in history /\ h.job = turn
      <4>1. h.done <= last[turn] /\ last[turn] # NeverRun
        BY <3>3 DEF IInv, LastIsLatest
      <4>2. last'[h.job] = done
        BY <1>1, <3>3
      <4>3. h.done \in Int /\ last[turn] \in Int /\ now \in Int
        BY <1>1, <1>7, <3>3
      <4>4. QED
        BY <1>8, <1>9, <4>1, <4>2, <4>3 DEF NeverRun
    <3>4. QED
      BY <1>2, <3>1, <3>2, <3>3
  <2>3. QED
    BY <2>1, <2>2 DEF LastIsLatest
<1>11. OneRunPerFire'
  <2>1. SUFFICES ASSUME NEW a \in history', NEW b \in history', a.job = b.job, a.nth < b.nth
                 PROVE  \E g \in fires[a.job] : a.done < g /\ g <= b.now
    BY DEF OneRunPerFire
  <2>2. CASE a \in history /\ b \in history
    BY <2>1, <2>2 DEF IInv, OneRunPerFire
  <2>3. CASE a \in history /\ b = new
    <3>1. a.job = turn /\ b.now = now
      BY <1>3, <2>1, <2>3
    <3>2. a.done <= last[turn] /\ last[turn] # NeverRun
      BY <2>3, <3>1 DEF IInv, LastIsLatest
    <3>3. a.done \in Int /\ last[turn] \in Int
      BY <1>1, <1>7, <2>3
    <3>4. a.done < f /\ f <= b.now
      BY <1>8, <1>9, <3>1, <3>2, <3>3
    <3>5. QED
      BY <1>8, <3>1, <3>4
  <2>4. CASE a = new
    <3>1. b.nth <= count + 1 /\ b.nth \in Int /\ a.nth = count + 1
      BY <1>1, <1>2, <1>3, <1>7, <2>4
    <3>2. QED
      BY <1>1, <2>1, <3>1
  <2>5. QED
    BY <1>2, <2>2, <2>3, <2>4
<1>12. Clear(history', turn, now)
  <2>1. ASSUME NEW g \in fires[turn], g <= now PROVE g <= done
    <3>1. g \in Int /\ now \in Int /\ done \in Int
      BY <1>1
    <3>2. QED
      BY <2>1, <3>1
  <2>2. QED
    BY <1>2, <1>3, <2>1 DEF Clear
<1>13. QED
  BY <1>1, <1>2, <1>6, <1>10, <1>11, <1>12

(* What the properties and the invariant read beyond the types. *)
books == <<fires, last, mode, now, turn, attempt, history, count, polled>>

LEMMA SameBooks ==
  ASSUME IInv, SchedulerTypeOK', UNCHANGED books
  PROVE  IInv'
BY DEF books, IInv, LastIsLatest, StillDue, Due, PassedAreClear, Clear, IdleAtFirst,
       OneRunPerFire, NothingLeftDue

LEMMA InvPoll ==
  ASSUME IInv, NEW m \in {"run", "enqueue"}, Poll(m), fires' = fires
  PROVE  IInv'
<1>1. clock \in Nat /\ clock \in 1..clock
  BY NumbersAssumption DEF IInv, SchedulerTypeOK, Times
<1>2. /\ mode' = m /\ now' = clock
      /\ UNCHANGED <<clock, fires, last, turn, attempt, history, count, polled, restarted>>
  BY DEF Poll
<1>3. attempt \in Nat /\ ~(attempt > 0)
  BY NumbersAssumption DEF IInv, SchedulerTypeOK, Poll
<1>4. SchedulerTypeOK'
  BY <1>1, <1>2, <1>3 DEF IInv, SchedulerTypeOK
<1>5. StillDue'
  BY <1>2, <1>3 DEF StillDue
<1>6. turn = 1
  BY DEF IInv, IdleAtFirst, Poll
<1>7. PassedAreClear'
  BY <1>2, <1>6 DEF PassedAreClear, Jobs
<1>8. LastIsLatest' /\ OneRunPerFire' /\ NothingLeftDue'
  BY <1>2 DEF IInv, LastIsLatest, OneRunPerFire, NothingLeftDue
<1>9. IdleAtFirst'
  BY <1>2, <1>6 DEF IdleAtFirst
<1>10. QED
  BY <1>4, <1>5, <1>7, <1>8, <1>9 DEF IInv

(* A job not due is clear: what it fired was answered by its latest run. *)
LEMMA InvNotDue ==
  ASSUME IInv, NotDue, fires' = fires
  PROVE  IInv'
<1>1. /\ turn \in Jobs /\ last[turn] \in Int /\ now \in Int /\ attempt = 0
      /\ fires[turn] \subseteq Int /\ NeverRun \in Int
      /\ \A h \in history : h.done \in Int
  BY NumbersAssumption DEF IInv, SchedulerTypeOK, Times, NotDue, NeverRun, Entries
<1>2. Clear(history, turn, now)
  <2>1. CASE last[turn] = NeverRun
    BY <2>1 DEF NotDue, Due, Clear
  <2>2. CASE last[turn] # NeverRun
    <3>1. PICK h \in history : h.job = turn /\ h.done = last[turn]
      BY <1>1, <2>2 DEF IInv, LastIsLatest
    <3>2. \A f \in fires[turn] : f <= now => f <= last[turn]
      BY <1>1, <2>2 DEF NotDue, Due
    <3>3. QED
      BY <3>1, <3>2 DEF Clear
  <2>3. QED
    BY <2>1, <2>2
<1>3. /\ NextJob /\ mode # "idle"
      /\ UNCHANGED <<clock, fires, last, now, history, count, restarted>>
  BY DEF NotDue
<1>4. PassedAreClear' /\ NothingLeftDue'
  BY <1>2, <1>3, NextJobClear DEF IInv
<1>5. SchedulerTypeOK'
  BY <1>3, NextJobTypes, NumbersAssumption DEF IInv, SchedulerTypeOK
<1>6. StillDue' /\ IdleAtFirst'
  BY <1>3 DEF NextJob, StillDue, IdleAtFirst
<1>7. LastIsLatest' /\ OneRunPerFire'
  BY <1>3 DEF IInv, LastIsLatest, OneRunPerFire
<1>8. QED
  BY <1>4, <1>5, <1>6, <1>7 DEF IInv

LEMMA InvParamsRaise ==
  ASSUME IInv, ParamsRaise, fires' = fires
  PROVE  IInv'
<1>1. /\ mode' = "idle" /\ turn' = 1 /\ attempt = 0 /\ attempt' = 0
      /\ UNCHANGED <<clock, fires, last, now, history, count, polled, restarted>>
  BY DEF ParamsRaise
<1>2. SchedulerTypeOK'
  BY <1>1, NumbersAssumption DEF IInv, SchedulerTypeOK, Jobs
<1>3. StillDue' /\ IdleAtFirst' /\ PassedAreClear'
  BY <1>1 DEF StillDue, IdleAtFirst, PassedAreClear
<1>4. LastIsLatest' /\ OneRunPerFire' /\ NothingLeftDue'
  BY <1>1 DEF IInv, LastIsLatest, OneRunPerFire, NothingLeftDue
<1>5. QED
  BY <1>2, <1>3, <1>4 DEF IInv

(* An attempt begins: the first while the job is due, the others after it. *)
LEMMA InvAttempt ==
  ASSUME IInv, Begin \/ Again, fires' = fires
  PROVE  IInv'
<1>1. /\ UNCHANGED <<clock, fires, last, mode, now, turn, history, count, polled, restarted>>
      /\ attempt' = attempt + 1 /\ attempt <= Retries /\ mode = "run"
  BY NumbersAssumption DEF Begin, Again, IInv, SchedulerTypeOK
<1>2. Due(turn)
  BY DEF Begin, Again, IInv, StillDue
<1>3. attempt' \in 0..(Retries + 1)
  BY <1>1, NumbersAssumption DEF IInv, SchedulerTypeOK
<1>4. SchedulerTypeOK'
  BY <1>1, <1>3 DEF IInv, SchedulerTypeOK
<1>5. StillDue' /\ IdleAtFirst'
  BY <1>1, <1>2 DEF StillDue, Due, IdleAtFirst
<1>6. LastIsLatest' /\ OneRunPerFire' /\ NothingLeftDue' /\ PassedAreClear'
  BY <1>1 DEF IInv, LastIsLatest, OneRunPerFire, NothingLeftDue, PassedAreClear, Clear
<1>7. QED
  BY <1>4, <1>5, <1>6 DEF IInv

(* A run ends or a job is enqueued, at `done`. *)
LEMMA InvNote ==
  ASSUME IInv, NEW done \in 1..clock, now <= done, mode # "idle", Due(turn),
         Note(turn, done), last' = [last EXCEPT ![turn] = done], NextJob,
         UNCHANGED <<clock, fires, now, restarted>>
  PROVE  IInv'
<1>1. /\ LastIsLatest' /\ OneRunPerFire' /\ Clear(history', turn, now)
      /\ history \subseteq history' /\ count' \in Nat
      /\ history' \subseteq Entries(count', clock)
  BY NoteSound
<1>2. PassedAreClear' /\ NothingLeftDue'
  BY <1>1, NextJobClear DEF IInv
<1>3. StillDue' /\ IdleAtFirst'
  BY DEF NextJob, StillDue, IdleAtFirst
<1>4. last' \in [Jobs -> 0..clock]
  <2>1. done \in 0..clock /\ turn \in Jobs /\ last \in [Jobs -> 0..clock]
    BY NumbersAssumption DEF IInv, SchedulerTypeOK, Times
  <2>2. QED
    BY <2>1
<1>5. /\ attempt' = 0 /\ turn' \in Jobs
      /\ mode' \in {"idle", "run", "enqueue"} /\ polled' \in 0..clock
  BY NextJobTypes DEF IInv
<1>6. SchedulerTypeOK'
  BY <1>1, <1>4, <1>5, NumbersAssumption DEF IInv, SchedulerTypeOK, Entries
<1>7. QED
  BY <1>1, <1>2, <1>3, <1>6 DEF IInv

LEMMA InvFinish ==
  ASSUME IInv, NEW succeeded \in BOOLEAN, Finish(succeeded), fires' = fires
  PROVE  IInv'
<1>1. clock \in 1..clock /\ now <= clock
  BY NumbersAssumption DEF IInv, SchedulerTypeOK, Times
<1>2. mode # "idle" /\ Due(turn)
  BY DEF Finish, IInv, SchedulerTypeOK, StillDue
<1>3. QED
  BY <1>1, <1>2, InvNote DEF Finish

LEMMA InvEnqueue ==
  ASSUME IInv, Enqueue, fires' = fires
  PROVE  IInv'
<1>1. now \in 1..clock /\ now <= now
  BY NumbersAssumption DEF IInv, SchedulerTypeOK, Times
<1>2. QED
  BY <1>1, InvNote DEF Enqueue

LEMMA InvTick ==
  ASSUME IInv, Tick, fires' = fires
  PROVE  IInv'
<1>1. /\ clock' = clock + 1 /\ clock < LastTime /\ restarted' = restarted
      /\ UNCHANGED <<fires, last, mode, now, turn, attempt, history, count, polled>>
  BY DEF Tick
<1>2. clock \in Nat /\ clock' \in Times /\ 1..clock \subseteq 1..clock' /\ 0..clock \subseteq 0..clock'
  BY <1>1, NumbersAssumption DEF IInv, SchedulerTypeOK, Times
<1>3. last' \in [Jobs -> 0..clock'] /\ now' \in 1..clock' /\ polled' \in 0..clock'
  BY <1>1, <1>2 DEF IInv, SchedulerTypeOK
<1>4. history' \subseteq [job : Jobs, nth : 1..count', now : 1..clock', done : 1..clock']
  <2>1. history \subseteq Entries(count, clock)
    BY DEF IInv, SchedulerTypeOK, Entries
  <2>2. Entries(count, clock) \subseteq Entries(count, clock')
    BY <1>2 DEF Entries
  <2>3. QED
    BY <1>1, <2>1, <2>2 DEF Entries
<1>5. SchedulerTypeOK'
  BY <1>1, <1>2, <1>3, <1>4 DEF IInv, SchedulerTypeOK
<1>6. QED
  BY <1>1, <1>5, SameBooks DEF books

LEMMA InvRestart ==
  ASSUME IInv, SchedulerRestart, fires' = fires
  PROVE  IInv'
<1>1. /\ last' = [j \in Jobs |-> NeverRun] /\ mode' = "idle" /\ now' = 1 /\ turn' = 1
      /\ attempt' = 0 /\ history' = {} /\ count' = 0 /\ polled' = NeverRun /\ clock' = clock
      /\ restarted' = restarted + 1 /\ restarted < MaxSchedulerRestarts
  BY DEF SchedulerRestart
<1>2. /\ clock \in Nat \ {0} /\ 1 \in 1..clock /\ 1 \in Jobs /\ NeverRun \in 0..clock
      /\ 0 \in 0..(Retries + 1) /\ restarted' \in 0..MaxSchedulerRestarts
  BY <1>1, NumbersAssumption DEF IInv, SchedulerTypeOK, Times, Jobs, NeverRun
<1>3. SchedulerTypeOK'
  <2>1. last' \in [Jobs -> 0..clock']
    BY <1>1, <1>2
  <2>2. QED
    BY <1>1, <1>2, <2>1 DEF IInv, SchedulerTypeOK
<1>4. StillDue' /\ IdleAtFirst' /\ PassedAreClear'
  BY <1>1 DEF StillDue, IdleAtFirst, PassedAreClear
<1>5. LastIsLatest' /\ OneRunPerFire' /\ NothingLeftDue'
  BY <1>1 DEF LastIsLatest, OneRunPerFire, NothingLeftDue
<1>6. QED
  BY <1>3, <1>4, <1>5 DEF IInv

LEMMA NextInv == IInv /\ [SchedulerNext]_schedulerVars => IInv'
<1>1. ASSUME IInv, SchedulerNext PROVE IInv'
  BY <1>1, InvPoll, InvNotDue, InvParamsRaise, InvAttempt, InvFinish, InvEnqueue, InvTick,
     InvRestart DEF SchedulerNext
<1>2. ASSUME IInv, UNCHANGED schedulerVars PROVE IInv'
  <2>1. SchedulerTypeOK' /\ UNCHANGED books
    BY <1>2 DEF schedulerVars, books, IInv, SchedulerTypeOK
  <2>2. QED
    BY <1>2, <2>1, SameBooks
<1>3. QED
  BY <1>1, <1>2

LEMMA InvHolds == SchedulerSpec => []IInv
BY InitInv, NextInv, PTL DEF SchedulerSpec

(* Attempts, times and entries keep their ranges. *)
THEOREM TypeCorrect == SchedulerSpec => []SchedulerTypeOK
<1>1. IInv => SchedulerTypeOK
  BY DEF IInv
<1>2. QED
  BY <1>1, InvHolds, PTL

(* No firing time is answered twice in the life of a process. *)
THEOREM NoDoubleRun == SchedulerSpec => []OneRunPerFire
<1>1. IInv => OneRunPerFire
  BY DEF IInv
<1>2. QED
  BY <1>1, InvHolds, PTL

(* A call that ends normally leaves no firing time of its window behind. *)
THEOREM NothingDue == SchedulerSpec => []NothingLeftDue
<1>1. IInv => NothingLeftDue
  BY DEF IInv
<1>2. QED
  BY <1>1, InvHolds, PTL

=============================================================================
