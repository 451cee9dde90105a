----------------------------- MODULE Ingestion -----------------------------
(***************************************************************************)
(* Daily-bar ingestion of one (instrument, source): ingest_bars_daily      *)
(* (packages/ingestion/pipeline.py), called by the worker's task and by    *)
(* the admin API, over a watermark store and SqlBarRepository.             *)
(*                                                                         *)
(* A call reads its watermark, fetches, writes and advances in four steps; *)
(* the calls of all processes write one table, those of one process share  *)
(* a watermark store.  The only store there is, InMemoryWatermarkStore, is *)
(* gone with its process; the table stays.  What the source returns is     *)
(* free: bars may be late, revised, repeated or out of order.              *)
(***************************************************************************)
EXTENDS Integers, FiniteSets

CONSTANTS
  Callers,      \* worker tasks and API requests
  Stores,       \* watermark stores, one per process
  LastDate,     \* the dates are 1..LastDate
  MaxStarts,    \* bound: calls
  MaxAborts     \* bound: calls or processes lost

ASSUME BoundsAssumption == {LastDate, MaxStarts, MaxAborts} \subseteq Nat

Dates == 1..LastDate

\* No watermark yet: last_market_local_date is None.
NoMark == 0

\* What BarChecks and the table say of a bar: "bad" has an ERROR finding the
\* table would accept (a negative volume), "broken" one its CHECK refuses.
Bars == {"missing", "good", "bad", "broken"}

VARIABLES
  table,     \* market_bar: the row of each date
  mark,      \* each store's watermark
  storeOf, hasSink,  \* a caller's wiring: its store, and whether it has a bar_repo
  call,      \* a call's locals
  emitted,   \* history: dates the calls on a store have reported as written
  dropped,   \* history: dates reported as written by calls without a sink
  asked,     \* history: dates written by non-strict calls
  lost,      \* history: stores one of whose calls was lost before its advance
  starts, aborts

wiring == <<storeOf, hasSink>>
history == <<emitted, dropped, asked, lost>>
vars == <<table, mark, wiring, call, history, starts, aborts>>

NoBars == [d \in Dates |-> "missing"]
DatesOf(bars) == {d \in Dates : bars[d] # "missing"}
Greatest(S) == CHOOSE d \in S : \A e \in S : e <= d

\* overtaken: the store's watermark moved while the call ran.
Idle == [pc |-> "idle", prev |-> NoMark, window |-> {}, strict |-> TRUE,
         kept |-> NoBars, unsorted |-> FALSE, overtaken |-> FALSE]

Init ==
  /\ table = NoBars
  /\ mark = [s \in Stores |-> NoMark]
  /\ storeOf \in [Callers -> Stores] /\ hasSink \in [Callers -> BOOLEAN]
  /\ call = [c \in Callers |-> Idle]
  /\ emitted = [s \in Stores |-> {}]
  /\ dropped = {} /\ asked = {} /\ lost = {}
  /\ starts = 0 /\ aborts = 0

At(c, pc) == call[c].pc = pc
Kept(c) == DatesOf(call[c].kept)
End(c) == call' = [call EXCEPT ![c] = Idle]

(* watermarks.get.                                                         *)
Start(c, window, strict) ==
  /\ At(c, "idle") /\ starts < MaxStarts
  /\ starts' = starts + 1
  /\ call' = [call EXCEPT ![c] = [Idle EXCEPT !.pc = "fetch", !.strict = strict,
                                    !.window = window, !.prev = mark[storeOf[c]]]]
  /\ UNCHANGED <<table, mark, wiring, history, aborts>>

\* Mutant of Fresh: the watermark is not looked at.
Fresh_All(c, feed) == call[c].window \cap DatesOf(feed)

\* Mutant of Fresh: the watermark itself is fetched again.
Fresh_FromMark(c, feed) == {d \in call[c].window \cap DatesOf(feed) : d >= call[c].prev}

(* The fetched dates strictly above the watermark.                         *)
Fresh(c, feed) == {d \in call[c].window \cap DatesOf(feed) : d > call[c].prev}

(* The adapter repeats a date above the watermark: DataConflictError.      *)
FetchConflict(c, feed) ==
  /\ At(c, "fetch") /\ Fresh(c, feed) # {}
  /\ End(c)
  /\ UNCHANGED <<table, mark, wiring, history, starts, aborts>>

(* has_errors over the per-bar rules and monotonic_date.                   *)
HasErrors(bars, unsorted) ==
  unsorted \/ \E d \in Dates : bars[d] \in {"bad", "broken"}

(* The bars to keep, in the adapter's order, and the quality gate.         *)
Fetch(c, feed, unsorted) ==
  LET kept == [d \in Dates |-> IF d \in Fresh(c, feed) THEN feed[d] ELSE "missing"]
      blocked == call[c].strict /\ HasErrors(kept, unsorted)
  IN /\ At(c, "fetch")
     /\ unsorted => \E d, e \in Fresh(c, feed) : d # e
     /\ IF blocked
        THEN End(c)
        ELSE call' = [call EXCEPT ![c].pc = "write", ![c].window = {},
                                  ![c].kept = kept, ![c].unsorted = unsorted]
     /\ UNCHANGED <<table, mark, wiring, history, starts, aborts>>

\* Mutant of Upsert: the write replaces the partition instead of its own rows.
Upsert_Replace(bars) == bars

Upsert(bars) == [d \in Dates |-> IF bars[d] # "missing" THEN bars[d] ELSE table[d]]

HasBars(c) == Kept(c) # {}

(* sink.write, one transaction, which the table's CHECK may refuse; without*)
(* a sink nothing is stored, without bars there is nothing to advance to.  *)
Write(c) ==
  LET refused == hasSink[c] /\ \E d \in Dates : call[c].kept[d] = "broken" IN
  /\ At(c, "write")
  /\ IF refused \/ ~HasBars(c)
     THEN End(c)
     ELSE call' = [call EXCEPT ![c].pc = "advance"]
  /\ IF refused
     THEN UNCHANGED <<table, emitted, dropped, asked>>
     ELSE /\ table' = IF hasSink[c] THEN Upsert(call[c].kept) ELSE table
          /\ emitted' = [emitted EXCEPT ![storeOf[c]] = @ \cup Kept(c)]
          /\ dropped' = IF hasSink[c] THEN dropped ELSE dropped \cup Kept(c)
          /\ asked' = IF call[c].strict THEN asked ELSE asked \cup Kept(c)
  /\ UNCHANGED <<mark, wiring, lost, starts, aborts>>

\* Mutant of Latest: the last bar fetched, which need not be the latest one.
Latest_LastFetched(c) ==
  IF call[c].unsorted THEN CHOOSE d \in Kept(c) : d # Greatest(Kept(c)) ELSE Greatest(Kept(c))

Latest(c) == Greatest(Kept(c))

Regresses(c) == Latest(c) < mark[storeOf[c]]

(* watermarks.advance: a regression raises, after the rows are written.    *)
Advance(c) ==
  /\ At(c, "advance")
  /\ IF Regresses(c)
     THEN End(c) /\ UNCHANGED mark
     ELSE /\ mark' = [mark EXCEPT ![storeOf[c]] = Latest(c)]
          /\ call' = [o \in Callers |->
               CASE o = c -> Idle
                 [] o # c /\ storeOf[o] = storeOf[c] /\ ~At(o, "idle") ->
                      [call[o] EXCEPT !.overtaken = TRUE]
                 [] OTHER -> call[o]]
  /\ UNCHANGED <<table, wiring, history, starts, aborts>>

(* The adapter or the database raises, two transactions collide on a row,  *)
(* or the job's timeout strikes: the call ends where it is.                *)
Abort(c) ==
  /\ ~At(c, "idle") /\ aborts < MaxAborts
  /\ aborts' = aborts + 1
  /\ lost' = IF At(c, "advance") THEN lost \cup {storeOf[c]} ELSE lost
  /\ End(c)
  /\ UNCHANGED <<table, mark, wiring, emitted, dropped, asked, starts>>

(* A process is lost with its calls and its watermarks.                    *)
Restart(s) ==
  /\ aborts < MaxAborts
  /\ aborts' = aborts + 1
  /\ call' = [c \in Callers |-> IF storeOf[c] = s THEN Idle ELSE call[c]]
  /\ mark' = [mark EXCEPT ![s] = NoMark]
  /\ emitted' = [emitted EXCEPT ![s] = {}]
  /\ lost' = lost \ {s}
  /\ UNCHANGED <<table, wiring, dropped, asked, starts>>

Feeds == [Dates -> Bars]
Windows == {from..to : from \in Dates, to \in Dates} \* empty if from > to, as the task allows

Next ==
  \/ \E c \in Callers :
       \/ \E window \in Windows, strict \in BOOLEAN : Start(c, window, strict)
       \/ \E feed \in Feeds : FetchConflict(c, feed)
       \/ \E feed \in Feeds, unsorted \in BOOLEAN : Fetch(c, feed, unsorted)
       \/ Write(c)
       \/ Advance(c)
       \/ Abort(c)
  \/ \E s \in Stores : Restart(s)

Spec == Init /\ [][Next]_vars

-----------------------------------------------------------------------------
(* Properties.                                                             *)

(* Rows, watermarks and every call's locals keep their shape; a call holds *)
(* bars only from its write on, and then at least one when it advances.    *)
Calls == [pc : {"idle", "fetch", "write", "advance"}, prev : Dates \cup {NoMark},
          window : SUBSET Dates, strict : BOOLEAN, kept : Feeds,
          unsorted : BOOLEAN, overtaken : BOOLEAN]

TypeOK ==
  /\ table \in Feeds
  /\ mark \in [Stores -> Dates \cup {NoMark}]
  /\ storeOf \in [Callers -> Stores] /\ hasSink \in [Callers -> BOOLEAN]
  /\ call \in [Callers -> Calls]
  /\ \A c \in Callers : At(c, "advance") => Kept(c) # {}
  /\ emitted \in [Stores -> SUBSET Dates]
  /\ dropped \subseteq Dates /\ asked \subseteq Dates /\ lost \subseteq Stores
  /\ starts \in 0..MaxStarts /\ aborts \in 0..MaxAborts

(* pipeline.py writes, then advances, in separate stores: whatever is lost *)
(* in between and whoever else writes, the date a watermark stands at has  *)
(* its row, unless a call without a sink reported that date as written.    *)
MarkIsStored ==
  \A s \in Stores : mark[s] # NoMark => mark[s] \in dropped \cup DatesOf(table)

(* A date reported as written is at or below the watermark once its call   *)
(* is over, even if the call's own advance was refused as a regression;    *)
(* only a call lost before its advance leaves dates above it.              *)
EmittedIsCovered ==
  \A s \in Stores \ lost :
    \/ \E c \in Callers : storeOf[c] = s /\ At(c, "advance")
    \/ \A d \in emitted[s] : d <= mark[s]

(* The ValueError of advance(), which escapes the admin API after the rows *)
(* are written, only meets a call whose watermark another call has moved.  *)
RegressionMeansOvertaken ==
  \A c \in Callers : At(c, "advance") /\ Regresses(c) => call[c].overtaken

(* A row with an ERROR finding was written by a call that asked for it     *)
(* (strict=False); strict calls of other callers never store one.          *)
BadRowsAreAsked == \A d \in Dates : table[d] \in {"bad", "broken"} => d \in asked

(* A row at or below a process's watermark is rewritten by that process    *)
(* only in a call that another one has overtaken: revisions are ignored.   *)
MarkedRowsStand ==
  [][\A d \in Dates : table'[d] # table[d] =>
       \E c \in Callers : /\ At(c, "write") /\ d \in Kept(c)
                          /\ (d > mark[storeOf[c]] \/ call[c].overtaken)]_vars

(* "does not regress the watermark": it only moves up, whatever the order  *)
(* in which overlapping calls advance, until its process is lost.          *)
MarksOnlyAdvance ==
  [][\A s \in Stores : mark'[s] >= mark[s] \/ aborts' # aborts]_vars

=============================================================================
