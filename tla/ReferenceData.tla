--------------------------- MODULE ReferenceData ----------------------------
(***************************************************************************)
(* The point-in-time stores: the repositories of data_sources/sql_repos.py *)
(* and sql_bar_repo.py, the in-memory FactStore (fundamentals/facts.py)    *)
(* and the two instrument repositories (packages/instruments).             *)
(*                                                                         *)
(* A row is [date, source, available, value]; `date` is the ex-date, the   *)
(* filing, the session or the day of a position.  A behaviour is about one *)
(* kind of row, of one instrument (or currency pair, or portfolio); of the *)
(* instrument master, about the aliases.  An `ask` notes what all reads as *)
(* of that moment said.  `available` may be earlier than the moment a row  *)
(* is written: backfills are how histories come in.                        *)
(***************************************************************************)
EXTENDS Integers, Sequences, FiniteSets, SequencesExt

CONSTANTS
  Sources,      \* data sources
  Names,        \* instruments an alias may stand for
  MaxMoment,    \* bound: dates and moments
  MaxWrites,    \* bound: batches
  Nobody        \* no instrument

ASSUME MomentsAssumption == {MaxMoment, MaxWrites} \subseteq Nat

Moments == 0..MaxMoment
Kinds == {"action", "fact", "nav", "fx", "bar", "position", "alias"}

VARIABLES
  kind,
  clock,
  rows,         \* the table
  memory,       \* FactStore: one bucket, by availability
  instruments, aliases,  \* instruments and instrument_aliases
  aliasBook,    \* InMemoryInstrumentRepository: aliases by valid_from
  ask,          \* history: [moment, said] of one question, or Unasked
  events,       \* history: what happened that may explain a changed answer
  writes

storeVars == <<rows, memory, instruments, aliases, aliasBook>>
refVars == <<kind, clock, storeVars, ask, events, writes>>

Unasked == [moment |-> -1, said |-> <<>>]

ReferenceInit ==
  /\ kind \in Kinds /\ clock = 0
  /\ rows = {} /\ memory = <<>>
  /\ instruments = {} /\ aliases = {} /\ aliasBook = <<>>
  /\ ask = Unasked /\ events = {} /\ writes = 0

-----------------------------------------------------------------------------
(* Writes.                                                                 *)

(* A portfolio has one position a day; every other table one row per date  *)
(* and source.                                                             *)
KeyOf(row) == IF kind = "position" THEN <<row.date>> ELSE <<row.date, row.source>>

Replaced(batch) == {r \in rows : \E b \in batch : KeyOf(r) = KeyOf(b)}

\* CHECK available_at_utc >= the filing, the session's end; Fact.__post_init__.
AvailableInTime(batch) == \A row \in batch : row.available >= row.date

(* Delete by primary key, then insert, in one transaction: two rows of one *)
(* key in a batch break the insert, and nothing is stored.                 *)
Store(batch) ==
  /\ writes < MaxWrites /\ writes' = writes + 1
  /\ \A a, b \in batch : a # b => KeyOf(a) # KeyOf(b)
  /\ rows' = (rows \ Replaced(batch)) \cup batch
  /\ events' = events
       \cup {<<"visible", r.available>> : r \in batch \cup Replaced(batch)}
       \cup {<<"day", r.date>> : r \in batch}
       \cup {<<"again">> : r \in Replaced(batch)}
       \cup {<<"moved">> : r \in {r \in Replaced(batch) : \E b \in batch :
                                    KeyOf(b) = KeyOf(r) /\ b.available # r.available}}
  /\ UNCHANGED <<kind, clock, instruments, aliases, aliasBook, ask>>

(* FactStore.add: after the entries that are no later.                     *)
Insorted(book, entry, when) ==
  InsertAt(book, 1 + Cardinality({k \in DOMAIN book : book[k][when] <= entry[when]}), entry)

AddFact(book, fact) == Insorted(book, fact, "available")

UpsertActions(batch) == kind = "action" /\ Store(batch) /\ UNCHANGED memory

(* To the table and to the store in memory, in the batch's order, whatever *)
(* it is (bound: batches of at most two).                                  *)
UpsertFacts(batch) ==
  /\ kind = "fact" /\ AvailableInTime(batch) /\ Store(batch)
  /\ \E first, second \in batch :
       /\ batch = {first, second}
       /\ memory' = IF first = second THEN AddFact(memory, first)
                    ELSE AddFact(AddFact(memory, first), second)

UpsertNavs(batch) ==
  kind = "nav" /\ AvailableInTime(batch) /\ Store(batch) /\ UNCHANGED memory

UpsertBars(batch) ==
  kind = "bar" /\ AvailableInTime(batch) /\ Store(batch) /\ UNCHANGED memory

UpsertRate(row) == kind = "fx" /\ Store({row}) /\ UNCHANGED memory

UpsertPosition(row) == kind = "position" /\ Store({row}) /\ UNCHANGED memory

(* SqlInstrumentRepository.upsert: the row is deleted and inserted, and    *)
(* the aliases that refer to it go with the delete (ON DELETE CASCADE).    *)
Register(i) ==
  /\ kind = "alias" /\ writes < MaxWrites
  /\ instruments' = instruments \cup {i}
  /\ aliases' = {a \in aliases : a.target # i}
  /\ events' = events \cup {<<"dropped">> : a \in aliases \ aliases'}
  /\ writes' = writes + 1
  /\ UNCHANGED <<kind, clock, rows, memory, aliasBook, ask>>

(* add_alias of both repositories; the table refuses an unknown instrument *)
(* and a second row of one valid_from.                                     *)
AddAlias(a) ==
  /\ kind = "alias" /\ writes < MaxWrites
  /\ a.target \in instruments /\ \A b \in aliases : b.from # a.from
  /\ aliases' = aliases \cup {a}
  /\ aliasBook' = Insorted(aliasBook, a, "from")
  /\ events' = events \cup {<<"visible", a.from>>}
  /\ writes' = writes + 1
  /\ UNCHANGED <<kind, clock, rows, memory, instruments, ask>>

-----------------------------------------------------------------------------
(* Reads as of a moment m.  Where the code takes the first of several      *)
(* equal rows, the answer is the set of them.                              *)

Known(m) == {r \in rows : r.available <= m}
Newest(S) == {r \in S : \A q \in S : q.available <= r.available}
OfLastDate(S) == {r \in S : \A q \in S : q.date <= r.date}

\* Mutant of GetFact: a fact counts from its filing on.
GetFact_ByFiling(m) == Newest({r \in rows : r.date <= m})

GetFact(m) == Newest(Known(m))

FactHistory(m) == Known(m)

ListForInstrument(m) == Known(m)

FindNavs(first, last, m) == {r \in Known(m) : first <= r.date /\ r.date <= last}

(* get_as_of with an as_of_utc, which FxConverter leaves out.              *)
RateKnown(m) == OfLastDate({r \in Known(m) : r.date <= m})

FindBars(first, last, source, m) ==
  {r \in Known(m) : first <= r.date /\ r.date <= last /\ (source = Nobody \/ r.source = source)}

LatestBar(m) == OfLastDate(Known(m))

(* A snapshot has no availability: it is by the date of the position.      *)
Snapshot(m) == OfLastDate({r \in rows : r.date <= m})

(* FactStore.get: the place of its answer. *)
FactInMemory(m) == SelectLastInSeq(memory, LAMBDA fact : fact.available <= m)

(* latest_as_of over a list: the first of the latest.                      *)
LatestAsOf(facts, m) ==
  LET known == {k \in DOMAIN facts : facts[k].available <= m}
      Before(j, k) == \/ facts[j].available > facts[k].available
                      \/ facts[j].available = facts[k].available /\ j < k
  IN  {facts[k] : k \in {k \in known : \A j \in known : ~Before(j, k)}}

\* Mutant of ValidAt: an alias still holds at the moment it ends.
ValidAt_EndIncluded(a, m) == a.from <= m /\ m <= a.to

ValidAt(a, m) == a.from <= m /\ m < a.to

(* resolve_alias of the SQL repository and of the one in memory.           *)
ResolveAlias(m) ==
  LET valid == {a \in aliases : ValidAt(a, m)}
  IN  {a.target : a \in {a \in valid : \A b \in valid : b.from <= a.from}}

ResolveInMemory(m) ==
  LET k == SelectLastInSeq(aliasBook, LAMBDA a : a.from <= m /\ m < a.to)
  IN  IF k = 0 THEN {} ELSE {aliasBook[k].target} \cap instruments

(* Everything the reads of this kind say as of m.                          *)
Reading(m) ==
  CASE kind = "action"   -> <<ListForInstrument(m)>>
    [] kind = "fact"     -> <<GetFact(m), FactHistory(m)>>
    [] kind = "nav"      -> <<FindNavs(0, m, m)>>
    [] kind = "fx"       -> <<RateKnown(m)>>
    [] kind = "bar"      -> <<FindBars(0, m, Nobody, m), LatestBar(m)>>
    [] kind = "position" -> <<Snapshot(m)>>
    [] kind = "alias"    -> <<ResolveAlias(m)>>

Ask ==
  /\ ask = Unasked
  /\ ask' = [moment |-> clock, said |-> Reading(clock)]
  /\ events' = events \ ({<<"visible", m>> : m \in Moments} \cup {<<"day", m>> : m \in Moments}
                           \cup {<<"dropped">>})
  /\ UNCHANGED <<kind, clock, storeVars, writes>>

Tick ==
  /\ clock < MaxMoment /\ clock' = clock + 1
  /\ UNCHANGED <<kind, storeVars, ask, events, writes>>

\* Dates leave room for a later availability.
Slots == [date : 0..MaxMoment - 1, source : Sources, available : Moments]
Batches == {{k, l} : k, l \in Slots}

\* A row of this moment's writing: `value` tells the writes apart.
Row(slot) == [date |-> slot.date, source |-> slot.source, available |-> slot.available,
              value |-> writes]

ReferenceNext ==
  \/ \E slots \in Batches :
       LET batch == {Row(slot) : slot \in slots} IN
       \/ UpsertActions(batch) \/ UpsertFacts(batch) \/ UpsertNavs(batch) \/ UpsertBars(batch)
  \/ \E slot \in Slots : UpsertRate(Row(slot)) \/ UpsertPosition(Row(slot))
  \/ \E i \in Names : Register(i)
  \/ \E i \in Names, from \in Moments, to \in 1..MaxMoment + 1 :
       AddAlias([target |-> i, from |-> from, to |-> to])
  \/ Ask
  \/ Tick

ReferenceSpec == ReferenceInit /\ [][ReferenceNext]_refVars

-----------------------------------------------------------------------------
(* Properties.                                                             *)

\* Something written since the question was visible at its moment.
Disturbed ==
  IF kind = "position" THEN \E m \in 0..ask.moment : <<"day", m>> \in events
  ELSE <<"dropped">> \in events \/ \E m \in 0..ask.moment : <<"visible", m>> \in events

ReadsHold == ask # Unasked /\ ~Disturbed => Reading(ask.moment) = ask.said

FactStoreAgrees ==
  kind = "fact" /\ <<"moved">> \notin events =>
    \A m \in Moments :
      LET k == FactInMemory(m)
          found == LatestAsOf(memory, m) IN
      /\ k = 0 <=> GetFact(m) = {}
      /\ k = 0 <=> found = {}
      /\ k # 0 => /\ memory[k] \in GetFact(m) \/ <<"again">> \in events
                  /\ \A fact \in found \cup GetFact(m) : fact.available = memory[k].available

AliasBookAgrees ==
  kind = "alias" /\ (\A k \in DOMAIN aliasBook : aliasBook[k] \in aliases) =>
    \A m \in Moments : ResolveAlias(m) = ResolveInMemory(m)

(* A read as of a moment says for ever what it said then, unless something *)
(* visible at that moment was written or replaced since: rows that became  *)
(* available later never show.  And as long as no row is sent again with   *)
(* another availability (no instrument registered again), the stores in    *)
(* memory, used in tests, answer like the tables, used in production.      *)
AsOfReadsHold == ReadsHold /\ FactStoreAgrees /\ AliasBookAgrees
=============================================================================
