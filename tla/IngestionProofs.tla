-------------------------- MODULE IngestionProofs --------------------------
(***************************************************************************)
(* Proofs about Ingestion, for any number of callers, stores and dates;    *)
(* about ReferenceData, for any sources, instruments and moments; and      *)
(* about the answers of the tools (Serving), for what MCIngestion asks.    *)
(*                                                                         *)
(* IInv says what a call may rely on between its steps: unless it has been *)
(* overtaken its store's watermark is still the one it read (MarkStands),  *)
(* what it kept lies above that (KeptAbove) and is stored or dropped when  *)
(* it advances (KeptStored); and whatever was reported as written is below *)
(* the watermark or in the hands of a call about to advance (Covered).     *)
(*                                                                         *)
(* ReferenceInv says what the stores in memory are to the tables: sorted   *)
(* books with every row (FactBook) and every alias (AliasBook).  That a    *)
(* read keeps its word is inductive with the types alone.                  *)
(***************************************************************************)
EXTENDS MCIngestion, SequenceTheorems, FiniteSetTheorems, NaturalsInduction,
        WellFoundedInduction, TLAPS

(* A non-empty set of dates has a latest one. *)
LEMMA GreatestIsLatest ==
  ASSUME NEW S, S \subseteq Dates, S # {}
  PROVE  Greatest(S) \in S /\ \A e \in S : e <= Greatest(S)
<1> DEFINE Above == {n \in Nat : \A d \in S : d <= n}
           Less == OpToRel(<, Nat)
<1>1. LastDate \in Above /\ Above \subseteq Nat
  BY BoundsAssumption DEF Dates
<1>2. IsWellFoundedOn(Less, Nat)
  BY NatLessThanWellFounded
<1>3. \A m, n \in Nat : m < n => <<m, n>> \in Less
  BY DEF OpToRel
<1> HIDE DEF Less
<1>4. PICK n \in Above : \A m \in Above : ~ (<<m, n>> \in Less)
  <2> HIDE DEF Above
  <2>1. QED
    BY <1>1, <1>2, WFMin
<1>5. \A m \in Above : n <= m
  <2>1. SUFFICES ASSUME NEW m \in Above, m < n PROVE FALSE
    OBVIOUS
  <2>2. m \in Nat /\ n \in Nat
    OBVIOUS
  <2> HIDE DEF Above
  <2>3. <<m, n>> \in Less
    BY <1>3, <2>1, <2>2
  <2>4. QED
    BY <1>4, <2>3
<1>6. n \in S
  <2>1. SUFFICES ASSUME n \notin S PROVE FALSE
    OBVIOUS
  <2>2. \A d \in S : d <= n - 1 /\ n >= 1
    BY <2>1, BoundsAssumption DEF Dates
  <2>3. n - 1 \in Above
    BY <2>2
  <2>4. QED
    BY <1>5, <2>3
<1>7. QED
  BY <1>6 DEF Greatest

-----------------------------------------------------------------------------
(* Types.                                                                  *)

LEMMA IdleIsCall == /\ Idle \in Calls /\ NoBars \in Feeds /\ DatesOf(NoBars) = {}
                    /\ Idle.pc = "idle" /\ Idle.kept = NoBars
BY DEF Idle, Calls, NoMark, NoBars, Feeds, Bars, DatesOf

LEMMA KeptAreDates == \A c \in Callers : Kept(c) \subseteq Dates
BY DEF Kept, DatesOf

(* The date a call advances to is one of its own. *)
LEMMA LatestIsKept ==
  ASSUME NEW c \in Callers, Kept(c) # {}
  PROVE  Latest(c) \in Kept(c) /\ \A d \in Kept(c) : d <= Latest(c)
BY KeptAreDates, GreatestIsLatest DEF Latest

(* What each step makes of the calls: one call moves, or those of a store. *)
LEMMA TypeInit == Init => TypeOK
<1> SUFFICES ASSUME Init PROVE TypeOK
  OBVIOUS
<1>1. table \in Feeds /\ call \in [Callers -> Calls]
  BY IdleIsCall DEF Init
<1>2. \A c \in Callers : At(c, "advance") => Kept(c) # {}
  BY IdleIsCall DEF Init, At
<1>3. QED
  BY <1>1, <1>2, BoundsAssumption DEF Init, TypeOK, NoMark

LEMMA TypeStart ==
  ASSUME TypeOK, NEW c \in Callers, NEW w \in Windows, NEW b \in BOOLEAN, Start(c, w, b)
  PROVE  TypeOK'
<1>1. mark[storeOf[c]] \in Dates \cup {NoMark} /\ w \subseteq Dates
  <2>1. mark[storeOf[c]] \in Dates \cup {NoMark}
    BY DEF TypeOK
  <2>2. PICK from \in Dates, to \in Dates : w = from..to
    BY DEF Windows
  <2>3. w \subseteq Dates
    BY <2>2, BoundsAssumption DEF Dates
  <2>4. QED
    BY <2>1, <2>3
<1>2. call'[c] \in Calls /\ call'[c].pc = "fetch"
  BY <1>1, IdleIsCall DEF Start, TypeOK, Calls, Idle
<1>3. call' \in [Callers -> Calls]
  BY <1>2 DEF Start, TypeOK
<1>4. \A o \in Callers : (At(o, "advance") => Kept(o) # {})'
  BY <1>2 DEF Start, TypeOK, At, Kept
<1>5. starts' \in 0..MaxStarts
  BY BoundsAssumption DEF Start, TypeOK
<1>6. QED
  BY <1>3, <1>4, <1>5 DEF Start, TypeOK, wiring, history

(* A call that ends leaves the others as they are. *)
LEMMA TypeEnd ==
  ASSUME TypeOK, NEW c \in Callers, End(c)
  PROVE  /\ call' \in [Callers -> Calls]
         /\ \A o \in Callers : (At(o, "advance") => Kept(o) # {})'
         /\ \A o \in Callers \ {c} : call'[o] = call[o]
         /\ call'[c] = Idle
<1>1. call' \in [Callers -> Calls] /\ call'[c] = Idle
         /\ \A o \in Callers \ {c} : call'[o] = call[o]
  BY IdleIsCall DEF End, TypeOK
<1>2. \A o \in Callers : (At(o, "advance") => Kept(o) # {})'
  BY <1>1, IdleIsCall DEF TypeOK, At, Kept
<1>3. QED
  BY <1>1, <1>2

LEMMA TypeFetch ==
  ASSUME TypeOK, NEW c \in Callers, NEW f \in Feeds, NEW b \in BOOLEAN, Fetch(c, f, b)
  PROVE  TypeOK'
<1>1. CASE End(c)
  BY <1>1, TypeEnd DEF Fetch, TypeOK, wiring, history
<1>2. CASE ~End(c)
  <2> DEFINE kept == [d \in Dates |-> IF d \in Fresh(c, f) THEN f[d] ELSE "missing"]
  <2>1. kept \in Feeds
    BY DEF Feeds, Bars
  <2> HIDE DEF kept
  <2>2. call' = [call EXCEPT ![c].pc = "write", ![c].window = {},
                             ![c].kept = kept, ![c].unsorted = b]
    BY <1>2 DEF Fetch, kept
  <2>3. call'[c] \in Calls /\ call'[c].pc = "write"
    <3>1. call[c] \in Calls
      BY DEF TypeOK
    <3>2. call'[c] = [call[c] EXCEPT !.pc = "write", !.window = {}, !.kept = kept, !.unsorted = b]
      BY <2>2 DEF TypeOK
    <3>3. QED
      BY <2>1, <3>1, <3>2 DEF Calls
  <2>4. call' \in [Callers -> Calls]
    BY <2>2, <2>3 DEF TypeOK
  <2>5. \A o \in Callers : (At(o, "advance") => Kept(o) # {})'
    BY <2>2, <2>3 DEF TypeOK, At, Kept
  <2>6. QED
    BY <2>4, <2>5 DEF Fetch, TypeOK, wiring, history
<1>3. QED
  BY <1>1, <1>2

(* After its write a call has ended or keeps what it had, to advance.      *)
LEMMA CallWrites ==
  ASSUME TypeOK, NEW c \in Callers, Write(c)
  PROVE  /\ call' \in [Callers -> Calls]
         /\ \A o \in Callers \ {c} : call'[o] = call[o]
         /\ \/ call'[c] = Idle
            \/ /\ call'[c] = [call[c] EXCEPT !.pc = "advance"] /\ Kept(c) # {}
               /\ ~(hasSink[c] /\ \E d \in Dates : call[c].kept[d] = "broken")
<1>1. CASE End(c)
  BY <1>1, TypeEnd
<1>2. CASE ~End(c)
  <2>1. /\ call' = [call EXCEPT ![c].pc = "advance"] /\ Kept(c) # {}
        /\ ~(hasSink[c] /\ \E d \in Dates : call[c].kept[d] = "broken")
    BY <1>2 DEF Write, HasBars
  <2>2. QED
    BY <2>1 DEF TypeOK, Calls
<1>3. QED
  BY <1>1, <1>2

LEMMA TypeWrite ==
  ASSUME TypeOK, NEW c \in Callers, Write(c)
  PROVE  TypeOK'
<1>1. call' \in [Callers -> Calls]
  BY CallWrites
<1>2. \A o \in Callers : (At(o, "advance") => Kept(o) # {})'
  <2>1. SUFFICES ASSUME NEW o \in Callers, At(o, "advance")' PROVE Kept(o)' # {}
    OBVIOUS
  <2>2. CASE o = c
    <3>1. Kept(c) # {} /\ call'[c] = [call[c] EXCEPT !.pc = "advance"]
      BY <2>1, <2>2, CallWrites, IdleIsCall DEF At
    <3>2. call'[c].kept = call[c].kept
      BY <3>1 DEF TypeOK, Calls
    <3>3. QED
      BY <2>2, <3>1, <3>2 DEF Kept
  <2>3. CASE o # c
    BY <2>1, <2>3, CallWrites DEF TypeOK, At, Kept
  <2>4. QED
    BY <2>2, <2>3
<1>3. table' \in Feeds
  <2>1. Upsert(call[c].kept) \in Feeds
    BY DEF Upsert, TypeOK, Calls, Feeds
  <2>2. QED
    BY <2>1 DEF Write, TypeOK
<1>4. emitted' \in [Stores -> SUBSET Dates]
  BY KeptAreDates DEF Write, TypeOK
<1>5. dropped' \subseteq Dates /\ asked' \subseteq Dates
  BY KeptAreDates DEF Write, TypeOK
<1>6. QED
  BY <1>1, <1>2, <1>3, <1>4, <1>5 DEF Write, TypeOK, wiring

(* An advance ends the call and marks the others of its store overtaken.   *)
LEMMA CallAdvances ==
  ASSUME TypeOK, NEW c \in Callers, Advance(c), ~Regresses(c)
  PROVE  /\ mark' = [mark EXCEPT ![storeOf[c]] = Latest(c)] /\ call'[c] = Idle
         /\ \A o \in Callers \ {c} :
              IF storeOf[o] = storeOf[c] /\ ~At(o, "idle")
              THEN call'[o] = [call[o] EXCEPT !.overtaken = TRUE]
              ELSE call'[o] = call[o]
         /\ call' \in [Callers -> Calls]
<1>1. /\ mark' = [mark EXCEPT ![storeOf[c]] = Latest(c)]
      /\ call' = [o \in Callers |->
               CASE o = c -> Idle
                 [] o # c /\ storeOf[o] = storeOf[c] /\ ~At(o, "idle") ->
                      [call[o] EXCEPT !.overtaken = TRUE]
                 [] OTHER -> call[o]]
  BY DEF Advance
<1>2. call'[c] = Idle
  BY <1>1
<1>3. ASSUME NEW o \in Callers \ {c}
      PROVE  /\ IF storeOf[o] = storeOf[c] /\ ~At(o, "idle")
                THEN call'[o] = [call[o] EXCEPT !.overtaken = TRUE]
                ELSE call'[o] = call[o]
             /\ call'[o] \in Calls
  <2>1. IF storeOf[o] = storeOf[c] /\ ~At(o, "idle")
        THEN call'[o] = [call[o] EXCEPT !.overtaken = TRUE]
        ELSE call'[o] = call[o]
    BY <1>1
  <2>2. call[o] \in Calls /\ [call[o] EXCEPT !.overtaken = TRUE] \in Calls
    BY DEF TypeOK, Calls
  <2>3. QED
    BY <2>1, <2>2
<1>4. call' \in [Callers -> Calls]
  BY <1>1, <1>2, <1>3, IdleIsCall
<1>5. QED
  BY <1>1, <1>2, <1>3, <1>4

LEMMA TypeAdvance ==
  ASSUME TypeOK, NEW c \in Callers, Advance(c)
  PROVE  TypeOK'
<1>1. CASE Regresses(c)
  BY <1>1, TypeEnd DEF Advance, TypeOK, wiring, history
<1>2. CASE ~Regresses(c)
  <2>1. \A o \in Callers : (At(o, "advance") => Kept(o) # {})'
    <3>1. SUFFICES ASSUME NEW o \in Callers, At(o, "advance")' PROVE Kept(o)' # {}
      OBVIOUS
    <3>2. o # c
      BY <1>2, <3>1, CallAdvances, IdleIsCall DEF At
    <3>3. call[o] \in Calls
      BY DEF TypeOK
    <3>4. call'[o].pc = call[o].pc /\ call'[o].kept = call[o].kept
      BY <1>2, <3>2, <3>3, CallAdvances, ZenonT(60) DEF Calls
    <3>5. QED
      BY <3>1, <3>4 DEF TypeOK, At, Kept
  <2>2. mark' \in [Stores -> Dates \cup {NoMark}]
    BY <1>2, CallAdvances, LatestIsKept, KeptAreDates DEF Advance, TypeOK
  <2>3. QED
    BY <1>2, <2>1, <2>2, CallAdvances DEF Advance, TypeOK, wiring, history
<1>3. QED
  BY <1>1, <1>2

LEMMA TypeAbort ==
  ASSUME TypeOK, NEW c \in Callers, Abort(c)
  PROVE  TypeOK'
<1>1. lost' \subseteq Stores /\ aborts' \in 0..MaxAborts
  BY BoundsAssumption DEF Abort, TypeOK
<1>2. QED
  BY <1>1, TypeEnd DEF Abort, TypeOK, wiring

(* A restart ends the calls of its store and leaves the others alone.      *)
LEMMA CallsRestart ==
  ASSUME TypeOK, NEW s \in Stores, Restart(s)
  PROVE  /\ call' \in [Callers -> Calls]
         /\ \A o \in Callers : call'[o] = IF storeOf[o] = s THEN Idle ELSE call[o]
         /\ mark' = [mark EXCEPT ![s] = NoMark]
BY IdleIsCall DEF Restart, TypeOK

LEMMA TypeRestart ==
  ASSUME TypeOK, NEW s \in Stores, Restart(s)
  PROVE  TypeOK'
<1>1. \A o \in Callers : (At(o, "advance") => Kept(o) # {})'
  BY CallsRestart, IdleIsCall DEF TypeOK, At, Kept
<1>2. aborts' \in 0..MaxAborts
  BY BoundsAssumption DEF Restart, TypeOK
<1>3. QED
  BY <1>1, <1>2, CallsRestart DEF Restart, TypeOK, wiring

LEMMA TypeNext == TypeOK /\ [Next]_vars => TypeOK'
<1>1. ASSUME TypeOK, Next PROVE TypeOK'
  <2>1. ASSUME NEW c \in Callers, NEW f \in Feeds, FetchConflict(c, f) PROVE TypeOK'
    BY <1>1, <2>1, TypeEnd DEF FetchConflict, TypeOK, wiring, history
  <2>2. QED
    BY <1>1, <2>1, TypeStart, TypeFetch, TypeWrite, TypeAdvance, TypeAbort, TypeRestart DEF Next
<1>2. ASSUME TypeOK, UNCHANGED vars PROVE TypeOK'
  BY <1>2 DEF vars, wiring, history, TypeOK, At, Kept
<1>3. QED
  BY <1>1, <1>2

(* Rows, watermarks and the calls' locals keep their shape. *)
THEOREM TypeCorrect == Spec => []TypeOK
BY TypeInit, TypeNext, PTL DEF Spec

-----------------------------------------------------------------------------
(* The inductive invariant.                                                *)

(* What a call may rely on in its next step: its watermark stands unless   *)
(* it was overtaken, what it keeps is above the watermark it read, clean   *)
(* if it is strict, and stored or dropped once it is about to advance.     *)
MarkStands(c) == ~At(c, "idle") /\ ~call[c].overtaken => call[c].prev = mark[storeOf[c]]
KeptAbove(c)  == \A d \in Kept(c) : d > call[c].prev
KeptClean(c)  == call[c].strict => \A d \in Dates : call[c].kept[d] \notin {"bad", "broken"}
KeptStored(c) == At(c, "advance") => Kept(c) \subseteq dropped \cup DatesOf(table)

CallInv(c) == MarkStands(c) /\ KeptAbove(c) /\ KeptClean(c) /\ KeptStored(c)

(* A date reported as written is below its watermark, or in the hands of a *)
(* call about to advance.                                                  *)
Covered ==
  \A s \in Stores \ lost : \A d \in emitted[s] :
    d <= mark[s] \/ \E c \in Callers : storeOf[c] = s /\ At(c, "advance") /\ d \in Kept(c)

IInv ==
  /\ TypeOK
  /\ \A c \in Callers : CallInv(c)
  /\ MarkIsStored /\ BadRowsAreAsked /\ Covered

USE DEF MarkStands, KeptAbove, KeptClean, KeptStored

LEMMA InitInv == Init => IInv
<1> SUFFICES ASSUME Init PROVE IInv
  OBVIOUS
<1>1. TypeOK
  BY TypeInit
<1>2. \A c \in Callers : CallInv(c)
  BY IdleIsCall DEF Init, CallInv, At, Kept, NoBars
<1>3. MarkIsStored /\ BadRowsAreAsked /\ Covered
  BY DEF Init, MarkIsStored, BadRowsAreAsked, Covered, NoBars
<1>4. QED
  BY <1>1, <1>2, <1>3 DEF IInv

(* Rows, and what is said of them, only grow.                              *)
RowsStay ==
  /\ storeOf' = storeOf
  /\ DatesOf(table) \subseteq DatesOf(table') /\ dropped \subseteq dropped'

LEMMA CallInvIdle ==
  ASSUME NEW c \in Callers, call'[c] = Idle
  PROVE  CallInv(c)'
BY IdleIsCall DEF CallInv, At, Kept, NoBars

LEMMA CallInvStays ==
  ASSUME NEW c \in Callers, CallInv(c), RowsStay, call'[c] = call[c],
         mark'[storeOf[c]] = mark[storeOf[c]]
  PROVE  CallInv(c)'
BY DEF CallInv, RowsStay, At, Kept

LEMMA CallInvOvertaken ==
  ASSUME TypeOK, NEW c \in Callers, CallInv(c), RowsStay,
         call'[c] = [call[c] EXCEPT !.overtaken = TRUE]
  PROVE  CallInv(c)'
<1>1. /\ call'[c].pc = call[c].pc /\ call'[c].prev = call[c].prev
      /\ call'[c].kept = call[c].kept /\ call'[c].strict = call[c].strict
      /\ call'[c].overtaken
  BY DEF TypeOK, Calls
<1>2. QED
  BY <1>1 DEF CallInv, RowsStay, At, Kept

(* A step that only ends calls without touching rows or watermarks.        *)
LEMMA EndKeeps ==
  ASSUME IInv, NEW c \in Callers, End(c), ~At(c, "advance"),
         UNCHANGED <<table, mark, storeOf, emitted, dropped, asked, lost>>
  PROVE  (\A o \in Callers : CallInv(o))' /\ MarkIsStored' /\ BadRowsAreAsked' /\ Covered'
<1>1. (\A o \in Callers : CallInv(o))'
  BY TypeEnd, CallInvIdle, CallInvStays DEF IInv, RowsStay
<1>2. MarkIsStored' /\ BadRowsAreAsked'
  BY DEF IInv, MarkIsStored, BadRowsAreAsked
<1>3. Covered'
  <2>1. \A o \in Callers : At(o, "advance") => call'[o] = call[o]
    BY TypeEnd DEF IInv
  <2>2. QED
    BY <2>1 DEF IInv, Covered, At, Kept
<1>4. QED
  BY <1>1, <1>2, <1>3

LEMMA InvStart ==
  ASSUME IInv, NEW c \in Callers, NEW w \in Windows, NEW b \in BOOLEAN, Start(c, w, b)
  PROVE  IInv'
<1>1. UNCHANGED <<table, mark, storeOf, emitted, dropped, asked, lost>>
  BY DEF Start, wiring, history
<1>2. \A o \in Callers \ {c} : call'[o] = call[o]
  BY DEF Start, IInv, TypeOK
<1>3. CallInv(c)'
  <2>1. /\ call'[c].pc = "fetch" /\ call'[c].prev = mark[storeOf[c]]
        /\ call'[c].kept = NoBars
    BY DEF Start, IInv, TypeOK, Idle
  <2>2. QED
    BY <1>1, <2>1 DEF CallInv, At, Kept, DatesOf, NoBars
<1>4. (\A o \in Callers : CallInv(o))'
  BY <1>1, <1>2, <1>3, CallInvStays DEF IInv, RowsStay
<1>5. MarkIsStored' /\ BadRowsAreAsked'
  BY <1>1 DEF IInv, MarkIsStored, BadRowsAreAsked
<1>6. Covered'
  <2>1. \A o \in Callers : At(o, "advance") => call'[o] = call[o]
    BY <1>2 DEF Start, At
  <2>2. QED
    BY <1>1, <2>1 DEF IInv, Covered, At, Kept
<1>7. QED
  BY <1>4, <1>5, <1>6, TypeStart DEF IInv

LEMMA InvFetch ==
  ASSUME IInv, NEW c \in Callers, NEW f \in Feeds, NEW b \in BOOLEAN, Fetch(c, f, b)
  PROVE  IInv'
<1>1. UNCHANGED <<table, mark, storeOf, emitted, dropped, asked, lost>> /\ At(c, "fetch")
  BY DEF Fetch, wiring, history
<1>2. CASE End(c)
  BY <1>1, <1>2, EndKeeps, TypeFetch DEF IInv, At
<1>3. CASE ~End(c)
  <2> DEFINE kept == [d \in Dates |-> IF d \in Fresh(c, f) THEN f[d] ELSE "missing"]
  <2>1. /\ call' = [call EXCEPT ![c].pc = "write", ![c].window = {},
                                ![c].kept = kept, ![c].unsorted = b]
        /\ ~(call[c].strict /\ HasErrors(kept, b))
    BY <1>3 DEF Fetch
  <2>2. DatesOf(kept) \subseteq Fresh(c, f)
    BY DEF DatesOf
  <2> HIDE DEF kept
  <2>3. /\ call'[c].pc = "write" /\ call'[c].kept = kept /\ call'[c].prev = call[c].prev
        /\ call'[c].strict = call[c].strict /\ call'[c].overtaken = call[c].overtaken
    <3>1. call[c] \in Calls
      BY DEF IInv, TypeOK
    <3>2. call'[c] = [call[c] EXCEPT !.pc = "write", !.window = {}, !.kept = kept, !.unsorted = b]
      BY <2>1 DEF IInv, TypeOK
    <3>3. QED
      BY <3>1, <3>2 DEF Calls
  <2>4. CallInv(c)'
    <3>1. MarkStands(c)' /\ KeptStored(c)'
      BY <1>1, <2>3 DEF IInv, CallInv, At
    <3>2. KeptAbove(c)'
      BY <2>2, <2>3 DEF Kept, Fresh
    <3>3. KeptClean(c)'
      BY <2>1, <2>3 DEF HasErrors
    <3>4. QED
      BY <3>1, <3>2, <3>3 DEF CallInv
  <2>5. \A o \in Callers \ {c} : call'[o] = call[o]
    BY <2>1 DEF IInv, TypeOK
  <2>6. (\A o \in Callers : CallInv(o))'
    BY <1>1, <2>4, <2>5, CallInvStays DEF IInv, RowsStay
  <2>7. MarkIsStored' /\ BadRowsAreAsked'
    BY <1>1 DEF IInv, MarkIsStored, BadRowsAreAsked
  <2>8. Covered'
    <3>1. \A o \in Callers : At(o, "advance") => call'[o] = call[o]
      BY <1>1, <2>5 DEF At
    <3>2. QED
      BY <1>1, <3>1 DEF IInv, Covered, At, Kept
  <2>9. QED
    BY <2>6, <2>7, <2>8, TypeFetch DEF IInv
<1>4. QED
  BY <1>2, <1>3

LEMMA UpsertStores ==
  ASSUME TypeOK, NEW c \in Callers, table' = Upsert(call[c].kept)
  PROVE  /\ DatesOf(table') = DatesOf(table) \cup Kept(c)
         /\ \A d \in Dates : table'[d] = table[d]
                              \/ (table'[d] = call[c].kept[d] /\ d \in Kept(c))
BY DEF Upsert, DatesOf, Kept, TypeOK, Feeds

LEMMA InvWrite ==
  ASSUME IInv, NEW c \in Callers, Write(c)
  PROVE  IInv'
<1>1. TypeOK' /\ TypeOK
  BY TypeWrite DEF IInv
<1>2. At(c, "write") /\ UNCHANGED <<mark, storeOf, lost>>
  BY DEF Write, wiring
<1>3. CASE UNCHANGED <<table, emitted, dropped, asked>> /\ call'[c] = Idle
  <2>1. End(c)
    BY <1>1, <1>3, CallWrites DEF End, TypeOK
  <2>2. QED
    BY <1>1, <1>2, <1>3, <2>1, EndKeeps DEF IInv, At
<1>4. CASE ~(UNCHANGED <<table, emitted, dropped, asked>> /\ call'[c] = Idle)
  <2>1. /\ table' = IF hasSink[c] THEN Upsert(call[c].kept) ELSE table
        /\ emitted' = [emitted EXCEPT ![storeOf[c]] = @ \cup Kept(c)]
        /\ dropped' = IF hasSink[c] THEN dropped ELSE dropped \cup Kept(c)
        /\ asked' = IF call[c].strict THEN asked ELSE asked \cup Kept(c)
    BY <1>1, <1>4, TypeEnd DEF Write
  <2>2. /\ DatesOf(table) \subseteq DatesOf(table')
        /\ Kept(c) \subseteq dropped' \cup DatesOf(table')
        /\ RowsStay
    BY <1>1, <1>2, <2>1, UpsertStores DEF RowsStay
  <2>3. /\ \A o \in Callers \ {c} : call'[o] = call[o]
        /\ \/ call'[c] = Idle
           \/ call'[c] = [call[c] EXCEPT !.pc = "advance"]
    BY <1>1, CallWrites
  <2>4. CASE call'[c] = Idle
    <3>1. Kept(c) = {}
      <4>1. SUFFICES ASSUME Kept(c) # {} PROVE FALSE
        OBVIOUS
      <4>2. call' = [call EXCEPT ![c].pc = "advance"]
        BY <1>4, <2>4, <4>1 DEF Write, HasBars
      <4>3. call'[c].pc = "advance"
        BY <1>1, <4>2 DEF TypeOK, Calls
      <4>4. QED
        BY <2>4, <4>3, IdleIsCall
    <3>2. UNCHANGED <<table, emitted, dropped, asked>>
      BY <1>1, <2>1, <3>1 DEF Upsert, TypeOK, Kept, DatesOf, Feeds
    <3>3. QED
      BY <1>4, <2>4, <3>2
  <2>5. CASE call'[c] = [call[c] EXCEPT !.pc = "advance"]
    <3>1. /\ call'[c].pc = "advance" /\ call'[c].kept = call[c].kept
          /\ call'[c].prev = call[c].prev /\ call'[c].strict = call[c].strict
          /\ call'[c].overtaken = call[c].overtaken
      BY <1>1, <2>5 DEF TypeOK, Calls
    <3>2. CallInv(c)'
      BY <1>2, <2>2, <3>1 DEF IInv, CallInv, At, Kept
    <3>3. (\A o \in Callers : CallInv(o))'
      BY <1>2, <2>2, <2>3, <3>2, CallInvStays DEF IInv
    <3>4. MarkIsStored'
      BY <1>2, <2>2 DEF IInv, MarkIsStored, RowsStay
    <3>5. BadRowsAreAsked'
      <4>1. SUFFICES ASSUME NEW d \in Dates, table'[d] \in {"bad", "broken"} PROVE d \in asked'
        BY DEF BadRowsAreAsked
      <4>2. CASE table'[d] = table[d]
        BY <2>1, <4>1, <4>2 DEF IInv, BadRowsAreAsked
      <4>3. CASE table'[d] = call[c].kept[d] /\ d \in Kept(c)
        BY <2>1, <4>1, <4>3 DEF IInv, CallInv
      <4>4. QED
        BY <1>1, <2>1, <4>2, <4>3, UpsertStores
    <3>6. Covered'
      <4>1. SUFFICES ASSUME NEW s \in Stores \ lost, NEW d \in emitted'[s]
                     PROVE  \/ d <= mark[s]
                            \/ \E o \in Callers : /\ storeOf[o] = s /\ At(o, "advance")'
                                                 /\ d \in Kept(o)'
        BY <1>2 DEF Covered
      <4>2. CASE d \in emitted[s]
        <5>1. \A o \in Callers : At(o, "advance") =>
                 At(o, "advance")' /\ Kept(o)' = Kept(o)
          BY <1>2, <2>3 DEF At, Kept
        <5>2. QED
          BY <4>2, <5>1 DEF IInv, Covered
      <4>3. CASE d \notin emitted[s]
        <5>1. s = storeOf[c] /\ d \in Kept(c)
          BY <1>1, <2>1, <4>1, <4>3 DEF TypeOK
        <5>2. QED
          BY <3>1, <5>1 DEF At, Kept
      <4>4. QED
        BY <4>2, <4>3
    <3>7. QED
      BY <1>1, <3>3, <3>4, <3>5, <3>6 DEF IInv
  <2>6. QED
    BY <2>3, <2>4, <2>5
<1>5. QED
  BY <1>3, <1>4

(* What an advance does: its own dates are covered by the new watermark.   *)
LEMMA InvAdvance ==
  ASSUME IInv, NEW c \in Callers, Advance(c)
  PROVE  IInv'
<1>1. TypeOK /\ TypeOK' /\ At(c, "advance") /\ Kept(c) # {}
  BY TypeAdvance DEF IInv, Advance, TypeOK
<1>2. UNCHANGED <<table, storeOf, emitted, dropped, asked, lost>>
  BY DEF Advance, wiring, history
<1>3. Latest(c) \in Kept(c) /\ \A d \in Kept(c) : d <= Latest(c)
  BY <1>1, LatestIsKept
<1>4. Latest(c) \in Nat /\ \A s \in Stores : mark[s] \in Nat
  BY <1>1, <1>3, KeptAreDates, BoundsAssumption DEF TypeOK, Dates, NoMark
<1>5. BadRowsAreAsked'
  BY <1>2 DEF IInv, BadRowsAreAsked
<1>6. CASE Regresses(c)
  <2>1. /\ mark' = mark /\ call'[c] = Idle /\ \A o \in Callers \ {c} : call'[o] = call[o]
    BY <1>1, <1>6, TypeEnd DEF Advance
  <2>2. (\A o \in Callers : CallInv(o))'
    BY <1>2, <2>1, CallInvIdle, CallInvStays DEF IInv, RowsStay
  <2>3. MarkIsStored'
    BY <1>2, <2>1 DEF IInv, MarkIsStored
  <2>4. Covered'
    <3>1. SUFFICES ASSUME NEW s \in Stores \ lost, NEW d \in emitted[s], ~(d <= mark[s])
                   PROVE  \E o \in Callers : storeOf[o] = s /\ At(o, "advance")' /\ d \in Kept(o)'
      BY <1>2, <2>1 DEF Covered
    <3>2. PICK o \in Callers : storeOf[o] = s /\ At(o, "advance") /\ d \in Kept(o)
      BY <3>1 DEF IInv, Covered
    <3>3. o # c
      <4>1. SUFFICES ASSUME o = c PROVE FALSE
        OBVIOUS
      <4>2. d \in Nat /\ d <= Latest(c) /\ Latest(c) < mark[s]
        BY <1>3, <1>6, <3>2, <4>1, KeptAreDates, BoundsAssumption DEF Regresses, Dates
      <4>3. QED
        BY <1>4, <3>1, <4>2
    <3>4. QED
      BY <2>1, <3>2, <3>3 DEF At, Kept
  <2>5. QED
    BY <1>1, <1>5, <2>2, <2>3, <2>4 DEF IInv
<1>7. CASE ~Regresses(c)
  <2>1. /\ mark' = [mark EXCEPT ![storeOf[c]] = Latest(c)] /\ call'[c] = Idle
        /\ \A o \in Callers \ {c} :
             IF storeOf[o] = storeOf[c] /\ ~At(o, "idle")
             THEN call'[o] = [call[o] EXCEPT !.overtaken = TRUE]
             ELSE call'[o] = call[o]
    BY <1>1, <1>7, CallAdvances
  <2>2. storeOf \in [Callers -> Stores] /\ mark[storeOf[c]] <= Latest(c)
    BY <1>1, <1>4, <1>7 DEF Regresses, TypeOK
  <2>3. (\A o \in Callers : CallInv(o))'
    <3>1. RowsStay
      BY <1>2 DEF RowsStay
    <3>2. SUFFICES ASSUME NEW o \in Callers PROVE CallInv(o)'
      OBVIOUS
    <3>3. CASE o = c
      BY <2>1, <3>3, CallInvIdle
    <3>4. CASE o # c /\ storeOf[o] = storeOf[c] /\ ~At(o, "idle")
      BY <1>1, <2>1, <3>1, <3>4, CallInvOvertaken DEF IInv
    <3>5. CASE o # c /\ storeOf[o] # storeOf[c]
      BY <1>1, <2>1, <2>2, <3>1, <3>5, CallInvStays DEF IInv, TypeOK
    <3>6. CASE o # c /\ At(o, "idle")
      BY <2>1, <3>1, <3>6 DEF IInv, CallInv, RowsStay, At, Kept
    <3>7. QED
      BY <3>3, <3>4, <3>5, <3>6
  <2>4. MarkIsStored'
    <3>1. Latest(c) \in dropped \cup DatesOf(table)
      BY <1>1, <1>3 DEF IInv, CallInv
    <3>2. QED
      BY <1>1, <1>2, <2>1, <2>2, <3>1 DEF IInv, MarkIsStored, TypeOK
  <2>5. Covered'
    <3>1. SUFFICES ASSUME NEW s \in Stores \ lost, NEW d \in emitted[s], ~(d <= mark'[s])
                   PROVE  \E o \in Callers : storeOf[o] = s /\ At(o, "advance")' /\ d \in Kept(o)'
      BY <1>2 DEF Covered
    <3>2. d \in Nat
      BY <1>1, BoundsAssumption DEF TypeOK, Dates
    <3>3. ~(d <= mark[s])
      BY <1>1, <1>4, <2>1, <2>2, <3>1, <3>2 DEF TypeOK
    <3>4. PICK o \in Callers : storeOf[o] = s /\ At(o, "advance") /\ d \in Kept(o)
      BY <3>3 DEF IInv, Covered
    <3>5. o # c
      BY <1>1, <1>3, <2>1, <2>2, <3>1, <3>4 DEF TypeOK
    <3>6. call'[o].pc = call[o].pc /\ call'[o].kept = call[o].kept
      BY <1>1, <2>1, <3>5 DEF TypeOK, Calls
    <3>7. QED
      BY <3>4, <3>6 DEF At, Kept
  <2>6. QED
    BY <1>1, <1>5, <2>3, <2>4, <2>5 DEF IInv
<1>8. QED
  BY <1>6, <1>7

LEMMA InvAbort ==
  ASSUME IInv, NEW c \in Callers, Abort(c)
  PROVE  IInv'
<1>1. TypeOK /\ TypeOK' /\ End(c)
  BY TypeAbort DEF IInv, Abort
<1>2. UNCHANGED <<table, mark, storeOf, emitted, dropped, asked>>
  BY DEF Abort, wiring
<1>3. CASE ~At(c, "advance")
  BY <1>1, <1>2, <1>3, EndKeeps DEF IInv, Abort
<1>4. CASE At(c, "advance")
  <2>1. call'[c] = Idle /\ \A o \in Callers \ {c} : call'[o] = call[o]
    BY <1>1, TypeEnd
  <2>2. (\A o \in Callers : CallInv(o))'
    BY <1>2, <2>1, CallInvIdle, CallInvStays DEF IInv, RowsStay
  <2>3. MarkIsStored' /\ BadRowsAreAsked'
    BY <1>2 DEF IInv, MarkIsStored, BadRowsAreAsked
  <2>4. Covered'
    <3>1. lost' = lost \cup {storeOf[c]}
      BY <1>4 DEF Abort
    <3>2. \A o \in Callers : storeOf[o] # storeOf[c] => call'[o] = call[o]
      BY <2>1
    <3>3. QED
      BY <1>2, <3>1, <3>2 DEF IInv, Covered, At, Kept
  <2>5. QED
    BY <1>1, <2>2, <2>3, <2>4 DEF IInv
<1>5. QED
  BY <1>3, <1>4

LEMMA InvRestart ==
  ASSUME IInv, NEW s \in Stores, Restart(s)
  PROVE  IInv'
<1>1. TypeOK /\ TypeOK'
  BY TypeRestart DEF IInv
<1>2. UNCHANGED <<table, storeOf, dropped, asked>>
  BY DEF Restart, wiring
<1>3. /\ \A o \in Callers : call'[o] = IF storeOf[o] = s THEN Idle ELSE call[o]
      /\ mark' = [mark EXCEPT ![s] = NoMark]
  BY <1>1, CallsRestart
<1>4. (\A o \in Callers : CallInv(o))'
  <2>1. SUFFICES ASSUME NEW o \in Callers PROVE CallInv(o)'
    OBVIOUS
  <2>2. CASE storeOf[o] = s
    BY <1>3, <2>2, CallInvIdle
  <2>3. CASE storeOf[o] # s
    BY <1>1, <1>2, <1>3, <2>3, CallInvStays DEF IInv, RowsStay, TypeOK
  <2>4. QED
    BY <2>2, <2>3
<1>5. MarkIsStored' /\ BadRowsAreAsked'
  BY <1>1, <1>2, <1>3 DEF IInv, MarkIsStored, BadRowsAreAsked, TypeOK
<1>6. Covered'
  <2>1. SUFFICES ASSUME NEW t \in Stores \ lost', NEW d \in emitted'[t]
                 PROVE  \/ d <= mark'[t]
                        \/ \E o \in Callers : storeOf[o] = t /\ At(o, "advance")' /\ d \in Kept(o)'
    BY <1>2 DEF Covered
  <2>2. /\ emitted' = [emitted EXCEPT ![s] = {}] /\ lost' = lost \ {s}
    BY DEF Restart
  <2>3. t # s /\ t \notin lost /\ d \in emitted[t] /\ mark'[t] = mark[t]
    BY <1>1, <1>3, <2>1, <2>2 DEF TypeOK
  <2>4. \A o \in Callers : storeOf[o] = t => call'[o] = call[o]
    BY <1>3, <2>3
  <2>5. QED
    BY <2>3, <2>4 DEF IInv, Covered, At, Kept
<1>7. QED
  BY <1>1, <1>4, <1>5, <1>6 DEF IInv

LEMMA NextInv == IInv /\ [Next]_vars => IInv'
<1>1. ASSUME IInv, Next PROVE IInv'
  <2>1. ASSUME NEW c \in Callers, NEW f \in Feeds, FetchConflict(c, f) PROVE IInv'
    <3>1. TypeOK'
      BY <1>1, TypeNext DEF IInv
    <3>2. QED
      BY <1>1, <2>1, <3>1, EndKeeps DEF FetchConflict, IInv, At, wiring, history
  <2>2. QED
    BY <1>1, <2>1, InvStart, InvFetch, InvWrite, InvAdvance, InvAbort, InvRestart DEF Next
<1>2. ASSUME IInv, UNCHANGED vars PROVE IInv'
  <2>1. TypeOK'
    BY <1>2, TypeNext DEF IInv
  <2>2. UNCHANGED <<table, mark, storeOf, call, emitted, dropped, asked, lost>>
    BY <1>2 DEF vars, wiring, history
  <2>3. (\A o \in Callers : CallInv(o))'
    BY <1>2, <2>2, CallInvStays DEF IInv, RowsStay
  <2>4. MarkIsStored' /\ BadRowsAreAsked' /\ Covered'
    BY <1>2, <2>2 DEF IInv, MarkIsStored, BadRowsAreAsked, Covered, At, Kept
  <2>5. QED
    BY <2>1, <2>3, <2>4 DEF IInv
<1>3. QED
  BY <1>1, <1>2

LEMMA InvHolds == Spec => []IInv
BY InitInv, NextInv, PTL DEF Spec

-----------------------------------------------------------------------------
(* The theorems.                                                           *)

(* The date a watermark stands at has its row, whatever is lost. *)
THEOREM MarkStored == Spec => []MarkIsStored
<1>1. IInv => MarkIsStored
  BY DEF IInv
<1>2. QED
  BY <1>1, InvHolds, PTL

(* Strict calls never store a row with an ERROR finding. *)
THEOREM BadRowsAsked == Spec => []BadRowsAreAsked
<1>1. IInv => BadRowsAreAsked
  BY DEF IInv
<1>2. QED
  BY <1>1, InvHolds, PTL

(* What calls have reported as written is below the watermark. *)
THEOREM EmittedCovered == Spec => []EmittedIsCovered
<1>1. IInv => EmittedIsCovered
  BY DEF IInv, Covered, EmittedIsCovered
<1>2. QED
  BY <1>1, InvHolds, PTL

(* advance() refuses only a call that another one has overtaken. *)
THEOREM RegressionOvertaken == Spec => []RegressionMeansOvertaken
<1>1. ASSUME IInv PROVE RegressionMeansOvertaken
  <2>1. SUFFICES ASSUME NEW c \in Callers, At(c, "advance"), Regresses(c), ~call[c].overtaken
                 PROVE  FALSE
    BY DEF RegressionMeansOvertaken, IInv, TypeOK, Calls
  <2>2. Latest(c) \in Kept(c) /\ Latest(c) \in Nat
    BY <1>1, <2>1, LatestIsKept, KeptAreDates, BoundsAssumption DEF IInv, TypeOK, Dates
  <2>3. Latest(c) > mark[storeOf[c]] /\ mark[storeOf[c]] \in Nat
    BY <1>1, <2>1, <2>2, BoundsAssumption DEF IInv, TypeOK, CallInv, At, Dates, NoMark
  <2>4. QED
    BY <2>1, <2>2, <2>3 DEF Regresses
<1>2. QED
  BY <1>1, InvHolds, PTL

(* A watermark only moves up until its process is lost. *)
THEOREM MarksAdvance == Spec => MarksOnlyAdvance
<1> DEFINE Up == \A s \in Stores : mark'[s] >= mark[s] \/ aborts' # aborts
<1>1. ASSUME IInv, [Next]_vars PROVE Up
  <2>1. \A s \in Stores : mark[s] \in Nat
    BY <1>1, BoundsAssumption DEF IInv, TypeOK, Dates, NoMark
  <2>2. ASSUME NEW c \in Callers, Advance(c), ~Regresses(c) PROVE Up
    <3>1. mark' = [mark EXCEPT ![storeOf[c]] = Latest(c)] /\ Kept(c) # {}
      BY <1>1, <2>2 DEF Advance, IInv, TypeOK
    <3>2. Latest(c) \in Nat /\ mark[storeOf[c]] <= Latest(c)
      BY <1>1, <2>1, <2>2, <3>1, LatestIsKept, KeptAreDates, BoundsAssumption
      DEF Regresses, Dates, IInv, TypeOK
    <3>3. QED
      BY <1>1, <2>1, <3>1, <3>2 DEF IInv, TypeOK
  <2>3. mark' = mark \/ aborts' # aborts
           \/ \E c \in Callers : Advance(c) /\ ~Regresses(c)
    <3>1. ASSUME NEW s \in Stores, Restart(s) PROVE aborts' # aborts
      BY <1>1, <3>1 DEF Restart, IInv, TypeOK
    <3>2. QED
      BY <1>1, <3>1, ZenonT(60) DEF Next, vars, Start, FetchConflict, Fetch, Write, Advance, Abort
  <2>4. QED
    BY <2>1, <2>2, <2>3
<1>2. QED
  BY <1>1, InvHolds, PTL DEF Spec, MarksOnlyAdvance

(* Revisions of rows below the watermark are ignored by its own process.   *)
THEOREM RowsStand == Spec => MarkedRowsStand
<1> DEFINE Stand == \A d \in Dates : table'[d] # table[d] =>
                      \E c \in Callers : /\ At(c, "write") /\ d \in Kept(c)
                                         /\ (d > mark[storeOf[c]] \/ call[c].overtaken)
<1>1. ASSUME IInv, [Next]_vars PROVE Stand
  <2>1. ASSUME NEW c \in Callers, Write(c) PROVE Stand
    <3>1. SUFFICES ASSUME NEW d \in Dates, table'[d] # table[d]
                   PROVE  /\ At(c, "write") /\ d \in Kept(c)
                          /\ (d > mark[storeOf[c]] \/ call[c].overtaken)
      OBVIOUS
    <3>2. At(c, "write") /\ d \in Kept(c)
      BY <1>1, <2>1, <3>1, UpsertStores DEF Write, IInv
    <3>3. d > call[c].prev /\ (call[c].overtaken \/ call[c].prev = mark[storeOf[c]])
      BY <1>1, <3>2 DEF IInv, CallInv, At
    <3>4. QED
      BY <3>2, <3>3
  <2>2. table' = table \/ \E c \in Callers : Write(c)
    BY <1>1, ZenonT(60) DEF Next, vars, Start, FetchConflict, Fetch, Advance, Abort, Restart
  <2>3. QED
    BY <2>1, <2>2
<1>2. QED
  BY <1>1, InvHolds, PTL DEF Spec, MarkedRowsStand

-----------------------------------------------------------------------------
(* ReferenceData.                                                          *)

(* A non-empty set of naturals has a least one. *)
LEMMA LeastExists ==
  ASSUME NEW S, S \subseteq Nat, S # {}
  PROVE  \E least \in S : \A e \in S : least <= e
<1> DEFINE Less == OpToRel(<, Nat)
<1>1. \A m, n \in Nat : m < n => <<m, n>> \in Less
  BY DEF OpToRel
<1>2. IsWellFoundedOn(Less, Nat)
  BY NatLessThanWellFounded
<1> HIDE DEF Less
<1>3. PICK least \in S : \A e \in S : ~ (<<e, least>> \in Less)
  BY <1>2, WFMin
<1>4. \A e \in S : e \in Nat /\ least \in Nat /\ ~ (e < least)
  BY <1>1, <1>3
<1>5. QED
  BY <1>4

(* A non-empty set of naturals up to n has a greatest one. *)
LEMMA GreatestExists ==
  ASSUME NEW n \in Nat, NEW S, S \subseteq 0..n, S # {}
  PROVE  \E most \in S : \A e \in S : e <= most
<1> DEFINE T == {k \in Nat : \E s \in S : k = n - s}
<1>1. T \subseteq Nat /\ T # {} /\ \A s \in S : n - s \in T
  <2>1. \A s \in S : n - s \in Nat
    OBVIOUS
  <2>2. \A s \in S : n - s \in T
    BY <2>1
  <2>3. T \subseteq Nat
    OBVIOUS
  <2> HIDE DEF T
  <2>4. QED
    BY <2>2, <2>3
<1> HIDE DEF T
<1>2. PICK least \in T : \A k \in T : least <= k
  BY <1>1, LeastExists
<1>3. PICK most \in S : least = n - most
  BY DEF T
<1>4. \A e \in S : n - most <= n - e
  BY <1>1, <1>2, <1>3
<1>5. \A e \in S : e \in Int /\ most \in Int
  OBVIOUS
<1>6. QED
  BY <1>4, <1>5

(* A set of positions that holds every position before one of its own is   *)
(* the first so many.                                                      *)
LEMMA InitialSegment ==
  ASSUME NEW n \in Nat, NEW D, D \subseteq 1..n, \A k \in D : \A j \in 1..k : j \in D
  PROVE  Cardinality(D) \in 0..n /\ D = 1..Cardinality(D)
<1>1. CASE D = {}
  BY <1>1, FS_EmptySet
<1>2. CASE D # {}
  <2>1. D \subseteq 0..n
    OBVIOUS
  <2>2. PICK most \in D : \A k \in D : k <= most
    BY <1>2, <2>1, GreatestExists
  <2>3. most \in 1..n /\ D = 1..most
    <3>1. most \in 1..n /\ \A j \in 1..most : j \in D
      BY <2>2
    <3>2. \A k \in D : k \in 1..most
      BY <2>2
    <3>3. QED
      BY <3>1, <3>2
  <2>4. Cardinality(1..most) = most
    BY <2>3, FS_Interval
  <2>5. QED
    BY <2>3, <2>4
<1>3. QED
  BY <1>1, <1>2

\* A book of entries sorted by one of their fields.
Ordered(book, when) ==
  \A j, k \in DOMAIN book : j <= k => book[j][when] <= book[k][when]

\* The entries of new are those of book, and entry.
Adds(new, book, entry) ==
  /\ \A k \in DOMAIN new : new[k] = entry \/ \E j \in DOMAIN book : new[k] = book[j]
  /\ \A j \in DOMAIN book : \E k \in DOMAIN new : new[k] = book[j]
  /\ \E k \in DOMAIN new : new[k] = entry

(* insort keeps a book ordered, whatever the book: it adds the entry and   *)
(* nothing else.                                                           *)
LEMMA InsortedKeeps ==
  ASSUME NEW T, NEW book \in Seq(T), NEW entry \in T, NEW when, \A e \in T : e[when] \in Nat,
         Ordered(book, when),
         NEW new, new = Insorted(book, entry, when)
  PROVE  new \in Seq(T) /\ Ordered(new, when) /\ Adds(new, book, entry)
<1> DEFINE D == {k \in DOMAIN book : book[k][when] <= entry[when]}
           n == Len(book)
           c == Cardinality(D)
           inserted == [k \in 1..n + 1 |-> IF k <= c THEN book[k] ELSE IF k = c + 1 THEN entry ELSE book[k - 1]]
<1>1. n \in Nat /\ DOMAIN book = 1..n /\ (\A k \in 1..n : book[k] \in T /\ book[k][when] \in Nat)
      /\ entry[when] \in Nat
  OBVIOUS
<1>2. c \in 0..n /\ D = 1..c
  <2>1. D \subseteq 1..n
    BY <1>1
  <2>2. \A k \in D : \A j \in 1..k : j \in D
    <3>1. SUFFICES ASSUME NEW k \in D, NEW j \in 1..k PROVE j \in D
      OBVIOUS
    <3>2. j \in 1..n /\ k \in 1..n /\ j <= k /\ book[k][when] <= entry[when]
      BY <1>1
    <3>3. book[j][when] <= book[k][when]
      BY <1>1, <3>2 DEF Ordered
    <3>4. book[j][when] <= entry[when]
      BY <1>1, <3>2, <3>3
    <3>5. QED
      BY <1>1, <3>2, <3>4
  <2> HIDE DEF D, n
  <2>3. QED
    BY <1>1, <2>1, <2>2, InitialSegment
<1>3. \A k \in 1..n : book[k][when] <= entry[when] <=> k <= c
  BY <1>1, <1>2
<1> HIDE DEF D, c, n
<1>4. new = inserted
  <2> DEFINE front == SubSeq(book, 1, c)
             back == SubSeq(book, c + 1, n)
  <2>1. new = front \o <<entry>> \o back
    <3>1. (1 + c) - 1 = c /\ 1 + c = c + 1
      BY <1>1, <1>2
    <3>2. new = SubSeq(book, 1, (1 + c) - 1) \o <<entry>> \o SubSeq(book, 1 + c, Len(book))
      BY DEF Insorted, InsertAt, c, D, n
    <3>3. QED
      BY <3>1, <3>2 DEF n
  <2>2. front \in Seq(T) /\ Len(front) = c /\ \A k \in 1..c : front[k] = book[k]
    BY <1>1, <1>2, SubSeqProperties
  <2>3. back \in Seq(T) /\ Len(back) = n - c /\ \A k \in 1..n - c : back[k] = book[c + k]
    <3>1. /\ back \in Seq(T)
          /\ Len(back) = IF c + 1 <= n THEN n - (c + 1) + 1 ELSE 0
          /\ \A k \in 1..n - (c + 1) + 1 : back[k] = book[c + 1 + k - 1]
      <4>1. c + 1 \in Int /\ n \in Int /\ \A k \in c + 1..n : book[k] \in T
        BY <1>1, <1>2
      <4> HIDE DEF n
      <4>2. QED
        BY <4>1, SubSeqProperties
    <3> HIDE DEF back
    <3>2. n - (c + 1) + 1 = n - c
      BY <1>1, <1>2
    <3>3. \A k \in 1..n - c : c + 1 + k - 1 = c + k
      BY <1>1, <1>2
    <3> DEFINE rest == n - c
    <3>4. rest \in Nat /\ (c + 1 <= n <=> rest # 0)
      BY <1>1, <1>2
    <3>5. Len(back) = rest
      BY <3>1, <3>2, <3>4
    <3>6. \A k \in 1..rest : back[k] = book[c + k]
      BY <3>1, <3>2, <3>3
    <3>7. QED
      BY <3>1, <3>5, <3>6
  <2> HIDE DEF front, back
  <2>4. <<entry>> \in Seq(T) /\ Len(<<entry>>) = 1 /\ <<entry>>[1] = entry
    OBVIOUS
  <2> DEFINE most == front \o <<entry>>
  <2>5. most \in Seq(T) /\ Len(most) = c + 1
        /\ \A k \in 1..c + 1 : most[k] = IF k <= c THEN book[k] ELSE entry
    BY <1>2, <2>2, <2>4
  <2> HIDE DEF most
  <2>6. most \o back \in Seq(T) /\ Len(most \o back) = n + 1
        /\ \A k \in 1..n + 1 : (most \o back)[k] = IF k <= c + 1 THEN most[k] ELSE back[k - (c + 1)]
    BY <1>1, <1>2, <2>3, <2>5
  <2>7. new = most \o back
    BY <2>1 DEF most
  <2>8. \A k \in 1..n + 1 : new[k] = inserted[k]
    <3>1. SUFFICES ASSUME NEW k \in 1..n + 1 PROVE new[k] = inserted[k]
      OBVIOUS
    <3>2. CASE k <= c + 1
      BY <1>2, <2>5, <2>6, <2>7, <3>2
    <3>3. CASE k > c + 1
      <4>1. k - (c + 1) \in 1..n - c /\ c + (k - (c + 1)) = k - 1
        BY <1>1, <1>2, <3>3
      <4>2. QED
        <5>1. new[k] = back[k - (c + 1)]
          BY <2>6, <2>7, <1>2, <3>3
        <5>2. back[k - (c + 1)] = book[k - 1]
          BY <2>3, <4>1
        <5>3. inserted[k] = book[k - 1]
          BY <1>1, <1>2, <3>3
        <5>4. QED
          BY <5>1, <5>2, <5>3
    <3>4. QED
      BY <1>1, <1>2, <3>2, <3>3
  <2>9. DOMAIN new = 1..n + 1 /\ new \in Seq(T)
    BY <2>6, <2>7
  <2>10. QED
    BY <2>8, <2>9
<1>5. new \in Seq(T)
  <2>1. inserted \in [1..n + 1 -> T]
    BY <1>1, <1>2
  <2>2. QED
    BY <1>1, <1>4, <2>1, IsASeq
<1>6. DOMAIN new = 1..n + 1
  BY <1>4
<1>7. Ordered(new, when)
  <2>1. SUFFICES ASSUME NEW j \in 1..n + 1, NEW k \in 1..n + 1, j <= k
                 PROVE  new[j][when] <= new[k][when]
    BY <1>6 DEF Ordered
  <2> DEFINE Place(i) == IF i <= c THEN i ELSE i - 1
  <2>2. \A a, b \in 1..n : a <= b => book[a][when] <= book[b][when]
    BY <1>1 DEF Ordered
  <2>3. \A i \in 1..n + 1 : i # c + 1 => Place(i) \in 1..n /\ new[i] = book[Place(i)]
    BY <1>1, <1>2, <1>4
  <2>4. new[c + 1] = entry
    BY <1>1, <1>2, <1>4
  <2>5. CASE j # c + 1 /\ k # c + 1
    <3>1. Place(j) <= Place(k)
      BY <1>1, <1>2, <2>1, <2>5
    <3> HIDE DEF Place
    <3>2. QED
      BY <2>2, <2>3, <2>5, <3>1
  <2>6. CASE j = c + 1 /\ k # c + 1
    <3>1. ~ (k - 1 <= c) /\ k - 1 \in 1..n /\ new[k] = book[k - 1]
      BY <1>1, <1>2, <2>1, <2>3, <2>6
    <3>2. QED
      BY <1>1, <1>3, <2>4, <2>6, <3>1
  <2>7. CASE j # c + 1 /\ k = c + 1
    <3>1. j <= c /\ j \in 1..n /\ new[j] = book[j]
      BY <1>1, <1>2, <2>1, <2>3, <2>7
    <3>2. QED
      BY <1>1, <1>3, <2>4, <2>7, <3>1
  <2>8. CASE j = c + 1 /\ k = c + 1
    BY <1>1, <2>4, <2>8
  <2>9. QED
    BY <2>5, <2>6, <2>7, <2>8
<1>8. \A j \in 1..n : \E k \in 1..n + 1 : new[k] = book[j]
  <2>1. SUFFICES ASSUME NEW j \in 1..n PROVE \E k \in 1..n + 1 : new[k] = book[j]
    OBVIOUS
  <2>2. CASE j <= c
    BY <1>1, <1>2, <1>4, <2>2
  <2>3. CASE j > c
    <3>1. j + 1 \in 1..n + 1 /\ new[j + 1] = book[j]
      BY <1>1, <1>2, <1>4, <2>3
    <3>2. QED
      BY <3>1
  <2>4. QED
    BY <1>1, <1>2, <2>2, <2>3
<1>9. \A k \in 1..n + 1 : new[k] = entry \/ \E j \in 1..n : new[k] = book[j]
  BY <1>1, <1>2, <1>4
<1>10. c + 1 \in 1..n + 1 /\ new[c + 1] = entry
  BY <1>1, <1>2, <1>4
<1>11. QED
  BY <1>1, <1>5, <1>6, <1>7, <1>8, <1>9, <1>10, ZenonT(60) DEF Adds


(* What SelectLastInSeq returns: the last of the positions, or 0 if there  *)
(* is none.                                                                *)
LEMMA LastIndex ==
  ASSUME NEW n \in Nat, NEW I, I \subseteq 1..n, NEW k, k = IF I # {} THEN Max(I) ELSE 0
  PROVE  /\ k = 0 <=> I = {}
         /\ k # 0 => k \in I /\ \A j \in I : j <= k
<1>1. CASE I = {}
  BY <1>1
<1>2. CASE I # {}
  <2>1. I \subseteq 0..n
    OBVIOUS
  <2>2. \E most \in I : \A j \in I : j <= most
    BY <1>2, <2>1, GreatestExists
  <2>3. \A most \in I : (\A j \in I : j <= most) <=> (\A j \in I : most >= j)
    OBVIOUS
  <2>4. k \in I /\ \A j \in I : k >= j
    BY <1>2, <2>2, <2>3 DEF Max
  <2>5. QED
    BY <1>2, <2>4
<1>3. QED
  BY <1>1, <1>2

\* What rows and aliases are.
RowsOf == [date : 0..MaxMoment - 1, source : Sources, available : Moments, value : Nat]
AliasesOf == [target : Names, from : Moments, to : 1..MaxMoment + 1]

\* The types of the stores.
StoreTypes ==
  /\ kind \in Kinds /\ clock \in Moments /\ writes \in Nat
  /\ rows \subseteq RowsOf /\ memory \in Seq(RowsOf)
  /\ instruments \subseteq Names /\ aliases \subseteq AliasesOf /\ aliasBook \in Seq(AliasesOf)
  /\ ask = Unasked \/ ask.moment \in Moments

\* The bucket in memory has every row of the table, and nothing of a key or an availability
\* the table has not.
FactBook ==
  kind = "fact" =>
    /\ Ordered(memory, "available")
    /\ \A r \in rows : \E k \in DOMAIN memory : memory[k] = r
    /\ <<"moved">> \notin events =>
         \A k \in DOMAIN memory : \E r \in rows :
           KeyOf(r) = KeyOf(memory[k]) /\ r.available = memory[k].available
    /\ \A k \in DOMAIN memory : memory[k] \in rows \/ <<"again">> \in events

\* The book in memory has every alias of the table, whose valid_from are different.
AliasBook ==
  /\ Ordered(aliasBook, "from")
  /\ \A a \in aliases : \E k \in DOMAIN aliasBook : aliasBook[k] = a
  /\ \A a, b \in aliases : a.from = b.from => a = b
  /\ \A a \in aliases : a.target \in instruments

(* FactStore.get finds the last visible entry. *)
LEMMA FactLookup ==
  ASSUME StoreTypes, NEW m \in Moments, NEW k, k = FactInMemory(m)
  PROVE  /\ k = 0 <=> \A j \in DOMAIN memory : ~ (memory[j].available <= m)
         /\ k # 0 => /\ k \in DOMAIN memory /\ memory[k].available <= m
                     /\ \A j \in DOMAIN memory : memory[j].available <= m => j <= k
<1> DEFINE I == {j \in 1..Len(memory) : memory[j].available <= m}
<1>1. k = IF I # {} THEN Max(I) ELSE 0
  BY DEF FactInMemory, SelectLastInSeq
<1>2. Len(memory) \in Nat /\ DOMAIN memory = 1..Len(memory)
  BY DEF StoreTypes
<1>3. I \subseteq 1..Len(memory)
  OBVIOUS
<1> HIDE DEF I
<1>4. /\ k = 0 <=> I = {}
      /\ k # 0 => k \in I /\ \A j \in I : j <= k
  BY <1>1, <1>2, <1>3, LastIndex
<1>5. QED
  BY <1>2, <1>4 DEF I

(* resolve_alias in memory finds the last alias that is valid, if any is. *)
LEMMA AliasLookup ==
  ASSUME StoreTypes, NEW m \in Moments
  PROVE  \/ /\ \A j \in DOMAIN aliasBook : ~ ValidAt(aliasBook[j], m)
            /\ ResolveInMemory(m) = {}
         \/ \E k \in DOMAIN aliasBook :
              /\ ValidAt(aliasBook[k], m)
              /\ \A j \in DOMAIN aliasBook : ValidAt(aliasBook[j], m) => j <= k
              /\ ResolveInMemory(m) = {aliasBook[k].target} \cap instruments
<1> DEFINE I == {j \in 1..Len(aliasBook) : aliasBook[j].from <= m /\ m < aliasBook[j].to}
           k == IF I # {} THEN Max(I) ELSE 0
<1>1. ResolveInMemory(m) = IF k = 0 THEN {} ELSE {aliasBook[k].target} \cap instruments
  BY DEF ResolveInMemory, SelectLastInSeq
<1>2. Len(aliasBook) \in Nat /\ DOMAIN aliasBook = 1..Len(aliasBook)
  BY DEF StoreTypes
<1>3. I \subseteq 1..Len(aliasBook)
  OBVIOUS
<1> HIDE DEF I
<1>4. /\ k = 0 <=> I = {}
      /\ k # 0 => k \in I /\ \A j \in I : j <= k
  BY <1>2, <1>3, LastIndex
<1>5. \A j \in DOMAIN aliasBook : ValidAt(aliasBook[j], m) <=> j \in I
  BY <1>2 DEF ValidAt, I
<1>6. I \subseteq DOMAIN aliasBook
  BY <1>2, <1>3
<1> HIDE DEF k
<1>7. QED
  BY <1>1, <1>4, <1>5, <1>6

(* An ordered bucket that mirrors the table answers as the table does. *)
LEMMA FactsAgree == StoreTypes /\ FactBook => FactStoreAgrees
<1> SUFFICES ASSUME StoreTypes, FactBook, kind = "fact", <<"moved">> \notin events, NEW m \in Moments
             PROVE  LET k == FactInMemory(m)
                        found == LatestAsOf(memory, m) IN
                    /\ k = 0 <=> GetFact(m) = {}
                    /\ k = 0 <=> found = {}
                    /\ k # 0 => /\ memory[k] \in GetFact(m) \/ <<"again">> \in events
                                /\ \A fact \in found \cup GetFact(m) : fact.available = memory[k].available
  BY DEF FactStoreAgrees
<1>1. PICK k : k = FactInMemory(m)
  OBVIOUS
<1>2. /\ k = 0 <=> \A j \in DOMAIN memory : ~ (memory[j].available <= m)
      /\ k # 0 => /\ k \in DOMAIN memory /\ memory[k].available <= m
                  /\ \A j \in DOMAIN memory : memory[j].available <= m => j <= k
  BY <1>1, FactLookup
<1>3. \A j \in DOMAIN memory : memory[j] \in RowsOf /\ memory[j].available \in Nat /\ j \in Nat
  <2>1. \A j \in DOMAIN memory : memory[j] \in RowsOf /\ j \in Nat
    BY DEF StoreTypes
  <2>2. \A row \in RowsOf : row.available \in Nat
    BY MomentsAssumption DEF RowsOf, Moments
  <2>3. QED
    BY <2>1, <2>2
<1>4. \A r \in rows : r \in RowsOf /\ r.available \in Nat /\ \E j \in DOMAIN memory : memory[j] = r
  BY MomentsAssumption DEF StoreTypes, RowsOf, Moments, FactBook
<1>5. \A j \in DOMAIN memory : \E r \in rows : r.available = memory[j].available
  BY DEF FactBook
<1>0. m \in Nat
  BY MomentsAssumption DEF Moments
<1>6. CASE k = 0
  <2>1. Known(m) = {} /\ GetFact(m) = {}
    BY <1>2, <1>4, <1>6 DEF Known, GetFact, Newest
  <2>2. LatestAsOf(memory, m) = {}
    BY <1>2, <1>6 DEF LatestAsOf
  <2>3. QED
    BY <1>1, <1>6, <2>1, <2>2
<1>7. CASE k # 0
  <2>1. PICK top \in Nat : top = memory[k].available /\ top <= m
    BY <1>2, <1>3, <1>7
  <2>2. \A j \in DOMAIN memory : memory[j].available <= m => memory[j].available <= top
    <3>1. SUFFICES ASSUME NEW j \in DOMAIN memory, memory[j].available <= m
                   PROVE  memory[j].available <= top
      OBVIOUS
    <3>2. j <= k /\ k \in DOMAIN memory
      BY <1>2, <1>7, <3>1
    <3>3. Ordered(memory, "available")
      BY DEF FactBook
    <3>4. memory[j].available <= memory[k].available
      BY <3>2, <3>3 DEF Ordered
    <3>5. QED
      BY <2>1, <3>4
  <2>3. \A r \in Known(m) : r.available <= top
    BY <1>4, <2>2 DEF Known
  <2>4. PICK r \in rows : r.available = top
    BY <1>2, <1>5, <1>7, <2>1
  <2>5. GetFact(m) = {q \in rows : q.available = top}
    <3>1. r \in Known(m)
      BY <2>1, <2>4 DEF Known
    <3>2. \A q \in Known(m) : q.available \in Nat
      BY <1>4 DEF Known
    <3>3. ASSUME NEW q \in GetFact(m) PROVE q \in rows /\ q.available = top
      <4>1. q \in Known(m) /\ r.available <= q.available
        BY <3>1, <3>3 DEF GetFact, Newest
      <4>2. q.available <= top
        BY <2>3, <4>1
      <4>3. QED
        BY <2>4, <3>2, <4>1, <4>2 DEF Known
    <3>4. ASSUME NEW q \in rows, q.available = top PROVE q \in GetFact(m)
      BY <2>1, <2>3, <3>4 DEF GetFact, Newest, Known
    <3>5. QED
      BY <3>3, <3>4
  <2>6. memory[k] \in GetFact(m) \/ <<"again">> \in events
    BY <1>2, <1>7, <2>1, <2>5 DEF FactBook
  <2>7. ASSUME NEW fact \in LatestAsOf(memory, m) PROVE fact.available = top
    <3> DEFINE known == {j \in DOMAIN memory : memory[j].available <= m}
               Before(j, i) == \/ memory[j].available > memory[i].available
                               \/ memory[j].available = memory[i].available /\ j < i
    <3>1. PICK i \in known : fact = memory[i] /\ \A j \in known : ~ Before(j, i)
      BY <2>7 DEF LatestAsOf
    <3>2. k \in known /\ ~ (memory[k].available > memory[i].available)
      BY <1>2, <1>7, <3>1
    <3>3. memory[i].available <= top
      BY <2>2, <3>1
    <3>4. QED
      BY <1>3, <2>1, <3>1, <3>2, <3>3
  <2>8. LatestAsOf(memory, m) # {}
    <3> DEFINE known == {j \in DOMAIN memory : memory[j].available <= m}
               Before(j, i) == \/ memory[j].available > memory[i].available
                               \/ memory[j].available = memory[i].available /\ j < i
               tops == {j \in known : memory[j].available = top}
    <3>1. tops \subseteq Nat /\ tops # {}
      BY <1>2, <1>3, <1>7, <2>1
    <3>2. PICK first \in tops : \A j \in tops : first <= j
      BY <3>1, LeastExists
    <3>3. ASSUME NEW j \in known PROVE ~ Before(j, first)
      <4>1. memory[j].available \in Nat /\ memory[j].available <= top /\ j \in Nat /\ first \in Nat
        BY <1>3, <2>2, <3>1
      <4>2. memory[first].available = top
        OBVIOUS
      <4>3. memory[j].available = top => first <= j
        BY <3>2
      <4>4. QED
        BY <2>1, <4>1, <4>2, <4>3
    <3>4. memory[first] \in LatestAsOf(memory, m)
      BY <3>3 DEF LatestAsOf
    <3>5. QED
      BY <3>4
  <2>9. QED
    BY <1>1, <1>7, <2>1, <2>4, <2>5, <2>6, <2>7, <2>8
<1>8. QED
  BY <1>6, <1>7

(* An ordered book that holds every alias resolves as the table does. *)
LEMMA AliasesAgree == StoreTypes /\ AliasBook => AliasBookAgrees
<1> SUFFICES ASSUME StoreTypes, AliasBook, kind = "alias",
                    \A k \in DOMAIN aliasBook : aliasBook[k] \in aliases, NEW m \in Moments
             PROVE  ResolveAlias(m) = ResolveInMemory(m)
  BY DEF AliasBookAgrees
<1> DEFINE valid == {a \in aliases : ValidAt(a, m)}
<1>1. ResolveAlias(m) = {a.target : a \in {a \in valid : \A b \in valid : b.from <= a.from}}
  BY DEF ResolveAlias
<1>2. CASE /\ \A j \in DOMAIN aliasBook : ~ ValidAt(aliasBook[j], m)
           /\ ResolveInMemory(m) = {}
  <2>1. valid = {}
    BY <1>2 DEF AliasBook
  <2>2. QED
    BY <1>1, <1>2, <2>1
<1>3. ASSUME NEW k \in DOMAIN aliasBook,
             /\ ValidAt(aliasBook[k], m)
             /\ \A j \in DOMAIN aliasBook : ValidAt(aliasBook[j], m) => j <= k
             /\ ResolveInMemory(m) = {aliasBook[k].target} \cap instruments
      PROVE  ResolveAlias(m) = ResolveInMemory(m)
  <2>1. PICK last \in valid : last = aliasBook[k]
    BY <1>3
  <2>2. ASSUME NEW b \in valid PROVE b.from <= last.from
    <3>1. PICK j \in DOMAIN aliasBook : aliasBook[j] = b
      BY DEF AliasBook
    <3>2. j <= k
      BY <1>3, <3>1
    <3>3. Ordered(aliasBook, "from")
      BY DEF AliasBook
    <3>4. QED
      BY <2>1, <3>1, <3>2, <3>3 DEF Ordered
  <2>3. \A a \in valid : a.from \in Int
    BY MomentsAssumption DEF StoreTypes, AliasesOf, Moments
  <2>4. ASSUME NEW a \in valid, \A b \in valid : b.from <= a.from PROVE a = last
    <3>1. last.from <= a.from /\ a.from <= last.from
      BY <2>2, <2>4
    <3>2. a.from = last.from
      BY <2>3, <3>1
    <3>3. QED
      BY <3>2 DEF AliasBook
  <2>5. {a \in valid : \A b \in valid : b.from <= a.from} = {last}
    BY <2>2, <2>4
  <2>6. last.target \in instruments
    BY DEF AliasBook
  <2> HIDE DEF valid
  <2>7. QED
    BY <1>1, <1>3, <2>1, <2>5, <2>6
<1>4. QED
  BY <1>2, <1>3, AliasLookup

(* A batch that shows at no moment up to the question leaves every read of *)
(* it as it was.                                                           *)
LEMMA StoreKeepsReads ==
  ASSUME StoreTypes, ReadsHold, kind # "alias", NEW batch, batch \subseteq RowsOf, Store(batch)
  PROVE  ReadsHold'
<1>1. kind' = kind /\ ask' = ask
  BY DEF Store
<1> SUFFICES ASSUME ask # Unasked, ~ Disturbed'
             PROVE  Reading(ask.moment)' = ask.said
  BY <1>1 DEF ReadsHold
<1>2. PICK m \in Moments : m = ask.moment
  BY DEF StoreTypes
<1>3. m \in Nat /\ \A row \in RowsOf : row.available \in Nat /\ row.date \in Nat
  BY MomentsAssumption DEF Moments, RowsOf
<1>4. /\ rows' = (rows \ Replaced(batch)) \cup batch
      /\ events \subseteq events'
      /\ \A r \in batch \cup Replaced(batch) : <<"visible", r.available>> \in events'
      /\ \A r \in batch : <<"day", r.date>> \in events'
  BY DEF Store
<1>5. ~ Disturbed
  BY <1>1, <1>2, <1>4 DEF Disturbed
<1>6. Reading(m) = ask.said
  BY <1>2, <1>5 DEF ReadsHold
<1>7. \A r \in batch \cup Replaced(batch) : r \in RowsOf
  BY DEF Replaced, StoreTypes
<1>8. CASE kind = "position"
  <2>1. \A r \in batch : ~ (r.date <= m)
    BY <1>1, <1>2, <1>3, <1>4, <1>8 DEF Disturbed
  <2>2. \A r \in Replaced(batch) : ~ (r.date <= m)
    <3>1. SUFFICES ASSUME NEW r \in Replaced(batch) PROVE ~ (r.date <= m)
      OBVIOUS
    <3>2. PICK b \in batch : KeyOf(r) = KeyOf(b)
      BY DEF Replaced
    <3>3. r.date = b.date
      BY <1>8, <3>2 DEF KeyOf
    <3>4. QED
      BY <2>1, <3>3
  <2>3. {r \in rows' : r.date <= m} = {r \in rows : r.date <= m}
    BY <1>4, <2>1, <2>2
  <2>4. Snapshot(m)' = Snapshot(m)
    BY <2>3 DEF Snapshot
  <2>5. QED
    BY <1>1, <1>2, <1>6, <1>8, <2>4 DEF Reading
<1>9. CASE kind # "position"
  <2>1. \A r \in batch \cup Replaced(batch) : ~ (r.available <= m)
    BY <1>1, <1>2, <1>3, <1>4, <1>7, <1>9 DEF Disturbed
  <2>2. Known(m)' = Known(m)
    BY <1>4, <2>1 DEF Known
  <2>3. Reading(m)' = Reading(m)
    BY <1>1, <1>9, <2>2 DEF Reading, ListForInstrument, GetFact, FactHistory, FindNavs,
       RateKnown, FindBars, LatestBar, StoreTypes, Kinds
  <2>4. QED
    BY <1>1, <1>2, <1>6, <2>3
<1>10. QED
  BY <1>8, <1>9

(* A batch of rows leaves the table one of rows. *)
LEMMA StoreKeepsTypes ==
  ASSUME StoreTypes, NEW batch, batch \subseteq RowsOf, Store(batch), memory' \in Seq(RowsOf)
  PROVE  StoreTypes'
<1>1. rows' \subseteq RowsOf
  BY DEF Store, StoreTypes
<1>2. writes' \in Nat
  BY DEF Store, StoreTypes
<1>3. QED
  BY <1>1, <1>2 DEF Store, StoreTypes

(* FactStore.add keeps the bucket ordered by availability. *)
LEMMA AddFactKeeps ==
  ASSUME NEW book \in Seq(RowsOf), NEW fact \in RowsOf, Ordered(book, "available"),
         NEW new, new = AddFact(book, fact)
  PROVE  new \in Seq(RowsOf) /\ Ordered(new, "available") /\ Adds(new, book, fact)
<1>1. PICK when : when = "available"
  OBVIOUS
<1>2. \A row \in RowsOf : row[when] \in Nat
  BY <1>1, MomentsAssumption DEF RowsOf, Moments
<1>3. new = Insorted(book, fact, when) /\ Ordered(book, when)
  BY <1>1 DEF AddFact
<1>4. new \in Seq(RowsOf) /\ Ordered(new, when) /\ Adds(new, book, fact)
  BY <1>2, <1>3, InsortedKeeps
<1>5. QED
  BY <1>1, <1>4

(* A batch of facts leaves the bucket mirroring the table. *)
LEMMA FactsKeep ==
  ASSUME StoreTypes, FactBook, NEW batch, batch \subseteq RowsOf, UpsertFacts(batch)
  PROVE  memory' \in Seq(RowsOf) /\ FactBook'
<1>1. PICK first \in batch, second \in batch :
        /\ batch = {first, second}
        /\ memory' = IF first = second THEN AddFact(memory, first)
                     ELSE AddFact(AddFact(memory, first), second)
  BY DEF UpsertFacts
<1>2. kind = "fact" /\ kind' = kind /\ Ordered(memory, "available") /\ memory \in Seq(RowsOf)
  BY DEF UpsertFacts, Store, FactBook, StoreTypes
<1>3. PICK once : once = AddFact(memory, first)
  OBVIOUS
<1>4. once \in Seq(RowsOf) /\ Ordered(once, "available") /\ Adds(once, memory, first)
  BY <1>2, <1>3, AddFactKeeps
<1>5. PICK new : new = memory'
  OBVIOUS
<1>6. /\ new \in Seq(RowsOf) /\ Ordered(new, "available")
      /\ \A k \in DOMAIN new : new[k] \in batch \/ \E j \in DOMAIN memory : new[k] = memory[j]
      /\ \A j \in DOMAIN memory : \E k \in DOMAIN new : new[k] = memory[j]
      /\ \A r \in batch : \E k \in DOMAIN new : new[k] = r
  <2>1. CASE first = second
    <3>1. new = once
      BY <1>1, <1>3, <1>5, <2>1
    <3>2. QED
      BY <1>1, <1>4, <2>1, <3>1 DEF Adds
  <2>2. CASE first # second
    <3>1. new = AddFact(once, second)
      BY <1>1, <1>3, <1>5, <2>2
    <3>2. new \in Seq(RowsOf) /\ Ordered(new, "available") /\ Adds(new, once, second)
      BY <1>4, <3>1, AddFactKeeps
    <3>3. \A k \in DOMAIN new : new[k] \in batch \/ \E j \in DOMAIN memory : new[k] = memory[j]
      BY <1>1, <1>4, <3>2 DEF Adds
    <3>4. \A j \in DOMAIN memory : \E k \in DOMAIN new : new[k] = memory[j]
      BY <1>4, <3>2 DEF Adds
    <3>5. \A r \in batch : \E k \in DOMAIN new : new[k] = r
      BY <1>1, <1>4, <3>2 DEF Adds
    <3>6. QED
      BY <3>2, <3>3, <3>4, <3>5
  <2>3. QED
    BY <2>1, <2>2
<1>7. /\ rows' = (rows \ Replaced(batch)) \cup batch
      /\ events \subseteq events'
      /\ \A r \in Replaced(batch) : <<"again">> \in events'
      /\ <<"moved">> \notin events' => \A r \in Replaced(batch) : \A b \in batch :
                                        KeyOf(b) = KeyOf(r) => b.available = r.available
      /\ \A r : KeyOf(r)' = KeyOf(r)
  BY <1>2 DEF UpsertFacts, Store, KeyOf
<1>8. \A r \in rows' : \E k \in DOMAIN new : new[k] = r
  BY <1>2, <1>6, <1>7 DEF FactBook
<1>9. \A k \in DOMAIN new : new[k] \in rows' \/ <<"again">> \in events'
  BY <1>2, <1>6, <1>7 DEF FactBook
<1>10. ASSUME <<"moved">> \notin events', NEW k \in DOMAIN new
       PROVE  \E r \in rows' : KeyOf(r) = KeyOf(new[k]) /\ r.available = new[k].available
  <2>1. CASE new[k] \in batch
    BY <1>7, <2>1
  <2>2. CASE \E j \in DOMAIN memory : new[k] = memory[j]
    <3>1. PICK r \in rows : KeyOf(r) = KeyOf(new[k]) /\ r.available = new[k].available
      BY <1>2, <1>7, <1>10, <2>2 DEF FactBook
    <3>2. CASE r \in Replaced(batch)
      <4>1. PICK b \in batch : KeyOf(r) = KeyOf(b)
        BY <3>2 DEF Replaced
      <4>2. QED
        BY <1>7, <1>10, <3>1, <3>2, <4>1
    <3>3. CASE r \notin Replaced(batch)
      BY <1>7, <3>1, <3>3
    <3>4. QED
      BY <3>2, <3>3
  <2>3. QED
    BY <1>6, <2>1, <2>2
<1>11. QED
  BY <1>2, <1>5, <1>6, <1>7, <1>8, <1>9, <1>10 DEF FactBook


\* The inductive invariant of ReferenceData.
ReferenceInv == StoreTypes /\ FactBook /\ AliasBook /\ ReadsHold

(* Empty stores satisfy the invariant. *)
LEMMA ReferenceStarts == ReferenceInit => ReferenceInv
<1> SUFFICES ASSUME ReferenceInit PROVE ReferenceInv
  OBVIOUS
<1>1. StoreTypes
  BY MomentsAssumption DEF ReferenceInit, StoreTypes, Moments
<1>2. FactBook /\ AliasBook /\ ReadsHold
  BY DEF ReferenceInit, FactBook, AliasBook, ReadsHold, Ordered
<1>3. QED
  BY <1>1, <1>2 DEF ReferenceInv

(* What is written is rows. *)
LEMMA RowsFit ==
  ASSUME StoreTypes, NEW slots \in Batches
  PROVE  {Row(slot) : slot \in slots} \subseteq RowsOf
BY DEF StoreTypes, Batches, Slots, Row, RowsOf

(* Registering an instrument again drops its aliases; a read that saw one  *)
(* is disturbed.                                                           *)
LEMMA RegisterKeeps ==
  ASSUME ReferenceInv, NEW i \in Names, Register(i)
  PROVE  ReferenceInv'
<1>1. /\ kind = "alias" /\ kind' = kind /\ ask' = ask /\ memory' = memory /\ aliasBook' = aliasBook
      /\ rows' = rows /\ clock' = clock
      /\ aliases' = {a \in aliases : a.target # i} /\ instruments' = instruments \cup {i}
      /\ events \subseteq events' /\ \A a \in aliases \ aliases' : <<"dropped">> \in events'
  BY DEF Register
<1>2. StoreTypes'
  BY <1>1 DEF Register, ReferenceInv, StoreTypes
<1>3. FactBook'
  BY <1>1 DEF FactBook
<1>4. AliasBook'
  BY <1>1 DEF ReferenceInv, AliasBook, Ordered
<1>5. ReadsHold'
  <2> SUFFICES ASSUME ask # Unasked, ~ Disturbed' PROVE Reading(ask.moment)' = ask.said
    BY <1>1 DEF ReadsHold
  <2>1. ~ Disturbed /\ aliases' = aliases
    BY <1>1 DEF Disturbed
  <2>2. Reading(ask.moment) = ask.said
    BY <2>1 DEF ReferenceInv, ReadsHold
  <2>3. Reading(ask.moment)' = Reading(ask.moment)
    BY <1>1, <2>1 DEF Reading, ResolveAlias
  <2>4. QED
    BY <2>2, <2>3
<1>6. QED
  BY <1>2, <1>3, <1>4, <1>5 DEF ReferenceInv

(* An alias from a later moment on shows in no earlier read. *)
LEMMA AddAliasKeeps ==
  ASSUME ReferenceInv, NEW a \in AliasesOf, AddAlias(a)
  PROVE  ReferenceInv'
<1>1. /\ kind = "alias" /\ kind' = kind /\ ask' = ask /\ memory' = memory
      /\ rows' = rows /\ clock' = clock /\ instruments' = instruments
      /\ aliases' = aliases \cup {a} /\ aliasBook' = Insorted(aliasBook, a, "from")
      /\ a.target \in instruments /\ \A b \in aliases : b.from # a.from
      /\ events \subseteq events' /\ <<"visible", a.from>> \in events'
  BY DEF AddAlias
<1>2. aliasBook \in Seq(AliasesOf) /\ Ordered(aliasBook, "from")
  BY DEF ReferenceInv, StoreTypes, AliasBook
<1>3. PICK new : new = aliasBook'
  OBVIOUS
<1>4. new \in Seq(AliasesOf) /\ Ordered(new, "from") /\ Adds(new, aliasBook, a)
  <2>1. PICK when : when = "from"
    OBVIOUS
  <2>2. \A b \in AliasesOf : b[when] \in Nat
    BY <2>1, MomentsAssumption DEF AliasesOf, Moments
  <2>3. new = Insorted(aliasBook, a, when) /\ Ordered(aliasBook, when)
    BY <1>1, <1>2, <1>3, <2>1
  <2>4. new \in Seq(AliasesOf) /\ Ordered(new, when) /\ Adds(new, aliasBook, a)
    BY <1>2, <2>2, <2>3, InsortedKeeps
  <2>5. QED
    BY <2>1, <2>4
<1>5. StoreTypes'
  BY <1>1, <1>3, <1>4 DEF AddAlias, ReferenceInv, StoreTypes
<1>6. FactBook'
  BY <1>1 DEF FactBook
<1>7. AliasBook'
  <2>1. \A b \in aliases' : \E k \in DOMAIN new : new[k] = b
    BY <1>1, <1>4 DEF Adds, ReferenceInv, AliasBook
  <2>2. /\ \A b, c \in aliases' : b.from = c.from => b = c
        /\ \A b \in aliases' : b.target \in instruments
    BY <1>1 DEF ReferenceInv, AliasBook
  <2>3. QED
    BY <1>1, <1>3, <1>4, <2>1, <2>2 DEF AliasBook
<1>8. ReadsHold'
  <2> SUFFICES ASSUME ask # Unasked, ~ Disturbed' PROVE Reading(ask.moment)' = ask.said
    BY <1>1 DEF ReadsHold
  <2>1. PICK m \in Moments : m = ask.moment
    BY DEF ReferenceInv, StoreTypes
  <2>2. a.from \in Nat /\ m \in Nat
    BY MomentsAssumption DEF AliasesOf, Moments
  <2>3. ~ (a.from <= m)
    BY <1>1, <2>1, <2>2 DEF Disturbed
  <2>4. ~ Disturbed
    BY <1>1, <2>1 DEF Disturbed
  <2>5. Reading(m) = ask.said
    BY <2>1, <2>4 DEF ReferenceInv, ReadsHold
  <2>6. {b \in aliases' : ValidAt(b, m)} = {b \in aliases : ValidAt(b, m)}
    BY <1>1, <2>3 DEF ValidAt
  <2>7. Reading(m)' = Reading(m)
    BY <1>1, <2>6 DEF Reading, ResolveAlias
  <2>8. QED
    BY <1>1, <2>1, <2>5, <2>7
<1>9. QED
  BY <1>5, <1>6, <1>7, <1>8 DEF ReferenceInv

(* The question notes what the reads say. *)
LEMMA AskKeeps == ReferenceInv /\ Ask => ReferenceInv'
<1> SUFFICES ASSUME ReferenceInv, Ask PROVE ReferenceInv'
  OBVIOUS
<1>1. /\ ask' = [moment |-> clock, said |-> Reading(clock)]
      /\ kind' = kind /\ clock' = clock /\ rows' = rows /\ memory' = memory
      /\ instruments' = instruments /\ aliases' = aliases /\ aliasBook' = aliasBook /\ writes' = writes
  BY DEF Ask, storeVars
<1>2. StoreTypes'
  <2>1. ask'.moment = clock
    BY <1>1
  <2>2. QED
    BY <1>1, <2>1 DEF ReferenceInv, StoreTypes
<1>3. FactBook'
  <2>1. <<"moved">> \in events => <<"moved">> \in events'
    BY DEF Ask
  <2>2. <<"again">> \in events => <<"again">> \in events'
    BY DEF Ask
  <2>3. \A r : KeyOf(r)' = KeyOf(r)
    BY <1>1 DEF KeyOf
  <2>4. QED
    BY <1>1, <2>1, <2>2, <2>3 DEF ReferenceInv, FactBook
<1>4. AliasBook'
  BY <1>1 DEF ReferenceInv, AliasBook
<1>5. ReadsHold'
  <2>1. Reading(clock)' = Reading(clock)
    BY <1>1 DEF Reading, ListForInstrument, GetFact, FactHistory, FindNavs, RateKnown, FindBars,
       LatestBar, Snapshot, ResolveAlias, Known
  <2>2. ask'.moment = clock /\ ask'.said = Reading(clock)
    BY <1>1
  <2>3. QED
    BY <1>1, <2>1, <2>2 DEF ReadsHold
<1>6. QED
  BY <1>2, <1>3, <1>4, <1>5 DEF ReferenceInv

(* Time alone changes no read. *)
LEMMA ReferenceStutters ==
  ASSUME ReferenceInv, clock' \in Moments, UNCHANGED <<kind, storeVars, ask, events, writes>>
  PROVE  ReferenceInv'
<1>1. StoreTypes'
  BY DEF storeVars, ReferenceInv, StoreTypes
<1>2. FactBook' /\ AliasBook'
  BY DEF storeVars, ReferenceInv, FactBook, AliasBook, KeyOf
<1>3. ReadsHold'
  BY DEF storeVars, ReferenceInv, ReadsHold, Disturbed, Reading, ListForInstrument, GetFact,
     FactHistory, FindNavs, RateKnown, FindBars, LatestBar, Snapshot, ResolveAlias, Known
<1>4. QED
  BY <1>1, <1>2, <1>3 DEF ReferenceInv

(* Every upsert keeps the invariant. *)
LEMMA StoreKeeps ==
  ASSUME ReferenceInv, NEW batch, batch \subseteq RowsOf,
         \/ UpsertActions(batch) \/ UpsertFacts(batch) \/ UpsertNavs(batch) \/ UpsertBars(batch)
         \/ \E row \in batch : batch = {row} /\ (UpsertRate(row) \/ UpsertPosition(row))
  PROVE  ReferenceInv'
<1>1. Store(batch) /\ kind # "alias"
  BY DEF UpsertActions, UpsertFacts, UpsertNavs, UpsertBars, UpsertRate, UpsertPosition
<1>2. memory' \in Seq(RowsOf) /\ FactBook'
  <2>1. CASE UpsertFacts(batch)
    BY <2>1, FactsKeep DEF ReferenceInv
  <2>2. CASE ~ UpsertFacts(batch)
    <3>1. memory' = memory /\ kind # "fact" /\ kind' = kind
      BY <1>1, <2>2 DEF UpsertActions, UpsertNavs, UpsertBars, UpsertRate, UpsertPosition, Store
    <3>2. QED
      BY <3>1 DEF ReferenceInv, FactBook, StoreTypes
  <2>3. QED
    BY <2>1, <2>2
<1>3. StoreTypes' /\ ReadsHold'
  BY <1>1, <1>2, StoreKeepsTypes, StoreKeepsReads DEF ReferenceInv
<1>4. AliasBook'
  BY <1>1 DEF Store, ReferenceInv, AliasBook
<1>5. QED
  BY <1>2, <1>3, <1>4 DEF ReferenceInv

(* Every step keeps the invariant. *)
LEMMA ReferenceKeeps == ReferenceInv /\ [ReferenceNext]_refVars => ReferenceInv'
<1>1. ASSUME ReferenceInv, NEW slots \in Batches, NEW batch, batch = {Row(slot) : slot \in slots},
             \/ UpsertActions(batch) \/ UpsertFacts(batch) \/ UpsertNavs(batch) \/ UpsertBars(batch)
      PROVE  ReferenceInv'
  <2>1. batch \subseteq RowsOf
    BY <1>1, RowsFit DEF ReferenceInv
  <2>2. QED
    BY <1>1, <2>1, StoreKeeps
<1>2. ASSUME ReferenceInv, NEW slot \in Slots, UpsertRate(Row(slot)) \/ UpsertPosition(Row(slot))
      PROVE  ReferenceInv'
  <2>1. PICK row : row = Row(slot)
    OBVIOUS
  <2>2. row \in RowsOf
    <3>1. {slot, slot} \in Batches
      BY DEF Batches
    <3>2. PICK slots \in Batches : slots = {slot, slot}
      BY <3>1
    <3>3. QED
      BY <1>2, <2>1, <3>2, RowsFit DEF ReferenceInv
  <2>3. UpsertRate(row) \/ UpsertPosition(row)
    BY <1>2, <2>1
  <2>4. PICK batch : batch = {row}
    OBVIOUS
  <2>5. batch \subseteq RowsOf /\ \E r \in batch : batch = {r} /\ (UpsertRate(r) \/ UpsertPosition(r))
    BY <2>2, <2>3, <2>4
  <2>6. QED
    BY <1>2, <2>5, StoreKeeps
<1>3. ASSUME ReferenceInv, NEW i \in Names, NEW from \in Moments, NEW to \in 1..MaxMoment + 1,
             AddAlias([target |-> i, from |-> from, to |-> to])
      PROVE  ReferenceInv'
  <2>1. PICK a \in AliasesOf : a = [target |-> i, from |-> from, to |-> to]
    BY DEF AliasesOf
  <2>2. QED
    BY <1>3, <2>1, AddAliasKeeps
<1>4. ASSUME ReferenceInv, Tick \/ UNCHANGED refVars PROVE ReferenceInv'
  <2>1. clock' \in Moments
    BY <1>4, MomentsAssumption DEF Tick, refVars, ReferenceInv, StoreTypes, Moments
  <2>2. QED
    BY <1>4, <2>1, ReferenceStutters DEF Tick, refVars
<1>5. QED
  BY <1>1, <1>2, <1>3, <1>4, RegisterKeeps, AskKeeps DEF ReferenceNext

(* A read as of a moment says the same for ever unless something visible   *)
(* at that moment was written or replaced since, and the stores in memory  *)
(* answer as the tables do: for any sources, instruments and bounds        *)
(* (sql_repos.py, sql_bar_repo.py, facts.py, instruments).                 *)
THEOREM AsOfReadsAlwaysHold == ReferenceSpec => []AsOfReadsHold
<1>1. ReferenceInv => AsOfReadsHold
  BY FactsAgree, AliasesAgree DEF ReferenceInv, AsOfReadsHold
<1>2. QED
  BY <1>1, ReferenceStarts, ReferenceKeeps, PTL DEF ReferenceSpec

-----------------------------------------------------------------------------
(* The inputs of the tools are the few of MCIngestion; what they are       *)
(* answered is shown for any of their kind.                                *)

(* Nested instances bring the same counting along. *)
LEMMA SameCount ==
  ASSUME NEW S
  PROVE  Tools!F!Cardinality(S) = Cardinality(S) /\ Tools!Cardinality(S) = Cardinality(S)
BY DEF Tools!F!Cardinality, Tools!Cardinality, Cardinality, Tools!F!IsFiniteSet, Tools!IsFiniteSet, IsFiniteSet

(* Any two members of S are in order, and no two both ways.                *)
TotalOrder(S, before) ==
  /\ \A i \in S : <<i, i>> \notin before
  /\ \A i, j \in S : i # j => <<i, j>> \in before \/ <<j, i>> \in before
  /\ \A i, j, k \in S : <<i, j>> \in before /\ <<j, k>> \in before => <<i, k>> \in before

(* A sorted sequence has every member at one place, in order.              *)
LEMMA SortedInOrder ==
  ASSUME NEW S, IsFiniteSet(S), NEW before, TotalOrder(S, before), NEW s, s = Tools!F!Sorted(S, before)
  PROVE  /\ Cardinality(S) \in Nat /\ s \in [1..Cardinality(S) -> S]
         /\ \A x \in S : \E n \in 1..Cardinality(S) : s[n] = x
         /\ \A m, n \in 1..Cardinality(S) : m < n => <<s[m], s[n]>> \in before
<1> DEFINE Ahead(k) == {j \in S : <<j, k>> \in before}
<1>1. PICK size \in Nat : size = Cardinality(S)
  BY FS_CardinalityType
<1>2. ASSUME NEW k \in S
      PROVE  IsFiniteSet(Ahead(k)) /\ Cardinality(Ahead(k)) \in 0..size - 1
  <2>1. Ahead(k) \in SUBSET (S \ {k})
    BY DEF TotalOrder
  <2>2. IsFiniteSet(S \ {k}) /\ Cardinality(S \ {k}) = size - 1
    BY <1>1, FS_RemoveElement
  <2>3. IsFiniteSet(Ahead(k)) /\ Cardinality(Ahead(k)) <= size - 1
    BY <2>1, <2>2, FS_Subset
  <2>4. Cardinality(Ahead(k)) \in Nat
    BY <2>3, FS_CardinalityType
  <2>5. QED
    BY <2>3, <2>4
<1>3. ASSUME NEW j \in S, NEW k \in S, <<j, k>> \in before
      PROVE  Cardinality(Ahead(j)) < Cardinality(Ahead(k))
  <2>1. Ahead(j) \in SUBSET Ahead(k) /\ j \in Ahead(k) /\ j \notin Ahead(j)
    BY <1>3 DEF TotalOrder
  <2>2. PICK a, b : a = Ahead(j) /\ b = Ahead(k)
    OBVIOUS
  <2>3. IsFiniteSet(b) /\ Cardinality(a) \in Nat /\ Cardinality(b) \in Nat /\ a \in SUBSET b /\ a # b
    BY <1>2, <2>1, <2>2
  <2>4. Cardinality(a) <= Cardinality(b) /\ Cardinality(a) # Cardinality(b)
    BY <2>3, FS_Subset
  <2>5. QED
    BY <2>2, <2>3, <2>4
<1>4. PICK rank : rank = [k \in S |-> Cardinality(Ahead(k))]
  OBVIOUS
<1>5. /\ rank \in [S -> 0..size - 1]
      /\ \A j, k \in S : <<j, k>> \in before => rank[j] < rank[k]
  BY <1>2, <1>3, <1>4
<1>6. \A j, k \in S : rank[j] = rank[k] => j = k
  <2>1. \A j, k \in S : rank[j] \in Int /\ rank[k] \in Int
    BY <1>1, <1>5
  <2>2. \A j, k \in S : j # k => rank[j] < rank[k] \/ rank[k] < rank[j]
    BY <1>5 DEF TotalOrder
  <2>3. QED
    BY <2>1, <2>2
<1>7. \A n \in 0..size - 1 : \E k \in S : rank[k] = n
  <2>1. rank \in Injection(S, 0..size - 1)
    BY <1>5, <1>6 DEF Injection, IsInjective
  <2>2. IsFiniteSet(0..size - 1) /\ Cardinality(0..size - 1) = size
    <3>1. PICK top \in Int : top = size - 1
      BY <1>1
    <3>2. IsFiniteSet(0..top) /\ Cardinality(0..top) = IF 0 > top THEN 0 ELSE top - 0 + 1
      BY FS_Interval
    <3>3. (IF 0 > top THEN 0 ELSE top - 0 + 1) = size
      BY <1>1, <3>1
    <3>4. QED
      BY <3>1, <3>2, <3>3
  <2>3. rank \in Surjection(S, 0..size - 1)
    BY <1>1, <2>1, <2>2, FS_Injection
  <2>4. QED
    BY <2>3 DEF Surjection
<1>8. s = [n \in 1..size |-> CHOOSE k \in S : rank[k] = n - 1]
  <2>1. s = [n \in 1..Tools!F!Cardinality(S) |->
               CHOOSE k \in S : Tools!F!Cardinality({j \in S : <<j, k>> \in before}) = n - 1]
    BY DEF Tools!F!Sorted
  <2>2. Tools!F!Cardinality(S) = size
    BY <1>1, SameCount
  <2>3. ASSUME NEW n
        PROVE  (CHOOSE k \in S : Tools!F!Cardinality({j \in S : <<j, k>> \in before}) = n - 1)
                 = CHOOSE k \in S : rank[k] = n - 1
    <3>1. \A k \in S : rank[k] = Tools!F!Cardinality({j \in S : <<j, k>> \in before})
      BY <1>4, SameCount
    <3>2. \A k \in S : (Tools!F!Cardinality({j \in S : <<j, k>> \in before}) = n - 1) <=> (rank[k] = n - 1)
      BY <3>1
    <3>3. QED
      BY <3>2
  <2>4. QED
    BY <2>1, <2>2, <2>3
<1> HIDE DEF Ahead
<1>9. \A n \in 1..size : s[n] \in S /\ rank[s[n]] = n - 1
  <2>1. SUFFICES ASSUME NEW n \in 1..size PROVE s[n] \in S /\ rank[s[n]] = n - 1
    OBVIOUS
  <2>2. n - 1 \in 0..size - 1
    BY <1>1
  <2>3. \E k \in S : rank[k] = n - 1
    BY <1>7, <2>2
  <2>4. s[n] = CHOOSE k \in S : rank[k] = n - 1
    BY <1>8
  <2>5. QED
    BY <2>3, <2>4
<1>10. ASSUME NEW x \in S PROVE \E n \in 1..size : s[n] = x
  <2>1. PICK r \in 0..size - 1 : r = rank[x]
    BY <1>5
  <2>2. r + 1 \in 1..size /\ (r + 1) - 1 = r
    BY <1>1
  <2>3. s[r + 1] = x
    BY <1>6, <1>9, <2>1, <2>2
  <2>4. QED
    BY <2>2, <2>3
<1>11. ASSUME NEW m \in 1..size, NEW n \in 1..size, m < n PROVE <<s[m], s[n]>> \in before
  <2>1. s[m] \in S /\ s[n] \in S /\ rank[s[m]] = m - 1 /\ rank[s[n]] = n - 1
    BY <1>9
  <2>2. s[m] # s[n] /\ ~ (rank[s[n]] < rank[s[m]])
    BY <1>11, <2>1
  <2>3. QED
    BY <1>5, <2>1, <2>2 DEF TotalOrder
<1>12. s \in [1..size -> S]
  BY <1>8, <1>9
<1>13. QED
  BY <1>1, <1>10, <1>11, <1>12

(* A layer rejects if one of its reasons to does.                          *)
LEMMA SaysRejects ==
  ASSUME NEW layer, NEW rejections, NEW reviews
  PROVE  Tools!R!Says(layer, rejections, reviews).verdict = "reject" <=> \E k \in DOMAIN rejections : rejections[k][1]
BY DEF Tools!R!Says

(* Of the layers there are three that the tools rely on.                   *)
LEMMA LayersReject ==
  ASSUME NEW ctx
  PROVE  /\ DOMAIN Tools!R!Layers(ctx) = 1..8
         /\ Tools!R!Layers(ctx)[1].verdict = "reject" <=> ~ctx.permitted
         /\ Tools!R!Layers(ctx)[5].verdict = "reject"
              <=> ctx.name > ctx.nameLimit \/ ctx.gross > ctx.grossLimit \/ ctx.ccy > ctx.ccyLimit
         /\ Tools!R!Layers(ctx)[6].verdict = "reject" <=> ctx.shock > ctx.shockLimit
<1>1. Tools!R!Permission(ctx).verdict = "reject" <=> ~ctx.permitted
  <2>1. PICK checks : checks = <<<<~ctx.permitted, "PERM_DENIED">>>>
    OBVIOUS
  <2>2. DOMAIN checks = {1} /\ checks[1] = <<~ctx.permitted, "PERM_DENIED">>
    BY <2>1
  <2>3. <<~ctx.permitted, "PERM_DENIED">>[1] = ~ctx.permitted
    OBVIOUS
  <2>4. Tools!R!Permission(ctx).verdict = "reject" <=> \E k \in DOMAIN checks : checks[k][1]
    BY <2>1, SaysRejects, Zenon DEF Tools!R!Permission
  <2>5. QED
    BY <2>2, <2>3, <2>4, Zenon
<1>2. Tools!R!ExposureLimits(ctx).verdict = "reject"
        <=> ctx.name > ctx.nameLimit \/ ctx.gross > ctx.grossLimit \/ ctx.ccy > ctx.ccyLimit
  <2>1. PICK checks : checks = <<<<ctx.name > ctx.nameLimit, "NAME_LIMIT">>,
                                 <<ctx.gross > ctx.grossLimit, "GROSS_LIMIT">>,
                                 <<ctx.ccy > ctx.ccyLimit, "CCY_LIMIT">>>>
    OBVIOUS
  <2>2. DOMAIN checks = {1, 2, 3} /\ checks[1] = <<ctx.name > ctx.nameLimit, "NAME_LIMIT">>
        /\ checks[2] = <<ctx.gross > ctx.grossLimit, "GROSS_LIMIT">> /\ checks[3] = <<ctx.ccy > ctx.ccyLimit, "CCY_LIMIT">>
    BY <2>1
  <2>3. /\ <<ctx.name > ctx.nameLimit, "NAME_LIMIT">>[1] = (ctx.name > ctx.nameLimit)
        /\ <<ctx.gross > ctx.grossLimit, "GROSS_LIMIT">>[1] = (ctx.gross > ctx.grossLimit)
        /\ <<ctx.ccy > ctx.ccyLimit, "CCY_LIMIT">>[1] = (ctx.ccy > ctx.ccyLimit)
    OBVIOUS
  <2>4. Tools!R!ExposureLimits(ctx).verdict = "reject" <=> \E k \in DOMAIN checks : checks[k][1]
    BY <2>1, SaysRejects, Zenon DEF Tools!R!ExposureLimits
  <2>5. QED
    BY <2>2, <2>3, <2>4, Zenon
<1>3. Tools!R!StressDelta(ctx).verdict = "reject" <=> ctx.shock > ctx.shockLimit
  <2>1. PICK checks : checks = <<<<ctx.shock > ctx.shockLimit, "STRESS_LIMIT">>>>
    OBVIOUS
  <2>2. DOMAIN checks = {1} /\ checks[1] = <<ctx.shock > ctx.shockLimit, "STRESS_LIMIT">>
    BY <2>1
  <2>3. <<ctx.shock > ctx.shockLimit, "STRESS_LIMIT">>[1] = (ctx.shock > ctx.shockLimit)
    OBVIOUS
  <2>4. Tools!R!StressDelta(ctx).verdict = "reject" <=> \E k \in DOMAIN checks : checks[k][1]
    BY <2>1, SaysRejects, Zenon DEF Tools!R!StressDelta
  <2>5. QED
    BY <2>2, <2>3, <2>4, Zenon
<1>4. QED
  BY <1>1, <1>2, <1>3 DEF Tools!R!Layers

(* What one layer rejects is rejected.                                     *)
LEMMA RejectsAll ==
  ASSUME NEW ctx, NEW n \in 1..8, Tools!R!Layers(ctx)[n].verdict = "reject"
  PROVE  Tools!R!FinalVerdict(Tools!R!Trace(ctx)) = "reject"
<1>1. PICK layers, rejecting : /\ layers = Tools!R!Layers(ctx)
                               /\ rejecting = {k \in DOMAIN layers : layers[k].verdict = "reject"}
  OBVIOUS
<1>2. DOMAIN layers = 1..8 /\ Len(layers) = 8
  BY <1>1, LayersReject DEF Tools!R!Layers
<1>3. rejecting \subseteq Nat /\ rejecting # {}
  BY <1>1, <1>2
<1>4. PICK least \in rejecting : least = Tools!R!Min(rejecting)
  <2>1. \E m \in rejecting : \A k \in rejecting : m <= k
    BY <1>3, LeastExists
  <2>2. QED
    BY <2>1 DEF Tools!R!Min
<1>5. Tools!R!Trace(ctx) = SubSeq(layers, 1, least)
  BY <1>1, <1>3, <1>4 DEF Tools!R!Trace
<1>6. least \in 1..8 /\ layers[least].verdict = "reject"
  BY <1>1, <1>2
<1>7. DOMAIN SubSeq(layers, 1, least) = 1..least /\ SubSeq(layers, 1, least)[least] = layers[least]
  BY <1>2, <1>6
<1>8. "reject" \in Tools!R!Verdicts(Tools!R!Trace(ctx))
  BY <1>5, <1>6, <1>7 DEF Tools!R!Verdicts
<1>9. QED
  BY <1>8 DEF Tools!R!FinalVerdict

(* The three verdicts.                                                     *)
LEMMA VerdictIsOne ==
  ASSUME NEW trace
  PROVE  Tools!R!FinalVerdict(trace) \in {"accept", "review", "reject"}
BY DEF Tools!R!FinalVerdict

(* Without a way to trim it, what is rejected is not traded.               *)
LEMMA RejectedNotTraded ==
  ASSUME NEW ctx, Tools!R!IsTradeable(Tools!R!Propose(ctx, 4, FALSE, Tools!R!NoBuilder))
  PROVE  /\ ctx.permitted
         /\ ~ (ctx.name > ctx.nameLimit) /\ ~ (ctx.gross > ctx.grossLimit) /\ ~ (ctx.ccy > ctx.ccyLimit)
<1>1. PICK answer, trace : /\ answer = Tools!R!Propose(ctx, 4, FALSE, Tools!R!NoBuilder)
                           /\ trace = Tools!R!Trace(ctx)
  OBVIOUS
<1>2. ASSUME Tools!R!FinalVerdict(trace) = "reject" PROVE FALSE
  <2>1. DOMAIN Tools!R!NoBuilder = {}
    BY DEF Tools!R!NoBuilder
  <2>2. answer = Tools!R!Answer("REJECTED", 0, trace)
    BY <1>1, <1>2, <2>1 DEF Tools!R!Propose
  <2>3. answer.weight = 0
    BY <2>2 DEF Tools!R!Answer
  <2>4. answer.weight > 0
    BY <1>1, Zenon DEF Tools!R!IsTradeable
  <2>5. QED
    BY <2>3, <2>4
<1>3. \A n \in 1..8 : Tools!R!Layers(ctx)[n].verdict # "reject"
  BY <1>1, <1>2, RejectsAll
<1>4. Tools!R!Layers(ctx)[1].verdict # "reject" /\ Tools!R!Layers(ctx)[5].verdict # "reject"
  BY <1>3
<1>5. QED
  BY <1>4, LayersReject, Zenon

(* What the caller claims, in part.                                        *)
Claimed(claims, name, default) == IF name \in DOMAIN claims THEN claims[name] ELSE default

(* What a caller may claim.                                                *)
ClaimNames == {"permitted", "name", "gross", "ccy"}

(* With a portfolio the backend knows, what counts is what the backend     *)
(* says of it.                                                             *)
LEMMA BackendDecides ==
  ASSUME NEW w, NEW i, NEW claims \in Claims, w.exposures \in Exposures, w.exposures # Nothing,
         NEW said, said = Tools!Authoritative(w, i, "p1", claims),
         NEW e, e = w.exposures["p1"]
  PROVE  /\ DOMAIN said = ClaimNames /\ said = [n \in DOMAIN said |-> said[n]]
         /\ said["permitted"] = claims["permitted"] /\ said["gross"] = e.gross
         /\ said["name"] = Tools!Share(e.name, i)
         /\ said["ccy"] = IF i \in DOMAIN w.master THEN Tools!Share(e.ccy, w.master[i].currency)
                          ELSE claims["ccy"]
<1>1. "p1" # Nothing /\ "p1" \in DOMAIN w.exposures
  BY NothingAssumption DEF Exposures
<1>2. DOMAIN claims = ClaimNames
  BY DEF Claims, ClaimNames
<1>3. PICK one : one = Tools!With(claims, "gross", e.gross)
  OBVIOUS
<1>4. PICK two : two = Tools!With(one, "name", Tools!Share(e.name, i))
  OBVIOUS
<1>5. /\ DOMAIN one = ClaimNames /\ one["gross"] = e.gross
      /\ one["permitted"] = claims["permitted"] /\ one["ccy"] = claims["ccy"]
  <2>1. /\ DOMAIN one = DOMAIN claims \cup {"gross"} /\ one["gross"] = e.gross
        /\ \A n \in DOMAIN claims : n # "gross" => one[n] = claims[n]
    BY <1>3 DEF Tools!With
  <2>2. QED
    BY <1>2, <2>1 DEF ClaimNames
<1>6. /\ DOMAIN two = ClaimNames /\ two["gross"] = e.gross /\ two["name"] = Tools!Share(e.name, i)
      /\ two["permitted"] = claims["permitted"] /\ two["ccy"] = claims["ccy"]
      /\ two = [n \in DOMAIN two |-> two[n]]
  <2>1. /\ DOMAIN two = DOMAIN one \cup {"name"} /\ two["name"] = Tools!Share(e.name, i)
        /\ \A n \in DOMAIN one : n # "name" => two[n] = one[n]
        /\ two = [n \in DOMAIN two |-> two[n]]
    BY <1>4 DEF Tools!With
  <2>2. QED
    BY <1>5, <2>1 DEF ClaimNames
<1>7. CASE i \in DOMAIN w.master
  <2>1. PICK share : share = Tools!Share(e.ccy, w.master[i].currency)
    OBVIOUS
  <2>2. said = Tools!With(two, "ccy", share)
    BY <1>1, <1>3, <1>4, <1>7, <2>1 DEF Tools!Authoritative
  <2>3. /\ DOMAIN said = ClaimNames /\ said["ccy"] = share /\ said = [n \in DOMAIN said |-> said[n]]
        /\ said["permitted"] = two["permitted"] /\ said["gross"] = two["gross"] /\ said["name"] = two["name"]
    <3>1. /\ DOMAIN said = DOMAIN two \cup {"ccy"} /\ said["ccy"] = share
          /\ \A n \in DOMAIN two : n # "ccy" => said[n] = two[n]
          /\ said = [n \in DOMAIN said |-> said[n]]
      BY <2>2 DEF Tools!With
    <3>2. QED
      BY <1>6, <3>1 DEF ClaimNames
  <2>4. QED
    BY <1>6, <1>7, <2>1, <2>3
<1>8. CASE i \notin DOMAIN w.master
  <2>1. said = two
    BY <1>1, <1>3, <1>4, <1>8 DEF Tools!Authoritative
  <2>2. QED
    BY <1>6, <1>8, <2>1
<1>9. QED
  BY <1>7, <1>8

(* Without one they are the claims.                                        *)
LEMMA ClaimsStand ==
  ASSUME NEW w, NEW i, NEW portfolio, NEW claims \in Claims, w.exposures \in Exposures,
         NEW said, said = Tools!Authoritative(w, i, portfolio, claims)
  PROVE  /\ DOMAIN said = ClaimNames /\ said["permitted"] = claims["permitted"]
<1>1. CASE said = claims
  BY <1>1 DEF Claims, ClaimNames
<1>2. CASE said # claims
  <2>1. w.exposures # Nothing /\ portfolio \in DOMAIN w.exposures
    BY <1>2 DEF Tools!Authoritative
  <2>2. portfolio = "p1"
    BY <2>1 DEF Exposures
  <2>3. QED
    BY <2>1, <2>2, BackendDecides
<1>3. QED
  BY <1>1, <1>2

(* The instruments of the runs.                                            *)
LEMMA ThreeInstruments ==
  /\ Moutai # Apple /\ Moutai # Fund /\ Apple # Fund
  /\ Moutai.market = "CN" /\ Apple.market = "US" /\ Fund.market = "CN"
<1>1. Moutai.id = "CN.600519" /\ Apple.id = "US.AAPL" /\ Fund.id = "CN.019172"
  BY DEF Moutai, Apple, Fund
<1>2. Moutai.market = "CN" /\ Apple.market = "US" /\ Fund.market = "CN"
  BY DEF Moutai, Apple, Fund
<1>3. QED
  BY <1>1, <1>2

(* The inputs of an evaluation.                                            *)
EvaluateInput(w, i, trade, claims, portfolio) ==
  /\ i \in {Moutai, Apple} /\ claims \in Claims /\ w.exposures \in Exposures
  /\ \E registered \in {{}, {Moutai, Apple}} : w.master = Master(registered)

Evaluated(w, i, trade, claims, portfolio) == Tools!EvaluateProposal(w, i, trade, 4, portfolio, claims)

(* What the backend knows of the portfolio decides.                        *)
LEMMA EvaluationHolds ==
  ASSUME NEW w, NEW i, NEW trade, NEW claims, NEW portfolio, EvaluateInput(w, i, trade, claims, portfolio)
  PROVE  /\ w.exposures # Nothing /\ portfolio = "p1" /\ i \in DOMAIN w.master =>
              Evaluated(w, i, trade, claims, portfolio)
                = Evaluated(w, i, trade, NothingClaimed(claims), portfolio)
         /\ Tools!R!IsTradeable(Evaluated(w, i, trade, claims, portfolio)) => claims.permitted
         /\ Tools!R!IsTradeable(Evaluated(w, i, trade, claims, portfolio)) /\ w.exposures # Nothing /\ portfolio = "p1" =>
              /\ w.exposures["p1"].gross <= 100
              /\ i = Moutai => w.exposures["p1"].name[i] <= 20
                              /\ (i \in DOMAIN w.master => w.exposures["p1"].ccy["CNY"] <= 40)
<1> PICK known, e, registered, traded :
      /\ known = (w.exposures # Nothing /\ portfolio = "p1") /\ e = w.exposures["p1"]
      /\ registered = (i \in DOMAIN w.master)
      /\ traded = Tools!R!IsTradeable(Evaluated(w, i, trade, claims, portfolio))
  OBVIOUS
<1>1. PICK said : said = Tools!Authoritative(w, i, portfolio, claims)
  OBVIOUS
<1>2. PICK ctx : ctx = Tools!BuildCtx(i, trade, said)
  OBVIOUS
<1>3. Evaluated(w, i, trade, claims, portfolio) = Tools!R!Propose(ctx, 4, FALSE, Tools!R!NoBuilder)
  BY <1>1, <1>2 DEF Evaluated, Tools!EvaluateProposal
<1>4. claims \in Claims /\ w.exposures \in Exposures /\ i \in {Moutai, Apple}
  BY DEF EvaluateInput
<1>5. DOMAIN said = ClaimNames /\ said["permitted"] = claims["permitted"]
  BY <1>1, <1>4, ClaimsStand
<1>11. known => w.exposures # Nothing /\ portfolio = "p1"
  OBVIOUS
<1>12. registered => i \in DOMAIN w.master
  OBVIOUS
<1>6. /\ ctx.permitted = claims["permitted"] /\ ctx.name = said["name"] /\ ctx.nameLimit = 20
      /\ ctx.gross = said["gross"] /\ ctx.grossLimit = 100
      /\ ctx.ccy = said["ccy"] /\ ctx.ccyLimit = 40
  <2>1. {"nameLimit", "grossLimit", "ccyLimit"} \cap ClaimNames = {} /\ {"permitted", "name", "gross", "ccy"} \subseteq ClaimNames
    BY DEF ClaimNames
  <2>2. /\ ctx.permitted = Claimed(said, "permitted", FALSE)
        /\ ctx.name = Claimed(said, "name", 0) /\ ctx.nameLimit = Claimed(said, "nameLimit", 20)
        /\ ctx.gross = Claimed(said, "gross", 0) /\ ctx.grossLimit = Claimed(said, "grossLimit", 100)
        /\ ctx.ccy = Claimed(said, "ccy", 0) /\ ctx.ccyLimit = Claimed(said, "ccyLimit", 40)
    BY <1>2 DEF Tools!BuildCtx, Claimed
  <2>3. QED
    BY <1>5, <2>1, <2>2 DEF Claimed
<1>7. ASSUME traded
      PROVE  claims["permitted"] /\ ~ (said["name"] > 20) /\ ~ (said["gross"] > 100) /\ ~ (said["ccy"] > 40)
  BY <1>3, <1>6, <1>7, RejectedNotTraded
<1>8. ASSUME known, registered
      PROVE  Evaluated(w, i, trade, claims, portfolio)
               = Evaluated(w, i, trade, NothingClaimed(claims), portfolio)
  <2>1. PICK other : other = NothingClaimed(claims)
    OBVIOUS
  <2>2. other \in Claims /\ other["permitted"] = claims["permitted"]
    BY <1>4, <2>1 DEF Claims, NothingClaimed
  <2>3. PICK saidOther : saidOther = Tools!Authoritative(w, i, portfolio, other)
    OBVIOUS
  <2>9. w.exposures # Nothing /\ portfolio = "p1" /\ i \in DOMAIN w.master
    BY <1>8, <1>11, <1>12, Zenon
  <2>10. saidOther = Tools!Authoritative(w, i, "p1", other) /\ said = Tools!Authoritative(w, i, "p1", claims)
    BY <1>1, <2>3, <2>9
  <2>4. /\ DOMAIN saidOther = ClaimNames /\ saidOther = [n \in DOMAIN saidOther |-> saidOther[n]]
        /\ saidOther["permitted"] = claims["permitted"] /\ saidOther["gross"] = e.gross
        /\ saidOther["name"] = Tools!Share(e.name, i)
        /\ saidOther["ccy"] = Tools!Share(e.ccy, w.master[i].currency)
    BY <1>4, <2>2, <2>9, <2>10, BackendDecides
  <2>5. /\ DOMAIN said = ClaimNames /\ said = [n \in DOMAIN said |-> said[n]]
        /\ said["permitted"] = claims["permitted"] /\ said["gross"] = e.gross
        /\ said["name"] = Tools!Share(e.name, i)
        /\ said["ccy"] = Tools!Share(e.ccy, w.master[i].currency)
    BY <1>4, <2>9, <2>10, BackendDecides
  <2>6. \A n \in ClaimNames : said[n] = saidOther[n]
    BY <2>4, <2>5 DEF ClaimNames
  <2>7. said = saidOther
    BY <2>4, <2>5, <2>6
  <2>8. QED
    BY <1>1, <2>1, <2>3, <2>7 DEF Evaluated, Tools!EvaluateProposal
<1>9. ASSUME traded, known
      PROVE  e.gross <= 100 /\ (i = Moutai => e.name[i] <= 20 /\ (registered => e.ccy["CNY"] <= 40))
  <2>1. PICK gross \in {50, 120}, name \in {5, 30}, ccy \in {10, 50} :
          e = [gross |-> gross, name |-> [k \in {Moutai} |-> name], ccy |-> [c \in {"CNY"} |-> ccy]]
    <3>1. w.exposures \in Exposures /\ w.exposures # Nothing
      BY <1>4, <1>9, <1>11, Zenon
    <3>2. PICK gross \in {50, 120}, name \in {5, 30}, ccy \in {10, 50} :
            w.exposures = [p \in {"p1"} |-> [gross |-> gross, name |-> [k \in {Moutai} |-> name],
                                            ccy |-> [c \in {"CNY"} |-> ccy]]]
      BY <3>1 DEF Exposures
    <3>3. QED
      BY <3>2
  <2>2. said["gross"] = e.gross /\ said["name"] = Tools!Share(e.name, i)
        /\ (registered => said["ccy"] = Tools!Share(e.ccy, w.master[i].currency))
    <3>1. w.exposures # Nothing /\ portfolio = "p1"
      BY <1>9, <1>11, Zenon
    <3>2. said = Tools!Authoritative(w, i, "p1", claims)
      BY <1>1, <3>1
    <3>3. /\ said["gross"] = e.gross /\ said["name"] = Tools!Share(e.name, i)
          /\ i \in DOMAIN w.master => said["ccy"] = Tools!Share(e.ccy, w.master[i].currency)
      BY <1>4, <3>1, <3>2, BackendDecides
    <3>4. QED
      BY <1>12, <3>3, Zenon
  <2>3. e.gross = gross /\ e.name = [k \in {Moutai} |-> name] /\ e.ccy = [c \in {"CNY"} |-> ccy]
    BY <2>1
  <2>4. ASSUME i = Moutai PROVE e.name[i] = name /\ Tools!Share(e.name, i) = name
    BY <2>3, <2>4 DEF Tools!Share
  <2>5. ASSUME i = Moutai, registered PROVE Tools!Share(e.ccy, w.master[i].currency) = ccy
    <3>1. w.master = Master({Moutai, Apple}) \/ w.master = Master({})
      BY DEF EvaluateInput
    <3>2. w.master[i].currency = "CNY"
      <4>1. i \in DOMAIN w.master /\ i = Moutai /\ i # Apple
        BY <1>12, <2>5, ThreeInstruments, Zenon
      <4>2. QED
        BY <3>1, <4>1 DEF Master
    <3>3. QED
      BY <2>3, <3>2 DEF Tools!Share
  <2>6. e.ccy["CNY"] = ccy
    BY <2>3
  <2>7. QED
    BY <1>7, <1>9, <2>2, <2>3, <2>4, <2>5, <2>6
<1>10. QED
  BY <1>4, <1>7, <1>8, <1>9

(* A shock beyond the limit is rejected, so nothing is judged worse.       *)
LEMMA ShockRejected ==
  ASSUME NEW i, NEW trade, NEW claims \in Claims
  PROVE  Tools!RunScenario(i, trade, 4000, claims) = "reject"
<1>1. PICK said : said = Tools!With(claims, "shock", 4000)
  OBVIOUS
<1>2. said["shock"] = 4000 /\ "shock" \in DOMAIN said /\ "shockLimit" \notin DOMAIN said
  BY <1>1 DEF Tools!With, Claims
<1>3. PICK ctx : ctx = Tools!BuildCtx(i, trade, said)
  OBVIOUS
<1>4. ctx.shock = 4000 /\ ctx.shockLimit = 3000
  BY <1>2, <1>3 DEF Tools!BuildCtx
<1>5. Tools!R!Layers(ctx)[6].verdict = "reject"
  <2>1. ctx.shock > ctx.shockLimit
    BY <1>4
  <2>2. QED
    BY <2>1, LayersReject, Zenon
<1>6. Tools!R!FinalVerdict(Tools!R!Trace(ctx)) = "reject"
  BY <1>5, RejectsAll
<1>7. QED
  BY <1>1, <1>3, <1>6 DEF Tools!RunScenario

(* Without permission nothing is accepted.                                 *)
LEMMA DeniedIsRejected ==
  ASSUME NEW ctx, ctx.permitted = FALSE
  PROVE  /\ Tools!R!FinalVerdict(Tools!R!Trace(ctx)) = "reject"
         /\ ~Tools!R!IsTradeable(Tools!R!Propose(ctx, 4, FALSE, Tools!R!NoBuilder))
<1>1. ~ctx.permitted
  OBVIOUS
<1>2. Tools!R!Layers(ctx)[1].verdict = "reject"
  BY <1>1, LayersReject, Zenon
<1>3. Tools!R!FinalVerdict(Tools!R!Trace(ctx)) = "reject"
  BY <1>2, RejectsAll
<1>4. QED
  BY <1>1, <1>3, RejectedNotTraded, Zenon

(* The server has no permission to give.                                   *)
LEMMA ServerDenies ==
  ASSUME NEW w, NEW i, NEW trade
  PROVE  /\ ~Tools!R!IsTradeable(Tools!ServerEvaluateProposal(w, i, trade, 4))
         /\ Tools!ServerRunScenario(i, trade, 0) = "reject"
<1>1. PICK ctx : ctx = Tools!BuildCtx(i, trade, <<>>)
  OBVIOUS
<1>2. DOMAIN <<>> = {}
  OBVIOUS
<1>3. ctx.permitted = FALSE
  BY <1>1, <1>2 DEF Tools!BuildCtx
<1>4. Tools!ServerEvaluateProposal(w, i, trade, 4) = Tools!R!Propose(ctx, 4, FALSE, Tools!R!NoBuilder)
  BY <1>1 DEF Tools!ServerEvaluateProposal, Tools!EvaluateProposal, Tools!Authoritative
<1>5. PICK said : said = Tools!With(<<>>, "shock", 0)
  OBVIOUS
<1>6. "permitted" \notin DOMAIN said
  BY <1>2, <1>5 DEF Tools!With
<1>7. PICK shocked : shocked = Tools!BuildCtx(i, trade, said)
  OBVIOUS
<1>8. shocked.permitted = FALSE
  BY <1>6, <1>7 DEF Tools!BuildCtx
<1>9. Tools!ServerRunScenario(i, trade, 0) = Tools!R!FinalVerdict(Tools!R!Trace(shocked))
  BY <1>5, <1>7 DEF Tools!ServerRunScenario, Tools!RunScenario
<1>10. QED
  BY <1>3, <1>4, <1>8, <1>9, DeniedIsRejected

(* Nor a model.                                                            *)
LEMMA ServerForecastsNothing ==
  ASSUME NEW w, w.production \in [{"CN", "US"} -> Productions], w = [n \in DOMAIN w |-> w[n]],
         DOMAIN w = {"production", "hash", "rates", "bars", "master"},
         NEW i \in {Moutai, Apple, Fund}, NEW asOf
  PROVE  Tools!ForecastRun(Tools!ServerWorld(w), i, asOf) = Tools!NoForecast("no_production_model")
<1>1. i.market \in {"CN", "US"}
  BY ThreeInstruments
<1>2. Tools!ServerWorld(w).production[i.market] = Nothing
  BY <1>1 DEF Tools!ServerWorld
<1>3. QED
  BY <1>2 DEF Tools!ForecastRun, Tools!Score

-----------------------------------------------------------------------------
(* What they say of targets and queries.                                   *)

(* The capital after a number of months, as the tool compounds it.         *)
Year(target, grown) ==
  [k \in 0..12 |-> IF k = 0 THEN 10000 ELSE (grown[k - 1] * (100 + target)) \div 100]

Months(target) == CHOOSE grown : grown = Year(target, grown)

(* A month's growth, in whole numbers.                                     *)
LEMMA MonthGrows ==
  ASSUME NEW x \in Nat, NEW y \in Nat, x <= y, 10000 <= x, NEW t \in Nat
  PROVE  /\ (x * (100 + t)) \div 100 \in Nat
         /\ (x * (100 + t)) \div 100 >= x + 100 * t
         /\ (x * (100 + t)) \div 100 <= (y * (100 + (t + 1))) \div 100
<1>1. PICK p \in Nat, q \in Nat : p = x * (100 + t) /\ q = y * (100 + (t + 1))
  OBVIOUS
<1>2. p >= 100 * (x + 100 * t)
  <2>1. PICK xt \in Nat : xt = x * t
    OBVIOUS
  <2>2. xt >= 10000 * t
    BY <2>1
  <2>3. p = 100 * x + xt
    BY <1>1, <2>1
  <2>4. QED
    BY <2>2, <2>3
<1>3. p <= q
  <2>1. p <= y * (100 + t)
    BY <1>1
  <2>2. y * (100 + t) <= q
    BY <1>1
  <2>3. QED
    BY <1>1, <2>1, <2>2
<1>4. p \div 100 \in Nat /\ p \div 100 <= q \div 100
  BY <1>3
<1>5. p \div 100 >= x + 100 * t
  BY <1>2
<1>6. QED
  BY <1>1, <1>4, <1>5

(* It is there.                                                            *)
LEMMA MonthsExist ==
  ASSUME NEW target \in Nat, NEW grown, grown = Months(target)
  PROVE  /\ grown[0] = 10000
         /\ \A k \in 1..12 : grown[k] = (grown[k - 1] * (100 + target)) \div 100
<1> DEFINE Do(x) == (x * (100 + target)) \div 100
           Right(f, k) == f[k] = IF k = 0 THEN 10000 ELSE Do(f[k - 1])
           Good(m) == \E f : \A k \in 0..m : Right(f, k)
           Bad == {m \in 0..12 : ~Good(m)}
<1> HIDE DEF Do
<1>1. Good(0)
  <2>1. PICK f : f = [k \in {0} |-> 10000]
    OBVIOUS
  <2>2. \A k \in 0..0 : Right(f, k)
    BY <2>1
  <2>3. QED
    BY <2>2
<1>2. ASSUME NEW m \in Nat, Good(m) PROVE Good(m + 1)
  <2>1. PICK f : \A k \in 0..m : Right(f, k)
    BY <1>2
  <2>2. PICK g : g = [k \in 0..m + 1 |-> IF k = m + 1 THEN Do(f[m]) ELSE f[k]]
    OBVIOUS
  <2>3. (\A k \in 0..m : g[k] = f[k]) /\ g[m + 1] = Do(f[m])
    BY <2>2
  <2>4. ASSUME NEW k \in 0..m + 1 PROVE Right(g, k)
    <3>1. CASE k = m + 1
      <4>1. g[k] = Do(g[k - 1]) /\ k # 0
        BY <2>3, <3>1
      <4>2. QED
        BY <4>1
    <3>2. CASE k = 0
      BY <2>1, <2>3, <3>2
    <3>3. CASE k \in 1..m
      <4>1. k \in 0..m /\ k - 1 \in 0..m /\ k # 0
        BY <3>3
      <4>2. g[k] = f[k] /\ g[k - 1] = f[k - 1] /\ f[k] = Do(f[k - 1])
        BY <2>1, <2>3, <4>1
      <4>3. QED
        BY <4>1, <4>2
    <3>4. QED
      BY <3>1, <3>2, <3>3
  <2>5. QED
    BY <2>4
<1> HIDE DEF Good
<1>3. Good(12)
  <2>1. SUFFICES ASSUME ~Good(12) PROVE FALSE
    OBVIOUS
  <2>2. 12 \in Bad /\ Bad \subseteq Nat
    BY <2>1
  <2>3. PICK m \in Bad : \A e \in Bad : m <= e
    BY <2>2, LeastExists
  <2>4. m # 0 /\ m \in Nat /\ m \in 0..12 /\ ~Good(m)
    BY <1>1, <2>3
  <2>5. m - 1 \in Nat /\ m - 1 \in 0..12 /\ m - 1 \notin Bad
    BY <2>3, <2>4
  <2>6. Good(m - 1) /\ (m - 1) + 1 = m
    BY <2>4, <2>5
  <2>7. QED
    BY <1>2, <2>4, <2>5, <2>6
<1>4. PICK f : \A k \in 0..12 : Right(f, k)
  BY <1>3 DEF Good
<1>5. PICK g : g = [k \in 0..12 |-> f[k]]
  OBVIOUS
<1>6. ASSUME NEW k \in 0..12 PROVE Right(g, k)
  <2>1. g[k] = f[k] /\ (k # 0 => g[k - 1] = f[k - 1])
    BY <1>5
  <2>2. QED
    BY <1>4, <2>1
<1>7. g = Year(target, g)
  <2>1. [k \in 0..12 |-> IF k = 0 THEN 10000 ELSE Do(g[k - 1])] = [k \in 0..12 |-> g[k]]
    BY <1>6
  <2>2. g = [k \in 0..12 |-> g[k]]
    BY <1>5
  <2>3. QED
    BY <2>1, <2>2 DEF Do, Year
<1>8. grown = Year(target, grown)
  BY <1>7 DEF Months
<1>9. ASSUME NEW k \in 0..12
      PROVE  grown[k] = IF k = 0 THEN 10000 ELSE (grown[k - 1] * (100 + target)) \div 100
  BY <1>8 DEF Year
<1>10. 0 \in 0..12 /\ \A k \in 1..12 : k \in 0..12 /\ k # 0
  OBVIOUS
<1>11. QED
  BY <1>9, <1>10

(* A year of months is worth at least twelve of them, and more of a larger *)
(* target.                                                                 *)
LEMMA YearGrows ==
  ASSUME NEW t \in Nat
  PROVE  /\ Months(t)[12] \in Nat /\ Months(t + 1)[12] \in Nat
         /\ Months(t)[12] >= 10000 + 100 * t /\ Months(t)[12] <= Months(t + 1)[12]
<1>9. PICK g, h : g = Months(t) /\ h = Months(t + 1)
  OBVIOUS
<1> DEFINE Good(k) == /\ g[k] \in Nat /\ h[k] \in Nat /\ g[k] <= h[k] /\ 10000 <= g[k]
                      /\ k # 0 => g[k] >= 10000 + 100 * t
           Bad == {k \in 0..12 : ~Good(k)}
<1>1. g[0] = 10000 /\ \A k \in 1..12 : g[k] = (g[k - 1] * (100 + t)) \div 100
  BY <1>9, MonthsExist
<1>2. h[0] = 10000 /\ \A k \in 1..12 : h[k] = (h[k - 1] * (100 + (t + 1))) \div 100
  <2>1. t + 1 \in Nat
    OBVIOUS
  <2>2. QED
    BY <1>9, <2>1, MonthsExist
<1>3. Good(0)
  BY <1>1, <1>2
<1>4. ASSUME NEW k \in 1..12, Good(k - 1) PROVE Good(k)
  <2>1. PICK x \in Nat, y \in Nat : x = g[k - 1] /\ y = h[k - 1] /\ x <= y /\ 10000 <= x
    BY <1>4
  <2>2. /\ g[k] = (x * (100 + t)) \div 100 /\ h[k] = (y * (100 + (t + 1))) \div 100
    BY <1>1, <1>2, <2>1
  <2>3. /\ (x * (100 + t)) \div 100 \in Nat /\ (x * (100 + t)) \div 100 >= x + 100 * t
        /\ (x * (100 + t)) \div 100 <= (y * (100 + (t + 1))) \div 100
    BY <2>1, MonthGrows
  <2>4. (y * (100 + (t + 1))) \div 100 \in Nat
    <3>1. t + 1 \in Nat /\ y <= y /\ 10000 <= y
      BY <2>1
    <3>2. QED
      BY <3>1, MonthGrows
  <2>5. QED
    BY <2>1, <2>2, <2>3, <2>4
<1> HIDE DEF Good
<1>5. Good(12)
  <2>1. SUFFICES ASSUME ~Good(12) PROVE FALSE
    OBVIOUS
  <2>2. 12 \in Bad /\ Bad \subseteq Nat
    BY <2>1
  <2>3. PICK m \in Bad : \A e \in Bad : m <= e
    BY <2>2, LeastExists
  <2>4. m # 0 /\ m \in 0..12 /\ ~Good(m)
    BY <1>3, <2>3
  <2>5. m - 1 \in 0..12 /\ m - 1 \notin Bad /\ m \in 1..12
    BY <2>3, <2>4
  <2>6. Good(m - 1)
    BY <2>5
  <2>7. QED
    BY <1>4, <2>4, <2>5, <2>6
<1>6. QED
  BY <1>5, <1>9 DEF Good

(* The target in hundredths of a percent a year.                           *)
LEMMA YearlyIsMore ==
  ASSUME NEW t \in Nat
  PROVE  /\ Tools!Annualized("annual", t) = 100 * t
         /\ Tools!Annualized("monthly", t) \in Nat
         /\ Tools!Annualized("annual", t) <= Tools!Annualized("monthly", t)
         /\ Tools!Annualized("monthly", t) <= Tools!Annualized("monthly", t + 1)
<1>1. ASSUME NEW target PROVE Tools!Annualized("monthly", target) = Months(target)[12] - 10000
  BY DEF Tools!Annualized, Months, Year
<1>2. Tools!Annualized("annual", t) = 100 * t
  BY DEF Tools!Annualized
<1>3. PICK g, h : g = Months(t) /\ h = Months(t + 1)
  OBVIOUS
<1>4. g[12] \in Nat /\ h[12] \in Nat /\ g[12] >= 10000 + 100 * t /\ g[12] <= h[12]
  <2>1. Months(t)[12] \in Nat /\ Months(t + 1)[12] \in Nat
    BY YearGrows
  <2>2. Months(t)[12] >= 10000 + 100 * t
    BY YearGrows
  <2>3. Months(t)[12] <= Months(t + 1)[12]
    BY YearGrows
  <2>4. QED
    BY <1>3, <2>1, <2>2, <2>3
<1>5. /\ Tools!Annualized("monthly", t) = g[12] - 10000
      /\ Tools!Annualized("monthly", t + 1) = h[12] - 10000
  BY <1>1, <1>3
<1>6. QED
  BY <1>2, <1>4, <1>5

(* The rank of a verdict about a target.                                   *)
TargetRank(verdict) ==
  CHOOSE k \in 1..3 : <<"FEASIBLE", "RESEARCH_ONLY", "TARGET_NOT_FEASIBLE">>[k] = verdict

(* The three ranks.                                                        *)
LEMMA TargetRanks ==
  /\ TargetRank("FEASIBLE") = 1 /\ TargetRank("RESEARCH_ONLY") = 2 /\ TargetRank("TARGET_NOT_FEASIBLE") = 3
<1>1. PICK ranks : ranks = <<"FEASIBLE", "RESEARCH_ONLY", "TARGET_NOT_FEASIBLE">>
  OBVIOUS
<1>2. ranks[1] = "FEASIBLE" /\ ranks[2] = "RESEARCH_ONLY" /\ ranks[3] = "TARGET_NOT_FEASIBLE"
  BY <1>1
<1>3. \A v : TargetRank(v) = CHOOSE k \in 1..3 : ranks[k] = v
  BY <1>1 DEF TargetRank
<1>4. 1..3 = {1, 2, 3}
  OBVIOUS
<1>5. QED
  BY <1>2, <1>3, <1>4

(* Ranks follow the annualized return.                                     *)
LEMMA TargetsInOrder ==
  ASSUME NEW t \in Nat
  PROVE  /\ TargetRank(Tools!ReturnTarget("annual", t)) <= TargetRank(Tools!ReturnTarget("monthly", t))
         /\ TargetRank(Tools!ReturnTarget("monthly", t)) <= TargetRank(Tools!ReturnTarget("monthly", t + 1))
<1> DEFINE RankFor(a) == IF a > 10000 THEN 3 ELSE IF a > 3000 THEN 2 ELSE 1
<1>1. ASSUME NEW period \in {"monthly", "annual"}, NEW target
      PROVE  TargetRank(Tools!ReturnTarget(period, target)) = RankFor(Tools!Annualized(period, target))
  BY TargetRanks DEF Tools!ReturnTarget
<1>2. PICK a \in Int, b \in Int, c \in Int :
        /\ a = Tools!Annualized("annual", t) /\ b = Tools!Annualized("monthly", t)
        /\ c = Tools!Annualized("monthly", t + 1) /\ a <= b /\ b <= c
  <2>1. t + 1 \in Nat
    OBVIOUS
  <2>2. QED
    BY <2>1, YearlyIsMore
<1>3. RankFor(a) <= RankFor(b) /\ RankFor(b) <= RankFor(c)
  BY <1>2
<1>4. QED
  BY <1>1, <1>2, <1>3

(* An instrument of the master has the one profile of its asset class.     *)
LEMMA OneProfile ==
  ASSUME NEW registered \in SUBSET Instruments, NEW w, w.master = Master(registered), NEW i \in registered
  PROVE  Cardinality({assets \in {{"FUND", "ETF"}, {"EQUITY"}} : "ok" \in DOMAIN Tools!Profile(w, i, assets)}) = 1
<1>1. w.master # Nothing /\ DOMAIN w.master = registered
  BY NothingAssumption DEF Master
<1>2. ASSUME NEW assets PROVE "ok" \in DOMAIN Tools!Profile(w, i, assets) <=> i.asset \in assets
  <2>1. CASE i.asset \in assets
    <3>1. Tools!Profile(w, i, assets) = [ok |-> w.master[i]]
      BY <1>1, <2>1 DEF Tools!Profile, Tools!LookedUp
    <3>2. QED
      BY <2>1, <3>1
  <2>2. CASE i.asset \notin assets
    <3>1. Tools!Profile(w, i, assets) = [err |-> "UNSUPPORTED_ASSET"]
      BY <2>2 DEF Tools!Profile, Tools!Err
    <3>2. QED
      BY <2>2, <3>1
  <2>3. QED
    BY <2>1, <2>2
<1>3. i.asset \in {"EQUITY", "FUND"}
  BY DEF Instruments, Apple, Moutai, Fund
<1>4. PICK class : class = (IF i.asset = "EQUITY" THEN {"EQUITY"} ELSE {"FUND", "ETF"})
  OBVIOUS
<1>5. {assets \in {{"FUND", "ETF"}, {"EQUITY"}} : i.asset \in assets} = {class}
  <2>1. "EQUITY" \notin {"FUND", "ETF"} /\ "FUND" \notin {"EQUITY"}
    OBVIOUS
  <2>2. QED
    BY <1>3, <1>4, <2>1
<1>6. {assets \in {{"FUND", "ETF"}, {"EQUITY"}} : "ok" \in DOMAIN Tools!Profile(w, i, assets)} = {class}
  BY <1>2, <1>5
<1>7. Cardinality({class}) = 1
  BY FS_Singleton
<1>8. QED
  BY <1>6, <1>7

(* What a query resolves to.                                               *)
LEMMA ResolvedIsRegistered ==
  ASSUME NEW w, NEW query, NEW hint, NEW i \in Tools!InstrumentResolver(w, query, hint)
  PROVE  /\ i \in DOMAIN w.master
         /\ hint \in {Nothing, i.market} \/ query = i.id \/ query \in w.master[i].local
BY DEF Tools!InstrumentResolver

-----------------------------------------------------------------------------
(* What a proposal holds.                                                  *)

(* A set of sets that grows by single elements has every finite set.       *)
LEMMA SetInduction ==
  ASSUME NEW S, IsFiniteSet(S), NEW Good, {} \in Good,
         \A T \in SUBSET S : T # {} /\ (\A x \in T : T \ {x} \in Good) => T \in Good
  PROVE  S \in Good
<1>1. SUFFICES ASSUME S \notin Good PROVE FALSE
  OBVIOUS
<1> DEFINE Sizes == {n \in Nat : \E T \in SUBSET S : T \notin Good /\ Cardinality(T) = n}
<1>2. Sizes # {} /\ Sizes \subseteq Nat
  <2>1. Cardinality(S) \in Nat
    BY FS_CardinalityType
  <2>2. Cardinality(S) \in Sizes
    BY <1>1, <2>1
  <2>3. QED
    BY <2>2
<1>3. PICK n \in Sizes : \A m \in Sizes : n <= m
  BY <1>2, LeastExists
<1>4. PICK T \in SUBSET S : T \notin Good /\ Cardinality(T) = n
  OBVIOUS
<1>5. T # {}
  BY <1>4
<1>6. PICK y \in T : T \ {y} \notin Good
  <2>1. ~ \A x \in T : T \ {x} \in Good
    BY <1>4, <1>5
  <2>2. QED
    BY <2>1
<1>7. IsFiniteSet(T)
  BY FS_Subset
<1>8. Cardinality(T \ {y}) = n - 1 /\ n \in Nat /\ Cardinality(T \ {y}) \in Nat
  <2>1. Cardinality(T \ {y}) = Cardinality(T) - 1 /\ IsFiniteSet(T \ {y})
    BY <1>7, FS_RemoveElement
  <2>2. Cardinality(T \ {y}) \in Nat
    BY <2>1, FS_CardinalityType
  <2>3. QED
    BY <1>4, <2>1, <2>2
<1>9. n - 1 \in Sizes
  BY <1>6, <1>8
<1>10. QED
  BY <1>3, <1>8, <1>9

(* What FoldFunctionOnSet computes of a smaller set first.                 *)
Steps(f, S, g) ==
  [s \in SUBSET S |-> IF s = {} THEN 0 ELSE f[CHOOSE x \in s : TRUE] + g[s \ {CHOOSE x \in s : TRUE}]]

(* The function of the subsets that agrees with it.                        *)
Iterated(f, S) == CHOOSE g : g = Steps(f, S, g)

(* The sum of the library is the value of that function.                   *)
LEMMA SumUnfolds ==
  ASSUME NEW f, NEW S, S = DOMAIN f
  PROVE  Tools!P!SumFunction(f) = Iterated(f, S)[S]
BY DEF Tools!P!SumFunction, Tools!P!SumFunctionOnSet, Tools!P!FoldFunctionOnSet, Tools!P!MapThenFoldSet, Iterated, Steps

(* There is one, by the number of the elements.                            *)
LEMMA StepsExist ==
  ASSUME NEW f, NEW S, IsFiniteSet(S)
  PROVE  Iterated(f, S) = Steps(f, S, Iterated(f, S))
<1> DEFINE c(s) == CHOOSE x \in s : TRUE
           Right(g, s) == g[s] = IF s = {} THEN 0 ELSE f[c(s)] + g[s \ {c(s)}]
           Defined(g, n) == \A s \in SUBSET S : Cardinality(s) <= n => Right(g, s)
           Bad == {n \in Nat : ~ \E g : g = [s \in SUBSET S |-> g[s]] /\ Defined(g, n)}
<1>1. \A s \in SUBSET S : IsFiniteSet(s) /\ Cardinality(s) \in Nat /\ (s # {} => c(s) \in s /\ s \ {c(s)} \in SUBSET S)
  BY FS_Subset, FS_CardinalityType
<1>2. \A s \in SUBSET S : s # {} => Cardinality(s \ {c(s)}) = Cardinality(s) - 1
  BY <1>1, FS_RemoveElement
<1>3. \A s \in SUBSET S : Cardinality(s) = 0 => s = {}
  BY <1>1, FS_EmptySet
<1> HIDE DEF c
<1>4. 0 \notin Bad
  <2> DEFINE g == [s \in SUBSET S |-> 0]
  <2>1. Defined(g, 0)
    BY <1>1, <1>3
  <2>2. QED
    BY <2>1
<1>5. ASSUME NEW n \in Nat, n \notin Bad PROVE n + 1 \notin Bad
  <2>1. PICK g : g = [s \in SUBSET S |-> g[s]] /\ Defined(g, n)
    BY <1>5
  <2> DEFINE h == [s \in SUBSET S |-> IF s = {} THEN 0 ELSE f[c(s)] + g[s \ {c(s)}]]
  <2>2. ASSUME NEW s \in SUBSET S, Cardinality(s) <= n PROVE h[s] = g[s]
    BY <2>1, <2>2
  <2>3. ASSUME NEW s \in SUBSET S, Cardinality(s) <= n + 1 PROVE Right(h, s)
    <3>1. CASE s = {}
      BY <3>1
    <3>2. CASE s # {}
      <4>1. h[s] = f[c(s)] + g[s \ {c(s)}]
        BY <3>2
      <4>2. Cardinality(s \ {c(s)}) <= n
        BY <1>1, <1>2, <2>3, <3>2
      <4>3. h[s \ {c(s)}] = g[s \ {c(s)}]
        BY <1>1, <2>2, <3>2, <4>2
      <4>4. QED
        BY <3>2, <4>1, <4>3
    <3>3. QED
      BY <3>1, <3>2
  <2>4. h = [s \in SUBSET S |-> h[s]] /\ Defined(h, n + 1)
    BY <2>3
  <2>5. QED
    BY <2>4
<1> HIDE DEF Bad
<1>6. Bad = {}
  <2>1. SUFFICES ASSUME Bad # {} PROVE FALSE
    OBVIOUS
  <2>2. Bad \subseteq Nat
    BY DEF Bad
  <2>3. PICK n \in Bad : \A m \in Bad : n <= m
    BY <2>1, <2>2, LeastExists
  <2>4. n \in Nat /\ n # 0
    BY <1>4, <2>2
  <2>5. n - 1 \in Nat /\ n - 1 \notin Bad /\ (n - 1) + 1 = n
    BY <2>3, <2>4
  <2>6. QED
    BY <1>5, <2>5
<1>7. PICK g : g = [s \in SUBSET S |-> g[s]] /\ Defined(g, Cardinality(S))
  <2>1. Cardinality(S) \in Nat
    BY FS_CardinalityType
  <2>2. QED
    BY <1>6, <2>1 DEF Bad
<1>8. \A s \in SUBSET S : Right(g, s)
  <2>1. \A s \in SUBSET S : Cardinality(s) <= Cardinality(S)
    BY FS_Subset
  <2>2. QED
    BY <1>7, <2>1
<1>9. g = Steps(f, S, g)
  <2>1. Steps(f, S, g) = [s \in SUBSET S |-> g[s]]
    BY <1>8 DEF Steps, c
  <2>2. QED
    BY <1>7, <2>1
<1>10. QED
  BY <1>9 DEF Iterated

(* The sum of f over a set.                                                *)
SumOver(f, T) == Tools!P!SumFunction([i \in T |-> f[i]])

(* It depends on the values in the set alone.                              *)
LEMMA IteratedAgrees ==
  ASSUME NEW f, NEW S, IsFiniteSet(S), NEW T \in SUBSET S, NEW g, \A i \in T : g[i] = f[i]
  PROVE  Iterated(f, S)[T] = Iterated(g, T)[T]
<1> DEFINE Good == {U \in SUBSET T : Iterated(f, S)[U] = Iterated(g, T)[U]}
<1>1. IsFiniteSet(T)
  BY FS_Subset
<1>2. PICK big, small : /\ big = Iterated(f, S) /\ small = Iterated(g, T)
                        /\ big = Steps(f, S, big) /\ small = Steps(g, T, small)
  BY <1>1, StepsExist
<1>3. {} \in Good
  <2>1. big[{}] = 0 /\ small[{}] = 0
    BY <1>2 DEF Steps
  <2>2. QED
    BY <1>2, <2>1
<1>4. ASSUME NEW U \in SUBSET T, U # {}, U \ {CHOOSE x \in U : TRUE} \in Good PROVE U \in Good
  <2>1. PICK c \in U : c = CHOOSE x \in U : TRUE
    BY <1>4
  <2>2. big[U] = f[c] + big[U \ {c}]
    <3>1. U \in SUBSET S /\ U # {}
      OBVIOUS
    <3>2. QED
      BY <1>2, <2>1, <3>1 DEF Steps
  <2>3. small[U] = g[c] + small[U \ {c}]
    BY <1>2, <2>1, ZenonT(60) DEF Steps
  <2>4. f[c] = g[c] /\ big[U \ {c}] = small[U \ {c}]
    BY <1>2, <1>4, <2>1
  <2>5. QED
    BY <1>2, <2>2, <2>3, <2>4
<1> HIDE DEF Good
<1>5. ASSUME NEW U \in SUBSET T, U # {}, \A x \in U : U \ {x} \in Good PROVE U \in Good
  BY <1>4, <1>5
<1>6. T \in Good
  <2>1. QED
    BY <1>1, <1>3, <1>5, SetInduction
<1>7. QED
  BY <1>6 DEF Good

(* The sum as the fold takes it: by the element CHOOSE takes.              *)
LEMMA SumOfChosen ==
  ASSUME NEW f, NEW T, IsFiniteSet(T)
  PROVE  /\ T = {} => SumOver(f, T) = 0
         /\ T # {} => LET c == CHOOSE x \in T : TRUE IN SumOver(f, T) = f[c] + SumOver(f, T \ {c})
<1>1. ASSUME NEW U, U \in SUBSET T PROVE SumOver(f, U) = Iterated([i \in U |-> f[i]], U)[U]
  BY SumUnfolds DEF SumOver
<1>2. PICK h : h = [i \in T |-> f[i]]
  OBVIOUS
<1>3. PICK it : it = Iterated(h, T) /\ it = Steps(h, T, it)
  BY StepsExist
<1>4. SumOver(f, T) = it[T]
  BY <1>1, <1>2, <1>3
<1>5. ASSUME T = {} PROVE SumOver(f, T) = 0
  <2>1. it[{}] = 0
    BY <1>3 DEF Steps
  <2>2. QED
    BY <1>4, <1>5, <2>1
<1>6. ASSUME T # {}, NEW c \in T, c = CHOOSE x \in T : TRUE PROVE SumOver(f, T) = f[c] + SumOver(f, T \ {c})
  <2>1. it[T] = h[c] + it[T \ {c}]
    <3>1. T \in SUBSET T
      OBVIOUS
    <3>2. QED
      BY <1>3, <1>6, <3>1 DEF Steps
  <2>2. PICK U, k : U = T \ {c} /\ k = [i \in U |-> f[i]]
    OBVIOUS
  <2>3. U \in SUBSET T /\ \A i \in U : k[i] = h[i]
    BY <1>2, <2>2
  <2>4. Iterated(h, T)[U] = Iterated(k, U)[U]
    BY <2>3, IteratedAgrees
  <2>5. SumOver(f, U) = Iterated(k, U)[U]
    BY <1>1, <2>2, <2>3
  <2>6. h[c] = f[c]
    BY <1>2
  <2>7. QED
    BY <1>3, <1>4, <2>1, <2>2, <2>4, <2>5, <2>6
<1>7. QED
  BY <1>5, <1>6

(* A sum of natural numbers is one.                                             *)
LEMMA SumIsNat ==
  ASSUME NEW f, NEW S, IsFiniteSet(S), \A i \in S : f[i] \in Nat
  PROVE  SumOver(f, S) \in Nat
<1> DEFINE Good == {T \in SUBSET S : SumOver(f, T) \in Nat}
<1>1. {} \in Good
  <2>1. SumOver(f, {}) = 0
    BY SumOfChosen, FS_EmptySet
  <2>2. QED
    BY <2>1
<1>2. ASSUME NEW T \in SUBSET S, T # {}, \A x \in T : T \ {x} \in Good PROVE T \in Good
  <2>1. IsFiniteSet(T)
    BY FS_Subset
  <2>2. PICK c \in T : SumOver(f, T) = f[c] + SumOver(f, T \ {c})
    BY <1>2, <2>1, SumOfChosen
  <2>3. SumOver(f, T \ {c}) \in Nat /\ f[c] \in Nat
    BY <1>2
  <2>4. QED
    BY <2>2, <2>3
<1> HIDE DEF Good
<1>3. S \in Good
  BY <1>1, <1>2, SetInduction
<1>4. QED
  BY <1>3 DEF Good

(* Any element may be taken first.                                         *)
(* The larger and the smaller of two.                                      *)
LEMMA PairBounds ==
  ASSUME NEW a \in Int, NEW b \in Int
  PROVE  /\ Tools!P!Max({a, b}) = IF a >= b THEN a ELSE b
         /\ Tools!P!Min({a, b}) = IF a <= b THEN a ELSE b
<1>1. \A x \in {a, b} : (\A y \in {a, b} : x >= y) => x = IF a >= b THEN a ELSE b
  OBVIOUS
<1>2. \E x \in {a, b} : \A y \in {a, b} : x >= y
  OBVIOUS
<1>3. \A x \in {a, b} : (\A y \in {a, b} : x <= y) => x = IF a <= b THEN a ELSE b
  OBVIOUS
<1>4. \E x \in {a, b} : \A y \in {a, b} : x <= y
  OBVIOUS
<1>5. Tools!P!Max({a, b}) = IF a >= b THEN a ELSE b
  BY <1>1, <1>2 DEF Tools!P!Max
<1>6. Tools!P!Min({a, b}) = IF a <= b THEN a ELSE b
  BY <1>3, <1>4 DEF Tools!P!Min
<1>7. QED
  BY <1>5, <1>6

(* A weight cut to a cap, long-only.                                       *)
LEMMA CutWeight ==
  ASSUME NEW x \in Int, NEW cap \in Nat
  PROVE  Tools!P!Max({Tools!P!Min({x, cap}), 0}) \in 0..cap
<1>1. PICK y \in Int : y = Tools!P!Min({x, cap}) /\ y <= cap
  <2>1. cap \in Int
    OBVIOUS
  <2>2. Tools!P!Min({x, cap}) = IF x <= cap THEN x ELSE cap
    BY <2>1, PairBounds
  <2>3. QED
    BY <2>1, <2>2
<1>2. Tools!P!Max({y, 0}) = IF y >= 0 THEN y ELSE 0
  BY PairBounds
<1>3. QED
  BY <1>1, <1>2

(* The gross of weights that are whole numbers.                            *)
LEMMA GrossIsNat ==
  ASSUME NEW f, IsFiniteSet(DOMAIN f), \A i \in DOMAIN f : f[i] \in Nat
  PROVE  Tools!P!Total(f) \in Nat
<1>1. PICK size : size = [i \in DOMAIN f |-> Tools!P!Magnitude(f[i])]
  OBVIOUS
<1>2. \A i \in DOMAIN f : size[i] \in Nat
  BY <1>1 DEF Tools!P!Magnitude
<1>3. SumOver(size, DOMAIN f) \in Nat
  BY <1>2, SumIsNat
<1>4. [i \in DOMAIN f |-> size[i]] = size
  BY <1>1
<1>5. QED
  BY <1>1, <1>3, <1>4 DEF SumOver, Tools!P!Total

(* A part of what is allowed, of a part of the room.                       *)
LEMMA ScaledStays ==
  ASSUME NEW cap \in Nat, NEW x \in 0..cap, NEW gross \in Nat, NEW room \in 0..gross
  PROVE  x * room <= cap * gross
<1>1. x * room <= cap * room
  OBVIOUS
<1>2. cap * room <= cap * gross
  OBVIOUS
<1>3. x * room \in Int /\ cap * room \in Int /\ cap * gross \in Int
  OBVIOUS
<1>4. QED
  BY <1>1, <1>2, <1>3

(* The names of a proposal have positive scores and stay within the limit. *)
LEMMA ProposalKeepsNames ==
  ASSUME NEW S, IsFiniteSet(S), NEW scores \in [S -> Int], NEW maxName \in Nat \cup {Nothing},
         NEW target, target = Tools!CreateProposal(scores, maxName), NEW i \in DOMAIN target.weight
  PROVE  /\ scores[i] > 0
         /\ target.weight[i] <= (IF maxName = Nothing THEN 10 ELSE maxName) * target.unit
<1>1. PICK limit \in Nat : limit = IF maxName = Nothing THEN 10 ELSE maxName
  OBVIOUS
<1>2. PICK cfg : cfg = [maxName |-> limit, grossCap |-> 100, cashSleeve |-> 0, longOnly |-> TRUE,
                        topK |-> Tools!Cardinality(DOMAIN scores), minScore |-> 0]
  OBVIOUS
<1>3. target = Tools!P!BuildPortfolioFromScores(scores, cfg)
  BY <1>1, <1>2 DEF Tools!CreateProposal
<1>4. PICK used : used = Tools!P!Used(scores, cfg)
  OBVIOUS
<1>5. PICK kept : kept = Tools!P!Selected(scores, cfg) /\ kept \in SUBSET S /\ \A k \in kept : scores[k] > 0
  <2>1. cfg.longOnly = TRUE /\ cfg.minScore = 0 /\ DOMAIN scores = S
    BY <1>2
  <2>2. \A k \in Tools!P!Selected(scores, cfg) : k \in DOMAIN scores /\ scores[k] > cfg.minScore
    BY <2>1, Zenon DEF Tools!P!Selected
  <2>3. QED
    BY <2>1, <2>2
<1>6. DOMAIN used = kept /\ IsFiniteSet(kept) /\ \A k \in kept : used[k] \in Nat
  <2>1. used = [k \in kept |-> Tools!P!Max({scores[k], 0})]
    BY <1>2, <1>4, <1>5 DEF Tools!P!Used
  <2>2. IsFiniteSet(kept)
    BY <1>5, FS_Subset
  <2>3. ASSUME NEW k \in kept PROVE Tools!P!Max({scores[k], 0}) \in Nat
    <3>1. scores[k] \in Int
      BY <1>5
    <3>2. Tools!P!Max({scores[k], 0}) = IF scores[k] >= 0 THEN scores[k] ELSE 0
      BY <3>1, PairBounds
    <3>3. QED
      BY <3>1, <3>2
  <2>4. QED
    BY <2>1, <2>2, <2>3
<1>7. PICK total \in Nat : total = IF Tools!P!Total(used) = 0 THEN 1 ELSE Tools!P!Total(used)
  <2>1. Tools!P!Total(used) \in Nat
    BY <1>6, GrossIsNat
  <2>2. QED
    BY <2>1
<1>8. PICK cap \in Nat, room \in Nat : cap = limit * total /\ room = 100 * total
  OBVIOUS
<1>9. Tools!P!Available(cfg) = 100
  <2>1. Tools!P!Available(cfg) = Tools!P!Max({100 - 0, 0})
    BY <1>2 DEF Tools!P!Available
  <2>2. 100 - 0 = 100
    OBVIOUS
  <2>3. Tools!P!Max({100, 0}) = 100
    BY PairBounds
  <2>4. QED
    BY <2>1, <2>2, <2>3
<1>10. PICK raw : raw = [k \in DOMAIN used |-> used[k] * Tools!P!Available(cfg)]
  OBVIOUS
<1>11. PICK clipped : clipped = Tools!P!Clipped(raw, total, cfg)
  OBVIOUS
<1>12. DOMAIN clipped = kept /\ \A k \in kept : clipped[k] \in 0..cap
  <2>1. DOMAIN raw = kept /\ \A k \in kept : raw[k] \in Int
    BY <1>6, <1>9, <1>10
  <2>2. clipped = [k \in kept |-> Tools!P!Max({Tools!P!Min({raw[k], cap}), 0})]
    BY <1>2, <1>8, <1>11, <2>1 DEF Tools!P!Clipped
  <2>3. QED
    BY <2>1, <2>2, CutWeight
<1>13. PICK gross \in Nat : gross = Tools!P!Total(clipped)
  <2>1. \A k \in kept : clipped[k] \in Nat
    BY <1>12
  <2>2. QED
    BY <1>6, <1>12, <2>1, GrossIsNat
<1>14. \/ target = Tools!P!AllCash
       \/ target = [weight |-> clipped, unit |-> total]
       \/ gross > room /\ target = [weight |-> [k \in kept |-> clipped[k] * room], unit |-> total * gross]
  <2>1. CASE used = <<>>
    BY <1>3, <1>4, <2>1 DEF Tools!P!BuildPortfolioFromScores
  <2>2. CASE used # <<>>
    <3>1. target = Tools!P!Target(used, total, cfg)
      BY <1>3, <1>4, <1>7, <2>2 DEF Tools!P!BuildPortfolioFromScores
    <3>2. QED
      BY <1>6, <1>8, <1>9, <1>10, <1>11, <1>13, <3>1 DEF Tools!P!Target
  <2>3. QED
    BY <2>1, <2>2
<1>15. CASE target = Tools!P!AllCash
  BY <1>15 DEF Tools!P!AllCash
<1>16. CASE target = [weight |-> clipped, unit |-> total]
  <2>1. i \in kept /\ target.weight[i] \in 0..cap /\ limit * target.unit = cap
    BY <1>8, <1>12, <1>16
  <2>2. QED
    BY <1>1, <1>5, <2>1
<1>17. CASE gross > room /\ target = [weight |-> [k \in kept |-> clipped[k] * room], unit |-> total * gross]
  <2>1. i \in kept /\ clipped[i] \in 0..cap /\ target.weight[i] = clipped[i] * room /\ room \in 0..gross
    BY <1>12, <1>17
  <2>2. clipped[i] * room <= cap * gross
    BY <2>1, ScaledStays
  <2>3. limit * target.unit = cap * gross
    <3>1. target.unit = total * gross
      BY <1>17
    <3>2. limit * (total * gross) = (limit * total) * gross
      OBVIOUS
    <3>3. QED
      BY <1>8, <3>1, <3>2
  <2>4. QED
    BY <1>1, <1>5, <2>1, <2>2, <2>3
<1>18. QED
  BY <1>14, <1>15, <1>16, <1>17

-----------------------------------------------------------------------------
(* What an instrument is told of its bars.                                 *)

(* The bars of an input: few, and each with a price.                       *)
IsBar(b) == b.date \in Int /\ b.available \in 1..3 /\ b.close \in Nat \ {0}

(* A choice of bars is finite, and each is a bar.                          *)
LEMMA FewBars ==
  ASSUME NEW i, NEW days \in {{1, 2}, {2}}, NEW closes \in {{1, 2, 4}, {1, 2}, {1}},
         NEW bars \in BarsOf(i, days, closes)
  PROVE  IsFiniteSet(bars) /\ \A b \in bars : IsBar(b) /\ b.instrument = i
<1>1. PICK choice \in [days -> {<<>>} \cup ((1..3) \X closes)] :
        bars = UNION {IF choice[d] = <<>> THEN {}
                      ELSE {[instrument |-> i, date |-> d, available |-> choice[d][1], close |-> choice[d][2]]}
                      : d \in days}
  BY DEF BarsOf
<1>2. ASSUME NEW b \in bars
      PROVE  /\ b.date \in days /\ choice[b.date] # <<>>
             /\ b = [instrument |-> i, date |-> b.date, available |-> choice[b.date][1],
                     close |-> choice[b.date][2]]
  <2>1. PICK d \in days : b \in IF choice[d] = <<>> THEN {}
          ELSE {[instrument |-> i, date |-> d, available |-> choice[d][1], close |-> choice[d][2]]}
    BY <1>1
  <2>2. /\ choice[d] # <<>>
        /\ b = [instrument |-> i, date |-> d, available |-> choice[d][1], close |-> choice[d][2]]
    BY <2>1
  <2>3. b.date = d
    BY <2>2
  <2>4. QED
    BY <2>2, <2>3
<1>3. ASSUME NEW b \in bars PROVE IsBar(b) /\ b.instrument = i
  <2>1. choice[b.date] \in (1..3) \X closes
    BY <1>1, <1>2
  <2>2. b.date \in Int
    BY <1>2
  <2>3. b.available = choice[b.date][1] /\ b.close = choice[b.date][2] /\ b.instrument = i
    BY <1>2
  <2>4. choice[b.date][1] \in 1..3 /\ choice[b.date][2] \in Nat \ {0}
    BY <2>1
  <2>5. QED
    BY <2>2, <2>3, <2>4 DEF IsBar
<1>4. IsFiniteSet(bars)
  <2>1. PICK day : day = [b \in bars |-> b.date]
    OBVIOUS
  <2>2. day \in [bars -> days]
    BY <1>2, <2>1
  <2>3. \A a, b \in bars : day[a] = day[b] => a = b
    <3>1. ASSUME NEW a \in bars, NEW b \in bars, a.date = b.date PROVE a = b
      BY <1>2, <3>1
    <3>2. QED
      BY <2>1, <3>1
  <2>4. day \in Injection(bars, days)
    BY <2>2, <2>3 DEF Injection, IsInjective
  <2>5. IsFiniteSet(days)
    <3>1. IsFiniteSet({2})
      BY FS_Singleton
    <3>4. IsFiniteSet({2} \cup {1})
      BY <3>1, FS_AddElement
    <3>2. {2} \cup {1} = {1, 2}
      OBVIOUS
    <3>3. QED
      BY <3>1, <3>2, <3>4
  <2>6. QED
    BY <2>4, <2>5, FS_Injection
<1>5. QED
  BY <1>3, <1>4

(* A finite set as a sequence.                                             *)
LEMMA InSequence ==
  ASSUME NEW S, IsFiniteSet(S), NEW s, s = Tools!SetToSeq(S)
  PROVE  Cardinality(S) \in Nat /\ s \in [1..Cardinality(S) -> S]
<1>1. Cardinality(S) \in Nat /\ ExistsBijection(1..Cardinality(S), S)
  BY FS_CardinalityType
<1>2. PICK f \in [1..Cardinality(S) -> S] : Tools!IsInjective(f)
  <2>1. PICK f : f \in Bijection(1..Cardinality(S), S)
    BY <1>1 DEF ExistsBijection
  <2>2. f \in [1..Cardinality(S) -> S] /\ \A a, b \in DOMAIN f : f[a] = f[b] => a = b
    BY <2>1 DEF Bijection, Injection, IsInjective
  <2>3. QED
    BY <2>2 DEF Tools!IsInjective
<1>3. s = CHOOSE g \in [1..Cardinality(S) -> S] : Tools!IsInjective(g)
  <2>1. Tools!Cardinality(S) = Cardinality(S)
    BY SameCount
  <2>2. QED
    BY <2>1 DEF Tools!SetToSeq
<1>4. s \in [1..Cardinality(S) -> S]
  BY <1>2, <1>3
<1>5. QED
  BY <1>1, <1>4

(* The visible bars in the order of their dates.                           *)
LEMMA VisibleInOrder ==
  ASSUME NEW n \in Nat, NEW bars, DOMAIN bars = 1..n, \A k \in 1..n : IsBar(bars[k]), NEW asOf \in Int,
         NEW order, order = Tools!F!Sorted(Tools!F!Visible(bars, asOf), Tools!F!ByDate(bars))
  PROVE  \E size \in 0..n : /\ order \in [1..size -> 1..n]
                            /\ (\A k \in 1..n : bars[k].available <= asOf) => size = n
<1>1. PICK seen : seen = Tools!F!Visible(bars, asOf)
  OBVIOUS
<1>2. seen \in SUBSET (1..n) /\ IsFiniteSet(1..n) /\ Cardinality(1..n) = n
  <2>1. seen \in SUBSET (1..n)
    BY <1>1 DEF Tools!F!Visible
  <2>2. IsFiniteSet(1..n) /\ Cardinality(1..n) = IF 1 > n THEN 0 ELSE n - 1 + 1
    BY FS_Interval
  <2>3. (IF 1 > n THEN 0 ELSE n - 1 + 1) = n
    OBVIOUS
  <2>4. QED
    BY <2>1, <2>2, <2>3
<1>3. PICK size \in 0..n : IsFiniteSet(seen) /\ size = Cardinality(seen)
  <2>1. IsFiniteSet(seen) /\ Cardinality(seen) <= n
    <3>1. PICK all : all = 1..n
      OBVIOUS
    <3>2. seen \in SUBSET all /\ IsFiniteSet(all) /\ Cardinality(all) = n
      BY <1>2, <3>1
    <3>3. IsFiniteSet(seen) /\ Cardinality(seen) <= Cardinality(all)
      BY <3>2, FS_Subset
    <3>4. QED
      BY <3>2, <3>3
  <2>2. Cardinality(seen) \in Nat
    BY <2>1, FS_CardinalityType
  <2>3. QED
    BY <2>1, <2>2
<1>4. PICK before : before = Tools!F!ByDate(bars)
  OBVIOUS
<1>5. ASSUME NEW i \in 1..n, NEW j \in 1..n
      PROVE  <<i, j>> \in before <=> \/ bars[i].date < bars[j].date
                                     \/ bars[i].date = bars[j].date /\ i < j
  BY <1>4 DEF Tools!F!ByDate
<1>6. TotalOrder(seen, before)
  <2>1. \A i \in 1..n : bars[i].date \in Int
    BY DEF IsBar
  <2>2. ASSUME NEW i \in seen PROVE <<i, i>> \notin before
    BY <1>2, <1>5, <2>1
  <2>3. ASSUME NEW i \in seen, NEW j \in seen, i # j PROVE <<i, j>> \in before \/ <<j, i>> \in before
    BY <1>2, <1>5, <2>1, <2>3
  <2>4. ASSUME NEW i \in seen, NEW j \in seen, NEW k \in seen, <<i, j>> \in before, <<j, k>> \in before
        PROVE  <<i, k>> \in before
    <3>1. i \in 1..n /\ j \in 1..n /\ k \in 1..n
      BY <1>2
    <3>2. PICK a \in Int, b \in Int, c \in Int : a = bars[i].date /\ b = bars[j].date /\ c = bars[k].date
      BY <2>1, <3>1
    <3>3. (a < b \/ (a = b /\ i < j)) /\ (b < c \/ (b = c /\ j < k))
      BY <1>5, <2>4, <3>1, <3>2
    <3>4. a < c \/ (a = c /\ i < k)
      BY <3>1, <3>3
    <3>5. QED
      BY <1>5, <3>1, <3>2, <3>4
  <2>5. QED
    BY <2>2, <2>3, <2>4 DEF TotalOrder
<1>7. order \in [1..size -> seen]
  <2>1. order = Tools!F!Sorted(seen, before)
    BY <1>1, <1>4
  <2>2. QED
    BY <1>3, <1>6, <2>1, SortedInOrder
<1>8. ASSUME \A k \in 1..n : bars[k].available <= asOf PROVE size = n
  <2>1. seen = 1..n
    BY <1>1, <1>8 DEF Tools!F!Visible
  <2>2. QED
    BY <1>2, <1>3, <2>1
<1>9. QED
  BY <1>2, <1>7, <1>8

(* A return is missing, or a fraction.                                     *)
IsReturn(v) == v = <<>> \/ \E n \in Int, d \in Nat \ {0} : v = <<n, d>>

(* The feature of the service, of the visible bars.                        *)
OneDay(seen) == Tools!F!ValueOf("ret", 1, seen, FALSE, <<>>)

Features(bars, asOf) == Tools!F!Computed({"ret"}, 1, bars, asOf, FALSE, <<>>)

(* The one-day return of two bars or more.                                 *)
LEMMA ReturnOfBars ==
  ASSUME NEW size \in Nat, NEW Some, NEW bars \in Seq(Some), Len(bars) = size,
         \A k \in 1..size : IsBar(bars[k]),
         NEW v, v = OneDay(bars)
  PROVE  IsReturn(v) /\ (size >= 2 => v # <<>>)
<1>1. PICK recent : recent = Tools!F!Recent(bars, 2)
  OBVIOUS
<1>2. v = Tools!F!Ret(recent, 1)
  <2>1. "ret" \in Tools!F!OfBars /\ "ret" \notin Tools!F!OfFacts
    BY DEF Tools!F!OfBars, Tools!F!OfFacts
  <2>2. Tools!F!Lookback("ret", 1) = 2
    BY <2>1 DEF Tools!F!Lookback
  <2>3. Tools!F!Technical("ret", recent, 1) = Tools!F!Ret(recent, 1)
    BY DEF Tools!F!Technical
  <2>4. QED
    BY <1>1, <2>1, <2>2, <2>3 DEF Tools!F!ValueOf, OneDay
<1>3. PICK first \in Int : first = Tools!F!Max({1, size + 1 - 2}) /\ first = IF size >= 2 THEN size - 1 ELSE 1
  <2>1. PICK a \in Int : a = size + 1 - 2
    OBVIOUS
  <2>2. \A x \in {1, a} : (\A y \in {1, a} : x >= y) => x = IF 1 >= a THEN 1 ELSE a
    OBVIOUS
  <2>3. \E x \in {1, a} : \A y \in {1, a} : x >= y
    OBVIOUS
  <2>4. Tools!F!Max({1, a}) = IF 1 >= a THEN 1 ELSE a
    BY <2>2, <2>3 DEF Tools!F!Max
  <2>5. (IF 1 >= a THEN 1 ELSE a) = IF size >= 2 THEN size - 1 ELSE 1
    BY <2>1
  <2>6. QED
    BY <2>1, <2>4, <2>5
<1>4. recent = SubSeq(bars, first, size)
  BY <1>1, <1>3 DEF Tools!F!Recent
<1>5. CASE size < 2
  <2>1. Len(recent) < 2
    BY <1>3, <1>4, <1>5
  <2>2. Tools!F!Ret(recent, 1) = <<>>
    BY <2>1 DEF Tools!F!Ret, Tools!F!Missing
  <2>3. v = <<>> /\ ~ (size >= 2)
    BY <1>2, <1>5, <2>2
  <2>4. QED
    BY <2>3 DEF IsReturn
<1>6. CASE size >= 2
  <2>1. Len(recent) = 2 /\ recent[1] = bars[size - 1] /\ recent[2] = bars[size]
    BY <1>3, <1>4, <1>6
  <2>2. Tools!F!Back(recent, 1) = bars[size] /\ Tools!F!Back(recent, 2) = bars[size - 1]
    BY <2>1 DEF Tools!F!Back
  <2>3. Tools!F!Ret(recent, 1) = Tools!F!Ratio(bars[size].close - bars[size - 1].close, bars[size - 1].close)
    BY <2>1, <2>2 DEF Tools!F!Ret
  <2>4. PICK c \in Nat \ {0}, b \in Nat \ {0} : c = bars[size].close /\ b = bars[size - 1].close
    <3>1. size \in 1..size /\ size - 1 \in 1..size
      BY <1>6
    <3>2. IsBar(bars[size]) /\ IsBar(bars[size - 1])
      BY <3>1
    <3>3. QED
      BY <3>2 DEF IsBar
  <2>5. Tools!F!Ret(recent, 1) = <<c - b, b>> /\ c - b \in Int
    BY <2>3, <2>4 DEF Tools!F!Ratio
  <2>6. PICK a \in Int, d \in Nat \ {0} : v = <<a, d>>
    BY <1>2, <2>4, <2>5
  <2>7. v # <<>>
    BY <2>6
  <2>8. QED
    BY <2>6, <2>7 DEF IsReturn
<1>7. QED
  BY <1>5, <1>6

(* The features a score is made of.                                        *)
LEMMA FeaturesOfBars ==
  ASSUME NEW n \in Nat, NEW bars, DOMAIN bars = 1..n, \A k \in 1..n : IsBar(bars[k]), NEW asOf \in Int,
         NEW v, v = Features(bars, asOf)
  PROVE  /\ v # Tools!F!NoBars => IsReturn(v["ret"])
         /\ n >= 2 /\ (\A k \in 1..n : bars[k].available <= asOf) => v # Tools!F!NoBars /\ v["ret"] # <<>>
<1>1. PICK order, seen : /\ order = Tools!F!Sorted(Tools!F!Visible(bars, asOf), Tools!F!ByDate(bars))
                         /\ seen = [k \in DOMAIN order |-> bars[order[k]]]
  OBVIOUS
<1>2. PICK size \in 0..n : /\ order \in [1..size -> 1..n]
                           /\ (\A k \in 1..n : bars[k].available <= asOf) => size = n
  BY <1>1, VisibleInOrder
<1>3. PICK Some : /\ size \in Nat /\ seen \in Seq(Some) /\ Len(seen) = size
                  /\ \A k \in 1..size : IsBar(seen[k])
  <2>1. seen = [k \in 1..size |-> bars[order[k]]] /\ \A k \in 1..size : seen[k] = bars[order[k]]
    BY <1>1, <1>2
  <2>2. seen \in [1..size -> {seen[k] : k \in 1..size}]
    BY <2>1
  <2>3. \A k \in 1..size : order[k] \in 1..n
    BY <1>2
  <2>4. \A k \in 1..size : IsBar(seen[k])
    BY <2>1, <2>3
  <2>5. size \in Nat
    BY <1>2
  <2>6. PICK Some : seen \in Seq(Some) /\ Len(seen) = size
    <3>1. PICK all : all = {seen[k] : k \in 1..size}
      OBVIOUS
    <3>2. seen \in [1..size -> all]
      BY <2>2, <3>1
    <3>3. seen \in Seq(all) /\ Len(seen) = size
      BY <2>5, <3>2
    <3>4. QED
      BY <3>3
  <2>7. QED
    BY <2>4, <2>5, <2>6
<1>4. v = IF seen = <<>> THEN Tools!F!NoBars
          ELSE [name \in {"ret"} |-> OneDay(seen)]
  BY <1>1 DEF Tools!F!Computed, Features, OneDay
<1>5. PICK ret : /\ ret = OneDay(seen)
                 /\ IsReturn(ret) /\ (size >= 2 => ret # <<>>)
  BY <1>3, ReturnOfBars
<1>6. CASE seen = <<>>
  <2>1. size = 0
    BY <1>3, <1>6
  <2>2. v = Tools!F!NoBars
    BY <1>4, <1>6
  <2>3. ~ (n >= 2 /\ (\A k \in 1..n : bars[k].available <= asOf))
    BY <1>2, <2>1
  <2>4. QED
    BY <2>2, <2>3
<1>7. CASE seen # <<>>
  <2>1. v = [name \in {"ret"} |-> OneDay(seen)]
    BY <1>4, <1>7
  <2>2. v["ret"] = ret /\ DOMAIN v = {"ret"}
    BY <1>5, <2>1
  <2>3. v # Tools!F!NoBars
    <3>1. DOMAIN Tools!F!NoBars = {"raised"}
      BY DEF Tools!F!NoBars
    <3>2. QED
      BY <2>2, <3>1
  <2>4. QED
    BY <1>2, <1>5, <2>2, <2>3
<1>8. QED
  BY <1>6, <1>7

(* The tables an answer is made of.                                        *)
IsWorld(w) == IsFiniteSet(w.bars) /\ \A b \in w.bars : IsBar(b)

(* The bars an instrument has until a day.                                 *)
Found(w, i, last, asOf) ==
  {b \in w.bars : b.instrument = i /\ b.date <= last /\ (asOf # Nothing => b.available <= asOf)}

(* What is found is a sequence of bars in the order of their dates.        *)
LEMMA FoundInSequence ==
  ASSUME NEW w, IsWorld(w), NEW i, NEW last, NEW asOf, NEW s, s = Tools!BarLookup(w, i, last, asOf)
  PROVE  \E n \in Nat : DOMAIN s = 1..n /\ Len(s) = n /\ \A k \in 1..n : IsBar(s[k]) /\ s[k] \in w.bars
<1>1. PICK S : S = Found(w, i, last, asOf)
  OBVIOUS
<1>2. S \in SUBSET w.bars /\ IsFiniteSet(S)
  <2>1. S \in SUBSET w.bars
    BY <1>1 DEF Found
  <2>2. QED
    BY <2>1, FS_Subset DEF IsWorld
<1>3. s = Tools!SetToSeq(S)
  BY <1>1 DEF Tools!BarLookup, Found
<1>4. Cardinality(S) \in Nat /\ s \in [1..Cardinality(S) -> S]
  BY <1>2, <1>3, InSequence
<1>5. PICK n \in Nat : n = Cardinality(S)
  BY <1>4
<1>6. s \in [1..n -> S]
  BY <1>4, <1>5
<1>7. DOMAIN s = 1..n /\ Len(s) = n
  BY <1>6
<1>8. \A k \in 1..n : s[k] \in S
  BY <1>6
<1>9. QED
  BY <1>2, <1>7, <1>8 DEF IsWorld

IsScore(s) == \E n \in Int, d \in Nat \ {0} : s = <<n, d>>

Reasons == {"no_production_model", "feature_hash_mismatch", "no_artifact", "missing_feature"}

(* What an instrument may be told.                                         *)
IsAnswer(r) ==
  \/ r = Tools!Raised
  \/ \E reason \in Reasons : r = Tools!NoForecast(reason)
  \/ \E s, fx : IsScore(s) /\ r = Tools!Forecast(s, fx)

(* An answer says what kind it is.                                         *)
LEMMA AnswerKinds ==
  /\ Tools!Raised.kind = "raised"
  /\ \A reason : Tools!NoForecast(reason).kind = "no_forecast" /\ Tools!NoForecast(reason).reason = reason
  /\ \A s, fx : /\ Tools!Forecast(s, fx).kind = "forecast" /\ Tools!Forecast(s, fx).score = s
                /\ Tools!Forecast(s, fx).fx = fx /\ (fx = <<0, 0>> => Tools!Forecast(s, fx).base = s)
<1>1. Tools!P!NoRate = <<0, 0>>
  BY DEF Tools!P!NoRate
<1>2. QED
  BY <1>1 DEF Tools!Raised, Tools!NoForecast, Tools!Forecast

(* What the score is made of.                                              *)
LEMMA ScoreIs ==
  ASSUME NEW w, NEW i, NEW asOf, NEW bars, bars = Tools!BarLookup(w, i, asOf, asOf),
         NEW model, model = w.production[i.market],
         NEW v, v = Features(bars, asOf),
         NEW r, r = Tools!ForecastRun(w, i, asOf)
  PROVE  r = IF model = Nothing THEN Tools!NoForecast("no_production_model")
             ELSE IF model.hash # w.hash THEN Tools!NoForecast("feature_hash_mismatch")
             ELSE IF model.artifact # "model" THEN Tools!NoForecast("no_artifact")
             ELSE IF v = Tools!F!NoBars THEN Tools!Raised
             ELSE IF v["ret"] = <<>> THEN Tools!NoForecast("missing_feature")
             ELSE Tools!Forecast(v["ret"], Tools!CurrencyReturn(w, i, asOf, 1))
<1>1. Tools!F!Missing = <<>>
  BY DEF Tools!F!Missing
<1>2. r = Tools!Score(w, i, bars, asOf)
  BY DEF Tools!ForecastRun
<1>3. QED
  BY <1>1, <1>2, Zenon DEF Tools!Score, Features

(* Every instrument gets an answer.                                        *)
LEMMA Answered ==
  ASSUME NEW w, IsWorld(w), NEW i, NEW asOf \in Int, NEW r, r = Tools!ForecastRun(w, i, asOf)
  PROVE  /\ IsAnswer(r)
         /\ r = Tools!NoForecast("no_production_model") <=> w.production[i.market] = Nothing
         /\ Len(Tools!BarLookup(w, i, asOf, asOf)) >= 2 /\ (\A b \in w.bars : b.available <= asOf)
              => r # Tools!NoForecast("missing_feature")
<1>1. PICK bars, model, v, fx : /\ bars = Tools!BarLookup(w, i, asOf, asOf) /\ model = w.production[i.market]
                                /\ v = Features(bars, asOf) /\ fx = Tools!CurrencyReturn(w, i, asOf, 1)
  OBVIOUS
<1>2. r = IF model = Nothing THEN Tools!NoForecast("no_production_model")
          ELSE IF model.hash # w.hash THEN Tools!NoForecast("feature_hash_mismatch")
          ELSE IF model.artifact # "model" THEN Tools!NoForecast("no_artifact")
          ELSE IF v = Tools!F!NoBars THEN Tools!Raised
          ELSE IF v["ret"] = <<>> THEN Tools!NoForecast("missing_feature")
          ELSE Tools!Forecast(v["ret"], fx)
  BY <1>1, ScoreIs
<1>3. PICK n \in Nat : DOMAIN bars = 1..n /\ Len(bars) = n /\ \A k \in 1..n : IsBar(bars[k]) /\ bars[k] \in w.bars
  BY <1>1, FoundInSequence
<1>4. /\ v # Tools!F!NoBars => IsReturn(v["ret"])
      /\ n >= 2 /\ (\A k \in 1..n : bars[k].available <= asOf) => v # Tools!F!NoBars /\ v["ret"] # <<>>
  BY <1>1, <1>3, FeaturesOfBars
<1>5. v # Tools!F!NoBars /\ v["ret"] # <<>> => IsScore(v["ret"])
  BY <1>4 DEF IsReturn, IsScore
<1>6. IsAnswer(r)
  BY <1>2, <1>5 DEF IsAnswer, Reasons
<1>7. ASSUME NEW a \in Reasons, NEW b \in Reasons, a # b PROVE Tools!NoForecast(a) # Tools!NoForecast(b)
  BY <1>7, AnswerKinds
<1>8. ASSUME NEW a, NEW s, NEW f PROVE Tools!NoForecast(a) # Tools!Raised /\ Tools!NoForecast(a) # Tools!Forecast(s, f)
  BY AnswerKinds
<1>9. r = Tools!NoForecast("no_production_model") <=> model = Nothing
  BY <1>2, <1>7, <1>8 DEF Reasons
<1>10. ASSUME Len(bars) >= 2, \A b \in w.bars : b.available <= asOf
       PROVE  r # Tools!NoForecast("missing_feature")
  <2>1. v # Tools!F!NoBars /\ v["ret"] # <<>>
    BY <1>3, <1>4, <1>10
  <2>2. QED
    BY <1>2, <1>7, <1>8, <2>1 DEF Reasons
<1>11. QED
  BY <1>1, <1>6, <1>9, <1>10

-----------------------------------------------------------------------------
(* A screen and a batch.                                                   *)

(* The order of fractions.                                                 *)
LEMMA FractionOrder ==
  ASSUME NEW a \in Int, NEW b \in Int, NEW c \in Int,
         NEW p \in Nat \ {0}, NEW q \in Nat \ {0}, NEW r \in Nat \ {0},
         a * q >= b * p, b * r >= c * q
  PROVE  /\ a * r >= c * p
         /\ a * q > b * p \/ b * r > c * q => a * r > c * p
<1>1. PICK aq \in Int, bp \in Int, br \in Int, cq \in Int, ar \in Int, cp \in Int :
        /\ aq = a * q /\ bp = b * p /\ br = b * r /\ cq = c * q /\ ar = a * r /\ cp = c * p
  OBVIOUS
<1>2. aq * r = ar * q /\ bp * r = br * p /\ cq * p = cp * q
  BY <1>1
<1>3. aq * r >= bp * r /\ br * p >= cq * p
  BY <1>1
<1>4. ar * q >= cp * q
  <2>1. aq * r \in Int /\ bp * r \in Int /\ br * p \in Int /\ cq * p \in Int /\ ar * q \in Int /\ cp * q \in Int
    OBVIOUS
  <2>2. QED
    BY <1>2, <1>3, <2>1
<1>5. ar >= cp
  <2>1. SUFFICES ASSUME ar + 1 <= cp PROVE FALSE
    OBVIOUS
  <2>2. (ar + 1) * q <= cp * q
    BY <2>1
  <2>3. (ar + 1) * q = ar * q + q
    OBVIOUS
  <2>4. ar * q \in Int /\ cp * q \in Int
    OBVIOUS
  <2>5. QED
    BY <1>4, <2>2, <2>3, <2>4
<1>6. ASSUME aq > bp \/ br > cq PROVE ar # cp
  <2>1. SUFFICES ASSUME ar = cp PROVE FALSE
    OBVIOUS
  <2>2. aq * r = bp * r /\ br * p = cq * p
    <3>1. aq * r \in Int /\ bp * r \in Int /\ br * p \in Int /\ cq * p \in Int
      OBVIOUS
    <3>2. QED
      BY <1>2, <1>3, <2>1, <3>1
  <2>3. CASE aq > bp
    <3>1. aq * r > bp * r
      BY <2>3
    <3>2. QED
      BY <2>2, <3>1
  <2>4. CASE br > cq
    <3>1. br * p > cq * p
      BY <2>4
    <3>2. QED
      BY <2>2, <3>1
  <2>5. QED
    BY <1>6, <2>3, <2>4
<1>7. QED
  BY <1>1, <1>5, <1>6

(* The forecasts in the order of their scores.                             *)
ByScore(f) ==
  {p \in (DOMAIN f) \X (DOMAIN f) :
     \/ Tools!Better(f[p[1]], f[p[2]])
     \/ ~Tools!Better(f[p[2]], f[p[1]]) /\ p[1] < p[2]}

(* Two answers with scores are before or after each other.                 *)
LEMMA ScoresInOrder ==
  ASSUME NEW n \in Nat, NEW f, DOMAIN f = 1..n, \A m \in 1..n : IsScore(f[m].result.score)
  PROVE  /\ \A k, l \in 1..n : Tools!Better(f[l], f[k]) => <<l, k>> \in ByScore(f)
         /\ TotalOrder(1..n, ByScore(f))
<1>1. PICK x, y : x = [m \in 1..n |-> f[m].result.score[1]] /\ y = [m \in 1..n |-> f[m].result.score[2]]
  OBVIOUS
<1>2. \A m \in 1..n : x[m] \in Int /\ y[m] \in Nat \ {0}
  <2>1. ASSUME NEW m \in 1..n PROVE x[m] \in Int /\ y[m] \in Nat \ {0}
    <3>1. PICK a \in Int, d \in Nat \ {0} : f[m].result.score = <<a, d>>
      BY DEF IsScore
    <3>2. x[m] = a /\ y[m] = d
      BY <1>1, <3>1
    <3>3. QED
      BY <3>2
  <2>2. QED
    BY <2>1
<1>3. \A k, l \in 1..n : Tools!Better(f[l], f[k]) <=> x[l] * y[k] > x[k] * y[l]
  BY <1>1 DEF Tools!Better
<1>4. PICK before : before = ByScore(f)
  OBVIOUS
<1>5. \A k, l \in 1..n : <<l, k>> \in before <=> \/ x[l] * y[k] > x[k] * y[l]
                                                 \/ ~ (x[k] * y[l] > x[l] * y[k]) /\ l < k
  BY <1>3, <1>4 DEF ByScore
<1>6. \A k, l \in 1..n : x[l] * y[k] \in Int
  BY <1>2
<1>7. \A k \in 1..n : <<k, k>> \notin before
  BY <1>5, <1>6
<1>8. \A k, l \in 1..n : k # l => <<k, l>> \in before \/ <<l, k>> \in before
  BY <1>5, <1>6
<1>9. ASSUME NEW i \in 1..n, NEW j \in 1..n, NEW k \in 1..n, <<i, j>> \in before, <<j, k>> \in before
      PROVE  <<i, k>> \in before
  <2>1. PICK a \in Int, b \in Int, c \in Int, p \in Nat \ {0}, q \in Nat \ {0}, r \in Nat \ {0} :
          a = x[i] /\ b = x[j] /\ c = x[k] /\ p = y[i] /\ q = y[j] /\ r = y[k]
    BY <1>2
  <2>2. a * q \in Int /\ b * p \in Int /\ b * r \in Int /\ c * q \in Int /\ a * r \in Int /\ c * p \in Int
    OBVIOUS
  <2>3. a * q > b * p \/ (~ (b * p > a * q) /\ i < j)
    BY <1>5, <1>9, <2>1
  <2>4. b * r > c * q \/ (~ (c * q > b * r) /\ j < k)
    BY <1>5, <1>9, <2>1
  <2>5. a * q >= b * p /\ b * r >= c * q
    BY <2>2, <2>3, <2>4
  <2>6. a * r >= c * p /\ (a * q > b * p \/ b * r > c * q => a * r > c * p)
    BY <2>5, FractionOrder
  <2>7. a * r > c * p \/ (~ (c * p > a * r) /\ i < k)
    <3>1. CASE a * q > b * p \/ b * r > c * q
      BY <2>6, <3>1
    <3>2. CASE i < j /\ j < k
      BY <2>2, <2>6, <3>2
    <3>3. QED
      BY <2>3, <2>4, <3>1, <3>2
  <2>8. QED
    BY <1>5, <2>1, <2>7
<1>10. QED
  BY <1>3, <1>4, <1>5, <1>7, <1>8, <1>9 DEF TotalOrder

(* The ranking, best first.                                                *)
IsRanking(f, n, order) ==
  /\ Tools!Ranked(f) = [k \in 1..n |-> f[order[k]].id]
  /\ \A m \in 1..n : \E l \in 1..n : order[l] = m
  /\ \A k, l \in 1..n : Tools!Better(f[order[l]], f[order[k]]) => l < k

(* The ranked list is a ranking.                                           *)
LEMMA RankedInOrder ==
  ASSUME NEW n \in Nat, NEW f, DOMAIN f = 1..n, \A m \in 1..n : IsScore(f[m].result.score)
  PROVE  \E order \in [1..n -> 1..n] : IsRanking(f, n, order)
<1>1. PICK before : before = ByScore(f)
  OBVIOUS
<1>2. TotalOrder(1..n, before) /\ \A k, l \in 1..n : Tools!Better(f[l], f[k]) => <<l, k>> \in before
  BY <1>1, ScoresInOrder
<1>3. PICK order : order = Tools!F!Sorted(1..n, before)
  OBVIOUS
<1>4. IsFiniteSet(1..n) /\ Cardinality(1..n) = n
  <2>1. IsFiniteSet(1..n) /\ Cardinality(1..n) = IF 1 > n THEN 0 ELSE n - 1 + 1
    BY FS_Interval
  <2>2. (IF 1 > n THEN 0 ELSE n - 1 + 1) = n
    OBVIOUS
  <2>3. QED
    BY <2>1, <2>2
<1>5. /\ order \in [1..n -> 1..n]
      /\ \A m \in 1..n : \E l \in 1..n : order[l] = m
      /\ \A k, l \in 1..n : k < l => <<order[k], order[l]>> \in before
  <2>1. PICK all : all = 1..n
    OBVIOUS
  <2>2. IsFiniteSet(all) /\ Cardinality(all) = n /\ TotalOrder(all, before) /\ order = Tools!F!Sorted(all, before)
    BY <1>2, <1>3, <1>4, <2>1
  <2>3. /\ order \in [1..n -> all]
        /\ \A m \in all : \E l \in 1..n : order[l] = m
        /\ \A k, l \in 1..n : k < l => <<order[k], order[l]>> \in before
    BY <2>2, SortedInOrder
  <2>4. QED
    BY <2>1, <2>3
<1>6. Tools!Ranked(f) = [k \in 1..n |-> f[order[k]].id]
  BY <1>1, <1>3 DEF Tools!Ranked, ByScore
<1>7. ASSUME NEW k \in 1..n, NEW l \in 1..n, Tools!Better(f[order[l]], f[order[k]]) PROVE l < k
  <2>1. order[k] \in 1..n /\ order[l] \in 1..n
    BY <1>5
  <2>2. <<order[l], order[k]>> \in before
    BY <1>2, <1>7, <2>1
  <2>3. ~ (k < l) /\ k # l
    BY <1>2, <1>5, <2>1, <2>2 DEF TotalOrder
  <2>4. QED
    BY <2>3
<1>8. QED
  BY <1>5, <1>6, <1>7 DEF IsRanking

(* The positions in a batch with one kind of answer, and their list.       *)
OfKind(n, results, kin) == {k \in 1..n : results[k].kind = kin}

IsListOf(list, K, ids, results) ==
  /\ Cardinality(K) \in Nat
  /\ \E order \in [1..Cardinality(K) -> K] :
       /\ list = [m \in 1..Cardinality(K) |-> [id |-> ids[order[m]], result |-> results[order[m]]]]
       /\ \A k \in K : \E m \in 1..Cardinality(K) : order[m] = k

\* A sequence of the members of a set, each at one place.
Lists(s, S) ==
  /\ Cardinality(S) \in Nat /\ s \in [1..Cardinality(S) -> S]
  /\ \A x \in S : \E m \in 1..Cardinality(S) : s[m] = x

(* A sorted set is one of its lists.                                       *)
LEMMA SortedLists ==
  ASSUME NEW S, IsFiniteSet(S), NEW before, TotalOrder(S, before)
  PROVE  Lists(Tools!F!Sorted(S, before), S)
BY SortedInOrder DEF Lists

(* The list of a batch has each of its positions once.                     *)
LEMMA ListedInOrder ==
  ASSUME NEW n \in Nat, NEW K \in SUBSET (1..n), NEW ids, NEW results,
         NEW order, order = Tools!F!Sorted(K, {p \in K \X K : p[1] < p[2]}),
         NEW list, list = [m \in DOMAIN order |-> [id |-> ids[order[m]], result |-> results[order[m]]]]
  PROVE  IsListOf(list, K, ids, results)
<1>1. IsFiniteSet(K)
  <2>1. PICK all : all = 1..n
    OBVIOUS
  <2>2. IsFiniteSet(all)
    BY <2>1, FS_Interval
  <2>3. QED
    BY <2>1, <2>2, FS_Subset
<1>2. PICK before : before = {p \in K \X K : p[1] < p[2]}
  OBVIOUS
<1>3. TotalOrder(K, before)
  <2>1. \A i, j \in K : <<i, j>> \in before <=> i < j
    BY <1>2
  <2>2. K \subseteq Int
    OBVIOUS
  <2>3. QED
    BY <2>1, <2>2 DEF TotalOrder
<1>4. order = Tools!F!Sorted(K, before) /\ Lists(Tools!F!Sorted(K, before), K)
  BY <1>1, <1>2, <1>3, SortedLists
<1>5. /\ Cardinality(K) \in Nat /\ order \in [1..Cardinality(K) -> K]
      /\ \A k \in K : \E m \in 1..Cardinality(K) : order[m] = k
  BY <1>4 DEF Lists
<1>6. list = [m \in 1..Cardinality(K) |-> [id |-> ids[order[m]], result |-> results[order[m]]]]
  BY <1>5
<1>7. QED
  BY <1>5, <1>6 DEF IsListOf

(* What a batch answers.                                                   *)
LEMMA BatchOf ==
  ASSUME NEW w, NEW asOf, NEW n \in Nat, NEW ids, DOMAIN ids = 1..n,
         NEW results, results = [k \in 1..n |-> Tools!ForecastRun(w, ids[k], asOf)],
         NEW batch, batch = Tools!RunBatch(w, ids, asOf)
  PROVE  /\ (\E k \in 1..n : results[k] = Tools!Raised) => batch = Tools!Raised
         /\ (\A k \in 1..n : results[k] # Tools!Raised) =>
              /\ batch # Tools!Raised
              /\ IsListOf(batch.forecasts, OfKind(n, results, "forecast"), ids, results)
              /\ IsListOf(batch.noForecasts, OfKind(n, results, "no_forecast"), ids, results)
<1>1. batch = IF \E k \in 1..n : results[k] = Tools!Raised THEN Tools!Raised
              ELSE [kind |-> "batch", forecasts |-> Tools!Those(ids, results, "forecast"),
                    noForecasts |-> Tools!Those(ids, results, "no_forecast")]
  BY DEF Tools!RunBatch
<1>2. ASSUME NEW kin PROVE IsListOf(Tools!Those(ids, results, kin), OfKind(n, results, kin), ids, results)
  <2>1. PICK K : K = OfKind(n, results, kin)
    OBVIOUS
  <2>2. PICK order : order = Tools!F!Sorted(K, {p \in K \X K : p[1] < p[2]})
    OBVIOUS
  <2>3. PICK list : list = [m \in DOMAIN order |-> [id |-> ids[order[m]], result |-> results[order[m]]]]
    OBVIOUS
  <2>4. K \in SUBSET (1..n)
    BY <2>1 DEF OfKind
  <2>5. IsListOf(list, K, ids, results)
    BY <2>2, <2>3, <2>4, ListedInOrder
  <2>6. Tools!Those(ids, results, kin) = list
    BY <2>1, <2>2, <2>3 DEF OfKind, Tools!Those
  <2>7. QED
    BY <2>1, <2>5, <2>6
<1>3. ASSUME \A k \in 1..n : results[k] # Tools!Raised
      PROVE  /\ batch # Tools!Raised
             /\ IsListOf(batch.forecasts, OfKind(n, results, "forecast"), ids, results)
             /\ IsListOf(batch.noForecasts, OfKind(n, results, "no_forecast"), ids, results)
  <2>1. PICK some : some = Tools!Those(ids, results, "forecast")
    OBVIOUS
  <2>2. PICK none : none = Tools!Those(ids, results, "no_forecast")
    OBVIOUS
  <2>3. batch = [kind |-> "batch", forecasts |-> some, noForecasts |-> none]
    BY <1>1, <1>3, <2>1, <2>2
  <2>4. batch.kind = "batch" /\ batch.forecasts = some /\ batch.noForecasts = none
    BY <2>3
  <2>5. batch # Tools!Raised
    BY <2>4, AnswerKinds
  <2>6. QED
    BY <1>2, <2>1, <2>2, <2>4, <2>5
<1>4. QED
  BY <1>1, <1>3

(* The best of a batch.                                                    *)
RanksBest(n, ids, results, scored, top, best) ==
  /\ DOMAIN top = 1..best /\ Len(top) = best
  /\ \A k \in 1..best, j \in scored :
       LET a == results[CHOOSE i \in 1..n : ids[i] = top[k]].score
           b == results[j].score
       IN  a[1] * b[2] < b[1] * a[2] => \E l \in 1..k - 1 : top[l] = ids[j]

(* No one left out of the top has a better score.                          *)
LEMMA BestFirst ==
  ASSUME NEW n \in Nat, NEW ids, DOMAIN ids = 1..n, \A a, b \in 1..n : ids[a] = ids[b] => a = b,
         NEW results, \A k \in 1..n : IsAnswer(results[k]),
         NEW list, IsListOf(list, OfKind(n, results, "forecast"), ids, results)
  PROVE  \E scored, top, best :
           /\ scored = OfKind(n, results, "forecast") /\ best \in Nat
           /\ top = SubSeq(Tools!Ranked(list), 1, IF 2 < Len(list) THEN 2 ELSE Len(list))
           /\ best = IF 2 < Cardinality(scored) THEN 2 ELSE Cardinality(scored)
           /\ RanksBest(n, ids, results, scored, top, best)
<1>16. PICK scored, top : /\ scored = OfKind(n, results, "forecast")
                          /\ top = SubSeq(Tools!Ranked(list), 1, IF 2 < Len(list) THEN 2 ELSE Len(list))
  OBVIOUS
<1>17. PICK best \in Nat : best = IF 2 < Cardinality(scored) THEN 2 ELSE Cardinality(scored)
  BY <1>16 DEF IsListOf
<1>1. PICK size \in Nat : size = Cardinality(scored)
  BY <1>16 DEF IsListOf
<1>2. PICK pos \in [1..size -> scored] :
        /\ list = [m \in 1..size |-> [id |-> ids[pos[m]], result |-> results[pos[m]]]]
        /\ \A k \in scored : \E m \in 1..size : pos[m] = k
  BY <1>1, <1>16 DEF IsListOf
<1>3. scored \in SUBSET (1..n) /\ \A k \in scored : IsScore(results[k].score)
  <2>1. ASSUME NEW k \in scored PROVE IsScore(results[k].score)
    <3>1. k \in 1..n /\ results[k].kind = "forecast" /\ IsAnswer(results[k])
      BY <1>16 DEF OfKind
    <3>2. QED
      BY <3>1, AnswerKinds DEF IsAnswer
  <2>2. QED
    BY <1>16, <2>1 DEF OfKind
<1>4. DOMAIN list = 1..size /\ Len(list) = size
  BY <1>2
<1>5. \A m \in 1..size : pos[m] \in scored /\ list[m].id = ids[pos[m]] /\ list[m].result = results[pos[m]]
  BY <1>2
<1>6. \A m \in 1..size : IsScore(list[m].result.score)
  BY <1>3, <1>5
<1>15. PICK order \in [1..size -> 1..size] : IsRanking(list, size, order)
  BY <1>4, <1>6, RankedInOrder
<1>8. /\ Tools!Ranked(list) = [k \in 1..size |-> list[order[k]].id]
      /\ \A m \in 1..size : \E l \in 1..size : order[l] = m
      /\ \A k, l \in 1..size : Tools!Better(list[order[l]], list[order[k]]) => l < k
  BY <1>15 DEF IsRanking
<1>7. PICK ranked : ranked = Tools!Ranked(list) /\ ranked = [k \in 1..size |-> list[order[k]].id]
  BY <1>8
<1>9. best <= size /\ best = IF 2 < size THEN 2 ELSE size
  BY <1>1, <1>17
<1>10. top = SubSeq(ranked, 1, best)
  BY <1>4, <1>7, <1>9, <1>16
<1>11. DOMAIN top = 1..best /\ Len(top) = best /\ \A k \in 1..best : top[k] = ranked[k]
  <2>1. PICK names : names = {list[order[k]].id : k \in 1..size}
    OBVIOUS
  <2>2. ranked \in [1..size -> names]
    BY <1>7, <2>1
  <2>3. ranked \in Seq(names) /\ Len(ranked) = size
    BY <2>2
  <2>4. PICK short : short = SubSeq(ranked, 1, best)
    OBVIOUS
  <2>5. Len(short) = best /\ DOMAIN short = 1..best /\ \A k \in 1..best : short[k] = ranked[k]
    BY <1>9, <2>3, <2>4
  <2>6. QED
    BY <1>10, <2>4, <2>5
<1>12. \A k \in 1..size : order[k] \in 1..size /\ ranked[k] = ids[pos[order[k]]]
  BY <1>5, <1>7, <1>8
<1>13. ASSUME NEW k \in 1..best, NEW j \in scored, NEW a, NEW b,
              a = results[CHOOSE i \in 1..n : ids[i] = top[k]].score, b = results[j].score,
              a[1] * b[2] < b[1] * a[2]
       PROVE  \E l \in 1..k - 1 : top[l] = ids[j]
  <2>1. k \in 1..size /\ order[k] \in 1..size
    BY <1>9, <1>12
  <2>2. pos[order[k]] \in 1..n /\ top[k] = ids[pos[order[k]]]
    BY <1>3, <1>5, <1>11, <1>12, <2>1
  <2>3. (CHOOSE i \in 1..n : ids[i] = top[k]) = pos[order[k]]
    BY <2>2
  <2>4. a = list[order[k]].result.score
    BY <1>5, <1>13, <2>1, <2>3
  <2>5. PICK m \in 1..size : pos[m] = j
    BY <1>2
  <2>6. PICK l \in 1..size : order[l] = m
    BY <1>8
  <2>7. b = list[order[l]].result.score
    BY <1>5, <1>13, <2>5, <2>6
  <2>8. b[1] * a[2] > a[1] * b[2]
    <3>1. a[1] \in Int /\ a[2] \in Int
      <4>1. IsScore(a)
        BY <1>6, <2>1, <2>4
      <4>2. PICK x \in Int, d \in Nat \ {0} : a = <<x, d>>
        BY <4>1 DEF IsScore
      <4>3. QED
        BY <4>2
    <3>2. b[1] \in Int /\ b[2] \in Int
      <4>1. IsScore(b)
        BY <1>6, <2>6, <2>7
      <4>2. PICK x \in Int, d \in Nat \ {0} : b = <<x, d>>
        BY <4>1 DEF IsScore
      <4>3. QED
        BY <4>2
    <3>3. a[1] * b[2] \in Int /\ b[1] * a[2] \in Int
      BY <3>1, <3>2
    <3>4. QED
      BY <1>13, <3>3
  <2>9. Tools!Better(list[order[l]], list[order[k]])
    BY <2>4, <2>7, <2>8 DEF Tools!Better
  <2>10. l < k
    BY <1>8, <2>1, <2>9
  <2>11. l \in 1..k - 1 /\ l \in 1..best
    BY <2>10
  <2>12. top[l] = ids[j]
    BY <1>11, <1>12, <2>5, <2>6, <2>11
  <2>13. QED
    BY <2>11, <2>12
<1>14. QED
  <2>1. RanksBest(n, ids, results, scored, top, best)
    BY <1>11, <1>13 DEF RanksBest
  <2>2. QED
    BY <1>16, <1>17, <2>1

(* What comes later changes nothing.                                       *)
LEMMA LaterBarsChangeNothing ==
  ASSUME NEW w, {"production", "hash", "rates", "bars", "master"} = DOMAIN w, w = [n \in DOMAIN w |-> w[n]],
         NEW asOf \in Int, NEW i,
         NEW past, past = [w EXCEPT !.bars = {b \in w.bars : b.available <= asOf}]
  PROVE  Tools!ForecastRun(past, i, asOf) = Tools!ForecastRun(w, i, asOf)
<1>1. /\ past.production = w.production /\ past.hash = w.hash /\ past.rates = w.rates /\ past.master = w.master
      /\ past.bars = {b \in w.bars : b.available <= asOf}
  OBVIOUS
<1>2. Tools!BarLookup(past, i, asOf, asOf) = Tools!BarLookup(w, i, asOf, asOf)
  <2>1. asOf # Nothing
    BY NothingAssumption
  <2>2. Found(past, i, asOf, asOf) = Found(w, i, asOf, asOf)
    BY <1>1, <2>1 DEF Found
  <2>3. QED
    BY <2>2 DEF Tools!BarLookup, Found
<1>3. Tools!CurrencyReturn(past, i, asOf, 1) = Tools!CurrencyReturn(w, i, asOf, 1)
  BY <1>1 DEF Tools!CurrencyReturn
<1>4. PICK bars, model, v, fx : /\ bars = Tools!BarLookup(w, i, asOf, asOf) /\ model = w.production[i.market]
                                /\ v = Features(bars, asOf) /\ fx = Tools!CurrencyReturn(w, i, asOf, 1)
  OBVIOUS
<1> DEFINE r == IF model = Nothing THEN Tools!NoForecast("no_production_model")
                ELSE IF model.hash # w.hash THEN Tools!NoForecast("feature_hash_mismatch")
                ELSE IF model.artifact # "model" THEN Tools!NoForecast("no_artifact")
                ELSE IF v = Tools!F!NoBars THEN Tools!Raised
                ELSE IF v["ret"] = <<>> THEN Tools!NoForecast("missing_feature")
                ELSE Tools!Forecast(v["ret"], fx)
<1>5. Tools!ForecastRun(w, i, asOf) = r
  BY <1>4, ScoreIs
<1>6. Tools!ForecastRun(past, i, asOf) = r
  <2>1. /\ bars = Tools!BarLookup(past, i, asOf, asOf) /\ model = past.production[i.market]
        /\ fx = Tools!CurrencyReturn(past, i, asOf, 1) /\ past.hash = w.hash
    BY <1>1, <1>2, <1>3, <1>4
  <2>2. QED
    BY <1>4, <2>1, ScoreIs
<1>7. QED
  BY <1>5, <1>6

(* What is admitted on day 3, of all bars, has a forecast on that day      *)
(* unless its model cannot be used.                                        *)
LEMMA AdmissionHolds ==
  ASSUME NEW w, IsWorld(w), NEW i
  PROVE  Admits(Tools!Admission(w, i, 3, 2), Tools!ForecastRun(w, i, 3))
<1>1. \A b \in w.bars : b.available <= 3
  BY DEF IsWorld, IsBar
<1>2. Tools!BarLookup(w, i, 3, Nothing) = Tools!BarLookup(w, i, 3, 3)
  <2>1. Found(w, i, 3, Nothing) = Found(w, i, 3, 3)
    BY <1>1 DEF Found
  <2>2. QED
    BY <2>1 DEF Tools!BarLookup, Found
<1>3. PICK n \in Nat : Len(Tools!BarLookup(w, i, 3, 3)) = n
  BY FoundInSequence
<1>4. PICK r : r = Tools!ForecastRun(w, i, 3)
  OBVIOUS
<1>5. /\ IsAnswer(r)
      /\ r = Tools!NoForecast("no_production_model") <=> w.production[i.market] = Nothing
      /\ n >= 2 => r # Tools!NoForecast("missing_feature")
  <2>1. 3 \in Int
    OBVIOUS
  <2>2. QED
    BY <1>1, <1>3, <1>4, <2>1, Answered
<1>6. PICK admission : admission = Tools!Admission(w, i, 3, 2)
  OBVIOUS
<1>7. admission = IF i = Nothing THEN "UNSUPPORTED_INSTRUMENT"
                  ELSE IF n < 2 THEN "INSUFFICIENT_HISTORY"
                  ELSE IF w.production[i.market] = Nothing THEN "NO_APPLICABLE_MODEL" ELSE "ADMITTED"
  BY <1>2, <1>3, <1>6 DEF Tools!Admission
<1>8. admission = "NO_APPLICABLE_MODEL" => r = Tools!NoForecast("no_production_model")
  BY <1>5, <1>7
<1>9. ASSUME admission = "ADMITTED", r.kind = "no_forecast"
      PROVE  r.reason \in {"feature_hash_mismatch", "no_artifact"}
  <2>1. n >= 2 /\ w.production[i.market] # Nothing
    BY <1>7, <1>9
  <2>2. PICK reason \in Reasons : r = Tools!NoForecast(reason)
    BY <1>5, <1>9, AnswerKinds DEF IsAnswer
  <2>3. reason # "no_production_model" /\ reason # "missing_feature" /\ r.reason = reason
    BY <1>5, <2>1, <2>2, AnswerKinds
  <2>4. QED
    BY <2>3 DEF Reasons
<1>10. QED
  BY <1>4, <1>6, <1>8, <1>9 DEF Admits

(* A model is there to ask for just if some instrument of its market is    *)
(* told something else than that there is none.                            *)
LEMMA ModelIsThere ==
  ASSUME NEW w, "CN" \in DOMAIN w.production, NEW each, NEW ids,
         NEW m \in DOMAIN ids, ids[m].market = "CN",
         \A k \in DOMAIN ids : each[k] = Tools!NoForecast("no_production_model") <=> w.production[ids[k].market] = Nothing
  PROVE  "err" \in DOMAIN Tools!ModelGetProduction(w, "CN")
           <=> \A k \in DOMAIN ids : ids[k].market = "CN" => each[k] = Tools!NoForecast("no_production_model")
<1>1. CASE w.production["CN"] = Nothing
  <2>1. Tools!ModelGetProduction(w, "CN") = [err |-> "MODEL_NOT_AVAILABLE"]
    BY <1>1 DEF Tools!ModelGetProduction, Tools!Err
  <2>2. QED
    BY <1>1, <2>1
<1>2. CASE w.production["CN"] # Nothing
  <2>1. Tools!ModelGetProduction(w, "CN") = [ok |-> w.production["CN"]]
    BY <1>2 DEF Tools!ModelGetProduction
  <2>2. "err" \notin DOMAIN Tools!ModelGetProduction(w, "CN")
    BY <2>1
  <2>3. each[m] # Tools!NoForecast("no_production_model")
    BY <1>2
  <2>4. QED
    BY <2>2, <2>3
<1>3. QED
  BY <1>1, <1>2

(* So a screen ranks well.                                                 *)
LEMMA ScreenRanks ==
  ASSUME NEW n \in Nat, NEW ids, DOMAIN ids = 1..n, \A a, b \in 1..n : ids[a] = ids[b] => a = b,
         NEW results, \A k \in 1..n : IsAnswer(results[k]),
         NEW list, IsListOf(list, OfKind(n, results, "forecast"), ids, results)
  PROVE  RanksWell(ids, results, SubSeq(Tools!Ranked(list), 1, IF 2 < Len(list) THEN 2 ELSE Len(list)))
<1>1. PICK scored, top, best :
        /\ scored = OfKind(n, results, "forecast") /\ best \in Nat
        /\ top = SubSeq(Tools!Ranked(list), 1, IF 2 < Len(list) THEN 2 ELSE Len(list))
        /\ best = IF 2 < Cardinality(scored) THEN 2 ELSE Cardinality(scored)
        /\ RanksBest(n, ids, results, scored, top, best)
  BY BestFirst
<1>2. PICK size \in Nat : size = Cardinality(scored)
  BY <1>1 DEF IsListOf
<1>3. best = IF 2 < size THEN 2 ELSE size
  BY <1>1, <1>2
<1>5. /\ DOMAIN top = 1..best /\ Len(top) = best
      /\ \A k \in 1..best, j \in scored :
           LET a == results[CHOOSE i \in 1..n : ids[i] = top[k]].score
               b == results[j].score
           IN  a[1] * b[2] < b[1] * a[2] => \E l \in 1..k - 1 : top[l] = ids[j]
  BY <1>1 DEF RanksBest
<1>6. Min({2, size}) = best
  <2>1. \A x \in {2, size} : (\A y \in {2, size} : x <= y) => x = best
    BY <1>3
  <2>2. \E x \in {2, size} : \A y \in {2, size} : x <= y
    OBVIOUS
  <2>3. QED
    BY <2>1, <2>2 DEF Min
<1>7. scored = {k \in DOMAIN ids : results[k].kind = "forecast"}
  BY <1>1 DEF OfKind
<1>8. RanksWell(ids, results, top)
  BY <1>2, <1>5, <1>6, <1>7 DEF RanksWell
<1>9. QED
  BY <1>1, <1>8

(* The members of a list are the answers at its positions.                 *)
Covers(list, K, ids, results) ==
  /\ \A m \in DOMAIN list : \E k \in K : list[m].id = ids[k] /\ list[m].result = results[k]
  /\ \A k \in K : \E m \in DOMAIN list : list[m].id = ids[k] /\ list[m].result = results[k]

(* A list covers its positions.                                            *)
LEMMA ListCovers ==
  ASSUME NEW K, NEW ids, NEW results, NEW list, IsListOf(list, K, ids, results)
  PROVE  Covers(list, K, ids, results)
<1>1. PICK size \in Nat : size = Cardinality(K)
  BY DEF IsListOf
<1>2. PICK order \in [1..size -> K] :
        /\ list = [m \in 1..size |-> [id |-> ids[order[m]], result |-> results[order[m]]]]
        /\ \A k \in K : \E m \in 1..size : order[m] = k
  BY <1>1 DEF IsListOf
<1>3. DOMAIN list = 1..size /\ \A m \in 1..size : list[m].id = ids[order[m]] /\ list[m].result = results[order[m]]
  BY <1>2
<1>4. QED
  BY <1>2, <1>3 DEF Covers

(* Every instrument is in one of the lists with its own answer.            *)
LEMMA AllListed ==
  ASSUME NEW n \in Nat, NEW ids, DOMAIN ids = 1..n,
         NEW results, \A k \in 1..n : IsAnswer(results[k]) /\ results[k] # Tools!Raised,
         NEW one, IsListOf(one, OfKind(n, results, "forecast"), ids, results),
         NEW two, IsListOf(two, OfKind(n, results, "no_forecast"), ids, results)
  PROVE  /\ {<<r.id, r.result>> : r \in ToSet(one) \cup ToSet(two)} = {<<ids[k], results[k]>> : k \in DOMAIN ids}
         /\ \A k \in DOMAIN two : two[k].result.kind = "no_forecast"
<1>2. PICK K, L : K = OfKind(n, results, "forecast") /\ L = OfKind(n, results, "no_forecast")
  OBVIOUS
<1>3. K \subseteq 1..n /\ L \subseteq 1..n /\ \A k \in L : results[k].kind = "no_forecast"
  BY <1>2 DEF OfKind
<1>4. \A k \in 1..n : k \in K \/ k \in L
  <2>1. ASSUME NEW k \in 1..n PROVE results[k].kind \in {"forecast", "no_forecast"}
    BY AnswerKinds DEF IsAnswer
  <2>2. QED
    BY <1>2, <2>1 DEF OfKind
<1>5. /\ \A m \in DOMAIN one : \E k \in K : one[m].id = ids[k] /\ one[m].result = results[k]
      /\ \A k \in K : \E m \in DOMAIN one : one[m].id = ids[k] /\ one[m].result = results[k]
  BY <1>2, ListCovers DEF Covers
<1>6. /\ \A m \in DOMAIN two : \E k \in L : two[m].id = ids[k] /\ two[m].result = results[k]
      /\ \A k \in L : \E m \in DOMAIN two : two[m].id = ids[k] /\ two[m].result = results[k]
  BY <1>2, ListCovers DEF Covers
<1>7. \A k \in DOMAIN two : two[k].result.kind = "no_forecast"
  BY <1>3, <1>6
<1>8. ASSUME NEW r \in ToSet(one) \cup ToSet(two) PROVE \E k \in 1..n : r.id = ids[k] /\ r.result = results[k]
  <2>1. (\E m \in DOMAIN one : r = one[m]) \/ (\E m \in DOMAIN two : r = two[m])
    BY DEF ToSet
  <2>2. QED
    BY <1>3, <1>5, <1>6, <2>1
<1>9. ASSUME NEW k \in 1..n PROVE \E r \in ToSet(one) \cup ToSet(two) : r.id = ids[k] /\ r.result = results[k]
  <2>1. \/ \E m \in DOMAIN one : one[m].id = ids[k] /\ one[m].result = results[k]
        \/ \E m \in DOMAIN two : two[m].id = ids[k] /\ two[m].result = results[k]
    BY <1>4, <1>5, <1>6
  <2>2. (\A m \in DOMAIN one : one[m] \in ToSet(one)) /\ (\A m \in DOMAIN two : two[m] \in ToSet(two))
    BY DEF ToSet
  <2>3. QED
    BY <2>1, <2>2
<1>10. PICK all : all = ToSet(one) \cup ToSet(two)
  OBVIOUS
<1>11. {<<r.id, r.result>> : r \in all} = {<<ids[k], results[k]>> : k \in 1..n}
  <2>1. ASSUME NEW r \in all PROVE <<r.id, r.result>> \in {<<ids[k], results[k]>> : k \in 1..n}
    BY <1>8, <1>10
  <2>2. ASSUME NEW k \in 1..n PROVE <<ids[k], results[k]>> \in {<<r.id, r.result>> : r \in all}
    <3>1. PICK r \in all : r.id = ids[k] /\ r.result = results[k]
      BY <1>9, <1>10
    <3>2. <<ids[k], results[k]>> = <<r.id, r.result>>
      BY <3>1
    <3>3. QED
      BY <3>2
  <2>3. QED
    BY <2>1, <2>2, Zenon
<1>12. QED
  BY <1>7, <1>10, <1>11

(* The first of the answers.                                               *)
Each(ids, answers) == [k \in DOMAIN ids |-> answers[k][1]]

(* A screen agrees with the answers one by one.                            *)
LEMMA ScreensAgree ==
  ASSUME NEW w, NEW asOf, NEW n \in Nat, NEW ids, DOMAIN ids = 1..n,
         \A a, b \in 1..n : ids[a] = ids[b] => a = b,
         NEW answers, \A k \in 1..n : answers[k][1] = Tools!ForecastRun(w, ids[k], asOf),
         \A k \in 1..n : IsAnswer(answers[k][1])
  PROVE  ScreenAgrees(ids, Each(ids, answers), Tools!RunBatch(w, ids, asOf))
<1>1. PICK screen, results, batch :
        /\ screen = Tools!Screened(batch, 2) /\ results = [k \in 1..n |-> Tools!ForecastRun(w, ids[k], asOf)]
        /\ batch = Tools!RunBatch(w, ids, asOf)
  OBVIOUS
<1> DEFINE each == Each(ids, answers)
<1>0. results = each /\ \A k \in 1..n : IsAnswer(results[k])
  BY <1>1 DEF Each
<1>9. SUFFICES ScreenAgrees(ids, results, batch)
  BY <1>0, <1>1
<1>2. /\ (\E k \in 1..n : results[k] = Tools!Raised) => batch = Tools!Raised
      /\ (\A k \in 1..n : results[k] # Tools!Raised) =>
           /\ batch # Tools!Raised
           /\ IsListOf(batch.forecasts, OfKind(n, results, "forecast"), ids, results)
           /\ IsListOf(batch.noForecasts, OfKind(n, results, "no_forecast"), ids, results)
  BY <1>0, <1>1, BatchOf
<1>3. CASE \E k \in 1..n : results[k] = Tools!Raised
  <2>1. screen = Tools!Raised
    BY <1>1, <1>2, <1>3 DEF Tools!Screened
  <2>2. QED
    BY <1>1, <1>3, <2>1 DEF ScreenAgrees
<1>4. CASE \A k \in 1..n : results[k] # Tools!Raised
  <2>1. PICK one, two : one = batch.forecasts /\ two = batch.noForecasts
    OBVIOUS
  <2>2. /\ IsListOf(one, OfKind(n, results, "forecast"), ids, results)
        /\ IsListOf(two, OfKind(n, results, "no_forecast"), ids, results)
    BY <1>2, <1>4, <2>1
  <2>3. PICK top : top = SubSeq(Tools!Ranked(one), 1, IF 2 < Len(one) THEN 2 ELSE Len(one))
    OBVIOUS
  <2>4. Tools!Screened(batch, 2) = [kind |-> "screen", top |-> top, skipped |-> two]
    BY <1>2, <1>4, <2>1, <2>3 DEF Tools!Screened
  <2>5. screen.kind = "screen" /\ screen.top = top /\ screen.skipped = two
    BY <1>1, <2>4
  <2>6. screen # Tools!Raised
    BY <2>5, AnswerKinds
  <2>7. RanksWell(ids, results, top)
    BY <1>0, <2>2, <2>3, ScreenRanks
  <2>8. /\ {<<r.id, r.result>> : r \in ToSet(one) \cup ToSet(two)} = {<<ids[k], results[k]>> : k \in DOMAIN ids}
        /\ \A k \in DOMAIN two : two[k].result.kind = "no_forecast"
    BY <1>0, <1>4, <2>2, AllListed
  <2>9. QED
    BY <1>1, <1>4, <2>1, <2>5, <2>6, <2>7, <2>8 DEF ScreenAgrees
<1>5. QED
  BY <1>3, <1>4

(* The inputs of a forecast.                                               *)
ForecastInput(w, asOf) ==
  /\ IsWorld(w) /\ asOf \in {2, 3}
  /\ DOMAIN w = {"production", "hash", "rates", "bars", "master"} /\ w = [n \in DOMAIN w |-> w[n]]
  /\ w.production \in [{"CN", "US"} -> Productions]

(* So does everything else that is asked of the same tables.               *)
LEMMA AgreementHolds ==
  ASSUME NEW w, NEW asOf, ForecastInput(w, asOf),
         NEW ids, ids = <<Fund, Moutai, Apple>> \/ ids = <<Moutai, Apple>>
  PROVE  Agree(w, ids, OneByOne(w, ids, asOf), Each(ids, OneByOne(w, ids, asOf)), Tools!RunBatch(w, ids, asOf))
<1>0. PICK past, answers, each :
        /\ past = [w EXCEPT !.bars = {b \in w.bars : b.available <= asOf}]
        /\ answers = OneByOne(w, ids, asOf) /\ each = Each(ids, answers)
  OBVIOUS
<1>1. PICK n \in Nat : DOMAIN ids = 1..n /\ \A a, b \in 1..n : ids[a] = ids[b] => a = b
  <2>1. CASE ids = <<Fund, Moutai, Apple>>
    <3>1. DOMAIN ids = 1..3 /\ ids[1] = Fund /\ ids[2] = Moutai /\ ids[3] = Apple
      BY <2>1
    <3>2. \A a, b \in 1..3 : ids[a] = ids[b] => a = b
      BY <3>1, ThreeInstruments
    <3>3. QED
      BY <3>1, <3>2
  <2>2. CASE ids = <<Moutai, Apple>>
    <3>1. DOMAIN ids = 1..2 /\ ids[1] = Moutai /\ ids[2] = Apple
      BY <2>2
    <3>2. \A a, b \in 1..2 : ids[a] = ids[b] => a = b
      BY <3>1, ThreeInstruments
    <3>3. QED
      BY <3>1, <3>2
  <2>3. QED
    BY <2>1, <2>2
<1>2. PICK m \in DOMAIN ids : ids[m] = Moutai
  <2>1. CASE ids = <<Fund, Moutai, Apple>>
    <3>1. DOMAIN ids = 1..3 /\ ids[2] = Moutai
      BY <2>1
    <3>2. QED
      BY <3>1
  <2>2. CASE ids = <<Moutai, Apple>>
    <3>1. DOMAIN ids = 1..2 /\ ids[1] = Moutai
      BY <2>2
    <3>2. QED
      BY <3>1
  <2>3. QED
    BY <2>1, <2>2
<1>3. /\ asOf \in Int /\ IsWorld(w) /\ "CN" \in DOMAIN w.production
      /\ DOMAIN w = {"production", "hash", "rates", "bars", "master"} /\ w = [f \in DOMAIN w |-> w[f]]
  BY DEF ForecastInput
<1>4. ASSUME NEW k \in DOMAIN ids
      PROVE  /\ each[k] = Tools!ForecastRun(w, ids[k], asOf) /\ answers[k][2] = Tools!ForecastRun(past, ids[k], asOf)
             /\ answers[k][3] = Tools!ForecastRun(w, ids[k], 3)
  <2>0. PICK all : all = [j \in DOMAIN ids |-> [v \in 1..3 |-> Tools!ForecastRun(IF v = 2 THEN past ELSE w, ids[j],
                                                                            IF v = 3 THEN 3 ELSE asOf)]]
    OBVIOUS
  <2>5. all = OneByOne(w, ids, asOf)
    BY <1>0, <2>0 DEF OneByOne
  <2>1. PICK one : one = [v \in 1..3 |-> Tools!ForecastRun(IF v = 2 THEN past ELSE w, ids[k], IF v = 3 THEN 3 ELSE asOf)]
    OBVIOUS
  <2>2. answers[k] = one /\ each[k] = one[1]
    BY <1>0, <2>0, <2>1, <2>5 DEF Each
  <2>3. /\ one[1] = Tools!ForecastRun(w, ids[k], asOf) /\ one[2] = Tools!ForecastRun(past, ids[k], asOf)
        /\ one[3] = Tools!ForecastRun(w, ids[k], 3)
    BY <2>1
  <2>4. QED
    BY <2>2, <2>3
<1>5. \A k \in DOMAIN ids : each[k] = answers[k][2]
  BY <1>0, <1>3, <1>4, LaterBarsChangeNothing
<1>6. \A k \in DOMAIN ids :
        /\ IsAnswer(each[k])
        /\ each[k] = Tools!NoForecast("no_production_model") <=> w.production[ids[k].market] = Nothing
  BY <1>3, <1>4, Answered
<1>7. ScreenAgrees(ids, each, Tools!RunBatch(w, ids, asOf))
  <2>1. each = Each(ids, answers) /\ \A k \in DOMAIN ids : each[k] = answers[k][1]
    BY <1>0 DEF Each
  <2>2. \A k \in 1..n : answers[k][1] = Tools!ForecastRun(w, ids[k], asOf) /\ IsAnswer(answers[k][1])
    BY <1>1, <1>4, <1>6, <2>1
  <2>3. QED
    BY <1>1, <2>1, <2>2, ScreensAgree
<1>8. "err" \in DOMAIN Tools!ModelGetProduction(w, "CN")
        <=> \A k \in DOMAIN ids : ids[k].market = "CN" => each[k] = Tools!NoForecast("no_production_model")
  <2>1. ids[m].market = "CN"
    BY <1>2, ThreeInstruments
  <2>2. QED
    BY <1>3, <1>6, <2>1, ModelIsThere
<1>9. ASSUME NEW k \in DOMAIN ids, each[k].kind = "forecast", each[k].fx = <<0, 0>> PROVE each[k].base = each[k].score
  <2>1. PICK s, fx : each[k] = Tools!Forecast(s, fx)
    BY <1>6, <1>9, AnswerKinds DEF IsAnswer
  <2>2. PICK one : one = Tools!Forecast(s, fx)
    OBVIOUS
  <2>3. one.score = s /\ one.fx = fx /\ (fx = <<0, 0>> => one.base = s)
    BY <2>2, AnswerKinds
  <2>4. each[k] = one
    BY <2>1, <2>2
  <2>5. QED
    BY <1>9, <2>3, <2>4
<1>10. \A k \in DOMAIN ids : Admits(Tools!Admission(w, ids[k], 3, 2), answers[k][3])
  BY <1>3, <1>4, AdmissionHolds
<1>11. Agree(w, ids, answers, each, Tools!RunBatch(w, ids, asOf))
  BY <1>5, <1>7, <1>8, <1>9, <1>10 DEF Agree
<1>12. QED
  BY <1>0, <1>11

(* Hence forecasts agree.                                                  *)
LEMMA ForecastsHold ==
  ASSUME NEW w, NEW asOf, ForecastInput(w, asOf), job = <<"forecasts", w, asOf>>
  PROVE  ForecastsAgree
<1>1. job[2] = w /\ job[3] = asOf
  OBVIOUS
<1>2. PICK ids : ids = IF \E b \in w.bars : b.instrument = Fund THEN <<Fund, Moutai, Apple>> ELSE <<Moutai, Apple>>
  OBVIOUS
<1>3. ids = <<Fund, Moutai, Apple>> \/ ids = <<Moutai, Apple>>
  BY <1>2
<1>4. Agree(w, ids, OneByOne(w, ids, asOf), Each(ids, OneByOne(w, ids, asOf)), Tools!RunBatch(w, ids, asOf))
  BY <1>3, AgreementHolds
<1>5. QED
  BY <1>1, <1>2, <1>4 DEF ForecastsAgree, Each

(* Every call's answers.                                                   *)
LEMMA DecisionHolds ==
  ASSUME NEW w, NEW i, NEW trade, NEW claims, NEW portfolio, EvaluateInput(w, i, trade, claims, portfolio)
  PROVE  Decided(w, i, trade, claims, portfolio)
<1>1. PICK order : order = <<"accept", "review", "reject">>
  OBVIOUS
<1>2. order[1] = "accept" /\ order[2] = "review" /\ order[3] = "reject" /\ 1..3 = {1, 2, 3}
  BY <1>1
<1>3. \A verdict \in {"accept", "review", "reject"} : RankOf(order, verdict) \in 1..3
  BY <1>2 DEF RankOf
<1>4. RankOf(order, "reject") = 3
  BY <1>2 DEF RankOf
<1>5. Tools!RunScenario(i, trade, 4000, claims) = "reject"
  BY ShockRejected DEF EvaluateInput
<1>6. Tools!RunScenario(i, trade, 0, claims) \in {"accept", "review", "reject"}
  BY VerdictIsOne DEF Tools!RunScenario
<1>7. RankOf(order, Tools!RunScenario(i, trade, 0, claims)) <= RankOf(order, Tools!RunScenario(i, trade, 4000, claims))
  BY <1>3, <1>4, <1>5, <1>6
<1>8. w.exposures # Nothing /\ portfolio = "p1" /\ i \in DOMAIN w.master =>
        Tools!EvaluateProposal(w, i, trade, 4, portfolio, claims)
          = Tools!EvaluateProposal(w, i, trade, 4, portfolio, NothingClaimed(claims))
  BY EvaluationHolds DEF Evaluated
<1>9. /\ Tools!R!IsTradeable(Tools!EvaluateProposal(w, i, trade, 4, portfolio, claims)) => claims.permitted
      /\ Tools!R!IsTradeable(Tools!EvaluateProposal(w, i, trade, 4, portfolio, claims))
           /\ w.exposures # Nothing /\ portfolio = "p1" =>
           /\ w.exposures["p1"].gross <= 100
           /\ i = Moutai => w.exposures["p1"].name[i] <= 20
                           /\ (i \in DOMAIN w.master => w.exposures["p1"].ccy["CNY"] <= 40)
  BY EvaluationHolds DEF Evaluated
<1>10. RankOf(<<"accept", "review", "reject">>, Tools!RunScenario(i, trade, 0, claims))
         <= RankOf(<<"accept", "review", "reject">>, Tools!RunScenario(i, trade, 4000, claims))
  BY <1>1, <1>7
<1>11. QED
  BY <1>8, <1>9, <1>10 DEF Decided

(* A larger target is never more feasible.                                 *)
LEMMA TargetHolds ==
  ASSUME NEW t \in Nat
  PROVE  Feasible(t)
BY TargetsInOrder DEF Feasible, RankOf, TargetRank

(* A resolved instrument is registered and has one profile.                *)
LEMMA ResolutionHolds ==
  ASSUME NEW registered \in SUBSET Instruments, NEW w, w.master = Master(registered), NEW query, NEW hint
  PROVE  Resolved(w, query, hint)
<1>1. DOMAIN w.master = registered
  BY DEF Master
<1>2. ASSUME NEW i \in Tools!InstrumentResolver(w, query, hint)
      PROVE  /\ i \in registered
             /\ hint \in {Nothing, i.market} \/ query = i.id \/ query \in w.master[i].local
  BY <1>1, ResolvedIsRegistered
<1>3. ASSUME NEW i \in Tools!InstrumentResolver(w, query, hint)
      PROVE Cardinality({assets \in {{"FUND", "ETF"}, {"EQUITY"}} : "ok" \in DOMAIN Tools!Profile(w, i, assets)}) = 1
  BY <1>2, OneProfile
<1>4. QED
  BY <1>2, <1>3 DEF Resolved

(* A proposal keeps its names.                                             *)
LEMMA NamesHold ==
  ASSUME NEW scores \in [1..3 -> -1..3], NEW maxName \in {Nothing, 40}
  PROVE  KeepsNames(scores, maxName)
<1>1. IsFiniteSet(1..3) /\ scores \in [1..3 -> Int] /\ maxName \in Nat \cup {Nothing}
  <2>1. 1 \in Int /\ 3 \in Int /\ -1..3 \subseteq Int /\ 40 \in Nat
    OBVIOUS
  <2>2. IsFiniteSet(1..3)
    BY <2>1, FS_Interval
  <2>3. scores \in [1..3 -> Int] /\ maxName \in Nat \cup {Nothing}
    BY <2>1
  <2>4. QED
    BY <2>2, <2>3
<1>2. PICK target : target = Tools!CreateProposal(scores, maxName)
  OBVIOUS
<1>3. PICK S : S = 1..3
  OBVIOUS
<1>4. ASSUME NEW i \in DOMAIN target.weight
      PROVE  scores[i] > 0 /\ target.weight[i] <= (IF maxName = Nothing THEN 10 ELSE maxName) * target.unit
  BY <1>1, <1>2, <1>3, ProposalKeepsNames
<1>5. QED
  BY <1>2, <1>4 DEF KeepsNames

(* The server has no forecast.                                             *)
LEMMA ServerHolds ==
  ASSUME NEW w, NEW asOf, ForecastInput(w, asOf), job = <<"forecasts", w, asOf>>
  PROVE  ServerFailsClosed
<1>1. job[2] = w /\ job[3] = asOf /\ job[1] = "forecasts"
  OBVIOUS
<1>2. \A i \in {Moutai, Apple, Fund} :
        Tools!ForecastRun(Tools!ServerWorld(w), i, asOf) = Tools!NoForecast("no_production_model")
  BY ServerForecastsNothing DEF ForecastInput
<1>3. QED
  BY <1>1, <1>2 DEF ServerFailsClosed, IsJob

-----------------------------------------------------------------------------
(* All of the answers.                                                     *)

(* What a behaviour asks, and what it is asked about.                      *)
Asks ==
  \/ job = <<>>
  \/ \E shapes, late, reversed, facts : job = <<"features", shapes, late, reversed, facts>>
  \/ \E w, asOf : ForecastInput(w, asOf) /\ job = <<"forecasts", w, asOf>>
  \/ \E w, i, trade, claims, portfolio :
       EvaluateInput(w, i, trade, claims, portfolio) /\ job = <<"evaluate", w, i, trade, claims, portfolio>>
  \/ \E scores \in [1..3 -> -1..3], maxName \in {Nothing, 40} : job = <<"scores", scores, maxName>>
  \/ \E target \in Nat : job = <<"target", target>>
  \/ \E registered \in SUBSET Instruments : \E w, query, hint :
       w.master = Master(registered) /\ job = <<"resolve", w, query, hint>>

(* The bars of a world are finitely many.                                  *)
LEMMA BarsAreFew ==
  ASSUME NEW mine \in BarsOf(Moutai, {1, 2}, {1, 2, 4}), NEW theirs \in BarsOf(Apple, {1, 2}, {1, 2}),
         NEW fund \in BarsOf(Fund, {2}, {1})
  PROVE  IsFiniteSet(mine \cup theirs \cup fund) /\ \A b \in mine \cup theirs \cup fund : IsBar(b)
<1>1. {1, 2} \in {{1, 2}, {2}} /\ {2} \in {{1, 2}, {2}}
  OBVIOUS
<1>2. {1, 2, 4} \in {{1, 2, 4}, {1, 2}, {1}} /\ {1, 2} \in {{1, 2, 4}, {1, 2}, {1}} /\ {1} \in {{1, 2, 4}, {1, 2}, {1}}
  OBVIOUS
<1>3. IsFiniteSet(mine) /\ \A b \in mine : IsBar(b)
  BY <1>1, <1>2, FewBars
<1>4. IsFiniteSet(theirs) /\ \A b \in theirs : IsBar(b)
  BY <1>1, <1>2, FewBars
<1>5. IsFiniteSet(fund) /\ \A b \in fund : IsBar(b)
  BY <1>1, <1>2, FewBars
<1>6. IsFiniteSet(mine \cup theirs)
  BY <1>3, <1>4, FS_Union
<1>7. IsFiniteSet(mine \cup theirs \cup fund)
  BY <1>5, <1>6, FS_Union
<1>8. QED
  BY <1>3, <1>4, <1>5, <1>7

(* Each choice is one of the inputs.                                       *)
LEMMA FeaturesAsked == ChooseFeatures => Asks'
BY DEF ChooseFeatures, Asks

(* So is each call.                                                        *)
LEMMA CallsAsked == ChooseCall => Asks'
<1>1. ASSUME NEW mine \in BarsOf(Moutai, {1, 2}, {1, 2, 4}), NEW theirs \in BarsOf(Apple, {1, 2}, {1, 2}),
             NEW fund \in BarsOf(Fund, {2}, {1}), NEW asOf \in {2, 3}, NEW production \in Productions,
             NEW abroad \in BOOLEAN, NEW rates,
             job' = <<"forecasts", World(production, abroad, rates, mine \cup theirs \cup fund), asOf>>
      PROVE  Asks'
  <2>1. PICK models, bars, master : /\ models = [m \in {"CN", "US"} |-> IF m = "CN" \/ abroad THEN production ELSE Nothing]
                                    /\ bars = mine \cup theirs \cup fund /\ master = Master({Moutai, Apple})
    OBVIOUS
  <2>2. models \in [{"CN", "US"} -> Productions]
    <3>1. Nothing \in Productions
      BY DEF Productions
    <3>2. QED
      BY <2>1, <3>1
  <2>3. IsFiniteSet(bars) /\ \A b \in bars : IsBar(b)
    BY <2>1, BarsAreFew
  <2>4. PICK w : w = [production |-> models, hash |-> "h1", rates |-> rates, bars |-> bars, master |-> master]
    OBVIOUS
  <2>5. /\ DOMAIN w = {"production", "hash", "rates", "bars", "master"} /\ w = [n \in DOMAIN w |-> w[n]]
        /\ w.production = models /\ w.bars = bars
    BY <2>4
  <2>6. ForecastInput(w, asOf)
    BY <2>2, <2>3, <2>5 DEF ForecastInput, IsWorld
  <2>7. job' = <<"forecasts", w, asOf>>
    BY <1>1, <2>1, <2>4 DEF World
  <2>8. QED
    BY <2>6, <2>7 DEF Asks
<1>2. ASSUME ChooseEvaluation PROVE Asks'
  <2>0. PICK i \in {Moutai, Apple}, side \in {-1, 1}, claims \in Claims, exposures \in Exposures,
             registered \in {{}, {Moutai, Apple}}, portfolio \in {"p1", "p2", Nothing}, price \in {95, 110} :
          job' = <<"evaluate", [master |-> Master(registered), exposures |-> exposures], i,
                   [side |-> side, price |-> price, quantity |-> 1], claims, portfolio>>
    BY <1>2 DEF ChooseEvaluation
  <2>1. PICK w, trade : /\ w = [master |-> Master(registered), exposures |-> exposures]
                        /\ trade = [side |-> side, price |-> price, quantity |-> 1]
    OBVIOUS
  <2>2. w.master = Master(registered) /\ w.exposures = exposures
    BY <2>1
  <2>3. EvaluateInput(w, i, trade, claims, portfolio)
    BY <2>2 DEF EvaluateInput
  <2>4. job' = <<"evaluate", w, i, trade, claims, portfolio>>
    BY <2>0, <2>1
  <2>5. QED
    BY <2>3, <2>4 DEF Asks
<1>3. ASSUME NEW scores \in [1..3 -> -1..3], NEW maxName \in {Nothing, 40}, job' = <<"scores", scores, maxName>>
      PROVE  Asks'
  BY <1>3 DEF Asks
<1>4. ASSUME NEW target \in 0..12, job' = <<"target", target>>
      PROVE  Asks'
  <2>1. target \in Nat
    OBVIOUS
  <2>2. QED
    BY <1>4, <2>1 DEF Asks
<1>5. ASSUME NEW registered \in SUBSET Instruments, NEW hint, NEW query,
             job' = <<"resolve", [master |-> Master(registered)], query, hint>>
      PROVE  Asks'
  <2>1. PICK w : w = [master |-> Master(registered)]
    OBVIOUS
  <2>2. w.master = Master(registered) /\ job' = <<"resolve", w, query, hint>>
    BY <1>5, <2>1
  <2>3. QED
    BY <2>2 DEF Asks
<1>6. ChooseForecasts => Asks'
  BY <1>1 DEF ChooseForecasts
<1>7. QED
  BY <1>2, <1>3, <1>4, <1>5, <1>6 DEF ChooseCall

(* Whatever is asked, the answers agree.                                   *)
LEMMA AnswersAgree == Asks => ToolsAgree
<1> SUFFICES ASSUME Asks PROVE ToolsAgree
  OBVIOUS
<1>1. CASE job = <<>>
  BY <1>1 DEF ToolsAgree, EvaluationsAgree, AnswersAreConsistent, ServerFailsClosed, ForecastsAgree, IsJob
<1>2. ASSUME NEW shapes, NEW late, NEW reversed, NEW facts, job = <<"features", shapes, late, reversed, facts>>
      PROVE  ToolsAgree
  <2>1. job[1] = "features"
    BY <1>2
  <2>2. QED
    BY <2>1 DEF ToolsAgree, EvaluationsAgree, AnswersAreConsistent, ServerFailsClosed, ForecastsAgree, IsJob
<1>3. ASSUME NEW w, NEW asOf, ForecastInput(w, asOf), job = <<"forecasts", w, asOf>>
      PROVE  ToolsAgree
  <2>1. job[1] = "forecasts"
    BY <1>3
  <2>2. ServerFailsClosed /\ ForecastsAgree
    BY <1>3, ServerHolds, ForecastsHold
  <2>3. QED
    BY <2>1, <2>2 DEF ToolsAgree, EvaluationsAgree, AnswersAreConsistent, IsJob
<1>4. ASSUME NEW w, NEW i, NEW trade, NEW claims, NEW portfolio, EvaluateInput(w, i, trade, claims, portfolio),
             job = <<"evaluate", w, i, trade, claims, portfolio>>
      PROVE  ToolsAgree
  <2>1. /\ job[1] = "evaluate" /\ job[2] = w /\ job[3] = i /\ job[4] = trade /\ job[5] = claims
        /\ job[6] = portfolio
    BY <1>4
  <2>2. Decided(w, i, trade, claims, portfolio)
    BY <1>4, DecisionHolds
  <2>3. /\ ~Tools!R!IsTradeable(Tools!ServerEvaluateProposal(w, i, trade, 4))
        /\ Tools!ServerRunScenario(i, trade, 0) = "reject"
    BY ServerDenies
  <2>4. EvaluationsAgree
    BY <2>1, <2>2 DEF EvaluationsAgree, IsJob
  <2>5. ServerFailsClosed
    BY <2>1, <2>3 DEF ServerFailsClosed, IsJob
  <2>6. QED
    BY <2>1, <2>4, <2>5 DEF ToolsAgree, AnswersAreConsistent, ForecastsAgree, IsJob
<1>5. ASSUME NEW scores \in [1..3 -> -1..3], NEW maxName \in {Nothing, 40}, job = <<"scores", scores, maxName>>
      PROVE  ToolsAgree
  <2>1. job[1] = "scores" /\ job[2] = scores /\ job[3] = maxName
    BY <1>5
  <2>2. KeepsNames(scores, maxName)
    BY NamesHold
  <2>3. QED
    BY <2>1, <2>2 DEF ToolsAgree, EvaluationsAgree, AnswersAreConsistent, ServerFailsClosed, ForecastsAgree, IsJob
<1>6. ASSUME NEW target \in Nat, job = <<"target", target>>
      PROVE  ToolsAgree
  <2>1. job[1] = "target" /\ job[2] = target
    BY <1>6
  <2>2. Feasible(target)
    BY TargetHolds
  <2>3. QED
    BY <2>1, <2>2 DEF ToolsAgree, EvaluationsAgree, AnswersAreConsistent, ServerFailsClosed, ForecastsAgree, IsJob
<1>7. ASSUME NEW registered \in SUBSET Instruments, NEW w, NEW query, NEW hint, w.master = Master(registered),
             job = <<"resolve", w, query, hint>>
      PROVE  ToolsAgree
  <2>1. job[1] = "resolve" /\ job[2] = w /\ job[3] = query /\ job[4] = hint
    BY <1>7
  <2>2. Resolved(w, query, hint)
    BY <1>7, ResolutionHolds
  <2>3. QED
    BY <2>1, <2>2 DEF ToolsAgree, EvaluationsAgree, AnswersAreConsistent, ServerFailsClosed, ForecastsAgree, IsJob
<1>8. QED
  BY <1>1, <1>2, <1>3, <1>4, <1>5, <1>6, <1>7 DEF Asks

(* What agents and clients are told never disagrees.                       *)
THEOREM ToolsAlwaysAgree == MCSpec => []ToolsAgree
<1>1. MCInit => Asks
  BY DEF MCInit, Asks
<1>2. Asks /\ [MCNext]_<<vars, refVars, focus, job>> => Asks'
  <2>1. Asks /\ job' = job => Asks'
    BY DEF Asks
  <2>2. CASE MCNext
    <3>1. ChooseFeatures \/ ChooseCall \/ job' = job
      BY <2>2 DEF MCNext
    <3>2. QED
      BY <2>1, <3>1, FeaturesAsked, CallsAsked
  <2>3. CASE UNCHANGED <<vars, refVars, focus, job>>
    BY <2>1, <2>3
  <2>4. QED
    BY <2>2, <2>3
<1>3. QED
  BY <1>1, <1>2, AnswersAgree, PTL DEF MCSpec
=============================================================================
