---------------------------- MODULE MTReadersProofs ----------------------------
(***************************************************************************)
(* What a report says, for every table, set of addresses, order in which   *)
(* fields are read and number of calls of the tracker between two reads:   *)
(* nothing is listed twice, no field that never was in the slot it is read *)
(* from, a record that stays as it is is listed, and a report that was     *)
(* left alone is exact.  CoreInv of MTCoreProofs holds throughout, as a    *)
(* report changes nothing of the tracker.                                  *)
(***************************************************************************)
EXTENDS MTReaders, MTCoreProofs, SequenceTheorems

-----------------------------------------------------------------------------
(* The invariant *)

Counting == {"core", "used", "tombstones", "drops"}

Stage ==
  Counting \cup {"idle", "collect", "sort", "compare", "header", "copy", "done"}

Stats ==
  [current_used : Word, peak_used : Word, total_allocs : Word, total_frees : Word,
   total_reallocs : Word, alloc_count : Word, table_used : Word,
   table_tombstones : Word, table_drops : Word]

FieldValue == Ptr \cup {NoPtr} \cup Nat

Rows == [Field -> FieldValue]

Report ==
  [kind : Kind \cup {"none"}, pc : Stage, room : Nat, stats : Stats,
   again : BOOLEAN, i : Nat, j : Nat, idx : Seq(Slot), ptr : Ptr \cup {NoPtr},
   count : Nat, drops : BOOLEAN, overflow : BOOLEAN, seq : Word,
   read : SUBSET Field, row : Rows, listed : Seq(Rows)]

Places == 1..Len(rd.idx)

Entry(k) == table[rd.idx[k]]

(* The records are being copied to the output, or were *)
Writing == At("copy") \/ (At("done") /\ Lists)

(* Every slot of the table was looked at *)
Gathered == rd.pc \in {"sort", "compare", "header"} \/ Writing

(* Part of an entry was read *)
Reading == rd.read # {}

ReportTypes == rd \in Report /\ held \in Seq(SUBSET Rows)

(* Where the report is tells which local variables are in use, and how far *)
(* the loops are.                                                          *)
PhaseInv ==
  /\ rd.kind = "none" <=> At("idle")
  /\ At("idle") => stable = {}
  /\ rd.kind = "leaks" => rd.pc \notin Counting
  /\ rd.kind = "stats" => rd.pc \in Counting \cup {"done"}
  /\ rd.again => rd.kind = "uart" /\ rd.pc \in Counting \ {"core"}
  /\ rd.kind = "uart" /\ rd.pc \in {"collect", "sort", "compare", "header", "copy"} =>
       Active > 0
  /\ rd.pc \in Counting \cup {"idle"} => rd.idx = <<>> /\ rd.i = 0
  /\ rd.kind # "snapshot" => ~rd.overflow
  /\ ~Writing => rd.listed = <<>> /\ held = <<>> /\ ~rd.overflow
  /\ ~At("copy") => ~Reading
  /\ At("collect") => rd.i <= MaxAllocs /\ \A k \in Places : rd.idx[k] < rd.i
  /\ rd.pc \in {"sort", "compare"} => rd.i >= 1 /\ rd.j > rd.i
  /\ At("compare") => rd.j <= Len(rd.idx)
  /\ At("header") => rd.i = 1

(* How much was written *)
WritingInv ==
  Writing =>
    /\ rd.i = Len(rd.listed) + 1 /\ rd.i <= rd.count + 1 /\ rd.count <= Len(rd.idx)
    /\ ~rd.overflow => rd.count = Len(rd.idx)
    /\ rd.overflow => rd.count = rd.room /\ rd.count < Len(rd.idx)
    /\ rd.kind = "snapshot" => rd.count <= rd.room
    /\ Reading => rd.i <= rd.count
    /\ Len(held) = IF Reading THEN rd.i ELSE Len(rd.listed)
    /\ At("done") => Len(rd.listed) = rd.count

OnceInv == \A k, l \in Places : rd.idx[k] = rd.idx[l] => k = l

(* x is r but for its state: a freed slot keeps what it held *)
SameRecord(r, x) ==
  x.ptr = r.ptr /\ x.size = r.size /\ x.site = r.site /\ x.seq = r.seq

(* What is read from a collected slot, now or later, was a record once *)
SeenInv ==
  /\ ~At("idle") => SlotRows \subseteq seen
  /\ \A k \in Places : <<rd.idx[k], Row(Entry(k))>> \in seen

(* Each field that was read is one the slot held while the entry was copied *)
HeldInv ==
  /\ \A k \in 1..Len(held) : \A row \in held[k] : <<rd.idx[k], row>> \in seen
  /\ \A k \in 1..Len(rd.listed) : \A f \in Field :
       \E row \in held[k] : rd.listed[k][f] = row[f]
  /\ Reading => /\ Row(Entry(rd.i)) \in held[rd.i]
                /\ \A f \in rd.read : \E row \in held[rd.i] : rd.row[f] = row[f]

(* A stable slot is collected once it was looked at, and its record is     *)
(* written as it is.                                                       *)
StableInv ==
  /\ stable \subseteq UsedSlots(table)
  /\ At("collect") => \A s \in stable : s < rd.i => \E k \in Places : rd.idx[k] = s
  /\ Gathered => \A s \in stable : \E k \in Places : rd.idx[k] = s
  /\ \A k \in 1..Len(rd.listed) : rd.idx[k] \in stable => rd.listed[k] = Row(Entry(k))
  /\ At("copy") /\ rd.idx[rd.i] \in stable =>
       \A f \in rd.read : rd.row[f] = Row(Entry(rd.i))[f]

Above(k) == Addr[Entry(k).ptr]

(* The counters read are those of the tracker *)
QuietCounts ==
  /\ rd.pc \notin {"idle", "core"} /\ rd.kind # "leaks" =>
       /\ rd.stats.alloc_count = used_count
       /\ rd.stats.total_allocs = total_allocs /\ rd.stats.total_frees = total_frees
  /\ (rd.pc \notin {"idle", "core", "used"} \/ rd.again) /\ rd.kind # "leaks" =>
       rd.stats.table_used = used_count
  /\ (rd.pc \notin Counting \cup {"idle"} \/ rd.again) /\ rd.kind # "leaks" =>
       (rd.drops <=> drop_count > 0)

(* The indices are those of the USED slots, sorted as far as the loops are *)
QuietIndices ==
  /\ At("collect") => \A s \in Slot : s \in UsedSlots(table) /\ s < rd.i <=>
                                        \E k \in Places : rd.idx[k] = s
  /\ Gathered => \A s \in Slot : s \in UsedSlots(table) <=>
                                   \E k \in Places : rd.idx[k] = s
  /\ rd.pc \in {"sort", "compare"} => \A k, l \in Places :
       k < l /\ (k < rd.i \/ (k = rd.i /\ l < rd.j)) => Above(k) < Above(l)
  /\ At("compare") => rd.ptr = Entry(rd.i).ptr
  /\ At("header") \/ Writing => \A k, l \in Places : k < l => Above(k) < Above(l)

(* What was written is what the table holds *)
QuietListed ==
  /\ Writing => \A k \in 1..Len(rd.listed) : rd.listed[k] = Row(Entry(k))
  /\ At("copy") => \A f \in rd.read : rd.row[f] = Row(Entry(rd.i))[f]
  /\ rd.kind = "snapshot" /\ Writing => (rd.overflow <=> Len(rd.idx) > rd.room)

QuietInv == ~disturbed => QuietCounts /\ QuietIndices /\ QuietListed

ReportInv ==
  /\ ReportTypes /\ PhaseInv /\ WritingInv /\ OnceInv
  /\ SeenInv /\ HeldInv /\ StableInv /\ QuietInv

-----------------------------------------------------------------------------
(* What a step of the tracker does to a slot *)

(* A step of the tracker puts a record in a slot, or leaves what the slot   *)
(* holds, freed or not.                                                     *)
LEMMA SlotStep ==
  ASSUME CoreInv, CoreInv', Next, NEW s \in Slot
  PROVE  s \in UsedSlots(table') \/ SameRecord(table[s], table'[s])
<1>0. table \in [Slot -> AllocRec] /\ table' \in [Slot -> AllocRec]
  BY DEF CoreInv, StateTypeOK
<1>1. CASE table' = table
  BY <1>1 DEF SameRecord
<1>2. ASSUME NEW w \in Slot, NEW r, r.state = "USED", table' = [table EXCEPT ![w] = r]
      PROVE  s \in UsedSlots(table') \/ SameRecord(table[s], table'[s])
  BY <1>0, <1>2 DEF UsedSlots, SameRecord
<1>3. ASSUME NEW w \in Slot
      PROVE  SameRecord(table[s], SlotFree(table, w)[s])
             /\ SlotFree(table, w) \in [Slot -> AllocRec]
  <2>1. SlotFree(table, w) \in [Slot -> AllocRec]
    BY <1>0, SlotFreeType
  <2>2. CASE SlotFree(table, w) = [table EXCEPT ![w].state = "TOMBSTONE"]
    <3>1. /\ w # s => SlotFree(table, w)[s] = table[s]
          /\ w = s => SlotFree(table, w)[s] = [table[s] EXCEPT !.state = "TOMBSTONE"]
      BY <1>0, <2>2
    <3> QED
      BY <1>0, <2>1, <3>1 DEF SameRecord, AllocRec
  <2>3. CASE SlotFree(table, w) = table
    BY <2>1, <2>3 DEF SameRecord
  <2> QED
    BY <2>1, <2>2, <2>3 DEF SlotFree
<1>4. ASSUME NEW n \in Size, NEW f \in File, NEW line \in Line, MtMalloc(n, f, line)
      PROVE  s \in UsedSlots(table') \/ SameRecord(table[s], table'[s])
  <2>1. ASSUME NEW p, NEW site, RecordAlloc(p, n, site)
        PROVE  s \in UsedSlots(table') \/ SameRecord(table[s], table'[s])
    <3>1. PICK w \in Slot : table' = [table EXCEPT ![w] = UsedRec(p, Clamp(n), site, SeqNow)]
      BY <2>1 DEF RecordAlloc
    <3> QED
      BY <1>2, <3>1 DEF UsedRec
  <2> QED
    BY <1>1, <1>4, <2>1 DEF MtMalloc, TrackMalloc, DropAlloc
<1>5. ASSUME NEW p \in Freeable, MtFree(p)
      PROVE  s \in UsedSlots(table') \/ SameRecord(table[s], table'[s])
  BY <1>1, <1>3, <1>5 DEF MtFree, RecordFree, FreeUntracked
<1>6. ASSUME NEW p \in Live, NEW n \in Size, MtReallocBlock(p, n)
      PROVE  s \in UsedSlots(table') \/ SameRecord(table[s], table'[s])
  <2>1. ASSUME NEW w \in Slot, FindSlot(table, p, w), ReallocInPlace(p, w, n)
        PROVE  s \in UsedSlots(table') \/ SameRecord(table[s], table'[s])
    <3>1. w \in UsedSlots(table)
      BY <2>1, FindSlotHolds DEF Holds, UsedSlots, Live
    <3>2. table'[w].state = table[w].state /\ \A v \in Slot : v # w => table'[v] = table[v]
      BY <1>0, <2>1 DEF ReallocInPlace, AllocRec
    <3> QED
      BY <3>1, <3>2 DEF UsedSlots, SameRecord
  <2>2. ASSUME NEW q, NEW w \in Slot, ReallocMoved(p, q, w, n)
        PROVE  s \in UsedSlots(table') \/ SameRecord(table[s], table'[s])
    <3> DEFINE u == SlotFree(table, w)
    <3>1. PICK v \in Slot : table' = [u EXCEPT ![v] =
                                        UsedRec(q, Clamp(n), OldSite(w), SeqNow)]
      BY <2>2 DEF ReallocMoved
    <3>2. u \in [Slot -> AllocRec] /\ SameRecord(table[s], u[s])
      BY <1>3
    <3> HIDE DEF u
    <3>3. s = v \/ table'[s] = u[s]
      BY <3>1, <3>2
    <3>4. table'[v].state = "USED"
      BY <3>1, <3>2 DEF UsedRec
    <3> QED
      BY <3>2, <3>3, <3>4 DEF UsedSlots
  <2>3. ASSUME NEW q, ReallocAdopt(q, n)
        PROVE  s \in UsedSlots(table') \/ SameRecord(table[s], table'[s])
    <3>1. PICK w \in Slot : table' = [table EXCEPT ![w] = UsedRec(q, Clamp(n), NoSite, SeqNow)]
      BY <2>3 DEF ReallocAdopt
    <3> QED
      BY <1>2, <3>1 DEF UsedRec
  <2> QED
    BY <1>1, <1>6, <2>1, <2>2, <2>3 DEF MtReallocBlock, TrackRealloc, ReallocFallThrough
<1>7. CASE MtInit \/ \E n \in Size : PlainMalloc(n)
  BY <1>1, <1>7 DEF MtInit, PlainMalloc, trackerVars
<1> QED
  BY <1>4, <1>5, <1>6, <1>7, NextCases

(* A row has a value in each field, and its address is the record's. *)
LEMMA RowEffect ==
  ASSUME NEW r \in AllocRec
  PROVE  Row(r) \in Rows /\ Row(r).ptr = r.ptr
<1>1. /\ r.ptr \in Ptr \cup {NoPtr} /\ r.size \in Nat /\ r.seq \in Nat
      /\ r.site[1] \in Nat /\ r.site[2] \in Nat
  BY U32Assumption, HotspotsAssumption DEF AllocRec, Site, Word
<1> DEFINE g(f) == CASE f = "ptr"     -> r.ptr
                     [] f = "size"    -> r.size
                     [] f = "file_id" -> r.site[1]
                     [] f = "line"    -> r.site[2]
                     [] f = "seq"     -> r.seq
<1>2. Row(r) = [f \in Field |-> g(f)]
  BY DEF Row
<1>3. \A f \in Field : g(f) \in FieldValue
  BY <1>1 DEF Field, FieldValue
<1>4. g("ptr") = r.ptr /\ "ptr" \in Field
  BY DEF Field
<1> HIDE DEF g
<1> QED
  BY <1>2, <1>3, <1>4 DEF Rows

(* The same record gives the same row. *)
LEMMA SameRow ==
  ASSUME NEW r, NEW x, SameRecord(r, x)
  PROVE  Row(x) = Row(r)
BY DEF SameRecord, Row

(* Two rows that agree in every field are the same. *)
LEMMA RowsAgree ==
  ASSUME NEW a \in Rows, NEW b \in Rows, \A f \in Field : a[f] = b[f]
  PROVE  a = b
BY DEF Rows

(* The row before any field of it is read. *)
LEMMA NoRowType == NoRow \in Rows
<1>1. 0 \in Word /\ 0 \in 0..LineMax
  BY U32Assumption, HotspotsAssumption DEF Word
<1>2. EmptyRec \in AllocRec
  BY <1>1 DEF EmptyRec, AllocRec, Site, SlotState
<1> QED
  BY <1>2, RowEffect DEF NoRow

-----------------------------------------------------------------------------
(* The steps of a report *)

(* A report only reads the tracker. *)
LEMMA ReadOnlyKeeps ==
  ASSUME ReadOnly
  PROVE  /\ UNCHANGED <<table, seq, used_count, total_allocs, total_frees, drop_count>>
         /\ UNCHANGED <<disturbed, seen, stable, held>>
         /\ UsedSlots(table') = UsedSlots(table) /\ SlotRows' = SlotRows
BY DEF ReadOnly, historyVars, vars, trackerVars, totalVars, SlotRows, UsedSlots

(* The counters of the tracker are 32-bit words. *)
LEMMA CountersAreWords ==
  ASSUME CoreInv
  PROVE  /\ seq \in Word /\ used_count \in Word /\ tombstone_count \in Word
         /\ drop_count \in Word /\ current_used \in Word /\ peak_used \in Word
         /\ total_allocs \in Word /\ total_frees \in Word /\ total_reallocs \in Word
<1>1. used_count \in 0..MaxAllocs
  BY UsedFinite DEF CoreInv, UsedCountExact
<1> QED
  BY <1>1, MTCoreAssumption, AllocTableAssumption, U32Assumption
     DEF CoreInv, StateTypeOK, Word

(* What NoReport is made of. *)
LEMMA EmptyReport ==
  /\ NoReport \in Report
  /\ NoReport.idx = <<>> /\ NoReport.listed = <<>> /\ NoReport.read = {}
  /\ Len(<<>>) = 0 /\ <<>> \in Seq(SUBSET Rows)
<1>1. NoStats \in Stats
  BY WordOps DEF NoStats, Stats
<1>2. /\ <<>> \in Seq(Slot) /\ <<>> \in Seq(Rows) /\ <<>> \in Seq(SUBSET Rows)
      /\ Len(<<>>) = 0
  BY EmptySeq
<1> QED
  BY <1>1, <1>2, WordOps, NoRowType DEF NoReport, Report, Stage, Counting, Kind

(* A report that begins has read nothing. *)
LEMMA BeginStep ==
  ASSUME CoreInv, ReportInv, NEW kind \in Kind, NEW room \in Nat, Begin(kind, room)
  PROVE  ReportInv'
<1>1. /\ rd' = [NoReport EXCEPT !.kind = kind, !.room = room,
                   !.pc = IF kind = "leaks" THEN "collect" ELSE "core"]
      /\ rd' \in Report
  BY EmptyReport DEF Begin, Report, Stage, Counting
<1>2. /\ rd'.kind = kind /\ rd'.pc = (IF kind = "leaks" THEN "collect" ELSE "core")
      /\ rd'.idx = <<>> /\ rd'.listed = <<>> /\ rd'.i = 0 /\ rd'.overflow = FALSE
      /\ rd'.again = FALSE /\ rd'.read = {} /\ Len(<<>>) = 0
  BY <1>1, EmptyReport DEF NoReport
<1>3. /\ seen' = SlotRows /\ stable' = UsedSlots(table) /\ table' = table
      /\ held' = <<>> /\ UsedSlots(table') = UsedSlots(table) /\ SlotRows' = SlotRows
  BY DEF Begin, vars, trackerVars, SlotRows
<1>4. ReportTypes'
  BY <1>1, <1>3, EmptyReport DEF ReportTypes
<1>5. PhaseInv' /\ WritingInv'
  BY <1>2, <1>3, AllocTableAssumption
     DEF PhaseInv, WritingInv, Writing, Reading, At, Places, Counting, Kind
<1>6. OnceInv' /\ SeenInv' /\ HeldInv'
  BY <1>2, <1>3 DEF OnceInv, SeenInv, HeldInv, Reading, Places, At
<1>7. StableInv'
  BY <1>2, <1>3 DEF StableInv, Places, At, Gathered, Writing, UsedSlots, Slot
<1>8. QuietInv'
  BY <1>2, <1>3
     DEF QuietInv, QuietCounts, QuietIndices, QuietListed, Places, At, Gathered,
         Writing, Slot, Counting
<1> QED
  BY <1>4, <1>5, <1>6, <1>7, <1>8 DEF ReportInv

(* A report that ends leaves nothing behind. *)
LEMMA ReturnStep ==
  ASSUME CoreInv, ReportInv, Return
  PROVE  ReportInv'
<1>1. /\ rd' = NoReport /\ seen' = {} /\ stable' = {} /\ held' = <<>>
      /\ rd'.kind = "none" /\ rd'.pc = "idle" /\ rd'.overflow = FALSE
      /\ rd'.idx = <<>> /\ rd'.listed = <<>> /\ rd'.i = 0 /\ Len(<<>>) = 0
      /\ rd'.again = FALSE /\ rd'.read = {}
  BY EmptyReport DEF Return, NoReport
<1>2. ReportTypes' /\ PhaseInv' /\ WritingInv'
  BY <1>1, EmptyReport
     DEF ReportTypes, PhaseInv, WritingInv, Writing, Reading, At, Places, Counting,
         Kind, Lists
<1>3. OnceInv' /\ SeenInv' /\ HeldInv' /\ StableInv'
  BY <1>1
     DEF OnceInv, SeenInv, HeldInv, StableInv, Reading, Places, At, Gathered, Writing
<1>4. QuietInv'
  BY <1>1
     DEF QuietInv, QuietCounts, QuietIndices, QuietListed, Places, At, Gathered,
         Writing, Slot, Counting
<1> QED
  BY <1>2, <1>3, <1>4 DEF ReportInv

(* A step that reads counters, before any record is collected. *)
LEMMA CountingStep ==
  ASSUME CoreInv, ReportInv, ReadOnly, rd.pc \in Counting, rd' \in Report,
         rd'.kind = rd.kind, rd'.idx = rd.idx, rd'.i = rd.i, rd'.listed = rd.listed,
         rd'.overflow = rd.overflow, rd'.read = rd.read,
         rd'.pc \in {"used", "tombstones", "drops", "collect", "done"},
         rd'.again => rd.kind = "uart" /\ rd'.pc \in Counting \ {"core"},
         rd'.pc = "collect" => rd.kind = "snapshot" \/ (rd.kind = "uart" /\ Active' > 0),
         rd'.pc = "done" => ~Lists',
         ~disturbed => QuietCounts'
  PROVE  ReportInv'
<1>1. /\ table' = table /\ disturbed' = disturbed /\ seen' = seen /\ stable' = stable
      /\ held' = held /\ UsedSlots(table') = UsedSlots(table) /\ SlotRows' = SlotRows
  BY ReadOnlyKeeps
<1>2. /\ rd.idx = <<>> /\ rd.i = 0 /\ Len(<<>>) = 0 /\ Len(rd.idx) = 0
      /\ rd.kind \in {"snapshot", "uart", "stats"} /\ ~Reading /\ ~Reading'
      /\ ~Writing /\ rd.listed = <<>> /\ held = <<>> /\ ~rd.overflow
  BY EmptyReport
     DEF ReportInv, PhaseInv, ReportTypes, Report, Kind, At, Counting, Writing, Reading
<1>3. ~Writing'
  BY DEF Writing, At
<1>4. ReportTypes' /\ PhaseInv' /\ WritingInv'
  BY <1>1, <1>2, <1>3, AllocTableAssumption
     DEF ReportInv, ReportTypes, PhaseInv, WritingInv, At, Places, Counting
<1>5. OnceInv' /\ SeenInv' /\ HeldInv'
  BY <1>1, <1>2 DEF OnceInv, SeenInv, HeldInv, Places, At, ReportInv, Counting
<1>6. StableInv'
  BY <1>1, <1>2, <1>3
     DEF StableInv, Places, At, Gathered, UsedSlots, Slot, ReportInv
<1>7. QuietInv'
  BY <1>1, <1>2, <1>3
     DEF QuietInv, QuietIndices, QuietListed, Places, At, Gathered, Slot
<1> QED
  BY <1>4, <1>5, <1>6, <1>7 DEF ReportInv

(* The copy of the core counters. *)
LEMMA ReadCoreStep ==
  ASSUME CoreInv, ReportInv, ReadCore
  PROVE  ReportInv'
<1> DEFINE st == [rd.stats EXCEPT !.current_used = current_used,
                    !.peak_used = peak_used, !.total_allocs = total_allocs,
                    !.total_frees = total_frees, !.total_reallocs = total_reallocs,
                    !.alloc_count = used_count]
<1>1. rd \in Report /\ rd.stats \in Stats
  BY DEF ReportInv, ReportTypes, Report
<1>2. /\ st \in Stats /\ st.alloc_count = used_count
      /\ st.total_allocs = total_allocs /\ st.total_frees = total_frees
  BY <1>1, CountersAreWords DEF Stats
<1> HIDE DEF st
<1>3. rd' = [rd EXCEPT !.pc = "used", !.stats = st] /\ ReadOnly /\ rd.pc = "core"
  BY DEF ReadCore, At, st
<1>4. /\ rd' \in Report /\ rd'.kind = rd.kind /\ rd'.pc = "used" /\ rd'.stats = st
      /\ rd'.idx = rd.idx /\ rd'.i = rd.i /\ rd'.listed = rd.listed
      /\ rd'.overflow = rd.overflow /\ rd'.read = rd.read /\ rd'.again = rd.again
  BY <1>1, <1>2, <1>3 DEF Report, Stage, Counting
<1>5. ~rd.again
  BY <1>3 DEF ReportInv, PhaseInv
<1>6. QuietCounts'
  BY <1>2, <1>3, <1>4, <1>5, ReadOnlyKeeps DEF QuietCounts, Counting
<1> QED
  BY <1>3, <1>4, <1>5, <1>6, CountingStep DEF Counting

(* The counter of the USED slots. *)
LEMMA ReadUsedStep ==
  ASSUME CoreInv, ReportInv, ReadUsed
  PROVE  ReportInv'
<1> DEFINE st == [rd.stats EXCEPT !.table_used = used_count]
<1>1. rd \in Report /\ rd.stats \in Stats /\ rd.pc = "used" /\ ReadOnly
  BY DEF ReportInv, ReportTypes, Report, ReadUsed, At
<1>2. /\ st \in Stats /\ st.alloc_count = rd.stats.alloc_count
      /\ st.total_allocs = rd.stats.total_allocs
      /\ st.total_frees = rd.stats.total_frees /\ st.table_used = used_count
  BY <1>1, CountersAreWords DEF Stats
<1>3. rd' = [rd EXCEPT !.stats = st, !.pc = "tombstones"]
  BY DEF ReadUsed
<1> HIDE DEF st
<1>4. /\ rd' \in Report /\ rd'.kind = rd.kind /\ rd'.pc = "tombstones" /\ rd'.stats = st
      /\ rd'.idx = rd.idx /\ rd'.i = rd.i /\ rd'.listed = rd.listed
      /\ rd'.overflow = rd.overflow /\ rd'.read = rd.read /\ rd'.again = rd.again
      /\ rd'.drops = rd.drops
  BY <1>1, <1>2, <1>3 DEF Report, Stage, Counting
<1>5. ~disturbed => QuietCounts'
  BY <1>1, <1>2, <1>4, ReadOnlyKeeps
     DEF QuietCounts, ReportInv, QuietInv, Counting
<1>6. rd.again => rd.kind = "uart"
  BY DEF ReportInv, PhaseInv
<1> QED
  BY <1>1, <1>4, <1>5, <1>6, CountingStep DEF Counting

(* The counter of the tombstones. *)
LEMMA ReadTombstonesStep ==
  ASSUME CoreInv, ReportInv, ReadTombstones
  PROVE  ReportInv'
<1> DEFINE st == [rd.stats EXCEPT !.table_tombstones = tombstone_count]
<1>1. rd \in Report /\ rd.stats \in Stats /\ rd.pc = "tombstones" /\ ReadOnly
  BY DEF ReportInv, ReportTypes, Report, ReadTombstones, At
<1>2. /\ st \in Stats /\ st.alloc_count = rd.stats.alloc_count
      /\ st.total_allocs = rd.stats.total_allocs
      /\ st.total_frees = rd.stats.total_frees /\ st.table_used = rd.stats.table_used
  BY <1>1, CountersAreWords DEF Stats
<1>3. rd' = [rd EXCEPT !.stats = st, !.pc = "drops"]
  BY DEF ReadTombstones
<1> HIDE DEF st
<1>4. /\ rd' \in Report /\ rd'.kind = rd.kind /\ rd'.pc = "drops" /\ rd'.stats = st
      /\ rd'.idx = rd.idx /\ rd'.i = rd.i /\ rd'.listed = rd.listed
      /\ rd'.overflow = rd.overflow /\ rd'.read = rd.read /\ rd'.again = rd.again
      /\ rd'.drops = rd.drops
  BY <1>1, <1>2, <1>3 DEF Report, Stage, Counting
<1>5. ~disturbed => QuietCounts'
  BY <1>1, <1>2, <1>4, ReadOnlyKeeps
     DEF QuietCounts, ReportInv, QuietInv, Counting
<1>6. rd.again => rd.kind = "uart"
  BY DEF ReportInv, PhaseInv
<1> QED
  BY <1>1, <1>4, <1>5, <1>6, CountingStep DEF Counting

(* The counter of the drops, and where each report goes on from there. *)
LEMMA ReadDropsStep ==
  ASSUME CoreInv, ReportInv, ReadDrops
  PROVE  ReportInv'
<1> DEFINE st == [rd.stats EXCEPT !.table_drops = drop_count]
           dr == IF rd.again THEN rd.drops ELSE drop_count > 0
           ag == rd.kind = "uart" /\ ~rd.again
           pc == CASE rd.kind = "snapshot" -> "collect"
                   [] rd.kind = "stats"    -> "done"
                   [] rd.kind = "uart" /\ ~rd.again -> "used"
                   [] rd.kind = "uart" /\ rd.again ->
                        IF Active > 0 THEN "collect" ELSE "done"
<1>1. rd \in Report /\ rd.stats \in Stats /\ rd.pc = "drops" /\ ReadOnly
  BY DEF ReportInv, ReportTypes, Report, ReadDrops, At
<1>2. /\ st \in Stats /\ st.alloc_count = rd.stats.alloc_count
      /\ st.total_allocs = rd.stats.total_allocs
      /\ st.total_frees = rd.stats.total_frees /\ st.table_used = rd.stats.table_used
  BY <1>1, CountersAreWords DEF Stats
<1>3. /\ rd.kind \in {"snapshot", "uart", "stats"} /\ rd.again \in BOOLEAN
      /\ rd.drops \in BOOLEAN /\ (rd.again => rd.kind = "uart")
  BY <1>1 DEF ReportInv, PhaseInv, Report, Kind, At, Counting
<1>4. /\ rd.kind = "snapshot" => pc = "collect"
      /\ rd.kind = "stats" => pc = "done"
      /\ rd.kind = "uart" /\ ~rd.again => pc = "used"
      /\ rd.kind = "uart" /\ rd.again =>
           (Active > 0 => pc = "collect") /\ (~(Active > 0) => pc = "done")
  OBVIOUS
<1>5. /\ dr \in BOOLEAN /\ ag \in BOOLEAN
      /\ rd.again => dr = rd.drops
      /\ ~rd.again => (dr <=> drop_count > 0)
      /\ ag <=> rd.kind = "uart" /\ ~rd.again
  <2>1. rd.again => dr = rd.drops
    BY Zenon
  <2>2. ~rd.again => (dr <=> drop_count > 0)
    BY Zenon
  <2>3. ag \in BOOLEAN /\ (ag <=> rd.kind = "uart" /\ ~rd.again)
    BY Zenon
  <2>4. (drop_count > 0) \in BOOLEAN
    OBVIOUS
  <2>5. dr \in BOOLEAN
    BY <1>3, <2>4, Zenon
  <2> QED
    BY <2>1, <2>2, <2>3, <2>5
<1>6. rd' = [rd EXCEPT !.stats = st, !.drops = dr, !.again = ag, !.pc = pc]
  BY DEF ReadDrops
<1> HIDE DEF st, dr, ag, pc
<1>7. pc \in {"collect", "used", "done"} /\ pc \in Stage
  BY <1>3, <1>4 DEF Stage, Counting
<1>8. rd' \in Report
  BY <1>1, <1>2, <1>5, <1>6, <1>7 DEF Report
<1>9. /\ rd'.kind = rd.kind /\ rd'.pc = pc /\ rd'.stats = st /\ rd'.drops = dr
      /\ rd'.idx = rd.idx /\ rd'.i = rd.i /\ rd'.listed = rd.listed
      /\ rd'.overflow = rd.overflow /\ rd'.read = rd.read /\ rd'.again = ag
  BY <1>1, <1>6 DEF Report
<1>10. ASSUME ~disturbed
       PROVE  QuietCounts'
  <2>1. QuietCounts
    BY <1>10 DEF ReportInv, QuietInv
  <2>2. rd.kind # "leaks" => (rd'.drops <=> drop_count' > 0)
    BY <1>1, <1>5, <1>9, <2>1, ReadOnlyKeeps DEF QuietCounts
  <2> QED
    BY <1>1, <1>2, <1>9, <2>1, <2>2, ReadOnlyKeeps DEF QuietCounts
<1>11. Active' = Active
  BY <1>2, <1>9 DEF Active
<1>12. rd'.pc = "done" => ~Lists'
  BY <1>3, <1>4, <1>9, <1>11 DEF Lists
<1>13. rd'.again => rd.kind = "uart" /\ rd'.pc \in Counting \ {"core"}
  BY <1>4, <1>5, <1>9 DEF Counting
<1>14. rd'.pc = "collect" => rd.kind = "snapshot" \/ (rd.kind = "uart" /\ Active' > 0)
  BY <1>3, <1>4, <1>9, <1>11
<1> QED
  BY <1>1, <1>7, <1>8, <1>9, <1>10, <1>12, <1>13, <1>14, CountingStep DEF Counting

(* The indices collected are slots. *)
LEMMA IndicesAreSlots ==
  ASSUME ReportTypes
  PROVE  /\ rd \in Report /\ rd.idx \in Seq(Slot) /\ Len(rd.idx) \in Nat
         /\ \A k \in Places : rd.idx[k] \in Slot
         /\ rd.listed \in Seq(Rows) /\ Len(rd.listed) \in Nat
         /\ held \in Seq(SUBSET Rows) /\ Len(held) \in Nat
<1>1. rd.idx \in Seq(Slot) /\ rd.listed \in Seq(Rows) /\ held \in Seq(SUBSET Rows)
  BY DEF ReportTypes, Report
<1> QED
  BY <1>1, LenProperties, ElementOfSeq DEF ReportTypes, Places

(* The collecting loop takes a slot. *)
LEMMA CollectSlotStep ==
  ASSUME CoreInv, ReportInv, ReadOnly, At("collect"), ~Collected,
         rd' = [rd EXCEPT !.i = @ + 1,
                  !.idx = IF Listable(rd.i) THEN Append(@, rd.i) ELSE @]
  PROVE  ReportInv'
<1> DEFINE n == Len(rd.idx)
           x == IF Listable(rd.i) THEN Append(rd.idx, rd.i) ELSE rd.idx
<1>1. /\ rd \in Report /\ rd.idx \in Seq(Slot) /\ n \in Nat /\ rd.i \in Slot
      /\ \A k \in 1..n : rd.idx[k] \in Slot /\ rd.idx[k] < rd.i
      /\ rd.pc = "collect" /\ rd.i \in Nat
  BY IndicesAreSlots, AllocTableAssumption
     DEF ReportInv, PhaseInv, Collected, Slot, Places, At, Report, ReportTypes
<1>2. /\ ~Listable(rd.i) => x = rd.idx
      /\ Listable(rd.i) => /\ x \in Seq(Slot) /\ Len(x) = n + 1 /\ x[n + 1] = rd.i
                           /\ \A k \in 1..n : x[k] = rd.idx[k]
  BY <1>1, AppendProperties
<1>3. rd' = [rd EXCEPT !.i = rd.i + 1, !.idx = x]
  OBVIOUS
<1> HIDE DEF x
<1>4. x \in Seq(Slot)
  BY <1>1, <1>2
<1>5. /\ rd' \in Report
      /\ rd'.kind = rd.kind /\ rd'.pc = "collect" /\ rd'.i = rd.i + 1
      /\ rd'.idx = x /\ rd'.listed = rd.listed /\ rd'.overflow = rd.overflow
      /\ rd'.stats = rd.stats /\ rd'.drops = rd.drops /\ rd'.again = rd.again
      /\ rd'.read = rd.read
  <2>1. rd.i + 1 \in Nat
    BY <1>1
  <2>2. rd' \in Report
    BY <1>1, <1>3, <1>4, <2>1 DEF Report
  <2> QED
    BY <1>1, <1>3, <2>2 DEF Report
<1>6. /\ table' = table /\ disturbed' = disturbed /\ seen' = seen /\ stable' = stable
      /\ held' = held /\ UsedSlots(table') = UsedSlots(table) /\ SlotRows' = SlotRows
      /\ UNCHANGED <<used_count, total_allocs, total_frees, drop_count>>
  BY ReadOnlyKeeps
<1>7. /\ ~Writing /\ ~Writing' /\ rd.listed = <<>> /\ ~rd.overflow /\ ~Gathered'
      /\ Active' = Active /\ Len(<<>>) = 0 /\ ~Reading /\ ~Reading' /\ held = <<>>
  BY <1>1, <1>5, EmptyReport
     DEF Writing, Gathered, Reading, At, ReportInv, PhaseInv, Active
<1>8. Listable(rd.i) <=> rd.i \in UsedSlots(table)
  BY <1>1 DEF Listable, UsedSlots
<1>9. ReportTypes'
  BY <1>5, <1>6 DEF ReportInv, ReportTypes
<1>10. ASSUME NEW k \in Places'
       PROVE  \/ k \in Places /\ rd'.idx[k] = rd.idx[k]
              \/ k = n + 1 /\ rd'.idx[k] = rd.i /\ Listable(rd.i)
  BY <1>1, <1>2, <1>5 DEF Places
<1>11. Places \subseteq Places' /\ \A k \in Places : rd'.idx[k] = rd.idx[k]
  BY <1>1, <1>2, <1>5 DEF Places
<1>12. Listable(rd.i) => n + 1 \in Places' /\ rd'.idx[n + 1] = rd.i
  BY <1>1, <1>2, <1>5 DEF Places
<1>13. /\ \A k \in Places : rd.idx[k] \in Nat /\ rd.idx[k] < rd.i
       /\ rd.i \in Nat /\ rd.i < MaxAllocs /\ MaxAllocs \in Nat
  BY <1>1, AllocTableAssumption DEF Places, Slot
<1> HIDE DEF n
<1>14. PhaseInv' /\ WritingInv'
  <2>1. \A k \in Places' : rd'.idx[k] < rd'.i
    <3> SUFFICES ASSUME NEW k \in Places' PROVE rd'.idx[k] < rd.i + 1
      BY <1>5
    <3>1. rd'.idx[k] \in Nat /\ (rd'.idx[k] < rd.i \/ rd'.idx[k] = rd.i)
      BY <1>10, <1>13
    <3>2. rd.i \in Nat
      BY <1>13
    <3>3. ASSUME NEW a \in Nat, NEW b \in Nat, a < b \/ a = b
          PROVE  a < b + 1
      BY <3>3
    <3> QED
      BY <3>1, <3>2, <3>3
  <2>2. rd'.i <= MaxAllocs
    BY <1>5, <1>13
  <2> QED
    BY <1>1, <1>5, <1>6, <1>7, <2>1, <2>2
       DEF ReportInv, PhaseInv, WritingInv, At, Counting
<1>15. OnceInv'
  <2> SUFFICES ASSUME NEW k \in Places', NEW l \in Places', rd'.idx[k] = rd'.idx[l]
               PROVE  k = l
    BY DEF OnceInv
  <2>1. CASE k \in Places /\ rd'.idx[k] = rd.idx[k] /\ l \in Places /\ rd'.idx[l] = rd.idx[l]
    BY <2>1 DEF OnceInv, ReportInv
  <2>2. \A m \in Places : rd.idx[m] # rd.i
    <3>1. ASSUME NEW a \in Nat, NEW b \in Nat, a < b
          PROVE  a # b
      BY <3>1
    <3> QED
      BY <1>13, <3>1
  <2> QED
    BY <1>10, <2>1, <2>2
<1>16. SeenInv' /\ HeldInv'
  <2>1. ASSUME NEW k \in Places'
        PROVE  <<rd'.idx[k], Row(Entry(k)')>> \in seen'
    <3>1. CASE k \in Places /\ rd'.idx[k] = rd.idx[k]
      <4>1. Entry(k)' = Entry(k)
        BY <1>6, <3>1 DEF Entry
      <4>2. <<rd.idx[k], Row(Entry(k))>> \in seen
        BY <3>1 DEF SeenInv, ReportInv
      <4>3. Row(Entry(k)') = Row(Entry(k))
        BY <4>1
      <4>4. rd'.idx[k] = rd.idx[k] /\ seen' = seen
        BY <1>6, <3>1
      <4>5. <<rd'.idx[k], Row(Entry(k))>> \in seen
        BY <4>2, <4>4
      <4>6. <<rd'.idx[k], Row(Entry(k)')>> \in seen
        BY <4>3, <4>5
      <4> QED
        BY <4>4, <4>6
    <3>2. CASE rd'.idx[k] = rd.i /\ Listable(rd.i)
      <4>1. <<rd.i, Row(table[rd.i])>> \in seen'
        BY <1>1, <1>6, <1>8, <3>2 DEF SeenInv, ReportInv, SlotRows, At
      <4> QED
        BY <1>6, <3>2, <4>1 DEF Entry
    <3> QED
      BY <1>10, <3>1, <3>2
  <2>2. SeenInv'
    <3>1. SlotRows' \subseteq seen'
      BY <1>1, <1>6 DEF SeenInv, ReportInv, At
    <3>2. \A k \in Places' : <<rd.idx[k], Row(Entry(k))>>' \in seen'
      BY <2>1 DEF Row
    <3> QED
      BY <3>1, <3>2 DEF SeenInv
  <2>3. HeldInv'
    BY <1>5, <1>6, <1>7 DEF HeldInv
  <2> QED
    BY <2>2, <2>3
<1>17. StableInv'
  <2>1. ASSUME NEW s \in stable', s < rd'.i
        PROVE  \E k \in Places' : rd'.idx[k] = s
    <3>1. s \in UsedSlots(table) /\ s \in Slot /\ s \in stable
      BY <1>6, <2>1 DEF StableInv, ReportInv, UsedSlots
    <3>2. CASE s = rd.i
      BY <1>8, <1>12, <3>1, <3>2
    <3>3. CASE s # rd.i
      <4>1. s < rd.i
        BY <1>1, <1>5, <2>1, <3>1, <3>3, AllocTableAssumption DEF Slot
      <4>2. PICK k \in Places : rd.idx[k] = s
        BY <1>1, <3>1, <4>1 DEF StableInv, ReportInv, At
      <4> QED
        BY <1>11, <4>2
    <3> QED
      BY <3>2, <3>3
  <2> QED
    <3>1. stable' \subseteq UsedSlots(table')
      BY <1>6 DEF StableInv, ReportInv
    <3>2. rd'.pc = "collect" /\ \A k \in 1..Len(rd'.listed) : FALSE
      BY <1>5, <1>7
    <3> QED
      BY <1>7, <2>1, <3>1, <3>2 DEF StableInv, At
<1>18. QuietInv'
  <2> SUFFICES ASSUME ~disturbed
               PROVE  QuietCounts' /\ QuietIndices' /\ QuietListed'
    BY <1>6 DEF QuietInv
  <2>1. QuietCounts /\ QuietIndices
    BY DEF ReportInv, QuietInv
  <2>2. QuietCounts'
    BY <1>1, <1>5, <1>6, <2>1 DEF QuietCounts
  <2>3. ASSUME NEW s \in Slot
        PROVE  s \in UsedSlots(table) /\ s < rd'.i <=> \E k \in Places' : rd'.idx[k] = s
    <3>1. s \in UsedSlots(table) /\ s < rd.i <=> \E k \in Places : rd.idx[k] = s
      BY <1>1, <2>1 DEF QuietIndices, At
    <3>2. s < rd'.i <=> s < rd.i \/ s = rd.i
      BY <1>1, <1>5, AllocTableAssumption DEF Slot
    <3>3. (\E k \in Places' : rd'.idx[k] = s) <=>
            (\E k \in Places : rd.idx[k] = s) \/ (s = rd.i /\ Listable(rd.i))
      BY <1>10, <1>11, <1>12
    <3> QED
      BY <1>8, <3>1, <3>2, <3>3
  <2>4. QuietIndices' /\ QuietListed'
    BY <1>1, <1>5, <1>6, <1>7, <2>3 DEF QuietIndices, QuietListed, At
  <2> QED
    BY <2>2, <2>4
<1> QED
  BY <1>9, <1>14, <1>15, <1>16, <1>17, <1>18 DEF ReportInv

(* How far the indices are sorted. *)
SortedSoFar ==
  /\ rd.pc \in {"sort", "compare"} => \A k, l \in Places :
       k < l /\ (k < rd.i \/ (k = rd.i /\ l < rd.j)) => Above(k) < Above(l)
  /\ At("compare") => rd.ptr = Entry(rd.i).ptr
  /\ At("header") => \A k, l \in Places : k < l => Above(k) < Above(l)

(* The steps from the end of the collecting loop to the end of the sort     *)
(* permute the indices and change nothing else of the report.               *)
LEMMA PermuteStep ==
  ASSUME CoreInv, ReportInv, ReadOnly, rd' \in Report,
         rd.pc \in {"collect", "sort", "compare"}, rd.pc = "collect" => Collected,
         rd'.pc \in {"sort", "compare", "header"}, rd'.kind = rd.kind,
         rd'.listed = rd.listed, rd'.overflow = rd.overflow, rd'.stats = rd.stats,
         rd'.drops = rd.drops, rd'.again = rd.again, rd'.read = rd.read,
         rd'.pc \in {"sort", "compare"} => rd'.i >= 1 /\ rd'.j > rd'.i,
         rd'.pc = "compare" => rd'.j <= Len(rd'.idx),
         rd'.pc = "header" => rd'.i = 1,
         Places' = Places,
         \A k \in Places : \E l \in Places : rd'.idx[k] = rd.idx[l],
         \A k \in Places : \E l \in Places : rd.idx[k] = rd'.idx[l],
         OnceInv',
         ~disturbed => SortedSoFar'
  PROVE  ReportInv'
<1>1. /\ table' = table /\ disturbed' = disturbed /\ seen' = seen /\ stable' = stable
      /\ held' = held /\ UsedSlots(table') = UsedSlots(table) /\ SlotRows' = SlotRows
      /\ UNCHANGED <<used_count, total_allocs, total_frees, drop_count>>
  BY ReadOnlyKeeps
<1>2. /\ ~Writing /\ ~Writing' /\ Gathered' /\ rd.listed = <<>> /\ ~rd.overflow
      /\ Active' = Active /\ Len(<<>>) = 0 /\ Len(rd'.listed) = 0
      /\ ~Reading /\ ~Reading' /\ held = <<>> /\ ~rd.again
  BY EmptyReport
     DEF Writing, Gathered, Reading, At, ReportInv, PhaseInv, Active, Counting
<1>3. \A s : (\E k \in Places' : rd'.idx[k] = s) <=> (\E k \in Places : rd.idx[k] = s)
  OBVIOUS
<1>4. \A s \in UsedSlots(table) : rd.pc = "collect" => s < rd.i
  <2>1. CASE rd.pc = "collect"
    <3>1. rd.i >= MaxAllocs /\ rd.i \in Nat
      BY <2>1 DEF Collected, ReportInv, ReportTypes, Report
    <3> QED
      BY <3>1, AllocTableAssumption DEF UsedSlots, Slot
  <2> QED
    BY <2>1
<1>5. stable \subseteq UsedSlots(table)
  BY DEF ReportInv, StableInv
<1>6. ReportTypes'
  BY <1>1 DEF ReportInv, ReportTypes
<1>7. PhaseInv' /\ WritingInv'
  BY <1>1, <1>2 DEF ReportInv, PhaseInv, WritingInv, At, Counting
<1>8. SeenInv' /\ HeldInv'
  <2>1. ASSUME NEW k \in Places'
        PROVE  <<rd.idx[k], Row(Entry(k))>>' \in seen'
    <3>1. PICK l \in Places : rd'.idx[k] = rd.idx[l]
      OBVIOUS
    <3>2. Row(Entry(k))' = Row(Entry(l))
      BY <1>1, <3>1 DEF Entry, Row
    <3> QED
      BY <1>1, <3>1, <3>2 DEF SeenInv, ReportInv
  <2>2. SeenInv'
    BY <1>1, <2>1 DEF SeenInv, ReportInv, At
  <2>3. HeldInv'
    BY <1>1, <1>2 DEF HeldInv
  <2> QED
    BY <2>2, <2>3
<1>9. StableInv'
  <2>1. \A s \in stable' : \E k \in Places' : rd'.idx[k] = s
    <3> SUFFICES ASSUME NEW s \in stable PROVE \E k \in Places : rd.idx[k] = s
      BY <1>1, <1>3
    <3>1. CASE rd.pc = "collect"
      BY <1>4, <1>5, <3>1 DEF ReportInv, StableInv, At
    <3>2. CASE rd.pc \in {"sort", "compare"}
      BY <3>2 DEF ReportInv, StableInv, Gathered
    <3> QED
      BY <3>1, <3>2
  <2>2. rd'.pc \notin {"collect", "copy"} /\ \A k \in 1..Len(rd'.listed) : FALSE
    BY <1>2
  <2> QED
    BY <1>1, <1>5, <2>1, <2>2 DEF StableInv, At
<1>10. QuietInv'
  <2> SUFFICES ASSUME ~disturbed
               PROVE  QuietCounts' /\ QuietIndices' /\ QuietListed'
    BY <1>1 DEF QuietInv
  <2>1. QuietCounts /\ QuietIndices
    BY DEF ReportInv, QuietInv
  <2>2. QuietCounts'
    BY <1>1, <1>2, <2>1 DEF QuietCounts, Counting
  <2>3. \A s \in Slot : s \in UsedSlots(table) <=> \E k \in Places' : rd'.idx[k] = s
    <3>1. CASE rd.pc = "collect"
      BY <1>3, <1>4, <2>1, <3>1 DEF QuietIndices, At
    <3>2. CASE rd.pc \in {"sort", "compare"}
      BY <1>3, <2>1, <3>2 DEF QuietIndices, Gathered
    <3> QED
      BY <3>1, <3>2
  <2>4. QuietIndices' /\ QuietListed'
    BY <1>1, <1>2, <2>3 DEF QuietIndices, QuietListed, SortedSoFar, At
  <2> QED
    BY <2>2, <2>4
<1> QED
  BY <1>6, <1>7, <1>8, <1>9, <1>10 DEF ReportInv

(* A step that moves the loop counters, or reads an address. *)
LEMMA LoopStep ==
  ASSUME CoreInv, ReportInv, ReadOnly, rd.pc \in {"collect", "sort", "compare"},
         rd.pc = "collect" => Collected,
         rd' = [rd EXCEPT !.i = rd'.i, !.j = rd'.j, !.ptr = rd'.ptr, !.pc = rd'.pc],
         rd'.i \in Nat, rd'.j \in Nat, rd'.ptr \in Ptr \cup {NoPtr},
         rd'.pc \in {"sort", "compare", "header"},
         rd'.pc \in {"sort", "compare"} => rd'.i >= 1 /\ rd'.j > rd'.i,
         rd'.pc = "compare" => rd'.j <= Len(rd.idx),
         rd'.pc = "header" => rd'.i = 1,
         ~disturbed => SortedSoFar'
  PROVE  ReportInv'
<1>1. rd \in Report /\ rd'.pc \in Stage
  BY DEF ReportInv, ReportTypes, Stage
<1>2. rd' \in Report
  <2> DEFINE i == rd'.i
             j == rd'.j
             p == rd'.ptr
             pc == rd'.pc
  <2>1. rd' = [rd EXCEPT !.i = i, !.j = j, !.ptr = p, !.pc = pc]
    OBVIOUS
  <2>2. i \in Nat /\ j \in Nat /\ p \in Ptr \cup {NoPtr} /\ pc \in Stage
    BY <1>1
  <2> HIDE DEF i, j, p, pc
  <2> QED
    BY <1>1, <2>1, <2>2 DEF Report
<1>3. /\ rd'.idx = rd.idx /\ rd'.kind = rd.kind /\ rd'.listed = rd.listed
      /\ rd'.overflow = rd.overflow /\ rd'.stats = rd.stats /\ rd'.drops = rd.drops
      /\ rd'.again = rd.again /\ rd'.read = rd.read
  BY <1>1 DEF Report
<1>4. Places' = Places /\ OnceInv'
  BY <1>3 DEF Places, OnceInv, ReportInv
<1> QED
  BY <1>2, <1>3, <1>4, PermuteStep

(* A step of the collecting loop, or its end. *)
LEMMA CollectStep ==
  ASSUME CoreInv, ReportInv, Collect
  PROVE  ReportInv'
<1>1. ReadOnly /\ At("collect")
  BY DEF Collect
<1>2. CASE /\ ~Collected
           /\ rd' = [rd EXCEPT !.i = @ + 1,
                       !.idx = IF Listable(rd.i) THEN Append(@, rd.i) ELSE @]
  BY <1>1, <1>2, CollectSlotStep
<1>3. CASE Collected /\ rd' = [rd EXCEPT !.i = 1, !.j = 2, !.pc = "sort"]
  <2>1. /\ rd'.pc = "sort" /\ rd'.i = 1 /\ rd'.j = 2 /\ rd'.ptr \in Ptr \cup {NoPtr}
        /\ rd' = [rd EXCEPT !.i = rd'.i, !.j = rd'.j, !.ptr = rd'.ptr, !.pc = rd'.pc]
    BY <1>3 DEF ReportInv, ReportTypes, Report
  <2>2. ASSUME NEW k \in Nat, NEW l \in Nat, k >= 1, k < l, k < 1 \/ (k = 1 /\ l < 2)
        PROVE  FALSE
    BY <2>2
  <2>3. Places' \subseteq Nat /\ \A k \in Places' : k >= 1
    BY DEF Places
  <2>4. SortedSoFar'
    BY <2>1, <2>2, <2>3 DEF SortedSoFar, At
  <2> QED
    BY <1>1, <1>3, <2>1, <2>4, LoopStep DEF At
<1> QED
  BY <1>2, <1>3 DEF Collect

(* Two places of a sequence are exchanged. *)
LEMMA SwapEffect ==
  ASSUME NEW S, NEW x \in Seq(S), NEW i, NEW j, i \in 1..Len(x), j \in 1..Len(x), i # j
  PROVE  /\ Swap(x, i, j) \in Seq(S) /\ Len(Swap(x, i, j)) = Len(x)
         /\ Swap(x, i, j)[i] = x[j] /\ Swap(x, i, j)[j] = x[i]
         /\ \A k \in 1..Len(x) : k \notin {i, j} => Swap(x, i, j)[k] = x[k]
<1> DEFINE y == [x EXCEPT ![i] = x[j]]
<1>1. x[i] \in S /\ x[j] \in S
  BY ElementOfSeq
<1>2. /\ y \in Seq(S) /\ Len(y) = Len(x)
      /\ \A k \in 1..Len(x) : y[k] = IF k = i THEN x[j] ELSE x[k]
  BY <1>1, ExceptSeq
<1>3. Swap(x, i, j) = [y EXCEPT ![j] = x[i]]
  BY DEF Swap
<1> HIDE DEF y
<1>4. /\ [y EXCEPT ![j] = x[i]] \in Seq(S) /\ Len([y EXCEPT ![j] = x[i]]) = Len(y)
      /\ \A k \in 1..Len(y) : [y EXCEPT ![j] = x[i]][k] = IF k = j THEN x[i] ELSE y[k]
  BY <1>1, <1>2, ExceptSeq
<1> QED
  BY <1>2, <1>3, <1>4

(* While the table is left alone, the collected records have different      *)
(* addresses.                                                               *)
LEMMA AddressesDiffer ==
  ASSUME CoreInv, ReportInv, ~disturbed, Gathered
  PROVE  \A k, l \in Places : /\ Above(k) \in Nat /\ Above(l) \in Nat
                              /\ k # l => Above(k) # Above(l)
<1> SUFFICES ASSUME NEW k \in Places, NEW l \in Places
             PROVE  /\ Above(k) \in Nat /\ Above(l) \in Nat
                    /\ k # l => Above(k) # Above(l)
  OBVIOUS
<1>1. rd.idx[k] \in Slot /\ rd.idx[l] \in Slot
  BY IndicesAreSlots DEF ReportInv
<1>2. rd.idx[k] \in UsedSlots(table) /\ rd.idx[l] \in UsedSlots(table)
  BY <1>1 DEF ReportInv, QuietInv, QuietIndices
<1>3. /\ Entry(k).ptr \in Ptr /\ Entry(l).ptr \in Ptr
      /\ Entry(k).ptr = Entry(l).ptr => rd.idx[k] = rd.idx[l]
  BY <1>2 DEF CoreInv, TableInv, Entry
<1>4. k # l => rd.idx[k] # rd.idx[l]
  BY DEF ReportInv, OnceInv
<1> QED
  BY <1>3, <1>4, MTReadersAssumption DEF Above

(* Two indices whose records are in the wrong order change places. *)
LEMMA SwapStep ==
  ASSUME CoreInv, ReportInv, ReadOnly, At("compare"), Before(Entry(rd.j).ptr, rd.ptr),
         rd' = [rd EXCEPT !.j = @ + 1, !.ptr = NoPtr, !.pc = "sort",
                  !.idx = Swap(@, rd.i, rd.j)]
  PROVE  ReportInv'
<1>0. PICK n, i, j, x : n = Len(rd.idx) /\ i = rd.i /\ j = rd.j
                        /\ x = Swap(rd.idx, rd.i, rd.j)
  OBVIOUS
<1>1. /\ rd \in Report /\ n \in Nat /\ i \in 1..n /\ j \in 1..n /\ i < j /\ i # j
      /\ rd.idx \in Seq(Slot) /\ rd.pc = "compare" /\ j + 1 \in Nat
  BY <1>0, IndicesAreSlots DEF ReportInv, PhaseInv, At, Report
<1>2. /\ x \in Seq(Slot) /\ Len(x) = n /\ x[i] = rd.idx[j] /\ x[j] = rd.idx[i]
      /\ \A k \in 1..n : k \notin {i, j} => x[k] = rd.idx[k]
  <2>1. PICK y \in Seq(Slot) : y = rd.idx
    BY <1>1
  <2>2. i \in 1..Len(y) /\ j \in 1..Len(y) /\ i # j /\ x = Swap(y, i, j)
    BY <1>0, <1>1, <2>1
  <2>3. /\ x \in Seq(Slot) /\ Len(x) = Len(y) /\ x[i] = y[j] /\ x[j] = y[i]
        /\ \A k \in 1..Len(y) : k \notin {i, j} => x[k] = y[k]
    BY <2>2, SwapEffect
  <2> QED
    BY <1>0, <2>1, <2>3
<1>3. rd' = [rd EXCEPT !.j = j + 1, !.ptr = NoPtr, !.pc = "sort", !.idx = x]
  BY <1>0
<1>4. ~disturbed => Above(j) < Above(i)
  BY <1>0 DEF Before, Above, ReportInv, QuietInv, QuietIndices
<1>5. rd'.i = i
  BY <1>0, <1>1, <1>3 DEF Report
<1>6. Places = 1..n
  BY <1>0 DEF Places
<1>7. rd' \in Report
  BY <1>1, <1>2, <1>3 DEF Report, Stage
<1>8. /\ rd'.pc = "sort" /\ rd'.j = j + 1 /\ rd'.idx = x
      /\ rd'.kind = rd.kind /\ rd'.listed = rd.listed
      /\ rd'.overflow = rd.overflow /\ rd'.stats = rd.stats /\ rd'.drops = rd.drops
      /\ rd'.again = rd.again /\ rd'.read = rd.read
  BY <1>1, <1>3 DEF Report
<1>9. Places' = 1..n
  BY <1>2, <1>8 DEF Places
<1>10. /\ \A k \in Places : \E l \in Places : rd'.idx[k] = rd.idx[l]
       /\ \A k \in Places : \E l \in Places : rd.idx[k] = rd'.idx[l]
  <2>1. ASSUME NEW k \in 1..n
        PROVE  \E l \in 1..n : x[k] = rd.idx[l] /\ rd.idx[k] = x[l]
    <3>1. k = i \/ k = j \/ (k \notin {i, j} /\ x[k] = rd.idx[k])
      BY <1>2
    <3> QED
      BY <1>1, <1>2, <3>1
  <2> QED
    BY <1>6, <1>8, <2>1
<1>11. OnceInv'
  <2> SUFFICES ASSUME NEW k \in 1..n, NEW l \in 1..n, x[k] = x[l] PROVE k = l
    BY <1>8, <1>9 DEF OnceInv
  <2>1. \A v, w \in 1..n : rd.idx[v] = rd.idx[w] => v = w
    BY <1>6 DEF OnceInv, ReportInv
  <2> QED
    BY <1>1, <1>2, <2>1
<1>12. ASSUME ~disturbed
       PROVE  SortedSoFar'
  <2>1. \A k, l \in 1..n : k < l /\ (k < i \/ (k = i /\ l < j)) => Above(k) < Above(l)
    BY <1>0, <1>1, <1>6, <1>12 DEF ReportInv, QuietInv, QuietIndices, At
  <2>2. \A k \in 1..n : Above(k) \in Nat
    BY <1>1, <1>6, <1>12, AddressesDiffer DEF Gathered
  <2>3. /\ Above(i)' = Above(j) /\ Above(j)' = Above(i)
        /\ \A k \in 1..n : k \notin {i, j} => Above(k)' = Above(k)
    BY <1>2, <1>8, ReadOnlyKeeps DEF Above, Entry
  <2>4. ASSUME NEW k \in 1..n, NEW l \in 1..n, k < l, k < i \/ (k = i /\ l < j + 1)
        PROVE  Above(k)' < Above(l)'
    <3>1. CASE k < i /\ l \notin {i, j}
      BY <1>1, <2>1, <2>3, <2>4, <3>1
    <3>2. CASE k < i /\ l \in {i, j}
      BY <1>1, <2>1, <2>3, <2>4, <3>2
    <3>3. CASE k = i /\ l = j
      BY <1>4, <1>12, <2>3, <3>3
    <3>4. CASE k = i /\ l < j
      <4>1. Above(i) < Above(l) /\ l \notin {i, j}
        BY <1>1, <2>1, <2>4, <3>4
      <4>2. Above(k)' = Above(j) /\ Above(l)' = Above(l)
        BY <2>3, <3>4, <4>1
      <4> QED
        BY <1>1, <1>4, <1>12, <2>2, <4>1, <4>2
    <3> QED
      BY <1>1, <2>4, <3>1, <3>2, <3>3, <3>4
  <2> QED
    BY <1>5, <1>8, <1>9, <2>4 DEF SortedSoFar, At
<1>13. rd'.i >= 1 /\ rd'.j > rd'.i
  BY <1>1, <1>5, <1>8
<1> QED
  BY <1>1, <1>6, <1>7, <1>8, <1>9, <1>10, <1>11, <1>12, <1>13, PermuteStep

(* The second half of a comparison. *)
LEMMA CompareStep ==
  ASSUME CoreInv, ReportInv, Compare
  PROVE  ReportInv'
<1>0. PICK n, i, j : n = Len(rd.idx) /\ i = rd.i /\ j = rd.j
  OBVIOUS
<1>1. /\ rd \in Report /\ n \in Nat /\ i \in 1..n /\ j \in 1..n /\ i < j /\ i # j
      /\ rd.pc = "compare" /\ Places = 1..n /\ ReadOnly /\ At("compare") /\ i >= 1
  BY <1>0, IndicesAreSlots DEF ReportInv, PhaseInv, At, Report, Compare, Places
<1>2. CASE Before(Entry(rd.j).ptr, rd.ptr)
  <2>1. rd' = [rd EXCEPT !.j = @ + 1, !.ptr = NoPtr, !.pc = "sort",
                  !.idx = Swap(@, rd.i, rd.j)]
    BY <1>2 DEF Compare, Entry
  <2> QED
    BY <1>1, <1>2, <2>1, SwapStep
<1>3. CASE ~Before(Entry(rd.j).ptr, rd.ptr)
  <2>1. rd' = [rd EXCEPT !.j = j + 1, !.ptr = NoPtr, !.pc = "sort", !.idx = rd.idx]
    BY <1>0, <1>3 DEF Compare, Entry
  <2>2. /\ rd'.i = i /\ rd'.j = j + 1 /\ rd'.pc = "sort" /\ rd'.idx = rd.idx
        /\ rd'.ptr = NoPtr
        /\ rd' = [rd EXCEPT !.i = rd'.i, !.j = rd'.j, !.ptr = rd'.ptr, !.pc = rd'.pc]
    BY <1>0, <1>1, <2>1 DEF Report
  <2>3. Places' = 1..n /\ \A k : Above(k)' = Above(k)
    BY <1>1, <2>2, ReadOnlyKeeps DEF Places, Above, Entry
  <2>4. ASSUME ~disturbed
        PROVE  SortedSoFar'
    <3>1. \A k, l \in 1..n : k < l /\ (k < i \/ (k = i /\ l < j)) => Above(k) < Above(l)
      BY <1>0, <1>1, <2>4 DEF ReportInv, QuietInv, QuietIndices
    <3>2. ~(Above(j) < Above(i))
      BY <1>0, <1>1, <1>3, <2>4 DEF Before, Above, ReportInv, QuietInv, QuietIndices
    <3>3. Above(i) \in Nat /\ Above(j) \in Nat /\ Above(i) # Above(j)
      BY <1>1, <2>4, AddressesDiffer DEF Gathered
    <3>4. Above(i) < Above(j)
      BY <3>2, <3>3
    <3>5. ASSUME NEW k \in 1..n, NEW l \in 1..n, k < l, k < i \/ (k = i /\ l < j + 1)
          PROVE  Above(k) < Above(l)
      <4>1. k < i \/ (k = i /\ l < j) \/ (k = i /\ l = j)
        BY <1>1, <3>5
      <4> QED
        BY <3>1, <3>4, <3>5, <4>1
    <3> QED
      BY <2>2, <2>3, <3>5 DEF SortedSoFar, At
  <2>5. j + 1 \in Nat /\ i \in Nat /\ j + 1 > i
    BY <1>1
  <2> QED
    BY <1>1, <2>2, <2>4, <2>5, LoopStep
<1> QED
  BY <1>2, <1>3

(* The first half of a comparison, or the end of a loop of the sort. *)
LEMMA SortStep ==
  ASSUME CoreInv, ReportInv, Sort
  PROVE  ReportInv'
<1>0. PICK n, i, j : n = Len(rd.idx) /\ i = rd.i /\ j = rd.j
  OBVIOUS
<1>1. /\ rd \in Report /\ n \in Nat /\ i \in Nat /\ j \in Nat /\ i >= 1 /\ i < j
      /\ rd.pc = "sort" /\ Places = 1..n /\ ReadOnly /\ At("sort")
  BY <1>0, IndicesAreSlots DEF ReportInv, PhaseInv, At, Report, Sort, Places
<1>2. ASSUME ~disturbed
      PROVE  /\ \A k, l \in 1..n : k < l /\ (k < i \/ (k = i /\ l < j)) => Above(k) < Above(l)
             /\ \A k, l \in 1..n : /\ Above(k) \in Nat /\ Above(l) \in Nat
                                   /\ k # l => Above(k) # Above(l)
  BY <1>0, <1>1, <1>2, AddressesDiffer
     DEF ReportInv, QuietInv, QuietIndices, At, Gathered
<1>3. ASSUME rd'.idx = rd.idx
      PROVE  Places' = 1..n /\ \A k : Above(k)' = Above(k)
  BY <1>1, <1>3, ReadOnlyKeeps DEF Places, Above, Entry
<1>4. CASE /\ rd.j <= Len(rd.idx)
           /\ rd' = [rd EXCEPT !.ptr = table[rd.idx[rd.i]].ptr, !.pc = "compare"]
  <2> DEFINE p == table[rd.idx[rd.i]].ptr
  <2>1. i \in Places
    BY <1>0, <1>1, <1>4
  <2>2. p \in Ptr \cup {NoPtr} /\ p = Entry(i).ptr
    BY <1>0, <1>1, <2>1, IndicesAreSlots
       DEF ReportInv, Entry, CoreInv, StateTypeOK, AllocRec
  <2>3. rd' = [rd EXCEPT !.ptr = p, !.pc = "compare"]
    BY <1>4
  <2> HIDE DEF p
  <2>4. /\ rd'.i = i /\ rd'.j = j /\ rd'.pc = "compare" /\ rd'.ptr = p /\ rd'.idx = rd.idx
        /\ rd' = [rd EXCEPT !.i = rd'.i, !.j = rd'.j, !.ptr = rd'.ptr, !.pc = rd'.pc]
    BY <1>0, <1>1, <2>3 DEF Report
  <2>5. Entry(i)' = Entry(i)
    BY <1>1, <2>4, ReadOnlyKeeps DEF Entry
  <2>6. ASSUME ~disturbed
        PROVE  SortedSoFar'
    BY <1>2, <1>3, <2>2, <2>4, <2>5, <2>6 DEF SortedSoFar, At, Entry
  <2> QED
    BY <1>0, <1>1, <1>4, <2>2, <2>4, <2>6, LoopStep
<1>5. CASE /\ rd.j > Len(rd.idx) /\ rd.i < Len(rd.idx)
           /\ rd' = [rd EXCEPT !.i = @ + 1, !.j = rd.i + 2]
  <2>1. /\ rd'.i = i + 1 /\ rd'.j = i + 2 /\ rd'.pc = "sort" /\ rd'.idx = rd.idx
        /\ rd'.ptr \in Ptr \cup {NoPtr}
        /\ rd' = [rd EXCEPT !.i = rd'.i, !.j = rd'.j, !.ptr = rd'.ptr, !.pc = rd'.pc]
    BY <1>0, <1>1, <1>5 DEF Report
  <2>2. ASSUME ~disturbed
        PROVE  SortedSoFar'
    <3>1. ASSUME NEW k \in 1..n, NEW l \in 1..n, k < l,
                 k < i + 1 \/ (k = i + 1 /\ l < i + 2)
          PROVE  Above(k) < Above(l)
      <4>1. k < i \/ (k = i /\ l < j)
        BY <1>0, <1>1, <1>5, <3>1
      <4> QED
        BY <1>2, <2>2, <3>1, <4>1
    <3> QED
      BY <1>3, <2>1, <3>1 DEF SortedSoFar, At
  <2>3. i + 1 \in Nat /\ i + 2 \in Nat /\ i + 1 >= 1 /\ i + 2 > i + 1
    BY <1>1
  <2> QED
    BY <1>1, <2>1, <2>2, <2>3, LoopStep
<1>6. CASE /\ rd.j > Len(rd.idx) /\ rd.i >= Len(rd.idx)
           /\ rd' = [rd EXCEPT !.i = 1, !.pc = "header"]
  <2>1. /\ rd'.i = 1 /\ rd'.j = j /\ rd'.pc = "header" /\ rd'.idx = rd.idx
        /\ rd'.ptr \in Ptr \cup {NoPtr}
        /\ rd' = [rd EXCEPT !.i = rd'.i, !.j = rd'.j, !.ptr = rd'.ptr, !.pc = rd'.pc]
    BY <1>0, <1>1, <1>6 DEF Report
  <2>2. ASSUME ~disturbed
        PROVE  SortedSoFar'
    <3>1. ASSUME NEW k \in 1..n, NEW l \in 1..n, k < l
          PROVE  Above(k) < Above(l)
      <4>1. k < i
        BY <1>0, <1>1, <1>6, <3>1
      <4> QED
        BY <1>2, <2>2, <3>1, <4>1
    <3> QED
      BY <1>3, <2>1, <3>1 DEF SortedSoFar, At
  <2> QED
    BY <1>1, <2>1, <2>2, LoopStep
<1> QED
  BY <1>4, <1>5, <1>6 DEF Sort

(* A step that goes on to write, or writes, and leaves the indices alone:  *)
(* what is to be shown are the entries, and that a slot that nothing was   *)
(* done to is copied as it is.                                             *)
LEMMA WriteStep ==
  ASSUME CoreInv, ReportInv, UNCHANGED <<vars, disturbed, seen, stable>>,
         rd' \in Report, held' \in Seq(SUBSET Rows),
         rd.pc \in {"header", "copy"}, rd'.pc \in {"copy", "done"},
         rd'.kind = rd.kind, rd'.room = rd.room, rd'.idx = rd.idx,
         rd'.stats = rd.stats, rd'.drops = rd.drops, rd'.again = rd.again,
         rd.kind # "snapshot" => ~rd'.overflow,
         rd'.pc = "done" => rd'.read = {},
         WritingInv', HeldInv',
         \A k \in 1..Len(rd'.listed) :
            ~disturbed \/ rd.idx[k] \in stable => rd'.listed[k] = Row(Entry(k)),
         ~disturbed \/ rd.idx[rd'.i] \in stable =>
            \A f \in rd'.read : rd'.row[f] = Row(Entry(rd'.i))[f],
         ~disturbed /\ rd.kind = "snapshot" => (rd'.overflow <=> Len(rd.idx) > rd.room)
  PROVE  ReportInv'
<1>1. /\ table' = table /\ disturbed' = disturbed /\ seen' = seen /\ stable' = stable
      /\ UsedSlots(table') = UsedSlots(table) /\ SlotRows' = SlotRows
      /\ UNCHANGED <<used_count, total_allocs, total_frees, drop_count>>
  BY DEF vars, trackerVars, totalVars, SlotRows, UsedSlots
<1>2. /\ Active' = Active /\ Gathered /\ Gathered' /\ Writing' /\ Places' = Places
      /\ ~rd.again
      /\ \A k : Entry(k)' = Entry(k) /\ Above(k)' = Above(k)
      /\ \A k : Row(Entry(k))' = Row(Entry(k))
  <2>1. rd.kind \in {"leaks", "snapshot"} \/ (rd.kind = "uart" /\ Active > 0)
    BY DEF ReportInv, PhaseInv, ReportTypes, Report, Kind, At, Counting
  <2>2. Active' = Active
    BY DEF Active
  <2>3. Lists'
    BY <2>1, <2>2 DEF Lists
  <2>4. ~rd.again
    BY DEF ReportInv, PhaseInv, Counting
  <2>5. Places' = Places /\ \A k : Entry(k)' = Entry(k)
    BY <1>1 DEF Places, Entry
  <2>6. \A k : Above(k)' = Above(k)
    BY <2>5 DEF Above
  <2>7. ASSUME NEW k PROVE Row(Entry(k))' = Row(Entry(k))
    <3>1. Entry(k)' = Entry(k)
      BY <2>5
    <3> QED
      BY <3>1 DEF Row
  <2> QED
    BY <2>2, <2>3, <2>4, <2>5, <2>6, <2>7 DEF Gathered, Writing, At
<1>3. ReportTypes' /\ OnceInv'
  BY <1>1, <1>2 DEF ReportInv, ReportTypes, OnceInv
<1>4. PhaseInv'
  BY <1>1, <1>2 DEF ReportInv, PhaseInv, At, Counting, Reading
<1>5. SeenInv'
  BY <1>1, <1>2 DEF ReportInv, SeenInv, At
<1>6. StableInv'
  <2>1. \A k \in 1..Len(rd'.listed) :
          rd.idx[k] \in stable => rd'.listed[k] = Row(Entry(k))
    OBVIOUS
  <2> QED
    BY <1>1, <1>2, <2>1 DEF ReportInv, StableInv, At
<1>7. QuietInv'
  <2> SUFFICES ASSUME ~disturbed
               PROVE  QuietCounts' /\ QuietIndices' /\ QuietListed'
    BY <1>1 DEF QuietInv
  <2>1. QuietCounts'
    BY <1>1 DEF ReportInv, QuietInv, QuietCounts, Counting
  <2>2. QuietIndices'
    BY <1>1, <1>2 DEF ReportInv, QuietInv, QuietIndices, At, Writing
  <2>3. QuietListed'
    BY <1>1, <1>2 DEF QuietListed, At
  <2> QED
    BY <2>1, <2>2, <2>3
<1> QED
  BY <1>3, <1>4, <1>5, <1>6, <1>7 DEF ReportInv

(* The header: how many records will be written. *)
LEMMA HeaderStep ==
  ASSUME CoreInv, ReportInv, Header
  PROVE  ReportInv'
<1> DEFINE ov == Overflows
           c == IF Overflows THEN rd.room ELSE Len(rd.idx)
<1>1. /\ rd \in Report /\ rd.pc = "header" /\ ReadOnly /\ rd.i = 1
      /\ Len(rd.idx) \in Nat /\ rd.room \in Nat /\ seq \in Word
      /\ rd.listed = <<>> /\ held = <<>> /\ rd.read = {} /\ Len(<<>>) = 0
      /\ held \in Seq(SUBSET Rows)
  BY IndicesAreSlots, CountersAreWords, EmptyReport
     DEF ReportInv, PhaseInv, Writing, Reading, At, Report, Header
<1>2. /\ ov \in BOOLEAN /\ (ov <=> rd.kind = "snapshot" /\ Len(rd.idx) > rd.room)
      /\ c = IF ov THEN rd.room ELSE Len(rd.idx)
  BY DEF Overflows
<1>3. rd' = [rd EXCEPT !.pc = "copy", !.seq = seq, !.overflow = ov, !.count = c]
  BY DEF Header
<1> HIDE DEF ov, c
<1>4. c \in Nat
  BY <1>1, <1>2
<1>5. rd' \in Report
  BY <1>1, <1>2, <1>3, <1>4 DEF Report, Stage
<1>6. /\ rd'.pc = "copy" /\ rd'.kind = rd.kind /\ rd'.room = rd.room /\ rd'.i = 1
      /\ rd'.idx = rd.idx /\ rd'.stats = rd.stats /\ rd'.drops = rd.drops
      /\ rd'.overflow = ov /\ rd'.count = c /\ rd'.listed = <<>>
      /\ rd'.again = rd.again /\ rd'.read = {}
  BY <1>1, <1>3 DEF Report
<1>7. held' = held /\ UNCHANGED <<vars, disturbed, seen, stable>>
  BY <1>1 DEF ReadOnly, historyVars
<1>8. WritingInv' /\ HeldInv'
  BY <1>1, <1>2, <1>4, <1>6, <1>7 DEF WritingInv, HeldInv, Reading, At
<1> QED
  BY <1>1, <1>2, <1>5, <1>6, <1>7, <1>8, WriteStep

(* Where a report that is copying entries is. *)
LEMMA Copying ==
  ASSUME ReportInv, At("copy")
  PROVE  /\ rd \in Report /\ rd.pc = "copy" /\ Writing
         /\ Len(rd.idx) \in Nat /\ rd.i \in Nat /\ rd.count \in Nat
         /\ Len(rd.listed) \in Nat /\ rd.listed \in Seq(Rows)
         /\ held \in Seq(SUBSET Rows) /\ rd.read \subseteq Field /\ rd.row \in Rows
         /\ rd.i = Len(rd.listed) + 1 /\ rd.i <= rd.count + 1
         /\ rd.count <= Len(rd.idx)
         /\ ~rd.overflow => rd.count = Len(rd.idx)
         /\ rd.overflow => rd.count = rd.room /\ rd.count < Len(rd.idx)
         /\ rd.kind = "snapshot" => rd.count <= rd.room
         /\ rd.kind # "snapshot" => ~rd.overflow
         /\ Reading => rd.i <= rd.count /\ Len(held) = rd.i
         /\ ~Reading => Len(held) = Len(rd.listed)
         /\ \A k \in 1..Len(rd.listed) :
               ~disturbed \/ rd.idx[k] \in stable => rd.listed[k] = Row(Entry(k))
         /\ ~disturbed \/ rd.idx[rd.i] \in stable =>
               \A f \in rd.read : rd.row[f] = Row(Entry(rd.i))[f]
         /\ ~disturbed /\ rd.kind = "snapshot" =>
               (rd.overflow <=> Len(rd.idx) > rd.room)
<1>1. /\ rd \in Report /\ rd.pc = "copy" /\ Writing
      /\ Len(rd.idx) \in Nat /\ rd.i \in Nat /\ rd.count \in Nat
      /\ Len(rd.listed) \in Nat /\ rd.listed \in Seq(Rows)
      /\ held \in Seq(SUBSET Rows) /\ rd.read \subseteq Field /\ rd.row \in Rows
  BY IndicesAreSlots DEF ReportInv, Writing, At, Report
<1>2. /\ rd.i = Len(rd.listed) + 1 /\ rd.i <= rd.count + 1
      /\ rd.count <= Len(rd.idx)
      /\ ~rd.overflow => rd.count = Len(rd.idx)
      /\ rd.overflow => rd.count = rd.room /\ rd.count < Len(rd.idx)
      /\ rd.kind = "snapshot" => rd.count <= rd.room
      /\ rd.kind # "snapshot" => ~rd.overflow
      /\ Reading => rd.i <= rd.count /\ Len(held) = rd.i
      /\ ~Reading => Len(held) = Len(rd.listed)
  BY <1>1 DEF ReportInv, WritingInv, PhaseInv
<1>3. ASSUME ~disturbed
      PROVE  /\ \A k \in 1..Len(rd.listed) : rd.listed[k] = Row(Entry(k))
             /\ \A f \in rd.read : rd.row[f] = Row(Entry(rd.i))[f]
             /\ rd.kind = "snapshot" => (rd.overflow <=> Len(rd.idx) > rd.room)
  BY <1>1, <1>3 DEF ReportInv, QuietInv, QuietListed
<1>4. /\ \A k \in 1..Len(rd.listed) :
            rd.idx[k] \in stable => rd.listed[k] = Row(Entry(k))
      /\ rd.idx[rd.i] \in stable =>
            \A f \in rd.read : rd.row[f] = Row(Entry(rd.i))[f]
  BY DEF ReportInv, StableInv
<1> QED
  BY <1>1, <1>2, <1>3, <1>4

(* A field is read: the slot holds the row of its record now, which is      *)
(* among those that the fields read of this entry are from.                 *)
LEMMA CopyFieldStep ==
  ASSUME CoreInv, ReportInv, NEW f \in Field, CopyField(f)
  PROVE  ReportInv'
<1>0. PICK i, m, row, w, R : /\ i = rd.i /\ m = Len(rd.listed) /\ row = Row(Entry(i))
                             /\ w = [rd.row EXCEPT ![f] = row[f]]
                             /\ R = rd.read \cup {f}
  OBVIOUS
<1>1. /\ rd \in Report /\ At("copy") /\ rd.pc = "copy" /\ i <= rd.count
      /\ UNCHANGED <<vars, disturbed, seen, stable>>
      /\ i \in Nat /\ m \in Nat /\ rd.count \in Nat /\ Len(rd.idx) \in Nat
      /\ i = m + 1 /\ rd.count <= Len(rd.idx) /\ R \subseteq Field
      /\ rd.listed \in Seq(Rows) /\ held \in Seq(SUBSET Rows) /\ rd.row \in Rows
  BY <1>0, Copying DEF CopyField
<1>2. i \in Places /\ rd.idx[i] \in Slot
  BY <1>1, IndicesAreSlots DEF Places, ReportInv
<1>3. row \in Rows
  <2>1. Entry(i) \in AllocRec
    BY <1>2 DEF Entry, CoreInv, StateTypeOK
  <2> QED
    BY <1>0, <2>1, RowEffect
<1>4. /\ w \in Rows /\ w[f] = row[f]
      /\ \A g \in Field : g # f => w[g] = rd.row[g]
  BY <1>0, <1>1, <1>3 DEF Rows
<1>5. <<rd.idx[i], row>> \in seen
  BY <1>0, <1>2 DEF ReportInv, SeenInv
<1>6. held' = IF rd.read = {} THEN Append(held, {row}) ELSE held
  BY <1>0 DEF CopyField, Entry
<1>7. /\ held' \in Seq(SUBSET Rows) /\ Len(held') = i
      /\ row \in held'[i]
      /\ \A k \in 1..m : held'[k] = held[k]
      /\ \A x \in held'[i] : <<rd.idx[i], x>> \in seen
      /\ \A g \in R : \E x \in held'[i] : w[g] = x[g]
  <2>1. CASE rd.read = {}
    <3>1. Len(held) = m
      BY <1>0, <1>1, <2>1, Copying DEF Reading
    <3>2. PICK y \in Seq(SUBSET Rows) : y = held
      BY <1>1
    <3>3. {row} \in SUBSET Rows
      BY <1>3
    <3>4. /\ Append(y, {row}) \in Seq(SUBSET Rows) /\ Len(Append(y, {row})) = Len(y) + 1
          /\ Append(y, {row})[Len(y) + 1] = {row}
          /\ \A k \in 1..Len(y) : Append(y, {row})[k] = y[k]
      BY <3>3, AppendProperties
    <3>5. /\ held' \in Seq(SUBSET Rows) /\ Len(held') = i /\ held'[i] = {row}
          /\ \A k \in 1..m : held'[k] = held[k]
      BY <1>1, <1>6, <2>1, <3>1, <3>2, <3>4
    <3>6. R = {f}
      BY <1>0, <2>1
    <3> QED
      BY <1>4, <1>5, <3>5, <3>6
  <2>2. CASE rd.read # {}
    <3>1. held' = held /\ Len(held) = i
      BY <1>0, <1>1, <1>6, <2>2, Copying DEF Reading
    <3>2. /\ \A x \in held[i] : <<rd.idx[i], x>> \in seen
          /\ row \in held[i]
          /\ \A g \in rd.read : \E x \in held[i] : rd.row[g] = x[g]
      <4>1. i \in 1..Len(held)
        BY <1>1, <3>1
      <4> QED
        BY <1>0, <2>2, <4>1 DEF ReportInv, HeldInv, Reading
    <3>3. ASSUME NEW g \in R
          PROVE  \E x \in held'[i] : w[g] = x[g]
      <4>1. CASE g = f
        BY <1>4, <3>1, <3>2, <4>1
      <4>2. CASE g # f
        <5>1. g \in rd.read /\ w[g] = rd.row[g]
          BY <1>0, <1>1, <1>4, <4>2
        <5> QED
          BY <3>1, <3>2, <5>1
      <4> QED
        BY <4>1, <4>2
    <3> QED
      BY <1>1, <3>1, <3>2, <3>3
  <2> QED
    BY <2>1, <2>2
<1>8. \A k \in 1..m : /\ \A x \in held'[k] : <<rd.idx[k], x>> \in seen
                      /\ \A g \in Field : \E x \in held'[k] : rd.listed[k][g] = x[g]
  <2>1. m <= Len(held) /\ Len(held) \in Nat
    BY <1>0, <1>1, Copying
  <2>2. \A k \in 1..m : k \in 1..Len(held)
    BY <1>1, <2>1
  <2> QED
    BY <1>0, <1>7, <2>2 DEF ReportInv, HeldInv
<1>9. ASSUME ~disturbed \/ rd.idx[i] \in stable, NEW g \in R
      PROVE  w[g] = row[g]
  BY <1>0, <1>1, <1>4, <1>9, Copying
<1>10. /\ \A k \in 1..m : ~disturbed \/ rd.idx[k] \in stable =>
                             rd.listed[k] = Row(Entry(k))
       /\ rd.kind # "snapshot" => ~rd.overflow
       /\ ~disturbed /\ rd.kind = "snapshot" => (rd.overflow <=> Len(rd.idx) > rd.room)
       /\ ~rd.overflow => rd.count = Len(rd.idx)
       /\ rd.overflow => rd.count = rd.room /\ rd.count < Len(rd.idx)
       /\ rd.kind = "snapshot" => rd.count <= rd.room
  BY <1>0, <1>1, Copying
<1>11. CASE R = Field
  <2>1. rd' = [rd EXCEPT !.i = i + 1, !.read = {}, !.row = NoRow,
                  !.listed = Append(rd.listed, w)]
    BY <1>0, <1>11 DEF CopyField, Entry
  <2>2. PICK out \in Seq(Rows) :
          /\ out = Append(rd.listed, w) /\ Len(out) = m + 1 /\ out[m + 1] = w
          /\ \A k \in 1..m : out[k] = rd.listed[k]
    <3>1. PICK y \in Seq(Rows) : y = rd.listed
      BY <1>1
    <3>2. /\ Append(y, w) \in Seq(Rows) /\ Len(Append(y, w)) = Len(y) + 1
          /\ Append(y, w)[Len(y) + 1] = w
          /\ \A k \in 1..Len(y) : Append(y, w)[k] = y[k]
      BY <1>4, AppendProperties
    <3> QED
      BY <1>0, <3>1, <3>2
  <2>3. rd' \in Report
    <3>1. rd' = [rd EXCEPT !.i = i + 1, !.read = {}, !.row = NoRow, !.listed = out]
      BY <2>1, <2>2
    <3>2. i + 1 \in Nat /\ {} \subseteq Field
      BY <1>1
    <3> QED
      BY <1>1, <2>2, <3>1, <3>2, NoRowType DEF Report
  <2>4. /\ rd'.pc = "copy" /\ rd'.kind = rd.kind /\ rd'.room = rd.room /\ rd'.i = i + 1
        /\ rd'.idx = rd.idx /\ rd'.stats = rd.stats /\ rd'.drops = rd.drops
        /\ rd'.overflow = rd.overflow /\ rd'.count = rd.count /\ rd'.listed = out
        /\ rd'.again = rd.again /\ rd'.read = {}
    BY <1>1, <2>1, <2>2 DEF Report
  <2>5. WritingInv'
    BY <1>1, <1>7, <1>10, <2>2, <2>4 DEF WritingInv, Reading, At
  <2>6. ASSUME NEW k \in 1..Len(rd'.listed)
        PROVE  \/ k \in 1..m /\ rd'.listed[k] = rd.listed[k]
               \/ k = i /\ rd'.listed[k] = w
    BY <1>1, <2>2, <2>4, <2>6
  <2>7. HeldInv'
    <3>1. \A k \in 1..Len(held') : \A x \in held'[k] : <<rd'.idx[k], x>> \in seen'
      <4>1. \A k \in 1..Len(held') : k \in 1..m \/ k = i
        BY <1>1, <1>7
      <4> QED
        BY <1>1, <1>7, <1>8, <2>4, <4>1
    <3>2. ASSUME NEW k \in 1..Len(rd'.listed), NEW g \in Field
          PROVE  \E x \in held'[k] : rd'.listed[k][g] = x[g]
      BY <1>7, <1>8, <1>11, <2>6
    <3> QED
      BY <2>4, <3>1, <3>2 DEF HeldInv, Reading
  <2>8. ASSUME NEW k \in 1..Len(rd'.listed), ~disturbed \/ rd.idx[k] \in stable
        PROVE  rd'.listed[k] = Row(Entry(k))
    <3>1. CASE k \in 1..m /\ rd'.listed[k] = rd.listed[k]
      BY <1>10, <2>8, <3>1
    <3>2. CASE k = i /\ rd'.listed[k] = w
      <4>1. \A g \in Field : w[g] = row[g]
        BY <1>9, <1>11, <2>8, <3>2
      <4> QED
        BY <1>0, <1>3, <1>4, <3>2, <4>1, RowsAgree
    <3> QED
      BY <2>6, <3>1, <3>2
  <2>9. /\ rd'.pc # "done" /\ rd'.pc \in {"copy", "done"} /\ rd.pc \in {"header", "copy"}
        /\ \A g \in rd'.read : rd'.row[g] = Row(Entry(rd'.i))[g]
        /\ rd.kind # "snapshot" => ~rd'.overflow
        /\ ~disturbed /\ rd.kind = "snapshot" => (rd'.overflow <=> Len(rd.idx) > rd.room)
    BY <1>1, <1>10, <2>4
  <2> QED
    BY <1>1, <1>7, <2>3, <2>4, <2>5, <2>7, <2>8, <2>9, WriteStep
<1>12. CASE R # Field
  <2>1. rd' = [rd EXCEPT !.read = R, !.row = w]
    BY <1>0, <1>12 DEF CopyField, Entry
  <2>2. rd' \in Report
    BY <1>1, <1>4, <2>1 DEF Report
  <2>3. /\ rd'.pc = "copy" /\ rd'.kind = rd.kind /\ rd'.room = rd.room /\ rd'.i = i
        /\ rd'.idx = rd.idx /\ rd'.stats = rd.stats /\ rd'.drops = rd.drops
        /\ rd'.overflow = rd.overflow /\ rd'.count = rd.count
        /\ rd'.listed = rd.listed /\ rd'.again = rd.again /\ rd'.read = R /\ rd'.row = w
    BY <1>0, <1>1, <2>1 DEF Report
  <2>4. Reading'
    BY <1>0, <2>3 DEF Reading
  <2>5. WritingInv'
    BY <1>0, <1>1, <1>7, <1>10, <2>3, <2>4 DEF WritingInv, At
  <2>6. HeldInv'
    <3>1. \A k \in 1..Len(held') : \A x \in held'[k] : <<rd'.idx[k], x>> \in seen'
      <4>1. \A k \in 1..Len(held') : k \in 1..m \/ k = i
        BY <1>1, <1>7
      <4> QED
        BY <1>1, <1>7, <1>8, <2>3, <4>1
    <3>2. \A k \in 1..Len(rd'.listed) : \A g \in Field :
            \E x \in held'[k] : rd'.listed[k][g] = x[g]
      BY <1>0, <1>8, <2>3
    <3>3. Row(Entry(rd.i))' = row
      <4>1. Entry(i)' = Entry(i)
        BY <1>1, <2>3 DEF Entry, vars, trackerVars
      <4> QED
        BY <1>0, <2>3, <4>1 DEF Row
    <3> QED
      BY <1>7, <2>3, <3>1, <3>2, <3>3 DEF HeldInv
  <2>7. /\ rd'.pc # "done" /\ rd'.pc \in {"copy", "done"} /\ rd.pc \in {"header", "copy"}
        /\ \A k \in 1..Len(rd'.listed) :
              ~disturbed \/ rd.idx[k] \in stable => rd'.listed[k] = Row(Entry(k))
        /\ ~disturbed \/ rd.idx[rd'.i] \in stable =>
              \A g \in rd'.read : rd'.row[g] = Row(Entry(rd'.i))[g]
        /\ rd.kind # "snapshot" => ~rd'.overflow
        /\ ~disturbed /\ rd.kind = "snapshot" => (rd'.overflow <=> Len(rd.idx) > rd.room)
    BY <1>0, <1>1, <1>9, <1>10, <2>3
  <2> QED
    BY <1>1, <1>7, <2>2, <2>3, <2>5, <2>6, <2>7, WriteStep
<1> QED
  BY <1>11, <1>12

(* All entries are written. *)
LEMMA CopyEndStep ==
  ASSUME CoreInv, ReportInv, CopyEnd
  PROVE  ReportInv'
<1>1. /\ rd \in Report /\ At("copy") /\ rd.pc = "copy" /\ rd.i > rd.count /\ ReadOnly
      /\ rd' = [rd EXCEPT !.pc = "done"] /\ held \in Seq(SUBSET Rows)
      /\ Len(rd.listed) \in Nat /\ rd.count \in Nat
      /\ rd.i = Len(rd.listed) + 1 /\ rd.i <= rd.count + 1
  BY Copying DEF CopyEnd
<1>2. ~Reading
  BY <1>1, Copying
<1>3. rd' \in Report
  BY <1>1 DEF Report, Stage
<1>4. /\ rd'.pc = "done" /\ rd'.kind = rd.kind /\ rd'.room = rd.room /\ rd'.i = rd.i
      /\ rd'.idx = rd.idx /\ rd'.stats = rd.stats /\ rd'.drops = rd.drops
      /\ rd'.overflow = rd.overflow /\ rd'.count = rd.count /\ rd'.listed = rd.listed
      /\ rd'.again = rd.again /\ rd'.read = {}
  BY <1>1, <1>2 DEF Report, Reading
<1>5. held' = held /\ UNCHANGED <<vars, disturbed, seen, stable>>
  BY <1>1 DEF ReadOnly, historyVars
<1>6. Len(rd.listed) = rd.count
  BY <1>1
<1>7. WritingInv'
  BY <1>1, <1>2, <1>4, <1>5, <1>6, Copying DEF WritingInv, Reading, At
<1>8. HeldInv'
  BY <1>2, <1>4, <1>5 DEF HeldInv, Reading, ReportInv
<1>9. /\ rd'.pc \in {"copy", "done"} /\ rd.pc \in {"header", "copy"}
      /\ \A k \in 1..Len(rd'.listed) :
            ~disturbed \/ rd.idx[k] \in stable => rd'.listed[k] = Row(Entry(k))
      /\ \A g \in rd'.read : rd'.row[g] = Row(Entry(rd'.i))[g]
      /\ rd.kind # "snapshot" => ~rd'.overflow
      /\ ~disturbed /\ rd.kind = "snapshot" => (rd'.overflow <=> Len(rd.idx) > rd.room)
  BY <1>1, <1>4, Copying
<1> QED
  BY <1>1, <1>3, <1>4, <1>5, <1>7, <1>8, <1>9, WriteStep

(* The tracker is called between two steps of the report. *)
LEMMA DisturbStep ==
  ASSUME CoreInv, CoreInv', ReportInv, Disturb
  PROVE  ReportInv'
<1>1. /\ rd' = rd /\ Next /\ ReportTypes /\ Places' = Places /\ Reading' = Reading
      /\ Writing' = Writing /\ Gathered' = Gathered
  BY DEF Disturb, ReportInv, Places, Writing, Gathered, At, Lists, Active, Reading
<1>2. OnceInv'
  BY <1>1 DEF ReportInv, OnceInv
<1>3. CASE At("idle")
  <2>1. /\ rd.pc = "idle" /\ UNCHANGED <<disturbed, seen, stable, held>>
        /\ rd.idx = <<>> /\ rd.listed = <<>> /\ ~Writing /\ ~Gathered /\ stable = {}
        /\ held = <<>> /\ ~Reading /\ Len(<<>>) = 0
    BY <1>3, EmptyReport
       DEF Disturb, ReportInv, PhaseInv, At, Writing, Gathered, Counting, historyVars
  <2>2. ReportTypes' /\ PhaseInv' /\ WritingInv'
    BY <1>1, <2>1
       DEF ReportInv, ReportTypes, PhaseInv, WritingInv, At, Active, Counting
  <2>3. SeenInv' /\ HeldInv' /\ StableInv'
    BY <1>1, <2>1 DEF SeenInv, HeldInv, StableInv, At, Places, UsedSlots
  <2>4. QuietInv'
    BY <1>1, <2>1
       DEF QuietInv, QuietCounts, QuietIndices, QuietListed, At, ReportInv, PhaseInv,
           Counting
  <2> QED
    BY <1>2, <2>2, <2>3, <2>4 DEF ReportInv
<1>4. CASE ~At("idle")
  <2>1. /\ disturbed' = TRUE /\ seen' = seen \cup SlotRows'
        /\ stable' = {s \in stable : table'[s] = table[s]} /\ ~At("idle")'
        /\ held' = IF rd.read = {} THEN held
                   ELSE [held EXCEPT ![rd.i] = @ \cup {Row(table'[rd.idx[rd.i]])}]
    BY <1>1, <1>4 DEF Disturb, At
  <2>2. ASSUME NEW k \in Places
        PROVE  <<rd.idx[k], Row(table'[rd.idx[k]])>> \in seen'
    <3>1. rd.idx[k] \in Slot
      BY <1>1, IndicesAreSlots
    <3>2. CASE rd.idx[k] \in UsedSlots(table')
      BY <2>1, <3>2 DEF SlotRows
    <3>3. CASE SameRecord(table[rd.idx[k]], table'[rd.idx[k]])
      <4>1. Row(table'[rd.idx[k]]) = Row(table[rd.idx[k]])
        BY <3>3, SameRow
      <4>2. <<rd.idx[k], Row(table[rd.idx[k]])>> \in seen
        BY DEF ReportInv, SeenInv, Entry
      <4> QED
        BY <2>1, <4>1, <4>2
    <3> QED
      BY <1>1, <3>1, <3>2, <3>3, SlotStep
  <2>3. SeenInv'
    <3>1. ASSUME NEW k \in Places' PROVE <<rd.idx[k], Row(Entry(k))>>' \in seen'
      <4>1. Entry(k)' = table'[rd.idx[k]]
        BY <1>1 DEF Entry
      <4>2. Row(Entry(k))' = Row(table'[rd.idx[k]])
        BY <4>1 DEF Row
      <4> QED
        BY <1>1, <2>2, <4>2
    <3>2. SlotRows' \subseteq seen'
      BY <2>1
    <3> QED
      BY <3>1, <3>2 DEF SeenInv
  <2>4. /\ held' \in Seq(SUBSET Rows) /\ Len(held') = Len(held)
        /\ \A k \in 1..Len(held) : held[k] \subseteq held'[k]
        /\ \A k \in 1..Len(held) : \A row \in held'[k] : <<rd.idx[k], row>> \in seen'
        /\ Reading => Row(table'[rd.idx[rd.i]]) \in held'[rd.i] /\ rd.i \in 1..Len(held)
    <3>1. \A k \in 1..Len(held) : \A row \in held[k] : <<rd.idx[k], row>> \in seen'
      BY <2>1 DEF ReportInv, HeldInv
    <3>2. CASE rd.read = {}
      BY <1>1, <2>1, <3>1, <3>2 DEF ReportTypes, Reading
    <3>3. CASE rd.read # {}
      <4>0. PICK i, row, x, y : /\ i = rd.i /\ row = Row(table'[rd.idx[i]])
                                /\ x = held /\ y = held[i] \cup {row}
        OBVIOUS
      <4>1. At("copy")
        BY <3>3 DEF ReportInv, PhaseInv, Reading
      <4>2. i \in 1..Len(x) /\ i \in Places /\ x \in Seq(SUBSET Rows)
        BY <3>3, <4>0, <4>1, Copying DEF Reading, Places
      <4>3. row \in Rows
        <5>1. rd.idx[i] \in Slot
          BY <1>1, <4>2, IndicesAreSlots
        <5>2. table'[rd.idx[i]] \in AllocRec
          BY <5>1 DEF CoreInv, StateTypeOK
        <5> QED
          BY <4>0, <5>2, RowEffect
      <4>4. y \in SUBSET Rows
        BY <4>0, <4>2, <4>3, ElementOfSeq
      <4>5. /\ [x EXCEPT ![i] = y] \in Seq(SUBSET Rows) /\ Len([x EXCEPT ![i] = y]) = Len(x)
            /\ \A k \in 1..Len(x) : [x EXCEPT ![i] = y][k] = IF k = i THEN y ELSE x[k]
        BY <4>2, <4>4, ExceptSeq
      <4>6. held' = [x EXCEPT ![i] = y]
        BY <2>1, <3>3, <4>0
      <4>7. <<rd.idx[i], row>> \in seen'
        BY <2>2, <4>0, <4>2
      <4>8. /\ held' \in Seq(SUBSET Rows) /\ Len(held') = Len(held)
            /\ \A k \in 1..Len(held) : held'[k] = IF k = i THEN y ELSE held[k]
        BY <4>0, <4>5, <4>6
      <4>9. \A k \in 1..Len(held) : \A r \in held'[k] : <<rd.idx[k], r>> \in seen'
        BY <3>1, <4>0, <4>7, <4>8
      <4> QED
        BY <4>0, <4>2, <4>8, <4>9
    <3> QED
      BY <3>2, <3>3
  <2>5. ReportTypes' /\ PhaseInv' /\ WritingInv'
    <3>1. ReportTypes'
      BY <1>1, <2>4 DEF ReportTypes
    <3>2. ~Writing => held' = held
      BY <2>1 DEF ReportInv, PhaseInv, Writing, Reading, At
    <3>3. PhaseInv'
      BY <1>1, <2>1, <3>2 DEF ReportInv, PhaseInv, At, Active, Counting
    <3>4. WritingInv'
      BY <1>1, <2>4 DEF ReportInv, WritingInv, At
    <3> QED
      BY <3>1, <3>3, <3>4
  <2>6. HeldInv'
    <3>1. \A k \in 1..Len(rd.listed) : k \in 1..Len(held)
      BY <1>1, IndicesAreSlots, EmptyReport DEF ReportInv, WritingInv, PhaseInv
    <3>2. \A k \in 1..Len(rd.listed) : \A f \in Field :
            \E row \in held'[k] : rd.listed[k][f] = row[f]
      BY <2>4, <3>1 DEF ReportInv, HeldInv
    <3>3. ASSUME Reading
          PROVE  /\ Row(Entry(rd.i))' \in held'[rd.i]
                 /\ \A f \in rd.read : \E row \in held'[rd.i] : rd.row[f] = row[f]
      <4>1. Row(Entry(rd.i))' = Row(table'[rd.idx[rd.i]])
        BY <1>1 DEF Entry, Row
      <4>2. \A f \in rd.read : \E row \in held[rd.i] : rd.row[f] = row[f]
        BY <3>3 DEF ReportInv, HeldInv
      <4> QED
        BY <2>4, <3>3, <4>1, <4>2
    <3> QED
      BY <1>1, <2>4, <3>2, <3>3 DEF HeldInv
  <2>7. StableInv'
    <3>1. stable' \subseteq stable /\ \A s \in stable' : table'[s] = table[s]
      BY <2>1
    <3>2. stable' \subseteq UsedSlots(table')
      BY <3>1 DEF ReportInv, StableInv, UsedSlots
    <3>3. ASSUME NEW k, rd.idx[k] \in stable'
          PROVE  Row(Entry(k))' = Row(Entry(k))
      <4>1. Entry(k)' = Entry(k)
        BY <1>1, <3>1, <3>3 DEF Entry
      <4> QED
        BY <4>1 DEF Row
    <3> QED
      BY <1>1, <3>1, <3>2, <3>3 DEF ReportInv, StableInv, At
  <2>8. QuietInv'
    BY <2>1 DEF QuietInv
  <2> QED
    BY <1>2, <2>3, <2>5, <2>6, <2>7, <2>8 DEF ReportInv
<1> QED
  BY <1>3, <1>4

(* Nothing changes. *)
LEMMA NothingStep ==
  ASSUME ReportInv, UNCHANGED readersVars
  PROVE  ReportInv'
<1>1. /\ rd' = rd /\ table' = table /\ disturbed' = disturbed /\ seen' = seen
      /\ stable' = stable /\ held' = held
      /\ UNCHANGED <<used_count, total_allocs, total_frees, drop_count>>
  BY DEF readersVars, historyVars, vars, trackerVars, totalVars
<1>2. /\ Places' = Places /\ Writing' = Writing /\ Gathered' = Gathered
      /\ UsedSlots(table') = UsedSlots(table) /\ SlotRows' = SlotRows
      /\ Active' = Active /\ Reading' = Reading
      /\ \A k : Entry(k)' = Entry(k) /\ Above(k)' = Above(k)
  BY <1>1
     DEF Places, Writing, Gathered, Reading, At, Lists, Active, SlotRows, UsedSlots,
         Entry, Above
<1>3. ASSUME NEW k PROVE Row(Entry(k))' = Row(Entry(k))
  <2>1. Entry(k)' = Entry(k)
    BY <1>2
  <2> QED
    BY <2>1 DEF Row
<1>4. ReportTypes' /\ PhaseInv' /\ WritingInv' /\ OnceInv'
  BY <1>1, <1>2 DEF ReportInv, ReportTypes, PhaseInv, WritingInv, OnceInv, At, Counting
<1>5. SeenInv' /\ HeldInv' /\ StableInv'
  BY <1>1, <1>2, <1>3 DEF ReportInv, SeenInv, HeldInv, StableInv, At
<1>6. QuietInv'
  BY <1>1, <1>2, <1>3
     DEF ReportInv, QuietInv, QuietCounts, QuietIndices, QuietListed, At, Counting
<1> QED
  BY <1>4, <1>5, <1>6 DEF ReportInv

-----------------------------------------------------------------------------
(* The invariant holds *)

ReadersInv == CoreInv /\ ReportInv

(* The invariant holds before the first report. *)
LEMMA ReadersInvInit == ReadersInit => ReadersInv
<1> SUFFICES ASSUME ReadersInit PROVE ReadersInv
  OBVIOUS
<1>1. CoreInv
  BY CoreInvInit DEF ReadersInit
<1>2. /\ rd = NoReport /\ seen = {} /\ stable = {} /\ held = <<>>
      /\ rd.kind = "none" /\ rd.pc = "idle" /\ rd.overflow = FALSE
      /\ rd.idx = <<>> /\ rd.listed = <<>> /\ rd.i = 0 /\ Len(<<>>) = 0
      /\ rd.again = FALSE /\ rd.read = {}
  BY EmptyReport DEF ReadersInit, NoReport
<1>3. ReportTypes /\ PhaseInv /\ WritingInv
  BY <1>2, EmptyReport
     DEF ReportTypes, PhaseInv, WritingInv, Writing, Reading, At, Places, Counting,
         Kind, Lists
<1>4. OnceInv /\ SeenInv /\ HeldInv /\ StableInv
  BY <1>2
     DEF OnceInv, SeenInv, HeldInv, StableInv, Reading, Places, At, Gathered, Writing
<1>5. QuietInv
  BY <1>2
     DEF QuietInv, QuietCounts, QuietIndices, QuietListed, Places, At, Gathered,
         Writing, Slot, Counting
<1> QED
  BY <1>1, <1>3, <1>4, <1>5 DEF ReadersInv, ReportInv

(* A step of the readers is a step of the tracker, or leaves it alone. *)
LEMMA TrackerSteps == [ReadersNext]_readersVars => [Next]_vars
<1>1. Disturb => Next
  BY DEF Disturb
<1>2. ReportStep => UNCHANGED vars
  BY DEF ReportStep, ReadCore, ReadUsed, ReadTombstones, ReadDrops, Collect, Sort,
         Compare, Header, CopyField, CopyEnd, ReadOnly
<1>3. \A kind, room : Begin(kind, room) => UNCHANGED vars
  BY DEF Begin
<1> QED
  BY <1>1, <1>2, <1>3 DEF ReadersNext, Return, readersVars

(* The invariant is kept by each step. *)
LEMMA ReadersInvStep == ReadersInv /\ [ReadersNext]_readersVars => ReadersInv'
<1> SUFFICES ASSUME ReadersInv, [ReadersNext]_readersVars
             PROVE  ReadersInv'
  OBVIOUS
<1>1. CoreInv /\ ReportInv /\ CoreInv'
  BY TrackerSteps, CoreInvStep DEF ReadersInv
<1> SUFFICES ReportInv'
  BY <1>1 DEF ReadersInv
<1>2. ASSUME NEW kind \in Kind \ {"snapshot"}, Begin(kind, 0)
      PROVE  ReportInv'
  BY <1>1, <1>2, BeginStep
<1>3. ASSUME NEW room \in Rooms, Begin("snapshot", room)
      PROVE  ReportInv'
  <2>1. room \in Nat /\ "snapshot" \in Kind
    BY MTReadersAssumption DEF Kind
  <2> QED
    BY <1>1, <1>3, <2>1, BeginStep
<1>4. CASE ReportStep
  <2>1. ASSUME NEW f \in Field, CopyField(f) PROVE ReportInv'
    BY <1>1, <2>1, CopyFieldStep
  <2> QED
    BY <1>1, <1>4, <2>1, ReadCoreStep, ReadUsedStep, ReadTombstonesStep, ReadDropsStep,
       CollectStep, SortStep, CompareStep, HeaderStep, CopyEndStep DEF ReportStep
<1>5. CASE Return
  BY <1>1, <1>5, ReturnStep
<1>6. CASE Disturb
  BY <1>1, <1>6, DisturbStep
<1>7. CASE UNCHANGED readersVars
  BY <1>1, <1>7, NothingStep
<1> QED
  BY <1>2, <1>3, <1>4, <1>5, <1>6, <1>7 DEF ReadersNext

(* Every variable of a report keeps its type and its loops their place,     *)
(* whatever the tracker does between two of its steps.                      *)
THEOREM ReadersInvariant == ReadersSpec => []ReadersInv
<1> QED
  BY ReadersInvInit, ReadersInvStep, PTL DEF ReadersSpec

(* No slot is listed twice, also when addresses change under the sort. *)
THEOREM ListedOnce == ReadersSpec => []NoSlotTwice
<1>1. ReadersInv => NoSlotTwice
  <2> SUFFICES ASSUME ReadersInv PROVE NoSlotTwice
    OBVIOUS
  <2>1. DOMAIN rd.idx = Places
    BY IndicesAreSlots, LenProperties DEF ReadersInv, ReportInv, Places
  <2> QED
    BY <2>1 DEF ReadersInv, ReportInv, OnceInv, NoSlotTwice
<1> QED
  BY <1>1, ReadersInvariant, PTL

(* Each field that is listed is that of a record which the slot held while  *)
(* the entry was copied, an entry whose slot was left alone meanwhile is    *)
(* its record, and what is listed in a snapshot fits its buffer.            *)
THEOREM ListedWasThere == ReadersSpec => []ListedExisted
<1>1. ReadersInv => ListedExisted
  <2> SUFFICES ASSUME ReadersInv PROVE ListedExisted
    OBVIOUS
  <2>1. /\ DOMAIN rd.listed = 1..Len(rd.listed) /\ Len(rd.listed) \in Nat
        /\ held \in Seq(SUBSET Rows) /\ rd.listed \in Seq(Rows)
    BY IndicesAreSlots, LenProperties DEF ReadersInv, ReportInv
  <2>2. rd.kind = "snapshot" => Len(rd.listed) <= rd.room
    <3>1. rd.room \in Nat /\ rd.count \in Nat /\ rd.i \in Nat
      BY DEF ReadersInv, ReportInv, ReportTypes, Report
    <3>2. CASE Writing
      <4>1. Len(rd.listed) + 1 <= rd.count + 1
            /\ (rd.kind = "snapshot" => rd.count <= rd.room)
        BY <3>2 DEF ReadersInv, ReportInv, WritingInv
      <4> QED
        BY <2>1, <3>1, <4>1
    <3>3. CASE ~Writing
      BY <3>1, <3>3, EmptyReport DEF ReadersInv, ReportInv, PhaseInv
    <3> QED
      BY <3>2, <3>3
  <2>3. ASSUME NEW k \in 1..Len(rd.listed)
        PROVE  /\ \A f \in Field : \E row \in held[k] : rd.listed[k][f] = row[f]
               /\ \A row \in held[k] : held[k] = {row} => rd.listed[k] = row
               /\ \A row \in held[k] : <<rd.idx[k], row>> \in seen
    <3>1. k \in 1..Len(held)
      BY <2>1, IndicesAreSlots, EmptyReport
         DEF ReadersInv, ReportInv, WritingInv, PhaseInv
    <3>2. \A f \in Field : \E row \in held[k] : rd.listed[k][f] = row[f]
      BY DEF ReadersInv, ReportInv, HeldInv
    <3>3. \A row \in held[k] : <<rd.idx[k], row>> \in seen
      BY <3>1 DEF ReadersInv, ReportInv, HeldInv
    <3>4. held[k] \in SUBSET Rows /\ rd.listed[k] \in Rows
      BY <2>1, <3>1, ElementOfSeq
    <3>5. ASSUME NEW row \in held[k], held[k] = {row}
          PROVE  rd.listed[k] = row
      <4>1. \A f \in Field : rd.listed[k][f] = row[f]
        BY <3>2, <3>5
      <4> QED
        BY <3>4, <4>1, RowsAgree
    <3> QED
      BY <3>2, <3>3, <3>5
  <2> QED
    BY <2>1, <2>2, <2>3 DEF ListedExisted
<1> QED
  BY <1>1, ReadersInvariant, PTL

(* A record that stayed as it was during the whole report is listed, unless *)
(* the snapshot says that not all fitted.                                   *)
THEOREM StableIsListed == ReadersSpec => []StableListed
<1>1. ReadersInv => StableListed
  <2> SUFFICES ASSUME ReadersInv, At("done"), Lists, ~rd.overflow, NEW s \in stable
               PROVE  \E k \in DOMAIN rd.listed : rd.listed[k] = Row(table[s])
    BY DEF StableListed
  <2>1. DOMAIN rd.listed = 1..Len(rd.listed)
    BY IndicesAreSlots, LenProperties DEF ReadersInv, ReportInv
  <2>2. Writing /\ Gathered /\ Len(rd.listed) = Len(rd.idx)
    BY DEF ReadersInv, ReportInv, WritingInv, Writing, Gathered
  <2>3. PICK k \in Places : rd.idx[k] = s
    BY <2>2 DEF ReadersInv, ReportInv, StableInv
  <2>4. k \in 1..Len(rd.listed) /\ rd.listed[k] = Row(table[s])
    BY <2>2, <2>3 DEF ReadersInv, ReportInv, StableInv, Places, Entry
  <2> QED
    BY <2>1, <2>4
<1> QED
  BY <1>1, ReadersInvariant, PTL

-----------------------------------------------------------------------------
(* A report that was left alone *)

(* The listed rows are those of as many collected slots as were counted,    *)
(* and there are as many records as slots that hold one.                    *)
LEMMA QuietListing ==
  ASSUME ReadersInv, At("done"), Lists, ~disturbed
  PROVE  /\ DOMAIN rd.listed = 1..rd.count /\ Len(rd.listed) = rd.count
         /\ rd.count \in Nat /\ rd.count <= Len(rd.idx) /\ Len(rd.idx) \in Nat
         /\ rd.overflow => rd.count = rd.room /\ rd.count < Len(rd.idx)
         /\ ~rd.overflow => rd.count = Len(rd.idx)
         /\ rd.kind = "snapshot" => (rd.overflow <=> Len(rd.idx) > rd.room)
         /\ \A k \in 1..rd.count : k \in Places /\ rd.listed[k] = Row(Entry(k))
         /\ \A k \in Places : Entry(k) \in Records /\ Row(Entry(k)).ptr = Entry(k).ptr
         /\ \A r \in Records : \E k \in Places : r = Entry(k)
         /\ \A k, l \in Places : k < l => Above(k) < Above(l)
<1>1. Writing /\ Gathered
  BY DEF Writing, Gathered
<1>2. /\ DOMAIN rd.listed = 1..Len(rd.listed) /\ Len(rd.listed) \in Nat
      /\ Len(rd.idx) \in Nat /\ \A k \in Places : rd.idx[k] \in Slot
  BY IndicesAreSlots, LenProperties DEF ReadersInv, ReportInv
<1>3. /\ Len(rd.listed) = rd.count /\ rd.count <= Len(rd.idx)
      /\ rd.overflow => rd.count = rd.room /\ rd.count < Len(rd.idx)
      /\ ~rd.overflow => rd.count = Len(rd.idx)
  BY <1>1 DEF ReadersInv, ReportInv, WritingInv
<1>4. /\ \A s \in Slot : s \in UsedSlots(table) <=> \E k \in Places : rd.idx[k] = s
      /\ \A k, l \in Places : k < l => Above(k) < Above(l)
      /\ \A k \in 1..Len(rd.listed) : rd.listed[k] = Row(Entry(k))
      /\ rd.kind = "snapshot" => (rd.overflow <=> Len(rd.idx) > rd.room)
  BY <1>1 DEF ReadersInv, ReportInv, QuietInv, QuietIndices, QuietListed
<1>5. \A k \in 1..rd.count : k \in Places
  BY <1>2, <1>3 DEF Places
<1>6. ASSUME NEW k \in Places
      PROVE  Entry(k) \in Records /\ Row(Entry(k)).ptr = Entry(k).ptr
  <2>1. Entry(k) \in Records
    BY <1>2, <1>4 DEF Records, Entry
  <2>2. Entry(k) \in AllocRec
    BY <1>2 DEF Entry, ReadersInv, CoreInv, StateTypeOK
  <2> QED
    BY <2>1, <2>2, RowEffect
<1>7. \A r \in Records : \E k \in Places : r = Entry(k)
  BY <1>4 DEF Records, UsedSlots, Entry
<1> QED
  BY <1>2, <1>3, <1>4, <1>5, <1>6, <1>7

(* There are as many records as USED slots. *)
LEMMA RecordsCounted ==
  ASSUME CoreInv
  PROVE  IsFiniteSet(Records) /\ Cardinality(Records) = used_count
<1> DEFINE U == UsedSlots(table)
           f == [s \in U |-> table[s]]
<1>1. f \in [U -> Records] /\ \A r \in Records : \E s \in U : f[s] = r
  BY DEF Records
<1>2. \A s, t \in U : f[s] = f[t] => s = t
  BY DEF CoreInv, TableInv
<1>3. f \in Bijection(U, Records)
  BY <1>1, <1>2 DEF Bijection, Injection, IsInjective, Surjection
<1>4. ExistsBijection(U, Records)
  BY <1>3 DEF ExistsBijection
<1>5. IsFiniteSet(U)
  BY UsedFinite
<1> HIDE DEF U, f
<1>6. IsFiniteSet(Records) /\ Cardinality(Records) = Cardinality(U)
  BY <1>4, <1>5, FS_Bijection
<1> QED
  BY <1>6 DEF CoreInv, UsedCountExact, U

(* Of a report that was left alone the places are as many as the records.   *)
LEMMA PlacesCounted ==
  ASSUME ReadersInv, Gathered, ~disturbed
  PROVE  Len(rd.idx) = used_count
<1> DEFINE U == UsedSlots(table)
           f == [k \in Places |-> rd.idx[k]]
<1>1. Len(rd.idx) \in Nat /\ \A k \in Places : rd.idx[k] \in Slot
  BY IndicesAreSlots DEF ReadersInv, ReportInv
<1>2. \A s \in Slot : s \in U <=> \E k \in Places : rd.idx[k] = s
  BY DEF ReadersInv, ReportInv, QuietInv, QuietIndices
<1>3. f \in [Places -> U] /\ \A s \in U : \E k \in Places : f[k] = s
  BY <1>1, <1>2 DEF UsedSlots
<1>4. \A k, l \in Places : f[k] = f[l] => k = l
  BY DEF ReadersInv, ReportInv, OnceInv
<1>5. f \in Bijection(Places, U)
  BY <1>3, <1>4 DEF Bijection, Injection, IsInjective, Surjection
<1>6. ExistsBijection(1..Len(rd.idx), U)
  BY <1>5 DEF ExistsBijection, Places
<1> HIDE DEF U, f
<1>7. Cardinality(U) = Len(rd.idx)
  BY <1>1, <1>6, FS_CountingElements
<1> QED
  BY <1>7 DEF ReadersInv, CoreInv, UsedCountExact, U

(* When the tracker was not called in between, a report is the state of the *)
(* tracker: its counters, all of its records or as many of the lowest as    *)
(* fit, and, in mt_dump_uart, a number of active allocations that is the    *)
(* number of records listed.  The last holds when every allocation goes     *)
(* through the tracker, and until a 32-bit counter wraps.                   *)
THEOREM QuietReport ==
  ASSUME ~PlainClients, MaxOps <= U32Max
  PROVE  ReadersSpec => []QuietReportExact
<1>1. ASSUME ReadersInv, LiveCounted
      PROVE  QuietReportExact
  <2> SUFFICES ASSUME At("done"), ~disturbed
               PROVE  /\ rd.kind # "leaks" =>
                           /\ rd.stats.alloc_count = Cardinality(Records)
                           /\ rd.stats.table_used = Cardinality(Records)
                           /\ rd.drops <=> drop_count > 0
                      /\ rd.kind = "snapshot" =>
                           /\ rd.overflow <=> Cardinality(Records) > rd.room
                           /\ rd.count = Len(rd.listed)
                      /\ Lists =>
                           LET out  == {rd.listed[k] : k \in DOMAIN rd.listed}
                               rows == {Row(r) : r \in Records}
                           IN  /\ out \subseteq rows
                               /\ \A k, l \in DOMAIN rd.listed :
                                    k < l => Addr[rd.listed[k].ptr] < Addr[rd.listed[l].ptr]
                               /\ \A r \in rows \ out :
                                    /\ rd.overflow /\ Len(rd.listed) = rd.room
                                    /\ \A o \in out : Addr[o.ptr] < Addr[r.ptr]
                      /\ rd.kind = "uart" /\ drop_count = 0 =>
                           Active = Len(rd.listed) /\ Active = Cardinality(Records)
    BY DEF QuietReportExact
  <2>1. CoreInv /\ ReportInv /\ QuietCounts /\ Cardinality(Records) = used_count
    BY <1>1, RecordsCounted DEF ReadersInv, ReportInv, QuietInv
  <2>2. Lists => Len(rd.idx) = used_count
    BY <1>1, PlacesCounted DEF Gathered, Writing
  <2>3. rd.kind # "leaks" =>
          /\ rd.stats.alloc_count = Cardinality(Records)
          /\ rd.stats.table_used = Cardinality(Records)
          /\ rd.drops <=> drop_count > 0
    BY <2>1 DEF QuietCounts, At, Counting
  <2>4. rd.kind = "snapshot" =>
          /\ rd.overflow <=> Cardinality(Records) > rd.room
          /\ rd.count = Len(rd.listed)
    BY <1>1, <2>1, <2>2, QuietListing DEF Lists
  <2>5. ASSUME Lists
        PROVE  LET out  == {rd.listed[k] : k \in DOMAIN rd.listed}
                   rows == {Row(r) : r \in Records}
               IN  /\ out \subseteq rows
                   /\ \A k, l \in DOMAIN rd.listed :
                        k < l => Addr[rd.listed[k].ptr] < Addr[rd.listed[l].ptr]
                   /\ \A r \in rows \ out :
                        /\ rd.overflow /\ Len(rd.listed) = rd.room
                        /\ \A o \in out : Addr[o.ptr] < Addr[r.ptr]
    <3> DEFINE out  == {rd.listed[k] : k \in DOMAIN rd.listed}
               rows == {Row(r) : r \in Records}
    <3>1. /\ DOMAIN rd.listed = 1..rd.count /\ Len(rd.listed) = rd.count
          /\ rd.count \in Nat /\ rd.count <= Len(rd.idx) /\ Len(rd.idx) \in Nat
          /\ rd.overflow => rd.count = rd.room
          /\ ~rd.overflow => rd.count = Len(rd.idx)
          /\ \A k \in 1..rd.count : k \in Places /\ rd.listed[k] = Row(Entry(k))
          /\ \A k \in Places : Entry(k) \in Records /\ Row(Entry(k)).ptr = Entry(k).ptr
          /\ \A r \in Records : \E k \in Places : r = Entry(k)
          /\ \A k, l \in Places : k < l => Above(k) < Above(l)
      BY <1>1, <2>5, QuietListing
    <3>2. out \subseteq rows
      BY <3>1
    <3>3. \A k, l \in DOMAIN rd.listed :
            k < l => Addr[rd.listed[k].ptr] < Addr[rd.listed[l].ptr]
      BY <3>1 DEF Above
    <3>4. ASSUME NEW r \in rows \ out
          PROVE  /\ rd.overflow /\ Len(rd.listed) = rd.room
                 /\ \A o \in out : Addr[o.ptr] < Addr[r.ptr]
      <4>1. PICK l \in Places : r = Row(Entry(l))
        BY <3>1, <3>4
      <4>2. l \notin 1..rd.count
        BY <3>1, <3>4, <4>1
      <4>3. l > rd.count /\ rd.count < Len(rd.idx)
        BY <3>1, <4>1, <4>2 DEF Places
      <4>4. ASSUME NEW k \in 1..rd.count
            PROVE  Addr[rd.listed[k].ptr] < Addr[r.ptr]
        <5>1. k \in Places /\ k < l /\ rd.listed[k] = Row(Entry(k))
          BY <3>1, <4>3 DEF Places
        <5> QED
          BY <3>1, <4>1, <5>1 DEF Above
      <4> QED
        BY <3>1, <4>3, <4>4
    <3> QED
      BY <3>2, <3>3, <3>4
  <2>6. ASSUME rd.kind = "uart", drop_count = 0
        PROVE  Active = Len(rd.listed) /\ Active = Cardinality(Records)
    <3>1. ActiveWithinDrops
      BY <1>1, <2>1, LiveWithinDrops
    <3>2. /\ total_allocs \in Nat /\ total_frees \in Nat /\ used_count \in 0..U32Max
          /\ U32Max \in Nat
      BY <2>1, CountersAreWords, U32Assumption DEF Word
    <3>3. total_allocs - total_frees = used_count
      BY <2>6, <3>1, <3>2 DEF ActiveWithinDrops
    <3>4. rd.stats.total_allocs = total_allocs /\ rd.stats.total_frees = total_frees
      BY <2>1, <2>6 DEF QuietCounts, At
    <3>5. Active = used_count
      <4>1. used_count % (U32Max + 1) = used_count
        BY <3>2
      <4> QED
        BY <3>3, <3>4, <4>1 DEF Active
    <3>6. CASE Lists
      <4>1. ~rd.overflow
        BY <2>1, <2>6 DEF ReportInv, PhaseInv
      <4>2. Len(rd.listed) = Len(rd.idx)
        BY <1>1, <3>6, <4>1, QuietListing
      <4> QED
        BY <2>1, <2>2, <3>5, <3>6, <4>2
    <3>7. CASE ~Lists
      <4>1. used_count = 0
        BY <2>6, <3>2, <3>5, <3>7 DEF Lists
      <4>2. rd.listed = <<>> /\ Len(<<>>) = 0
        BY <2>1, <3>7, EmptyReport DEF ReportInv, PhaseInv, Writing, At
      <4> QED
        BY <2>1, <3>5, <4>1, <4>2
    <3> QED
      BY <3>6, <3>7
  <2> QED
    BY <2>3, <2>4, <2>5, <2>6
<1>2. ReadersInit => LiveCounted
  BY LiveCountedInit DEF ReadersInit
<1>3. ReadersInv /\ ReadersInv' /\ LiveCounted /\ [ReadersNext]_readersVars => LiveCounted'
  BY TrackerSteps, LiveCountedStep DEF ReadersInv
<1>4. ReadersInv /\ LiveCounted => QuietReportExact
  BY <1>1
<1> QED
  BY <1>2, <1>3, <1>4, ReadersInvariant, PTL DEF ReadersSpec

=============================================================================
