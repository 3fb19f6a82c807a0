----------------------------- MODULE MTReaders -------------------------------
(***************************************************************************)
(* The reports made from the tracker's tables: mt_stats, mt_dump_uart and  *)
(* mt_dump_leaks, and the snapshot of mt_snapshot_write.  A report runs in *)
(* main code, step by step; between two steps the tracker may be called,   *)
(* by an interrupt handler or by the output callback of a dump, and runs   *)
(* to completion (a step of MTCore).  Only mt__stats_core takes MT_LOCK;   *)
(* what else is read of the tracker is read one word at a time, a step     *)
(* each.                                                                   *)
(***************************************************************************)
EXTENDS MTCore, Sequences

CONSTANTS
  Rooms,      (* how many records the buffers of snapshots have space for  *)
  Addr,       (* the number that an address is: reports are sorted by it   *)
  DumpOrder   (* the order in which the compiler evaluates the arguments   *)
              (* of snprintf, which C leaves open                          *)

(* What a report says of a record.  The state is not read again: the       *)
(* snapshot says USED.                                                     *)
Field == {"ptr", "size", "file_id", "line", "seq"}

ASSUME MTReadersAssumption ==
  /\ Rooms \subseteq Nat
  /\ Addr \in [Ptr -> Nat]
  /\ \A p, q \in Ptr : Addr[p] = Addr[q] => p = q
  /\ DumpOrder \in Seq(Field) /\ Len(DumpOrder) = 5
  /\ \A f \in Field : \E k \in 1..5 : DumpOrder[k] = f

VARIABLES
  rd,         (* the report in progress: its local variables and output    *)
  disturbed,  (* history: the tracker was called since the report began    *)
  seen,       (* history: <<slot, row>> for each record since it began     *)
  stable,     (* history: the slots whose record is the same since then    *)
  held        (* history: per entry, the rows its slot held while the      *)
              (* entry was copied                                          *)

historyVars == <<disturbed, seen, stable, held>>

readersVars == <<vars, rd, historyVars>>

Kind == {"stats", "uart", "leaks", "snapshot"}

NoStats ==
  [current_used |-> 0, peak_used |-> 0, total_allocs |-> 0, total_frees |-> 0,
   total_reallocs |-> 0, alloc_count |-> 0, table_used |-> 0,
   table_tombstones |-> 0, table_drops |-> 0]

Row(r) ==
  [f \in Field |-> CASE f = "ptr"     -> r.ptr
                     [] f = "size"    -> r.size
                     [] f = "file_id" -> r.site[1]
                     [] f = "line"    -> r.site[2]
                     [] f = "seq"     -> r.seq]

NoRow == Row(EmptyRec)

(* room: the number of records the buffer of a snapshot has space for;     *)
(* again: mt_dump_uart reads the counters of the table a second time;      *)
(* idx: used_indices; i and j: the loop counters; ptr: the address of the  *)
(* i-th, when two are compared; read and row: the fields of the entry that *)
(* were read so far, and their values; listed: the entries that were       *)
(* written; drops and overflow: the flags; seq: the header's.              *)
NoReport ==
  [kind |-> "none", pc |-> "idle", room |-> 0, stats |-> NoStats,
   again |-> FALSE, i |-> 0, j |-> 0, idx |-> <<>>, ptr |-> NoPtr, count |-> 0,
   drops |-> FALSE, overflow |-> FALSE, seq |-> 0, read |-> {}, row |-> NoRow,
   listed |-> <<>>]

Records == {table[s] : s \in UsedSlots(table)}

(* The records as a report could list them, with the slots they are in *)
SlotRows == {<<s, Row(table[s])>> : s \in UsedSlots(table)}

At(l) == rd.pc = l

ReadOnly == UNCHANGED <<vars, historyVars>>

-----------------------------------------------------------------------------
(* mt_stats *)

(* A report is asked for.  A snapshot buffer smaller than the header is    *)
(* refused at once, which changes nothing.                                 *)
Begin(kind, room) ==
  /\ At("idle")
  /\ rd' = [NoReport EXCEPT !.kind = kind, !.room = room,
                            !.pc = IF kind = "leaks" THEN "collect" ELSE "core"]
  /\ disturbed' = FALSE
  /\ seen' = SlotRows
  /\ stable' = UsedSlots(table)
  /\ held' = <<>>
  /\ UNCHANGED vars

(* mt__stats_core: one consistent copy of the core counters *)
ReadCore ==
  /\ At("core")
  /\ rd' = [rd EXCEPT !.pc = "used",
              !.stats = [@ EXCEPT !.current_used = current_used,
                                  !.peak_used = peak_used,
                                  !.total_allocs = total_allocs,
                                  !.total_frees = total_frees,
                                  !.total_reallocs = total_reallocs,
                                  !.alloc_count = used_count]]
  /\ ReadOnly

(* The counters of the table, each read without the lock *)
ReadUsed ==
  /\ At("used")
  /\ rd' = [rd EXCEPT !.stats.table_used = used_count, !.pc = "tombstones"]
  /\ ReadOnly

ReadTombstones ==
  /\ At("tombstones")
  /\ rd' = [rd EXCEPT !.stats.table_tombstones = tombstone_count, !.pc = "drops"]
  /\ ReadOnly

(* What mt_dump_uart prints as active_allocs, and as the number of leaks *)
Active == (rd.stats.total_allocs - rd.stats.total_frees) % (U32Max + 1)

(* mt_stats ends with the flag DROPS.  mt_dump_uart reads all three again,  *)
(* prints these, and lists the records if there are active allocations.     *)
ReadDrops ==
  /\ At("drops")
  /\ rd' = [rd EXCEPT !.stats.table_drops = drop_count,
              !.drops = IF rd.again THEN @ ELSE drop_count > 0,
              !.again = rd.kind = "uart" /\ ~@,
              !.pc = CASE rd.kind = "snapshot" -> "collect"
                       [] rd.kind = "stats"    -> "done"
                       [] rd.kind = "uart" /\ ~rd.again -> "used"
                       [] rd.kind = "uart" /\ rd.again ->
                            IF Active > 0 THEN "collect" ELSE "done"]
  /\ ReadOnly

-----------------------------------------------------------------------------
(* The records: collected, sorted by address, written *)

(* Mutant of Listable: slots that held a record are collected too *)
ListableOnce(s) == table[s].state # "EMPTY"

(* The collecting loop takes slot s *)
Listable(s) == table[s].state = "USED"

(* Mutant of Collected: the last slot is not looked at *)
CollectedButLast == rd.i >= MaxAllocs - 1

Collected == rd.i >= MaxAllocs

Collect ==
  /\ At("collect")
  /\ \/ /\ ~Collected
        /\ rd' = [rd EXCEPT !.i = @ + 1,
                     !.idx = IF Listable(rd.i) THEN Append(@, rd.i) ELSE @]
     \/ Collected /\ rd' = [rd EXCEPT !.i = 1, !.j = 2, !.pc = "sort"]
  /\ ReadOnly

(* Mutant of Swap: the saved index is not written back *)
SwapLost(x, i, j) == [x EXCEPT ![i] = x[j]]

Swap(x, i, j) == [x EXCEPT ![i] = x[j], ![j] = x[i]]

(* Mutant of Before: by decreasing address *)
BeforeReversed(p, q) == Addr[p] > Addr[q]

Before(p, q) == Addr[p] < Addr[q]

(* The exchange sort reads the two addresses of a comparison in the table  *)
(* again, one after the other, and swaps the two indices.                  *)
Compare ==
  /\ At("compare")
  /\ rd' = [rd EXCEPT !.j = @ + 1, !.ptr = NoPtr, !.pc = "sort",
              !.idx = IF Before(table[rd.idx[rd.j]].ptr, rd.ptr)
                      THEN Swap(@, rd.i, rd.j) ELSE @]
  /\ ReadOnly

Sort ==
  /\ At("sort")
  /\ \/ /\ rd.j <= Len(rd.idx)
        /\ rd' = [rd EXCEPT !.ptr = table[rd.idx[rd.i]].ptr, !.pc = "compare"]
     \/ /\ rd.j > Len(rd.idx) /\ rd.i < Len(rd.idx)
        /\ rd' = [rd EXCEPT !.i = @ + 1, !.j = rd.i + 2]
     \/ /\ rd.j > Len(rd.idx) /\ rd.i >= Len(rd.idx)
        /\ rd' = [rd EXCEPT !.i = 1, !.pc = "header"]
  /\ ReadOnly

(* needed > out_cap; a dump has no buffer that could be too small *)
Overflows == rd.kind = "snapshot" /\ Len(rd.idx) > rd.room

(* The header of a snapshot, with g_seq read once more *)
Header ==
  /\ At("header")
  /\ rd' = [rd EXCEPT !.pc = "copy", !.seq = seq, !.overflow = Overflows,
              !.count = IF Overflows THEN rd.room ELSE Len(rd.idx)]
  /\ ReadOnly

SnapshotOrder == <<"ptr", "size", "file_id", "line", "seq">>

(* The fields of an entry are read one by one: f is the next *)
Readable(f) ==
  LET order == IF rd.kind = "snapshot" THEN SnapshotOrder ELSE DumpOrder
  IN  \E l \in DOMAIN order :
        f = order[l] /\ rd.read = {order[k] : k \in 1..(l - 1)}

(* A field is read; after the last one the entry is written. *)
CopyField(f) ==
  /\ At("copy") /\ rd.i <= rd.count /\ Readable(f)
  /\ LET r    == table[rd.idx[rd.i]]
         read == rd.read \cup {f}
         row  == [rd.row EXCEPT ![f] = Row(r)[f]]
     IN  /\ rd' = IF read = Field
                  THEN [rd EXCEPT !.i = @ + 1, !.read = {}, !.row = NoRow,
                                  !.listed = Append(@, row)]
                  ELSE [rd EXCEPT !.read = read, !.row = row]
         /\ held' = IF rd.read = {} THEN Append(held, {Row(r)}) ELSE held
  /\ UNCHANGED <<vars, disturbed, seen, stable>>

CopyEnd ==
  /\ At("copy") /\ rd.i > rd.count
  /\ rd' = [rd EXCEPT !.pc = "done"]
  /\ ReadOnly

Return ==
  /\ At("done")
  /\ rd' = NoReport
  /\ disturbed' = FALSE /\ seen' = {} /\ stable' = {} /\ held' = <<>>
  /\ UNCHANGED vars

-----------------------------------------------------------------------------
(* The tracker runs between two steps of the report *)

Disturb ==
  /\ Next
  /\ UNCHANGED rd
  /\ \/ At("idle") /\ UNCHANGED historyVars
     \/ /\ ~At("idle")
        /\ disturbed' = TRUE
        /\ seen' = seen \cup SlotRows'
        /\ stable' = {s \in stable : table'[s] = table[s]}
        /\ held' = IF rd.read = {} THEN held
                   ELSE [held EXCEPT ![rd.i] = @ \cup {Row(table'[rd.idx[rd.i]])}]

ReadersInit ==
  /\ Init
  /\ rd = NoReport
  /\ disturbed = FALSE
  /\ seen = {}
  /\ stable = {}
  /\ held = <<>>

ReportStep ==
  \/ ReadCore \/ ReadUsed \/ ReadTombstones \/ ReadDrops
  \/ Collect \/ Sort \/ Compare \/ Header
  \/ \E f \in Field : CopyField(f)
  \/ CopyEnd

ReadersNext ==
  \/ \E kind \in Kind \ {"snapshot"} : Begin(kind, 0)
  \/ \E room \in Rooms : Begin("snapshot", room)
  \/ ReportStep
  \/ Return
  \/ Disturb

ReadersSpec == ReadersInit /\ [][ReadersNext]_readersVars

-----------------------------------------------------------------------------
(* Properties *)

(* The records were listed: always in a dump of the leaks and a snapshot *)
Lists ==
  \/ rd.kind \in {"leaks", "snapshot"}
  \/ rd.kind = "uart" /\ Active > 0

(* When the tracker was not called in between, a report is the state of the *)
(* tracker: the counters agree with each other and with the table, and the  *)
(* records are listed by increasing address, all of them or, in a snapshot  *)
(* that says so, as many of the lowest as there is room for.  mt_dump_uart  *)
(* decides from two totals whether there are records: unless an allocation  *)
(* was dropped, the number it announces is that of the records it lists.    *)
QuietReportExact ==
  At("done") /\ ~disturbed =>
    /\ rd.kind # "leaks" =>
         /\ rd.stats.alloc_count = Cardinality(Records)
         /\ rd.stats.table_used = Cardinality(Records)
         /\ rd.drops <=> drop_count > 0
    /\ rd.kind = "snapshot" =>
         /\ rd.overflow <=> Cardinality(Records) > rd.room
         /\ rd.count = Len(rd.listed)
    /\ Lists =>
         LET out  == {rd.listed[k] : k \in DOMAIN rd.listed}
             rows == {Row(r) : r \in Records}
         IN  /\ out \subseteq rows
             /\ \A k, l \in DOMAIN rd.listed :
                  k < l => Addr[rd.listed[k].ptr] < Addr[rd.listed[l].ptr]
             /\ \A r \in rows \ out :
                  /\ rd.overflow /\ Len(rd.listed) = rd.room
                  /\ \A o \in out : Addr[o.ptr] < Addr[r.ptr]
    /\ rd.kind = "uart" /\ drop_count = 0 =>
         Active = Len(rd.listed) /\ Active = Cardinality(Records)

(* Sorting on addresses that change under the sort still only permutes the  *)
(* indices: no slot is listed twice in place of another.                    *)
NoSlotTwice ==
  \A k, l \in DOMAIN rd.idx : rd.idx[k] = rd.idx[l] => k = l

(* A report mixes no more than it must.  An entry need not be a record that *)
(* existed: when its slot is freed and taken again between two reads, it    *)
(* has fields of both records.  But each field is that of a record which    *)
(* the slot held while the entry was copied, a slot that was left alone     *)
(* meanwhile is copied whole, and every record the slot held was of a block *)
(* that was allocated at some time during the report: nothing of a block    *)
(* freed before is listed, nor more than a snapshot's buffer has room for.  *)
ListedExisted ==
  /\ \A k \in DOMAIN rd.listed :
       /\ \A f \in Field : \E row \in held[k] : rd.listed[k][f] = row[f]
       /\ \A row \in held[k] : held[k] = {row} => rd.listed[k] = row
       /\ \A row \in held[k] : <<rd.idx[k], row>> \in seen
  /\ rd.kind = "snapshot" => Len(rd.listed) <= rd.room

(* However often the tracker is called in between, a record that was there  *)
(* and the same during the whole report is listed, unless it did not fit    *)
(* and the snapshot says so.                                                *)
StableListed ==
  At("done") /\ Lists /\ ~rd.overflow =>
    \A s \in stable : \E k \in DOMAIN rd.listed : rd.listed[k] = Row(table[s])
=============================================================================
