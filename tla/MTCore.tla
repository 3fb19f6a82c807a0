------------------------------- MODULE MTCore --------------------------------
(***************************************************************************)
(* src/mt_core.c for a single context: mt_init, mt_malloc, mt_free and     *)
(* mt_realloc, each one step that makes every change its C function makes  *)
(* (the recursion guard g_inside is 0 before and after each of them and is *)
(* modelled where contexts interleave, in MTIsr).  The real allocator is   *)
(* external: it owns heap, may fail, and may hand out any dead address.    *)
(***************************************************************************)
EXTENDS AllocTable, Hotspots, FiniteSetsExt

CONSTANTS
  Size,            (* byte counts passed to the tracker (size_t)           *)
  MaxOps,          (* bound on the operations of a run, see Budget         *)
  PlainClients,    (* some translation units call the real malloc directly *)
  DoubleFrees      (* clients free a block twice                           *)

ASSUME MTCoreAssumption ==
  /\ Size \subseteq Nat
  /\ MaxAllocs <= U32Max
  /\ MaxOps \in Nat
  /\ PlainClients \in BOOLEAN
  /\ DoubleFrees \in BOOLEAN

VARIABLES
  initialized,       (* g_initialized                                      *)
  table,             (* g_allocs                                           *)
  seq,               (* g_seq                                              *)
  used_count,        (* g_used_count                                       *)
  tombstone_count,   (* g_tombstone_count                                  *)
  drop_count,        (* g_drop_count                                       *)
  total_allocs,      (* g_total_allocs                                     *)
  total_frees,       (* g_total_frees                                      *)
  total_reallocs,    (* g_total_reallocs                                   *)
  current_used,      (* g_current_used                                     *)
  peak_used,         (* g_peak_used                                        *)
  heap               (* the real allocator: the size of each live block    *)

usageVars == <<current_used, peak_used>>

totalVars == <<total_allocs, total_frees, total_reallocs>>

trackerVars == <<initialized, table, seq, used_count, tombstone_count,
                 drop_count, totalVars, usageVars, hotspotVars>>

vars == <<trackerVars, heap>>

-----------------------------------------------------------------------------
(* The real allocator *)

Never == -1       (* the address was never handed out                      *)
Freed == -2       (* handed out and freed since                            *)
Corrupted == -3   (* a dead block was passed to the real free              *)

Live == {p \in Ptr : heap[p] >= 0}

Available == {p \in Ptr : heap[p] \in {Never, Freed}}

(* MT_REAL_FREE(p): undefined behaviour when p is dead *)
RealFree(p) ==
  heap' = [heap EXCEPT ![p] = IF p \in Live THEN Freed ELSE Corrupted]

(* MT_REAL_REALLOC(p, n) returning q: in place, or moved with p freed *)
RealRealloc(p, q, n) ==
  heap' = [a \in Ptr |-> IF a = q THEN n ELSE IF a = p THEN Freed ELSE heap[a]]

-----------------------------------------------------------------------------
(* Records and counters *)

AllocRec == [ptr : Ptr \cup {NoPtr}, size : Word, site : Site, seq : Word,
             state : SlotState]

EmptyRec == [ptr |-> NoPtr, size |-> 0, site |-> <<0, 0>>, seq |-> 0,
             state |-> "EMPTY"]

UsedRec(p, n, site, s) ==
  [ptr |-> p, size |-> n, site |-> site, seq |-> s, state |-> "USED"]

(* mt_realloc records a block it did not know without a site *)
NoSite == <<0, 0>>

(* Mutant of SeqNow: mt_init leaves g_seq at 0 *)
SeqFromZero == seq

(* g_seq as the handlers see it, after the lazy mt_init *)
SeqNow == IF initialized THEN seq ELSE 1

(* The lazy mt_init that opens every handler: of the state it resets only  *)
(* g_seq does not already hold its reset value in static storage.          *)
LazyInit == initialized' = TRUE

(* mt_add_current_used *)
AddCurrent(d) ==
  /\ current_used' = AddSat(current_used, d)
  /\ peak_used' = IF current_used' > peak_used THEN current_used' ELSE peak_used

(* mt_sub_current_used *)
SubCurrent(d) ==
  /\ current_used' = SubFloor(current_used, d)
  /\ UNCHANGED peak_used

(* mt_realloc's adjustment by the difference of the two sizes, in size_t *)
ResizeCurrent(old, n) ==
  \/ n > old /\ AddCurrent(Clamp(n - old))
  \/ n <= old /\ SubCurrent(Clamp(old - n))

-----------------------------------------------------------------------------
(* mt_malloc *)

(* A slot was found: record the block.  g_tombstone_count keeps its value  *)
(* even when the slot was a tombstone.                                     *)
RecordAlloc(p, n, site) ==
  /\ \E s \in Slot :
       /\ InsertSlot(table, p, s)
       /\ table' = [table EXCEPT ![s] = UsedRec(p, Clamp(n), site, SeqNow)]
  /\ used_count' = used_count + 1
  /\ total_allocs' = Inc(total_allocs)
  /\ seq' = Inc(SeqNow)
  /\ AddCurrent(Clamp(n))
  /\ UNCHANGED drop_count

(* Mutant of DropAlloc: an allocation is counted instead of a drop *)
DropAsAlloc(p) ==
  /\ Full(table, p)
  /\ total_allocs' = Inc(total_allocs)
  /\ seq' = SeqNow
  /\ UNCHANGED <<table, used_count, drop_count, usageVars>>

(* The table is full: the block stays untracked and the drop is counted *)
DropAlloc(p) ==
  /\ Full(table, p)
  /\ drop_count' = Inc(drop_count)
  /\ seq' = SeqNow
  /\ UNCHANGED <<table, used_count, total_allocs, usageVars>>

(* What mt_malloc does between MT_LOCK and MT_UNLOCK: the hotspot is       *)
(* recorded whether the table had room or not.                             *)
TrackMalloc(p, n, site) ==
  /\ RecordAlloc(p, n, site) \/ DropAlloc(p)
  /\ HotspotRecord(site, Trunc(n), SeqNow)
  /\ UNCHANGED <<tombstone_count, total_frees, total_reallocs>>

MtMalloc(n, f, line) ==
  /\ LazyInit
  /\ \/ /\ seq' = SeqNow                 \* the real malloc returned NULL
        /\ UNCHANGED <<table, used_count, tombstone_count, drop_count,
                       totalVars, usageVars, hotspotVars, heap>>
     \/ \E p \in Available :
          /\ heap' = [heap EXCEPT ![p] = n]
          /\ TrackMalloc(p, n, SiteOf(f, line))

-----------------------------------------------------------------------------
(* mt_free *)

(* mt_slot_free together with the accounting mt_free does around it *)
RecordFree(s) ==
  /\ table' = SlotFree(table, s)
  /\ used_count' = used_count - 1
  /\ tombstone_count' = Inc(tombstone_count)
  /\ total_frees' = Inc(total_frees)
  /\ SubCurrent(table[s].size)

(* The block is not tracked; when some tombstone still names its address   *)
(* the call is taken for a double free and is not forwarded.               *)
FreeUntracked(p) ==
  /\ ~Tracked(table, p)
  /\ \/ HasTombstone(table, p) /\ UNCHANGED heap
     \/ ~HasTombstone(table, p) /\ RealFree(p)
  /\ UNCHANGED <<table, used_count, tombstone_count, total_frees, usageVars>>

MtFree(p) ==
  /\ LazyInit
  /\ \/ \E s \in Slot : FindSlot(table, p, s) /\ RecordFree(s) /\ RealFree(p)
     \/ FreeUntracked(p)
  /\ seq' = SeqNow
  /\ UNCHANGED <<drop_count, total_allocs, total_reallocs, hotspotVars>>

-----------------------------------------------------------------------------
(* mt_realloc *)

(* Mutant of OldSite: the moved record starts without a site *)
OldSiteLost(s) == NoSite

(* old_file_id and old_line, read before the real realloc *)
OldSite(s) == table[s].site

(* Tracked and resized in place *)
ReallocInPlace(p, s, n) ==
  /\ table' = [table EXCEPT ![s].size = Trunc(n), ![s].seq = SeqNow]
  /\ ResizeCurrent(table[s].size, n)
  /\ UNCHANGED <<used_count, tombstone_count>>

(* Tracked in slot s and moved from p to q: slot s becomes a tombstone     *)
(* before a slot for q is searched, so the search always succeeds.         *)
ReallocMoved(p, q, s, n) ==
  /\ \E t \in Slot :
       /\ InsertSlot(SlotFree(table, s), q, t)
       /\ table' = [SlotFree(table, s) EXCEPT ![t] =
                      UsedRec(q, Clamp(n), OldSite(s), SeqNow)]
       /\ tombstone_count' =
            IF /\ SlotFree(table, s)[t].state = "TOMBSTONE"
               /\ Inc(tombstone_count) > 0
              THEN Inc(tombstone_count) - 1 ELSE Inc(tombstone_count)
  /\ ResizeCurrent(table[s].size, n)
  /\ UNCHANGED used_count

(* Not tracked: the block is adopted, without its site *)
ReallocAdopt(q, n) ==
  /\ \E t \in Slot :
       /\ InsertSlot(table, q, t)
       /\ table' = [table EXCEPT ![t] = UsedRec(q, Clamp(n), NoSite, SeqNow)]
       /\ tombstone_count' =
            IF table[t].state = "TOMBSTONE" /\ tombstone_count > 0
              THEN tombstone_count - 1 ELSE tombstone_count
  /\ used_count' = used_count + 1
  /\ AddCurrent(Clamp(n))

(* Not tracked and no slot for it: the fall-through at the end of the C    *)
(* function, which counts neither a drop nor a realloc.                    *)
ReallocFallThrough(q) ==
  /\ Full(table, q)
  /\ seq' = SeqNow
  /\ UNCHANGED <<table, used_count, tombstone_count, total_reallocs, usageVars>>

TrackRealloc(p, q, n) ==
  /\ \/ /\ \/ \E s \in Slot :
                /\ FindSlot(table, p, s)
                /\ \/ q = p /\ ReallocInPlace(p, s, n)
                   \/ q # p /\ ReallocMoved(p, q, s, n)
           \/ ~Tracked(table, p) /\ ReallocAdopt(q, n)
        /\ seq' = Inc(SeqNow)
        /\ total_reallocs' = Inc(total_reallocs)
     \/ ~Tracked(table, p) /\ ReallocFallThrough(q)
  /\ UNCHANGED <<drop_count, total_allocs, total_frees, hotspotVars>>

(* mt_realloc of a block p # NULL to n > 0 bytes *)
MtReallocBlock(p, n) ==
  /\ LazyInit
  /\ \/ /\ seq' = SeqNow                 \* the real realloc returned NULL
        /\ UNCHANGED <<table, used_count, tombstone_count, drop_count,
                       totalVars, usageVars, hotspotVars, heap>>
     \/ \E q \in Available \cup {p} :
          RealRealloc(p, q, n) /\ TrackRealloc(p, q, n)

(* The whole of mt_realloc: NULL asks for a block, size 0 frees it *)
MtRealloc(p, n, f, line) ==
  \/ p = NoPtr /\ MtMalloc(n, f, line)
  \/ p # NoPtr /\ n = 0 /\ MtFree(p)
  \/ p # NoPtr /\ n > 0 /\ MtReallocBlock(p, n)

-----------------------------------------------------------------------------
(* The other calls, and what the program around the tracker may do *)

(* mt_init called by the application: it returns at once if it ran before *)
MtInit ==
  /\ LazyInit
  /\ seq' = SeqNow
  /\ UNCHANGED <<table, used_count, tombstone_count, drop_count, totalVars,
                 usageVars, hotspotVars, heap>>

(* A translation unit without the wrapper macros (or a library it calls)   *)
(* takes a block from the real allocator behind the tracker's back.        *)
PlainMalloc(n) ==
  /\ \E p \in Available : heap' = [heap EXCEPT ![p] = n]
  /\ UNCHANGED trackerVars

(* The bound of the model on calls that count something *)
Budget == total_allocs + total_frees + total_reallocs + drop_count < MaxOps

(* The addresses a client may pass to mt_free *)
Freeable == Live \cup (IF DoubleFrees THEN {p \in Ptr : heap[p] = Freed} ELSE {})

Init ==
  /\ initialized = FALSE
  /\ table = [s \in Slot |-> EmptyRec]
  /\ seq = 0
  /\ used_count = 0
  /\ tombstone_count = 0
  /\ drop_count = 0
  /\ total_allocs = 0
  /\ total_frees = 0
  /\ total_reallocs = 0
  /\ current_used = 0
  /\ peak_used = 0
  /\ HotspotInit
  /\ heap = [p \in Ptr |-> Never]

Next ==
  \/ MtInit
  \/ /\ Budget
     /\ \/ \E n \in Size, f \in File, line \in Line :
             \/ MtMalloc(n, f, line)
             \/ \E p \in Live \cup {NoPtr} : MtRealloc(p, n, f, line)
        \/ \E p \in Freeable : MtFree(p)
        \/ PlainClients /\ \E n \in Size : PlainMalloc(n)

Spec == Init /\ [][Next]_vars

-----------------------------------------------------------------------------
(* Properties *)

(* Every variable but g_used_count has its type by the shape of the steps *)
StateTypeOK ==
  /\ initialized \in BOOLEAN
  /\ table \in [Slot -> AllocRec]
  /\ seq \in Word
  /\ tombstone_count \in Word /\ drop_count \in Word
  /\ total_allocs \in Word /\ total_frees \in Word /\ total_reallocs \in Word
  /\ current_used \in Word /\ peak_used \in Word
  /\ HotspotTypeOK
  /\ heap \in [Ptr -> Size \cup {Never, Freed, Corrupted}]

(* Every variable has its C type; in particular the count of USED slots,    *)
(* which is incremented and decremented without a check, stays in range.    *)
TypeOK == StateTypeOK /\ used_count \in 0..MaxAllocs

(* Every record can be found again: whatever tombstones deletions and moves *)
(* left in its probe sequence, mt_find_slot of its address stops on it.     *)
RecordsFindable ==
  \A s \in UsedSlots(table) : FindSlot(table, table[s].ptr, s)

(* What is left of n bytes in 32 bits, clamped or truncated *)
Describes(size, n) == size <= n /\ (n <= U32Max => size = n)

(* A record describes a live block of the real allocator, with its size:    *)
(* no record outlives its block and none is left with a size of before a    *)
(* realloc (mt_free and mt_realloc keep table and heap in step).  A size    *)
(* that does not fit in 32 bits is clamped on some paths and truncated by a *)
(* realloc in place; either way the record never claims more than there is. *)
RecordsDescribeLiveBlocks ==
  \A s \in UsedSlots(table) :
    /\ table[s].ptr \in Live
    /\ Describes(table[s].size, heap[table[s].ptr])

(* g_used_count, which mt_stats reports as alloc_count and table_used, is   *)
(* the number of USED slots after any sequence of inserts, moves and frees. *)
UsedCountExact == used_count = Cardinality(UsedSlots(table))

TrackedBytes == MapThenSumSet(LAMBDA s : table[s].size, UsedSlots(table))

(* g_current_used is the sum of the recorded sizes as long as the counter   *)
(* never saturated (which peak_used = UINT32_MAX remembers), and, for sizes *)
(* that fit in 32 bits, is never more than that sum.                        *)
UsageMatchesRecords ==
  /\ peak_used < U32Max => current_used = TrackedBytes
  /\ Size \subseteq Word => current_used <= TrackedBytes

(* A live block the tracker does not know is never mistaken for a block     *)
(* freed before: no stale tombstone names it, so mt_free will forward it    *)
(* to the real allocator (lines 369-384).                                   *)
NoLiveBlockSwallowed ==
  \A p \in Live : HasTombstone(table, p) => Tracked(table, p)

(* total_allocs - total_frees, which mt_dump_uart prints as the number of   *)
(* active allocations, differs from the number of records by at most the    *)
(* blocks that were dropped and adopted by a realloc later.                 *)
ActiveWithinDrops ==
  /\ total_allocs <= used_count + total_frees
  /\ used_count + total_frees <= total_allocs + drop_count

HotspotEvents == MapThenSumSet(LAMBDA h : hotspots[h].allocs, HotspotIndex)

(* Every successful malloc is counted by exactly one hotspot or as a        *)
(* hotspot drop, whether or not the allocation table had room for it (all   *)
(* of these counters wrap).                                                 *)
HotspotsCountEveryMalloc ==
  Trunc(HotspotEvents + hotspots_drop) = Trunc(total_allocs + drop_count)

(* Sequence numbers identify records: no two USED records share one, none   *)
(* is 0 ("no allocation") and none is from the future (before g_seq wraps). *)
SeqIdentifiesRecords ==
  \A s \in UsedSlots(table) :
    /\ table[s].seq \in 1..(seq - 1)
    /\ \A t \in UsedSlots(table) : table[s].seq = table[t].seq => s = t

(* A tracked block is not forgotten while it lives: if it stays where it is *)
(* it keeps a record, and if realloc moves it, its new address has one (the *)
(* comment "tombstones are reused on successful realloc", line 506).        *)
TrackedBlocksStayTracked ==
  [][\A p \in Live : Tracked(table, p) =>
       \/ p \in Live' /\ Tracked(table', p)
       \/ p \notin Live' /\ total_frees' # total_frees
       \/ p \notin Live' /\ \E q \in Live' \ Live : Tracked(table', q)]_vars

(* An allocation is dropped only when every slot is USED: tombstones left   *)
(* by frees never make the tracker refuse a block.                          *)
DropsOnlyWhenFull ==
  [][drop_count' # drop_count => UsedSlots(table) = Slot]_vars

(* Finding: a statement of the repository that the code does not keep *)

(* "Tombstone slots" (mt_types.h): table_tombstones counts the slots in     *)
(* state TOMBSTONE, also after mt_malloc reused some of them.               *)
TombstoneCountExact == tombstone_count = Cardinality(TombstoneSlots(table))

-----------------------------------------------------------------------------
(* The tracker implements the ledger *)

RecordOf(p) == CHOOSE s \in Slot : Holds(table, s, p)

LedgerOf(p) ==
  IF p \notin Live THEN [kind |-> "dead"]
  ELSE IF \E s \in Slot : Holds(table, s, p)
    THEN [kind |-> "recorded", bytes |-> table[RecordOf(p)].size,
          where |-> table[RecordOf(p)].site]
  ELSE [kind |-> "unrecorded"]

Ledger == INSTANCE AllocLedger WITH
  Block <- Ptr, Capacity <- MaxAllocs, Bytes <- Word, Where <- Site,
  Nowhere <- NoSite, MaxDrops <- U32Max,
  ledger <- [p \in Ptr |-> LedgerOf(p)], drops <- drop_count

(* Whatever the hash function, the collisions and the history of deletions, *)
(* the table behaves as a bounded map: a block is dropped exactly when      *)
(* MaxAllocs blocks are recorded, a recorded block keeps its site through   *)
(* reallocs, and nothing else adds, loses or alters a record.               *)
ImplementsLedger == Ledger!LedgerSpec

=============================================================================
