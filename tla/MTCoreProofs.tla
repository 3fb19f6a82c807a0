---------------------------- MODULE MTCoreProofs -----------------------------
(***************************************************************************)
(* Theorems about MTCore, for every table size, set of addresses, hash     *)
(* function, word width and number of operations.                          *)
(***************************************************************************)
EXTENDS MTCore, AllocTableProofs

-----------------------------------------------------------------------------
(* Types *)

(* The counters' operators stay within a word. *)
LEMMA WordOps ==
  /\ \A x \in Word : Inc(x) \in Word
  /\ \A n \in Nat : Clamp(n) \in Word /\ Trunc(n) \in Word
  /\ \A x, d \in Word : AddSat(x, d) \in Word /\ SubFloor(x, d) \in Word
  /\ 0 \in Word /\ 1 \in Word
<1>1. \A n \in Nat : n % (U32Max + 1) \in 0..U32Max
  BY U32Assumption
<1> QED
  BY <1>1, U32Assumption
     DEF Word, Inc, Clamp, Trunc, AddSat, SubFloor

(* Both ways to put a size into 32 bits keep it, or make it smaller. *)
LEMMA SizeDescribes ==
  ASSUME NEW n \in Nat
  PROVE  Describes(Clamp(n), n) /\ Describes(Trunc(n), n)
<1>1. Describes(Clamp(n), n)
  BY U32Assumption DEF Describes, Clamp
<1>2. CASE n <= U32Max
  <2>1. Trunc(n) = n
    BY <1>2, U32Assumption DEF Trunc
  <2> QED
    BY <1>1, <2>1 DEF Describes
<1>3. CASE n > U32Max
  <2>1. Trunc(n) \in 0..U32Max
    BY WordOps DEF Word
  <2>2. Trunc(n) <= n
    BY <1>3, <2>1, U32Assumption
  <2> QED
    BY <1>1, <1>3, <2>2, U32Assumption DEF Describes
<1> QED
  BY <1>2, <1>3, U32Assumption

(* A call site is stored as a site. *)
LEMMA SiteOfType ==
  ASSUME NEW f \in File, NEW line \in Line
  PROVE  SiteOf(f, line) \in Site
BY HotspotsAssumption DEF SiteOf, Site, ClampLine

(* Recording a hotspot keeps its table well formed. *)
LEMMA HotspotRecordType ==
  ASSUME HotspotTypeOK, NEW site \in Site, NEW n \in Word, NEW s \in Word,
         HotspotRecord(site, n, s)
  PROVE  HotspotTypeOK'
<1> USE HotspotsAssumption
<1>1. CASE HotspotUpdate(site, n, s)
  <2>1. PICK h \in 0..(hotspots_used - 1) :
          hotspots' = [hotspots EXCEPT ![h] =
                         [site |-> site,
                          allocs |-> Inc(@.allocs),
                          bytes |-> Trunc(@.bytes + n),
                          last_seq |-> s]]
    BY <1>1 DEF HotspotUpdate
  <2>2. h \in HotspotIndex
    BY DEF HotspotTypeOK, HotspotIndex
  <2>3. hotspots[h].allocs \in Word /\ hotspots[h].bytes + n \in Nat
    BY <2>2, U32Assumption DEF HotspotTypeOK, HotspotRec, Word
  <2>4. Inc(hotspots[h].allocs) \in Word /\ Trunc(hotspots[h].bytes + n) \in Word
    BY <2>3, WordOps
  <2>5. hotspots' \in [HotspotIndex -> HotspotRec]
    BY <2>1, <2>2, <2>4 DEF HotspotTypeOK, HotspotRec
  <2> QED
    BY <1>1, <2>5 DEF HotspotUpdate, HotspotTypeOK
<1>2. CASE HotspotInsert(site, n, s)
  <2>1. hotspots_used \in HotspotIndex /\ hotspots_used + 1 \in 0..MaxHotspots
    BY <1>2 DEF HotspotInsert, HotspotTypeOK, HotspotIndex
  <2>2. [site |-> site, allocs |-> 1, bytes |-> n, last_seq |-> s] \in HotspotRec
    BY WordOps DEF HotspotRec
  <2> QED
    BY <1>2, <2>1, <2>2 DEF HotspotInsert, HotspotTypeOK
<1>3. CASE HotspotOverflow(site)
  BY <1>3, WordOps DEF HotspotOverflow, HotspotTypeOK
<1> QED
  BY <1>1, <1>2, <1>3 DEF HotspotRecord

(* The cases of a step, with mt_realloc resolved to what it does. *)
LEMMA NextCases ==
  ASSUME Next
  PROVE  \/ MtInit
         \/ \E n \in Size, f \in File, line \in Line : MtMalloc(n, f, line)
         \/ \E p \in Freeable : MtFree(p)
         \/ \E p \in Live, n \in Size : n > 0 /\ MtReallocBlock(p, n)
         \/ PlainClients /\ \E n \in Size : PlainMalloc(n)
BY DEF Next, MtRealloc, Freeable

(* The usage counters keep their type when they move. *)
LEMMA UsageType ==
  ASSUME StateTypeOK, NEW old \in Word, NEW n \in Nat
  PROVE  /\ AddCurrent(Clamp(n)) => current_used' \in Word /\ peak_used' \in Word
         /\ SubCurrent(old) => current_used' \in Word /\ peak_used' \in Word
         /\ ResizeCurrent(old, n) => current_used' \in Word /\ peak_used' \in Word
<1>1. \A d \in Word : AddCurrent(d) => current_used' \in Word /\ peak_used' \in Word
  BY WordOps DEF AddCurrent, StateTypeOK
<1>2. \A d \in Word : SubCurrent(d) => current_used' \in Word /\ peak_used' \in Word
  BY WordOps DEF SubCurrent, StateTypeOK
<1>3. n > old => Clamp(n - old) \in Word
  BY WordOps, U32Assumption DEF Word
<1>4. n <= old => Clamp(old - n) \in Word
  BY WordOps, U32Assumption DEF Word
<1> QED
  BY <1>1, <1>2, <1>3, <1>4, WordOps DEF ResizeCurrent

(* A record the handlers write is a record. *)
LEMMA UsedRecType ==
  ASSUME NEW p \in Ptr, NEW n \in Nat, NEW site \in Site, NEW s \in Word
  PROVE  UsedRec(p, Clamp(n), site, s) \in AllocRec
BY WordOps DEF UsedRec, AllocRec, SlotState

(* Deleting a slot yields a table. *)
LEMMA SlotFreeType ==
  ASSUME NEW t \in [Slot -> AllocRec], NEW s \in Slot
  PROVE  SlotFree(t, s) \in [Slot -> AllocRec]
BY DEF SlotFree, AllocRec, SlotState

LEMMA SeqNowType == StateTypeOK => SeqNow \in Word /\ Inc(SeqNow) \in Word
BY WordOps DEF SeqNow, StateTypeOK

LEMMA NoSiteType == NoSite \in Site
BY HotspotsAssumption, U32Assumption DEF NoSite, Site, Word

LEMMA MallocType ==
  ASSUME StateTypeOK, NEW n \in Size, NEW f \in File, NEW line \in Line,
         MtMalloc(n, f, line)
  PROVE  StateTypeOK'
<1> DEFINE site == SiteOf(f, line)
<1>0. n \in Nat /\ site \in Site /\ initialized' = TRUE
  BY MTCoreAssumption, SiteOfType DEF MtMalloc, LazyInit
<1> HIDE DEF site
<1>1. CASE UNCHANGED <<table, used_count, tombstone_count, drop_count,
                       totalVars, usageVars, hotspotVars, heap>>
           /\ seq' = SeqNow
  BY <1>0, <1>1, SeqNowType
     DEF StateTypeOK, HotspotTypeOK, totalVars, usageVars, hotspotVars
<1>2. ASSUME NEW p \in Available,
             heap' = [heap EXCEPT ![p] = n],
             TrackMalloc(p, n, site)
      PROVE  StateTypeOK'
  <2>0. p \in Ptr /\ heap' \in [Ptr -> Size \cup {Never, Freed, Corrupted}]
    BY <1>2 DEF Available, StateTypeOK
  <2>1. HotspotTypeOK'
    BY <1>0, <1>2, HotspotRecordType, SeqNowType, WordOps
       DEF TrackMalloc, StateTypeOK
  <2>2. CASE RecordAlloc(p, n, site)
    <3>1. PICK s \in Slot :
            table' = [table EXCEPT ![s] = UsedRec(p, Clamp(n), site, SeqNow)]
      BY <2>2 DEF RecordAlloc
    <3>2. table' \in [Slot -> AllocRec]
      BY <1>0, <2>0, <3>1, UsedRecType, SeqNowType DEF StateTypeOK
    <3>3. current_used' \in Word /\ peak_used' \in Word
      BY <1>0, <2>2, UsageType, WordOps DEF RecordAlloc
    <3> QED
      BY <1>0, <1>2, <2>0, <2>1, <2>2, <3>2, <3>3, SeqNowType, WordOps
         DEF RecordAlloc, TrackMalloc, StateTypeOK
  <2>3. CASE DropAlloc(p)
    BY <1>0, <1>2, <2>0, <2>1, <2>3, SeqNowType, WordOps
       DEF DropAlloc, TrackMalloc, StateTypeOK, usageVars
  <2> QED
    BY <1>2, <2>2, <2>3 DEF TrackMalloc
<1> QED
  BY <1>1, <1>2 DEF MtMalloc, site

LEMMA FreeType ==
  ASSUME StateTypeOK, NEW p \in Freeable, MtFree(p)
  PROVE  StateTypeOK'
<1>0. p \in Ptr
  BY DEF Freeable, Live
<1>1. heap' \in [Ptr -> Size \cup {Never, Freed, Corrupted}]
  BY <1>0 DEF MtFree, FreeUntracked, RealFree, StateTypeOK
<1>2. CASE \E s \in Slot : FindSlot(table, p, s) /\ RecordFree(s) /\ RealFree(p)
  <2>1. PICK s \in Slot : RecordFree(s)
    BY <1>2
  <2>2. table' \in [Slot -> AllocRec]
    BY <2>1, SlotFreeType DEF RecordFree, StateTypeOK
  <2>3. table[s].size \in Word
    BY <2>1 DEF StateTypeOK, AllocRec
  <2>4. current_used' \in Word /\ peak_used' \in Word
    BY <2>1, <2>3, UsageType DEF RecordFree
  <2> QED
    BY <1>1, <2>1, <2>2, <2>4, SeqNowType, WordOps
       DEF MtFree, LazyInit, RecordFree, StateTypeOK, HotspotTypeOK, hotspotVars
<1>3. CASE FreeUntracked(p)
  BY <1>1, <1>3, SeqNowType
     DEF MtFree, LazyInit, FreeUntracked, StateTypeOK, HotspotTypeOK,
         hotspotVars, usageVars
<1> QED
  BY <1>2, <1>3 DEF MtFree

LEMMA ReallocType ==
  ASSUME StateTypeOK, NEW p \in Live, NEW n \in Size, MtReallocBlock(p, n)
  PROVE  StateTypeOK'
<1>0. n \in Nat /\ p \in Ptr /\ initialized' = TRUE
  BY MTCoreAssumption DEF MtReallocBlock, LazyInit, Live
<1>1. CASE UNCHANGED <<table, used_count, tombstone_count, drop_count,
                       totalVars, usageVars, hotspotVars, heap>>
           /\ seq' = SeqNow
  BY <1>0, <1>1, SeqNowType
     DEF StateTypeOK, HotspotTypeOK, totalVars, usageVars, hotspotVars
<1>2. ASSUME NEW q \in Available \cup {p},
             RealRealloc(p, q, n), TrackRealloc(p, q, n)
      PROVE  StateTypeOK'
  <2>0. q \in Ptr /\ heap' \in [Ptr -> Size \cup {Never, Freed, Corrupted}]
    BY <1>0, <1>2 DEF RealRealloc, Available, StateTypeOK
  <2>1. UNCHANGED <<drop_count, total_allocs, total_frees, hotspotVars>>
    BY <1>2 DEF TrackRealloc
  <2>2. /\ Inc(tombstone_count) \in Word
        /\ Inc(tombstone_count) > 0 => Inc(tombstone_count) - 1 \in Word
        /\ tombstone_count > 0 => tombstone_count - 1 \in Word
    BY U32Assumption DEF StateTypeOK, Word, Inc
  <2>3. ASSUME NEW s \in Slot, ReallocInPlace(p, s, n)
        PROVE  /\ table' \in [Slot -> AllocRec]
               /\ tombstone_count' \in Word
               /\ current_used' \in Word /\ peak_used' \in Word
    <3>1. table[s].size \in Word
      BY DEF StateTypeOK, AllocRec
    <3>2. table' \in [Slot -> AllocRec]
      BY <1>0, <2>3, SeqNowType, WordOps
         DEF ReallocInPlace, StateTypeOK, AllocRec
    <3> QED
      BY <1>0, <2>3, <3>1, <3>2, UsageType DEF ReallocInPlace, StateTypeOK
  <2>4. ASSUME NEW s \in Slot, ReallocMoved(p, q, s, n)
        PROVE  /\ table' \in [Slot -> AllocRec]
               /\ tombstone_count' \in Word
               /\ current_used' \in Word /\ peak_used' \in Word
    <3>1. table[s].size \in Word /\ OldSite(s) \in Site
      BY DEF StateTypeOK, AllocRec, OldSite
    <3>2. PICK t \in Slot :
            /\ table' = [SlotFree(table, s) EXCEPT ![t] =
                            UsedRec(q, Clamp(n), OldSite(s), SeqNow)]
            /\ tombstone_count' =
                 IF /\ SlotFree(table, s)[t].state = "TOMBSTONE"
                    /\ Inc(tombstone_count) > 0
                   THEN Inc(tombstone_count) - 1 ELSE Inc(tombstone_count)
      BY <2>4 DEF ReallocMoved
    <3>3. SlotFree(table, s) \in [Slot -> AllocRec]
      BY SlotFreeType DEF StateTypeOK
    <3>4. UsedRec(q, Clamp(n), OldSite(s), SeqNow) \in AllocRec
      BY <1>0, <2>0, <3>1, UsedRecType, SeqNowType
    <3>5. tombstone_count' \in Word
      BY <2>2, <3>2
    <3> QED
      BY <1>0, <2>4, <3>1, <3>2, <3>3, <3>4, <3>5, UsageType DEF ReallocMoved
  <2>5. ASSUME ReallocAdopt(q, n)
        PROVE  /\ table' \in [Slot -> AllocRec]
               /\ tombstone_count' \in Word
               /\ current_used' \in Word /\ peak_used' \in Word
    <3>1. PICK t \in Slot :
            /\ table' = [table EXCEPT ![t] = UsedRec(q, Clamp(n), NoSite, SeqNow)]
            /\ tombstone_count' =
                 IF table[t].state = "TOMBSTONE" /\ tombstone_count > 0
                   THEN tombstone_count - 1 ELSE tombstone_count
      BY <2>5 DEF ReallocAdopt
    <3>2. UsedRec(q, Clamp(n), NoSite, SeqNow) \in AllocRec
      BY <1>0, <2>0, UsedRecType, SeqNowType, NoSiteType
    <3>3. table' \in [Slot -> AllocRec]
      BY <3>1, <3>2 DEF StateTypeOK
    <3>4. tombstone_count' \in Word
      BY <2>2, <3>1 DEF StateTypeOK
    <3>5. current_used' \in Word /\ peak_used' \in Word
      BY <1>0, <2>5, UsageType, WordOps DEF ReallocAdopt
    <3> QED
      BY <3>3, <3>4, <3>5
  <2>6. CASE ReallocFallThrough(q)
    BY <1>0, <2>0, <2>1, <2>6, SeqNowType
       DEF ReallocFallThrough, StateTypeOK, HotspotTypeOK, hotspotVars, usageVars
  <2>7. CASE /\ table' \in [Slot -> AllocRec]
             /\ tombstone_count' \in Word
             /\ current_used' \in Word /\ peak_used' \in Word
             /\ seq' = Inc(SeqNow)
             /\ total_reallocs' = Inc(total_reallocs)
    BY <1>0, <2>0, <2>1, <2>7, SeqNowType, WordOps
       DEF StateTypeOK, HotspotTypeOK, hotspotVars
  <2> QED
    BY <1>2, <2>3, <2>4, <2>5, <2>6, <2>7 DEF TrackRealloc
<1> QED
  BY <1>1, <1>2 DEF MtReallocBlock

LEMMA StepType == StateTypeOK /\ [Next]_vars => StateTypeOK'
<1> SUFFICES ASSUME StateTypeOK, [Next]_vars
             PROVE  StateTypeOK'
  OBVIOUS
<1>1. CASE MtInit
  BY <1>1, SeqNowType
     DEF MtInit, LazyInit, StateTypeOK, HotspotTypeOK, totalVars, usageVars,
         hotspotVars
<1>2. CASE \E n \in Size, f \in File, line \in Line : MtMalloc(n, f, line)
  BY <1>2, MallocType
<1>3. CASE \E p \in Freeable : MtFree(p)
  BY <1>3, FreeType
<1>4. CASE \E p \in Live, n \in Size : n > 0 /\ MtReallocBlock(p, n)
  BY <1>4, ReallocType
<1>5. CASE \E n \in Size : PlainMalloc(n)
  <2>1. PICK n \in Size, p \in Available : heap' = [heap EXCEPT ![p] = n]
    BY <1>5 DEF PlainMalloc
  <2>2. heap' \in [Ptr -> Size \cup {Never, Freed, Corrupted}]
    BY <2>1 DEF StateTypeOK, Available
  <2> QED
    BY <1>5, <2>2
       DEF PlainMalloc, trackerVars, totalVars, usageVars, hotspotVars,
           StateTypeOK, HotspotTypeOK
<1>6. CASE UNCHANGED vars
  BY <1>6 DEF vars, trackerVars, totalVars, usageVars, hotspotVars,
              StateTypeOK, HotspotTypeOK
<1> QED
  BY <1>1, <1>2, <1>3, <1>4, <1>5, <1>6, NextCases

LEMMA InitType == Init => StateTypeOK
<1> SUFFICES ASSUME Init PROVE StateTypeOK
  OBVIOUS
<1>1. NoSite \in Site /\ 0 \in Word /\ 0 \in 0..MaxHotspots
  BY NoSiteType, WordOps, HotspotsAssumption
<1>2. NoHotspot \in HotspotRec /\ EmptyRec \in AllocRec
  BY <1>1 DEF NoHotspot, HotspotRec, EmptyRec, AllocRec, SlotState, NoSite
<1>3. HotspotTypeOK
  BY <1>1, <1>2 DEF Init, HotspotInit, HotspotTypeOK
<1> QED
  BY <1>1, <1>2, <1>3 DEF Init, StateTypeOK

-----------------------------------------------------------------------------
(* The invariant *)

(* A record's block is live, and the record holds what fits of its size     *)
RecordsTrue ==
  \A s \in UsedSlots(table) :
    /\ table[s].ptr \in Live
    /\ Describes(table[s].size, heap[table[s].ptr])

(* No tombstone names a live block that has no record *)
TombstonesStale ==
  ~PlainClients =>
    \A p \in Live : HasTombstone(table, p) =>
      \E s \in UsedSlots(table) : table[s].ptr = p

CoreInv ==
  /\ StateTypeOK
  /\ TableInv(table)
  /\ RecordsTrue
  /\ TombstonesStale
  /\ UsedCountExact

(* A block without a live address has no record. *)
LEMMA DeadUnrecorded ==
  ASSUME CoreInv, NEW p \in Available
  PROVE  p \in Ptr /\ p \notin Live /\ \A s \in UsedSlots(table) : table[s].ptr # p
BY DEF CoreInv, RecordsTrue, Available, Live, Never, Freed

(* Table u is t with record r of q, which has none in t, in the slot found  *)
Recorded(t, u, q, s, r) ==
  /\ t \in [Slot -> AllocRec]
  /\ TableInv(t)
  /\ \A v \in UsedSlots(t) : t[v].ptr # q
  /\ InsertSlot(t, q, s)
  /\ r.state = "USED" /\ r.ptr = q
  /\ u = [t EXCEPT ![s] = r]

(* The effect of recording r in slot s on the slots, records and tombstones *)
RecordOutcome(t, u, s, r) ==
  /\ TableInv(u)
  /\ UsedSlots(u) = UsedSlots(t) \cup {s}
  /\ Cardinality(UsedSlots(u)) = Cardinality(UsedSlots(t)) + 1
  /\ u[s] = r
  /\ \A v \in UsedSlots(t) : u[v] = t[v] /\ v # s
  /\ \A a : HasTombstone(u, a) => HasTombstone(t, a)

LEMMA RecordEffect ==
  ASSUME NEW t, NEW u, NEW q \in Ptr, NEW s \in Slot, NEW r, Recorded(t, u, q, s, r)
  PROVE  RecordOutcome(t, u, s, r)
<1>1. u[s] = r /\ \A v \in Slot : v # s => u[v] = t[v]
  BY DEF Recorded
<1>2. u[s].state = "USED" /\ u[s].ptr = q
  BY <1>1 DEF Recorded
<1>3. Inserted(t, u, q, s) /\ TableInv(t)
  BY <1>1, <1>2 DEF Recorded, Inserted
<1>4. TableInv(u)
  BY <1>3, InsertKeepsInv
<1>5. UsedSlots(u) = UsedSlots(t) \cup {s}
  BY <1>3, InsertKeepsInv
<1>6. s \notin UsedSlots(t)
  BY <1>3, InsertKeepsInv
<1>7. Cardinality(UsedSlots(u)) = Cardinality(UsedSlots(t)) + 1
  <2>1. IsFiniteSet(UsedSlots(t))
    BY UsedFinite
  <2>2. Cardinality(UsedSlots(t) \cup {s}) = Cardinality(UsedSlots(t)) + 1
    BY <1>6, <2>1, FS_AddElement
  <2> QED
    BY <1>5, <2>2
<1>8. \A a : HasTombstone(u, a) => HasTombstone(t, a)
  BY <1>1, <1>2 DEF HasTombstone
<1>9. \A v \in UsedSlots(t) : u[v] = t[v] /\ v # s
  BY <1>1, <1>6 DEF UsedSlots
<1> QED
  BY <1>1, <1>4, <1>5, <1>7, <1>8, <1>9 DEF RecordOutcome

(* Freeing the record in a USED slot. *)
LEMMA FreeEffect ==
  ASSUME NEW t \in [Slot -> AllocRec], TableInv(t), NEW s \in UsedSlots(t)
  PROVE  /\ TableInv(SlotFree(t, s))
         /\ UsedSlots(SlotFree(t, s)) = UsedSlots(t) \ {s}
         /\ Cardinality(UsedSlots(SlotFree(t, s))) = Cardinality(UsedSlots(t)) - 1
         /\ \A v \in UsedSlots(t) : v # s => /\ SlotFree(t, s)[v] = t[v]
                                             /\ t[v].ptr # t[s].ptr
         /\ \A a : HasTombstone(SlotFree(t, s), a) =>
                     HasTombstone(t, a) \/ a = t[s].ptr
<1> DEFINE u == SlotFree(t, s)
<1>1. s \in Slot /\ u = [t EXCEPT ![s].state = "TOMBSTONE"]
  BY DEF SlotFree, UsedSlots
<1>2. u[s].state = "TOMBSTONE" /\ u[s].ptr = t[s].ptr
      /\ \A v \in Slot : v # s => u[v] = t[v]
  BY <1>1 DEF AllocRec
<1> HIDE DEF u
<1>3. TableInv(u) /\ UsedSlots(u) = UsedSlots(t) \ {s}
  BY <1>1, <1>2, FreeKeepsInv, ZenonT(40)
<1>4. Cardinality(UsedSlots(u)) = Cardinality(UsedSlots(t)) - 1
  BY <1>3, UsedFinite, FS_RemoveElement
<1>5. \A v \in UsedSlots(t) : v # s => t[v].ptr # t[s].ptr
  BY DEF TableInv
<1>6. \A a : HasTombstone(u, a) => HasTombstone(t, a) \/ a = t[s].ptr
  BY <1>2 DEF HasTombstone
<1> QED
  BY <1>2, <1>3, <1>4, <1>5, <1>6 DEF u, UsedSlots

(* What remains of the invariant when the types are known *)
SafeTable ==
  TableInv(table) /\ RecordsTrue /\ TombstonesStale /\ UsedCountExact

(* A step that leaves the table alone and whose only change of the heap is  *)
(* to blocks without a record (and, when they become or stay live, without  *)
(* a tombstone, unless plain clients are about).                            *)
LEMMA TableUntouched ==
  ASSUME CoreInv, UNCHANGED <<table, used_count>>, NEW b \in Ptr, NEW c \in Ptr,
         \A s \in UsedSlots(table) : table[s].ptr \notin {b, c},
         \A a \in Ptr : a \notin {b, c} => heap'[a] = heap[a],
         \A a \in Live' \cap {b, c} : PlainClients \/ ~HasTombstone(table, a)
  PROVE  SafeTable'
<1>1. \A a \in Ptr : a \notin {b, c} => (a \in Live' <=> a \in Live)
  BY DEF Live
<1>2. TableInv(table)' /\ UsedCountExact'
  BY DEF CoreInv, UsedCountExact
<1>3. RecordsTrue'
  <2> SUFFICES ASSUME NEW s \in UsedSlots(table)
               PROVE  /\ table[s].ptr \in Live'
                      /\ Describes(table[s].size, heap'[table[s].ptr])
    BY DEF RecordsTrue
  <2>1. table[s].ptr \in Ptr /\ table[s].ptr \notin {b, c}
    BY DEF CoreInv, TableInv
  <2> QED
    BY <1>1, <2>1 DEF CoreInv, RecordsTrue
<1>4. TombstonesStale'
  <2> SUFFICES ASSUME ~PlainClients, NEW a \in Live', HasTombstone(table, a)
               PROVE  \E s \in UsedSlots(table) : table[s].ptr = a
    BY DEF TombstonesStale
  <2>1. a \in Ptr /\ a \notin {b, c}
    BY DEF Live
  <2> QED
    BY <1>1, <2>1 DEF CoreInv, TombstonesStale
<1> QED
  BY <1>2, <1>3, <1>4 DEF SafeTable

(* Nothing a property of the table mentions moved. *)
LEMMA NothingMoved ==
  ASSUME CoreInv, UNCHANGED <<table, used_count, heap>>
  PROVE  SafeTable'
<1>1. Live' = Live
  BY DEF Live
<1> QED
  BY <1>1 DEF CoreInv, SafeTable, RecordsTrue, TombstonesStale, UsedCountExact

(* A full table has no tombstone. *)
LEMMA FullNoTombstone ==
  ASSUME NEW t, NEW q \in Ptr, Full(t, q)
  PROVE  \A a : ~HasTombstone(t, a)
<1>1. UsedSlots(t) = Slot
  BY FullIffAllUsed
<1> QED
  BY <1>1 DEF UsedSlots, HasTombstone

LEMMA MallocSafe ==
  ASSUME CoreInv, NEW n \in Size, NEW f \in File, NEW line \in Line,
         MtMalloc(n, f, line)
  PROVE  SafeTable'
<1>0. n \in Nat
  BY MTCoreAssumption
<1>1. CASE UNCHANGED <<table, used_count, heap>>
  BY <1>1, NothingMoved
<1>2. ASSUME NEW p \in Available,
             heap' = [heap EXCEPT ![p] = n],
             TrackMalloc(p, n, SiteOf(f, line))
      PROVE  SafeTable'
  <2>1. p \in Ptr /\ p \notin Live /\ \A s \in UsedSlots(table) : table[s].ptr # p
    BY <1>2, DeadUnrecorded
  <2>2. \A a \in Ptr : heap'[a] = IF a = p THEN n ELSE heap[a]
    BY <1>2, <2>1 DEF CoreInv, StateTypeOK
  <2>3. Live' = Live \cup {p}
    BY <1>0, <2>1, <2>2 DEF Live
  <2>4. CASE DropAlloc(p)
    <3>1. ~HasTombstone(table, p)
      BY <2>1, <2>4, FullNoTombstone DEF DropAlloc
    <3>2. UNCHANGED <<table, used_count>>
      BY <2>4 DEF DropAlloc
    <3> QED
      BY <2>1, <2>2, <3>1, <3>2, TableUntouched
  <2>5. CASE RecordAlloc(p, n, SiteOf(f, line))
    <3>1. PICK s \in Slot :
            /\ InsertSlot(table, p, s)
            /\ table' = [table EXCEPT ![s] =
                           UsedRec(p, Clamp(n), SiteOf(f, line), SeqNow)]
      BY <2>5 DEF RecordAlloc
    <3> DEFINE r == UsedRec(p, Clamp(n), SiteOf(f, line), SeqNow)
    <3>2. r.state = "USED" /\ r.ptr = p /\ r.size = Clamp(n)
      BY DEF UsedRec
    <3> HIDE DEF r
    <3>3. Recorded(table, table', p, s, r)
      BY <2>1, <3>1, <3>2 DEF Recorded, CoreInv, StateTypeOK, r
    <3>4. RecordOutcome(table, table', s, r)
      BY <2>1, <3>3, RecordEffect
    <3> USE DEF RecordOutcome
    <3>9. UsedCountExact'
      BY <2>5, <3>4 DEF CoreInv, UsedCountExact, RecordAlloc
    <3>10. RecordsTrue'
      <4> SUFFICES ASSUME NEW v \in UsedSlots(table')
                   PROVE  /\ table'[v].ptr \in Live'
                          /\ Describes(table'[v].size, heap'[table'[v].ptr])
        BY DEF RecordsTrue
      <4>1. CASE v = s
        BY <1>0, <2>1, <2>2, <2>3, <3>2, <3>4, <4>1, SizeDescribes
      <4>2. CASE v \in UsedSlots(table)
        <5>1. /\ table'[v] = table[v] /\ table[v].ptr # p /\ table[v].ptr \in Live
              /\ Describes(table[v].size, heap[table[v].ptr])
          BY <2>1, <3>4, <4>2 DEF CoreInv, RecordsTrue
        <5> QED
          BY <2>2, <2>3, <5>1 DEF Live
      <4> QED
        BY <3>4, <4>1, <4>2
    <3>11. TombstonesStale'
      <4> SUFFICES ASSUME ~PlainClients, NEW a \in Live', HasTombstone(table', a)
                   PROVE  \E v \in UsedSlots(table') : table'[v].ptr = a
        BY DEF TombstonesStale
      <4>1. CASE a = p
        BY <3>2, <3>4, <4>1
      <4>2. CASE a \in Live
        BY <3>4, <4>2 DEF CoreInv, TombstonesStale
      <4> QED
        BY <2>3, <4>1, <4>2
    <3> QED
      BY <3>4, <3>9, <3>10, <3>11 DEF SafeTable
  <2> QED
    BY <1>2, <2>4, <2>5 DEF TrackMalloc
<1> QED
  BY <1>1, <1>2 DEF MtMalloc

LEMMA FreeSafe ==
  ASSUME CoreInv, NEW p \in Freeable, MtFree(p)
  PROVE  SafeTable'
<1>0. p \in Ptr /\ TableInv(table) /\ table \in [Slot -> AllocRec]
  BY DEF Freeable, Live, CoreInv, StateTypeOK
<1>1. CASE FreeUntracked(p)
  <2>1. \A s \in UsedSlots(table) : table[s].ptr # p
    BY <1>0, <1>1, TrackedIff DEF FreeUntracked
  <2>2. UNCHANGED <<table, used_count>>
    BY <1>1 DEF FreeUntracked
  <2>3. CASE UNCHANGED heap
    BY <2>2, <2>3, NothingMoved
  <2>4. CASE RealFree(p)
    <3>1. \A a \in Ptr : a # p => heap'[a] = heap[a]
      BY <1>0, <2>4 DEF RealFree, CoreInv, StateTypeOK
    <3>2. p \notin Live'
      BY <1>0, <2>4 DEF RealFree, CoreInv, StateTypeOK, Live, Freed, Corrupted
    <3> QED
      BY <1>0, <2>1, <2>2, <3>1, <3>2, TableUntouched
  <2> QED
    BY <1>1, <2>3, <2>4 DEF FreeUntracked
<1>2. ASSUME NEW s \in Slot, FindSlot(table, p, s), RecordFree(s), RealFree(p)
      PROVE  SafeTable'
  <2>1. s \in UsedSlots(table) /\ table[s].ptr = p
    BY <1>0, <1>2, FindSlotHolds DEF Holds, UsedSlots
  <2>2. table' = SlotFree(table, s) /\ used_count' = used_count - 1
    BY <1>2 DEF RecordFree
  <2>3. TableInv(table')
    BY <1>0, <2>1, <2>2, FreeEffect
  <2>4. UsedSlots(table') = UsedSlots(table) \ {s}
    BY <1>0, <2>1, <2>2, FreeEffect
  <2>5. Cardinality(UsedSlots(table')) = Cardinality(UsedSlots(table)) - 1
    BY <1>0, <2>1, <2>2, FreeEffect
  <2>6. \A v \in UsedSlots(table) : v # s => table'[v] = table[v] /\ table[v].ptr # p
    BY <1>0, <2>1, <2>2, FreeEffect
  <2>7. \A a : HasTombstone(table', a) => HasTombstone(table, a) \/ a = p
    BY <1>0, <2>1, <2>2, FreeEffect
  <2>8. /\ p \notin Live'
        /\ \A a \in Ptr : a # p => heap'[a] = heap[a] /\ (a \in Live' <=> a \in Live)
    BY <1>0, <1>2 DEF RealFree, CoreInv, StateTypeOK, Live, Freed, Corrupted
  <2>9. UsedCountExact'
    BY <2>2, <2>5 DEF CoreInv, UsedCountExact
  <2>10. RecordsTrue'
    <3> SUFFICES ASSUME NEW v \in UsedSlots(table')
                 PROVE  /\ table'[v].ptr \in Live'
                        /\ Describes(table'[v].size, heap'[table'[v].ptr])
      BY DEF RecordsTrue
    <3>1. v \in UsedSlots(table) /\ table'[v] = table[v] /\ table[v].ptr # p
      BY <2>4, <2>6
    <3>2. /\ table[v].ptr \in Live /\ table[v].ptr \in Ptr
          /\ Describes(table[v].size, heap[table[v].ptr])
      BY <3>1 DEF CoreInv, RecordsTrue, Live
    <3> QED
      BY <2>8, <3>1, <3>2
  <2>11. TombstonesStale'
    <3> SUFFICES ASSUME ~PlainClients, NEW a \in Live', HasTombstone(table', a)
                 PROVE  \E v \in UsedSlots(table') : table'[v].ptr = a
      BY DEF TombstonesStale
    <3>1. a \in Live /\ a # p /\ HasTombstone(table, a)
      BY <2>7, <2>8 DEF Live
    <3>2. PICK v \in UsedSlots(table) : table[v].ptr = a
      BY <3>1 DEF CoreInv, TombstonesStale
    <3> QED
      BY <2>1, <2>4, <2>6, <3>1, <3>2
  <2> QED
    BY <2>3, <2>9, <2>10, <2>11 DEF SafeTable
<1> QED
  BY <1>1, <1>2 DEF MtFree

LEMMA ReallocSafe ==
  ASSUME CoreInv, NEW p \in Live, NEW n \in Size, n > 0, MtReallocBlock(p, n)
  PROVE  SafeTable'
<1>0. n \in Nat /\ p \in Ptr /\ TableInv(table) /\ table \in [Slot -> AllocRec]
  BY MTCoreAssumption DEF Live, CoreInv, StateTypeOK
<1>1. CASE UNCHANGED <<table, used_count, heap>>
  BY <1>1, NothingMoved
<1>2. ASSUME NEW q \in Available \cup {p},
             RealRealloc(p, q, n), TrackRealloc(p, q, n)
      PROVE  SafeTable'
  <2>1. q \in Ptr /\ (q # p => q \in Available /\ q \notin Live)
    BY <1>0, DeadUnrecorded DEF Available
  <2>2. \A a \in Ptr : heap'[a] = IF a = q THEN n ELSE IF a = p THEN Freed ELSE heap[a]
    BY <1>2 DEF RealRealloc
  <2>3. Live' = (Live \ {p}) \cup {q}
    BY <1>0, <2>1, <2>2 DEF Live, Freed
  <2>4. q # p => \A s \in UsedSlots(table) : table[s].ptr # q
    BY <2>1, DeadUnrecorded
  \* the tracked block stays where it is
  <2>5. ASSUME NEW s \in Slot, FindSlot(table, p, s), q = p, ReallocInPlace(p, s, n)
        PROVE  SafeTable'
    <3>1. s \in UsedSlots(table) /\ table[s].ptr = p
      BY <1>0, <2>5, FindSlotHolds DEF Holds, UsedSlots
    <3>2. /\ \A v \in Slot : table'[v].ptr = table[v].ptr /\ table'[v].state = table[v].state
          /\ \A v \in Slot : v # s => table'[v] = table[v]
          /\ table'[s].size = Trunc(n)
      BY <1>0, <2>5 DEF ReallocInPlace, AllocRec
    <3>3. TableInv(table')
      BY <1>0, <3>2, UpdateKeepsInv
    <3>4. UsedSlots(table') = UsedSlots(table)
      BY <1>0, <3>2, UpdateKeepsInv
    <3>5. UsedCountExact'
      BY <2>5, <3>4 DEF ReallocInPlace, CoreInv, UsedCountExact
    <3>6. RecordsTrue'
      <4> SUFFICES ASSUME NEW v \in UsedSlots(table)
                   PROVE  /\ table'[v].ptr \in Live'
                          /\ Describes(table'[v].size, heap'[table'[v].ptr])
        BY <3>4 DEF RecordsTrue
      <4>1. CASE v = s
        <5>1. Describes(Trunc(n), n)
          BY <1>0, SizeDescribes
        <5> QED
          BY <1>0, <2>2, <2>3, <2>5, <3>1, <3>2, <4>1, <5>1
      <4>2. CASE v # s
        <5>1. /\ table'[v] = table[v] /\ table[v].ptr # p /\ table[v].ptr \in Live
              /\ Describes(table[v].size, heap[table[v].ptr])
          BY <3>1, <3>2, <4>2 DEF CoreInv, RecordsTrue, TableInv, UsedSlots
        <5> QED
          BY <2>2, <2>3, <2>5, <5>1 DEF Live
      <4> QED
        BY <4>1, <4>2
    <3>7. TombstonesStale'
      <4>1. Live' = Live
        BY <2>3, <2>5
      <4>2. \A a : HasTombstone(table', a) => HasTombstone(table, a)
        BY <3>2 DEF HasTombstone
      <4>3. \A v \in UsedSlots(table) : table'[v].ptr = table[v].ptr
        BY <3>2 DEF UsedSlots
      <4> QED
        BY <3>4, <4>1, <4>2, <4>3 DEF CoreInv, TombstonesStale
    <3> QED
      BY <3>3, <3>5, <3>6, <3>7 DEF SafeTable
  \* the tracked block moves
  <2>6. ASSUME NEW s \in Slot, FindSlot(table, p, s), q # p, ReallocMoved(p, q, s, n)
        PROVE  SafeTable'
    <3> DEFINE t1 == SlotFree(table, s)
               r == UsedRec(q, Clamp(n), OldSite(s), SeqNow)
    <3>1. s \in UsedSlots(table) /\ table[s].ptr = p
      BY <1>0, <2>6, FindSlotHolds DEF Holds, UsedSlots
    <3>2. PICK t \in Slot : InsertSlot(t1, q, t) /\ table' = [t1 EXCEPT ![t] = r]
      BY <2>6 DEF ReallocMoved
    <3>3. r.state = "USED" /\ r.ptr = q /\ r.size = Clamp(n)
      BY DEF UsedRec
    <3>4. t1 \in [Slot -> AllocRec]
      BY <1>0, SlotFreeType
    <3>5. TableInv(t1)
      BY <1>0, <3>1, FreeEffect
    <3>6. UsedSlots(t1) = UsedSlots(table) \ {s}
      BY <1>0, <3>1, FreeEffect
    <3>7. Cardinality(UsedSlots(t1)) = Cardinality(UsedSlots(table)) - 1
      BY <1>0, <3>1, FreeEffect
    <3>8. \A v \in UsedSlots(table) : v # s => t1[v] = table[v] /\ table[v].ptr # p
      BY <1>0, <3>1, FreeEffect
    <3>9. \A a : HasTombstone(t1, a) => HasTombstone(table, a) \/ a = p
      BY <1>0, <3>1, FreeEffect
    <3> HIDE DEF t1, r
    <3>10. \A v \in UsedSlots(t1) : t1[v].ptr # q
      BY <2>4, <2>6, <3>6, <3>8
    <3>11. RecordOutcome(t1, table', t, r)
      <4>1. Recorded(t1, table', q, t, r)
        BY <3>2, <3>3, <3>4, <3>5, <3>10 DEF Recorded
      <4> QED
        BY <2>1, <4>1, RecordEffect
    <3>12. UsedCountExact'
      <4>1. used_count' = used_count /\ used_count = Cardinality(UsedSlots(table))
        BY <2>6 DEF ReallocMoved, CoreInv, UsedCountExact
      <4>2. Cardinality(UsedSlots(table)) \in Nat
        BY UsedFinite
      <4> QED
        BY <3>7, <3>11, <4>1, <4>2 DEF RecordOutcome, UsedCountExact
    <3>13. RecordsTrue'
      <4> SUFFICES ASSUME NEW v \in UsedSlots(table')
                   PROVE  /\ table'[v].ptr \in Live'
                          /\ Describes(table'[v].size, heap'[table'[v].ptr])
        BY DEF RecordsTrue
      <4>1. CASE v = t
        BY <1>0, <2>1, <2>2, <2>3, <3>3, <3>11, <4>1, SizeDescribes DEF RecordOutcome
      <4>2. CASE v \in UsedSlots(t1)
        <5>1. v \in UsedSlots(table) /\ table'[v] = table[v] /\ table[v].ptr # p
          BY <3>6, <3>8, <3>11, <4>2 DEF RecordOutcome
        <5>2. /\ table[v].ptr \in Live /\ table[v].ptr # q
              /\ Describes(table[v].size, heap[table[v].ptr])
          BY <2>4, <2>6, <5>1 DEF CoreInv, RecordsTrue
        <5> QED
          BY <2>2, <2>3, <5>1, <5>2 DEF Live
      <4> QED
        BY <3>11, <4>1, <4>2 DEF RecordOutcome
    <3>14. TombstonesStale'
      <4> SUFFICES ASSUME ~PlainClients, NEW a \in Live', HasTombstone(table', a)
                   PROVE  \E v \in UsedSlots(table') : table'[v].ptr = a
        BY DEF TombstonesStale
      <4>1. CASE a = q
        BY <3>3, <3>11, <4>1 DEF RecordOutcome
      <4>2. CASE a # q
        <5>1. a \in Live /\ a # p
          BY <2>3, <4>2
        <5>2. HasTombstone(table, a)
          BY <3>9, <3>11, <5>1 DEF RecordOutcome
        <5>3. PICK v \in UsedSlots(table) : table[v].ptr = a
          BY <5>1, <5>2 DEF CoreInv, TombstonesStale
        <5>4. v \in UsedSlots(t1) /\ t1[v] = table[v]
          BY <3>1, <3>6, <3>8, <5>1, <5>3
        <5> QED
          BY <3>11, <5>3, <5>4 DEF RecordOutcome
      <4> QED
        BY <4>1, <4>2
    <3> QED
      BY <3>11, <3>12, <3>13, <3>14 DEF SafeTable, RecordOutcome
  \* the block was not tracked and is adopted
  <2>7. ASSUME ~Tracked(table, p), ReallocAdopt(q, n)
        PROVE  SafeTable'
    <3> DEFINE r == UsedRec(q, Clamp(n), NoSite, SeqNow)
    <3>1. \A s \in UsedSlots(table) : table[s].ptr # p /\ table[s].ptr # q
      BY <1>0, <2>4, <2>7, TrackedIff
    <3>2. PICK t \in Slot : InsertSlot(table, q, t) /\ table' = [table EXCEPT ![t] = r]
      BY <2>7 DEF ReallocAdopt
    <3>3. r.state = "USED" /\ r.ptr = q /\ r.size = Clamp(n)
      BY DEF UsedRec
    <3> HIDE DEF r
    <3>4. RecordOutcome(table, table', t, r)
      <4>1. Recorded(table, table', q, t, r)
        BY <1>0, <3>1, <3>2, <3>3 DEF Recorded
      <4> QED
        BY <2>1, <4>1, RecordEffect
    <3> USE DEF RecordOutcome
    <3>5. UsedCountExact'
      BY <2>7, <3>4 DEF CoreInv, UsedCountExact, ReallocAdopt
    <3>6. RecordsTrue'
      <4> SUFFICES ASSUME NEW v \in UsedSlots(table')
                   PROVE  /\ table'[v].ptr \in Live'
                          /\ Describes(table'[v].size, heap'[table'[v].ptr])
        BY DEF RecordsTrue
      <4>1. CASE v = t
        BY <1>0, <2>1, <2>2, <2>3, <3>3, <3>4, <4>1, SizeDescribes
      <4>2. CASE v \in UsedSlots(table)
        <5>1. /\ table'[v] = table[v] /\ table[v].ptr \notin {p, q}
              /\ table[v].ptr \in Live
              /\ Describes(table[v].size, heap[table[v].ptr])
          BY <3>1, <3>4, <4>2 DEF CoreInv, RecordsTrue
        <5> QED
          BY <2>2, <2>3, <5>1 DEF Live
      <4> QED
        BY <3>4, <4>1, <4>2
    <3>7. TombstonesStale'
      <4> SUFFICES ASSUME ~PlainClients, NEW a \in Live', HasTombstone(table', a)
                   PROVE  \E v \in UsedSlots(table') : table'[v].ptr = a
        BY DEF TombstonesStale
      <4>1. CASE a = q
        BY <3>3, <3>4, <4>1
      <4>2. CASE a # q
        BY <2>3, <3>4, <4>2 DEF CoreInv, TombstonesStale
      <4> QED
        BY <4>1, <4>2
    <3> QED
      BY <3>4, <3>5, <3>6, <3>7 DEF SafeTable
  \* the block was not tracked and there is no slot for it
  <2>8. ASSUME ~Tracked(table, p), ReallocFallThrough(q)
        PROVE  SafeTable'
    <3>1. \A s \in UsedSlots(table) : table[s].ptr \notin {p, q}
      BY <1>0, <2>4, <2>8, TrackedIff
    <3>2. \A a \in Live' \cap {p, q} : ~HasTombstone(table, a)
      BY <2>1, <2>8, FullNoTombstone DEF ReallocFallThrough
    <3>3. \A a \in Ptr : a \notin {p, q} => heap'[a] = heap[a]
      BY <2>2
    <3>4. UNCHANGED <<table, used_count>>
      BY <2>8 DEF ReallocFallThrough
    <3> QED
      BY <1>0, <2>1, <3>1, <3>2, <3>3, <3>4, TableUntouched
  <2> QED
    BY <1>2, <2>5, <2>6, <2>7, <2>8 DEF TrackRealloc
<1> QED
  BY <1>1, <1>2 DEF MtReallocBlock

LEMMA PlainSafe ==
  ASSUME CoreInv, PlainClients, NEW n \in Size, PlainMalloc(n)
  PROVE  SafeTable'
<1>1. PICK p \in Available : heap' = [heap EXCEPT ![p] = n]
  BY DEF PlainMalloc
<1>2. p \in Ptr /\ \A s \in UsedSlots(table) : table[s].ptr \notin {p, p}
  BY DeadUnrecorded
<1>3. \A a \in Ptr : a \notin {p, p} => heap'[a] = heap[a]
  BY <1>1 DEF CoreInv, StateTypeOK
<1>4. UNCHANGED <<table, used_count>>
  BY DEF PlainMalloc, trackerVars
<1> QED
  BY <1>2, <1>3, <1>4, TableUntouched

-----------------------------------------------------------------------------
(* The invariant holds *)

LEMMA CoreInvInit == Init => CoreInv
<1> SUFFICES ASSUME Init PROVE CoreInv
  OBVIOUS
<1>1. \A s \in Slot : table[s].state = "EMPTY"
  BY DEF Init, EmptyRec
<1>2. UsedSlots(table) = {} /\ \A p : ~HasTombstone(table, p)
  BY <1>1 DEF UsedSlots, HasTombstone
<1>3. UsedCountExact
  BY <1>2, FS_EmptySet DEF Init, UsedCountExact
<1> QED
  BY <1>2, <1>3, InitType DEF CoreInv, TableInv, RecordsTrue, TombstonesStale

LEMMA CoreInvStep == CoreInv /\ [Next]_vars => CoreInv'
<1> SUFFICES ASSUME CoreInv, [Next]_vars
             PROVE  CoreInv'
  OBVIOUS
<1>1. StateTypeOK'
  BY StepType DEF CoreInv
<1>2. SafeTable'
  <2>1. CASE MtInit
    BY <2>1, NothingMoved DEF MtInit
  <2>2. CASE \E n \in Size, f \in File, line \in Line : MtMalloc(n, f, line)
    BY <2>2, MallocSafe
  <2>3. CASE \E p \in Freeable : MtFree(p)
    BY <2>3, FreeSafe
  <2>4. CASE \E p \in Live, n \in Size : n > 0 /\ MtReallocBlock(p, n)
    BY <2>4, ReallocSafe
  <2>5. CASE PlainClients /\ \E n \in Size : PlainMalloc(n)
    BY <2>5, PlainSafe
  <2>6. CASE UNCHANGED vars
    BY <2>6, NothingMoved DEF vars, trackerVars
  <2> QED
    BY <2>1, <2>2, <2>3, <2>4, <2>5, <2>6, NextCases
<1> QED
  BY <1>1, <1>2 DEF CoreInv, SafeTable

(* CoreInv is an invariant of every execution. *)
THEOREM CoreInvariant == Spec => []CoreInv
<1> QED
  BY CoreInvInit, CoreInvStep, PTL DEF Spec

-----------------------------------------------------------------------------
(* The theorems *)

(* Every variable keeps its C type; g_used_count, which mt_malloc and       *)
(* mt_realloc increment and mt_free decrements unchecked, never wraps.      *)
THEOREM TypeCorrect == Spec => []TypeOK
<1>1. CoreInv => TypeOK
  BY UsedFinite DEF CoreInv, UsedCountExact, TypeOK
<1> QED
  BY <1>1, CoreInvariant, PTL

(* g_used_count is the number of USED slots. *)
THEOREM UsedCount == Spec => []UsedCountExact
<1>1. CoreInv => UsedCountExact
  BY DEF CoreInv
<1> QED
  BY <1>1, CoreInvariant, PTL

(* mt_find_slot finds every record, whatever the hash function, the         *)
(* collisions and the history of deletions and moves.                       *)
THEOREM Findable == Spec => []RecordsFindable
<1>1. CoreInv => RecordsFindable
  <2> SUFFICES ASSUME CoreInv, NEW s \in UsedSlots(table)
               PROVE  FindSlot(table, table[s].ptr, s)
    BY DEF RecordsFindable
  <2>1. s \in Slot /\ table[s].ptr \in Ptr /\ Holds(table, s, table[s].ptr)
    BY DEF CoreInv, TableInv, UsedSlots, Holds
  <2> QED
    BY <2>1, FindSlotComplete DEF CoreInv
<1> QED
  BY <1>1, CoreInvariant, PTL

(* Each record describes a live block of the real allocator: with its true  *)
(* size if that fits in 32 bits, and never with more than there is.         *)
THEOREM RecordsDescribe == Spec => []RecordsDescribeLiveBlocks
<1>1. CoreInv => RecordsDescribeLiveBlocks
  BY DEF CoreInv, RecordsTrue, RecordsDescribeLiveBlocks
<1> QED
  BY <1>1, CoreInvariant, PTL

(* When every allocation goes through the tracker, mt_free of a live block  *)
(* always reaches the real allocator.                                       *)
THEOREM NoneSwallowed ==
  ASSUME ~PlainClients
  PROVE  Spec => []NoLiveBlockSwallowed
<1>1. CoreInv => NoLiveBlockSwallowed
  <2> SUFFICES ASSUME CoreInv, NEW p \in Live, HasTombstone(table, p)
               PROVE  Tracked(table, p)
    BY DEF NoLiveBlockSwallowed
  <2>1. p \in Ptr /\ \E s \in UsedSlots(table) : table[s].ptr = p
    BY DEF CoreInv, TombstonesStale, Live
  <2> QED
    BY <2>1, TrackedIff DEF CoreInv
<1> QED
  BY <1>1, CoreInvariant, PTL

(* An allocation is dropped only when every slot is USED. *)
THEOREM DropsWhenFull == Spec => DropsOnlyWhenFull
<1>1. ASSUME CoreInv, [Next]_vars, drop_count' # drop_count
      PROVE  UsedSlots(table) = Slot
  <2>1. CASE MtInit
    BY <1>1, <2>1 DEF MtInit
  <2>2. ASSUME NEW n \in Size, NEW f \in File, NEW line \in Line, MtMalloc(n, f, line)
        PROVE  UsedSlots(table) = Slot
    <3>1. PICK p \in Available : DropAlloc(p)
      BY <1>1, <2>2 DEF MtMalloc, TrackMalloc, RecordAlloc
    <3> QED
      BY <3>1, FullIffAllUsed DEF DropAlloc, Available
  <2>3. CASE \E p \in Freeable : MtFree(p)
    BY <1>1, <2>3 DEF MtFree
  <2>4. CASE \E p \in Live, n \in Size : n > 0 /\ MtReallocBlock(p, n)
    BY <1>1, <2>4 DEF MtReallocBlock, TrackRealloc
  <2>5. CASE \E n \in Size : PlainMalloc(n)
    BY <1>1, <2>5 DEF PlainMalloc, trackerVars
  <2>6. CASE UNCHANGED vars
    BY <1>1, <2>6 DEF vars, trackerVars
  <2> QED
    BY <1>1, <2>1, <2>2, <2>3, <2>4, <2>5, <2>6, NextCases
<1> QED
  BY <1>1, CoreInvariant, PTL DEF Spec, DropsOnlyWhenFull


-----------------------------------------------------------------------------
(* Sums over finite sets.  MapThenSumSet adds up a set by taking one chosen *)
(* element after the other; the facts below do not depend on the order.     *)

Pick(s) == CHOOSE x \in s : TRUE

(* g adds up f over every subset of S, the way MapThenSumSet does           *)
SumIter(f, S, g) ==
  g = [s \in SUBSET S |-> IF s = {} THEN 0 ELSE f[Pick(s)] + g[s \ {Pick(s)}]]

Total(f, S) == (CHOOSE g : SumIter(f, S, g))[S]

(* A set of naturals has a least one. *)
LEMMA LeastNat ==
  ASSUME NEW T, T \subseteq Nat, T # {}
  PROVE  \E n \in T : \A m \in T : n <= m
<1>1. PICK n \in T : \A m \in T : ~(<<m, n>> \in OpToRel(<, Nat))
  BY WFMin, NatLessThanWellFounded
<1>2. \A m \in T : ~(m < n)
  BY <1>1 DEF OpToRel
<1>3. n \in Nat /\ \A m \in T : m \in Nat
  OBVIOUS
<1> QED
  BY <1>2, <1>3

(* Induction over the subsets of a finite set, G being the set of the good  *)
(* ones.                                                                    *)
LEMMA SubsetInduction ==
  ASSUME NEW S, IsFiniteSet(S), NEW G,
         \A s \in SUBSET S : (\A r \in SUBSET s : r # s => r \in G) => s \in G
  PROVE  S \in G
<1> DEFINE Bad == {s \in SUBSET S : s \notin G}
           N == {Cardinality(s) : s \in Bad}
<1>1. \A s \in SUBSET S : IsFiniteSet(s) /\ Cardinality(s) \in Nat
  BY FS_Subset, FS_CardinalityType
<1> SUFFICES ASSUME Bad # {} PROVE FALSE
  OBVIOUS
<1>2. N \subseteq Nat /\ N # {}
  BY <1>1
<1> HIDE DEF N
<1>3. PICK n \in N : \A m \in N : n <= m
  BY <1>2, LeastNat
<1>4. \A m \in N : ~(m < n)
  BY <1>2, <1>3
<1>5. PICK s \in Bad : n = Cardinality(s)
  BY DEF N
<1>6. ASSUME NEW r \in SUBSET s, r # s
      PROVE  r \in G
  <2>1. r \in SUBSET S /\ Cardinality(r) \in Nat /\ Cardinality(r) < Cardinality(s)
    BY <1>1, <1>5, <1>6, FS_Subset
  <2> QED
    BY <1>4, <1>5, <2>1 DEF N
<1> QED
  BY <1>5, <1>6

(* What is left without the chosen element is a smaller set. *)
LEMMA PickIn ==
  ASSUME NEW s, s # {}
  PROVE  Pick(s) \in s /\ s \ {Pick(s)} \in SUBSET s /\ s \ {Pick(s)} # s
<1>1. Pick(s) \in s
  BY DEF Pick
<1> QED
  BY <1>1

(* Two such functions agree where both are defined. *)
LEMMA ItersAgree ==
  ASSUME NEW f, NEW g, NEW S, NEW h, NEW T, NEW R, IsFiniteSet(R),
         SumIter(f, S, g), SumIter(f, T, h), R \subseteq S, R \subseteq T
  PROVE  g[R] = h[R]
<1> DEFINE G == {s \in SUBSET R : g[s] = h[s]}
<1>1. ASSUME NEW s \in SUBSET R, \A r \in SUBSET s : r # s => r \in G
      PROVE  s \in G
  <2>1. /\ s = {} => g[s] = 0 /\ h[s] = 0
        /\ s # {} => /\ g[s] = f[Pick(s)] + g[s \ {Pick(s)}]
                     /\ h[s] = f[Pick(s)] + h[s \ {Pick(s)}]
    BY DEF SumIter
  <2>2. s # {} => g[s \ {Pick(s)}] = h[s \ {Pick(s)}]
    BY <1>1, PickIn
  <2> QED
    BY <2>1, <2>2
<1> HIDE DEF G
<1>2. R \in G
  BY <1>1, SubsetInduction
<1> QED
  BY <1>2 DEF G

(* Every finite set has one. *)
LEMMA IterExists ==
  ASSUME NEW f, NEW S, IsFiniteSet(S)
  PROVE  \E g : SumIter(f, S, g)
<1> DEFINE G == {s \in SUBSET S : \E g : SumIter(f, s, g)}
           It(s) == CHOOSE g : SumIter(f, s, g)
<1>1. ASSUME NEW s \in SUBSET S, \A r \in SUBSET s : r # s => r \in G
      PROVE  s \in G
  <2> DEFINE g == [r \in SUBSET s |->
                     IF r # s THEN It(r)[r]
                     ELSE IF r = {} THEN 0
                     ELSE f[Pick(r)] + It(r \ {Pick(r)})[r \ {Pick(r)}]]
  <2>1. \A r \in SUBSET s : r # s => SumIter(f, r, It(r)) /\ IsFiniteSet(r)
    BY <1>1, FS_Subset
  <2> HIDE DEF It
  <2>2. ASSUME NEW r \in SUBSET s
        PROVE  g[r] = IF r = {} THEN 0 ELSE f[Pick(r)] + g[r \ {Pick(r)}]
    <3>1. CASE r = {} /\ r # s
      BY <2>1, <3>1 DEF SumIter
    <3>2. CASE r = s
      BY <3>2, PickIn
    <3>3. CASE r # {} /\ r # s
      <4> DEFINE q == r \ {Pick(r)}
      <4>1. q \in SUBSET r /\ q \in SUBSET s /\ q # s /\ IsFiniteSet(q)
        BY <2>1, <3>3, PickIn, FS_Subset
      <4>2. It(r)[q] = It(q)[q]
        BY <2>1, <3>3, <4>1, ItersAgree
      <4>3. It(r)[r] = f[Pick(r)] + It(r)[q]
        BY <2>1, <3>3 DEF SumIter
      <4> QED
        BY <3>3, <4>1, <4>2, <4>3
    <3> QED
      BY <3>1, <3>2, <3>3
  <2>3. SumIter(f, s, g)
    <3>1. g = [r \in SUBSET s |-> g[r]]
      OBVIOUS
    <3> HIDE DEF g
    <3> QED
      BY <2>2, <3>1 DEF SumIter
  <2> QED
    BY <2>3
<1> HIDE DEF G
<1>2. S \in G
  BY <1>1, SubsetInduction
<1> QED
  BY <1>2 DEF G

(* A sum takes its chosen element off. *)
LEMMA TotalUnfolds ==
  ASSUME NEW f, NEW S, IsFiniteSet(S)
  PROVE  /\ Total(f, {}) = 0
         /\ S # {} => Total(f, S) = f[Pick(S)] + Total(f, S \ {Pick(S)})
<1> DEFINE It(s) == CHOOSE g : SumIter(f, s, g)
           R == S \ {Pick(S)}
<1>1. IsFiniteSet({}) /\ IsFiniteSet(R)
  BY FS_EmptySet, FS_Subset
<1>2. SumIter(f, S, It(S)) /\ SumIter(f, {}, It({})) /\ SumIter(f, R, It(R))
  BY <1>1, IterExists
<1> HIDE DEF It
<1>3. It({})[{}] = 0
  BY <1>2 DEF SumIter
<1>4. It(S)[R] = It(R)[R]
  BY <1>1, <1>2, ItersAgree
<1>5. S # {} => It(S)[S] = f[Pick(S)] + It(S)[R]
  BY <1>2 DEF SumIter
<1> QED
  BY <1>3, <1>4, <1>5 DEF Total, It

(* A sum of integers is an integer, and takes any element off. *)
LEMMA TotalPeels ==
  ASSUME NEW f, NEW S, IsFiniteSet(S), \A x \in S : f[x] \in Int
  PROVE  /\ Total(f, S) \in Int
         /\ \A x \in S : Total(f, S) = f[x] + Total(f, S \ {x})
<1> DEFINE G == {s \in SUBSET S : /\ Total(f, s) \in Int
                                  /\ \A x \in s : Total(f, s) = f[x] + Total(f, s \ {x})}
<1>1. ASSUME NEW s \in SUBSET S, \A r \in SUBSET s : r # s => r \in G
      PROVE  s \in G
  <2>1. IsFiniteSet(s)
    BY FS_Subset
  <2>2. CASE s = {}
    BY <2>1, <2>2, TotalUnfolds
  <2>3. CASE s # {}
    <3> DEFINE p == Pick(s)
    <3>1. p \in s /\ f[p] \in Int /\ s \ {p} \in G
      BY <1>1, <2>3, PickIn
    <3>2. Total(f, s) = f[p] + Total(f, s \ {p}) /\ Total(f, s \ {p}) \in Int
      BY <2>1, <2>3, <3>1, TotalUnfolds
    <3> HIDE DEF p
    <3>3. ASSUME NEW x \in s, x # p
          PROVE  Total(f, s) = f[x] + Total(f, s \ {x})
      <4> DEFINE r == (s \ {p}) \ {x}
      <4>1. r = (s \ {x}) \ {p} /\ x \in s \ {p} /\ p \in s \ {x}
        BY <3>1, <3>3
      <4>2. s \ {x} \in G /\ r \in G
        BY <1>1, <3>1, <3>3
      <4>3. Total(f, s \ {p}) = f[x] + Total(f, r)
        BY <3>1, <4>1
      <4>4. Total(f, s \ {x}) = f[p] + Total(f, r)
        BY <4>1, <4>2
      <4>5. Total(f, r) \in Int /\ f[x] \in Int
        BY <4>2
      <4> HIDE DEF r, G
      <4> QED
        BY <3>1, <3>2, <4>3, <4>4, <4>5
    <3> QED
      BY <3>1, <3>2, <3>3
  <2> QED
    BY <2>2, <2>3
<1> HIDE DEF G
<1>2. S \in G
  BY <1>1, SubsetInduction
<1> QED
  BY <1>2 DEF G

(* It depends on the values of the elements alone. *)
LEMMA TotalSame ==
  ASSUME NEW f, NEW g, NEW S, IsFiniteSet(S), \A x \in S : f[x] = g[x]
  PROVE  Total(f, S) = Total(g, S)
<1> DEFINE G == {s \in SUBSET S : Total(f, s) = Total(g, s)}
<1>1. ASSUME NEW s \in SUBSET S, \A r \in SUBSET s : r # s => r \in G
      PROVE  s \in G
  <2>1. IsFiniteSet(s)
    BY FS_Subset
  <2>2. s # {} => Pick(s) \in S /\ Total(f, s \ {Pick(s)}) = Total(g, s \ {Pick(s)})
    BY <1>1, PickIn
  <2> QED
    BY <2>1, <2>2, TotalUnfolds
<1> HIDE DEF G
<1>2. S \in G
  BY <1>1, SubsetInduction
<1> QED
  BY <1>2 DEF G

(* A sum of naturals is a natural. *)
LEMMA TotalNat ==
  ASSUME NEW f, NEW S, IsFiniteSet(S), \A x \in S : f[x] \in Nat
  PROVE  Total(f, S) \in Nat
<1> DEFINE G == {s \in SUBSET S : Total(f, s) \in Nat}
<1>1. ASSUME NEW s \in SUBSET S, \A r \in SUBSET s : r # s => r \in G
      PROVE  s \in G
  <2>1. IsFiniteSet(s)
    BY FS_Subset
  <2>2. s # {} => f[Pick(s)] \in Nat /\ Total(f, s \ {Pick(s)}) \in Nat
    BY <1>1, PickIn
  <2>3. CASE s = {}
    <3>1. Total(f, s) = 0
      BY <2>1, <2>3, TotalUnfolds
    <3> QED
      BY <3>1
  <2>4. CASE s # {}
    <3>1. Total(f, s) = f[Pick(s)] + Total(f, s \ {Pick(s)})
      BY <2>1, <2>4, TotalUnfolds
    <3> QED
      BY <2>2, <2>4, <3>1
  <2> QED
    BY <2>3, <2>4
<1> HIDE DEF G
<1>2. S \in G
  BY <1>1, SubsetInduction
<1> QED
  BY <1>2 DEF G

-----------------------------------------------------------------------------
(* The bytes in use *)

(* The recorded sizes, and their sum over the USED slots *)
SizeOf(t) == [s \in Slot |-> t[s].size]

(* TrackedBytes is such a sum. *)
LEMMA TrackedBytesTotal == TrackedBytes = Total(SizeOf(table), UsedSlots(table))
<1> DEFINE U == UsedSlots(table)
           f == SizeOf(table)
           By(g) == g = [s \in SUBSET U |->
                           IF s = {} THEN 0 ELSE table[Pick(s)].size + g[s \ {Pick(s)}]]
<1>1. TrackedBytes = (CHOOSE g : By(g))[U]
  BY DEF TrackedBytes, MapThenSumSet, MapThenFoldSet, Pick
<1>2. IsFiniteSet(U) /\ U \subseteq Slot
  BY UsedFinite DEF UsedSlots
<1>3. \A s \in SUBSET U : s # {} => f[Pick(s)] = table[Pick(s)].size
  BY <1>2, PickIn DEF SizeOf
<1> HIDE DEF U, f
<1>4. \A g : SumIter(f, U, g) <=> By(g)
  BY <1>3 DEF SumIter
<1> HIDE DEF By
<1> DEFINE a == CHOOSE g : By(g)
           b == CHOOSE g : SumIter(f, U, g)
<1>5. By(a) /\ SumIter(f, U, b)
  BY <1>2, <1>4, IterExists
<1> HIDE DEF a, b
<1>6. a[U] = b[U]
  BY <1>2, <1>4, <1>5, ItersAgree
<1> QED
  BY <1>1, <1>6 DEF a, b, Total, U, f

Bytes(t) == Total(SizeOf(t), UsedSlots(t))

(* The bytes of a table are a natural, no less than those of any record. *)
LEMMA BytesBound ==
  ASSUME NEW t \in [Slot -> AllocRec]
  PROVE  /\ Bytes(t) \in Nat
         /\ \A s \in UsedSlots(t) : t[s].size \in Nat /\ t[s].size <= Bytes(t)
<1> DEFINE f == SizeOf(t)
           U == UsedSlots(t)
<1>1. IsFiniteSet(U) /\ \A x \in U : f[x] = t[x].size /\ f[x] \in Nat /\ f[x] \in Int
  BY UsedFinite DEF SizeOf, UsedSlots, AllocRec, Word
<1> HIDE DEF f, U
<1>2. Total(f, U) \in Nat
  BY <1>1, TotalNat
<1>3. ASSUME NEW s \in U
      PROVE  f[s] <= Total(f, U)
  <2>1. Total(f, U) = f[s] + Total(f, U \ {s})
    BY <1>1, TotalPeels
  <2>2. IsFiniteSet(U \ {s}) /\ \A x \in U \ {s} : f[x] \in Nat
    BY <1>1, FS_Subset
  <2>3. Total(f, U \ {s}) \in Nat /\ f[s] \in Nat
    BY <1>1, <2>2, TotalNat
  <2> QED
    BY <2>1, <2>3
<1> QED
  BY <1>1, <1>2, <1>3 DEF Bytes, f, U

(* Two tables whose records differ in slot s alone *)
LEMMA BytesDiffer ==
  ASSUME NEW t \in [Slot -> AllocRec], NEW u \in [Slot -> AllocRec], NEW s \in Slot,
         UsedSlots(t) \ {s} = UsedSlots(u) \ {s},
         \A v \in UsedSlots(t) \ {s} : u[v].size = t[v].size
  PROVE  Bytes(u) - (IF s \in UsedSlots(u) THEN u[s].size ELSE 0)
           = Bytes(t) - (IF s \in UsedSlots(t) THEN t[s].size ELSE 0)
<1> DEFINE Rest(w) == Total(SizeOf(w), UsedSlots(w) \ {s})
<1>1. ASSUME NEW w \in [Slot -> AllocRec]
      PROVE  Bytes(w) - (IF s \in UsedSlots(w) THEN w[s].size ELSE 0) = Rest(w)
  <2> DEFINE f == SizeOf(w)
             U == UsedSlots(w)
  <2>1. IsFiniteSet(U) /\ \A x \in U : f[x] = w[x].size /\ f[x] \in Int
    BY UsedFinite DEF SizeOf, UsedSlots, AllocRec, Word
  <2>2. IsFiniteSet(U \ {s}) /\ \A x \in U \ {s} : f[x] \in Int
    BY <2>1, FS_Subset
  <2> HIDE DEF f, U
  <2>3. Total(f, U) \in Int /\ Total(f, U \ {s}) \in Int
    BY <2>1, <2>2, TotalPeels
  <2>4. CASE s \in U
    <3>1. Total(f, U) = f[s] + Total(f, U \ {s}) /\ f[s] = w[s].size /\ f[s] \in Int
      BY <2>1, <2>4, TotalPeels
    <3>2. Total(f, U) - f[s] = Total(f, U \ {s})
      BY <2>3, <3>1
    <3> QED
      BY <2>4, <3>1, <3>2 DEF Bytes, f, U
  <2>5. CASE s \notin U
    <3>1. U \ {s} = U
      BY <2>5
    <3>2. Total(f, U \ {s}) = Total(f, U)
      BY <3>1
    <3>3. Total(f, U) - 0 = Total(f, U)
      BY <2>3
    <3> QED
      BY <2>5, <3>2, <3>3 DEF Bytes, f, U
  <2> QED
    BY <2>4, <2>5
<1>2. Rest(u) = Rest(t)
  <2> DEFINE R == UsedSlots(t) \ {s}
             f == SizeOf(t)
             g == SizeOf(u)
  <2>1. IsFiniteSet(R) /\ \A x \in R : f[x] = g[x]
    BY UsedFinite, FS_Subset, ZenonT(40) DEF SizeOf, UsedSlots
  <2> HIDE DEF R, f, g
  <2>2. Total(f, R) = Total(g, R)
    BY <2>1, TotalSame
  <2> QED
    BY <2>2 DEF R, f, g
<1> QED
  BY <1>1, <1>2

(* Recording a block adds its bytes. *)
LEMMA RecordBytes ==
  ASSUME NEW t \in [Slot -> AllocRec], NEW u \in [Slot -> AllocRec], NEW s \in Slot,
         NEW r, RecordOutcome(t, u, s, r)
  PROVE  Bytes(u) = Bytes(t) + r.size
<1>1. /\ UsedSlots(t) \ {s} = UsedSlots(u) \ {s} /\ s \notin UsedSlots(t)
      /\ s \in UsedSlots(u) /\ u[s] = r
      /\ \A v \in UsedSlots(t) \ {s} : u[v].size = t[v].size
  BY DEF RecordOutcome
<1>2. Bytes(u) - r.size = Bytes(t) - 0
  BY <1>1, BytesDiffer
<1>3. Bytes(u) \in Nat /\ Bytes(t) \in Nat /\ r.size \in Nat
  BY <1>1, BytesBound
<1> QED
  BY <1>2, <1>3

(* Freeing takes the bytes of the record off. *)
LEMMA FreeBytes ==
  ASSUME NEW t \in [Slot -> AllocRec], TableInv(t), NEW s \in UsedSlots(t)
  PROVE  Bytes(SlotFree(t, s)) = Bytes(t) - t[s].size
<1> DEFINE u == SlotFree(t, s)
<1>1. s \in Slot /\ u \in [Slot -> AllocRec]
  BY SlotFreeType DEF UsedSlots
<1>2. UsedSlots(u) = UsedSlots(t) \ {s}
  BY FreeEffect
<1>3. \A v \in UsedSlots(t) : v # s => u[v] = t[v]
  BY FreeEffect
<1> HIDE DEF u
<1>4. UsedSlots(t) \ {s} = UsedSlots(u) \ {s} /\ s \notin UsedSlots(u)
      /\ \A v \in UsedSlots(t) \ {s} : u[v].size = t[v].size
  BY <1>2, <1>3
<1>5. Bytes(u) - 0 = Bytes(t) - t[s].size
  BY <1>1, <1>4, BytesDiffer
<1>6. Bytes(u) \in Nat
  BY <1>1, BytesBound
<1> QED
  BY <1>5, <1>6 DEF u

(* Resizing a block in place exchanges its bytes. *)
LEMMA UpdateBytes ==
  ASSUME NEW t \in [Slot -> AllocRec], NEW u \in [Slot -> AllocRec], NEW s \in UsedSlots(t),
         UsedSlots(u) = UsedSlots(t), \A v \in Slot : v # s => u[v] = t[v]
  PROVE  Bytes(u) = (Bytes(t) - t[s].size) + u[s].size
<1>1. s \in Slot /\ UsedSlots(t) \ {s} = UsedSlots(u) \ {s}
      /\ \A v \in UsedSlots(t) \ {s} : u[v].size = t[v].size
  BY DEF UsedSlots
<1>2. Bytes(u) - u[s].size = Bytes(t) - t[s].size
  BY <1>1, BytesDiffer
<1>3. Bytes(u) \in Nat /\ Bytes(t) \in Nat /\ u[s].size \in Nat /\ t[s].size \in Nat
  BY BytesBound
<1> QED
  BY <1>2, <1>3

(* The counters of usage when the records hold b bytes *)
UsageAt(b) ==
  /\ current_used <= peak_used
  /\ peak_used < U32Max => current_used = b
  /\ Size \subseteq Word => current_used <= b

(* mt_add_current_used, when a record of d bytes was added *)
LEMMA UsageAdd ==
  ASSUME StateTypeOK, NEW b \in Nat, UsageAt(b), NEW d \in Word, AddCurrent(d)
  PROVE  UsageAt(b + d)'
<1>1. current_used \in 0..U32Max /\ peak_used \in 0..U32Max /\ d \in 0..U32Max
      /\ U32Max \in Nat
  BY U32Assumption DEF StateTypeOK, Word
<1>2. current_used' = IF U32Max - current_used < d THEN U32Max ELSE current_used + d
  BY DEF AddCurrent, AddSat
<1>3. peak_used' = IF current_used' > peak_used THEN current_used' ELSE peak_used
  BY DEF AddCurrent
<1> QED
  BY <1>1, <1>2, <1>3 DEF UsageAt

(* mt_sub_current_used, when d of the bytes were taken off *)
LEMMA UsageSub ==
  ASSUME StateTypeOK, NEW b \in Nat, UsageAt(b), NEW d \in Nat, d <= b, SubCurrent(d)
  PROVE  UsageAt(b - d)'
<1>1. current_used \in 0..U32Max /\ peak_used \in 0..U32Max /\ U32Max \in Nat
  BY U32Assumption DEF StateTypeOK, Word
<1>2. /\ current_used' = IF current_used < d THEN 0 ELSE current_used - d
      /\ peak_used' = peak_used
  BY DEF SubCurrent, SubFloor
<1> QED
  BY <1>1, <1>2 DEF UsageAt

(* A record of old bytes became one of m, which is what fits of n. *)
LEMMA UsageResize ==
  ASSUME StateTypeOK, NEW b \in Nat, UsageAt(b), NEW old \in Word, old <= b,
         NEW n \in Size, NEW m \in Nat, Describes(m, n), ResizeCurrent(old, n)
  PROVE  UsageAt((b - old) + m)'
<1>0. n \in Nat /\ old \in Nat /\ U32Max \in Nat /\ old <= U32Max
  BY MTCoreAssumption, U32Assumption DEF Word
<1>1. CASE n <= U32Max
  <2>1. m = n
    BY <1>1 DEF Describes
  <2>2. CASE n > old /\ AddCurrent(Clamp(n - old))
    <3>1. Clamp(n - old) = n - old /\ n - old \in Word /\ b + (n - old) = (b - old) + n
      BY <1>0, <1>1, <2>2 DEF Clamp, Word
    <3> QED
      BY <2>1, <2>2, <3>1, UsageAdd
  <2>3. CASE n <= old /\ SubCurrent(Clamp(old - n))
    <3>1. /\ Clamp(old - n) = old - n /\ old - n \in Nat /\ old - n <= b
          /\ b - (old - n) = (b - old) + n
      BY <1>0, <1>1, <2>3 DEF Clamp, Word
    <3> QED
      BY <2>1, <2>3, <3>1, UsageSub
  <2> QED
    BY <2>2, <2>3 DEF ResizeCurrent
<1>2. CASE n > U32Max
  \* the size does not fit: the counter saturates
  <2>1. AddCurrent(Clamp(n - old)) /\ ~(Size \subseteq Word)
    BY <1>0, <1>2 DEF ResizeCurrent, Word
  <2>2. Clamp(n - old) \in Word
    BY <1>0, <1>2, WordOps
  <2>3. UsageAt(b + Clamp(n - old))'
    BY <2>1, <2>2, UsageAdd
  <2>4. ~(peak_used' < U32Max)
    <3>1. /\ current_used \in 0..U32Max /\ peak_used \in 0..U32Max
          /\ current_used' = IF U32Max - current_used < Clamp(n - old)
                               THEN U32Max ELSE current_used + Clamp(n - old)
          /\ peak_used' = IF current_used' > peak_used THEN current_used' ELSE peak_used
      BY <2>1 DEF StateTypeOK, Word, AddCurrent, AddSat
    <3>2. CASE peak_used < U32Max
      <4>1. current_used >= old
        BY <3>2 DEF UsageAt
      <4>2. n - old > U32Max => Clamp(n - old) = U32Max
        BY DEF Clamp
      <4>3. n - old <= U32Max => Clamp(n - old) = n - old
        BY <1>0 DEF Clamp
      <4> QED
        BY <1>0, <1>2, <3>1, <4>1, <4>2, <4>3
    <3>3. CASE peak_used = U32Max
      <4>1. current_used' \in 0..U32Max
        BY <1>0, <2>2, <3>1 DEF Word
      <4> QED
        BY <1>0, <3>1, <3>3, <4>1
    <3> QED
      BY <1>0, <3>1, <3>2, <3>3
  <2> QED
    BY <2>1, <2>3, <2>4 DEF UsageAt
<1> QED
  BY <1>0, <1>1, <1>2

(* Deleting a slot leaves the other records alone. *)
LEMMA SlotFreeKeeps ==
  ASSUME NEW t \in [Slot -> AllocRec], NEW s \in Slot
  PROVE  \A v \in UsedSlots(SlotFree(t, s)) :
           v \in UsedSlots(t) /\ SlotFree(t, s)[v] = t[v]
BY DEF SlotFree, UsedSlots, AllocRec

(* g_current_used is the sum of the recorded sizes while it never saturated *)
UsageInv == UsageAt(Bytes(table))

(* It is inductive. *)
LEMMA UsageStep ==
  ASSUME CoreInv, CoreInv', UsageInv, [Next]_vars
  PROVE  UsageInv'
<1>0. /\ StateTypeOK /\ TableInv(table)
      /\ table \in [Slot -> AllocRec] /\ table' \in [Slot -> AllocRec]
  BY DEF CoreInv, StateTypeOK
<1> PICK b : b = Bytes(table)
  OBVIOUS
<1>1. b \in Nat /\ UsageAt(b)
      /\ \A s \in UsedSlots(table) : table[s].size \in Word /\ table[s].size <= b
  BY <1>0, BytesBound DEF UsageInv, AllocRec, UsedSlots
\* it is enough to know what the table holds after the step
<1>2. ASSUME NEW c, Bytes(table') = c, UsageAt(c)'
      PROVE  UsageInv'
  BY <1>2 DEF UsageInv, UsageAt
<1>3. CASE UNCHANGED <<table, usageVars>>
  BY <1>3 DEF UsageInv, UsageAt, usageVars
<1>4. ASSUME NEW n \in Size, NEW f \in File, NEW line \in Line, MtMalloc(n, f, line)
      PROVE  UsageInv'
  <2>1. ASSUME NEW p \in Available, RecordAlloc(p, n, SiteOf(f, line))
        PROVE  UsageInv'
    <3> DEFINE r == UsedRec(p, Clamp(n), SiteOf(f, line), SeqNow)
    <3>1. PICK s \in Slot : InsertSlot(table, p, s) /\ table' = [table EXCEPT ![s] = r]
      BY <2>1 DEF RecordAlloc
    <3>2. r.state = "USED" /\ r.ptr = p /\ r.size = Clamp(n)
      BY DEF UsedRec
    <3> HIDE DEF r
    <3>3. p \in Ptr /\ Recorded(table, table', p, s, r)
      BY <1>0, <3>1, <3>2, DeadUnrecorded DEF Recorded
    <3>4. RecordOutcome(table, table', s, r)
      BY <3>3, RecordEffect
    <3>5. Bytes(table') = b + Clamp(n)
      BY <1>0, <3>2, <3>4, RecordBytes
    <3>6. Clamp(n) \in Word
      BY WordOps, MTCoreAssumption
    <3>7. UsageAt(b + Clamp(n))'
      BY <1>0, <1>1, <2>1, <3>6, UsageAdd DEF RecordAlloc
    <3> QED
      BY <1>2, <3>5, <3>7
  <2> QED
    BY <1>3, <1>4, <2>1 DEF MtMalloc, TrackMalloc, DropAlloc
<1>5. ASSUME NEW p \in Freeable, MtFree(p)
      PROVE  UsageInv'
  <2>1. ASSUME NEW s \in Slot, FindSlot(table, p, s), RecordFree(s)
        PROVE  UsageInv'
    <3>1. p \in Ptr
      BY DEF Freeable, Live
    <3>2. s \in UsedSlots(table) /\ table' = SlotFree(table, s)
      BY <2>1, <3>1, FindSlotHolds DEF Holds, UsedSlots, RecordFree
    <3> PICK d : d = table[s].size
      OBVIOUS
    <3>3. Bytes(table') = b - d
      BY <1>0, <3>2, FreeBytes
    <3>4. d \in Nat /\ d <= b /\ SubCurrent(d)
      BY <1>1, <2>1, <3>2 DEF Word, RecordFree
    <3>5. UsageAt(b - d)'
      BY <1>0, <1>1, <3>4, UsageSub
    <3> QED
      BY <1>2, <3>3, <3>5
  <2> QED
    BY <1>3, <1>5, <2>1 DEF MtFree, FreeUntracked
<1>6. ASSUME NEW p \in Live, NEW n \in Size, n > 0, MtReallocBlock(p, n)
      PROVE  UsageInv'
  <2>0. n \in Nat /\ p \in Ptr
    BY MTCoreAssumption DEF Live
  <2>1. ASSUME NEW s \in Slot, FindSlot(table, p, s)
        PROVE  /\ s \in UsedSlots(table) /\ table[s].ptr = p
               /\ table[s].size \in Word /\ table[s].size <= b
    BY <1>1, <2>0, <2>1, FindSlotHolds DEF Holds, UsedSlots
  <2>2. ASSUME NEW old \in Word, old <= b, NEW m \in {Clamp(n), Trunc(n)},
               ResizeCurrent(old, n), Bytes(table') = (b - old) + m
        PROVE  UsageInv'
    <3>1. m \in Nat /\ Describes(m, n)
      <4>1. Clamp(n) \in Nat /\ Trunc(n) \in Nat
        BY <2>0, WordOps, U32Assumption DEF Word
      <4>2. Describes(Clamp(n), n) /\ Describes(Trunc(n), n)
        BY <2>0, SizeDescribes
      <4> QED
        BY <4>1, <4>2
    <3>2. UsageAt((b - old) + m)'
      BY <1>0, <1>1, <2>2, <3>1, UsageResize
    <3> QED
      BY <1>2, <2>2, <3>2
  <2>3. ASSUME NEW q, NEW s \in Slot, FindSlot(table, p, s), ReallocInPlace(p, s, n)
        PROVE  UsageInv'
    <3>1. /\ \A v \in Slot : table'[v].state = table[v].state
          /\ \A v \in Slot : v # s => table'[v] = table[v]
          /\ table'[s].size = Trunc(n)
      BY <1>0, <2>3 DEF ReallocInPlace, AllocRec
    <3>2. UsedSlots(table') = UsedSlots(table)
      BY <3>1 DEF UsedSlots
    <3> PICK old : old = table[s].size
      OBVIOUS
    <3>3. Bytes(table') = (b - old) + Trunc(n)
      BY <1>0, <2>1, <2>3, <3>1, <3>2, UpdateBytes
    <3>4. old \in Word /\ old <= b /\ ResizeCurrent(old, n)
      BY <2>1, <2>3 DEF ReallocInPlace
    <3> QED
      BY <2>2, <3>3, <3>4
  <2>4. ASSUME NEW q \in Available, NEW s \in Slot, FindSlot(table, p, s),
               ReallocMoved(p, q, s, n)
        PROVE  UsageInv'
    <3> PICK old : old = table[s].size
      OBVIOUS
    <3> DEFINE r == UsedRec(q, Clamp(n), OldSite(s), SeqNow)
    <3>1. PICK w \in Slot : /\ InsertSlot(SlotFree(table, s), q, w)
                            /\ table' = [SlotFree(table, s) EXCEPT ![w] = r]
      BY <2>4 DEF ReallocMoved
    <3>2. r.state = "USED" /\ r.ptr = q /\ r.size = Clamp(n)
      BY DEF UsedRec
    <3> HIDE DEF r
    <3>3. s \in UsedSlots(table)
      BY <2>1, <2>4
    <3>4. PICK t1 : t1 = SlotFree(table, s)
      OBVIOUS
    <3>5. t1 \in [Slot -> AllocRec] /\ Bytes(t1) = b - old
      BY <1>0, <3>3, <3>4, SlotFreeType, FreeBytes
    <3>6. TableInv(t1)
      BY <1>0, <3>3, <3>4, FreeEffect
    <3>7. \A v \in UsedSlots(t1) : t1[v].ptr # q
      BY <1>0, <2>4, <3>4, SlotFreeKeeps, DeadUnrecorded
    <3>8. q \in Ptr /\ Recorded(t1, table', q, w, r)
      BY <2>4, <3>1, <3>2, <3>4, <3>5, <3>6, <3>7, DeadUnrecorded DEF Recorded
    <3>9. RecordOutcome(t1, table', w, r)
      BY <3>8, RecordEffect
    <3>10. Bytes(table') = (b - old) + Clamp(n)
      BY <1>0, <3>2, <3>5, <3>9, RecordBytes
    <3>11. old \in Word /\ old <= b /\ ResizeCurrent(old, n)
      BY <2>1, <2>4 DEF ReallocMoved
    <3> QED
      BY <2>2, <3>10, <3>11
  <2>5. ASSUME NEW q \in Available \cup {p}, ~Tracked(table, p), ReallocAdopt(q, n)
        PROVE  UsageInv'
    <3> DEFINE r == UsedRec(q, Clamp(n), NoSite, SeqNow)
    <3>1. PICK s \in Slot : InsertSlot(table, q, s) /\ table' = [table EXCEPT ![s] = r]
      BY <2>5 DEF ReallocAdopt
    <3>2. r.state = "USED" /\ r.ptr = q /\ r.size = Clamp(n)
      BY DEF UsedRec
    <3> HIDE DEF r
    <3>3. q \in Ptr /\ \A v \in UsedSlots(table) : table[v].ptr # q
      BY <1>0, <2>0, <2>5, DeadUnrecorded, TrackedIff
    <3>4. Recorded(table, table', q, s, r)
      BY <1>0, <3>1, <3>2, <3>3 DEF Recorded
    <3>5. RecordOutcome(table, table', s, r)
      BY <3>3, <3>4, RecordEffect
    <3>6. Bytes(table') = b + Clamp(n)
      BY <1>0, <3>2, <3>5, RecordBytes
    <3>7. Clamp(n) \in Word
      BY <2>0, WordOps
    <3>8. UsageAt(b + Clamp(n))'
      BY <1>0, <1>1, <2>5, <3>7, UsageAdd DEF ReallocAdopt
    <3> QED
      BY <1>2, <3>6, <3>8
  <2>6. ASSUME NEW q \in Available \cup {p}, TrackRealloc(p, q, n)
        PROVE  UsageInv'
    BY <1>3, <2>3, <2>4, <2>5, <2>6 DEF TrackRealloc, ReallocFallThrough
  <2> QED
    BY <1>3, <1>6, <2>6 DEF MtReallocBlock
<1>7. CASE MtInit \/ (\E n \in Size : PlainMalloc(n)) \/ UNCHANGED vars
  BY <1>3, <1>7 DEF MtInit, PlainMalloc, vars, trackerVars
<1> QED
  BY <1>4, <1>5, <1>6, <1>7, NextCases

(* g_current_used is the sum of the recorded sizes until it saturates, in   *)
(* every execution, and with sizes that fit in 32 bits never more than it.  *)
THEOREM UsageMatches == Spec => []UsageMatchesRecords
<1>1. Init => UsageInv
  <2> SUFFICES ASSUME Init PROVE UsageInv
    OBVIOUS
  <2>1. UsedSlots(table) = {}
    BY DEF Init, EmptyRec, UsedSlots
  <2>2. Bytes(table) = 0
    BY <2>1, TotalUnfolds, FS_EmptySet DEF Bytes
  <2> QED
    BY <2>2 DEF Init, UsageInv, UsageAt
<1>2. CoreInv /\ UsageInv => UsageMatchesRecords
  BY TrackedBytesTotal DEF Bytes, UsageInv, UsageAt, UsageMatchesRecords
<1>3. CoreInv /\ CoreInv' /\ UsageInv /\ [Next]_vars => UsageInv'
  BY UsageStep
<1> QED
  BY <1>1, <1>2, <1>3, CoreInvariant, PTL DEF Spec

-----------------------------------------------------------------------------
(* The events of the hotspots *)

(* The events of the entries, and their sum over the whole hotspot table *)
AllocsOf(t) == [h \in HotspotIndex |-> t[h].allocs]

Events(t) == Total(AllocsOf(t), HotspotIndex)

(* The hotspot table has finitely many entries. *)
LEMMA IndexFinite == IsFiniteSet(HotspotIndex)
BY HotspotsAssumption, FS_Interval DEF HotspotIndex

(* HotspotEvents is such a sum. *)
LEMMA HotspotEventsTotal == HotspotEvents = Events(hotspots)
<1> DEFINE U == HotspotIndex
           f == AllocsOf(hotspots)
           By(g) == g = [s \in SUBSET U |->
                           IF s = {} THEN 0 ELSE hotspots[Pick(s)].allocs + g[s \ {Pick(s)}]]
<1>1. HotspotEvents = (CHOOSE g : By(g))[U]
  BY DEF HotspotEvents, MapThenSumSet, MapThenFoldSet, Pick
<1>2. IsFiniteSet(U)
  BY IndexFinite
<1>3. \A s \in SUBSET U : s # {} => f[Pick(s)] = hotspots[Pick(s)].allocs
  BY PickIn DEF AllocsOf
<1> HIDE DEF U, f
<1>4. \A g : SumIter(f, U, g) <=> By(g)
  BY <1>3 DEF SumIter
<1> HIDE DEF By
<1> DEFINE a == CHOOSE g : By(g)
           b == CHOOSE g : SumIter(f, U, g)
<1>5. By(a) /\ SumIter(f, U, b)
  BY <1>2, <1>4, IterExists
<1> HIDE DEF a, b
<1>6. a[U] = b[U]
  BY <1>2, <1>4, <1>5, ItersAgree
<1> QED
  BY <1>1, <1>6 DEF a, b, Total, U, f, Events

(* One hotspot counted other events than before. *)
LEMMA EventsDiffer ==
  ASSUME NEW t \in [HotspotIndex -> HotspotRec], NEW u \in [HotspotIndex -> HotspotRec],
         NEW h \in HotspotIndex, \A g \in HotspotIndex : g # h => u[g] = t[g]
  PROVE  /\ Events(t) \in Nat /\ Events(u) \in Nat
         /\ Events(u) = (Events(t) - t[h].allocs) + u[h].allocs
<1> DEFINE I == HotspotIndex
           Rest(w) == Total(AllocsOf(w), I \ {h})
<1>1. ASSUME NEW w \in [HotspotIndex -> HotspotRec]
      PROVE  /\ Events(w) \in Nat /\ Rest(w) \in Nat /\ w[h].allocs \in Nat
             /\ Events(w) = w[h].allocs + Rest(w)
  <2> DEFINE f == AllocsOf(w)
  <2>1. IsFiniteSet(I) /\ \A x \in I : f[x] = w[x].allocs /\ f[x] \in Nat /\ f[x] \in Int
    <3>1. IsFiniteSet(I)
      BY IndexFinite
    <3>2. \A x \in I : f[x] = w[x].allocs /\ w[x].allocs \in Word
      BY DEF AllocsOf, HotspotRec
    <3> QED
      BY <3>1, <3>2, U32Assumption DEF Word
  <2>2. IsFiniteSet(I \ {h})
    BY <2>1, FS_Subset
  <2> HIDE DEF f
  <2>3. Total(f, I) \in Nat /\ Total(f, I \ {h}) \in Nat
    BY <2>1, <2>2, TotalNat
  <2>4. Total(f, I) = f[h] + Total(f, I \ {h})
    BY <2>1, TotalPeels
  <2> QED
    BY <2>1, <2>3, <2>4 DEF Events, f
<1>2. Rest(u) = Rest(t)
  <2> DEFINE f == AllocsOf(t)
             g == AllocsOf(u)
             R == I \ {h}
  <2>1. IsFiniteSet(R) /\ \A x \in R : f[x] = g[x]
    <3>1. IsFiniteSet(R)
      BY IndexFinite, FS_Subset
    <3>2. \A x \in R : f[x] = t[x].allocs /\ g[x] = u[x].allocs /\ u[x] = t[x]
      BY DEF AllocsOf
    <3> QED
      BY <3>1, <3>2
  <2> HIDE DEF f, g, R
  <2>2. Total(f, R) = Total(g, R)
    BY <2>1, TotalSame
  <2> QED
    BY <2>2 DEF f, g, R
<1> HIDE DEF Rest
<1> QED
  BY <1>1, <1>2

(* No entry counted an event. *)
LEMMA EventsZero ==
  ASSUME NEW t, \A h \in HotspotIndex : t[h].allocs = 0
  PROVE  Events(t) = 0
<1> DEFINE f == AllocsOf(t)
           I == HotspotIndex
           G == {s \in SUBSET I : Total(f, s) = 0}
<1>0. IsFiniteSet(I) /\ \A h \in I : f[h] = 0
  BY IndexFinite DEF AllocsOf
<1> HIDE DEF f, I
<1>1. ASSUME NEW s \in SUBSET I, \A r \in SUBSET s : r # s => r \in G
      PROVE  s \in G
  <2>1. IsFiniteSet(s)
    BY <1>0, FS_Subset
  <2>2. CASE s = {}
    BY <2>1, <2>2, TotalUnfolds
  <2>3. CASE s # {}
    <3>1. f[Pick(s)] = 0 /\ Total(f, s \ {Pick(s)}) = 0
      BY <1>0, <1>1, <2>3, PickIn
    <3>2. Total(f, s) = f[Pick(s)] + Total(f, s \ {Pick(s)})
      BY <2>1, <2>3, TotalUnfolds
    <3> QED
      BY <3>1, <3>2
  <2> QED
    BY <2>2, <2>3
<1> HIDE DEF G
<1>2. I \in G
  BY <1>0, <1>1, SubsetInduction
<1> QED
  BY <1>2 DEF G, f, I, Events

(* The two numbers are the same but for multiples of 2^32. *)
Congruent(a, b) == \E k \in Int : a = b + (U32Max + 1) * k

(* Then they are the same in 32 bits. *)
LEMMA CongruentTrunc ==
  ASSUME NEW a \in Nat, NEW b \in Nat, Congruent(a, b)
  PROVE  Trunc(a) = Trunc(b)
<1> DEFINE n == U32Max + 1
           q == b \div n
           r == b % n
<1>1. n \in Nat \ {0}
  BY U32Assumption
<1>2. PICK k \in Int : a = b + n * k
  BY DEF Congruent
<1>3. b = n * q + r /\ q \in Nat /\ r \in 0..(n - 1)
  BY <1>1, DivMod
<1> HIDE DEF n, q, r
<1>4. n * (q + k) = n * q + n * k
  BY <1>1, <1>2, <1>3
<1>5. a = n * (q + k) + r /\ q + k \in Int
  <2>1. n * q \in Int /\ n * k \in Int /\ r \in Int
    BY <1>1, <1>2, <1>3
  <2>2. a = (n * q + n * k) + r
    BY <1>2, <1>3, <2>1
  <2> QED
    BY <1>2, <1>3, <1>4, <2>2
<1>6. a % n = r
  BY <1>1, <1>3, <1>5, RemainderUnique
<1> QED
  BY <1>6 DEF n, r, Trunc

(* It is kept when each of the two sides counts one more event, in either   *)
(* of two counters, of which the one that counts may wrap.                  *)
LEMMA CongruentInc ==
  ASSUME NEW a \in Int, NEW b \in Int, Congruent(a, b), NEW x \in Word, NEW y \in Word
  PROVE  Congruent((a - x) + Inc(x), (b - y) + Inc(y))
<1> DEFINE n == U32Max + 1
<1>1. n \in Int /\ x \in Int /\ y \in Int
  BY U32Assumption DEF Word
<1>2. /\ (a - x) + Inc(x) = a + 1 \/ (a - x) + Inc(x) = (a + 1) - n
      /\ (b - y) + Inc(y) = b + 1 \/ (b - y) + Inc(y) = (b + 1) - n
  BY U32Assumption DEF Word, Inc
<1>3. PICK k \in Int : a = b + n * k
  BY DEF Congruent
<1> HIDE DEF n
<1>4. n * (k + 1) = n * k + n /\ n * (k - 1) = n * k - n /\ n * k \in Int
  BY <1>1, <1>3
<1>5. \A c, d \in Int :
        (c = a + 1 \/ c = (a + 1) - n) /\ (d = b + 1 \/ d = (b + 1) - n) =>
          c = d + n * k \/ c = d + n * (k + 1) \/ c = d + n * (k - 1)
  BY <1>1, <1>3, <1>4
<1>6. (a - x) + Inc(x) \in Int /\ (b - y) + Inc(y) \in Int
  BY <1>1, <1>2
<1>7. k \in Int /\ k + 1 \in Int /\ k - 1 \in Int
  BY <1>3
<1> QED
  BY <1>2, <1>5, <1>6, <1>7 DEF Congruent, n

(* Hotspots and totals count the same events, and entries not yet in use    *)
(* count none.                                                              *)
HotspotInv ==
  /\ Congruent(Events(hotspots) + hotspots_drop, total_allocs + drop_count)
  /\ \A h \in HotspotIndex : h >= hotspots_used => hotspots[h].allocs = 0

(* mt_hotspot_record counts one event. *)
LEMMA HotspotCounts ==
  ASSUME HotspotTypeOK, HotspotTypeOK', NEW site, NEW m, NEW s,
         HotspotRecord(site, m, s),
         \A h \in HotspotIndex : h >= hotspots_used => hotspots[h].allocs = 0
  PROVE  /\ \E x \in Word :
              Events(hotspots') + hotspots_drop'
                = ((Events(hotspots) + hotspots_drop) - x) + Inc(x)
         /\ \A h \in HotspotIndex : h >= hotspots_used' => hotspots'[h].allocs = 0
<1>0. /\ hotspots \in [HotspotIndex -> HotspotRec]
      /\ hotspots' \in [HotspotIndex -> HotspotRec]
      /\ hotspots_used \in Nat /\ hotspots_drop \in Nat /\ hotspots_drop \in Word
  BY HotspotsAssumption, U32Assumption DEF HotspotTypeOK, Word
\* an entry counts the event
<1>1. ASSUME NEW h \in HotspotIndex, NEW x \in Word, hotspots[h].allocs = x,
             hotspots'[h].allocs = Inc(x), UNCHANGED hotspots_drop,
             \A g \in HotspotIndex : g # h => hotspots'[g] = hotspots[g]
      PROVE  Events(hotspots') + hotspots_drop'
               = ((Events(hotspots) + hotspots_drop) - x) + Inc(x)
  <2>1. /\ Events(hotspots) \in Nat
        /\ Events(hotspots') = (Events(hotspots) - x) + Inc(x)
    BY <1>0, <1>1, EventsDiffer
  <2>2. x \in Nat /\ Inc(x) \in Nat
    BY WordOps, U32Assumption DEF Word
  <2> QED
    BY <1>0, <1>1, <2>1, <2>2
<1>2. CASE HotspotUpdate(site, m, s)
  <2>1. PICK h \in 0..(hotspots_used - 1) :
          hotspots' = [hotspots EXCEPT ![h] =
                         [site |-> site,
                          allocs |-> Inc(@.allocs),
                          bytes |-> Trunc(@.bytes + m),
                          last_seq |-> s]]
    BY <1>2 DEF HotspotUpdate
  <2>2. h \in HotspotIndex /\ ~(h >= hotspots_used)
    BY HotspotsAssumption DEF HotspotTypeOK, HotspotIndex
  <2>3. /\ hotspots[h].allocs \in Word /\ hotspots'[h].allocs = Inc(hotspots[h].allocs)
        /\ \A g \in HotspotIndex : g # h => hotspots'[g] = hotspots[g]
    BY <1>0, <2>1, <2>2 DEF HotspotRec
  <2>4. UNCHANGED <<hotspots_used, hotspots_drop>>
    BY <1>2 DEF HotspotUpdate
  <2> QED
    BY <1>1, <2>2, <2>3, <2>4
<1>3. CASE HotspotInsert(site, m, s)
  <2>1. /\ hotspots_used \in HotspotIndex /\ UNCHANGED hotspots_drop
        /\ hotspots_used' = hotspots_used + 1
    BY <1>3, HotspotsAssumption DEF HotspotInsert, HotspotTypeOK, HotspotIndex
  <2>2. /\ hotspots'[hotspots_used].allocs = 1
        /\ \A g \in HotspotIndex : g # hotspots_used => hotspots'[g] = hotspots[g]
    BY <1>0, <1>3, <2>1 DEF HotspotInsert
  <2>3. hotspots[hotspots_used].allocs = 0 /\ Inc(0) = 1 /\ 0 \in Word
    BY <1>0, <2>1, U32Assumption, WordOps DEF Inc
  <2>4. \A h \in HotspotIndex : h >= hotspots_used' => h # hotspots_used /\ h >= hotspots_used
    BY <1>0, <2>1 DEF HotspotIndex
  <2> PICK e : e = hotspots_used
    OBVIOUS
  <2>5. Events(hotspots') + hotspots_drop'
          = ((Events(hotspots) + hotspots_drop) - 0) + Inc(0)
    BY <1>1, <2>1, <2>2, <2>3
  <2> QED
    BY <2>2, <2>3, <2>4, <2>5
<1>4. CASE HotspotOverflow(site)
  <2>1. UNCHANGED <<hotspots, hotspots_used>> /\ hotspots_drop' = Inc(hotspots_drop)
    BY <1>4 DEF HotspotOverflow
  <2>2. Events(hotspots) \in Nat /\ Inc(hotspots_drop) \in Nat
    <3>1. 0 \in HotspotIndex
      BY HotspotsAssumption DEF HotspotIndex
    <3>2. Events(hotspots) \in Nat
      BY <1>0, <3>1, EventsDiffer
    <3>3. Inc(hotspots_drop) \in Word
      BY <1>0, WordOps
    <3> QED
      BY <3>2, <3>3, U32Assumption DEF Word
  <2>3. Events(hotspots') = Events(hotspots)
    BY <2>1
  <2>4. Events(hotspots') + hotspots_drop'
          = ((Events(hotspots) + hotspots_drop) - hotspots_drop) + Inc(hotspots_drop)
    BY <1>0, <2>1, <2>2, <2>3
  <2> QED
    BY <1>0, <2>1, <2>4
<1> QED
  BY <1>2, <1>3, <1>4 DEF HotspotRecord

(* Each step counts the same events on both sides. *)
LEMMA HotspotStep ==
  ASSUME CoreInv, CoreInv', HotspotInv, [Next]_vars
  PROVE  HotspotInv'
<1>0. HotspotTypeOK /\ HotspotTypeOK' /\ total_allocs \in Word /\ drop_count \in Word
      /\ hotspots_drop \in Nat
  BY U32Assumption DEF CoreInv, StateTypeOK, HotspotTypeOK, Word
<1>1. CASE UNCHANGED <<hotspotVars, total_allocs, drop_count>>
  BY <1>1 DEF HotspotInv, hotspotVars
<1>2. ASSUME NEW n \in Size, NEW f \in File, NEW line \in Line, MtMalloc(n, f, line)
      PROVE  HotspotInv'
  <2>1. ASSUME NEW p \in Available, TrackMalloc(p, n, SiteOf(f, line))
        PROVE  HotspotInv'
    <3> PICK a : a = Events(hotspots) + hotspots_drop
      OBVIOUS
    <3> PICK b : b = total_allocs + drop_count
      OBVIOUS
    <3>1. PICK x \in Word : Events(hotspots') + hotspots_drop' = (a - x) + Inc(x)
      BY <1>0, <2>1, HotspotCounts DEF TrackMalloc, HotspotInv
    <3>2. \A h \in HotspotIndex : h >= hotspots_used' => hotspots'[h].allocs = 0
      BY <1>0, <2>1, HotspotCounts DEF TrackMalloc, HotspotInv
    <3>3. \E y \in Word : total_allocs' + drop_count' = (b - y) + Inc(y)
      <4>1. total_allocs \in Nat /\ drop_count \in Nat
            /\ Inc(total_allocs) \in Nat /\ Inc(drop_count) \in Nat
        <5>1. Inc(total_allocs) \in Word /\ Inc(drop_count) \in Word
          BY <1>0, WordOps
        <5>2. \A w \in Word : w \in Nat
          BY U32Assumption DEF Word
        <5> QED
          BY <1>0, <5>1, <5>2
      <4>2. CASE RecordAlloc(p, n, SiteOf(f, line))
        <5>1. total_allocs' + drop_count' = (b - total_allocs) + Inc(total_allocs)
          BY <4>1, <4>2 DEF RecordAlloc
        <5> QED
          BY <1>0, <5>1
      <4>3. CASE DropAlloc(p)
        <5>1. total_allocs' + drop_count' = (b - drop_count) + Inc(drop_count)
          BY <4>1, <4>3 DEF DropAlloc
        <5> QED
          BY <1>0, <5>1
      <4> QED
        BY <2>1, <4>2, <4>3 DEF TrackMalloc
    <3>4. a \in Int /\ b \in Int /\ Congruent(a, b)
      <4>1. 0 \in HotspotIndex
        BY HotspotsAssumption DEF HotspotIndex
      <4>2. Events(hotspots) \in Nat
        BY <1>0, <4>1, EventsDiffer DEF HotspotTypeOK
      <4> QED
        BY <1>0, <4>2, U32Assumption DEF Word, HotspotInv
    <3>5. Congruent(Events(hotspots') + hotspots_drop', total_allocs' + drop_count')
      BY <3>1, <3>3, <3>4, CongruentInc
    <3> QED
      BY <3>2, <3>5 DEF HotspotInv
  <2> QED
    BY <1>1, <1>2, <2>1 DEF MtMalloc, totalVars
<1>3. CASE \E p \in Freeable : MtFree(p)
  BY <1>1, <1>3 DEF MtFree
<1>4. CASE \E p \in Live, n \in Size : n > 0 /\ MtReallocBlock(p, n)
  BY <1>1, <1>4 DEF MtReallocBlock, TrackRealloc, totalVars
<1>5. CASE MtInit \/ (\E n \in Size : PlainMalloc(n)) \/ UNCHANGED vars
  BY <1>1, <1>5 DEF MtInit, PlainMalloc, vars, trackerVars, totalVars
<1> QED
  BY <1>2, <1>3, <1>4, <1>5, NextCases

(* Every successful malloc is counted by exactly one hotspot or as a        *)
(* hotspot drop, in every execution and across every wrap of the counters.  *)
THEOREM HotspotsCount == Spec => []HotspotsCountEveryMalloc
<1>1. Init => HotspotInv
  <2> SUFFICES ASSUME Init PROVE HotspotInv
    OBVIOUS
  <2>1. \A h \in HotspotIndex : hotspots[h].allocs = 0
    BY DEF Init, HotspotInit, NoHotspot
  <2>2. Events(hotspots) = 0
    BY <2>1, EventsZero
  <2>3. 0 + 0 = (0 + 0) + (U32Max + 1) * 0
    BY U32Assumption
  <2> QED
    BY <2>1, <2>2, <2>3 DEF Init, HotspotInit, HotspotInv, Congruent
<1>2. CoreInv /\ HotspotInv => HotspotsCountEveryMalloc
  <2> SUFFICES ASSUME CoreInv, HotspotInv PROVE HotspotsCountEveryMalloc
    OBVIOUS
  <2>1. 0 \in HotspotIndex
    BY HotspotsAssumption DEF HotspotIndex
  <2>2. Events(hotspots) \in Nat
    BY <2>1, EventsDiffer DEF CoreInv, StateTypeOK, HotspotTypeOK
  <2>3. /\ Events(hotspots) + hotspots_drop \in Nat
        /\ total_allocs + drop_count \in Nat
    BY <2>2, U32Assumption DEF CoreInv, StateTypeOK, HotspotTypeOK, Word
  <2>4. Trunc(Events(hotspots) + hotspots_drop) = Trunc(total_allocs + drop_count)
    BY <2>3, CongruentTrunc DEF HotspotInv
  <2> QED
    BY <2>4, HotspotEventsTotal DEF HotspotsCountEveryMalloc
<1>3. CoreInv /\ CoreInv' /\ HotspotInv /\ [Next]_vars => HotspotInv'
  BY HotspotStep
<1> QED
  BY <1>1, <1>2, <1>3, CoreInvariant, PTL DEF Spec

-----------------------------------------------------------------------------
(* What the ledger says, in terms of the slots *)

(* Slot s is USED and its record is p's: the form the invariant uses.       *)
LEMMA HoldsUsed ==
  ASSUME NEW t, NEW s, NEW p
  PROVE  s \in Slot /\ Holds(t, s, p) <=> s \in UsedSlots(t) /\ t[s].ptr = p
BY DEF Holds, UsedSlots

(* The entry of an address follows from its one record.                     *)
EntriesFollow ==
  \A p \in Ptr :
    /\ p \notin Live => LedgerOf(p) = [kind |-> "dead"]
    /\ p \in Live =>
         /\ \A s \in UsedSlots(table) : table[s].ptr = p =>
              LedgerOf(p) = [kind |-> "recorded", bytes |-> table[s].size,
                             where |-> table[s].site]
         /\ (\A s \in UsedSlots(table) : table[s].ptr # p) =>
              LedgerOf(p) = [kind |-> "unrecorded"]

LEMMA EntriesNow == CoreInv => EntriesFollow
<1> SUFFICES ASSUME CoreInv, NEW p \in Ptr, p \in Live
             PROVE  /\ \A s \in UsedSlots(table) : table[s].ptr = p =>
                         LedgerOf(p) = [kind |-> "recorded", bytes |-> table[s].size,
                                        where |-> table[s].site]
                    /\ (\A s \in UsedSlots(table) : table[s].ptr # p) =>
                         LedgerOf(p) = [kind |-> "unrecorded"]
  BY DEF EntriesFollow, LedgerOf
<1>1. ASSUME NEW s \in UsedSlots(table), table[s].ptr = p
      PROVE  LedgerOf(p) = [kind |-> "recorded", bytes |-> table[s].size,
                            where |-> table[s].site]
  <2>1. s \in Slot /\ Holds(table, s, p)
    BY <1>1, HoldsUsed
  <2>2. RecordOf(p) \in Slot /\ Holds(table, RecordOf(p), p)
    BY <2>1 DEF RecordOf
  <2>3. RecordOf(p) = s
    BY <1>1, <2>2, HoldsUsed DEF CoreInv, TableInv
  <2> QED
    BY <2>1, <2>3 DEF LedgerOf
<1>2. ASSUME \A s \in UsedSlots(table) : table[s].ptr # p
      PROVE  LedgerOf(p) = [kind |-> "unrecorded"]
  BY <1>2, HoldsUsed DEF LedgerOf
<1> QED
  BY <1>1, <1>2

LEMMA EntriesNext == CoreInv' => EntriesFollow'
BY EntriesNow, PTL

(* An address whose heap cell and records a step leaves alone keeps its     *)
(* entry.                                                                   *)
LEMMA EntryKept ==
  ASSUME CoreInv, CoreInv', NEW a \in Ptr, heap'[a] = heap[a],
         \A s \in UsedSlots(table) : table[s].ptr = a =>
            s \in UsedSlots(table') /\ table'[s] = table[s],
         \A s \in UsedSlots(table') : table'[s].ptr = a =>
            s \in UsedSlots(table) /\ table'[s] = table[s]
  PROVE  LedgerOf(a)' = LedgerOf(a)
<1>1. EntriesFollow /\ EntriesFollow'
  BY EntriesNow, EntriesNext
<1>2. a \in Live' <=> a \in Live
  BY DEF Live
<1>3. CASE a \notin Live
  BY <1>1, <1>2, <1>3 DEF EntriesFollow
<1>4. CASE a \in Live /\ \E s \in UsedSlots(table) : table[s].ptr = a
  <2>1. PICK s \in UsedSlots(table) : table[s].ptr = a
    BY <1>4
  <2>2. s \in UsedSlots(table') /\ table'[s] = table[s]
    BY <2>1
  <2>3. LedgerOf(a) = [kind |-> "recorded", bytes |-> table[s].size,
                       where |-> table[s].site]
    BY <1>1, <1>4, <2>1 DEF EntriesFollow
  <2>4. LedgerOf(a)' = [kind |-> "recorded", bytes |-> table'[s].size,
                        where |-> table'[s].site]
    BY <1>1, <1>2, <1>4, <2>1, <2>2 DEF EntriesFollow
  <2> QED
    BY <2>2, <2>3, <2>4
<1>5. CASE a \in Live /\ \A s \in UsedSlots(table) : table[s].ptr # a
  <2>1. \A s \in UsedSlots(table') : table'[s].ptr # a
    BY <1>5
  <2> QED
    BY <1>1, <1>2, <1>5, <2>1 DEF EntriesFollow
<1> QED
  BY <1>3, <1>4, <1>5

(* The addresses with a record in the ledger are those of the USED slots,   *)
(* one each, so the ledger has room exactly when the table has.             *)
LEMMA RoomIff ==
  ASSUME CoreInv
  PROVE  /\ \A p \in Ptr : p \in Ledger!Recorded <=>
                             \E s \in UsedSlots(table) : table[s].ptr = p
         /\ Ledger!Room <=> UsedSlots(table) # Slot
<1> DEFINE U == UsedSlots(table)
           R == Ledger!Recorded
           f == [s \in U |-> table[s].ptr]
<1>1. \A p \in Ptr : p \in R <=> \E s \in U : table[s].ptr = p
  <2> SUFFICES ASSUME NEW p \in Ptr
               PROVE  LedgerOf(p).kind = "recorded" <=> \E s \in U : table[s].ptr = p
    BY DEF Ledger!Recorded
  <2>1. CASE p \notin Live
    BY <2>1, EntriesNow DEF EntriesFollow, CoreInv, RecordsTrue
  <2>2. CASE p \in Live
    BY <2>2, EntriesNow DEF EntriesFollow
  <2> QED
    BY <2>1, <2>2
<1>2. R \subseteq Ptr /\ \A s \in U : table[s].ptr \in Ptr
  BY DEF Ledger!Recorded, CoreInv, TableInv
<1>3. f \in Bijection(U, R)
  <2>1. f \in [U -> R]
    BY <1>1, <1>2
  <2>2. \A s, v \in U : f[s] = f[v] => s = v
    BY DEF CoreInv, TableInv
  <2>3. \A p \in R : \E s \in U : f[s] = p
    BY <1>1, <1>2
  <2> QED
    BY <2>1, <2>2, <2>3 DEF Bijection, Injection, IsInjective, Surjection
<1>4. IsFiniteSet(U) /\ Cardinality(U) \in 0..MaxAllocs
  BY UsedFinite
<1>5. Cardinality(R) = Cardinality(U)
  <2>1. ExistsBijection(U, R)
    BY <1>3 DEF ExistsBijection
  <2> QED
    BY <1>4, <2>1, FS_Bijection
<1>6. Cardinality(U) < MaxAllocs <=> U # Slot
  <2>1. IsFiniteSet(Slot) /\ Cardinality(Slot) = MaxAllocs
    BY AllocTableAssumption, FS_Interval DEF Slot
  <2>2. U \in SUBSET Slot
    BY DEF UsedSlots
  <2> QED
    BY <1>4, <2>1, <2>2, FS_Subset, AllocTableAssumption
<1>7. Ledger!Room <=> Cardinality(R) < MaxAllocs
  BY DEF Ledger!Room, Ledger!Cardinality, Cardinality
<1> HIDE DEF U
<1> QED
  BY <1>1, <1>5, <1>6, <1>7 DEF U

-----------------------------------------------------------------------------
(* Each step of the tracker is a step of the ledger or leaves it alone *)

LedgerStep == [Ledger!LedgerNext]_(Ledger!ledgerVars)

(* Nothing the ledger shows moved. *)
LEMMA LedgerStutters ==
  ASSUME \A a \in Ptr : LedgerOf(a)' = LedgerOf(a), UNCHANGED drop_count
  PROVE  LedgerStep
<1>1. [p \in Ptr |-> LedgerOf(p)]' = [p \in Ptr |-> LedgerOf(p)]
  OBVIOUS
<1> QED
  BY <1>1 DEF LedgerStep, Ledger!ledgerVars

LEMMA SameTableStutters ==
  ASSUME UNCHANGED <<table, heap, drop_count>>
  PROVE  LedgerStep
<1>1. Live' = Live
  BY DEF Live
<1>2. \A a \in Ptr : LedgerOf(a)' = LedgerOf(a)
  BY <1>1 DEF LedgerOf, RecordOf
<1> QED
  BY <1>2, LedgerStutters

(* Only the entry of b changed: it got an entry of a new block. *)
LEMMA LedgerAllocates ==
  ASSUME NEW b \in Ptr, \A a \in Ptr : a # b => LedgerOf(a)' = LedgerOf(a),
         LedgerOf(b) = [kind |-> "dead"],
         \/ /\ Ledger!Room
            /\ LedgerOf(b)' \in [kind : {"recorded"}, bytes : Word, where : Site]
            /\ UNCHANGED drop_count
         \/ /\ ~Ledger!Room
            /\ LedgerOf(b)' = [kind |-> "unrecorded"]
            /\ drop_count' = Inc(drop_count)
  PROVE  LedgerStep
<1> DEFINE L == [p \in Ptr |-> LedgerOf(p)]
<1>1. L' = [L EXCEPT ![b] = L'[b]]
  OBVIOUS
<1>2. L[b] = LedgerOf(b) /\ L'[b] = LedgerOf(b)'
  OBVIOUS
<1> HIDE DEF L
<1>3. Ledger!Allocate(b)
  BY <1>1, <1>2 DEF L, Ledger!Allocate, Ledger!Dead, Ledger!Unrecorded,
                    Ledger!Entries, Inc
<1> QED
  BY <1>3 DEF LedgerStep, Ledger!LedgerNext

(* Only the entry of b changed: its block was freed. *)
LEMMA LedgerReleases ==
  ASSUME NEW b \in Ptr, \A a \in Ptr : a # b => LedgerOf(a)' = LedgerOf(a),
         LedgerOf(b) # [kind |-> "dead"], LedgerOf(b)' = [kind |-> "dead"],
         UNCHANGED drop_count
  PROVE  LedgerStep
<1> DEFINE L == [p \in Ptr |-> LedgerOf(p)]
<1>1. L' = [L EXCEPT ![b] = [kind |-> "dead"]]
  OBVIOUS
<1>2. L[b] = LedgerOf(b)
  OBVIOUS
<1> HIDE DEF L
<1>3. Ledger!Release(b)
  BY <1>1, <1>2 DEF L, Ledger!Release, Ledger!Dead
<1> QED
  BY <1>3 DEF LedgerStep, Ledger!LedgerNext

(* Block b continues as block c. *)
LEMMA LedgerResizes ==
  ASSUME NEW b \in Ptr, NEW c \in Ptr,
         \A a \in Ptr : a \notin {b, c} => LedgerOf(a)' = LedgerOf(a),
         LedgerOf(b) # [kind |-> "dead"],
         c # b => LedgerOf(c) = [kind |-> "dead"] /\ LedgerOf(b)' = [kind |-> "dead"],
         \/ /\ b \in Ledger!Recorded
            /\ LedgerOf(c)' \in [kind : {"recorded"}, bytes : Word,
                                 where : {LedgerOf(b).where}]
         \/ /\ b \notin Ledger!Recorded /\ Ledger!Room
            /\ LedgerOf(c)' \in [kind : {"recorded"}, bytes : Word, where : {NoSite}]
         \/ /\ b \notin Ledger!Recorded /\ ~Ledger!Room
            /\ LedgerOf(c)' = [kind |-> "unrecorded"],
         UNCHANGED drop_count
  PROVE  LedgerStep
<1> DEFINE L == [p \in Ptr |-> LedgerOf(p)]
<1>1. L' = [L EXCEPT ![b] = [kind |-> "dead"], ![c] = L'[c]]
  OBVIOUS
<1>2. L[b] = LedgerOf(b) /\ L[c] = LedgerOf(c) /\ L'[c] = LedgerOf(c)'
  OBVIOUS
<1> HIDE DEF L
<1>3. Ledger!Resize(b, c)
  BY <1>1, <1>2 DEF L, Ledger!Resize, Ledger!Dead, Ledger!Unrecorded, Ledger!Entries
<1> QED
  BY <1>3 DEF LedgerStep, Ledger!LedgerNext

(* A step that records r in a slot of table t, which holds what table holds *)
(* but for the record of b, changes no entry but those of b and q.          *)
LEMMA RecordLedger ==
  ASSUME CoreInv, CoreInv', NEW t, NEW b \in Ptr, NEW q \in Ptr, NEW s \in Slot, NEW r,
         Recorded(t, table', q, s, r),
         UsedSlots(t) \subseteq UsedSlots(table),
         \A v \in UsedSlots(t) : t[v] = table[v],
         \A v \in UsedSlots(table) : table[v].ptr # b => v \in UsedSlots(t),
         \A a \in Ptr : a \notin {b, q} => heap'[a] = heap[a],
         q \in Live'
  PROVE  /\ \A a \in Ptr : a \notin {b, q} => LedgerOf(a)' = LedgerOf(a)
         /\ LedgerOf(q)' = [kind |-> "recorded", bytes |-> r.size, where |-> r.site]
<1>1. RecordOutcome(t, table', s, r)
  BY RecordEffect
<1>2. r.ptr = q
  BY DEF Recorded
<1>3. ASSUME NEW a \in Ptr, a \notin {b, q}
      PROVE  LedgerOf(a)' = LedgerOf(a)
  <2>1. ASSUME NEW v \in UsedSlots(table), table[v].ptr = a
        PROVE  v \in UsedSlots(table') /\ table'[v] = table[v]
    BY <1>1, <1>3, <2>1 DEF RecordOutcome
  <2>2. ASSUME NEW v \in UsedSlots(table'), table'[v].ptr = a
        PROVE  v \in UsedSlots(table) /\ table'[v] = table[v]
    BY <1>1, <1>2, <1>3, <2>2 DEF RecordOutcome
  <2> QED
    BY <1>3, <2>1, <2>2, EntryKept
<1>4. LedgerOf(q)' = [kind |-> "recorded", bytes |-> r.size, where |-> r.site]
  <2>1. s \in UsedSlots(table') /\ table'[s] = r
    BY <1>1 DEF RecordOutcome
  <2> QED
    BY <1>2, <2>1, EntriesNext DEF EntriesFollow
<1> QED
  BY <1>3, <1>4

(* mt_malloc allocates: with a record when there is room, else as a drop.   *)
LEMMA MallocLedger ==
  ASSUME CoreInv, CoreInv', NEW n \in Size, NEW f \in File, NEW line \in Line,
         MtMalloc(n, f, line)
  PROVE  LedgerStep
<1>1. CASE UNCHANGED <<table, heap, drop_count>>
  BY <1>1, SameTableStutters
<1>2. ASSUME NEW p \in Available,
             heap' = [heap EXCEPT ![p] = n],
             TrackMalloc(p, n, SiteOf(f, line))
      PROVE  LedgerStep
  <2>1. /\ p \in Ptr /\ p \notin Live
        /\ \A s \in UsedSlots(table) : table[s].ptr # p
    BY <1>2, DeadUnrecorded
  <2>2. n \in Nat /\ \A a \in Ptr : heap'[a] = IF a = p THEN n ELSE heap[a]
    BY <1>2, <2>1, MTCoreAssumption DEF CoreInv, StateTypeOK
  <2>3. p \in Live' /\ LedgerOf(p) = [kind |-> "dead"]
    BY <2>1, <2>2 DEF Live, LedgerOf
  <2>4. CASE DropAlloc(p)
    <3>1. table' = table /\ drop_count' = Inc(drop_count) /\ UsedSlots(table) = Slot
      BY <2>1, <2>4, FullIffAllUsed DEF DropAlloc
    <3>2. \A a \in Ptr : a # p => LedgerOf(a)' = LedgerOf(a)
      BY <2>2, <3>1, EntryKept
    <3>3. LedgerOf(p)' = [kind |-> "unrecorded"]
      BY <2>1, <2>3, <3>1, EntriesNext DEF EntriesFollow
    <3> QED
      BY <2>1, <2>3, <3>1, <3>2, <3>3, RoomIff, LedgerAllocates
  <2>5. CASE RecordAlloc(p, n, SiteOf(f, line))
    <3> DEFINE r == UsedRec(p, Clamp(n), SiteOf(f, line), SeqNow)
    <3>1. PICK s \in Slot : InsertSlot(table, p, s) /\ table' = [table EXCEPT ![s] = r]
      BY <2>5 DEF RecordAlloc
    <3>2. r.state = "USED" /\ r.ptr = p /\ r.size \in Word /\ r.site \in Site
      BY <2>2, WordOps, SiteOfType DEF UsedRec
    <3> HIDE DEF r
    <3>3. Recorded(table, table', p, s, r)
      BY <2>1, <3>1, <3>2 DEF Recorded, CoreInv, StateTypeOK
    <3>4. /\ \A a \in Ptr : a # p => LedgerOf(a)' = LedgerOf(a)
          /\ LedgerOf(p)' = [kind |-> "recorded", bytes |-> r.size, where |-> r.site]
      BY <2>1, <2>2, <2>3, <3>3, RecordLedger
    <3>5. Ledger!Room
      BY <2>1, <3>1, InsertSlotNotUsed, RoomIff DEF UsedSlots
    <3>6. UNCHANGED drop_count
      BY <2>5 DEF RecordAlloc
    <3> QED
      BY <2>1, <2>3, <3>2, <3>4, <3>5, <3>6, LedgerAllocates
  <2> QED
    BY <1>2, <2>4, <2>5 DEF TrackMalloc
<1> QED
  BY <1>1, <1>2 DEF MtMalloc

(* mt_free releases the block; a call taken for a double free, or one that  *)
(* is one, does nothing to the ledger.                                      *)
LEMMA FreeLedger ==
  ASSUME CoreInv, CoreInv', NEW p \in Freeable, MtFree(p)
  PROVE  LedgerStep
<1>0. p \in Ptr /\ TableInv(table) /\ table \in [Slot -> AllocRec] /\ UNCHANGED drop_count
  BY DEF Freeable, Live, CoreInv, StateTypeOK, MtFree
<1>1. CASE UNCHANGED <<table, heap>>
  BY <1>0, <1>1, SameTableStutters
<1>2. ASSUME RealFree(p),
             \A a \in Ptr : a # p => LedgerOf(a)' = LedgerOf(a)
      PROVE  LedgerStep
  <2>1. p \notin Live'
    BY <1>0, <1>2 DEF RealFree, CoreInv, StateTypeOK, Live, Freed, Corrupted
  <2>2. LedgerOf(p)' = [kind |-> "dead"]
    BY <1>0, <2>1, EntriesNext DEF EntriesFollow
  <2> QED
    BY <1>0, <1>2, <2>2, LedgerReleases, LedgerStutters
<1>3. RealFree(p) => \A a \in Ptr : a # p => heap'[a] = heap[a]
  BY <1>0 DEF RealFree, CoreInv, StateTypeOK
<1>4. ASSUME NEW s \in Slot, FindSlot(table, p, s), RecordFree(s), RealFree(p)
      PROVE  LedgerStep
  <2>1. s \in UsedSlots(table) /\ table[s].ptr = p /\ table' = SlotFree(table, s)
    BY <1>0, <1>4, FindSlotHolds DEF Holds, UsedSlots, RecordFree
  <2>2. UsedSlots(table') = UsedSlots(table) \ {s}
    BY <1>0, <2>1, FreeEffect
  <2>3. \A v \in UsedSlots(table) : v # s => table'[v] = table[v] /\ table[v].ptr # p
    BY <1>0, <2>1, FreeEffect
  <2>4. \A a \in Ptr : a # p => LedgerOf(a)' = LedgerOf(a)
    BY <1>3, <1>4, <2>1, <2>2, <2>3, EntryKept
  <2> QED
    BY <1>2, <1>4, <2>4
<1>5. CASE FreeUntracked(p)
  <2>1. UNCHANGED table
    BY <1>5 DEF FreeUntracked
  <2>2. CASE RealFree(p)
    <3>1. \A a \in Ptr : a # p => LedgerOf(a)' = LedgerOf(a)
      BY <1>3, <2>1, <2>2, EntryKept
    <3> QED
      BY <1>2, <2>2, <3>1
  <2> QED
    BY <1>1, <1>5, <2>1, <2>2 DEF FreeUntracked
<1> QED
  BY <1>4, <1>5 DEF MtFree

(* mt_realloc resizes: a recorded block keeps its record and site, another  *)
(* one is recorded without a site if there is room.                         *)
LEMMA ReallocLedger ==
  ASSUME CoreInv, CoreInv', NEW p \in Live, NEW n \in Size, n > 0,
         MtReallocBlock(p, n)
  PROVE  LedgerStep
<1>0. n \in Nat /\ p \in Ptr /\ TableInv(table) /\ table \in [Slot -> AllocRec]
  BY MTCoreAssumption DEF Live, CoreInv, StateTypeOK
<1>1. CASE UNCHANGED <<table, heap, drop_count>>
  BY <1>1, SameTableStutters
<1>2. ASSUME NEW q \in Available \cup {p},
             RealRealloc(p, q, n), TrackRealloc(p, q, n)
      PROVE  LedgerStep
  <2>1. q \in Ptr /\ (q # p => q \in Available /\ q \notin Live)
    BY <1>0, DeadUnrecorded DEF Available
  <2>2. \A a \in Ptr : heap'[a] = IF a = q THEN n ELSE IF a = p THEN Freed ELSE heap[a]
    BY <1>2 DEF RealRealloc
  <2>3. \A a \in Ptr : a \notin {p, q} => heap'[a] = heap[a]
    BY <2>2
  <2>4. Live' = (Live \ {p}) \cup {q}
    BY <1>0, <2>1, <2>2 DEF Live, Freed
  <2>5. q # p => \A s \in UsedSlots(table) : table[s].ptr # q
    BY <2>1, DeadUnrecorded
  <2>6. q # p => LedgerOf(q) = [kind |-> "dead"] /\ LedgerOf(p)' = [kind |-> "dead"]
    BY <1>0, <2>1, <2>4, EntriesNow, EntriesNext DEF EntriesFollow
  <2>7. LedgerOf(p) # [kind |-> "dead"]
    BY <1>0, EntriesNow DEF EntriesFollow
  <2>8. UNCHANGED drop_count
    BY <1>2 DEF TrackRealloc
  \* the tracked block stays where it is
  <2>9. ASSUME NEW s \in Slot, FindSlot(table, p, s), q = p, ReallocInPlace(p, s, n)
        PROVE  LedgerStep
    <3>1. s \in UsedSlots(table) /\ table[s].ptr = p
      BY <1>0, <2>9, FindSlotHolds DEF Holds, UsedSlots
    <3>2. /\ \A v \in Slot : table'[v].ptr = table[v].ptr /\ table'[v].state = table[v].state
          /\ \A v \in Slot : v # s => table'[v] = table[v]
          /\ table'[s].size = Trunc(n) /\ table'[s].site = table[s].site
      BY <1>0, <2>9 DEF ReallocInPlace, AllocRec
    <3>3. UsedSlots(table') = UsedSlots(table)
      BY <1>0, <3>2, UpdateKeepsInv
    <3>4. \A a \in Ptr : a # p => LedgerOf(a)' = LedgerOf(a)
      <4>1. ASSUME NEW a \in Ptr, a # p
            PROVE  \A v \in UsedSlots(table) :
                     table[v].ptr = a \/ table'[v].ptr = a => table'[v] = table[v]
        BY <3>1, <3>2, <4>1 DEF UsedSlots
      <4> QED
        BY <2>3, <2>9, <3>3, <4>1, EntryKept
    <3>5. LedgerOf(p) = [kind |-> "recorded", bytes |-> table[s].size,
                         where |-> table[s].site]
      BY <1>0, <3>1, EntriesNow DEF EntriesFollow
    <3>6. LedgerOf(p)' = [kind |-> "recorded", bytes |-> table'[s].size,
                          where |-> table'[s].site]
      <4>1. p \in Live' /\ s \in UsedSlots(table') /\ table'[s].ptr = p
        BY <2>4, <2>9, <3>1, <3>2, <3>3 DEF UsedSlots
      <4> QED
        BY <1>0, <4>1, EntriesNext DEF EntriesFollow
    <3>7. LedgerOf(p)' \in [kind : {"recorded"}, bytes : Word,
                            where : {LedgerOf(p).where}]
      BY <1>0, <3>2, <3>5, <3>6, WordOps
    <3> QED
      BY <1>0, <2>7, <2>8, <2>9, <3>1, <3>4, <3>7, RoomIff, LedgerResizes
  \* the tracked block moves
  <2>10. ASSUME NEW s \in Slot, FindSlot(table, p, s), q # p, ReallocMoved(p, q, s, n)
         PROVE  LedgerStep
    <3> DEFINE t1 == SlotFree(table, s)
               r == UsedRec(q, Clamp(n), OldSite(s), SeqNow)
    <3>1. s \in UsedSlots(table) /\ table[s].ptr = p
      BY <1>0, <2>10, FindSlotHolds DEF Holds, UsedSlots
    <3>2. PICK t \in Slot : InsertSlot(t1, q, t) /\ table' = [t1 EXCEPT ![t] = r]
      BY <2>10 DEF ReallocMoved
    <3>3. r.state = "USED" /\ r.ptr = q /\ r.size \in Word /\ r.site = table[s].site
      BY <1>0, WordOps DEF UsedRec, OldSite
    <3>4. t1 \in [Slot -> AllocRec]
      BY <1>0, SlotFreeType
    <3>5. TableInv(t1)
      BY <1>0, <3>1, FreeEffect
    <3>6. UsedSlots(t1) = UsedSlots(table) \ {s}
      BY <1>0, <3>1, FreeEffect
    <3>7. \A v \in UsedSlots(table) : v # s => t1[v] = table[v] /\ table[v].ptr # p
      BY <1>0, <3>1, FreeEffect
    <3> HIDE DEF t1, r
    <3>8. Recorded(t1, table', q, t, r)
      <4>1. \A v \in UsedSlots(t1) : t1[v].ptr # q
        BY <2>5, <2>10, <3>6, <3>7
      <4> QED
        BY <3>2, <3>3, <3>4, <3>5, <4>1 DEF Recorded
    <3>9. /\ \A a \in Ptr : a \notin {p, q} => LedgerOf(a)' = LedgerOf(a)
          /\ LedgerOf(q)' = [kind |-> "recorded", bytes |-> r.size, where |-> r.site]
      <4>1. /\ UsedSlots(t1) \subseteq UsedSlots(table)
            /\ \A v \in UsedSlots(t1) : t1[v] = table[v]
            /\ \A v \in UsedSlots(table) : table[v].ptr # p => v \in UsedSlots(t1)
        BY <3>1, <3>6, <3>7
      <4>2. q \in Live'
        BY <2>4
      <4> QED
        BY <1>0, <2>1, <2>3, <3>8, <4>1, <4>2, RecordLedger
    <3>10. LedgerOf(p).where = table[s].site
      BY <1>0, <3>1, EntriesNow DEF EntriesFollow
    <3>11. LedgerOf(q)' \in [kind : {"recorded"}, bytes : Word,
                             where : {LedgerOf(p).where}]
      BY <3>3, <3>9, <3>10
    <3> QED
      BY <1>0, <2>1, <2>6, <2>7, <2>8, <3>1, <3>9, <3>11, RoomIff, LedgerResizes
  \* the block was not tracked and is adopted
  <2>11. ASSUME ~Tracked(table, p), ReallocAdopt(q, n)
         PROVE  LedgerStep
    <3> DEFINE r == UsedRec(q, Clamp(n), NoSite, SeqNow)
    <3>1. \A s \in UsedSlots(table) : table[s].ptr # p /\ table[s].ptr # q
      BY <1>0, <2>5, <2>11, TrackedIff
    <3>2. PICK t \in Slot : InsertSlot(table, q, t) /\ table' = [table EXCEPT ![t] = r]
      BY <2>11 DEF ReallocAdopt
    <3>3. r.state = "USED" /\ r.ptr = q /\ r.size \in Word /\ r.site = NoSite
      BY <1>0, WordOps DEF UsedRec
    <3> HIDE DEF r
    <3>4. Recorded(table, table', q, t, r)
      BY <1>0, <3>1, <3>2, <3>3 DEF Recorded
    <3>5. /\ \A a \in Ptr : a \notin {p, q} => LedgerOf(a)' = LedgerOf(a)
          /\ LedgerOf(q)' = [kind |-> "recorded", bytes |-> r.size, where |-> r.site]
      BY <1>0, <2>1, <2>3, <2>4, <3>4, RecordLedger
    <3>6. p \notin Ledger!Recorded /\ Ledger!Room
      BY <1>0, <2>1, <3>1, <3>2, InsertSlotNotUsed, RoomIff DEF UsedSlots
    <3>7. LedgerOf(q)' \in [kind : {"recorded"}, bytes : Word, where : {NoSite}]
      BY <3>3, <3>5
    <3> QED
      BY <1>0, <2>1, <2>6, <2>7, <2>8, <3>5, <3>6, <3>7, LedgerResizes
  \* the block was not tracked and there is no slot for it
  <2>12. ASSUME ~Tracked(table, p), ReallocFallThrough(q)
         PROVE  LedgerStep
    <3>1. \A s \in UsedSlots(table) : table[s].ptr # p /\ table[s].ptr # q
      BY <1>0, <2>5, <2>12, TrackedIff
    <3>2. table' = table /\ UsedSlots(table) = Slot
      BY <2>1, <2>12, FullIffAllUsed DEF ReallocFallThrough
    <3>3. \A a \in Ptr : a \notin {p, q} => LedgerOf(a)' = LedgerOf(a)
      BY <2>3, <3>2, EntryKept
    <3>4. LedgerOf(q)' = [kind |-> "unrecorded"]
      BY <2>1, <2>4, <3>1, <3>2, EntriesNext DEF EntriesFollow
    <3>5. p \notin Ledger!Recorded /\ ~Ledger!Room
      BY <1>0, <3>1, <3>2, RoomIff
    <3> QED
      BY <1>0, <2>1, <2>6, <2>7, <2>8, <3>3, <3>4, <3>5, LedgerResizes
  <2> QED
    BY <1>2, <2>9, <2>10, <2>11, <2>12 DEF TrackRealloc
<1> QED
  BY <1>1, <1>2 DEF MtReallocBlock

LEMMA LedgerInitially == Init => Ledger!LedgerInit
<1> SUFFICES ASSUME Init PROVE Ledger!LedgerInit
  OBVIOUS
<1>1. Live = {}
  BY DEF Init, Live, Never
<1>2. \A p \in Ptr : LedgerOf(p) = [kind |-> "dead"]
  BY <1>1 DEF LedgerOf
<1> QED
  BY <1>2 DEF Init, Ledger!LedgerInit, Ledger!Dead

(* The tracker implements the ledger: whatever the hash function, the       *)
(* collisions and the history of deletions, a block is dropped exactly when *)
(* MaxAllocs blocks are recorded, a recorded block keeps its site through   *)
(* reallocs, and nothing else adds, loses or alters a record.               *)
THEOREM TrackerIsLedger ==
  ASSUME ~PlainClients
  PROVE  Spec => ImplementsLedger
<1>1. ASSUME CoreInv, CoreInv', [Next]_vars
      PROVE  LedgerStep
  <2>1. CASE MtInit
    BY <2>1, SameTableStutters DEF MtInit
  <2>2. CASE \E n \in Size, f \in File, line \in Line : MtMalloc(n, f, line)
    BY <1>1, <2>2, MallocLedger
  <2>3. CASE \E p \in Freeable : MtFree(p)
    BY <1>1, <2>3, FreeLedger
  <2>4. CASE \E p \in Live, n \in Size : n > 0 /\ MtReallocBlock(p, n)
    BY <1>1, <2>4, ReallocLedger
  <2>5. CASE UNCHANGED vars
    BY <2>5, SameTableStutters DEF vars, trackerVars
  <2> QED
    BY <1>1, <2>1, <2>2, <2>3, <2>4, <2>5, NextCases
<1> QED
  BY <1>1, CoreInvariant, LedgerInitially, PTL
     DEF Spec, ImplementsLedger, Ledger!LedgerSpec, LedgerStep

-----------------------------------------------------------------------------
(* What the ledger shows of a step *)

(* A live block is one whose entry is not dead, and it is tracked when its  *)
(* entry is a record.                                                       *)
EntriesTell ==
  \A p \in Ptr :
    /\ p \in Live <=> LedgerOf(p) # [kind |-> "dead"]
    /\ p \in Live => (Tracked(table, p) <=> LedgerOf(p).kind = "recorded")

LEMMA EntriesTellNow == CoreInv => EntriesTell
<1> SUFFICES ASSUME CoreInv, NEW p \in Ptr
             PROVE  /\ p \in Live <=> LedgerOf(p) # [kind |-> "dead"]
                    /\ p \in Live => (Tracked(table, p) <=> LedgerOf(p).kind = "recorded")
  BY DEF EntriesTell
<1>1. p \in Live <=> LedgerOf(p) # [kind |-> "dead"]
  BY EntriesNow DEF EntriesFollow
<1>2. ASSUME p \in Live
      PROVE  Tracked(table, p) <=> LedgerOf(p).kind = "recorded"
  <2>1. Tracked(table, p) <=> \E s \in UsedSlots(table) : table[s].ptr = p
    BY TrackedIff DEF CoreInv
  <2> QED
    BY <1>2, <2>1, EntriesNow DEF EntriesFollow
<1> QED
  BY <1>1, <1>2

LEMMA EntriesTellNext == CoreInv' => EntriesTell'
BY EntriesTellNow, PTL

(* A step of the ledger does not lose the record of a block that lives on;  *)
(* and when the block is gone and another appears, that one has a record.   *)
LEMMA LedgerKeepsRecords ==
  ASSUME CoreInv, CoreInv', LedgerStep, NEW p \in Live, Tracked(table, p)
  PROVE  /\ p \in Live' => Tracked(table', p)
         /\ p \notin Live' /\ Live' \ Live # {} =>
              \E q \in Live' \ Live : Tracked(table', q)
<1> DEFINE L == [a \in Ptr |-> LedgerOf(a)]
<1>1. p \in Ptr /\ EntriesTell /\ EntriesTell'
  BY EntriesTellNow, EntriesTellNext DEF Live
<1>2. L[p].kind = "recorded" /\ L[p] # [kind |-> "dead"]
  BY <1>1 DEF EntriesTell
<1>3. \A a \in Ptr : /\ a \in Live <=> L[a] # [kind |-> "dead"]
                     /\ a \in Live' <=> L'[a] # [kind |-> "dead"]
                     /\ a \in Live' => (Tracked(table', a) <=> L'[a].kind = "recorded")
  BY <1>1 DEF EntriesTell
<1>4. L \in [Ptr -> {L[a] : a \in Ptr}] /\ Live' \subseteq Ptr
  BY DEF Live
<1>5. \/ UNCHANGED L
      \/ \E b \in Ptr : /\ L[b] = [kind |-> "dead"]
                        /\ L' = [L EXCEPT ![b] = L'[b]]
      \/ \E b \in Ptr : L' = [L EXCEPT ![b] = [kind |-> "dead"]]
      \/ \E b, c \in Ptr :
           /\ c = b \/ L[c] = [kind |-> "dead"]
           /\ L' = [L EXCEPT ![b] = [kind |-> "dead"], ![c] = L'[c]]
           /\ L[b].kind = "recorded" => L'[c].kind = "recorded"
  <2>1. ASSUME NEW b \in Ptr, Ledger!Allocate(b)
        PROVE  L[b] = [kind |-> "dead"] /\ L' = [L EXCEPT ![b] = L'[b]]
    BY <2>1 DEF Ledger!Allocate, Ledger!Dead
  <2>2. ASSUME NEW b \in Ptr, Ledger!Release(b)
        PROVE  L' = [L EXCEPT ![b] = [kind |-> "dead"]]
    BY <2>2 DEF Ledger!Release, Ledger!Dead
  <2>3. ASSUME NEW b \in Ptr, NEW c \in Ptr, Ledger!Resize(b, c)
        PROVE  /\ c = b \/ L[c] = [kind |-> "dead"]
               /\ L' = [L EXCEPT ![b] = [kind |-> "dead"], ![c] = L'[c]]
               /\ L[b].kind = "recorded" => L'[c].kind = "recorded"
    BY <2>3 DEF Ledger!Resize, Ledger!Dead, Ledger!Recorded, Ledger!Entries
  <2>4. UNCHANGED Ledger!ledgerVars => UNCHANGED L
    BY DEF Ledger!ledgerVars
  <2>5. \/ UNCHANGED Ledger!ledgerVars
        \/ \E b \in Ptr : Ledger!Allocate(b) \/ Ledger!Release(b)
                           \/ \E c \in Ptr : Ledger!Resize(b, c)
    BY DEF LedgerStep, Ledger!LedgerNext
  <2> HIDE DEF L
  <2> QED
    BY <2>1, <2>2, <2>3, <2>4, <2>5
<1> HIDE DEF L
<1>6. ASSUME p \in Live'
      PROVE  L'[p].kind = "recorded"
  BY <1>1, <1>2, <1>3, <1>4, <1>5, <1>6
<1>7. ASSUME p \notin Live', NEW q \in Live' \ Live
      PROVE  \E c \in Live' \ Live : Tracked(table', c)
  <2>1. PICK b \in Ptr, c \in Ptr :
          /\ c = b \/ L[c] = [kind |-> "dead"]
          /\ L' = [L EXCEPT ![b] = [kind |-> "dead"], ![c] = L'[c]]
          /\ L[b].kind = "recorded" => L'[c].kind = "recorded"
    BY <1>1, <1>2, <1>3, <1>4, <1>5, <1>7
  <2>2. b = p /\ c # p
    BY <1>1, <1>2, <1>3, <1>4, <1>7, <2>1
  <2> QED
    BY <1>2, <1>3, <2>1, <2>2
<1> QED
  BY <1>1, <1>3, <1>6, <1>7

(* A tracked block is not forgotten while it lives: if it stays where it is *)
(* it keeps a record, and if realloc moves it, its new address has one.     *)
THEOREM TrackedStays == Spec => TrackedBlocksStayTracked
<1> DEFINE Kept(p) == \/ p \in Live' /\ Tracked(table', p)
                      \/ p \notin Live' /\ total_frees' # total_frees
                      \/ p \notin Live' /\ \E q \in Live' \ Live : Tracked(table', q)
<1>1. ASSUME CoreInv, CoreInv', [Next]_vars, NEW p \in Live, Tracked(table, p)
      PROVE  Kept(p)
  <2>0. p \in Ptr /\ heap \in [Ptr -> Size \cup {Never, Freed, Corrupted}]
    BY <1>1 DEF CoreInv, StateTypeOK, Live
  <2>1. ASSUME LedgerStep, p \in Live' \/ Live' \ Live # {}
        PROVE  Kept(p)
    BY <1>1, <2>1, LedgerKeepsRecords
  <2>2. CASE UNCHANGED <<table, heap>>
    BY <1>1, <2>2 DEF Live
  <2>3. ASSUME NEW n \in Size, NEW f \in File, NEW line \in Line, MtMalloc(n, f, line)
        PROVE  Kept(p)
    <3>1. p \in Live'
      BY <2>0, <2>3, MTCoreAssumption DEF MtMalloc, Live
    <3> QED
      BY <1>1, <2>1, <2>3, <3>1, MallocLedger
  <2>4. ASSUME NEW a \in Freeable, MtFree(a)
        PROVE  Kept(p)
    <3>1. CASE p \in Live'
      BY <1>1, <2>1, <2>4, <3>1, FreeLedger
    <3>2. CASE p \notin Live'
      <4>1. a = p
        BY <2>0, <2>4, <3>2 DEF MtFree, FreeUntracked, RealFree, Live
      <4>2. total_frees' = Inc(total_frees)
        BY <1>1, <2>4, <4>1 DEF MtFree, FreeUntracked, RecordFree
      <4>3. total_frees \in Word
        BY <1>1 DEF CoreInv, StateTypeOK
      <4> QED
        BY <3>2, <4>2, <4>3, U32Assumption DEF Inc, Word
    <3> QED
      BY <3>1, <3>2
  <2>5. ASSUME NEW a \in Live, NEW n \in Size, n > 0, MtReallocBlock(a, n)
        PROVE  Kept(p)
    <3>1. p \in Live' \/ Live' \ Live # {}
      <4>1. PICK q \in Available \cup {a} : UNCHANGED heap \/ RealRealloc(a, q, n)
        BY <2>5 DEF MtReallocBlock
      <4> QED
        BY <1>1, <2>0, <2>5, <4>1, DeadUnrecorded, MTCoreAssumption DEF RealRealloc, Live
    <3> QED
      BY <1>1, <2>1, <2>5, <3>1, ReallocLedger
  <2>6. ASSUME NEW n \in Size, PlainMalloc(n)
        PROVE  Kept(p)
    <3>1. p \in Live' /\ UNCHANGED table
      BY <2>0, <2>6, MTCoreAssumption DEF PlainMalloc, trackerVars, Live
    <3> QED
      BY <1>1, <3>1
  <2>7. CASE MtInit \/ UNCHANGED vars
    BY <2>2, <2>7 DEF MtInit, vars, trackerVars
  <2> QED
    BY <1>1, <2>3, <2>4, <2>5, <2>6, <2>7, NextCases
<1>2. CoreInv /\ CoreInv' /\ [Next]_vars =>
        \A p \in Live : Tracked(table, p) => Kept(p)
  BY <1>1
<1> QED
  BY <1>2, CoreInvariant, PTL DEF Spec, TrackedBlocksStayTracked

-----------------------------------------------------------------------------
(* Before the counters wrap *)

(* A run of fewer counted calls than a word holds never wraps a counter.    *)
LEMMA NoWrap ==
  ASSUME StateTypeOK, Budget, MaxOps <= U32Max
  PROVE  /\ Inc(total_allocs) = total_allocs + 1
         /\ Inc(total_frees) = total_frees + 1
         /\ Inc(total_reallocs) = total_reallocs + 1
         /\ Inc(drop_count) = drop_count + 1
         /\ total_allocs + total_reallocs < MaxOps
BY U32Assumption, MTCoreAssumption DEF StateTypeOK, Budget, Inc, Word

(* The steps that count something are taken within the budget. *)
LEMMA NextBudget ==
  ASSUME Next
  PROVE  \/ MtInit
         \/ /\ Budget
            /\ \/ \E n \in Size, f \in File, line \in Line : MtMalloc(n, f, line)
               \/ \E p \in Freeable : MtFree(p)
               \/ \E p \in Live, n \in Size : n > 0 /\ MtReallocBlock(p, n)
               \/ PlainClients /\ \E n \in Size : PlainMalloc(n)
BY DEF Next, MtRealloc, Freeable

(* g_seq counts the calls that wrote a record, and each record has the      *)
(* number of the call that wrote it last.                                   *)
SeqInv ==
  /\ SeqNow = 1 + total_allocs + total_reallocs
  /\ \A s \in UsedSlots(table) :
       /\ table[s].seq \in 1..(SeqNow - 1)
       /\ \A v \in UsedSlots(table) : table[s].seq = table[v].seq => s = v

(* A call that writes no record keeps it. *)
LEMMA SeqKept ==
  ASSUME SeqInv, SeqNow' = SeqNow, UNCHANGED <<total_allocs, total_reallocs>>,
         \A v \in UsedSlots(table') : v \in UsedSlots(table) /\ table'[v].seq = table[v].seq
  PROVE  SeqInv'
BY DEF SeqInv

(* A call that writes one record, in slot w, gives it a fresh number. *)
LEMMA SeqFresh ==
  ASSUME StateTypeOK, SeqInv, NEW w, SeqNow' = SeqNow + 1,
         total_allocs' + total_reallocs' = total_allocs + total_reallocs + 1,
         StateTypeOK',
         table'[w].seq = SeqNow,
         \A v \in UsedSlots(table') : v # w =>
            v \in UsedSlots(table) /\ table'[v].seq = table[v].seq
  PROVE  SeqInv'
<1>1. SeqNow \in Nat /\ SeqNow >= 1
  BY DEF SeqInv, StateTypeOK, Word
<1>2. SeqNow' = 1 + total_allocs' + total_reallocs'
  <2>1. /\ total_allocs \in Nat /\ total_reallocs \in Nat
        /\ total_allocs' \in Nat /\ total_reallocs' \in Nat
    BY DEF StateTypeOK, Word
  <2>2. SeqNow = 1 + total_allocs + total_reallocs
    BY DEF SeqInv
  <2>3. SeqNow + 1 = 1 + (total_allocs + total_reallocs + 1)
    BY <2>1, <2>2
  <2>4. 1 + total_allocs' + total_reallocs' = 1 + (total_allocs' + total_reallocs')
    BY <2>1
  <2> QED
    BY <2>3, <2>4
<1>3. ASSUME NEW v \in UsedSlots(table')
      PROVE  /\ table'[v].seq \in 1..(SeqNow' - 1)
             /\ v # w => table'[v].seq # SeqNow
  BY <1>1, <1>3 DEF SeqInv
<1>4. ASSUME NEW u \in UsedSlots(table'), NEW v \in UsedSlots(table'),
             table'[u].seq = table'[v].seq
      PROVE  u = v
  BY <1>3, <1>4 DEF SeqInv
<1> QED
  BY <1>2, <1>3, <1>4 DEF SeqInv

(* Sequence numbers identify records: no two USED records share one, none   *)
(* is 0 and none is from the future, until g_seq wraps.                     *)
THEOREM SeqIdentifies ==
  ASSUME MaxOps < U32Max
  PROVE  Spec => []SeqIdentifiesRecords
<1>1. Init => SeqInv
  <2> SUFFICES ASSUME Init PROVE SeqInv
    OBVIOUS
  <2>1. UsedSlots(table) = {}
    BY DEF Init, UsedSlots, EmptyRec
  <2> QED
    BY <2>1 DEF Init, SeqInv, SeqNow
<1>2. ASSUME CoreInv, CoreInv', SeqInv, [Next]_vars
      PROVE  SeqInv'
  <2>0. StateTypeOK /\ StateTypeOK' /\ TableInv(table) /\ table \in [Slot -> AllocRec]
    BY <1>2 DEF CoreInv, StateTypeOK
  <2>1. \A v \in UsedSlots(table) : v \in Slot
    BY DEF UsedSlots
  <2>2. Budget => Inc(SeqNow) = SeqNow + 1
    BY <1>2, <2>0, NoWrap, MTCoreAssumption, U32Assumption
       DEF SeqInv, Inc, StateTypeOK, Word
  <2>3. LazyInit => SeqNow' = seq'
    BY DEF LazyInit, SeqNow
  <2>4. CASE UNCHANGED <<table, total_allocs, total_reallocs>> /\ SeqNow' = SeqNow
    BY <1>2, <2>4, SeqKept
  <2>5. ASSUME Budget, NEW n \in Size, NEW f \in File, NEW line \in Line,
               MtMalloc(n, f, line)
        PROVE  SeqInv'
    <3>1. SeqNow' = seq'
      BY <2>3, <2>5 DEF MtMalloc
    <3>2. CASE UNCHANGED <<table, total_allocs, total_reallocs>> /\ seq' = SeqNow
      BY <2>4, <3>1, <3>2
    <3>3. ASSUME NEW p \in Available, RecordAlloc(p, n, SiteOf(f, line)),
                 UNCHANGED total_reallocs
          PROVE  SeqInv'
      <4>1. PICK s \in Slot :
              table' = [table EXCEPT ![s] = UsedRec(p, Clamp(n), SiteOf(f, line), SeqNow)]
        BY <3>3 DEF RecordAlloc
      <4>2. table'[s].seq = SeqNow /\ \A v \in Slot : v # s => table'[v] = table[v]
        BY <2>0, <4>1 DEF UsedRec
      <4>3. \A v \in UsedSlots(table') : v # s =>
              v \in UsedSlots(table) /\ table'[v].seq = table[v].seq
        BY <4>2 DEF UsedSlots
      <4>4. SeqNow' = SeqNow + 1 /\ total_allocs' = total_allocs + 1
        BY <2>0, <2>2, <2>5, <3>1, <3>3, NoWrap, MTCoreAssumption, U32Assumption
           DEF RecordAlloc
      <4>5. total_allocs' + total_reallocs' = total_allocs + total_reallocs + 1
        BY <2>0, <3>3, <4>4 DEF StateTypeOK, Word
      <4> QED
        BY <1>2, <2>0, <4>2, <4>3, <4>4, <4>5, SeqFresh
    <3> QED
      BY <2>5, <3>2, <3>3 DEF MtMalloc, TrackMalloc, DropAlloc, totalVars
  <2>6. ASSUME NEW p \in Freeable, MtFree(p)
        PROVE  SeqInv'
    <3>1. SeqNow' = SeqNow /\ UNCHANGED <<total_allocs, total_reallocs>>
      BY <2>3, <2>6 DEF MtFree
    <3>2. \A v \in UsedSlots(table') :
            v \in UsedSlots(table) /\ table'[v].seq = table[v].seq
      <4>1. (\E s \in Slot : table' = SlotFree(table, s)) \/ table' = table
        BY <2>6 DEF MtFree, RecordFree, FreeUntracked
      <4> QED
        BY <2>0, <4>1, SlotFreeKeeps
    <3> QED
      BY <1>2, <3>1, <3>2, SeqKept
  <2>7. ASSUME Budget, NEW p \in Live, NEW n \in Size, MtReallocBlock(p, n)
        PROVE  SeqInv'
    <3>1. SeqNow' = seq'
      BY <2>3, <2>7 DEF MtReallocBlock
    <3>2. CASE UNCHANGED <<table, total_allocs, total_reallocs>> /\ seq' = SeqNow
      BY <2>4, <3>1, <3>2
    <3>3. ASSUME NEW q, TrackRealloc(p, q, n), seq' = Inc(SeqNow),
                 total_reallocs' = Inc(total_reallocs), NEW w \in Slot,
                 table'[w].seq = SeqNow,
                 \A v \in UsedSlots(table') : v # w =>
                   v \in UsedSlots(table) /\ table'[v].seq = table[v].seq
          PROVE  SeqInv'
      <4>1. SeqNow' = SeqNow + 1 /\ total_reallocs' = total_reallocs + 1
            /\ UNCHANGED total_allocs
        BY <2>0, <2>2, <2>7, <3>1, <3>3, NoWrap, MTCoreAssumption, U32Assumption
           DEF TrackRealloc
      <4>2. total_allocs' + total_reallocs' = total_allocs + total_reallocs + 1
        BY <2>0, <4>1 DEF StateTypeOK, Word
      <4> QED
        BY <1>2, <2>0, <3>3, <4>1, <4>2, SeqFresh
    <3>4. ASSUME NEW q, NEW s \in Slot, ReallocInPlace(p, s, n)
          PROVE  /\ table'[s].seq = SeqNow
                 /\ \A v \in UsedSlots(table') : v # s =>
                      v \in UsedSlots(table) /\ table'[v].seq = table[v].seq
      BY <2>0, <3>4 DEF ReallocInPlace, AllocRec, UsedSlots
    <3>5. ASSUME NEW q, NEW s \in Slot, ReallocMoved(p, q, s, n)
          PROVE  \E w \in Slot :
                   /\ table'[w].seq = SeqNow
                   /\ \A v \in UsedSlots(table') : v # w =>
                        v \in UsedSlots(table) /\ table'[v].seq = table[v].seq
      <4>1. PICK w \in Slot :
              table' = [SlotFree(table, s) EXCEPT ![w] =
                          UsedRec(q, Clamp(n), OldSite(s), SeqNow)]
        BY <3>5 DEF ReallocMoved
      <4>2. SlotFree(table, s) \in [Slot -> AllocRec]
        BY <2>0, SlotFreeType
      <4>3. \A v \in UsedSlots(SlotFree(table, s)) :
              v \in UsedSlots(table) /\ SlotFree(table, s)[v] = table[v]
        BY <2>0, SlotFreeKeeps
      <4>4. /\ table'[w].seq = SeqNow
            /\ \A v \in Slot : v # w => table'[v] = SlotFree(table, s)[v]
        BY <4>1, <4>2 DEF UsedRec
      <4> QED
        BY <4>3, <4>4 DEF UsedSlots
    <3>6. ASSUME NEW q, ReallocAdopt(q, n)
          PROVE  \E w \in Slot :
                   /\ table'[w].seq = SeqNow
                   /\ \A v \in UsedSlots(table') : v # w =>
                        v \in UsedSlots(table) /\ table'[v].seq = table[v].seq
      <4>1. PICK w \in Slot :
              table' = [table EXCEPT ![w] = UsedRec(q, Clamp(n), NoSite, SeqNow)]
        BY <3>6 DEF ReallocAdopt
      <4>2. /\ table'[w].seq = SeqNow
            /\ \A v \in Slot : v # w => table'[v] = table[v]
        BY <2>0, <4>1 DEF UsedRec
      <4> QED
        BY <4>2 DEF UsedSlots
    <3>7. ASSUME NEW q, TrackRealloc(p, q, n)
          PROVE  SeqInv'
      <4>1. CASE ReallocFallThrough(q)
        BY <2>4, <3>1, <3>7, <4>1 DEF TrackRealloc, ReallocFallThrough
      <4>2. CASE seq' = Inc(SeqNow) /\ total_reallocs' = Inc(total_reallocs)
                 /\ \/ \E s \in Slot : ReallocInPlace(p, s, n) \/ ReallocMoved(p, q, s, n)
                    \/ ReallocAdopt(q, n)
        BY <3>3, <3>4, <3>5, <3>6, <3>7, <4>2
      <4> QED
        BY <3>7, <4>1, <4>2 DEF TrackRealloc
    <3> QED
      BY <2>7, <3>2, <3>7 DEF MtReallocBlock, totalVars
  <2>8. CASE MtInit
    BY <2>3, <2>4, <2>8 DEF MtInit, totalVars
  <2>9. CASE (\E n \in Size : PlainMalloc(n)) \/ UNCHANGED vars
    BY <2>4, <2>9 DEF PlainMalloc, vars, trackerVars, totalVars, SeqNow
  <2> QED
    BY <1>2, <2>5, <2>6, <2>7, <2>8, <2>9, NextBudget
<1>3. CoreInv /\ SeqInv => SeqIdentifiesRecords
  <2>1. ASSUME SeqInv, ~initialized, StateTypeOK
        PROVE  UsedSlots(table) = {}
    BY <2>1 DEF SeqInv, SeqNow
  <2> QED
    BY <2>1 DEF CoreInv, SeqInv, SeqNow, SeqIdentifiesRecords
<1>4. CoreInv /\ CoreInv' /\ SeqInv /\ [Next]_vars => SeqInv'
  BY <1>2
<1> QED
  BY <1>1, <1>3, <1>4, CoreInvariant, PTL DEF Spec

(* No more blocks are live than were counted in and not counted out; and    *)
(* what was counted in has a record or was counted out (a free of a block   *)
(* without a record, and a block adopted by a realloc, are not counted).    *)
LiveCounted ==
  /\ IsFiniteSet(Live)
  /\ Cardinality(Live) + total_frees <= total_allocs + drop_count
  /\ total_allocs <= used_count + total_frees

(* No more blocks have a record than are live. *)
LEMMA UsedWithinLive ==
  ASSUME CoreInv, IsFiniteSet(Live)
  PROVE  Cardinality(Live) \in Nat /\ used_count \in Nat /\ used_count <= Cardinality(Live)
<1> DEFINE U == UsedSlots(table)
           f == [s \in U |-> table[s].ptr]
<1>1. f \in [U -> Live] /\ \A s, v \in U : f[s] = f[v] => s = v
  BY DEF CoreInv, RecordsTrue, TableInv
<1>2. f \in Injection(U, Live)
  BY <1>1 DEF Injection, IsInjective
<1>3. Cardinality(U) <= Cardinality(Live)
  BY <1>2, FS_Injection
<1> QED
  BY <1>3, UsedFinite, FS_CardinalityType DEF CoreInv, UsedCountExact

(* The number of live blocks after a block appeared, went or moved. *)
LEMMA LiveSteps ==
  ASSUME IsFiniteSet(Live), NEW q, q \notin Live
  PROVE  /\ IsFiniteSet(Live \cup {q}) /\ Cardinality(Live \cup {q}) = Cardinality(Live) + 1
         /\ \A p \in Live :
              /\ IsFiniteSet(Live \ {p}) /\ Cardinality(Live \ {p}) = Cardinality(Live) - 1
              /\ IsFiniteSet((Live \ {p}) \cup {q})
              /\ Cardinality((Live \ {p}) \cup {q}) = Cardinality(Live)
<1>1. ASSUME NEW p \in Live
      PROVE  /\ IsFiniteSet(Live \ {p}) /\ Cardinality(Live \ {p}) = Cardinality(Live) - 1
             /\ IsFiniteSet((Live \ {p}) \cup {q})
             /\ Cardinality((Live \ {p}) \cup {q}) = Cardinality(Live)
  <2>1. IsFiniteSet(Live \ {p}) /\ Cardinality(Live \ {p}) = Cardinality(Live) - 1
    BY FS_RemoveElement
  <2>2. /\ IsFiniteSet((Live \ {p}) \cup {q})
        /\ Cardinality((Live \ {p}) \cup {q}) = Cardinality(Live \ {p}) + 1
    BY <2>1, FS_AddElement
  <2>3. Cardinality(Live) \in Nat
    BY FS_CardinalityType
  <2> QED
    BY <2>1, <2>2, <2>3
<1> QED
  BY <1>1, FS_AddElement

(* The accounting of live blocks holds at first, and every step keeps it    *)
(* while no counter wraps and no block is taken behind the tracker's back.  *)
LEMMA LiveCountedInit == Init => LiveCounted
<1> SUFFICES ASSUME Init PROVE LiveCounted
  OBVIOUS
<1>1. Live = {}
  BY DEF Init, Live, Never
<1> QED
  BY <1>1, FS_EmptySet DEF Init, LiveCounted

LEMMA LiveCountedStep ==
  ASSUME ~PlainClients, MaxOps <= U32Max, CoreInv, CoreInv', LiveCounted, [Next]_vars
  PROVE  LiveCounted'
<1>0. StateTypeOK /\ TableInv(table) /\ IsFiniteSet(Live)
      /\ heap \in [Ptr -> Size \cup {Never, Freed, Corrupted}]
  BY DEF CoreInv, StateTypeOK, LiveCounted
<1>1. /\ total_allocs \in Nat /\ total_frees \in Nat /\ drop_count \in Nat
      /\ Cardinality(Live) \in Nat /\ used_count \in Nat
      /\ Cardinality(Live) + total_frees <= total_allocs + drop_count
      /\ total_allocs <= used_count + total_frees
  BY <1>0, UsedWithinLive DEF StateTypeOK, Word, LiveCounted
<1>2. CASE UNCHANGED <<heap, used_count, total_allocs, total_frees, drop_count>>
  <2>1. Live' = Live
    BY <1>2 DEF Live
  <2> QED
    BY <1>2, <2>1 DEF LiveCounted
<1>3. ASSUME Budget, NEW n \in Size, NEW f \in File, NEW line \in Line,
             MtMalloc(n, f, line)
      PROVE  LiveCounted'
  <2>1. ASSUME NEW p \in Available, heap' = [heap EXCEPT ![p] = n],
               TrackMalloc(p, n, SiteOf(f, line))
        PROVE  LiveCounted'
    <3>1. p \notin Live /\ Live' = Live \cup {p}
      BY <1>0, <2>1, MTCoreAssumption DEF Live, Available, Never, Freed
    <3>2. IsFiniteSet(Live') /\ Cardinality(Live') = Cardinality(Live) + 1
      BY <1>0, <3>1, LiveSteps
    <3>3. UNCHANGED total_frees
          /\ \/ /\ total_allocs' = total_allocs + 1
                /\ used_count' = used_count + 1 /\ UNCHANGED drop_count
             \/ /\ UNCHANGED <<total_allocs, used_count>>
                /\ drop_count' = drop_count + 1
      BY <1>0, <1>3, <2>1, NoWrap DEF TrackMalloc, RecordAlloc, DropAlloc
    <3> QED
      BY <1>1, <3>2, <3>3 DEF LiveCounted
  <2> QED
    BY <1>2, <1>3, <2>1 DEF MtMalloc, totalVars
<1>4. ASSUME Budget, NEW p \in Freeable, MtFree(p)
      PROVE  LiveCounted'
  <2>1. UNCHANGED <<total_allocs, drop_count>> /\ p \in Ptr
    BY <1>4 DEF MtFree, Freeable, Live
  <2>2. RealFree(p) => Live' = Live \ {p}
    BY <1>0, <2>1 DEF RealFree, Live, Freed, Corrupted
  <2>3. /\ IsFiniteSet(Live \ {p})
        /\ p \in Live => Cardinality(Live \ {p}) = Cardinality(Live) - 1
        /\ p \notin Live => Cardinality(Live \ {p}) = Cardinality(Live)
    <3>1. p \notin Live => Live \ {p} = Live
      OBVIOUS
    <3> QED
      BY <1>0, <3>1, FS_RemoveElement
  <2>4. ASSUME NEW s \in Slot, FindSlot(table, p, s), RecordFree(s), RealFree(p)
        PROVE  LiveCounted'
    <3>1. p \in Live
      <4>1. s \in UsedSlots(table) /\ table[s].ptr = p
        BY <2>1, <2>4, FindSlotHolds DEF Holds, UsedSlots
      <4> QED
        BY <4>1 DEF CoreInv, RecordsTrue
    <3>2. total_frees' = total_frees + 1 /\ used_count' = used_count - 1
      BY <1>0, <1>4, <2>4, NoWrap DEF RecordFree
    <3>3. IsFiniteSet(Live') /\ Cardinality(Live') = Cardinality(Live) - 1
      BY <2>2, <2>3, <2>4, <3>1
    <3>4. (Cardinality(Live) - 1) + (total_frees + 1) = Cardinality(Live) + total_frees
          /\ (used_count - 1) + (total_frees + 1) = used_count + total_frees
      BY <1>1
    <3> QED
      BY <1>1, <2>1, <3>2, <3>3, <3>4 DEF LiveCounted
  <2>5. CASE FreeUntracked(p)
    <3>1. UNCHANGED <<total_frees, used_count>>
      BY <2>5 DEF FreeUntracked
    <3>2. Live' \in {Live, Live \ {p}}
      BY <2>2, <2>5 DEF FreeUntracked, Live
    <3>3. IsFiniteSet(Live') /\ Cardinality(Live') \in Nat
          /\ Cardinality(Live') <= Cardinality(Live)
      <4>1. CASE Live' = Live
        BY <1>0, <1>1, <4>1
      <4>2. CASE Live' = Live \ {p} /\ p \in Live
        <5>1. Live \ {p} \in SUBSET Live
          OBVIOUS
        <5>2. Cardinality(Live \ {p}) \in Nat /\ Cardinality(Live \ {p}) <= Cardinality(Live)
          BY <1>0, <2>3, <5>1, FS_CardinalityType, FS_Subset
        <5> QED
          BY <2>3, <4>2, <5>2
      <4>3. CASE Live' = Live \ {p} /\ p \notin Live
        <5>1. Live \ {p} = Live
          BY <4>3
        <5> QED
          BY <4>1, <4>3, <5>1
      <4> QED
        BY <3>2, <4>1, <4>2, <4>3
    <3> QED
      BY <1>1, <2>1, <3>1, <3>3 DEF LiveCounted
  <2> QED
    BY <1>4, <2>4, <2>5 DEF MtFree
<1>5. ASSUME NEW p \in Live, NEW n \in Size, n > 0, MtReallocBlock(p, n)
      PROVE  LiveCounted'
  <2>1. ASSUME NEW q \in Available \cup {p}, RealRealloc(p, q, n), TrackRealloc(p, q, n)
        PROVE  LiveCounted'
    <3>1. UNCHANGED <<total_allocs, total_frees, drop_count>>
          /\ (used_count' = used_count \/ used_count' = used_count + 1)
      BY <2>1 DEF TrackRealloc, ReallocInPlace, ReallocMoved, ReallocAdopt,
                  ReallocFallThrough
    <3>2. /\ p \in Ptr /\ q \in Ptr /\ n \in Nat
          /\ q # p => q \notin Live
          /\ \A a \in Ptr : heap'[a] = IF a = q THEN n ELSE IF a = p THEN Freed ELSE heap[a]
      BY <2>1, MTCoreAssumption DEF RealRealloc, Live, Available, Never, Freed
    <3>3. Live' = (Live \ {p}) \cup {q}
      BY <3>2 DEF Live, Freed
    <3>4. IsFiniteSet(Live') /\ Cardinality(Live') = Cardinality(Live)
      <4>1. CASE q = p
        <5>1. Live' = Live
          BY <3>3, <4>1
        <5> QED
          BY <1>0, <5>1
      <4>2. CASE q # p
        BY <1>0, <3>2, <3>3, <4>2, LiveSteps
      <4> QED
        BY <4>1, <4>2
    <3> QED
      BY <1>1, <3>1, <3>4 DEF LiveCounted
  <2> QED
    BY <1>2, <1>5, <2>1 DEF MtReallocBlock, totalVars
<1>6. CASE MtInit \/ UNCHANGED vars
  BY <1>2, <1>6 DEF MtInit, vars, trackerVars, totalVars
<1> QED
  BY <1>3, <1>4, <1>5, <1>6, NextBudget

(* With the record of every USED slot live, it gives the two bounds.        *)
LEMMA LiveWithinDrops ==
  ASSUME CoreInv, LiveCounted
  PROVE  ActiveWithinDrops
<1>1. /\ total_allocs \in Nat /\ total_frees \in Nat /\ drop_count \in Nat
      /\ Cardinality(Live) \in Nat /\ used_count \in Nat
      /\ used_count <= Cardinality(Live)
  BY UsedWithinLive DEF CoreInv, StateTypeOK, Word, LiveCounted
<1> QED
  BY <1>1 DEF LiveCounted, ActiveWithinDrops

(* total_allocs - total_frees, printed as the number of active allocations, *)
(* differs from the number of records by at most the drops, until a counter *)
(* wraps, when every allocation goes through the tracker.                   *)
THEOREM ActiveCounted ==
  ASSUME ~PlainClients, MaxOps <= U32Max
  PROVE  Spec => []ActiveWithinDrops
<1>1. /\ CoreInv /\ CoreInv' /\ LiveCounted /\ [Next]_vars => LiveCounted'
      /\ CoreInv /\ LiveCounted => ActiveWithinDrops
  BY LiveCountedStep, LiveWithinDrops
<1> QED
  BY <1>1, LiveCountedInit, CoreInvariant, PTL DEF Spec
=============================================================================
