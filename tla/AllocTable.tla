----------------------------- MODULE AllocTable ------------------------------
(***************************************************************************)
(* The open-addressing table g_allocs of src/mt_core.c, as a value t: the  *)
(* two probe loops and the deletion of a slot.  The loops are stated by    *)
(* what they find; module ProbeLoops steps through them one iteration at a *)
(* time and checks that they find exactly that.                            *)
(***************************************************************************)
EXTENDS Integers

CONSTANTS
  MaxAllocs,   (* MT_MAX_ALLOCS: the number of slots                       *)
  Ptr,         (* the addresses the real allocator can return              *)
  NoPtr,       (* the ptr field of a slot that never held a record         *)
  Hash         (* mt_hash_ptr: any function of the address                 *)

ASSUME AllocTableAssumption ==
  /\ MaxAllocs \in Nat \ {0}
  /\ NoPtr \notin Ptr
  /\ Hash \in [Ptr -> Nat]

Slot == 0..(MaxAllocs - 1)

(* mt_alloc_state_t *)
SlotState == {"EMPTY", "USED", "TOMBSTONE"}

(* The i-th slot of the probe sequence of p: (h + i) & (MT_MAX_ALLOCS - 1) *)
Probe(p, i) == (Hash[p] + i) % MaxAllocs

UsedSlots(t) == {s \in Slot : t[s].state = "USED"}

TombstoneSlots(t) == {s \in Slot : t[s].state = "TOMBSTONE"}

(* Slot s is USED and its record is p's *)
Holds(t, s, p) == t[s].state = "USED" /\ t[s].ptr = p

(* Mutant of FindSlot: a tombstone ends the probing *)
FindSlotToTombstone(t, p, s) ==
  \E i \in Slot :
    /\ s = Probe(p, i)
    /\ Holds(t, s, p)
    /\ \A j \in 0..(i - 1) : /\ t[Probe(p, j)].state = "USED"
                             /\ ~Holds(t, Probe(p, j), p)

(* mt_find_slot(p) returns 1 with *out_idx = s: linear probing reaches a   *)
(* USED slot of p before any EMPTY slot, skipping tombstones.              *)
FindSlot(t, p, s) ==
  \E i \in Slot :
    /\ s = Probe(p, i)
    /\ Holds(t, s, p)
    /\ \A j \in 0..(i - 1) : /\ t[Probe(p, j)].state # "EMPTY"
                             /\ ~Holds(t, Probe(p, j), p)

Tracked(t, p) == \E s \in Slot : FindSlot(t, p, s)

(* Mutant of InsertSlot: tombstones are not reused *)
InsertSlotIfEmpty(t, p, s) ==
  \E i \in Slot :
    /\ s = Probe(p, i)
    /\ t[s].state = "EMPTY"
    /\ \A j \in 0..(i - 1) : t[Probe(p, j)].state # "EMPTY"

(* mt_find_insert_slot(p) returns 1 with *out_idx = s.  The first tombstone *)
(* met before the first EMPTY slot wins, else that EMPTY slot, else, with   *)
(* no EMPTY slot at all, the first tombstone: in each case the first slot   *)
(* of the probe sequence that is not USED.                                  *)
InsertSlot(t, p, s) ==
  \E i \in Slot :
    /\ s = Probe(p, i)
    /\ t[s].state # "USED"
    /\ \A j \in 0..(i - 1) : t[Probe(p, j)].state = "USED"

(* mt_find_insert_slot returns 0 *)
Full(t, p) == \A s \in Slot : ~InsertSlot(t, p, s)

(* Mutants of SlotFree: the slot becomes EMPTY, or stays USED *)
SlotFreeToEmpty(t, s) == [t EXCEPT ![s].state = "EMPTY"]

SlotFreeKeepsUsed(t, s) == t

(* The record part of mt_slot_free: a USED slot becomes a TOMBSTONE and    *)
(* keeps its ptr field.                                                    *)
SlotFree(t, s) ==
  IF t[s].state = "USED" THEN [t EXCEPT ![s].state = "TOMBSTONE"] ELSE t

(* mt_free's scan of the whole table: some tombstone still names p         *)
HasTombstone(t, p) ==
  \E s \in Slot : t[s].state = "TOMBSTONE" /\ t[s].ptr = p

=============================================================================
