----------------------------- MODULE ProbeLoops ------------------------------
(***************************************************************************)
(* The two loops of src/mt_core.c that walk the table, one iteration per   *)
(* step, over any table a history could leave behind.  MTCore uses what    *)
(* they return (FindSlot and InsertSlot of AllocTable) as one atomic fact. *)
(***************************************************************************)
EXTENDS AllocTable

VARIABLES
  which,     (* "find": mt_find_slot, "insert": mt_find_insert_slot         *)
  t,         (* g_allocs: the state and the address of every slot           *)
  ptr,       (* the argument                                                *)
  i,         (* the loop counter                                            *)
  idx,       (* the slot looked at                                          *)
  tomb,      (* tombstone_idx, MaxAllocs when none was met                  *)
  result     (* Running, NotFound, or the slot returned through *out_idx    *)

loopVars == <<which, t, ptr, i, idx, tomb, result>>

Running == -1

NotFound == -2

(* A slot that was never used, or one holding or having held some address *)
Cell == {[state |-> "EMPTY", ptr |-> NoPtr]}
        \cup [state : {"USED", "TOMBSTONE"}, ptr : Ptr]

Init ==
  /\ which \in {"find", "insert"}
  /\ t \in [Slot -> Cell]
  /\ ptr \in Ptr
  /\ i = 0
  /\ idx = Hash[ptr] % MaxAllocs
  /\ tomb = MaxAllocs
  /\ result = Running

(* Mutants of Advance: a slot is skipped, or the loop counter stands still *)
AdvanceByTwo ==
  /\ idx' = (idx + 2) % MaxAllocs
  /\ i' = i + 1

AdvanceForever ==
  /\ idx' = (idx + 1) % MaxAllocs
  /\ UNCHANGED i

(* idx = (idx + 1) & mask; i++ *)
Advance ==
  /\ idx' = (idx + 1) % MaxAllocs
  /\ i' = i + 1

(* One iteration of mt_find_slot *)
FindIteration ==
  \/ /\ t[idx].state = "EMPTY"
     /\ result' = NotFound
     /\ UNCHANGED <<i, idx>>
  \/ /\ Holds(t, idx, ptr)
     /\ result' = idx
     /\ UNCHANGED <<i, idx>>
  \/ /\ t[idx].state # "EMPTY"
     /\ ~Holds(t, idx, ptr)
     /\ Advance
     /\ UNCHANGED result

FindStep ==
  /\ which = "find" /\ result = Running
  /\ \/ i < MaxAllocs /\ FindIteration
     \/ i >= MaxAllocs /\ result' = NotFound /\ UNCHANGED <<i, idx>>
  /\ UNCHANGED <<which, t, ptr, tomb>>

(* Mutant of FirstTombstone: the last tombstone met wins *)
LastTombstone == IF t[idx].state = "TOMBSTONE" THEN idx ELSE tomb

(* tombstone_idx after looking at slot idx *)
FirstTombstone ==
  IF t[idx].state = "TOMBSTONE" /\ tomb = MaxAllocs THEN idx ELSE tomb

(* One iteration of mt_find_insert_slot *)
InsertIteration ==
  \/ /\ t[idx].state = "EMPTY"
     /\ result' = IF tomb # MaxAllocs THEN tomb ELSE idx
     /\ UNCHANGED <<i, idx, tomb>>
  \/ /\ t[idx].state # "EMPTY"
     /\ tomb' = FirstTombstone
     /\ Advance
     /\ UNCHANGED result

InsertStep ==
  /\ which = "insert" /\ result = Running
  /\ \/ i < MaxAllocs /\ InsertIteration
     \/ /\ i >= MaxAllocs
        /\ result' = IF tomb # MaxAllocs THEN tomb ELSE NotFound
        /\ UNCHANGED <<i, idx, tomb>>
  /\ UNCHANGED <<which, t, ptr>>

Next == FindStep \/ InsertStep

(* A loop that runs is sequential code: it keeps iterating *)
Spec == Init /\ [][Next]_loopVars /\ WF_loopVars(Next)

-----------------------------------------------------------------------------
(* Properties *)

(* The loops return the slots that FindSlot and InsertSlot describe, or     *)
(* none: a full ring without EMPTY slots does not hide a record, and        *)
(* mt_find_insert_slot returns the first slot that is not USED and fails    *)
(* only when every slot is USED.  Its preference for a tombstone seen       *)
(* before the first EMPTY slot, and its use of a tombstone when no slot is  *)
(* EMPTY, come to the same choice.                                          *)
LoopsReturnSlots ==
  result # Running =>
    /\ which = "find" => \A s \in Slot : FindSlot(t, ptr, s) <=> result = s
    /\ which = "insert" =>
         /\ \A s \in Slot : InsertSlot(t, ptr, s) <=> result = s
         /\ result = NotFound <=> UsedSlots(t) = Slot

(* Both loops end, whatever the table holds. *)
LoopsEnd == <>(result # Running)
=============================================================================
