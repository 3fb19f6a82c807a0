-------------------------------- MODULE MTIsr --------------------------------
(***************************************************************************)
(* mt_malloc, mt_free and mt_realloc of src/mt_core.c called from several  *)
(* contexts of one core (main code, interrupt handlers, RTOS tasks), one   *)
(* step per access to what they share: the guard g_inside, MT_LOCK, the    *)
(* table and the real allocator.  MT_LOCK masks interrupts (or preemption) *)
(* as the documentation asks when contexts other than main allocate, and   *)
(* mt_init has run.  Sizes, sites, sequence numbers and the counters other *)
(* than g_used_count are left to MTCore: they change in the same steps as  *)
(* the table and nothing here depends on them.                             *)
(***************************************************************************)
EXTENDS AllocTable, FiniteSets

CONSTANTS
  Ctx,        (* the contexts                                              *)
  NoCtx,
  Preempts,   (* <<c, d>>: c may run while d is in the middle of a call    *)
  Ops         (* the functions that are called                             *)

ASSUME MTIsrAssumption ==
  /\ NoCtx \notin Ctx
  /\ Preempts \subseteq Ctx \X Ctx
  /\ Ops \subseteq {"malloc", "free", "realloc"}

VARIABLES
  table,        (* g_allocs: state and address of each slot                *)
  used_count,   (* g_used_count                                            *)
  inside,       (* g_inside                                                *)
  holder,       (* the context between MT_LOCK and MT_UNLOCK               *)
  heap,         (* the real allocator                                      *)
  held,         (* the blocks client code has and nobody is freeing        *)
  call,         (* the call each context is executing                      *)
  bypassed,     (* history: some call found g_inside set                   *)
  recycled      (* history: an address in Moving was handed out            *)

history == <<bypassed, recycled>>

vars == <<table, used_count, inside, holder, heap, held, call, history>>

NoSlot == MaxAllocs

Cell == [state : SlotState, ptr : Ptr \cup {NoPtr}]

Used(p) == [state |-> "USED", ptr |-> p]

Idle == [op |-> "none", pc |-> "idle", fast |-> FALSE, ptr |-> NoPtr,
         new |-> NoPtr, idx |-> NoSlot]

(* pc names what the context does next; fast: the guard was set, so the    *)
(* call goes to the real allocator alone; ptr: the argument; new: the      *)
(* block the real allocator returned; idx: the slot a search returned.     *)
Call == [op : Ops \cup {"none"},
         pc : {"idle", "find_old", "real_malloc", "real_free", "real_realloc",
               "enter", "lock", "track", "record", "untrack", "retrack",
               "unlock", "leave"},
         fast : BOOLEAN, ptr : Ptr \cup {NoPtr}, new : Ptr \cup {NoPtr},
         idx : Slot \cup {NoSlot}]

Live == {p \in Ptr : heap[p] = "live"}

Available == {p \in Ptr : heap[p] \in {"never", "freed"}}

(* Addresses that a real realloc gave up and whose record is still there *)
Moving ==
  {call[c].ptr : c \in {d \in Ctx :
     /\ call[d].op = "realloc"
     /\ call[d].pc \in {"enter", "lock", "retrack"}
     /\ call[d].new # call[d].ptr}}

(* Scheduling: nobody runs while another context is under MT_LOCK, and a   *)
(* context in the middle of a call is interrupted only by those it allows. *)
CanRun(c) ==
  /\ holder \in {NoCtx, c}
  /\ \A d \in Ctx \ {c} : call[d] # Idle => <<c, d>> \in Preempts

At(c, l) == CanRun(c) /\ call[c].pc = l

Goto(c, l) == call' = [call EXCEPT ![c].pc = l]

(* The call returns; client code gets the blocks of B *)
Return(c, B) ==
  /\ call' = [call EXCEPT ![c] = Idle]
  /\ held' = held \cup B

-----------------------------------------------------------------------------
(* The calls, up to the test of g_inside *)

RealCall == [malloc |-> "real_malloc", free |-> "real_free",
             realloc |-> "real_realloc"]

(* The guard is read: slow is where the call continues when it is clear    *)
Enter(c, f, p, slow) ==
  /\ f \in Ops
  /\ At(c, "idle")
  /\ call' = [call EXCEPT ![c] =
                [Idle EXCEPT !.op = f, !.ptr = p, !.fast = (inside # 0),
                   !.pc = IF inside # 0 THEN RealCall[f] ELSE slow]]
  /\ bypassed' = (bypassed \/ inside # 0)
  /\ held' = held \ {p}
  /\ UNCHANGED <<table, used_count, inside, holder, heap, recycled>>

CallMalloc(c) == Enter(c, "malloc", NoPtr, "real_malloc")

(* Mutant of CallFree: the test of the guard is inverted, the slow path of   *)
(* a tracked block is the fast one                                          *)
CallFreeInverted(c, p) == Enter(c, "free", p, "real_free")

CallFree(c, p) == Enter(c, "free", p, "enter")

CallRealloc(c, p) == Enter(c, "realloc", p, "find_old")

-----------------------------------------------------------------------------
(* The real allocator, outside the critical section *)

(* MT_REAL_MALLOC: NULL, or a block that is then tracked unless fast *)
RealMalloc(c) ==
  /\ At(c, "real_malloc")
  /\ \/ Return(c, {}) /\ UNCHANGED <<heap, recycled>>
     \/ \E p \in Available :
          /\ heap' = [heap EXCEPT ![p] = "live"]
          /\ recycled' = (recycled \/ p \in Moving)
          /\ \/ call[c].fast /\ Return(c, {p})
             \/ /\ ~call[c].fast
                /\ call' = [call EXCEPT ![c].new = p, ![c].pc = "enter"]
                /\ UNCHANGED held
  /\ UNCHANGED <<table, used_count, inside, holder, bypassed>>

(* Mutant of RealFree: the return after the tracked path's MT_REAL_FREE is  *)
(* missing, and the one at the end of mt_free runs too                      *)
RealFreeAgain(c) ==
  /\ At(c, "real_free")
  /\ heap' = [heap EXCEPT ![call[c].ptr] = IF @ = "live" THEN "freed" ELSE "corrupted"]
  /\ \/ call[c].new = NoPtr /\ call' = [call EXCEPT ![c].new = call[c].ptr] /\ UNCHANGED held
     \/ call[c].new # NoPtr /\ Return(c, {})
  /\ UNCHANGED <<table, used_count, inside, holder, history>>

(* MT_REAL_FREE, the last thing mt_free does *)
RealFree(c) ==
  /\ At(c, "real_free")
  /\ heap' = [heap EXCEPT ![call[c].ptr] = IF @ = "live" THEN "freed" ELSE "corrupted"]
  /\ Return(c, {})
  /\ UNCHANGED <<table, used_count, inside, holder, history>>

(* mt_realloc's search of the old record, before and without MT_LOCK *)
FindOld(c) ==
  /\ At(c, "find_old")
  /\ \/ \E s \in Slot :
          /\ FindSlot(table, call[c].ptr, s)
          /\ call' = [call EXCEPT ![c].idx = s, ![c].pc = "real_realloc"]
     \/ ~Tracked(table, call[c].ptr) /\ Goto(c, "real_realloc")
  /\ UNCHANGED <<table, used_count, inside, holder, heap, held, history>>

(* MT_REAL_REALLOC: fails, resizes in place, or moves to q and frees p *)
RealRealloc(c) ==
  LET p == call[c].ptr
  IN  /\ At(c, "real_realloc")
      /\ \/ Return(c, {p}) /\ UNCHANGED <<heap, recycled>>
         \/ \E q \in Available \cup {p} :
              /\ heap' = [heap EXCEPT ![p] = IF @ = "live" THEN "freed" ELSE "corrupted",
                                      ![q] = "live"]
              /\ recycled' = (recycled \/ q \in Moving)
              /\ \/ call[c].fast /\ Return(c, {q})
                 \/ /\ ~call[c].fast
                    /\ call' = [call EXCEPT ![c].new = q, ![c].pc = "enter"]
                    /\ UNCHANGED held
      /\ UNCHANGED <<table, used_count, inside, holder, bypassed>>

-----------------------------------------------------------------------------
(* The critical section *)

(* g_inside = 1 *)
SetInside(c) ==
  /\ At(c, "enter")
  /\ inside' = 1
  /\ Goto(c, "lock")
  /\ UNCHANGED <<table, used_count, holder, heap, held, history>>

Body == [malloc |-> "track", free |-> "untrack", realloc |-> "retrack"]

(* Mutant of Lock: the default MT_LOCK, which does nothing *)
LockNoOp(c) ==
  /\ At(c, "lock")
  /\ Goto(c, Body[call[c].op])
  /\ UNCHANGED <<table, used_count, inside, holder, heap, held, history>>

(* MT_LOCK() *)
Lock(c) ==
  /\ At(c, "lock")
  /\ holder' = c
  /\ Goto(c, Body[call[c].op])
  /\ UNCHANGED <<table, used_count, inside, heap, held, history>>

(* mt_malloc: mt_find_insert_slot *)
Track(c) ==
  /\ At(c, "track")
  /\ \/ \E s \in Slot :
          /\ InsertSlot(table, call[c].new, s)
          /\ call' = [call EXCEPT ![c].idx = s, ![c].pc = "record"]
     \/ Full(table, call[c].new) /\ Goto(c, "unlock")
  /\ UNCHANGED <<table, used_count, inside, holder, heap, held, history>>

(* Mutant of Record: the record is written where the probing started *)
RecordAtHome(c) ==
  /\ At(c, "record")
  /\ table' = [table EXCEPT ![Probe(call[c].new, 0)] = Used(call[c].new)]
  /\ used_count' = used_count + 1
  /\ Goto(c, "unlock")
  /\ UNCHANGED <<inside, holder, heap, held, history>>

(* mt_malloc: the record is written *)
Record(c) ==
  /\ At(c, "record")
  /\ table' = [table EXCEPT ![call[c].idx] = Used(call[c].new)]
  /\ used_count' = used_count + 1
  /\ Goto(c, "unlock")
  /\ UNCHANGED <<inside, holder, heap, held, history>>

(* mt_free: the record becomes a tombstone; without one, a tombstone of the *)
(* address ends the call without MT_REAL_FREE (ptr is forgotten).           *)
Untrack(c) ==
  LET p == call[c].ptr
  IN  /\ At(c, "untrack")
      /\ \/ \E s \in Slot :
              /\ FindSlot(table, p, s)
              /\ table' = SlotFree(table, s)
              /\ used_count' = used_count - 1
              /\ Goto(c, "unlock")
         \/ /\ ~Tracked(table, p)
            /\ call' = [call EXCEPT ![c].pc = "unlock",
                          ![c].ptr = IF HasTombstone(table, p) THEN NoPtr ELSE p]
            /\ UNCHANGED <<table, used_count>>
      /\ UNCHANGED <<inside, holder, heap, held, history>>

(* mt_realloc: the record found before the real realloc, in slot idx, is    *)
(* kept when the block stayed, else it becomes a tombstone and the new      *)
(* address gets a record if there is a slot for it.                         *)
Retrack(c) ==
  LET i  == call[c].idx
      q  == call[c].new
      t  == IF i = NoSlot THEN table ELSE SlotFree(table, i)
      n  == IF i # NoSlot /\ table[i].state = "USED" THEN used_count - 1 ELSE used_count
  IN  /\ At(c, "retrack")
      /\ Goto(c, "unlock")
      /\ \/ i # NoSlot /\ q = call[c].ptr /\ UNCHANGED <<table, used_count>>
         \/ /\ i = NoSlot \/ q # call[c].ptr
            /\ \/ /\ \E s \in Slot : InsertSlot(t, q, s)
                                     /\ table' = [t EXCEPT ![s] = Used(q)]
                  /\ used_count' = n + 1
               \/ Full(t, q) /\ table' = t /\ used_count' = n
      /\ UNCHANGED <<inside, holder, heap, held, history>>

(* Mutant of Unlock: a return without MT_UNLOCK *)
UnlockForgotten(c) ==
  /\ At(c, "unlock")
  /\ Goto(c, "leave")
  /\ UNCHANGED <<table, used_count, inside, holder, heap, held, history>>

(* MT_UNLOCK() *)
Unlock(c) ==
  /\ At(c, "unlock")
  /\ holder' = NoCtx
  /\ Goto(c, "leave")
  /\ UNCHANGED <<table, used_count, inside, heap, held, history>>

(* Mutant of Leave: a return without g_inside = 0 when the call was taken   *)
(* for a double free                                                        *)
LeaveGuardSet(c) ==
  /\ At(c, "leave")
  /\ \/ /\ call[c].op = "free" /\ call[c].ptr # NoPtr
        /\ inside' = 0
        /\ Goto(c, "real_free") /\ UNCHANGED held
     \/ /\ call[c].op = "free" /\ call[c].ptr = NoPtr
        /\ Return(c, {}) /\ UNCHANGED inside
     \/ call[c].op # "free" /\ Return(c, {call[c].new}) /\ inside' = 0
  /\ UNCHANGED <<table, used_count, holder, heap, history>>

(* g_inside = 0, then the rest of the call *)
Leave(c) ==
  /\ At(c, "leave")
  /\ inside' = 0
  /\ \/ /\ call[c].op = "free" /\ call[c].ptr # NoPtr
        /\ Goto(c, "real_free") /\ UNCHANGED held
     \/ call[c].op = "free" /\ call[c].ptr = NoPtr /\ Return(c, {})
     \/ call[c].op # "free" /\ Return(c, {call[c].new})
  /\ UNCHANGED <<table, used_count, holder, heap, history>>

-----------------------------------------------------------------------------

Init ==
  /\ table = [s \in Slot |-> [state |-> "EMPTY", ptr |-> NoPtr]]
  /\ used_count = 0
  /\ inside = 0
  /\ holder = NoCtx
  /\ heap = [p \in Ptr |-> "never"]
  /\ held = {}
  /\ call = [c \in Ctx |-> Idle]
  /\ bypassed = FALSE
  /\ recycled = FALSE

Begin(c) == CallMalloc(c) \/ \E p \in held : CallFree(c, p) \/ CallRealloc(c, p)

Continue(c) ==
  \/ RealMalloc(c) \/ RealFree(c) \/ FindOld(c) \/ RealRealloc(c)
  \/ SetInside(c) \/ Lock(c) \/ Track(c) \/ Record(c) \/ Untrack(c)
  \/ Retrack(c) \/ Unlock(c) \/ Leave(c)

Next == \E c \in Ctx : Begin(c) \/ Continue(c)

(* No call need ever be made; a context in the middle of one gets the       *)
(* processor again and again (interrupts do not saturate it).               *)
Fairness == \A c \in Ctx : SF_vars(Continue(c))

Spec == Init /\ [][Next]_vars /\ Fairness

-----------------------------------------------------------------------------
(* Properties *)

(* Between calls neither the guard nor the lock is left set, whichever of   *)
(* their many returns the calls took: a guard left set would turn tracking  *)
(* off for good without any other symptom.                                  *)
GuardReleased ==
  (\A c \in Ctx : call[c] = Idle) => inside = 0 /\ holder = NoCtx

(* g_used_count is the number of USED slots whenever no context is under    *)
(* MT_LOCK, however the calls interleave.                                   *)
UsedCountExact ==
  holder = NoCtx => used_count = Cardinality(UsedSlots(table))

(* Why mt_realloc may search its record before MT_LOCK and use the index    *)
(* after it: until the real allocator has moved the block, nobody takes the *)
(* record away (lines 412-437).                                             *)
FoundSlotStays ==
  \A c \in Ctx :
    /\ call[c].op = "realloc" /\ call[c].idx # NoSlot
    /\ call[c].new \in {NoPtr, call[c].ptr}
    => Holds(table, call[c].idx, call[c].ptr)

(* The real allocator never sees a block twice, whatever ghosts and         *)
(* unrecorded blocks the interleavings leave in the table, provided client  *)
(* code frees only what it holds.                                           *)
RealHeapIntact == \A p \in Ptr : heap[p] # "corrupted"

(* Only two races leave a record of a dead block, or two of one block, for  *)
(* a state where nobody is under the lock: a call that found the guard set, *)
(* and an address handed out again between the real realloc that gave it up *)
(* and the update of its record.  In particular the order of mt_free (the   *)
(* record goes before the real free) and of mt_malloc (it comes after the   *)
(* real malloc) makes a recycled address safe.                              *)
ConsistentUnlessRaced ==
  holder = NoCtx /\ ~bypassed /\ ~recycled =>
    \A s \in UsedSlots(table) :
      /\ table[s].ptr \in Live \cup Moving
      /\ \A u \in UsedSlots(table) : table[u].ptr = table[s].ptr => u = s

(* Every call returns: MT_LOCK never waits for a context that cannot run.   *)
CallsReturn == \A c \in Ctx : call[c] # Idle ~> call[c] = Idle

=============================================================================
