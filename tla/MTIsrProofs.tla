----------------------------- MODULE MTIsrProofs ------------------------------
(***************************************************************************)
(* Theorems about MTIsr, for every number of contexts, every relation of   *)
(* who may interrupt whom, every table size, set of addresses and hash     *)
(* function, with calls that overlap at any depth.                         *)
(***************************************************************************)
EXTENDS MTIsr, AllocTableProofs

-----------------------------------------------------------------------------
(* The inductive invariant *)

(* What a context can be doing: each function's steps, the argument and the *)
(* block that belong to them, and the two searches' results.                *)
Shaped(k) ==
  /\ k \in Call
  /\ k.pc = "idle" => k = Idle
  /\ k.pc # "idle" => k.op \in Ops
  /\ k.fast => k.idx = NoSlot /\ k.pc \in {"real_malloc", "real_free", "real_realloc"}
  /\ k.op = "malloc" =>
       /\ k.pc \in {"real_malloc", "enter", "lock", "track", "record", "unlock", "leave"}
       /\ k.ptr = NoPtr /\ (k.new = NoPtr <=> k.pc = "real_malloc")
       /\ k.pc = "record" => k.idx \in Slot
  /\ k.op = "free" =>
       /\ k.pc \in {"enter", "lock", "untrack", "unlock", "leave", "real_free"}
       /\ k.new = NoPtr /\ (k.ptr = NoPtr => k.pc \in {"unlock", "leave"})
  /\ k.op = "realloc" =>
       /\ k.pc \in {"find_old", "real_realloc", "enter", "lock", "retrack",
                    "unlock", "leave"}
       /\ k.ptr # NoPtr /\ (k.new = NoPtr <=> k.pc \in {"find_old", "real_realloc"})
       /\ k.pc = "find_old" => k.idx = NoSlot

TypesInv ==
  /\ table \in [Slot -> Cell]
  /\ inside \in {0, 1}
  /\ holder \in Ctx \cup {NoCtx}
  /\ heap \in [Ptr -> {"never", "live", "freed"}]
  /\ call \in [Ctx -> Call]
  /\ \A c \in Ctx : Shaped(call[c])
  /\ bypassed \in BOOLEAN
  /\ recycled \in BOOLEAN

(* The steps between MT_LOCK and MT_UNLOCK *)
Inside == {"track", "record", "untrack", "retrack", "unlock"}

LockInv == \A c \in Ctx : call[c].pc \in Inside <=> holder = c

(* Whoever set the guard has not cleared it yet, or another did so for it. *)
GuardInv ==
  inside # 0 => \E c \in Ctx : call[c].pc \in Inside \cup {"lock", "leave"}

(* The block that is on its way through a call *)
Block(c) == IF call[c].new # NoPtr THEN call[c].new ELSE call[c].ptr

(* A live block is client code's or on its way through one call. *)
OwnInv ==
  /\ held \subseteq Live
  /\ \A c \in Ctx : Block(c) # NoPtr =>
       /\ Block(c) \in Live
       /\ Block(c) \notin held
       /\ \A d \in Ctx : Block(d) = Block(c) => d = c

CountInv ==
  /\ used_count = Cardinality(UsedSlots(table))
  /\ \A c \in Ctx : call[c].pc = "record" => InsertSlot(table, call[c].new, call[c].idx)

BaseInv == TypesInv /\ LockInv /\ GuardInv /\ OwnInv /\ CountInv

-----------------------------------------------------------------------------
(* Steps of a context *)

(* Context c goes on with k, the others stay where they are. *)
Moves(c, k) ==
  /\ Shaped(k)
  /\ call' \in [Ctx -> Call]
  /\ call'[c] = k
  /\ \A d \in Ctx : d # c => call'[d] = call[d]

LEMMA MovesTo ==
  ASSUME BaseInv, NEW c \in Ctx, NEW k, Shaped(k), call' = [call EXCEPT ![c] = k]
  PROVE  Moves(c, k)
BY DEF Moves, BaseInv, TypesInv, Shaped

LEMMA IdleShaped == Shaped(Idle)
BY MTIsrAssumption DEF Shaped, Idle, Call, NoSlot

LEMMA MovesShaped ==
  ASSUME BaseInv, NEW c \in Ctx, NEW k, Moves(c, k)
  PROVE  /\ call' \in [Ctx -> Call]
         /\ \A d \in Ctx : Shaped(call'[d])
BY DEF Moves, BaseInv, TypesInv

(* The steps that neither touch the table nor enter or leave the section    *)
(* between MT_LOCK and MT_UNLOCK leave the lock and the count as they are.  *)
LEMMA OutsideStep ==
  ASSUME BaseInv, NEW c \in Ctx, NEW k, Moves(c, k),
         call[c].pc \notin Inside, k.pc \notin Inside,
         UNCHANGED <<table, used_count, holder>>
  PROVE  LockInv' /\ CountInv'
<1>1. \A d \in Ctx : call'[d].pc \in Inside <=> call[d].pc \in Inside
  BY DEF Moves
<1>2. \A d \in Ctx : call'[d].pc = "record" => d # c /\ call'[d] = call[d]
  BY DEF Moves, Inside
<1> QED
  BY <1>1, <1>2 DEF BaseInv, LockInv, CountInv

(* Likewise the steps that leave the blocks where they are keep OwnInv. *)
LEMMA OwnedStep ==
  ASSUME BaseInv, NEW c \in Ctx, NEW k, Moves(c, k),
         k.new = call[c].new, k.ptr = call[c].ptr \/ k.ptr = NoPtr,
         UNCHANGED <<heap, held>>
  PROVE  OwnInv'
<1>1. \A d \in Ctx : Block(d)' = Block(d) \/ Block(d)' = NoPtr
  BY DEF Moves, Block
<1>2. Live' = Live
  BY DEF Live
<1> QED
  BY <1>1, <1>2 DEF BaseInv, OwnInv

(* A call that returns hands at most its own block to client code. *)
LEMMA ReturnOwned ==
  ASSUME BaseInv, NEW c \in Ctx, Moves(c, Idle), heap' = heap,
         NEW B, held' = held \cup B, B = {} \/ (B = {Block(c)} /\ Block(c) # NoPtr)
  PROVE  OwnInv'
<1>1. Block(c)' = NoPtr /\ \A d \in Ctx : d # c => Block(d)' = Block(d)
  BY DEF Moves, Block, Idle
<1>2. Live' = Live
  BY DEF Live
<1> QED
  BY <1>1, <1>2 DEF BaseInv, OwnInv

(* Only one context is between MT_LOCK and MT_UNLOCK. *)
LEMMA LockedAlone ==
  ASSUME BaseInv, NEW c \in Ctx, call[c].pc \in Inside
  PROVE  holder = c /\ \A d \in Ctx : d # c => call[d].pc \notin Inside
BY DEF BaseInv, LockInv

-----------------------------------------------------------------------------
(* Every step keeps the invariant *)

LEMMA EnterBase ==
  ASSUME BaseInv, NEW c \in Ctx, NEW f \in Ops, NEW p, NEW slow, Enter(c, f, p, slow),
         \/ f = "malloc" /\ p = NoPtr /\ slow = "real_malloc"
         \/ f = "free" /\ p \in held /\ slow = "enter"
         \/ f = "realloc" /\ p \in held /\ slow = "find_old"
  PROVE  BaseInv'
<1> DEFINE k == [Idle EXCEPT !.op = f, !.ptr = p, !.fast = (inside # 0),
                   !.pc = IF inside # 0 THEN RealCall[f] ELSE slow]
<1>0. held \subseteq Live /\ Live \subseteq Ptr /\ NoPtr \notin Ptr
  BY AllocTableAssumption DEF BaseInv, OwnInv, Live
<1>1. Shaped(k)
  <2>1. /\ k.op = f /\ k.ptr = p /\ k.new = NoPtr /\ k.idx = NoSlot
        /\ k.fast = (inside # 0)
        /\ k.pc = IF inside # 0 THEN RealCall[f] ELSE slow
    BY DEF Idle
  <2>2. f = "malloc" => RealCall[f] = "real_malloc"
    BY DEF RealCall
  <2>3. f = "free" => RealCall[f] = "real_free"
    BY DEF RealCall
  <2>4. f = "realloc" => RealCall[f] = "real_realloc"
    BY DEF RealCall
  <2>5. p \in Ptr \cup {NoPtr} /\ (f # "malloc" => p # NoPtr)
    BY <1>0
  <2>6. k \in Call
    BY <2>2, <2>3, <2>4, <2>5 DEF Call, Idle
  <2> QED
    BY <2>1, <2>2, <2>3, <2>4, <2>5, <2>6 DEF Shaped
<1>2. Moves(c, k)
  BY <1>1, MovesTo DEF Enter
<1>3. call[c].pc = "idle" /\ call[c] = Idle
  BY DEF BaseInv, TypesInv, Shaped, Enter, At
<1>4. TypesInv'
  BY <1>2, MovesShaped DEF BaseInv, TypesInv, Enter
<1>5. LockInv' /\ CountInv'
  <2>1. k.pc \in {"real_malloc", "real_free", "real_realloc", "enter", "find_old"}
    BY DEF Idle, RealCall
  <2>2. UNCHANGED <<table, used_count, holder>>
    BY DEF Enter
  <2> QED
    BY <1>2, <1>3, <2>1, <2>2, OutsideStep DEF Inside
<1>6. GuardInv'
  BY <1>2, <1>3 DEF Moves, BaseInv, GuardInv, Enter, Inside
<1>7. OwnInv'
  <2>1. k.new = NoPtr /\ k.ptr = p /\ Block(c)' = p
    BY <1>2 DEF Moves, Block, Idle
  <2>2. \A d \in Ctx : d # c => Block(d)' = Block(d)
    BY <1>2 DEF Moves, Block
  <2>3. held' = held \ {p} /\ Live' = Live
    BY DEF Enter, Live
  <2> QED
    BY <1>0, <2>1, <2>2, <2>3 DEF BaseInv, OwnInv
<1> QED
  BY <1>4, <1>5, <1>6, <1>7 DEF BaseInv

LEMMA SetInsideBase ==
  ASSUME BaseInv, NEW c \in Ctx, SetInside(c)
  PROVE  BaseInv'
<1> DEFINE k == [call[c] EXCEPT !.pc = "lock"]
<1>1. call[c].pc = "enter" /\ Shaped(call[c]) /\ call[c] \in Call
  BY DEF BaseInv, TypesInv, SetInside, At
<1>2. Shaped(k)
  BY <1>1, MTIsrAssumption DEF Shaped, Call, Idle
<1>3. Moves(c, k)
  BY <1>2, MovesTo DEF SetInside, Goto
<1>4. k.pc = "lock" /\ k.ptr = call[c].ptr /\ k.new = call[c].new
  BY <1>1 DEF Call
<1>5. TypesInv'
  BY <1>3, MovesShaped DEF BaseInv, TypesInv, SetInside, history
<1>6. LockInv' /\ CountInv'
  BY <1>1, <1>3, <1>4, OutsideStep DEF SetInside, Inside
<1>7. GuardInv'
  BY <1>3, <1>4 DEF Moves, GuardInv
<1>8. OwnInv'
  BY <1>3, <1>4, OwnedStep DEF SetInside
<1> QED
  BY <1>5, <1>6, <1>7, <1>8 DEF BaseInv

LEMMA LockBase ==
  ASSUME BaseInv, NEW c \in Ctx, Lock(c)
  PROVE  BaseInv'
<1> DEFINE k == [call[c] EXCEPT !.pc = Body[call[c].op]]
<1>1. call[c].pc = "lock" /\ Shaped(call[c]) /\ call[c] \in Call /\ call[c].op \in Ops
  BY DEF BaseInv, TypesInv, Shaped, Lock, At
<1>2. Shaped(k)
  BY <1>1, MTIsrAssumption DEF Shaped, Call, Idle, Body
<1>3. Moves(c, k)
  BY <1>2, MovesTo DEF Lock, Goto
<1>4. k.pc \in Inside \ {"record"} /\ k.ptr = call[c].ptr /\ k.new = call[c].new
  BY <1>1, MTIsrAssumption DEF Call, Inside, Body
<1>5. TypesInv'
  BY <1>3, MovesShaped DEF BaseInv, TypesInv, Lock, history
<1>6. \A d \in Ctx : d # c => call[d].pc \notin Inside /\ call'[d] = call[d]
  BY <1>1, <1>3, MTIsrAssumption DEF BaseInv, LockInv, Lock, At, CanRun, Moves, Inside
<1>7. LockInv'
  BY <1>3, <1>4, <1>6 DEF Lock, Moves, LockInv
<1>8. CountInv'
  BY <1>3, <1>4, <1>6 DEF BaseInv, CountInv, Lock, Moves, Inside
<1>9. GuardInv'
  BY <1>3, <1>4 DEF Moves, GuardInv
<1>10. OwnInv'
  BY <1>3, <1>4, OwnedStep DEF Lock
<1> QED
  BY <1>5, <1>7, <1>8, <1>9, <1>10 DEF BaseInv

LEMMA UnlockBase ==
  ASSUME BaseInv, NEW c \in Ctx, Unlock(c)
  PROVE  BaseInv'
<1> DEFINE k == [call[c] EXCEPT !.pc = "leave"]
<1>1. call[c].pc = "unlock" /\ Shaped(call[c]) /\ call[c] \in Call
  BY DEF BaseInv, TypesInv, Unlock, At
<1>2. Shaped(k)
  BY <1>1, MTIsrAssumption DEF Shaped, Call, Idle
<1>3. Moves(c, k)
  BY <1>2, MovesTo DEF Unlock, Goto
<1>4. k.pc = "leave" /\ k.ptr = call[c].ptr /\ k.new = call[c].new
  BY <1>1 DEF Call
<1>5. TypesInv'
  BY <1>3, MovesShaped DEF BaseInv, TypesInv, Unlock, history
<1>6. \A d \in Ctx : d # c => call[d].pc \notin Inside /\ call'[d] = call[d]
  BY <1>1, <1>3, LockedAlone DEF Moves, Inside
<1>7. LockInv'
  BY <1>3, <1>4, <1>6, MTIsrAssumption DEF Unlock, Moves, LockInv, Inside
<1>8. CountInv'
  BY <1>3, <1>4, <1>6 DEF BaseInv, CountInv, Unlock, Moves, Inside
<1>9. GuardInv'
  BY <1>3, <1>4 DEF Moves, GuardInv
<1>10. OwnInv'
  BY <1>3, <1>4, OwnedStep DEF Unlock
<1> QED
  BY <1>5, <1>7, <1>8, <1>9, <1>10 DEF BaseInv

LEMMA LeaveBase ==
  ASSUME BaseInv, NEW c \in Ctx, Leave(c)
  PROVE  BaseInv'
<1>1. call[c].pc = "leave" /\ Shaped(call[c]) /\ call[c] \in Call
  BY DEF BaseInv, TypesInv, Leave, At
<1>2. UNCHANGED <<table, used_count, holder, heap, bypassed, recycled>> /\ inside' = 0
  BY DEF Leave, history
<1>3. GuardInv'
  BY <1>2 DEF GuardInv
<1>4. ASSUME NEW k, Moves(c, k), k.pc \notin Inside
      PROVE  TypesInv' /\ LockInv' /\ CountInv'
  <2>1. TypesInv'
    BY <1>2, <1>4, MovesShaped DEF BaseInv, TypesInv
  <2> QED
    BY <1>1, <1>2, <1>4, <2>1, OutsideStep DEF Inside
<1>5. CASE call[c].op = "free" /\ call[c].ptr # NoPtr /\ Goto(c, "real_free") /\ UNCHANGED held
  <2> DEFINE k == [call[c] EXCEPT !.pc = "real_free"]
  <2>1. Shaped(k)
    BY <1>1, <1>5, MTIsrAssumption DEF Shaped, Call, Idle
  <2>2. Moves(c, k)
    BY <1>5, <2>1, MovesTo DEF Goto
  <2>3. k.pc = "real_free" /\ k.ptr = call[c].ptr /\ k.new = call[c].new
    BY <1>1 DEF Call
  <2>4. OwnInv'
    BY <1>2, <1>5, <2>2, <2>3, OwnedStep
  <2> QED
    BY <1>3, <1>4, <2>2, <2>3, <2>4 DEF BaseInv, Inside
<1>6. CASE call[c].op = "free" /\ call[c].ptr = NoPtr /\ Return(c, {})
  <2>1. Moves(c, Idle)
    BY <1>6, IdleShaped, MovesTo DEF Return
  <2>2. UNCHANGED held /\ call[c].new = NoPtr
    BY <1>1, <1>6 DEF Return, Shaped
  <2>3. OwnInv'
    BY <1>2, <1>6, <2>1, <2>2, OwnedStep DEF Idle
  <2> QED
    BY <1>3, <1>4, <2>1, <2>3 DEF BaseInv, Inside, Idle
<1>7. CASE call[c].op # "free" /\ Return(c, {call[c].new})
  <2>1. Moves(c, Idle)
    BY <1>7, IdleShaped, MovesTo DEF Return
  <2>2. call[c].new # NoPtr /\ Block(c) = call[c].new
    BY <1>1, <1>7, MTIsrAssumption DEF Shaped, Block
  <2>3. OwnInv'
    BY <1>2, <1>7, <2>1, <2>2, ReturnOwned DEF Return
  <2> QED
    BY <1>3, <1>4, <2>1, <2>3 DEF BaseInv, Inside, Idle
<1> QED
  BY <1>5, <1>6, <1>7 DEF Leave

LEMMA FindOldBase ==
  ASSUME BaseInv, NEW c \in Ctx, FindOld(c)
  PROVE  BaseInv'
<1>1. call[c].pc = "find_old" /\ Shaped(call[c]) /\ call[c] \in Call
  BY DEF BaseInv, TypesInv, FindOld, At
<1>2. call[c].op = "realloc" /\ call[c].ptr \in Ptr /\ ~call[c].fast
  BY <1>1, MTIsrAssumption DEF Shaped, Call
<1>3. UNCHANGED <<table, used_count, inside, holder, heap, held, bypassed, recycled>>
  BY DEF FindOld, history
<1> DEFINE With(i) == [call[c] EXCEPT !.idx = i, !.pc = "real_realloc"]
<1>4. PICK k \in Call :
        /\ call' = [call EXCEPT ![c] = k]
        /\ k.pc = "real_realloc" /\ k.op = call[c].op /\ k.ptr = call[c].ptr
        /\ k.new = call[c].new /\ k.fast = call[c].fast
  <2>1. ASSUME NEW i \in Slot \cup {NoSlot}
        PROVE  /\ With(i) \in Call /\ With(i).op = call[c].op /\ With(i).ptr = call[c].ptr
               /\ With(i).new = call[c].new /\ With(i).fast = call[c].fast
               /\ With(i).pc = "real_realloc"
    BY <1>1 DEF Call
  <2>2. \E i \in Slot \cup {NoSlot} : call' = [call EXCEPT ![c] = With(i)]
    <3>1. CASE Goto(c, "real_realloc")
      <4>1. With(call[c].idx) = [call[c] EXCEPT !.pc = "real_realloc"]
        BY <1>1 DEF Call
      <4> QED
        BY <1>1, <3>1, <4>1 DEF Goto, Call
    <3>2. ASSUME NEW s \in Slot,
                 call' = [call EXCEPT ![c].idx = s, ![c].pc = "real_realloc"]
          PROVE  call' = [call EXCEPT ![c] = With(s)]
      BY <1>1, <3>2 DEF BaseInv, TypesInv, Call
    <3> QED
      BY <3>1, <3>2 DEF FindOld
  <2> HIDE DEF With
  <2> QED
    BY <2>1, <2>2
<1>5. Shaped(k)
  BY <1>1, <1>2, <1>4, MTIsrAssumption DEF Shaped
<1>6. Moves(c, k)
  BY <1>4, <1>5, MovesTo
<1>7. TypesInv'
  BY <1>3, <1>6, MovesShaped DEF BaseInv, TypesInv
<1>8. LockInv' /\ CountInv'
  BY <1>1, <1>3, <1>4, <1>6, OutsideStep DEF Inside
<1>9. OwnInv'
  BY <1>3, <1>4, <1>6, OwnedStep
<1>10. GuardInv'
  BY <1>1, <1>3, <1>6 DEF BaseInv, GuardInv, Moves, Inside
<1> QED
  BY <1>7, <1>8, <1>9, <1>10 DEF BaseInv

(* The real allocator's steps: RealMalloc and RealRealloc end the call or   *)
(* go on to the critical section with the block they got.                   *)
LEMMA WithBlock ==
  ASSUME BaseInv, NEW c \in Ctx, NEW q \in Ptr,
         call[c].pc \in {"real_malloc", "real_realloc"}, ~call[c].fast,
         call' = [call EXCEPT ![c].new = q, ![c].pc = "enter"]
  PROVE  Moves(c, [call[c] EXCEPT !.new = q, !.pc = "enter"])
<1>1. Shaped(call[c]) /\ call[c] \in Call /\ call[c].op \in Ops
  BY DEF BaseInv, TypesInv, Shaped
<1>2. Shaped([call[c] EXCEPT !.new = q, !.pc = "enter"])
  BY <1>1, MTIsrAssumption, AllocTableAssumption DEF Shaped, Call, Idle
<1>3. call' = [call EXCEPT ![c] = [call[c] EXCEPT !.new = q, !.pc = "enter"]]
  BY <1>1 DEF BaseInv, TypesInv, Call
<1> QED
  BY <1>2, <1>3, MovesTo

LEMMA RealMallocBase ==
  ASSUME BaseInv, NEW c \in Ctx, RealMalloc(c)
  PROVE  BaseInv'
<1>1. call[c].pc = "real_malloc" /\ Shaped(call[c]) /\ call[c] \in Call
  BY DEF BaseInv, TypesInv, RealMalloc, At
<1>2. call[c].op = "malloc" /\ call[c].ptr = NoPtr /\ call[c].new = NoPtr
  BY <1>1, MTIsrAssumption DEF Shaped
<1>3. UNCHANGED <<table, used_count, inside, holder, bypassed>>
  BY DEF RealMalloc
<1>4. ASSUME NEW k, Moves(c, k), k.pc \notin Inside,
             heap' \in [Ptr -> {"never", "live", "freed"}], recycled' \in BOOLEAN
      PROVE  TypesInv' /\ LockInv' /\ CountInv' /\ GuardInv'
  <2>1. TypesInv'
    BY <1>3, <1>4, MovesShaped DEF BaseInv, TypesInv
  <2>2. GuardInv'
    BY <1>1, <1>3, <1>4 DEF BaseInv, GuardInv, Moves, Inside
  <2> QED
    BY <1>1, <1>3, <1>4, <2>1, <2>2, OutsideStep DEF Inside
<1>5. CASE Return(c, {}) /\ UNCHANGED <<heap, recycled>>
  <2>1. Moves(c, Idle)
    BY <1>5, IdleShaped, MovesTo DEF Return
  <2>2. OwnInv'
    BY <1>2, <1>5, <2>1, OwnedStep DEF Idle, Return
  <2> QED
    BY <1>4, <1>5, <2>1, <2>2 DEF BaseInv, TypesInv, Inside, Idle
<1>6. ASSUME NEW p \in Available,
             heap' = [heap EXCEPT ![p] = "live"],
             recycled' = (recycled \/ p \in Moving),
             \/ call[c].fast /\ Return(c, {p})
             \/ /\ ~call[c].fast
                /\ call' = [call EXCEPT ![c].new = p, ![c].pc = "enter"]
                /\ UNCHANGED held
      PROVE  BaseInv'
  <2>1. p \in Ptr /\ p \notin Live /\ p # NoPtr
    BY AllocTableAssumption DEF Available, Live
  <2>2. heap' \in [Ptr -> {"never", "live", "freed"}] /\ Live' = Live \cup {p}
    BY <1>6, <2>1 DEF BaseInv, TypesInv, Live
  <2>3. recycled' \in BOOLEAN
    BY <1>6
  <2>4. CASE call[c].fast /\ Return(c, {p})
    <3>1. Moves(c, Idle) /\ held' = held \cup {p}
      BY <2>4, IdleShaped, MovesTo DEF Return
    <3>2. Block(c)' = NoPtr /\ \A d \in Ctx : d # c => Block(d)' = Block(d)
      BY <3>1 DEF Moves, Block, Idle
    <3>3. OwnInv'
      BY <2>1, <2>2, <3>1, <3>2 DEF BaseInv, OwnInv
    <3> QED
      BY <1>4, <2>2, <2>3, <3>1, <3>3 DEF BaseInv, Inside, Idle
  <2>5. CASE /\ ~call[c].fast
             /\ call' = [call EXCEPT ![c].new = p, ![c].pc = "enter"]
             /\ UNCHANGED held
    <3> DEFINE k == [call[c] EXCEPT !.new = p, !.pc = "enter"]
    <3>1. Moves(c, k)
      BY <1>1, <2>1, <2>5, WithBlock
    <3>2. k.new = p /\ k.pc = "enter"
      BY <1>1 DEF Call
    <3> HIDE DEF k
    <3>3. Block(c)' = p /\ \A d \in Ctx : d # c => Block(d)' = Block(d)
      BY <2>1, <3>1, <3>2 DEF Moves, Block
    <3>4. OwnInv'
      BY <2>1, <2>2, <2>5, <3>3 DEF BaseInv, OwnInv
    <3> QED
      BY <1>4, <2>2, <2>3, <3>1, <3>2, <3>4 DEF BaseInv, Inside
  <2> QED
    BY <1>6, <2>4, <2>5
<1> QED
  BY <1>5, <1>6 DEF RealMalloc

LEMMA RealFreeBase ==
  ASSUME BaseInv, NEW c \in Ctx, RealFree(c)
  PROVE  BaseInv'
<1> DEFINE p == call[c].ptr
<1>1. call[c].pc = "real_free" /\ Shaped(call[c]) /\ call[c] \in Call
  BY DEF BaseInv, TypesInv, RealFree, At
<1>2. call[c].op = "free" /\ p # NoPtr /\ call[c].new = NoPtr
  BY <1>1, MTIsrAssumption DEF Shaped
<1>3. UNCHANGED <<table, used_count, inside, holder, bypassed, recycled, held>>
  BY DEF RealFree, Return, history
<1>4. Moves(c, Idle)
  BY IdleShaped, MovesTo DEF RealFree, Return
<1>5. Block(c) = p /\ p \in Live /\ p \in Ptr
  BY <1>2 DEF Block, BaseInv, OwnInv, Live
<1>6. heap' = [heap EXCEPT ![p] = "freed"]
  BY <1>5 DEF RealFree, Live
<1>7. heap' \in [Ptr -> {"never", "live", "freed"}] /\ Live' = Live \ {p}
  BY <1>5, <1>6 DEF BaseInv, TypesInv, Live
<1>8. TypesInv'
  BY <1>3, <1>4, <1>7, MovesShaped DEF BaseInv, TypesInv
<1>9. LockInv' /\ CountInv'
  BY <1>1, <1>3, <1>4, OutsideStep DEF Inside, Idle
<1>10. GuardInv'
  BY <1>1, <1>3, <1>4 DEF BaseInv, GuardInv, Moves, Inside
<1>11. OwnInv'
  <2>1. Block(c)' = NoPtr /\ \A d \in Ctx : d # c => Block(d)' = Block(d)
    BY <1>4 DEF Moves, Block, Idle
  <2> QED
    BY <1>2, <1>3, <1>5, <1>7, <2>1 DEF BaseInv, OwnInv
<1> QED
  BY <1>8, <1>9, <1>10, <1>11 DEF BaseInv

LEMMA RealReallocBase ==
  ASSUME BaseInv, NEW c \in Ctx, RealRealloc(c)
  PROVE  BaseInv'
<1> DEFINE p == call[c].ptr
<1>1. call[c].pc = "real_realloc" /\ Shaped(call[c]) /\ call[c] \in Call
  BY DEF BaseInv, TypesInv, RealRealloc, At
<1>2. call[c].op = "realloc" /\ p # NoPtr /\ call[c].new = NoPtr
  BY <1>1, MTIsrAssumption DEF Shaped
<1>3. UNCHANGED <<table, used_count, inside, holder, bypassed>>
  BY DEF RealRealloc
<1>4. ASSUME NEW k, Moves(c, k), k.pc \notin Inside,
             heap' \in [Ptr -> {"never", "live", "freed"}], recycled' \in BOOLEAN
      PROVE  TypesInv' /\ LockInv' /\ CountInv' /\ GuardInv'
  <2>1. TypesInv'
    BY <1>3, <1>4, MovesShaped DEF BaseInv, TypesInv
  <2>2. GuardInv'
    BY <1>1, <1>3, <1>4 DEF BaseInv, GuardInv, Moves, Inside
  <2> QED
    BY <1>1, <1>3, <1>4, <2>1, <2>2, OutsideStep DEF Inside
<1>5. Block(c) = p /\ p \in Live /\ p \in Ptr
  BY <1>2 DEF Block, BaseInv, OwnInv, Live
<1>6. CASE Return(c, {p}) /\ UNCHANGED <<heap, recycled>>
  <2>1. Moves(c, Idle) /\ held' = held \cup {p}
    BY <1>6, IdleShaped, MovesTo DEF Return
  <2>2. OwnInv'
    BY <1>2, <1>5, <1>6, <2>1, ReturnOwned
  <2> QED
    BY <1>4, <1>6, <2>1, <2>2 DEF BaseInv, TypesInv, Inside, Idle
<1>7. ASSUME NEW q \in Available \cup {p},
             heap' = [heap EXCEPT ![p] = IF @ = "live" THEN "freed" ELSE "corrupted",
                                  ![q] = "live"],
             recycled' = (recycled \/ q \in Moving),
             \/ call[c].fast /\ Return(c, {q})
             \/ /\ ~call[c].fast
                /\ call' = [call EXCEPT ![c].new = q, ![c].pc = "enter"]
                /\ UNCHANGED held
      PROVE  BaseInv'
  <2>1. q \in Ptr /\ (q # p => q \notin Live) /\ q # NoPtr
    BY <1>5, AllocTableAssumption DEF Available, Live
  <2>2. heap' \in [Ptr -> {"never", "live", "freed"}] /\ Live' = (Live \ {p}) \cup {q}
    BY <1>5, <1>7, <2>1 DEF BaseInv, TypesInv, Live
  <2>3. recycled' \in BOOLEAN
    BY <1>7
  <2>4. CASE call[c].fast /\ Return(c, {q})
    <3>1. Moves(c, Idle) /\ held' = held \cup {q}
      BY <2>4, IdleShaped, MovesTo DEF Return
    <3>2. Block(c)' = NoPtr /\ \A d \in Ctx : d # c => Block(d)' = Block(d)
      BY <3>1 DEF Moves, Block, Idle
    <3>3. OwnInv'
      BY <1>2, <1>5, <2>1, <2>2, <3>1, <3>2 DEF BaseInv, OwnInv
    <3> QED
      BY <1>4, <2>2, <2>3, <3>1, <3>3 DEF BaseInv, Inside, Idle
  <2>5. CASE /\ ~call[c].fast
             /\ call' = [call EXCEPT ![c].new = q, ![c].pc = "enter"]
             /\ UNCHANGED held
    <3> DEFINE k == [call[c] EXCEPT !.new = q, !.pc = "enter"]
    <3>1. Moves(c, k)
      BY <1>1, <2>1, <2>5, WithBlock
    <3>2. k.new = q /\ k.pc = "enter"
      BY <1>1 DEF Call
    <3> HIDE DEF k
    <3>3. Block(c)' = q /\ \A d \in Ctx : d # c => Block(d)' = Block(d)
      BY <2>1, <3>1, <3>2 DEF Moves, Block
    <3>4. OwnInv'
      BY <1>2, <1>5, <2>1, <2>2, <2>5, <3>3 DEF BaseInv, OwnInv
    <3> QED
      BY <1>4, <2>2, <2>3, <3>1, <3>2, <3>4 DEF BaseInv, Inside
  <2> QED
    BY <1>7, <2>4, <2>5
<1> QED
  BY <1>6, <1>7 DEF RealRealloc

(* Writing a record in the slot that mt_find_insert_slot returned. *)
Write(t, s, q) == [t EXCEPT ![s] = Used(q)]

LEMMA Written ==
  ASSUME NEW t \in [Slot -> Cell], NEW q \in Ptr, NEW s, InsertSlot(t, q, s)
  PROVE  /\ s \in Slot
         /\ Write(t, s, q) \in [Slot -> Cell]
         /\ Write(t, s, q)[s] = Used(q)
         /\ \A v \in Slot : v # s => Write(t, s, q)[v] = t[v]
         /\ UsedSlots(Write(t, s, q)) = UsedSlots(t) \cup {s}
         /\ Cardinality(UsedSlots(Write(t, s, q))) = Cardinality(UsedSlots(t)) + 1
<1> DEFINE u == Write(t, s, q)
<1>1. s \in Slot /\ s \notin UsedSlots(t)
  BY InsertSlotNotUsed DEF UsedSlots
<1>2. u \in [Slot -> Cell] /\ u[s] = Used(q) /\ \A v \in Slot : v # s => u[v] = t[v]
  BY <1>1 DEF Write, Cell, Used, SlotState
<1> HIDE DEF u
<1>3. UsedSlots(u) = UsedSlots(t) \cup {s}
  BY <1>1, <1>2 DEF UsedSlots, Used
<1>4. Cardinality(UsedSlots(t) \cup {s}) = Cardinality(UsedSlots(t)) + 1
  BY <1>1, UsedFinite, FS_AddElement
<1> QED
  BY <1>1, <1>2, <1>3, <1>4 DEF u

(* Freeing a slot, whether or not it is USED. *)
LEMMA SlotFreed ==
  ASSUME NEW t \in [Slot -> Cell], NEW s \in Slot
  PROVE  LET u == SlotFree(t, s)
         IN  /\ u \in [Slot -> Cell]
             /\ \A v \in Slot : v # s => u[v] = t[v]
             /\ UsedSlots(u) = UsedSlots(t) \ {s}
             /\ t[s].state = "USED" =>
                  /\ u[s].state = "TOMBSTONE"
                  /\ Cardinality(UsedSlots(u)) = Cardinality(UsedSlots(t)) - 1
             /\ t[s].state # "USED" => u = t
<1> DEFINE u == SlotFree(t, s)
<1>1. CASE t[s].state # "USED"
  BY <1>1 DEF SlotFree, UsedSlots
<1>2. CASE t[s].state = "USED"
  <2>1. u = [t EXCEPT ![s].state = "TOMBSTONE"]
    BY <1>2 DEF SlotFree
  <2>2. /\ u \in [Slot -> Cell] /\ u[s].state = "TOMBSTONE"
        /\ \A v \in Slot : v # s => u[v] = t[v]
    BY <2>1 DEF Cell, SlotState
  <2>3. UsedSlots(u) = UsedSlots(t) \ {s}
    BY <2>2 DEF UsedSlots
  <2>4. Cardinality(UsedSlots(t) \ {s}) = Cardinality(UsedSlots(t)) - 1
    <3>1. s \in UsedSlots(t) /\ IsFiniteSet(UsedSlots(t))
      BY <1>2, UsedFinite DEF UsedSlots
    <3> QED
      BY <3>1, FS_RemoveElement
  <2> QED
    BY <1>2, <2>2, <2>3, <2>4
<1> QED
  BY <1>1, <1>2

(* The steps between MT_LOCK and MT_UNLOCK leave the lock and the guard. *)
LEMMA InsideStep ==
  ASSUME BaseInv, NEW c \in Ctx, NEW k, Moves(c, k),
         call[c].pc \in Inside, k.pc \in Inside, holder' = holder
  PROVE  /\ LockInv' /\ GuardInv'
         /\ \A d \in Ctx : call'[d].pc = "record" => d = c
<1>1. \A d \in Ctx : call'[d].pc \in Inside <=> call[d].pc \in Inside
  BY DEF Moves
<1>2. \A d \in Ctx : call'[d].pc \in Inside => d = c
  BY <1>1, LockedAlone
<1> QED
  BY <1>1, <1>2 DEF BaseInv, LockInv, GuardInv, Moves, Inside

LEMMA TrackBase ==
  ASSUME BaseInv, NEW c \in Ctx, Track(c)
  PROVE  BaseInv'
<1>1. call[c].pc = "track" /\ Shaped(call[c]) /\ call[c] \in Call
  BY DEF BaseInv, TypesInv, Track, At
<1>2. call[c].op = "malloc" /\ call[c].ptr = NoPtr /\ call[c].new \in Ptr /\ ~call[c].fast
  BY <1>1, MTIsrAssumption DEF Shaped, Call
<1>3. UNCHANGED <<table, used_count, inside, holder, heap, held, bypassed, recycled>>
  BY DEF Track, history
<1>4. ASSUME NEW k, Moves(c, k), k.pc \in Inside, k.new = call[c].new, k.ptr = call[c].ptr,
             k.pc = "record" => InsertSlot(table, k.new, k.idx)
      PROVE  BaseInv'
  <2>1. TypesInv'
    BY <1>3, <1>4, MovesShaped DEF BaseInv, TypesInv
  <2>2. LockInv' /\ GuardInv' /\ \A d \in Ctx : call'[d].pc = "record" => d = c
    BY <1>1, <1>3, <1>4, InsideStep DEF Inside
  <2>3. CountInv'
    BY <1>3, <1>4, <2>2 DEF BaseInv, CountInv, Moves
  <2>4. OwnInv'
    BY <1>3, <1>4, OwnedStep
  <2> QED
    BY <2>1, <2>2, <2>3, <2>4 DEF BaseInv
<1>5. CASE Goto(c, "unlock")
  <2> DEFINE k == [call[c] EXCEPT !.pc = "unlock"]
  <2>1. k.pc = "unlock" /\ k.ptr = call[c].ptr /\ k.new = call[c].new /\ Shaped(k)
    BY <1>1, <1>2, MTIsrAssumption DEF Shaped, Call, Idle
  <2>2. Moves(c, k)
    BY <1>5, <2>1, MovesTo DEF Goto
  <2> QED
    BY <1>4, <2>1, <2>2 DEF Inside
<1>6. ASSUME NEW s \in Slot, InsertSlot(table, call[c].new, s),
             call' = [call EXCEPT ![c].idx = s, ![c].pc = "record"]
      PROVE  BaseInv'
  <2> DEFINE k == [call[c] EXCEPT !.idx = s, !.pc = "record"]
  <2>1. /\ k.pc = "record" /\ k.ptr = call[c].ptr /\ k.new = call[c].new /\ k.idx = s
        /\ Shaped(k)
    BY <1>1, <1>2, MTIsrAssumption DEF Shaped, Call, Idle
  <2>2. call' = [call EXCEPT ![c] = k]
    BY <1>6 DEF BaseInv, TypesInv, Call
  <2>3. Moves(c, k)
    BY <2>1, <2>2, MovesTo
  <2> QED
    BY <1>4, <1>6, <2>1, <2>3 DEF Inside
<1> QED
  BY <1>5, <1>6 DEF Track

LEMMA RecordBase ==
  ASSUME BaseInv, NEW c \in Ctx, Record(c)
  PROVE  BaseInv'
<1> DEFINE k == [call[c] EXCEPT !.pc = "unlock"]
<1>1. call[c].pc = "record" /\ Shaped(call[c]) /\ call[c] \in Call
  BY DEF BaseInv, TypesInv, Record, At
<1>2. call[c].op = "malloc" /\ call[c].new \in Ptr
  BY <1>1, MTIsrAssumption DEF Shaped, Call
<1>3. UNCHANGED <<inside, holder, heap, held, bypassed, recycled>>
  BY DEF Record, history
<1>4. k.pc = "unlock" /\ k.ptr = call[c].ptr /\ k.new = call[c].new /\ Shaped(k)
  BY <1>1, <1>2, MTIsrAssumption DEF Shaped, Call, Idle
<1>5. Moves(c, k)
  BY <1>4, MovesTo DEF Record, Goto
<1>6. LockInv' /\ GuardInv' /\ \A d \in Ctx : call'[d].pc # "record"
  BY <1>1, <1>3, <1>4, <1>5, InsideStep DEF Inside, Moves
<1>7. InsertSlot(table, call[c].new, call[c].idx)
  BY <1>1 DEF BaseInv, CountInv
<1>8. /\ table' \in [Slot -> Cell]
      /\ Cardinality(UsedSlots(table')) = Cardinality(UsedSlots(table)) + 1
  <2>1. table \in [Slot -> Cell] /\ table' = Write(table, call[c].idx, call[c].new)
    BY DEF BaseInv, TypesInv, Record, Write
  <2> QED
    BY <1>2, <1>7, <2>1, Written
<1>9. TypesInv'
  BY <1>3, <1>5, <1>8, MovesShaped DEF BaseInv, TypesInv
<1>10. CountInv'
  BY <1>6, <1>8 DEF BaseInv, CountInv, Record
<1>11. OwnInv'
  BY <1>3, <1>4, <1>5, OwnedStep
<1> QED
  BY <1>6, <1>9, <1>10, <1>11 DEF BaseInv

LEMMA UntrackBase ==
  ASSUME BaseInv, NEW c \in Ctx, Untrack(c)
  PROVE  BaseInv'
<1> DEFINE p == call[c].ptr
<1>1. call[c].pc = "untrack" /\ Shaped(call[c]) /\ call[c] \in Call
  BY DEF BaseInv, TypesInv, Untrack, At
<1>2. call[c].op = "free" /\ p \in Ptr /\ call[c].new = NoPtr /\ ~call[c].fast
  BY <1>1, MTIsrAssumption DEF Shaped, Call
<1>3. UNCHANGED <<inside, holder, heap, held, bypassed, recycled>>
  BY DEF Untrack, history
<1>4. ASSUME NEW k, Moves(c, k), k.pc = "unlock", k.new = call[c].new,
             k.ptr = p \/ k.ptr = NoPtr,
             table' \in [Slot -> Cell], used_count' = Cardinality(UsedSlots(table'))
      PROVE  BaseInv'
  <2>1. TypesInv'
    BY <1>3, <1>4, MovesShaped DEF BaseInv, TypesInv
  <2>2. LockInv' /\ GuardInv' /\ \A d \in Ctx : call'[d].pc # "record"
    BY <1>1, <1>3, <1>4, InsideStep DEF Inside, Moves
  <2>3. CountInv'
    BY <1>4, <2>2 DEF CountInv
  <2>4. OwnInv'
    BY <1>3, <1>4, OwnedStep
  <2> QED
    BY <2>1, <2>2, <2>3, <2>4 DEF BaseInv
<1>5. ASSUME NEW s \in Slot, FindSlot(table, p, s), table' = SlotFree(table, s),
             used_count' = used_count - 1, Goto(c, "unlock")
      PROVE  BaseInv'
  <2> DEFINE k == [call[c] EXCEPT !.pc = "unlock"]
  <2>1. k.pc = "unlock" /\ k.ptr = p /\ k.new = call[c].new /\ Shaped(k)
    BY <1>1, <1>2, MTIsrAssumption DEF Shaped, Call, Idle
  <2>2. Moves(c, k)
    BY <1>5, <2>1, MovesTo DEF Goto
  <2>3. table[s].state = "USED"
    BY <1>2, <1>5, FindSlotHolds DEF Holds
  <2>4. table' \in [Slot -> Cell] /\ used_count' = Cardinality(UsedSlots(table'))
    BY <1>5, <2>3, SlotFreed DEF BaseInv, TypesInv, CountInv
  <2> QED
    BY <1>4, <2>1, <2>2, <2>4
<1>6. CASE /\ call' = [call EXCEPT ![c].pc = "unlock",
                         ![c].ptr = IF HasTombstone(table, p) THEN NoPtr ELSE p]
           /\ UNCHANGED <<table, used_count>>
  <2> DEFINE k == [call[c] EXCEPT !.pc = "unlock",
                     !.ptr = IF HasTombstone(table, p) THEN NoPtr ELSE p]
  <2>1. /\ k.pc = "unlock" /\ k.new = call[c].new /\ Shaped(k)
        /\ k.ptr = IF HasTombstone(table, p) THEN NoPtr ELSE p
    BY <1>1, <1>2, MTIsrAssumption DEF Shaped, Call, Idle
  <2>2. call' = [call EXCEPT ![c] = k]
    BY <1>6 DEF BaseInv, TypesInv, Call
  <2>3. Moves(c, k)
    BY <2>1, <2>2, MovesTo
  <2>4. table' \in [Slot -> Cell] /\ used_count' = Cardinality(UsedSlots(table'))
    BY <1>6 DEF BaseInv, TypesInv, CountInv
  <2> QED
    BY <1>4, <2>1, <2>3, <2>4
<1> QED
  BY <1>5, <1>6 DEF Untrack

(* What Retrack does to the table: the record in the slot found before the  *)
(* real realloc stays, or goes and the new address gets one if it can.      *)
LEMMA RetrackCases ==
  ASSUME BaseInv, NEW c \in Ctx, Retrack(c)
  PROVE  LET i == call[c].idx
             q == call[c].new
             t == IF i = NoSlot THEN table ELSE SlotFree(table, i)
         IN  /\ i = NoSlot \/ i \in Slot
             /\ q \in Ptr
             /\ t \in [Slot -> Cell]
             /\ \/ i # NoSlot /\ q = call[c].ptr /\ UNCHANGED <<table, used_count>>
                \/ /\ i = NoSlot \/ q # call[c].ptr
                   /\ used_count' = Cardinality(UsedSlots(table'))
                   /\ \/ \E s \in Slot : InsertSlot(t, q, s)
                                         /\ table' = Write(t, s, q)
                      \/ Full(t, q) /\ table' = t
<1> DEFINE i == call[c].idx
           q == call[c].new
           t == IF i = NoSlot THEN table ELSE SlotFree(table, i)
           n == IF i # NoSlot /\ table[i].state = "USED" THEN used_count - 1 ELSE used_count
<1>1. call[c].pc = "retrack" /\ Shaped(call[c]) /\ call[c] \in Call
  BY DEF BaseInv, TypesInv, Retrack, At
<1>2. q \in Ptr /\ (i = NoSlot \/ i \in Slot)
  BY <1>1, MTIsrAssumption DEF Shaped, Call
<1>3. table \in [Slot -> Cell] /\ used_count = Cardinality(UsedSlots(table))
  BY DEF BaseInv, TypesInv, CountInv
<1>4. t \in [Slot -> Cell] /\ n = Cardinality(UsedSlots(t))
  BY <1>2, <1>3, SlotFreed
<1>5. \/ i # NoSlot /\ q = call[c].ptr /\ UNCHANGED <<table, used_count>>
      \/ /\ i = NoSlot \/ q # call[c].ptr
         /\ \/ /\ \E s \in Slot : InsertSlot(t, q, s)
                                  /\ table' = Write(t, s, q)
               /\ used_count' = n + 1
            \/ Full(t, q) /\ table' = t /\ used_count' = n
  BY DEF Retrack, Write
<1> HIDE DEF t, n
<1>6. ASSUME NEW s \in Slot, InsertSlot(t, q, s), table' = Write(t, s, q),
             used_count' = n + 1
      PROVE  used_count' = Cardinality(UsedSlots(table'))
  BY <1>2, <1>4, <1>6, Written
<1>7. \/ i # NoSlot /\ q = call[c].ptr /\ UNCHANGED <<table, used_count>>
      \/ /\ i = NoSlot \/ q # call[c].ptr
         /\ used_count' = Cardinality(UsedSlots(table'))
         /\ \/ \E s \in Slot : InsertSlot(t, q, s)
                               /\ table' = Write(t, s, q)
            \/ Full(t, q) /\ table' = t
  BY <1>4, <1>5, <1>6
<1> QED
  BY <1>2, <1>4, <1>7 DEF t

LEMMA RetrackBase ==
  ASSUME BaseInv, NEW c \in Ctx, Retrack(c)
  PROVE  BaseInv'
<1> DEFINE k == [call[c] EXCEPT !.pc = "unlock"]
           t == IF call[c].idx = NoSlot THEN table ELSE SlotFree(table, call[c].idx)
<1>1. call[c].pc = "retrack" /\ Shaped(call[c]) /\ call[c] \in Call
  BY DEF BaseInv, TypesInv, Retrack, At
<1>2. k.pc = "unlock" /\ k.ptr = call[c].ptr /\ k.new = call[c].new /\ Shaped(k)
  BY <1>1, MTIsrAssumption DEF Shaped, Call, Idle
<1>3. Moves(c, k)
  BY <1>2, MovesTo DEF Retrack, Goto
<1>4. UNCHANGED <<inside, holder, heap, held, bypassed, recycled>>
  BY DEF Retrack, history
<1>5. LockInv' /\ GuardInv' /\ \A d \in Ctx : call'[d].pc # "record"
  BY <1>1, <1>2, <1>3, <1>4, InsideStep DEF Inside, Moves
<1>6. table' \in [Slot -> Cell] /\ used_count' = Cardinality(UsedSlots(table'))
  <2>1. ASSUME NEW s \in Slot, InsertSlot(t, call[c].new, s), call[c].new \in Ptr,
               t \in [Slot -> Cell]
        PROVE  Write(t, s, call[c].new) \in [Slot -> Cell]
    BY <2>1, Written
  <2> QED
    BY <2>1, RetrackCases DEF BaseInv, TypesInv, CountInv
<1>7. TypesInv'
  BY <1>3, <1>4, <1>6, MovesShaped DEF BaseInv, TypesInv
<1>8. CountInv'
  BY <1>5, <1>6 DEF CountInv
<1>9. OwnInv'
  BY <1>2, <1>3, <1>4, OwnedStep
<1> QED
  BY <1>5, <1>7, <1>8, <1>9 DEF BaseInv

LEMMA BeginBase ==
  ASSUME BaseInv, NEW c \in Ctx, Begin(c)
  PROVE  BaseInv'
<1>1. CASE CallMalloc(c)
  BY <1>1, EnterBase DEF CallMalloc, Enter
<1>2. ASSUME NEW p \in held, CallFree(c, p)
      PROVE  BaseInv'
  BY <1>2, EnterBase DEF CallFree, Enter
<1>3. ASSUME NEW p \in held, CallRealloc(c, p)
      PROVE  BaseInv'
  BY <1>3, EnterBase DEF CallRealloc, Enter
<1> QED
  BY <1>1, <1>2, <1>3 DEF Begin

LEMMA BaseInitially == Init => BaseInv
<1> SUFFICES ASSUME Init
             PROVE  BaseInv
  OBVIOUS
<1>1. UsedSlots(table) = {}
  BY DEF Init, UsedSlots
<1>2. used_count = Cardinality(UsedSlots(table))
  BY <1>1, FS_EmptySet DEF Init
<1>3. \A c \in Ctx : call[c] = Idle /\ Block(c) = NoPtr
  BY DEF Init, Block, Idle
<1>4. Shaped(Idle) /\ Idle \in Call /\ Idle.pc = "idle"
  BY IdleShaped DEF Shaped, Idle
<1>5. TypesInv
  BY <1>3, <1>4 DEF Init, TypesInv, Cell, SlotState
<1>6. LockInv
  BY <1>3, <1>4, MTIsrAssumption DEF Init, LockInv, Inside
<1>7. GuardInv /\ OwnInv
  BY <1>3, AllocTableAssumption DEF Init, GuardInv, OwnInv, Live
<1>8. CountInv
  BY <1>2, <1>3, <1>4 DEF CountInv
<1> QED
  BY <1>5, <1>6, <1>7, <1>8 DEF BaseInv

LEMMA BaseStutters == BaseInv /\ UNCHANGED vars => BaseInv'
BY DEF vars, history, BaseInv, TypesInv, LockInv, GuardInv, OwnInv, CountInv, Block, Live

LEMMA BaseStep == BaseInv /\ [Next]_vars => BaseInv'
<1>1. ASSUME BaseInv, NEW c \in Ctx, Begin(c) \/ Continue(c)
      PROVE  BaseInv'
  BY <1>1, BeginBase, RealMallocBase, RealFreeBase, FindOldBase, RealReallocBase,
     SetInsideBase, LockBase, TrackBase, RecordBase, UntrackBase, RetrackBase,
     UnlockBase, LeaveBase DEF Continue
<1> QED
  BY <1>1, BaseStutters DEF Next

(* The types, the lock, the guard, who owns which block and the counter,    *)
(* in every reachable state.                                                *)
THEOREM BaseInvariant == Spec => []BaseInv
BY BaseInitially, BaseStep, PTL DEF Spec

-----------------------------------------------------------------------------
(* What follows from it *)

(* However the calls overlap, and whichever of their returns they take, the *)
(* guard and the lock are clear when all of them are over (mt_core.c: every *)
(* path after g_inside = 1 and MT_LOCK reaches MT_UNLOCK and g_inside = 0). *)
THEOREM GuardIsReleased == Spec => []GuardReleased
<1>1. BaseInv => GuardReleased
  BY MTIsrAssumption DEF BaseInv, TypesInv, LockInv, GuardInv, GuardReleased, Inside, Idle
<1> QED
  BY <1>1, BaseInvariant, PTL

(* g_used_count is exact whenever nobody is under MT_LOCK (it is so under   *)
(* the lock too, where a context changes it in one step with the table).    *)
THEOREM CountIsExact == Spec => []UsedCountExact
<1>1. BaseInv => UsedCountExact
  BY DEF BaseInv, CountInv, UsedCountExact
<1> QED
  BY <1>1, BaseInvariant, PTL

(* No interleaving makes mt_free or mt_realloc give the real allocator a    *)
(* block that is not live, whatever the guard hid from the table.           *)
THEOREM RealHeapStaysIntact == Spec => []RealHeapIntact
<1>1. BaseInv => RealHeapIntact
  BY DEF BaseInv, TypesInv, RealHeapIntact
<1> QED
  BY <1>1, BaseInvariant, PTL

-----------------------------------------------------------------------------
(* The slot that mt_realloc found before MT_LOCK *)

(* Contexts interrupt one another in one direction only, as main code and   *)
(* interrupt handlers of rising priority do: whoever interrupts a call is   *)
(* done before that call goes on.                                           *)
Nested == \A c, d \in Ctx : <<c, d>> \in Preempts => <<d, c>> \notin Preempts

Found(c) == call[c].op = "realloc" /\ call[c].idx # NoSlot

(* c found the record of the block it still has *)
FoundOwn(c) == Found(c) /\ call[c].new \in {NoPtr, call[c].ptr}

(* Of two contexts in the middle of calls one interrupted the other, and    *)
(* the one on top never found the slot that the one below it relies on.     *)
NestInv ==
  /\ \A c, d \in Ctx : c # d /\ call[c] # Idle /\ call[d] # Idle =>
       <<c, d>> \in Preempts \/ <<d, c>> \in Preempts
  /\ \A c \in Ctx : FoundOwn(c) => Holds(table, call[c].idx, call[c].ptr)
  /\ \A c, d \in Ctx : d # c /\ FoundOwn(c) /\ Found(d) /\ <<d, c>> \in Preempts =>
       call[d].idx # call[c].idx

(* Only the context whose step it is moves, and only if it can run. *)
LEMMA OthersStay ==
  ASSUME BaseInv, NEW c \in Ctx, Begin(c) \/ Continue(c)
  PROVE  CanRun(c) /\ \A d \in Ctx : d # c => call'[d] = call[d]
<1>1. call \in [Ctx -> Call]
  BY DEF BaseInv, TypesInv
<1>2. CASE Begin(c)
  BY <1>1, <1>2 DEF Begin, CallMalloc, CallFree, CallRealloc, Enter, At
<1>3. CASE RealMalloc(c) \/ RealFree(c) \/ FindOld(c) \/ RealRealloc(c)
  BY <1>1, <1>3 DEF RealMalloc, RealFree, FindOld, RealRealloc, Return, Goto, At
<1>4. CASE SetInside(c) \/ Lock(c) \/ Track(c) \/ Record(c) \/ Untrack(c)
  BY <1>1, <1>4 DEF SetInside, Lock, Track, Record, Untrack, Goto, At
<1>5. CASE Retrack(c) \/ Unlock(c) \/ Leave(c)
  BY <1>1, <1>5 DEF Retrack, Unlock, Leave, Goto, Return, At
<1> QED
  BY <1>2, <1>3, <1>4, <1>5 DEF Continue

(* What a step has to respect to keep the invariant: the records that the   *)
(* contexts below c rely on, and its own.                                   *)
LEMMA NestKept ==
  ASSUME BaseInv, NestInv, Nested, NEW c \in Ctx, Begin(c) \/ Continue(c),
         \A d \in Ctx : d # c /\ FoundOwn(d) /\ <<c, d>> \in Preempts =>
           /\ Holds(table', call[d].idx, call[d].ptr)
           /\ Found(c)' => call'[c].idx # call[d].idx,
         FoundOwn(c)' => Holds(table', call'[c].idx, call'[c].ptr)
  PROVE  NestInv'
<1>1. CanRun(c) /\ \A d \in Ctx : d # c => call'[d] = call[d]
  BY OthersStay
<1>2. \A d \in Ctx : d # c /\ call[d] # Idle =>
        <<c, d>> \in Preempts /\ <<d, c>> \notin Preempts
  BY <1>1 DEF CanRun, Nested
<1>3. \A d \in Ctx : Found(d) => call[d] # Idle
  BY DEF Found, Idle
<1>4. \A d \in Ctx : d # c => (FoundOwn(d)' <=> FoundOwn(d)) /\ (Found(d)' <=> Found(d))
  BY <1>1 DEF FoundOwn, Found
<1>5. \A d \in Ctx : FoundOwn(d) => Found(d)
  BY DEF FoundOwn
<1>6. \A d, e \in Ctx : d # e /\ call'[d] # Idle /\ call'[e] # Idle =>
        <<d, e>> \in Preempts \/ <<e, d>> \in Preempts
  BY <1>1, <1>2 DEF NestInv
<1>7. \A d \in Ctx : FoundOwn(d)' => Holds(table', call'[d].idx, call'[d].ptr)
  BY <1>1, <1>2, <1>3, <1>4, <1>5
<1>8. ASSUME NEW d \in Ctx, NEW e \in Ctx, e # d, FoundOwn(d)', Found(e)',
             <<e, d>> \in Preempts
      PROVE  call'[e].idx # call'[d].idx
  <2>1. CASE d = c
    BY <1>2, <1>3, <1>4, <1>8, <2>1
  <2>2. CASE e = c
    BY <1>1, <1>4, <1>8, <2>2
  <2>3. CASE d # c /\ e # c
    BY <1>1, <1>4, <1>8, <2>3 DEF NestInv
  <2> QED
    BY <2>1, <2>2, <2>3
<1> QED
  BY <1>6, <1>7, <1>8 DEF NestInv

(* A step that leaves the table alone and what c found as it is *)
LEMMA NestQuiet ==
  ASSUME BaseInv, NestInv, Nested, NEW c \in Ctx, Begin(c) \/ Continue(c),
         table' = table,
         Found(c)' => /\ Found(c) /\ call'[c].idx = call[c].idx
                      /\ call'[c].ptr = call[c].ptr
                      /\ FoundOwn(c)' => FoundOwn(c)
  PROVE  NestInv'
<1>1. \A d \in Ctx : FoundOwn(d) => Holds(table, call[d].idx, call[d].ptr)
  BY DEF NestInv
<1>2. FoundOwn(c)' => Found(c)'
  BY DEF FoundOwn
<1>3. \A d \in Ctx : d # c /\ FoundOwn(d) /\ <<c, d>> \in Preempts /\ Found(c)' =>
        call'[c].idx # call[d].idx
  BY DEF NestInv
<1> QED
  BY <1>1, <1>2, <1>3, NestKept

(* Moving on within the call changes nothing of what was found. *)
LEMMA GotoKeeps ==
  ASSUME BaseInv, NEW c \in Ctx, NEW l, Goto(c, l)
  PROVE  /\ call'[c].op = call[c].op /\ call'[c].ptr = call[c].ptr
         /\ call'[c].new = call[c].new /\ call'[c].idx = call[c].idx
         /\ call'[c].fast = call[c].fast /\ call'[c].pc = l
         /\ Found(c)' <=> Found(c)
         /\ FoundOwn(c)' <=> FoundOwn(c)
<1>1. call \in [Ctx -> Call] /\ call[c] \in Call
  BY DEF BaseInv, TypesInv
<1>2. /\ call'[c].op = call[c].op /\ call'[c].ptr = call[c].ptr
      /\ call'[c].new = call[c].new /\ call'[c].idx = call[c].idx
      /\ call'[c].fast = call[c].fast /\ call'[c].pc = l
  BY <1>1 DEF Goto, Call
<1> QED
  BY <1>2 DEF Found, FoundOwn

LEMMA ReturnFindsNothing ==
  ASSUME BaseInv, NEW c \in Ctx, NEW B, Return(c, B)
  PROVE  call'[c] = Idle /\ ~Found(c)'
BY DEF Return, Found, Idle, BaseInv, TypesInv

(* The block in a record that a context relies on is its own. *)
LEMMA FoundBlock ==
  ASSUME BaseInv, NEW c \in Ctx, FoundOwn(c)
  PROVE  Block(c) = call[c].ptr /\ call[c].ptr \in Ptr /\ call[c].idx \in Slot
BY MTIsrAssumption, AllocTableAssumption
   DEF BaseInv, TypesInv, Shaped, Call, FoundOwn, Found, Block, OwnInv

LEMMA BeginNest ==
  ASSUME BaseInv, NestInv, Nested, NEW c \in Ctx, Begin(c)
  PROVE  NestInv'
<1>1. ASSUME NEW f, NEW p, NEW slow, Enter(c, f, p, slow)
      PROVE  table' = table /\ call'[c].idx = NoSlot
  <2>1. call'[c] = [Idle EXCEPT !.op = f, !.ptr = p, !.fast = (inside # 0),
                      !.pc = IF inside # 0 THEN RealCall[f] ELSE slow]
    BY <1>1 DEF Enter, BaseInv, TypesInv
  <2> QED
    BY <1>1, <2>1 DEF Enter, Idle
<1>2. table' = table /\ call'[c].idx = NoSlot
  BY <1>1 DEF Begin, CallMalloc, CallFree, CallRealloc
<1> QED
  BY <1>2, NestQuiet DEF Found

LEMMA QuietNest ==
  ASSUME BaseInv, NestInv, Nested, NEW c \in Ctx,
         \/ RealMalloc(c) \/ RealFree(c) \/ RealRealloc(c) \/ SetInside(c)
         \/ Lock(c) \/ Track(c) \/ Unlock(c) \/ Leave(c)
  PROVE  NestInv'
<1>0. Continue(c) /\ table' = table
  BY DEF Continue, RealMalloc, RealFree, RealRealloc, SetInside, Lock, Track, Unlock, Leave
<1>1. CASE RealMalloc(c) \/ Track(c)
  <2>1. call[c] \in Call /\ call \in [Ctx -> Call] /\ call[c].op = "malloc"
    BY <1>1, MTIsrAssumption DEF BaseInv, TypesInv, Shaped, RealMalloc, Track, At
  <2>2. ASSUME NEW q, call' = [call EXCEPT ![c].new = q, ![c].pc = "enter"]
        PROVE  call'[c].op = call[c].op
    BY <2>1, <2>2 DEF Call
  <2>3. ASSUME NEW s, call' = [call EXCEPT ![c].idx = s, ![c].pc = "record"]
        PROVE  call'[c].op = call[c].op
    BY <2>1, <2>3 DEF Call
  <2>4. call'[c].op # "realloc"
    <3>1. CASE RealMalloc(c)
      <4>1. call'[c] = Idle \/ call'[c].op = call[c].op
        BY <2>2, <3>1, ReturnFindsNothing DEF RealMalloc
      <4> QED
        BY <2>1, <4>1 DEF Idle
    <3>2. CASE Track(c)
      BY <2>1, <2>3, <3>2, GotoKeeps DEF Track
    <3> QED
      BY <1>1, <3>1, <3>2
  <2> QED
    BY <1>0, <2>4, NestQuiet DEF Found
<1>2. CASE RealFree(c)
  BY <1>0, <1>2, ReturnFindsNothing, NestQuiet DEF RealFree
<1>3. CASE SetInside(c) \/ Lock(c) \/ Unlock(c)
  BY <1>0, <1>3, GotoKeeps, NestQuiet DEF SetInside, Lock, Unlock
<1>4. CASE Leave(c)
  BY <1>0, <1>4, GotoKeeps, ReturnFindsNothing, NestQuiet DEF Leave
<1>5. CASE RealRealloc(c)
  <2>1. /\ call[c] \in Call /\ call \in [Ctx -> Call] /\ call[c].op = "realloc"
        /\ call[c].new = NoPtr
    BY <1>5, MTIsrAssumption DEF BaseInv, TypesInv, Shaped, RealRealloc, At
  <2>2. \/ call'[c] = Idle
        \/ /\ call'[c].idx = call[c].idx /\ call'[c].ptr = call[c].ptr
           /\ call'[c].op = call[c].op
    <3>1. ASSUME NEW q, call' = [call EXCEPT ![c].new = q, ![c].pc = "enter"]
          PROVE  /\ call'[c].idx = call[c].idx /\ call'[c].ptr = call[c].ptr
                 /\ call'[c].op = call[c].op
      BY <2>1, <3>1 DEF Call
    <3> QED
      BY <1>5, <3>1, ReturnFindsNothing DEF RealRealloc
  <2>3. Found(c)' => /\ Found(c) /\ call'[c].idx = call[c].idx
                     /\ call'[c].ptr = call[c].ptr
                     /\ FoundOwn(c)
    BY <2>1, <2>2 DEF Found, FoundOwn, Idle
  <2> QED
    BY <1>0, <2>3, NestQuiet
<1> QED
  BY <1>1, <1>2, <1>3, <1>4, <1>5

(* mt_find_slot finds the record of the block of c, which no other has. *)
LEMMA FindOldNest ==
  ASSUME BaseInv, NestInv, Nested, NEW c \in Ctx, FindOld(c)
  PROVE  NestInv'
<1>1. call[c].pc = "find_old" /\ call[c] \in Call /\ call \in [Ctx -> Call]
  BY DEF BaseInv, TypesInv, FindOld, At
<1>2. /\ call[c].op = "realloc" /\ call[c].ptr \in Ptr /\ call[c].new = NoPtr
      /\ call[c].idx = NoSlot
  BY <1>1, MTIsrAssumption DEF BaseInv, TypesInv, Shaped, Call
<1>3. table' = table /\ Continue(c)
  BY DEF FindOld, Continue
<1>4. CASE Goto(c, "real_realloc")
  BY <1>3, <1>4, GotoKeeps, NestQuiet
<1>5. ASSUME NEW s \in Slot, FindSlot(table, call[c].ptr, s),
             call' = [call EXCEPT ![c].idx = s, ![c].pc = "real_realloc"]
      PROVE  NestInv'
  <2>1. call'[c].idx = s /\ call'[c].ptr = call[c].ptr
    BY <1>1, <1>5 DEF Call
  <2>2. Holds(table, s, call[c].ptr)
    BY <1>2, <1>5, FindSlotHolds
  <2>3. Block(c) = call[c].ptr /\ call[c].ptr # NoPtr
    BY <1>2, AllocTableAssumption DEF Block
  <2>4. ASSUME NEW d \in Ctx, d # c, FoundOwn(d)
        PROVE  Holds(table, call[d].idx, call[d].ptr) /\ call[d].idx # s
    <3>1. Holds(table, call[d].idx, call[d].ptr) /\ Block(d) = call[d].ptr
      BY <2>4, FoundBlock DEF NestInv
    <3>2. call[d].ptr # call[c].ptr
      BY <2>3, <2>4, <3>1 DEF BaseInv, OwnInv
    <3> QED
      BY <2>2, <3>1, <3>2 DEF Holds
  <2> QED
    BY <1>3, <2>1, <2>2, <2>4, NestKept
<1> QED
  BY <1>4, <1>5 DEF FindOld

(* A new record goes to a slot that nobody relies on. *)
LEMMA RecordNest ==
  ASSUME BaseInv, NestInv, Nested, NEW c \in Ctx, Record(c)
  PROVE  NestInv'
<1>1. call[c].pc = "record" /\ call[c] \in Call
  BY DEF BaseInv, TypesInv, Record, At
<1>2. call[c].op = "malloc" /\ call[c].new \in Ptr
  BY <1>1, MTIsrAssumption, AllocTableAssumption DEF BaseInv, TypesInv, Shaped, Call
<1>3. table' = Write(table, call[c].idx, call[c].new) /\ Goto(c, "unlock") /\ Continue(c)
  BY DEF Record, Write, Continue
<1>4. ~Found(c)'
  BY <1>2, <1>3, GotoKeeps DEF Found
<1>5. InsertSlot(table, call[c].new, call[c].idx) /\ table \in [Slot -> Cell]
  BY <1>1 DEF BaseInv, CountInv, TypesInv
<1>6. ASSUME NEW d \in Ctx, FoundOwn(d)
      PROVE  Holds(table', call[d].idx, call[d].ptr)
  <2>1. Holds(table, call[d].idx, call[d].ptr) /\ call[d].idx \in Slot
    BY <1>6, FoundBlock DEF NestInv
  <2>2. call[d].idx # call[c].idx
    BY <1>2, <1>5, <2>1, InsertSlotNotUsed DEF Holds
  <2>3. table'[call[d].idx] = table[call[d].idx]
    BY <1>2, <1>3, <1>5, <2>1, <2>2, Written
  <2> QED
    BY <2>1, <2>3 DEF Holds
<1> QED
  BY <1>3, <1>4, <1>6, NestKept DEF FoundOwn

(* mt_free removes the record of its own block. *)
LEMMA UntrackNest ==
  ASSUME BaseInv, NestInv, Nested, NEW c \in Ctx, Untrack(c)
  PROVE  NestInv'
<1>1. call[c].pc = "untrack" /\ call[c] \in Call /\ call \in [Ctx -> Call]
  BY DEF BaseInv, TypesInv, Untrack, At
<1>2. call[c].op = "free" /\ call[c].ptr \in Ptr /\ call[c].new = NoPtr
  BY <1>1, MTIsrAssumption DEF BaseInv, TypesInv, Shaped, Call
<1>3. Continue(c) /\ call'[c].op = "free"
  BY <1>1, <1>2 DEF Untrack, Continue, Goto, Call
<1>4. ~Found(c)'
  BY <1>3 DEF Found
<1>5. CASE table' = table
  BY <1>3, <1>4, <1>5, NestQuiet
<1>6. ASSUME NEW s \in Slot, FindSlot(table, call[c].ptr, s), table' = SlotFree(table, s)
      PROVE  NestInv'
  <2>1. Holds(table, s, call[c].ptr) /\ table \in [Slot -> Cell]
    BY <1>2, <1>6, FindSlotHolds DEF BaseInv, TypesInv
  <2>2. Block(c) = call[c].ptr /\ call[c].ptr # NoPtr
    BY <1>2, AllocTableAssumption DEF Block
  <2>3. ASSUME NEW d \in Ctx, d # c, FoundOwn(d)
        PROVE  Holds(table', call[d].idx, call[d].ptr)
    <3>1. /\ Holds(table, call[d].idx, call[d].ptr) /\ Block(d) = call[d].ptr
          /\ call[d].idx \in Slot
      BY <2>3, FoundBlock DEF NestInv
    <3>2. call[d].ptr # call[c].ptr
      BY <2>2, <2>3, <3>1 DEF BaseInv, OwnInv
    <3>3. call[d].idx # s
      BY <2>1, <3>1, <3>2 DEF Holds
    <3>4. table'[call[d].idx] = table[call[d].idx]
      BY <1>6, <2>1, <3>1, <3>3, SlotFreed
    <3> QED
      BY <3>1, <3>4 DEF Holds
  <2> QED
    BY <1>3, <1>4, <2>3, NestKept DEF FoundOwn
<1> QED
  BY <1>5, <1>6 DEF Untrack

(* mt_realloc removes the record in the slot it found, which is not one     *)
(* that a context below it relies on.                                       *)
LEMMA RetrackNest ==
  ASSUME BaseInv, NestInv, Nested, NEW c \in Ctx, Retrack(c)
  PROVE  NestInv'
<1> DEFINE i == call[c].idx
           q == call[c].new
           t == IF i = NoSlot THEN table ELSE SlotFree(table, i)
<1>1. call[c].pc = "retrack" /\ call[c] \in Call /\ table \in [Slot -> Cell]
  BY DEF BaseInv, TypesInv, Retrack, At
<1>2. call[c].op = "realloc" /\ call[c].ptr # NoPtr /\ q # NoPtr
  BY <1>1, MTIsrAssumption DEF BaseInv, TypesInv, Shaped
<1>3. Goto(c, "unlock") /\ Continue(c)
  BY DEF Retrack, Continue
<1>4. /\ i = NoSlot \/ i \in Slot
      /\ q \in Ptr
      /\ t \in [Slot -> Cell]
      /\ \/ i # NoSlot /\ q = call[c].ptr /\ table' = table
         \/ /\ i = NoSlot \/ q # call[c].ptr
            /\ \/ \E s \in Slot : InsertSlot(t, q, s) /\ table' = Write(t, s, q)
               \/ table' = t
  BY RetrackCases
<1>5. CASE table' = table
  BY <1>3, <1>5, GotoKeeps, NestQuiet
<1>6. CASE i = NoSlot \/ q # call[c].ptr
  <2>1. ~FoundOwn(c)'
    BY <1>2, <1>3, <1>6, GotoKeeps DEF FoundOwn, Found
  <2>2. ASSUME NEW d \in Ctx, d # c, FoundOwn(d), <<c, d>> \in Preempts
        PROVE  /\ Holds(table', call[d].idx, call[d].ptr)
               /\ Found(c)' => call'[c].idx # call[d].idx
    <3>1. Holds(table, call[d].idx, call[d].ptr) /\ call[d].idx \in Slot
      BY <2>2, FoundBlock DEF NestInv
    <3>2. Found(c) => i # call[d].idx
      BY <2>2 DEF NestInv
    <3>3. t[call[d].idx] = table[call[d].idx]
      BY <1>1, <1>2, <1>4, <3>1, <3>2, SlotFreed DEF Found
    <3>4. ASSUME NEW s \in Slot, InsertSlot(t, q, s), table' = Write(t, s, q)
          PROVE  table'[call[d].idx] = t[call[d].idx]
      <4>1. s # call[d].idx
        BY <1>4, <3>1, <3>3, <3>4, InsertSlotNotUsed DEF Holds
      <4> HIDE DEF t
      <4> QED
        BY <1>4, <3>1, <3>4, <4>1, Written
    <3> HIDE DEF t
    <3>5. table'[call[d].idx] = table[call[d].idx]
      BY <1>4, <1>6, <3>3, <3>4
    <3>6. Found(c)' => call'[c].idx # call[d].idx
      BY <1>3, <3>2, GotoKeeps
    <3> QED
      BY <3>1, <3>5, <3>6 DEF Holds
  <2> QED
    BY <1>3, <2>1, <2>2, NestKept
<1> QED
  BY <1>4, <1>5, <1>6

(* Until the real allocator has moved the block, the record mt_realloc      *)
(* found without MT_LOCK is where it found it (lines 412-437), when the     *)
(* contexts are main code and interrupt handlers that nest.  Tasks that     *)
(* switch at any point are outside the hypothesis, and there it fails.      *)
THEOREM FoundSlotStaysPut ==
  ASSUME Nested
  PROVE  Spec => []FoundSlotStays
<1>1. Init => NestInv
  BY DEF Init, NestInv, FoundOwn, Found, Idle
<1>2. BaseInv /\ NestInv /\ [Next]_vars => NestInv'
  <2>1. ASSUME BaseInv, NestInv, NEW c \in Ctx, Begin(c) \/ Continue(c)
        PROVE  NestInv'
    BY <2>1, BeginNest, QuietNest, FindOldNest, RecordNest, UntrackNest, RetrackNest
       DEF Continue
  <2>2. NestInv /\ UNCHANGED vars => NestInv'
    BY DEF vars, NestInv, FoundOwn, Found
  <2> QED
    BY <2>1, <2>2 DEF Next
<1>3. NestInv => FoundSlotStays
  BY DEF NestInv, FoundSlotStays, FoundOwn, Found
<1> QED
  BY <1>1, <1>2, <1>3, BaseInvariant, PTL DEF Spec

-----------------------------------------------------------------------------
(* The records, as long as neither of the two races has happened *)

Recorded(t, p) == \E s \in UsedSlots(t) : t[s].ptr = p

(* The real realloc moved the block of c and its old record is still there. *)
Moved(c) ==
  /\ call[c].op = "realloc"
  /\ call[c].pc \in {"enter", "lock", "retrack"}
  /\ call[c].new # call[c].ptr

(* What the rest of a call takes for granted about the table t: a block     *)
(* that is to get a record has none, one that goes to the real free has     *)
(* none any more, and the slot that mt_realloc found is still its own.      *)
Sound(t, k) ==
  /\ ~k.fast
  /\ k.op = "malloc" /\ k.pc \in {"enter", "lock", "track", "record"} =>
       ~Recorded(t, k.new)
  /\ k.op = "free" /\ k.pc \in {"unlock", "leave", "real_free"} /\ k.ptr # NoPtr =>
       ~Recorded(t, k.ptr)
  /\ k.op = "realloc" /\ k.pc \in {"real_realloc", "enter", "lock", "retrack"} =>
       /\ k.idx # NoSlot => Holds(t, k.idx, k.ptr)
       /\ k.idx = NoSlot => ~Recorded(t, k.ptr)
  /\ k.op = "realloc" /\ k.pc \in {"enter", "lock", "retrack"} /\ k.new # k.ptr =>
       ~Recorded(t, k.new)

Clean == ~bypassed /\ ~recycled

RecordsLive == \A s \in UsedSlots(table) : table[s].ptr \in Live \cup Moving

MovesApart ==
  \A c \in Ctx : Moved(c) =>
    /\ call[c].ptr \notin Live
    /\ \A d \in Ctx : Moved(d) /\ call[d].ptr = call[c].ptr => d = c

RaceInv ==
  Clean => /\ TableInv(table)
           /\ RecordsLive
           /\ MovesApart
           /\ \A c \in Ctx : Sound(table, call[c])

LEMMA MovingIff == \A p : p \in Moving <=> \E c \in Ctx : Moved(c) /\ call[c].ptr = p
BY DEF Moving, Moved

LEMMA MovingIffNext ==
  \A p : p \in Moving' <=> \E c \in Ctx : Moved(c)' /\ call'[c].ptr = p
BY DEF Moving, Moved

(* The addresses that Sound speaks of *)
Uses(k) ==
  {k.new} \cup (IF k.op = "realloc" /\ k.pc \in {"unlock", "leave"} THEN {} ELSE {k.ptr})

(* A change of the records of other addresses does not concern a call. *)
LEMMA SoundKept ==
  ASSUME NEW t, NEW u, NEW k, Shaped(k), Sound(t, k), NEW X, Uses(k) \cap X = {},
         \A p : p \notin X /\ Recorded(u, p) => Recorded(t, p),
         \A s \in UsedSlots(t) : t[s].ptr \notin X =>
           s \in UsedSlots(u) /\ u[s].ptr = t[s].ptr
  PROVE  Sound(u, k)
<1>1. k.new \notin X
  BY DEF Uses
<1>2. k.op # "realloc" \/ k.pc \notin {"unlock", "leave"} => k.ptr \notin X
  BY DEF Uses
<1>3. k.idx # NoSlot => k.idx \in Slot
  BY DEF Shaped, Call
<1>4. /\ k.op = "realloc" /\ k.pc \in {"real_realloc", "enter", "lock", "retrack"}
      /\ k.idx # NoSlot
      => Holds(u, k.idx, k.ptr)
  BY <1>2, <1>3 DEF Sound, Holds, UsedSlots
<1> QED
  BY <1>1, <1>2, <1>4 DEF Sound

(* The block that is on its way through the call of c is nothing to the     *)
(* other calls.                                                             *)
LEMMA BlockApart ==
  ASSUME BaseInv, RaceInv, Clean, NEW c \in Ctx, NEW d \in Ctx, d # c,
         Block(c) # NoPtr
  PROVE  Block(c) \notin Uses(call[d])
<1>1. Block(c) \in Live /\ Block(d) # Block(c)
  BY DEF BaseInv, OwnInv
<1>2. Shaped(call[d])
  BY DEF BaseInv, TypesInv
<1>3. call[d].new # Block(c)
  BY <1>1 DEF Block
<1>4. ASSUME call[d].ptr = Block(c), call[d].op # "realloc" \/ call[d].pc \notin {"unlock", "leave"}
      PROVE  FALSE
  <2>1. call[d].new # NoPtr /\ call[d].new # call[d].ptr
    BY <1>1, <1>4 DEF Block
  <2>2. call[d].op = "realloc" /\ call[d].pc \in {"enter", "lock", "retrack"}
    <3>1. call[d].pc # "idle"
      BY <1>2, <2>1 DEF Shaped, Idle
    <3>2. call[d].op \in {"malloc", "free", "realloc"}
      BY <1>2, <3>1, MTIsrAssumption DEF Shaped
    <3> QED
      BY <1>2, <1>4, <2>1, <3>2 DEF Shaped
  <2>3. Moved(d)
    BY <2>1, <2>2 DEF Moved
  <2> QED
    BY <1>1, <1>4, <2>3 DEF RaceInv, MovesApart
<1> QED
  BY <1>3, <1>4 DEF Uses

(* Nor is the address that a moved block left. *)
LEMMA MovedApart ==
  ASSUME BaseInv, RaceInv, Clean, NEW c \in Ctx, NEW d \in Ctx, d # c, Moved(c)
  PROVE  call[c].ptr \notin Uses(call[d])
<1>1. call[c].ptr \notin Live /\ (Moved(d) => call[d].ptr # call[c].ptr)
  BY DEF RaceInv, MovesApart
<1>2. Shaped(call[d]) /\ call[c].ptr # NoPtr
  BY DEF BaseInv, TypesInv, Shaped, Moved
<1>3. Block(d) # NoPtr => Block(d) \in Live
  BY DEF BaseInv, OwnInv
<1>4. call[d].new # call[c].ptr
  BY <1>1, <1>2, <1>3 DEF Block
<1>5. ASSUME call[d].ptr = call[c].ptr,
             call[d].op # "realloc" \/ call[d].pc \notin {"unlock", "leave"}
      PROVE  FALSE
  <2>1. call[d].new # NoPtr /\ call[d].new # call[d].ptr
    BY <1>1, <1>2, <1>3, <1>5 DEF Block
  <2>2. call[d].op = "realloc" /\ call[d].pc \in {"enter", "lock", "retrack"}
    <3>1. call[d].pc # "idle"
      BY <1>2, <2>1 DEF Shaped, Idle
    <3>2. call[d].op \in {"malloc", "free", "realloc"}
      BY <1>2, <3>1, MTIsrAssumption DEF Shaped
    <3> QED
      BY <1>2, <1>5, <2>1, <3>2 DEF Shaped
  <2> QED
    BY <1>1, <1>5, <2>1, <2>2 DEF Moved
<1> QED
  BY <1>4, <1>5 DEF Uses

(* A step of c that changes neither the table nor the heap, nor which       *)
(* blocks have moved.                                                       *)
LEMMA RaceQuiet ==
  ASSUME BaseInv, RaceInv, NEW c \in Ctx, Begin(c) \/ Continue(c),
         table' = table, heap' = heap, Clean' => Clean,
         Moved(c)' <=> Moved(c), Moved(c) => call'[c].ptr = call[c].ptr,
         Clean' => Sound(table, call'[c])
  PROVE  RaceInv'
<1> SUFFICES ASSUME Clean'
             PROVE  /\ TableInv(table')
                    /\ RecordsLive'
                    /\ MovesApart'
                    /\ \A d \in Ctx : Sound(table', call'[d])
  BY DEF RaceInv
<1>1. Clean
  OBVIOUS
<1>2. \A d \in Ctx : d # c => call'[d] = call[d]
  BY OthersStay
<1>3. \A d \in Ctx : (Moved(d)' <=> Moved(d)) /\ (Moved(d) => call'[d].ptr = call[d].ptr)
  BY <1>2 DEF Moved
<1>4. Live' = Live
  BY DEF Live
<1>5. \A p : p \in Moving' <=> p \in Moving
  BY <1>3, MovingIff, MovingIffNext
<1>6. RecordsLive'
  BY <1>1, <1>4, <1>5 DEF RaceInv, RecordsLive
<1>7. MovesApart'
  BY <1>1, <1>3, <1>4 DEF RaceInv, MovesApart
<1> QED
  BY <1>1, <1>2, <1>6, <1>7 DEF RaceInv

LEMMA SoundIdle == \A t : Sound(t, Idle)
BY DEF Sound, Idle

LEMMA BeginRace ==
  ASSUME BaseInv, RaceInv, NEW c \in Ctx, Begin(c)
  PROVE  RaceInv'
<1>1. ASSUME NEW f, NEW p, NEW slow, Enter(c, f, p, slow),
             \/ f = "malloc" /\ slow = "real_malloc"
             \/ f = "free" /\ slow = "enter"
             \/ f = "realloc" /\ slow = "find_old"
      PROVE  RaceInv'
  <2>1. call'[c] = [Idle EXCEPT !.op = f, !.ptr = p, !.fast = (inside # 0),
                      !.pc = IF inside # 0 THEN RealCall[f] ELSE slow]
    BY <1>1 DEF Enter, BaseInv, TypesInv
  <2>2. /\ call'[c].op = f /\ call'[c].new = NoPtr
        /\ call'[c].fast = (inside # 0)
        /\ inside = 0 => call'[c].pc = slow
        /\ inside # 0 => call'[c].pc = RealCall[f]
    BY <2>1 DEF Idle
  <2>3. Clean' => Clean /\ inside = 0
    BY <1>1 DEF Enter, Clean, BaseInv, TypesInv
  <2>4. Clean' => Sound(table, call'[c])
    BY <1>1, <2>2, <2>3 DEF Sound
  <2>5. f = "realloc" => RealCall[f] = "real_realloc"
    BY DEF RealCall
  <2>6. ~Moved(c)'
    BY <1>1, <2>2, <2>5 DEF Moved
  <2>7. call[c].pc = "idle"
    BY <1>1 DEF Enter, At
  <2>8. ~Moved(c)
    BY <2>7 DEF Moved
  <2>9. table' = table /\ heap' = heap
    BY <1>1 DEF Enter
  <2> QED
    BY <2>3, <2>4, <2>6, <2>8, <2>9, RaceQuiet
<1> QED
  BY <1>1 DEF Begin, CallMalloc, CallFree, CallRealloc

(* The steps on the way to MT_LOCK and back change neither. *)
LEMMA QuietRace ==
  ASSUME BaseInv, RaceInv, NEW c \in Ctx,
         SetInside(c) \/ Lock(c) \/ Unlock(c) \/ Leave(c)
  PROVE  RaceInv'
<1>0. /\ Continue(c) /\ table' = table /\ heap' = heap
      /\ bypassed' = bypassed /\ recycled' = recycled
  BY DEF Continue, SetInside, Lock, Unlock, Leave, history
<1>1. Shaped(call[c])
  BY DEF BaseInv, TypesInv
<1>2. Clean' => Clean /\ Sound(table, call[c])
  BY <1>0 DEF Clean, RaceInv
<1>3. ASSUME NEW l, Goto(c, l),
             \/ call[c].pc = "enter" /\ l = "lock"
             \/ call[c].pc = "lock" /\ l = Body[call[c].op]
             \/ call[c].pc = "unlock" /\ l = "leave"
             \/ call[c].pc = "leave" /\ l = "real_free" /\ call[c].op = "free"
      PROVE  RaceInv'
  <2>1. /\ call'[c].op = call[c].op /\ call'[c].ptr = call[c].ptr
        /\ call'[c].new = call[c].new /\ call'[c].idx = call[c].idx
        /\ call'[c].fast = call[c].fast /\ call'[c].pc = l
    BY <1>3, GotoKeeps
  <2>2. call[c].op \in {"malloc", "free", "realloc"}
    BY <1>1, <1>3, MTIsrAssumption DEF Shaped
  <2>3. /\ call[c].op = "malloc" => Body[call[c].op] = "track"
        /\ call[c].op = "free" => Body[call[c].op] = "untrack"
        /\ call[c].op = "realloc" => Body[call[c].op] = "retrack"
    BY DEF Body
  <2>4. Moved(c)' <=> Moved(c)
    BY <1>1, <1>3, <2>1, <2>2, <2>3 DEF Moved, Shaped
  <2>5. Clean' => Sound(table, call'[c])
    BY <1>1, <1>2, <1>3, <2>1, <2>2, <2>3 DEF Sound, Shaped
  <2> QED
    BY <1>0, <1>2, <2>1, <2>4, <2>5, RaceQuiet
<1>4. ASSUME call[c].pc = "leave", NEW B, Return(c, B)
      PROVE  RaceInv'
  <2>1. call'[c] = Idle
    BY <1>4, ReturnFindsNothing
  <2>2. ~Moved(c) /\ ~Moved(c)'
    BY <1>4, <2>1 DEF Moved, Idle
  <2> QED
    BY <1>0, <1>2, <2>1, <2>2, SoundIdle, RaceQuiet
<1> QED
  BY <1>3, <1>4 DEF SetInside, Lock, Unlock, Leave, At

LEMMA TrackRace ==
  ASSUME BaseInv, RaceInv, NEW c \in Ctx, Track(c)
  PROVE  RaceInv'
<1>0. /\ Continue(c) /\ table' = table /\ heap' = heap
      /\ bypassed' = bypassed /\ recycled' = recycled
  BY DEF Continue, Track, history
<1>1. call[c].pc = "track" /\ call[c].op = "malloc" /\ call[c] \in Call
  BY MTIsrAssumption DEF BaseInv, TypesInv, Shaped, Track, At
<1>2. Clean' => Clean /\ Sound(table, call[c])
  BY <1>0 DEF Clean, RaceInv
<1>3. /\ call'[c].op = call[c].op /\ call'[c].ptr = call[c].ptr
      /\ call'[c].new = call[c].new /\ call'[c].fast = call[c].fast
      /\ call'[c].pc \in {"record", "unlock"}
  <2>1. CASE Goto(c, "unlock")
    BY <2>1, GotoKeeps
  <2>2. ASSUME NEW s \in Slot, call' = [call EXCEPT ![c].idx = s, ![c].pc = "record"]
        PROVE  /\ call'[c].op = call[c].op /\ call'[c].ptr = call[c].ptr
               /\ call'[c].new = call[c].new /\ call'[c].fast = call[c].fast
               /\ call'[c].pc = "record"
    BY <1>1, <2>2 DEF BaseInv, TypesInv, Call
  <2> QED
    BY <2>1, <2>2 DEF Track
<1>4. Clean' => Sound(table, call'[c])
  BY <1>1, <1>2, <1>3 DEF Sound
<1>5. ~Moved(c) /\ ~Moved(c)'
  BY <1>1, <1>3 DEF Moved
<1> QED
  BY <1>0, <1>2, <1>4, <1>5, RaceQuiet

(* mt_realloc's search: the table says whether the block has a record. *)
LEMMA FindOldRace ==
  ASSUME BaseInv, RaceInv, NEW c \in Ctx, FindOld(c)
  PROVE  RaceInv'
<1>0. /\ Continue(c) /\ table' = table /\ heap' = heap
      /\ bypassed' = bypassed /\ recycled' = recycled
  BY DEF Continue, FindOld, history
<1>1. call[c].pc = "find_old" /\ call[c] \in Call /\ call \in [Ctx -> Call]
  BY DEF BaseInv, TypesInv, FindOld, At
<1>2. /\ call[c].op = "realloc" /\ call[c].ptr \in Ptr /\ call[c].new = NoPtr
      /\ call[c].idx = NoSlot
  BY <1>1, MTIsrAssumption DEF BaseInv, TypesInv, Shaped, Call
<1>3. Clean' => Clean /\ Sound(table, call[c]) /\ TableInv(table)
  BY <1>0 DEF Clean, RaceInv
<1>4. /\ call'[c].op = call[c].op /\ call'[c].ptr = call[c].ptr
      /\ call'[c].fast = call[c].fast /\ call'[c].pc = "real_realloc"
      /\ \/ call'[c].idx = NoSlot /\ ~Tracked(table, call[c].ptr)
         \/ call'[c].idx \in Slot /\ Holds(table, call'[c].idx, call[c].ptr)
  <2>1. CASE ~Tracked(table, call[c].ptr) /\ Goto(c, "real_realloc")
    BY <1>2, <2>1, GotoKeeps
  <2>2. ASSUME NEW s \in Slot, FindSlot(table, call[c].ptr, s),
               call' = [call EXCEPT ![c].idx = s, ![c].pc = "real_realloc"]
        PROVE  /\ call'[c].op = call[c].op /\ call'[c].ptr = call[c].ptr
               /\ call'[c].fast = call[c].fast /\ call'[c].pc = "real_realloc"
               /\ call'[c].idx = s /\ Holds(table, s, call[c].ptr)
    <3>1. Holds(table, s, call[c].ptr)
      BY <1>2, <2>2, FindSlotHolds
    <3>2. /\ call'[c].op = call[c].op /\ call'[c].ptr = call[c].ptr
          /\ call'[c].fast = call[c].fast /\ call'[c].pc = "real_realloc"
          /\ call'[c].idx = s
      BY <1>1, <2>2 DEF Call
    <3> QED
      BY <3>1, <3>2
  <2> QED
    BY <2>1, <2>2 DEF FindOld
<1>5. ASSUME Clean'
      PROVE  Sound(table, call'[c])
  <2>1. Tracked(table, call[c].ptr) <=> Recorded(table, call[c].ptr)
    BY <1>2, <1>3, <1>5, TrackedIff DEF Recorded
  <2>2. NoSlot \notin Slot
    BY AllocTableAssumption DEF NoSlot, Slot
  <2> QED
    BY <1>2, <1>3, <1>4, <1>5, <2>1, <2>2 DEF Sound
<1>6. ~Moved(c) /\ ~Moved(c)'
  BY <1>1, <1>4 DEF Moved
<1> QED
  BY <1>0, <1>3, <1>5, <1>6, RaceQuiet

(* A block the real allocator hands out has no record: the records are of   *)
(* live blocks, or of moved ones, whose addresses are not handed out here.  *)
LEMMA FreshUnrecorded ==
  ASSUME RaceInv, Clean, NEW p \in Available, p \notin Moving
  PROVE  ~Recorded(table, p) /\ p \notin Live
BY DEF RaceInv, RecordsLive, Recorded, Available, Live

LEMMA RealMallocRace ==
  ASSUME BaseInv, RaceInv, NEW c \in Ctx, RealMalloc(c)
  PROVE  RaceInv'
<1>0. Continue(c) /\ table' = table /\ bypassed' = bypassed
  BY DEF Continue, RealMalloc
<1>1. /\ call[c].pc = "real_malloc" /\ call[c].op = "malloc" /\ call[c] \in Call
      /\ call \in [Ctx -> Call] /\ call[c].ptr = NoPtr
  BY MTIsrAssumption DEF BaseInv, TypesInv, Shaped, RealMalloc, At
<1>2. ~Moved(c)
  BY <1>1 DEF Moved
<1>3. CASE Return(c, {}) /\ UNCHANGED <<heap, recycled>>
  <2>1. call'[c] = Idle
    BY <1>3, ReturnFindsNothing
  <2>2. ~Moved(c)'
    BY <2>1 DEF Moved, Idle
  <2>3. Clean' => Clean
    BY <1>0, <1>3 DEF Clean
  <2> QED
    BY <1>0, <1>2, <1>3, <2>1, <2>2, <2>3, SoundIdle, RaceQuiet
<1>4. ASSUME NEW p \in Available,
             heap' = [heap EXCEPT ![p] = "live"],
             recycled' = (recycled \/ p \in Moving),
             \/ call[c].fast /\ Return(c, {p})
             \/ /\ ~call[c].fast
                /\ call' = [call EXCEPT ![c].new = p, ![c].pc = "enter"]
      PROVE  RaceInv'
  <2> SUFFICES ASSUME Clean'
               PROVE  /\ TableInv(table')
                      /\ RecordsLive'
                      /\ MovesApart'
                      /\ \A d \in Ctx : Sound(table', call'[d])
    BY DEF RaceInv
  <2>1. Clean /\ p \notin Moving
    BY <1>0, <1>4 DEF Clean, BaseInv, TypesInv
  <2>2. Live' = Live \cup {p}
    BY <1>4 DEF BaseInv, TypesInv, Live, Available
  <2>3. \A d \in Ctx : d # c => call'[d] = call[d]
    BY <1>0, OthersStay
  <2>4. ~call[c].fast
    BY <2>1 DEF RaceInv, Sound
  <2>5. /\ call'[c].op = "malloc" /\ call'[c].fast = FALSE /\ call'[c].new = p
        /\ call'[c].pc = "enter"
    BY <1>1, <1>4, <2>4 DEF Call
  <2>6. Sound(table, call'[c])
    BY <2>1, <2>5, FreshUnrecorded DEF Sound
  <2>7. \A d \in Ctx : (Moved(d)' <=> Moved(d)) /\ (Moved(d) => call'[d].ptr = call[d].ptr)
    BY <1>2, <2>3, <2>5 DEF Moved
  <2>8. \A a : a \in Moving' <=> a \in Moving
    BY <2>7, MovingIff, MovingIffNext
  <2>9. RecordsLive'
    BY <1>0, <2>1, <2>2, <2>8 DEF RaceInv, RecordsLive
  <2>10. MovesApart'
    BY <2>1, <2>2, <2>7, MovingIff DEF RaceInv, MovesApart
  <2> QED
    BY <1>0, <2>1, <2>3, <2>6, <2>9, <2>10 DEF RaceInv
<1> QED
  BY <1>3, <1>4 DEF RealMalloc

(* The block that goes to the real free has lost its record before. *)
LEMMA RealFreeRace ==
  ASSUME BaseInv, RaceInv, NEW c \in Ctx, RealFree(c)
  PROVE  RaceInv'
<1> DEFINE p == call[c].ptr
<1>0. /\ Continue(c) /\ table' = table
      /\ bypassed' = bypassed /\ recycled' = recycled
  BY DEF Continue, RealFree, history
<1>1. /\ call[c].pc = "real_free" /\ call[c].op = "free" /\ p # NoPtr
  BY MTIsrAssumption DEF BaseInv, TypesInv, Shaped, RealFree, At
<1> SUFFICES ASSUME Clean'
             PROVE  /\ TableInv(table')
                    /\ RecordsLive'
                    /\ MovesApart'
                    /\ \A d \in Ctx : Sound(table', call'[d])
  BY DEF RaceInv
<1>2. Clean
  BY <1>0 DEF Clean
<1>3. Sound(table, call[c])
  BY <1>2 DEF RaceInv
<1>4. ~Recorded(table, p)
  BY <1>1, <1>3 DEF Sound
<1>5. Live' \subseteq Live /\ \A a \in Live : a # p => a \in Live'
  BY DEF RealFree, BaseInv, TypesInv, Live
<1>6. call'[c] = Idle /\ \A d \in Ctx : d # c => call'[d] = call[d]
  BY <1>0, OthersStay, ReturnFindsNothing DEF RealFree
<1>7. ~Moved(c) /\ ~Moved(c)'
  BY <1>1, <1>6 DEF Moved, Idle
<1>8. \A d \in Ctx : (Moved(d)' <=> Moved(d)) /\ (Moved(d) => call'[d].ptr = call[d].ptr)
  BY <1>6, <1>7 DEF Moved
<1>9. \A a : a \in Moving' <=> a \in Moving
  BY <1>8, MovingIff, MovingIffNext
<1>10. RecordsLive'
  BY <1>0, <1>2, <1>4, <1>5, <1>9 DEF RaceInv, RecordsLive, Recorded
<1>11. MovesApart'
  BY <1>2, <1>5, <1>8 DEF RaceInv, MovesApart
<1> QED
  BY <1>0, <1>2, <1>6, <1>10, <1>11, SoundIdle DEF RaceInv

LEMMA RealReallocRace ==
  ASSUME BaseInv, RaceInv, NEW c \in Ctx, RealRealloc(c)
  PROVE  RaceInv'
<1> DEFINE p == call[c].ptr
<1>0. Continue(c) /\ table' = table /\ bypassed' = bypassed
  BY DEF Continue, RealRealloc
<1>1. /\ call[c].pc = "real_realloc" /\ call[c].op = "realloc" /\ call[c] \in Call
      /\ call \in [Ctx -> Call] /\ p # NoPtr /\ call[c].new = NoPtr
  BY MTIsrAssumption DEF BaseInv, TypesInv, Shaped, RealRealloc, At
<1>2. ~Moved(c)
  BY <1>1 DEF Moved
<1>3. CASE Return(c, {p}) /\ UNCHANGED <<heap, recycled>>
  <2>1. call'[c] = Idle
    BY <1>3, ReturnFindsNothing
  <2>2. ~Moved(c)'
    BY <2>1 DEF Moved, Idle
  <2>3. Clean' => Clean
    BY <1>0, <1>3 DEF Clean
  <2> QED
    BY <1>0, <1>2, <1>3, <2>1, <2>2, <2>3, SoundIdle, RaceQuiet
<1>4. ASSUME NEW q \in Available \cup {p},
             heap' = [heap EXCEPT ![p] = IF @ = "live" THEN "freed" ELSE "corrupted",
                                  ![q] = "live"],
             recycled' = (recycled \/ q \in Moving),
             \/ call[c].fast /\ Return(c, {q})
             \/ /\ ~call[c].fast
                /\ call' = [call EXCEPT ![c].new = q, ![c].pc = "enter"]
      PROVE  RaceInv'
  <2> SUFFICES ASSUME Clean'
               PROVE  /\ TableInv(table')
                      /\ RecordsLive'
                      /\ MovesApart'
                      /\ \A d \in Ctx : Sound(table', call'[d])
    BY DEF RaceInv
  <2>1. Clean /\ q \notin Moving
    BY <1>0, <1>4 DEF Clean, BaseInv, TypesInv
  <2>2. p \in Live /\ p \in Ptr
    BY <1>1 DEF Block, BaseInv, OwnInv, Live
  <2>3. Live' = (Live \ {p}) \cup {q}
    BY <1>4, <2>2 DEF BaseInv, TypesInv, Live, Available
  <2>4. \A d \in Ctx : d # c => call'[d] = call[d]
    BY <1>0, OthersStay
  <2>5. ~call[c].fast /\ Sound(table, call[c])
    BY <2>1 DEF RaceInv, Sound
  <2>6. /\ call'[c].op = "realloc" /\ call'[c].fast = FALSE /\ call'[c].new = q
        /\ call'[c].pc = "enter" /\ call'[c].ptr = p /\ call'[c].idx = call[c].idx
    BY <1>1, <1>4, <2>5 DEF Call
  <2>7. q # p => ~Recorded(table, q) /\ q \notin Live
    BY <1>4, <2>1, FreshUnrecorded
  <2>8. Sound(table, call'[c])
    BY <1>1, <2>5, <2>6, <2>7 DEF Sound
  <2>9. Moved(c)' <=> q # p
    BY <2>6 DEF Moved
  <2>10. \A d \in Ctx : d # c => (Moved(d)' <=> Moved(d)) /\ call'[d].ptr = call[d].ptr
    BY <2>4 DEF Moved
  <2>11. \A a : a \in Moving' <=> a \in Moving \/ (q # p /\ a = p)
    BY <1>2, <2>6, <2>9, <2>10, MovingIff, MovingIffNext
  <2>12. RecordsLive'
    BY <1>0, <2>1, <2>3, <2>11 DEF RaceInv, RecordsLive
  <2>13. ASSUME NEW d \in Ctx, Moved(d)'
         PROVE  /\ call'[d].ptr \notin Live'
                /\ \A e \in Ctx : Moved(e)' /\ call'[e].ptr = call'[d].ptr => e = d
    <3>1. \A e \in Ctx : e # c /\ Moved(e)' => call[e].ptr \notin Live /\ call[e].ptr # q
      BY <2>1, <2>10, MovingIff DEF RaceInv, MovesApart
    <3>2. CASE d = c
      BY <2>2, <2>3, <2>6, <2>9, <2>10, <2>13, <3>1, <3>2
    <3>3. CASE d # c
      BY <2>1, <2>2, <2>3, <2>6, <2>10, <2>13, <3>1, <3>3 DEF RaceInv, MovesApart
    <3> QED
      BY <3>2, <3>3
  <2>14. MovesApart'
    BY <2>13 DEF MovesApart
  <2> QED
    BY <1>0, <2>1, <2>4, <2>8, <2>12, <2>14 DEF RaceInv
<1> QED
  BY <1>3, <1>4 DEF RealRealloc

(* A step under the lock that changes records of addresses in X only, which *)
(* are nothing to the other calls.                                          *)
LEMMA RaceTable ==
  ASSUME BaseInv, RaceInv, Clean, NEW c \in Ctx, Begin(c) \/ Continue(c),
         heap' = heap, NEW X, \A d \in Ctx : d # c => Uses(call[d]) \cap X = {},
         \A p : p \notin X /\ Recorded(table', p) => Recorded(table, p),
         \A s \in UsedSlots(table) : table[s].ptr \notin X =>
           s \in UsedSlots(table') /\ table'[s].ptr = table[s].ptr,
         TableInv(table'), RecordsLive', ~Moved(c)', Sound(table', call'[c])
  PROVE  RaceInv'
<1>1. \A d \in Ctx : d # c => call'[d] = call[d]
  BY OthersStay
<1>2. \A d \in Ctx : Moved(d)' => Moved(d) /\ call'[d].ptr = call[d].ptr
  BY <1>1 DEF Moved
<1>3. Live' = Live
  BY DEF Live
<1>4. MovesApart'
  BY <1>2, <1>3 DEF RaceInv, MovesApart
<1>5. ASSUME NEW d \in Ctx, d # c
      PROVE  Sound(table', call'[d])
  <2>1. Sound(table, call[d]) /\ Shaped(call[d])
    BY DEF RaceInv, BaseInv, TypesInv
  <2>2. Sound(table', call[d])
    BY <1>5, <2>1, SoundKept
  <2> QED
    BY <1>1, <1>5, <2>2
<1> QED
  BY <1>4, <1>5 DEF RaceInv

(* A record for the block q, which has none in t, in a table without races. *)
LEMMA WriteFresh ==
  ASSUME NEW t \in [Slot -> Cell], TableInv(t), NEW q \in Ptr, ~Recorded(t, q),
         NEW s, InsertSlot(t, q, s)
  PROVE  /\ TableInv(Write(t, s, q))
         /\ \A p : Recorded(Write(t, s, q), p) <=> Recorded(t, p) \/ p = q
         /\ \A v \in UsedSlots(t) :
              v \in UsedSlots(Write(t, s, q)) /\ Write(t, s, q)[v] = t[v]
<1> DEFINE u == Write(t, s, q)
<1>1. /\ s \in Slot /\ s \notin UsedSlots(t)
      /\ u[s] = Used(q) /\ \A v \in Slot : v # s => u[v] = t[v]
      /\ UsedSlots(u) = UsedSlots(t) \cup {s}
  <2>1. s \in Slot /\ s \notin UsedSlots(t)
    BY InsertSlotNotUsed DEF UsedSlots
  <2> QED
    BY <2>1, Written
<1> HIDE DEF u
<1>2. Inserted(t, u, q, s)
  BY <1>1 DEF Inserted, Used, Recorded
<1>3. TableInv(u)
  BY <1>1, <1>2, InsertKeepsInv
<1>4. \A v \in UsedSlots(t) : v \in UsedSlots(u) /\ u[v] = t[v]
  BY <1>1 DEF UsedSlots
<1>5. \A p : Recorded(u, p) <=> Recorded(t, p) \/ p = q
  BY <1>1, <1>4 DEF Recorded, Used
<1> QED
  BY <1>3, <1>4, <1>5 DEF u

(* Freeing the record of p. *)
LEMMA FreeRecord ==
  ASSUME NEW t \in [Slot -> Cell], TableInv(t), NEW p, NEW s \in Slot, Holds(t, s, p)
  PROVE  /\ TableInv(SlotFree(t, s))
         /\ \A a : Recorded(SlotFree(t, s), a) <=> Recorded(t, a) /\ a # p
         /\ \A v \in UsedSlots(t) : t[v].ptr # p =>
              v \in UsedSlots(SlotFree(t, s)) /\ SlotFree(t, s)[v] = t[v]
<1> DEFINE u == SlotFree(t, s)
<1>1. /\ \A v \in Slot : v # s => u[v] = t[v]
      /\ UsedSlots(u) = UsedSlots(t) \ {s}
      /\ u[s].state = "TOMBSTONE"
  BY SlotFreed DEF Holds
<1> HIDE DEF u
<1>2. TableInv(u)
  BY <1>1, FreeKeepsInv
<1>3. \A v \in UsedSlots(t) : t[v].ptr = p => v = s
  BY DEF TableInv, Holds, UsedSlots
<1>4. \A v \in UsedSlots(t) : v # s => v \in UsedSlots(u) /\ u[v] = t[v]
  BY <1>1 DEF UsedSlots
<1>5. \A v \in UsedSlots(u) : v \in UsedSlots(t) /\ v # s /\ u[v] = t[v]
  BY <1>1 DEF UsedSlots
<1>6. t[s].ptr = p
  BY DEF Holds
<1>7. \A a : Recorded(u, a) <=> Recorded(t, a) /\ a # p
  BY <1>3, <1>4, <1>5, <1>6 DEF Recorded
<1> QED
  BY <1>2, <1>4, <1>6, <1>7 DEF u

LEMMA RecordRace ==
  ASSUME BaseInv, RaceInv, NEW c \in Ctx, Record(c)
  PROVE  RaceInv'
<1> DEFINE q == call[c].new
<1>0. /\ Continue(c) /\ heap' = heap /\ bypassed' = bypassed /\ recycled' = recycled
      /\ Goto(c, "unlock") /\ table' = Write(table, call[c].idx, q)
  BY DEF Continue, Record, history, Write
<1>1. /\ call[c].pc = "record" /\ call[c].op = "malloc" /\ call[c] \in Call /\ q \in Ptr
      /\ Block(c) = q /\ q # NoPtr
  BY MTIsrAssumption, AllocTableAssumption
     DEF BaseInv, TypesInv, Shaped, Call, Record, At, Block
<1> SUFFICES ASSUME Clean'
             PROVE  RaceInv'
  BY DEF RaceInv
<1>2. Clean
  BY <1>0 DEF Clean
<1>3. TableInv(table) /\ RecordsLive /\ Sound(table, call[c]) /\ table \in [Slot -> Cell]
  BY <1>2 DEF RaceInv, BaseInv, TypesInv
<1>4. ~Recorded(table, q) /\ InsertSlot(table, q, call[c].idx)
  BY <1>1, <1>3 DEF Sound, BaseInv, CountInv
<1>5. /\ TableInv(table')
      /\ \A p : Recorded(table', p) <=> Recorded(table, p) \/ p = q
      /\ \A v \in UsedSlots(table) : v \in UsedSlots(table') /\ table'[v] = table[v]
  BY <1>0, <1>1, <1>3, <1>4, WriteFresh
<1>6. /\ call'[c].op = "malloc" /\ call'[c].pc = "unlock" /\ call'[c].fast = call[c].fast
  BY <1>0, <1>1, GotoKeeps
<1>7. ~Moved(c) /\ ~Moved(c)' /\ Sound(table', call'[c])
  BY <1>1, <1>3, <1>6 DEF Moved, Sound
<1>8. \A a : a \in Moving => a \in Moving'
  BY <1>0, <1>7, OthersStay, MovingIff, MovingIffNext DEF Moved
<1>9. RecordsLive'
  <2>1. q \in Live /\ Live' = Live
    BY <1>0, <1>1 DEF BaseInv, OwnInv, Live
  <2>2. \A p : Recorded(table, p) => p \in Live \cup Moving
    BY <1>3 DEF RecordsLive, Recorded
  <2>3. \A s \in UsedSlots(table') : Recorded(table', table'[s].ptr)
    BY DEF Recorded
  <2> QED
    BY <1>5, <1>8, <2>1, <2>2, <2>3 DEF RecordsLive
<1>10. \A d \in Ctx : d # c => Uses(call[d]) \cap {q} = {}
  BY <1>1, <1>2, BlockApart
<1>11. \A p : p \notin {q} /\ Recorded(table', p) => Recorded(table, p)
  BY <1>5
<1>12. \A s \in UsedSlots(table) : table[s].ptr \notin {q} =>
         s \in UsedSlots(table') /\ table'[s].ptr = table[s].ptr
  BY <1>5
<1> QED
  BY <1>0, <1>2, <1>5, <1>7, <1>9, <1>10, <1>11, <1>12, RaceTable

LEMMA UntrackRace ==
  ASSUME BaseInv, RaceInv, NEW c \in Ctx, Untrack(c)
  PROVE  RaceInv'
<1> DEFINE p == call[c].ptr
<1>0. /\ Continue(c) /\ heap' = heap /\ bypassed' = bypassed /\ recycled' = recycled
  BY DEF Continue, Untrack, history
<1>1. /\ call[c].pc = "untrack" /\ call[c].op = "free" /\ call[c] \in Call /\ p \in Ptr
      /\ call \in [Ctx -> Call] /\ Block(c) = p /\ p # NoPtr
  BY MTIsrAssumption, AllocTableAssumption
     DEF BaseInv, TypesInv, Shaped, Call, Untrack, At, Block
<1> SUFFICES ASSUME Clean'
             PROVE  RaceInv'
  BY DEF RaceInv
<1>2. Clean
  BY <1>0 DEF Clean
<1>3. TableInv(table) /\ RecordsLive /\ Sound(table, call[c]) /\ table \in [Slot -> Cell]
  BY <1>2 DEF RaceInv, BaseInv, TypesInv
<1>4. /\ call'[c].op = "free" /\ call'[c].fast = call[c].fast
      /\ call'[c].ptr = p \/ call'[c].ptr = NoPtr
  BY <1>1 DEF Untrack, Goto, Call
<1>5. ~Moved(c) /\ ~Moved(c)'
  BY <1>1, <1>4 DEF Moved
<1>6. CASE table' = table /\ ~Tracked(table, p)
  <2>1. ~Recorded(table, p)
    BY <1>1, <1>3, <1>6, TrackedIff DEF Recorded
  <2>2. Sound(table, call'[c])
    BY <1>3, <1>4, <2>1 DEF Sound
  <2> QED
    BY <1>0, <1>2, <1>5, <1>6, <2>2, RaceQuiet
<1>7. ASSUME NEW s \in Slot, FindSlot(table, p, s), table' = SlotFree(table, s)
      PROVE  RaceInv'
  <2>1. Holds(table, s, p)
    BY <1>1, <1>7, FindSlotHolds
  <2>2. /\ TableInv(table')
        /\ \A a : Recorded(table', a) <=> Recorded(table, a) /\ a # p
        /\ \A v \in UsedSlots(table) : table[v].ptr # p =>
             v \in UsedSlots(table') /\ table'[v] = table[v]
    BY <1>3, <1>7, <2>1, FreeRecord
  <2>3. Sound(table', call'[c])
    BY <1>3, <1>4, <2>2 DEF Sound
  <2>4. \A a : a \in Moving => a \in Moving'
    BY <1>0, <1>5, OthersStay, MovingIff, MovingIffNext DEF Moved
  <2>5. RecordsLive'
    <3>1. \A a : Recorded(table, a) => a \in Live \cup Moving
      BY <1>3 DEF RecordsLive, Recorded
    <3>2. \A v \in UsedSlots(table') : Recorded(table', table'[v].ptr)
      BY DEF Recorded
    <3>3. Live' = Live
      BY <1>0 DEF Live
    <3> QED
      BY <2>2, <2>4, <3>1, <3>2, <3>3 DEF RecordsLive
  <2>6. \A d \in Ctx : d # c => Uses(call[d]) \cap {p} = {}
    BY <1>1, <1>2, BlockApart
  <2>7. \A a : a \notin {p} /\ Recorded(table', a) => Recorded(table, a)
    BY <2>2
  <2>8. \A v \in UsedSlots(table) : table[v].ptr \notin {p} =>
          v \in UsedSlots(table') /\ table'[v].ptr = table[v].ptr
    BY <2>2
  <2> QED
    BY <1>0, <1>2, <1>5, <2>2, <2>3, <2>5, <2>6, <2>7, <2>8, RaceTable
<1> QED
  BY <1>6, <1>7 DEF Untrack

(* mt_realloc: the old record is still its own, the new block has none. *)
LEMMA RetrackRace ==
  ASSUME BaseInv, RaceInv, NEW c \in Ctx, Retrack(c)
  PROVE  RaceInv'
<1> DEFINE p == call[c].ptr
           q == call[c].new
           i == call[c].idx
           t == IF i = NoSlot THEN table ELSE SlotFree(table, i)
<1>0. /\ Continue(c) /\ heap' = heap /\ bypassed' = bypassed /\ recycled' = recycled
      /\ Goto(c, "unlock")
  BY DEF Continue, Retrack, history
<1>1. /\ call[c].pc = "retrack" /\ call[c].op = "realloc" /\ call[c] \in Call
      /\ q # NoPtr /\ Block(c) = q /\ p # NoPtr
  BY MTIsrAssumption, AllocTableAssumption
     DEF BaseInv, TypesInv, Shaped, Call, Retrack, At, Block
<1> SUFFICES ASSUME Clean'
             PROVE  RaceInv'
  BY DEF RaceInv
<1>2. Clean
  BY <1>0 DEF Clean
<1>3. TableInv(table) /\ RecordsLive /\ Sound(table, call[c]) /\ table \in [Slot -> Cell]
  BY <1>2 DEF RaceInv, BaseInv, TypesInv
<1>4. /\ i = NoSlot \/ i \in Slot
      /\ q \in Ptr
      /\ t \in [Slot -> Cell]
      /\ \/ i # NoSlot /\ q = p /\ table' = table
         \/ /\ i = NoSlot \/ q # p
            /\ \/ \E s \in Slot : InsertSlot(t, q, s) /\ table' = Write(t, s, q)
               \/ table' = t
  BY RetrackCases
<1>5. /\ i # NoSlot => Holds(table, i, p)
      /\ i = NoSlot => ~Recorded(table, p)
      /\ q # p => ~Recorded(table, q)
      /\ Moved(c) <=> q # p
  BY <1>1, <1>3 DEF Sound, Moved
<1>6. call'[c].op = "realloc" /\ call'[c].pc = "unlock" /\ call'[c].fast = call[c].fast
  BY <1>0, <1>1, GotoKeeps
<1>7. ~Moved(c)' /\ \A u : Sound(u, call'[c])
  BY <1>3, <1>6 DEF Moved, Sound
<1>8. CASE i # NoSlot /\ q = p /\ table' = table
  BY <1>0, <1>2, <1>5, <1>7, <1>8, RaceQuiet
<1>9. CASE i = NoSlot \/ q # p
  <2>1. /\ TableInv(t)
        /\ \A a : Recorded(t, a) <=> Recorded(table, a) /\ a # p
        /\ \A v \in UsedSlots(table) : table[v].ptr # p =>
             v \in UsedSlots(t) /\ t[v] = table[v]
    <3>1. CASE i = NoSlot
      BY <1>3, <1>5, <3>1
    <3>2. CASE i # NoSlot
      <4>1. t = SlotFree(table, i) /\ i \in Slot /\ Holds(table, i, p)
        BY <1>4, <1>5, <3>2
      <4> HIDE DEF t
      <4> QED
        BY <1>3, <4>1, FreeRecord
    <3> QED
      BY <3>1, <3>2
  <2> HIDE DEF t
  <2>2. ~Recorded(t, q)
    BY <1>5, <2>1
  <2>3. /\ TableInv(table')
        /\ \A a : Recorded(table', a) => Recorded(t, a) \/ a = q
        /\ \A v \in UsedSlots(t) : v \in UsedSlots(table') /\ table'[v] = t[v]
    <3>1. CASE table' = t
      BY <2>1, <3>1
    <3>2. ASSUME NEW s \in Slot, InsertSlot(t, q, s), table' = Write(t, s, q)
          PROVE  /\ TableInv(table')
                 /\ \A a : Recorded(table', a) => Recorded(t, a) \/ a = q
                 /\ \A v \in UsedSlots(t) : v \in UsedSlots(table') /\ table'[v] = t[v]
      BY <1>4, <2>1, <2>2, <3>2, WriteFresh
    <3>3. table' = t \/ \E s \in Slot : InsertSlot(t, q, s) /\ table' = Write(t, s, q)
      BY <1>4, <1>9
    <3> QED
      BY <3>1, <3>2, <3>3
  <2>4. \A a : a \in Moving /\ a # p => a \in Moving'
    BY <1>0, OthersStay, MovingIff, MovingIffNext DEF Moved
  <2>5. RecordsLive'
    <3>1. \A a : Recorded(table, a) => a \in Live \cup Moving
      BY <1>3 DEF RecordsLive, Recorded
    <3>2. \A v \in UsedSlots(table') : Recorded(table', table'[v].ptr)
      BY DEF Recorded
    <3>3. q \in Live /\ Live' = Live
      BY <1>0, <1>1 DEF BaseInv, OwnInv, Live
    <3> QED
      BY <2>1, <2>3, <2>4, <3>1, <3>2, <3>3 DEF RecordsLive
  <2>6. \A d \in Ctx : d # c => Uses(call[d]) \cap {p, q} = {}
    BY <1>1, <1>2, <1>5, BlockApart, MovedApart
  <2>7. \A a : a \notin {p, q} /\ Recorded(table', a) => Recorded(table, a)
    BY <2>1, <2>3
  <2>8. \A v \in UsedSlots(table) : table[v].ptr \notin {p, q} =>
          v \in UsedSlots(table') /\ table'[v].ptr = table[v].ptr
    BY <2>1, <2>3
  <2> QED
    BY <1>0, <1>2, <1>7, <2>3, <2>5, <2>6, <2>7, <2>8, RaceTable
<1> QED
  BY <1>4, <1>8, <1>9

(* A stale or double record needs one of the two races: a call that found   *)
(* g_inside set, or an address given up by the real realloc and handed out  *)
(* again before its record was updated.  Without them the order of the      *)
(* steps of mt_malloc (lines 239-316), mt_free (345-383) and mt_realloc     *)
(* (396-506) suffices, whatever interrupts what.                            *)
THEOREM ConsistentBarRaces == Spec => []ConsistentUnlessRaced
<1>1. Init => RaceInv
  <2>1. Init => UsedSlots(table) = {} /\ \A c \in Ctx : call[c] = Idle
    BY DEF Init, UsedSlots
  <2>2. Init => TableInv(table) /\ RecordsLive
    BY <2>1 DEF TableInv, RecordsLive
  <2>3. \A c \in Ctx : call[c] = Idle => ~Moved(c)
    BY DEF Moved, Idle
  <2> QED
    BY <2>1, <2>2, <2>3, SoundIdle DEF RaceInv, MovesApart
<1>2. BaseInv /\ RaceInv /\ [Next]_vars => RaceInv'
  <2>1. ASSUME BaseInv, RaceInv, NEW c \in Ctx, Begin(c) \/ Continue(c)
        PROVE  RaceInv'
    BY <2>1, BeginRace, RealMallocRace, RealFreeRace, FindOldRace, RealReallocRace,
       QuietRace, TrackRace, RecordRace, UntrackRace, RetrackRace DEF Continue
  <2>2. RaceInv /\ UNCHANGED vars => RaceInv'
    <3>1. UNCHANGED vars => /\ UNCHANGED <<table, heap, call, bypassed, recycled>>
                            /\ Live' = Live /\ Moving' = Moving
      BY DEF vars, history, Live, Moving
    <3> QED
      BY <3>1 DEF RaceInv, Clean, RecordsLive, MovesApart, Moved
  <2> QED
    BY <2>1, <2>2 DEF Next
<1>3. RaceInv => ConsistentUnlessRaced
  BY DEF RaceInv, Clean, RecordsLive, TableInv, ConsistentUnlessRaced
<1> QED
  BY <1>1, <1>2, <1>3, BaseInvariant, PTL DEF Spec

=============================================================================
