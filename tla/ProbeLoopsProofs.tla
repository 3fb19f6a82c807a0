--------------------------- MODULE ProbeLoopsProofs ---------------------------
(***************************************************************************)
(* The loops of ProbeLoops find what FindSlot and InsertSlot say, for every*)
(* table size, hash function, address and content of the table.            *)
(***************************************************************************)
EXTENDS ProbeLoops, AllocTableProofs

(* The next slot of a walk *)
LEMMA ProbeNext ==
  ASSUME NEW p \in Ptr, NEW k \in Nat
  PROVE  (Probe(p, k) + 1) % MaxAllocs = Probe(p, k + 1)
<1> DEFINE n == MaxAllocs
           a == Hash[p] + k
           q == a \div n
           r == a % n
           b == r + 1
<1>1. n \in Nat \ {0} /\ a \in Nat /\ a + 1 = Hash[p] + (k + 1)
  BY AllocTableAssumption
<1>2. Probe(p, k) = r /\ Probe(p, k + 1) = (a + 1) % n
  BY <1>1 DEF Probe
<1> HIDE DEF n, a
<1>3. a = n * q + r /\ q \in Nat /\ r \in 0..(n - 1)
  BY <1>1, DivMod
<1> HIDE DEF q, r
<1>4. b \in Nat
  BY <1>3
<1>5. b = n * (b \div n) + (b % n) /\ b \div n \in Nat /\ b % n \in 0..(n - 1)
  BY <1>1, <1>4, DivMod
<1> DEFINE q2 == b \div n
           r2 == b % n
<1>6. a + 1 = n * (q + q2) + r2
  <2>1. a + 1 = n * q + b
    BY <1>1, <1>3
  <2> HIDE DEF b
  <2>2. b = n * q2 + r2 /\ q2 \in Nat /\ r2 \in 0..(n - 1)
    BY <1>5
  <2> HIDE DEF q2, r2
  <2>3. n * (q + q2) = n * q + n * q2 /\ n * q \in Int /\ n * q2 \in Int
    BY <1>1, <1>3, <2>2
  <2> QED
    BY <1>1, <2>1, <2>2, <2>3
<1>7. a + 1 \in Nat /\ q + q2 \in Int /\ r2 \in 0..(n - 1)
  BY <1>1, <1>3, <1>5
<1> HIDE DEF b, q2, r2
<1>8. (a + 1) % n = r2
  BY <1>1, <1>6, <1>7, RemainderUnique
<1> QED
  BY <1>2, <1>8 DEF r2, b, n

(* The steps of the walk from the beginning to before step k *)
Walked(k) == 0..(k - 1)

(* What mt_find_slot has passed *)
FindInv ==
  \A j \in Walked(i) : t[Probe(ptr, j)].state # "EMPTY" /\ ~Holds(t, Probe(ptr, j), ptr)

(* What mt_find_insert_slot has passed, and the tombstone it remembers *)
InsertInv ==
  /\ \A j \in Walked(i) : t[Probe(ptr, j)].state # "EMPTY"
  /\ tomb = MaxAllocs => \A j \in Walked(i) : t[Probe(ptr, j)].state = "USED"
  /\ tomb # MaxAllocs =>
       \E k \in Walked(i) : /\ tomb = Probe(ptr, k)
                            /\ t[tomb].state = "TOMBSTONE"
                            /\ \A j \in Walked(k) : t[Probe(ptr, j)].state = "USED"

LoopInv ==
  /\ which \in {"find", "insert"} /\ t \in [Slot -> Cell] /\ ptr \in Ptr
  /\ i \in 0..MaxAllocs
  /\ tomb \in 0..MaxAllocs
  /\ result = Running =>
       /\ idx = Probe(ptr, i)
       /\ which = "find" => FindInv
       /\ which = "insert" => InsertInv
  /\ LoopsReturnSlots

(* One slot at most is found. *)
LEMMA FindSlotOne ==
  ASSUME NEW u, NEW p \in Ptr, NEW s, NEW v, FindSlot(u, p, s), FindSlot(u, p, v)
  PROVE  s = v
<1>1. PICK k \in Slot : /\ s = Probe(p, k) /\ Holds(u, s, p)
                        /\ \A j \in 0..(k - 1) : ~Holds(u, Probe(p, j), p)
  BY DEF FindSlot
<1>2. PICK l \in Slot : /\ v = Probe(p, l) /\ Holds(u, v, p)
                        /\ \A j \in 0..(l - 1) : ~Holds(u, Probe(p, j), p)
  BY DEF FindSlot
<1>3. k \in Nat /\ l \in Nat
  BY AllocTableAssumption DEF Slot
<1>4. ~(k < l) /\ ~(l < k)
  BY <1>1, <1>2, <1>3
<1> QED
  BY <1>1, <1>2, <1>3, <1>4

LEMMA InsertSlotOne ==
  ASSUME NEW u, NEW p \in Ptr, NEW s, NEW v, InsertSlot(u, p, s), InsertSlot(u, p, v)
  PROVE  s = v
<1>1. PICK k \in Slot : /\ s = Probe(p, k) /\ u[s].state # "USED"
                        /\ \A j \in 0..(k - 1) : u[Probe(p, j)].state = "USED"
  BY DEF InsertSlot
<1>2. PICK l \in Slot : /\ v = Probe(p, l) /\ u[v].state # "USED"
                        /\ \A j \in 0..(l - 1) : u[Probe(p, j)].state = "USED"
  BY DEF InsertSlot
<1>3. k \in Nat /\ l \in Nat
  BY AllocTableAssumption DEF Slot
<1>4. ~(k < l) /\ ~(l < k)
  BY <1>1, <1>2, <1>3
<1> QED
  BY <1>1, <1>2, <1>3, <1>4

(* A slot that a walk ends at is found, and a whole walk that passed every  *)
(* slot finds none.                                                         *)
LEMMA FindReturns ==
  ASSUME LoopInv, which = "find", result = Running, FindStep, result' # Running
  PROVE  \A s \in Slot : FindSlot(t, ptr, s) <=> result' = s
<1>0. /\ ptr \in Ptr /\ i \in Nat /\ i <= MaxAllocs /\ MaxAllocs \in Nat
      /\ idx = Probe(ptr, i) /\ idx \in Slot /\ FindInv
      /\ NotFound \notin Slot
  BY ProbeInSlot, AllocTableAssumption DEF LoopInv, Slot, NotFound
<1>1. CASE i < MaxAllocs /\ Holds(t, idx, ptr) /\ result' = idx
  <2>1. FindSlot(t, ptr, idx)
    BY <1>0, <1>1 DEF FindSlot, FindInv, Walked, Slot
  <2> QED
    BY <1>0, <1>1, <2>1, FindSlotOne
<1>2. CASE result' = NotFound /\ (i >= MaxAllocs \/ t[idx].state = "EMPTY")
  <2> SUFFICES ASSUME NEW s \in Slot, FindSlot(t, ptr, s) PROVE FALSE
    BY <1>0, <1>2
  <2>1. PICK k \in Slot : /\ s = Probe(ptr, k) /\ Holds(t, s, ptr)
                          /\ \A j \in 0..(k - 1) : t[Probe(ptr, j)].state # "EMPTY"
    BY DEF FindSlot
  <2>2. k \in Nat /\ k < MaxAllocs
    BY <1>0 DEF Slot
  <2>3. ~(k < i)
    BY <1>0, <2>1, <2>2 DEF FindInv, Walked
  <2>4. i < MaxAllocs /\ t[Probe(ptr, i)].state = "EMPTY"
    BY <1>0, <1>2, <2>2, <2>3
  <2>5. k = i
    BY <1>0, <2>1, <2>2, <2>3, <2>4
  <2> QED
    BY <2>1, <2>4, <2>5 DEF Holds
<1> QED
  BY <1>1, <1>2 DEF FindStep, FindIteration

LEMMA InsertReturns ==
  ASSUME LoopInv, which = "insert", result = Running, InsertStep, result' # Running
  PROVE  /\ \A s \in Slot : InsertSlot(t, ptr, s) <=> result' = s
         /\ result' = NotFound <=> UsedSlots(t) = Slot
<1>0. /\ ptr \in Ptr /\ i \in Nat /\ i <= MaxAllocs /\ MaxAllocs \in Nat
      /\ idx = Probe(ptr, i) /\ idx \in Slot /\ InsertInv
      /\ NotFound \notin Slot
  BY ProbeInSlot, AllocTableAssumption DEF LoopInv, Slot, NotFound
<1>1. ASSUME NEW s \in Slot, result' = s, InsertSlot(t, ptr, s)
      PROVE  /\ \A v \in Slot : InsertSlot(t, ptr, v) <=> result' = v
             /\ result' = NotFound <=> UsedSlots(t) = Slot
  <2>1. \A v \in Slot : InsertSlot(t, ptr, v) <=> result' = v
    BY <1>0, <1>1, InsertSlotOne
  <2>2. UsedSlots(t) # Slot
    BY <1>0, <1>1, InsertSlotNotUsed DEF UsedSlots
  <2> QED
    BY <1>0, <1>1, <2>1, <2>2
<1>2. CASE tomb # MaxAllocs /\ result' = tomb
  <2>1. PICK k \in Walked(i) : /\ tomb = Probe(ptr, k)
                               /\ t[tomb].state = "TOMBSTONE"
                               /\ \A j \in Walked(k) : t[Probe(ptr, j)].state = "USED"
    BY <1>0, <1>2 DEF InsertInv
  <2>2. k \in Slot /\ k \in Nat
    BY <1>0, <2>1 DEF Walked, Slot
  <2>3. tomb \in Slot
    BY <1>0, <2>1, <2>2, ProbeInSlot
  <2>4. InsertSlot(t, ptr, tomb)
    BY <2>1, <2>2 DEF InsertSlot, Walked
  <2> QED
    BY <1>1, <1>2, <2>3, <2>4
<1>3. CASE tomb = MaxAllocs /\ i < MaxAllocs /\ t[idx].state = "EMPTY" /\ result' = idx
  <2>1. InsertSlot(t, ptr, idx)
    BY <1>0, <1>3 DEF InsertSlot, InsertInv, Walked, Slot
  <2> QED
    BY <1>0, <1>1, <1>3, <2>1
<1>4. CASE tomb = MaxAllocs /\ i >= MaxAllocs /\ result' = NotFound
  <2>1. \A j \in Slot : t[Probe(ptr, j)].state = "USED"
    BY <1>0, <1>4 DEF InsertInv, Walked, Slot
  <2>2. UsedSlots(t) = Slot
    BY <1>0, <2>1, ProbeOnto DEF UsedSlots
  <2> QED
    BY <1>0, <1>4, <2>2, FullIffAllUsed DEF Full
<1> QED
  BY <1>2, <1>3, <1>4 DEF InsertStep, InsertIteration

(* An iteration that goes on passes the slot it looked at. *)
LEMMA LoopAdvances ==
  ASSUME LoopInv, result = Running, i < MaxAllocs, Advance
  PROVE  /\ i' \in 0..MaxAllocs /\ idx' = Probe(ptr, i')
         /\ i \in Nat /\ Walked(i') = Walked(i) \cup {i}
<1>1. i \in Nat /\ i' = i + 1 /\ MaxAllocs \in Nat /\ ptr \in Ptr
      /\ idx = Probe(ptr, i)
  BY AllocTableAssumption DEF LoopInv, Advance
<1>2. idx' = Probe(ptr, i + 1)
  BY <1>1, ProbeNext DEF Advance
<1> QED
  BY <1>1, <1>2 DEF Walked

LEMMA LoopInvariant == Spec => []LoopInv
<1>1. Init => LoopInv
  <2> SUFFICES ASSUME Init PROVE LoopInv
    OBVIOUS
  <2>1. i = 0 /\ tomb = MaxAllocs /\ Walked(0) = {} /\ ptr \in Ptr
    BY DEF Init, Walked
  <2>2. idx = Probe(ptr, i)
    BY <2>1, AllocTableAssumption DEF Init, Probe
  <2>3. FindInv /\ InsertInv
    BY <2>1 DEF FindInv, InsertInv
  <2>4. LoopsReturnSlots
    BY DEF Init, LoopsReturnSlots
  <2>5. i \in 0..MaxAllocs /\ tomb \in 0..MaxAllocs
    BY <2>1, AllocTableAssumption
  <2> QED
    BY <2>2, <2>3, <2>4, <2>5 DEF Init, LoopInv
<1>2. LoopInv /\ [Next]_loopVars => LoopInv'
  <2> SUFFICES ASSUME LoopInv, Next PROVE LoopInv'
    BY DEF LoopInv, loopVars, FindInv, InsertInv, LoopsReturnSlots
  <2>0. UNCHANGED <<which, t, ptr>> /\ result = Running
    BY DEF Next, FindStep, InsertStep
  <2>1. CASE FindStep /\ result' # Running
    <3>1. which = "find" /\ UNCHANGED <<i, tomb>>
      BY <2>1 DEF FindStep, FindIteration, Advance
    <3>2. LoopsReturnSlots'
      BY <2>0, <2>1, <3>1, FindReturns DEF LoopsReturnSlots
    <3> QED
      BY <2>0, <2>1, <3>1, <3>2 DEF LoopInv
  <2>2. CASE FindStep /\ result' = Running
    <3>1. /\ which = "find" /\ i < MaxAllocs /\ Advance /\ UNCHANGED tomb
          /\ t[idx].state # "EMPTY" /\ ~Holds(t, idx, ptr)
      <4>1. \A s \in Slot : s # Running
        BY DEF Slot, Running
      <4>2. i < MaxAllocs => idx \in Slot
        BY <2>0, ProbeInSlot DEF LoopInv
      <4>3. NotFound # Running
        BY DEF NotFound, Running
      <4> QED
        BY <2>2, <4>1, <4>2, <4>3 DEF FindStep, FindIteration
    <3>2. FindInv'
      BY <2>0, <3>1, LoopAdvances DEF FindInv, LoopInv
    <3>3. LoopsReturnSlots'
      BY <2>2 DEF LoopsReturnSlots
    <3> QED
      BY <2>0, <2>2, <3>1, <3>2, <3>3, LoopAdvances DEF LoopInv
  <2>3. CASE InsertStep /\ result' # Running
    <3>1. which = "insert" /\ UNCHANGED <<i, tomb>>
      BY <2>3 DEF InsertStep, InsertIteration, Advance
    <3>2. LoopsReturnSlots'
      BY <2>0, <2>3, <3>1, InsertReturns DEF LoopsReturnSlots
    <3> QED
      BY <2>0, <2>3, <3>1, <3>2 DEF LoopInv
  <2>4. CASE InsertStep /\ result' = Running
    <3>1. /\ which = "insert" /\ i < MaxAllocs /\ Advance /\ tomb' = FirstTombstone
          /\ t[idx].state # "EMPTY"
      <4>1. \A s \in Slot : s # Running
        BY DEF Slot, Running
      <4>2. idx \in Slot /\ (tomb # MaxAllocs => tomb \in Slot)
        BY <2>0, ProbeInSlot, AllocTableAssumption DEF LoopInv, Slot
      <4>3. NotFound # Running
        BY DEF NotFound, Running
      <4> QED
        BY <2>4, <4>1, <4>2, <4>3 DEF InsertStep, InsertIteration
    <3>2. /\ i' \in 0..MaxAllocs /\ idx' = Probe(ptr, i')
          /\ i \in Nat /\ Walked(i') = Walked(i) \cup {i}
      BY <2>0, <3>1, LoopAdvances
    <3>3. idx = Probe(ptr, i) /\ idx \in Slot /\ InsertInv
      BY <2>0, <3>1, <3>2, ProbeInSlot DEF LoopInv
    <3>4. t[idx].state \in {"USED", "TOMBSTONE"} /\ MaxAllocs \notin Slot
      BY <3>1, <3>3, AllocTableAssumption DEF LoopInv, Cell, Slot
    <3>5. tomb' \in 0..MaxAllocs
      BY <3>1, <3>3, AllocTableAssumption DEF LoopInv, FirstTombstone, Slot
    <3>6. InsertInv'
      <4>1. CASE t[idx].state = "TOMBSTONE" /\ tomb = MaxAllocs
        <5>1. tomb' = idx /\ tomb' # MaxAllocs
          BY <3>1, <3>3, <3>4, <4>1 DEF FirstTombstone
        <5>2. \A j \in Walked(i) : t[Probe(ptr, j)].state = "USED"
          BY <3>3, <4>1 DEF InsertInv
        <5> QED
          BY <2>0, <3>1, <3>2, <3>3, <4>1, <5>1, <5>2 DEF InsertInv
      <4>2. CASE ~(t[idx].state = "TOMBSTONE" /\ tomb = MaxAllocs)
        <5>1. tomb' = tomb
          BY <3>1, <4>2 DEF FirstTombstone
        <5> QED
          BY <2>0, <3>1, <3>2, <3>3, <3>4, <4>2, <5>1 DEF InsertInv
      <4> QED
        BY <4>1, <4>2
    <3>7. LoopsReturnSlots'
      BY <2>4 DEF LoopsReturnSlots
    <3> QED
      BY <2>0, <3>1, <3>2, <3>5, <3>6, <3>7 DEF LoopInv
  <2> QED
    BY <2>1, <2>2, <2>3, <2>4 DEF Next
<1> QED
  BY <1>1, <1>2, PTL DEF Spec

(* Whatever a history leaves in the table, mt_find_slot returns the slot of *)
(* FindSlot or none, and mt_find_insert_slot that of InsertSlot, or none    *)
(* when every slot is USED.                                                 *)
THEOREM LoopsAreSearches == Spec => []LoopsReturnSlots
<1>1. LoopInv => LoopsReturnSlots
  BY DEF LoopInv
<1> QED
  BY <1>1, LoopInvariant, PTL
=============================================================================
