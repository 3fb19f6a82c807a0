-------------------------- MODULE AllocTableProofs ---------------------------
(***************************************************************************)
(* Facts about the probe sequences and the two searches of AllocTable, for *)
(* every table size, every set of addresses and every hash function.       *)
(***************************************************************************)
EXTENDS AllocTable, FiniteSets, FiniteSetTheorems, WellFoundedInduction, TLAPS

-----------------------------------------------------------------------------
(* Remainders *)

(* Division with remainder, as the solver knows it. *)
LEMMA DivMod ==
  ASSUME NEW a \in Nat, NEW n \in Nat \ {0}
  PROVE  /\ a = n * (a \div n) + (a % n)
         /\ a \div n \in Nat
         /\ a % n \in 0..(n - 1)
OBVIOUS

(* Two multiples of n that differ by less than n are the same. *)
LEMMA MultiplesApart ==
  ASSUME NEW n \in Nat \ {0}, NEW q1 \in Int, NEW q2 \in Int, NEW d \in Int,
         d > -n, d < n, n * q1 = n * q2 + d
  PROVE  d = 0
<1>1. n * (q1 - q2) = d
  OBVIOUS
<1>2. CASE q1 = q2
  BY <1>2
<1>3. CASE q1 > q2
  <2>1. n * (q1 - q2) >= n * 1
    BY <1>3
  <2> QED
    BY <1>1, <2>1
<1>4. CASE q1 < q2
  <2>1. n * (q2 - q1) >= n * 1
    BY <1>4
  <2>2. n * (q2 - q1) = -d
    BY <1>1
  <2> QED
    BY <2>1, <2>2
<1> QED
  BY <1>2, <1>3, <1>4

(* A number has one remainder. *)
LEMMA RemainderUnique ==
  ASSUME NEW a \in Nat, NEW n \in Nat \ {0}, NEW k \in Int, NEW r \in 0..(n - 1),
         a = n * k + r
  PROVE  a % n = r
<1> DEFINE q == a \div n
           m == a % n
<1>1. a = n * q + m /\ q \in Nat /\ m \in 0..(n - 1)
  BY DivMod
<1> HIDE DEF q, m
<1>2. n * k = n * q + (m - r)
  BY <1>1
<1>3. m - r \in Int /\ m - r > -n /\ m - r < n /\ q \in Int
  BY <1>1
<1>4. m - r = 0
  BY <1>1, <1>2, <1>3, MultiplesApart
<1>5. m = r
  BY <1>1, <1>4
<1> QED
  BY <1>5 DEF m

-----------------------------------------------------------------------------
(* Probe sequences *)

(* The walk never leaves the table. *)
LEMMA ProbeInSlot ==
  ASSUME NEW p \in Ptr, NEW i \in Nat
  PROVE  Probe(p, i) \in Slot
BY AllocTableAssumption DEF Probe, Slot

(* The walk does not come back to a slot within MaxAllocs steps. *)
LEMMA ProbeInjective ==
  ASSUME NEW p \in Ptr, NEW i \in Slot, NEW j \in Slot, Probe(p, i) = Probe(p, j)
  PROVE  i = j
<1> DEFINE a == Hash[p] + i
           b == Hash[p] + j
           n == MaxAllocs
<1>1. n \in Nat \ {0} /\ Hash[p] \in Nat /\ a \in Nat /\ b \in Nat
      /\ i \in 0..(n - 1) /\ j \in 0..(n - 1)
  BY AllocTableAssumption DEF Slot
<1>2. a % n = b % n
  BY DEF Probe
<1>3. a - b = i - j
  BY <1>1
<1> HIDE DEF a, b, n
<1>4. PICK q1 \in Nat, q2 \in Nat : a = n * q1 + (a % n) /\ b = n * q2 + (b % n)
  BY <1>1, DivMod, ZenonT(40)
<1>5. a % n \in Nat
  BY <1>1, DivMod
<1>6. n * q1 = n * q2 + (i - j)
  BY <1>1, <1>2, <1>3, <1>4, <1>5
<1>7. i - j = 0
  BY <1>1, <1>6, MultiplesApart
<1> QED
  BY <1>1, <1>7

(* The walk visits every slot. *)
LEMMA ProbeOnto ==
  ASSUME NEW p \in Ptr, NEW s \in Slot
  PROVE  \E i \in Slot : Probe(p, i) = s
<1> DEFINE n == MaxAllocs
           h == Hash[p]
           q == h \div n
           r == h % n
           i == IF r <= s THEN s - r ELSE (s + n) - r
<1>1. n \in Nat \ {0} /\ h \in Nat /\ s \in 0..(n - 1)
  BY AllocTableAssumption DEF Slot
<1>2. h = n * q + r /\ q \in Nat /\ r \in 0..(n - 1)
  BY <1>1, DivMod
<1> HIDE DEF n, h, q, r
<1>3. i \in 0..(n - 1)
  BY <1>1, <1>2
<1>4. CASE r <= s
  <2>1. h + i = n * q + s
    BY <1>1, <1>2, <1>4
  <2>2. (h + i) % n = s
    BY <1>1, <1>2, <1>3, <2>1, RemainderUnique, h + i \in Nat
  <2> QED
    BY <1>3, <2>2 DEF n, h, Probe, Slot
<1>5. CASE r > s
  <2>1. n * (q + 1) = n * q + n
    BY <1>1, <1>2
  <2>2. h + i = n * (q + 1) + s
    BY <1>1, <1>2, <1>5, <2>1
  <2>3. (h + i) % n = s
    BY <1>1, <1>2, <1>3, <2>2, RemainderUnique, h + i \in Nat, q + 1 \in Int
  <2> QED
    BY <1>3, <2>3 DEF n, h, Probe, Slot
<1> QED
  BY <1>1, <1>2, <1>4, <1>5

(* A non-empty set of probe steps has a first one. *)
LEMMA FirstStep ==
  ASSUME NEW T, T \subseteq Slot, T # {}
  PROVE  \E i \in T : \A j \in 0..(i - 1) : j \notin T
<1>1. T \subseteq Nat
  BY AllocTableAssumption DEF Slot
<1>2. PICK i \in T : \A j \in T : ~(<<j, i>> \in OpToRel(<, Nat))
  BY <1>1, WFMin, NatLessThanWellFounded
<1>3. \A j \in T : ~(j < i)
  BY <1>1, <1>2 DEF OpToRel
<1> QED
  BY <1>1, <1>3

-----------------------------------------------------------------------------
(* The searches *)

(* mt_find_insert_slot fails exactly when every slot is USED, wherever the  *)
(* probing starts: neither tombstones nor collisions lose capacity.         *)
THEOREM FullIffAllUsed ==
  ASSUME NEW t, NEW p \in Ptr
  PROVE  Full(t, p) <=> UsedSlots(t) = Slot
<1>1. ASSUME NEW s \in Slot, t[s].state # "USED"
      PROVE  \E u \in Slot : InsertSlot(t, p, u)
  <2> DEFINE T == {i \in Slot : t[Probe(p, i)].state # "USED"}
  <2>1. T # {}
    BY <1>1, ProbeOnto
  <2>2. PICK i \in T : \A j \in 0..(i - 1) : j \notin T
    BY <2>1, FirstStep
  <2>3. i \in Slot /\ \A j \in 0..(i - 1) : j \in Slot
    BY AllocTableAssumption DEF Slot
  <2>4. Probe(p, i) \in Slot
    BY <2>3, ProbeInSlot DEF Slot
  <2> QED
    BY <2>2, <2>3, <2>4 DEF InsertSlot
<1>2. ASSUME UsedSlots(t) = Slot, NEW s \in Slot
      PROVE  ~InsertSlot(t, p, s)
  BY <1>2 DEF InsertSlot, UsedSlots
<1> QED
  BY <1>1, <1>2 DEF Full, UsedSlots

(* The slot mt_find_insert_slot returns is a slot that is not USED. *)
LEMMA InsertSlotNotUsed ==
  ASSUME NEW t, NEW p \in Ptr, NEW s, InsertSlot(t, p, s)
  PROVE  s \in Slot /\ t[s].state # "USED"
BY ProbeInSlot DEF InsertSlot, Slot

(* What mt_find_slot returns holds a record of the address. *)
LEMMA FindSlotHolds ==
  ASSUME NEW t, NEW p \in Ptr, NEW s, FindSlot(t, p, s)
  PROVE  s \in Slot /\ Holds(t, s, p)
BY ProbeInSlot DEF FindSlot, Slot

(* Slot s is met in the walk of the address it holds before any EMPTY slot *)
Reachable(t, s) ==
  \E i \in Slot : /\ s = Probe(t[s].ptr, i)
                  /\ \A j \in 0..(i - 1) : t[Probe(t[s].ptr, j)].state # "EMPTY"

(* The invariant of the table: a USED slot holds an address, is reachable   *)
(* from it, and is the only USED slot that holds it.                        *)
TableInv(t) ==
  \A s \in UsedSlots(t) :
    /\ t[s].ptr \in Ptr
    /\ Reachable(t, s)
    /\ \A u \in UsedSlots(t) : t[u].ptr = t[s].ptr => u = s

(* Under the invariant mt_find_slot finds every record, and only it. *)
THEOREM FindSlotComplete ==
  ASSUME NEW t, TableInv(t), NEW p \in Ptr, NEW s \in Slot
  PROVE  FindSlot(t, p, s) <=> Holds(t, s, p)
<1>1. ASSUME Holds(t, s, p)
      PROVE  FindSlot(t, p, s)
  <2>1. s \in UsedSlots(t) /\ t[s].ptr = p
    BY <1>1 DEF Holds, UsedSlots
  <2>2. PICK i \in Slot : /\ s = Probe(p, i)
                          /\ \A j \in 0..(i - 1) : t[Probe(p, j)].state # "EMPTY"
    BY <2>1 DEF TableInv, Reachable
  <2>3. ASSUME NEW j \in 0..(i - 1), Holds(t, Probe(p, j), p)
        PROVE  FALSE
    <3>1. j \in Slot /\ j # i
      BY AllocTableAssumption DEF Slot
    <3>2. Probe(p, j) \in UsedSlots(t) /\ t[Probe(p, j)].ptr = p
      BY <2>3, <3>1, ProbeInSlot DEF Holds, UsedSlots, Slot
    <3>3. Probe(p, j) = s
      BY <2>1, <3>2 DEF TableInv
    <3> QED
      BY <2>2, <3>1, <3>3, ProbeInjective
  <2> QED
    BY <1>1, <2>2, <2>3 DEF FindSlot
<1>2. ASSUME FindSlot(t, p, s)
      PROVE  Holds(t, s, p)
  BY <1>2, FindSlotHolds
<1> QED
  BY <1>1, <1>2

(* Sets of slots are finite and no larger than the table. *)
LEMMA UsedFinite ==
  ASSUME NEW t
  PROVE  IsFiniteSet(UsedSlots(t)) /\ Cardinality(UsedSlots(t)) \in 0..MaxAllocs
<1>1. IsFiniteSet(Slot) /\ Cardinality(Slot) = MaxAllocs
  BY AllocTableAssumption, FS_Interval DEF Slot
<1>2. UsedSlots(t) \in SUBSET Slot
  BY DEF UsedSlots
<1> QED
  BY <1>1, <1>2, FS_Subset, FS_CardinalityType, AllocTableAssumption

(* Under the invariant, tracked means that some USED slot has the address. *)
LEMMA TrackedIff ==
  ASSUME NEW t, TableInv(t), NEW p \in Ptr
  PROVE  Tracked(t, p) <=> \E s \in UsedSlots(t) : t[s].ptr = p
BY FindSlotComplete DEF Tracked, Holds, UsedSlots

-----------------------------------------------------------------------------
(* What the changes of a table preserve *)

(* A slot stays reachable as long as no slot becomes EMPTY. *)
LEMMA ReachableKept ==
  ASSUME NEW t, NEW u, NEW s \in Slot, t[s].ptr \in Ptr, Reachable(t, s),
         u[s].ptr = t[s].ptr,
         \A v \in Slot : t[v].state # "EMPTY" => u[v].state # "EMPTY"
  PROVE  Reachable(u, s)
<1>1. PICK i \in Slot :
        /\ s = Probe(t[s].ptr, i)
        /\ \A j \in 0..(i - 1) : t[Probe(t[s].ptr, j)].state # "EMPTY"
  BY DEF Reachable
<1>2. \A j \in 0..(i - 1) : Probe(t[s].ptr, j) \in Slot
  BY ProbeInSlot
<1>3. \A j \in 0..(i - 1) : u[Probe(t[s].ptr, j)].state # "EMPTY"
  BY <1>1, <1>2
<1> QED
  BY <1>1, <1>3 DEF Reachable

(* Table u is t with a record of p, which has none in t, in the slot s that *)
(* mt_find_insert_slot returned.                                            *)
Inserted(t, u, p, s) ==
  /\ InsertSlot(t, p, s)
  /\ u[s].state = "USED"
  /\ u[s].ptr = p
  /\ \A v \in Slot : v # s => u[v] = t[v]
  /\ \A v \in UsedSlots(t) : t[v].ptr # p

(* Such an insertion keeps the table's invariant. *)
LEMMA InsertKeepsInv ==
  ASSUME NEW t, NEW u, NEW p \in Ptr, NEW s \in Slot,
         TableInv(t), Inserted(t, u, p, s)
  PROVE  /\ TableInv(u)
         /\ UsedSlots(u) = UsedSlots(t) \cup {s}
         /\ s \notin UsedSlots(t)
<1> USE DEF Inserted
<1>1. t[s].state # "USED"
  BY InsertSlotNotUsed
<1>2. UsedSlots(u) = UsedSlots(t) \cup {s} /\ s \notin UsedSlots(t)
  BY <1>1 DEF UsedSlots
<1>3. \A v \in Slot : t[v].state # "EMPTY" => u[v].state # "EMPTY"
  <2> TAKE v \in Slot
  <2> QED
    BY <1>1
<1>4. ASSUME NEW v \in UsedSlots(t)
      PROVE  u[v].ptr = t[v].ptr /\ t[v].ptr \in Ptr /\ Reachable(u, v)
  <2>1. v \in Slot /\ v # s /\ u[v] = t[v]
    BY <1>1 DEF UsedSlots
  <2>2. t[v].ptr \in Ptr /\ Reachable(t, v)
    BY DEF TableInv
  <2> QED
    BY <1>3, <2>1, <2>2, ReachableKept
<1>5. Reachable(u, s)
  <2>1. PICK i \in Slot :
          /\ s = Probe(p, i)
          /\ \A j \in 0..(i - 1) : t[Probe(p, j)].state = "USED"
    BY DEF InsertSlot
  <2>2. ASSUME NEW j \in 0..(i - 1)
        PROVE  u[Probe(p, j)].state # "EMPTY"
    <3>1. Probe(p, j) \in Slot /\ t[Probe(p, j)].state = "USED"
      BY <2>1, ProbeInSlot
    <3> QED
      BY <1>1, <3>1
  <2> QED
    BY <2>1, <2>2 DEF Reachable
<1>6. ASSUME NEW v \in UsedSlots(u), NEW w \in UsedSlots(u), u[w].ptr = u[v].ptr
      PROVE  w = v
  BY <1>2, <1>4, <1>6 DEF TableInv
<1> QED
  BY <1>2, <1>4, <1>5, <1>6 DEF TableInv

(* Turning a slot into a tombstone keeps the invariant. *)
LEMMA FreeKeepsInv ==
  ASSUME NEW t, NEW u, TableInv(t), NEW s \in Slot,
         u[s].state = "TOMBSTONE", \A v \in Slot : v # s => u[v] = t[v]
  PROVE  TableInv(u) /\ UsedSlots(u) = UsedSlots(t) \ {s}
<1>1. UsedSlots(u) = UsedSlots(t) \ {s}
  BY DEF UsedSlots
<1>2. \A v \in Slot : t[v].state # "EMPTY" => u[v].state # "EMPTY"
  OBVIOUS
<1>3. ASSUME NEW v \in UsedSlots(u)
      PROVE  v \in UsedSlots(t) /\ u[v].ptr = t[v].ptr /\ t[v].ptr \in Ptr
             /\ Reachable(u, v)
  <2>1. v \in UsedSlots(t) /\ v \in Slot /\ u[v] = t[v]
    BY <1>1 DEF UsedSlots
  <2>2. t[v].ptr \in Ptr /\ Reachable(t, v)
    BY <2>1 DEF TableInv
  <2> QED
    BY <1>2, <2>1, <2>2, ReachableKept
<1> QED
  BY <1>1, <1>3 DEF TableInv

(* Changing what a record says of its block, but not its address, keeps it. *)
LEMMA UpdateKeepsInv ==
  ASSUME NEW t, NEW u, TableInv(t),
         \A v \in Slot : u[v].ptr = t[v].ptr /\ u[v].state = t[v].state
  PROVE  TableInv(u) /\ UsedSlots(u) = UsedSlots(t)
<1>1. UsedSlots(u) = UsedSlots(t)
  BY DEF UsedSlots
<1>2. ASSUME NEW v \in UsedSlots(u)
      PROVE  u[v].ptr = t[v].ptr /\ t[v].ptr \in Ptr /\ Reachable(u, v)
  <2>1. v \in Slot /\ t[v].ptr \in Ptr /\ Reachable(t, v)
    BY <1>1 DEF TableInv, UsedSlots
  <2> QED
    BY <2>1, ReachableKept
<1> QED
  BY <1>1, <1>2 DEF TableInv

=============================================================================
