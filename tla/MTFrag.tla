-------------------------------- MODULE MTFrag --------------------------------
(***************************************************************************)
(* The fragmentation part of mt_stats: two hooks of the platform are read  *)
(* one after the other, the permille and its class are computed in 32 bits *)
(* packed in one word, and unpacked into the statistics.  The heap that    *)
(* the hooks walk belongs to the platform and may change at any time.      *)
(***************************************************************************)
EXTENDS U32

CONSTANTS
  Heaps,   (* the states of the heap: its free bytes and largest free block *)
  OkMax,   (* MT_FRAG_OK_MAX *)
  WarnMax  (* MT_FRAG_WARN_MAX *)

(* A word has room for the packed value, and a uint32_t is a multiple of a *)
(* uint16_t wide.                                                          *)
ASSUME MTFragAssumption ==
  /\ Heaps \subseteq [total : Word, largest : Word]
  /\ OkMax \in Nat /\ WarnMax \in Nat
  /\ U32Max >= 1048575 /\ (U32Max + 1) % 65536 = 0

VARIABLES
  walk,          (* MT_PLATFORM_HEAP_WALK of the build *)
  heap,          (* external: the state of the heap *)
  pc,            (* where mt_stats is *)
  total_free, largest_free, packed,  (* its locals *)
  stats          (* what it returns *)

fragVars == <<walk, heap, pc, total_free, largest_free, packed, stats>>

OK == 0
WARN == 1
CRITICAL == 2
NA == 3

Unfragmented(total, largest) == total = 0 \/ largest >= total

(* Mutant of Ratio: rounds up *)
RatioUp(total, largest) == (Trunc(largest * 1000) + total - 1) \div total

Ratio(total, largest) == Trunc(largest * 1000) \div total

(* mt_calc_fragmentation, a uint16_t *)
Permille(total, largest) ==
  IF Unfragmented(total, largest) THEN 0
  ELSE Trunc(1000 - Ratio(total, largest)) % 65536

(* mt_frag_health_classify *)
Classify(permille) ==
  CASE permille < OkMax -> OK
    [] permille >= OkMax /\ permille < WarnMax -> WARN
    [] permille >= OkMax /\ permille >= WarnMax -> CRITICAL

(* Mutant of Pack: the health is shifted into the permille *)
PackShifted(permille, health, available) ==
  permille + health * 32768 + available * 524288

(* Bits 0..15, 16..17 and 19 of a word; each field fits in its bits *)
Pack(permille, health, available) ==
  permille + health * 65536 + available * 524288

PermilleOf(p) == p % 65536
HealthOf(p) == (p \div 65536) % 4
AvailableOf(p) == (p \div 524288) % 2

-----------------------------------------------------------------------------
NoStats == [total |-> 0, largest |-> 0, permille |-> 0, health |-> 0, na |-> FALSE]

Init ==
  /\ walk \in BOOLEAN
  /\ heap \in Heaps
  /\ pc = "total"
  /\ total_free = 0 /\ largest_free = 0 /\ packed = 0
  /\ stats = NoStats

(* mt_platform_heap_total_free *)
ReadTotal ==
  /\ pc = "total"
  /\ total_free' = IF walk THEN heap.total ELSE 0
  /\ pc' = "largest"
  /\ UNCHANGED <<walk, heap, largest_free, packed, stats>>

(* mt_platform_heap_largest_free *)
ReadLargest ==
  /\ pc = "largest"
  /\ largest_free' = IF walk THEN heap.largest ELSE 0
  /\ pc' = "pack"
  /\ UNCHANGED <<walk, heap, total_free, packed, stats>>

(* The rest of mt_get_fragmentation *)
PackResult ==
  /\ pc = "pack"
  /\ packed' =
       IF walk
       THEN LET permille == Permille(total_free, largest_free)
            IN  Pack(permille, Classify(permille), 1)
       ELSE Pack(0, NA, 0)
  /\ pc' = "store"
  /\ UNCHANGED <<walk, heap, total_free, largest_free, stats>>

(* mt_stats stores what it unpacks, and the flag FRAG_NA *)
StoreStats ==
  /\ pc = "store"
  /\ stats' = [total |-> total_free, largest |-> largest_free,
               permille |-> PermilleOf(packed), health |-> HealthOf(packed),
               na |-> AvailableOf(packed) = 0]
  /\ pc' = "done"
  /\ UNCHANGED <<walk, heap, total_free, largest_free, packed>>

Return ==
  /\ pc = "done"
  /\ pc' = "total"
  /\ total_free' = 0 /\ largest_free' = 0 /\ packed' = 0
  /\ stats' = NoStats
  /\ UNCHANGED <<walk, heap>>

(* Somebody allocates or frees *)
HeapMoves ==
  /\ heap' \in Heaps \ {heap}
  /\ UNCHANGED <<walk, pc, total_free, largest_free, packed, stats>>

Next ==
  ReadTotal \/ ReadLargest \/ PackResult \/ StoreStats \/ Return \/ HeapMoves

Spec == Init /\ [][Next]_fragVars

-----------------------------------------------------------------------------
(* Properties *)

Done == pc = "done"

(* The formula of mt_calc_fragmentation over the integers *)
ExactPermille(total, largest) ==
  IF largest >= total THEN 0 ELSE 1000 - (largest * 1000) \div total

(* The permille returned is within 0..1000 even when the heap changed       *)
(* between the two hooks and when the product overflowed, and it is 0       *)
(* exactly when the values returned with it leave nothing fragmented.  The  *)
(* overflow of largest_free * 1000 can only overstate fragmentation;        *)
(* without it the permille is exact.                                        *)
FragSound ==
  Done /\ walk =>
    LET exact == ExactPermille(stats.total, stats.largest)
    IN  /\ stats.permille \in 0..1000
        /\ stats.permille = 0 <=> stats.largest >= stats.total
        /\ stats.permille >= exact
        /\ stats.largest * 1000 <= U32Max => stats.permille = exact

(* The classes that the comments at the thresholds allow: "0..200 = OK",     *)
(* "200..500 = WARNING", "Above 500 permille = CRITICAL"                     *)
DocumentedHealth(permille) ==
  {c \in {OK, WARN, CRITICAL} :
     /\ c = OK => permille <= OkMax
     /\ c = WARN => permille >= OkMax /\ permille <= WarnMax
     /\ c = CRITICAL => permille > WarnMax}

(* Through the packed word the class stays the documented one of the        *)
(* permille returned with it, except at WarnMax itself, where the code says *)
(* CRITICAL and the comment WARNING; NA, the flag FRAG_NA and a build       *)
(* without heap walk are the same thing.                                    *)
HealthMatches ==
  Done =>
    /\ stats.na <=> ~walk
    /\ stats.health = NA <=> ~walk
    /\ walk /\ stats.permille # WarnMax =>
         stats.health \in DocumentedHealth(stats.permille)
    /\ ~walk => stats.permille = 0 /\ stats.total = 0 /\ stats.largest = 0
=============================================================================
