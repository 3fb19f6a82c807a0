----------------------------- MODULE DumpsProofs ------------------------------
(***************************************************************************)
(* Theorems about what the tracker reports beside its records: the         *)
(* fragmentation of mt_stats (MTFrag), the telemetry tick (MTTelemetry)    *)
(* and the sorted list of hotspots (HotspotDump), for every word width,    *)
(* threshold, period and table.                                            *)
(***************************************************************************)
EXTENDS MTTelemetry, HotspotDump, SequenceTheorems, TLAPS

-----------------------------------------------------------------------------
(* Division and the cast to uint32_t *)

(* The result of a division of naturals *)
LEMMA DivBounds ==
  ASSUME NEW a \in Nat, NEW t \in Nat, t > 0
  PROVE  /\ a \div t \in Nat
         /\ t * (a \div t) <= a
         /\ a < t * (a \div t) + t
  OBVIOUS

(* Division by a fixed number is monotone *)
LEMMA DivMonotone ==
  ASSUME NEW a \in Nat, NEW b \in Nat, a <= b, NEW t \in Nat, t > 0
  PROVE  a \div t <= b \div t
<1> DEFINE p == a \div t
           q == b \div t
<1>1. p \in Nat /\ t * p <= a
  BY DivBounds
<1>2. q \in Nat /\ b < t * q + t
  BY DivBounds
<1>3. SUFFICES ASSUME p >= q + 1 PROVE FALSE
  BY <1>1, <1>2
<1> HIDE DEF p, q
<1>4. t * p >= t * (q + 1)
  BY <1>1, <1>2, <1>3
<1>5. t * (q + 1) = t * q + t
  BY <1>2
<1> QED
  BY <1>1, <1>2, <1>4, <1>5

(* The cast to uint32_t never increases a number, and keeps those that fit *)
LEMMA TruncBounds ==
  ASSUME NEW x \in Nat
  PROVE  /\ Trunc(x) \in Nat /\ Trunc(x) <= x
         /\ x <= U32Max => Trunc(x) = x
<1>1. U32Max \in Nat
  BY U32Assumption
<1> DEFINE w == U32Max + 1
<1>2. w \in Nat /\ w > 0
  BY <1>1
<1>3. Trunc(x) = x % w
  BY DEF Trunc
<1> HIDE DEF w
<1>4. x % w \in 0..(w - 1)
  BY <1>2
<1>5. x = w * (x \div w) + (x % w) /\ x \div w \in Nat
  BY <1>2
<1>6. w * (x \div w) >= 0
  BY <1>2, <1>5
<1>7. x % w <= x
  BY <1>4, <1>5, <1>6, <1>2
<1>8. ASSUME x <= U32Max PROVE x % w = x
  BY <1>1, <1>8 DEF w
<1> QED
  BY <1>2, <1>3, <1>4, <1>7, <1>8

(* The ratio of a fragmented heap stays below 1000, whatever the product    *)
(* overflowed to: 1000 minus it does not underflow.                         *)
LEMMA RatioBounds ==
  ASSUME NEW t \in Word, NEW l \in Word, t > 0, l < t
  PROVE  /\ Ratio(t, l) \in 0..999
         /\ Ratio(t, l) <= (l * 1000) \div t
         /\ l * 1000 <= U32Max => Ratio(t, l) = (l * 1000) \div t
<1>1. t \in Nat /\ l \in Nat /\ l * 1000 \in Nat
  BY U32Assumption DEF Word
<1>2. /\ Trunc(l * 1000) \in Nat /\ Trunc(l * 1000) <= l * 1000
      /\ l * 1000 <= U32Max => Trunc(l * 1000) = l * 1000
  BY <1>1, TruncBounds
<1>3. Ratio(t, l) <= (l * 1000) \div t
  BY <1>1, <1>2, DivMonotone DEF Ratio
<1> DEFINE q == (l * 1000) \div t
<1>4. q \in Nat /\ t * q <= l * 1000
  BY <1>1, DivBounds
<1>5. q <= 999
  <2> SUFFICES ASSUME q >= 1000 PROVE FALSE
    BY <1>4
  <2> HIDE DEF q
  <2>1. t * q >= t * 1000
    BY <1>1, <1>4
  <2> QED
    BY <1>1, <1>4, <2>1
<1>6. Ratio(t, l) \in Nat
  BY <1>1, <1>2, DivBounds DEF Ratio
<1> QED
  BY <1>2, <1>3, <1>4, <1>5, <1>6 DEF Ratio

(* mt_calc_fragmentation *)
LEMMA PermilleBounds ==
  ASSUME NEW t \in Word, NEW l \in Word
  PROVE  /\ Permille(t, l) \in 0..1000
         /\ Permille(t, l) = 0 <=> l >= t
         /\ Permille(t, l) >= ExactPermille(t, l)
         /\ l * 1000 <= U32Max => Permille(t, l) = ExactPermille(t, l)
<1>1. t \in Nat /\ l \in Nat
  BY U32Assumption DEF Word
<1>2. CASE l >= t
  <2>1. Permille(t, l) = 0
    BY <1>2 DEF Permille, Unfragmented
  <2>2. ExactPermille(t, l) = 0
    BY <1>2 DEF ExactPermille
  <2> QED
    BY <1>2, <2>1, <2>2
<1>3. CASE l < t
  <2>1. ~Unfragmented(t, l)
    BY <1>1, <1>3 DEF Unfragmented
  <2>2. /\ Ratio(t, l) \in 0..999
        /\ Ratio(t, l) <= (l * 1000) \div t
        /\ l * 1000 <= U32Max => Ratio(t, l) = (l * 1000) \div t
    BY <1>1, <1>3, RatioBounds
  <2>3. 1000 - Ratio(t, l) \in 1..1000
    BY <2>2
  <2>4. Trunc(1000 - Ratio(t, l)) = 1000 - Ratio(t, l)
    BY <2>3, TruncBounds, MTFragAssumption, U32Assumption
  <2>5. Permille(t, l) = 1000 - Ratio(t, l)
    BY <2>1, <2>3, <2>4 DEF Permille
  <2>6. ExactPermille(t, l) = 1000 - (l * 1000) \div t
    BY <1>1, <1>3 DEF ExactPermille
  <2>7. (l * 1000) \div t \in Nat
    BY <1>1, <1>3, DivBounds
  <2> DEFINE q == (l * 1000) \div t
             r == Ratio(t, l)
             m == l * 1000
  <2>8. q \in Nat /\ r \in 0..999 /\ r <= q /\ (m <= U32Max => r = q) /\ ~(l >= t)
        /\ Permille(t, l) = 1000 - r /\ ExactPermille(t, l) = 1000 - q
    BY <1>1, <1>3, <2>2, <2>5, <2>6, <2>7
  <2> HIDE DEF q, r, m
  <2>9. /\ Permille(t, l) \in 0..1000 /\ Permille(t, l) # 0
        /\ Permille(t, l) >= ExactPermille(t, l)
        /\ m <= U32Max => Permille(t, l) = ExactPermille(t, l)
    BY <2>8
  <2> QED
    BY <2>8, <2>9 DEF m
<1> QED
  BY <1>1, <1>2, <1>3

(* Every permille has a class. *)
LEMMA ClassifyType ==
  ASSUME NEW permille \in Nat
  PROVE  Classify(permille) \in {OK, WARN, CRITICAL}
  BY MTFragAssumption DEF Classify

(* Off the upper threshold the class is one that the comments allow. *)
LEMMA ClassDocumented ==
  ASSUME NEW permille \in Nat, permille # WarnMax
  PROVE  Classify(permille) \in DocumentedHealth(permille)
<1>1. /\ Classify(permille) = OK /\ permille < OkMax
      \/ /\ Classify(permille) = WARN /\ permille >= OkMax /\ permille < WarnMax
      \/ /\ Classify(permille) = CRITICAL /\ permille > WarnMax
  BY MTFragAssumption DEF Classify
<1> QED
  BY <1>1, MTFragAssumption DEF DocumentedHealth, OK, WARN, CRITICAL

(* What is unpacked is what was packed *)
LEMMA Unpacked ==
  ASSUME NEW permille \in 0..1000, NEW health \in 0..3, NEW available \in 0..1
  PROVE  /\ PermilleOf(Pack(permille, health, available)) = permille
         /\ HealthOf(Pack(permille, health, available)) = health
         /\ AvailableOf(Pack(permille, health, available)) = available
  BY DEF Pack, PermilleOf, HealthOf, AvailableOf

(* The case of a build with heap walk *)
LEMMA UnpackedAvailable ==
  ASSUME NEW permille \in 0..1000, NEW health \in 0..3
  PROVE  /\ PermilleOf(Pack(permille, health, 1)) = permille
         /\ HealthOf(Pack(permille, health, 1)) = health
         /\ AvailableOf(Pack(permille, health, 1)) = 1
  BY DEF Pack, PermilleOf, HealthOf, AvailableOf

-----------------------------------------------------------------------------
(* The inductive invariant: the locals are words, and once they are        *)
(* computed the packed word and the statistics are those of the locals.    *)

Packed ==
  packed = IF walk
           THEN Pack(Permille(total_free, largest_free),
                     Classify(Permille(total_free, largest_free)), 1)
           ELSE Pack(0, NA, 0)

Stored ==
  stats = [total |-> total_free, largest |-> largest_free,
           permille |-> PermilleOf(packed), health |-> HealthOf(packed),
           na |-> AvailableOf(packed) = 0]

FragInv ==
  /\ walk \in BOOLEAN
  /\ heap \in Heaps
  /\ total_free \in Word /\ largest_free \in Word
  /\ ~walk => total_free = 0 /\ largest_free = 0
  /\ pc \in {"store", "done"} => Packed
  /\ pc = "done" => Stored

(* The values of the hooks are words. *)
LEMMA HeapWords ==
  ASSUME NEW h \in Heaps
  PROVE  h.total \in Word /\ h.largest \in Word
  BY MTFragAssumption

(* So is 0. *)
LEMMA ZeroIsWord == 0 \in Word
  BY U32Assumption DEF Word

(* FragInv holds at the start. *)
LEMMA FragInvInit == Init => FragInv
  BY ZeroIsWord DEF Init, FragInv

(* FragInv is kept by each step. *)
LEMMA FragInvNext == FragInv /\ [Next]_fragVars => FragInv'
<1> SUFFICES ASSUME FragInv, [Next]_fragVars PROVE FragInv'
  OBVIOUS
<1> USE DEF FragInv
<1>1. CASE ReadTotal
  BY <1>1, HeapWords, ZeroIsWord DEF ReadTotal
<1>2. CASE ReadLargest
  BY <1>2, HeapWords, ZeroIsWord DEF ReadLargest
<1>3. CASE PackResult
  BY <1>3 DEF PackResult, Packed
<1>4. CASE StoreStats
  BY <1>4 DEF StoreStats, Packed, Stored
<1>5. CASE Return
  BY <1>5, ZeroIsWord DEF Return
<1>6. CASE HeapMoves
  BY <1>6 DEF HeapMoves, Packed, Stored
<1>7. CASE UNCHANGED fragVars
  BY <1>7 DEF fragVars, Packed, Stored
<1> QED
  BY <1>1, <1>2, <1>3, <1>4, <1>5, <1>6, <1>7 DEF Next

(* FragInv holds always. *)
LEMMA FragInvariant == Spec => []FragInv
<1> QED
  BY FragInvInit, FragInvNext, PTL DEF Spec

(* What the statistics of a build with heap walk hold once mt_stats is done *)
LEMMA StatsOfWalk ==
  ASSUME FragInv, Done, walk
  PROVE  /\ stats.total = total_free /\ stats.largest = largest_free
         /\ stats.permille = Permille(total_free, largest_free)
         /\ stats.health = Classify(Permille(total_free, largest_free))
         /\ ~stats.na
<1>1. Packed /\ Stored
  BY DEF FragInv, Done
<1>2. total_free \in Word /\ largest_free \in Word
  BY DEF FragInv
<1> DEFINE permille == Permille(total_free, largest_free)
<1>3. permille \in 0..1000
  BY <1>2, PermilleBounds
<1>4. Classify(permille) \in 0..3
  BY <1>3, ClassifyType DEF OK, WARN, CRITICAL
<1>5. packed = Pack(permille, Classify(permille), 1)
  BY <1>1 DEF Packed
<1> DEFINE health == Classify(permille)
<1> HIDE DEF permille, health
<1>6. /\ PermilleOf(packed) = permille
      /\ HealthOf(packed) = health
      /\ AvailableOf(packed) = 1
  <2>1. 1 \in 0..1 /\ health \in 0..3 /\ packed = Pack(permille, health, 1)
    BY <1>4, <1>5 DEF health
  <2>2. /\ PermilleOf(Pack(permille, health, 1)) = permille
        /\ HealthOf(Pack(permille, health, 1)) = health
        /\ AvailableOf(Pack(permille, health, 1)) = 1
    BY <1>3, <2>1, UnpackedAvailable, SMTT(30)
  <2> QED
    BY <2>1, <2>2
<1>7. /\ stats.total = total_free /\ stats.largest = largest_free
      /\ stats.permille = PermilleOf(packed)
      /\ stats.health = HealthOf(packed)
      /\ stats.na = (AvailableOf(packed) = 0)
  BY <1>1 DEF Stored
<1>8. AvailableOf(packed) # 0
  BY <1>6
<1>9. ~stats.na
  BY <1>7, <1>8, Zenon
<1> QED
  BY <1>6, <1>7, <1>9 DEF permille, health

(* The permille of mt_stats is within 0..1000 for every word width, however *)
(* the product overflows and the heap moves between the two hooks, and it   *)
(* is 0 only when nothing is fragmented.  The overflow can only overstate:  *)
(* an allocator is never reported to be in a better state than it is, and   *)
(* the permille is exact when the product fits in a word.                   *)
THEOREM FragIsSound == Spec => []FragSound
<1>1. FragInv => FragSound
  <2> SUFFICES ASSUME FragInv, Done, walk
               PROVE  LET exact == ExactPermille(stats.total, stats.largest)
                      IN  /\ stats.permille \in 0..1000
                          /\ stats.permille = 0 <=> stats.largest >= stats.total
                          /\ stats.permille >= exact
                          /\ stats.largest * 1000 <= U32Max => stats.permille = exact
    BY DEF FragSound
  <2>1. total_free \in Word /\ largest_free \in Word
    BY DEF FragInv
  <2>2. /\ stats.total = total_free /\ stats.largest = largest_free
        /\ stats.permille = Permille(total_free, largest_free)
    BY StatsOfWalk
  <2>3. /\ Permille(total_free, largest_free) >= ExactPermille(total_free, largest_free)
        /\ largest_free * 1000 <= U32Max =>
             Permille(total_free, largest_free) = ExactPermille(total_free, largest_free)
    BY <2>1, PermilleBounds
  <2>4. /\ stats.permille \in 0..1000
        /\ stats.permille = 0 <=> stats.largest >= stats.total
    BY <2>1, StatsOfWalk, PermilleBounds
  <2> QED
    BY <2>2, <2>3, <2>4
<1> QED
  BY <1>1, FragInvariant, PTL

(* The class is one that the comments allow for the permille it is returned *)
(* with, off the upper threshold, and the flag FRAG_NA agrees with both,    *)
(* after the round trip through the packed word and in both builds.         *)
THEOREM HealthIsThatOfPermille == Spec => []HealthMatches
<1>1. FragInv => HealthMatches
  <2> SUFFICES ASSUME FragInv, Done PROVE HealthMatches
    BY DEF HealthMatches
  <2>1. CASE walk
    <3>1. stats.permille = Permille(total_free, largest_free) /\ ~stats.na
      BY <2>1, StatsOfWalk
    <3>2. stats.health = Classify(stats.permille)
      BY <2>1, StatsOfWalk
    <3>3. stats.permille \in Nat
      <4>1. total_free \in Word /\ largest_free \in Word
        BY DEF FragInv
      <4>2. Permille(total_free, largest_free) \in 0..1000
        BY <4>1, PermilleBounds
      <4> QED
        BY <3>1, <4>2
    <3>4. stats.health # NA
      BY <3>2, <3>3, ClassifyType DEF OK, WARN, CRITICAL, NA
    <3>5. stats.permille # WarnMax => stats.health \in DocumentedHealth(stats.permille)
      BY <3>2, <3>3, ClassDocumented
    <3> QED
      BY <2>1, <3>1, <3>4, <3>5 DEF HealthMatches
  <2>2. CASE ~walk
    <3>1. packed = Pack(0, NA, 0) /\ Stored
      BY <2>2 DEF FragInv, Done, Packed
    <3>2. PermilleOf(packed) = 0 /\ HealthOf(packed) = 3 /\ AvailableOf(packed) = 0
      <4>1. /\ PermilleOf(Pack(0, 3, 0)) = 0 /\ HealthOf(Pack(0, 3, 0)) = 3
            /\ AvailableOf(Pack(0, 3, 0)) = 0
        BY DEF Pack, PermilleOf, HealthOf, AvailableOf
      <4> QED
        BY <3>1, <4>1, Zenon DEF NA
    <3>3. total_free = 0 /\ largest_free = 0
      BY <2>2 DEF FragInv
    <3>4. stats = [total |-> 0, largest |-> 0, permille |-> 0, health |-> 3,
                   na |-> TRUE]
      BY <3>1, <3>2, <3>3 DEF Stored
    <3>5. /\ stats.na /\ stats.health = NA
          /\ stats.permille = 0 /\ stats.total = 0 /\ stats.largest = 0
      BY <3>4 DEF NA
    <3> QED
      BY <2>2, <3>5 DEF HealthMatches
  <2> QED
    BY <2>1, <2>2 DEF FragInv
<1> QED
  BY <1>1, FragInvariant, PTL

-----------------------------------------------------------------------------
(* The telemetry tick *)

(* The difference of two tick counts, with the wrapping spelled out *)
Apart == IF now >= last_ticks THEN now - last_ticks
         ELSE now - last_ticks + TickMax + 1

(* The real time since the last line is what the counters say, or longer by *)
(* full rounds of the counter.                                              *)
TimeInv ==
  /\ now \in 0..TickMax /\ last_ticks \in 0..TickMax
  /\ passed \in Nat /\ passed >= Apart
  /\ passed <= TickMax => passed = Apart

(* A counter that wraps, one tick later. *)
LEMMA WrapOne ==
  ASSUME NEW x \in 0..TickMax
  PROVE  (x + 1) % (TickMax + 1) = IF x = TickMax THEN 0 ELSE x + 1
<1> USE MTTelemetryAssumption
<1>1. CASE x = TickMax
  BY <1>1
<1>2. CASE x # TickMax
  BY <1>2
<1> QED
  BY <1>1, <1>2

(* Delta is the distance of the two counts, full rounds left out. *)
LEMMA DeltaIsApart ==
  ASSUME now \in 0..TickMax, last_ticks \in 0..TickMax
  PROVE  Delta = Apart
<1> USE MTTelemetryAssumption
<1>1. CASE now >= last_ticks
  BY <1>1 DEF Delta, Apart
<1>2. CASE now < last_ticks
  BY <1>2 DEF Delta, Apart
<1> QED
  BY <1>1, <1>2

PacedInv == TimeInv /\ TelemetryPaced

(* Each step keeps what relates the counter to the time. *)
LEMMA PacedStep ==
  ASSUME PacedInv, [TelemetryNext]_telemetryVars
  PROVE  PacedInv'
<1> USE MTTelemetryAssumption
<1>1. CASE TimePasses
  <2>1. now' = IF now = TickMax THEN 0 ELSE now + 1
    BY <1>1, WrapOne DEF TimePasses, PacedInv, TimeInv
  <2>2. last_ticks' = last_ticks /\ passed' = passed + 1 /\ tick' = NoCall
    BY <1>1 DEF TimePasses
  <2>3. TimeInv'
    BY <2>1, <2>2 DEF PacedInv, TimeInv, Apart
  <2>4. TelemetryPaced'
    BY <2>2 DEF TelemetryPaced, NoCall
  <2> QED
    BY <2>3, <2>4 DEF PacedInv
<1>2. CASE TickEarly
  <2>1. TimeInv'
    BY <1>2 DEF TickEarly, PacedInv, TimeInv, Apart
  <2>2. Delta = Apart
    BY DeltaIsApart DEF PacedInv, TimeInv
  <2>3. tick' = [found |-> "early", after |-> passed] /\ Apart < Period
    BY <1>2, <2>2 DEF TickEarly
  <2>4. passed < Period \/ passed > TickMax
    BY <2>3 DEF PacedInv, TimeInv
  <2>5. TelemetryPaced'
    BY <2>3, <2>4 DEF TelemetryPaced
  <2> QED
    BY <2>1, <2>5 DEF PacedInv
<1>3. CASE TickDue
  <2>1. TimeInv'
    BY <1>3 DEF TickDue, PacedInv, TimeInv, Apart
  <2>2. Delta = Apart
    BY DeltaIsApart DEF PacedInv, TimeInv
  <2>3. tick' = [found |-> "due", after |-> passed] /\ Apart >= Period
    BY <1>3, <2>2 DEF TickDue
  <2>4. passed >= Period
    BY <2>3 DEF PacedInv, TimeInv, Apart
  <2>5. TelemetryPaced'
    BY <2>3, <2>4 DEF TelemetryPaced
  <2> QED
    BY <2>1, <2>5 DEF PacedInv
<1>4. CASE UNCHANGED <<now, last_ticks, passed, tick>>
  BY <1>4 DEF PacedInv, TimeInv, TelemetryPaced, Apart
<1> QED
  BY <1>1, <1>2, <1>3, <1>4
     DEF TelemetryNext, StatsStep, WriteLine, telemetryVars, tickVars

(* However the tick counter wraps, a line is written only after a full      *)
(* period, and a call is put off only before that or when the counter has   *)
(* gone round.                                                              *)
THEOREM Paced == TelemetrySpec => []TelemetryPaced
<1>1. TelemetryInit => PacedInv
  BY MTTelemetryAssumption
     DEF TelemetryInit, PacedInv, TimeInv, TelemetryPaced, Apart, NoCall
<1>2. PacedInv /\ [TelemetryNext]_telemetryVars => PacedInv'
  BY PacedStep
<1>3. PacedInv => TelemetryPaced
  BY DEF PacedInv
<1> QED
  BY <1>1, <1>2, <1>3, PTL DEF TelemetrySpec

-----------------------------------------------------------------------------
(* The list of hotspots *)

(* An entry, whatever number its last event has *)
EntryRec == [site : Site, allocs : Word, bytes : Word, last_seq : Nat]

SitesDiffer ==
  \A g, h \in 0..(hotspots_used - 1) : hotspots[g].site = hotspots[h].site => g = h

DumpLineRec == [of : HotspotIndex, entry : EntryRec]

SinceRec == {<<>>} \cup [HotspotIndex -> EntryRec]

DumpRec == [pc : {"idle", "sort", "compare", "print", "done"},
            indices : Seq(HotspotIndex), i : Nat, j : Nat, since : SinceRec,
            read : SUBSET Count, row : EntryRec,
            lines : Seq(DumpLineRec), drops : Word]

DumpTypes ==
  /\ hotspots \in [HotspotIndex -> EntryRec]
  /\ hotspots_used \in 0..MaxHotspots
  /\ hotspots_drop \in Word /\ events \in Nat
  /\ dump \in DumpRec

Positions == 1..Len(dump.indices)

IndexAt(k) == dump.indices[k]

(* The indices are those of the entries there were, in some order. *)
IndicesPermuted ==
  /\ Len(dump.indices) = before.used /\ before.used <= hotspots_used
  /\ \A k \in Positions : IndexAt(k) < before.used
  /\ \A k, l \in Positions : IndexAt(k) = IndexAt(l) => k = l
  /\ \A h \in 0..(before.used - 1) : \E k \in Positions : h = IndexAt(k)

(* Where the loops are, and which lines are written *)
DumpLoops ==
  /\ dump.pc \in {"sort", "compare"} =>
       dump.i >= 1 /\ dump.i < dump.j /\ dump.lines = <<>>
  /\ dump.pc = "compare" => dump.j <= Len(dump.indices)
  /\ dump.pc = "print" => dump.i = Len(dump.lines) + 1
  /\ dump.read # {} => dump.pc = "print" /\ dump.i <= Printed
  /\ dump.pc = "done" => Len(dump.lines) = Printed
  /\ Len(dump.lines) <= Printed
  /\ \A k \in DOMAIN dump.lines : dump.lines[k].of = IndexAt(k)

(* The entry at position k is to be listed before that at position l. *)
Sooner(k, l) == Precedes(hotspots[IndexAt(k)], hotspots[IndexAt(l)])

(* What was read for the next line is in entry e. *)
RowOf(e) ==
  /\ dump.read # {} => dump.row.site = e.site
  /\ "allocs" \in dump.read => dump.row.allocs = e.allocs
  /\ "bytes" \in dump.read => dump.row.bytes = e.bytes
  /\ "last_seq" \in dump.read => dump.row.last_seq = e.last_seq

(* What is sorted and read so far, when nobody changes the counts *)
SortedInv ==
  /\ hotspots_used = before.used
  /\ dump.pc = "compare" => dump.since = hotspots
  /\ RowOf(hotspots[IndexAt(dump.i)])
  /\ dump.pc \in {"sort", "compare"} =>
       \A k, l \in Positions :
         k < l /\ (k < dump.i \/ (k = dump.i /\ l < dump.j)) => Sooner(k, l)
  /\ dump.pc \in {"print", "done"} => \A k, l \in Positions : k < l => Sooner(k, l)
  /\ \A k \in DOMAIN dump.lines : dump.lines[k].entry = hotspots[IndexAt(k)]
  /\ dump.pc = "done" /\ hotspots_used > 0 => dump.drops = hotspots_drop

DumpInv ==
  /\ DumpTypes /\ SitesDiffer
  /\ dump.pc = "idle" => dump = NoDump /\ before = NothingBefore
  /\ dump.pc # "idle" =>
       /\ before = [used |-> before.used, table |-> before.table, quiet |-> before.quiet]
       /\ IndicesPermuted /\ DumpLoops
       /\ before.quiet => SortedInv

(* The order of the list is transitive, and total where sites differ. *)
LEMMA PrecedesOrder ==
  ASSUME NEW a \in EntryRec, NEW b \in EntryRec, NEW c \in EntryRec
  PROVE  /\ Precedes(a, b) /\ Precedes(b, c) => Precedes(a, c)
         /\ a.site # b.site /\ ~Precedes(b, a) => Precedes(a, b)
<1>1. /\ a.allocs \in Int /\ b.allocs \in Int /\ c.allocs \in Int
      /\ a.bytes \in Int /\ b.bytes \in Int /\ c.bytes \in Int
  BY U32Assumption DEF EntryRec, Word
<1>2. /\ a.site[1] \in Int /\ b.site[1] \in Int /\ c.site[1] \in Int
      /\ a.site[2] \in Int /\ b.site[2] \in Int /\ c.site[2] \in Int
      /\ a.site = <<a.site[1], a.site[2]>> /\ b.site = <<b.site[1], b.site[2]>>
  BY U32Assumption, HotspotsAssumption DEF EntryRec, Site, Word
<1>3. a.site # b.site => a.site[1] # b.site[1] \/ a.site[2] # b.site[2]
  BY <1>2
<1>4. Precedes(a, b) /\ Precedes(b, c) => Precedes(a, c)
  BY <1>1, <1>2 DEF Precedes
<1>5. a.site # b.site /\ ~Precedes(b, a) => Precedes(a, b)
  BY <1>1, <1>2, <1>3 DEF Precedes
<1> QED
  BY <1>4, <1>5

(* Results of the 32-bit operations are words. *)
LEMMA WordResults ==
  ASSUME NEW x \in Word, NEW n \in Word
  PROVE  Inc(x) \in Word /\ Trunc(x + n) \in Word /\ 0 \in Word /\ 1 \in Word
BY U32Assumption DEF Inc, Trunc, Word

(* What recording an event does to the table *)
LEMMA RecordEffect ==
  ASSUME hotspots \in [HotspotIndex -> EntryRec], hotspots_used \in 0..MaxHotspots,
         hotspots_drop \in Word, SitesDiffer,
         NEW site \in Site, NEW n \in Word, NEW s \in Nat, HotspotRecord(site, n, s)
  PROVE  /\ hotspots' \in [HotspotIndex -> EntryRec]
         /\ hotspots_used' \in 0..MaxHotspots /\ hotspots_used <= hotspots_used'
         /\ hotspots_drop' \in Word /\ SitesDiffer'
         /\ \A h \in HotspotIndex :
              \/ hotspots'[h] = hotspots[h]
              \/ /\ hotspots'[h].site = hotspots[h].site
                 /\ hotspots'[h].allocs = Inc(hotspots[h].allocs)
                 /\ hotspots'[h].bytes = Trunc(hotspots[h].bytes + n)
              \/ /\ h >= hotspots_used
                 /\ hotspots'[h].allocs = 1 /\ hotspots'[h].bytes = n
<1>0. /\ MaxHotspots \in Nat /\ hotspots_used \in Nat
      /\ \A h \in 0..(hotspots_used - 1) : h \in HotspotIndex
  BY HotspotsAssumption DEF HotspotIndex
<1>1. CASE HotspotUpdate(site, n, s)
  <2>1. PICK h \in 0..(hotspots_used - 1) :
          /\ hotspots[h].site = site
          /\ hotspots' = [hotspots EXCEPT ![h] =
                            [site |-> site,
                             allocs |-> Inc(@.allocs),
                             bytes |-> Trunc(@.bytes + n),
                             last_seq |-> s]]
    BY <1>1 DEF HotspotUpdate
  <2>2. h \in HotspotIndex /\ hotspots[h].allocs \in Word /\ hotspots[h].bytes \in Word
    BY <1>0 DEF EntryRec
  <2> DEFINE e == [site |-> site, allocs |-> Inc(hotspots[h].allocs),
                   bytes |-> Trunc(hotspots[h].bytes + n), last_seq |-> s]
  <2>3. e \in EntryRec
    BY <2>2, WordResults DEF EntryRec
  <2>4. hotspots' = [hotspots EXCEPT ![h] = e]
    BY <2>1
  <2>5. /\ e.site = site /\ e.allocs = Inc(hotspots[h].allocs)
        /\ e.bytes = Trunc(hotspots[h].bytes + n)
    OBVIOUS
  <2> HIDE DEF e
  <2>6. /\ hotspots' \in [HotspotIndex -> EntryRec] /\ hotspots'[h] = e
        /\ \A g \in HotspotIndex : g # h => hotspots'[g] = hotspots[g]
    BY <2>2, <2>3, <2>4
  <2>7. UNCHANGED <<hotspots_used, hotspots_drop>>
    BY <1>1 DEF HotspotUpdate
  <2>8. \A g \in HotspotIndex : hotspots'[g].site = hotspots[g].site
    BY <2>1, <2>5, <2>6
  <2>9. SitesDiffer'
    BY <1>0, <2>7, <2>8 DEF SitesDiffer
  <2> QED
    BY <1>0, <2>1, <2>5, <2>6, <2>7, <2>9
<1>2. CASE HotspotInsert(site, n, s)
  <2> DEFINE e == [site |-> site, allocs |-> 1, bytes |-> n, last_seq |-> s]
             h == hotspots_used
  <2>1. h \in HotspotIndex /\ h + 1 \in 0..MaxHotspots
    BY <1>0, <1>2 DEF HotspotInsert, HotspotIndex
  <2>2. e \in EntryRec
    BY WordResults DEF EntryRec
  <2>3. hotspots' = [hotspots EXCEPT ![h] = e]
    BY <1>2 DEF HotspotInsert
  <2>4. e.site = site /\ e.allocs = 1 /\ e.bytes = n
    OBVIOUS
  <2> HIDE DEF e
  <2>5. /\ hotspots' \in [HotspotIndex -> EntryRec] /\ hotspots'[h] = e
        /\ \A g \in HotspotIndex : g # h => hotspots'[g] = hotspots[g]
    BY <2>1, <2>2, <2>3
  <2>6. hotspots_used' = h + 1 /\ UNCHANGED hotspots_drop
    BY <1>2 DEF HotspotInsert
  <2>7. \A g \in 0..(h - 1) : hotspots'[g] = hotspots[g] /\ hotspots[g].site # site
    BY <1>0, <1>2, <2>5 DEF HotspotInsert, NewSite
  <2>8. SitesDiffer'
    <3> SUFFICES ASSUME NEW g \in 0..h, NEW k \in 0..h,
                        hotspots'[g].site = hotspots'[k].site
                 PROVE  g = k
      BY <1>0, <2>6 DEF SitesDiffer
    <3>1. (g \in 0..(h - 1) \/ g = h) /\ (k \in 0..(h - 1) \/ k = h)
      BY <1>0
    <3> QED
      BY <2>4, <2>5, <2>7, <3>1 DEF SitesDiffer
  <2> QED
    BY <1>0, <2>1, <2>4, <2>5, <2>6, <2>8
<1>3. CASE HotspotOverflow(site)
  <2>1. UNCHANGED <<hotspots, hotspots_used>> /\ hotspots_drop' = Inc(hotspots_drop)
    BY <1>3 DEF HotspotOverflow
  <2> QED
    BY <1>0, <2>1, WordResults DEF SitesDiffer
<1> QED
  BY <1>1, <1>2, <1>3 DEF HotspotRecord

(* What the places of the list hold *)
LEMMA IndexTypes ==
  ASSUME DumpInv, dump.pc # "idle"
  PROVE  /\ dump.indices \in Seq(HotspotIndex) /\ Len(dump.indices) \in Nat
         /\ DOMAIN dump.indices = Positions
         /\ \A k \in Positions : /\ IndexAt(k) \in HotspotIndex
                                 /\ IndexAt(k) \in 0..(hotspots_used - 1)
                                 /\ hotspots[IndexAt(k)] \in EntryRec
         /\ \A k, l \in Positions : k # l =>
              hotspots[IndexAt(k)].site # hotspots[IndexAt(l)].site
         /\ Len(dump.lines) \in Nat /\ DOMAIN dump.lines = 1..Len(dump.lines)
         /\ Printed \in Nat /\ Printed <= Len(dump.indices) /\ DumpLimit \in Nat
<1>1. /\ dump.indices \in Seq(HotspotIndex) /\ Len(dump.indices) \in Nat
      /\ DOMAIN dump.indices = Positions
      /\ Len(dump.lines) \in Nat /\ DOMAIN dump.lines = 1..Len(dump.lines)
  BY LenProperties DEF DumpInv, DumpTypes, DumpRec, Positions
<1>2. Printed \in Nat /\ Printed <= Len(dump.indices) /\ DumpLimit \in Nat
  BY <1>1, HotspotDumpAssumption DEF Printed
<1>3. \A k \in Positions : IndexAt(k) \in HotspotIndex
  BY <1>1, ElementOfSeq DEF Positions, IndexAt
<1>4. before.used \in Nat /\ before.used <= hotspots_used /\ hotspots_used \in Nat
  BY <1>1, HotspotsAssumption DEF DumpInv, DumpTypes, IndicesPermuted
<1>5. \A k \in Positions : IndexAt(k) \in 0..(hotspots_used - 1)
  <2> TAKE k \in Positions
  <2>1. IndexAt(k) < before.used /\ IndexAt(k) \in Nat
    BY <1>3 DEF DumpInv, IndicesPermuted, HotspotIndex
  <2> QED
    BY <1>4, <2>1
<1>6. \A k, l \in Positions : k # l =>
        hotspots[IndexAt(k)].site # hotspots[IndexAt(l)].site
  BY <1>5 DEF DumpInv, SitesDiffer, IndicesPermuted
<1> QED
  BY <1>1, <1>2, <1>3, <1>5, <1>6 DEF DumpInv, DumpTypes

(* A step of a dump in progress that leaves the table alone keeps the       *)
(* invariant if it only permutes the indices and keeps what is sorted.      *)
LEMMA DumpGoesOn ==
  ASSUME DumpInv, DumpStep, dump.pc # "idle", dump' \in DumpRec, dump'.pc # "idle",
         Positions' = Positions,
         \A k \in Positions : \E l \in Positions : IndexAt(k)' = IndexAt(l),
         \A k \in Positions : \E l \in Positions : IndexAt(k) = IndexAt(l)',
         \A k, l \in Positions : IndexAt(k)' = IndexAt(l)' => k = l,
         DumpLoops', before.quiet => SortedInv'
  PROVE  DumpInv'
<1>1. UNCHANGED <<hotspots, hotspots_used, hotspots_drop, events, before>>
  BY DEF DumpStep, hotspotVars
<1>2. DumpTypes' /\ SitesDiffer'
  BY <1>1 DEF DumpInv, DumpTypes, SitesDiffer
<1>3. Len(dump'.indices) = Len(dump.indices)
  <2>1. Len(dump'.indices) \in Nat /\ Len(dump.indices) \in Nat
    BY LenProperties DEF DumpInv, DumpTypes, DumpRec
  <2> QED
    BY <2>1 DEF Positions
<1>4. IndicesPermuted'
  BY <1>1, <1>3 DEF DumpInv, IndicesPermuted
<1> QED
  BY <1>1, <1>2, <1>4 DEF DumpInv

(* A step that leaves the indices alone, too *)
LEMMA DumpContinues ==
  ASSUME DumpInv, DumpStep, dump.pc # "idle", dump' \in DumpRec, dump'.pc # "idle",
         dump'.indices = dump.indices, DumpLoops', before.quiet => SortedInv'
  PROVE  DumpInv'
<1>1. Positions' = Positions /\ \A k : IndexAt(k)' = IndexAt(k)
  BY DEF Positions, IndexAt
<1>2. \A k, l \in Positions : IndexAt(k) = IndexAt(l) => k = l
  BY DEF DumpInv, IndicesPermuted
<1> QED
  BY <1>1, <1>2, DumpGoesOn

(* Two places of a sequence are exchanged. *)
LEMMA ExchangeEffect ==
  ASSUME NEW S, NEW x \in Seq(S), NEW i, NEW j, i \in 1..Len(x), j \in 1..Len(x), i # j
  PROVE  /\ Exchange(x, i, j) \in Seq(S) /\ Len(Exchange(x, i, j)) = Len(x)
         /\ Exchange(x, i, j)[i] = x[j] /\ Exchange(x, i, j)[j] = x[i]
         /\ \A k \in 1..Len(x) : k \notin {i, j} => Exchange(x, i, j)[k] = x[k]
<1> DEFINE y == [x EXCEPT ![i] = x[j]]
<1>1. x[i] \in S /\ x[j] \in S
  BY ElementOfSeq
<1>2. /\ y \in Seq(S) /\ Len(y) = Len(x)
      /\ \A k \in 1..Len(x) : y[k] = IF k = i THEN x[j] ELSE x[k]
  BY <1>1, ExceptSeq
<1>3. Exchange(x, i, j) = [y EXCEPT ![j] = x[i]]
  BY DEF Exchange
<1> HIDE DEF y
<1>4. /\ [y EXCEPT ![j] = x[i]] \in Seq(S) /\ Len([y EXCEPT ![j] = x[i]]) = Len(y)
      /\ \A k \in 1..Len(y) : [y EXCEPT ![j] = x[i]][k] = IF k = j THEN x[i] ELSE y[k]
  BY <1>1, <1>2, ExceptSeq
<1> QED
  BY <1>2, <1>3, <1>4

(* No entry, and no dump *)
LEMMA NoDumpType == NoHotspot \in EntryRec /\ NoDump \in DumpRec /\ NoDump.pc = "idle"
<1>1. 0 \in Word /\ 0 \in 0..LineMax /\ 0 \in Nat
  BY U32Assumption, HotspotsAssumption DEF Word
<1>2. <<0, 0>> \in Site
  BY <1>1 DEF Site
<1>3. NoHotspot \in EntryRec
  BY <1>1, <1>2 DEF NoHotspot, EntryRec
<1>4. <<>> \in SinceRec
  BY DEF SinceRec
<1> QED
  BY <1>1, <1>3, <1>4, EmptySeq DEF NoDump, DumpRec

(* The dump begins with the indices in the order of the table. *)
LEMMA BeginKeeps ==
  ASSUME DumpInv, DumpBegin
  PROVE  DumpInv'
<1> DEFINE n == hotspots_used
           x == [k \in 1..hotspots_used |-> k - 1]
           p == IF hotspots_used = 0 THEN "done" ELSE "sort"
<1>1. n \in Nat /\ n <= MaxHotspots /\ MaxHotspots \in Nat
  BY HotspotsAssumption DEF DumpInv, DumpTypes
<1>2. x \in Seq(HotspotIndex) /\ Len(x) = n /\ \A k \in 1..n : x[k] = k - 1
  <2>1. \A k \in 1..n : k - 1 \in HotspotIndex
    BY <1>1 DEF HotspotIndex
  <2> QED
    BY <1>1, <2>1, IsASeq
<1>3. /\ dump' = [NoDump EXCEPT !.pc = p, !.indices = x]
      /\ before' = [used |-> n, table |-> hotspots, quiet |-> TRUE]
      /\ UNCHANGED <<hotspots, hotspots_used, hotspots_drop, events>>
  BY DEF DumpBegin, hotspotVars
<1>4. (p = "done" /\ n = 0) \/ (p = "sort" /\ n > 0)
  BY <1>1
<1>5. p \in {"sort", "done"} /\ <<>> \in Seq(DumpLineRec) /\ 0 \in Word
  BY <1>4, EmptySeq, U32Assumption DEF Word
<1> HIDE DEF n, x, p
<1>6. /\ dump' \in DumpRec /\ dump'.pc = p /\ dump'.indices = x /\ dump'.i = 1
      /\ dump'.j = 2 /\ dump'.lines = <<>> /\ dump'.read = {}
  BY <1>2, <1>3, <1>5, NoDumpType DEF NoDump, DumpRec
<1>7. DumpTypes' /\ SitesDiffer'
  BY <1>3, <1>6 DEF DumpInv, DumpTypes, SitesDiffer
<1>8. Positions' = 1..n /\ \A k \in 1..n : IndexAt(k)' = k - 1
  BY <1>2, <1>6 DEF Positions, IndexAt
<1>9. IndicesPermuted'
  <2>1. \A h \in 0..(n - 1) : h + 1 \in 1..n /\ h = (h + 1) - 1
    BY <1>1
  <2>2. \A h \in 0..(n - 1) : \E k \in 1..n : h = k - 1
    BY <2>1
  <2>3. \A k, l \in 1..n : k - 1 < n /\ (k - 1 = l - 1 => k = l)
    BY <1>1
  <2>4. hotspots_used' = n /\ Len(dump'.indices) = n /\ n <= n
    BY <1>1, <1>2, <1>3, <1>6 DEF n
  <2> QED
    BY <1>3, <1>8, <2>2, <2>3, <2>4 DEF IndicesPermuted
<1>10. Len(dump'.lines) = 0 /\ DOMAIN dump'.lines = {}
  BY <1>6
<1>11. Printed' \in Nat /\ (n = 0 => Printed' = 0)
  BY <1>1, <1>2, <1>6, HotspotDumpAssumption DEF Printed
<1>12. DumpLoops'
  BY <1>4, <1>6, <1>10, <1>11 DEF DumpLoops
<1>13. SortedInv'
  <2>1. hotspots_used' = before'.used
    BY <1>3 DEF n
  <2>2. \A k, l \in 1..n : ~(k < l /\ (k < 1 \/ (k = 1 /\ l < 2)))
    BY <1>1
  <2>3. p = "done" => \A k, l \in 1..n : FALSE
    BY <1>4
  <2>4. ~(p = "done" /\ hotspots_used > 0)
    BY <1>4 DEF n
  <2> QED
    BY <1>3, <1>5, <1>6, <1>8, <1>10, <2>1, <2>2, <2>3, <2>4 DEF SortedInv, RowOf
<1> QED
  BY <1>3, <1>5, <1>6, <1>7, <1>9, <1>12, <1>13 DEF DumpInv

(* Two entries in the wrong order change places. *)
LEMMA SwapKeeps ==
  ASSUME DumpInv, DumpStep, DumpAt("compare"),
         before.quiet => Precedes(hotspots[IndexAt(dump.j)], hotspots[IndexAt(dump.i)]),
         dump' = [dump EXCEPT !.j = @ + 1, !.since = <<>>, !.pc = "sort",
                    !.indices = Exchange(@, dump.i, dump.j)]
  PROVE  DumpInv'
<1>0. PICK n, i, j, m, x : /\ n = Len(dump.indices) /\ i = dump.i /\ j = dump.j
                           /\ m = dump.j + 1
                           /\ x = Exchange(dump.indices, dump.i, dump.j)
  OBVIOUS
<1>1. /\ dump \in DumpRec /\ dump.pc = "compare" /\ dump.indices \in Seq(HotspotIndex)
      /\ n \in Nat /\ i \in 1..n /\ j \in 1..n /\ i < j /\ m = j + 1 /\ m \in Nat
      /\ Positions = 1..n /\ dump.lines = <<>> /\ dump.read = {}
  BY <1>0, IndexTypes DEF DumpInv, DumpTypes, DumpRec, DumpLoops, DumpAt, Positions
<1>2. /\ x \in Seq(HotspotIndex) /\ Len(x) = n
      /\ x[i] = dump.indices[j] /\ x[j] = dump.indices[i]
      /\ \A k \in 1..n : k \notin {i, j} => x[k] = dump.indices[k]
  <2>1. PICK y \in Seq(HotspotIndex) : y = dump.indices
    BY <1>1
  <2>2. i \in 1..Len(y) /\ j \in 1..Len(y) /\ i # j /\ x = Exchange(y, i, j)
    BY <1>0, <1>1, <2>1
  <2>3. /\ x \in Seq(HotspotIndex) /\ Len(x) = Len(y) /\ x[i] = y[j] /\ x[j] = y[i]
        /\ \A k \in 1..Len(y) : k \notin {i, j} => x[k] = y[k]
    BY <2>2, ExchangeEffect
  <2> QED
    BY <1>0, <2>1, <2>3
<1>3. dump' = [dump EXCEPT !.j = m, !.since = <<>>, !.pc = "sort", !.indices = x]
  BY <1>0
<1>4. /\ dump' \in DumpRec /\ dump'.pc = "sort" /\ dump'.i = i /\ dump'.j = m
      /\ dump'.indices = x /\ dump'.lines = <<>> /\ dump'.read = {}
  <2>1. <<>> \in SinceRec
    BY DEF SinceRec
  <2> QED
    BY <1>0, <1>1, <1>2, <1>3, <2>1 DEF DumpRec
<1>5. Positions' = 1..n /\ \A k : IndexAt(k)' = x[k]
  BY <1>2, <1>4 DEF Positions, IndexAt
<1>6. ASSUME NEW k \in 1..n
      PROVE  \E l \in 1..n : x[k] = IndexAt(l) /\ IndexAt(k) = x[l]
  <2>1. k = i \/ k = j \/ (k \notin {i, j} /\ x[k] = IndexAt(k))
    BY <1>2 DEF IndexAt
  <2> QED
    BY <1>1, <1>2, <2>1 DEF IndexAt
<1>7. ASSUME NEW k \in 1..n, NEW l \in 1..n, x[k] = x[l]
      PROVE  k = l
  <2>1. \A v, w \in 1..n : dump.indices[v] = dump.indices[w] => v = w
    BY <1>1 DEF DumpInv, IndicesPermuted, IndexAt
  <2>2. i \in 1..n /\ j \in 1..n /\ i # j
    BY <1>1
  <2>3. CASE k = i
    BY <1>2, <1>7, <2>1, <2>2, <2>3
  <2>4. CASE k = j
    BY <1>2, <1>7, <2>1, <2>2, <2>4
  <2>5. CASE k \notin {i, j}
    BY <1>2, <1>7, <2>1, <2>2, <2>5
  <2> QED
    BY <2>3, <2>4, <2>5
<1>8. DumpLoops'
  <2>1. Len(dump'.lines) = 0 /\ DOMAIN dump'.lines = {} /\ i >= 1 /\ i < m
    BY <1>1, <1>4
  <2>2. Printed' \in Nat
    BY <1>1, <1>2, <1>4, HotspotDumpAssumption DEF Printed
  <2> QED
    BY <1>4, <2>1, <2>2 DEF DumpLoops
<1>9. ASSUME before.quiet
      PROVE  SortedInv'
  <2>1. \A k, l \in 1..n : k < l /\ (k < i \/ (k = i /\ l < j)) => Sooner(k, l)
    BY <1>0, <1>1, <1>9 DEF DumpInv, SortedInv
  <2>2. Sooner(j, i)
    BY <1>0, <1>9 DEF Sooner
  <2>3. \A k \in 1..n : hotspots[IndexAt(k)] \in EntryRec
    BY <1>1, IndexTypes
  <2>4. /\ IndexAt(i)' = IndexAt(j) /\ IndexAt(j)' = IndexAt(i)
        /\ \A k \in 1..n : k \notin {i, j} => IndexAt(k)' = IndexAt(k)
        /\ hotspots' = hotspots
    BY <1>2, <1>5 DEF IndexAt, DumpStep, hotspotVars
  <2>5. ASSUME NEW k \in 1..n, NEW l \in 1..n, k < l, k < i \/ (k = i /\ l < m)
        PROVE  Sooner(k, l)'
    <3>1. CASE k < i /\ l \notin {i, j}
      <4>1. k \notin {i, j} /\ Sooner(k, l)
        BY <1>1, <2>1, <2>5, <3>1
      <4> QED
        BY <2>4, <3>1, <4>1 DEF Sooner
    <3>2. CASE k < i /\ l \in {i, j}
      <4>1. k \notin {i, j} /\ Sooner(k, i) /\ Sooner(k, j)
        BY <1>1, <2>1, <2>5, <3>2
      <4> QED
        BY <2>4, <3>2, <4>1 DEF Sooner
    <3>3. CASE k = i /\ l = j
      BY <2>2, <2>4, <3>3 DEF Sooner
    <3>4. CASE k = i /\ l < j
      <4>1. Sooner(i, l) /\ l \notin {i, j}
        BY <1>1, <2>1, <2>5, <3>4
      <4>2. Precedes(hotspots[IndexAt(j)], hotspots[IndexAt(l)])
        BY <1>1, <2>2, <2>3, <4>1, PrecedesOrder DEF Sooner
      <4> QED
        BY <2>4, <3>4, <4>1, <4>2 DEF Sooner
    <3> QED
      BY <1>1, <2>5, <3>1, <3>2, <3>3, <3>4
  <2>6. \A k, l \in 1..n : k < l /\ (k < i \/ (k = i /\ l < m)) => Sooner(k, l)'
    BY <2>5
  <2>7. hotspots_used' = before'.used /\ DOMAIN dump'.lines = {}
    BY <1>4, <1>9 DEF DumpInv, SortedInv, DumpStep, hotspotVars, DumpAt
  <2> QED
    BY <1>4, <1>5, <2>6, <2>7 DEF SortedInv, RowOf
<1>10. /\ \A k \in Positions : \E l \in Positions : IndexAt(k)' = IndexAt(l)
       /\ \A k \in Positions : \E l \in Positions : IndexAt(k) = IndexAt(l)'
       /\ \A k, l \in Positions : IndexAt(k)' = IndexAt(l)' => k = l
  BY <1>1, <1>5, <1>6, <1>7
<1> QED
  BY <1>1, <1>4, <1>5, <1>8, <1>9, <1>10, DumpGoesOn

(* The other steps of the sort move its counters. *)
LEMMA MoveKeeps ==
  ASSUME DumpInv, DumpStep, dump.pc \in {"sort", "compare"},
         NEW i2 \in Nat, NEW j2 \in Nat, NEW t \in SinceRec, NEW p,
         dump' = [dump EXCEPT !.i = i2, !.j = j2, !.since = t, !.pc = p],
         \/ /\ p \in {"sort", "compare"} /\ i2 >= 1 /\ i2 < j2
            /\ p = "compare" => j2 <= Len(dump.indices) /\ t = hotspots
            /\ before.quiet => \A k, l \in Positions :
                 k < l /\ (k < i2 \/ (k = i2 /\ l < j2)) => Sooner(k, l)
         \/ /\ p = "print" /\ i2 = 1
            /\ before.quiet => \A k, l \in Positions : k < l => Sooner(k, l)
  PROVE  DumpInv'
<1>1. /\ dump \in DumpRec /\ dump.lines = <<>> /\ dump.read = {}
      /\ UNCHANGED <<hotspots, hotspots_used, hotspots_drop, before>>
  BY DEF DumpInv, DumpTypes, DumpLoops, DumpStep, hotspotVars
<1>2. /\ dump' \in DumpRec /\ dump'.pc = p /\ dump'.i = i2 /\ dump'.j = j2
      /\ dump'.since = t /\ dump'.read = {}
      /\ dump'.indices = dump.indices /\ dump'.lines = <<>>
  BY <1>1 DEF DumpRec
<1>3. Len(dump'.lines) = 0 /\ DOMAIN dump'.lines = {} /\ p # "done" /\ p # "idle"
  BY <1>2
<1>4. DumpLoops'
  <2>1. Printed' = Printed /\ Printed \in Nat
    BY <1>2, IndexTypes DEF Printed
  <2> QED
    BY <1>2, <1>3, <2>1 DEF DumpLoops
<1>5. Positions' = Positions /\ \A k, l : Sooner(k, l)' = Sooner(k, l)
  BY <1>1, <1>2 DEF Positions, IndexAt, Sooner
<1>6. before.quiet => SortedInv'
  <2> SUFFICES ASSUME before.quiet PROVE SortedInv'
    OBVIOUS
  <2>1. hotspots_used' = before'.used
    BY <1>1 DEF DumpInv, SortedInv
  <2> QED
    BY <1>1, <1>2, <1>3, <1>5, <2>1 DEF SortedInv, RowOf
<1> QED
  BY <1>2, <1>3, <1>4, <1>6, DumpContinues

(* What the counters of the sort are *)
LEMMA SortTypes ==
  ASSUME DumpInv, dump.pc \in {"sort", "compare"}
  PROVE  /\ Len(dump.indices) \in Nat /\ dump.i \in Nat /\ dump.j \in Nat
         /\ dump.i >= 1 /\ dump.i < dump.j /\ Positions = 1..Len(dump.indices)
         /\ dump \in DumpRec
         /\ dump.pc = "compare" => dump.i \in Positions /\ dump.j \in Positions
         /\ before.quiet => \A k, l \in Positions :
              k < l /\ (k < dump.i \/ (k = dump.i /\ l < dump.j)) => Sooner(k, l)
<1>1. /\ Len(dump.indices) \in Nat /\ dump.i \in Nat /\ dump.j \in Nat /\ dump \in DumpRec
      /\ Positions = 1..Len(dump.indices)
  BY IndexTypes DEF DumpInv, DumpTypes, DumpRec, Positions
<1>2. /\ dump.i >= 1 /\ dump.i < dump.j
      /\ dump.pc = "compare" => dump.j <= Len(dump.indices)
  BY DEF DumpInv, DumpLoops
<1>3. before.quiet => SortedInv
  BY DEF DumpInv
<1> QED
  BY <1>1, <1>2, <1>3 DEF SortedInv

(* A comparison begins, or a loop ends. *)
LEMMA SortKeeps ==
  ASSUME DumpInv, DumpSort
  PROVE  DumpInv'
<1>0. PICK n, i, j, m : n = Len(dump.indices) /\ i = dump.i /\ j = dump.j /\ m = dump.i + 1
  OBVIOUS
<1>1. /\ dump \in DumpRec /\ dump.pc = "sort" /\ DumpStep
      /\ n \in Nat /\ i \in Nat /\ i >= 1 /\ j \in Nat /\ i < j /\ m = i + 1 /\ m \in Nat
      /\ Positions = 1..n
      /\ before.quiet => \A k, l \in 1..n :
           k < l /\ (k < i \/ (k = i /\ l < j)) => Sooner(k, l)
  BY <1>0, SortTypes DEF DumpAt, DumpSort
<1>2. CASE j <= n
  <2>1. hotspots \in SinceRec
    BY DEF DumpInv, DumpTypes, SinceRec
  <2>2. dump' = [dump EXCEPT !.i = i, !.j = j, !.since = hotspots, !.pc = "compare"]
    <3>1. dump' = [dump EXCEPT !.since = hotspots, !.pc = "compare"]
      BY <1>0, <1>1, <1>2 DEF DumpSort
    <3> QED
      BY <1>0, <1>1, <3>1 DEF DumpRec
  <2> QED
    BY <1>0, <1>1, <1>2, <2>1, <2>2, MoveKeeps
<1>3. CASE j > n /\ i < n
  <2>1. dump' = [dump EXCEPT !.i = m, !.j = i + 2, !.since = dump.since, !.pc = "sort"]
    <3>1. dump' = [dump EXCEPT !.i = m, !.j = i + 2]
      BY <1>0, <1>1, <1>3 DEF DumpSort
    <3> QED
      BY <1>1, <3>1 DEF DumpRec
  <2>2. before.quiet => \A k, l \in 1..n :
          k < l /\ (k < m \/ (k = m /\ l < i + 2)) => Sooner(k, l)
    <3> SUFFICES ASSUME before.quiet, NEW k \in 1..n, NEW l \in 1..n, k < l,
                        k < m \/ (k = m /\ l < i + 2)
                 PROVE  Sooner(k, l)
      OBVIOUS
    <3>1. k < i \/ (k = i /\ l < j)
      BY <1>1, <1>3
    <3> QED
      BY <1>1, <3>1
  <2>3. m >= 1 /\ m < i + 2 /\ i + 2 \in Nat /\ dump.since \in SinceRec
    BY <1>1 DEF DumpRec
  <2> QED
    BY <1>1, <2>1, <2>2, <2>3, MoveKeeps
<1>4. CASE j > n /\ i >= n
  <2>1. dump' = [dump EXCEPT !.i = 1, !.j = j, !.since = dump.since, !.pc = "print"]
    <3>1. dump' = [dump EXCEPT !.i = 1, !.pc = "print"]
      BY <1>0, <1>1, <1>4 DEF DumpSort
    <3> QED
      BY <1>0, <1>1, <3>1 DEF DumpRec
  <2>2. before.quiet => \A k, l \in 1..n : k < l => Sooner(k, l)
    <3> SUFFICES ASSUME before.quiet, NEW k \in 1..n, NEW l \in 1..n, k < l
                 PROVE  Sooner(k, l)
      OBVIOUS
    <3>1. k < i
      BY <1>1, <1>4
    <3> QED
      BY <1>1, <3>1
  <2>3. dump.since \in SinceRec
    BY <1>1 DEF DumpRec
  <2> QED
    BY <1>1, <2>1, <2>2, <2>3, MoveKeeps
<1> QED
  BY <1>1, <1>2, <1>3, <1>4

(* A comparison of entries that nobody changed finds their order, and in    *)
(* any case the indices stay the same or two of them change places.         *)
LEMMA CompareKeeps ==
  ASSUME DumpInv, DumpCompare
  PROVE  DumpInv'
<1>0. PICK n, i, j, m : n = Len(dump.indices) /\ i = dump.i /\ j = dump.j /\ m = dump.j + 1
  OBVIOUS
<1>1. /\ dump \in DumpRec /\ dump.pc = "compare" /\ DumpStep /\ DumpAt("compare")
      /\ n \in Nat /\ i \in 1..n /\ j \in 1..n /\ i < j /\ m = j + 1 /\ m \in Nat
      /\ Positions = 1..n
      /\ before.quiet => \A k, l \in 1..n :
           k < l /\ (k < i \/ (k = i /\ l < j)) => Sooner(k, l)
  BY <1>0, SortTypes DEF DumpAt, DumpCompare
<1>2. PICK swap \in Outcomes :
        dump' = [dump EXCEPT !.j = @ + 1, !.since = <<>>, !.pc = "sort",
                   !.indices = IF swap THEN Exchange(@, dump.i, dump.j) ELSE @]
  BY DEF DumpCompare
<1>3. /\ swap \in BOOLEAN
      /\ before.quiet => swap = Precedes(hotspots[IndexAt(dump.j)], hotspots[IndexAt(dump.i)])
  <2>1. \A a, b : Precedes(a, b) \in BOOLEAN
    BY DEF Precedes
  <2>2. before.quiet => dump.since = hotspots
    BY <1>1 DEF DumpInv, SortedInv
  <2> QED
    BY <1>2, <2>1, <2>2 DEF Outcomes, IndexAt
<1>4. CASE swap
  <2>1. dump' = [dump EXCEPT !.j = @ + 1, !.since = <<>>, !.pc = "sort",
                   !.indices = Exchange(@, dump.i, dump.j)]
    BY <1>2, <1>4
  <2> QED
    BY <1>1, <1>3, <1>4, <2>1, SwapKeeps
<1>5. CASE ~swap
  <2>1. dump' = [dump EXCEPT !.j = m, !.since = <<>>, !.pc = "sort",
                   !.indices = dump.indices]
    BY <1>0, <1>2, <1>5
  <2>2. dump' = [dump EXCEPT !.i = i, !.j = m, !.since = <<>>, !.pc = "sort"]
    BY <1>0, <1>1, <2>1 DEF DumpRec
  <2>3. before.quiet => Sooner(i, j)
    <3>1. /\ hotspots[IndexAt(i)] \in EntryRec /\ hotspots[IndexAt(j)] \in EntryRec
          /\ hotspots[IndexAt(i)].site # hotspots[IndexAt(j)].site
      BY <1>1, IndexTypes
    <3> QED
      BY <1>0, <1>3, <1>5, <3>1, PrecedesOrder DEF Sooner
  <2>4. before.quiet => \A k, l \in 1..n :
          k < l /\ (k < i \/ (k = i /\ l < m)) => Sooner(k, l)
    <3> SUFFICES ASSUME before.quiet, NEW k \in 1..n, NEW l \in 1..n, k < l,
                        k < i \/ (k = i /\ l < m)
                 PROVE  Sooner(k, l)
      OBVIOUS
    <3>1. k < i \/ (k = i /\ l < j) \/ (k = i /\ l = j)
      BY <1>1
    <3> QED
      BY <1>1, <2>3, <3>1
  <2>5. i < m /\ i >= 1 /\ i \in Nat /\ <<>> \in SinceRec
    BY <1>1 DEF SinceRec
  <2> QED
    BY <1>1, <2>2, <2>4, <2>5, MoveKeeps
<1> QED
  BY <1>3, <1>4, <1>5

(* What one more field of the line is *)
LEMMA FieldRead ==
  ASSUME DumpInv, NEW f \in Count, DumpField(f)
  PROVE  \E h \in HotspotIndex, row \in EntryRec, read \in SUBSET Count :
           /\ h = IndexAt(dump.i) /\ dump.i \in Positions /\ hotspots[h] \in EntryRec
           /\ dump \in DumpRec /\ dump.pc = "print" /\ DumpStep /\ dump.i <= Printed
           /\ dump.i = Len(dump.lines) + 1 /\ Len(dump.lines) \in Nat
           /\ dump.lines \in Seq(DumpLineRec) /\ DOMAIN dump.lines = 1..Len(dump.lines)
           /\ read = dump.read \cup {f} /\ row.site = hotspots[h].site
           /\ row.allocs = IF f = "allocs" THEN hotspots[h].allocs ELSE dump.row.allocs
           /\ row.bytes = IF f = "bytes" THEN hotspots[h].bytes ELSE dump.row.bytes
           /\ row.last_seq =
                IF f = "last_seq" THEN hotspots[h].last_seq ELSE dump.row.last_seq
           /\ dump' = IF read = Count
                      THEN [dump EXCEPT !.i = @ + 1, !.read = {}, !.row = NoHotspot,
                              !.lines = Append(@, [of |-> h, entry |-> row])]
                      ELSE [dump EXCEPT !.read = read, !.row = row]
<1>1. /\ dump \in DumpRec /\ dump.pc = "print" /\ DumpStep /\ dump.i <= Printed
      /\ dump.i = Len(dump.lines) + 1 /\ dump.lines \in Seq(DumpLineRec)
      /\ dump.i \in Nat /\ dump.row \in EntryRec /\ dump.read \in SUBSET Count
  BY DEF DumpInv, DumpTypes, DumpRec, DumpLoops, DumpAt, DumpField
<1>2. /\ Len(dump.lines) \in Nat /\ DOMAIN dump.lines = 1..Len(dump.lines)
      /\ dump.i \in Positions
  BY <1>1, IndexTypes DEF Positions
<1> DEFINE h    == IndexAt(dump.i)
           read == dump.read \cup {f}
           row  == [dump.row EXCEPT ![f] = hotspots[h][f], !.site = hotspots[h].site]
<1>3. h \in HotspotIndex /\ hotspots[h] \in EntryRec
  BY <1>1, <1>2, IndexTypes
<1>4. PICK e, o : e = hotspots[h] /\ o = dump.row /\ e \in EntryRec /\ o \in EntryRec
  BY <1>1, <1>3
<1>5. row = [o EXCEPT ![f] = e[f], !.site = e.site]
  BY <1>4
<1>6. /\ row \in EntryRec /\ row.site = e.site
      /\ row.allocs = IF f = "allocs" THEN e.allocs ELSE o.allocs
      /\ row.bytes = IF f = "bytes" THEN e.bytes ELSE o.bytes
      /\ row.last_seq = IF f = "last_seq" THEN e.last_seq ELSE o.last_seq
  <2>1. CASE f = "allocs"
    BY <1>4, <1>5, <2>1 DEF EntryRec
  <2>2. CASE f = "bytes"
    BY <1>4, <1>5, <2>2 DEF EntryRec
  <2>3. CASE f = "last_seq"
    BY <1>4, <1>5, <2>3 DEF EntryRec
  <2> QED
    BY <2>1, <2>2, <2>3 DEF Count
<1>7. dump' = IF read = Count
              THEN [dump EXCEPT !.i = @ + 1, !.read = {}, !.row = NoHotspot,
                      !.lines = Append(@, [of |-> h, entry |-> row])]
              ELSE [dump EXCEPT !.read = read, !.row = row]
  BY DEF DumpField, IndexAt
<1>8. read \in SUBSET Count
  BY <1>1
<1> HIDE DEF h, read, row
<1>9. read = dump.read \cup {f} /\ h = IndexAt(dump.i)
  BY DEF read, h
<1> QED
  BY <1>1, <1>2, <1>3, <1>4, <1>6, <1>7, <1>8, <1>9

(* A field is read for the next line. *)
LEMMA ReadKeeps ==
  ASSUME DumpInv, DumpStep, dump.pc = "print", dump.i <= Printed,
         NEW read \in SUBSET Count, NEW row \in EntryRec,
         dump' = [dump EXCEPT !.read = read, !.row = row],
         before.quiet => RowOf(hotspots[IndexAt(dump.i)])'
  PROVE  DumpInv'
<1>1. /\ dump \in DumpRec
      /\ UNCHANGED <<hotspots, hotspots_used, hotspots_drop, before>>
  BY DEF DumpInv, DumpTypes, DumpStep, hotspotVars
<1>2. /\ dump' \in DumpRec /\ dump'.pc = "print" /\ dump'.i = dump.i
      /\ dump'.lines = dump.lines /\ dump'.indices = dump.indices
  BY <1>1 DEF DumpRec
<1>3. Printed' = Printed /\ Positions' = Positions /\ \A k : IndexAt(k)' = IndexAt(k)
  BY <1>2 DEF Printed, IndexAt, Positions
<1>4. DumpLoops'
  BY <1>2, <1>3 DEF DumpInv, DumpLoops
<1>5. ASSUME before.quiet PROVE SortedInv'
  <2>1. SortedInv
    BY <1>5 DEF DumpInv
  <2>2. \A k, l : Sooner(k, l)' = Sooner(k, l)
    BY <1>1, <1>3 DEF Sooner
  <2> QED
    BY <1>1, <1>2, <1>3, <1>5, <2>1, <2>2 DEF SortedInv
<1> QED
  BY <1>2, <1>4, <1>5, DumpContinues

(* A line is added for the entry at the next place. *)
LEMMA LineKeeps ==
  ASSUME DumpInv, DumpStep, dump.pc = "print", dump.i <= Printed,
         NEW row \in EntryRec,
         before.quiet => row = hotspots[IndexAt(dump.i)],
         dump' = [dump EXCEPT !.i = @ + 1, !.read = {}, !.row = NoHotspot,
                    !.lines = Append(@, [of |-> IndexAt(dump.i), entry |-> row])]
  PROVE  DumpInv'
<1>0. PICK i, h, r, m, s : /\ i = dump.i /\ h = IndexAt(dump.i) /\ m = dump.i + 1
                           /\ r = [of |-> h, entry |-> row]
                           /\ s = Append(dump.lines, r)
  OBVIOUS
<1>1. /\ dump \in DumpRec /\ i \in Nat /\ i <= Printed
      /\ i = Len(dump.lines) + 1 /\ dump.lines \in Seq(DumpLineRec)
      /\ dump' = [dump EXCEPT !.i = m, !.read = {}, !.row = NoHotspot, !.lines = s]
  BY <1>0 DEF DumpInv, DumpTypes, DumpRec, DumpLoops
<1>2. /\ Len(dump.lines) \in Nat /\ DOMAIN dump.lines = 1..Len(dump.lines)
      /\ Printed \in Nat /\ i \in Positions /\ m \in Nat
  BY <1>0, <1>1, IndexTypes DEF Positions
<1>3. h = IndexAt(i) /\ h \in HotspotIndex
  BY <1>0, <1>1, <1>2, IndexTypes
<1>4. r \in DumpLineRec /\ r.of = h /\ r.entry = row
  BY <1>0, <1>3 DEF DumpLineRec
<1>5. /\ s \in Seq(DumpLineRec) /\ Len(s) = i /\ DOMAIN s = 1..i /\ s[i] = r
      /\ \A k \in 1..Len(dump.lines) : s[k] = dump.lines[k]
  BY <1>0, <1>1, <1>4, AppendProperties, LenProperties
<1>6. /\ dump' \in DumpRec /\ dump'.pc = "print" /\ dump'.i = i + 1 /\ dump'.lines = s
      /\ dump'.indices = dump.indices /\ dump'.read = {}
  BY <1>0, <1>1, <1>2, <1>5, NoDumpType DEF DumpRec
<1>7. \A k \in 1..i : k \in 1..Len(dump.lines) \/ k = i
  BY <1>1, <1>2
<1>8. Printed' = Printed /\ \A k : IndexAt(k)' = IndexAt(k)
  BY <1>6 DEF Printed, IndexAt
<1>9. DumpLoops'
  <2>1. \A k \in 1..i : s[k].of = IndexAt(k)
    BY <1>1, <1>2, <1>3, <1>4, <1>5, <1>7 DEF DumpInv, DumpLoops
  <2> QED
    BY <1>1, <1>5, <1>6, <1>8, <2>1 DEF DumpLoops
<1>10. ASSUME before.quiet
       PROVE  SortedInv'
  <2>1. UNCHANGED <<hotspots, hotspots_used, before>> /\ Positions' = Positions
    BY <1>1, <1>6 DEF DumpStep, hotspotVars, Positions
  <2>2. SortedInv
    BY <1>1, <1>10 DEF DumpInv
  <2>3. \A k \in 1..i : s[k].entry = hotspots[IndexAt(k)]
    BY <1>2, <1>3, <1>4, <1>5, <1>7, <1>10, <2>2, <1>0 DEF SortedInv
  <2>4. \A k, l : Sooner(k, l)' = Sooner(k, l)
    BY <1>8, <2>1 DEF Sooner
  <2>5. RowOf(hotspots[IndexAt(dump.i)])'
    BY <1>6 DEF RowOf
  <2> QED
    BY <1>1, <1>5, <1>6, <1>8, <2>1, <2>2, <2>3, <2>4, <2>5 DEF SortedInv
<1> QED
  BY <1>1, <1>6, <1>9, <1>10, DumpContinues

(* One field more, and the line after the last *)
LEMMA FieldKeeps ==
  ASSUME DumpInv, NEW f \in Count, DumpField(f)
  PROVE  DumpInv'
<1>1. PICK h \in HotspotIndex, row \in EntryRec, read \in SUBSET Count :
        /\ h = IndexAt(dump.i) /\ dump.i \in Positions /\ hotspots[h] \in EntryRec
        /\ dump \in DumpRec /\ dump.pc = "print" /\ DumpStep /\ dump.i <= Printed
        /\ dump.i = Len(dump.lines) + 1 /\ Len(dump.lines) \in Nat
        /\ dump.lines \in Seq(DumpLineRec) /\ DOMAIN dump.lines = 1..Len(dump.lines)
        /\ read = dump.read \cup {f} /\ row.site = hotspots[h].site
        /\ row.allocs = IF f = "allocs" THEN hotspots[h].allocs ELSE dump.row.allocs
        /\ row.bytes = IF f = "bytes" THEN hotspots[h].bytes ELSE dump.row.bytes
        /\ row.last_seq =
             IF f = "last_seq" THEN hotspots[h].last_seq ELSE dump.row.last_seq
        /\ dump' = IF read = Count
                   THEN [dump EXCEPT !.i = @ + 1, !.read = {}, !.row = NoHotspot,
                           !.lines = Append(@, [of |-> h, entry |-> row])]
                   ELSE [dump EXCEPT !.read = read, !.row = row]
  BY FieldRead
<1>2. ASSUME before.quiet
      PROVE  /\ "allocs" \in read => row.allocs = hotspots[h].allocs
             /\ "bytes" \in read => row.bytes = hotspots[h].bytes
             /\ "last_seq" \in read => row.last_seq = hotspots[h].last_seq
  <2>1. RowOf(hotspots[h])
    BY <1>1, <1>2 DEF DumpInv, SortedInv
  <2> QED
    BY <1>1, <2>1 DEF RowOf
<1>3. CASE read = Count
  <2>1. before.quiet => row = hotspots[h]
    BY <1>1, <1>2, <1>3 DEF Count, EntryRec
  <2>2. dump' = [dump EXCEPT !.i = @ + 1, !.read = {}, !.row = NoHotspot,
                   !.lines = Append(@, [of |-> IndexAt(dump.i), entry |-> row])]
    BY <1>1, <1>3
  <2> QED
    BY <1>1, <2>1, <2>2, LineKeeps
<1>4. CASE read # Count
  <2>1. dump' = [dump EXCEPT !.read = read, !.row = row]
    BY <1>1, <1>4
  <2>2. /\ dump'.read = read /\ dump'.row = row /\ IndexAt(dump.i)' = h
        /\ hotspots' = hotspots
    BY <1>1, <2>1 DEF DumpRec, IndexAt, DumpStep, hotspotVars
  <2>3. before.quiet => RowOf(hotspots[IndexAt(dump.i)])'
    BY <1>1, <1>2, <2>2 DEF RowOf
  <2> QED
    BY <1>1, <2>1, <2>3, ReadKeeps
<1> QED
  BY <1>3, <1>4

(* The last line, and the end *)
LEMMA DropsKeeps ==
  ASSUME DumpInv, DumpDrops
  PROVE  DumpInv'
<1>1. /\ dump \in DumpRec /\ dump.pc = "print" /\ DumpStep /\ hotspots_drop \in Word
      /\ ~(dump.i <= Printed) /\ dump.i = Len(dump.lines) + 1 /\ Len(dump.lines) <= Printed
      /\ dump.read = {}
      /\ dump' = [dump EXCEPT !.pc = "done", !.drops = hotspots_drop]
  BY IndexTypes DEF DumpInv, DumpTypes, DumpLoops, DumpAt, DumpDrops
<1>2. /\ dump' \in DumpRec /\ dump'.pc = "done" /\ dump'.lines = dump.lines
      /\ dump'.indices = dump.indices /\ dump'.drops = hotspots_drop /\ dump'.read = {}
  BY <1>1 DEF DumpRec
<1>3. Printed' = Printed /\ Positions' = Positions /\ \A k : IndexAt(k)' = IndexAt(k)
  BY <1>2 DEF Printed, IndexAt, Positions
<1>4. Len(dump.lines) = Printed
  BY <1>1, IndexTypes
<1>5. DumpLoops'
  BY <1>1, <1>2, <1>3, <1>4 DEF DumpInv, DumpLoops
<1>6. UNCHANGED <<hotspots, hotspots_used, hotspots_drop, before>>
  BY <1>1 DEF DumpStep, hotspotVars
<1>7. before.quiet => SortedInv'
  <2>1. \A k, l : Sooner(k, l)' = Sooner(k, l)
    BY <1>3, <1>6 DEF Sooner
  <2> QED
    BY <1>1, <1>2, <1>3, <1>6, <2>1 DEF DumpInv, SortedInv, RowOf
<1> QED
  BY <1>1, <1>2, <1>5, <1>7, DumpContinues

(* After a dump nothing is left of it. *)
LEMMA ReturnKeeps ==
  ASSUME DumpInv, DumpReturn
  PROVE  DumpInv'
<1>1. /\ dump' = NoDump /\ before' = NothingBefore
      /\ UNCHANGED <<hotspots, hotspots_used, hotspots_drop, events>>
  BY DEF DumpReturn, hotspotVars
<1> QED
  BY <1>1, NoDumpType DEF DumpInv, DumpTypes, SitesDiffer

(* An allocation changes the table under the dump, but not its indices, and *)
(* it takes no entry away.                                                  *)
LEMMA AllocatesKeeps ==
  ASSUME DumpInv, Allocates
  PROVE  DumpInv'
<1>1. PICK site \in Site, n \in Word : HotspotRecord(site, n, events + 1)
  BY HotspotDumpAssumption DEF Allocates
<1>2. /\ events \in Nat /\ events + 1 \in Nat /\ events' = events + 1 /\ dump' = dump
      /\ before' = [before EXCEPT !.quiet = DumpAt("idle")]
  BY DEF DumpInv, DumpTypes, Allocates
<1>3. /\ hotspots' \in [HotspotIndex -> EntryRec]
      /\ hotspots_used' \in 0..MaxHotspots /\ hotspots_used <= hotspots_used'
      /\ hotspots_drop' \in Word /\ SitesDiffer'
  BY <1>1, <1>2, RecordEffect DEF DumpInv, DumpTypes
<1>4. DumpTypes'
  BY <1>2, <1>3 DEF DumpInv, DumpTypes
<1>5. CASE dump.pc = "idle"
  <2>1. before' = NothingBefore
    <3>1. before = NothingBefore /\ DumpAt("idle") = TRUE
      BY <1>5 DEF DumpInv, DumpAt
    <3>2. before' = [NothingBefore EXCEPT !.quiet = TRUE]
      BY <1>2, <3>1
    <3> QED
      BY <3>2 DEF NothingBefore
  <2> QED
    BY <1>2, <1>3, <1>4, <1>5, <2>1 DEF DumpInv
<1>6. CASE dump.pc # "idle"
  <2>1. before' = [used |-> before.used, table |-> before.table, quiet |-> FALSE]
    BY <1>2, <1>6 DEF DumpInv, DumpAt
  <2>2. /\ before'.used = before.used /\ before'.table = before.table
        /\ before'.quiet = FALSE
    BY <2>1
  <2>3. Positions' = Positions /\ Printed' = Printed /\ \A k : IndexAt(k)' = IndexAt(k)
    BY <1>2 DEF Positions, Printed, IndexAt
  <2>4. before.used <= hotspots_used'
    <3>1. /\ before.used \in Int /\ hotspots_used \in Int /\ hotspots_used' \in Int
          /\ before.used <= hotspots_used
      BY <1>3, <1>6, IndexTypes, HotspotsAssumption DEF DumpInv, DumpTypes, IndicesPermuted
    <3> QED
      BY <1>3, <3>1
  <2>5. IndicesPermuted'
    BY <1>2, <1>6, <2>2, <2>3, <2>4 DEF DumpInv, IndicesPermuted
  <2>6. DumpLoops'
    BY <1>2, <1>6, <2>3 DEF DumpInv, DumpLoops
  <2> QED
    BY <1>2, <1>3, <1>4, <1>6, <2>1, <2>2, <2>5, <2>6 DEF DumpInv
<1> QED
  BY <1>5, <1>6

(* The sort, the lines and the table go together in every reachable state. *)
THEOREM DumpInvariant == DumpSpec => []DumpInv
<1>1. DumpInit => DumpInv
  <2> SUFFICES ASSUME DumpInit PROVE DumpInv
    OBVIOUS
  <2>1. /\ dump = NoDump /\ before = NothingBefore /\ events = 0
        /\ hotspots = [h \in HotspotIndex |-> NoHotspot] /\ hotspots_used = 0
        /\ hotspots_drop = 0
    BY DEF DumpInit, HotspotInit
  <2>2. 0 \in Word /\ 0 \in 0..MaxHotspots /\ \A g \in 0..(0 - 1) : FALSE
    BY U32Assumption, HotspotsAssumption DEF Word
  <2> QED
    BY <2>1, <2>2, NoDumpType DEF DumpInv, DumpTypes, SitesDiffer
<1>2. DumpInv /\ [DumpNext]_dumpVars => DumpInv'
  <2> SUFFICES ASSUME DumpInv, [DumpNext]_dumpVars PROVE DumpInv'
    OBVIOUS
  <2>1. CASE UNCHANGED dumpVars
    BY <2>1 DEF dumpVars, hotspotVars, DumpInv, DumpTypes, SitesDiffer, Positions,
                IndexAt, IndicesPermuted, Printed, DumpLoops, Sooner, RowOf, SortedInv
  <2> QED
    BY <2>1, BeginKeeps, SortKeeps, CompareKeeps, FieldKeeps, DropsKeeps, ReturnKeeps, AllocatesKeeps
       DEF DumpNext
<1> QED
  BY <1>1, <1>2, PTL DEF DumpSpec

(* A dump that nobody disturbed prints the entries that come first in the   *)
(* order of mt_hotspot_sort_indices, and tells what was dropped, whatever   *)
(* the sizes of the table and of the list.                                  *)
THEOREM QuietDumpsSorted == DumpSpec => []QuietDumpSorted
<1>1. DumpInv => QuietDumpSorted
  <2> SUFFICES ASSUME DumpInv, DumpAt("done"), before.quiet PROVE QuietDumpSorted
    BY DEF QuietDumpSorted
  <2> DEFINE shown == {l.of : l \in ToSet(dump.lines)}
             used  == 0..(hotspots_used - 1)
             w     == Len(dump.lines)
  <2>1. /\ IndicesPermuted /\ DumpLoops /\ SortedInv /\ dump.pc = "done"
    BY DEF DumpInv, DumpAt
  <2>2. /\ w \in Nat /\ w = Printed /\ w <= Len(dump.indices) /\ Len(dump.indices) \in Nat
        /\ DOMAIN dump.lines = 1..w /\ Positions = 1..Len(dump.indices)
        /\ hotspots_used = Len(dump.indices)
        /\ \A k \in 1..w : dump.lines[k].of = IndexAt(k)
        /\ \A k \in 1..w : dump.lines[k].entry = hotspots[IndexAt(k)]
    BY <2>1, IndexTypes DEF DumpLoops, SortedInv, IndicesPermuted, Positions
  <2>3. \A k, l \in Positions : k < l => Precedes(hotspots[IndexAt(k)], hotspots[IndexAt(l)])
    BY <2>1 DEF SortedInv, Sooner
  <2>4. w = IF hotspots_used > DumpLimit THEN DumpLimit ELSE hotspots_used
    BY <2>2 DEF Printed
  <2>5. \A k, l \in DOMAIN dump.lines :
          k < l => Precedes(dump.lines[k].entry, dump.lines[l].entry)
    <3> SUFFICES ASSUME NEW k \in 1..w, NEW l \in 1..w, k < l
                 PROVE  Precedes(dump.lines[k].entry, dump.lines[l].entry)
      BY <2>2
    <3>1. k \in Positions /\ l \in Positions
      BY <2>2
    <3> QED
      BY <2>2, <2>3, <3>1
  <2>6. \A g \in shown, h \in used \ shown : Precedes(hotspots[g], hotspots[h])
    <3> SUFFICES ASSUME NEW g \in shown, NEW h \in used, h \notin shown
                 PROVE  Precedes(hotspots[g], hotspots[h])
      OBVIOUS
    <3>1. PICK k \in 1..w : g = IndexAt(k)
      BY <2>2 DEF ToSet
    <3>2. PICK l \in Positions : h = IndexAt(l)
      BY <2>1 DEF IndicesPermuted, SortedInv
    <3>3. l \notin 1..w
      <4> SUFFICES ASSUME l \in 1..w PROVE FALSE
        OBVIOUS
      <4>1. dump.lines[l] \in ToSet(dump.lines) /\ dump.lines[l].of = h
        BY <2>2, <3>2 DEF ToSet
      <4> QED
        BY <4>1
    <3>4. k \in Positions /\ k < l
      BY <2>2, <3>3
    <3> QED
      BY <2>3, <3>1, <3>2, <3>4
  <2>7. hotspots_used > 0 => dump.drops = hotspots_drop
    BY <2>1 DEF SortedInv
  <2> QED
    BY <2>4, <2>5, <2>6, <2>7 DEF QuietDumpSorted
<1> QED
  BY <1>1, DumpInvariant, PTL

(* What a site has only grows. *)
Grown(r, s) == r.site = s.site /\ r.allocs <= s.allocs /\ r.bytes <= s.bytes

(* What was read for the next line lies between e and what it is now. *)
RowGrown(e, s) ==
  /\ dump.row.site = e.site /\ dump.row.site = s.site
  /\ "allocs" \in dump.read => e.allocs <= dump.row.allocs /\ dump.row.allocs <= s.allocs
  /\ "bytes" \in dump.read => e.bytes <= dump.row.bytes /\ dump.row.bytes <= s.bytes

(* No counter has wrapped, and what is printed lies between then and now. *)
GrowthInv(most) ==
  /\ events <= MaxEvents
  /\ \A h \in HotspotIndex :
       hotspots[h].allocs <= events /\ hotspots[h].bytes <= events * most
  /\ dump.pc # "idle" =>
       /\ before.table \in [HotspotIndex -> EntryRec]
       /\ \A h \in 0..(before.used - 1) : Grown(before.table[h], hotspots[h])
       /\ \A k \in DOMAIN dump.lines :
            /\ Grown(before.table[dump.lines[k].of], dump.lines[k].entry)
            /\ Grown(dump.lines[k].entry, hotspots[dump.lines[k].of])
       /\ dump.read # {} =>
            RowGrown(before.table[IndexAt(dump.i)], hotspots[IndexAt(dump.i)])

LEMMA ProductGrows ==
  ASSUME NEW a \in Nat, NEW b \in Nat, a <= b, NEW m \in Nat
  PROVE  a * m \in Nat /\ a * m <= b * m /\ (a + 1) * m = a * m + m
OBVIOUS

(* Counters that do not wrap grow. *)
LEMMA AllocationGrows ==
  ASSUME NEW most \in Nat, DumpBytes \subseteq 0..most,
         MaxEvents <= U32Max, MaxEvents * most <= U32Max,
         DumpInv, GrowthInv(most), Allocates
  PROVE  /\ events' <= MaxEvents
         /\ \A h \in HotspotIndex :
              /\ hotspots'[h].allocs <= events' /\ hotspots'[h].bytes <= events' * most
              /\ h < hotspots_used => Grown(hotspots[h], hotspots'[h])
<1>1. PICK site \in Site, n \in Word : HotspotRecord(site, n, events + 1) /\ n <= most
  BY HotspotDumpAssumption DEF Allocates
<1>2. /\ events \in Nat /\ events + 1 \in Nat /\ events' = events + 1 /\ n \in Nat
      /\ events' <= MaxEvents /\ MaxEvents \in Nat /\ U32Max \in Nat
      /\ hotspots_used \in Nat
  BY HotspotDumpAssumption, U32Assumption, HotspotsAssumption
     DEF DumpInv, DumpTypes, Allocates, Word
<1> DEFINE was   == events * most
           bound == (events + 1) * most
<1>3. was \in Nat /\ bound = was + most /\ bound <= U32Max
  BY <1>2, ProductGrows
<1> HIDE DEF was, bound
<1>4. ASSUME NEW h \in HotspotIndex
      PROVE  /\ hotspots'[h].allocs <= events + 1 /\ hotspots'[h].bytes <= bound
             /\ h < hotspots_used => Grown(hotspots[h], hotspots'[h])
  <2>1. /\ hotspots[h].allocs \in Nat /\ hotspots[h].bytes \in Nat
        /\ hotspots[h].allocs <= events /\ hotspots[h].bytes <= was
    BY U32Assumption DEF DumpInv, DumpTypes, GrowthInv, EntryRec, Word, was
  <2>2. /\ hotspots'[h] = hotspots[h] \/
           (/\ hotspots'[h].site = hotspots[h].site
            /\ hotspots'[h].allocs = Inc(hotspots[h].allocs)
            /\ hotspots'[h].bytes = Trunc(hotspots[h].bytes + n)) \/
           (/\ h >= hotspots_used
            /\ hotspots'[h].allocs = 1 /\ hotspots'[h].bytes = n)
    BY <1>1, <1>2, RecordEffect DEF DumpInv, DumpTypes
  <2>3. CASE hotspots'[h] = hotspots[h]
    BY <1>1, <1>2, <1>3, <2>1, <2>3 DEF Grown
  <2>4. CASE /\ hotspots'[h].site = hotspots[h].site
             /\ hotspots'[h].allocs = Inc(hotspots[h].allocs)
             /\ hotspots'[h].bytes = Trunc(hotspots[h].bytes + n)
    <3>1. hotspots'[h].allocs = hotspots[h].allocs + 1
      BY <1>2, <2>1, <2>4 DEF Inc
    <3>2. hotspots[h].bytes + n \in Nat /\ hotspots[h].bytes + n <= U32Max
      BY <1>1, <1>2, <1>3, <2>1
    <3>3. hotspots'[h].bytes = hotspots[h].bytes + n
      BY <2>4, <3>2, TruncBounds
    <3> QED
      BY <1>1, <1>2, <1>3, <2>1, <2>4, <3>1, <3>3 DEF Grown
  <2>5. CASE /\ h >= hotspots_used
             /\ hotspots'[h].allocs = 1 /\ hotspots'[h].bytes = n
    BY <1>1, <1>2, <1>3, <2>1, <2>5 DEF HotspotIndex
  <2> QED
    BY <2>2, <2>3, <2>4, <2>5
<1> QED
  BY <1>2, <1>4 DEF bound

(* Grown is transitive and reflexive. *)
LEMMA GrownOrder ==
  ASSUME NEW r \in EntryRec, NEW s \in EntryRec, NEW t \in EntryRec
  PROVE  Grown(r, r) /\ (Grown(r, s) /\ Grown(s, t) => Grown(r, t))
BY U32Assumption DEF Grown, EntryRec, Word

(* One step of the dump or of an allocation *)
LEMMA GrowthNext ==
  ASSUME NEW most \in Nat, DumpBytes \subseteq 0..most,
         MaxEvents <= U32Max, MaxEvents * most <= U32Max,
         DumpInv, DumpInv', GrowthInv(most), [DumpNext]_dumpVars
  PROVE  GrowthInv(most)'
<1>0. /\ hotspots \in [HotspotIndex -> EntryRec] /\ hotspots' \in [HotspotIndex -> EntryRec]
      /\ dump \in DumpRec
  BY DEF DumpInv, DumpTypes
<1>1. CASE UNCHANGED dumpVars
  BY <1>1 DEF dumpVars, hotspotVars, GrowthInv, RowGrown, IndexAt
<1>2. CASE DumpBegin
  <2>1. /\ UNCHANGED <<hotspots, events>> /\ before'.table = hotspots
        /\ before'.used = hotspots_used /\ dump'.lines = <<>> /\ dump'.read = {}
    BY <1>2 DEF DumpBegin, NoDump, hotspotVars
  <2>2. hotspots_used \in Nat /\ \A h \in 0..(hotspots_used - 1) : h \in HotspotIndex
    BY HotspotsAssumption DEF DumpInv, DumpTypes, HotspotIndex
  <2>3. DOMAIN dump'.lines = {}
    BY <2>1
  <2> QED
    BY <1>0, <2>1, <2>2, <2>3, GrownOrder DEF GrowthInv
<1>3. CASE DumpSort \/ DumpCompare \/ DumpDrops
  <2>1. /\ UNCHANGED <<hotspots, events, before>> /\ dump.pc # "idle"
        /\ dump'.lines = dump.lines /\ dump'.read = {}
    <3>1. CASE DumpSort
      <4>1. dump.read = {} /\ dump.pc = "sort"
        BY <3>1 DEF DumpInv, DumpLoops, DumpSort, DumpAt
      <4> QED
        BY <1>0, <3>1, <4>1 DEF DumpSort, DumpStep, hotspotVars, DumpRec
    <3>2. CASE DumpCompare
      <4>1. dump.read = {} /\ dump.pc = "compare"
        BY <3>2 DEF DumpInv, DumpLoops, DumpCompare, DumpAt
      <4> QED
        BY <1>0, <3>2, <4>1 DEF DumpCompare, DumpStep, hotspotVars, DumpRec
    <3>3. CASE DumpDrops
      <4>1. dump.read = {} /\ dump.pc = "print"
        BY <3>3, IndexTypes DEF DumpInv, DumpTypes, DumpRec, DumpLoops, DumpDrops, DumpAt
      <4> QED
        BY <1>0, <3>3, <4>1 DEF DumpDrops, DumpStep, hotspotVars, DumpRec
    <3> QED
      BY <1>3, <3>1, <3>2, <3>3
  <2> QED
    BY <2>1 DEF GrowthInv
<1>4. CASE \E f \in Count : DumpField(f)
  <2>0. PICK f \in Count : DumpField(f)
    BY <1>4
  <2>1. PICK h \in HotspotIndex, row \in EntryRec, read \in SUBSET Count :
           /\ h = IndexAt(dump.i) /\ dump.i \in Positions /\ hotspots[h] \in EntryRec
           /\ dump \in DumpRec /\ dump.pc = "print" /\ DumpStep /\ dump.i <= Printed
           /\ dump.i = Len(dump.lines) + 1 /\ Len(dump.lines) \in Nat
           /\ dump.lines \in Seq(DumpLineRec) /\ DOMAIN dump.lines = 1..Len(dump.lines)
           /\ read = dump.read \cup {f} /\ row.site = hotspots[h].site
           /\ row.allocs = IF f = "allocs" THEN hotspots[h].allocs ELSE dump.row.allocs
           /\ row.bytes = IF f = "bytes" THEN hotspots[h].bytes ELSE dump.row.bytes
           /\ row.last_seq =
                IF f = "last_seq" THEN hotspots[h].last_seq ELSE dump.row.last_seq
           /\ dump' = IF read = Count
                      THEN [dump EXCEPT !.i = @ + 1, !.read = {}, !.row = NoHotspot,
                              !.lines = Append(@, [of |-> h, entry |-> row])]
                      ELSE [dump EXCEPT !.read = read, !.row = row]
    BY <2>0, FieldRead
  <2>2. UNCHANGED <<hotspots, events, before>> /\ dump.row \in EntryRec
    BY <2>1 DEF DumpStep, hotspotVars, DumpRec
  <2>3. h \in 0..(before.used - 1)
    BY <2>1, IndexTypes DEF DumpInv, IndicesPermuted, HotspotIndex
  <2>4. PICK e \in EntryRec, s \in EntryRec :
          e = before.table[h] /\ s = hotspots[h] /\ Grown(e, s)
    BY <2>1, <2>3 DEF GrowthInv
  <2>5. /\ row.site = e.site /\ row.site = s.site
        /\ "allocs" \in read => e.allocs <= row.allocs /\ row.allocs <= s.allocs
        /\ "bytes" \in read => e.bytes <= row.bytes /\ row.bytes <= s.bytes
    <3>1. dump.read # {} => RowGrown(e, s)
      BY <2>1, <2>4 DEF GrowthInv
    <3>2. /\ e.allocs \in Int /\ e.bytes \in Int /\ s.allocs \in Int /\ s.bytes \in Int
          /\ row.site = s.site /\ e.site = s.site /\ e.allocs <= s.allocs
          /\ e.bytes <= s.bytes
      BY <2>1, <2>4, U32Assumption DEF Grown, EntryRec, Word
    <3> QED
      BY <2>1, <2>4, <3>1, <3>2 DEF RowGrown
  <2>6. CASE read = Count
    <3>1. PICK r, t : r = [of |-> h, entry |-> row] /\ t = Append(dump.lines, r)
      OBVIOUS
    <3>2. r \in DumpLineRec /\ r.of = h /\ r.entry = row
      BY <3>1 DEF DumpLineRec
    <3>3. /\ DOMAIN t = 1..(Len(dump.lines) + 1) /\ t[Len(dump.lines) + 1] = r
          /\ \A k \in 1..Len(dump.lines) : t[k] = dump.lines[k]
      BY <2>1, <3>1, <3>2, AppendProperties, LenProperties
    <3>4. dump'.lines = t /\ dump'.read = {}
      BY <2>1, <2>6, <3>1 DEF DumpRec
    <3>5. ASSUME NEW k \in DOMAIN t
          PROVE  /\ Grown(before.table[t[k].of], t[k].entry)
                 /\ Grown(t[k].entry, hotspots[t[k].of])
      <4>1. CASE k \in 1..Len(dump.lines)
        BY <2>1, <3>3, <4>1 DEF GrowthInv
      <4>2. CASE k = Len(dump.lines) + 1
        <5>1. t[k].of = h /\ t[k].entry = row
          BY <3>2, <3>3, <4>2
        <5>2. Grown(e, row) /\ Grown(row, s)
          BY <2>5, <2>6 DEF Grown, Count
        <5> QED
          BY <2>4, <5>1, <5>2
      <4> QED
        BY <2>1, <3>3, <4>1, <4>2
    <3> QED
      BY <2>1, <2>2, <3>4, <3>5 DEF GrowthInv
  <2>7. CASE read # Count
    <3>1. dump' = [dump EXCEPT !.read = read, !.row = row]
      BY <2>1, <2>7
    <3>2. /\ dump'.read = read /\ dump'.row = row /\ dump'.lines = dump.lines
          /\ IndexAt(dump.i)' = h
      BY <2>1, <3>1 DEF DumpRec, IndexAt
    <3>3. RowGrown(e, s)'
      BY <2>5, <3>2 DEF RowGrown
    <3>4. RowGrown(before.table[IndexAt(dump.i)], hotspots[IndexAt(dump.i)])'
      BY <2>2, <2>4, <2>5, <3>2 DEF RowGrown
    <3> QED
      BY <2>1, <2>2, <3>2, <3>4 DEF GrowthInv
  <2> QED
    BY <2>6, <2>7
<1>5. CASE DumpReturn
  BY <1>5 DEF DumpReturn, GrowthInv, NoDump, hotspotVars
<1>6. CASE Allocates
  <2>1. /\ events' <= MaxEvents
        /\ \A h \in HotspotIndex :
             /\ hotspots'[h].allocs <= events' /\ hotspots'[h].bytes <= events' * most
             /\ h < hotspots_used => Grown(hotspots[h], hotspots'[h])
    BY <1>6, AllocationGrows
  <2>2. dump' = dump
    BY <1>6 DEF Allocates
  <2>3. ASSUME dump.pc # "idle"
        PROVE  /\ before'.table \in [HotspotIndex -> EntryRec]
               /\ \A h \in 0..(before'.used - 1) : Grown(before'.table[h], hotspots'[h])
               /\ \A k \in DOMAIN dump.lines :
                    /\ Grown(before'.table[dump.lines[k].of], dump.lines[k].entry)
                    /\ Grown(dump.lines[k].entry, hotspots'[dump.lines[k].of])
               /\ dump.read # {} =>
                    RowGrown(before'.table[IndexAt(dump.i)], hotspots'[IndexAt(dump.i)])
    <3>1. /\ before'.used = before.used /\ before'.table = before.table
          /\ before.used \in Nat /\ before.used <= hotspots_used /\ hotspots_used \in Nat
          /\ hotspots_used <= MaxHotspots /\ MaxHotspots \in Nat
          /\ before.table \in [HotspotIndex -> EntryRec]
      BY <1>6, <2>3, IndexTypes, HotspotsAssumption, SMTT(40)
         DEF DumpInv, DumpTypes, IndicesPermuted, Allocates, GrowthInv
    <3>2. \A h \in 0..(before.used - 1) : h \in HotspotIndex /\ h < hotspots_used
      BY <3>1 DEF HotspotIndex
    <3>3. ASSUME NEW h \in 0..(before.used - 1)
          PROVE  Grown(before.table[h], hotspots'[h])
      <4>1. /\ before.table[h] \in EntryRec /\ hotspots[h] \in EntryRec
            /\ hotspots'[h] \in EntryRec /\ Grown(before.table[h], hotspots[h])
            /\ Grown(hotspots[h], hotspots'[h])
        BY <1>0, <2>1, <2>3, <3>1, <3>2 DEF GrowthInv
      <4> QED
        BY <4>1, GrownOrder
    <3>4. ASSUME NEW k \in DOMAIN dump.lines
          PROVE  /\ Grown(before.table[dump.lines[k].of], dump.lines[k].entry)
                 /\ Grown(dump.lines[k].entry, hotspots'[dump.lines[k].of])
      <4>1. /\ dump.lines[k] \in DumpLineRec /\ dump.lines[k].of = IndexAt(k)
            /\ k \in Positions
        BY <1>0, <2>3, IndexTypes, ElementOfSeq DEF DumpInv, DumpLoops, DumpRec, Positions
      <4>2. dump.lines[k].of \in HotspotIndex /\ dump.lines[k].of < hotspots_used
        BY <2>3, <3>1, <4>1, IndexTypes DEF HotspotIndex
      <4> DEFINE g == dump.lines[k].of
                 e == dump.lines[k].entry
      <4>3. /\ e \in EntryRec /\ hotspots[g] \in EntryRec /\ hotspots'[g] \in EntryRec
            /\ Grown(before.table[g], e) /\ Grown(e, hotspots[g])
            /\ Grown(hotspots[g], hotspots'[g])
        BY <1>0, <2>1, <2>3, <4>1, <4>2 DEF GrowthInv, DumpLineRec
      <4> HIDE DEF g, e
      <4>4. Grown(e, hotspots'[g])
        BY <4>3, GrownOrder
      <4> QED
        BY <3>1, <4>3, <4>4 DEF g, e
    <3>5. ASSUME dump.read # {}
          PROVE  RowGrown(before'.table[IndexAt(dump.i)], hotspots'[IndexAt(dump.i)])
      <4>1. dump.i \in Positions
        BY <1>0, <2>3, <3>5, IndexTypes
           DEF DumpInv, DumpLoops, DumpRec, Positions
      <4> DEFINE g == IndexAt(dump.i)
      <4>2. /\ g \in HotspotIndex /\ g < hotspots_used
            /\ RowGrown(before.table[g], hotspots[g])
        BY <2>3, <3>1, <3>5, <4>1, IndexTypes DEF GrowthInv, HotspotIndex
      <4>3. /\ hotspots[g] \in EntryRec /\ hotspots'[g] \in EntryRec
            /\ dump.row \in EntryRec /\ Grown(hotspots[g], hotspots'[g])
        BY <1>0, <2>1, <4>2 DEF DumpRec
      <4> HIDE DEF g
      <4>4. RowGrown(before.table[g], hotspots'[g])
        BY <4>2, <4>3, U32Assumption DEF RowGrown, Grown, EntryRec, Word
      <4> QED
        BY <3>1, <4>4 DEF g
    <3> QED
      BY <3>1, <3>3, <3>4, <3>5
  <2>4. dump'.read = dump.read /\ IndexAt(dump.i)' = IndexAt(dump.i)
        /\ \A e, s : RowGrown(e, s)' = RowGrown(e, s)
    BY <2>2 DEF IndexAt, RowGrown
  <2> QED
    BY <2>1, <2>2, <2>3, <2>4 DEF GrowthInv
<1> QED
  BY <1>1, <1>2, <1>3, <1>4, <1>5, <1>6 DEF DumpNext

(* The list names no entry twice, leaves out none that existed when the     *)
(* dump began if all fit, and prints for each a count between the one it    *)
(* had then and the one it has now, as long as the 32-bit counters have     *)
(* not wrapped: the events, and their bytes (at most most for each), fit.   *)
THEOREM EntriesPrintedOnce ==
  ASSUME NEW most \in Nat, DumpBytes \subseteq 0..most,
         MaxEvents <= U32Max, MaxEvents * most <= U32Max
  PROVE  DumpSpec => []HotspotsPrintedOnce
<1>1. DumpInit => GrowthInv(most)
  <2> SUFFICES ASSUME DumpInit PROVE GrowthInv(most)
    OBVIOUS
  <2>1. 0 * most = 0 /\ 0 <= MaxEvents
    BY HotspotDumpAssumption
  <2>2. \A h \in HotspotIndex : hotspots[h].allocs = 0 /\ hotspots[h].bytes = 0
    BY DEF DumpInit, HotspotInit, NoHotspot
  <2>3. events = 0 /\ dump.pc = "idle"
    BY DEF DumpInit, NoDump
  <2> QED
    BY <2>1, <2>2, <2>3 DEF GrowthInv
<1>2. DumpInv /\ DumpInv' /\ GrowthInv(most) /\ [DumpNext]_dumpVars => GrowthInv(most)'
  BY GrowthNext
<1>3. DumpInv /\ GrowthInv(most) => HotspotsPrintedOnce
  <2> SUFFICES ASSUME DumpInv, GrowthInv(most) PROVE HotspotsPrintedOnce
    OBVIOUS
  <2>1. CASE dump.pc = "idle"
    <3>1. DOMAIN dump.lines = {}
      BY <2>1 DEF DumpInv, NoDump
    <3> QED
      BY <2>1, <3>1 DEF HotspotsPrintedOnce, DumpAt
  <2>2. CASE dump.pc # "idle"
    <3>1. /\ IndicesPermuted /\ DumpLoops /\ Len(dump.lines) \in Nat
          /\ DOMAIN dump.lines = 1..Len(dump.lines)
          /\ Len(dump.indices) \in Nat /\ Len(dump.lines) <= Len(dump.indices)
          /\ \A k \in DOMAIN dump.lines : k \in Positions /\ dump.lines[k].of = IndexAt(k)
      BY <2>2, IndexTypes DEF DumpInv, DumpLoops, Positions
    <3>2. \A k, l \in DOMAIN dump.lines : dump.lines[k].of = dump.lines[l].of => k = l
      BY <3>1 DEF IndicesPermuted
    <3>3. ASSUME NEW k \in DOMAIN dump.lines
          PROVE  LET line == dump.lines[k]
                 IN  /\ line.entry.site = hotspots[line.of].site
                     /\ line.entry.allocs \in
                          before.table[line.of].allocs..hotspots[line.of].allocs
                     /\ line.entry.bytes \in
                          before.table[line.of].bytes..hotspots[line.of].bytes
      <4> DEFINE g == dump.lines[k].of
                 e == dump.lines[k].entry
      <4>1. dump.lines[k] \in DumpLineRec
        BY ElementOfSeq, <3>1 DEF DumpInv, DumpTypes, DumpRec
      <4>2. /\ e \in EntryRec /\ hotspots[g] \in EntryRec /\ before.table[g] \in EntryRec
            /\ Grown(before.table[g], e) /\ Grown(e, hotspots[g])
        BY <2>2, <4>1 DEF GrowthInv, DumpLineRec, DumpInv, DumpTypes
      <4> HIDE DEF g, e
      <4>3. /\ e.site = hotspots[g].site
            /\ e.allocs \in before.table[g].allocs..hotspots[g].allocs
            /\ e.bytes \in before.table[g].bytes..hotspots[g].bytes
        BY <4>2, U32Assumption DEF Grown, EntryRec, Word
      <4> QED
        BY <4>3 DEF g, e
    <3>4. ASSUME DumpAt("done"), before.used <= DumpLimit
          PROVE  {l.of : l \in ToSet(dump.lines)} = 0..(before.used - 1)
      <4>1. Len(dump.lines) = Len(dump.indices) /\ Len(dump.indices) = before.used
        <5>1. Len(dump.lines) = Printed /\ Len(dump.indices) = before.used
          BY <3>1, <3>4 DEF DumpLoops, IndicesPermuted, DumpAt
        <5> QED
          BY <3>1, <3>4, <5>1, IndexTypes, <2>2 DEF Printed
      <4>2. DOMAIN dump.lines = Positions
        BY <3>1, <4>1 DEF Positions
      <4>3. {l.of : l \in ToSet(dump.lines)} = {IndexAt(k) : k \in Positions}
        BY <3>1, <4>2 DEF ToSet
      <4>4. \A k \in Positions : IndexAt(k) \in 0..(before.used - 1)
        BY <2>2, <3>1, <4>1, IndexTypes DEF IndicesPermuted, HotspotIndex
      <4>5. \A h \in 0..(before.used - 1) : \E k \in Positions : h = IndexAt(k)
        BY <3>1 DEF IndicesPermuted
      <4> QED
        BY <4>3, <4>4, <4>5
    <3> QED
      BY <3>2, <3>3, <3>4 DEF HotspotsPrintedOnce
  <2> QED
    BY <2>1, <2>2
<1> QED
  BY <1>1, <1>2, <1>3, DumpInvariant, PTL DEF DumpSpec
=============================================================================
