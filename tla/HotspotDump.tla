----------------------------- MODULE HotspotDump ------------------------------
(***************************************************************************)
(* mt_dump_hotspots, which sorts indices of the live hotspot table and     *)
(* prints the entries of the first ten.  It takes no lock and reads one    *)
(* word at a time: between two reads an interrupt handler or the output    *)
(* callback may allocate, which counts in the table and may add an entry.  *)
(***************************************************************************)
EXTENDS Hotspots, SequencesExt

CONSTANTS
  DumpLimit,  (* entries that are printed (10) *)
  DumpSite,   (* sites the program allocates at *)
  DumpBytes,  (* bytes it asks for *)
  MaxEvents   (* bound: allocations *)

ASSUME HotspotDumpAssumption ==
  /\ DumpLimit \in Nat \ {0}
  /\ DumpSite \subseteq Site /\ DumpBytes \subseteq Word
  /\ MaxEvents \in Nat

VARIABLES
  dump,    (* the dump in progress: its locals and the lines written *)
  events,  (* history: allocations so far *)
  before   (* history: the table when the dump began, and whether it is the same *)

dumpVars == <<hotspotVars, dump, events, before>>

(* What changes in an entry, once it has its site *)
Count == {"allocs", "bytes", "last_seq"}

(* indices: numbers of entries; i and j: the loop counters, from 1; since:  *)
(* history, the table when a comparison began; read and row: the fields of  *)
(* an entry that were read for a line so far, and their values              *)
NoDump ==
  [pc |-> "idle", indices |-> <<>>, i |-> 1, j |-> 2, since |-> <<>>, read |-> {},
   row |-> NoHotspot, lines |-> <<>>, drops |-> 0]

NothingBefore == [used |-> 0, table |-> <<>>, quiet |-> TRUE]

DumpAt(l) == dump.pc = l

DumpStep == UNCHANGED <<hotspotVars, events, before>>

(* The count is read.  An entry below it stays used, so the loop that      *)
(* collects the indices finds all of them.                                 *)
DumpBegin ==
  /\ DumpAt("idle")
  /\ dump' = [NoDump EXCEPT
                !.pc = IF hotspots_used = 0 THEN "done" ELSE "sort",
                !.indices = [k \in 1..hotspots_used |-> k - 1]]
  /\ before' = [used |-> hotspots_used, table |-> hotspots, quiet |-> TRUE]
  /\ UNCHANGED <<hotspotVars, events>>

(* Mutant of Precedes: sorted by allocations alone *)
PrecedesByAllocs(a, b) == a.allocs > b.allocs

(* a comes before b: more allocations, then more bytes, then the smaller   *)
(* file_id, then the smaller line                                          *)
Precedes(a, b) ==
  \/ a.allocs > b.allocs
  \/ /\ a.allocs = b.allocs
     /\ \/ a.bytes > b.bytes
        \/ /\ a.bytes = b.bytes
           /\ \/ a.site[1] < b.site[1]
              \/ a.site[1] = b.site[1] /\ a.site[2] < b.site[2]

(* Mutant of Exchange: one of the two indices is lost *)
ExchangeLost(x, i, j) == [x EXCEPT ![i] = x[j]]

Exchange(x, i, j) == [x EXCEPT ![i] = x[j], ![j] = x[i]]

(* mt_hotspot_sort_indices: a comparison begins, or one of the loops ends *)
DumpSort ==
  LET n == Len(dump.indices)
  IN  /\ DumpAt("sort")
      /\ \/ /\ dump.j <= n
            /\ dump' = [dump EXCEPT !.since = hotspots, !.pc = "compare"]
         \/ /\ dump.j > n /\ dump.i < n
            /\ dump' = [dump EXCEPT !.i = @ + 1, !.j = dump.i + 2]
         \/ /\ dump.j > n /\ dump.i >= n
            /\ dump' = [dump EXCEPT !.i = 1, !.pc = "print"]
      /\ DumpStep

(* Each criterion of a comparison reads the two entries again, so that when *)
(* one of them changed in between it may come out either way.               *)
Outcomes ==
  LET g == dump.indices[dump.i]
      h == dump.indices[dump.j]
  IN  IF hotspots[g] = dump.since[g] /\ hotspots[h] = dump.since[h]
      THEN {Precedes(hotspots[h], hotspots[g])}
      ELSE BOOLEAN

DumpCompare ==
  /\ DumpAt("compare")
  /\ \E swap \in Outcomes :
       dump' = [dump EXCEPT !.j = @ + 1, !.since = <<>>, !.pc = "sort",
                  !.indices = IF swap THEN Exchange(@, dump.i, dump.j) ELSE @]
  /\ DumpStep

Printed == IF Len(dump.indices) > DumpLimit THEN DumpLimit ELSE Len(dump.indices)

(* The fields of a line are read one by one, in an order that C leaves      *)
(* open: f is the next.  After the last one the line is written.            *)
DumpField(f) ==
  /\ DumpAt("print") /\ dump.i <= Printed /\ f \notin dump.read
  /\ LET h    == dump.indices[dump.i]
         read == dump.read \cup {f}
         row  == [dump.row EXCEPT ![f] = hotspots[h][f], !.site = hotspots[h].site]
     IN  dump' = IF read = Count
                 THEN [dump EXCEPT !.i = @ + 1, !.read = {}, !.row = NoHotspot,
                                   !.lines = Append(@, [of |-> h, entry |-> row])]
                 ELSE [dump EXCEPT !.read = read, !.row = row]
  /\ DumpStep

(* The last line says how many events were dropped, if any were *)
DumpDrops ==
  /\ DumpAt("print") /\ dump.i > Printed
  /\ dump' = [dump EXCEPT !.pc = "done", !.drops = hotspots_drop]
  /\ DumpStep

DumpReturn ==
  /\ DumpAt("done")
  /\ dump' = NoDump
  /\ before' = NothingBefore
  /\ UNCHANGED <<hotspotVars, events>>

(* An allocation by an interrupt handler, by the callback of the dump or,  *)
(* between two dumps, by the program                                       *)
Allocates ==
  /\ events < MaxEvents
  /\ \E site \in DumpSite, n \in DumpBytes : HotspotRecord(site, n, events + 1)
  /\ events' = events + 1
  /\ before' = [before EXCEPT !.quiet = DumpAt("idle")]
  /\ UNCHANGED dump

DumpInit ==
  /\ HotspotInit
  /\ dump = NoDump
  /\ events = 0
  /\ before = NothingBefore

DumpNext ==
  \/ DumpBegin \/ DumpSort \/ DumpCompare
  \/ \E f \in Count : DumpField(f)
  \/ DumpDrops \/ DumpReturn
  \/ Allocates

DumpSpec == DumpInit /\ [][DumpNext]_dumpVars

-----------------------------------------------------------------------------
(* Properties *)

(* A dump that nobody disturbed prints the entries that come first in the   *)
(* order of mt_hotspot_sort_indices, which is total because sites are       *)
(* distinct: all that there are, up to DumpLimit, which is 10 in the code   *)
(* where mt_api.h:204 announces MT_MAX_HOTSPOTS; the events that had no     *)
(* entry are told.                                                          *)
QuietDumpSorted ==
  DumpAt("done") /\ before.quiet =>
    LET shown == {l.of : l \in ToSet(dump.lines)}
        used  == 0..(hotspots_used - 1)
    IN  /\ Len(dump.lines) = IF hotspots_used > DumpLimit THEN DumpLimit
                             ELSE hotspots_used
        /\ \A k, l \in DOMAIN dump.lines :
             k < l => Precedes(dump.lines[k].entry, dump.lines[l].entry)
        /\ \A g \in shown, h \in used \ shown : Precedes(hotspots[g], hotspots[h])
        /\ hotspots_used > 0 => dump.drops = hotspots_drop

(* Even when the counts change under the sort it only permutes the indices: *)
(* no entry is printed twice, every entry that existed when the dump began  *)
(* is printed if there were no more than the limit, and none is printed     *)
(* with fewer events or bytes than it had then or more than it has now, nor *)
(* with the site of another.                                                *)
HotspotsPrintedOnce ==
  /\ \A k, l \in DOMAIN dump.lines : dump.lines[k].of = dump.lines[l].of => k = l
  /\ \A k \in DOMAIN dump.lines :
       LET line == dump.lines[k]
       IN  /\ line.entry.site = hotspots[line.of].site
           /\ line.entry.allocs \in before.table[line.of].allocs..hotspots[line.of].allocs
           /\ line.entry.bytes \in before.table[line.of].bytes..hotspots[line.of].bytes
  /\ DumpAt("done") /\ before.used <= DumpLimit =>
       {l.of : l \in ToSet(dump.lines)} = 0..(before.used - 1)
=============================================================================
