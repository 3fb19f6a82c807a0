# A TLA+ model of the MCU malloc tracker

This directory is the verification project of the malloc tracker: TLA+ modules
translated from `src/`, the TLC instances that check them, and theorems with
proofs for TLAPS. Paths below are relative to the root of the repository; line
numbers refer to the commit the modules were translated from.

## 1. The system

The tracker is a C library for microcontrollers. Wrapper macros redirect
`malloc`, `free` and `realloc` of a translation unit to `mt_malloc`, `mt_free`
and `mt_realloc`, which call the real allocator and keep a record of every live
block in a table of fixed size. The table can be summarised (`mt_stats`),
printed (`mt_dump_*`), or written as a binary snapshot (`mt_snapshot_write`),
which a framed stream (`mtv1_*`) carries to a viewer on a host.

| Component | Source | State | Operations | Talks to |
|---|---|---|---|---|
| allocation table, tracking wrappers | `src/mt_core.c`, `include/mt_api.h` | `g_allocs` (open addressing, linear probing, EMPTY/USED/TOMBSTONE), `g_used_count`, `g_tombstone_count`, `g_drop_count`, totals, `g_current_used`, `g_peak_used`, `g_seq` | `mt_init`, `mt_malloc`, `mt_free`, `mt_realloc` | the real allocator (macros `MT_REAL_*`), hotspots |
| hotspots | `src/mt_hotspots.c` | `g_hotspots`, `g_hotspots_used`, `g_hotspots_drop` | init, record | called by `mt_malloc` under the lock |
| guard and lock | `src/mt_core.c`, `include/mt_config.h` | `g_inside`; `MT_LOCK`/`MT_UNLOCK` (no-op by default; interrupt masking, an RTOS critical section or a lock of the scheduler when configured) | | every context that allocates |
| statistics | `src/mt_heap_stats.c` | none | `mt_stats` | core accessors; probe of the system heap |
| fragmentation | `src/mt_fragmentation.c` | none | permille, health classes, packing | `mt_stats` |
| snapshot writer | `src/mt_snapshot.c`, `src/mt_crc32_ieee.c` | none (a local index buffer) | `mt_snapshot_write` | reads the live table without the lock |
| text dumps, telemetry | `src/mt_dump.c` | the tick of the last report, `g_telemetry_last_ticks` | `mt_dump_uart`, `mt_dump_leaks`, `mt_dump_hotspots`, `mt_telemetry_tick` | statistics, table, hotspots |
| MTV1 stream | `src/mtv1_stream.c` | frame sequence number, transport handle | `init`, `snapshot`, `telemetry`, `mark`, `end` | the transport's write callback |
| viewer: frame reader | `tools/mt_viewer_c/src/mtv1_protocol.c` | none (a call per frame) | read a frame, resynchronise, verify the CRC | the transport's read |
| viewer: capture, serial ports | `mtv1_capture.c`, `mtv1_transport*.c` | the raw file | read a byte with a timeout, write frames | reader, the line |
| viewer: run model, replay, export, diff | `mtv1_model.c`, `mtv1_replay.c`, `mtv1_export.c`, `mtv1_diff.c` | timeline, hotspots by site, telemetry points and marks | push, summarise, compare | reader, decoder, terminal |
| viewer: snapshot decoder, file map | `mtv1_decode_mts1.c`, `mtv1_crc32.c`, `mtv1_filemap.c` | the entries of the file map | decode, verify, look a hash up | replay, export, diff, terminal |
| viewer: terminal | `mtv1_render_tui.c` | the screen, the mode of the heatmap, the settings of the terminal | keys, three screens | run model, file map |
| Python decoder | `tools/mt_decode.py` | none | decode, verify, look a hash up | the snapshot file |
| viewer: command line | `main.c`, `mtv1_util.c` | none of interest | parsing of arguments | the commands |

What is hard in it, and what makes each part correct:

* **The table.** Deletion leaves tombstones that later insertions reuse, so
  that records keep their place in probe sequences that collide, wrap around
  and overlap. Correct means: every record is found again, each describes a
  live block with its true size, a block is refused only when the table is
  really full, and `mt_free`'s test for double frees (a scan for a tombstone
  with the same address) never withholds a live block from the real allocator.
* **The counters.** They are saturating, flooring or wrapping 32-bit words that
  several paths update in different combinations; the dumps derive numbers from
  them. Correct means that they agree with the table.
* **Contexts.** A call consists of a test of `g_inside`, a call of the real
  allocator, `g_inside = 1`, the lock, the body, the unlock and `g_inside = 0`,
  and an interrupt or another task may run between any two of them that are
  outside the lock.
* **Readers of the table** (statistics, snapshot, dumps) take the lock in part
  or not at all, and read records and counts one field after the other. Correct
  means that a report is exact when nothing interferes, and that what it mixes when
  something does can be told.
* **The stream and the viewer** live with torn frames, lost bytes, timeouts and
  silence.
* **The format of a snapshot** is written down three times, in the tracker, the
  viewer and the script; correct means that both readers return what was written
  and neither shows a damaged snapshot as a good one.
* **Charts and lists** are made with 32-bit products and sums, of runs of any
  length, by loops over a list that has room for a few.

`PROJECT.json` lists each hazard at its line, with the properties that cover it.

## 2. Modules

```
U32 ─┬─ Hotspots ──┐
     │   │ AllocTable ─┴─ MTCore ─┬─ MCCore       AllocLedger (MTCore implements it)
     │   │    │  │                └─ MTReaders ── MCReaders
     │   │    │  ├─ MTIsr ── MCIsr
     │   │    │  └─ ProbeLoops ── MCProbe
     │   └─ HotspotDump ────────┐
     ├─ MTFrag ── MTTelemetry ──┴─ MCDumps
     └─ MTV1Viewer ─┐
        FileMap ─┬──┴─ MTV1Tui ──────┐
     MTS1Codec ──┴─ MTS1Decode ──────┴─ MCHost
MTV1Stream ── MTV1Reader ── MTV1Link ── MCLink

AllocTable ── AllocTableProofs ─┬─ MTCoreProofs (MTCore) ── MTReadersProofs (MTReaders)
                                ├─ MTIsrProofs (MTIsr)
                                └─ ProbeLoopsProofs (ProbeLoops)
MTTelemetry, HotspotDump ── DumpsProofs
MTV1Tui (MTV1Viewer), MTS1Decode (MTS1Codec) ── HostProofs
MTV1Link ── MTV1LinkProofs
```

* **U32** - the arithmetic of the counters: wrapping increment, cast, clamp,
  saturating addition, flooring subtraction, for a word `0..U32Max`.
* **AllocTable** - the table as a value: the slots the two search functions
  return (`FindSlot`, `InsertSlot`, `Full`), deletion (`SlotFree`) and the scan
  for a tombstone (`HasTombstone`). `mt_hash_ptr` is a constant `Hash`, any
  function of the address: no property may depend on a good hash.
* **ProbeLoops** - `mt_find_slot` and `mt_find_insert_slot` iteration by
  iteration, started on *every* content of the table; its properties say that
  the loops return what `AllocTable` says they return, so that the other modules
  may use the search as one fact.
* **Hotspots** - `mt_hotspot_record`: update the first entry of the site,
  append, or count the overflow.
* **MTCore** - the tracker called from one context. One action per function
  (`MtInit`, `MtMalloc`, `MtFree`, `MtRealloc`), each with all the changes its
  function makes, the lazy initialisation included; the disjuncts inside are its
  paths: real allocator out of memory, recorded, dropped; tracked, taken for a
  double free, forwarded; resized in place, moved, adopted, fallen through. The
  real allocator is the variable `heap`: it may fail, and hand out any dead
  address, so addresses are recycled in every order. `PlainMalloc` is code
  without the wrapper macros; `DoubleFrees` lets clients free a dead block.
* **AllocLedger** - what the tracker promises without any table: a bounded map
  from blocks to (bytes, site) that refuses a block, and counts it, exactly when
  it is full; a reallocation keeps the site, or adopts a refused block when there
  is room again. `MTCore!ImplementsLedger` instantiates it with the refinement
  mapping `LedgerOf`.
* **MTIsr** - the three functions step by step, one step per access to what
  contexts share. `Ctx` and `Preempts` make an instance a main program with an
  interrupt handler, or two tasks. Nobody else runs while `holder` is set: for an
  interrupt handler this is an `MT_LOCK` that masks interrupts, as `__disable_irq`
  and `taskENTER_CRITICAL` in section 3 of `docs/INTEGRATION.md` do; for tasks it
  is also one that stops the scheduler. The `k_sched_lock` that the same section
  proposes for Zephyr stops the scheduler only, so with it the results hold for
  tasks and not for interrupt handlers that allocate. `mt_init` has run
  (`include/mt_api.h:23`). Sizes, sites and the other counters are left out: they
  change in the same steps as the table and nothing in this module's control
  depends on them. `held` is what client code may free or reallocate: clients are
  correct here. `bypassed` and `recycled` are history variables.
* **MTReaders** - the reports made from the tables, run by main code step by
  step: `mt_stats`, `mt_dump_uart`, `mt_dump_leaks` and `mt_snapshot_write`, as
  one program counter over the steps they share. The core counters are copied
  under the lock; everything else is read without it, one word per step: each
  counter of the table, the state of each slot, the two addresses of a comparison,
  and the five fields of an entry (`CopyField`), in the order of the code in a
  snapshot and in the order in which the compiler evaluates the arguments of
  `snprintf` in a dump (`DumpOrder`, any). `Rooms` are the sizes of the buffers for
  snapshots. Between any two steps, `Disturb` is a whole call of the tracker, as an
  interrupt handler or a dump's output callback makes it. `disturbed`, `seen`,
  `stable` and `held` are history variables: whether that happened, which records
  were in which slots meanwhile, which slots kept theirs, and which records the
  slot of each entry held while that entry was copied.
* **MTFrag** - the fragmentation part of `mt_stats`: the two hooks of the
  platform read one after the other, with the heap changing at any time
  (`HeapMoves`), the permille with its 32-bit product, the class, and the packing
  into one word. Factors, bits and thresholds are those of the code; the word may
  be any of at least 20 bits.
* **MTTelemetry** - `mt_telemetry_tick` around MTFrag: the tick counter of the
  application wraps at `TickMax`, the first call may come at any count, and a call
  that is due runs the steps of `mt_stats` and writes a line. `passed` is the real
  time, which does not wrap; properties compare the two.
* **HotspotDump** - `mt_dump_hotspots` over the live table of `Hotspots`, in which
  interrupt handlers or the output callback may record an event between any two
  steps. A comparison of its sort is two steps; as each of its criteria reads the
  two entries again, it comes out either way if one of them changed between the two
  (`Outcomes`). The counts of a line are read one per step, in any order. `before`
  and, during a comparison, `dump.since` are history.
* **MTS1Codec** - the bytes of a snapshot: what `mt_snapshot_write` puts in each,
  what `mtv1_decode_mts1.c` and `mt_decode.py` read from each and refuse, and the
  CRC32 bit by bit. A word is the set of the numbers of its 1 bits and a byte a
  subset of `0..7`, so that all 32 and 64 bits are there although TLC's integers
  have 32. The two readers are written apart, as in the code.
* **FileMap** - which name a hash gets from a file map, by the viewer and by the
  script.
* **MTS1Decode** - a snapshot from the buffer of the tracker, over a line or a
  file that may change, cut or prolong it, into both readers.
* **MTV1Stream, MTV1Reader, MTV1Link** - the sender of frames, the viewer's
  `mtv1_frame_read`, and the two with a serial line between them and
  `mtv1_capture_run` around the reader. Bytes of a magic or of a payload are
  letters, since the search for the magic looks at them; the other header bytes
  are identified by their frame and position, because the reader only uses them
  together: a header made of other bytes has arbitrary fields (`Garbled`), and
  the checksum is ideal, right for exactly the header and payload that were sent
  together. The line loses, changes and adds bytes, the transport writes any
  prefix of a frame, and a read may time out; what `select`, `read` and `ReadFile`
  return and what the byte source makes of it is `PortReads` and `HasByte`. A send
  that is refused changes nothing and is no step. `faults`, `calm` and `safe` are
  history variables: how many faults there were, how many bytes of whole frames have
  passed since the last one (up to `Reach`, the most that the reader takes for one
  frame once it has found a magic), and which frames began after that many and
  arrived unhurt.
* **MTV1Viewer** - the commands `replay`, `export` and `diff`: one frame of a file
  per step is added to the model of the run (timeline, hotspots by site, marks,
  counts) or written as a row; at the end two runs are compared and the lists of
  hotspots are made. What the reader finds in a file is arbitrary here, so the
  module covers any file, captured or not. Snapshots come decoded, with numbers
  small enough to count with, and the doubles of the slope are exact fractions.
* **MTV1Tui** - what `replay` does with a run it has read: the text summary, or the
  terminal, whose screens are functions of the model of the run (`Overview`,
  `Timeline`, `Heatmap`), drawn anew after each key until `q`. A screen is what it
  says: numbers, lengths of bars, names; not its layout. The sizes of the chart
  and the limits of the buckets are constants.
* **MCCore, MCIsr, MCProbe, MCReaders, MCDumps, MCLink, MCHost** - constant values
  for TLC, and bounds. `MCDumps` and `MCHost` put two systems that share no state
  in one run: the variable `client` or `program`, chosen at the start, says which
  of the two runs.
* **AllocTableProofs, MTCoreProofs, MTIsrProofs, MTReadersProofs,
  ProbeLoopsProofs, DumpsProofs, HostProofs, MTV1LinkProofs** - the theorems
  (section 4).

## 3. What the runs check

| Run | Question | Shows |
|---|---|---|
| `core_probing` | Does the table stay searchable? | 4 slots, 4 addresses, 3 with the same home in the last slot (probing wraps), 6 counted calls, sizes that saturate the byte counters: `RecordsFindable`, `SeqIdentifiesRecords`, `UsedCountExact`, `UsageMatchesRecords` |
| `core_accounting` | Do the records tell the truth? | a 2-bit word, so that sums saturate and counters wrap; sizes that do not fit it, clamped or truncated; code outside the wrapper macros that allocates in between; blocks freed twice: `TypeOK`, `RecordsDescribeLiveBlocks` |
| `core_drops` | What do full tables lose? | 3 blocks for 2 slots, 2 sites for 1 hotspot: `NoLiveBlockSwallowed`, `TrackedBlocksStayTracked`, `DropsOnlyWhenFull`, `ActiveWithinDrops`, `HotspotsCountEveryMalloc`, and the refinement `ImplementsLedger` |
| `probe_loops` | Do the C loops find what the model says, and end? | all 2,401 contents of a 4-slot table, each slot EMPTY or USED or a TOMBSTONE with one of 3 addresses, 3 addresses to look for, both loops: `LoopsReturnSlots`, `LoopsEnd` |
| `isr_all` | Main and an interrupt handler, calls without bound | guard and lock are always released, every call returns, the index `mt_realloc` finds before the lock is still right when it is used |
| `tasks_all` | Two tasks, all interleavings outside the lock | the USED count is exact, no block reaches the real `free` twice, and only two races leave a record of a dead block |
| `reports` | What is a report worth when the tracker runs in between? | undisturbed, it is exact (`QuietReportExact`); disturbed anywhere, no slot is listed twice, each entry consists of fields of records that its slot held while it was copied, is one whole record if the slot was left alone meanwhile, and a record that stayed is listed (`NoSlotTwice`, `ListedExisted`, `StableListed`) |
| `dumps` | When is a telemetry line written, and is it true? What does the list of hotspots show of a table that moves? | a line never comes early however the tick counter wraps, and is put off only when 32 bits cannot tell (`TelemetryPaced`); the permille is in range, exact or overstated (`FragSound`), and with it comes the class that the comments give it, but for one value (`HealthMatches`), for heaps around every boundary of the computation; an undisturbed list is the largest in order, up to its limit (`QuietDumpSorted`), a disturbed one names no entry twice and none with counts it never had (`HotspotsPrintedOnce`, counters not wrapping within the run) |
| `link` | What survives a bad line, and what does capture keep of it? | good frames are frames that were sent, in order (`GoodFramesWereSent`); wherever a fault hits, it costs the reader no frame that begins `Reach` bytes after it or later, and a clean line delivers all (`ResyncWithinReach`); the file has those of these frames that follow another one (`CaptureKeeps`); sequence numbers tell what was lost (`SeqTellsLoss`) |
| `host` | What is kept and shown of a run, what does a diff say, and do both decoders read what was written? | `HotspotsCountRecords`, `RunShown`, `ChartsExact`, `DiffExact` for every file of up to three frames, every screen and every pair of files; `SnapshotRoundTrip` and `DamageTold` for snapshots with the outermost bits of every field, each bit and several groups of bits of each byte flipped, cut at each byte, or followed by others; `LuckToldToo` is what of this depends on the contents |

The `find_*` runs each check one statement of the repository that the code does
not keep; TLC prints the shortest history (section 6).

**Bounds.** `MaxOps` bounds the calls that count something in an instance of
`MTCore`; with 2 slots and 3 addresses, five to seven calls fill the table, drop a
block, empty it, reuse a tombstone, adopt the dropped block and move it, and with
4 slots six calls make probe sequences that wrap, overlap and contain tombstones
of each other. In `core_probing` and `core_drops`, addresses with one hash value
are symmetric: the tracker compares addresses only for equality. Every path of
`mt_realloc` is reached. `U32Max` is 7 or 3, so that saturation and wrap-around
happen within the bound. What a bound could hide in `MTCore` is what the theorems
cover for every value of the constants. `reports` bounds the tracker to four
counted calls before and during the reports; with three slots, that is enough to
fill the table, and to free, move or replace a record at every point of a sort of
three, and between any two reads of an entry. Buffers have room for none, two or
all three records, and the fields of a dump are read from the last argument to the
first. `MTIsr` and `ProbeLoops` need no bound: their state spaces are finite.
`dumps` takes its heaps from the values around zero, the two thresholds, the first
product that overflows and the largest word. Its tick counter has 4 values and
`MaxGap = 6` lets it go more than once round; the list of hotspots shows 2 of up
to 3 entries, and `MaxEvents = 4` events change every criterion of the order
during the sort, and any count between two reads of a line. In `link`, two faults
hit three frames, and the second may hit the resynchronisation after the first;
with one fault (`Sparse`), a fourth frame follows. With `MaxLen = 5` the reader
takes up to 7 bytes after a magic (`Reach`), one more than the shortest frame has:
a garbled header may swallow the next frame and the start of the one after it, a
frame that begins `Reach` bytes after the fault exists within the bound, and one
that begins a byte earlier may be lost. One payload is a whole magic, another ends
with the first letter of one. `SeqMax = 2` makes the sequence number wrap. The 16
bytes of a header after the magic are 2, which leaves every cut of a header
possible. `host` reads up to three frames per file, out of five snapshots: usage
that rises by exactly and by more than a tenth of the peak and falls, three sites
for a list of two, sums that wrap, a wrong checksum, no records, a peak that an
`int32_t` cannot hold. A word has 6 bits, and the chart is 32 columns by 3 rows,
so that there are fewer snapshots than columns, products of usage and height that
wrap, and, with three snapshots, products of column and count that wrap as they
would with 54 million snapshots in the 80 columns of the code; bucket limits are
2, 15 and 24, with sizes at and beside them. Snapshots have none or two records,
in buffers of exactly 0, 1 and 2 records, one byte less, and less than a header.

**Fairness.** Only two liveness properties are checked. `ProbeLoops` assumes
weak fairness of the loop itself, which is sequential code. `MTIsr` assumes
strong fairness of the steps of a call that has begun, for each context: main
code is disabled whenever the handler runs, infinitely often if the handler is
called again and again, so `CallsReturn` needs that interrupts do not take all
of the processor; nothing is assumed about a call being made. `MTCore` states no
liveness: its calls are atomic.

**Deadlock** is checked in every run except `probe_loops`, `link`,
`find_capture` and `host`, where the loop, the capture or the command ends by
design.

## 4. What is proved

TLAPS checks every proof to the last leaf. The theorems hold for every table
size, set of addresses, hash function, word width, set of sizes and sites, set of
messages, number of calls and number of faults, every snapshot, every file of
frames, every file map and every size of screen, under the assumptions named in the
modules (a positive table size not above `U32Max`; byte counts are naturals; lines
are integers; a frame that the sender accepts is not longer than the reader does;
the fields of a snapshot have the widths of their types and it has at most 65536
records, since their indices are `uint16_t`; the limits of the buckets grow).
Where a theorem needs more, the last column of its table says what.

### The tracker (`AllocTableProofs`, `MTCoreProofs`)

`AllocTableProofs` proves facts about the table as a value. `TableInv(t)` says
that every slot of a record's probe sequence before the record is not EMPTY and
that no two USED slots hold the same address. From it: `mt_find_slot` is
complete (`FindSlotComplete`); `mt_find_insert_slot` fails exactly when all
slots are USED (`FullIffAllUsed`); inserting a new address, deleting a slot and
updating a record keep `TableInv`.

`MTCoreProofs` proves that `CoreInv` is inductive:

    CoreInv == StateTypeOK /\ TableInv(table) /\ RecordsTrue
               /\ TombstonesStale /\ UsedCountExact

None of the conjuncts is inductive alone. `TableInv` is kept by an insertion
only if the address has no record yet, which follows from `RecordsTrue` (records
are of live blocks, and the real allocator returns a dead one); `RecordsTrue` is
kept by `mt_free` only if the search is complete, which is `TableInv`;
`used_count - 1` stays a natural number because of `UsedCountExact`, and the
slot freed is USED; a block without a record has no tombstone (`TombstonesStale`)
because a block is refused only when no slot is a tombstone (`FullIffAllUsed`).
The argument is one lemma per action, with the effect on the table of an
insertion and of a deletion as lemmas of their own. On it rest:

| Theorem | Property | Assumption |
|---|---|---|
| `TypeCorrect` | `[]TypeOK` | |
| `UsedCount` | `[]UsedCountExact` | |
| `Findable` | `[]RecordsFindable` | |
| `RecordsDescribe` | `[]RecordsDescribeLiveBlocks` | |
| `NoneSwallowed` | `[]NoLiveBlockSwallowed` | every allocation is wrapped (`~PlainClients`) |
| `DropsWhenFull` | `DropsOnlyWhenFull` | |
| `TrackedStays` | `TrackedBlocksStayTracked` | |
| `UsageMatches` | `[]UsageMatchesRecords` | |
| `HotspotsCount` | `[]HotspotsCountEveryMalloc` | |
| `SeqIdentifies` | `[]SeqIdentifiesRecords` | `g_seq` does not wrap (`MaxOps < U32Max`) |
| `ActiveCounted` | `[]ActiveWithinDrops` | every allocation is wrapped, no counter wraps (`MaxOps <= U32Max`) |
| `TrackerIsLedger` | `ImplementsLedger` | every allocation is wrapped |

`RecordsDescribe` covers sizes of any width: a clamp and a cast both satisfy
`Describes` (lemma `SizeDescribes`), so a record may understate a block of 4 GB
but never claim more than there is. The others need a little more than `CoreInv`:

* `UsageMatches`: `UsageInv` says that `current_used` is the sum of the recorded
  sizes, or that an addition saturated, which `peak_used` remembers for ever.
* `HotspotsCount`: `HotspotInv` relates the sum over the hotspots to the counters
  modulo the width of a word, since each of them wraps.
* Both sums are folds over a finite set. What a fold does when one element changes
  is proved by taking the element out of the set, not by induction.
* `SeqIdentifies`: `g_seq` is one more than the calls that wrote a record.
* `ActiveCounted`: `LiveCounted` bounds the live blocks and the records by the
  totals from both sides; that no more blocks have records than are live is the
  cardinality of an injection.
* `TrackerIsLedger`: `LedgerOf` maps each step of `mt_malloc`, `mt_free` and
  `mt_realloc` to the step of the ledger of that name, or to a stutter, by cases on
  the paths of the function; that the ledger refuses exactly when the table does is
  `UsedCountExact` with `FullIffAllUsed`.

### The probe loops (`ProbeLoopsProofs`)

`LoopsAreSearches` (`[]LoopsReturnSlots`) is what lets all other modules take a
search as one step. `LoopInv` says what the loop has passed: no EMPTY slot, no
record of the address, and for an insertion the first tombstone of the walk. A walk
of `MaxAllocs` steps visits every slot, whatever the hash (`ProbeNext`: one slot
further is the next remainder).

### Interrupts and tasks (`MTIsrProofs`)

| Theorem | Property | Assumption |
|---|---|---|
| `GuardIsReleased` | `[]GuardReleased` | |
| `CountIsExact` | `[]UsedCountExact` | |
| `RealHeapStaysIntact` | `[]RealHeapIntact` | |
| `FoundSlotStaysPut` | `[]FoundSlotStays` | preemption nests (`Nested`) |
| `ConsistentBarRaces` | `[]ConsistentUnlessRaced` | |

They hold for any number of contexts and any relation of who interrupts whom.
`BaseInv` (theorem `BaseInvariant`) says what a context can be doing at each step
(`TypesInv`), that the lock belongs to the one context inside it, that somebody is
still on the way to clear a guard that is set, that every live block is client
code's or on its way through one call (`OwnInv`), and the count. `Nested`, that no
two contexts interrupt each other, is true of main code with interrupt handlers
and not of two tasks. With it `NestInv` is inductive: of two calls in progress one
interrupted the other, and the upper one never found the slot the lower one relies
on, as it does not have the block. `RaceInv` holds as long as no call found the
guard set and no address was handed out again between a real realloc and the update
of its record: the table is searchable, every record is of a live block or of one
that moves, and each call knows of its slot what it needs.

### Reports (`MTReadersProofs`)

| Theorem | Property | Assumption |
|---|---|---|
| `ListedOnce` | `[]NoSlotTwice` | |
| `ListedWasThere` | `[]ListedExisted` | |
| `StableIsListed` | `[]StableListed` | |
| `QuietReport` | `[]QuietReportExact` | every allocation is wrapped, no counter wraps |

`ReadersInv` is `CoreInv` and what holds of the report: which locals are in use
where, how far the loops are (`WritingInv`), that no index is collected twice
(`OnceInv`: exchanging two keeps that, whatever the addresses do meanwhile), that
what the collected slots hold was once a record, also after it was freed
(`SeenInv`: `mt_slot_free` leaves the fields), that a stable slot is collected once
it was looked at and its fields are read as they are (`StableInv`), and, unless the
tracker ran in between, that the counters are those of the table and the indices
sorted as far as the exchange sort has come (`QuietInv`). It holds for any number of
disturbing calls and any order in which `snprintf`'s arguments are evaluated.

An entry that is read field by field need not be a record that ever existed
(section 6), so `ListedWasThere` does not say so. `HeldInv` is what is inductive
and what remains: each field read so far is that of a record which the slot held
since the first field of this entry was read. If the slot held one record only, the
entry is that record.

### Fragmentation, telemetry, hotspots (`DumpsProofs`)

| Theorem | Property | Assumption |
|---|---|---|
| `FragIsSound` | `[]FragSound` | |
| `HealthIsThatOfPermille` | `[]HealthMatches` | |
| `Paced` | `[]TelemetryPaced` | |
| `QuietDumpsSorted` | `[]QuietDumpSorted` | |
| `EntriesPrintedOnce` | `[]HotspotsPrintedOnce` | no count and no sum of bytes wraps |

`HealthMatches` compares the class with the ranges that the comments at
`MT_FRAG_OK_MAX` and `MT_FRAG_WARN_MAX` give (`DocumentedHealth`), not with the
function that computes it; it says nothing at `MT_FRAG_WARN_MAX` itself, where code
and comments differ (section 6).

The first two rest on `FragInv`: at each step, the packed word is `Pack` of the
locals it was computed from, and the stored statistics are what it unpacks to. The
rest is arithmetic in lemmas of its own: an integer quotient is monotone
(`DivMonotone`), a wrapped product is never larger than the product
(`TruncBounds`), hence the ratio is below 1000 whenever `largest < total`
(`RatioBounds`) and the permille is in `1..1000` (`PermilleBounds`), which the 16
bits of its field hold (`Unpacked`).

The invariant of `Paced` relates the counter, which wraps, to the history `passed`,
which does not: `Delta` is `passed`, or `passed` less full rounds of the counter;
the step of the proof that matters is that this survives a tick.

`DumpInv` says that the indices are a permutation of those of the entries there
were at the start, and, if nobody changed a count, sorted as far as the loops have
come, with the fields read so far of a line those of its entry. `GrowthInv` adds,
for counters that do not wrap, that what is printed lies between then and now: each
of the fields read so far does when it is read, and counts only grow.

### Snapshots (`HostProofs`, first part)

| Theorem | Property | Assumption |
|---|---|---|
| `SnapshotIsReadBack` | `[]SnapshotRoundTrip` | |
| `DamageIsTold` | `[]DamageTold` | |

`DecodeInv` says that the file is what was written, or that with one damage, and
that what each reader knows is what its decoder makes of that file. The rest is
about the operators of `MTS1Codec`, for all 64 bits of a word:

* A word written low byte first is read back by the viewer (`ViewerReadsWord`) and
  by the script (`ScriptReadsWord`), which take the bits of a byte together in
  different orders, wherever the bytes stand in a file. So is a record, whatever its
  values (`RecordRoundTrip`); and `SnapshotLayout` says where in the file each field
  of the header and each record is. The number of records, which is written as bits
  and compared as a number, comes back from its bits because it is below 2^28
  (`NumberRead`).
* The checksum of a byte is eight steps, each of which shifts a bit out and, if it
  was set, adds the polynomial. As the polynomial has its highest bit set, the
  highest bit of the result tells which it was: a step can be undone
  (`CrcBitType`). Hence different checksums stay different over the same bytes
  (`CrcByteStart`), different bytes take one checksum to different ones
  (`CrcByteTold`), and a file with one byte changed has another checksum
  (`CrcOneByte`, `ChangeTold`). The three programs compute it with the same loop,
  and the model has one operator for it (`CrcLoop`).
* A change of the number of records makes the viewer refuse the file or take all of
  it into the checksum; the script takes as many records as the changed number says,
  and what it makes of them is a matter of chance. This is where `DamageTold` is
  weaker for the script, and what `LuckToldToo` adds for the instance.

### The viewer and its terminal (`HostProofs`, second part)

| Theorem | Property | Assumption |
|---|---|---|
| `HotspotsAreRight` | `[]HotspotsCountRecords` | |
| `DiffIsExact` | `[]DiffExact` | |
| `RunIsShown` | `[]RunShown` | |
| `ChartsAreExact` | `[]ChartsExact` | |

The first two are of `Spec`, the loop that reads files, the last two of `TuiSpec`,
the program with its terminal, which implements `Spec` (`TerminalOnlyReads`): a key
changes nothing of the model. They hold for any number of frames.

`ViewInv` says of each run that its model is that of the snapshots read so far
(`IsModelOf`): the timeline, the peak, the last snapshot, the number of snapshots,
and `Tally`: no two hotspots are of one site, every record has one, and each counts
the records of its site and their bytes modulo 2^32. What is inductive is `Tally`,
not `HotspotsCountRecords`: one more record either meets the one hotspot of its site
or, if the linear search finds none, makes the first one (`TallyMore`); that there
are as many hotspots as sites is then a bijection. `IsReplayOf` and `Exported` say
the same of what only replay and only export keep.

`DiffExact` follows at the end of the second file: sites that only one run has are
the hotspots that only one model has (`OnlySites`); an increase above the integer
quotient `peak / 10` is one whose tenfold is above the peak (`SpikesTrue`); the
difference of two `uint32_t` is that of the numbers if neither is above `INT32_MAX`,
or if usage rose (`PeaksSubtract`, `RiseTrue`). A list of top hotspots is sorted,
complete and without repetition because inserting keeps it so (`OneMorePlaced`,
`TopSorted`).

`TuiInv` says that the screen is the one drawn of the model as it is (`Shows`). For
the charts: a quotient is monotone and a wrapped product is never above the product
(`BarBounds`), so no column is too high and none shows a snapshot ahead of its
place; the columns run through all snapshots in order as far as the product of
column and count fits in a word, which for the 80 columns of the code is up to 54
million snapshots (`ColumnsRun`); each size is in the bucket between its two limits
(`BucketLabelled`) and each bucket counts its records (`RecordsCounted`); and the
largest count has the longest bar (`LongestBar`).

The loops over records, hotspots, columns and bytes are folds of the community
modules, and the properties sum with one. Induction over data is not out of reach
for them: a set of naturals has a least member (`LeastNat`), so a set that has 0 and
each successor has all (`UpTo`), and likewise for the subsets of a finite set
(`SubsetInduction`). With that, a fold exists and satisfies its equation
(`FoldExists`), and it goes through a chain of values, one for each element
(`ChainExists`, `FoldTrace`), along which a property can be carried.

### The stream (`MTV1LinkProofs`)

| Theorem | Property | Assumption |
|---|---|---|
| `GoodFramesAreGood` | `[]GoodFramesWereSent` | |
| `SeqCountsLoss` | `[]SeqTellsLoss` | |
| `ResyncFinds` | `[]ResyncWithinReach` | |
| `CaptureFileKeeps` | `[]CaptureKeeps` | |

They hold for every header length, every set of messages and any number of faults.

`LinkInv` (theorem `LinkInvariant`): the header bytes on the line are those of the
newest frame, in order; those the reader has come before them and are of a frame
behind all good ones. So a header is complete only if it was read byte by byte from
one frame, and once. `SeqInv` says that frame number `i` has a sequence number
congruent to `i` modulo `SeqMax`.

`SyncInv` (theorem `SyncInvariant`) is the argument of the resynchronisation:

    ReaderInv: the reader is in step with the frame on the line,
               or Debt(rd) + calm <= Reach

To be in step after `p` bytes of a frame is to have the first `p` letters of the
magic at the end of the window, or `p - 4` bytes of its header, or its header and so
much of its payload. `Debt` is what a call may still take for the frame it thinks it
has found: nothing while it searches, at most `HeaderLen + MaxLen` after a magic.
Each transmitted byte lowers it by one and raises `calm` by one at most; a byte on
which the search ends cannot come when no payload holds the last letter of the
magic, unless the reader is in step (`NoMagic`). So when `calm` is `Reach`, the debt
is paid, the call searches, and the next frame begins in step, from which each byte
leads to the next step and the last to a result with a right checksum (`StepOn`).
`FileInv` (theorem `FileInvariant`) adds that the good frames of the file were good
frames of the reader, in the same order.

The attempt to prove this changed the property. It used to say that a fault outside
a header costs at most the next frame, which is so only in an instance where no frame
is shorter than what can be missing of another one: when the transport stops in the
middle of a long payload, the reader takes the rest of it from what follows, and
several short frames may fit there. A header whose length field is hit makes it take
up to 64 KB. `calm`, `safe` and `Reach` were introduced to say what is true in all
these cases, and the bounds of `link` were changed so that TLC tells the difference.

## 5. What is only model-checked, and what is not modelled

Model-checked only:

* liveness (`LoopsEnd`, `CallsReturn`), which needs `ENABLED` and is out of the
  prover's reach;
* `LuckToldToo` of `MTS1Decode`: that the script notices a changed number of records,
  and the viewer bytes behind a snapshot, is so except with a chance of 2^-32 that
  depends on the contents. It is true of the snapshots of the run, and no theorem.

Every other property of the passing runs, each invariant and each action property,
is a theorem of section 4.

Left out of the modules: the hash function and pointer arithmetic (a constant);
the double lazy initialisation of two contexts (`mt_api.h:22-23` excludes it);
builds without `MT_LOCK` that allocate from interrupts (`docs/KNOWN_LIMITS.md`
section 4 excludes them); the two compile-time hooks for strings; the wording of
the dumps, of the script and of the screens; the byte layout of frames and their
CRC (that of snapshots is in `MTS1Codec`); opening a serial port and setting its
baud rate; the lengths of the lines and paths of a file map (the viewer cuts a
path after 127 characters); the rate at which the terminal asks for keys;
`tui_render_diff`, which no command can reach, and `tui_sparkline`, which is
empty. Because the checksum of frames is ideal,
`GoodFramesWereSent` is a statement about the reader and not about the 2^-32 of
wrong frames that a CRC lets through; and a payload that contains a complete
frame, header and all, is not among the messages. A report in `MTReaders` is
disturbed by whole calls, not by half of one: that is an interrupt handler or a
callback, not a second task. The examples, self-tests and tests of the repository
drive the code and are read, not modelled. The one part marked `not_modelled` in
`PROJECT.json`, the command line, has no state a property would be about.

## 6. Findings

| Run | What the code does | What the repository says |
|---|---|---|
| `find_tombstones` | `mt_malloc` reuses a tombstone without decrementing `g_tombstone_count` (`mt_realloc` does), so the counter exceeds the number of slots | `include/mt_types.h:53`, `include/mt_internal.h:64` |
| `find_capture` | a capture ends with the first 100 ms without a byte, END frame or not | `tools/mt_viewer_c/README.md:60` |

These are the runs that TLC ends with a counterexample. Other behaviours that the
models made visible, without a run of their own:

* A double free is recognised by a tombstone with its address; once a later
  allocation has reused that tombstone, or when the block was never recorded, the
  second free reaches the real allocator (`mt_core.c:383`).
* A dropped block that a realloc adopts is in neither total until it is freed:
  `total_allocs - total_frees`, which `mt_dump_uart` prints as `active_allocs`, is
  too small by one per adopted block and wraps below zero (`mt_dump.c:108`);
  `ActiveWithinDrops` is what remains true.
* An in-place realloc stores `(uint32_t)size`; every other path clamps
  (`mt_core.c:438`). A block of 2^32 bytes and a few is recorded with those few.
* `mt_snapshot_write` reads the fields of a slot one by one and without `MT_LOCK`
  (`mt_snapshot.c:123-129`), and so does `mt_dump_leaks`. When an interrupt frees the
  block in between and allocates another one, which takes the slot over, or resizes
  the block, the entry has fields of both records and is none that ever existed;
  in a snapshot it has state USED and a right checksum. Within the bounds of `reports`
  TLC finds such an entry if it is asked for one; `include/mt_api.h:130-132` ("array of
  mt_alloc_rec_t", "Only USED records are included") does not mention it.
  `ListedExisted` says how far a mixture can go.
* A fragmentation of 500 permille is CRITICAL and one of 200 is WARN, since the code
  compares with `<` (`mt_fragmentation.c:83`, `:87`). Its comments say "200..500 =
  WARNING" and "Above 500 permille = CRITICAL" (lines 26 and 29), and give 200 to OK
  and to WARNING (lines 22 and 26). `HealthMatches` leaves out the one value where
  they contradict the code.
* `mt_dump_hotspots` lists 10 entries at most (`mt_dump.c:320`), and `mt_dump_uart`
  announces them as "top 10"; `include/mt_api.h:204` says "Top MT_MAX_HOTSPOTS
  entries", which are 64 by default. `QuietDumpSorted` is about the list of the code.
* With `MT_LOCK` defined, an allocation by an interrupt handler between
  `g_inside = 1` and `MT_LOCK` of main code is not recorded. If its address has an
  old tombstone, a later `mt_free` takes it for a double free.
* A frame whose length field is hit on the line costs all frames that begin within
  the length it then has, up to 64 KB and a header (`mtv1_protocol.c`, phase 4 of
  `mtv1_frame_read` reads it all before the checksum is looked at;
  `ResyncWithinReach` says that none is lost beyond).
* `mtv1_capture_run` keeps only results `OK`: an intact frame after skipped bytes
  is not written to the file, a frame with a wrong checksum is.
* The product `largest_free * 1000` overflows from 4.3 MB on. The permille is then
  too high, never too low (`FragSound`).
* `mtv1_model_top_hotspots` sorts the first `n` hotspots and not all of them, so
  with more than `n` it may miss the largest (`mtv1_model.c:150`;
  `include/mtv1_model.h:82` says "Get top N hotspots sorted by total_allocs";
  `DiffExact` and `RunShown` say what the list is).
* The slope of a diff is taken from a difference of two `uint32_t`: it is huge for
  a run whose usage fell (`mtv1_diff.c:79`; `DiffExact` says when it is right).
* The header of a snapshot has 36 bytes; `tools/mt_dump_format.md:11` and
  `examples/verify_crc` say 40. A record has 24; `include/mt_api.h:130` says 28.
* The viewer takes bytes behind the last record into the checksum and calls such a
  snapshot bad, `mt_decode.py` ignores them (`DamageTold`, `LuckToldToo`).
* The script takes as many bytes into the checksum as the header announces, before
  it knows that the header is right (`mt_decode.py:251`): when the line hits the
  number of records, it is chance alone that keeps a snapshot with too few of them
  from being accepted. The viewer has no such gap (`DamageTold`).
* A file map with a hash twice, or a path with a space, names a site differently in
  the viewer and in the script (`SnapshotRoundTrip`).
* The overview's "Frames" counts snapshots only; marks, telemetry and snapshots that
  do not parse are not in it.
* The product of usage and height that a column of the timeline is drawn with wraps
  from 429 MB on, and the column is then too low, never too high (`ChartsExact`); the
  clamp after it is never needed.
* The product of column and number of snapshots that selects what a column of the
  timeline shows is a `uint32_t`, too (`mtv1_render_tui.c:159`): from 54 million
  snapshots on, the columns jump back to the beginning of the run, and none shows a
  later snapshot than that. `ChartsExact` says up to which column they are in order.
* The key `d` never shows anything: replay sets no second run
  (`mtv1_replay.c:120`).
* On POSIX, a baud rate the viewer does not know becomes 9600 without a message.

## 7. Plan

Done, in this order: `AllocTable`, `U32`, `Hotspots`, `ProbeLoops`, `MTCore`,
`AllocLedger`, `MTIsr`, the proofs about `AllocTable` and `MTCore`, `MTReaders`,
`MTFrag` and its proofs, `MTV1Stream`, `MTV1Reader`, `MTV1Link`, `MTV1Viewer`,
`HotspotDump`, `MTTelemetry` and its proofs, `MTS1Codec` and its proofs, `FileMap`,
`MTS1Decode`, `MTV1Tui`; then the remaining theorems about `MTCore`, those about
`MTIsr`, `MTReaders`, `ProbeLoops`, `HotspotDump` and `MTV1Link`, and those about
`MTS1Decode`, `MTV1Viewer` and `MTV1Tui`.

Nothing that keeps a state is left out of the modules, and of the safety properties
of the runs only the one that is a matter of chance is not a theorem. What a
continuation could add: a report that is disturbed by half a call, as a second task
would, in `MTReaders`.
