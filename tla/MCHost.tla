-------------------------------- MODULE MCHost ---------------------------------
(* One run for the programs of the host, which share no state: the commands  *)
(* of the viewer that read files, and both readers of a snapshot.            *)
EXTENDS MTV1Tui, MTS1Decode

VARIABLE program  (* which of them is run *)

Record(f, l, n) == [file_id |-> f, line |-> l, size |-> n]

Snap(current, peak, ok, records) ==
  [current_used |-> current, peak_used |-> peak, crc_ok |-> ok, records |-> records]

(* Usage rises from 10 to 12 and 15 by exactly and by more than a tenth of  *)
(* a peak of 20; three sites, two of them in the same file; sizes whose sum *)
(* wraps; a snapshot without records, one whose checksum is wrong, and a    *)
(* peak that is no positive int32_t.                                        *)
Snapshots0 ==
  {Snap(0, 0, TRUE, <<>>),
   Snap(10, 10, TRUE, <<Record(1, 10, 10)>>),
   Snap(12, 20, TRUE, <<Record(1, 10, 2), Record(1, 20, 10)>>),
   Snap(15, 20, FALSE, <<Record(2, 10, 15), Record(1, 20, 1)>>),
   Snap(48, 50, TRUE, <<Record(1, 20, 24), Record(1, 20, 24)>>)}

Rec(p, n, f, l, s) == [ptr |-> p, size |-> n, file_id |-> f, line |-> l, seq |-> s]

(* Values with the lowest and the highest bit of every field *)
RecA == Rec({3, 20}, {0, 7, 8}, {1, 30}, {4}, {0})
RecB == Rec({3, 31, 32, 63}, {31}, {2, 16, 31}, {0, 15}, {24, 9})

Snap0(na, drops, records) ==
  [current_used |-> {0, 31}, peak_used |-> {1, 15, 31}, total_allocs |-> {2, 23},
   total_frees |-> {8, 16}, seq |-> {5, 30}, frag_na |-> na, drops |-> drops,
   records |-> records]

SomeSnapshots ==
  {Snap0(TRUE, FALSE, <<>>), Snap0(FALSE, TRUE, <<RecA, RecB>>)}

MapLine(id, words) == [id |-> id, words |-> words]

SomeMaps ==
  {<<>>,
   <<MapLine({}, <<>>), MapLine({1, 30}, <<"net.c">>)>>,
   <<MapLine({1, 30}, <<"net.c">>), MapLine({2, 16, 31}, <<"my", "spi.c">>),
     MapLine({1, 30}, <<"old.c">>)>>}

(* Every single bit, some of several *)
SomeFlips == {{b} : b \in 0..7} \cup {{1, 4}, 0..7}

SomeTails == {<<{}>>, <<{0, 7}, {3}>>}

(* At, below and above the limits *)
SomeLimits == <<2, 15, 24>>

NameMap == <<MapLine(1, <<"net.c">>)>>

MCInit ==
  /\ TuiInit /\ DecodeInit
  /\ program \in {"viewer", "decoder"}
  /\ program = "viewer" => map = <<>>
  /\ program = "decoder" => cmd = "replay"

View == program = "viewer" /\ TuiNext /\ UNCHANGED <<program, decodeVars>>
Decode == program = "decoder" /\ DecodeNext /\ UNCHANGED <<program, tuiVars>>

MCNext == View \/ Decode

MCSpec == MCInit /\ [][MCNext]_<<program, tuiVars, decodeVars>>
=============================================================================
