-------------------------------- MODULE MTV1Tui --------------------------------
(***************************************************************************)
(* What replay does with the run it has read: a text summary, or the       *)
(* terminal with its three screens, until the user quits.  A screen is     *)
(* what it says, without layout.                                           *)
(***************************************************************************)
EXTENDS MTV1Viewer, FileMap

CONSTANTS
  MapLines,      (* the file map *)
  Width, Height, (* SPARKLINE_WIDTH, SPARKLINE_HEIGHT *)
  BarWidth,      (* columns of a horizontal bar (30) *)
  HeatTop,       (* hotspots on the heatmap (16) *)
  BucketLimits   (* the sizes at which a bucket ends: 16, 32, ..., 1024 *)

ASSUME MTV1TuiAssumption ==
  /\ Width \in Nat \ {0} /\ Height \in Nat \ {0}
  /\ BarWidth \in Nat /\ HeatTop \in Nat \ {0}
  /\ BucketLimits \in Seq(Nat) /\ IsSorted(BucketLimits, LAMBDA x, y : x < y)

VARIABLES
  terminal,       (* "as found", "raw" or "restored" *)
  current_screen, (* what the user chose *)
  heatmap_mode,
  shown           (* what the terminal shows *)

screenVars == <<terminal, current_screen, heatmap_mode, shown>>
tuiVars == <<viewerVars, screenVars>>

-----------------------------------------------------------------------------
(* The screens *)

Nothing == [screen |-> "nothing"]

(* The hotspots of a list with the names of their files *)
WithNames(list) ==
  [k \in DOMAIN list |->
     [hotspot |-> list[k], name |-> MapLookup(MapLines, list[k].file_id)]]

(* A horizontal bar *)
BarLen(n, max) == IF max > 0 THEN Trunc(n * BarWidth) \div max ELSE 0

LargestOf(counts) == FoldLeft(LAMBDA x, n : IF n > x THEN n ELSE x, 0, counts)

(* tui_render_overview: total_frames is printed as "Frames" *)
Overview(m) ==
  [screen |-> "overview", frames |-> m.total_frames, resyncs |-> m.resync_count,
   crc_fails |-> m.crc_fail_count, last |-> m.last_snapshot,
   top |-> WithNames(TopHotspots(m, TopN))]

(* The snapshot that column col shows, both from 0; the product is a uint32_t *)
SnapshotAt(col, count) ==
  LET idx == Trunc(col * count) \div Width
  IN  IF idx >= count THEN count - 1 ELSE idx

(* The height of a column; the product is a uint32_t *)
Bar(val, peak) ==
  LET height == Trunc(val * Height) \div peak
  IN  IF val = 0 \/ peak = 0 THEN 0 ELSE IF height > Height THEN Height ELSE height

(* tui_render_timeline *)
Timeline(m) ==
  LET n    == Len(m.timeline)
      used == [k \in 1..n |-> m.timeline[k].current_used]
      peak == LargestOf(used)
  IN  IF n < 2 THEN [screen |-> "timeline", bars |-> <<>>]
      ELSE [screen |-> "timeline", current |-> used[n], peak |-> peak,
            avg |-> FoldLeft(LAMBDA x, u : x + u, 0, used) \div n,
            bars |-> [c \in 1..Width |->
                        LET k == SnapshotAt(c - 1, n) + 1
                        IN  [of |-> k, height |-> Bar(used[k], peak)]]]

(* Mutant of Bucket: the limit itself belongs to the lower bucket *)
BucketClosed(size) ==
  1 + Cardinality({k \in DOMAIN BucketLimits : size > BucketLimits[k]})

(* The number of the bucket of a size: the first limit above it decides *)
Bucket(size) ==
  1 + Cardinality({k \in DOMAIN BucketLimits : size >= BucketLimits[k]})

NoBuckets == [k \in 1..(Len(BucketLimits) + 1) |-> [allocs |-> 0, bytes |-> 0]]

Count(buckets, r) ==
  [buckets EXCEPT ![Bucket(r.size)] =
     [allocs |-> Inc(@.allocs), bytes |-> Trunc(@.bytes + r.size)]]

(* tui_render_heatmap *)
Heatmap(m, mode) ==
  LET buckets == FoldLeft(Count, NoBuckets, Last1(m.last_snapshot).records)
      sites   == TopHotspots(m, HeatTop)
      bars(counts) == [k \in DOMAIN counts |-> BarLen(counts[k], LargestOf(counts))]
  IN  IF m.last_snapshot = <<>> THEN [screen |-> "heatmap", mode |-> "none"]
      ELSE CASE mode = "size" ->
                  [screen |-> "heatmap", mode |-> mode, buckets |-> buckets,
                   bars |-> bars([k \in DOMAIN buckets |-> buckets[k].allocs])]
             [] mode = "callsite" ->
                  [screen |-> "heatmap", mode |-> mode, top |-> WithNames(sites),
                   bars |-> bars([k \in DOMAIN sites |-> sites[k].total_allocs])]

(* tui_render *)
Render(m, screen, mode) ==
  CASE screen = "overview" -> Overview(m)
    [] screen = "timeline" -> Timeline(m)
    [] screen = "heatmap"  -> Heatmap(m, mode)

-----------------------------------------------------------------------------
(* The loop *)

Replayed == cmd = "replay" /\ loading = "none" /\ terminal = "as found"

(* --no-tui *)
TextOnly ==
  /\ Replayed
  /\ terminal' = "restored"
  /\ shown' = [screen |-> "text", last |-> model.a.last_snapshot]
  /\ UNCHANGED <<viewerVars, current_screen, heatmap_mode>>

(* tui_platform_init, which may fail, and the first picture of tui_run *)
TuiStart ==
  /\ Replayed
  /\ \/ terminal' = "restored" /\ UNCHANGED shown
     \/ terminal' = "raw" /\ shown' = Render(model.a, current_screen, heatmap_mode)
  /\ UNCHANGED <<viewerVars, current_screen, heatmap_mode>>

(* A key draws the screen anew.  d shows nothing: replay has only one run. *)
Key(screen, mode) ==
  /\ terminal = "raw"
  /\ current_screen' = screen
  /\ heatmap_mode' = mode
  /\ shown' = Render(model.a, screen, mode)
  /\ UNCHANGED <<viewerVars, terminal>>

OtherMode == IF heatmap_mode = "size" THEN "callsite" ELSE "size"

KeyScreen == \E s \in {"overview", "timeline", "heatmap"} : Key(s, heatmap_mode)
KeyH == Key(current_screen, OtherMode)
KeyOther == Key(current_screen, heatmap_mode)

(* q: the screen is cleared, and tui_platform_cleanup *)
KeyQ ==
  /\ terminal = "raw"
  /\ terminal' = "restored"
  /\ shown' = Nothing
  /\ UNCHANGED <<viewerVars, current_screen, heatmap_mode>>

TuiInit ==
  /\ Init
  /\ terminal = "as found"
  /\ current_screen = "overview" /\ heatmap_mode = "size"
  /\ shown = Nothing

TuiNext ==
  \/ Next /\ UNCHANGED screenVars
  \/ TextOnly \/ TuiStart \/ KeyScreen \/ KeyH \/ KeyOther \/ KeyQ

TuiSpec == TuiInit /\ [][TuiNext]_tuiVars

-----------------------------------------------------------------------------
(* Properties *)

LastOf(snaps) == IF snaps = <<>> THEN <<>> ELSE <<Last1(snaps)>>

(* Export keeps every snapshot in the order of the file.  The overview of a  *)
(* replay shows the last one, how many there were ("Frames") and how many of *)
(* them have a wrong checksum, and a list of hotspots; the first marks are   *)
(* kept.                                                                     *)
RunShown ==
  LET snaps == Snapshots("a")
      marks == frames["a"].mark
  IN  /\ cmd = "export" =>
           /\ Len(rows) = Len(snaps)
           /\ \A k \in DOMAIN snaps :
                /\ rows[k].current_used = snaps[k].current_used
                /\ rows[k].peak_used = snaps[k].peak_used
                /\ rows[k].records = snaps[k].records
      /\ shown.screen \in {"overview", "text"} => shown.last = LastOf(snaps)
      /\ shown.screen = "overview" =>
           /\ shown.frames = Trunc(Len(snaps))
           /\ shown.crc_fails = Trunc(Cardinality({k \in DOMAIN snaps : ~snaps[k].crc_ok}))
           /\ TopOf([k \in DOMAIN shown.top |-> shown.top[k].hotspot], model.a, TopN)
      /\ cmd = "replay" =>
           model.a.marks = SubSeq(marks, 1, Min({Len(marks), MaxMarks}))

(* The records of the last snapshot with a size in bucket k *)
InBucket(k) ==
  LET records == Last(Snapshots("a")).records
  IN  {i \in DOMAIN records :
         /\ k > 1 => records[i].size >= BucketLimits[k - 1]
         /\ k <= Len(BucketLimits) => records[i].size < BucketLimits[k]}

(* The charts are true to the run.  On the timeline no bar is higher than    *)
(* its place, and none is too high, although the product of usage and height *)
(* wraps; where it does not, bars are exact.  The first column shows the     *)
(* first snapshot, and none is ahead of its place in the file although the   *)
(* product of column and count wraps, too; up to where it wraps, columns run *)
(* through the file in order, and if it never does, they leave none out when *)
(* there are enough.  On the heatmap each record is in the bucket that is    *)
(* labelled with its size, and a longest bar is as long as there is room,    *)
(* unless the product of count and room wraps.                               *)
ChartsExact ==
  LET snaps   == Snapshots("a")
      n       == Len(snaps)
      peak    == Max({s.current_used : s \in ToSet(snaps)})
      columns == shown.bars
  IN  /\ shown.screen = "timeline" /\ n >= 2 =>
           /\ shown.peak = peak
           /\ columns[1].of = 1
           /\ \A c \in 1..Width :
                columns[c].of \in 1..n /\ columns[c].of <= ((c - 1) * n) \div Width + 1
           /\ \A c \in 2..Width :
                (c - 1) * n <= U32Max => columns[c - 1].of <= columns[c].of
           /\ n <= Width /\ (Width - 1) * n <= U32Max =>
                {columns[c].of : c \in 1..Width} = 1..n
           /\ \A c \in 1..Width :
                LET used   == snaps[columns[c].of].current_used
                    height == columns[c].height
                IN  /\ height <= Height /\ height * peak <= used * Height
                    /\ used * Height <= U32Max /\ peak > 0 =>
                         height = (used * Height) \div peak
      /\ shown.screen = "heatmap" /\ shown.mode = "size" =>
           /\ \A k \in DOMAIN shown.buckets :
                LET records == Last(snaps).records
                    sizes   == [i \in DOMAIN records |-> records[i].size]
                IN  /\ shown.buckets[k].allocs = Trunc(Cardinality(InBucket(k)))
                    /\ shown.buckets[k].bytes =
                         Trunc(SumFunctionOnSet(sizes, InBucket(k)))
           /\ Last(snaps).records # <<>> /\ Len(Last(snaps).records) * BarWidth <= U32Max =>
                Max(Range(shown.bars)) = BarWidth
=============================================================================
