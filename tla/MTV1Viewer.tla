------------------------------ MODULE MTV1Viewer ------------------------------
(***************************************************************************)
(* The host commands that read a file of MTV1 frames: replay and diff      *)
(* build a model of a run from it, export writes a row per snapshot, and   *)
(* diff compares the models of two runs, a and b.  What mtv1_frame_read    *)
(* finds in a file is arbitrary here (MTV1Link says what it can be).       *)
(* Quotients of doubles are exact fractions.                               *)
(***************************************************************************)
EXTENDS U32, SequencesExt

CONSTANTS
  Snapshot,   (* the snapshots in frames, decoded: totals and records      *)
  Text,       (* the texts of marks and of telemetry *)
  MaxMarks,   (* MTV1_MODEL_MAX_MARKS *)
  TopN,       (* the entries of a list of top hotspots (10) *)
  MaxFrames   (* bound: frames in a file *)

Command == {"replay", "export", "diff"}
Run == {"a", "b"}

ASSUME MTV1ViewerAssumption ==
  /\ \A s \in Snapshot :
       /\ s.current_used \in Word /\ s.peak_used \in Word
       /\ s.crc_ok \in BOOLEAN
       /\ s.records \in Seq(ToSet(s.records))
       /\ \A k \in DOMAIN s.records : s.records[k].size \in Word
  /\ MaxMarks \in Nat /\ TopN \in Nat \ {0} /\ MaxFrames \in Nat

VARIABLES
  cmd,      (* the command *)
  loading,  (* the run that is being read; "none" at the end *)
  model,    (* mtv1_model_t of each run *)
  rows,     (* what export wrote *)
  diff,     (* mtv1_diff_result_t *)
  top,      (* the top hotspots that diff reports of each run *)
  frames    (* history: what was read of each run, by type of frame *)

viewerVars == <<cmd, loading, model, rows, diff, top, frames>>

NewModel ==
  [timeline |-> <<>>, last_snapshot |-> <<>>, hotspots |-> <<>>, marks |-> <<>>,
   telemetry |-> <<>>, peak_used_ever |-> 0, total_frames |-> 0,
   resync_count |-> 0, crc_fail_count |-> 0]

NoFrames == [snapshot |-> <<>>, mark |-> <<>>, telemetry |-> <<>>, other |-> <<>>]

FrameCount(f) == Len(f.snapshot) + Len(f.mark) + Len(f.telemetry) + Len(f.other)

Last1(s) == s[Len(s)]

-----------------------------------------------------------------------------
(* The model of a run *)

(* Mutant of SameSite: the line is not compared *)
SameFile(h, r) == h.file_id = r.file_id

SameSite(h, r) == h.file_id = r.file_id /\ h.line = r.line

NewHotspot(r) ==
  [file_id |-> r.file_id, line |-> r.line, total_allocs |-> 0, total_bytes |-> 0]

Counted(h, r) ==
  [h EXCEPT !.total_allocs = Inc(@), !.total_bytes = Trunc(@ + r.size)]

(* A record of a snapshot is added to the first hotspot of its site, which *)
(* is created if there is none                                             *)
AddRecord(hotspots, r) ==
  LET k == SelectInSeq(hotspots, LAMBDA h : SameSite(h, r))
  IN  IF k = 0 THEN Append(hotspots, Counted(NewHotspot(r), r))
      ELSE [hotspots EXCEPT ![k] = Counted(@, r)]

(* mtv1_model_push_snapshot *)
PushSnapshot(m, s) ==
  [m EXCEPT
     !.timeline = Append(@, [current_used |-> s.current_used, peak_used |-> s.peak_used]),
     !.peak_used_ever = IF s.peak_used > @ THEN s.peak_used ELSE @,
     !.last_snapshot = <<s>>,
     !.hotspots = FoldLeft(AddRecord, @, s.records),
     !.total_frames = Inc(@)]

(* mtv1_model_push_mark: the array of marks does not grow *)
PushMark(m, text) ==
  IF Len(m.marks) >= MaxMarks THEN m ELSE [m EXCEPT !.marks = Append(@, text)]

PushTelemetry(m, text) == [m EXCEPT !.telemetry = Append(@, text)]

(* One round of the insertion sort: h goes after the last entry of the     *)
(* sorted part that has no fewer allocations                               *)
Place(s, h) ==
  InsertAt(s, SelectLastInSeq(s, LAMBDA g : g.total_allocs >= h.total_allocs) + 1, h)

(* mtv1_model_top_hotspots *)
TopHotspots(m, n) ==
  LET count == IF Len(m.hotspots) < n THEN Len(m.hotspots) ELSE n
  IN  FoldLeft(Place, <<>>, SubSeq(m.hotspots, 1, count))

-----------------------------------------------------------------------------
(* mtv1_diff_compute *)

(* Mutant of Spikes: an increase of exactly a tenth counts *)
SpikesFromTenth(m) ==
  Cardinality({i \in 2..Len(m.timeline) :
    /\ m.timeline[i].current_used > m.timeline[i - 1].current_used
    /\ m.timeline[i].current_used - m.timeline[i - 1].current_used >=
         m.peak_used_ever \div 10})

(* The increases of current_used above a threshold, which is a quotient of *)
(* integers                                                                *)
Spikes(m) ==
  Cardinality({i \in 2..Len(m.timeline) :
    /\ m.timeline[i].current_used > m.timeline[i - 1].current_used
    /\ m.timeline[i].current_used - m.timeline[i - 1].current_used >
         m.peak_used_ever \div 10})

(* The slope of a timeline is Rise / its length.  The difference is taken  *)
(* of two uint32_t.                                                        *)
Rise(m) == Trunc(Last1(m.timeline).current_used - m.timeline[1].current_used)

(* The number of hotspots of m whose site has none in other *)
OnlyIn(m, other) ==
  Cardinality({i \in DOMAIN m.hotspots :
    \A j \in DOMAIN other.hotspots : ~SameSite(other.hotspots[j], m.hotspots[i])})

(* A word as an int32_t, and the difference as the build computes it *)
Signed(x) == IF x > U32Max \div 2 THEN x - (U32Max + 1) ELSE x
SignedDiff(x, y) == Signed(Trunc(Signed(x) - Signed(y)))

NoDiff ==
  [peak_delta |-> 0, slope_num |-> 0, slope_den |-> 1, spike_count |-> 0,
   new_hotspot_count |-> 0, resolved_hotspot_count |-> 0]

DiffOf(a, b) ==
  LET la == Len(a.timeline)
      lb == Len(b.timeline)
      sloped == la > 1 /\ lb > 1
  IN  [peak_delta |-> SignedDiff(b.peak_used_ever, a.peak_used_ever),
       slope_num |-> IF sloped THEN Rise(b) * la - Rise(a) * lb ELSE 0,
       slope_den |-> IF sloped THEN la * lb ELSE 1,
       spike_count |-> Spikes(a) + Spikes(b),
       new_hotspot_count |-> OnlyIn(b, a),
       resolved_hotspot_count |-> OnlyIn(a, b)]

-----------------------------------------------------------------------------
(* The loop that reads a file, one frame per step.  A result ERROR of      *)
(* mtv1_frame_read, and in diff and export all but snapshots, has no       *)
(* effect.                                                                 *)

Reading ==
  /\ loading # "none"
  /\ FrameCount(frames[loading]) < MaxFrames

Note(type, frame) == frames' = [frames EXCEPT ![loading][type] = Append(@, frame)]

(* Only replay counts the results RESYNC. *)
Resynced(m, resync) ==
  IF cmd = "replay" /\ resync THEN [m EXCEPT !.resync_count = Inc(@)] ELSE m

(* Mutant of Checked: a snapshot with a wrong checksum is not counted *)
CheckedNot(m, s) == m

(* Only replay counts the snapshots whose own checksum is wrong; they are  *)
(* used nevertheless.                                                      *)
Checked(m, s) ==
  IF cmd = "replay" /\ ~s.crc_ok THEN [m EXCEPT !.crc_fail_count = Inc(@)] ELSE m

(* A row of export, which keeps the records in a second file *)
Row(s) ==
  [snap_index |-> Len(rows), current_used |-> s.current_used,
   peak_used |-> s.peak_used, records |-> s.records]

(* A snapshot that mts1_parse accepts *)
ReadSnapshot(s, resync) ==
  /\ Reading
  /\ Note("snapshot", s)
  /\ IF cmd = "export"
     THEN rows' = Append(rows, Row(s)) /\ UNCHANGED model
     ELSE /\ model' = [model EXCEPT ![loading] =
                         PushSnapshot(Checked(Resynced(@, resync), s), s)]
          /\ UNCHANGED rows
  /\ UNCHANGED <<cmd, loading, diff, top>>

ReadText(type, text, resync) ==
  /\ Reading
  /\ cmd = "replay"
  /\ Note(type, text)
  /\ LET m == Resynced(model[loading], resync)
     IN  model' = [model EXCEPT ![loading] =
                     CASE type = "mark"      -> PushMark(m, text)
                       [] type = "telemetry" -> PushTelemetry(m, text)]
  /\ UNCHANGED <<cmd, loading, rows, diff, top>>

(* A snapshot that mts1_parse refuses or a frame of another type, found by *)
(* a resynchronisation                                                     *)
ReadOther ==
  /\ Reading
  /\ cmd = "replay"
  /\ Note("other", "other")
  /\ model' = [model EXCEPT ![loading] = Resynced(@, TRUE)]
  /\ UNCHANGED <<cmd, loading, rows, diff, top>>

(* load_run_file begins with mtv1_model_init. *)
SecondModel == NewModel

(* An END frame, which is the last one that is read, or the end of the file *)
ReadEnd ==
  /\ loading # "none"
  /\ IF cmd = "diff" /\ loading = "a"
     THEN /\ loading' = "b"
          /\ model' = [model EXCEPT !.b = SecondModel]
          /\ UNCHANGED <<diff, top>>
     ELSE /\ loading' = "none"
          /\ diff' = IF cmd = "diff" THEN DiffOf(model.a, model.b) ELSE NoDiff
          /\ top' = IF cmd = "diff" THEN [r \in Run |-> TopHotspots(model[r], TopN)]
                    ELSE top
          /\ UNCHANGED model
  /\ UNCHANGED <<cmd, rows, frames>>

Init ==
  /\ cmd \in Command
  /\ loading = "a"
  /\ model = [r \in Run |-> NewModel]
  /\ rows = <<>>
  /\ diff = NoDiff
  /\ top = [r \in Run |-> <<>>]
  /\ frames = [r \in Run |-> NoFrames]

Next ==
  \/ \E s \in Snapshot, resync \in BOOLEAN : ReadSnapshot(s, resync)
  \/ \E type \in {"mark", "telemetry"}, text \in Text, resync \in BOOLEAN :
       ReadText(type, text, resync)
  \/ ReadOther
  \/ ReadEnd

Spec == Init /\ [][Next]_viewerVars

-----------------------------------------------------------------------------
(* Properties *)

Snapshots(r) == frames[r].snapshot

(* The records of run r by position, and which of them are of site x *)
Positions(r) ==
  UNION {{k} \X DOMAIN Snapshots(r)[k].records : k \in DOMAIN Snapshots(r)}

RecordAt(r, p) == Snapshots(r)[p[1]].records[p[2]]

RecordsAt(r, x) ==
  {p \in Positions(r) :
     RecordAt(r, p).file_id = x.file_id /\ RecordAt(r, p).line = x.line}

Sizes(r) == [p \in Positions(r) |-> RecordAt(r, p).size]

SitesOf(r) ==
  {[file_id |-> RecordAt(r, p).file_id, line |-> RecordAt(r, p).line] :
     p \in Positions(r)}

(* A model has one hotspot for each site of the run's records, which counts  *)
(* the records of exactly that site, in words that wrap.                     *)
HotspotsCountRecords ==
  cmd # "export" =>
    \A r \in Run :
      LET hs == model[r].hotspots
      IN  /\ Len(hs) = Cardinality(SitesOf(r))
          /\ \A x \in SitesOf(r) : \E k \in DOMAIN hs :
               /\ hs[k].file_id = x.file_id /\ hs[k].line = x.line
               /\ hs[k].total_allocs = Trunc(Cardinality(RecordsAt(r, x)))
               /\ hs[k].total_bytes = Trunc(SumFunctionOnSet(Sizes(r), RecordsAt(r, x)))

(* A list of top hotspots of a model is sorted, names no hotspot twice and  *)
(* is full; so it has all of them if there are no more than it has room for.*)
(* (If there are more, it has the first and not the largest ones.)          *)
TopOf(list, m, n) ==
  /\ Len(list) = Min({Len(m.hotspots), n})
  /\ IsInjective(list)
  /\ ToSet(list) \subseteq ToSet(m.hotspots)
  /\ IsSorted(list, LAMBDA g, h : g.total_allocs >= h.total_allocs)

Compared == cmd = "diff" /\ loading = "none"

PeakOf(r) == Max({0} \cup {s.peak_used : s \in ToSet(Snapshots(r))})

Growth(r, k) == Snapshots(r)[k].current_used - Snapshots(r)[k - 1].current_used

TrueSpikes(r) ==
  {k \in 2..Len(Snapshots(r)) : Growth(r, k) > 0 /\ 10 * Growth(r, k) > PeakOf(r)}

TrueRise(r) ==
  Last1(Snapshots(r)).current_used - Snapshots(r)[1].current_used

(* The comparison is that of the runs themselves: sites that only one run    *)
(* has, increases above a tenth of the peak although the threshold is an     *)
(* integer, peaks that an int32_t can hold, and the slopes, provided that    *)
(* usage rose in both runs or the runs are the same (then there are no       *)
(* differences at all, which is what tests/test_diff.c expects of one run);  *)
(* and lists of top hotspots.                                                *)
DiffExact ==
  Compared =>
    /\ diff.new_hotspot_count = Cardinality(SitesOf("b") \ SitesOf("a"))
    /\ diff.resolved_hotspot_count = Cardinality(SitesOf("a") \ SitesOf("b"))
    /\ diff.spike_count = Cardinality(TrueSpikes("a")) + Cardinality(TrueSpikes("b"))
    /\ PeakOf("a") <= U32Max \div 2 /\ PeakOf("b") <= U32Max \div 2 =>
         diff.peak_delta = PeakOf("b") - PeakOf("a")
    /\ (\A r \in Run : Len(Snapshots(r)) > 1 /\ TrueRise(r) >= 0) =>
         diff.slope_num * Len(Snapshots("a")) * Len(Snapshots("b")) =
           diff.slope_den * (TrueRise("b") * Len(Snapshots("a"))
                               - TrueRise("a") * Len(Snapshots("b")))
    /\ Snapshots("a") = Snapshots("b") => diff.slope_num = 0
    /\ \A r \in Run : TopOf(top[r], model[r], TopN)
=============================================================================
