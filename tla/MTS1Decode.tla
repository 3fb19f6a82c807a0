------------------------------ MODULE MTS1Decode ------------------------------
(***************************************************************************)
(* A snapshot on its way: mt_snapshot_write fills a buffer, the bytes      *)
(* reach the host as a file, perhaps damaged, and both readers decode it   *)
(* and name the files of its records.                                      *)
(***************************************************************************)
EXTENDS MTS1Codec, FileMap

CONSTANTS
  Written,     (* what mt_snapshot_write finds: totals and sorted records *)
  Capacities,  (* out_cap *)
  FileMaps,    (* file maps, sequences of lines *)
  Flips,       (* bits of a byte that the line changes together *)
  Tails        (* bytes that follow the snapshot in the file *)

(* A line of a file map *)
LineType == [id : Words(4), words : Seq(STRING)]

(* Fields have the widths of their types; used_indices is an array of       *)
(* uint16_t, one for each record.                                           *)
ASSUME MTS1DecodeAssumption ==
  /\ \A s \in Written :
       /\ {s.current_used, s.peak_used, s.total_allocs, s.total_frees, s.seq}
            \subseteq Words(4)
       /\ s.frag_na \in BOOLEAN /\ s.drops \in BOOLEAN
       /\ s.records \in Seq(RecordType) /\ Len(s.records) <= 65536
  /\ Capacities \subseteq Nat
  /\ \A m \in FileMaps : m \in Seq(LineType)
  /\ \A f \in Flips : f # {} /\ f \subseteq 0..7
  /\ \A t \in Tails : t # <<>> /\ t \in Seq(SUBSET (0..7))

VARIABLES
  at,       (* how far the snapshot has come *)
  sent,     (* what was written: a snapshot, and the size of the buffer *)
  file,     (* the bytes *)
  map,      (* the lines of the file map *)
  damage,   (* history: what happened to the bytes *)
  viewer,   (* what the viewer makes of them, with the names of the files *)
  script    (* what mt_decode.py does *)

decodeVars == <<at, sent, file, map, damage, viewer, script>>

NotRead == [ok |-> FALSE, names |-> <<>>]

(* d with the names of the files of its records; name is a function of the hash *)
Named(d, name) ==
  IF ~d.ok THEN NotRead
  ELSE [f \in DOMAIN d \cup {"names"} |->
          IF f = "names" THEN [k \in DOMAIN d.records |-> name[d.records[k].file_id]]
          ELSE d[f]]

FileIds(d) == IF d.ok THEN {d.records[k].file_id : k \in DOMAIN d.records} ELSE {}

(* out_cap < 36: nothing is written, and there is nothing to send *)
Write(s, cap) ==
  /\ at = "device"
  /\ sent' = [snapshot |-> s, out_cap |-> cap]
  /\ file' = SnapshotBytes(s, cap)
  /\ at' = IF file' = <<>> THEN "device" ELSE "line"
  /\ UNCHANGED <<map, damage, viewer, script>>

Damaged(bytes, how) ==
  /\ at = "line" /\ damage = "none"
  /\ file' = bytes /\ damage' = how
  /\ UNCHANGED <<at, sent, map, viewer, script>>

Change(k, flip) == Damaged([file EXCEPT ![k] = SymDiff(@, flip)], "changed")
Cut(len)        == Damaged(SubSeq(file, 1, len), "cut")
Follow(tail)    == Damaged(file \o tail, "followed")

ViewerReads ==
  /\ at = "line"
  /\ LET d == ViewerDecode(file)
     IN  viewer' = Named(d, [id \in FileIds(d) |-> MapLookup(map, id)])
  /\ at' = "viewed"
  /\ UNCHANGED <<sent, file, map, damage, script>>

ScriptReads ==
  /\ at = "viewed"
  /\ LET d == ScriptDecode(file)
     IN  script' = Named(d, [id \in FileIds(d) |-> ScriptLookup(map, id)])
  /\ at' = "decoded"
  /\ UNCHANGED <<sent, file, map, damage, viewer>>

DecodeInit ==
  /\ at = "device"
  /\ sent = <<>> /\ file = <<>>
  /\ map \in FileMaps
  /\ damage = "none"
  /\ viewer = NotRead /\ script = NotRead

DecodeNext ==
  \/ \E s \in Written, cap \in Capacities : Write(s, cap)
  \/ \E k \in DOMAIN file, flip \in Flips : Change(k, flip)
  \/ \E len \in 0..(Len(file) - 1) : Cut(len)
  \/ \E tail \in Tails : Follow(tail)
  \/ ViewerReads \/ ScriptReads

DecodeSpec == DecodeInit /\ [][DecodeNext]_decodeVars

-----------------------------------------------------------------------------
(* Properties *)

Decoded == at = "decoded"

(* What a reader should find: the totals, and the records there was room for *)
SentRecords ==
  SubSeq(sent.snapshot.records, 1,
         Min({Len(sent.snapshot.records), (sent.out_cap - 36) \div 24}))

IsSent(d) ==
  /\ d.records = SentRecords
  /\ \A f \in DOMAIN d.hdr \ {"flags"} : d.hdr[f] = sent.snapshot[f]
  /\ 0 \in d.hdr.flags <=> Len(d.records) < Len(sent.snapshot.records)
  /\ 1 \in d.hdr.flags <=> sent.snapshot.frag_na
  /\ 2 \in d.hdr.flags <=> sent.snapshot.drops

OneNameEach ==
  \A j, k \in DOMAIN map :
    /\ Len(map[k].words) <= 1
    /\ IsEntry(map[j], map[k].id) /\ IsEntry(map[k], map[k].id) => j = k

(* Both readers return exactly what the device wrote, whatever the values    *)
(* and the size of the buffer, and name its files alike, unless the file map *)
(* has a hash twice or a path of several words: the one takes the first      *)
(* entry and the first word, the other the last entry and the whole path.    *)
SnapshotRoundTrip ==
  Decoded /\ damage = "none" =>
    /\ viewer.ok /\ viewer.crc_ok /\ IsSent(viewer)
    /\ script.ok /\ IsSent(script)
    /\ OneNameEach => viewer.names = script.names

Good == viewer.ok /\ viewer.crc_ok

(* A snapshot that was changed or cut is never shown as a good one, whatever *)
(* its contents: the viewer takes everything that follows the header into    *)
(* the checksum.  The script takes as much as the header announces, so that  *)
(* it accepts a changed snapshot, if ever, with a wrong number of records;   *)
(* bytes that follow the snapshot leave it alone.                            *)
DamageTold ==
  Decoded =>
    /\ Good => IsSent(viewer)
    /\ damage \in {"changed", "cut"} => ~Good
    /\ script.ok => IsSent(script) \/ Len(script.records) # Len(SentRecords)
    /\ damage = "changed" /\ script.ok => Len(script.records) # Len(SentRecords)
    /\ damage = "cut" => ~script.ok
    /\ damage = "followed" => viewer.ok /\ script.ok

(* The contents of a snapshot decide, with a chance of 2^-32 against, two    *)
(* kinds of damage more: the script notices a change of the number of        *)
(* records, the viewer bytes that follow the snapshot.                       *)
LuckToldToo ==
  Decoded =>
    /\ damage = "changed" => ~script.ok
    /\ damage = "followed" => ~Good
=============================================================================
