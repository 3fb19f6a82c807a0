------------------------------ MODULE MTS1Codec -------------------------------
(***************************************************************************)
(* The bytes of a snapshot (MTS1): what mt_snapshot_write makes of the     *)
(* records it has chosen, and how its two readers, the viewer in C and     *)
(* tools/mt_decode.py, take them apart.  A word is the set of the numbers  *)
(* of its bits that are 1, so that all 32 and 64 bits are there; a byte is *)
(* a subset of 0..7.                                                       *)
(***************************************************************************)
EXTENDS Integers, SequencesExt

HeaderSize == 36  (* MT_SNAPSHOT_HEADER_WIRE_SIZE, HEADER_SIZE *)
RecordSize == 24  (* MT_SNAPSHOT_RECORD_WIRE_SIZE, RECORD_SIZE *)

(* The number n, and back; TLC's integers end before 2^31 *)
BitsOf(n) == {b \in 0..30 : (n \div 2^b) % 2 = 1}
ValueOf(bits) == MapThenSumSet(LAMBDA b : 2^b, bits)

Magic == <<{0, 2, 3, 6}, {2, 4, 6}, {0, 1, 4, 6}, {0, 4, 5}>>  (* "MTS1" *)
Version == {0}
StateUsed == {0}  (* MT_STATE_USED *)

(* The words of n bytes, and what mt_snapshot_write knows of a block *)
Words(n) == SUBSET (0..(8 * n - 1))
RecordType ==
  [ptr : Words(8), size : Words(4), file_id : Words(4), line : Words(2),
   seq : Words(4)]

-----------------------------------------------------------------------------
(* Bytes *)

(* mt_write_u16le, mt_write_u32le, mt_write_u64le: n bytes, the low one first *)
WriteLE(word, n) == [k \in 1..n |-> {b \in 0..7 : 8 * (k - 1) + b \in word}]

(* Mutant of ReadLE: the high byte first *)
ReadLEBigEndian(bytes, offset, n) ==
  UNION {{8 * (n - 1 - k) + b : b \in bytes[offset + k + 1]} : k \in 0..(n - 1)}

(* util_read_u16le, util_read_u32le, util_read_u64le *)
ReadLE(bytes, offset, n) ==
  UNION {{8 * k + b : b \in bytes[offset + k + 1]} : k \in 0..(n - 1)}

(* struct.unpack('<Q'), '<I' and '<H' of mt_decode.py *)
Unpack(bytes, offset, n) ==
  {b \in 0..(8 * n - 1) : b % 8 \in bytes[offset + 1 + b \div 8]}

-----------------------------------------------------------------------------
(* The checksum: CRC32/IEEE, reflected, bit by bit *)

Ones == 0..31                                                 (* 0xFFFFFFFF *)
Poly == {31, 30, 29, 27, 26, 24, 23, 21, 20, 19, 15, 9, 8, 5} (* 0xEDB88320 *)

Shift(crc) == {b - 1 : b \in crc \ {0}}

CrcBit(crc) == IF 0 \in crc THEN SymDiff(Shift(crc), Poly) ELSE Shift(crc)

CrcByte(crc, byte) ==
  LET after[bits \in 0..8] ==
        IF bits = 0 THEN SymDiff(crc, byte) ELSE CrcBit(after[bits - 1])
  IN  after[8]

(* The union is that of one word: so TLC evaluates byte after byte. *)
CrcLoop(bytes, crc) ==
  LET after[n \in 0..Len(bytes)] ==
        IF n = 0 THEN crc
        ELSE UNION {CrcByte(c, bytes[n]) : c \in {after[n - 1]}}
  IN  after[Len(bytes)]

(* mt_crc32_ieee_update *)
TrackerCrc(bytes, crc) == CrcLoop(bytes, crc)

(* mtv1_crc32_update and crc32_ieee are the same loop written again. *)
ViewerCrc(bytes, crc) == CrcLoop(bytes, crc)
PythonCrc(bytes, crc) == CrcLoop(bytes, crc)

-----------------------------------------------------------------------------
(* The writer *)

(* A record in 24 bytes: the state is a constant and the last byte before  *)
(* seq is not used                                                         *)
RecordBytes(r) ==
  WriteLE(r.ptr, 8) \o WriteLE(r.size, 4) \o WriteLE(r.file_id, 4)
    \o WriteLE(r.line, 2) \o <<StateUsed, {}>> \o WriteLE(r.seq, 4)

(* The records there is room for in out_cap bytes *)
FinalCount(s, out_cap) ==
  IF HeaderSize + Len(s.records) * RecordSize > out_cap
  THEN (out_cap - HeaderSize) \div RecordSize
  ELSE Len(s.records)

(* OVERFLOW, FRAG_NA, DROPS and CRC_OK *)
FlagBits(s, out_cap) ==
  {b \in 0..3 :
     CASE b = 0 -> HeaderSize + Len(s.records) * RecordSize > out_cap
       [] b = 1 -> s.frag_na
       [] b = 2 -> s.drops
       [] b = 3 -> TRUE}

(* The 32 bytes of the header before the checksum *)
HeadBytes(s, out_cap) ==
  Magic \o WriteLE(Version, 2) \o WriteLE(FlagBits(s, out_cap), 2)
    \o WriteLE(BitsOf(FinalCount(s, out_cap)), 4)
    \o WriteLE(s.current_used, 4) \o WriteLE(s.peak_used, 4)
    \o WriteLE(s.total_allocs, 4) \o WriteLE(s.total_frees, 4) \o WriteLE(s.seq, 4)

(* mt_snapshot_write, given its statistics and its sorted records *)
SnapshotBytes(s, out_cap) ==
  IF out_cap < HeaderSize THEN <<>>
  ELSE LET head == HeadBytes(s, out_cap)
           body == FlattenSeq([k \in 1..FinalCount(s, out_cap) |->
                                 RecordBytes(s.records[k])])
           crc  == TrackerCrc(body, TrackerCrc(head, Ones))
       IN  head \o WriteLE(SymDiff(crc, Ones), 4) \o body

-----------------------------------------------------------------------------
(* The viewer *)

Refused == [ok |-> FALSE]

(* record_count > (UINT32_MAX - 36) / 24 *)
TooMany(count) ==
  (\E b \in count : b >= 28) \/ ValueOf(count) > 178956969

HeaderOf(p) ==
  [flags |-> ReadLE(p, 6, 2), current_used |-> ReadLE(p, 12, 4),
   peak_used |-> ReadLE(p, 16, 4), total_allocs |-> ReadLE(p, 20, 4),
   total_frees |-> ReadLE(p, 24, 4), seq |-> ReadLE(p, 28, 4)]

RecordOf(p, o) ==
  [ptr |-> ReadLE(p, o, 8), size |-> ReadLE(p, o + 8, 4),
   file_id |-> ReadLE(p, o + 12, 4), line |-> ReadLE(p, o + 16, 2),
   seq |-> ReadLE(p, o + 20, 4)]

(* Mutant of VerifyCrc: the answer of the comparison is not used *)
VerifyCrcUnused(p) == TRUE

(* mts1_verify_crc: of everything that follows the header *)
VerifyCrc(p) ==
  LET crc == ViewerCrc(SubSeq(p, 37, Len(p)), ViewerCrc(SubSeq(p, 1, 32), Ones))
  IN  SymDiff(crc, Ones) = ReadLE(p, 32, 4)

(* payload_len >= 36 + record_count * 24 *)
Fits(len, count) == ValueOf(count) <= (len - HeaderSize) \div RecordSize

(* mts1_parse and, if it accepts, mts1_verify_crc *)
ViewerDecode(p) ==
  IF \/ Len(p) < HeaderSize
     \/ SubSeq(p, 1, 4) # Magic
     \/ ReadLE(p, 4, 2) # Version
     \/ TooMany(ReadLE(p, 8, 4))
     \/ ~Fits(Len(p), ReadLE(p, 8, 4))
  THEN Refused
  ELSE [ok |-> TRUE, hdr |-> HeaderOf(p), crc_ok |-> VerifyCrc(p),
        records |-> [k \in 1..ValueOf(ReadLE(p, 8, 4)) |->
                       RecordOf(p, HeaderSize + (k - 1) * RecordSize)]]

-----------------------------------------------------------------------------
(* mt_decode.py *)

(* parse_header *)
ParseHeader(data) ==
  [flags |-> Unpack(data, 6, 2), current_used |-> Unpack(data, 12, 4),
   peak_used |-> Unpack(data, 16, 4), total_allocs |-> Unpack(data, 20, 4),
   total_frees |-> Unpack(data, 24, 4), seq |-> Unpack(data, 28, 4)]

(* parse_record; the state, which is not shown, is left out *)
ParseRecord(data, offset) ==
  [ptr |-> Unpack(data, offset, 8), size |-> Unpack(data, offset + 8, 4),
   file_id |-> Unpack(data, offset + 12, 4), line |-> Unpack(data, offset + 16, 2),
   seq |-> Unpack(data, offset + 20, 4)]

(* record_count > (2**32 - 1) // RECORD_SIZE *)
CountOverflow(count) ==
  (\E b \in count : b >= 28) \/ ValueOf(count) > 178956970

(* The checksum of the header and of as many records as it announces *)
ScriptCrcOk(data, count) ==
  LET body == SubSeq(data, 37, HeaderSize + count * RecordSize)
      crc  == PythonCrc(body, PythonCrc(SubSeq(data, 1, 32), Ones))
  IN  SymDiff(crc, Ones) = Unpack(data, 32, 4)

(* main: what it exits with an error of, in this order, and what it prints  *)
(* and exports otherwise                                                    *)
ScriptDecode(data) ==
  LET count == ValueOf(Unpack(data, 8, 4))
  IN  IF \/ Len(data) < HeaderSize
         \/ SubSeq(data, 1, 4) # Magic
         \/ Unpack(data, 4, 2) # Version
         \/ CountOverflow(Unpack(data, 8, 4))
         \/ count > (Len(data) - HeaderSize) \div RecordSize
         \/ ~ScriptCrcOk(data, count)
      THEN Refused
      ELSE [ok |-> TRUE, hdr |-> ParseHeader(data),
            records |-> [k \in 1..count |->
                           ParseRecord(data, HeaderSize + (k - 1) * RecordSize)]]
=============================================================================
