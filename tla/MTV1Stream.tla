------------------------------ MODULE MTV1Stream ------------------------------
(***************************************************************************)
(* The sender of MTV1 frames.  A frame is put together in a buffer and     *)
(* given to the transport in one call, which may write less than all of    *)
(* it.  On the wire a frame is "MTV1", the rest of its header and its      *)
(* payload; of a header byte the model keeps which one of which frame it   *)
(* is, since type, sequence number, length and checksum are only ever read *)
(* together.                                                               *)
(***************************************************************************)
EXTENDS Integers, Sequences

CONSTANTS
  Message,     (* what the application sends: a type and a payload *)
  HeaderLen,   (* the header bytes after the magic (16) *)
  MinSnapshot, (* the shortest snapshot (36) *)
  TxMax,       (* MTV1_TX_MAX_PAYLOAD *)
  SeqMax,      (* UINT32_MAX *)
  MaxFrames    (* bound: frames sent *)

Letter == {"M", "T", "V", "1", "x"}

ASSUME MTV1StreamAssumption ==
  /\ Message \subseteq [type : {"snapshot", "telemetry", "mark", "end"},
                        payload : Seq(Letter)]
  /\ HeaderLen \in Nat \ {0} /\ SeqMax \in Nat \ {0}
  /\ MinSnapshot \in Nat /\ TxMax \in Nat /\ MaxFrames \in Nat

VARIABLES
  seq_counter,  (* mtv1_stream.seq_counter *)
  sent,         (* the frames given to the transport *)
  line          (* external: the bytes of the last one still on their way *)

streamVars == <<seq_counter, sent, line>>

Magic == <<"M", "T", "V", "1">>

(* A byte of the magic or of a payload, and byte number at of the rest of  *)
(* the header of frame number of                                           *)
Plain(sym) == [sym |-> sym, of |-> 0, at |-> 0]
HeaderByte(of, at) == [sym |-> "h", of |-> of, at |-> at]

Bytes(payload) == [k \in DOMAIN payload |-> Plain(payload[k])]

(* The frame buffer of mtv1_send_frame *)
Wire(of, payload) ==
  Bytes(Magic) \o [k \in 1..HeaderLen |-> HeaderByte(of, k)] \o Bytes(payload)

(* mtv1_stream_next_seq: 1..SeqMax, then 1 again *)
NextSeq(c) == IF c = SeqMax THEN 1 ELSE c + 1

(* mtv1_send_snapshot, _telemetry_line, _mark and _end refuse what does not *)
(* fit, before a sequence number is used                                    *)
Accepts(m) ==
  /\ Len(m.payload) <= TxMax
  /\ m.type = "snapshot" => Len(m.payload) >= MinSnapshot
  /\ m.type = "end" => m.payload = <<>>

(* Mutant of SeqAfter: a frame that was not written whole gives its number  *)
(* back                                                                     *)
SeqAfterReused(whole) == IF whole THEN NextSeq(seq_counter) ELSE seq_counter

(* The counter after a frame: advanced whatever the transport returns *)
SeqAfter(whole) == NextSeq(seq_counter)

(* mtv1_send_frame, when the transport writes the first n bytes of the frame *)
SendFrame(m, n) ==
  LET wire == Wire(Len(sent) + 1, m.payload)
  IN  /\ Len(sent) < MaxFrames
      /\ line = <<>>
      /\ Accepts(m)
      /\ n <= Len(wire)
      /\ seq_counter' = SeqAfter(n = Len(wire))
      /\ sent' = Append(sent, [type |-> m.type, payload |-> m.payload,
                               seq |-> NextSeq(seq_counter), written |-> n])
      /\ line' = SubSeq(wire, 1, n)

WholeFrame(m) == Len(Magic) + HeaderLen + Len(m.payload)

StreamInit ==
  /\ seq_counter = 0
  /\ sent = <<>>
  /\ line = <<>>
=============================================================================
