------------------------------ MODULE MTV1Reader ------------------------------
(***************************************************************************)
(* mtv1_frame_read, which finds and reads one frame in a stream of bytes:  *)
(* it searches for the magic with a sliding window, reads the rest of the  *)
(* header, checks it, reads as many bytes of payload as the header says    *)
(* and verifies the checksum.  A caller calls it again and again.          *)
(*                                                                         *)
(* A header put together from other bytes than the HeaderLen ones of one   *)
(* frame has arbitrary fields.  The checksum is ideal: it is right exactly *)
(* for a header and a payload that were sent together.                     *)
(***************************************************************************)
EXTENDS MTV1Stream

CONSTANTS
  MaxLen,  (* the longest payload that the reader accepts (65536) *)
  Garbled  (* the type and length of headers nobody sent, if they are valid *)

ASSUME MTV1ReaderAssumption ==
  /\ MaxLen \in Nat /\ TxMax <= MaxLen
  /\ Garbled \subseteq [type : {"none", "snapshot", "telemetry", "mark", "end"},
                       len : 0..MaxLen]

VARIABLES
  rd,   (* the locals of the call in progress *)
  got   (* what the calls returned so far, the last one last *)

readerVars == <<rd, got>>

NewCall ==
  [pc |-> "magic", window |-> <<>>, before |-> 0, resync |-> 0, hdr |-> <<>>,
   type |-> "none", len |-> 0, payload |-> <<>>]

(* Mutant of Slide: the window starts anew after a mismatch *)
SlideRestart(w, sym) ==
  IF sym = Magic[Len(w) + 1] THEN Append(w, sym) ELSE <<>>

(* The window keeps the last four bytes *)
Slide(w, sym) ==
  Append(IF Len(w) = Len(Magic) THEN Tail(w) ELSE w, sym)

(* Mutant of Skipped: the last letters of the magic are counted, too *)
SkippedWithMagic(before) == before

(* The bytes before the magic; the first three letters of the magic itself *)
(* are in before                                                           *)
Skipped(before) == IF before > 3 THEN before - 3 ELSE 0

(* The frame whose header the bytes are, 0 if they are no header *)
FrameOf(hdr) ==
  IF \E i \in DOMAIN sent : hdr = [k \in 1..HeaderLen |-> HeaderByte(i, k)]
  THEN CHOOSE i \in DOMAIN sent : hdr = [k \in 1..HeaderLen |-> HeaderByte(i, k)]
  ELSE 0

(* Mutant of CrcOk: the payload is not checked *)
CrcOfHeader(hdr, payload) == FrameOf(hdr) # 0

(* mtv1_frame_verify_crc *)
CrcOk(hdr, payload) ==
  FrameOf(hdr) # 0 /\ sent[FrameOf(hdr)].payload = payload

(* A call returns r; the caller will call again *)
Returns(r) ==
  /\ got' = Append(got, r)
  /\ rd' = NewCall

ReturnFrame(call) ==
  Returns([result |-> IF call.resync > 0 THEN "RESYNC" ELSE "OK",
           type |-> call.type, payload |-> call.payload, skipped |-> call.resync,
           of |-> FrameOf(call.hdr),
           crc_ok |-> CrcOk(call.hdr, call.payload)])

ReturnNothing(result, skipped) ==
  Returns([result |-> result, type |-> "none", payload |-> <<>>,
           skipped |-> skipped, of |-> 0, crc_ok |-> FALSE])

(* Phase 1: a byte while the magic is searched for *)
SearchMagic(b) ==
  /\ rd.pc = "magic"
  /\ LET window == Slide(rd.window, b.sym)
     IN  rd' = IF window = Magic
               THEN [rd EXCEPT !.pc = "header", !.window = <<>>,
                               !.resync = Skipped(rd.before)]
               ELSE [rd EXCEPT !.window = window, !.before = @ + 1]
  /\ UNCHANGED got

(* Phase 3: the header is complete.  With type and len it is valid. *)
ValidHeader(hdr, type, len) ==
  LET call == [rd EXCEPT !.hdr = hdr, !.type = type, !.len = len, !.pc = "payload"]
  IN  IF len = 0 THEN ReturnFrame(call) ELSE rd' = call /\ UNCHANGED got

(* The types that are accepted include 0, which is none of the four: "none" *)
ParseHeader(hdr) ==
  LET i == FrameOf(hdr)
  IN  \/ i # 0 /\ ValidHeader(hdr, sent[i].type, Len(sent[i].payload))
      \/ i = 0 /\ ReturnNothing("ERROR", rd.resync)
      \/ i = 0 /\ \E h \in Garbled : ValidHeader(hdr, h.type, h.len)

(* Phase 2: a byte of the header *)
ReadHeader(b) ==
  /\ rd.pc = "header"
  /\ LET hdr == Append(rd.hdr, b)
     IN  IF Len(hdr) < HeaderLen
         THEN rd' = [rd EXCEPT !.hdr = hdr] /\ UNCHANGED got
         ELSE ParseHeader(hdr)

(* Phases 4 and 5: a byte of the payload *)
ReadPayload(b) ==
  /\ rd.pc = "payload"
  /\ LET call == [rd EXCEPT !.payload = Append(@, b.sym)]
     IN  IF Len(call.payload) < call.len
         THEN rd' = call /\ UNCHANGED got
         ELSE ReturnFrame(call)

Read(b) == SearchMagic(b) \/ ReadHeader(b) \/ ReadPayload(b)

(* The byte source reports the end of the input.  While the magic is       *)
(* searched for, the number of bytes skipped is not reported.              *)
EndOfInput ==
  ReturnNothing("EOF", IF rd.pc = "magic" THEN 0 ELSE rd.resync)

ReaderInit ==
  /\ rd = NewCall
  /\ got = <<>>
=============================================================================
