------------------------------- MODULE MTV1Link -------------------------------
(***************************************************************************)
(* A tracker that sends MTV1 frames over a serial line to `mt_viewer       *)
(* capture'.  The line may lose, change and add bytes; the transport of    *)
(* the sender may stop in the middle of a frame; and no byte may come for  *)
(* so long that the viewer's read times out.                               *)
(***************************************************************************)
EXTENDS MTV1Reader, FiniteSets

CONSTANTS
  NoiseSym,   (* what a byte is changed to and what added bytes are *)
  TimeLimit,  (* --seconds is given and not 0 *)
  MaxFaults   (* bound: faults of the line and of the transport *)

ASSUME MTV1LinkAssumption == 
  NoiseSym \subseteq Letter /\ TimeLimit \in BOOLEAN /\ MaxFaults \in Nat

VARIABLES
  file,       (* the frames that capture wrote *)
  ended,      (* why capture ended: "END", "EOF", or "no" *)
  faults,     (* history: the number of faults so far *)
  calm,       (* history: bytes of whole frames since the last, up to Reach *)
  safe        (* history: the frames transmitted intact after that many *)

captureVars == <<file, ended>>
faultVars == <<faults, calm, safe>>
linkVars == <<streamVars, readerVars, captureVars, faultVars>>

Newest(s) == s[Len(s)]

(* The most bytes that the reader takes once it has found a magic *)
Reach == HeaderLen + MaxLen

(* The number of bytes of the last frame that have left the line *)
Transmitted == Newest(sent).written - Len(line)

(* A fault, which the frames in lost do not survive intact *)
Fault(lost) ==
  /\ faults < MaxFaults
  /\ faults' = faults + 1
  /\ calm' = 0
  /\ safe' = safe \ lost

-----------------------------------------------------------------------------
(* The sender; a partial write is a fault of its transport. *)
Send(m, n) ==
  /\ ended = "no"
  /\ SendFrame(m, n)
  /\ \/ /\ n = WholeFrame(m)
        /\ safe' = IF calm = Reach THEN safe \cup {Len(sent) + 1} ELSE safe
        /\ UNCHANGED <<faults, calm>>
     \/ n < WholeFrame(m) /\ Fault({})
  /\ UNCHANGED <<readerVars, captureVars>>

(* What mtv1_capture_run does with the result r *)
CaptureResult(r) ==
  /\ file' = IF r.result = "OK" THEN Append(file, r) ELSE file
  /\ ended' = CASE r.result = "EOF" -> "EOF"
                [] r.result = "OK" /\ r.type = "end" -> "END"
                [] OTHER -> "no"

(* What the read function of a serial port returns, given what select and   *)
(* read return, or whether ReadFile succeeds and the bytes it reads          *)
PosixRead(sel, n) == IF sel <= 0 THEN (IF sel < 0 THEN -1 ELSE 0)
                     ELSE IF n < 0 THEN -1 ELSE n
Win32Read(success, n) == IF success THEN n ELSE -1

PortReads == {PosixRead(sel, n) : sel, n \in -1..1}
             \cup {Win32Read(success, n) : success \in BOOLEAN, n \in 0..1}

(* capture_byte_source has a byte: the capture is within its time, and the  *)
(* port has read one within 100 ms                                          *)
HasByte(expired, n) == ~expired /\ n > 0

(* The time may be over and what the port reads, when the byte source has   *)
(* a byte, and when it has none                                              *)
Outcomes(byte) == {o \in {TimeLimit, FALSE} \X PortReads : HasByte(o[1], o[2]) = byte}

(* The reader of a running capture takes a byte *)
Take(b) ==
  /\ ended = "no"
  /\ Outcomes(TRUE) # {}
  /\ Read(b)
  /\ IF got' = got THEN UNCHANGED captureVars ELSE CaptureResult(Newest(got'))

Deliver ==
  /\ line # <<>>
  /\ Take(Head(line))
  /\ line' = Tail(line)
  /\ calm' = IF Newest(sent).written = WholeFrame(Newest(sent)) /\ calm < Reach
             THEN calm + 1 ELSE calm
  /\ UNCHANGED <<seq_counter, sent, faults, safe>>

(* A byte of the frame on the line is lost *)
Lose ==
  /\ ended = "no" /\ line # <<>>
  /\ line' = Tail(line)
  /\ Fault({Len(sent)})
  /\ UNCHANGED <<seq_counter, sent, readerVars, captureVars>>

Corrupt(sym) ==
  /\ line # <<>> /\ sym # Head(line).sym
  /\ Take(Plain(sym))
  /\ line' = Tail(line)
  /\ Fault({Len(sent)})
  /\ UNCHANGED <<seq_counter, sent>>

(* A byte that nobody sent, in or right before a frame, or between two *)
Noise(sym) ==
  /\ Take(Plain(sym))
  /\ Fault(IF line = <<>> THEN {} ELSE {Len(sent)})
  /\ UNCHANGED streamVars

(* The source has no byte: silence, an error of the port, or the time of    *)
(* the capture is over.                                                      *)
NoByte ==
  /\ ended = "no"
  /\ Outcomes(FALSE) # {}
  /\ EndOfInput
  /\ CaptureResult(Newest(got'))
  /\ UNCHANGED <<streamVars, faultVars>>

Init ==
  /\ StreamInit
  /\ ReaderInit
  /\ file = <<>> /\ ended = "no"
  /\ faults = 0 /\ calm = Reach /\ safe = {}

Next ==
  \/ \E m \in Message : \E n \in 0..WholeFrame(m) : Send(m, n)
  \/ Deliver
  \/ Lose
  \/ \E sym \in NoiseSym : Corrupt(sym) \/ Noise(sym)
  \/ NoByte

Spec == Init /\ [][Next]_linkVars

-----------------------------------------------------------------------------
(* Properties *)

Good == {i \in DOMAIN got : got[i].crc_ok}

(* Whatever the line does, frames with a right checksum are frames that were *)
(* sent, as they were sent, in that order and none twice.                    *)
GoodFramesWereSent ==
  /\ \A i \in Good :
       /\ got[i].of \in DOMAIN sent
       /\ got[i].type = sent[got[i].of].type
       /\ got[i].payload = sent[got[i].of].payload
  /\ \A i, j \in Good : i < j => got[i].of < got[j].of

(* The payloads do not hold the last letter of the magic, so that no loss    *)
(* makes one of them look like it.                                           *)
PayloadsPlain ==
  \A i \in DOMAIN sent : \A k \in DOMAIN sent[i].payload :
    sent[i].payload[k] # Newest(Magic)

(* The resynchronisation: whatever the line does to magics, headers and      *)
(* payloads, a fault costs the reader no frame that begins Reach bytes after *)
(* it or later, as many as a header can make it take for a frame; without    *)
(* faults none is lost, whatever is in the payloads.                         *)
ResyncWithinReach ==
  ended # "EOF" /\ line = <<>> /\ (PayloadsPlain \/ faults = 0) =>
    \A i \in safe : \E j \in Good : got[j].of = i

(* Capture throws away the frame that a resynchronisation finds, also if it *)
(* is intact, so the file has those of these frames that follow another one; *)
(* those with a right checksum are in it in order and once, and on a line    *)
(* without faults there are no others.                                       *)
CaptureKeeps ==
  LET kept == {j \in DOMAIN file : file[j].crc_ok}
  IN  /\ \A j, k \in kept : j < k => file[j].of < file[k].of
      /\ ended # "EOF" /\ line = <<>> /\ (PayloadsPlain \/ faults = 0) =>
           \A i \in safe : i - 1 \in safe \cup {0} => \E j \in kept : file[j].of = i
      /\ faults = 0 => kept = DOMAIN file

(* The sequence numbers of two good frames tell how many frames were lost    *)
(* between them, up to a multiple of SeqMax; 0 is never used.                *)
SeqTellsLoss ==
  /\ \A i \in DOMAIN sent : sent[i].seq \in 1..SeqMax
  /\ \A i, j \in Good :
       (sent[got[j].of].seq - sent[got[i].of].seq - (got[j].of - got[i].of)) % SeqMax = 0

(* Finding: "Capture for N seconds (0 = until END frame)" (README.md of the  *)
(* viewer): a capture without time limit ends with an END frame, not with    *)
(* the first silence between two frames.                                     *)
CaptureUntilEnd == ended # "EOF"
=============================================================================
