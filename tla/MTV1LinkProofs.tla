---------------------------- MODULE MTV1LinkProofs ----------------------------
(***************************************************************************)
(* Theorems about MTV1Link, for every header length, width of the sequence *)
(* number, set of messages and number of faults: whatever the line loses,  *)
(* changes and adds, and wherever the transport stops.  A frame with a     *)
(* right checksum is one that was sent (LinkInv), the sequence numbers     *)
(* count the frames (SeqInv), and the reader is in step with the line, or  *)
(* will be when what it may still take for a frame is over (SyncInv).      *)
(***************************************************************************)
EXTENDS MTV1Link, SequenceTheorems, TLAPS

-----------------------------------------------------------------------------
(* Header bytes *)

Sym == Letter \cup {"h"}

Byte == [sym : Sym, of : Nat, at : Nat]

Header(i) == [k \in 1..HeaderLen |-> HeaderByte(i, k)]

(* The bytes of headers in a sequence of bytes *)
OfHeaders(s) == {b \in {s[k] : k \in DOMAIN s} : b.sym = "h"}

(* The header bytes of s come in the order of their positions in the header *)
InOrder(s) ==
  \A k, l \in DOMAIN s :
    k < l /\ s[k].sym = "h" /\ s[l].sym = "h" => s[k].at < s[l].at

(* The frame of the sequence s whose header the bytes are *)
FrameIn(s, hdr) ==
  IF \E i \in DOMAIN s : hdr = Header(i)
  THEN CHOOSE i \in DOMAIN s : hdr = Header(i) ELSE 0

(* A header tells which frame it is of, and no other. *)
LEMMA FrameOfHeader ==
  ASSUME NEW s, NEW hdr, 0 \notin DOMAIN s
  PROVE  /\ FrameIn(s, hdr) # 0
              => FrameIn(s, hdr) \in DOMAIN s /\ hdr = Header(FrameIn(s, hdr))
         /\ \A i \in DOMAIN s : hdr = Header(i) => FrameIn(s, hdr) = i
<1>1. \A i, j : Header(i) = Header(j) => i = j
  <2> TAKE i, j
  <2>1. 1 \in 1..HeaderLen
    BY MTV1StreamAssumption
  <2>2. Header(i)[1].of = i /\ Header(j)[1].of = j
    BY <2>1 DEF Header, HeaderByte
  <2> QED
    BY <2>2
<1>3. CASE \E i \in DOMAIN s : hdr = Header(i)
  <2> DEFINE c == CHOOSE i \in DOMAIN s : hdr = Header(i)
  <2>1. c \in DOMAIN s /\ hdr = Header(c) /\ FrameIn(s, hdr) = c
    BY <1>3 DEF FrameIn
  <2> HIDE DEF c
  <2> QED
    BY <1>1, <2>1
<1>4. CASE ~\E i \in DOMAIN s : hdr = Header(i)
  BY <1>4 DEF FrameIn
<1> QED
  BY <1>3, <1>4

LEMMA FrameOfSent ==
  /\ \A hdr : FrameOf(hdr) = FrameIn(sent, hdr)
  /\ \A hdr : FrameOf(hdr)' = FrameIn(sent', hdr)
BY DEF FrameOf, FrameIn, Header

(* The header bytes after a byte was put behind *)
LEMMA AppendHeaders ==
  ASSUME NEW s \in Seq(Byte), NEW b \in Byte
  PROVE  /\ Append(s, b) \in Seq(Byte)
         /\ \A x \in OfHeaders(Append(s, b)) : x \in OfHeaders(s) \/ (x = b /\ b.sym = "h")
<1>1. /\ Append(s, b) \in Seq(Byte)
      /\ Len(Append(s, b)) = Len(s) + 1
      /\ \A k \in 1..Len(s) : Append(s, b)[k] = s[k]
      /\ Append(s, b)[Len(s) + 1] = b
  BY AppendProperties
<1>2. DOMAIN s = 1..Len(s) /\ DOMAIN Append(s, b) = 1..(Len(s) + 1) /\ Len(s) \in Nat
  BY <1>1, LenProperties
<1>3. \A k \in 1..(Len(s) + 1) : k \in 1..Len(s) \/ k = Len(s) + 1
  BY <1>2
<1> HIDE DEF Byte
<1> QED
  BY <1>1, <1>2, <1>3 DEF OfHeaders

(* What is left of the line when its first byte is gone *)
LEMMA TailHeaders ==
  ASSUME NEW s \in Seq(Byte), s # <<>>, InOrder(s)
  PROVE  /\ Head(s) \in Byte /\ Tail(s) \in Seq(Byte) /\ InOrder(Tail(s))
         /\ OfHeaders(Tail(s)) \subseteq OfHeaders(s)
         /\ Head(s).sym = "h" => /\ Head(s) \in OfHeaders(s)
                                 /\ \A x \in OfHeaders(Tail(s)) : Head(s).at < x.at
<1>1. /\ Head(s) \in Byte /\ Head(s) = s[1] /\ Tail(s) \in Seq(Byte)
      /\ Len(Tail(s)) = Len(s) - 1 /\ Len(s) \in Nat /\ Len(s) > 0
      /\ \A k \in 1..Len(Tail(s)) : Tail(s)[k] = s[k + 1]
  BY HeadTailProperties, LenProperties, EmptySeq
<1>2. DOMAIN s = 1..Len(s) /\ DOMAIN Tail(s) = 1..(Len(s) - 1)
  BY <1>1, LenProperties
<1>3. \A k \in DOMAIN Tail(s) : k + 1 \in DOMAIN s /\ 1 < k + 1 /\ Tail(s)[k] = s[k + 1]
  BY <1>1, <1>2
<1>4. 1 \in DOMAIN s
  BY <1>1, <1>2
<1>5. \A k, l \in DOMAIN Tail(s) : k < l => k + 1 < l + 1
  BY <1>1, <1>2
<1> HIDE DEF Byte
<1>6. InOrder(Tail(s))
  BY <1>3, <1>5 DEF InOrder
<1>7. \A x \in OfHeaders(Tail(s)) : \E k \in DOMAIN s : 1 < k /\ x = s[k] /\ x.sym = "h"
  BY <1>3 DEF OfHeaders
<1>8. OfHeaders(Tail(s)) \subseteq OfHeaders(s)
  BY <1>7 DEF OfHeaders
<1>9. Head(s).sym = "h" => /\ Head(s) \in OfHeaders(s)
                           /\ \A x \in OfHeaders(Tail(s)) : Head(s).at < x.at
  BY <1>1, <1>4, <1>7 DEF InOrder, OfHeaders
<1> QED
  BY <1>1, <1>6, <1>8, <1>9

-----------------------------------------------------------------------------
(* The inductive invariant *)

FrameType == {"snapshot", "telemetry", "mark", "end"}

Frame == [type : FrameType, payload : Seq(Letter), seq : 1..SeqMax, written : Nat]

Call == [pc : {"magic", "header", "payload"}, window : Seq(Sym), before : Nat,
         resync : Nat, hdr : Seq(Byte), type : FrameType \cup {"none"}, len : Nat,
         payload : Seq(Sym)]

Result == [result : {"OK", "RESYNC", "ERROR", "EOF"}, type : FrameType \cup {"none"},
           payload : Seq(Sym), skipped : Nat, of : Nat, crc_ok : BOOLEAN]

TypeOK ==
  /\ seq_counter \in 0..SeqMax
  /\ sent \in Seq(Frame)
  /\ line \in Seq(Byte)
  /\ rd \in Call
  /\ got \in Seq(Result)

(* Every good frame so far was sent before frame n. *)
After(n) == \A i \in Good : got[i].of < n

(* The header bytes on the line are of the newest frame, which is not yet   *)
(* among the good ones.                                                     *)
LineInv ==
  /\ InOrder(line)
  /\ \A x \in OfHeaders(line) :
       /\ x.of = Len(sent) /\ x.of \in DOMAIN sent
       /\ x.at \in 1..HeaderLen /\ After(x.of)

(* Nor is a frame of which the reader has header bytes; the line holds only *)
(* bytes that come behind them.                                             *)
HdrInv ==
  /\ \A x \in OfHeaders(rd.hdr) :
       /\ x.of \in DOMAIN sent /\ After(x.of)
       /\ \A y \in OfHeaders(line) : x.of = y.of => x.at < y.at
  /\ rd.pc = "magic" => rd.hdr = <<>>
  /\ rd.pc = "payload" /\ FrameOf(rd.hdr) # 0 => rd.type = sent[FrameOf(rd.hdr)].type

LinkInv == TypeOK /\ LineInv /\ HdrInv /\ GoodFramesWereSent

-----------------------------------------------------------------------------
(* The bytes of a frame *)

(* The length of a sequence, as a word of its own: the solver turns an      *)
(* equation of Len into one of domains, and loses the arithmetic.            *)
Size(s) == Len(s)

Magic4 == Len(Magic)

Whole(f) == Magic4 + HeaderLen + Size(f.payload)

(* Byte number k of frame number i on the wire *)
ByteAt(i, f, k) ==
  IF k <= Magic4 THEN Plain(Magic[k])
  ELSE IF k <= Magic4 + HeaderLen THEN HeaderByte(i, k - Magic4)
  ELSE Plain(f.payload[k - (Magic4 + HeaderLen)])

LEMMA Numbers ==
  /\ Magic4 = 4 /\ HeaderLen \in Nat /\ HeaderLen > 0 /\ MaxLen \in Nat
  /\ Reach = HeaderLen + MaxLen /\ Reach \in Nat /\ Reach > 0
BY MTV1StreamAssumption, MTV1ReaderAssumption DEF Magic4, Magic, Reach

LEMMA MagicLetters ==
  /\ Len(Magic) = 4 /\ Newest(Magic) = "1" /\ Magic \in Seq(Sym)
  /\ Magic[1] = "M" /\ Magic[2] = "T" /\ Magic[3] = "V" /\ Magic[4] = "1"
BY DEF Magic, Newest, Sym, Letter

LEMMA SizeIsLen == \A s : Size(s) = Len(s)
BY Zenon DEF Size

LEMMA SizeNat ==
  ASSUME NEW S, NEW s \in Seq(S)
  PROVE  Size(s) \in Nat /\ \A k \in 1..Size(s) : s[k] \in S
BY LenProperties, ElementOfSeq DEF Size

(* The bytes of two sequences put together *)
LEMMA Joined ==
  ASSUME NEW S, NEW s1 \in Seq(S), NEW s2 \in Seq(S)
  PROVE  /\ s1 \o s2 \in Seq(S) /\ Len(s1 \o s2) = Len(s1) + Len(s2)
         /\ \A k \in 1..Len(s1) : (s1 \o s2)[k] = s1[k]
         /\ \A k \in (Len(s1) + 1)..(Len(s1) + Len(s2)) :
              (s1 \o s2)[k] = s2[k - Len(s1)]
<1> DEFINE w == s1 \o s2
<1>1. /\ w \in Seq(S)
      /\ Len(w) = Len(s1) + Len(s2)
      /\ \A i \in 1..(Len(s1) + Len(s2)) :
           w[i] = IF i <= Len(s1) THEN s1[i] ELSE s2[i - Len(s1)]
  BY ConcatProperties, Zenon
<1>2. Len(s1) \in Nat /\ Len(s2) \in Nat
  BY LenProperties
<1> HIDE DEF w
<1> QED
  BY <1>1, <1>2 DEF w

(* The bytes of a frame, and those the transport writes of them *)
LEMMA WireBytes ==
  ASSUME NEW i \in Nat, NEW f \in Frame, NEW n \in Nat, n <= Len(Wire(i, f.payload))
  PROVE  LET s == SubSeq(Wire(i, f.payload), 1, n)
         IN  /\ Size(Wire(i, f.payload)) = Whole(f) /\ n <= Whole(f)
             /\ s \in Seq(Byte) /\ Size(s) = n
             /\ \A k \in 1..n : s[k] = ByteAt(i, f, k)
<1> DEFINE payload == f.payload
           m == Bytes(Magic)
           h == [k \in 1..HeaderLen |-> HeaderByte(i, k)]
           p == Bytes(payload)
           w == Wire(i, payload)
           s == SubSeq(w, 1, n)
<1>0. HeaderLen \in Nat /\ payload \in Seq(Letter)
  BY MTV1StreamAssumption DEF Frame
<1> HIDE DEF payload
<1>1. m \in Seq(Byte) /\ Len(m) = 4 /\ \A k \in 1..4 : m[k] = Plain(Magic[k])
  <2>1. m = [k \in 1..4 |-> Plain(Magic[k])]
    BY DEF Bytes, Magic
  <2>2. \A k \in 1..4 : Magic[k] \in Letter
    BY DEF Magic, Letter
  <2>3. \A k \in 1..4 : Plain(Magic[k]) \in Byte
    BY <1>0, <2>2 DEF Plain, Byte, Sym
  <2> HIDE DEF m
  <2> QED
    BY <2>1, <2>3, IsASeq
<1>2. h \in Seq(Byte) /\ Len(h) = HeaderLen /\ \A k \in 1..HeaderLen : h[k] = HeaderByte(i, k)
  <2>1. \A k \in 1..HeaderLen : HeaderByte(i, k) \in Byte
    BY <1>0 DEF HeaderByte, Byte, Sym
  <2> QED
    BY <1>0, <2>1, IsASeq
<1>3. p \in Seq(Byte) /\ Len(p) = Len(payload) /\ \A k \in 1..Len(payload) : p[k] = Plain(payload[k])
  <2>1. DOMAIN payload = 1..Len(payload) /\ Len(payload) \in Nat
        /\ \A k \in 1..Len(payload) : payload[k] \in Letter
    BY <1>0, ElementOfSeq, LenProperties
  <2>2. p = [k \in 1..Len(payload) |-> Plain(payload[k])]
    BY <2>1 DEF Bytes
  <2>3. \A k \in 1..Len(payload) : Plain(payload[k]) \in Byte
    BY <1>0, <2>1 DEF Plain, Byte, Sym
  <2> HIDE DEF p
  <2> QED
    BY <2>1, <2>2, <2>3, IsASeq
<1> DEFINE mh == m \o h
<1>4. mh = m \o h /\ w = mh \o p
  BY DEF Wire
<1> HIDE DEF m, h, p, w, mh
<1>5. Len(payload) \in Nat /\ 4 \in Nat /\ 4 + HeaderLen \in Nat /\ 4 + 1 = 5
  BY <1>0, LenProperties
<1>6. /\ mh \in Seq(Byte) /\ Len(mh) = Len(m) + Len(h)
      /\ \A k \in 1..Len(m) : mh[k] = m[k]
      /\ \A k \in (Len(m) + 1)..(Len(m) + Len(h)) : mh[k] = h[k - Len(m)]
  BY <1>1, <1>2, <1>4, Joined, ZenonT(40)
<1>7. /\ mh \in Seq(Byte) /\ Len(mh) = 4 + HeaderLen
      /\ \A k \in 1..4 : mh[k] = m[k]
      /\ \A k \in 5..(4 + HeaderLen) : mh[k] = h[k - 4]
  BY <1>1, <1>2, <1>5, <1>6
<1>8. /\ w \in Seq(Byte) /\ Len(w) = Len(mh) + Len(p)
      /\ \A k \in 1..Len(mh) : w[k] = mh[k]
      /\ \A k \in (Len(mh) + 1)..(Len(mh) + Len(p)) : w[k] = p[k - Len(mh)]
  <2>1. mh \in Seq(Byte) /\ p \in Seq(Byte) /\ w = mh \o p
    BY <1>3, <1>4, <1>7
  <2> QED
    BY <2>1, Joined, Zenon
<1>9. /\ w \in Seq(Byte) /\ Len(w) = 4 + HeaderLen + Len(payload)
      /\ \A k \in 1..(4 + HeaderLen) : w[k] = mh[k]
      /\ \A k \in (4 + HeaderLen + 1)..(4 + HeaderLen + Len(payload)) :
           w[k] = p[k - (4 + HeaderLen)]
  BY <1>3, <1>7, <1>5, <1>8
<1>10. ASSUME NEW k \in 1..Len(w)
      PROVE  w[k] = ByteAt(i, f, k)
  <2>1. k \in Nat /\ k >= 1 /\ k <= 4 + HeaderLen + Len(payload)
    BY <1>9, <1>5
  <2>2. CASE k <= 4
    <3>1. k \in 1..4 /\ k \in 1..(4 + HeaderLen)
      BY <1>0, <2>1, <2>2
    <3>2. w[k] = Plain(Magic[k])
      BY <1>1, <1>7, <1>9, <3>1
    <3> QED
      BY <2>2, <3>2, Numbers DEF ByteAt
  <2>3. CASE k > 4 /\ k <= 4 + HeaderLen
    <3>1. k \in 5..(4 + HeaderLen) /\ k \in 1..(4 + HeaderLen) /\ k - 4 \in 1..HeaderLen
      BY <1>0, <2>1, <2>3
    <3>2. w[k] = HeaderByte(i, k - 4)
      BY <1>2, <1>7, <1>9, <3>1
    <3>3. ~(k <= Magic4) /\ k <= Magic4 + HeaderLen /\ k - Magic4 = k - 4
      BY <2>1, <2>3, Numbers
    <3> QED
      BY <3>2, <3>3 DEF ByteAt
  <2>4. CASE k > 4 + HeaderLen
    <3>1. /\ k \in (4 + HeaderLen + 1)..(4 + HeaderLen + Len(payload))
          /\ k - (4 + HeaderLen) \in 1..Len(payload)
      BY <1>5, <2>1, <2>4
    <3>2. w[k] = Plain(payload[k - (4 + HeaderLen)])
      BY <1>3, <1>9, <3>1
    <3>3. ~(k <= Magic4) /\ ~(k <= Magic4 + HeaderLen) /\ Magic4 = 4
      BY <1>0, <2>1, <2>4, Numbers
    <3> QED
      BY <3>2, <3>3 DEF ByteAt, payload
  <2> QED
    BY <1>0, <2>1, <2>2, <2>3, <2>4
<1>11. s \in Seq(Byte) /\ Len(s) = n /\ \A k \in 1..n : s[k] = w[k] /\ k \in 1..Len(w)
  <2>1. n <= Len(w)
    BY DEF w, payload
  <2>2. Len(w) \in Nat /\ \A k \in 1..n : k \in 1..Len(w) /\ (1 + k) - 1 = k
    BY <1>9, <2>1, LenProperties
  <2> QED
    BY <1>9, <2>1, <2>2, SubSeqProperties
<1>12. Size(w) = Whole(f)
  BY Zenon, <1>9, SizeIsLen, Numbers DEF Whole, payload
<1>13. n <= Whole(f)
  BY <1>12, SizeIsLen DEF w, payload
<1> HIDE DEF s
<1>14. Size(s) = n
  BY Zenon, <1>11, SizeIsLen
<1>15. \A k \in 1..n : s[k] = ByteAt(i, f, k)
  BY <1>10, <1>11
<1> QED
  BY <1>11, <1>12, <1>13, <1>14, <1>15 DEF s, w, payload

(* The letters of a frame *)
LEMMA ByteLetters ==
  ASSUME NEW i \in Nat, NEW f \in Frame, NEW k \in Nat, k > 0, k <= Whole(f)
  PROVE  /\ Size(f.payload) \in Nat /\ Whole(f) = 4 + HeaderLen + Size(f.payload)
         /\ ByteAt(i, f, k) \in Byte
         /\ k <= 4 => ByteAt(i, f, k).sym = Magic[k]
         /\ k > 4 /\ k <= 4 + HeaderLen => ByteAt(i, f, k) = HeaderByte(i, k - 4)
         /\ k > 4 + HeaderLen => /\ k - (4 + HeaderLen) \in 1..Size(f.payload)
                                 /\ ByteAt(i, f, k).sym = f.payload[k - (4 + HeaderLen)]
<1>0. HeaderLen \in Nat
  BY Numbers
<1>1. f.payload \in Seq(Letter)
  BY DEF Frame
<1>2. Size(f.payload) \in Nat
  BY <1>1, SizeNat
<1>3. Whole(f) = 4 + HeaderLen + Size(f.payload)
  BY Numbers DEF Whole
<1>4. CASE k <= 4
  <2>1. ByteAt(i, f, k) = Plain(Magic[k])
    BY <1>4, Numbers DEF ByteAt
  <2>2. k \in 1..4
    BY <1>4
  <2>3. Magic[k] \in Sym
    BY <2>2, MagicLetters, ElementOfSeq
  <2>4. ByteAt(i, f, k) \in Byte /\ ByteAt(i, f, k).sym = Magic[k]
    BY <2>1, <2>3 DEF Plain, Byte
  <2> QED
    BY <1>0, <1>2, <1>3, <1>4, <2>4
<1>5. CASE k > 4 /\ k <= 4 + HeaderLen
  <2>1. ByteAt(i, f, k) = HeaderByte(i, k - 4)
    <3>1. ~(k <= Magic4) /\ k <= Magic4 + HeaderLen /\ k - Magic4 = k - 4
      BY <1>5, Numbers
    <3> QED
      BY <3>1 DEF ByteAt
  <2>2. k - 4 \in Nat
    BY <1>5
  <2>3. ByteAt(i, f, k) \in Byte
    BY <2>1, <2>2 DEF HeaderByte, Byte, Sym
  <2> QED
    BY <1>0, <1>2, <1>3, <1>5, <2>1, <2>3
<1>6. CASE k > 4 + HeaderLen
  <2>1. k - (4 + HeaderLen) \in 1..Size(f.payload)
    BY <1>0, <1>2, <1>3, <1>6
  <2>2. ByteAt(i, f, k) = Plain(f.payload[k - (4 + HeaderLen)])
    <3>1. ~(k <= Magic4) /\ ~(k <= Magic4 + HeaderLen) /\ Magic4 = 4
      BY <1>0, <1>6, Numbers
    <3> QED
      BY <3>1 DEF ByteAt
  <2>3. f.payload[k - (4 + HeaderLen)] \in Letter
    BY <1>1, <2>1, SizeNat
  <2>4. ByteAt(i, f, k) \in Byte /\ ByteAt(i, f, k).sym = f.payload[k - (4 + HeaderLen)]
    BY <2>2, <2>3 DEF Plain, Byte, Sym
  <2> QED
    BY <1>0, <1>2, <1>3, <1>6, <2>1, <2>4
<1> QED
  BY <1>0, <1>4, <1>5, <1>6

(* The header bytes among them *)
LEMMA WireHeaders ==
  ASSUME NEW i \in Nat, NEW f \in Frame, NEW n \in Nat, n <= Len(Wire(i, f.payload))
  PROVE  LET s == SubSeq(Wire(i, f.payload), 1, n)
         IN  /\ s \in Seq(Byte) /\ InOrder(s)
             /\ \A x \in OfHeaders(s) : x.of = i /\ x.at \in 1..HeaderLen
<1> DEFINE s == SubSeq(Wire(i, f.payload), 1, n)
<1>1. /\ s \in Seq(Byte) /\ n <= Whole(f) /\ Size(s) = n
      /\ \A k \in 1..n : s[k] = ByteAt(i, f, k)
  BY WireBytes
<1> HIDE DEF s
<1>2. DOMAIN s = 1..n
  BY <1>1, LenProperties, SizeIsLen, Zenon
<1>3. f.payload \in Seq(Letter) /\ "h" \notin Letter
  BY DEF Frame, Letter
<1>4. ASSUME NEW k \in 1..n, s[k].sym = "h"
      PROVE  k - 4 \in 1..HeaderLen /\ s[k].of = i /\ s[k].at = k - 4
  <2>1. k \in Nat /\ k > 0 /\ k <= Whole(f) /\ s[k] = ByteAt(i, f, k)
        /\ HeaderLen \in Nat
    <3>1. Size(f.payload) \in Nat /\ Whole(f) = 4 + HeaderLen + Size(f.payload)
      BY <1>3, SizeNat, Numbers DEF Whole
    <3> QED
      BY <1>1, <3>1, Numbers
  <2>2. CASE k <= 4
    <3>1. s[k].sym = Magic[k]
      BY <2>1, <2>2, ByteLetters
    <3>2. k \in 1..4
      BY <2>1, <2>2
    <3>3. Magic[k] \in Letter
      BY <3>2 DEF Magic, Letter
    <3> QED
      BY <1>3, <1>4, <3>1, <3>3
  <2>3. CASE k > 4 /\ k <= 4 + HeaderLen
    <3>1. s[k] = HeaderByte(i, k - 4)
      BY <2>1, <2>3, ByteLetters
    <3> QED
      BY <2>1, <2>3, <3>1 DEF HeaderByte
  <2>4. CASE k > 4 + HeaderLen
    <3>1. /\ k - (4 + HeaderLen) \in 1..Size(f.payload)
          /\ s[k].sym = f.payload[k - (4 + HeaderLen)]
      BY <2>1, <2>4, ByteLetters
    <3> QED
      BY <1>3, <1>4, <3>1, SizeNat
  <2> QED
    BY <2>1, <2>2, <2>3, <2>4
<1>5. \A x \in OfHeaders(s) : x.of = i /\ x.at \in 1..HeaderLen
  BY <1>2, <1>4 DEF OfHeaders
<1>6. InOrder(s)
  <2> SUFFICES ASSUME NEW k \in 1..n, NEW l \in 1..n, k < l,
                      s[k].sym = "h", s[l].sym = "h"
               PROVE  s[k].at < s[l].at
    BY <1>2 DEF InOrder
  <2>1. s[k].at = k - 4 /\ s[l].at = l - 4
    BY <1>4
  <2> QED
    BY <2>1
<1> QED
  BY <1>1, <1>5, <1>6 DEF s

-----------------------------------------------------------------------------
(* Reading a byte *)

(* The line gives its first byte away, or none *)
LineShrinks ==
  /\ line' \in Seq(Byte) /\ InOrder(line')
  /\ OfHeaders(line') \subseteq OfHeaders(line)
  /\ UNCHANGED <<seq_counter, sent>>

(* A byte of a header, or none, that comes before what the line still holds *)
Taken(b) ==
  b.sym = "h" => /\ b \in OfHeaders(line)
                 /\ \A y \in OfHeaders(line') : b.at < y.at

(* The bytes of a header of which all but the last were read before *)
NewHdr(hdr) == \A x \in OfHeaders(hdr) : x \in OfHeaders(rd.hdr) \/ (x.sym = "h" /\ Taken(x))

(* A call that goes on keeps the invariant. *)
LEMMA CallGoesOn ==
  ASSUME LinkInv, LineShrinks, UNCHANGED got, rd' \in Call, NewHdr(rd'.hdr),
         rd'.pc = "magic" => rd'.hdr = <<>>,
         rd'.pc = "payload" /\ FrameOf(rd'.hdr) # 0
           => rd'.type = sent[FrameOf(rd'.hdr)].type
  PROVE  LinkInv'
<1>1. TypeOK'
  BY DEF LinkInv, LineShrinks, TypeOK
<1>2. Good' = Good
  BY DEF Good
<1>3. \A n : After(n)' = After(n)
  BY <1>2 DEF After
<1>4. LineInv'
  BY <1>3 DEF LinkInv, LineInv, LineShrinks
<1>5. \A h : FrameOf(h)' = FrameOf(h)
  BY DEF FrameOf, LineShrinks
<1>6. \A x \in OfHeaders(rd'.hdr) :
        /\ x.of \in DOMAIN sent' /\ After(x.of)'
        /\ \A y \in OfHeaders(line') : x.of = y.of => x.at < y.at
  <2> TAKE x \in OfHeaders(rd'.hdr)
  <2>1. CASE x \in OfHeaders(rd.hdr)
    BY <1>3, <2>1 DEF LinkInv, HdrInv, LineShrinks
  <2>2. CASE x \in OfHeaders(line) /\ \A y \in OfHeaders(line') : x.at < y.at
    BY <1>3, <2>2 DEF LinkInv, LineInv, LineShrinks
  <2> QED
    BY <2>1, <2>2 DEF NewHdr, Taken
<1>7. HdrInv'
  BY <1>5, <1>6 DEF HdrInv, LineShrinks
<1>8. GoodFramesWereSent'
  BY <1>2 DEF LinkInv, GoodFramesWereSent, LineShrinks
<1> QED
  BY <1>1, <1>4, <1>7, <1>8 DEF LinkInv

(* A call that returns what is no good frame, or the next good one, keeps   *)
(* the invariant.                                                            *)
LEMMA CallReturns ==
  ASSUME LinkInv, LineShrinks, NEW r \in Result, Returns(r),
         r.crc_ok => /\ r.of \in DOMAIN sent /\ After(r.of)
                     /\ r.type = sent[r.of].type /\ r.payload = sent[r.of].payload
                     /\ \A y \in OfHeaders(line') : r.of < y.of
  PROVE  LinkInv'
<1>1. /\ got \in Seq(Result) /\ got' \in Seq(Result)
      /\ DOMAIN got' = 1..(Len(got) + 1) /\ DOMAIN got = 1..Len(got) /\ Len(got) \in Nat
      /\ \A i \in 1..Len(got) : got'[i] = got[i]
      /\ got'[Len(got) + 1] = r
  BY AppendProperties, LenProperties DEF LinkInv, TypeOK, Returns
<1>2. \A i \in Good' : \/ i \in Good /\ got'[i] = got[i]
                       \/ i = Len(got) + 1 /\ got'[i] = r /\ r.crc_ok
  BY <1>1 DEF Good
<1>3. NewCall \in Call /\ NewCall.hdr = <<>> /\ NewCall.pc = "magic"
  <2>1. <<>> \in Seq(Sym) /\ <<>> \in Seq(Byte)
    BY EmptySeq
  <2> QED
    BY <2>1 DEF NewCall, Call
<1>4. OfHeaders(<<>>) = {}
  BY DEF OfHeaders
<1>5. rd' = NewCall
  BY DEF Returns
<1>6. TypeOK'
  BY <1>1, <1>3, <1>5 DEF LinkInv, LineShrinks, TypeOK
<1>7. ASSUME NEW y \in OfHeaders(line')
      PROVE  After(y.of)'
  <2>1. After(y.of)
    BY <1>7 DEF LinkInv, LineInv, LineShrinks
  <2> QED
    BY <1>2, <1>7, <2>1 DEF After
<1>8. LineInv'
  BY <1>7 DEF LinkInv, LineInv, LineShrinks
<1>9. HdrInv'
  BY <1>3, <1>4, <1>5 DEF HdrInv
<1>10. \A i \in Good' : /\ got'[i].of \in DOMAIN sent
                        /\ got'[i].type = sent[got'[i].of].type
                        /\ got'[i].payload = sent[got'[i].of].payload
  BY <1>2 DEF LinkInv, GoodFramesWereSent
<1>11. ASSUME NEW i \in Good', NEW j \in Good', i < j
       PROVE  got'[i].of < got'[j].of
  <2>1. i \in DOMAIN got' /\ j \in DOMAIN got'
    BY DEF Good
  <2>2. CASE j \in Good
    <3>1. i # Len(got) + 1
      BY <1>1, <1>11, <2>1, <2>2 DEF Good
    <3> QED
      BY <1>1, <1>2, <1>11, <2>2, <3>1 DEF LinkInv, GoodFramesWereSent, Good
  <2>3. CASE j = Len(got) + 1 /\ r.crc_ok
    <3>1. i # Len(got) + 1
      BY <1>1, <1>11, <2>1, <2>3
    <3> QED
      BY <1>1, <1>2, <2>3, <3>1 DEF After
  <2> QED
    BY <1>2, <2>2, <2>3
<1>12. GoodFramesWereSent'
  BY <1>10, <1>11 DEF GoodFramesWereSent, LineShrinks
<1> QED
  BY <1>6, <1>8, <1>9, <1>12 DEF LinkInv

(* A whole header is of a frame after the good ones, and nothing of that    *)
(* frame's header is left on the line.                                       *)
LEMMA WholeHeader ==
  ASSUME LinkInv, LineShrinks, NEW hdr, NewHdr(hdr), FrameOf(hdr) # 0
  PROVE  /\ FrameOf(hdr) \in DOMAIN sent /\ After(FrameOf(hdr))
         /\ \A y \in OfHeaders(line') : FrameOf(hdr) < y.of
<1> DEFINE m == FrameOf(hdr)
<1>1. DOMAIN sent = 1..Len(sent) /\ Len(sent) \in Nat /\ 0 \notin DOMAIN sent
  BY LenProperties DEF LinkInv, TypeOK
<1>2. m \in DOMAIN sent /\ hdr = Header(m)
  BY <1>1, FrameOfHeader, FrameOfSent
<1> HIDE DEF m
<1>3. HeaderByte(m, HeaderLen) \in OfHeaders(hdr)
  <2>1. HeaderLen \in 1..HeaderLen
    BY MTV1StreamAssumption
  <2>2. HeaderLen \in DOMAIN hdr /\ hdr[HeaderLen] = HeaderByte(m, HeaderLen)
    BY <1>2, <2>1 DEF Header
  <2> QED
    BY <2>2 DEF OfHeaders, HeaderByte
<1>4. PICK x : x \in OfHeaders(hdr) /\ x.of = m /\ x.at = HeaderLen
  BY <1>3 DEF HeaderByte
<1>5. x \in OfHeaders(rd.hdr) \/ (x \in OfHeaders(line) /\ Taken(x) /\ x.sym = "h")
  BY <1>4 DEF NewHdr, Taken
<1>6. After(m)
  BY <1>4, <1>5 DEF LinkInv, LineInv, HdrInv
<1>7. ASSUME NEW y \in OfHeaders(line')
      PROVE  m < y.of
  <2>1. y \in OfHeaders(line)
    BY DEF LineShrinks
  <2>2. y.of = Len(sent) /\ y.at \in 1..HeaderLen
    BY <2>1 DEF LinkInv, LineInv
  <2>3. m # y.of
    <3>1. SUFFICES ASSUME m = y.of PROVE FALSE
      OBVIOUS
    <3>2. HeaderLen < y.at
      BY <1>4, <1>5, <2>1, <3>1 DEF LinkInv, HdrInv, Taken
    <3> QED
      BY <2>2, <3>2, MTV1StreamAssumption
  <2> QED
    BY <1>1, <1>2, <2>2, <2>3
<1> QED
  BY <1>2, <1>6, <1>7 DEF m

(* A call that returns a frame keeps the invariant. *)
LEMMA FrameReturned ==
  ASSUME LinkInv, LineShrinks, NEW call \in Call, NewHdr(call.hdr), ReturnFrame(call),
         FrameOf(call.hdr) # 0 => call.type = sent[FrameOf(call.hdr)].type
  PROVE  LinkInv'
<1> DEFINE r == [result |-> IF call.resync > 0 THEN "RESYNC" ELSE "OK",
                 type |-> call.type, payload |-> call.payload, skipped |-> call.resync,
                 of |-> FrameOf(call.hdr),
                 crc_ok |-> CrcOk(call.hdr, call.payload)]
<1>1. FrameOf(call.hdr) \in Nat
  <2>1. DOMAIN sent = 1..Len(sent) /\ Len(sent) \in Nat /\ 0 \notin DOMAIN sent
    BY LenProperties DEF LinkInv, TypeOK
  <2> QED
    BY <2>1, FrameOfHeader, FrameOfSent
<1>2. CrcOk(call.hdr, call.payload) \in BOOLEAN
  BY DEF CrcOk
<1>3. r \in Result
  BY <1>1, <1>2 DEF Call, Result
<1>4. r.crc_ok => /\ FrameOf(call.hdr) # 0
                  /\ r.payload = sent[r.of].payload
  BY DEF CrcOk
<1>5. r.of = FrameOf(call.hdr) /\ r.type = call.type
  OBVIOUS
<1>6. Returns(r)
  BY DEF ReturnFrame
<1> HIDE DEF r
<1>7. r.crc_ok => /\ r.of \in DOMAIN sent /\ After(r.of)
                  /\ r.type = sent[r.of].type /\ r.payload = sent[r.of].payload
                  /\ \A y \in OfHeaders(line') : r.of < y.of
  BY <1>4, <1>5, WholeHeader
<1> QED
  BY <1>3, <1>6, <1>7, CallReturns

(* A call that returns nothing keeps it. *)
LEMMA NothingReturned ==
  ASSUME LinkInv, LineShrinks, NEW result \in {"ERROR", "EOF"}, NEW skipped \in Nat,
         ReturnNothing(result, skipped)
  PROVE  LinkInv'
<1> DEFINE r == [result |-> result, type |-> "none", payload |-> <<>>,
                 skipped |-> skipped, of |-> 0, crc_ok |-> FALSE]
<1>1. <<>> \in Seq(Sym)
  BY EmptySeq
<1>2. r \in Result /\ ~r.crc_ok
  BY <1>1 DEF Result
<1>3. Returns(r)
  BY DEF ReturnNothing
<1> HIDE DEF r
<1> QED
  BY <1>2, <1>3, CallReturns

(* So does every byte that the reader takes. *)
LEMMA ReadKeeps ==
  ASSUME LinkInv, LineShrinks, NEW b \in Byte, Taken(b), Read(b)
  PROVE  LinkInv'
<1>1. rd \in Call /\ b.sym \in Sym
  BY DEF LinkInv, TypeOK, Byte
<1>2. NewHdr(rd.hdr)
  BY DEF NewHdr
<1>3. CASE SearchMagic(b)
  <2>1. rd.hdr = <<>> /\ UNCHANGED got
    BY <1>3 DEF LinkInv, HdrInv, SearchMagic
  <2>2. Slide(rd.window, b.sym) \in Seq(Sym) /\ Skipped(rd.before) \in Nat
    <3>1. rd.window \in Seq(Sym) /\ rd.before \in Nat
      BY <1>1 DEF Call
    <3>2. Len(rd.window) = 4 => Tail(rd.window) \in Seq(Sym)
      BY <3>1, HeadTailProperties, EmptySeq
    <3>3. Slide(rd.window, b.sym) \in Seq(Sym)
      BY <1>1, <3>1, <3>2, AppendProperties DEF Slide, Magic
    <3> QED
      BY <3>1, <3>3 DEF Skipped
  <2>3. <<>> \in Seq(Sym)
    BY EmptySeq
  <2> DEFINE w == Slide(rd.window, b.sym)
             k == Skipped(rd.before)
             n == rd.before + 1
  <2>5. /\ rd.pc = "magic"
        /\ \/ rd' = [rd EXCEPT !.pc = "header", !.window = <<>>, !.resync = k]
           \/ rd' = [rd EXCEPT !.window = w, !.before = n]
    BY <1>3 DEF SearchMagic
  <2> HIDE DEF w, k, n
  <2>4. rd' \in Call /\ rd'.hdr = rd.hdr /\ rd'.pc # "payload"
    <3>1. w \in Seq(Sym) /\ k \in Nat /\ n \in Nat
      BY <1>1, <2>2 DEF w, k, n, Call
    <3>2. CASE rd' = [rd EXCEPT !.pc = "header", !.window = <<>>, !.resync = k]
      BY <1>1, <2>3, <3>1, <3>2 DEF Call
    <3>3. CASE rd' = [rd EXCEPT !.window = w, !.before = n]
      BY <1>1, <2>5, <3>1, <3>3 DEF Call
    <3> QED
      BY <2>5, <3>2, <3>3
  <2> QED
    BY <1>2, <2>1, <2>4, CallGoesOn
<1>4. CASE ReadHeader(b)
  <2> DEFINE hdr == Append(rd.hdr, b)
  <2>1. hdr \in Seq(Byte) /\ NewHdr(hdr)
    BY <1>1, AppendHeaders DEF NewHdr, Call
  <2> HIDE DEF hdr
  <2>2. CASE Len(hdr) < HeaderLen
    <3>1. UNCHANGED got /\ rd' = [rd EXCEPT !.hdr = hdr] /\ rd.pc = "header"
      BY <1>4, <2>2 DEF ReadHeader, hdr
    <3>2. rd' \in Call /\ rd'.hdr = hdr /\ rd'.pc = "header"
      BY <1>1, <2>1, <3>1 DEF Call
    <3> QED
      BY <2>1, <3>1, <3>2, CallGoesOn
  <2>3. CASE ParseHeader(hdr)
    <3>1. ASSUME NEW type \in FrameType \cup {"none"}, NEW len \in Nat,
                 ValidHeader(hdr, type, len),
                 FrameOf(hdr) # 0 => type = sent[FrameOf(hdr)].type
          PROVE  LinkInv'
      <4> DEFINE call == [rd EXCEPT !.hdr = hdr, !.type = type, !.len = len,
                                    !.pc = "payload"]
      <4>1. call \in Call /\ call.hdr = hdr /\ call.type = type /\ call.pc = "payload"
        BY <1>1, <2>1 DEF Call
      <4>2. ReturnFrame(call) \/ (rd' = call /\ UNCHANGED got)
        BY <3>1 DEF ValidHeader
      <4> HIDE DEF call
      <4> QED
        BY <2>1, <3>1, <4>1, <4>2, FrameReturned, CallGoesOn
    <3>2. CASE FrameOf(hdr) # 0 /\ ValidHeader(hdr, sent[FrameOf(hdr)].type,
                                               Len(sent[FrameOf(hdr)].payload))
      <4>1. FrameOf(hdr) \in DOMAIN sent
        BY <2>1, <3>2, WholeHeader
      <4>2. sent[FrameOf(hdr)] \in Frame
        BY <4>1, ElementOfSeq, LenProperties DEF LinkInv, TypeOK
      <4>3. /\ sent[FrameOf(hdr)].type \in FrameType \cup {"none"}
            /\ Len(sent[FrameOf(hdr)].payload) \in Nat
        BY <4>2, LenProperties DEF Frame
      <4> QED
        BY <3>1, <3>2, <4>3
    <3>3. CASE FrameOf(hdr) = 0 /\ ReturnNothing("ERROR", rd.resync)
      BY <1>1, <3>3, NothingReturned DEF Call
    <3>4. CASE FrameOf(hdr) = 0 /\ \E h \in Garbled : ValidHeader(hdr, h.type, h.len)
      <4>1. PICK h \in Garbled : ValidHeader(hdr, h.type, h.len)
        BY <3>4
      <4>2. h.type \in FrameType \cup {"none"} /\ h.len \in Nat
        BY MTV1ReaderAssumption DEF FrameType
      <4> QED
        BY <3>1, <3>4, <4>1, <4>2
    <3> QED
      BY <2>3, <3>2, <3>3, <3>4 DEF ParseHeader
  <2> QED
    BY <1>4, <2>2, <2>3 DEF ReadHeader, hdr
<1>5. CASE ReadPayload(b)
  <2> DEFINE call == [rd EXCEPT !.payload = Append(@, b.sym)]
  <2>1. rd.pc = "payload"
    BY <1>5 DEF ReadPayload
  <2>2. Append(rd.payload, b.sym) \in Seq(Sym)
    BY <1>1, AppendProperties DEF Call
  <2>3. call \in Call /\ call.hdr = rd.hdr /\ call.type = rd.type /\ call.pc = "payload"
    BY <1>1, <2>1, <2>2 DEF Call
  <2>4. ReturnFrame(call) \/ (rd' = call /\ UNCHANGED got)
    BY <1>5 DEF ReadPayload
  <2>5. FrameOf(rd.hdr) # 0 => rd.type = sent[FrameOf(rd.hdr)].type
    BY <2>1 DEF LinkInv, HdrInv
  <2> HIDE DEF call
  <2> QED
    BY <1>2, <2>3, <2>4, <2>5, FrameReturned, CallGoesOn
<1> QED
  BY <1>3, <1>4, <1>5 DEF Read

-----------------------------------------------------------------------------
(* The steps of the link *)

LEMMA NextSeqRange ==
  ASSUME NEW c \in 0..SeqMax
  PROVE  NextSeq(c) \in 1..SeqMax
BY MTV1StreamAssumption DEF NextSeq

(* What a frame that is sent changes *)
LEMMA FrameSent ==
  ASSUME TypeOK, NEW m \in Message, NEW n \in Nat, SendFrame(m, n)
  PROVE  /\ sent' \in Seq(Frame) /\ Len(sent') = Len(sent) + 1 /\ Len(sent) \in Nat
         /\ DOMAIN sent = 1..Len(sent) /\ DOMAIN sent' = 1..(Len(sent) + 1)
         /\ \A i \in DOMAIN sent : sent'[i] = sent[i]
         /\ sent'[Len(sent) + 1].seq = NextSeq(seq_counter)
         /\ seq_counter' = NextSeq(seq_counter)
         /\ line' \in Seq(Byte) /\ InOrder(line')
         /\ \A x \in OfHeaders(line') : x.of = Len(sent) + 1 /\ x.at \in 1..HeaderLen
<1> DEFINE f == [type |-> m.type, payload |-> m.payload,
                 seq |-> NextSeq(seq_counter), written |-> n]
           i == Len(sent) + 1
<1>1. m.type \in FrameType /\ m.payload \in Seq(Letter)
  BY MTV1StreamAssumption DEF FrameType
<1>2. f \in Frame /\ f.seq = NextSeq(seq_counter)
  BY <1>1, NextSeqRange DEF Frame, TypeOK
<1>3. sent' = Append(sent, f) /\ seq_counter' = NextSeq(seq_counter)
  BY DEF SendFrame, SeqAfter
<1>4. line' = SubSeq(Wire(i, f.payload), 1, n) /\ n <= Len(Wire(i, f.payload))
  BY DEF SendFrame
<1>5. i \in Nat
  BY LenProperties DEF TypeOK
<1> HIDE DEF f
<1>6. /\ sent' \in Seq(Frame) /\ Len(sent') = Len(sent) + 1 /\ Len(sent) \in Nat
      /\ DOMAIN sent = 1..Len(sent) /\ DOMAIN sent' = 1..(Len(sent) + 1)
      /\ \A k \in 1..Len(sent) : sent'[k] = sent[k]
      /\ sent'[Len(sent) + 1] = f
  BY <1>2, <1>3, AppendProperties, LenProperties DEF TypeOK
<1> HIDE DEF i
<1>7. /\ line' \in Seq(Byte) /\ InOrder(line')
      /\ \A x \in OfHeaders(line') : x.of = i /\ x.at \in 1..HeaderLen
  BY <1>2, <1>4, <1>5, WireHeaders
<1> QED
  BY <1>2, <1>3, <1>6, <1>7 DEF i

LEMMA SendKeeps ==
  ASSUME LinkInv, NEW m \in Message, NEW n \in Nat, SendFrame(m, n), UNCHANGED readerVars
  PROVE  LinkInv'
<1>1. /\ sent' \in Seq(Frame) /\ Len(sent') = Len(sent) + 1 /\ Len(sent) \in Nat
      /\ DOMAIN sent = 1..Len(sent) /\ DOMAIN sent' = 1..(Len(sent) + 1)
      /\ \A i \in DOMAIN sent : sent'[i] = sent[i]
      /\ seq_counter' = NextSeq(seq_counter)
      /\ line' \in Seq(Byte) /\ InOrder(line')
      /\ \A x \in OfHeaders(line') : x.of = Len(sent) + 1 /\ x.at \in 1..HeaderLen
  BY FrameSent DEF LinkInv
<1>2. UNCHANGED <<rd, got>>
  BY DEF readerVars
<1>3. seq_counter' \in 0..SeqMax
  BY <1>1, NextSeqRange DEF LinkInv, TypeOK
<1>4. TypeOK'
  BY <1>1, <1>2, <1>3 DEF LinkInv, TypeOK
<1>5. Good' = Good
  BY <1>2 DEF Good
<1>6. \A i \in DOMAIN sent : i < Len(sent) + 1 /\ i \in DOMAIN sent'
  BY <1>1
<1>7. LineInv'
  <2>1. Len(sent) + 1 \in DOMAIN sent'
    BY <1>1
  <2>2. \A i \in Good : got[i].of < Len(sent) + 1
    BY <1>6 DEF LinkInv, GoodFramesWereSent
  <2> QED
    BY <1>1, <1>2, <1>5, <2>1, <2>2 DEF LineInv, After
<1>8. \A x \in OfHeaders(rd.hdr) :
        /\ x.of \in DOMAIN sent' /\ After(x.of)'
        /\ \A y \in OfHeaders(line') : x.of = y.of => x.at < y.at
  <2> TAKE x \in OfHeaders(rd.hdr)
  <2>1. x.of \in DOMAIN sent /\ After(x.of)
    BY DEF LinkInv, HdrInv
  <2>2. \A y \in OfHeaders(line') : x.of # y.of
    BY <1>1, <1>6, <2>1
  <2> QED
    BY <1>2, <1>5, <1>6, <2>1, <2>2 DEF After
<1>9. FrameOf(rd.hdr)' # 0 =>
        FrameOf(rd.hdr)' = FrameOf(rd.hdr) /\ FrameOf(rd.hdr) \in DOMAIN sent
  <2> DEFINE h == rd.hdr
             i == FrameIn(sent', h)
  <2>1. FrameOf(h)' = FrameIn(sent', h) /\ FrameOf(h) = FrameIn(sent, h)
    BY <1>2, FrameOfSent DEF FrameOf, FrameIn, Header
  <2>2. SUFFICES ASSUME i # 0
                 PROVE  i = FrameIn(sent, h) /\ i \in DOMAIN sent
    BY <2>1
  <2>3. i \in DOMAIN sent' /\ h = Header(i)
    BY <1>1, <2>2, FrameOfHeader
  <2> HIDE DEF i
  <2>4. HeaderByte(i, 1) \in OfHeaders(h)
    <3>1. 1 \in 1..HeaderLen
      BY MTV1StreamAssumption
    <3>2. 1 \in DOMAIN h /\ h[1] = HeaderByte(i, 1)
      BY <2>3, <3>1 DEF Header
    <3> QED
      BY <3>2 DEF OfHeaders, HeaderByte
  <2>5. i \in DOMAIN sent
    BY <2>4 DEF LinkInv, HdrInv, HeaderByte
  <2> QED
    BY <1>1, <2>3, <2>5, FrameOfHeader
<1>10. HdrInv'
  <2>1. rd.pc = "magic" => rd.hdr = <<>>
    BY DEF LinkInv, HdrInv
  <2>2. rd.pc = "payload" /\ FrameOf(rd.hdr)' # 0 => rd.type = sent'[FrameOf(rd.hdr)'].type
    BY <1>1, <1>9 DEF LinkInv, HdrInv
  <2> QED
    BY <1>2, <1>8, <2>1, <2>2 DEF HdrInv
<1>11. GoodFramesWereSent'
  BY <1>1, <1>2, <1>5, <1>6 DEF LinkInv, GoodFramesWereSent
<1> QED
  BY <1>4, <1>7, <1>10, <1>11 DEF LinkInv

(* The first byte of the line is gone. *)
LEMMA FirstGone ==
  ASSUME LinkInv, line # <<>>, line' = Tail(line), UNCHANGED <<seq_counter, sent>>
  PROVE  LineShrinks /\ Head(line) \in Byte /\ Taken(Head(line))
<1>1. line \in Seq(Byte) /\ InOrder(line)
  BY DEF LinkInv, TypeOK, LineInv
<1> QED
  BY <1>1, TailHeaders DEF LineShrinks, Taken

(* A byte that is no header byte *)
LEMMA PlainTaken ==
  ASSUME NEW sym \in NoiseSym
  PROVE  Plain(sym) \in Byte /\ Taken(Plain(sym))
<1>1. sym \in Letter /\ sym # "h"
  BY MTV1LinkAssumption DEF Letter
<1> QED
  BY <1>1 DEF Plain, Byte, Sym, Taken

(* The inductive invariant holds in every reachable state. *)
THEOREM LinkInvariant == Spec => []LinkInv
<1>1. Init => LinkInv
  <2> SUFFICES ASSUME Init PROVE LinkInv
    OBVIOUS
  <2>1. /\ seq_counter = 0 /\ sent = <<>> /\ line = <<>> /\ rd = NewCall /\ got = <<>>
    BY DEF Init, StreamInit, ReaderInit
  <2>2. /\ <<>> \in Seq(Frame) /\ <<>> \in Seq(Byte) /\ <<>> \in Seq(Result)
        /\ <<>> \in Seq(Sym)
    BY EmptySeq
  <2>3. NewCall \in Call /\ NewCall.hdr = <<>> /\ NewCall.pc = "magic"
    BY <2>2 DEF NewCall, Call
  <2>4. seq_counter \in 0..SeqMax
    BY <2>1, MTV1StreamAssumption
  <2>5. TypeOK
    BY <2>1, <2>2, <2>3, <2>4 DEF TypeOK
  <2>6. Good = {} /\ OfHeaders(<<>>) = {} /\ InOrder(<<>>)
    BY <2>1 DEF Good, OfHeaders, InOrder
  <2> QED
    BY <2>1, <2>3, <2>5, <2>6 DEF LinkInv, LineInv, HdrInv, GoodFramesWereSent
<1>2. LinkInv /\ [Next]_linkVars => LinkInv'
  <2> SUFFICES ASSUME LinkInv, [Next]_linkVars PROVE LinkInv'
    OBVIOUS
  <2>0. line \in Seq(Byte) /\ InOrder(line)
    BY DEF LinkInv, TypeOK, LineInv
  <2>1. ASSUME NEW m \in Message, NEW n \in 0..WholeFrame(m), Send(m, n)
        PROVE  LinkInv'
    <3>1. n \in Nat /\ SendFrame(m, n) /\ UNCHANGED readerVars
      BY <2>1 DEF Send
    <3> QED
      BY <3>1, SendKeeps
  <2>2. CASE Deliver
    <3>1. LineShrinks /\ Head(line) \in Byte /\ Taken(Head(line))
      BY <2>2, FirstGone DEF Deliver
    <3> QED
      BY <2>2, <3>1, ReadKeeps DEF Deliver, Take
  <2>3. CASE Lose
    <3>1. LineShrinks
      BY <2>3, FirstGone DEF Lose
    <3>2. UNCHANGED <<rd, got>> /\ NewHdr(rd.hdr) /\ rd \in Call
      BY <2>3 DEF Lose, readerVars, NewHdr, LinkInv, TypeOK
    <3> QED
      BY <3>1, <3>2, CallGoesOn DEF LinkInv, HdrInv
  <2>4. ASSUME NEW sym \in NoiseSym, Corrupt(sym)
        PROVE  LinkInv'
    <3>1. LineShrinks
      BY <2>4, FirstGone DEF Corrupt
    <3> QED
      BY <2>4, <3>1, PlainTaken, ReadKeeps DEF Corrupt, Take
  <2>5. ASSUME NEW sym \in NoiseSym, Noise(sym)
        PROVE  LinkInv'
    <3>1. LineShrinks
      BY <2>0, <2>5 DEF Noise, streamVars, LineShrinks
    <3> QED
      BY <2>5, <3>1, PlainTaken, ReadKeeps DEF Noise, Take
  <2>6. CASE NoByte
    <3>1. LineShrinks
      BY <2>0, <2>6 DEF NoByte, streamVars, LineShrinks
    <3>2. rd.resync \in Nat
      BY DEF LinkInv, TypeOK, Call
    <3> QED
      BY <2>6, <3>1, <3>2, NothingReturned DEF NoByte, EndOfInput
  <2>7. CASE UNCHANGED linkVars
    <3>1. LineShrinks
      BY <2>0, <2>7 DEF linkVars, streamVars, LineShrinks
    <3>2. UNCHANGED <<rd, got>> /\ NewHdr(rd.hdr) /\ rd \in Call
      BY <2>7 DEF linkVars, readerVars, NewHdr, LinkInv, TypeOK
    <3> QED
      BY <3>1, <3>2, CallGoesOn DEF LinkInv, HdrInv
  <2> QED
    BY <2>1, <2>2, <2>3, <2>4, <2>5, <2>6, <2>7 DEF Next
<1> QED
  BY <1>1, <1>2, PTL DEF Spec

(* Whatever the line and the transport do to the bytes, a frame that the    *)
(* viewer reads with a right checksum is one that was sent, with the type   *)
(* and the payload it was sent with, in the order of sending and not twice. *)
THEOREM GoodFramesAreGood == Spec => []GoodFramesWereSent
<1>1. LinkInv => GoodFramesWereSent
  BY DEF LinkInv
<1> QED
  BY <1>1, LinkInvariant, PTL

-----------------------------------------------------------------------------
(* The sequence numbers *)

(* a and b differ by a multiple of SeqMax. *)
Congruent(a, b) == \E k \in Int : a = b + SeqMax * k

LEMMA CongruentDifference ==
  ASSUME NEW a1 \in Int, NEW b1 \in Int, NEW a2 \in Int, NEW b2 \in Int,
         Congruent(a1, b1), Congruent(a2, b2)
  PROVE  (b2 - b1 - (a2 - a1)) % SeqMax = 0
<1> DEFINE n == SeqMax
<1>0. n \in Nat \ {0}
  BY MTV1StreamAssumption
<1>1. PICK k1 \in Int : a1 = b1 + n * k1
  BY DEF Congruent
<1>2. PICK k2 \in Int : a2 = b2 + n * k2
  BY DEF Congruent
<1> HIDE DEF n
<1> DEFINE d == b2 - b1 - (a2 - a1)
           q == d \div n
           r == d % n
           k == k1 - k2
<1>3. n * k1 \in Int /\ n * k2 \in Int /\ n * (k1 - k2) = n * k1 - n * k2 /\ k \in Int
  BY <1>0, <1>1, <1>2
<1>4. d \in Int /\ d = n * k
  BY <1>1, <1>2, <1>3
<1> HIDE DEF d, k
<1>5. d = n * q + r /\ q \in Int /\ r \in 0..(n - 1)
  BY <1>0, <1>4
<1> HIDE DEF q, r
<1>6. n * (k - q) = n * k - n * q /\ n * k \in Int /\ n * q \in Int
  BY <1>0, <1>3, <1>5
<1>7. n * (k - q) = r
  BY <1>4, <1>5, <1>6
<1>8. r = 0
  <2>1. CASE k = q
    BY <1>0, <1>5, <1>7, <2>1
  <2>2. CASE k > q
    <3>1. n * (k - q) >= n * 1
      BY <1>0, <1>3, <1>5, <2>2
    <3> QED
      BY <1>0, <1>5, <1>7, <3>1
  <2>3. CASE k < q
    <3>1. n * (q - k) >= n * 1 /\ n * (q - k) = -(n * (k - q))
      BY <1>0, <1>3, <1>5, <2>3
    <3> QED
      BY <1>0, <1>5, <1>7, <3>1
  <2> QED
    BY <1>3, <1>5, <2>1, <2>2, <2>3
<1> QED
  BY <1>8 DEF n, r, d

(* Every frame, and the counter, stand for the number of frames until then. *)
SeqInv ==
  /\ Congruent(Len(sent), seq_counter)
  /\ \A i \in DOMAIN sent : Congruent(i, sent[i].seq)

LEMMA CongruentNext ==
  ASSUME NEW a \in Int, NEW c \in 0..SeqMax, Congruent(a, c)
  PROVE  Congruent(a + 1, NextSeq(c))
<1> DEFINE n == SeqMax
<1>0. n \in Nat
  BY MTV1StreamAssumption
<1>1. PICK k \in Int : a = c + n * k
  BY DEF Congruent
<1>2. NextSeq(c) = IF c = n THEN 1 ELSE c + 1
  BY DEF NextSeq
<1> HIDE DEF n
<1>3. n * (k + 1) = n * k + n /\ n * k \in Int /\ k + 1 \in Int
  BY <1>0, <1>1
<1>4. a + 1 = NextSeq(c) + n * k \/ a + 1 = NextSeq(c) + n * (k + 1)
  BY <1>0, <1>1, <1>2, <1>3
<1> QED
  BY <1>1, <1>3, <1>4 DEF Congruent, n

THEOREM SeqInvariant == Spec => []SeqInv
<1>1. Init => SeqInv
  <2> SUFFICES ASSUME Init PROVE SeqInv
    OBVIOUS
  <2>1. Len(sent) = 0 /\ DOMAIN sent = {} /\ seq_counter = 0
    BY DEF Init, StreamInit
  <2>2. SeqMax * 0 = 0 /\ 0 \in Int
    BY MTV1StreamAssumption
  <2>3. 0 = 0 + SeqMax * 0
    BY <2>2
  <2>4. Congruent(0, 0)
    BY <2>2, <2>3 DEF Congruent
  <2> QED
    BY <2>1, <2>4 DEF SeqInv
<1>2. LinkInv /\ SeqInv /\ [Next]_linkVars => SeqInv'
  <2> SUFFICES ASSUME LinkInv, SeqInv, [Next]_linkVars PROVE SeqInv'
    OBVIOUS
  <2>1. ASSUME NEW m \in Message, NEW n \in 0..WholeFrame(m), Send(m, n)
        PROVE  SeqInv'
    <3>1. SendFrame(m, n) /\ n \in Nat
      BY <2>1 DEF Send
    <3>2. /\ Len(sent') = Len(sent) + 1 /\ Len(sent) \in Nat
          /\ DOMAIN sent = 1..Len(sent) /\ DOMAIN sent' = 1..(Len(sent) + 1)
          /\ \A i \in DOMAIN sent : sent'[i] = sent[i]
          /\ sent'[Len(sent) + 1].seq = NextSeq(seq_counter)
          /\ seq_counter' = NextSeq(seq_counter)
      BY <3>1, FrameSent DEF LinkInv
    <3>3. Congruent(Len(sent) + 1, NextSeq(seq_counter))
      <4>1. seq_counter \in 0..SeqMax
        BY DEF LinkInv, TypeOK
      <4>2. Congruent(Len(sent), seq_counter)
        BY DEF SeqInv
      <4> QED
        BY <3>2, <4>1, <4>2, CongruentNext
    <3>4. ASSUME NEW i \in DOMAIN sent'
          PROVE  Congruent(i, sent'[i].seq)
      <4>1. i \in DOMAIN sent \/ i = Len(sent) + 1
        BY <3>2
      <4> QED
        BY <3>2, <3>3, <4>1 DEF SeqInv
    <3> QED
      BY <3>2, <3>3, <3>4 DEF SeqInv
  <2>2. CASE UNCHANGED <<seq_counter, sent>>
    BY <2>2 DEF SeqInv
  <2>3. (\E m \in Message : \E n \in 0..WholeFrame(m) : Send(m, n))
        \/ UNCHANGED <<seq_counter, sent>>
    BY DEF Next, Deliver, Lose, Corrupt, Noise, NoByte, linkVars, streamVars
  <2> QED
    BY <2>1, <2>2, <2>3
<1> QED
  BY <1>1, <1>2, LinkInvariant, PTL DEF Spec

(* The sequence numbers of two good frames differ by the number of frames   *)
(* sent between them, up to a multiple of SeqMax: lost frames can be        *)
(* counted, wherever the counter wraps; and 0 is never used.                *)
THEOREM SeqCountsLoss == Spec => []SeqTellsLoss
<1>1. LinkInv /\ SeqInv => SeqTellsLoss
  <2> SUFFICES ASSUME LinkInv, SeqInv PROVE SeqTellsLoss
    OBVIOUS
  <2>1. /\ DOMAIN sent \subseteq Int
        /\ \A i \in DOMAIN sent : sent[i].seq \in 1..SeqMax
    <3>1. sent \in Seq(Frame) /\ DOMAIN sent = 1..Len(sent) /\ Len(sent) \in Nat
      BY LenProperties DEF LinkInv, TypeOK
    <3>2. \A i \in DOMAIN sent : sent[i] \in Frame
      BY <3>1, ElementOfSeq
    <3> QED
      BY <3>1, <3>2 DEF Frame
  <2>2. ASSUME NEW i \in Good, NEW j \in Good
        PROVE  (sent[got[j].of].seq - sent[got[i].of].seq - (got[j].of - got[i].of))
                 % SeqMax = 0
    <3>1. got[i].of \in DOMAIN sent /\ got[j].of \in DOMAIN sent
      BY DEF LinkInv, GoodFramesWereSent
    <3>2. /\ got[i].of \in Int /\ sent[got[i].of].seq \in Int
          /\ got[j].of \in Int /\ sent[got[j].of].seq \in Int
      BY <2>1, <3>1
    <3> QED
      BY <3>1, <3>2, CongruentDifference DEF SeqInv
  <2> QED
    BY <2>1, <2>2 DEF SeqTellsLoss
<1> QED
  BY <1>1, LinkInvariant, SeqInvariant, PTL

-----------------------------------------------------------------------------
(* The resynchronisation *)

(* The window ends with the first p letters of the magic. *)
Ends(w, p) == Size(w) >= p /\ \A k \in 1..p : w[Size(w) - p + k] = Magic[k]

(* The call has read the first p bytes of frame number i for what they are. *)
InStep(call, i, f, p) ==
  \/ p < Magic4 /\ call.pc = "magic" /\ Ends(call.window, p)
  \/ /\ p >= Magic4 /\ p < Magic4 + HeaderLen /\ call.pc = "header"
     /\ Size(call.hdr) = p - Magic4
     /\ \A k \in 1..(p - Magic4) : call.hdr[k] = HeaderByte(i, k)
  \/ /\ p >= Magic4 + HeaderLen /\ call.pc = "payload"
     /\ call.hdr = Header(i) /\ call.type = f.type /\ call.len = Size(f.payload)
     /\ Size(call.payload) = p - (Magic4 + HeaderLen)
     /\ \A k \in 1..Size(call.payload) : call.payload[k] = f.payload[k]

(* It has skipped nothing before them. *)
Straight(call, p) == call.resync = 0 /\ (call.pc = "magic" => call.before = p)

(* The bytes that the call can still take for the frame it has found *)
Debt(call) ==
  CASE call.pc = "magic"   -> 0
    [] call.pc = "header"  -> HeaderLen - Size(call.hdr) + MaxLen
    [] call.pc = "payload" -> call.len - Size(call.payload)

(* The locals of a call *)
CallOk(call) ==
  /\ call.pc = "magic" => /\ Size(call.window) <= Magic4
                          /\ call.hdr = <<>> /\ call.payload = <<>> /\ call.resync = 0
  /\ call.pc = "header" => Size(call.hdr) < HeaderLen /\ call.payload = <<>>
  /\ call.pc = "payload" => Size(call.payload) < call.len /\ call.len <= MaxLen

(* The sequence l holds the last bytes that were written of frame number i. *)
OnWire(l, i, f) ==
  /\ f.written <= Whole(f) /\ Size(l) <= f.written
  /\ \A k \in 1..Size(l) : l[k] = ByteAt(i, f, f.written - Size(l) + k)

(* What the line still holds of the newest frame *)
LineBytes ==
  /\ sent = <<>> => line = <<>>
  /\ sent # <<>> =>
       /\ OnWire(line, Len(sent), Newest(sent))
       /\ Newest(sent).written < Whole(Newest(sent)) => calm = 0

Undisturbed == ended # "EOF" /\ (PayloadsPlain \/ faults = 0)

Inside == InStep(rd, Len(sent), Newest(sent), Transmitted)

(* Frame i is behind the reader. *)
Over(i) == i < Len(sent) \/ line = <<>>

Follows(i) == i - 1 \in safe \cup {0}

IsGood(i) == \E j \in Good : got[j].of = i

IsKept(i) == \E j \in DOMAIN file : file[j].crc_ok /\ file[j].of = i

(* The reader is in step with the frame on the line, or what it may still   *)
(* take for another one is over when calm is Reach.                         *)
ReaderInv ==
  /\ (line # <<>> /\ Inside) \/ Debt(rd) + calm <= Reach
  /\ line = <<>> /\ calm = Reach /\ Len(sent) \in safe \cup {0} => rd = NewCall
  /\ line # <<>> /\ Len(sent) \in safe =>
       Inside /\ (Follows(Len(sent)) => Straight(rd, Transmitted))
  /\ \A i \in safe : Over(i) => IsGood(i) /\ (Follows(i) => IsKept(i))

(* No frame is longer than the reader takes. *)
Short == \A i \in DOMAIN sent : Size(sent[i].payload) <= MaxLen

SafeWhole == \A i \in safe : i \in DOMAIN sent /\ sent[i].written = Whole(sent[i])

FileSound == \A j \in DOMAIN file : file[j].crc_ok

SyncInv ==
  /\ calm \in 0..Reach /\ faults \in Nat
  /\ file \in Seq(Result)
  /\ Short /\ SafeWhole
  /\ LineBytes /\ CallOk(rd)
  /\ faults = 0 => calm = Reach /\ safe = DOMAIN sent /\ FileSound
  /\ Undisturbed => ReaderInv

(* The good frames in the file come in the order of the good ones read. *)
FileInv ==
  /\ \A j, k \in DOMAIN file :
       j < k /\ file[j].crc_ok /\ file[k].crc_ok => file[j].of < file[k].of
  /\ \A j \in DOMAIN file : file[j].crc_ok => IsGood(file[j].of)

LEMMA EmptySize ==
  ASSUME NEW S, NEW s \in Seq(S), Size(s) = 0
  PROVE  s = <<>>
BY EmptySeq DEF Size

LEMMA SizeAppend ==
  ASSUME NEW S, NEW s \in Seq(S), NEW e \in S
  PROVE  /\ Append(s, e) \in Seq(S) /\ Size(Append(s, e)) = Size(s) + 1
         /\ \A k \in 1..Size(s) : Append(s, e)[k] = s[k]
         /\ Append(s, e)[Size(s) + 1] = e
<1>1. /\ Append(s, e) \in Seq(S) /\ Len(Append(s, e)) = Len(s) + 1
      /\ \A k \in 1..Len(s) : Append(s, e)[k] = s[k]
      /\ Append(s, e)[Len(s) + 1] = e
  BY AppendProperties
<1> QED
  BY Zenon, <1>1, SizeIsLen

LEMMA SizeTail ==
  ASSUME NEW S, NEW s \in Seq(S), Size(s) > 0
  PROVE  /\ s # <<>> /\ Head(s) = s[1] /\ Head(s) \in S
         /\ Tail(s) \in Seq(S) /\ Size(Tail(s)) = Size(s) - 1
         /\ \A k \in 1..Size(Tail(s)) : Tail(s)[k] = s[k + 1]
<1>1. s # <<>>
  BY DEF Size
<1>2. /\ Head(s) \in S /\ Tail(s) \in Seq(S) /\ Head(s) = s[1]
      /\ Len(Tail(s)) = Len(s) - 1
      /\ \A k \in 1..Len(Tail(s)) : Tail(s)[k] = s[k + 1]
  <2>1. /\ Head(s) \in S /\ Tail(s) \in Seq(S)
        /\ Len(Tail(s)) = Len(s) - 1
        /\ \A k \in 1..Len(Tail(s)) : Tail(s)[k] = s[k + 1]
    BY <1>1, HeadTailProperties
  <2>2. Head(s) = s[1]
    BY <1>1
  <2> QED
    BY <2>1, <2>2
<1> QED
  BY Zenon, <1>1, <1>2, SizeIsLen

LEMMA SameSequence ==
  ASSUME NEW S, NEW s \in Seq(S), NEW t \in Seq(S), Size(s) = Size(t),
         \A k \in 1..Size(s) : s[k] = t[k]
  PROVE  s = t
BY Zenon, SeqEqual, SizeIsLen

(* The window after a byte *)
LEMMA SlideWindow ==
  ASSUME NEW w \in Seq(Sym), Size(w) <= 4, NEW sym \in Sym
  PROVE  /\ Slide(w, sym) \in Seq(Sym) /\ Size(Slide(w, sym)) <= 4
         /\ \A p \in 0..3 :
              Ends(w, p) /\ sym = Magic[p + 1] => Ends(Slide(w, sym), p + 1)
         /\ Slide(w, sym) = Magic <=> Ends(w, 3) /\ sym = "1"
<1> DEFINE s == Slide(w, sym)
<1>0. PICK n \in Nat : n = Size(w)
  BY SizeNat
<1>1. PICK o \in {0, 1} : (n > 3 /\ o = 1) \/ (n < 4 /\ o = 0)
  BY <1>0
<1>2. /\ s \in Seq(Sym) /\ Size(s) = n - o + 1 /\ s[n - o + 1] = sym
      /\ \A k \in 1..(n - o) : s[k] = w[k + o]
  <2>1. CASE n > 3 /\ o = 1
    <3>1. Len(w) = Len(Magic)
      <4>1. n = 4
        BY <1>0, <2>1
      <4> QED
        BY Zenon, <1>0, <4>1, SizeIsLen, MagicLetters
    <3>2. s = Append(Tail(w), sym)
      BY Zenon, <3>1 DEF Slide
    <3>3. PICK t \in Seq(Sym) :
              t = Tail(w) /\ Size(t) = Size(w) - 1 /\ \A k \in 1..Size(t) : t[k] = w[k + 1]
      <4>1. Size(w) > 0
        BY <1>0, <2>1
      <4> QED
        BY Zenon, <4>1, SizeTail
    <3>4. s = Append(t, sym)
      BY <3>2, <3>3
    <3> HIDE DEF s
    <3>5. /\ s \in Seq(Sym) /\ Size(s) = Size(t) + 1
          /\ \A k \in 1..Size(t) : s[k] = t[k]
          /\ s[Size(t) + 1] = sym
      <4>1. /\ Append(t, sym) \in Seq(Sym) /\ Size(Append(t, sym)) = Size(t) + 1
            /\ \A k \in 1..Size(t) : Append(t, sym)[k] = t[k]
            /\ Append(t, sym)[Size(t) + 1] = sym
        BY SizeAppend
      <4> QED
        BY Zenon, <3>4, <4>1
    <3>6. Size(t) = 3 /\ Size(t) = n - o
      BY <1>0, <2>1, <3>3
    <3> QED
      BY <2>1, <3>3, <3>5, <3>6
  <2>2. CASE n < 4 /\ o = 0
    <3>1. Len(w) # Len(Magic)
      <4>1. n # 4
        BY <2>2
      <4> QED
        BY Zenon, <1>0, <4>1, SizeIsLen, MagicLetters
    <3>2. s = Append(w, sym)
      BY Zenon, <3>1 DEF Slide
    <3> HIDE DEF s
    <3>3. /\ s \in Seq(Sym) /\ Size(s) = n + 1
          /\ s[n + 1] = sym
          /\ \A k \in 1..n : s[k] = w[k]
      <4>1. /\ Append(w, sym) \in Seq(Sym) /\ Size(Append(w, sym)) = Size(w) + 1
            /\ \A k \in 1..Size(w) : Append(w, sym)[k] = w[k]
            /\ Append(w, sym)[Size(w) + 1] = sym
        BY SizeAppend
      <4> QED
        BY Zenon, <1>0, <3>2, <4>1
    <3> QED
      BY <2>2, <3>3
  <2> QED
    BY <1>1, <2>1, <2>2
<1> HIDE DEF s
<1>3. PICK m \in Nat : m = Size(s) /\ m + o = n + 1 /\ m <= 4
  BY <1>0, <1>1, <1>2, SizeNat
<1>4. ASSUME NEW p \in 0..3, Ends(w, p), sym = Magic[p + 1]
      PROVE  Ends(s, p + 1)
  <2>1. n >= p /\ \A k \in 1..p : w[n - p + k] = Magic[k]
    BY <1>0, <1>4 DEF Ends
  <2>2. m >= p + 1
    BY <1>1, <1>3, <2>1
  <2>3. ASSUME NEW k \in 1..(p + 1)
        PROVE  s[m - (p + 1) + k] = Magic[k]
    <3>1. CASE k = p + 1
      <4>1. m + o = n + 1 /\ k = p + 1 /\ p \in Nat /\ o \in Nat
        BY <1>1, <1>3, <3>1
      <4>2. m - (p + 1) + k = n - o + 1
        BY <4>1, SMTT(30)
      <4> QED
        BY <1>2, <1>4, <3>1, <4>2
    <3>2. CASE k \in 1..p
      <4>1. /\ m - (p + 1) + k \in 1..(n - o)
            /\ m - (p + 1) + k + o = n - p + k
        <5>1. n >= p /\ k \in Nat /\ k >= 1 /\ k <= p /\ p \in Nat
          BY <2>1, <3>2
        <5>2. m + o = n + 1 /\ m >= p + 1 /\ m \in Nat
          BY <1>3, <2>2
        <5>3. m - (p + 1) + k + o = n - p + k
          BY <5>1, <5>2
        <5>4. 1 <= m - (p + 1) + k /\ m - (p + 1) + k <= n - o
          BY <5>1, <5>2
        <5>5. m - (p + 1) + k \in Int
          BY <5>1, <5>2
        <5> QED
          BY <5>3, <5>4, <5>5
      <4> QED
        BY <1>2, <2>1, <3>2, <4>1
    <3> QED
      BY <3>1, <3>2
  <2> QED
    BY <1>3, <2>2, <2>3 DEF Ends
<1>5. ASSUME Ends(w, 3), sym = "1"
      PROVE  s = Magic
  <2>1. Ends(s, 4)
    BY <1>4, <1>5, MagicLetters
  <2>2. m >= 4 /\ \A k \in 1..4 : s[m - 4 + k] = Magic[k]
    BY <1>3, <2>1 DEF Ends
  <2>3. m = 4 /\ \A k \in 1..4 : s[k] = Magic[k]
    <3>1. m = 4 /\ \A k \in 1..4 : m - 4 + k = k
      BY <1>3, <2>2
    <3> QED
      BY <2>2, <3>1, Zenon
  <2>4. Size(Magic) = 4 /\ Magic \in Seq(Sym)
    BY Zenon, MagicLetters, SizeIsLen
  <2>5. Size(s) = 4
    BY Zenon, <1>3, <2>3
  <2> QED
    BY Zenon, <1>2, <2>3, <2>4, <2>5, SameSequence
<1>6. ASSUME s = Magic
      PROVE  Ends(w, 3) /\ sym = "1"
  <2>1. Size(Magic) = 4 /\ Magic[4] = "1"
    BY Zenon, MagicLetters, SizeIsLen
  <2>0. m = 4
    BY Zenon, <1>3, <1>6, <2>1
  <2>2. n = 3 + o
    BY <1>1, <1>3, <2>0
  <2>3. sym = "1"
    BY <1>2, <1>6, <2>1, <2>2
  <2>4. \A k \in 1..3 : w[n - 3 + k] = Magic[k]
    <3> TAKE k \in 1..3
    <3>1. k \in 1..(n - o) /\ n - 3 + k = k + o
      BY <2>2
    <3> QED
      BY <1>2, <1>6, <3>1
  <2> QED
    BY <1>0, <2>2, <2>3, <2>4 DEF Ends
<1> QED
  BY <1>2, <1>3, <1>4, <1>5, <1>6 DEF s

(* What the reader may still take is bounded. *)
LEMMA DebtBound ==
  ASSUME NEW call \in Call, CallOk(call)
  PROVE  /\ Debt(call) \in Nat /\ Debt(call) <= Reach
         /\ Debt(call) = 0 <=> call.pc = "magic"
<1>1. Size(call.hdr) \in Nat /\ Size(call.payload) \in Nat /\ call.len \in Nat
  BY SizeNat DEF Call
<1>2. CASE call.pc = "magic"
  BY <1>2, Numbers DEF Debt
<1>3. CASE call.pc = "header"
  BY <1>1, <1>3, Numbers DEF Debt, CallOk
<1>4. CASE call.pc = "payload"
  BY <1>1, <1>4, Numbers DEF Debt, CallOk
<1> QED
  BY <1>2, <1>3, <1>4 DEF Call

(* What a call returns when it has a frame *)
LEMMA ResultOfFrame ==
  ASSUME LinkInv, NEW call \in Call, ReturnFrame(call)
  PROVE  \E r \in Result :
           /\ Returns(r) /\ r.of = FrameOf(call.hdr)
           /\ r.crc_ok = CrcOk(call.hdr, call.payload)
           /\ r.result = IF call.resync > 0 THEN "RESYNC" ELSE "OK"
<1> DEFINE r == [result |-> IF call.resync > 0 THEN "RESYNC" ELSE "OK",
                 type |-> call.type, payload |-> call.payload, skipped |-> call.resync,
                 of |-> FrameOf(call.hdr),
                 crc_ok |-> CrcOk(call.hdr, call.payload)]
<1>1. FrameOf(call.hdr) \in Nat
  <2>1. DOMAIN sent = 1..Len(sent) /\ Len(sent) \in Nat /\ 0 \notin DOMAIN sent
    BY LenProperties DEF LinkInv, TypeOK
  <2> QED
    BY <2>1, FrameOfHeader, FrameOfSent
<1>2. CrcOk(call.hdr, call.payload) \in BOOLEAN
  BY DEF CrcOk
<1>3. r \in Result
  BY <1>1, <1>2 DEF Call, Result
<1>4. Returns(r)
  BY DEF ReturnFrame
<1>5. /\ r.of = FrameOf(call.hdr) /\ r.crc_ok = CrcOk(call.hdr, call.payload)
      /\ r.result = IF call.resync > 0 THEN "RESYNC" ELSE "OK"
  OBVIOUS
<1> HIDE DEF r
<1> QED
  BY <1>3, <1>4, <1>5

(* The result of a call in which the payload of header hdr was completed *)
Completes(hdr, payload, r) ==
  /\ Returns(r) /\ r.of = FrameOf(hdr) /\ r.crc_ok = CrcOk(hdr, payload)
  /\ r.result = IF rd.resync > 0 THEN "RESYNC" ELSE "OK"

(* The header is complete: with type and len it is valid. *)
Parsed(hdr, type, len) ==
  \/ len = 0 /\ \E r \in Result : Completes(hdr, <<>>, r)
  \/ /\ len > 0 /\ UNCHANGED got
     /\ rd'.pc = "payload" /\ rd'.hdr = hdr /\ rd'.type = type /\ rd'.len = len
     /\ rd'.payload = <<>> /\ rd'.resync = rd.resync

LEMMA NoSymbols == <<>> \in Seq(Sym) /\ <<>> \in Seq(Byte) /\ Size(<<>>) = 0
BY EmptySeq DEF Size

LEMMA FreshCall ==
  /\ NewCall \in Call /\ CallOk(NewCall) /\ Debt(NewCall) = 0
  /\ NewCall.pc = "magic" /\ NewCall.before = 0 /\ NewCall.resync = 0
  /\ Size(NewCall.window) = 0
BY NoSymbols, Numbers DEF NewCall, Call, CallOk, Debt

(* What a byte does while the magic is searched for *)
LEMMA MagicStep ==
  ASSUME LinkInv, CallOk(rd), NEW b \in Byte, SearchMagic(b)
  PROVE  /\ rd.pc = "magic" /\ UNCHANGED got /\ CallOk(rd')
         /\ \/ /\ Slide(rd.window, b.sym) = Magic
               /\ rd'.pc = "header" /\ rd'.hdr = <<>> /\ rd'.payload = <<>>
               /\ rd'.resync = Skipped(rd.before)
            \/ /\ Slide(rd.window, b.sym) # Magic
               /\ rd'.pc = "magic" /\ rd'.window = Slide(rd.window, b.sym)
               /\ rd'.before = rd.before + 1 /\ rd'.resync = 0
<1>1. rd \in Call /\ b.sym \in Sym /\ rd.pc = "magic" /\ UNCHANGED got
  BY DEF LinkInv, TypeOK, Byte, SearchMagic
<1>2. /\ rd.window \in Seq(Sym) /\ rd.hdr = <<>> /\ rd.payload = <<>>
      /\ rd.resync = 0 /\ Size(rd.window) <= 4
  BY <1>1, Numbers DEF Call, CallOk
<1> DEFINE w == Slide(rd.window, b.sym)
           k == Skipped(rd.before)
           n == rd.before + 1
<1>3. w \in Seq(Sym) /\ Size(w) <= 4
  BY <1>1, <1>2, SlideWindow
<1>4. \/ w = Magic /\ rd' = [rd EXCEPT !.pc = "header", !.window = <<>>, !.resync = k]
      \/ w # Magic /\ rd' = [rd EXCEPT !.window = w, !.before = n]
  BY DEF SearchMagic
<1> HIDE DEF w, k, n
<1>5. CASE w = Magic /\ rd' = [rd EXCEPT !.pc = "header", !.window = <<>>, !.resync = k]
  <2>1. /\ rd'.pc = "header" /\ rd'.hdr = <<>> /\ rd'.payload = <<>> /\ rd'.resync = k
    BY <1>1, <1>2, <1>5 DEF Call
  <2>2. CallOk(rd')
    BY <2>1, NoSymbols, Numbers DEF CallOk
  <2> QED
    BY <1>1, <1>5, <2>1, <2>2 DEF w, k
<1>6. CASE w # Magic /\ rd' = [rd EXCEPT !.window = w, !.before = n]
  <2>1. /\ rd'.pc = "magic" /\ rd'.hdr = <<>> /\ rd'.payload = <<>> /\ rd'.resync = 0
        /\ rd'.window = w /\ rd'.before = n
    BY <1>1, <1>2, <1>6 DEF Call
  <2>2. CallOk(rd')
    BY <1>3, <2>1, Numbers DEF CallOk
  <2> QED
    BY <1>1, <1>6, <2>1, <2>2 DEF w, n
<1> QED
  BY <1>4, <1>5, <1>6

(* What a byte does in a payload *)
LEMMA PayloadStep ==
  ASSUME LinkInv, CallOk(rd), NEW b \in Byte, ReadPayload(b)
  PROVE  /\ rd.pc = "payload"
         /\ \/ /\ Size(rd.payload) + 1 < rd.len /\ UNCHANGED got
               /\ rd'.pc = "payload" /\ rd'.hdr = rd.hdr /\ rd'.type = rd.type
               /\ rd'.len = rd.len /\ rd'.payload = Append(rd.payload, b.sym)
               /\ rd'.resync = rd.resync
            \/ /\ Size(rd.payload) + 1 = rd.len
               /\ \E r \in Result : Completes(rd.hdr, Append(rd.payload, b.sym), r)
<1>1. rd \in Call /\ b.sym \in Sym /\ rd.pc = "payload"
  BY DEF LinkInv, TypeOK, Byte, ReadPayload
<1>2. /\ rd.payload \in Seq(Sym) /\ rd.len \in Nat /\ Size(rd.payload) < rd.len
      /\ Size(rd.payload) \in Nat
  BY <1>1, SizeNat DEF Call, CallOk
<1> DEFINE s == Append(rd.payload, b.sym)
           call == [rd EXCEPT !.payload = s]
<1>3. s \in Seq(Sym) /\ Size(s) = Size(rd.payload) + 1
  BY <1>1, <1>2, SizeAppend
<1>4. IF Size(call.payload) < call.len THEN rd' = call /\ UNCHANGED got ELSE ReturnFrame(call)
  BY DEF ReadPayload, Size
<1> HIDE DEF s
<1>5. /\ call \in Call /\ call.pc = "payload" /\ call.hdr = rd.hdr /\ call.type = rd.type
      /\ call.len = rd.len /\ call.payload = s /\ call.resync = rd.resync
  BY <1>1, <1>3 DEF Call
<1> HIDE DEF call
<1>6. CASE Size(s) < rd.len
  <2>1. rd' = call /\ UNCHANGED got
    BY <1>4, <1>5, <1>6
  <2> QED
    BY <1>1, <1>3, <1>5, <1>6, <2>1 DEF s
<1>7. CASE ~(Size(s) < rd.len)
  <2>1. Size(rd.payload) + 1 = rd.len
    BY <1>2, <1>3, <1>7
  <2>2. ReturnFrame(call)
    BY <1>4, <1>5, <1>7
  <2>3. \E r \in Result : Completes(rd.hdr, s, r)
    BY <1>5, <2>2, ResultOfFrame DEF Completes
  <2> QED
    BY <1>1, <2>1, <2>3 DEF s
<1> QED
  BY <1>6, <1>7

(* What a byte does in a header *)
LEMMA HeaderStep ==
  ASSUME LinkInv, CallOk(rd), NEW b \in Byte, ReadHeader(b)
  PROVE  /\ rd.pc = "header"
         /\ \/ /\ Size(rd.hdr) + 1 < HeaderLen /\ UNCHANGED got
               /\ rd'.pc = "header" /\ rd'.hdr = Append(rd.hdr, b)
               /\ rd'.payload = <<>> /\ rd'.resync = rd.resync
            \/ /\ Size(rd.hdr) + 1 = HeaderLen
               /\ LET hdr == Append(rd.hdr, b)
                      i == FrameOf(hdr)
                  IN  \/ i # 0 /\ Parsed(hdr, sent[i].type, Size(sent[i].payload))
                      \/ i = 0 /\ \E r \in Result : Returns(r)
                      \/ i = 0 /\ \E h \in Garbled : Parsed(hdr, h.type, h.len)
<1>1. rd \in Call /\ rd.pc = "header"
  BY DEF LinkInv, TypeOK, ReadHeader
<1>2. /\ rd.hdr \in Seq(Byte) /\ rd.payload = <<>> /\ Size(rd.hdr) < HeaderLen
      /\ Size(rd.hdr) \in Nat
  BY <1>1, SizeNat DEF Call, CallOk
<1> DEFINE hdr == Append(rd.hdr, b)
<1>3. hdr \in Seq(Byte) /\ Size(hdr) = Size(rd.hdr) + 1
  BY <1>2, SizeAppend
<1>4. IF Size(hdr) < HeaderLen THEN rd' = [rd EXCEPT !.hdr = hdr] /\ UNCHANGED got
      ELSE ParseHeader(hdr)
  BY DEF ReadHeader, Size
<1> HIDE DEF hdr
<1>5. CASE Size(hdr) < HeaderLen
  <2>1. /\ rd'.pc = "header" /\ rd'.hdr = hdr /\ rd'.payload = <<>> /\ rd'.resync = rd.resync
        /\ UNCHANGED got
    BY <1>1, <1>2, <1>4, <1>5 DEF Call
  <2> QED
    BY <1>1, <1>3, <1>5, <2>1 DEF hdr
<1>6. CASE ~(Size(hdr) < HeaderLen)
  <2>1. Size(rd.hdr) + 1 = HeaderLen
    BY <1>2, <1>3, <1>6, Numbers
  <2>2. ParseHeader(hdr)
    BY <1>4, <1>6
  <2>3. ASSUME NEW type \in FrameType \cup {"none"}, NEW len \in Nat,
               ValidHeader(hdr, type, len)
        PROVE  Parsed(hdr, type, len)
    <3> DEFINE call == [rd EXCEPT !.hdr = hdr, !.type = type, !.len = len, !.pc = "payload"]
    <3>1. /\ call \in Call /\ call.pc = "payload" /\ call.hdr = hdr /\ call.type = type
          /\ call.len = len /\ call.payload = <<>> /\ call.resync = rd.resync
      BY <1>1, <1>2, <1>3 DEF Call
    <3>2. IF len = 0 THEN ReturnFrame(call) ELSE rd' = call /\ UNCHANGED got
      BY <2>3 DEF ValidHeader
    <3> HIDE DEF call
    <3>3. CASE len = 0
      <4>1. \E r \in Result : Completes(hdr, <<>>, r)
        BY <3>1, <3>2, <3>3, ResultOfFrame DEF Completes
      <4> QED
        BY <3>3, <4>1 DEF Parsed
    <3>4. CASE len # 0
      BY <3>1, <3>2, <3>4 DEF Parsed
    <3> QED
      BY <3>3, <3>4
  <2> DEFINE i == FrameOf(hdr)
  <2>4. CASE i # 0 /\ ValidHeader(hdr, sent[i].type, Len(sent[i].payload))
    <3>1. DOMAIN sent = 1..Len(sent) /\ Len(sent) \in Nat /\ 0 \notin DOMAIN sent
      BY LenProperties DEF LinkInv, TypeOK
    <3>2. i \in DOMAIN sent
      BY <2>4, <3>1, FrameOfHeader, FrameOfSent
    <3>3. sent[i] \in Frame
      BY <3>1, <3>2, ElementOfSeq DEF LinkInv, TypeOK
    <3>4. sent[i].type \in FrameType \cup {"none"} /\ Size(sent[i].payload) \in Nat
      BY <3>3, SizeNat DEF Frame
    <3>5. ValidHeader(hdr, sent[i].type, Size(sent[i].payload))
      BY <2>4 DEF Size
    <3> HIDE DEF i
    <3>6. Parsed(hdr, sent[i].type, Size(sent[i].payload))
      BY <2>3, <3>4, <3>5
    <3> QED
      BY <1>1, <2>1, <2>4, <3>6 DEF hdr, i
  <2>5. CASE i = 0 /\ ReturnNothing("ERROR", rd.resync)
    <3> DEFINE r == [result |-> "ERROR", type |-> "none", payload |-> <<>>,
                     skipped |-> rd.resync, of |-> 0, crc_ok |-> FALSE]
    <3>1. r \in Result /\ Returns(r)
      BY <1>1, <2>5, NoSymbols DEF Call, Result, ReturnNothing
    <3> HIDE DEF r
    <3> QED
      BY <1>1, <2>1, <2>5, <3>1 DEF hdr
  <2>6. CASE i = 0 /\ \E h \in Garbled : ValidHeader(hdr, h.type, h.len)
    <3>1. PICK h \in Garbled : ValidHeader(hdr, h.type, h.len)
      BY <2>6
    <3>2. h.type \in FrameType \cup {"none"} /\ h.len \in Nat
      BY MTV1ReaderAssumption DEF FrameType
    <3>3. Parsed(hdr, h.type, h.len)
      BY <2>3, <3>1, <3>2
    <3> QED
      BY <1>1, <2>1, <2>6, <3>3 DEF hdr
  <2> QED
    BY <2>2, <2>4, <2>5, <2>6 DEF ParseHeader
<1> QED
  BY <1>5, <1>6

(* A byte of any origin: the call goes on or returns, and a call that has   *)
(* found a magic comes nearer to the end of what it takes for a frame.       *)
LEMMA AnyStep ==
  ASSUME LinkInv, CallOk(rd), Short, NEW b \in Byte, Read(b), rd' \in Call
  PROVE  /\ CallOk(rd')
         /\ UNCHANGED got \/ \E r \in Result : Returns(r)
         /\ rd.pc # "magic" => Debt(rd') + 1 <= Debt(rd)
         /\ rd.pc = "magic" /\ Slide(rd.window, b.sym) # Magic => rd'.pc = "magic"
<1>1. /\ rd \in Call /\ Size(rd.hdr) \in Nat /\ Size(rd.payload) \in Nat /\ rd.len \in Nat
      /\ rd.hdr \in Seq(Byte) /\ rd.payload \in Seq(Sym) /\ b.sym \in Sym
  BY SizeNat DEF LinkInv, TypeOK, Call, Byte
<1>2. Debt(rd) \in Nat /\ (rd.pc # "magic" => Debt(rd) > 0)
  BY <1>1, DebtBound
<1>3. ASSUME NEW r \in Result, Returns(r), rd.pc # "magic"
      PROVE  CallOk(rd') /\ Debt(rd') + 1 <= Debt(rd)
  BY <1>2, <1>3, FreshCall DEF Returns
<1>4. CASE SearchMagic(b)
  BY <1>4, MagicStep
<1>5. ASSUME NEW hdr, NEW type, NEW len \in 0..MaxLen, Parsed(hdr, type, len),
             rd.pc = "header"
      PROVE  /\ CallOk(rd') /\ (UNCHANGED got \/ \E r \in Result : Returns(r))
             /\ Debt(rd') + 1 <= Debt(rd)
  <2>1. CASE \E r \in Result : Returns(r)
    BY <1>3, <1>5, <2>1
  <2>2. CASE /\ len > 0 /\ UNCHANGED got
             /\ rd'.pc = "payload" /\ rd'.hdr = hdr /\ rd'.type = type /\ rd'.len = len
             /\ rd'.payload = <<>> /\ rd'.resync = rd.resync
    <3>1. len \in Nat /\ len <= MaxLen /\ MaxLen \in Nat /\ HeaderLen \in Nat
      BY Numbers
    <3>2. CallOk(rd') /\ Debt(rd') = len
      BY <2>2, <3>1, NoSymbols DEF CallOk, Debt
    <3>3. Debt(rd) = HeaderLen - Size(rd.hdr) + MaxLen /\ Size(rd.hdr) < HeaderLen
      BY <1>5 DEF Debt, CallOk
    <3>4. Debt(rd') + 1 <= Debt(rd)
      BY <1>1, <3>1, <3>2, <3>3
    <3> QED
      BY <2>2, <3>2, <3>4
  <2> QED
    BY <1>5, <2>1, <2>2 DEF Parsed, Completes
<1>6. CASE ReadHeader(b)
  <2>1. rd.pc = "header"
    BY <1>6, HeaderStep
  <2> DEFINE hdr == Append(rd.hdr, b)
             i == FrameOf(hdr)
  <2>2. \/ /\ Size(rd.hdr) + 1 < HeaderLen /\ UNCHANGED got
           /\ rd'.pc = "header" /\ rd'.hdr = hdr /\ rd'.payload = <<>>
        \/ i # 0 /\ Parsed(hdr, sent[i].type, Size(sent[i].payload))
        \/ \E r \in Result : Returns(r)
        \/ \E h \in Garbled : Parsed(hdr, h.type, h.len)
    BY <1>6, HeaderStep
  <2>3. Size(hdr) = Size(rd.hdr) + 1
    BY <1>1, SizeAppend
  <2>4. i # 0 => Size(sent[i].payload) \in 0..MaxLen
    <3>1. DOMAIN sent = 1..Len(sent) /\ Len(sent) \in Nat /\ 0 \notin DOMAIN sent
      BY LenProperties DEF LinkInv, TypeOK
    <3>2. i # 0 => i \in DOMAIN sent
      BY <3>1, FrameOfHeader, FrameOfSent
    <3> HIDE DEF i
    <3> SUFFICES ASSUME i # 0 PROVE Size(sent[i].payload) \in 0..MaxLen
      OBVIOUS
    <3>3. sent[i] \in Frame
      BY <3>1, <3>2, ElementOfSeq DEF LinkInv, TypeOK
    <3>4. Size(sent[i].payload) \in Nat
      BY <3>3, SizeNat DEF Frame
    <3> QED
      BY <3>2, <3>4, Numbers DEF Short
  <2> HIDE DEF hdr, i
  <2>5. CASE /\ Size(rd.hdr) + 1 < HeaderLen /\ UNCHANGED got
             /\ rd'.pc = "header" /\ rd'.hdr = hdr /\ rd'.payload = <<>>
    <3>1. CallOk(rd') /\ Debt(rd') = HeaderLen - Size(hdr) + MaxLen
      BY <2>3, <2>5 DEF CallOk, Debt
    <3>2. Debt(rd) = HeaderLen - Size(rd.hdr) + MaxLen
      BY <2>1 DEF Debt
    <3>3. Debt(rd') + 1 <= Debt(rd)
      BY <1>1, <2>3, <3>1, <3>2, Numbers
    <3> QED
      BY <2>1, <2>5, <3>1, <3>3
  <2>6. CASE i # 0 /\ Parsed(hdr, sent[i].type, Size(sent[i].payload))
    BY <1>5, <2>1, <2>4, <2>6
  <2>7. CASE \E r \in Result : Returns(r)
    BY <1>3, <2>1, <2>7
  <2>8. CASE \E h \in Garbled : Parsed(hdr, h.type, h.len)
    <3>1. PICK h \in Garbled : Parsed(hdr, h.type, h.len)
      BY <2>8
    <3>2. h.len \in 0..MaxLen
      BY MTV1ReaderAssumption
    <3> QED
      BY <1>5, <2>1, <3>1, <3>2
  <2> QED
    BY <2>2, <2>5, <2>6, <2>7, <2>8
<1>7. CASE ReadPayload(b)
  <2>1. rd.pc = "payload" /\ rd.len <= MaxLen
    BY <1>7, PayloadStep DEF CallOk
  <2>2. Debt(rd) = rd.len - Size(rd.payload)
    BY <2>1 DEF Debt
  <2>3. CASE \E r \in Result : Returns(r)
    BY <1>3, <2>1, <2>3
  <2>4. CASE /\ Size(rd.payload) + 1 < rd.len /\ UNCHANGED got
             /\ rd'.pc = "payload" /\ rd'.len = rd.len
             /\ rd'.payload = Append(rd.payload, b.sym)
    <3>1. Size(rd'.payload) = Size(rd.payload) + 1
      BY <1>1, <2>4, SizeAppend
    <3>2. CallOk(rd') /\ Debt(rd') = rd.len - Size(rd'.payload)
      BY <2>1, <2>4, <3>1 DEF CallOk, Debt
    <3>3. Debt(rd') + 1 <= Debt(rd)
      BY <1>1, <2>2, <3>1, <3>2
    <3> QED
      BY <2>1, <2>4, <3>2, <3>3
  <2> QED
    BY <1>7, <2>3, <2>4, PayloadStep DEF Completes
<1> QED
  BY <1>4, <1>6, <1>7 DEF Read

(* A byte that cannot end a magic leaves a search a search. *)
LEMMA NoMagic ==
  ASSUME LinkInv, CallOk(rd), NEW i \in DOMAIN sent, NEW p \in Nat, p < Whole(sent[i]),
         ~InStep(rd, i, sent[i], p), rd.pc = "magic",
         \A k \in DOMAIN sent[i].payload : sent[i].payload[k] # "1"
  PROVE  Slide(rd.window, ByteAt(i, sent[i], p + 1).sym) # Magic
<1> DEFINE f == sent[i]
           k == p + 1
           b == ByteAt(i, f, k)
<1>1. f \in Frame /\ i \in Nat
  <2>1. sent \in Seq(Frame) /\ DOMAIN sent = 1..Len(sent) /\ Len(sent) \in Nat
    BY LenProperties DEF LinkInv, TypeOK
  <2> QED
    BY <2>1, ElementOfSeq
<1>2. k \in Nat /\ k > 0
  OBVIOUS
<1>3. f.payload \in Seq(Letter) /\ Size(f.payload) \in Nat /\ DOMAIN f.payload = 1..Len(f.payload)
  BY <1>1, SizeNat, LenProperties DEF Frame
<1>4. Whole(f) \in Nat
  BY <1>3, Numbers DEF Whole
<1>5. k <= Whole(f)
  BY <1>4
<1> HIDE DEF f, k
<1>6. /\ b \in Byte
      /\ k <= 4 => b.sym = Magic[k]
      /\ k > 4 /\ k <= 4 + HeaderLen => b = HeaderByte(i, k - 4)
      /\ k > 4 + HeaderLen => /\ k - (4 + HeaderLen) \in 1..Size(f.payload)
                              /\ b.sym = f.payload[k - (4 + HeaderLen)]
  BY <1>1, <1>2, <1>5, ByteLetters
<1>7. rd.window \in Seq(Sym) /\ Size(rd.window) <= 4 /\ b.sym \in Sym
  BY <1>6, Numbers DEF LinkInv, TypeOK, Call, CallOk, Byte
<1> HIDE DEF b
<1>8. Slide(rd.window, b.sym) = Magic => Ends(rd.window, 3) /\ b.sym = "1"
  BY <1>7, SlideWindow
<1>9. ~(Ends(rd.window, 3) /\ b.sym = "1")
  <2>1. CASE k <= 4
    <3>1. ~Ends(rd.window, p)
      BY <2>1, Numbers DEF InStep, k
    <3>2. k = 1 \/ k = 2 \/ k = 3 \/ k = 4
      BY <1>2, <2>1
    <3>3. k = 4 => p = 3
      BY DEF k
    <3>4. CASE k = 4
      BY <3>1, <3>3, <3>4
    <3>5. CASE k = 1 \/ k = 2 \/ k = 3
      BY <1>6, <2>1, <3>5, MagicLetters
    <3> QED
      BY <3>2, <3>4, <3>5
  <2>2. CASE k > 4 /\ k <= 4 + HeaderLen
    BY <1>6, <2>2 DEF HeaderByte
  <2>3. CASE k > 4 + HeaderLen
    <3>1. k - (4 + HeaderLen) \in DOMAIN f.payload
      BY <1>3, <1>6, <2>3 DEF Size
    <3> QED
      BY <1>6, <2>3, <3>1 DEF f
  <2> QED
    BY <1>2, <2>1, <2>2, <2>3, Numbers
<1> QED
  BY <1>8, <1>9 DEF b, f, k

(* The next byte of the frame that the call is in step with: it stays in    *)
(* step, or returns the frame as a good one.                                 *)
LEMMA StepOn ==
  ASSUME LinkInv, CallOk(rd), NEW i \in DOMAIN sent, NEW p \in Nat,
         p < Whole(sent[i]), InStep(rd, i, sent[i], p), Read(ByteAt(i, sent[i], p + 1))
  PROVE  \/ /\ p + 1 < Whole(sent[i]) /\ UNCHANGED got
            /\ InStep(rd', i, sent[i], p + 1)
            /\ Straight(rd, p) => Straight(rd', p + 1)
         \/ /\ p + 1 = Whole(sent[i])
            /\ \E r \in Result :
                 /\ Returns(r) /\ r.of = i /\ r.crc_ok
                 /\ Straight(rd, p) => r.result = "OK"
<1> DEFINE f == sent[i]
           k == p + 1
           b == ByteAt(i, f, k)
<1>0. DOMAIN sent = 1..Len(sent) /\ Len(sent) \in Nat /\ sent \in Seq(Frame)
  BY LenProperties DEF LinkInv, TypeOK
<1>1. f \in Frame /\ i \in Nat /\ i # 0
  BY <1>0, ElementOfSeq
<1>2. k \in Nat /\ k > 0 /\ k = p + 1
  OBVIOUS
<1>3. f.payload \in Seq(Letter) /\ f.payload \in Seq(Sym) /\ Size(f.payload) \in Nat
  <2>1. f.payload \in Seq(Letter)
    BY <1>1 DEF Frame
  <2>2. Letter \subseteq Sym
    BY DEF Sym
  <2> HIDE DEF f
  <2> QED
    BY <2>1, <2>2, SizeNat
<1>4. Whole(f) = 4 + HeaderLen + Size(f.payload) /\ Whole(f) \in Nat
  BY <1>3, Numbers DEF Whole
<1>5. k <= Whole(f)
  BY <1>4
<1>a. Read(b) /\ InStep(rd, i, f, p)
  OBVIOUS
<1> HIDE DEF f, k
<1>6. /\ b \in Byte
      /\ k <= 4 => b.sym = Magic[k]
      /\ k > 4 /\ k <= 4 + HeaderLen => b = HeaderByte(i, k - 4)
      /\ k > 4 + HeaderLen => /\ k - (4 + HeaderLen) \in 1..Size(f.payload)
                              /\ b.sym = f.payload[k - (4 + HeaderLen)]
  BY <1>1, <1>2, <1>5, ByteLetters
<1> HIDE DEF b
<1>7. rd \in Call /\ b.sym \in Sym
  BY <1>6 DEF LinkInv, TypeOK, Byte
<1>8. \A hdr : hdr = Header(i) => FrameOf(hdr) = i
  BY <1>0, FrameOfHeader, FrameOfSent
<1>9. \A hdr, payload : hdr = Header(i) /\ payload = f.payload => CrcOk(hdr, payload)
  BY <1>1, <1>8 DEF CrcOk, f
<1>10. CASE rd.pc = "magic"
  <2>1. p \in 0..3 /\ Ends(rd.window, p)
    BY <1>a, <1>10, Numbers DEF InStep
  <2>2. rd.window \in Seq(Sym) /\ Size(rd.window) <= 4
    BY <1>7, <1>10, Numbers DEF Call, CallOk
  <2>3. k <= 4 /\ b.sym = Magic[p + 1]
    BY <1>2, <1>6, <2>1
  <2>4. /\ Ends(Slide(rd.window, b.sym), p + 1)
        /\ Slide(rd.window, b.sym) = Magic <=> Ends(rd.window, 3) /\ b.sym = "1"
    BY <1>7, <2>1, <2>2, <2>3, SlideWindow
  <2>5. SearchMagic(b)
    BY <1>a, <1>10 DEF Read, ReadHeader, ReadPayload
  <2>6. CASE p = 3
    <3>1. Slide(rd.window, b.sym) = Magic
      BY <2>1, <2>3, <2>4, <2>6, MagicLetters
    <3>2. UNCHANGED got /\ rd'.pc = "header" /\ rd'.hdr = <<>> /\ rd'.resync = Skipped(rd.before)
      BY <1>6, <2>5, <3>1, MagicStep
    <3>3. k < Whole(f) /\ InStep(rd', i, f, k)
      <4>1. k = 4 /\ HeaderLen \in Nat /\ HeaderLen > 0 /\ Magic4 = 4
        BY <1>2, <2>6, Numbers
      <4>2. k < Whole(f)
        BY <1>3, <1>4, <4>1
      <4>3. Size(rd'.hdr) = 0
        BY <3>2, NoSymbols
      <4> QED
        BY <3>2, <4>1, <4>2, <4>3 DEF InStep
    <3>4. Straight(rd, p) => Straight(rd', k)
      BY <1>10, <2>6, <3>2 DEF Straight, Skipped
    <3> QED
      BY <3>2, <3>3, <3>4 DEF f, k
  <2>7. CASE p \in 0..2
    <3>1. Slide(rd.window, b.sym) # Magic
      <4>1. p = 0 \/ p = 1 \/ p = 2
        BY <2>7
      <4> QED
        BY <2>3, <2>4, <4>1, MagicLetters
    <3>2. /\ UNCHANGED got /\ rd'.pc = "magic" /\ rd'.window = Slide(rd.window, b.sym)
          /\ rd'.before = rd.before + 1 /\ rd'.resync = 0
      BY <1>6, <2>5, <3>1, MagicStep
    <3>3. k < Whole(f) /\ k < Magic4
      BY <1>2, <1>3, <1>4, <2>7, Numbers
    <3>4. InStep(rd', i, f, k)
      BY <1>2, <2>4, <3>2, <3>3 DEF InStep
    <3>5. Straight(rd, p) => Straight(rd', k)
      BY <1>2, <1>10, <3>2 DEF Straight
    <3> QED
      BY <3>2, <3>3, <3>4, <3>5 DEF f, k
  <2> QED
    BY <2>1, <2>6, <2>7
<1>11. CASE rd.pc = "header"
  <2>1. /\ p >= 4 /\ p < 4 + HeaderLen /\ Size(rd.hdr) = p - 4
        /\ \A n \in 1..(p - 4) : rd.hdr[n] = HeaderByte(i, n)
    BY <1>a, <1>11, Numbers DEF InStep
  <2> DEFINE hdr == Append(rd.hdr, b)
  <2>2. rd.hdr \in Seq(Byte)
    BY <1>7 DEF Call
  <2>3. /\ hdr \in Seq(Byte) /\ Size(hdr) = Size(rd.hdr) + 1
        /\ \A n \in 1..Size(rd.hdr) : hdr[n] = rd.hdr[n]
        /\ hdr[Size(rd.hdr) + 1] = b
    <3>1. PICK e \in Byte : e = b
      BY <1>6
    <3>2. \A g \in Seq(Byte) :
            /\ Append(g, e) \in Seq(Byte) /\ Size(Append(g, e)) = Size(g) + 1
            /\ \A n \in 1..Size(g) : Append(g, e)[n] = g[n]
            /\ Append(g, e)[Size(g) + 1] = e
      BY SizeAppend, Zenon
    <3> QED
      BY <2>2, <3>1, <3>2, Zenon
  <2>4. b = HeaderByte(i, k - 4) /\ k - 4 = (p - 4) + 1
    BY <1>2, <1>6, <2>1, Numbers
  <2>5. ReadHeader(b)
    BY <1>a, <1>11 DEF Read, SearchMagic, ReadPayload
  <2> HIDE DEF hdr
  <2>6. Size(hdr) = k - 4 /\ \A n \in 1..(k - 4) : hdr[n] = HeaderByte(i, n)
    <3>1. Size(hdr) = k - 4
      BY <2>1, <2>3, <2>4
    <3>2. ASSUME NEW n \in 1..(k - 4) PROVE hdr[n] = HeaderByte(i, n)
      <4>1. CASE n = (p - 4) + 1
        BY <2>1, <2>3, <2>4, <4>1
      <4>2. CASE n \in 1..(p - 4)
        BY <2>1, <2>3, <4>2
      <4> QED
        BY <2>1, <2>4, <4>1, <4>2
    <3> QED
      BY <3>1, <3>2
  <2>7. CASE Size(rd.hdr) + 1 < HeaderLen
    <3>1. UNCHANGED got /\ rd'.pc = "header" /\ rd'.hdr = hdr /\ rd'.resync = rd.resync
      BY <1>6, <2>5, <2>7, HeaderStep, Numbers DEF hdr
    <3>2. k >= Magic4 /\ k < Magic4 + HeaderLen /\ k < Whole(f)
      BY <1>2, <1>3, <1>4, <2>1, <2>7, Numbers
    <3>3. InStep(rd', i, f, k)
      BY <2>6, <3>1, <3>2, Numbers DEF InStep
    <3>4. Straight(rd, p) => Straight(rd', k)
      BY <3>1 DEF Straight
    <3> QED
      BY <3>1, <3>2, <3>3, <3>4 DEF f, k
  <2>8. CASE ~(Size(rd.hdr) + 1 < HeaderLen)
    <3>1. k = 4 + HeaderLen
      BY <1>2, <2>1, <2>8, Numbers
    <3>2. hdr = Header(i)
      <4>1. /\ HeaderLen \in Nat /\ Header(i) \in Seq(Byte) /\ Size(Header(i)) = HeaderLen
            /\ \A n \in 1..HeaderLen : Header(i)[n] = HeaderByte(i, n)
        <5>1. HeaderLen \in Nat
          BY Numbers
        <5>2. \A n \in 1..HeaderLen : HeaderByte(i, n) \in Byte
          BY <1>1 DEF HeaderByte, Byte, Sym
        <5>3. Header(i) \in Seq(Byte) /\ Len(Header(i)) = HeaderLen
          BY <5>1, <5>2 DEF Header
        <5> QED
          BY <5>1, <5>3, SizeIsLen DEF Header
      <4>2. Size(hdr) = HeaderLen
        BY <2>6, <3>1, <4>1
      <4>3. \A n \in 1..Size(hdr) : hdr[n] = Header(i)[n]
        BY <2>6, <3>1, <4>1, <4>2
      <4> QED
        BY <2>3, <4>1, <4>2, <4>3, SameSequence
    <3>3. FrameOf(hdr) = i
      BY <1>8, <3>2
    <3>4. Parsed(hdr, f.type, Size(f.payload))
      <4>1. Size(rd.hdr) + 1 = HeaderLen
        BY <1>2, <2>1, <3>1, Numbers
      <4>2. LET j == FrameOf(hdr)
            IN  \/ j # 0 /\ Parsed(hdr, sent[j].type, Size(sent[j].payload))
                \/ j = 0 /\ \E r \in Result : Returns(r)
                \/ j = 0 /\ \E h \in Garbled : Parsed(hdr, h.type, h.len)
        BY <1>6, <2>5, <2>8, HeaderStep DEF hdr
      <4> QED
        BY <1>1, <3>3, <4>2 DEF f
    <3>5. CASE Size(f.payload) = 0
      <4>1. PICK r \in Result : Completes(hdr, <<>>, r)
        BY <3>4, <3>5 DEF Parsed
      <4>2. f.payload = <<>>
        BY <1>3, <3>5, EmptySize
      <4>3. r.of = i /\ r.crc_ok /\ Returns(r) /\ (Straight(rd, p) => r.result = "OK")
        BY <1>9, <3>2, <3>3, <4>1, <4>2 DEF Completes, Straight
      <4>4. k = Whole(f)
        BY <1>4, <3>1, <3>5, Numbers
      <4> QED
        BY <4>3, <4>4 DEF f, k
    <3>6. CASE Size(f.payload) # 0
      <4>1. /\ UNCHANGED got /\ rd'.pc = "payload" /\ rd'.hdr = hdr /\ rd'.type = f.type
            /\ rd'.len = Size(f.payload) /\ rd'.payload = <<>> /\ rd'.resync = rd.resync
        BY <3>4, <3>6 DEF Parsed
      <4>2. k < Whole(f)
        BY <1>3, <1>4, <3>1, <3>6, Numbers
      <4>3. Size(rd'.payload) = 0
        BY <4>1, NoSymbols
      <4>4. k - (4 + HeaderLen) = 0 /\ k >= 4 + HeaderLen
        BY <3>1, Numbers
      <4>5. InStep(rd', i, f, k)
        BY <3>2, <4>1, <4>3, <4>4, Numbers DEF InStep
      <4>6. Straight(rd, p) => Straight(rd', k)
        BY <4>1 DEF Straight
      <4> QED
        BY <4>1, <4>2, <4>5, <4>6 DEF f, k
    <3> QED
      BY <3>5, <3>6
  <2> QED
    BY <2>7, <2>8
<1>12. CASE rd.pc = "payload"
  <2>1. /\ p >= 4 + HeaderLen /\ rd.hdr = Header(i) /\ rd.type = f.type
        /\ rd.len = Size(f.payload) /\ Size(rd.payload) = p - (4 + HeaderLen)
        /\ \A n \in 1..Size(rd.payload) : rd.payload[n] = f.payload[n]
    BY <1>a, <1>12, Numbers DEF InStep
  <2> DEFINE s == Append(rd.payload, b.sym)
  <2>2. rd.payload \in Seq(Sym)
    BY <1>7 DEF Call
  <2>3. /\ s \in Seq(Sym) /\ Size(s) = Size(rd.payload) + 1
        /\ \A n \in 1..Size(rd.payload) : s[n] = rd.payload[n]
        /\ s[Size(rd.payload) + 1] = b.sym
    <3>1. PICK e \in Sym : e = b.sym
      BY <1>7
    <3>2. \A g \in Seq(Sym) :
            /\ Append(g, e) \in Seq(Sym) /\ Size(Append(g, e)) = Size(g) + 1
            /\ \A n \in 1..Size(g) : Append(g, e)[n] = g[n]
            /\ Append(g, e)[Size(g) + 1] = e
      BY SizeAppend, Zenon
    <3> QED
      BY <2>2, <3>1, <3>2, Zenon
  <2>4. /\ k > 4 + HeaderLen /\ b.sym = f.payload[k - (4 + HeaderLen)]
        /\ k - (4 + HeaderLen) = Size(rd.payload) + 1
    BY <1>2, <1>6, <2>1, Numbers
  <2>5. ReadPayload(b)
    BY <1>a, <1>12 DEF Read, SearchMagic, ReadHeader
  <2>6. \/ /\ Size(rd.payload) + 1 < rd.len /\ UNCHANGED got
           /\ rd'.pc = "payload" /\ rd'.hdr = rd.hdr /\ rd'.type = rd.type
           /\ rd'.len = rd.len /\ rd'.payload = s /\ rd'.resync = rd.resync
        \/ /\ Size(rd.payload) + 1 = rd.len
           /\ \E r \in Result : Completes(rd.hdr, s, r)
    BY <1>6, <2>5, PayloadStep
  <2> HIDE DEF s
  <2>7. \A n \in 1..Size(s) : s[n] = f.payload[n]
    <3> TAKE n \in 1..Size(s)
    <3>0. Size(rd.payload) \in Nat
      BY <2>2, SizeNat
    <3>1. CASE n = Size(rd.payload) + 1
      BY <2>3, <2>4, <3>1
    <3>2. CASE n \in 1..Size(rd.payload)
      BY <2>1, <2>3, <3>2
    <3> QED
      BY <2>3, <3>0, <3>1, <3>2
  <2>8. CASE /\ Size(rd.payload) + 1 < rd.len /\ UNCHANGED got
             /\ rd'.pc = "payload" /\ rd'.hdr = rd.hdr /\ rd'.type = rd.type
             /\ rd'.len = rd.len /\ rd'.payload = s /\ rd'.resync = rd.resync
    <3>1. k < Whole(f)
      BY <1>2, <1>3, <1>4, <2>1, <2>8, Numbers
    <3>2. k >= 4 + HeaderLen /\ Size(s) = k - (4 + HeaderLen)
      <4>1. k >= 4 + HeaderLen
        BY <1>2, <2>4, Numbers
      <4> QED
        BY Zenon, <2>3, <2>4, <4>1
    <3>3. InStep(rd', i, f, k)
      BY <2>1, <2>7, <2>8, <3>2, Numbers DEF InStep
    <3>4. Straight(rd, p) => Straight(rd', k)
      BY <2>8 DEF Straight
    <3> QED
      BY <2>8, <3>1, <3>3, <3>4 DEF f, k
  <2>9. CASE Size(rd.payload) + 1 = rd.len /\ \E r \in Result : Completes(rd.hdr, s, r)
    <3>1. PICK r \in Result : Completes(rd.hdr, s, r)
      BY <2>9
    <3>2. s = f.payload
      <4>1. Size(s) = Size(f.payload)
        BY <2>1, <2>3, <2>9
      <4> QED
        BY <1>3, <2>3, <2>7, <4>1, SameSequence
    <3>3. r.of = i /\ r.crc_ok /\ Returns(r) /\ (Straight(rd, p) => r.result = "OK")
      BY <1>8, <1>9, <2>1, <3>1, <3>2 DEF Completes, Straight
    <3>4. k = Whole(f)
      BY <1>2, <1>4, <2>1, <2>9, Numbers
    <3> QED
      BY <3>3, <3>4 DEF f, k
  <2> QED
    BY <2>6, <2>8, <2>9
<1> QED
  BY <1>7, <1>10, <1>11, <1>12 DEF Call

(* A result more *)
LEMMA ResultAdded ==
  ASSUME LinkInv, NEW r \in Result, Returns(r)
  PROVE  /\ Newest(got') = r /\ got' # got
         /\ \A i : IsGood(i) => IsGood(i)'
         /\ r.crc_ok => IsGood(r.of)'
<1>1. got \in Seq(Result)
  BY DEF LinkInv, TypeOK
<1>2. PICK g \in Seq(Result) : g = got
  BY <1>1
<1>3. got' = Append(g, r)
  BY <1>2 DEF Returns
<1>4. /\ Append(g, r) \in Seq(Result) /\ Len(Append(g, r)) = Len(g) + 1
      /\ \A k \in 1..Len(g) : Append(g, r)[k] = g[k]
      /\ Append(g, r)[Len(g) + 1] = r
  BY AppendProperties
<1>5. /\ Len(g) \in Nat /\ DOMAIN g = 1..Len(g)
      /\ DOMAIN Append(g, r) = 1..(Len(g) + 1)
  BY <1>4, LenProperties
<1>6. Newest(got') = r
  BY Zenon, <1>3, <1>4 DEF Newest
<1>7. got' # got
  <2>1. Size(g) \in Nat /\ Size(Append(g, r)) = Size(g) + 1
    BY SizeNat, SizeAppend
  <2>2. Append(g, r) # g
    BY <2>1
  <2> QED
    BY <1>2, <1>3, <2>2
<1>8. \A k \in DOMAIN g : k \in DOMAIN Append(g, r) /\ Append(g, r)[k] = g[k]
  BY <1>4, <1>5
<1>9. \A i : IsGood(i) => IsGood(i)'
  BY <1>2, <1>3, <1>8 DEF IsGood, Good
<1>10. r.crc_ok => IsGood(r.of)'
  <2>1. Len(g) + 1 \in DOMAIN Append(g, r)
    BY <1>5
  <2> QED
    BY <1>3, <1>4, <2>1 DEF IsGood, Good
<1> QED
  BY <1>6, <1>7, <1>9, <1>10

(* What capture does with it *)
LEMMA ResultKept ==
  ASSUME NEW r \in Result, CaptureResult(r), file \in Seq(Result)
  PROVE  /\ file' \in Seq(Result)
         /\ \A i : IsKept(i) => IsKept(i)'
         /\ r.crc_ok /\ r.result = "OK" => IsKept(r.of)'
         /\ FileSound /\ r.crc_ok => FileSound'
<1>1. CASE r.result # "OK"
  <2>1. file' = file
    BY <1>1 DEF CaptureResult
  <2> QED
    BY <1>1, <2>1 DEF IsKept, FileSound
<1>2. CASE r.result = "OK"
  <2>1. PICK g \in Seq(Result) : g = file
    OBVIOUS
  <2>2. file' = Append(g, r)
    BY <1>2, <2>1 DEF CaptureResult
  <2>3. /\ Append(g, r) \in Seq(Result) /\ Len(Append(g, r)) = Len(g) + 1
        /\ \A k \in 1..Len(g) : Append(g, r)[k] = g[k]
        /\ Append(g, r)[Len(g) + 1] = r
    BY AppendProperties
  <2>4. /\ Len(g) \in Nat /\ DOMAIN g = 1..Len(g)
        /\ DOMAIN Append(g, r) = 1..(Len(g) + 1)
    BY <2>3, LenProperties
  <2>5. \A k \in DOMAIN g : k \in DOMAIN Append(g, r) /\ Append(g, r)[k] = g[k]
    BY <2>3, <2>4
  <2>6. \A i : IsKept(i) => IsKept(i)'
    BY <2>1, <2>2, <2>5 DEF IsKept
  <2>7. r.crc_ok => IsKept(r.of)'
    <3>1. Len(g) + 1 \in DOMAIN Append(g, r)
      BY <2>4
    <3> QED
      BY <2>2, <2>3, <3>1 DEF IsKept
  <2>8. FileSound /\ r.crc_ok => FileSound'
    <3> SUFFICES ASSUME r.crc_ok, \A j \in DOMAIN g : g[j].crc_ok,
                        NEW j \in 1..(Len(g) + 1)
                 PROVE  Append(g, r)[j].crc_ok
      BY <2>1, <2>2, <2>4 DEF FileSound
    <3>1. CASE j = Len(g) + 1
      BY <2>3, <3>1
    <3>2. CASE j \in DOMAIN g
      BY <2>5, <3>2
    <3> QED
      BY <2>4, <3>1, <3>2
  <2> QED
    BY <1>2, <2>2, <2>3, <2>6, <2>7, <2>8
<1> QED
  BY <1>1, <1>2

LEMMA WholeIsWhole == \A f : WholeFrame(f) = Whole(f)
BY Zenon DEF WholeFrame, Whole, Magic4, Size

(* The line without its first byte *)
LEMMA OnWireTail ==
  ASSUME NEW l \in Seq(Byte), l # <<>>, NEW i, NEW f \in Frame, OnWire(l, i, f)
  PROVE  LET p == f.written - Size(l)
         IN  /\ p \in Nat /\ p < f.written /\ f.written <= Whole(f) /\ Whole(f) \in Nat
             /\ f.written \in Nat
             /\ Head(l) = ByteAt(i, f, p + 1)
             /\ OnWire(Tail(l), i, f) /\ f.written - Size(Tail(l)) = p + 1
             /\ Tail(l) = <<>> <=> p + 1 = f.written
<1>0. Size(l) \in Nat /\ Size(l) # 0
  BY SizeNat, EmptySize
<1>1. f.written \in Nat /\ f.payload \in Seq(Letter) /\ Size(f.payload) \in Nat
  BY SizeNat DEF Frame
<1>2. Whole(f) \in Nat
  BY <1>1, Numbers DEF Whole
<1>3. PICK n \in Nat : n = Size(l)
  BY <1>0
<1>4. /\ f.written <= Whole(f) /\ n <= f.written /\ n > 0
      /\ \A k \in 1..n : l[k] = ByteAt(i, f, f.written - n + k)
  BY <1>0, <1>3 DEF OnWire
<1> DEFINE t == Tail(l)
<1>5. /\ Head(l) = l[1] /\ t \in Seq(Byte) /\ Size(t) = Size(l) - 1
      /\ \A k \in 1..Size(t) : t[k] = l[k + 1]
  BY <1>3, <1>4, SizeTail
<1> HIDE DEF t
<1>6. Size(t) + 1 = n
  BY <1>3, <1>5
<1>7. PICK m \in Nat : m = Size(t)
  BY <1>5, SizeNat
<1>8. m + 1 = n /\ \A k \in 1..m : t[k] = l[k + 1]
  BY <1>5, <1>6, <1>7
<1>9. Head(l) = ByteAt(i, f, f.written - n + 1)
  BY <1>4, <1>5
<1>10. ASSUME NEW k \in 1..m
       PROVE  t[k] = ByteAt(i, f, f.written - m + k)
  <2>0. m + 1 = n /\ m \in Nat /\ k \in Nat /\ k >= 1 /\ k <= m
    BY <1>8
  <2>1. k + 1 \in 1..n
    BY <2>0
  <2>2. f.written - n + (k + 1) = f.written - m + k
    <3>1. \A v \in Nat : v - n + (k + 1) = v - m + k
      BY <2>0
    <3> QED
      BY <1>1, <3>1
  <2> QED
    BY <1>4, <1>8, <2>1, <2>2
<1>11. OnWire(t, i, f)
  <2>1. m <= f.written
    BY <1>1, <1>4, <1>8
  <2> QED
    BY <1>4, <1>7, <1>10, <2>1 DEF OnWire
<1>12. f.written - m = f.written - n + 1 /\ f.written - n \in Nat /\ f.written - n < f.written
  BY <1>1, <1>4, <1>8
<1>13. t = <<>> <=> m = 0
  BY <1>5, <1>7, EmptySize, NoSymbols
<1>14. m = 0 <=> f.written - n + 1 = f.written
  BY <1>1, <1>8
<1> QED
  BY <1>1, <1>2, <1>3, <1>4, <1>7, <1>9, <1>11, <1>12, <1>13, <1>14 DEF t

(* The frame of which a byte is on the line *)
LEMMA LineAhead ==
  ASSUME LinkInv, LineBytes, line # <<>>
  PROVE  LET i == Len(sent)
             f == sent[i]
             p == Transmitted
         IN  /\ i \in DOMAIN sent /\ i \in Nat /\ i # 0 /\ f = Newest(sent) /\ f \in Frame
             /\ DOMAIN sent = 1..i
             /\ p \in Nat /\ p < f.written /\ f.written <= Whole(f) /\ Whole(f) \in Nat
             /\ f.written \in Nat
             /\ Head(line) = ByteAt(i, f, p + 1)
             /\ OnWire(Tail(line), i, f) /\ f.written - Size(Tail(line)) = p + 1
             /\ Tail(line) = <<>> <=> p + 1 = f.written
             /\ f.written < Whole(f) => calm = 0
<1> DEFINE i == Len(sent)
           f == sent[i]
           p == Transmitted
<1>1. sent \in Seq(Frame) /\ sent # <<>> /\ line \in Seq(Byte)
  BY DEF LinkInv, TypeOK, LineBytes
<1>2. i \in Nat /\ i # 0 /\ DOMAIN sent = 1..i
  BY <1>1, LenProperties, EmptySeq
<1>3. i \in DOMAIN sent
  BY <1>2
<1>4. f \in Frame /\ f = Newest(sent)
  BY <1>1, <1>3, ElementOfSeq DEF Newest
<1>5. OnWire(line, i, f) /\ (f.written < Whole(f) => calm = 0)
  BY <1>1, <1>4 DEF LineBytes
<1>6. p = f.written - Size(line)
  BY Zenon, <1>4, SizeIsLen DEF Transmitted
<1> HIDE DEF i, f, p
<1>7. /\ p \in Nat /\ p < f.written /\ f.written <= Whole(f) /\ Whole(f) \in Nat
      /\ f.written \in Nat
      /\ Head(line) = ByteAt(i, f, p + 1)
      /\ OnWire(Tail(line), i, f) /\ f.written - Size(Tail(line)) = p + 1
      /\ Tail(line) = <<>> <=> p + 1 = f.written
  BY <1>1, <1>4, <1>5, <1>6, OnWireTail
<1> QED
  BY <1>2, <1>3, <1>4, <1>5, <1>7 DEF i, f, p

LEMMA LineGone ==
  ASSUME LinkInv, LineBytes, line # <<>>, line' = Tail(line), UNCHANGED sent,
         calm' = 0 \/ Newest(sent).written = Whole(Newest(sent))
  PROVE  LineBytes' /\ Transmitted' = Transmitted + 1
<1> DEFINE i == Len(sent)
           f == sent[i]
<1>1. /\ i \in DOMAIN sent /\ f = Newest(sent)
      /\ OnWire(Tail(line), i, f) /\ f.written - Size(Tail(line)) = Transmitted + 1
      /\ f.written \in Nat
  BY LineAhead
<1>2. sent # <<>>
  BY DEF LineBytes
<1>3. Len(sent') = i /\ Newest(sent') = f
  BY <1>1 DEF Newest
<1> HIDE DEF i, f
<1>4. OnWire(line', i, f)
  BY <1>1
<1>5. f.written < Whole(f) => calm' = 0
  BY <1>1, Numbers DEF Whole
<1>6. LineBytes'
  BY <1>2, <1>3, <1>4, <1>5 DEF LineBytes
<1>7. Transmitted' = f.written - Size(line')
  BY Zenon, <1>3, SizeIsLen DEF Transmitted
<1> QED
  BY <1>1, <1>6, <1>7

(* A call that goes on writes nothing; one that returns gives its result to *)
(* capture.                                                                  *)
LEMMA TakeKeeps ==
  ASSUME LinkInv, file \in Seq(Result), NEW b \in Byte, Take(b),
         UNCHANGED got \/ \E r \in Result : Returns(r)
  PROVE  /\ file' \in Seq(Result)
         /\ \A i : (IsGood(i) => IsGood(i)') /\ (IsKept(i) => IsKept(i)')
         /\ UNCHANGED got => UNCHANGED captureVars
         /\ \A r \in Result : Returns(r) => CaptureResult(r)
<1>1. /\ UNCHANGED got => UNCHANGED captureVars
      /\ \A r \in Result : Returns(r) => CaptureResult(r)
  BY ResultAdded DEF Take
<1>2. CASE UNCHANGED got
  <2>1. UNCHANGED <<got, file>>
    BY <1>1, <1>2 DEF captureVars
  <2> QED
    BY <1>1, <2>1 DEF IsGood, Good, IsKept
<1>3. CASE \E r \in Result : Returns(r)
  <2>1. PICK r \in Result : Returns(r)
    BY <1>3
  <2> QED
    BY <1>1, <2>1, ResultAdded, ResultKept
<1> QED
  BY <1>2, <1>3

(* A step that a fault spoils for the frames in lost *)
LEMMA FaultKeeps ==
  ASSUME LinkInv, SyncInv, UNCHANGED sent, NEW lost, Fault(lost), ended = "no",
         line # <<>> => lost = {Len(sent)}, line = <<>> => line' = <<>>,
         LineBytes', CallOk(rd'), rd' \in Call, file' \in Seq(Result),
         \A i : (IsGood(i) => IsGood(i)') /\ (IsKept(i) => IsKept(i)')
  PROVE  SyncInv'
<1>1. /\ faults \in Nat /\ faults' = faults + 1 /\ faults' # 0 /\ faults' \in Nat
      /\ calm' = 0 /\ calm' # Reach /\ calm' \in 0..Reach
      /\ safe' = safe \ lost
  BY Numbers DEF SyncInv, Fault
<1>2. Short' /\ SafeWhole'
  <2>1. Short /\ SafeWhole
    BY DEF SyncInv
  <2> QED
    BY <1>1, <2>1 DEF Short, SafeWhole
<1>3. ASSUME Undisturbed'
      PROVE  ReaderInv'
  <2>1. ReaderInv
    <3>1. PayloadsPlain
      BY <1>1, <1>3 DEF Undisturbed, PayloadsPlain
    <3> QED
      BY <3>1 DEF SyncInv, Undisturbed
  <2>2. Debt(rd') + calm' <= Reach
    BY <1>1, DebtBound
  <2>3. Len(sent') = Len(sent)
    OBVIOUS
  <2>4. line' # <<>> => Len(sent') \notin safe'
    BY <1>1, <2>3
  <2>5. ASSUME NEW i \in safe', Over(i)'
        PROVE  IsGood(i)' /\ (Follows(i)' => IsKept(i)')
    <3>1. i \in safe /\ (Follows(i)' => Follows(i))
      BY <1>1 DEF Follows
    <3>2. DOMAIN sent = 1..Len(sent) /\ Len(sent) \in Nat
      BY LenProperties DEF LinkInv, TypeOK
    <3>3. i \in 1..Len(sent)
      BY <3>1, <3>2 DEF SyncInv, SafeWhole
    <3>4. Over(i)
      <4>1. i < Len(sent) \/ line' = <<>>
        BY <2>3, <2>5 DEF Over
      <4>2. CASE i < Len(sent)
        BY <4>2 DEF Over
      <4>3. CASE ~(i < Len(sent))
        <5>1. i = Len(sent)
          <6>1. PICK n \in Nat : n = Len(sent)
            BY <3>2
          <6> QED
            BY <3>3, <4>3, <6>1
        <5>2. line = <<>>
          BY <1>1, <5>1
        <5> QED
          BY <5>2 DEF Over
      <4> QED
        BY <4>2, <4>3
    <3> QED
      BY <2>1, <3>1, <3>4 DEF ReaderInv
  <2> QED
    BY <1>1, <2>2, <2>4, <2>5 DEF ReaderInv
<1> QED
  BY <1>1, <1>2, <1>3 DEF SyncInv

(* The reader takes the next byte of the frame on the line. *)
LEMMA DeliverKeeps ==
  ASSUME LinkInv, SyncInv, Deliver, rd' \in Call
  PROVE  SyncInv'
<1>0. PICK i \in Nat : i = Len(sent)
  BY LenProperties DEF LinkInv, TypeOK
<1> DEFINE f == sent[i]
           p == Transmitted
           b == Head(line)
<1>1. /\ i \in DOMAIN sent /\ i # 0 /\ f = Newest(sent) /\ f \in Frame
      /\ DOMAIN sent = 1..i
      /\ p \in Nat /\ p < f.written /\ f.written <= Whole(f) /\ Whole(f) \in Nat
      /\ f.written \in Nat
      /\ b = ByteAt(i, f, p + 1)
      /\ Tail(line) = <<>> <=> p + 1 = f.written
      /\ f.written < Whole(f) => calm = 0
  BY <1>0, LineAhead DEF SyncInv, Deliver
<1>2. /\ line # <<>> /\ line' = Tail(line) /\ UNCHANGED <<seq_counter, sent, faults, safe>>
      /\ Take(b) /\ Read(b) /\ ended = "no"
  BY DEF Deliver, Take
<1>3. calm' = IF f.written = Whole(f) /\ calm < Reach THEN calm + 1 ELSE calm
  BY <1>1, WholeIsWhole DEF Deliver
<1> HIDE DEF f, p, b
<1>4. /\ calm \in 0..Reach /\ calm' \in 0..Reach /\ calm' <= calm + 1
      /\ f.written < Whole(f) => calm' = 0
      /\ faults = 0 => calm = Reach /\ calm' = Reach
  <2>1. calm \in 0..Reach /\ (faults = 0 => calm = Reach) /\ Reach \in Nat
    BY Numbers DEF SyncInv
  <2> QED
    BY <1>1, <1>3, <2>1
<1>5. LineBytes' /\ Transmitted' = p + 1 /\ (line' = <<>> <=> p + 1 = f.written)
  <2>1. calm' = 0 \/ f.written = Whole(f)
    BY <1>1, <1>4
  <2>2. calm' = 0 \/ Newest(sent).written = Whole(Newest(sent))
    BY <1>1, <2>1
  <2> QED
    BY <1>1, <1>2, <2>2, LineGone DEF SyncInv, p
<1>6. b \in Byte
  <2>1. line \in Seq(Byte) /\ InOrder(line)
    BY DEF LinkInv, TypeOK, LineInv
  <2> QED
    BY <1>2, <2>1, TailHeaders DEF b
<1>7. /\ CallOk(rd')
      /\ UNCHANGED got \/ \E r \in Result : Returns(r)
      /\ rd.pc # "magic" => Debt(rd') + 1 <= Debt(rd)
      /\ rd.pc = "magic" /\ Slide(rd.window, b.sym) # Magic => rd'.pc = "magic"
  <2>1. Short /\ CallOk(rd)
    BY DEF SyncInv
  <2> QED
    BY <1>2, <1>6, <2>1, AnyStep
<1>8. /\ file' \in Seq(Result)
      /\ \A j : (IsGood(j) => IsGood(j)') /\ (IsKept(j) => IsKept(j)')
      /\ UNCHANGED got => UNCHANGED captureVars
      /\ \A r \in Result : Returns(r) => CaptureResult(r)
  BY <1>2, <1>6, <1>7, TakeKeeps DEF SyncInv
<1>9. /\ i \in DOMAIN sent /\ p < Whole(f)
      /\ Debt(rd) \in Nat /\ Debt(rd') \in Nat /\ Debt(rd') <= Reach
  BY <1>1, <1>7, DebtBound DEF SyncInv, LinkInv, TypeOK
<1>16. calm \in Nat /\ calm' \in Nat /\ calm' <= Reach /\ Reach \in Nat
  BY <1>4, Numbers
<1>17. \A d, e, c, g, m \in Nat :
         /\ d = 0 /\ c <= m => d + c <= m
         /\ d + 1 <= e /\ c <= g + 1 /\ e + g <= m => d + c <= m
  OBVIOUS
<1>10. ASSUME InStep(rd, i, f, p)
       PROVE  \/ /\ p + 1 < Whole(f) /\ UNCHANGED got
                 /\ InStep(rd', i, f, p + 1)
                 /\ Straight(rd, p) => Straight(rd', p + 1)
              \/ /\ p + 1 = Whole(f)
                 /\ \E r \in Result :
                      /\ Returns(r) /\ r.of = i /\ r.crc_ok
                      /\ Straight(rd, p) => r.result = "OK"
  BY <1>1, <1>2, <1>9, <1>10, StepOn DEF SyncInv, f
<1>11. Inside <=> InStep(rd, i, f, p)
  BY <1>0, <1>1 DEF Inside, p
<1>12. ASSUME Undisturbed'
       PROVE  Undisturbed /\ ReaderInv
  BY <1>2, <1>12 DEF Undisturbed, PayloadsPlain, SyncInv
<1>13. ASSUME Undisturbed'
       PROVE  ReaderInv'
  <2>1. ReaderInv /\ Undisturbed /\ SafeWhole
    BY <1>12, <1>13 DEF SyncInv
  <2>2. Len(sent') = i /\ safe' = safe /\ \A j : Follows(j)' <=> Follows(j)
    BY <1>0, <1>2 DEF Follows
  <2>3. ASSUME NEW j \in safe, j # i
        PROVE  IsGood(j)' /\ (Follows(j) => IsKept(j)')
    <3>1. j < i
      BY <1>1, <2>1, <2>3 DEF SafeWhole
    <3>2. IsGood(j) /\ (Follows(j) => IsKept(j))
      BY <1>0, <2>1, <3>1 DEF ReaderInv, Over
    <3> QED
      BY <1>8, <3>2
  <2>4. (i \in safe => InStep(rd, i, f, p)) /\ (i \in safe /\ Follows(i) => Straight(rd, p))
    BY <1>0, <1>2, <1>11, <2>1 DEF ReaderInv, p
  <2>5. Inside' <=> InStep(rd', i, f, p + 1)
    <3>1. Newest(sent') = f
      BY <1>1, <1>2 DEF Newest
    <3> QED
      BY <1>5, <2>2, <3>1 DEF Inside
  <2>6. CASE InStep(rd, i, f, p) /\ UNCHANGED got
    <3>1. /\ p + 1 < Whole(f) /\ InStep(rd', i, f, p + 1)
          /\ Straight(rd, p) => Straight(rd', p + 1)
      <4>1. ~\E r \in Result : Returns(r)
        BY <2>6, ResultAdded
      <4> QED
        BY <1>10, <2>6, <4>1
    <3>2. line' = <<>> => calm' = 0 /\ i \notin safe
      <4> SUFFICES ASSUME line' = <<>> PROVE f.written < Whole(f) /\ i \notin safe
        BY <1>4
      <4>1. f.written < Whole(f)
        BY <1>1, <1>5, <3>1
      <4>2. f.written # Whole(f)
        BY <1>1, <4>1
      <4> QED
        BY <2>1, <4>1, <4>2 DEF SafeWhole, f
    <3>3. (line' # <<>> /\ Inside') \/ Debt(rd') + calm' <= Reach
      BY <1>9, <2>5, <3>1, <3>2
    <3>4. ~(line' = <<>> /\ calm' = Reach)
      BY <3>2, Numbers
    <3>5. line' # <<>> /\ i \in safe => Inside' /\ (Follows(i) => Straight(rd, p))
      BY <2>4, <2>5, <3>1
    <3>6. Transmitted' = p + 1
      BY <1>5
    <3>7. \A j \in safe : Over(j)' => IsGood(j)' /\ (Follows(j) => IsKept(j)')
      <4> TAKE j \in safe
      <4>1. CASE j # i
        BY <2>3, <4>1
      <4>2. CASE j = i
        <5>1. line' # <<>>
          BY <3>2, <4>2
        <5>2. ~(i < i)
          BY <1>1
        <5> QED
          BY <2>2, <4>2, <5>1, <5>2 DEF Over
      <4> QED
        BY <4>1, <4>2
    <3>8. Straight(rd, p) => Straight(rd', Transmitted')
      BY <3>1, <3>6
    <3> QED
      BY <2>2, <3>3, <3>4, <3>5, <3>7, <3>8 DEF ReaderInv
  <2>7. ASSUME NEW r \in Result, Returns(r), p + 1 = Whole(f), r.of = i, r.crc_ok,
               Straight(rd, p) => r.result = "OK"
        PROVE  ReaderInv'
    <3>1. line' = <<>> /\ rd' = NewCall
      BY <1>1, <1>5, <2>7 DEF Returns
    <3>2. Debt(rd') + calm' <= Reach
      <4>1. Debt(rd') = 0
        BY <3>1, FreshCall, Zenon
      <4> QED
        BY <1>9, <1>16, <1>17, <4>1, Zenon
    <3>3. IsGood(i)' /\ (i \in safe /\ Follows(i) => IsKept(i)')
      <4>1. IsGood(i)'
        BY <2>7, ResultAdded
      <4>2. CaptureResult(r) /\ file \in Seq(Result)
        BY <1>8, <2>7 DEF SyncInv
      <4>3. r.result = "OK" => IsKept(i)'
        BY <2>7, <4>2, ResultKept
      <4> QED
        BY <2>4, <2>7, <4>1, <4>3
    <3>4. \A j \in safe : IsGood(j)' /\ (Follows(j) => IsKept(j)')
      <4> TAKE j \in safe
      <4>1. CASE j # i
        BY <2>3, <4>1
      <4>2. CASE j = i
        BY <3>3, <4>2
      <4> QED
        BY <4>1, <4>2
    <3> QED
      BY <2>2, <3>1, <3>2, <3>4 DEF ReaderInv
  <2>8. CASE ~InStep(rd, i, f, p)
    <3>1. i \notin safe /\ Debt(rd) + calm <= Reach
      BY <1>11, <2>1, <2>4, <2>8 DEF ReaderInv
    <3>2. ASSUME rd.pc = "magic"
          PROVE  Debt(rd') + calm' <= Reach
      <4>1. PayloadsPlain
        BY <1>1, <2>1, <3>1 DEF SyncInv, Undisturbed
      <4>2. \A k \in DOMAIN f.payload : f.payload[k] # "1"
        BY <1>1, <4>1, MagicLetters DEF PayloadsPlain, f
      <4>3. Slide(rd.window, b.sym) # Magic
        BY <1>1, <1>9, <2>8, <3>2, <4>2, NoMagic DEF SyncInv, f
      <4>4. Debt(rd') = 0
        BY <1>7, <3>2, <4>3 DEF Debt
      <4> QED
        BY <1>9, <1>16, <1>17, <4>4, Zenon
    <3>3. ASSUME rd.pc # "magic"
          PROVE  Debt(rd') + calm' <= Reach
      BY <1>4, <1>7, <1>9, <1>16, <1>17, <3>1, <3>3, Zenon
    <3>4. Debt(rd') + calm' <= Reach
      BY <3>2, <3>3, Zenon
    <3>5. \A j \in safe : IsGood(j)' /\ (Follows(j) => IsKept(j)')
      BY <2>3, <3>1
    <3> QED
      BY <1>1, <2>2, <3>1, <3>4, <3>5 DEF ReaderInv
  <2> QED
    BY <1>10, <2>6, <2>7, <2>8
<1>14. faults' = 0 => /\ calm' = Reach /\ safe' = DOMAIN sent'
                      /\ FileSound'
  <2> SUFFICES ASSUME faults' = 0
               PROVE  calm' = Reach /\ safe' = DOMAIN sent' /\ FileSound'
    OBVIOUS
  <2>1. faults = 0 /\ safe = DOMAIN sent /\ FileSound /\ ReaderInv
    BY <1>2 DEF SyncInv, Undisturbed
  <2>2. InStep(rd, i, f, p)
    <3>1. Len(sent) \in safe /\ line # <<>>
      BY <1>0, <1>1, <1>2, <2>1
    <3>2. Inside
      BY <2>1, <3>1 DEF ReaderInv
    <3> QED
      BY <1>11, <3>2
  <2>3. ASSUME UNCHANGED got
        PROVE  FileSound'
    BY <1>8, <2>1, <2>3 DEF captureVars, FileSound
  <2>4. ASSUME \E r \in Result : Returns(r) /\ r.crc_ok
        PROVE  FileSound'
    <3>1. PICK r \in Result : Returns(r) /\ r.crc_ok
      BY <2>4
    <3>2. CaptureResult(r) /\ file \in Seq(Result)
      BY <1>8, <3>1 DEF SyncInv
    <3> QED
      BY <2>1, <3>1, <3>2, ResultKept
  <2>5. FileSound'
    BY <1>10, <2>2, <2>3, <2>4
  <2> QED
    BY <1>2, <1>4, <2>1, <2>5
<1>15. faults' \in Nat /\ Short' /\ SafeWhole'
  <2>1. faults \in Nat /\ Short /\ SafeWhole
    BY DEF SyncInv
  <2> QED
    BY <1>2, <2>1 DEF Short, SafeWhole
<1> QED
  BY <1>4, <1>5, <1>7, <1>8, <1>13, <1>14, <1>15 DEF SyncInv

(* A frame is put on the line, which is empty. *)
LEMMA SendKeepsSync ==
  ASSUME LinkInv, SyncInv, NEW m \in Message, NEW n \in Nat, n <= WholeFrame(m), Send(m, n)
  PROVE  SyncInv'
<1> DEFINE f == [type |-> m.type, payload |-> m.payload,
                 seq |-> NextSeq(seq_counter), written |-> n]
<1>0. PICK o \in Nat : o = Len(sent)
  BY LenProperties DEF LinkInv, TypeOK
<1>1. /\ ended = "no" /\ ended' = "no" /\ line = <<>>
      /\ sent' = Append(sent, f) /\ Accepts(m)
      /\ line' = SubSeq(Wire(o + 1, m.payload), 1, n) /\ n <= Len(Wire(o + 1, m.payload))
      /\ UNCHANGED <<rd, got, file>>
  BY <1>0 DEF Send, SendFrame, readerVars, captureVars
<1>2. \/ /\ n = WholeFrame(m)
         /\ safe' = IF calm = Reach THEN safe \cup {o + 1} ELSE safe
         /\ UNCHANGED <<faults, calm>>
      \/ /\ n < WholeFrame(m) /\ n # WholeFrame(m)
         /\ faults' = faults + 1 /\ calm' = 0 /\ safe' = safe \ {}
  <2>1. WholeFrame(m) \in Nat
    <3>1. m.payload \in Seq(Letter)
      BY MTV1StreamAssumption
    <3>2. Size(m.payload) \in Nat
      BY <3>1, SizeNat
    <3>3. WholeFrame(m) = Magic4 + HeaderLen + Size(m.payload)
      BY Zenon DEF WholeFrame, Magic4, Size
    <3> QED
      BY <3>2, <3>3, Numbers
  <2> QED
    BY <1>0, <2>1 DEF Send, Fault
<1>3. f \in Frame /\ f.written = n /\ f.payload = m.payload
  <2>1. m.type \in FrameType /\ m.payload \in Seq(Letter)
    BY MTV1StreamAssumption DEF FrameType
  <2> QED
    BY <2>1, NextSeqRange DEF Frame, LinkInv, TypeOK
<1>4. WholeFrame(m) = Whole(f)
  BY <1>3, Zenon DEF WholeFrame, Whole, Magic4, Size
<1> HIDE DEF f
<1>5. /\ Len(sent') = o + 1 /\ DOMAIN sent = 1..o /\ DOMAIN sent' = 1..(o + 1)
      /\ \A k \in 1..o : sent'[k] = sent[k]
      /\ sent'[o + 1] = f
  BY <1>0, <1>1, <1>3, AppendProperties, LenProperties DEF LinkInv, TypeOK
<1>6. Newest(sent') = f /\ sent' # <<>>
  BY <1>5 DEF Newest
<1>7. /\ Size(f.payload) \in Nat /\ Whole(f) \in Nat /\ Whole(f) > 0
      /\ Size(f.payload) <= MaxLen
  <2>1. Size(f.payload) \in Nat
    BY <1>3, SizeNat DEF Frame
  <2>2. Whole(f) = 4 + HeaderLen + Size(f.payload)
    BY Numbers DEF Whole
  <2>3. Size(m.payload) <= TxMax
    BY <1>1, SizeIsLen DEF Accepts
  <2> QED
    BY <1>3, <2>1, <2>2, <2>3, Numbers, MTV1ReaderAssumption, MTV1StreamAssumption
<1>8. /\ line' \in Seq(Byte) /\ Size(line') = n /\ n <= Whole(f)
      /\ \A k \in 1..n : line'[k] = ByteAt(o + 1, f, k)
  BY <1>0, <1>1, <1>3, WireBytes
<1>9. LineBytes'
  <2>1. \A k \in 1..n : n - n + k = k
    OBVIOUS
  <2>2. OnWire(line', o + 1, f)
    BY <1>3, <1>8, <2>1 DEF OnWire
  <2>3. f.written < Whole(f) => calm' = 0
    BY <1>2, <1>3, <1>4, <1>7
  <2> QED
    BY <1>5, <1>6, <2>2, <2>3 DEF LineBytes
<1>10. calm \in 0..Reach /\ calm' \in 0..Reach /\ faults \in Nat /\ faults' \in Nat /\ Reach \in Nat
       /\ Reach > 0
  BY <1>2, Numbers DEF SyncInv
<1>11. Short'
  <2>1. Short
    BY DEF SyncInv
  <2>2. ASSUME NEW k \in DOMAIN sent'
        PROVE  Size(sent'[k].payload) <= MaxLen
    <3>1. CASE k = o + 1
      BY <1>5, <1>7, <3>1
    <3>2. CASE k # o + 1
      <4>1. k \in 1..o
        BY <1>5, <3>2
      <4> QED
        BY <1>5, <2>1, <4>1 DEF Short
    <3> QED
      BY <3>1, <3>2
  <2> QED
    BY <2>2 DEF Short
<1>12. o + 1 \notin safe /\ safe \subseteq 1..o /\ safe' \subseteq safe \cup {o + 1}
  <2>1. \A k \in safe : k \in 1..o
    BY <1>5 DEF SyncInv, SafeWhole
  <2> QED
    BY <1>2, <2>1
<1>13. SafeWhole'
  <2>1. ASSUME NEW k \in safe'
        PROVE  k \in DOMAIN sent' /\ sent'[k].written = Whole(sent'[k])
    <3>1. CASE k = o + 1
      <4>1. n = Whole(f)
        BY <1>2, <1>4, <1>12, <3>1
      <4> QED
        BY <1>3, <1>5, <3>1, <4>1
    <3>2. CASE k # o + 1
      <4>1. k \in safe /\ k \in 1..o
        BY <1>12, <3>2
      <4> QED
        BY <1>5, <4>1 DEF SyncInv, SafeWhole
    <3> QED
      BY <3>1, <3>2
  <2> QED
    BY <2>1 DEF SafeWhole
<1>14. faults' = 0 => /\ faults = 0 /\ calm' = Reach /\ safe' = DOMAIN sent' /\ FileSound'
  <2> SUFFICES ASSUME faults' = 0
               PROVE  faults = 0 /\ calm' = Reach /\ safe' = DOMAIN sent' /\ FileSound'
    OBVIOUS
  <2>1. /\ faults = 0 /\ calm' = calm
        /\ safe' = IF calm = Reach THEN safe \cup {o + 1} ELSE safe
    BY <1>2, <1>10
  <2>2. calm = Reach /\ safe = 1..o /\ FileSound
    BY <1>5, <2>1 DEF SyncInv
  <2> QED
    BY <1>1, <1>5, <2>1, <2>2 DEF FileSound
<1>15. Undisturbed' => Undisturbed
  <2>1. PayloadsPlain' => PayloadsPlain
    BY <1>5 DEF PayloadsPlain
  <2> QED
    BY <1>1, <1>14, <2>1 DEF Undisturbed
<1>16. ASSUME Undisturbed'
       PROVE  ReaderInv'
  <2>1. ReaderInv
    BY <1>15, <1>16 DEF SyncInv
  <2>2. Debt(rd) + calm <= Reach
    BY <1>1, <2>1 DEF ReaderInv
  <2>3. Debt(rd) \in Nat /\ Debt(rd) <= Reach /\ (Debt(rd) = 0 <=> rd.pc = "magic")
    BY DebtBound DEF LinkInv, TypeOK, SyncInv
  <2>4. Debt(rd') + calm' <= Reach
    <3>1. \A d, r \in Nat : d <= r => d + 0 <= r
      OBVIOUS
    <3> QED
      BY <1>1, <1>2, <1>10, <2>2, <2>3, <3>1, Zenon
  <2>5. ASSUME o + 1 \in safe'
        PROVE  /\ calm = Reach /\ rd.pc = "magic" /\ line' # <<>>
    <3>1. calm = Reach /\ n = Whole(f)
      BY <1>2, <1>4, <1>12, <2>5
    <3>2. rd.pc = "magic"
      <4>1. \A d, r \in Nat : d + r <= r => d = 0
        OBVIOUS
      <4>2. Debt(rd) = 0
        BY <1>10, <2>2, <2>3, <3>1, <4>1, Zenon
      <4> QED
        BY <2>3, <4>2
    <3>3. Size(line') # 0
      BY <1>7, <1>8, <3>1
    <3>4. line' # <<>>
      BY <3>3, NoSymbols
    <3> QED
      BY <3>1, <3>2, <3>4
  <2>6. \A k \in 1..(o + 1) : Follows(k)' => Follows(k)
    <3> TAKE k \in 1..(o + 1)
    <3>1. k - 1 # o + 1
      OBVIOUS
    <3> QED
      BY <1>12, <3>1 DEF Follows
  <2>7. ASSUME o + 1 \in safe'
        PROVE  Inside' /\ (Follows(o + 1)' => Straight(rd', Transmitted'))
    <3>1. Transmitted' = 0
      <4>1. Transmitted' = f.written - Size(line')
        BY <1>6, SizeIsLen, Zenon DEF Transmitted
      <4> QED
        BY <1>3, <1>8, <4>1
    <3>2. InStep(rd', o + 1, f, 0)
      <4>1. rd'.pc = "magic"
        BY <1>1, <2>5, <2>7
      <4>2. Ends(rd'.window, 0)
        <5>1. rd'.window \in Seq(Sym)
          BY <1>1 DEF LinkInv, TypeOK, Call
        <5>2. Size(rd'.window) \in Nat
          BY <5>1, SizeNat
        <5> QED
          BY <5>2 DEF Ends
      <4> QED
        BY <4>1, <4>2, Numbers DEF InStep
    <3>3. ASSUME Follows(o + 1)'
          PROVE  Straight(rd', 0)
      <4>1. Follows(o + 1)
        BY <2>6, <3>3
      <4>2. o \in safe \cup {0}
        BY <4>1 DEF Follows
      <4>3. rd = NewCall
        BY <1>0, <1>1, <2>1, <2>5, <2>7, <4>2 DEF ReaderInv
      <4> QED
        BY <1>1, <4>3, FreshCall DEF Straight
    <3> QED
      BY <1>5, <1>6, <3>1, <3>2, <3>3 DEF Inside
  <2>8. ASSUME NEW k \in safe', Over(k)'
        PROVE  IsGood(k)' /\ (Follows(k)' => IsKept(k)')
    <3>1. k # o + 1
      <4> SUFFICES ASSUME k = o + 1 PROVE FALSE
        OBVIOUS
      <4>1. line' # <<>>
        BY <2>5
      <4>2. o + 1 < o + 1
        BY <1>5, <2>8, <4>1 DEF Over
      <4> QED
        BY <4>2
    <3>2. k \in safe /\ k \in 1..(o + 1)
      BY <1>12, <3>1
    <3>3. IsGood(k) /\ (Follows(k) => IsKept(k))
      BY <1>1, <2>1, <3>2 DEF ReaderInv, Over
    <3> QED
      BY <1>1, <2>6, <3>2, <3>3 DEF IsGood, Good, IsKept
  <2>9. ~(line' = <<>> /\ calm' = Reach /\ o + 1 \in safe' \cup {0})
    <3> SUFFICES ASSUME line' = <<>>, calm' = Reach, o + 1 \in safe' PROVE FALSE
      OBVIOUS
    <3> QED
      BY <2>5
  <2> QED
    BY <1>5, <2>4, <2>7, <2>8, <2>9 DEF ReaderInv
<1>17. CallOk(rd') /\ file' \in Seq(Result)
  BY <1>1 DEF SyncInv
<1> QED
  BY <1>9, <1>10, <1>11, <1>13, <1>14, <1>16, <1>17 DEF SyncInv

(* A byte of the frame on the line is lost, changed, or comes from nowhere. *)
LEMMA LoseKeepsSync ==
  ASSUME LinkInv, SyncInv, Lose
  PROVE  SyncInv'
<1>1. /\ ended = "no" /\ line # <<>> /\ line' = Tail(line) /\ Fault({Len(sent)})
      /\ UNCHANGED <<sent, rd, got, file>>
  BY DEF Lose, readerVars, captureVars
<1>2. LineBytes'
  BY <1>1, LineGone DEF SyncInv, Fault
<1>3. CallOk(rd') /\ rd' \in Call /\ file' \in Seq(Result)
  BY <1>1 DEF SyncInv, LinkInv, TypeOK
<1>4. \A i : (IsGood(i) => IsGood(i)') /\ (IsKept(i) => IsKept(i)')
  BY <1>1 DEF IsGood, Good, IsKept
<1> QED
  BY <1>1, <1>2, <1>3, <1>4, FaultKeeps

LEMMA TakeKeepsCall ==
  ASSUME LinkInv, SyncInv, NEW b \in Byte, Take(b), rd' \in Call
  PROVE  /\ CallOk(rd') /\ file' \in Seq(Result) /\ ended = "no"
         /\ UNCHANGED got \/ \E r \in Result : Returns(r)
         /\ \A i : (IsGood(i) => IsGood(i)') /\ (IsKept(i) => IsKept(i)')
<1>1. Read(b) /\ Short /\ CallOk(rd) /\ ended = "no" /\ file \in Seq(Result)
  BY DEF Take, SyncInv
<1>2. CallOk(rd') /\ (UNCHANGED got \/ \E r \in Result : Returns(r))
  BY <1>1, AnyStep
<1> QED
  BY <1>1, <1>2, TakeKeeps

LEMMA CorruptKeepsSync ==
  ASSUME LinkInv, SyncInv, NEW sym \in NoiseSym, Corrupt(sym), rd' \in Call
  PROVE  SyncInv'
<1>1. /\ line # <<>> /\ line' = Tail(line) /\ Fault({Len(sent)}) /\ UNCHANGED sent
      /\ Take(Plain(sym)) /\ Plain(sym) \in Byte
  BY PlainTaken DEF Corrupt
<1>2. LineBytes'
  BY <1>1, LineGone DEF SyncInv, Fault
<1>3. /\ CallOk(rd') /\ file' \in Seq(Result) /\ ended = "no"
      /\ \A i : (IsGood(i) => IsGood(i)') /\ (IsKept(i) => IsKept(i)')
  BY <1>1, TakeKeepsCall
<1> QED
  BY <1>1, <1>2, <1>3, FaultKeeps

LEMMA NoiseKeepsSync ==
  ASSUME LinkInv, SyncInv, NEW sym \in NoiseSym, Noise(sym), rd' \in Call
  PROVE  SyncInv'
<1> DEFINE lost == IF line = <<>> THEN {} ELSE {Len(sent)}
<1>1. /\ UNCHANGED <<sent, line>> /\ Fault(lost)
      /\ Take(Plain(sym)) /\ Plain(sym) \in Byte
  BY PlainTaken DEF Noise, streamVars
<1>2. LineBytes'
  <2>1. LineBytes /\ calm' = 0
    BY <1>1 DEF SyncInv, Fault
  <2> QED
    BY <1>1, <2>1 DEF LineBytes
<1>3. /\ CallOk(rd') /\ file' \in Seq(Result) /\ ended = "no"
      /\ \A i : (IsGood(i) => IsGood(i)') /\ (IsKept(i) => IsKept(i)')
  BY <1>1, TakeKeepsCall
<1>4. (line # <<>> => lost = {Len(sent)}) /\ (line = <<>> => line' = <<>>)
  BY <1>1
<1> HIDE DEF lost
<1> QED
  BY <1>1, <1>2, <1>3, <1>4, FaultKeeps

(* The capture ends where its source has nothing more. *)
LEMMA NoByteKeepsSync ==
  ASSUME LinkInv, SyncInv, NoByte
  PROVE  SyncInv' /\ UNCHANGED file
<1>1. UNCHANGED <<sent, line, faults, calm, safe>>
  BY DEF NoByte, streamVars, faultVars
<1> DEFINE r == [result |-> "EOF", type |-> "none", payload |-> <<>>,
                 skipped |-> IF rd.pc = "magic" THEN 0 ELSE rd.resync,
                 of |-> 0, crc_ok |-> FALSE]
<1>2. Returns(r) /\ r \in Result /\ r.result = "EOF"
  <2>1. rd.resync \in Nat /\ <<>> \in Seq(Sym)
    BY EmptySeq DEF LinkInv, TypeOK, Call
  <2>2. Returns(r)
    BY DEF NoByte, EndOfInput, ReturnNothing
  <2>3. r \in Result
    BY <2>1 DEF Result
  <2> QED
    BY <2>2, <2>3
<1> HIDE DEF r
<1>3. Newest(got') = r /\ rd' = NewCall
  BY <1>2, ResultAdded DEF Returns
<1>4. file' = file /\ ended' = "EOF"
  BY <1>2, <1>3 DEF NoByte, CaptureResult
<1>5. CallOk(rd')
  BY <1>3, FreshCall
<1>6. ~Undisturbed'
  BY <1>4 DEF Undisturbed
<1>7. /\ calm' \in 0..Reach /\ faults' \in Nat /\ file' \in Seq(Result)
      /\ Short' /\ SafeWhole' /\ LineBytes'
      /\ faults' = 0 => calm' = Reach /\ safe' = DOMAIN sent' /\ FileSound'
  BY <1>1, <1>4 DEF SyncInv, Short, SafeWhole, LineBytes, FileSound
<1> QED
  BY <1>4, <1>5, <1>6, <1>7 DEF SyncInv

(* The reader takes a byte, or nothing happens to it. *)
LEMMA NextKeepsSync ==
  ASSUME LinkInv, SyncInv, [Next]_linkVars, LinkInv'
  PROVE  SyncInv'
<1>1. rd' \in Call
  BY DEF LinkInv, TypeOK
<1>2. ASSUME NEW m \in Message, NEW n \in 0..WholeFrame(m), Send(m, n)
      PROVE  SyncInv'
  <2>1. n \in Nat /\ n <= WholeFrame(m)
    <3>1. m.payload \in Seq(Letter)
      BY MTV1StreamAssumption
    <3>2. Size(m.payload) \in Nat
      BY <3>1, SizeNat
    <3>3. WholeFrame(m) = Magic4 + HeaderLen + Size(m.payload)
      BY Zenon DEF WholeFrame, Magic4, Size
    <3>4. WholeFrame(m) \in Nat
      BY <3>2, <3>3, Numbers
    <3> QED
      BY <3>4
  <2> QED
    BY <1>2, <2>1, SendKeepsSync
<1>3. CASE Deliver
  BY <1>1, <1>3, DeliverKeeps
<1>4. CASE Lose
  BY <1>4, LoseKeepsSync
<1>5. ASSUME NEW sym \in NoiseSym, Corrupt(sym)
      PROVE  SyncInv'
  BY <1>1, <1>5, CorruptKeepsSync
<1>6. ASSUME NEW sym \in NoiseSym, Noise(sym)
      PROVE  SyncInv'
  BY <1>1, <1>6, NoiseKeepsSync
<1>7. CASE NoByte
  BY <1>7, NoByteKeepsSync
<1>8. CASE UNCHANGED linkVars
  <2>1. UNCHANGED <<seq_counter, sent, line, rd, got, file, ended, faults, calm, safe>>
    BY <1>8 DEF linkVars, streamVars, readerVars, captureVars, faultVars
  <2> QED
    BY <2>1 DEF SyncInv, Short, SafeWhole, LineBytes, CallOk, FileSound, Undisturbed,
                PayloadsPlain, ReaderInv, Inside, Transmitted, Straight, Follows, Over,
                IsGood, Good, IsKept, InStep
<1> QED
  BY <1>2, <1>3, <1>4, <1>5, <1>6, <1>7, <1>8 DEF Next

(* The inductive invariant of the resynchronisation holds in every          *)
(* reachable state.                                                          *)
THEOREM SyncInvariant == Spec => []SyncInv
<1>1. Init => SyncInv
  <2> SUFFICES ASSUME Init PROVE SyncInv
    OBVIOUS
  <2>1. /\ sent = <<>> /\ line = <<>> /\ rd = NewCall /\ got = <<>> /\ file = <<>>
        /\ faults = 0 /\ calm = Reach /\ safe = {}
    BY DEF Init, StreamInit, ReaderInit
  <2>2. <<>> \in Seq(Result) /\ DOMAIN sent = {}
    BY <2>1, EmptySeq
  <2>3. Short /\ SafeWhole /\ FileSound /\ LineBytes
    BY <2>1, <2>2 DEF Short, SafeWhole, FileSound, LineBytes
  <2>4. CallOk(rd) /\ Debt(rd) + calm <= Reach
    <3>1. CallOk(rd) /\ Debt(rd) = 0
      BY <2>1, FreshCall, Zenon
    <3>2. \A r \in Nat : 0 + r <= r
      OBVIOUS
    <3> QED
      BY <2>1, <3>1, <3>2, Numbers, Zenon
  <2>5. ReaderInv
    BY <2>1, <2>4 DEF ReaderInv
  <2> QED
    BY <2>1, <2>2, <2>3, <2>4, <2>5, Numbers DEF SyncInv
<1>2. LinkInv /\ SyncInv /\ [Next]_linkVars /\ LinkInv' => SyncInv'
  BY NextKeepsSync
<1> QED
  BY <1>1, <1>2, LinkInvariant, PTL DEF Spec

(* A result is added to the file, or not. *)
LEMMA FileGrows ==
  ASSUME LinkInv, LinkInv', FileInv, file \in Seq(Result), NEW r \in Result,
         Returns(r), CaptureResult(r)
  PROVE  FileInv'
<1>1. \A i : IsGood(i) => IsGood(i)'
  BY ResultAdded
<1>2. CASE file' = file
  BY <1>1, <1>2 DEF FileInv
<1>3. CASE file' = Append(file, r)
  <2>0. PICK n \in Nat : n = Len(file)
    BY LenProperties
  <2>1. /\ DOMAIN file = 1..n /\ DOMAIN file' = 1..(n + 1) /\ file'[n + 1] = r
        /\ \A j \in 1..n : file'[j] = file[j]
    BY <1>3, <2>0, AppendProperties, LenProperties
  <2>2. ASSUME NEW i, IsGood(i), r.crc_ok
        PROVE  i < r.of
    <3>1. PICK g \in Good : got[g].of = i
      BY <2>2 DEF IsGood
    <3>2. PICK l \in Nat : l = Len(got)
      BY LenProperties DEF LinkInv, TypeOK
    <3>3. /\ DOMAIN got = 1..l /\ DOMAIN got' = 1..(l + 1) /\ got'[l + 1] = r
          /\ \A j \in 1..l : got'[j] = got[j]
      BY <3>2, AppendProperties, LenProperties DEF Returns, LinkInv, TypeOK
    <3>4. g \in 1..l /\ g < l + 1 /\ got[g].crc_ok
      BY <3>1, <3>3 DEF Good
    <3>5. g \in Good' /\ l + 1 \in Good'
      BY <2>2, <3>3, <3>4 DEF Good
    <3>6. got'[g].of < got'[l + 1].of
      BY <3>4, <3>5 DEF LinkInv, GoodFramesWereSent
    <3> QED
      BY <3>1, <3>3, <3>4, <3>6
  <2>3. r.crc_ok => IsGood(r.of)'
    BY ResultAdded
  <2>4. ASSUME NEW j \in DOMAIN file', NEW k \in DOMAIN file', j < k,
               file'[j].crc_ok, file'[k].crc_ok
        PROVE  file'[j].of < file'[k].of
    <3>1. j \in 1..n /\ file'[j] = file[j]
      BY <2>1, <2>4
    <3>2. CASE k = n + 1
      BY <2>1, <2>2, <2>4, <3>1, <3>2 DEF FileInv
    <3>3. CASE k # n + 1
      <4>1. k \in 1..n
        BY <2>1, <3>3
      <4> QED
        BY <2>1, <2>4, <3>1, <4>1 DEF FileInv
    <3> QED
      BY <3>2, <3>3
  <2>5. ASSUME NEW j \in DOMAIN file', file'[j].crc_ok, NEW i, i = file'[j].of
        PROVE  IsGood(i)'
    <3>1. CASE j = n + 1
      BY <2>1, <2>3, <2>5, <3>1
    <3>2. CASE j # n + 1
      <4>1. j \in 1..n
        BY <2>1, <3>2
      <4> QED
        BY <1>1, <2>1, <2>5, <4>1 DEF FileInv
    <3> QED
      BY <3>1, <3>2
  <2> QED
    BY <2>4, <2>5 DEF FileInv, IsGood
<1> QED
  BY <1>2, <1>3 DEF CaptureResult

LEMMA TakeKeepsFile ==
  ASSUME LinkInv, LinkInv', SyncInv, FileInv, NEW b \in Byte, Take(b)
  PROVE  FileInv'
<1>1. rd' \in Call /\ file \in Seq(Result)
  BY DEF LinkInv, TypeOK, SyncInv
<1>2. UNCHANGED got \/ \E r \in Result : Returns(r)
  BY <1>1, TakeKeepsCall
<1>3. /\ \A i : IsGood(i) => IsGood(i)'
      /\ UNCHANGED got => UNCHANGED captureVars
      /\ \A r \in Result : Returns(r) => CaptureResult(r)
  BY <1>1, <1>2, TakeKeeps
<1>4. CASE UNCHANGED got
  BY <1>3, <1>4 DEF captureVars, FileInv
<1>5. ASSUME NEW r \in Result, Returns(r)
      PROVE  FileInv'
  BY <1>1, <1>3, <1>5, FileGrows
<1> QED
  BY <1>2, <1>4, <1>5

(* The good frames in the file come in the order of sending in every        *)
(* reachable state.                                                          *)
THEOREM FileInvariant == Spec => []FileInv
<1>1. Init => FileInv
  <2> SUFFICES ASSUME Init PROVE FileInv
    OBVIOUS
  <2>1. DOMAIN file = {}
    BY EmptySeq DEF Init
  <2> QED
    BY <2>1 DEF FileInv
<1>2. LinkInv /\ SyncInv /\ FileInv /\ [Next]_linkVars /\ LinkInv' => FileInv'
  <2> SUFFICES ASSUME LinkInv, SyncInv, FileInv, [Next]_linkVars, LinkInv'
               PROVE  FileInv'
    OBVIOUS
  <2>1. CASE UNCHANGED <<got, file>>
    BY <2>1 DEF FileInv, IsGood, Good
  <2>2. CASE Deliver
    <3>1. Take(Head(line)) /\ Head(line) \in Byte
      BY <2>2, FirstGone DEF Deliver
    <3> QED
      BY <3>1, TakeKeepsFile
  <2>3. ASSUME NEW sym \in NoiseSym, Corrupt(sym) \/ Noise(sym)
        PROVE  FileInv'
    <3>1. Take(Plain(sym)) /\ Plain(sym) \in Byte
      BY <2>3, PlainTaken DEF Corrupt, Noise
    <3> QED
      BY <3>1, TakeKeepsFile
  <2>4. CASE NoByte
    <3>1. file' = file
      BY <2>4, NoByteKeepsSync
    <3>2. \E r \in Result : Returns(r)
      <4>1. rd.resync \in Nat /\ <<>> \in Seq(Sym)
        BY EmptySeq DEF LinkInv, TypeOK, Call
      <4> DEFINE r == [result |-> "EOF", type |-> "none", payload |-> <<>>,
                       skipped |-> IF rd.pc = "magic" THEN 0 ELSE rd.resync,
                       of |-> 0, crc_ok |-> FALSE]
      <4>2. r \in Result
        BY <4>1 DEF Result
      <4>3. Returns(r)
        BY <2>4 DEF NoByte, EndOfInput, ReturnNothing
      <4> QED
        BY <4>2, <4>3
    <3>3. \A i : IsGood(i) => IsGood(i)'
      BY <3>2, ResultAdded
    <3> QED
      BY <3>1, <3>3 DEF FileInv
  <2>5. (\E m \in Message : \E n \in 0..WholeFrame(m) : Send(m, n)) \/ Lose
          => UNCHANGED <<got, file>>
    BY DEF Send, Lose, readerVars, captureVars
  <2>6. UNCHANGED linkVars => UNCHANGED <<got, file>>
    BY DEF linkVars, readerVars, captureVars
  <2> QED
    BY <2>1, <2>2, <2>3, <2>4, <2>5, <2>6 DEF Next
<1> QED
  BY <1>1, <1>2, LinkInvariant, SyncInvariant, PTL DEF Spec

(* The resynchronisation of mtv1_frame_read: a fault of the line costs the  *)
(* reader no frame that begins HeaderLen + MaxLen transmitted bytes after it *)
(* or later, when no payload holds the last letter of the magic; without     *)
(* faults it finds every frame, whatever is in the payloads.                 *)
THEOREM ResyncFinds == Spec => []ResyncWithinReach
<1>1. SyncInv => ResyncWithinReach
  <2> SUFFICES ASSUME SyncInv, ended # "EOF", line = <<>>, PayloadsPlain \/ faults = 0,
                      NEW i \in safe
               PROVE  \E j \in Good : got[j].of = i
    BY DEF ResyncWithinReach
  <2>1. ReaderInv
    BY DEF SyncInv, Undisturbed
  <2> QED
    BY <2>1 DEF ReaderInv, Over, IsGood
<1> QED
  BY <1>1, SyncInvariant, PTL

(* mtv1_capture_run writes those of these frames that follow another one of *)
(* them, its good frames in the order of sending and once, and on a line     *)
(* without faults nothing else.                                              *)
THEOREM CaptureFileKeeps == Spec => []CaptureKeeps
<1>1. SyncInv /\ FileInv => CaptureKeeps
  <2> SUFFICES ASSUME SyncInv, FileInv PROVE CaptureKeeps
    OBVIOUS
  <2> DEFINE kept == {j \in DOMAIN file : file[j].crc_ok}
  <2>1. \A j, k \in kept : j < k => file[j].of < file[k].of
    BY DEF FileInv
  <2>2. ASSUME ended # "EOF", line = <<>>, PayloadsPlain \/ faults = 0,
               NEW i \in safe, i - 1 \in safe \cup {0}
        PROVE  \E j \in kept : file[j].of = i
    <3>1. ReaderInv
      BY <2>2 DEF SyncInv, Undisturbed
    <3>2. IsKept(i)
      BY <2>2, <3>1 DEF ReaderInv, Over, Follows
    <3> QED
      BY <3>2 DEF IsKept
  <2>3. faults = 0 => kept = DOMAIN file
    BY DEF SyncInv, FileSound
  <2> QED
    BY <2>1, <2>2, <2>3 DEF CaptureKeeps
<1> QED
  BY <1>1, SyncInvariant, FileInvariant, PTL
=============================================================================
