-------------------------- MODULE ImuParserProofs --------------------------
(***************************************************************************)
(* Proofs about imu_parser on a line without faults: for any packets whose *)
(* frames hold no second header, any number of them, any chunking of the   *)
(* stream by read(), either byte order, and a start inside a frame.        *)
(***************************************************************************)
EXTENDS ImuParser, ImuPacketProofs, SequenceTheorems

(* Stepping from one byte of a frame to the three after it, in the frame   *)
(* or across its end.                                                      *)
LEMMA Stepping ==
  ASSUME NEW k \in Nat, NEW m \in 0..3
  PROVE  /\ k \div 20 \in Nat
         /\ k % 20 \in 0..19
         /\ k = 20 * (k \div 20) + (k % 20)
         /\ (k % 20) + m < 20 => /\ (k + m) \div 20 = k \div 20
                                 /\ (k + m) % 20 = (k % 20) + m
         /\ (k % 20) + m >= 20 => /\ (k + m) \div 20 = (k \div 20) + 1
                                  /\ (k + m) % 20 = (k % 20) + m - 20
  OBVIOUS

(* Two frames one behind the other.                                        *)
LEMMA TwoFrames ==
  ASSUME NEW a \in Seq(Byte), NEW b \in Seq(Byte), Len(a) = PACKET_SIZE, Len(b) = PACKET_SIZE
  PROVE  \A j \in 1..PACKET_SIZE : /\ (a \o b)[j] = a[j]
                                   /\ (a \o b)[PACKET_SIZE + j] = b[j]
  OBVIOUS

(* What has been sent are packets.                                         *)
LEMMA SentIsParsed ==
  ASSUME sent \in Seq(Packets), NEW j \in 1..Len(sent)
  PROVE  sent[j] \in Packets /\ sent[j] \in ParsedPacket
  BY ParserAssumption

(* In the stream of frames the header is found where a frame begins and    *)
(* nowhere else.                                                           *)
LEMMA WireHeader ==
  ASSUME sent \in Seq(Packets), NEW k \in Nat, k + 4 <= 20 * Len(sent)
  PROVE  (/\ Wire(sent, k) = HEADER1
          /\ Wire(sent, k + 1) = HEADER2
          /\ Wire(sent, k + 2) = HEADER3
          /\ Wire(sent, k + 3) = HEADER4) <=> k % 20 = 0
<1> DEFINE f == k \div 20
           r == k % 20
           p == sent[f + 1]
           q == IF f + 2 <= Len(sent) THEN sent[f + 2] ELSE p
<1>1. f \in Nat /\ r \in 0..19 /\ k = 20 * f + r
  BY Stepping
<1>2. Len(sent) \in Nat /\ f + 1 \in 1..Len(sent)
  BY <1>1
<1>3. /\ p \in Packets /\ p \in ParsedPacket
      /\ q \in Packets /\ q \in ParsedPacket
  BY <1>1, <1>2, SentIsParsed
<1>4. /\ Encode(p) \in Seq(Byte) /\ Len(Encode(p)) = PACKET_SIZE
      /\ Encode(q) \in Seq(Byte) /\ Len(Encode(q)) = PACKET_SIZE
      /\ HeaderAt(Encode(p), 0)
  BY <1>3, EncodeFrame
<1> DEFINE both == Encode(p) \o Encode(q)
<1>5. /\ \A j \in 1..20 : both[j] = Encode(p)[j]
      /\ \A j \in 21..40 : both[j] = Encode(q)[j - 20]
  <2> HIDE DEF p, q, f, r, both
  <2>1. \A j \in 1..PACKET_SIZE : both[j] = Encode(p)[j] /\ both[PACKET_SIZE + j] = Encode(q)[j]
    BY <1>4, TwoFrames, Zenon DEF both
  <2>2. \A j \in 1..20 : both[j] = Encode(p)[j] /\ both[20 + j] = Encode(q)[j]
    BY <2>1 DEF PACKET_SIZE
  <2>3. ASSUME NEW j \in 21..40 PROVE both[j] = Encode(q)[j - 20]
    <3>1. j - 20 \in 1..20 /\ 20 + (j - 20) = j
      OBVIOUS
    <3> QED
      BY <2>2, <3>1
  <2> QED
    BY <2>2, <2>3
<1>6. ASSUME NEW m \in 0..3 PROVE Wire(sent, k + m) = both[r + m + 1]
  <2> HIDE DEF p, q, f, r, both
  <2>1. CASE r + m < 20
    <3>1. (k + m) \div 20 = f /\ (k + m) % 20 = r + m
      BY <2>1, Stepping DEF f, r
    <3>2. Wire(sent, k + m) = Encode(p)[r + m + 1]
      BY <3>1 DEF Wire, PACKET_SIZE, p
    <3>3. r + m + 1 \in 1..20
      BY <2>1, <1>1
    <3> QED
      BY <3>2, <3>3, <1>5
  <2>2. CASE r + m >= 20
    <3>1. (k + m) \div 20 = f + 1 /\ (k + m) % 20 = r + m - 20
      BY <2>2, Stepping DEF f, r
    <3>2. f + 2 <= Len(sent)
      BY <2>2, <1>1, <1>2
    <3>3. q = sent[(f + 1) + 1]
      <4>1. f + 2 = (f + 1) + 1
        BY <1>1
      <4> QED
        BY <3>2, <4>1 DEF q
    <3>4. Wire(sent, k + m) = Encode(q)[r + m - 20 + 1]
      BY <3>1, <3>3 DEF Wire, PACKET_SIZE
    <3>5. r + m + 1 \in 21..40 /\ (r + m + 1) - 20 = r + m - 20 + 1
      BY <2>2, <1>1
    <3> QED
      BY <3>4, <3>5, <1>5
  <2>3. r \in Nat
    BY <1>1
  <2> QED
    BY <2>1, <2>2, <2>3
<1> HIDE DEF p, q, f, r
<1>7. /\ Wire(sent, k) = both[r + 1]
      /\ Wire(sent, k + 1) = both[r + 2]
      /\ Wire(sent, k + 2) = both[r + 3]
      /\ Wire(sent, k + 3) = both[r + 4]
  <2> HIDE DEF both
  <2>1. Wire(sent, k + 0) = both[r + 0 + 1]
    BY <1>6
  <2>2. Wire(sent, k + 1) = both[r + 1 + 1]
    BY <1>6
  <2>3. Wire(sent, k + 2) = both[r + 2 + 1]
    BY <1>6
  <2>4. Wire(sent, k + 3) = both[r + 3 + 1]
    BY <1>6
  <2>5. /\ k + 0 = k
        /\ r + 0 + 1 = r + 1 /\ r + 1 + 1 = r + 2 /\ r + 2 + 1 = r + 3 /\ r + 3 + 1 = r + 4
    BY <1>1
  <2> QED
    BY <2>1, <2>2, <2>3, <2>4, <2>5
<1>8. CASE r = 0
  <2>1. HeaderAt(both, 0)
    <3> HIDE DEF both
    <3>1. /\ both[1] = Encode(p)[1] /\ both[2] = Encode(p)[2]
          /\ both[3] = Encode(p)[3] /\ both[4] = Encode(p)[4]
      BY <1>5
    <3> QED
      BY <1>4, <3>1 DEF HeaderAt
  <2> QED
    BY <1>7, <1>8, <2>1 DEF HeaderAt, r
<1>9. CASE r # 0
  <2>1. NoFalseHeader(p, q)
    BY <1>3, ParserAssumption
  <2>2. ~ HeaderAt(both, r)
    <3>1. r \in 1 .. PACKET_SIZE - 1
      BY <1>1, <1>9 DEF PACKET_SIZE
    <3> QED
      BY <2>1, <3>1, Zenon DEF NoFalseHeader
  <2>3. ~ (/\ Wire(sent, k) = HEADER1 /\ Wire(sent, k + 1) = HEADER2
           /\ Wire(sent, k + 2) = HEADER3 /\ Wire(sent, k + 3) = HEADER4)
    BY <1>7, <2>2, Zenon DEF HeaderAt
  <2> QED
    BY <1>9, <2>3, Zenon DEF r
<1> QED
  BY <1>8, <1>9

(* The 20 bytes from a multiple of 20 on are one frame.                    *)
LEMMA WireFrame ==
  ASSUME sent \in Seq(Packets), NEW f \in 0 .. Len(sent) - 1, NEW j \in 1..20
  PROVE  Wire(sent, 20 * f + j - 1) = Encode(sent[f + 1])[j]
<1>1. (20 * f + j - 1) \div 20 = f /\ (20 * f + j - 1) % 20 = j - 1
  OBVIOUS
<1> QED
  BY <1>1 DEF Wire, PACKET_SIZE
-----------------------------------------------------------------------------
(* A read of n bytes moves the boundary between two sequences.             *)
LEMMA Cut ==
  ASSUME NEW a \in Seq(Byte), NEW l \in Seq(Byte), NEW n \in 0..Len(l)
  PROVE  LET b == a \o SubSeq(l, 1, n)
             rest == SubSeq(l, n + 1, Len(l))
         IN  /\ b \in Seq(Byte) /\ Len(b) = Len(a) + n
             /\ rest \in Seq(Byte) /\ Len(rest) = Len(l) - n
             /\ \A i \in 1 .. Len(a) + n : b[i] = (a \o l)[i]
             /\ \A i \in 1 .. Len(l) - n : rest[i] = (a \o l)[(Len(a) + n) + i]
<1> DEFINE b == a \o SubSeq(l, 1, n)
           rest == SubSeq(l, n + 1, Len(l))
<1>1. /\ SubSeq(l, 1, n) \in Seq(Byte) /\ Len(SubSeq(l, 1, n)) = n
      /\ \A i \in 1..n : SubSeq(l, 1, n)[i] = l[i]
  OBVIOUS
<1>2. b \in Seq(Byte) /\ Len(b) = Len(a) + n
  BY <1>1
<1>3. /\ rest \in Seq(Byte) /\ Len(rest) = Len(l) - n
      /\ \A i \in 1..Len(rest) : rest[i] = l[n + i]
  OBVIOUS
<1>4. ASSUME NEW i \in 1 .. Len(a) + n PROVE b[i] = (a \o l)[i]
  <2>1. CASE i <= Len(a)
    BY <1>1, <1>2, <2>1
  <2>2. CASE i > Len(a)
    <3>1. i - Len(a) \in 1..n
      BY <2>2
    <3>2. b[i] = SubSeq(l, 1, n)[i - Len(a)]
      BY <1>1, <1>2, <2>2
    <3>3. (a \o l)[i] = l[i - Len(a)]
      BY <2>2
    <3> QED
      BY <1>1, <3>1, <3>2, <3>3
  <2> QED
    BY <2>1, <2>2
<1>5. ASSUME NEW i \in 1 .. Len(l) - n PROVE rest[i] = (a \o l)[(Len(a) + n) + i]
  <2>1. /\ (Len(a) + n) + i \in Len(a) + 1 .. Len(a) + Len(l)
        /\ ((Len(a) + n) + i) - Len(a) = n + i
    OBVIOUS
  <2>2. (a \o l)[(Len(a) + n) + i] = l[((Len(a) + n) + i) - Len(a)]
    BY <2>1
  <2>3. rest[i] = l[n + i]
    BY <1>3
  <2> QED
    BY <2>1, <2>2, <2>3
<1> QED
  BY <1>2, <1>3, <1>4, <1>5

(* When x bytes have left, the next frame begins less than a frame away.   *)
LEMMA Ceiling ==
  ASSUME NEW x \in Nat, NEW f, f = 20 * ((x + 19) \div 20) - x
  PROVE  0 < f + 20
  OBVIOUS

(* The bytes that have left, and where the next frame begins.              *)
LEMMA FrameArithmetic ==
  ASSUME Base \in Nat
  PROVE  /\ FramesPassed \in Nat
         /\ NextFrame \in 0..19
         /\ Base + NextFrame = 20 * FramesPassed
         /\ (Base + NextFrame) % 20 = 0
         /\ \A i \in Nat : (Base + i) % 20 = 0 => NextFrame <= i
<1>1. FramesPassed = (Base + 19) \div 20
  BY DEF FramesPassed, PACKET_SIZE
<1>2. NextFrame = 20 * FramesPassed - Base
  BY DEF NextFrame, PACKET_SIZE
<1> QED
  BY <1>1, <1>2

LEMMA StreamTypes ==
  ASSUME TypeOK, Streaming
  PROVE  /\ sent \in Seq(Packets) /\ Len(sent) \in Nat
         /\ line \in Seq(Byte) /\ Len(line) \in Nat
         /\ inputBuffer \in Seq(Byte) /\ Len(inputBuffer) \in Nat
         /\ Pending \in Seq(Byte) /\ Len(Pending) = Len(inputBuffer) + Len(line)
         /\ Base \in Nat /\ Base + Len(Pending) = 20 * Len(sent)
<1>1. /\ sent \in Seq(Packets) /\ Len(sent) \in Nat
      /\ line \in Seq(Byte) /\ Len(line) \in Nat
      /\ inputBuffer \in Seq(Byte) /\ Len(inputBuffer) \in Nat
  BY DEF TypeOK
<1>2. Pending \in Seq(Byte) /\ Len(Pending) = Len(inputBuffer) + Len(line)
  BY <1>1 DEF Pending
<1>3. Base = 20 * Len(sent) - Len(Pending) /\ Len(Pending) <= 20 * Len(sent)
  BY DEF Base, Streaming, PACKET_SIZE
<1>4. Base \in Nat /\ Base + Len(Pending) = 20 * Len(sent)
  BY <1>1, <1>2, <1>3
<1> QED
  BY <1>1, <1>2, <1>4

(* In what waits, a header is where a frame begins.                        *)
LEMMA PendingHeader ==
  ASSUME TypeOK, Streaming, NEW i \in Nat, i + 4 <= Len(Pending)
  PROVE  HeaderAt(Pending, i) <=> (Base + i) % 20 = 0
<1>1. /\ sent \in Seq(Packets) /\ Base \in Nat
      /\ Len(Pending) \in Nat /\ Base + Len(Pending) = 20 * Len(sent)
  BY StreamTypes
<1>2. \A j \in 1..Len(Pending) : Pending[j] = Wire(sent, Base + j - 1)
  BY DEF Streaming
<1>3. /\ Pending[i + 1] = Wire(sent, Base + i)
      /\ Pending[i + 2] = Wire(sent, Base + i + 1)
      /\ Pending[i + 3] = Wire(sent, Base + i + 2)
      /\ Pending[i + 4] = Wire(sent, Base + i + 3)
  <2>1. /\ i + 1 \in 1..Len(Pending) /\ Base + (i + 1) - 1 = Base + i
        /\ i + 2 \in 1..Len(Pending) /\ Base + (i + 2) - 1 = Base + i + 1
        /\ i + 3 \in 1..Len(Pending) /\ Base + (i + 3) - 1 = Base + i + 2
        /\ i + 4 \in 1..Len(Pending) /\ Base + (i + 4) - 1 = Base + i + 3
    BY <1>1
  <2> QED
    BY <1>2, <2>1
<1>4. Base + i \in Nat /\ (Base + i) + 4 <= 20 * Len(sent)
  BY <1>1
<1>5. (/\ Wire(sent, Base + i) = HEADER1 /\ Wire(sent, Base + i + 1) = HEADER2
       /\ Wire(sent, Base + i + 2) = HEADER3 /\ Wire(sent, Base + i + 3) = HEADER4)
      <=> (Base + i) % 20 = 0
  BY <1>1, <1>4, WireHeader
<1> QED
  BY <1>3, <1>5 DEF HeaderAt

(* The first whole frame in what waits is that of the next packet.         *)
LEMMA PendingPacket ==
  ASSUME TypeOK, Streaming, NextFrame + 20 <= Len(Pending)
  PROVE  /\ FramesPassed + 1 \in 1..Len(sent)
         /\ \A k \in 1..20 : Pending[NextFrame + k] = Encode(sent[FramesPassed + 1])[k]
<1>1. /\ sent \in Seq(Packets) /\ Len(sent) \in Nat /\ Base \in Nat
      /\ Len(Pending) \in Nat /\ Base + Len(Pending) = 20 * Len(sent)
  BY StreamTypes
<1>2. /\ FramesPassed \in Nat /\ NextFrame \in 0..19
      /\ Base + NextFrame = 20 * FramesPassed
  BY <1>1, FrameArithmetic
<1>3. FramesPassed \in 0 .. Len(sent) - 1
  BY <1>1, <1>2
<1>4. ASSUME NEW k \in 1..20
      PROVE  Pending[NextFrame + k] = Encode(sent[FramesPassed + 1])[k]
  <2>1. /\ NextFrame + k \in 1..Len(Pending)
        /\ Base + (NextFrame + k) - 1 = 20 * FramesPassed + k - 1
    BY <1>1, <1>2
  <2>2. Pending[NextFrame + k] = Wire(sent, 20 * FramesPassed + k - 1)
    BY <2>1 DEF Streaming
  <2> QED
    BY <1>1, <1>3, <2>2, WireFrame
<1> QED
  BY <1>1, <1>3, <1>4

(* What parsePacket makes of inputBuffer after a read of n bytes: the next *)
(* packet, once its frame is whole, and nothing before.                    *)
LEMMA ReadOutcome ==
  ASSUME TypeOK, Streaming, NEW n \in ReadSizes, n <= Len(line)
  PROVE  ParsePacket(Received(n), indexInBuffer, little_endian) =
           IF NextFrame + 20 <= Len(inputBuffer) + n
           THEN [ buffer |-> <<>>, position |-> 0, second |-> TRUE,
                  first |-> sent[FramesPassed + 1] ]
           ELSE [ buffer |-> Received(n),
                  position |-> IF NextFrame + 5 <= Len(inputBuffer) + n
                               THEN NextFrame ELSE indexInBuffer,
                  second |-> FALSE, first |-> ZeroPacket ]
<1> DEFINE b == Received(n)
           L == Len(inputBuffer) + n
<1>1. /\ sent \in Seq(Packets)
      /\ line \in Seq(Byte) /\ Len(line) \in Nat
      /\ inputBuffer \in Seq(Byte) /\ Len(inputBuffer) \in Nat
      /\ Len(Pending) = Len(inputBuffer) + Len(line)
      /\ Base \in Nat
  BY StreamTypes
<1>2. n \in Nat /\ n \in 0..Len(line)
  BY <1>1, ParserAssumption DEF STAGING_SIZE
<1>3. b \in Seq(Byte) /\ Len(b) = L /\ \A i \in 1..L : b[i] = Pending[i]
  BY <1>1, <1>2, Cut, Zenon DEF Received, Pending
<1>4. /\ L \in Nat /\ L <= Len(Pending) /\ Len(Pending) \in Nat
      /\ NextFrame \in 0..19 /\ (Base + NextFrame) % 20 = 0
      /\ \A i \in Nat : (Base + i) % 20 = 0 => NextFrame <= i
  BY <1>1, <1>2, FrameArithmetic
<1> HIDE DEF b, L
<1>5. ASSUME NEW i \in Nat, i + 5 <= L
      PROVE  HeaderAt(b, i) <=> (Base + i) % 20 = 0
  <2>1. /\ i + 1 \in 1..L /\ i + 2 \in 1..L /\ i + 3 \in 1..L /\ i + 4 \in 1..L
        /\ i + 4 <= Len(Pending)
    BY <1>4, <1>5
  <2>2. /\ b[i + 1] = Pending[i + 1] /\ b[i + 2] = Pending[i + 2]
        /\ b[i + 3] = Pending[i + 3] /\ b[i + 4] = Pending[i + 4]
    BY <1>3, <2>1
  <2>3. HeaderAt(b, i) <=> HeaderAt(Pending, i)
    BY <2>2 DEF HeaderAt
  <2> QED
    BY <2>1, <2>3, PendingHeader
<1>6. HeaderIndices(b) = {i \in 0 .. L - 5 : HeaderAt(b, i)}
  BY <1>3, <1>4 DEF HeaderIndices, HEADER_SIZE
<1>7. \A i \in HeaderIndices(b) : i \in Nat /\ NextFrame <= i /\ i + 5 <= L
  BY <1>4, <1>5, <1>6
<1>8. CASE NextFrame + 5 <= L
  <2>1. NextFrame \in HeaderIndices(b)
    BY <1>4, <1>5, <1>6, <1>8
  <2>2. NextFrame \in 0 .. POSITION_RANGE - 1
    BY <1>4 DEF POSITION_RANGE
  <2>3. ParsePacket(b, indexInBuffer, little_endian) =
          IF NextFrame + PACKET_SIZE <= Len(b)
          THEN [ buffer |-> <<>>, position |-> 0, second |-> TRUE,
                 first |-> PacketAt(b, NextFrame, little_endian) ]
          ELSE [ buffer |-> b, position |-> NextFrame, second |-> FALSE, first |-> ZeroPacket ]
    BY <1>3, <1>7, <2>1, <2>2, ParseFirstHeader, Zenon
  <2>4. CASE NextFrame + 20 <= L
    <3>1. /\ FramesPassed + 1 \in 1..Len(sent)
          /\ \A k \in 1..20 : Pending[NextFrame + k] = Encode(sent[FramesPassed + 1])[k]
      BY <1>4, <2>4, PendingPacket
    <3>2. sent[FramesPassed + 1] \in ParsedPacket
      BY <1>1, <3>1, SentIsParsed
    <3>3. \A k \in 1..PACKET_SIZE : b[NextFrame + k] = Encode(sent[FramesPassed + 1])[k]
      <4>1. \A k \in 1..20 : NextFrame + k \in 1..L
        BY <1>4, <2>4
      <4>2. \A k \in 1..20 : b[NextFrame + k] = Pending[NextFrame + k]
        BY <1>3, <4>1
      <4> QED
        BY <3>1, <4>2 DEF PACKET_SIZE
    <3>4. PacketAt(b, NextFrame, little_endian) = sent[FramesPassed + 1]
      BY <1>4, <3>2, <3>3, FieldsRoundTrip DEF little_endian
    <3>5. NextFrame + PACKET_SIZE <= Len(b)
      BY <1>3, <2>4 DEF PACKET_SIZE
    <3> QED
      BY <2>3, <2>4, <3>4, <3>5 DEF b, L
  <2>5. CASE ~ (NextFrame + 20 <= L)
    <3>1. ~ (NextFrame + PACKET_SIZE <= Len(b))
      BY <1>3, <2>5 DEF PACKET_SIZE
    <3> QED
      BY <2>3, <2>5, <3>1, <1>8 DEF b, L
  <2> QED
    BY <2>4, <2>5
<1>9. CASE ~ (NextFrame + 5 <= L)
  <2>1. HeaderIndices(b) = {}
    BY <1>4, <1>7, <1>9
  <2>2. ParsePacket(b, indexInBuffer, little_endian) =
          [ buffer |-> b, position |-> indexInBuffer, second |-> FALSE, first |-> ZeroPacket ]
    BY <2>1, ParseNoHeader
  <2>3. ~ (NextFrame + 20 <= L)
    BY <1>4, <1>9
  <2> QED
    BY <2>2, <2>3, <1>9 DEF b, L
<1> QED
  BY <1>8, <1>9
-----------------------------------------------------------------------------
(* The inductive invariant.                                                *)

(* A frame is put on the end of the line.                                  *)
LEMMA Extend ==
  ASSUME NEW a \in Seq(Byte), NEW l \in Seq(Byte), NEW e \in Seq(Byte)
  PROVE  /\ Len(a \o (l \o e)) = Len(a \o l) + Len(e)
         /\ \A i \in 1..Len(a \o l) : (a \o (l \o e))[i] = (a \o l)[i]
         /\ \A i \in 1..Len(e) : (a \o (l \o e))[Len(a \o l) + i] = e[i]
<1>1. a \o (l \o e) = (a \o l) \o e
  OBVIOUS
<1>2. a \o l \in Seq(Byte)
  OBVIOUS
<1> DEFINE c == a \o l
<1> HIDE DEF c
<1>3. c \in Seq(Byte)
  BY <1>2 DEF c
<1>4. /\ Len(c \o e) = Len(c) + Len(e)
      /\ \A i \in 1..Len(c) : (c \o e)[i] = c[i]
      /\ \A i \in 1..Len(e) : (c \o e)[Len(c) + i] = e[i]
  BY <1>3
<1> QED
  BY <1>1, <1>4 DEF c

(* A packet sent adds its frame at the end of the stream.                  *)
LEMMA WireAppend ==
  ASSUME NEW s \in Seq(Packets), NEW p \in Packets
  PROVE  /\ \A k \in 0 .. 20 * Len(s) - 1 : Wire(Append(s, p), k) = Wire(s, k)
         /\ \A i \in 1..20 : Wire(Append(s, p), 20 * Len(s) + i - 1) = Encode(p)[i]
<1>1. ASSUME NEW k \in 0 .. 20 * Len(s) - 1
      PROVE  Wire(Append(s, p), k) = Wire(s, k)
  <2>1. (k \div 20) + 1 \in 1..Len(s)
    OBVIOUS
  <2>2. Append(s, p)[(k \div 20) + 1] = s[(k \div 20) + 1]
    BY <2>1
  <2> QED
    BY <2>2 DEF Wire, PACKET_SIZE
<1>2. ASSUME NEW i \in 1..20
      PROVE  Wire(Append(s, p), 20 * Len(s) + i - 1) = Encode(p)[i]
  <2>1. /\ (20 * Len(s) + i - 1) \div 20 = Len(s)
        /\ ((20 * Len(s) + i - 1) % 20) + 1 = i
    OBVIOUS
  <2>2. Append(s, p)[Len(s) + 1] = p
    OBVIOUS
  <2> QED
    BY <2>1, <2>2 DEF Wire, PACKET_SIZE
<1> QED
  BY <1>1, <1>2

LEMMA ZeroIsParsed == ZeroPacket \in ParsedPacket
  BY DEF ZeroPacket, ParsedPacket, ZeroWord, Word, Byte

LEMMA InitInvariant == Init => IInv
<1> SUFFICES ASSUME Init PROVE IInv
  OBVIOUS
<1>1. /\ lineOpen = TRUE /\ pc = "read" /\ inputBuffer = <<>> /\ indexInBuffer = 0
      /\ packet = ZeroPacket /\ broadcast = <<>>
  BY DEF Init
<1>2. /\ sent \in Seq(Packets) /\ line \in Seq(Byte)
      /\ Len(line) <= 20 * Len(sent)
      /\ \A i \in 1..Len(line) : line[i] = Wire(sent, 20 * Len(sent) - Len(line) + i - 1)
  <2>1. CASE sent = <<>> /\ line = <<>>
    BY <2>1
  <2>2. CASE \E p \in Packets, k \in JoinOffsets :
               sent = <<p>> /\ line = SubSeq(Encode(p), k + 1, PACKET_SIZE)
    <3>1. PICK p \in Packets, k \in JoinOffsets :
            sent = <<p>> /\ line = SubSeq(Encode(p), k + 1, PACKET_SIZE)
      BY <2>2
    <3>2. p \in ParsedPacket /\ k \in 0..20
      BY ParserAssumption DEF PACKET_SIZE
    <3>3. Encode(p) \in Seq(Byte) /\ Len(Encode(p)) = PACKET_SIZE
      BY <3>2, EncodeFrame
    <3>4. /\ line \in Seq(Byte)
          /\ Len(line) = PACKET_SIZE - k
          /\ \A i \in 1 .. PACKET_SIZE - k : line[i] = Encode(p)[k + i]
      <4>1. ASSUME NEW e \in Seq(Byte), NEW j \in 0..Len(e)
            PROVE  /\ SubSeq(e, j + 1, Len(e)) \in Seq(Byte)
                   /\ Len(SubSeq(e, j + 1, Len(e))) = Len(e) - j
                   /\ \A i \in 1 .. Len(e) - j : SubSeq(e, j + 1, Len(e))[i] = e[j + i]
        OBVIOUS
      <4>2. k \in 0..PACKET_SIZE
        BY <3>2 DEF PACKET_SIZE
      <4> QED
        BY <3>1, <3>3, <4>1, <4>2, Zenon
    <3>5. sent \in Seq(Packets) /\ Len(sent) = 1 /\ sent[1] = p
      BY <3>1
    <3>7. Len(line) = 20 - k /\ \A i \in 1 .. 20 - k : line[i] = Encode(p)[k + i]
      BY <3>4 DEF PACKET_SIZE
    <3>8. Len(line) = 20 - k /\ Len(sent) = 1
      BY <3>5, <3>7, Zenon
    <3>6. ASSUME NEW i \in 1 .. 20 - k
          PROVE  line[i] = Wire(sent, 20 * Len(sent) - Len(line) + i - 1)
      <4>1. /\ 20 * Len(sent) - Len(line) + i - 1 = k + i - 1
            /\ (k + i - 1) \div 20 = 0 /\ (k + i - 1) % 20 = k + i - 1
        BY <3>2, <3>8
      <4>2. Wire(sent, k + i - 1) = Encode(p)[k + i]
        BY <3>2, <3>5, <4>1 DEF Wire, PACKET_SIZE
      <4> QED
        BY <3>7, <4>1, <4>2
    <3>9. Len(line) <= 20 * Len(sent)
      BY <3>2, <3>8
    <3>10. \A i \in 1..Len(line) : line[i] = Wire(sent, 20 * Len(sent) - Len(line) + i - 1)
      BY <3>6, <3>8, Zenon
    <3> QED
      BY <3>4, <3>5, <3>9, <3>10, Zenon
  <2> QED
    BY <2>1, <2>2 DEF Init
<1>3. TypeOK
  BY <1>1, <1>2, ZeroIsParsed DEF TypeOK, POSITION_RANGE
<1>4. Pending = line
  BY <1>1, <1>2 DEF Pending
<1>5. Base = 20 * Len(sent) - Len(line)
  BY <1>4 DEF Base, PACKET_SIZE
<1>6. Base \in Nat
  BY <1>2, <1>5
<1>7. NextFrame \in 0..19
  BY <1>6, FrameArithmetic
<1>8. Streaming
  <2>1. /\ Len(Pending) <= PACKET_SIZE * Len(sent)
        /\ \A i \in 1..Len(Pending) : Pending[i] = Wire(sent, Base + i - 1)
    BY <1>2, <1>4, <1>5 DEF PACKET_SIZE
  <2>2. Len(inputBuffer) < NextFrame + PACKET_SIZE /\ indexInBuffer < PACKET_SIZE
    BY <1>1, <1>7 DEF PACKET_SIZE
  <2> QED
    BY <1>1, <2>1, <2>2 DEF Streaming
<1>9. BroadcastGenuine
  BY <1>1 DEF BroadcastGenuine
<1> QED
  BY <1>3, <1>8, <1>9 DEF IInv

(* The IMU sends a packet.                                                 *)
LEMMA TransmitInvariant == IInv /\ Transmit => IInv'
<1> SUFFICES ASSUME IInv, Transmit PROVE IInv'
  OBVIOUS
<1>1. TypeOK /\ Streaming /\ BroadcastGenuine
  BY DEF IInv
<1>2. PICK p \in Packets : sent' = Append(sent, p) /\ line' = line \o Encode(p)
  BY DEF Transmit
<1>3. /\ lineOpen' = lineOpen /\ pc' = pc /\ inputBuffer' = inputBuffer
      /\ indexInBuffer' = indexInBuffer /\ packet' = packet /\ broadcast' = broadcast
  BY DEF Transmit, parserVars
<1>4. /\ sent \in Seq(Packets) /\ Len(sent) \in Nat
      /\ line \in Seq(Byte) /\ inputBuffer \in Seq(Byte)
      /\ Pending \in Seq(Byte) /\ Len(Pending) \in Nat
      /\ Base \in Nat /\ Base + Len(Pending) = 20 * Len(sent)
  BY <1>1, StreamTypes
<1>size. /\ Len(sent) \in Nat /\ Len(Pending) \in Nat /\ Base \in Nat
         /\ Base + Len(Pending) = 20 * Len(sent)
  BY <1>4, Zenon
<1>5. Encode(p) \in Seq(Byte) /\ Len(Encode(p)) = PACKET_SIZE
  BY ParserAssumption, EncodeFrame
<1>6. /\ sent' \in Seq(Packets) /\ Len(sent') = Len(sent) + 1
      /\ \A j \in 1..Len(sent) : sent'[j] = sent[j]
  BY <1>2, <1>4
<1>7. line' \in Seq(Byte)
  BY <1>2, <1>4, <1>5
<1>8. TypeOK'
  BY <1>1, <1>3, <1>6, <1>7 DEF TypeOK
<1>9. Pending' = inputBuffer \o (line \o Encode(p))
  BY <1>2, <1>3 DEF Pending
<1>10. /\ Len(Pending') = Len(Pending) + PACKET_SIZE
       /\ \A i \in 1..Len(Pending) : Pending'[i] = Pending[i]
       /\ \A i \in 1..PACKET_SIZE : Pending'[Len(Pending) + i] = Encode(p)[i]
  <2> DEFINE old == inputBuffer \o line
             new == inputBuffer \o (line \o Encode(p))
  <2>1. /\ Len(new) = Len(old) + Len(Encode(p))
        /\ \A i \in 1..Len(old) : new[i] = old[i]
        /\ \A i \in 1..Len(Encode(p)) : new[Len(old) + i] = Encode(p)[i]
    BY <1>4, <1>5, Extend, Zenon
  <2>2. Pending = old /\ Pending' = new
    BY <1>9 DEF Pending
  <2> HIDE DEF old, new
  <2> QED
    BY <1>5, <2>1, <2>2, Zenon
<1>11. Base' = Base
  <2>1. Len(sent') = Len(sent) + 1 /\ Len(Pending') = Len(Pending) + 20
    BY <1>6, <1>10 DEF PACKET_SIZE
  <2> QED
    BY <1>size, <2>1 DEF Base, PACKET_SIZE
<1>12. FramesPassed' = FramesPassed /\ NextFrame' = NextFrame
  BY <1>11 DEF FramesPassed, NextFrame
<1>13. \A i \in 1..Len(Pending') : Pending'[i] = Wire(sent', Base' + i - 1)
  <2>1. ASSUME NEW i \in 1..Len(Pending) PROVE Pending'[i] = Wire(sent', Base + i - 1)
    <3>1. Base + i - 1 \in 0 .. 20 * Len(sent) - 1
      BY <1>size
    <3>2. Wire(sent', Base + i - 1) = Wire(sent, Base + i - 1)
      BY <1>2, <1>4, <3>1, WireAppend
    <3>3. Pending[i] = Wire(sent, Base + i - 1)
      BY <1>1 DEF Streaming
    <3> QED
      BY <1>10, <3>2, <3>3
  <2>2. ASSUME NEW i \in 1..20
        PROVE  Pending'[Len(Pending) + i] = Wire(sent', Base + (Len(Pending) + i) - 1)
    <3>1. Base + (Len(Pending) + i) - 1 = 20 * Len(sent) + i - 1
      BY <1>size
    <3>2. Wire(sent', 20 * Len(sent) + i - 1) = Encode(p)[i]
      BY <1>2, <1>4, WireAppend
    <3>3. Pending'[Len(Pending) + i] = Encode(p)[i]
      BY <1>10 DEF PACKET_SIZE
    <3> QED
      BY <3>1, <3>2, <3>3
  <2>3. ASSUME NEW i \in 1 .. Len(Pending) + 20
        PROVE  Pending'[i] = Wire(sent', Base + i - 1)
    <3>1. CASE i <= Len(Pending)
      BY <2>1, <3>1, <1>size
    <3>2. CASE i > Len(Pending)
      <4>1. i - Len(Pending) \in 1..20 /\ Len(Pending) + (i - Len(Pending)) = i
        <5>1. \A m \in Nat : \A x \in 1 .. m + 20 : x > m => x - m \in 1..20 /\ m + (x - m) = x
          OBVIOUS
        <5> QED
          BY <1>size, <3>2, <5>1, Zenon
      <4>2. Pending'[Len(Pending) + (i - Len(Pending))]
              = Wire(sent', Base + (Len(Pending) + (i - Len(Pending))) - 1)
        BY <2>2, <4>1
      <4> QED
        BY <4>1, <4>2
    <3> QED
      BY <3>1, <3>2, <1>size
  <2>4. Len(Pending') = Len(Pending) + 20
    BY <1>10 DEF PACKET_SIZE
  <2> QED
    BY <1>11, <2>3, <2>4, Zenon
<1>14. {sent[k] : k \in DOMAIN sent} \subseteq {sent'[k] : k \in DOMAIN sent'}
  <2>1. DOMAIN sent = 1..Len(sent) /\ DOMAIN sent' = 1 .. Len(sent) + 1
    BY <1>4, <1>6
  <2>2. \A k \in 1..Len(sent) : k \in 1 .. Len(sent) + 1 /\ sent'[k] = sent[k]
    BY <1>4, <1>6
  <2> QED
    BY <2>1, <2>2
<1>15. Streaming'
  <2>1. Len(Pending') <= PACKET_SIZE * Len(sent')
    BY <1>4, <1>6, <1>10 DEF PACKET_SIZE
  <2>2. Len(inputBuffer') < NextFrame' + PACKET_SIZE
    BY <1>1, <1>3, <1>12 DEF Streaming
  <2>3. /\ pc' \in {"send", "sleep"} => inputBuffer' = <<>>
        /\ indexInBuffer' < PACKET_SIZE
    BY <1>1, <1>3 DEF Streaming
  <2>4. pc' = "send" => packet' \in {sent'[k] : k \in DOMAIN sent'}
    BY <1>1, <1>3, <1>14 DEF Streaming
  <2> QED
    BY <2>1, <1>13, <2>2, <2>3, <2>4 DEF Streaming
<1>16. BroadcastGenuine'
  BY <1>1, <1>3, <1>14 DEF BroadcastGenuine
<1> QED
  BY <1>8, <1>15, <1>16 DEF IInv

(* The program reads: the frame is not whole yet, or the next packet goes. *)
LEMMA ReadInvariant ==
  ASSUME IInv, NEW n \in ReadSizes, ReadBytes(n)
  PROVE  IInv'
<1> DEFINE L == Len(inputBuffer) + n
<1>1. TypeOK /\ Streaming /\ BroadcastGenuine
  BY DEF IInv
<1>2. /\ n <= Len(line)
      /\ line' = SubSeq(line, n + 1, Len(line))
      /\ sent' = sent /\ lineOpen' = lineOpen /\ broadcast' = broadcast
  BY DEF ReadBytes
<1>3. /\ inputBuffer' = ParsePacket(Received(n), indexInBuffer, little_endian).buffer
      /\ indexInBuffer' = ParsePacket(Received(n), indexInBuffer, little_endian).position
      /\ packet' = ParsePacket(Received(n), indexInBuffer, little_endian).first
      /\ pc' = IF ParsePacket(Received(n), indexInBuffer, little_endian).second
               THEN "send" ELSE "read"
  BY DEF ReadBytes
<1>4. /\ sent \in Seq(Packets) /\ Len(sent) \in Nat
      /\ line \in Seq(Byte) /\ Len(line) \in Nat
      /\ inputBuffer \in Seq(Byte) /\ Len(inputBuffer) \in Nat
      /\ Pending \in Seq(Byte) /\ Len(Pending) = Len(inputBuffer) + Len(line)
      /\ Base \in Nat /\ Base + Len(Pending) = 20 * Len(sent)
  BY <1>1, StreamTypes
<1>5. n \in Nat /\ n \in 0..Len(line)
  BY <1>2, <1>4, ParserAssumption DEF STAGING_SIZE
<1>size. /\ n \in Nat /\ Len(sent) \in Nat /\ Len(line) \in Nat /\ Len(inputBuffer) \in Nat
         /\ Len(Pending) = Len(inputBuffer) + Len(line) /\ n <= Len(line)
         /\ Base \in Nat /\ Base + Len(Pending) = 20 * Len(sent)
         /\ L \in Nat
  <2>1. /\ n \in Nat /\ Len(sent) \in Nat /\ Len(line) \in Nat /\ Len(inputBuffer) \in Nat
        /\ Len(Pending) = Len(inputBuffer) + Len(line) /\ n <= Len(line)
        /\ Base \in Nat /\ Base + Len(Pending) = 20 * Len(sent)
    BY <1>2, <1>4, <1>5, Zenon
  <2> QED
    BY <2>1
<1>6. /\ Received(n) \in Seq(Byte) /\ Len(Received(n)) = L
      /\ line' \in Seq(Byte) /\ Len(line') = Len(line) - n
      /\ \A i \in 1..L : Received(n)[i] = Pending[i]
      /\ \A i \in 1 .. Len(line) - n : line'[i] = Pending[L + i]
  <2>1. /\ Received(n) = inputBuffer \o SubSeq(line, 1, n)
        /\ Pending = inputBuffer \o line
    BY DEF Received, Pending
  <2>2. line \in Seq(Byte) /\ inputBuffer \in Seq(Byte)
    BY <1>4, Zenon
  <2>3. LET b == inputBuffer \o SubSeq(line, 1, n)
            rest == SubSeq(line, n + 1, Len(line))
        IN  /\ b \in Seq(Byte) /\ Len(b) = Len(inputBuffer) + n
            /\ rest \in Seq(Byte) /\ Len(rest) = Len(line) - n
            /\ \A i \in 1 .. Len(inputBuffer) + n : b[i] = (inputBuffer \o line)[i]
            /\ \A i \in 1 .. Len(line) - n :
                 rest[i] = (inputBuffer \o line)[(Len(inputBuffer) + n) + i]
    BY <2>2, <1>5, Cut
  <2> QED
    BY <1>2, <2>1, <2>3, Zenon
<1>7. \A i \in 1..Len(Pending) : Pending[i] = Wire(sent, Base + i - 1)
  BY <1>1 DEF Streaming
<1>8. NextFrame \in 0..19 /\ FramesPassed \in Nat
  BY <1>4, FrameArithmetic
<1> HIDE DEF L
<1>9. CASE NextFrame + 20 <= L
  <2>1. /\ inputBuffer' = <<>> /\ indexInBuffer' = 0
        /\ packet' = sent[FramesPassed + 1] /\ pc' = "send"
    <3>1. ParsePacket(Received(n), indexInBuffer, little_endian) =
            [ buffer |-> <<>>, position |-> 0, second |-> TRUE,
              first |-> sent[FramesPassed + 1] ]
      BY <1>1, <1>2, <1>9, ReadOutcome DEF L
    <3> QED
      BY <1>3, <3>1
  <2>2. FramesPassed + 1 \in 1..Len(sent)
    <3>1. NextFrame + 20 <= Len(Pending)
      BY <1>size, <1>8, <1>9 DEF L
    <3> QED
      BY <1>1, <3>1, PendingPacket
  <2>3. /\ packet' \in {sent[k] : k \in DOMAIN sent}
        /\ packet' \in ParsedPacket
    <3>1. sent[FramesPassed + 1] \in ParsedPacket
      BY <1>4, <2>2, SentIsParsed
    <3>2. FramesPassed + 1 \in DOMAIN sent
      BY <1>4, <2>2
    <3> QED
      BY <2>1, <3>1, <3>2
  <2>4. TypeOK'
    BY <1>1, <1>2, <1>6, <2>1, <2>3 DEF TypeOK, POSITION_RANGE
  <2>5. Pending' = line'
    BY <1>6, <2>1 DEF Pending
  <2>6. Len(Pending') = Len(line) - n
    BY <1>6, <2>5
  <2>7. Base' = Base + L
    <3>1. Base' = 20 * Len(sent) - (Len(line) - n)
      BY <1>2, <2>6 DEF Base, PACKET_SIZE
    <3> QED
      BY <1>size, <3>1 DEF L
  <2>8. \A i \in 1..Len(Pending') : Pending'[i] = Wire(sent', Base' + i - 1)
    <3>1. ASSUME NEW i \in 1 .. Len(line) - n
          PROVE  line'[i] = Wire(sent, (Base + L) + i - 1)
      <4>1. L + i \in 1..Len(Pending) /\ Base + (L + i) - 1 = (Base + L) + i - 1
        BY <1>size DEF L
      <4>2. Pending[L + i] = Wire(sent, Base + (L + i) - 1)
        BY <1>7, <4>1
      <4> QED
        BY <1>6, <4>1, <4>2
    <3> QED
      BY <1>2, <2>5, <2>6, <2>7, <3>1, Zenon
  <2>9. 0 < NextFrame' + 20
    <3>1. NextFrame' = 20 * ((Base' + 19) \div 20) - Base'
      BY DEF NextFrame, FramesPassed, PACKET_SIZE
    <3>2. Base' \in Nat
      BY <1>size, <2>7
    <3> QED
      BY <3>1, <3>2, Ceiling, Zenon
  <2>10. Streaming'
    <3>1. Len(Pending') <= PACKET_SIZE * Len(sent')
      <4>1. Len(line) - n <= 20 * Len(sent)
        BY <1>size
      <4> QED
        BY <1>2, <2>6, <4>1 DEF PACKET_SIZE
    <3>2. Len(inputBuffer') < NextFrame' + PACKET_SIZE /\ indexInBuffer' < PACKET_SIZE
      <4>1. Len(inputBuffer') = 0 /\ indexInBuffer' = 0
        BY <2>1
      <4> QED
        BY <2>9, <4>1 DEF PACKET_SIZE
    <3> QED
      BY <1>2, <2>1, <2>3, <2>8, <3>1, <3>2 DEF Streaming
  <2> QED
    BY <1>1, <1>2, <2>4, <2>10 DEF IInv, BroadcastGenuine
<1>10. CASE ~ (NextFrame + 20 <= L)
  <2>1. /\ inputBuffer' = Received(n) /\ packet' = ZeroPacket /\ pc' = "read"
        /\ indexInBuffer' \in {NextFrame, indexInBuffer}
    <3>1. ParsePacket(Received(n), indexInBuffer, little_endian) =
            [ buffer |-> Received(n),
              position |-> IF NextFrame + 5 <= L THEN NextFrame ELSE indexInBuffer,
              second |-> FALSE, first |-> ZeroPacket ]
      BY <1>1, <1>2, <1>10, ReadOutcome DEF L
    <3> QED
      BY <1>3, <3>1
  <2>2. indexInBuffer' \in 0 .. POSITION_RANGE - 1 /\ indexInBuffer' < PACKET_SIZE
    <3>1. indexInBuffer \in 0 .. POSITION_RANGE - 1 /\ indexInBuffer < PACKET_SIZE
      BY <1>1, Zenon DEF TypeOK, Streaming
    <3> QED
      BY <1>8, <2>1, <3>1 DEF POSITION_RANGE, PACKET_SIZE
  <2>3. TypeOK'
    BY <1>1, <1>2, <1>6, <2>1, <2>2, ZeroIsParsed DEF TypeOK
  <2>4. /\ Len(Pending') = Len(Pending)
        /\ \A i \in 1..Len(Pending) : Pending'[i] = Pending[i]
    <3>1. Pending' = Received(n) \o line'
      BY <2>1 DEF Pending
    <3>2. /\ Len(Received(n) \o line') = Len(Received(n)) + Len(line')
          /\ \A i \in 1 .. Len(Received(n)) + Len(line') :
               (Received(n) \o line')[i] =
                 IF i <= Len(Received(n)) THEN Received(n)[i] ELSE line'[i - Len(Received(n))]
      BY <1>6, ConcatProperties, Zenon
    <3>3. /\ Len(Pending') = L + (Len(line) - n)
          /\ \A i \in 1 .. L + (Len(line) - n) :
               Pending'[i] = IF i <= L THEN Received(n)[i] ELSE line'[i - L]
      BY <1>6, <3>1, <3>2, Zenon
    <3>4. Len(Pending') = Len(Pending) /\ L + (Len(line) - n) = Len(Pending)
      BY <1>size, <3>3 DEF L
    <3>5. ASSUME NEW i \in 1..Len(Pending) PROVE Pending'[i] = Pending[i]
      <4>1. CASE i <= L
        <5>1. i \in 1..L
          BY <1>size, <4>1
        <5>2. Pending'[i] = Received(n)[i]
          BY <3>3, <3>4, <4>1
        <5> QED
          BY <1>6, <5>1, <5>2
      <4>2. CASE ~ (i <= L)
        <5>1. i - L \in 1 .. Len(line) - n /\ L + (i - L) = i
          BY <1>size, <4>2 DEF L
        <5>2. Pending'[i] = line'[i - L]
          BY <3>3, <3>4, <4>2
        <5>3. line'[i - L] = Pending[L + (i - L)]
          BY <1>6, <5>1
        <5> QED
          BY <5>1, <5>2, <5>3
      <4> QED
        BY <4>1, <4>2
    <3> QED
      BY <3>4, <3>5
  <2>5. Base' = Base
    BY <1>2, <2>4 DEF Base
  <2>6. NextFrame' = NextFrame
    BY <2>5 DEF NextFrame, FramesPassed
  <2>7. Streaming'
    <3>1. Len(Pending') <= PACKET_SIZE * Len(sent')
      BY <1>1, <1>2, <2>4 DEF Streaming
    <3>2. \A i \in 1..Len(Pending') : Pending'[i] = Wire(sent', Base' + i - 1)
      BY <1>2, <1>7, <2>4, <2>5, Zenon
    <3>3. Len(inputBuffer') < NextFrame' + PACKET_SIZE
      <4>1. L < NextFrame + 20
        BY <1>size, <1>8, <1>10
      <4> QED
        BY <1>6, <2>1, <2>6, <4>1 DEF PACKET_SIZE
    <3> QED
      BY <2>1, <2>2, <3>1, <3>2, <3>3 DEF Streaming
  <2> QED
    BY <1>1, <1>2, <2>3, <2>7 DEF IInv, BroadcastGenuine
<1> QED
  BY <1>9, <1>10

(* Steps that move no byte: what waits, and the frames in it, stay.        *)
LEMMA QuietStep ==
  ASSUME Streaming, UNCHANGED <<sent, line, inputBuffer>>,
         pc' \in {"send", "sleep"} => inputBuffer = <<>>,
         indexInBuffer' < PACKET_SIZE,
         pc' = "send" => packet' \in {sent[k] : k \in DOMAIN sent}
  PROVE  Streaming'
<1>1. Pending' = Pending
  BY DEF Pending
<1>2. Base' = Base
  BY <1>1 DEF Base
<1>3. NextFrame' = NextFrame
  BY <1>2 DEF NextFrame, FramesPassed
<1> QED
  BY <1>1, <1>2, <1>3, Zenon DEF Streaming

(* sendto() sends the packet that was parsed, or fails.                    *)
LEMMA BroadcastInvariant == IInv /\ Broadcast => IInv'
<1> SUFFICES ASSUME IInv, Broadcast PROVE IInv'
  OBVIOUS
<1>1. TypeOK /\ Streaming /\ BroadcastGenuine
  BY DEF IInv
<1>2. /\ pc = "send" /\ pc' = "sleep" /\ packet' = ZeroPacket
      /\ broadcast' \in {Append(broadcast, packet), broadcast}
      /\ UNCHANGED <<sent, line, lineOpen, inputBuffer, indexInBuffer>>
  BY DEF Broadcast, imuVars
<1>3. TypeOK'
  <2>1. broadcast \in Seq(ParsedPacket) /\ packet \in ParsedPacket
    BY <1>1, Zenon DEF TypeOK
  <2>2. broadcast' \in Seq(ParsedPacket)
    BY <1>2, <2>1
  <2>3. pc' \in {"read", "backoff", "send", "sleep"}
    BY <1>2
  <2> QED
    BY <1>1, <1>2, <2>2, <2>3, ZeroIsParsed, Zenon DEF TypeOK
<1>4. Streaming'
  <2>1. inputBuffer = <<>> /\ indexInBuffer < PACKET_SIZE
    BY <1>1, <1>2, Zenon DEF Streaming
  <2>2. /\ pc' \in {"send", "sleep"} => inputBuffer = <<>>
        /\ indexInBuffer' < PACKET_SIZE
        /\ pc' = "send" => packet' \in {sent[k] : k \in DOMAIN sent}
    BY <1>2, <2>1
  <2> QED
    BY <1>1, <1>2, <2>2, QuietStep, Zenon
<1>5. BroadcastGenuine'
  <2> DEFINE genuine == {sent[k] : k \in DOMAIN sent}
  <2>1. packet \in genuine
    BY <1>1, <1>2, Zenon DEF Streaming
  <2>2. broadcast \in Seq(ParsedPacket) /\ packet \in ParsedPacket
    BY <1>1, Zenon DEF TypeOK
  <2>3. \A i \in DOMAIN broadcast : broadcast[i] \in genuine
    BY <1>1, Zenon DEF BroadcastGenuine
  <2> HIDE DEF genuine
  <2>4. \A i \in DOMAIN broadcast' : broadcast'[i] \in genuine
    BY <1>2, <2>1, <2>2, <2>3
  <2> QED
    BY <1>2, <2>4, Zenon DEF BroadcastGenuine, genuine
<1> QED
  BY <1>3, <1>4, <1>5 DEF IInv

(* The sleeps, the reads that bring nothing, and the end of the line.      *)
LEMMA IdleInvariant ==
  IInv /\ (HangUp \/ ReadWouldBlock \/ ReadFails \/ EndBackoff \/ EndSleep \/ UNCHANGED vars)
    => IInv'
<1> SUFFICES ASSUME IInv,
                    \/ HangUp \/ ReadWouldBlock \/ ReadFails
                    \/ EndBackoff \/ EndSleep \/ UNCHANGED vars
             PROVE  IInv'
  OBVIOUS
<1>1. TypeOK /\ Streaming /\ BroadcastGenuine
  BY DEF IInv
<1>2. /\ UNCHANGED <<sent, line, inputBuffer, packet, broadcast>>
      /\ lineOpen' \in {lineOpen, FALSE}
      /\ indexInBuffer' \in {indexInBuffer, 0}
      /\ pc' \in {pc, "read", "backoff"}
  BY DEF HangUp, ReadWouldBlock, ReadFails, EndBackoff, EndSleep, imuVars, parserVars, vars
<1>3. TypeOK'
  <2>1. indexInBuffer' \in 0 .. POSITION_RANGE - 1
    BY <1>1, <1>2 DEF TypeOK, POSITION_RANGE
  <2>2. pc' \in {"read", "backoff", "send", "sleep"}
    <3>1. pc \in {"read", "backoff", "send", "sleep"}
      BY <1>1, Zenon DEF TypeOK
    <3> QED
      BY <1>2, <3>1
  <2>3. lineOpen' \in BOOLEAN
    <3>1. lineOpen \in BOOLEAN
      BY <1>1, Zenon DEF TypeOK
    <3> QED
      BY <1>2, <3>1, Zenon
  <2> QED
    BY <1>1, <1>2, <2>1, <2>2, <2>3, Zenon DEF TypeOK
<1>4. Streaming'
  <2>1. /\ pc \in {"send", "sleep"} => inputBuffer = <<>>
        /\ indexInBuffer < PACKET_SIZE
        /\ pc = "send" => packet \in {sent[k] : k \in DOMAIN sent}
    BY <1>1, Zenon DEF Streaming
  <2>2. pc' \in {"send", "sleep"} => pc' = pc
    BY <1>2
  <2>3. indexInBuffer' < PACKET_SIZE
    BY <1>2, <2>1 DEF PACKET_SIZE
  <2>4. pc' = "send" => packet' \in {sent[k] : k \in DOMAIN sent}
    BY <1>2, <2>1, <2>2
  <2>5. pc' \in {"send", "sleep"} => inputBuffer = <<>>
    BY <2>1, <2>2
  <2> QED
    BY <1>1, <1>2, <2>3, <2>4, <2>5, QuietStep, Zenon
<1>5. BroadcastGenuine'
  BY <1>1, <1>2 DEF BroadcastGenuine
<1> QED
  BY <1>3, <1>4, <1>5 DEF IInv

LEMMA StepInvariant == IInv /\ [Next]_vars => IInv'
<1> SUFFICES ASSUME IInv, [Next]_vars PROVE IInv'
  OBVIOUS
<1>1. CASE Transmit
  BY <1>1, TransmitInvariant
<1>2. CASE \E n \in ReadSizes : ReadBytes(n)
  BY <1>2, ReadInvariant
<1>3. CASE Broadcast
  BY <1>3, BroadcastInvariant
<1>4. CASE HangUp \/ ReadWouldBlock \/ ReadFails \/ EndBackoff \/ EndSleep \/ UNCHANGED vars
  BY <1>4, IdleInvariant
<1> QED
  BY <1>1, <1>2, <1>3, <1>4 DEF Next
-----------------------------------------------------------------------------
LEMMA InvariantHolds == Spec => []IInv
<1>1. Init => IInv
  BY InitInvariant
<1>2. IInv /\ [Next]_vars => IInv'
  BY StepInvariant
<1> QED
  BY <1>1, <1>2, PTL DEF Spec

(* The bytes that wait are a suffix of the frames sent, cut where the      *)
(* reads happened to cut it, and the buffer ends before the first frame in *)
(* it does (imu_parser.cpp:14-38): the part of the invariant that makes it *)
(* inductive.                                                              *)
THEOREM StreamingHolds == Spec => []Streaming
<1>1. IInv => Streaming
  BY DEF IInv
<1> QED
  BY <1>1, InvariantHolds, PTL

(* Type correctness of imu_parser: inputBuffer holds bytes, the index fits *)
(* a uint8_t, and only parsed packets are sent.                            *)
THEOREM ParserTypeOK == Spec => []TypeOK
<1>1. IInv => TypeOK
  BY DEF IInv
<1> QED
  BY <1>1, InvariantHolds, PTL

(* Every datagram is a packet the IMU sent: parsePacket never puts one     *)
(* together from the ends of two frames, however read() cuts the stream.   *)
THEOREM GenuineDatagrams == Spec => []BroadcastGenuine
<1>1. IInv => BroadcastGenuine
  BY DEF IInv
<1> QED
  BY <1>1, InvariantHolds, PTL

(* On a clean line inputBuffer never holds 39 bytes and the index of a     *)
(* header is below 20, so neither the reserved 1024 bytes nor the uint8_t  *)
(* position is outgrown.                                                   *)
THEOREM BufferStaysBounded == Spec => []BufferBounded
<1>1. IInv => BufferBounded
  <2> SUFFICES ASSUME IInv PROVE BufferBounded
    OBVIOUS
  <2>1. /\ Len(inputBuffer) \in Nat
        /\ Base \in Nat
    BY StreamTypes DEF IInv
  <2>2. NextFrame \in 0..19
    BY <2>1, FrameArithmetic
  <2>3. Len(inputBuffer) < NextFrame + 20 /\ indexInBuffer < PACKET_SIZE
    BY DEF IInv, Streaming, PACKET_SIZE
  <2>4. Len(inputBuffer) <= 38
    BY <2>1, <2>2, <2>3
  <2> QED
    BY <2>3, <2>4 DEF BufferBounded, PACKET_SIZE
<1> QED
  BY <1>1, InvariantHolds, PTL

(* No complete frame is left waiting in inputBuffer between two reads: the *)
(* read that completes one has parsePacket take it (imu_parser.cpp:23).    *)
THEOREM NothingLeftWaiting == Spec => []NoCompleteFrameWaiting
<1>1. IInv => NoCompleteFrameWaiting
  <2> SUFFICES ASSUME IInv, NEW i \in 0 .. Len(inputBuffer) - 20, HeaderAt(inputBuffer, i)
               PROVE  FALSE
    BY DEF NoCompleteFrameWaiting, PACKET_SIZE
  <2>1. TypeOK /\ Streaming
    BY DEF IInv
  <2>2. /\ line \in Seq(Byte) /\ Len(line) \in Nat
        /\ inputBuffer \in Seq(Byte) /\ Len(inputBuffer) \in Nat
        /\ Len(Pending) = Len(inputBuffer) + Len(line)
        /\ Base \in Nat
    BY <2>1, StreamTypes
  <2>3. i \in Nat /\ i + 20 <= Len(inputBuffer) /\ i + 4 <= Len(Pending)
    BY <2>2
  <2>4. \A k \in 1..Len(inputBuffer) : Pending[k] = inputBuffer[k]
    BY <2>2 DEF Pending
  <2>5. HeaderAt(Pending, i)
    <3>1. /\ i + 1 \in 1..Len(inputBuffer) /\ i + 2 \in 1..Len(inputBuffer)
          /\ i + 3 \in 1..Len(inputBuffer) /\ i + 4 \in 1..Len(inputBuffer)
      BY <2>2, <2>3
    <3> QED
      BY <2>4, <3>1, Zenon DEF HeaderAt
  <2>6. NextFrame <= i /\ NextFrame \in 0..19
    BY <2>1, <2>2, <2>3, <2>5, PendingHeader, FrameArithmetic
  <2>7. Len(inputBuffer) < NextFrame + 20
    BY <2>1 DEF Streaming, PACKET_SIZE
  <2> QED
    BY <2>2, <2>3, <2>6, <2>7
<1> QED
  BY <1>1, InvariantHolds, PTL
-----------------------------------------------------------------------------
(* The refinement: every step of the program and of the IMU is a step of   *)
(* PacketRelay or leaves what the relay shows unchanged.                   *)

(* The counts of the relay stay within the packets sent.                   *)
LEMMA PassedRange ==
  ASSUME TypeOK, Streaming
  PROVE  FramesPassed \in 0..Len(sent)
<1>1. /\ Base \in Nat /\ Len(sent) \in Nat /\ Len(Pending) \in Nat
      /\ Base + Len(Pending) = 20 * Len(sent)
  BY StreamTypes
<1>2. FramesPassed = (Base + 19) \div 20
  BY DEF FramesPassed, PACKET_SIZE
<1> QED
  BY <1>1, <1>2

(* Of a buffer of l bytes, more than a frame from the first frame on and   *)
(* less than a frame and a read, at most eight frames pass.                *)
LEMMA SkipArithmetic ==
  ASSUME NEW base \in Nat, NEW f \in Nat, NEW next \in 0..19, NEW l \in Nat,
         base + next = 20 * f, next + 20 <= l, l < next + 20 + 128
  PROVE  (base + l + 19) \div 20 \in f + 1 .. f + 8
<1>1. base + l + 19 = 20 * f + (l - next + 19)
  OBVIOUS
<1>2. (l - next + 19) \in 39..166
  OBVIOUS
<1>3. \A m \in 39..166 : (20 * f + m) \div 20 \in f + 1 .. f + 8
  OBVIOUS
<1> QED
  BY <1>1, <1>2, <1>3

(* The effect of a read on what the relay shows.                           *)
LEMMA ReadEffect ==
  ASSUME IInv, NEW n \in ReadSizes, ReadBytes(n)
  PROVE  \/ /\ pc' = "send"
            /\ packet' = sent[FramesPassed + 1]
            /\ FramesPassed' \in FramesPassed + 1 .. FramesPassed + 8
            /\ FramesPassed' <= Len(sent)
         \/ /\ pc' = "read"
            /\ FramesPassed' = FramesPassed
<1> DEFINE L == Len(inputBuffer) + n
<1>1. TypeOK /\ Streaming
  BY DEF IInv
<1>2. /\ sent' = sent /\ n <= Len(line)
      /\ line' = SubSeq(line, n + 1, Len(line))
      /\ inputBuffer' = ParsePacket(Received(n), indexInBuffer, little_endian).buffer
      /\ packet' = ParsePacket(Received(n), indexInBuffer, little_endian).first
      /\ pc' = IF ParsePacket(Received(n), indexInBuffer, little_endian).second
               THEN "send" ELSE "read"
  BY DEF ReadBytes
<1>3. /\ line \in Seq(Byte) /\ Len(line) \in Nat
      /\ inputBuffer \in Seq(Byte) /\ Len(inputBuffer) \in Nat
      /\ Len(Pending) = Len(inputBuffer) + Len(line)
      /\ Len(sent) \in Nat
      /\ Base \in Nat /\ Base + Len(Pending) = 20 * Len(sent)
  BY <1>1, StreamTypes
<1>4. n \in 1..128 /\ n \in 0..Len(line)
  BY <1>2, <1>3, ParserAssumption DEF STAGING_SIZE
<1>5. /\ Received(n) \in Seq(Byte) /\ Len(Received(n)) = L
      /\ line' \in Seq(Byte) /\ Len(line') = Len(line) - n
  <2>1. line' = SubSeq(line, n + 1, Len(line)) /\ n \in 0..Len(line)
    BY <1>2, <1>4
  <2>2. line \in Seq(Byte) /\ inputBuffer \in Seq(Byte)
    BY <1>3
  <2> QED
    BY <2>1, <2>2, Cut, Zenon DEF Received
<1>6. NextFrame \in 0..19 /\ FramesPassed \in Nat /\ Base + NextFrame = 20 * FramesPassed
  BY <1>3, FrameArithmetic
<1>7. L < NextFrame + 20 + 128
  <2>1. Len(inputBuffer) < NextFrame + 20
    BY <1>1 DEF Streaming, PACKET_SIZE
  <2>2. n <= 128 /\ n \in Nat
    BY <1>4
  <2> QED
    BY <1>3, <1>6, <2>1, <2>2
<1>size. /\ n \in Nat /\ Len(sent) \in Nat /\ Len(line) \in Nat /\ Len(inputBuffer) \in Nat
         /\ Len(Pending) = Len(inputBuffer) + Len(line) /\ n <= Len(line)
         /\ Base \in Nat /\ Base + Len(Pending) = 20 * Len(sent)
         /\ L \in Nat /\ L = Len(inputBuffer) + n
  <2>1. n \in Nat
    BY <1>4
  <2> QED
    BY <1>2, <1>3, <2>1
<1>8. FramesPassed' = (Base' + 19) \div 20 /\ Base' = 20 * Len(sent) - Len(Pending')
  BY <1>2 DEF FramesPassed, Base, PACKET_SIZE
<1> HIDE DEF L
<1>9. CASE NextFrame + 20 <= L
  <2>1. /\ inputBuffer' = <<>> /\ packet' = sent[FramesPassed + 1] /\ pc' = "send"
    <3>1. ParsePacket(Received(n), indexInBuffer, little_endian) =
            [ buffer |-> <<>>, position |-> 0, second |-> TRUE,
              first |-> sent[FramesPassed + 1] ]
      BY <1>1, <1>2, <1>9, <1>size, ReadOutcome, Zenon
    <3> QED
      BY <1>2, <3>1
  <2>2. Len(Pending') = Len(line) - n
    <3>1. Pending' = line'
      BY <1>5, <2>1 DEF Pending
    <3> QED
      BY <1>5, <3>1, Zenon
  <2>3. Base' = Base + L
    <3>1. Base' = 20 * Len(sent) - (Len(line) - n)
      BY <1>8, <2>2, Zenon
    <3> QED
      BY <1>size, <3>1, SMTT(30)
  <2>4. FramesPassed' \in FramesPassed + 1 .. FramesPassed + 8
    <3>1. (Base + L + 19) \div 20 \in FramesPassed + 1 .. FramesPassed + 8
      BY <1>6, <1>7, <1>9, <1>size, SkipArithmetic
    <3> QED
      BY <1>8, <2>3, <3>1, Zenon
  <2>5. FramesPassed' <= Len(sent)
    <3>1. Base' \in 0 .. 20 * Len(sent)
      BY <1>size, <2>3
    <3> QED
      BY <1>8, <1>size, <3>1
  <2> QED
    BY <2>1, <2>4, <2>5
<1>10. CASE ~ (NextFrame + 20 <= L)
  <2>1. inputBuffer' = Received(n) /\ pc' = "read"
    <3>1. ParsePacket(Received(n), indexInBuffer, little_endian) =
            [ buffer |-> Received(n),
              position |-> IF NextFrame + 5 <= L THEN NextFrame ELSE indexInBuffer,
              second |-> FALSE, first |-> ZeroPacket ]
      BY <1>1, <1>2, <1>10, <1>size, ReadOutcome, Zenon
    <3> QED
      BY <1>2, <3>1
  <2>2. Len(Pending') = L + (Len(line) - n)
    <3>1. Pending' = Received(n) \o line'
      BY <2>1 DEF Pending
    <3>2. Len(Received(n) \o line') = Len(Received(n)) + Len(line')
      BY <1>5, ConcatProperties, Zenon
    <3> QED
      BY <1>5, <3>1, <3>2, Zenon
  <2>3. Base' = Base
    <3>1. Len(Pending') = Len(Pending)
      BY <1>size, <2>2
    <3>2. Base = 20 * Len(sent) - Len(Pending)
      BY DEF Base, PACKET_SIZE
    <3> QED
      BY <1>8, <3>1, <3>2, Zenon
  <2> QED
    BY <2>1, <2>3 DEF FramesPassed
<1> QED
  BY <1>9, <1>10
-----------------------------------------------------------------------------
(* A frame that is sent adds 20 bytes behind those that wait.              *)
LEMMA TransmitEffect ==
  ASSUME IInv, Transmit
  PROVE  /\ Len(sent') = Len(sent) + 1 /\ Len(line') = Len(line) + 20
         /\ FramesPassed' = FramesPassed
<1>1. TypeOK /\ Streaming
  BY DEF IInv
<1>2. PICK p \in Packets : sent' = Append(sent, p) /\ line' = line \o Encode(p)
  BY DEF Transmit
<1>3. inputBuffer' = inputBuffer
  BY DEF Transmit, parserVars
<1>4. p \in ParsedPacket
  BY ParserAssumption
<1>5. Encode(p) \in Seq(Byte) /\ Len(Encode(p)) = 20
  BY <1>4, EncodeFrame DEF PACKET_SIZE
<1>6. /\ sent \in Seq(Packets) /\ Len(sent) \in Nat
      /\ line \in Seq(Byte) /\ Len(line) \in Nat
      /\ inputBuffer \in Seq(Byte) /\ Len(inputBuffer) \in Nat
      /\ Pending \in Seq(Byte) /\ Len(Pending) = Len(inputBuffer) + Len(line)
  BY <1>1, StreamTypes
<1>7. Len(sent') = Len(sent) + 1
  BY <1>2, <1>6
<1>8. line' \in Seq(Byte) /\ Len(line') = Len(line) + 20
  <2>1. line' \in Seq(Byte) /\ Len(line') = Len(line) + Len(Encode(p))
    BY <1>2, <1>5, <1>6, ConcatProperties, Zenon
  <2> QED
    BY <1>5, <2>1, Zenon
<1>9. Len(Pending') = Len(Pending) + 20
  <2>1. Len(Pending') = Len(inputBuffer) + Len(line')
    BY <1>3, <1>6, <1>8, ConcatProperties, Zenon DEF Pending
  <2>2. \A a, l \in Nat : a + (l + 20) = (a + l) + 20
    OBVIOUS
  <2> QED
    BY <1>6, <1>8, <2>1, <2>2, Zenon
<1>10. Base' = Base
  <2>1. Base = 20 * Len(sent) - Len(Pending) /\ Base' = 20 * Len(sent') - Len(Pending')
    BY DEF Base, PACKET_SIZE
  <2>2. Len(Pending) \in Nat
    BY <1>6
  <2>3. \A s, q \in Nat : 20 * (s + 1) - (q + 20) = 20 * s - q
    OBVIOUS
  <2> QED
    BY <1>6, <1>7, <1>9, <2>1, <2>2, <2>3, Zenon
<1> QED
  BY <1>7, <1>8, <1>10 DEF FramesPassed

(* A step that leaves sent, line and inputBuffer alone lets no frame pass. *)
LEMMA NothingPasses ==
  ASSUME UNCHANGED <<sent, line, inputBuffer>>
  PROVE  FramesPassed' = FramesPassed
  BY DEF FramesPassed, Base, Pending

LEMMA RelayInit == Init => Relay!Init
<1> SUFFICES ASSUME Init PROVE Relay!Init
  OBVIOUS
<1>1. FramesPassed \in 0..Len(sent)
  BY InitInvariant, PassedRange DEF IInv
<1>2. sent \in {<<>>} \cup {<<p>> : p \in Packets}
  BY DEF Init
<1>3. (IF pc = "send" THEN <<packet>> ELSE <<>>) = <<>> /\ broadcast = <<>>
  BY DEF Init
<1> QED
  BY <1>1, <1>2, <1>3 DEF Relay!Init

LEMMA RelayStep == IInv /\ IInv' /\ [Next]_vars => [Relay!Next]_(Relay!vars)
<1> SUFFICES ASSUME IInv, IInv', [Next]_vars
             PROVE  Relay!Next \/ UNCHANGED Relay!vars
  BY DEF Relay!vars
<1> DEFINE held == IF pc = "send" THEN <<packet>> ELSE <<>>
<1>1. TypeOK /\ Streaming /\ TypeOK' /\ Streaming'
  BY DEF IInv
<1>2. CASE Transmit
  <2>1. PICK p \in Packets : sent' = Append(sent, p) /\ line' = line \o Encode(p)
    BY <1>2 DEF Transmit
  <2>2. UNCHANGED <<pc, inputBuffer, packet, broadcast>>
    BY <1>2 DEF Transmit, parserVars
  <2>4. FramesPassed' = FramesPassed
    BY <1>2, TransmitEffect
  <2>5. Relay!Send
    BY <2>1, <2>2, <2>4, Zenon DEF Relay!Send
  <2> QED
    BY <2>5 DEF Relay!Next
<1>3. CASE \E n \in ReadSizes : ReadBytes(n)
  <2>1. PICK n \in ReadSizes : ReadBytes(n)
    BY <1>3
  <2>2. pc = "read" /\ UNCHANGED <<sent, broadcast>>
    BY <2>1 DEF ReadBytes
  <2>3. CASE /\ pc' = "send"
             /\ packet' = sent[FramesPassed + 1]
             /\ FramesPassed' \in FramesPassed + 1 .. FramesPassed + 8
             /\ FramesPassed' <= Len(sent)
    <3>1. FramesPassed \in Nat
      <4>1. FramesPassed \in 0..Len(sent) /\ Len(sent) \in Nat
        BY <1>1, PassedRange, StreamTypes
      <4> QED
        BY <4>1
    <3>2. PICK skipped \in 0..7 : FramesPassed' = FramesPassed + 1 + skipped
      <4>1. \A f \in Nat : \A g \in f + 1 .. f + 8 :
              (g - f) - 1 \in 0..7 /\ g = f + 1 + ((g - f) - 1)
        OBVIOUS
      <4> QED
        BY <2>3, <3>1, <4>1, Zenon
    <3>3. (STAGING_SIZE + PACKET_SIZE - 2) \div PACKET_SIZE = 7
      BY DEF STAGING_SIZE, PACKET_SIZE
    <3>4. held = <<>> /\ held' = <<sent[FramesPassed + 1]>>
      BY <2>2, <2>3
    <3>5. FramesPassed + 1 + skipped <= Len(sent)
      BY <2>3, <3>2
    <3> HIDE DEF held
    <3>6. Relay!Take
      BY <2>2, <3>2, <3>3, <3>4, <3>5, Zenon DEF Relay!Take, held
    <3> QED
      BY <3>6 DEF Relay!Next
  <2>4. CASE pc' = "read" /\ FramesPassed' = FramesPassed
    BY <2>2, <2>4 DEF Relay!vars
  <2> QED
    BY <2>1, <2>3, <2>4, ReadEffect
<1>4. CASE Broadcast
  <2>1. /\ pc = "send" /\ pc' = "sleep"
        /\ broadcast' \in {Append(broadcast, packet), broadcast}
        /\ UNCHANGED <<sent, line, inputBuffer>>
    BY <1>4 DEF Broadcast, imuVars
  <2>2. FramesPassed' = FramesPassed
    BY <2>1, NothingPasses
  <2>3. held = <<packet>> /\ held' = <<>> /\ held # <<>>
    BY <2>1
  <2>4. CASE broadcast' = broadcast
    <3>1. Relay!Lose
      BY <2>1, <2>2, <2>3, <2>4 DEF Relay!Lose
    <3> QED
      BY <3>1 DEF Relay!Next
  <2>5. CASE broadcast' = Append(broadcast, packet)
    <3>1. broadcast \in Seq(ParsedPacket) /\ packet \in ParsedPacket
      BY <1>1, Zenon DEF TypeOK
    <3>2. Append(broadcast, packet) = broadcast \o <<packet>>
      BY <3>1, AppendIsConcat, Zenon
    <3>3. Relay!Deliver
      BY <2>1, <2>2, <2>3, <2>5, <3>2 DEF Relay!Deliver
    <3> QED
      BY <3>3 DEF Relay!Next
  <2> QED
    BY <2>1, <2>4, <2>5
<1>5. CASE HangUp \/ ReadWouldBlock \/ ReadFails \/ EndBackoff \/ EndSleep \/ UNCHANGED vars
  <2>1. /\ UNCHANGED <<sent, line, inputBuffer, packet, broadcast>>
        /\ (pc' = "send") <=> (pc = "send")
    BY <1>5 DEF HangUp, ReadWouldBlock, ReadFails, EndBackoff, EndSleep, imuVars, parserVars, vars
  <2>2. FramesPassed' = FramesPassed
    BY <2>1, NothingPasses
  <2> QED
    BY <2>1, <2>2 DEF Relay!vars
<1> QED
  BY <1>2, <1>3, <1>4, <1>5 DEF Next

(* The program implements the relay: processIMU_Frames forwards packets    *)
(* unaltered, once and in order, and the clear() of parsePacket loses at   *)
(* most seven behind each packet it takes.                                 *)
THEOREM ParserImplementsRelay == Spec => ImplementsRelay
<1>1. Init => Relay!Init
  BY RelayInit
<1>2. IInv /\ IInv' /\ [Next]_vars => [Relay!Next]_(Relay!vars)
  BY RelayStep
<1> QED
  BY <1>1, <1>2, InvariantHolds, PTL DEF Spec, ImplementsRelay, Relay!Spec

(* The theorems about the relay, for the relay the program implements.     *)
RelayProofs == INSTANCE PacketRelayProofs WITH
  MaxSkip <- (STAGING_SIZE + PACKET_SIZE - 2) \div PACKET_SIZE,
  passed <- FramesPassed,
  held <- IF pc = "send" THEN <<packet>> ELSE <<>>,
  delivered <- broadcast

(* What a listener gets is a subsequence of what the IMU sent: what the    *)
(* relay guarantees, the program that implements it guarantees.            *)
THEOREM DatagramsInOrder == Spec => []RelayInOrder
<1>1. RelayProofs!SkipAssumption
  BY DEF STAGING_SIZE, PACKET_SIZE, RelayProofs!SkipAssumption
<1>2. RelayProofs!Spec => []RelayProofs!InOrder
  BY <1>1, RelayProofs!RelayInOrder
<1>3. Relay!Init => RelayProofs!Init
  BY DEF Relay!Init, RelayProofs!Init
<1>4. [Relay!Next]_(Relay!vars) => [RelayProofs!Next]_(RelayProofs!vars)
  BY DEF Relay!Next, Relay!Send, Relay!Take, Relay!Deliver, Relay!Lose, Relay!vars,
         RelayProofs!Next, RelayProofs!Send, RelayProofs!Take, RelayProofs!Deliver,
         RelayProofs!Lose, RelayProofs!vars
<1>5. RelayProofs!InOrder => RelayInOrder
  BY DEF RelayInOrder, Relay!InOrder, Relay!Increasing, Relay!Taken,
         RelayProofs!InOrder, RelayProofs!Increasing, RelayProofs!Taken
<1> QED
  BY <1>2, <1>3, <1>4, <1>5, ParserImplementsRelay, PTL
   DEF ImplementsRelay, Relay!Spec, RelayProofs!Spec
=============================================================================
