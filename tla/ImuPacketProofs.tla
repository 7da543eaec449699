-------------------------- MODULE ImuPacketProofs --------------------------
(***************************************************************************)
(* Facts about the frame and the parsing functions, for hosts of either    *)
(* byte order and buffers of any content.                                  *)
(***************************************************************************)
EXTENDS ImuPacket, TLAPS, WellFoundedInduction

LessThan == {ss \in Nat \X Nat : ss[1] < ss[2]}

(* Min returns the least element of a set of natural numbers.              *)
LEMMA MinOfNats ==
  ASSUME NEW S \in SUBSET Nat, S # {}
  PROVE  Min(S) \in S /\ \A j \in S : Min(S) <= j
<1>1. IsWellFoundedOn(LessThan, Nat)
  BY NatLessThanWellFounded, Zenon DEF OpToRel, LessThan
<1>2. \E x \in S : \A y \in S : ~ (<<y, x>> \in LessThan)
  BY <1>1, WFMin, Zenon
<1>3. \A a, b \in Nat : a < b => <<a, b>> \in LessThan
  <2> SUFFICES ASSUME NEW a \in Nat, NEW b \in Nat, a < b PROVE <<a, b>> \in LessThan
    OBVIOUS
  <2>1. <<a, b>> \in Nat \X Nat /\ <<a, b>>[1] = a /\ <<a, b>>[2] = b
    OBVIOUS
  <2> QED
    BY <2>1, Zenon DEF LessThan
<1>4. \E x \in S : \A y \in S : x <= y
  <2>1. PICK x \in S : \A y \in S : ~ (<<y, x>> \in LessThan)
    BY <1>2
  <2>2. ASSUME NEW y \in S PROVE x <= y
    <3>1. x \in Nat /\ y \in Nat
      OBVIOUS
    <3>2. ~ (y < x)
      BY <2>1, <1>3, <3>1, Zenon
    <3> QED
      BY <3>1, <3>2
  <2> QED
    BY <2>2
<1> QED
  BY <1>4 DEF Min

(* Pieces of sequences of bytes.                                           *)
LEMMA Pieces ==
  ASSUME NEW l \in Seq(Byte), NEW k \in 0..Len(l)
  PROVE  /\ SubSeq(l, 1, k) \in Seq(Byte) /\ Len(SubSeq(l, 1, k)) = k
         /\ SubSeq(l, k + 1, Len(l)) \in Seq(Byte)
         /\ Len(SubSeq(l, k + 1, Len(l))) = Len(l) - k
         /\ \A i \in 1..k : SubSeq(l, 1, k)[i] = l[i]
         /\ \A i \in 1 .. Len(l) - k : SubSeq(l, k + 1, Len(l))[i] = l[k + i]
  OBVIOUS

LEMMA Joined ==
  ASSUME NEW a \in Seq(Byte), NEW b \in Seq(Byte)
  PROVE  /\ a \o b \in Seq(Byte) /\ Len(a \o b) = Len(a) + Len(b)
         /\ \A i \in 1..Len(a) : (a \o b)[i] = a[i]
         /\ \A i \in 1..Len(b) : (a \o b)[Len(a) + i] = b[i]
  OBVIOUS
-----------------------------------------------------------------------------
(* ntohl keeps words words and undoes itself.                              *)
LEMMA NtohlInvolution ==
  ASSUME NEW w \in Word
  PROVE  /\ ntohl(w) \in Word
         /\ ntohl(ntohl(w)) = w
         /\ ntohl(w) = <<ntohl(w)[1], ntohl(w)[2], ntohl(w)[3], ntohl(w)[4]>>
  BY DEF ntohl, Word

LEMMA TwentyBytes ==
  ASSUME NEW b1 \in Byte, NEW b2 \in Byte, NEW b3 \in Byte, NEW b4 \in Byte,
         NEW b5 \in Byte, NEW b6 \in Byte, NEW b7 \in Byte, NEW b8 \in Byte,
         NEW b9 \in Byte, NEW b10 \in Byte, NEW b11 \in Byte, NEW b12 \in Byte,
         NEW b13 \in Byte, NEW b14 \in Byte, NEW b15 \in Byte, NEW b16 \in Byte,
         NEW b17 \in Byte, NEW b18 \in Byte, NEW b19 \in Byte, NEW b20 \in Byte
  PROVE  LET b == << b1, b2, b3, b4, b5, b6, b7, b8, b9, b10,
                     b11, b12, b13, b14, b15, b16, b17, b18, b19, b20 >>
         IN  b \in Seq(Byte) /\ Len(b) = 20
  OBVIOUS

(* A frame is 20 bytes and starts with the header.                         *)
LEMMA EncodeFrame ==
  ASSUME NEW p \in ParsedPacket
  PROVE  /\ Encode(p) \in Seq(Byte)
         /\ Len(Encode(p)) = PACKET_SIZE
         /\ HeaderAt(Encode(p), 0)
<1>1. /\ ntohl(p.packetCount) \in Word
      /\ ntohl(p.X_GyroRate) \in Word
      /\ ntohl(p.Y_GyroRate) \in Word
      /\ ntohl(p.Z_GyroRate) \in Word
  <2>1. /\ p.packetCount \in Word /\ p.X_GyroRate \in Word
        /\ p.Y_GyroRate \in Word /\ p.Z_GyroRate \in Word
    BY DEF ParsedPacket
  <2>2. ASSUME NEW w \in Word PROVE ntohl(w) \in Word
    BY NtohlInvolution, Zenon
  <2> QED
    BY <2>1, <2>2, Zenon
<1>2. /\ Encode(p) \in Seq(Byte)
      /\ Len(Encode(p)) = 20
  <2> DEFINE c == ntohl(p.packetCount)
             x == ntohl(p.X_GyroRate)
             y == ntohl(p.Y_GyroRate)
             z == ntohl(p.Z_GyroRate)
  <2>1. ASSUME NEW w \in Word PROVE w[1] \in Byte /\ w[2] \in Byte /\ w[3] \in Byte /\ w[4] \in Byte
    BY DEF Word
  <2>2. /\ c[1] \in Byte /\ c[2] \in Byte /\ c[3] \in Byte /\ c[4] \in Byte
        /\ x[1] \in Byte /\ x[2] \in Byte /\ x[3] \in Byte /\ x[4] \in Byte
        /\ y[1] \in Byte /\ y[2] \in Byte /\ y[3] \in Byte /\ y[4] \in Byte
        /\ z[1] \in Byte /\ z[2] \in Byte /\ z[3] \in Byte /\ z[4] \in Byte
    BY <1>1, <2>1, Zenon
  <2>3. HEADER1 \in Byte /\ HEADER2 \in Byte /\ HEADER3 \in Byte /\ HEADER4 \in Byte
    BY DEF HEADER1, HEADER2, HEADER3, HEADER4, Byte
  <2>4. Encode(p) = << HEADER1, HEADER2, HEADER3, HEADER4,
                       c[1], c[2], c[3], c[4], x[1], x[2], x[3], x[4],
                       y[1], y[2], y[3], y[4], z[1], z[2], z[3], z[4] >>
    BY Zenon DEF Encode
  <2> HIDE DEF c, x, y, z
  <2> QED
    BY <2>2, <2>3, <2>4, TwentyBytes
<1>3. HeaderAt(Encode(p), 0)
  BY SMTT(30) DEF HeaderAt, Encode
<1> QED
  BY <1>2, <1>3 DEF PACKET_SIZE
-----------------------------------------------------------------------------
(* Wherever the 20 bytes of a frame lie in a buffer, the four fields are   *)
(* read back as they were in the memory of the sender: on a little-endian  *)
(* host ntohl is applied twice, on a big-endian one not at all             *)
(* (parsePacket, parse_functions.cpp:27-47).                               *)
THEOREM FieldsRoundTrip ==
  ASSUME NEW p \in ParsedPacket, NEW b, NEW i \in Nat,
         \A k \in 1..PACKET_SIZE : b[i + k] = Encode(p)[k]
  PROVE  PacketAt(b, i, HostLittleEndian) = p
<1> DEFINE c == ntohl(p.packetCount)
           x == ntohl(p.X_GyroRate)
           y == ntohl(p.Y_GyroRate)
           z == ntohl(p.Z_GyroRate)
<1>1. /\ p.packetCount \in Word /\ p.X_GyroRate \in Word
      /\ p.Y_GyroRate \in Word /\ p.Z_GyroRate \in Word
      /\ p = [ packetCount |-> p.packetCount, X_GyroRate |-> p.X_GyroRate,
               Y_GyroRate |-> p.Y_GyroRate, Z_GyroRate |-> p.Z_GyroRate ]
  BY DEF ParsedPacket
<1>2. /\ <<b[i + 5], b[i + 6], b[i + 7], b[i + 8]>> = <<c[1], c[2], c[3], c[4]>>
      /\ <<b[i + 9], b[i + 10], b[i + 11], b[i + 12]>> = <<x[1], x[2], x[3], x[4]>>
      /\ <<b[i + 13], b[i + 14], b[i + 15], b[i + 16]>> = <<y[1], y[2], y[3], y[4]>>
      /\ <<b[i + 17], b[i + 18], b[i + 19], b[i + 20]>> = <<z[1], z[2], z[3], z[4]>>
  BY DEF PACKET_SIZE, Encode
<1>3. ASSUME NEW w \in Word
      PROVE  (IF HostLittleEndian
              THEN ntohl(<<ntohl(w)[1], ntohl(w)[2], ntohl(w)[3], ntohl(w)[4]>>)
              ELSE <<ntohl(w)[1], ntohl(w)[2], ntohl(w)[3], ntohl(w)[4]>>) = w
  BY NtohlInvolution, HostOrderAssumption DEF ntohl
<1>4. /\ Field(b, i + 4, HostLittleEndian) = p.packetCount
      /\ Field(b, i + 8, HostLittleEndian) = p.X_GyroRate
      /\ Field(b, i + 12, HostLittleEndian) = p.Y_GyroRate
      /\ Field(b, i + 16, HostLittleEndian) = p.Z_GyroRate
  <2>1. /\ (i + 4) + 1 = i + 5 /\ (i + 4) + 2 = i + 6 /\ (i + 4) + 3 = i + 7 /\ (i + 4) + 4 = i + 8
        /\ (i + 8) + 1 = i + 9 /\ (i + 8) + 2 = i + 10 /\ (i + 8) + 3 = i + 11 /\ (i + 8) + 4 = i + 12
        /\ (i + 12) + 1 = i + 13 /\ (i + 12) + 2 = i + 14 /\ (i + 12) + 3 = i + 15 /\ (i + 12) + 4 = i + 16
        /\ (i + 16) + 1 = i + 17 /\ (i + 16) + 2 = i + 18 /\ (i + 16) + 3 = i + 19 /\ (i + 16) + 4 = i + 20
    OBVIOUS
  <2> HIDE DEF c, x, y, z
  <2>2. Field(b, i + 4, HostLittleEndian) = p.packetCount
    BY <1>1, <1>2, <1>3, <2>1 DEF Field, c
  <2>3. Field(b, i + 8, HostLittleEndian) = p.X_GyroRate
    BY <1>1, <1>2, <1>3, <2>1 DEF Field, x
  <2>4. Field(b, i + 12, HostLittleEndian) = p.Y_GyroRate
    BY <1>1, <1>2, <1>3, <2>1 DEF Field, y
  <2>5. Field(b, i + 16, HostLittleEndian) = p.Z_GyroRate
    BY <1>1, <1>2, <1>3, <2>1 DEF Field, z
  <2> QED
    BY <2>2, <2>3, <2>4, <2>5
<1> QED
  BY <1>1, <1>4 DEF PacketAt
-----------------------------------------------------------------------------
(* findHeader stores the index of the first header unchanged if it is less *)
(* than 256, and parsePacket then returns the frame that begins there, if  *)
(* all of it has arrived.                                                  *)
LEMMA ParseFirstHeader ==
  ASSUME NEW b \in Seq(Byte), NEW position, NEW little_endian,
         NEW h \in 0 .. POSITION_RANGE - 1,
         h \in HeaderIndices(b),
         \A i \in HeaderIndices(b) : h <= i
  PROVE  ParsePacket(b, position, little_endian) =
           IF h + PACKET_SIZE <= Len(b)
           THEN [ buffer |-> <<>>, position |-> 0, second |-> TRUE,
                  first |-> PacketAt(b, h, little_endian) ]
           ELSE [ buffer |-> b, position |-> h, second |-> FALSE, first |-> ZeroPacket ]
<1>1. HeaderIndices(b) \in SUBSET Nat
  BY DEF HeaderIndices
<1>2. Min(HeaderIndices(b)) = h
  BY <1>1, MinOfNats DEF POSITION_RANGE
<1>3. h % POSITION_RANGE = h
  BY DEF POSITION_RANGE
<1>4. FindHeader(b, position) = [found |-> TRUE, position |-> h]
  BY <1>2, <1>3 DEF FindHeader
<1> QED
  BY <1>4 DEF ParsePacket

(* Without a header parsePacket leaves everything as it is.                *)
LEMMA ParseNoHeader ==
  ASSUME NEW b, NEW position, NEW little_endian, HeaderIndices(b) = {}
  PROVE  ParsePacket(b, position, little_endian) =
           [ buffer |-> b, position |-> position, second |-> FALSE, first |-> ZeroPacket ]
<1>1. FindHeader(b, position) = [found |-> FALSE, position |-> position]
  BY DEF FindHeader
<1> QED
  BY <1>1 DEF ParsePacket

(* A frame in an empty buffer is parsed into the packet it was made of, on *)
(* either kind of host: the first unit test (parser_test.cpp:56-67), for   *)
(* every packet.                                                           *)
THEOREM ParseOneFrame ==
  ASSUME NEW p \in ParsedPacket, NEW position
  PROVE  ParsePacket(Encode(p), position, HostLittleEndian) =
           [ buffer |-> <<>>, position |-> 0, second |-> TRUE, first |-> p ]
<1>1. /\ Encode(p) \in Seq(Byte)
      /\ Len(Encode(p)) = 20
      /\ HeaderAt(Encode(p), 0)
  BY EncodeFrame DEF PACKET_SIZE
<1>2. /\ 0 \in HeaderIndices(Encode(p))
      /\ \A i \in HeaderIndices(Encode(p)) : 0 <= i
  BY <1>1 DEF HeaderIndices, HEADER_SIZE
<1>3. 0 \in 0 .. POSITION_RANGE - 1
  BY DEF POSITION_RANGE
<1>4. ParsePacket(Encode(p), position, HostLittleEndian) =
        [ buffer |-> <<>>, position |-> 0, second |-> TRUE,
          first |-> PacketAt(Encode(p), 0, HostLittleEndian) ]
  <2>1. ParsePacket(Encode(p), position, HostLittleEndian) =
          IF 0 + PACKET_SIZE <= Len(Encode(p))
          THEN [ buffer |-> <<>>, position |-> 0, second |-> TRUE,
                 first |-> PacketAt(Encode(p), 0, HostLittleEndian) ]
          ELSE [ buffer |-> Encode(p), position |-> 0, second |-> FALSE, first |-> ZeroPacket ]
    BY <1>1, <1>2, <1>3, ParseFirstHeader, Zenon
  <2>2. 0 + PACKET_SIZE <= Len(Encode(p))
    BY <1>1 DEF PACKET_SIZE
  <2> QED
    BY <2>1, <2>2
<1>5. PacketAt(Encode(p), 0, HostLittleEndian) = p
  BY FieldsRoundTrip DEF PACKET_SIZE
<1> QED
  BY <1>4, <1>5
=============================================================================
