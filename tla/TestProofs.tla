----------------------------- MODULE TestProofs -----------------------------
(***************************************************************************)
(* Proofs about the two tests of the repository.                           *)
(*                                                                         *)
(* The unit test (ParserTest), on a host of either byte order: whatever    *)
(* cases are selected and in whatever order, every requirement is met.     *)
(*                                                                         *)
(* The system test (LoopTest), for any number of runs of the script, any   *)
(* number of frames and any losses: tester and parser go in lock step, and *)
(* stand still only after a loss; and a single run fails no assertion.     *)
(***************************************************************************)
EXTENDS LoopTest, ParserTest, ImuPacketProofs
-----------------------------------------------------------------------------
(* THE UNIT TEST.                                                          *)

(* The cases pass TRUE for little_endian, which is right on either host,   *)
(* for ntohl does nothing where the bytes need no swap.                    *)
LEMMA TrueIsRight ==
  ASSUME NEW b, NEW i
  PROVE  PacketAt(b, i, TRUE) = PacketAt(b, i, HostLittleEndian)
<1>1. ASSUME NEW k PROVE Field(b, k, TRUE) = Field(b, k, HostLittleEndian)
  BY HostOrderAssumption DEF Field, ntohl
<1> QED
  BY <1>1, Zenon DEF PacketAt

(* A packet given by its words as they are written is encoded to the       *)
(* header and these words (addPacketToBuffer, parser_test.cpp:19-54).      *)
LEMMA PacketOfWords ==
  ASSUME NEW c \in Word, NEW x \in Word, NEW y \in Word, NEW z \in Word
  PROVE  /\ PacketOf(c, x, y, z) \in ParsedPacket
         /\ Encode(PacketOf(c, x, y, z)) =
              << HEADER1, HEADER2, HEADER3, HEADER4,
                 c[1], c[2], c[3], c[4], x[1], x[2], x[3], x[4],
                 y[1], y[2], y[3], y[4], z[1], z[2], z[3], z[4] >>
<1>1. \A w \in Word : ntohl(w) \in Word /\ ntohl(ntohl(w)) = w
  BY NtohlInvolution
<1>2. PacketOf(c, x, y, z) \in ParsedPacket
  BY <1>1 DEF PacketOf, ParsedPacket
<1>3. /\ ntohl(PacketOf(c, x, y, z).packetCount) = c
      /\ ntohl(PacketOf(c, x, y, z).X_GyroRate) = x
      /\ ntohl(PacketOf(c, x, y, z).Y_GyroRate) = y
      /\ ntohl(PacketOf(c, x, y, z).Z_GyroRate) = z
  BY <1>1 DEF PacketOf
<1> QED
  BY <1>2, <1>3, Zenon DEF Encode

(* The packets of the test.                                                *)
LEMMA TestPackets ==
  /\ Packet1 \in ParsedPacket /\ Packet2 \in ParsedPacket
  /\ Packet3 \in ParsedPacket /\ Packet4 \in ParsedPacket
  /\ Encode(Packet1) = << 127, 240, 28, 175, 0, 0, 0, 1, 63, 128, 0, 0,
                          63, 166, 102, 102, 63, 192, 0, 0 >>
<1>1. \A a, b, c, d \in Byte : <<a, b, c, d>> \in Word
  BY DEF Word
<1>byte. \A n \in Int : 0 <= n /\ n <= 255 => n \in Byte
  BY DEF Byte
<1>2. /\ <<0, 0, 0, 1>> \in Word /\ <<63, 128, 0, 0>> \in Word
      /\ <<63, 166, 102, 102>> \in Word /\ <<63, 192, 0, 0>> \in Word
  BY <1>1, <1>byte
<1>3. /\ <<0, 0, 0, 2>> \in Word /\ <<64, 216, 245, 195>> \in Word
      /\ <<66, 197, 153, 154>> \in Word /\ <<64, 156, 168, 193>> \in Word
  BY <1>1, <1>byte
<1>4. /\ <<0, 0, 0, 3>> \in Word /\ <<64, 248, 245, 195>> \in Word
      /\ <<67, 90, 204, 205>> \in Word
  BY <1>1, <1>byte
<1>5. /\ <<0, 0, 0, 4>> \in Word /\ <<64, 89, 153, 154>> \in Word
      /\ <<64, 252, 122, 225>> \in Word /\ ZeroWord \in Word
  BY <1>1, <1>byte DEF ZeroWord
<1>6. Packet1 \in ParsedPacket
  BY <1>2, PacketOfWords DEF Packet1
<1>7. Packet2 \in ParsedPacket
  BY <1>3, PacketOfWords DEF Packet2
<1>8. Packet3 \in ParsedPacket
  BY <1>3, <1>4, PacketOfWords DEF Packet3
<1>9. Packet4 \in ParsedPacket
  BY <1>5, PacketOfWords DEF Packet4
<1>10. Encode(Packet1) = << 127, 240, 28, 175, 0, 0, 0, 1, 63, 128, 0, 0,
                            63, 166, 102, 102, 63, 192, 0, 0 >>
  <2> DEFINE c == <<0, 0, 0, 1>>
             x == <<63, 128, 0, 0>>
             y == <<63, 166, 102, 102>>
             z == <<63, 192, 0, 0>>
  <2>1. /\ c[1] = 0 /\ c[2] = 0 /\ c[3] = 0 /\ c[4] = 1
        /\ x[1] = 63 /\ x[2] = 128 /\ x[3] = 0 /\ x[4] = 0
        /\ y[1] = 63 /\ y[2] = 166 /\ y[3] = 102 /\ y[4] = 102
        /\ z[1] = 63 /\ z[2] = 192 /\ z[3] = 0 /\ z[4] = 0
    OBVIOUS
  <2>2. c \in Word /\ x \in Word /\ y \in Word /\ z \in Word
    BY <1>2
  <2>3. Packet1 = PacketOf(c, x, y, z)
    BY DEF Packet1
  <2> HIDE DEF c, x, y, z
  <2>4. Encode(PacketOf(c, x, y, z)) = << HEADER1, HEADER2, HEADER3, HEADER4,
               c[1], c[2], c[3], c[4], x[1], x[2], x[3], x[4],
               y[1], y[2], y[3], y[4], z[1], z[2], z[3], z[4] >>
    BY <2>2, PacketOfWords
  <2> QED
    BY <2>1, <2>3, <2>4, Zenon DEF HEADER1, HEADER2, HEADER3, HEADER4
<1> QED
  BY <1>6, <1>7, <1>8, <1>9, <1>10
-----------------------------------------------------------------------------
(* A whole frame at index h of a buffer whose bytes before it do not begin *)
(* a header: parsePacket returns its packet and clears the buffer.         *)
LEMMA ParseBehind ==
  ASSUME NEW p \in ParsedPacket, NEW b \in Seq(Byte), NEW h \in Nat, h < POSITION_RANGE, NEW pos,
         h + PACKET_SIZE <= Len(b),
         \A k \in 1..PACKET_SIZE : b[h + k] = Encode(p)[k],
         \A i \in 1..h : b[i] # HEADER1
  PROVE  ParsePacket(b, pos, TRUE) =
           [buffer |-> <<>>, position |-> 0, second |-> TRUE, first |-> p]
<1>1. /\ b[h + 1] = HEADER1 /\ b[h + 2] = HEADER2
      /\ b[h + 3] = HEADER3 /\ b[h + 4] = HEADER4
  <2>1. HeaderAt(Encode(p), 0)
    BY EncodeFrame
  <2>2. /\ Encode(p)[1] = HEADER1 /\ Encode(p)[2] = HEADER2
        /\ Encode(p)[3] = HEADER3 /\ Encode(p)[4] = HEADER4
    BY <2>1 DEF HeaderAt
  <2>3. \A j \in {1, 2, 3, 4} : j \in 1..PACKET_SIZE
    BY DEF PACKET_SIZE
  <2> QED
    BY <2>2, <2>3
<1>2. h \in HeaderIndices(b)
  BY <1>1 DEF HeaderIndices, HeaderAt, HEADER_SIZE, PACKET_SIZE
<1>3. ASSUME NEW i \in HeaderIndices(b) PROVE h <= i
  BY <1>3 DEF HeaderIndices, HeaderAt, HEADER_SIZE
<1>4. ParsePacket(b, pos, TRUE) =
        IF h + PACKET_SIZE <= Len(b)
        THEN [ buffer |-> <<>>, position |-> 0, second |-> TRUE, first |-> PacketAt(b, h, TRUE) ]
        ELSE [ buffer |-> b, position |-> h, second |-> FALSE, first |-> ZeroPacket ]
  <2>1. h \in 0 .. POSITION_RANGE - 1
    <3>1. POSITION_RANGE \in Nat
      BY DEF POSITION_RANGE
    <3> QED
      BY <3>1
  <2> QED
    BY <1>2, <1>3, <2>1, ParseFirstHeader, Zenon
<1>5. PacketAt(b, h, TRUE) = p
  BY TrueIsRight, FieldsRoundTrip
<1> QED
  BY <1>4, <1>5

(* A frame of which only the first 16 bytes have arrived is not parsed     *)
(* (parser_test.cpp:121-153).                                              *)
LEMMA ParsePartial ==
  ASSUME NEW p \in ParsedPacket, NEW pos
  PROVE  LET result == ParsePacket(SubSeq(Encode(p), 1, 16), pos, TRUE)
         IN  /\ result.second = FALSE
             /\ result.first = ZeroPacket
             /\ result.position = 0
<1> DEFINE b == SubSeq(Encode(p), 1, 16)
<1>1. /\ Encode(p) \in Seq(Byte) /\ Len(Encode(p)) = 20
      /\ HeaderAt(Encode(p), 0)
  BY EncodeFrame DEF PACKET_SIZE
<1>2. b \in Seq(Byte) /\ Len(b) = 16 /\ \A i \in 1..Len(b) : b[i] = Encode(p)[i]
  <2>1. 16 \in 0..Len(Encode(p))
    BY <1>1
  <2>2. b \in Seq(Byte) /\ Len(b) = 16 /\ \A i \in 1..16 : b[i] = Encode(p)[i]
    BY <1>1, <2>1, Pieces, Zenon
  <2> HIDE DEF b
  <2> QED
    BY <2>2
<1>3. HeaderAt(b, 0)
  BY <1>1, <1>2 DEF HeaderAt
<1>4. 0 \in HeaderIndices(b) /\ \A i \in HeaderIndices(b) : 0 <= i
  BY <1>2, <1>3 DEF HeaderIndices, HEADER_SIZE
<1>5. ParsePacket(b, pos, TRUE) =
        IF 0 + PACKET_SIZE <= Len(b)
        THEN [ buffer |-> <<>>, position |-> 0, second |-> TRUE, first |-> PacketAt(b, 0, TRUE) ]
        ELSE [ buffer |-> b, position |-> 0, second |-> FALSE, first |-> ZeroPacket ]
  <2>1. 0 \in 0 .. POSITION_RANGE - 1
    BY DEF POSITION_RANGE
  <2> HIDE DEF b
  <2> QED
    BY <1>2, <1>4, <2>1, ParseFirstHeader, Zenon
<1>6. ~ (0 + PACKET_SIZE <= Len(b))
  BY <1>2 DEF PACKET_SIZE, POSITION_RANGE
<1> HIDE DEF b
<1>7. ParsePacket(b, pos, TRUE) =
        [ buffer |-> b, position |-> 0, second |-> FALSE, first |-> ZeroPacket ]
  BY <1>5, <1>6
<1>8. /\ ParsePacket(b, pos, TRUE).second = FALSE
      /\ ParsePacket(b, pos, TRUE).first = ZeroPacket
      /\ ParsePacket(b, pos, TRUE).position = 0
  <2>1. PICK r : r = ParsePacket(b, pos, TRUE)
    OBVIOUS
  <2>2. r = [ buffer |-> b, position |-> 0, second |-> FALSE, first |-> ZeroPacket ]
    BY <1>7, <2>1, Zenon
  <2>3. r.second = FALSE /\ r.first = ZeroPacket /\ r.position = 0
    BY <2>2, Zenon
  <2> QED
    BY <2>1, <2>3, Zenon
<1> QED
  BY <1>8, Zenon DEF b
-----------------------------------------------------------------------------
(* What the calls of the five cases return.                                *)
Returns(bytes, second, packet) ==
  \A pos \in 0 .. POSITION_RANGE - 1 :
    LET result == ParsePacket(bytes, pos, TRUE)
    IN  /\ result.second = second
        /\ result.first = packet
        /\ result.position \in 0 .. POSITION_RANGE - 1
        /\ second => result.buffer = <<>>

LEMMA ReturnsParsed ==
  ASSUME NEW b, NEW p,
         \A pos \in 0 .. POSITION_RANGE - 1 :
           ParsePacket(b, pos, TRUE) =
             [buffer |-> <<>>, position |-> 0, second |-> TRUE, first |-> p]
  PROVE  Returns(b, TRUE, p)
<1>1. 0 \in 0 .. POSITION_RANGE - 1
  BY DEF POSITION_RANGE
<1>2. ASSUME NEW pos \in 0 .. POSITION_RANGE - 1
      PROVE  /\ ParsePacket(b, pos, TRUE).second = TRUE
             /\ ParsePacket(b, pos, TRUE).first = p
             /\ ParsePacket(b, pos, TRUE).position = 0
             /\ ParsePacket(b, pos, TRUE).buffer = <<>>
  <2>1. PICK r : r = ParsePacket(b, pos, TRUE)
    OBVIOUS
  <2>2. r = [buffer |-> <<>>, position |-> 0, second |-> TRUE, first |-> p]
    BY <2>1, Zenon
  <2>3. r.second = TRUE /\ r.first = p /\ r.position = 0 /\ r.buffer = <<>>
    BY <2>2, Zenon
  <2> QED
    BY <2>1, <2>3, Zenon
<1> QED
  BY <1>1, <1>2, Zenon DEF Returns

LEMMA ReturnsSingle ==
  ASSUME NEW p \in ParsedPacket
  PROVE  Returns(Encode(p), TRUE, p)
<1>1. /\ Encode(p) \in Seq(Byte) /\ Len(Encode(p)) = 20
  BY EncodeFrame DEF PACKET_SIZE
<1>2. ASSUME NEW pos \in 0 .. POSITION_RANGE - 1
      PROVE  ParsePacket(Encode(p), pos, TRUE) =
               [buffer |-> <<>>, position |-> 0, second |-> TRUE, first |-> p]
  <2>1. /\ 0 + PACKET_SIZE <= Len(Encode(p))
        /\ \A k \in 1..PACKET_SIZE : Encode(p)[0 + k] = Encode(p)[k]
        /\ \A i \in 1..0 : Encode(p)[i] # HEADER1
        /\ 0 \in Nat /\ 0 < POSITION_RANGE
    BY <1>1 DEF PACKET_SIZE, POSITION_RANGE
  <2> QED
    BY <1>1, <2>1, ParseBehind, Zenon
<1> QED
  BY <1>2, ReturnsParsed, Zenon

LEMMA ReturnsMultiple ==
  ASSUME NEW p \in ParsedPacket, NEW q \in ParsedPacket
  PROVE  Returns(Encode(p) \o Encode(q), TRUE, p)
<1> DEFINE b == Encode(p) \o Encode(q)
<1>1. /\ Encode(p) \in Seq(Byte) /\ Len(Encode(p)) = PACKET_SIZE
      /\ Encode(q) \in Seq(Byte) /\ Len(Encode(q)) = PACKET_SIZE
  BY EncodeFrame
<1>2. /\ b \in Seq(Byte) /\ Len(b) = PACKET_SIZE + PACKET_SIZE
      /\ \A i \in 1..PACKET_SIZE : b[i] = Encode(p)[i]
  BY <1>1
<1> HIDE DEF b
<1>3. ASSUME NEW pos \in 0 .. POSITION_RANGE - 1
      PROVE  ParsePacket(b, pos, TRUE) =
               [buffer |-> <<>>, position |-> 0, second |-> TRUE, first |-> p]
  <2>1. /\ 0 + PACKET_SIZE <= Len(b)
        /\ \A k \in 1..PACKET_SIZE : b[0 + k] = Encode(p)[k]
        /\ \A i \in 1..0 : b[i] # HEADER1
        /\ 0 \in Nat /\ 0 < POSITION_RANGE
    <3>1. 0 < POSITION_RANGE /\ 0 <= PACKET_SIZE /\ PACKET_SIZE \in Nat
      BY DEF PACKET_SIZE, POSITION_RANGE
    <3> QED
      BY <1>2, <3>1
  <2> QED
    BY <1>2, <2>1, ParseBehind, Zenon
<1>4. Returns(b, TRUE, p)
  BY <1>3, ReturnsParsed, Zenon
<1> QED
  BY <1>4 DEF b

LEMMA ReturnsMiddle ==
  ASSUME NEW p \in ParsedPacket
  PROVE  Returns(<<149, 171, 205, 238>> \o Encode(p), TRUE, p)
<1> DEFINE b == <<149, 171, 205, 238>> \o Encode(p)
<1>1. /\ Encode(p) \in Seq(Byte) /\ Len(Encode(p)) = PACKET_SIZE
      /\ PACKET_SIZE \in Nat
  BY EncodeFrame DEF PACKET_SIZE
<1>2. /\ b \in Seq(Byte) /\ Len(b) = 4 + PACKET_SIZE
      /\ b[1] = 149 /\ b[2] = 171 /\ b[3] = 205 /\ b[4] = 238
      /\ \A k \in 1..PACKET_SIZE : b[4 + k] = Encode(p)[k]
  <2>1. 149 \in Byte /\ 171 \in Byte /\ 205 \in Byte /\ 238 \in Byte
    BY DEF Byte
  <2>2. <<149, 171, 205, 238>> \in Seq(Byte)
    BY <2>1
  <2> QED
    BY <1>1, <2>2
<1> HIDE DEF b
<1>3. ASSUME NEW pos \in 0 .. POSITION_RANGE - 1
      PROVE  ParsePacket(b, pos, TRUE) =
               [buffer |-> <<>>, position |-> 0, second |-> TRUE, first |-> p]
  <2>1. /\ 4 + PACKET_SIZE <= Len(b)
        /\ \A k \in 1..PACKET_SIZE : b[4 + k] = Encode(p)[k]
        /\ 4 \in Nat /\ 4 < POSITION_RANGE
    <3>1. 4 < POSITION_RANGE
      BY DEF POSITION_RANGE
    <3> QED
      BY <1>1, <1>2, <3>1
  <2>2. \A i \in 1..4 : b[i] # HEADER1
    <3>1. \A i \in 1..4 : i = 1 \/ i = 2 \/ i = 3 \/ i = 4
      OBVIOUS
    <3> QED
      BY <1>2, <3>1 DEF HEADER1
  <2> QED
    <3>1. b \in Seq(Byte)
      BY <1>2
    <3> QED
      BY <2>1, <2>2, <3>1, ParseBehind, ZenonT(60)
<1>4. Returns(b, TRUE, p)
  BY <1>3, ReturnsParsed, Zenon
<1> QED
  BY <1>4 DEF b

LEMMA ReturnsPartial ==
  ASSUME NEW p \in ParsedPacket
  PROVE  Returns(SubSeq(Encode(p), 1, 16), FALSE, ZeroPacket)
<1>1. 0 \in 0 .. POSITION_RANGE - 1
  BY DEF POSITION_RANGE
<1> QED
  BY <1>1, ParsePartial, Zenon DEF Returns

(* With its first byte spoilt the frame holds no header.                   *)
LEMMA ReturnsMalformed == Returns([Encode(Packet1) EXCEPT ![1] = 143], FALSE, ZeroPacket)
<1> DEFINE b == [Encode(Packet1) EXCEPT ![1] = 143]
<1>1. /\ Encode(Packet1) = << 127, 240, 28, 175, 0, 0, 0, 1, 63, 128, 0, 0,
                              63, 166, 102, 102, 63, 192, 0, 0 >>
      /\ Encode(Packet1) \in Seq(Byte) /\ Len(Encode(Packet1)) = 20
  BY TestPackets, EncodeFrame DEF PACKET_SIZE
<1>2. b \in Seq(Int) /\ Len(b) = 20 /\ \A i \in 1..20 : b[i] # HEADER1
  <2>1. Len(b) = 20 /\ DOMAIN b = 1..20
    BY <1>1
  <2>2. b[1] = 143 /\ \A i \in 2..20 : b[i] = Encode(Packet1)[i]
    BY <1>1
  <2>3. ASSUME NEW i \in 2..20 PROVE Encode(Packet1)[i] # HEADER1
    BY <1>1 DEF HEADER1
  <2> QED
    BY <1>1, <2>1, <2>2, <2>3 DEF HEADER1, Byte
<1> HIDE DEF b
<1>3. HeaderIndices(b) = {}
  BY <1>2 DEF HeaderIndices, HeaderAt, HEADER_SIZE
<1>4. ASSUME NEW pos \in 0 .. POSITION_RANGE - 1
      PROVE  /\ ParsePacket(b, pos, TRUE).second = FALSE
             /\ ParsePacket(b, pos, TRUE).first = ZeroPacket
             /\ ParsePacket(b, pos, TRUE).position = pos
  <2>1. PICK r : r = ParsePacket(b, pos, TRUE)
    OBVIOUS
  <2>2. r = [ buffer |-> b, position |-> pos, second |-> FALSE, first |-> ZeroPacket ]
    BY <1>3, <2>1, ParseNoHeader
  <2>3. r.second = FALSE /\ r.first = ZeroPacket /\ r.position = pos
    BY <2>2, Zenon
  <2> QED
    BY <2>1, <2>3, Zenon
<1>5. Returns(b, FALSE, ZeroPacket)
  BY <1>4, Zenon DEF Returns
<1> QED
  BY <1>5 DEF b
-----------------------------------------------------------------------------
(* The cases, call by call.                                                *)
LEMMA TheCases ==
  /\ DOMAIN TestCases = {"single", "malformed", "multiple", "partial", "middle"}
  /\ TestCases["single"] = <<Step(Encode(Packet1), TRUE, {Packet1})>>
  /\ TestCases["malformed"] = <<Step(Encode(Packet1), FALSE, {ZeroPacket})>>
  /\ TestCases["multiple"] = <<Step(Encode(Packet2) \o Encode(Packet1), TRUE, {Packet2})>>
  /\ TestCases["partial"] = <<Step(Encode(Packet1), TRUE, {Packet1}),
                              Step(Encode(Packet3), TRUE, {Packet3}),
                              Step(SubSeq(Encode(Packet4), 1, 16), FALSE, ParsedPacket)>>
  /\ TestCases["middle"] = <<Step(<<149, 171, 205, 238>> \o Encode(Packet1), TRUE, {Packet1})>>
BY DEF TestCases

(* The call returns what the case requires, and leaves the buffer empty    *)
(* unless it is the last call of its case.                                 *)
Meets(c, s, pos) ==
  LET call == TestCases[c][s]
      result == ParsePacket(Pushed(c, call.bytes), pos, TRUE)
  IN  /\ result.second = call.second
      /\ result.first \in call.first
      /\ result.position \in 0 .. POSITION_RANGE - 1
      /\ s < Len(TestCases[c]) => result.buffer = <<>>

LEMMA ReturnsMeets ==
  ASSUME NEW c, NEW s, NEW bytes, NEW second, NEW first, NEW packet \in first,
         NEW pos \in 0 .. POSITION_RANGE - 1,
         TestCases[c][s] = Step(bytes, second, first),
         Returns(Pushed(c, bytes), second, packet),
         s < Len(TestCases[c]) => second
  PROVE  Meets(c, s, pos)
<1>1. PICK call : call = TestCases[c][s]
  OBVIOUS
<1>2. call.bytes = bytes /\ call.second = second /\ call.first = first
  <2>1. call = [bytes |-> bytes, second |-> second, first |-> first]
    BY <1>1 DEF Step
  <2> QED
    BY <2>1, Zenon
<1>3. /\ ParsePacket(Pushed(c, bytes), pos, TRUE).second = second
      /\ ParsePacket(Pushed(c, bytes), pos, TRUE).first = packet
      /\ ParsePacket(Pushed(c, bytes), pos, TRUE).position \in 0 .. POSITION_RANGE - 1
      /\ second => ParsePacket(Pushed(c, bytes), pos, TRUE).buffer = <<>>
  BY Zenon DEF Returns
<1> QED
  BY <1>1, <1>2, <1>3, Zenon DEF Meets

LEMMA BufferEmpty ==
  ASSUME dataBuffer = <<>>, NEW c, NEW bytes \in Seq(Byte)
  PROVE  Pushed(c, bytes) = IF c = "malformed" THEN [bytes EXCEPT ![1] = 143] ELSE bytes
<1>1. <<>> \o bytes = bytes
  OBVIOUS
<1> QED
  BY <1>1, Zenon DEF Pushed

LEMMA PushedBehindNothing ==
  ASSUME dataBuffer = <<>>, NEW c, c # "malformed", NEW bytes \in Seq(Byte), NEW second, NEW packet,
         Returns(bytes, second, packet)
  PROVE  Returns(Pushed(c, bytes), second, packet)
<1>1. Pushed(c, bytes) = bytes
  BY BufferEmpty
<1> QED
  BY <1>1, Zenon

LEMMA EveryCallMeets ==
  ASSUME dataBuffer = <<>>, NEW c \in DOMAIN TestCases, NEW s \in 1 .. Len(TestCases[c]),
         NEW pos \in 0 .. POSITION_RANGE - 1
  PROVE  Meets(c, s, pos)
<1>1. /\ Packet1 \in ParsedPacket /\ Packet2 \in ParsedPacket
      /\ Packet3 \in ParsedPacket /\ Packet4 \in ParsedPacket
  BY TestPackets
<1>2. ASSUME NEW p \in ParsedPacket
      PROVE  Encode(p) \in Seq(Byte) /\ Len(Encode(p)) = 20
  BY EncodeFrame DEF PACKET_SIZE
<1>3. CASE c = "single"
  <2> c # "malformed"
    BY <1>3
  <2>1. TestCases[c][1] = Step(Encode(Packet1), TRUE, {Packet1}) /\ s = 1
    BY <1>3, TheCases
  <2>2. Returns(Pushed(c, Encode(Packet1)), TRUE, Packet1)
    BY <1>1, <1>2, <1>3, PushedBehindNothing, ReturnsSingle
  <2> QED
    BY <2>1, <2>2, ReturnsMeets, Zenon
<1>4. CASE c = "malformed"
  <2>1. TestCases[c][1] = Step(Encode(Packet1), FALSE, {ZeroPacket}) /\ s = 1 /\ ~ (s < Len(TestCases[c]))
    BY <1>4, TheCases
  <2>2. Returns(Pushed(c, Encode(Packet1)), FALSE, ZeroPacket)
    BY <1>1, <1>2, <1>4, BufferEmpty, ReturnsMalformed
  <2> QED
    BY <2>1, <2>2, ReturnsMeets, Zenon
<1>5. CASE c = "multiple"
  <2> c # "malformed"
    BY <1>5
  <2>1. TestCases[c][1] = Step(Encode(Packet2) \o Encode(Packet1), TRUE, {Packet2}) /\ s = 1
    BY <1>5, TheCases
  <2>2. Encode(Packet2) \o Encode(Packet1) \in Seq(Byte)
    BY <1>1, <1>2
  <2>3. Returns(Pushed(c, Encode(Packet2) \o Encode(Packet1)), TRUE, Packet2)
    BY <1>1, <1>5, <2>2, PushedBehindNothing, ReturnsMultiple
  <2> QED
    BY <2>1, <2>3, ReturnsMeets, Zenon
<1>6. CASE c = "partial"
  <2> c # "malformed"
    BY <1>6
  <2>1. /\ TestCases[c][1] = Step(Encode(Packet1), TRUE, {Packet1})
        /\ TestCases[c][2] = Step(Encode(Packet3), TRUE, {Packet3})
        /\ TestCases[c][3] = Step(SubSeq(Encode(Packet4), 1, 16), FALSE, ParsedPacket)
        /\ Len(TestCases[c]) = 3
        /\ s = 1 \/ s = 2 \/ s = 3
    BY <1>6, TheCases
  <2>2. CASE s = 1
    <3>1. Returns(Pushed(c, Encode(Packet1)), TRUE, Packet1)
      BY <1>1, <1>2, <1>6, PushedBehindNothing, ReturnsSingle
    <3> QED
      BY <2>1, <2>2, <3>1, ReturnsMeets, Zenon
  <2>3. CASE s = 2
    <3>1. Returns(Pushed(c, Encode(Packet3)), TRUE, Packet3)
      BY <1>1, <1>2, <1>6, PushedBehindNothing, ReturnsSingle
    <3> QED
      BY <2>1, <2>3, <3>1, ReturnsMeets, Zenon
  <2>4. CASE s = 3
    <3>1. SubSeq(Encode(Packet4), 1, 16) \in Seq(Byte)
      BY <1>1, <1>2
    <3>2. Returns(Pushed(c, SubSeq(Encode(Packet4), 1, 16)), FALSE, ZeroPacket)
      BY <1>1, <1>6, <3>1, PushedBehindNothing, ReturnsPartial
    <3>3. ZeroPacket \in ParsedPacket
      <4>1. ZeroWord \in Word
        BY DEF ZeroWord, Word, Byte
      <4> QED
        BY <4>1 DEF ZeroPacket, ParsedPacket
    <3>4. ~ (s < Len(TestCases[c]))
      BY <2>1, <2>4
    <3> QED
      BY <2>1, <2>4, <3>2, <3>3, <3>4, ReturnsMeets, Zenon
  <2> QED
    BY <2>1, <2>2, <2>3, <2>4
<1>7. CASE c = "middle"
  <2> c # "malformed"
    BY <1>7
  <2>1. TestCases[c][1] = Step(<<149, 171, 205, 238>> \o Encode(Packet1), TRUE, {Packet1}) /\ s = 1
    BY <1>7, TheCases
  <2>2. <<149, 171, 205, 238>> \o Encode(Packet1) \in Seq(Byte)
    <3>1. \A n \in Int : 0 <= n /\ n <= 255 => n \in Byte
      BY DEF Byte
    <3>2. <<149, 171, 205, 238>> \in Seq(Byte)
      BY <3>1
    <3> QED
      BY <1>1, <1>2, <3>2
  <2>3. Returns(Pushed(c, <<149, 171, 205, 238>> \o Encode(Packet1)), TRUE, Packet1)
    BY <1>1, <1>7, <2>2, PushedBehindNothing, ReturnsMiddle
  <2> QED
    BY <2>1, <2>3, ReturnsMeets, Zenon
<1> QED
  BY <1>3, <1>4, <1>5, <1>6, <1>7, TheCases
-----------------------------------------------------------------------------
LEMMA TestInvInit == TestInit => TestInv
<1>1. 0 \in 0 .. POSITION_RANGE - 1
  BY DEF POSITION_RANGE
<1> QED
  BY <1>1 DEF TestInit, TestInv, TestTypeOK, AllRequirementsHold

LEMMA BeginInvariant ==
  ASSUME TestInv, NEW c \in DOMAIN TestCases, Begin(c)
  PROVE  TestInv'
<1>1. order \in Seq(DOMAIN TestCases) /\ order' = Append(order, c)
  BY DEF TestInv, TestTypeOK, Begin
<1>2. /\ order' \in Seq(DOMAIN TestCases) /\ order' # <<>>
      /\ Last(order') = c
  BY <1>1 DEF Last
<1>3. 1 <= Len(TestCases[c])
  <2>1. Len(TestCases[c]) = 1 \/ Len(TestCases[c]) = 3
    BY TheCases
  <2> QED
    BY <2>1
<1>4. 0 \in 0 .. POSITION_RANGE - 1
  BY DEF POSITION_RANGE
<1>5. step' = 1 /\ position' = 0 /\ UNCHANGED <<dataBuffer, failed>>
  BY DEF Begin
<1>6. TestTypeOK'
  BY <1>2, <1>4, <1>5 DEF TestInv, TestTypeOK
<1>7. (step > 0 => order # <<>> /\ step <= Len(TestCases[Last(order)]))'
  BY <1>2, <1>3, <1>5
<1> QED
  BY <1>5, <1>6, <1>7 DEF TestInv, AllRequirementsHold

LEMMA CallInvariant ==
  ASSUME TestInv, CallParsePacket
  PROVE  TestInv'
<1> DEFINE c == Last(order)
           call == TestCases[c][step]
           result == ParsePacket(Pushed(c, call.bytes), position, TRUE)
           met == result.second = call.second /\ result.first \in call.first
           over == step = Len(TestCases[c])
<1>1. /\ order \in Seq(DOMAIN TestCases) /\ order # <<>>
      /\ step \in 0..3 /\ step > 0 /\ step <= Len(TestCases[c])
      /\ position \in 0 .. POSITION_RANGE - 1
      /\ dataBuffer = <<>> /\ failed = {}
  BY DEF TestInv, TestTypeOK, AllRequirementsHold, CallParsePacket
<1>2. c \in DOMAIN TestCases
  BY <1>1 DEF Last
<1>3. Len(TestCases[c]) \in 1..3
  BY <1>2, TheCases
<1>4. Meets(c, step, position)
  <2>1. step \in 1 .. Len(TestCases[c])
    BY <1>1, <1>3
  <2> HIDE DEF c
  <2> QED
    BY <1>1, <1>2, <2>1, EveryCallMeets
<1>5. /\ met
      /\ result.position \in 0 .. POSITION_RANGE - 1
      /\ step < Len(TestCases[c]) => result.buffer = <<>>
  BY <1>4, Zenon DEF Meets
<1>6. /\ position' = result.position
      /\ failed' = IF met THEN failed ELSE failed \cup {c}
      /\ step' = IF met /\ ~ over THEN step + 1 ELSE 0
      /\ dataBuffer' = IF met /\ over THEN <<>> ELSE result.buffer
      /\ order' = order
  BY Zenon DEF CallParsePacket
<1> HIDE DEF met, result, call
<1>7. /\ failed' = {}
      /\ dataBuffer' = <<>>
      /\ \/ step' = 0
         \/ step' = step + 1 /\ step < Len(TestCases[c])
  BY <1>1, <1>3, <1>5, <1>6
<1> HIDE DEF c
<1>8. step' \in 0..3
  <2>1. PICK n : n = Len(TestCases[c])
    OBVIOUS
  <2>2. n \in 1..3 /\ (step' = 0 \/ (step' = step + 1 /\ step < n))
    BY <1>3, <1>7, <2>1
  <2> QED
    BY <1>1, <2>2
<1>9. TestTypeOK'
  <2>1. /\ order' \in Seq(DOMAIN TestCases)
        /\ dataBuffer' \in Seq(Byte)
        /\ position' \in 0 .. POSITION_RANGE - 1
        /\ failed' \subseteq DOMAIN TestCases
    <3>1. position' \in 0 .. POSITION_RANGE - 1
      BY <1>5, <1>6, Zenon
    <3>2. <<>> \in Seq(Byte)
      OBVIOUS
    <3> QED
      BY <1>1, <1>6, <1>7, <3>1, <3>2, Zenon
  <2> QED
    BY <1>8, <2>1, Zenon DEF TestTypeOK
<1>10. (step > 0 => order # <<>> /\ step <= Len(TestCases[Last(order)]))'
  BY <1>1, <1>3, <1>6, <1>7 DEF c
<1> QED
  BY <1>7, <1>9, <1>10 DEF TestInv, AllRequirementsHold

LEMMA TestStep == TestInv /\ [TestNext]_testVars => TestInv'
<1> SUFFICES ASSUME TestInv, [TestNext]_testVars PROVE TestInv'
  OBVIOUS
<1>1. ASSUME NEW c \in DOMAIN TestCases, Begin(c) PROVE TestInv'
  BY <1>1, BeginInvariant
<1>2. CASE CallParsePacket
  BY <1>2, CallInvariant
<1>3. CASE UNCHANGED testVars
  BY <1>3 DEF testVars, TestInv, TestTypeOK, AllRequirementsHold
<1> QED
  BY <1>1, <1>2, <1>3 DEF TestNext

LEMMA TestInvariant == TestSpec => []TestInv
<1> QED
  BY TestInvInit, TestStep, PTL DEF TestSpec

(* The test stays in its types: no call leaves more behind than the next   *)
(* case can begin with, for a host of either byte order.                   *)
THEOREM TestTypesHold == TestSpec => []TestTypeOK
<1>1. TestInv => TestTypeOK
  BY DEF TestInv
<1> QED
  BY <1>1, TestInvariant, PTL

(* Every REQUIRE of parser_test.cpp is met, whatever cases are selected,   *)
(* in whatever order, and on a host of either byte order.                  *)
THEOREM RequirementsMet == TestSpec => []AllRequirementsHold
<1>1. TestInv => AllRequirementsHold
  BY DEF TestInv
<1> QED
  BY <1>1, TestInvariant, PTL
-----------------------------------------------------------------------------
(* THE SYSTEM TEST.                                                        *)

(* What a session's invariant depends on.                                  *)
LEMMA Elsewhere ==
  ASSUME NEW t \in Sessions, OneUnderWay(t), lost' = lost,
         tester'[t] = tester[t], count'[t] = count[t], uart'[t] = uart[t],
         parser'[t] = parser[t], held'[t] = held[t], queue'[t] = queue[t]
  PROVE  OneUnderWay(t)'
  BY DEF OneUnderWay, Own, Empty

LEMMA LoopInit == Init => LoopInv
<1> SUFFICES ASSUME Init PROVE TypeOK /\ UnderWay
  BY DEF LoopInv
<1>1. TypeOK
  BY LoopAssumption DEF Init, TypeOK
<1>2. UnderWay
  BY DEF Init, UnderWay, OneUnderWay, Empty
<1> QED
  BY <1>1, <1>2

LEMMA ScriptInvariant ==
  ASSUME LoopInv, NEW s \in Sessions, StartSession(s) \/ EndSession(s)
  PROVE  LoopInv'
<1>1. UNCHANGED <<testerVars, uart, parserVars, queue, lost>>
  BY DEF StartSession, EndSession
<1>2. UNCHANGED <<tester, count, uart, parser, held, queue, lost>>
  BY <1>1 DEF testerVars, parserVars
<1>3. TypeOK'
  <2>1. script' \in [Sessions -> {"idle", "testing", "complete"}]
    BY DEF StartSession, EndSession, LoopInv, TypeOK
  <2> QED
    BY <1>2, <2>1 DEF LoopInv, TypeOK
<1>4. UnderWay'
  BY <1>2, Elsewhere DEF LoopInv, UnderWay
<1> QED
  BY <1>3, <1>4 DEF LoopInv

(* The steps of the tester that move no packet.                            *)
LEMMA TesterQuietInvariant ==
  ASSUME LoopInv, NEW s \in Sessions, TesterBinds(s) \/ TesterOpens(s) \/ TesterGoesOn(s)
  PROVE  LoopInv'
<1>1. TypeOK /\ UnderWay
  BY DEF LoopInv
<1>2. /\ UNCHANGED <<script, uart, parser, held, queue, lost>>
      /\ tester[s] \in {"off", "bound", "pause"}
      /\ \/ tester' = [tester EXCEPT ![s] = "bound"]
         \/ tester' = [tester EXCEPT ![s] = "write"]
  BY DEF TesterBinds, TesterOpens, TesterGoesOn, parserVars
<1>3. \/ count' = count
      \/ count[s] < MaxCount /\ count' = [count EXCEPT ![s] = @ + 1]
  BY DEF TesterBinds, TesterOpens, TesterGoesOn
<1>4. TypeOK'
  <2>1. count' \in [Sessions -> 0..MaxCount]
    <3>1. count \in [Sessions -> 0..MaxCount]
      BY <1>1 DEF TypeOK
    <3>2. CASE count' = count
      BY <3>1, <3>2
    <3>3. CASE count[s] < MaxCount /\ count' = [count EXCEPT ![s] = @ + 1]
      <4>1. count[s] + 1 \in 0..MaxCount
        BY <3>1, <3>3, LoopAssumption
      <4> QED
        BY <3>1, <3>3, <4>1
    <3> QED
      BY <1>3, <3>2, <3>3
  <2>2. tester' \in [Sessions -> {"off", "bound", "write", "receive", "pause", "failed"}]
    BY <1>1, <1>2 DEF TypeOK
  <2> QED
    BY <1>1, <1>2, <2>1, <2>2 DEF TypeOK
<1>5. ASSUME NEW t \in Sessions PROVE OneUnderWay(t)'
  <2>1. CASE t = s
    <3>1. tester'[s] \in {"bound", "write"}
      BY <1>1, <1>2 DEF TypeOK
    <3>2. OneUnderWay(s) /\ uart[s] = <<>> /\ held[s] = <<>>
      BY <1>1, <1>2 DEF UnderWay, OneUnderWay, Empty
    <3>3. \A i \in DOMAIN queue[s] : queue[s][i].session # s
      BY <1>2, <3>2 DEF OneUnderWay
    <3> QED
      BY <1>2, <2>1, <3>1, <3>2, <3>3 DEF OneUnderWay, Empty
  <2>2. CASE t # s
    <3>1. tester'[t] = tester[t] /\ count'[t] = count[t]
      BY <1>1, <1>2, <1>3, <2>2 DEF TypeOK
    <3> QED
      BY <1>1, <1>2, <3>1, Elsewhere DEF UnderWay
  <2> QED
    BY <2>1, <2>2
<1> QED
  BY <1>4, <1>5 DEF LoopInv, UnderWay

LEMMA WriteInvariant ==
  ASSUME LoopInv, NEW s \in Sessions, TesterWrites(s)
  PROVE  LoopInv'
<1> DEFINE p == [session |-> s, count |-> count[s]]
<1>1. TypeOK /\ UnderWay
  BY DEF LoopInv
<1>2. /\ UNCHANGED <<script, count, parser, held, queue, lost>>
      /\ tester[s] = "write"
      /\ tester' = [tester EXCEPT ![s] = "receive"]
      /\ uart' = [uart EXCEPT ![s] = Append(@, p)]
  BY DEF TesterWrites, parserVars
<1>3. p \in Packet
  BY <1>1 DEF TypeOK, Packet
<1>4. OneUnderWay(s) /\ uart[s] = <<>> /\ held[s] = <<>>
  BY <1>1, <1>2 DEF UnderWay, OneUnderWay, Empty
<1>5. uart'[s] = <<p>> /\ tester'[s] = "receive"
  BY <1>1, <1>2, <1>4 DEF TypeOK
<1>6. TypeOK'
  <2>1. uart' \in [Sessions -> Seq(Packet)]
    <3>1. Append(uart[s], p) \in Seq(Packet)
      BY <1>1, <1>3 DEF TypeOK
    <3> HIDE DEF p
    <3> QED
      BY <1>1, <1>2, <3>1 DEF TypeOK
  <2>2. tester' \in [Sessions -> {"off", "bound", "write", "receive", "pause", "failed"}]
    BY <1>1, <1>2 DEF TypeOK
  <2> QED
    BY <1>1, <1>2, <2>1, <2>2 DEF TypeOK
<1>7. ASSUME NEW t \in Sessions PROVE OneUnderWay(t)'
  <2>1. CASE t = s
    <3>1. \A i \in DOMAIN queue[s] : queue[s][i].session # s
      BY <1>2, <1>4 DEF OneUnderWay
    <3>2. p \in Own(s)'
      BY <1>2, <1>3 DEF Own
    <3>3. parser[s] # "send"
      BY <1>4 DEF OneUnderWay
    <3> HIDE DEF p
    <3> QED
      BY <1>2, <1>4, <1>5, <2>1, <3>1, <3>2, <3>3 DEF OneUnderWay, Empty
  <2>2. CASE t # s
    <3>1. tester'[t] = tester[t] /\ uart'[t] = uart[t]
      BY <1>1, <1>2, <2>2 DEF TypeOK
    <3> QED
      BY <1>1, <1>2, <3>1, Elsewhere DEF UnderWay
  <2> QED
    BY <2>1, <2>2
<1> QED
  BY <1>6, <1>7 DEF LoopInv, UnderWay

LEMMA ReceiveInvariant ==
  ASSUME LoopInv, NEW s \in Sessions, TesterReceives(s)
  PROVE  LoopInv'
<1>1. TypeOK /\ UnderWay
  BY DEF LoopInv
<1>2. /\ UNCHANGED <<script, count, uart, parser, held, lost>>
      /\ tester[s] = "receive"
      /\ queue[s] # <<>>
  BY DEF TesterReceives, parserVars
<1>3. \/ /\ Head(queue[s]) = [session |-> s, count |-> count[s]]
         /\ tester' = [tester EXCEPT ![s] = "pause"]
         /\ queue' = [queue EXCEPT ![s] = Tail(@)]
      \/ /\ tester' = [tester EXCEPT ![s] = "failed"]
         /\ queue' = [queue EXCEPT ![s] = <<>>]
  BY DEF TesterReceives
<1>4. queue[s] \in Seq(Packet) /\ OneUnderWay(s)
  BY <1>1 DEF TypeOK, UnderWay
<1>5. TypeOK'
  <2>1. Tail(queue[s]) \in Seq(Packet) /\ <<>> \in Seq(Packet)
    BY <1>2, <1>4
  <2>2. queue' \in [Sessions -> Seq(Packet)]
    BY <1>1, <1>3, <2>1 DEF TypeOK
  <2>3. tester' \in [Sessions -> {"off", "bound", "write", "receive", "pause", "failed"}]
    BY <1>1, <1>3 DEF TypeOK
  <2> QED
    BY <1>1, <1>2, <2>2, <2>3 DEF TypeOK
<1>6. OneUnderWay(s)'
  <2>1. CASE /\ Head(queue[s]) = [session |-> s, count |-> count[s]]
             /\ tester' = [tester EXCEPT ![s] = "pause"]
             /\ queue' = [queue EXCEPT ![s] = Tail(@)]
    <3>1. tester'[s] = "pause" /\ queue'[s] = Tail(queue[s])
      BY <1>1, <2>1 DEF TypeOK
    <3>2. 1 \in DOMAIN queue[s] /\ queue[s][1].session = s
      BY <1>2, <1>4, <2>1
    <3>3. /\ Empty(s)
          /\ \A j \in DOMAIN queue[s] : queue[s][j].session = s => j = 1
      BY <1>4, <3>2 DEF OneUnderWay
    <3>4. ASSUME NEW i \in DOMAIN Tail(queue[s]) PROVE Tail(queue[s])[i].session # s
      <4>1. /\ i + 1 \in DOMAIN queue[s] /\ i + 1 # 1
            /\ Tail(queue[s])[i] = queue[s][i + 1]
        BY <1>2, <1>4
      <4> QED
        BY <3>3, <4>1
    <3>5. uart[s] = <<>> /\ held[s] = <<>> /\ parser[s] # "send"
      BY <1>4, <3>3 DEF OneUnderWay, Empty
    <3> QED
      BY <1>2, <3>1, <3>4, <3>5 DEF OneUnderWay, Empty
  <2>2. CASE /\ tester' = [tester EXCEPT ![s] = "failed"]
             /\ queue' = [queue EXCEPT ![s] = <<>>]
    <3>1. tester'[s] = "failed" /\ queue'[s] = <<>>
      BY <1>1, <2>2 DEF TypeOK
    <3>2. Own(s) \subseteq Own(s)'
      BY <1>2, <3>1 DEF Own
    <3> QED
      BY <1>2, <1>4, <3>1, <3>2 DEF OneUnderWay, Empty
  <2> QED
    BY <1>3, <2>1, <2>2
<1>7. ASSUME NEW t \in Sessions, t # s PROVE OneUnderWay(t)'
  <2>1. tester'[t] = tester[t] /\ queue'[t] = queue[t]
    BY <1>1, <1>3, <1>7 DEF TypeOK
  <2> QED
    BY <1>1, <1>2, <2>1, Elsewhere DEF UnderWay
<1> QED
  BY <1>5, <1>6, <1>7 DEF LoopInv, UnderWay
-----------------------------------------------------------------------------
(* The steps of the parser that move no packet.                            *)
LEMMA ParserQuietInvariant ==
  ASSUME LoopInv, NEW s \in Sessions, ParserOpens(s) \/ ParserPolls(s) \/ ParserWakes(s)
  PROVE  LoopInv'
<1>1. TypeOK /\ UnderWay
  BY DEF LoopInv
<1>2. /\ UNCHANGED <<script, tester, count, uart, held, queue, lost>>
      /\ parser[s] \in {"off", "read", "sleep"}
      /\ \/ parser' = parser
         \/ parser' = [parser EXCEPT ![s] = "read"]
  BY DEF ParserOpens, ParserPolls, ParserWakes, testerVars, vars
<1>3. TypeOK'
  <2>1. parser' \in [Sessions -> {"off", "read", "send", "sleep"}]
    BY <1>1, <1>2 DEF TypeOK
  <2> QED
    BY <1>1, <1>2, <2>1 DEF TypeOK
<1>4. ASSUME NEW t \in Sessions PROVE OneUnderWay(t)'
  <2>1. (parser'[t] = "send") <=> (parser[t] = "send")
    BY <1>1, <1>2 DEF TypeOK
  <2>2. OneUnderWay(t)
    BY <1>1 DEF UnderWay
  <2> QED
    BY <1>2, <2>1, <2>2 DEF OneUnderWay, Own, Empty
<1> QED
  BY <1>3, <1>4 DEF LoopInv, UnderWay

LEMMA TakeInvariant ==
  ASSUME LoopInv, NEW s \in Sessions, ParserTakes(s)
  PROVE  LoopInv'
<1>1. TypeOK /\ UnderWay
  BY DEF LoopInv
<1>2. /\ UNCHANGED <<script, tester, count, queue, lost>>
      /\ parser[s] = "read"
      /\ parser' = [parser EXCEPT ![s] = "send"]
  BY DEF ParserTakes, testerVars
<1>3. PICK skipped \in 0..MaxSkip :
        /\ 1 + skipped <= Len(uart[s])
        /\ held' = [held EXCEPT ![s] = <<Head(uart[s])>>]
        /\ uart' = [uart EXCEPT ![s] = SubSeq(@, 2 + skipped, Len(@))]
  BY DEF ParserTakes
<1>4. OneUnderWay(s)
  BY <1>1 DEF UnderWay
<1>5. PICK p \in Own(s) : uart[s] = <<p>>
  <2>1. uart[s] # <<>>
    BY <1>3, LoopAssumption
  <2> QED
    BY <1>4, <2>1 DEF OneUnderWay
<1>6. held'[s] = <<p>> /\ uart'[s] = <<>> /\ parser'[s] = "send"
  <2>1. Head(uart[s]) = p /\ SubSeq(uart[s], 2 + skipped, Len(uart[s])) = <<>>
    BY <1>3, <1>5, LoopAssumption
  <2> QED
    BY <1>1, <1>2, <1>3, <2>1 DEF TypeOK
<1>7. \A t \in Sessions \ {s} : /\ held'[t] = held[t] /\ uart'[t] = uart[t]
                                /\ parser'[t] = parser[t]
  BY <1>1, <1>2, <1>3 DEF TypeOK
<1>8. TypeOK'
  <2>1. p \in Packet
    BY <1>5 DEF Own
  <2>2. held' \in [Sessions -> {<<>>} \cup {<<q>> : q \in Packet}]
    <3>1. Head(uart[s]) = p
      BY <1>5
    <3> QED
      BY <1>1, <1>3, <2>1, <3>1 DEF TypeOK
  <2>3. uart' \in [Sessions -> Seq(Packet)]
    <3>1. SubSeq(uart[s], 2 + skipped, Len(uart[s])) = <<>>
      BY <1>3, <1>5, LoopAssumption
    <3> QED
      BY <1>1, <1>3, <3>1 DEF TypeOK
  <2>4. parser' \in [Sessions -> {"off", "read", "send", "sleep"}]
    BY <1>1, <1>2 DEF TypeOK
  <2> QED
    BY <1>1, <1>2, <2>2, <2>3, <2>4 DEF TypeOK
<1>9. OneUnderWay(s)'
  <2>1. tester[s] \in {"receive", "failed"}
    BY <1>4, <1>5 DEF OneUnderWay, Empty
  <2>2. \A i \in DOMAIN queue[s] : queue[s][i].session # s
    BY <1>4, <1>5 DEF OneUnderWay, Empty
  <2>3. p \in Own(s)'
    BY <1>2, <1>5 DEF Own
  <2>4. held'[s] # <<>>
    BY <1>6
  <2> QED
    BY <1>2, <1>6, <2>1, <2>2, <2>3, <2>4 DEF OneUnderWay, Empty
<1>10. ASSUME NEW t \in Sessions, t # s PROVE OneUnderWay(t)'
  BY <1>1, <1>2, <1>7, <1>10, Elsewhere DEF UnderWay
<1> QED
  BY <1>8, <1>9, <1>10 DEF LoopInv, UnderWay

LEMMA SendInvariant ==
  ASSUME LoopInv, NEW s \in Sessions, ParserSends(s)
  PROVE  LoopInv'
<1>1. TypeOK /\ UnderWay
  BY DEF LoopInv
<1>2. /\ UNCHANGED <<script, tester, count, uart>>
      /\ parser[s] = "send"
      /\ held' = [held EXCEPT ![s] = <<>>]
      /\ parser' = [parser EXCEPT ![s] = "sleep"]
  BY DEF ParserSends, testerVars
<1>3. PICK reached \in SUBSET Listening :
        /\ lost' = IF reached = Listening THEN lost ELSE lost + 1
        /\ lost' <= MaxLost
        /\ queue' = [t \in Sessions |-> IF t \in reached THEN queue[t] \o held[s] ELSE queue[t]]
  BY DEF ParserSends
<1>4. OneUnderWay(s)
  BY <1>1 DEF UnderWay
<1>5. PICK p \in Own(s) : held[s] = <<p>>
  BY <1>2, <1>4 DEF OneUnderWay
<1>6. p \in Packet /\ p.session = s /\ uart[s] = <<>>
      /\ (tester[s] = "receive" => p.count = count[s])
  BY <1>4, <1>5 DEF Own, OneUnderWay
<1>7. ASSUME NEW t \in Sessions
      PROVE  /\ queue[t] \in Seq(Packet)
             /\ queue'[t] = queue[t] \/ (t \in reached /\ queue'[t] = Append(queue[t], p))
  <2>1. queue[t] \in Seq(Packet)
    BY <1>1 DEF TypeOK
  <2>2. queue[t] \o <<p>> = Append(queue[t], p)
    BY <1>6, <2>1
  <2> QED
    BY <1>3, <1>5, <2>1, <2>2
<1>8. lost \in Nat /\ lost' \in 0..MaxLost /\ (lost > 0 => lost' > 0)
  BY <1>1, <1>3, LoopAssumption DEF TypeOK
<1>9. TypeOK'
  <2>1. queue' \in [Sessions -> Seq(Packet)]
    <3> DEFINE next(t) == IF t \in reached THEN queue[t] \o held[s] ELSE queue[t]
    <3>1. queue' = [t \in Sessions |-> next(t)]
      BY <1>3
    <3>2. \A t \in Sessions : next(t) = queue'[t]
      BY <3>1
    <3>3. ASSUME NEW t \in Sessions PROVE next(t) \in Seq(Packet)
      <4> HIDE DEF next
      <4>1. /\ queue[t] \in Seq(Packet)
            /\ queue'[t] = queue[t] \/ queue'[t] = Append(queue[t], p)
        BY <1>7
      <4>2. Append(queue[t], p) \in Seq(Packet)
        BY <1>6, <4>1
      <4>3. queue'[t] \in Seq(Packet)
        BY <4>1, <4>2, Zenon
      <4>4. next(t) = queue'[t]
        BY <3>2
      <4> QED
        BY <4>3, <4>4, Zenon
    <3> HIDE DEF next
    <3> QED
      BY <3>1, <3>3
  <2>2. parser' \in [Sessions -> {"off", "read", "send", "sleep"}]
    BY <1>1, <1>2 DEF TypeOK
  <2>3. held' \in [Sessions -> {<<>>} \cup {<<q>> : q \in Packet}]
    BY <1>1, <1>2 DEF TypeOK
  <2> QED
    BY <1>1, <1>2, <1>8, <2>1, <2>2, <2>3 DEF TypeOK
<1>10. OneUnderWay(s)'
  <2>1. held'[s] = <<>> /\ parser'[s] = "sleep"
    BY <1>1, <1>2 DEF TypeOK
  <2>2. tester[s] \in {"receive", "failed"}
    BY <1>4, <1>5 DEF OneUnderWay, Empty
  <2>3. \A i \in DOMAIN queue[s] : queue[s][i].session # s
    BY <1>4, <1>5 DEF OneUnderWay, Empty
  <2>4. s \in reached => tester[s] = "receive"
    BY <2>2 DEF Listening
  <2>5. ASSUME NEW i \in DOMAIN queue'[s], queue'[s][i].session = s
        PROVE  /\ tester[s] = "receive"
               /\ queue'[s][i].count = count[s]
               /\ \A j \in DOMAIN queue'[s] : queue'[s][j].session = s => j = i
    <3>1. queue'[s] # queue[s]
      BY <2>3, <2>5
    <3>2. s \in reached /\ queue'[s] = Append(queue[s], p) /\ queue[s] \in Seq(Packet)
      BY <1>7, <3>1
    <3>3. \A j \in DOMAIN queue'[s] : queue'[s][j].session = s => j = Len(queue[s]) + 1
      BY <1>6, <2>3, <3>2
    <3>4. i = Len(queue[s]) + 1 /\ queue'[s][i] = p
      BY <1>6, <2>5, <3>2, <3>3
    <3> QED
      BY <1>6, <2>4, <3>2, <3>3, <3>4
  <2>6. tester[s] = "receive" /\ queue'[s] = <<>> => lost' > 0
    <3>1. CASE s \in reached
      BY <1>3, <1>5, <1>6, <1>7, <3>1
    <3>2. CASE s \notin reached /\ tester[s] = "receive"
      <4>1. s \in Listening
        BY <3>2 DEF Listening
      <4>2. lost' = lost + 1
        BY <1>3, <3>2, <4>1
      <4> QED
        BY <1>8, <4>2
    <3> QED
      BY <3>1, <3>2
  <2> QED
    BY <1>2, <1>6, <2>1, <2>2, <2>5, <2>6 DEF OneUnderWay, Empty
<1>11. ASSUME NEW t \in Sessions, t # s PROVE OneUnderWay(t)'
  <2>1. OneUnderWay(t) /\ held'[t] = held[t] /\ parser'[t] = parser[t]
    BY <1>1, <1>2, <1>11 DEF TypeOK, UnderWay
  <2>2. CASE queue'[t] = queue[t]
    BY <1>2, <1>8, <2>1, <2>2 DEF OneUnderWay, Own, Empty
  <2>3. CASE t \in reached /\ queue'[t] = Append(queue[t], p)
    <3>1. /\ queue[t] \in Seq(Packet)
          /\ queue'[t] # <<>>
          /\ DOMAIN queue[t] \subseteq DOMAIN queue'[t]
          /\ \A i \in DOMAIN queue'[t] :
               queue'[t][i].session = t => i \in DOMAIN queue[t] /\ queue'[t][i] = queue[t][i]
      BY <1>6, <1>7, <1>11, <2>3
    <3>2. \A i \in DOMAIN queue'[t] :
            queue'[t][i].session = t =>
              /\ tester[t] = "receive" /\ Empty(t) /\ queue'[t][i].count = count[t]
              /\ \A j \in DOMAIN queue'[t] : queue'[t][j].session = t => j = i
      BY <2>1, <3>1 DEF OneUnderWay
    <3> QED
      BY <1>2, <2>1, <3>1, <3>2 DEF OneUnderWay, Own, Empty
  <2> QED
    BY <1>7, <2>2, <2>3
<1> QED
  BY <1>9, <1>10, <1>11 DEF LoopInv, UnderWay

LEMMA LoopStep == LoopInv /\ [Next]_vars => LoopInv'
<1> SUFFICES ASSUME LoopInv, [Next]_vars PROVE LoopInv'
  OBVIOUS
<1>1. CASE Next
  <2>1. PICK s \in Sessions : StartSession(s) \/ EndSession(s) \/ Tester(s) \/ Parser(s)
    BY <1>1 DEF Next
  <2>2. CASE StartSession(s) \/ EndSession(s)
    BY <2>2, ScriptInvariant
  <2>3. CASE Tester(s)
    BY <2>3, TesterQuietInvariant, WriteInvariant, ReceiveInvariant DEF Tester
  <2>4. CASE Parser(s)
    BY <2>4, ParserQuietInvariant, TakeInvariant, SendInvariant DEF Parser
  <2> QED
    BY <2>1, <2>2, <2>3, <2>4
<1>2. CASE UNCHANGED vars
  <2>1. TypeOK'
    BY <1>2 DEF LoopInv, TypeOK, vars
  <2>2. UnderWay'
    BY <1>2, Elsewhere DEF LoopInv, UnderWay, vars
  <2> QED
    BY <2>1, <2>2 DEF LoopInv
<1> QED
  BY <1>1, <1>2

LEMMA LoopInvariant == Spec => []LoopInv
<1> QED
  BY LoopInit, LoopStep, PTL DEF Spec
-----------------------------------------------------------------------------
(* Type correctness of the system test, over any number of runs.           *)
THEOREM LoopTypeOK == Spec => []TypeOK
<1>1. LoopInv => TypeOK
  BY DEF LoopInv
<1> QED
  BY <1>1, LoopInvariant, PTL

(* Every session has at most one packet under way, and none while its      *)
(* tester does not wait (LoopTester.py:63-66): the inductive invariant.    *)
THEOREM OnePacketUnderWay == Spec => []UnderWay
<1>1. LoopInv => UnderWay
  BY DEF LoopInv
<1> QED
  BY <1>1, LoopInvariant, PTL

(* No line ever holds two frames, so imu_parser drops no frame of the      *)
(* test, even while the processes of earlier runs interfere.               *)
THEOREM TestInLockStep == Spec => []LockStep
<1>1. LoopInv => LockStep
  <2> SUFFICES ASSUME LoopInv, NEW s \in Sessions PROVE OnItsWay(s) <= 1
    BY DEF LockStep
  <2>1. OneUnderWay(s)
    BY DEF LoopInv, UnderWay
  <2>2. /\ Len(uart[s]) \in {0, 1} /\ Len(held[s]) \in {0, 1}
        /\ Len(uart[s]) = 0 \/ Len(held[s]) = 0
    BY <2>1 DEF OneUnderWay
  <2>3. \A a, b \in {0, 1} : a = 0 \/ b = 0 => a + b <= 1
    OBVIOUS
  <2> QED
    BY <2>2, <2>3, Zenon DEF OnItsWay
<1> QED
  BY <1>1, LoopInvariant, PTL

(* Tester and parser wait for each other for ever only after a broadcast   *)
(* was lost (LoopTester.py:66 has no timeout).                             *)
THEOREM StandstillOnlyAfterLoss == Spec => []StuckOnlyAfterLoss
<1>1. LoopInv => StuckOnlyAfterLoss
  <2> SUFFICES ASSUME LoopInv, NEW s \in Sessions, Stuck(s) PROVE lost > 0
    BY DEF StuckOnlyAfterLoss
  <2>1. OneUnderWay(s)
    BY DEF LoopInv, UnderWay
  <2>2. Empty(s)
    <3>1. /\ uart[s] = <<>> \/ Len(uart[s]) = 1
          /\ held[s] = <<>> \/ Len(held[s]) = 1
          /\ Len(uart[s]) \in {0, 1} /\ Len(held[s]) \in {0, 1}
      BY <2>1 DEF OneUnderWay
    <3>2. \A a \in {0, 1} : \A b \in {0, 1} : a + b = 0 => a # 1 /\ b # 1
      OBVIOUS
    <3>3. Len(uart[s]) + Len(held[s]) = 0
      BY DEF Stuck, OnItsWay
    <3> DEFINE a == Len(uart[s])
               b == Len(held[s])
    <3>4. a # 1 /\ b # 1
      <4>1. a \in {0, 1} /\ b \in {0, 1} /\ a + b = 0
        BY <3>1, <3>3
      <4> HIDE DEF a, b
      <4> QED
        BY <4>1
    <3> QED
      BY <3>1, <3>4, Zenon DEF Empty
  <2> QED
    BY <2>1, <2>2 DEF OneUnderWay, Stuck
<1> QED
  BY <1>1, LoopInvariant, PTL

-----------------------------------------------------------------------------
(* What a session that has not begun has no part in stays out of it: only  *)
(* a process of a session that has begun moves, and what it broadcasts is  *)
(* a packet of its own session.                                            *)
LEMMA IdleReceive ==
  ASSUME LoopInv, NEW s \in Sessions, TesterReceives(s),
         NEW t \in Sessions, NEW u \in Sessions,
         \A i \in DOMAIN queue[t] : queue[t][i].session # u
  PROVE  \A i \in DOMAIN queue'[t] : queue'[t][i].session # u
<1>1. queue \in [Sessions -> Seq(Packet)] /\ queue[t] \in Seq(Packet)
  BY DEF LoopInv, TypeOK
<1>2. \/ queue'[t] = queue[t]
      \/ queue'[t] = <<>>
      \/ queue[t] # <<>> /\ queue'[t] = Tail(queue[t])
  BY <1>1 DEF TesterReceives
<1>3. CASE queue[t] # <<>> /\ queue'[t] = Tail(queue[t])
  <2>1. \A i \in DOMAIN Tail(queue[t]) : i + 1 \in DOMAIN queue[t] /\ Tail(queue[t])[i] = queue[t][i + 1]
    BY <1>1, <1>3
  <2> QED
    BY <1>3, <2>1, Zenon
<1>4. CASE queue'[t] = <<>>
  BY <1>4
<1> QED
  BY <1>2, <1>3, <1>4

LEMMA IdleSend ==
  ASSUME LoopInv, NEW s \in Sessions, ParserSends(s),
         NEW t \in Sessions, NEW u \in Sessions, u # s,
         \A i \in DOMAIN queue[t] : queue[t][i].session # u
  PROVE  \A i \in DOMAIN queue'[t] : queue'[t][i].session # u
<1>1. queue[t] \in Seq(Packet)
  BY DEF LoopInv, TypeOK
<1>2. parser[s] = "send" /\ OneUnderWay(s)
  BY DEF ParserSends, LoopInv, UnderWay
<1>3. PICK p \in Own(s) : held[s] = <<p>>
  BY <1>2 DEF OneUnderWay
<1>4. p \in Packet /\ p.session = s
  BY <1>3 DEF Own
<1>5. queue'[t] = queue[t] \/ queue'[t] = queue[t] \o held[s]
  BY DEF ParserSends
<1>6. queue[t] \o held[s] = Append(queue[t], p)
  BY <1>1, <1>3, <1>4
<1>7. CASE queue'[t] = Append(queue[t], p)
  <2>1. \A i \in DOMAIN Append(queue[t], p) :
          \/ i \in DOMAIN queue[t] /\ Append(queue[t], p)[i] = queue[t][i]
          \/ Append(queue[t], p)[i] = p
    BY <1>1
  <2> QED
    BY <1>4, <1>7, <2>1, Zenon
<1> QED
  BY <1>5, <1>6, <1>7

LEMMA IdleStep == LoopInv /\ IdleInv /\ [Next]_vars => IdleInv'
<1> SUFFICES ASSUME LoopInv, IdleInv, [Next]_vars, NEW u \in Sessions, script'[u] = "idle"
             PROVE  NothingOf(u)'
  BY DEF IdleInv, Started
<1>1. script \in [Sessions -> {"idle", "testing", "complete"}]
  BY DEF LoopInv, TypeOK
<1>2. script[u] = "idle"
  BY <1>1 DEF Next, vars, StartSession, EndSession, Tester, TesterBinds, TesterOpens, TesterWrites,
     TesterReceives, TesterGoesOn, Parser, ParserOpens, ParserTakes, ParserPolls, ParserSends,
     ParserWakes
<1>3. NothingOf(u)
  BY <1>2 DEF IdleInv, Started
<1>4. tester'[u] = "off" /\ parser'[u] = "off"
  BY <1>2, <1>3 DEF NothingOf, Next, vars, StartSession, EndSession, Tester, TesterBinds,
     TesterOpens, TesterWrites, TesterReceives, TesterGoesOn, Parser, ParserOpens, ParserTakes,
     ParserPolls, ParserSends, ParserWakes, testerVars, parserVars, LoopInv, TypeOK
<1>5. ASSUME NEW t \in Sessions
      PROVE  \A i \in DOMAIN queue'[t] : queue'[t][i].session # u
  <2>1. \A i \in DOMAIN queue[t] : queue[t][i].session # u
    BY <1>3 DEF NothingOf
  <2>2. CASE \E s \in Sessions : TesterReceives(s)
    BY <2>1, <2>2, IdleReceive
  <2>3. CASE \E s \in Sessions : ParserSends(s)
    <3>1. PICK s \in Sessions : ParserSends(s)
      BY <2>3
    <3>2. u # s
      BY <1>3, <3>1 DEF ParserSends, NothingOf
    <3> QED
      BY <2>1, <3>1, <3>2, IdleSend
  <2>4. \/ \E s \in Sessions : TesterReceives(s) \/ ParserSends(s)
        \/ queue' = queue
    BY DEF Next, vars, StartSession, EndSession, Tester, TesterBinds, TesterOpens, TesterWrites,
       TesterGoesOn, Parser, ParserOpens, ParserTakes, ParserPolls, ParserWakes
  <2> QED
    BY <2>1, <2>2, <2>3, <2>4
<1> QED
  BY <1>4, <1>5 DEF NothingOf

(* An assertion of the tester (LoopTester.py:75-79) fails only if the      *)
(* script has been run more than once: the packet that fails it is of      *)
(* another session, for the only one of its own in the queue is the one    *)
(* written last.  In a single run, then, every assertion holds, however    *)
(* many frames are written and whatever is lost.                           *)
THEOREM FailureNeedsTwoRuns == Spec => []FailsOnlyAmongRuns
<1>1. Init => IdleInv /\ FailsOnlyAmongRuns
  BY DEF Init, IdleInv, Started, NothingOf, FailsOnlyAmongRuns
<1>2. LoopInv /\ IdleInv /\ FailsOnlyAmongRuns /\ [Next]_vars => FailsOnlyAmongRuns'
  <2> SUFFICES ASSUME LoopInv, IdleInv, FailsOnlyAmongRuns, [Next]_vars,
                      NEW r \in Sessions, tester'[r] = "failed"
               PROVE  \E s, t \in Started' : s # t
    BY DEF FailsOnlyAmongRuns
  <2>1. Started \subseteq Started'
    BY DEF Started, Next, vars, StartSession, EndSession, Tester, TesterBinds, TesterOpens,
       TesterWrites, TesterReceives, TesterGoesOn, Parser, ParserOpens, ParserTakes, ParserPolls,
       ParserSends, ParserWakes, LoopInv, TypeOK
  <2>2. CASE tester[r] = "failed"
    BY <2>1, <2>2 DEF FailsOnlyAmongRuns
  <2>3. CASE tester[r] # "failed"
    <3>1. tester \in [Sessions -> {"off", "bound", "write", "receive", "pause", "failed"}]
      BY DEF LoopInv, TypeOK
    <3>2. PICK s \in Sessions :
            TesterReceives(s) /\ Head(queue[s]) # [session |-> s, count |-> count[s]]
      BY <2>3, <3>1 DEF Next, vars, StartSession, EndSession, Tester, TesterBinds, TesterOpens,
         TesterWrites, TesterReceives, TesterGoesOn, Parser, ParserOpens, ParserTakes, ParserPolls,
         ParserSends, ParserWakes, testerVars
    <3>3. queue[s] \in Seq(Packet) /\ queue[s] # <<>> /\ tester[s] = "receive"
      BY <3>2 DEF LoopInv, TypeOK, TesterReceives
    <3>4. 1 \in DOMAIN queue[s] /\ Head(queue[s]) = queue[s][1] /\ Head(queue[s]) \in Packet
      BY <3>3
    <3>5. s \in Started
      BY <3>3 DEF IdleInv, Started, NothingOf
    <3>6. queue[s][1].session = s => queue[s][1].count = count[s]
      BY <3>4 DEF LoopInv, UnderWay, OneUnderWay
    <3>7. queue[s][1].session # s
      BY <3>2, <3>4, <3>6 DEF Packet
    <3>8. queue[s][1].session \in Sessions
      BY <3>4 DEF Packet
    <3>9. queue[s][1].session \in Started
      BY <3>4, <3>8 DEF IdleInv, Started, NothingOf
    <3> QED
      BY <2>1, <3>5, <3>7, <3>9
  <2> QED
    BY <2>2, <2>3
<1> QED
  BY <1>1, <1>2, IdleStep, LoopInvariant, PTL DEF Spec
=============================================================================
