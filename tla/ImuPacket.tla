------------------------------ MODULE ImuPacket ------------------------------
(***************************************************************************)
(* The frame of the IMU and the two parsing functions:                     *)
(*   IMU_Parser/src/parse_functions.h, parse_functions.cpp                 *)
(* and the encoder every sender of the repository uses:                    *)
(*   IMU_Parser/test/fake_data.cpp, fake_data_extern.cpp, parser_test.cpp. *)
(*                                                                         *)
(* A byte is an integer 0..255 and every size is the one of the code.  A   *)
(* buffer is a sequence of bytes; positions are 0-based as in the code, so *)
(* byte i of dataBuffer is dataBuffer[i + 1].                              *)
(***************************************************************************)
EXTENDS Integers, Sequences, FiniteSetsExt

CONSTANT HostLittleEndian    \* byte order of the machine that runs the code

ASSUME HostOrderAssumption == HostLittleEndian \in BOOLEAN

PACKET_SIZE == 20
HEADER_SIZE == 4
HEADER1 == 127    \* 0x7F
HEADER2 == 240    \* 0xF0
HEADER3 == 28     \* 0x1C
HEADER4 == 175    \* 0xAF

(* Mutant: a position kept in the seven bits a signed char has for it.     *)
PositionRangeSigned == 128

POSITION_RANGE == 256    \* *position is a uint8_t

Byte == 0..255
Word == Byte \X Byte \X Byte \X Byte    \* the four bytes of a field in memory

\* Fields hold their bytes as they lie in the memory of the host.
ParsedPacket == [packetCount : Word, X_GyroRate : Word, Y_GyroRate : Word, Z_GyroRate : Word]

ZeroWord == <<0, 0, 0, 0>>
ZeroPacket == [packetCount |-> ZeroWord, X_GyroRate |-> ZeroWord,
               Y_GyroRate |-> ZeroWord, Z_GyroRate |-> ZeroWord]

-----------------------------------------------------------------------------
(* ntohl and htonl of the C library: they swap the bytes of a word on a    *)
(* little-endian host and return it unchanged on a big-endian one.         *)
ntohl(w) == IF HostLittleEndian THEN <<w[4], w[3], w[2], w[1]>> ELSE w

(* createFakePacket and addPacketToBuffer: the header, then the four fields *)
(* in network byte order, pushed back one byte at a time.                   *)
Encode(p) ==
  LET c == ntohl(p.packetCount)
      x == ntohl(p.X_GyroRate)
      y == ntohl(p.Y_GyroRate)
      z == ntohl(p.Z_GyroRate)
  IN  << HEADER1, HEADER2, HEADER3, HEADER4,
         c[1], c[2], c[3], c[4],
         x[1], x[2], x[3], x[4],
         y[1], y[2], y[3], y[4],
         z[1], z[2], z[3], z[4] >>

-----------------------------------------------------------------------------
HeaderAt(dataBuffer, i) ==
  /\ dataBuffer[i + 1] = HEADER1
  /\ dataBuffer[i + 2] = HEADER2
  /\ dataBuffer[i + 3] = HEADER3
  /\ dataBuffer[i + 4] = HEADER4

(* The header occurs in the stream of frames only where a frame begins.    *)
(* The generator of the repository guarantees it: 0x7F is never the first  *)
(* byte of a rate between -100 and 100, 0xF0, 0x1C and 0xAF would follow   *)
(* it in the next field only as the first byte of a rate out of range or   *)
(* far smaller than the steps between the rates, and the packet count is   *)
(* small.                                                                  *)
NoFalseHeader(p, q) == \A i \in 1 .. PACKET_SIZE - 1 : ~ HeaderAt(Encode(p) \o Encode(q), i)

(* The indices at which the loop of findHeader sees a header: it stops     *)
(* short of the last index at which four bytes remain.                     *)
HeaderIndices(dataBuffer) ==
  {i \in 0 .. Len(dataBuffer) - HEADER_SIZE - 1 : HeaderAt(dataBuffer, i)}

(* Mutants of findHeader: the last header in the buffer, not the first;    *)
(* an index of -1 when there is none.                                      *)
FindHeaderLast(dataBuffer, position) ==
  IF HeaderIndices(dataBuffer) = {}
  THEN [found |-> FALSE, position |-> position]
  ELSE [found |-> TRUE, position |-> Max(HeaderIndices(dataBuffer)) % POSITION_RANGE]

FindHeaderMinusOne(dataBuffer, position) ==
  IF HeaderIndices(dataBuffer) = {}
  THEN [found |-> FALSE, position |-> -1]
  ELSE [found |-> TRUE, position |-> Min(HeaderIndices(dataBuffer)) % POSITION_RANGE]

(* findHeader: the first such index, stored in a uint8_t.                  *)
FindHeader(dataBuffer, position) ==
  IF HeaderIndices(dataBuffer) = {}
  THEN [found |-> FALSE, position |-> position]
  ELSE [found |-> TRUE, position |-> Min(HeaderIndices(dataBuffer)) % POSITION_RANGE]

(* Mutants: three bytes copied; the test of the byte order inverted.       *)
FieldShort(dataBuffer, offset, little_endian) ==
  << dataBuffer[offset + 1], dataBuffer[offset + 2], dataBuffer[offset + 3] >>

FieldInverted(dataBuffer, offset, little_endian) ==
  LET w == << dataBuffer[offset + 1], dataBuffer[offset + 2],
              dataBuffer[offset + 3], dataBuffer[offset + 4] >>
  IN  IF little_endian THEN w ELSE ntohl(w)

(* memcpy of four bytes, then ntohl if the caller says little-endian.      *)
Field(dataBuffer, offset, little_endian) ==
  LET w == << dataBuffer[offset + 1], dataBuffer[offset + 2],
              dataBuffer[offset + 3], dataBuffer[offset + 4] >>
  IN  IF little_endian THEN ntohl(w) ELSE w

PacketAt(dataBuffer, i, little_endian) ==
  [ packetCount |-> Field(dataBuffer, i + 4, little_endian),
    X_GyroRate  |-> Field(dataBuffer, i + 8, little_endian),
    Y_GyroRate  |-> Field(dataBuffer, i + 12, little_endian),
    Z_GyroRate  |-> Field(dataBuffer, i + 16, little_endian) ]

(* Mutants of parsePacket: a frame that ends where the buffer ends is not  *)
(* taken; the buffer is not cleared; only what precedes the end of the     *)
(* frame is erased.                                                        *)
ParsePacketStrict(dataBuffer, position, little_endian) ==
  LET header == FindHeader(dataBuffer, position)
  IN  IF header.found /\ header.position + PACKET_SIZE < Len(dataBuffer)
      THEN [ buffer |-> <<>>, position |-> 0, second |-> TRUE,
             first |-> PacketAt(dataBuffer, header.position, little_endian) ]
      ELSE [ buffer |-> dataBuffer, position |-> header.position, second |-> FALSE,
             first |-> ZeroPacket ]

ParsePacketKeepsBuffer(dataBuffer, position, little_endian) ==
  LET header == FindHeader(dataBuffer, position)
  IN  IF header.found /\ header.position + PACKET_SIZE <= Len(dataBuffer)
      THEN [ buffer |-> dataBuffer, position |-> 0, second |-> TRUE,
             first |-> PacketAt(dataBuffer, header.position, little_endian) ]
      ELSE [ buffer |-> dataBuffer, position |-> header.position, second |-> FALSE,
             first |-> ZeroPacket ]

ParsePacketKeepsTail(dataBuffer, position, little_endian) ==
  LET header == FindHeader(dataBuffer, position)
      end == header.position + PACKET_SIZE
  IN  IF header.found /\ end <= Len(dataBuffer)
      THEN [ buffer |-> SubSeq(dataBuffer, end + 1, Len(dataBuffer)), position |-> 0,
             second |-> TRUE, first |-> PacketAt(dataBuffer, header.position, little_endian) ]
      ELSE [ buffer |-> dataBuffer, position |-> header.position, second |-> FALSE,
             first |-> ZeroPacket ]

(* parsePacket: the buffer and the position it leaves and the pair it      *)
(* returns.  A parsed packet clears the whole buffer, not only its frame.  *)
ParsePacket(dataBuffer, position, little_endian) ==
  LET header == FindHeader(dataBuffer, position)
  IN  IF header.found /\ header.position + PACKET_SIZE <= Len(dataBuffer)
      THEN [ buffer |-> <<>>, position |-> 0, second |-> TRUE,
             first |-> PacketAt(dataBuffer, header.position, little_endian) ]
      ELSE [ buffer |-> dataBuffer, position |-> header.position, second |-> FALSE,
             first |-> ZeroPacket ]
=============================================================================
