----------------------------- MODULE ParserTest -----------------------------
(***************************************************************************)
(* The unit test of the parser, IMU_Parser/test/parser_test.cpp: five      *)
(* cases that fill the same global dataBuffer, call parsePacket and        *)
(* require what it must return.  Whoever starts the test selects cases and *)
(* the order they run in.                                                  *)
(*                                                                         *)
(* A requirement that is not met leaves its case at once, before the       *)
(* dataBuffer.clear() at its end: the case after it finds the bytes.       *)
(***************************************************************************)
EXTENDS ImuPacket, SequencesExt

(* Words as they are written: the value's bytes, most significant first.   *)
PacketOf(c, x, y, z) == [ packetCount |-> ntohl(c), X_GyroRate |-> ntohl(x),
                          Y_GyroRate |-> ntohl(y), Z_GyroRate |-> ntohl(z) ]

Packet1 == PacketOf(<<0, 0, 0, 1>>, <<63, 128, 0, 0>>, <<63, 166, 102, 102>>, <<63, 192, 0, 0>>)
Packet2 == PacketOf(<<0, 0, 0, 2>>, <<64, 216, 245, 195>>, <<66, 197, 153, 154>>, <<64, 156, 168, 193>>)
Packet3 == PacketOf(<<0, 0, 0, 3>>, <<64, 248, 245, 195>>, <<67, 90, 204, 205>>, <<64, 156, 168, 193>>)
Packet4 == PacketOf(<<0, 0, 0, 4>>, <<64, 89, 153, 154>>, <<64, 252, 122, 225>>, ZeroWord)

(* What a case pushes before each of its calls of parsePacket, and the     *)
(* results it requires.  The last call of "partial" may return any packet. *)
Step(bytes, second, first) == [bytes |-> bytes, second |-> second, first |-> first]

TestCases == [
  single    |-> <<Step(Encode(Packet1), TRUE, {Packet1})>>,
  malformed |-> <<Step(Encode(Packet1), FALSE, {ZeroPacket})>>,
  multiple  |-> <<Step(Encode(Packet2) \o Encode(Packet1), TRUE, {Packet2})>>,
  partial   |-> <<Step(Encode(Packet1), TRUE, {Packet1}),
                  Step(Encode(Packet3), TRUE, {Packet3}),
                  Step(SubSeq(Encode(Packet4), 1, 16), FALSE, ParsedPacket)>>,
  middle    |-> <<Step(<<149, 171, 205, 238>> \o Encode(Packet1), TRUE, {Packet1})>> ]

VARIABLES
  order,        \* the cases begun, oldest first
  step,         \* the next call of the case that runs; 0 between two cases
  dataBuffer,
  position,     \* a local of the case
  failed        \* the cases with a requirement that was not met

testVars == <<order, step, dataBuffer, position, failed>>

TestInit ==
  /\ order = <<>>
  /\ step = 0
  /\ dataBuffer = <<>>
  /\ position = 0
  /\ failed = {}

Begin(c) ==
  /\ step = 0
  /\ c \notin ToSet(order)
  /\ order' = Append(order, c)
  /\ step' = 1
  /\ position' = 0
  /\ UNCHANGED <<dataBuffer, failed>>

(* The malformed case spoils byte 0 of the buffer, whoever put it there.   *)
Pushed(c, bytes) ==
  IF c = "malformed" THEN [dataBuffer \o bytes EXCEPT ![1] = 143] ELSE dataBuffer \o bytes

(* One call of parsePacket with what precedes it and what is required of   *)
(* it.  After the last one the buffer is cleared.                          *)
CallParsePacket ==
  /\ step > 0
  /\ LET c == Last(order)
         call == TestCases[c][step]
         result == ParsePacket(Pushed(c, call.bytes), position, TRUE)
         met == result.second = call.second /\ result.first \in call.first
         over == step = Len(TestCases[c])
     IN  /\ position' = result.position
         /\ failed' = IF met THEN failed ELSE failed \cup {c}
         /\ step' = IF met /\ ~ over THEN step + 1 ELSE 0
         /\ dataBuffer' = IF met /\ over THEN <<>> ELSE result.buffer
  /\ UNCHANGED order

TestNext ==
  \/ \E c \in DOMAIN TestCases : Begin(c)
  \/ CallParsePacket

TestSpec == TestInit /\ [][TestNext]_testVars
-----------------------------------------------------------------------------
(* Properties.                                                             *)

TestTypeOK ==
  /\ order \in Seq(DOMAIN TestCases)
  /\ step \in 0..3
  /\ dataBuffer \in Seq(Byte)
  /\ position \in 0 .. POSITION_RANGE - 1
  /\ failed \subseteq DOMAIN TestCases

(* Every requirement of the test is met, whatever cases are selected and   *)
(* in whatever order they share the buffer (parser_test.cpp:17): in the    *)
(* middle of a case the buffer holds what the calls before have left.      *)
AllRequirementsHold == failed = {}
-----------------------------------------------------------------------------
(* The inductive invariant: every call of parsePacket finds an empty       *)
(* buffer behind what its case pushes, because the call before it parsed   *)
(* a packet or was the last of its case.                                   *)
TestInv ==
  /\ TestTypeOK
  /\ AllRequirementsHold
  /\ dataBuffer = <<>>
  /\ step > 0 => order # <<>> /\ step <= Len(TestCases[Last(order)])
=============================================================================
