------------------------------ MODULE ImuParser ------------------------------
(***************************************************************************)
(* The imu_parser program, IMU_Parser/src/imu_parser.cpp, from the moment  *)
(* main() enters its loop: processIMU_Frames reads the UART in chunks,     *)
(* accumulates them in inputBuffer, has parsePacket look for a frame and   *)
(* broadcasts the packet it finds; main() then sleeps 80 ms.               *)
(*                                                                         *)
(* The other end of the line is an IMU that sends whole frames.  The       *)
(* program may be started in the middle of one.                            *)
(***************************************************************************)
EXTENDS ImuPacket

CONSTANTS
  Packets,       \* the packets the IMU may send
  MaxSent,       \* bound: number of frames the IMU sends
  ReadSizes,     \* bound: the byte counts a read() may return
  JoinOffsets    \* bound: bytes of the first frame gone when the port is opened

(* Mutant: half of it.                                                     *)
StagingHalf == 64

STAGING_SIZE == 128    \* sizeof(stagingBuffer)

ASSUME ParserAssumption ==
  /\ Packets \subseteq ParsedPacket
  /\ \A p, q \in Packets : NoFalseHeader(p, q)
  /\ MaxSent \in Nat
  /\ ReadSizes \subseteq 1..STAGING_SIZE
  /\ JoinOffsets \subseteq 0..PACKET_SIZE

(* main() finds the byte order of its host by looking at the first byte of *)
(* the integer 1.                                                          *)
little_endian == HostLittleEndian

VARIABLES
  sent,             \* history: the packets the IMU has put on the line
  line,             \* bytes sent and not yet read: on the wire or in the kernel
  lineOpen,         \* the far end holds the line open
  pc,               \* where the program is
  inputBuffer,
  indexInBuffer,
  packet,           \* parseResult.first, from parsePacket to sendto
  broadcast         \* history: the datagrams sent, oldest first

imuVars == <<sent, line, lineOpen>>
parserVars == <<pc, inputBuffer, indexInBuffer, packet, broadcast>>
vars == <<sent, line, lineOpen, pc, inputBuffer, indexInBuffer, packet, broadcast>>

Init ==
  /\ \/ sent = <<>> /\ line = <<>>
     \/ \E p \in Packets, k \in JoinOffsets :
          /\ sent = <<p>>
          /\ line = SubSeq(Encode(p), k + 1, PACKET_SIZE)
  /\ lineOpen = TRUE
  /\ pc = "read"
  /\ inputBuffer = <<>>
  /\ indexInBuffer = 0
  /\ packet = ZeroPacket
  /\ broadcast = <<>>
-----------------------------------------------------------------------------
(* The IMU.                                                                *)

Transmit ==
  /\ lineOpen
  /\ Len(sent) < MaxSent
  /\ \E p \in Packets :
       /\ sent' = Append(sent, p)
       /\ line' = line \o Encode(p)
  /\ UNCHANGED <<lineOpen, parserVars>>

HangUp ==
  /\ lineOpen
  /\ lineOpen' = FALSE
  /\ UNCHANGED <<sent, line, parserVars>>
-----------------------------------------------------------------------------
(* The program.                                                            *)

(* Mutants: the bytes read are put in front of inputBuffer; they replace   *)
(* it.                                                                     *)
ReceivedInFront(n) == SubSeq(line, 1, n) \o inputBuffer

ReceivedAlone(n) == SubSeq(line, 1, n)

(* read() returns n > 0 bytes, the part of the line that has arrived.      *)
(* They are inserted at the end of inputBuffer, which is then parsed.      *)
Received(n) == inputBuffer \o SubSeq(line, 1, n)

ReadBytes(n) ==
  /\ pc = "read"
  /\ n <= Len(line)
  /\ line' = SubSeq(line, n + 1, Len(line))
  /\ LET result == ParsePacket(Received(n), indexInBuffer, little_endian)
     IN  /\ inputBuffer' = result.buffer
         /\ indexInBuffer' = result.position
         /\ packet' = result.first
         /\ pc' = IF result.second THEN "send" ELSE "read"
  /\ UNCHANGED <<sent, lineOpen, broadcast>>

(* Nothing has arrived (EAGAIN): the program sleeps 10 ms.  Bytes may be   *)
(* on their way all the same.                                              *)
ReadWouldBlock ==
  /\ pc = "read"
  /\ lineOpen
  /\ pc' = "backoff"
  /\ UNCHANGED <<imuVars, inputBuffer, indexInBuffer, packet, broadcast>>

(* The line is hung up and drained: read() returns 0 or an error, which    *)
(* the program logs, and it calls read() again at once.                    *)
ReadFails ==
  /\ pc = "read"
  /\ ~ lineOpen
  /\ line = <<>>
  /\ UNCHANGED vars

EndBackoff ==
  /\ pc = "backoff"
  /\ pc' = "read"
  /\ UNCHANGED <<imuVars, inputBuffer, indexInBuffer, packet, broadcast>>

(* sendto() may fail; its result is not looked at.  processIMU_Frames      *)
(* returns either way.                                                     *)
Broadcast ==
  /\ pc = "send"
  /\ broadcast' \in {Append(broadcast, packet), broadcast}
  /\ packet' = ZeroPacket
  /\ pc' = "sleep"
  /\ UNCHANGED <<imuVars, inputBuffer, indexInBuffer>>

(* Mutant: the input that came during the sleep is flushed.                *)
EndSleepFlushing ==
  /\ pc = "sleep"
  /\ pc' = "read"
  /\ indexInBuffer' = 0
  /\ line' = <<>>
  /\ UNCHANGED <<sent, lineOpen, inputBuffer, packet, broadcast>>

(* The 80 ms are over: processIMU_Frames is called again, with a new       *)
(* indexInBuffer and the inputBuffer it left.                              *)
EndSleep ==
  /\ pc = "sleep"
  /\ pc' = "read"
  /\ indexInBuffer' = 0
  /\ UNCHANGED <<imuVars, inputBuffer, packet, broadcast>>

Next ==
  \/ Transmit
  \/ HangUp
  \/ \E n \in ReadSizes : ReadBytes(n)
  \/ ReadWouldBlock
  \/ ReadFails
  \/ EndBackoff
  \/ Broadcast
  \/ EndSleep

Spec == Init /\ [][Next]_vars

(* Sleeps end and sendto returns: the host schedules the process.  A byte  *)
(* on the line arrives within microseconds and the program never stops     *)
(* polling, so read() cannot come back empty for ever.                     *)
Fairness ==
  /\ SF_vars(\E n \in ReadSizes : ReadBytes(n))
  /\ WF_vars(EndBackoff)
  /\ WF_vars(Broadcast)
  /\ WF_vars(EndSleep)

FairSpec == Spec /\ Fairness
-----------------------------------------------------------------------------
(* Properties.                                                             *)

TypeOK ==
  /\ sent \in Seq(Packets)
  /\ line \in Seq(Byte)
  /\ lineOpen \in BOOLEAN
  /\ pc \in {"read", "backoff", "send", "sleep"}
  /\ inputBuffer \in Seq(Byte)
  /\ indexInBuffer \in 0 .. POSITION_RANGE - 1
  /\ packet \in ParsedPacket
  /\ broadcast \in Seq(ParsedPacket)

(* Every datagram is a packet the IMU sent, with its four fields in the    *)
(* byte order of the host: no datagram is made of pieces of two frames, of *)
(* a frame whose beginning was missed, or of unswapped fields              *)
(* (parsePacket, imu_parser.cpp:26).                                       *)
BroadcastGenuine == \A i \in DOMAIN broadcast : broadcast[i] \in {sent[k] : k \in DOMAIN sent}

(* Between two reads no complete frame waits in inputBuffer, at whatever   *)
(* index it begins: the frame a chunk completes is taken at once, and none *)
(* is left behind when the program goes to sleep.                          *)
NoCompleteFrameWaiting ==
  \A i \in 0 .. Len(inputBuffer) - PACKET_SIZE : ~ HeaderAt(inputBuffer, i)

(* On a line without faults inputBuffer keeps less than the end of a frame *)
(* whose beginning was thrown away and the beginning of the next one: the  *)
(* 1024 bytes reserved (imu_parser.cpp:15) are never outgrown, and the     *)
(* index of a header fits the uint8_t it is stored in.                     *)
BufferBounded ==
  /\ Len(inputBuffer) <= 2 * (PACKET_SIZE - 1)
  /\ indexInBuffer < PACKET_SIZE

(* A complete frame that waits, on the line or in inputBuffer, leads to a  *)
(* broadcast, however the reads cut it up.                                 *)
Pending == inputBuffer \o line

FrameWaiting ==
  /\ pc # "send"
  /\ \E i \in 0 .. Len(Pending) - PACKET_SIZE : HeaderAt(Pending, i)

FrameIsRelayed == FrameWaiting ~> (pc = "send")

(* The program is a relay.  A packet has passed when the first byte of its *)
(* frame has left line and inputBuffer.  One read() holds fewer than       *)
(* STAGING_SIZE bytes behind the end of the frame it completes; clear()    *)
(* throws them away, and with them every packet whose frame begins there.  *)
Base == PACKET_SIZE * Len(sent) - Len(Pending)    \* bytes that have left

FramesPassed == (Base + PACKET_SIZE - 1) \div PACKET_SIZE

Relay == INSTANCE PacketRelay WITH
  MaxSkip <- (STAGING_SIZE + PACKET_SIZE - 2) \div PACKET_SIZE,
  passed <- FramesPassed,
  held <- IF pc = "send" THEN <<packet>> ELSE <<>>,
  delivered <- broadcast

(* In-order, at-most-once relay of unaltered packets, at most seven of     *)
(* them lost behind each one taken.                                        *)
ImplementsRelay == Relay!Spec

(* What a listener relies on: the datagrams are a subsequence of the       *)
(* packets sent, whatever the reads, the skipped frames and the failed     *)
(* sendto calls in between.                                                *)
RelayInOrder == Relay!InOrder

(* The comment on indexInBuffer (imu_parser.cpp:16): the program goes into *)
(* the byte stream to find the most recent packet to parse.  So the packet *)
(* parsed is the last complete frame of the buffer.                        *)
CompleteFrames(b) == {i \in HeaderIndices(b) : i + PACKET_SIZE <= Len(b)}

ParsesMostRecent ==
  [][pc = "read" /\ pc' = "send" =>
       LET b == Received(Len(line) - Len(line'))
       IN  packet' = PacketAt(b, Max(CompleteFrames(b)), little_endian)]_vars
-----------------------------------------------------------------------------
(* The inductive invariant.                                                *)

(* Byte k, from 0, of the stream of the frames of s.                       *)
Wire(s, k) == Encode(s[(k \div PACKET_SIZE) + 1])[(k % PACKET_SIZE) + 1]

NextFrame == PACKET_SIZE * FramesPassed - Base    \* where in Pending a frame begins

(* inputBuffer and line are a suffix of the bytes sent: what is lost is    *)
(* lost at the front.  inputBuffer ends before the first frame in it does, *)
(* and after a packet was parsed it is empty until the next read           *)
(* (parse_functions.cpp:49, imu_parser.cpp:22-29).                         *)
Streaming ==
  /\ Len(Pending) <= PACKET_SIZE * Len(sent)
  /\ \A i \in 1..Len(Pending) : Pending[i] = Wire(sent, Base + i - 1)
  /\ Len(inputBuffer) < NextFrame + PACKET_SIZE
  /\ pc \in {"send", "sleep"} => inputBuffer = <<>>
  /\ indexInBuffer < PACKET_SIZE
  /\ pc = "send" => packet \in {sent[k] : k \in DOMAIN sent}

IInv == TypeOK /\ Streaming /\ BroadcastGenuine
=============================================================================
