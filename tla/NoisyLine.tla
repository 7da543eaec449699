----------------------------- MODULE NoisyLine -----------------------------
(***************************************************************************)
(* imu_parser on a line with faults: a run of bytes is lost on its way     *)
(* (the receiver overflows while the program sleeps), or a run of noise    *)
(* gets in (the line picks it up, or the port runs at the wrong speed).    *)
(* And the buffer of the line is finite: mock_imu writes without blocking  *)
(* and does not look at how much was written, so that a frame may go out   *)
(* without its end; when nothing can be written, mock_imu ends.            *)
(* The line is external; the program is the one of ImuParser, unchanged.   *)
(***************************************************************************)
EXTENDS ImuParser, SequencesExt

CONSTANTS
  NoiseRuns,    \* bound: what the line may pick up at a time
  LossSizes,    \* bound: the lengths of a run of lost bytes
  LineCapacity, \* bytes the line holds: 4096 in a Linux terminal, fewer in an instance
  Places,       \* bound: how far up the line, from the next byte read, a fault strikes
  MaxFaults     \* bound: number of faults

ASSUME NoiseAssumption ==
  /\ \A run \in NoiseRuns : run \in Seq(Byte) /\ run # <<>>
  /\ LossSizes \subseteq Nat \ {0}
  /\ LineCapacity \in Nat
  /\ Places \subseteq Nat
  /\ MaxFaults \in Nat

VARIABLE faults    \* history: faults of the line so far

noisyVars == <<vars, faults>>

NoisyInit == Init /\ faults = 0
-----------------------------------------------------------------------------
(* At place k of the line k bytes are ahead of the fault.                  *)
Insert(k, run) == SubSeq(line, 1, k) \o run \o SubSeq(line, k + 1, Len(line))

PickUpNoise ==
  /\ lineOpen
  /\ faults < MaxFaults
  /\ \E k \in Places, run \in NoiseRuns :
       /\ k <= Len(line)
       /\ line' = Insert(k, run)
  /\ faults' = faults + 1
  /\ UNCHANGED <<sent, lineOpen, parserVars>>

LoseBytes ==
  /\ lineOpen
  /\ faults < MaxFaults
  /\ \E k \in Places, n \in LossSizes :
       /\ k + n <= Len(line)
       /\ line' = SubSeq(line, 1, k) \o SubSeq(line, k + n + 1, Len(line))
  /\ faults' = faults + 1
  /\ UNCHANGED <<sent, lineOpen, parserVars>>

Room == LineCapacity - Len(line)

(* write() takes what there is room for and mock_imu goes on as if it had  *)
(* taken all of the frame.                                                 *)
ShortWrite ==
  /\ lineOpen
  /\ faults < MaxFaults
  /\ Len(sent) < MaxSent
  /\ Room \in 1 .. PACKET_SIZE - 1
  /\ \E p \in Packets :
       /\ sent' = Append(sent, p)
       /\ line' = line \o SubSeq(Encode(p), 1, Room)
  /\ faults' = faults + 1
  /\ UNCHANGED <<lineOpen, parserVars>>

(* When there is no room at all write() fails (EAGAIN): mock_imu throws    *)
(* and closes the port, which is the HangUp of ImuParser.                  *)
NoisyNext ==
  \/ Next /\ (sent' # sent => Room >= PACKET_SIZE) /\ UNCHANGED faults
  \/ ShortWrite
  \/ PickUpNoise
  \/ LoseBytes

NoisySpec == NoisyInit /\ [][NoisyNext]_noisyVars
-----------------------------------------------------------------------------
(* A fault costs at most one wrong datagram: the program finds the next    *)
(* frame by its header and a packet put together from two frames is never  *)
(* followed by another (parsePacket clears what it has read,               *)
(* parse_functions.cpp:49).  There is no checksum, so that one wrong       *)
(* datagram goes out as if it were good.  This is for noise of one byte at *)
(* a time.                                                                 *)
Wrong == {i \in DOMAIN broadcast : broadcast[i] \notin ToSet(sent)}

OneWrongPacketPerFault == Cardinality(Wrong) <= faults

(* A run of noise has a beginning and an end, and costs at most one wrong  *)
(* datagram for each, however long it is: a frame it cuts in two may be    *)
(* parsed with its first bytes, and again, by a header that the last bytes *)
(* of the run make with what is behind it, when clear()                    *)
(* (parse_functions.cpp:49) has come in between.                           *)
TwoWrongPacketsPerFault == Cardinality(Wrong) <= 2 * faults

(* The README, line 24: findHeader sets the position at the start of the   *)
(* packet.  So the packet parsed is the one that starts at the first       *)
(* header of the buffer, and all of it has arrived.                         *)
ParsesAtHeader ==
  [][pc = "read" /\ pc' = "send" =>
       LET b == Received(Len(line) - Len(line'))
           i == Min(HeaderIndices(b))
       IN  /\ i + PACKET_SIZE <= Len(b)
           /\ packet' = PacketAt(b, i, little_endian)]_noisyVars
=============================================================================
