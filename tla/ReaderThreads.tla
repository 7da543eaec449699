--------------------------- MODULE ReaderThreads ---------------------------
(***************************************************************************)
(* The imu_reader program, IMU_Parser/src/imu_reader.cpp: the two-thread   *)
(* variant of the parser.  receive() reads the UART and adds the bytes to  *)
(* dataBuffer; broadcast() parses dataBuffer and sends a datagram, again   *)
(* and again; dataBufferMtx protects dataBuffer.                           *)
(*                                                                         *)
(* interrupt_handler is installed nowhere, so halt stays false and neither *)
(* loop ends.                                                              *)
(***************************************************************************)
EXTENDS ImuPacket

CONSTANTS
  Signedness,    \* bound: whether char is signed on the platforms of the builds
  Packets,       \* the packets the IMU may send
  Garbage,       \* what a ParsedPacket that nobody wrote to may hold
  MaxSent,       \* bound: number of frames the IMU sends
  ReadSizes,     \* bound: the byte counts a read() may return
  JoinOffsets    \* bound: bytes of the first frame gone when the port is opened

ASSUME ReaderAssumption ==
  /\ Signedness \subseteq BOOLEAN
  /\ Packets \subseteq ParsedPacket
  /\ Garbage \subseteq ParsedPacket
  /\ MaxSent \in Nat
  /\ ReadSizes \subseteq 1..128
  /\ JoinOffsets \subseteq 0..PACKET_SIZE

VARIABLES
  charSigned,   \* char is signed where this program was built; never changes
  sent,         \* history: the packets the IMU has put on the line
  line,         \* bytes sent and not yet read
  receiver,     \* where the thread that runs receive() is
  staging,      \* the bytes of stagingBuffer that read() filled
  dataBuffer,
  mutex,        \* dataBufferMtx: "free" or the thread that holds it
  broadcaster,  \* where the thread that runs broadcast() is
  packet,       \* the packet parse() returned last
  copied        \* parse() copied the fields of that packet from dataBuffer

lineVars == <<charSigned, sent, line>>
receiverVars == <<receiver, staging>>
broadcasterVars == <<broadcaster, packet, copied>>
vars == <<charSigned, sent, line, receiver, staging, dataBuffer, mutex, broadcaster, packet, copied>>

Init ==
  /\ charSigned \in Signedness
  /\ \E p \in Packets, k \in JoinOffsets :
       /\ sent = <<p>>
       /\ line = SubSeq(Encode(p), k + 1, PACKET_SIZE)
  /\ receiver = "read"
  /\ staging = <<>>
  /\ dataBuffer = <<>>
  /\ mutex = "free"
  /\ broadcaster = "lock"
  /\ packet \in Garbage
  /\ copied = FALSE

Transmit ==
  /\ Len(sent) < MaxSent
  /\ \E p \in Packets :
       /\ sent' = Append(sent, p)
       /\ line' = line \o Encode(p)
  /\ UNCHANGED <<charSigned, receiverVars, dataBuffer, mutex, broadcasterVars>>
-----------------------------------------------------------------------------
(* receive()                                                               *)

Read(n) ==
  /\ receiver = "read"
  /\ n <= Len(line)
  /\ staging' = SubSeq(line, 1, n)
  /\ line' = SubSeq(line, n + 1, Len(line))
  /\ receiver' = "lock"
  /\ UNCHANGED <<charSigned, sent, dataBuffer, mutex, broadcasterVars>>

(* Nothing there, or a read error: it sleeps or logs, and reads again.     *)
ReadNothing ==
  /\ receiver = "read"
  /\ UNCHANGED vars

(* Mutant: the mutex is not waited for.                                    *)
ReceiverBargesIn ==
  /\ receiver = "lock"
  /\ mutex' = "receiver"
  /\ receiver' = "insert"
  /\ UNCHANGED <<lineVars, staging, dataBuffer, broadcasterVars>>

ReceiverLocks ==
  /\ receiver = "lock"
  /\ mutex = "free"
  /\ mutex' = "receiver"
  /\ receiver' = "insert"
  /\ UNCHANGED <<lineVars, staging, dataBuffer, broadcasterVars>>

(* Mutant: the bytes are inserted in front.                                *)
InsertInFront ==
  /\ receiver = "insert"
  /\ dataBuffer' = staging \o dataBuffer
  /\ staging' = <<>>
  /\ mutex' = "free"
  /\ receiver' = "read"
  /\ UNCHANGED <<lineVars, broadcasterVars>>

(* insert() and unlock().                                                  *)
Insert ==
  /\ receiver = "insert"
  /\ dataBuffer' = dataBuffer \o staging
  /\ staging' = <<>>
  /\ mutex' = "free"
  /\ receiver' = "read"
  /\ UNCHANGED <<lineVars, broadcasterVars>>
-----------------------------------------------------------------------------
(* broadcast()                                                             *)

BroadcasterLocks ==
  /\ broadcaster = "lock"
  /\ mutex = "free"
  /\ mutex' = "broadcaster"
  /\ broadcaster' = "parse"
  /\ UNCHANGED <<lineVars, receiverVars, dataBuffer, packet, copied>>

(* Mutant: the vector holds uint8_t.                                       *)
CharsUnsigned == dataBuffer

(* dataBuffer is a vector of char: where char is signed, a byte above 127  *)
(* is read as a negative number and equals no header byte above 127.       *)
Chars == [i \in DOMAIN dataBuffer |->
            IF charSigned /\ dataBuffer[i] > 127 THEN dataBuffer[i] - 256 ELSE dataBuffer[i]]

(* Mutant: the frame that was copied is erased too.                        *)
ParseErasesFrame ==
  /\ broadcaster = "parse"
  /\ LET header == FindHeader(Chars, 0)
     IN  /\ copied' = (header.found /\ header.position + PACKET_SIZE <= Len(dataBuffer))
         /\ \/ copied' /\ packet' = PacketAt(dataBuffer, header.position, FALSE)
            \/ ~ copied' /\ packet' \in Garbage \cup {packet}
         /\ dataBuffer' = SubSeq(dataBuffer, header.position + 1 + IF copied' THEN PACKET_SIZE ELSE 0,
                                 Len(dataBuffer))
  /\ mutex' = "free"
  /\ broadcaster' = "send"
  /\ UNCHANGED <<lineVars, receiverVars>>

(* parse(), to the unlock: what precedes the header is erased, the frame   *)
(* itself is not.  A packet that was not copied holds what its memory      *)
(* held: anything, or the packet of the call before.                       *)
Parse ==
  /\ broadcaster = "parse"
  /\ LET header == FindHeader(Chars, 0)
     IN  /\ copied' = (header.found /\ header.position + PACKET_SIZE <= Len(dataBuffer))
         /\ \/ copied' /\ packet' = PacketAt(dataBuffer, header.position, FALSE)
            \/ ~ copied' /\ packet' \in Garbage \cup {packet}
         /\ dataBuffer' = SubSeq(dataBuffer, header.position + 1, Len(dataBuffer))
  /\ mutex' = "free"
  /\ broadcaster' = "send"
  /\ UNCHANGED <<lineVars, receiverVars>>

(* sendto(), whether or not there was anything to send.                    *)
Send ==
  /\ broadcaster = "send"
  /\ broadcaster' = "lock"
  /\ UNCHANGED <<lineVars, receiverVars, dataBuffer, mutex, packet, copied>>

Next ==
  \/ Transmit
  \/ \E n \in ReadSizes : Read(n)
  \/ ReadNothing
  \/ ReceiverLocks
  \/ Insert
  \/ BroadcasterLocks
  \/ Parse
  \/ Send

Spec == Init /\ [][Next]_vars
-----------------------------------------------------------------------------
(* Properties.                                                             *)

TypeOK ==
  /\ charSigned \in BOOLEAN
  /\ sent \in Seq(Packets)
  /\ line \in Seq(Byte)
  /\ receiver \in {"read", "lock", "insert"}
  /\ staging \in Seq(Byte)
  /\ dataBuffer \in Seq(Byte)
  /\ mutex \in {"free", "receiver", "broadcaster"}
  /\ broadcaster \in {"lock", "parse", "send"}
  /\ packet \in ParsedPacket
  /\ copied \in BOOLEAN

(* The two threads are never in dataBuffer together: no insert() moves the *)
(* bytes that parse() is copying (imu_reader.cpp:44 and 81).               *)
NoRace == ~ (receiver = "insert" /\ broadcaster = "parse")

(* What is copied is a packet that was sent, its fields in the order of    *)
(* the network: no frame is torn by a read, by the lock taken between two  *)
(* chunks of it, or by the erase() in front of it (imu_reader.cpp:47-57).  *)
InNetworkOrder(p) ==
  [ packetCount |-> ntohl(p.packetCount), X_GyroRate |-> ntohl(p.X_GyroRate),
    Y_GyroRate |-> ntohl(p.Y_GyroRate), Z_GyroRate |-> ntohl(p.Z_GyroRate) ]

CopiedGenuine == copied => \E k \in DOMAIN sent : packet = InNetworkOrder(sent[k])

(* Nothing removes a frame that was parsed: position is 0 from then on,    *)
(* erase() does nothing (imu_reader.cpp:55), and the program broadcasts    *)
(* its first packet for ever, whatever arrives behind it.                  *)
StaysOnFirstFrame == [][copied => copied' /\ packet' = packet]_vars

(* Where char is signed no header is ever found: what is broadcast is what *)
(* the memory of the packet held, and nothing is ever erased.  All that    *)
(* arrived stays in dataBuffer.                                            *)
NothingParsed ==
  charSigned =>
    /\ ~ copied
    /\ PACKET_SIZE * Len(sent) - Len(dataBuffer \o staging \o line) \in JoinOffsets
-----------------------------------------------------------------------------
(* The inductive invariant.                                                *)

Unparsed == dataBuffer \o staging \o line

(* A frame begins within the first PACKET_SIZE bytes that are not erased,  *)
(* or will when the IMU sends the next: findHeader never looks so far that *)
(* its uint8_t wraps.                                                      *)
FrameNear ==
  \E k \in 0..PACKET_SIZE :
    \/ k = Len(Unparsed)
    \/ k + PACKET_SIZE <= Len(Unparsed) /\ HeaderAt(Unparsed, k)

(* What was parsed is still in front.                                      *)
FirstFrame ==
  copied => /\ PACKET_SIZE <= Len(dataBuffer)
            /\ HeaderAt(Chars, 0)
            /\ packet = PacketAt(dataBuffer, 0, FALSE)

NothingStaged == receiver = "read" => staging = <<>>

ReaderInv == TypeOK /\ NothingStaged /\ FrameNear /\ FirstFrame /\ NothingParsed

(* If no frame holds a second header: what is not erased begins with k     *)
(* bytes of the first frame, the second frame behind them as soon as it is *)
(* sent.                                                                   *)
FirstTwo == Encode(sent[1]) \o Encode(sent[IF Len(sent) = 1 THEN 1 ELSE 2])

FrontAt(k) ==
  /\ \/ Len(sent) = 1 /\ k = Len(Unparsed)
     \/ Len(sent) > 1 /\ k + PACKET_SIZE <= Len(Unparsed)
  /\ \A i \in 1 .. k + PACKET_SIZE :
       i <= Len(Unparsed) => Unparsed[i] = FirstTwo[PACKET_SIZE - k + i]

FrontInv == \E k \in 0..PACKET_SIZE : FrontAt(k)
=============================================================================
