-------------------------- MODULE MCReaderThreads --------------------------
(* Instances of ReaderThreads for TLC.                                     *)
EXTENDS ReaderThreads

PacketOf(k) == [ packetCount |-> <<k, 0, 0, 1>>, X_GyroRate |-> <<k, 1, 2, 66>>,
                 Y_GyroRate |-> <<k, 3, 4, 193>>, Z_GyroRate |-> <<k, 5, 6, 65>> ]

TwoPackets == {PacketOf(1), PacketOf(2)}
EitherSign == BOOLEAN
Zeroed == {ZeroPacket}

SomeReads == {1, 3, 20, 40}
SomeJoins == {0, 1, 13, 20}
=============================================================================
