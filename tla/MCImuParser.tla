---------------------------- MODULE MCImuParser ----------------------------
(* Instances of ImuParser for TLC.                                         *)
EXTENDS ImuParser

(* Two packets that differ in every field; the bytes of a word differ, so  *)
(* that an unswapped word shows.                                           *)
PacketOf(k) == [ packetCount |-> <<k, 0, 0, 1>>, X_GyroRate |-> <<k, 1, 2, 66>>,
                 Y_GyroRate |-> <<k, 3, 4, 193>>, Z_GyroRate |-> <<k, 5, 6, 65>> ]

TwoPackets == {PacketOf(1), PacketOf(2)}
OnePacket == {PacketOf(1)}

EverySize == 1..STAGING_SIZE
SomeJoins == {0, 1, 19}
=============================================================================
