---------------------------- MODULE MCNoisyLine ----------------------------
(* Instances of NoisyLine for TLC.                                         *)
EXTENDS NoisyLine

PacketOf(k) == [ packetCount |-> <<k, 0, 0, 1>>, X_GyroRate |-> <<k, 1, 2, 66>>,
                 Y_GyroRate |-> <<k, 3, 4, 193>>, Z_GyroRate |-> <<k, 5, 6, 65>> ]

OnePacket == {PacketOf(1)}

(* A stray byte that looks like the beginning of a header.                 *)
StrayByte == {<<HEADER1>>}

(* All of a frame but three bytes.                                         *)
MostOfAFrame == {17}

(* At the head of the line and further up; read() may take one byte at a   *)
(* time, so that every byte of the stream gets hit.                        *)
TwoPlaces == {0, 9}

(* With the end of a frame whose beginning is gone, more bytes ahead of a  *)
(* header than a uint8_t counts.                                           *)
LongRun == {[i \in 1..250 |-> HEADER1]}

(* A packet that ends in the last three bytes of a header on the line, and *)
(* a run that puts the next header at index 255 and no farther: three      *)
(* bytes of a frame, the run, and the other 17.                            *)
EndsLikeAHeader == {[PacketOf(1) EXCEPT !.Z_GyroRate = <<175, 28, 240, 65>>]}
RunToTheEdge == {[i \in 1..235 |-> HEADER1]}

SomeReads == {1, 33}
EdgeReads == {1, STAGING_SIZE}
LongReads == {1, 20, 128}
JoinInside == {7}
JoinAtStart == {0}
=============================================================================
