---------------------------- MODULE MCTimedParser ----------------------------
(* An instance of TimedParser for TLC.                                     *)
EXTENDS TimedParser

OnePacket == { [ packetCount |-> <<1, 0, 0, 1>>, X_GyroRate |-> <<1, 1, 2, 66>>,
                 Y_GyroRate |-> <<1, 3, 4, 193>>, Z_GyroRate |-> <<1, 5, 6, 65>> ] }
EverySize == 1..STAGING_SIZE
JoinInside == {7}

(* All of a frame but its last byte.  A frame wholly on the wire is as one *)
(* not yet written.                                                        *)
Cuts == {0, 1}
=============================================================================
