----------------------------- MODULE MCPortSetup -----------------------------
(* Instances of PortSetup for TLC.                                         *)
EXTENDS PortSetup

ParserOnly == {"imu_parser"}
=============================================================================
