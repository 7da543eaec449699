----------------------------- MODULE MCLoopTest -----------------------------
(* Instances of LoopTest for TLC.                                          *)
EXTENDS LoopTest
=============================================================================
