---------------------------- MODULE MCParserTest ----------------------------
(* An instance of ParserTest for TLC.                                      *)
EXTENDS ParserTest
=============================================================================
