---------------------------- MODULE MCScpiStream ----------------------------
(* Instances of ScpiStream for TLC.                                        *)
EXTENDS ScpiStream

MCMemoryDepths == <<{2}, {1}>>
=============================================================================
