----------------------------- MODULE MCHarness -----------------------------
(* Instances of Harness for TLC: a pattern whose length is a multiple of a *)
(* word's and one whose length is not.                                     *)
EXTENDS Harness

MCLevel == [uart |-> <<1, 0, 1>>, square |-> <<1, 0, 0, 0>>]
=============================================================================
