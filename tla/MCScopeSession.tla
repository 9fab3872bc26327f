--------------------------- MODULE MCScopeSession ---------------------------
(* Instances of ScopeSession for TLC: a small frame that is usable and       *)
(* settles, and a large one that clips; the store has room for two small     *)
(* frames or one large one, and so has a loop's own.                          *)
EXTENDS ScopeSession

CONSTANTS good, large

MCFrames     == {good, large}
MCFrameBytes == [f \in MCFrames |-> IF f = large THEN 2 ELSE 1]
MCClipped    == {large}
MCTriggered  == {good, large}
MCSettled    == {good}
MCNoLabels   == {}
=============================================================================
