--------------------------- MODULE MCCaptureStore ---------------------------
(* Instances of CaptureStore for TLC. *)
EXTENDS CaptureStore

CONSTANTS f1, f2, f3, f4

MCFrames == {f1, f2, f3, f4}

\* A budget of three units: f1 and f2 fit together, two f2 do not, f4 never does.
MCFrameBytes == [f \in MCFrames |-> CASE f = f1 -> 1 [] f = f2 -> 2 [] f = f3 -> 3 [] f = f4 -> 4]

\* A name, and the text of a handle.
MCLabels == {<<"name", 1>>, <<"cap", 1>>}
=============================================================================
