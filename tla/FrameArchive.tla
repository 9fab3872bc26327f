---------------------------- MODULE FrameArchive ----------------------------
(***************************************************************************)
(* What the capture store promises its callers (the management guarantees  *)
(* in the docstring of session/store.py), without labels, sizes or ids:    *)
(* an archive issues handles, each bound to one frame for good; a bound    *)
(* frame is live until it is superseded, if it is not pinned, or retired;  *)
(* asking for a handle yields the frame it is bound to, or that it is gone.*)
(***************************************************************************)
EXTENDS Integers

CONSTANTS Frames, Handles, Gone, NoAnswer

VARIABLES
    bound,   \* issued handle -> its frame
    live,    \* the handles whose frame is still stored
    pinned,  \* the live handles exempt from superseding
    answer   \* <<handle, frame>> or <<handle, Gone>> for the last question

vars == <<bound, live, pinned, answer>>

Init ==
    /\ bound = [h \in {} |-> Gone]
    /\ live = {}
    /\ pinned = {}
    /\ answer = NoAnswer

\* A fresh handle; every frame that is not pinned is superseded.
Issue(h, f) ==
    /\ h \notin DOMAIN bound
    /\ bound' = [i \in DOMAIN bound \cup {h} |-> IF i = h THEN f ELSE bound[i]]
    /\ live' = pinned \cup {h}
    /\ pinned' \in {pinned, pinned \cup {h}}
    /\ answer' = NoAnswer

Supersede ==
    /\ live' = pinned
    /\ answer' = NoAnswer
    /\ UNCHANGED <<bound, pinned>>

Pin(h) ==
    /\ h \in live
    /\ pinned' = pinned \cup {h}
    /\ answer' = NoAnswer
    /\ UNCHANGED <<bound, live>>

\* Somebody gives up some of the stored frames.
Retire(S) ==
    /\ live' = live \ S
    /\ pinned' = pinned \ S
    /\ answer' = NoAnswer
    /\ UNCHANGED bound

Ask(h) ==
    /\ answer' = <<h, IF h \in live THEN bound[h] ELSE Gone>>
    /\ UNCHANGED <<bound, live, pinned>>

\* A call that asks for no handle and changes nothing.
Other ==
    /\ answer' = NoAnswer
    /\ UNCHANGED <<bound, live, pinned>>

Next ==
    \/ \E h \in Handles, f \in Frames : Issue(h, f)
    \/ Supersede
    \/ \E h \in Handles : Pin(h) \/ Ask(h) \/ Retire({h})
    \/ Retire(live)
    \/ Other

Spec == Init /\ [][Next]_vars
=============================================================================
