---------------------------- MODULE ScopeSession ----------------------------
(***************************************************************************)
(* The callers of acquire(): ScopeSession (session/scope_session.py) and   *)
(* the loops capture_single, autoset and capture_until_usable              *)
(* (session/loop.py), over one CaptureStore the caller owns.               *)
(*                                                                         *)
(* An acquisition is one step here: what happens inside it is ScopeAcquire.*)
(* A loop is several acquisitions, during which the single-threaded caller *)
(* does nothing else.  A loop puts its frames into the caller's store, or  *)
(* into one of its own: `store or CaptureStore()`.                         *)
(***************************************************************************)
EXTENDS CaptureStore

CONSTANTS
    Clipped,       \* frames with a channel at the rails
    Triggered,     \* frames whose status is not WAIT or RUN
    Settled,       \* frames for which suggest_adjustment has nothing to improve
    OwnBudget,     \* DEFAULT_BUDGET_BYTES, the budget of a loop's own store
    MaxWiden,      \* max_widen of autoset
    MaxIterations  \* max_iterations of capture_until_usable

\* A channel that clips always gets a larger scale.
ASSUME JudgeAssumption ==
    Clipped \subseteq Frames /\ Triggered \subseteq Frames /\ Settled \subseteq Frames \ Clipped

ASSUME LoopAssumption ==
    OwnBudget \in Nat /\ MaxWiden \in Nat /\ MaxIterations \in Nat

VARIABLES
    pc,       \* "idle", or what the running loop does next
    where,    \* whose store the running loop uses, see Where
    changes,  \* changes made to the setup so far: widenings or adjustments
    got,      \* the last acquisition of the loop
    result,   \* what the last acquiring call returned or raised
    events    \* history: handles of the one-shots the policy kept

loopVars  == <<pc, where, changes, got>>
sessionVars      == <<vars, loopVars, result, events>>

OneShots == {"SINGLE", "NORMAL"}

\* AcquireResult.usable: triggered and no channel clipped.
Usable(f) == f \in Triggered \ Clipped

\* An acquired frame: its handle and the setup it was taken under.
Acquired == [frame : Frames, id : 0..MaxPuts, setup : Nat]
NoFrame  == [frame |-> "None", id |-> 0, setup |-> 0]

\* store or CaptureStore(): the caller's store, or one of the loop's own
\* because none was given, or because an empty store has length 0 and is falsy.
Where(given) ==
    IF ~given THEN "own" ELSE IF DOMAIN entries = {} THEN "replaced" ELSE "given"

-----------------------------------------------------------------------------
Goto(place) == pc' = place

Returned(place, kind, frame, n, converged) ==
    result' = [where |-> place, kind |-> kind, got |-> frame,
               changes |-> n, converged |-> converged]

NoResult == [where |-> "given", kind |-> "none", got |-> NoFrame,
             changes |-> 0, converged |-> FALSE]
Raised(place) == Returned(place, "raised", NoFrame, 0, FALSE)

SessionInit ==
    /\ Init
    /\ pc = "idle" /\ where = "own" /\ changes = 0 /\ got = NoFrame
    /\ result = NoResult
    /\ events = {}

\* keep defaults by mode (keep = "default"): a one-shot is kept, a free run is not.
KeepOnlySingle(sweep, keep) == IF keep = "default" THEN sweep = "SINGLE" ELSE keep = "yes"
KeepFrame(sweep, keep) == IF keep = "default" THEN sweep \in OneShots ELSE keep = "yes"

\* acquire() on the caller's store.  A one-shot may miss; the scope may raise,
\* before the store is touched; put may raise, when the frame is lost.
Acquire(sweep, keep, label) ==
    /\ pc = "idle"
    /\ \/ /\ sweep \in OneShots
          /\ Returned("given", "miss", NoFrame, 0, FALSE)
          /\ UNCHANGED <<vars, events>>
       \/ /\ Raised("given")
          /\ UNCHANGED <<vars, events>>
       \/ \E f \in Frames :
             /\ PutOversized(f) \/ PutRefused(f)
             /\ Raised("given")
             /\ UNCHANGED events
       \/ \E f \in Frames :
             /\ PutStored(f, KeepFrame(sweep, keep), label)
             /\ Returned("given", "frame",
                         [frame |-> f, id |-> counter', setup |-> 0], 0, Usable(f))
             /\ events' = IF sweep \in OneShots /\ keep = "default"
                          THEN events \cup {counter'} ELSE events
    /\ UNCHANGED loopVars

\* capture_single without a store of the caller's, or with an empty one.
CaptureSingleOwn(given) ==
    /\ pc = "idle"
    /\ \/ Returned(Where(given), "miss", NoFrame, 0, FALSE)
       \/ Raised(Where(given))
       \/ \E f \in Frames :
             /\ FrameBytes[f] <= OwnBudget
             /\ Returned(Where(given), "frame",
                         [frame |-> f, id |-> 0, setup |-> 0], 0, Usable(f))
    /\ UNCHANGED <<vars, loopVars, events>>

CaptureSingle(given) ==
    IF Where(given) # "given"
    THEN CaptureSingleOwn(given)
    ELSE Acquire("SINGLE", "default", NoLabel)

-----------------------------------------------------------------------------
(* The loops. *)

Enter(place, given) ==
    /\ pc = "idle"
    /\ Goto(place)
    /\ where' = Where(given)
    /\ changes' = 0 /\ got' = NoFrame
    /\ result' = NoResult
    /\ UNCHANGED <<vars, events>>

Autoset(given)            == Enter("measure", given)
CaptureUntilUsable(given) == Enter("converge", given)

Idle == Goto("idle") /\ where' = "own" /\ changes' = 0 /\ got' = NoFrame

\* One free-run acquisition of a loop, under the setup reached so far.  (Once
\* MaxPuts frames were put in the caller's store only the raising outcomes are
\* left.)  A handle of the loop's own store means nothing to the caller: 0.
LoopAcquire(here, next) ==
    /\ pc = here
    /\ \/ /\ Raised(where) /\ Idle
          /\ UNCHANGED vars
       \/ \E f \in Frames :
             /\ where = "given"
             /\ PutOversized(f) \/ PutRefused(f)
             /\ Raised(where) /\ Idle
       \/ \E f \in Frames :
             /\ where = "given"
             /\ PutStored(f, KeepFrame("AUTO", "default"), NoLabel)
             /\ got' = [frame |-> f, id |-> counter', setup |-> changes]
             /\ Goto(next)
             /\ UNCHANGED <<where, changes, result>>
       \/ \E f \in Frames :
             /\ where # "given" /\ FrameBytes[f] <= OwnBudget
             /\ got' = [frame |-> f, id |-> 0, setup |-> changes]
             /\ Goto(next)
             /\ UNCHANGED <<vars, where, changes, result>>
    /\ UNCHANGED events

Measure  == LoopAcquire("measure", "measured")
Apply    == LoopAcquire("apply", "applied")
Converge == LoopAcquire("converge", "judge")

\* Widen the measurement while it clips, at most MaxWiden times ...
WidenForever ==
    /\ pc = "measured"
    /\ got.frame \in Clipped
    /\ changes' = 1
    /\ Goto("measure")
    /\ UNCHANGED <<vars, where, got, result, events>>
Widen ==
    /\ pc = "measured"
    /\ changes < MaxWiden /\ got.frame \in Clipped
    /\ changes' = changes + 1
    /\ Goto("measure")
    /\ UNCHANGED <<vars, where, got, result, events>>

\* ... and apply the one recommendation made from it.
Recommend ==
    /\ pc = "measured"
    /\ changes >= MaxWiden \/ got.frame \notin Clipped
    /\ changes' = changes + 1
    /\ Goto("apply")
    /\ UNCHANGED <<vars, where, got, result, events>>

AutosetReturn ==
    /\ pc = "applied"
    /\ Returned(where, "frame", got, changes, Usable(got.frame))
    /\ Idle
    /\ UNCHANGED <<vars, events>>

AdjustOnceMore ==
    /\ pc = "judge"
    /\ changes <= MaxIterations /\ got.frame \notin Settled
    /\ changes' = changes + 1
    /\ Goto("converge")
    /\ UNCHANGED <<vars, where, got, result, events>>

\* Adjust and acquire again while there is something to improve ...
Adjust ==
    /\ pc = "judge"
    /\ changes < MaxIterations /\ got.frame \notin Settled
    /\ changes' = changes + 1
    /\ Goto("converge")
    /\ UNCHANGED <<vars, where, got, result, events>>

\* ... and return the last frame otherwise, or when the iterations are used up.
ConvergeReturnAdjusted ==
    /\ pc = "judge"
    /\ changes >= MaxIterations \/ got.frame \in Settled
    /\ Returned(where, "frame", got,
                IF got.frame \in Settled THEN changes ELSE changes + 1, Usable(got.frame))
    /\ Idle
    /\ UNCHANGED <<vars, events>>
ConvergeReturn ==
    /\ pc = "judge"
    /\ changes >= MaxIterations \/ got.frame \in Settled
    /\ Returned(where, "frame", got, changes, Usable(got.frame))
    /\ Idle
    /\ UNCHANGED <<vars, events>>

LoopStep == Measure \/ Apply \/ Converge \/ Widen \/ Recommend \/ AutosetReturn
            \/ Adjust \/ ConvergeReturn

-----------------------------------------------------------------------------
\* The lenses read a frame (get); the rest manages the store.
Manage ==
    /\ pc = "idle"
    /\ \/ \E ref \in Refs : Get(ref) \/ Drop(ref)
       \/ \E ref \in Refs, label \in Labels \cup {NoLabel} : Keep(ref, label)
       \/ Clear
    /\ result' = NoResult
    /\ UNCHANGED <<loopVars, events>>

SessionNext ==
    \/ \E sweep \in OneShots \cup {"AUTO"}, keep \in {"default", "yes", "no"},
          label \in Labels \cup {NoLabel} : Acquire(sweep, keep, label)
    \/ \E given \in BOOLEAN : CaptureSingle(given) \/ Autoset(given) \/ CaptureUntilUsable(given)
    \/ LoopStep
    \/ Manage

SessionSpec == SessionInit /\ [][SessionNext]_sessionVars

\* A loop that has been called runs on.
FairSessionSpec == SessionSpec /\ WF_sessionVars(LoopStep)

-----------------------------------------------------------------------------
\* The changes a loop has made where it is: widenings and the recommendation, or
\* iterations; a caller's bounds hold (loop.py:139, 209).
ChangesAt(place) ==
    CASE place \in {"measure", "measured"} -> 0..MaxWiden
      [] place \in {"apply", "applied"}    -> 1..(MaxWiden + 1)
      [] place \in {"converge", "judge"}   -> 0..MaxIterations
      [] place = "idle"                    -> {0}

SessionTypeOK ==
    /\ TypeOK
    /\ pc \in {"idle", "measure", "measured", "apply", "applied", "converge", "judge"}
    /\ where \in {"own", "replaced", "given"}
    /\ changes \in ChangesAt(pc) /\ got \in Acquired \cup {NoFrame}
    /\ result \in [where : {"own", "replaced", "given"},
                   kind : {"none", "frame", "miss", "raised"}, got : Acquired \cup {NoFrame},
                   changes : Nat, converged : BOOLEAN]
    /\ events \subseteq 1..counter

\* "An unrepeatable event is never an auto-eviction victim" (acquire.py:8): a
\* one-shot kept by default leaves the store only when the caller drops it or
\* clears the store, never because of what a later acquisition or loop does.
OneShotsStay ==
    [][\A n \in events \cap DOMAIN entries :
          \/ n \in DOMAIN entries'
          \/ pc = "idle" /\ reply'.call \in {"drop", "clear"}]_sessionVars

\* What a loop returns belongs together: the frame was taken under the very
\* setup, after the very adjustments, that are returned with it, and converged
\* is the judgement of that frame (loop.py:168-174, 217-244).
ResultBelongsTogether ==
    result.kind = "frame" =>
        /\ result.got.setup = result.changes
        /\ result.converged = Usable(result.got.frame)

\* The frame a call returns is in the store the caller gave, under the handle
\* returned with it ("to keep the final frame addressable", loop.py:14-16).
Delivered == result' # result /\ result'.kind = "frame"
InStore(frame) == frame.id \in DOMAIN entries' /\ entries'[frame.id].frame = frame.frame

FinalFrameAddressable ==
    [][Delivered /\ result'.where # "own" => InStore(result'.got)]_sessionVars

\* The same, for calls that found a frame in the store they were given.
FinalFrameInUsedStore ==
    [][Delivered /\ result'.where = "given" => InStore(result'.got)]_sessionVars

\* What a call returns with a frame is right of that very frame, and the handle
\* finds it (loop.py:168-174, 217-244).
FinalFrameRight == []ResultBelongsTogether /\ FinalFrameInUsedStore

\* Every loop returns or raises (loop.py:127-148, 207-239).
LoopEnds == pc # "idle" ~> pc = "idle"
=============================================================================
