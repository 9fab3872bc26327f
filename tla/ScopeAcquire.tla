---------------------------- MODULE ScopeAcquire ----------------------------
(***************************************************************************)
(* The acquisition primitive (session/acquire.py) driving the DS1054Z      *)
(* driver (drivers/rigol/ds1054z.py) against the instrument.               *)
(*                                                                         *)
(* The host writes commands to a socket without waiting; a query waits for *)
(* its reply, so for every command before it.  The instrument executes     *)
(* commands in order, may be busy for a while (a memory depth change       *)
(* reallocates the capture memory), and its run control takes effect with  *)
(* a lag; meanwhile it keeps acquiring on its own.  Time is counted in     *)
(* ticks.  The instrument is external: it is what the driver's comments,   *)
(* docs/hil-validation-plan.md (divergences 4 to 7) and the simulated      *)
(* scope say of it.                                                        *)
(*                                                                         *)
(* The setup of the c-th call is represented by the number c, so that a    *)
(* frame's provenance is the setup it was acquired under.                  *)
(***************************************************************************)
EXTENDS Integers, Sequences

CONSTANTS
    MaxCalls,       \* bound: calls to acquire in a behaviour
    NumChannels,    \* channels read per capture
    ArmBudget,      \* _ARM_TIMEOUT_S
    TriggerBudget,  \* the trigger wait of a one-shot
    Settle,         \* _SETTLE_LATENCY_S
    Window,         \* ticks one acquisition window takes
    Latency,        \* run control takes effect within this many ticks
    Realloc         \* a memory depth change keeps the instrument busy up to this

ASSUME BoundAssumption ==
    /\ MaxCalls \in Nat /\ NumChannels \in Nat \ {0}
    /\ ArmBudget \in Nat \ {0} /\ TriggerBudget \in Nat \ {0}
    /\ Settle \in Nat \ {0} /\ Window \in Nat /\ Latency \in Nat /\ Realloc \in Nat

Sweeps   == {"AUTO", "NORMAL", "SINGLE"}
OneShots == {"SINGLE", "NORMAL"}
Captured == {"STOP", "TD"}                \* _CAPTURED_STATES
Armed    == {"WAIT", "RUN", "AUTO"}       \* _ARMED_STATES
Statuses == Captured \cup Armed

Calls == 0..MaxCalls

\* A record in the acquisition memory: the vertical setup and the trigger
\* setup in force, whether the deep record was filled, and a bit that tells
\* one acquisition from the next.  trig = -1: nothing triggered (auto frame).
Record  == [vert : Calls, trig : Calls \cup {-1}, deep : BOOLEAN, bit : {0, 1}]
NoFrame == [vert |-> -1, trig |-> -1, deep |-> FALSE, bit |-> 0]

VARIABLES
    \* host
    pc,        \* where acquire() is
    call,      \* number of the current or last call
    req,       \* its sweep and deep arguments
    timer,     \* ticks until the deadline or the end of the sleep
    seen,      \* Capture.trigger_status
    reads,     \* the waveforms read so far, one record per channel
    late,      \* history: the instrument exceeded what this call allows it, see LateToRun
    outcome,   \* what the call returned or raised
    \* instrument
    wire,      \* commands sent and not yet executed
    busy,      \* ticks until it executes the next command
    pending,   \* run control executed that has not taken effect
    lag,       \* ticks until it does
    mode,      \* stopped, running or armed
    fired,     \* the current acquisition has triggered (status TD)
    fill,      \* ticks until the current window is filled
    setup,     \* vertical setup, trigger setup and sweep in force
    memory     \* the last completed acquisition

host == <<pc, call, req, timer, seen, reads, late, outcome>>
inst == <<busy, pending, lag, mode, fired, fill, setup, memory>>
vars == <<host, wire, inst>>

Waiting == {"arm", "arm?", "trigger", "trigger?", "sleep"}
Places  == Waiting \cup {"idle", "configure", "start", "status?", "read?", "done"}

Kinds == {"none", "frame", "miss", "ValueError", "RuntimeError"}
Outcome == [kind : Kinds, call : Calls, sweep : Sweeps, deep : BOOLEAN, late : BOOLEAN,
            status : Statuses, frames : Seq(Record \cup {NoFrame})]
NoOutcome == [kind |-> "none", call |-> 0, sweep |-> "AUTO", deep |-> FALSE, late |-> FALSE,
              status |-> "STOP", frames |-> <<>>]

Send(commands) == wire' = wire \o commands

Dec(n) == IF n = 0 THEN 0 ELSE n - 1

\* The instrument has carried out what it was sent.
CarriedOut == wire = <<>> /\ busy = 0 /\ pending = "none"

\* The settling latency of a free run is over, or its last tick begins, and the
\* instrument has not started to acquire under the new setup.
LateToRun == pc = "sleep" /\ timer <= Window + 1 /\ ~CarriedOut

-----------------------------------------------------------------------------
(* The instrument. *)

\* :TRIGger:STATus?
Status ==
    CASE mode = "stopped" -> "STOP"
      [] mode = "armed" -> "WAIT"
      [] mode = "running" /\ fired -> "TD"
      [] mode = "running" /\ ~fired /\ setup.sweep = "AUTO" -> "AUTO"
      [] OTHER -> IF fill > 0 THEN "RUN" ELSE "WAIT"

\* Execute the next command.
ExecuteStop ==
    /\ Head(wire) = <<"STOP">>
    /\ mode' = "stopped" /\ pending' = "none" /\ lag' = 0 /\ fired' = FALSE
    /\ UNCHANGED <<busy, fill, setup, memory>>

ExecuteRun ==
    /\ Head(wire) = <<"RUN">>
    /\ IF mode = "running" \/ pending = "run"
       THEN UNCHANGED <<pending, lag>>
       ELSE pending' = "run" /\ lag' \in 0..Latency
    /\ UNCHANGED <<busy, mode, fired, fill, setup, memory>>

\* :SINGle aborts whatever acquisition is under way; the status follows later.
ExecuteSingle ==
    /\ Head(wire) = <<"SINGLE">>
    /\ pending' = "single" /\ lag' \in 0..Latency
    /\ UNCHANGED <<busy, mode, fired, fill, setup, memory>>

ExecuteVertical ==
    /\ Head(wire)[1] = "VERT"
    /\ setup' = [setup EXCEPT !.vert = Head(wire)[2]]
    /\ fill' = Window
    /\ UNCHANGED <<busy, pending, lag, mode, fired, memory>>

ExecuteDepth ==
    /\ Head(wire) = <<"DEPTH">>
    /\ busy' \in 0..Realloc
    /\ fill' = Window
    /\ UNCHANGED <<pending, lag, mode, fired, setup, memory>>

ExecuteTrigger ==
    /\ Head(wire)[1] = "TRIG"
    /\ setup' = [setup EXCEPT !.trig = Head(wire)[2], !.sweep = Head(wire)[3]]
    /\ UNCHANGED <<busy, pending, lag, mode, fired, fill, memory>>

Execute ==
    /\ wire # <<>> /\ busy = 0
    /\ wire' = Tail(wire)
    /\ \/ ExecuteStop \/ ExecuteRun \/ ExecuteSingle
       \/ ExecuteVertical \/ ExecuteDepth \/ ExecuteTrigger
    /\ UNCHANGED host

\* Run control takes effect.  Arming discards the last record.
TakeEffect ==
    /\ pending # "none" /\ lag = 0 /\ busy = 0
    /\ pending' = "none"
    /\ fired' = FALSE /\ fill' = Window
    /\ IF pending = "run"
       THEN mode' = "running" /\ UNCHANGED memory
       ELSE mode' = "armed" /\ memory' = NoFrame
    /\ UNCHANGED <<host, wire, busy, lag, setup>>

Acquiring == mode \in {"running", "armed"} /\ pending # "single" /\ busy = 0 /\ fill = 0

Complete(trig) ==
    memory' = [vert |-> setup.vert, trig |-> trig,
               deep |-> mode = "armed" \/ setup.sweep # "AUTO", bit |-> 1 - memory.bit]

\* The signal meets the trigger condition once the window is filled.
Fire ==
    /\ Acquiring
    /\ Complete(setup.trig)
    /\ mode' = IF mode = "armed" \/ setup.sweep = "SINGLE" THEN "stopped" ELSE mode
    /\ fired' = (mode' = "running")
    /\ fill' = Window
    /\ UNCHANGED <<host, wire, busy, pending, lag, setup>>

\* In AUTO sweep a filled window is shown, triggered or not.
AutoFrame ==
    /\ Acquiring /\ mode = "running" /\ setup.sweep = "AUTO"
    /\ Complete(-1)
    /\ fired' = FALSE /\ fill' = Window
    /\ UNCHANGED <<host, wire, busy, pending, lag, mode, setup>>

\* A running acquisition that triggered hunts for its next trigger.
Rearm ==
    /\ mode = "running" /\ fired
    /\ fired' = FALSE
    /\ UNCHANGED <<host, wire, busy, pending, lag, mode, fill, setup, memory>>

\* Time passes when the instrument has nothing to do at this instant.
Tick ==
    /\ wire = <<>> \/ busy > 0
    /\ pending # "none" => lag > 0 \/ busy > 0
    /\ ~ (Acquiring /\ mode = "running" /\ setup.sweep = "AUTO")
    /\ timer' = Dec(timer)
    /\ busy' = Dec(busy)
    /\ lag' = IF busy = 0 THEN Dec(lag) ELSE lag
    /\ fill' = IF busy = 0 THEN Dec(fill) ELSE fill
    /\ late' = (late \/ LateToRun)
    /\ UNCHANGED <<pc, call, req, seen, reads, outcome, wire, pending, mode, fired, setup, memory>>

-----------------------------------------------------------------------------
(* The host: acquire(), one action per step between replies. *)

Goto(place) == pc' = place

Return(kind) ==
    /\ Goto("idle")
    /\ outcome' = [kind |-> kind, call |-> call, sweep |-> req.sweep, deep |-> req.deep,
                   late |-> late, status |-> seen,
                   frames |-> IF kind = "frame" THEN reads ELSE <<>>]

\* stop(), configure_channel() for each channel, configure_timebase().
Begin(sweep, deep) ==
    /\ pc = "idle" /\ call < MaxCalls
    /\ call' = call + 1
    /\ req' = [sweep |-> sweep, deep |-> deep]
    /\ reads' = <<>> /\ late' = FALSE /\ outcome' = NoOutcome
    /\ Send(<< <<"STOP">>, <<"VERT", call + 1>> >>)
    /\ Goto("configure")
    /\ UNCHANGED <<timer, seen, inst>>

\* configure_acquire() and configure_trigger().
Configure ==
    /\ pc = "configure"
    /\ Send(<< <<"RUN">>, <<"DEPTH">>, <<"TRIG", call, req.sweep>> >>)
    /\ Goto("start")
    /\ UNCHANGED <<call, req, timer, late, seen, reads, outcome, inst>>

\* configure_acquire() asks the instrument which channels are on and refuses
\* a memory depth that is not legal for that many.
RejectDepth ==
    /\ pc = "configure" /\ wire = <<>> /\ busy = 0
    /\ Return("ValueError")
    /\ UNCHANGED <<call, req, timer, late, seen, reads, wire, inst>>

SingleAsRun ==
    /\ pc = "start" /\ req.sweep \in OneShots
    /\ Send(<< <<"RUN">> >>)
    /\ timer' = ArmBudget
    /\ Goto("arm")
    /\ UNCHANGED <<call, req, late, seen, reads, outcome, inst>>

SingleNoArmWait ==
    /\ pc = "start" /\ req.sweep \in OneShots
    /\ Send(<< <<"SINGLE">> >>)
    /\ timer' = TriggerBudget
    /\ Goto("trigger")
    /\ UNCHANGED <<call, req, late, seen, reads, outcome, inst>>

\* _acquire_triggered: single() and the first wait.
Single ==
    /\ pc = "start" /\ req.sweep \in OneShots
    /\ Send(<< <<"SINGLE">> >>)
    /\ timer' = ArmBudget
    /\ Goto("arm")
    /\ UNCHANGED <<call, req, late, seen, reads, outcome, inst>>

\* _wait_until: the deadline is looked at before a query, never after it.
Ask(here, asking) ==
    /\ pc = here /\ timer > 0
    /\ Goto(asking)
    /\ UNCHANGED <<call, req, timer, late, seen, reads, outcome, wire, inst>>

Answered == wire = <<>> /\ busy = 0

ArmReplyRestart ==
    /\ pc = "arm?" /\ Answered
    /\ IF Status \in Armed
       THEN Goto("trigger") /\ timer' = TriggerBudget
       ELSE Goto("arm") /\ timer' = ArmBudget
    /\ UNCHANGED <<call, req, late, seen, reads, outcome, wire, inst>>

ArmReply ==
    /\ pc = "arm?" /\ Answered
    /\ IF Status \in Armed
       THEN Goto("trigger") /\ timer' = TriggerBudget
       ELSE Goto("arm") /\ UNCHANGED timer
    /\ UNCHANGED <<call, req, late, seen, reads, outcome, wire, inst>>

\* The result of the first wait is not looked at: a scope that has not armed by
\* now is waited for as if it had.
ArmTimeout ==
    /\ pc = "arm" /\ timer = 0
    /\ Goto("trigger") /\ timer' = TriggerBudget
    /\ late' = ~CarriedOut
    /\ UNCHANGED <<call, req, seen, reads, outcome, wire, inst>>

TriggerReplyOnlyTD ==
    /\ pc = "trigger?" /\ Answered
    /\ Goto(IF Status = "TD" THEN "status?" ELSE "trigger")
    /\ UNCHANGED <<call, req, timer, late, seen, reads, outcome, wire, inst>>

TriggerReply ==
    /\ pc = "trigger?" /\ Answered
    /\ Goto(IF Status \in Captured THEN "status?" ELSE "trigger")
    /\ UNCHANGED <<call, req, timer, late, seen, reads, outcome, wire, inst>>

\* An honest miss: nothing is read and nothing is stored.
TriggerTimeout ==
    /\ pc = "trigger" /\ timer = 0
    /\ Return("miss")
    /\ UNCHANGED <<call, req, timer, late, seen, reads, wire, inst>>

FreeRunNoSettle ==
    /\ pc = "start" /\ req.sweep = "AUTO"
    /\ Send(<< <<"RUN">> >>)
    /\ timer' = Window
    /\ Goto("sleep")
    /\ UNCHANGED <<call, req, late, seen, reads, outcome, inst>>

\* _acquire_free_run: run() and sleep one window plus the settling latency.
FreeRun ==
    /\ pc = "start" /\ req.sweep = "AUTO"
    /\ Send(<< <<"RUN">> >>)
    /\ timer' = Window + Settle
    /\ Goto("sleep")
    /\ UNCHANGED <<call, req, late, seen, reads, outcome, inst>>

Wake ==
    /\ pc = "sleep" /\ timer = 0
    /\ Goto("status?")
    /\ UNCHANGED <<call, req, timer, late, seen, reads, outcome, wire, inst>>

\* capture(): the status is read before the stop of a deep read.
ReadStatus ==
    /\ pc = "status?" /\ Answered
    /\ seen' = Status
    /\ Send(IF req.deep THEN << <<"STOP">> >> ELSE <<>>)
    /\ Goto("read?")
    /\ UNCHANGED <<call, req, timer, late, reads, outcome, inst>>

\* _read_waveform_raw and _read_waveform for the next channel.
ReadChannel ==
    /\ pc = "read?" /\ Answered
    /\ req.deep => memory.deep
    /\ reads' = Append(reads, memory)
    /\ Goto(IF Len(reads) + 1 = NumChannels THEN "done" ELSE "read?")
    /\ UNCHANGED <<call, req, timer, late, seen, outcome, wire, inst>>

NoDeepRecordSkipped ==
    /\ pc = "read?" /\ Answered
    /\ req.deep /\ ~memory.deep
    /\ Goto("done")
    /\ UNCHANGED <<call, req, timer, late, seen, reads, outcome, wire, inst>>

\* RAW points = 0: there is no deep record.
NoDeepRecord ==
    /\ pc = "read?" /\ Answered
    /\ req.deep /\ ~memory.deep
    /\ Return("RuntimeError")
    /\ UNCHANGED <<call, req, timer, late, seen, reads, wire, inst>>

\* acquire() stores, judges and returns the frame.
Deliver ==
    /\ pc = "done"
    /\ Return("frame")
    /\ UNCHANGED <<call, req, timer, late, seen, reads, wire, inst>>

-----------------------------------------------------------------------------
\* The scope was last used by somebody else, in any way.
Init ==
    /\ pc = "idle" /\ call = 0 /\ timer = 0 /\ reads = <<>> /\ seen = "STOP" /\ late = FALSE
    /\ req = [sweep |-> "AUTO", deep |-> FALSE]
    /\ outcome = NoOutcome
    /\ wire = <<>> /\ busy = 0 /\ pending = "none" /\ lag = 0 /\ fired = FALSE /\ fill = Window
    /\ mode \in {"stopped", "running"}
    /\ setup \in [vert : {0}, trig : {0}, sweep : Sweeps]
    /\ memory \in {NoFrame, [vert |-> 0, trig |-> 0, deep |-> TRUE, bit |-> 0]}

HostStep ==
    \/ Configure \/ RejectDepth \/ Single \/ FreeRun
    \/ Ask("arm", "arm?") \/ ArmReply \/ ArmTimeout
    \/ Ask("trigger", "trigger?") \/ TriggerReply \/ TriggerTimeout
    \/ Wake \/ ReadStatus \/ ReadChannel \/ NoDeepRecord \/ Deliver

Instrument == Execute \/ TakeEffect \/ Fire \/ AutoFrame \/ Rearm

Next ==
    \/ \E sweep \in Sweeps, deep \in BOOLEAN : Begin(sweep, deep)
    \/ HostStep
    \/ Instrument
    \/ Tick

Spec == Init /\ [][Next]_vars

\* The host keeps running, the instrument executes what it is sent and time
\* passes.  Nothing makes the signal trigger.
Fairness ==
    /\ WF_vars(HostStep)
    /\ WF_vars(Execute) /\ WF_vars(TakeEffect) /\ WF_vars(AutoFrame)
    /\ WF_vars(Tick)

FairSpec == Spec /\ Fairness

-----------------------------------------------------------------------------
\* A frame that is handed over has one waveform per channel.
TypeOK ==
    /\ pc \in Places /\ call \in Calls
    /\ req \in [sweep : Sweeps, deep : BOOLEAN]
    /\ timer \in Nat /\ seen \in Statuses /\ late \in BOOLEAN
    /\ reads \in Seq(Record \cup {NoFrame}) /\ Len(reads) <= NumChannels
    /\ outcome \in Outcome
    /\ outcome.kind = "frame" => Len(outcome.frames) = NumChannels
    /\ busy \in 0..Realloc /\ lag \in 0..Latency /\ fill \in 0..Window
    /\ pending \in {"none", "run", "single"}
    /\ mode \in {"stopped", "running", "armed"}
    /\ fired \in BOOLEAN
    /\ setup \in [vert : Calls, trig : Calls, sweep : Sweeps]
    /\ memory \in Record \cup {NoFrame}

Handed(sweeps) == outcome.kind = "frame" /\ outcome.sweep \in sweeps
Frames == {outcome.frames[i] : i \in DOMAIN outcome.frames}

\* The instrument kept to what the call allowed it: it had armed when the arm wait
\* ran out, or it ran under the new setup before the settling latency was over.
InTime == ~outcome.late

\* A triggered one-shot whose arming was in time never hands over a record taken
\* before it configured the scope: every channel was acquired under this call's
\* vertical setup and by this call's trigger (session/acquire.py:157-160).
OneShotFresh ==
    Handed(OneShots) /\ InTime =>
        \A frame \in Frames : frame.vert = outcome.call /\ frame.trig = outcome.call

\* A just-changed vertical scale cannot return a stale frame: what a one-shot
\* hands over was not acquired under an earlier call's setup
\* (session/acquire.py:157-159).
NoStaleFrame ==
    Handed(OneShots) => \A frame \in Frames : frame.vert \in {outcome.call, NoFrame.vert}

\* A free run that was in time hands over a record taken under this call's vertical
\* setup, however little of the settling latency the instrument left.
FreeRunFresh ==
    Handed({"AUTO"}) /\ InTime => \A frame \in Frames : frame.vert = outcome.call

\* "Free-run (AUTO) and read a fresh frame of a persistent signal"
\* (session/acquire.py:173): in time or not, a free run hands over a record taken
\* under this call's vertical setup.
FreeRunAlwaysFresh ==
    Handed({"AUTO"}) => \A frame \in Frames : frame.vert = outcome.call

\* A frame kept from a one-shot that armed in time is reported as triggered
\* (model/capture.py:39, session/acquire.py:128): its status was not read while the
\* scope still hunted.
OneShotTriggered == Handed(OneShots) /\ InTime => outcome.status \in Captured

\* The channels of a deep read come from one and the same acquisition, late or not
\* and whatever the sweep, although they are read one after another; those of a
\* one-shot that armed in time do even if the read did not stop the scope first
\* (ds1054z.py:242-247).
Coherent ==
    Handed(Sweeps) /\ (outcome.deep \/ (outcome.sweep \in OneShots /\ InTime)) =>
        \A f, g \in Frames : f = g

\* A frame that acquire() returns can be judged as what it was asked to be.
FrameHonest == OneShotFresh /\ OneShotTriggered /\ Coherent /\ FreeRunFresh

\* The event this call's one-shot caught is in the memory.
EventCaught ==
    CarriedOut /\ mode = "stopped" /\ memory.trig = call /\ memory.vert = call /\ memory.deep

\* An event caught before the last poll of a one-shot is returned: neither the
\* deadline nor the reading loses it (session/acquire.py:165-167).
EventDelivered ==
    pc = "trigger?" /\ EventCaught ~> pc = "idle" /\ outcome.call = call /\ outcome.kind = "frame"

\* Every call returns or raises, trigger or no trigger (session/acquire.py:72-80).
CallEnds ==
    pc # "idle" ~> pc = "idle"
=============================================================================
