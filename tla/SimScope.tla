------------------------------ MODULE SimScope ------------------------------
(***************************************************************************)
(* The simulated oscilloscope (drivers/simulated/scope.py), the instrument *)
(* of every test without a bench, under the acquisition primitive          *)
(* (session/acquire.py) and under direct calls of its interface, with the  *)
(* lenses of the session over the frames it hands over.                    *)
(*                                                                         *)
(* One probed channel.  Time is in ticks, voltages in the steps of Lenses. *)
(* A signal is one period of its wave, tick by tick, and the extremes it   *)
(* declares.  The simulation computes everything at the call, in one       *)
(* thread: a step of the model is a call of the interface.                 *)
(***************************************************************************)
EXTENDS Lenses

CONSTANTS
    Signals,      \* [wave : 0..p-1 -> volts, lo, hi : volts, kind : shapes]
    Setups,       \* [scale, offset : volts, dt, delay : ticks]
    Triggers,     \* [level : volts, slope : Slopes, probed : BOOLEAN]
    Noises,       \* [0..k-1 -> volts]: what is added to the samples, over and over
    Points,       \* n_points
    ArmPolls,     \* polls in _ARM_TIMEOUT_S
    TriggerPolls, \* polls in the trigger timeout
    DefaultDt,    \* ticks per sample of the timebase it is constructed with
    ViewBins,     \* resolutions the dense views are asked for
    MaxCalls      \* bound: calls of the interface, acquire() counted as one

Slopes == {"RISING", "FALLING", "EITHER"}

ASSUME ScopeAssumption ==
    /\ Points \in Nat \ {0, 1} /\ Points % 2 = 0
    /\ ArmPolls \in Nat \ {0} /\ TriggerPolls \in Nat \ {0} /\ MaxCalls \in Nat
    /\ DefaultDt \in Nat \ {0}
    /\ \A t \in Triggers : t.level \in Int /\ t.slope \in Slopes /\ t.probed \in BOOLEAN
    /\ Setups \subseteq [scale : Nat \ {0}, offset : Int, dt : Nat \ {0}, delay : Int]

\* An array: k numbers, at least one.
IsArray(f) ==
    LET k == Cardinality(DOMAIN f) IN k \in Nat \ {0} /\ f \in [0..(k - 1) -> Int]

\* In a period, a wave is at or above a level for one stretch of time.
OneStretch(wave, level) ==
    LET p == Cardinality(DOMAIN wave)
    IN  \E from \in 0..(p - 1), long \in 0..p :
            \A i \in 0..(p - 1) : wave[(from + i) % p] >= level <=> i < long

\* Sine, Square and Dc are the signals there are (signals.py:32, :51, :69).
ASSUME SignalAssumption ==
    \A s \in Signals :
        /\ IsArray(s.wave) /\ s.lo \in Int /\ s.hi \in Int
        /\ \A t \in DOMAIN s.wave : s.lo <= s.wave[t] /\ s.wave[t] <= s.hi
        /\ \A tr \in Triggers : OneStretch(s.wave, tr.level)

ASSUME NoiseAssumption == \A noise \in Noises : IsArray(noise)

Sweeps   == {"AUTO", "NORMAL", "SINGLE"}
Captured == {"STOP", "TD"}
Armed    == {"WAIT", "RUN", "AUTO"}

VARIABLES
    signal, setup, trig,  \* on the probe, and what the caller asks for
    calls,
    vertical, timebase,   \* what the scope is configured to
    trigger,              \* and its trigger, or NoTrigger
    status, pending,      \* _status and _single_pending
    pc, polls,            \* where acquire() is, and the polls left to it
    answer,               \* what the last call handed over
    frame,                \* the frame captured last, or NoFrame
    verdict               \* what describe and triage said of it, or NoVerdict

bench == <<signal, setup, trig>>
config == <<vertical, timebase, trigger>>
vars == <<bench, calls, config, status, pending, pc, polls, answer, frame, verdict>>

NoTrigger == [sweep |-> "NONE"]
NoFrame   == [samples |-> <<>>]
Answers   == {"none", "miss", "one-shot", "free run", "capture"}
NoVerdict == [class |-> "none"]

-----------------------------------------------------------------------------
(* The signal. *)

\* sample(): Python's modulo, like this one, is never negative.
At(t) == signal.wave[t % Cardinality(DOMAIN signal.wave)]

Clip(v, lo, hi) == IF v < lo THEN lo ELSE IF v > hi THEN hi ELSE v

\* The digitiser saturates at 5.1 divisions.
HalfOf(v) == (51 * v.scale) \div 10
Half == HalfOf(vertical)

Render(t, noise) == Clip(At(t) + noise, -vertical.offset - Half, -vertical.offset + Half)

-----------------------------------------------------------------------------
(* The trigger. *)

LevelInRange == signal.lo <= trigger.level /\ trigger.level <= signal.hi

WouldTrigger == trigger # NoTrigger /\ trigger.probed /\ LevelInRange

CrossingsOneWindow ==
    LET above(k) == At(k * timebase.dt) >= trigger.level
    IN  {k \in 1..(Points - 1) :
            \/ trigger.slope # "FALLING" /\ above(k) /\ ~above(k - 1)
            \/ trigger.slope # "RISING" /\ ~above(k) /\ above(k - 1)}

\* Samples of the two windows that are searched where the level is crossed.
Crossings ==
    LET above(k) == At(k * timebase.dt) >= trigger.level
    IN  {k \in 1..(2 * Points - 1) :
            \/ trigger.slope # "FALLING" /\ above(k) /\ ~above(k - 1)
            \/ trigger.slope # "RISING" /\ ~above(k) /\ above(k - 1)}

Fires == WouldTrigger /\ Crossings # {}

StartBeforeCrossing ==
    LET crossing == IF Fires THEN (Min(Crossings) - 1) * timebase.dt ELSE 0
    IN  crossing + timebase.delay - (Points \div 2) * timebase.dt

\* _resolve_trigger: the window is centred on the first crossing, or on zero.
Start ==
    LET crossing == IF Fires THEN Min(Crossings) * timebase.dt ELSE 0
    IN  crossing + timebase.delay - (Points \div 2) * timebase.dt

StatusFor ==
    IF Fires THEN "TD"
    ELSE IF trigger = NoTrigger \/ trigger.sweep = "AUTO" THEN "AUTO" ELSE "WAIT"

\* capture(): everything but the noise follows from the configuration.
CaptureFrame(as) ==
    \E noise \in Noises :
        LET start == Start
            sample(i) == Render(start + i * timebase.dt, noise[i % Cardinality(DOMAIN noise)])
        IN  /\ frame' = [samples |-> [i \in 0..(Points - 1) |-> sample(i)], start |-> start,
                         status |-> StatusFor, noise |-> noise,
                         vertical |-> vertical, timebase |-> timebase, trigger |-> trigger]
            /\ status' = frame'.status
            /\ answer' = as
            /\ verdict' = NoVerdict

-----------------------------------------------------------------------------
(* The interface, called directly. *)

Call ==
    /\ pc = "idle" /\ calls < MaxCalls
    /\ calls' = calls + 1
    /\ UNCHANGED <<bench, pc, polls>>

\* The caller is done with the frame of the call before.
NoAnswer == answer' = "none" /\ frame' = NoFrame /\ verdict' = NoVerdict

Run  == Call /\ status' = "AUTO" /\ UNCHANGED <<config, pending>> /\ NoAnswer
Stop == Call /\ status' = "STOP" /\ UNCHANGED <<config, pending>> /\ NoAnswer

\* Like run(): the sweep keeps its mode.
ForceTrigger == Call /\ status' = "AUTO" /\ UNCHANGED <<config, pending>> /\ NoAnswer

Single == Call /\ status' = "WAIT" /\ pending' = TRUE /\ UNCHANGED config /\ NoAnswer

\* What a poll leaves behind: an armed acquisition resolves after the reply.
PollUnresolved == UNCHANGED <<status, pending>>

Poll ==
    /\ pending' = FALSE
    /\ status' = IF ~pending THEN status ELSE IF WouldTrigger THEN "STOP" ELSE "WAIT"

TriggerStatus == Call /\ Poll /\ UNCHANGED config /\ NoAnswer

Requested(sweep) ==
    /\ vertical' = [scale |-> setup.scale, offset |-> setup.offset]
    /\ timebase' = [dt |-> setup.dt, delay |-> setup.delay]
    /\ trigger' = [level |-> trig.level, slope |-> trig.slope, probed |-> trig.probed, sweep |-> sweep]

\* configure_channel, configure_timebase and configure_trigger.
Configure(sweep) == Call /\ Requested(sweep) /\ UNCHANGED <<status, pending>> /\ NoAnswer

\* The finest scale autoscale() sets, 1 mV to the division, is less than a step.
FinestScale == 1

AutoscaledNoFloor ==
    vertical' = [scale |-> (signal.hi - signal.lo) \div 6, offset |-> -((signal.hi + signal.lo) \div 2)]

\* Six of the eight divisions, centred.
Autoscaled ==
    vertical' = [scale |-> Max({(signal.hi - signal.lo) \div 6, FinestScale}),
                 offset |-> -((signal.hi + signal.lo) \div 2)]

Autoscale == Call /\ Autoscaled /\ UNCHANGED <<timebase, trigger, status, pending>> /\ NoAnswer

Capture == Call /\ CaptureFrame("capture") /\ UNCHANGED <<config, pending>>

-----------------------------------------------------------------------------
(* acquire(). *)

\* single(), or run() and the sleep of a window.
Arm(sweep) ==
    IF sweep = "AUTO"
    THEN /\ pc' = "capture" /\ status' = "AUTO" /\ polls' = 0
         /\ UNCHANGED pending
    ELSE /\ pc' = "arm" /\ status' = "WAIT" /\ polls' = ArmPolls
         /\ pending' = TRUE

\* stop(), the configuration, and the start of the acquisition.
Acquire(sweep) ==
    /\ pc = "idle" /\ calls < MaxCalls
    /\ calls' = calls + 1
    /\ Requested(sweep)
    /\ Arm(sweep)
    /\ NoAnswer
    /\ UNCHANGED bench

\* The first wait: for the scope to arm.  Its result is not looked at.
ArmPoll ==
    /\ pc = "arm"
    /\ Poll
    /\ IF status \in Armed \/ polls = 1
       THEN pc' = "trigger" /\ polls' = TriggerPolls
       ELSE pc' = "arm" /\ polls' = polls - 1
    /\ UNCHANGED <<bench, calls, config, answer, frame, verdict>>

\* The second wait: for the acquisition to complete, or else it is a miss.
TriggerPoll ==
    /\ pc = "trigger"
    /\ Poll
    /\ IF status \in Captured THEN pc' = "capture" /\ UNCHANGED <<polls, answer>>
       ELSE IF polls = 1 THEN pc' = "idle" /\ polls' = 0 /\ answer' = "miss"
       ELSE pc' = "trigger" /\ polls' = polls - 1 /\ UNCHANGED answer
    /\ UNCHANGED <<bench, calls, config, frame, verdict>>

Deliver ==
    /\ pc = "capture" /\ pc' = "idle" /\ polls' = 0
    /\ CaptureFrame(IF trigger.sweep = "AUTO" THEN "free run" ELSE "one-shot")
    /\ UNCHANGED <<bench, calls, config, pending>>

ClippingBeyond ==
    LET over == {i \in DOMAIN frame.samples :
                    Magnitude(frame.samples[i] + frame.vertical.offset) > HalfOf(frame.vertical)}
    IN  100 * Cardinality(over) >= Points

\* judge_capture: a hundredth of the samples within half a percent of a rail.
Clipping ==
    LET atRail == {i \in DOMAIN frame.samples :
                      100 * Magnitude(frame.samples[i] + frame.vertical.offset) >= 99 * HalfOf(frame.vertical)}
    IN  100 * Cardinality(atRail) >= Points

\* What describe() and triage() may say of the frame: the spectrum is left open.
Verdicts ==
    LET features == Describe(frame.samples)
        clipping == Clipping
        classes == {Classify(features, flatness, tone) : flatness \in Flatness, tone \in BOOLEAN}
    IN  {[class |-> class, edges |-> features.edges, repeat |-> features.repeat, clipping |-> clipping] :
            class \in classes}

\* describe() and triage() of the stored frame.
Triage ==
    /\ pc = "idle" /\ answer \in {"one-shot", "free run"} /\ verdict = NoVerdict
    /\ verdict' \in Verdicts
    /\ UNCHANGED <<bench, calls, config, status, pending, pc, polls, answer, frame>>

-----------------------------------------------------------------------------
\* A scope as constructed: 1 V/div and no trigger.
Init ==
    /\ signal \in Signals /\ setup \in Setups /\ trig \in Triggers
    /\ calls = 0
    /\ vertical = [scale |-> Volt, offset |-> 0]
    /\ timebase = [dt |-> DefaultDt, delay |-> 0]
    /\ trigger = NoTrigger
    /\ status = "STOP" /\ pending = FALSE
    /\ pc = "idle" /\ polls = 0
    /\ answer = "none" /\ frame = NoFrame /\ verdict = NoVerdict

Next ==
    \/ Run \/ Stop \/ ForceTrigger \/ Single \/ TriggerStatus \/ Autoscale \/ Capture
    \/ \E sweep \in Sweeps : Configure(sweep) \/ Acquire(sweep)
    \/ ArmPoll \/ TriggerPoll \/ Deliver
    \/ Triage

Spec == Init /\ [][Next]_vars

-----------------------------------------------------------------------------
TypeOK ==
    /\ signal \in Signals /\ setup \in Setups /\ trig \in Triggers /\ calls \in 0..MaxCalls
    /\ vertical.scale > 0 /\ timebase.dt > 0
    /\ trigger = NoTrigger \/ trigger.sweep \in Sweeps
    /\ status \in {"STOP", "WAIT", "AUTO", "TD"} /\ pending \in BOOLEAN
    /\ pc \in {"idle", "arm", "trigger", "capture"}
    /\ polls \in 0..Max({ArmPolls, TriggerPolls})
    /\ answer \in Answers
    /\ frame # NoFrame => DOMAIN frame.samples = 0..(Points - 1)
    /\ frame = NoFrame => verdict = NoVerdict

\* The ticks of a period at or above a level, and below it.
Above(level) == Cardinality({t \in DOMAIN signal.wave : signal.wave[t] >= level})
Below(level) == Cardinality(DOMAIN signal.wave) - Above(level)
Period == Cardinality(DOMAIN signal.wave)

Outside(tr) == ~tr.probed \/ tr.level < signal.lo \/ tr.level > signal.hi

\* A level in range that the search may not see the signal cross: the signal is on
\* one side of it for less than a sample, if at all, or longer than the two windows
\* searched in coming back.
Elusive(tr, tb) ==
    \/ Above(tr.level) < tb.dt \/ Below(tr.level) < tb.dt
    \/ Period + tb.dt > (2 * Points - 1) * tb.dt

\* What acquire() makes of the two tests of the simulated trigger, the range test
\* that completes a one-shot (scope.py:143) and the search that aligns its frame
\* (scope.py:198), whatever calls came before.  A one-shot is a miss only if the
\* signal does not reach the level, and a frame only if it does; that frame is
\* triggered, or else the level is elusive: then it is handed over all the same,
\* with the status of a scope that still waits.
OneShotHonest ==
    /\ answer = "miss" => Outside(trigger)
    /\ answer = "one-shot" =>
          /\ ~Outside(frame.trigger)
          /\ \/ frame.status = "TD"
             \/ frame.status = "WAIT" /\ Elusive(frame.trigger, frame.timebase)
    /\ answer = "free run" =>
          \/ frame.status = "TD"
          \/ frame.status = "AUTO" /\ (Outside(frame.trigger) \/ Elusive(frame.trigger, frame.timebase))

NoiseLimit == Max({Magnitude(v) : v \in {frame.noise[k] : k \in DOMAIN frame.noise}})

\* A frame that says it is triggered shows the crossing that was asked for where
\* the screen has its trigger position, if that is at a sample: the sample there
\* is on the far side of the level and the one before it is not (scope.py:199
\* "aligning a trigger to centre").
TriggerCentred ==
    frame # NoFrame /\ frame.status = "TD" /\ frame.timebase.delay % frame.timebase.dt = 0 =>
        LET tr == frame.trigger
            at == (Points \div 2) - frame.timebase.delay \div frame.timebase.dt
            half == HalfOf(frame.vertical)
            seen == -half < tr.level + frame.vertical.offset /\ tr.level + frame.vertical.offset < half
            high(i) == frame.samples[i] >= tr.level - NoiseLimit
            low(i) == frame.samples[i] < tr.level + NoiseLimit
        IN  seen /\ at \in 1..(Points - 1) =>
                \/ tr.slope # "FALLING" /\ low(at - 1) /\ high(at)
                \/ tr.slope # "RISING" /\ high(at - 1) /\ low(at)

Judged == verdict # NoVerdict
Periods(k) == Points * frame.timebase.dt >= k * Period
FinelySampled == 5 * frame.timebase.dt <= Period

\* A square wave that shows both of its levels for a quarter of the time or more,
\* three periods and no more noise than a bin of the histogram, is triaged as
\* digital, clipped or not, whatever its spectrum is (classify.py:74).
SquareIsDigital ==
    Judged /\ signal.kind = "square" /\ Periods(3) =>
        LET swing == Vpp(frame.samples)
            highs == Cardinality({i \in DOMAIN frame.samples :
                         2 * frame.samples[i] > Lowest(frame.samples) + Highest(frame.samples)})
        IN  swing >= Bins * NoiseLimit /\ swing > 0 /\ 4 * highs >= Points /\ 4 * highs <= 3 * Points =>
                verdict.class = "DIGITAL"

\* A finely sampled sine that is triaged as digital is one the judgement of the
\* same frame reports as clipping (classify.py:74, judge.py:59).
SineIsNoSquare ==
    Judged /\ signal.kind = "sine" /\ FinelySampled /\ verdict.class = "DIGITAL" => verdict.clipping

\* triage() tells the two apart (classify.py:60-104).
TriageRight == SquareIsDigital /\ SineIsNoSquare

\* The edges counted are the midline crossings of the signal, give or take one
\* at the ends of the frame: noise of a tenth of the swing adds none
\* (describe.py:207).
EdgesRight ==
    Judged /\ signal.kind # "dc" /\ FinelySampled /\ ~verdict.clipping
    /\ 10 * NoiseLimit <= signal.hi - signal.lo
    /\ 16 * Vpp(frame.samples) >= 15 * (signal.hi - signal.lo) =>
        LET high(i) == 2 * At(frame.start + i * frame.timebase.dt) >= signal.lo + signal.hi
            crossings == Cardinality({i \in 1..(Points - 1) : high(i) # high(i - 1)})
        IN  verdict.edges \in (crossings - 1)..(crossings + 1)

\* The period estimated is that of the signal, to a sample (describe.py:177).
PeriodRight ==
    Judged /\ signal.kind # "dc" /\ FinelySampled /\ Periods(3) /\ ~verdict.clipping
    /\ 10 * NoiseLimit <= signal.hi - signal.lo =>
        /\ verdict.repeat.periodic
        /\ Magnitude(verdict.repeat.lag * frame.timebase.dt - Period) <= frame.timebase.dt

\* The dense views account for every sample once, at any resolution: the bins of
\* the histogram add up to the record, and the slices of time are a partition of
\* it (describe.py:264, describe.py:272).
ViewsComplete ==
    Judged => \A bins \in ViewBins :
        LET counts == Histogram(frame.samples, bins)
            slices == TimeBins(frame.samples, bins)
        IN  /\ Total(counts) = Points
            /\ UNION slices = DOMAIN frame.samples
            /\ \A s, t \in slices : s # t => s \cap t = {}

\* describe() says of the frame what the signal is (describe.py:106-156).
FeaturesRight == EdgesRight /\ PeriodRight /\ ViewsComplete
=============================================================================
