------------------------------ MODULE Converge ------------------------------
(***************************************************************************)
(* The numbers of the convergence loops (session/loop.py): what a scope    *)
(* shows of a signal under a setup, how the frame is judged                *)
(* (analysis/judge.py), and the setup that is tried next                   *)
(* (analysis/adjust.py, analysis/recommend.py), until the loop returns.    *)
(*                                                                         *)
(* Two instruments: the simulated scope, which takes any setup, and the    *)
(* DS1054Z, whose driver moves a setup to the steps and limits of the      *)
(* instrument without telling the loop, and which digitises to 8 bits.     *)
(*                                                                         *)
(* One channel, which is the trigger's source.  Voltages are in steps of   *)
(* 10 microvolts and times in steps of 10 nanoseconds; the code's floats   *)
(* differ by less than a step.  A signal switches between two levels; its  *)
(* high level may be too brief to count as clipped.                        *)
(***************************************************************************)
EXTENDS Integers, FiniteSetsExt

CONSTANTS
    LoopSignals,    \* [lo, hi : levels, brief : BOOLEAN, period : time]
    LoopSetups,     \* setups a caller starts from: [scale, offset, level, tb]
    Probe,          \* probe_ratio
    WideScale,      \* wide_scale_v_per_div
    MaxWiden, MaxIterations

Setup == [scale : Nat, offset : Int, level : Int, tb : Nat]

\* Ten volts through a probe of up to 50 are a step of the grid below.
ASSUME LoopAssumption ==
    Probe \in 1..50 /\ WideScale \in Nat \ {0} /\ MaxWiden \in Nat /\ MaxIterations \in Nat

ASSUME LoopSignalAssumption ==
    \A s \in LoopSignals :
        s.lo \in Int /\ s.hi \in Int /\ s.lo <= s.hi /\ s.brief \in BOOLEAN /\ s.period \in Nat \ {0}

ASSUME SetupAssumption == LoopSetups \subseteq Setup

Instruments == {"SimulatedScope", "DS1054Z"}
OneVolt == 100000

VARIABLES
    place,    \* what the running loop does next; "done" once it has returned
    source,   \* the signal
    instrument,
    want,     \* the setup the loop is at
    applied,  \* the setup the instrument has taken
    judged,   \* the judged frame
    tries     \* widenings or adjustments so far

loopVars == <<place, source, instrument, want, applied, judged, tries>>

-----------------------------------------------------------------------------
(* The driver of the DS1054Z. *)

Clamp(v, lo, hi) == IF v < lo THEN lo ELSE IF v > hi THEN hi ELSE v

\* The grid of 1, 2, 5 times a power of ten.
Decades == {100, 1000, 10000, 100000, 1000000, 10000000}
Grid == {m * ten : m \in {1, 2, 5}, ten \in Decades}

\* Vertical scales from 1 mV to 10 V, times the probe ratio.  The limits of the
\* timebase, 5 ns and 50 s, are outside of what the loops reach.
Scales == {s \in Grid : 100 * Probe <= s /\ s <= 10 * OneVolt * Probe}

\* The geometric mean of a step and the next one, where the nearest changes.
Between(step) ==
    LET ratio == IF \E ten \in Decades : step = 2 * ten THEN 1581 ELSE 1414
    IN  ((step \div 100) * ratio) \div 10

SnapDown(v, steps) ==
    LET c == Clamp(v, Min(steps), Max(steps))
    IN  Max({s \in steps : s <= c})

\* _snap_1_2_5: the step nearest on a logarithmic scale.
Snap(v, steps) ==
    LET c == Clamp(v, Min(steps), Max(steps))
        below == Max({s \in steps : s <= c})
    IN  IF c <= Between(below) THEN below ELSE Min({s \in steps : s > below})

OffsetLimit(scale) == Probe * (IF 2 * scale >= OneVolt * Probe THEN 100 * OneVolt ELSE 2 * OneVolt)

ChannelNotSnapped(setup) ==
    [setup EXCEPT !.offset = Clamp(setup.offset, -OffsetLimit(setup.scale), OffsetLimit(setup.scale))]

\* configure_channel.
ChannelTaken(setup) ==
    LET scale == Snap(setup.scale, Scales)
    IN  [setup EXCEPT !.scale = scale,
                      !.offset = Clamp(setup.offset, -OffsetLimit(scale), OffsetLimit(scale))]

TimebaseTaken(setup) == [setup EXCEPT !.tb = Snap(setup.tb, Grid)]

\* The level stays within 4.9 divisions of the centre the channel has taken.
TriggerTaken(setup) ==
    LET span == (49 * setup.scale) \div 10
    IN  [setup EXCEPT !.level = Clamp(setup.level, -span - setup.offset, span - setup.offset)]

Taken(setup) == TriggerTaken(TimebaseTaken(ChannelTaken(setup)))

Digitises == instrument = "DS1054Z"

Apply(setup) == IF Digitises THEN Taken(setup) ELSE setup

-----------------------------------------------------------------------------
(* A frame of the signal. *)

\* The rails of the simulated scope, 5.1 divisions from the centre; what is within
\* half a percent of the window of a rail counts as at the rail.
SimHalf(setup) == (51 * setup.scale) \div 10
SimSample(setup, v) == Clamp(v, -setup.offset - SimHalf(setup), -setup.offset + SimHalf(setup))
SimAtRail(setup, v) ==
    LET near == SimHalf(setup) - SimHalf(setup) \div 100
    IN  v + setup.offset >= near \/ v + setup.offset <= -near

\* Codes of 25 to the division, 127 at the centre; 0 and 255 are the rails.
CodeSize(setup) == setup.scale \div 25
Code(setup, v) ==
    Clamp((2 * (v + setup.offset) + CodeSize(setup)) \div (2 * CodeSize(setup)) + 127, 0, 255)
CodeVolts(setup, code) == (code - 127) * CodeSize(setup) - setup.offset
CodeAtRail(code) == code <= 1 \/ code >= 254

Sample(setup, v) == IF Digitises THEN CodeVolts(setup, Code(setup, v)) ELSE SimSample(setup, v)
AtRail(setup, v) == IF Digitises THEN CodeAtRail(Code(setup, v)) ELSE SimAtRail(setup, v)

\* 1200 samples fill twelve divisions, so a period has 100 * period / tb of them.
\* Sampling shows the signal at its distance from a multiple of the sample rate:
\* Beat / (period * tb).
Beat(setup) ==
    LET cycle == 100 * source.period
        rest == setup.tb % cycle
    IN  IF 2 * rest > cycle THEN cycle - rest ELSE rest

\* Capture.triggered: the status is neither WAIT nor RUN.  Running free, the
\* simulated scope answers AUTO or TD; the DS1054Z, read while it runs, anything.
Triggered == IF Digitises THEN BOOLEAN ELSE {TRUE}

\* judge_capture and measure.frequency.  period: 0 where no tone is found; slow:
\* fewer than 2.5 samples in a period.
JudgeCapture(setup, triggered) ==
    LET lo == Sample(setup, source.lo)
        hi == Sample(setup, source.hi)
        tone == lo # hi /\ Beat(setup) # 0
    IN  [vmin |-> lo, vmax |-> hi,
         triggered |-> triggered,
         clipping |-> AtRail(setup, source.lo) \/ (AtRail(setup, source.hi) /\ ~source.brief),
         period |-> IF tone THEN (setup.tb * source.period) \div Beat(setup) ELSE 0,
         slow |-> tone /\ Beat(setup) > 40 * source.period]

NotJudged == [vmin |-> 0, vmax |-> 0, triggered |-> FALSE, clipping |-> FALSE, period |-> 0, slow |-> FALSE]

Swing(f) == f.vmax - f.vmin
Midline(f) == (f.vmax + f.vmin) \div 2

-----------------------------------------------------------------------------
(* The next setup. *)

\* Six tenths of eight divisions.
Fitting(f) == (5 * Swing(f)) \div 24

LowFillAsJudged(setup, f) == 10 * Swing(f) < 8 * setup.scale /\ Swing(f) > 0

\* Less than three tenths of eight divisions of the scale that was asked for.
LowFill(setup, f) == 10 * Swing(f) < 24 * setup.scale /\ Swing(f) > 0

CentredUpsideDown(setup, f, scale) == [setup EXCEPT !.scale = scale, !.offset = Midline(f)]

Centred(setup, f, scale) == [setup EXCEPT !.scale = scale, !.offset = -Midline(f)]

Vertical(setup, f) ==
    IF f.clipping THEN Centred(setup, f, 2 * setup.scale)
    ELSE IF LowFill(setup, f) /\ 10 * Fitting(f) < 9 * setup.scale
    THEN Centred(setup, f, Fitting(f))
    ELSE setup

MovesLevelOnMiss(setup, f) ==
    LET move == Midline(f) - setup.level
    IN  ~f.triggered /\ move # 0 /\ (20 * move > Swing(f) \/ -20 * move > Swing(f))

\* The level moves to the midline when the frame is not triggered or the level is
\* outside of the signal, if the move is more than a twentieth of it.
MovesLevel(setup, f) ==
    LET move == Midline(f) - setup.level
    IN  /\ ~f.triggered \/ ~(f.vmin < setup.level /\ setup.level < f.vmax)
        /\ move # 0 /\ (20 * move > Swing(f) \/ -20 * move > Swing(f))

SuggestNoTimebase(setup, f) ==
    [Vertical(setup, f) EXCEPT !.level = IF MovesLevel(setup, f) THEN Midline(f) ELSE setup.level]

\* suggest_adjustment; it is empty if the setup stays as it is.
Suggest(setup, f) ==
    [Vertical(setup, f) EXCEPT
        !.level = IF MovesLevel(setup, f) THEN Midline(f) ELSE setup.level,
        !.tb = IF f.slow THEN setup.tb \div 2 ELSE setup.tb]

\* recommend_setup: a channel that clips keeps the wide scale; four periods on
\* twelve divisions.
Recommend(setup, f) ==
    LET sized == IF f.clipping THEN [setup EXCEPT !.offset = 0]
                 ELSE Centred(setup, f, IF Swing(f) = 0 THEN setup.scale ELSE Max({Fitting(f), 10}))
    IN  [sized EXCEPT !.level = Midline(f),
                      !.tb = IF f.period = 0 THEN setup.tb ELSE f.period \div 3]

-----------------------------------------------------------------------------
(* The loops. *)

\* A caller starts a loop; autoset measures at the wide scale first.
LoopInit ==
    /\ source \in LoopSignals /\ instrument \in Instruments
    /\ \E setup \in LoopSetups :
          \/ place = "converge" /\ want = setup
          \/ place = "measure" /\ want = [setup EXCEPT !.scale = WideScale, !.offset = 0]
    /\ applied = want /\ judged = NotJudged /\ tries = 0

\* acquire(): configure, capture, judge.
LoopAcquire(here, next) ==
    /\ place = here /\ place' = next
    /\ applied' = Apply(want)
    /\ \E triggered \in Triggered : judged' = JudgeCapture(applied', triggered)
    /\ UNCHANGED <<source, instrument, want, tries>>

Try(next, setup) ==
    /\ place' = next /\ want' = setup
    /\ tries' = tries + 1
    /\ UNCHANGED <<source, instrument, applied, judged>>

Widen ==
    /\ place = "measured" /\ tries < MaxWiden /\ judged.clipping
    /\ Try("measure", [want EXCEPT !.scale = 4 * want.scale, !.offset = 0])

ApplyRecommended ==
    /\ place = "measured" /\ (tries >= MaxWiden \/ ~judged.clipping)
    /\ Try("apply", Recommend(want, judged))

Adjust ==
    /\ place = "judge" /\ tries < MaxIterations /\ Suggest(want, judged) # want
    /\ Try("converge", Suggest(want, judged))

Return ==
    /\ \/ place = "applied"
       \/ place = "judge" /\ (tries >= MaxIterations \/ Suggest(want, judged) = want)
    /\ place' = "done"
    /\ UNCHANGED <<source, instrument, want, applied, judged, tries>>

Finished == place = "done" /\ UNCHANGED loopVars

LoopNext ==
    \/ LoopAcquire("measure", "measured") \/ LoopAcquire("apply", "applied")
    \/ LoopAcquire("converge", "judge")
    \/ Widen \/ ApplyRecommended \/ Adjust \/ Return
    \/ Finished

LoopSpec == LoopInit /\ [][LoopNext]_loopVars

-----------------------------------------------------------------------------
\* The DS1054Z only ever gets a step of its grid.
LoopTypeOK ==
    /\ place \in {"measure", "measured", "apply", "applied", "converge", "judge", "done"}
    /\ source \in LoopSignals /\ instrument \in Instruments
    /\ want \in Setup /\ applied \in Setup
    /\ instrument = "DS1054Z" /\ judged # NotJudged => applied.scale \in Scales
    /\ judged.vmin <= judged.vmax
    /\ tries <= Max({MaxIterations, MaxWiden + 1})

\* The instrument can centre the signal at the scale that fits it.  The DS1054Z
\* cannot if the signal is small and its bias large (ds1054z.py:345): the loop
\* then zooms in and out until its iterations run out.
Centrable ==
    LET mid == (source.hi + source.lo) \div 2
        limit == OffsetLimit(Snap((5 * (source.hi - source.lo)) \div 24, Scales))
    IN  Digitises => -limit <= mid /\ mid <= limit

\* A loop ends with the signal on the screen, whatever it was started from: no
\* level of the signal itself is at a rail of the setup the instrument took, but
\* for one that is brief (loop.py:115 "so the signal isn't clipped").
NothingCut ==
    place = "done" /\ Centrable => ~AtRail(applied, source.lo) /\ (AtRail(applied, source.hi) => source.brief)

Shows == Swing(judged) > 0

\* A signal that the last frame shows fills at least a fifth of the screen, less
\* rounding, although the loop computes with the scale it asked for and the
\* instrument took another (adjust.py:29, ds1054z.py:118).
FillsScreen == place = "done" /\ Shows /\ Centrable => 100 * Swing(judged) >= 19 * 8 * applied.scale

\* The trigger level the instrument took lies within the signal that the last
\* frame shows, give or take a twentieth: the loop does not leave the trigger
\* unusable (adjust.py:77), nor does the driver by clamping it.
TriggerOnSignal ==
    place = "done" /\ Shows /\ Centrable =>
        /\ 20 * applied.level >= 20 * judged.vmin - Swing(judged)
        /\ 20 * applied.level <= 20 * judged.vmax + Swing(judged)

\* The last frame has two and a half samples or more in every period of the
\* signal: a timebase that is too slow for it is left behind, by halving until the
\* frame says so no more or by the one recommendation (adjust.py:92, judge.py:82).
Sampled == place = "done" /\ Shows => applied.tb <= 40 * source.period

\* Where a loop ends, its frame is usable (loop.py:207-244).
EndsUsable == NothingCut /\ FillsScreen /\ TriggerOnSignal /\ Sampled

ZoomsIn == place = "converge" /\ judged # NotJudged /\ ~judged.clipping /\ want.scale < applied.scale

\* The frame tells the size of the signal: it has four codes, or on the simulated
\* scope ten of the steps that voltages are counted in here.
Resolved == Swing(judged) >= IF Digitises THEN 4 * CodeSize(applied) ELSE 10

\* Zooming in never pushes the signal off the screen where the instrument takes the
\* offset that centres it: the loop cannot go back and forth between a setup that
\* clips and one that is too coarse (analysis/adjust.py:60).
ZoomStaysInView == [][ZoomsIn /\ Resolved /\ applied'.offset = want.offset => ~judged'.clipping]_loopVars
=============================================================================
