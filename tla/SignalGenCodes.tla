--------------------------- MODULE SignalGenCodes ---------------------------
(***************************************************************************)
(* The settings of a generator channel: the limits they are held against   *)
(* (model/siggen.py) and the codes the JDS6600 takes and gives for them    *)
(* (drivers/joyit/jds6600.py).  Settings are whole numbers finer than the  *)
(* codes: mHz, tenths of a mV, mV of offset, hundredths of a percent,      *)
(* thousandths of a sample, so that rounding is there to be seen.          *)
(***************************************************************************)
EXTENDS Integers, Sequences, SequencesExt

CONSTANT Limits   \* the capabilities: frequency, amplitude, offset, slots, points

\* The largest settings have codes of their own, which the device takes.
ASSUME LimitsAssumption ==
    /\ Limits.frequency \in Nat /\ Limits.frequency % 10 = 0
    /\ Limits.amplitude \in Nat /\ Limits.amplitude % 10 = 0

\* WaveShape and _SHAPE_CODE correspond one to one: a shape is its code.
Shapes == 0..16
NoSlot == 0

Config == [shape : Shapes, slot : Int, frequency : Nat \ {0}, amplitude : Nat, offset : Int,
           duty : 0..10000, enabled : BOOLEAN]

\* A setting no channel has been given yet, or one that no settings object holds.
NoConfig == [shape |-> -1]

Magnitude(x) == IF x < 0 THEN -x ELSE x

\* To the nearest; where two are near, Python takes the even one or what the
\* binary fraction leans to.
Round(x, unit) == (x + unit \div 2) \div unit

HasSlot(slot) == slot \in 1..Limits.slots

\* check_within: refused, never clamped.
CheckWithin(c) ==
    /\ c.slot # NoSlot => HasSlot(c.slot)
    /\ c.frequency <= Limits.frequency
    /\ c.amplitude <= Limits.amplitude
    /\ Magnitude(c.offset) <= Limits.offset

-----------------------------------------------------------------------------
\* The registers of a channel in the order they are written and read.
Params == <<"shape", "frequency", "amplitude", "offset", "duty">>

ArbitraryBase == 100
BiasZero == 1000
CodeMax == 4095

\* In cHz, mV, hundredths of a volt from BiasZero, and tenths of a percent.
EncodeTruncated(c) ==
    <<IF c.slot # NoSlot THEN ArbitraryBase + c.slot ELSE c.shape,
      c.frequency \div 10, c.amplitude \div 10, c.offset \div 10 + BiasZero, c.duty \div 10>>

Encode(c) ==
    <<IF c.slot # NoSlot THEN ArbitraryBase + c.slot ELSE c.shape,
      Round(c.frequency, 10), Round(c.amplitude, 10), Round(c.offset, 10) + BiasZero, Round(c.duty, 10)>>

\* _CODE_SHAPE has no other, and raises.
HasShape(code) == code \in Shapes \/ code >= ArbitraryBase

\* What read_channel makes of the codes.  A frequency of zero is none that the
\* settings object takes: it raises.
Decode(codes, enabled) ==
    IF codes[2] = 0 THEN NoConfig
    ELSE [shape     |-> IF codes[1] >= ArbitraryBase THEN 0 ELSE codes[1],
          slot      |-> IF codes[1] >= ArbitraryBase THEN codes[1] - ArbitraryBase ELSE NoSlot,
          frequency |-> codes[2] * 10,
          amplitude |-> codes[3] * 10,
          offset    |-> (codes[4] - BiasZero) * 10,
          duty      |-> codes[5] * 10,
          enabled   |-> enabled]

\* upload_arbitrary: 12-bit codes for samples of -1 to 1.
EncodeWave(wave) == [k \in DOMAIN wave |-> Round((wave[k] + 1000) * CodeMax, 2000)]
DecodeWave(codes) == [k \in DOMAIN codes |-> Round(codes[k] * 2000, CodeMax) - 1000]

=============================================================================
