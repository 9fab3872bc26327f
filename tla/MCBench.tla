------------------------------ MODULE MCBench ------------------------------
(* Three parts of the code that are computation, on one bench for TLC: the   *)
(* simulated scope under the lenses (SimScope), the convergence loops        *)
(* (Converge), and the lines of the harness under the decoders               *)
(* (HarnessDecode).  They share nothing: a behaviour is a behaviour of one   *)
(* of them, while the others stay in a state they start in.                  *)
EXTENDS SimScope, Converge

CONSTANTS Calls, Framings, Starts, Lengths, Rates, EdgeVolts, U32Max
VARIABLES asked, playing, window
Lines == INSTANCE HarnessDecode
Requests == INSTANCE HarnessCommands
linesVars == <<asked, playing, window>>

VARIABLE part

-----------------------------------------------------------------------------
(* Signals and settings for SimScope. *)

\* 60 * sin(7.5 degrees * k).
MCQuarter == <<0, 8, 16, 23, 30, 37, 42, 48, 52, 55, 58, 59, 60>>
MCHalf(k) == IF k <= 12 THEN MCQuarter[k + 1] ELSE MCQuarter[25 - k]
MCSineAt(k) == IF k % 48 < 24 THEN MCHalf(k % 48) ELSE -MCHalf((k % 48) - 24)

\* step: forty-eighths of the period in a tick.
MCSineWave(step, phase, offset) ==
    [wave |-> [t \in 0..((48 \div step) - 1) |-> offset + MCSineAt(step * t + phase)],
     lo |-> offset - 60, hi |-> offset + 60, kind |-> "sine"]
MCSquareWave(period, high, offset) ==
    [wave |-> [t \in 0..(period - 1) |-> IF t < high THEN offset + 60 ELSE offset - 60],
     lo |-> offset - 60, hi |-> offset + 60, kind |-> "square"]
MCDc(v) == [wave |-> [t \in 0..0 |-> v], lo |-> v, hi |-> v, kind |-> "dc"]

MCSignals ==
    {MCSineWave(2, 6, 75), MCSineWave(1, 1, 0), MCSquareWave(24, 12, 0), MCSquareWave(24, 7, 60),
     MCSquareWave(200, 100, 0), MCDc(60)}
MCSetups ==
    {[scale |-> 50, offset |-> 0, dt |-> 1, delay |-> 0],
     [scale |-> 25, offset |-> -40, dt |-> 2, delay |-> -6],
     [scale |-> 25, offset |-> -60, dt |-> 3, delay |-> 9],
     [scale |-> 10, offset |-> 0, dt |-> 4, delay |-> 0],
     [scale |-> 1, offset |-> 0, dt |-> 3, delay |-> 0],
     [scale |-> 50, offset |-> 0, dt |-> 7, delay |-> 14]}
MCTriggers ==
    {[level |-> l, slope |-> s, probed |-> p] :
        <<l, s, p>> \in {<<60, "RISING", TRUE>>, <<60, "RISING", FALSE>>, <<0, "FALLING", TRUE>>,
                         <<25, "RISING", TRUE>>, <<25, "EITHER", TRUE>>, <<130, "RISING", TRUE>>}}
MCNoises == {[k \in 0..0 |-> 0], [k \in 0..3 |-> IF k = 1 THEN 1 ELSE IF k = 3 THEN -1 ELSE 0],
             [k \in 0..1 |-> IF k = 0 THEN 11 ELSE -11]}

-----------------------------------------------------------------------------
(* Signals and settings for Converge: peak-to-peak sizes and midlines in mV. *)

MCSizes == {100, 450, 1000, 3300, 12000, 60000}
MCMidlines == {-1500, 0, 1650, 15000, 25000}
MCPeriods == {1100, 20000}
MCLoopSignals ==
    {[lo |-> 50 * (2 * m - v), hi |-> 50 * (2 * m + v), brief |-> b, period |-> p] :
        v \in MCSizes, m \in MCMidlines, b \in BOOLEAN, p \in MCPeriods}
MCLoopSetups ==
    [scale : {10000, 100000, 1000000}, offset : {0, 200000, -900000}, level : {0, 900000}, tb : {5000, 20000, 50000}]

-----------------------------------------------------------------------------
(* Calls, framings and sample rates for HarnessDecode.  The calls that the   *)
(* driver or the firmware refuses are the last ones.                         *)

MCCalls ==
    {Requests!UartCall(value, baud) : value \in {0, 1, 85, 128, 165, 255}, baud \in {4800, 9600, 19200}}
    \cup {Requests!SquareCall(1000, 25), Requests!SquareCall(3000, 50), Requests!SquareCall(700, 99),
          Requests!SquareCall(125000, 50)}
    \cup {Requests!SpiCall, Requests!I2cCall}
    \cup {Requests!UartCall(256, 9600), Requests!UartCall(7, 0), Requests!UartCall(7, U32Max + 1),
          Requests!SquareCall(0, 50), Requests!SquareCall(1000, 101), Requests!SquareCall(U32Max + 1, 50)}

MCFramings ==
    {[bits |-> 8, parity |-> "EVEN", lsbFirst |-> TRUE, idleHigh |-> TRUE],
     [bits |-> 7, parity |-> "ODD", lsbFirst |-> FALSE, idleHigh |-> FALSE],
     [bits |-> 5, parity |-> "NONE", lsbFirst |-> FALSE, idleHigh |-> TRUE],
     [bits |-> 9, parity |-> "ODD", lsbFirst |-> TRUE, idleHigh |-> FALSE]}

MCRates == {<<3, 1>>, <<1, 1>>, <<2, 5>>}

-----------------------------------------------------------------------------
ScopeAtRest ==
    /\ signal = (CHOOSE s \in Signals : TRUE)
    /\ setup = (CHOOSE s \in Setups : TRUE)
    /\ trig = (CHOOSE t \in Triggers : TRUE)
    /\ Init

LoopAtRest ==
    /\ source = (CHOOSE s \in LoopSignals : TRUE)
    /\ instrument = "SimulatedScope"
    /\ want = (CHOOSE s \in LoopSetups : TRUE)
    /\ place = "converge"
    /\ LoopInit

BenchInit ==
    \/ part = "scope" /\ Init /\ LoopAtRest /\ Lines!Init
    \/ part = "loop" /\ LoopInit /\ ScopeAtRest /\ Lines!Init
    \/ part = "lines" /\ Lines!Init /\ ScopeAtRest /\ LoopAtRest

\* The bounded number of calls has been made, and all of them have returned.
CallsMade == calls = MaxCalls /\ pc = "idle" /\ UNCHANGED vars

BenchNext ==
    /\ UNCHANGED part
    /\ \/ part = "scope" /\ (Next \/ CallsMade) /\ UNCHANGED <<loopVars, linesVars>>
       \/ part = "loop" /\ LoopNext /\ UNCHANGED <<vars, linesVars>>
       \/ part = "lines" /\ Lines!Next /\ UNCHANGED <<vars, loopVars>>

BenchSpec == BenchInit /\ [][BenchNext]_<<part, vars, loopVars, linesVars>>

\* What comes in as UART decodes, and so do the other patterns (uart.py:57,
\* pattern.rs:51).
SerialRight == Lines!SerialRight
PatternsRight == Lines!PatternsRight
=============================================================================
