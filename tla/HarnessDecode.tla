--------------------------- MODULE HarnessDecode ---------------------------
(***************************************************************************)
(* The round trip the harness is for: the firmware plays a known pattern,  *)
(* the scope (external) captures a window of the lines at a sample rate of *)
(* its own, and the session's lenses decode it.                            *)
(***************************************************************************)
EXTENDS HarnessCommands, Patterns, Decoders

CONSTANTS
    Calls,         \* calls of the driver
    Framings,      \* framings of another sender: bits, parity, lsbFirst, idleHigh
    Starts,        \* where windows start, in 60ths of the pattern
    Lengths,       \* how long they are, in 60ths of the pattern
    Rates,         \* scope samples per player sample, as fractions <<n, d>>
    EdgeVolts      \* what a sample on an edge may read; lines swing from 0 to 30

VARIABLES
    asked,    \* the call answered OK last, or what another sender was set to
    playing,  \* the command the firmware carries out, or the other sender's frames
    window    \* the frame captured last, or NoWindow

vars == <<asked, playing, window>>

NoWindow == [start |-> 0, size |-> 0]

-----------------------------------------------------------------------------
(* A sender with other framings than the firmware's (external): two frames *)
(* with a single stop bit between them, the parity of the second one right *)
(* or not.                                                                 *)

Frames(framing, words, bad) == [proto |-> "frames", framing |-> framing, words |-> words, bad |-> bad]

Ones(value, bits) == Cardinality({b \in 0..(bits - 1) : Bit(value, b)})

\* The logic levels of one frame.
FrameBits(f, value, bad) ==
    LET bit(k) == Bit(value, IF f.lsbFirst THEN k - 1 ELSE f.bits - k)
        odd == Ones(value, f.bits) % 2 = 1
        parity == IF f.parity = "NONE" THEN <<>>
                  ELSE <<(IF f.parity = "EVEN" THEN odd ELSE ~odd) # bad>>
    IN  <<FALSE>> \o [k \in 1..f.bits |-> bit(k)] \o parity \o <<TRUE>>

Lead == 3
Trail == 2

FramesPattern(p) ==
    LET mark(n) == [k \in 1..n |-> TRUE]
        bits == mark(Lead) \o FrameBits(p.framing, p.words[1], FALSE)
                    \o FrameBits(p.framing, p.words[2], p.bad) \o mark(Trail)
    IN  Stretch([k \in DOMAIN bits |-> If(bits[k] = p.framing.idleHigh, "A")], 10)

-----------------------------------------------------------------------------
Pattern(command) ==
    CASE command.proto = "uart"   -> Uart(command.byte, command.baud)
      [] command.proto = "square" -> Square(command.freqHz, command.dutyPct)
      [] command.proto = "spi"    -> Spi
      [] command.proto = "i2c"    -> I2c
      [] command.proto = "frames" -> FramesPattern(command)

\* The driver returns if the command was answered OK; else what was playing plays.
Emit(call) ==
    LET command == Parse(LineOf(call))
    IN  /\ IF Refused(call) \/ command = BadArgs THEN UNCHANGED <<asked, playing>>
           ELSE asked' = call /\ playing' = command
        /\ window' = NoWindow

Send(framing, words, bad) ==
    /\ playing' = Frames(framing, words, bad) /\ asked' = [op |-> "frames"]
    /\ window' = NoWindow

\* A frame of what is playing.
Capture(start, length, rate, edge) ==
    /\ window = NoWindow
    /\ LET period == Len(Pattern(playing))
       IN  window' = [start |-> (start * period) \div 60, rate |-> rate, edge |-> edge,
                      size  |-> (length * period * rate[1]) \div (60 * rate[2])]
    /\ UNCHANGED <<asked, playing>>

\* The volts of a line in the window: the first sample of a level is one on an edge.
Volts(line) ==
    LET pattern == Pattern(playing)
        period == Len(pattern)
        position(j) == window.start + period + (j * window.rate[2]) \div window.rate[1]
        high(j) == line \in pattern[(position(j) % period) + 1]
    IN  [j \in 0..(window.size - 1) |->
            IF high(j) # high(j - 1) THEN window.edge ELSE IF high(j) THEN 30 ELSE 0]

\* The firmware boots into a UART stream.
Init ==
    /\ asked = UartCall(165, 9600) /\ playing = UartCommand(165, 9600)
    /\ window = NoWindow

\* No bit set, every other one, all of them.
WordPairs(bits) == {<<0, 2^bits - 1>>, <<(2^bits) \div 3, 2^(bits - 1)>>}

Next ==
    \/ \E call \in Calls : Emit(call)
    \/ \E framing \in Framings, bad \in BOOLEAN : \E words \in WordPairs(framing.bits) :
          Send(framing, words, bad)
    \/ \E start \in Starts, length \in Lengths, rate \in Rates, edge \in EdgeVolts :
          Capture(start, length, rate, edge)

Spec == Init /\ [][Next]_vars

-----------------------------------------------------------------------------
Captured(proto) == window # NoWindow /\ playing.proto = proto

\* Samples of the capture per bit at the baud rate that was asked for.
UartParamsOf(baud) ==
    [spb |-> <<SampleRateHz * window.rate[1], baud * window.rate[2]>>,
     bits |-> 8, parity |-> "NONE", lsbFirst |-> TRUE, idleHigh |-> TRUE]

SpiParamsUsed == [cpol |-> 0, cpha |-> 0, bits |-> 8, msbFirst |-> TRUE, csActiveLow |-> TRUE]

\* The line is idle where the window starts: in one of the gaps, of so many cells
\* before and after the frames.
StartsIdle(before, after, cells) ==
    LET period == Len(Pattern(playing))
    IN  cells * window.start < before * period \/ cells * window.start >= (cells - after) * period

\* "Continuously transmit `byte` as 8N1 UART at `baud`" (protocol.rs:31): a
\* window that starts between two frames decodes, at the baud rate the caller
\* asked for, to the value the caller asked for, once per repetition, with the
\* stop bit in place; calls that were refused meanwhile change nothing.
UartRight ==
    Captured("uart") /\ StartsIdle(2, 2, 14) =>
        LET words == DecodeUart(Digital(Volts("A")), UartParamsOf(asked.baud))
        IN  /\ Len(words) = 2
            /\ \A k \in DOMAIN words : words[k].value = asked.value /\ ~words[k].framing

FramedParams(f) ==
    [spb |-> <<10 * window.rate[1], window.rate[2]>>, bits |-> f.bits, parity |-> f.parity,
     lsbFirst |-> f.lsbFirst, idleHigh |-> f.idleHigh]

\* Frames of any framing, with nothing but a stop bit between them, decode to
\* the words that were sent, all of them, and exactly those with a wrong parity
\* are marked (uart.py:57 "crucial when frames are back-to-back").
FramesRight ==
    Captured("frames") /\ StartsIdle(Lead, Trail, Len(Pattern(playing)) \div 10) =>
        LET words == DecodeUart(Digital(Volts("A")),
                                FramedParams(playing.framing))
        IN  /\ Len(words) = 4
            /\ \A k \in 1..4 :
                  /\ words[k].value = playing.words[((k - 1) % 2) + 1] /\ ~words[k].framing
                  /\ words[k].parity = (playing.framing.parity # "NONE" /\ playing.bad /\ k % 2 = 0)

Distance(x, y) == IF x < y THEN y - x ELSE x - y

\* A square wave has the period and the high time that were asked for, to the
\* samples of the player that rounding drops and an edge of the capture at each
\* end, if the capture can show it at all (pattern.rs:51).
SquareRight ==
    Captured("square") =>
        LET n == window.rate[1]
            d == window.rate[2]
            high == (Len(Pattern(playing)) * asked.duty) \div 100
            low == Len(Pattern(playing)) - high
            wave == Digital(Volts("B"))
            rises == Rising(wave)
            \* the time from i to j is num / (den * freq) seconds
            near(i, j, num, den, dropped) ==
                Distance(den * (j - i) * d * asked.freq, num * SampleRateHz * n)
                    <= den * (dropped * n + 2 * d) * asked.freq
            after(i, edges) == {k \in edges : k > i}
        IN  Min({high, low}) * n >= 3 * d =>
                /\ rises # {}
                /\ \A i \in rises :
                      /\ after(i, rises) # {} => near(i, Min(after(i, rises)), 1, 1, 1)
                      /\ after(i, Falling(wave)) # {} =>
                             near(i, Min(after(i, Falling(wave))), asked.duty, 100, 2)

\* Wherever the window starts, from the first time the device is deselected on
\* the words decoded are the test bytes over and over, none missing or shifted.
SpiRight ==
    Captured("spi") =>
        LET cs == Digital(Volts("CS"))
            words == DecodeSpi(Digital(Volts("A")), Digital(Volts("B")), cs, SpiParamsUsed)
            idle == Min({i \in DOMAIN cs : cs[i]})
            first == Cardinality({k \in DOMAIN words : words[k].start < idle})
        IN  /\ Len(words) >= first + 2
            /\ \A k \in (first + 1)..Len(words) :
                  words[k].mosi = SpiTestBytes[((k - first - 1) % Len(SpiTestBytes)) + 1]

\* Wherever the window starts, every transaction decoded is the whole test
\* transaction, acknowledged throughout, and at least one is decoded.
I2cRight ==
    Captured("i2c") =>
        LET sent == <<2 * I2cTestAddr>> \o I2cTestData
            all == DecodeI2c(Digital(Volts("B")), Digital(Volts("A")))
        IN  /\ all # <<>>
            /\ \A t \in DOMAIN all :
                  all[t].bytes = [k \in DOMAIN sent |->
                                     [value |-> sent[k], ack |-> TRUE, address |-> k = 1]]

\* What comes in as UART decodes, the firmware's and that of others (uart.py:57).
SerialRight == UartRight /\ FramesRight

\* So do the firmware's other patterns (pattern.rs:51, protocol.rs:36).
PatternsRight == SquareRight /\ SpiRight /\ I2cRight

=============================================================================
