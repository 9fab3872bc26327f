------------------------------ MODULE Decoders ------------------------------
(***************************************************************************)
(* hwtools/decode and ScopeSession._digital: from the volts of a captured  *)
(* line to logic levels, and from levels to UART words, SPI words and I2C  *)
(* transactions.  A trace is a function on 0..n-1, as an array is; times   *)
(* are sample positions; volts are in tenths of a volt.                    *)
(***************************************************************************)
EXTENDS Integers, Sequences, FiniteSetsExt

Size(trace) == Cardinality(DOMAIN trace)

\* x rounded to the nearest integer, ties to even, for x = a/b.
Round(a, b) ==
    LET q == a \div b
        r == 2 * (a % b)
    IN  IF r < b THEN q ELSE IF r > b THEN q + 1 ELSE q + (q % 2)

-----------------------------------------------------------------------------
(* Thresholding, in twentieths of a tenth to keep it in integers. *)

\* High above the band, low below it, and as before within it; before that, as
\* the first sample compares with the level.
Threshold(volts, level, halfband) ==
    LET high(i) == 20 * volts[i] > level + halfband
        low(i) == 20 * volts[i] < level - halfband
        first == 20 * volts[0] >= level
        state[i \in DOMAIN volts] ==
            \/ high(i)
            \/ ~low(i) /\ (IF i = 0 THEN first ELSE state[i - 1])
    IN  IF \E i \in DOMAIN volts : high(i) \/ low(i)
        THEN [i \in DOMAIN volts |-> state[i]]
        ELSE [i \in DOMAIN volts |-> first]

\* The midline, and a fifth of the swing but at least 0.2 V as hysteresis.
Digital(volts) ==
    LET values == {volts[i] : i \in DOMAIN volts}
        hi == Max(values)
        lo == Min(values)
    IN  Threshold(volts, 10 * (lo + hi), IF hi - lo > 10 THEN 2 * (hi - lo) ELSE 20)

-----------------------------------------------------------------------------
(* UART.  params: spb, the samples per bit as a fraction <<n, d>>; bits;   *)
(* parity, "NONE", "EVEN" or "ODD"; lsbFirst; idleHigh.                    *)

ParityBits(params) == IF params.parity = "NONE" THEN 0 ELSE 1

ResumeAfterStop(start, params) ==
    Round(start * params.spb[2] + (2 + params.bits + ParityBits(params)) * params.spb[1], params.spb[2])

\* Start, data and parity are over: the first stop bit.
ResumeIndex(start, params) ==
    Round(start * params.spb[2] + (1 + params.bits + ParityBits(params)) * params.spb[1], params.spb[2])

CentreEarly(start, k, params) == Round(start * params.spb[2] + k * params.spb[1], params.spb[2])

\* The sample at the centre of bit k of the frame whose start bit begins at start.
Centre(start, k, params) ==
    Round(2 * start * params.spb[2] + (2 * k + 1) * params.spb[1], 2 * params.spb[2])

BitAt(trace, start, k, params) == trace[Centre(start, k, params)] = params.idleHigh

\* All bits but the stop bit must lie within the trace.
Complete(trace, start, params) ==
    Centre(start, params.bits + ParityBits(params), params) < Size(trace)

\* Bit b of the frame's data has this weight in the value.
Weight(b, params) == 2^(IF params.lsbFirst THEN b ELSE params.bits - 1 - b)

DecodeFrame(trace, start, params) ==
    LET ones == {b \in 0..(params.bits - 1) : BitAt(trace, start, 1 + b, params)}
        even == (Cardinality(ones)
                 + (IF BitAt(trace, start, 1 + params.bits, params) THEN 1 ELSE 0)) % 2 = 0
        stop == 1 + params.bits + ParityBits(params)
    IN  [value   |-> SumSet({Weight(b, params) : b \in ones}),
         start   |-> start,
         parity  |-> CASE params.parity = "NONE" -> FALSE
                       [] params.parity = "EVEN" -> ~even
                       [] params.parity = "ODD"  -> even,
         framing |-> /\ Centre(start, stop, params) < Size(trace)
                     /\ ~BitAt(trace, start, stop, params)]

\* A start bit is a transition away from idle.
StartEdges(trace, params) ==
    {i \in 1..(Size(trace) - 1) :
        trace[i - 1] = params.idleHigh /\ trace[i] # params.idleHigh}

DecodeUart(trace, params) ==
    LET edges == StartEdges(trace, params)
        from[i \in Nat] ==
            LET ahead == {e \in edges : e > i}
            IN  IF ahead = {} THEN <<>>
                ELSE LET start == Min(ahead)
                     IN  IF Complete(trace, start, params)
                         THEN <<DecodeFrame(trace, start, params)>> \o from[ResumeIndex(start, params)]
                         ELSE <<>>
    IN  from[0]

-----------------------------------------------------------------------------
(* SPI.  params: cpol, cpha, bits, msbFirst, csActiveLow; cs is a trace or *)
(* NoLine.                                                                 *)

NoLine == <<>>

Rising(trace)  == {i \in 1..(Size(trace) - 1) : trace[i] /\ ~trace[i - 1]}
Falling(trace) == {i \in 1..(Size(trace) - 1) : ~trace[i] /\ trace[i - 1]}

SampleEdgeIsRising(params) == (params.cpol = 0) <=> (params.cpha = 0)

DeassertedIgnored(cs, prev, i, params) == FALSE

\* CS was inactive at some sample from prev to before i.
DeassertedBetween(cs, prev, i, params) == \E k \in prev..(i - 1) : cs[k] = params.csActiveLow

SpiBit(bits, k, params) == 2^(IF params.msbFirst THEN params.bits - 1 - k ELSE k)

\* The state after each sampling edge: the partial word, and the words so far.
DecodeSpi(clk, mosi, cs, params) ==
    LET edges == IF SampleEdgeIsRising(params) THEN Rising(clk) ELSE Falling(clk)
        fresh == [ones |-> 0, count |-> 0, start |-> 0]
        step(st, prev, i) ==
            LET dropped == cs # NoLine /\ prev # -1 /\ DeassertedBetween(cs, prev, i, params)
                part == IF dropped THEN fresh ELSE st.part
                next == [ones  |-> part.ones
                                   + (IF mosi[i] THEN SpiBit(params.bits, part.count, params) ELSE 0),
                         count |-> part.count + 1,
                         start |-> IF part.count = 0 THEN i ELSE part.start]
            IN  IF cs # NoLine /\ cs[i] = params.csActiveLow
                THEN [st EXCEPT !.part = fresh]
                ELSE IF next.count = params.bits
                THEN [part |-> fresh,
                      words |-> Append(st.words, [mosi |-> next.ones, start |-> next.start])]
                ELSE [st EXCEPT !.part = next]
        after[i \in edges \cup {-1}] ==
            IF i = -1 THEN [part |-> fresh, words |-> <<>>]
            ELSE LET prev == Max({e \in edges \cup {-1} : e < i})
                 IN  step(after[prev], prev, i)
    IN  after[Max(edges \cup {-1})].words

-----------------------------------------------------------------------------
(* I2C. *)

StartStopGuard == 2

\* SCL is high for the guard on both sides of an SDA edge at i.
StableHigh(scl, i) ==
    /\ i - StartStopGuard >= 0 /\ i + StartStopGuard <= Size(scl)
    /\ \A k \in (i - StartStopGuard)..(i + StartStopGuard - 1) : scl[k]

NoTransaction == [open |-> FALSE, start |-> 0, bytes |-> <<>>, cur |-> 0, count |-> 0]

\* The byte just acknowledged; the first of a transaction is the address.
I2cByte(tr, ack) == [value |-> tr.cur, ack |-> ack, address |-> tr.bytes = <<>>]

DecodeI2c(sda, scl) ==
    LET n == Size(sda)
        swings == {i \in 1..(n - 1) : /\ scl[i - 1] /\ scl[i] /\ sda[i - 1] # sda[i]
                                      /\ StableHigh(scl, i)}
        events == swings \cup Rising(scl)
        finished(st) == IF st.tr.open /\ st.tr.bytes # <<>>
                        THEN Append(st.done, [start |-> st.tr.start, bytes |-> st.tr.bytes])
                        ELSE st.done
        clocked(tr, i) ==
            IF tr.count < 8
            THEN [tr EXCEPT !.cur = 2 * tr.cur + (IF sda[i] THEN 1 ELSE 0), !.count = tr.count + 1]
            ELSE [tr EXCEPT !.bytes = Append(tr.bytes, I2cByte(tr, ~sda[i])), !.cur = 0, !.count = 0]
        step(st, i) ==
            IF i \in swings
            THEN [done |-> finished(st),
                  tr |-> IF sda[i] THEN NoTransaction ELSE [NoTransaction EXCEPT !.open = TRUE, !.start = i]]
            ELSE IF st.tr.open THEN [st EXCEPT !.tr = clocked(st.tr, i)] ELSE st
        after[i \in events \cup {-1}] ==
            IF i = -1 THEN [done |-> <<>>, tr |-> NoTransaction]
            ELSE step(after[Max({e \in events \cup {-1} : e < i})], i)
    IN  after[Max(events \cup {-1})].done
=============================================================================
