------------------------------ MODULE Patterns ------------------------------
(***************************************************************************)
(* firmware/common/src/pattern.rs: one repetition of each stimulus as the  *)
(* sequence of pin states the player clocks out.  A pin state is the set   *)
(* of the lines that are high.                                             *)
(***************************************************************************)
EXTENDS Integers, Sequences

SampleRateHz == 250000
MaxSamples == 2048

\* u32 arithmetic: nothing here reaches 2^32 from the arguments parse accepts.
Clamp(x, lo, hi) == IF x < lo THEN lo ELSE IF x > hi THEN hi ELSE x

Bit(byte, b) == (byte \div 2^b) % 2 = 1
If(bit, line) == IF bit THEN {line} ELSE {}

\* Each cell for width samples; what does not fit the buffer is not pushed.
Stretch(cells, width) ==
    [k \in 1..Clamp(width * Len(cells), 0, MaxSamples) |-> cells[((k - 1) \div width) + 1]]

SquarePeriod(freqHz) == Clamp(SampleRateHz \div freqHz, 2, MaxSamples)

SquareDivideFirst(freqHz, dutyPct) ==
    LET period == SquarePeriod(freqHz)
        high == (period \div 100) * dutyPct
    IN  [k \in 1..period |-> If(k <= high, "B")]

Square(freqHz, dutyPct) ==
    LET period == SquarePeriod(freqHz)
        high == (period * dutyPct) \div 100
    IN  [k \in 1..period |-> If(k <= high, "B")]

\* Two idle cells, the start bit, the data LSB first, stop and gap.
UartCells(byte) ==
    LET mark == {"A"}
    IN  <<mark, mark, {}>> \o [b \in 1..8 |-> If(Bit(byte, b - 1), "A")] \o <<mark, mark, mark>>

SamplesPerBit(baud) == Clamp(SampleRateHz \div baud, 1, 256)

Uart(byte, baud) == Stretch(UartCells(byte), SamplesPerBit(baud))

-----------------------------------------------------------------------------
SpiTestBytes == <<165, 60>>
I2cTestAddr == 80
I2cTestData == <<222, 173>>

\* Bit k of the bytes, most significant first, k from 0.
BitOf(bytes, k) == Bit(bytes[(k \div 8) + 1], 7 - (k % 8))

\* Mode 0: data is set while the clock is low and sampled on its rising edge.
SpiCells ==
    LET idle == <<{"CS"}, {"CS"}, {"CS"}, {"CS"}>>
        half(k) == LET mosi == If(BitOf(SpiTestBytes, k \div 2), "B")
                   IN  IF k % 2 = 0 THEN mosi ELSE mosi \cup {"A"}
    IN  idle \o [k \in 1..(16 * Len(SpiTestBytes)) |-> half(k - 1)] \o <<{}>> \o idle

Spi == Stretch(SpiCells, 10)

\* The nine bits of each byte: eight of data and the acknowledgement, low.
I2cBits ==
    LET bytes == <<2 * I2cTestAddr>> \o I2cTestData
    IN  [k \in 1..(9 * Len(bytes)) |->
            (k - 1) % 9 # 8 /\ Bit(bytes[((k - 1) \div 9) + 1], 7 - ((k - 1) % 9))]

I2cCellAtEdge(k, part) ==
    LET old == IF k = 1 THEN {} ELSE If(I2cBits[k - 1], "B")
        new == If(I2cBits[k], "B")
    IN  CASE part \in {0, 1} -> old
          [] part = 4 -> new
          [] part \in {2, 3} -> new \cup {"A"}

\* A bit: clock low with the old data, low with the new, high twice, low.
I2cCell(k, part) ==
    LET old == IF k = 1 THEN {} ELSE If(I2cBits[k - 1], "B")
        new == If(I2cBits[k], "B")
    IN  CASE part = 0 -> old
          [] part \in {1, 4} -> new
          [] part \in {2, 3} -> new \cup {"A"}

I2cCells ==
    LET both == {"A", "B"}
        rest(n) == [k \in 1..n |-> both]
        last == If(I2cBits[Len(I2cBits)], "B")
    IN  rest(10) \o <<{"A"}, {"A"}>>
        \o [k \in 1..(5 * Len(I2cBits)) |-> I2cCell(((k - 1) \div 5) + 1, (k - 1) % 5)]
        \o <<last, {}, {"A"}, {"A"}>> \o rest(10)

I2c == Stretch(I2cCells, 5)
=============================================================================
