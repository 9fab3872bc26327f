--------------------------- MODULE HarnessCommands ---------------------------
(***************************************************************************)
(* From a call of the stimulus driver to the command the firmware carries  *)
(* out: the checks and the line of drivers/rp2350/serial_harness.py, and   *)
(* parse() of firmware/common/src/protocol.rs.  A line is the sequence of  *)
(* its tokens; a number in decimal is itself, one in hex its two digits.   *)
(***************************************************************************)
EXTENDS Integers, Sequences

CONSTANT U32Max   \* the largest number that parses as u32

Word(text) == [word |-> text]
Decimal(n) == [decimal |-> n]

\* {value:02X}
Hex(n) == [high |-> n \div 16, low |-> n % 16]

\* The calls: start_uart_stream, start_square, start_spi, start_i2c.
UartCall(value, baud) == [op |-> "uart", value |-> value, baud |-> baud]
SquareCall(freq, duty) == [op |-> "square", freq |-> freq, duty |-> duty]
SpiCall == [op |-> "spi"]
I2cCall == [op |-> "i2c"]

\* A ValueError before anything is sent.  The baud rate is left to the firmware.
Refused(c) ==
    CASE c.op = "uart"   -> c.value \notin 0..255
      [] c.op = "square" -> c.freq <= 0 \/ c.duty \notin 0..100
      [] OTHER -> FALSE

LineOf(c) ==
    CASE c.op = "uart"   -> <<Word("EMIT"), Word("UART"), Hex(c.value), Decimal(c.baud)>>
      [] c.op = "square" -> <<Word("EMIT"), Word("SQUARE"), Decimal(c.freq), Decimal(c.duty)>>
      [] c.op = "spi"    -> <<Word("EMIT"), Word("SPI")>>
      [] c.op = "i2c"    -> <<Word("EMIT"), Word("I2C")>>

-----------------------------------------------------------------------------
UartCommand(byte, baud) == [proto |-> "uart", byte |-> byte, baud |-> baud]
SquareCommand(freqHz, dutyPct) == [proto |-> "square", freqHz |-> freqHz, dutyPct |-> dutyPct]
SpiCommand == [proto |-> "spi"]
I2cCommand == [proto |-> "i2c"]
BadArgs == [proto |-> "error"]

IsU32(token) == token.decimal \in 0..U32Max

\* parse(), of the lines the driver sends to start something.
Parse(line) ==
    CASE line[2] = Word("UART") ->
             IF IsU32(line[4]) /\ line[4].decimal # 0
             THEN UartCommand(16 * line[3].high + line[3].low, line[4].decimal)
             ELSE BadArgs
      [] line[2] = Word("SQUARE") ->
             IF IsU32(line[3]) /\ IsU32(line[4]) /\ line[3].decimal # 0 /\ line[4].decimal <= 100
             THEN SquareCommand(line[3].decimal, line[4].decimal)
             ELSE BadArgs
      [] line[2] = Word("SPI") -> SpiCommand
      [] line[2] = Word("I2C") -> I2cCommand
=============================================================================
