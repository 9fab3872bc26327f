------------------------------ MODULE Harness ------------------------------
(***************************************************************************)
(* The digital harness: SerialHarness (drivers/rp2350/serial_harness.py)   *)
(* on the host, and on the microcontroller the main loop of                *)
(* firmware/targets/rp2350/src/main.rs, which answers commands and keeps   *)
(* the FIFO of the PIO pin player filled from the active pattern buffer.   *)
(*                                                                         *)
(* A sample is named by the load (the EMIT) it belongs to and its position *)
(* in that load's buffer; a word by its first sample.                      *)
(***************************************************************************)
EXTENDS Integers, Sequences

CONSTANTS
    Level,        \* the patterns: a function to sequences of pin levels
    BootPattern,  \* the one emitted after power-up
    WordSamples,  \* samples in a FIFO word (8)
    FifoDepth,    \* words the player's FIFO holds (4)
    MaxCalls,     \* bound: host operations in a behaviour
    MaxLate       \* bound: read timeouts that strike although an answer is due

Patterns == DOMAIN Level

ASSUME PatternAssumption ==
    /\ BootPattern \in Patterns
    /\ \A p \in Patterns : Level[p] \in Seq({0, 1}) /\ Level[p] # <<>>

ASSUME SizeAssumption ==
    /\ WordSamples \in Nat \ {0} /\ FifoDepth \in Nat \ {0}
    /\ MaxCalls \in Nat /\ MaxLate \in Nat

\* EMIT of each pattern; one with arguments the firmware refuses; the others.
Commands == [op : {"EMIT"}, p : Patterns] \cup
            [op : {"BADARGS", "STOP", "ID", "BOOTSEL"}, p : {BootPattern}]

Loads == [n : 0..MaxCalls, p : Patterns]

VARIABLES
    \* the host
    hpc,      \* "idle" or "readline"
    cmd,      \* the current or last command, and whether it found the line quiet
    outcome,  \* "none", "returned" or "raised"
    handle,   \* the serial port: "open", "stale" (the device went away) or "closed"
    calls, late,
    \* the USB channel with the firmware's rings
    down,     \* lines on their way to the main loop
    up,       \* replies on their way to the host
    \* the main loop
    mpc,      \* "fill", "serve", "reboot" or "gone" (in the bootloader)
    buffer,   \* the active load
    index,    \* position of the next sample to pack
    pending,  \* first sample of a word the FIFO rejected, or NoPending
    active,
    \* the player
    fifo,     \* words, as load and first sample
    osr,      \* samples of the current word still to be clocked out
    pin       \* the sample on the pins

host == <<hpc, cmd, outcome, handle, calls, late>>
loop == <<mpc, buffer, index, pending, active>>
player == <<fifo, osr, pin>>
vars == <<host, down, up, loop, player>>

NoPending == -1
Length(load) == Len(Level[load.p])
Wrap(load, k) == k % Length(load)

-----------------------------------------------------------------------------
(* The player. *)

NoWord == [load |-> [n |-> 0, p |-> BootPattern], i |-> 0, left |-> 0]

\* The sample after the one the shift register is at.
Shift(word) == [word EXCEPT !.i = Wrap(word.load, word.i + 1), !.left = word.left - 1]

\* What is on the pins before the first sample.
NoSample == [load |-> NoWord.load, i |-> NoPending]

Sample(word) == [load |-> word.load, i |-> word.i]

\* A sample is clocked out; an empty shift register first pulls a word, and
\* while the FIFO is empty the program stalls with the pins as they are.
Play ==
    /\ mpc # "gone"
    /\ \/ osr.left > 0 /\ pin' = Sample(osr) /\ osr' = Shift(osr) /\ UNCHANGED fifo
       \/ /\ osr.left = 0 /\ fifo # <<>>
          /\ LET word == [load |-> Head(fifo).load, i |-> Head(fifo).i, left |-> WordSamples]
             IN  pin' = Sample(word) /\ osr' = Shift(word)
          /\ fifo' = Tail(fifo)
    /\ UNCHANGED <<host, down, up, loop>>

Still == fifo = <<>> /\ osr.left = 0

-----------------------------------------------------------------------------
(* The main loop. *)

\* The words from first on, and where the one after n words starts.
WordsFrom(first, n) ==
    [k \in 1..n |-> [load |-> buffer, i |-> Wrap(buffer, first + (k - 1) * WordSamples)]]
After(first, n) == Wrap(buffer, first + n * WordSamples)

FillSkipsRejected ==
    LET room == FifoDepth - Len(fifo)
    IN  /\ fifo' = fifo \o WordsFrom(index, room)
        /\ index' = After(index, room + 1)
        /\ pending' = NoPending

\* The inner loop packs and writes words until the FIFO rejects one, which is
\* kept for the next time round.
Fill ==
    LET first == IF pending = NoPending THEN index ELSE pending
        room == FifoDepth - Len(fifo)
    IN  /\ fifo' = fifo \o WordsFrom(first, room)
        /\ pending' = After(first, room)
        /\ index' = After(first, room + 1)

TopUpUnlessPending ==
    /\ mpc = "fill" /\ mpc' = "serve"
    /\ IF active /\ pending = NoPending THEN Fill ELSE UNCHANGED <<fifo, pending, index>>
    /\ UNCHANGED <<host, down, up, buffer, active, osr, pin>>

TopUpAlways ==
    /\ mpc = "fill" /\ mpc' = "serve"
    /\ Fill
    /\ UNCHANGED <<host, down, up, buffer, active, osr, pin>>

\* A word lasts 32 microseconds, many times as long as packing one, so the
\* inner loop is one step.
TopUp ==
    /\ mpc = "fill" /\ mpc' = "serve"
    /\ IF active THEN Fill ELSE UNCHANGED <<fifo, pending, index>>
    /\ UNCHANGED <<host, down, up, buffer, active, osr, pin>>

ServeDone ==
    /\ mpc = "serve" /\ down = <<>>
    /\ mpc' = "fill"
    /\ UNCHANGED <<host, down, up, buffer, index, pending, active, player>>

LoadKeepsPending(p) ==
    /\ buffer' = [n |-> buffer.n + 1, p |-> p]
    /\ index' = 0 /\ active' = TRUE
    /\ UNCHANGED pending

LoadStaysStopped(p) ==
    /\ buffer' = [n |-> buffer.n + 1, p |-> p]
    /\ index' = 0 /\ pending' = NoPending
    /\ UNCHANGED active

\* The load closure: a new buffer from its start, nothing held over.
Load(p) ==
    /\ buffer' = [n |-> buffer.n + 1, p |-> p]
    /\ index' = 0 /\ pending' = NoPending /\ active' = TRUE

Reply(op) == IF op = "ID" THEN "BANNER" ELSE IF op = "BADARGS" THEN "ERR" ELSE "OK"

\* One line: parsed, carried out and answered.
Serve ==
    /\ mpc = "serve" /\ down # <<>>
    /\ LET c == Head(down)
       IN  /\ up' = Append(up, Reply(c.op))
           /\ \/ c.op = "EMIT" /\ Load(c.p) /\ UNCHANGED mpc
              \/ c.op = "STOP" /\ active' = FALSE /\ UNCHANGED <<mpc, buffer, index, pending>>
              \/ c.op \in {"ID", "BADARGS"} /\ UNCHANGED loop
              \/ c.op = "BOOTSEL" /\ mpc' = "reboot" /\ UNCHANGED <<buffer, index, pending, active>>
    /\ down' = Tail(down)
    /\ UNCHANGED <<host, player>>

\* After a delay the chip resets into the bootloader and the port goes away.
Reboot ==
    /\ mpc = "reboot" /\ mpc' = "gone"
    /\ down' = <<>>
    /\ handle' = IF handle = "open" THEN "stale" ELSE handle
    /\ fifo' = <<>> /\ osr' = NoWord
    /\ UNCHANGED <<hpc, cmd, outcome, calls, late, up, buffer, index, pending, active, pin>>

PowerUp ==
    /\ buffer' = [n |-> buffer.n + 1, p |-> BootPattern]
    /\ index' = 0 /\ pending' = NoPending /\ active' = TRUE /\ mpc' = "fill"

\* The bootloader flashes an image and starts it.
Flash ==
    /\ mpc = "gone"
    /\ PowerUp
    /\ pin' = NoSample
    /\ UNCHANGED <<host, down, up, fifo, osr>>

\* The result of serial.write in the interrupt handler is ignored.
LoseReply ==
    /\ up # <<>> /\ mpc # "gone"
    /\ up' = SubSeq(up, 1, Len(up) - 1)
    /\ UNCHANGED <<host, down, loop, player>>

-----------------------------------------------------------------------------
(* The host. *)

Return(how) == hpc' = "idle" /\ outcome' = how

Quiet == down = <<>> /\ up = <<>> /\ mpc \in {"fill", "serve"}

\* _command writes the line and waits; reboot_to_bootloader does not wait.
Call(c) ==
    /\ hpc = "idle" /\ calls < MaxCalls
    /\ calls' = calls + 1
    /\ cmd' = [c |-> c, quiet |-> Quiet]
    /\ IF handle # "open"
       THEN Return("raised") /\ UNCHANGED down
       ELSE /\ down' = Append(down, c)
            /\ IF c.op = "BOOTSEL" THEN Return("returned") ELSE hpc' = "readline" /\ outcome' = "none"
    /\ UNCHANGED <<handle, late, up, loop, player>>

\* A start or stop wants OK; idn returns whatever line it gets.
Accepted(reply) == cmd.c.op = "ID" \/ reply = "OK"

Answered ==
    /\ hpc = "readline" /\ up # <<>>
    /\ up' = Tail(up)
    /\ Return(IF Accepted(Head(up)) THEN "returned" ELSE "raised")
    /\ UNCHANGED <<cmd, handle, calls, late, down, loop, player>>

\* readline gives up after timeout_s, and an empty reply is not OK; idn returns
\* it as the banner.
Timeout ==
    /\ hpc = "readline" /\ up = <<>> /\ handle = "open"
    /\ IF down = <<>> THEN UNCHANGED late ELSE late < MaxLate /\ late' = late + 1
    /\ Return(IF cmd.c.op = "ID" THEN "returned" ELSE "raised")
    /\ UNCHANGED <<cmd, handle, calls, down, up, loop, player>>

PortGone ==
    /\ hpc = "readline" /\ up = <<>> /\ handle = "stale"
    /\ Return("raised")
    /\ UNCHANGED <<cmd, handle, calls, late, down, up, loop, player>>

Close ==
    /\ hpc = "idle" /\ handle # "closed" /\ handle' = "closed"
    /\ UNCHANGED <<hpc, cmd, outcome, calls, late, down, up, loop, player>>

\* open() opens a closed port only, and empties the input buffer.
Open ==
    /\ hpc = "idle" /\ handle # "stale" /\ mpc # "gone"
    /\ handle' = "open" /\ up' = <<>>
    /\ UNCHANGED <<hpc, cmd, outcome, calls, late, down, loop, player>>

-----------------------------------------------------------------------------
Init ==
    /\ hpc = "idle" /\ outcome = "none" /\ handle = "closed" /\ calls = 0 /\ late = 0
    /\ cmd = [c |-> [op |-> "ID", p |-> BootPattern], quiet |-> TRUE]
    /\ down = <<>> /\ up = <<>>
    /\ mpc = "fill" /\ active = TRUE /\ index = 0 /\ pending = NoPending
    /\ buffer = [n |-> 0, p |-> BootPattern]
    /\ fifo = <<>> /\ osr = NoWord /\ pin = NoSample

Main == TopUp \/ ServeDone \/ Serve \/ Reboot
Host == (\E c \in Commands : Call(c)) \/ Answered \/ Timeout \/ PortGone \/ Close \/ Open

Next == Main \/ Play \/ Host \/ Flash \/ LoseReply

Spec == Init /\ [][Next]_vars

\* The processor and the player run by themselves; readline returns.
FairSpec ==
    /\ Spec
    /\ WF_vars(Main) /\ WF_vars(Play) /\ WF_vars(Answered \/ Timeout \/ PortGone)

-----------------------------------------------------------------------------
Positions(load) == 0..(Length(load) - 1)

TypeOK ==
    /\ hpc \in {"idle", "readline"} /\ cmd \in [c : Commands, quiet : BOOLEAN]
    /\ outcome \in {"none", "returned", "raised"} /\ handle \in {"open", "stale", "closed"}
    /\ calls \in 0..MaxCalls /\ late \in 0..MaxLate
    /\ Len(down) + Len(up) <= calls
    /\ mpc \in {"fill", "serve", "reboot", "gone"}
    /\ buffer \in Loads /\ index \in Positions(buffer)
    /\ pending \in Positions(buffer) \cup {NoPending} /\ active \in BOOLEAN
    /\ Len(fifo) <= FifoDepth
    /\ \A k \in DOMAIN fifo : fifo[k].load \in Loads /\ fifo[k].i \in Positions(fifo[k].load)
    /\ osr.left \in 0..(WordSamples - 1) /\ osr.i \in Positions(osr.load)
    /\ pin.load \in Loads /\ pin.i \in Positions(pin.load) \cup {NoPending}

\* The pins repeat the pattern without a gap or a repeated sample
\* (pack8, "looping the buffer so the pattern repeats seamlessly"), however its
\* length relates to the word's, and whatever commands are served meanwhile; a
\* new load starts at its first sample and never goes back to an older one.
Seamless ==
    [][Play => IF pin.i = NoPending \/ pin'.load.n > pin.load.n
               THEN pin'.i = 0
               ELSE pin'.load = pin.load /\ pin'.i = Wrap(pin.load, pin.i + 1)]_vars

\* An operation that found the channel quiet and returns was carried out: the
\* pattern it started is the active one, stop stopped the loop.
Done ==
    /\ cmd.c.op = "EMIT" => active /\ buffer.p = cmd.c.p
    /\ cmd.c.op = "STOP" => ~active
    /\ cmd.c.op # "BADARGS"

Returns == hpc = "readline" /\ hpc' = "idle" /\ outcome' = "returned"

QuietAcknowledgedMeansDone == [][Returns /\ cmd.quiet => Done]_vars

\* A pattern that has been loaded reaches the pins, unless another load, STOP
\* or the bootloader comes first.
Superseded(n) == ~active \/ buffer.n > n \/ mpc \in {"reboot", "gone"}

LoadedAppears ==
    \A n \in 1..MaxCalls :
        (active /\ buffer.n = n) ~> (pin.load.n = n \/ Superseded(n))

\* After STOP the pins come to rest, or a new pattern is started.
StopsEventually == ~active ~> (Still \/ active)

\* Whatever the loop and the player do meanwhile, a pattern that was started
\* reaches the pins and one that was stopped leaves them (main.rs:150-175).
CommandsTakeEffect == LoadedAppears /\ StopsEventually
=============================================================================
