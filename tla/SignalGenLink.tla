--------------------------- MODULE SignalGenLink ---------------------------
(***************************************************************************)
(* The JDS6600 driver (drivers/joyit/jds6600.py) on its serial line, next  *)
(* to the simulated generator (drivers/simulated/signal_generator.py),     *)
(* which does as the same calls say, without a line.                       *)
(*                                                                         *)
(* Every operation is a script of transactions: a line is written and one  *)
(* line is read back, or the read times out and the operation raises.  The *)
(* generator (external) executes lines in order and answers each with one  *)
(* line.  A line may get lost on the way in; an answer may come after the  *)
(* driver stopped waiting for it, or with the first of its text before and *)
(* the rest after.  What is not read waits in the input buffer, which only *)
(* connect() empties.                                                      *)
(***************************************************************************)
EXTENDS SignalGenCodes, FiniteSetsExt

CONSTANTS
    Configs,   \* settings a channel is asked for
    Phases,    \* tenths of a degree asked for
    Waves,     \* waveforms uploaded: sequences of samples, in thousandths
    Slots,     \* arbitrary slots asked for
    Pairs,     \* outputs that may be on to begin with
    MaxCuts,   \* bound: answers cut in two
    MaxCalls   \* bound: operations in a behaviour

ASSUME CallAssumption ==
    /\ MaxCalls \in Nat /\ MaxCuts \in {0, 1}
    /\ Configs \subseteq Config /\ \A wave \in Waves : wave \in Seq(Int)

Channels == {1, 2}
Other(ch) == 3 - ch

\* Function codes.  20 is one register for both channels; 31 the phase; a/b an
\* arbitrary slot; 00/01 the identification.
Output == <<"output", 0>>
Phase  == <<"phase", 0>>
Identity == <<"id", 0>>
ParamNames == Range(Params)
Slot(n) == <<"slot", n>>
Stored == 1..Limits.slots
Register == (ParamNames \X Channels) \cup {Slot(n) : n \in Stored} \cup {Output, Phase, Identity}

Pair == [Channels -> BOOLEAN]

ASSUME PairsAssumption == Pairs \subseteq Pair

VARIABLES
    pc,       \* "idle" or "readline"
    call,     \* the current or last operation, and whether the line was quiet
    step,     \* its transaction under way
    seen,     \* the values its queries have returned
    outcome,  \* "none", "returned" or "raised"
    calls,    \* operations so far
    cut,      \* the operation whose answer was cut in two, or 0
    line,     \* lines written and not yet executed
    inbox,    \* answers not yet read
    gen,      \* the generator's registers
    sim,      \* the simulated generator: settings by channel, waves by slot
    sure      \* history: what was set, nothing having failed since

driver == <<pc, call, step, seen, outcome, calls>>
vars == <<driver, cut, line, inbox, gen, sim, sure>>

-----------------------------------------------------------------------------
(* The scripts. *)

Read(reg) == [op |-> "r", reg |-> reg, data |-> 0]
Write(reg, data) == [op |-> "w", reg |-> reg, data |-> data]

\* enable_output reads the pair and writes it back.
SetOutput == <<Read(Output), Write(Output, 0)>>

\* arg: settings, on or off, a phase or a waveform; at: a channel or a slot.
Script(op, at, arg) ==
    CASE op = "configure_channel" -> [i \in DOMAIN Params |-> Write(<<Params[i], at>>, Encode(arg)[i])] \o SetOutput
      [] op = "enable_output"     -> SetOutput
      [] op = "read_channel"      -> [i \in DOMAIN Params |-> Read(<<Params[i], at>>)] \o <<Read(Output)>>
      [] op = "output_enabled"    -> <<Read(Output)>>
      [] op = "set_phase_deg"     -> <<Write(Phase, arg)>>
      [] op = "upload_arbitrary"  -> <<Write(Slot(at), EncodeWave(arg))>>
      [] op = "read_arbitrary"    -> <<Read(Slot(at))>>
      [] op = "idn"               -> <<Read(Identity), Read(Identity)>>

Legal(op, at, arg) ==
    CASE op = "configure_channel" -> CheckWithin(arg)
      [] op = "set_phase_deg"     -> arg \in 0..3600
      [] op = "upload_arbitrary"  -> HasSlot(at) /\ Len(arg) = Limits.points
      [] op = "read_arbitrary"    -> HasSlot(at)
      [] OTHER -> TRUE

Now == Script(call.op, call.at, call.arg)
On(c) == IF c.op = "configure_channel" THEN c.arg.enabled ELSE c.arg

FlipOwnOnly(pair, c) == [ch \in {c.at} |-> On(c)]
FlipBoth(pair, c) == [ch \in Channels |-> On(c)]

\* enable_output writes the pair it has read, with its own channel's bit set.
Flip(pair, c) == [pair EXCEPT ![c.at] = On(c)]

\* The line of transaction k of operation c, after it has read the values vs.
Line(c, k, vs) ==
    LET t == Script(c.op, c.at, c.arg)[k]
    IN  [op |-> t.op, reg |-> t.reg, by |-> c,
         data |-> IF t.reg = Output /\ t.op = "w" THEN Flip(Last(vs), c) ELSE t.data]

-----------------------------------------------------------------------------
(* The generator. *)

\* "the device clamps writes", of frequency and amplitude (jds6600.py:85-86).
Taken(reg, data) ==
    CASE reg[1] = "frequency" -> Min({data, Limits.frequency \div 10})
      [] reg[1] = "amplitude" -> Min({data, Limits.amplitude \div 10})
      [] OTHER -> data

Ok == [is |-> "ok"]
Rest == [is |-> "rest"]

\* An answer: :ok, or the register's name and contents.
Answer(l) == IF l.op = "w" THEN Ok ELSE [is |-> "r", reg |-> l.reg, data |-> gen[l.reg]]

Execute ==
    /\ line # <<>>
    /\ LET l == Head(line)
       IN  /\ gen' = IF l.op = "w" THEN [gen EXCEPT ![l.reg] = Taken(l.reg, l.data)] ELSE gen
           /\ inbox' = Append(inbox, Answer(l))
    /\ line' = Tail(line)
    /\ UNCHANGED <<driver, cut, sim, sure>>

Lose ==
    /\ line # <<>>
    /\ line' = Tail(line)
    /\ UNCHANGED <<driver, cut, inbox, gen, sim, sure>>

-----------------------------------------------------------------------------
(* The simulated generator. *)

Blank == [configs |-> [ch \in Channels |-> NoConfig], waves |-> [n \in Stored |-> <<>>]]

\* What an operation does to it.  It raises when a channel is switched that has
\* not been configured.
SimDo(c) ==
    CASE c.op = "configure_channel" -> [sim EXCEPT !.configs[c.at] = c.arg]
      [] c.op = "enable_output" /\ sim.configs[c.at] # NoConfig -> [sim EXCEPT !.configs[c.at].enabled = c.arg]
      [] c.op = "upload_arbitrary" -> [sim EXCEPT !.waves[c.at] = c.arg]
      [] OTHER -> sim

-----------------------------------------------------------------------------
(* The driver. *)

Quiet == line = <<>> /\ inbox = <<>>

Set(c) ==
    CASE c.op = "configure_channel" -> {<<"channel", c.at>>}
      [] c.op = "upload_arbitrary"  -> {Slot(c.at)}
      [] OTHER -> {}

\* The operation returns or raises.
End(how) ==
    /\ pc' = "idle" /\ outcome' = how
    /\ sim' = IF how = "returned" THEN SimDo(call) ELSE sim
    /\ sure' = IF how = "returned" /\ call.quiet /\ cut' # calls THEN sure \cup Set(call) ELSE {}
    /\ UNCHANGED <<step, line>>

\* The arguments are looked at before anything is written.
Begin(op, at, arg) ==
    /\ pc = "idle" /\ calls < MaxCalls
    /\ calls' = calls + 1
    /\ call' = [op |-> op, at |-> at, arg |-> arg, quiet |-> Quiet]
    /\ step' = 1 /\ seen' = <<>>
    /\ IF Legal(op, at, arg)
       THEN /\ pc' = "readline" /\ outcome' = "none"
            /\ line' = Append(line, Line(call', 1, <<>>))
       ELSE /\ pc' = "idle" /\ outcome' = "raised"
            /\ UNCHANGED line
    /\ UNCHANGED <<cut, inbox, gen, sim, sure>>

\* _write wants :ok, _query the register it asked for.
Expected(reply) ==
    IF Now[step].op = "w" THEN reply = Ok ELSE reply.is = "r" /\ reply.reg = Now[step].reg

\* The line is accepted, and read as this value if it answers a query: the
\* operation goes on.
Advance(data) ==
    /\ seen' = IF Now[step].op = "r" THEN Append(seen, data) ELSE seen
    /\ IF Now[step].reg[1] = "shape" /\ Now[step].op = "r" /\ ~HasShape(data) THEN End("raised")
       ELSE IF step < Len(Now)
       THEN /\ step' = step + 1
            /\ line' = Append(line, Line(call, step + 1, seen'))
            /\ UNCHANGED <<pc, outcome, sim, sure>>
       ELSE IF call.op = "read_channel" /\ Decode(seen', TRUE) = NoConfig THEN End("raised")
       ELSE End("returned")

\* readline returns the first line of the input buffer.
Accept ==
    /\ pc = "readline" /\ inbox # <<>> /\ Expected(Head(inbox))
    /\ inbox' = Tail(inbox)
    /\ UNCHANGED <<call, calls, cut, gen>>
    /\ Advance(IF Head(inbox) = Ok THEN 0 ELSE Head(inbox).data)

Unexpected ==
    /\ pc = "readline" /\ inbox # <<>> /\ ~Expected(Head(inbox))
    /\ inbox' = Tail(inbox)
    /\ UNCHANGED <<call, seen, calls, cut, gen>>
    /\ End("raised")

TimeoutRetry ==
    /\ pc = "readline" /\ inbox = <<>>
    /\ UNCHANGED vars

TimeoutIgnored ==
    /\ pc = "readline" /\ inbox = <<>>
    /\ UNCHANGED <<call, seen, calls, cut, inbox, gen>>
    /\ End("returned")

TimeoutResend ==
    /\ pc = "readline" /\ inbox = <<>> /\ Len(line) < 2
    /\ line' = Append(line, Line(call, step, seen))
    /\ UNCHANGED <<driver, cut, inbox, gen, sim, sure>>

\* readline returns an empty line after timeout_s, which is no answer.
Timeout ==
    /\ pc = "readline" /\ inbox = <<>>
    /\ UNCHANGED <<call, seen, calls, cut, inbox, gen>>
    /\ End("raised")

Digits(n) == {n \div d : d \in {1, 10, 100, 1000, 10000}} \ {0}

\* What the first of an answer can be read as.  A pair and a frequency need all
\* but the end of theirs; a number and the last of a list may lack digits.
FirstOf(reply) ==
    IF reply = Ok THEN {0}
    ELSE CASE reply.reg[1] \in {"output", "frequency"} -> {reply.data}
           [] reply.reg[1] = "slot" ->
                  UNION {{Append(SubSeq(reply.data, 1, k - 1), d) :
                             d \in {reply.data[k]} \cup Digits(reply.data[k])} : k \in DOMAIN reply.data}
           [] OTHER -> {reply.data} \cup Digits(reply.data)

\* timeout_s is over in the middle of an answer: readline returns what it has,
\* and the rest is read as a line of its own.  After the colon of :ok that is
\* the word itself.
Cut ==
    /\ pc = "readline" /\ inbox # <<>> /\ cut < MaxCuts
    /\ cut' = calls
    /\ UNCHANGED <<call, calls, gen>>
    /\ \/ /\ \E rest \in {Rest} \cup ({Ok} \cap {Head(inbox)}) : inbox' = <<rest>> \o Tail(inbox)
          /\ UNCHANGED seen
          /\ End("raised")
       \/ /\ Expected(Head(inbox))
          /\ inbox' = <<Rest>> \o Tail(inbox)
          /\ \E data \in FirstOf(Head(inbox)) : Advance(data)

\* disconnect() and connect(): the input buffer is reset, what is still on its
\* way is not.
Reconnect ==
    /\ pc = "idle" /\ inbox # <<>>
    /\ inbox' = <<>>
    /\ UNCHANGED <<driver, cut, line, gen, sim, sure>>

\* The generator as it was left: a sine of 1 kHz, 5 V.
Factory(pair) ==
    [reg \in Register |->
        CASE reg = Output -> pair
          [] reg[1] = "slot" -> [k \in 1..Limits.points |-> 0]
          [] reg[1] = "frequency" -> 100000
          [] reg[1] = "amplitude" -> 5000
          [] reg[1] = "offset" -> BiasZero
          [] reg[1] = "duty" -> 500
          [] OTHER -> 0]

Init ==
    /\ pc = "idle" /\ step = 1 /\ seen = <<>> /\ outcome = "none" /\ calls = 0 /\ cut = 0
    /\ call = [op |-> "idn", at |-> 1, arg |-> 0, quiet |-> TRUE]
    /\ line = <<>> /\ inbox = <<>>
    /\ \E pair \in Pairs : gen = Factory(pair)
    /\ sim = Blank /\ sure = {}

Driver == Accept \/ Unexpected \/ Timeout \/ Cut

Next ==
    \/ \E ch \in Channels :
          \/ \E config \in Configs : Begin("configure_channel", ch, config)
          \/ \E on \in BOOLEAN : Begin("enable_output", ch, on)
          \/ Begin("read_channel", ch, 0)
          \/ Begin("output_enabled", ch, 0)
    \/ \E phase \in Phases : Begin("set_phase_deg", 1, phase)
    \/ \E slot \in Slots :
          \/ \E wave \in Waves : Begin("upload_arbitrary", slot, wave)
          \/ Begin("read_arbitrary", slot, 0)
    \/ Begin("idn", 1, 0)
    \/ Driver \/ Reconnect
    \/ Execute \/ Lose

Spec == Init /\ [][Next]_vars

\* readline returns, with a line or without one.
FairSpec == Spec /\ WF_vars(Driver)

-----------------------------------------------------------------------------
TypeOK ==
    /\ pc \in {"idle", "readline"} /\ call.at \in Channels \cup Slots
    /\ step \in 1..Len(Now) /\ Len(seen) <= Len(Now)
    /\ outcome \in {"none", "returned", "raised"} /\ calls \in 0..MaxCalls /\ cut \in 0..calls
    /\ Len(line) <= MaxCalls /\ \A i \in DOMAIN line : line[i].reg \in Register
    /\ gen[Output] \in Pair
    /\ \A ch \in Channels :
           sim.configs[ch] = NoConfig \/ \E config \in Configs, on \in BOOLEAN :
                                             sim.configs[ch] = [config EXCEPT !.enabled = on]

\* "Turn one channel's output on/off without disturbing the other channel"
\* (interfaces/signal_generator.py:61): whenever the generator executes a write
\* of the shared register, also one that its operation has given up on, the
\* other channel's output stays as it is.
WritesOutput == line # <<>> /\ Head(line).op = "w" /\ Head(line).reg = Output /\ gen' # gen
OtherStays == LET other == Other(Head(line).by.at) IN gen'[Output][other] = gen[Output][other]

OutputUndisturbed == [][WritesOutput => OtherStays]_vars

\* The same for operations that found no answer owed on the line, even if an
\* answer to them is cut in two.
QuietOutputUndisturbed == [][WritesOutput /\ Head(line).by.quiet => OtherStays]_vars

\* What an operation that returns has told its caller: what it wrote is in the
\* generator, for all of its parameters, and what it read is what is there.
Reported ==
    /\ call.op \in {"configure_channel", "enable_output"} => gen[Output][call.at] = On(call)
    /\ \A k \in DOMAIN Now : Now[k].op = "w" /\ Now[k].reg # Output => gen[Now[k].reg] = Now[k].data
    /\ call.op \in {"read_channel", "output_enabled", "read_arbitrary", "idn"} /\ cut' # calls =>
           /\ Len(seen') = Len(Now)
           /\ \A k \in DOMAIN Now : gen[Now[k].reg] = seen'[k]

Returns == pc = "readline" /\ pc' = "idle" /\ outcome' = "returned"

\* It has read all the answers to its lines.
InStep == cut' # calls => line' = <<>> /\ inbox' = <<>>

\* An operation that found no answer owed on the line and returns is right about
\* what it reports, and owes none itself, though any of its lines may have been
\* lost and an acknowledgement cut; only a value that is read may lack its last
\* digits (jds6600.py:168).
QuietAcknowledgedMeansDone == [][Returns /\ call.quiet => Reported /\ InStep]_vars

\* Every operation returns or raises, lost lines or not (timeout_s).
OperationEnds == pc = "readline" ~> pc = "idle"

Within(x, y, half) == Magnitude(x - y) <= half

\* A setting came back as the one that was asked for, to half a step of its
\* code; next to an arbitrary slot the built-in shape means nothing.
Near(got, asked) ==
    /\ got.slot = asked.slot /\ (asked.slot = NoSlot => got.shape = asked.shape)
    /\ got.enabled = asked.enabled
    /\ Within(got.frequency, asked.frequency, 5) /\ Within(got.amplitude, asked.amplitude, 5)
    /\ Within(got.offset, asked.offset, 5) /\ Within(got.duty, asked.duty, 5)

Readable(config) == config.frequency >= 5

ReadBack(ch) == Decode([i \in DOMAIN Params |-> gen[<<Params[i], ch>>]], gen[Output][ch])

\* Both generators are one instrument to their caller: between operations, none
\* of which failed, what read_channel and read_arbitrary make of the JDS6600's
\* registers is what the simulated one has stored, through encoding, the shared
\* output register, the device's clamps and decoding (signal_generator.py:3-6).
AgreesWithSimulated ==
    pc = "idle" =>
        /\ \A ch \in Channels : <<"channel", ch>> \in sure /\ Readable(sim.configs[ch]) =>
               Near(ReadBack(ch), sim.configs[ch])
        /\ \A n \in Stored : Slot(n) \in sure =>
               \A k \in 1..Limits.points : Within(DecodeWave(gen[Slot(n)])[k], sim.waves[n][k], 1)
=============================================================================
