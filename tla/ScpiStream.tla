----------------------------- MODULE ScpiStream -----------------------------
(***************************************************************************)
(* The raw socket between the DS1054Z driver and the instrument:           *)
(* RawTcpTransport and read_definite_block (transport/raw_tcp.py,          *)
(* transport/block.py) under the driver's readouts, poll and depth change  *)
(* (drivers/rigol/ds1054z.py), byte by byte where the framing matters.     *)
(*                                                                         *)
(* Commands and replies are queues.  Nothing in a reply says which query   *)
(* it answers: a read that times out leaves the rest of its reply to the   *)
(* next one.  Here every byte carries, for the properties alone, the query *)
(* it answers.  The instrument is external.                                *)
(***************************************************************************)
EXTENDS Integers, Sequences, SequencesExt, FiniteSetsExt

CONSTANTS
    NumChannels,    \* analog channels of the scope
    RawChunk,       \* _RAW_CHUNK: samples per page of a deep read
    Screen,         \* samples of the on-screen trace
    Records,        \* lengths a triggered record can have
    MemoryDepths,   \* _MEMORY_DEPTHS: legal depths by number of channels displayed
    Switched,       \* channels whose display is switched on and off
    Newlines,       \* positions in a record whose sample is the byte 10
    MaxCalls,       \* bound: calls that wait for a reply
    MaxTimeouts,    \* bound: reads that time out
    MaxFrames,      \* bound: acquisitions
    MaxWire         \* bound: commands sent ahead of the instrument

ASSUME BoundAssumption ==
    /\ NumChannels \in Nat \ {0} /\ RawChunk \in Nat \ {0} /\ Screen \in Nat \ {0}
    /\ Records \subseteq Nat \ {0} /\ Switched \subseteq 1..NumChannels
    /\ MaxCalls \in Nat /\ MaxTimeouts \in Nat /\ MaxFrames \in Nat /\ MaxWire \in Nat

\* A page holds a whole screen: 250000 samples against 1200.
ASSUME PageAssumption == Screen <= RawChunk

Channels == 1..NumChannels

VARIABLES
    pc,       \* "idle", or "reply" while a read waits for one
    job,      \* the call under way: what it wants and what it has read so far
    query,    \* the query whose reply is read
    outcome,  \* what the last call returned or raised
    wire,     \* commands sent and not yet executed
    stream,   \* bytes of replies, on their way or arrived, and not read
    closed,   \* the instrument closed the connection
    lost,     \* history: reads that timed out on this connection
    timeouts, \* history: reads that timed out
    scope     \* the instrument

host == <<pc, job, query, outcome>>
vars == <<host, wire, stream, closed, lost, timeouts, scope>>

Wants == {"poll", "screen", "deep", "depth"}
Command(op, arg) == [op |-> op, arg |-> arg]
Query(call, about, ch) == [op |-> "?", arg |-> <<call, about, ch>>]
IsQuery(command) == command.op = "?"

Byte(is, of, val) == [is |-> is, of |-> of, val |-> val]

NoStatus == Byte("text", <<0, "status", 0>>, <<"stopped", 0>>)

NoJob == [call |-> 0, want |-> "poll", depth |-> 0, began |-> "stopped", status |-> NoStatus,
          ch |-> 0, start |-> 1, points |-> 0, out |-> <<>>, waves |-> <<>>, on |-> 0]

-----------------------------------------------------------------------------
(* The instrument. *)

State(s) == <<s.mode, s.frame>>

\* :WAVeform:DATA?  On the screen a start beyond its end leaves one sample.
Samples(s) ==
    IF s.raw THEN s.start..Min({s.stop, s.points})
    ELSE IF s.start > Screen THEN {Screen}
    ELSE s.start..Min({s.stop, Screen})

Value(s, about, ch) ==
    CASE about = "status"   -> State(s)
      [] about = "rate"     -> <<>>
      [] about = "preamble" -> <<IF s.raw THEN s.points ELSE Screen>>
      [] about = "display"  -> <<IF ch \in s.on THEN 1 ELSE 0>>

Line(s, of) == <<Byte("text", of, Value(s, of[2], of[3])), Byte("end", of, <<>>)>>

\* A definite-length block of the given samples, which follow one another, each
\* with its record and channel.
Block(s, of, samples) ==
    LET data == [k \in 1..Cardinality(samples) |->
                    Byte("data", of, <<s.frame, s.src, Min(samples) + k - 1>>)]
    IN  <<Byte("hash", of, <<>>), Byte("len", of, <<Len(data)>>)>> \o data
            \o <<Byte("end", of, <<>>)>>

Set(command) ==
    CASE command.op = "RUN"    -> [scope EXCEPT !.mode = "running"]
      [] command.op = "STOP"   -> [scope EXCEPT !.mode = "stopped"]
      [] command.op = "SINGLE" -> [scope EXCEPT !.mode = "armed"]
      [] command.op = "DISP"   -> [scope EXCEPT !.on = IF command.arg[2] THEN @ \cup {command.arg[1]}
                                                 ELSE @ \ {command.arg[1]}]
      [] command.op = "MDEP"   -> scope
      [] command.op = "SOUR"   -> [scope EXCEPT !.src = command.arg]
      [] command.op = "MODE"   -> [scope EXCEPT !.raw = command.arg]
      [] command.op = "STAR"   -> [scope EXCEPT !.start = command.arg]
      [] command.op = "STOPAT" -> [scope EXCEPT !.stop = command.arg]

\* A page may come back shorter than it was asked for ("memory short-read").
Execute ==
    /\ wire # <<>>
    /\ wire' = Tail(wire)
    /\ LET command == Head(wire)
       IN  IF ~ IsQuery(command)
           THEN scope' = Set(command) /\ UNCHANGED stream
           ELSE /\ UNCHANGED scope
                /\ IF command.arg[2] # "data"
                   THEN stream' = stream \o Line(scope, command.arg)
                   ELSE \E short \in IF scope.raw THEN {{}, {scope.stop}} ELSE {{}} :
                           stream' = stream \o Block(scope, command.arg, Samples(scope) \ short)
    /\ UNCHANGED <<host, closed, lost, timeouts>>

\* An acquisition completes.  Only a triggered one fills the deep record.
Acquire ==
    /\ scope.mode # "stopped" /\ scope.frame < MaxFrames
    /\ \E points \in Records \cup (IF scope.mode = "running" THEN {0} ELSE {}) :
          scope' = [scope EXCEPT !.frame = @ + 1, !.points = points,
                                 !.mode = IF @ = "armed" THEN "stopped" ELSE @]
    /\ UNCHANGED <<host, wire, stream, closed, lost, timeouts>>

\* The instrument closes the connection: some of what it sent still arrives.
Hangup ==
    /\ ~closed
    /\ closed' = TRUE
    /\ wire' = <<>>
    /\ \E n \in 0..Len(stream) : stream' = SubSeq(stream, 1, n)
    /\ UNCHANGED <<host, lost, timeouts, scope>>

-----------------------------------------------------------------------------
(* The transport. *)

\* The call returns or raises, having written commands that nobody waits for.
End(kind, done, commands) ==
    /\ pc' = "idle"
    /\ job' = NoJob
    /\ outcome' = [kind |-> kind, clean |-> ~lost,
                   job |-> IF kind = "frame" THEN done
                           ELSE [NoJob EXCEPT !.call = done.call, !.want = done.want]]
    /\ wire' = IF closed THEN wire ELSE wire \o commands
    /\ UNCHANGED query

\* write() and then query() or query_block(): what is sent to a closed
\* connection is gone, or raises.
Ask(commands, about, ch, doing) ==
    \/ /\ query' = Query(doing.call, about, ch)
       /\ wire' = IF closed THEN wire ELSE wire \o Append(commands, query')
       /\ job' = doing
       /\ pc' = "reply"
       /\ UNCHANGED outcome
    \/ closed /\ End("OSError", doing, <<>>)

EndsLine(byte) == byte.is = "end" \/ (byte.is = "data" /\ byte.val[3] \in Newlines)

LineEnds(bytes) == {i \in DOMAIN bytes : EndsLine(bytes[i])}

From(bytes, n) == SubSeq(bytes, n, Len(bytes))

\* _recv_line() from bytes: up to the first newline, or all there is at the end
\* of a closed connection.
LineOf(bytes) ==
    IF LineEnds(bytes) # {}
    THEN LET i == Min(LineEnds(bytes))
         IN  [is |-> "line", got |-> SubSeq(bytes, 1, i - 1), rest |-> From(bytes, i + 1)]
    ELSE [is |-> IF closed THEN "line" ELSE "wait", got |-> bytes, rest |-> <<>>]

Raised(kind, rest) == [is |-> kind, got |-> <<>>, rest |-> rest]

BlockOfNoTail(bytes) ==
    IF bytes # <<>> /\ bytes[1].is # "hash" THEN Raised("ValueError", Tail(bytes))
    ELSE IF Len(bytes) < 2 \/ Len(bytes) < 2 + bytes[2].val[1]
    THEN Raised(IF closed THEN "OSError" ELSE "wait", <<>>)
    ELSE [is |-> "block", got |-> SubSeq(bytes, 3, bytes[2].val[1] + 2),
          rest |-> From(bytes, bytes[2].val[1] + 3)]

BlockOfTwoLines(bytes) ==
    IF bytes # <<>> /\ bytes[1].is # "hash" THEN Raised("ValueError", Tail(bytes))
    ELSE IF Len(bytes) < 2 \/ Len(bytes) < 2 + bytes[2].val[1]
    THEN Raised(IF closed THEN "OSError" ELSE "wait", <<>>)
    ELSE LET size == bytes[2].val[1]
             tail == LineOf(LineOf(From(bytes, size + 3)).rest)
         IN  [is |-> IF tail.is = "wait" THEN "wait" ELSE "block",
              got |-> SubSeq(bytes, 3, size + 2), rest |-> tail.rest]

\* read_definite_block() and the newline after the payload.
BlockOf(bytes) ==
    IF bytes # <<>> /\ bytes[1].is # "hash" THEN Raised("ValueError", Tail(bytes))
    ELSE IF Len(bytes) < 2 \/ Len(bytes) < 2 + bytes[2].val[1]
    THEN Raised(IF closed THEN "OSError" ELSE "wait", <<>>)
    ELSE LET size == bytes[2].val[1]
             tail == LineOf(From(bytes, size + 3))
         IN  [is |-> IF tail.is = "wait" THEN "wait" ELSE "block",
              got |-> SubSeq(bytes, 3, size + 2), rest |-> tail.rest]

About == query.arg[2]
ReplyIn(bytes) == IF About = "data" THEN BlockOf(bytes) ELSE LineOf(bytes)
Reply == ReplyIn(stream)

\* Only the first n bytes have come and no more for _timeout_s: what the read
\* had taken is gone with it, the rest still comes.
Timeout ==
    /\ pc = "reply" /\ timeouts < MaxTimeouts
    /\ timeouts' = timeouts + 1 /\ lost' = TRUE
    /\ \E n \in 0..Len(stream) :
          /\ ReplyIn(SubSeq(stream, 1, n)).is = "wait"
          /\ stream' = From(stream, n + 1)
    /\ End("OSError", job, <<>>)
    /\ UNCHANGED <<closed, scope>>

\* disconnect() and connect(): a new socket.
Reopen ==
    /\ pc = "idle" /\ (closed \/ lost)
    /\ closed' = FALSE /\ lost' = FALSE
    /\ wire' = <<>> /\ stream' = <<>>
    /\ UNCHANGED <<host, timeouts, scope>>

-----------------------------------------------------------------------------
(* The driver: one action per reply. *)

\* run(), stop(), single(), and configure_channel()'s display switch.
Write(command) ==
    /\ pc = "idle" /\ Len(wire) < MaxWire /\ ~closed
    /\ wire' = Append(wire, command)
    /\ UNCHANGED <<host, stream, closed, lost, timeouts, scope>>

BeginStopFirst(want, depth) ==
    /\ pc = "idle" /\ outcome.job.call < MaxCalls
    /\ LET doing == [NoJob EXCEPT !.call = outcome.job.call + 1, !.want = want, !.depth = depth,
                                  !.began = IF wire = <<>> THEN scope.mode ELSE "unknown"]
       IN  IF want = "depth" THEN Ask(<<>>, "display", 1, doing)
           ELSE Ask(IF want = "deep" THEN <<Command("STOP", 0)>> ELSE <<>>, "status", 0, doing)
    /\ UNCHANGED <<stream, closed, lost, timeouts, scope>>

\* trigger_status(), capture() and configure_acquire() with a depth.
Begin(want, depth) ==
    /\ pc = "idle" /\ outcome.job.call < MaxCalls
    /\ LET doing == [NoJob EXCEPT !.call = outcome.job.call + 1, !.want = want, !.depth = depth,
                                  !.began = IF wire = <<>> THEN scope.mode ELSE "unknown"]
       IN  IF want = "depth" THEN Ask(<<>>, "display", 1, doing) ELSE Ask(<<>>, "status", 0, doing)
    /\ UNCHANGED <<stream, closed, lost, timeouts, scope>>

Answered(about) ==
    /\ pc = "reply" /\ About = about /\ Reply.is # "wait"
    /\ stream' = Reply.rest
    /\ UNCHANGED <<closed, lost, timeouts, scope>>

\* The line is a reply to such a query: float() and the others take no other.
Parses(abouts) ==
    /\ Reply.is = "line" /\ Len(Reply.got) = 1
    /\ Reply.got[1].is = "text" /\ Reply.got[1].of[2] \in abouts

Read == Reply.got[1].val

StatusReply ==
    /\ Answered("status") /\ Parses({"status"})
    /\ LET doing == [job EXCEPT !.status = Reply.got[1]]
       IN  IF job.want = "poll" THEN End("ok", doing, <<>>)
           ELSE Ask(IF job.want = "deep" THEN <<Command("STOP", 0)>> ELSE <<>>, "rate", 0, doing)

\* _read_waveform_raw and _read_waveform, up to the preamble.
AskPreamble(ch, doing) ==
    Ask(<<Command("SOUR", ch), Command("MODE", job.want = "deep")>>, "preamble", ch,
        [doing EXCEPT !.ch = ch, !.out = <<>>])

RateReply ==
    /\ Answered("rate") /\ Parses({"rate", "display"})
    /\ AskPreamble(1, job)

PageEnd(doing) == Min({doing.start + RawChunk - 1, doing.points})

AskPage(doing) ==
    Ask(<<Command("STAR", doing.start), Command("STOPAT", PageEnd(doing))>>, "data", doing.ch, doing)

AskScreenAnyStart(doing) == Ask(<<>>, "data", doing.ch, doing)

\* The start a deep read left is undone, its stop is not.
AskScreen(doing) == Ask(<<Command("STAR", 1)>>, "data", doing.ch, doing)

PreambleReply ==
    /\ Answered("preamble") /\ Parses({"preamble"})
    /\ LET doing == [job EXCEPT !.points = Read[1], !.start = 1]
       IN  IF job.want = "screen" THEN AskScreen(doing)
           ELSE IF doing.points = 0 THEN End("RuntimeError", doing, <<>>)
           ELSE AskPage(doing)

NextChannelOneMore(doing) ==
    LET done == [doing EXCEPT !.waves = Append(@, doing.out)]
    IN  IF job.ch > NumChannels THEN End("frame", done, <<>>) ELSE AskPreamble(job.ch + 1, done)

\* The channel is read: on to the next, or the frame is complete.
NextChannel(doing) ==
    LET done == [doing EXCEPT !.waves = Append(@, doing.out)]
    IN  IF job.ch = NumChannels THEN End("frame", done, <<>>) ELSE AskPreamble(job.ch + 1, done)

PageReplyUncounted ==
    /\ Answered("data") /\ Reply.is = "block"
    /\ LET doing == [job EXCEPT !.out = @ \o Reply.got, !.start = PageEnd(job) + 1]
       IN  IF job.want = "deep" /\ PageEnd(job) < job.points THEN AskPage(doing)
           ELSE NextChannel(doing)

PageReply ==
    /\ Answered("data") /\ Reply.is = "block"
    /\ LET doing == [job EXCEPT !.out = @ \o Reply.got, !.start = PageEnd(job) + 1]
       IN  IF job.want = "screen" THEN NextChannel(doing)
           ELSE IF PageEnd(job) < job.points THEN AskPage(doing)
           ELSE IF Len(doing.out) # job.points THEN End("OSError", doing, <<>>)
           ELSE NextChannel(doing)

DisplayReplyNoRun ==
    /\ Answered("display") /\ Reply.is = "line"
    /\ LET on == IF Parses({"display"}) THEN job.on + Read[1] ELSE job.on
           doing == [job EXCEPT !.on = on]
       IN  \/ /\ query.arg[3] < NumChannels
              /\ Ask(<<>>, "display", query.arg[3] + 1, doing)
           \/ /\ query.arg[3] = NumChannels
              /\ IF job.depth \in MemoryDepths[Max({1, on})]
                 THEN End("ok", doing, <<Command("MDEP", job.depth)>>)
                 ELSE End("ValueError", doing, <<>>)

\* Any line but "1" or "ON" counts as off; bytes that are no ASCII raise.
DisplayReply ==
    /\ Answered("display") /\ Reply.is = "line"
    /\ LET on == IF Parses({"display"}) THEN job.on + Read[1] ELSE job.on
           doing == [job EXCEPT !.on = on]
       IN  \/ /\ query.arg[3] < NumChannels
              /\ Ask(<<>>, "display", query.arg[3] + 1, doing)
           \/ /\ query.arg[3] = NumChannels
              /\ IF job.depth \in MemoryDepths[Max({1, on})]
                 THEN End("ok", doing, <<Command("RUN", 0), Command("MDEP", job.depth)>>)
                 ELSE End("ValueError", doing, <<>>)
           \/ /\ \E i \in DOMAIN Reply.got : Reply.got[i].is = "data"
              /\ End("ValueError", doing, <<>>)

BadReplySkipped ==
    /\ \/ Answered("status") /\ ~Parses({"status"})
       \/ Answered("rate") /\ ~Parses({"rate", "display"})
       \/ Answered("preamble") /\ ~Parses({"preamble"})
       \/ Answered("data") /\ Reply.is # "block"
    /\ UNCHANGED <<host, wire>>

\* What was read is not what was asked for.
BadReply ==
    /\ \/ Answered("status") /\ ~Parses({"status"})
       \/ Answered("rate") /\ ~Parses({"rate", "display"})
       \/ Answered("preamble") /\ ~Parses({"preamble"})
       \/ Answered("data") /\ Reply.is # "block"
    /\ End(IF Reply.is = "OSError" THEN "OSError" ELSE "ValueError", job, <<>>)

-----------------------------------------------------------------------------
Init ==
    /\ pc = "idle" /\ job = NoJob /\ query = Query(0, "status", 0)
    /\ outcome = [kind |-> "none", job |-> NoJob, clean |-> TRUE]
    /\ wire = <<>> /\ stream = <<>>
    /\ closed = FALSE /\ lost = FALSE /\ timeouts = 0
    /\ scope = [mode |-> "stopped", frame |-> 0, points |-> 0,
                  src |-> 1, raw |-> FALSE, start |-> 1, stop |-> Screen, on |-> {1}]

HostStep ==
    \/ StatusReply \/ RateReply \/ PreambleReply \/ PageReply \/ DisplayReply \/ BadReply

Writes ==
    {Command("RUN", 0), Command("STOP", 0), Command("SINGLE", 0)}
    \cup {Command("DISP", <<ch, on>>) : ch \in Switched, on \in BOOLEAN}

Next ==
    \/ \E command \in Writes : Write(command)
    \/ \E want \in {"poll", "screen", "deep"} : Begin(want, 0)
    \/ \E depth \in UNION Range(MemoryDepths) : Begin("depth", depth)
    \/ HostStep \/ Timeout \/ Reopen
    \/ Execute \/ Acquire \/ Hangup

Spec == Init /\ [][Next]_vars

-----------------------------------------------------------------------------
TypeOK ==
    /\ pc \in {"idle", "reply"} /\ job.want \in Wants /\ job.call \in 0..MaxCalls
    /\ job.ch \in 0..NumChannels /\ Len(job.waves) < NumChannels
    /\ \E n \in Records \cup {Screen} : job.start \in 1..(n + 1)
    /\ outcome.kind \in {"none", "ok", "frame", "ValueError", "RuntimeError", "OSError"}
    /\ closed \in BOOLEAN /\ lost \in BOOLEAN /\ timeouts \in 0..MaxTimeouts
    /\ scope.mode \in {"stopped", "armed", "running"} /\ scope.on \subseteq Channels

Queries(commands) == {i \in DOMAIN commands : IsQuery(commands[i])}

\* As long as no read was given up, the line is in step: between calls no
\* reply is outstanding, and while a call waits every byte on its way answers
\* the query it waits for (transport/raw_tcp.py:22-24).
InStep ==
    ~lost =>
        /\ \A i \in DOMAIN stream : stream[i].of = query.arg
        /\ pc = "idle" => stream = <<>> /\ Queries(wire) = {}
        /\ pc = "reply" => IF stream # <<>> THEN Queries(wire) = {}
                           ELSE closed \/ Queries(wire) = {Len(wire)}

Returned(want) == outcome.kind = "frame" /\ outcome.job.want = want

Wave(ch) == outcome.job.waves[ch]

\* A deep capture hands over every sample of one record, of every channel, once
\* and in order, whatever the pages and even if one came back short
\* (drivers/rigol/ds1054z.py:254-264).
DeepWhole ==
    Returned("deep") /\ outcome.clean =>
        \E frame \in 0..MaxFrames, points \in Records : \A ch \in Channels :
            [k \in DOMAIN Wave(ch) |-> Wave(ch)[k].val] = [k \in 1..points |-> <<frame, ch, k>>]

\* A screen capture hands over the whole trace of every channel, whatever start
\* and stop an earlier deep read left behind, provided no record was shorter
\* than the screen (drivers/rigol/ds1054z.py:299-304).
ScreenWhole ==
    Returned("screen") /\ outcome.clean /\ (\A points \in Records : points >= Screen) =>
        \A ch \in Channels :
            [k \in DOMAIN Wave(ch) |-> Tail(Wave(ch)[k].val)] = [k \in 1..Screen |-> <<ch, k>>]

\* The status a deep capture reports is the one before it stopped the scope: it
\* says stopped only of a scope that was, and then of the very record handed
\* over (drivers/rigol/ds1054z.py:238-244).
StatusFits ==
    Returned("deep") /\ outcome.clean =>
        LET status == outcome.job.status.val
        IN  /\ outcome.job.began = "running" => status[1] = "running"
            /\ status[1] = "stopped" => Wave(1)[1].val[1] = status[2]

\* A frame is what it is said to be: its samples those of one record or trace, and
\* its status of that time (drivers/rigol/ds1054z.py:237-252).
FrameRight == DeepWhole /\ ScreenWhole /\ StatusFits

\* No record has two samples that end a line: a reply is two lines at most.
FewNewlines == \A m, n \in Newlines : m = n

\* A frame of a connection on which no read was given up is made of answers to the
\* very call that returns it.  And one read that timed out jams the connection
\* (transport/raw_tcp.py:22-24): until it is opened anew nothing is passed off as a
\* frame.  It may be if the reply that was given up had three lines: repeated
\* captures then fall into step again, with the answers to one before.
NeverStale ==
    outcome.kind = "frame" =>
        /\ outcome.clean =>
              /\ outcome.job.status.of[1] = outcome.job.call
              /\ \A ch \in Channels : \A k \in DOMAIN Wave(ch) : Wave(ch)[k].of[1] = outcome.job.call
        /\ timeouts <= 1 /\ FewNewlines => outcome.clean

\* A depth that reaches the instrument is legal for the channels it displays
\* and finds it running, so it neither beeps nor is ignored
\* (drivers/rigol/ds1054z.py:53-57, 177-180).
DepthTaken ==
    ~lost /\ wire # <<>> /\ Head(wire).op = "MDEP" =>
        /\ scope.mode = "running"
        /\ Head(wire).arg \in MemoryDepths[Max({1, Cardinality(scope.on)})]

\* No read waits for bytes that are not coming: once every query has been
\* executed the reply is complete, or wrong, or cut short by a closed
\* connection, even out of step (transport/block.py:28-37).
NoDeafWait == pc = "reply" /\ Queries(wire) = {} => Reply.is # "wait"

\* Reads take what was sent for them, neither less nor more (transport/block.py:24-37).
Framed == InStep /\ NoDeafWait

=============================================================================
