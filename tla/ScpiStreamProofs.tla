-------------------------- MODULE ScpiStreamProofs --------------------------
(***************************************************************************)
(* Proofs about ScpiStream: a connection on which no read was given up is  *)
(* in step, no read waits for bytes that are not coming, frames are whole  *)
(* and made of answers to their own call, a depth that reaches the         *)
(* instrument is one it takes, and one read that timed out jams the        *)
(* connection.                                                             *)
(***************************************************************************)
EXTENDS ScpiStreamLemmas, FiniteSetTheorems, SequenceTheorems, TLAPS

-----------------------------------------------------------------------------
(* No read waits for bytes that are not coming.                            *)

\* A call whose query has been executed has its reply, up to the last byte.
Complete ==
    ~closed /\ pc = "reply" /\ NoQuery(wire) => stream # <<>> /\ stream[Len(stream)].is = "end"

\* The query that is asked is the last command on the wire.
LEMMA AskedWire ==
    ASSUME HostTypes, NEW commands \in Seq(Plain), NEW q \in [op : {"?"}, arg : Arguments]
    PROVE  LET asked == wire \o Append(commands, q)
           IN  /\ asked \in Seq(Sent) /\ asked # <<>> /\ asked[Len(asked)] = q /\ ~ NoQuery(asked)
               /\ NoQuery(wire) => \A i \in DOMAIN asked : IsQuery(asked[i]) => i = Len(asked)
  <1> DEFINE more == Append(commands, q)
             asked == wire \o more
  <1>1. q \in Sent /\ IsQuery(q)
    BY Commands DEF IsQuery
  <1>2. commands \in Seq(Sent) /\ NoQuery(commands) /\ wire \in Seq(Sent)
    BY PlainCommands DEF HostTypes
  <1>3. /\ more \in Seq(Sent) /\ Len(more) = Len(commands) + 1 /\ more[Len(commands) + 1] = q
        /\ \A i \in 1..Len(commands) : more[i] = commands[i]
    BY <1>1, <1>2, AppendProperties
  <1>4. Len(wire) \in Nat /\ Len(commands) \in Nat /\ DOMAIN wire = 1..Len(wire) /\ Len(more) \in Nat
        /\ DOMAIN commands = 1..Len(commands)
    BY <1>2, <1>3, LenProperties
  <1> HIDE DEF more
  <1>5. asked \in Seq(Sent) /\ Len(asked) = Len(wire) + Len(more)
    <2>1. wire \in Seq(Sent) /\ more \in Seq(Sent)
      BY <1>2, <1>3
    <2> QED BY <2>1, Joined
  <1>6. \A i \in 1..Len(wire) : asked[i] = wire[i]
    BY <1>2, <1>3, Joined
  <1>7. \A i \in 1..Len(more) : asked[Len(wire) + i] = more[i]
    BY <1>2, <1>3, Joined
  <1>8. DOMAIN asked = 1..Len(asked)
    BY <1>5, LenProperties
  <1> HIDE DEF asked
  <1>9. asked[Len(asked)] = q /\ Len(asked) \in DOMAIN asked
    <2>1. Len(more) \in 1..Len(more)
      BY <1>3, <1>4
    <2>2. asked[Len(wire) + Len(more)] = more[Len(more)]
      BY <1>7, <2>1
    <2> QED BY <1>3, <1>4, <1>5, <1>8, <2>2
  <1>10. ~ NoQuery(asked)
    BY <1>1, <1>9 DEF NoQuery
  <1>11. ASSUME NoQuery(wire), NEW i \in DOMAIN asked, IsQuery(asked[i])
         PROVE  i = Len(asked)
    <2>1. ~ (i \in 1..Len(wire))
      BY <1>4, <1>6, <1>11 DEF NoQuery
    <2>2. PICK j \in 1..Len(more) : i = Len(wire) + j
      <3>1. i - Len(wire) \in 1..Len(more) /\ i = Len(wire) + (i - Len(wire))
        BY <1>4, <1>5, <1>8, <2>1
      <3> QED BY <3>1
    <2>3. asked[i] = more[j]
      BY <1>7, <2>2
    <2>4. ~ (j \in 1..Len(commands))
      BY <1>2, <1>3, <1>4, <1>11, <2>3 DEF NoQuery
    <2>5. j = Len(commands) + 1
      BY <1>3, <1>4, <2>4
    <2> QED BY <1>3, <1>4, <1>5, <2>2, <2>5
  <1>12. asked # <<>>
    BY <1>3, <1>4, <1>5, EmptySeq
  <1> QED BY <1>5, <1>9, <1>10, <1>11, <1>12 DEF asked, more

\* A call that asks has its query on the wire, and none that ends waits.
LEMMA MovesComplete ==
    ASSUME HostTypes, Asks \/ Ends, closed' = closed
    PROVE  Complete'
  <1>1. CASE pc' = "idle"
    BY <1>1 DEF Complete
  <1>2. CASE pc' # "idle" /\ ~closed
    <2>1. PICK commands \in Seq(Plain), about \in Abouts, ch \in 0..NumChannels, doing \in Jobs :
             Ask(commands, about, ch, doing)
      BY <1>2 DEF Asks, Ends, End
    <2>2. query' = Query(doing.call, about, ch) /\ wire' = wire \o Append(commands, query')
      BY <1>2, <2>1 DEF Ask
    <2>3. query' \in [op : {"?"}, arg : Arguments]
      BY <2>2, QueryTypes
    <2>4. ~ NoQuery(wire')
      BY <2>2, <2>3, AskedWire
    <2> QED BY <2>4 DEF Complete, NoQuery
  <1>3. CASE closed
    BY <1>3 DEF Complete
  <1> QED BY <1>1, <1>2, <1>3

\* The instrument executes a query whole, and a command without a byte.
LEMMA ExecuteComplete ==
    ASSUME TypeInv, Complete, Execute
    PROVE  Complete'
  <1>1. UNCHANGED <<host, closed>> /\ wire' = Tail(wire) /\ wire # <<>>
    BY DEF Execute
  <1>2. pc' = pc
    BY <1>1 DEF host
  <1>3. CASE ~IsQuery(Head(wire))
    <2>1. stream' = stream
      BY <1>3, Executes
    <2>2. NoQuery(Tail(wire)) => NoQuery(wire)
      <3>1. wire \in Seq(Sent)
        BY DEF TypeInv, HostTypes
      <3>2. ASSUME NoQuery(Tail(wire)), NEW i \in DOMAIN wire PROVE ~IsQuery(wire[i])
        <4>1. CASE i = 1
          BY <1>1, <1>3, <3>1, <4>1, WireTail
        <4>2. CASE i # 1
          <5>1. i - 1 \in 1..(Len(wire) - 1) /\ (i - 1) + 1 = i
            BY <1>1, <3>1, <4>2, WireTail
          <5>2. Tail(wire)[i - 1] = wire[(i - 1) + 1] /\ i - 1 \in DOMAIN Tail(wire)
            BY <1>1, <3>1, <5>1, WireTail
          <5> QED BY <3>2, <5>1, <5>2 DEF NoQuery
        <4> QED BY <4>1, <4>2
      <3> QED BY <3>2 DEF NoQuery
    <2> QED BY <1>1, <1>2, <2>1, <2>2 DEF Complete, NoQuery
  <1>4. CASE IsQuery(Head(wire))
    <2>1. PICK r : Answer(r) /\ stream' = stream \o r
      BY <1>4, QueryAnswered
    <2>2. ~closed /\ stream \in Seq(Bytes) /\ Whole(stream)
      BY Executes DEF TypeInv, LineTypes
    <2>3. stream \o r # <<>> /\ (stream \o r)[Len(stream \o r)].is = "end"
      BY <2>1, <2>2, WholeJoined
    <2> QED BY <2>1, <2>3 DEF Complete
  <1> QED BY <1>3, <1>4

\* Every step keeps it so.
LEMMA NextComplete ==
    ASSUME TypeInv, Complete, [Next]_vars
    PROVE  Complete'
  <1>1. CASE \E command \in Writes : Write(command)
    BY <1>1 DEF Write, host, Complete
  <1>2. CASE \/ \E want \in {"poll", "screen", "deep"} : Begin(want, 0)
             \/ \E depth \in Depths : Begin("depth", depth)
    <2>1. (Asks \/ Ends) /\ closed' = closed
      BY <1>2, BeginTypes DEF Begin
    <2> QED BY <2>1, MovesComplete DEF TypeInv
  <1>3. CASE HostStep
    <2>1. Asks \/ Ends
      BY <1>3, StatusTypes, RateTypes, PreambleTypes, PageTypes, DisplayTypes, BadTypes DEF HostStep
    <2>2. closed' = closed
      BY <1>3 DEF HostStep, StatusReply, RateReply, PreambleReply, PageReply, DisplayReply, BadReply, Answered
    <2> QED BY <2>1, <2>2, MovesComplete DEF TypeInv
  <1>4. CASE Timeout \/ Reopen
    BY <1>4 DEF Timeout, End, Reopen, host, Complete
  <1>5. CASE Execute
    BY <1>5, ExecuteComplete
  <1>6. CASE Acquire \/ UNCHANGED vars
    BY <1>6 DEF Acquire, vars, host, Complete, NoQuery
  <1>7. CASE Hangup
    BY <1>7 DEF Hangup, Complete
  <1> QED BY <1>1, <1>2, <1>3, <1>4, <1>5, <1>6, <1>7 DEF Next, Depths

\* So a read of such a call has all it waits for.
LEMMA NoWait ==
    ASSUME TypeInv, Complete
    PROVE  NoDeafWait
  <1> SUFFICES ASSUME pc = "reply", Queries(wire) = {} PROVE Reply.is # "wait"
    BY DEF NoDeafWait
  <1>1. NoQuery(wire) /\ stream \in Seq(Bytes)
    BY DEF Queries, NoQuery, TypeInv, LineTypes
  <1>2. Len(stream) \in Nat /\ DOMAIN stream = 1..Len(stream)
    BY <1>1, LenProperties
  <1>3. CASE About # "data"
    <2>1. closed \/ LineEnds(stream) # {}
      <3>1. ASSUME ~closed PROVE Len(stream) \in LineEnds(stream)
        <4>1. stream # <<>> /\ stream[Len(stream)].is = "end"
          BY <1>1, <3>1 DEF Complete
        <4>2. Len(stream) \in DOMAIN stream
          BY <1>1, <1>2, <4>1, EmptySeq
        <4> QED BY <4>1, <4>2 DEF LineEnds, EndsLine
      <3> QED BY <3>1
    <2>2. LineOf(stream).is # "wait"
      BY <1>1, <2>1, LineFacts
    <2> QED BY <1>3, <2>2 DEF Reply, ReplyIn
  <1>4. CASE About = "data"
    <2>1. CASE closed \/ (stream # <<>> /\ stream[1].is # "hash")
      <3>1. \A s \in Seq(Bytes) : closed => LineOf(s).is # "wait"
        BY LineFacts
      <3>2. CASE stream # <<>> /\ stream[1].is # "hash"
        BY <1>4, <3>2 DEF Reply, ReplyIn, BlockOf, Raised
      <3>3. CASE ~ (stream # <<>> /\ stream[1].is # "hash") /\ closed
        <4>1. CASE Len(stream) < 2 \/ Len(stream) < 2 + stream[2].val[1]
          BY <1>4, <3>3, <4>1 DEF Reply, ReplyIn, BlockOf, Raised
        <4>2. CASE ~ (Len(stream) < 2 \/ Len(stream) < 2 + stream[2].val[1])
          <5> DEFINE rest == From(stream, stream[2].val[1] + 3)
          <5>1. BlockOf(stream).is = IF LineOf(rest).is = "wait" THEN "wait" ELSE "block"
            BY <3>3, <4>2 DEF BlockOf
          <5>2. LineOf(rest).is # "wait"
            <6> HIDE DEF rest
            <6> QED BY <3>3 DEF LineOf
          <5> QED BY <1>4, <5>1, <5>2 DEF Reply, ReplyIn
        <4> QED BY <4>1, <4>2
      <3> QED BY <2>1, <3>2, <3>3
    <2>2. CASE ~closed /\ ~ (stream # <<>> /\ stream[1].is # "hash")
      <3>1. stream # <<>> /\ stream[1].is = "hash" /\ 1 \in DOMAIN stream /\ Whole(stream)
        BY <1>1, <1>2, <2>2, EmptySeq DEF Complete, TypeInv, LineTypes
      <3>2. PICK n \in Nat : /\ 1 + 1 \in DOMAIN stream /\ stream[1 + 1].val = <<n>>
                             /\ 1 + 2 + n \in DOMAIN stream /\ stream[1 + 2 + n].is = "end"
        BY <3>1 DEF Whole
      <3>3. stream[2].val[1] = n /\ Len(stream) >= 3 + n /\ stream[n + 3].is = "end"
        <4>1. 1 + 1 = 2 /\ 1 + 2 + n = n + 3
          OBVIOUS
        <4>2. n + 3 \in DOMAIN stream /\ stream[n + 3].is = "end" /\ stream[2].val = <<n>>
          BY <3>2, <4>1
        <4> QED BY <1>2, <4>2
      <3> DEFINE rest == From(stream, n + 3)
      <3>4. n + 3 \in 1..(Len(stream) + 1)
        BY <1>2, <3>3
      <3>5. rest \in Seq(Bytes) /\ Len(rest) >= 1 /\ rest[1] = stream[n + 3]
        <4>1. rest \in Seq(Bytes) /\ Len(rest) = Len(stream) - (n + 3) + 1
              /\ \A i \in 1..(Len(stream) - (n + 3) + 1) : rest[i] = stream[(n + 3) + i - 1]
          BY <1>1, <3>4, FromFacts
        <4>2. Len(stream) - (n + 3) + 1 >= 1 /\ (n + 3) + 1 - 1 = n + 3
          BY <1>2, <3>3
        <4>3. 1 \in 1..(Len(stream) - (n + 3) + 1)
          BY <1>2, <4>2
        <4>4. rest[1] = stream[(n + 3) + 1 - 1]
          BY <4>1, <4>3
        <4> QED BY <4>1, <4>2, <4>4
      <3>6. BlockOf(stream).is = IF LineOf(rest).is = "wait" THEN "wait" ELSE "block"
        <4>1. ~ (Len(stream) < 2 \/ Len(stream) < 2 + stream[2].val[1])
          BY <1>2, <3>3
        <4> QED BY <3>1, <3>3, <4>1 DEF BlockOf
      <3> HIDE DEF rest
      <3>7. 1 \in LineEnds(rest)
        <4>1. DOMAIN rest = 1..Len(rest) /\ Len(rest) \in Nat
          BY <3>5, LenProperties
        <4> QED BY <3>3, <3>5, <4>1 DEF LineEnds, EndsLine
      <3>8. LineOf(rest).is # "wait"
        BY <3>5, <3>7, LineFacts
      <3> QED BY <1>4, <3>6, <3>8 DEF Reply, ReplyIn
    <2> QED BY <2>1, <2>2
  <1> QED BY <1>3, <1>4

-----------------------------------------------------------------------------
(* A connection on which no read was given up is in step.                  *)

Arrived == stream # <<>>
Pending == ~closed /\ stream = <<>>
Size == stream[2].val[1]

LineShape ==
    /\ Len(stream) <= 2
    /\ stream[1].is = "text"
    /\ Len(stream) = 2 => stream[2].is = "end"

BlockShape ==
    /\ stream[1].is = "hash"
    /\ Len(stream) >= 2 => /\ Size \in Nat /\ Len(stream) <= Size + 3
                           /\ Len(stream) = Size + 3 => stream[Size + 3].is = "end"

Shape == IF About = "data" THEN BlockShape ELSE LineShape

\* Between calls nothing is outstanding.  While a call waits, its query is the
\* last command and the only query on the wire, or what came answers it.
InTurn ==
    ~lost =>
        /\ pc = "idle" => stream = <<>> /\ NoQuery(wire)
        /\ pc = "reply" =>
              /\ Arrived => /\ wire = <<>> /\ Shape
                            /\ \A i \in DOMAIN stream : stream[i].of = query.arg
              /\ Pending => /\ wire # <<>> /\ wire[Len(wire)] = query
                            /\ \A i \in DOMAIN wire : IsQuery(wire[i]) => i = Len(wire)

\* The least of one number.
LEMMA MinOfOne ==
    ASSUME NEW n \in Nat
    PROVE  Min({n}) = n
  <1>1. {n} \in SUBSET Nat /\ {n} # {}
    OBVIOUS
  <1>2. Min({n}) \in {n}
    BY <1>1, MinIsLeast
  <1> QED BY <1>2

\* A line that answers its query is read to its end.
LEMMA LineConsumed ==
    ASSUME TypeInv, Arrived, LineShape
    PROVE  LineOf(stream).rest = <<>> /\ LineOf(stream).got = <<stream[1]>>
  <1>1. /\ stream \in Seq(Bytes) /\ Len(stream) \in {1, 2} /\ DOMAIN stream = 1..Len(stream)
        /\ stream[1].is = "text"
    <2>1. stream \in Seq(Bytes) /\ stream # <<>> /\ Len(stream) <= 2 /\ stream[1].is = "text"
      BY DEF TypeInv, LineTypes, Arrived, LineShape
    <2>2. Len(stream) \in Nat /\ Len(stream) # 0 /\ DOMAIN stream = 1..Len(stream)
      BY <2>1, LenProperties, EmptySeq
    <2> QED BY <2>1, <2>2
  <1>2. CASE Len(stream) = 1
    <2>1. LineEnds(stream) = {}
      BY <1>1, <1>2 DEF LineEnds, EndsLine
    <2>2. stream = <<stream[1]>>
      <3>1. \A s \in Seq(Bytes) : Len(s) = 1 => s = <<s[1]>>
        OBVIOUS
      <3> QED BY <1>1, <1>2, <3>1
    <2>3. LineOf(stream).got = stream /\ LineOf(stream).rest = <<>>
      BY <1>1, <2>1, LineFacts
    <2> QED BY <2>2, <2>3
  <1>3. CASE Len(stream) = 2
    <2>1. stream[2].is = "end"
      BY <1>3 DEF LineShape
    <2>2. LineEnds(stream) = {2}
      BY <1>1, <1>3, <2>1 DEF LineEnds, EndsLine
    <2>3. Min(LineEnds(stream)) = 2
      BY <2>2, MinOfOne
    <2>4. LineOf(stream).got = SubSeq(stream, 1, 1) /\ LineOf(stream).rest = From(stream, 3)
      BY <2>2, <2>3 DEF LineOf
    <2>5. From(stream, 3) = <<>>
      <3>1. 3 \in 1..(Len(stream) + 1) /\ 3 = Len(stream) + 1
        BY <1>3
      <3> QED BY <1>1, <3>1, FromFacts
    <2>6. SubSeq(stream, 1, 1) = <<stream[1]>>
      <3>1. 1 \in 1..(Len(stream) + 1) /\ 1 \in (1 - 1)..Len(stream)
        BY <1>3
      <3>2. SubSeq(stream, 1, 1) \in Seq(Bytes) /\ Len(SubSeq(stream, 1, 1)) = 1 - 1 + 1
        BY <1>1, <3>1, UptoFacts
      <3>3. \A i \in 1..(1 - 1 + 1) : SubSeq(stream, 1, 1)[i] = stream[1 + i - 1]
        BY <1>1, <3>1, UptoFacts
      <3>4. \A s \in Seq(Bytes) : Len(s) = 1 => s = <<s[1]>>
        OBVIOUS
      <3>5. SubSeq(stream, 1, 1)[1] = stream[1]
        BY <3>3
      <3>6. PICK s : s = SubSeq(stream, 1, 1)
        OBVIOUS
      <3>7. s \in Seq(Bytes) /\ Len(s) = 1 /\ s[1] = stream[1]
        BY <3>2, <3>5, <3>6
      <3>8. s = <<stream[1]>>
        BY <3>4, <3>7
      <3> QED BY <3>6, <3>8
    <2> QED BY <2>4, <2>5, <2>6
  <1> QED BY <1>1, <1>2, <1>3

\* A block that answers its query is read to its end, if it is not cut off.
LEMMA BlockConsumed ==
    ASSUME TypeInv, Arrived, BlockShape
    PROVE  /\ BlockOf(stream).rest = <<>> /\ BlockOf(stream).is \in {"block", "wait", "OSError"}
           /\ BlockOf(stream).is = "block" =>
                 /\ Len(stream) >= Size + 2 /\ Size \in Nat
                 /\ BlockOf(stream).got \in Seq(Bytes) /\ Len(BlockOf(stream).got) = Size
                 /\ \A i \in 1..Size : BlockOf(stream).got[i] = stream[i + 2]
  <1>1. stream \in Seq(Bytes) /\ Len(stream) \in Nat \ {0} /\ stream # <<>> /\ stream[1].is = "hash"
    BY LenProperties, EmptySeq DEF TypeInv, LineTypes, Arrived, BlockShape
  <1>2. CASE Len(stream) < 2 \/ Len(stream) < 2 + stream[2].val[1]
    <2>1. BlockOf(stream) = [is |-> IF closed THEN "OSError" ELSE "wait", got |-> <<>>, rest |-> <<>>]
      BY <1>1, <1>2 DEF BlockOf, Raised
    <2> QED BY <2>1
  <1>3. CASE ~ (Len(stream) < 2 \/ Len(stream) < 2 + stream[2].val[1])
    <2> DEFINE rest == From(stream, Size + 3)
    <2>1. /\ Size \in Nat /\ Len(stream) <= Size + 3 /\ Len(stream) >= Size + 2
          /\ Len(stream) = Size + 3 => stream[Size + 3].is = "end"
      BY <1>1, <1>3 DEF BlockShape, Size
    <2>2. BlockOf(stream) = [is |-> IF LineOf(rest).is = "wait" THEN "wait" ELSE "block",
                             got |-> SubSeq(stream, 3, Size + 2), rest |-> LineOf(rest).rest]
      BY <1>1, <1>3 DEF BlockOf, Size
    <2> HIDE DEF Size
    <2>3. Size + 3 \in 1..(Len(stream) + 1) /\ 3 \in 1..(Len(stream) + 1) /\ Size + 2 \in (3 - 1)..Len(stream)
      BY <1>1, <2>1
    <2>4. /\ SubSeq(stream, 3, Size + 2) \in Seq(Bytes)
          /\ Len(SubSeq(stream, 3, Size + 2)) = (Size + 2) - 3 + 1
          /\ \A i \in 1..((Size + 2) - 3 + 1) : SubSeq(stream, 3, Size + 2)[i] = stream[3 + i - 1]
      <3>1. stream \in Seq(Bytes)
        BY <1>1
      <3>2. SubSeq(stream, 3, Size + 2) \in Seq(Bytes)
        BY <3>1, <2>3, UptoFacts
      <3>3. Len(SubSeq(stream, 3, Size + 2)) = (Size + 2) - 3 + 1
        BY <3>1, <2>3, UptoFacts
      <3>4. \A i \in 1..((Size + 2) - 3 + 1) : SubSeq(stream, 3, Size + 2)[i] = stream[3 + i - 1]
        BY <3>1, <2>3, UptoFacts
      <3> QED BY <3>2, <3>3, <3>4
    <2>5. /\ rest \in Seq(Bytes) /\ Len(rest) = Len(stream) - (Size + 3) + 1
          /\ \A i \in 1..(Len(stream) - (Size + 3) + 1) : rest[i] = stream[(Size + 3) + i - 1]
      BY <1>1, <2>3, FromFacts
    <2> HIDE DEF rest
    <2>6. LineOf(rest).rest = <<>>
      <3>1. CASE Len(stream) = Size + 2
        <4>1. rest = <<>>
          BY <2>1, <2>5, <3>1, EmptySeq
        <4>2. LineEnds(rest) = {}
          BY <4>1 DEF LineEnds
        <4> QED BY <2>5, <4>2, LineFacts
      <3>2. CASE Len(stream) = Size + 3
        <4>1. Len(rest) = 1 /\ rest[1] = stream[Size + 3]
          <5>1. Len(stream) - (Size + 3) + 1 = 1 /\ (Size + 3) + 1 - 1 = Size + 3
            BY <2>1, <3>2
          <5> QED BY <2>5, <5>1
        <4>2. rest[1].is = "end"
          BY <2>1, <3>2, <4>1
        <4>3. DOMAIN rest = 1..1
          BY <2>5, <4>1, LenProperties
        <4>4. LineEnds(rest) = {1}
          BY <4>2, <4>3 DEF LineEnds, EndsLine
        <4>5. Min(LineEnds(rest)) = 1
          BY <4>4, MinOfOne
        <4>6. LineOf(rest).rest = From(rest, 2)
          BY <4>4, <4>5 DEF LineOf
        <4>7. 2 \in 1..(Len(rest) + 1) /\ 2 = Len(rest) + 1
          BY <4>1
        <4> QED BY <2>5, <4>6, <4>7, FromFacts
      <3> QED BY <1>1, <2>1, <3>1, <3>2
    <2>7. (Size + 2) - 3 + 1 = Size /\ \A i \in 1..Size : 3 + i - 1 = i + 2
      BY <2>1
    <2> QED BY <2>1, <2>2, <2>4, <2>6, <2>7
  <1> QED BY <1>2, <1>3

\* A reply in turn is read to its end, and was the last on the line.
LEMMA Consumed ==
    ASSUME TypeInv, InTurn, ~lost, pc = "reply", Reply.is # "wait"
    PROVE  /\ wire = <<>> /\ Reply.rest = <<>>
           /\ Reply.is = "line" => Reply.got = <<>> \/ (Arrived /\ Reply.got = <<stream[1]>>)
           /\ Reply.is = "block" =>
                 /\ Arrived /\ Len(stream) >= Size + 2 /\ Size \in Nat
                 /\ Reply.got \in Seq(Bytes) /\ Len(Reply.got) = Size
                 /\ \A i \in 1..Size : Reply.got[i] = stream[i + 2]
  <1>1. stream \in Seq(Bytes) /\ (closed => wire = <<>>)
    BY DEF TypeInv, LineTypes, HostTypes
  <1>2. CASE Arrived
    <2>1. wire = <<>> /\ Shape
      BY <1>2 DEF InTurn
    <2>2. CASE About = "data"
      <3>1. BlockShape /\ Reply = BlockOf(stream)
        BY <2>1, <2>2 DEF Shape, Reply, ReplyIn
      <3> QED BY <1>2, <2>1, <3>1, BlockConsumed, Zenon
    <2>3. CASE About # "data"
      <3>1. LineShape /\ Reply = LineOf(stream) /\ Reply.is # "block"
        BY <1>1, <2>1, <2>3, LineFacts DEF Shape, Reply, ReplyIn
      <3> QED BY <1>2, <2>1, <3>1, LineConsumed
    <2> QED BY <2>2, <2>3
  <1>3. CASE ~Arrived
    <2>1. stream = <<>> /\ DOMAIN stream = {} /\ Len(stream) = 0 /\ LineEnds(stream) = {}
      BY <1>3, EmptySeq DEF Arrived, LineEnds
    <2>2. CASE About = "data"
      <3>1. BlockOf(stream) = [is |-> IF closed THEN "OSError" ELSE "wait", got |-> <<>>, rest |-> <<>>]
        BY <2>1 DEF BlockOf, Raised
      <3>2. Reply = BlockOf(stream)
        BY <2>2 DEF Reply, ReplyIn
      <3> QED BY <1>1, <3>1, <3>2
    <2>3. CASE About # "data"
      <3>1. LineOf(stream) = [is |-> IF closed THEN "line" ELSE "wait", got |-> stream, rest |-> <<>>]
        BY <2>1 DEF LineOf
      <3>2. Reply = LineOf(stream)
        BY <2>3 DEF Reply, ReplyIn
      <3>3. /\ Reply.is \in {"line", "wait"} /\ Reply.got = <<>> /\ Reply.rest = <<>>
            /\ (closed \/ Reply.is = "wait")
        BY <2>1, <3>1, <3>2
      <3>4. wire = <<>> /\ Reply.is = "line"
        BY <1>1, <3>3
      <3> QED BY <3>3, <3>4
    <2> QED BY <2>2, <2>3
  <1> QED BY <1>2, <1>3

\* Commands after commands.
LEMMA NoQueryJoined ==
    ASSUME NEW s \in Seq(Sent), NoQuery(s), NEW t \in Seq(Sent), NoQuery(t)
    PROVE  NoQuery(s \o t)
  <1> DEFINE both == s \o t
  <1>1. /\ Len(s) \in Nat /\ Len(t) \in Nat /\ DOMAIN s = 1..Len(s) /\ DOMAIN t = 1..Len(t)
        /\ both \in Seq(Sent) /\ Len(both) = Len(s) + Len(t)
    BY Joined, LenProperties
  <1>2. \A i \in 1..Len(s) : both[i] = s[i]
    BY Joined
  <1>3. \A i \in 1..Len(t) : both[Len(s) + i] = t[i]
    BY Joined
  <1>4. DOMAIN both = 1..(Len(s) + Len(t))
    BY <1>1, LenProperties
  <1> HIDE DEF both
  <1>5. ASSUME NEW i \in DOMAIN both PROVE ~IsQuery(both[i])
    <2>1. CASE i <= Len(s)
      <3>1. i \in DOMAIN s /\ both[i] = s[i]
        BY <1>1, <1>2, <1>4, <2>1
      <3> QED BY <3>1 DEF NoQuery
    <2>2. CASE i > Len(s)
      <3>1. PICK j \in 1..Len(t) : i = Len(s) + j
        <4>1. i - Len(s) \in 1..Len(t) /\ i = Len(s) + (i - Len(s))
          BY <1>1, <1>4, <2>2
        <4> QED BY <4>1
      <3>2. j \in DOMAIN t /\ both[i] = t[j]
        BY <1>1, <1>3, <3>1
      <3> QED BY <3>2 DEF NoQuery
    <2> QED BY <1>1, <1>4, <2>1, <2>2
  <1> QED BY <1>5 DEF NoQuery, both

\* Asking and ending keep a line in step on which nothing is outstanding.
LEMMA MovesInTurn ==
    ASSUME HostTypes, Asks \/ Ends, closed' = closed, stream' = <<>>, NoQuery(wire)
    PROVE  InTurn'
  <1>1. CASE Ends
    <2>1. PICK kind \in Kinds, done \in Jobs, commands \in Seq(Plain) : End(kind, done, commands)
      BY <1>1 DEF Ends
    <2>2. wire \in Seq(Sent) /\ commands \in Seq(Sent) /\ NoQuery(commands)
      BY PlainCommands DEF HostTypes
    <2>3. NoQuery(wire \o commands)
      BY <2>2, NoQueryJoined
    <2>4. wire' = wire \/ wire' = wire \o commands
      BY <2>1 DEF End
    <2>5. NoQuery(wire')
      BY <2>3, <2>4
    <2> QED BY <2>1, <2>5 DEF InTurn, End, NoQuery
  <1>2. CASE Asks /\ ~Ends
    <2>1. PICK commands \in Seq(Plain), about \in Abouts, ch \in 0..NumChannels, doing \in Jobs :
             Ask(commands, about, ch, doing)
      BY <1>2 DEF Asks
    <2>2. ~ End("OSError", doing, <<>>)
      <3>1. "OSError" \in Kinds /\ <<>> \in Seq(Plain)
        BY EmptySeq DEF Kinds
      <3> QED BY <1>2, <3>1 DEF Ends
    <2>3. /\ query' = Query(doing.call, about, ch) /\ pc' = "reply"
          /\ wire' = IF closed THEN wire ELSE wire \o Append(commands, query')
      BY <2>1, <2>2 DEF Ask
    <2>4. query' \in [op : {"?"}, arg : Arguments]
      BY <2>3, QueryTypes
    <2>5. ~ closed => /\ wire' # <<>> /\ wire'[Len(wire')] = query'
                      /\ \A i \in DOMAIN wire' : IsQuery(wire'[i]) => i = Len(wire')
      BY <2>3, <2>4, AskedWire
    <2> QED BY <2>3, <2>5 DEF InTurn, Arrived, Pending, IsQuery
  <1> QED BY <1>1, <1>2

\* A reply in turn leaves nothing behind.
LEMMA ReadInTurn ==
    ASSUME TypeInv, InTurn, NEW about, Answered(about), Asks \/ Ends
    PROVE  InTurn'
  <1>1. pc = "reply" /\ Reply.is # "wait" /\ stream' = Reply.rest /\ closed' = closed /\ lost' = lost
    BY DEF Answered
  <1>2. CASE lost
    BY <1>1, <1>2 DEF InTurn
  <1>3. CASE ~lost
    <2>1. wire = <<>> /\ Reply.rest = <<>>
      BY <1>1, <1>3, Consumed
    <2>2. NoQuery(wire)
      BY <2>1 DEF NoQuery
    <2> QED BY <1>1, <2>1, <2>2, MovesInTurn DEF TypeInv
  <1> QED BY <1>2, <1>3

\* While a call waits in turn, the instrument executes its commands and then its query.
LEMMA InTurnExecutes ==
    ASSUME TypeInv, InTurn, ~lost, pc = "reply", Execute
    PROVE  /\ Pending
           /\ IsQuery(Head(wire)) => Head(wire) = query /\ wire = <<query>> /\ Tail(wire) = <<>>
           /\ ~IsQuery(Head(wire)) => Tail(wire) # <<>>
  <1>1. ~closed /\ wire # <<>> /\ wire \in Seq(Sent)
    BY Executes DEF Execute, TypeInv, HostTypes
  <1>2. Pending
    BY <1>1 DEF InTurn, Arrived, Pending
  <1>3. wire[Len(wire)] = query /\ \A i \in DOMAIN wire : IsQuery(wire[i]) => i = Len(wire)
    BY <1>2 DEF InTurn
  <1>4. /\ Head(wire) = wire[1] /\ Len(wire) \in Nat \ {0} /\ 1 \in DOMAIN wire
        /\ Len(Tail(wire)) = Len(wire) - 1 /\ Tail(wire) \in Seq(Sent)
    BY <1>1, WireTail
  <1>5. ASSUME IsQuery(Head(wire))
        PROVE  Head(wire) = query /\ wire = <<query>> /\ Tail(wire) = <<>>
    <2>1. Len(wire) = 1
      BY <1>3, <1>4, <1>5
    <2>2. wire[1] = query
      BY <1>3, <2>1
    <2>3. \A w \in Seq(Sent) : Len(w) = 1 => w = <<w[1]>>
      OBVIOUS
    <2>4. Tail(wire) = <<>>
      <3>1. Len(Tail(wire)) = 0
        BY <1>4, <2>1
      <3> QED BY <1>4, <3>1, EmptySeq
    <2> QED BY <1>1, <1>4, <2>1, <2>2, <2>3, <2>4
  <1>6. ASSUME ~IsQuery(Head(wire)), Tail(wire) = <<>> PROVE FALSE
    <2>1. Len(wire) = 1
      BY <1>4, <1>6, EmptySeq
    <2>2. wire[1] = query /\ IsQuery(query)
      BY <1>3, <2>1 DEF TypeInv, HostTypes, IsQuery
    <2> QED BY <1>4, <1>6, <2>2
  <1> QED BY <1>2, <1>5, <1>6

\* The bytes of a block of the samples from number a on.
IsBlock(block, s, of, a, size) ==
    /\ block \in Seq(Bytes) /\ Len(block) = size + 3 /\ size \in Nat
    /\ block[1] = Byte("hash", of, <<>>) /\ block[2] = Byte("len", of, <<size>>)
    /\ \A i \in 1..size : block[i + 2] = Byte("data", of, <<s.frame, s.src, a + i - 1>>)
    /\ block[size + 3] = Byte("end", of, <<>>)

\* What the instrument answers for samples that follow one another is such a block.
LEMMA BlockIs ==
    ASSUME NEW s \in Scopes, NEW of \in Arguments, NEW a \in Nat, NEW b \in Nat, a <= b + 1
    PROVE  IsBlock(Block(s, of, a..b), s, of, a, b - a + 1)
  BY BlockReply DEF IsBlock

\* What the instrument answers to the one query on the wire answers that query.
LEMMA ExecuteInTurn ==
    ASSUME TypeInv, InTurn, Execute
    PROVE  InTurn'
  <1>1. UNCHANGED <<host, closed, lost>> /\ wire' = Tail(wire) /\ wire # <<>>
    BY DEF Execute
  <1>2. pc' = pc /\ query' = query /\ closed' = closed /\ lost' = lost /\ wire \in Seq(Sent) /\ ~closed
    BY <1>1, Executes DEF host, TypeInv, HostTypes
  <1>3. CASE lost
    BY <1>2, <1>3 DEF InTurn
  <1>4. CASE ~lost /\ pc = "idle"
    <2>1. stream = <<>> /\ NoQuery(wire)
      BY <1>4 DEF InTurn
    <2>2. ~IsQuery(Head(wire)) /\ NoQuery(Tail(wire))
      BY <1>1, <1>2, <2>1, WireTail DEF NoQuery
    <2>3. stream' = <<>>
      BY <2>1, <2>2, Executes
    <2> QED BY <1>1, <1>2, <1>4, <2>2, <2>3 DEF InTurn, NoQuery
  <1>5. CASE ~lost /\ pc = "reply" /\ ~IsQuery(Head(wire))
    <2>1. Pending /\ Tail(wire) # <<>> /\ stream' = stream
      BY <1>5, InTurnExecutes, Executes
    <2>2. wire[Len(wire)] = query /\ \A i \in DOMAIN wire : IsQuery(wire[i]) => i = Len(wire)
      BY <1>5, <2>1 DEF InTurn
    <2> DEFINE t == Tail(wire)
    <2>3. /\ t \in Seq(Sent) /\ Len(t) = Len(wire) - 1 /\ DOMAIN t = 1..(Len(wire) - 1)
          /\ DOMAIN wire = 1..Len(wire) /\ Len(wire) \in Nat \ {0}
          /\ \A i \in 1..(Len(wire) - 1) : t[i] = wire[i + 1]
      BY <1>1, <1>2, WireTail
    <2>4. t # <<>>
      BY <2>1
    <2> HIDE DEF t
    <2>5. Len(t) # 0 /\ Len(t) \in 1..(Len(wire) - 1) /\ Len(t) + 1 = Len(wire)
      BY <2>3, <2>4, EmptySeq
    <2>6. t[Len(t)] = query
      BY <2>2, <2>3, <2>5
    <2>7. ASSUME NEW i \in DOMAIN t, IsQuery(t[i]) PROVE i = Len(t)
      <3>1. t[i] = wire[i + 1] /\ i + 1 \in DOMAIN wire
        BY <2>3
      <3>2. i + 1 = Len(wire)
        BY <2>2, <2>7, <3>1
      <3> QED BY <2>3, <3>2
    <2>8. wire' = t
      BY <1>1 DEF t
    <2> QED BY <1>2, <1>5, <2>1, <2>4, <2>6, <2>7, <2>8 DEF InTurn, Arrived, Pending, IsQuery
  <1>6. CASE ~lost /\ pc = "reply" /\ IsQuery(Head(wire))
    <2>1. Pending /\ Head(wire) = query /\ Tail(wire) = <<>>
      BY <1>6, InTurnExecutes
    <2>2. query.arg \in Arguments /\ scope \in Scopes /\ stream = <<>>
      BY <2>1 DEF TypeInv, HostTypes, LineTypes, Pending
    <2>3. \A r \in Seq(Bytes) : stream \o r = r
      BY <2>2, ConcatEmptySeq
    <2>4. CASE About # "data"
      <3>1. stream' = stream \o Line(scope, query.arg)
        BY <1>6, <2>1, <2>4, Executes DEF About
      <3>2. /\ Line(scope, query.arg) \in Seq(Bytes) /\ Len(Line(scope, query.arg)) = 2
            /\ Line(scope, query.arg)[1] = Byte("text", query.arg, Value(scope, query.arg[2], query.arg[3]))
            /\ Line(scope, query.arg)[2] = Byte("end", query.arg, <<>>)
        BY <2>2, <2>4, LineReply DEF About
      <3>3. stream' = Line(scope, query.arg)
        BY <2>3, <3>1, <3>2
      <3>4. Len(stream') = 2 /\ stream'[1].is = "text" /\ stream'[2].is = "end"
            /\ stream'[1].of = query.arg /\ stream'[2].of = query.arg
        BY <3>2, <3>3 DEF Byte
      <3>5. DOMAIN stream' = 1..2
        BY <3>2, <3>3, LenProperties
      <3>6. LineShape'
        BY <3>4 DEF LineShape
      <3>7. \A i \in DOMAIN stream' : stream'[i].of = query'.arg
        BY <1>2, <3>4, <3>5
      <3>8. About' # "data"
        BY <1>2, <2>4 DEF About
      <3> QED BY <1>1, <1>2, <1>6, <2>1, <3>4, <3>6, <3>7, <3>8, EmptySeq
              DEF InTurn, Arrived, Pending, Shape
    <2>5. CASE About = "data"
      <3>1. PICK short \in IF scope.raw THEN {{}, {scope.stop}} ELSE {{}} :
               stream' = stream \o Block(scope, query.arg, Samples(scope) \ short)
        BY <1>6, <2>1, <2>5, Executes DEF About
      <3>2. PICK a, b \in Nat : a <= b + 1 /\ Samples(scope) \ short = a..b
        <4>1. short \in {{}, {scope.stop}}
          BY <3>1
        <4>2. Follow(Samples(scope) \ short)
          BY <2>2, <4>1, SamplesFollow
        <4> QED BY <4>2 DEF Follow
      <3> DEFINE block == Block(scope, query.arg, a..b)
                 size == b - a + 1
      <3>3. /\ block \in Seq(Bytes) /\ Len(block) = size + 3 /\ size \in Nat
            /\ block[1] = Byte("hash", query.arg, <<>>) /\ block[2] = Byte("len", query.arg, <<size>>)
            /\ \A i \in 1..size :
                  block[i + 2] = Byte("data", query.arg, <<scope.frame, scope.src, a + i - 1>>)
            /\ block[size + 3] = Byte("end", query.arg, <<>>)
        <4>1. scope \in Scopes /\ query.arg \in Arguments /\ a \in Nat /\ b \in Nat /\ a <= b + 1
          BY <2>2, <3>2
        <4>2. IsBlock(block, scope, query.arg, a, size)
          BY <4>1, BlockIs, Zenon
        <4> HIDE DEF block, size
        <4> QED BY <4>2 DEF IsBlock
      <3> HIDE DEF block, size
      <3>4. stream' = block
        BY <2>3, <3>1, <3>2, <3>3 DEF block
      <3>5. ASSUME NEW i \in DOMAIN block PROVE block[i].of = query.arg
        <4>1. DOMAIN block = 1..(size + 3)
          BY <3>3, LenProperties
        <4>2. CASE i \in 3..(size + 2)
          <5>1. i - 2 \in 1..size /\ (i - 2) + 2 = i
            BY <3>3, <4>2
          <5>2. block[i] = Byte("data", query.arg, <<scope.frame, scope.src, a + (i - 2) - 1>>)
            BY <3>3, <5>1
          <5> QED BY <5>2 DEF Byte
        <4>3. i = 1 \/ i = 2 \/ i \in 3..(size + 2) \/ i = size + 3
          BY <3>3, <4>1
        <4> QED BY <3>3, <4>2, <4>3 DEF Byte
      <3>6. block[1].is = "hash" /\ block[2].val[1] = size /\ block[size + 3].is = "end"
        BY <3>3 DEF Byte
      <3>7. BlockShape'
        BY <3>3, <3>4, <3>6 DEF BlockShape, Size
      <3>8. stream' # <<>>
        BY <3>3, <3>4, EmptySeq
      <3>9. About' = "data" /\ \A i \in DOMAIN stream' : stream'[i].of = query'.arg
        BY <1>2, <2>5, <3>4, <3>5 DEF About
      <3> QED BY <1>1, <1>2, <1>6, <2>1, <3>7, <3>8, <3>9 DEF InTurn, Arrived, Pending, Shape
    <2> QED BY <2>4, <2>5
  <1>7. pc = "idle" \/ pc = "reply"
    BY DEF TypeInv, HostTypes
  <1> QED BY <1>3, <1>4, <1>5, <1>6, <1>7

\* What arrives before the connection is closed is the first of what was sent.
LEMMA CutOff ==
    ASSUME TypeInv, Hangup
    PROVE  \E n \in Nat :
              /\ stream' \in Seq(Bytes) /\ Len(stream') = n /\ Len(stream) \in Nat /\ n <= Len(stream)
              /\ DOMAIN stream = 1..Len(stream) /\ DOMAIN stream' = 1..n
              /\ \A i \in 1..n : stream'[i] = stream[i]
  <1>1. PICK n \in 0..Len(stream) : stream' = SubSeq(stream, 1, n)
    BY DEF Hangup
  <1>2. stream \in Seq(Bytes) /\ Len(stream) \in Nat /\ DOMAIN stream = 1..Len(stream)
    BY LenProperties DEF TypeInv, LineTypes
  <1>3. 1 \in 1..(Len(stream) + 1) /\ n \in (1 - 1)..Len(stream) /\ n \in Nat /\ n <= Len(stream)
    BY <1>2
  <1>4. SubSeq(stream, 1, n) \in Seq(Bytes)
    BY <1>2, <1>3, UptoFacts
  <1>5. Len(SubSeq(stream, 1, n)) = n - 1 + 1
    BY <1>2, <1>3, UptoFacts
  <1>6. \A i \in 1..(n - 1 + 1) : SubSeq(stream, 1, n)[i] = stream[1 + i - 1]
    BY <1>2, <1>3, UptoFacts
  <1>7. n - 1 + 1 = n /\ \A i \in 1..n : 1 + i - 1 = i
    BY <1>3
  <1>8. Len(stream') = n /\ stream' \in Seq(Bytes) /\ \A i \in 1..n : stream'[i] = stream[i]
    BY <1>1, <1>4, <1>5, <1>6, <1>7
  <1>9. DOMAIN stream' = 1..n
    BY <1>8, LenProperties
  <1> QED BY <1>2, <1>3, <1>8, <1>9

\* What arrived before the connection was closed answers the query still.
LEMMA HangupInTurn ==
    ASSUME TypeInv, InTurn, Hangup
    PROVE  InTurn'
  <1>1. closed' = TRUE /\ wire' = <<>> /\ pc' = pc /\ query' = query /\ lost' = lost
    BY DEF Hangup, host
  <1>2. PICK n \in Nat :
           /\ stream' \in Seq(Bytes) /\ Len(stream') = n /\ Len(stream) \in Nat /\ n <= Len(stream)
           /\ DOMAIN stream = 1..Len(stream) /\ DOMAIN stream' = 1..n
           /\ \A i \in 1..n : stream'[i] = stream[i]
    BY CutOff
  <1>3. DOMAIN <<>> = {}
    OBVIOUS
  <1>4. CASE lost \/ stream' = <<>>
    BY <1>1, <1>3, <1>4 DEF InTurn, Arrived, Pending, NoQuery
  <1>5. CASE ~lost /\ stream' # <<>>
    <2>1. n >= 1 /\ stream # <<>>
      BY <1>2, <1>5, EmptySeq
    <2>2. pc = "reply" /\ Shape /\ \A i \in DOMAIN stream : stream[i].of = query.arg
      BY <1>5, <2>1 DEF InTurn, Arrived, TypeInv, HostTypes
    <2>3. \A i \in DOMAIN stream' : stream'[i].of = query'.arg
      BY <1>1, <1>2, <2>2
    <2>4. About' = About
      BY <1>1 DEF About
    <2>5. CASE About = "data"
      <3>1. BlockShape
        BY <2>2, <2>5 DEF Shape
      <3>2. stream'[1].is = "hash"
        BY <1>2, <2>1, <3>1 DEF BlockShape
      <3>3. ASSUME Len(stream') >= 2
            PROVE  /\ Size' \in Nat /\ Len(stream') <= Size' + 3
                   /\ Len(stream') = Size' + 3 => stream'[Size' + 3].is = "end"
        <4>1. n >= 2 /\ Len(stream) >= 2 /\ 2 \in 1..n
          BY <1>2, <3>3
        <4>2. stream'[2] = stream[2] /\ Size' = Size
          BY <1>2, <4>1 DEF Size
        <4>3. /\ Size \in Nat /\ Len(stream) <= Size + 3
              /\ Len(stream) = Size + 3 => stream[Size + 3].is = "end"
          BY <3>1, <4>1 DEF BlockShape
        <4> HIDE DEF Size
        <4>4. n <= Size + 3
          <5>1. \A k \in Nat : Len(stream) <= k + 3 => n <= k + 3
            BY <1>2
          <5> QED BY <4>3, <5>1
        <4>5. ASSUME n = Size + 3 PROVE stream'[Size + 3].is = "end"
          <5>1. Len(stream) = Size + 3 /\ Size + 3 \in 1..n
            <6>1. Len(stream) <= n
              BY <4>3, <4>5, Zenon
            <6>2. Len(stream) \in Nat /\ n \in Nat /\ n <= Len(stream) /\ n >= 2
              BY <1>2, <4>1
            <6>3. Len(stream) = n /\ n \in 1..n
              BY <6>1, <6>2
            <6> QED BY <4>5, <6>3, Zenon
          <5> QED BY <1>2, <4>3, <5>1
        <4> QED BY <1>2, <4>2, <4>3, <4>4, <4>5
      <3>4. BlockShape'
        BY <3>2, <3>3 DEF BlockShape
      <3> QED BY <1>1, <2>2, <2>3, <2>4, <2>5, <3>4 DEF InTurn, Arrived, Pending, Shape
    <2>6. CASE About # "data"
      <3>1. LineShape
        BY <2>2, <2>6 DEF Shape
      <3>2. Len(stream') <= 2 /\ stream'[1].is = "text" /\ (Len(stream') = 2 => stream'[2].is = "end")
        BY <1>2, <2>1, <3>1 DEF LineShape
      <3>3. LineShape'
        BY <3>2 DEF LineShape
      <3> QED BY <1>1, <2>2, <2>3, <2>4, <2>6, <3>3 DEF InTurn, Arrived, Pending, Shape
    <2> QED BY <2>5, <2>6
  <1> QED BY <1>4, <1>5

\* A command that is not a query leaves the line in step.
LEMMA WriteInTurn ==
    ASSUME TypeInv, InTurn, NEW command \in Writes, Write(command)
    PROVE  InTurn'
  <1>1. pc = "idle" /\ wire' = Append(wire, command) /\ UNCHANGED <<host, stream, closed, lost>>
    BY DEF Write
  <1>2. command \in Sent /\ ~IsQuery(command) /\ wire \in Seq(Sent)
    BY WriteTypes DEF TypeInv, HostTypes
  <1>3. CASE lost
    BY <1>1, <1>3 DEF InTurn
  <1>4. CASE ~lost
    <2>1. stream = <<>> /\ NoQuery(wire)
      BY <1>1, <1>4 DEF InTurn
    <2>2. Append(wire, command) = wire \o <<command>>
      BY <1>2, AppendIsConcat
    <2>3. <<command>> \in Seq(Sent) /\ NoQuery(<<command>>)
      BY <1>2 DEF NoQuery
    <2>4. NoQuery(wire')
      BY <1>1, <1>2, <2>1, <2>2, <2>3, NoQueryJoined
    <2> QED BY <1>1, <1>4, <2>1, <2>4 DEF InTurn, host, NoQuery
  <1> QED BY <1>3, <1>4

\* Every step keeps the line in step.
LEMMA NextInTurn ==
    ASSUME TypeInv, InTurn, [Next]_vars
    PROVE  InTurn'
  <1>1. CASE \E command \in Writes : Write(command)
    BY <1>1, WriteInTurn
  <1>2. CASE \/ \E want \in {"poll", "screen", "deep"} : Begin(want, 0)
             \/ \E depth \in Depths : Begin("depth", depth)
    <2>1. (Asks \/ Ends) /\ UNCHANGED <<stream, closed, lost>> /\ pc = "idle"
      BY <1>2, BeginTypes DEF Begin
    <2>2. CASE lost
      BY <2>1, <2>2 DEF InTurn
    <2>3. CASE ~lost
      BY <2>1, <2>3, MovesInTurn DEF InTurn, TypeInv
    <2> QED BY <2>2, <2>3
  <1>3. CASE HostStep
    <2>1. Asks \/ Ends
      BY <1>3, StatusTypes, RateTypes, PreambleTypes, PageTypes, DisplayTypes, BadTypes DEF HostStep
    <2>2. \E about : Answered(about)
      BY <1>3 DEF HostStep, StatusReply, RateReply, PreambleReply, PageReply, DisplayReply, BadReply
    <2> QED BY <2>1, <2>2, ReadInTurn
  <1>4. CASE Timeout
    BY <1>4 DEF Timeout, InTurn
  <1>5. CASE Reopen
    <2>1. DOMAIN <<>> = {}
      OBVIOUS
    <2> QED BY <1>5, <2>1 DEF Reopen, host, InTurn, NoQuery
  <1>6. CASE Execute \/ Hangup
    BY <1>6, ExecuteInTurn, HangupInTurn
  <1>7. CASE Acquire \/ UNCHANGED vars
    <2>1. UNCHANGED <<host, wire, stream, closed, lost>>
      BY <1>7 DEF Acquire, vars
    <2> QED BY <2>1 DEF host, InTurn, Arrived, Pending, Shape, LineShape, BlockShape, Size, About, NoQuery
  <1> QED BY <1>1, <1>2, <1>3, <1>4, <1>5, <1>6, <1>7 DEF Next, Depths

\* A line whose calls come in turn is in step.
LEMMA InTurnInStep ==
    ASSUME TypeInv, InTurn
    PROVE  InStep
  <1> SUFFICES ASSUME ~lost
               PROVE  /\ \A i \in DOMAIN stream : stream[i].of = query.arg
                      /\ pc = "idle" => stream = <<>> /\ Queries(wire) = {}
                      /\ pc = "reply" => IF stream # <<>> THEN Queries(wire) = {}
                                         ELSE closed \/ Queries(wire) = {Len(wire)}
    BY DEF InStep
  <1>1. wire \in Seq(Sent) /\ DOMAIN wire = 1..Len(wire) /\ Len(wire) \in Nat /\ IsQuery(query)
    BY LenProperties DEF TypeInv, HostTypes, IsQuery
  <1>2. DOMAIN <<>> = {}
    OBVIOUS
  <1>3. CASE pc = "idle"
    BY <1>2, <1>3 DEF InTurn, Queries, NoQuery
  <1>4. CASE pc = "reply" /\ Arrived
    BY <1>2, <1>4 DEF InTurn, Queries, Arrived
  <1>5. CASE pc = "reply" /\ Pending
    <2>1. wire # <<>> /\ wire[Len(wire)] = query /\ \A i \in DOMAIN wire : IsQuery(wire[i]) => i = Len(wire)
      BY <1>5 DEF InTurn
    <2>2. Len(wire) \in DOMAIN wire
      BY <1>1, <2>1, EmptySeq
    <2>3. Queries(wire) = {Len(wire)}
      BY <1>1, <2>1, <2>2 DEF Queries
    <2> QED BY <1>2, <1>5, <2>3 DEF Pending
  <1>6. CASE pc = "reply" /\ stream = <<>> /\ closed
    BY <1>2, <1>6
  <1>7. pc = "idle" \/ pc = "reply"
    BY DEF TypeInv, HostTypes
  <1> QED BY <1>3, <1>4, <1>5, <1>6, <1>7 DEF Arrived, Pending

\* The invariant of the line.
LineInv == TypeInv /\ Complete /\ InTurn

\* A new connection has nothing on it.
LEMMA InitLine ==
    ASSUME Init
    PROVE  LineInv
  <1>1. DOMAIN <<>> = {}
    OBVIOUS
  <1> QED BY <1>1, InitTypes DEF Init, LineInv, Complete, InTurn, NoQuery

\* Every step keeps the line typed, complete and in turn.
LEMMA NextLine ==
    ASSUME LineInv, [Next]_vars
    PROVE  LineInv'
  BY NextTypes, NextComplete, NextInTurn DEF LineInv

\* Through every step, in step or out of it, values keep their types and a call whose
\* query was executed has its whole reply; and as long as no read was given up the
\* commands and the replies on the connection are those of the call that waits.
THEOREM LineInvariant == Spec => []LineInv
  BY InitLine, NextLine, PTL DEF Spec

\* Every read takes what was sent for it, neither less nor more: while no read was
\* given up the connection is in step, whatever is sent without waiting, however
\* short a page comes and whenever the instrument closes; and in step or not, no
\* read waits for bytes that are not coming.
THEOREM StreamFramed == Spec => []Framed
  <1>1. LineInv => Framed
    BY NoWait, InTurnInStep DEF LineInv, Framed
  <1> QED BY <1>1, LineInvariant, PTL

-----------------------------------------------------------------------------
(* A frame is what it is said to be.                                       *)

Deep == job.want = "deep"

\* The status read is of its time: a scope that was running answers so, and one
\* that has stopped stays so with the record it has.
StatusFit ==
    /\ Pending /\ job.began = "running" => wire = <<query>> /\ scope.mode = "running"
    /\ Arrived =>
          /\ job.began = "running" => stream[1].val[1] = "running"
          /\ stream[1].val[1] = "stopped" => scope.mode = "stopped" /\ scope.frame = stream[1].val[2]

\* The status a call holds is still true of the scope.
StillFor(j) ==
    /\ j.began = "running" => j.status.val[1] = "running"
    /\ j.status.val[1] = "stopped" => scope.mode = "stopped" /\ scope.frame = j.status.val[2]

\* A deep capture has stopped the scope before it reads the rate.
RateFit ==
    Deep =>
        /\ StillFor(job)
        /\ Pending => wire = <<Command("STOP", 0), query>> \/ (wire = <<query>> /\ scope.mode = "stopped")
        /\ Arrived => scope.mode = "stopped"

DeepWave(wave, ch) ==
    Len(wave) = scope.points /\ \A k \in 1..scope.points : wave[k].val = <<scope.frame, ch, k>>
ScreenWave(wave, ch) ==
    Len(wave) = Screen /\ \A k \in 1..Screen : \E frame \in Nat : wave[k].val = <<frame, ch, k>>

\* The channels read so far are those of the one record that is held, or whole traces.
WavesFor(j) ==
    /\ j.want = "deep" =>
          /\ StillFor(j) /\ scope.mode = "stopped"
          /\ \A ch \in DOMAIN j.waves : DeepWave(j.waves[ch], ch)
          /\ j.waves # <<>> => scope.points \in Records
    /\ j.want = "screen" /\ BigRecords => \A ch \in DOMAIN j.waves : ScreenWave(j.waves[ch], ch)

\* The channel and the mode are set before the preamble is read.
Pointed == scope.src = job.ch /\ scope.raw = Deep

PreambleFit ==
    /\ WavesFor(job)
    /\ Pending => \/ wire = <<Command("SOUR", job.ch), Command("MODE", Deep), query>>
                  \/ wire = <<Command("MODE", Deep), query>> /\ scope.src = job.ch
                  \/ wire = <<query>> /\ Pointed
    /\ Arrived => Pointed /\ stream[1].val = <<IF Deep THEN scope.points ELSE Screen>>

\* What is read of a record is all of it up to the page, or too short for good.
DeepFit ==
    /\ job.points = scope.points
    /\ Len(job.out) < job.start
    /\ Len(job.out) = job.start - 1 =>
          \A k \in 1..Len(job.out) : job.out[k].val = <<scope.frame, job.ch, k>>
    /\ Pending => \/ wire = <<Command("STAR", job.start), Command("STOPAT", PageEnd(job)), query>>
                  \/ wire = <<Command("STOPAT", PageEnd(job)), query>> /\ scope.start = job.start
                  \/ wire = <<query>> /\ scope.start = job.start /\ scope.stop = PageEnd(job)
    /\ Len(stream) >= 2 =>
          /\ Size <= PageEnd(job) - job.start + 1
          /\ \A k \in 1..Size : k + 2 <= Len(stream) =>
                stream[k + 2].val = <<scope.frame, job.ch, job.start + k - 1>>

\* A screen is read from its first sample, up to a stop it lies before.
ScreenFit ==
    /\ Pending => wire = <<Command("STAR", 1), query>> \/ (wire = <<query>> /\ scope.start = 1)
    /\ BigRecords /\ Len(stream) >= 2 =>
          /\ Size = Screen
          /\ \A k \in 1..Size : k + 2 <= Len(stream) =>
                \E frame \in Nat : stream[k + 2].val = <<frame, job.ch, k>>

DataFit ==
    /\ WavesFor(job)
    /\ Pending \/ Arrived => Pointed
    /\ IF Deep THEN DeepFit ELSE ScreenFit

\* What each read may find, by what it reads.
FrameInv ==
    ~lost /\ pc = "reply" =>
        /\ About = "status" => StatusFit
        /\ About = "rate" => RateFit
        /\ About = "preamble" => PreambleFit
        /\ About = "data" => DataFit

\* The line that answers a query in turn.
LEMMA LineComes ==
    ASSUME TypeInv, Execute, stream = <<>>, IsQuery(Head(wire)), Head(wire) = query, About # "data"
    PROVE  /\ stream' # <<>> /\ scope' = scope
           /\ stream'[1].val = Value(scope, query.arg[2], query.arg[3])
  <1>1. stream' = stream \o Line(scope, query.arg) /\ scope' = scope
    BY Executes DEF About
  <1>2. query.arg \in Arguments /\ scope \in Scopes
    BY DEF TypeInv, HostTypes, LineTypes
  <1>3. /\ Line(scope, query.arg) \in Seq(Bytes) /\ Len(Line(scope, query.arg)) = 2
        /\ Line(scope, query.arg)[1] = Byte("text", query.arg, Value(scope, query.arg[2], query.arg[3]))
    BY <1>2, LineReply DEF About
  <1>4. stream' = Line(scope, query.arg)
    <2>1. stream \o Line(scope, query.arg) = Line(scope, query.arg)
      BY <1>3, ConcatEmptySeq
    <2> QED BY <1>1, <2>1
  <1> QED BY <1>1, <1>3, <1>4, EmptySeq DEF Byte

\* The block that answers a query in turn.
LEMMA BlockComes ==
    ASSUME TypeInv, Execute, stream = <<>>, IsQuery(Head(wire)), Head(wire) = query, About = "data"
    PROVE  /\ scope' = scope
           /\ \E short \in IF scope.raw THEN {{}, {scope.stop}} ELSE {{}} :
                 \A a, b \in Nat : a <= b + 1 /\ Samples(scope) \ short = a..b =>
                     /\ Len(stream') = (b - a + 1) + 3 /\ stream'[2].val = <<b - a + 1>>
                     /\ \A k \in 1..(b - a + 1) : stream'[k + 2].val = <<scope.frame, scope.src, a + k - 1>>
  <1>1. scope' = scope
    BY Executes DEF About
  <1>2. PICK short \in IF scope.raw THEN {{}, {scope.stop}} ELSE {{}} :
           stream' = stream \o Block(scope, query.arg, Samples(scope) \ short)
    BY Executes DEF About
  <1>3. ASSUME NEW a \in Nat, NEW b \in Nat, a <= b + 1, Samples(scope) \ short = a..b
        PROVE  /\ Len(stream') = (b - a + 1) + 3 /\ stream'[2].val = <<b - a + 1>>
               /\ \A k \in 1..(b - a + 1) : stream'[k + 2].val = <<scope.frame, scope.src, a + k - 1>>
    <2> DEFINE block == Block(scope, query.arg, a..b)
               size == b - a + 1
    <2>1. query.arg \in Arguments /\ scope \in Scopes
      BY DEF TypeInv, HostTypes, LineTypes
    <2>2. /\ block \in Seq(Bytes) /\ Len(block) = size + 3 /\ block[2] = Byte("len", query.arg, <<size>>)
          /\ \A i \in 1..size :
                block[i + 2] = Byte("data", query.arg, <<scope.frame, scope.src, a + i - 1>>)
      BY <1>3, <2>1, BlockReply
    <2>3. stream' = block
      <3>1. stream \o block = block
        BY <2>2, ConcatEmptySeq
      <3> QED BY <1>2, <1>3, <3>1
    <2> HIDE DEF block, size
    <2>4. Len(stream') = size + 3 /\ stream'[2].val = <<size>>
      BY <2>2, <2>3 DEF Byte
    <2>5. \A i \in 1..size : stream'[i + 2].val = <<scope.frame, scope.src, a + i - 1>>
      <3>1. \A i \in 1..size :
                stream'[i + 2] = Byte("data", query.arg, <<scope.frame, scope.src, a + i - 1>>)
        BY <2>2, <2>3, Zenon
      <3>2. ASSUME NEW i \in 1..size PROVE stream'[i + 2].val = <<scope.frame, scope.src, a + i - 1>>
        <4>1. stream'[i + 2] = Byte("data", query.arg, <<scope.frame, scope.src, a + i - 1>>)
          BY <3>1
        <4> QED BY <4>1 DEF Byte
      <3> QED BY <3>2
    <2> QED BY <2>4, <2>5 DEF size
  <1> QED BY <1>1, <1>2, <1>3

\* A call that asks in turn.
LEMMA AskOutcome ==
    ASSUME HostTypes, FrameRight, NEW commands \in Seq(Plain), NEW about \in Abouts,
           NEW ch \in 0..NumChannels, NEW doing \in Jobs, Ask(commands, about, ch, doing)
    PROVE  /\ FrameRight'
           /\ \/ pc' = "idle"
              \/ /\ pc' = "reply" /\ job' = doing /\ About' = about /\ query'.arg[3] = ch
                 /\ query' \in Sent /\ IsQuery(query')
                 /\ closed \/ wire # <<>> \/ wire' = Append(commands, query')
  <1>1. CASE End("OSError", doing, <<>>)
    <2>1. outcome'.kind = "OSError"
      BY <1>1 DEF End
    <2> QED BY <1>1, <2>1 DEF End, FrameRight, DeepWhole, ScreenWhole, StatusFits, Returned
  <1>2. CASE ~ End("OSError", doing, <<>>)
    <2>1. /\ query' = Query(doing.call, about, ch) /\ job' = doing /\ pc' = "reply" /\ outcome' = outcome
          /\ wire' = IF closed THEN wire ELSE wire \o Append(commands, query')
      BY <1>2 DEF Ask
    <2>2. /\ query' \in [op : {"?"}, arg : Arguments]
          /\ query'.arg[2] = about /\ query'.arg[3] = ch
      BY <2>1, QueryTypes
    <2>3. query' \in Sent /\ IsQuery(query') /\ About' = about
      BY <2>2, Commands DEF IsQuery, About
    <2>4. Append(commands, query') \in Seq(Sent)
      BY <2>3, PlainCommands, AppendProperties
    <2>5. closed \/ wire # <<>> \/ wire' = Append(commands, query')
      <3>1. <<>> \o Append(commands, query') = Append(commands, query')
        BY <2>4, ConcatEmptySeq
      <3> QED BY <2>1, <3>1
    <2>6. FrameRight'
      BY <2>1 DEF FrameRight, DeepWhole, ScreenWhole, StatusFits, Returned, Wave
    <2> QED BY <2>1, <2>2, <2>3, <2>5, <2>6
  <1> QED BY <1>1, <1>2

\* A call that ends without a frame.
LEMMA EndOutcome ==
    ASSUME NEW kind \in Kinds \ {"frame"}, NEW done, NEW commands, End(kind, done, commands)
    PROVE  FrameRight' /\ FrameInv'
  <1>1. outcome'.kind = kind /\ pc' = "idle"
    BY DEF End
  <1> QED BY <1>1 DEF FrameRight, DeepWhole, ScreenWhole, StatusFits, Returned, FrameInv

\* Commands one after another on the wire.
LEMMA Wires ==
    ASSUME NEW a, NEW b, NEW c
    PROVE  /\ Head(<<a>>) = a /\ Tail(<<a>>) = <<>>
           /\ Head(<<a, b>>) = a /\ Tail(<<a, b>>) = <<b>>
           /\ Head(<<a, b, c>>) = a /\ Tail(<<a, b, c>>) = <<b, c>>
           /\ <<a, b>> # <<c>> /\ \A d : <<a, b, c>> # <<d>>
  OBVIOUS

\* The instrument gets on with a status query.
LEMMA ExecuteStatus ==
    ASSUME LineInv, StatusFit, ~lost, pc = "reply", About = "status", Execute
    PROVE  StatusFit'
  <1>1. TypeInv /\ InTurn
    BY DEF LineInv
  <1>2. Pending /\ stream = <<>>
    BY <1>1, InTurnExecutes DEF Pending
  <1>3. job' = job /\ query' = query /\ wire' = Tail(wire) /\ closed' = closed
    BY DEF Execute, host
  <1>4. CASE ~IsQuery(Head(wire))
    <2>1. stream' = <<>>
      BY <1>1, <1>2, <1>4, Executes
    <2>2. wire # <<query>>
      BY <1>1, <1>4, Wires DEF TypeInv, HostTypes, IsQuery
    <2>3. job.began # "running"
      BY <1>2, <2>2 DEF StatusFit
    <2> QED BY <1>3, <2>1, <2>3 DEF StatusFit, Arrived
  <1>5. CASE IsQuery(Head(wire))
    <2>1. Head(wire) = query
      BY <1>1, <1>5, InTurnExecutes
    <2>2. stream' # <<>> /\ scope' = scope /\ stream'[1].val = Value(scope, query.arg[2], query.arg[3])
      BY <1>1, <1>2, <1>5, <2>1, LineComes
    <2>3. stream'[1].val = <<scope.mode, scope.frame>>
      BY <2>2 DEF Value, State, About
    <2>4. job.began = "running" => scope.mode = "running"
      BY <1>2 DEF StatusFit
    <2> QED BY <1>3, <2>2, <2>3, <2>4 DEF StatusFit, Pending
  <1> QED BY <1>4, <1>5

\* The instrument gets on with a rate query.
LEMMA ExecuteRate ==
    ASSUME LineInv, RateFit, ~lost, pc = "reply", About = "rate", Execute
    PROVE  RateFit'
  <1>1. TypeInv /\ InTurn /\ query.op = "?" /\ scope \in Scopes
    BY DEF LineInv, TypeInv, HostTypes, LineTypes
  <1>2. Pending /\ stream = <<>>
    BY <1>1, InTurnExecutes DEF Pending
  <1>3. job' = job /\ query' = query /\ wire' = Tail(wire) /\ closed' = closed
    BY DEF Execute, host
  <1>4. CASE ~Deep
    BY <1>3, <1>4 DEF RateFit, Deep
  <1>5. CASE Deep /\ ~IsQuery(Head(wire))
    <2>1. wire = <<Command("STOP", 0), query>>
      BY <1>1, <1>2, <1>5, Wires DEF RateFit, IsQuery
    <2>2. stream' = <<>> /\ scope' = Set(Command("STOP", 0)) /\ wire' = <<query>>
      BY <1>1, <1>2, <1>3, <1>5, <2>1, Executes, Wires
    <2>3. scope'.mode = "stopped" /\ scope'.frame = scope.frame
      BY <1>1, <2>2 DEF Set, Command, Scopes
    <2>4. StillFor(job)'
      BY <1>3, <1>5, <2>3 DEF RateFit, StillFor
    <2> QED BY <1>3, <2>2, <2>3, <2>4 DEF RateFit, Arrived
  <1>6. CASE Deep /\ IsQuery(Head(wire))
    <2>1. Head(wire) = query /\ wire = <<query>>
      BY <1>1, <1>6, InTurnExecutes
    <2>2. stream' # <<>> /\ scope' = scope
      BY <1>1, <1>2, <1>6, <2>1, LineComes
    <2>3. scope.mode = "stopped" /\ StillFor(job)
      BY <1>2, <1>6, <2>1, Wires DEF RateFit
    <2> QED BY <1>3, <2>2, <2>3 DEF RateFit, StillFor, Pending
  <1> QED BY <1>4, <1>5, <1>6

\* Channels that are read stay read, as long as the record does.
LEMMA WavesStay ==
    ASSUME WavesFor(job), job' = job, Deep => scope'.mode = scope.mode /\ scope'.frame = scope.frame
                                         /\ scope'.points = scope.points
    PROVE  WavesFor(job)'
  BY DEF WavesFor, StillFor, Deep, DeepWave, ScreenWave

\* The instrument gets on with the commands and the query of a preamble.
LEMMA ExecutePreamble ==
    ASSUME LineInv, PreambleFit, ~lost, pc = "reply", About = "preamble", Execute
    PROVE  PreambleFit'
  <1>1. /\ TypeInv /\ InTurn /\ query.op = "?" /\ scope \in Scopes
        /\ job.ch \in Channels /\ Deep \in BOOLEAN
    BY DEF LineInv, TypeInv, HostTypes, LineTypes, Fits, Deep
  <1>2. Pending /\ stream = <<>> /\ WavesFor(job)
    BY <1>1, InTurnExecutes DEF Pending, PreambleFit
  <1>3. job' = job /\ query' = query /\ wire' = Tail(wire) /\ closed' = closed /\ Deep' = Deep
    BY DEF Execute, host, Deep
  <1>4. CASE ~IsQuery(Head(wire))
    <2>1. stream' = <<>> /\ scope' = Set(Head(wire))
      BY <1>1, <1>2, <1>4, Executes
    <2>2. wire # <<query>>
      BY <1>1, <1>4, Wires DEF IsQuery
    <2>3. CASE wire = <<Command("SOUR", job.ch), Command("MODE", Deep), query>>
      <3>1. scope' = [scope EXCEPT !.src = job.ch]
        BY <2>1, <2>3, Wires DEF Set, Command
      <3>2. /\ scope'.src = job.ch /\ scope'.mode = scope.mode /\ scope'.frame = scope.frame
            /\ scope'.points = scope.points
        BY <1>1, <3>1 DEF Scopes
      <3>3. wire' = <<Command("MODE", Deep), query>>
        BY <1>3, <2>3, Wires
      <3>4. WavesFor(job)'
        BY <1>2, <1>3, <3>2, WavesStay
      <3> QED BY <1>3, <2>1, <3>2, <3>3, <3>4 DEF PreambleFit, Arrived
    <2>4. CASE wire = <<Command("MODE", Deep), query>> /\ scope.src = job.ch
      <3>1. scope' = [scope EXCEPT !.raw = Deep]
        BY <2>1, <2>4, Wires DEF Set, Command
      <3>2. /\ scope'.src = scope.src /\ scope'.raw = Deep /\ scope'.mode = scope.mode
            /\ scope'.frame = scope.frame /\ scope'.points = scope.points
        BY <1>1, <3>1 DEF Scopes
      <3>3. wire' = <<query>>
        BY <1>3, <2>4, Wires
      <3>4. WavesFor(job)'
        BY <1>2, <1>3, <3>2, WavesStay
      <3>5. Pointed'
        BY <1>3, <2>4, <3>2 DEF Pointed
      <3> QED BY <1>3, <2>1, <3>3, <3>4, <3>5 DEF PreambleFit, Arrived
    <2> QED BY <1>2, <2>2, <2>3, <2>4 DEF PreambleFit
  <1>5. CASE IsQuery(Head(wire))
    <2>1. Head(wire) = query /\ wire = <<query>>
      BY <1>1, <1>5, InTurnExecutes
    <2>2. stream' # <<>> /\ scope' = scope /\ stream'[1].val = Value(scope, query.arg[2], query.arg[3])
      BY <1>1, <1>2, <1>5, <2>1, LineComes
    <2>3. Pointed
      BY <1>2, <2>1, Wires DEF PreambleFit
    <2>4. stream'[1].val = <<IF Deep THEN scope.points ELSE Screen>>
      BY <2>2, <2>3 DEF Value, About, Pointed
    <2>5. WavesFor(job)' /\ Pointed'
      BY <1>2, <1>3, <2>2, <2>3, WavesStay DEF Pointed
    <2> QED BY <1>3, <2>2, <2>4, <2>5 DEF PreambleFit, Pending
  <1> QED BY <1>4, <1>5

\* A page of the record is sent, or the screen.
LEMMA DeepBlock ==
    ASSUME LineInv, DataFit, Deep, ~lost, pc = "reply", About = "data", Execute, IsQuery(Head(wire))
    PROVE  /\ stream' # <<>>
           /\ Size' <= PageEnd(job) - job.start + 1
           /\ \A k \in 1..Size' : stream'[k + 2].val = <<scope.frame, job.ch, job.start + k - 1>>
  <1>1. /\ TypeInv /\ InTurn /\ job \in Jobs /\ scope \in Scopes
        /\ job.points # 0 /\ job.start <= job.points
    BY DEF LineInv, TypeInv, HostTypes, LineTypes, Fits, Deep
  <1>2. Pending /\ stream = <<>> /\ Head(wire) = query /\ wire = <<query>>
    BY <1>1, InTurnExecutes DEF Pending
  <1>3. scope.start = job.start /\ scope.stop = PageEnd(job) /\ scope.points = job.points
    BY <1>2, Wires DEF DataFit, DeepFit
  <1>4. scope.raw = TRUE /\ scope.src = job.ch
    BY <1>2 DEF DataFit, Pointed
  <1>5. PICK start \in Nat \ {0}, stop \in Nat \ {0}, points \in Nat \ {0} :
           start = job.start /\ stop = PageEnd(job) /\ points = job.points
    <2>1. job.start \in Nat \ {0} /\ PageEnd(job) \in Stops /\ job.points \in Points \ {0}
      BY <1>1, PageEnds DEF Jobs
    <2> QED BY <2>1, Constants DEF Stops
  <1>6. stop <= points /\ start <= stop
    <2>1. stop = IF start + RawChunk - 1 <= points THEN start + RawChunk - 1 ELSE points
      BY <1>1, <1>5, PageEnds
    <2>2. start <= points /\ RawChunk \in Nat /\ RawChunk >= 1
      BY <1>1, <1>5, Constants
    <2> QED BY <2>1, <2>2
  <1>7. Samples(scope) = start..stop
    <2>1. Min({stop, points}) = stop
      BY <1>6, MinOfTwo
    <2> QED BY <1>3, <1>4, <1>5, <2>1 DEF Samples
  <1>8. PICK short \in {{}, {stop}} :
           \A a, b \in Nat : a <= b + 1 /\ Samples(scope) \ short = a..b =>
               /\ Len(stream') = (b - a + 1) + 3 /\ stream'[2].val = <<b - a + 1>>
               /\ \A k \in 1..(b - a + 1) : stream'[k + 2].val = <<scope.frame, scope.src, a + k - 1>>
    <2>1. PICK short \in IF scope.raw THEN {{}, {scope.stop}} ELSE {{}} :
             \A a, b \in Nat : a <= b + 1 /\ Samples(scope) \ short = a..b =>
                 /\ Len(stream') = (b - a + 1) + 3 /\ stream'[2].val = <<b - a + 1>>
                 /\ \A k \in 1..(b - a + 1) : stream'[k + 2].val = <<scope.frame, scope.src, a + k - 1>>
      BY <1>1, <1>2, BlockComes
    <2>2. short \in {{}, {stop}}
      BY <1>3, <1>5, <2>1
    <2> QED BY <2>1, <2>2
  <1>9. PICK b \in Nat : b <= stop /\ start <= b + 1 /\ Samples(scope) \ short = start..b
    <2>1. CASE short = {}
      BY <1>6, <1>7, <2>1
    <2>2. CASE short = {stop}
      <3>1. (start..stop) \ {stop} = start..(stop - 1) /\ stop - 1 \in Nat /\ stop - 1 <= stop
            /\ start <= (stop - 1) + 1
        BY <1>6
      <3> QED BY <1>7, <2>2, <3>1
    <2> QED BY <2>1, <2>2
  <1>10. /\ Len(stream') = (b - start + 1) + 3 /\ stream'[2].val = <<b - start + 1>>
         /\ \A k \in 1..(b - start + 1) : stream'[k + 2].val = <<scope.frame, scope.src, start + k - 1>>
    BY <1>8, <1>9
  <1>11. Size' = b - start + 1 /\ Size' <= stop - start + 1
    BY <1>9, <1>10 DEF Size
  <1>12. stream' # <<>>
    BY <1>9, <1>10
  <1> QED BY <1>4, <1>5, <1>10, <1>11, <1>12

\* The screen is sent: the whole of it, from a start and a stop that take all of it.
LEMMA ScreenBlock ==
    ASSUME LineInv, DataFit, ~Deep, ~lost, pc = "reply", About = "data", Execute, IsQuery(Head(wire))
    PROVE  /\ stream' # <<>>
           /\ BigRecords => /\ Size' = Screen
                            /\ \A k \in 1..Screen : stream'[k + 2].val = <<scope.frame, job.ch, k>>
  <1>1. TypeInv /\ InTurn /\ scope \in Scopes
    BY DEF LineInv, TypeInv, LineTypes
  <1>2. Pending /\ stream = <<>> /\ Head(wire) = query /\ wire = <<query>>
    BY <1>1, InTurnExecutes DEF Pending
  <1>3. scope.start = 1 /\ ~scope.raw /\ scope.src = job.ch
    <2>1. ScreenFit /\ Pointed
      BY <1>2 DEF DataFit
    <2>2. scope.raw = Deep /\ scope.src = job.ch
      BY <2>1 DEF Pointed
    <2>3. ~scope.raw
      BY <2>2, Zenon
    <2>4. scope.start = 1
      BY <1>2, <2>1, Wires DEF ScreenFit
    <2> QED BY <2>2, <2>3, <2>4
  <1>4. \A a, b \in Nat : a <= b + 1 /\ Samples(scope) = a..b =>
            /\ Len(stream') = (b - a + 1) + 3 /\ stream'[2].val = <<b - a + 1>>
            /\ \A k \in 1..(b - a + 1) : stream'[k + 2].val = <<scope.frame, scope.src, a + k - 1>>
    <2>1. PICK short \in {{}} :
             \A a, b \in Nat : a <= b + 1 /\ Samples(scope) \ short = a..b =>
                 /\ Len(stream') = (b - a + 1) + 3 /\ stream'[2].val = <<b - a + 1>>
                 /\ \A k \in 1..(b - a + 1) : stream'[k + 2].val = <<scope.frame, scope.src, a + k - 1>>
      BY <1>1, <1>2, <1>3, BlockComes
    <2>2. Samples(scope) \ short = Samples(scope)
      BY <2>1
    <2> QED BY <2>1, <2>2
  <1>5. PICK stop \in Nat \ {0} : stop = scope.stop /\ (BigRecords => stop >= Screen)
    BY <1>1 DEF Scopes, Stops
  <1>6. Screen \in Nat /\ Screen >= 1
    BY Constants
  <1>7. Samples(scope) = 1..Min({stop, Screen})
    BY <1>3, <1>5, <1>6 DEF Samples
  <1>8. Min({stop, Screen}) \in Nat /\ (BigRecords => Min({stop, Screen}) = Screen)
    BY <1>5, <1>6, MinOfTwo
  <1> DEFINE last == Min({stop, Screen})
  <1> HIDE DEF last
  <1>9. /\ Len(stream') = (last - 1 + 1) + 3 /\ stream'[2].val = <<last - 1 + 1>>
        /\ \A k \in 1..(last - 1 + 1) : stream'[k + 2].val = <<scope.frame, scope.src, 1 + k - 1>>
    <2>1. 1 \in Nat /\ last \in Nat /\ 1 <= last + 1 /\ Samples(scope) = 1..last
      BY <1>7, <1>8 DEF last
    <2> QED BY <1>4, <2>1
  <1>10. last \in Nat /\ last - 1 + 1 = last /\ \A k \in 1..last : 1 + k - 1 = k
    BY <1>8 DEF last
  <1>11. Len(stream') = last + 3 /\ Size' = last
         /\ \A k \in 1..last : stream'[k + 2].val = <<scope.frame, scope.src, k>>
    <2>1. Len(stream') = last + 3 /\ stream'[2].val = <<last>>
      BY <1>9, <1>10
    <2>2. \A k \in 1..last : stream'[k + 2].val = <<scope.frame, scope.src, k>>
      BY <1>9, <1>10
    <2> QED BY <2>1, <2>2 DEF Size
  <1>12. stream' # <<>>
    BY <1>10, <1>11
  <1> QED BY <1>3, <1>8, <1>11, <1>12 DEF last

\* The instrument gets on with a page.
LEMMA ExecuteData ==
    ASSUME LineInv, DataFit, ~lost, pc = "reply", About = "data", Execute
    PROVE  DataFit'
  <1>1. TypeInv /\ InTurn /\ query.op = "?" /\ scope \in Scopes /\ job.start \in Int
    BY DEF LineInv, TypeInv, HostTypes, LineTypes, Jobs
  <1>2. Pending /\ stream = <<>> /\ WavesFor(job) /\ Pointed
    BY <1>1, InTurnExecutes DEF Pending, DataFit
  <1>3. /\ job' = job /\ query' = query /\ wire' = Tail(wire) /\ closed' = closed /\ Deep' = Deep
        /\ PageEnd(job)' = PageEnd(job)
    BY DEF Execute, host, Deep, PageEnd
  <1>4. CASE ~IsQuery(Head(wire))
    <2>1. stream' = <<>> /\ scope' = Set(Head(wire)) /\ ~ (Len(stream') >= 2)
      BY <1>1, <1>2, <1>4, Executes, EmptySeq
    <2>2. wire # <<query>>
      BY <1>1, <1>4, Wires DEF IsQuery
    <2> DEFINE still == /\ scope'.src = scope.src /\ scope'.raw = scope.raw /\ scope'.mode = scope.mode
                        /\ scope'.frame = scope.frame /\ scope'.points = scope.points
    <2>3. ASSUME still PROVE WavesFor(job)' /\ Pointed'
      BY <1>2, <1>3, <2>3, WavesStay DEF Pointed
    <2>4. CASE ~Deep
      <3>1. wire = <<Command("STAR", 1), query>>
        BY <1>2, <2>2, <2>4 DEF DataFit, ScreenFit
      <3>2. scope' = [scope EXCEPT !.start = 1] /\ wire' = <<query>>
        BY <1>3, <2>1, <3>1, Wires DEF Set, Command
      <3>3. still /\ scope'.start = 1
        BY <1>1, <3>2 DEF Scopes
      <3>4. ScreenFit'
        BY <1>3, <2>1, <3>2, <3>3 DEF ScreenFit
      <3> QED BY <1>3, <2>3, <2>4, <3>3, <3>4 DEF DataFit
    <2>5. CASE Deep
      <3>1. DeepFit
        BY <2>5 DEF DataFit
      <3>2. CASE wire = <<Command("STAR", job.start), Command("STOPAT", PageEnd(job)), query>>
        <4>1. scope' = [scope EXCEPT !.start = job.start]
              /\ wire' = <<Command("STOPAT", PageEnd(job)), query>>
          BY <1>3, <2>1, <3>2, Wires DEF Set, Command
        <4>2. still /\ scope'.start = job.start
          BY <1>1, <4>1 DEF Scopes
        <4>3. DeepFit'
          BY <1>3, <2>1, <3>1, <4>1, <4>2 DEF DeepFit
        <4> QED BY <1>3, <2>3, <2>5, <4>2, <4>3 DEF DataFit
      <3>3. CASE wire = <<Command("STOPAT", PageEnd(job)), query>> /\ scope.start = job.start
        <4>1. scope' = [scope EXCEPT !.stop = PageEnd(job)] /\ wire' = <<query>>
          BY <1>3, <2>1, <3>3, Wires DEF Set, Command
        <4>2. still /\ scope'.start = job.start /\ scope'.stop = PageEnd(job)
          BY <1>1, <3>3, <4>1 DEF Scopes
        <4>3. DeepFit'
          BY <1>3, <2>1, <3>1, <4>1, <4>2 DEF DeepFit
        <4> QED BY <1>3, <2>3, <2>5, <4>2, <4>3 DEF DataFit
      <3> QED BY <1>2, <2>2, <3>1, <3>2, <3>3 DEF DeepFit
    <2> QED BY <2>4, <2>5
  <1>5. CASE IsQuery(Head(wire))
    <2>1. Head(wire) = query /\ wire = <<query>>
      BY <1>1, <1>5, InTurnExecutes
    <2>2. scope' = scope
      BY <1>1, <1>5, Executes
    <2>3. WavesFor(job)' /\ Pointed'
      BY <1>2, <1>3, <2>2, WavesStay DEF Pointed
    <2>4. CASE Deep
      <3>1. stream' # <<>> /\ Size' <= PageEnd(job) - job.start + 1
            /\ \A k \in 1..Size' : stream'[k + 2].val = <<scope.frame, job.ch, job.start + k - 1>>
        BY <1>5, <2>4, DeepBlock
      <3>2. DeepFit
        BY <2>4 DEF DataFit
      <3>3. DeepFit'
        BY <1>3, <2>2, <3>1, <3>2 DEF DeepFit, Pending
      <3> QED BY <1>3, <2>3, <2>4, <3>3 DEF DataFit
    <2>5. CASE ~Deep
      <3>1. /\ stream' # <<>>
            /\ BigRecords => /\ Size' = Screen
                             /\ \A k \in 1..Screen : stream'[k + 2].val = <<scope.frame, job.ch, k>>
        BY <1>5, <2>5, ScreenBlock
      <3>2. scope.frame \in Nat
        BY <1>1 DEF Scopes
      <3>3. ScreenFit'
        BY <1>3, <3>1, <3>2 DEF ScreenFit, Pending
      <3> QED BY <1>3, <2>3, <2>5, <3>3 DEF DataFit
    <2> QED BY <2>4, <2>5
  <1> QED BY <1>4, <1>5

\* The instrument gets on with what a call asked.
LEMMA ExecuteFrame ==
    ASSUME LineInv, FrameInv, Execute
    PROVE  FrameInv'
  <1>1. pc' = pc /\ query' = query /\ lost' = lost /\ About' = About
    BY DEF Execute, host, About
  <1> SUFFICES ASSUME ~lost, pc = "reply"
               PROVE  /\ About = "status" => StatusFit'
                      /\ About = "rate" => RateFit'
                      /\ About = "preamble" => PreambleFit'
                      /\ About = "data" => DataFit'
    BY <1>1 DEF FrameInv
  <1> QED BY ExecuteStatus, ExecuteRate, ExecutePreamble, ExecuteData DEF FrameInv

\* An acquisition that completes leaves a stopped scope alone.
LEMMA AcquireFrame ==
    ASSUME LineInv, FrameInv, Acquire
    PROVE  FrameInv'
  <1>1. UNCHANGED <<host, wire, stream, closed, lost>> /\ scope.mode # "stopped"
    BY DEF Acquire
  <1>2. pc' = pc /\ job' = job /\ query' = query /\ lost' = lost /\ About' = About /\ Deep' = Deep
        /\ PageEnd(job)' = PageEnd(job) /\ Size' = Size /\ Pending' = Pending /\ Arrived' = Arrived
    BY <1>1 DEF host, About, Deep, PageEnd, Size, Pending, Arrived
  <1>3. /\ scope'.src = scope.src /\ scope'.raw = scope.raw /\ scope'.start = scope.start
        /\ scope'.stop = scope.stop
    BY AcquireTypes DEF LineInv
  <1>4. scope.mode = "running" => scope'.mode = "running"
    <2>1. PICK points \in Records \cup {0} :
             scope' = [scope EXCEPT !.frame = @ + 1, !.points = points,
                                    !.mode = IF @ = "armed" THEN "stopped" ELSE @]
      BY DEF Acquire
    <2>2. scope \in Scopes
      BY DEF LineInv, TypeInv, LineTypes
    <2> QED BY <2>1, <2>2 DEF Scopes
  <1> SUFFICES ASSUME ~lost, pc = "reply"
               PROVE  /\ About = "status" => StatusFit'
                      /\ About = "rate" => RateFit'
                      /\ About = "preamble" => PreambleFit'
                      /\ About = "data" => DataFit'
    BY <1>2 DEF FrameInv
  <1>5. ASSUME About = "status" PROVE StatusFit'
    BY <1>1, <1>2, <1>4, <1>5 DEF FrameInv, StatusFit
  <1>6. ASSUME About = "rate" PROVE RateFit'
    BY <1>1, <1>2, <1>6 DEF FrameInv, RateFit, StillFor
  <1>7. ASSUME WavesFor(job) PROVE ~Deep /\ WavesFor(job)'
    <2>1. ~Deep
      BY <1>1, <1>7 DEF WavesFor, Deep
    <2> QED BY <1>2, <1>7, <2>1 DEF WavesFor, Deep, ScreenWave
  <1>8. ASSUME About = "preamble" PROVE PreambleFit'
    <2>1. PreambleFit /\ WavesFor(job) /\ ~Deep /\ WavesFor(job)'
      BY <1>7, <1>8 DEF FrameInv, PreambleFit
    <2> QED BY <1>1, <1>2, <1>3, <2>1 DEF PreambleFit, Pointed
  <1>9. ASSUME About = "data" PROVE DataFit'
    <2>1. DataFit /\ WavesFor(job) /\ ~Deep /\ WavesFor(job)'
      BY <1>7, <1>9 DEF FrameInv, DataFit
    <2> QED BY <1>1, <1>2, <1>3, <2>1 DEF DataFit, Pointed, ScreenFit
  <1> QED BY <1>5, <1>6, <1>8, <1>9

\* What arrived before the connection was closed is right as far as it goes.
LEMMA HangupFrame ==
    ASSUME LineInv, FrameInv, Hangup
    PROVE  FrameInv'
  <1>1. closed' = TRUE /\ UNCHANGED <<host, lost, scope>> /\ TypeInv
    BY DEF Hangup, LineInv
  <1>2. pc' = pc /\ job' = job /\ query' = query /\ lost' = lost /\ About' = About /\ Deep' = Deep
        /\ PageEnd(job)' = PageEnd(job) /\ scope' = scope /\ ~Pending'
    BY <1>1 DEF host, About, Deep, PageEnd, Pending
  <1>3. PICK n \in Nat :
           /\ stream' \in Seq(Bytes) /\ Len(stream') = n /\ Len(stream) \in Nat /\ n <= Len(stream)
           /\ DOMAIN stream = 1..Len(stream) /\ DOMAIN stream' = 1..n
           /\ \A i \in 1..n : stream'[i] = stream[i]
    BY <1>1, CutOff
  <1>4. Arrived' => Arrived /\ stream'[1] = stream[1]
    <2>1. ASSUME stream' # <<>> PROVE n >= 1
      BY <1>3, <2>1, EmptySeq
    <2>2. n >= 1 => stream # <<>> /\ 1 \in 1..n
      BY <1>3
    <2> QED BY <1>3, <2>1, <2>2 DEF Arrived
  <1>5. ASSUME Len(stream') >= 2
        PROVE  /\ Len(stream) >= 2 /\ Size' = Size
               /\ \A k : k \in Nat /\ k + 2 <= n => stream'[k + 2] = stream[k + 2]
    <2>1. 2 \in 1..n /\ \A k : k \in Nat /\ k + 2 <= n => k + 2 \in 1..n
      BY <1>3, <1>5
    <2> QED BY <1>3, <1>5, <2>1 DEF Size
  <1> SUFFICES ASSUME ~lost, pc = "reply"
               PROVE  /\ About = "status" => StatusFit'
                      /\ About = "rate" => RateFit'
                      /\ About = "preamble" => PreambleFit'
                      /\ About = "data" => DataFit'
    BY <1>2 DEF FrameInv
  <1>6. ASSUME About = "status" PROVE StatusFit'
    BY <1>2, <1>4, <1>6 DEF FrameInv, StatusFit
  <1>7. ASSUME About = "rate" PROVE RateFit'
    BY <1>2, <1>4, <1>7 DEF FrameInv, RateFit, StillFor
  <1>8. ASSUME About = "preamble" PROVE PreambleFit'
    <2>1. PreambleFit /\ WavesFor(job)'
      BY <1>2, <1>8, WavesStay DEF FrameInv, PreambleFit
    <2> QED BY <1>2, <1>4, <2>1 DEF PreambleFit, Pointed
  <1>9. ASSUME About = "data" PROVE DataFit'
    <2>1. DataFit /\ WavesFor(job)' /\ (Arrived' => Pointed')
      BY <1>2, <1>4, <1>9, WavesStay DEF FrameInv, DataFit, Pointed
    <2>2. Len(stream') >= 2 => Size \in Nat
      <3>1. ASSUME Len(stream') >= 2 PROVE Size \in Nat
        <4>1. Len(stream) >= 2 /\ stream # <<>>
          BY <1>3, <1>5, <3>1
        <4>2. BlockShape
          BY <1>9, <4>1 DEF LineInv, InTurn, Arrived, Shape
        <4> QED BY <4>1, <4>2 DEF BlockShape
      <3> QED BY <3>1
    <2>3. ASSUME Len(stream') >= 2, NEW k \in 1..Size, k + 2 <= Len(stream')
          PROVE  stream'[k + 2] = stream[k + 2] /\ k + 2 <= Len(stream)
      <3>1. k \in Nat
        BY <2>2, <2>3
      <3> QED BY <1>3, <1>5, <2>3, <3>1
    <2>4. CASE Deep
      <3>1. DeepFit
        BY <2>1, <2>4 DEF DataFit
      <3>2. DeepFit'
        BY <1>2, <1>5, <2>3, <3>1 DEF DeepFit
      <3> QED BY <1>2, <2>1, <2>4, <3>2 DEF DataFit
    <2>5. CASE ~Deep
      <3>1. ScreenFit
        BY <2>1, <2>5 DEF DataFit
      <3>2. ScreenFit'
        BY <1>2, <1>5, <2>3, <3>1 DEF ScreenFit
      <3> QED BY <1>2, <2>1, <2>5, <3>2 DEF DataFit
    <2> QED BY <2>4, <2>5
  <1> QED BY <1>6, <1>7, <1>8, <1>9

-----------------------------------------------------------------------------
(* What is read. *)

\* A reply that is read in turn.
LEMMA ReadFrame ==
    ASSUME LineInv, ~lost, NEW about, Answered(about)
    PROVE  /\ TypeInv /\ HostTypes /\ job \in Jobs /\ pc = "reply" /\ About = about /\ wire = <<>>
           /\ stream' = <<>> /\ closed' = closed /\ lost' = lost /\ scope' = scope
           /\ Fits(about, query.arg[3], job)
           /\ \A abouts : Parses(abouts) => Arrived /\ Reply.got[1] = stream[1]
           /\ Reply.is = "block" =>
                 /\ Arrived /\ Len(stream) >= Size + 2 /\ Size \in Nat
                 /\ Reply.got \in Seq(Bytes) /\ Len(Reply.got) = Size
                 /\ \A i \in 1..Size : Reply.got[i] = stream[i + 2]
  <1>1. TypeInv /\ InTurn /\ HostTypes /\ job \in Jobs
    BY DEF LineInv, TypeInv, HostTypes
  <1>2. /\ pc = "reply" /\ About = about /\ Reply.is # "wait" /\ stream' = Reply.rest
        /\ closed' = closed /\ lost' = lost /\ scope' = scope
    BY DEF Answered
  <1>3. /\ wire = <<>> /\ Reply.rest = <<>>
        /\ Reply.is = "line" => Reply.got = <<>> \/ (Arrived /\ Reply.got = <<stream[1]>>)
        /\ Reply.is = "block" =>
              /\ Arrived /\ Len(stream) >= Size + 2 /\ Size \in Nat
              /\ Reply.got \in Seq(Bytes) /\ Len(Reply.got) = Size
              /\ \A i \in 1..Size : Reply.got[i] = stream[i + 2]
    BY <1>1, <1>2, Consumed
  <1>4. Fits(about, query.arg[3], job)
    BY <1>1, <1>2 DEF HostTypes
  <1>5. ASSUME NEW abouts, Parses(abouts) PROVE Arrived /\ Reply.got[1] = stream[1]
    <2>1. Reply.is = "line" /\ Len(Reply.got) = 1
      BY <1>5 DEF Parses
    <2>2. Reply.got # <<>>
      <3>1. Len(<<>>) = 0 /\ 0 # 1
        OBVIOUS
      <3> QED BY <2>1, <3>1, Zenon
    <2> QED BY <1>3, <2>1, <2>2
  <1> QED BY <1>1, <1>2, <1>3, <1>4, <1>5

\* One command and a query.
LEMMA AppendOne ==
    ASSUME NEW S, NEW a \in S, NEW q \in S
    PROVE  Append(<<a>>, q) = <<a, q>>
  <1> DEFINE s == Append(<<a>>, q)
             t == <<a, q>>
  <1>1. /\ <<a>> \in Seq(S) /\ t \in Seq(S) /\ Len(<<a>>) = 1 /\ Len(t) = 2
        /\ <<a>>[1] = a /\ t[1] = a /\ t[2] = q
    OBVIOUS
  <1>2. s \in Seq(S) /\ Len(s) = 2 /\ s[1] = a /\ s[2] = q
    BY <1>1, AppendProperties
  <1> HIDE DEF s, t
  <1>3. \A i \in 1..Len(s) : s[i] = t[i]
    BY <1>1, <1>2
  <1>4. s = t
    BY <1>1, <1>2, <1>3, SeqEqual
  <1> QED BY <1>4 DEF s, t

\* Two commands and a query.
LEMMA AppendTwo ==
    ASSUME NEW S, NEW a \in S, NEW b \in S, NEW q \in S
    PROVE  Append(<<a, b>>, q) = <<a, b, q>>
  <1> DEFINE s == Append(<<a, b>>, q)
             t == <<a, b, q>>
  <1>1. /\ <<a, b>> \in Seq(S) /\ t \in Seq(S) /\ Len(<<a, b>>) = 2 /\ Len(t) = 3
        /\ <<a, b>>[1] = a /\ <<a, b>>[2] = b /\ t[1] = a /\ t[2] = b /\ t[3] = q
    OBVIOUS
  <1>2. s \in Seq(S) /\ Len(s) = 3 /\ s[1] = a /\ s[2] = b /\ s[3] = q
    BY <1>1, AppendProperties
  <1> HIDE DEF s, t
  <1>3. \A i \in 1..Len(s) : s[i] = t[i]
    BY <1>1, <1>2
  <1>4. s = t
    BY <1>1, <1>2, <1>3, SeqEqual
  <1> QED BY <1>4 DEF s, t

\* Commands and a query, one after another.
LEMMA Appended ==
    /\ \A a, q : Append(<<a>>, q) = <<a, q>>
    /\ \A a, b, q : Append(<<a, b>>, q) = <<a, b, q>>
  <1>1. ASSUME NEW a, NEW q PROVE Append(<<a>>, q) = <<a, q>>
    <2> DEFINE S == {a, q}
    <2>1. a \in S /\ q \in S
      OBVIOUS
    <2> HIDE DEF S
    <2> QED BY <2>1, AppendOne
  <1>2. ASSUME NEW a, NEW b, NEW q PROVE Append(<<a, b>>, q) = <<a, b, q>>
    <2> DEFINE S == {a, b, q}
    <2>1. a \in S /\ b \in S /\ q \in S
      OBVIOUS
    <2> HIDE DEF S
    <2> QED BY <2>1, AppendTwo
  <1> QED BY <1>1, <1>2

\* Commands ahead of a query on an empty wire.
LEMMA OnWire ==
    /\ <<>> \in Seq(Plain)
    /\ \A a \in Plain : <<a>> \in Seq(Plain) /\ \A q : Append(<<a>>, q) = <<a, q>>
    /\ \A a, b \in Plain : <<a, b>> \in Seq(Plain) /\ \A q : Append(<<a, b>>, q) = <<a, b, q>>
    /\ \A q : Append(<<>>, q) = <<q>>
  <1>1. <<>> \in Seq(Plain)
    OBVIOUS
  <1>2. \A a \in Plain : <<a>> \in Seq(Plain)
    OBVIOUS
  <1>3. \A a, b \in Plain : <<a, b>> \in Seq(Plain)
    OBVIOUS
  <1>4. \A q : Append(<<>>, q) = <<q>>
    OBVIOUS
  <1> QED BY <1>1, <1>2, <1>3, <1>4, Appended

\* The status is read in turn.
LEMMA StatusFrame ==
    ASSUME LineInv, FrameInv, FrameRight, ~lost, StatusReply
    PROVE  FrameInv' /\ FrameRight'
  <1> DEFINE doing == [job EXCEPT !.status = Reply.got[1]]
             commands == IF job.want = "deep" THEN <<Command("STOP", 0)>> ELSE <<>>
  <1>1. Answered("status") /\ Parses({"status"})
    BY DEF StatusReply
  <1>2. /\ TypeInv /\ HostTypes /\ job \in Jobs /\ pc = "reply" /\ About = "status" /\ wire = <<>>
        /\ stream' = <<>> /\ closed' = closed /\ scope' = scope /\ Arrived /\ Reply.got[1] = stream[1]
        /\ job.waves = <<>>
    BY <1>1, ReadFrame DEF Fits
  <1>3. Reply.got[1] \in Bytes
    BY <1>1, <1>2, ParsedFacts DEF TypeInv
  <1>4. doing \in Jobs /\ doing.want = job.want /\ doing.began = job.began /\ doing.status = stream[1]
    BY <1>2, <1>3 DEF Jobs
  <1>5. commands \in Seq(Plain) /\ "ok" \in Kinds \ {"frame"} /\ "rate" \in Abouts /\ 0 \in 0..NumChannels
    BY Commands, OnWire, Constants DEF Kinds, Abouts
  <1>6. \/ End("ok", doing, <<>>)
        \/ Ask(commands, "rate", 0, doing)
    BY DEF StatusReply
  <1>7. job.want = "deep" => commands = <<Command("STOP", 0)>>
    OBVIOUS
  <1> HIDE DEF doing, commands
  <1>8. CASE End("ok", doing, <<>>)
    BY <1>5, <1>8, EndOutcome
  <1>9. CASE Ask(commands, "rate", 0, doing)
    <2>1. FrameRight'
          /\ \/ pc' = "idle"
             \/ /\ job' = doing /\ About' = "rate"
                /\ closed \/ wire' = Append(commands, query')
      BY <1>2, <1>4, <1>5, <1>9, AskOutcome
    <2>2. CASE pc' = "idle"
      BY <2>1, <2>2 DEF FrameInv
    <2>3. CASE job' = doing /\ About' = "rate" /\ (closed \/ wire' = Append(commands, query'))
      <3>1. StillFor(job)'
        BY <1>2, <1>4, <2>3 DEF FrameInv, StatusFit, StillFor
      <3>2. Deep' /\ Pending' => wire' = <<Command("STOP", 0), query'>>
        BY <1>2, <1>4, <1>7, <2>3, Commands, OnWire DEF Deep, Pending
      <3>3. RateFit'
        BY <1>2, <3>1, <3>2 DEF RateFit, Arrived
      <3> QED BY <2>1, <2>3, <3>3 DEF FrameInv
    <2> QED BY <2>1, <2>2, <2>3
  <1> QED BY <1>6, <1>8, <1>9

\* On to the preamble of a channel, with those before it read.
LEMMA PreambleFrame ==
    ASSUME HostTypes, FrameRight, wire = <<>>, stream' = <<>>, closed' = closed, scope' = scope,
           NEW ch \in Channels, NEW doing \in Jobs, doing.want = job.want, WavesFor(doing),
           AskPreamble(ch, doing)
    PROVE  FrameInv' /\ FrameRight'
  <1> DEFINE next == [doing EXCEPT !.ch = ch, !.out = <<>>]
             commands == <<Command("SOUR", ch), Command("MODE", Deep)>>
  <1>1. /\ next \in Jobs /\ next.want = doing.want /\ next.waves = doing.waves /\ next.ch = ch
        /\ next.began = doing.began /\ next.status = doing.status
    BY EmptySeq, Constants DEF Jobs
  <1>2. Command("SOUR", ch) \in Plain /\ Command("MODE", Deep) \in Plain
    <2>1. Deep \in BOOLEAN
      BY DEF Deep
    <2>2. Command("MODE", Deep) \in Plain
      BY <2>1, Commands, Zenon
    <2> QED BY <2>2, Commands
  <1>3. /\ commands \in Seq(Plain)
        /\ \A q : Append(commands, q) = <<Command("SOUR", ch), Command("MODE", Deep), q>>
    BY <1>2, OnWire, Zenon
  <1>4. Ask(commands, "preamble", ch, next)
    BY DEF AskPreamble, Deep
  <1>5. ch \in 0..NumChannels /\ "preamble" \in Abouts
    BY Constants DEF Abouts
  <1> HIDE DEF next, commands
  <1>6. FrameRight'
        /\ \/ pc' = "idle"
           \/ /\ job' = next /\ About' = "preamble"
              /\ closed \/ wire' = Append(commands, query')
    BY <1>1, <1>3, <1>4, <1>5, AskOutcome
  <1>7. CASE pc' = "idle"
    BY <1>6, <1>7 DEF FrameInv
  <1>8. CASE job' = next /\ About' = "preamble" /\ (closed \/ wire' = Append(commands, query'))
    <2>1. WavesFor(job)'
      BY <1>1, <1>8 DEF WavesFor, StillFor, DeepWave, ScreenWave
    <2>2. job'.ch = ch /\ Deep' = Deep
      BY <1>1, <1>8 DEF Deep
    <2>3. Pending' => wire' = <<Command("SOUR", ch), Command("MODE", Deep), query'>>
      BY <1>3, <1>8 DEF Pending
    <2>4. PreambleFit'
      BY <2>1, <2>2, <2>3 DEF PreambleFit, Arrived
    <2> QED BY <1>6, <1>8, <2>4 DEF FrameInv
  <1> QED BY <1>6, <1>7, <1>8

\* The rate is read in turn.
LEMMA RateFrame ==
    ASSUME LineInv, FrameInv, FrameRight, ~lost, RateReply
    PROVE  FrameInv' /\ FrameRight'
  <1>1. Answered("rate") /\ Parses({"rate", "display"}) /\ AskPreamble(1, job)
    BY DEF RateReply
  <1>2. /\ TypeInv /\ HostTypes /\ job \in Jobs /\ pc = "reply" /\ About = "rate" /\ wire = <<>>
        /\ stream' = <<>> /\ closed' = closed /\ scope' = scope /\ Arrived /\ job.waves = <<>>
    BY <1>1, ReadFrame DEF Fits
  <1>3. DOMAIN <<>> = {}
    OBVIOUS
  <1>4. WavesFor(job)
    BY <1>2, <1>3 DEF FrameInv, RateFit, Deep, WavesFor
  <1> QED BY <1>1, <1>2, <1>4, Constants, PreambleFrame

\* On to a page of the record, with those before it read.
LEMMA PageFrame ==
    ASSUME HostTypes, FrameRight, wire = <<>>, stream' = <<>>, closed' = closed, scope' = scope,
           NEW doing \in Jobs, doing.want = "deep", WavesFor(doing), scope.src = doing.ch,
           scope.raw = TRUE, doing.points = scope.points, doing.points # 0,
           Len(doing.out) < doing.start,
           Len(doing.out) = doing.start - 1 =>
               \A k \in 1..Len(doing.out) : doing.out[k].val = <<scope.frame, doing.ch, k>>,
           AskPage(doing)
    PROVE  FrameInv' /\ FrameRight'
  <1> DEFINE commands == <<Command("STAR", doing.start), Command("STOPAT", PageEnd(doing))>>
  <1>1. doing.start \in Nat \ {0} /\ PageEnd(doing) \in Stops
    BY PageEnds DEF Jobs
  <1>2. Command("STAR", doing.start) \in Plain /\ Command("STOPAT", PageEnd(doing)) \in Plain
    BY <1>1, Commands
  <1>3. /\ commands \in Seq(Plain)
        /\ \A q : Append(commands, q) =
                      <<Command("STAR", doing.start), Command("STOPAT", PageEnd(doing)), q>>
    BY <1>2, OnWire, Zenon
  <1>4. Ask(commands, "data", doing.ch, doing)
    BY DEF AskPage
  <1>5. doing.ch \in 0..NumChannels /\ "data" \in Abouts
    BY DEF Abouts, Jobs
  <1> HIDE DEF commands
  <1>6. FrameRight'
        /\ \/ pc' = "idle"
           \/ /\ job' = doing /\ About' = "data"
              /\ closed \/ wire' = Append(commands, query')
    BY <1>3, <1>4, <1>5, AskOutcome
  <1>7. CASE pc' = "idle"
    BY <1>6, <1>7 DEF FrameInv
  <1>8. CASE job' = doing /\ About' = "data" /\ (closed \/ wire' = Append(commands, query'))
    <2>1. WavesFor(job)'
      BY <1>8 DEF WavesFor, StillFor, DeepWave, ScreenWave
    <2>2. Deep' /\ Pointed'
      BY <1>8 DEF Deep, Pointed
    <2>3. PageEnd(job)' = PageEnd(doing)
      BY <1>8 DEF PageEnd
    <2>4. Pending' => wire' = <<Command("STAR", doing.start), Command("STOPAT", PageEnd(doing)), query'>>
      BY <1>3, <1>8 DEF Pending
    <2>5. ~ (Len(stream') >= 2)
      OBVIOUS
    <2>6. DeepFit'
      BY <1>8, <2>3, <2>4, <2>5 DEF DeepFit
    <2>7. DataFit'
      BY <2>1, <2>2, <2>6 DEF DataFit
    <2> QED BY <1>6, <1>8, <2>7 DEF FrameInv
  <1> QED BY <1>6, <1>7, <1>8

\* On to the screen.
LEMMA ScreenFrame ==
    ASSUME HostTypes, FrameRight, wire = <<>>, stream' = <<>>, closed' = closed, scope' = scope,
           NEW doing \in Jobs, doing.want = "screen", WavesFor(doing), scope.src = doing.ch,
           scope.raw = FALSE, AskScreen(doing)
    PROVE  FrameInv' /\ FrameRight'
  <1> DEFINE commands == <<Command("STAR", 1)>>
  <1>1. Command("STAR", 1) \in Plain
    BY Commands
  <1>2. commands \in Seq(Plain) /\ \A q : Append(commands, q) = <<Command("STAR", 1), q>>
    BY <1>1, OnWire, Zenon
  <1>3. Ask(commands, "data", doing.ch, doing)
    BY DEF AskScreen
  <1>4. doing.ch \in 0..NumChannels /\ "data" \in Abouts
    BY DEF Abouts, Jobs
  <1> HIDE DEF commands
  <1>5. FrameRight'
        /\ \/ pc' = "idle"
           \/ /\ job' = doing /\ About' = "data"
              /\ closed \/ wire' = Append(commands, query')
    BY <1>2, <1>3, <1>4, AskOutcome
  <1>6. CASE pc' = "idle"
    BY <1>5, <1>6 DEF FrameInv
  <1>7. CASE job' = doing /\ About' = "data" /\ (closed \/ wire' = Append(commands, query'))
    <2>1. WavesFor(job)'
      BY <1>7 DEF WavesFor, StillFor, DeepWave, ScreenWave
    <2>2. ~Deep' /\ Pointed'
      BY <1>7 DEF Deep, Pointed
    <2>3. Pending' => wire' = <<Command("STAR", 1), query'>>
      BY <1>2, <1>7 DEF Pending
    <2>4. ~ (Len(stream') >= 2)
      OBVIOUS
    <2>5. ScreenFit'
      BY <2>3, <2>4 DEF ScreenFit
    <2>6. DataFit'
      BY <2>1, <2>2, <2>5 DEF DataFit
    <2> QED BY <1>5, <1>7, <2>6 DEF FrameInv
  <1> QED BY <1>5, <1>6, <1>7

\* The preamble is read in turn.
LEMMA PreambleReplyFrame ==
    ASSUME LineInv, FrameInv, FrameRight, ~lost, PreambleReply
    PROVE  FrameInv' /\ FrameRight'
  <1> DEFINE doing == [job EXCEPT !.points = Read[1], !.start = 1]
  <1>1. Answered("preamble") /\ Parses({"preamble"})
    BY DEF PreambleReply
  <1>2. /\ TypeInv /\ HostTypes /\ job \in Jobs /\ pc = "reply" /\ About = "preamble" /\ wire = <<>>
        /\ stream' = <<>> /\ closed' = closed /\ scope' = scope /\ Arrived /\ Reply.got[1] = stream[1]
        /\ job.want \in {"screen", "deep"} /\ job.out = <<>>
    BY <1>1, ReadFrame DEF Fits
  <1>3. WavesFor(job) /\ Pointed /\ stream[1].val = <<IF Deep THEN scope.points ELSE Screen>>
    BY <1>2 DEF FrameInv, PreambleFit
  <1>4. Read[1] = IF Deep THEN scope.points ELSE Screen
    BY <1>2, <1>3 DEF Read
  <1>5. Read[1] \in Points
    BY <1>2, <1>4 DEF TypeInv, LineTypes, Scopes, Points
  <1>6. /\ doing \in Jobs /\ doing.want = job.want /\ doing.waves = job.waves /\ doing.ch = job.ch
        /\ doing.out = <<>> /\ doing.start = 1 /\ doing.points = Read[1]
        /\ doing.began = job.began /\ doing.status = job.status
    <2>1. \A p \in Points, n \in Nat \ {0} : [job EXCEPT !.points = p, !.start = n] \in Jobs
      BY <1>2 DEF Jobs
    <2>2. 1 \in Nat \ {0}
      OBVIOUS
    <2>3. doing \in Jobs
      BY <1>5, <2>1, <2>2, Zenon
    <2> QED BY <1>2, <2>3 DEF Jobs
  <1>7. \/ job.want = "screen" /\ AskScreen(doing)
        \/ job.want # "screen" /\ doing.points = 0 /\ End("RuntimeError", doing, <<>>)
        \/ job.want # "screen" /\ doing.points # 0 /\ AskPage(doing)
    BY DEF PreambleReply
  <1> HIDE DEF doing
  <1>8. WavesFor(doing)
    BY <1>3, <1>6 DEF WavesFor, StillFor
  <1>9. CASE job.want = "screen" /\ AskScreen(doing)
    <2>1. scope.src = doing.ch /\ scope.raw = FALSE
      BY <1>3, <1>6, <1>9 DEF Pointed, Deep
    <2> QED BY <1>2, <1>6, <1>8, <1>9, <2>1, ScreenFrame
  <1>10. CASE job.want # "screen" /\ doing.points = 0 /\ End("RuntimeError", doing, <<>>)
    <2>1. "RuntimeError" \in Kinds \ {"frame"}
      BY DEF Kinds
    <2> QED BY <1>10, <2>1, EndOutcome
  <1>11. CASE job.want # "screen" /\ doing.points # 0 /\ AskPage(doing)
    <2>1. job.want = "deep"
      BY <1>2, <1>11
    <2>2. scope.src = doing.ch /\ scope.raw = TRUE /\ doing.points = scope.points
      BY <1>3, <1>4, <1>6, <2>1 DEF Pointed, Deep
    <2>3. Len(doing.out) = 0 /\ 1..0 = {}
      BY <1>6
    <2>4. /\ Len(doing.out) < doing.start
          /\ \A k \in 1..Len(doing.out) : doing.out[k].val = <<scope.frame, doing.ch, k>>
      BY <1>6, <2>3
    <2> QED BY <1>2, <1>6, <1>8, <1>11, <2>1, <2>2, <2>4, PageFrame
  <1> QED BY <1>7, <1>9, <1>10, <1>11

\* A frame of which every channel is read is what it is said to be.
LEMMA FrameDone ==
    ASSUME NEW done \in Jobs, WavesFor(done), scope \in Scopes, DOMAIN done.waves = Channels,
           outcome'.job = done
    PROVE  FrameRight'
  <1>1. /\ done.waves \in Seq(Seq(Bytes)) /\ 1 \in DOMAIN done.waves
        /\ \A ch \in Channels : done.waves[ch] \in Seq(Bytes)
        /\ \A ch \in Channels : DOMAIN done.waves[ch] = 1..Len(done.waves[ch])
    <2>1. done.waves \in Seq(Seq(Bytes))
      BY DEF Jobs
    <2>2. \A ch \in DOMAIN done.waves : done.waves[ch] \in Seq(Bytes)
      BY <2>1, LenProperties, ElementOfSeq
    <2> QED BY <2>1, <2>2, Constants, LenProperties
  <1>2. \A ch \in Channels : Wave(ch)' = done.waves[ch]
    BY DEF Wave
  <1>3. ASSUME done.want = "deep"
        PROVE  /\ StillFor(done) /\ scope.frame \in 0..MaxFrames /\ scope.points \in Records
               /\ \A ch \in Channels : DeepWave(done.waves[ch], ch)
    <2>1. done.waves # <<>>
      BY <1>1
    <2> QED BY <1>3, <2>1 DEF WavesFor, Scopes
  <1>4. DeepWhole'
    <2> SUFFICES ASSUME done.want = "deep"
                 PROVE  \A ch \in Channels :
                           [k \in DOMAIN Wave(ch) |-> Wave(ch)[k].val]'
                               = [k \in 1..scope.points |-> <<scope.frame, ch, k>>]
      BY <1>3 DEF DeepWhole, Returned
    <2> TAKE ch \in Channels
    <2>1. Len(done.waves[ch]) = scope.points
          /\ \A k \in 1..scope.points : done.waves[ch][k].val = <<scope.frame, ch, k>>
      BY <1>3 DEF DeepWave
    <2>2. DOMAIN done.waves[ch] = 1..scope.points
      BY <1>1, <2>1
    <2>3. [k \in DOMAIN done.waves[ch] |-> done.waves[ch][k].val]
              = [k \in 1..scope.points |-> <<scope.frame, ch, k>>]
      BY <2>1, <2>2
    <2> QED BY <1>2, <2>3
  <1>5. ScreenWhole'
    <2> SUFFICES ASSUME done.want = "screen", BigRecords, NEW ch \in Channels
                 PROVE  [k \in DOMAIN Wave(ch) |-> Tail(Wave(ch)[k].val)]'
                            = [k \in 1..Screen |-> <<ch, k>>]
      BY DEF ScreenWhole, Returned, BigRecords
    <2>1. ScreenWave(done.waves[ch], ch)
      BY DEF WavesFor
    <2>2. DOMAIN done.waves[ch] = 1..Screen
      BY <1>1, <2>1 DEF ScreenWave
    <2>3. ASSUME NEW k \in 1..Screen PROVE Tail(done.waves[ch][k].val) = <<ch, k>>
      <3>1. PICK frame \in Nat : done.waves[ch][k].val = <<frame, ch, k>>
        BY <2>1 DEF ScreenWave
      <3>2. Tail(<<frame, ch, k>>) = <<ch, k>>
        BY Wires
      <3> QED BY <3>1, <3>2
    <2>4. [k \in DOMAIN done.waves[ch] |-> Tail(done.waves[ch][k].val)] = [k \in 1..Screen |-> <<ch, k>>]
      BY <2>2, <2>3
    <2> QED BY <1>2, <2>4
  <1>6. StatusFits'
    <2> SUFFICES ASSUME done.want = "deep"
                 PROVE  /\ done.began = "running" => done.status.val[1] = "running"
                        /\ done.status.val[1] = "stopped" => Wave(1)[1]'.val[1] = done.status.val[2]
      BY DEF StatusFits, Returned
    <2>1. 1 \in Channels /\ 1 \in 1..scope.points
      <3>1. \A n \in Nat : n # 0 => 1 \in 1..n
        OBVIOUS
      <3>2. scope.points \in Nat /\ scope.points # 0
        BY <1>3, Constants
      <3> QED BY <3>1, <3>2, Constants
    <2>2. done.waves[1][1].val = <<scope.frame, 1, 1>>
      BY <1>3, <2>1 DEF DeepWave
    <2>3. Wave(1)' = done.waves[1]
      BY <1>2, <2>1
    <2>4. Wave(1)[1]'.val[1] = scope.frame
      BY <2>2, <2>3
    <2> QED BY <1>3, <2>4 DEF StillFor
  <1> QED BY <1>4, <1>5, <1>6 DEF FrameRight

\* A channel is read in turn.
LEMMA ChannelFrame ==
    ASSUME HostTypes, FrameRight, wire = <<>>, stream' = <<>>, closed' = closed, scope' = scope,
           scope \in Scopes, NEW doing \in Jobs, doing.want = job.want, doing.waves = job.waves,
           Len(job.waves) = job.ch - 1, job.ch \in Channels, WavesFor(doing),
           Deep => DeepWave(doing.out, job.ch) /\ scope.points \in Records,
           job.want = "screen" /\ BigRecords => ScreenWave(doing.out, job.ch),
           NextChannel(doing)
    PROVE  FrameInv' /\ FrameRight'
  <1> DEFINE done == [doing EXCEPT !.waves = Append(@, doing.out)]
  <1>1. doing.waves \in Seq(Seq(Bytes)) /\ doing.out \in Seq(Bytes) /\ job.ch \in Nat
    BY Constants DEF Jobs, HostTypes
  <1>2. /\ Append(doing.waves, doing.out) \in Seq(Seq(Bytes))
        /\ Len(Append(doing.waves, doing.out)) = job.ch
        /\ Append(doing.waves, doing.out)[job.ch] = doing.out
        /\ \A i \in 1..(job.ch - 1) : Append(doing.waves, doing.out)[i] = doing.waves[i]
    BY <1>1, AppendProperties, Constants DEF Channels
  <1>3. /\ done \in Jobs /\ done.want = doing.want /\ done.waves = Append(doing.waves, doing.out)
        /\ done.began = doing.began /\ done.status = doing.status
    BY <1>2 DEF Jobs
  <1>4. \/ job.ch = NumChannels /\ End("frame", done, <<>>)
        \/ job.ch # NumChannels /\ AskPreamble(job.ch + 1, done)
    BY DEF NextChannel
  <1> HIDE DEF done
  <1>5. DOMAIN done.waves = 1..job.ch /\ DOMAIN doing.waves = 1..(job.ch - 1)
    <2>1. DOMAIN done.waves = 1..Len(done.waves) /\ DOMAIN doing.waves = 1..Len(doing.waves)
      BY <1>1, <1>2, <1>3, LenProperties
    <2> QED BY <1>2, <1>3, <2>1
  <1>6. \A ch \in 1..job.ch :
           \/ ch \in DOMAIN doing.waves /\ done.waves[ch] = doing.waves[ch]
           \/ ch = job.ch /\ done.waves[ch] = doing.out
    <2> TAKE ch \in 1..job.ch
    <2>1. ch \in 1..(job.ch - 1) \/ ch = job.ch
      BY <1>1
    <2>2. CASE ch \in 1..(job.ch - 1)
      <3>1. ch \in DOMAIN doing.waves
        BY <1>5, <2>2
      <3>2. Append(doing.waves, doing.out)[ch] = doing.waves[ch]
        BY <1>2, <2>2
      <3>3. done.waves = Append(doing.waves, doing.out)
        BY <1>3
      <3>4. done.waves[ch] = doing.waves[ch]
        BY <3>2, <3>3, Zenon
      <3> QED BY <3>1, <3>4, Zenon
    <2>3. CASE ch = job.ch
      <3>1. done.waves[job.ch] = doing.out
        BY <1>2, <1>3
      <3> QED BY <2>3, <3>1
    <2> QED BY <2>1, <2>2, <2>3
  <1>7. WavesFor(done)
    <2>1. ASSUME done.want = "deep"
          PROVE  /\ StillFor(done) /\ scope.mode = "stopped" /\ scope.points \in Records
                 /\ \A ch \in DOMAIN done.waves : DeepWave(done.waves[ch], ch)
      BY <1>3, <1>5, <1>6, <2>1 DEF WavesFor, StillFor, Deep
    <2>2. ASSUME done.want = "screen", BigRecords
          PROVE  \A ch \in DOMAIN done.waves : ScreenWave(done.waves[ch], ch)
      BY <1>3, <1>5, <1>6, <2>2 DEF WavesFor
    <2> QED BY <2>1, <2>2 DEF WavesFor
  <1>8. CASE job.ch = NumChannels /\ End("frame", done, <<>>)
    <2>1. pc' = "idle" /\ outcome'.job = done
      BY <1>8 DEF End
    <2>2. FrameRight'
      BY <1>3, <1>5, <1>7, <1>8, <2>1, FrameDone DEF Channels
    <2> QED BY <2>1, <2>2 DEF FrameInv
  <1>9. CASE job.ch # NumChannels /\ AskPreamble(job.ch + 1, done)
    <2>1. job.ch + 1 \in Channels
      BY <1>9, Constants DEF Channels
    <2> QED BY <1>3, <1>7, <1>9, <2>1, PreambleFrame
  <1> QED BY <1>4, <1>8, <1>9

\* A page or a screen is read in turn.
LEMMA PageReplyFrame ==
    ASSUME LineInv, FrameInv, FrameRight, ~lost, PageReply
    PROVE  FrameInv' /\ FrameRight'
  <1> DEFINE doing == [job EXCEPT !.out = @ \o Reply.got, !.start = PageEnd(job) + 1]
  <1>1. Answered("data") /\ Reply.is = "block"
    BY DEF PageReply
  <1>2. /\ TypeInv /\ HostTypes /\ job \in Jobs /\ pc = "reply" /\ About = "data" /\ wire = <<>>
        /\ stream' = <<>> /\ closed' = closed /\ scope' = scope /\ Arrived /\ Len(stream) >= Size + 2
        /\ job.want \in {"screen", "deep"} /\ job.ch \in Channels /\ Len(job.waves) = job.ch - 1
        /\ job.want = "screen" => job.out = <<>>
        /\ job.want = "deep" => job.start <= job.points /\ job.points # 0
    BY <1>1, ReadFrame DEF Fits
  <1>3. Size \in Nat /\ Reply.got \in Seq(Bytes) /\ Len(Reply.got) = Size
        /\ \A i \in 1..Size : Reply.got[i] = stream[i + 2]
    BY <1>1, ReadFrame
  <1>4. WavesFor(job) /\ Pointed /\ IF Deep THEN DeepFit ELSE ScreenFit
    BY <1>2 DEF FrameInv, DataFit
  <1>5. /\ job.out \in Seq(Bytes) /\ job.start \in Nat \ {0} /\ job.points \in Points
        /\ scope \in Scopes
    BY <1>2 DEF Jobs, TypeInv, LineTypes
  <1>6. /\ job.out \o Reply.got \in Seq(Bytes) /\ Len(job.out \o Reply.got) = Len(job.out) + Size
        /\ \A k \in 1..Len(job.out) : (job.out \o Reply.got)[k] = job.out[k]
        /\ \A k \in 1..Size : (job.out \o Reply.got)[Len(job.out) + k] = stream[k + 2]
    <2>1. /\ job.out \o Reply.got \in Seq(Bytes)
          /\ Len(job.out \o Reply.got) = Len(job.out) + Len(Reply.got)
      BY <1>3, <1>5, Together, Zenon
    <2>2. \A k \in 1..Len(job.out) : (job.out \o Reply.got)[k] = job.out[k]
      BY <1>3, <1>5, Ahead, Zenon
    <2>3. \A k \in 1..Len(Reply.got) : (job.out \o Reply.got)[Len(job.out) + k] = Reply.got[k]
      BY <1>3, <1>5, Behind, Zenon
    <2> QED BY <1>3, <2>1, <2>2, <2>3
  <1>7. Len(job.out) \in Nat /\ DOMAIN job.out = 1..Len(job.out)
    BY <1>5, LenProperties
  <1>8. Len(stream) >= 2 /\ \A k \in 1..Size : k + 2 <= Len(stream)
    <2>1. Len(stream) \in Nat
      BY <1>2, LenProperties DEF TypeInv, LineTypes
    <2> QED BY <1>2, <1>3, <2>1
  <1>9. \/ job.want = "screen" /\ NextChannel(doing)
        \/ job.want # "screen" /\ PageEnd(job) < job.points /\ AskPage(doing)
        \/ End("OSError", doing, <<>>)
        \/ job.want # "screen" /\ ~ (PageEnd(job) < job.points) /\ Len(doing.out) = job.points
           /\ NextChannel(doing)
    BY DEF PageReply
  <1>10. CASE job.want = "deep"
    <2>1. PICK start \in Nat \ {0}, stop \in Nat, points \in Nat :
             start = job.start /\ stop = PageEnd(job) /\ points = job.points
      <3>1. PageEnd(job) \in Stops
        BY <1>2, <1>10, PageEnds
      <3> QED BY <1>5, <3>1, Constants DEF Stops
    <2>2. stop <= points /\ start <= stop
      <3>1. stop = IF start + RawChunk - 1 <= points THEN start + RawChunk - 1 ELSE points
        BY <1>2, <1>10, <2>1, PageEnds
      <3>2. start <= points /\ RawChunk \in Nat /\ RawChunk >= 1
        BY <1>2, <1>10, <2>1, Constants
      <3> QED BY <3>1, <3>2
    <2>3. DeepFit
      BY <1>4, <1>10 DEF Deep
    <2>4. /\ Len(job.out) < start /\ Size <= stop - start + 1 /\ points = scope.points
          /\ Len(job.out) = start - 1 =>
                \A k \in 1..Len(job.out) : job.out[k].val = <<scope.frame, job.ch, k>>
          /\ \A k \in 1..Size : stream[k + 2].val = <<scope.frame, job.ch, start + k - 1>>
      BY <1>8, <2>1, <2>3 DEF DeepFit
    <2>5. PICK read \in Nat, size \in Nat : read = Len(job.out) /\ size = Size
      BY <1>3, <1>7
    <2>6. /\ doing \in Jobs /\ doing.want = job.want /\ doing.waves = job.waves /\ doing.ch = job.ch
          /\ doing.points = points /\ doing.start = stop + 1 /\ doing.began = job.began
          /\ doing.status = job.status /\ doing.out = job.out \o Reply.got
      <3>1. stop + 1 \in Nat \ {0}
        OBVIOUS
      <3> QED BY <1>2, <1>6, <2>1, <3>1 DEF Jobs
    <2> HIDE DEF doing
    <2>7. Len(doing.out) = read + size /\ read < start /\ size <= stop - start + 1
      BY <1>6, <2>4, <2>5, <2>6
    <2>8. Len(doing.out) < stop + 1
      BY <2>2, <2>7
    <2>9. ASSUME Len(doing.out) = stop, NEW k \in 1..stop
          PROVE  doing.out[k].val = <<scope.frame, job.ch, k>>
      <3>1. read = start - 1 /\ size = stop - start + 1 /\ read + size = stop
        <4>1. read + size = stop /\ read < start /\ size <= stop - start + 1
          BY <2>7, <2>9
        <4> QED BY <4>1
      <3>2. CASE k <= read
        <4>1. k \in 1..Len(job.out)
          BY <2>5, <3>2
        <4>2. doing.out[k] = job.out[k]
          BY <1>6, <2>6, <4>1
        <4> QED BY <2>4, <2>5, <3>1, <4>1, <4>2
      <3>3. CASE ~ (k <= read)
        <4>1. PICK i \in 1..size : k = read + i /\ start + i - 1 = k
          <5>1. k - read \in 1..size /\ k = read + (k - read) /\ start + (k - read) - 1 = k
            BY <2>1, <2>5, <3>1, <3>3
          <5> QED BY <5>1
        <4>2. doing.out[k] = stream[i + 2]
          BY <1>6, <2>5, <2>6, <4>1
        <4>3. stream[i + 2].val = <<scope.frame, job.ch, start + i - 1>>
          BY <2>4, <2>5
        <4> QED BY <4>1, <4>2, <4>3
      <3> QED BY <3>2, <3>3
    <2>10. WavesFor(doing)
      BY <1>4, <2>6 DEF WavesFor, StillFor
    <2>11. scope.src = doing.ch /\ scope.raw = TRUE
      BY <1>4, <1>10, <2>6 DEF Pointed, Deep
    <2>12. CASE PageEnd(job) < job.points /\ AskPage(doing)
      <3>1. Len(doing.out) < doing.start
        BY <2>6, <2>8
      <3>2. Len(doing.out) = doing.start - 1 =>
                \A k \in 1..Len(doing.out) : doing.out[k].val = <<scope.frame, doing.ch, k>>
        <4>1. doing.start - 1 = stop
          BY <2>6
        <4> QED BY <2>6, <2>9, <4>1
      <3>3. doing.points = scope.points /\ doing.points # 0
        BY <1>2, <1>10, <2>1, <2>4, <2>6
      <3> QED BY <1>2, <1>10, <2>6, <2>10, <2>11, <2>12, <3>1, <3>2, <3>3, PageFrame
    <2>13. CASE End("OSError", doing, <<>>)
      <3>1. "OSError" \in Kinds \ {"frame"}
        BY DEF Kinds
      <3> QED BY <2>13, <3>1, EndOutcome
    <2>14. CASE ~ (PageEnd(job) < job.points) /\ Len(doing.out) = job.points /\ NextChannel(doing)
      <3>1. stop = points /\ Len(doing.out) = stop
        BY <2>1, <2>2, <2>14
      <3>2. DeepWave(doing.out, job.ch)
        BY <2>4, <2>9, <3>1 DEF DeepWave
      <3>3. scope.points \in Records
        BY <1>2, <1>5, <1>10, <2>1, <2>4 DEF Scopes
      <3> QED BY <1>2, <1>5, <1>10, <2>6, <2>10, <2>14, <3>2, <3>3, ChannelFrame
    <2> QED BY <1>9, <1>10, <2>12, <2>13, <2>14
  <1>11. CASE job.want = "screen"
    <2>1. ScreenFit
      BY <1>4, <1>11 DEF Deep
    <2>2. PageEnd(job) + 1 \in Nat \ {0}
      <3>1. ASSUME NEW a \in Nat \ {0}, NEW b \in Points PROVE Min({a + RawChunk - 1, b}) + 1 \in Nat \ {0}
        <4>1. a + RawChunk - 1 \in Nat /\ b \in Nat
          BY Constants
        <4> QED BY <4>1, MinOfTwo
      <3> QED BY <1>5, <3>1 DEF PageEnd
    <2>3. /\ doing \in Jobs /\ doing.want = job.want /\ doing.waves = job.waves /\ doing.ch = job.ch
          /\ doing.began = job.began /\ doing.status = job.status /\ doing.out = job.out \o Reply.got
      BY <1>2, <1>6, <2>2 DEF Jobs
    <2> HIDE DEF doing
    <2>4. doing.out = Reply.got
      BY <1>2, <1>3, <1>11, <2>3, ConcatEmptySeq
    <2>5. BigRecords => ScreenWave(doing.out, job.ch)
      BY <1>3, <1>8, <2>1, <2>4 DEF ScreenFit, ScreenWave
    <2>6. WavesFor(doing)
      BY <1>4, <2>3 DEF WavesFor, StillFor
    <2>7. CASE NextChannel(doing)
      BY <1>2, <1>5, <1>11, <2>3, <2>5, <2>6, <2>7, ChannelFrame DEF Deep
    <2>8. CASE End("OSError", doing, <<>>)
      <3>1. "OSError" \in Kinds \ {"frame"}
        BY DEF Kinds
      <3> QED BY <2>8, <3>1, EndOutcome
    <2> QED BY <1>9, <1>11, <2>7, <2>8
  <1> QED BY <1>2, <1>10, <1>11

\* A frame returned is right as long as nothing else is returned.
LEMMA OutcomeStays ==
    ASSUME FrameRight, UNCHANGED outcome
    PROVE  FrameRight'
  BY DEF FrameRight, DeepWhole, ScreenWhole, StatusFits, Returned, Wave

\* What a call on a connection out of step returns is not called clean.
LEMMA LostOutcome ==
    ASSUME FrameRight, lost, Asks \/ Ends
    PROVE  FrameRight'
  <1>1. CASE UNCHANGED outcome
    BY <1>1, OutcomeStays
  <1>2. CASE \E kind \in Kinds, done \in Jobs, commands \in Seq(Plain) : End(kind, done, commands)
    <2>1. PICK kind \in Kinds, done \in Jobs, commands \in Seq(Plain) : End(kind, done, commands)
      BY <1>2
    <2>2. outcome'.clean = FALSE
      BY <2>1 DEF End
    <2> QED BY <2>2 DEF FrameRight, DeepWhole, ScreenWhole, StatusFits
  <1>3. CASE Asks
    <2>1. PICK commands \in Seq(Plain), about \in Abouts, ch \in 0..NumChannels, doing \in Jobs :
             Ask(commands, about, ch, doing)
      BY <1>3 DEF Asks
    <2>2. CASE UNCHANGED outcome
      BY <2>2, OutcomeStays
    <2>3. CASE End("OSError", doing, <<>>)
      <3>1. outcome'.clean = FALSE
        BY <2>3 DEF End
      <3> QED BY <3>1 DEF FrameRight, DeepWhole, ScreenWhole, StatusFits
    <2> QED BY <2>1, <2>2, <2>3 DEF Ask
  <1> QED BY <1>2, <1>3 DEF Ends

\* A call begins.
LEMMA BeginFrame ==
    ASSUME LineInv, FrameInv, FrameRight, NEW want \in Wants, NEW depth \in Depths \cup {0},
           Begin(want, depth)
    PROVE  FrameInv' /\ FrameRight'
  <1> DEFINE doing == [NoJob EXCEPT !.call = outcome.job.call + 1, !.want = want, !.depth = depth,
                                    !.began = IF wire = <<>> THEN scope.mode ELSE "unknown"]
  <1>1. HostTypes /\ pc = "idle" /\ scope \in Scopes /\ outcome.job.call \in Nat
    BY DEF LineInv, TypeInv, HostTypes, LineTypes, Begin, Jobs
  <1>2. doing \in Jobs /\ doing.began = IF wire = <<>> THEN scope.mode ELSE "unknown"
    <2>1. outcome.job.call + 1 \in Nat
          /\ (IF wire = <<>> THEN scope.mode ELSE "unknown") \in Modes \cup {"unknown"}
      BY <1>1 DEF Scopes
    <2>2. doing \in Jobs
      BY <2>1, FreshJob
    <2> QED BY <2>2 DEF NoJob
  <1>3. stream' = stream /\ closed' = closed /\ lost' = lost /\ scope' = scope
    BY DEF Begin
  <1>4. \/ want = "depth" /\ Ask(<<>>, "display", 1, doing)
        \/ want # "depth" /\ Ask(<<>>, "status", 0, doing)
    BY DEF Begin
  <1> HIDE DEF doing
  <1>5. <<>> \in Seq(Plain) /\ "display" \in Abouts /\ "status" \in Abouts
        /\ 0 \in 0..NumChannels /\ 1 \in 0..NumChannels
    BY OnWire, Constants DEF Abouts
  <1>6. CASE Ask(<<>>, "display", 1, doing)
    <2>1. FrameRight' /\ (pc' = "idle" \/ About' = "display")
      BY <1>1, <1>2, <1>5, <1>6, AskOutcome
    <2> QED BY <2>1 DEF FrameInv
  <1>7. CASE Ask(<<>>, "status", 0, doing)
    <2>1. FrameRight'
          /\ \/ pc' = "idle"
             \/ /\ job' = doing /\ About' = "status"
                /\ closed \/ wire # <<>> \/ wire' = Append(<<>>, query')
      BY <1>1, <1>2, <1>5, <1>7, AskOutcome
    <2>2. ASSUME ~lost, job' = doing, closed \/ wire # <<>> \/ wire' = Append(<<>>, query')
          PROVE  StatusFit'
      <3>1. ~Arrived'
        BY <1>1, <1>3, <2>2 DEF LineInv, InTurn, Arrived
      <3>2. job'.began = "running" => wire = <<>> /\ scope.mode = "running"
        BY <1>2, <2>2
      <3>3. Pending' /\ job'.began = "running" => wire' = <<query'>>
        BY <1>3, <2>2, <3>2, OnWire DEF Pending
      <3> QED BY <1>3, <3>1, <3>2, <3>3 DEF StatusFit
    <2> QED BY <1>3, <2>1, <2>2 DEF FrameInv
  <1> QED BY <1>4, <1>6, <1>7

\* Whether a channel is displayed is no matter of a frame.
LEMMA DisplayFrame ==
    ASSUME LineInv, FrameRight, DisplayReply
    PROVE  FrameInv' /\ FrameRight'
  <1> DEFINE on == IF Parses({"display"}) THEN job.on + Read[1] ELSE job.on
             doing == [job EXCEPT !.on = on]
  <1>1. \/ Ask(<<>>, "display", query.arg[3] + 1, doing)
        \/ End("ok", doing, <<Command("RUN", 0), Command("MDEP", job.depth)>>)
        \/ End("ValueError", doing, <<>>)
    BY DEF DisplayReply
  <1> HIDE DEF on, doing
  <1>2. {"ok", "ValueError", "OSError"} \subseteq Kinds \ {"frame"}
    BY DEF Kinds
  <1>3. CASE Ask(<<>>, "display", query.arg[3] + 1, doing)
    <2>1. CASE End("OSError", doing, <<>>)
      BY <1>2, <2>1, EndOutcome
    <2>2. CASE query' = Query(doing.call, "display", query.arg[3] + 1) /\ UNCHANGED outcome
      <3>1. About' = "display"
        BY <2>2 DEF About, Query
      <3> QED BY <2>2, <3>1, OutcomeStays DEF FrameInv
    <2> QED BY <1>3, <2>1, <2>2 DEF Ask
  <1>4. CASE End("ok", doing, <<Command("RUN", 0), Command("MDEP", job.depth)>>)
    BY <1>2, <1>4, EndOutcome
  <1>5. CASE End("ValueError", doing, <<>>)
    BY <1>2, <1>5, EndOutcome
  <1> QED BY <1>1, <1>3, <1>4, <1>5

\* What is read is not what was asked for.
LEMMA BadFrame ==
    ASSUME BadReply
    PROVE  FrameInv' /\ FrameRight'
  <1> DEFINE kind == IF Reply.is = "OSError" THEN "OSError" ELSE "ValueError"
  <1>1. kind \in Kinds \ {"frame"} /\ End(kind, job, <<>>)
    BY DEF BadReply, Kinds
  <1> HIDE DEF kind
  <1> QED BY <1>1, EndOutcome

\* Every step keeps frames right.
LEMMA NextFrame ==
    ASSUME LineInv, FrameInv, FrameRight, [Next]_vars
    PROVE  FrameInv' /\ FrameRight'
  <1>1. CASE \E command \in Writes : Write(command)
    <2>1. pc' = "idle" /\ UNCHANGED outcome
      BY <1>1 DEF Write, host
    <2> QED BY <2>1, OutcomeStays DEF FrameInv
  <1>2. CASE \E want \in {"poll", "screen", "deep"} : Begin(want, 0)
    <2>1. PICK want \in Wants : Begin(want, 0)
      BY <1>2 DEF Wants
    <2> QED BY <2>1, BeginFrame
  <1>3. CASE \E depth \in Depths : Begin("depth", depth)
    <2>1. "depth" \in Wants
      BY DEF Wants
    <2> QED BY <1>3, <2>1, BeginFrame
  <1>4. CASE HostStep /\ lost
    <2>1. Asks \/ Ends
      BY <1>4, StatusTypes, RateTypes, PreambleTypes, PageTypes, DisplayTypes, BadTypes DEF HostStep, LineInv
    <2>2. lost'
      BY <1>4 DEF HostStep, StatusReply, RateReply, PreambleReply, PageReply, DisplayReply, BadReply, Answered
    <2> QED BY <1>4, <2>1, <2>2, LostOutcome DEF FrameInv
  <1>5. CASE HostStep /\ ~lost
    BY <1>5, StatusFrame, RateFrame, PreambleReplyFrame, PageReplyFrame, DisplayFrame, BadFrame DEF HostStep
  <1>6. CASE Timeout
    <2>1. End("OSError", job, <<>>) /\ "OSError" \in Kinds \ {"frame"}
      BY <1>6 DEF Timeout, Kinds
    <2> QED BY <2>1, EndOutcome
  <1>7. CASE Reopen
    <2>1. pc' = "idle" /\ UNCHANGED outcome
      BY <1>7 DEF Reopen, host
    <2> QED BY <2>1, OutcomeStays DEF FrameInv
  <1>8. CASE Execute \/ Acquire \/ Hangup
    <2>1. UNCHANGED outcome
      BY <1>8 DEF Execute, Acquire, Hangup, host
    <2> QED BY <1>8, <2>1, OutcomeStays, ExecuteFrame, AcquireFrame, HangupFrame
  <1>9. CASE UNCHANGED vars
    <2>1. UNCHANGED outcome
      BY <1>9 DEF vars, host
    <2>2. FrameInv'
      BY <1>9 DEF FrameInv, StatusFit, RateFit, PreambleFit, DataFit, DeepFit, ScreenFit, WavesFor, StillFor,
                  Pointed, DeepWave, ScreenWave, Pending, Arrived, Size, Deep, About, PageEnd, vars, host
    <2> QED BY <2>1, <2>2, OutcomeStays
  <1> QED BY <1>1, <1>2, <1>3, <1>4, <1>5, <1>6, <1>7, <1>8, <1>9 DEF Next, Depths

\* A frame is what it is said to be: while no read of the connection was given up, the
\* samples of a deep one are all of the one record that is held, each channel's in
\* order, those of a screen one the whole trace, and its status is of that record,
\* whatever is sent without waiting, however short a page comes, whatever start, stop,
\* source and mode earlier calls left behind, and whenever the instrument closes.
THEOREM FramesRight == Spec => []FrameRight
  <1>1. Init => FrameInv /\ FrameRight
    BY DEF Init, FrameInv, FrameRight, DeepWhole, ScreenWhole, StatusFits, Returned
  <1>2. LineInv /\ FrameInv /\ FrameRight /\ [Next]_vars => FrameInv' /\ FrameRight'
    BY NextFrame
  <1> QED BY <1>1, <1>2, LineInvariant, PTL DEF Spec

-----------------------------------------------------------------------------
(* A depth is one the instrument takes.                                    *)

\* The channels counted so far are those displayed, and none is switched any more.
DisplayFit ==
    Pending \/ Arrived =>
        /\ job.on = Cardinality(scope.on \cap 1..(query.arg[3] - 1))
        /\ Pending => query.arg[3] = 1 \/ wire = <<query>>
        /\ Arrived => stream[1].val = <<IF query.arg[3] \in scope.on THEN 1 ELSE 0>>

DisplayInv == ~lost /\ pc = "reply" /\ About = "display" => DisplayFit

\* A depth is behind the command that starts the instrument, or finds it running.
DepthInv ==
    ~lost =>
        \A i \in DOMAIN wire : wire[i].op = "MDEP" =>
            /\ wire[i].arg \in MemoryDepths[Max({1, Cardinality(scope.on)})]
            /\ (i = 1 /\ scope.mode = "running") \/ (i = 2 /\ wire[1].op = "RUN")

NoDepth(commands) == \A i \in DOMAIN commands : commands[i].op # "MDEP"

\* One channel more.
LEMMA CountNext ==
    ASSUME NEW S \in SUBSET Channels, NEW n \in Channels
    PROVE  /\ Cardinality(S \cap 1..n)
                  = Cardinality(S \cap 1..(n - 1)) + (IF n \in S THEN 1 ELSE 0)
           /\ Cardinality(S \cap 1..(n - 1)) \in Nat
  <1>1. n \in Nat \ {0}
    BY DEF Channels
  <1>2. IsFiniteSet(S \cap 1..(n - 1))
    <2>1. IsFiniteSet(1..(n - 1))
      BY <1>1, FS_Interval
    <2> QED BY <2>1, FS_Subset
  <1>3. n \notin S \cap 1..(n - 1)
    BY <1>1
  <1>4. CASE n \in S
    <2>1. S \cap 1..n = (S \cap 1..(n - 1)) \cup {n}
      BY <1>1, <1>4
    <2> QED BY <1>2, <1>3, <1>4, <2>1, FS_AddElement, FS_CardinalityType
  <1>5. CASE n \notin S
    <2>1. S \cap 1..n = S \cap 1..(n - 1)
      BY <1>1, <1>5
    <2>2. Cardinality(S \cap 1..(n - 1)) \in Nat
      BY <1>2, FS_CardinalityType
    <2> QED BY <1>5, <2>1, <2>2
  <1> QED BY <1>4, <1>5

\* No channel at first, and all at last.
LEMMA CountEnds ==
    ASSUME NEW S \in SUBSET Channels
    PROVE  Cardinality(S \cap 1..(1 - 1)) = 0 /\ S \cap 1..NumChannels = S
  <1>1. S \cap 1..(1 - 1) = {}
    OBVIOUS
  <1> QED BY <1>1, FS_EmptySet DEF Channels

\* Commands after none.
LEMMA Concatenated ==
    /\ \A a, b : <<>> \o <<a, b>> = <<a, b>>
    /\ \A a, b, c : <<>> \o <<a, b, c>> = <<a, b, c>>
  <1>1. ASSUME NEW a, NEW b PROVE <<>> \o <<a, b>> = <<a, b>>
    <2> DEFINE S == {a, b}
    <2>1. <<a, b>> \in Seq(S)
      OBVIOUS
    <2> QED BY <2>1, ConcatEmptySeq
  <1>2. ASSUME NEW a, NEW b, NEW c PROVE <<>> \o <<a, b, c>> = <<a, b, c>>
    <2> DEFINE S == {a, b, c}
    <2>1. <<a, b, c>> \in Seq(S)
      OBVIOUS
    <2> QED BY <2>1, ConcatEmptySeq
  <1> QED BY <1>1, <1>2

\* A command on the wire, before another and before a query.
LEMMA WireForms ==
    ASSUME NEW commands, NEW q, q.op # "MDEP",
           \/ commands = <<>>
           \/ \E a : a.op # "MDEP" /\ commands = <<a>>
           \/ \E a, b : a.op # "MDEP" /\ b.op # "MDEP" /\ commands = <<a, b>>
    PROVE  NoDepth(<<>> \o Append(commands, q))
  <1>1. CASE commands = <<>>
    <2>1. <<>> \o Append(commands, q) = <<q>>
      BY <1>1
    <2> QED BY <2>1 DEF NoDepth
  <1>2. CASE \E a : a.op # "MDEP" /\ commands = <<a>>
    <2>1. PICK a : a.op # "MDEP" /\ commands = <<a>>
      BY <1>2
    <2>2. Append(commands, q) = <<a, q>>
      BY <2>1, Appended
    <2>3. <<>> \o <<a, q>> = <<a, q>>
      BY Concatenated
    <2> QED BY <2>1, <2>2, <2>3 DEF NoDepth
  <1>3. CASE \E a, b : a.op # "MDEP" /\ b.op # "MDEP" /\ commands = <<a, b>>
    <2>1. PICK a, b : a.op # "MDEP" /\ b.op # "MDEP" /\ commands = <<a, b>>
      BY <1>3
    <2>2. Append(commands, q) = <<a, b, q>>
      BY <2>1, Appended
    <2>3. <<>> \o <<a, b, q>> = <<a, b, q>>
      BY Concatenated
    <2> QED BY <2>1, <2>2, <2>3 DEF NoDepth
  <1> QED BY <1>1, <1>2, <1>3

\* A wire without a depth is right.
LEMMA WithoutDepth ==
    ASSUME NoDepth(wire')
    PROVE  DepthInv'
  BY DEF DepthInv, NoDepth

\* A call asks in turn about something else.
LEMMA AskDepth ==
    ASSUME wire = <<>>, NEW commands, NEW about, NEW ch, NEW doing,
           \/ commands = <<>>
           \/ \E a : a.op # "MDEP" /\ commands = <<a>>
           \/ \E a, b : a.op # "MDEP" /\ b.op # "MDEP" /\ commands = <<a, b>>,
           Ask(commands, about, ch, doing)
    PROVE  DepthInv' /\ (about # "display" => DisplayInv')
  <1>1. NoDepth(<<>>)
    BY DEF NoDepth
  <1>2. CASE End("OSError", doing, <<>>)
    <2>1. wire' = <<>> /\ pc' = "idle"
      <3>1. <<>> \o <<>> = <<>>
        OBVIOUS
      <3> QED BY <1>2, <3>1 DEF End
    <2> QED BY <1>1, <2>1, WithoutDepth DEF DisplayInv
  <1>3. CASE ~ End("OSError", doing, <<>>)
    <2>1. query' = Query(doing.call, about, ch)
          /\ wire' = IF closed THEN wire ELSE wire \o Append(commands, query')
      BY <1>3 DEF Ask
    <2>2. query'.op # "MDEP" /\ About' = about
      BY <2>1 DEF Query, About
    <2>3. NoDepth(<<>> \o Append(commands, query'))
      BY <2>2, WireForms
    <2>4. NoDepth(wire')
      BY <1>1, <2>1, <2>3
    <2> QED BY <2>2, <2>4, WithoutDepth DEF DisplayInv
  <1> QED BY <1>2, <1>3

\* A call that ends in turn, without a depth.
LEMMA EndDepth ==
    ASSUME wire = <<>>, NEW kind, NEW done, End(kind, done, <<>>)
    PROVE  DepthInv' /\ DisplayInv'
  <1>1. wire' = <<>> /\ pc' = "idle"
    <2>1. <<>> \o <<>> = <<>>
      OBVIOUS
    <2> QED BY <2>1 DEF End
  <1> QED BY <1>1, WithoutDepth DEF DisplayInv, NoDepth

\* Any reply but that to a question for a channel's display leaves the depth alone.
LEMMA ReplyDepth ==
    ASSUME LineInv, ~lost,
           StatusReply \/ RateReply \/ PreambleReply \/ PageReply \/ BadReply
    PROVE  DepthInv' /\ DisplayInv'
  <1>1. PICK read : Answered(read)
    BY DEF StatusReply, RateReply, PreambleReply, PageReply, BadReply
  <1>2. wire = <<>>
    BY <1>1, ReadFrame
  <1> DEFINE Bare(commands) ==
                \/ commands = <<>>
                \/ \E a : a.op # "MDEP" /\ commands = <<a>>
                \/ \E a, b : a.op # "MDEP" /\ b.op # "MDEP" /\ commands = <<a, b>>
  <1>3. /\ Bare(<<>>)
        /\ \A op, arg : op # "MDEP" => Bare(<<Command(op, arg)>>)
        /\ \A op, arg, op2, arg2 : op # "MDEP" /\ op2 # "MDEP" =>
               Bare(<<Command(op, arg), Command(op2, arg2)>>)
    <2>1. \A op, arg : Command(op, arg).op = op
      BY DEF Command
    <2> QED BY <2>1
  <1>4. \/ \E kind, done : End(kind, done, <<>>)
        \/ \E commands, about, ch, doing :
              Bare(commands) /\ about # "display" /\ Ask(commands, about, ch, doing)
    <2>1. CASE StatusReply
      BY <1>3, <2>1 DEF StatusReply
    <2>2. CASE RateReply
      BY <1>3, <2>2 DEF RateReply, AskPreamble
    <2>3. CASE PreambleReply
      BY <1>3, <2>3 DEF PreambleReply, AskScreen, AskPage
    <2>4. CASE PageReply
      <3>1. PICK doing : NextChannel(doing) \/ AskPage(doing) \/ End("OSError", doing, <<>>)
        BY <2>4 DEF PageReply
      <3>2. CASE NextChannel(doing)
        <4>1. PICK done : End("frame", done, <<>>) \/ AskPreamble(job.ch + 1, done)
          BY <3>2 DEF NextChannel
        <4> QED BY <1>3, <4>1 DEF AskPreamble
      <3>3. CASE AskPage(doing)
        BY <1>3, <3>3 DEF AskPage
      <3> QED BY <3>1, <3>2, <3>3
    <2>5. CASE BadReply
      BY <2>5 DEF BadReply
    <2> QED BY <2>1, <2>2, <2>3, <2>4, <2>5
  <1>5. CASE \E kind, done : End(kind, done, <<>>)
    BY <1>2, <1>5, EndDepth
  <1>6. CASE \E commands, about, ch, doing :
                Bare(commands) /\ about # "display" /\ Ask(commands, about, ch, doing)
    BY <1>2, <1>6, AskDepth
  <1> QED BY <1>4, <1>5, <1>6

\* Whether a channel is displayed is read, out of turn or in turn.
LEMMA DisplayDepth ==
    ASSUME LineInv, DisplayInv, ~lost, DisplayReply
    PROVE  DepthInv' /\ DisplayInv'
  <1> DEFINE on == IF Parses({"display"}) THEN job.on + Read[1] ELSE job.on
             doing == [job EXCEPT !.on = on]
             depth == <<Command("RUN", 0), Command("MDEP", job.depth)>>
  <1>1. Answered("display") /\ Reply.is = "line"
    BY DEF DisplayReply
  <1>2. /\ TypeInv /\ InTurn /\ job \in Jobs /\ pc = "reply" /\ About = "display" /\ wire = <<>>
        /\ stream' = <<>> /\ closed' = closed /\ scope' = scope /\ query.arg[3] \in Channels
    BY <1>1, ReadFrame DEF Fits, LineInv
  <1>3. scope.on \in SUBSET Channels
    BY <1>2 DEF TypeInv, LineTypes, Scopes
  <1>4. ~closed => Arrived
    BY <1>2 DEF InTurn, Pending, Arrived
  <1>5. ASSUME Arrived PROVE on = Cardinality(scope.on \cap 1..query.arg[3])
    <2>1. LineShape /\ \A i \in DOMAIN stream : stream[i].of = query.arg
      BY <1>2, <1>5 DEF InTurn, Shape
    <2>2. stream[1].of = query.arg /\ stream[1].is = "text"
      <3>1. 1 \in DOMAIN stream
        BY <1>2, <1>5, EmptySeq, LenProperties DEF TypeInv, LineTypes, Arrived
      <3> QED BY <2>1, <3>1 DEF LineShape
    <2>3. Reply.got = <<stream[1]>>
      BY <1>2, <1>5, <2>1, LineConsumed DEF Reply, ReplyIn
    <2>4. Len(Reply.got) = 1 /\ Reply.got[1] = stream[1]
      BY <2>3
    <2>5. Parses({"display"})
      BY <1>1, <1>2, <2>2, <2>4 DEF Parses, About
    <2>6. job.on = Cardinality(scope.on \cap 1..(query.arg[3] - 1))
          /\ Read[1] = IF query.arg[3] \in scope.on THEN 1 ELSE 0
      BY <1>2, <1>5, <2>4 DEF DisplayInv, DisplayFit, Read
    <2> QED BY <1>2, <1>3, <2>5, <2>6, CountNext
  <1>6. \/ Ask(<<>>, "display", query.arg[3] + 1, doing)
        \/ /\ query.arg[3] = NumChannels /\ job.depth \in MemoryDepths[Max({1, on})]
           /\ End("ok", doing, depth)
        \/ End("ValueError", doing, <<>>)
    BY DEF DisplayReply
  <1>7. doing.on = on
    BY <1>2 DEF Jobs
  <1>8. /\ Len(depth) = 2 /\ DOMAIN depth = 1..2 /\ depth[1].op = "RUN" /\ depth[2].op = "MDEP"
        /\ depth[2].arg = job.depth /\ <<>> \o depth = depth
    BY Concatenated DEF Command
  <1> HIDE DEF on, doing, depth
  <1>9. CASE Ask(<<>>, "display", query.arg[3] + 1, doing)
    <2>1. DepthInv'
      BY <1>2, <1>9, AskDepth
    <2>2. ASSUME pc' = "reply", Pending' \/ Arrived' PROVE DisplayFit'
      <3>1. query' = Query(doing.call, "display", query.arg[3] + 1) /\ job' = doing
            /\ wire' = IF closed THEN wire ELSE wire \o Append(<<>>, query')
        BY <1>9, <2>2 DEF Ask, End
      <3>2. query'.arg[3] = query.arg[3] + 1 /\ query'.arg[3] - 1 = query.arg[3]
        <4>1. query'.arg[3] = query.arg[3] + 1
          BY <3>1 DEF Query
        <4>2. query.arg[3] \in Nat
          BY <1>2 DEF Channels
        <4> QED BY <4>1, <4>2
      <3>3. ~Arrived' /\ ~closed
        BY <1>2, <2>2 DEF Arrived, Pending
      <3>4. wire' = <<query'>>
        <4>1. <<>> \o Append(<<>>, query') = <<query'>>
          OBVIOUS
        <4> QED BY <1>2, <3>1, <3>3, <4>1
      <3>5. job'.on = Cardinality(scope'.on \cap 1..(query'.arg[3] - 1))
        BY <1>2, <1>4, <1>5, <1>7, <3>1, <3>2, <3>3
      <3> QED BY <3>3, <3>4, <3>5 DEF DisplayFit
    <2> QED BY <2>1, <2>2 DEF DisplayInv, DisplayFit
  <1>10. CASE /\ query.arg[3] = NumChannels /\ job.depth \in MemoryDepths[Max({1, on})]
              /\ End("ok", doing, depth)
    <2>1. pc' = "idle" /\ wire' = IF closed THEN <<>> ELSE depth
      BY <1>2, <1>8, <1>10 DEF End
    <2>2. CASE closed
      BY <2>1, <2>2, WithoutDepth DEF NoDepth, DisplayInv
    <2>3. CASE ~closed
      <3>1. on = Cardinality(scope.on)
        BY <1>3, <1>4, <1>5, <1>10, <2>3, CountEnds
      <3>2. wire' = depth /\ job.depth \in MemoryDepths[Max({1, Cardinality(scope'.on)})]
        BY <1>2, <1>10, <2>1, <2>3, <3>1
      <3> QED BY <1>8, <2>1, <3>2 DEF DepthInv, DisplayInv
    <2> QED BY <2>2, <2>3
  <1>11. CASE End("ValueError", doing, <<>>)
    BY <1>2, <1>11, EndDepth
  <1> QED BY <1>6, <1>9, <1>10, <1>11

\* One command more, which is no depth.
LEMMA MoreOnWire ==
    ASSUME wire \in Seq(Sent), NEW command \in Sent, command.op # "MDEP", DepthInv,
           wire' = Append(wire, command), lost' = lost, scope' = scope
    PROVE  DepthInv'
  <1>1. /\ wire' \in Seq(Sent) /\ Len(wire') = Len(wire) + 1 /\ wire'[Len(wire) + 1] = command
        /\ \A i \in 1..Len(wire) : wire'[i] = wire[i]
    BY AppendProperties
  <1>2. DOMAIN wire = 1..Len(wire) /\ DOMAIN wire' = 1..Len(wire') /\ Len(wire) \in Nat
    BY <1>1, LenProperties
  <1>3. ASSUME NEW i \in DOMAIN wire', wire'[i].op = "MDEP" PROVE i \in DOMAIN wire /\ wire[i] = wire'[i]
    <2>1. i # Len(wire) + 1
      BY <1>1, <1>3
    <2>2. i \in 1..Len(wire)
      BY <1>1, <1>2, <2>1
    <2> QED BY <1>1, <1>2, <2>2
  <1>4. DOMAIN wire # {} => wire'[1] = wire[1]
    <2>1. DOMAIN wire # {} => 1 \in 1..Len(wire)
      BY <1>2
    <2> QED BY <1>1, <2>1
  <1> QED BY <1>3, <1>4 DEF DepthInv

\* A call begins.
LEMMA BeginDepth ==
    ASSUME LineInv, DepthInv, NEW want \in Wants, NEW depth \in Depths \cup {0}, Begin(want, depth)
    PROVE  DepthInv' /\ DisplayInv'
  <1> DEFINE doing == [NoJob EXCEPT !.call = outcome.job.call + 1, !.want = want, !.depth = depth,
                                    !.began = IF wire = <<>> THEN scope.mode ELSE "unknown"]
  <1>1. /\ HostTypes /\ pc = "idle" /\ scope \in Scopes /\ outcome.job.call \in Nat
        /\ wire \in Seq(Sent)
    BY DEF LineInv, TypeInv, HostTypes, LineTypes, Begin, Jobs
  <1>2. doing \in Jobs /\ doing.on = 0
    <2>1. outcome.job.call + 1 \in Nat
          /\ (IF wire = <<>> THEN scope.mode ELSE "unknown") \in Modes \cup {"unknown"}
      BY <1>1 DEF Scopes
    <2>2. doing \in Jobs
      BY <2>1, FreshJob
    <2> QED BY <2>2 DEF NoJob
  <1>3. stream' = stream /\ closed' = closed /\ lost' = lost /\ scope' = scope
    BY DEF Begin
  <1>4. \/ Ask(<<>>, "display", 1, doing)
        \/ Ask(<<>>, "status", 0, doing)
    BY DEF Begin
  <1> HIDE DEF doing
  <1>5. "display" \in Abouts /\ "status" \in Abouts /\ 0 \in 0..NumChannels /\ 1 \in 0..NumChannels
    BY Constants DEF Abouts
  <1>6. ASSUME wire' = wire PROVE DepthInv'
    BY <1>3, <1>6 DEF DepthInv
  <1>7. CASE End("OSError", doing, <<>>)
    <2>1. pc' = "idle" /\ wire' = wire
      <3>1. \A w \in Seq(Sent) : w \o <<>> = w
        OBVIOUS
      <3> QED BY <1>1, <1>7, <3>1 DEF End
    <2> QED BY <1>6, <2>1 DEF DisplayInv
  <1>8. ASSUME NEW about \in {"display", "status"}, NEW ch \in 0..NumChannels,
               query' = Query(doing.call, about, ch) /\ job' = doing,
               wire' = IF closed THEN wire ELSE wire \o Append(<<>>, query'),
               about = "display" => ch = 1
        PROVE  DepthInv' /\ DisplayInv'
    <2>1. /\ query' \in [op : {"?"}, arg : Arguments]
          /\ query'.arg[2] = about /\ query'.arg[3] = ch
      BY <1>2, <1>5, <1>8, QueryTypes
    <2>2. query' \in Sent /\ query'.op # "MDEP"
      BY <2>1, Commands
    <2>3. wire \o Append(<<>>, query') = Append(wire, query')
      <3>1. Append(<<>>, query') = <<query'>>
        OBVIOUS
      <3> QED BY <1>1, <2>2, <3>1, AppendIsConcat
    <2>4. DepthInv'
      BY <1>1, <1>3, <1>6, <1>8, <2>2, <2>3, MoreOnWire
    <2>5. ASSUME ~lost, about = "display" PROVE DisplayFit'
      <3>1. ~Arrived'
        BY <1>1, <1>3, <2>5 DEF LineInv, InTurn, Arrived
      <3>2. query'.arg[3] = 1 /\ job'.on = 0 /\ scope.on \in SUBSET Channels
        BY <1>1, <1>2, <1>8, <2>1, <2>5 DEF Scopes
      <3> QED BY <1>3, <3>1, <3>2, CountEnds DEF DisplayFit
    <2> QED BY <1>3, <2>1, <2>4, <2>5 DEF DisplayInv, About
  <1>9. 1 \in 0..NumChannels /\ 0 \in 0..NumChannels
    BY <1>5
  <1> QED BY <1>4, <1>7, <1>8, <1>9 DEF Ask

\* The instrument gets on with what is on the wire.
LEMMA ExecuteDepth ==
    ASSUME LineInv, DisplayInv, DepthInv, ~lost, Execute
    PROVE  DepthInv' /\ DisplayInv'
  <1>1. /\ TypeInv /\ InTurn /\ wire \in Seq(Sent) /\ wire # <<>> /\ wire' = Tail(wire) /\ scope \in Scopes
        /\ pc' = pc /\ job' = job /\ query' = query /\ closed' = closed /\ lost' = lost /\ About' = About
    BY DEF LineInv, TypeInv, HostTypes, LineTypes, Execute, host, About
  <1>2. /\ Head(wire) = wire[1] /\ Len(wire) \in Nat \ {0}
        /\ DOMAIN wire = 1..Len(wire) /\ DOMAIN Tail(wire) = 1..(Len(wire) - 1)
        /\ \A i \in 1..(Len(wire) - 1) : Tail(wire)[i] = wire[i + 1]
    BY <1>1, WireTail
  <1>3. DepthInv'
    <2> SUFFICES ASSUME NEW i \in DOMAIN Tail(wire), Tail(wire)[i].op = "MDEP"
                 PROVE  /\ Tail(wire)[i].arg \in MemoryDepths[Max({1, Cardinality(scope'.on)})]
                        /\ i = 1 /\ scope'.mode = "running"
      BY <1>1 DEF DepthInv
    <2>1. i + 1 \in DOMAIN wire /\ Tail(wire)[i] = wire[i + 1] /\ i + 1 # 1
      BY <1>2
    <2>2. /\ wire[i + 1].arg \in MemoryDepths[Max({1, Cardinality(scope.on)})]
          /\ i + 1 = 2 /\ wire[1].op = "RUN"
      BY <2>1 DEF DepthInv
    <2>3. ~IsQuery(Head(wire)) /\ scope' = Set(Head(wire))
      BY <1>1, <1>2, <2>2, Executes DEF IsQuery
    <2>4. scope'.mode = "running" /\ scope'.on = scope.on
      BY <1>1, <1>2, <2>2, <2>3 DEF Set, Scopes
    <2>5. i = 1
      BY <1>2, <2>2
    <2> QED BY <2>1, <2>2, <2>4, <2>5
  <1>4. ASSUME pc = "reply", About = "display" PROVE DisplayFit'
    <2>1. Pending /\ stream = <<>>
      BY <1>1, <1>4, InTurnExecutes DEF Pending
    <2>2. DisplayFit
      BY <1>4 DEF DisplayInv
    <2>3. CASE ~IsQuery(Head(wire))
      <3>1. stream' = <<>>
        BY <1>1, <2>1, <2>3, Executes
      <3>2. wire # <<query>>
        BY <1>1, <2>3, Wires DEF TypeInv, HostTypes, IsQuery
      <3>3. query.arg[3] = 1 /\ job.on = Cardinality(scope.on \cap 1..(1 - 1))
        BY <2>1, <2>2, <3>2 DEF DisplayFit
      <3>4. scope.on \in SUBSET Channels /\ scope'.on \in SUBSET Channels
        BY <1>1, ExecuteTypes DEF TypeInv, LineTypes, Scopes
      <3>5. job.on = Cardinality(scope'.on \cap 1..(1 - 1))
        BY <3>3, <3>4, CountEnds
      <3> QED BY <1>1, <3>1, <3>3, <3>5 DEF DisplayFit, Arrived
    <2>4. CASE IsQuery(Head(wire))
      <3>1. Head(wire) = query
        BY <1>1, <1>4, <2>4, InTurnExecutes
      <3>2. stream' # <<>> /\ scope' = scope /\ stream'[1].val = Value(scope, query.arg[2], query.arg[3])
        BY <1>1, <1>4, <2>1, <2>4, <3>1, LineComes
      <3>3. stream'[1].val = <<IF query.arg[3] \in scope.on THEN 1 ELSE 0>>
        BY <1>4, <3>2 DEF Value, About
      <3> QED BY <1>1, <2>1, <2>2, <3>2, <3>3 DEF DisplayFit, Pending
    <2> QED BY <2>3, <2>4
  <1> QED BY <1>1, <1>3, <1>4 DEF DisplayInv

\* Every step keeps a depth one the instrument takes.
LEMMA NextDepth ==
    ASSUME LineInv, DisplayInv, DepthInv, [Next]_vars
    PROVE  DepthInv' /\ DisplayInv'
  <1>1. CASE \E command \in Writes : Write(command)
    <2>1. PICK command \in Writes : Write(command)
      BY <1>1
    <2>2. wire' = Append(wire, command) /\ lost' = lost /\ scope' = scope /\ pc' = "idle"
      BY <2>1 DEF Write, host
    <2>3. command.op # "MDEP" /\ command \in Sent /\ wire \in Seq(Sent)
      <3>1. command.op # "MDEP"
        BY DEF Writes, Command
      <3> QED BY <2>1, <3>1, WriteTypes DEF LineInv, TypeInv, HostTypes
    <2> QED BY <2>2, <2>3, MoreOnWire DEF DisplayInv
  <1>2. CASE \E want \in {"poll", "screen", "deep"} : Begin(want, 0)
    <2>1. PICK want \in Wants : Begin(want, 0)
      BY <1>2 DEF Wants
    <2> QED BY <2>1, BeginDepth
  <1>3. CASE \E depth \in Depths : Begin("depth", depth)
    <2>1. "depth" \in Wants
      BY DEF Wants
    <2> QED BY <1>3, <2>1, BeginDepth
  <1>4. CASE HostStep /\ lost
    <2>1. lost'
      BY <1>4 DEF HostStep, StatusReply, RateReply, PreambleReply, PageReply, DisplayReply, BadReply, Answered
    <2> QED BY <2>1 DEF DepthInv, DisplayInv
  <1>5. CASE HostStep /\ ~lost
    BY <1>5, ReplyDepth, DisplayDepth DEF HostStep
  <1>6. CASE Timeout
    BY <1>6 DEF Timeout, DepthInv, DisplayInv
  <1>7. CASE Reopen
    BY <1>7, WithoutDepth DEF Reopen, host, NoDepth, DisplayInv
  <1>8. CASE Execute
    <2>1. lost' = lost
      BY <1>8 DEF Execute
    <2> QED BY <1>8, <2>1, ExecuteDepth DEF DepthInv, DisplayInv
  <1>9. CASE Acquire
    <2>1. UNCHANGED <<host, wire, stream, closed, lost>>
      BY <1>9 DEF Acquire
    <2>2. scope'.on = scope.on /\ (scope.mode = "running" => scope'.mode = "running")
      <3>1. PICK points \in Records \cup {0} :
               scope' = [scope EXCEPT !.frame = @ + 1, !.points = points,
                                      !.mode = IF @ = "armed" THEN "stopped" ELSE @]
        BY <1>9 DEF Acquire
      <3>2. scope \in Scopes
        BY DEF LineInv, TypeInv, LineTypes
      <3> QED BY <3>1, <3>2 DEF Scopes
    <2>3. DepthInv'
      BY <2>1, <2>2 DEF DepthInv
    <2>4. DisplayInv'
      BY <2>1, <2>2 DEF DisplayInv, DisplayFit, Pending, Arrived, About, host
    <2> QED BY <2>3, <2>4
  <1>10. CASE Hangup
    <2>1. closed' = TRUE /\ wire' = <<>> /\ UNCHANGED <<host, lost, scope>> /\ TypeInv
      BY <1>10 DEF Hangup, LineInv
    <2>2. Arrived' => Arrived /\ stream'[1] = stream[1]
      <3>1. PICK n \in Nat :
               /\ stream' \in Seq(Bytes) /\ Len(stream') = n /\ Len(stream) \in Nat /\ n <= Len(stream)
               /\ DOMAIN stream = 1..Len(stream) /\ DOMAIN stream' = 1..n
               /\ \A i \in 1..n : stream'[i] = stream[i]
        BY <1>10, <2>1, CutOff
      <3>2. ASSUME stream' # <<>> PROVE n >= 1
        BY <3>1, <3>2, EmptySeq
      <3>3. n >= 1 => stream # <<>> /\ 1 \in 1..n
        BY <3>1
      <3> QED BY <3>1, <3>2, <3>3 DEF Arrived
    <2>3. DepthInv'
      BY <2>1, WithoutDepth DEF NoDepth
    <2>4. DisplayInv'
      BY <2>1, <2>2 DEF DisplayInv, DisplayFit, Pending, About, host
    <2> QED BY <2>3, <2>4
  <1>11. CASE UNCHANGED vars
    BY <1>11 DEF DepthInv, DisplayInv, DisplayFit, Pending, Arrived, About, vars, host
  <1> QED BY <1>1, <1>2, <1>3, <1>4, <1>5, <1>6, <1>7, <1>8, <1>9, <1>10, <1>11 DEF Next, Depths

\* A depth that reaches the instrument finds it running and is legal for the channels
\* it displays, whatever displays were switched without waiting before it was asked for.
THEOREM DepthReached == Spec => []DepthTaken
  <1>1. Init => DepthInv /\ DisplayInv
    BY DEF Init, DepthInv, DisplayInv
  <1>2. LineInv /\ DepthInv /\ DisplayInv /\ [Next]_vars => DepthInv' /\ DisplayInv'
    BY NextDepth
  <1>3. TypeInv /\ DepthInv => DepthTaken
    <2> SUFFICES ASSUME TypeInv, DepthInv, ~lost, wire # <<>>, Head(wire).op = "MDEP"
                 PROVE  /\ scope.mode = "running"
                        /\ Head(wire).arg \in MemoryDepths[Max({1, Cardinality(scope.on)})]
      BY DEF DepthTaken
    <2>1. wire \in Seq(Sent)
      BY DEF TypeInv, HostTypes
    <2>2. Head(wire) = wire[1] /\ 1 \in DOMAIN wire
      BY <2>1, WireTail
    <2> QED BY <2>2 DEF DepthInv
  <1> QED BY <1>1, <1>2, <1>3, LineInvariant, StreamTypes, PTL DEF Spec

-----------------------------------------------------------------------------
(* Answers to an earlier call are no frame.                                *)

\* The reply to a query is as many lines as were counted for it, or less.
LEMMA ReplyLines ==
    ASSUME TypeInv, Execute, IsQuery(Head(wire))
    PROVE  \E r \in Seq(Bytes) :
              /\ stream' = stream \o r /\ r # <<>> /\ Tidy(r) /\ Lines(r) >= 1
              /\ FewNewlines => Lines(r) <= IF Head(wire).arg[2] = "data" THEN 2 ELSE 1
              /\ Head(wire).arg[2] = "status" => r[1].is = "text" /\ r[1].of[2] = "status"
  <1>1. Head(wire).arg \in Arguments /\ scope \in Scopes
    BY Executes DEF Sent, CommandOK, IsQuery, TypeInv, LineTypes
  <1>2. CASE Head(wire).arg[2] # "data"
    <2> DEFINE r == Line(scope, Head(wire).arg)
    <2>1. stream' = stream \o r
      BY <1>2, Executes
    <2>2. Answer(r) /\ Lines(r) <= 1 /\ r[1].is = "text" /\ r[1].of = Head(wire).arg
      BY <1>1, <1>2, LineReply, LineLines
    <2> HIDE DEF r
    <2>3. r \in Seq(Bytes) /\ r # <<>> /\ Tidy(r) /\ Lines(r) >= 1
      BY <2>2, AnswerLines
    <2> QED BY <1>2, <2>1, <2>2, <2>3, Zenon
  <1>3. CASE Head(wire).arg[2] = "data"
    <2>1. PICK short \in IF scope.raw THEN {{}, {scope.stop}} ELSE {{}} :
             stream' = stream \o Block(scope, Head(wire).arg, Samples(scope) \ short)
      BY <1>3, Executes
    <2>2. short \in {{}, {scope.stop}}
      BY <2>1
    <2>3. PICK a, b \in Nat : a <= b + 1 /\ Samples(scope) \ short = a..b
      BY <1>1, <2>2, SamplesFollow DEF Follow
    <2> DEFINE r == Block(scope, Head(wire).arg, a..b)
    <2>4. stream' = stream \o r
      BY <2>1, <2>3
    <2>5. Answer(r) /\ (FewNewlines => Lines(r) <= 2)
      BY <1>1, <2>3, BlockReply, BlockLines
    <2> HIDE DEF r
    <2>6. r \in Seq(Bytes) /\ r # <<>> /\ Tidy(r) /\ Lines(r) >= 1
      BY <2>5, AnswerLines
    <2>7. "data" # "status"
      OBVIOUS
    <2> QED BY <1>3, <2>4, <2>5, <2>6, <2>7, Zenon
  <1> QED BY <1>2, <1>3

-----------------------------------------------------------------------------
(* After one read that timed out the connection lags. *)

Jammed == lost /\ timeouts <= 1 /\ FewNewlines

\* The replies that are late are one line or two, besides the one that a call waits
\* for.
Overdue(own) ==
    /\ Lines(stream) + Load(wire) <= 2 + own
    /\ ~closed => Tidy(stream) /\ Lines(stream) + Asked(wire) >= 1 + own

\* While a call waits for its status, or for what it asked next, at most n late lines
\* (A, and the replies to the queries X) come before its own status (B, or the reply
\* to the first query of Y).
Behindhand(n, A, B, X, Y) ==
    /\ stream = A \o B /\ wire = X \o Y
    /\ Lines(A) + Load(X) <= n
    /\ ~closed \/ B # <<>> =>
          /\ Tidy(A)
          /\ About = "status" => Lines(A) + Asked(X) >= 1
    /\ B # <<>> => X = <<>> /\ B[1].is = "text" /\ B[1].of[2] = "status"
    /\ B = <<>> /\ ~closed => Y # <<>> /\ IsQuery(Head(Y)) /\ Head(Y).arg[2] = "status"
Lags(n) ==
    \E A, B \in Seq(Bytes), X, Y \in Seq(Sent) : Behindhand(n, A, B, X, Y)

\* So what it takes for its preamble is at best its status.
Lagging ==
    /\ About # "data"
    /\ About = "status" => Lags(2)
    /\ About = "rate" => Lags(1)
    /\ About = "preamble" => Lags(0)

\* What is late, whether a call waits or not.
Late == IF pc = "reply" THEN Overdue(1) /\ Lagging ELSE Overdue(0)

\* A reply in turn is two lines at most; and no frame comes of late ones.
LagInv ==
    /\ lost => timeouts >= 1
    /\ ~lost /\ FewNewlines => Lines(stream) <= 2
    /\ Jammed => Late
    /\ timeouts <= 1 /\ FewNewlines /\ outcome.kind = "frame" => outcome.clean

\* What is on the line is counted.
LEMMA Counts ==
    ASSUME TypeInv
    PROVE  /\ stream \in Seq(Bytes) /\ wire \in Seq(Sent) /\ timeouts \in Nat
           /\ Lines(stream) \in Nat /\ Load(wire) \in Nat /\ Asked(wire) \in Nat
           /\ closed => wire = <<>> /\ Load(wire) = 0
           /\ wire = <<>> => Load(wire) = 0
  <1>1. stream \in Seq(Bytes) /\ wire \in Seq(Sent) /\ timeouts \in Nat /\ (closed => wire = <<>>)
    BY DEF TypeInv, HostTypes, LineTypes
  <1>2. Lines(stream) \in Nat /\ Load(wire) \in Nat /\ Asked(wire) \in Nat
    BY <1>1, LinesCount, LoadJoined
  <1>3. wire = <<>> => Load(wire) = 0
    BY NumberShort DEF Load
  <1> QED BY <1>1, <1>2, <1>3, Zenon

\* A call begins behind the late replies.
LEMMA LagBegins ==
    ASSUME TypeInv, Overdue(0), NEW q \in [op : {"?"}, arg : Arguments],
           q.arg[2] \in {"status", "display"}, query' = q,
           stream' = stream, closed' = closed,
           wire' = IF closed THEN wire ELSE wire \o Append(<<>>, q)
    PROVE  (Overdue(1) /\ Lagging)'
  <1>1. /\ stream \in Seq(Bytes) /\ wire \in Seq(Sent)
        /\ Lines(stream) \in Nat /\ Load(wire) \in Nat /\ Asked(wire) \in Nat
        /\ closed => wire = <<>> /\ Load(wire) = 0
    BY Counts
  <1>2. Append(<<>>, q) = <<q>> /\ <<q>> \in Seq(Sent) /\ q \in Sent /\ <<>> \in Seq(Plain)
    BY OnWire, Commands, LoadOne
  <1>3. ~closed => /\ Asked(wire') = Asked(wire) + 1 /\ Load(wire') = Load(wire) + 1
                   /\ wire' = wire \o <<q>>
    <2>1. q.arg[2] # "data"
      OBVIOUS
    <2>2. /\ Asked(wire \o Append(<<>>, q)) = Asked(wire) + 1
          /\ Load(wire \o Append(<<>>, q)) = Load(wire) + IF q.arg[2] = "data" THEN 2 ELSE 1
      BY <1>1, <1>2, LoadAppend
    <2> QED BY <1>2, <2>1, <2>2
  <1>4. /\ Lines(stream) + Load(wire) <= 2
        /\ ~closed => Tidy(stream) /\ Lines(stream) + Asked(wire) >= 1
    BY DEF Overdue
  <1> HIDE DEF Load, Asked, Lines, Tidy
  <1>5. Overdue(1)'
    <2>1. CASE closed
      <3>1. Lines(stream') + Load(wire') <= 2 + 1
        BY <1>1, <1>4, <2>1
      <3> QED BY <2>1, <3>1 DEF Overdue
    <2>2. CASE ~closed
      <3>1. Lines(stream') + Load(wire') <= 2 + 1 /\ Lines(stream') + Asked(wire') >= 1 + 1
        BY <1>1, <1>3, <1>4, <2>2
      <3> QED BY <1>4, <2>2, <3>1 DEF Overdue
    <2> QED BY <2>1, <2>2
  <1>6. About' = q.arg[2]
    BY DEF About
  <1>7. ASSUME About' = "status" PROVE Lags(2)'
    <2>1. <<>> \in Seq(Bytes) /\ <<>> \in Seq(Sent) /\ stream' = stream \o <<>>
      BY <1>1, EmptySeq, ConcatEmptySeq
    <2>2. CASE closed
      <3>1. wire' = <<>> /\ wire' = wire \o <<>> /\ Lines(stream) + Load(wire) <= 2
        BY <1>1, <1>4, <2>2, ConcatEmptySeq
      <3>2. closed'
        BY <2>2
      <3>3. PICK A \in Seq(Bytes), X \in Seq(Sent) : A = stream /\ X = wire
        BY <1>1
      <3>4. stream' = A \o <<>> /\ wire' = X \o <<>> /\ Lines(A) + Load(X) <= 2
        BY <2>1, <3>1, <3>3
      <3>5. Behindhand(2, A, <<>>, X, <<>>)'
        BY <3>2, <3>4 DEF Behindhand
      <3> QED BY <2>1, <3>5, Zenon DEF Lags
    <2>3. CASE ~closed
      <3>1. wire' = wire \o <<q>> /\ <<q>> # <<>> /\ Head(<<q>>) = q /\ IsQuery(q) /\ q.arg[2] = "status"
        BY <1>3, <1>6, <1>7, <2>3 DEF IsQuery
      <3>2. Tidy(stream) /\ Lines(stream) + Asked(wire) >= 1 /\ Lines(stream) + Load(wire) <= 2
        BY <1>4, <2>3
      <3>3. PICK A \in Seq(Bytes), X \in Seq(Sent) : A = stream /\ X = wire
        BY <1>1
      <3>4. /\ stream' = A \o <<>> /\ wire' = X \o <<q>> /\ Tidy(A)
            /\ Lines(A) + Asked(X) >= 1 /\ Lines(A) + Load(X) <= 2
        BY <2>1, <3>1, <3>2, <3>3
      <3>5. Behindhand(2, A, <<>>, X, <<q>>)'
        BY <3>1, <3>4 DEF Behindhand
      <3> QED BY <1>2, <2>1, <3>5, Zenon DEF Lags
    <2> QED BY <2>2, <2>3
  <1>8. About' # "data" /\ About' # "rate" /\ About' # "preamble"
    BY <1>6
  <1> QED BY <1>5, <1>7, <1>8 DEF Lagging

\* A line that is read is its first byte, if that is a text.
LEMMA FirstRead ==
    ASSUME NEW s \in Seq(Bytes), s # <<>>, s[1].is = "text", LineOf(s).got # <<>>
    PROVE  LineOf(s).got[1] = s[1]
  <1>1. Len(s) \in Nat /\ DOMAIN s = 1..Len(s) /\ Len(s) >= 1 /\ s[1] \in Bytes
    BY LenProperties, EmptySeq, ElementOfSeq
  <1>2. CASE LineEnds(s) = {}
    BY <1>2, LineFacts
  <1>3. CASE LineEnds(s) # {}
    <2> DEFINE m == Min(LineEnds(s))
    <2>1. m \in LineEnds(s)
      <3>1. LineEnds(s) \in SUBSET Nat
        BY <1>1 DEF LineEnds
      <3> QED BY <1>3, <3>1, MinIsLeast
    <2>2. m \in 2..Len(s)
      <3>1. m \in 1..Len(s) /\ EndsLine(s[m])
        BY <1>1, <2>1 DEF LineEnds
      <3>2. ~EndsLine(s[1])
        BY DEF EndsLine
      <3> QED BY <3>1, <3>2
    <2>3. LineOf(s).got = SubSeq(s, 1, m - 1)
      BY <1>3 DEF LineOf
    <2> HIDE DEF m
    <2> DEFINE n == m - 1
    <2>4. n \in 1..Len(s) /\ n \in 0..Len(s)
      BY <1>1, <2>2
    <2> HIDE DEF n
    <2>5. SubSeq(s, 1, n)[1] = s[1]
      <3>1. \A i \in 1..n : SubSeq(s, 1, n)[i] = s[i]
        BY <2>4, SplitAt
      <3>2. 1 \in 1..n
        BY <2>4
      <3> QED BY <3>1, <3>2
    <2> QED BY <2>3, <2>5 DEF n
  <1> QED BY <1>2, <1>3

\* A line that is read leaves one line less to come.
LEMMA LagReads ==
    ASSUME TypeInv, Overdue(1), About # "data", Reply.is # "wait", stream' = Reply.rest
    PROVE  /\ stream' \in Seq(Bytes)
           /\ Lines(stream') + Load(wire) <= 2
           /\ ~closed => Tidy(stream') /\ Lines(stream') + Asked(wire) >= 1
  <1>1. /\ stream \in Seq(Bytes) /\ wire \in Seq(Sent)
        /\ Lines(stream) \in Nat /\ Load(wire) \in Nat /\ Asked(wire) \in Nat
        /\ closed => wire = <<>> /\ Load(wire) = 0
    BY Counts
  <1>2. /\ Lines(stream) + Load(wire) <= 3
        /\ ~closed => Tidy(stream) /\ Lines(stream) + Asked(wire) >= 2
    BY DEF Overdue
  <1>3. stream' = LineOf(stream).rest /\ LineOf(stream).is # "wait"
    BY DEF Reply, ReplyIn
  <1>4. CASE stream = <<>>
    <2>1. LineEnds(stream) = {}
      BY <1>4 DEF LineEnds
    <2>2. closed /\ stream' = <<>>
      BY <1>1, <1>3, <2>1, LineFacts
    <2>3. Lines(<<>>) = 0 /\ <<>> \in Seq(Bytes)
      BY EmptySeq, LinesCount
    <2> HIDE DEF Lines, Load
    <2> QED BY <1>1, <2>2, <2>3
  <1>5. CASE stream # <<>>
    <2>1. <<>> \in Seq(Bytes) /\ stream \o <<>> = stream
      BY <1>1, EmptySeq, ConcatEmptySeq
    <2>2. PICK r \in Seq(Bytes) :
             /\ LineOf(stream \o <<>>).rest = r \o <<>>
             /\ Lines(r) = Lines(stream) - 1 /\ (Tidy(stream) => Tidy(r))
      BY <1>1, <1>5, <2>1, LineRead
    <2>3. stream' = r
      BY <1>3, <2>1, <2>2, ConcatEmptySeq
    <2> HIDE DEF Lines, Load, Asked, Tidy
    <2>4. /\ Lines(r) + Load(wire) <= 2
          /\ ~closed => Tidy(r) /\ Lines(r) + Asked(wire) >= 1
      BY <1>1, <1>2, <2>2
    <2> QED BY <2>3, <2>4
  <1> QED BY <1>4, <1>5

\* A call that ends.
LEMMA LagEnds ==
    ASSUME TypeInv, stream' \in Seq(Bytes), closed' = closed,
           Lines(stream') + Load(wire) <= 2,
           ~closed => Tidy(stream') /\ Lines(stream') + Asked(wire) >= 1,
           NEW kind, NEW done, NEW commands \in Seq(Plain), End(kind, done, commands)
    PROVE  pc' = "idle" /\ Overdue(0)'
  <1>1. wire \in Seq(Sent) /\ commands \in Seq(Sent) /\ Load(commands) = 0 /\ Asked(commands) = 0
    BY Counts, PlainCommands, LoadPlain
  <1>2. wire' = IF closed THEN wire ELSE wire \o commands
    BY DEF End
  <1>3. Load(wire \o commands) = Load(wire) + 0 /\ Asked(wire \o commands) = Asked(wire) + 0
        /\ Load(wire) \in Nat /\ Asked(wire) \in Nat
    BY <1>1, LoadJoined
  <1> HIDE DEF Load, Asked
  <1>4. Load(wire') = Load(wire) /\ Asked(wire') = Asked(wire)
    BY <1>2, <1>3
  <1>5. Overdue(0)'
    BY <1>4 DEF Overdue
  <1> QED BY <1>5 DEF End

\* A call that asks for more.
LEMMA LagAsks ==
    ASSUME TypeInv, stream' \in Seq(Bytes), closed' = closed,
           Lines(stream') + Load(wire) <= 2,
           ~closed => Tidy(stream') /\ Lines(stream') + Asked(wire) >= 1,
           NEW commands \in Seq(Plain), NEW about \in Abouts \ {"data"}, NEW ch \in 0..NumChannels,
           NEW doing \in Jobs, Ask(commands, about, ch, doing)
    PROVE  \/ pc' = "idle" /\ Overdue(0)'
           \/ /\ pc' = "reply" /\ About' = about /\ Overdue(1)'
              /\ \E t \in Seq(Sent) : wire' = IF closed THEN wire ELSE wire \o t
  <1>1. CASE End("OSError", doing, <<>>)
    <2>1. <<>> \in Seq(Plain)
      BY EmptySeq
    <2> QED BY <1>1, <2>1, LagEnds
  <1>2. CASE /\ query' = Query(doing.call, about, ch) /\ pc' = "reply"
             /\ wire' = IF closed THEN wire ELSE wire \o Append(commands, query')
    <2>1. query' \in [op : {"?"}, arg : Arguments] /\ query'.arg[2] = about
      BY <1>2, QueryTypes
    <2>2. wire \in Seq(Sent) /\ Load(wire) \in Nat /\ Asked(wire) \in Nat
          /\ (closed => Load(wire) = 0)
      BY Counts
    <2>3. /\ Append(commands, query') \in Seq(Sent)
          /\ Asked(wire \o Append(commands, query')) = Asked(wire) + 1
          /\ Load(wire \o Append(commands, query')) = Load(wire) + 1
      <3>1. PICK q \in [op : {"?"}, arg : Arguments] : q = query'
        BY <2>1
      <3>2. q.arg[2] # "data"
        BY <2>1, <3>1
      <3>3. /\ Append(commands, q) \in Seq(Sent)
            /\ Asked(wire \o Append(commands, q)) = Asked(wire) + 1
            /\ Load(wire \o Append(commands, q)) = Load(wire) + IF q.arg[2] = "data" THEN 2 ELSE 1
        BY <2>2, LoadAppend
      <3> QED BY <3>1, <3>2, <3>3
    <2> DEFINE L == Lines(stream')
    <2>4. L \in Nat
      BY LinesCount
    <2> HIDE DEF Load, Asked, Lines, L
    <2>5. Overdue(1)'
      <3>1. CASE closed
        <4>1. Lines(stream') + Load(wire') <= 2 + 1
          BY <1>2, <2>2, <2>4, <3>1 DEF L
        <4> QED BY <3>1, <4>1 DEF Overdue
      <3>2. CASE ~closed
        <4>1. L + Load(wire) <= 2 /\ L + Asked(wire) >= 1 /\ Tidy(stream')
          BY <3>2 DEF L
        <4>2. Load(wire') = Load(wire) + 1 /\ Asked(wire') = Asked(wire) + 1
          BY <1>2, <2>3, <3>2
        <4>3. L + Load(wire') <= 2 + 1 /\ L + Asked(wire') >= 1 + 1
          BY <2>2, <2>4, <4>1, <4>2
        <4> QED BY <4>1, <4>3 DEF Overdue, L
      <3> QED BY <3>1, <3>2
    <2>6. About' = about
      BY <2>1 DEF About
    <2>7. \E t \in Seq(Sent) : wire' = IF closed THEN wire ELSE wire \o t
      BY <1>2, <2>3
    <2> QED BY <1>2, <2>5, <2>6, <2>7
  <1> QED BY <1>1, <1>2 DEF Ask

\* What is not a status is none of the own replies: a late line comes before them.
LEMMA LateFirst ==
    ASSUME TypeInv, About # "data", NEW S, "status" \notin S, Parses(S),
           NEW A \in Seq(Bytes), NEW B \in Seq(Bytes), stream = A \o B,
           B # <<>> => B[1].is = "text" /\ B[1].of[2] = "status"
    PROVE  A # <<>>
  <1> SUFFICES ASSUME A = <<>> PROVE FALSE
    OBVIOUS
  <1>1. stream = B
    BY ConcatEmptySeq
  <1>2. /\ LineOf(B).got # <<>> /\ LineOf(B).got[1].of[2] \in S
    <2>1. Reply = LineOf(B)
      BY <1>1 DEF Reply, ReplyIn
    <2>2. Len(Reply.got) = 1 /\ Reply.got[1].of[2] \in S
      BY DEF Parses
    <2>3. Len(<<>>) = 0 /\ 0 # 1
      OBVIOUS
    <2> QED BY <2>1, <2>2, <2>3, Zenon
  <1>3. CASE B = <<>>
    <2>1. LineEnds(B) = {}
      BY <1>3 DEF LineEnds
    <2>2. LineOf(B).got = B
      BY <2>1, LineFacts
    <2> QED BY <1>2, <1>3, <2>2
  <1>4. CASE B # <<>>
    <2>1. LineOf(B).got[1] = B[1]
      BY <1>2, <1>4, FirstRead
    <2> QED BY <1>2, <1>4, <2>1
  <1> QED BY <1>3, <1>4

\* A late line that is read brings the own replies nearer.
LEMMA LagsRead ==
    ASSUME TypeInv, NEW n \in 1..2, Lags(n), NEW S, Parses(S),
           \/ About = "status"
           \/ About = "rate" /\ "status" \notin S,
           Reply.is # "wait", stream' = Reply.rest, closed' = closed,
           NEW t \in Seq(Sent), wire' = IF closed THEN wire ELSE wire \o t, About' # "status"
    PROVE  Lags(n - 1)'
  <1>1. PICK A, B \in Seq(Bytes), X, Y \in Seq(Sent) :
            /\ stream = A \o B /\ wire = X \o Y
            /\ Lines(A) + Load(X) <= n
            /\ ~closed \/ B # <<>> =>
                  /\ Tidy(A)
                  /\ About = "status" => Lines(A) + Asked(X) >= 1
            /\ B # <<>> => X = <<>> /\ B[1].is = "text" /\ B[1].of[2] = "status"
            /\ B = <<>> /\ ~closed => Y # <<>> /\ IsQuery(Head(Y)) /\ Head(Y).arg[2] = "status"
    BY Zenon DEF Lags, Behindhand
  <1>2. stream' = LineOf(stream).rest /\ LineOf(stream).is # "wait" /\ About # "data"
    BY DEF Reply, ReplyIn
  <1>3. /\ Lines(A) \in Nat /\ Load(X) \in Nat /\ Asked(X) \in Nat /\ Asked(X) <= Load(X)
        /\ Lines(<<>>) = 0 /\ Asked(<<>>) = 0 /\ Load(<<>>) = 0
        /\ <<>> \in Seq(Bytes) /\ <<>> \in Seq(Sent) /\ closed \in BOOLEAN
    <2>1. <<>> \in Seq(Bytes) /\ <<>> \in Seq(Sent)
      BY EmptySeq
    <2>2. Asked(<<>>) = 0 /\ Load(<<>>) = 0
      BY NumberShort DEF Asked, Load
    <2> QED BY <2>1, <2>2, LinesCount, LoadJoined DEF TypeInv, LineTypes
  <1>4. A # <<>>
    <2>1. CASE About = "rate"
      BY <1>1, <1>2, <2>1, LateFirst
    <2>2. CASE About = "status"
      <3> SUFFICES ASSUME A = <<>> PROVE FALSE
        OBVIOUS
      <3>1. B = <<>>
        <4> SUFFICES ASSUME B # <<>> PROVE FALSE
          OBVIOUS
        <4>1. X = <<>> /\ Lines(A) + Asked(X) >= 1
          BY <1>1, <2>2
        <4>2. Lines(A) = 0 /\ Asked(X) = 0
          BY <1>3, <4>1
        <4> QED BY <4>1, <4>2
      <3>2. stream = <<>>
        BY <1>1, <3>1, ConcatEmptySeq
      <3>3. LineEnds(stream) = {} /\ stream \in Seq(Bytes)
        BY <3>2, Counts DEF LineEnds
      <3>4. Reply.got = <<>>
        BY <3>2, <3>3, <1>2, LineFacts DEF Reply, ReplyIn
      <3>5. Len(Reply.got) = 1
        BY DEF Parses
      <3>6. Len(<<>>) = 0 /\ 0 # 1
        OBVIOUS
      <3> QED BY <3>4, <3>5, <3>6, Zenon
    <2> QED BY <2>1, <2>2
  <1>5. PICK r \in Seq(Bytes) :
           LineOf(A \o B).rest = r \o B /\ Lines(r) = Lines(A) - 1 /\ (Tidy(A) => Tidy(r))
    <2>1. B = <<>> \/ Tidy(A)
      BY <1>1
    <2> QED BY <1>4, <2>1, LineRead
  <1>6. stream' = r \o B /\ Lines(r) + Load(X) <= n - 1
    <2>1. stream' = r \o B
      BY <1>1, <1>2, <1>5
    <2>2. Lines(r) = Lines(A) - 1
      BY <1>5
    <2> HIDE DEF Lines, Load
    <2>3. Lines(r) + Load(X) <= n - 1
      BY <1>1, <1>3, <2>2
    <2> QED BY <2>1, <2>3
  <1>7. CASE closed
    <2>1. wire' = X \o Y /\ closed'
      BY <1>1, <1>7
    <2>2. /\ B # <<>> => Tidy(r) /\ X = <<>> /\ B[1].is = "text" /\ B[1].of[2] = "status"
          /\ closed' /\ About' # "status"
      BY <1>1, <1>5, <1>7
    <2> HIDE DEF Lines, Load, Asked, Tidy
    <2>3. Behindhand(n - 1, r, B, X, Y)'
      BY <1>6, <2>1, <2>2 DEF Behindhand
    <2> QED BY <2>3, Zenon DEF Lags
  <1>8. CASE ~closed
    <2>1. wire' = X \o (Y \o t) /\ Y \o t \in Seq(Sent)
      <3>1. wire' = (X \o Y) \o t
        BY <1>1, <1>8
      <3>2. Y \o t \in Seq(Sent)
        BY Joined
      <3> QED BY <3>1, <3>2, Regrouped, Zenon
    <2>2. B = <<>> => Y \o t # <<>> /\ IsQuery(Head(Y \o t)) /\ Head(Y \o t).arg[2] = "status"
      <3>1. Y # <<>> => Y \o t # <<>> /\ Head(Y \o t) = Head(Y)
        BY TailJoined
      <3> QED BY <1>1, <1>8, <3>1
    <2>3. ~closed' /\ Tidy(r)
      BY <1>1, <1>5, <1>8
    <2>4. (B # <<>> => X = <<>> /\ B[1].is = "text" /\ B[1].of[2] = "status") /\ About' # "status"
      BY <1>1
    <2> HIDE DEF Lines, Load, Asked, Tidy
    <2>5. Behindhand(n - 1, r, B, X, Y \o t)'
      BY <1>6, <2>1, <2>2, <2>3, <2>4 DEF Behindhand
    <2> QED BY <2>1, <2>5, Zenon DEF Lags
  <1> QED BY <1>3, <1>7, <1>8

\* No preamble comes.
LEMMA LagsPreamble ==
    ASSUME TypeInv, Lags(0), About = "preamble", Parses({"preamble"})
    PROVE  FALSE
  <1>1. PICK A, B \in Seq(Bytes), X, Y \in Seq(Sent) :
            /\ stream = A \o B
            /\ Lines(A) + Load(X) <= 0
            /\ B # <<>> => B[1].is = "text" /\ B[1].of[2] = "status"
    BY Zenon DEF Lags, Behindhand
  <1>2. A # <<>>
    <2>1. "status" \notin {"preamble"} /\ About # "data"
      OBVIOUS
    <2> QED BY <1>1, <2>1, LateFirst
  <1>3. Lines(A) >= 1 /\ Lines(A) \in Nat /\ Load(X) \in Nat
    BY <1>2, LinesCount, LoadJoined
  <1> HIDE DEF Lines, Load
  <1> QED BY <1>1, <1>3

\* The instrument answers what is late, and then the status of the call.
LEMMA LagsExecute ==
    ASSUME TypeInv, NEW n \in 0..2, Lags(n), FewNewlines, Execute
    PROVE  Lags(n)'
  <1>1. /\ ~closed /\ wire # <<>> /\ wire' = Tail(wire) /\ wire \in Seq(Sent)
        /\ closed' = closed /\ query' = query /\ Tail(wire) \in Seq(Sent) /\ stream \in Seq(Bytes)
    BY Executes, Counts DEF Execute, host
  <1>2. About' = About /\ ~closed'
    BY <1>1 DEF About
  <1>3. ~IsQuery(Head(wire)) => stream' = stream
    BY Executes
  <1>4. PICK r \in Seq(Bytes) :
           IsQuery(Head(wire)) =>
              /\ stream' = stream \o r /\ r # <<>> /\ Tidy(r) /\ Lines(r) >= 1
              /\ Lines(r) <= IF Head(wire).arg[2] = "data" THEN 2 ELSE 1
              /\ Head(wire).arg[2] = "status" => r[1].is = "text" /\ r[1].of[2] = "status"
    <2>1. CASE IsQuery(Head(wire))
      BY <2>1, ReplyLines
    <2>2. CASE ~IsQuery(Head(wire))
      BY <1>1, <2>2
    <2> QED BY <2>1, <2>2
  <1>5. PICK A, B \in Seq(Bytes), X, Y \in Seq(Sent) :
            /\ stream = A \o B /\ wire = X \o Y
            /\ Lines(A) + Load(X) <= n
            /\ Tidy(A) /\ (About = "status" => Lines(A) + Asked(X) >= 1)
            /\ B # <<>> => X = <<>> /\ B[1].is = "text" /\ B[1].of[2] = "status"
            /\ B = <<>> => Y # <<>> /\ IsQuery(Head(Y)) /\ Head(Y).arg[2] = "status"
    BY <1>1, Zenon DEF Lags, Behindhand
  <1>6. <<>> \in Seq(Bytes) /\ <<>> \in Seq(Sent)
    BY EmptySeq
  <1>7. CASE X # <<>>
    <2>1. B = <<>> /\ stream = A
      BY <1>5, <1>7, ConcatEmptySeq
    <2>2. /\ Head(wire) = Head(X) /\ wire' = Tail(X) \o Y /\ Tail(X) \in Seq(Sent)
          /\ Asked(X) = (IF IsQuery(Head(X)) THEN 1 ELSE 0) + Asked(Tail(X))
          /\ Load(X) = (IF IsQuery(Head(X)) THEN IF Head(X).arg[2] = "data" THEN 2 ELSE 1 ELSE 0)
                           + Load(Tail(X))
      BY <1>1, <1>5, <1>7, TailJoined, LoadHead
    <2>3. Load(Tail(X)) \in Nat /\ Asked(Tail(X)) \in Nat /\ Lines(A) \in Nat
      BY <2>2, LoadJoined, LinesCount
    <2>4. CASE ~IsQuery(Head(wire))
      <3>1. Load(Tail(X)) = Load(X) /\ Asked(Tail(X)) = Asked(X)
        <4> HIDE DEF Load, Asked
        <4> QED BY <2>2, <2>3, <2>4
      <3>2. stream' = A \o B
        BY <1>3, <1>5, <2>4
      <3>3. Lines(A) + Load(Tail(X)) <= n /\ (About = "status" => Lines(A) + Asked(Tail(X)) >= 1)
        BY <1>5, <3>1
      <3>4. Tidy(A) /\ Y # <<>> /\ IsQuery(Head(Y)) /\ Head(Y).arg[2] = "status" /\ wire' = Tail(X) \o Y
        BY <1>5, <2>1, <2>2
      <3> HIDE DEF Lines, Load, Asked, Tidy
      <3>5. Behindhand(n, A, B, Tail(X), Y)'
        BY <1>2, <2>1, <3>2, <3>3, <3>4 DEF Behindhand
      <3> QED BY <2>2, <3>5, Zenon DEF Lags
    <2>5. CASE IsQuery(Head(wire))
      <3>1. /\ A \o r \in Seq(Bytes) /\ Lines(A \o r) = Lines(A) + Lines(r) /\ Tidy(A \o r)
            /\ Lines(r) \in Nat
        BY <1>4, <1>5, <2>5, LinesJoined, LinesCount
      <3>2. stream' = (A \o r) \o <<>>
        BY <1>4, <2>1, <2>5, <3>1, ConcatEmptySeq
      <3>3. Lines(A \o r) + Load(Tail(X)) <= n
            /\ (About' = "status" => Lines(A \o r) + Asked(Tail(X)) >= 1)
        <4>1. Lines(r) >= 1 /\ Lines(r) <= IF Head(X).arg[2] = "data" THEN 2 ELSE 1
          BY <1>4, <2>2, <2>5
        <4>2. Load(X) = (IF Head(X).arg[2] = "data" THEN 2 ELSE 1) + Load(Tail(X))
          BY <2>2, <2>5
        <4>3. Lines(A) + Load(X) <= n
          BY <1>5
        <4> DEFINE m == IF Head(X).arg[2] = "data" THEN 2 ELSE 1
        <4>4. m \in Nat /\ Lines(r) <= m /\ Load(X) = m + Load(Tail(X))
          BY <4>1, <4>2
        <4> HIDE DEF Load, Asked, Lines, m
        <4>5. PICK a \in Nat, b \in Nat, k \in Nat, l \in Nat :
                 a = Lines(A) /\ b = Lines(r) /\ k = Asked(Tail(X)) /\ l = Load(Tail(X))
          BY <2>3, <3>1
        <4>6. Lines(A \o r) = a + b /\ b >= 1 /\ b <= m /\ a + (m + l) <= n
          BY <3>1, <4>1, <4>3, <4>4, <4>5
        <4>7. a + b + l <= n /\ a + b + k >= 1
          BY <4>4, <4>6
        <4> QED BY <4>5, <4>6, <4>7
      <3>4. Y # <<>> /\ IsQuery(Head(Y)) /\ Head(Y).arg[2] = "status"
        BY <1>5, <2>1
      <3>5. Tidy(A \o r) /\ wire' = Tail(X) \o Y
        BY <2>2, <3>1
      <3> HIDE DEF Lines, Load, Asked, Tidy
      <3>6. Behindhand(n, A \o r, <<>>, Tail(X), Y)'
        BY <3>2, <3>3, <3>4, <3>5 DEF Behindhand
      <3> QED BY <1>6, <2>2, <3>1, <3>6, Zenon DEF Lags
    <2> QED BY <2>4, <2>5
  <1>8. CASE X = <<>>
    <2>1. wire = Y /\ Y # <<>> /\ wire' = <<>> \o Tail(Y) /\ Tail(Y) \in Seq(Sent)
      BY <1>1, <1>5, <1>8, ConcatEmptySeq
    <2>2. CASE ~IsQuery(Head(wire))
      <3>1. B # <<>> /\ stream' = A \o B /\ wire' = X \o Tail(Y)
        BY <1>3, <1>5, <1>8, <2>1, <2>2
      <3>2. B[1].is = "text" /\ B[1].of[2] = "status" /\ (About' = "status" => Lines(A) + Asked(X) >= 1)
        BY <1>2, <1>5, <3>1
      <3>3. Tidy(A) /\ X = <<>> /\ Lines(A) + Load(X) <= n
        BY <1>5, <1>8
      <3> HIDE DEF Lines, Load, Asked, Tidy
      <3>4. Behindhand(n, A, B, X, Tail(Y))'
        BY <3>1, <3>2, <3>3 DEF Behindhand
      <3> QED BY <2>1, <3>4, Zenon DEF Lags
    <2>3. CASE IsQuery(Head(wire)) /\ B # <<>>
      <3>1. B \o r \in Seq(Bytes) /\ B \o r # <<>> /\ (B \o r)[1] = B[1] /\ stream' = A \o (B \o r)
        <4>1. B \o r \in Seq(Bytes) /\ Len(B \o r) = Len(B) + Len(r)
              /\ \A i \in 1..Len(B) : (B \o r)[i] = B[i]
          BY Joined
        <4>2. Len(B) \in Nat \ {0} /\ Len(r) \in Nat
          BY <2>3, LenProperties, EmptySeq
        <4>3. (B \o r)[1] = B[1] /\ Len(B \o r) # 0
          BY <4>1, <4>2
        <4>4. B \o r # <<>>
          BY <4>1, <4>3, EmptySeq
        <4>5. stream' = (A \o B) \o r
          BY <1>4, <1>5, <2>3
        <4> QED BY <4>1, <4>3, <4>4, <4>5, BytesRegrouped, Zenon
      <3>2. (B \o r)[1].is = "text" /\ (B \o r)[1].of[2] = "status" /\ wire' = X \o Tail(Y)
            /\ (About' = "status" => Lines(A) + Asked(X) >= 1) /\ Lines(A) + Load(X) <= n /\ Tidy(A)
            /\ X = <<>> /\ Tail(Y) \in Seq(Sent)
        BY <1>2, <1>5, <1>8, <2>1, <2>3, <3>1
      <3> HIDE DEF Lines, Load, Asked, Tidy
      <3>3. Behindhand(n, A, B \o r, X, Tail(Y))'
        BY <3>1, <3>2 DEF Behindhand
      <3> QED BY <3>1, <3>2, <3>3, Zenon DEF Lags
    <2>4. CASE IsQuery(Head(wire)) /\ B = <<>>
      <3>1. stream' = A \o r
        BY <1>4, <1>5, <2>4, ConcatEmptySeq
      <3>2. Head(wire).arg[2] = "status" /\ r # <<>> /\ r[1].is = "text" /\ r[1].of[2] = "status"
        BY <1>4, <1>5, <2>1, <2>4
      <3>3. wire' = X \o Tail(Y) /\ (About' = "status" => Lines(A) + Asked(X) >= 1)
            /\ Lines(A) + Load(X) <= n /\ Tidy(A)
        BY <1>2, <1>5, <1>8, <2>1
      <3> HIDE DEF Lines, Load, Asked, Tidy
      <3>4. Behindhand(n, A, r, X, Tail(Y))'
        BY <1>8, <3>1, <3>2, <3>3 DEF Behindhand
      <3> QED BY <2>1, <3>4, Zenon DEF Lags
    <2> QED BY <2>2, <2>3, <2>4
  <1> QED BY <1>7, <1>8

\* A command that is executed, or a query that is answered, is no line more and no
\* reply less.
LEMMA OverdueExecute ==
    ASSUME TypeInv, FewNewlines, NEW own \in 0..1, Overdue(own), Execute
    PROVE  Overdue(own)'
  <1>1. /\ ~closed /\ wire # <<>> /\ wire' = Tail(wire) /\ wire \in Seq(Sent)
        /\ closed' = closed /\ Tail(wire) \in Seq(Sent) /\ stream \in Seq(Bytes)
        /\ Lines(stream) \in Nat
    BY Executes, Counts DEF Execute
  <1>2. /\ Asked(wire) = (IF IsQuery(Head(wire)) THEN 1 ELSE 0) + Asked(wire')
        /\ Load(wire) = (IF IsQuery(Head(wire)) THEN IF Head(wire).arg[2] = "data" THEN 2 ELSE 1 ELSE 0)
                           + Load(wire')
        /\ Load(wire') \in Nat /\ Asked(wire') \in Nat
    BY <1>1, LoadHead, LoadJoined
  <1>3. Lines(stream) + Load(wire) <= 2 + own /\ Tidy(stream) /\ Lines(stream) + Asked(wire) >= 1 + own
    BY <1>1 DEF Overdue
  <1>4. CASE ~IsQuery(Head(wire))
    <2>1. stream' = stream
      BY <1>4, Executes
    <2> HIDE DEF Load, Asked, Lines
    <2>2. Lines(stream') + Load(wire') <= 2 + own /\ Lines(stream') + Asked(wire') >= 1 + own
      <3>1. Load(wire') = Load(wire) /\ Asked(wire') = Asked(wire)
        BY <1>2, <1>4
      <3> QED BY <1>3, <2>1, <3>1
    <2> QED BY <1>3, <2>1, <2>2 DEF Overdue
  <1>5. CASE IsQuery(Head(wire))
    <2>1. PICK r \in Seq(Bytes) :
             /\ stream' = stream \o r /\ r # <<>> /\ Tidy(r) /\ Lines(r) >= 1
             /\ Lines(r) <= IF Head(wire).arg[2] = "data" THEN 2 ELSE 1
      BY <1>5, ReplyLines
    <2>2. Lines(stream') = Lines(stream) + Lines(r) /\ Tidy(stream') /\ Lines(r) \in Nat
      BY <1>1, <1>3, <2>1, LinesJoined, LinesCount
    <2> DEFINE m == IF Head(wire).arg[2] = "data" THEN 2 ELSE 1
               L == Lines(stream')
    <2>3. m \in Nat /\ Lines(r) <= m /\ Load(wire) = m + Load(wire') /\ Asked(wire) = 1 + Asked(wire')
          /\ L = Lines(stream) + Lines(r)
      BY <1>2, <1>5, <2>1, <2>2
    <2> HIDE DEF Load, Asked, Lines, m, L
    <2>4. L + Load(wire') <= 2 + own /\ L + Asked(wire') >= 1 + own
      <3>1. PICK s \in Nat, a \in Nat, l \in Nat, k \in Nat :
               s = Lines(stream) /\ a = Asked(wire') /\ l = Load(wire') /\ k = Lines(r)
        BY <1>1, <1>2, <2>2
      <3>2. L = s + k /\ k >= 1 /\ k <= m /\ s + (m + l) <= 2 + own /\ s + (1 + a) >= 1 + own
        BY <1>3, <2>1, <2>3, <3>1
      <3>3. s + k + l <= 2 + own /\ s + k + a >= 1 + own
        BY <2>3, <3>2
      <3> QED BY <3>1, <3>2, <3>3
    <2> QED BY <2>2, <2>4 DEF Overdue, L
  <1> QED BY <1>4, <1>5

\* Nothing moves.
LEMMA LagsStay ==
    ASSUME NEW n, Lags(n), About' = About,
           stream' = stream, wire' = wire, closed' = closed
    PROVE  Lags(n)'
  <1>1. PICK A, B \in Seq(Bytes), X, Y \in Seq(Sent) : Behindhand(n, A, B, X, Y)
    BY DEF Lags
  <1> HIDE DEF Lines, Load, Asked, Tidy
  <1>2. Behindhand(n, A, B, X, Y)'
    BY <1>1 DEF Behindhand
  <1> QED BY <1>2, Zenon DEF Lags

\* What is cut off was no line more.
LEMMA HangupCounts ==
    ASSUME TypeInv, Hangup
    PROVE  /\ closed' = TRUE /\ wire' = <<>> /\ Lines(stream') <= Lines(stream) /\ Lines(stream') \in Nat
           /\ \A own \in 0..1 : Overdue(own) => Overdue(own)'
  <1>1. closed' = TRUE /\ wire' = <<>>
    BY DEF Hangup
  <1>2. PICK n \in 0..Len(stream) : stream' = SubSeq(stream, 1, n)
    BY DEF Hangup
  <1>3. /\ stream \in Seq(Bytes) /\ Lines(stream) \in Nat /\ Load(wire) \in Nat
    BY Counts
  <1>4. Lines(stream') <= Lines(stream) /\ Lines(stream') \in Nat
    BY <1>2, <1>3, LinesOfPart, LinesCount
  <1>5. Load(<<>>) = 0
    BY NumberShort DEF Load
  <1>6. ASSUME NEW own \in 0..1, Overdue(own) PROVE Overdue(own)'
    <2>1. Lines(stream) + Load(wire) <= 2 + own
      BY <1>6 DEF Overdue
    <2> DEFINE L == Lines(stream')
    <2>2. L <= Lines(stream) /\ L \in Nat
      BY <1>4
    <2> HIDE DEF Load, Lines, L
    <2>3. L + Load(<<>>) <= 2 + own
      BY <1>3, <1>5, <2>1, <2>2
    <2> QED BY <1>1, <2>3 DEF Overdue, L
  <1> QED BY <1>1, <1>4, <1>6

\* What is cut off was late, or followed what is late.
LEMMA LagsHangup ==
    ASSUME TypeInv, NEW n \in 0..2, Lags(n), Hangup
    PROVE  Lags(n)'
  <1>1. closed' /\ wire' = <<>> /\ query' = query /\ stream \in Seq(Bytes)
    BY Counts DEF Hangup, host
  <1>2. About' = About
    BY <1>1 DEF About
  <1>3. PICK cut \in 0..Len(stream) : stream' = SubSeq(stream, 1, cut)
    BY DEF Hangup
  <1>4. PICK A, B \in Seq(Bytes), X, Y \in Seq(Sent) :
            /\ stream = A \o B /\ Lines(A) + Load(X) <= n
            /\ B # <<>> => Tidy(A) /\ (About = "status" => Lines(A) + Asked(X) >= 1)
            /\ B # <<>> => X = <<>> /\ B[1].is = "text" /\ B[1].of[2] = "status"
    BY Zenon DEF Lags, Behindhand
  <1>5. /\ <<>> \in Seq(Bytes) /\ <<>> \in Seq(Sent) /\ <<>> \o <<>> = <<>>
        /\ Len(A) \in Nat /\ Len(B) \in Nat /\ Len(stream) = Len(A) + Len(B)
        /\ Load(<<>>) = 0 /\ Load(X) \in Nat
    <2>1. <<>> \in Seq(Bytes) /\ <<>> \in Seq(Sent) /\ <<>> \o <<>> = <<>>
      BY EmptySeq, ConcatEmptySeq
    <2>2. Len(A) \in Nat /\ Len(B) \in Nat /\ Len(stream) = Len(A) + Len(B)
      BY <1>4, Joined, LenProperties
    <2>3. Load(<<>>) = 0
      BY NumberShort DEF Load
    <2> QED BY <2>1, <2>2, <2>3, LoadJoined
  <1>6. CASE cut <= Len(A)
    <2> DEFINE a == SubSeq(A, 1, cut)
    <2>1. cut \in 0..Len(A)
      BY <1>5, <1>6
    <2>2. a \in Seq(Bytes) /\ Lines(a) <= Lines(A) /\ Lines(a) \in Nat /\ Lines(A) \in Nat
      BY <2>1, LinesOfPart, LinesCount
    <2>3. stream' = a
      <3>1. Len(a) = cut /\ \A i \in 1..cut : a[i] = A[i]
        BY <2>1, SplitAt
      <3>2. stream' \in Seq(Bytes) /\ Len(stream') = cut /\ \A i \in 1..cut : stream'[i] = stream[i]
        BY <1>1, <1>3, SplitAt
      <3>3. \A i \in 1..Len(A) : (A \o B)[i] = A[i]
        BY Ahead
      <3>4. \A i \in 1..cut : i \in 1..Len(A)
        BY <1>5, <2>1
      <3> HIDE DEF a
      <3>5. \A i \in 1..cut : stream'[i] = a[i]
        BY <1>4, <3>1, <3>2, <3>3, <3>4
      <3> QED BY <2>2, <3>1, <3>2, <3>5, SeqEqual
    <2> HIDE DEF a
    <2>4. stream' = a \o <<>>
      BY <2>2, <2>3, ConcatEmptySeq
    <2>5. Lines(a) + Load(<<>>) <= n
      <3> HIDE DEF Lines, Load
      <3> QED BY <1>4, <1>5, <2>2
    <2> HIDE DEF Lines, Load, Asked, Tidy
    <2>6. Behindhand(n, a, <<>>, <<>>, <<>>)'
      BY <1>1, <1>5, <2>4, <2>5 DEF Behindhand
    <2> QED BY <1>5, <2>2, <2>6, Zenon DEF Lags
  <1>7. CASE cut > Len(A)
    <2> DEFINE m == cut - Len(A)
    <2>1. m \in 1..Len(B) /\ m \in 0..Len(B) /\ cut = Len(A) + m /\ B # <<>>
      <3>1. m \in 1..Len(B) /\ cut = Len(A) + m
        BY <1>5, <1>7
      <3>2. Len(<<>>) = 0
        OBVIOUS
      <3> QED BY <1>5, <3>1, <3>2
    <2> HIDE DEF m
    <2> DEFINE b == SubSeq(B, 1, m)
    <2>2. b \in Seq(Bytes) /\ Len(b) = m /\ \A i \in 1..m : b[i] = B[i]
      BY <2>1, SplitAt
    <2> HIDE DEF b
    <2>3. b # <<>> /\ b[1].is = "text" /\ b[1].of[2] = "status"
      <3>1. b[1] = B[1] /\ b # <<>>
        BY <2>1, <2>2, EmptySeq
      <3> QED BY <1>4, <2>1, <3>1
    <2>4. stream' = A \o b
      <3>1. stream' \in Seq(Bytes) /\ Len(stream') = cut /\ \A i \in 1..cut : stream'[i] = stream[i]
        BY <1>1, <1>3, SplitAt
      <3>2. A \o b \in Seq(Bytes) /\ Len(A \o b) = Len(A) + m
        BY <2>2, Together
      <3>3. \A i \in 1..Len(A) : (A \o b)[i] = A[i] /\ (A \o B)[i] = A[i]
        BY <2>2, Ahead
      <3>4. \A i \in 1..m : (A \o b)[Len(A) + i] = b[i]
        BY <2>2, Behind, Zenon
      <3>5. \A i \in 1..Len(B) : (A \o B)[Len(A) + i] = B[i]
        BY Behind, Zenon
      <3>6. \A i \in 1..m : (A \o b)[Len(A) + i] = stream[Len(A) + i]
        <4>1. \A i \in 1..m : i \in 1..Len(B)
          BY <1>5, <2>1
        <4> QED BY <1>4, <2>2, <3>4, <3>5, <4>1
      <3>7. \A i \in 1..cut : i \in 1..Len(A) \/ (i - Len(A) \in 1..m /\ Len(A) + (i - Len(A)) = i)
        BY <1>5, <2>1
      <3>8. \A i \in 1..cut : (A \o b)[i] = stream[i]
        BY <1>4, <3>3, <3>6, <3>7
      <3> QED BY <2>1, <3>1, <3>2, <3>8, SeqEqual
    <2>5. X = <<>> /\ Tidy(A) /\ (About' = "status" => Lines(A) + Asked(X) >= 1) /\ Lines(A) + Load(X) <= n
          /\ wire' = X \o X
      BY <1>1, <1>2, <1>4, <1>5, <2>1
    <2> HIDE DEF Lines, Load, Asked, Tidy
    <2>6. Behindhand(n, A, b, X, X)'
      BY <1>1, <2>3, <2>4, <2>5 DEF Behindhand
    <2> QED BY <2>2, <2>6, Zenon DEF Lags
  <1> QED BY <1>5, <1>6, <1>7

\* What a call does when it has read a line.
LEMMA LagMoves ==
    ASSUME TypeInv, Overdue(1), NEW about \in Abouts \ {"data"}, Answered(about), Asks \/ Ends,
           pc' = "idle" \/ About' # "data"
    PROVE  \/ pc' = "idle" /\ Overdue(0)'
           \/ /\ pc' = "reply" /\ Overdue(1)' /\ closed' = closed /\ About = about
              /\ stream' = Reply.rest /\ Reply.is # "wait"
              /\ \E t \in Seq(Sent) : wire' = IF closed THEN wire ELSE wire \o t
  <1>1. /\ About = about /\ About # "data" /\ Reply.is # "wait" /\ stream' = Reply.rest
        /\ closed' = closed
    BY DEF Answered
  <1>2. /\ stream' \in Seq(Bytes)
        /\ Lines(stream') + Load(wire) <= 2
        /\ ~closed => Tidy(stream') /\ Lines(stream') + Asked(wire) >= 1
    BY <1>1, LagReads
  <1>3. CASE Ends
    <2>1. PICK kind \in Kinds, done \in Jobs, commands \in Seq(Plain) : End(kind, done, commands)
      BY <1>3 DEF Ends
    <2> QED BY <1>1, <1>2, <2>1, LagEnds
  <1>4. CASE Asks
    <2>1. PICK commands \in Seq(Plain), next \in Abouts, ch \in 0..NumChannels, doing \in Jobs :
             Ask(commands, next, ch, doing)
      BY <1>4 DEF Asks
    <2>2. CASE next = "data"
      <3>1. pc' = "idle" \/ query' = Query(doing.call, next, ch)
        BY <2>1 DEF Ask, End
      <3>2. pc' = "idle" \/ About' = "data"
        BY <2>2, <3>1 DEF About, Query
      <3>3. pc' = "idle"
        BY <3>2
      <3>4. End("OSError", doing, <<>>) /\ <<>> \in Seq(Plain)
        BY <2>1, <3>3, EmptySeq DEF Ask
      <3> QED BY <1>1, <1>2, <3>4, LagEnds
    <2>3. CASE next # "data"
      <3>1. next \in Abouts \ {"data"}
        BY <2>3
      <3>2. \/ pc' = "idle" /\ Overdue(0)'
            \/ /\ pc' = "reply" /\ Overdue(1)'
               /\ \E t \in Seq(Sent) : wire' = IF closed THEN wire ELSE wire \o t
        BY <1>1, <1>2, <2>1, <3>1, LagAsks
      <3> QED BY <1>1, <3>2
    <2> QED BY <2>2, <2>3
  <1> QED BY <1>3, <1>4

\* No call outlives the lag.
LEMMA ReplyLate ==
    ASSUME TypeInv, Overdue(1), Lagging, HostStep
    PROVE  Late' /\ (outcome' = outcome \/ outcome'.kind # "frame")
  <1>1. "status" \in Abouts \ {"data"} /\ "rate" \in Abouts \ {"data"} /\ "preamble" \in Abouts \ {"data"}
        /\ "display" \in Abouts \ {"data"}
    BY DEF Abouts
  <1>2. CASE StatusReply
    <2> DEFINE doing == [job EXCEPT !.status = Reply.got[1]]
               commands == IF job.want = "deep" THEN <<Command("STOP", 0)>> ELSE <<>>
    <2>1. Answered("status") /\ Parses({"status"})
          /\ (End("ok", doing, <<>>) \/ Ask(commands, "rate", 0, doing))
      BY <1>2 DEF StatusReply
    <2> HIDE DEF doing, commands
    <2>2. /\ pc' = "idle" \/ About' = "rate"
          /\ outcome' = outcome \/ outcome'.kind # "frame"
      BY <2>1 DEF Ask, End, About, Query
    <2>3. Asks \/ Ends
      BY <1>2, StatusTypes
    <2>4. \/ pc' = "idle" /\ Overdue(0)'
          \/ /\ pc' = "reply" /\ Overdue(1)' /\ closed' = closed /\ About = "status"
             /\ stream' = Reply.rest /\ Reply.is # "wait"
             /\ \E t \in Seq(Sent) : wire' = IF closed THEN wire ELSE wire \o t
      BY <1>1, <2>1, <2>2, <2>3, LagMoves
    <2>5. CASE pc' = "reply"
      <3>1. About' = "rate" /\ About = "status" /\ Lags(2)
        BY <2>2, <2>4, <2>5 DEF Lagging
      <3>2. PICK t \in Seq(Sent) : wire' = IF closed THEN wire ELSE wire \o t
        BY <2>4, <2>5
      <3>3. Lags(2 - 1)'
        <4>1. 2 \in 1..2 /\ About' # "status"
          BY <3>1
        <4> QED BY <2>1, <2>4, <2>5, <3>1, <3>2, <4>1, LagsRead
      <3>4. Lags(1)' /\ Overdue(1)'
        BY <2>4, <2>5, <3>3
      <3> QED BY <2>2, <2>5, <3>1, <3>4 DEF Late, Lagging
    <2>6. CASE pc' # "reply"
      BY <2>2, <2>4, <2>6 DEF Late
    <2> QED BY <2>5, <2>6
  <1>3. CASE RateReply
    <2> DEFINE doing == [job EXCEPT !.ch = 1, !.out = <<>>]
               commands == <<Command("SOUR", 1), Command("MODE", job.want = "deep")>>
    <2>1. Answered("rate") /\ Parses({"rate", "display"}) /\ Ask(commands, "preamble", 1, doing)
      BY <1>3 DEF RateReply, AskPreamble
    <2> HIDE DEF doing, commands
    <2>2. /\ pc' = "idle" \/ About' = "preamble"
          /\ outcome' = outcome \/ outcome'.kind # "frame"
      BY <2>1 DEF Ask, End, About, Query
    <2>3. Asks \/ Ends
      BY <1>3, RateTypes
    <2>4. \/ pc' = "idle" /\ Overdue(0)'
          \/ /\ pc' = "reply" /\ Overdue(1)' /\ closed' = closed /\ About = "rate"
             /\ stream' = Reply.rest /\ Reply.is # "wait"
             /\ \E t \in Seq(Sent) : wire' = IF closed THEN wire ELSE wire \o t
      BY <1>1, <2>1, <2>2, <2>3, LagMoves
    <2>5. CASE pc' = "reply"
      <3>1. About' = "preamble" /\ About = "rate" /\ Lags(1)
        BY <2>2, <2>4, <2>5 DEF Lagging
      <3>2. PICK t \in Seq(Sent) : wire' = IF closed THEN wire ELSE wire \o t
        BY <2>4, <2>5
      <3>3. Lags(1 - 1)'
        <4>1. 1 \in 1..2 /\ About' # "status" /\ "status" \notin {"rate", "display"}
          BY <3>1
        <4> QED BY <2>1, <2>4, <2>5, <3>1, <3>2, <4>1, LagsRead
      <3>4. Lags(0)' /\ Overdue(1)'
        BY <2>4, <2>5, <3>3
      <3> QED BY <2>2, <2>5, <3>1, <3>4 DEF Late, Lagging
    <2>6. CASE pc' # "reply"
      BY <2>2, <2>4, <2>6 DEF Late
    <2> QED BY <2>5, <2>6
  <1>4. CASE PreambleReply
    <2>1. About = "preamble" /\ Parses({"preamble"})
      BY <1>4 DEF PreambleReply, Answered
    <2> QED BY <2>1, LagsPreamble DEF Lagging
  <1>5. CASE PageReply
    BY <1>5 DEF PageReply, Answered, Lagging
  <1>6. CASE DisplayReply
    <2> DEFINE on == IF Parses({"display"}) THEN job.on + Read[1] ELSE job.on
               doing == [job EXCEPT !.on = on]
    <2>1. /\ Answered("display")
          /\ \/ Ask(<<>>, "display", query.arg[3] + 1, doing)
             \/ End("ok", doing, <<Command("RUN", 0), Command("MDEP", job.depth)>>)
             \/ End("ValueError", doing, <<>>)
      BY <1>6 DEF DisplayReply
    <2> HIDE DEF on, doing
    <2>2. /\ pc' = "idle" \/ About' = "display"
          /\ outcome' = outcome \/ outcome'.kind # "frame"
      BY <2>1 DEF Ask, End, About, Query
    <2>3. Asks \/ Ends
      BY <1>6, DisplayTypes
    <2>4. \/ pc' = "idle" /\ Overdue(0)'
          \/ pc' = "reply" /\ Overdue(1)'
      BY <1>1, <2>1, <2>2, <2>3, LagMoves
    <2> QED BY <2>2, <2>4 DEF Late, Lagging
  <1>7. CASE BadReply
    <2>1. PICK about \in {"status", "rate", "preamble", "data"} : Answered(about)
      BY <1>7 DEF BadReply
    <2>2. about \in Abouts \ {"data"}
      BY <1>1, <2>1 DEF Answered, Lagging
    <2>3. pc' = "idle" /\ outcome'.kind # "frame"
      BY <1>7 DEF BadReply, End
    <2>4. Asks \/ Ends
      BY <1>7, BadTypes
    <2>5. Overdue(0)'
      BY <2>1, <2>2, <2>3, <2>4, LagMoves
    <2> QED BY <2>3, <2>5 DEF Late
  <1> QED BY <1>2, <1>3, <1>4, <1>5, <1>6, <1>7 DEF HostStep

\* The first read that is given up leaves a line or two.
LEMMA TimeoutLate ==
    ASSUME LineInv, ~lost, Lines(stream) <= 2, Timeout
    PROVE  Late'
  <1>1. /\ TypeInv /\ stream \in Seq(Bytes) /\ wire \in Seq(Sent) /\ Lines(stream) \in Nat
        /\ Load(wire) \in Nat /\ (wire = <<>> => Load(wire) = 0)
    BY Counts DEF LineInv
  <1>2. PICK n \in 0..Len(stream) :
           ReplyIn(SubSeq(stream, 1, n)).is = "wait" /\ stream' = From(stream, n + 1)
    BY DEF Timeout
  <1>3. /\ pc = "reply" /\ pc' = "idle" /\ closed' = closed
        /\ wire' = IF closed THEN wire ELSE wire \o <<>>
    BY DEF Timeout, End
  <1>4. wire' = wire
    BY <1>1, <1>3, ConcatEmptySeq
  <1>5. /\ stream' \in Seq(Bytes) /\ Lines(stream') <= 2 /\ Lines(stream') \in Nat
        /\ Tidy(stream) => Tidy(stream')
        /\ n # Len(stream) => stream' # <<>>
    <2>1. /\ stream' \in Seq(Bytes) /\ Lines(stream') <= Lines(stream)
          /\ Tidy(stream) => Tidy(stream')
          /\ n # Len(stream) => stream' # <<>>
      BY <1>1, <1>2, LinesOfPart
    <2> DEFINE L == Lines(stream')
    <2>2. L \in Nat /\ L <= Lines(stream)
      BY <2>1, LinesCount
    <2> HIDE DEF Lines, L
    <2>3. L <= 2
      BY <1>1, <2>2
    <2> QED BY <2>1, <2>2, <2>3 DEF L
  <1>6. CASE closed
    <2>1. wire = <<>>
      BY <1>1, <1>6 DEF TypeInv, HostTypes
    <2> HIDE DEF Load, Lines
    <2>2. Lines(stream') + Load(wire') <= 2 + 0
      BY <1>1, <1>4, <1>5, <2>1
    <2>3. Overdue(0)'
      BY <1>3, <1>6, <2>2 DEF Overdue
    <2> QED BY <1>3, <2>3 DEF Late
  <1>7. CASE ~closed /\ Arrived
    <2>1. wire = <<>>
      BY <1>3, <1>7 DEF LineInv, InTurn
    <2>2. stream[Len(stream)].is = "end"
      <3>1. NoQuery(wire)
        BY <2>1 DEF NoQuery
      <3> QED BY <1>3, <1>7, <3>1 DEF LineInv, Complete
    <2>3. Tidy(stream)
      <3>1. Len(stream) \in DOMAIN stream
        BY <1>1, <1>7, LenProperties, EmptySeq DEF Arrived
      <3>2. stream[Len(stream)] \in Bytes
        BY <1>1, <3>1, ElementOfSeq
      <3> QED BY <2>2, <3>2 DEF Tidy, Enders, EndsLine
    <2>4. n # Len(stream)
      <3> SUFFICES ASSUME n = Len(stream) PROVE FALSE
        OBVIOUS
      <3>1. SubSeq(stream, 1, Len(stream)) = stream
        BY <1>1, SubSeqFull
      <3>2. Reply.is = "wait"
        BY <1>2, <3>1 DEF Reply
      <3>3. Queries(wire) = {}
        BY <2>1 DEF Queries
      <3>4. NoDeafWait
        BY NoWait DEF LineInv
      <3> QED BY <1>3, <3>2, <3>3, <3>4 DEF NoDeafWait
    <2>5. Lines(stream') >= 1
      BY <1>5, <2>4, LinesCount
    <2>6. Load(<<>>) = 0 /\ Asked(<<>>) = 0
      BY NumberShort DEF Load, Asked
    <2> DEFINE L == Lines(stream')
    <2>7. L >= 1 /\ L <= 2 /\ L \in Nat /\ wire' = <<>>
      BY <1>4, <1>5, <2>1, <2>5
    <2> HIDE DEF Load, Asked, Lines, L
    <2>8. L + Load(wire') <= 2 + 0 /\ L + Asked(wire') >= 1 + 0
      BY <2>6, <2>7
    <2>9. Overdue(0)'
      BY <1>5, <2>3, <2>8 DEF Overdue, L
    <2> QED BY <1>3, <2>9 DEF Late
  <1>8. CASE Pending
    <2>1. wire # <<>> /\ wire[Len(wire)] = query /\ \A i \in DOMAIN wire : IsQuery(wire[i]) => i = Len(wire)
      BY <1>3, <1>8 DEF LineInv, InTurn
    <2>2. Len(wire) \in DOMAIN wire /\ IsQuery(query) /\ query \in Sent
      <3>1. Len(wire) \in DOMAIN wire
        BY <1>1, <2>1, LenProperties, EmptySeq
      <3>2. IsQuery(query)
        BY <1>1 DEF TypeInv, HostTypes, IsQuery
      <3> QED BY <1>1, <2>1, <3>1, <3>2, ElementOfSeq
    <2> DEFINE l == Len(wire)
    <2>3. Places(wire, Quests) = {l} /\ Places(wire, Pages) \subseteq {l}
      BY <2>1, <2>2 DEF Places, Quests, Pages
    <2>4. Number(wire, Quests) = 1 /\ Number(wire, Pages) \in 0..1
      <3>1. IsFiniteSet({l}) /\ Cardinality({l}) = 1
        BY FS_Singleton
      <3>2. IsFiniteSet(Places(wire, Pages)) /\ Cardinality(Places(wire, Pages)) <= 1
        BY <2>3, <3>1, FS_Subset
      <3>3. Cardinality(Places(wire, Pages)) \in Nat
        BY <3>2, FS_CardinalityType
      <3> QED BY <2>3, <3>1, <3>2, <3>3 DEF Number
    <2>5. Load(wire') <= 2 /\ Load(wire') \in Nat /\ Asked(wire') = 1
      BY <1>4, <2>4 DEF Load, Asked
    <2>6. stream' = <<>>
      <3>1. Len(stream) = 0
        BY <1>8 DEF Pending
      <3>2. n = 0 /\ stream = <<>>
        BY <1>8, <3>1 DEF Pending
      <3>3. Len(From(stream, n + 1)) = Len(stream) - n
        BY <1>1, SplitAt
      <3>4. Len(stream') = 0
        BY <1>2, <3>1, <3>2, <3>3
      <3> QED BY <1>5, <3>4, EmptySeq
    <2>7. Lines(<<>>) = 0 /\ Tidy(<<>>)
      BY EmptySeq, LinesCount DEF Tidy
    <2> HIDE DEF Load, Asked, Lines
    <2>8. Lines(stream') + Load(wire') <= 2 + 0 /\ Lines(stream') + Asked(wire') >= 1 + 0 /\ Tidy(stream')
      BY <2>5, <2>6, <2>7
    <2>9. Overdue(0)'
      BY <2>8 DEF Overdue
    <2> QED BY <1>3, <2>9 DEF Late
  <1> QED BY <1>6, <1>7, <1>8 DEF Arrived, Pending

\* What is written without waiting is not answered.
LEMMA WriteLate ==
    ASSUME TypeInv, Late, NEW command \in Writes, Write(command)
    PROVE  Late'
  <1>1. /\ pc = "idle" /\ pc' = "idle" /\ wire' = Append(wire, command) /\ stream' = stream
        /\ closed' = closed
    BY DEF Write, host
  <1>2. command \in Sent /\ ~IsQuery(command) /\ wire \in Seq(Sent)
    BY WriteTypes, Counts
  <1>3. <<command>> \in Seq(Sent) /\ Asked(<<command>>) = 0 /\ Load(<<command>>) = 0
    BY <1>2, LoadOne
  <1>4. wire' = wire \o <<command>>
    BY <1>1, <1>2, AppendIsConcat
  <1>5. /\ Asked(wire \o <<command>>) = Asked(wire) + 0 /\ Load(wire \o <<command>>) = Load(wire) + 0
        /\ Asked(wire) \in Nat /\ Load(wire) \in Nat
    BY <1>2, <1>3, LoadJoined
  <1> HIDE DEF Asked, Load
  <1>6. Asked(wire') = Asked(wire) /\ Load(wire') = Load(wire)
    BY <1>4, <1>5
  <1> QED BY <1>1, <1>6 DEF Late, Overdue

\* A call begins.
LEMMA BeginLate ==
    ASSUME TypeInv, Late, NEW want, NEW depth, Begin(want, depth)
    PROVE  Late' /\ (outcome' = outcome \/ outcome'.kind # "frame")
  <1> DEFINE doing == [NoJob EXCEPT !.call = outcome.job.call + 1, !.want = want, !.depth = depth,
                                    !.began = IF wire = <<>> THEN scope.mode ELSE "unknown"]
  <1>1. pc = "idle" /\ stream' = stream /\ closed' = closed /\ Overdue(0)
    BY DEF Begin, Late
  <1>2. PICK about \in {"status", "display"}, ch \in {0, 1} : Ask(<<>>, about, ch, doing)
    BY DEF Begin
  <1>3. doing.call \in Nat
    <2>1. outcome.job.call \in Nat
      BY DEF TypeInv, HostTypes, Jobs
    <2> QED BY <2>1 DEF NoJob
  <1> HIDE DEF doing
  <1>4. stream \in Seq(Bytes) /\ <<>> \in Seq(Plain) /\ wire \in Seq(Sent)
    BY EmptySeq, Counts
  <1>5. CASE closed /\ End("OSError", doing, <<>>)
    <2>1. pc' = "idle" /\ outcome'.kind # "frame" /\ wire' = wire
      BY <1>5 DEF End
    <2> QED BY <1>1, <2>1 DEF Late, Overdue
  <1>6. CASE /\ query' = Query(doing.call, about, ch) /\ pc' = "reply" /\ outcome' = outcome
             /\ wire' = IF closed THEN wire ELSE wire \o Append(<<>>, query')
    <2>1. query' \in [op : {"?"}, arg : Arguments] /\ query'.arg[2] = about
      <3>1. Query(doing.call, about, ch) \in [op : {"?"}, arg : Arguments]
            /\ Query(doing.call, about, ch).arg[2] = about
        BY <1>3, Constants DEF Query, Arguments, Abouts
      <3> QED BY <1>6, <3>1
    <2>2. PICK q \in [op : {"?"}, arg : Arguments] : q = query' /\ q.arg[2] \in {"status", "display"}
      BY <2>1
    <2>3. (Overdue(1) /\ Lagging)'
      <3>1. wire' = IF closed THEN wire ELSE wire \o Append(<<>>, q)
        BY <1>6, <2>2
      <3> QED BY <1>1, <2>2, <3>1, LagBegins
    <2> QED BY <1>6, <2>3 DEF Late
  <1> QED BY <1>2, <1>5, <1>6 DEF Ask

\* The reply in turn is the only one on the line.
LEMMA OneReply ==
    ASSUME LineInv, ~lost, FewNewlines, Lines(stream) <= 2, Execute
    PROVE  Lines(stream') <= 2
  <1>1. TypeInv /\ InTurn /\ wire \in Seq(Sent) /\ wire # <<>> /\ pc \in {"idle", "reply"}
    BY Counts DEF LineInv, Execute, TypeInv, HostTypes
  <1>2. CASE ~IsQuery(Head(wire))
    BY <1>1, <1>2, Executes
  <1>3. CASE IsQuery(Head(wire))
    <2>1. pc = "reply"
      <3> SUFFICES ASSUME pc = "idle" PROVE FALSE
        BY <1>1
      <3>1. NoQuery(wire)
        BY <1>1 DEF InTurn
      <3>2. Head(wire) = wire[1] /\ 1 \in DOMAIN wire
        BY <1>1, WireTail
      <3> QED BY <1>3, <3>1, <3>2 DEF NoQuery
    <2>2. stream = <<>>
      BY <1>1, <2>1, InTurnExecutes DEF Pending
    <2>3. PICK r \in Seq(Bytes) :
             /\ stream' = stream \o r /\ Lines(r) >= 1
             /\ Lines(r) <= IF Head(wire).arg[2] = "data" THEN 2 ELSE 1
      BY <1>1, <1>3, ReplyLines
    <2>4. stream' = r /\ Lines(r) \in Nat
      BY <2>2, <2>3, ConcatEmptySeq, LinesCount
    <2> HIDE DEF Lines
    <2>5. Lines(r) <= 2
      BY <2>3, <2>4
    <2> QED BY <2>4, <2>5
  <1> QED BY <1>2, <1>3

\* Every step keeps the count.
LEMMA NextLag ==
    ASSUME LineInv, LagInv, [Next]_vars
    PROVE  LagInv'
  <1>1. TypeInv /\ InTurn /\ timeouts \in Nat /\ lost \in BOOLEAN
    BY DEF LineInv, TypeInv, LineTypes
  <1>2. Lines(<<>>) = 0
    BY EmptySeq, LinesCount
  <1>3. ASSUME lost' = lost, timeouts' = timeouts,
               ~lost /\ FewNewlines => Lines(stream') <= 2,
               Jammed => Late',
               \/ outcome' = outcome
               \/ outcome'.kind = "frame" => outcome'.clean
        PROVE  LagInv'
    BY <1>3 DEF LagInv, Jammed
  <1>4. CASE \E command \in Writes : Write(command)
    <2>1. PICK command \in Writes : Write(command)
      BY <1>4
    <2>2. lost' = lost /\ timeouts' = timeouts /\ stream' = stream /\ outcome' = outcome
      BY <2>1 DEF Write, host
    <2>3. Jammed => Late'
      BY <1>1, <2>1, WriteLate DEF LagInv
    <2> QED BY <1>3, <2>2, <2>3 DEF LagInv
  <1>5. CASE \E want, depth : Begin(want, depth)
    <2>1. PICK want, depth : Begin(want, depth)
      BY <1>5
    <2>2. lost' = lost /\ timeouts' = timeouts /\ stream' = stream
      BY <2>1 DEF Begin
    <2>3. Jammed => Late'
      BY <1>1, <2>1, BeginLate DEF LagInv
    <2>4. outcome' = outcome \/ outcome'.kind # "frame"
      BY <2>1 DEF Begin, Ask, End
    <2> QED BY <1>3, <2>2, <2>3, <2>4 DEF LagInv
  <1>6. CASE HostStep
    <2>1. PICK about \in Abouts : Answered(about)
      BY <1>6 DEF HostStep, StatusReply, RateReply, PreambleReply, PageReply, DisplayReply, BadReply, Abouts
    <2>2. lost' = lost /\ timeouts' = timeouts /\ stream' = Reply.rest /\ pc = "reply" /\ Reply.is # "wait"
      BY <2>1 DEF Answered
    <2>3. CASE lost
      <3>1. Asks \/ Ends
        BY <1>1, <1>6, StatusTypes, RateTypes, PreambleTypes, PageTypes, DisplayTypes, BadTypes DEF HostStep
      <3>2. Jammed => Late' /\ (outcome' = outcome \/ outcome'.kind # "frame")
        <4>1. Jammed => Overdue(1) /\ Lagging
          BY <2>2 DEF LagInv, Late
        <4> QED BY <1>1, <1>6, <4>1, ReplyLate
      <3>3. timeouts' <= 1 /\ FewNewlines => Jammed
        BY <2>2, <2>3 DEF Jammed
      <3> QED BY <2>2, <2>3, <3>2, <3>3 DEF LagInv, Jammed
    <2>4. CASE ~lost
      <3>1. stream' = <<>>
        BY <1>1, <2>2, <2>4, Consumed
      <3>2. outcome' = outcome \/ outcome'.clean
        <4>1. Asks \/ Ends
          BY <1>1, <1>6, StatusTypes, RateTypes, PreambleTypes, PageTypes, DisplayTypes, BadTypes DEF HostStep
        <4>2. ASSUME NEW kind, NEW done, NEW commands, End(kind, done, commands) PROVE outcome'.clean
          BY <2>4, <4>2 DEF End
        <4>3. CASE Ends
          BY <4>2, <4>3 DEF Ends
        <4>4. CASE Asks
          <5>1. PICK commands, next, ch, doing : Ask(commands, next, ch, doing)
            BY <4>4, Zenon DEF Asks
          <5> QED BY <4>2, <5>1 DEF Ask
        <4> QED BY <4>1, <4>3, <4>4
      <3>3. Lines(stream') <= 2
        <4> HIDE DEF Lines
        <4> QED BY <1>2, <3>1
      <3> QED BY <1>3, <2>2, <2>4, <3>2, <3>3 DEF Jammed
    <2> QED BY <1>1, <2>3, <2>4
  <1>7. CASE Timeout
    <2>1. lost' = TRUE /\ timeouts' = timeouts + 1 /\ outcome'.kind # "frame"
      BY <1>7 DEF Timeout, End
    <2>2. timeouts' <= 1 => ~lost
      BY <1>1, <2>1 DEF LagInv
    <2>3. Jammed' => Late'
      BY <1>7, <2>2, TimeoutLate DEF LagInv, Jammed
    <2>4. timeouts' >= 1
      BY <1>1, <2>1
    <2> QED BY <2>1, <2>3, <2>4 DEF LagInv
  <1>8. CASE Reopen
    <2>1. ~lost' /\ timeouts' = timeouts /\ stream' = <<>> /\ outcome' = outcome
      BY <1>8 DEF Reopen, host
    <2>2. Lines(stream') <= 2
      <3> HIDE DEF Lines
      <3> QED BY <1>2, <2>1
    <2> QED BY <2>1, <2>2 DEF LagInv, Jammed
  <1>9. CASE Execute
    <2>1. /\ lost' = lost /\ timeouts' = timeouts /\ outcome' = outcome /\ pc' = pc /\ query' = query
      BY <1>9 DEF Execute, host
    <2>2. ~lost /\ FewNewlines => Lines(stream') <= 2
      BY <1>9, OneReply DEF LagInv
    <2>3. Jammed => Late'
      <3> SUFFICES ASSUME Jammed, Late PROVE Late'
        BY DEF LagInv
      <3>1. ASSUME NEW own \in 0..1, Overdue(own) PROVE Overdue(own)'
        BY <1>1, <1>9, <3>1, OverdueExecute DEF Jammed
      <3>2. ASSUME NEW n \in 0..2, Lags(n) PROVE Lags(n)'
        BY <1>1, <1>9, <3>2, LagsExecute DEF Jammed
      <3>3. About' = About
        BY <2>1 DEF About
      <3> QED BY <2>1, <3>1, <3>2, <3>3 DEF Late, Lagging
    <2> QED BY <1>3, <2>1, <2>2, <2>3
  <1>10. CASE Hangup
    <2>1. /\ lost' = lost /\ timeouts' = timeouts /\ outcome' = outcome /\ pc' = pc /\ query' = query
      BY <1>10 DEF Hangup, host
    <2>2. ~lost /\ FewNewlines => Lines(stream') <= 2
      <3>1. Lines(stream') <= Lines(stream) /\ Lines(stream') \in Nat /\ Lines(stream) \in Nat
        BY <1>1, <1>10, HangupCounts, Counts
      <3> DEFINE L == Lines(stream')
      <3>2. L <= Lines(stream) /\ L \in Nat /\ Lines(stream) \in Nat
        BY <3>1
      <3>3. ~lost /\ FewNewlines => Lines(stream) <= 2
        BY DEF LagInv
      <3> HIDE DEF Lines, L
      <3>4. ~lost /\ FewNewlines => L <= 2
        BY <3>2, <3>3
      <3> QED BY <3>4 DEF L
    <2>3. Jammed => Late'
      <3> SUFFICES ASSUME Jammed, Late PROVE Late'
        BY DEF LagInv
      <3>1. ASSUME NEW own \in 0..1, Overdue(own) PROVE Overdue(own)'
        BY <1>1, <1>10, <3>1, HangupCounts
      <3>2. ASSUME NEW n \in 0..2, Lags(n) PROVE Lags(n)'
        BY <1>1, <1>10, <3>2, LagsHangup
      <3>3. About' = About
        BY <2>1 DEF About
      <3> QED BY <2>1, <3>1, <3>2, <3>3 DEF Late, Lagging
    <2> QED BY <1>3, <2>1, <2>2, <2>3
  <1>11. CASE Acquire \/ UNCHANGED vars
    <2>1. UNCHANGED <<host, wire, stream, closed, lost, timeouts>>
      BY <1>11 DEF Acquire, vars
    <2>2. Late => Late'
      <3>1. /\ pc' = pc /\ stream' = stream /\ wire' = wire /\ closed' = closed /\ query' = query
        BY <2>1 DEF host
      <3>2. About' = About
        BY <3>1 DEF About
      <3>3. \A n \in 0..2 : Lags(n) => Lags(n)'
        BY <3>1, <3>2, LagsStay
      <3>4. \A own \in 0..1 : Overdue(own) => Overdue(own)'
        BY <3>1 DEF Overdue
      <3> QED BY <3>1, <3>2, <3>3, <3>4 DEF Late, Lagging
    <2>3. outcome' = outcome
      BY <2>1 DEF host
    <2> QED BY <1>3, <2>1, <2>2, <2>3 DEF LagInv
  <1> QED BY <1>4, <1>5, <1>6, <1>7, <1>8, <1>9, <1>10, <1>11 DEF Next

-----------------------------------------------------------------------------
(* In step, a frame is made of answers to its own call. *)

\* What the call has read answers it.
Mine(j) ==
    /\ \A i \in DOMAIN j.out : j.out[i].of[1] = j.call
    /\ \A ch \in DOMAIN j.waves : \A k \in DOMAIN j.waves[ch] : j.waves[ch][k].of[1] = j.call

\* So does its status, once it has asked for more.
Mined(j, about) ==
    Mine(j) /\ (about \notin {"status", "display"} => j.status.of[1] = j.call)

OwnInv ==
    ~lost /\ pc = "reply" => query.arg[1] = job.call /\ Mined(job, About)

FrameMine ==
    outcome.kind = "frame" /\ outcome.clean =>
        /\ outcome.job.status.of[1] = outcome.job.call
        /\ \A ch \in Channels : \A k \in DOMAIN Wave(ch) : Wave(ch)[k].of[1] = outcome.job.call

\* An outcome that stays, or is no frame, or comes of a jammed connection.
LEMMA SameFrame ==
    ASSUME FrameMine, outcome' = outcome \/ outcome'.kind # "frame" \/ ~outcome'.clean
    PROVE  FrameMine'
  BY DEF FrameMine, Wave

\* A call that asks for more.
LEMMA OwnAsk ==
    ASSUME FrameMine, NEW commands, NEW about, NEW ch, NEW doing, Mined(doing, about),
           Ask(commands, about, ch, doing)
    PROVE  OwnInv' /\ FrameMine'
  <1>1. outcome' = outcome \/ outcome'.kind # "frame"
    BY DEF Ask, End
  <1>2. \/ pc' = "idle"
        \/ query' = Query(doing.call, about, ch) /\ job' = doing
    BY DEF Ask, End
  <1>3. CASE query' = Query(doing.call, about, ch) /\ job' = doing
    <2>1. query'.arg[1] = job'.call /\ About' = about
      BY <1>3 DEF Query, About
    <2>2. Mined(job', About')
      BY <1>3, <2>1
    <2> QED BY <1>1, <2>1, <2>2, SameFrame DEF OwnInv
  <1>4. CASE pc' = "idle"
    BY <1>1, <1>4, SameFrame DEF OwnInv
  <1> QED BY <1>2, <1>3, <1>4

\* A call that ends.
LEMMA OwnEnd ==
    ASSUME FrameMine, NEW kind, kind # "frame", NEW done, NEW commands, End(kind, done, commands)
    PROVE  OwnInv' /\ FrameMine'
  <1>1. pc' = "idle" /\ outcome'.kind # "frame"
    BY DEF End
  <1> QED BY <1>1, SameFrame DEF OwnInv

\* What is read in step answers the call.
LEMMA OwnRead ==
    ASSUME LineInv, OwnInv, ~lost, NEW about, Answered(about)
    PROVE  /\ Mined(job, about) /\ job \in Jobs /\ pc = "reply"
           /\ \A abouts : Parses(abouts) => Reply.got[1].of[1] = job.call
           /\ Reply.is = "block" =>
                 Reply.got \in Seq(Bytes) /\ \A i \in DOMAIN Reply.got : Reply.got[i].of[1] = job.call
  <1>1. /\ TypeInv /\ InTurn /\ stream \in Seq(Bytes) /\ Len(stream) \in Nat
        /\ DOMAIN stream = 1..Len(stream)
    BY LenProperties DEF LineInv, TypeInv, LineTypes
  <1>2. /\ pc = "reply" /\ About = about /\ job \in Jobs
        /\ \A abouts : Parses(abouts) => Arrived /\ Reply.got[1] = stream[1]
        /\ Reply.is = "block" =>
              /\ Arrived /\ Len(stream) >= Size + 2 /\ Size \in Nat
              /\ Reply.got \in Seq(Bytes) /\ Len(Reply.got) = Size
              /\ \A i \in 1..Size : Reply.got[i] = stream[i + 2]
    BY ReadFrame
  <1>3. Arrived => \A i \in DOMAIN stream : stream[i].of[1] = job.call
    <2>1. query.arg[1] = job.call
      BY <1>2 DEF OwnInv
    <2>2. Arrived => \A i \in DOMAIN stream : stream[i].of = query.arg
      BY <1>1, <1>2 DEF InTurn
    <2> QED BY <2>1, <2>2
  <1>4. ASSUME Reply.is = "block", NEW i \in DOMAIN Reply.got PROVE Reply.got[i].of[1] = job.call
    <2>1. i \in 1..Size
      BY <1>2, <1>4, LenProperties
    <2>2. i + 2 \in DOMAIN stream
      BY <1>1, <1>2, <1>4, <2>1
    <2> QED BY <1>2, <1>3, <1>4, <2>1, <2>2
  <1>5. ASSUME NEW abouts, Parses(abouts) PROVE Reply.got[1].of[1] = job.call
    <2>1. Arrived /\ Reply.got[1] = stream[1]
      BY <1>2, <1>5
    <2>2. 1 \in DOMAIN stream
      BY <1>1, <2>1, EmptySeq DEF Arrived
    <2> QED BY <1>3, <2>1, <2>2
  <1> QED BY <1>2, <1>4, <1>5 DEF OwnInv

\* The next channel is asked for.
LEMMA OwnPreamble ==
    ASSUME FrameMine, NEW ch, NEW doing \in Jobs, Mine(doing), doing.status.of[1] = doing.call,
           AskPreamble(ch, doing)
    PROVE  OwnInv' /\ FrameMine'
  <1> DEFINE next == [doing EXCEPT !.ch = ch, !.out = <<>>]
  <1>1. /\ next.out = <<>> /\ next.waves = doing.waves /\ next.call = doing.call
        /\ next.status = doing.status
    BY DEF Jobs
  <1>2. PICK commands : Ask(commands, "preamble", ch, next)
    BY DEF AskPreamble
  <1> HIDE DEF next
  <1>3. DOMAIN next.out = {}
    BY <1>1
  <1>4. Mined(next, "preamble")
    BY <1>1, <1>3 DEF Mine, Mined
  <1> QED BY <1>2, <1>4, OwnAsk

\* A channel is read.
LEMMA OwnChannel ==
    ASSUME FrameMine, HostTypes, NEW doing \in Jobs, Mine(doing), doing.status.of[1] = doing.call,
           doing.waves = job.waves, Len(job.waves) = job.ch - 1, job.ch \in Channels,
           NextChannel(doing)
    PROVE  OwnInv' /\ FrameMine'
  <1> DEFINE done == [doing EXCEPT !.waves = Append(@, doing.out)]
  <1>1. doing.waves \in Seq(Seq(Bytes)) /\ doing.out \in Seq(Bytes) /\ job.ch \in Nat \ {0}
        /\ Len(doing.waves) = job.ch - 1
    BY Constants DEF Jobs, Channels
  <1>2. /\ Append(doing.waves, doing.out) \in Seq(Seq(Bytes))
        /\ Len(Append(doing.waves, doing.out)) = job.ch
        /\ Append(doing.waves, doing.out)[job.ch] = doing.out
        /\ \A i \in 1..(job.ch - 1) : Append(doing.waves, doing.out)[i] = doing.waves[i]
    <2>1. PICK n \in Nat \ {0} : n = job.ch
      BY <1>1
    <2>2. /\ Append(doing.waves, doing.out) \in Seq(Seq(Bytes))
          /\ Len(Append(doing.waves, doing.out)) = n
          /\ Append(doing.waves, doing.out)[n] = doing.out
      BY <1>1, <2>1, AppendProperties
    <2>3. \A i \in 1..(n - 1) : Append(doing.waves, doing.out)[i] = doing.waves[i]
      BY <1>1, <2>1, AppendProperties
    <2> QED BY <2>1, <2>2, <2>3
  <1>3. /\ done \in Jobs /\ done.call = doing.call /\ done.out = doing.out
        /\ done.waves = Append(doing.waves, doing.out) /\ done.status = doing.status
    BY <1>2 DEF Jobs
  <1>4. \/ job.ch = NumChannels /\ End("frame", done, <<>>)
        \/ AskPreamble(job.ch + 1, done)
    BY DEF NextChannel
  <1> HIDE DEF done
  <1>5. DOMAIN done.waves = 1..job.ch /\ DOMAIN doing.waves = 1..(job.ch - 1)
    <2>1. DOMAIN done.waves = 1..Len(done.waves) /\ DOMAIN doing.waves = 1..Len(doing.waves)
      BY <1>1, <1>2, <1>3, LenProperties
    <2> QED BY <1>2, <1>3, <2>1
  <1>6. ASSUME NEW ch \in DOMAIN done.waves, NEW k \in DOMAIN done.waves[ch]
        PROVE  done.waves[ch][k].of[1] = done.call
    <2>1. ch \in 1..(job.ch - 1) \/ ch = job.ch
      BY <1>1, <1>5
    <2>2. CASE ch \in 1..(job.ch - 1)
      <3>1. Append(doing.waves, doing.out)[ch] = doing.waves[ch]
        BY <1>2, <2>2
      <3>2. done.waves[ch] = doing.waves[ch] /\ ch \in DOMAIN doing.waves
        BY <1>3, <1>5, <2>2, <3>1
      <3>3. \A j \in DOMAIN doing.waves[ch] : doing.waves[ch][j].of[1] = doing.call
        BY <3>2 DEF Mine
      <3> QED BY <1>3, <1>6, <3>2, <3>3
    <2>3. CASE ch = job.ch
      <3>1. done.waves[ch] = doing.out
        BY <1>2, <1>3, <2>3
      <3>2. \A j \in DOMAIN doing.out : doing.out[j].of[1] = doing.call
        BY DEF Mine
      <3> QED BY <1>3, <1>6, <3>1, <3>2
    <2> QED BY <2>1, <2>2, <2>3
  <1>7. CASE job.ch = NumChannels /\ End("frame", done, <<>>)
    <2>1. outcome'.job = done /\ pc' = "idle"
      BY <1>7 DEF End
    <2>2. Channels = DOMAIN done.waves
      BY <1>5, <1>7 DEF Channels
    <2>3. FrameMine'
      BY <1>3, <1>6, <2>1, <2>2 DEF FrameMine, Wave
    <2> QED BY <2>1, <2>3 DEF OwnInv
  <1>8. CASE AskPreamble(job.ch + 1, done)
    <2>1. Mine(done)
      <3>1. \A j \in DOMAIN done.out : done.out[j].of[1] = done.call
        BY <1>3 DEF Mine
      <3> QED BY <1>6, <3>1 DEF Mine
    <2>2. done.status.of[1] = done.call
      BY <1>3
    <2> QED BY <1>3, <1>8, <2>1, <2>2, OwnPreamble
  <1> QED BY <1>4, <1>7, <1>8

\* What a call that waits in step reads and asks is its own.
LEMMA ReplyOwn ==
    ASSUME LineInv, OwnInv, FrameMine, ~lost, HostStep
    PROVE  OwnInv' /\ FrameMine'
  <1>1. HostTypes /\ TypeInv
    BY DEF LineInv, TypeInv
  <1>2. CASE StatusReply
    <2> DEFINE doing == [job EXCEPT !.status = Reply.got[1]]
               commands == IF job.want = "deep" THEN <<Command("STOP", 0)>> ELSE <<>>
    <2>1. Answered("status") /\ Parses({"status"})
          /\ (End("ok", doing, <<>>) \/ Ask(commands, "rate", 0, doing))
      BY <1>2 DEF StatusReply
    <2>2. Mine(job) /\ job \in Jobs /\ Reply.got[1].of[1] = job.call
      BY <2>1, OwnRead DEF Mined
    <2>3. /\ doing.out = job.out /\ doing.waves = job.waves /\ doing.call = job.call
          /\ doing.status = Reply.got[1]
      BY <2>2 DEF Jobs
    <2> HIDE DEF doing, commands
    <2>4. Mined(doing, "rate")
      BY <2>2, <2>3 DEF Mine, Mined
    <2>5. "ok" # "frame"
      OBVIOUS
    <2> QED BY <2>1, <2>4, <2>5, OwnAsk, OwnEnd
  <1>3. CASE RateReply
    <2>1. Answered("rate") /\ AskPreamble(1, job)
      BY <1>3 DEF RateReply
    <2>2. Mine(job) /\ job \in Jobs /\ job.status.of[1] = job.call
      BY <2>1, OwnRead DEF Mined
    <2> QED BY <2>1, <2>2, OwnPreamble
  <1>4. CASE PreambleReply
    <2> DEFINE doing == [job EXCEPT !.points = Read[1], !.start = 1]
    <2>1. /\ Answered("preamble")
          /\ \/ AskScreen(doing)
             \/ End("RuntimeError", doing, <<>>)
             \/ AskPage(doing)
      BY <1>4 DEF PreambleReply
    <2>2. Mine(job) /\ job \in Jobs /\ job.status.of[1] = job.call
      BY <2>1, OwnRead DEF Mined
    <2>3. /\ doing.out = job.out /\ doing.waves = job.waves /\ doing.call = job.call
          /\ doing.status = job.status
      BY <2>2 DEF Jobs
    <2> HIDE DEF doing
    <2>4. Mined(doing, "data")
      BY <2>2, <2>3 DEF Mine, Mined
    <2>5. CASE End("RuntimeError", doing, <<>>)
      BY <2>5, OwnEnd
    <2>6. CASE AskScreen(doing) \/ AskPage(doing)
      <3>1. PICK commands : Ask(commands, "data", doing.ch, doing)
        BY <2>6 DEF AskScreen, AskPage
      <3> QED BY <2>4, <3>1, OwnAsk
    <2> QED BY <2>1, <2>5, <2>6
  <1>5. CASE PageReply
    <2> DEFINE doing == [job EXCEPT !.out = @ \o Reply.got, !.start = PageEnd(job) + 1]
    <2>1. /\ Answered("data") /\ Reply.is = "block"
          /\ NextChannel(doing) \/ AskPage(doing) \/ End("OSError", doing, <<>>)
      BY <1>5 DEF PageReply
    <2>2. /\ Mine(job) /\ job \in Jobs /\ job.status.of[1] = job.call /\ Reply.got \in Seq(Bytes)
          /\ \A i \in DOMAIN Reply.got : Reply.got[i].of[1] = job.call
      BY <2>1, OwnRead DEF Mined
    <2>3. Fits("data", query.arg[3], job)
      BY <1>1, <2>1, AnsweredTypes
    <2>4. job.out \in Seq(Bytes) /\ job.ch \in Channels /\ Len(job.waves) = job.ch - 1
      BY <2>2, <2>3 DEF Jobs, Fits
    <2>5. /\ doing.out = job.out \o Reply.got /\ doing.waves = job.waves /\ doing.call = job.call
          /\ doing.status = job.status
      BY <2>2 DEF Jobs
    <2> HIDE DEF doing
    <2>6. ASSUME NEW i \in DOMAIN doing.out PROVE doing.out[i].of[1] = job.call
      <3>1. PICK both \in Seq(Bytes) : both = job.out \o Reply.got
        BY <2>2, <2>4, Together, Zenon
      <3>2. Len(both) = Len(job.out) + Len(Reply.got)
        BY <2>2, <2>4, <3>1, Together, Zenon
      <3>3. \A k \in 1..Len(job.out) : both[k] = job.out[k]
        BY <2>2, <2>4, <3>1, Ahead, Zenon
      <3>4. \A k \in 1..Len(Reply.got) : both[Len(job.out) + k] = Reply.got[k]
        BY <2>2, <2>4, <3>1, Behind, Zenon
      <3>5. /\ Len(job.out) \in Nat /\ Len(Reply.got) \in Nat /\ DOMAIN both = 1..Len(both)
            /\ DOMAIN job.out = 1..Len(job.out) /\ DOMAIN Reply.got = 1..Len(Reply.got)
        BY <2>2, <2>4, <3>1, LenProperties
      <3>6. i \in 1..(Len(job.out) + Len(Reply.got))
        BY <2>5, <2>6, <3>1, <3>2, <3>5
      <3>7. CASE i \in 1..Len(job.out)
        BY <2>2, <2>5, <3>1, <3>3, <3>5, <3>7 DEF Mine
      <3>8. CASE i - Len(job.out) \in 1..Len(Reply.got)
        <4>1. PICK k \in 1..Len(Reply.got) : k = i - Len(job.out)
          BY <3>8
        <4>2. i = Len(job.out) + k
          BY <3>5, <3>6, <4>1
        <4>3. both[i] = Reply.got[k] /\ k \in DOMAIN Reply.got
          BY <3>4, <3>5, <4>1, <4>2
        <4> QED BY <2>2, <2>5, <3>1, <4>3
      <3>9. i \in 1..Len(job.out) \/ i - Len(job.out) \in 1..Len(Reply.got)
        <4>1. \A m, n \in Nat : \A k \in 1..(m + n) : k \in 1..m \/ k - m \in 1..n
          OBVIOUS
        <4> QED BY <3>5, <3>6, <4>1, Zenon
      <3> QED BY <3>7, <3>8, <3>9
    <2>7. Mine(doing) /\ Mined(doing, "data") /\ doing.status.of[1] = doing.call
      BY <2>2, <2>5, <2>6 DEF Mine, Mined
    <2>8. CASE End("OSError", doing, <<>>)
      BY <2>8, OwnEnd
    <2>9. CASE AskPage(doing)
      <3>1. PICK commands : Ask(commands, "data", doing.ch, doing)
        BY <2>9 DEF AskPage
      <3> QED BY <2>7, <3>1, OwnAsk
    <2>10. CASE NextChannel(doing)
      <3>1. doing \in Jobs
        <4>1. job.out \o Reply.got \in Seq(Bytes)
          BY <2>2, <2>4, Together, Zenon
        <4>2. PageEnd(job) + 1 \in Nat \ {0}
          <5>1. PICK a \in Nat, b \in Nat : a = job.start + RawChunk - 1 /\ b = job.points
            <6>1. job.start \in Nat \ {0} /\ job.points \in Nat /\ RawChunk \in Nat
              BY <2>2, Constants DEF Jobs
            <6>2. job.start + RawChunk - 1 \in Nat
              BY <6>1
            <6> QED BY <6>1, <6>2
          <5>2. PageEnd(job) \in Nat
            BY <5>1, MinOfTwo DEF PageEnd
          <5> QED BY <5>2
        <4> QED BY <2>2, <4>1, <4>2 DEF Jobs, doing
      <3> QED BY <1>1, <2>4, <2>5, <2>7, <2>10, <3>1, OwnChannel
    <2> QED BY <2>1, <2>8, <2>9, <2>10
  <1>6. CASE DisplayReply
    <2> DEFINE on == IF Parses({"display"}) THEN job.on + Read[1] ELSE job.on
               doing == [job EXCEPT !.on = on]
    <2>1. /\ Answered("display")
          /\ \/ Ask(<<>>, "display", query.arg[3] + 1, doing)
             \/ End("ok", doing, <<Command("RUN", 0), Command("MDEP", job.depth)>>)
             \/ End("ValueError", doing, <<>>)
      BY <1>6 DEF DisplayReply
    <2>2. Mine(job) /\ job \in Jobs
      BY <2>1, OwnRead DEF Mined
    <2> HIDE DEF on
    <2>3. doing.out = job.out /\ doing.waves = job.waves /\ doing.call = job.call
      BY <2>2 DEF Jobs
    <2> HIDE DEF doing
    <2>4. Mined(doing, "display")
      BY <2>2, <2>3 DEF Mine, Mined
    <2>5. "ok" # "frame" /\ "ValueError" # "frame"
      OBVIOUS
    <2> QED BY <2>1, <2>4, <2>5, OwnAsk, OwnEnd
  <1>7. CASE BadReply
    <2> DEFINE kind == IF Reply.is = "OSError" THEN "OSError" ELSE "ValueError"
    <2>1. kind # "frame" /\ End(kind, job, <<>>)
      BY <1>7 DEF BadReply
    <2> HIDE DEF kind
    <2> QED BY <2>1, OwnEnd
  <1> QED BY <1>2, <1>3, <1>4, <1>5, <1>6, <1>7 DEF HostStep

\* A call begins with nothing read.
LEMMA BeginOwn ==
    ASSUME FrameMine, NEW want, NEW depth, Begin(want, depth)
    PROVE  OwnInv' /\ FrameMine'
  <1> DEFINE doing == [NoJob EXCEPT !.call = outcome.job.call + 1, !.want = want, !.depth = depth,
                                    !.began = IF wire = <<>> THEN scope.mode ELSE "unknown"]
  <1>1. PICK about \in {"status", "display"}, ch \in {0, 1} : Ask(<<>>, about, ch, doing)
    BY DEF Begin
  <1>2. doing.out = <<>> /\ doing.waves = <<>>
    BY DEF NoJob
  <1> HIDE DEF doing
  <1>3. DOMAIN doing.out = {} /\ DOMAIN doing.waves = {}
    BY <1>2
  <1>4. Mined(doing, about)
    BY <1>3 DEF Mine, Mined
  <1> QED BY <1>1, <1>4, OwnAsk

\* Every step keeps what is read by the call that asked for it.
LEMMA NextOwn ==
    ASSUME LineInv, OwnInv, FrameMine, [Next]_vars
    PROVE  OwnInv' /\ FrameMine'
  <1>1. CASE \E want, depth : Begin(want, depth)
    BY <1>1, BeginOwn
  <1>2. CASE HostStep /\ ~lost
    BY <1>2, ReplyOwn
  <1>3. CASE HostStep /\ lost
    <2>1. lost'
      BY <1>3 DEF HostStep, StatusReply, RateReply, PreambleReply, PageReply, DisplayReply, BadReply, Answered
    <2>2. Asks \/ Ends
      BY <1>3, StatusTypes, RateTypes, PreambleTypes, PageTypes, DisplayTypes, BadTypes DEF HostStep, LineInv
    <2>3. ASSUME NEW kind, NEW done, NEW commands, End(kind, done, commands) PROVE ~outcome'.clean
      BY <1>3, <2>3 DEF End
    <2>4. outcome' = outcome \/ ~outcome'.clean
      <3>1. CASE Ends
        BY <2>3, <3>1 DEF Ends
      <3>2. CASE Asks
        <4>1. PICK commands, next, ch, doing : Ask(commands, next, ch, doing)
          BY <3>2, Zenon DEF Asks
        <4> QED BY <2>3, <4>1 DEF Ask
      <3> QED BY <2>2, <3>1, <3>2
    <2> QED BY <2>1, <2>4, SameFrame DEF OwnInv
  <1>4. CASE Timeout
    <2>1. End("OSError", job, <<>>) /\ "OSError" # "frame"
      BY <1>4 DEF Timeout
    <2> QED BY <2>1, OwnEnd
  <1>5. CASE (\E command \in Writes : Write(command)) \/ Reopen
    <2>1. pc' = "idle" /\ outcome' = outcome
      BY <1>5 DEF Write, Reopen, host
    <2> QED BY <2>1, SameFrame DEF OwnInv
  <1>6. CASE Execute \/ Acquire \/ Hangup \/ UNCHANGED vars
    <2>1. UNCHANGED <<host, lost>>
      BY <1>6 DEF Execute, Acquire, Hangup, vars
    <2>2. OwnInv'
      BY <2>1 DEF OwnInv, Mined, Mine, About, host
    <2> QED BY <2>1, <2>2, SameFrame DEF host
  <1> QED BY <1>1, <1>2, <1>3, <1>4, <1>5, <1>6 DEF Next

-----------------------------------------------------------------------------
\* A frame of a connection on which no read was given up is made of answers to the
\* very call that returns it; and if one read timed out, and no reply has more than two
\* lines, no later call passes off an answer to an earlier one as its frame, however
\* many calls follow, until the connection is opened anew.
THEOREM NothingStale == Spec => []NeverStale
  <1>1. Init => LagInv /\ OwnInv /\ FrameMine
    <2> SUFFICES ASSUME Init PROVE LagInv /\ OwnInv /\ FrameMine
      OBVIOUS
    <2>1. stream = <<>> /\ ~lost /\ outcome.kind = "none" /\ pc = "idle"
      BY DEF Init
    <2>2. Lines(<<>>) = 0
      BY EmptySeq, LinesCount
    <2>3. Lines(stream) <= 2
      <3> HIDE DEF Lines
      <3> QED BY <2>1, <2>2
    <2> QED BY <2>1, <2>3 DEF LagInv, Jammed, OwnInv, FrameMine
  <1>2. /\ LineInv /\ LagInv /\ [Next]_vars => LagInv'
        /\ LineInv /\ OwnInv /\ FrameMine /\ [Next]_vars => OwnInv' /\ FrameMine'
    BY NextLag, NextOwn
  <1>3. LagInv /\ FrameMine => NeverStale
    BY DEF LagInv, FrameMine, NeverStale
  <1>4. Spec => []LineInv
    BY LineInvariant
  <1> QED BY <1>1, <1>2, <1>3, <1>4, PTL DEF Spec

=============================================================================
