-------------------------- MODULE ScpiStreamLemmas --------------------------
(***************************************************************************)
(* Lemmas about ScpiStream for ScpiStreamProofs: what its values, replies  *)
(* and reads are, that every step keeps them so, whatever was sent or      *)
(* given up on the connection, and how lines and queries are counted.      *)
(***************************************************************************)
EXTENDS ScpiStream, FiniteSetTheorems, SequenceTheorems, TLAPS

-----------------------------------------------------------------------------
(* Types. *)

Modes == {"stopped", "armed", "running"}
Abouts == {"status", "rate", "preamble", "display", "data"}
Depths == UNION Range(MemoryDepths)
Points == Records \cup {0, Screen}
Arguments == Nat \X Abouts \X (0..NumChannels)
Values == Seq(Modes \cup Int)

\* No triggered record is shorter than the screen.
BigRecords == \A points \in Records : points >= Screen

\* Stop points a reader may leave behind.
Stops == {n \in Nat \ {0} : BigRecords => n >= Screen}

\* A text is a reply to some query.
TextOK(b) ==
    /\ b.of[2] = "status" => \E mode \in Modes, frame \in Nat : b.val = <<mode, frame>>
    /\ b.of[2] = "preamble" => \E points \in Points : b.val = <<points>>
    /\ b.of[2] = "display" => b.val = <<0>> \/ b.val = <<1>>

AnyByte == [is : {"text", "end", "hash", "len", "data"}, of : Arguments, val : Values]
Bytes == {b \in AnyByte : b.is = "text" => TextOK(b)}

Ops == {"?", "RUN", "STOP", "SINGLE", "DISP", "MDEP", "SOUR", "MODE", "STAR", "STOPAT"}
Operands == Int \cup BOOLEAN \cup (Channels \X BOOLEAN) \cup Depths \cup Arguments

CommandOK(c) ==
    /\ c.op = "?" => c.arg \in Arguments
    /\ c.op = "DISP" => c.arg \in Channels \X BOOLEAN
    /\ c.op = "SOUR" => c.arg \in Channels
    /\ c.op = "MODE" => c.arg \in BOOLEAN
    /\ c.op = "STAR" => c.arg \in Nat \ {0}
    /\ c.op = "STOPAT" => c.arg \in Stops

Sent == {c \in [op : Ops, arg : Operands] : CommandOK(c)}

Jobs == [call : Nat, want : Wants, depth : Depths \cup {0}, began : Modes \cup {"unknown"},
         status : Bytes, ch : 0..NumChannels, start : Nat \ {0}, points : Points,
         out : Seq(Bytes), waves : Seq(Seq(Bytes)), on : Nat]

Kinds == {"none", "ok", "frame", "ValueError", "RuntimeError", "OSError"}

Scopes == [mode : Modes, frame : 0..MaxFrames, points : Records \cup {0}, src : Channels,
           raw : BOOLEAN, start : Nat \ {0}, stop : Stops, on : SUBSET Channels]

-----------------------------------------------------------------------------
(* Lemmas about values, commands and sets of numbers. *)

\* Constants, one by one.
LEMMA Constants ==
    /\ NumChannels \in Nat /\ NumChannels >= 1 /\ RawChunk \in Nat /\ RawChunk >= 1
    /\ Screen \in Nat /\ Screen >= 1 /\ Screen <= RawChunk
    /\ Records \subseteq Nat /\ 0 \notin Records /\ Switched \subseteq Channels
    /\ MaxFrames \in Nat /\ 1 \in Channels /\ Channels \subseteq 0..NumChannels
    /\ Points \subseteq Nat
  BY BoundAssumption, PageAssumption DEF Channels, Points

\* One sequence after another.
LEMMA Joined ==
    ASSUME NEW S, NEW s \in Seq(S), NEW t \in Seq(S)
    PROVE  /\ s \o t \in Seq(S) /\ Len(s \o t) = Len(s) + Len(t)
           /\ \A i \in 1..Len(s) : (s \o t)[i] = s[i]
           /\ \A i \in 1..Len(t) : (s \o t)[Len(s) + i] = t[i]
  <1>1. Len(s) \in Nat /\ Len(t) \in Nat
    BY LenProperties
  <1>2. /\ s \o t \in Seq(S) /\ Len(s \o t) = Len(s) + Len(t)
        /\ \A i \in 1..(Len(s) + Len(t)) : (s \o t)[i] = IF i <= Len(s) THEN s[i] ELSE t[i - Len(s)]
    BY ConcatProperties
  <1>3. \A i \in 1..Len(s) : i \in 1..(Len(s) + Len(t)) /\ i <= Len(s)
    BY <1>1
  <1>4. \A i \in 1..Len(t) : /\ Len(s) + i \in 1..(Len(s) + Len(t)) /\ ~ (Len(s) + i <= Len(s))
                            /\ (Len(s) + i) - Len(s) = i
    BY <1>1
  <1> QED BY <1>2, <1>3, <1>4

\* Two sequences are one.
LEMMA Together ==
    \A h, d \in Seq(Bytes) : h \o d \in Seq(Bytes) /\ Len(h \o d) = Len(h) + Len(d)
  BY Joined

\* The elements of the first of two sequences.
LEMMA Ahead ==
    \A h, d \in Seq(Bytes) : \A i \in 1..Len(h) : (h \o d)[i] = h[i]
  BY Joined

\* The elements of the second of two sequences.
LEMMA Behind ==
    \A h, d \in Seq(Bytes) : \A i \in 1..Len(d) : (h \o d)[Len(h) + i] = d[i]
  BY Joined

\* Values are short tuples.
LEMMA ValueTuples ==
    /\ <<>> \in Values
    /\ \A a \in Modes \cup Int : <<a>> \in Values /\ <<a>>[1] = a /\ Len(<<a>>) = 1
    /\ \A a, b \in Modes \cup Int : <<a, b>> \in Values
    /\ \A a, b, c \in Modes \cup Int : <<a, b, c>> \in Values
  BY DEF Values

\* A nonempty set of numbers has a least one, and Min is it.
LEMMA MinIsLeast ==
    ASSUME NEW S \in SUBSET Nat, S # {}
    PROVE  Min(S) \in S /\ \A n \in S : Min(S) <= n
  <1> DEFINE Upto(x) == S \cap 0..x
             T == {Upto(x) : x \in S}
  <1>1. ASSUME NEW x \in S PROVE IsFiniteSet(Upto(x)) /\ Upto(x) \subseteq S
    <2>1. IsFiniteSet(0..x)
      BY FS_Interval
    <2> QED BY <2>1, FS_Subset
  <1>2. T \subseteq FiniteSubsetsOf(S) /\ T # {}
    BY <1>1 DEF FiniteSubsetsOf
  <1>3. PICK t \in T : \A u \in T : ~ (<<u, t>> \in StrictSubsetOrdering(S))
    <2> HIDE DEF T
    <2> QED BY <1>2, FS_StrictSubsetOrderingWellFounded, WFMin
  <1>4. PICK x \in S : t = Upto(x)
    OBVIOUS
  <1>5. ASSUME NEW y \in S, y < x PROVE FALSE
    <2>1. Upto(y) \in T /\ Upto(y) \subseteq Upto(x) /\ x \in Upto(x) /\ x \notin Upto(y)
      BY <1>5
    <2>2. <<Upto(y), t>> \in StrictSubsetOrdering(S)
      <3>1. Upto(y) \in SUBSET S /\ t \in SUBSET S /\ Upto(y) \subseteq t /\ Upto(y) # t
        BY <2>1, <1>1, <1>4
      <3> HIDE DEF Upto
      <3> QED BY <3>1 DEF StrictSubsetOrdering
    <2> QED BY <2>1, <2>2, <1>3
  <1>6. \A y \in S : x <= y
    BY <1>5
  <1>7. Min(S) \in S /\ \A y \in S : Min(S) <= y
    <2>1. \E n \in S : \A y \in S : n <= y
      BY <1>6
    <2> QED BY <2>1 DEF Min
  <1> QED BY <1>7

\* Of two numbers Min takes the lesser.
LEMMA MinOfTwo ==
    ASSUME NEW a \in Nat, NEW b \in Nat
    PROVE  Min({a, b}) = IF a <= b THEN a ELSE b
  <1>1. {a, b} \in SUBSET Nat /\ {a, b} # {}
    OBVIOUS
  <1>2. Min({a, b}) \in {a, b} /\ \A n \in {a, b} : Min({a, b}) <= n
    BY <1>1, MinIsLeast
  <1> QED BY <1>2

\* The number of the first of an interval, and how many it has.
LEMMA Interval ==
    ASSUME NEW a \in Nat, NEW b \in Nat, a <= b + 1
    PROVE  /\ Cardinality(a..b) = b - a + 1
           /\ a <= b => Min(a..b) = a
  <1>1. Cardinality(a..b) = b - a + 1
    BY FS_Interval
  <1>2. ASSUME a <= b PROVE Min(a..b) = a
    <2>1. a..b \in SUBSET Nat /\ a..b # {} /\ a \in a..b
      BY <1>2
    <2>2. Min(a..b) \in a..b /\ Min(a..b) <= a
      BY <2>1, MinIsLeast
    <2> QED BY <2>2
  <1> QED BY <1>1, <1>2

\* The pages of a read end at a legal stop point.
LEMMA PageLimit ==
    ASSUME NEW a \in Nat \ {0}, NEW b \in Points \ {0}
    PROVE  LET end == Min({a + RawChunk - 1, b})
           IN  end = (IF a + RawChunk - 1 <= b THEN a + RawChunk - 1 ELSE b) /\ end \in Stops
  <1>1. a + RawChunk - 1 \in Nat /\ b \in Nat /\ a + RawChunk - 1 >= RawChunk /\ RawChunk \in Nat
    BY Constants
  <1>2. Min({a + RawChunk - 1, b}) = IF a + RawChunk - 1 <= b THEN a + RawChunk - 1 ELSE b
    BY <1>1, MinOfTwo
  <1>3. BigRecords => b >= Screen
    BY Constants DEF BigRecords, Points
  <1> QED BY <1>1, <1>2, <1>3, Constants DEF Stops

\* The pages of a job.
LEMMA PageEnds ==
    ASSUME NEW j \in Jobs, j.points # 0
    PROVE  /\ PageEnd(j) = IF j.start + RawChunk - 1 <= j.points
                           THEN j.start + RawChunk - 1 ELSE j.points
           /\ PageEnd(j) \in Stops
  <1>1. j.start \in Nat \ {0} /\ j.points \in Points \ {0}
    BY DEF Jobs
  <1> QED BY <1>1, PageLimit DEF PageEnd

-----------------------------------------------------------------------------
(* Reading a reply. *)

\* What is left of a sequence of bytes.
LEMMA FromFacts ==
    ASSUME NEW s \in Seq(Bytes), NEW n \in 1..(Len(s) + 1)
    PROVE  /\ From(s, n) \in Seq(Bytes) /\ Len(From(s, n)) = Len(s) - n + 1
           /\ \A i \in 1..(Len(s) - n + 1) : From(s, n)[i] = s[n + i - 1]
           /\ n = Len(s) + 1 => From(s, n) = <<>>
  <1>1. Len(s) \in Nat /\ n \in Int /\ n >= 1 /\ n <= Len(s) + 1
    BY LenProperties
  <1>2. \A i \in n..Len(s) : s[i] \in Bytes
    BY <1>1, ElementOfSeq
  <1>3. /\ From(s, n) \in Seq(Bytes)
        /\ Len(From(s, n)) = IF n <= Len(s) THEN Len(s) - n + 1 ELSE 0
        /\ \A i \in 1..(Len(s) - n + 1) : From(s, n)[i] = s[n + i - 1]
    BY <1>1, <1>2, SubSeqProperties DEF From
  <1>4. n = Len(s) + 1 => From(s, n) = <<>>
    BY <1>1, <1>3, EmptySeq
  <1> QED BY <1>1, <1>3, <1>4

\* The first bytes of a sequence.
LEMMA UptoFacts ==
    ASSUME NEW s \in Seq(Bytes), NEW m \in 1..(Len(s) + 1), NEW n \in (m - 1)..Len(s)
    PROVE  /\ SubSeq(s, m, n) \in Seq(Bytes) /\ Len(SubSeq(s, m, n)) = n - m + 1
           /\ \A i \in 1..(n - m + 1) : SubSeq(s, m, n)[i] = s[m + i - 1]
  <1>1. Len(s) \in Nat /\ m \in Int /\ n \in Int /\ m >= 1 /\ n <= Len(s) /\ n >= m - 1
    BY LenProperties
  <1>2. \A i \in m..n : s[i] \in Bytes
    BY <1>1, ElementOfSeq
  <1>3. /\ SubSeq(s, m, n) \in Seq(Bytes)
        /\ Len(SubSeq(s, m, n)) = IF m <= n THEN n - m + 1 ELSE 0
        /\ \A i \in 1..(n - m + 1) : SubSeq(s, m, n)[i] = s[m + i - 1]
    BY <1>1, <1>2, SubSeqProperties
  <1> QED BY <1>1, <1>3

\* What is left of what is left.
LEMMA FromFrom ==
    ASSUME NEW s \in Seq(Bytes), NEW m \in 1..(Len(s) + 1), NEW n \in 1..(Len(From(s, m)) + 1)
    PROVE  m + n - 1 \in 1..(Len(s) + 1) /\ From(From(s, m), n) = From(s, m + n - 1)
  <1> DEFINE r == From(s, m)
             k == m + n - 1
  <1>1. Len(s) \in Nat
    BY LenProperties
  <1>2. /\ r \in Seq(Bytes) /\ Len(r) = Len(s) - m + 1
        /\ \A i \in 1..(Len(s) - m + 1) : r[i] = s[m + i - 1]
    BY FromFacts
  <1> HIDE DEF r
  <1>3. k \in 1..(Len(s) + 1)
    BY <1>1, <1>2 DEF r
  <1>4. /\ From(r, n) \in Seq(Bytes) /\ Len(From(r, n)) = Len(r) - n + 1
        /\ \A i \in 1..(Len(r) - n + 1) : From(r, n)[i] = r[n + i - 1]
    <2>1. n \in 1..(Len(r) + 1)
      BY DEF r
    <2> QED BY <1>2, <2>1, FromFacts
  <1>5. /\ From(s, k) \in Seq(Bytes) /\ Len(From(s, k)) = Len(s) - k + 1
        /\ \A i \in 1..(Len(s) - k + 1) : From(s, k)[i] = s[k + i - 1]
    BY <1>3, FromFacts
  <1>6. Len(From(r, n)) = Len(From(s, k))
    BY <1>1, <1>2, <1>4, <1>5
  <1>7. ASSUME NEW i \in 1..Len(From(r, n)) PROVE From(r, n)[i] = From(s, k)[i]
    <2>1. n \in Int /\ m \in Int /\ n >= 1 /\ m >= 1 /\ n <= Len(r) + 1
      BY <1>1, <1>2 DEF r
    <2>2. i \in 1..(Len(r) - n + 1) /\ n + i - 1 \in 1..(Len(s) - m + 1) /\ i \in 1..(Len(s) - k + 1)
      BY <1>1, <1>2, <1>4, <2>1
    <2>3. From(r, n)[i] = s[m + (n + i - 1) - 1] /\ From(s, k)[i] = s[k + i - 1]
      BY <1>2, <1>4, <1>5, <2>2
    <2>4. m + (n + i - 1) - 1 = k + i - 1
      BY <2>1, <2>2
    <2> QED BY <2>3, <2>4
  <1>8. From(r, n) = From(s, k)
    BY <1>4, <1>5, <1>6, <1>7, SeqEqual
  <1> QED BY <1>3, <1>8 DEF r

\* A line ends at the first byte that ends lines.
LEMMA LineFacts ==
    ASSUME NEW s \in Seq(Bytes)
    PROVE  /\ LineOf(s).is \in {"line", "wait"} /\ LineOf(s).got \in Seq(Bytes)
           /\ \E k \in 1..(Len(s) + 1) : LineOf(s).rest = From(s, k)
           /\ LineOf(s).is = "wait" <=> LineEnds(s) = {} /\ ~closed
           /\ LineEnds(s) = {} => LineOf(s).got = s /\ LineOf(s).rest = <<>>
  <1>1. Len(s) \in Nat /\ DOMAIN s = 1..Len(s)
    BY LenProperties
  <1>2. CASE LineEnds(s) = {}
    <2>1. LineOf(s) = [is |-> IF closed THEN "line" ELSE "wait", got |-> s, rest |-> <<>>]
      BY <1>2 DEF LineOf
    <2>2. From(s, Len(s) + 1) = <<>> /\ Len(s) + 1 \in 1..(Len(s) + 1)
      BY <1>1, FromFacts
    <2> QED BY <1>2, <2>1, <2>2
  <1>3. CASE LineEnds(s) # {}
    <2> DEFINE i == Min(LineEnds(s))
    <2>1. LineEnds(s) \in SUBSET Nat
      BY <1>1 DEF LineEnds
    <2>2. i \in 1..Len(s)
      BY <1>1, <1>3, <2>1, MinIsLeast DEF LineEnds
    <2>3. LineOf(s) = [is |-> "line", got |-> SubSeq(s, 1, i - 1), rest |-> From(s, i + 1)]
      BY <1>3 DEF LineOf
    <2> HIDE DEF i
    <2>4. i + 1 \in 1..(Len(s) + 1) /\ 1 \in 1..(Len(s) + 1) /\ i - 1 \in (1 - 1)..Len(s)
      BY <1>1, <2>2
    <2>5. SubSeq(s, 1, i - 1) \in Seq(Bytes)
      BY <2>4, UptoFacts
    <2> QED BY <1>3, <2>3, <2>4, <2>5
  <1> QED BY <1>2, <1>3

\* The header of a block says how long it is.
Hashed(s) ==
    \A i \in DOMAIN s : s[i].is = "hash" /\ i + 1 \in DOMAIN s => \E n \in Nat : s[i + 1].val = <<n>>

\* While the connection is open no block is cut off.
Whole(s) ==
    \A i \in DOMAIN s : s[i].is = "hash" =>
        \E n \in Nat : /\ i + 1 \in DOMAIN s /\ s[i + 1].val = <<n>>
                       /\ i + 2 + n \in DOMAIN s /\ s[i + 2 + n].is = "end"

\* Whole blocks have their length behind the hash.
LEMMA WholeHashed ==
    ASSUME NEW s, Whole(s)
    PROVE  Hashed(s)
  BY DEF Whole, Hashed

\* What a read makes of the bytes that are there.
LEMMA BlockFacts ==
    ASSUME NEW s \in Seq(Bytes), Hashed(s)
    PROVE  /\ BlockOf(s).is \in {"block", "wait", "ValueError", "OSError"} /\ BlockOf(s).got \in Seq(Bytes)
           /\ \E k \in 1..(Len(s) + 1) : BlockOf(s).rest = From(s, k)
  <1>1. Len(s) \in Nat /\ DOMAIN s = 1..Len(s) /\ <<>> \in Seq(Bytes)
    BY LenProperties, EmptySeq
  <1>2. CASE s # <<>> /\ s[1].is # "hash"
    <2>1. BlockOf(s) = [is |-> "ValueError", got |-> <<>>, rest |-> Tail(s)]
      BY <1>2 DEF BlockOf, Raised
    <2>2. Tail(s) = From(s, 2) /\ Len(s) >= 1
      BY <1>1, <1>2, TailIsSubSeq, EmptySeq DEF From
    <2>3. 2 \in 1..(Len(s) + 1)
      BY <1>1, <2>2
    <2> QED BY <1>1, <2>1, <2>2, <2>3
  <1>3. CASE ~ (s # <<>> /\ s[1].is # "hash") /\ (Len(s) < 2 \/ Len(s) < 2 + s[2].val[1])
    <2>1. BlockOf(s) = [is |-> IF closed THEN "OSError" ELSE "wait", got |-> <<>>, rest |-> <<>>]
      BY <1>3 DEF BlockOf, Raised
    <2>2. From(s, Len(s) + 1) = <<>> /\ Len(s) + 1 \in 1..(Len(s) + 1)
      BY <1>1, FromFacts
    <2> QED BY <1>1, <2>1, <2>2
  <1>4. CASE ~ (s # <<>> /\ s[1].is # "hash") /\ ~ (Len(s) < 2 \/ Len(s) < 2 + s[2].val[1])
    <2> DEFINE size == s[2].val[1]
               rest == From(s, size + 3)
    <2>1. Len(s) >= 2
      BY <1>1, <1>4
    <2>2. s # <<>> /\ s[1].is = "hash" /\ 1 \in DOMAIN s /\ 1 + 1 \in DOMAIN s
      BY <1>1, <1>4, <2>1, EmptySeq
    <2>3. size \in Nat
      <3>1. PICK n \in Nat : s[2].val = <<n>>
        BY <2>2 DEF Hashed
      <3> QED BY <3>1
    <2>4. Len(s) >= 2 + size
      BY <1>1, <1>4, <2>3
    <2>5. BlockOf(s) = [is |-> IF LineOf(rest).is = "wait" THEN "wait" ELSE "block",
                        got |-> SubSeq(s, 3, size + 2), rest |-> LineOf(rest).rest]
      BY <1>4 DEF BlockOf
    <2> HIDE DEF size
    <2>6. size + 3 \in 1..(Len(s) + 1) /\ 3 \in 1..(Len(s) + 1) /\ size + 2 \in (3 - 1)..Len(s)
      BY <1>1, <2>1, <2>3, <2>4
    <2>7. SubSeq(s, 3, size + 2) \in Seq(Bytes)
      BY <2>6, UptoFacts
    <2>8. rest \in Seq(Bytes)
      BY <2>6, FromFacts
    <2>9. PICK k \in 1..(Len(rest) + 1) : LineOf(rest).rest = From(rest, k)
      BY <2>8, LineFacts
    <2>10. \E l \in 1..(Len(s) + 1) : LineOf(rest).rest = From(s, l)
      BY <2>6, <2>9, FromFrom
    <2> HIDE DEF rest
    <2> QED BY <2>5, <2>7, <2>10
  <1> QED BY <1>2, <1>3, <1>4

\* A read takes bytes from the front, and nothing else.
LEMMA ReplyFacts ==
    ASSUME stream \in Seq(Bytes), Hashed(stream)
    PROVE  /\ Reply.got \in Seq(Bytes)
           /\ \E k \in 1..(Len(stream) + 1) : Reply.rest = From(stream, k)
           /\ IF About = "data" THEN Reply.is \in {"block", "wait", "ValueError", "OSError"}
              ELSE Reply.is \in {"line", "wait"}
  BY BlockFacts, LineFacts DEF Reply, ReplyIn

-----------------------------------------------------------------------------
(* What a call asks for next fits what it wants and what it has, even on a    *)
(* connection that is out of step.                                            *)

Fits(about, ch, j) ==
    /\ about = "status" => j.want \in {"poll", "screen", "deep"}
    /\ about \in {"rate", "preamble", "data"} => j.want \in {"screen", "deep"}
    /\ about = "display" => j.want = "depth" /\ ch \in Channels
    /\ about \in {"status", "rate"} => j.waves = <<>>
    /\ about \in {"preamble", "data"} => j.ch \in Channels /\ ch = j.ch /\ Len(j.waves) = j.ch - 1
    /\ about = "preamble" => j.out = <<>>
    /\ about = "data" /\ j.want = "screen" => j.out = <<>>
    /\ about = "data" /\ j.want = "deep" => j.start <= j.points /\ j.points # 0

HostTypes ==
    /\ pc \in {"idle", "reply"} /\ job \in Jobs
    /\ query \in [op : {"?"}, arg : Arguments]
    /\ outcome \in [kind : Kinds, clean : BOOLEAN, job : Jobs]
    /\ wire \in Seq(Sent)
    /\ closed => wire = <<>>
    /\ pc = "reply" => Fits(About, query.arg[3], job)

LineTypes ==
    /\ stream \in Seq(Bytes) /\ Hashed(stream)
    /\ ~closed => Whole(stream)
    /\ closed \in BOOLEAN /\ lost \in BOOLEAN /\ timeouts \in Nat
    /\ scope \in Scopes

TypeInv == HostTypes /\ LineTypes

\* Commands that are not answered.
Plain == {c \in Sent : ~IsQuery(c)}

NoQuery(commands) == \A i \in DOMAIN commands : ~IsQuery(commands[i])

\* Commands that are not answered are commands, and none is a query.
LEMMA PlainCommands ==
    ASSUME NEW commands \in Seq(Plain)
    PROVE  commands \in Seq(Sent) /\ NoQuery(commands)
  <1>1. DOMAIN commands = 1..Len(commands)
    BY LenProperties
  <1>2. \A i \in DOMAIN commands : commands[i] \in Plain
    BY <1>1, ElementOfSeq
  <1>3. commands \in Seq(Sent)
    <2>1. Plain \subseteq Sent
      BY DEF Plain
    <2> QED BY <2>1
  <1> QED BY <1>2, <1>3 DEF Plain, NoQuery

\* A step of the driver asks a query, or the call ends.
Asks ==
    \E commands \in Seq(Plain), about \in Abouts, ch \in 0..NumChannels, doing \in Jobs :
        Ask(commands, about, ch, doing)
Ends ==
    \E kind \in Kinds, done \in Jobs, commands \in Seq(Plain) : End(kind, done, commands)

\* The commands the driver sends.
LEMMA Commands ==
    /\ Command("RUN", 0) \in Plain /\ Command("STOP", 0) \in Plain /\ Command("SINGLE", 0) \in Plain
    /\ \A ch \in Channels : Command("SOUR", ch) \in Plain
    /\ \A raw \in BOOLEAN : Command("MODE", raw) \in Plain
    /\ \A n \in Nat \ {0} : Command("STAR", n) \in Plain
    /\ \A n \in Stops : Command("STOPAT", n) \in Plain
    /\ \A d \in Depths : Command("MDEP", d) \in Plain
    /\ \A d \in Channels \X BOOLEAN : Command("DISP", d) \in Plain
    /\ \A q \in [op : {"?"}, arg : Arguments] : q \in Sent
  <1>1. Channels \subseteq Int /\ Stops \subseteq Int
    BY DEF Channels, Stops
  <1> QED BY <1>1 DEF Plain, Sent, Ops, Operands, CommandOK, Command, IsQuery

\* A job that has just begun.
LEMMA FreshJob ==
    /\ NoJob \in Jobs /\ NoJob.waves = <<>> /\ NoJob.out = <<>>
    /\ \A call \in Nat, want \in Wants : [NoJob EXCEPT !.call = call, !.want = want] \in Jobs
    /\ \A call \in Nat, want \in Wants, depth \in Depths \cup {0}, began \in Modes \cup {"unknown"} :
           [NoJob EXCEPT !.call = call, !.want = want, !.depth = depth, !.began = began] \in Jobs
  <1>1. <<0, "status", 0>> \in Arguments
    BY Constants DEF Arguments, Abouts
  <1>2. <<"stopped", 0>> \in Values
    <2>1. "stopped" \in Modes \cup Int /\ 0 \in Modes \cup Int
      BY DEF Modes
    <2> QED BY <2>1, ValueTuples
  <1>3. NoStatus \in Bytes
    BY <1>1, <1>2, Zenon DEF NoStatus, Byte, Bytes, AnyByte, TextOK, Modes
  <1>4. <<>> \in Seq(Bytes) /\ <<>> \in Seq(Seq(Bytes)) /\ 0 \in 0..NumChannels /\ 0 \in Points
    BY EmptySeq, Constants DEF Points
  <1>5. NoJob \in Jobs
    BY <1>3, <1>4 DEF NoJob, Jobs, Wants, Modes
  <1>6. NoJob.waves = <<>> /\ NoJob.out = <<>>
    BY DEF NoJob
  <1> QED BY <1>5, <1>6 DEF Jobs

\* A query is well formed.
LEMMA QueryTypes ==
    ASSUME NEW j \in Jobs, NEW about \in Abouts, NEW ch \in 0..NumChannels
    PROVE  /\ Query(j.call, about, ch) \in [op : {"?"}, arg : Arguments]
           /\ Query(j.call, about, ch).arg[2] = about /\ Query(j.call, about, ch).arg[3] = ch
  BY DEF Query, Arguments, Jobs

\* A call that ends.
LEMMA EndTypes ==
    ASSUME HostTypes, lost \in BOOLEAN, NEW kind \in Kinds, NEW done \in Jobs,
           NEW commands \in Seq(Plain), End(kind, done, commands)
    PROVE  /\ pc' = "idle" /\ job' \in Jobs /\ query' = query
           /\ query' \in [op : {"?"}, arg : Arguments]
           /\ outcome' \in [kind : Kinds, clean : BOOLEAN, job : Jobs]
           /\ wire' \in Seq(Sent) /\ (closed => wire' = <<>>)
  <1>1. done.call \in Nat /\ done.want \in Wants
    BY DEF Jobs
  <1>2. [NoJob EXCEPT !.call = done.call, !.want = done.want] \in Jobs
    BY <1>1, FreshJob
  <1>3. outcome' \in [kind : Kinds, clean : BOOLEAN, job : Jobs]
    <2> DEFINE j == IF kind = "frame" THEN done ELSE [NoJob EXCEPT !.call = done.call, !.want = done.want]
    <2>1. j \in Jobs
      BY <1>2
    <2>2. outcome' = [kind |-> kind, clean |-> ~lost, job |-> j]
      BY DEF End
    <2> HIDE DEF j
    <2> QED BY <2>1, <2>2
  <1>4. wire \o commands \in Seq(Sent)
    BY ConcatProperties, PlainCommands DEF HostTypes
  <1> QED BY <1>3, <1>4, FreshJob DEF End, HostTypes

\* A call that ends leaves the host well typed.
LEMMA EndHost ==
    ASSUME HostTypes, lost \in BOOLEAN, NEW kind \in Kinds, NEW done \in Jobs,
           NEW commands \in Seq(Plain), End(kind, done, commands), closed' = closed
    PROVE  HostTypes' /\ (Asks \/ Ends)
  <1>1. HostTypes'
    BY EndTypes DEF HostTypes
  <1>2. Ends
    BY DEF Ends
  <1> QED BY <1>1, <1>2

\* A call that asks on, or finds the connection closed.
LEMMA AskTypes ==
    ASSUME HostTypes, lost \in BOOLEAN, NEW commands \in Seq(Plain), NEW about \in Abouts,
           NEW ch \in 0..NumChannels, NEW doing \in Jobs, Fits(about, ch, doing),
           Ask(commands, about, ch, doing), closed' = closed
    PROVE  HostTypes' /\ (Asks \/ Ends)
  <1> SUFFICES HostTypes'
    BY DEF Asks
  <1>1. CASE closed /\ End("OSError", doing, <<>>)
    <2>1. <<>> \in Seq(Plain) /\ "OSError" \in Kinds
      BY EmptySeq DEF Kinds
    <2> QED BY <1>1, <2>1, EndHost
  <1>2. CASE ~ (closed /\ End("OSError", doing, <<>>))
    <2>1. /\ query' = Query(doing.call, about, ch) /\ job' = doing /\ pc' = "reply" /\ outcome' = outcome
          /\ wire' = IF closed THEN wire ELSE wire \o Append(commands, query')
      BY <1>2 DEF Ask
    <2>2. query' \in [op : {"?"}, arg : Arguments] /\ query'.arg[2] = about /\ query'.arg[3] = ch
      BY <2>1, QueryTypes
    <2>3. Append(commands, query') \in Seq(Sent)
      BY <2>2, Commands, PlainCommands, AppendProperties
    <2>4. wire \o Append(commands, query') \in Seq(Sent)
      BY <2>3, ConcatProperties DEF HostTypes
    <2>5. wire' \in Seq(Sent) /\ (closed' => wire' = <<>>)
      BY <2>1, <2>4 DEF HostTypes
    <2>6. Fits(About, query.arg[3], job)'
      BY <2>1, <2>2 DEF About, Fits
    <2> QED BY <2>1, <2>2, <2>5, <2>6 DEF HostTypes
  <1> QED BY <1>1, <1>2

\* What is left of a stream whose headers are right.
LEMMA HashedFrom ==
    ASSUME NEW s \in Seq(Bytes), Hashed(s), NEW k \in 1..(Len(s) + 1)
    PROVE  Hashed(From(s, k))
  <1> DEFINE r == From(s, k)
  <1>1. Len(s) \in Nat /\ DOMAIN s = 1..Len(s)
    BY LenProperties
  <1>2. r \in Seq(Bytes) /\ Len(r) = Len(s) - k + 1 /\ \A i \in 1..(Len(s) - k + 1) : r[i] = s[k + i - 1]
    BY FromFacts
  <1>3. DOMAIN r = 1..(Len(s) - k + 1)
    BY <1>2, LenProperties
  <1> HIDE DEF r
  <1>4. ASSUME NEW i \in DOMAIN r, r[i].is = "hash", i + 1 \in DOMAIN r
        PROVE  \E n \in Nat : r[i + 1].val = <<n>>
    <2>1. r[i] = s[k + i - 1] /\ r[i + 1] = s[k + (i + 1) - 1]
      BY <1>2, <1>3, <1>4
    <2>2. k + i - 1 \in DOMAIN s /\ k + (i + 1) - 1 = (k + i - 1) + 1 /\ (k + i - 1) + 1 \in DOMAIN s
      BY <1>1, <1>3, <1>4
    <2> QED BY <1>4, <2>1, <2>2 DEF Hashed
  <1> QED BY <1>4 DEF Hashed, r

\* The first bytes of a stream whose headers are right.
LEMMA HashedUpto ==
    ASSUME NEW s \in Seq(Bytes), Hashed(s), NEW n \in 0..Len(s)
    PROVE  SubSeq(s, 1, n) \in Seq(Bytes) /\ Hashed(SubSeq(s, 1, n))
  <1> DEFINE r == SubSeq(s, 1, n)
  <1>1. Len(s) \in Nat /\ DOMAIN s = 1..Len(s)
    BY LenProperties
  <1>2. r \in Seq(Bytes) /\ Len(r) = n /\ \A i \in 1..n : r[i] = s[i]
    BY <1>1, UptoFacts
  <1>3. DOMAIN r = 1..n
    BY <1>2, LenProperties
  <1> HIDE DEF r
  <1>4. Hashed(r)
    BY <1>1, <1>2, <1>3 DEF Hashed
  <1> QED BY <1>2, <1>4 DEF r

\* What is left of a stream whose blocks are whole.
LEMMA WholeFrom ==
    ASSUME NEW s \in Seq(Bytes), Whole(s), NEW k \in 1..(Len(s) + 1)
    PROVE  Whole(From(s, k))
  <1> DEFINE r == From(s, k)
  <1>1. Len(s) \in Nat /\ DOMAIN s = 1..Len(s)
    BY LenProperties
  <1>2. r \in Seq(Bytes) /\ Len(r) = Len(s) - k + 1 /\ \A i \in 1..(Len(s) - k + 1) : r[i] = s[k + i - 1]
    BY FromFacts
  <1>3. DOMAIN r = 1..(Len(s) - k + 1)
    BY <1>2, LenProperties
  <1> HIDE DEF r
  <1>4. ASSUME NEW i \in DOMAIN r, r[i].is = "hash"
        PROVE  \E n \in Nat : /\ i + 1 \in DOMAIN r /\ r[i + 1].val = <<n>>
                              /\ i + 2 + n \in DOMAIN r /\ r[i + 2 + n].is = "end"
    <2> DEFINE m == k + i - 1
    <2>1. r[i] = s[m] /\ m \in DOMAIN s
      BY <1>1, <1>2, <1>3
    <2> HIDE DEF m
    <2>2. PICK n \in Nat : /\ m + 1 \in DOMAIN s /\ s[m + 1].val = <<n>>
                           /\ m + 2 + n \in DOMAIN s /\ s[m + 2 + n].is = "end"
      BY <1>4, <2>1 DEF Whole
    <2> DEFINE a == i + 1
               b == i + 2 + n
    <2>3. i \in Int /\ i >= 1 /\ k \in Int /\ k >= 1 /\ m = k + i - 1 /\ n \in Nat
      BY <1>1, <1>3 DEF m
    <2>4. m + 1 <= Len(s) /\ m + 2 + n <= Len(s)
      BY <1>1, <2>2
    <2>5. /\ a \in 1..(Len(s) - k + 1) /\ b \in 1..(Len(s) - k + 1)
          /\ k + a - 1 = m + 1 /\ k + b - 1 = m + 2 + n
      <3>2. k + a - 1 = m + 1 /\ k + b - 1 = m + 2 + n
        BY <2>3
      <3>3. a >= 1 /\ b >= 1 /\ a \in Int /\ b \in Int
        BY <2>3
      <3>4. a <= Len(s) - k + 1 /\ b <= Len(s) - k + 1
        BY <1>1, <2>3, <2>4
      <3>5. Len(s) - k + 1 \in Int
        BY <1>1, <2>3
      <3> QED BY <3>2, <3>3, <3>4, <3>5
    <2> HIDE DEF a, b
    <2>6. r[a] = s[m + 1] /\ r[b] = s[m + 2 + n]
      <3>1. r[a] = s[k + a - 1] /\ r[b] = s[k + b - 1]
        BY <1>2, <2>5
      <3> QED BY <2>5, <3>1
    <2>7. a \in DOMAIN r /\ b \in DOMAIN r
      BY <1>3, <2>5
    <2> QED BY <2>2, <2>6, <2>7 DEF a, b
  <1> QED BY <1>4 DEF Whole, r

\* A reply that is whole, after a stream whose blocks are whole.
Answer(r) == r \in Seq(Bytes) /\ Len(r) >= 1 /\ r[Len(r)].is = "end" /\ Whole(r)

\* A whole reply behind whole replies.
LEMMA WholeJoined ==
    ASSUME NEW s \in Seq(Bytes), Whole(s), NEW r, Answer(r)
    PROVE  s \o r \in Seq(Bytes) /\ Whole(s \o r) /\ s \o r # <<>> /\ (s \o r)[Len(s \o r)].is = "end"
  <1> DEFINE t == s \o r
  <1>1. Len(s) \in Nat /\ DOMAIN s = 1..Len(s) /\ Len(r) \in Nat /\ DOMAIN r = 1..Len(r) /\ Len(r) >= 1
        /\ r \in Seq(Bytes)
    BY LenProperties DEF Answer
  <1>2. t \in Seq(Bytes) /\ Len(t) = Len(s) + Len(r)
    BY <1>1, Joined
  <1>3. \A i \in 1..Len(s) : t[i] = s[i]
    BY <1>1, Joined
  <1>4. \A i \in 1..Len(r) : t[Len(s) + i] = r[i]
    BY <1>1, Behind, Zenon
  <1>5. DOMAIN t = 1..(Len(s) + Len(r))
    BY <1>2, LenProperties
  <1> HIDE DEF t
  <1>6. ASSUME NEW i \in DOMAIN t, t[i].is = "hash"
        PROVE  \E n \in Nat : /\ i + 1 \in DOMAIN t /\ t[i + 1].val = <<n>>
                              /\ i + 2 + n \in DOMAIN t /\ t[i + 2 + n].is = "end"
    <2>1. CASE i <= Len(s)
      <3>1. i \in DOMAIN s /\ t[i] = s[i]
        BY <1>1, <1>3, <1>5, <2>1
      <3>2. PICK n \in Nat : /\ i + 1 \in DOMAIN s /\ s[i + 1].val = <<n>>
                             /\ i + 2 + n \in DOMAIN s /\ s[i + 2 + n].is = "end"
        BY <1>6, <3>1 DEF Whole
      <3>3. t[i + 1] = s[i + 1] /\ t[i + 2 + n] = s[i + 2 + n]
        BY <1>1, <1>3, <3>2
      <3>4. i + 1 \in DOMAIN t /\ i + 2 + n \in DOMAIN t
        BY <1>1, <1>5, <3>2
      <3> QED BY <3>2, <3>3, <3>4
    <2>2. CASE i > Len(s)
      <3>1. PICK j \in 1..Len(r) : i = Len(s) + j
        <4>1. i - Len(s) \in 1..Len(r) /\ i = Len(s) + (i - Len(s))
          BY <1>1, <1>5, <2>2
        <4> QED BY <4>1
      <3>2. t[i] = r[j]
        BY <1>4, <3>1
      <3>3. PICK n \in Nat : /\ j + 1 \in DOMAIN r /\ r[j + 1].val = <<n>>
                             /\ j + 2 + n \in DOMAIN r /\ r[j + 2 + n].is = "end"
        BY <1>1, <1>6, <3>2 DEF Whole, Answer
      <3>4. t[Len(s) + (j + 1)] = r[j + 1] /\ t[Len(s) + (j + 2 + n)] = r[j + 2 + n]
        BY <1>1, <1>4, <3>3
      <3>5. i + 1 \in DOMAIN t /\ i + 2 + n \in DOMAIN t
            /\ i + 1 = Len(s) + (j + 1) /\ i + 2 + n = Len(s) + (j + 2 + n)
        BY <1>1, <1>5, <3>1, <3>3
      <3> QED BY <3>3, <3>4, <3>5
    <2> QED BY <1>1, <1>5, <2>1, <2>2
  <1>7. t[Len(t)].is = "end"
    <2>1. Len(r) \in 1..Len(r)
      BY <1>1
    <2> QED BY <1>2, <1>4, <2>1 DEF Answer
  <1>8. t # <<>>
    BY <1>1, <1>2, EmptySeq
  <1> QED BY <1>2, <1>6, <1>7, <1>8 DEF Whole, t

\* What a read leaves.
LEMMA Rest ==
    ASSUME stream \in Seq(Bytes), Hashed(stream)
    PROVE  Reply.rest \in Seq(Bytes) /\ Hashed(Reply.rest) /\ (Whole(stream) => Whole(Reply.rest))
  <1>1. PICK k \in 1..(Len(stream) + 1) : Reply.rest = From(stream, k)
    BY ReplyFacts
  <1> QED BY <1>1, FromFacts, HashedFrom, WholeFrom

\* The line that is parsed.
LEMMA ParsedFacts ==
    ASSUME LineTypes, NEW abouts, Parses(abouts)
    PROVE  /\ Reply.got[1] \in Bytes /\ Reply.got[1].of[2] \in abouts /\ Read = Reply.got[1].val
           /\ TextOK(Reply.got[1])
  <1>1. Reply.got \in Seq(Bytes) /\ Len(Reply.got) = 1
    BY ReplyFacts DEF LineTypes, Parses
  <1>2. Reply.got[1] \in Bytes
    BY <1>1, ElementOfSeq
  <1> QED BY <1>2 DEF Parses, Read, Bytes

\* A channel of its own for the next reply.
LEMMA PreambleAsked ==
    ASSUME HostTypes, lost \in BOOLEAN, NEW ch \in Channels, NEW doing \in Jobs,
           doing.want \in {"screen", "deep"}, Len(doing.waves) = ch - 1,
           AskPreamble(ch, doing), closed' = closed
    PROVE  HostTypes' /\ (Asks \/ Ends)
  <1> DEFINE next == [doing EXCEPT !.ch = ch, !.out = <<>>]
             commands == <<Command("SOUR", ch), Command("MODE", job.want = "deep")>>
  <1>1. next \in Jobs /\ next.want = doing.want /\ next.waves = doing.waves /\ next.ch = ch /\ next.out = <<>>
    BY EmptySeq, Constants DEF Jobs
  <1>2. commands \in Seq(Plain)
    <2>1. (job.want = "deep") \in BOOLEAN
      OBVIOUS
    <2>2. Command("MODE", job.want = "deep") \in Plain
      BY <2>1, Commands, Zenon
    <2>3. Command("SOUR", ch) \in Plain
      BY Commands
    <2>4. \A a, b \in Plain : <<a, b>> \in Seq(Plain)
      OBVIOUS
    <2> QED BY <2>2, <2>3, <2>4, Zenon
  <1>3. Fits("preamble", ch, next)
    BY <1>1 DEF Fits
  <1>4. Ask(commands, "preamble", ch, next)
    BY DEF AskPreamble
  <1>5. ch \in 0..NumChannels /\ "preamble" \in Abouts
    BY Constants DEF Abouts
  <1> HIDE DEF next, commands
  <1> QED BY <1>1, <1>2, <1>3, <1>4, <1>5, AskTypes

\* A page of the record.
LEMMA PageAsked ==
    ASSUME HostTypes, lost \in BOOLEAN, NEW doing \in Jobs, doing.want = "deep", doing.ch \in Channels,
           Len(doing.waves) = doing.ch - 1, doing.start <= doing.points, doing.points # 0,
           AskPage(doing), closed' = closed
    PROVE  HostTypes' /\ (Asks \/ Ends)
  <1> DEFINE commands == <<Command("STAR", doing.start), Command("STOPAT", PageEnd(doing))>>
  <1>1. doing.start \in Nat \ {0} /\ PageEnd(doing) \in Stops
    BY PageEnds DEF Jobs
  <1>2. commands \in Seq(Plain)
    BY <1>1, Commands
  <1>3. Fits("data", doing.ch, doing)
    BY DEF Fits
  <1>4. Ask(commands, "data", doing.ch, doing)
    BY DEF AskPage
  <1>5. doing.ch \in 0..NumChannels /\ "data" \in Abouts
    BY Constants DEF Abouts
  <1> HIDE DEF commands
  <1> QED BY <1>2, <1>3, <1>4, <1>5, AskTypes

-----------------------------------------------------------------------------
(* Every step keeps the types. *)

\* The types of the line, for steps that leave it alone or only read from it.
LEMMA LineStays ==
    ASSUME LineTypes, stream' \in Seq(Bytes), Hashed(stream'), ~closed => Whole(stream'),
           UNCHANGED <<closed, lost, timeouts, scope>>
    PROVE  LineTypes'
  BY DEF LineTypes, Hashed, Whole

\* A reply that is read.
LEMMA AnsweredTypes ==
    ASSUME TypeInv, NEW about, Answered(about)
    PROVE  /\ LineTypes' /\ closed' = closed /\ lost' = lost /\ lost \in BOOLEAN /\ HostTypes /\ LineTypes
           /\ Fits(about, query.arg[3], job) /\ job \in Jobs
  <1>1. Reply.rest \in Seq(Bytes) /\ Hashed(Reply.rest) /\ (~closed => Whole(Reply.rest))
    BY Rest DEF TypeInv, LineTypes
  <1>2. stream' = Reply.rest /\ UNCHANGED <<closed, lost, timeouts, scope>> /\ pc = "reply" /\ About = about
    BY DEF Answered
  <1>3. LineTypes'
    BY <1>1, <1>2, LineStays DEF TypeInv
  <1> QED BY <1>2, <1>3 DEF TypeInv, HostTypes, LineTypes

\* trigger_status(), capture() and configure_acquire() begin.
LEMMA BeginTypes ==
    ASSUME TypeInv, NEW want, NEW depth,
           \/ want \in {"poll", "screen", "deep"} /\ depth = 0
           \/ want = "depth" /\ depth \in Depths,
           Begin(want, depth)
    PROVE  TypeInv' /\ (Asks \/ Ends)
  <1> DEFINE began == IF wire = <<>> THEN scope.mode ELSE "unknown"
             doing == [NoJob EXCEPT !.call = outcome.job.call + 1, !.want = want, !.depth = depth,
                                    !.began = began]
  <1>1. outcome.job.call + 1 \in Nat /\ want \in Wants /\ depth \in Depths \cup {0}
        /\ began \in Modes \cup {"unknown"} /\ lost \in BOOLEAN
    <2>1. outcome.job \in Jobs /\ scope \in Scopes /\ lost \in BOOLEAN
      BY DEF TypeInv, HostTypes, LineTypes
    <2>2. outcome.job.call \in Nat
      BY <2>1 DEF Jobs
    <2>3. scope.mode \in Modes
      BY <2>1 DEF Scopes
    <2> QED BY <2>1, <2>2, <2>3 DEF Wants
  <1> HIDE DEF began
  <1>2. doing \in Jobs /\ doing.want = want /\ doing.waves = <<>>
    BY <1>1, FreshJob DEF NoJob
  <1>3. IF want = "depth" THEN Ask(<<>>, "display", 1, doing) ELSE Ask(<<>>, "status", 0, doing)
    BY DEF Begin, began
  <1>4. UNCHANGED <<stream, closed, lost, timeouts, scope>>
    BY DEF Begin
  <1> HIDE DEF doing
  <1>5. <<>> \in Seq(Plain) /\ 0 \in 0..NumChannels /\ 1 \in 0..NumChannels /\ 1 \in Channels
        /\ "display" \in Abouts /\ "status" \in Abouts
    BY EmptySeq, Constants DEF Abouts
  <1>6. HostTypes' /\ (Asks \/ Ends)
    <2>1. CASE want = "depth"
      <3>1. Fits("display", 1, doing)
        BY <1>2, <1>5, <2>1 DEF Fits
      <3> QED BY <1>1, <1>2, <1>3, <1>4, <1>5, <2>1, <3>1, AskTypes DEF TypeInv
    <2>2. CASE want # "depth"
      <3>1. Fits("status", 0, doing)
        BY <1>2, <2>2 DEF Fits
      <3> QED BY <1>1, <1>2, <1>3, <1>4, <1>5, <2>2, <3>1, AskTypes DEF TypeInv
    <2> QED BY <2>1, <2>2
  <1>7. LineTypes'
    BY <1>4 DEF TypeInv, LineTypes, Hashed, Whole
  <1> QED BY <1>6, <1>7 DEF TypeInv

\* The status is read.
LEMMA StatusTypes ==
    ASSUME TypeInv, StatusReply
    PROVE  TypeInv' /\ (Asks \/ Ends)
  <1> DEFINE doing == [job EXCEPT !.status = Reply.got[1]]
             commands == IF job.want = "deep" THEN <<Command("STOP", 0)>> ELSE <<>>
  <1>1. Answered("status") /\ Parses({"status"})
    BY DEF StatusReply
  <1>2. /\ LineTypes' /\ closed' = closed /\ lost \in BOOLEAN /\ HostTypes /\ LineTypes
        /\ Fits("status", query.arg[3], job) /\ job \in Jobs
    BY <1>1, AnsweredTypes
  <1>3. Reply.got[1] \in Bytes
    BY <1>1, <1>2, ParsedFacts
  <1>4. doing \in Jobs /\ doing.want = job.want /\ doing.waves = job.waves
    BY <1>2, <1>3 DEF Jobs
  <1>5. /\ commands \in Seq(Plain) /\ <<>> \in Seq(Plain) /\ "ok" \in Kinds /\ "rate" \in Abouts
        /\ 0 \in 0..NumChannels
    BY Commands, EmptySeq, Constants DEF Kinds, Abouts
  <1>6. \/ job.want = "poll" /\ End("ok", doing, <<>>)
        \/ job.want # "poll" /\ Ask(commands, "rate", 0, doing)
    BY DEF StatusReply
  <1> HIDE DEF doing, commands
  <1>7. CASE job.want = "poll" /\ End("ok", doing, <<>>)
    BY <1>2, <1>4, <1>5, <1>7, EndHost DEF TypeInv
  <1>8. CASE job.want # "poll" /\ Ask(commands, "rate", 0, doing)
    <2>1. Fits("rate", 0, doing)
      BY <1>2, <1>4, <1>8 DEF Fits
    <2> QED BY <1>2, <1>4, <1>5, <1>8, <2>1, AskTypes DEF TypeInv
  <1> QED BY <1>6, <1>7, <1>8

\* The sample rate is read.
LEMMA RateTypes ==
    ASSUME TypeInv, RateReply
    PROVE  TypeInv' /\ (Asks \/ Ends)
  <1>1. Answered("rate") /\ AskPreamble(1, job)
    BY DEF RateReply
  <1>2. /\ LineTypes' /\ closed' = closed /\ lost \in BOOLEAN /\ HostTypes
        /\ Fits("rate", query.arg[3], job) /\ job \in Jobs
    BY <1>1, AnsweredTypes
  <1>3. job.want \in {"screen", "deep"} /\ Len(job.waves) = 1 - 1 /\ 1 \in Channels
    BY <1>2, EmptySeq, Constants DEF Fits
  <1> QED BY <1>1, <1>2, <1>3, PreambleAsked DEF TypeInv

\* The preamble is read.
LEMMA PreambleTypes ==
    ASSUME TypeInv, PreambleReply
    PROVE  TypeInv' /\ (Asks \/ Ends)
  <1> DEFINE doing == [job EXCEPT !.points = Read[1], !.start = 1]
  <1>1. Answered("preamble") /\ Parses({"preamble"})
    BY DEF PreambleReply
  <1>2. /\ LineTypes' /\ closed' = closed /\ lost \in BOOLEAN /\ HostTypes /\ LineTypes
        /\ Fits("preamble", query.arg[3], job) /\ job \in Jobs
    BY <1>1, AnsweredTypes
  <1>3. Read[1] \in Points
    <2>1. Reply.got[1].of[2] = "preamble" /\ Read = Reply.got[1].val /\ TextOK(Reply.got[1])
      BY <1>1, <1>2, ParsedFacts
    <2>2. PICK points \in Points : Read = <<points>>
      BY <2>1 DEF TextOK
    <2> QED BY <2>2
  <1>4. /\ doing \in Jobs /\ doing.want = job.want /\ doing.waves = job.waves /\ doing.ch = job.ch
        /\ doing.out = job.out /\ doing.start = 1 /\ doing.points \in Points
    <2>1. \A p \in Points, n \in Nat \ {0} : [job EXCEPT !.points = p, !.start = n] \in Jobs
      BY <1>2 DEF Jobs
    <2>2. 1 \in Nat \ {0}
      OBVIOUS
    <2>3. doing \in Jobs
      BY <1>3, <2>1, <2>2, Zenon
    <2> QED BY <1>2, <1>3, <2>3 DEF Jobs
  <1>5. \/ job.want = "screen" /\ AskScreen(doing)
        \/ job.want # "screen" /\ doing.points = 0 /\ End("RuntimeError", doing, <<>>)
        \/ job.want # "screen" /\ doing.points # 0 /\ AskPage(doing)
    BY DEF PreambleReply
  <1> HIDE DEF doing
  <1>6. CASE job.want = "screen" /\ AskScreen(doing)
    <2>1. Fits("data", doing.ch, doing)
      BY <1>2, <1>4, <1>6 DEF Fits
    <2>2. <<Command("STAR", 1)>> \in Seq(Plain) /\ "data" \in Abouts /\ doing.ch \in 0..NumChannels
      <3>1. Command("STAR", 1) \in Plain
        BY Commands
      <3> QED BY <1>4, <3>1 DEF Abouts, Jobs
    <2>3. Ask(<<Command("STAR", 1)>>, "data", doing.ch, doing)
      BY <1>6 DEF AskScreen
    <2> QED BY <1>2, <1>4, <2>1, <2>2, <2>3, AskTypes DEF TypeInv
  <1>7. CASE job.want # "screen" /\ doing.points = 0 /\ End("RuntimeError", doing, <<>>)
    <2>1. <<>> \in Seq(Plain) /\ "RuntimeError" \in Kinds
      BY EmptySeq DEF Kinds
    <2> QED BY <1>2, <1>4, <1>7, <2>1, EndHost DEF TypeInv
  <1>8. CASE job.want # "screen" /\ doing.points # 0 /\ AskPage(doing)
    <2>1. doing.want = "deep" /\ doing.ch \in Channels /\ Len(doing.waves) = doing.ch - 1
      BY <1>2, <1>4, <1>8 DEF Fits
    <2>2. doing.start <= doing.points
      <3>1. \A points \in Points \ {0} : 1 <= points
        BY Constants
      <3> QED BY <1>4, <1>8, <3>1
    <2> QED BY <1>2, <1>4, <1>8, <2>1, <2>2, PageAsked DEF TypeInv
  <1> QED BY <1>5, <1>6, <1>7, <1>8

\* A channel is read.
LEMMA ChannelTypes ==
    ASSUME HostTypes, lost \in BOOLEAN, NEW doing \in Jobs, doing.want \in {"screen", "deep"},
           doing.waves = job.waves, Len(job.waves) = job.ch - 1, job.ch \in Channels,
           NextChannel(doing), closed' = closed
    PROVE  HostTypes' /\ (Asks \/ Ends)
  <1> DEFINE done == [doing EXCEPT !.waves = Append(@, doing.out)]
  <1>1. job.waves \in Seq(Seq(Bytes)) /\ doing.out \in Seq(Bytes)
    BY DEF Jobs, HostTypes
  <1>2. Append(job.waves, doing.out) \in Seq(Seq(Bytes)) /\ Len(Append(job.waves, doing.out)) = job.ch
    BY <1>1, AppendProperties, Constants DEF Channels
  <1>3. done \in Jobs /\ done.want = doing.want /\ done.waves = Append(job.waves, doing.out)
    BY <1>2 DEF Jobs
  <1>4. \/ job.ch = NumChannels /\ End("frame", done, <<>>)
        \/ job.ch # NumChannels /\ AskPreamble(job.ch + 1, done)
    BY DEF NextChannel
  <1> HIDE DEF done
  <1>5. CASE job.ch = NumChannels /\ End("frame", done, <<>>)
    <2>1. <<>> \in Seq(Plain) /\ "frame" \in Kinds
      BY EmptySeq DEF Kinds
    <2> QED BY <1>3, <1>5, <2>1, EndHost
  <1>6. CASE job.ch # NumChannels /\ AskPreamble(job.ch + 1, done)
    <2>1. job.ch + 1 \in Channels /\ Len(done.waves) = (job.ch + 1) - 1
      BY <1>2, <1>3, <1>6, Constants DEF Channels
    <2> QED BY <1>3, <1>6, <2>1, PreambleAsked
  <1> QED BY <1>4, <1>5, <1>6

\* A page or a screen is read.
LEMMA PageTypes ==
    ASSUME TypeInv, PageReply
    PROVE  TypeInv' /\ (Asks \/ Ends)
  <1> DEFINE doing == [job EXCEPT !.out = @ \o Reply.got, !.start = PageEnd(job) + 1]
  <1>1. Answered("data")
    BY DEF PageReply
  <1>2. /\ LineTypes' /\ closed' = closed /\ lost \in BOOLEAN /\ HostTypes /\ LineTypes
        /\ Fits("data", query.arg[3], job) /\ job \in Jobs
    BY <1>1, AnsweredTypes
  <1>3. job.out \o Reply.got \in Seq(Bytes)
    BY <1>2, ReplyFacts, ConcatProperties DEF LineTypes, Jobs
  <1>4. PageEnd(job) + 1 \in Nat \ {0}
    <2>1. \A a \in Nat \ {0}, b \in Points : Min({a + RawChunk - 1, b}) \in Nat
      <3>1. ASSUME NEW a \in Nat \ {0}, NEW b \in Points PROVE Min({a + RawChunk - 1, b}) \in Nat
        <4>1. a + RawChunk - 1 \in Nat /\ b \in Nat
          BY Constants
        <4> QED BY <4>1, MinOfTwo
      <3> QED BY <3>1
    <2>2. job.start \in Nat \ {0} /\ job.points \in Points
      BY <1>2 DEF Jobs
    <2>3. PageEnd(job) \in Nat
      BY <2>1, <2>2 DEF PageEnd
    <2> QED BY <2>3
  <1>5. /\ doing \in Jobs /\ doing.want = job.want /\ doing.waves = job.waves /\ doing.ch = job.ch
        /\ doing.points = job.points /\ doing.start = PageEnd(job) + 1
    BY <1>2, <1>3, <1>4 DEF Jobs
  <1>6. \/ NextChannel(doing)
        \/ job.want # "screen" /\ PageEnd(job) < job.points /\ AskPage(doing)
        \/ End("OSError", doing, <<>>)
    BY DEF PageReply
  <1> HIDE DEF doing
  <1>7. doing.want \in {"screen", "deep"} /\ Len(job.waves) = job.ch - 1 /\ job.ch \in Channels
    BY <1>2, <1>5 DEF Fits
  <1>8. CASE NextChannel(doing)
    BY <1>2, <1>5, <1>7, <1>8, ChannelTypes DEF TypeInv
  <1>9. CASE job.want # "screen" /\ PageEnd(job) < job.points /\ AskPage(doing)
    <2>1. doing.want = "deep" /\ job.points # 0
      BY <1>2, <1>5, <1>7, <1>9 DEF Fits
    <2>2. PageEnd(job) \in Nat /\ job.points \in Nat
      <3>1. PageEnd(job) \in Stops /\ job.points \in Points
        BY <1>2, <2>1, PageEnds DEF Jobs
      <3> QED BY <3>1, Constants DEF Stops
    <2>3. doing.start <= doing.points
      BY <1>5, <1>9, <2>2
    <2> QED BY <1>2, <1>5, <1>7, <1>9, <2>1, <2>3, PageAsked DEF TypeInv
  <1>10. CASE End("OSError", doing, <<>>)
    <2>1. <<>> \in Seq(Plain) /\ "OSError" \in Kinds
      BY EmptySeq DEF Kinds
    <2> QED BY <1>2, <1>5, <1>10, <2>1, EndHost DEF TypeInv
  <1> QED BY <1>6, <1>8, <1>9, <1>10

\* Whether a channel is displayed is read.
LEMMA DisplayTypes ==
    ASSUME TypeInv, DisplayReply
    PROVE  TypeInv' /\ (Asks \/ Ends)
  <1> DEFINE on == IF Parses({"display"}) THEN job.on + Read[1] ELSE job.on
             doing == [job EXCEPT !.on = on]
  <1>1. Answered("display")
    BY DEF DisplayReply
  <1>2. /\ LineTypes' /\ closed' = closed /\ lost \in BOOLEAN /\ HostTypes /\ LineTypes
        /\ Fits("display", query.arg[3], job) /\ job \in Jobs
    BY <1>1, AnsweredTypes
  <1>3. on \in Nat
    <2>1. ASSUME Parses({"display"}) PROVE Read[1] \in Nat
      <3>1. Reply.got[1].of[2] = "display" /\ Read = Reply.got[1].val /\ TextOK(Reply.got[1])
        BY <1>2, <2>1, ParsedFacts
      <3> QED BY <3>1 DEF TextOK
    <2>2. job.on \in Nat
      BY <1>2 DEF Jobs
    <2> QED BY <2>1, <2>2
  <1> HIDE DEF on
  <1>4. doing \in Jobs /\ doing.want = job.want /\ doing.waves = job.waves
    BY <1>2, <1>3 DEF Jobs
  <1>5. \/ query.arg[3] < NumChannels /\ Ask(<<>>, "display", query.arg[3] + 1, doing)
        \/ /\ job.depth \in MemoryDepths[Max({1, on})]
           /\ End("ok", doing, <<Command("RUN", 0), Command("MDEP", job.depth)>>)
        \/ End("ValueError", doing, <<>>)
    BY DEF DisplayReply, on
  <1> HIDE DEF doing
  <1>6. query.arg[3] \in Channels /\ job.want = "depth" /\ <<>> \in Seq(Plain)
    BY <1>2, EmptySeq DEF Fits
  <1>7. CASE query.arg[3] < NumChannels /\ Ask(<<>>, "display", query.arg[3] + 1, doing)
    <2>1. query.arg[3] + 1 \in Channels /\ query.arg[3] + 1 \in 0..NumChannels /\ "display" \in Abouts
      BY <1>6, <1>7, Constants DEF Channels, Abouts
    <2>2. Fits("display", query.arg[3] + 1, doing)
      BY <1>4, <1>6, <2>1 DEF Fits
    <2> QED BY <1>2, <1>4, <1>6, <1>7, <2>1, <2>2, AskTypes DEF TypeInv
  <1>8. CASE End("ok", doing, <<Command("RUN", 0), Command("MDEP", job.depth)>>)
    <2>1. Command("RUN", 0) \in Plain /\ Command("MDEP", job.depth) \in Plain
      <3>1. job.depth \in Depths \/ job.depth = 0
        BY <1>2 DEF Jobs
      <3>2. Command("MDEP", 0) \in Plain
        BY DEF Plain, Sent, Ops, Operands, CommandOK, Command, IsQuery
      <3> QED BY <3>1, <3>2, Commands
    <2>2. <<Command("RUN", 0), Command("MDEP", job.depth)>> \in Seq(Plain) /\ "ok" \in Kinds
      BY <2>1 DEF Kinds
    <2> QED BY <1>2, <1>4, <1>8, <2>2, EndHost DEF TypeInv
  <1>9. CASE End("ValueError", doing, <<>>)
    <2>1. "ValueError" \in Kinds
      BY DEF Kinds
    <2> QED BY <1>2, <1>4, <1>6, <1>9, <2>1, EndHost DEF TypeInv
  <1> QED BY <1>5, <1>7, <1>8, <1>9

\* What is read is not what was asked for.
LEMMA BadTypes ==
    ASSUME TypeInv, BadReply
    PROVE  TypeInv' /\ (Asks \/ Ends)
  <1> DEFINE kind == IF Reply.is = "OSError" THEN "OSError" ELSE "ValueError"
  <1>1. PICK about \in {"status", "rate", "preamble", "data"} : Answered(about)
    BY DEF BadReply
  <1>2. /\ LineTypes' /\ closed' = closed /\ lost \in BOOLEAN /\ HostTypes /\ LineTypes /\ job \in Jobs
    BY <1>1, AnsweredTypes
  <1>3. End(kind, job, <<>>) /\ kind \in Kinds /\ <<>> \in Seq(Plain)
    BY EmptySeq DEF BadReply, Kinds
  <1> HIDE DEF kind
  <1> QED BY <1>2, <1>3, EndHost DEF TypeInv

-----------------------------------------------------------------------------
(* What the instrument answers. *)

\* A line is a text and its end.
LEMMA LineReply ==
    ASSUME NEW s \in Scopes, NEW of \in Arguments, of[2] # "data"
    PROVE  /\ Line(s, of) \in Seq(Bytes) /\ Len(Line(s, of)) = 2
           /\ Line(s, of)[1] = Byte("text", of, Value(s, of[2], of[3]))
           /\ Line(s, of)[2] = Byte("end", of, <<>>)
           /\ Answer(Line(s, of))
  <1> DEFINE val == Value(s, of[2], of[3])
  <1>1. of[2] \in {"status", "rate", "preamble", "display"}
    BY DEF Arguments, Abouts
  <1>2. /\ s.mode \in Modes /\ s.frame \in Nat /\ s.points \in Points /\ Screen \in Points
        /\ s.frame \in Int /\ s.points \in Int /\ Screen \in Int
    <2>1. s.mode \in Modes /\ s.frame \in 0..MaxFrames /\ s.points \in Records \cup {0}
      BY DEF Scopes
    <2>2. \A n \in 0..MaxFrames : n \in Nat /\ n \in Int
      BY Constants
    <2>3. \A n \in Records \cup {0} : n \in Points /\ n \in Int
      BY Constants DEF Points
    <2>4. Screen \in Points /\ Screen \in Int
      BY Constants DEF Points
    <2> QED BY <2>1, <2>2, <2>3, <2>4
  <1>3. CASE of[2] = "status"
    <2>1. val = <<s.mode, s.frame>>
      BY <1>3 DEF Value, State
    <2>2. s.mode \in Modes \cup Int /\ s.frame \in Modes \cup Int
      BY <1>2
    <2>3. val \in Values /\ \E mode \in Modes, frame \in Nat : val = <<mode, frame>>
      BY <1>2, <2>1, <2>2, ValueTuples
    <2> QED BY <1>3, <2>3, ValueTuples DEF Byte, Bytes, AnyByte, TextOK, Line, Answer, Whole
  <1>4. CASE of[2] = "rate"
    <2>1. val \in Values
      BY <1>4, ValueTuples DEF Value
    <2> QED BY <1>4, <2>1, ValueTuples DEF Byte, Bytes, AnyByte, TextOK, Line, Answer, Whole
  <1>5. CASE of[2] = "preamble"
    <2>1. PICK p \in Points : p = IF s.raw THEN s.points ELSE Screen
      BY <1>2
    <2>2. val = <<p>>
      BY <1>5, <2>1 DEF Value
    <2>3. p \in Modes \cup Int
      BY <1>2, <2>1
    <2>4. val \in Values /\ \E points \in Points : val = <<points>>
      BY <2>2, <2>3, ValueTuples
    <2> QED BY <1>5, <2>4, ValueTuples DEF Byte, Bytes, AnyByte, TextOK, Line, Answer, Whole
  <1>6. CASE of[2] = "display"
    <2>1. val = <<0>> \/ val = <<1>>
      BY <1>6 DEF Value
    <2>2. 0 \in Modes \cup Int /\ 1 \in Modes \cup Int
      OBVIOUS
    <2>3. val \in Values
      BY <2>1, <2>2, ValueTuples
    <2> QED BY <1>6, <2>1, <2>3, ValueTuples DEF Byte, Bytes, AnyByte, TextOK, Line, Answer, Whole
  <1> QED BY <1>1, <1>3, <1>4, <1>5, <1>6

\* A block of samples that follow one another.
LEMMA BlockReply ==
    ASSUME NEW s \in Scopes, NEW of \in Arguments, NEW a \in Nat, NEW b \in Nat, a <= b + 1
    PROVE  LET block == Block(s, of, a..b)
               size == b - a + 1
           IN  /\ block \in Seq(Bytes) /\ Len(block) = size + 3 /\ size \in Nat
               /\ block[1] = Byte("hash", of, <<>>) /\ block[2] = Byte("len", of, <<size>>)
               /\ \A i \in 1..size : block[i + 2] = Byte("data", of, <<s.frame, s.src, a + i - 1>>)
               /\ block[size + 3] = Byte("end", of, <<>>)
               /\ Answer(block)
  <1> DEFINE size == b - a + 1
             data == [i \in 1..size |-> Byte("data", of, <<s.frame, s.src, a + i - 1>>)]
             header == <<Byte("hash", of, <<>>), Byte("len", of, <<size>>)>>
             end == <<Byte("end", of, <<>>)>>
             block == (header \o data) \o end
  <1>1. size \in Nat /\ Cardinality(a..b) = size
    BY Interval
  <1>2. [k \in 1..Cardinality(a..b) |-> Byte("data", of, <<s.frame, s.src, Min(a..b) + k - 1>>)] = data
    <2>1. ASSUME NEW k \in 1..size PROVE Min(a..b) = a
      BY <1>1, <2>1, Interval
    <2> QED BY <1>1, <2>1
  <1>3. s.frame \in Modes \cup Int /\ s.src \in Modes \cup Int /\ size \in Modes \cup Int
        /\ \A i \in 1..size : a + i - 1 \in Modes \cup Int
    BY <1>1 DEF Scopes, Channels
  <1>4. \A i \in 1..size : Byte("data", of, <<s.frame, s.src, a + i - 1>>) \in Bytes
    BY <1>3, ValueTuples DEF Byte, Bytes, AnyByte
  <1>5. /\ Byte("hash", of, <<>>) \in Bytes /\ Byte("end", of, <<>>) \in Bytes
        /\ Byte("len", of, <<size>>) \in Bytes
    BY <1>3, ValueTuples DEF Byte, Bytes, AnyByte
  <1>6. data \in Seq(Bytes) /\ Len(data) = size
    <2>1. data \in [1..size -> Bytes]
      BY <1>4
    <2>2. \A n \in Nat : \A f \in [1..n -> Bytes] : f \in Seq(Bytes) /\ Len(f) = n
      OBVIOUS
    <2> QED BY <1>1, <2>1, <2>2
  <1>7. Block(s, of, a..b) = block
    <2>1. Len([k \in 1..Cardinality(a..b) |-> Byte("data", of, <<s.frame, s.src, Min(a..b) + k - 1>>)]) = size
      BY <1>2, <1>6
    <2> QED BY <1>2, <2>1 DEF Block
  <1>8. header \in Seq(Bytes) /\ Len(header) = 2 /\ end \in Seq(Bytes) /\ Len(end) = 1
        /\ header[1] = Byte("hash", of, <<>>) /\ header[2] = Byte("len", of, <<size>>)
        /\ end[1] = Byte("end", of, <<>>)
    BY <1>5
  <1>9. \A i \in 1..size : data[i] = Byte("data", of, <<s.frame, s.src, a + i - 1>>)
    OBVIOUS
  <1> HIDE DEF size, data, header, end
  <1> DEFINE first == header \o data
  <1>10. /\ first \in Seq(Bytes) /\ Len(first) = 2 + size
         /\ \A i \in 1..2 : first[i] = header[i]
         /\ \A i \in 1..size : first[2 + i] = data[i]
    <2>1. first \in Seq(Bytes) /\ Len(first) = Len(header) + Len(data)
      BY <1>6, <1>8, Joined
    <2>2. \A i \in 1..Len(header) : first[i] = header[i]
      BY <1>6, <1>8, Joined
    <2>3. \A i \in 1..Len(data) : first[Len(header) + i] = data[i]
      BY <1>6, <1>8, Behind, Zenon
    <2> HIDE DEF first
    <2> QED BY <2>1, <2>2, <2>3, <1>6, <1>8
  <1> HIDE DEF first
  <1>11. /\ block \in Seq(Bytes) /\ Len(block) = (2 + size) + 1
         /\ \A i \in 1..(2 + size) : block[i] = first[i]
         /\ block[(2 + size) + 1] = end[1]
    <2>1. block = first \o end
      BY DEF first
    <2> HIDE DEF block
    <2>2. block \in Seq(Bytes) /\ Len(block) = Len(first) + Len(end)
      BY <1>8, <1>10, <2>1, Joined
    <2>3. \A i \in 1..Len(first) : block[i] = first[i]
      BY <1>8, <1>10, <2>1, Joined
    <2>4. \A i \in 1..Len(end) : block[Len(first) + i] = end[i]
      BY <1>8, <1>10, <2>1, Behind, Zenon
    <2>5. block[Len(first) + 1] = end[1]
      BY <1>8, <2>4
    <2> QED BY <1>8, <1>10, <2>2, <2>3, <2>5
  <1> HIDE DEF block
  <1>12. /\ block[1] = header[1] /\ block[2] = header[2] /\ block[size + 3] = end[1]
         /\ \A i \in 1..size : block[i + 2] = data[i]
    <2>1. size + 3 = (2 + size) + 1 /\ 1 \in 1..2 /\ 2 \in 1..2
      BY <1>1
    <2>2. \A i \in 1..2 : block[i] = header[i]
      <3>1. \A i \in 1..2 : i \in 1..(2 + size)
        BY <1>1
      <3> QED BY <3>1, <1>10, <1>11
    <2>3. ASSUME NEW i \in 1..size PROVE block[i + 2] = data[i]
      <3>1. 2 + i \in 1..(2 + size) /\ i + 2 = 2 + i
        BY <1>1
      <3>2. block[2 + i] = first[2 + i]
        BY <3>1, <1>11
      <3>3. first[2 + i] = data[i]
        BY <1>10
      <3> QED BY <3>1, <3>2, <3>3
    <2> QED BY <2>1, <2>2, <2>3, <1>11
  <1>13. Answer(block)
    <2>1. DOMAIN block = 1..(size + 3)
      BY <1>1, <1>11, LenProperties
    <2>2. ASSUME NEW i \in DOMAIN block, block[i].is = "hash" PROVE i = 1
      <3>1. i \in 3..(size + 2) => block[i] = data[i - 2] /\ i - 2 \in 1..size
        BY <1>1, <1>12
      <3>2. ASSUME i \in 3..(size + 2) PROVE block[i].is = "data"
        <4>1. PICK j \in 1..size : block[i] = data[j]
          BY <3>1, <3>2
        <4>2. data[j] = Byte("data", of, <<s.frame, s.src, a + j - 1>>)
          BY <1>9
        <4>3. data[j].is = "data"
          BY <4>2 DEF Byte
        <4> QED BY <4>1, <4>3
      <3>3. block[2].is = "len" /\ block[size + 3].is = "end"
        BY <1>8, <1>12 DEF Byte
      <3>4. i = 1 \/ i = 2 \/ i \in 3..(size + 2) \/ i = size + 3
        BY <1>1, <2>1
      <3> QED BY <2>2, <3>2, <3>3, <3>4
    <2>3. block[2].val = <<size>>
      BY <1>8, <1>12 DEF Byte
    <2>4. /\ 1 + 1 \in DOMAIN block /\ block[1 + 1].val = <<size>>
          /\ 1 + 2 + size \in DOMAIN block /\ block[1 + 2 + size].is = "end"
      <3>1. 1 + 1 = 2 /\ 1 + 2 + size = size + 3
        BY <1>1
      <3> QED BY <1>1, <1>8, <1>12, <2>1, <2>3, <3>1 DEF Byte
    <2>5. Whole(block)
      BY <1>1, <2>2, <2>4 DEF Whole
    <2>6. Len(block) = size + 3 /\ Len(block) >= 1 /\ block[Len(block)].is = "end"
      BY <1>1, <1>8, <1>11, <1>12 DEF Byte
    <2> QED BY <1>11, <2>5, <2>6 DEF Answer
  <1>14. /\ block \in Seq(Bytes) /\ Len(block) = size + 3 /\ size \in Nat
         /\ block[1] = Byte("hash", of, <<>>) /\ block[2] = Byte("len", of, <<size>>)
         /\ \A i \in 1..size : block[i + 2] = Byte("data", of, <<s.frame, s.src, a + i - 1>>)
         /\ block[size + 3] = Byte("end", of, <<>>)
    <2>1. (2 + size) + 1 = size + 3
      BY <1>1
    <2>2. \A i \in 1..size : block[i + 2] = Byte("data", of, <<s.frame, s.src, a + i - 1>>)
      BY <1>9, <1>12, Zenon
    <2> QED BY <1>1, <1>8, <1>11, <1>12, <2>1, <2>2
  <1> QED BY <1>7, <1>13, <1>14 DEF size

\* Numbers that follow one another.
Follow(X) == \E a, b \in Nat : a <= b + 1 /\ X = a..b

\* The numbers of an interval follow one another, those of an empty one too.
LEMMA IntervalsFollow ==
    ASSUME NEW a \in Nat, NEW b \in Nat, a <= b + 1
    PROVE  Follow(a..b)
  BY DEF Follow

\* The samples of a page or a screen follow one another, even if it comes short.
LEMMA SamplesFollow ==
    ASSUME NEW s \in Scopes, NEW short \in {{}, {s.stop}}
    PROVE  Follow(Samples(s) \ short)
  <1>1. PICK start \in Nat \ {0}, stop \in Nat \ {0}, points \in Nat :
           start = s.start /\ stop = s.stop /\ points = s.points
    BY Constants DEF Scopes, Stops
  <1>2. short \in {{}, {stop}}
    BY <1>1
  <1>3. ASSUME NEW m \in Nat, m <= stop PROVE Follow((start..m) \ short)
    <2>1. CASE m < start
      <3>1. (start..m) \ short = 1..0 /\ Follow(1..0)
        BY <2>1, IntervalsFollow
      <3> QED BY <3>1, Zenon
    <2>2. CASE m >= start /\ ~ (short = {stop} /\ m = stop)
      <3>1. (start..m) \ short = start..m
        BY <1>2, <1>3, <2>2
      <3>2. start \in Nat /\ start <= m + 1
        BY <2>2
      <3>3. Follow(start..m)
        BY <3>2, IntervalsFollow
      <3> QED BY <3>1, <3>3, Zenon
    <2>3. CASE m >= start /\ short = {stop} /\ m = stop
      <3>1. (start..m) \ short = start..(m - 1) /\ m - 1 \in Nat /\ start <= (m - 1) + 1
        BY <2>3
      <3>2. Follow(start..(m - 1))
        BY <3>1, IntervalsFollow
      <3> QED BY <3>1, <3>2, Zenon
    <2> QED BY <2>1, <2>2, <2>3
  <1>4. ASSUME NEW c \in Nat PROVE Follow((start..Min({stop, c})) \ short)
    <2>1. Min({stop, c}) \in Nat /\ Min({stop, c}) <= stop
      BY MinOfTwo
    <2> QED BY <1>3, <2>1
  <1>5. Follow({Screen} \ short)
    <2>1. Screen \in Nat /\ {Screen} = Screen..Screen
      BY Constants
    <2>2. CASE Screen \in short
      <3>1. {Screen} \ short = 1..0 /\ Follow(1..0)
        BY <2>1, <2>2, IntervalsFollow
      <3> QED BY <3>1, Zenon
    <2>3. CASE Screen \notin short
      <3>1. {Screen} \ short = Screen..Screen
        BY <2>1, <2>3
      <3>2. Screen \in Nat /\ Screen <= Screen + 1
        BY <2>1
      <3>3. Follow(Screen..Screen)
        BY <3>2, IntervalsFollow
      <3> QED BY <3>1, <3>3, Zenon
    <2> QED BY <2>2, <2>3
  <1>6. \/ Samples(s) = start..Min({stop, points})
        \/ Samples(s) = {Screen}
        \/ Samples(s) = start..Min({stop, Screen})
    BY <1>1 DEF Samples
  <1> QED BY <1>4, <1>5, <1>6, Constants

\* What is answered to a query while the connection is open.
LEMMA Answers ==
    ASSUME NEW s \in Scopes, NEW of \in Arguments, NEW short \in {{}, {s.stop}}
    PROVE  /\ of[2] # "data" => Answer(Line(s, of))
           /\ Answer(Block(s, of, Samples(s) \ short))
  <1>1. of[2] # "data" => Answer(Line(s, of))
    BY LineReply
  <1>2. PICK a, b \in Nat : a <= b + 1 /\ Samples(s) \ short = a..b
    BY SamplesFollow DEF Follow
  <1>3. Answer(Block(s, of, a..b))
    BY <1>2, BlockReply
  <1> QED BY <1>1, <1>2, <1>3, Zenon

-----------------------------------------------------------------------------
(* The steps of the instrument and of the transport. *)

\* What a command does to the instrument.
LEMMA SetTypes ==
    ASSUME NEW c \in Sent, ~IsQuery(c), scope \in Scopes
    PROVE  Set(c) \in Scopes
  <1>1. c.op \in Ops \ {"?"} /\ CommandOK(c)
    BY DEF Sent, IsQuery
  <1>2. CASE c.op = "RUN"
    BY <1>2 DEF Set, Scopes, Modes
  <1>3. CASE c.op = "STOP"
    BY <1>3 DEF Set, Scopes, Modes
  <1>4. CASE c.op = "SINGLE"
    BY <1>4 DEF Set, Scopes, Modes
  <1>5. CASE c.op = "DISP"
    <2>1. c.arg[1] \in Channels
      BY <1>1, <1>5 DEF CommandOK
    <2>2. \/ Set(c) = [scope EXCEPT !.on = scope.on \cup {c.arg[1]}]
          \/ Set(c) = [scope EXCEPT !.on = scope.on \ {c.arg[1]}]
      BY <1>5 DEF Set
    <2> QED BY <2>1, <2>2 DEF Scopes
  <1>6. CASE c.op = "MDEP"
    BY <1>6 DEF Set
  <1>7. CASE c.op = "SOUR"
    BY <1>1, <1>7 DEF Set, Scopes, CommandOK
  <1>8. CASE c.op = "MODE"
    BY <1>1, <1>8 DEF Set, Scopes, CommandOK
  <1>9. CASE c.op = "STAR"
    BY <1>1, <1>9 DEF Set, Scopes, CommandOK
  <1>10. CASE c.op = "STOPAT"
    BY <1>1, <1>10 DEF Set, Scopes, CommandOK
  <1> QED BY <1>1, <1>2, <1>3, <1>4, <1>5, <1>6, <1>7, <1>8, <1>9, <1>10 DEF Ops

\* The instrument executes the next command.
LEMMA Executes ==
    ASSUME TypeInv, Execute
    PROVE  /\ ~closed /\ Head(wire) \in Sent /\ Tail(wire) \in Seq(Sent) /\ wire' = Tail(wire)
           /\ \/ ~IsQuery(Head(wire)) /\ scope' = Set(Head(wire)) /\ stream' = stream
              \/ /\ IsQuery(Head(wire)) /\ scope' = scope /\ Head(wire).arg[2] # "data"
                 /\ stream' = stream \o Line(scope, Head(wire).arg)
              \/ /\ IsQuery(Head(wire)) /\ scope' = scope /\ Head(wire).arg[2] = "data"
                 /\ \E short \in IF scope.raw THEN {{}, {scope.stop}} ELSE {{}} :
                       stream' = stream \o Block(scope, Head(wire).arg, Samples(scope) \ short)
  <1>1. wire # <<>> /\ wire \in Seq(Sent)
    BY DEF Execute, TypeInv, HostTypes
  <1>2. ~closed
    BY <1>1 DEF TypeInv, HostTypes
  <1>3. Head(wire) \in Sent /\ Tail(wire) \in Seq(Sent)
    BY <1>1, HeadTailProperties
  <1> QED BY <1>2, <1>3 DEF Execute

\* A query that is executed is answered.
LEMMA QueryAnswered ==
    ASSUME TypeInv, Execute, IsQuery(Head(wire))
    PROVE  \E r : Answer(r) /\ stream' = stream \o r /\ scope' = scope
  <1>1. Head(wire).arg \in Arguments /\ scope \in Scopes
    BY Executes DEF Sent, CommandOK, IsQuery, TypeInv, LineTypes
  <1>2. CASE Head(wire).arg[2] # "data"
    <2>1. stream' = stream \o Line(scope, Head(wire).arg) /\ scope' = scope
      BY <1>2, Executes
    <2> QED BY <1>1, <1>2, <2>1, LineReply
  <1>3. CASE Head(wire).arg[2] = "data"
    <2>1. scope' = scope
      BY <1>3, Executes
    <2>2. PICK short \in IF scope.raw THEN {{}, {scope.stop}} ELSE {{}} :
             stream' = stream \o Block(scope, Head(wire).arg, Samples(scope) \ short)
      BY <1>3, Executes
    <2>3. short \in {{}, {scope.stop}}
      BY <2>2
    <2>4. Answer(Block(scope, Head(wire).arg, Samples(scope) \ short))
      BY <1>1, <2>3, Answers
    <2> QED BY <2>1, <2>2, <2>4
  <1> QED BY <1>2, <1>3

\* The instrument executes a command or answers a query.
LEMMA ExecuteTypes ==
    ASSUME TypeInv, Execute
    PROVE  TypeInv'
  <1>1. UNCHANGED <<host, closed, lost, timeouts>> /\ wire' = Tail(wire)
    BY DEF Execute
  <1>2. ~closed /\ Head(wire) \in Sent /\ Tail(wire) \in Seq(Sent)
    BY Executes
  <1>3. HostTypes'
    BY <1>1, <1>2 DEF TypeInv, HostTypes, host, About, Fits
  <1>4. CASE ~IsQuery(Head(wire))
    <2>1. scope' = Set(Head(wire)) /\ stream' = stream
      BY <1>4, Executes
    <2>2. scope' \in Scopes
      BY <1>2, <1>4, <2>1, SetTypes DEF TypeInv, LineTypes
    <2>3. LineTypes'
      BY <1>1, <2>1, <2>2 DEF TypeInv, LineTypes, Hashed, Whole
    <2> QED BY <1>3, <2>3 DEF TypeInv
  <1>5. CASE IsQuery(Head(wire))
    <2>1. PICK r : Answer(r) /\ stream' = stream \o r /\ scope' = scope
      BY <1>5, QueryAnswered
    <2>2. stream \in Seq(Bytes) /\ Whole(stream)
      BY <1>2 DEF TypeInv, LineTypes
    <2>3. stream \o r \in Seq(Bytes) /\ Whole(stream \o r)
      BY <2>1, <2>2, WholeJoined
    <2>4. stream' \in Seq(Bytes) /\ Whole(stream') /\ Hashed(stream')
      BY <2>1, <2>3, WholeHashed
    <2>5. LineTypes'
      BY <1>1, <2>1, <2>4 DEF TypeInv, LineTypes, Hashed, Whole
    <2> QED BY <1>3, <2>5 DEF TypeInv
  <1> QED BY <1>4, <1>5

\* An acquisition completes.
LEMMA AcquireTypes ==
    ASSUME TypeInv, Acquire
    PROVE  TypeInv' /\ scope'.src = scope.src /\ scope'.raw = scope.raw /\ scope'.start = scope.start
           /\ scope'.stop = scope.stop /\ scope'.on = scope.on
  <1>1. PICK points \in Records \cup {0} :
           scope' = [scope EXCEPT !.frame = @ + 1, !.points = points,
                                  !.mode = IF @ = "armed" THEN "stopped" ELSE @]
    BY DEF Acquire
  <1>2. scope \in Scopes /\ scope.frame < MaxFrames
    BY DEF Acquire, TypeInv, LineTypes
  <1>3. scope.frame + 1 \in 0..MaxFrames
    <2>1. \A n \in 0..MaxFrames : n < MaxFrames => n + 1 \in 0..MaxFrames
      BY Constants
    <2> QED BY <1>2, <2>1 DEF Scopes
  <1>4. scope' \in Scopes /\ scope'.src = scope.src /\ scope'.raw = scope.raw
        /\ scope'.start = scope.start /\ scope'.stop = scope.stop /\ scope'.on = scope.on
    BY <1>1, <1>2, <1>3 DEF Scopes, Modes
  <1>5. UNCHANGED <<host, wire, stream, closed, lost, timeouts>>
    BY DEF Acquire
  <1>6. HostTypes'
    <2>1. About' = About
      BY <1>5 DEF About, host
    <2> QED BY <1>5, <2>1 DEF TypeInv, HostTypes, Fits, host
  <1>7. LineTypes'
    BY <1>4, <1>5 DEF TypeInv, LineTypes, Hashed, Whole
  <1> QED BY <1>4, <1>6, <1>7 DEF TypeInv

\* The connection is closed.
LEMMA HangupTypes ==
    ASSUME TypeInv, Hangup
    PROVE  TypeInv'
  <1>1. closed' = TRUE /\ wire' = <<>> /\ UNCHANGED <<host, lost, timeouts, scope>>
    BY DEF Hangup
  <1>2. PICK n \in 0..Len(stream) : stream' = SubSeq(stream, 1, n)
    BY DEF Hangup
  <1>3. stream' \in Seq(Bytes) /\ Hashed(stream')
    BY <1>2, HashedUpto DEF TypeInv, LineTypes
  <1>4. HostTypes'
    BY <1>1, EmptySeq DEF TypeInv, HostTypes, host, About, Fits
  <1>5. LineTypes'
    BY <1>1, <1>3 DEF TypeInv, LineTypes, Hashed
  <1> QED BY <1>4, <1>5 DEF TypeInv

\* A read is given up.
LEMMA TimeoutTypes ==
    ASSUME TypeInv, Timeout
    PROVE  TypeInv'
  <1>1. timeouts' = timeouts + 1 /\ lost' = TRUE /\ UNCHANGED <<closed, scope>> /\ End("OSError", job, <<>>)
    BY DEF Timeout
  <1>2. PICK n \in 0..Len(stream) : stream' = From(stream, n + 1)
    BY DEF Timeout
  <1>3. stream \in Seq(Bytes) /\ Hashed(stream) /\ n + 1 \in 1..(Len(stream) + 1)
    BY LenProperties DEF TypeInv, LineTypes
  <1>4. stream' \in Seq(Bytes) /\ Hashed(stream')
    BY <1>2, <1>3, FromFacts, HashedFrom
  <1>5. ~closed => Whole(stream')
    BY <1>2, <1>3, WholeFrom DEF TypeInv, LineTypes
  <1>6. LineTypes'
    <2>1. closed' = closed /\ lost' \in BOOLEAN /\ timeouts' \in Nat /\ scope' = scope
      BY <1>1 DEF TypeInv, LineTypes
    <2>2. Hashed(stream)' /\ (~closed => Whole(stream))'
      BY <1>4, <1>5, <2>1 DEF Hashed, Whole
    <2> QED BY <1>4, <2>1, <2>2 DEF TypeInv, LineTypes
  <1>7. HostTypes /\ lost \in BOOLEAN /\ "OSError" \in Kinds /\ job \in Jobs /\ <<>> \in Seq(Plain)
    BY EmptySeq DEF TypeInv, HostTypes, LineTypes, Kinds
  <1>8. HostTypes'
    BY <1>1, <1>7, EndHost
  <1> QED BY <1>6, <1>8 DEF TypeInv

\* A new socket.
LEMMA ReopenTypes ==
    ASSUME TypeInv, Reopen
    PROVE  TypeInv'
  <1>1. /\ closed' = FALSE /\ lost' = FALSE /\ wire' = <<>> /\ stream' = <<>>
        /\ UNCHANGED <<host, timeouts, scope>>
    BY DEF Reopen
  <1>2. HostTypes'
    BY <1>1, EmptySeq DEF TypeInv, HostTypes, host, About, Fits
  <1>3. DOMAIN <<>> = {}
    OBVIOUS
  <1>4. LineTypes'
    BY <1>1, <1>3, EmptySeq DEF TypeInv, LineTypes, Hashed, Whole
  <1> QED BY <1>2, <1>4 DEF TypeInv

\* What is written without waiting.
LEMMA WriteTypes ==
    ASSUME TypeInv, NEW command \in Writes, Write(command)
    PROVE  TypeInv' /\ command \in Sent /\ ~IsQuery(command)
  <1>1. command \in Plain
    <2>1. CASE command \in {Command("RUN", 0), Command("STOP", 0), Command("SINGLE", 0)}
      BY <2>1, Commands
    <2>2. CASE command \in {Command("DISP", <<ch, on>>) : ch \in Switched, on \in BOOLEAN}
      <3>1. PICK ch \in Switched, on \in BOOLEAN : command = Command("DISP", <<ch, on>>)
        BY <2>2
      <3>2. <<ch, on>> \in Channels \X BOOLEAN
        BY Constants
      <3> QED BY <3>1, <3>2, Commands, Zenon
    <2> QED BY <2>1, <2>2 DEF Writes
  <1>2. wire' = Append(wire, command) /\ ~closed /\ UNCHANGED <<host, stream, closed, lost, timeouts, scope>>
    BY DEF Write
  <1>3. wire' \in Seq(Sent)
    BY <1>1, <1>2, AppendProperties DEF Plain, TypeInv, HostTypes
  <1>4. HostTypes' /\ LineTypes'
    BY <1>2, <1>3 DEF TypeInv, HostTypes, LineTypes, host, About, Fits, Hashed, Whole
  <1> QED BY <1>1, <1>4 DEF TypeInv, Plain

-----------------------------------------------------------------------------
\* The types hold from the start.
LEMMA InitTypes ==
    ASSUME Init
    PROVE  TypeInv
  <1>1. query \in [op : {"?"}, arg : Arguments]
    BY Constants DEF Init, Query, Arguments, Abouts
  <1>2. outcome \in [kind : Kinds, clean : BOOLEAN, job : Jobs] /\ job \in Jobs
    BY FreshJob DEF Init, Kinds
  <1>3. HostTypes
    BY <1>1, <1>2, EmptySeq DEF Init, HostTypes
  <1>4. scope \in Scopes
    BY Constants DEF Init, Scopes, Modes, Stops
  <1>5. DOMAIN <<>> = {}
    OBVIOUS
  <1>6. LineTypes
    BY <1>4, <1>5, EmptySeq DEF Init, LineTypes, Hashed, Whole
  <1> QED BY <1>3, <1>6 DEF TypeInv

\* Every step keeps the types.
LEMMA NextTypes ==
    ASSUME TypeInv, [Next]_vars
    PROVE  TypeInv'
  <1>1. CASE \E command \in Writes : Write(command)
    BY <1>1, WriteTypes
  <1>2. CASE \E want \in {"poll", "screen", "deep"} : Begin(want, 0)
    BY <1>2, BeginTypes
  <1>3. CASE \E depth \in UNION Range(MemoryDepths) : Begin("depth", depth)
    BY <1>3, BeginTypes DEF Depths
  <1>4. CASE HostStep
    BY <1>4, StatusTypes, RateTypes, PreambleTypes, PageTypes, DisplayTypes, BadTypes DEF HostStep
  <1>5. CASE Timeout \/ Reopen
    BY <1>5, TimeoutTypes, ReopenTypes
  <1>6. CASE Execute \/ Acquire \/ Hangup
    BY <1>6, ExecuteTypes, AcquireTypes, HangupTypes
  <1>7. CASE UNCHANGED vars
    BY <1>7 DEF vars, host, TypeInv, HostTypes, LineTypes, About, Fits, Hashed, Whole
  <1> QED BY <1>1, <1>2, <1>3, <1>4, <1>5, <1>6, <1>7 DEF Next

\* Whatever was sent, read or given up, bytes, commands and calls are well formed,
\* and no block is cut off while the connection is open.
THEOREM StreamTypes == Spec => []TypeInv
  BY InitTypes, NextTypes, PTL DEF Spec

-----------------------------------------------------------------------------
(* The type invariant of the runs.                                         *)

\* A call is one of those allowed, has channels left to read and reads no further
\* than a page behind its record.
JobBound(j) == j.call <= MaxCalls /\ Len(j.waves) < NumChannels /\ j.start <= j.points + 1

\* The bounds of the runs.
BoundInv ==
    JobBound(job) /\ outcome.job.call <= MaxCalls /\ timeouts \in 0..MaxTimeouts

\* A call that ends.
LEMMA EndBound ==
    ASSUME NEW kind, NEW done, done.call <= MaxCalls, NEW commands, End(kind, done, commands)
    PROVE  JobBound(job)' /\ outcome'.job.call <= MaxCalls
  <1>1. JobBound(NoJob)
    <2>1. NoJob.call = 0 /\ NoJob.waves = <<>> /\ NoJob.start = 1 /\ NoJob.points = 0 /\ Len(<<>>) = 0
      BY DEF NoJob
    <2>2. 0 <= MaxCalls /\ 0 < NumChannels
      BY BoundAssumption
    <2> QED BY <2>1, <2>2 DEF JobBound
  <1>2. JobBound(job)'
    BY <1>1 DEF End, JobBound
  <1>3. outcome'.job.call = done.call
    BY DEF End, NoJob
  <1> QED BY <1>2, <1>3

\* A call that asks on.
LEMMA AskBound ==
    ASSUME outcome.job.call <= MaxCalls, NEW doing, JobBound(doing),
           NEW commands, NEW about, NEW ch, Ask(commands, about, ch, doing)
    PROVE  JobBound(job)' /\ outcome'.job.call <= MaxCalls
  <1>1. CASE End("OSError", doing, <<>>)
    BY <1>1, EndBound DEF JobBound
  <1>2. CASE job' = doing /\ outcome' = outcome
    BY <1>2 DEF JobBound
  <1> QED BY <1>1, <1>2 DEF Ask

\* On to the preamble of a channel.
LEMMA PreambleBound ==
    ASSUME outcome.job.call <= MaxCalls, NEW doing \in Jobs, JobBound(doing),
           NEW ch \in Channels, AskPreamble(ch, doing)
    PROVE  JobBound(job)' /\ outcome'.job.call <= MaxCalls
  <1> DEFINE next == [doing EXCEPT !.ch = ch, !.out = <<>>]
  <1>1. next.call = doing.call /\ next.waves = doing.waves /\ next.start = doing.start
        /\ next.points = doing.points
    BY DEF Jobs
  <1> HIDE DEF next
  <1>2. JobBound(next)
    BY <1>1 DEF JobBound
  <1>3. \E commands, about : Ask(commands, about, ch, next)
    BY DEF AskPreamble, next
  <1> QED BY <1>2, <1>3, AskBound

\* Every reply.
LEMMA ReplyBound ==
    ASSUME TypeInv, BoundInv, HostStep
    PROVE  JobBound(job)' /\ outcome'.job.call <= MaxCalls
  <1>1. /\ job \in Jobs /\ JobBound(job) /\ outcome.job.call <= MaxCalls /\ HostTypes
        /\ 1 \in Channels
    BY Constants DEF BoundInv, TypeInv, HostTypes
  <1>2. CASE StatusReply
    <2> DEFINE doing == [job EXCEPT !.status = Reply.got[1]]
    <2>1. doing.call = job.call /\ doing.waves = job.waves /\ doing.start = job.start
          /\ doing.points = job.points
      BY <1>1 DEF Jobs
    <2>2. End("ok", doing, <<>>) \/ \E commands : Ask(commands, "rate", 0, doing)
      BY <1>2 DEF StatusReply
    <2> HIDE DEF doing
    <2>3. JobBound(doing)
      BY <1>1, <2>1 DEF JobBound
    <2> QED BY <1>1, <2>2, <2>3, EndBound, AskBound DEF JobBound
  <1>3. CASE RateReply
    BY <1>1, <1>3, PreambleBound DEF RateReply
  <1>4. CASE PreambleReply
    <2> DEFINE doing == [job EXCEPT !.points = Read[1], !.start = 1]
    <2>1. Answered("preamble") /\ Parses({"preamble"})
      BY <1>4 DEF PreambleReply
    <2>2. Read[1] \in Nat
      <3>1. Read = Reply.got[1].val /\ TextOK(Reply.got[1]) /\ Reply.got[1].of[2] = "preamble"
        BY <2>1, ParsedFacts DEF TypeInv
      <3> QED BY <3>1, Constants DEF TextOK
    <2>3. doing.call = job.call /\ doing.waves = job.waves /\ doing.start = 1 /\ doing.points = Read[1]
      BY <1>1 DEF Jobs
    <2>4. End("RuntimeError", doing, <<>>) \/ \E commands, ch : Ask(commands, "data", ch, doing)
      BY <1>4 DEF PreambleReply, AskScreen, AskPage
    <2> HIDE DEF doing
    <2>5. JobBound(doing)
      BY <1>1, <2>2, <2>3 DEF JobBound
    <2> QED BY <1>1, <2>4, <2>5, EndBound, AskBound DEF JobBound
  <1>5. CASE PageReply
    <2> DEFINE doing == [job EXCEPT !.out = @ \o Reply.got, !.start = PageEnd(job) + 1]
               done == [doing EXCEPT !.waves = Append(@, doing.out)]
    <2>1. Answered("data")
      BY <1>5 DEF PageReply
    <2>2. job.ch \in Channels /\ Len(job.waves) = job.ch - 1 /\ job.waves \in Seq(Seq(Bytes))
      BY <1>1, <2>1, AnsweredTypes DEF Fits, Jobs
    <2>3. job.out \o Reply.got \in Seq(Bytes)
      BY <1>1, ReplyFacts, ConcatProperties DEF TypeInv, LineTypes, Jobs
    <2>4. PageEnd(job) \in Nat /\ PageEnd(job) <= job.points
      <3>1. ASSUME NEW a \in Nat \ {0}, NEW b \in Points
            PROVE  Min({a + RawChunk - 1, b}) \in Nat /\ Min({a + RawChunk - 1, b}) <= b
        <4>1. a + RawChunk - 1 \in Nat /\ b \in Nat
          BY Constants
        <4> QED BY <4>1, MinOfTwo
      <3> QED BY <1>1, <3>1 DEF PageEnd, Jobs
    <2>5. /\ doing \in Jobs /\ doing.call = job.call /\ doing.waves = job.waves
          /\ doing.start = PageEnd(job) + 1 /\ doing.points = job.points /\ doing.out \in Seq(Bytes)
      <3>1. PageEnd(job) + 1 \in Nat \ {0}
        BY <2>4
      <3> QED BY <1>1, <2>3, <3>1 DEF Jobs
    <2>6. \/ \E kind : End(kind, doing, <<>>)
          \/ \E commands, ch : Ask(commands, "data", ch, doing)
          \/ job.ch = NumChannels /\ End("frame", done, <<>>)
          \/ job.ch # NumChannels /\ AskPreamble(job.ch + 1, done)
      <3>1. NextChannel(doing) \/ AskPage(doing) \/ End("OSError", doing, <<>>)
        BY <1>5 DEF PageReply
      <3> HIDE DEF doing
      <3> QED BY <3>1 DEF NextChannel, AskPage
    <2> HIDE DEF doing
    <2>7. JobBound(doing)
      <3>1. PageEnd(job) + 1 <= job.points + 1
        <4>1. job.points \in Nat
          BY <1>1, Constants DEF Jobs
        <4>2. \A a, b \in Nat : a <= b => a + 1 <= b + 1
          OBVIOUS
        <4> QED BY <2>4, <4>1, <4>2
      <3> QED BY <1>1, <2>5, <3>1 DEF JobBound
    <2>8. /\ done \in Jobs /\ done.call = doing.call /\ done.start = doing.start
          /\ done.points = doing.points /\ Len(done.waves) = job.ch
      <3>1. /\ Append(doing.waves, doing.out) \in Seq(Seq(Bytes))
            /\ Len(Append(doing.waves, doing.out)) = Len(doing.waves) + 1
        BY <2>2, <2>5, AppendProperties
      <3>2. Len(doing.waves) + 1 = job.ch
        BY <2>2, <2>5, Constants DEF Channels
      <3> QED BY <2>5, <3>1, <3>2 DEF Jobs
    <2> HIDE DEF done
    <2>9. CASE job.ch # NumChannels /\ AskPreamble(job.ch + 1, done)
      <3>1. job.ch + 1 \in Channels /\ job.ch < NumChannels
        BY <2>2, <2>9, Constants DEF Channels
      <3>2. JobBound(done)
        BY <2>7, <2>8, <3>1 DEF JobBound
      <3> QED BY <1>1, <2>8, <2>9, <3>1, <3>2, PreambleBound
    <2>10. CASE job.ch = NumChannels /\ End("frame", done, <<>>)
      BY <2>7, <2>8, <2>10, EndBound DEF JobBound
    <2>11. CASE \E kind : End(kind, doing, <<>>)
      BY <2>7, <2>11, EndBound DEF JobBound
    <2>12. CASE \E commands, ch : Ask(commands, "data", ch, doing)
      BY <1>1, <2>7, <2>12, AskBound
    <2> QED BY <2>6, <2>9, <2>10, <2>11, <2>12
  <1>6. CASE DisplayReply
    <2> DEFINE on == IF Parses({"display"}) THEN job.on + Read[1] ELSE job.on
               doing == [job EXCEPT !.on = on]
    <2>1. doing.call = job.call /\ doing.waves = job.waves /\ doing.start = job.start
          /\ doing.points = job.points
      BY <1>1 DEF Jobs
    <2>2. \/ \E kind, commands : End(kind, doing, commands)
          \/ \E ch : Ask(<<>>, "display", ch, doing)
      BY <1>6 DEF DisplayReply
    <2> HIDE DEF on, doing
    <2>3. JobBound(doing)
      BY <1>1, <2>1 DEF JobBound
    <2> QED BY <1>1, <2>2, <2>3, EndBound, AskBound DEF JobBound
  <1>7. CASE BadReply
    <2>1. \E kind : End(kind, job, <<>>)
      BY <1>7 DEF BadReply
    <2> QED BY <1>1, <2>1, EndBound DEF JobBound
  <1> QED BY <1>2, <1>3, <1>4, <1>5, <1>6, <1>7 DEF HostStep

\* Every step keeps the bounds.
LEMMA NextBound ==
    ASSUME TypeInv, BoundInv, [Next]_vars
    PROVE  BoundInv'
  <1>1. ASSUME NEW want, NEW depth, Begin(want, depth) PROVE BoundInv'
    <2> DEFINE doing == [NoJob EXCEPT !.call = outcome.job.call + 1, !.want = want, !.depth = depth,
                                      !.began = IF wire = <<>> THEN scope.mode ELSE "unknown"]
    <2>1. outcome.job.call < MaxCalls /\ outcome.job.call <= MaxCalls /\ outcome.job.call \in Nat
          /\ timeouts' = timeouts
      BY <1>1 DEF Begin, TypeInv, HostTypes, Jobs, BoundInv
    <2>2. doing.call = outcome.job.call + 1 /\ doing.waves = <<>> /\ doing.start = 1 /\ doing.points = 0
      BY DEF NoJob
    <2>3. \E about, ch : Ask(<<>>, about, ch, doing)
      BY <1>1 DEF Begin
    <2> HIDE DEF doing
    <2>4. JobBound(doing)
      <3>1. outcome.job.call + 1 <= MaxCalls /\ 0 < NumChannels /\ Len(<<>>) = 0 /\ 1 <= 0 + 1
        BY <2>1, BoundAssumption
      <3> QED BY <2>2, <3>1 DEF JobBound
    <2>5. JobBound(job)' /\ outcome'.job.call <= MaxCalls
      BY <2>1, <2>3, <2>4, AskBound
    <2> QED BY <2>1, <2>5 DEF BoundInv
  <1>2. CASE HostStep
    <2>1. timeouts' = timeouts
      BY <1>2 DEF HostStep, StatusReply, RateReply, PreambleReply, PageReply, DisplayReply, BadReply, Answered
    <2> QED BY <1>2, <2>1, ReplyBound DEF BoundInv
  <1>3. CASE Timeout
    <2>1. End("OSError", job, <<>>) /\ timeouts < MaxTimeouts /\ timeouts' = timeouts + 1 /\ timeouts \in Nat
      BY <1>3 DEF Timeout, TypeInv, LineTypes
    <2>2. timeouts' \in 0..MaxTimeouts
      BY <2>1, BoundAssumption
    <2>3. job.call <= MaxCalls
      BY DEF BoundInv, JobBound
    <2> QED BY <2>1, <2>2, <2>3, EndBound DEF BoundInv
  <1>4. CASE UNCHANGED <<host, timeouts>>
    BY <1>4 DEF host, BoundInv, JobBound
  <1>5. (\E command \in Writes : Write(command)) \/ Reopen \/ Execute \/ Acquire \/ Hangup \/ UNCHANGED vars
        => UNCHANGED <<host, timeouts>>
    BY DEF Write, Reopen, Execute, Acquire, Hangup, vars
  <1> QED BY <1>1, <1>2, <1>3, <1>4, <1>5 DEF Next

\* In step or out of it, values keep the types and the bounds the runs check.
THEOREM TypesHold == Spec => []TypeOK
  <1>1. Init => BoundInv
    <2> SUFFICES ASSUME Init PROVE BoundInv
      OBVIOUS
    <2>1. job = NoJob /\ outcome.job = NoJob /\ timeouts = 0
      BY DEF Init
    <2>2. NoJob.call = 0 /\ NoJob.waves = <<>> /\ NoJob.start = 1 /\ NoJob.points = 0 /\ Len(<<>>) = 0
      BY DEF NoJob
    <2>3. 0 <= MaxCalls /\ 0 < NumChannels /\ 0 \in 0..MaxTimeouts
      BY BoundAssumption
    <2> QED BY <2>1, <2>2, <2>3 DEF BoundInv, JobBound
  <1>2. TypeInv /\ BoundInv /\ [Next]_vars => BoundInv'
    BY NextBound
  <1>3. TypeInv /\ BoundInv => TypeOK
    <2> SUFFICES ASSUME TypeInv, BoundInv PROVE TypeOK
      OBVIOUS
    <2>1. job \in Jobs /\ scope \in Scopes /\ outcome.kind \in Kinds
      BY DEF TypeInv, HostTypes, LineTypes
    <2>2. job.call \in 0..MaxCalls
      BY <2>1, BoundAssumption DEF BoundInv, JobBound, Jobs
    <2>3. \E n \in Records \cup {Screen} : job.start \in 1..(n + 1)
      <3>1. PICK start \in Nat \ {0}, points \in Points :
               start = job.start /\ points = job.points /\ start <= points + 1
        BY <2>1 DEF BoundInv, JobBound, Jobs
      <3>2. points \in Nat /\ Screen \in Nat
        BY Constants
      <3>3. points # 0 => points \in Records \cup {Screen} /\ start \in 1..(points + 1)
        BY <3>1, <3>2 DEF Points
      <3>4. points = 0 => start \in 1..(Screen + 1)
        BY <3>1, <3>2
      <3> QED BY <3>1, <3>3, <3>4
    <2>4. /\ pc \in {"idle", "reply"} /\ job.want \in Wants /\ job.ch \in 0..NumChannels
          /\ closed \in BOOLEAN /\ lost \in BOOLEAN /\ scope.mode \in Modes /\ scope.on \subseteq Channels
      BY <2>1 DEF TypeInv, HostTypes, LineTypes, Jobs, Scopes
    <2> QED BY <2>1, <2>2, <2>3, <2>4 DEF TypeOK, BoundInv, JobBound, Modes, Kinds
  <1> QED BY <1>1, <1>2, <1>3, StreamTypes, PTL DEF Spec

-----------------------------------------------------------------------------
(* Counting what is on the line.                                           *)

\* Commands, however they are put together.
LEMMA Regrouped ==
    \A x, y, z \in Seq(Sent) : (x \o y) \o z = x \o (y \o z)
  BY ConcatAssociative

\* Bytes, however they are put together.
LEMMA BytesRegrouped ==
    \A x, y, z \in Seq(Bytes) : (x \o y) \o z = x \o (y \o z)
  BY ConcatAssociative

\* Where the members of a set are in a sequence, and how many they are.
Places(s, K) == {i \in DOMAIN s : s[i] \in K}
Number(s, K) == Cardinality(Places(s, K))

\* Numbers add up.
LEMMA NumberJoined ==
    ASSUME NEW S, NEW s \in Seq(S), NEW t \in Seq(S), NEW K
    PROVE  /\ Number(s, K) \in Nat /\ Number(t, K) \in Nat
           /\ Number(s \o t, K) = Number(s, K) + Number(t, K)
  <1> DEFINE both == s \o t
             P == Places(s, K)
             Q == Places(t, K)
             R == Places(both, K) \ P
  <1>1. /\ Len(s) \in Nat /\ Len(t) \in Nat /\ DOMAIN s = 1..Len(s) /\ DOMAIN t = 1..Len(t)
        /\ both \in Seq(S) /\ Len(both) = Len(s) + Len(t)
    BY Joined, LenProperties
  <1>2. \A i \in 1..Len(s) : both[i] = s[i]
    BY Joined
  <1>3. \A i \in 1..Len(t) : both[Len(s) + i] = t[i]
    BY Joined
  <1>4. DOMAIN both = 1..(Len(s) + Len(t))
    BY <1>1, LenProperties
  <1> HIDE DEF both
  <1>5. IsFiniteSet(P) /\ IsFiniteSet(Q) /\ IsFiniteSet(Places(both, K)) /\ IsFiniteSet(R)
    <2>1. IsFiniteSet(DOMAIN s) /\ IsFiniteSet(DOMAIN t) /\ IsFiniteSet(DOMAIN both)
      BY <1>1, <1>4, FS_Interval
    <2>2. P \subseteq DOMAIN s /\ Q \subseteq DOMAIN t /\ Places(both, K) \subseteq DOMAIN both
          /\ R \subseteq DOMAIN both
      BY DEF Places
    <2> QED BY <2>1, <2>2, FS_Subset
  <1>6. \A i \in P : i \in Places(both, K)
    BY <1>1, <1>2, <1>4 DEF Places
  <1>7. \A i \in Places(both, K) : i \in 1..Len(s) => i \in P
    BY <1>1, <1>2 DEF Places
  <1>8. ExistsBijection(Q, R)
    <2> DEFINE f == [i \in Q |-> Len(s) + i]
    <2>1. ASSUME NEW i \in Q PROVE Len(s) + i \in R
      <3>1. i \in 1..Len(t) /\ t[i] \in K
        BY <1>1 DEF Places
      <3>2. both[Len(s) + i] \in K /\ Len(s) + i \in DOMAIN both /\ Len(s) + i \notin DOMAIN s
        BY <1>1, <1>3, <1>4, <3>1
      <3> QED BY <3>2 DEF Places
    <2>2. \A i, j \in Q : f[i] = f[j] => i = j
      BY <1>1 DEF Places
    <2>3. ASSUME NEW k \in R PROVE \E i \in Q : f[i] = k
      <3>1. k \in DOMAIN both /\ both[k] \in K /\ k \notin 1..Len(s)
        BY <1>7 DEF Places
      <3>2. k - Len(s) \in 1..Len(t) /\ Len(s) + (k - Len(s)) = k
        BY <1>1, <1>4, <3>1
      <3>3. both[Len(s) + (k - Len(s))] = t[k - Len(s)]
        BY <1>3, <3>2
      <3>4. k - Len(s) \in Q
        BY <1>1, <3>1, <3>2, <3>3 DEF Places
      <3> QED BY <3>2, <3>4
    <2>4. f \in [Q -> R]
      BY <2>1
    <2> HIDE DEF f, Q, R
    <2> QED BY <2>2, <2>3, <2>4 DEF ExistsBijection, Bijection, Injection, Surjection, IsInjective
  <1>9. Cardinality(R) = Cardinality(Q)
    BY <1>5, <1>8, FS_Bijection
  <1>10. P \cup R = Places(both, K) /\ P \cap R = {}
    BY <1>6
  <1>11. Cardinality(P) \in Nat /\ Cardinality(Q) \in Nat /\ Cardinality(P \cap R) = 0
    BY <1>5, <1>10, FS_CardinalityType, FS_EmptySet
  <1>12. Cardinality(Places(both, K)) = Cardinality(P) + Cardinality(R) - Cardinality(P \cap R)
    <2> HIDE DEF P, R
    <2> QED BY <1>5, <1>10, FS_Union
  <1> QED BY <1>9, <1>11, <1>12 DEF Number, both

\* The numbers of short sequences.
LEMMA NumberShort ==
    ASSUME NEW K
    PROVE  /\ Number(<<>>, K) = 0
           /\ \A a : Number(<<a>>, K) = IF a \in K THEN 1 ELSE 0
           /\ \A S : \A s \in Seq(S) : (\A i \in DOMAIN s : s[i] \notin K) => Number(s, K) = 0
  <1>1. ASSUME NEW s, \A i \in DOMAIN s : s[i] \notin K PROVE Number(s, K) = 0
    <2>1. Places(s, K) = {}
      BY <1>1 DEF Places
    <2> QED BY <2>1, FS_EmptySet DEF Number
  <1>2. ASSUME NEW a PROVE Number(<<a>>, K) = IF a \in K THEN 1 ELSE 0
    <2>1. DOMAIN <<a>> = {1} /\ <<a>>[1] = a
      OBVIOUS
    <2>2. Places(<<a>>, K) = IF a \in K THEN {1} ELSE {}
      BY <2>1 DEF Places
    <2> QED BY <2>2, FS_EmptySet, FS_Singleton DEF Number
  <1>3. Number(<<>>, K) = 0
    <2>1. DOMAIN <<>> = {}
      OBVIOUS
    <2> QED BY <1>1, <2>1
  <1> QED BY <1>1, <1>2, <1>3

-----------------------------------------------------------------------------
(* Lines. *)

\* The bytes that end a line.
Enders == {b \in Bytes : EndsLine(b)}

\* The last line is whole.
Tidy(s) == s = <<>> \/ s[Len(s)] \in Enders

\* The lines of a sequence of bytes, the last one whole or not.
Lines(s) == Number(s, Enders) + (IF Tidy(s) THEN 0 ELSE 1)

\* Every byte is in a line.
LEMMA LinesCount ==
    ASSUME NEW s \in Seq(Bytes)
    PROVE  /\ Lines(s) \in Nat /\ Number(s, Enders) \in Nat /\ Number(s, Enders) <= Lines(s)
           /\ Tidy(s) => Lines(s) = Number(s, Enders)
           /\ ~Tidy(s) => Lines(s) = Number(s, Enders) + 1
           /\ s # <<>> => Lines(s) >= 1
           /\ s = <<>> => Lines(s) = 0
  <1>1. Number(s, Enders) \in Nat
    BY NumberJoined
  <1>2. ASSUME s # <<>>, Tidy(s) PROVE Number(s, Enders) >= 1
    <2>1. Len(s) \in DOMAIN s
      BY <1>2, LenProperties, EmptySeq
    <2>2. {Len(s)} \subseteq Places(s, Enders)
      BY <1>2, <2>1 DEF Tidy, Places
    <2>3. IsFiniteSet(Places(s, Enders))
      <3>1. IsFiniteSet(DOMAIN s)
        BY LenProperties, FS_Interval
      <3> QED BY <3>1, FS_Subset DEF Places
    <2>4. Cardinality({Len(s)}) <= Cardinality(Places(s, Enders)) /\ Cardinality({Len(s)}) = 1
      BY <2>2, <2>3, FS_Subset, FS_Singleton
    <2> QED BY <1>1, <2>4 DEF Number
  <1>3. s = <<>> => Number(s, Enders) = 0
    BY NumberShort
  <1>4. Lines(s) = IF Tidy(s) THEN Number(s, Enders) ELSE Number(s, Enders) + 1
    BY <1>1 DEF Lines
  <1> HIDE DEF Lines, Number
  <1>5. s = <<>> => Tidy(s)
    BY DEF Tidy
  <1> QED BY <1>1, <1>2, <1>3, <1>4, <1>5

\* Lines add up behind a whole line.
LEMMA LinesJoined ==
    ASSUME NEW s \in Seq(Bytes), NEW t \in Seq(Bytes)
    PROVE  /\ s \o t \in Seq(Bytes)
           /\ t # <<>> => Lines(s \o t) = Number(s, Enders) + Lines(t) /\ (Tidy(s \o t) <=> Tidy(t))
           /\ t = <<>> => s \o t = s
           /\ s = <<>> => s \o t = t
           /\ Tidy(s) => Lines(s \o t) = Lines(s) + Lines(t) /\ (Tidy(t) => Tidy(s \o t))
  <1>1. s \o t \in Seq(Bytes)
    BY Joined
  <1>2. (t = <<>> => s \o t = s) /\ (s = <<>> => s \o t = t)
    BY ConcatEmptySeq
  <1>3. ASSUME t # <<>>
        PROVE  Lines(s \o t) = Number(s, Enders) + Lines(t) /\ (Tidy(s \o t) <=> Tidy(t))
    <2>1. Len(s) \in Nat /\ Len(t) \in Nat /\ Len(t) \in 1..Len(t) /\ Len(s \o t) = Len(s) + Len(t)
      BY <1>3, LenProperties, EmptySeq, Joined
    <2>2. (s \o t)[Len(s) + Len(t)] = t[Len(t)]
      BY <2>1, Behind, Zenon
    <2>3. s \o t # <<>>
      BY <1>1, <2>1, EmptySeq
    <2>4. Tidy(s \o t) <=> Tidy(t)
      BY <1>3, <2>1, <2>2, <2>3 DEF Tidy
    <2>5. Number(s \o t, Enders) = Number(s, Enders) + Number(t, Enders)
          /\ Number(s, Enders) \in Nat /\ Number(t, Enders) \in Nat
      BY NumberJoined
    <2>6. Lines(s \o t) = Number(s \o t, Enders) + (IF Tidy(t) THEN 0 ELSE 1)
          /\ Lines(t) = Number(t, Enders) + (IF Tidy(t) THEN 0 ELSE 1)
      BY <2>4 DEF Lines
    <2> QED BY <2>4, <2>5, <2>6
  <1>4. Tidy(s) => Lines(s) = Number(s, Enders) /\ Lines(s) \in Nat
    BY LinesCount
  <1>5. t = <<>> => Lines(t) = 0
    BY LinesCount
  <1>6. ASSUME Tidy(s) PROVE Lines(s \o t) = Lines(s) + Lines(t) /\ (Tidy(t) => Tidy(s \o t))
    <2>1. CASE t = <<>>
      <3>1. s \o t = s /\ Lines(t) = 0
        BY <1>2, <1>5, <2>1
      <3> HIDE DEF Lines
      <3> QED BY <1>4, <1>6, <3>1
    <2>2. CASE t # <<>>
      BY <1>3, <1>4, <1>6, <2>2
    <2> QED BY <2>1, <2>2
  <1> QED BY <1>1, <1>2, <1>3, <1>6

\* A sequence is what comes up to some byte and what is left.
LEMMA SplitAt ==
    ASSUME NEW s \in Seq(Bytes), NEW n \in 0..Len(s)
    PROVE  /\ SubSeq(s, 1, n) \in Seq(Bytes) /\ From(s, n + 1) \in Seq(Bytes)
           /\ Len(SubSeq(s, 1, n)) = n /\ Len(From(s, n + 1)) = Len(s) - n
           /\ s = SubSeq(s, 1, n) \o From(s, n + 1)
           /\ \A i \in 1..n : SubSeq(s, 1, n)[i] = s[i]
  <1>1. Len(s) \in Nat /\ n \in Nat /\ n <= Len(s)
    BY LenProperties
  <1>2. n + 1 \in 1..(Len(s) + 1) /\ 1 \in 1..(Len(s) + 1) /\ n \in (1 - 1)..Len(s)
    BY <1>1
  <1>3. From(s, n + 1) \in Seq(Bytes) /\ Len(From(s, n + 1)) = Len(s) - (n + 1) + 1
    BY <1>2, FromFacts
  <1>4. SubSeq(s, 1, n) \in Seq(Bytes) /\ Len(SubSeq(s, 1, n)) = n - 1 + 1
    BY <1>2, UptoFacts
  <1>5. \A i \in 1..(n - 1 + 1) : SubSeq(s, 1, n)[i] = s[1 + i - 1]
    BY <1>2, UptoFacts
  <1>6. \A i \in 1..n : SubSeq(s, 1, n)[i] = s[i]
    <2>1. n - 1 + 1 = n /\ \A i \in 1..n : 1 + i - 1 = i
      BY <1>1
    <2> QED BY <1>5, <2>1
  <1>7. s = SubSeq(s, 1, n) \o From(s, n + 1)
    <2>1. SubSeq(s, 1, Len(s)) = s
      BY SubSeqFull
    <2>2. SubSeq(s, 1, n) \o SubSeq(s, n + 1, Len(s)) = SubSeq(s, 1, Len(s))
      <3>1. 1 \in 1..(Len(s) + 1) /\ n \in (1 - 1)..Len(s) /\ Len(s) \in n..Len(s)
        BY <1>1
      <3> QED BY <3>1, ConcatAdjacentSubSeq
    <2> QED BY <2>1, <2>2 DEF From
  <1>8. n - 1 + 1 = n /\ Len(s) - (n + 1) + 1 = Len(s) - n
    BY <1>1
  <1>9. Len(SubSeq(s, 1, n)) = n /\ Len(From(s, n + 1)) = Len(s) - n
    BY <1>3, <1>4, <1>8
  <1> QED BY <1>3, <1>4, <1>6, <1>7, <1>9, Zenon

\* A part of a sequence has no more lines.
LEMMA LinesOfPart ==
    ASSUME NEW s \in Seq(Bytes), NEW n \in 0..Len(s)
    PROVE  /\ SubSeq(s, 1, n) \in Seq(Bytes) /\ Lines(SubSeq(s, 1, n)) <= Lines(s)
           /\ From(s, n + 1) \in Seq(Bytes) /\ Lines(From(s, n + 1)) <= Lines(s)
           /\ Tidy(s) => Tidy(From(s, n + 1))
           /\ n # Len(s) => From(s, n + 1) # <<>>
  <1> DEFINE p == SubSeq(s, 1, n)
             r == From(s, n + 1)
  <1>1. p \in Seq(Bytes) /\ r \in Seq(Bytes) /\ s = p \o r /\ Len(r) = Len(s) - n
    BY SplitAt
  <1>2. n # Len(s) => r # <<>>
    <2>1. Len(s) \in Nat /\ n \in Nat
      BY LenProperties
    <2> QED BY <1>1, <2>1, EmptySeq
  <1> HIDE DEF p, r
  <1>3. CASE r = <<>>
    <2>1. p \o r = p
      BY <1>1, <1>3, LinesJoined
    <2>2. s = p /\ Lines(r) = 0 /\ Lines(s) \in Nat /\ Tidy(r)
      BY <1>1, <1>3, <2>1, LinesCount DEF Tidy
    <2>3. Lines(p) <= Lines(s) /\ Lines(r) <= Lines(s)
      <3>1. Lines(p) = Lines(s)
        BY <2>2
      <3> QED BY <2>2, <3>1
    <2> QED BY <1>1, <1>2, <2>2, <2>3, Zenon DEF p, r
  <1>4. CASE r # <<>>
    <2>1. Lines(p \o r) = Number(p, Enders) + Lines(r) /\ (Tidy(p \o r) <=> Tidy(r))
      BY <1>1, <1>4, LinesJoined
    <2>2. Lines(r) >= 1 /\ Lines(r) \in Nat /\ Number(p, Enders) \in Nat
          /\ Lines(p) <= Number(p, Enders) + 1
      BY <1>1, <1>4, LinesCount
    <2>3. Lines(s) = Number(p, Enders) + Lines(r) /\ (Tidy(s) <=> Tidy(r)) /\ Lines(p) \in Nat
      BY <1>1, <2>1, LinesCount
    <2>4. Lines(p) <= Lines(s) /\ Lines(r) <= Lines(s)
      BY <2>2, <2>3
    <2> QED BY <1>1, <1>2, <2>3, <2>4, Zenon DEF p, r
  <1> QED BY <1>3, <1>4

\* A line that is read is one line less.
LEMMA LineRead ==
    ASSUME NEW s \in Seq(Bytes), s # <<>>, NEW t \in Seq(Bytes), t = <<>> \/ Tidy(s)
    PROVE  \E r \in Seq(Bytes) :
              /\ LineOf(s \o t).rest = r \o t /\ Lines(r) = Lines(s) - 1 /\ (Tidy(s) => Tidy(r))
  <1> DEFINE both == s \o t
  <1>1. /\ Len(s) \in Nat /\ Len(t) \in Nat /\ DOMAIN s = 1..Len(s) /\ Len(s) >= 1
        /\ both \in Seq(Bytes) /\ Len(both) = Len(s) + Len(t)
    BY Joined, LenProperties, EmptySeq
  <1>2. \A i \in 1..Len(s) : both[i] = s[i]
    BY Joined
  <1>3. DOMAIN both = 1..(Len(s) + Len(t))
    BY <1>1, LenProperties
  <1>4. Places(s, Enders) = LineEnds(s)
    <2>1. \A i \in DOMAIN s : s[i] \in Bytes
      BY <1>1, ElementOfSeq
    <2> QED BY <2>1 DEF Places, Enders, LineEnds
  <1>5. CASE LineEnds(s) = {}
    <2>1. ~Tidy(s)
      <3>1. Len(s) \in DOMAIN s
        BY <1>1
      <3> QED BY <1>4, <1>5, <3>1 DEF Tidy, Places
    <2>2. both = s /\ LineOf(s).rest = <<>>
      BY <1>5, <2>1, ConcatEmptySeq, LineFacts
    <2>3. Lines(s) = 1
      <3>1. Number(s, Enders) = 0
        BY <1>4, <1>5, FS_EmptySet DEF Number
      <3> QED BY <2>1, <3>1 DEF Lines
    <2>4. <<>> \o t = <<>> /\ <<>> \in Seq(Bytes) /\ Lines(<<>>) = 0
      BY <2>1, EmptySeq, ConcatEmptySeq, LinesCount
    <2>5. LineOf(s \o t).rest = <<>> \o t /\ Lines(<<>>) = Lines(s) - 1
      BY <2>2, <2>3, <2>4
    <2> QED BY <2>1, <2>4, <2>5, Zenon
  <1>6. CASE LineEnds(s) # {}
    <2> DEFINE m == Min(LineEnds(s))
    <2>1. m \in LineEnds(s) /\ \A j \in LineEnds(s) : m <= j
      <3>1. LineEnds(s) \in SUBSET Nat
        BY <1>1 DEF LineEnds
      <3> QED BY <1>6, <3>1, MinIsLeast
    <2>2. m \in 1..Len(s) /\ s[m] \in Enders
      BY <1>1, <1>4, <2>1 DEF Places
    <2> HIDE DEF m
    <2> HIDE DEF both
    <2>3. LineEnds(both) # {} /\ Min(LineEnds(both)) = m
      <3>1. LineEnds(both) \in SUBSET Nat /\ m \in LineEnds(both)
        BY <1>1, <1>2, <1>3, <2>1, <2>2 DEF LineEnds
      <3>2. \A j \in LineEnds(both) : m <= j
        <4>1. \A j \in LineEnds(both) : j <= Len(s) => j \in LineEnds(s)
          BY <1>1, <1>2, <1>3 DEF LineEnds
        <4>2. \A j \in LineEnds(both) : j \in Nat
          BY <3>1
        <4> QED BY <1>1, <2>1, <2>2, <4>1, <4>2
      <3>3. Min(LineEnds(both)) \in LineEnds(both) /\ Min(LineEnds(both)) <= m
        BY <3>1, MinIsLeast
      <3> QED BY <3>1, <3>2, <3>3
    <2>4. LineOf(both).rest = From(both, m + 1)
      BY <2>3 DEF LineOf
    <2> DEFINE p == SubSeq(s, 1, m)
               r == From(s, m + 1)
    <2>5. /\ p \in Seq(Bytes) /\ r \in Seq(Bytes) /\ s = p \o r /\ Len(p) = m
          /\ \A i \in 1..m : p[i] = s[i]
      <3>1. m \in 0..Len(s)
        BY <2>2
      <3> QED BY <3>1, SplitAt
    <2> HIDE DEF p, r
    <2>6. From(both, m + 1) = r \o t
      <3>1. both = p \o (r \o t) /\ r \o t \in Seq(Bytes) /\ Len(r \o t) = Len(r) + Len(t)
            /\ Len(r) \in Nat /\ Len(s) = m + Len(r)
        <4>1. both = (p \o r) \o t
          BY <2>5 DEF both
        <4>2. (p \o r) \o t = p \o (r \o t)
          BY <2>5, BytesRegrouped, Zenon
        <4> QED BY <2>5, <4>1, <4>2, Joined, LenProperties
      <3>2. m \in 0..Len(both)
        BY <1>1, <2>2
      <3>3. From(both, m + 1) \in Seq(Bytes) /\ Len(From(both, m + 1)) = Len(both) - m
            /\ \A i \in 1..(Len(both) - m) : From(both, m + 1)[i] = both[m + i]
        <4> DEFINE k == m + 1
        <4>1. k \in 1..(Len(both) + 1) /\ Len(both) - k + 1 = Len(both) - m
              /\ \A i \in 1..(Len(both) - m) : k + i - 1 = m + i
          BY <1>1, <3>2
        <4> HIDE DEF k
        <4>2. From(both, k) \in Seq(Bytes) /\ Len(From(both, k)) = Len(both) - k + 1
          BY <1>1, <4>1, FromFacts
        <4>3. \A i \in 1..(Len(both) - k + 1) : From(both, k)[i] = both[k + i - 1]
          BY <1>1, <4>1, FromFacts
        <4>4. \A i \in 1..(Len(both) - m) : From(both, k)[i] = both[m + i]
          BY <4>1, <4>3
        <4> QED BY <4>1, <4>2, <4>4 DEF k
      <3>4. \A i \in 1..Len(r \o t) : both[m + i] = (r \o t)[i]
        <4>1. \A i \in 1..Len(r \o t) : (p \o (r \o t))[Len(p) + i] = (r \o t)[i]
          BY <2>5, <3>1, Behind, Zenon
        <4> QED BY <2>5, <3>1, <4>1
      <3>5. Len(From(both, m + 1)) = Len(r \o t)
        <4>1. Len(both) = Len(s) + Len(t) /\ Len(s) = m + Len(r) /\ m \in Nat
          BY <1>1, <2>2, <3>1
        <4>2. Len(both) - m = Len(r) + Len(t)
          BY <1>1, <3>1, <4>1
        <4> QED BY <3>1, <3>3, <4>2
      <3>6. \A i \in 1..Len(From(both, m + 1)) : From(both, m + 1)[i] = (r \o t)[i]
        BY <3>3, <3>4, <3>5
      <3> QED BY <3>1, <3>3, <3>5, <3>6, SeqEqual
    <2>7. Tidy(p) /\ Lines(p) = 1
      <3>1. Tidy(p)
        BY <2>2, <2>5 DEF Tidy
      <3>2. Places(p, Enders) = {m}
        <4>1. DOMAIN p = 1..m
          BY <2>5, LenProperties
        <4>2. \A i \in 1..m : i \in DOMAIN s
          BY <1>1, <2>2
        <4>3. \A i \in 1..m : s[i] \in Enders => i \in LineEnds(s)
          BY <1>4, <4>2 DEF Places
        <4>4. \A i \in 1..m : p[i] \in Enders <=> i = m
          BY <2>1, <2>2, <2>5, <4>3
        <4>5. m \in 1..m
          BY <2>2
        <4> QED BY <4>1, <4>4, <4>5 DEF Places
      <3>3. Number(p, Enders) = 1
        BY <3>2, FS_Singleton DEF Number
      <3> QED BY <2>5, <3>1, <3>3, LinesCount
    <2>8. Lines(s) = 1 + Lines(r) /\ (Tidy(s) => Tidy(r)) /\ Lines(r) \in Nat
      <3>1. Lines(p \o r) = Lines(p) + Lines(r) /\ Lines(r) \in Nat
        BY <2>5, <2>7, LinesJoined, LinesCount
      <3>2. Tidy(s) => Tidy(r)
        <4>1. r # <<>> => (Tidy(p \o r) <=> Tidy(r))
          BY <2>5, LinesJoined
        <4> QED BY <2>5, <4>1 DEF Tidy
      <3> QED BY <2>5, <2>7, <3>1, <3>2
    <2>9. Lines(r) = Lines(s) - 1
      BY <2>8
    <2>10. LineOf(s \o t).rest = r \o t
      BY <2>4, <2>6 DEF both
    <2> QED BY <2>5, <2>8, <2>9, <2>10, Zenon
  <1> QED BY <1>5, <1>6

\* A whole reply is a line, or more.
LEMMA AnswerLines ==
    ASSUME NEW r, Answer(r)
    PROVE  r \in Seq(Bytes) /\ r # <<>> /\ Tidy(r) /\ Lines(r) >= 1 /\ Lines(r) = Number(r, Enders)
  <1>1. r \in Seq(Bytes) /\ Len(r) >= 1 /\ r[Len(r)].is = "end"
    BY DEF Answer
  <1>2. r # <<>> /\ Len(r) \in 1..Len(r)
    BY <1>1, LenProperties, EmptySeq
  <1>3. r[Len(r)] \in Enders
    BY <1>1, <1>2, ElementOfSeq DEF Enders, EndsLine
  <1>4. Tidy(r)
    BY <1>3 DEF Tidy
  <1> QED BY <1>1, <1>2, <1>4, LinesCount

\* A text is one line.
LEMMA LineLines ==
    ASSUME NEW s \in Scopes, NEW of \in Arguments, of[2] # "data"
    PROVE  Lines(Line(s, of)) <= 1 /\ Line(s, of)[1].is = "text" /\ Line(s, of)[1].of = of
  <1> DEFINE r == Line(s, of)
  <1>1. /\ r \in Seq(Bytes) /\ Len(r) = 2 /\ r[1] = Byte("text", of, Value(s, of[2], of[3])) /\ Answer(r)
    BY LineReply
  <1> HIDE DEF r
  <1>2. r[1].is = "text" /\ r[1].of = of /\ r[1] \notin Enders
    BY <1>1 DEF Byte, Enders, EndsLine
  <1>3. DOMAIN r = 1..2
    BY <1>1, LenProperties
  <1>4. Places(r, Enders) \subseteq {2}
    BY <1>2, <1>3 DEF Places
  <1>5. Number(r, Enders) <= 1
    <2>1. IsFiniteSet({2}) /\ Cardinality({2}) = 1
      BY FS_Singleton
    <2> QED BY <1>4, <2>1, FS_Subset DEF Number
  <1>6. Lines(r) = Number(r, Enders)
    BY <1>1, AnswerLines
  <1> QED BY <1>2, <1>5, <1>6 DEF r

\* A block is two lines at most if no two of its samples end a line.
LEMMA BlockLines ==
    ASSUME FewNewlines, NEW s \in Scopes, NEW of \in Arguments, NEW a \in Nat, NEW b \in Nat, a <= b + 1
    PROVE  Lines(Block(s, of, a..b)) <= 2
  <1> DEFINE r == Block(s, of, a..b)
             size == b - a + 1
  <1>1. /\ r \in Seq(Bytes) /\ Len(r) = size + 3 /\ size \in Nat
        /\ r[1] = Byte("hash", of, <<>>) /\ r[2] = Byte("len", of, <<size>>)
        /\ \A i \in 1..size : r[i + 2] = Byte("data", of, <<s.frame, s.src, a + i - 1>>)
        /\ Answer(r)
    BY BlockReply
  <1> HIDE DEF r, size
  <1>2. DOMAIN r = 1..(size + 3)
    BY <1>1, LenProperties
  <1>3. r[1] \notin Enders /\ r[2] \notin Enders
    BY <1>1 DEF Byte, Enders, EndsLine
  <1>4. \A i \in 1..size : r[i + 2] \in Enders => a + i - 1 \in Newlines
    <2> TAKE i \in 1..size
    <2>1. r[i + 2] = Byte("data", of, <<s.frame, s.src, a + i - 1>>)
      BY <1>1
    <2>2. r[i + 2].is = "data" /\ r[i + 2].val[3] = a + i - 1
      BY <2>1 DEF Byte
    <2> QED BY <2>2 DEF Enders, EndsLine
  <1>5. \A i, j \in 1..size : r[i + 2] \in Enders /\ r[j + 2] \in Enders => i = j
    <2> SUFFICES ASSUME NEW i \in 1..size, NEW j \in 1..size, r[i + 2] \in Enders, r[j + 2] \in Enders
                 PROVE  i = j
      OBVIOUS
    <2>1. a + i - 1 = a + j - 1
      BY <1>4 DEF FewNewlines
    <2> QED BY <1>1, <2>1
  <1>6. PICK m \in Nat : Places(r, Enders) \subseteq {m, size + 3}
    <2>1. \A k \in Places(r, Enders) : k = size + 3 \/ \E i \in 1..size : k = i + 2 /\ r[i + 2] \in Enders
      <3> TAKE k \in Places(r, Enders)
      <3>1. k \in 1..(size + 3) /\ r[k] \in Enders /\ k # 1 /\ k # 2
        BY <1>2, <1>3 DEF Places
      <3>2. k # size + 3 => k - 2 \in 1..size /\ k = (k - 2) + 2
        BY <1>1, <3>1
      <3> QED BY <3>1, <3>2
    <2>2. CASE \E i \in 1..size : r[i + 2] \in Enders
      <3>1. PICK i \in 1..size : r[i + 2] \in Enders
        BY <2>2
      <3>2. \A k \in Places(r, Enders) : k = size + 3 \/ k = i + 2
        BY <1>5, <2>1, <3>1
      <3>3. i + 2 \in Nat /\ Places(r, Enders) \subseteq {i + 2, size + 3}
        BY <3>1, <3>2
      <3> QED BY <3>3
    <2>3. CASE ~ \E i \in 1..size : r[i + 2] \in Enders
      <3>1. Places(r, Enders) \subseteq {0, size + 3}
        BY <2>1, <2>3
      <3> QED BY <3>1
    <2> QED BY <2>2, <2>3
  <1>7. Number(r, Enders) <= 2
    <2>1. IsFiniteSet({m}) /\ Cardinality({m}) = 1
      BY FS_Singleton
    <2>2. {m, size + 3} = {m} \cup {size + 3}
      OBVIOUS
    <2>3. IsFiniteSet({m, size + 3}) /\ Cardinality({m, size + 3}) <= 2
      <3> DEFINE n == size + 3
      <3>1. Cardinality({m} \cup {n}) = IF n \in {m} THEN 1 ELSE 1 + 1
        BY <2>1, FS_AddElement
      <3>2. IsFiniteSet({m} \cup {n})
        BY <2>1, FS_AddElement
      <3> QED BY <2>2, <3>1, <3>2
    <2>4. Cardinality(Places(r, Enders)) <= Cardinality({m, size + 3})
      BY <1>6, <2>3, FS_Subset
    <2>5. IsFiniteSet(Places(r, Enders))
      BY <1>6, <2>3, FS_Subset
    <2>6. Cardinality(Places(r, Enders)) \in Nat /\ Cardinality({m, size + 3}) \in Nat
      BY <2>3, <2>5, FS_CardinalityType
    <2> QED BY <2>3, <2>4, <2>6 DEF Number
  <1>8. Lines(r) = Number(r, Enders)
    BY <1>1, AnswerLines
  <1> QED BY <1>7, <1>8 DEF r

-----------------------------------------------------------------------------
(* Queries on the wire. *)

\* What is left of the commands.
LEMMA WireTail ==
    ASSUME NEW w \in Seq(Sent), w # <<>>
    PROVE  /\ Head(w) = w[1] /\ Len(Tail(w)) = Len(w) - 1 /\ Tail(w) \in Seq(Sent) /\ Len(w) \in Nat \ {0}
           /\ DOMAIN w = 1..Len(w) /\ DOMAIN Tail(w) = 1..(Len(w) - 1)
           /\ \A i \in 1..(Len(w) - 1) : Tail(w)[i] = w[i + 1]
  <1>1. Len(w) \in Nat /\ Len(w) # 0 /\ DOMAIN w = 1..Len(w)
    BY LenProperties, EmptySeq
  <1>2. Tail(w) \in Seq(Sent) /\ Len(Tail(w)) = Len(w) - 1 /\ Head(w) = w[1]
    BY HeadTailProperties
  <1>3. DOMAIN Tail(w) = 1..(Len(w) - 1)
    BY <1>2, LenProperties
  <1>4. \A i \in 1..(Len(w) - 1) : Tail(w)[i] = w[i + 1]
    BY <1>1, HeadTailProperties
  <1> QED BY <1>1, <1>2, <1>3, <1>4

Quests == {c \in Sent : IsQuery(c)}
Pages == {c \in Quests : c.arg[2] = "data"}

\* The queries on the wire, and the lines that may answer them.
Asked(w) == Number(w, Quests)
Load(w) == Number(w, Quests) + Number(w, Pages)

\* Queries add up, and so do the lines that answer them.
LEMMA LoadJoined ==
    ASSUME NEW s \in Seq(Sent), NEW t \in Seq(Sent)
    PROVE  /\ Asked(s) \in Nat /\ Asked(t) \in Nat /\ Load(s) \in Nat /\ Load(t) \in Nat
           /\ Asked(s) <= Load(s)
           /\ Asked(s \o t) = Asked(s) + Asked(t) /\ Load(s \o t) = Load(s) + Load(t)
  <1>1. /\ Number(s, Quests) \in Nat /\ Number(t, Quests) \in Nat
        /\ Number(s \o t, Quests) = Number(s, Quests) + Number(t, Quests)
    BY NumberJoined
  <1>2. /\ Number(s, Pages) \in Nat /\ Number(t, Pages) \in Nat
        /\ Number(s \o t, Pages) = Number(s, Pages) + Number(t, Pages)
    BY NumberJoined
  <1> QED BY <1>1, <1>2 DEF Asked, Load

\* Nothing answers what is no query.
LEMMA LoadPlain ==
    ASSUME NEW s \in Seq(Sent), NoQuery(s)
    PROVE  Asked(s) = 0 /\ Load(s) = 0
  <1>1. \A i \in DOMAIN s : s[i] \notin Quests /\ s[i] \notin Pages
    BY DEF NoQuery, Quests, Pages
  <1>2. Number(s, Quests) = 0 /\ Number(s, Pages) = 0
    BY <1>1, NumberShort
  <1> QED BY <1>2 DEF Asked, Load

\* One command.
LEMMA LoadOne ==
    ASSUME NEW c \in Sent
    PROVE  /\ <<c>> \in Seq(Sent)
           /\ Asked(<<c>>) = IF IsQuery(c) THEN 1 ELSE 0
           /\ Load(<<c>>) = IF IsQuery(c) THEN IF c.arg[2] = "data" THEN 2 ELSE 1 ELSE 0
  <1>1. Number(<<c>>, Quests) = IF IsQuery(c) THEN 1 ELSE 0
    BY NumberShort DEF Quests
  <1>2. Number(<<c>>, Pages) = IF IsQuery(c) /\ c.arg[2] = "data" THEN 1 ELSE 0
    BY NumberShort DEF Quests, Pages
  <1> QED BY <1>1, <1>2 DEF Asked, Load

\* One query more.
LEMMA LoadAppend ==
    ASSUME NEW w \in Seq(Sent), NEW commands \in Seq(Plain), NEW q \in [op : {"?"}, arg : Arguments]
    PROVE  LET asked == w \o Append(commands, q)
           IN  /\ Append(commands, q) \in Seq(Sent)
               /\ Append(commands, q) = commands \o <<q>> /\ commands \in Seq(Sent) /\ <<q>> \in Seq(Sent)
               /\ Asked(commands) = 0 /\ Load(commands) = 0
               /\ Asked(asked) = Asked(w) + 1
               /\ Load(asked) = Load(w) + IF q.arg[2] = "data" THEN 2 ELSE 1
  <1>1. q \in Sent /\ IsQuery(q)
    BY Commands DEF IsQuery
  <1>2. commands \in Seq(Sent) /\ Asked(commands) = 0 /\ Load(commands) = 0
    BY PlainCommands, LoadPlain
  <1>3. <<q>> \in Seq(Sent) /\ Asked(<<q>>) = 1 /\ Load(<<q>>) = IF q.arg[2] = "data" THEN 2 ELSE 1
    BY <1>1, LoadOne
  <1>4. Append(commands, q) = commands \o <<q>> /\ commands \o <<q>> \in Seq(Sent)
    BY <1>1, <1>2, AppendIsConcat, AppendProperties
  <1>5. Asked(commands \o <<q>>) = 0 + 1 /\ Load(commands \o <<q>>) = 0 + Load(<<q>>)
    BY <1>2, <1>3, LoadJoined
  <1>6. /\ Asked(w \o (commands \o <<q>>)) = Asked(w) + Asked(commands \o <<q>>)
        /\ Load(w \o (commands \o <<q>>)) = Load(w) + Load(commands \o <<q>>)
    BY <1>4, LoadJoined
  <1>7. Load(commands \o <<q>>) = IF q.arg[2] = "data" THEN 2 ELSE 1
    BY <1>3, <1>5
  <1> HIDE DEF Load, Asked
  <1> QED BY <1>2, <1>3, <1>4, <1>5, <1>6, <1>7

\* The first of the commands.
LEMMA LoadHead ==
    ASSUME NEW w \in Seq(Sent), w # <<>>
    PROVE  /\ w = <<Head(w)>> \o Tail(w) /\ Head(w) \in Sent /\ Tail(w) \in Seq(Sent)
           /\ Asked(w) = (IF IsQuery(Head(w)) THEN 1 ELSE 0) + Asked(Tail(w))
           /\ Load(w) = (IF IsQuery(Head(w)) THEN IF Head(w).arg[2] = "data" THEN 2 ELSE 1 ELSE 0)
                            + Load(Tail(w))
  <1> DEFINE c == Head(w)
             t == Tail(w)
  <1>1. c \in Sent /\ t \in Seq(Sent)
    BY HeadTailProperties
  <1>2. w = <<c>> \o t
    <2>1. /\ Len(w) \in Nat /\ c = w[1] /\ Len(t) = Len(w) - 1
          /\ \A i \in 1..(Len(w) - 1) : t[i] = w[i + 1]
      BY WireTail
    <2> HIDE DEF c, t
    <2>2. <<c>> \in Seq(Sent) /\ Len(<<c>>) = 1 /\ <<c>>[1] = c
      BY <1>1
    <2>3. <<c>> \o t \in Seq(Sent) /\ Len(<<c>> \o t) = Len(w)
      BY <1>1, <2>1, <2>2, Joined
    <2>4. (<<c>> \o t)[1] = w[1]
      <3>1. (<<c>> \o t)[1] = <<c>>[1]
        BY <1>1, <2>2, Joined
      <3> QED BY <2>1, <2>2, <3>1
    <2>5. \A i \in 1..(Len(w) - 1) : (<<c>> \o t)[1 + i] = w[1 + i]
      <3>1. \A i \in 1..Len(t) : (<<c>> \o t)[Len(<<c>>) + i] = t[i]
        BY <1>1, <2>2, Joined
      <3>2. \A i \in 1..(Len(w) - 1) : (<<c>> \o t)[1 + i] = t[i] /\ 1 + i = i + 1
        BY <2>1, <2>2, <3>1
      <3> QED BY <2>1, <3>2
    <2>6. \A i \in 1..Len(w) : (<<c>> \o t)[i] = w[i]
      <3>1. \A i \in 1..Len(w) : i = 1 \/ (i - 1 \in 1..(Len(w) - 1) /\ 1 + (i - 1) = i)
        BY <2>1
      <3> QED BY <2>4, <2>5, <3>1
    <2> QED BY <2>3, <2>6, SeqEqual
  <1>3. /\ <<c>> \in Seq(Sent) /\ Asked(<<c>>) = IF IsQuery(c) THEN 1 ELSE 0
        /\ Load(<<c>>) = IF IsQuery(c) THEN IF c.arg[2] = "data" THEN 2 ELSE 1 ELSE 0
    BY <1>1, LoadOne
  <1> HIDE DEF c, t
  <1>4. Asked(<<c>> \o t) = Asked(<<c>>) + Asked(t) /\ Load(<<c>> \o t) = Load(<<c>>) + Load(t)
    BY <1>1, <1>3, LoadJoined
  <1> HIDE DEF Load, Asked
  <1>5. /\ Asked(w) = (IF IsQuery(c) THEN 1 ELSE 0) + Asked(t)
        /\ Load(w) = (IF IsQuery(c) THEN IF c.arg[2] = "data" THEN 2 ELSE 1 ELSE 0) + Load(t)
    BY <1>2, <1>3, <1>4
  <1> QED BY <1>1, <1>2, <1>5 DEF c, t

\* The first of commands and more.
LEMMA TailJoined ==
    ASSUME NEW x \in Seq(Sent), NEW y \in Seq(Sent), x # <<>>
    PROVE  x \o y # <<>> /\ Head(x \o y) = Head(x) /\ Tail(x \o y) = Tail(x) \o y
  <1>1. x = <<Head(x)>> \o Tail(x) /\ Head(x) \in Sent /\ Tail(x) \in Seq(Sent) /\ <<Head(x)>> \in Seq(Sent)
    BY LoadHead, LoadOne
  <1>2. x \o y = <<Head(x)>> \o (Tail(x) \o y)
    <2> DEFINE h == <<Head(x)>>
               t == Tail(x)
    <2>2. h \in Seq(Sent) /\ t \in Seq(Sent) /\ x = h \o t
      BY <1>1
    <2> HIDE DEF h, t
    <2>3. (h \o t) \o y = h \o (t \o y)
      BY <2>2, Regrouped, Zenon
    <2>4. x \o y = h \o (t \o y)
      BY <2>2, <2>3
    <2> QED BY <2>4 DEF h, t
  <1>3. x \o y \in Seq(Sent) /\ Len(x \o y) = Len(x) + Len(y) /\ Len(x) \in Nat \ {0} /\ Len(y) \in Nat
    BY Joined, LenProperties, EmptySeq
  <1>4. x \o y # <<>>
    BY <1>3, EmptySeq
  <1>5. x \o y = <<Head(x \o y)>> \o Tail(x \o y) /\ Head(x \o y) \in Sent /\ Tail(x \o y) \in Seq(Sent)
    BY <1>3, <1>4, LoadHead
  <1>6. Head(x \o y) = Head(x)
    <2>1. (x \o y)[1] = x[1]
      <3>1. 1 \in 1..Len(x)
        BY <1>3
      <3> QED BY <3>1, Joined
    <2> QED BY <1>3, <1>4, <2>1, WireTail
  <1>7. Tail(x \o y) = Tail(x) \o y
    <2>1. \A s, t, v \in Seq(Sent) : s \o t = s \o v => t = v
      BY ConcatSimplifications
    <2>2. Tail(x) \o y \in Seq(Sent)
      BY <1>1, Joined
    <2>3. <<Head(x)>> \o Tail(x \o y) = <<Head(x)>> \o (Tail(x) \o y)
      BY <1>2, <1>5, <1>6
    <2> QED BY <1>1, <1>5, <2>1, <2>2, <2>3, Zenon
  <1> QED BY <1>4, <1>6, <1>7

=============================================================================
