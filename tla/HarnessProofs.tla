--------------------------- MODULE HarnessProofs ---------------------------
(***************************************************************************)
(* Theorems about Harness, for all patterns, word and FIFO sizes: its      *)
(* types, that the pins repeat the pattern seamlessly, and that an         *)
(* acknowledged operation was carried out.                                 *)
(***************************************************************************)
EXTENDS Harness, SequenceTheorems, TLAPS

-----------------------------------------------------------------------------
(* The inductive invariant. *)

AnyLoad == [n : Nat, p : Patterns]

Replies == {"OK", "ERR", "BANNER"}

HostType ==
    /\ hpc \in {"idle", "readline"} /\ cmd \in [c : Commands, quiet : BOOLEAN]
    /\ outcome \in {"none", "returned", "raised"} /\ handle \in {"open", "stale", "closed"}
    /\ calls \in 0..MaxCalls /\ late \in 0..MaxLate
    /\ down \in Seq(Commands) /\ up \in Seq(Replies)
    /\ Len(down) + Len(up) <= calls

LoopType ==
    /\ mpc \in {"fill", "serve", "reboot", "gone"} /\ active \in BOOLEAN
    /\ buffer \in AnyLoad /\ index \in Positions(buffer)
    /\ pending \in Positions(buffer) \cup {NoPending}

Words == [load : AnyLoad, i : Nat]

PlayerType ==
    /\ fifo \in Seq(Words) /\ Len(fifo) <= FifoDepth
    /\ \A k \in DOMAIN fifo : fifo[k].i \in Positions(fifo[k].load)
    /\ osr \in [load : AnyLoad, i : Nat, left : 0..(WordSamples - 1)]
    /\ osr.i \in Positions(osr.load)
    /\ pin \in [load : AnyLoad, i : Nat \cup {NoPending}]
    /\ pin.i \in Positions(pin.load) \cup {NoPending}

\* Every load, past and still to come, has a command of its own: an EMIT, or
\* the BOOTSEL before a flash.
Rebooting == IF mpc \in {"reboot", "gone"} THEN 1 ELSE 0
LoadsCounted == buffer.n + Len(down) + Rebooting <= calls

\* The word comes where a pattern was left at this position, or starts a later load.
Continues(load, i, word) ==
    IF word.load = load THEN word.i = i ELSE load.n < word.load.n /\ word.i = 0

\* The words from the FIFO to the one that is packed or held over next.
Coming == [load |-> buffer, i |-> IF pending = NoPending THEN index ELSE pending]
Queued(k) == IF k <= Len(fifo) THEN fifo[k] ELSE Coming

\* Where the pattern is left when the shift register, or a word, has run out.
OsrEnd == Wrap(osr.load, osr.i + osr.left)
WordEnd(word) == Wrap(word.load, word.i + WordSamples)

Chained ==
    /\ Continues(osr.load, OsrEnd, Queued(1))
    /\ \A k \in 1..Len(fifo) : Continues(Queued(k).load, WordEnd(Queued(k)), Queued(k + 1))
    /\ pin.i # NoPending => osr.load = pin.load /\ osr.i = Wrap(pin.load, pin.i + 1)

QueueInv ==
    /\ pending = NoPending => index = 0
    /\ pin.i = NoPending => osr = NoWord
    /\ IF mpc = "gone" THEN fifo = <<>> /\ osr = NoWord ELSE Chained

\* What is on the line while an operation waits that found it quiet.
Carried ==
    /\ cmd.c.op = "EMIT" => active /\ buffer.p = cmd.c.p
    /\ cmd.c.op = "STOP" => ~active

QuietInv ==
    hpc = "readline" =>
        /\ cmd.c.op # "BOOTSEL"
        /\ cmd.quiet =>
              /\ mpc \in {"fill", "serve"}
              /\ \/ down = <<cmd.c>> /\ up = <<>>
                 \/ down = <<>> /\ up = <<>>
                 \/ down = <<>> /\ up = <<Reply(cmd.c.op)>> /\ Carried

HarnessInv == HostType /\ LoopType /\ PlayerType /\ LoadsCounted /\ QueueInv /\ QuietInv

-----------------------------------------------------------------------------
(* Positions in a buffer. *)

\* What \div and % are.
LEMMA Remainder ==
    ASSUME NEW x \in Int, NEW n \in Nat \ {0}
    PROVE  /\ x % n \in 0..(n - 1) /\ (x \div n) \in Int
           /\ x = n * (x \div n) + (x % n)
    BY SMT

\* A remainder is determined by its range.
LEMMA RemainderUnique ==
    ASSUME NEW n \in Nat \ {0}, NEW q \in Int, NEW r \in 0..(n - 1)
    PROVE  (n * q + r) % n = r
<1> DEFINE x == n * q + r
<1> DEFINE d == x \div n
<1> DEFINE s == x % n
<1>1. x \in Int /\ d \in Int /\ s \in 0..(n - 1) /\ x = n * d + s
    BY Remainder
<1> HIDE DEF d, s
<1>2. n * (q - d) = s - r
    BY <1>1, SMT
<1>3. q - d < 1
    BY <1>1, <1>2, SMT
<1>4. q - d > -1
    BY <1>1, <1>2, SMT
<1>5. q = d
    BY <1>1, <1>3, <1>4
<1> QED
    BY <1>1, <1>5, SMT DEF s

\* Reducing a summand does not change the remainder.
LEMMA RemainderAdd ==
    ASSUME NEW a \in Int, NEW b \in Int, NEW n \in Nat \ {0}
    PROVE  ((a % n) + b) % n = (a + b) % n
<1> DEFINE y == (a % n) + b
<1>1. a % n \in Int /\ (a \div n) \in Int /\ a = n * (a \div n) + (a % n)
    BY Remainder
<1>2. y \in Int /\ y % n \in 0..(n - 1) /\ (y \div n) \in Int /\ y = n * (y \div n) + (y % n)
    BY <1>1, Remainder
<1>3. a + b = n * ((a \div n) + (y \div n)) + (y % n)
    BY <1>1, <1>2, SMT
<1>4. (a \div n) + (y \div n) \in Int
    BY <1>1, <1>2
<1>5. (n * ((a \div n) + (y \div n)) + (y % n)) % n = y % n
    BY <1>2, <1>4, RemainderUnique
<1> QED
    BY <1>3, <1>5

\* No buffer is empty.
LEMMA LengthPositive ==
    ASSUME NEW load \in AnyLoad
    PROVE  Length(load) \in Nat \ {0}
<1>1. load.p \in Patterns
    BY DEF AnyLoad
<1>2. Level[load.p] \in Seq({0, 1}) /\ Level[load.p] # <<>>
    BY <1>1, PatternAssumption
<1> QED
    BY <1>2 DEF Length

\* The empty shift register names a load that exists.
LEMMA NoWordLoad == NoWord.load \in AnyLoad
    BY PatternAssumption DEF NoWord, AnyLoad

\* Wrap stays inside the buffer (pack8 never reads beyond it).
LEMMA WrapInside ==
    ASSUME NEW load \in AnyLoad, NEW k \in Int
    PROVE  Wrap(load, k) \in Positions(load) /\ Wrap(load, k) \in Nat
<1>1. Length(load) \in Nat \ {0}
    BY LengthPositive
<1>2. k % Length(load) \in 0..(Length(load) - 1)
    BY <1>1, Remainder
<1> QED
    BY <1>1, <1>2 DEF Wrap, Positions

\* No position is taken for NoPending.
LEMMA PositionsNat ==
    ASSUME NEW load \in AnyLoad, NEW i \in Positions(load)
    PROVE  i \in Nat /\ i # NoPending
<1>1. Length(load) \in Nat \ {0}
    BY LengthPositive
<1> QED
    BY <1>1 DEF Positions, NoPending

\* The first position, and wrapping one that is inside.
LEMMA WrapIdle ==
    ASSUME NEW load \in AnyLoad
    PROVE  /\ 0 \in Positions(load)
           /\ \A i \in Positions(load) : Wrap(load, i) = i
<1> DEFINE n == Length(load)
<1>1. n \in Nat \ {0}
    BY LengthPositive
<1> HIDE DEF n
<1>2. ASSUME NEW i \in 0..(n - 1)
      PROVE  i % n = i
    <2>1. (n * 0 + i) % n = i
        BY <1>1, RemainderUnique
    <2>2. n * 0 + i = i
        BY <1>1, SMT
    <2> QED
        BY <2>1, <2>2
<1> QED
    BY <1>1, <1>2 DEF Positions, Wrap, n

\* Wrapping on the way does not matter.
LEMMA WrapOn ==
    ASSUME NEW load \in AnyLoad, NEW a \in Int, NEW b \in Int
    PROVE  Wrap(load, Wrap(load, a) + b) = Wrap(load, a + b)
<1>1. Length(load) \in Nat \ {0}
    BY LengthPositive
<1> QED
    BY <1>1, RemainderAdd DEF Wrap

-----------------------------------------------------------------------------
(* The steps that move samples: the player's and the main loop's. *)

\* A sample is clocked out, with or without a pull from the FIFO.
LEMMA PlayKeepsStream ==
    ASSUME LoopType, PlayerType, QueueInv, Play
    PROVE  PlayerType' /\ QueueInv'
<1> USE SizeAssumption
<1>1. mpc # "gone" /\ UNCHANGED <<mpc, buffer, index, pending, active>> /\ Chained
    BY DEF Play, loop, QueueInv
<1>2. osr.load \in AnyLoad /\ osr.i \in Nat /\ osr.left \in 0..(WordSamples - 1)
    BY DEF PlayerType
<1>3. \A k \in Int : Queued(k)' = IF k <= Len(fifo') THEN fifo'[k] ELSE Coming
    BY <1>1 DEF Queued, Coming
<1>4. \A k \in 1..Len(fifo) : fifo[k] \in Words /\ fifo[k].i \in Positions(fifo[k].load)
    BY DEF PlayerType
<1>5. CASE osr.left > 0 /\ pin' = Sample(osr) /\ osr' = Shift(osr) /\ UNCHANGED fifo
    <2>1. osr' = [load |-> osr.load, i |-> Wrap(osr.load, osr.i + 1), left |-> osr.left - 1]
        BY <1>2, <1>5 DEF Shift, PlayerType
    <2>2. pin' = [load |-> osr.load, i |-> osr.i]
        BY <1>5 DEF Sample
    <2>3. Wrap(osr.load, osr.i + 1) \in Positions(osr.load) /\ Wrap(osr.load, osr.i + 1) \in Nat
        BY <1>2, WrapInside
    <2>4. PlayerType'
        BY <1>2, <1>5, <2>1, <2>2, <2>3 DEF PlayerType, Positions, Length
    <2>5. OsrEnd' = OsrEnd
        <3>0. osr.i + 1 \in Int /\ osr.left - 1 \in Int
            BY <1>2
        <3>1. Wrap(osr.load, Wrap(osr.load, osr.i + 1) + (osr.left - 1))
                = Wrap(osr.load, (osr.i + 1) + (osr.left - 1))
            BY <1>2, <3>0, WrapOn
        <3>2. (osr.i + 1) + (osr.left - 1) = osr.i + osr.left
            BY <1>2
        <3> QED
            BY <2>1, <3>1, <3>2 DEF OsrEnd, Wrap, Length
    <2>6. \A k \in Int : Queued(k)' = Queued(k)
        BY <1>3, <1>5 DEF Queued
    <2>7. Chained'
        <3>1. Continues(osr'.load, OsrEnd', Queued(1)')
            BY <1>1, <2>1, <2>5, <2>6 DEF Chained, Continues
        <3>2. \A k \in 1..Len(fifo') : Continues(Queued(k)'.load, WordEnd(Queued(k)'), Queued(k + 1)')
            BY <1>1, <1>5, <2>6 DEF Chained
        <3>3. osr'.load = pin'.load /\ osr'.i = Wrap(pin'.load, pin'.i + 1)
            BY <2>1, <2>2
        <3> QED
            BY <3>1, <3>2, <3>3 DEF Chained, Continues, WordEnd, Wrap, Length
    <2>8. pin'.i # NoPending
        BY <1>2, <2>2 DEF NoPending
    <2> QED
        BY <1>1, <2>4, <2>7, <2>8 DEF QueueInv
<1>6. CASE osr.left = 0 /\ fifo # <<>> /\ fifo' = Tail(fifo)
           /\ LET word == [load |-> Head(fifo).load, i |-> Head(fifo).i, left |-> WordSamples]
              IN  pin' = Sample(word) /\ osr' = Shift(word)
    <2> DEFINE w == fifo[1]
    <2>1. fifo \in Seq(Words) /\ Len(fifo) \in Nat \ {0} /\ Len(fifo) <= FifoDepth /\ Head(fifo) = w
        BY <1>6 DEF PlayerType
    <2>2. w \in Words /\ w.load \in AnyLoad /\ w.i \in Nat /\ w.i \in Positions(w.load)
        BY <1>4, <2>1 DEF Words
    <2>3. osr' = [load |-> w.load, i |-> Wrap(w.load, w.i + 1), left |-> WordSamples - 1]
        BY <1>6, <2>1 DEF Shift
    <2>4. pin' = [load |-> w.load, i |-> w.i]
        BY <1>6, <2>1 DEF Sample
    <2>5. Wrap(w.load, w.i + 1) \in Positions(w.load) /\ Wrap(w.load, w.i + 1) \in Nat
        BY <2>2, WrapInside
    <2>6. /\ fifo' \in Seq(Words) /\ Len(fifo') = Len(fifo) - 1
          /\ \A k \in 1..Len(fifo') : fifo'[k] = fifo[k + 1]
        BY <1>6, <2>1
    <2>7. PlayerType'
        <3>1. \A k \in DOMAIN fifo' : fifo'[k].i \in Positions(fifo'[k].load)
            <4>1. DOMAIN fifo' = 1..Len(fifo')
                BY <2>6
            <4>2. ASSUME NEW k \in 1..Len(fifo')
                  PROVE  fifo'[k].i \in Positions(fifo'[k].load)
                <5>1. k + 1 \in 1..Len(fifo) /\ fifo'[k] = fifo[k + 1]
                    BY <2>1, <2>6
                <5> QED
                    BY <1>4, <5>1
            <4> QED
                BY <4>1, <4>2
        <3>2. osr' \in [load : AnyLoad, i : Nat, left : 0..(WordSamples - 1)]
            BY <2>2, <2>3, <2>5
        <3>3. pin' \in [load : AnyLoad, i : Nat \cup {NoPending}]
            BY <2>2, <2>4
        <3>4. Len(fifo') <= FifoDepth
            BY <2>1, <2>6
        <3> QED
            BY <2>2, <2>3, <2>4, <2>5, <2>6, <3>1, <3>2, <3>3, <3>4 DEF PlayerType, Positions, Length
    <2>8. OsrEnd' = WordEnd(w)
        <3>1. Wrap(w.load, Wrap(w.load, w.i + 1) + (WordSamples - 1))
                = Wrap(w.load, (w.i + 1) + (WordSamples - 1))
            BY <2>2, WrapOn
        <3>2. (w.i + 1) + (WordSamples - 1) = w.i + WordSamples
            BY <2>2
        <3> QED
            BY <2>3, <3>1, <3>2 DEF OsrEnd, WordEnd, Wrap, Length
    <2>9. \A k \in Nat \ {0} : Queued(k)' = Queued(k + 1)
        BY <1>3, <2>1, <2>6 DEF Queued
    <2>10. Chained'
        <3>1. Queued(1) = w /\ Queued(1)' = Queued(2)
            BY <2>1, <2>9 DEF Queued
        <3>2. Continues(w.load, WordEnd(w), Queued(2))
            BY <1>1, <2>1, <3>1 DEF Chained
        <3>3. Continues(osr'.load, OsrEnd', Queued(1)')
            BY <2>3, <2>8, <3>1, <3>2
        <3>4. ASSUME NEW k \in 1..Len(fifo')
              PROVE  Continues(Queued(k)'.load, WordEnd(Queued(k)'), Queued(k + 1)')
            <4>1. k + 1 \in 1..Len(fifo) /\ k \in Nat \ {0} /\ k + 1 \in Nat \ {0}
                BY <2>1, <2>6
            <4>2. Continues(Queued(k + 1).load, WordEnd(Queued(k + 1)), Queued((k + 1) + 1))
                BY <1>1, <4>1 DEF Chained
            <4> QED
                BY <2>9, <4>1, <4>2
        <3>5. osr'.load = pin'.load /\ osr'.i = Wrap(pin'.load, pin'.i + 1)
            BY <2>3, <2>4
        <3> QED
            BY <3>3, <3>4, <3>5 DEF Chained, Continues, WordEnd, Wrap, Length
    <2>11. pin'.i # NoPending
        BY <2>2, <2>4 DEF NoPending
    <2> QED
        BY <1>1, <2>7, <2>10, <2>11 DEF QueueInv
<1> QED
    BY <1>5, <1>6 DEF Play

\* The inner loop of the main loop: it goes on packing where it was, or where
\* the word held over is.
LEMMA FillKeepsStream ==
    ASSUME LoopType, PlayerType, QueueInv, Fill, mpc # "gone", mpc' # "gone",
           UNCHANGED <<buffer, active, osr, pin>>, mpc' \in {"fill", "serve", "reboot", "gone"}
    PROVE  LoopType' /\ PlayerType' /\ QueueInv'
<1> USE SizeAssumption
<1> DEFINE first == IF pending = NoPending THEN index ELSE pending
<1> DEFINE room == FifoDepth - Len(fifo)
<1>1. /\ buffer \in AnyLoad /\ first \in Positions(buffer) /\ first \in Nat
      /\ Coming = [load |-> buffer, i |-> first] /\ Wrap(buffer, first) = first
    <2>1. buffer \in AnyLoad /\ first \in Positions(buffer)
        BY DEF LoopType
    <2> QED
        BY <2>1, PositionsNat, WrapIdle DEF Coming
<1>2. fifo \in Seq(Words) /\ Len(fifo) \in Nat /\ Len(fifo) <= FifoDepth /\ room \in Nat
    BY DEF PlayerType
<1>3. /\ fifo' = fifo \o WordsFrom(first, room)
      /\ pending' = After(first, room) /\ index' = After(first, room + 1)
    BY DEF Fill
<1> HIDE DEF room
<1> DEFINE place(n) == Wrap(buffer, first + n * WordSamples)
<1>4. \A n \in Nat : first + n * WordSamples \in Int
    BY <1>1
<1>5. \A n \in Nat : place(n) \in Positions(buffer) /\ place(n) \in Nat
    BY <1>1, <1>4, WrapInside
<1>6. place(0) = first
    <2>1. first + 0 * WordSamples = first
        BY <1>1
    <2> QED
        BY <1>1, <2>1
<1>7. ASSUME NEW n \in Nat
      PROVE  Wrap(buffer, place(n) + WordSamples) = place(n + 1)
    <2>1. Wrap(buffer, place(n) + WordSamples) = Wrap(buffer, (first + n * WordSamples) + WordSamples)
        BY <1>1, <1>4, WrapOn
    <2>2. (first + n * WordSamples) + WordSamples = first + (n + 1) * WordSamples
        BY <1>1
    <2> QED
        BY <2>1, <2>2
<1>8. pending' = place(room) /\ index' = place(room + 1)
    BY <1>3 DEF After
<1>9. /\ WordsFrom(first, room) \in Seq(Words) /\ Len(WordsFrom(first, room)) = room
      /\ \A k \in 1..room : WordsFrom(first, room)[k] = [load |-> buffer, i |-> place(k - 1)]
    <2>1. ASSUME NEW k \in 1..room
          PROVE  [load |-> buffer, i |-> place(k - 1)] \in Words
        <3>1. k - 1 \in Nat
            BY <1>2
        <3> QED
            BY <1>1, <1>5, <3>1 DEF Words
    <2>2. WordsFrom(first, room) = [k \in 1..room |-> [load |-> buffer, i |-> place(k - 1)]]
        BY DEF WordsFrom
    <2> HIDE DEF place, first
    <2> QED
        BY <1>2, <2>1, <2>2
<1> HIDE DEF place, first
<1>10. /\ fifo' \in Seq(Words) /\ Len(fifo') = FifoDepth /\ Len(fifo) + room = FifoDepth
       /\ \A k \in 1..Len(fifo) : fifo'[k] = fifo[k]
       /\ \A k \in (Len(fifo) + 1)..FifoDepth : fifo'[k] = [load |-> buffer, i |-> place(k - 1 - Len(fifo))]
    <2>1. Len(fifo) + room = FifoDepth
        BY <1>2 DEF room
    <2>2. ASSUME NEW k \in (Len(fifo) + 1)..FifoDepth
          PROVE  fifo'[k] = [load |-> buffer, i |-> place(k - 1 - Len(fifo))]
        <3>1. k - Len(fifo) \in 1..room /\ (k - Len(fifo)) - 1 = k - 1 - Len(fifo)
            BY <1>2, <2>1
        <3>2. fifo'[k] = WordsFrom(first, room)[k - Len(fifo)]
            BY <1>2, <1>3, <1>9, <2>1, <3>1
        <3> QED
            BY <1>9, <3>1, <3>2
    <2>3. fifo' \in Seq(Words) /\ Len(fifo') = Len(fifo) + room
        <3>1. /\ fifo \o WordsFrom(first, room) \in Seq(Words)
              /\ Len(fifo \o WordsFrom(first, room)) = Len(fifo) + Len(WordsFrom(first, room))
            BY <1>2, <1>9, ConcatProperties
        <3> QED
            BY <1>3, <1>9, <3>1
    <2>4. \A k \in 1..Len(fifo) : fifo'[k] = fifo[k]
        BY <1>2, <1>3, <1>9
    <2> QED
        BY <2>1, <2>2, <2>3, <2>4
<1>11. Coming' = [load |-> buffer, i |-> place(room)] /\ pending' # NoPending
    BY <1>1, <1>2, <1>5, <1>8, PositionsNat DEF Coming
<1>12. LoopType'
    <2>1. room + 1 \in Nat
        BY <1>2
    <2>2. pending' \in Positions(buffer) /\ index' \in Positions(buffer)
        BY <1>2, <1>5, <1>8, <2>1
    <2> QED
        BY <2>2 DEF LoopType, Positions, Length
<1>13. PlayerType'
    <2>1. ASSUME NEW k \in DOMAIN fifo'
          PROVE  fifo'[k].i \in Positions(fifo'[k].load)
        <3>1. k \in 1..FifoDepth
            BY <1>10
        <3>2. CASE k <= Len(fifo)
            BY <1>2, <1>10, <3>1, <3>2 DEF PlayerType
        <3>3. CASE k > Len(fifo)
            <4> DEFINE n == k - 1 - Len(fifo)
            <4>1. n \in Nat /\ k \in (Len(fifo) + 1)..FifoDepth
                BY <1>2, <3>1, <3>3
            <4>2. fifo'[k] = [load |-> buffer, i |-> place(n)]
                BY <1>10, <4>1
            <4> HIDE DEF n
            <4>3. place(n) \in Positions(buffer)
                BY <1>5, <4>1
            <4> QED
                BY <4>2, <4>3
        <3> QED
            BY <1>2, <3>1, <3>2, <3>3
    <2> QED
        BY <1>10, <2>1 DEF PlayerType, Positions, Length
<1>14. /\ \A k \in 1..Len(fifo) : Queued(k)' = Queued(k)
       /\ \A k \in (Len(fifo) + 1)..(FifoDepth + 1) :
             Queued(k)' = [load |-> buffer, i |-> place(k - 1 - Len(fifo))]
    <2>1. \A k \in Int : Queued(k)' = IF k <= FifoDepth THEN fifo'[k] ELSE Coming'
        BY <1>10 DEF Queued
    <2>2. FifoDepth + 1 - 1 - Len(fifo) = room
        BY <1>2, <1>10
    <2>3. Queued(FifoDepth + 1)' = [load |-> buffer, i |-> place(FifoDepth + 1 - 1 - Len(fifo))]
        BY <1>11, <2>1, <2>2
    <2> QED
        BY <1>2, <1>10, <2>1, <2>3 DEF Queued
<1>15. ASSUME NEW k \in Int, k = Len(fifo) + 1
       PROVE  Queued(k)' = Queued(k)
    <2>1. k - 1 - Len(fifo) = 0 /\ k \in (Len(fifo) + 1)..(FifoDepth + 1) /\ ~(k <= Len(fifo))
        BY <1>2, <1>15
    <2>2. Queued(k) = [load |-> buffer, i |-> first]
        BY <1>1, <2>1 DEF Queued
    <2>3. Queued(k)' = [load |-> buffer, i |-> place(0)]
        BY <1>14, <2>1
    <2> QED
        BY <1>6, <2>2, <2>3
<1>16. Chained
    BY DEF QueueInv
<1>17. Chained'
    <2>1. Queued(1)' = Queued(1)
        BY <1>2, <1>14, <1>15
    <2>2. Continues(osr'.load, OsrEnd', Queued(1)')
        BY <1>16, <2>1 DEF Chained, OsrEnd, Wrap, Length
    <2>3. ASSUME NEW k \in 1..Len(fifo')
          PROVE  Continues(Queued(k)'.load, WordEnd(Queued(k)'), Queued(k + 1)')
        <3>1. CASE k <= Len(fifo)
            <4>1. k \in 1..Len(fifo) /\ (k + 1 \in 1..Len(fifo) \/ k + 1 = Len(fifo) + 1)
                BY <1>2, <3>1
            <4>2. Queued(k)' = Queued(k) /\ Queued(k + 1)' = Queued(k + 1)
                BY <1>14, <1>15, <4>1
            <4> QED
                BY <1>16, <4>1, <4>2 DEF Chained
        <3>2. CASE k > Len(fifo)
            <4> DEFINE n == k - 1 - Len(fifo)
            <4>1. /\ k \in (Len(fifo) + 1)..(FifoDepth + 1)
                  /\ k + 1 \in (Len(fifo) + 1)..(FifoDepth + 1)
                  /\ n \in Nat /\ (k + 1) - 1 - Len(fifo) = n + 1
                BY <1>2, <1>10, <3>2
            <4> HIDE DEF n
            <4>2. Queued(k)' = [load |-> buffer, i |-> place(n)]
                BY <1>14, <4>1 DEF n
            <4>3. Queued(k + 1)' = [load |-> buffer, i |-> place(n + 1)]
                BY <1>14, <4>1
            <4>4. Wrap(buffer, place(n) + WordSamples) = place(n + 1)
                BY <1>7, <4>1
            <4> QED
                BY <4>2, <4>3, <4>4 DEF Continues, WordEnd
        <3> QED
            BY <1>2, <3>1, <3>2
    <2>4. pin'.i # NoPending => osr'.load = pin'.load /\ osr'.i = Wrap(pin'.load, pin'.i + 1)
        BY <1>16 DEF Chained, Wrap, Length
    <2> QED
        BY <2>2, <2>3, <2>4 DEF Chained, Continues, WordEnd, Wrap, Length
<1> QED
    BY <1>11, <1>12, <1>13, <1>17 DEF QueueInv

\* A new load is later than everything in the FIFO and starts at its beginning.
LEMMA LoadKeepsStream ==
    ASSUME LoopType, PlayerType, QueueInv, NEW p \in Patterns, Load(p),
           mpc # "gone", UNCHANGED <<mpc, player>>
    PROVE  LoopType' /\ PlayerType' /\ QueueInv'
<1>1. /\ buffer \in AnyLoad /\ buffer.n \in Nat
      /\ buffer' = [n |-> buffer.n + 1, p |-> p] /\ buffer' \in AnyLoad
      /\ index' = 0 /\ pending' = NoPending /\ active' = TRUE
    BY DEF LoopType, Load, AnyLoad
<1>2. LoopType'
    <2>1. 0 \in Positions(buffer')
        BY <1>1, WrapIdle
    <2> QED
        BY <1>1, <2>1 DEF LoopType, Positions, Length
<1>3. PlayerType'
    BY DEF PlayerType, player, Positions, Length
<1>4. Chained /\ Len(fifo) \in Nat /\ UNCHANGED <<fifo, osr, pin>>
    BY DEF QueueInv, PlayerType, player
<1>5. Coming' = [load |-> buffer', i |-> 0] /\ Coming.load = buffer
    BY <1>1 DEF Coming
<1>6. ASSUME NEW load \in AnyLoad, NEW i, Continues(load, i, Coming)
      PROVE  Continues(load, i, Coming')
    BY <1>1, <1>5, <1>6 DEF Continues, AnyLoad
<1>7. \A k \in Int : /\ k <= Len(fifo) => Queued(k) = fifo[k] /\ Queued(k)' = fifo[k]
                     /\ k > Len(fifo) => Queued(k) = Coming /\ Queued(k)' = Coming'
    BY <1>4 DEF Queued
<1>8. osr.load \in AnyLoad /\ \A k \in 1..Len(fifo) : fifo[k].load \in AnyLoad
    <2>1. osr.load \in AnyLoad /\ \A k \in 1..Len(fifo) : fifo[k] \in Words
        BY DEF PlayerType
    <2> QED
        BY <2>1 DEF Words
<1>9. ASSUME NEW load \in AnyLoad, NEW i, NEW k \in Int, Continues(load, i, Queued(k))
      PROVE  Continues(load, i, Queued(k)')
    <2>1. CASE k <= Len(fifo)
        BY <1>7, <1>9, <2>1
    <2>2. CASE k > Len(fifo)
        BY <1>6, <1>7, <1>9, <2>2
    <2> QED
        BY <1>4, <2>1, <2>2
<1>10. Chained'
    <2>1. OsrEnd' = OsrEnd /\ osr' = osr
        BY <1>4 DEF OsrEnd, Wrap, Length
    <2>2. Continues(osr.load, OsrEnd, Queued(1)')
        BY <1>4, <1>8, <1>9 DEF Chained
    <2>3. ASSUME NEW k \in 1..Len(fifo)
          PROVE  Continues(Queued(k)'.load, WordEnd(Queued(k)'), Queued(k + 1)')
        <3>1. Queued(k) = fifo[k] /\ Queued(k)' = fifo[k]
            BY <1>4, <1>7
        <3>2. Continues(fifo[k].load, WordEnd(fifo[k]), Queued(k + 1))
            BY <1>4, <3>1 DEF Chained
        <3>3. Continues(fifo[k].load, WordEnd(fifo[k]), Queued(k + 1)')
            BY <1>4, <1>8, <1>9, <3>2
        <3> QED
            BY <3>1, <3>3
    <2>4. pin'.i # NoPending => osr'.load = pin'.load /\ osr'.i = Wrap(pin'.load, pin'.i + 1)
        BY <1>4 DEF Chained, Wrap, Length
    <2> QED
        BY <1>4, <2>1, <2>2, <2>3, <2>4 DEF Chained, Continues, WordEnd, Wrap, Length
<1> QED
    BY <1>1, <1>2, <1>3, <1>4, <1>10 DEF QueueInv

\* The bootloader takes over and the player is reset.
LEMMA RebootKeepsStream ==
    ASSUME LoopType, PlayerType, QueueInv, Reboot
    PROVE  LoopType' /\ PlayerType' /\ QueueInv'
<1> USE SizeAssumption
<1>1. /\ mpc' = "gone" /\ fifo' = <<>> /\ osr' = NoWord
      /\ UNCHANGED <<buffer, index, pending, active, pin>>
    BY DEF Reboot
<1>2. LoopType'
    BY <1>1 DEF LoopType, Positions, Length
<1>3. NoWord.load \in AnyLoad /\ 0 \in Positions(NoWord.load)
    BY NoWordLoad, WrapIdle
<1>4. NoWord \in [load : AnyLoad, i : Nat, left : 0..(WordSamples - 1)] /\ NoWord.i = 0
    BY <1>3 DEF NoWord
<1>5. PlayerType'
    BY <1>1, <1>3, <1>4 DEF PlayerType, Positions, Length
<1> QED
    BY <1>1, <1>2, <1>5 DEF QueueInv

\* A freshly flashed firmware starts its boot pattern on pins that show nothing.
LEMMA FlashKeepsStream ==
    ASSUME LoopType, PlayerType, QueueInv, Flash
    PROVE  LoopType' /\ PlayerType' /\ QueueInv'
<1>1. /\ fifo = <<>> /\ osr = NoWord /\ UNCHANGED <<fifo, osr>>
      /\ mpc' = "fill" /\ pin' = NoSample
    BY DEF Flash, PowerUp, QueueInv
<1>2. /\ buffer' = [n |-> buffer.n + 1, p |-> BootPattern] /\ buffer' \in AnyLoad
      /\ buffer'.n > 0
      /\ index' = 0 /\ pending' = NoPending /\ active' = TRUE
    BY PatternAssumption DEF Flash, PowerUp, LoopType, AnyLoad
<1>3. LoopType'
    <2>1. 0 \in Positions(buffer')
        BY <1>2, WrapIdle
    <2> QED
        BY <1>1, <1>2, <2>1 DEF LoopType, Positions, Length
<1>4. PlayerType'
    <2>1. NoSample \in [load : AnyLoad, i : Nat \cup {NoPending}] /\ NoSample.i = NoPending
        BY NoWordLoad DEF NoSample
    <2> QED
        BY <1>1, <2>1 DEF PlayerType, Positions, Length
<1>5. Coming' = [load |-> buffer', i |-> 0]
    BY <1>2 DEF Coming
<1>6. Chained'
    <2>1. Queued(1)' = [load |-> buffer', i |-> 0]
        BY <1>1, <1>5 DEF Queued
    <2>2. osr'.load.n = 0
        BY <1>1 DEF NoWord
    <2>3. Continues(osr'.load, OsrEnd', Queued(1)')
        BY <1>2, <2>1, <2>2 DEF Continues
    <2>4. pin'.i = NoPending
        BY <1>1 DEF NoSample
    <2> QED
        BY <1>1, <2>3, <2>4 DEF Chained, Continues, WordEnd, Wrap, Length
<1> QED
    BY <1>1, <1>2, <1>3, <1>4, <1>6 DEF QueueInv

\* Whatever leaves the loop and the player alone.
LEMMA RestKeepsStream ==
    ASSUME LoopType, PlayerType, QueueInv, UNCHANGED <<buffer, index, pending, player>>,
           active' \in BOOLEAN, mpc' \in {"fill", "serve", "reboot", "gone"},
           mpc' = "gone" <=> mpc = "gone"
    PROVE  LoopType' /\ PlayerType' /\ QueueInv'
<1>1. LoopType' /\ PlayerType'
    BY DEF LoopType, PlayerType, player, Positions, Length
<1>2. Chained => Chained'
    BY DEF Chained, player, Continues, OsrEnd, WordEnd, Queued, Coming, Wrap, Length
<1> QED
    BY <1>1, <1>2 DEF QueueInv, player

\* All steps together.
LEMMA StepKeepsStream ==
    ASSUME HarnessInv, [Next]_vars
    PROVE  LoopType' /\ PlayerType' /\ QueueInv'
<1> USE DEF HarnessInv
<1>1. CASE Play
    <2>1. LoopType'
        BY <1>1 DEF Play, loop, LoopType, Positions, Length
    <2> QED
        BY <1>1, <2>1, PlayKeepsStream
<1>2. CASE TopUp
    <2>1. /\ mpc = "fill" /\ mpc' = "serve" /\ UNCHANGED <<buffer, active, osr, pin>>
        BY <1>2 DEF TopUp
    <2>2. CASE active
        <3>1. Fill
            BY <1>2, <2>2 DEF TopUp
        <3> QED
            BY <2>1, <3>1, FillKeepsStream
    <2>3. CASE ~active
        <3>1. UNCHANGED <<buffer, index, pending, player>> /\ active' \in BOOLEAN
            BY <1>2, <2>1, <2>3 DEF TopUp, player, LoopType
        <3> QED
            BY <2>1, <3>1, RestKeepsStream
    <2> QED
        BY <2>2, <2>3
<1>3. CASE ServeDone
    <2>1. UNCHANGED <<buffer, index, pending, player>> /\ active' \in BOOLEAN
        BY <1>3 DEF ServeDone, LoopType
    <2>2. mpc = "serve" /\ mpc' = "fill"
        BY <1>3 DEF ServeDone
    <2> QED
        BY <2>1, <2>2, RestKeepsStream
<1>4. CASE Serve
    <2> DEFINE c == Head(down)
    <2>1. mpc = "serve" /\ UNCHANGED player /\ c \in Commands
        BY <1>4 DEF Serve, HostType
    <2>2. CASE c.op = "EMIT" /\ Load(c.p) /\ UNCHANGED mpc
        <3>1. c.p \in Patterns
            BY <2>1, PatternAssumption DEF Commands
        <3> HIDE DEF c
        <3> QED
            BY <2>1, <2>2, <3>1, LoadKeepsStream
    <2>3. CASE c.op = "STOP" /\ active' = FALSE /\ UNCHANGED <<mpc, buffer, index, pending>>
        BY <2>1, <2>3, RestKeepsStream
    <2>4. CASE c.op \in {"ID", "BADARGS"} /\ UNCHANGED loop
        <3>1. UNCHANGED <<mpc, buffer, index, pending>> /\ active' \in BOOLEAN
            BY <2>4 DEF loop, LoopType
        <3> QED
            BY <2>1, <3>1, RestKeepsStream
    <2>5. CASE c.op = "BOOTSEL" /\ mpc' = "reboot" /\ UNCHANGED <<buffer, index, pending, active>>
        <3>1. active' \in BOOLEAN
            BY <2>5 DEF LoopType
        <3> QED
            BY <2>1, <2>5, <3>1, RestKeepsStream
    <2> QED
        BY <1>4, <2>2, <2>3, <2>4, <2>5 DEF Serve
<1>5. CASE Reboot
    BY <1>5, RebootKeepsStream
<1>6. CASE Flash
    BY <1>6, FlashKeepsStream
<1>7. CASE Host \/ LoseReply \/ UNCHANGED vars
    <2>1. UNCHANGED <<loop, player>>
        BY <1>7 DEF Host, Call, Answered, Timeout, PortGone, Close, Open, LoseReply, vars
    <2>2. UNCHANGED <<mpc, buffer, index, pending, player>> /\ active' \in BOOLEAN
        BY <2>1 DEF loop, LoopType
    <2>3. mpc' \in {"fill", "serve", "reboot", "gone"}
        BY <2>2 DEF LoopType
    <2> QED
        BY <2>2, <2>3, RestKeepsStream
<1> QED
    BY <1>1, <1>2, <1>3, <1>4, <1>5, <1>6, <1>7 DEF Next, Main

-----------------------------------------------------------------------------
(* The host, its channel, and the loads. *)

\* The host's own steps.
LEMMA HostKeepsCounts ==
    ASSUME HarnessInv, Host
    PROVE  HostType' /\ LoadsCounted' /\ QuietInv'
<1> USE DEF HarnessInv
<1>1. /\ calls \in Nat /\ MaxCalls \in Nat /\ calls <= MaxCalls /\ buffer.n \in Nat
      /\ down \in Seq(Commands) /\ up \in Seq(Replies)
      /\ Len(down) \in Nat /\ Len(up) \in Nat
    BY SizeAssumption DEF HostType, LoopType, AnyLoad
<1>2. Rebooting \in {0, 1}
    BY DEF Rebooting
<1>3. ASSUME NEW c \in Commands, Call(c)
      PROVE  HostType' /\ LoadsCounted' /\ QuietInv'
    <2>1. /\ calls' = calls + 1 /\ calls < MaxCalls /\ UNCHANGED <<handle, late, up, mpc, buffer, active>>
          /\ cmd' = [c |-> c, quiet |-> Quiet]
        BY <1>3 DEF Call, loop
    <2>2. UNCHANGED down \/ down' = Append(down, c)
        BY <1>3 DEF Call
    <2>3. down' \in Seq(Commands) /\ Len(down') \in Nat /\ Len(down') <= Len(down) + 1
        BY <1>1, <2>2
    <2>4. hpc' \in {"idle", "readline"} /\ outcome' \in {"none", "returned", "raised"}
        BY <1>3 DEF Call, Return
    <2>5. Quiet \in BOOLEAN
        BY DEF Quiet
    <2>6. HostType'
        BY <1>1, <2>1, <2>3, <2>4, <2>5 DEF HostType
    <2>7. LoadsCounted'
        BY <1>1, <1>2, <2>1, <2>3 DEF LoadsCounted, Rebooting
    <2>8. QuietInv'
        <3>1. SUFFICES ASSUME hpc' = "readline"
                       PROVE  /\ c.op # "BOOTSEL"
                              /\ Quiet => mpc \in {"fill", "serve"} /\ down' = <<c>> /\ up' = <<>>
            BY <2>1 DEF QuietInv
        <3>2. c.op # "BOOTSEL" /\ down' = Append(down, c)
            BY <1>3, <3>1 DEF Call, Return
        <3>3. Append(<<>>, c) = <<c>>
            OBVIOUS
        <3> QED
            BY <2>1, <3>2, <3>3 DEF Quiet
    <2> QED
        BY <2>6, <2>7, <2>8
<1>4. CASE Answered \/ Timeout \/ PortGone \/ Close \/ Open
    <2>1. /\ UNCHANGED <<cmd, calls, down, mpc, buffer>> /\ hpc' = "idle"
          /\ outcome' \in {"none", "returned", "raised"}
          /\ handle' \in {"open", "stale", "closed"}
        BY <1>4 DEF Answered, Timeout, PortGone, Close, Open, Return, loop, HostType
    <2>2. late' \in 0..MaxLate
        <3>1. MaxLate \in Nat /\ late \in 0..MaxLate
            BY SizeAssumption DEF HostType
        <3>2. late' = late \/ (late < MaxLate /\ late' = late + 1)
            BY <1>4 DEF Answered, Timeout, PortGone, Close, Open
        <3> QED
            BY <3>1, <3>2
    <2>3. up' \in Seq(Replies) /\ Len(up') \in Nat /\ Len(up') <= Len(up)
        <3>1. UNCHANGED up \/ up' = <<>> \/ (up # <<>> /\ up' = Tail(up))
            BY <1>4 DEF Answered, Timeout, PortGone, Close, Open
        <3>2. up # <<>> => /\ Tail(up) \in Seq(Replies) /\ Len(Tail(up)) = Len(up) - 1
                           /\ Len(up) \in Nat \ {0}
            BY <1>1, HeadTailProperties, EmptySeq
        <3>3. CASE UNCHANGED up
            BY <1>1, <3>3
        <3>4. CASE up' = <<>>
            <4>1. up' \in Seq(Replies) /\ Len(up') = 0
                BY <3>4
            <4> QED
                BY <1>1, <4>1
        <3>5. CASE up # <<>> /\ up' = Tail(up)
            BY <3>2, <3>5
        <3> QED
            BY <3>1, <3>3, <3>4, <3>5
    <2>4. HostType'
        BY <1>1, <2>1, <2>2, <2>3 DEF HostType
    <2>5. LoadsCounted' /\ QuietInv'
        BY <2>1 DEF LoadsCounted, Rebooting, QuietInv
    <2> QED
        BY <2>4, <2>5
<1> QED
    BY <1>3, <1>4 DEF Host

\* A line is served.
LEMMA ServeKeepsCounts ==
    ASSUME HarnessInv, Serve
    PROVE  HostType' /\ LoadsCounted' /\ QuietInv'
<1> USE DEF HarnessInv
<1> DEFINE c == Head(down)
<1>1. /\ mpc = "serve" /\ down # <<>> /\ UNCHANGED <<hpc, cmd, outcome, handle, calls, late>>
      /\ up' = Append(up, Reply(c.op)) /\ down' = Tail(down)
    BY DEF Serve, host
<1>2. /\ calls \in Nat /\ buffer.n \in Nat
      /\ down \in Seq(Commands) /\ up \in Seq(Replies)
      /\ Len(down) \in Nat /\ Len(up) \in Nat /\ Len(down) + Len(up) <= calls
    BY DEF HostType, LoopType, AnyLoad
<1>3. down' \in Seq(Commands) /\ Len(down') = Len(down) - 1
    BY <1>1, <1>2
<1>4. Reply(c.op) \in Replies
    BY DEF Reply, Replies
<1>5. up' \in Seq(Replies) /\ Len(up') = Len(up) + 1
    BY <1>1, <1>2, <1>4
<1>6. HostType'
    BY <1>1, <1>2, <1>3, <1>5 DEF HostType
<1>7. \/ c.op = "EMIT" /\ Load(c.p) /\ UNCHANGED mpc
      \/ c.op = "STOP" /\ active' = FALSE /\ UNCHANGED <<mpc, buffer, index, pending>>
      \/ c.op \in {"ID", "BADARGS"} /\ UNCHANGED loop
      \/ c.op = "BOOTSEL" /\ mpc' = "reboot" /\ UNCHANGED <<buffer, index, pending, active>>
    BY DEF Serve
<1>8. LoadsCounted'
    <2>1. \/ buffer'.n = buffer.n + 1 /\ mpc' = "serve"
          \/ buffer'.n = buffer.n /\ mpc' \in {"serve", "reboot"}
        BY <1>1, <1>7 DEF Load, loop
    <2> QED
        BY <1>1, <1>2, <1>3, <2>1 DEF LoadsCounted, Rebooting
<1>9. QuietInv'
    <2>1. CASE hpc = "readline" /\ cmd.quiet
        <3>1. down = <<cmd.c>> /\ up = <<>>
            BY <1>1, <2>1 DEF QuietInv
        <3>2. c = cmd.c /\ down' = <<>> /\ up' = <<Reply(cmd.c.op)>>
            BY <1>1, <3>1
        <3>3. mpc' \in {"fill", "serve"} /\ Carried'
            BY <1>1, <1>7, <2>1, <3>2 DEF QuietInv, Load, Carried, loop
        <3>4. cmd.c.op # "BOOTSEL"
            BY <2>1 DEF QuietInv
        <3> QED
            BY <1>1, <3>2, <3>3, <3>4 DEF QuietInv
    <2>2. CASE ~(hpc = "readline" /\ cmd.quiet)
        BY <1>1, <2>2 DEF QuietInv
    <2> QED
        BY <2>1, <2>2
<1> QED
    BY <1>6, <1>8, <1>9

\* The chip goes into the bootloader and comes back, a reply is lost.
LEMMA FaultKeepsCounts ==
    ASSUME HarnessInv, Reboot \/ Flash \/ LoseReply
    PROVE  HostType' /\ LoadsCounted' /\ QuietInv'
<1> USE DEF HarnessInv
<1>1. /\ calls \in Nat /\ buffer.n \in Nat
      /\ down \in Seq(Commands) /\ up \in Seq(Replies)
      /\ Len(down) \in Nat /\ Len(up) \in Nat /\ Len(down) + Len(up) <= calls
    BY DEF HostType, LoopType, AnyLoad
<1>2. CASE Reboot
    <2>1. /\ mpc = "reboot" /\ mpc' = "gone" /\ down' = <<>>
          /\ handle' \in {"open", "stale", "closed"}
          /\ UNCHANGED <<hpc, cmd, outcome, calls, late, up, buffer, active>>
        BY <1>2 DEF Reboot, HostType
    <2>2. HostType'
        BY <1>1, <2>1 DEF HostType
    <2>3. LoadsCounted' /\ QuietInv'
        BY <1>1, <2>1 DEF LoadsCounted, Rebooting, QuietInv
    <2> QED
        BY <2>2, <2>3
<1>3. CASE Flash
    <2>1. /\ mpc = "gone" /\ mpc' = "fill" /\ buffer'.n = buffer.n + 1
          /\ UNCHANGED <<hpc, cmd, outcome, handle, calls, late, down, up>>
        BY <1>3 DEF Flash, PowerUp, host
    <2> QED
        BY <1>1, <2>1 DEF HostType, LoadsCounted, Rebooting, QuietInv
<1>4. CASE LoseReply
    <2>1. /\ up # <<>> /\ up' = SubSeq(up, 1, Len(up) - 1)
          /\ UNCHANGED <<hpc, cmd, outcome, handle, calls, late, down, mpc, buffer, active>>
        BY <1>4 DEF LoseReply, host, loop
    <2>2. up' \in Seq(Replies) /\ Len(up') = Len(up) - 1
        <3> DEFINE n == Len(up) - 1
        <3>1. n \in Nat /\ n + 1 = Len(up)
            BY <1>1, <2>1, EmptySeq
        <3> HIDE DEF n
        <3>2. \A i \in 1..n : up[i] \in Replies
            BY <1>1, <3>1, ElementOfSeq
        <3>3. SubSeq(up, 1, n) \in Seq(Replies) /\ Len(SubSeq(up, 1, n)) = n
            BY <3>1, <3>2, SubSeqProperties
        <3> QED
            BY <2>1, <3>3 DEF n
    <2>3. HostType'
        BY <1>1, <2>1, <2>2 DEF HostType
    <2>4. LoadsCounted'
        BY <2>1 DEF LoadsCounted, Rebooting
    <2>5. QuietInv'
        <3>1. CASE hpc = "readline" /\ cmd.quiet
            <4>1. down = <<>> /\ Len(up) = 1 /\ mpc \in {"fill", "serve"} /\ cmd.c.op # "BOOTSEL"
                BY <2>1, <3>1 DEF QuietInv
            <4>2. Len(up') = 0
                BY <2>2, <4>1
            <4>3. up' = <<>>
                BY <2>2, <4>2
            <4> QED
                BY <2>1, <4>1, <4>3 DEF QuietInv
        <3>2. CASE ~(hpc = "readline" /\ cmd.quiet)
            BY <2>1, <3>2 DEF QuietInv
        <3> QED
            BY <3>1, <3>2
    <2> QED
        BY <2>3, <2>4, <2>5
<1> QED
    BY <1>2, <1>3, <1>4

\* The other steps of the board, and stuttering.
LEMMA RestKeepsCounts ==
    ASSUME HarnessInv, Play \/ TopUp \/ ServeDone \/ UNCHANGED vars
    PROVE  HostType' /\ LoadsCounted' /\ QuietInv'
<1>1. /\ UNCHANGED <<hpc, cmd, outcome, handle, calls, late, down, up, buffer, active>>
      /\ mpc' = mpc \/ (mpc \in {"fill", "serve"} /\ mpc' \in {"fill", "serve"})
    BY DEF Play, TopUp, ServeDone, vars, host, loop
<1> QED
    BY <1>1 DEF HarnessInv, HostType, LoadsCounted, Rebooting, QuietInv, Carried

\* The initial state.
LEMMA InitInv == Init => HarnessInv
<1> SUFFICES ASSUME Init PROVE HarnessInv
    OBVIOUS
<1> USE DEF Init
<1>1. buffer \in AnyLoad /\ NoWord.load = buffer /\ BootPattern \in Patterns
    BY PatternAssumption DEF AnyLoad, NoWord
<1>2. 0 \in Positions(buffer) /\ Wrap(buffer, 0) = 0
    BY <1>1, WrapIdle
<1>3. HostType
    <2>1. [op |-> "ID", p |-> BootPattern] \in Commands
        BY DEF Commands
    <2>2. 0 \in 0..MaxCalls /\ 0 \in 0..MaxLate
        BY SizeAssumption
    <2>3. down \in Seq(Commands) /\ up \in Seq(Replies) /\ Len(down) + Len(up) <= 0
        OBVIOUS
    <2> QED
        BY <2>1, <2>2, <2>3 DEF HostType
<1>4. LoopType
    BY <1>1, <1>2 DEF LoopType
<1>5. PlayerType
    <2>1. fifo \in Seq(Words) /\ Len(fifo) = 0 /\ Len(fifo) <= FifoDepth /\ DOMAIN fifo = {}
        BY SizeAssumption
    <2>2. osr = [load |-> buffer, i |-> 0, left |-> 0] /\ pin = [load |-> buffer, i |-> NoPending]
        BY <1>1 DEF NoWord, NoSample
    <2>3. 0 \in 0..(WordSamples - 1)
        BY SizeAssumption
    <2> QED
        BY <1>1, <1>2, <2>1, <2>2, <2>3 DEF PlayerType
<1>6. LoadsCounted /\ QuietInv
    BY DEF LoadsCounted, Rebooting, QuietInv
<1>7. QueueInv
    <2>1. Len(fifo) = 0 /\ Queued(1) = [load |-> buffer, i |-> 0]
        BY DEF Queued, Coming
    <2>2. osr.load = buffer /\ OsrEnd = 0 /\ pin.i = NoPending
        BY <1>1, <1>2 DEF OsrEnd, NoWord, NoSample
    <2>3. Continues(osr.load, OsrEnd, Queued(1))
        BY <2>1, <2>2 DEF Continues
    <2> QED
        BY <2>1, <2>2, <2>3 DEF QueueInv, Chained
<1> QED
    BY <1>3, <1>4, <1>5, <1>6, <1>7 DEF HarnessInv

\* The invariant of the board and its host.
THEOREM Invariance == Spec => []HarnessInv
<1>1. HarnessInv /\ [Next]_vars => HarnessInv'
    <2> SUFFICES ASSUME HarnessInv, [Next]_vars PROVE HarnessInv'
        OBVIOUS
    <2>1. LoopType' /\ PlayerType' /\ QueueInv'
        BY StepKeepsStream
    <2>2. HostType' /\ LoadsCounted' /\ QuietInv'
        BY HostKeepsCounts, ServeKeepsCounts, FaultKeepsCounts, RestKeepsCounts DEF Next, Main
    <2> QED
        BY <2>1, <2>2 DEF HarnessInv
<1> QED
    BY <1>1, InitInv, PTL DEF Spec

-----------------------------------------------------------------------------
(* What follows from it. *)

\* No load on its way to the pins is later than the active one.
NoneLater ==
    /\ \A k \in 1..Len(fifo) : fifo[k].load.n <= buffer.n
    /\ osr.load.n <= buffer.n /\ pin.load.n <= buffer.n

\* A step of the player or of the main loop moves loads on; a new one is later.
LEMMA StepKeepsOrder ==
    ASSUME HarnessInv, NoneLater, [Next]_vars
    PROVE  NoneLater'
<1>1. /\ fifo \in Seq(Words) /\ Len(fifo) \in Nat /\ buffer.n \in Nat
      /\ osr.load \in AnyLoad /\ pin.load \in AnyLoad
    BY DEF HarnessInv, PlayerType, LoopType, AnyLoad
<1>2. \A k \in 1..Len(fifo) : fifo[k].load.n \in Nat
    <2>1. \A k \in 1..Len(fifo) : fifo[k] \in Words
        BY <1>1
    <2> QED
        BY <2>1 DEF Words, AnyLoad
<1>3. osr.load.n \in Nat /\ pin.load.n \in Nat
    BY <1>1 DEF AnyLoad
<1>4. CASE Play
    <2>1. UNCHANGED buffer
        BY <1>4 DEF Play, loop
    <2>2. CASE osr.left > 0 /\ pin' = Sample(osr) /\ osr' = Shift(osr) /\ UNCHANGED fifo
        <3>1. pin'.load = osr.load /\ osr'.load = osr.load
            BY <2>2 DEF Sample, Shift, HarnessInv, PlayerType
        <3> QED
            BY <2>1, <2>2, <3>1 DEF NoneLater
    <2>3. CASE osr.left = 0 /\ fifo # <<>> /\ fifo' = Tail(fifo)
               /\ LET word == [load |-> Head(fifo).load, i |-> Head(fifo).i, left |-> WordSamples]
                  IN  pin' = Sample(word) /\ osr' = Shift(word)
        <3>1. Len(fifo) \in Nat \ {0} /\ Head(fifo) = fifo[1]
            BY <1>1, <2>3, EmptySeq
        <3>2. pin'.load = fifo[1].load /\ osr'.load = fifo[1].load
            BY <2>3, <3>1 DEF Sample, Shift
        <3>3. Len(fifo') = Len(fifo) - 1 /\ \A k \in 1..Len(fifo') : fifo'[k] = fifo[k + 1]
            BY <1>1, <2>3, HeadTailProperties
        <3>4. \A k \in 1..Len(fifo') : k + 1 \in 1..Len(fifo)
            BY <3>1, <3>3
        <3> QED
            BY <2>1, <3>1, <3>2, <3>3, <3>4 DEF NoneLater
    <2> QED
        BY <1>4, <2>2, <2>3 DEF Play
<1>5. CASE TopUp
    <2>1. UNCHANGED <<buffer, osr, pin>>
        BY <1>5 DEF TopUp
    <2>2. CASE Fill
        <3> DEFINE first == IF pending = NoPending THEN index ELSE pending
        <3> DEFINE room == FifoDepth - Len(fifo)
        <3> DEFINE more == WordsFrom(first, room)
        <3>1. room \in Nat /\ first \in Int
            <4>1. /\ FifoDepth \in Nat /\ Len(fifo) <= FifoDepth /\ buffer \in AnyLoad
                  /\ index \in Positions(buffer) /\ pending \in Positions(buffer) \cup {NoPending}
                BY SizeAssumption DEF HarnessInv, PlayerType, LoopType
            <4> QED
                BY <1>1, <4>1, PositionsNat
        <3>2. fifo' = fifo \o more
            BY <2>2 DEF Fill
        <3> HIDE DEF room, first
        <3>3. more = [k \in 1..room |-> [load |-> buffer, i |-> Wrap(buffer, first + (k - 1) * WordSamples)]]
            BY DEF WordsFrom
        <3>4. more \in Seq(Words) /\ Len(more) = room
            <4>1. ASSUME NEW k \in 1..room
                  PROVE  [load |-> buffer, i |-> Wrap(buffer, first + (k - 1) * WordSamples)]
                           \in Words
                <5>1. first + (k - 1) * WordSamples \in Int /\ buffer \in AnyLoad
                    BY <3>1, SizeAssumption DEF HarnessInv, LoopType
                <5>2. Wrap(buffer, first + (k - 1) * WordSamples) \in Nat
                    BY <5>1, WrapInside
                <5> QED
                    BY <5>1, <5>2 DEF Words
            <4> QED
                BY <3>1, <3>3, <4>1
        <3>5. \A k \in 1..room : more[k].load = buffer
            BY <3>3
        <3> HIDE DEF more
        <3>6. ASSUME NEW k \in 1..Len(fifo')
              PROVE  fifo'[k].load.n <= buffer.n
            <4>1. Len(fifo') = Len(fifo) + room
                BY <1>1, <3>1, <3>2, <3>4, ConcatProperties
            <4>2. CASE k <= Len(fifo)
                <5>1. k \in 1..Len(fifo) /\ fifo'[k] = fifo[k]
                    BY <1>1, <3>1, <3>2, <3>4, <4>1, <4>2
                <5> QED
                    BY <5>1 DEF NoneLater
            <4>3. CASE k > Len(fifo)
                <5>1. k - Len(fifo) \in 1..room /\ fifo'[k] = more[k - Len(fifo)]
                    BY <1>1, <3>1, <3>2, <3>4, <4>1, <4>3
                <5>2. fifo'[k].load = buffer
                    BY <3>5, <5>1
                <5> QED
                    BY <1>1, <5>2
            <4> QED
                BY <1>1, <3>1, <4>1, <4>2, <4>3
        <3> QED
            BY <2>1, <3>6 DEF NoneLater
    <2>3. CASE UNCHANGED fifo
        BY <2>1, <2>3 DEF NoneLater
    <2> QED
        BY <1>5, <2>2, <2>3 DEF TopUp
<1>6. CASE Serve \/ Flash
    <2>1. UNCHANGED <<fifo, osr>> /\ buffer'.n \in {buffer.n, buffer.n + 1}
        BY <1>6 DEF Serve, Flash, PowerUp, Load, player, loop
    <2>2. UNCHANGED pin \/ pin'.load.n = 0
        BY <1>6 DEF Serve, Flash, player, NoSample, NoWord
    <2> QED
        BY <1>1, <1>2, <1>3, <2>1, <2>2 DEF NoneLater
<1>7. CASE Reboot
    <2>1. fifo' = <<>> /\ osr' = NoWord /\ UNCHANGED <<buffer, pin>>
        BY <1>7 DEF Reboot
    <2>2. Len(fifo') = 0 /\ osr'.load.n = 0
        BY <2>1 DEF NoWord
    <2> QED
        BY <1>1, <2>1, <2>2 DEF NoneLater
<1>8. CASE ServeDone \/ Host \/ LoseReply \/ UNCHANGED vars
    <2>1. UNCHANGED <<fifo, osr, pin, buffer>>
        BY <1>8 DEF ServeDone, Host, Call, Answered, Timeout, PortGone, Close, Open, LoseReply,
                    vars, loop, player
    <2> QED
        BY <2>1 DEF NoneLater
<1> QED
    BY <1>4, <1>5, <1>6, <1>7, <1>8 DEF Next, Main

\* Every variable has its type: the packer and the shift register never leave
\* the buffer, and no load is counted that was not asked for.
THEOREM TypeInvariant == Spec => []TypeOK
<1>1. Init => NoneLater
    <2> SUFFICES ASSUME Init PROVE NoneLater
        OBVIOUS
    <2>1. buffer.n = 0 /\ osr.load.n = 0 /\ pin.load.n = 0 /\ Len(fifo) = 0
        BY DEF Init, NoWord, NoSample
    <2> QED
        BY <2>1 DEF NoneLater
<1>2. HarnessInv /\ NoneLater /\ [Next]_vars => NoneLater'
    BY StepKeepsOrder
<1>3. HarnessInv /\ NoneLater => TypeOK
    <2> SUFFICES ASSUME HarnessInv, NoneLater PROVE TypeOK
        OBVIOUS
    <2>1. /\ calls \in 0..MaxCalls /\ MaxCalls \in Nat /\ buffer \in AnyLoad
          /\ Len(down) \in Nat /\ Rebooting \in {0, 1}
          /\ fifo \in Seq(Words) /\ Len(fifo) \in Nat /\ pin.load \in AnyLoad
        BY SizeAssumption DEF HarnessInv, HostType, LoopType, PlayerType, Rebooting
    <2>2. buffer.n \in Nat /\ buffer.n <= MaxCalls
        BY <2>1 DEF HarnessInv, LoadsCounted, AnyLoad
    <2>3. ASSUME NEW load \in AnyLoad, load.n <= buffer.n
          PROVE  load \in Loads
        BY <2>1, <2>2, <2>3 DEF AnyLoad, Loads
    <2>4. buffer \in Loads /\ pin.load \in Loads
        <3>1. buffer.n <= buffer.n /\ pin.load.n <= buffer.n
            BY <2>2 DEF NoneLater
        <3> QED
            BY <2>1, <2>3, <3>1
    <2>5. ASSUME NEW k \in DOMAIN fifo
          PROVE  fifo[k].load \in Loads /\ fifo[k].i \in Positions(fifo[k].load)
        <3>1. k \in 1..Len(fifo) /\ fifo[k] \in Words
            BY <2>1
        <3>2. fifo[k].load \in AnyLoad /\ fifo[k].load.n <= buffer.n
            BY <3>1 DEF Words, NoneLater
        <3> QED
            BY <2>3, <3>2 DEF HarnessInv, PlayerType
    <2>6. /\ hpc \in {"idle", "readline"} /\ cmd \in [c : Commands, quiet : BOOLEAN]
          /\ outcome \in {"none", "returned", "raised"} /\ handle \in {"open", "stale", "closed"}
          /\ late \in 0..MaxLate /\ Len(down) + Len(up) <= calls
        BY DEF HarnessInv, HostType
    <2>7. /\ mpc \in {"fill", "serve", "reboot", "gone"} /\ index \in Positions(buffer)
          /\ pending \in Positions(buffer) \cup {NoPending} /\ active \in BOOLEAN
        BY DEF HarnessInv, LoopType
    <2>8. /\ Len(fifo) <= FifoDepth
          /\ osr.left \in 0..(WordSamples - 1) /\ osr.i \in Positions(osr.load)
          /\ pin.i \in Positions(pin.load) \cup {NoPending}
        BY DEF HarnessInv, PlayerType
    <2> QED
        BY <2>1, <2>4, <2>5, <2>6, <2>7, <2>8 DEF TypeOK
<1> QED
    BY <1>1, <1>2, <1>3, Invariance, PTL DEF Spec

\* The pins repeat each pattern without a gap or a repeated sample, whatever
\* its length and whatever is served meanwhile (pack8 and the main loop).
THEOREM PinsAreSeamless == Spec => Seamless
<1> DEFINE Next1 == IF pin.i = NoPending \/ pin'.load.n > pin.load.n
                    THEN pin'.i = 0
                    ELSE pin'.load = pin.load /\ pin'.i = Wrap(pin.load, pin.i + 1)
<1>1. ASSUME HarnessInv, Play
      PROVE  Next1
    <2> USE SizeAssumption
    <2>1. mpc # "gone" /\ Chained /\ (pin.i = NoPending => osr = NoWord)
        BY <1>1 DEF Play, HarnessInv, QueueInv
    <2>2. osr.load \in AnyLoad /\ osr.i \in Positions(osr.load) /\ osr.i \in Nat /\ pin.load \in AnyLoad
        BY <1>1 DEF HarnessInv, PlayerType
    <2>3. osr.load.n \in Nat /\ pin.load.n \in Nat
        BY <2>2 DEF AnyLoad
    <2>4. CASE osr.left > 0 /\ pin' = Sample(osr) /\ osr' = Shift(osr) /\ UNCHANGED fifo
        <3>1. pin.i # NoPending
            BY <2>1, <2>4 DEF NoWord
        <3>2. osr.load = pin.load /\ osr.i = Wrap(pin.load, pin.i + 1)
            BY <2>1, <3>1 DEF Chained
        <3>3. pin'.load = pin.load /\ pin'.i = Wrap(pin.load, pin.i + 1)
            BY <2>4, <3>2 DEF Sample
        <3> QED
            BY <2>3, <3>1, <3>3
    <2>5. CASE osr.left = 0 /\ fifo # <<>> /\ fifo' = Tail(fifo)
               /\ LET word == [load |-> Head(fifo).load, i |-> Head(fifo).i, left |-> WordSamples]
                  IN  pin' = Sample(word) /\ osr' = Shift(word)
        <3>1. fifo \in Seq(Words) /\ Len(fifo) \in Nat \ {0} /\ Head(fifo) = fifo[1]
            BY <1>1, <2>5, EmptySeq DEF HarnessInv, PlayerType
        <3>2. pin'.load = fifo[1].load /\ pin'.i = fifo[1].i
            BY <2>5, <3>1 DEF Sample
        <3>3. OsrEnd = osr.i
            <4>1. osr.i + osr.left = osr.i
                BY <2>2, <2>5
            <4> QED
                BY <2>2, <4>1, WrapIdle DEF OsrEnd
        <3>4. Queued(1) = fifo[1]
            BY <3>1 DEF Queued
        <3>5. Continues(osr.load, osr.i, fifo[1])
            BY <2>1, <3>3, <3>4 DEF Chained
        <3>6. CASE pin.i = NoPending
            <4>1. osr = NoWord
                BY <2>1, <3>6
            <4>2. fifo[1].i = 0
                BY <3>5, <4>1 DEF Continues, NoWord
            <4> QED
                BY <3>2, <3>6, <4>2
        <3>7. CASE pin.i # NoPending
            <4>1. osr.load = pin.load /\ osr.i = Wrap(pin.load, pin.i + 1)
                BY <2>1, <3>7 DEF Chained
            <4>2. CASE fifo[1].load = pin.load
                BY <2>3, <3>2, <3>5, <3>7, <4>1, <4>2 DEF Continues
            <4>3. CASE fifo[1].load # pin.load
                BY <3>2, <3>5, <4>1, <4>3 DEF Continues
            <4> QED
                BY <4>2, <4>3
        <3> QED
            BY <3>6, <3>7
    <2> QED
        BY <1>1, <2>4, <2>5 DEF Play
<1>2. HarnessInv /\ [Next]_vars => [Play => Next1]_vars
    BY <1>1
<1> QED
    BY <1>2, Invariance, PTL DEF Spec, Seamless

\* An operation that found the channel quiet and returns was carried out: no
\* timeout, lost reply or reset makes another command's OK its answer.
THEOREM AcknowledgedMeansDone == Spec => QuietAcknowledgedMeansDone
<1>1. ASSUME HarnessInv, Next, Returns, cmd.quiet
      PROVE  Done
    <2>1. hpc = "readline" /\ hpc' = "idle" /\ outcome' = "returned"
        BY <1>1 DEF Returns
    <2>2. CASE Answered
        <3>1. up # <<>> /\ Accepted(Head(up))
            BY <2>1, <2>2 DEF Answered, Return
        <3>2. up = <<Reply(cmd.c.op)>> /\ Carried
            BY <1>1, <2>1, <3>1 DEF HarnessInv, QuietInv
        <3>3. Head(up) = Reply(cmd.c.op)
            BY <3>2
        <3>4. cmd.c.op # "BADARGS"
            BY <3>1, <3>3 DEF Accepted, Reply
        <3> QED
            BY <3>2, <3>4 DEF Done, Carried
    <2>3. CASE Timeout
        <3>1. cmd.c.op = "ID"
            BY <2>1, <2>3 DEF Timeout, Return
        <3> QED
            BY <3>1 DEF Done
    <2>4. CASE PortGone
        BY <2>1, <2>4 DEF PortGone, Return
    <2>5. CASE ~(Answered \/ Timeout \/ PortGone)
        <3>1. hpc = "idle" \/ hpc' = hpc
            BY <1>1, <2>5 DEF Next, Main, Host, TopUp, ServeDone, Serve, Reboot, Play, Flash,
                              LoseReply, Call, Close, Open, host
        <3> QED
            BY <2>1, <3>1
    <2> QED
        BY <2>2, <2>3, <2>4, <2>5
<1>2. HarnessInv /\ [Next]_vars => [Returns /\ cmd.quiet => Done]_vars
    BY <1>1
<1> QED
    BY <1>2, Invariance, PTL DEF Spec, QuietAcknowledgedMeansDone

=============================================================================
