--------------------------- MODULE ConvergeProofs ---------------------------
(***************************************************************************)
(* Proofs about Converge, for every signal, every setup a caller starts    *)
(* from, every probe and any bounds of the loops: the scales the DS1054Z   *)
(* gets are steps of its grid, and zooming in keeps the signal in view.    *)
(***************************************************************************)
EXTENDS Converge, FiniteSetTheorems, WellFoundedInduction, TLAPS

-----------------------------------------------------------------------------
(* Numbers, and the least and the greatest of a set of them. *)

\* Floor division and its remainder.
LEMMA Division ==
    ASSUME NEW x \in Int, NEW d \in Nat \ {0}
    PROVE  x \div d \in Int /\ x % d \in 0..(d - 1) /\ x = d * (x \div d) + (x % d)
  OBVIOUS

\* What is no less, times the same.
LEMMA Times ==
    ASSUME NEW x \in Int, NEW y \in Int, x <= y, NEW d \in Nat
    PROVE  d * x <= d * y /\ d * x \in Int /\ d * y \in Int
  <1>1. y - x \in Nat /\ d * (y - x) \in Nat
    OBVIOUS
  <1>2. d * (y - x) = d * y - d * x
    OBVIOUS
  <1> QED BY <1>1, <1>2

\* A quotient is between the numbers that its dividend is between the multiples of.
LEMMA QuotientBetween ==
    ASSUME NEW x \in Int, NEW d \in Nat \ {0}, NEW k \in Int
    PROVE  /\ d * k <= x => k <= x \div d
           /\ x < d * k => x \div d < k
  <1> DEFINE q == x \div d
  <1>1. q \in Int /\ x % d \in 0..(d - 1) /\ x = d * q + (x % d)
    BY Division
  <1> HIDE DEF q
  <1>2. ASSUME d * k <= x, q < k PROVE FALSE
    <2>1. d * (q + 1) <= d * k
      BY <1>1, <1>2, Times
    <2>2. d * (q + 1) = d * q + d
      BY <1>1
    <2> QED BY <1>1, <1>2, <2>1, <2>2
  <1>3. ASSUME x < d * k, k <= q PROVE FALSE
    <2>1. d * k <= d * q
      BY <1>1, <1>3, Times
    <2> QED BY <1>1, <1>3, <2>1
  <1>4. d * k <= x => k <= q
    BY <1>1, <1>2
  <1>5. x < d * k => q < k
    BY <1>1, <1>3
  <1> QED BY <1>4, <1>5 DEF q

\* A greater dividend has no lesser quotient.
LEMMA QuotientGrows ==
    ASSUME NEW x \in Int, NEW y \in Int, x <= y, NEW d \in Nat \ {0}
    PROVE  x \div d <= y \div d /\ x \div d \in Int /\ y \div d \in Int
  <1>1. x \div d \in Int /\ x % d \in 0..(d - 1) /\ x = d * (x \div d) + (x % d) /\ y \div d \in Int
    BY Division
  <1> DEFINE q == x \div d
  <1> HIDE DEF q
  <1>2. d * q <= y /\ q \in Int
    BY <1>1 DEF q
  <1>3. q <= y \div d
    BY <1>2, QuotientBetween
  <1> QED BY <1>1, <1>3 DEF q

\* A finite set of numbers that is not empty has a greatest one, and Max is it.
LEMMA MaxIsGreatest ==
    ASSUME NEW S \in SUBSET Int, S # {}, IsFiniteSet(S)
    PROVE  Max(S) \in S /\ \A n \in S : n <= Max(S)
  <1> DEFINE Over(x) == {y \in S : y > x}
             T == {Over(x) : x \in S}
  <1>1. T \subseteq FiniteSubsetsOf(S) /\ T # {}
    <2>1. \A x \in S : Over(x) \in SUBSET S /\ IsFiniteSet(Over(x))
      BY FS_Subset
    <2> QED BY <2>1 DEF FiniteSubsetsOf
  <1>2. PICK t \in T : \A u \in T : ~ (<<u, t>> \in StrictSubsetOrdering(S))
    <2> HIDE DEF T
    <2> QED BY <1>1, FS_StrictSubsetOrderingWellFounded, WFMin
  <1>3. PICK x \in S : t = Over(x)
    OBVIOUS
  <1>4. ASSUME NEW y \in S, y > x PROVE FALSE
    <2>1. x \in Int /\ y \in Int /\ \A z \in S : z \in Int
      OBVIOUS
    <2>2. Over(y) \in T /\ Over(y) \subseteq Over(x) /\ y \in Over(x) /\ y \notin Over(y)
      <3>1. \A z \in S : z > y => z > x
        BY <1>4, <2>1
      <3>2. y > x /\ ~ (y > y)
        BY <1>4, <2>1
      <3>3. Over(y) \in T
        OBVIOUS
      <3> HIDE DEF T
      <3> QED BY <3>1, <3>2, <3>3
    <2>3. <<Over(y), t>> \in StrictSubsetOrdering(S)
      <3>1. Over(y) \in SUBSET S /\ t \in SUBSET S /\ Over(y) \subseteq t /\ Over(y) # t
        BY <2>2, <1>3
      <3> HIDE DEF Over
      <3> QED BY <3>1 DEF StrictSubsetOrdering
    <2> QED BY <2>2, <2>3, <1>2
  <1>5. ASSUME NEW y \in S PROVE y <= x
    <2>1. y \in Int /\ x \in Int
      OBVIOUS
    <2> QED BY <2>1, <1>4
  <1> QED BY <1>5 DEF Max

\* A set of numbers that is not empty and has finitely many of them has a least
\* one, and Min is it.
LEMMA MinIsLeast ==
    ASSUME NEW S \in SUBSET Int, S # {}, IsFiniteSet(S)
    PROVE  Min(S) \in S /\ \A n \in S : Min(S) <= n
  <1> DEFINE Under(x) == {y \in S : y < x}
             T == {Under(x) : x \in S}
  <1>1. T \subseteq FiniteSubsetsOf(S) /\ T # {}
    <2>1. \A x \in S : Under(x) \in SUBSET S /\ IsFiniteSet(Under(x))
      BY FS_Subset
    <2> QED BY <2>1 DEF FiniteSubsetsOf
  <1>2. PICK t \in T : \A u \in T : ~ (<<u, t>> \in StrictSubsetOrdering(S))
    <2> HIDE DEF T
    <2> QED BY <1>1, FS_StrictSubsetOrderingWellFounded, WFMin
  <1>3. PICK x \in S : t = Under(x)
    OBVIOUS
  <1>4. ASSUME NEW y \in S, y < x PROVE FALSE
    <2>1. x \in Int /\ y \in Int /\ \A z \in S : z \in Int
      OBVIOUS
    <2>2. Under(y) \in T /\ Under(y) \subseteq Under(x) /\ y \in Under(x) /\ y \notin Under(y)
      <3>1. \A z \in S : z < y => z < x
        BY <1>4, <2>1
      <3>2. y < x /\ ~ (y < y)
        BY <1>4, <2>1
      <3>3. Under(y) \in T
        OBVIOUS
      <3> HIDE DEF T
      <3> QED BY <3>1, <3>2, <3>3
    <2>3. <<Under(y), t>> \in StrictSubsetOrdering(S)
      <3>1. Under(y) \in SUBSET S /\ t \in SUBSET S /\ Under(y) \subseteq t /\ Under(y) # t
        BY <2>2, <1>3
      <3> HIDE DEF Under
      <3> QED BY <3>1 DEF StrictSubsetOrdering
    <2> QED BY <2>2, <2>3, <1>2
  <1>5. ASSUME NEW y \in S PROVE x <= y
    <2>1. y \in Int /\ x \in Int
      OBVIOUS
    <2> QED BY <2>1, <1>4
  <1> QED BY <1>5 DEF Min

\* Of two numbers Max takes the greater.
LEMMA MaxOfTwo ==
    ASSUME NEW a \in Int, NEW b \in Int
    PROVE  Max({a, b}) = IF a >= b THEN a ELSE b
  <1>1. {a, b} \in SUBSET Int /\ {a, b} # {} /\ IsFiniteSet({a, b})
    <2>1. IsFiniteSet({a}) /\ {a, b} = {a} \cup {b}
      BY FS_Singleton
    <2>2. IsFiniteSet({a} \cup {b})
      BY <2>1, FS_AddElement
    <2> QED BY <2>1, <2>2
  <1>2. Max({a, b}) \in {a, b} /\ \A n \in {a, b} : n <= Max({a, b})
    BY <1>1, MaxIsGreatest
  <1> QED BY <1>2


-----------------------------------------------------------------------------
(* The grid and its steps. *)

\* The steps are hundreds, and no more than fifty million.
LEMMA GridFacts ==
    ASSUME NEW s \in Grid
    PROVE  s \in Nat /\ 100 <= s /\ s <= 50000000 /\ \E k \in Nat \ {0} : s = 100 * k
  <1>1. PICK m \in {1, 2, 5}, ten \in Decades : s = m * ten
    BY DEF Grid
  <1>2. PICK n \in Nat \ {0} : ten = 100 * n /\ n <= 100000
    <2>1. \/ ten = 100 * 1 \/ ten = 100 * 10 \/ ten = 100 * 100 \/ ten = 100 * 1000
          \/ ten = 100 * 10000 \/ ten = 100 * 100000
      BY DEF Decades
    <2> QED BY <2>1
  <1>3. PICK k \in Nat \ {0} : s = 100 * k /\ k <= 500000
    <2>1. CASE m = 1
      BY <1>1, <1>2, <2>1
    <2>2. CASE m = 2
      <3>1. s = 100 * (2 * n) /\ 2 * n \in Nat \ {0} /\ 2 * n <= 500000
        BY <1>1, <1>2, <2>2
      <3> QED BY <3>1
    <2>3. CASE m = 5
      <3>1. s = 100 * (5 * n) /\ 5 * n \in Nat \ {0} /\ 5 * n <= 500000
        BY <1>1, <1>2, <2>3
      <3> QED BY <3>1
    <2> QED BY <2>1, <2>2, <2>3
  <1> QED BY <1>3

\* A set of steps has a least and a greatest one.
LEMMA StepsBounded ==
    ASSUME NEW steps \in SUBSET Grid, steps # {}
    PROVE  /\ Min(steps) \in steps /\ Max(steps) \in steps
           /\ \A s \in steps : Min(steps) <= s /\ s <= Max(steps) /\ s \in Nat /\ 100 <= s
  <1>1. PICK most \in Nat : \A s \in steps : s \in 0..most
    <2>1. \A s \in steps : s \in Nat /\ s <= 50000000
      BY GridFacts
    <2>2. PICK most \in Nat : most = 50000000
      OBVIOUS
    <2> QED BY <2>1, <2>2
  <1>2. IsFiniteSet(steps)
    <2>1. IsFiniteSet(0..most)
      BY FS_Interval
    <2>2. steps \subseteq 0..most
      BY <1>1
    <2> QED BY <2>1, <2>2, FS_Subset
  <1>3. steps \in SUBSET Int
    BY <1>1
  <1> QED BY <1>2, <1>3, MinIsLeast, MaxIsGreatest, GridFacts

\* The instrument has a scale, of one volt at least through the widest probe.
LEMMA ScalesFacts ==
    Scales \in SUBSET Grid /\ Scales # {}
  <1>1. 1000000 \in Grid
    <2>1. 1000000 = 1 * 1000000
      OBVIOUS
    <2> QED BY <2>1 DEF Grid, Decades
  <1>2. 100 * Probe <= 1000000 /\ 1000000 <= 10 * OneVolt * Probe
    BY LoopAssumption DEF OneVolt
  <1> QED BY <1>1, <1>2 DEF Scales

\* What a number is clamped to.
LEMMA Clamped ==
    ASSUME NEW v \in Int, NEW lo \in Int, NEW hi \in Int, lo <= hi
    PROVE  /\ Clamp(v, lo, hi) \in lo..hi
           /\ v \in lo..hi => Clamp(v, lo, hi) = v
           /\ v < lo => Clamp(v, lo, hi) = lo
           /\ v > hi => Clamp(v, lo, hi) = hi
  BY DEF Clamp

\* Snapping takes a step, and one that is at least two thirds of what was asked
\* for, if there are such.
LEMMA SnapFacts ==
    ASSUME NEW steps \in SUBSET Grid, steps # {}, NEW v \in Int
    PROVE  /\ Snap(v, steps) \in steps
           /\ v <= Max(steps) => \/ Snap(v, steps) >= v
                                 \/ v > 100 /\ 1581 * Snap(v, steps) >= 1000 * v
  <1> DEFINE c == Clamp(v, Min(steps), Max(steps))
             S == {s \in steps : s <= c}
             below == Max(S)
             T == {s \in steps : s > below}
  <1>1. /\ Min(steps) \in steps /\ Max(steps) \in steps /\ Min(steps) \in Nat /\ Max(steps) \in Nat
        /\ 100 <= Min(steps) /\ Min(steps) <= Max(steps)
        /\ \A s \in steps : Min(steps) <= s /\ s <= Max(steps) /\ s \in Nat /\ 100 <= s
    BY StepsBounded
  <1>2. c \in Min(steps)..Max(steps) /\ (v <= Max(steps) => c >= v /\ (c = v \/ c = Min(steps)))
    <2>1. Min(steps) \in Int /\ Max(steps) \in Int
      BY <1>1
    <2> DEFINE lo == Min(steps)
               hi == Max(steps)
    <2>2. lo \in Int /\ hi \in Int /\ lo <= hi /\ c = Clamp(v, lo, hi)
      BY <1>1, <2>1
    <2> HIDE DEF lo, hi, c
    <2>3. /\ c \in lo..hi /\ (v \in lo..hi => c = v) /\ (v < lo => c = lo)
      BY <2>2, Clamped
    <2>4. c \in lo..hi /\ (v <= hi => c >= v /\ (c = v \/ c = lo))
      BY <2>2, <2>3
    <2> QED BY <2>4 DEF lo, hi
  <1> HIDE DEF c
  <1>3. S \in SUBSET Grid /\ S # {}
    BY <1>1, <1>2
  <1>4. below \in S /\ \A s \in S : s <= below
    BY <1>3, StepsBounded
  <1> HIDE DEF S
  <1>5. below \in steps /\ below <= c /\ below \in Nat /\ 100 <= below
    BY <1>1, <1>4 DEF S
  <1>6. PICK k \in Nat \ {0} : below = 100 * k
    BY <1>5, GridFacts
  <1> HIDE DEF below
  <1>7. /\ Between(below) \in Int /\ below <= Between(below)
        /\ 1000 * Between(below) <= 1581 * below
    <2>1. below \div 100 = k
      BY <1>6
    <2>2. PICK ratio \in {1414, 1581} : Between(below) = (k * ratio) \div 10
      BY <2>1 DEF Between
    <2>3. (k * ratio) \div 10 \in Int /\ 10 * ((k * ratio) \div 10) <= k * ratio
          /\ k * ratio < 10 * ((k * ratio) \div 10) + 10
      BY <2>2
    <2>4. CASE ratio = 1414
      BY <1>6, <2>2, <2>3, <2>4
    <2>5. CASE ratio = 1581
      BY <1>6, <2>2, <2>3, <2>5
    <2> QED BY <2>2, <2>4, <2>5
  <1>8. CASE c <= Between(below)
    <2>1. Snap(v, steps) = below
      BY <1>8 DEF Snap, below, S, c
    <2>2. 1000 * c <= 1581 * below
      BY <1>2, <1>1, <1>5, <1>7, <1>8
    <2>3. c = Min(steps) => below >= c
      BY <1>1, <1>5
    <2> QED BY <1>1, <1>2, <1>5, <2>1, <2>2, <2>3
  <1>9. CASE ~(c <= Between(below))
    <2>1. Snap(v, steps) = Min(T)
      BY <1>9 DEF Snap, below, S, c
    <2>2. c > below
      BY <1>1, <1>2, <1>5, <1>7, <1>9
    <2>3. T \in SUBSET Grid /\ T # {}
      <3>1. Max(steps) > below
        BY <1>1, <1>2, <1>5, <2>2
      <3>2. Max(steps) \in T
        BY <1>1, <3>1
      <3> QED BY <3>2
    <2>4. Min(T) \in T
      BY <2>3, StepsBounded
    <2>5. Min(T) \in steps /\ Min(T) > below
      BY <2>4
    <2>6. Min(T) \notin S
      <3>1. Min(T) \in Nat
        BY <1>1, <2>5
      <3> QED BY <1>4, <1>5, <2>5, <3>1
    <2>7. Min(T) > c
      BY <1>1, <1>2, <2>5, <2>6 DEF S
    <2> QED BY <1>1, <1>2, <2>1, <2>5, <2>7
  <1> QED BY <1>8, <1>9

-----------------------------------------------------------------------------
(* Frames. *)

Judgement ==
    [vmin : Int, vmax : Int, triggered : BOOLEAN, clipping : BOOLEAN, period : Nat, slow : BOOLEAN]

\* A scale of the instrument is twenty-five codes.
LEMMA CodeSizes ==
    ASSUME NEW setup \in Setup, setup.scale \in Scales
    PROVE  /\ CodeSize(setup) \in Nat /\ 4 <= CodeSize(setup) /\ setup.scale = 25 * CodeSize(setup)
           /\ setup.scale \in Nat /\ 100 <= setup.scale
  <1>1. PICK k \in Nat \ {0} : setup.scale = 100 * k
    BY ScalesFacts, GridFacts
  <1>2. CodeSize(setup) = 4 * k
    BY <1>1 DEF CodeSize
  <1> QED BY <1>1, <1>2

\* The code of a voltage, and its distance from it unless the code is at a rail.
LEMMA Codes ==
    ASSUME NEW setup \in Setup, setup.scale \in Scales, NEW v \in Int
    PROVE  /\ Code(setup, v) \in 0..255 /\ CodeVolts(setup, Code(setup, v)) \in Int
           /\ ~CodeAtRail(Code(setup, v)) =>
                 LET size == CodeSize(setup)
                     off == CodeVolts(setup, Code(setup, v)) - v
                 IN  2 * off <= size /\ -size <= 2 * off
  <1> DEFINE size == CodeSize(setup)
             x == 2 * (v + setup.offset) + size
             q == x \div (2 * size)
  <1>1. size \in Nat /\ 4 <= size /\ setup.offset \in Int
    BY CodeSizes DEF Setup
  <1>2. Code(setup, v) = Clamp(q + 127, 0, 255)
    BY DEF Code
  <1> HIDE DEF size
  <1>3. 2 * size \in Nat \ {0} /\ x \in Int
    BY <1>1
  <1>4. q \in Int /\ x % (2 * size) \in 0..(2 * size - 1) /\ x = (2 * size) * q + (x % (2 * size))
    BY <1>3, Division
  <1> HIDE DEF q
  <1>5. Code(setup, v) \in 0..255 /\ (Code(setup, v) = q + 127 \/ CodeAtRail(Code(setup, v)))
    BY <1>2, <1>4 DEF Clamp, CodeAtRail
  <1>6. \A code \in Int : CodeVolts(setup, code) \in Int
    BY <1>1 DEF CodeVolts, size
  <1>7. ASSUME Code(setup, v) = q + 127
        PROVE  LET off == CodeVolts(setup, Code(setup, v)) - v IN 2 * off <= size /\ -size <= 2 * off
    <2>1. CodeVolts(setup, Code(setup, v)) = q * size - setup.offset
      BY <1>4, <1>7 DEF CodeVolts, size
    <2>2. PICK n \in Int : n = q * size /\ (2 * size) * q = 2 * n
      BY <1>1, <1>4
    <2>3. 2 * n <= x /\ x < 2 * n + 2 * size
      BY <1>1, <1>3, <1>4, <2>2
    <2> QED BY <1>1, <2>1, <2>2, <2>3
  <1> QED BY <1>5, <1>6, <1>7 DEF size

\* A greater voltage has no lesser sample.
LEMMA SamplesGrow ==
    ASSUME NEW setup \in Setup, Digitises => setup.scale \in Scales,
           NEW lo \in Int, NEW hi \in Int, lo <= hi
    PROVE  Sample(setup, lo) \in Int /\ Sample(setup, hi) \in Int /\ Sample(setup, lo) <= Sample(setup, hi)
  <1>1. CASE Digitises
    <2> DEFINE size == CodeSize(setup)
               q(v) == (2 * (v + setup.offset) + size) \div (2 * size)
               a == Code(setup, lo)
               b == Code(setup, hi)
    <2>1. size \in Nat /\ 4 <= size /\ setup.offset \in Int
      BY <1>1, CodeSizes DEF Setup
    <2>2. a \in 0..255 /\ b \in 0..255
      BY <1>1, Codes
    <2>3. a = Clamp(q(lo) + 127, 0, 255) /\ b = Clamp(q(hi) + 127, 0, 255)
      BY DEF Code
    <2>4. Sample(setup, lo) = (a - 127) * size - setup.offset
          /\ Sample(setup, hi) = (b - 127) * size - setup.offset
      BY <1>1 DEF Sample, CodeVolts
    <2> HIDE DEF size
    <2>5. q(lo) <= q(hi) /\ q(lo) \in Int /\ q(hi) \in Int
      <3>1. 2 * size \in Nat \ {0} /\ 2 * (lo + setup.offset) + size \in Int
            /\ 2 * (hi + setup.offset) + size \in Int
            /\ 2 * (lo + setup.offset) + size <= 2 * (hi + setup.offset) + size
        BY <2>1
      <3> QED BY <3>1, QuotientGrows
    <2> HIDE DEF q, a, b
    <2>6. a - 127 <= b - 127 /\ a - 127 \in Int /\ b - 127 \in Int
      BY <2>2, <2>3, <2>5 DEF Clamp
    <2>7. size * (a - 127) <= size * (b - 127) /\ size * (a - 127) = (a - 127) * size
          /\ size * (b - 127) = (b - 127) * size /\ (a - 127) * size \in Int /\ (b - 127) * size \in Int
      BY <2>1, <2>6, Times
    <2> QED BY <2>1, <2>4, <2>7
  <1>2. CASE ~Digitises
    <2>1. SimHalf(setup) \in Nat /\ setup.offset \in Int
      BY DEF SimHalf, Setup
    <2>2. Sample(setup, lo) = SimSample(setup, lo) /\ Sample(setup, hi) = SimSample(setup, hi)
      BY <1>2 DEF Sample
    <2> QED BY <2>1, <2>2 DEF SimSample, Clamp
  <1> QED BY <1>1, <1>2

\* A frame is judged to be what a judgement may be.
LEMMA JudgedTyped ==
    ASSUME source \in LoopSignals, NEW setup \in Setup, Digitises => setup.scale \in Scales,
           NEW triggered \in BOOLEAN
    PROVE  LET f == JudgeCapture(setup, triggered)
           IN  /\ f \in Judgement /\ f.vmin <= f.vmax
               /\ f.vmin = Sample(setup, source.lo) /\ f.vmax = Sample(setup, source.hi)
               /\ f.clipping = (AtRail(setup, source.lo) \/ (AtRail(setup, source.hi) /\ ~source.brief))
  <1>1. source.lo \in Int /\ source.hi \in Int /\ source.lo <= source.hi
        /\ source.brief \in BOOLEAN /\ source.period \in Nat \ {0} /\ setup.tb \in Nat
    BY LoopSignalAssumption DEF Setup
  <1> DEFINE lo == Sample(setup, source.lo)
             hi == Sample(setup, source.hi)
             tone == lo # hi /\ Beat(setup) # 0
             period == IF tone THEN (setup.tb * source.period) \div Beat(setup) ELSE 0
             clips == AtRail(setup, source.lo) \/ (AtRail(setup, source.hi) /\ ~source.brief)
             slow == tone /\ Beat(setup) > 40 * source.period
  <1>2. lo \in Int /\ hi \in Int /\ lo <= hi
    BY <1>1, SamplesGrow
  <1>3. Beat(setup) \in Nat
    <2> DEFINE cycle == 100 * source.period
               rest == setup.tb % cycle
    <2>1. cycle \in Nat \ {0} /\ setup.tb \in Int
      BY <1>1
    <2>2. Beat(setup) = IF 2 * rest > cycle THEN cycle - rest ELSE rest
      BY DEF Beat
    <2> HIDE DEF cycle
    <2>3. rest \in 0..(cycle - 1)
      BY <2>1, Division
    <2> HIDE DEF rest
    <2> QED BY <2>1, <2>2, <2>3
  <1>4. period \in Nat
    <2>1. CASE tone
      <3>1. setup.tb * source.period \in Nat
        BY <1>1
      <3>2. Beat(setup) \in Nat \ {0}
        BY <1>3, <2>1
      <3>3. (setup.tb * source.period) \div Beat(setup) \in Int
            /\ 0 <= (setup.tb * source.period) \div Beat(setup)
        <4>1. ASSUME NEW x \in Nat, NEW d \in Nat \ {0} PROVE x \div d \in Int /\ 0 <= x \div d
          <5>1. d * 0 <= x /\ x \in Int /\ 0 \in Int
            OBVIOUS
          <5> QED BY <5>1, Division, QuotientBetween
        <4> QED BY <3>1, <3>2, <4>1
      <3> QED BY <2>1, <3>3
    <2>2. CASE ~tone
      BY <2>2
    <2> QED BY <2>1, <2>2
  <1>5. clips \in BOOLEAN /\ slow \in BOOLEAN
    BY <1>1 DEF AtRail, CodeAtRail, SimAtRail
  <1>6. JudgeCapture(setup, triggered)
           = [vmin |-> lo, vmax |-> hi, triggered |-> triggered,
              clipping |-> clips, period |-> period, slow |-> slow]
    BY DEF JudgeCapture
  <1> HIDE DEF lo, hi, clips, period, slow
  <1>7. JudgeCapture(setup, triggered) \in Judgement
    BY <1>2, <1>4, <1>5, <1>6 DEF Judgement
  <1> QED BY <1>2, <1>6, <1>7 DEF lo, hi, clips

-----------------------------------------------------------------------------
(* Setups. *)

\* What the instrument takes is a setup; its scale and offset come of the scale and
\* the offset that were asked for.
LEMMA Applies ==
    ASSUME NEW setup \in Setup
    PROVE  /\ Apply(setup) \in Setup
           /\ ~Digitises => Apply(setup) = setup
           /\ Digitises =>
                 LET scale == Snap(setup.scale, Scales)
                     limit == OffsetLimit(scale)
                 IN  /\ scale \in Scales
                     /\ Apply(setup).scale = scale
                     /\ Apply(setup).offset = Clamp(setup.offset, -limit, limit)
  <1>1. /\ setup.scale \in Nat /\ setup.offset \in Int /\ setup.level \in Int /\ setup.tb \in Nat
        /\ setup = [scale |-> setup.scale, offset |-> setup.offset, level |-> setup.level, tb |-> setup.tb]
    BY DEF Setup
  <1>2. CASE ~Digitises
    BY <1>2 DEF Apply
  <1>3. CASE Digitises
    <2> DEFINE scale == Snap(setup.scale, Scales)
               limit == OffsetLimit(scale)
               offset == Clamp(setup.offset, -limit, limit)
               tb == Snap(setup.tb, Grid)
               span == (49 * scale) \div 10
               level == Clamp(setup.level, -span - offset, span - offset)
    <2>1. scale \in Scales /\ scale \in Nat
      <3>1. scale \in Scales
        BY <1>1, ScalesFacts, SnapFacts
      <3> QED BY <3>1, ScalesFacts, GridFacts
    <2>2. tb \in Nat
      <3>1. Grid \in SUBSET Grid /\ Grid # {}
        BY ScalesFacts
      <3>2. tb \in Grid
        BY <1>1, <3>1, SnapFacts
      <3> QED BY <3>2, GridFacts
    <2> HIDE DEF scale, tb
    <2>3. limit \in Int /\ offset \in Int
      BY <1>1, <2>1, LoopAssumption DEF OffsetLimit, OneVolt, Clamp
    <2> HIDE DEF offset
    <2>4. level \in Int
      BY <1>1, <2>1, <2>3 DEF Clamp
    <2>5. Apply(setup) = [scale |-> scale, offset |-> offset, level |-> level, tb |-> tb]
      <3> DEFINE taken == [scale |-> scale, offset |-> offset, level |-> setup.level, tb |-> setup.tb]
                 timed == [scale |-> scale, offset |-> offset, level |-> setup.level, tb |-> tb]
      <3>1. ChannelTaken(setup) = taken
        <4>1. ChannelTaken(setup) = [setup EXCEPT !.scale = scale, !.offset = offset]
          BY DEF ChannelTaken, scale, offset
        <4> HIDE DEF limit
        <4> QED BY <1>1, <4>1
      <3>2. TimebaseTaken(taken) = timed
        BY DEF TimebaseTaken, tb
      <3>3. TriggerTaken(timed) = [scale |-> scale, offset |-> offset, level |-> level, tb |-> tb]
        BY DEF TriggerTaken
      <3> QED BY <1>3, <3>1, <3>2, <3>3 DEF Apply, Taken
    <2> HIDE DEF level
    <2>6. Apply(setup) \in Setup /\ Apply(setup).scale = scale /\ Apply(setup).offset = offset
      BY <2>1, <2>2, <2>3, <2>4, <2>5 DEF Setup
    <2> QED BY <1>3, <2>1, <2>6 DEF scale, offset
  <1> QED BY <1>2, <1>3

\* A suggestion is a setup, and so is a recommendation.
LEMMA Suggestions ==
    ASSUME NEW setup \in Setup, NEW f \in Judgement, f.vmin <= f.vmax
    PROVE  /\ Suggest(setup, f) \in Setup /\ Recommend(setup, f) \in Setup
           /\ Swing(f) \in Nat /\ Midline(f) \in Int /\ Fitting(f) \in Nat
           /\ Suggest(setup, f).scale = Vertical(setup, f).scale
           /\ Suggest(setup, f).offset = Vertical(setup, f).offset
  <1>1. /\ setup.scale \in Nat /\ setup.offset \in Int /\ setup.level \in Int /\ setup.tb \in Nat
        /\ setup = [scale |-> setup.scale, offset |-> setup.offset, level |-> setup.level, tb |-> setup.tb]
    BY DEF Setup
  <1>2. f.vmin \in Int /\ f.vmax \in Int /\ f.period \in Nat
    BY DEF Judgement
  <1>3. Swing(f) \in Nat /\ Midline(f) \in Int
    BY <1>2 DEF Swing, Midline
  <1>4. Fitting(f) \in Nat
    BY <1>3 DEF Fitting
  <1>5. ASSUME NEW scale \in Nat PROVE Centred(setup, f, scale) \in Setup
    <2> DEFINE offset == -Midline(f)
    <2>1. offset \in Int /\ Centred(setup, f, scale) = [setup EXCEPT !.scale = scale, !.offset = offset]
      BY <1>3 DEF Centred
    <2> HIDE DEF offset
    <2> QED BY <1>1, <2>1 DEF Setup
  <1>6. Vertical(setup, f) \in Setup
    <2>1. 2 * setup.scale \in Nat
      BY <1>1
    <2> QED BY <1>4, <1>5, <2>1 DEF Vertical
  <1>7. Suggest(setup, f) \in Setup /\ Suggest(setup, f).scale = Vertical(setup, f).scale
        /\ Suggest(setup, f).offset = Vertical(setup, f).offset
    <2>1. setup.tb \div 2 \in Nat
      BY <1>1
    <2> DEFINE tb == IF f.slow THEN setup.tb \div 2 ELSE setup.tb
               level == IF MovesLevel(setup, f) THEN Midline(f) ELSE setup.level
               v == Vertical(setup, f)
    <2>2. tb \in Nat /\ level \in Int
      BY <1>1, <1>3, <2>1
    <2>3. Suggest(setup, f) = [v EXCEPT !.level = level, !.tb = tb]
      BY DEF Suggest
    <2>4. v \in Setup
      BY <1>6
    <2> HIDE DEF tb, level, v
    <2>5. [v EXCEPT !.level = level, !.tb = tb] \in Setup
          /\ [v EXCEPT !.level = level, !.tb = tb].scale = v.scale
          /\ [v EXCEPT !.level = level, !.tb = tb].offset = v.offset
      BY <2>2, <2>4 DEF Setup
    <2> QED BY <2>3, <2>5 DEF v
  <1>8. Recommend(setup, f) \in Setup
    <2> DEFINE scale == IF Swing(f) = 0 THEN setup.scale ELSE Max({Fitting(f), 10})
               sized == IF f.clipping THEN [setup EXCEPT !.offset = 0] ELSE Centred(setup, f, scale)
               tb == IF f.period = 0 THEN setup.tb ELSE f.period \div 3
    <2>1. scale \in Nat
      <3>1. Max({Fitting(f), 10}) \in {Fitting(f), 10}
        <4>1. Fitting(f) \in Int /\ 10 \in Int
          BY <1>4
        <4>2. Max({Fitting(f), 10}) = IF Fitting(f) >= 10 THEN Fitting(f) ELSE 10
          BY <4>1, MaxOfTwo
        <4> QED BY <4>2
      <3>2. Max({Fitting(f), 10}) \in Nat
        BY <1>4, <3>1
      <3> QED BY <1>1, <3>2
    <2>2. tb \in Nat
      BY <1>1, <1>2
    <2>3. Recommend(setup, f) = [sized EXCEPT !.level = Midline(f), !.tb = tb]
      BY DEF Recommend
    <2> HIDE DEF scale, tb
    <2>4. sized \in Setup
      <3>1. [setup EXCEPT !.offset = 0] \in Setup
        BY <1>1 DEF Setup
      <3> QED BY <1>5, <2>1, <3>1
    <2> HIDE DEF sized
    <2> QED BY <1>3, <2>2, <2>3, <2>4 DEF Setup
  <1> QED BY <1>3, <1>4, <1>7, <1>8

-----------------------------------------------------------------------------
(* Zooming in. *)

\* How far a voltage is from the midline of a frame that shows it to within half
\* a code.
LEMMA FromMidline ==
    ASSUME NEW lo \in Int, NEW hi \in Int, NEW size \in Nat, NEW v \in Int,
           4 * size <= hi - lo,
           \/ 2 * (lo - v) <= size /\ -size <= 2 * (lo - v)
           \/ 2 * (hi - v) <= size /\ -size <= 2 * (hi - v)
    PROVE  LET x == v - (hi + lo) \div 2
           IN  /\ 4 * (2 * x) <= 5 * (hi - lo) + 4
               /\ -(5 * (hi - lo) + 4) <= 4 * (2 * x)
  <1>1. PICK mid \in Int : mid = (hi + lo) \div 2 /\ 2 * mid <= hi + lo /\ hi + lo <= 2 * mid + 1
    OBVIOUS
  <1> QED BY <1>1

\* A signal of four codes, sized to six tenths of the screen, is off the rails of
\* the step that is nearest.
LEMMA FitsTheGrid ==
    ASSUME NEW vpp \in Nat, 16 <= vpp, NEW size \in Nat, 4 <= size, NEW x \in Int,
           \/ 25 * size >= (5 * vpp) \div 24
           \/ (5 * vpp) \div 24 > 100 /\ 1581 * (25 * size) >= 1000 * ((5 * vpp) \div 24),
           4 * (2 * x) <= 5 * vpp + 4, -(5 * vpp + 4) <= 4 * (2 * x)
    PROVE  ~CodeAtRail(Clamp((2 * x + size) \div (2 * size) + 127, 0, 255))
  <1>1. PICK fit \in Nat : fit = (5 * vpp) \div 24 /\ 24 * fit <= 5 * vpp /\ 5 * vpp <= 24 * fit + 23
    OBVIOUS
  <1>2. fit >= 3
    BY <1>1
  <1>3. 4 * (2 * x) <= 24 * fit + 27 /\ -(24 * fit + 27) <= 4 * (2 * x)
    BY <1>1
  <1>4. 24 * fit + 27 <= 4 * (251 * size)
    <2>1. CASE 25 * size >= fit
      BY <1>2, <2>1
    <2>2. CASE fit > 100 /\ 1581 * (25 * size) >= 1000 * fit
      BY <2>2
    <2> QED BY <1>1, <2>1, <2>2
  <1>5. -251 * size <= 2 * x /\ 2 * x <= 251 * size
    BY <1>3, <1>4
  <1> DEFINE y == 2 * x + size
             d == 2 * size
  <1>6. d \in Nat \ {0} /\ y \in Int /\ d * (-125) <= y /\ y < d * 127
    BY <1>5
  <1> HIDE DEF y, d
  <1>7. -125 <= y \div d /\ y \div d < 127 /\ y \div d \in Int
    BY <1>6, QuotientBetween, Division
  <1>8. Clamp(y \div d + 127, 0, 255) = y \div d + 127
    BY <1>7 DEF Clamp
  <1>9. ~CodeAtRail(y \div d + 127)
    BY <1>7 DEF CodeAtRail
  <1> QED BY <1>8, <1>9 DEF y, d

\* A signal of ten steps, sized to six tenths of the screen, is off the rails of the
\* simulated scope.
LEMMA FitsTheScreen ==
    ASSUME NEW lo \in Int, NEW hi \in Int, 10 <= hi - lo, NEW v \in {lo, hi},
           NEW setup \in Setup, setup.scale = (5 * (hi - lo)) \div 24, setup.offset = -((hi + lo) \div 2)
    PROVE  ~SimAtRail(setup, v)
  <1>1. PICK fit \in Nat : fit = (5 * (hi - lo)) \div 24 /\ 5 * (hi - lo) <= 24 * fit + 23 /\ fit >= 2
    OBVIOUS
  <1>2. PICK mid \in Int : mid = (hi + lo) \div 2 /\ 2 * mid <= hi + lo /\ hi + lo <= 2 * mid + 1
    OBVIOUS
  <1>3. PICK half \in Nat : half = (51 * fit) \div 10 /\ 51 * fit <= 10 * half + 9
    BY <1>1
  <1>4. PICK cut \in Nat : cut = half \div 100 /\ 100 * cut <= half
    BY <1>3
  <1>5. SimHalf(setup) = half /\ setup.offset = -mid
    BY <1>1, <1>2, <1>3 DEF SimHalf
  <1>6. 2 * (v - mid) <= hi - lo + 1 /\ -(hi - lo + 1) <= 2 * (v - mid)
    BY <1>2
  <1>7. hi - lo + 1 < 2 * (half - cut)
    <2>1. 5 * (hi - lo + 1) <= 24 * fit + 28
      BY <1>1
    <2>2. 24 * fit + 28 < 10 * (half - cut)
      BY <1>1, <1>3, <1>4
    <2> QED BY <1>3, <1>4, <2>1, <2>2
  <1>8. v - mid < half - cut /\ -(half - cut) < v - mid
    BY <1>2, <1>3, <1>4, <1>6, <1>7
  <1> QED BY <1>2, <1>3, <1>4, <1>5, <1>8 DEF SimAtRail

\* What is off the rails of the simulated scope is shown as it is.
LEMMA ShownAsIs ==
    ASSUME NEW setup \in Setup, NEW v \in Int, ~SimAtRail(setup, v)
    PROVE  SimSample(setup, v) = v
  <1>1. PICK half \in Nat : half = SimHalf(setup)
    BY DEF SimHalf, Setup
  <1>2. PICK cut \in Nat : cut = half \div 100 /\ 100 * cut <= half
    BY <1>1
  <1>3. v + setup.offset < half - cut /\ -(half - cut) < v + setup.offset /\ setup.offset \in Int
    BY <1>1, <1>2 DEF SimAtRail, Setup
  <1>4. -setup.offset - half <= v /\ v <= -setup.offset + half
    BY <1>2, <1>3
  <1> QED BY <1>1, <1>3, <1>4 DEF SimSample, Clamp

\* Which voltages are at a rail depends on the scale and the offset alone.
LEMMA SameRails ==
    ASSUME NEW a \in Setup, NEW b \in Setup, a.scale = b.scale, a.offset = b.offset, NEW v
    PROVE  AtRail(a, v) = AtRail(b, v)
  BY DEF AtRail, SimAtRail, SimHalf, Code, CodeSize

\* A level that a frame shows off the rails is off the rails when the loop has
\* zoomed in on that frame.
LEMMA ZoomedLevel ==
    ASSUME source \in LoopSignals, NEW here \in Setup, Digitises => here.scale \in Scales,
           NEW f \in Judgement, NEW triggered \in BOOLEAN, f = JudgeCapture(here, triggered),
           Swing(f) >= IF Digitises THEN 4 * CodeSize(here) ELSE 10,
           NEW next \in Setup, next.scale = Fitting(f), next.offset = -Midline(f),
           next.scale < here.scale, Apply(next).offset = next.offset,
           NEW v \in {source.lo, source.hi}, ~AtRail(here, v)
    PROVE  ~AtRail(Apply(next), v)
  <1> DEFINE lo == source.lo
             hi == source.hi
  <1>1. lo \in Int /\ hi \in Int /\ lo <= hi /\ v \in Int
    BY LoopSignalAssumption
  <1>2. /\ f.vmin = Sample(here, lo) /\ f.vmax = Sample(here, hi) /\ f.vmin \in Int /\ f.vmax \in Int
        /\ f.vmin <= f.vmax
    BY <1>1, JudgedTyped, SamplesGrow
  <1>3. Fitting(f) = (5 * (f.vmax - f.vmin)) \div 24 /\ Midline(f) = (f.vmax + f.vmin) \div 2
        /\ Swing(f) = f.vmax - f.vmin
    BY DEF Fitting, Midline, Swing
  <1>4. Apply(next) \in Setup
    BY Applies
  <1>5. CASE Digitises
    <2> DEFINE size == CodeSize(here)
               new == Apply(next)
               fine == CodeSize(new)
    <2>1. size \in Nat /\ 4 <= size /\ 4 * size <= f.vmax - f.vmin
      BY <1>3, <1>5, CodeSizes
    <2>2. new.scale \in Scales /\ new.scale = Snap(next.scale, Scales) /\ new.offset = -Midline(f)
      BY <1>5, Applies
    <2>3. fine \in Nat /\ 4 <= fine /\ new.scale = 25 * fine
      BY <1>4, <2>2, CodeSizes
    <2>4. \/ 25 * fine >= Fitting(f)
          \/ Fitting(f) > 100 /\ 1581 * (25 * fine) >= 1000 * Fitting(f)
      <3>1. next.scale <= Max(Scales)
        <4>1. here.scale <= Max(Scales) /\ here.scale \in Nat /\ Max(Scales) \in Nat
          BY <1>5, ScalesFacts, StepsBounded
        <4> QED BY <4>1 DEF Setup
      <3>2. next.scale \in Int
        BY DEF Setup
      <3>3. \/ Snap(next.scale, Scales) >= next.scale
            \/ next.scale > 100 /\ 1581 * Snap(next.scale, Scales) >= 1000 * next.scale
        BY <3>1, <3>2, ScalesFacts, SnapFacts
      <3> QED BY <2>2, <2>3, <3>3
    <2>5. \/ 2 * (f.vmin - v) <= size /\ -size <= 2 * (f.vmin - v)
          \/ 2 * (f.vmax - v) <= size /\ -size <= 2 * (f.vmax - v)
      <3>1. ~CodeAtRail(Code(here, v))
        BY <1>5 DEF AtRail
      <3>2. LET off == CodeVolts(here, Code(here, v)) - v IN 2 * off <= size /\ -size <= 2 * off
        BY <1>1, <1>5, <3>1, Codes
      <3>3. Sample(here, v) = CodeVolts(here, Code(here, v))
        BY <1>5 DEF Sample
      <3>4. Sample(here, v) = f.vmin \/ Sample(here, v) = f.vmax
        BY <1>2
      <3> HIDE DEF size
      <3> QED BY <3>2, <3>3, <3>4
    <2> DEFINE x == v - Midline(f)
    <2>6. 4 * (2 * x) <= 5 * (f.vmax - f.vmin) + 4 /\ -(5 * (f.vmax - f.vmin) + 4) <= 4 * (2 * x)
      <3> HIDE DEF size
      <3> QED BY <1>1, <1>2, <1>3, <2>1, <2>5, FromMidline
    <2>7. x \in Int /\ f.vmax - f.vmin \in Nat /\ 16 <= f.vmax - f.vmin
      <3> HIDE DEF size
      <3> QED BY <1>1, <1>2, <1>3, <2>1
    <2> HIDE DEF size, fine, x
    <2>8. ~CodeAtRail(Clamp((2 * x + fine) \div (2 * fine) + 127, 0, 255))
      <3>1. PICK vpp : vpp = f.vmax - f.vmin
        OBVIOUS
      <3>2. vpp \in Nat /\ 16 <= vpp /\ 4 * (2 * x) <= 5 * vpp + 4 /\ -(5 * vpp + 4) <= 4 * (2 * x)
        BY <2>6, <2>7, <3>1
      <3>3. \/ 25 * fine >= (5 * vpp) \div 24
            \/ (5 * vpp) \div 24 > 100 /\ 1581 * (25 * fine) >= 1000 * ((5 * vpp) \div 24)
        <4>1. Fitting(f) = (5 * vpp) \div 24
          BY <1>3, <3>1
        <4> QED BY <2>4, <4>1
      <3>4. fine \in Nat /\ 4 <= fine /\ x \in Int
        BY <2>3, <2>7
      <3> HIDE DEF new
      <3> QED BY <3>2, <3>3, <3>4, FitsTheGrid, ZenonT(60)
    <2>9. Code(new, v) = Clamp((2 * x + fine) \div (2 * fine) + 127, 0, 255)
      <3>1. v + new.offset = x
        BY <1>1, <1>2, <1>3, <2>2 DEF x
      <3> HIDE DEF new
      <3> QED BY <3>1 DEF Code, fine
    <2> QED BY <1>5, <2>8, <2>9 DEF AtRail
  <1>6. CASE ~Digitises
    <2>1. Apply(next) = next
      BY <1>6, Applies
    <2>2. \A u \in Int : ~AtRail(here, u) => ~SimAtRail(here, u) /\ Sample(here, u) = u
      BY <1>6, ShownAsIs DEF AtRail, Sample
    <2>3. v \in {f.vmin, f.vmax} /\ 10 <= f.vmax - f.vmin
      BY <1>1, <1>2, <1>3, <1>6, <2>2
    <2>4. ~SimAtRail(next, v)
      BY <1>2, <1>3, <2>3, FitsTheScreen
    <2> QED BY <1>6, <2>1, <2>4 DEF AtRail
  <1> QED BY <1>5, <1>6

\* Nothing clips when the loop has zoomed in.
LEMMA ZoomFits ==
    ASSUME source \in LoopSignals, NEW old \in Setup, NEW here, here = Apply(old),
           NEW triggered \in BOOLEAN, NEW f, f = JudgeCapture(here, triggered), ~f.clipping,
           NEW next, next = Suggest(old, f), next.scale < here.scale,
           Swing(f) >= IF Digitises THEN 4 * CodeSize(here) ELSE 10,
           Apply(next).offset = next.offset, NEW later \in BOOLEAN
    PROVE  ~JudgeCapture(Apply(next), later).clipping
  <1>1. here \in Setup /\ (Digitises => here.scale \in Scales)
    BY Applies
  <1>2. f \in Judgement /\ f.vmin <= f.vmax
        /\ f.clipping = (AtRail(here, source.lo) \/ (AtRail(here, source.hi) /\ ~source.brief))
    BY <1>1, JudgedTyped
  <1>3. next \in Setup /\ next.scale = Vertical(old, f).scale /\ next.offset = Vertical(old, f).offset
    BY <1>2, Suggestions
  <1>4. Apply(next) \in Setup /\ (Digitises => Apply(next).scale \in Scales)
    BY <1>3, Applies
  <1>5. JudgeCapture(Apply(next), later).clipping
           = (AtRail(Apply(next), source.lo) \/ (AtRail(Apply(next), source.hi) /\ ~source.brief))
    BY <1>4, JudgedTyped
  <1>6. CASE Vertical(old, f) = old
    <2>1. Digitises
      BY <1>3, <1>6, Applies DEF Setup
    <2>2. Apply(next).scale = here.scale /\ Apply(next).offset = here.offset
      BY <1>3, <1>6, <2>1, Applies
    <2>3. \A v \in {source.lo, source.hi} : AtRail(Apply(next), v) = AtRail(here, v)
      BY <1>1, <1>4, <2>2, SameRails
    <2> QED BY <1>2, <1>5, <2>3
  <1>7. CASE Vertical(old, f) # old
    <2>1. Vertical(old, f) = Centred(old, f, Fitting(f))
      BY <1>7 DEF Vertical
    <2>2. next.scale = Fitting(f) /\ next.offset = -Midline(f)
      BY <1>3, <2>1 DEF Centred, Setup
    <2>3. ASSUME NEW v \in {source.lo, source.hi}, ~AtRail(here, v) PROVE ~AtRail(Apply(next), v)
      BY <1>1, <1>2, <1>3, <2>2, <2>3, ZoomedLevel
    <2> QED BY <1>2, <1>5, <2>3
  <1> QED BY <1>6, <1>7

-----------------------------------------------------------------------------
(* The invariant. *)

Typed ==
    /\ place \in {"measure", "measured", "apply", "applied", "converge", "judge", "done"}
    /\ source \in LoopSignals /\ instrument \in Instruments
    /\ want \in Setup /\ applied \in Setup /\ judged \in Judgement /\ tries \in Nat
    /\ judged.vmin <= judged.vmax
    /\ Digitises /\ judged # NotJudged => applied.scale \in Scales

\* autoset widens MaxWiden times and applies its recommendation once.
TriesBounded ==
    /\ place \in {"measure", "measured"} => tries <= MaxWiden
    /\ place \in {"converge", "judge"} => tries <= MaxIterations
    /\ place \in {"apply", "applied"} => tries <= MaxWiden + 1
    /\ place = "done" => tries <= MaxIterations \/ tries <= MaxWiden + 1

\* The frame that is judged is of the setup the loop is at.
JudgesItsSetup ==
    place = "judge" =>
        applied = Apply(want) /\ \E triggered \in BOOLEAN : judged = JudgeCapture(applied, triggered)

\* The setup that is tried next was suggested for the one before, on its frame.
SuggestedOnFrame ==
    place = "converge" /\ judged # NotJudged =>
        \E old \in Setup, triggered \in BOOLEAN :
            applied = Apply(old) /\ judged = JudgeCapture(applied, triggered) /\ want = Suggest(old, judged)

ConvergeInv == Typed /\ TriesBounded /\ JudgesItsSetup /\ SuggestedOnFrame

\* A setup that is given another scale and no offset is a setup.
LEMMA Levelled ==
    ASSUME NEW setup \in Setup, NEW scale \in Nat
    PROVE  [setup EXCEPT !.scale = scale, !.offset = 0] \in Setup
  <1>1. PICK offset \in Int : offset = 0
    OBVIOUS
  <1>2. [setup EXCEPT !.scale = scale, !.offset = offset] \in Setup
    BY DEF Setup
  <1> QED BY <1>1, <1>2, Zenon

\* It holds at the start.
LEMMA InvariantAtFirst == LoopInit => ConvergeInv
  <1> SUFFICES ASSUME LoopInit PROVE ConvergeInv
    OBVIOUS
  <1>1. PICK setup \in LoopSetups :
           \/ place = "converge" /\ want = setup
           \/ place = "measure" /\ want = [setup EXCEPT !.scale = WideScale, !.offset = 0]
    BY DEF LoopInit
  <1>2. setup \in Setup /\ WideScale \in Nat
    BY SetupAssumption, LoopAssumption
  <1>3. want \in Setup
    <2>1. [setup EXCEPT !.scale = WideScale, !.offset = 0] \in Setup
      BY <1>2, Levelled
    <2> QED BY <1>1, <1>2, <2>1
  <1>4. NotJudged \in Judgement /\ NotJudged.vmin <= NotJudged.vmax
    BY DEF NotJudged, Judgement
  <1>5. Typed
    BY <1>1, <1>3, <1>4 DEF LoopInit, Typed
  <1>6. TriesBounded
    BY <1>1, LoopAssumption DEF LoopInit, TriesBounded
  <1>7. JudgesItsSetup /\ SuggestedOnFrame
    BY <1>1 DEF LoopInit, JudgesItsSetup, SuggestedOnFrame
  <1> QED BY <1>5, <1>6, <1>7 DEF ConvergeInv

\* A frame is taken of the setup the loop is at.
LEMMA InvariantAcquire ==
    ASSUME ConvergeInv, NEW here, NEW next,
           \/ here = "measure" /\ next = "measured"
           \/ here = "apply" /\ next = "applied"
           \/ here = "converge" /\ next = "judge",
           LoopAcquire(here, next)
    PROVE  ConvergeInv'
  <1>1. /\ place = here /\ place' = next /\ applied' = Apply(want)
        /\ source' = source /\ instrument' = instrument /\ want' = want /\ tries' = tries
    BY DEF LoopAcquire
  <1>2. PICK triggered \in BOOLEAN : judged' = JudgeCapture(Apply(want), triggered)
    <2>1. PICK triggered \in Triggered : judged' = JudgeCapture(applied', triggered)
      BY DEF LoopAcquire
    <2>2. triggered \in BOOLEAN
      BY DEF Triggered
    <2>3. judged' = JudgeCapture(Apply(want), triggered)
      BY <1>1, <2>1
    <2> QED BY <2>2, <2>3
  <1>3. source \in LoopSignals /\ instrument \in Instruments /\ want \in Setup /\ tries \in Nat
    BY DEF ConvergeInv, Typed
  <1>4. Apply(want) \in Setup /\ (Digitises => Apply(want).scale \in Scales)
    BY <1>3, Applies
  <1>5. judged' \in Judgement /\ judged'.vmin <= judged'.vmax
    BY <1>3, <1>4, <1>2, JudgedTyped
  <1>6. Typed'
    BY <1>1, <1>3, <1>4, <1>5 DEF Typed, Digitises
  <1>7. TriesBounded'
    BY <1>1 DEF ConvergeInv, TriesBounded
  <1>8. Apply(want)' = Apply(want)
    BY <1>1 DEF Apply, Digitises
  <1>9. JudgeCapture(applied, triggered)' = JudgeCapture(Apply(want), triggered)
    BY <1>1 DEF JudgeCapture, Sample, AtRail, Beat, Digitises
  <1>10. JudgesItsSetup'
    BY <1>1, <1>2, <1>8, <1>9 DEF JudgesItsSetup
  <1>11. SuggestedOnFrame'
    BY <1>1 DEF SuggestedOnFrame
  <1> QED BY <1>6, <1>7, <1>10, <1>11 DEF ConvergeInv

\* autoset widens, or goes on to the setup it recommends.
LEMMA InvariantAutoset ==
    ASSUME ConvergeInv, Widen \/ ApplyRecommended
    PROVE  ConvergeInv'
  <1>1. /\ source \in LoopSignals /\ instrument \in Instruments /\ want \in Setup /\ applied \in Setup
        /\ judged \in Judgement /\ judged.vmin <= judged.vmax /\ tries \in Nat
        /\ Digitises /\ judged # NotJudged => applied.scale \in Scales
    BY DEF ConvergeInv, Typed
  <1>2. PICK setup \in Setup : (Try("measure", setup) /\ tries < MaxWiden) \/ Try("apply", setup)
    <2>1. CASE Widen
      <3>1. 4 * want.scale \in Nat
        BY <1>1 DEF Setup
      <3>2. [want EXCEPT !.scale = 4 * want.scale, !.offset = 0] \in Setup
        BY <1>1, <3>1, Levelled
      <3> QED BY <2>1, <3>2 DEF Widen
    <2>2. CASE ApplyRecommended
      <3>1. Recommend(want, judged) \in Setup
        BY <1>1, Suggestions
      <3> QED BY <2>2, <3>1 DEF ApplyRecommended
    <2> QED BY <2>1, <2>2
  <1>3. /\ place = "measured" /\ place' \in {"measure", "apply"} /\ want' = setup /\ tries' = tries + 1
        /\ source' = source /\ instrument' = instrument /\ applied' = applied /\ judged' = judged
    BY <1>2 DEF Widen, ApplyRecommended, Try
  <1>4. Typed'
    BY <1>1, <1>2, <1>3 DEF Typed, Digitises
  <1>5. TriesBounded'
    <2>1. tries <= MaxWiden /\ (place' = "measure" => tries < MaxWiden)
      BY <1>2, <1>3 DEF ConvergeInv, TriesBounded, Try
    <2> QED BY <1>1, <1>3, <2>1, LoopAssumption DEF TriesBounded
  <1>6. JudgesItsSetup' /\ SuggestedOnFrame'
    BY <1>3 DEF JudgesItsSetup, SuggestedOnFrame
  <1> QED BY <1>4, <1>5, <1>6 DEF ConvergeInv

\* converge goes on to the setup that is suggested.
LEMMA InvariantAdjust ==
    ASSUME ConvergeInv, Adjust
    PROVE  ConvergeInv'
  <1>1. /\ source \in LoopSignals /\ instrument \in Instruments /\ want \in Setup /\ applied \in Setup
        /\ judged \in Judgement /\ judged.vmin <= judged.vmax /\ tries \in Nat
        /\ Digitises /\ judged # NotJudged => applied.scale \in Scales
    BY DEF ConvergeInv, Typed
  <1>2. /\ place = "judge" /\ tries < MaxIterations
        /\ place' = "converge" /\ want' = Suggest(want, judged) /\ tries' = tries + 1
        /\ source' = source /\ instrument' = instrument /\ applied' = applied /\ judged' = judged
    BY DEF Adjust, Try
  <1>3. Suggest(want, judged) \in Setup
    BY <1>1, Suggestions
  <1>4. Typed'
    BY <1>1, <1>2, <1>3 DEF Typed, Digitises
  <1>5. TriesBounded'
    BY <1>1, <1>2, LoopAssumption DEF TriesBounded
  <1>6. PICK triggered \in BOOLEAN : applied = Apply(want) /\ judged = JudgeCapture(applied, triggered)
    BY <1>2 DEF ConvergeInv, JudgesItsSetup
  <1>7. SuggestedOnFrame'
    <2>1. \A old : Apply(old)' = Apply(old)
      BY <1>2 DEF Apply, Digitises
    <2>2. JudgeCapture(applied, triggered)' = JudgeCapture(applied, triggered)
      BY <1>2 DEF JudgeCapture, Sample, AtRail, Beat, Digitises
    <2>3. PICK old \in Setup : old = want
      BY <1>1
    <2>4. /\ applied' = Apply(old)' /\ judged' = JudgeCapture(applied, triggered)'
          /\ want' = Suggest(old, judged)'
      BY <1>2, <1>6, <2>1, <2>2, <2>3
    <2> QED BY <2>4 DEF SuggestedOnFrame
  <1>8. JudgesItsSetup'
    BY <1>2 DEF JudgesItsSetup
  <1> QED BY <1>4, <1>5, <1>7, <1>8 DEF ConvergeInv

\* A loop that returns leaves the rest as it was.
LEMMA InvariantReturn ==
    ASSUME ConvergeInv, Return
    PROVE  ConvergeInv'
  <1>1. /\ place \in {"applied", "judge"} /\ place' = "done"
        /\ source' = source /\ instrument' = instrument /\ want' = want /\ applied' = applied
        /\ judged' = judged /\ tries' = tries
    BY DEF Return
  <1>2. Typed'
    BY <1>1 DEF ConvergeInv, Typed, Digitises
  <1>3. TriesBounded'
    BY <1>1 DEF ConvergeInv, TriesBounded
  <1>4. JudgesItsSetup' /\ SuggestedOnFrame'
    BY <1>1 DEF JudgesItsSetup, SuggestedOnFrame
  <1> QED BY <1>2, <1>3, <1>4 DEF ConvergeInv

\* Every step keeps the invariant.
LEMMA InvariantKept == ConvergeInv /\ [LoopNext]_loopVars => ConvergeInv'
  <1> SUFFICES ASSUME ConvergeInv, [LoopNext]_loopVars PROVE ConvergeInv'
    OBVIOUS
  <1>1. CASE LoopAcquire("measure", "measured")
    BY <1>1, InvariantAcquire
  <1>2. CASE LoopAcquire("apply", "applied")
    BY <1>2, InvariantAcquire
  <1>3. CASE LoopAcquire("converge", "judge")
    BY <1>3, InvariantAcquire
  <1>4. CASE Widen \/ ApplyRecommended
    BY <1>4, InvariantAutoset
  <1>5. CASE Adjust
    BY <1>5, InvariantAdjust
  <1>6. CASE Return
    BY <1>6, InvariantReturn
  <1>7. CASE UNCHANGED loopVars
    <2>1. /\ place' = place /\ source' = source /\ instrument' = instrument /\ want' = want
          /\ applied' = applied /\ judged' = judged /\ tries' = tries
      BY <1>7 DEF loopVars
    <2>2. Typed' /\ TriesBounded'
      BY <2>1 DEF ConvergeInv, Typed, TriesBounded, Digitises
    <2>3. /\ \A setup : Apply(setup)' = Apply(setup)
          /\ Apply(want)' = Apply(want)
          /\ \A triggered : JudgeCapture(applied, triggered)' = JudgeCapture(applied, triggered)
      BY <2>1 DEF Apply, JudgeCapture, Sample, AtRail, Beat, Digitises
    <2>4. JudgesItsSetup'
      BY <2>1, <2>3 DEF ConvergeInv, JudgesItsSetup
    <2>5. SuggestedOnFrame'
      <3>1. ASSUME place' = "converge" /\ judged' # NotJudged
            PROVE  \E old \in Setup, triggered \in BOOLEAN :
                      /\ applied' = Apply(old)' /\ judged' = JudgeCapture(applied, triggered)'
                      /\ want' = Suggest(old, judged)'
        <4>1. PICK old \in Setup, triggered \in BOOLEAN :
                 /\ applied = Apply(old) /\ judged = JudgeCapture(applied, triggered)
                 /\ want = Suggest(old, judged)
          BY <2>1, <3>1 DEF ConvergeInv, SuggestedOnFrame
        <4>2. Suggest(old, judged)' = Suggest(old, judged)
          BY <2>1
        <4> QED BY <2>1, <2>3, <4>1, <4>2
      <3> QED BY <3>1 DEF SuggestedOnFrame
    <2> QED BY <2>2, <2>4, <2>5 DEF ConvergeInv
  <1>8. CASE Finished
    BY <1>7, <1>8 DEF Finished
  <1> QED BY <1>1, <1>2, <1>3, <1>4, <1>5, <1>6, <1>7, <1>8 DEF LoopNext

-----------------------------------------------------------------------------
(* What the loops keep. *)

\* The invariant holds of every run.
THEOREM ConvergeInvariance == LoopSpec => []ConvergeInv
  BY InvariantAtFirst, InvariantKept, PTL DEF LoopSpec

\* A setup is always a setup, a frame never upside down, and the loops stop at their
\* bounds; the DS1054Z only ever gets a step of its grid (ds1054z.py:118).
THEOREM ConvergeTypes == LoopSpec => []LoopTypeOK
  <1>1. ConvergeInv => LoopTypeOK
    <2> SUFFICES ASSUME ConvergeInv PROVE LoopTypeOK
      OBVIOUS
    <2>1. MaxIterations \in Int /\ MaxWiden + 1 \in Int
      BY LoopAssumption
    <2>2. Max({MaxIterations, MaxWiden + 1})
             = IF MaxIterations >= MaxWiden + 1 THEN MaxIterations ELSE MaxWiden + 1
      BY <2>1, MaxOfTwo
    <2>3. tries <= Max({MaxIterations, MaxWiden + 1})
      <3>1. tries <= MaxIterations \/ tries <= MaxWiden + 1
        BY LoopAssumption DEF ConvergeInv, Typed, TriesBounded
      <3>2. tries \in Int
        BY DEF ConvergeInv, Typed
      <3> QED BY <2>1, <2>2, <3>1, <3>2
    <2> QED BY <2>3 DEF ConvergeInv, Typed, LoopTypeOK, Digitises
  <1> QED BY <1>1, ConvergeInvariance, PTL

\* A step that zooms in shows the signal off the rails.
LEMMA ZoomStep ==
    ConvergeInv /\ [LoopNext]_loopVars =>
        [ZoomsIn /\ Resolved /\ applied'.offset = want.offset => ~judged'.clipping]_loopVars
  <1> SUFFICES ASSUME ConvergeInv, LoopNext, ZoomsIn, Resolved, applied'.offset = want.offset,
                      loopVars' # loopVars
               PROVE  ~judged'.clipping
    BY DEF loopVars
  <1>1. LoopAcquire("converge", "judge")
    BY DEF LoopNext, ZoomsIn, LoopAcquire, Widen, ApplyRecommended, Adjust, Return, Finished
  <1>2. applied' = Apply(want) /\ \E later \in BOOLEAN : judged' = JudgeCapture(Apply(want), later)
    BY <1>1 DEF LoopAcquire, Triggered
  <1>3. PICK old \in Setup, triggered \in BOOLEAN :
           applied = Apply(old) /\ judged = JudgeCapture(applied, triggered) /\ want = Suggest(old, judged)
    BY DEF ZoomsIn, ConvergeInv, SuggestedOnFrame
  <1>4. /\ source \in LoopSignals /\ ~judged.clipping /\ want.scale < applied.scale
        /\ Swing(judged) >= IF Digitises THEN 4 * CodeSize(applied) ELSE 10
        /\ Apply(want).offset = want.offset
    BY <1>2 DEF ZoomsIn, Resolved, ConvergeInv, Typed
  <1>5. \A later \in BOOLEAN : ~JudgeCapture(Apply(want), later).clipping
    BY <1>3, <1>4, ZoomFits
  <1> QED BY <1>2, <1>5

\* Zooming in never pushes a signal off the screen that the frame resolves, for every
\* signal, setup and probe, where the instrument takes the offset: rounding to a code
\* and to the nearest step of the grid together stay within the room that filling six
\* tenths of the screen leaves (adjust.py:60, ds1054z.py:354).
THEOREM ZoomInView == LoopSpec => ZoomStaysInView
  BY ConvergeInvariance, ZoomStep, PTL DEF LoopSpec, ZoomStaysInView
=============================================================================
