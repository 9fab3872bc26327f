--------------------------- MODULE SimScopeProofs ---------------------------
(***************************************************************************)
(* Proofs about SimScope, for every signal that is at or above a trigger   *)
(* level for one stretch of its period, every setup, every noise of whole  *)
(* steps, every length of a record and every number of polls.              *)
(***************************************************************************)
EXTENDS SimScope, FiniteSetTheorems, WellFoundedInduction, TLAPS

-----------------------------------------------------------------------------
(* Numbers, and the least and the greatest of a set of them. *)

\* Floor division and its remainder.
LEMMA Division ==
    ASSUME NEW x \in Int, NEW d \in Nat \ {0}
    PROVE  x \div d \in Int /\ x % d \in 0..(d - 1) /\ x = d * (x \div d) + (x % d)
  OBVIOUS

\* The ticks of the second period repeat those of the first.
LEMMA Wraps ==
    ASSUME NEW p \in Nat \ {0}, NEW t \in 0..(2 * p - 1)
    PROVE  t % p = (IF t < p THEN t ELSE t - p) /\ t % p \in 0..(p - 1)
  OBVIOUS

\* A finite set of numbers that is not empty has a greatest one, and Max is it.
LEMMA MaxIsGreatest ==
    ASSUME NEW S \in SUBSET Int, S # {}, IsFiniteSet(S)
    PROVE  Max(S) \in S /\ \A n \in S : n <= Max(S)
  <1> DEFINE Over(x) == {y \in S : y > x}
             T == {Over(x) : x \in S}
  <1>1. T \subseteq FiniteSubsetsOf(S) /\ T # {}
    <2>1. \A x \in S : Over(x) \in SUBSET S /\ IsFiniteSet(Over(x))
      BY FS_Subset
    <2> QED BY <2>1 DEF FiniteSubsetsOf
  <1>2. PICK t \in T : \A u \in T : ~ (<<u, t>> \in StrictSubsetOrdering(S))
    <2> HIDE DEF T
    <2> QED BY <1>1, FS_StrictSubsetOrderingWellFounded, WFMin
  <1>3. PICK x \in S : t = Over(x)
    OBVIOUS
  <1>4. ASSUME NEW y \in S, y > x PROVE FALSE
    <2>1. x \in Int /\ y \in Int /\ \A z \in S : z \in Int
      OBVIOUS
    <2>2. Over(y) \in T /\ Over(y) \subseteq Over(x) /\ y \in Over(x) /\ y \notin Over(y)
      <3>1. \A z \in S : z > y => z > x
        BY <1>4, <2>1
      <3>2. y > x /\ ~ (y > y)
        BY <1>4, <2>1
      <3>3. Over(y) \in T
        OBVIOUS
      <3> HIDE DEF T
      <3> QED BY <3>1, <3>2, <3>3
    <2>3. <<Over(y), t>> \in StrictSubsetOrdering(S)
      <3>1. Over(y) \in SUBSET S /\ t \in SUBSET S /\ Over(y) \subseteq t /\ Over(y) # t
        BY <2>2, <1>3
      <3> HIDE DEF Over
      <3> QED BY <3>1 DEF StrictSubsetOrdering
    <2> QED BY <2>2, <2>3, <1>2
  <1>5. ASSUME NEW y \in S PROVE y <= x
    <2>1. y \in Int /\ x \in Int
      OBVIOUS
    <2> QED BY <2>1, <1>4
  <1> QED BY <1>5 DEF Max

\* A set of numbers that is not empty and has finitely many of them has a least
\* one, and Min is it.
LEMMA MinIsLeast ==
    ASSUME NEW S \in SUBSET Int, S # {}, IsFiniteSet(S)
    PROVE  Min(S) \in S /\ \A n \in S : Min(S) <= n
  <1> DEFINE Under(x) == {y \in S : y < x}
             T == {Under(x) : x \in S}
  <1>1. T \subseteq FiniteSubsetsOf(S) /\ T # {}
    <2>1. \A x \in S : Under(x) \in SUBSET S /\ IsFiniteSet(Under(x))
      BY FS_Subset
    <2> QED BY <2>1 DEF FiniteSubsetsOf
  <1>2. PICK t \in T : \A u \in T : ~ (<<u, t>> \in StrictSubsetOrdering(S))
    <2> HIDE DEF T
    <2> QED BY <1>1, FS_StrictSubsetOrderingWellFounded, WFMin
  <1>3. PICK x \in S : t = Under(x)
    OBVIOUS
  <1>4. ASSUME NEW y \in S, y < x PROVE FALSE
    <2>1. x \in Int /\ y \in Int /\ \A z \in S : z \in Int
      OBVIOUS
    <2>2. Under(y) \in T /\ Under(y) \subseteq Under(x) /\ y \in Under(x) /\ y \notin Under(y)
      <3>1. \A z \in S : z < y => z < x
        BY <1>4, <2>1
      <3>2. y < x /\ ~ (y < y)
        BY <1>4, <2>1
      <3>3. Under(y) \in T
        OBVIOUS
      <3> HIDE DEF T
      <3> QED BY <3>1, <3>2, <3>3
    <2>3. <<Under(y), t>> \in StrictSubsetOrdering(S)
      <3>1. Under(y) \in SUBSET S /\ t \in SUBSET S /\ Under(y) \subseteq t /\ Under(y) # t
        BY <2>2, <1>3
      <3> HIDE DEF Under
      <3> QED BY <3>1 DEF StrictSubsetOrdering
    <2> QED BY <2>2, <2>3, <1>2
  <1>5. ASSUME NEW y \in S PROVE x <= y
    <2>1. y \in Int /\ x \in Int
      OBVIOUS
    <2> QED BY <2>1, <1>4
  <1> QED BY <1>5 DEF Min

\* Of two numbers Max takes the greater.
LEMMA MaxOfTwo ==
    ASSUME NEW a \in Int, NEW b \in Int
    PROVE  Max({a, b}) = IF a >= b THEN a ELSE b
  <1>1. {a, b} \in SUBSET Int /\ {a, b} # {} /\ IsFiniteSet({a, b})
    <2>1. IsFiniteSet({a}) /\ {a, b} = {a} \cup {b}
      BY FS_Singleton
    <2>2. IsFiniteSet({a} \cup {b})
      BY <2>1, FS_AddElement
    <2> QED BY <2>1, <2>2
  <1>2. Max({a, b}) \in {a, b} /\ \A n \in {a, b} : n <= Max({a, b})
    BY <1>1, MaxIsGreatest
  <1> QED BY <1>2

\* No value of an array is greater in magnitude than the greatest magnitude of it.
LEMMA NoiseBound ==
    ASSUME NEW f, IsArray(f)
    PROVE  LET limit == Max({Magnitude(v) : v \in {f[k] : k \in DOMAIN f}})
           IN  limit \in Nat /\ \A k \in DOMAIN f : f[k] \in Int /\ -limit <= f[k] /\ f[k] <= limit
  <1> DEFINE n == Cardinality(DOMAIN f)
             S == {Magnitude(v) : v \in {f[k] : k \in DOMAIN f}}
             g == [k \in DOMAIN f |-> Magnitude(f[k])]
  <1>1. n \in Nat \ {0} /\ DOMAIN f = 0..(n - 1) /\ \A k \in DOMAIN f : f[k] \in Int
    BY DEF IsArray
  <1>2. \A k \in DOMAIN f : Magnitude(f[k]) \in Nat /\ -Magnitude(f[k]) <= f[k] /\ f[k] <= Magnitude(f[k])
    BY <1>1 DEF Magnitude
  <1>3. IsFiniteSet(DOMAIN f) /\ 0 \in DOMAIN f
    <2> HIDE DEF n
    <2> QED BY <1>1, FS_Interval
  <1>4. S = {Magnitude(f[k]) : k \in DOMAIN f}
    OBVIOUS
  <1>5. g \in Surjection(DOMAIN f, S)
    BY <1>4 DEF Surjection
  <1>6. S \in SUBSET Int /\ S # {} /\ IsFiniteSet(S)
    <2>1. IsFiniteSet(S)
      <3> HIDE DEF S, g
      <3> QED BY <1>3, <1>5, FS_Surjection
    <2> QED BY <2>1, <1>2, <1>3, <1>4
  <1>7. Max(S) \in S /\ \A m \in S : m <= Max(S)
    <2> HIDE DEF S
    <2> QED BY <1>6, MaxIsGreatest
  <1>8. Max(S) \in Nat
    BY <1>7, <1>4, <1>2
  <1>9. ASSUME NEW k \in DOMAIN f PROVE f[k] \in Int /\ -Max(S) <= f[k] /\ f[k] <= Max(S)
    <2>1. Magnitude(f[k]) <= Max(S)
      BY <1>7, <1>4
    <2> HIDE DEF S
    <2> QED BY <2>1, <1>1, <1>2, <1>8
  <1> QED BY <1>8, <1>9
-----------------------------------------------------------------------------
(* The signal, tick by tick. *)

\* A level splits the ticks of a period into the stretch at or above it and the
\* stretch below it, the length of each being the number of its ticks.
LEMMA Stretch ==
    ASSUME NEW wave, IsArray(wave), NEW level \in Int, OneStretch(wave, level)
    PROVE  LET p == Cardinality(DOMAIN wave)
           IN  \E from \in 0..(p - 1) :
                 LET above == Cardinality({t \in DOMAIN wave : wave[t] >= level})
                 IN  /\ above \in 0..p
                     /\ \A t \in 0..(p - 1) :
                          wave[t] >= level <=> (IF t >= from THEN t - from ELSE t - from + p) < above
  <1> DEFINE p == Cardinality(DOMAIN wave)
             high == {t \in DOMAIN wave : wave[t] >= level}
  <1>1. p \in Nat \ {0} /\ DOMAIN wave = 0..(p - 1)
    BY DEF IsArray
  <1>2. PICK from \in 0..(p - 1), long \in 0..p :
                \A i \in 0..(p - 1) : wave[(from + i) % p] >= level <=> i < long
    BY DEF OneStretch
  <1> HIDE DEF p
  <1>3. ASSUME NEW t \in 0..(p - 1)
        PROVE  wave[t] >= level <=> (IF t >= from THEN t - from ELSE t - from + p) < long
    <2>1. CASE t >= from
      <3> DEFINE i == t - from
      <3>1. i \in 0..(p - 1) /\ from + i = t /\ t \in 0..(2 * p - 1)
        BY <1>1, <2>1
      <3>2. t % p = t
        BY <1>1, <3>1
      <3> HIDE DEF i
      <3>3. wave[(from + i) % p] >= level <=> i < long
        BY <3>1, <1>2
      <3>4. wave[t] >= level <=> i < long
        BY <3>1, <3>2, <3>3
      <3> QED BY <3>4, <2>1 DEF i
    <2>2. CASE t < from
      <3> DEFINE i == t - from + p
      <3>1. i \in 0..(p - 1) /\ from + i = t + p /\ t + p \in 0..(2 * p - 1)
        BY <1>1, <2>2
      <3>2. (t + p) % p = t
        BY <1>1, <3>1
      <3> HIDE DEF i
      <3>3. wave[(from + i) % p] >= level <=> i < long
        BY <3>1, <1>2
      <3>4. wave[t] >= level <=> i < long
        BY <3>1, <3>2, <3>3
      <3> QED BY <3>4, <2>2 DEF i
    <2> QED BY <2>1, <2>2, <1>1
  <1>4. Cardinality(high) = long
    <2> DEFINE last == IF from + long <= p THEN from + long - 1 ELSE p - 1
    <2>1. high = (from..last) \cup (0..(from + long - p - 1))
      <3>1. ASSUME NEW t \in 0..(p - 1)
            PROVE  t \in high <=> t \in from..last \/ t \in 0..(from + long - p - 1)
        <4>1. t \in high <=> wave[t] >= level
          BY <1>1
        <4>2. t \in high <=> (IF t >= from THEN t - from ELSE t - from + p) < long
          BY <4>1, <1>3
        <4> HIDE DEF high
        <4> QED BY <4>2, <1>1
      <3>2. from..last \subseteq 0..(p - 1) /\ 0..(from + long - p - 1) \subseteq 0..(p - 1)
        BY <1>1
      <3> QED BY <3>1, <3>2, <1>1
    <2>2. (from..last) \cap (0..(from + long - p - 1)) = {}
      BY <1>1
    <2>3. /\ from \in Int /\ last \in Int /\ from + long - p - 1 \in Int
          /\ last - from + 1 = IF from + long <= p THEN long ELSE p - from
      BY <1>1
    <2>4. /\ IsFiniteSet(from..last) /\ IsFiniteSet(0..(from + long - p - 1))
          /\ Cardinality(from..last) = last - from + 1
          /\ Cardinality(0..(from + long - p - 1)) = IF from + long <= p THEN 0 ELSE from + long - p
      <3> DEFINE rest == from + long - p - 1
      <3>1. /\ IsFiniteSet(from..last) /\ IsFiniteSet(0..rest)
            /\ Cardinality(from..last) = IF from > last THEN 0 ELSE last - from + 1
            /\ Cardinality(0..rest) = IF 0 > rest THEN 0 ELSE rest - 0 + 1
        <4>1. from \in Int /\ last \in Int /\ rest \in Int /\ 0 \in Int
          BY <2>3
        <4> HIDE DEF last, rest
        <4> QED BY <4>1, FS_Interval
      <3> QED BY <3>1, <2>3, <1>1
    <2>5. Cardinality(high) = Cardinality(from..last) + Cardinality(0..(from + long - p - 1)) - 0
      <3> DEFINE A == from..last
                 B == 0..(from + long - p - 1)
      <3> HIDE DEF A, B, high
      <3> SUFFICES Cardinality(A \cup B) = Cardinality(A) + Cardinality(B) - 0
        BY <2>1 DEF A, B
      <3>1. IsFiniteSet(A) /\ IsFiniteSet(B) /\ A \cap B = {}
        BY <2>2, <2>4 DEF A, B
      <3> QED BY <3>1, FS_Union, FS_EmptySet
    <2> QED BY <2>4, <2>5, <2>3, <1>1
  <1> QED BY <1>2, <1>3, <1>4 DEF p

\* Ticks at which a predicate holds for at least a sample, right after it failed
\* for at least a sample, give two samples in a row of which the second is the
\* first one where it holds.
LEMMA StepSampled ==
    ASSUME NEW high, NEW dt \in Nat \ {0}, NEW p \in Nat \ {0}, NEW n \in Nat \ {0},
           NEW r \in 1..p, p + dt <= n * dt,
           \A t \in r..(r + dt - 1) : t \in high,
           \A t \in 0..(r - 1) : t >= r - dt => t \notin high
    PROVE  \E k \in 1..n : k * dt \in high /\ (k - 1) * dt \notin high
  <1> DEFINE x == r + dt - 1
             k == x \div dt
  <1>1. x \in Nat /\ k \in Int /\ x % dt \in 0..(dt - 1) /\ x = dt * k + (x % dt)
    <2>1. x \in Int
      OBVIOUS
    <2> HIDE DEF x
    <2>2. k \in Int /\ x % dt \in 0..(dt - 1) /\ x = dt * k + (x % dt)
      BY <2>1, Division
    <2> QED BY <2>2 DEF x
  <1> HIDE DEF k
  <1>2. PICK m \in Int : m = dt * k
    BY <1>1
  <1>3. m = k * dt /\ m - dt = (k - 1) * dt
    BY <1>1, <1>2
  <1>4. m \in r..(r + dt - 1)
    BY <1>1, <1>2
  <1>5. k >= 1
    BY <1>3, <1>4, <1>1
  <1>6. k <= n
    <2>1. k * dt < n * dt
      BY <1>3, <1>4
    <2> QED BY <2>1, <1>1
  <1>7. m - dt >= 0
    BY <1>3, <1>5, <1>1
  <1>8. m \in high /\ m - dt \notin high
    BY <1>4, <1>7
  <1> QED BY <1>1, <1>3, <1>5, <1>6, <1>8

\* Where the setting of a trigger can come from.
TriggerSettings ==
    {[level |-> t.level, slope |-> t.slope, probed |-> t.probed, sweep |-> sweep] :
        t \in Triggers, sweep \in Sweeps}

\* What the settings are made of.
LEMMA Settings ==
    /\ \A tr \in TriggerSettings :
          /\ tr.level \in Int /\ tr.slope \in Slopes /\ tr.probed \in BOOLEAN /\ tr.sweep \in Sweeps
          /\ tr # NoTrigger
          /\ \A s \in Signals : OneStretch(s.wave, tr.level)
    /\ \A t \in Triggers, sweep \in Sweeps :
          [level |-> t.level, slope |-> t.slope, probed |-> t.probed, sweep |-> sweep] \in TriggerSettings
  <1>1. ASSUME NEW t \in Triggers, NEW sweep \in Sweeps,
               NEW tr, tr = [level |-> t.level, slope |-> t.slope, probed |-> t.probed, sweep |-> sweep]
        PROVE  /\ tr.level \in Int /\ tr.slope \in Slopes /\ tr.probed \in BOOLEAN /\ tr.sweep \in Sweeps
               /\ tr # NoTrigger
               /\ \A s \in Signals : OneStretch(s.wave, tr.level)
    <2>1. tr.level = t.level /\ tr.slope = t.slope /\ tr.probed = t.probed /\ tr.sweep = sweep
      BY <1>1
    <2>2. NoTrigger.sweep \notin Sweeps
      BY DEF NoTrigger, Sweeps
    <2> QED BY <2>1, <2>2, ScopeAssumption, SignalAssumption
  <1> QED BY <1>1 DEF TriggerSettings

\* If the signal stays on both sides of the level for at least a sample, and comes
\* back within the windows searched, _would_trigger() says so and _first_crossing()
\* finds the crossing, whatever its slope.
LEMMA CrossingFound ==
    ASSUME signal \in Signals, trigger \in TriggerSettings, timebase.dt \in Nat \ {0},
           trigger # NoTrigger, trigger.probed, ~Elusive(trigger, timebase)
    PROVE  Fires
  <1> DEFINE wave == signal.wave
             p == Cardinality(DOMAIN wave)
             dt == timebase.dt
             level == trigger.level
             a == Cardinality({t \in DOMAIN wave : wave[t] >= level})
             n == 2 * Points - 1
             high == {t \in Nat : At(t) >= level}
             low == Nat \ high
  <1>1. /\ IsArray(wave) /\ signal.lo \in Int /\ signal.hi \in Int
        /\ \A t \in DOMAIN wave : signal.lo <= wave[t] /\ wave[t] <= signal.hi
    BY SignalAssumption
  <1>2. /\ trigger # NoTrigger /\ level \in Int /\ trigger.slope \in Slopes /\ trigger.probed
        /\ OneStretch(wave, level)
    BY Settings
  <1>3. p \in Nat \ {0} /\ DOMAIN wave = 0..(p - 1) /\ \A t \in 0..(p - 1) : wave[t] \in Int
    BY <1>1 DEF IsArray
  <1>4. PICK from \in 0..(p - 1) :
            /\ a \in 0..p
            /\ \A t \in 0..(p - 1) : wave[t] >= level <=> (IF t >= from THEN t - from ELSE t - from + p) < a
    BY <1>1, <1>2, Stretch
  <1>5. p \in Nat /\ a \in 0..p
    BY <1>3, <1>4
  <1>6. dt \in Nat \ {0} /\ a >= dt /\ p - a >= dt /\ p + dt <= n * dt
    <2>1. ~(a < dt) /\ ~(p - a < dt) /\ ~(p + dt > n * dt)
      BY DEF Elusive, Above, Below, Period
    <2>2. n \in Int /\ dt \in Nat \ {0} /\ n * dt \in Int
      BY ScopeAssumption
    <2> HIDE DEF a, p, n, dt
    <2> QED BY <1>5, <2>1, <2>2
  <1>7. n \in Nat \ {0}
    BY ScopeAssumption
  <1>8. ASSUME NEW t \in 0..(2 * p - 1)
        PROVE  t \in high <=> LET u == IF t < p THEN t ELSE t - p
                             IN  (IF u >= from THEN u - from ELSE u - from + p) < a
    <2> DEFINE u == IF t < p THEN t ELSE t - p
    <2>1. t % p = u /\ u \in 0..(p - 1)
      <3> HIDE DEF p
      <3> QED BY <1>3, Wraps
    <2>2. At(t) = wave[u]
      BY <2>1 DEF At
    <2>3. wave[u] >= level <=> (IF u >= from THEN u - from ELSE u - from + p) < a
      <3> HIDE DEF u, p, a
      <3> QED BY <2>1, <1>4
    <2>4. t \in high <=> At(t) >= level
      <3>1. t \in Nat
        <4> HIDE DEF p
        <4> QED BY <1>3
      <3> QED BY <3>1
    <2> HIDE DEF high, u
    <2>5. t \in high <=> (IF u >= from THEN u - from ELSE u - from + p) < a
      BY <2>2, <2>3, <2>4
    <2> QED BY <2>5 DEF u
  <1> HIDE DEF p, a, n, high, dt, level
  <1>9. LevelInRange
    <2>1. \E t \in 0..(p - 1) : wave[t] >= level
      <3>1. wave[from] >= level
        BY <1>3, <1>4, <1>6
      <3> QED BY <3>1
    <2>2. \E t \in 0..(p - 1) : ~ (wave[t] >= level)
      <3> DEFINE t == IF from + a < p THEN from + a ELSE from + a - p
      <3>1. t \in 0..(p - 1) /\ ~ ((IF t >= from THEN t - from ELSE t - from + p) < a)
        BY <1>3, <1>4, <1>6
      <3> HIDE DEF t
      <3> QED BY <3>1, <1>4
    <2>3. level <= signal.hi
      <3>1. PICK t \in 0..(p - 1) : wave[t] >= level
        BY <2>1
      <3>2. wave[t] \in Int /\ wave[t] <= signal.hi /\ level \in Int /\ signal.hi \in Int
        BY <1>1, <1>2, <1>3
      <3> QED BY <3>1, <3>2
    <2>4. signal.lo <= level
      <3>1. PICK t \in 0..(p - 1) : ~ (wave[t] >= level)
        BY <2>2
      <3>2. wave[t] \in Int /\ signal.lo <= wave[t] /\ level \in Int /\ signal.lo \in Int
        BY <1>1, <1>2, <1>3
      <3> QED BY <3>1, <3>2
    <2> QED BY <2>3, <2>4 DEF LevelInRange, level
  <1>10. \E k \in 1..n : k * dt \in high /\ (k - 1) * dt \notin high
    <2> DEFINE r == IF from = 0 THEN p ELSE from
    <2>1. r \in 1..p
      BY <1>3, <1>4
    <2>2. \A t \in r..(r + dt - 1) : t \in high
      <3> SUFFICES ASSUME NEW t \in r..(r + dt - 1) PROVE t \in high
        OBVIOUS
      <3>1. t \in 0..(2 * p - 1)
        BY <1>3, <1>4, <1>6
      <3> QED BY <3>1, <1>3, <1>4, <1>6, <1>8
    <2>3. \A t \in 0..(r - 1) : t >= r - dt => t \notin high
      <3> SUFFICES ASSUME NEW t \in 0..(r - 1), t >= r - dt PROVE t \notin high
        OBVIOUS
      <3>1. t \in 0..(2 * p - 1)
        BY <1>3, <1>4, <1>6
      <3> QED BY <3>1, <1>3, <1>4, <1>6, <1>8
    <2> HIDE DEF r
    <2> QED BY <2>1, <2>2, <2>3, <1>3, <1>6, <1>7, StepSampled
  <1>11. \E k \in 1..n : k * dt \in low /\ (k - 1) * dt \notin low
    <2> DEFINE r == IF from + a <= p THEN from + a ELSE from + a - p
    <2>1. r \in 1..p
      BY <1>3, <1>4, <1>6
    <2>2. \A t \in r..(r + dt - 1) : t \in low
      <3> SUFFICES ASSUME NEW t \in r..(r + dt - 1) PROVE t \in Nat /\ t \notin high
        OBVIOUS
      <3>1. t \in 0..(2 * p - 1)
        BY <1>3, <1>4, <1>6
      <3> QED BY <3>1, <1>3, <1>4, <1>6, <1>8
    <2>3. \A t \in 0..(r - 1) : t >= r - dt => t \notin low
      <3> SUFFICES ASSUME NEW t \in 0..(r - 1), t >= r - dt PROVE t \in high
        OBVIOUS
      <3>1. t \in 0..(2 * p - 1)
        BY <1>3, <1>4, <1>6
      <3> QED BY <3>1, <1>3, <1>4, <1>6, <1>8
    <2> HIDE DEF r, low
    <2> QED BY <2>1, <2>2, <2>3, <1>3, <1>6, <1>7, StepSampled
  <1>12. ASSUME NEW k \in 1..n
         PROVE  /\ k * dt \in high <=> At(k * timebase.dt) >= trigger.level
                /\ (k - 1) * dt \in high <=> At((k - 1) * timebase.dt) >= trigger.level
                /\ k * dt \in Nat /\ (k - 1) * dt \in Nat
    <2>1. k * dt \in Nat /\ (k - 1) * dt \in Nat
      BY <1>6, <1>7
    <2> QED BY <2>1 DEF high, dt, level
  <1>13. Crossings # {}
    <2>1. CASE trigger.slope # "FALLING"
      <3>1. PICK k \in 1..n : k * dt \in high /\ (k - 1) * dt \notin high
        BY <1>10
      <3>2. k \in Crossings
        BY <2>1, <3>1, <1>12 DEF Crossings, n
      <3> QED BY <3>2
    <2>2. CASE trigger.slope = "FALLING"
      <3>1. PICK k \in 1..n : k * dt \in low /\ (k - 1) * dt \notin low
        BY <1>11
      <3>2. k \in Crossings
        BY <2>2, <3>1, <1>12 DEF Crossings, n
      <3> QED BY <3>2
    <2> QED BY <2>1, <2>2
  <1> QED BY <1>2, <1>9, <1>13 DEF Fires, WouldTrigger

-----------------------------------------------------------------------------
(* The invariant. *)

\* The vertical and the timebase are numbers of the right sign, and the trigger is
\* one that can be asked for.
Configured ==
    /\ vertical \in [scale : Nat \ {0}, offset : Int]
    /\ timebase \in [dt : Nat \ {0}, delay : Int]
    /\ trigger \in TriggerSettings \cup {NoTrigger}

\* What an acquisition knows where it waits: the poll that resolved it has told
\* whether the signal reaches the level, and the trigger is still the one it was
\* armed with.
Waits ==
    /\ pc = "arm" =>
          trigger \in TriggerSettings /\ trigger.sweep # "AUTO" /\ status = "WAIT" /\ pending
          /\ polls \in 1..ArmPolls
    /\ pc = "trigger" =>
          trigger \in TriggerSettings /\ trigger.sweep # "AUTO" /\ ~pending
          /\ status = (IF WouldTrigger THEN "STOP" ELSE "WAIT") /\ polls \in 1..TriggerPolls
    /\ pc = "capture" =>
          trigger \in TriggerSettings /\ (trigger.sweep # "AUTO" => WouldTrigger)

\* A call that hands over a frame has one.
Handed == answer \in {"one-shot", "free run", "capture"} => frame # NoFrame

\* The noise of a frame is one of those added to the samples.
Noisy == frame # NoFrame => frame.noise \in Noises /\ frame.timebase.dt \in Nat \ {0}

SimInv == TypeOK /\ Configured /\ Waits /\ Handed /\ Noisy

\* A configuration is one the type invariant allows.
LEMMA ConfiguredTyped ==
    ASSUME Configured
    PROVE  /\ vertical.scale > 0 /\ timebase.dt > 0
           /\ trigger = NoTrigger \/ trigger.sweep \in Sweeps
  BY Settings DEF Configured

\* The polls left to a wait are no more than the longer wait has.
LEMMA PollBound ==
    /\ 0 \in 0..Max({ArmPolls, TriggerPolls})
    /\ 1..ArmPolls \subseteq 0..Max({ArmPolls, TriggerPolls})
    /\ 1..TriggerPolls \subseteq 0..Max({ArmPolls, TriggerPolls})
    /\ ArmPolls \in 1..ArmPolls /\ TriggerPolls \in 1..TriggerPolls
  <1>1. ArmPolls \in Nat \ {0} /\ TriggerPolls \in Nat \ {0}
    BY ScopeAssumption
  <1>2. Max({ArmPolls, TriggerPolls}) = IF ArmPolls >= TriggerPolls THEN ArmPolls ELSE TriggerPolls
    BY <1>1, MaxOfTwo
  <1> QED BY <1>1, <1>2

\* A call of the interface that hands over nothing.
LEMMA PlainCall ==
    ASSUME SimInv, Call, NoAnswer, Configured',
           status' \in {"STOP", "WAIT", "AUTO", "TD"}, pending' \in BOOLEAN
    PROVE  SimInv'
  <1>1. TypeOK'
    <2>1. calls' \in 0..MaxCalls
      BY ScopeAssumption DEF SimInv, TypeOK, Call
    <2>2. vertical'.scale > 0 /\ timebase'.dt > 0 /\ (trigger' = NoTrigger \/ trigger'.sweep \in Sweeps)
      BY Settings DEF Configured
    <2>3. answer' \in Answers /\ frame' = NoFrame /\ verdict' = NoVerdict
      BY DEF NoAnswer, Answers
    <2> QED BY <2>1, <2>2, <2>3 DEF SimInv, TypeOK, Call, bench
  <1>2. pc' = "idle" /\ answer' = "none" /\ frame' = NoFrame
    BY DEF Call, NoAnswer
  <1>3. Waits' /\ Handed' /\ Noisy'
    BY <1>2 DEF Waits, Handed, Noisy
  <1> QED BY <1>1, <1>3 DEF SimInv

\* What capture() makes: a frame of Points samples, labelled with how the trigger
\* was found under the configuration it was made with.
LEMMA CaptureFrameIs ==
    ASSUME NEW as, CaptureFrame(as)
    PROVE  /\ frame'.noise \in Noises
           /\ DOMAIN frame'.samples = 0..(Points - 1)
           /\ \A i \in 0..(Points - 1) : frame'.samples[i] =
                Render(Start + i * timebase.dt, frame'.noise[i % Cardinality(DOMAIN frame'.noise)])
           /\ frame'.start = Start /\ frame'.status = StatusFor /\ status' = StatusFor
           /\ frame'.vertical = vertical /\ frame'.timebase = timebase /\ frame'.trigger = trigger
           /\ frame' # NoFrame /\ answer' = as /\ verdict' = NoVerdict
  <1> DEFINE samples(noise) ==
                [i \in 0..(Points - 1) |->
                    Render(Start + i * timebase.dt, noise[i % Cardinality(DOMAIN noise)])]
             made(noise) ==
                [samples |-> samples(noise), start |-> Start, status |-> StatusFor, noise |-> noise,
                 vertical |-> vertical, timebase |-> timebase, trigger |-> trigger]
  <1>1. PICK noise \in Noises :
            frame' = made(noise) /\ status' = frame'.status /\ answer' = as /\ verdict' = NoVerdict
    BY DEF CaptureFrame
  <1> HIDE DEF samples
  <1>2. /\ frame'.samples = samples(noise) /\ frame'.start = Start /\ frame'.status = StatusFor
        /\ frame'.noise = noise /\ frame'.vertical = vertical /\ frame'.timebase = timebase
        /\ frame'.trigger = trigger
    BY <1>1
  <1>3. /\ DOMAIN frame'.samples = 0..(Points - 1)
        /\ \A i \in 0..(Points - 1) : frame'.samples[i] =
                Render(Start + i * timebase.dt, noise[i % Cardinality(DOMAIN noise)])
    BY <1>2 DEF samples
  <1>4. frame' # NoFrame
    <2>1. 0 \in DOMAIN frame'.samples
      BY <1>3, ScopeAssumption
    <2>2. 0 \notin DOMAIN NoFrame.samples
      BY DEF NoFrame
    <2> QED BY <2>1, <2>2
  <1> QED BY <1>1, <1>2, <1>3, <1>4

\* capture(), called directly or by acquire(), leaves a scope as it may be.
LEMMA CaptureTyped ==
    ASSUME SimInv, NEW as \in Answers, CaptureFrame(as), UNCHANGED <<bench, config, pending>>,
           calls' \in 0..MaxCalls, pc' = "idle", polls' \in 0..Max({ArmPolls, TriggerPolls})
    PROVE  SimInv'
  <1>1. StatusFor \in {"STOP", "WAIT", "AUTO", "TD"}
    BY DEF StatusFor
  <1>2. TypeOK'
    BY <1>1, CaptureFrameIs DEF SimInv, TypeOK, bench, config
  <1>3. Configured'
    BY DEF SimInv, Configured, config
  <1>4. Waits' /\ Handed' /\ Noisy'
    BY CaptureFrameIs DEF Waits, Handed, Noisy, SimInv, Configured
  <1> QED BY <1>2, <1>3, <1>4 DEF SimInv

\* What the caller asks for can be configured.
LEMMA RequestTyped ==
    ASSUME SimInv, NEW sweep \in Sweeps, Requested(sweep)
    PROVE  /\ Configured' /\ trigger' \in TriggerSettings /\ trigger'.sweep = sweep
  <1>1. setup \in [scale : Nat \ {0}, offset : Int, dt : Nat \ {0}, delay : Int] /\ trig \in Triggers
    BY ScopeAssumption DEF SimInv, TypeOK
  <1>2. vertical' \in [scale : Nat \ {0}, offset : Int] /\ timebase' \in [dt : Nat \ {0}, delay : Int]
    BY <1>1 DEF Requested
  <1>3. trigger' \in TriggerSettings
    BY <1>1, Settings DEF Requested
  <1>4. trigger'.sweep = sweep
    BY DEF Requested
  <1> QED BY <1>2, <1>3, <1>4 DEF Configured

\* autoscale() finds a scale the scope has, on a flat signal too.
LEMMA AutoscaleTyped ==
    ASSUME signal \in Signals, Autoscaled
    PROVE  vertical' \in [scale : Nat \ {0}, offset : Int]
  <1> DEFINE span == (signal.hi - signal.lo) \div 6
             mid == -((signal.hi + signal.lo) \div 2)
  <1>1. signal.hi \in Int /\ signal.lo \in Int
    BY SignalAssumption
  <1>2. span \in Int /\ mid \in Int
    BY <1>1
  <1>3. Max({span, FinestScale}) = IF span >= FinestScale THEN span ELSE FinestScale
    <2>1. FinestScale \in Int
      BY DEF FinestScale
    <2> HIDE DEF span
    <2> QED BY <1>2, <2>1, MaxOfTwo
  <1>4. Max({span, FinestScale}) \in Nat \ {0}
    <2> HIDE DEF span
    <2> QED BY <1>2, <1>3 DEF FinestScale
  <1>5. vertical' = [scale |-> Max({span, FinestScale}), offset |-> mid]
    BY DEF Autoscaled
  <1> HIDE DEF span, mid
  <1> QED BY <1>2, <1>4, <1>5

\* A poll answers what may be answered, and resolves what was armed.
LEMMA PollTyped ==
    ASSUME SimInv, Poll
    PROVE  status' \in {"STOP", "WAIT", "AUTO", "TD"} /\ pending' = FALSE
  BY DEF SimInv, TypeOK, Poll

\* A scope as constructed satisfies the invariant.
LEMMA InitInv == Init => SimInv
  <1> SUFFICES ASSUME Init PROVE SimInv
    OBVIOUS
  <1>1. Configured
    BY ScopeAssumption DEF Init, Configured, Volt
  <1>2. TypeOK
    <2>1. vertical.scale > 0 /\ timebase.dt > 0 /\ (trigger = NoTrigger \/ trigger.sweep \in Sweeps)
      BY <1>1, ConfiguredTyped
    <2>2. calls \in 0..MaxCalls /\ polls \in 0..Max({ArmPolls, TriggerPolls})
      BY PollBound, ScopeAssumption DEF Init
    <2>3. answer \in Answers
      BY DEF Init, Answers
    <2> QED BY <2>1, <2>2, <2>3 DEF Init, TypeOK
  <1>3. Waits /\ Handed /\ Noisy
    BY DEF Init, Waits, Handed, Noisy
  <1> QED BY <1>1, <1>2, <1>3 DEF SimInv

\* Every step keeps the invariant.
LEMMA NextInv == SimInv /\ [Next]_vars => SimInv'
  <1> SUFFICES ASSUME SimInv, [Next]_vars PROVE SimInv'
    OBVIOUS
  <1>1. CASE Run
    <2>1. Configured' /\ status' = "AUTO" /\ pending' = pending
      BY <1>1 DEF Run, SimInv, Configured, config
    <2> QED BY <1>1, <2>1, PlainCall DEF Run, SimInv, TypeOK
  <1>2. CASE Stop
    <2>1. Configured' /\ status' = "STOP" /\ pending' = pending
      BY <1>2 DEF Stop, SimInv, Configured, config
    <2> QED BY <1>2, <2>1, PlainCall DEF Stop, SimInv, TypeOK
  <1>3. CASE ForceTrigger
    <2>1. Configured' /\ status' = "AUTO" /\ pending' = pending
      BY <1>3 DEF ForceTrigger, SimInv, Configured, config
    <2> QED BY <1>3, <2>1, PlainCall DEF ForceTrigger, SimInv, TypeOK
  <1>4. CASE Single
    <2>1. Configured' /\ status' = "WAIT" /\ pending' = TRUE
      BY <1>4 DEF Single, SimInv, Configured, config
    <2> QED BY <1>4, <2>1, PlainCall DEF Single
  <1>5. CASE TriggerStatus
    <2>1. Configured'
      BY <1>5 DEF TriggerStatus, SimInv, Configured, config
    <2>2. status' \in {"STOP", "WAIT", "AUTO", "TD"} /\ pending' = FALSE
      BY <1>5, PollTyped DEF TriggerStatus
    <2> QED BY <1>5, <2>1, <2>2, PlainCall DEF TriggerStatus
  <1>6. CASE Autoscale
    <2>1. vertical' \in [scale : Nat \ {0}, offset : Int]
      BY <1>6, AutoscaleTyped DEF Autoscale, SimInv, TypeOK
    <2>2. Configured'
      BY <1>6, <2>1 DEF Autoscale, SimInv, Configured
    <2> QED BY <1>6, <2>2, PlainCall DEF Autoscale, SimInv, TypeOK
  <1>7. CASE Capture
    <2>1. calls' \in 0..MaxCalls /\ pc' = "idle" /\ polls' \in 0..Max({ArmPolls, TriggerPolls})
      BY <1>7, ScopeAssumption DEF Capture, Call, SimInv, TypeOK
    <2> QED BY <1>7, <2>1, CaptureTyped DEF Capture, Call, Answers
  <1>8. ASSUME NEW sweep \in Sweeps, Configure(sweep) PROVE SimInv'
    <2>1. Configured'
      BY <1>8, RequestTyped DEF Configure
    <2> QED BY <1>8, <2>1, PlainCall DEF Configure, SimInv, TypeOK
  <1>9. ASSUME NEW sweep \in Sweeps, Acquire(sweep) PROVE SimInv'
    <2>1. Configured' /\ trigger' \in TriggerSettings /\ trigger'.sweep = sweep
      BY <1>9, RequestTyped DEF Acquire
    <2>2. Arm(sweep) /\ NoAnswer /\ UNCHANGED bench
      BY <1>9 DEF Acquire
    <2>3. /\ answer' \in Answers /\ answer' = "none" /\ frame' = NoFrame /\ verdict' = NoVerdict
      BY <2>2 DEF NoAnswer, Answers
    <2>4. Handed' /\ Noisy'
      BY <2>3 DEF Handed, Noisy
    <2>5. calls' \in 0..MaxCalls
      BY <1>9, ScopeAssumption DEF Acquire, SimInv, TypeOK
    <2>6. /\ vertical'.scale > 0 /\ timebase'.dt > 0
          /\ trigger' = NoTrigger \/ trigger'.sweep \in Sweeps
      BY <2>1, Settings DEF Configured
    <2>7. CASE sweep = "AUTO"
      <3>1. pc' = "capture" /\ status' = "AUTO" /\ polls' = 0 /\ pending' = pending
        BY <2>2, <2>7 DEF Arm
      <3>2. Waits'
        BY <2>1, <2>7, <3>1 DEF Waits
      <3>3. TypeOK'
        BY <2>2, <2>3, <2>5, <2>6, <3>1, PollBound DEF SimInv, TypeOK, bench
      <3> QED BY <2>1, <2>4, <3>2, <3>3 DEF SimInv
    <2>8. CASE sweep # "AUTO"
      <3>1. pc' = "arm" /\ status' = "WAIT" /\ polls' = ArmPolls /\ pending' = TRUE
        BY <2>2, <2>8 DEF Arm
      <3>2. Waits'
        BY <2>1, <2>8, <3>1, PollBound DEF Waits
      <3>3. TypeOK'
        BY <2>2, <2>3, <2>5, <2>6, <3>1, PollBound DEF SimInv, TypeOK, bench
      <3> QED BY <2>1, <2>4, <3>2, <3>3 DEF SimInv
    <2> QED BY <2>7, <2>8
  <1>10. CASE ArmPoll
    <2>1. /\ pc = "arm" /\ status = "WAIT" /\ pending /\ trigger \in TriggerSettings
          /\ trigger.sweep # "AUTO"
      BY <1>10 DEF ArmPoll, SimInv, Waits
    <2>2. pc' = "trigger" /\ polls' = TriggerPolls
      BY <1>10, <2>1 DEF ArmPoll, Armed
    <2>3. /\ UNCHANGED <<bench, calls, config, answer, frame, verdict>>
          /\ pending' = FALSE /\ status' = IF WouldTrigger THEN "STOP" ELSE "WAIT"
      BY <1>10, <2>1 DEF ArmPoll, Poll
    <2>4. WouldTrigger' <=> WouldTrigger
      BY <2>3 DEF WouldTrigger, LevelInRange, bench, config
    <2>5. TypeOK'
      BY <2>2, <2>3, PollBound DEF SimInv, TypeOK, bench, config
    <2>6. Waits'
      BY <2>1, <2>2, <2>3, <2>4, PollBound DEF Waits, config
    <2>7. Configured' /\ Handed' /\ Noisy'
      BY <2>3 DEF SimInv, Configured, Handed, Noisy, config
    <2> QED BY <2>5, <2>6, <2>7 DEF SimInv
  <1>11. CASE TriggerPoll
    <2>1. /\ pc = "trigger" /\ ~pending /\ trigger \in TriggerSettings /\ trigger.sweep # "AUTO"
          /\ status = (IF WouldTrigger THEN "STOP" ELSE "WAIT") /\ polls \in 1..TriggerPolls
      BY <1>11 DEF TriggerPoll, SimInv, Waits
    <2>2. /\ UNCHANGED <<bench, calls, config, frame, verdict>>
          /\ pending' = FALSE /\ status' = status
      BY <1>11, <2>1 DEF TriggerPoll, Poll
    <2>3. WouldTrigger' <=> WouldTrigger
      BY <2>2 DEF WouldTrigger, LevelInRange, bench, config
    <2>4. Configured' /\ Noisy'
      BY <2>2 DEF SimInv, Configured, Noisy, config
    <2>5. \/ pc' = "capture" /\ WouldTrigger /\ UNCHANGED <<polls, answer>>
          \/ pc' = "idle" /\ polls' = 0 /\ answer' = "miss"
          \/ pc' = "trigger" /\ polls' = polls - 1 /\ polls # 1 /\ answer' = answer
      BY <1>11, <2>1 DEF TriggerPoll, Captured
    <2>6. polls' \in 0..Max({ArmPolls, TriggerPolls}) /\ (pc' = "trigger" => polls' \in 1..TriggerPolls)
      <3>1. \/ polls' = polls /\ pc' # "trigger"
            \/ polls' = 0 /\ pc' # "trigger"
            \/ polls' = polls - 1 /\ polls # 1
        BY <2>5
      <3>2. polls' \in 1..TriggerPolls \/ polls' = 0
        BY <2>1, <3>1, ScopeAssumption
      <3>3. pc' = "trigger" => polls' \in 1..TriggerPolls
        BY <2>1, <3>1, ScopeAssumption
      <3>4. polls' \in 0..Max({ArmPolls, TriggerPolls})
        <4> DEFINE top == Max({ArmPolls, TriggerPolls})
        <4>1. 0 \in 0..top /\ 1..TriggerPolls \subseteq 0..top
          BY PollBound
        <4> HIDE DEF top
        <4>2. polls' \in 0..top
          BY <3>2, <4>1
        <4> QED BY <4>2 DEF top
      <3> QED BY <3>3, <3>4
    <2>7. TypeOK'
      BY <2>2, <2>5, <2>6 DEF SimInv, TypeOK, bench, config, Answers
    <2>8. Waits'
      BY <2>1, <2>2, <2>3, <2>5, <2>6 DEF Waits, config
    <2>9. Handed'
      BY <2>2, <2>5 DEF SimInv, Handed
    <2> QED BY <2>4, <2>7, <2>8, <2>9 DEF SimInv
  <1>12. CASE Deliver
    <2>1. calls' \in 0..MaxCalls /\ pc' = "idle" /\ polls' \in 0..Max({ArmPolls, TriggerPolls})
      BY <1>12, PollBound DEF Deliver, SimInv, TypeOK
    <2>2. (IF trigger.sweep = "AUTO" THEN "free run" ELSE "one-shot") \in Answers
      BY DEF Answers
    <2> QED BY <1>12, <2>1, <2>2, CaptureTyped DEF Deliver
  <1>13. CASE Triage
    <2>1. UNCHANGED <<bench, calls, config, status, pending, pc, polls, answer, frame>> /\ frame # NoFrame
      <3>1. /\ answer \in {"one-shot", "free run"}
            /\ UNCHANGED <<bench, calls, config, status, pending, pc, polls, answer, frame>>
        BY <1>13 DEF Triage
      <3> QED BY <3>1 DEF SimInv, Handed
    <2>2. WouldTrigger' <=> WouldTrigger
      BY <2>1 DEF WouldTrigger, LevelInRange, bench, config
    <2>3. TypeOK'
      BY <2>1 DEF SimInv, TypeOK, bench, config
    <2>4. Configured' /\ Waits' /\ Handed' /\ Noisy'
      BY <2>1, <2>2 DEF SimInv, Configured, Waits, Handed, Noisy, config
    <2> QED BY <2>3, <2>4 DEF SimInv
  <1>14. CASE UNCHANGED vars
    <2>1. WouldTrigger' <=> WouldTrigger
      BY <1>14 DEF WouldTrigger, LevelInRange, vars, bench, config
    <2>2. TypeOK'
      BY <1>14 DEF SimInv, TypeOK, vars, bench, config
    <2>3. Configured' /\ Waits' /\ Handed' /\ Noisy'
      BY <1>14, <2>1 DEF SimInv, Configured, Waits, Handed, Noisy, vars, config
    <2> QED BY <2>2, <2>3 DEF SimInv
  <1> QED
    BY <1>1, <1>2, <1>3, <1>4, <1>5, <1>6, <1>7, <1>8, <1>9, <1>10, <1>11, <1>12, <1>13, <1>14 DEF Next

\* The scope, the acquisition and the frame stay within what they may be.
THEOREM Invariance == Spec => []SimInv
  <1> QED BY InitInv, NextInv, PTL DEF Spec

\* The type invariant (SimScope!TypeOK): whatever is called, the scale and the
\* timebase stay positive, the statuses are those of the enumeration, and no wait
\* has more polls left than it began with.
THEOREM TypeCorrect == Spec => []TypeOK
  <1>1. SimInv => TypeOK
    BY DEF SimInv
  <1> QED BY <1>1, Invariance, PTL

-----------------------------------------------------------------------------
(* One-shots are honest. *)

\* A signal is outside the level of a trigger that would not fire.
LEMMA OutsideIs ==
    ASSUME signal \in Signals, trigger \in TriggerSettings
    PROVE  Outside(trigger) <=> ~WouldTrigger
  <1>1. /\ trigger # NoTrigger /\ trigger.level \in Int /\ trigger.probed \in BOOLEAN
        /\ signal.lo \in Int /\ signal.hi \in Int
    BY Settings, SignalAssumption
  <1> QED BY <1>1 DEF Outside, WouldTrigger, LevelInRange

\* The answer and the frame stay what they are where the signal, the trigger and
\* they are left alone.
LEMMA HonestStays ==
    ASSUME OneShotHonest, UNCHANGED <<signal, trigger, answer, frame>>
    PROVE  OneShotHonest'
  BY DEF OneShotHonest, Outside, Elusive, Above, Below, Period

\* Every step keeps the acquisition honest.
LEMMA HonestNext == SimInv /\ OneShotHonest /\ [Next]_vars => OneShotHonest'
  <1> SUFFICES ASSUME SimInv, OneShotHonest, [Next]_vars PROVE OneShotHonest'
    OBVIOUS
  <1>1. ASSUME answer' \in {"none", "capture"} PROVE OneShotHonest'
    BY <1>1 DEF OneShotHonest
  <1>2. CASE Run \/ Stop \/ ForceTrigger \/ Single \/ TriggerStatus \/ Autoscale
    BY <1>1, <1>2 DEF Run, Stop, ForceTrigger, Single, TriggerStatus, Autoscale, NoAnswer
  <1>3. CASE Capture
    BY <1>1, <1>3, CaptureFrameIs DEF Capture
  <1>4. ASSUME NEW sweep \in Sweeps, Configure(sweep) \/ Acquire(sweep) PROVE OneShotHonest'
    BY <1>1, <1>4 DEF Configure, Acquire, NoAnswer
  <1>5. CASE ArmPoll
    BY <1>5, HonestStays DEF ArmPoll, bench, config
  <1>6. CASE TriggerPoll
    <2>1. /\ pc = "trigger" /\ trigger \in TriggerSettings /\ signal \in Signals
          /\ status = IF WouldTrigger THEN "STOP" ELSE "WAIT"
      BY <1>6 DEF TriggerPoll, SimInv, Waits, TypeOK
    <2>2. UNCHANGED <<signal, trigger, frame>>
      BY <1>6 DEF TriggerPoll, bench, config
    <2>3. answer' = answer \/ (answer' = "miss" /\ status \notin Captured)
      BY <1>6 DEF TriggerPoll
    <2>4. CASE answer' = answer
      BY <2>2, <2>4, HonestStays
    <2>5. CASE answer' = "miss" /\ status \notin Captured
      <3>1. ~WouldTrigger
        BY <2>1, <2>5 DEF Captured
      <3>2. Outside(trigger)
        BY <2>1, <3>1, OutsideIs
      <3>3. Outside(trigger)'
        BY <2>2, <3>2 DEF Outside
      <3> QED BY <2>5, <3>3 DEF OneShotHonest
    <2> QED BY <2>3, <2>4, <2>5
  <1>7. CASE Deliver
    <2>1. /\ pc = "capture" /\ trigger \in TriggerSettings /\ signal \in Signals
          /\ timebase.dt \in Nat \ {0}
          /\ trigger.sweep # "AUTO" => WouldTrigger
      BY <1>7 DEF Deliver, SimInv, Waits, TypeOK, Configured
    <2>2. /\ frame'.trigger = trigger /\ frame'.timebase = timebase /\ frame'.status = StatusFor
          /\ answer' = IF trigger.sweep = "AUTO" THEN "free run" ELSE "one-shot"
      <3> DEFINE as == IF trigger.sweep = "AUTO" THEN "free run" ELSE "one-shot"
      <3>1. CaptureFrame(as)
        BY <1>7 DEF Deliver
      <3> HIDE DEF as
      <3>2. /\ frame'.status = StatusFor /\ frame'.timebase = timebase /\ frame'.trigger = trigger
            /\ answer' = as
        BY <3>1, CaptureFrameIs
      <3> QED BY <3>2 DEF as
    <2>3. UNCHANGED signal
      BY <1>7 DEF Deliver, bench
    <2>4. answer' = "one-shot" => ~Outside(frame.trigger)'
      <3>1. ASSUME answer' = "one-shot" PROVE ~Outside(trigger)
        BY <2>1, <2>2, <3>1, OutsideIs
      <3> QED BY <2>2, <2>3, <3>1 DEF Outside
    <2>5. ASSUME frame'.status # "TD", ~Outside(frame.trigger)'
          PROVE  Elusive(frame.trigger, frame.timebase)'
      <3>1. ~Outside(trigger)
        BY <2>2, <2>3, <2>5 DEF Outside
      <3>2. trigger # NoTrigger /\ trigger.probed
        BY <2>1, <3>1, OutsideIs DEF WouldTrigger
      <3>3. ~Fires
        BY <2>2, <2>5 DEF StatusFor
      <3>4. Elusive(trigger, timebase)
        BY <2>1, <3>2, <3>3, CrossingFound
      <3> QED BY <2>2, <2>3, <3>4 DEF Elusive, Above, Below, Period
    <2>6. frame'.status # "TD" => frame'.status = IF trigger.sweep = "AUTO" THEN "AUTO" ELSE "WAIT"
      <3>1. trigger # NoTrigger
        BY <2>1, Settings
      <3> QED BY <2>2, <3>1 DEF StatusFor
    <2>7. CASE trigger.sweep = "AUTO"
      <3>1. answer' = "free run"
        BY <2>2, <2>7
      <3> QED BY <2>5, <2>6, <2>7, <3>1 DEF OneShotHonest
    <2>8. CASE trigger.sweep # "AUTO"
      <3>1. answer' = "one-shot"
        BY <2>2, <2>8
      <3> QED BY <2>4, <2>5, <2>6, <2>8, <3>1 DEF OneShotHonest
    <2> QED BY <2>7, <2>8
  <1>8. CASE Triage
    BY <1>8, HonestStays DEF Triage, bench, config
  <1>9. CASE UNCHANGED vars
    BY <1>9, HonestStays DEF vars, bench, config
  <1> QED
    BY <1>2, <1>3, <1>4, <1>5, <1>6, <1>7, <1>8, <1>9 DEF Next

\* A one-shot of acquire() on the simulated scope is a miss only if the signal does
\* not reach the level, and a frame only if it does, whatever was called before; and
\* that frame is triggered unless the signal is on one side of the level for less
\* than a sample or takes longer than the two windows to come back: then, and only
\* then, a frame that is not triggered is handed over (acquire.py:167, scope.py:198).
THEOREM Honest == Spec => []OneShotHonest
  <1>1. Init => OneShotHonest
    BY DEF Init, OneShotHonest
  <1> QED BY <1>1, HonestNext, Invariance, PTL DEF Spec

-----------------------------------------------------------------------------
(* A triggered frame is centred on the crossing. *)

\* Clipping to an interval leaves a number on the side it was of a level inside.
LEMMA ClipSide ==
    ASSUME NEW v \in Int, NEW lo \in Int, NEW hi \in Int, NEW level \in Int, NEW limit \in Nat,
           lo < level, level < hi
    PROVE  /\ v >= level - limit => Clip(v, lo, hi) >= level - limit
           /\ v < level + limit => Clip(v, lo, hi) < level + limit
  BY DEF Clip

\* The crossing a fired trigger was found at.
LEMMA FirstCrossing ==
    ASSUME timebase.dt \in Nat \ {0}, Fires
    PROVE  Min(Crossings) \in Crossings
  <1>1. Crossings \subseteq 1..(2 * Points - 1) /\ Crossings # {}
    BY DEF Fires, Crossings
  <1>2. IsFiniteSet(1..(2 * Points - 1)) /\ 1..(2 * Points - 1) \subseteq Int
    BY ScopeAssumption, FS_Interval
  <1> HIDE DEF Fires
  <1>3. IsFiniteSet(Crossings) /\ Crossings \in SUBSET Int
    BY <1>1, <1>2, FS_Subset
  <1> QED BY <1>1, <1>3, MinIsLeast

\* capture() puts the crossing where the screen has its trigger.
LEMMA CaptureCentred ==
    ASSUME SimInv, NEW as, CaptureFrame(as)
    PROVE  TriggerCentred'
  <1> DEFINE tr == trigger
             dt == timebase.dt
             delay == timebase.delay
             half == HalfOf(vertical)
             offset == vertical.offset
             at == (Points \div 2) - delay \div dt
             noise == frame'.noise
             limit == Max({Magnitude(v) : v \in {noise[k] : k \in DOMAIN noise}})
  <1> SUFFICES ASSUME frame'.status = "TD", delay % dt = 0,
                      -half < tr.level + offset, tr.level + offset < half,
                      at \in 1..(Points - 1)
               PROVE  \/ /\ tr.slope # "FALLING"
                         /\ frame'.samples[at - 1] < tr.level + limit
                         /\ frame'.samples[at] >= tr.level - limit
                      \/ /\ tr.slope # "RISING"
                         /\ frame'.samples[at - 1] >= tr.level - limit
                         /\ frame'.samples[at] < tr.level + limit
    BY CaptureFrameIs DEF TriggerCentred, NoiseLimit
  <1>1. /\ vertical \in [scale : Nat \ {0}, offset : Int]
        /\ timebase \in [dt : Nat \ {0}, delay : Int]
        /\ trigger \in TriggerSettings \cup {NoTrigger} /\ signal \in Signals
    BY DEF SimInv, Configured, TypeOK
  <1>2. Fires
    BY CaptureFrameIs DEF StatusFor
  <1>3. tr \in TriggerSettings /\ tr.level \in Int
    BY <1>1, <1>2, Settings DEF Fires, WouldTrigger
  <1>4. PICK c \in Crossings : c = Min(Crossings)
    BY <1>1, <1>2, FirstCrossing
  <1>5. /\ c \in 1..(2 * Points - 1)
        /\ \/ tr.slope # "FALLING" /\ At(c * dt) >= tr.level /\ ~ (At((c - 1) * dt) >= tr.level)
           \/ tr.slope # "RISING" /\ ~ (At(c * dt) >= tr.level) /\ At((c - 1) * dt) >= tr.level
    BY <1>4 DEF Crossings
  <1>6. dt \in Nat \ {0} /\ delay \in Int /\ offset \in Int /\ half \in Int
    BY <1>1 DEF HalfOf
  <1>7. Start = c * dt + delay - (Points \div 2) * dt
    BY <1>2, <1>4 DEF Start
  <1>8. Start + at * dt = c * dt /\ Start + (at - 1) * dt = (c - 1) * dt
    <2> HIDE DEF dt, delay
    <2>1. delay \div dt \in Int /\ delay = dt * (delay \div dt)
      BY <1>6, Division
    <2>2. PICK q \in Int : q = delay \div dt
      BY <2>1
    <2>3. PICK h \in Int : h = Points \div 2
      BY ScopeAssumption
    <2>4. at = h - q /\ Start = c * dt + dt * q - h * dt /\ c \in Int
      BY <2>1, <2>2, <2>3, <1>7, <1>5
    <2> HIDE DEF at
    <2>5. Start + at * dt = c * dt
      BY <2>4, <1>6
    <2>6. Start + (at - 1) * dt = (c - 1) * dt
      BY <2>4, <1>6
    <2> QED BY <2>5, <2>6
  <1>9. IsArray(noise) /\ limit \in Nat
        /\ \A k \in DOMAIN noise : noise[k] \in Int /\ -limit <= noise[k] /\ noise[k] <= limit
    <2>1. IsArray(noise)
      BY CaptureFrameIs, NoiseAssumption
    <2> QED BY <2>1, NoiseBound
  <1>10. ASSUME NEW i \in 0..(Points - 1)
         PROVE  LET v == At(Start + i * dt)
                IN  /\ v >= tr.level => frame'.samples[i] >= tr.level - limit
                    /\ ~ (v >= tr.level) => frame'.samples[i] < tr.level + limit
    <2> DEFINE v == At(Start + i * dt)
               e == noise[i % Cardinality(DOMAIN noise)]
    <2>1. e \in Int /\ -limit <= e /\ e <= limit
      <3> DEFINE m == Cardinality(DOMAIN noise)
      <3>1. m \in Nat \ {0} /\ DOMAIN noise = 0..(m - 1)
        BY <1>9 DEF IsArray
      <3>2. i % m \in 0..(m - 1)
        <4>1. i \in Int
          BY ScopeAssumption
        <4> HIDE DEF m
        <4> QED BY <3>1, <4>1, Division
      <3> QED BY <3>1, <3>2, <1>9
    <2>2. v \in Int
      <3>1. IsArray(signal.wave)
        BY <1>1, SignalAssumption
      <3> DEFINE p == Cardinality(DOMAIN signal.wave)
      <3>2. p \in Nat \ {0} /\ DOMAIN signal.wave = 0..(p - 1) /\ \A t \in 0..(p - 1) : signal.wave[t] \in Int
        BY <3>1 DEF IsArray
      <3>3. Start + i * dt \in Int
        <4> HIDE DEF dt, delay
        <4>1. c * dt \in Int /\ Points \div 2 \in Int /\ (Points \div 2) * dt \in Int /\ i * dt \in Int
          BY <1>5, <1>6, ScopeAssumption
        <4> QED BY <4>1, <1>6, <1>7
      <3>4. (Start + i * dt) % p \in 0..(p - 1)
        <4> HIDE DEF p, dt
        <4> QED BY <3>2, <3>3, Division
      <3> QED BY <3>2, <3>4 DEF At
    <2>3. frame'.samples[i] = Clip(v + e, -offset - half, -offset + half)
      BY CaptureFrameIs DEF Render, Half
    <2> HIDE DEF v, e, limit, half, offset, noise
    <2>4. /\ -offset - half \in Int /\ -offset + half \in Int /\ v + e \in Int
          /\ -offset - half < tr.level /\ tr.level < -offset + half
      BY <1>3, <1>6, <2>1, <2>2
    <2>5. /\ v + e >= tr.level - limit => frame'.samples[i] >= tr.level - limit
          /\ v + e < tr.level + limit => frame'.samples[i] < tr.level + limit
      BY <1>3, <1>9, <2>3, <2>4, ClipSide
    <2>6. /\ v >= tr.level => v + e >= tr.level - limit
          /\ ~ (v >= tr.level) => v + e < tr.level + limit
      BY <1>3, <1>9, <2>1, <2>2
    <2> QED BY <2>5, <2>6 DEF v
  <1>11. at \in 0..(Points - 1) /\ at - 1 \in 0..(Points - 1)
    <2> HIDE DEF at
    <2> QED BY ScopeAssumption
  <1>12. /\ At(c * dt) >= tr.level => frame'.samples[at] >= tr.level - limit
         /\ ~ (At(c * dt) >= tr.level) => frame'.samples[at] < tr.level + limit
    BY <1>8, <1>10, <1>11
  <1>13. /\ At((c - 1) * dt) >= tr.level => frame'.samples[at - 1] >= tr.level - limit
         /\ ~ (At((c - 1) * dt) >= tr.level) => frame'.samples[at - 1] < tr.level + limit
    BY <1>8, <1>10, <1>11
  <1> HIDE DEF at, limit, dt, tr
  <1> QED BY <1>5, <1>12, <1>13

\* Every step keeps the frame centred.
LEMMA CentredNext == SimInv /\ TriggerCentred /\ [Next]_vars => TriggerCentred'
  <1> SUFFICES ASSUME SimInv, TriggerCentred, [Next]_vars PROVE TriggerCentred'
    OBVIOUS
  <1>1. ASSUME frame' = NoFrame PROVE TriggerCentred'
    BY <1>1 DEF TriggerCentred
  <1>2. ASSUME UNCHANGED frame PROVE TriggerCentred'
    BY <1>2 DEF TriggerCentred, NoiseLimit
  <1>3. CASE Run \/ Stop \/ ForceTrigger \/ Single \/ TriggerStatus \/ Autoscale
    BY <1>1, <1>3 DEF Run, Stop, ForceTrigger, Single, TriggerStatus, Autoscale, NoAnswer
  <1>4. ASSUME NEW sweep \in Sweeps, Configure(sweep) \/ Acquire(sweep) PROVE TriggerCentred'
    BY <1>1, <1>4 DEF Configure, Acquire, NoAnswer
  <1>5. CASE Capture \/ Deliver
    BY <1>5, CaptureCentred DEF Capture, Deliver
  <1>6. CASE ArmPoll \/ TriggerPoll \/ Triage \/ UNCHANGED vars
    BY <1>2, <1>6 DEF ArmPoll, TriggerPoll, Triage, vars
  <1> QED
    BY <1>3, <1>4, <1>5, <1>6 DEF Next

\* A frame that says it is triggered shows the crossing that was asked for where
\* the screen has its trigger position, within the noise, clipped or not
\* (SimScope!TriggerCentred).
THEOREM Centred == Spec => []TriggerCentred
  <1>1. Init => TriggerCentred
    BY DEF Init, TriggerCentred
  <1> QED BY <1>1, CentredNext, Invariance, PTL DEF Spec

=============================================================================
