------------------------------- MODULE Lenses -------------------------------
(***************************************************************************)
(* The always-on feature vector of a captured waveform                     *)
(* (analysis/describe.py) and the verdict it is routed to                  *)
(* (analysis/classify.py).  A waveform is a function on 0..n-1, as an      *)
(* array is; voltages are whole steps, Volt of them to the volt.  Spectral *)
(* features are arguments here: their values are left open.                *)
(***************************************************************************)
EXTENDS Integers, FiniteSetsExt

Volt == 50

Size(wave) == Cardinality(DOMAIN wave)
Values(wave) == {wave[i] : i \in DOMAIN wave}
Lowest(wave) == Min(Values(wave))
Highest(wave) == Max(Values(wave))
Vpp(wave) == Highest(wave) - Lowest(wave)

Magnitude(x) == IF x < 0 THEN -x ELSE x

Total(wave) ==
    LET upTo[i \in -1..(Size(wave) - 1)] == IF i = -1 THEN 0 ELSE upTo[i - 1] + wave[i]
    IN  upTo[Size(wave) - 1]

-----------------------------------------------------------------------------
(* Edges and duty: the state latched by a band about the midline, an       *)
(* eighth of the swing to each side.  Eightfold, to stay in integers.      *)

\* In the band, a sample holds the state of the one before it; at the start, the
\* first sample compares with the midline.
LatchedNoBand(wave) ==
    LET mid2 == Lowest(wave) + Highest(wave)
    IN  [i \in DOMAIN wave |-> 2 * wave[i] >= mid2]

Latched(wave) ==
    LET mid8 == 4 * (Lowest(wave) + Highest(wave))
        band8 == Vpp(wave)
        state[i \in DOMAIN wave] ==
            \/ 8 * wave[i] > mid8 + band8
            \/ 8 * wave[i] >= mid8 - band8 /\ (IF i = 0 THEN 8 * wave[0] >= mid8 ELSE state[i - 1])
    IN  [i \in DOMAIN wave |-> state[i]]

Edges(wave) ==
    IF Vpp(wave) = 0 THEN 0
    ELSE LET high == Latched(wave)
         IN  Cardinality({i \in DOMAIN wave \ {0} : high[i] # high[i - 1]})

-----------------------------------------------------------------------------
(* Levels: runs of adjacent bins, of 64, that hold more than 8% each.      *)

Bins == 64

Levels(wave) ==
    IF Vpp(wave) = 0 THEN 1
    ELSE LET lo == Lowest(wave)
             vpp == Vpp(wave)
             bin == [i \in DOMAIN wave |-> Min({((wave[i] - lo) * Bins) \div vpp, Bins - 1})]
             dominant == {b \in Values(bin) :
                             100 * Cardinality({i \in DOMAIN wave : bin[i] = b}) > 8 * Size(wave)}
         IN  Max({1, Cardinality({b \in dominant : b - 1 \notin dominant})})

-----------------------------------------------------------------------------
(* Crest factor: half the swing over the deviation from the mean, here as  *)
(* a comparison of squares with num / 5.                                   *)

Spread(wave) ==
    LET squares == [i \in DOMAIN wave |-> wave[i] * wave[i]]
    IN  Size(wave) * Total(squares) - Total(wave) * Total(wave)

HalfSwingSquared(wave) == 25 * Vpp(wave) * Vpp(wave) * Size(wave) * Size(wave)

\* Below 1.2, and at most 1.7.
SquareCrest(wave) == HalfSwingSquared(wave) < 144 * Spread(wave)
SineCrest(wave) == ~SquareCrest(wave) /\ HalfSwingSquared(wave) <= 289 * Spread(wave)

-----------------------------------------------------------------------------
(* Self-repeat: the strongest autocorrelation past its first return below  *)
(* zero, and the lag where it is.                                          *)

NoRepeat == [lag |-> 0, periodic |-> FALSE]

Autocorrelation(wave) ==
    LET n == Size(wave)
        sum == Total(wave)
        x == [i \in DOMAIN wave |-> n * wave[i] - sum]
    IN  [lag \in DOMAIN wave |-> Total([i \in 0..(n - 1 - lag) |-> x[i] * x[i + lag]])]

RepeatFromStart(wave) ==
    IF Size(wave) < 16 \/ Vpp(wave) = 0 THEN NoRepeat
    ELSE LET corr == Autocorrelation(wave)
             lags == DOMAIN wave \ {0}
             best == Max({corr[k] : k \in lags})
         IN  [lag |-> Min({k \in lags : corr[k] = best}), periodic |-> 2 * best >= corr[0]]

Repeat(wave) ==
    IF Size(wave) < 16 \/ Vpp(wave) = 0 THEN NoRepeat
    ELSE LET corr == Autocorrelation(wave)
             below == {k \in DOMAIN wave : corr[k] < 0}
             lags == {k \in DOMAIN wave : k >= IF below = {} THEN 1 ELSE Min(below)}
             best == Max({corr[k] : k \in lags})
         IN  IF best <= 0 THEN NoRepeat
             ELSE [lag |-> Min({k \in lags : corr[k] = best}), periodic |-> 2 * best >= corr[0]]

-----------------------------------------------------------------------------
(* The dense views: the value histogram, as the number of samples in each  *)
(* bin, and the slices of time, as sets of samples.                        *)

HistogramOpen(wave, bins) ==
    LET lo == Lowest(wave)
        vpp == Vpp(wave)
        bin(i) == IF vpp = 0 THEN bins \div 2 ELSE ((wave[i] - lo) * bins) \div vpp
    IN  [b \in 0..(bins - 1) |-> Cardinality({i \in DOMAIN wave : bin(i) = b})]

\* Half a volt to each side of a flat trace; the last bin is closed.
Histogram(wave, bins) ==
    LET lo == Lowest(wave)
        vpp == Vpp(wave)
        bin(i) == IF vpp = 0 THEN bins \div 2 ELSE Min({((wave[i] - lo) * bins) \div vpp, bins - 1})
    IN  [b \in 0..(bins - 1) |-> Cardinality({i \in DOMAIN wave : bin(i) = b})]

\* More slices than samples leave some of them empty: they are skipped.
TimeBins(wave, bins) ==
    LET edge(k) == (k * Size(wave)) \div bins
    IN  {edge(k)..(edge(k + 1) - 1) : k \in 0..(bins - 1)} \ {{}}

-----------------------------------------------------------------------------
(* The verdict. *)

\* Flat: the swing is at most a thousandth of the mean, or of a volt.
Flat(wave) ==
    LET reference == Max({Magnitude(Total(wave)), Volt * Size(wave)})
    IN  1000 * Vpp(wave) * Size(wave) <= reference

\* describe(): what the verdict and a decoder's seed are computed from.
Describe(wave) ==
    [flat   |-> Flat(wave), levels |-> Levels(wave), edges |-> Edges(wave),
     repeat |-> Repeat(wave),
     crest  |-> IF Vpp(wave) = 0 THEN "none"
                ELSE IF SquareCrest(wave) THEN "square" ELSE IF SineCrest(wave) THEN "sine" ELSE "high"]

\* Spectral flatness: below 0.1, from 0.3 up, or between them.
Flatness == {"tonal", "between", "broad"}

ClassifyNoiseFirst(f, flatness, tone) ==
    CASE f.flat -> "FLAT_DC"
      [] ~f.flat /\ flatness = "broad" -> "NOISE"
      [] ~f.flat /\ flatness # "broad" /\ f.levels = 2 /\ f.crest = "square" /\ f.edges > 0 -> "DIGITAL"
      [] OTHER -> "UNKNOWN"

\* classify(); tone: a dominant tone was found.
Classify(f, flatness, tone) ==
    IF f.flat THEN "FLAT_DC"
    ELSE IF flatness = "broad" /\ ~f.repeat.periodic THEN "NOISE"
    ELSE IF f.levels = 2 /\ f.crest = "square" /\ f.edges > 0 THEN "DIGITAL"
    ELSE IF f.repeat.periodic /\ flatness = "tonal" /\ f.crest = "sine" /\ tone THEN "SINE"
    ELSE IF f.repeat.periodic THEN "MODULATED"
    ELSE "UNKNOWN"
=============================================================================
