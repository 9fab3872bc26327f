------------------------- MODULE SignalGenLinkProofs -------------------------
(***************************************************************************)
(* Theorems about SignalGenLink: an operation that finds no answer owed on *)
(* the line is right about what it reports and disturbs no other channel,  *)
(* for all settings, however many lines are lost.                          *)
(***************************************************************************)
EXTENDS SignalGenLink, SequenceTheorems, TLAPS

-----------------------------------------------------------------------------
(* Sequences, whatever they are made of. *)

IsSeq(s) == s \in Seq(Range(s))

\* A sequence over any set is one.
LEMMA AnySeq ==
    ASSUME NEW S, NEW s \in Seq(S)
    PROVE  IsSeq(s) /\ Len(s) \in Nat /\ DOMAIN s = 1..Len(s)
<1>1. Len(s) \in Nat /\ s \in [1..Len(s) -> S]
    BY LenProperties
<1>2. s \in [1..Len(s) -> Range(s)]
    BY <1>1 DEF Range
<1>3. [1..Len(s) -> Range(s)] \subseteq Seq(Range(s))
    BY <1>1, SeqDef
<1> QED
    BY <1>1, <1>2, <1>3 DEF IsSeq

\* The length of a sequence, and when it is empty.
LEMMA SeqLength ==
    ASSUME NEW s, IsSeq(s)
    PROVE  Len(s) \in Nat /\ DOMAIN s = 1..Len(s) /\ (s = <<>> <=> Len(s) = 0)
<1>1. Len(s) \in Nat /\ DOMAIN s = 1..Len(s)
    BY LenProperties DEF IsSeq
<1>2. s # <<>> => Len(s) # 0
    BY EmptySeq DEF IsSeq
<1> QED
    BY <1>1, <1>2

\* Something is appended.
LEMMA SeqAppend ==
    ASSUME NEW s, IsSeq(s), NEW e
    PROVE  /\ IsSeq(Append(s, e)) /\ Len(Append(s, e)) = Len(s) + 1 /\ Append(s, e) # <<>>
           /\ \A i \in 1..Len(s) : Append(s, e)[i] = s[i]
           /\ Append(s, e)[Len(s) + 1] = e
<1> DEFINE S == Range(s) \cup {e}
<1>1. s \in Seq(S) /\ e \in S
    BY SeqMonotonic DEF IsSeq
<1> HIDE DEF S
<1>2. Append(s, e) \in Seq(S)
    BY <1>1, AppendProperties
<1>3. IsSeq(Append(s, e))
    BY <1>2, AnySeq
<1>4. /\ Len(Append(s, e)) = Len(s) + 1 /\ Append(s, e) # <<>>
      /\ \A i \in 1..Len(s) : Append(s, e)[i] = s[i]
      /\ Append(s, e)[Len(s) + 1] = e
    BY <1>1, AppendProperties
<1> QED
    BY <1>3, <1>4

\* The head is taken off.
LEMMA SeqTail ==
    ASSUME NEW s, IsSeq(s), s # <<>>
    PROVE  /\ IsSeq(Tail(s)) /\ Len(Tail(s)) = Len(s) - 1 /\ Head(s) = s[1]
           /\ \A i \in 1..Len(Tail(s)) : Tail(s)[i] = s[i + 1]
<1>1. Tail(s) \in Seq(Range(s))
    BY HeadTailProperties DEF IsSeq
<1>2. Head(s) = s[1]
    OBVIOUS
<1> QED
    BY <1>1, <1>2, AnySeq, HeadTailProperties DEF IsSeq

\* Something is put in front.
LEMMA SeqCons ==
    ASSUME NEW s, IsSeq(s), NEW e
    PROVE  /\ IsSeq(<<e>> \o s) /\ Len(<<e>> \o s) = Len(s) + 1
           /\ (<<e>> \o s)[1] = e /\ Head(<<e>> \o s) = e /\ <<e>> \o s # <<>>
           /\ \A i \in 1..Len(s) : (<<e>> \o s)[i + 1] = s[i]
<1> DEFINE S == Range(s) \cup {e}
<1>1. s \in Seq(S) /\ <<e>> \in Seq(S) /\ Len(<<e>>) = 1 /\ <<e>>[1] = e
    BY SeqMonotonic DEF IsSeq
<1> HIDE DEF S
<1>2. /\ <<e>> \o s \in Seq(S) /\ Len(<<e>> \o s) = 1 + Len(s)
      /\ \A i \in 1..1 + Len(s) : (<<e>> \o s)[i] = IF i <= 1 THEN <<e>>[i] ELSE s[i - 1]
    BY <1>1, ConcatProperties
<1>3. Len(s) \in Nat
    BY <1>1, LenProperties
<1>4. (<<e>> \o s)[1] = e
    BY <1>1, <1>2, <1>3
<1>5. <<e>> \o s # <<>>
    BY <1>1, <1>2, <1>3, EmptySeq
<1>6. \A i \in 1..Len(s) : (<<e>> \o s)[i + 1] = s[i]
    BY <1>2, <1>3
<1>7. Head(<<e>> \o s) = (<<e>> \o s)[1]
    OBVIOUS
<1>8. IsSeq(<<e>> \o s)
    BY <1>2, AnySeq
<1> QED
    BY <1>2, <1>3, <1>4, <1>5, <1>6, <1>7, <1>8

\* A sequence of one.
LEMMA SeqOne ==
    ASSUME NEW e
    PROVE  /\ IsSeq(<<e>>) /\ <<e>> # <<>> /\ Head(<<e>>) = e /\ Tail(<<e>>) = <<>> /\ Len(<<e>>) = 1
           /\ Append(<<>>, e) = <<e>> /\ <<e>> \o <<>> = <<e>> /\ IsSeq(<<>>)
<1>1. <<e>> \in Seq({e}) /\ <<>> \in Seq({e})
    OBVIOUS
<1>2. IsSeq(<<e>>) /\ IsSeq(<<>>)
    BY <1>1, AnySeq
<1>3. <<e>> # <<>> /\ Head(<<e>>) = e /\ Tail(<<e>>) = <<>> /\ Len(<<e>>) = 1
    OBVIOUS
<1>4. Append(<<>>, e) = <<e>>
    OBVIOUS
<1>5. <<e>> \o <<>> = <<e>>
    BY <1>1, ConcatEmptySeq
<1> QED
    BY <1>2, <1>3, <1>4, <1>5

-----------------------------------------------------------------------------
(* The scripts. *)

Ops     == {"configure_channel", "enable_output", "read_channel", "output_enabled",
            "set_phase_deg", "upload_arbitrary", "read_arbitrary", "idn"}
Setters == {"configure_channel", "enable_output"}
Readers == {"read_channel", "output_enabled", "read_arbitrary", "idn"}

\* What an operation is called with ...
Asked(c) ==
    /\ c.op \in Ops
    /\ c.at \in Channels \cup Slots
    /\ c.op \in Setters \cup {"read_channel", "output_enabled"} => c.at \in Channels
    /\ c.op = "configure_channel" => c.arg \in Configs
    /\ c.op = "enable_output" => c.arg \in BOOLEAN
    /\ c.op = "upload_arbitrary" => c.arg \in Seq(Int)

\* ... and, if it is legal, writes to the line for.
Sound(c) == Asked(c) /\ Legal(c.op, c.at, c.arg)

ScriptOf(c) == Script(c.op, c.at, c.arg)

\* The fields of a channel's settings.
LEMMA ConfigFields ==
    ASSUME NEW s \in Config
    PROVE  /\ s.shape \in Shapes /\ s.slot \in Int /\ s.frequency \in Nat /\ s.amplitude \in Nat
           /\ s.offset \in Int /\ s.duty \in Nat
<1>1. s.shape \in Shapes
    BY DEF Config
<1>2. s.slot \in Int
    BY DEF Config
<1>3. s.frequency \in Nat
    BY DEF Config
<1>4. s.amplitude \in Nat
    BY DEF Config
<1>5. s.offset \in Int
    BY DEF Config
<1>6. s.duty \in Nat
    <2> DEFINE Duties == 0..10000
    <2>1. s.duty \in Duties
        BY DEF Config
    <2>2. Duties \subseteq Nat
        OBVIOUS
    <2> HIDE DEF Duties
    <2> QED
        BY <2>1, <2>2
<1> QED
    BY <1>1, <1>2, <1>3, <1>4, <1>5, <1>6, Zenon

\* The switch is one of them, and can be set on its own.
LEMMA ConfigSwitch ==
    ASSUME NEW s \in Config
    PROVE  /\ s.enabled \in BOOLEAN /\ s = [s EXCEPT !.enabled = s.enabled]
           /\ \A on \in BOOLEAN : [s EXCEPT !.enabled = on] \in Config
<1>1. s.enabled \in BOOLEAN
    BY DEF Config
<1>2. s = [s EXCEPT !.enabled = s.enabled]
    BY DEF Config
<1>3. ASSUME NEW on \in BOOLEAN PROVE [s EXCEPT !.enabled = on] \in Config
    <2> DEFINE Duties == 0..10000
               All == [shape : Shapes, slot : Int, frequency : Nat \ {0}, amplitude : Nat,
                       offset : Int, duty : Duties, enabled : BOOLEAN]
    <2>1. All = Config
        BY DEF Config
    <2> HIDE DEF Duties
    <2>2. s \in All => [s EXCEPT !.enabled = on] \in All
        OBVIOUS
    <2> HIDE DEF All
    <2> QED
        BY <2>1, <2>2
<1> QED
    BY <1>1, <1>2, <1>3

\* Settings are codes: writing one and reading one.
LEMMA Transactions ==
    ASSUME NEW reg, NEW data
    PROVE  /\ Read(reg).op = "r" /\ Read(reg).reg = reg
           /\ Write(reg, data).op = "w" /\ Write(reg, data).reg = reg /\ Write(reg, data).data = data
BY DEF Read, Write

\* Two scripts one after the other.
LEMMA Concat ==
    ASSUME NEW s, NEW t, IsSeq(s), IsSeq(t)
    PROVE  /\ IsSeq(s \o t) /\ Len(s \o t) = Len(s) + Len(t)
           /\ \A i \in 1..Len(s) + Len(t) : (s \o t)[i] = IF i <= Len(s) THEN s[i] ELSE t[i - Len(s)]
<1> DEFINE S == Range(s) \cup Range(t)
<1>1. s \in Seq(S) /\ t \in Seq(S)
    BY SeqMonotonic DEF IsSeq
<1> HIDE DEF S
<1>2. s \o t \in Seq(S)
    BY <1>1, ConcatProperties
<1>3. IsSeq(s \o t)
    BY <1>2, AnySeq
<1> QED
    BY <1>1, <1>3, ConcatProperties

\* One transaction for each register of a channel.
LEMMA Registers ==
    ASSUME NEW f, DOMAIN f = DOMAIN Params, f = [i \in DOMAIN Params |-> f[i]]
    PROVE  IsSeq(f) /\ Len(f) = 5
<1>1. DOMAIN Params = 1..5
    BY DEF Params
<1>2. f \in [1..5 -> Range(f)]
    BY <1>1 DEF Range
<1>3. f \in Seq(Range(f))
    BY <1>2, SeqDef
<1> QED
    BY <1>1, <1>3, LenProperties DEF IsSeq

\* Enabling an output is reading the pair and writing it.
LEMMA OutputScript ==
    /\ IsSeq(SetOutput) /\ Len(SetOutput) = 2
    /\ SetOutput[1] = Read(Output) /\ SetOutput[2] = Write(Output, 0)
<1>1. SetOutput \in Seq({Read(Output), Write(Output, 0)})
    BY DEF SetOutput
<1>2. Len(SetOutput) = 2 /\ SetOutput[1] = Read(Output) /\ SetOutput[2] = Write(Output, 0)
    BY DEF SetOutput
<1> QED
    BY <1>1, <1>2, AnySeq

\* The transactions of configure_channel ...
LEMMA ConfigureScript ==
    ASSUME NEW c, c.op = "configure_channel"
    PROVE  /\ Len(ScriptOf(c)) = 7 /\ IsSeq(ScriptOf(c))
           /\ \A k \in 1..5 : ScriptOf(c)[k] = Write(<<Params[k], c.at>>, Encode(c.arg)[k])
           /\ ScriptOf(c)[6] = Read(Output) /\ ScriptOf(c)[7] = Write(Output, 0)
<1> DEFINE f == [i \in DOMAIN Params |-> Write(<<Params[i], c.at>>, Encode(c.arg)[i])]
<1>1. ScriptOf(c) = f \o SetOutput
    BY DEF ScriptOf, Script
<1>2. IsSeq(f) /\ Len(f) = 5
    BY Registers
<1>3. \A k \in 1..5 : f[k] = Write(<<Params[k], c.at>>, Encode(c.arg)[k])
    BY DEF Params
<1> HIDE DEF f
<1>4. /\ IsSeq(ScriptOf(c)) /\ Len(ScriptOf(c)) = 7
      /\ \A i \in 1..7 : ScriptOf(c)[i] = IF i <= 5 THEN f[i] ELSE SetOutput[i - 5]
    <2>1. /\ IsSeq(f \o SetOutput) /\ Len(f \o SetOutput) = Len(f) + Len(SetOutput)
          /\ \A i \in 1..Len(f) + Len(SetOutput) :
                 (f \o SetOutput)[i] = IF i <= Len(f) THEN f[i] ELSE SetOutput[i - Len(f)]
        BY <1>2, Concat, OutputScript
    <2>2. Len(f) = 5 /\ Len(SetOutput) = 2 /\ Len(f) + Len(SetOutput) = 7
        BY <1>2, OutputScript
    <2> QED
        BY <1>1, <2>1, <2>2
<1>5. ScriptOf(c)[6] = SetOutput[1] /\ ScriptOf(c)[7] = SetOutput[2]
    BY <1>4
<1>6. \A k \in 1..5 : ScriptOf(c)[k] = f[k]
    BY <1>4
<1> QED
    BY <1>3, <1>4, <1>5, <1>6, OutputScript

\* ... of read_channel ...
LEMMA ReadScript ==
    ASSUME NEW c, c.op = "read_channel"
    PROVE  /\ Len(ScriptOf(c)) = 6 /\ IsSeq(ScriptOf(c))
           /\ \A k \in 1..5 : ScriptOf(c)[k] = Read(<<Params[k], c.at>>)
           /\ ScriptOf(c)[6] = Read(Output)
<1> DEFINE f == [i \in DOMAIN Params |-> Read(<<Params[i], c.at>>)]
           g == <<Read(Output)>>
<1>1. ScriptOf(c) = f \o g
    BY DEF ScriptOf, Script
<1>2. IsSeq(f) /\ Len(f) = 5
    BY Registers
<1>3. \A k \in 1..5 : f[k] = Read(<<Params[k], c.at>>)
    BY DEF Params
<1>4. IsSeq(g) /\ Len(g) = 1 /\ g[1] = Read(Output)
    BY SeqOne
<1> HIDE DEF f, g
<1>5. /\ IsSeq(ScriptOf(c)) /\ Len(ScriptOf(c)) = 6
      /\ \A i \in 1..6 : ScriptOf(c)[i] = IF i <= 5 THEN f[i] ELSE g[i - 5]
    <2>1. /\ IsSeq(f \o g) /\ Len(f \o g) = Len(f) + Len(g)
          /\ \A i \in 1..Len(f) + Len(g) :
                 (f \o g)[i] = IF i <= Len(f) THEN f[i] ELSE g[i - Len(f)]
        BY <1>2, <1>4, Concat
    <2>2. Len(f) = 5 /\ Len(g) = 1 /\ Len(f) + Len(g) = 6
        BY <1>2, <1>4
    <2> QED
        BY <1>1, <2>1, <2>2
<1> QED
    BY <1>3, <1>4, <1>5

\* ... and of the others.
LEMMA OtherScripts ==
    ASSUME NEW c
    PROVE  /\ c.op = "enable_output" => ScriptOf(c) = SetOutput
           /\ c.op = "output_enabled" => ScriptOf(c) = <<Read(Output)>>
           /\ c.op = "set_phase_deg" => ScriptOf(c) = <<Write(Phase, c.arg)>>
           /\ c.op = "upload_arbitrary" => ScriptOf(c) = <<Write(Slot(c.at), EncodeWave(c.arg))>>
           /\ c.op = "read_arbitrary" => ScriptOf(c) = <<Read(Slot(c.at))>>
           /\ c.op = "idn" => ScriptOf(c) = <<Read(Identity), Read(Identity)>>
BY DEF ScriptOf, Script

\* The smaller of two numbers.
LEMMA MinOfTwo ==
    ASSUME NEW a \in Int, NEW b \in Int, a <= b
    PROVE  Min({a, b}) = a
<1>1. a \in {a, b} /\ \A y \in {a, b} : a <= y
    OBVIOUS
<1>2. Min({a, b}) \in {a, b} /\ \A y \in {a, b} : Min({a, b}) <= y
    BY <1>1 DEF Min
<1> QED
    BY <1>1, <1>2

\* A setting within its limit has a code within the largest code.
LEMMA RoundWithin ==
    ASSUME NEW x \in Nat, NEW limit \in Nat, limit % 10 = 0, x <= limit
    PROVE  Round(x, 10) \in Int /\ limit \div 10 \in Int /\ Round(x, 10) <= limit \div 10
<1>1. Round(x, 10) = (x + 5) \div 10
    <2>1. 10 \div 2 = 5
        OBVIOUS
    <2> QED
        BY <2>1 DEF Round
<1>2. (x + 5) \div 10 \in Int /\ limit \div 10 \in Int /\ (x + 5) \div 10 <= limit \div 10
    OBVIOUS
<1> QED
    BY <1>1, <1>2

\* The device takes the codes of legal settings as they are.
LEMMA CodesTaken ==
    ASSUME NEW c \in Configs, CheckWithin(c), NEW ch, NEW k \in 1..5
    PROVE  Taken(<<Params[k], ch>>, Encode(c)[k]) = Encode(c)[k]
<1>1. c.frequency \in Nat /\ c.amplitude \in Nat
    BY CallAssumption DEF Config
<1>2. c.frequency <= Limits.frequency /\ c.amplitude <= Limits.amplitude
    BY DEF CheckWithin
<1>3. CASE k = 2
    <2>1. Encode(c)[2] = Round(c.frequency, 10) /\ Params[2] = "frequency"
        BY DEF Encode, Params
    <2>2. Min({Round(c.frequency, 10), Limits.frequency \div 10}) = Round(c.frequency, 10)
        BY <1>1, <1>2, RoundWithin, MinOfTwo, LimitsAssumption
    <2> QED
        BY <1>3, <2>1, <2>2 DEF Taken
<1>4. CASE k = 3
    <2>1. Encode(c)[3] = Round(c.amplitude, 10) /\ Params[3] = "amplitude"
        BY DEF Encode, Params
    <2>2. Min({Round(c.amplitude, 10), Limits.amplitude \div 10}) = Round(c.amplitude, 10)
        BY <1>1, <1>2, RoundWithin, MinOfTwo, LimitsAssumption
    <2> QED
        BY <1>4, <2>1, <2>2 DEF Taken
<1>5. CASE k \in {1, 4, 5}
    BY <1>5 DEF Taken, Params
<1> QED
    BY <1>3, <1>4, <1>5

\* Every other register takes what is written to it.
LEMMA OthersTaken ==
    ASSUME NEW reg \in {Output, Phase, Identity} \cup {Slot(n) : n \in Stored}, NEW data
    PROVE  Taken(reg, data) = data
BY DEF Taken, Output, Phase, Identity, Slot

\* A channel's registers are registers of their own.
LEMMA ParamRegisters ==
    ASSUME NEW ch \in Channels, NEW k \in 1..5
    PROVE  /\ <<Params[k], ch>> \in Register \ {Output, Phase, Identity}
           /\ \A j \in 1..5 : <<Params[j], ch>> = <<Params[k], ch>> => j = k
<1>1. Params[k] \in ParamNames
    BY DEF ParamNames, Range, Params
<1>2. \A j \in 1..5 : Params[j] = Params[k] => j = k
    BY DEF Params
<1>3. Params[k] \notin {"output", "phase", "id"}
    BY DEF Params
<1> QED
    BY <1>1, <1>2, <1>3 DEF Register, Output, Phase, Identity

\* Every script is a sequence of at least one transaction.
LEMMA ScriptLength ==
    ASSUME NEW c, Asked(c)
    PROVE  IsSeq(ScriptOf(c)) /\ Len(ScriptOf(c)) \in Nat \ {0}
<1>1. CASE c.op = "configure_channel"
    <2>1. IsSeq(ScriptOf(c)) /\ Len(ScriptOf(c)) = 7
        BY <1>1, ConfigureScript
    <2> QED
        BY <2>1
<1>2. CASE c.op = "read_channel"
    <2>1. IsSeq(ScriptOf(c)) /\ Len(ScriptOf(c)) = 6
        BY <1>2, ReadScript
    <2> QED
        BY <2>1
<1>3. CASE c.op = "enable_output"
    BY <1>3, OtherScripts, OutputScript
<1>4. CASE c.op = "idn"
    <2>1. <<Read(Identity), Read(Identity)>> \in Seq({Read(Identity)})
        OBVIOUS
    <2>2. Len(<<Read(Identity), Read(Identity)>>) = 2
        OBVIOUS
    <2>3. ScriptOf(c) = <<Read(Identity), Read(Identity)>>
        BY <1>4, OtherScripts
    <2>4. IsSeq(ScriptOf(c))
        BY <2>1, <2>3, AnySeq
    <2>5. Len(ScriptOf(c)) = 2
        BY <2>2, <2>3
    <2> QED
        BY <2>4, <2>5
<1>5. CASE c.op \in {"output_enabled", "set_phase_deg", "upload_arbitrary", "read_arbitrary"}
    BY <1>5, OtherScripts, SeqOne
<1> QED
    BY <1>1, <1>2, <1>3, <1>4, <1>5 DEF Asked, Ops

\* An output is set by reading the pair and writing it, last; what is written
\* before are other registers.
LEMMA SetterScript ==
    ASSUME NEW c, Asked(c), c.op \in Setters
    PROVE  /\ Len(ScriptOf(c)) \in Nat /\ Len(ScriptOf(c)) >= 2
           /\ ScriptOf(c)[Len(ScriptOf(c))] = Write(Output, 0)
           /\ ScriptOf(c)[Len(ScriptOf(c)) - 1] = Read(Output)
           /\ \A k \in 1..Len(ScriptOf(c)) - 2 : /\ ScriptOf(c)[k].op = "w"
                                                 /\ ScriptOf(c)[k].reg \in Register \ {Output}
<1>1. CASE c.op = "configure_channel"
    <2>1. /\ Len(ScriptOf(c)) = 7 /\ ScriptOf(c)[7] = Write(Output, 0) /\ ScriptOf(c)[6] = Read(Output)
          /\ \A k \in 1..5 : ScriptOf(c)[k] = Write(<<Params[k], c.at>>, Encode(c.arg)[k])
        BY <1>1, ConfigureScript
    <2>2. c.at \in Channels
        BY <1>1 DEF Asked, Setters
    <2>3. ASSUME NEW k \in 1..5
          PROVE  ScriptOf(c)[k].op = "w" /\ ScriptOf(c)[k].reg \in Register \ {Output}
        BY <2>1, <2>2, Transactions, ParamRegisters
    <2>4. 7 - 1 = 6 /\ 7 - 2 = 5
        OBVIOUS
    <2> QED
        BY <2>1, <2>3, <2>4
<1>2. CASE c.op = "enable_output"
    <2>1. ScriptOf(c) = SetOutput
        BY <1>2, OtherScripts
    <2>2. 2 - 1 = 1 /\ 1..(2 - 2) = {}
        OBVIOUS
    <2> QED
        BY <2>1, <2>2, OutputScript
<1> QED
    BY <1>1, <1>2 DEF Setters

\* The others touch registers there are, and do not write the pair.
LEMMA OtherScript ==
    ASSUME NEW c, Sound(c), c.op \notin Setters, NEW k \in 1..Len(ScriptOf(c))
    PROVE  /\ ScriptOf(c)[k].op \in {"r", "w"} /\ ScriptOf(c)[k].reg \in Register
           /\ c.op \in Readers => ScriptOf(c)[k].op = "r"
           /\ ScriptOf(c)[k].op = "w" =>
                 /\ Len(ScriptOf(c)) = 1 /\ ScriptOf(c)[k].reg # Output
                 /\ Taken(ScriptOf(c)[k].reg, ScriptOf(c)[k].data) = ScriptOf(c)[k].data
<1>1. {Output, Phase, Identity} \subseteq Register /\ \A n \in Stored : Slot(n) \in Register
    BY DEF Register
<1>2. Output # Phase /\ \A n : Slot(n) # Output
    BY DEF Output, Phase, Slot
<1>3. CASE c.op = "read_channel"
    <2>1. c.at \in Channels
        BY <1>3 DEF Sound, Asked
    <2>2. CASE k \in 1..5
        <3>1. ScriptOf(c)[k] = Read(<<Params[k], c.at>>)
            BY <1>3, <2>2, ReadScript
        <3>2. ScriptOf(c)[k].op = "r" /\ ScriptOf(c)[k].reg = <<Params[k], c.at>>
            BY <3>1, Transactions
        <3>3. <<Params[k], c.at>> \in Register
            BY <2>1, <2>2, ParamRegisters
        <3> QED
            BY <3>2, <3>3
    <2>3. CASE k = 6
        <3>1. ScriptOf(c)[k] = Read(Output)
            BY <1>3, <2>3, ReadScript
        <3> QED
            BY <1>1, <3>1, Transactions
    <2>4. Len(ScriptOf(c)) = 6
        BY <1>3, ReadScript
    <2> QED
        BY <2>2, <2>3, <2>4
<1>4. CASE c.op = "output_enabled"
    <2>1. ScriptOf(c) = <<Read(Output)>>
        BY <1>4, OtherScripts
    <2>2. ScriptOf(c)[k] = Read(Output)
        BY <2>1
    <2> QED
        BY <1>1, <2>2, Transactions
<1>5. CASE c.op = "idn"
    <2>1. ScriptOf(c) = <<Read(Identity), Read(Identity)>>
        BY <1>5, OtherScripts
    <2>2. ScriptOf(c)[k] = Read(Identity)
        BY <2>1
    <2> QED
        BY <1>1, <2>2, Transactions
<1>6. CASE c.op = "set_phase_deg"
    <2>1. ScriptOf(c) = <<Write(Phase, c.arg)>>
        BY <1>6, OtherScripts
    <2>2. ScriptOf(c)[k] = Write(Phase, c.arg) /\ Len(ScriptOf(c)) = 1
        BY <2>1
    <2> QED
        BY <1>1, <1>2, <1>6, <2>2, Transactions, OthersTaken DEF Readers
<1>7. CASE c.op \in {"upload_arbitrary", "read_arbitrary"}
    <2>1. c.at \in Stored
        BY <1>7 DEF Sound, Legal, HasSlot, Stored
    <2>2. CASE c.op = "upload_arbitrary"
        <3>1. ScriptOf(c) = <<Write(Slot(c.at), EncodeWave(c.arg))>>
            BY <2>2, OtherScripts
        <3>2. ScriptOf(c)[k] = Write(Slot(c.at), EncodeWave(c.arg)) /\ Len(ScriptOf(c)) = 1
            BY <3>1
        <3> QED
            BY <1>1, <1>2, <2>1, <2>2, <3>2, Transactions, OthersTaken DEF Readers
    <2>3. CASE c.op = "read_arbitrary"
        <3>1. ScriptOf(c) = <<Read(Slot(c.at))>>
            BY <2>3, OtherScripts
        <3>2. ScriptOf(c)[k] = Read(Slot(c.at))
            BY <3>1
        <3> QED
            BY <1>1, <2>1, <3>2, Transactions
    <2> QED
        BY <1>7, <2>2, <2>3
<1> QED
    BY <1>3, <1>4, <1>5, <1>6, <1>7 DEF Sound, Asked, Ops, Setters

\* No script writes a register twice, and legal values are taken as they are.
LEMMA WritesApart ==
    ASSUME NEW c, Sound(c), NEW k \in 1..Len(ScriptOf(c)), ScriptOf(c)[k].op = "w"
    PROVE  /\ \A j \in 1..Len(ScriptOf(c)) :
                  ScriptOf(c)[j].op = "w" /\ ScriptOf(c)[j].reg = ScriptOf(c)[k].reg => j = k
           /\ ScriptOf(c)[k].reg # Output =>
                  Taken(ScriptOf(c)[k].reg, ScriptOf(c)[k].data) = ScriptOf(c)[k].data
<1>1. CASE c.op = "configure_channel"
    <2>1. c.at \in Channels /\ c.arg \in Configs /\ CheckWithin(c.arg)
        BY <1>1 DEF Sound, Asked, Setters, Legal
    <2>2. /\ Len(ScriptOf(c)) = 7 /\ ScriptOf(c)[7] = Write(Output, 0) /\ ScriptOf(c)[6] = Read(Output)
          /\ \A j \in 1..5 : ScriptOf(c)[j] = Write(<<Params[j], c.at>>, Encode(c.arg)[j])
        BY <1>1, ConfigureScript
    <2>3. ScriptOf(c)[7].reg = Output /\ ScriptOf(c)[6].op = "r"
        BY <2>2, Transactions
    <2>4. ASSUME NEW j \in 1..5
          PROVE  ScriptOf(c)[j].reg = <<Params[j], c.at>> /\ ScriptOf(c)[j].data = Encode(c.arg)[j]
        BY <2>2, Transactions
    <2>5. CASE k \in 1..5
        <3>1. ScriptOf(c)[k].reg # Output
            BY <2>1, <2>4, <2>5, ParamRegisters
        <3>2. ASSUME NEW j \in 1..5, ScriptOf(c)[j].reg = ScriptOf(c)[k].reg
              PROVE  j = k
            <4>1. <<Params[j], c.at>> = <<Params[k], c.at>>
                BY <2>4, <2>5, <3>2
            <4> QED
                BY <2>1, <2>5, <4>1, ParamRegisters
        <3>3. Taken(ScriptOf(c)[k].reg, ScriptOf(c)[k].data) = ScriptOf(c)[k].data
            <4>1. ScriptOf(c)[k].reg = <<Params[k], c.at>> /\ ScriptOf(c)[k].data = Encode(c.arg)[k]
                BY <2>4, <2>5
            <4>2. Taken(<<Params[k], c.at>>, Encode(c.arg)[k]) = Encode(c.arg)[k]
                BY <2>1, <2>5, CodesTaken
            <4> QED
                BY <4>1, <4>2
        <3>4. \A j \in 1..7 : j \in 1..5 \/ j = 6 \/ j = 7
            OBVIOUS
        <3> QED
            BY <2>2, <2>3, <3>1, <3>2, <3>3, <3>4
    <2>6. CASE k = 7
        <3>1. \A j \in 1..5 : ScriptOf(c)[j].reg # Output
            BY <2>1, <2>4, ParamRegisters
        <3> QED
            BY <2>2, <2>3, <2>6, <3>1
    <2> QED
        BY <2>2, <2>3, <2>5, <2>6
<1>2. CASE c.op = "enable_output"
    <2>1. ScriptOf(c) = SetOutput
        BY <1>2, OtherScripts
    <2>2. ScriptOf(c)[1].op = "r" /\ ScriptOf(c)[2].reg = Output /\ Len(ScriptOf(c)) = 2
        BY <2>1, OutputScript, Transactions
    <2> QED
        BY <2>2
<1>3. CASE c.op \notin Setters
    <2>1. /\ Len(ScriptOf(c)) = 1
          /\ Taken(ScriptOf(c)[k].reg, ScriptOf(c)[k].data) = ScriptOf(c)[k].data
        BY <1>3, OtherScript
    <2> QED
        BY <2>1
<1> QED
    BY <1>1, <1>2, <1>3 DEF Setters

\* Every transaction reads or writes a register.
LEMMA ScriptRegisters ==
    ASSUME NEW c, Sound(c), NEW k \in 1..Len(ScriptOf(c))
    PROVE  ScriptOf(c)[k].op \in {"r", "w"} /\ ScriptOf(c)[k].reg \in Register
<1>1. CASE c.op \in Setters
    <2> DEFINE n == Len(ScriptOf(c))
    <2>1. /\ n \in Nat /\ n >= 2 /\ ScriptOf(c)[n] = Write(Output, 0) /\ ScriptOf(c)[n - 1] = Read(Output)
          /\ \A j \in 1..n - 2 : ScriptOf(c)[j].op = "w" /\ ScriptOf(c)[j].reg \in Register \ {Output}
        BY <1>1, SetterScript DEF Sound
    <2>2. Output \in Register
        BY DEF Register
    <2>3. k = n \/ k = n - 1 \/ k \in 1..n - 2
        BY <2>1
    <2> QED
        BY <2>1, <2>2, <2>3, Transactions
<1>2. CASE c.op \notin Setters
    BY <1>2, OtherScript
<1> QED
    BY <1>1, <1>2

-----------------------------------------------------------------------------
(* The inductive invariant: types.  The script is run from its first        *)
(* transaction; what a setter has read when it writes is a pair; there is    *)
(* at most one line or answer for each operation, and one more behind an     *)
(* answer cut in two.                                                        *)

DriverInv ==
    /\ pc \in {"idle", "readline"} /\ outcome \in {"none", "returned", "raised"}
    /\ calls \in 0..MaxCalls /\ cut \in 0..calls
    /\ Asked(call) /\ (pc = "readline" => Sound(call) /\ calls >= 1)
    /\ step \in 1..Len(Now)

SeenInv ==
    /\ IsSeq(seen) /\ Len(seen) <= step
    /\ pc = "readline" => Len(seen) <= step - 1
    /\ pc = "readline" /\ call.op \in Setters =>
           IF step < Len(Now) THEN seen = <<>> ELSE seen # <<>> /\ Last(seen) \in Pair

IsLine(l) ==
    /\ l.op \in {"r", "w"} /\ l.reg \in Register
    /\ l.op = "w" /\ l.reg = Output => l.data \in Pair

IsAnswer(a) ==
    \/ a = Ok \/ a = Rest
    \/ a.is = "r" /\ a.reg \in Register /\ (a.reg = Output => a.data \in Pair)

WireInv ==
    /\ IsSeq(line) /\ \A i \in 1..Len(line) : IsLine(line[i])
    /\ IsSeq(inbox) /\ \A i \in 1..Len(inbox) : IsAnswer(inbox[i])
    /\ DOMAIN gen = Register /\ gen[Output] \in Pair

\* The rest of an answer to the operation under way is to be read.
Broken == inbox # <<>> /\ Head(inbox) = Rest /\ cut = calls

BacklogInv ==
    Len(line) + Len(inbox) <= calls + (IF pc = "readline" /\ Broken THEN 1 ELSE 0)

Known(s) == s = NoConfig \/ \E config \in Configs, on \in BOOLEAN : s = [config EXCEPT !.enabled = on]

SimInv ==
    /\ DOMAIN sim = {"configs", "waves"} /\ DOMAIN sim.configs = Channels
    /\ \A ch \in Channels : Known(sim.configs[ch])

BaseInv == DriverInv /\ SeenInv /\ WireInv /\ BacklogInv /\ SimInv

-----------------------------------------------------------------------------
(* The inductive invariant: what is owed to an operation that found nothing *)
(* owed.                                                                    *)

\* Its line is the next to be executed, and leaves the other output as it is.
HeadInv ==
    \A i \in 1..Len(line) : line[i].by.quiet =>
        /\ i = 1
        /\ line[i].op = "w" /\ line[i].reg = Output =>
              line[i].data[Other(line[i].by.at)] = gen[Output][Other(line[i].by.at)]

Mine == Line(call, step, seen)

Lost     == line = <<>> /\ inbox = <<>>
Written  == Len(line) = 1 /\ line[1] = Mine /\ inbox = <<>>
Answered == Len(inbox) = 1 /\ inbox[1] = Answer(Mine) /\ line = <<>>

\* What it has written so far is there, what it has read is what is there.
Effects == \A k \in 1..step - 1 : Now[k].op = "w" => gen[Now[k].reg] = Now[k].data
Reads ==
    call.op \in Readers => Len(seen) = step - 1 /\ \A k \in 1..step - 1 : seen[k] = gen[Now[k].reg]

\* The pair it has read is there until its line is executed.
Unchanged == call.op \in Setters /\ step = Len(Now) => Last(seen) = gen[Output]
Executed  == Mine.op = "w" => gen[Mine.reg] = Taken(Mine.reg, Mine.data)

Owed ==
    /\ cut # calls
    /\ Lost \/ (Written /\ Unchanged) \/ (Answered /\ Executed)
    /\ Effects /\ Reads

QuietInv == pc = "readline" /\ call.quiet => Broken \/ Owed

Inv == BaseInv /\ HeadInv /\ QuietInv

-----------------------------------------------------------------------------
(* The steps, by what they do to the driver. *)

Started ==
    /\ pc = "idle" /\ calls < MaxCalls /\ calls' = calls + 1
    /\ Asked(call') /\ call'.quiet = Quiet
    /\ step' = 1 /\ seen' = <<>>
    /\ \/ /\ Sound(call') /\ pc' = "readline" /\ outcome' = "none"
          /\ line' = Append(line, Line(call', 1, <<>>))
       \/ pc' = "idle" /\ outcome' = "raised" /\ line' = line
    /\ UNCHANGED <<cut, inbox, gen, sim, sure>>

Stopped ==
    /\ pc = "readline" /\ pc' = "idle" /\ outcome' \in {"returned", "raised"}
    /\ sim' = IF outcome' = "returned" THEN SimDo(call) ELSE sim
    /\ sure' = IF outcome' = "returned" /\ call.quiet /\ cut' # calls THEN sure \cup Set(call) ELSE {}
    /\ UNCHANGED <<call, step, calls, line, gen>>

Continued ==
    /\ pc = "readline" /\ step < Len(Now)
    /\ step' = step + 1 /\ line' = Append(line, Line(call, step + 1, seen'))
    /\ UNCHANGED <<pc, call, outcome, calls, gen, sim, sure>>

Heard(data) == seen' = IF Now[step].op = "r" THEN Append(seen, data) ELSE seen

\* What an answer is read as: its contents, or a part of them; of a pair, the pair.
Datum(data) ==
    Now[step].op = "r" /\ Now[step].reg = Output => data \in Pair /\ data = Head(inbox).data

Took(data) ==
    /\ inbox # <<>> /\ Expected(Head(inbox))
    /\ Heard(data) /\ Datum(data)
    /\ (Stopped /\ (outcome' = "returned" => step = Len(Now))) \/ Continued

Accepted ==
    /\ inbox' = Tail(inbox) /\ cut' = cut
    /\ \E data : Took(data) /\ (Now[step].op = "r" => data = Head(inbox).data)

CutShort == inbox' = <<Rest>> \o Tail(inbox) /\ cut = 0 /\ cut' = calls /\ \E data : Took(data)

GivenUp ==
    /\ Stopped /\ outcome' = "raised" /\ seen' = seen
    /\ \/ inbox = <<>> /\ inbox' = inbox /\ cut' = cut
       \/ inbox # <<>> /\ inbox' = Tail(inbox) /\ cut' = cut
       \/ /\ inbox # <<>> /\ cut = 0 /\ cut' = calls
          /\ \E rest \in {Ok, Rest} : inbox' = <<rest>> \o Tail(inbox)

\* An operation ends.
LEMMA EndStops ==
    ASSUME NEW how \in {"returned", "raised"}, pc = "readline", End(how), UNCHANGED <<call, calls, gen>>
    PROVE  Stopped /\ outcome' = how
BY DEF End, Stopped

\* An accepted line ends it or carries it on.
LEMMA AdvanceTakes ==
    ASSUME NEW data, DriverInv, pc = "readline", Advance(data), UNCHANGED <<call, calls, gen>>
    PROVE  Heard(data) /\ ((Stopped /\ (outcome' = "returned" => step = Len(Now))) \/ Continued)
<1>1. Heard(data)
    BY DEF Advance, Heard
<1>2. Len(Now) \in Nat /\ step \in 1..Len(Now)
    <2>1. Now = ScriptOf(call)
        BY DEF Now, ScriptOf
    <2> QED
        BY <2>1, ScriptLength DEF DriverInv
<1>3. CASE End("raised")
    BY <1>1, <1>3, EndStops
<1>4. CASE step < Len(Now) /\ step' = step + 1
           /\ line' = Append(line, Line(call, step + 1, seen')) /\ UNCHANGED <<pc, outcome, sim, sure>>
    BY <1>1, <1>4 DEF Continued
<1>5. CASE ~(step < Len(Now)) /\ End("returned")
    <2>1. step = Len(Now)
        BY <1>2, <1>5
    <2> QED
        BY <1>1, <1>5, <2>1, EndStops
<1>6. End("raised") \/ (~(step < Len(Now)) /\ End("returned"))
      \/ (step < Len(Now) /\ step' = step + 1
          /\ line' = Append(line, Line(call, step + 1, seen')) /\ UNCHANGED <<pc, outcome, sim, sure>>)
    BY DEF Advance
<1> QED
    BY <1>3, <1>4, <1>5, <1>6

\* What is expected of a query, and what the first of an answer is read as.
LEMMA ExpectedDatum ==
    ASSUME NEW a, a = Head(inbox), IsAnswer(a), Expected(a)
    PROVE  /\ Now[step].op = "r" => a # Ok /\ Datum(a.data)
           /\ \A data \in FirstOf(a) : Datum(data)
<1>1. SUFFICES ASSUME Now[step].op = "r", Now[step].reg = Output \/ Now[step].reg # Output
               PROVE  a # Ok /\ Datum(a.data) /\ \A data \in FirstOf(a) : Datum(data)
    BY DEF Datum
<1>2. a.is = "r" /\ a.reg = Now[step].reg
    BY <1>1 DEF Expected
<1>3. a # Ok /\ a # Rest
    BY <1>2 DEF Ok, Rest
<1>4. CASE Now[step].reg = Output
    <2>1. a.data \in Pair
        BY <1>2, <1>3, <1>4 DEF IsAnswer
    <2>2. a.reg[1] = "output"
        BY <1>2, <1>4 DEF Output
    <2>3. FirstOf(a) = {a.data}
        BY <1>3, <2>2 DEF FirstOf
    <2> QED
        BY <1>3, <2>1, <2>3 DEF Datum
<1> QED
    BY <1>1, <1>3, <1>4 DEF Datum

\* Every step of the specification is one of these.
LEMMA Steps ==
    ASSUME DriverInv, WireInv, Next
    PROVE  Started \/ Execute \/ Lose \/ Accepted \/ CutShort \/ GivenUp
           \/ (pc = "idle" /\ Reconnect)
<1>1. ASSUME NEW op \in Ops, NEW at \in Channels \cup Slots, NEW arg, Begin(op, at, arg),
             Asked([op |-> op, at |-> at, arg |-> arg, quiet |-> Quiet])
      PROVE  Started
    <2> DEFINE c == [op |-> op, at |-> at, arg |-> arg, quiet |-> Quiet]
    <2>1. call' = c /\ c.op = op /\ c.at = at /\ c.arg = arg /\ c.quiet = Quiet
        BY <1>1 DEF Begin
    <2>2. Asked(c)
        BY <1>1
    <2> HIDE DEF c
    <2>3. Legal(op, at, arg) => Sound(call')
        BY <2>1, <2>2 DEF Sound
    <2>4. Asked(call') /\ call'.quiet = Quiet
        BY <2>1, <2>2
    <2> QED
        BY <1>1, <2>3, <2>4 DEF Begin, Started
<1>2. ASSUME Accept PROVE Accepted
    <2>1. pc = "readline" /\ inbox # <<>> /\ Expected(Head(inbox)) /\ inbox' = Tail(inbox)
          /\ cut' = cut /\ UNCHANGED <<call, calls, gen>>
        BY <1>2 DEF Accept
    <2>2. IsAnswer(Head(inbox))
        <3>1. Head(inbox) = inbox[1] /\ Len(inbox) \in Nat /\ Len(inbox) # 0
            BY <2>1, SeqTail, SeqLength DEF WireInv
        <3> QED
            BY <3>1 DEF WireInv
    <2> DEFINE data == IF Head(inbox) = Ok THEN 0 ELSE Head(inbox).data
    <2>3. Advance(data)
        BY <1>2 DEF Accept
    <2>4. Now[step].op = "r" => data = Head(inbox).data /\ Datum(data)
        BY <2>1, <2>2, ExpectedDatum
    <2>5. Datum(data)
        BY <2>4 DEF Datum
    <2> HIDE DEF data
    <2> QED
        BY <2>1, <2>3, <2>4, <2>5, AdvanceTakes DEF Accepted, Took
<1>3. ASSUME Cut PROVE CutShort \/ GivenUp
    <2>1. pc = "readline" /\ inbox # <<>> /\ cut < MaxCuts /\ cut' = calls /\ UNCHANGED <<call, calls, gen>>
        BY <1>3 DEF Cut
    <2>2. IsAnswer(Head(inbox))
        <3>1. Head(inbox) = inbox[1] /\ Len(inbox) \in Nat /\ Len(inbox) # 0
            BY <2>1, SeqTail, SeqLength DEF WireInv
        <3> QED
            BY <3>1 DEF WireInv
    <2>3. cut = 0
        BY <2>1, CallAssumption DEF DriverInv
    <2>4. CASE /\ \E rest \in {Rest} \cup ({Ok} \cap {Head(inbox)}) : inbox' = <<rest>> \o Tail(inbox)
               /\ UNCHANGED seen /\ End("raised")
        <3>1. \E rest \in {Ok, Rest} : inbox' = <<rest>> \o Tail(inbox)
            BY <2>4
        <3>2. Stopped /\ outcome' = "raised"
            BY <2>1, <2>4, EndStops
        <3> QED
            BY <2>1, <2>3, <2>4, <3>1, <3>2 DEF GivenUp
    <2>5. CASE /\ Expected(Head(inbox)) /\ inbox' = <<Rest>> \o Tail(inbox)
               /\ \E data \in FirstOf(Head(inbox)) : Advance(data)
        <3>1. PICK data \in FirstOf(Head(inbox)) : Advance(data)
            BY <2>5
        <3>2. Datum(data)
            BY <2>2, <2>5, ExpectedDatum
        <3> QED
            BY <2>1, <2>3, <2>5, <3>1, <3>2, AdvanceTakes DEF CutShort, Took
    <2> QED
        BY <1>3, <2>4, <2>5 DEF Cut
<1>4. ASSUME Unexpected \/ Timeout PROVE GivenUp
    <2>1. pc = "readline" /\ End("raised") /\ seen' = seen /\ cut' = cut /\ UNCHANGED <<call, calls, gen>>
        BY <1>4 DEF Unexpected, Timeout
    <2>2. (inbox = <<>> /\ inbox' = inbox) \/ (inbox # <<>> /\ inbox' = Tail(inbox))
        BY <1>4 DEF Unexpected, Timeout
    <2> QED
        BY <2>1, <2>2, EndStops DEF GivenUp
<1>5. ASSUME NEW ch \in Channels,
             \/ \E config \in Configs : Begin("configure_channel", ch, config)
             \/ \E on \in BOOLEAN : Begin("enable_output", ch, on)
             \/ Begin("read_channel", ch, 0)
             \/ Begin("output_enabled", ch, 0)
      PROVE  Started
    <2>1. ASSUME NEW config \in Configs, Begin("configure_channel", ch, config) PROVE Started
        BY <1>1, <2>1 DEF Asked, Ops, Setters
    <2>2. ASSUME NEW on \in BOOLEAN, Begin("enable_output", ch, on) PROVE Started
        BY <1>1, <2>2 DEF Asked, Ops, Setters
    <2>3. CASE Begin("read_channel", ch, 0)
        BY <1>1, <2>3 DEF Asked, Ops, Setters
    <2>4. CASE Begin("output_enabled", ch, 0)
        BY <1>1, <2>4 DEF Asked, Ops, Setters
    <2> QED
        BY <1>5, <2>1, <2>2, <2>3, <2>4
<1>6. ASSUME NEW slot \in Slots,
             (\E wave \in Waves : Begin("upload_arbitrary", slot, wave)) \/ Begin("read_arbitrary", slot, 0)
      PROVE  Started
    <2>1. ASSUME NEW wave \in Waves, Begin("upload_arbitrary", slot, wave) PROVE Started
        BY <1>1, <2>1, CallAssumption DEF Asked, Ops, Setters
    <2>2. CASE Begin("read_arbitrary", slot, 0)
        BY <1>1, <2>2 DEF Asked, Ops, Setters
    <2> QED
        BY <1>6, <2>1, <2>2
<1>7. ASSUME \E phase \in Phases : Begin("set_phase_deg", 1, phase)
      PROVE  Started
    <2>1. PICK phase \in Phases : Begin("set_phase_deg", 1, phase)
        BY <1>7
    <2> QED
        BY <1>1, <2>1 DEF Asked, Ops, Setters, Channels
<1>8. ASSUME Begin("idn", 1, 0)
      PROVE  Started
    BY <1>1, <1>8 DEF Asked, Ops, Setters, Channels
<1>9. Reconnect => pc = "idle" /\ Reconnect
    BY DEF Reconnect
<1> QED
    BY <1>2, <1>3, <1>4, <1>5, <1>6, <1>7, <1>8, <1>9 DEF Next, Driver

-----------------------------------------------------------------------------
(* Types are preserved. *)

\* The script under way is the one of the current operation.
LEMMA NowIs == Now = ScriptOf(call) /\ Now' = ScriptOf(call')
BY DEF Now, ScriptOf

\* What a transaction's line says.
LEMMA LineIs ==
    ASSUME NEW c, Sound(c), NEW k \in 1..Len(ScriptOf(c)), NEW vs,
           c.op \in Setters /\ k = Len(ScriptOf(c)) => Last(vs) \in Pair
    PROVE  /\ IsLine(Line(c, k, vs)) /\ Line(c, k, vs).by = c
           /\ Line(c, k, vs).op = ScriptOf(c)[k].op /\ Line(c, k, vs).reg = ScriptOf(c)[k].reg
           /\ IF Line(c, k, vs).op = "w" /\ Line(c, k, vs).reg = Output
              THEN /\ c.op \in Setters /\ k = Len(ScriptOf(c)) /\ k # 1
                   /\ Line(c, k, vs).data = Flip(Last(vs), c)
              ELSE Line(c, k, vs).data = ScriptOf(c)[k].data
<1> DEFINE t == ScriptOf(c)[k]
           l == Line(c, k, vs)
<1>1. /\ l.op = t.op /\ l.reg = t.reg /\ l.by = c
      /\ l.data = IF t.reg = Output /\ t.op = "w" THEN Flip(Last(vs), c) ELSE t.data
    BY DEF Line, ScriptOf
<1>2. t.op \in {"r", "w"} /\ t.reg \in Register
    BY ScriptRegisters
<1>3. ASSUME t.op = "w", t.reg = Output
      PROVE  c.op \in Setters /\ k = Len(ScriptOf(c)) /\ k # 1
    <2>1. c.op \in Setters
        BY <1>3, OtherScript
    <2>2. /\ Len(ScriptOf(c)) \in Nat /\ Len(ScriptOf(c)) >= 2
          /\ ScriptOf(c)[Len(ScriptOf(c)) - 1] = Read(Output)
          /\ \A j \in 1..Len(ScriptOf(c)) - 2 : ScriptOf(c)[j].reg \in Register \ {Output}
        BY <2>1, SetterScript DEF Sound
    <2>3. k # Len(ScriptOf(c)) - 1
        BY <1>3, <2>2, Transactions
    <2>4. ~(k \in 1..Len(ScriptOf(c)) - 2)
        BY <1>3, <2>2
    <2> QED
        BY <2>1, <2>2, <2>3, <2>4
<1>4. ASSUME t.op = "w", t.reg = Output
      PROVE  Flip(Last(vs), c) \in Pair
    <2>1. Last(vs) \in Pair
        BY <1>3, <1>4
    <2>2. On(c) \in BOOLEAN
        BY <1>3, <1>4, CallAssumption DEF On, Sound, Asked, Setters, Config
    <2> QED
        BY <2>1, <2>2 DEF Flip, Pair
<1> HIDE DEF t, l
<1>5. IsLine(l)
    BY <1>1, <1>2, <1>4 DEF IsLine
<1> QED
    BY <1>1, <1>3, <1>5 DEF t, l

\* What a setter has read when it goes on to its last transaction is a pair.
LEMMA HeardPair ==
    ASSUME BaseInv, NEW data, Took(data), Continued
    PROVE  /\ IsSeq(seen') /\ Len(seen') <= step
           /\ call.op \in Setters =>
                 IF step + 1 < Len(Now) THEN seen' = <<>>
                 ELSE seen' # <<>> /\ Last(seen') = data /\ data \in Pair
<1>1. IsSeq(seen) /\ Len(seen) \in Nat /\ Len(seen) <= step - 1 /\ step \in Nat
    <2>1. pc = "readline"
        BY DEF Continued
    <2>2. Len(Now) \in Nat
        BY NowIs, ScriptLength DEF BaseInv, DriverInv
    <2> QED
        BY <2>1, <2>2, SeqLength DEF BaseInv, SeenInv, DriverInv
<1>2. IsSeq(seen') /\ Len(seen') <= step
    <2>1. CASE Now[step].op = "r"
        BY <1>1, <2>1, SeqAppend DEF Took, Heard
    <2>2. CASE Now[step].op # "r"
        BY <1>1, <2>2 DEF Took, Heard
    <2> QED
        BY <2>1, <2>2
<1>3. ASSUME call.op \in Setters
      PROVE  IF step + 1 < Len(Now) THEN seen' = <<>>
             ELSE seen' # <<>> /\ Last(seen') = data /\ data \in Pair
    <2> DEFINE n == Len(Now)
    <2>1. /\ n \in Nat /\ n >= 2 /\ Now[n - 1] = Read(Output)
          /\ \A k \in 1..n - 2 : Now[k].op = "w"
        BY <1>3, NowIs, SetterScript DEF BaseInv, DriverInv
    <2>2. step \in 1..n /\ step < n /\ seen = <<>>
        BY <1>3 DEF Continued, BaseInv, DriverInv, SeenInv
    <2> HIDE DEF n
    <2>3. CASE step + 1 < n
        <3>1. Now[step].op = "w"
            BY <2>1, <2>2, <2>3
        <3> QED
            BY <2>2, <2>3, <3>1 DEF Took, Heard, n
    <2>4. CASE ~(step + 1 < n)
        <3>1. step = n - 1
            BY <2>1, <2>2, <2>4
        <3>2. Now[step].op = "r" /\ Now[step].reg = Output
            BY <2>1, <3>1, Transactions
        <3>3. seen' = Append(seen, data) /\ data \in Pair
            BY <3>2 DEF Took, Heard, Datum
        <3>4. seen' = <<data>>
            BY <2>2, <3>3, SeqOne
        <3>5. seen' # <<>> /\ Last(seen') = data
            BY <3>4 DEF Last
        <3> QED
            BY <2>4, <3>3, <3>5 DEF n
    <2> QED
        BY <2>3, <2>4
<1> QED
    BY <1>2, <1>3

\* The lines that are written.
LEMMA NewLine ==
    ASSUME BaseInv, Started \/ Accepted \/ CutShort, line' # line
    PROVE  \/ Started /\ Sound(call') /\ line' = Append(line, Line(call', 1, <<>>))
              /\ IsLine(Line(call', 1, <<>>)) /\ 1 \in 1..Len(Now')
              /\ ~(Line(call', 1, <<>>).op = "w" /\ Line(call', 1, <<>>).reg = Output)
           \/ Continued /\ line' = Append(line, Line(call, step + 1, seen'))
              /\ IsLine(Line(call, step + 1, seen')) /\ step + 1 \in 1..Len(Now)
<1>1. CASE Started
    <2>1. Sound(call') /\ line' = Append(line, Line(call', 1, <<>>))
        BY <1>1 DEF Started
    <2>2. Len(ScriptOf(call')) \in Nat \ {0}
        BY <1>1, ScriptLength DEF Started
    <2>3. 1 \in 1..Len(ScriptOf(call'))
        BY <2>2
    <2>4. ~(call'.op \in Setters /\ 1 = Len(ScriptOf(call')))
        BY <2>1, SetterScript DEF Sound
    <2>5. ASSUME NEW c, c = call'
          PROVE  IsLine(Line(c, 1, <<>>)) /\ ~(Line(c, 1, <<>>).op = "w" /\ Line(c, 1, <<>>).reg = Output)
        <3>1. /\ Sound(c) /\ 1 \in 1..Len(ScriptOf(c))
              /\ c.op \in Setters /\ 1 = Len(ScriptOf(c)) => Last(<<>>) \in Pair
            BY <2>1, <2>3, <2>4, <2>5
        <3>2. IsLine(Line(c, 1, <<>>))
            BY <3>1, LineIs
        <3>3. Line(c, 1, <<>>).op = "w" /\ Line(c, 1, <<>>).reg = Output => 1 # 1
            BY <3>1, LineIs
        <3> QED
            BY <3>2, <3>3
    <2> QED
        BY <1>1, <2>1, <2>3, <2>5, NowIs
<1>2. CASE Accepted \/ CutShort
    <2>1. PICK data : Took(data)
        BY <1>2 DEF Accepted, CutShort
    <2>2. Continued
        BY <2>1 DEF Took, Stopped
    <2>3. /\ Len(ScriptOf(call)) \in Nat /\ Sound(call)
          /\ step \in 1..Len(ScriptOf(call)) /\ step < Len(ScriptOf(call))
        BY <2>2, NowIs, ScriptLength DEF BaseInv, DriverInv, Continued
    <2>4. step + 1 \in 1..Len(ScriptOf(call))
        BY <2>3
    <2>5. call.op \in Setters /\ step + 1 = Len(ScriptOf(call)) => Last(seen') \in Pair
        BY <2>1, <2>2, <2>3, HeardPair, NowIs
    <2>6. IsLine(Line(call, step + 1, seen'))
        BY <2>3, <2>4, <2>5, LineIs
    <2> QED
        BY <2>2, <2>4, <2>6, NowIs DEF Continued
<1> QED
    BY <1>1, <1>2

\* The first of the inbox is replaced.
LEMMA Replaced ==
    ASSUME NEW s, IsSeq(s), s # <<>>, NEW e
    PROVE  /\ IsSeq(<<e>> \o Tail(s)) /\ Len(<<e>> \o Tail(s)) = Len(s) /\ Head(<<e>> \o Tail(s)) = e
           /\ <<e>> \o Tail(s) # <<>> /\ (<<e>> \o Tail(s))[1] = e
           /\ \A i \in 2..Len(s) : (<<e>> \o Tail(s))[i] = s[i]
<1>1. IsSeq(Tail(s)) /\ Len(Tail(s)) = Len(s) - 1 /\ \A i \in 1..Len(Tail(s)) : Tail(s)[i] = s[i + 1]
    BY SeqTail
<1>2. Len(s) \in Nat /\ Len(Tail(s)) \in Nat
    BY <1>1, SeqLength
<1>3. /\ IsSeq(<<e>> \o Tail(s)) /\ Len(<<e>> \o Tail(s)) = Len(Tail(s)) + 1
      /\ (<<e>> \o Tail(s))[1] = e /\ Head(<<e>> \o Tail(s)) = e /\ <<e>> \o Tail(s) # <<>>
      /\ \A i \in 1..Len(Tail(s)) : (<<e>> \o Tail(s))[i + 1] = Tail(s)[i]
    BY <1>1, SeqCons
<1>4. ASSUME NEW i \in 2..Len(s) PROVE (<<e>> \o Tail(s))[i] = s[i]
    <2>1. i - 1 \in 1..Len(Tail(s)) /\ (i - 1) + 1 = i
        BY <1>1, <1>2
    <2> QED
        BY <1>1, <1>3, <2>1
<1> QED
    BY <1>1, <1>2, <1>3, <1>4

\* The driver's own state.
LEMMA DriverStep ==
    ASSUME BaseInv, Next
    PROVE  DriverInv'
<1>1. Started \/ Execute \/ Lose \/ Accepted \/ CutShort \/ GivenUp \/ (pc = "idle" /\ Reconnect)
    BY Steps DEF BaseInv
<1>2. Len(Now) \in Nat /\ step \in 1..Len(Now) /\ calls \in Nat /\ cut \in Nat /\ MaxCalls \in Nat
    BY NowIs, ScriptLength, CallAssumption DEF BaseInv, DriverInv
<1>3. CASE Started
    <2>1. step' \in 1..Len(Now')
        <3>1. Len(ScriptOf(call')) \in Nat \ {0}
            BY <1>3, ScriptLength DEF Started
        <3> QED
            BY <1>3, <3>1, NowIs DEF Started
    <2>2. calls' \in 0..MaxCalls /\ cut' \in 0..calls' /\ calls' >= 1
        BY <1>2, <1>3 DEF Started, BaseInv, DriverInv
    <2> QED
        BY <1>3, <2>1, <2>2 DEF Started, DriverInv
<1>4. CASE Stopped /\ (cut' = cut \/ cut' = calls)
    <2>1. Now' = Now
        BY <1>4, NowIs DEF Stopped
    <2>2. step' \in 1..Len(Now') /\ calls' \in 0..MaxCalls /\ cut' \in 0..calls'
        BY <1>2, <1>4, <2>1 DEF Stopped, BaseInv, DriverInv
    <2> QED
        BY <1>4, <2>2 DEF Stopped, BaseInv, DriverInv
<1>5. CASE Continued /\ (cut' = cut \/ cut' = calls)
    <2>1. Now' = Now
        BY <1>5, NowIs DEF Continued
    <2>2. step' \in 1..Len(Now') /\ calls' \in 0..MaxCalls /\ cut' \in 0..calls'
        BY <1>2, <1>5, <2>1 DEF Continued, BaseInv, DriverInv
    <2> QED
        BY <1>5, <2>2 DEF Continued, BaseInv, DriverInv
<1>6. CASE UNCHANGED <<driver, cut>>
    <2>1. Now' = Now
        BY <1>6, NowIs DEF driver
    <2> QED
        BY <1>6, <2>1 DEF driver, BaseInv, DriverInv
<1>7. CASE Accepted \/ CutShort
    <2>1. cut' = cut \/ cut' = calls
        BY <1>7 DEF Accepted, CutShort
    <2>2. Stopped \/ Continued
        BY <1>7 DEF Accepted, CutShort, Took
    <2> QED
        BY <1>4, <1>5, <2>1, <2>2
<1>8. CASE GivenUp
    BY <1>4, <1>8 DEF GivenUp
<1>9. CASE Execute \/ Lose \/ Reconnect
    BY <1>6, <1>9 DEF Execute, Lose, Reconnect
<1> QED
    BY <1>1, <1>3, <1>7, <1>8, <1>9

\* The values read.
LEMMA SeenStep ==
    ASSUME BaseInv, Next
    PROVE  SeenInv'
<1>1. Started \/ Execute \/ Lose \/ Accepted \/ CutShort \/ GivenUp \/ (pc = "idle" /\ Reconnect)
    BY Steps DEF BaseInv
<1>2. Len(Now) \in Nat /\ step \in Nat /\ IsSeq(seen) /\ Len(seen) \in Nat /\ Len(seen) <= step
    BY NowIs, ScriptLength, SeqLength DEF BaseInv, DriverInv, SeenInv
<1>3. CASE Started
    <2>1. seen' = <<>> /\ IsSeq(seen') /\ Len(seen') = 0 /\ step' = 1
        BY <1>3, SeqOne DEF Started
    <2>2. ASSUME pc' = "readline", call'.op \in Setters
          PROVE  step' < Len(Now')
        <3>1. Asked(call')
            BY <1>3 DEF Started
        <3>2. Len(ScriptOf(call')) \in Nat /\ Len(ScriptOf(call')) >= 2
            BY <2>2, <3>1, SetterScript
        <3> QED
            BY <2>1, <3>2, NowIs
    <2> QED
        BY <2>1, <2>2 DEF SeenInv
<1>4. CASE Accepted \/ CutShort
    <2>1. PICK data : Took(data)
        BY <1>4 DEF Accepted, CutShort
    <2>2. CASE Stopped
        <3>1. pc = "readline" /\ pc' = "idle" /\ step' = step
            BY <2>2 DEF Stopped
        <3>2. Len(seen) <= step - 1
            BY <3>1 DEF BaseInv, SeenInv
        <3>3. seen' = seen \/ seen' = Append(seen, data)
            BY <2>1 DEF Took, Heard
        <3>4. IsSeq(seen') /\ Len(seen') <= step
            <4>1. CASE seen' = seen
                BY <1>2, <4>1
            <4>2. CASE seen' = Append(seen, data)
                <5>1. IsSeq(seen') /\ Len(seen') = Len(seen) + 1
                    BY <1>2, <4>2, SeqAppend
                <5> QED
                    BY <1>2, <3>2, <5>1
            <4> QED
                BY <3>3, <4>1, <4>2
        <3> QED
            BY <3>1, <3>4 DEF SeenInv
    <2>3. CASE Continued
        <3>1. IsSeq(seen') /\ Len(seen') <= step
            BY <2>1, <2>3, HeardPair
        <3>2. step' = step + 1 /\ Now' = Now /\ call' = call
            BY <2>3, NowIs DEF Continued
        <3>3. call'.op \in Setters =>
                  IF step' < Len(Now') THEN seen' = <<>> ELSE seen' # <<>> /\ Last(seen') \in Pair
            BY <2>1, <2>3, <3>2, HeardPair
        <3>4. Len(seen') <= step' /\ Len(seen') <= step' - 1
            BY <1>2, <3>1, <3>2, SeqLength
        <3> QED
            BY <3>1, <3>3, <3>4 DEF SeenInv
    <2> QED
        BY <2>1, <2>2, <2>3 DEF Took
<1>5. CASE GivenUp
    BY <1>5 DEF GivenUp, Stopped, BaseInv, SeenInv
<1>6. CASE UNCHANGED <<driver, cut>>
    <2>1. Now' = Now
        BY <1>6, NowIs DEF driver
    <2> QED
        BY <1>6, <2>1 DEF driver, BaseInv, SeenInv
<1>7. CASE Execute \/ Lose \/ Reconnect
    BY <1>6, <1>7 DEF Execute, Lose, Reconnect
<1> QED
    BY <1>1, <1>3, <1>4, <1>5, <1>7

\* The inbox after a line has been read from it.
LEMMA InboxRead ==
    ASSUME WireInv, inbox # <<>>,
           inbox' = Tail(inbox) \/ \E e \in {Ok, Rest} : inbox' = <<e>> \o Tail(inbox)
    PROVE  IsSeq(inbox') /\ \A i \in 1..Len(inbox') : IsAnswer(inbox'[i])
<1>1. IsSeq(inbox) /\ Len(inbox) \in Nat /\ \A i \in 1..Len(inbox) : IsAnswer(inbox[i])
    BY SeqLength DEF WireInv
<1>2. CASE inbox' = Tail(inbox)
    <2>1. /\ IsSeq(inbox') /\ Len(inbox') = Len(inbox) - 1
          /\ \A i \in 1..Len(inbox') : inbox'[i] = inbox[i + 1]
        BY <1>1, <1>2, SeqTail
    <2>2. \A i \in 1..Len(inbox') : i + 1 \in 1..Len(inbox)
        BY <1>1, <2>1
    <2> QED
        BY <1>1, <2>1, <2>2
<1>3. CASE \E e \in {Ok, Rest} : inbox' = <<e>> \o Tail(inbox)
    <2>1. PICK e \in {Ok, Rest} : inbox' = <<e>> \o Tail(inbox)
        BY <1>3
    <2>2. /\ IsSeq(inbox') /\ Len(inbox') = Len(inbox) /\ inbox'[1] = e
          /\ \A i \in 2..Len(inbox) : inbox'[i] = inbox[i]
        BY <1>1, <2>1, Replaced
    <2>3. IsAnswer(e)
        BY DEF IsAnswer
    <2>4. \A i \in 1..Len(inbox') : i = 1 \/ i \in 2..Len(inbox)
        BY <1>1, <2>2
    <2> QED
        BY <1>1, <2>2, <2>3, <2>4
<1> QED
    BY <1>2, <1>3

\* The line and the inbox, and the register of both outputs.
LEMMA WireStep ==
    ASSUME BaseInv, Next
    PROVE  WireInv'
<1>1. Started \/ Execute \/ Lose \/ Accepted \/ CutShort \/ GivenUp \/ (pc = "idle" /\ Reconnect)
    BY Steps DEF BaseInv
<1> DEFINE LineOk  == IsSeq(line) /\ \A i \in 1..Len(line) : IsLine(line[i])
           InboxOk == IsSeq(inbox) /\ \A i \in 1..Len(inbox) : IsAnswer(inbox[i])
           GenOk   == DOMAIN gen = Register /\ gen[Output] \in Pair
<1>2. LineOk /\ InboxOk /\ GenOk /\ Len(line) \in Nat /\ Len(inbox) \in Nat
    BY SeqLength DEF BaseInv, WireInv
<1>3. CASE Started \/ Accepted \/ CutShort \/ GivenUp
    <2>1. LineOk'
        <3>1. CASE line' = line
            BY <1>2, <3>1
        <3>2. CASE line' # line
            <4>1. Started \/ Accepted \/ CutShort
                BY <1>3, <3>2 DEF GivenUp, Stopped
            <4>2. PICK l : line' = Append(line, l) /\ IsLine(l)
                BY <3>2, <4>1, NewLine
            <4>3. /\ IsSeq(line') /\ Len(line') = Len(line) + 1 /\ line'[Len(line) + 1] = l
                  /\ \A i \in 1..Len(line) : line'[i] = line[i]
                BY <1>2, <4>2, SeqAppend
            <4>4. \A i \in 1..Len(line') : i \in 1..Len(line) \/ i = Len(line) + 1
                BY <1>2, <4>3
            <4> QED
                BY <1>2, <4>2, <4>3, <4>4
        <3> QED
            BY <3>1, <3>2
    <2>2. InboxOk'
        <3>1. CASE inbox' = inbox
            BY <1>2, <3>1
        <3>2. CASE inbox' # inbox
            <4>1. inbox # <<>>
                BY <1>3, <3>2 DEF Started, Accepted, CutShort, GivenUp, Took
            <4>2. inbox' = Tail(inbox) \/ \E e \in {Ok, Rest} : inbox' = <<e>> \o Tail(inbox)
                BY <1>3, <3>2 DEF Started, Accepted, CutShort, GivenUp
            <4> QED
                BY <4>1, <4>2, InboxRead DEF BaseInv
        <3> QED
            BY <3>1, <3>2
    <2>3. gen' = gen
        BY <1>3 DEF Started, Accepted, CutShort, GivenUp, Took, Stopped, Continued
    <2> QED
        BY <1>2, <2>1, <2>2, <2>3 DEF WireInv
<1>4. CASE Execute \/ Lose
    <2>1. line # <<>> /\ line' = Tail(line)
        BY <1>4 DEF Execute, Lose
    <2>2. /\ IsSeq(line') /\ Len(line') = Len(line) - 1 /\ Head(line) = line[1]
          /\ \A i \in 1..Len(line') : line'[i] = line[i + 1]
        BY <1>2, <2>1, SeqTail
    <2>3. \A i \in 1..Len(line') : i + 1 \in 1..Len(line)
        BY <1>2, <2>2
    <2>4. LineOk'
        BY <1>2, <2>2, <2>3
    <2>5. IsLine(Head(line))
        BY <1>2, <2>1, <2>2, SeqLength
    <2>6. CASE Lose
        BY <1>2, <2>4, <2>6 DEF Lose, WireInv
    <2>7. CASE Execute
        <3> DEFINE l == Head(line)
        <3>1. /\ gen' = IF l.op = "w" THEN [gen EXCEPT ![l.reg] = Taken(l.reg, l.data)] ELSE gen
              /\ inbox' = Append(inbox, Answer(l))
            BY <2>7 DEF Execute
        <3>2. l.reg \in Register /\ (l.op = "w" /\ l.reg = Output => l.data \in Pair)
            BY <2>5 DEF IsLine
        <3> HIDE DEF l
        <3>3. Taken(Output, l.data) = l.data /\ Output \in Register
            BY OthersTaken DEF Register
        <3>4. GenOk'
            <4>1. DOMAIN gen' = Register
                BY <1>2, <3>1
            <4>2. gen'[Output] = gen[Output] \/ (l.op = "w" /\ l.reg = Output /\ gen'[Output] = l.data)
                BY <1>2, <3>1, <3>3
            <4> QED
                BY <1>2, <3>2, <4>1, <4>2
        <3>5. IsAnswer(Answer(l))
            BY <1>2, <3>2 DEF Answer, IsAnswer
        <3>6. InboxOk'
            <4>1. /\ IsSeq(inbox') /\ Len(inbox') = Len(inbox) + 1 /\ inbox'[Len(inbox) + 1] = Answer(l)
                  /\ \A i \in 1..Len(inbox) : inbox'[i] = inbox[i]
                BY <1>2, <3>1, SeqAppend
            <4>2. \A i \in 1..Len(inbox') : i \in 1..Len(inbox) \/ i = Len(inbox) + 1
                BY <1>2, <4>1
            <4> QED
                BY <1>2, <3>5, <4>1, <4>2
        <3> QED
            BY <2>4, <3>4, <3>6 DEF WireInv
    <2> QED
        BY <1>4, <2>6, <2>7
<1>5. CASE Reconnect
    <2>1. inbox' = <<>> /\ UNCHANGED <<line, gen>>
        BY <1>5 DEF Reconnect
    <2>2. InboxOk'
        <3>1. IsSeq(inbox') /\ Len(inbox') = 0
            BY <2>1, SeqOne, SeqLength
        <3> QED
            BY <3>1
    <2> QED
        BY <1>2, <2>1, <2>2 DEF WireInv
<1> QED
    BY <1>1, <1>3, <1>4, <1>5

\* What is owed.
LEMMA BacklogStep ==
    ASSUME BaseInv, Next
    PROVE  BacklogInv'
<1>1. Started \/ Execute \/ Lose \/ Accepted \/ CutShort \/ GivenUp \/ (pc = "idle" /\ Reconnect)
    BY Steps DEF BaseInv
<1> DEFINE a == Len(line)
           b == Len(inbox)
           more == IF pc = "readline" /\ Broken THEN 1 ELSE 0
<1>2. /\ IsSeq(line) /\ IsSeq(inbox) /\ a \in Nat /\ b \in Nat
      /\ calls \in Nat /\ more \in 0..1 /\ a + b <= calls + more
    BY SeqLength DEF BaseInv, WireInv, DriverInv, BacklogInv
<1>3. IsSeq(line') /\ IsSeq(inbox') /\ a' \in Nat /\ b' \in Nat /\ calls' \in Nat /\ more' \in 0..1
    <2>1. WireInv' /\ DriverInv'
        BY WireStep, DriverStep
    <2>2. calls' \in Nat
        BY <2>1, CallAssumption DEF DriverInv
    <2> QED
        BY <2>1, <2>2, SeqLength DEF WireInv
<1>4. pc = "idle" \/ cut # calls \/ (inbox # <<>> /\ Head(inbox) # Rest) => more = 0
    BY DEF Broken
<1>5. pc' = "readline" /\ Broken' => more' = 1
    OBVIOUS
<1>6. SUFFICES a' + b' <= calls' + more'
    BY DEF BacklogInv
<1>7. ASSUME NEW e, Expected(e) PROVE e # Rest
    BY <1>7 DEF Expected, Ok, Rest
<1>8. CASE Started
    <2>1. more = 0 /\ calls' = calls + 1 /\ b' = b
        BY <1>4, <1>8 DEF Started
    <2>2. a' = a \/ a' = a + 1
        BY <1>2, <1>8, SeqAppend DEF Started
    <2> QED
        BY <1>2, <1>3, <2>1, <2>2
<1>9. CASE Accepted
    <2>1. PICK data : Took(data)
        BY <1>9 DEF Accepted
    <2>2. inbox # <<>> /\ more = 0 /\ calls' = calls
        BY <1>4, <1>7, <2>1 DEF Took, Stopped, Continued
    <2>3. b' = b - 1
        BY <1>2, <1>9, <2>2, SeqTail DEF Accepted
    <2>4. a' = a \/ a' = a + 1
        BY <1>2, <2>1, SeqAppend DEF Took, Stopped, Continued
    <2> QED
        BY <1>2, <1>3, <2>2, <2>3, <2>4
<1>10. CASE CutShort
    <2>1. PICK data : Took(data)
        BY <1>10 DEF CutShort
    <2>2. inbox # <<>> /\ more = 0 /\ calls' = calls
        BY <1>4, <1>7, <2>1 DEF Took, Stopped, Continued
    <2>3. b' = b /\ inbox' # <<>> /\ Head(inbox') = Rest
        BY <1>2, <1>10, <2>2, Replaced DEF CutShort
    <2>4. CASE Stopped
        <3>1. a' = a
            BY <2>4 DEF Stopped
        <3> QED
            BY <1>2, <1>3, <2>2, <2>3, <3>1
    <2>5. CASE Continued
        <3>1. a' = a + 1
            BY <1>2, <2>5, SeqAppend DEF Continued
        <3>2. pc' = "readline" /\ cut' = calls'
            BY <1>10, <2>2, <2>5 DEF Continued, CutShort
        <3>3. more' = 1
            BY <1>5, <2>3, <3>2 DEF Broken
        <3> QED
            BY <1>2, <1>3, <2>2, <2>3, <3>1, <3>3
    <2> QED
        BY <2>1, <2>4, <2>5 DEF Took
<1>11. CASE GivenUp
    <2>1. a' = a /\ calls' = calls /\ pc = "readline"
        BY <1>11 DEF GivenUp, Stopped
    <2>2. CASE inbox = <<>> /\ inbox' = inbox
        <3>1. b = 0 /\ b' = 0 /\ more = 0
            BY <1>2, <2>2, SeqLength DEF Broken
        <3> QED
            BY <1>2, <1>3, <2>1, <3>1
    <2>3. CASE inbox # <<>> /\ inbox' = Tail(inbox)
        <3>1. b' = b - 1
            BY <1>2, <2>3, SeqTail
        <3> QED
            BY <1>2, <1>3, <2>1, <3>1
    <2>4. CASE inbox # <<>> /\ cut = 0 /\ \E rest \in {Ok, Rest} : inbox' = <<rest>> \o Tail(inbox)
        <3>1. calls >= 1
            BY <2>1 DEF BaseInv, DriverInv
        <3>2. more = 0
            BY <1>2, <1>4, <2>4, <3>1
        <3>3. b' = b
            BY <1>2, <2>4, Replaced
        <3> QED
            BY <1>2, <1>3, <2>1, <3>2, <3>3
    <2> QED
        BY <1>11, <2>2, <2>3, <2>4 DEF GivenUp
<1>12. CASE Lose
    <2>1. line # <<>> /\ line' = Tail(line) /\ UNCHANGED <<pc, calls, cut, inbox>>
        BY <1>12 DEF Lose, driver
    <2>2. a' = a - 1 /\ b' = b /\ more' = more /\ calls' = calls
        BY <1>2, <2>1, SeqTail DEF Broken
    <2> QED
        BY <1>2, <1>3, <2>2
<1>13. CASE Execute
    <2>1. PICK e : inbox' = Append(inbox, e)
        BY <1>13 DEF Execute
    <2>2. line # <<>> /\ line' = Tail(line) /\ UNCHANGED <<pc, calls, cut>>
        BY <1>13 DEF Execute, driver
    <2>3. a' = a - 1 /\ b' = b + 1 /\ calls' = calls
        BY <1>2, <2>1, <2>2, SeqTail, SeqAppend
    <2>4. inbox # <<>> => inbox' # <<>> /\ Head(inbox') = Head(inbox)
        <3>1. \A i \in 1..Len(inbox) : inbox'[i] = inbox[i]
            BY <1>2, <2>1, SeqAppend
        <3>2. inbox # <<>> => 1 \in 1..Len(inbox)
            BY <1>2, SeqLength
        <3>3. inbox' # <<>>
            BY <1>2, <2>1, SeqAppend
        <3>4. inbox # <<>> => Head(inbox) = inbox[1] /\ Head(inbox') = inbox'[1]
            BY <1>2, <1>3, <3>3, SeqTail
        <3> QED
            BY <3>1, <3>2, <3>3, <3>4
    <2>5. more = 1 => more' = 1
        BY <2>2, <2>4 DEF Broken
    <2> QED
        BY <1>2, <1>3, <2>3, <2>5
<1>14. CASE pc = "idle" /\ Reconnect
    <2>1. a' = a /\ calls' = calls /\ more = 0
        BY <1>4, <1>14 DEF Reconnect, driver
    <2>2. b' = 0
        BY <1>3, <1>14, SeqLength DEF Reconnect
    <2> QED
        BY <1>2, <1>3, <2>1, <2>2
<1> QED
    BY <1>1, <1>8, <1>9, <1>10, <1>11, <1>12, <1>13, <1>14

\* The simulated generator.
LEMMA SimStep ==
    ASSUME BaseInv, Next
    PROVE  SimInv'
<1>1. Started \/ Execute \/ Lose \/ Accepted \/ CutShort \/ GivenUp \/ (pc = "idle" /\ Reconnect)
    BY Steps DEF BaseInv
<1>2. CASE sim' = sim
    BY <1>2 DEF BaseInv, SimInv
<1>3. CASE pc = "readline" /\ sim' = SimDo(call)
    <2>1. Asked(call)
        BY DEF BaseInv, DriverInv
    <2>2. CASE call.op = "configure_channel"
        <3>1. call.at \in Channels /\ call.arg \in Configs
            BY <2>1, <2>2 DEF Asked, Setters
        <3>2. Known(call.arg)
            <4>1. call.arg \in Config
                BY <3>1, CallAssumption
            <4>2. call.arg = [call.arg EXCEPT !.enabled = call.arg.enabled] /\ call.arg.enabled \in BOOLEAN
                BY <4>1, ConfigSwitch
            <4> QED
                BY <3>1, <4>2 DEF Known
        <3>3. sim' = [sim EXCEPT !.configs[call.at] = call.arg]
            BY <1>3, <2>2 DEF SimDo
        <3> QED
            BY <3>1, <3>2, <3>3 DEF BaseInv, SimInv
    <2>3. CASE call.op = "enable_output" /\ sim.configs[call.at] # NoConfig
        <3>1. call.at \in Channels /\ call.arg \in BOOLEAN
            BY <2>1, <2>3 DEF Asked, Setters
        <3>2. sim' = [sim EXCEPT !.configs[call.at].enabled = call.arg]
            BY <1>3, <2>3 DEF SimDo
        <3>3. PICK config \in Configs, on \in BOOLEAN : sim.configs[call.at] = [config EXCEPT !.enabled = on]
            BY <2>3, <3>1 DEF BaseInv, SimInv, Known
        <3>4. [sim.configs[call.at] EXCEPT !.enabled = call.arg] = [config EXCEPT !.enabled = call.arg]
            BY <3>3
        <3>5. Known([sim.configs[call.at] EXCEPT !.enabled = call.arg])
            BY <3>1, <3>4 DEF Known
        <3> QED
            BY <3>1, <3>2, <3>5 DEF BaseInv, SimInv
    <2>4. CASE call.op = "upload_arbitrary"
        <3>1. sim' = [sim EXCEPT !.waves[call.at] = call.arg]
            BY <1>3, <2>4 DEF SimDo
        <3> QED
            BY <3>1 DEF BaseInv, SimInv
    <2>5. CASE /\ call.op # "configure_channel" /\ call.op # "upload_arbitrary"
               /\ ~(call.op = "enable_output" /\ sim.configs[call.at] # NoConfig)
        BY <1>2, <1>3, <2>5 DEF SimDo
    <2> QED
        BY <2>2, <2>3, <2>4, <2>5
<1>4. CASE Started \/ Accepted \/ CutShort \/ GivenUp
    BY <1>2, <1>3, <1>4 DEF Started, Accepted, CutShort, GivenUp, Took, Stopped, Continued
<1>5. CASE Execute \/ Lose \/ Reconnect
    BY <1>2, <1>5 DEF Execute, Lose, Reconnect
<1> QED
    BY <1>1, <1>4, <1>5

\* Types hold to begin with ...
LEMMA BaseStarts ==
    ASSUME Init
    PROVE  BaseInv
<1>1. /\ pc = "idle" /\ step = 1 /\ seen = <<>> /\ outcome = "none" /\ calls = 0 /\ cut = 0
      /\ call.op = "idn" /\ call.at = 1 /\ line = <<>> /\ inbox = <<>> /\ sim = Blank
    BY DEF Init
<1>2. IsSeq(<<>>) /\ Len(<<>>) = 0
    BY SeqOne, SeqLength
<1>3. DriverInv
    <2>1. Asked(call)
        BY <1>1 DEF Asked, Ops, Setters, Channels
    <2>2. Len(ScriptOf(call)) \in Nat \ {0}
        BY <2>1, ScriptLength
    <2>3. step \in 1..Len(Now)
        BY <1>1, <2>2, NowIs
    <2> QED
        BY <1>1, <2>1, <2>3, CallAssumption DEF DriverInv
<1>4. SeenInv
    BY <1>1, <1>2 DEF SeenInv
<1>5. WireInv
    <2>1. PICK pair \in Pairs : gen = Factory(pair)
        BY DEF Init
    <2>2. Output \in Register
        BY DEF Register
    <2>3. DOMAIN gen = Register /\ gen[Output] = pair
        BY <2>1, <2>2 DEF Factory, Output
    <2> QED
        BY <1>1, <1>2, <2>3, PairsAssumption DEF WireInv
<1>6. BacklogInv
    BY <1>1, <1>2 DEF BacklogInv
<1>7. SimInv
    BY <1>1 DEF SimInv, Blank, Known
<1> QED
    BY <1>3, <1>4, <1>5, <1>6, <1>7 DEF BaseInv

\* ... and after every step.
LEMMA BaseStep ==
    ASSUME BaseInv, [Next]_vars
    PROVE  BaseInv'
<1>1. CASE Next
    BY <1>1, DriverStep, SeenStep, WireStep, BacklogStep, SimStep DEF BaseInv
<1>2. CASE UNCHANGED vars
    <2>1. UNCHANGED <<pc, call, step, seen, outcome, calls, cut, line, inbox, gen, sim>>
        BY <1>2 DEF vars, driver
    <2>2. Now' = Now
        BY <2>1, NowIs
    <2>3. DriverInv' /\ SeenInv'
        BY <2>1, <2>2 DEF BaseInv, DriverInv, SeenInv
    <2>4. WireInv' /\ SimInv'
        BY <2>1 DEF BaseInv, WireInv, SimInv
    <2>5. BacklogInv'
        BY <2>1 DEF BaseInv, BacklogInv, Broken
    <2> QED
        BY <2>3, <2>4, <2>5 DEF BaseInv
<1> QED
    BY <1>1, <1>2

\* The type invariant follows.
LEMMA BaseTypes ==
    ASSUME BaseInv
    PROVE  TypeOK
<1>1. Len(Now) \in Nat /\ Len(seen) \in Nat /\ Len(line) \in Nat /\ Len(inbox) \in Nat
    BY NowIs, ScriptLength, SeqLength DEF BaseInv, DriverInv, SeenInv, WireInv
<1>2. Len(seen) <= Len(Now)
    BY <1>1 DEF BaseInv, DriverInv, SeenInv
<1>3. Len(line) <= MaxCalls
    <2>1. calls \in Nat /\ MaxCalls \in Nat /\ calls <= MaxCalls
        BY CallAssumption DEF BaseInv, DriverInv
    <2>2. CASE Broken
        <3>1. Len(inbox) # 0
            BY <2>2, SeqLength DEF Broken, BaseInv, WireInv
        <3>2. Len(line) + Len(inbox) <= calls + 1
            BY <1>1, <2>1 DEF BaseInv, BacklogInv
        <3> QED
            BY <1>1, <2>1, <3>1, <3>2
    <2>3. CASE ~Broken
        BY <1>1, <2>1, <2>3 DEF BaseInv, BacklogInv
    <2> QED
        BY <2>2, <2>3
<1>4. \A i \in DOMAIN line : line[i].reg \in Register
    <2>1. DOMAIN line = 1..Len(line)
        BY SeqLength DEF BaseInv, WireInv
    <2> QED
        BY <2>1 DEF BaseInv, WireInv, IsLine
<1>5. gen[Output] \in Pair
    BY DEF BaseInv, WireInv
<1>6. \A ch \in Channels : Known(sim.configs[ch])
    BY DEF BaseInv, SimInv
<1>7. pc \in {"idle", "readline"} /\ call.at \in Channels \cup Slots /\ step \in 1..Len(Now)
      /\ outcome \in {"none", "returned", "raised"} /\ calls \in 0..MaxCalls /\ cut \in 0..calls
    BY DEF BaseInv, DriverInv, Asked
<1> QED
    BY <1>2, <1>3, <1>4, <1>5, <1>6, <1>7 DEF TypeOK, Known

\* The state is what the driver, the serial line and both generators can hold:
\* the script has the transaction the driver is at, it has read no more answers
\* than it has asked for, no more lines are under way than there were
\* operations, only registers are written, and the output register holds a
\* flag for each channel.
THEOREM TypesHold == Spec => []TypeOK
<1>1. Init => BaseInv
    BY BaseStarts
<1>2. BaseInv /\ [Next]_vars => BaseInv'
    BY BaseStep
<1>3. BaseInv => TypeOK
    BY BaseTypes
<1> QED
    BY <1>1, <1>2, <1>3, PTL DEF Spec

-----------------------------------------------------------------------------
(* Operations that found no answer owed. *)

\* An answer that is accepted is the one to the operation's own line, which is
\* the last there is.
LEMMA TakesItsOwn ==
    ASSUME BaseInv, QuietInv, call.quiet, NEW data, Took(data)
    PROVE  /\ ~Broken /\ Answered /\ Executed /\ Effects /\ Reads /\ cut # calls
           /\ Head(inbox) = Answer(Mine)
<1>1. pc = "readline" /\ inbox # <<>> /\ Head(inbox) # Rest
    BY DEF Took, Stopped, Continued, Expected, Ok, Rest
<1>2. Owed /\ ~Broken
    BY <1>1 DEF QuietInv, Broken
<1>3. Answered /\ Executed
    BY <1>1, <1>2 DEF Owed, Lost, Written
<1>4. Head(inbox) = Answer(Mine)
    BY <1>1, <1>3, SeqTail DEF Answered, BaseInv, WireInv
<1> QED
    BY <1>2, <1>3, <1>4 DEF Owed

\* What the line under way says.
LEMMA MineIs ==
    ASSUME BaseInv, pc = "readline"
    PROVE  /\ Sound(call) /\ step \in 1..Len(ScriptOf(call)) /\ Now = ScriptOf(call)
           /\ Len(Now) \in Nat /\ step \in Nat
           /\ Mine.op = Now[step].op /\ Mine.reg = Now[step].reg /\ Mine.by = call
           /\ Mine.reg \in Register
           /\ IF Mine.op = "w" /\ Mine.reg = Output
              THEN call.op \in Setters /\ step = Len(Now) /\ Mine.data = Flip(Last(seen), call)
              ELSE Mine.data = Now[step].data
<1>1. Sound(call) /\ step \in 1..Len(ScriptOf(call)) /\ Now = ScriptOf(call) /\ Len(Now) \in Nat
    BY NowIs, ScriptLength DEF BaseInv, DriverInv
<1>2. call.op \in Setters /\ step = Len(ScriptOf(call)) => Last(seen) \in Pair
    BY <1>1 DEF BaseInv, SeenInv
<1>3. IsLine(Mine) /\ Mine.by = call /\ Mine.op = Now[step].op /\ Mine.reg = Now[step].reg
    BY <1>1, <1>2, LineIs DEF Mine
<1>4. IF Mine.op = "w" /\ Mine.reg = Output
      THEN call.op \in Setters /\ step = Len(Now) /\ Mine.data = Flip(Last(seen), call)
      ELSE Mine.data = Now[step].data
    BY <1>1, <1>2, LineIs DEF Mine
<1> QED
    BY <1>1, <1>3, <1>4 DEF IsLine

\* A pair that was read goes into the next line with one flag changed.
LEMMA FlipKeepsOther ==
    ASSUME NEW c, c.at \in Channels, NEW pair \in Pair
    PROVE  Flip(pair, c)[Other(c.at)] = pair[Other(c.at)] /\ Flip(pair, c)[c.at] = On(c)
<1>1. Other(c.at) \in Channels /\ Other(c.at) # c.at
    BY DEF Other, Channels
<1> QED
    BY <1>1 DEF Flip, Pair

\* A setter that goes on to write the pair has read the one that is there.
LEMMA ReadsThePair ==
    ASSUME BaseInv, QuietInv, call.quiet, NEW data, Took(data), Continued,
           call.op \in Setters, step + 1 = Len(Now)
    PROVE  Last(seen') = gen[Output] /\ gen[Output] \in Pair
<1>1. pc = "readline"
    BY DEF Continued
<1>2. Now[step] = Read(Output)
    <2>1. ScriptOf(call)[Len(ScriptOf(call)) - 1] = Read(Output)
        BY SetterScript DEF BaseInv, DriverInv
    <2>2. Len(Now) - 1 = step
        BY <1>1, MineIs
    <2> QED
        BY <2>1, <2>2, NowIs
<1>3. Now[step].op = "r" /\ Now[step].reg = Output
    BY <1>2, Transactions
<1>4. Head(inbox) = Answer(Mine)
    BY TakesItsOwn
<1>5. Answer(Mine).data = gen[Output]
    BY <1>1, <1>3, MineIs DEF Answer
<1>6. data = Head(inbox).data
    BY <1>3 DEF Took, Datum
<1>7. Last(seen') = data
    <2>1. ~(step + 1 < Len(Now))
        BY <1>1, MineIs
    <2> QED
        BY <2>1, HeardPair
<1> QED
    BY <1>4, <1>5, <1>6, <1>7 DEF BaseInv, WireInv

\* The line of such an operation is the next one, and keeps the other output.
LEMMA HeadStep ==
    ASSUME Inv, Next
    PROVE  HeadInv'
<1>1. Started \/ Execute \/ Lose \/ Accepted \/ CutShort \/ GivenUp \/ (pc = "idle" /\ Reconnect)
    BY Steps DEF Inv, BaseInv
<1>2. IsSeq(line) /\ Len(line) \in Nat
    BY SeqLength DEF Inv, BaseInv, WireInv
<1> DEFINE Keeps(l) == l.op = "w" /\ l.reg = Output =>
                           l.data[Other(l.by.at)] = gen[Output][Other(l.by.at)]
<1>3. \A i \in 1..Len(line) : line[i].by.quiet => i = 1 /\ Keeps(line[i])
    BY DEF Inv, HeadInv
<1>4. CASE UNCHANGED <<line, gen>>
    BY <1>4 DEF Inv, HeadInv
<1>5. CASE line # <<>> /\ line' = Tail(line)
    <2>1. Len(line') = Len(line) - 1 /\ \A i \in 1..Len(line') : line'[i] = line[i + 1]
        BY <1>2, <1>5, SeqTail
    <2>2. ASSUME NEW i \in 1..Len(line') PROVE ~line'[i].by.quiet
        <3>1. i + 1 \in 1..Len(line) /\ i + 1 # 1
            BY <1>2, <2>1
        <3> QED
            BY <1>3, <2>1, <3>1
    <2> QED
        BY <2>2 DEF HeadInv
<1>6. ASSUME NEW l, line' = Append(line, l), gen' = gen, l.by.quiet => line = <<>> /\ Keeps(l)
      PROVE  HeadInv'
    <2>1. /\ Len(line') = Len(line) + 1 /\ line'[Len(line) + 1] = l
          /\ \A i \in 1..Len(line) : line'[i] = line[i]
        BY <1>2, <1>6, SeqAppend
    <2>2. line = <<>> => Len(line) = 0
        BY <1>2, SeqLength
    <2>3. ASSUME NEW i \in 1..Len(line'), line'[i].by.quiet
          PROVE  i = 1 /\ Keeps(line'[i])
        <3>1. CASE i \in 1..Len(line)
            BY <1>3, <2>1, <2>3, <3>1
        <3>2. CASE i = Len(line) + 1
            <4>1. line'[i] = l
                BY <2>1, <3>2
            <4>2. l.by.quiet
                BY <2>3, <4>1
            <4>3. line = <<>> /\ Keeps(l)
                BY <1>6, <4>2
            <4>4. i = 1
                BY <2>2, <3>2, <4>3
            <4> QED
                BY <4>1, <4>3, <4>4
        <3> QED
            BY <1>2, <2>1, <3>1, <3>2
    <2> QED
        BY <1>6, <2>3 DEF HeadInv
<1>7. CASE Started \/ Accepted \/ CutShort
    <2>1. gen' = gen
        BY <1>7 DEF Started, Accepted, CutShort, Took, Stopped, Continued
    <2>2. CASE line' = line
        BY <1>4, <2>1, <2>2
    <2>3. CASE /\ Started /\ Sound(call') /\ line' = Append(line, Line(call', 1, <<>>))
               /\ ~(Line(call', 1, <<>>).op = "w" /\ Line(call', 1, <<>>).reg = Output)
        <3>1. Line(call', 1, <<>>).by = call'
            BY DEF Line
        <3>2. call'.quiet => line = <<>>
            BY <2>3 DEF Started, Quiet
        <3> QED
            BY <1>6, <2>1, <2>3, <3>1, <3>2
    <2>4. CASE Continued /\ line' = Append(line, Line(call, step + 1, seen'))
        <3> DEFINE l == Line(call, step + 1, seen')
        <3>1. Accepted \/ CutShort
            BY <1>7, <2>4 DEF Started, Continued
        <3>2. PICK data : Took(data)
            BY <3>1 DEF Accepted, CutShort
        <3>3. l.by = call
            BY DEF Line
        <3>4. ASSUME call.quiet PROVE line = <<>> /\ Keeps(l)
            <4>1. line = <<>>
                BY <3>2, <3>4, TakesItsOwn DEF Answered, Inv
            <4>2. ASSUME l.op = "w", l.reg = Output
                  PROVE  l.data[Other(l.by.at)] = gen[Output][Other(l.by.at)]
                <5>1. Sound(call) /\ step + 1 \in 1..Len(ScriptOf(call)) /\ Now = ScriptOf(call)
                    BY <2>4, MineIs DEF Continued, Inv
                <5>2. call.op \in Setters /\ step + 1 = Len(ScriptOf(call)) =>
                          Last(seen') = gen[Output] /\ gen[Output] \in Pair
                    BY <2>4, <3>2, <3>4, <5>1, ReadsThePair DEF Inv
                <5>3. /\ call.op \in Setters /\ step + 1 = Len(ScriptOf(call))
                      /\ l.data = Flip(Last(seen'), call)
                    BY <4>2, <5>1, <5>2, LineIs
                <5>4. call.at \in Channels
                    BY <5>1, <5>3 DEF Sound, Asked
                <5> HIDE DEF l
                <5> QED
                    BY <3>3, <5>2, <5>3, <5>4, FlipKeepsOther
            <4> QED
                BY <4>1, <4>2
        <3> QED
            BY <1>6, <2>1, <2>4, <3>3, <3>4
    <2> QED
        BY <1>7, <2>2, <2>3, <2>4, NewLine DEF Inv
<1>8. CASE GivenUp \/ (pc = "idle" /\ Reconnect)
    BY <1>4, <1>8 DEF GivenUp, Stopped, Reconnect
<1>9. CASE Execute \/ Lose
    BY <1>5, <1>9 DEF Execute, Lose
<1> QED
    BY <1>1, <1>7, <1>8, <1>9

\* What it has done before its line, and does with it, is done when the line has
\* been answered.
LEMMA StepDone ==
    ASSUME BaseInv, pc = "readline", Executed, Effects
    PROVE  \A k \in 1..step : Now[k].op = "w" /\ Now[k].reg # Output => gen[Now[k].reg] = Now[k].data
<1>1. /\ Sound(call) /\ step \in 1..Len(ScriptOf(call)) /\ Now = ScriptOf(call) /\ step \in Nat
      /\ Mine.op = Now[step].op /\ Mine.reg = Now[step].reg
      /\ ~(Mine.op = "w" /\ Mine.reg = Output) => Mine.data = Now[step].data
    BY MineIs
<1>2. ASSUME Now[step].op = "w", Now[step].reg # Output
      PROVE  gen[Now[step].reg] = Now[step].data
    <2>1. gen[Now[step].reg] = Taken(Now[step].reg, Now[step].data)
        BY <1>1, <1>2 DEF Executed
    <2>2. Taken(Now[step].reg, Now[step].data) = Now[step].data
        BY <1>1, <1>2, WritesApart
    <2> QED
        BY <2>1, <2>2
<1>3. \A k \in 1..step : k = step \/ k \in 1..step - 1
    BY <1>1
<1> QED
    BY <1>2, <1>3 DEF Effects

\* What is owed to such an operation is owed after every step.
LEMMA QuietStep ==
    ASSUME Inv, Next
    PROVE  QuietInv'
<1>1. Started \/ Execute \/ Lose \/ Accepted \/ CutShort \/ GivenUp \/ (pc = "idle" /\ Reconnect)
    BY Steps DEF Inv, BaseInv
<1>2. /\ IsSeq(line) /\ Len(line) \in Nat /\ IsSeq(inbox) /\ Len(inbox) \in Nat
      /\ calls \in Nat /\ cut <= calls /\ cut \in Nat
    BY SeqLength DEF Inv, BaseInv, WireInv, DriverInv
<1>3. SUFFICES ASSUME pc' = "readline", call'.quiet
               PROVE  Broken' \/ Owed'
    BY DEF QuietInv
<1>4. CASE Started
    <2>1. /\ Sound(call') /\ line' = Append(line, Line(call', 1, <<>>))
          /\ line = <<>> /\ inbox' = <<>> /\ step' = 1 /\ seen' = <<>>
          /\ cut' = cut /\ calls' = calls + 1
        BY <1>3, <1>4 DEF Started, Quiet
    <2>2. Mine' = Line(call', 1, <<>>)
        BY <2>1 DEF Mine, Line
    <2>3. line' = <<Mine'>>
        BY <2>1, <2>2, SeqOne
    <2>4. Written'
        <3>1. Len(line') = 1 /\ line'[1] = Mine'
            BY <2>3
        <3> QED
            BY <2>1, <3>1 DEF Written
    <2>5. Unchanged'
        <3>1. ~(call'.op \in Setters /\ 1 = Len(ScriptOf(call')))
            BY <2>1, SetterScript DEF Sound
        <3>2. call'.op \in Setters => step' # Len(Now')
            BY <2>1, <3>1, NowIs
        <3> QED
            BY <3>2 DEF Unchanged
    <2>6. Effects' /\ Reads'
        <3>1. 1..step' - 1 = {} /\ Len(seen') = step' - 1
            BY <2>1, SeqOne, SeqLength
        <3> QED
            BY <3>1 DEF Effects, Reads
    <2>7. cut' # calls'
        BY <1>2, <2>1
    <2> QED
        BY <2>4, <2>5, <2>6, <2>7 DEF Owed
<1>5. CASE Accepted
    <2>1. PICK data : Took(data) /\ (Now[step].op = "r" => data = Head(inbox).data)
        BY <1>5 DEF Accepted
    <2>2. Continued
        BY <1>3, <2>1 DEF Took, Stopped
    <2>3. pc = "readline" /\ call' = call /\ call.quiet /\ gen' = gen /\ cut' = cut /\ calls' = calls
          /\ step' = step + 1 /\ Now' = Now
        BY <1>3, <1>5, <2>2, NowIs DEF Continued, Accepted
    <2>4. Answered /\ Executed /\ Effects /\ Reads /\ cut # calls /\ Head(inbox) = Answer(Mine)
        BY <2>1, <2>3, TakesItsOwn DEF Inv
    <2>5. /\ Sound(call) /\ step \in 1..Len(ScriptOf(call)) /\ Now = ScriptOf(call)
          /\ Len(Now) \in Nat /\ step \in Nat
          /\ Mine.op = Now[step].op /\ Mine.reg = Now[step].reg
        BY <2>3, MineIs DEF Inv
    <2>6. Written'
        <3>1. inbox # <<>> /\ inbox' = Tail(inbox) /\ Len(inbox) = 1 /\ line = <<>>
            BY <1>5, <2>1, <2>4 DEF Accepted, Took, Answered
        <3>2. inbox' = <<>>
            <4>1. IsSeq(inbox') /\ Len(inbox') = 0
                BY <1>2, <3>1, SeqTail
            <4> QED
                BY <4>1, SeqLength
        <3>3. Mine' = Line(call, step + 1, seen')
            BY <2>3 DEF Mine, Line
        <3>4. line' = <<Mine'>>
            BY <2>2, <3>1, <3>3, SeqOne DEF Continued
        <3>5. Len(line') = 1 /\ line'[1] = Mine'
            BY <3>4
        <3> QED
            BY <3>2, <3>5 DEF Written
    <2>7. Unchanged'
        <3>1. ASSUME call.op \in Setters, step + 1 = Len(Now)
              PROVE  Last(seen') = gen[Output]
            BY <2>1, <2>2, <2>3, <3>1, ReadsThePair DEF Inv
        <3> QED
            BY <2>3, <3>1 DEF Unchanged
    <2>8. Effects'
        <3>1. \A k \in 1..step : Now[k].op = "w" /\ Now[k].reg # Output => gen[Now[k].reg] = Now[k].data
            BY <2>3, <2>4, StepDone DEF Inv
        <3>2. ASSUME NEW k \in 1..step, Now[k].op = "w" PROVE Now[k].reg # Output
            <4>1. k \in 1..Len(ScriptOf(call)) /\ k # Len(ScriptOf(call))
                BY <2>2, <2>5 DEF Continued
            <4>2. CASE call.op \in Setters
                <5> DEFINE n == Len(ScriptOf(call))
                <5>1. /\ n \in Nat /\ ScriptOf(call)[n - 1] = Read(Output)
                      /\ \A j \in 1..n - 2 : ScriptOf(call)[j].reg \in Register \ {Output}
                    BY <2>5, <4>2, SetterScript DEF Sound
                <5>2. k \in 1..n - 2 \/ k = n - 1
                    BY <4>1, <5>1
                <5>3. CASE k \in 1..n - 2
                    BY <2>5, <5>1, <5>3
                <5>4. CASE k = n - 1
                    <6>1. Now[k] = Read(Output)
                        BY <2>5, <5>1, <5>4
                    <6> QED
                        BY <3>2, <6>1, Transactions
                <5> QED
                    BY <5>2, <5>3, <5>4
            <4>3. CASE call.op \notin Setters
                BY <2>5, <3>2, <4>1, <4>3, OtherScript
            <4> QED
                BY <4>2, <4>3
        <3>3. step' - 1 = step
            BY <2>3, <2>5
        <3> QED
            BY <2>3, <3>1, <3>2, <3>3 DEF Effects
    <2>9. Reads'
        <3>1. SUFFICES ASSUME call.op \in Readers
                       PROVE  Len(seen') = step' - 1 /\ \A k \in 1..step' - 1 : seen'[k] = gen[Now[k].reg]
            BY <2>3 DEF Reads
        <3>2. Now[step].op = "r"
            <4>1. call.op \notin Setters
                BY <3>1 DEF Readers, Setters
            <4> QED
                BY <2>5, <3>1, <4>1, OtherScript
        <3>3. seen' = Append(seen, data) /\ data = gen[Now[step].reg]
            BY <2>1, <2>4, <2>5, <3>2 DEF Took, Heard, Answer
        <3>4. IsSeq(seen) /\ Len(seen) = step - 1 /\ \A k \in 1..step - 1 : seen[k] = gen[Now[k].reg]
            BY <2>4, <3>1 DEF Reads, Inv, BaseInv, SeenInv
        <3>5. /\ Len(seen') = Len(seen) + 1 /\ seen'[Len(seen) + 1] = data
              /\ \A k \in 1..Len(seen) : seen'[k] = seen[k]
            BY <3>3, <3>4, SeqAppend
        <3>6. (step - 1) + 1 = step /\ step' - 1 = step /\ \A k \in 1..step : k = step \/ k \in 1..step - 1
            BY <2>3, <2>5
        <3> QED
            BY <3>3, <3>4, <3>5, <3>6
    <2> QED
        BY <2>3, <2>4, <2>6, <2>7, <2>8, <2>9 DEF Owed
<1>6. CASE CutShort
    <2>1. PICK data : Took(data)
        BY <1>6 DEF CutShort
    <2>2. Continued /\ inbox # <<>>
        BY <1>3, <2>1 DEF Took, Stopped
    <2>3. inbox' # <<>> /\ Head(inbox') = Rest /\ cut' = calls'
        BY <1>2, <1>6, <2>2, Replaced DEF CutShort, Continued
    <2> QED
        BY <2>3 DEF Broken
<1>7. CASE GivenUp \/ (pc = "idle" /\ Reconnect)
    BY <1>3, <1>7 DEF GivenUp, Stopped, Reconnect, driver
<1>8. CASE Execute \/ Lose
    <2>1. /\ pc = "readline" /\ call.quiet /\ line # <<>> /\ line' = Tail(line)
          /\ UNCHANGED <<call, step, seen, calls, cut>>
        BY <1>3, <1>8 DEF Execute, Lose, driver
    <2>2. Now' = Now /\ Mine' = Mine
        BY <2>1, NowIs DEF Mine, Line
    <2>3. Broken \/ Owed
        BY <2>1 DEF Inv, QuietInv
    <2>4. CASE Broken
        <3>1. CASE Lose
            BY <2>1, <2>4, <3>1 DEF Lose, Broken
        <3>2. CASE Execute
            <4>1. PICK e : inbox' = Append(inbox, e)
                BY <3>2 DEF Execute
            <4>2. inbox # <<>> /\ Head(inbox) = Rest /\ cut = calls
                BY <2>4 DEF Broken
            <4>3. inbox' # <<>> /\ IsSeq(inbox') /\ \A i \in 1..Len(inbox) : inbox'[i] = inbox[i]
                BY <1>2, <4>1, SeqAppend
            <4>4. 1 \in 1..Len(inbox) /\ Head(inbox) = inbox[1] /\ Head(inbox') = inbox'[1]
                BY <1>2, <4>2, <4>3, SeqLength, SeqTail
            <4>5. Head(inbox') = Rest
                BY <4>2, <4>3, <4>4
            <4> QED
                BY <2>1, <4>2, <4>3, <4>5 DEF Broken
        <3> QED
            BY <1>8, <3>1, <3>2
    <2>5. CASE Owed
        <3>1. Len(line) = 1 /\ line[1] = Mine /\ inbox = <<>> /\ Unchanged /\ Effects /\ Reads /\ cut # calls
            BY <2>1, <2>5 DEF Owed, Lost, Answered, Written
        <3>2. line' = <<>>
            <4>1. IsSeq(line') /\ Len(line') = 0
                BY <1>2, <2>1, <3>1, SeqTail
            <4> QED
                BY <4>1, SeqLength
        <3>3. CASE Lose
            <4>1. UNCHANGED <<inbox, gen>>
                BY <3>3 DEF Lose
            <4>2. Lost' /\ Effects' /\ Reads'
                BY <2>1, <2>2, <3>1, <3>2, <4>1 DEF Lost, Effects, Reads
            <4> QED
                BY <2>1, <3>1, <4>2 DEF Owed
        <3>4. CASE Execute
            <4>1. Head(line) = Mine
                BY <1>2, <2>1, <3>1, SeqTail
            <4>2. /\ gen' = IF Mine.op = "w"
                            THEN [gen EXCEPT ![Mine.reg] = Taken(Mine.reg, Mine.data)] ELSE gen
                  /\ inbox' = Append(inbox, Answer(Mine))
                BY <3>4, <4>1 DEF Execute
            <4>3. /\ Sound(call) /\ step \in 1..Len(ScriptOf(call)) /\ Now = ScriptOf(call)
                  /\ Len(Now) \in Nat /\ step \in Nat
                  /\ Mine.op = Now[step].op /\ Mine.reg = Now[step].reg /\ Mine.reg \in Register
                BY <2>1, MineIs DEF Inv
            <4>4. DOMAIN gen = Register
                BY DEF Inv, BaseInv, WireInv
            <4>5. Executed'
                BY <2>2, <4>2, <4>3, <4>4 DEF Executed
            <4>6. Answered'
                <5>1. Answer(Mine)' = Answer(Mine)
                    BY <2>2, <4>2 DEF Answer
                <5>2. inbox' = <<Answer(Mine)>>
                    BY <3>1, <4>2, SeqOne
                <5>3. Len(inbox') = 1 /\ inbox'[1] = Answer(Mine)
                    BY <5>2
                <5> QED
                    BY <3>2, <5>1, <5>3 DEF Answered
            <4>7. Effects'
                <5>1. ASSUME NEW k \in 1..step - 1, Now[k].op = "w"
                      PROVE  gen'[Now[k].reg] = Now[k].data
                    <6>1. gen[Now[k].reg] = Now[k].data
                        BY <3>1, <5>1 DEF Effects
                    <6>2. k \in 1..Len(ScriptOf(call)) /\ k # step
                        BY <4>3
                    <6>3. Now[k].reg \in Register
                        BY <4>3, <6>2, ScriptRegisters
                    <6>4. Mine.op = "w" => Now[k].reg # Mine.reg
                        BY <4>3, <5>1, <6>2, WritesApart
                    <6> QED
                        BY <4>2, <4>4, <6>1, <6>3, <6>4
                <5> QED
                    BY <2>1, <2>2, <5>1 DEF Effects
            <4>8. Reads'
                <5>1. ASSUME call.op \in Readers PROVE gen' = gen
                    <6>1. call.op \notin Setters
                        BY <5>1 DEF Readers, Setters
                    <6>2. Now[step].op = "r"
                        BY <4>3, <5>1, <6>1, OtherScript
                    <6> QED
                        BY <4>2, <4>3, <6>2
                <5> QED
                    BY <2>1, <2>2, <3>1, <5>1 DEF Reads
            <4> QED
                BY <2>1, <3>1, <4>5, <4>6, <4>7, <4>8 DEF Owed
        <3> QED
            BY <1>8, <3>3, <3>4
    <2> QED
        BY <2>3, <2>4, <2>5
<1> QED
    BY <1>1, <1>4, <1>5, <1>6, <1>7, <1>8

\* Nothing is owed to begin with.
LEMMA QuietStarts ==
    ASSUME Init
    PROVE  HeadInv /\ QuietInv
<1>1. line = <<>> /\ pc = "idle"
    BY DEF Init
<1>2. Len(line) = 0
    BY <1>1, SeqOne, SeqLength
<1> QED
    BY <1>1, <1>2 DEF HeadInv, QuietInv

\* The invariant holds after every step.
LEMMA InvStep ==
    ASSUME Inv, [Next]_vars
    PROVE  Inv'
<1>1. BaseInv'
    BY BaseStep DEF Inv
<1>2. CASE Next
    BY <1>1, <1>2, HeadStep, QuietStep DEF Inv
<1>3. CASE UNCHANGED vars
    <2>1. UNCHANGED <<pc, call, step, seen, calls, cut, line, inbox, gen>>
        BY <1>3 DEF vars, driver
    <2>2. HeadInv'
        BY <2>1 DEF Inv, HeadInv
    <2>3. Now' = Now /\ Mine' = Mine
        BY <2>1, NowIs DEF Mine, Line
    <2>4. Answer(Mine)' = Answer(Mine)
        BY <2>1, <2>3 DEF Answer
    <2>5. Lost' = Lost /\ Written' = Written /\ Answered' = Answered
        BY <2>1, <2>3, <2>4 DEF Lost, Written, Answered
    <2>6. /\ Broken' = Broken /\ Unchanged' = Unchanged
          /\ Executed' = Executed /\ Effects' = Effects /\ Reads' = Reads
        BY <2>1, <2>3 DEF Broken, Unchanged, Executed, Effects, Reads
    <2>7. (Broken \/ Owed) => (Broken' \/ Owed')
        BY <2>1, <2>5, <2>6 DEF Owed
    <2>8. QuietInv'
        BY <2>1, <2>7 DEF Inv, QuietInv
    <2> QED
        BY <1>1, <2>2, <2>8 DEF Inv
<1> QED
    BY <1>2, <1>3

\* The strengthened invariant, of every behaviour.
THEOREM LinkInvariant == Spec => []Inv
<1>1. Init => Inv
    BY BaseStarts, QuietStarts DEF Inv
<1>2. Inv /\ [Next]_vars => Inv'
    BY InvStep
<1> QED
    BY <1>1, <1>2, PTL DEF Spec

\* Switching one channel's output leaves the other as it is
\* (interfaces/signal_generator.py:61): when the generator executes the write
\* of the shared register of an operation that found no answer owed, the other
\* channel's flag is the one that is there, though the register was read
\* before, answers may be cut and the operation may have given up by then.
THEOREM OtherOutputStays == Spec => QuietOutputUndisturbed
<1>1. ASSUME Inv, [Next]_vars, WritesOutput, Head(line).by.quiet
      PROVE  OtherStays
    <2>1. line # <<>> /\ Head(line).op = "w" /\ Head(line).reg = Output /\ gen' # gen
        BY <1>1 DEF WritesOutput
    <2>2. Execute
        <3>1. gen' = gen \/ Execute
            <4>1. CASE Next
                <5>1. Started \/ Execute \/ Lose \/ Accepted \/ CutShort \/ GivenUp
                      \/ (pc = "idle" /\ Reconnect)
                    BY <1>1, <4>1, Steps DEF Inv, BaseInv
                <5> QED
                    BY <5>1 DEF Started, Lose, Accepted, CutShort, GivenUp, Took, Stopped, Continued,
                                Reconnect
            <4>2. CASE UNCHANGED vars
                BY <4>2 DEF vars
            <4> QED
                BY <1>1, <4>1, <4>2
        <3> QED
            BY <2>1, <3>1
    <2>3. Head(line) = line[1] /\ 1 \in 1..Len(line)
        BY <1>1, <2>1, SeqLength, SeqTail DEF Inv, BaseInv, WireInv
    <2> DEFINE l == Head(line)
    <2>4. l.data[Other(l.by.at)] = gen[Output][Other(l.by.at)]
        BY <1>1, <2>1, <2>3 DEF Inv, HeadInv
    <2>5. gen'[Output] = l.data
        <3>1. gen' = [gen EXCEPT ![Output] = Taken(Output, l.data)]
            BY <2>1, <2>2 DEF Execute
        <3>2. Output \in DOMAIN gen
            BY <1>1 DEF Inv, BaseInv, WireInv, Register
        <3> HIDE DEF l
        <3>3. Taken(Output, l.data) = l.data
            BY OthersTaken
        <3> QED
            BY <3>1, <3>2, <3>3
    <2> QED
        BY <2>4, <2>5 DEF OtherStays
<1>2. Inv /\ [Next]_vars => [WritesOutput /\ Head(line).by.quiet => OtherStays]_vars
    BY <1>1
<1> QED
    BY <1>2, LinkInvariant, PTL DEF Spec, QuietOutputUndisturbed

\* What an operation that found no answer owed reports when it returns is so.
LEMMA ReturnsRight ==
    ASSUME Inv, Next, Returns, call.quiet
    PROVE  Reported /\ InStep
<1>1. Started \/ Execute \/ Lose \/ Accepted \/ CutShort \/ GivenUp \/ (pc = "idle" /\ Reconnect)
    BY Steps DEF Inv, BaseInv
<1>2. pc = "readline" /\ pc' = "idle" /\ outcome' = "returned"
    BY DEF Returns
<1>3. Accepted \/ CutShort
    BY <1>1, <1>2 DEF Started, Execute, Lose, GivenUp, Reconnect, driver
<1>4. PICK data : Took(data) /\ (Accepted => (Now[step].op = "r" => data = Head(inbox).data))
    BY <1>3 DEF Accepted, CutShort
<1>5. Stopped /\ step = Len(Now) /\ UNCHANGED <<call, calls, line, gen>>
    BY <1>2, <1>4 DEF Took, Stopped, Continued
<1>6. Answered /\ Executed /\ Effects /\ Reads /\ cut # calls /\ Head(inbox) = Answer(Mine)
    BY <1>4, TakesItsOwn DEF Inv
<1>7. /\ Sound(call) /\ step \in 1..Len(ScriptOf(call)) /\ Now = ScriptOf(call)
      /\ Len(Now) \in Nat /\ step \in Nat
      /\ Mine.op = Now[step].op /\ Mine.reg = Now[step].reg /\ Mine.reg \in Register
    BY <1>2, MineIs DEF Inv
<1>8. DOMAIN Now = 1..step
    <2>1. IsSeq(ScriptOf(call))
        BY <1>7, ScriptLength DEF Sound
    <2> QED
        BY <1>5, <1>7, <2>1, SeqLength
<1>9. ASSUME call.op \in {"configure_channel", "enable_output"}
      PROVE  gen[Output][call.at] = On(call)
    <2>1. call.op \in Setters /\ call.at \in Channels
        BY <1>7, <1>9 DEF Setters, Sound, Asked
    <2>2. Last(seen) \in Pair
        <3>1. ~(step < Len(Now))
            BY <1>5, <1>7
        <3> QED
            BY <1>2, <2>1, <3>1 DEF Inv, BaseInv, SeenInv
    <2>3. Mine.op = "w" /\ Mine.reg = Output /\ Mine.data = Flip(Last(seen), call)
        <3>1. Now[step] = Write(Output, 0)
            BY <1>5, <1>7, <2>1, SetterScript DEF Sound
        <3>2. Mine.op = "w" /\ Mine.reg = Output
            BY <1>7, <3>1, Transactions
        <3> QED
            BY <1>2, <3>2, MineIs DEF Inv
    <2>4. gen[Output] = Flip(Last(seen), call)
        BY <1>6, <2>3, OthersTaken DEF Executed
    <2> QED
        BY <2>1, <2>2, <2>4, FlipKeepsOther
<1>10. \A k \in DOMAIN Now : Now[k].op = "w" /\ Now[k].reg # Output => gen[Now[k].reg] = Now[k].data
    BY <1>2, <1>6, <1>8, StepDone DEF Inv
<1>11. CASE Accepted
    <2>1. cut' # calls
        BY <1>6, <1>11 DEF Accepted
    <2>2. line' = <<>> /\ inbox' = <<>>
        <3>1. line' = <<>> /\ inbox' = Tail(inbox) /\ Len(inbox) = 1 /\ inbox # <<>>
            BY <1>4, <1>5, <1>6, <1>11 DEF Answered, Accepted, Took
        <3>2. IsSeq(inbox') /\ Len(inbox') = 0
            BY <3>1, SeqTail DEF Inv, BaseInv, WireInv
        <3> QED
            BY <3>1, <3>2, SeqLength
    <2>3. ASSUME call.op \in {"read_channel", "output_enabled", "read_arbitrary", "idn"}
          PROVE  Len(seen') = Len(Now) /\ \A k \in DOMAIN Now : gen[Now[k].reg] = seen'[k]
        <3>1. call.op \in Readers /\ call.op \notin Setters
            BY <2>3 DEF Readers, Setters
        <3>2. Now[step].op = "r"
            BY <1>7, <3>1, OtherScript
        <3>3. seen' = Append(seen, data) /\ data = gen[Now[step].reg]
            BY <1>4, <1>6, <1>7, <1>11, <3>2 DEF Took, Heard, Answer
        <3>4. IsSeq(seen) /\ Len(seen) = step - 1 /\ \A k \in 1..step - 1 : seen[k] = gen[Now[k].reg]
            BY <1>6, <3>1 DEF Reads, Inv, BaseInv, SeenInv
        <3>5. /\ Len(seen') = Len(seen) + 1 /\ seen'[Len(seen) + 1] = data
              /\ \A k \in 1..Len(seen) : seen'[k] = seen[k]
            BY <3>3, <3>4, SeqAppend
        <3>6. (step - 1) + 1 = step /\ \A k \in 1..step : k = step \/ k \in 1..step - 1
            BY <1>7
        <3> QED
            BY <1>5, <1>8, <3>3, <3>4, <3>5, <3>6
    <2> QED
        BY <1>9, <1>10, <2>1, <2>2, <2>3 DEF Reported, InStep
<1>12. CASE CutShort
    <2>1. cut' = calls
        BY <1>12 DEF CutShort
    <2> QED
        BY <1>9, <1>10, <2>1 DEF Reported, InStep
<1> QED
    BY <1>3, <1>11, <1>12

\* An operation that found no answer owed on the line and returns is right about
\* all its parameters and all it has read, and leaves nothing owed, whichever of
\* its lines were lost (jds6600.py: _write, _query).
THEOREM AcknowledgedMeansDone == Spec => QuietAcknowledgedMeansDone
<1>1. Inv /\ [Next]_vars => [Returns /\ call.quiet => Reported /\ InStep]_vars
    <2>1. ASSUME Inv, Next, Returns, call.quiet PROVE Reported /\ InStep
        BY <2>1, ReturnsRight
    <2> QED
        BY <2>1
<1> QED
    BY <1>1, LinkInvariant, PTL DEF Spec, QuietAcknowledgedMeansDone

-----------------------------------------------------------------------------
(* What is set and nothing has failed since: the registers hold the codes of  *)
(* what the simulated generator has stored, but for those the operation under *)
(* way is about to change.                                                    *)

Doing(op, at) == pc = "readline" /\ call.op = op /\ call.at = at

ChannelAgrees(ch) ==
    /\ sim.configs[ch] \in Config /\ CheckWithin(sim.configs[ch])
    /\ ~Doing("configure_channel", ch) =>
           \A k \in 1..5 : gen[<<Params[k], ch>>] = Encode(sim.configs[ch])[k]
    /\ ~Doing("configure_channel", ch) /\ ~Doing("enable_output", ch) =>
           gen[Output][ch] = sim.configs[ch].enabled

SlotAgrees(n) ==
    /\ sim.waves[n] \in Seq(Int) /\ Len(sim.waves[n]) = Limits.points
    /\ ~Doing("upload_arbitrary", n) => gen[Slot(n)] = EncodeWave(sim.waves[n])

Agreed ==
    /\ \A ch \in Channels : <<"channel", ch>> \in sure => ChannelAgrees(ch)
    /\ \A n \in Stored : Slot(n) \in sure => SlotAgrees(n)

SureInv ==
    /\ sure # {} => IF pc = "idle" THEN Quiet ELSE call.quiet
    /\ ~(pc = "readline" /\ Broken) => Agreed
    /\ DOMAIN sim.waves = Stored

\* What a legal operation writes to.
LEMMA WhatIsWritten ==
    ASSUME NEW c, Sound(c), NEW k \in 1..Len(ScriptOf(c)), ScriptOf(c)[k].op = "w"
    PROVE  \/ c.op = "configure_channel" /\ \E j \in 1..5 : ScriptOf(c)[k].reg = <<Params[j], c.at>>
           \/ c.op \in Setters /\ c.at \in Channels /\ ScriptOf(c)[k].reg = Output
           \/ ScriptOf(c)[k].reg = Phase
           \/ c.op = "upload_arbitrary" /\ ScriptOf(c)[k].reg = Slot(c.at)
<1>1. CASE c.op = "configure_channel"
    <2>1. /\ Len(ScriptOf(c)) = 7 /\ ScriptOf(c)[7] = Write(Output, 0)
          /\ ScriptOf(c)[6] = Read(Output)
          /\ \A j \in 1..5 : ScriptOf(c)[j] = Write(<<Params[j], c.at>>, Encode(c.arg)[j])
        BY <1>1, ConfigureScript
    <2>2. k \in 1..5 \/ k = 6 \/ k = 7
        BY <2>1
    <2>3. c.at \in Channels /\ c.op \in Setters
        BY <1>1 DEF Sound, Asked, Setters
    <2>4. CASE k \in 1..5
        <3>1. ScriptOf(c)[k].reg = <<Params[k], c.at>>
            BY <2>1, <2>4, Transactions
        <3> QED
            BY <1>1, <2>4, <3>1
    <2>5. CASE k = 6
        BY <2>1, <2>5, Transactions
    <2>6. CASE k = 7
        BY <2>1, <2>3, <2>6, Transactions
    <2> QED
        BY <2>2, <2>4, <2>5, <2>6
<1>2. CASE c.op = "enable_output"
    <2>1. ScriptOf(c) = SetOutput /\ c.at \in Channels /\ c.op \in Setters
        BY <1>2, OtherScripts DEF Sound, Asked, Setters
    <2>2. k = 1 \/ k = 2
        BY <2>1, OutputScript
    <2> QED
        BY <2>1, <2>2, OutputScript, Transactions
<1>3. CASE c.op \in Readers
    <2>1. c.op \notin Setters
        BY <1>3 DEF Readers, Setters
    <2> QED
        BY <1>3, <2>1, OtherScript
<1>4. CASE c.op = "set_phase_deg"
    <2>1. ScriptOf(c) = <<Write(Phase, c.arg)>>
        BY <1>4, OtherScripts
    <2>2. ScriptOf(c)[k] = Write(Phase, c.arg)
        BY <2>1
    <2> QED
        BY <2>2, Transactions
<1>5. CASE c.op = "upload_arbitrary"
    <2>1. ScriptOf(c) = <<Write(Slot(c.at), EncodeWave(c.arg))>>
        BY <1>5, OtherScripts
    <2>2. ScriptOf(c)[k] = Write(Slot(c.at), EncodeWave(c.arg))
        BY <2>1
    <2> QED
        BY <1>5, <2>2, Transactions
<1> QED
    BY <1>1, <1>2, <1>3, <1>4, <1>5 DEF Sound, Asked, Ops, Readers

\* What an operation does to the simulated generator.
LEMMA SimulatedDoes ==
    ASSUME SimInv, Asked(call), DOMAIN sim.waves = Stored, sim' = SimDo(call)
    PROVE  /\ \A ch \in Channels :
                  sim'.configs[ch] =
                      IF call.op = "configure_channel" /\ call.at = ch THEN call.arg
                      ELSE IF call.op = "enable_output" /\ call.at = ch /\ sim.configs[ch] # NoConfig
                      THEN [sim.configs[ch] EXCEPT !.enabled = call.arg]
                      ELSE sim.configs[ch]
           /\ DOMAIN sim'.waves = Stored
           /\ \A n \in Stored :
                  sim'.waves[n] = IF call.op = "upload_arbitrary" /\ call.at = n THEN call.arg
                                  ELSE sim.waves[n]
<1>1. DOMAIN sim = {"configs", "waves"} /\ DOMAIN sim.configs = Channels
    BY DEF SimInv
<1>2. CASE call.op = "configure_channel"
    BY <1>1, <1>2 DEF SimDo
<1>3. CASE call.op = "enable_output" /\ sim.configs[call.at] # NoConfig
    BY <1>1, <1>3 DEF SimDo
<1>4. CASE call.op = "upload_arbitrary"
    BY <1>1, <1>4 DEF SimDo
<1>5. CASE /\ call.op # "configure_channel" /\ call.op # "upload_arbitrary"
           /\ ~(call.op = "enable_output" /\ sim.configs[call.at] # NoConfig)
    BY <1>5 DEF SimDo
<1> QED
    BY <1>2, <1>3, <1>4, <1>5

\* An answer cut in two stays where it is until it is read.
LEMMA BrokenStays ==
    ASSUME Inv, Broken, Execute \/ Lose
    PROVE  Broken'
<1>1. CASE Lose
    BY <1>1 DEF Lose, Broken, driver
<1>2. CASE Execute
    <2>1. PICK e : inbox' = Append(inbox, e)
        BY <1>2 DEF Execute
    <2>2. inbox # <<>> /\ Head(inbox) = Rest /\ cut = calls /\ IsSeq(inbox)
        BY DEF Broken, Inv, BaseInv, WireInv
    <2>3. inbox' # <<>> /\ IsSeq(inbox') /\ \A i \in 1..Len(inbox) : inbox'[i] = inbox[i]
        BY <2>1, <2>2, SeqAppend
    <2>4. 1 \in 1..Len(inbox) /\ Head(inbox) = inbox[1] /\ Head(inbox') = inbox'[1]
        BY <2>2, <2>3, SeqLength, SeqTail
    <2>5. Head(inbox') = Rest /\ cut' = cut /\ calls' = calls
        BY <1>2, <2>2, <2>3, <2>4 DEF Execute, driver
    <2> QED
        BY <2>2, <2>3, <2>5 DEF Broken
<1> QED
    BY <1>1, <1>2

\* The line of an operation changes only the registers it is about to change.
LEMMA AgreedExecutes ==
    ASSUME Inv, Owed, pc = "readline", call.quiet, Agreed, Execute
    PROVE  Agreed'
<1>1. UNCHANGED <<pc, call, sim, sure>> /\ line # <<>>
    BY DEF Execute, driver
<1>2. Written /\ Unchanged
    BY <1>1 DEF Owed, Lost, Answered
<1>3. Head(line) = Mine /\ Head(line) = line[1] /\ 1 \in 1..Len(line)
    BY <1>1, <1>2, SeqTail DEF Written, Inv, BaseInv, WireInv
<1>4. gen' = IF Mine.op = "w" THEN [gen EXCEPT ![Mine.reg] = Taken(Mine.reg, Mine.data)] ELSE gen
    BY <1>3 DEF Execute
<1>5. /\ Sound(call) /\ step \in 1..Len(ScriptOf(call)) /\ Now = ScriptOf(call)
      /\ Mine.op = Now[step].op /\ Mine.reg = Now[step].reg /\ Mine.by = call
    BY MineIs DEF Inv
<1>6. DOMAIN gen = Register
    BY DEF Inv, BaseInv, WireInv
<1>7. CASE Mine.op # "w"
    <2>1. gen' = gen
        BY <1>4, <1>7
    <2> QED
        BY <1>1, <2>1 DEF Agreed, ChannelAgrees, SlotAgrees, Doing
<1>8. CASE Mine.op = "w"
    <2>1. \A reg \in Register : reg # Mine.reg => gen'[reg] = gen[reg]
        BY <1>4, <1>6, <1>8
    <2>2. \/ call.op = "configure_channel" /\ \E j \in 1..5 : Mine.reg = <<Params[j], call.at>>
          \/ call.op \in Setters /\ call.at \in Channels /\ Mine.reg = Output
          \/ Mine.reg = Phase
          \/ call.op = "upload_arbitrary" /\ Mine.reg = Slot(call.at)
        BY <1>5, <1>8, WhatIsWritten
    <2>3. ASSUME NEW ch \in Channels, ~Doing("configure_channel", ch), NEW k \in 1..5
          PROVE  gen'[<<Params[k], ch>>] = gen[<<Params[k], ch>>]
        <3>1. <<Params[k], ch>> \in Register \ {Output, Phase}
            BY ParamRegisters
        <3>2. \A n : Slot(n) # <<Params[k], ch>>
            BY DEF Slot, Params
        <3>3. ~(call.op = "configure_channel" /\ call.at = ch)
            BY <2>3 DEF Doing
        <3>4. <<Params[k], ch>> # Mine.reg
            BY <2>2, <3>1, <3>2, <3>3
        <3> QED
            BY <2>1, <3>1, <3>4
    <2>4. ASSUME NEW ch \in Channels, ~Doing("configure_channel", ch), ~Doing("enable_output", ch)
          PROVE  gen'[Output][ch] = gen[Output][ch]
        <3>1. CASE Mine.reg # Output
            <4>1. Output \in Register
                BY DEF Register
            <4> QED
                BY <2>1, <3>1, <4>1
        <3>2. CASE Mine.reg = Output
            <4>1. call.op \in Setters /\ call.at \in Channels
                <5>1. call.op \in Setters
                    BY <1>8, <3>2, MineIs DEF Inv
                <5> QED
                    BY <1>5, <5>1 DEF Sound, Asked
            <4>2. call.at # ch
                BY <2>4, <4>1 DEF Doing, Setters
            <4>3. ch = Other(call.at)
                BY <4>1, <4>2 DEF Other, Channels
            <4>4. Mine.by.quiet /\ Mine.data[ch] = gen[Output][ch]
                BY <1>3, <1>5, <1>8, <3>2, <4>3 DEF Inv, HeadInv
            <4>5. gen'[Output] = Mine.data
                <5>1. Taken(Output, Mine.data) = Mine.data
                    BY OthersTaken
                <5>2. Output \in Register
                    BY DEF Register
                <5> QED
                    BY <1>4, <1>6, <1>8, <3>2, <5>1, <5>2
            <4> QED
                BY <4>4, <4>5
        <3> QED
            BY <3>1, <3>2
    <2>5. ASSUME NEW n \in Stored, ~Doing("upload_arbitrary", n)
          PROVE  gen'[Slot(n)] = gen[Slot(n)]
        <3>1. Slot(n) \in Register \ {Output, Phase} /\ \A m : Slot(m) = Slot(n) => m = n
            BY DEF Slot, Register, Output, Phase
        <3>2. \A j \in 1..5 : <<Params[j], call.at>> # Slot(n)
            BY DEF Slot, Params
        <3>3. ~(call.op = "upload_arbitrary" /\ call.at = n)
            BY <2>5 DEF Doing
        <3>4. Slot(n) # Mine.reg
            BY <2>2, <3>1, <3>2, <3>3
        <3> QED
            BY <2>1, <3>1, <3>4
    <2>6. ASSUME NEW ch \in Channels, <<"channel", ch>> \in sure PROVE ChannelAgrees(ch)'
        <3>1. ChannelAgrees(ch)
            BY <2>6 DEF Agreed
        <3> QED
            BY <1>1, <2>3, <2>4, <3>1 DEF ChannelAgrees, Doing
    <2>7. ASSUME NEW n \in Stored, Slot(n) \in sure PROVE SlotAgrees(n)'
        <3>1. SlotAgrees(n)
            BY <2>7 DEF Agreed
        <3> QED
            BY <1>1, <2>5, <3>1 DEF SlotAgrees, Doing
    <2> QED
        BY <1>1, <2>6, <2>7 DEF Agreed
<1> QED
    BY <1>7, <1>8

\* Switching an output leaves the other settings.
LEMMA Switched ==
    ASSUME NEW s \in Config, CheckWithin(s), NEW on \in BOOLEAN
    PROVE  /\ s # NoConfig /\ [s EXCEPT !.enabled = on] \in Config
           /\ [s EXCEPT !.enabled = on].enabled = on
           /\ CheckWithin([s EXCEPT !.enabled = on])
           /\ Encode([s EXCEPT !.enabled = on]) = Encode(s)
<1> DEFINE t == [s EXCEPT !.enabled = on]
<1>1. t \in Config /\ t.enabled = on
    <2>1. t \in Config
        BY ConfigSwitch
    <2>2. t.enabled = on
        BY DEF Config
    <2> QED
        BY <2>1, <2>2
<1>2. /\ t.slot = s.slot /\ t.shape = s.shape /\ t.frequency = s.frequency
      /\ t.amplitude = s.amplitude /\ t.offset = s.offset /\ t.duty = s.duty
    BY DEF Config
<1>3. s # NoConfig
    <2>1. s.shape \in Shapes /\ NoConfig.shape = -1
        BY DEF Config, NoConfig
    <2> QED
        BY <2>1 DEF Shapes
<1> HIDE DEF t
<1>4. CheckWithin(t)
    BY <1>2 DEF CheckWithin
<1>5. Encode(t) = Encode(s)
    BY <1>2 DEF Encode
<1> QED
    BY <1>1, <1>3, <1>4, <1>5 DEF t

\* An operation that returns has set in both generators what it was asked for.
LEMMA AgreedEnds ==
    ASSUME Inv, SureInv, Next, Accepted, Stopped, outcome' = "returned", call.quiet
    PROVE  Agreed' /\ Quiet' /\ DOMAIN sim'.waves = Stored
<1>1. PICK data : Took(data)
    BY DEF Accepted
<1>2. ~Broken /\ cut # calls
    BY <1>1, TakesItsOwn DEF Inv
<1>3. /\ pc = "readline" /\ pc' = "idle" /\ UNCHANGED <<call, calls, gen>> /\ cut' = cut
      /\ sim' = SimDo(call) /\ sure' = sure \cup Set(call)
    BY <1>2 DEF Stopped, Accepted
<1>4. Agreed /\ Sound(call) /\ Now = ScriptOf(call)
    BY <1>2, <1>3, NowIs DEF SureInv, Inv, BaseInv, DriverInv
<1>5. Reported /\ InStep
    BY <1>3, ReturnsRight DEF Returns
<1>6. Quiet'
    BY <1>2, <1>3, <1>5 DEF InStep, Quiet
<1>7. /\ \A ch \in Channels :
              sim'.configs[ch] =
                  IF call.op = "configure_channel" /\ call.at = ch THEN call.arg
                  ELSE IF call.op = "enable_output" /\ call.at = ch /\ sim.configs[ch] # NoConfig
                  THEN [sim.configs[ch] EXCEPT !.enabled = call.arg]
                  ELSE sim.configs[ch]
      /\ DOMAIN sim'.waves = Stored
      /\ \A n \in Stored :
              sim'.waves[n] = IF call.op = "upload_arbitrary" /\ call.at = n THEN call.arg
                              ELSE sim.waves[n]
    BY <1>3, <1>4, SimulatedDoes DEF Inv, BaseInv, SureInv, Sound
<1>8. \A op, at : ~Doing(op, at)'
    BY <1>3 DEF Doing
<1>9. ASSUME NEW ch \in Channels, <<"channel", ch>> \in sure'
      PROVE  ChannelAgrees(ch)'
    <2>1. CASE call.op = "configure_channel" /\ call.at = ch
        <3>1. call.arg \in Config /\ CheckWithin(call.arg)
            BY <1>4, <2>1, CallAssumption DEF Sound, Asked, Legal
        <3>2. gen[Output][ch] = call.arg.enabled
            BY <1>5, <2>1 DEF Reported, On
        <3>3. ASSUME NEW k \in 1..5 PROVE gen[<<Params[k], ch>>] = Encode(call.arg)[k]
            <4>1. Len(ScriptOf(call)) = 7 /\ IsSeq(ScriptOf(call))
                  /\ ScriptOf(call)[k] = Write(<<Params[k], ch>>, Encode(call.arg)[k])
                BY <2>1, ConfigureScript
            <4>2. k \in DOMAIN Now
                BY <1>4, <4>1, SeqLength
            <4>3. /\ Now[k].op = "w" /\ Now[k].reg = <<Params[k], ch>>
                  /\ Now[k].data = Encode(call.arg)[k]
                BY <1>4, <4>1, Transactions
            <4>4. <<Params[k], ch>> # Output
                BY ParamRegisters
            <4> QED
                BY <1>5, <4>2, <4>3, <4>4 DEF Reported
        <3>4. sim'.configs[ch] = call.arg
            BY <1>7, <2>1
        <3> QED
            BY <1>3, <3>1, <3>2, <3>3, <3>4 DEF ChannelAgrees
    <2>2. CASE ~(call.op = "configure_channel" /\ call.at = ch)
        <3>1. <<"channel", ch>> \in sure
            BY <1>3, <1>9, <2>2 DEF Set, Slot
        <3>2. /\ sim.configs[ch] \in Config /\ CheckWithin(sim.configs[ch])
              /\ \A k \in 1..5 : gen[<<Params[k], ch>>] = Encode(sim.configs[ch])[k]
              /\ ~Doing("enable_output", ch) => gen[Output][ch] = sim.configs[ch].enabled
            BY <1>4, <2>2, <3>1 DEF Agreed, ChannelAgrees, Doing
        <3>3. CASE call.op = "enable_output" /\ call.at = ch
            <4>1. call.arg \in BOOLEAN /\ gen[Output][ch] = call.arg
                BY <1>4, <1>5, <3>3 DEF Reported, On, Sound, Asked
            <4> DEFINE s == [sim.configs[ch] EXCEPT !.enabled = call.arg]
            <4>2. /\ sim.configs[ch] # NoConfig /\ s \in Config /\ s.enabled = call.arg
                  /\ CheckWithin(s) /\ Encode(s) = Encode(sim.configs[ch])
                BY <3>2, <4>1, Switched
            <4>3. sim'.configs[ch] = s
                BY <1>7, <3>3, <4>2
            <4> HIDE DEF s
            <4> QED
                BY <1>3, <3>2, <4>1, <4>2, <4>3 DEF ChannelAgrees
        <3>4. CASE ~(call.op = "enable_output" /\ call.at = ch)
            <4>1. sim'.configs[ch] = sim.configs[ch]
                BY <1>7, <2>2, <3>4
            <4>2. gen[Output][ch] = sim.configs[ch].enabled
                BY <3>2, <3>4 DEF Doing
            <4> QED
                BY <1>3, <3>2, <4>1, <4>2 DEF ChannelAgrees
        <3> QED
            BY <3>3, <3>4
    <2> QED
        BY <2>1, <2>2
<1>10. ASSUME NEW n \in Stored, Slot(n) \in sure'
       PROVE  SlotAgrees(n)'
    <2>1. CASE call.op = "upload_arbitrary" /\ call.at = n
        <3>1. call.arg \in Seq(Int) /\ Len(call.arg) = Limits.points
            BY <1>4, <2>1 DEF Sound, Asked, Legal
        <3>2. gen[Slot(n)] = EncodeWave(call.arg)
            <4>1. ScriptOf(call) = <<Write(Slot(n), EncodeWave(call.arg))>>
                BY <2>1, OtherScripts
            <4>2. 1 \in DOMAIN Now /\ Now[1] = Write(Slot(n), EncodeWave(call.arg))
                BY <1>4, <4>1
            <4>3. Now[1].op = "w" /\ Now[1].reg = Slot(n) /\ Now[1].data = EncodeWave(call.arg)
                BY <4>2, Transactions
            <4>4. Slot(n) # Output
                BY DEF Slot, Output
            <4> QED
                BY <1>5, <4>2, <4>3, <4>4 DEF Reported
        <3>3. sim'.waves[n] = call.arg
            BY <1>7, <2>1
        <3> QED
            BY <1>3, <3>1, <3>2, <3>3 DEF SlotAgrees
    <2>2. CASE ~(call.op = "upload_arbitrary" /\ call.at = n)
        <3>1. Slot(n) \in sure
            BY <1>3, <1>10, <2>2 DEF Set, Slot
        <3>2. SlotAgrees(n) /\ ~Doing("upload_arbitrary", n)
            BY <1>4, <2>2, <3>1 DEF Agreed, Doing
        <3>3. sim'.waves[n] = sim.waves[n]
            BY <1>7, <2>2
        <3> QED
            BY <1>3, <3>2, <3>3 DEF SlotAgrees
    <2> QED
        BY <2>1, <2>2
<1> QED
    BY <1>6, <1>7, <1>9, <1>10 DEF Agreed

\* Both generators agree after every step.
LEMMA SureStep ==
    ASSUME Inv, SureInv, Next
    PROVE  SureInv'
<1>1. Started \/ Execute \/ Lose \/ Accepted \/ CutShort \/ GivenUp \/ (pc = "idle" /\ Reconnect)
    BY Steps DEF Inv, BaseInv
<1>2. sure' = {} /\ DOMAIN sim'.waves = Stored => SureInv'
    BY DEF SureInv, Agreed
<1>3. pc \in {"idle", "readline"} /\ DOMAIN sim.waves = Stored /\ SimInv /\ Asked(call)
    BY DEF Inv, BaseInv, DriverInv, SureInv
<1>4. ASSUME Stopped PROVE DOMAIN sim'.waves = Stored
    <2>1. sim' = sim \/ sim' = SimDo(call)
        BY <1>4 DEF Stopped
    <2> QED
        BY <1>3, <2>1, SimulatedDoes
<1>5. CASE Started
    <2>1. UNCHANGED <<gen, sim, sure, line, inbox>> \/ pc' = "readline"
        BY <1>5 DEF Started
    <2>2. pc = "idle" /\ UNCHANGED <<gen, sim, sure, inbox>> /\ call'.quiet = Quiet
        BY <1>5 DEF Started
    <2>3. Agreed /\ (sure # {} => Quiet)
        BY <2>2 DEF SureInv
    <2>4. \A op, at : ~Doing(op, at)
        BY <2>2 DEF Doing
    <2>5. ASSUME NEW ch \in Channels, <<"channel", ch>> \in sure PROVE ChannelAgrees(ch)'
        <3>1. ChannelAgrees(ch)
            BY <2>3, <2>5 DEF Agreed
        <3> QED
            BY <2>2, <2>4, <3>1 DEF ChannelAgrees
    <2>6. ASSUME NEW n \in Stored, Slot(n) \in sure PROVE SlotAgrees(n)'
        <3>1. SlotAgrees(n)
            BY <2>3, <2>6 DEF Agreed
        <3> QED
            BY <2>2, <2>4, <3>1 DEF SlotAgrees
    <2>7. Agreed'
        BY <2>2, <2>5, <2>6 DEF Agreed
    <2>8. pc' = "idle" \/ pc' = "readline"
        BY <1>5 DEF Started
    <2>9. pc' = "idle" => line' = line
        BY <1>5 DEF Started
    <2>10. sure' # {} => IF pc' = "idle" THEN Quiet' ELSE call'.quiet
        BY <2>2, <2>3, <2>8, <2>9 DEF Quiet
    <2> QED
        BY <1>3, <2>2, <2>7, <2>10 DEF SureInv
<1>6. CASE Accepted \/ CutShort
    <2>1. PICK data : Took(data)
        BY <1>6 DEF Accepted, CutShort
    <2>2. ~Broken /\ pc = "readline" /\ inbox # <<>>
        BY <2>1 DEF Took, Broken, Expected, Ok, Rest, Stopped, Continued
    <2>3. Agreed /\ (sure # {} => call.quiet)
        BY <2>2 DEF SureInv
    <2>4. CASE Continued
        <3>1. UNCHANGED <<pc, call, gen, sim, sure>>
            BY <2>4 DEF Continued
        <3>2. Agreed'
            BY <2>3, <3>1 DEF Agreed, ChannelAgrees, SlotAgrees, Doing
        <3> QED
            BY <1>3, <2>2, <2>3, <3>1, <3>2 DEF SureInv
    <2>5. CASE Stopped
        <3>1. CASE outcome' = "returned" /\ call.quiet /\ cut' # calls
            <4>1. Accepted
                BY <1>6, <3>1 DEF CutShort
            <4>2. Agreed' /\ Quiet' /\ DOMAIN sim'.waves = Stored
                BY <2>5, <3>1, <4>1, AgreedEnds
            <4> QED
                BY <2>5, <4>2 DEF SureInv, Stopped
        <3>2. CASE ~(outcome' = "returned" /\ call.quiet /\ cut' # calls)
            BY <1>2, <1>4, <2>5, <3>2 DEF Stopped
        <3> QED
            BY <3>1, <3>2
    <2> QED
        BY <2>1, <2>4, <2>5 DEF Took
<1>7. CASE GivenUp
    BY <1>2, <1>4, <1>7 DEF GivenUp, Stopped
<1>8. CASE Execute \/ Lose
    <2>1. UNCHANGED <<pc, call, sim, sure>> /\ line # <<>>
        BY <1>8 DEF Execute, Lose, driver
    <2>2. CASE pc = "idle"
        <3>1. sure = {}
            BY <2>1, <2>2 DEF SureInv, Quiet
        <3> QED
            BY <1>2, <1>3, <2>1, <3>1
    <2>3. CASE pc = "readline" /\ sure # {}
        <3>1. call.quiet
            BY <2>3 DEF SureInv
        <3>2. ASSUME ~Broken' PROVE Agreed'
            <4>1. ~Broken
                BY <1>8, <3>2, BrokenStays
            <4>2. Agreed /\ Owed
                BY <2>3, <3>1, <4>1 DEF SureInv, Inv, QuietInv
            <4>3. CASE Execute
                BY <2>3, <3>1, <4>2, <4>3, AgreedExecutes
            <4>4. CASE Lose
                <5>1. gen' = gen
                    BY <4>4 DEF Lose
                <5> QED
                    BY <2>1, <4>2, <5>1 DEF Agreed, ChannelAgrees, SlotAgrees, Doing
            <4> QED
                BY <1>8, <4>3, <4>4
        <3> QED
            BY <1>3, <2>1, <2>3, <3>1, <3>2 DEF SureInv
    <2>4. CASE sure = {}
        BY <1>2, <1>3, <2>1, <2>4
    <2> QED
        BY <1>3, <2>2, <2>3, <2>4
<1>9. CASE pc = "idle" /\ Reconnect
    <2>1. inbox # <<>> /\ UNCHANGED <<sim, sure>>
        BY <1>9 DEF Reconnect
    <2>2. sure = {}
        BY <1>9, <2>1 DEF SureInv, Quiet
    <2> QED
        BY <1>2, <1>3, <2>1, <2>2
<1> QED
    BY <1>1, <1>5, <1>6, <1>7, <1>8, <1>9

-----------------------------------------------------------------------------
(* Codes and settings. *)

\* A setting and the setting its code stands for are half a step apart.
LEMMA TenthsNear ==
    ASSUME NEW x \in Int
    PROVE  Round(x, 10) \in Int /\ Within(Round(x, 10) * 10, x, 5)
<1> DEFINE q == (x + 5) \div 10
<1>1. Round(x, 10) = q
    BY DEF Round
<1>2. q \in Int /\ q * 10 <= x + 5 /\ x + 5 <= q * 10 + 9
    OBVIOUS
<1> HIDE DEF q
<1>3. Magnitude(q * 10 - x) <= 5
    BY <1>2 DEF Magnitude
<1> QED
    BY <1>1, <1>2, <1>3 DEF Within

\* So are a sample and the one its code stands for: there are more codes than
\* thousandths.
LEMMA SampleNear ==
    ASSUME NEW x \in Int
    PROVE  /\ Round((x + 1000) * CodeMax, 2000) \in Int
           /\ Within(Round(Round((x + 1000) * CodeMax, 2000) * 2000, CodeMax) - 1000, x, 1)
<1> DEFINE q == ((x + 1000) * 4095 + 1000) \div 2000
           r == (q * 2000 + 2047) \div 4095
<1>1. Round((x + 1000) * CodeMax, 2000) = q
    BY DEF Round, CodeMax
<1>2. q \in Int /\ q * 2000 <= (x + 1000) * 4095 + 1000 /\ (x + 1000) * 4095 <= q * 2000 + 999
    OBVIOUS
<1>3. r \in Int /\ r * 4095 <= q * 2000 + 2047 /\ q * 2000 <= r * 4095 + 2047
    BY <1>2
<1>4. Round(q * 2000, CodeMax) = r
    <2>1. 4095 \div 2 = 2047
        OBVIOUS
    <2> QED
        BY <2>1 DEF Round, CodeMax
<1> HIDE DEF q, r
<1>5. r = x + 1000
    BY <1>2, <1>3
<1>6. Within(r - 1000, x, 1)
    BY <1>5 DEF Within, Magnitude
<1> QED
    BY <1>1, <1>2, <1>4, <1>6

\* What is read of the codes of legal settings are these settings.
LEMMA DecodesNear ==
    ASSUME NEW s \in Config, CheckWithin(s), Readable(s)
    PROVE  Near(Decode(Encode(s), s.enabled), s)
<1>1. /\ s.shape \in Shapes /\ s.slot \in Int /\ s.frequency \in Nat /\ s.amplitude \in Nat
      /\ s.offset \in Int /\ s.duty \in Nat /\ s.frequency >= 5
    BY ConfigFields, Zenon DEF Readable
<1>2. s.slot = NoSlot \/ s.slot >= 1
    BY <1>1 DEF CheckWithin, HasSlot
<1> DEFINE e == Encode(s)
           d == Decode(e, s.enabled)
<1>3. /\ e[1] = IF s.slot # NoSlot THEN ArbitraryBase + s.slot ELSE s.shape
      /\ e[2] = Round(s.frequency, 10) /\ e[3] = Round(s.amplitude, 10)
      /\ e[4] = Round(s.offset, 10) + BiasZero /\ e[5] = Round(s.duty, 10)
    BY DEF Encode
<1>4. Round(s.frequency, 10) # 0
    <2>1. Round(s.frequency, 10) = (s.frequency + 5) \div 10
        BY DEF Round
    <2>2. (s.frequency + 5) \div 10 # 0
        BY <1>1
    <2> QED
        BY <2>1, <2>2
<1> HIDE DEF e
<1>5. /\ d.shape = (IF e[1] >= ArbitraryBase THEN 0 ELSE e[1])
      /\ d.slot = (IF e[1] >= ArbitraryBase THEN e[1] - ArbitraryBase ELSE NoSlot)
      /\ d.frequency = e[2] * 10 /\ d.amplitude = e[3] * 10
      /\ d.offset = (e[4] - BiasZero) * 10 /\ d.duty = e[5] * 10 /\ d.enabled = s.enabled
    BY <1>3, <1>4 DEF Decode
<1> HIDE DEF d
<1>6. d.slot = s.slot /\ (s.slot = NoSlot => d.shape = s.shape)
    BY <1>1, <1>2, <1>3, <1>5 DEF ArbitraryBase, NoSlot, Shapes
<1>7. Within(d.frequency, s.frequency, 5) /\ Within(d.amplitude, s.amplitude, 5) /\ Within(d.duty, s.duty, 5)
    BY <1>1, <1>3, <1>5, TenthsNear
<1>8. Within(d.offset, s.offset, 5)
    <2>1. Round(s.offset, 10) \in Int /\ Within(Round(s.offset, 10) * 10, s.offset, 5)
        BY <1>1, TenthsNear
    <2>2. (Round(s.offset, 10) + BiasZero) - BiasZero = Round(s.offset, 10)
        BY <2>1 DEF BiasZero
    <2> QED
        BY <1>3, <1>5, <2>1, <2>2
<1> QED
    BY <1>5, <1>6, <1>7, <1>8 DEF Near, d, e

\* Both generators are one instrument to their caller (signal_generator.py:3-6):
\* between operations, none of which failed, what is read back of a channel's or
\* a slot's registers is what the simulated generator has stored, to half a step
\* of the code, for all settings within the limits and all waveforms.
THEOREM GeneratorsAgree == Spec => []AgreesWithSimulated
<1>1. Init => SureInv
    BY DEF Init, SureInv, Agreed, Blank
<1>2. Inv /\ SureInv /\ [Next]_vars => SureInv'
    <2>1. ASSUME Inv, SureInv, UNCHANGED vars PROVE SureInv'
        <3>1. UNCHANGED <<pc, call, calls, cut, line, inbox, gen, sim, sure>>
            BY <2>1 DEF vars, driver
        <3> QED
            BY <2>1, <3>1 DEF SureInv, Quiet, Broken, Agreed, ChannelAgrees, SlotAgrees, Doing
    <2> QED
        BY <2>1, SureStep
<1>3. SureInv => AgreesWithSimulated
    <2>1. SUFFICES ASSUME SureInv, pc = "idle" PROVE AgreesWithSimulated
        BY DEF AgreesWithSimulated
    <2>2. Agreed /\ \A op, at : ~Doing(op, at)
        BY <2>1 DEF SureInv, Doing
    <2>3. ASSUME NEW ch \in Channels, <<"channel", ch>> \in sure, Readable(sim.configs[ch])
          PROVE  Near(ReadBack(ch), sim.configs[ch])
        <3> DEFINE s == sim.configs[ch]
        <3>1. /\ s \in Config /\ CheckWithin(s) /\ gen[Output][ch] = s.enabled
              /\ \A k \in 1..5 : gen[<<Params[k], ch>>] = Encode(s)[k]
            BY <2>2, <2>3 DEF Agreed, ChannelAgrees
        <3>2. [i \in DOMAIN Params |-> gen[<<Params[i], ch>>]] = Encode(s)
            <4>1. DOMAIN Params = 1..5
                BY DEF Params
            <4>2. Encode(s) = [i \in 1..5 |-> Encode(s)[i]]
                BY DEF Encode
            <4> HIDE DEF s
            <4> QED
                BY <3>1, <4>1, <4>2
        <3>3. ReadBack(ch) = Decode(Encode(s), s.enabled)
            BY <3>1, <3>2 DEF ReadBack
        <3> QED
            BY <2>3, <3>1, <3>3, DecodesNear
    <2>4. ASSUME NEW n \in Stored, Slot(n) \in sure, NEW k \in 1..Limits.points
          PROVE  Within(DecodeWave(gen[Slot(n)])[k], sim.waves[n][k], 1)
        <3> DEFINE w == sim.waves[n]
        <3>1. w \in Seq(Int) /\ Len(w) = Limits.points /\ gen[Slot(n)] = EncodeWave(w)
            BY <2>2, <2>4 DEF Agreed, SlotAgrees
        <3> HIDE DEF w
        <3>2. k \in DOMAIN w /\ w[k] \in Int
            BY <2>4, <3>1
        <3>3. DecodeWave(EncodeWave(w))[k] =
                  Round(Round((w[k] + 1000) * CodeMax, 2000) * 2000, CodeMax) - 1000
            BY <3>2 DEF DecodeWave, EncodeWave
        <3>4. Within(Round(Round((w[k] + 1000) * CodeMax, 2000) * 2000, CodeMax) - 1000, w[k], 1)
            BY <3>2, SampleNear
        <3>5. Within(DecodeWave(gen[Slot(n)])[k], w[k], 1)
            BY <3>1, <3>3, <3>4
        <3> QED
            BY <3>5 DEF w
    <2> QED
        BY <2>3, <2>4 DEF AgreesWithSimulated
<1> QED
    BY <1>1, <1>2, <1>3, LinkInvariant, PTL DEF Spec
=============================================================================
