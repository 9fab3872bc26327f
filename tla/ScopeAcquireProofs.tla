------------------------- MODULE ScopeAcquireProofs -------------------------
(***************************************************************************)
(* Theorems about ScopeAcquire, for all values of the constants: its types;*)
(* and that a frame acquire() returns can be judged as what it was asked   *)
(* to be: however fast or slow the instrument is, the channels of a deep   *)
(* read are one acquisition, and unless the instrument exceeded what the   *)
(* call allowed it, the frame was acquired under the setup it asked for,   *)
(* whatever an earlier call left on the wire or in the instrument.         *)
(***************************************************************************)
EXTENDS ScopeAcquire, SequenceTheorems, TLAPS

-----------------------------------------------------------------------------
(* Types. *)

Commands ==
    {<<"STOP">>, <<"RUN">>, <<"SINGLE">>, <<"DEPTH">>}
    \cup {<<"VERT", c>> : c \in Calls}
    \cup {<<"TRIG", c, sweep>> : c \in Calls, sweep \in Sweeps}

\* A channel is read only while one is left to read, and all of them are read.
TypeInv ==
    /\ TypeOK
    /\ wire \in Seq(Commands)
    /\ pc \notin {"idle", "done"} => Len(reads) < NumChannels
    /\ pc = "done" => Len(reads) = NumChannels

-----------------------------------------------------------------------------
(* Where the commands of a call are. *)

Writing == {"configure", "start", "arm", "arm?", "sleep"}
Reading == {"status?", "read?", "done"}

\* The commands of a call, how many of them it has sent by now, and how many of
\* these have been executed: less than none while the instrument still executes
\* what an earlier call left on the wire.
Script ==
    << <<"STOP">>, <<"VERT", call>>, <<"RUN">>, <<"DEPTH">>, <<"TRIG", call, req.sweep>>,
       IF req.sweep = "AUTO" THEN <<"RUN">> ELSE <<"SINGLE">> >>
Sent == IF pc = "configure" THEN 2 ELSE IF pc = "start" THEN 5 ELSE 6
Executed == Sent - Len(wire)

WireInv ==
    /\ pc \in Writing =>
           \A i \in 1..Len(wire) : Executed + i >= 1 => wire[i] = Script[Executed + i]
    /\ pc \in {"trigger", "trigger?", "status?"} /\ ~late => wire = <<>>
    /\ pc \in {"read?", "done"} => wire = <<>> \/ (pc = "read?" /\ wire = << <<"STOP">> >>)

SetupInv ==
    /\ pc \in Writing =>
           /\ Executed >= 2 => setup.vert = call
           /\ Executed >= 5 => setup.trig = call /\ setup.sweep = req.sweep
    /\ pc \in {"trigger", "trigger?"} \cup Reading /\ ~late =>
           setup = [vert |-> call, trig |-> call, sweep |-> req.sweep]

\* After the STOP and until the last command nothing is armed.
ControlInv ==
    pc \in Writing /\ Executed >= 1 /\ Executed <= 5 =>
        \/ pending = "none" /\ mode \in {"stopped", "running"}
        \/ pending = "run" /\ mode = "stopped"

-----------------------------------------------------------------------------
(* A one-shot, once its SINGLE has been executed. *)

Arming == pending = "single" /\ mode \in {"stopped", "running"}
Hunting == pending = "none" /\ mode = "armed" /\ ~fired
Caught == pending = "none" /\ mode = "stopped" /\ memory.vert = call /\ memory.trig = call

ArmInv ==
    /\ pc \in {"configure", "start", "arm", "arm?"} => ~late
    /\ pc \in {"arm", "arm?"} =>
           /\ req.sweep \in OneShots
           /\ Executed = 6 => Arming \/ Hunting \/ Caught

\* A scope that still runs when it has been seen to arm has nothing to show.
TriggerInv ==
    pc \in {"trigger", "trigger?"} =>
        /\ req.sweep \in OneShots
        /\ ~late => (Arming /\ mode = "running" /\ ~fired) \/ Hunting \/ Caught

-----------------------------------------------------------------------------
(* A free run. *)

\* What is left of the sleep covers a whole window, or what is missing of the one
\* that is being filled under the new setup.
SleepInv ==
    pc = "sleep" =>
        /\ req.sweep = "AUTO"
        /\ Executed = 6 => \/ pending = "run" /\ mode = "stopped"
                           \/ pending = "none" /\ mode = "running"
        /\ ~late => \/ timer > Window
                    \/ Executed = 6 /\ memory.vert = call
                    \/ Executed = 6 /\ pending = "none" /\ timer > fill

-----------------------------------------------------------------------------
(* Reading. *)

ReadInv ==
    /\ pc \in Reading /\ ~late /\ req.sweep \in OneShots =>
           /\ Caught
           /\ pc # "status?" => seen = "STOP"
           /\ \A i \in DOMAIN reads : reads[i] = memory
    /\ pc \in Reading /\ ~late /\ req.sweep = "AUTO" =>
           /\ pending # "single" /\ memory.vert = call
           /\ \A i \in DOMAIN reads : reads[i].vert = call
    /\ pc \notin {"read?", "done", "idle"} => reads = <<>>

\* A deep read looks at a stopped scope only, whoever is late.
DeepInv ==
    pc \in {"read?", "done"} =>
        IF wire = <<>>
        THEN req.deep => /\ mode = "stopped" /\ pending = "none"
                         /\ \A i \in DOMAIN reads : reads[i] = memory
        ELSE reads = <<>>

HonestInv ==
    /\ WireInv /\ SetupInv /\ ControlInv
    /\ ArmInv /\ TriggerInv /\ SleepInv /\ ReadInv /\ DeepInv
    /\ FrameHonest

-----------------------------------------------------------------------------
(* Types. *)

\* A command is told by its parts.
LEMMA CommandParts ==
    ASSUME NEW c \in Commands
    PROVE  /\ c[1] = "VERT" => c[2] \in Calls
           /\ c[1] = "TRIG" => c[2] \in Calls /\ c[3] \in Sweeps
<1>1. CASE c \in {<<"STOP">>, <<"RUN">>, <<"SINGLE">>, <<"DEPTH">>}
    BY <1>1
<1>2. CASE \E k \in Calls : c = <<"VERT", k>>
    BY <1>2
<1>3. CASE \E k \in Calls, sweep \in Sweeps : c = <<"TRIG", k, sweep>>
    BY <1>3
<1> QED
    BY <1>1, <1>2, <1>3 DEF Commands

\* What is sent is appended.
LEMMA SendType ==
    ASSUME wire \in Seq(Commands), NEW commands \in Seq(Commands), Send(commands)
    PROVE  wire' \in Seq(Commands) /\ Len(wire') = Len(wire) + Len(commands)
BY ConcatProperties DEF Send

\* The commands the host sends.
LEMMA SentType ==
    ASSUME NEW c \in Calls, NEW sweep \in Sweeps
    PROVE  /\ << <<"STOP">>, <<"VERT", c>> >> \in Seq(Commands)
           /\ << <<"RUN">>, <<"DEPTH">>, <<"TRIG", c, sweep>> >> \in Seq(Commands)
           /\ << <<"SINGLE">> >> \in Seq(Commands) /\ << <<"RUN">> >> \in Seq(Commands)
           /\ << <<"STOP">> >> \in Seq(Commands) /\ <<>> \in Seq(Commands)
<1>1. /\ <<"STOP">> \in Commands /\ <<"VERT", c>> \in Commands /\ <<"RUN">> \in Commands
      /\ <<"DEPTH">> \in Commands /\ <<"TRIG", c, sweep>> \in Commands /\ <<"SINGLE">> \in Commands
    BY DEF Commands
<1> QED
    BY <1>1

\* A completed acquisition is a record.
LEMMA CompleteType ==
    ASSUME TypeOK, NEW trig \in Calls \cup {-1}, Complete(trig)
    PROVE  memory' \in Record /\ memory'.vert = setup.vert /\ memory'.trig = trig
<1>1. memory.bit \in {0, 1} /\ setup.vert \in Calls
    BY DEF TypeOK, Record, NoFrame
<1>2. (mode = "armed" \/ setup.sweep # "AUTO") \in BOOLEAN /\ 1 - memory.bit \in {0, 1}
    BY <1>1
<1> QED
    BY <1>1, <1>2 DEF Complete, Record

\* The steps of the instrument.
LEMMA InstrumentType ==
    ASSUME TypeInv, Instrument
    PROVE  TypeInv'
<1> USE BoundAssumption DEF TypeInv
<1>1. UNCHANGED host
    BY DEF Instrument, Execute, TakeEffect, Fire, AutoFrame, Rearm
<1>2. ASSUME /\ wire' \in Seq(Commands)
             /\ busy' \in 0..Realloc /\ lag' \in 0..Latency /\ fill' \in 0..Window
             /\ pending' \in {"none", "run", "single"} /\ mode' \in {"stopped", "running", "armed"}
             /\ fired' \in BOOLEAN /\ setup' \in [vert : Calls, trig : Calls, sweep : Sweeps]
             /\ memory' \in Record \cup {NoFrame}
      PROVE  TypeInv'
    BY <1>1, <1>2 DEF TypeOK, host
<1>3. CASE Execute
    <2>1. Head(wire) \in Commands /\ wire' \in Seq(Commands)
        BY <1>3, HeadTailProperties DEF Execute
    <2>2. CASE ExecuteStop \/ ExecuteRun \/ ExecuteSingle \/ ExecuteDepth
        <3>1. 0 \in 0..Latency /\ Window \in 0..Window
            OBVIOUS
        <3> QED
            BY <1>2, <2>1, <2>2, <3>1 DEF TypeOK, ExecuteStop, ExecuteRun, ExecuteSingle, ExecuteDepth
    <2>3. CASE ExecuteVertical
        <3>1. Head(wire)[2] \in Calls
            BY <2>1, <2>3, CommandParts DEF ExecuteVertical
        <3>2. setup' \in [vert : Calls, trig : Calls, sweep : Sweeps]
            BY <2>3, <3>1 DEF ExecuteVertical, TypeOK
        <3>3. fill' \in 0..Window
            BY <2>3 DEF ExecuteVertical
        <3> QED
            BY <1>2, <2>1, <2>3, <3>2, <3>3 DEF TypeOK, ExecuteVertical
    <2>4. CASE ExecuteTrigger
        <3>1. Head(wire)[2] \in Calls /\ Head(wire)[3] \in Sweeps
            BY <2>1, <2>4, CommandParts DEF ExecuteTrigger
        <3>2. setup' \in [vert : Calls, trig : Calls, sweep : Sweeps]
            BY <2>4, <3>1 DEF ExecuteTrigger, TypeOK
        <3> QED
            BY <1>2, <2>1, <2>4, <3>2 DEF TypeOK, ExecuteTrigger
    <2> QED
        BY <1>3, <2>2, <2>3, <2>4 DEF Execute
<1>4. CASE TakeEffect
    <2>1. fill' \in 0..Window /\ pending' \in {"none", "run", "single"}
        BY <1>4 DEF TakeEffect
    <2>4. fired' \in BOOLEAN
        BY <1>4 DEF TakeEffect
    <2>2. mode' \in {"stopped", "running", "armed"} /\ memory' \in Record \cup {NoFrame}
        BY <1>4 DEF TakeEffect, TypeOK
    <2>3. UNCHANGED <<wire, busy, lag, setup>>
        BY <1>4 DEF TakeEffect
    <2> QED
        BY <1>2, <2>1, <2>2, <2>3, <2>4 DEF TypeOK
<1>5. CASE Fire
    <2>1. setup.trig \in Calls
        BY DEF TypeOK
    <2>2. memory' \in Record
        BY <1>5, <2>1, CompleteType DEF Fire
    <2>3. mode' \in {"stopped", "running", "armed"} /\ fired' \in BOOLEAN /\ fill' \in 0..Window
        BY <1>5 DEF Fire, TypeOK
    <2> QED
        BY <1>2, <1>5, <2>2, <2>3 DEF TypeOK, Fire
<1>6. CASE AutoFrame
    <2>1. memory' \in Record
        BY <1>6, CompleteType DEF AutoFrame
    <2>2. fill' \in 0..Window
        BY <1>6 DEF AutoFrame
    <2>4. fired' \in BOOLEAN
        BY <1>6 DEF AutoFrame
    <2>3. UNCHANGED <<wire, busy, pending, lag, mode, setup>>
        BY <1>6 DEF AutoFrame
    <2> QED
        BY <1>2, <2>1, <2>2, <2>3, <2>4 DEF TypeOK
<1>7. CASE Rearm
    BY <1>2, <1>7 DEF TypeOK, Rearm
<1> QED
    BY <1>3, <1>4, <1>5, <1>6, <1>7 DEF Instrument

\* Time passes.
LEMMA TickType ==
    ASSUME TypeInv, Tick
    PROVE  TypeInv'
<1>1. /\ timer \in Nat /\ busy \in 0..Realloc /\ lag \in 0..Latency /\ fill \in 0..Window
      /\ Realloc \in Nat /\ Latency \in Nat /\ Window \in Nat
    BY BoundAssumption DEF TypeInv, TypeOK
<1>2. /\ timer' = Dec(timer) /\ busy' = Dec(busy)
      /\ lag' = IF busy = 0 THEN Dec(lag) ELSE lag
      /\ fill' = IF busy = 0 THEN Dec(fill) ELSE fill
    BY DEF Tick
<1>3. timer' \in Nat /\ busy' \in 0..Realloc /\ lag' \in 0..Latency /\ fill' \in 0..Window
    BY <1>1, <1>2 DEF Dec
<1>4. late' \in BOOLEAN
    BY DEF Tick, TypeInv, TypeOK
<1> QED
    BY <1>3, <1>4 DEF Tick, TypeInv, TypeOK

\* What acquire() returns or raises.
LEMMA ReturnType ==
    ASSUME TypeInv, NEW kind \in Kinds, Return(kind), kind = "frame" => pc = "done"
    PROVE  /\ outcome' \in Outcome /\ pc' = "idle"
           /\ outcome'.kind = "frame" => Len(outcome'.frames) = NumChannels
<1>1. /\ call \in Calls /\ req.sweep \in Sweeps /\ req.deep \in BOOLEAN /\ late \in BOOLEAN
      /\ seen \in Statuses /\ reads \in Seq(Record \cup {NoFrame})
    BY DEF TypeInv, TypeOK
<1>2. (IF kind = "frame" THEN reads ELSE <<>>) \in Seq(Record \cup {NoFrame})
    BY <1>1
<1>3. outcome'.kind = kind /\ outcome'.frames = IF kind = "frame" THEN reads ELSE <<>>
    BY DEF Return
<1>4. outcome'.kind = "frame" => Len(outcome'.frames) = NumChannels
    BY <1>3 DEF TypeInv
<1> QED
    BY <1>1, <1>2, <1>4 DEF Return, Goto, Outcome

\* Before a call returns.
LEMMA NoOutcomeType == NoOutcome \in Outcome /\ NoOutcome.kind = "none"
<1>1. 0 \in Calls /\ "STOP" \in Statuses /\ "AUTO" \in Sweeps
    BY BoundAssumption DEF Calls, Statuses, Captured, Sweeps
<1>2. <<>> \in Seq(Record \cup {NoFrame})
    OBVIOUS
<1> QED
    BY <1>1, <1>2 DEF NoOutcome, Outcome, Kinds

\* The steps of the host.
LEMMA HostType ==
    ASSUME TypeInv, HostStep \/ \E sweep \in Sweeps, deep \in BOOLEAN : Begin(sweep, deep)
    PROVE  TypeInv'
<1> USE BoundAssumption DEF TypeInv
<1>1. UNCHANGED inst
    BY DEF HostStep, Begin, Configure, RejectDepth, Single, FreeRun, Ask, ArmReply, ArmTimeout,
           TriggerReply, TriggerTimeout, Wake, ReadStatus, ReadChannel, NoDeepRecord, Deliver, inst
<1>2. /\ call \in Calls /\ req.sweep \in Sweeps /\ timer \in Nat /\ ArmBudget \in Nat
      /\ TriggerBudget \in Nat /\ Window + Settle \in Nat /\ NumChannels \in Nat \ {0}
    BY DEF TypeOK
<1>3. Status \in Statuses
    <2>1. fired \in BOOLEAN /\ fill \in Nat
        BY DEF TypeOK
    <2> QED
        BY <2>1 DEF Status, Statuses, Captured, Armed
<1>4. ASSUME /\ pc' \in Places /\ call' \in Calls /\ req' \in [sweep : Sweeps, deep : BOOLEAN]
             /\ timer' \in Nat /\ seen' \in Statuses /\ late' \in BOOLEAN
             /\ reads' \in Seq(Record \cup {NoFrame}) /\ Len(reads') <= NumChannels
             /\ outcome' \in Outcome /\ wire' \in Seq(Commands)
             /\ outcome'.kind = "frame" => Len(outcome'.frames) = NumChannels
             /\ pc' \notin {"idle", "done"} => Len(reads') < NumChannels
             /\ pc' = "done" => Len(reads') = NumChannels
      PROVE  TypeInv'
    BY <1>1, <1>4 DEF TypeOK, inst
<1>5. ASSUME NEW sweep \in Sweeps, NEW deep \in BOOLEAN, Begin(sweep, deep)
      PROVE  TypeInv'
    <2>1. call' \in Calls /\ call' = call + 1
        BY <1>2, <1>5 DEF Begin, Calls
    <2>2. wire' \in Seq(Commands)
        BY <1>5, <2>1, SendType, SentType DEF Begin
    <2>3. reads' \in Seq(Record \cup {NoFrame}) /\ Len(reads') = 0
        BY <1>5 DEF Begin
    <2>4. pc' \in Places /\ pc' = "configure" /\ late' \in BOOLEAN
        BY <1>5 DEF Begin, Goto, Places
    <2>5. outcome' = NoOutcome
        BY <1>5 DEF Begin
    <2>6. outcome' \in Outcome /\ outcome'.kind = "none"
        BY <2>5, NoOutcomeType
    <2>7. Len(reads') <= NumChannels /\ Len(reads') < NumChannels
        BY <1>2, <2>3
    <2>8. req' \in [sweep : Sweeps, deep : BOOLEAN] /\ UNCHANGED <<timer, seen>>
        BY <1>5 DEF Begin
    <2>9. timer' \in Nat /\ seen' \in Statuses
        BY <2>8 DEF TypeOK
    <2> QED
        BY <1>4, <2>1, <2>2, <2>3, <2>4, <2>6, <2>7, <2>8, <2>9
<1>6. CASE Configure \/ Single \/ FreeRun
    <2>1. wire' \in Seq(Commands)
        BY <1>2, <1>6, SendType, SentType DEF Configure, Single, FreeRun
    <2>2. pc' \in Places /\ pc \notin {"idle", "done"} /\ pc' # "done" /\ timer' \in Nat
        BY <1>2, <1>6 DEF Configure, Single, FreeRun, Goto, Places, Waiting
    <2>3. UNCHANGED <<call, req, seen, reads, late, outcome>>
        BY <1>6 DEF Configure, Single, FreeRun
    <2> QED
        BY <1>4, <2>1, <2>2, <2>3 DEF TypeOK
<1>7. CASE RejectDepth \/ TriggerTimeout \/ NoDeepRecord \/ Deliver
    <2>1. \E kind \in Kinds : Return(kind) /\ (kind = "frame" => pc = "done")
        BY <1>7 DEF RejectDepth, TriggerTimeout, NoDeepRecord, Deliver, Kinds
    <2>2. /\ outcome' \in Outcome /\ pc' = "idle" /\ pc' \in Places
          /\ outcome'.kind = "frame" => Len(outcome'.frames) = NumChannels
        BY <2>1, ReturnType DEF Places
    <2>3. UNCHANGED <<call, req, timer, late, seen, reads, wire>>
        BY <1>7 DEF RejectDepth, TriggerTimeout, NoDeepRecord, Deliver
    <2> QED
        BY <1>4, <2>2, <2>3 DEF TypeOK
<1>8. CASE Ask("arm", "arm?") \/ ArmReply \/ ArmTimeout \/ Ask("trigger", "trigger?") \/ TriggerReply \/ Wake
    <2>1. pc' \in Places /\ pc \notin {"idle", "done"} /\ pc' # "done" /\ timer' \in Nat
        BY <1>2, <1>8 DEF Ask, ArmReply, ArmTimeout, TriggerReply, Wake, Goto, Places, Waiting
    <2>3. late' \in BOOLEAN
        BY <1>8 DEF Ask, ArmReply, ArmTimeout, TriggerReply, Wake, TypeOK, CarriedOut
    <2>2. UNCHANGED <<call, req, seen, reads, outcome, wire>>
        BY <1>8 DEF Ask, ArmReply, ArmTimeout, TriggerReply, Wake
    <2> QED
        BY <1>4, <2>1, <2>2, <2>3 DEF TypeOK
<1>9. CASE ReadStatus
    <2>1. wire' \in Seq(Commands)
        BY <1>2, <1>9, SendType, SentType DEF ReadStatus
    <2>2. pc' \in Places /\ pc \notin {"idle", "done"} /\ pc' # "done" /\ seen' \in Statuses
        BY <1>3, <1>9 DEF ReadStatus, Goto, Places
    <2>3. UNCHANGED <<call, req, timer, late, reads, outcome>>
        BY <1>9 DEF ReadStatus
    <2> QED
        BY <1>4, <2>1, <2>2, <2>3 DEF TypeOK
<1>10. CASE ReadChannel
    <2>1. pc = "read?" /\ Len(reads) \in Nat /\ Len(reads) < NumChannels
        BY <1>10 DEF ReadChannel, TypeOK
    <2>2. reads' \in Seq(Record \cup {NoFrame}) /\ Len(reads') = Len(reads) + 1
        BY <1>10, AppendProperties DEF ReadChannel, TypeOK
    <2>3. /\ pc' \in {"done", "read?"} /\ (pc' = "read?" => Len(reads') # NumChannels)
          /\ pc' = "done" => Len(reads') = NumChannels
        BY <1>10, <2>2 DEF ReadChannel, Goto
    <2>4. Len(reads') <= NumChannels /\ (pc' = "read?" => Len(reads') < NumChannels) /\ pc' \in Places
        BY <1>2, <2>1, <2>2, <2>3 DEF Places
    <2>5. UNCHANGED <<call, req, timer, late, seen, outcome, wire>>
        BY <1>10 DEF ReadChannel
    <2> QED
        BY <1>4, <2>2, <2>3, <2>4, <2>5 DEF TypeOK
<1> QED
    BY <1>5, <1>6, <1>7, <1>8, <1>9, <1>10 DEF HostStep

\* Every variable has its type and a frame that is handed over has one waveform per
\* channel, however slow the instrument is (ds1054z.py:249-259).
THEOREM TypeInvariant == Spec => []TypeInv
<1>1. Init => TypeInv
    <2> SUFFICES ASSUME Init PROVE TypeInv
        OBVIOUS
    <2> USE BoundAssumption DEF Init
    <2>1. 0 \in Calls /\ "STOP" \in Statuses /\ "AUTO" \in Sweeps
        BY DEF Calls, Statuses, Captured, Sweeps
    <2>2. <<>> \in Seq(Record \cup {NoFrame}) /\ <<>> \in Seq(Commands) /\ Len(<<>>) = 0
        OBVIOUS
    <2>3. outcome \in Outcome /\ outcome.kind = "none"
        BY NoOutcomeType
    <2>4. memory \in Record \cup {NoFrame}
        <3>1. [vert |-> 0, trig |-> 0, deep |-> TRUE, bit |-> 0] \in Record
            BY <2>1 DEF Record
        <3> HIDE DEF Init
        <3>2. memory = NoFrame \/ memory = [vert |-> 0, trig |-> 0, deep |-> TRUE, bit |-> 0]
            BY DEF Init
        <3> QED
            BY <3>1, <3>2
    <2>5. setup \in [vert : Calls, trig : Calls, sweep : Sweeps]
        BY <2>1
    <2>6. /\ pc \in Places /\ call \in Calls /\ req \in [sweep : Sweeps, deep : BOOLEAN]
          /\ timer \in Nat /\ seen \in Statuses
          /\ reads \in Seq(Record \cup {NoFrame}) /\ Len(reads) <= NumChannels
        BY <2>1, <2>2 DEF Places
    <2>7. /\ busy \in 0..Realloc /\ lag \in 0..Latency /\ fill \in 0..Window
          /\ pending \in {"none", "run", "single"} /\ mode \in {"stopped", "running", "armed"}
        OBVIOUS
    <2>8. wire \in Seq(Commands) /\ pc = "idle"
        BY <2>2
    <2>9. fired \in BOOLEAN /\ late \in BOOLEAN
        OBVIOUS
    <2> HIDE DEF Init
    <2> QED
        BY <2>3, <2>4, <2>5, <2>6, <2>7, <2>8, <2>9 DEF TypeInv, TypeOK
<1>2. TypeInv /\ [Next]_vars => TypeInv'
    <2> SUFFICES ASSUME TypeInv, [Next]_vars PROVE TypeInv'
        OBVIOUS
    <2>1. CASE UNCHANGED vars
        BY <2>1 DEF vars, host, inst, TypeInv, TypeOK
    <2> QED
        BY <2>1, HostType, InstrumentType, TickType DEF Next
<1> QED
    BY <1>1, <1>2, PTL DEF Spec

-----------------------------------------------------------------------------
(* How the commands of a call move. *)

\* Ranges, and how many commands are still to be executed.
LEMMA Ranges ==
    ASSUME TypeInv
    PROVE  /\ call \in Nat /\ timer \in Nat /\ busy \in Nat /\ lag \in Nat /\ fill \in Nat
           /\ fill <= Window /\ Window \in Nat /\ Settle \in Nat /\ Settle > 0
           /\ Len(wire) \in Nat /\ Executed \in Int /\ Sent \in {2, 5, 6}
           /\ Executed <= Sent /\ (Executed = Sent <=> wire = <<>>)
           /\ pc \in {"arm", "arm?", "sleep"} => Sent = 6
<1>1. Len(wire) \in Nat /\ (Len(wire) = 0 <=> wire = <<>>)
    BY EmptySeq DEF TypeInv
<1>2. Sent \in {2, 5, 6} /\ (pc \in {"arm", "arm?", "sleep"} => Sent = 6)
    BY DEF Sent
<1>3. Executed \in Int /\ Executed <= Sent /\ (Executed = Sent <=> wire = <<>>)
    BY <1>1, <1>2 DEF Executed
<1>4. /\ call \in Nat /\ timer \in Nat /\ busy \in Nat /\ lag \in Nat /\ fill \in Nat
      /\ fill <= Window /\ Window \in Nat /\ Settle \in Nat /\ Settle > 0
    BY BoundAssumption DEF TypeInv, TypeOK, Calls
<1> QED
    BY <1>1, <1>2, <1>3, <1>4

\* The places of the host apart from where it writes.
LEMMA Apart ==
    /\ Writing \cap (Reading \cup {"idle", "trigger", "trigger?"}) = {}
    /\ {"trigger", "trigger?"} \cap (Reading \cup {"idle"}) = {} /\ "idle" \notin Reading
    /\ pc \in Writing => pc \notin {"trigger", "trigger?", "status?", "read?", "done", "idle"}
BY DEF Writing, Reading

\* A step that neither sends nor executes.
LEMMA NothingMoves ==
    ASSUME WireInv, UNCHANGED <<pc, call, req, wire>>, late => late'
    PROVE  WireInv' /\ Executed' = Executed
BY DEF WireInv, Executed, Sent, Script

\* What the host returned stays as it is until it returns again.
LEMMA SameOutcome ==
    ASSUME FrameHonest, UNCHANGED outcome
    PROVE  FrameHonest'
BY DEF FrameHonest, OneShotFresh, OneShotTriggered, Coherent, FreeRunFresh, Frames, Handed, InTime

\* A call that hands nothing over hands nothing dishonest over.
LEMMA NothingHanded ==
    ASSUME outcome'.kind # "frame"
    PROVE  FrameHonest'
BY DEF FrameHonest, OneShotFresh, OneShotTriggered, Coherent, FreeRunFresh, Handed

\* Which command is next.
LEMMA NextCommand ==
    ASSUME TypeInv, WireInv, pc \in Writing, wire # <<>>, Executed >= 0
    PROVE  /\ Executed \in 0..5 /\ Head(wire) = Script[Executed + 1]
           /\ Head(wire) = <<"STOP">> => Executed = 0
           /\ Head(wire)[1] = "VERT" => Executed = 1 /\ Head(wire)[2] = call
           /\ Head(wire) = <<"RUN">> => Executed = 2 \/ (Executed = 5 /\ req.sweep = "AUTO")
           /\ Head(wire) = <<"DEPTH">> => Executed = 3
           /\ Head(wire)[1] = "TRIG" =>
                  Executed = 4 /\ Head(wire)[2] = call /\ Head(wire)[3] = req.sweep
           /\ Head(wire) = <<"SINGLE">> => Executed = 5 /\ req.sweep # "AUTO"
<1>1. Len(wire) \in Nat \ {0} /\ Head(wire) = wire[1]
    BY EmptySeq DEF TypeInv
<1>2. Executed \in 0..5
    BY Ranges
<1>3. Head(wire) = Script[Executed + 1]
    BY <1>1, <1>2 DEF WireInv
<1>4. /\ Script[1] = <<"STOP">> /\ Script[2] = <<"VERT", call>> /\ Script[3] = <<"RUN">>
      /\ Script[4] = <<"DEPTH">> /\ Script[5] = <<"TRIG", call, req.sweep>>
      /\ Script[6] = IF req.sweep = "AUTO" THEN <<"RUN">> ELSE <<"SINGLE">>
    BY DEF Script
<1>5. CASE Executed = 0
    BY <1>2, <1>3, <1>4, <1>5
<1>6. CASE Executed = 1
    BY <1>2, <1>3, <1>4, <1>6
<1>7. CASE Executed = 2
    BY <1>2, <1>3, <1>4, <1>7
<1>8. CASE Executed = 3
    BY <1>2, <1>3, <1>4, <1>8
<1>9. CASE Executed = 4
    BY <1>2, <1>3, <1>4, <1>9
<1>10. CASE Executed = 5
    BY <1>2, <1>3, <1>4, <1>10
<1> QED
    BY <1>2, <1>5, <1>6, <1>7, <1>8, <1>9, <1>10

\* A command is executed.
LEMMA ExecuteMoves ==
    ASSUME TypeInv, WireInv, pc \in Writing, wire # <<>>, wire' = Tail(wire),
           UNCHANGED <<pc, call, req>>
    PROVE  WireInv' /\ Executed' = Executed + 1
<1>1. /\ Len(wire) \in Nat \ {0} /\ Len(wire') = Len(wire) - 1
      /\ \A i \in 1..Len(wire') : wire'[i] = wire[i + 1]
    BY EmptySeq, HeadTailProperties DEF TypeInv
<1>2. Sent \in {2, 5, 6} /\ Sent' = Sent /\ Script' = Script
    BY DEF Sent, Script
<1>3. Executed' = Executed + 1 /\ Executed \in Int
    BY <1>1, <1>2 DEF Executed
<1>4. ASSUME NEW i \in 1..Len(wire'), Executed' + i >= 1 PROVE wire'[i] = Script'[Executed' + i]
    <2>1. i + 1 \in 1..Len(wire) /\ wire'[i] = wire[i + 1]
        BY <1>1
    <2>2. Executed + (i + 1) = Executed' + i
        BY <1>3
    <2>3. wire[i + 1] = Script[Executed + (i + 1)]
        BY <1>4, <2>1, <2>2 DEF WireInv
    <2> QED
        BY <1>2, <2>1, <2>2, <2>3
<1> QED
    BY <1>3, <1>4, Apart DEF WireInv

\* Commands are sent behind what is on the wire.
LEMMA SendAppends ==
    ASSUME TypeInv, NEW commands \in Seq(Commands), Send(commands)
    PROVE  /\ Len(wire) \in Nat /\ Len(commands) \in Nat /\ Len(wire') = Len(wire) + Len(commands)
           /\ \A i \in 1..Len(wire') :
                  wire'[i] = IF i <= Len(wire) THEN wire[i] ELSE commands[i - Len(wire)]
<1>1. wire \in Seq(Commands) /\ wire' = wire \o commands
    BY DEF TypeInv, Send
<1> QED
    BY <1>1, ConcatProperties

\* The commands of the script that come next are sent.
LEMMA SendMoves ==
    ASSUME TypeInv, WireInv, pc \in Writing, pc' \in Writing, UNCHANGED <<call, req>>,
           NEW commands \in Seq(Commands), Send(commands), Sent' = Sent + Len(commands),
           \A j \in 1..Len(commands) : commands[j] = Script[Sent + j]
    PROVE  WireInv' /\ Executed' = Executed /\ Executed <= Sent
<1>1. /\ Len(wire) \in Nat /\ Len(commands) \in Nat /\ Len(wire') = Len(wire) + Len(commands)
      /\ \A i \in 1..Len(wire') :
             wire'[i] = IF i <= Len(wire) THEN wire[i] ELSE commands[i - Len(wire)]
    BY SendAppends
<1>2. Sent \in {2, 5, 6} /\ Script' = Script
    BY DEF Sent, Script
<1>3. Executed' = Executed /\ Executed = Sent - Len(wire) /\ Executed \in Int /\ Executed <= Sent
    BY <1>1, <1>2 DEF Executed
<1>4. ASSUME NEW i \in 1..Len(wire'), Executed' + i >= 1 PROVE wire'[i] = Script'[Executed' + i]
    <2>1. CASE i <= Len(wire)
        <3>1. i \in 1..Len(wire) /\ wire'[i] = wire[i]
            BY <1>1, <2>1
        <3>2. wire[i] = Script[Executed + i]
            BY <1>3, <1>4, <3>1 DEF WireInv
        <3> QED
            BY <1>2, <1>3, <3>1, <3>2
    <2>2. CASE i > Len(wire)
        <3>1. i - Len(wire) \in 1..Len(commands) /\ wire'[i] = commands[i - Len(wire)]
            BY <1>1, <2>2
        <3>2. Sent + (i - Len(wire)) = Executed + i
            BY <1>1, <1>2, <1>3
        <3> QED
            BY <1>2, <1>3, <3>1, <3>2
    <2> QED
        BY <1>1, <2>1, <2>2
<1>5. pc' \notin {"trigger", "trigger?", "status?", "read?", "done", "idle"}
    BY DEF Writing
<1> QED
    BY <1>3, <1>4, <1>5 DEF WireInv

-----------------------------------------------------------------------------
(* The steps of the instrument. *)

\* A command is executed while the host writes.
LEMMA ExecuteHonest ==
    ASSUME TypeInv, HonestInv, Execute, pc \in Writing
    PROVE  HonestInv'
<1> USE DEF HonestInv
<1>1. /\ UNCHANGED <<pc, call, req, timer, seen, reads, late, outcome>>
      /\ wire # <<>> /\ wire' = Tail(wire)
    BY DEF Execute, host
<1>2. WireInv' /\ Executed' = Executed + 1
    BY <1>1, ExecuteMoves
<1>3. FrameHonest' /\ TriggerInv' /\ ReadInv' /\ DeepInv'
    BY <1>1, SameOutcome, Apart DEF TriggerInv, ReadInv, DeepInv
<1>4. Executed \in Int /\ Executed <= 5
    BY <1>1, Ranges
<1>5. ASSUME SetupInv', ControlInv', Executed # 5 PROVE HonestInv'
    <2>1. ArmInv' /\ SleepInv'
        BY <1>1, <1>2, <1>4, <1>5 DEF ArmInv, SleepInv
    <2> QED
        BY <1>2, <1>3, <1>5, <2>1
<1>6. CASE Executed < 0
    <2>1. SetupInv' /\ ControlInv'
        BY <1>1, <1>2, <1>4, <1>6, Apart DEF SetupInv, ControlInv
    <2> QED
        BY <1>4, <1>5, <1>6, <2>1
<1>7. CASE Executed >= 0
    <2> USE <1>7
    <2>1. CASE ExecuteStop
        <3>1. Executed = 0 /\ pending' = "none" /\ mode' = "stopped" /\ UNCHANGED setup
            BY <1>1, <2>1, NextCommand DEF ExecuteStop
        <3>2. SetupInv' /\ ControlInv'
            BY <1>1, <1>2, <3>1, Apart DEF SetupInv, ControlInv
        <3> QED
            BY <1>5, <3>1, <3>2
    <2>2. CASE ExecuteVertical
        <3>1. Executed = 1 /\ setup'.vert = call /\ UNCHANGED <<pending, mode>>
            BY <1>1, <2>2, NextCommand DEF ExecuteVertical, TypeInv, TypeOK
        <3>2. SetupInv' /\ ControlInv'
            BY <1>1, <1>2, <3>1, Apart DEF SetupInv, ControlInv
        <3> QED
            BY <1>5, <3>1, <3>2
    <2>3. CASE ExecuteRun
        <3>1. Executed = 2 \/ (Executed = 5 /\ req.sweep = "AUTO")
            BY <1>1, <2>3, NextCommand DEF ExecuteRun
        <3>2. UNCHANGED <<mode, fill, setup, memory>>
            BY <2>3 DEF ExecuteRun
        <3>3. \/ (mode = "running" \/ pending = "run") /\ UNCHANGED pending
              \/ mode # "running" /\ pending' = "run"
            BY <2>3 DEF ExecuteRun
        <3>4. SetupInv' /\ ControlInv'
            BY <1>1, <1>2, <3>1, <3>2, <3>3, Apart DEF SetupInv, ControlInv
        <3>5. CASE Executed = 2
            BY <1>5, <3>4, <3>5
        <3>6. CASE Executed = 5 /\ req.sweep = "AUTO"
            <4>1. ArmInv'
                BY <1>1, <3>6 DEF ArmInv, OneShots
            <4>2. \/ pending' = "run" /\ mode' = "stopped"
                  \/ pending' = "none" /\ mode' = "running"
                BY <3>2, <3>3, <3>6 DEF ControlInv
            <4>3. SleepInv'
                BY <1>1, <1>2, <3>6, <4>2 DEF SleepInv
            <4> QED
                BY <1>2, <1>3, <3>4, <4>1, <4>3
        <3> QED
            BY <3>1, <3>5, <3>6
    <2>4. CASE ExecuteDepth
        <3>1. Executed = 3 /\ UNCHANGED <<pending, mode, setup>>
            BY <1>1, <2>4, NextCommand DEF ExecuteDepth
        <3>2. SetupInv' /\ ControlInv'
            BY <1>1, <1>2, <3>1, Apart DEF SetupInv, ControlInv
        <3> QED
            BY <1>5, <3>1, <3>2
    <2>5. CASE ExecuteTrigger
        <3>1. /\ Executed = 4 /\ UNCHANGED <<pending, mode>>
              /\ setup'.vert = setup.vert /\ setup'.trig = call /\ setup'.sweep = req.sweep
            BY <1>1, <2>5, NextCommand DEF ExecuteTrigger, TypeInv, TypeOK
        <3>2. SetupInv' /\ ControlInv'
            BY <1>1, <1>2, <3>1, Apart DEF SetupInv, ControlInv
        <3> QED
            BY <1>5, <3>1, <3>2
    <2>6. CASE ExecuteSingle
        <3>1. /\ Executed = 5 /\ req.sweep # "AUTO" /\ UNCHANGED <<mode, setup>>
              /\ pending' = "single"
            BY <1>1, <2>6, NextCommand DEF ExecuteSingle
        <3>2. SetupInv' /\ ControlInv' /\ SleepInv'
            BY <1>1, <1>2, <3>1, Apart DEF SetupInv, ControlInv, SleepInv
        <3>3. mode' \in {"stopped", "running"}
            BY <3>1 DEF ControlInv
        <3>4. ArmInv'
            BY <1>1, <1>2, <3>1, <3>3 DEF ArmInv, Arming
        <3> QED
            BY <1>2, <1>3, <3>2, <3>4
    <2> QED
        BY <2>1, <2>2, <2>3, <2>4, <2>5, <2>6 DEF Execute
<1> QED
    BY <1>4, <1>6, <1>7

\* A command is executed while the host reads, or when it is too late for the host
\* to count on it.
LEMMA StopHonest ==
    ASSUME TypeInv, HonestInv, Execute, pc \notin Writing
    PROVE  HonestInv'
<1> USE DEF HonestInv
<1>1. /\ UNCHANGED <<pc, call, req, timer, seen, reads, late, outcome>>
      /\ wire # <<>> /\ wire' = Tail(wire)
    BY DEF Execute, host
<1>2. FrameHonest'
    BY <1>1, SameOutcome
<1>3. ControlInv' /\ ArmInv' /\ SleepInv'
    BY <1>1 DEF ControlInv, ArmInv, SleepInv, Writing
<1>4. CASE pc \in {"read?", "done"}
    <2>1. pc = "read?" /\ wire = << <<"STOP">> >> /\ reads = <<>>
        BY <1>1, <1>4 DEF WireInv, DeepInv
    <2>2. Head(wire) = <<"STOP">> /\ wire' = <<>> /\ Head(wire)[1] = "STOP"
        BY <1>1, <2>1
    <2>3. ExecuteStop
        BY <2>2 DEF Execute, ExecuteStop, ExecuteRun, ExecuteSingle, ExecuteVertical, ExecuteDepth,
                    ExecuteTrigger
    <2>4. pending' = "none" /\ mode' = "stopped" /\ UNCHANGED <<setup, memory>>
        BY <2>3 DEF ExecuteStop
    <2>5. WireInv' /\ SetupInv' /\ TriggerInv'
        BY <1>1, <2>1, <2>2, <2>4 DEF WireInv, SetupInv, TriggerInv, Writing
    <2>6. ReadInv' /\ DeepInv'
        BY <1>1, <2>1, <2>2, <2>4 DEF ReadInv, DeepInv, Caught, Reading
    <2> QED
        BY <1>2, <1>3, <2>5, <2>6
<1>5. CASE pc \notin {"read?", "done"}
    <2>1. pc = "idle" \/ late
        BY <1>1, <1>5 DEF WireInv, Writing, TypeInv, TypeOK, Places, Waiting
    <2>2. WireInv' /\ SetupInv' /\ TriggerInv' /\ ReadInv' /\ DeepInv'
        BY <1>1, <1>5, <2>1 DEF WireInv, SetupInv, TriggerInv, ReadInv, DeepInv, Reading
    <2> QED
        BY <1>2, <1>3, <2>2
<1> QED
    BY <1>4, <1>5

\* Run control takes effect.
LEMMA TakeEffectHonest ==
    ASSUME TypeInv, HonestInv, TakeEffect
    PROVE  HonestInv'
<1> USE DEF HonestInv
<1>1. /\ UNCHANGED <<pc, call, req, timer, seen, reads, late, outcome, wire, setup>>
      /\ pending # "none" /\ pending' = "none" /\ fired' = FALSE
    BY DEF TakeEffect, host
<1>2. \/ pending = "run" /\ mode' = "running" /\ memory' = memory
      \/ pending = "single" /\ mode' = "armed"
    BY DEF TakeEffect, TypeInv, TypeOK
<1>3. WireInv' /\ Executed' = Executed /\ FrameHonest'
    BY <1>1, NothingMoves, SameOutcome
<1>4. SetupInv' /\ ControlInv'
    BY <1>1, <1>2, <1>3 DEF SetupInv, ControlInv
<1>5. ArmInv'
    BY <1>1, <1>2, <1>3 DEF ArmInv, Arming, Hunting, Caught
<1>6. TriggerInv'
    BY <1>1, <1>2 DEF TriggerInv, Arming, Hunting, Caught
<1>7. SleepInv'
    <2>1. timer' = timer
        BY <1>1
    <2>2. CASE pc = "sleep"
        <3>1. Executed = 6 => pending = "run" /\ mode' = "running" /\ memory' = memory
            BY <1>1, <1>2, <2>2 DEF SleepInv
        <3> QED
            BY <1>1, <1>3, <2>1, <2>2, <3>1 DEF SleepInv
    <2> QED
        BY <1>1, <2>2 DEF SleepInv
<1>8. ReadInv'
    BY <1>1, <1>2 DEF ReadInv, Caught, TypeInv, TypeOK, Sweeps, OneShots
<1>9. DeepInv'
    BY <1>1 DEF DeepInv
<1> QED
    BY <1>3, <1>4, <1>5, <1>6, <1>7, <1>8, <1>9

\* A record is completed: triggered, or shown by the AUTO sweep.
LEMMA CompleteHonest ==
    ASSUME TypeInv, HonestInv, Fire \/ AutoFrame
    PROVE  HonestInv'
<1> USE DEF HonestInv
<1>1. /\ UNCHANGED <<pc, call, req, timer, seen, reads, late, outcome, wire, pending, setup>>
      /\ mode \in {"running", "armed"} /\ pending # "single"
    BY DEF Fire, AutoFrame, Acquiring, host
<1>2. memory'.vert = setup.vert /\ (mode = "armed" => memory'.trig = setup.trig)
    BY DEF Fire, AutoFrame, Complete
<1>3. /\ mode = "armed" => mode' = "stopped"
      /\ mode = "running" => mode' \in {"stopped", "running"}
      /\ mode = "running" /\ setup.sweep = "AUTO" => mode' = "running"
    BY DEF Fire, AutoFrame
<1>4. WireInv' /\ Executed' = Executed /\ FrameHonest'
    BY <1>1, NothingMoves, SameOutcome
<1>5. SetupInv'
    BY <1>1, <1>4 DEF SetupInv
<1>6. ControlInv'
    BY <1>1, <1>3, <1>4 DEF ControlInv
<1>7. ArmInv'
    <2>1. CASE pc \in {"arm", "arm?"} /\ Executed = 6
        <3>1. Hunting
            BY <1>1, <2>1 DEF ArmInv, Arming, Caught
        <3>2. setup.vert = call /\ setup.trig = call
            BY <2>1 DEF SetupInv, Writing
        <3>3. Caught'
            BY <1>1, <1>2, <1>3, <3>1, <3>2 DEF Hunting, Caught
        <3> QED
            BY <1>1, <1>4, <2>1, <3>3 DEF ArmInv
    <2>2. CASE pc \in {"arm", "arm?"} /\ Executed # 6
        BY <1>1, <1>4, <2>2 DEF ArmInv
    <2> QED
        BY <1>1, <2>1, <2>2 DEF ArmInv
<1>8. TriggerInv'
    <2>1. CASE pc \in {"trigger", "trigger?"} /\ ~late
        <3>1. Hunting
            BY <1>1, <2>1 DEF TriggerInv, Arming, Caught
        <3>2. setup.vert = call /\ setup.trig = call
            BY <2>1 DEF SetupInv
        <3>3. Caught'
            BY <1>1, <1>2, <1>3, <3>1, <3>2 DEF Hunting, Caught
        <3> QED
            BY <1>1, <2>1, <3>3 DEF TriggerInv
    <2> QED
        BY <1>1, <2>1 DEF TriggerInv
<1>9. SleepInv'
    <2>1. CASE pc = "sleep" /\ Executed = 6
        <3>1. setup.vert = call /\ setup.sweep = "AUTO"
            BY <2>1 DEF SetupInv, SleepInv, Writing
        <3>2. pending = "none" /\ mode = "running" /\ mode' = "running"
            BY <1>1, <1>3, <2>1, <3>1 DEF SleepInv
        <3> QED
            BY <1>1, <1>2, <1>4, <2>1, <3>1, <3>2 DEF SleepInv
    <2>2. CASE pc = "sleep" /\ Executed # 6
        BY <1>1, <1>4, <2>2 DEF SleepInv
    <2> QED
        BY <1>1, <2>1, <2>2 DEF SleepInv
<1>10. ReadInv'
    <2>1. CASE pc \in Reading /\ ~late /\ req.sweep = "AUTO"
        <3>1. setup.vert = call
            BY <2>1 DEF SetupInv
        <3> QED
            BY <1>1, <1>2, <2>1, <3>1 DEF ReadInv, OneShots, Reading
    <2>2. CASE ~ (pc \in Reading /\ ~late /\ req.sweep = "AUTO")
        BY <1>1, <2>2 DEF ReadInv, Caught
    <2> QED
        BY <2>1, <2>2
<1>11. DeepInv'
    BY <1>1 DEF DeepInv
<1> QED
    BY <1>4, <1>5, <1>6, <1>7, <1>8, <1>9, <1>10, <1>11

\* A running acquisition hunts for its next trigger.
LEMMA RearmHonest ==
    ASSUME TypeInv, HonestInv, Rearm
    PROVE  HonestInv'
<1> USE DEF HonestInv
<1>1. /\ UNCHANGED <<pc, call, req, timer, seen, reads, late, outcome>>
      /\ UNCHANGED <<wire, busy, pending, lag, mode, fill, setup, memory>>
      /\ fired' = FALSE
    BY DEF Rearm, host
<1>2. WireInv' /\ Executed' = Executed /\ FrameHonest'
    BY <1>1, NothingMoves, SameOutcome
<1>3. SetupInv' /\ ControlInv' /\ SleepInv' /\ DeepInv'
    BY <1>1, <1>2 DEF SetupInv, ControlInv, SleepInv, DeepInv
<1>4. ArmInv' /\ TriggerInv' /\ ReadInv'
    BY <1>1, <1>2 DEF ArmInv, TriggerInv, ReadInv, Arming, Hunting, Caught
<1> QED
    BY <1>2, <1>3, <1>4

\* Time passes: a free run that is not late goes on having a whole window before
\* it, or fills the one it has.
LEMMA TickHonest ==
    ASSUME TypeInv, HonestInv, Tick
    PROVE  HonestInv'
<1> USE DEF HonestInv
<1>1. /\ UNCHANGED <<pc, call, req, seen, reads, outcome>>
      /\ UNCHANGED <<wire, pending, mode, fired, setup, memory>>
      /\ timer' = Dec(timer) /\ fill' = IF busy = 0 THEN Dec(fill) ELSE fill
      /\ late' = (late \/ LateToRun)
    BY DEF Tick
<1>2. WireInv' /\ Executed' = Executed /\ FrameHonest'
    BY <1>1, NothingMoves, SameOutcome
<1>3. pc # "sleep" => late' = late
    BY <1>1 DEF LateToRun, TypeInv, TypeOK
<1>4. SetupInv' /\ ControlInv'
    BY <1>1, <1>2 DEF SetupInv, ControlInv
<1>5. ArmInv' /\ TriggerInv' /\ ReadInv' /\ DeepInv'
    BY <1>1, <1>2, <1>3 DEF ArmInv, TriggerInv, ReadInv, DeepInv, Arming, Hunting, Caught, Reading
<1>6. SleepInv'
    <2>1. ASSUME pc = "sleep", ~late'
          PROVE  \/ timer' > Window
                 \/ Executed = 6 /\ memory.vert = call
                 \/ Executed = 6 /\ pending = "none" /\ timer' > fill'
        <3>1. ~late /\ (timer > Window + 1 \/ CarriedOut)
            <4>1. ~late /\ ~LateToRun
                BY <1>1, <2>1
            <4> QED
                BY <2>1, <4>1, Ranges DEF LateToRun
        <3>2. CASE timer > Window + 1
            <4>1. timer' > Window
                BY <1>1, <3>2, Ranges DEF Dec
            <4> QED
                BY <4>1
        <3>3. CASE CarriedOut /\ memory.vert # call
            <4>1. Executed = 6 /\ busy = 0 /\ pending = "none"
                BY <2>1, <3>3, Ranges DEF CarriedOut
            <4>2. mode = "running" /\ setup.sweep = "AUTO"
                BY <2>1, <4>1 DEF SleepInv, SetupInv, Writing
            <4>3. timer > fill
                BY <2>1, <3>1, <3>3, <4>1, Ranges DEF SleepInv
            <4>4. fill # 0
                BY <4>1, <4>2 DEF Tick, Acquiring
            <4>5. timer' > fill'
                BY <1>1, <4>1, <4>3, <4>4, Ranges DEF Dec
            <4> QED
                BY <4>1, <4>5
        <3>4. CASE CarriedOut /\ memory.vert = call
            BY <2>1, <3>4, Ranges DEF CarriedOut
        <3> QED
            BY <3>1, <3>2, <3>3, <3>4
    <2> QED
        BY <1>1, <1>2, <2>1 DEF SleepInv
<1> QED
    BY <1>2, <1>4, <1>5, <1>6

-----------------------------------------------------------------------------
(* The steps of the host. *)

\* A new call begins, whatever the last one left on the wire.
LEMMA BeginHonest ==
    ASSUME TypeInv, HonestInv, NEW sweep \in Sweeps, NEW deep \in BOOLEAN, Begin(sweep, deep)
    PROVE  HonestInv'
<1> USE DEF HonestInv
<1> DEFINE commands == << <<"STOP">>, <<"VERT", call + 1>> >>
<1>1. /\ pc = "idle" /\ pc' = "configure" /\ reads' = <<>> /\ call' = call + 1 /\ late' = FALSE
      /\ outcome' = NoOutcome /\ Send(commands)
    BY DEF Begin, Goto
<1>2. commands \in Seq(Commands) /\ Len(commands) = 2
    <2>1. call + 1 \in Calls
        BY BoundAssumption DEF Begin, TypeInv, TypeOK, Calls
    <2> QED
        BY <2>1 DEF Commands
<1>3. commands[1] = Script'[1] /\ commands[2] = Script'[2]
    BY <1>1 DEF Script
<1> HIDE DEF commands
<1>4. /\ Len(wire) \in Nat /\ Len(wire') = Len(wire) + 2
      /\ \A i \in 1..Len(wire') :
             wire'[i] = IF i <= Len(wire) THEN wire[i] ELSE commands[i - Len(wire)]
    BY <1>1, <1>2, SendAppends
<1>5. Sent' = 2
    BY <1>1 DEF Sent
<1>6. Executed' = -Len(wire)
    BY <1>4, <1>5 DEF Executed
<1>7. ASSUME NEW i \in 1..Len(wire'), Executed' + i >= 1 PROVE wire'[i] = Script'[Executed' + i]
    <2>1. i > Len(wire) /\ Executed' + i \in {1, 2} /\ Executed' + i = i - Len(wire)
        BY <1>4, <1>6, <1>7
    <2>2. wire'[i] = commands[i - Len(wire)]
        BY <1>4, <2>1
    <2> QED
        BY <1>3, <2>1, <2>2
<1>8. WireInv'
    BY <1>1, <1>7 DEF WireInv
<1>9. Executed' <= 0 /\ Executed' \in Int
    BY <1>4, <1>6
<1>10. SetupInv' /\ ControlInv' /\ ArmInv' /\ TriggerInv' /\ SleepInv' /\ ReadInv' /\ DeepInv'
    BY <1>1, <1>9 DEF SetupInv, ControlInv, ArmInv, TriggerInv, SleepInv, ReadInv, DeepInv, Writing, Reading
<1>11. FrameHonest'
    BY <1>1, NoOutcomeType, NothingHanded
<1> QED
    BY <1>8, <1>10, <1>11

\* The commands of a call are sent in the order of the script.
LEMMA WriteHonest ==
    ASSUME TypeInv, HonestInv, Configure \/ Single \/ FreeRun
    PROVE  HonestInv'
<1> USE DEF HonestInv
<1>1. UNCHANGED <<call, req, reads, late, outcome, pending, mode, fired, fill, setup, memory>>
    BY DEF Configure, Single, FreeRun, inst
<1>2. FrameHonest'
    BY <1>1, SameOutcome
<1>3. call \in Calls /\ req.sweep \in Sweeps
    BY DEF TypeInv, TypeOK
<1>4. ASSUME pc \in {"configure", "start"}, pc' \in Writing, Executed' = Executed, Executed \in Int,
             Executed <= 5, WireInv', ArmInv', SleepInv'
      PROVE  HonestInv'
    <2>1. SetupInv' /\ ControlInv' /\ TriggerInv' /\ ReadInv' /\ DeepInv'
        BY <1>1, <1>4, Apart
           DEF SetupInv, ControlInv, TriggerInv, ReadInv, DeepInv, Reading, Writing
    <2> QED
        BY <1>2, <1>4, <2>1
<1>5. CASE Configure
    <2> DEFINE commands == << <<"RUN">>, <<"DEPTH">>, <<"TRIG", call, req.sweep>> >>
    <2>1. pc = "configure" /\ pc' = "start" /\ pc \in Writing /\ pc' \in Writing /\ Send(commands)
        BY <1>5 DEF Configure, Goto, Writing
    <2>2. commands \in Seq(Commands) /\ Len(commands) = 3 /\ Sent = 2 /\ Sent' = 5
        BY <1>3, <2>1, SentType DEF Sent
    <2>3. commands[1] = Script[3] /\ commands[2] = Script[4] /\ commands[3] = Script[5]
        BY DEF Script
    <2>4. \A j \in 1..Len(commands) : commands[j] = Script[Sent + j]
        BY <2>2, <2>3
    <2> HIDE DEF commands
    <2>5. WireInv' /\ Executed' = Executed /\ Executed \in Int /\ Executed <= 2
        <3>1. Sent' = Sent + Len(commands)
            BY <2>2
        <3>2. UNCHANGED <<call, req>>
            BY <1>1
        <3>3. WireInv' /\ Executed' = Executed /\ Executed <= Sent
            BY <2>1, <2>2, <2>4, <3>1, <3>2, SendMoves
        <3> QED
            BY <2>2, <3>3, Ranges
    <2>6. ArmInv' /\ SleepInv'
        BY <1>1, <2>1 DEF ArmInv, SleepInv
    <2> QED
        BY <1>4, <2>1, <2>5, <2>6
<1>6. CASE Single
    <2> DEFINE commands == << <<"SINGLE">> >>
    <2>1. /\ pc = "start" /\ pc' = "arm" /\ pc \in Writing /\ pc' \in Writing /\ Send(commands)
          /\ req.sweep \in OneShots
        BY <1>6 DEF Single, Goto, Writing
    <2>2. commands \in Seq(Commands) /\ Len(commands) = 1 /\ Sent = 5 /\ Sent' = 6
        BY <1>3, <2>1, SentType DEF Sent
    <2>3. commands[1] = Script[6]
        BY <2>1 DEF Script, OneShots
    <2>4. \A j \in 1..Len(commands) : commands[j] = Script[Sent + j]
        BY <2>2, <2>3
    <2> HIDE DEF commands
    <2>5. WireInv' /\ Executed' = Executed /\ Executed \in Int /\ Executed <= 5
        <3>1. Sent' = Sent + Len(commands)
            BY <2>2
        <3>2. UNCHANGED <<call, req>>
            BY <1>1
        <3>3. WireInv' /\ Executed' = Executed /\ Executed <= Sent
            BY <2>1, <2>2, <2>4, <3>1, <3>2, SendMoves
        <3> QED
            BY <2>2, <3>3, Ranges
    <2>6. ArmInv' /\ SleepInv'
        BY <1>1, <2>1, <2>5 DEF ArmInv, SleepInv
    <2> QED
        BY <1>4, <2>1, <2>5, <2>6
<1>7. CASE FreeRun
    <2> DEFINE commands == << <<"RUN">> >>
    <2>1. /\ pc = "start" /\ pc' = "sleep" /\ pc \in Writing /\ pc' \in Writing /\ Send(commands)
          /\ req.sweep = "AUTO" /\ timer' = Window + Settle
        BY <1>7 DEF FreeRun, Goto, Writing
    <2>2. commands \in Seq(Commands) /\ Len(commands) = 1 /\ Sent = 5 /\ Sent' = 6
        BY <1>3, <2>1, SentType DEF Sent
    <2>3. commands[1] = Script[6]
        BY <2>1 DEF Script
    <2>4. \A j \in 1..Len(commands) : commands[j] = Script[Sent + j]
        BY <2>2, <2>3
    <2> HIDE DEF commands
    <2>5. WireInv' /\ Executed' = Executed /\ Executed \in Int /\ Executed <= 5
        <3>1. Sent' = Sent + Len(commands)
            BY <2>2
        <3>2. UNCHANGED <<call, req>>
            BY <1>1
        <3>3. WireInv' /\ Executed' = Executed /\ Executed <= Sent
            BY <2>1, <2>2, <2>4, <3>1, <3>2, SendMoves
        <3> QED
            BY <2>2, <3>3, Ranges
    <2>6. timer' > Window
        BY <2>1, Ranges
    <2>7. ArmInv' /\ SleepInv'
        BY <1>1, <2>1, <2>5, <2>6 DEF ArmInv, SleepInv
    <2> QED
        BY <1>4, <2>1, <2>5, <2>7
<1> QED
    BY <1>5, <1>6, <1>7

\* The waits for the scope to arm and to trigger.
LEMMA WaitHonest ==
    ASSUME TypeInv, HonestInv,
           Ask("arm", "arm?") \/ ArmReply \/ ArmTimeout \/ Ask("trigger", "trigger?") \/ TriggerReply
    PROVE  HonestInv'
<1> USE DEF HonestInv
<1>1. /\ UNCHANGED <<call, req, seen, reads, outcome, wire, busy>>
      /\ UNCHANGED <<pending, lag, mode, fired, fill, setup, memory>>
    BY DEF Ask, ArmReply, ArmTimeout, TriggerReply, inst
<1>2. FrameHonest'
    BY <1>1, SameOutcome
<1>3. ASSUME pc \in {"arm", "arm?"}, pc' \in {"arm", "arm?"}, late' = late
      PROVE  HonestInv'
    <2>1. pc \in Writing /\ pc' \in Writing /\ Sent = 6 /\ Sent' = 6
        BY <1>3 DEF Writing, Sent
    <2>2. WireInv' /\ Executed' = Executed
        BY <1>1, <1>3, <2>1 DEF WireInv, Executed, Script
    <2>3. SetupInv' /\ ControlInv' /\ ArmInv' /\ TriggerInv' /\ SleepInv' /\ ReadInv' /\ DeepInv'
        BY <1>1, <1>3, <2>1, <2>2, Apart
           DEF SetupInv, ControlInv, ArmInv, TriggerInv, SleepInv, ReadInv, DeepInv, Arming, Hunting, Caught,
               Reading
    <2> QED
        BY <1>2, <2>2, <2>3
<1>4. ASSUME pc \in {"arm", "arm?"}, pc' = "trigger",
             ~late' => wire = <<>> /\ ((Arming /\ mode = "running" /\ ~fired) \/ Hunting \/ Caught)
      PROVE  HonestInv'
    <2>1. reads = <<>> /\ req.sweep \in OneShots /\ pc \in Writing /\ pc' \notin Writing
        BY <1>4 DEF ReadInv, ArmInv, Writing
    <2>2. ~late' => setup = [vert |-> call, trig |-> call, sweep |-> req.sweep]
        <3>1. ~late' => Executed = 6
            BY <1>4, Ranges
        <3>2. ~late' => setup.vert = call /\ setup.trig = call /\ setup.sweep = req.sweep
            BY <2>1, <3>1 DEF SetupInv
        <3> QED
            BY <3>2 DEF TypeInv, TypeOK
    <2>3. WireInv' /\ SetupInv' /\ ControlInv' /\ ArmInv' /\ SleepInv' /\ ReadInv' /\ DeepInv'
        BY <1>1, <1>4, <2>1, <2>2
           DEF WireInv, SetupInv, ControlInv, ArmInv, SleepInv, ReadInv, DeepInv, Reading
    <2>4. TriggerInv'
        BY <1>1, <1>4, <2>1 DEF TriggerInv, Arming, Hunting, Caught
    <2> QED
        BY <1>2, <2>3, <2>4
<1>5. ASSUME pc \in {"trigger", "trigger?"}, pc' \in {"trigger", "trigger?"}, late' = late
      PROVE  HonestInv'
    <2>1. reads = <<>>
        BY <1>5 DEF ReadInv
    <2>2. WireInv' /\ SetupInv' /\ ControlInv' /\ ArmInv' /\ SleepInv' /\ ReadInv' /\ DeepInv'
        BY <1>1, <1>5, <2>1
           DEF WireInv, SetupInv, ControlInv, ArmInv, SleepInv, ReadInv, DeepInv, Writing, Reading
    <2>3. TriggerInv'
        BY <1>1, <1>5 DEF TriggerInv, Arming, Hunting, Caught
    <2> QED
        BY <1>2, <2>2, <2>3
<1>6. CASE Ask("arm", "arm?")
    BY <1>3, <1>6 DEF Ask, Goto
<1>7. CASE ArmReply
    <2>1. pc = "arm?" /\ wire = <<>> /\ late' = late
        BY <1>7 DEF ArmReply, Answered
    <2>2. Executed = 6
        BY <2>1, Ranges
    <2>3. CASE Status \in Armed
        <3>1. pc' = "trigger"
            BY <1>7, <2>3 DEF ArmReply, Goto
        <3>2. Arming => mode = "running" /\ ~fired
            BY <2>3 DEF Arming, Status, Armed
        <3>3. Arming \/ Hunting \/ Caught
            BY <2>1, <2>2 DEF ArmInv
        <3> QED
            BY <1>4, <2>1, <3>1, <3>2, <3>3
    <2>4. CASE Status \notin Armed
        BY <1>3, <1>7, <2>1, <2>4 DEF ArmReply, Goto
    <2> QED
        BY <2>3, <2>4
<1>8. CASE ArmTimeout
    <2>1. pc = "arm" /\ pc' = "trigger" /\ (~late' => CarriedOut)
        BY <1>8 DEF ArmTimeout, Goto
    <2>2. ~late' => wire = <<>> /\ Executed = 6 /\ pending = "none"
        BY <2>1, Ranges DEF CarriedOut
    <2>3. ~late' => Hunting \/ Caught
        BY <2>1, <2>2 DEF ArmInv, Arming
    <2> QED
        BY <1>4, <2>1, <2>2, <2>3
<1>9. CASE Ask("trigger", "trigger?")
    BY <1>5, <1>9 DEF Ask, Goto
<1>10. CASE TriggerReply
    <2>1. pc = "trigger?" /\ wire = <<>> /\ late' = late
        BY <1>10 DEF TriggerReply, Answered
    <2>2. CASE Status \in Captured
        <3>1. pc' = "status?"
            BY <1>10, <2>2 DEF TriggerReply, Goto
        <3>2. req.sweep \in OneShots /\ (~late => Caught)
            BY <2>1, <2>2 DEF TriggerInv, Arming, Hunting, Status, Captured
        <3>3. reads = <<>>
            BY <2>1 DEF ReadInv
        <3>4. WireInv' /\ SetupInv' /\ ControlInv' /\ ArmInv' /\ TriggerInv' /\ SleepInv' /\ DeepInv'
            BY <1>1, <2>1, <3>1
               DEF WireInv, SetupInv, ControlInv, ArmInv, TriggerInv, SleepInv, DeepInv, Writing, Reading
        <3>5. ReadInv'
            BY <1>1, <2>1, <3>1, <3>2, <3>3 DEF ReadInv, Caught, OneShots, Reading
        <3> QED
            BY <1>2, <3>4, <3>5
    <2>3. CASE Status \notin Captured
        BY <1>5, <1>10, <2>1, <2>3 DEF TriggerReply, Goto
    <2> QED
        BY <2>2, <2>3
<1> QED
    BY <1>6, <1>7, <1>8, <1>9, <1>10

\* The reading of a frame.
LEMMA ReadHonest ==
    ASSUME TypeInv, HonestInv, Wake \/ ReadStatus \/ ReadChannel
    PROVE  HonestInv'
<1> USE DEF HonestInv
<1>1. UNCHANGED <<call, req, timer, late, outcome, busy, pending, lag, mode, fired, fill, setup, memory>>
    BY DEF Wake, ReadStatus, ReadChannel, inst
<1>2. FrameHonest'
    BY <1>1, SameOutcome
<1>3. ASSUME pc' \in Reading, WireInv', SetupInv', ReadInv', DeepInv'
      PROVE  HonestInv'
    <2>1. ControlInv' /\ ArmInv' /\ TriggerInv' /\ SleepInv'
        BY <1>1, <1>3 DEF ControlInv, ArmInv, TriggerInv, SleepInv, Writing, Reading
    <2> QED
        BY <1>2, <1>3, <2>1
<1>4. CASE Wake
    <2>1. pc = "sleep" /\ timer = 0 /\ pc' = "status?" /\ UNCHANGED <<wire, reads, seen>>
        BY <1>4 DEF Wake, Goto
    <2>2. ~late => Executed = 6 /\ memory.vert = call
        BY <2>1, Ranges DEF SleepInv
    <2>3. ~late => wire = <<>> /\ pending # "single"
        BY <2>1, <2>2, Ranges DEF SleepInv
    <2>4. ~late => setup = [vert |-> call, trig |-> call, sweep |-> req.sweep]
        <3>1. ~late => setup.vert = call /\ setup.trig = call /\ setup.sweep = req.sweep
            BY <2>1, <2>2 DEF SetupInv, Writing
        <3> QED
            BY <3>1 DEF TypeInv, TypeOK
    <2>5. req.sweep = "AUTO" /\ reads = <<>>
        BY <2>1 DEF SleepInv, ReadInv
    <2>6. WireInv' /\ SetupInv' /\ DeepInv'
        BY <1>1, <2>1, <2>3, <2>4 DEF WireInv, SetupInv, DeepInv, Writing
    <2>7. ReadInv'
        BY <1>1, <2>1, <2>2, <2>3, <2>5 DEF ReadInv, OneShots
    <2> QED
        BY <1>3, <2>1, <2>6, <2>7 DEF Reading
<1>5. CASE ReadStatus
    <2>1. pc = "status?" /\ pc' = "read?" /\ seen' = Status /\ wire = <<>> /\ UNCHANGED reads
        BY <1>5 DEF ReadStatus, Goto, Answered
    <2>2. IF req.deep THEN wire' = << <<"STOP">> >> ELSE wire' = <<>>
        BY <1>5, <2>1 DEF ReadStatus, Send
    <2>3. reads = <<>>
        BY <2>1 DEF ReadInv
    <2>4. Caught => Status = "STOP"
        BY DEF Caught, Status
    <2>5. WireInv' /\ SetupInv' /\ DeepInv'
        BY <1>1, <2>1, <2>2, <2>3 DEF WireInv, SetupInv, DeepInv, Writing, Reading
    <2>6. ReadInv'
        BY <1>1, <2>1, <2>3, <2>4 DEF ReadInv, Reading, Caught
    <2> QED
        BY <1>3, <2>1, <2>5, <2>6 DEF Reading
<1>6. CASE ReadChannel
    <2>1. /\ pc = "read?" /\ pc' \in {"read?", "done"} /\ wire = <<>> /\ wire' = <<>>
          /\ UNCHANGED seen /\ reads' = Append(reads, memory)
        BY <1>6 DEF ReadChannel, Goto, Answered
    <2>2. \A i \in DOMAIN reads' : reads'[i] = memory \/ (i \in DOMAIN reads /\ reads'[i] = reads[i])
        BY <2>1, AppendProperties DEF TypeInv, TypeOK
    <2>3. WireInv' /\ SetupInv'
        BY <1>1, <2>1 DEF WireInv, SetupInv, Writing, Reading
    <2>4. ReadInv'
        BY <1>1, <2>1, <2>2 DEF ReadInv, Reading, Caught
    <2>5. DeepInv'
        BY <1>1, <2>1, <2>2 DEF DeepInv
    <2> QED
        BY <1>3, <2>1, <2>3, <2>4, <2>5 DEF Reading
<1> QED
    BY <1>4, <1>5, <1>6

\* What a call returns or raises.
LEMMA ReturnHonest ==
    ASSUME TypeInv, HonestInv, RejectDepth \/ TriggerTimeout \/ NoDeepRecord \/ Deliver
    PROVE  HonestInv'
<1> USE DEF HonestInv
<1>1. pc' = "idle"
    BY DEF RejectDepth, TriggerTimeout, NoDeepRecord, Deliver, Return, Goto
<1>2. WireInv' /\ SetupInv' /\ ControlInv' /\ ArmInv' /\ TriggerInv' /\ SleepInv' /\ ReadInv' /\ DeepInv'
    BY <1>1
       DEF WireInv, SetupInv, ControlInv, ArmInv, TriggerInv, SleepInv, ReadInv, DeepInv, Writing, Reading
<1>3. CASE outcome'.kind # "frame"
    BY <1>2, <1>3, NothingHanded
<1>4. CASE Deliver
    <2>1. pc \in Reading /\ pc = "done" /\ wire = <<>> /\ Return("frame")
        BY <1>4 DEF Deliver, Reading, WireInv
    <2>2. /\ outcome'.sweep = req.sweep /\ outcome'.call = call /\ outcome'.status = seen
          /\ outcome'.deep = req.deep /\ outcome'.late = late /\ outcome'.frames = reads
        BY <2>1 DEF Return
    <2>3. \A frame \in Frames' : \E i \in DOMAIN reads : frame = reads[i]
        BY <2>2 DEF Frames
    <2>4. req.sweep \in OneShots /\ ~late =>
              /\ seen = "STOP" /\ memory.vert = call /\ memory.trig = call
              /\ \A frame \in Frames' : frame = memory
        BY <2>1, <2>3 DEF ReadInv, Caught
    <2>5. req.sweep = "AUTO" /\ ~late => \A frame \in Frames' : frame.vert = call
        BY <2>1, <2>3 DEF ReadInv
    <2>6. req.deep => \A frame \in Frames' : frame = memory
        BY <2>1, <2>3 DEF DeepInv
    <2>7. OneShotFresh' /\ OneShotTriggered'
        BY <2>2, <2>4 DEF OneShotFresh, OneShotTriggered, Handed, InTime, Captured
    <2>8. FreeRunFresh'
        BY <2>2, <2>5 DEF FreeRunFresh, Handed, InTime
    <2>9. Coherent'
        BY <2>2, <2>4, <2>6 DEF Coherent, Handed, InTime
    <2> QED
        BY <1>2, <2>7, <2>8, <2>9 DEF FrameHonest
<1>5. outcome'.kind # "frame" \/ Deliver
    BY DEF RejectDepth, TriggerTimeout, NoDeepRecord, Return
<1> QED
    BY <1>3, <1>4, <1>5

-----------------------------------------------------------------------------
\* Every variable has its type (what the runs check of the types).
THEOREM TypesHold == Spec => []TypeOK
BY TypeInvariant, PTL DEF TypeInv

\* Whatever the instrument was left at and however slow it is, the channels of a deep
\* read are one acquisition; and unless it exceeded what the call allowed it, a
\* one-shot returns a coherent, triggered frame acquired under its own setup and by
\* its own trigger, and a free run a frame under its own setup
\* (session/acquire.py:157-177, ds1054z.py:242-247, model/capture.py:39).
THEOREM FramesAreHonest == Spec => []FrameHonest
<1>1. Init => HonestInv
    <2> SUFFICES ASSUME Init PROVE HonestInv
        OBVIOUS
    <2>1. pc = "idle" /\ outcome = NoOutcome
        BY DEF Init
    <2>2. WireInv /\ SetupInv /\ ControlInv /\ ArmInv /\ TriggerInv /\ SleepInv /\ ReadInv /\ DeepInv
        BY <2>1
           DEF WireInv, SetupInv, ControlInv, ArmInv, TriggerInv, SleepInv, ReadInv, DeepInv, Writing,
               Reading
    <2>3. outcome.kind # "frame"
        BY <2>1, NoOutcomeType
    <2> QED
        BY <2>2, <2>3
           DEF HonestInv, FrameHonest, OneShotFresh, OneShotTriggered, Coherent, FreeRunFresh, Handed
<1>2. TypeInv /\ HonestInv /\ [Next]_vars => HonestInv'
    <2> SUFFICES ASSUME TypeInv, HonestInv, [Next]_vars PROVE HonestInv'
        OBVIOUS
    <2>1. CASE UNCHANGED vars
        <3>1. UNCHANGED <<pc, call, req, timer, seen, reads, late, outcome, wire, busy, pending, lag>>
            BY <2>1 DEF vars, host, inst
        <3>2. UNCHANGED <<mode, fired, fill, setup, memory>>
            BY <2>1 DEF vars, host, inst
        <3>3. WireInv' /\ Executed' = Executed /\ FrameHonest'
            BY <3>1, NothingMoves, SameOutcome DEF HonestInv
        <3>4. SetupInv' /\ ControlInv' /\ SleepInv' /\ DeepInv'
            BY <3>1, <3>2, <3>3 DEF HonestInv, SetupInv, ControlInv, SleepInv, DeepInv
        <3>5. ArmInv' /\ TriggerInv' /\ ReadInv'
            BY <3>1, <3>2, <3>3 DEF HonestInv, ArmInv, TriggerInv, ReadInv, Arming, Hunting, Caught
        <3> QED
            BY <3>3, <3>4, <3>5 DEF HonestInv
    <2>2. CASE \E sweep \in Sweeps, deep \in BOOLEAN : Begin(sweep, deep)
        BY <2>2, BeginHonest
    <2>3. CASE HostStep
        BY <2>3, WriteHonest, WaitHonest, ReadHonest, ReturnHonest DEF HostStep
    <2>4. CASE Instrument
        BY <2>4, ExecuteHonest, StopHonest, TakeEffectHonest, CompleteHonest, RearmHonest DEF Instrument
    <2>5. CASE Tick
        BY <2>5, TickHonest
    <2> QED
        BY <2>1, <2>2, <2>3, <2>4, <2>5 DEF Next
<1>3. HonestInv => FrameHonest
    BY DEF HonestInv
<1> QED
    BY <1>1, <1>2, <1>3, TypeInvariant, PTL DEF Spec

=============================================================================
