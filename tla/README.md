# Formal models of hwtools

hwtools drives bench instruments on behalf of an agent: a Rigol DS1054Z oscilloscope
(SCPI), a Joy-IT JDS6600 signal generator (serial line protocol) and a digital stimulus
board (RP2350 firmware behind USB serial).  Frames the scope captures go into a store and
are addressed by handles; the protocol decoders and the other lenses run on stored frames.

These modules model the parts of it whose correctness depends on order, timing, loss,
limits or long sequences of calls.  TLC checks them on small instances; TLAPS proves the
theorems about the store, acquire, the session, the loops' numbers, the lines to the generator and the
stimulus board, the scope's socket and the simulated scope for all values of the constants.

Paths below are relative to `src/src/hwtools/`, those that start with `firmware/` to `src/`.

```
tlc -workers 2 -config MCCaptureStore.cfg MCCaptureStore.tla     # any pair of the tables below
tlapm ScopeSessionProofs.tla                                     # and the other modules of theorems
```

## The system

| Part | State | Operations | Interacts by | What is hard | What makes it correct |
|---|---|---|---|---|---|
| Capture store, `session/store.py` | resident entries (frame, size, kept, label), handle counter | `put keep drop get info list clear clear_ephemeral` | called by acquire, loops and session | eviction against promotion, a byte budget, put failing half-way, references of three kinds | a handle means one frame for good; kept frames stay; the budget holds; a refusal has cost nothing kept |
| acquire, `session/acquire.py` | none of its own; two deadlines | `acquire` | writes and queries through the driver, stores the frame | two timed waits on the status of an instrument that lags; every early way out | what is returned belongs to this call; a caught event is returned; every call ends |
| DS1054Z driver, `drivers/rigol/ds1054z.py` | the channel setups it applied | configure, run control, status, screen and deep read | SCPI over a transport | silent limits of the instrument, start/stop points that persist, paged reads | the setup it applies is legal; a frame is read whole |
| Session and loops, `session/scope_session.py`, `session/loop.py` | a store; a loop's current setup | `acquire keep drop clear`, the lenses; `capture_single autoset capture_until_usable` | one call at a time | many acquisitions under one call, and one store for all | a loop's result belongs together, is addressable, and has evicted no event |
| Judging and adjusting, `analysis/judge.py adjust.py recommend.py` | none | pure functions | used by the loops | computing with a setup the instrument has not taken | the loops converge on a usable screen |
| JDS6600 driver, `drivers/joyit/jds6600.py` | an open port | configure, output, phase, arbitrary slots, readback | one line out, one line back | loss, late answers, one register for both channels | what returns was done; the other channel is left alone |
| Stimulus driver, `drivers/rp2350/serial_harness.py` | an open port | `idn start_* stop reboot_to_bootloader open close` | one line out, one line back | late answers, a port that disappears | what returns was done |
| Firmware, `firmware/targets/rp2350/src/main.rs`, `firmware/common/` | sample buffer, position, word held over, FIFO, active flag | commands; the player clocks on its own | USB serial; pins | two processes on one FIFO; wrap-around; loading while playing | the pins repeat the pattern seamlessly |
| Patterns and decoders, `firmware/common/src/pattern.rs`, `decode/` | none | pure functions | the scope in between | rounding, sampling, windows that start anywhere | what was played is what is decoded |
| Transports, `transport/` | a socket | `open close write query query_block` | the drivers | framing, a timeout that leaves a reply behind, a closed connection | a reply belongs to its query, or the connection jams |
| Simulated instruments, `drivers/simulated/` | setup, run state; settings and waves | as the drivers | in place of the drivers | being like the hardware | one-shots are honest, triggers centred; a caller cannot tell the generators apart |
| Tools, `tools/server.py` | a session | one tool per call | MCP | - | each is one call of the session |
| Lenses, `analysis/describe.py classify.py spectrum.py` | none | pure functions | used by the session | noise, clipping, few samples | what they say of a frame is true of the signal |
| Noise and synthesis, `noise.py synth.py` | a random generator | pure functions | used by tests | floating point | - |

The Python side is single-threaded and serves one call at a time; concurrency is between
it and the instruments: commands are written without waiting, instruments act on their own,
and answers may be late or missing.

## Modules

| Module | Models | Built on |
|---|---|---|
| `CaptureStore` | the store: one action per operation | |
| `FrameArchive` | what the store's docstring promises, without labels, sizes and ids | |
| `ScopeAcquire` | `acquire()`, the DS1054Z driver's part in it, and the instrument | |
| `ScopeAcquireProofs` | the theorems about `acquire()` | `ScopeAcquire` |
| `ScopeSession` | the session and the loops over the store | `CaptureStore` |
| `ScopeSessionProofs` | the store's and the session's theorems | `CaptureStore`, `ScopeSession` |
| `Converge` | the numbers of the loops: scales, offsets, levels, timebases on both scopes | |
| `ConvergeProofs` | the theorems about the loops' numbers | `Converge` |
| `ScpiStream` | the raw socket under the DS1054Z driver's readouts, poll and depth change | |
| `ScpiStreamLemmas` | what is on the socket, whatever happens: types, whole replies, how many lines | `ScpiStream` |
| `ScpiStreamProofs` | framing, frames and depths on the socket, and what a timeout leaves there | `ScpiStreamLemmas` |
| `SimScope` | the simulated scope under `acquire()` and direct calls, with the lenses on its frames | `Lenses` |
| `SimScopeProofs` | the theorems about the simulated scope | `SimScope` |
| `Lenses` | the feature vector of a waveform and the verdict on it | |
| `SignalGenLink` | the JDS6600 driver on its line, next to the simulated generator | `SignalGenCodes` |
| `SignalGenCodes` | the limits of a channel's settings and the codes that stand for them | |
| `SignalGenLinkProofs` | the theorems about the generator's line | `SignalGenLink` |
| `Harness` | the stimulus driver, the USB line, the firmware's main loop and the player | |
| `HarnessProofs` | the theorems about the stimulus board | `Harness` |
| `Patterns`, `Decoders` | the pattern generators; thresholding and the UART, SPI and I2C decoders | |
| `HarnessCommands` | from a driver's call through its line to the command the firmware parses | |
| `HarnessDecode` | call, play, capture, decode | `HarnessCommands`, `Patterns`, `Decoders` |

`MC...` modules give the constants of the runs.  `MCBench` puts three parts that are computation
next to each other, `SimScope`, `Converge` and `HarnessDecode`: they share nothing, so a behaviour is one of
theirs while the other two stay in a state they start in.  Operators that stand directly above the
definition they vary (`FitsSlack`, `SingleAsRun`, `SnapDown`, ...) are faulty variants of it;
nothing uses them.  Put in place of the definition each makes one property fail, which is
how we know that the property depends on that code.

### CaptureStore

`entries` is the dict `_entries`, as a function from the number N of each resident handle
`cap-N`; `counter` is `_counter`.  `issued` (which frame put returned a handle for) and
`reply` (what the last call answered) are history, so that properties can speak of what a
caller was told.  `put` has three outcomes: too large at all (`PutOversized`), no room next to
the kept frames (`PutRefused`, which has evicted the working frame by then) and `PutStored`.  A
reference resolves as in `_resolve`: latest, then a handle, then the newest with that label.
Strings are pairs, `<<"cap", n>>` for cap-n, so that a label may or may not look like a handle.

### ScopeAcquire

The host's program counter follows `acquire()` from reply to reply; `wire` holds the commands
that are written and not executed.  The instrument is external: it executes in order, is
busy for up to `Realloc` ticks after a depth change, lets run control take effect within
`Latency` ticks, and acquires on its own meanwhile (`Fire`, `AutoFrame`, `Rearm`).  A record in its
memory carries the number of the call whose vertical and trigger setup it was taken under;
this is what the properties compare.  Ticks pass only when the instrument has nothing to do
at that instant, so its delays are real bounds.  Nothing says that they are short: an instrument may
be slower than every wait of the host.  `late` is history: the arm wait ran out, or the
settling latency of a free run was over, while the instrument still had commands of this call to carry out.

### ScopeSession

Extends `CaptureStore`: an acquisition is a `Put`, and everything that happens inside
one is `ScopeAcquire`.  A loop is a sequence of acquisitions; which frames clip, count as
triggered or leave nothing to adjust is given by constant sets.  `Where` is
`store or CaptureStore()`: the caller's store, one of the loop's own, or one of its own because
the caller's is empty and so falsy.  A loop's own store begins empty, so only the fate of its
frames matters and it is not kept as state.

### Converge

One loop per behaviour, on one signal and one channel.  `want` is the setup the loop
computes with, `applied` the one the instrument took: the same on the simulated scope, snapped
to 1-2-5 steps and clamped on the DS1054Z.  `JudgeCapture` is the frame as `judge_capture` sees it,
triggered or not: a DS1054Z that is read while it runs may say either.  `Suggest` and `Recommend` compute the next setup.  Voltages are whole steps of 10 uV, times of 10 ns.
The tone of a frame is its distance from the nearest multiple of the sample rate, which is where
an FFT has its peak; that the peak stands out of the noise is assumed.

### ScpiStream

`wire` holds commands that are written and not executed, `stream` the bytes of replies that are
not read.  A byte is a piece of framing (`hash`, `len`, `end`), a line's text, or one sample; it
carries the query it answers for the properties only, since nothing on the socket says so.
Sample bytes may have the value of a newline.  `ReplyIn` is `_recv_line` and `read_definite_block`
as functions of what has arrived: a reply, an error, or "wait".  `Timeout` takes what a read had
consumed and leaves the rest.  `job` is the driver's call between two replies: page, channel,
count.  The instrument is external, with its start and stop points, its runs and one-shots.

### SimScope, Lenses

A signal is one period of its wave, tick by tick.  The variables are the attributes of
`SimulatedScope` (`_status` is `status`, `_single_pending` is `pending`) and the place of
`acquire()`.  Everything is computed at the call, so a step is a call.  Noise is drawn from a few
fixed patterns.  `Describe` computes edges, periodicity, levels, crest and the dense views from
the samples, in integers; the spectral features (flatness, dominant tone) may be anything, so what
is checked holds whatever the FFT says.

### SignalGenLink, SignalGenCodes

An operation is a script of transactions (`Script`), each one line out and one line in or
a timeout.  Settings are finer than the codes they are rounded to, and are checked first
(`Legal`).  `Lose` loses a line on its way; `Cut` lets the timeout strike in the middle of an
answer; a line that is executed after the driver gave up leaves its answer in `inbox`, which
only `connect()` empties.  `sim` is the simulated generator, which gets the same operations
(`SimDo`) when they return.

### Harness

The driver is as above.  The main loop alternates between `TopUp` (the inner loop that packs
words until the FIFO rejects one, which is held over as `pending`) and `Serve` (one line), while
`Play` clocks samples out of the shift register on its own.  A sample is known by its load and
its index, so seamlessness can be stated sample by sample.  Names in the model are the
firmware's: `active`, `index`, `pending`, `buffer`.

### Patterns, Decoders, HarnessCommands, HarnessDecode

The generators produce the pattern sample for sample, as sets of the lines that are high.
The decoders are the code's, written with recursive functions over sample indices.  A call goes
through the driver's checks, its line (`LineOf`) and the firmware's `Parse`; `asked` is what the
caller wanted and `playing` what comes out, so a property compares the decoded frame with the
call.  Frames of other framings come from another sender (external).  The scope in between is
external too: a window that starts anywhere, another sample rate, and a first sample after an
edge that may read anything from low to high.

## Runs

| Run | Module, cfg | What it asks | States |
|---|---|---|---|
| `store` | `MCCaptureStore`, `MCCaptureStore` | all interleavings of the store's operations | 59 000 |
| `store_label_handle` | `MCCaptureStoreLabelHandle` | does a handle ever answer with another frame? | finding |
| `acquire` | `MCScopeAcquire`, `MCScopeAcquire` | freshness, coherence and delivery of frames; calls end | 100 000 |
| `acquire_slow_depth` | `MCScopeAcquireSlowDepth` | can a one-shot return the previous acquisition? | finding |
| `acquire_free_run` | `MCScopeAcquireFreeRun` | is the frame of a free run always fresh? | finding |
| `session` | `MCScopeSession`, `MCScopeSession` | loops and one-shots on a shared store | 181 000 |
| `session_empty_store` | `MCScopeSessionEmptyStore` | is a loop's final frame in the caller's store? | finding |
| `scpi_stream` | `MCScpiStream`, `MCScpiStream` | framing, paging, timeouts and a closed connection | 2 360 000 |
| `signal_gen_link` | `MCSignalGenLink`, `MCSignalGenLink` | operations over a line that loses, delays and cuts | 333 000 |
| `signal_gen_stale_pair` | `MCSignalGenLinkStalePair` | is the other channel's output ever disturbed? | finding |
| `harness` | `MCHarness`, `MCHarness` | player, firmware and host together | 103 000 |
| `bench` | `MCBench`, `MCBench` | is the simulated scope honest, are the lenses right, where do the loops end, is what is asked for what is decoded? | 175 000 |

### What they show

A name in brackets after others is the property the run checks, the conjunction of them.

`store`.  `HandleStable`: a call that names `cap-N` acts on the frame put returned it for, or raises,
whatever was evicted, dropped or relabelled, with one exception: once that frame is gone, a frame somebody
labelled `cap-N` answers.  `store_label_handle` is that exception against the docstring.
`ImplementsArchive`: apart from it the store is the archive of its docstring.  `KeptNeverSilentlyLost`: a kept frame goes
only by `clear` or by a `drop` that names it.  `RefusalIsHonest`: the frame a put
refuses is too large for the budget, and nothing changed; or every kept frame is still there as it was, nothing
else is, and that very frame does not fit next to them.  `WithinBudget`, `OneWorkingFrame`.  Four
frames of 1 to 4 units against a budget of 3 give pairs that fit, pairs that do not and a
frame that never does; four puts are enough for a kept, an evicted, a promoted and a new frame at
the same time.  One of the two labels is the text of a handle.

`acquire`.  `FrameHonest` has four parts.  `OneShotFresh`: all channels of a one-shot were acquired under this
call's setup and by its trigger, although stop, run, depth change, trigger setup and single are written in one go
and the run that the depth change needs leaves acquisitions behind.  `OneShotTriggered`: its status is that of a
captured frame.  `FreeRunFresh`: a free run was acquired under this call's setup.  These three hold of calls the
instrument was in time for (`InTime`), whatever any earlier call left behind.  `Coherent`: the channels of a deep read are one
acquisition, in time or not and in any sweep; those of a one-shot that was in time are one even without a stop.
`EventDelivered`: an event that is in memory when the last poll is
answered is returned.  `CallEnds`.  The second call meets
whatever the first left: armed, running, stopped, refused half-way, or still on the wire.  The constants keep the order of the
code's times: the settling latency (1 tick for 0.02 s) is shorter than the arm wait (2 for 1 s) and that than the
trigger wait (3); a depth change may take 3 ticks, longer than either of the first two, as the several seconds of
`raw_tcp.py:22` are; run control takes effect within one.  So every wait runs out in some behaviours and none in
others.  What is handed over when it did is in the findings `acquire_slow_depth` and `acquire_free_run`.

`session`.  `ResultBelongsTogether`: the frame, the setup and the claim of convergence that a loop
returns are of one and the same acquisition, the last.  `OneShotsStay`: a one-shot kept by the
default policy is not evicted by later acquisitions or loops.  `FinalFrameInUsedStore`: the handle a loop returns finds the
frame in the store it was given (with `ResultBelongsTogether`: `FinalFrameRight`).  `LoopEnds`.  Two frames
(usable, clipped) and bounds of one widening and one adjustment reach every way out of each loop.

`signal_gen_link`.  For an operation that finds no answer owed on the line: it leaves the other
channel's output alone (`QuietOutputUndisturbed`), when it returns the generator has what it
wrote and what it read is there and the line is in step (`QuietAcknowledgedMeansDone`).  `OperationEnds`.  `AgreesWithSimulated`: read back through encoding, registers and
decoding, the JDS6600 has what the simulated generator has, to half a step of the code, at the
limits too.  Two operations suffice for one to leave something behind and the next to find it;
lines are lost anywhere and one answer is cut anywhere.

`harness`.  `Seamless`: whatever is served meanwhile, the pins show a sample and then its successor,
across FIFO rejections and the end of the buffer; a new load starts at its first sample and never
goes back.  `LoadedAppears`, `StopsEventually` (`CommandsTakeEffect`), and `QuietAcknowledgedMeansDone` as above, with
lost replies, one late answer, the bootloader and reopening.  Words of two samples with
patterns of three and four wrap both within and between words.

`scpi_stream`.  `InStep`: as long as no read timed out, a reply that is read answers the query that
waits, at every byte.  `NeverStale`: a frame of a connection in step has no
sample or status of an earlier call, and after one timeout the connection jams or raises: no call returns
a frame until it is opened anew, if replies are two lines at most.  `DeepWhole`: a deep capture has every sample of one
record, every channel, once and in order, with pages that come short and start/stop points left
from page to page; `ScreenWhole` the same for a screen read after a deep one.  `StatusFits`: the
status a deep capture reports is of a moment before its own stop.  `DepthTaken`: no illegal depth
reaches the instrument and it finds it running.  `NoDeafWait`: no read waits for bytes that are
not coming.  (`Framed` is `InStep` and `NoDeafWait`; `FrameRight` is `DeepWhole`, `ScreenWhole` and
`StatusFits`.)  Records of three samples in pages of two make a full and a partial page, two channels a
switch; three calls are enough for a first to fail, a second to meet its remains and a third to
meet those.

`bench`, the simulated scope.  `OneShotHonest` says what `acquire()` makes of two tests that do not agree, whatever was
called before.  A one-shot is a miss only if the level is outside the signal's range, and a frame only if it
is inside.  That frame is triggered, unless the search for the crossing may fail (`Elusive`): the signal is on
one side of the level for less than a sample, or needs longer than the two windows searched to come back.  Then
the frame is handed over and kept all the same, with the status of a scope that still waits; see the findings.  `TriggerCentred`: a triggered frame has the crossing at
its centre, if the delay is a whole number of samples (otherwise the trigger position falls between two).  `SquareIsDigital`, `SineIsNoSquare`: squares are triaged digital, clipped or
noisy; sines only if the same frame is judged clipping (`TriageRight`).  `EdgesRight`, `PeriodRight`: edges and
period are the signal's, under noise of up to a tenth of the swing; `ViewsComplete`: the dense views have every sample once (`FeaturesRight`).  Six signals and
setups from a third of a period to ten of them on the screen, clipped on either side or not.

`bench`, the loops.  From any of 18 vertical setups, three timebases, both loops on both scopes end with the
signal on screen (`NothingCut`), filling a fifth of it at least (`FillsScreen`), with the level
inside the signal (`TriggerOnSignal`) and at least 2.5 samples per period (`Sampled`; together `EndsUsable`), although
the DS1054Z takes another setup than the loop computes with, and its frames may say that they did not trigger.  Zooming in on a signal that the frame
resolves (`Resolved`: four codes of it) never clips where the instrument takes the offset
that was asked for (`ZoomStaysInView`).  Signals are from 0.1 to 60 Vpp at midlines from -1.5 to 25 V.  `Centrable`
in `EndsUsable` excludes what the DS1054Z cannot centre; see the limits below.

`bench`, the lines.  UART, SPI and I2C patterns decode to what was asked for, for 14 window starts, three
bauds, three sample rates and slow edges; calls that the driver or the firmware refuses change
nothing (`UartRight`).  `FramesRight`: four framings of 5 to 9 bits, with and without parity, inverted
or not, back to back, with a right or wrong parity bit (`SerialRight`).  `SquareRight`: period and high time are
those asked for, to the samples rounding drops (with SPI and I2C: `PatternsRight`).  I2C still decodes at one scope sample per five
of the player's and no longer at one per seven.

### Findings

- `acquire_slow_depth`: `_acquire_triggered` ignores the result of the arm wait.  If the depth change
  takes longer than that, the old STOP satisfies the trigger wait and the previous acquisition is
  returned and kept as the new one-shot.  `acquire.py:157` says it cannot be.
- `acquire_free_run`: the free run sleeps one window and 0.02 s from when RUN is written.  If the depth change
  takes longer, the frame is that of an earlier setup.  `acquire.py:173` says it is fresh.
- `store_label_handle`: a frame labelled `cap-1` answers for the handle `cap-1` once that frame is evicted.
  `store.py:11` says that a stale reference can only fail.
- In `bench`, by `OneShotHonest`: a one-shot of the simulated scope whose level is in the signal's range but
  whose crossing is not found (a constant of 60 at level 60, a square that changes less than once in two windows)
  is completed by the range test and delivered with `triggered=False`, a stored and kept frame.  `loop.py:82` and
  `acquire.py:9` say that a missed trigger returns none.
- `session_empty_store`: `store or CaptureStore()` replaces a store that is empty, so the final frame of
  a first loop is not in the caller's store.  `loop.py:15` says it is addressable there.
- `signal_gen_stale_pair`: after a timeout a late answer is taken for the current output pair, and
  the other channel is set back.  `signal_generator.py:61` says it is not disturbed.

### Fairness

| Run | Assumed | Why |
|---|---|---|
| `acquire` | host steps, execution of commands, run control, automatic frames, ticks (weak) | the host polls in a loop, the instrument executes what it got, time passes; nothing makes the signal trigger |
| `session` | steps of a running loop (weak) | a loop is a `while` over calls that end (`CallEnds`) |
| `signal_gen_link` | the driver's read (weak) | the port has a read timeout; nothing makes the generator execute or the line deliver |
| `harness` | main loop, player, host's answer or timeout (weak) | the firmware never blocks, the PIO clocks on its own, the port has a read timeout |

The harness and generator runs turn the deadlock check off because calls are
bounded: an idle system may stop.

## Proofs

`ScopeSessionProofs`, about the store, for every set of frames, sizes, budget and labels:

| Theorem | Says |
|---|---|
| `StoreInvariant` | `Spec => []StoreInv`, the inductive invariant |
| `BudgetRespected`, `WorkingFrameUnique` | its consequences `WithinBudget`, `OneWorkingFrame` |
| `KeptFramesStay`, `RefusalsAreHonest` | the action properties of the run |
| `HandlesAreStable` | `HandleStable` of the run, whatever the labels: what answers for a handle is its frame, or one labelled like it |
| `StoreImplementsArchive` | the store implements `FrameArchive`, whatever the labels |
| `StoreTypes` | `TypeOK` of the run |

`StoreInv` is the type invariant (resident numbers are issued numbers, none above the counter)
with `EntriesFaithful` (an entry has the frame its handle was returned for, and one that fits
the budget on its own), `OneWorkingFrame` and `WithinBudget`.  The parts need each other: that
a put leaves no second unkept entry needs the counter to be above every resident number, so
that it adds an entry and overwrites none; that handles are stable needs what resolves to be
what was issued.  `resident_bytes()` is the
cardinality of a set with one element per byte, so that the sum needs no recursion;
`AddedBytes` and `RestrictedBytes` bound what adding and deleting entries does to it.

The archive is asked by the gets of a handle that its own frame answers, or nothing
(`AsksArchive`); a get that a label answers is none of its questions.

About the session, the module shows that the store's invariant holds of it and its budget is kept, in any sequence of
loops and calls (`SessionStoreInvariant`, `SessionBounded`), and that one-shots kept by default stay (`EventsSafe`).  The latter needs `EventsInv`: such handles were
issued, and their entries, while resident, are kept.  `FinalFramesRight` is `FinalFrameRight` of the
run: the frame, the setup and the claim of convergence a call returns are of one acquisition, and
its handle finds it in the caller's store.  It needs `LoopInv`: between two steps of a loop the
frame it goes on with was taken under the setup reached by then, and is in the store it was given.
`SessionTypes` is `SessionTypeOK`.

`ConvergeProofs`, for every signal, every setup a caller starts from, a probe of up to 50 and any bounds of the loops:

| Theorem | Says |
|---|---|
| `ConvergeInvariance` | `Spec => []ConvergeInv`, the inductive invariant |
| `ConvergeTypes` | `LoopTypeOK` of the run; the DS1054Z only ever gets a step of its grid |
| `ZoomInView` | the action property `ZoomStaysInView` |

`ConvergeInv` has the types; `TriesBounded`, the widenings and adjustments by the place the loop is at; `JudgesItsSetup`,
that the frame is of the setup the loop computes with, as the instrument took it; and `SuggestedOnFrame`,
that what is tried next was suggested on that frame.  The last is what `ZoomStaysInView` is about: it
relates the frame after a step to the suggestion made on the one before.  `SnapFacts` bounds what the driver
makes of it: the nearest step is no less than the scale that was asked for, or no less than 1/1.581 of it.  Six tenths of
the screen grow to 19/20 of it by that, a reading is off by half a code (`Codes`), and a signal of four codes has room for both
(`FromMidline`, `FitsTheGrid`).  A step that keeps the scale that was asked for keeps what the instrument
took as well, so what was in view is (`SameRails`).

`ScopeAcquireProofs`, for every number of channels and every length of the waits, the window, the lag and the depth change:

| Theorem | Says |
|---|---|
| `TypeInvariant`, `TypesHold` | every variable has its type, however slow the instrument is |
| `FramesAreHonest` | `FrameHonest` of the run, with no assumption on how the times compare |

That a frame was armed by its own call is a race between the host's waits and the instrument, which may
start with the commands of an earlier call still to execute.  `HonestInv` follows the commands of a call by how many the instrument has
executed (`WireInv`, `Script`; fewer than none while it works on what was left before), and what each of them has done by then
(`SetupInv`, `ControlInv`).  Once SINGLE is executed the scope is arming, hunting or stopped with this call's
record, and nothing an earlier call left can be taken for it (`ArmInv`).  Either the host sees it armed, or the wait runs out with
everything carried out, or the call is `late`; in the first two cases `TriggerInv` says what may be there, and the
record stays until the last channel is read (`ReadInv`, `Caught`).  For a free run `SleepInv` weighs what is left of
the sleep against what is missing of the window being filled: unless the call is `late`, the window begins
while the sleep is still longer than it.  That is where `Settle > 0` is needed.  `DeepInv` is about late calls as well: a
deep read looks at a stopped scope only, because its STOP is executed before the first waveform is answered.

`SignalGenLinkProofs`, for all settings, waveforms and legal calls, any number of operations and lost lines:

| Theorem | Says |
|---|---|
| `LinkInvariant` | `Spec => []Inv`, the inductive invariant |
| `TypesHold` | `TypeOK` of the run, no more lines under way than operations |
| `OtherOutputStays` | the action property `QuietOutputUndisturbed` |
| `AcknowledgedMeansDone` | the action property `QuietAcknowledgedMeansDone` |
| `GeneratorsAgree` | `AgreesWithSimulated` |

`Inv` has the types and, for an operation that found the line quiet, `HeadInv` and `QuietInv`.
While it waits (`Owed`), its line is lost, or written and not executed, or executed and answered;
every write before it is in the registers, every read before it is what is there, and the output pair it has
read is unchanged until its own line is executed.  That is what makes reading one
register and writing both channels' flags safe.  `HeadInv` says the last of a line that is still
there when its operation has given up.  Once the timeout has cut an answer (`Broken`) nothing more is
claimed of that operation.  `SureInv` relates the two generators: where no operation failed, the
registers are the codes of what the simulated one has stored, except the one being written; that a
code decodes to within half a step is arithmetic on `Encode`.

`ScpiStreamLemmas` and `ScpiStreamProofs`, for every number of channels, page size, screen, record
lengths, depths and placement of newlines among the samples:

| Theorem | Says |
|---|---|
| `StreamTypes`, `TypesHold` | bytes, commands and calls are well formed, in step or not; `TypeOK` of the run |
| `LineInvariant` | `Spec => []LineInv` |
| `StreamFramed` | `Framed`: in step until a read is given up; never a wait for nothing |
| `FramesRight` | `FrameRight`: deep and screen frames are whole, the status of its time |
| `DepthReached` | `DepthTaken` |
| `NothingStale` | `NeverStale`: in step a frame answers its own call, and one timeout jams the connection |

The types say more than their name: every block on an open connection is followed by its announced number
of bytes and a newline, behind whatever an abandoned read has left of the replies before (`Whole`,
kept by `Rest` when a read takes bytes off the front).  With `Complete`, that a call
whose query was executed has a last byte waiting that ends a line, a read that waits has a query to come:
`NoDeafWait`, although any sample may look like a newline.  `InTurn` is `InStep` made
inductive: while a call waits either its query is the last command and the only query on the wire, or the
bytes that came are a prefix of one line or one block (`LineShape`, `BlockShape`).  `FrameInv` then says, for each query, what its
read may find, by how much of what was sent with it is executed: `StatusFit`, `RateFit`, `PreambleFit`, `DataFit`.
A deep read is right for its pages not by their sizes but by their sum: what was read is all of the record
up to the page, or shorter for good (`DeepFit`), which the count at the end finds.  A screen read
needs that no reader leaves a stop point below the screen (`Stops`), which is so when no record is shorter.
`DepthInv` and `DisplayInv` say that a depth on the wire is behind a RUN or finds the scope running, and
that the channels counted so far are those displayed.

`NeverStale` is about a connection that is out of step, of which the invariants above only say that what is
on it is well formed.  So `LagInv` counts: `Lines` are the newlines among the bytes that came and what is behind the
last, `Asked` the queries on the wire, and `Load` the lines their replies may have at most.
The read that was given up leaves one line or two besides the one a call waits for (`Overdue`), and every call
after it reads one line for each query it sends, so this stays: at least one, and the connection never catches up; at
most two, and a call that asks for its status, its rate and its preamble finds, at best, its own status where the
preamble should be, which does not parse (`Lags(2)`, `Lags(1)`, `Lags(0)`).  The two bounds need each other
and the order of the late replies before the own ones (`Behindhand`); a line that is read is one less
(`LineRead`), a block with one newline among its samples two at most (`BlockLines`), and a connection that is cut
only loses lines (`LinesOfPart`).  `LagInv` was checked by TLC before it was proved, on an instance with one channel
and six calls (2.1 million states).  While the connection is in step `OwnInv` says that
what a call has read answers that call.

That a reply has two lines at most (`FewNewlines`: no two samples of a record have the value of a newline) is needed.
Without it TLC finds, with one channel, `RawChunk = Screen = 3`, `Records = {}`, `MemoryDepths = <<{}>>`,
`Switched = {}`, `Newlines = {1, 2, 3}`, `MaxFrames = MaxWire = 0` and one timeout, twelve calls of which the last
returns the screen of an earlier one: each failed call in between reads more lines than it asks for.
With eleven calls there is none.

`HarnessProofs`, for all patterns, word sizes, FIFO depths and bounds:

| Theorem | Says |
|---|---|
| `Invariance` | `Spec => []HarnessInv`, the inductive invariant |
| `TypeInvariant` | `TypeOK` of the run; nothing reads outside a buffer |
| `PinsAreSeamless` | the action property `Seamless` |
| `AcknowledgedMeansDone` | the action property `QuietAcknowledgedMeansDone` |

That the pins go on where they were is a statement about one step, and not inductive: which
sample the shift register pulls was decided when its word was packed.  `Chained` says it of the
whole way a sample takes: where the shift register ends, the first word of the FIFO goes on;
where a word ends, the next one does; where the last one ends, the word that the loop packs or
holds over does; and at each of these joints a later load may begin instead, at its start
(`Continues`).  A pull shortens the chain at one end, `Fill` extends it at the other, a load exchanges its
last joint; the lemmas on `Wrap` say that positions add up modulo the length of the buffer,
whether or not it divides by the size of a word.  `LoadsCounted` gives each load a call, which is
what bounds the loads in `TypeOK`.  `QuietInv` says what is on the line while an operation waits that found it quiet:
its command, or its own reply with the command carried out, or, when that is lost, nothing.

`SimScopeProofs`, for every signal, noise, setup and record length, and any sequence of calls:

| Theorem | Says |
|---|---|
| `Invariance` | `Spec => []SimInv`, the inductive invariant |
| `TypeCorrect` | `TypeOK` of the run |
| `Honest` | `OneShotHonest`: miss or frame by the range test, triggered unless the level is elusive |
| `Centred` | `TriggerCentred` |

`SimInv` has the types; `Configured`, that a setup was made before `acquire()` waits under it; and `Waits`, what each
wait may find: while it waits to be armed the one-shot is pending and the status WAIT, and afterwards nothing is pending
and the status is STOP if and only if the signal reaches the level.  So the way out of the second wait is decided
by the signal and not by how often was polled.  `Handed` and `Noisy` say that what is returned is a frame,
with noise from among `Noises`.  The other half of `OneShotHonest` is about the search for
the crossing: wherever the window begins, a level that is not `Elusive` is crossed between
two neighbouring samples of the two windows, for the signal is above the level for one stretch of its period.  `TriggerCentred` then is
arithmetic: the trigger position is one of the samples, the crossing lies between it and the sample before, and
noise and clipping do not take a sample to the other side by more than the noise.

Assumptions: the named ASSUMEs of `Harness` (no pattern is empty, word and FIFO sizes are positive),
of `CaptureStore` (the budget is a number, every frame has a size,
labels are texts, frames are not exceptions), of `ScopeAcquire` (times and bounds are numbers, the waits and the settling latency are not zero), of
`SignalGenCodes` and `SignalGenLink` (frequencies and amplitudes are limited to whole steps of
their codes, settings are settings and waveforms are numbers, and one answer is cut at most, as in
the run), of `Converge` (the probe ratio is at most 50, for which 10 V per division is the last step of the grid;
a signal's levels are numbers in order and its period is not zero; setups are setups), of `ScpiStream` (sizes are positive numbers, switched channels are channels, a
page holds a screen: 250000 samples against 1200), and of `SimScope` (an even number of samples on the screen, as
the code's 1200; waves are numbers between their low and their high; a wave is above each trigger level for one
stretch of its period, as sines and squares are).

Only model-checked: liveness (`CommandsTakeEffect`, `CallEnds`, `EventDelivered` and the like), which is
beyond the prover's temporal reasoning with fairness; what the recursive functions of `Decoders` and
`Patterns` compute, which would need induction over data; the lenses on a frame of `SimScope`, whose sums over
samples would need it too (`TriageRight`, `FeaturesRight`), and which tell the shapes
of given signals apart; and `EndsUsable` of `Converge`, as how many steps a loop needs depends on the signal it
meets, and those its bounds cut short are among the limits below.

## Limits found while modelling

True of the code, outside what the runs assume or check:

- A small signal on a large bias (0.2 Vpp on 25 V at 10x) cannot be centred by the DS1054Z, whose offset
  is limited to 2 V times the probe ratio below 0.5 V/div: `capture_until_usable` zooms in,
  clips, zooms out, until its iterations run out (`ds1054z.py:345`, `adjust.py:54`).  `bench` has
  such signals; `EndsUsable` excludes them by `Centrable`, `ZoomStaysInView` by the offset the instrument took.
- Loops that start far below the signal's size (20 mV/div for 60 V) use up the eight doublings.  Signals
  below one step of the digitiser look flat and are left as they are; one of fewer than four steps is known too
  badly to be centred, and can clip when the loop zooms in on it (`adjust.py:60`).  A signal that is undersampled
  is recognised between 2 and 2.5 samples per period; beyond that it is aliased and looks fine.
- A screen read of a running scope may take its channels from different acquisitions, although
  `model/capture.py:1` calls a capture the result of one acquisition; the status is read before the waveforms
  (`ds1054z.py:241`).  So `Coherent` is about deep reads and one-shots.
- `adjust.py` says that under AUTO a frame always reports triggered; the status of a running DS1054Z may be RUN or WAIT, and then a
  level that is inside the signal is moved to its midline as well (`adjust.py:82`).
- A late `:ok` acknowledges a later write that was lost (`jds6600.py:178`); the `OK` that
  `reboot_to_bootloader` does not read acknowledges the next command (`serial_harness.py:114`,
  `main.rs:198`).
- UART patterns of 38400 baud and more play fast by the rounding of samples per bit and decode wrongly; below
  about 1710 baud the frame does not fit the buffer and is cut off, and the command is still
  answered OK (`pattern.rs:45`, `pattern.rs:62`).  A square wave below 122 Hz plays at 122 Hz, and a duty
  below one sample of the period is a flat line, also answered OK (`pattern.rs:53`).
- STOP leaves the pins at the last sample of the
  last word, which may be low, although `firmware/README.md:33` says the line idles high.
- After two reads that timed out, or after one whose reply had three lines, a connection that is not reopened
  can be one whole call behind and hand over a stale screen frame; `scpi_stream` has one timeout, and replies of
  two lines (`raw_tcp.py:48`).
- A value read from the JDS6600 loses its last digits when the timeout strikes in its answer
  (`jds6600.py:169`).  A frequency below 5 mHz is written as zero, and `read_channel` then raises.
- The simulated generator raises when a channel is switched that was never configured and keeps the
  built-in shape next to an arbitrary slot; the JDS6600 does neither.  `stop()` of the simulated
  scope leaves an armed one-shot pending: it polls STOP and then WAIT (`scope.py:119`).
- Digital needs a duty of about 0.22 to 0.78: an SPI select or a UART line that is mostly idle is
  triaged otherwise.  A sine with four samples per period or fewer can look square
  (`classify.py:74`).
- A chip select that is low throughout the window has no swing to threshold and reads as high, so no
  words are decoded (`scope_session.py:218`, `spi.py:76`).

## Not modelled

Noise and synthesis (no state but a random generator's); the numbers of the spectrum, which are
left open; value objects; JSON conversion in the tools, each of which is one call of the session;
`autoscale()` and `force_trigger()` of the DS1054Z, one write each that the session never makes; the
VISA transport, framed by its library; the RP2040 target, which only repeats one byte, and the
clock divider functions; keywords, case and spacing of the firmware's command lines and its
128-byte line buffer, far longer than any line the driver sends; ties in rounding; several channels
in `Converge`, whose adjustments are independent of each other except for the trigger's source;
the front panels.

## Plan

Modules in the order of their importance: the store (what is captured must stay addressable),
acquire (what is stored must be what was asked for), the session over the store, the
lines to the generator and the stimulus board, the decoders, the numbers of the loops, the
scope's socket, the simulated instruments and the lenses.  These exist, and all but the decoders and the lenses have
theorems.  Next:

1. Theorems still to state: from which setups and for which signals the bounds of the loops suffice for `EndsUsable`.
2. `autoscale()` and `force_trigger()` in `ScopeAcquire`, once the session calls them.
