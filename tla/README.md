# Verification of the SoapyRPITX transmit path

TLA+ models of SoapySDR_rpitx (a SoapySDR driver that transmits I/Q samples from
a Raspberry Pi GPIO pin), checked with TLC and, where a property should hold for
every size and bound, proved with TLAPS. Line numbers refer to the commit the
models were written from; paths without a directory are under `src/src/`.

## The system

An application thread calls `writeStream()`. The samples go through a lock-free
FIFO to a **feeder thread** that wakes every millisecond and moves them into a
ring of DMA control blocks. The **DMA engine** executes the ring on its own, paced
by a hardware clock; the feeder only sees the engine's slot modulo the ring. A
**control thread** (the SoapySDR control API, serialised by `device_mutex`) starts,
stops, retunes and configures the transmitter. An **exit handler** may stop it at
any moment.

```
 writeStream ──> tx_streamer::send ──> Write ──> SpscFifo ──> feeder ──> DMA ring ──> engine
 readStreamStatus ──> counters                                  ^  ^        |
 control API ── device_mutex ── Start/Stop/setters ─────────────┘  |     position
                     └── Retune ── tuneMutex, tuneCv ──────────────┘ <──────┘
 exit handler ── running := false, registers

 process ── flock, record ── lock file ── recovery by the next process, or by rpitx_reset
 writeSetting, setters, profiles ── device ── Retune ── transmitter ── PLL, pacing clock
```

### Inventory

| Component | State | Operations | What is hard | What makes it correct |
|---|---|---|---|---|
| Sample FIFO `SpscFifo` (`SoapyRPITX_Buffers.hpp`) | storage, head, tail, limit | push, pop, clear, setLimit | three threads, no lock; the limit moves below the fill | it is a bounded queue; no slot is used by both sides |
| Ring tracker `DmaRingTracker` (`SoapyRPITX_Buffers.hpp`) | read, write and scrub position, last slot | update, writable, advanceWrite, resync, scrubRange, markScrubbed | position known modulo the ring; stalls of more than a lap | exact position; writes and scrubs never touch live slots |
| Transmitter `SoapyRPITX_IQ_dmaSync` | FIFO, tracker, ring, replay buffer, drain state, pre-roll, advance, counters | Write, EndBurst, Start, Stop, WaitDrained; the feeder's period: retune, advance, prefix, poll, scrub, pump, start, pad, drain | four actors; retune in mid-burst; engine faults; a slow feeder; restarts | nothing lost or reordered; drained means quiet; no stale slot; liveness |
| Retune handshake (`Retune`, `FeederLoop`) | request, sequence numbers, result, `running`, `feederExited` | submit, take, publish, withdraw | lost and spurious wake-ups, timeout against a late take, exit handler | device and transmitter agree; calls return |
| Stream calls (`SoapyRPITX_Streaming.cpp`) | `tx_stream`, `streamPtr`, `streamHandle`, `streamCalls`, `closing`, `endBurstPending` | set up, activate, deactivate, close, write, read status | calls without the mutex against close; a drain without the mutex | no use after close; only the open stream transmits; close returns; the last burst is played |
| Hardware claim, exit handlers (`SoapyRPITX_HardwareClaim`) | `g_hardwareClaimed`, session | claim, release, emergency stop | register writes beside the feeder | one owner of the hardware |
| Session (`SoapyRPITX_Session.cpp`), recovery tool (`rpitx_reset.cpp`) | lock file, record, and outside it: memory block, DMA channel, pins | take lock, recover, publish, clear, unlock | a kill between any two steps, in a recovery too; torn or failed writes; other users of memory and channel; forked children that keep the lock | no foreign memory freed, no orphan unnamed, an idle machine is as it was found |
| Clock tree (`gpio.cpp`) | sources of the VPU, EMMC, EMMC2 and GPCLK0 clocks, PLLC, pacing clock | save, move off PLLC, tune, restore | each is a sequence of register writes that a kill may cut | no storage or processor clock on a modulated PLL; sources switched only while stopped |
| Settings and profiles (`SoapyRPITX_Settings.cpp`, `SoapyRPITX_Profile.hpp`) | configuration of the device, of the transmitter and of the clocks; profile | setters, `writeSetting`, `LoadProfile`, `setupStream`, `Retune` | three copies of one configuration; refusals, timeouts and drift half way; order of the calls | all or nothing; the copies agree; every state reached can be produced |
| Amplitude and phase of a slot (`SoapyRPITX_Amplitude.hpp`, `dsp.cpp`, `GetMasterFrac`) | ladder of states, quantiser errors, envelope history, phase and carry | `Rebuild`, `nearest`, `quantize`, `pushSample`, `push`, ... | rounding and saturation accumulate over slots | errors stay bounded, no phase is lost |
| Envelope words (`WriteDataSlot`, `RefreshModel`, `ApplyPendingEnvAdvance`) | words of the ring, advance in force and wanted, limit | write ahead, publish, apply, pad | words for slots already executing; a new advance over an old ring | the words of a slot are its sample's, or off; none changes while it executes |
| Sensors, registration, tools, tests | – | – | – | outside these models |

`PROJECT.json` lists every component with its status, and 40 hazards at the line
where each bites.

## Modules

| Module | Models | State and actions against the code |
|---|---|---|
| `BoundedQueue` | what the FIFO promises | `queue`, the batch offered, the batch taken |
| `SpscFifo` | the FIFO, one action per shared access | `PushLoad`, `PushLimit`, `PushCopy`, `PushStore`; `PopLoad`, `PopCopy`, `PopStore`; `ClearLoad`, `ClearStore`; `SetLimit` |
| `DmaRingTracker` | the tracker, as operators on a record | `Update`, `Writable`, `AdvanceWrite`, `Resync`, `ScrubBegin`/`ScrubEnd`, `MarkScrubbed` |
| `Transmitter` | producer, control thread, feeder, engine; uses the tracker and the promise of the FIFO | one action per section of `FeederLoop()` between two points where another thread can matter: `FeederTop`, `RetuneBegin`, `RetuneRebuild`, `FeederAdvance`, `FeederFill`, `Poll`/`PollBad`, `PumpReplay`/`PumpFifo`/`PumpDone`, `FeederStart`, `FeederStarve`, `PublishDrain`, `FeederExit`; `Start()` and `Stop()` are split at the FIFO's clear and at the join |
| `RetuneHandshake` | `Retune()`, the feeder's side of it, `Start()`, `Stop()`, `EmergencyStop()` | a program counter per thread; predicates, blocking, wake-up and relocking of the condition variable are steps of their own |
| `StreamCalls` | the stream calls; the transmitter reduced to what `Transmitter` promises | a program counter for the control thread, for each data-path call and each `deactivateStream()`; the shared pointer's references as the sets `alive` and `held` |
| `SessionRecord` | session, recovery tool, exit and signal handlers, and the world around: other VideoCore clients, another DMA user, forked children | a program counter per process from `TakeLock` over `RecoverDma` ... `RecoverClear` and `Claim`, `Allocate`, `Publish`, `SaveClocks`, ... to `Unlock`; `Crash` at any of them, `CrashInWrite` in the middle of a `pwrite` |
| `ClockTree` | the clock tree, as operators that give the sequence of register writes of each reprogramming | `AdvanceWrites`, `TuneWrites`, `RestoreTree`, ...; `SessionRecord` takes the writes one at a time (`ClockWrite`) |
| `SettingsTransaction` | the control calls that change the configuration, `CheckTune()` and `ApplyTune()` | `Begin` (copy, parse, validate), `TuneDevice` or `CheckTune` and `Retune`/`RetuneRefused`/`RetuneUnanswered`, `Commit`, `Return`; `Construct`, `SetupStream`, `CloseStream`; `NtpDrifts`, `FeederStops` |
| `ClockPlan` | the arithmetic behind refusals: divider search, pacing divisor, ring length, advance | operators; one per function of the code |
| `EnvelopeWords` | where the words of a slot go; extends the tracker | `Publish`, `Refresh`, `Poll`, `PadAhead`, `PumpLimit`, `PumpWrite` (one slot), `PumpDone`, `Retune`, `Execute` |
| `SlotWords` | what the words say | operators on records: `AmpStates`, `Nearest`, `Quantized`, `Inverted`, `Pushed`, `Delayed`, `AngleDiff`, `PushSample`, `PhaseStep` |
| `SpscFifo_proofs`, `DmaRingTracker_proofs`, `Transmitter_proofs`, `RetuneHandshake_proofs`, `StreamCalls_proofs`, `SettingsTransaction_proofs`, `EnvelopeWords_proofs`, `SessionRecord_proofs` | theorems | – |
| `MCSpscFifo`, `MCTransmitter`, `MCRetuneHandshake`, `MCStreamCalls`, `MCSessionRecord`, `MCSettingsTransaction`, `MCEnvelopeWords` | values of the constants; `MCEnvelopeWords` also compares the operators of `SlotWords` with what they stand for | – |

How they compose: `SpscFifo` is shown to implement `BoundedQueue`; `Transmitter` takes
the queue as given (its content is the interval between its two counters) and
extends `DmaRingTracker`; `StreamCalls` takes from `Transmitter` that queued samples
are played in order and that `WaitDrained()` tells the truth; `RetuneHandshake` takes
only that `FeederRetune()` applies a tune or restores the one in effect, which is
the contract of `ApplyTune()`; `SettingsTransaction` models that contract and takes from
`RetuneHandshake` that a call gets the answer of its own request or none of it was
applied. `SessionRecord` runs the writes of `ClockTree`; `EnvelopeWords` moves the tracker
of `DmaRingTracker` with a reduced period of the feeder, and `SlotWords` says what the
words contain whose place it decides.

What is abstracted. In `Transmitter` a slot holds the number of the sample slot
written to it, or 0 for idle: numbers are enough to see loss, reordering,
repetition and stale content. Amplitude words, frequencies and registers are left
out. Time is counted in slots executed by the engine: at most `MaxLag` between two
polls of the feeder, at most `BusyLag` while it acts on a poll. The expected
distance `update()` gets is the true one with an error up to `Skew`. `Write()` is
one step per round of its loop. In `StreamCalls` a call writes one sample.

In `SessionRecord` a record is a function of its lines (`Lines`), the fields that are written
and read together being one line. A torn write leaves the first lines of the new text over
the old one (`Mixed`), which may be shorter or longer: lines below may have moved or been
cut through, and a record that grows has overwritten the old end marker before its own is
there. A record is shorter than a page; a tear inside a line is the loss of that line, and
numbers that are put together from two texts are not modelled. There is one DMA channel. Of the clock tree only sources, run
bits and "as found or as programmed" remain. `tainted` marks what no recovery could
repair, a write that failed or was torn at the pins, a record judged implausible, a step
of the recovery that failed, and the invariants of the session are stated for the rest;
one such fault may happen in a run, next to two kills. `loose` marks a recovery that
could not map the channel's registers and left it running; every slot the channel executes
(`EngineWrites`) writes pin, pads and PLLC's multiplier, so that clocks put back afterwards
run from a modulated PLLC. `NeverModulated` is stated outside `loose` only, not outside all of
`tainted`. `RecordPlausible()` also compares
register fields, and `cm_pllc_clients()` knows further sources on PLLC; neither is
modelled beyond what `Plausible` and `FedByModulated` say. `g_hardwareClaimed` repeats
the lock within one process and is left out.

In `SettingsTransaction` `envelope_delay` stands for the amplitude settings, `gain` for
those applied live; frequencies, rates and corrections are small integers. `clock`
holds the PLL and the pacing clock as they were last programmed, each with the correction
of that moment, and the corrections their drivers go on computing with: those are two
things, which a refused `ApplyTune()` may leave apart. `AfterRefusal` takes its three ways to
fail one after the other: before the corrections are set, at a check after that, and at
the pacing clock, with the PLL on the new frequency already. The last one is a fault of
the hardware, which passed a check a few lines above; `RetuneRefused` may meet it any time.
One branch of the code is not there because no state reaches it: the one that restores the
tune after a refused amplitude (`StreamFits` shows that `Valid` has refused it before).
The NTP estimate may drift between `CheckTune()` and `ApplyTune()`, so that a retune
that passed the precheck can still be refused, which the comment at
`SoapyRPITX_IQ_dmaSync.cpp` 969 does not expect, but it is then rolled back. The dry run of
a profile checks the stream arguments' syntax; what depends on the rate is left to
`setupStream()`, as in the code. A file's owner and permissions are one flag, and
files do not change while they are read.

In `EnvelopeWords` a word is the position of the sample it belongs to. In `SlotWords`
floating point is replaced by integers: amplitudes in parts of `Full`, angles in parts of
`Turn`, angles of the PLL `harmonic` times finer. The envelope floor, the constant envelope
and the gain and offset of the envelope DAC are left out.

## Runs

Each takes from seconds to about two minutes with two workers.

| Run | Configuration | Bounds, and why they are enough |
|---|---|---|
| `fifo` | `MCSpscFifo.cfg` | storage 3, batches up to 2, 5 elements pushed: the ring wraps, batches straddle the end; limits 0, 2 and 4 lie below, inside and above the storage |
| `transmit` | `MCTransmitter.cfg` | ring of 8, two slots per sample, a FIFO of one sample, two samples; one retune and one engine fault at any point, so that a recovery follows or precedes a retune with slots in the replay buffer |
| `restart` | `MCTransmitterRestart.cfg` | two starts, one retune and one change of the advance between 0 and 1 |
| `stall` | `MCTransmitterStall.cfg` | `MaxLag` 9 on a ring of 8, `Skew` 3 (the most below half a ring): a stall of more than a lap with the worst clock error |
| `live` | `MCTransmitterLive.cfg` | one sample, one retune, two starts, under `FairSpec` |
| `handshake` | `MCRetuneHandshake.cfg` | three requests of two configurations, two starts, one engine recovery, one exit |
| `streams` | `MCStreamCalls.cfg` | two streams, two activations, one writer, one reader, one deactivating thread, one refused call |
| `session` | `MCSession.cfg` | one driver, one recovery tool, two handles, storage clocks on PLLC, two kills (a process, then its recovery), one fault; `CrashAfterFree` FALSE leaves out the one place `doc_free` is about |
| `settings` | `MCSettings.cfg` | two callers, fourteen requests that cross each limit of the small clock plan, three profile files (one malformed, one with a key twice and unknown keys), two values of the NTP estimate |
| `words` | `MCEnvelopeWords.cfg` | ring of 8, advance 0 or 1, guard 3, chunks of 2, two samples queued, nine positions: one lap and the start of the next; the clock is wrong by up to one slot either way |

What they show:

* `fifo`: `ImplementsQueue` (refinement), `NoDataRace`, `FillBounded`.
* `transmit`: `Accounted` (nothing lost, duplicated or reordered between FIFO, replay
  buffer and ring), `DrainedMeansQuiet`, `ResendBounded` (a retune sends at most one slot
  again, an engine error at most `BadPollLimit` periods).
* `restart`: `DrainedMeansQuiet` over restarts, `StartsWithPrefix` and `AdvanceAtBoundary`.
* `stall`: `TrackerFollows`, `NothingStale`, `Accounted`.
* `live`: `AllPlayed`, `DrainReported`.
* `handshake`: `Agree`, `CallsReturn`.
* `streams`: `NoUseAfterClose`, `OnlyOpenTransmits`, `BurstPlayed`, `CloseReturns`, `DeactivateReturns`.
* `session`: `NeverFreesForeign` (no step gives back memory another client owns), `NoStrayDma`
  (the channel never runs control blocks in free or foreign memory), `OrphansNamed` (a
  dead process leaves no block that no complete record names, but where the documentation
  says so: before the record of the allocation, after that of the release, and when a record
  that grows is torn, whose block the recovery keeps for want of an end marker, README 1026), `IdleMeansOriginal` (free lock and empty record: clocks and pin are
  as found, whatever died, a recovery included), `NeverModulated` and `SwitchedStopped`
  (hold between any two register writes; the first also says that the channel of the dead
  process is stopped before the clocks go back to PLLC).
* `settings`: `AllOrNothing`, `NoLostUpdate`, `Reachable` (frequency and harmonic fit each
  other and the divider search finds a divider, in whatever order they were set),
  `StreamFits` (the open ring carries rate and delay in force), `DeviceMatchesTransmitter`,
  `HardwareMatches` (PLL, pacing clock and the corrections they are computed with, after
  retunes refused at any step of `ApplyTune()`).
* `words`: `WordsPlaced`: every slot to come has its own sample's words or none. It covers
  the padding that `RefreshModel()` skips by applying the advance itself and dropping the
  result (589; the comment at 1375 expects padding): that costs words, which are counted,
  and misplaces none; how many words are lost is the subject of no property. `ExecutingUntouched`: the slot being executed keeps its words, while
  the engine is behind the writer; it rests on the assumption that between
  `UpdateBehindLimit()` and the last word written under it the engine executes fewer
  slots than the guard. The assumptions of `MCEnvelopeWords` (`StatesSorted`,
  `NearestIsClosest`, `CodeInverts`, `HistoryReadsBack`) compare `SlotWords` with
  reference definitions over small tables; the run evaluates them.

`CHECK_DEADLOCK FALSE` is set wherever the system may stop: every sample played,
every bounded count used up. The FIFO always has an enabled step.

### Where code and documentation disagree

Two runs check a sentence of the documentation and find it violated.

* `doc_restart` (`DrainedMeansQuiet` with `CalmRestart` FALSE): `Start()` clears the FIFO
  and then reads the push count (856). A `Write()` still in its loop may push in
  between; from then on `WaitDrained()` returns with that many samples unplayed.
* `doc_free` (`NeverFreesForeign` with `CrashAfterFree` TRUE): the recovery frees the block
  (`SoapyRPITX_Session.cpp` 409) before its caller clears the record (554). Killed in
  between, it leaves a handle in the record that another client may have by the time
  the next recovery frees it, which `SoapyRPITX_Session.hpp` 137 says "is never attempted".

Six more statements are definitions of the modules that no run checks. Each can be
seen violated by adding it to the configuration named:

* `NeverReplaysLap` (`Transmitter`, `MCTransmitterStall.cfg`): README 953 promises silence,
  "never a replay of the previous lap", when the feeder stalls. Slots that were not
  complete at the last scrub are executed again when the stall exceeds a lap.
* `LateMeansStalled` (`Transmitter`, `MCTransmitter.cfg`): `late` is documented as a sign of a
  stalled feeder. A sample that arrives between `PumpData()` and the start decision
  starts the engine on its idle prefix, and the engine overtakes a prompt feeder.
* `Accounted` (`Transmitter`, `MCTransmitter.cfg` with `BusyLag` 1, that is, a feeder preempted for
  one slot between its poll and its writes): README 950 and `SoapyRPITX_IQ_dmaSync.hpp` 272
  have an overrun detected and counted in `late`. After a start on
  the idle prefix alone, as above, a poll may find one slot left and pass; the engine then
  reaches the writer before the write, the sample lands behind the engine, is scrubbed as
  if it had been executed, and nothing counts it. It takes a feeder
  preempted at that place; the runs have `BusyLag` 0.
* `DirectAlone` (`RetuneHandshake`, `MCRetuneHandshake.cfg`): the comment at
  `SoapyRPITX_IQ_dmaSync.cpp` 976 takes `running` = false for "the DMA is stopped"; after
  `EmergencyStop()` the feeder is still at work.
* `HardwareFreeAfterClose` (`StreamCalls`, `MCStreamCalls.cfg`): README 452 promises free
  hardware right after `closeStream()`, also while another thread is in
  `deactivateStream()`. That thread keeps a reference until it returns.
* `KilledIsSilent` (`SessionRecord`, `MCSession.cfg`): README 1003 has the signal handler leave
  the carrier off; it does not stop the feeder (84), which may start the engine again
  (1345) before the signal, raised once more, ends the process.

## Fairness

* The feeder's steps: weak fairness. The loop runs on an absolute deadline.
* The engine: strong fairness of `EngineStep`. The pacing clock runs all the time, but
  the lag limits enable the step only in part of the feeder's period, so weak
  fairness would let the feeder run around an engine that never moves.
* The pre-roll timer, and a `Start()` or `Stop()` that began: weak fairness.
* No fairness for the producer, for requests of the operator and for faults; `AllPlayed`
  holds with a producer that never returns.
* `RetuneHandshake`: weak fairness of each thread's own steps; strong fairness for
  acquiring a mutex, which is held for a few instructions at a time. `Timeout` is part
  of the waiting thread's steps; a wake-up from the second wait is not assumed, only
  that of a notification.
* `StreamCalls`: weak fairness inside calls, strong fairness for the mutex; no fairness
  for the timeouts of `writeStream()` and `readStreamStatus()`, which the application may
  set to a day. `CloseReturns` rests on `MaxRefused`: an application that keeps calling
  with a dead handle from several threads may keep `streamCalls` above zero at every
  look of `closeStream()`.
* `SessionRecord`, `SettingsTransaction` and `EnvelopeWords` have safety properties only and
  assume no fairness: a process may die for good, a call may be refused.

## Proofs

All for arbitrary constants within the named assumptions (`FifoAssumption`,
`RingAssumption`, `TransmitterAssumption`, `HandshakeAssumption`, `StreamAssumption`,
`WordsAssumption`, `ClockPlanAssumption`, `PllRangeAssumption`, `SettingsAssumption`,
`DefaultAssumption`, `SlotWordsAssumption`, `SessionAssumption`, `FoundAssumption`,
`ClockAssumption`). Those that are more than types, and what in the code justifies them:

* `TransmitterAssumption`: the idle prefix fits the ring (a ring has at least 512 slots, an
  advance is at most an eighth of it), the guard at most a quarter of it.
* `PllRangeAssumption`: the range of carriers is the one the divider search covers, and a
  divider of two is allowed; `DefaultAssumption`: the defaults are legal values.
* `FoundAssumption`: the firmware leaves GPCLK0 stopped and, on a board without a generator
  for it, no EMMC2 clock on PLLC.
* `WordsAssumption`: clock error and preemption during a chunk stay below the guard, and the
  guard below the ring (the code takes a quarter of it at most). The first is an assumption
  about the system; without it `ExecutingUntouched` is false.

* **FIFO** (`SpscFifo_proofs`). `IInv` adds to the types: the counters are ordered and at
  most the storage apart; the copy of a push fits beyond what is not yet popped and
  is complete up to its index; the copy of a pop lies in what is published and
  agrees with the storage; what a clear saw is between the counters. Without the
  copies' parts the publishing stores could publish anything. `FifoFillBounded`,
  `FifoNoDataRace` and `FifoImplementsQueue` follow; in the last, `PushStore` maps to `Accept`,
  `PopStore` to `Take`, `ClearStore` to `Discard`, a new push to `Offer`, all else stutters.
* **Tracker** (`DmaRingTracker_proofs`). `UpdateExact`: with an expected distance off by less
  than half a ring, `update()` gives the engine's absolute position after any number
  of laps. `WritesStayClear`: what `writable()` grants shares a ring slot with the executing
  one or one still to be executed only when the ring is empty, and then it is the first slot
  of the grant; the feeder meets that ring with the engine stopped, or resynchronises first.
  `ScrubStaysBehind`: what `scrubRange()` yields never does.
* **Transmitter** (`Transmitter_proofs`), for every ring, level, chunk, pacing and any number of
  retunes, faults, stops and starts. The invariant grows in layers, each a conjunct with
  a step lemma of its own, and each was checked by TLC on four configurations before it
  was proved:
  `TypeOK`; `TrackInv` (the remembered slot is the remembered position modulo the ring,
  the distance since the poll is the counted lag), with which `UpdateExact` applies at the
  next poll; `ControlInv` (which flags go together at each point of the period), `DistInv`
  (how far the engine may be past the tracked position), `SpaceInv` (what lies outside
  `rd` to `wr` is idle, once scrubbed) and `LastInv` (`lastDataPos` is beyond every data slot).
  Together they are `PlaceInv`. Steps are sorted by what they do to the ring: `IdleWrite`,
  `DataWrite` (`Replays` from the replay buffer, `Takes` from the FIFO), a reset, or nothing.
  * `TransmitterSilences` and `TransmitterAdvances` follow from `PlaceInv`; `TransmitterStarts`
    needs `PrefixInv` (the idle prefix is there until the first data slot is).
  * `TransmitterAccounts`: `PathInv` says of the ring followed by the replay buffer that the
    numbers are ascending (`Ordered`), none is beyond the last one taken (`Below`), and
    from any number on all later ones are there (`Gapless`). `Accounted` alone is not inductive:
    a step may lose a sample in the middle only if a gap was possible before.
  * `TransmitterDrains` adds `DrainInv`: what a published count promises at each point of
    the feeder's period, for the producer that pushes meanwhile.
  * `TransmitterResends` adds `NearInv` (the engine is no further past a data slot than it
    moved since the last good poll) and `ResendInv`, which counts what earlier faults have
    spent.
  Three hypotheses appear, each with a reason. `ShortStalls \/ NoRebuild`: a stall of more
  than a lap and a rebuild of the ring do not come together. In the code the feeder asks for a
  rebuild after five bad polls of 1 ms, on a ring of at least 10 ms, so that a feeder
  on time satisfies `ShortStalls`; otherwise the engine may execute a slot of the lap before
  once more and the rebuild take it for unplayed. `[]WriterAhead`: the engine does not reach
  the writer between a poll and the writes after it (the remark on `Accounted` above is
  what happens otherwise). `CalmRestart`, for `TransmitterDrains` only: `doc_restart` is its
  counterexample. None of them follows from the code alone, and the theorems name them.
* **Handshake** (`RetuneHandshake_proofs`). `RetuneAgrees` from `HInv` = types, `FlagInv` (who holds
  the mutex, when `running` and `feederExited` can be trusted), `SeqInv` (one request under
  way, and how far it is) and `TuneInv` (what is in effect at each stage).
* **Stream calls** (`StreamCalls_proofs`), for any number of readers, deactivating threads
  and streams. `CallsUseLiveStream` and `OnlyOpenStreamTransmits` from `SInv` = types, `CountInv`
  (`streamCalls` is the number of calls not outside, so a close that reads zero finds no
  call), `DeviceInv` (what handle and pointer are worth at each point of a control call:
  a handle is there only while its stream is), `CallInv` (a call that passed its check
  has the open stream, and keeps it) and `ActiveInv` (no other stream transmits).
  `CountInv` is not a safety property one would ask for, but without it `CloseReset`
  could drop the stream under a call. `BurstsArePlayed` needs `BInv` besides: `QueueInv` (no more
  gone than queued), `EndInv` (`endBurstPending` is set whenever a running transmitter's last
  write ended a burst, and the writer clears it only after a write that went on with
  one) and `MarkInv` (what a waiting deactivation has to see played is queued; it is played
  or discarded once the transmitter is stopped). `MarkInv` is kept by whatever other threads
  do between the two locked parts, as nothing ever takes samples back out of `gone`.

* **Settings** (`SettingsTransaction_proofs`), for any callers, requests, profile files and
  clock constants. `IInv` = `Exclusive` (only the holder of the mutex is in a call, and what
  it keeps is the configuration when it took it), `Progress` (what is done of its call at
  each point) and `Consistent` (device, transmitter and clocks agree, also in the middle
  of a call). That a refusal keeps it is `RefusalRestores`: from a clock that follows the
  transmitter (`Following`: programmed for its tune with the correction in use), `AfterRefusal`
  gives that clock back, because the corrections are set back before the PLL is
  programmed again. `CallsAreAtomic`, `DeviceFollows` and `ClocksFollow` are its consequences,
  `SettingsKept` a consequence of a step: `AllOrNothing` alone is not inductive, because a
  refused call has to know that nothing was done since its copy. `StreamCarries` needs
  `FInv` besides, by the same case split: rate, slots and ring of an open stream fit each
  other, as do the values a call is about to commit. `FrequencyReachable` and
  `SettingsTypes` need `RInv`: what is in force, and what a call is about to put in force,
  is in range and fits the harmonic. It is kept because frequency and harmonic are only
  ever taken together and `Valid` looks at the two as they will be. That a divider is found
  for each is arithmetic on `\div`; the facts about `%` and `\div` it uses are in
  `DmaRingTracker_proofs`.
* **Slot words** (`EnvelopeWords_proofs`). `NearestState`: the search of `nearest()` gives a state
  at the least distance, on any ladder. `FirstOrderTracks`: an error within half a gap of
  the ladder stays so and grows by what the slot was too weak, so that the sum telescopes.
  `AngleDiffShortest`, `GapMadeUp`: samples below the gate cost no phase. `PhaseCarried`,
  `PhaseSettled`: what the PLL cannot realise is carried over exactly and, when one
  correction can make up for it, stays below one step. `HistoryShifts`: the ring of
  `SoapyRPITX_EnvelopeDelay` is a shift register. They are statements about one call, and
  say what a sequence does as far as they telescope; induction over a sequence is out of
  the prover's reach.

* **Place of the words** (`EnvelopeWords_proofs`), for every ring, guard, chunk, advance and
  stall. `WInv` = types, `Tracked` (a poll gives the engine's position, by `UpdateExact`),
  `PeriodInv` (a stopped engine's ring is empty until the prefix is there), `RoomInv` (a chunk
  fits the room it was granted until its last slot is written), `NewestInv` (no slot holds a
  sample at or beyond `lastDataPos`) and `LimitInv` (until the chunk is written the limit
  stays ahead of the engine). `RingSteps` sorts the steps by what they do to the ring, and
  `WordsInPlace` is inductive together with `WInv`: `NewestInv` is what makes a change of the
  advance safe at the boundary, and nothing in it depends on the limit, so words are in
  place even when the feeder is preempted for longer than assumed. `WordsUntouched` is a
  consequence of a step, by `LimitInv`.
* **Session** (`SessionRecord_proofs`), for any number of drivers, tools, handles, deaths and
  faults. `IInv` follows a block from allocation to release (`MemInv`: a driver owns what
  its record names; `FileInv`: what the file says at each program counter; `NamedInv`,
  `OrphanInv`: what no living process owns is named by the file or known to be lost;
  `DmaInv`: what the channel may execute; the lemmas on
  `Torn` say what each tear keeps of the old text, its end marker included or lost) and the machine through every single register
  write (`PinInv`, `RegsInv`: what differs from the state found has a process or the file
  that will put it back; `FitInv`: at each point the restoration of any record that exists
  could begin, with a channel that still writes PLLC or without; `PlanInv`: the writes a process has still to do are legal one by one and
  lead to the tree they were planned for). `PlanInv` is what makes the proof independent
  of the lengths of the sequences: a kill cuts one anywhere, and what is left still has
  to be safe to start from. `SessionTypes`, `NoStray`, `BlocksNamed`, `IdleOriginal`,
  `StorageClocksSafe` and `SwitchStopped` follow. `ForeignKept` holds for `CrashAfterFree` FALSE,
  the case `doc_free` leaves out. TLC checked all parts on `MCSession.cfg` but `PlanInv`,
  which quantifies over all trees.

Only model-checked: all liveness properties (fairness is outside the prover's
reach). Every safety property of the passing runs has a theorem.

## Not modelled

The text of settings, profiles and records (they are keys, values and lines here),
rounding of floating point, register access, the mailbox protocol, board revision and device tree,
discovery and sensors, sample conversion and direct buffer calls, and the Python tools.
`readStatus()` reads three counters one after the other and compares their sum with what
it reported; its event count is not modelled, nor are the statistics other than `late`.

## Plan

Done: 1. FIFO, 2. tracker, 3. transmitter, 4. retune handshake, 5. stream calls,
6. their proof, 7. envelope words and the operators of a slot, 8. session, clock tree and
recovery tool, 9. settings, with proofs for the last and for the slot, 10. proofs of the
transmitter's safety properties, of the session's, of the settings' types and `Reachable`,
of the place of the words and of `BurstPlayed`.

11. Event counters of `readStreamStatus()`: no event reported twice, none lost.
