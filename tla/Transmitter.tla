----------------------------- MODULE Transmitter -----------------------------
(***************************************************************************)
(* SoapyRPITX_IQ_dmaSync: the producer that queues I/Q samples, the feeder  *)
(* thread that moves them into the DMA ring every millisecond, the DMA      *)
(* engine that executes the ring, and the control thread that starts,       *)
(* stops, retunes and changes the envelope advance.                         *)
(*                                                                         *)
(* Data.  The x-th sample pushed fills K slots, numbered (x-1)*K+1..x*K; a  *)
(* ring slot holds such a number or 0, an idle slot.  The FIFO is the       *)
(* bounded queue SpscFifo implements, so its two counters are its content.  *)
(* `replay` is what is left of the replay buffer, in the same numbers.      *)
(* Amplitude words, frequencies and statistics not named below are left     *)
(* out.                                                                     *)
(*                                                                         *)
(* Time.  The engine executes at most MaxLag slots from one poll of the     *)
(* feeder to the next, and at most BusyLag between the poll and the end of  *)
(* what the feeder does about it; the slots that fill the pacing FIFO after *)
(* a start come on top.  A run that lets MaxLag exceed the ring lets the    *)
(* feeder stall for laps.  The pre-roll wait is one nondeterministic step.  *)
(***************************************************************************)
EXTENDS DmaRingTracker, Sequences

CONSTANTS
  K,             \* slotsPerSample
  Guard,         \* guardSlots()
  LowBase,       \* max(n / 8, rate / 200) of the low-water mark
  Margin,        \* the 16 slots added to advance and guard there
  Pacing,        \* pacingLevelFor(): words of the pacing FIFO
  Preroll,       \* slots of signal that start the engine
  FifoCap,       \* usable capacity of the FIFO, in samples
  Chunk,         \* chunk.size()
  BadPollLimit,  \* kBadPollLimit
  Advances,      \* envelope advances the control thread asks for
  MinBatch, MaxBatch,  \* samples offered by one Write()
  MaxLag, BusyLag,     \* slots executed per feeder period, per pump
  Skew,          \* error of the expected distance, in slots
  CalmRestart,   \* TRUE: Start() never overlaps a Write()
  \* bounds
  MaxSamples, MaxRetunes, MaxChanges, MaxFaults, MaxStarts, MaxPos

ASSUME TransmitterAssumption ==
  /\ {K, Guard, LowBase, FifoCap, Chunk, BadPollLimit, MinBatch, MaxLag} \subseteq Nat \ {0}
  /\ {Margin, Pacing, Preroll, MaxBatch, BusyLag, Skew, MaxSamples,
      MaxRetunes, MaxChanges, MaxFaults, MaxStarts, MaxPos} \subseteq Nat
  /\ Guard =< N \div 4 \/ Guard = 1
  /\ Advances \subseteq 0..N \div 8 /\ 0 \in Advances
  /\ \A a \in Advances : Pacing + 1 + a =< N - 2
  /\ CalmRestart \in BOOLEAN
  /\ 2 * Skew < N /\ BusyLag =< MaxLag

VARIABLES
  head, tail,    \* samples pushed to and popped from the FIFO
  wpc, left,     \* the producer in Write(), samples it still has to queue
  endBurst,      \* the burst end was signalled
  active, running, restart,  \* flags of Start() and Stop(), where they are
  tune,          \* a retune request waits for the feeder
  published,     \* advance of the model the setters published, or NoModel
  want, adv,     \* advance asked for last, and in effect (envAdvance)
  padNow,        \* advanceChanged: pad before the next samples
  fpc,           \* where the feeder is in its period
  trk, ring,     \* the tracker, and the content of every slot
  lastData,      \* lastDataPos: one past the last data slot written
  prefix,        \* idlePrefix
  replay,        \* slots to write again after a retune
  inBurst, firstQueued, waited,
  badPolls,
  consumed,      \* consumedTotal
  drained,       \* drainedPush: the push count everything was played up to
  on, eng, lag,  \* the engine: running, its absolute slot, slots since the poll
  fault,         \* "stopped" by itself, or "lost": its position is invalid
  sent,          \* history: last data slot executed
  late, underflows,
  retunes, changes, faults, starts   \* bounded counts of environment steps

fifoV  == <<head, tail>>
prodV  == <<wpc, left, endBurst>>
flagV  == <<active, running, restart, starts>>
tuneV  == <<tune, retunes>>
envV   == <<want, adv, padNow>>
pubV   == <<published, changes>>
ringV  == <<trk, ring, lastData, prefix>>
burstV == <<inBurst, firstQueued, waited>>
drainV == <<consumed, drained>>
engV   == <<eng, lag, fault, sent>>
statV  == <<late, underflows>>
vars   == <<fifoV, prodV, flagV, tuneV, envV, pubV, fpc, ringV, replay, burstV,
            badPolls, drainV, on, engV, faults, statV>>

NoModel    == -1
NotDrained == -1

(* Target fill of the ring, and the fill below which idle slots are added. *)
Target == (N * 3) \div 4
Low    == Smaller(Target, Larger(LowBase, adv + Guard + Margin))

IdleRing == [s \in 0..N - 1 |-> 0]

(* The ring after WriteIdleSlot() on positions from..to-1. *)
Silenced(r, from, to) ==
  [s \in 0..N - 1 |-> IF \E p \in from..to - 1 : RingSlot(p) = s THEN 0 ELSE r[s]]

(* The ring after the slots in seq were written from position pos on. *)
Filled(r, pos, seq) ==
  [s \in 0..N - 1 |->
     LET i == ((s - pos) % N) + 1 IN IF i =< Len(seq) THEN seq[i] ELSE r[s]]

(* PadIdle(level) on a tracker and a ring. *)
PadRing(t, r, level) == Silenced(r, t.wr, t.wr + Writable(t, level))
PadTrk(t, level) == AdvanceWrite(t, Writable(t, level))

(* ResetRing() *)
ResetRing ==
  /\ ring' = IdleRing
  /\ trk' = Rewound
  /\ lastData' = 0
  /\ prefix' = 0

Init ==
  /\ head = 0 /\ tail = 0
  /\ wpc = "idle" /\ left = 0 /\ endBurst = FALSE
  /\ active = FALSE /\ running = FALSE /\ restart = "no" /\ starts = 0
  /\ tune = "none" /\ retunes = 0
  /\ published = NoModel /\ changes = 0
  /\ want = 0 /\ adv = 0 /\ padNow = FALSE
  /\ fpc = "exited"
  /\ trk = Rewound /\ ring = IdleRing /\ lastData = 0 /\ prefix = 0
  /\ replay = <<>>
  /\ inBurst = FALSE /\ firstQueued = FALSE /\ waited = FALSE
  /\ badPolls = 0
  /\ consumed = 0 /\ drained = NotDrained
  /\ on = FALSE /\ eng = 0 /\ lag = 0 /\ fault = "none" /\ faults = 0
  /\ sent = 0
  /\ late = 0 /\ underflows = 0
-----------------------------------------------------------------------------
(* Producer thread *)

(* Write(), up to the loop: the end of the previous burst no longer counts. *)
WriteBegin ==
  /\ wpc = "idle" /\ active
  /\ left' \in MinBatch..MaxBatch
  /\ head + left' =< MaxSamples
  /\ endBurst' = FALSE
  /\ wpc' = "push"
  /\ UNCHANGED <<fifoV, flagV, tuneV, envV, pubV, fpc, ringV, replay, burstV,
                 badPolls, drainV, on, engV, faults, statV>>

(* One round of its loop: push what fits, then return or wait for space.   *)
(* The wait is not followed by a new look at `active`.                     *)
WritePush ==
  /\ wpc = "push"
  /\ LET m == Smaller(left, FifoCap - (head - tail))
     IN  /\ head' = head + m
         /\ \/ wpc' = "idle" /\ left' = 0
            \/ m < left /\ active /\ wpc' = "push" /\ left' = left - m
  /\ UNCHANGED <<tail, endBurst, flagV, tuneV, envV, pubV, fpc, ringV, replay,
                 burstV, badPolls, drainV, on, engV, faults, statV>>

EndBurst ==
  /\ wpc = "idle" /\ active
  /\ endBurst' = TRUE
  /\ UNCHANGED <<fifoV, wpc, left, flagV, tuneV, envV, pubV, fpc, ringV, replay, burstV,
                 badPolls, drainV, on, engV, faults, statV>>
-----------------------------------------------------------------------------
(* Control thread *)

RequestRetune ==
  /\ running /\ active /\ tune = "none" /\ retunes < MaxRetunes
  /\ tune' = "pending"
  /\ retunes' = retunes + 1
  /\ UNCHANGED <<fifoV, prodV, flagV, envV, pubV, fpc, ringV, replay, burstV,
                 badPolls, drainV, on, engV, faults, statV>>

(* SetAmplitudeConfig() and PublishModel() *)
PublishModel ==
  /\ changes < MaxChanges
  /\ published' \in Advances
  /\ changes' = changes + 1
  /\ UNCHANGED <<fifoV, prodV, flagV, tuneV, envV, fpc, ringV, replay, burstV,
                 badPolls, drainV, on, engV, faults, statV>>

(* Start(), up to the clear of the FIFO ... *)
StartClear ==
  /\ ~active /\ restart = "no" /\ fpc = "exited"
  /\ starts < MaxStarts
  /\ CalmRestart => wpc = "idle"
  /\ starts' = starts + 1
  /\ tail' = head
  /\ sent' = head * K
  /\ restart' = "cleared"
  /\ UNCHANGED <<head, prodV, active, running, tuneV, envV, pubV, fpc, ringV, replay,
                 burstV, badPolls, drainV, on, eng, lag, fault, faults, statV>>

(* What the count of consumed samples starts from: the push count, read     *)
(* after the clear.  (Mutated: the count of the previous start goes on.)    *)
Baseline_Kept == consumed
Baseline == head

(* ... and from that reading on.                                           *)
StartRun ==
  /\ restart = "cleared"
  /\ restart' = "no"
  /\ consumed' = Baseline
  /\ drained' = NotDrained
  /\ replay' = <<>>
  /\ endBurst' = FALSE
  /\ late' = 0 /\ underflows' = 0
  /\ inBurst' = FALSE /\ firstQueued' = FALSE /\ waited' = FALSE
  /\ badPolls' = 0
  /\ want' = (IF published = NoModel THEN want ELSE published)
  /\ adv' = want' /\ padNow' = FALSE
  /\ published' = NoModel
  /\ ResetRing
  /\ running' = TRUE /\ active' = TRUE
  /\ fpc' = "top"
  /\ UNCHANGED <<fifoV, wpc, left, starts, tuneV, changes, on, engV, faults>>

StopBegin ==
  /\ active
  /\ active' = FALSE /\ running' = FALSE
  /\ restart' = "stopping"
  /\ UNCHANGED <<fifoV, prodV, starts, tuneV, envV, pubV, fpc, ringV, replay, burstV,
                 badPolls, drainV, on, engV, faults, statV>>

(* Stop() once the feeder is joined: queued samples are discarded.         *)
StopFinish ==
  /\ restart = "stopping" /\ fpc = "exited"
  /\ restart' = "no"
  /\ drained' = NotDrained
  /\ on' = FALSE /\ eng' = 0 /\ lag' = 0 /\ fault' = "none"
  /\ ResetRing
  /\ tail' = head
  /\ sent' = head * K
  /\ replay' = <<>>
  /\ tune' = "none"
  /\ UNCHANGED <<head, prodV, active, running, starts, retunes, envV, pubV, fpc, burstV,
                 badPolls, consumed, faults, statV>>
-----------------------------------------------------------------------------
(* Feeder thread *)

(* ApplyPendingEnvAdvance() may act: nothing written with the advance in    *)
(* effect is still to be played.  (Mutated: the ring is not looked at while *)
(* the engine runs, or before it starts.)                                  *)
AtBurstBoundary_NoRing ==
  IF on THEN head = tail /\ replay = <<>> ELSE lastData = 0
AtBurstBoundary_Stopped ==
  ~on \/ (head = tail /\ replay = <<>> /\ trk.rd >= lastData)
AtBurstBoundary ==
  IF on THEN head = tail /\ replay = <<>> /\ trk.rd >= lastData
        ELSE lastData = 0

(* ApplyPendingEnvAdvance() with advance w pending.  The idle prefix that   *)
(* was sized with the old advance goes.  (Mutated: it stays.)              *)
ApplyAdvance_KeepsPrefix(w) ==
  /\ adv' = w
  /\ UNCHANGED ringV
ApplyAdvance(w) ==
  /\ adv' = w
  /\ IF ~on /\ prefix # 0 THEN ResetRing ELSE UNCHANGED ringV

KeepAdvance == UNCHANGED <<adv, ringV>>

FeederExit ==
  /\ fpc = "top" /\ ~running
  /\ fpc' = "exited"
  /\ UNCHANGED <<fifoV, prodV, flagV, tuneV, envV, pubV, ringV, replay, burstV,
                 badPolls, drainV, on, engV, faults, statV>>

(* The last model published is taken; its advance is applied at once at a   *)
(* burst boundary, and otherwise stays wanted.                             *)
RefreshModel ==
  /\ published' = NoModel
  /\ IF published = NoModel
       THEN want' = want /\ KeepAdvance
       ELSE /\ want' = published
            /\ IF published # adv /\ AtBurstBoundary
                 THEN ApplyAdvance(published) ELSE KeepAdvance

(* RefreshModel(), then the retune request is taken.                       *)
FeederTop ==
  /\ fpc = "top" /\ running
  /\ RefreshModel
  /\ padNow' = FALSE
  /\ tune' = "none"
  /\ fpc' = (IF tune = "pending" THEN "retune" ELSE "advance")
  /\ UNCHANGED <<fifoV, prodV, flagV, retunes, changes, replay, burstV,
                 badPolls, drainV, on, engV, faults, statV>>

(* FeederRetune(): first the published drain state goes.                   *)
RetuneBegin ==
  /\ fpc \in {"retune", "recover"}
  /\ drained' = NotDrained
  /\ fpc' = (IF fpc = "retune" THEN "rebuild" ELSE "restore")
  /\ UNCHANGED <<fifoV, prodV, flagV, tuneV, envV, pubV, ringV, replay, burstV,
                 badPolls, consumed, on, engV, faults, statV>>

(* Distances the feeder may expect for an engine that moved from trk.rd to eng. *)
Expected(stopped) == IF stopped THEN {0} ELSE eng - trk.rd - Skew..eng - trk.rd + Skew

(* The tracker once the engine is paused: its position is read again unless *)
(* it is invalid.  (Mutated: the position of the last poll is used.)       *)
Paused_Stale(e) == trk
Paused(e) == IF on /\ fault # "lost" THEN Update(trk, RingSlot(eng), e) ELSE trk

(* The slots at positions from..to-1, without the idle ones in front.       *)
(* (Mutated: the last data slot is left out.)                              *)
Unplayed_DropsLast(from, to) ==
  IF to - 1 > from /\ to - from =< N
    THEN [i \in 1..to - 1 - from |-> ring[RingSlot(from + i - 1)]] ELSE <<>>
Unplayed(from, to) ==
  IF to > from /\ to - from =< N
    THEN LET data  == {p \in from..to - 1 : ring[RingSlot(p)] # 0}
             first == IF data = {} THEN to ELSE CHOOSE p \in data : \A q \in data : p =< q
         IN  [i \in 1..to - first |-> ring[RingSlot(first + i - 1)]]
    ELSE <<>>

(* FeederRetune(): the engine is paused, what it has not played is kept in  *)
(* front of what is left to replay, the ring starts over.                  *)
RetuneRebuild ==
  /\ fpc \in {"rebuild", "restore"}
  /\ \E e \in Expected(fpc = "restore" \/ fault = "stopped") :
       replay' = Unplayed(Paused(e).rd, lastData) \o replay
  /\ on' = FALSE /\ eng' = 0 /\ lag' = 0 /\ fault' = "none"
  /\ ResetRing
  /\ inBurst' = FALSE /\ firstQueued' = FALSE /\ waited' = FALSE
  /\ badPolls' = 0
  /\ fpc' = (IF fpc = "rebuild" THEN "advance" ELSE "publish")
  /\ UNCHANGED <<fifoV, prodV, flagV, tuneV, envV, pubV, drainV, sent, faults, statV>>

(* ApplyPendingEnvAdvance() of the loop.                                   *)
FeederAdvance ==
  /\ fpc = "advance"
  /\ IF want # adv /\ AtBurstBoundary
       THEN ApplyAdvance(want) /\ padNow' = TRUE
       ELSE KeepAdvance /\ padNow' = FALSE
  /\ fpc' = (IF on THEN "poll" ELSE "fill")
  /\ UNCHANGED <<fifoV, prodV, flagV, tuneV, want, pubV, replay, burstV,
                 badPolls, drainV, on, engV, faults, statV>>

(* Engine stopped: the idle prefix of the ring.                            *)
FeederFill ==
  /\ fpc = "fill"
  /\ IF trk.wr = 0 /\ prefix = 0
       THEN /\ prefix' = Pacing + 1 + adv
            /\ ring' = PadRing(trk, ring, prefix')
            /\ trk' = PadTrk(trk, prefix')
       ELSE UNCHANGED <<prefix, ring, trk>>
  /\ fpc' = "pump"
  /\ UNCHANGED <<fifoV, prodV, flagV, tuneV, envV, pubV, lastData, replay, burstV,
                 badPolls, drainV, on, engV, faults, statV>>

(* Engine running: an invalid position, or an engine that is not active.   *)
PollBad ==
  /\ fpc = "poll" /\ fault # "none"
  /\ badPolls' = badPolls + 1
  /\ fpc' = (IF badPolls' >= BadPollLimit THEN "recover" ELSE "publish")
  /\ lag' = 0
  /\ UNCHANGED <<fifoV, prodV, flagV, tuneV, envV, pubV, ringV, replay, burstV,
                 drainV, on, eng, fault, sent, faults, statV>>

(* After a poll that finds the writer overtaken, it restarts ahead of the   *)
(* engine in a ring of idle slots.  (Mutated: the ring keeps its content.)  *)
Overtaken(t) == Fill(t) =< 0
PolledTrk(t) == IF Overtaken(t) THEN Resync(t, Guard) ELSE t
PolledRing_Kept(t) == ring
PolledRing(t) ==
  IF Overtaken(t)
    THEN [s \in 0..N - 1 |-> IF s = RingSlot(t.rd) THEN ring[s] ELSE 0]
    ELSE ring

(* ScrubCompleted() *)
ScrubTrk(t) == MarkScrubbed(t, ScrubEnd(t))
ScrubRing(t, r) == Silenced(r, Larger(ScrubBegin(t), ScrubEnd(t) - N), ScrubEnd(t))

Poll ==
  /\ fpc = "poll" /\ fault = "none"
  /\ \E e \in Expected(FALSE) :
       LET t == Update(trk, RingSlot(eng), e)
           p == PolledTrk(t)
           r == ScrubRing(p, PolledRing(t))
           s == ScrubTrk(p)
       IN  /\ trk'  = IF padNow THEN PadTrk(s, Low) ELSE s
           /\ ring' = IF padNow THEN PadRing(s, r, Low) ELSE r
           /\ late' = IF Overtaken(t) THEN late + 1 ELSE late
  /\ padNow' = FALSE
  /\ badPolls' = 0
  /\ lag' = 0
  /\ fpc' = "pump"
  /\ UNCHANGED <<fifoV, prodV, flagV, tuneV, want, adv, pubV, lastData, prefix, replay,
                 burstV, drainV, on, eng, fault, sent, faults, underflows>>
-----------------------------------------------------------------------------
(* PumpData(Target): one round of its loop per step.                       *)

Room == Writable(trk, Target)
Want == Smaller(Room \div K, Chunk)

PumpReplay ==
  /\ fpc = "pump" /\ Room > 0 /\ replay # <<>>
  /\ LET m    == Smaller(Smaller(Room, Chunk), Len(replay))
         part == SubSeq(replay, 1, m)
         data == {i \in 1..m : part[i] # 0}
     IN  /\ ring' = Filled(ring, trk.wr, part)
         /\ trk' = AdvanceWrite(trk, m)
         /\ lastData' = IF data = {} THEN lastData
                        ELSE trk.wr + (CHOOSE i \in data : \A j \in data : j =< i)
         /\ replay' = SubSeq(replay, m + 1, Len(replay))
  /\ inBurst' = (inBurst \/ on)
  /\ UNCHANGED <<fifoV, prodV, flagV, tuneV, envV, pubV, fpc, prefix, firstQueued, waited,
                 badPolls, drainV, on, engV, faults, statV>>

(* The K slots of each of the samples i+1 .. i+m. *)
SlotsOf(i, m) == [j \in 1..m * K |-> i * K + j]

PumpFifo ==
  /\ fpc = "pump" /\ replay = <<>> /\ Want > 0 /\ head > tail
  /\ LET m == Smaller(Want, head - tail)
     IN  /\ ring' = Filled(ring, trk.wr, SlotsOf(tail, m))
         /\ trk' = AdvanceWrite(trk, m * K)
         /\ lastData' = trk'.wr
         /\ tail' = tail + m
         /\ consumed' = consumed + m
  /\ inBurst' = (inBurst \/ on)
  /\ UNCHANGED <<head, prodV, flagV, tuneV, envV, pubV, fpc, prefix, replay, firstQueued, waited,
                 badPolls, drained, on, engV, faults, statV>>

PumpDone ==
  /\ fpc = "pump"
  /\ Room = 0 \/ (replay = <<>> /\ (Want = 0 \/ head = tail))
  /\ fpc' = (IF on THEN "starve" ELSE "start")
  /\ UNCHANGED <<fifoV, prodV, flagV, tuneV, envV, pubV, ringV, replay, burstV,
                 badPolls, drainV, on, engV, faults, statV>>
-----------------------------------------------------------------------------
(* Slots of signal queued while the engine is stopped. *)
Queued == (head - tail) * K + Len(replay) + Larger(Fill(trk) - prefix, 0)

(* (Mutated: the first sample does not stop waiting.)                      *)
MayStart_NoTimer ==
  running /\ Queued > 0 /\ (Queued >= Preroll \/ endBurst \/ head - tail >= FifoCap)
MayStart ==
  /\ running /\ Queued > 0
  /\ \/ Queued >= Preroll
     \/ endBurst
     \/ head - tail >= FifoCap
     \/ waited

(* StartDma(): slot 0 is executed at once, and the next Pacing slots fill   *)
(* the pacing FIFO without waiting for the clock.                          *)
FeederStart ==
  /\ fpc = "start"
  /\ IF MayStart
       THEN /\ on' = TRUE /\ eng' = 0 /\ lag' = -Pacing
            /\ badPolls' = 0
            /\ inBurst' = TRUE
            /\ firstQueued' = FALSE /\ waited' = FALSE
       ELSE /\ firstQueued' = (firstQueued \/ Queued > 0)
            /\ UNCHANGED <<on, eng, lag, badPolls, inBurst, waited>>
  /\ fpc' = "publish"
  /\ UNCHANGED <<fifoV, prodV, flagV, tuneV, envV, pubV, ringV, replay,
                 drainV, fault, sent, faults, statV>>

(* Nothing to write and few slots left: pad, and end the burst.            *)
FeederStarve ==
  /\ fpc = "starve"
  /\ IF head = tail /\ replay = <<>> /\ Fill(trk) < Low
       THEN /\ underflows' = IF inBurst /\ ~endBurst THEN underflows + 1 ELSE underflows
            /\ inBurst' = FALSE
            /\ ring' = PadRing(trk, ring, Low)
            /\ trk' = PadTrk(trk, Low)
       ELSE UNCHANGED <<underflows, inBurst, ring, trk>>
  /\ fpc' = "publish"
  /\ UNCHANGED <<fifoV, prodV, flagV, tuneV, envV, pubV, lastData, prefix, replay, firstQueued,
                 waited, badPolls, drainV, on, engV, faults, late>>

(* The drain condition, in one place.  (Mutated: the replay buffer, or the  *)
(* ring, is forgotten.)                                                    *)
AllDone_NoReplay == consumed = head /\ trk.rd >= lastData
AllDone_NoRing == consumed = head /\ replay = <<>>
AllDone == consumed = head /\ replay = <<>> /\ trk.rd >= lastData

(* PublishDrainState(), then the feeder sleeps until its next period.      *)
PublishDrain ==
  /\ fpc = "publish"
  /\ drained' = IF AllDone THEN head ELSE NotDrained
  /\ fpc' = "top"
  /\ UNCHANGED <<fifoV, prodV, flagV, tuneV, envV, pubV, ringV, replay, burstV,
                 badPolls, consumed, on, engV, faults, statV>>

(* The first queued sample has waited for the pre-roll time.               *)
PrerollExpires ==
  /\ firstQueued /\ ~waited
  /\ waited' = TRUE
  /\ UNCHANGED <<fifoV, prodV, flagV, tuneV, envV, pubV, fpc, ringV, replay, inBurst,
                 firstQueued, badPolls, drainV, on, engV, faults, statV>>
-----------------------------------------------------------------------------
(* DMA engine *)

LagLimit == IF fpc \in {"pump", "starve", "recover", "restore"} THEN BusyLag ELSE MaxLag

(* The engine moves to the next slot and executes it.  It idles beyond      *)
(* MaxPos, a bound that never stops it from playing what is queued.        *)
EngineStep ==
  /\ on /\ fault # "stopped" /\ lag < LagLimit
  /\ eng < MaxPos \/ sent < head * K \/ eng < lastData
  /\ eng' = eng + 1
  /\ lag' = lag + 1
  /\ sent' = Larger(sent, ring[RingSlot(eng + 1)])
  /\ UNCHANGED <<fifoV, prodV, flagV, tuneV, envV, pubV, fpc, ringV, replay, burstV,
                 badPolls, drainV, on, fault, faults, statV>>

EngineFault ==
  /\ on /\ fault = "none" /\ faults < MaxFaults
  /\ fault' \in {"stopped", "lost"}
  /\ faults' = faults + 1
  /\ UNCHANGED <<fifoV, prodV, flagV, tuneV, envV, pubV, fpc, ringV, replay, burstV,
                 badPolls, drainV, on, eng, lag, sent, statV>>

(* An invalid position may become valid again before the feeder gives up.  *)
FaultClears ==
  /\ fault = "lost"
  /\ fault' = "none"
  /\ UNCHANGED <<fifoV, prodV, flagV, tuneV, envV, pubV, fpc, ringV, replay, burstV,
                 badPolls, drainV, on, eng, lag, sent, faults, statV>>
-----------------------------------------------------------------------------
Producer == WriteBegin \/ WritePush \/ EndBurst

Control == RequestRetune \/ PublishModel \/ StartClear \/ StartRun \/ StopBegin \/ StopFinish

Feeder ==
  \/ FeederExit \/ FeederTop \/ RetuneBegin \/ RetuneRebuild \/ FeederAdvance
  \/ FeederFill \/ PollBad \/ Poll \/ PumpReplay \/ PumpFifo \/ PumpDone
  \/ FeederStart \/ FeederStarve \/ PublishDrain

Engine == EngineStep \/ EngineFault \/ FaultClears

Next == Producer \/ Control \/ Feeder \/ PrerollExpires \/ Engine

Spec == Init /\ [][Next]_vars

(* The feeder's deadline, the pacing clock and the pre-roll time recur; a   *)
(* Start() or Stop() that began goes on.  Nothing makes the producer or the *)
(* operator act, and a fault need not come or go.  The engine's clock runs  *)
(* in every period of the feeder, but the lag limits enable EngineStep only *)
(* in part of it: strong fairness says that the clock is not stopped there. *)
Fairness ==
  /\ WF_vars(Feeder)
  /\ SF_vars(EngineStep)
  /\ WF_vars(PrerollExpires)
  /\ WF_vars(StartRun) /\ WF_vars(StopFinish)

FairSpec == Spec /\ Fairness
-----------------------------------------------------------------------------
TypeOK ==
  /\ head \in Nat /\ tail \in Nat
  /\ wpc \in {"idle", "push"} /\ left \in Nat
  /\ endBurst \in BOOLEAN
  /\ active \in BOOLEAN /\ running \in BOOLEAN
  /\ restart \in {"no", "cleared", "stopping"} /\ starts \in Nat
  /\ tune \in {"none", "pending"} /\ retunes \in Nat
  /\ published \in Advances \cup {NoModel} /\ changes \in Nat
  /\ want \in Advances /\ adv \in Advances /\ padNow \in BOOLEAN
  /\ fpc \in {"exited", "top", "retune", "rebuild", "recover", "restore", "advance",
              "fill", "poll", "pump", "start", "starve", "publish"}
  /\ trk \in Trackers /\ ring \in [0..N - 1 -> Nat]
  /\ lastData \in Nat /\ prefix \in Nat /\ replay \in Seq(Nat)
  /\ inBurst \in BOOLEAN /\ firstQueued \in BOOLEAN /\ waited \in BOOLEAN
  /\ badPolls \in Nat
  /\ consumed \in Nat /\ drained \in Nat \cup {NotDrained}
  /\ on \in BOOLEAN /\ eng \in Nat /\ lag \in Int
  /\ fault \in {"none", "stopped", "lost"} /\ faults \in Nat
  /\ sent \in Nat /\ late \in Nat /\ underflows \in Nat

(* The next position to execute, and the content of the slot of a position. *)
From == IF on THEN eng + 1 ELSE 0
Content(p) == ring[RingSlot(p)]

(* What the engine will still execute, in order: the rest of the ring, then *)
(* the replay buffer; and the data slots among it.                         *)
Coming == [i \in 1..Larger(0, trk.wr - From) |-> Content(From + i - 1)] \o replay
Numbers == {Coming[i] : i \in DOMAIN Coming} \ {0}

(* Nothing is lost, doubled or reordered: what is still to be executed goes *)
(* up to the last sample taken from the FIFO without a gap, and starts no   *)
(* later than with the first slot never executed (README: none lost,        *)
(* whatever retunes, engine faults, starvation and late polls come in       *)
(* between).                                                               *)
Accounted ==
  /\ \A i, j \in DOMAIN Coming :
       i < j /\ Coming[i] # 0 /\ Coming[j] # 0 => Coming[i] < Coming[j]
  /\ \E first \in 1..sent + 1 : Numbers = first..tail * K

(* A drained transmitter is quiet: when WaitDrained() sees the published    *)
(* push count equal to the current one, the engine has executed every slot  *)
(* and nothing is on its way between FIFO, replay buffer and ring.          *)
DrainedMeansQuiet ==
  (active /\ drained = head) => (sent = head * K /\ Numbers = {} /\ head = tail)

(* Between the scrub and the next poll, every data slot of the ring lies    *)
(* between the polled position and the writer: what the engine executes     *)
(* when the feeder stalls is silence, until the ring comes round.           *)
NothingStale ==
  (on /\ fpc \in {"pump", "starve"} /\ fault # "lost") =>
     \A s \in 0..N - 1 : ring[s] # 0 => \E p \in trk.rd..trk.wr - 1 : RingSlot(p) = s

(* The tracked position is the engine's, laps missed while the feeder was   *)
(* stalled included.                                                       *)
TrackerFollows ==
  (on /\ fpc = "pump") => trk.rd \in eng - lag..eng /\ lag =< BusyLag

(* Slots already executed that the engine will execute again: at most the   *)
(* one that was executing when a retune paused the engine, and after an     *)
(* engine error without a valid position what it executed in BadPollLimit   *)
(* feeder periods and until the recovery stopped it (README, retune).       *)
ResentPerFault == BadPollLimit * MaxLag + BusyLag
ResendBounded == \A n \in Numbers : sent - n =< faults * ResentPerFault

(* Every start of the engine begins with idle slots that fill the pacing    *)
(* FIFO and make room for the words of the advance in effect.              *)
StartsWithPrefix ==
  [][on' /\ ~on => \A p \in 0..Pacing + adv : Content(p) = 0]_vars

(* The advance changes only when no data slot placed with the old one is    *)
(* still to be executed.                                                   *)
AdvanceAtBoundary ==
  [][active /\ adv' # adv => \A p \in From..trk.wr - 1 : Content(p) = 0]_vars
-----------------------------------------------------------------------------
(* What the documentation says of the program and the code does not keep.  *)

(* "if the feeder ever stalls the engine plays silence, never a replay of   *)
(* the previous lap" (README, feeder thread): the engine executes a data    *)
(* slot only ahead of the writer.                                          *)
NeverReplaysLap ==
  [][EngineStep => (ring[RingSlot(eng + 1)] = 0 \/ eng + 1 < trk.wr)]_vars

(* late counts "Times the DMA engine overtook the feeder (feeder thread     *)
(* stalled)" (SoapyRPITX_TxStats): with a feeder that is never late for its *)
(* period, it stays zero.                                                  *)
LateMeansStalled == late = 0
-----------------------------------------------------------------------------
(* Everything queued is executed unless the transmitter is stopped.        *)
AllPlayed ==
  \A x \in 1..MaxSamples : (head >= x) ~> (sent >= x * K \/ ~active)

(* A transmitter left running reports that it has drained: WaitDrained()    *)
(* returns.                                                                *)
DrainReported == <>[]active => <>[](drained = head)
=============================================================================
