---------------------------- MODULE EnvelopeWords ----------------------------
(***************************************************************************)
(* Where the amplitude words go (SoapyRPITX_IQ_dmaSync.cpp).  A slot of the *)
(* ring holds the phase word of one sample and the amplitude words (pads,   *)
(* function selects, envelope DAC) of a later one, adv slots ahead, because *)
(* the envelope reaches the output later than the phase.  The feeder writes *)
(* a sample's phase into its own slot and its amplitude adv slots in front  *)
(* of it, where the engine may already be: such a word is dropped.          *)
(*                                                                         *)
(* A word is the position of the sample it belongs to, or Off; quantiser,   *)
(* tables and interpolation decide its value, never its place.  Of the FIFO *)
(* only the number of its samples matters, of the replay buffer which of    *)
(* its slots are data; the rest of the feeder's period is the subject of    *)
(* Transmitter.                                                             *)
(*                                                                         *)
(* Time.  The engine executes at most MaxLag slots between two polls and at *)
(* most Busy between UpdateBehindLimit() and the last word written under    *)
(* that limit, less than the guard: a feeder that is preempted for longer   *)
(* there can still write a word into the slot being executed.               *)
(***************************************************************************)
EXTENDS DmaRingTracker, Sequences

CONSTANTS
  Guard,        \* guardSlots()
  Margin,       \* slots added to advance and guard in the low-water mark
  Pacing,       \* pacingLevelFor()
  Advances,     \* advances SoapyRPITX_SplitEnvelopeDelay() yields
  Chunk,        \* chunk.size()
  MaxLag, Busy, \* see above
  Skew,         \* error of the elapsed time, in slots
  MaxQueued, MaxReplay, MaxPos   \* bounds

ASSUME WordsAssumption ==
  /\ {Guard, Chunk, MaxQueued} \subseteq Nat \ {0}
  /\ {Margin, Pacing, MaxLag, Busy, Skew, MaxReplay, MaxPos} \subseteq Nat
  /\ Advances \subseteq 0 .. N \div 8 /\ 0 \in Advances
  /\ Skew + Busy < Guard /\ Guard <= N - 2

VARIABLES
  trk, eng, on, lag,     \* tracker; the engine, its slot, slots since the poll
  words, data,           \* amplitude words and sample of each slot
  lastData, prefix,      \* lastDataPos, idlePrefix
  adv, want,             \* envAdvance, the advance of the published model
  fresh, padNow,         \* the feeder has not seen that model; advanceChanged
  queued, replay,        \* samples in the FIFO; slots of the replay buffer, TRUE for data
  fpc, batch, limit, moved,  \* the feeder: samples of the chunk, behindLimit, slots executed since
  dropped                \* samples ahead of the engine that were counted in envelopeLate

vars == <<trk, eng, on, lag, words, data, lastData, prefix, adv, want, fresh, padNow,
          queued, replay, fpc, batch, limit, moved, dropped>>

envV  == <<adv, want, fresh, padNow>>
waitV == <<queued, replay>>
ringV == <<trk, words, data, lastData, prefix, dropped>>
engV  == <<eng, on, lag>>
pumpV == <<batch, limit, moved>>

Off    == -1
Slots  == 0 .. N - 1
Silent == [s \in Slots |-> Off]

Target == (N * 3) \div 4
Low    == Smaller(Target, Larger(N \div 8, adv + Guard + Margin))
Nothing == queued = 0 /\ replay = <<>>

------------------------------------------------------------------------------
(* The ring. *)

\* WriteIdleSlot() on the positions from .. to - 1.
Silenced(f, from, to) ==
  [s \in Slots |-> IF \E p \in from .. to - 1 : RingSlot(p) = s THEN Off ELSE f[s]]

\* PadIdle()
PadTo(level) ==
  /\ words' = Silenced(words, trk.wr, trk.wr + Writable(trk, level))
  /\ data'  = Silenced(data, trk.wr, trk.wr + Writable(trk, level))
  /\ trk'   = AdvanceWrite(trk, Writable(trk, level))

ResetRing ==
  /\ trk' = Rewound
  /\ words' = Silent /\ data' = Silent
  /\ lastData' = 0 /\ prefix' = 0
  /\ dropped' = {}

\* Mutant: what the engine executed since the poll is left out.
BehindLimit_Polled(elapsed) == IF on THEN trk.rd + Guard ELSE 0

\* UpdateBehindLimit(), with the distance expected from the elapsed time.
BehindLimit(elapsed) == IF on THEN trk.rd + Larger(0, elapsed) + Guard ELSE 0

\* The slot of the sample at pos is too near for its amplitude words.
TooLate(pos) == adv > 0 /\ (pos < adv \/ pos - adv < limit)

\* WriteDataSlot()
WriteDataSlot(pos) ==
  LET own == [words EXCEPT ![RingSlot(pos)] = Off] IN
  /\ data' = [data EXCEPT ![RingSlot(pos)] = pos]
  /\ IF TooLate(pos)
       THEN words' = own /\ dropped' = dropped \union {pos}
       ELSE words' = [own EXCEPT ![RingSlot(pos - adv)] = pos] /\ UNCHANGED dropped

------------------------------------------------------------------------------
(* The advance. *)

\* Mutant: the ring is not looked at while the engine runs.
AtBoundary_NoRing == IF on THEN Nothing ELSE lastData = 0

\* The condition of ApplyPendingEnvAdvance().
AtBoundary ==
  IF on THEN Nothing /\ trk.rd >= lastData ELSE lastData = 0

ApplyAdvance ==
  /\ adv' = want
  /\ IF ~on /\ prefix # 0 THEN ResetRing ELSE UNCHANGED ringV

\* A model with another delay is published; SetAmplitudeConfig() keeps it within the ring.
Publish ==
  /\ want' \in Advances \ {want} /\ fresh' = TRUE
  /\ UNCHANGED <<ringV, engV, adv, padNow, waitV, fpc, pumpV>>

\* RefreshModel() and ApplyPendingEnvAdvance(), which may both apply the advance: padding
\* follows only when the second one did.
Refresh ==
  /\ fpc = "top"
  /\ IF want # adv /\ AtBoundary
       THEN ApplyAdvance /\ padNow' = ~fresh
       ELSE UNCHANGED <<adv, ringV>> /\ padNow' = FALSE
  /\ fresh' = FALSE
  /\ fpc' = IF on THEN "poll" ELSE "fill"
  /\ UNCHANGED <<engV, want, waitV, pumpV>>

------------------------------------------------------------------------------
(* The feeder's period. *)

\* Engine stopped: the idle prefix.
Fill0 ==
  /\ fpc = "fill"
  /\ IF trk.wr = 0 /\ prefix = 0
       THEN prefix' = Pacing + 1 + adv /\ PadTo(Pacing + 1 + adv)
       ELSE UNCHANGED <<prefix, trk, words, data>>
  /\ fpc' = "pump"
  /\ UNCHANGED <<engV, envV, lastData, dropped, waitV, pumpV>>

\* Update, and after an overrun a silent ring and a writer ahead of the engine; then scrub.
Poll ==
  /\ fpc = "poll"
  /\ LET moved0 == Update(trk, RingSlot(eng), eng - trk.rd)
         over   == Fill(moved0) <= 0
         t      == IF over THEN Resync(moved0, Guard) ELSE moved0
         Kept(f) == IF over THEN [s \in Slots |-> IF s = RingSlot(t.rd) THEN f[s] ELSE Off] ELSE f
         begin  == Larger(ScrubBegin(t), ScrubEnd(t) - N)
     IN
     /\ trk'   = MarkScrubbed(t, ScrubEnd(t))
     /\ words' = Silenced(Kept(words), begin, ScrubEnd(t))
     /\ data'  = Silenced(Kept(data), begin, ScrubEnd(t))
  /\ lag' = 0
  /\ fpc' = IF padNow THEN "pad" ELSE "pump"
  /\ UNCHANGED <<eng, on, envV, lastData, prefix, dropped, waitV, pumpV>>

\* advanceChanged: room for the words of the next samples.
PadAhead ==
  /\ fpc = "pad"
  /\ PadTo(Low)
  /\ fpc' = "pump"
  /\ UNCHANGED <<engV, envV, lastData, prefix, dropped, waitV, pumpV>>

\* One round of PumpData(): the limit, and a chunk from the replay buffer or the FIFO.
PumpLimit ==
  /\ fpc = "pump"
  /\ Writable(trk, Target) > 0 /\ ~Nothing
  /\ \E elapsed \in eng - trk.rd - Skew .. eng - trk.rd + Skew : limit' = BehindLimit(elapsed)
  /\ batch' = Smaller(Smaller(Writable(trk, Target), Chunk), IF replay # <<>> THEN Len(replay) ELSE queued)
  /\ moved' = 0
  /\ fpc' = "write"
  /\ UNCHANGED <<ringV, engV, envV, waitV>>

\* The tracker's write position moves with the slot: nobody reads it before the chunk ends.
PumpWrite ==
  /\ fpc = "write"
  /\ IF replay # <<>> /\ ~Head(replay)
       THEN /\ words' = Silenced(words, trk.wr, trk.wr + 1)
            /\ data' = Silenced(data, trk.wr, trk.wr + 1)
            /\ UNCHANGED <<lastData, dropped>>
       ELSE WriteDataSlot(trk.wr) /\ lastData' = trk.wr + 1
  /\ trk' = AdvanceWrite(trk, 1)
  /\ IF replay # <<>> THEN replay' = Tail(replay) /\ UNCHANGED queued
                      ELSE queued' = queued - 1 /\ UNCHANGED replay
  /\ batch' = batch - 1
  /\ fpc' = IF batch = 1 THEN "pump" ELSE "write"
  /\ UNCHANGED <<engV, envV, prefix, limit, moved>>

\* Engine stopped: it may start.  Engine running and nothing to send: idle slots.
PumpDone ==
  /\ fpc = "pump"
  /\ Writable(trk, Target) = 0 \/ Nothing
  /\ IF on
       THEN /\ IF Nothing /\ Fill(trk) < Low THEN PadTo(Low) ELSE UNCHANGED <<trk, words, data>>
            /\ UNCHANGED <<on, lag>>
       ELSE /\ on' \in IF lastData # 0 \/ ~Nothing THEN BOOLEAN ELSE {FALSE}
            /\ lag' = 0
            /\ UNCHANGED <<trk, words, data>>
  /\ fpc' = "top"
  /\ UNCHANGED <<eng, envV, lastData, prefix, dropped, waitV, pumpV>>

\* FeederRetune(): the engine stops, what it has not played is queued again.
Unplayed ==
  LET played == IF on THEN eng ELSE trk.rd
      kept   == {p \in played .. lastData - 1 : data[RingSlot(p)] # Off}
      first  == CHOOSE p \in kept : \A q \in kept : p <= q
  IN  IF kept = {} THEN <<>> ELSE [i \in 1 .. lastData - first |-> data[RingSlot(first + i - 1)] # Off]

Retune ==
  /\ fpc = "top"
  /\ Len(Unplayed) + Len(replay) <= MaxReplay
  /\ replay' = Unplayed \o replay
  /\ ResetRing
  /\ eng' = 0 /\ on' = FALSE /\ lag' = 0
  /\ UNCHANGED <<envV, queued, fpc, pumpV>>

------------------------------------------------------------------------------
(* The engine and the producer. *)

Execute ==
  /\ on /\ lag < MaxLag
  /\ fpc = "write" => moved < Busy
  /\ eng < MaxPos
  /\ eng' = eng + 1
  /\ lag' = lag + 1
  /\ moved' = IF fpc = "write" THEN moved + 1 ELSE moved
  /\ dropped' = {p \in dropped : p > eng'}
  /\ UNCHANGED <<trk, words, data, lastData, prefix, on, envV, waitV, fpc, batch, limit>>

Push ==
  /\ queued < MaxQueued
  /\ queued' = queued + 1
  /\ UNCHANGED <<ringV, engV, envV, replay, fpc, pumpV>>

Init ==
  /\ trk = Rewound
  /\ eng = 0 /\ on = FALSE /\ lag = 0
  /\ words = Silent /\ data = Silent
  /\ lastData = 0 /\ prefix = 0
  /\ adv \in Advances /\ want = adv /\ fresh = FALSE /\ padNow = FALSE
  /\ queued = 0 /\ replay = <<>>
  /\ fpc = "top" /\ batch = 0 /\ limit = 0 /\ moved = 0
  /\ dropped = {}

Next ==
  \/ Publish \/ Refresh \/ Fill0 \/ Poll \/ PadAhead \/ PumpLimit \/ PumpWrite \/ PumpDone
  \/ Retune \/ Execute \/ Push

Spec == Init /\ [][Next]_vars

------------------------------------------------------------------------------
(* Properties. *)

Holds(p) == data[RingSlot(p)] = p

\* In every slot still to be executed, the amplitude words are those of the sample adv slots
\* later, or off when there is none or its words were dropped: never those of another sample,
\* placed with another advance or on another lap (WriteDataSlot(), ApplyPendingEnvAdvance()).
WordsPlaced ==
  \A p \in eng + 1 .. trk.wr - 1 :
    words[RingSlot(p)] =
      IF p + adv < trk.wr /\ Holds(p + adv) /\ p + adv \notin dropped THEN p + adv ELSE Off

\* The amplitude words of a slot never change while the engine executes it, as long as it is
\* behind the writer: the limit keeps clear of it although it is older than the write
\* (SoapyRPITX_IQ_dmaSync.hpp:730).
ExecutingUntouched ==
  [][(on /\ on' /\ eng' = eng /\ eng < trk.wr) => words'[RingSlot(eng)] = words[RingSlot(eng)]]_vars
==============================================================================
