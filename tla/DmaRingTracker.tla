--------------------------- MODULE DmaRingTracker ---------------------------
(***************************************************************************)
(* DmaRingTracker (src/src/SoapyRPITX_Buffers.hpp): absolute positions of   *)
(* the DMA engine and of the writer in a ring of N slots, of which the      *)
(* hardware reports only the engine's slot modulo N.                        *)
(*                                                                         *)
(* A tracker is a record: rd is the absolute position of the slot being     *)
(* executed, wr of the next slot to write, scrubbed the position before     *)
(* which every completed slot is idle, prev the engine slot of the previous *)
(* update.  The operators take and return trackers; the feeder thread of    *)
(* Transmitter applies them to its ring.                                    *)
(*                                                                         *)
(* expected, a product of a measured time and a sample rate, is an Int     *)
(* here: a fraction of a slot never decides anything that the margin of     *)
(* half a ring does not already cover.                                      *)
(***************************************************************************)
EXTENDS Integers

CONSTANT N   \* slots of the ring

ASSUME RingAssumption == N \in Nat /\ N >= 4

Trackers == [rd : Nat, wr : Nat, scrubbed : Nat, prev : 0..N - 1]

Smaller(a, b) == IF a < b THEN a ELSE b
Larger(a, b)  == IF a < b THEN b ELSE a

(* reset(): engine stopped, ring empty. *)
Rewound == [rd |-> 0, wr |-> 0, scrubbed |-> 0, prev |-> 0]

(* Ring slot of an absolute position. *)
RingSlot(p) == p % N

(* Written slots not yet completed; zero or less when overtaken. *)
Fill(t) == t.wr - t.rd

(* Slots travelled since the previous update, modulo the ring. *)
Delta(t, slot) == (slot + N - t.prev) % N

(* Whole laps the modular distance hides: the nearest number of laps to     *)
(* the distance expected from the elapsed time, when that time is long      *)
(* enough for the engine to have come round.  (Mutated: rounded down.)      *)
Laps_Floor(delta, expected) ==
  IF 2 * expected > N THEN Larger(0, (expected - delta) \div N) ELSE 0
Laps(delta, expected) ==
  IF 2 * expected > N THEN Larger(0, (2 * (expected - delta) + N) \div (2 * N))
                      ELSE 0

Travelled(t, slot, expected) ==
  Delta(t, slot) + Laps(Delta(t, slot), expected) * N

(* update(): the caller learns from Fill whether it was overtaken.          *)
(* (Mutated: the position is kept instead of the slot.)                     *)
Update_KeepsPosition(t, slot, expected) ==
  [t EXCEPT !.rd = @ + Travelled(t, slot, expected),
            !.prev = t.rd + Travelled(t, slot, expected)]
Update(t, slot, expected) ==
  [t EXCEPT !.rd = @ + Travelled(t, slot, expected), !.prev = slot]

(* Slots that may be written to bring the fill up to target. *)
Writable(t, target) ==
  LET limit == Smaller(target, N - 2)
  IN  IF Fill(t) < 0 \/ Fill(t) >= limit THEN 0 ELSE limit - Fill(t)

AdvanceWrite(t, count) == [t EXCEPT !.wr = @ + count]

(* resync(): the writer restarts a guard distance ahead of the engine.      *)
(* (Mutated: on the executing slot.)                                        *)
Resync_NoGuard(t, guard) == [t EXCEPT !.wr = t.rd, !.scrubbed = Larger(@, t.rd)]
Resync(t, guard) ==
  [t EXCEPT !.wr = t.rd + Larger(guard, 1), !.scrubbed = Larger(@, t.rd)]

(* scrubRange(): completed slots that hold nothing newer. *)
ScrubBegin(t) == IF t.wr > N THEN Larger(t.scrubbed, t.wr - N) ELSE t.scrubbed
ScrubEnd(t)   == Larger(t.rd, ScrubBegin(t))

MarkScrubbed(t, end) == [t EXCEPT !.scrubbed = Larger(@, end)]
=============================================================================
