------------------------------ MODULE SlotWords ------------------------------
(***************************************************************************)
(* What WriteDataSlot() puts into the words of a slot: the amplitude state  *)
(* of the pads or the code of the envelope DAC (SoapyRPITX_Amplitude.hpp),  *)
(* and the frequency of the carrier (dsp.cpp, GetMasterFrac()).  Operators  *)
(* on records, like DmaRingTracker; where the words go is the subject of    *)
(* EnvelopeWords.  Left out are the envelope floor, the constant envelope   *)
(* and the gain and offset of the DAC, which only choose among these values *)
(* or clamp them.                                                           *)
(*                                                                         *)
(* Floating point is replaced by integers: amplitudes count in parts of     *)
(* Full, angles in parts of Turn, a delay in parts of a slot, a frequency   *)
(* in angle per slot.  Angles of the PLL count harmonic times finer than    *)
(* those of the sample, so that the division by the harmonic disappears.    *)
(***************************************************************************)
EXTENDS Integers, Sequences, FiniteSets

CONSTANTS
  Full,              \* the strongest amplitude state, full scale of the DAC
  Turn,              \* a full turn
  Gate,              \* amplitude below which a sample has no phase
  Length, Parts,     \* values of the envelope history, parts of a slot
  Quantum, Offset,   \* step of the PLL's fraction, and where its grid lies
  Lowest, Highest,   \* frequencies of the fractions 0 and 0xFFFFF
  MaxStep, MaxCarry  \* kMaxPhaseStep, kMaxPhaseCarry

ASSUME SlotWordsAssumption ==
  /\ {Full, Parts, Quantum} \subseteq Nat \ {0}
  /\ {Gate, Offset, MaxStep, MaxCarry} \subseteq Nat
  /\ Turn \in Nat \ {0} /\ Turn % 2 = 0
  /\ Length \in Nat /\ Length >= 2
  /\ {Lowest, Highest} \subseteq Int /\ Lowest <= Highest
  /\ (Lowest + Offset) % Quantum = 0 /\ (Highest + Offset) % Quantum = 0
  /\ MaxStep + Quantum <= MaxCarry

Clamp(x, lo, hi) == IF x < lo THEN lo ELSE IF x > hi THEN hi ELSE x

------------------------------------------------------------------------------
(* The amplitude states of the pad drive. *)

Increasing(t) == \A i \in DOMAIN t : i - 1 \in DOMAIN t => t[i - 1] < t[i]

\* SoapyRPITX_CheckAmplitudeConfig(): calibrations the driver accepts.
LutOk(lut)         == lut[0] > 0 /\ Increasing(lut)
WeightsOk(weights) == \A m \in 1 .. 3 : weights[m] > 0
CurveOk(curve)     == Len(curve) >= 2 /\ curve[1] >= 0 /\ Increasing(curve)

NoState == [level |-> 0, pins |-> 0, raw |-> 0, amp |-> 0]

\* Levels 0 .. drive on one clock pin or, weighted, on each combination of two.
Combined(lut, weights, drive, dual) ==
  LET weight(m) == IF dual THEN weights[m] ELSE 1
      strongest == IF dual THEN CHOOSE w \in {weights[m] : m \in 1 .. 3} : \A m \in 1 .. 3 : weights[m] <= w
                           ELSE 1
  IN  {[level |-> l, pins |-> m, raw |-> lut[l] * weight(m),
        amp |-> (Full * lut[l] * weight(m)) \div (lut[drive] * strongest)] :
         l \in 0 .. drive, m \in 1 .. (IF dual THEN 3 ELSE 1)}

\* The order of the stable sort.
Before(s, t) ==
  \/ s.raw < t.raw
  \/ s.raw = t.raw /\ s.level < t.level
  \/ s.raw = t.raw /\ s.level = t.level /\ s.pins < t.pins

\* SoapyRPITX_AmplitudeModel(): off, then the states by amplitude.
AmpStates(lut, weights, drive, dual) ==
  LET C == Combined(lut, weights, drive, dual) IN
  [i \in 1 .. Cardinality(C) + 1 |->
     IF i = 1 THEN NoState ELSE CHOOSE s \in C : Cardinality({t \in C : Before(t, s)}) = i - 2]

\* The threshold above state i lies above a.
Above(st, a, i) == i = Len(st) \/ 2 * a < st[i].amp + st[i + 1].amp

\* nearest()
Nearest(st, a) ==
  IF a <= 0 THEN 1 ELSE CHOOSE i \in DOMAIN st : Above(st, a, i) /\ \A j \in 1 .. i - 1 : ~Above(st, a, j)

\* The envelope with the errors fed back.
Fed(q, a, order) == IF order = 2 THEN a + 2 * q.e1 - q.e2 ELSE a + q.e1

\* quantize() with error feedback: the error history, and the state below.
Quantized(q, st, a, order) ==
  LET v == Fed(q, a, order) IN
  [e1 |-> Clamp(v - st[Nearest(st, v)].amp, -Full, Full), e2 |-> q.e1]

------------------------------------------------------------------------------
(* The code of the envelope DAC. *)

\* eerCode() before gain and offset: the table inverted by linear interpolation.
Inverted(curve, a) ==
  LET x == Clamp(a, 0, Full)
      n == Len(curve)
      i == CHOOSE j \in 1 .. n : curve[j] >= x /\ \A k \in 1 .. j - 1 : curve[k] < x
      span == curve[i] - curve[i - 1]
  IN  IF x > curve[n] THEN Full
      ELSE IF x <= curve[1] THEN 0
      ELSE (Full * ((i - 2) * span + x - curve[i - 1])) \div (span * (n - 1))

\* A table of values at equally spaced codes, read by linear interpolation: eerPhase().
Interpolated(table, code) ==
  LET x == Clamp(code, 0, Full) * (Len(table) - 1)
      i == Clamp(x \div Full, 0, Len(table) - 2)
  IN  table[i + 1] + ((x - i * Full) * (table[i + 2] - table[i + 1])) \div Full

------------------------------------------------------------------------------
(* SoapyRPITX_EnvelopeDelay: the envelope some slots ago. *)

NoHistory == [values |-> [i \in 0 .. Length - 1 |-> 0], head |-> 0]

Pushed(h, v) ==
  LET head == (h.head + 1) % Length IN [values |-> [h.values EXCEPT ![head] = v], head |-> head]

\* The value i slots before the newest.
Back(h, i) == h.values[(h.head + Length - i) % Length]

\* at(), times Parts: between two neighbours.
Delayed(h, delay) ==
  LET d == Clamp(delay, 0, (Length - 2) * Parts)
      i == d \div Parts
  IN  Back(h, i) * Parts + (d % Parts) * (Back(h, i + 1) - Back(h, i))

------------------------------------------------------------------------------
(* The phase of the carrier. *)

Half == Turn \div 2

\* angleDiff()
AngleDiff(a, b) == ((b - a + Half) % Turn) - Half

NoPhase == [prev |-> 0, valid |-> FALSE, frequency |-> 0]

\* pushsample(): below the gate the carrier keeps the centre, and the next sample with a
\* phase makes up for the change.
PushSample(d, amplitude, angle) ==
  IF amplitude < Gate THEN [d EXCEPT !.frequency = 0]
  ELSE [prev |-> angle, valid |-> TRUE, frequency |-> IF d.valid THEN AngleDiff(d.prev, angle) ELSE 0]

\* GetMasterFrac(), GetMasterFracFrequency(): the fraction is rounded down and saturates.
Realised(f) == Clamp(Quantum * ((f + Offset) \div Quantum) - Offset, Lowest, Highest)

\* What is left to correct when the amplitude state has another phase.
Carried(p, phase) == p.carry + phase - p.applied

Correction(carry) == Clamp(carry, -MaxStep, MaxStep)

\* The phase words: the error of this slot's frequency is corrected on the next ones.
PhaseStep(p, frequency, phase) ==
  LET carry == Carried(p, phase)
      error == frequency - Realised(frequency + Correction(carry))
  IN  [carry |-> Clamp(carry + error, -MaxCarry, MaxCarry), applied |-> phase]
==============================================================================
