------------------------------ MODULE ClockPlan ------------------------------
(***************************************************************************)
(* The arithmetic that decides what the clocks and the DMA ring can do:     *)
(* the divider search of the carrier PLL and the pacing clocks (gpio.cpp),  *)
(* the ring length and the advance of the envelope words                    *)
(* (SoapyRPITX_IQ_dmaSync.cpp, SoapyRPITX_Amplitude.hpp).                    *)
(*                                                                         *)
(* Frequencies, rates and delays are integers in small units; one unit of   *)
(* crystal correction moves the source of the pacing clocks by one unit.    *)
(***************************************************************************)
EXTENDS Integers

CONSTANTS
  Bcm2711,                          \* the PLL runs at four times the carrier
  Xosc,                             \* crystal
  VcoMin, VcoPrediv, VcoMax,        \* MIN_PLL_RATE, MIN_PLL_RATE_USE_PDIV, MAX_PLL_RATE
  MaxDivider,                       \* of GPCLK0: 4095 in the code
  PllMin, PllMax,                   \* PllRange()
  Plld,                             \* source of the pacing clocks
  MaxPacingDivider,                 \* of their generators: 4096 in the code
  MinFrame, MaxFrame,               \* bits of a PCM frame: 10 and 999 in the code
  DacFrame, PwmRange,               \* frame of the I2S DAC, period of the PWM envelope
  MinRing, MaxRing,                 \* ring_size, in slots
  RingTime,                         \* slots a ring needs per unit of slot rate
  DefaultTime, RingStep             \* the default ring: length per unit of slot rate, rounding

ASSUME ClockPlanAssumption ==
  /\ Bcm2711 \in BOOLEAN
  /\ {Xosc, VcoMin, VcoPrediv, VcoMax, MaxDivider, PllMin, PllMax, Plld} \subseteq Nat \ {0}
  /\ {MaxPacingDivider, MinFrame, MaxFrame, DacFrame, PwmRange} \subseteq Nat \ {0}
  /\ {MinRing, MaxRing, RingTime, DefaultTime, RingStep} \subseteq Nat \ {0}
  /\ PllMin <= PllMax /\ MinRing <= MaxRing

\* The carrier range is the one the divider search covers (SoapyRPITX_Settings.cpp:82).
ASSUME PllRangeAssumption ==
  /\ MaxDivider >= 2
  /\ VcoMin <= PllMin * MaxDivider
  /\ 2 * VcoMin <= VcoPrediv
  /\ (IF Bcm2711 THEN 4 ELSE 2) * PllMax <= VcoMax

------------------------------------------------------------------------------
(* The carrier. *)

\* A conversion to int: towards zero.
Trunc(a, b) == IF a >= 0 THEN a \div b ELSE -((-a) \div b)

\* std::llround() of a quotient of positive numbers.
Rounded(a, b) == (2 * a + b) \div (2 * b)

Crosses(f, band, d) == Trunc((f + band) * d, Xosc) # Trunc((f - band) * d, Xosc)

Usable(f) == {d \in 2 .. MaxDivider : VcoMin <= f * d /\ f * d <= VcoPrediv}

\* The first divider from the top whose band keeps clear of an integer multiplier,
\* or the last one of the search.
Preferred(f, band, d) ==
  LET Clear == {e \in Usable(f) : ~Crosses(f, band, e)} IN
  IF Clear # {} THEN d \in Clear /\ \A e \in Clear : e <= d
                ELSE d \in Usable(f) /\ \A e \in Usable(f) : d <= e

NoDivider == 0

BestDivider(f, band) ==
  IF f * MaxDivider < VcoMin \/ f * 2 > VcoMax THEN NoDivider
  ELSE IF f * 2 > VcoPrediv THEN 1
  ELSE IF Usable(f) = {} THEN NoDivider
  ELSE CHOOSE d \in Usable(f) : Preferred(f, band, d)

CheckCenterFrequency(f, band) ==
  IF Bcm2711 THEN BestDivider(2 * f, 2 * band) ELSE BestDivider(f, band)

InPllRange(frequency, harmonic) ==
  PllMin * harmonic <= frequency /\ frequency <= PllMax * harmonic

------------------------------------------------------------------------------
(* The pacing clock. *)

Outputs == {"none", "pcm", "pwm"}

\* cm_pll_frequency() of PLLD with a crystal correction.
SourceAt(ppm) == Plld - ppm

DivisorFits(source, rate) == 2 * rate <= source /\ source < MaxPacingDivider * rate

PacingFits(out, slotRate, ppm) ==
  LET source == SourceAt(ppm) IN
  CASE out = "pwm"  -> DivisorFits(source, slotRate * PwmRange)
    [] out = "pcm"  -> DivisorFits(source, slotRate * DacFrame)
    [] out = "none" -> \E frame \in MinFrame .. MaxFrame : DivisorFits(source, slotRate * frame)

------------------------------------------------------------------------------
(* The ring. *)

\* Mutant: half the length is enough.
RingFitsRate_Halved(ring, slotRate) == 2 * ring >= slotRate * RingTime

RingFitsRate(ring, slotRate) == ring >= slotRate * RingTime

DefaultRingSize(slotRate) ==
  LET slots   == slotRate * DefaultTime
      rounded == ((slots + RingStep - 1) \div RingStep) * RingStep
      raised  == IF rounded < MinRing THEN MinRing ELSE rounded
  IN  IF raised > MaxRing THEN MaxRing ELSE raised

\* envelopeLatencyFor(): what the pacing FIFO delays the envelope by, in slots.
Latency(out) == CASE out = "none" -> 0 [] out = "pcm" -> 2 [] out = "pwm" -> 1

\* SoapyRPITX_SplitEnvelopeDelay(): slots the envelope words are written ahead.
Advance(delay, slotsPerSample, out) ==
  LET ahead == Latency(out) - delay * slotsPerSample IN IF ahead > 0 THEN ahead ELSE 0

AdvanceFits(delay, slotsPerSample, out, ring) ==
  Advance(delay, slotsPerSample, out) <= ring \div 8
==============================================================================
