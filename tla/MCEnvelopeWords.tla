--------------------------- MODULE MCEnvelopeWords ---------------------------
(***************************************************************************)
(* Advances for the model checker, and the operators of SlotWords against   *)
(* what they stand for, on small tables.                                    *)
(***************************************************************************)
EXTENDS EnvelopeWords, SlotWords

MCAdvances == {0, 1}
MCLowest   == -9

\* Calibrations of three drive levels, of the two clock pins, and the states they give.
Luts    == {lut \in [0 .. 2 -> 0 .. 5] : LutOk(lut)}
Weights == {w \in [1 .. 3 -> 0 .. 3] : WeightsOk(w)}
Curves  == {t \in UNION {[1 .. n -> 0 .. Full] : n \in 2 .. 3} : CurveOk(t) /\ t[Len(t)] = Full}
Ladders == {AmpStates(lut, w, drive, dual) :
              lut \in Luts, w \in Weights, drive \in 0 .. 2, dual \in BOOLEAN}

Apart(x, y) == IF x < y THEN y - x ELSE x - y

\* The states are sorted, from off to full scale, and no combination is missing.
ASSUME StatesSorted ==
  \A lut \in Luts, w \in Weights, drive \in 0 .. 2, dual \in BOOLEAN :
    LET st == AmpStates(lut, w, drive, dual) IN
    /\ {st[i] : i \in 2 .. Len(st)} = Combined(lut, w, drive, dual)
    /\ st[1].amp = 0 /\ st[Len(st)].amp = Full
    /\ \A i \in 2 .. Len(st) : st[i - 1].amp <= st[i].amp

\* nearest() finds a state at the least distance.
ASSUME NearestIsClosest ==
  \A st \in Ladders, a \in 0 .. Full + 2 :
    \A i \in DOMAIN st : Apart(st[Nearest(st, a)].amp, a) <= Apart(st[i].amp, a)

\* The code is the last one whose value in the table does not exceed the envelope.
ASSUME CodeInverts ==
  \A t \in Curves :
    \A x \in t[1] .. Full :
      LET code == Inverted(t, x) IN
      /\ Interpolated(t, code) <= x
      /\ code < Full => Interpolated(t, code + 1) >= x

\* The history gives back what was pushed, and between two values a value between them.
Filled(v) ==
  LET f[n \in 0 .. Len(v)] == IF n = 0 THEN NoHistory ELSE Pushed(f[n - 1], v[n]) IN f[Len(v)]

ASSUME HistoryReadsBack ==
  \A v \in [1 .. Length + 1 -> 0 .. 1], d \in 0 .. (Length - 2) * Parts :
    LET new == v[Len(v) - d \div Parts]
        old == v[Len(v) - d \div Parts - 1]
    IN  Delayed(Filled(v), d) = new * Parts + (d % Parts) * (old - new)
==============================================================================
