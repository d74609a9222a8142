------------------------- MODULE EnvelopeWords_proofs -------------------------
(***************************************************************************)
(* Facts about SlotWords for every calibration, envelope, history length    *)
(* and step of the PLL; and about the ring of EnvelopeWords, for every size, *)
(* guard and advance: the words of a slot are in place, and stay while it   *)
(* is executed.                                                            *)
(***************************************************************************)
EXTENDS EnvelopeWords, SlotWords, DmaRingTracker_proofs, WellFoundedInduction, TLAPS

(* What the constants are. *)
LEMMA ConstantTypes ==
  /\ Full \in Nat \ {0} /\ Parts \in Nat \ {0} /\ Quantum \in Nat \ {0} /\ Turn \in Nat \ {0}
  /\ Gate \in Nat /\ Offset \in Nat /\ MaxStep \in Nat /\ MaxCarry \in Nat
  /\ Length \in Nat /\ Length >= 2
  /\ Lowest \in Int /\ Highest \in Int /\ Lowest <= Highest
  /\ MaxStep + Quantum <= MaxCarry
BY SlotWordsAssumption

(* One turn of the ring and the next. *)
LEMMA ModOnce ==
  ASSUME NEW n \in Nat \ {0}, NEW a \in Int, 0 <= a, a < 2 * n
  PROVE  a % n = IF a < n THEN a ELSE a - n
<1> DEFINE k == a \div n   r == a % n   b == a - n
<1>1. r \in 0 .. n - 1 /\ k \in Int /\ a = n * k + r
  BY DivMod
<1> HIDE DEF k, r
<1>2. CASE a < n
  <2> DEFINE c == a
  <2>1. n * 0 + c = a /\ c \in 0 .. n - 1 /\ 0 \in Int
    BY <1>2
  <2>2. n * 0 + c = n * k + r
    BY <1>1, <2>1
  <2> HIDE DEF c
  <2>3. c = r
    BY <1>1, <2>1, <2>2, QuotientUnique, Zenon
  <2>4. QED
    BY <1>2, <2>3 DEF r, c
<1>3. CASE ~ (a < n)
  <2>1. n * 1 + b = a /\ b \in 0 .. n - 1 /\ 1 \in Int
    BY <1>3
  <2>2. n * 1 + b = n * k + r
    BY <1>1, <2>1
  <2> HIDE DEF b
  <2>3. b = r
    BY <1>1, <2>1, <2>2, QuotientUnique, Zenon
  <2>4. QED
    BY <1>3, <2>3 DEF r, b
<1>4. QED
  BY <1>2, <1>3

------------------------------------------------------------------------------
(* The amplitude states. *)

\* What AmpStates() gives: the amplitudes rise from off.
Ladder(st) ==
  /\ Len(st) \in Nat \ {0} /\ DOMAIN st = 1 .. Len(st)
  /\ \A i \in 1 .. Len(st) : st[i].amp \in Int
  /\ st[1].amp = 0
  /\ \A i, j \in 1 .. Len(st) : i <= j => st[i].amp <= st[j].amp

\* The distance of a state from an envelope.
Distance(st, a, i) == IF st[i].amp < a THEN a - st[i].amp ELSE st[i].amp - a

(* A non-empty set of naturals has a least element. *)
LEMMA LeastElement ==
  ASSUME NEW T, T \subseteq Nat, T # {}
  PROVE  \E x \in T : \A y \in T : x <= y
<1>1. PICK x \in T : \A y \in T : ~ (<<y, x>> \in OpToRel(<, Nat))
  BY NatLessThanWellFounded, WFMin, Zenon
<1>2. ASSUME NEW y \in T PROVE x <= y
  <2>1. y \in Nat /\ x \in Nat
    OBVIOUS
  <2>2. ~ (y < x)
    BY <1>1, <2>1, Zenon DEF OpToRel
  <2>3. QED
    BY <2>1, <2>2
<1>3. QED
  BY <1>2

(* nearest() of a positive envelope: the first state whose threshold lies above. *)
LEMMA NearestFirst ==
  ASSUME NEW st, NEW a \in Int, Ladder(st), a > 0
  PROVE  /\ Nearest(st, a) \in 1 .. Len(st)
         /\ Above(st, a, Nearest(st, a))
         /\ \A j \in 1 .. Nearest(st, a) - 1 : ~ Above(st, a, j)
<1> DEFINE T == {i \in 1 .. Len(st) : Above(st, a, i)}
           First(i) == Above(st, a, i) /\ \A j \in 1 .. i - 1 : ~ Above(st, a, j)
<1>1. Len(st) \in Nat /\ DOMAIN st = 1 .. Len(st)
  BY DEF Ladder
<1>2. T \subseteq Nat /\ Len(st) \in T
  BY <1>1 DEF Above, Ladder
<1>3. PICK i \in T : \A j \in T : i <= j
  BY <1>2, LeastElement
<1>4. i \in 1 .. Len(st) /\ First(i)
  <2>1. i \in 1 .. Len(st) /\ Above(st, a, i)
    OBVIOUS
  <2>2. ASSUME NEW j \in 1 .. i - 1, Above(st, a, j) PROVE FALSE
    <3>1. j \in T /\ j < i
      BY <2>1, <2>2, <1>1
    <3>2. QED
      BY <3>1, <1>3, <2>1, <1>1
  <2>3. QED
    BY <2>1, <2>2
<1>5. Nearest(st, a) = CHOOSE k \in DOMAIN st : First(k)
  BY DEF Nearest
<1> HIDE DEF First
<1>6. Nearest(st, a) \in DOMAIN st /\ First(Nearest(st, a))
  BY <1>1, <1>4, <1>5, Zenon
<1>7. QED
  BY <1>1, <1>6 DEF First

(* nearest() gives a state of the model, and no state is nearer to the envelope. *)
THEOREM NearestState ==
  ASSUME NEW st, NEW a \in Int, Ladder(st)
  PROVE  /\ Nearest(st, a) \in 1 .. Len(st)
         /\ \A i \in 1 .. Len(st) : Distance(st, a, Nearest(st, a)) <= Distance(st, a, i)
<1>1. /\ Len(st) \in Nat \ {0}
      /\ \A i \in 1 .. Len(st) : st[i].amp \in Int
  BY DEF Ladder
<1>2. CASE a <= 0
  <2>1. Nearest(st, a) = 1
    BY <1>2 DEF Nearest
  <2>2. \A i \in 1 .. Len(st) : 0 <= st[i].amp
    BY <1>1 DEF Ladder
  <2>3. st[1].amp = 0 /\ 1 \in 1 .. Len(st)
    BY <1>1 DEF Ladder
  <2>4. ASSUME NEW i \in 1 .. Len(st) PROVE Distance(st, a, 1) <= Distance(st, a, i)
    <3> DEFINE x == st[i].amp
    <3>1. x \in Int /\ 0 <= x
      BY <1>1, <2>2
    <3> HIDE DEF x
    <3>2. (IF 0 < a THEN a - 0 ELSE 0 - a) <= (IF x < a THEN a - x ELSE x - a)
      BY <1>2, <3>1
    <3>3. QED
      BY <2>3, <3>2 DEF Distance, x
  <2>5. QED
    BY <2>1, <2>3, <2>4
<1>3. CASE a > 0
  <2> DEFINE k == Nearest(st, a)
             amp(i) == st[i].amp
  <2>1. /\ k \in 1 .. Len(st) /\ Above(st, a, k)
        /\ \A j \in 1 .. k - 1 : ~ Above(st, a, j)
    BY <1>3, NearestFirst
  <2> HIDE DEF k
  <2>2. SUFFICES ASSUME NEW i \in 1 .. Len(st) PROVE Distance(st, a, k) <= Distance(st, a, i)
    BY <2>1 DEF k
  <2>3. amp(i) \in Int /\ amp(k) \in Int
    BY <1>1, <2>1
  <2>4. CASE i < k
    <3>1. k - 1 \in 1 .. Len(st) /\ k - 1 \in 1 .. k - 1 /\ i <= k - 1 /\ k - 1 # Len(st) /\ (k - 1) + 1 = k
      BY <1>1, <2>1, <2>4
    <3>2. amp(k - 1) \in Int
      BY <1>1, <3>1
    <3>3. ~ (2 * a < amp(k - 1) + amp(k))
      BY <2>1, <3>1 DEF Above
    <3>4. amp(i) <= amp(k - 1) /\ amp(i) <= amp(k)
      BY <2>1, <2>4, <3>1, <1>1 DEF Ladder
    <3> HIDE DEF amp
    <3>5. (IF amp(k) < a THEN a - amp(k) ELSE amp(k) - a) <= (IF amp(i) < a THEN a - amp(i) ELSE amp(i) - a)
      BY <2>3, <3>2, <3>3, <3>4
    <3>6. QED
      BY <3>5 DEF Distance, amp
  <2>5. CASE i > k
    <3>1. k + 1 \in 1 .. Len(st) /\ k + 1 <= i /\ k # Len(st) /\ k <= i
      BY <1>1, <2>1, <2>5
    <3>2. amp(k + 1) \in Int
      BY <1>1, <3>1
    <3>3. 2 * a < amp(k) + amp(k + 1)
      BY <2>1, <3>1 DEF Above
    <3>4. amp(k + 1) <= amp(i) /\ amp(k) <= amp(i)
      BY <2>1, <3>1, <1>1 DEF Ladder
    <3> HIDE DEF amp
    <3>5. (IF amp(k) < a THEN a - amp(k) ELSE amp(k) - a) <= (IF amp(i) < a THEN a - amp(i) ELSE amp(i) - a)
      BY <2>3, <3>2, <3>3, <3>4
    <3>6. QED
      BY <3>5 DEF Distance, amp
  <2>6. CASE i = k
    BY <2>6, <2>3 DEF Distance
  <2>7. i < k \/ i > k \/ i = k
    BY <1>1, <2>1
  <2>8. QED
    BY <2>1, <2>4, <2>5, <2>6, <2>7
<1>4. QED
  BY <1>2, <1>3

(* First-order error feedback keeps up: with an envelope within full scale and states at    *)
(* most gap apart, an error of at most half a gap stays so, is never cut off by the limit,   *)
(* and grows by exactly what the slot was too weak.  Over any number of slots the output     *)
(* is then within a gap of the envelope asked for.                                           *)
THEOREM FirstOrderTracks ==
  ASSUME NEW st, NEW a \in 0 .. Full, NEW q, NEW gap \in Nat,
         Ladder(st), st[Len(st)].amp = Full,
         \A i \in 1 .. Len(st) - 1 : st[i + 1].amp - st[i].amp <= gap,
         gap <= 2 * Full,
         q.e1 \in Int, -gap <= 2 * q.e1, 2 * q.e1 <= gap
  PROVE  LET e == Quantized(q, st, a, 1).e1 IN
         /\ e \in Int /\ -gap <= 2 * e /\ 2 * e <= gap
         /\ e - q.e1 = a - st[Nearest(st, Fed(q, a, 1))].amp
<1> DEFINE old == q.e1
           v == a + old
           k == Nearest(st, v)
           amp(i) == st[i].amp
<1>1. /\ Full \in Nat \ {0} /\ a \in Int /\ v \in Int
      /\ -gap <= 2 * v /\ 2 * v <= 2 * Full + gap
  <2>1. old \in Int /\ -gap <= 2 * old /\ 2 * old <= gap
    OBVIOUS
  <2> HIDE DEF old
  <2>2. QED
    BY <2>1, ConstantTypes
<1>2. Fed(q, a, 1) = v
  BY DEF Fed
<1>3. /\ Len(st) \in Nat \ {0} /\ amp(1) = 0 /\ amp(Len(st)) = Full
      /\ \A i \in 1 .. Len(st) : amp(i) \in Int
  BY DEF Ladder
<1>4. k \in 1 .. Len(st) /\ amp(k) \in Int
  BY <1>1, <1>3, NearestState
<1>5. -gap <= 2 * (v - amp(k)) /\ 2 * (v - amp(k)) <= gap
  <2>1. CASE v <= 0
    <3>1. k = 1
      BY <2>1 DEF Nearest
    <3> HIDE DEF k, v, amp
    <3>2. QED
      BY <1>1, <1>3, <3>1, <2>1
  <2>2. CASE v > 0
    <3>1. Above(st, v, k) /\ \A j \in 1 .. k - 1 : ~ Above(st, v, j)
      BY <1>1, <2>2, NearestFirst
    <3> HIDE DEF k, v
    <3>2. -gap <= 2 * (v - amp(k))
      <4>1. CASE k = 1
        <5> HIDE DEF amp
        <5>1. QED
          BY <1>1, <1>3, <2>2, <4>1
      <4>2. CASE k > 1
        <5>1. /\ k - 1 \in 1 .. Len(st) /\ k - 1 \in 1 .. k - 1 /\ k - 1 # Len(st)
              /\ (k - 1) + 1 = k /\ k - 1 \in 1 .. Len(st) - 1
          BY <1>3, <1>4, <4>2
        <5>2. ~ (2 * v < amp(k - 1) + amp(k))
          BY <3>1, <5>1 DEF Above
        <5>3. amp(k) - amp(k - 1) <= gap
          BY <5>1
        <5>4. amp(k - 1) \in Int
          BY <1>3, <5>1
        <5> HIDE DEF amp
        <5>5. QED
          BY <1>1, <1>4, <5>2, <5>3, <5>4
      <4>3. QED
        BY <1>3, <1>4, <4>1, <4>2
    <3>3. 2 * (v - amp(k)) <= gap
      <4>1. CASE k = Len(st)
        <5> HIDE DEF amp
        <5>1. QED
          BY <1>1, <1>3, <4>1
      <4>2. CASE k # Len(st)
        <5>1. k + 1 \in 1 .. Len(st) /\ k \in 1 .. Len(st) - 1
          BY <1>3, <1>4, <4>2
        <5>2. 2 * v < amp(k) + amp(k + 1)
          BY <3>1, <4>2 DEF Above
        <5>3. amp(k + 1) - amp(k) <= gap
          BY <5>1
        <5>4. amp(k + 1) \in Int
          BY <1>3, <5>1
        <5> HIDE DEF amp
        <5>5. QED
          BY <1>1, <1>4, <5>2, <5>3, <5>4
      <4>3. QED
        BY <4>1, <4>2
    <3>4. QED
      BY <3>2, <3>3
  <2>3. QED
    BY <1>1, <2>1, <2>2
<1>6. Quantized(q, st, a, 1).e1 = Clamp(v - amp(k), -Full, Full)
  BY <1>2 DEF Quantized
<1> DEFINE e == v - amp(k)
<1>7. e \in Int /\ -Full <= e /\ e <= Full
  <2> HIDE DEF k, v, amp
  <2>1. QED
    BY <1>1, <1>4, <1>5
<1>8. Clamp(e, -Full, Full) = e
  <2> HIDE DEF e
  <2>1. QED
    BY <1>1, <1>7 DEF Clamp
<1>9. e - old = a - amp(k)
  <2>1. old \in Int
    OBVIOUS
  <2> HIDE DEF k, amp, old
  <2>2. QED
    BY <1>1, <1>4, <2>1
<1>10. QED
  BY <1>2, <1>5, <1>6, <1>7, <1>8, <1>9

------------------------------------------------------------------------------
(* The phase. *)

(* angleDiff() is the shortest way from one angle to the other. *)
THEOREM AngleDiffShortest ==
  ASSUME NEW x \in Int, NEW y \in Int
  PROVE  /\ AngleDiff(x, y) \in Int
         /\ -Half <= AngleDiff(x, y) /\ AngleDiff(x, y) < Half
         /\ \E k \in Int : y = x + AngleDiff(x, y) + Turn * k
<1> DEFINE z == y - x + Half
           k == z \div Turn
           r == z % Turn
<1>1. Turn \in Nat \ {0} /\ Half \in Nat /\ Turn = 2 * Half
  BY SlotWordsAssumption DEF Half
<1>2. z \in Int
  BY <1>1
<1>3. k \in Int /\ r \in 0 .. Turn - 1 /\ z = Turn * k + r
  BY <1>1, <1>2, DivMod
<1>4. AngleDiff(x, y) = r - Half
  BY DEF AngleDiff
<1> DEFINE turns == Turn * k
<1>5. turns \in Int
  BY <1>1, <1>3
<1>6. y = x + (r - Half) + turns
  <2> HIDE DEF r, turns
  <2>1. y - x + Half = turns + r
    BY <1>3 DEF turns
  <2>2. QED
    BY <1>1, <1>3, <1>5, <2>1
<1>7. -Half <= r - Half /\ r - Half < Half /\ r - Half \in Int
  BY <1>1, <1>3
<1>8. QED
  BY <1>3, <1>4, <1>6, <1>7

(* A sample below the gate costs no phase: the next one with a phase makes up for the whole *)
(* change since the last one that had a phase.                                             *)
THEOREM GapMadeUp ==
  ASSUME NEW d, d.valid = TRUE, d.prev \in Int, DOMAIN d = {"prev", "valid", "frequency"},
         NEW weak \in Nat, NEW noise \in Int, weak < Gate,
         NEW strong \in Nat, NEW angle \in Int, strong >= Gate
  PROVE  LET after == PushSample(PushSample(d, weak, noise), strong, angle) IN
         \E k \in Int : angle = d.prev + after.frequency + Turn * k
<1> DEFINE gap == PushSample(d, weak, noise)
<1>1. gap = [d EXCEPT !.frequency = 0]
  BY DEF PushSample
<1>2. gap.prev = d.prev /\ gap.valid = TRUE
  BY <1>1
<1>3. ~ (strong < Gate)
  BY SlotWordsAssumption
<1>4. PushSample(gap, strong, angle).frequency = AngleDiff(d.prev, angle)
  BY <1>2, <1>3 DEF PushSample
<1>5. QED
  BY <1>4, AngleDiffShortest

(* The PLL realises a frequency within its range from below, to within its step.           *)
LEMMA RealisedBelow ==
  ASSUME NEW f \in Int, Lowest <= f, f <= Highest
  PROVE  Realised(f) \in Int /\ f - Quantum < Realised(f) /\ Realised(f) <= f
<1> DEFINE x == f + Offset
           k == x \div Quantum   r == x % Quantum
           lo == (Lowest + Offset) \div Quantum
           grid == Quantum * k
<1>1. x \in Int /\ Lowest + Offset \in Int
  BY ConstantTypes
<1>2. k \in Int /\ r \in 0 .. Quantum - 1 /\ x = grid + r /\ grid \in Int
  <2> HIDE DEF x
  <2>1. k \in Int /\ r \in 0 .. Quantum - 1 /\ x = Quantum * k + r
    BY <1>1, ConstantTypes, DivMod, Zenon
  <2>2. grid \in Int
    <3> HIDE DEF k
    <3>1. QED
      BY <2>1, ConstantTypes
  <2>3. QED
    BY <2>1, <2>2
<1>3. lo \in Int /\ Lowest + Offset = Quantum * lo
  <2>1. /\ lo \in Int /\ Lowest + Offset = Quantum * lo + ((Lowest + Offset) % Quantum)
    BY <1>1, ConstantTypes, DivMod
  <2>2. (Lowest + Offset) % Quantum = 0 /\ Quantum * lo \in Int
    BY <2>1, ConstantTypes, SlotWordsAssumption
  <2> HIDE DEF lo
  <2>3. QED
    BY <2>1, <2>2
<1>4. grid >= Lowest + Offset
  <2>1. ~ (k < lo)
    <3>1. SUFFICES ASSUME k < lo PROVE FALSE
      OBVIOUS
    <3>2. grid + Quantum <= Quantum * lo
      BY <1>2, <1>3, <3>1, ConstantTypes, MultiplesApart
    <3> HIDE DEF k, lo, r, grid
    <3>3. QED
      BY <1>2, <1>3, <3>2, ConstantTypes
  <2>2. k = lo \/ lo < k
    <3> HIDE DEF k, lo
    <3>1. QED
      BY <1>2, <1>3, <2>1
  <2>3. CASE k = lo
    BY <1>3, <2>3, <1>1
  <2>4. CASE lo < k
    <3>1. Quantum * lo + Quantum <= grid
      BY <1>2, <1>3, <2>4, ConstantTypes, MultiplesApart
    <3> HIDE DEF k, lo, grid
    <3>2. QED
      BY <1>2, <1>3, <3>1, ConstantTypes
  <2>5. QED
    BY <2>2, <2>3, <2>4
<1>5. Realised(f) = Clamp(grid - Offset, Lowest, Highest)
  BY DEF Realised
<1> HIDE DEF k, r, grid, lo
<1>6. grid - Offset \in Int /\ Lowest <= grid - Offset /\ grid - Offset <= f /\ f - Quantum < grid - Offset
  BY <1>2, <1>4, ConstantTypes
<1>7. Clamp(grid - Offset, Lowest, Highest) = grid - Offset
  BY <1>6, ConstantTypes DEF Clamp
<1>8. QED
  BY <1>5, <1>6, <1>7

(* No phase is lost to the step of the PLL: as long as neither the fraction nor the carry   *)
(* saturates, what a slot's frequency and amplitude state asked for and the PLL did not do   *)
(* is carried over exactly, and of the error only what exceeds one correction remains, plus  *)
(* less than one step.                                                                      *)
THEOREM PhaseCarried ==
  ASSUME NEW p, p.carry \in Int, p.applied \in Int, NEW phase \in Int, NEW frequency \in Int,
         -MaxCarry <= Carried(p, phase), Carried(p, phase) + Quantum <= MaxCarry,
         Lowest <= frequency + Correction(Carried(p, phase)),
         frequency + Correction(Carried(p, phase)) <= Highest
  PROVE  LET carry  == Carried(p, phase)
             output == Realised(frequency + Correction(carry))
             next   == PhaseStep(p, frequency, phase)
         IN  /\ next.carry - p.carry = frequency + (phase - p.applied) - output
             /\ 0 <= next.carry - (carry - Correction(carry))
             /\ next.carry - (carry - Correction(carry)) < Quantum
<1> DEFINE old     == p.carry
           applied == p.applied
           carry   == Carried(p, phase)
           corr    == Correction(carry)
           output  == Realised(frequency + corr)
           new     == carry + (frequency - output)
<1>1. old \in Int /\ applied \in Int /\ carry = old + phase - applied /\ carry \in Int
  BY DEF Carried
<1>2. corr \in Int /\ -MaxStep <= corr /\ corr <= MaxStep
      /\ (corr = carry \/ (corr = MaxStep /\ carry > MaxStep) \/ (corr = -MaxStep /\ carry < -MaxStep))
  <2> HIDE DEF carry
  <2>1. QED
    BY <1>1, ConstantTypes DEF Correction, Clamp
<1>3. output \in Int /\ frequency + corr - Quantum < output /\ output <= frequency + corr
  <2> DEFINE sum == frequency + corr
  <2>1. Lowest <= sum /\ sum <= Highest
    OBVIOUS
  <2> HIDE DEF corr
  <2>2. sum \in Int /\ output = Realised(sum)
    BY <1>2
  <2> HIDE DEF sum
  <2>3. Realised(sum) \in Int /\ sum - Quantum < Realised(sum) /\ Realised(sum) <= sum
    BY <2>1, <2>2, RealisedBelow
  <2>4. output \in Int /\ sum - Quantum < output /\ output <= sum
    BY <2>2, <2>3, Zenon
  <2> HIDE DEF output
  <2>5. QED
    BY <1>2, <2>4, ConstantTypes DEF sum
<1>4. PhaseStep(p, frequency, phase).carry = Clamp(new, -MaxCarry, MaxCarry)
  BY DEF PhaseStep
<1>5. -MaxCarry <= carry /\ carry + Quantum <= MaxCarry
  OBVIOUS
<1> HIDE DEF old, applied, carry, corr, output
<1>6. new \in Int /\ 0 <= new - (carry - corr) /\ new - (carry - corr) < Quantum
  BY <1>1, <1>2, <1>3, ConstantTypes
<1>7. -MaxCarry <= new /\ new <= MaxCarry
  BY <1>1, <1>2, <1>5, <1>6, ConstantTypes
<1>8. Clamp(new, -MaxCarry, MaxCarry) = new
  BY <1>6, <1>7, ConstantTypes DEF Clamp
<1>9. new - old = frequency + (phase - applied) - output
  BY <1>1, <1>3
<1>10. QED
  BY <1>4, <1>6, <1>8, <1>9 DEF old, applied, carry, corr, output

(* An error that one correction can make up for leaves less than one step of the PLL.       *)
COROLLARY PhaseSettled ==
  ASSUME NEW p, p.carry \in Int, p.applied \in Int, NEW phase \in Int, NEW frequency \in Int,
         -MaxStep <= Carried(p, phase), Carried(p, phase) <= MaxStep,
         Lowest <= frequency + Carried(p, phase), frequency + Carried(p, phase) <= Highest
  PROVE  PhaseStep(p, frequency, phase).carry \in 0 .. Quantum - 1
<1> DEFINE carry == Carried(p, phase)
           new   == PhaseStep(p, frequency, phase).carry
<1>1. carry \in Int
  BY DEF Carried
<1>2. Correction(carry) = carry
  <2> HIDE DEF carry
  <2>1. -MaxStep <= carry /\ carry <= MaxStep
    BY DEF carry
  <2>2. QED
    BY <1>1, <2>1, ConstantTypes DEF Correction, Clamp
<1>3. -MaxCarry <= carry /\ carry + Quantum <= MaxCarry
  <2> HIDE DEF carry
  <2>1. -MaxStep <= carry /\ carry <= MaxStep
    BY DEF carry
  <2>2. QED
    BY <1>1, <2>1, ConstantTypes
<1>4. 0 <= new - (carry - carry) /\ new - (carry - carry) < Quantum
  BY <1>2, <1>3, PhaseCarried
<1>5. new \in Int
  <2> DEFINE x == carry + (frequency - Realised(frequency + carry))
  <2>1. Realised(frequency + carry) \in Int
    BY <1>1, RealisedBelow
  <2>2. x \in Int
    <3> HIDE DEF carry
    <3>1. QED
      BY <1>1, <2>1
  <2>3. new = Clamp(x, -MaxCarry, MaxCarry)
    BY <1>2 DEF PhaseStep
  <2> HIDE DEF x, new
  <2>4. QED
    BY <2>2, <2>3, ConstantTypes DEF Clamp
<1> HIDE DEF new, carry
<1>6. new \in 0 .. Quantum - 1
  BY <1>1, <1>4, <1>5, ConstantTypes
<1>7. QED
  BY <1>6 DEF new

------------------------------------------------------------------------------
(* The envelope history. *)

Histories == [values : [0 .. Length - 1 -> Int], head : 0 .. Length - 1]

(* The history shifts: the newest value is the one pushed, every older one is one slot       *)
(* further back than before.                                                                *)
THEOREM HistoryShifts ==
  ASSUME NEW h \in Histories, NEW v \in Int
  PROVE  /\ Pushed(h, v) \in Histories
         /\ Back(Pushed(h, v), 0) = v
         /\ \A i \in 0 .. Length - 2 : Back(Pushed(h, v), i + 1) = Back(h, i)
<1> DEFINE n    == Length
           old  == h.head
           head == (old + 1) % n
           vals == [h.values EXCEPT ![head] = v]
<1>1. n \in Nat \ {0} /\ n >= 2 /\ old \in 0 .. n - 1 /\ h.values \in [0 .. n - 1 -> Int]
  BY ConstantTypes DEF Histories
<1>2. head \in 0 .. n - 1 /\ ((old + 1 < n /\ head = old + 1) \/ (old + 1 = n /\ head = 0))
  <2> DEFINE a == old + 1
  <2>1. a \in Int /\ 0 <= a /\ a < 2 * n
    BY <1>1
  <2>2. head = IF a < n THEN a ELSE a - n
    BY <1>1, <2>1, ModOnce
  <2> HIDE DEF n, old, head
  <2>3. QED
    BY <1>1, <2>2
<1>3. Pushed(h, v) = [values |-> vals, head |-> head]
  BY DEF Pushed
<1>4. vals \in [0 .. n - 1 -> Int]
  BY <1>1, <1>2
<1>5. Pushed(h, v) \in Histories
  BY <1>2, <1>3, <1>4 DEF Histories
<1>6. ASSUME NEW a \in 0 .. n - 1, NEW i \in 0 .. n - 1
      PROVE  (a + n - i) % n = IF i <= a THEN a - i ELSE a + n - i
  <2> DEFINE b == a + n - i
  <2> HIDE DEF n
  <2>1. b \in Int /\ 0 <= b /\ b < 2 * n
    BY <1>1
  <2>2. b % n = IF b < n THEN b ELSE b - n
    BY <1>1, <2>1, ModOnce
  <2>3. (IF b < n THEN b ELSE b - n) = IF i <= a THEN a - i ELSE a + n - i
    BY <1>1
  <2>4. QED
    BY <2>2, <2>3
<1>7. Back(Pushed(h, v), 0) = v
  <2>1. 0 \in 0 .. n - 1
    BY <1>1
  <2>2. (head + n - 0) % n = head
    <3> HIDE DEF n, head
    <3>1. (head + n - 0) % n = IF 0 <= head THEN head - 0 ELSE head + n - 0
      BY <1>2, <1>6, <2>1
    <3>2. QED
      BY <1>1, <1>2, <3>1
  <2>3. vals[head] = v
    BY <1>1, <1>2
  <2>4. QED
    BY <1>3, <2>2, <2>3 DEF Back
<1>8. ASSUME NEW i \in 0 .. n - 2
      PROVE  Back(Pushed(h, v), i + 1) = Back(h, i)
  <2> DEFINE at == (old + n - i) % n
  <2>1. i \in 0 .. n - 1 /\ i + 1 \in 0 .. n - 1
    BY <1>1
  <2>2. (head + n - (i + 1)) % n = at /\ at \in 0 .. n - 1 /\ at # head
    <3> DEFINE now == (head + n - (i + 1)) % n
    <3> HIDE DEF n, head, old
    <3>1. now = IF i + 1 <= head THEN head - (i + 1) ELSE head + n - (i + 1)
      BY <1>2, <1>6, <2>1
    <3>2. at = IF i <= old THEN old - i ELSE old + n - i
      BY <1>1, <1>6, <2>1
    <3> HIDE DEF at, now
    <3>3. now = at /\ at \in 0 .. n - 1 /\ at # head
      BY <1>1, <1>2, <2>1, <3>1, <3>2
    <3>4. QED
      BY <3>3 DEF now
  <2>3. vals[at] = h.values[at]
    BY <1>1, <2>2
  <2>4. Back(Pushed(h, v), i + 1) = vals[at]
    BY <1>3, <2>2 DEF Back
  <2>5. QED
    BY <2>3, <2>4 DEF Back
<1>9. QED
  BY <1>5, <1>7, <1>8

------------------------------------------------------------------------------
(* The place of the words. *)

Vals == Nat \union {Off}

LEMMA RingConstants ==
  /\ N \in Nat \ {0} /\ N >= 4
  /\ Guard \in Nat /\ Guard > 0 /\ Guard <= N - 2
  /\ Margin \in Nat /\ Pacing \in Nat /\ MaxLag \in Nat /\ Busy \in Nat /\ Skew \in Nat
  /\ Chunk \in Nat /\ Skew + Busy < Guard
  /\ \A a \in Advances : a \in Nat /\ a < N
  /\ Target \in Nat
<1>1. N \in Nat \ {0} /\ N >= 4
  BY RingAssumption
<1>2. Target \in Nat
  <2>1. (N * 3) \div 4 \in Nat
    BY <1>1
  <2> QED
    BY <2>1 DEF Target
<1>3. \A a \in Advances : a \in Nat /\ a < N
  <2>1. N \div 8 \in Int /\ N \div 8 < N
    BY <1>1
  <2> QED
    BY <1>1, <2>1, WordsAssumption
<1> QED
  BY <1>1, <1>2, <1>3, WordsAssumption

LEMMA SlotIn ==
  ASSUME NEW p \in Int
  PROVE  RingSlot(p) \in Slots
BY RingConstants, DivMod DEF RingSlot, Slots

\* Positions less than a ring apart have slots of their own.
LEMMA Distinct ==
  ASSUME NEW p \in Int, NEW q \in Int, p # q, p < q + N, q < p + N
  PROVE  RingSlot(p) # RingSlot(q)
<1>1. N \in Nat \ {0}
  BY RingConstants
<1>2. CASE p < q
  BY <1>1, <1>2, SlotsDiffer DEF RingSlot
<1>3. CASE q < p
  BY <1>1, <1>3, SlotsDiffer DEF RingSlot
<1> QED
  BY <1>2, <1>3

LEMMA SilencedSlots ==
  ASSUME NEW f \in [Slots -> Vals], NEW from \in Int, NEW to \in Int
  PROVE  /\ Silenced(f, from, to) \in [Slots -> Vals]
         /\ \A s \in Slots : Silenced(f, from, to)[s] \in {f[s], Off}
         /\ \A p \in from .. to - 1 : Silenced(f, from, to)[RingSlot(p)] = Off
         /\ \A p \in Int : (\A q \in from .. to - 1 : p # q /\ p < q + N /\ q < p + N)
                              => Silenced(f, from, to)[RingSlot(p)] = f[RingSlot(p)]
<1> DEFINE g == Silenced(f, from, to)
<1>1. g = [s \in Slots |-> IF \E p \in from .. to - 1 : RingSlot(p) = s THEN Off ELSE f[s]]
  BY DEF Silenced
<1>2. \A s \in Slots : g[s] = IF \E p \in from .. to - 1 : RingSlot(p) = s THEN Off ELSE f[s]
  BY <1>1
<1>3. g \in [Slots -> Vals]
  BY <1>1 DEF Vals
<1>4. \A s \in Slots : g[s] \in {f[s], Off}
  BY <1>2
<1> HIDE DEF g
<1>5. ASSUME NEW p \in from .. to - 1
      PROVE  g[RingSlot(p)] = Off
  BY <1>2, <1>5, SlotIn
<1>6. ASSUME NEW p \in Int, \A q \in from .. to - 1 : p # q /\ p < q + N /\ q < p + N
      PROVE  g[RingSlot(p)] = f[RingSlot(p)]
  <2>1. \A q \in from .. to - 1 : RingSlot(q) # RingSlot(p)
    BY <1>6, Distinct
  <2> QED
    BY <1>2, <2>1, SlotIn
<1> QED
  BY <1>3, <1>4, <1>5, <1>6 DEF g

------------------------------------------------------------------------------
(* The inductive invariant. *)

WordTypes ==
  /\ trk \in Trackers
  /\ eng \in Nat /\ lag \in Nat /\ on \in BOOLEAN
  /\ words \in [Slots -> Vals] /\ data \in [Slots -> Vals]
  /\ lastData \in Nat /\ prefix \in Nat /\ adv \in Advances /\ want \in Advances
  /\ fpc \in {"top", "fill", "poll", "pad", "pump", "write"}
  /\ queued \in Nat /\ replay \in Seq(BOOLEAN)
  /\ batch \in Int /\ limit \in Int /\ moved \in Nat /\ dropped \subseteq Nat

\* The tracker knows where the engine was at the last poll.
Tracked ==
  /\ trk.prev = RingSlot(trk.rd) /\ eng = trk.rd + lag
  /\ ~on => eng = 0

\* A stopped engine's ring is empty until the idle prefix is written.
PeriodInv ==
  /\ fpc = "fill" => ~on
  /\ fpc \in {"poll", "pad"} => on
  /\ ~on /\ prefix = 0 => trk.wr = 0 /\ fpc \in {"top", "fill"}

\* The writer is less than a ring ahead of the polled position, and has room for its chunk.
RoomInv ==
  /\ trk.wr <= trk.rd + N - 2
  /\ fpc = "write" =>
       /\ batch >= 1 /\ trk.wr + batch <= trk.rd + N - 2
       /\ batch <= IF replay # <<>> THEN Len(replay) ELSE queued

\* Nothing in the ring is newer than the last data slot written.
NewestInv ==
  /\ lastData <= trk.wr
  /\ \A s \in Slots : data[s] < lastData
  /\ \A p \in dropped : p < trk.wr

\* The limit stays ahead of the engine until the chunk is written.
LimitInv == fpc = "write" /\ on => eng + (Busy - moved) < limit /\ moved <= Busy

WInv == WordTypes /\ Tracked /\ PeriodInv /\ RoomInv /\ NewestInv /\ LimitInv

------------------------------------------------------------------------------
(* What the steps do to the ring. *)

Pads(c) ==
  /\ trk' = [trk EXCEPT !.wr = trk.wr + c]
  /\ words' = Silenced(words, trk.wr, trk.wr + c)
  /\ data' = Silenced(data, trk.wr, trk.wr + c)

LEMMA PadEffect ==
  ASSUME WordTypes, RoomInv, NEW level \in Int, PadTo(level)
  PROVE  \E c \in Nat : trk.wr + c <= trk.rd + N - 2 /\ Pads(c)
<1> DEFINE c == Writable(trk, level)
<1>1. trk.rd \in Nat /\ trk.wr \in Nat /\ N \in Nat
  BY RingConstants DEF WordTypes, Trackers
<1>2. c \in Nat /\ trk.wr + c <= trk.rd + N - 2
  <2>1. CASE Fill(trk) < 0 \/ Fill(trk) >= Smaller(level, N - 2)
    BY <1>1, <2>1 DEF Writable, RoomInv
  <2>2. CASE ~ (Fill(trk) < 0 \/ Fill(trk) >= Smaller(level, N - 2))
    <3> DEFINE m == Smaller(level, N - 2)
    <3>1. m \in Int /\ m <= N - 2
      BY <1>1 DEF Smaller
    <3>2. c = m - Fill(trk) /\ ~ (Fill(trk) >= m)
      BY <2>2 DEF Writable
    <3> HIDE DEF m, c
    <3> QED
      BY <1>1, <3>1, <3>2 DEF Fill
  <2> QED
    BY <2>1, <2>2
<1>3. Pads(c)
  BY DEF PadTo, Pads, AdvanceWrite
<1> HIDE DEF c
<1> QED
  BY <1>2, <1>3

\* What a step that only adds idle slots leaves of the tracker, and of the slots in the ring.
LEMMA PadsSlots ==
  ASSUME WordTypes, RoomInv, NEW c \in Nat, Pads(c), trk.wr + c <= trk.rd + N - 2
  PROVE  /\ trk' \in Trackers /\ trk'.rd = trk.rd /\ trk'.prev = trk.prev /\ trk'.wr = trk.wr + c
         /\ words' \in [Slots -> Vals] /\ data' \in [Slots -> Vals]
         /\ \A s \in Slots : data'[s] \in {data[s], Off}
         /\ \A p \in trk.wr .. trk.wr + c - 1 : words'[RingSlot(p)] = Off /\ data'[RingSlot(p)] = Off
         /\ \A p \in trk.rd .. trk.wr - 1 :
              words'[RingSlot(p)] = words[RingSlot(p)] /\ data'[RingSlot(p)] = data[RingSlot(p)]
<1>1. trk \in Trackers /\ trk.rd \in Nat /\ trk.wr \in Nat /\ N \in Nat /\ trk.wr + c \in Int
  BY RingConstants DEF WordTypes, Trackers
<1>2. trk' \in Trackers /\ trk'.rd = trk.rd /\ trk'.prev = trk.prev /\ trk'.wr = trk.wr + c
  BY <1>1 DEF Pads, Trackers
<1>3. words \in [Slots -> Vals] /\ data \in [Slots -> Vals]
  BY DEF WordTypes
<1> DEFINE a == trk.wr   b == trk.wr + c
<1>5. a \in Int /\ b \in Int /\ b <= trk.rd + N - 2
  BY <1>1
<1>6. words' = Silenced(words, a, b) /\ data' = Silenced(data, a, b)
  BY DEF Pads
<1>a. a = trk.wr /\ b = trk.wr + c
  OBVIOUS
<1> HIDE DEF a, b
<1>7. ASSUME NEW p \in trk.rd .. trk.wr - 1
      PROVE  \A q \in a .. b - 1 : p # q /\ p < q + N /\ q < p + N
  BY <1>1, <1>5, <1>a
<1>8. \A p \in trk.rd .. trk.wr - 1 : p \in Int
  BY <1>1
<1>9. \A p \in trk.rd .. trk.wr - 1 :
         words'[RingSlot(p)] = words[RingSlot(p)] /\ data'[RingSlot(p)] = data[RingSlot(p)]
  BY <1>3, <1>5, <1>6, <1>7, <1>8, SilencedSlots
<1>10. /\ words' \in [Slots -> Vals] /\ data' \in [Slots -> Vals]
       /\ \A s \in Slots : data'[s] \in {data[s], Off}
       /\ \A p \in a .. b - 1 : words'[RingSlot(p)] = Off /\ data'[RingSlot(p)] = Off
  BY <1>3, <1>5, <1>6, SilencedSlots
<1> QED
  <2>1. \A p \in trk.wr .. trk.wr + c - 1 : p \in a .. b - 1
    BY <1>1, <1>5, <1>a
  <2>2. \A p \in trk.wr .. trk.wr + c - 1 : words'[RingSlot(p)] = Off /\ data'[RingSlot(p)] = Off
    BY <1>10, <2>1, Zenon
  <2> QED
    BY <1>2, <1>9, <1>10, <2>2, Zenon

\* A poll finds the engine, and leaves what is still to be executed alone; when the engine
\* had reached the writer, a silent ring.
LEMMA PollEffect ==
  ASSUME WordTypes, Tracked, Poll
  PROVE  /\ trk' \in Trackers /\ trk'.rd = eng /\ trk'.prev = RingSlot(eng)
         /\ words' \in [Slots -> Vals] /\ data' \in [Slots -> Vals]
         /\ \A s \in Slots : data'[s] \in {data[s], Off}
         /\ eng < trk.wr =>
              /\ trk'.wr = trk.wr
              /\ \A p \in eng .. trk.wr - 1 :
                   words'[RingSlot(p)] = words[RingSlot(p)] /\ data'[RingSlot(p)] = data[RingSlot(p)]
         /\ ~ (eng < trk.wr) =>
              /\ trk'.wr = eng + Guard
              /\ \A p \in eng + 1 .. eng + Guard - 1 :
                   words'[RingSlot(p)] = Off /\ data'[RingSlot(p)] = Off
<1> DEFINE moved0 == Update(trk, RingSlot(eng), eng - trk.rd)
           over == Fill(moved0) <= 0
           t == IF over THEN Resync(moved0, Guard) ELSE moved0
           Kept(f) == IF over THEN [s \in Slots |-> IF s = RingSlot(t.rd) THEN f[s] ELSE Off] ELSE f
           begin == Larger(ScrubBegin(t), ScrubEnd(t) - N)
<1>0. /\ N \in Nat \ {0} /\ N >= 4 /\ Guard \in Nat /\ Guard > 0 /\ Guard <= N - 2
      /\ trk \in Trackers /\ trk.rd \in Nat /\ trk.wr \in Nat /\ trk.scrubbed \in Nat
      /\ eng \in Nat /\ lag \in Nat /\ eng = trk.rd + lag
      /\ words \in [Slots -> Vals] /\ data \in [Slots -> Vals]
  BY RingConstants DEF WordTypes, Trackers, Tracked
<1>1. moved0 = [trk EXCEPT !.rd = eng, !.prev = RingSlot(eng)]
  <2>1. eng - trk.rd \in Int /\ 2 * ((eng - trk.rd) - lag) < N /\ 2 * (lag - (eng - trk.rd)) < N
    BY <1>0
  <2>2. trk.prev = trk.rd % N
    BY DEF Tracked, RingSlot
  <2>3. Update(trk, (trk.rd + lag) % N, eng - trk.rd)
          = [trk EXCEPT !.rd = trk.rd + lag, !.prev = (trk.rd + lag) % N]
    BY <1>0, <2>1, <2>2, UpdateExact
  <2> QED
    BY <1>0, <2>3 DEF RingSlot
<1>2. /\ moved0 \in Trackers /\ moved0.rd = eng /\ moved0.prev = RingSlot(eng)
      /\ moved0.wr = trk.wr /\ moved0.scrubbed = trk.scrubbed
  <2>0. eng \in Int
    BY <1>0
  <2>1. RingSlot(eng) \in 0 .. N - 1
    BY <2>0, SlotIn, Zenon DEF Slots
  <2> HIDE DEF moved0
  <2> QED
    BY <1>0, <1>1, <2>1 DEF Trackers
<1>3. /\ trk' = MarkScrubbed(t, ScrubEnd(t))
      /\ words' = Silenced(Kept(words), begin, ScrubEnd(t))
      /\ data' = Silenced(Kept(data), begin, ScrubEnd(t))
  BY DEF Poll
<1> HIDE DEF moved0
<1>4. over <=> ~ (eng < trk.wr)
  BY <1>0, <1>2 DEF Fill
<1>5. /\ t \in Trackers /\ t.rd = eng /\ t.prev = RingSlot(eng) /\ t.scrubbed \in Nat /\ t.wr \in Nat
      /\ eng < trk.wr => t.wr = trk.wr
      /\ ~ (eng < trk.wr) => t.wr = eng + Guard
  <2>1. CASE eng < trk.wr
    BY <1>0, <1>2, <1>4, <2>1 DEF Trackers
  <2>2. CASE ~ (eng < trk.wr)
    <3>1. t = [moved0 EXCEPT !.wr = moved0.rd + Larger(Guard, 1),
                             !.scrubbed = Larger(moved0.scrubbed, moved0.rd)]
      BY <1>4, <2>2 DEF Resync
    <3>2. moved0.rd + Larger(Guard, 1) = eng + Guard /\ Larger(moved0.scrubbed, moved0.rd) \in Nat
      BY <1>0, <1>2 DEF Larger
    <3> DEFINE w == moved0.rd + Larger(Guard, 1)   sc == Larger(moved0.scrubbed, moved0.rd)
    <3>3. w \in Nat /\ w = eng + Guard /\ sc \in Nat
      BY <1>0, <3>2
    <3>4. t = [moved0 EXCEPT !.wr = w, !.scrubbed = sc]
      BY <3>1
    <3> HIDE DEF t, w, sc
    <3> QED
      BY <1>2, <2>2, <3>3, <3>4 DEF Trackers
  <2> QED
    BY <2>1, <2>2
<1>6. /\ Kept(words) \in [Slots -> Vals] /\ Kept(data) \in [Slots -> Vals]
      /\ \A s \in Slots : Kept(data)[s] \in {data[s], Off}
      /\ eng < trk.wr => Kept(words) = words /\ Kept(data) = data
      /\ ~ (eng < trk.wr) => \A s \in Slots \ {RingSlot(eng)} : Kept(words)[s] = Off /\ Kept(data)[s] = Off
  BY <1>0, <1>4, <1>5 DEF Vals
<1> DEFINE kw == Kept(words)   kd == Kept(data)   end == ScrubEnd(t)
<1>7. kw = Kept(words) /\ kd = Kept(data) /\ end = ScrubEnd(t)
  OBVIOUS
<1> HIDE DEF t, Kept, over
<1>8. /\ begin \in Int /\ end \in Nat
      /\ \A q \in begin .. end - 1 : q \in Int /\ q < eng /\ t.wr - N <= q
  <2>1. ScrubBegin(t) \in Nat /\ t.wr - N <= ScrubBegin(t)
    BY <1>0, <1>5 DEF ScrubBegin, Larger
  <2>2. end = Larger(eng, ScrubBegin(t))
    BY <1>5 DEF ScrubEnd
  <2> DEFINE sb == ScrubBegin(t)
  <2>3. begin = Larger(sb, end - N)
    BY DEF ScrubEnd
  <2> HIDE DEF sb, begin, end
  <2>4. sb \in Nat /\ t.wr - N <= sb /\ end = Larger(eng, sb)
    BY <2>1, <2>2 DEF sb
  <2> QED
    BY <1>0, <1>5, <2>3, <2>4 DEF Larger
<1>9. ASSUME NEW p \in eng .. t.wr - 1
      PROVE  p \in Int /\ \A q \in begin .. end - 1 : p # q /\ p < q + N /\ q < p + N
  <2> HIDE DEF begin, end
  <2> QED
    BY <1>0, <1>5, <1>8
<1> HIDE DEF begin, end, kw, kd
<1>10. words' = Silenced(kw, begin, end) /\ data' = Silenced(kd, begin, end)
  BY <1>3, <1>7
<1>11. /\ words' \in [Slots -> Vals] /\ data' \in [Slots -> Vals]
       /\ \A s \in Slots : data'[s] \in {kd[s], Off} /\ words'[s] \in {kw[s], Off}
       /\ \A p \in eng .. t.wr - 1 :
            words'[RingSlot(p)] = kw[RingSlot(p)] /\ data'[RingSlot(p)] = kd[RingSlot(p)]
  <2>1. kw \in [Slots -> Vals] /\ kd \in [Slots -> Vals] /\ begin \in Int /\ end \in Int
    BY <1>6, <1>7, <1>8
  <2>2. /\ words' \in [Slots -> Vals] /\ data' \in [Slots -> Vals]
        /\ \A s \in Slots : data'[s] \in {kd[s], Off}
        /\ \A s \in Slots : words'[s] \in {kw[s], Off}
    BY <1>10, <2>1, SilencedSlots
  <2>3. ASSUME NEW p \in eng .. t.wr - 1
        PROVE  words'[RingSlot(p)] = kw[RingSlot(p)] /\ data'[RingSlot(p)] = kd[RingSlot(p)]
    <3>1. p \in Int /\ \A q \in begin .. end - 1 : p # q /\ p < q + N /\ q < p + N
      BY <1>9, <2>3
    <3> QED
      BY <1>10, <2>1, <3>1, SilencedSlots
  <2> QED
    BY <2>2, <2>3
<1>12. trk' \in Trackers /\ trk'.rd = eng /\ trk'.prev = RingSlot(eng) /\ trk'.wr = t.wr
  <2>1. trk' = [t EXCEPT !.scrubbed = Larger(t.scrubbed, end)]
    BY <1>3, <1>7 DEF MarkScrubbed
  <2>2. Larger(t.scrubbed, end) \in Nat
    BY <1>5, <1>8 DEF Larger
  <2> QED
    BY <1>5, <2>1, <2>2 DEF Trackers
<1>13. \A s \in Slots : data'[s] \in {data[s], Off}
  BY <1>6, <1>7, <1>11
<1>14. CASE eng < trk.wr
  BY <1>5, <1>6, <1>7, <1>11, <1>12, <1>13, <1>14
<1>15. CASE ~ (eng < trk.wr)
  <2>1. ASSUME NEW p \in eng + 1 .. eng + Guard - 1
        PROVE  RingSlot(p) \in Slots \ {RingSlot(eng)}
    BY <1>0, Distinct, SlotIn
  <2>2. \A p \in eng + 1 .. eng + Guard - 1 : words'[RingSlot(p)] = Off /\ data'[RingSlot(p)] = Off
    BY <1>6, <1>7, <1>11, <1>15, <2>1
  <2> QED
    BY <1>5, <1>11, <1>12, <1>13, <1>15, <2>2
<1> QED
  BY <1>14, <1>15

\* A data slot: the sample at the write position, its words adv slots in front of it.
LEMMA WriteEffect ==
  ASSUME WordTypes, NEW pos \in Nat, WriteDataSlot(pos)
  PROVE  /\ words' \in [Slots -> Vals] /\ data' \in [Slots -> Vals]
         /\ data'[RingSlot(pos)] = pos
         /\ \A s \in Slots \ {RingSlot(pos)} : data'[s] = data[s]
         /\ TooLate(pos) =>
              /\ dropped' = dropped \union {pos}
              /\ words'[RingSlot(pos)] = Off
              /\ \A s \in Slots \ {RingSlot(pos)} : words'[s] = words[s]
         /\ ~ TooLate(pos) =>
              /\ dropped' = dropped
              /\ words'[RingSlot(pos - adv)] = pos
              /\ \A s \in Slots \ {RingSlot(pos), RingSlot(pos - adv)} : words'[s] = words[s]
              /\ RingSlot(pos - adv) # RingSlot(pos) => words'[RingSlot(pos)] = Off
<1>1. /\ words \in [Slots -> Vals] /\ data \in [Slots -> Vals]
      /\ RingSlot(pos) \in Slots /\ RingSlot(pos - adv) \in Slots /\ pos \in Vals /\ Off \in Vals
  BY RingConstants, SlotIn DEF WordTypes, Vals
<1> DEFINE s0 == RingSlot(pos)   s1 == RingSlot(pos - adv)   own == [words EXCEPT ![s0] = Off]
<1>2. /\ data' = [data EXCEPT ![s0] = pos]
      /\ TooLate(pos) => words' = own /\ dropped' = dropped \union {pos}
      /\ ~ TooLate(pos) => words' = [own EXCEPT ![s1] = pos] /\ dropped' = dropped
  BY DEF WriteDataSlot
<1>3. own \in [Slots -> Vals] /\ own[s0] = Off /\ \A s \in Slots \ {s0} : own[s] = words[s]
  BY <1>1
<1>4. s0 \in Slots /\ s1 \in Slots
  BY <1>1
<1>5. s0 = RingSlot(pos) /\ s1 = RingSlot(pos - adv)
  OBVIOUS
<1> HIDE DEF s0, s1, own
<1>6. data' \in [Slots -> Vals] /\ data'[s0] = pos /\ \A s \in Slots \ {s0} : data'[s] = data[s]
  BY <1>1, <1>2, <1>4
<1>7. CASE TooLate(pos)
  BY <1>2, <1>3, <1>5, <1>6, <1>7
<1>8. CASE ~ TooLate(pos)
  <2>1. /\ words' \in [Slots -> Vals] /\ words'[s1] = pos
        /\ \A s \in Slots \ {s1} : words'[s] = own[s]
    BY <1>1, <1>2, <1>3, <1>4, <1>8
  <2> QED
    BY <1>2, <1>3, <1>4, <1>5, <1>6, <1>8, <2>1
<1> QED
  BY <1>7, <1>8

------------------------------------------------------------------------------
(* The steps, by what they do to the ring. *)

RingKept == UNCHANGED <<trk, words, data, lastData>>

\* The advance changes over a ring without data ahead of the engine.
Crossed == IF on THEN trk.rd >= lastData ELSE trk.wr = 0

Idles ==
  /\ \E c \in Nat : trk.wr + c <= trk.rd + N - 2 /\ Pads(c)
  /\ UNCHANGED <<lastData, dropped, adv, eng>>

Writes ==
  /\ fpc = "write"
  /\ WriteDataSlot(trk.wr) /\ lastData' = trk.wr + 1 /\ trk' = AdvanceWrite(trk, 1)
  /\ UNCHANGED <<adv, eng>>

Quiet == RingKept /\ UNCHANGED <<dropped, adv, eng>>

Moves == RingKept /\ UNCHANGED adv /\ eng' = eng + 1 /\ dropped' = {p \in dropped : p > eng'}

Changes == RingKept /\ Crossed /\ UNCHANGED <<dropped, eng>>

Resets == ResetRing /\ eng' = 0 /\ ~ (on /\ on')

LEMMA RingSteps ==
  ASSUME WInv, [Next]_vars
  PROVE  Quiet \/ Moves \/ Changes \/ Resets \/ Idles \/ Poll \/ Writes
<1> USE DEF envV, waitV, ringV, engV, pumpV
<1>0. /\ WordTypes /\ Tracked /\ PeriodInv /\ RoomInv /\ trk.wr \in Nat /\ trk.rd \in Nat
      /\ Pacing \in Nat /\ adv \in Nat /\ Target \in Nat /\ Low \in Int /\ lastData \in Nat
  <2>1. Low \in Int
    <3>1. N \div 8 \in Int /\ adv + Guard + Margin \in Int /\ Target \in Int
      BY RingConstants DEF WInv, WordTypes
    <3> QED
      BY <3>1 DEF Low, Smaller, Larger
  <2> QED
    BY <2>1, RingConstants DEF WInv, WordTypes, Trackers
<1>1. CASE Publish \/ PumpLimit \/ Push \/ UNCHANGED vars
  BY <1>1 DEF Publish, PumpLimit, Push, vars, Quiet, RingKept
<1>2. CASE Refresh
  <2>1. CASE want # adv /\ AtBoundary
    <3>1. CASE ~on /\ prefix # 0
      BY <1>0, <1>2, <2>1, <3>1 DEF Refresh, ApplyAdvance, Tracked, Resets
    <3>2. CASE on
      BY <1>2, <2>1, <3>2 DEF Refresh, ApplyAdvance, AtBoundary, Changes, RingKept, Crossed
    <3>3. CASE ~on /\ prefix = 0
      BY <1>0, <1>2, <2>1, <3>3 DEF Refresh, ApplyAdvance, Changes, RingKept, Crossed, PeriodInv
    <3> QED
      BY <1>0, <3>1, <3>2, <3>3 DEF WordTypes
  <2>2. CASE ~ (want # adv /\ AtBoundary)
    BY <1>2, <2>2 DEF Refresh, Quiet, RingKept
  <2> QED
    BY <2>1, <2>2
<1>3. CASE Fill0
  <2>1. CASE trk.wr = 0 /\ prefix = 0
    <3>1. Pacing + 1 + adv \in Int
      BY <1>0
    <3>2. PadTo(Pacing + 1 + adv) /\ UNCHANGED <<lastData, dropped, adv, eng>>
      BY <1>3, <2>1 DEF Fill0
    <3> QED
      BY <1>0, <3>1, <3>2, PadEffect DEF Idles
  <2>2. CASE ~ (trk.wr = 0 /\ prefix = 0)
    BY <1>3, <2>2 DEF Fill0, Quiet, RingKept
  <2> QED
    BY <2>1, <2>2
<1>4. CASE Poll
  BY <1>4
<1>5. CASE PadAhead
  <2>1. PadTo(Low) /\ UNCHANGED <<lastData, dropped, adv, eng>>
    BY <1>5 DEF PadAhead
  <2> QED
    BY <1>0, <2>1, PadEffect DEF Idles
<1>6. CASE PumpWrite
  <2>0. fpc = "write" /\ trk.wr + 1 <= trk.rd + N - 2
    <3>1. fpc = "write"
      BY <1>6 DEF PumpWrite
    <3>2. batch \in Int /\ batch >= 1 /\ trk.wr + batch <= trk.rd + N - 2
      BY <1>0, <3>1 DEF RoomInv, WordTypes
    <3> QED
      BY <1>0, <3>1, <3>2, RingConstants
  <2>1. CASE replay # <<>> /\ ~Head(replay)
    <3>1. Pads(1) /\ UNCHANGED <<lastData, dropped, adv, eng>>
      BY <1>6, <2>1 DEF PumpWrite, Pads, AdvanceWrite
    <3> QED
      BY <2>0, <3>1 DEF Idles
  <2>2. CASE ~ (replay # <<>> /\ ~Head(replay))
    BY <1>6, <2>0, <2>2 DEF PumpWrite, Writes
  <2> QED
    BY <2>1, <2>2
<1>7. CASE PumpDone
  <2>1. CASE on /\ Nothing /\ Fill(trk) < Low
    <3>1. PadTo(Low) /\ UNCHANGED <<lastData, dropped, adv, eng>>
      BY <1>7, <2>1 DEF PumpDone
    <3> QED
      BY <1>0, <3>1, PadEffect DEF Idles
  <2>2. CASE ~ (on /\ Nothing /\ Fill(trk) < Low)
    BY <1>7, <2>2 DEF PumpDone, Quiet, RingKept
  <2> QED
    BY <2>1, <2>2
<1>8. CASE Retune
  BY <1>8 DEF Retune, Resets
<1>9. CASE Execute
  BY <1>9 DEF Execute, Moves, RingKept
<1> QED
  BY <1>1, <1>2, <1>3, <1>4, <1>5, <1>6, <1>7, <1>8, <1>9 DEF Next

\* The tracker and the ring after a step.
LEMMA WritesSlots ==
  ASSUME WordTypes, Writes
  PROVE  /\ trk' \in Trackers /\ trk'.rd = trk.rd /\ trk'.prev = trk.prev /\ trk'.wr = trk.wr + 1
         /\ trk.wr \in Nat
<1>1. trk \in Trackers /\ trk.wr \in Nat /\ trk.wr + 1 \in Nat
  BY DEF WordTypes, Trackers
<1>2. trk' = [trk EXCEPT !.wr = trk.wr + 1]
  BY DEF Writes, AdvanceWrite
<1> QED
  BY <1>1, <1>2 DEF Trackers

LEMMA ResetSlots ==
  ASSUME ResetRing
  PROVE  /\ trk' \in Trackers /\ trk'.rd = 0 /\ trk'.wr = 0 /\ trk'.prev = 0
         /\ words' \in [Slots -> Vals] /\ data' \in [Slots -> Vals]
         /\ \A s \in Slots : data'[s] = Off
         /\ lastData' = 0 /\ prefix' = 0 /\ dropped' = {}
<1>1. 0 \in 0 .. N - 1
  BY RingConstants
<1>2. trk' = [rd |-> 0, wr |-> 0, scrubbed |-> 0, prev |-> 0]
  BY DEF ResetRing, Rewound
<1>3. trk' \in Trackers
  BY <1>1, <1>2 DEF Trackers
<1> QED
  BY <1>2, <1>3 DEF ResetRing, Silent, Vals

LEMMA UnplayedSeq ==
  ASSUME WordTypes
  PROVE  Unplayed \in Seq(BOOLEAN)
<1> DEFINE played == IF on THEN eng ELSE trk.rd
           kept   == {p \in played .. lastData - 1 : data[RingSlot(p)] # Off}
           first  == CHOOSE p \in kept : \A q \in kept : p <= q
<1>0. played \in Nat /\ lastData \in Nat
  BY DEF WordTypes, Trackers
<1>1. CASE kept = {}
  BY <1>1 DEF Unplayed
<1>2. CASE kept # {}
  <2>1. kept \in SUBSET Nat
    <3> HIDE DEF played
    <3> QED
      BY <1>0
  <2>2. \E p \in kept : \A q \in kept : p <= q
    <3> HIDE DEF kept
    <3> QED
      BY <1>2, <2>1, LeastElement
  <2>3. first \in kept
    <3> HIDE DEF kept
    <3> QED
      BY <2>2
  <2>4. first \in Nat /\ lastData - first \in Nat
    <3> HIDE DEF played, first
    <3> QED
      BY <1>0, <2>3
  <2>5. Unplayed = [i \in 1 .. lastData - first |-> data[RingSlot(first + i - 1)] # Off]
    BY <1>2 DEF Unplayed
  <2> HIDE DEF first, kept
  <2>6. \A i \in 1 .. lastData - first : (data[RingSlot(first + i - 1)] # Off) \in BOOLEAN
    OBVIOUS
  <2> DEFINE n == lastData - first   B(i) == data[RingSlot(first + i - 1)] # Off
  <2>7. n \in Nat /\ \A i \in 1 .. n : B(i) \in BOOLEAN
    BY <2>4, <2>6
  <2>8. Unplayed = [i \in 1 .. n |-> B(i)]
    BY <2>5
  <2> HIDE DEF n, B
  <2>9. [i \in 1 .. n |-> B(i)] \in [1 .. n -> BOOLEAN]
    BY <2>7, Zenon
  <2> QED
    BY <2>7, <2>8, <2>9
<1> QED
  BY <1>1, <1>2

------------------------------------------------------------------------------
(* The invariant is inductive. *)

RingTypes ==
  /\ trk \in Trackers
  /\ words \in [Slots -> Vals] /\ data \in [Slots -> Vals]
  /\ lastData \in Nat /\ dropped \subseteq Nat

LEMMA StepRing ==
  ASSUME WInv, [Next]_vars
  PROVE  /\ RingTypes' /\ NewestInv'
         /\ trk'.prev = RingSlot(trk'.rd) /\ trk'.wr <= trk'.rd + N - 2
<1>0. /\ WordTypes /\ Tracked /\ RoomInv /\ NewestInv
      /\ trk \in Trackers /\ trk.rd \in Nat /\ trk.wr \in Nat /\ lastData \in Nat /\ eng \in Nat
      /\ words \in [Slots -> Vals] /\ data \in [Slots -> Vals] /\ dropped \subseteq Nat
      /\ N \in Nat /\ N >= 4 /\ Guard \in Nat /\ Guard > 0 /\ Guard <= N - 2
      /\ trk.prev = RingSlot(trk.rd) /\ trk.wr <= trk.rd + N - 2
      /\ lastData <= trk.wr /\ \A s \in Slots : data[s] < lastData
      /\ \A p \in dropped : p < trk.wr
  BY RingConstants DEF WInv, WordTypes, Trackers, Tracked, RoomInv, NewestInv
<1>1. CASE Quiet \/ Moves \/ Changes
  BY <1>0, <1>1 DEF Quiet, Moves, Changes, RingKept, RingTypes, NewestInv
<1>2. CASE ResetRing
  <2>1. RingSlot(0) = 0
    BY <1>0 DEF RingSlot
  <2>2. Off < 0
    BY DEF Off
  <2> QED
    BY <1>0, <1>2, <2>1, <2>2, ResetSlots DEF RingTypes, NewestInv
<1>3. CASE Idles
  <2>1. PICK c \in Nat : trk.wr + c <= trk.rd + N - 2 /\ Pads(c)
    BY <1>3 DEF Idles
  <2>2. lastData' = lastData /\ dropped' = dropped
    BY <1>3 DEF Idles
  <2>3. /\ trk' \in Trackers /\ trk'.rd = trk.rd /\ trk'.prev = trk.prev /\ trk'.wr = trk.wr + c
        /\ words' \in [Slots -> Vals] /\ data' \in [Slots -> Vals]
        /\ \A s \in Slots : data'[s] \in {data[s], Off}
    BY <1>0, <2>1, PadsSlots
  <2>4. \A s \in Slots : data'[s] < lastData'
    BY <1>0, <2>2, <2>3 DEF Off
  <2>5. \A p \in dropped' : p < trk'.wr
    BY <1>0, <2>2, <2>3
  <2> QED
    BY <1>0, <2>1, <2>2, <2>3, <2>4, <2>5 DEF RingTypes, NewestInv
<1>4. CASE Poll
  <2>1. lastData' = lastData /\ dropped' = dropped
    BY <1>4 DEF Poll
  <2>2. /\ trk' \in Trackers /\ trk'.rd = eng /\ trk'.prev = RingSlot(eng)
        /\ words' \in [Slots -> Vals] /\ data' \in [Slots -> Vals]
        /\ \A s \in Slots : data'[s] \in {data[s], Off}
        /\ eng < trk.wr => trk'.wr = trk.wr
        /\ ~ (eng < trk.wr) => trk'.wr = eng + Guard
    BY <1>0, <1>4, PollEffect
  <2>3. \A s \in Slots : data'[s] < lastData'
    BY <1>0, <2>1, <2>2 DEF Off
  <2>4. trk.rd <= eng
    BY <1>0 DEF Tracked, WordTypes
  <2>5. trk'.wr \in Nat /\ trk.wr <= trk'.wr /\ trk'.wr <= eng + N - 2
    BY <1>0, <2>2, <2>4
  <2>6. \A p \in dropped' : p < trk'.wr
    BY <1>0, <2>1, <2>5
  <2> QED
    BY <1>0, <2>1, <2>2, <2>3, <2>5, <2>6 DEF RingTypes, NewestInv
<1>5. CASE Writes
  <2>1. WriteDataSlot(trk.wr) /\ lastData' = trk.wr + 1 /\ fpc = "write"
    BY <1>5 DEF Writes
  <2>2. trk' \in Trackers /\ trk'.rd = trk.rd /\ trk'.prev = trk.prev /\ trk'.wr = trk.wr + 1
    BY <1>0, <1>5, WritesSlots
  <2>3. /\ words' \in [Slots -> Vals] /\ data' \in [Slots -> Vals]
        /\ data'[RingSlot(trk.wr)] = trk.wr
        /\ \A s \in Slots \ {RingSlot(trk.wr)} : data'[s] = data[s]
        /\ dropped' \in {dropped, dropped \union {trk.wr}}
    BY <1>0, <2>1, WriteEffect
  <2>4. \A s \in Slots : data'[s] < lastData'
    <3> SUFFICES ASSUME NEW s \in Slots PROVE data'[s] < trk.wr + 1
      BY <2>1
    <3>1. CASE s = RingSlot(trk.wr)
      BY <1>0, <2>3, <3>1
    <3>2. CASE s # RingSlot(trk.wr)
      <4>1. data'[s] = data[s] /\ data[s] < lastData /\ data[s] \in Int
        BY <1>0, <2>3, <3>2 DEF Vals, Off
      <4> QED
        BY <1>0, <4>1
    <3> QED
      BY <3>1, <3>2
  <2>5. \A p \in dropped' : p \in Nat /\ p < trk'.wr
    BY <1>0, <2>2, <2>3
  <2>6. trk.wr + 1 <= trk.rd + N - 2
    <3>1. batch \in Int /\ batch >= 1 /\ trk.wr + batch <= trk.rd + N - 2
      BY <1>0, <2>1 DEF RoomInv, WordTypes
    <3> QED
      BY <1>0, <3>1
  <2>7. RingTypes'
    BY <1>0, <2>1, <2>2, <2>3, <2>5 DEF RingTypes
  <2>8. NewestInv'
    BY <1>0, <2>1, <2>2, <2>4, <2>5 DEF NewestInv
  <2> QED
    BY <1>0, <2>2, <2>6, <2>7, <2>8
<1> QED
  BY <1>1, <1>2, <1>3, <1>4, <1>5, RingSteps DEF Resets

\* What the steps do apart from the ring.
Still == UNCHANGED <<eng, on, lag>>
Waits == UNCHANGED <<queued, replay>>
Limits == UNCHANGED <<batch, limit, moved>>
Advancing == UNCHANGED <<adv, want>>

LEMMA Frames ==
  /\ Publish => Still /\ Waits /\ Limits /\ adv' = adv /\ want' \in Advances
                /\ prefix' = prefix /\ fpc' = fpc
  /\ Refresh => Still /\ Waits /\ Limits /\ adv' \in {adv, want} /\ want' = want
                /\ (prefix' = prefix \/ (~on /\ prefix' = 0)) /\ fpc = "top" /\ fpc' = IF on THEN "poll" ELSE "fill"
  /\ Fill0 => Still /\ Waits /\ Limits /\ Advancing /\ fpc = "fill" /\ fpc' = "pump"
              /\ (IF trk.wr = 0 /\ prefix = 0 THEN prefix' = Pacing + 1 + adv
                  ELSE prefix' = prefix /\ UNCHANGED trk)
  /\ Poll => UNCHANGED <<eng, on>> /\ lag' = 0 /\ Waits /\ Limits /\ Advancing /\ prefix' = prefix
             /\ fpc = "poll" /\ fpc' \in {"pad", "pump"}
  /\ PadAhead => Still /\ Waits /\ Limits /\ Advancing /\ prefix' = prefix /\ fpc = "pad" /\ fpc' = "pump"
  /\ PumpLimit => Still /\ Waits /\ Advancing /\ prefix' = prefix /\ moved' = 0 /\ UNCHANGED trk
                  /\ fpc = "pump" /\ fpc' = "write"
  /\ PumpWrite => Still /\ Advancing /\ prefix' = prefix /\ UNCHANGED <<limit, moved>> /\ batch' = batch - 1
                  /\ fpc = "write" /\ fpc' = (IF batch = 1 THEN "pump" ELSE "write")
                  /\ (IF replay # <<>> THEN replay' = Tail(replay) /\ queued' = queued
                      ELSE queued' = queued - 1 /\ replay' = replay)
  /\ PumpDone => eng' = eng /\ Waits /\ Limits /\ Advancing /\ prefix' = prefix
                 /\ (IF on THEN on' = on /\ lag' = lag ELSE on' \in BOOLEAN /\ lag' = 0 /\ UNCHANGED trk)
                 /\ fpc = "pump" /\ fpc' = "top"
  /\ Retune => eng' = 0 /\ on' = FALSE /\ lag' = 0 /\ Limits /\ Advancing /\ prefix' = 0 /\ ResetRing
               /\ queued' = queued /\ replay' = Unplayed \o replay /\ fpc = "top" /\ fpc' = fpc
  /\ Execute => on /\ eng' = eng + 1 /\ lag' = lag + 1 /\ UNCHANGED on /\ Waits /\ UNCHANGED <<batch, limit, trk>>
                /\ Advancing /\ prefix' = prefix /\ fpc' = fpc
                /\ (IF fpc = "write" THEN moved < Busy /\ moved' = moved + 1 ELSE moved' = moved)
  /\ Push => Still /\ queued' = queued + 1 /\ replay' = replay /\ Limits /\ Advancing /\ prefix' = prefix
             /\ UNCHANGED trk /\ fpc' = fpc
  /\ UNCHANGED vars => Still /\ Waits /\ Limits /\ Advancing /\ prefix' = prefix /\ UNCHANGED trk /\ fpc' = fpc
<1> USE DEF envV, waitV, ringV, engV, pumpV, Still, Waits, Limits, Advancing
<1>1. Publish => Still /\ Waits /\ Limits /\ adv' = adv /\ want' \in Advances
                /\ prefix' = prefix /\ fpc' = fpc
  BY DEF Publish
<1>2. Refresh => Still /\ Waits /\ Limits /\ adv' \in {adv, want} /\ want' = want
                /\ (prefix' = prefix \/ (~on /\ prefix' = 0)) /\ fpc = "top" /\ fpc' = IF on THEN "poll" ELSE "fill"
  BY DEF Refresh, ApplyAdvance, ResetRing
<1>3. Fill0 => Still /\ Waits /\ Limits /\ Advancing /\ fpc = "fill" /\ fpc' = "pump"
              /\ (IF trk.wr = 0 /\ prefix = 0 THEN prefix' = Pacing + 1 + adv
                  ELSE prefix' = prefix /\ UNCHANGED trk)
  BY DEF Fill0
<1>4. Poll => UNCHANGED <<eng, on>> /\ lag' = 0 /\ Waits /\ Limits /\ Advancing /\ prefix' = prefix
             /\ fpc = "poll" /\ fpc' \in {"pad", "pump"}
  BY DEF Poll
<1>5. PadAhead => Still /\ Waits /\ Limits /\ Advancing /\ prefix' = prefix /\ fpc = "pad" /\ fpc' = "pump"
  BY DEF PadAhead
<1>6. PumpLimit => Still /\ Waits /\ Advancing /\ prefix' = prefix /\ moved' = 0 /\ UNCHANGED trk
                  /\ fpc = "pump" /\ fpc' = "write"
  BY DEF PumpLimit
<1>7. PumpWrite => Still /\ Advancing /\ prefix' = prefix /\ UNCHANGED <<limit, moved>> /\ batch' = batch - 1
                  /\ fpc = "write" /\ fpc' = (IF batch = 1 THEN "pump" ELSE "write")
                  /\ (IF replay # <<>> THEN replay' = Tail(replay) /\ queued' = queued
                      ELSE queued' = queued - 1 /\ replay' = replay)
  BY DEF PumpWrite
<1>8. PumpDone => eng' = eng /\ Waits /\ Limits /\ Advancing /\ prefix' = prefix
                 /\ (IF on THEN on' = on /\ lag' = lag ELSE on' \in BOOLEAN /\ lag' = 0 /\ UNCHANGED trk)
                 /\ fpc = "pump" /\ fpc' = "top"
  <2> SUFFICES ASSUME PumpDone
               PROVE  eng' = eng /\ Waits /\ Limits /\ Advancing /\ prefix' = prefix
                 /\ (IF on THEN on' = on /\ lag' = lag ELSE on' \in BOOLEAN /\ lag' = 0 /\ UNCHANGED trk)
                 /\ fpc = "pump" /\ fpc' = "top"
    OBVIOUS
  <2>1. ~on => on' \in BOOLEAN
    <3>1. ~on => on' \in IF lastData # 0 \/ ~Nothing THEN BOOLEAN ELSE {FALSE}
      BY DEF PumpDone
    <3> QED
      BY <3>1
  <2>2. eng' = eng /\ Waits /\ Limits /\ Advancing /\ prefix' = prefix /\ fpc = "pump" /\ fpc' = "top"
    BY DEF PumpDone
  <2>3. (on => on' = on /\ lag' = lag) /\ (~on => lag' = 0 /\ UNCHANGED trk)
    BY DEF PumpDone
  <2> HIDE DEF Waits, Limits, Advancing
  <2> QED
    BY <2>1, <2>2, <2>3
<1>9. Retune => eng' = 0 /\ on' = FALSE /\ lag' = 0 /\ Limits /\ Advancing /\ prefix' = 0 /\ ResetRing
               /\ queued' = queued /\ replay' = Unplayed \o replay /\ fpc = "top" /\ fpc' = fpc
  BY DEF Retune, ResetRing
<1>10. Execute => on /\ eng' = eng + 1 /\ lag' = lag + 1 /\ UNCHANGED on /\ Waits /\ UNCHANGED <<batch, limit, trk>>
                /\ Advancing /\ prefix' = prefix /\ fpc' = fpc
                /\ (IF fpc = "write" THEN moved < Busy /\ moved' = moved + 1 ELSE moved' = moved)
  BY DEF Execute
<1>11. Push => Still /\ queued' = queued + 1 /\ replay' = replay /\ Limits /\ Advancing /\ prefix' = prefix
             /\ UNCHANGED trk /\ fpc' = fpc
  BY DEF Push
<1>12. UNCHANGED vars => Still /\ Waits /\ Limits /\ Advancing /\ prefix' = prefix /\ UNCHANGED trk /\ fpc' = fpc
  BY DEF vars
<1> HIDE DEF envV, waitV, ringV, engV, pumpV, Still, Waits, Limits, Advancing
<1> QED
  BY <1>1, <1>2, <1>3, <1>4, <1>5, <1>6, <1>7, <1>8, <1>9, <1>10, <1>11, <1>12

LEMMA StepTypes == WInv /\ [Next]_vars => WordTypes'
<1> SUFFICES ASSUME WInv, [Next]_vars PROVE WordTypes'
  OBVIOUS
<1> USE DEF Still, Waits, Limits, Advancing
<1>1. RingTypes'
  BY StepRing
<1>2. /\ WordTypes /\ RoomInv /\ PeriodInv
      /\ Pacing \in Nat /\ adv \in Advances /\ want \in Advances /\ adv \in Nat /\ prefix \in Nat
      /\ trk.rd \in Nat /\ trk.wr \in Nat /\ N \in Nat /\ Guard \in Nat
      /\ Chunk \in Nat /\ Target \in Nat
      /\ eng \in Nat /\ lag \in Nat /\ on \in BOOLEAN
      /\ fpc \in {"top", "fill", "poll", "pad", "pump", "write"}
      /\ queued \in Nat /\ replay \in Seq(BOOLEAN)
      /\ batch \in Int /\ limit \in Int /\ moved \in Nat
  BY RingConstants DEF WInv, WordTypes, Trackers
<1>n. Publish \/ Refresh \/ Fill0 \/ Poll \/ PadAhead \/ PumpLimit \/ PumpWrite \/ PumpDone
        \/ Retune \/ Execute \/ Push \/ UNCHANGED vars
  BY DEF Next
<1>3. /\ eng' \in Nat /\ lag' \in Nat /\ on' \in BOOLEAN
  <2>1. eng' \in {eng, eng + 1, 0}
    BY <1>n, Frames
  <2>2. lag' \in {lag, lag + 1, 0}
    BY <1>n, Frames
  <2>3. on' = on \/ on' \in BOOLEAN
    BY <1>n, Frames
  <2> QED
    BY <1>2, <2>1, <2>2, <2>3
<1>4. adv' \in Advances /\ want' \in Advances /\ prefix' \in Nat
  BY <1>2, <1>n, Frames
<1>5. fpc' \in {"top", "fill", "poll", "pad", "pump", "write"}
  BY <1>2, <1>n, Frames
<1>6. queued' \in Nat /\ replay' \in Seq(BOOLEAN)
  <2>1. CASE PumpWrite
    <3>0. fpc = "write" /\ (IF replay # <<>> THEN replay' = Tail(replay) /\ queued' = queued
                      ELSE queued' = queued - 1 /\ replay' = replay)
      BY <2>1, Frames
    <3>1. batch >= 1 /\ batch <= IF replay # <<>> THEN Len(replay) ELSE queued
      BY <1>2, <3>0 DEF RoomInv
    <3>2. CASE replay # <<>>
      BY <1>2, <3>0, <3>2
    <3>3. CASE replay = <<>>
      <4>1. queued >= 1
        BY <1>2, <3>1, <3>3
      <4> QED
        BY <1>2, <3>0, <3>3, <4>1
    <3> QED
      BY <3>2, <3>3
  <2>2. CASE Retune
    <3>1. Unplayed \in Seq(BOOLEAN)
      BY <1>2, UnplayedSeq
    <3>2. replay' = Unplayed \o replay /\ queued' = queued
      BY <2>2 DEF Retune
    <3> HIDE DEF Unplayed
    <3> QED
      BY <1>2, <3>1, <3>2
  <2>3. CASE Push
    <3>1. queued' = queued + 1 /\ replay' = replay
      BY <2>3, Frames
    <3> QED
      BY <1>2, <3>1
  <2>4. CASE Publish \/ Refresh \/ Fill0 \/ Poll \/ PadAhead \/ PumpLimit \/ PumpDone \/ Execute
             \/ UNCHANGED vars
    <3>1. Waits
      BY <2>4, Frames
    <3> QED
      BY <1>2, <3>1
  <2> QED
    BY <1>n, <2>1, <2>2, <2>3, <2>4
<1>7. batch' \in Int /\ limit' \in Int /\ moved' \in Nat
  <2>1. CASE PumpLimit
    <3>1. \A e \in Int : BehindLimit(e) \in Int
      BY <1>2 DEF BehindLimit, Larger
    <3>2. limit' \in Int
      <4>1. PICK e \in eng - trk.rd - Skew .. eng - trk.rd + Skew : limit' = BehindLimit(e)
        BY <2>1 DEF PumpLimit
      <4>2. e \in Int
        BY <1>2, <4>1, RingConstants
      <4> QED
        BY <3>1, <4>1, <4>2
    <3>3. Writable(trk, Target) \in Int /\ Len(replay) \in Nat
      BY <1>2 DEF Writable, Smaller, Fill
    <3>4. batch' \in Int /\ moved' = 0
      BY <1>2, <2>1, <3>3 DEF PumpLimit, Smaller
    <3> QED
      BY <3>2, <3>4
  <2>2. CASE PumpWrite
    <3>1. batch' = batch - 1 /\ limit' = limit /\ moved' = moved
      BY <2>2, Frames
    <3> QED
      BY <1>2, <3>1
  <2>3. CASE Execute
    <3>1. batch' = batch /\ limit' = limit /\ moved' \in {moved, moved + 1}
      BY <2>3, Frames
    <3> QED
      BY <1>2, <3>1
  <2>4. CASE Publish \/ Refresh \/ Fill0 \/ Poll \/ PadAhead \/ PumpDone \/ Retune \/ Push \/ UNCHANGED vars
    <3>1. Limits
      BY <2>4, Frames
    <3> QED
      BY <1>2, <3>1
  <2> QED
    BY <1>n, <2>1, <2>2, <2>3, <2>4
<1> QED
  BY <1>1, <1>3, <1>4, <1>5, <1>6, <1>7 DEF WordTypes, RingTypes

\* Steps that are not a poll or a reset keep the polled position.
LEMMA ReadKept ==
  ASSUME WordTypes, Fill0 \/ PadAhead \/ PumpWrite \/ PumpDone
  PROVE  trk'.rd = trk.rd
<1>1. \A c : AdvanceWrite(trk, c).rd = trk.rd
  BY DEF AdvanceWrite, WordTypes, Trackers
<1>2. trk' = trk \/ \E c : trk' = AdvanceWrite(trk, c)
  BY DEF Fill0, PadAhead, PumpWrite, PumpDone, PadTo
<1> QED
  BY <1>1, <1>2

LEMMA TrackKept ==
  ASSUME Publish \/ PumpLimit \/ Execute \/ Push \/ UNCHANGED vars
  PROVE  trk' = trk
BY DEF Publish, PumpLimit, Execute, Push, vars, ringV

LEMMA StepTracked == WInv /\ [Next]_vars => Tracked'
<1> SUFFICES ASSUME WInv, [Next]_vars PROVE Tracked'
  OBVIOUS
<1> USE DEF Still
<1>1. trk'.prev = RingSlot(trk'.rd)
  BY StepRing
<1>2. /\ WordTypes /\ Tracked /\ PeriodInv /\ trk.rd \in Nat /\ eng \in Nat /\ lag \in Nat /\ eng = trk.rd + lag
      /\ ~on => eng = 0 /\ trk.rd = 0 /\ lag = 0
  <2>1. WordTypes /\ Tracked /\ PeriodInv /\ trk.rd \in Nat /\ eng \in Nat /\ lag \in Nat
    BY DEF WInv, WordTypes, Trackers
  <2> QED
    BY <2>1 DEF Tracked
<1>n. Publish \/ Refresh \/ Fill0 \/ Poll \/ PadAhead \/ PumpLimit \/ PumpWrite \/ PumpDone
        \/ Retune \/ Execute \/ Push \/ UNCHANGED vars
  BY DEF Next
<1>3. CASE Publish \/ PumpLimit \/ Push \/ UNCHANGED vars
  <2>1. trk' = trk /\ Still
    BY <1>3, TrackKept, Frames
  <2> QED
    BY <1>1, <1>2, <2>1 DEF Tracked
<1>4. CASE Refresh
  <2>1. Still
    BY <1>4, Frames
  <2>2. trk' = trk \/ (~on /\ ResetRing)
    BY <1>4 DEF Refresh, ApplyAdvance, ringV
  <2>3. CASE trk' = trk
    BY <1>1, <1>2, <2>1, <2>3 DEF Tracked
  <2>4. CASE ~on /\ ResetRing
    <3>1. trk'.rd = 0
      BY <2>4, ResetSlots
    <3> QED
      BY <1>1, <1>2, <2>1, <2>4, <3>1 DEF Tracked
  <2> QED
    BY <2>2, <2>3, <2>4
<1>5. CASE Fill0 \/ PadAhead \/ PumpWrite
  <2>1. trk'.rd = trk.rd /\ Still
    BY <1>2, <1>5, ReadKept, Frames
  <2> QED
    BY <1>1, <1>2, <2>1 DEF Tracked
<1>6. CASE PumpDone
  <2>1. trk'.rd = trk.rd /\ eng' = eng
    BY <1>2, <1>6, ReadKept, Frames
  <2>2. CASE on
    <3>1. on' = on /\ lag' = lag
      BY <1>6, <2>2, Frames
    <3> QED
      BY <1>1, <1>2, <2>1, <3>1 DEF Tracked
  <2>3. CASE ~on
    <3>1. lag' = 0
      BY <1>6, <2>3, Frames
    <3> QED
      BY <1>1, <1>2, <2>1, <2>3, <3>1 DEF Tracked
  <2> QED
    BY <2>2, <2>3
<1>7. CASE Poll
  <2>1. trk'.rd = eng /\ eng' = eng /\ on' = on /\ lag' = 0
    BY <1>2, <1>7, PollEffect, Frames
  <2> QED
    BY <1>1, <1>2, <2>1 DEF Tracked
<1>8. CASE Retune
  <2>1. eng' = 0 /\ lag' = 0 /\ ResetRing
    BY <1>8, Frames
  <2>2. trk'.rd = 0
    BY <2>1, ResetSlots
  <2> QED
    BY <1>1, <2>1, <2>2 DEF Tracked
<1>9. CASE Execute
  <2>1. on' = on /\ on /\ eng' = eng + 1 /\ lag' = lag + 1 /\ trk' = trk
    BY <1>9, Frames
  <2> QED
    BY <1>1, <1>2, <2>1 DEF Tracked
<1> QED
  BY <1>n, <1>3, <1>4, <1>5, <1>6, <1>7, <1>8, <1>9

LEMMA StepPeriod == WInv /\ [Next]_vars => PeriodInv'
<1> SUFFICES ASSUME WInv, [Next]_vars PROVE PeriodInv'
  OBVIOUS
<1> USE DEF Still
<1>2. /\ WordTypes /\ PeriodInv /\ on \in BOOLEAN /\ adv \in Nat /\ Pacing \in Nat
      /\ fpc \in {"top", "fill", "poll", "pad", "pump", "write"}
  BY RingConstants DEF WInv, WordTypes, Trackers
<1>n. Publish \/ Refresh \/ Fill0 \/ Poll \/ PadAhead \/ PumpLimit \/ PumpWrite \/ PumpDone
        \/ Retune \/ Execute \/ Push \/ UNCHANGED vars
  BY DEF Next
<1>3. CASE Publish \/ Push \/ UNCHANGED vars
  <2>1. trk' = trk /\ Still /\ prefix' = prefix /\ fpc' = fpc
    BY <1>3, TrackKept, Frames
  <2> QED
    BY <1>2, <2>1 DEF PeriodInv
<1>4. CASE Refresh
  <2>1. Still /\ fpc' = IF on THEN "poll" ELSE "fill"
    BY <1>4, Frames
  <2>2. (trk' = trk /\ prefix' = prefix) \/ (~on /\ ResetRing)
    BY <1>4 DEF Refresh, ApplyAdvance, ringV
  <2>3. CASE trk' = trk /\ prefix' = prefix
    BY <1>2, <2>1, <2>3 DEF PeriodInv
  <2>4. CASE ~on /\ ResetRing
    <3>1. trk'.wr = 0
      BY <2>4, ResetSlots
    <3> QED
      BY <1>2, <2>1, <2>4, <3>1 DEF PeriodInv
  <2> QED
    BY <2>2, <2>3, <2>4
<1>5. CASE Fill0
  <2>1. Still /\ fpc = "fill" /\ fpc' = "pump"
        /\ (IF trk.wr = 0 /\ prefix = 0 THEN prefix' = Pacing + 1 + adv ELSE prefix' = prefix /\ UNCHANGED trk)
    BY <1>5, Frames
  <2>2. prefix' # 0
    BY <1>2, <2>1 DEF PeriodInv
  <2> QED
    BY <2>1, <2>2 DEF PeriodInv
<1>6. CASE Poll \/ PadAhead
  <2>1. on' = on /\ fpc \in {"poll", "pad"} /\ fpc' \in {"pad", "pump"}
    BY <1>6, Frames
  <2> QED
    BY <1>2, <2>1 DEF PeriodInv
<1>7. CASE PumpLimit \/ PumpWrite
  <2>1. on' = on /\ prefix' = prefix /\ fpc \in {"pump", "write"} /\ fpc' \in {"pump", "write"}
    BY <1>7, Frames
  <2> QED
    BY <1>2, <2>1 DEF PeriodInv
<1>8. CASE PumpDone
  <2>1. (on => on' = on) /\ prefix' = prefix /\ fpc = "pump" /\ fpc' = "top"
    BY <1>8, Frames
  <2> QED
    BY <1>2, <2>1 DEF PeriodInv
<1>9. CASE Retune
  <2>1. fpc' = "top" /\ ResetRing
    BY <1>9, Frames
  <2>2. trk'.wr = 0
    BY <2>1, ResetSlots
  <2> QED
    BY <2>1, <2>2 DEF PeriodInv
<1>10. CASE Execute
  <2>1. on /\ on' = on /\ fpc' = fpc
    BY <1>10, Frames
  <2> QED
    BY <1>2, <2>1 DEF PeriodInv
<1> QED
  BY <1>n, <1>3, <1>4, <1>5, <1>6, <1>7, <1>8, <1>9, <1>10

\* The limit of a chunk, and its size.
LEMMA LimitEffect ==
  ASSUME WInv, PumpLimit
  PROVE  /\ batch' >= 1 /\ trk'.wr + batch' <= trk'.rd + N - 2
         /\ batch' <= IF replay' # <<>> THEN Len(replay') ELSE queued'
         /\ on => eng + Busy < limit'
<1>0. /\ WordTypes /\ RoomInv /\ Tracked /\ trk.rd \in Nat /\ trk.wr \in Nat /\ eng \in Nat /\ lag \in Nat
      /\ queued \in Nat /\ replay \in Seq(BOOLEAN) /\ eng = trk.rd + lag
      /\ N \in Nat /\ N >= 4 /\ Guard \in Nat /\ Skew \in Nat /\ Busy \in Nat /\ Skew + Busy < Guard
      /\ Target \in Nat /\ Chunk \in Nat \ {0}
  BY RingConstants, WordsAssumption DEF WInv, WordTypes, Trackers, Tracked
<1>1. trk' = trk /\ replay' = replay /\ queued' = queued
  BY Frames DEF Waits
<1> DEFINE room == Writable(trk, Target)   left == IF replay # <<>> THEN Len(replay) ELSE queued
<1>2. room > 0 /\ ~Nothing /\ batch' = Smaller(Smaller(room, Chunk), left)
  BY DEF PumpLimit
<1>3. room \in Int /\ (room > 0 => trk.wr + room <= trk.rd + N - 2)
  <2>1. Smaller(Target, N - 2) \in Int /\ Smaller(Target, N - 2) <= N - 2
    BY <1>0 DEF Smaller
  <2> DEFINE m == Smaller(Target, N - 2)
  <2>2. room = IF Fill(trk) < 0 \/ Fill(trk) >= m THEN 0 ELSE m - Fill(trk)
    BY DEF Writable
  <2>3. m \in Int /\ m <= N - 2
    BY <2>1
  <2> HIDE DEF m, room
  <2> QED
    BY <1>0, <2>2, <2>3 DEF Fill
<1>4. left \in Nat /\ left >= 1
  <2>1. CASE replay # <<>>
    BY <1>0, <2>1
  <2>2. CASE replay = <<>>
    BY <1>0, <1>2, <2>2 DEF Nothing
  <2> QED
    BY <2>1, <2>2
<1> HIDE DEF room
<1>5. batch' >= 1 /\ batch' <= room /\ batch' <= left /\ batch' \in Int
  <2> HIDE DEF left
  <2> QED
    BY <1>0, <1>2, <1>3, <1>4 DEF Smaller
<1>6. on => eng + Busy < limit'
  <2> SUFFICES ASSUME on PROVE eng + Busy < limit'
    OBVIOUS
  <2>1. PICK e \in eng - trk.rd - Skew .. eng - trk.rd + Skew : limit' = BehindLimit(e)
    BY DEF PumpLimit
  <2>2. limit' = trk.rd + Larger(0, e) + Guard /\ e \in Int /\ eng - trk.rd - Skew <= e
    BY <1>0, <2>1 DEF BehindLimit
  <2> DEFINE l == Larger(0, e)
  <2>3. l \in Int /\ e <= l
    BY <2>2 DEF Larger
  <2>4. limit' = (trk.rd + l) + Guard
    BY <2>2
  <2>5. (eng - trk.rd) - Skew <= e
    BY <1>0, <2>1
  <2> DEFINE r == trk.rd   x == eng   lim == limit'
  <2>6. /\ lim = (r + l) + Guard /\ (x - r) - Skew <= e
        /\ r \in Int /\ x \in Int /\ e \in Int /\ l \in Int /\ e <= l
        /\ Guard \in Int /\ Skew \in Int /\ Busy \in Int /\ Skew + Busy < Guard
    BY <1>0, <2>2, <2>3, <2>4, <2>5
  <2> HIDE DEF l, r, x, lim
  <2>7. x + Busy < lim
    BY <2>6
  <2> QED
    BY <2>7 DEF x, lim
<1>7. trk'.wr + batch' <= trk'.rd + N - 2
  BY <1>0, <1>1, <1>2, <1>3, <1>5
<1>8. batch' <= IF replay' # <<>> THEN Len(replay') ELSE queued'
  BY <1>1, <1>5
<1> QED
  BY <1>5, <1>6, <1>7, <1>8

LEMMA StepRoom == WInv /\ [Next]_vars => RoomInv' /\ LimitInv'
<1> SUFFICES ASSUME WInv, [Next]_vars PROVE RoomInv' /\ LimitInv'
  OBVIOUS
<1> USE DEF Still, Waits, Limits
<1>1. trk'.wr <= trk'.rd + N - 2
  BY StepRing
<1>2. /\ WordTypes /\ RoomInv /\ LimitInv /\ trk.rd \in Nat /\ trk.wr \in Nat /\ eng \in Nat
      /\ batch \in Int /\ limit \in Int /\ moved \in Nat /\ Busy \in Nat /\ N \in Nat
      /\ queued \in Nat /\ replay \in Seq(BOOLEAN)
      /\ fpc \in {"top", "fill", "poll", "pad", "pump", "write"}
  BY RingConstants DEF WInv, WordTypes, Trackers
<1>n. Publish \/ Refresh \/ Fill0 \/ Poll \/ PadAhead \/ PumpLimit \/ PumpWrite \/ PumpDone
        \/ Retune \/ Execute \/ Push \/ UNCHANGED vars
  BY DEF Next
<1>3. CASE Refresh \/ Fill0 \/ Poll \/ PadAhead \/ PumpDone \/ Retune
  <2>1. fpc' # "write"
    BY <1>3, Frames
  <2> QED
    BY <1>1, <2>1 DEF RoomInv, LimitInv
<1>4. CASE Publish \/ UNCHANGED vars
  <2>1. trk' = trk /\ Still /\ Waits /\ Limits /\ fpc' = fpc
    BY <1>4, TrackKept, Frames
  <2> QED
    BY <1>2, <2>1 DEF RoomInv, LimitInv
<1>5. CASE Push
  <2>1. trk' = trk /\ Still /\ queued' = queued + 1 /\ replay' = replay /\ Limits /\ fpc' = fpc
    BY <1>5, Frames
  <2> QED
    BY <1>2, <2>1 DEF RoomInv, LimitInv
<1>6. CASE PumpLimit
  <2>1. on' = on /\ eng' = eng /\ moved' = 0
    BY <1>6, Frames
  <2>2. /\ batch' >= 1 /\ trk'.wr + batch' <= trk'.rd + N - 2
        /\ batch' <= IF replay' # <<>> THEN Len(replay') ELSE queued'
        /\ on => eng + Busy < limit'
    BY <1>6, LimitEffect
  <2>3. RoomInv'
    BY <1>1, <2>2 DEF RoomInv
  <2>4. LimitInv'
    BY <1>2, <2>1, <2>2 DEF LimitInv
  <2> QED
    BY <2>3, <2>4
<1>7. CASE PumpWrite
  <2>1. /\ Still /\ limit' = limit /\ moved' = moved /\ batch' = batch - 1
        /\ fpc = "write" /\ fpc' = (IF batch = 1 THEN "pump" ELSE "write")
        /\ (IF replay # <<>> THEN replay' = Tail(replay) /\ queued' = queued
            ELSE queued' = queued - 1 /\ replay' = replay)
    BY <1>7, Frames
  <2>2. trk'.rd = trk.rd /\ trk'.wr = trk.wr + 1
    BY <1>2, <1>7 DEF PumpWrite, AdvanceWrite, WordTypes, Trackers
  <2>3. LimitInv'
    BY <1>2, <2>1 DEF LimitInv
  <2>4. ASSUME fpc' = "write"
        PROVE  /\ batch' >= 1 /\ trk'.wr + batch' <= trk'.rd + N - 2
               /\ batch' <= IF replay' # <<>> THEN Len(replay') ELSE queued'
    <3>1. /\ batch >= 1 /\ batch # 1 /\ trk.wr + batch <= trk.rd + N - 2
          /\ batch <= IF replay # <<>> THEN Len(replay) ELSE queued
      BY <1>2, <2>1, <2>4 DEF RoomInv
    <3>2. batch' >= 1 /\ trk'.wr + batch' <= trk'.rd + N - 2
      BY <1>2, <2>1, <2>2, <3>1
    <3>3. CASE replay # <<>>
      <4>1. replay' = Tail(replay) /\ Len(replay) \in Nat /\ batch <= Len(replay)
        BY <1>2, <2>1, <3>1, <3>3
      <4>2. Len(replay') = Len(replay) - 1 /\ replay' \in Seq(BOOLEAN)
        BY <1>2, <3>3, <4>1
      <4>3. replay' # <<>>
        <5>1. Len(replay') # 0
          BY <1>2, <3>1, <4>1, <4>2
        <5>2. Len(<<>>) = 0
          OBVIOUS
        <5> QED
          BY <5>1, <5>2, Zenon
      <4> QED
        BY <1>2, <2>1, <3>2, <4>1, <4>2, <4>3
    <3>4. CASE replay = <<>>
      BY <1>2, <2>1, <3>1, <3>2, <3>4
    <3> QED
      BY <3>3, <3>4
  <2> QED
    BY <1>1, <2>3, <2>4 DEF RoomInv
<1>8. CASE Execute
  <2>1. /\ on' = on /\ eng' = eng + 1 /\ Waits /\ batch' = batch /\ limit' = limit /\ trk' = trk /\ fpc' = fpc
        /\ (IF fpc = "write" THEN moved < Busy /\ moved' = moved + 1 ELSE moved' = moved)
    BY <1>8, Frames
  <2>2. RoomInv'
    BY <1>2, <2>1 DEF RoomInv
  <2>3. LimitInv'
    BY <1>2, <2>1 DEF LimitInv
  <2> QED
    BY <2>2, <2>3
<1> QED
  BY <1>n, <1>3, <1>4, <1>5, <1>6, <1>7, <1>8

LEMMA StepWInv == WInv /\ [Next]_vars => WInv'
<1> SUFFICES ASSUME WInv, [Next]_vars PROVE WInv'
  OBVIOUS
<1>1. NewestInv'
  BY StepRing
<1> QED
  BY <1>1, StepTypes, StepTracked, StepPeriod, StepRoom DEF WInv

LEMMA InitWInv == Init => WInv
<1> SUFFICES ASSUME Init PROVE WInv
  OBVIOUS
<1>1. 0 \in 0 .. N - 1 /\ N \in Nat /\ N >= 4
  BY RingConstants
<1>2. trk = [rd |-> 0, wr |-> 0, scrubbed |-> 0, prev |-> 0]
  BY DEF Init, Rewound
<1>3. trk \in Trackers
  BY <1>1, <1>2 DEF Trackers
<1>4. WordTypes
  <2>1. Silent \in [Slots -> Vals]
    BY DEF Silent, Vals
  <2>2. words = Silent /\ data = Silent /\ adv \in Advances /\ want = adv /\ replay = <<>> /\ dropped = {}
    BY DEF Init
  <2>3. replay \in Seq(BOOLEAN)
    BY <2>2
  <2>4. /\ eng = 0 /\ lag = 0 /\ lastData = 0 /\ prefix = 0
        /\ fpc = "top" /\ queued = 0 /\ batch = 0 /\ limit = 0 /\ moved = 0
    BY DEF Init
  <2>5. on \in BOOLEAN
    BY Zenon DEF Init
  <2> QED
    BY <1>3, <2>1, <2>2, <2>3, <2>4, <2>5 DEF WordTypes
<1>5. Tracked
  <2>1. RingSlot(0) = 0
    BY <1>1 DEF RingSlot
  <2> QED
    BY <1>2, <2>1 DEF Init, Tracked
<1>6. PeriodInv /\ RoomInv /\ NewestInv /\ LimitInv
  BY <1>1, <1>2 DEF Init, PeriodInv, RoomInv, NewestInv, LimitInv, Silent, Off
<1> QED
  BY <1>4, <1>5, <1>6 DEF WInv

------------------------------------------------------------------------------
(* Words are in place. *)

\* What the words of the slot at p should be.
Due(p) == IF p + adv < trk.wr /\ Holds(p + adv) /\ p + adv \notin dropped THEN p + adv ELSE Off

LEMMA PlacedAtDue == WordsPlaced <=> \A p \in eng + 1 .. trk.wr - 1 : words[RingSlot(p)] = Due(p)
BY DEF WordsPlaced, Due

LEMMA WritesPlaced ==
  ASSUME WInv, WordsPlaced, Writes, NEW p \in eng + 1 .. trk.wr
  PROVE  words'[RingSlot(p)] = Due(p)'
<1> DEFINE w == trk.wr   u == w - adv
<1>0. /\ WordTypes /\ Writes /\ w \in Nat /\ trk.rd \in Nat /\ eng \in Nat /\ trk.rd <= eng
      /\ adv \in Nat /\ adv < N /\ N \in Nat /\ w + 1 <= trk.rd + N - 2 /\ p \in Int /\ eng < p /\ p <= w
      /\ \A q \in dropped : q < w
  <2>1. batch \in Int /\ batch >= 1 /\ trk.wr + batch <= trk.rd + N - 2
    BY DEF WInv, RoomInv, WordTypes, Writes
  <2>2. /\ WordTypes /\ trk.wr \in Nat /\ trk.rd \in Nat /\ eng \in Nat /\ lag \in Nat /\ eng = trk.rd + lag
        /\ adv \in Nat /\ adv < N /\ N \in Nat /\ \A q \in dropped : q < trk.wr
    BY RingConstants DEF WInv, WordTypes, Trackers, Tracked, NewestInv
  <2> QED
    BY <2>1, <2>2
<1>1. WriteDataSlot(w) /\ adv' = adv /\ trk'.wr = w + 1
  BY <1>0, WritesSlots DEF Writes
<1>w. w = trk.wr /\ u = w - adv
  OBVIOUS
<1> HIDE DEF w, u
<1>2. /\ data'[RingSlot(w)] = w
      /\ \A s \in Slots \ {RingSlot(w)} : data'[s] = data[s]
      /\ TooLate(w) =>
              /\ dropped' = dropped \union {w}
              /\ words'[RingSlot(w)] = Off
              /\ \A s \in Slots \ {RingSlot(w)} : words'[s] = words[s]
      /\ ~ TooLate(w) =>
              /\ dropped' = dropped
              /\ words'[RingSlot(u)] = w
              /\ \A s \in Slots \ {RingSlot(w), RingSlot(u)} : words'[s] = words[s]
              /\ RingSlot(u) # RingSlot(w) => words'[RingSlot(w)] = Off
  BY <1>0, <1>1, <1>w, WriteEffect
<1>3. p < w => words[RingSlot(p)] = Due(p)
  <2>1. p < w => p \in eng + 1 .. trk.wr - 1
    BY <1>0, <1>w
  <2> QED
    BY <2>1, PlacedAtDue
<1>4. ASSUME p + adv < w
      PROVE  RingSlot(p + adv) \in Slots \ {RingSlot(w)} /\ p + adv \in Int
  <2>1. p + adv \in Int /\ p + adv # w /\ p + adv < w + N /\ w < p + adv + N /\ w \in Int
    BY <1>0, <1>4
  <2> QED
    BY <2>1, SlotIn, Distinct
<1>5. ASSUME p < w
      PROVE  RingSlot(p) \in Slots \ {RingSlot(w)}
  <2>1. p \in Int /\ w \in Int /\ p # w /\ p < w + N /\ w < p + N
    BY <1>0, <1>5
  <2> QED
    BY <2>1, SlotIn, Distinct
<1>6. ASSUME p < w, p + adv # w
      PROVE  Due(p)' = Due(p)
  <2>1. CASE p + adv < w
    <3>1. Holds(p + adv)' <=> Holds(p + adv)
      <4>1. data'[RingSlot(p + adv)] = data[RingSlot(p + adv)]
        BY <1>2, <1>4, <2>1
      <4> QED
        BY <1>1, <4>1 DEF Holds
    <3>2. p + adv \in dropped' <=> p + adv \in dropped
      <4>1. dropped' = dropped \/ dropped' = dropped \union {w}
        BY <1>2
      <4> QED
        BY <1>6, <4>1
    <3>3. p + adv < w + 1
      BY <1>0, <2>1
    <3> QED
      BY <1>1, <1>w, <2>1, <3>1, <3>2, <3>3 DEF Due
  <2>2. CASE ~ (p + adv < w)
    <3>1. ~ (p + adv < w + 1)
      BY <1>0, <1>6, <2>2
    <3> QED
      BY <1>1, <1>w, <2>2, <3>1 DEF Due
  <2> QED
    BY <2>1, <2>2
<1>7. CASE TooLate(w)
  <2>0. adv > 0
    BY <1>7 DEF TooLate
  <2>1. CASE p < w /\ p + adv # w
    BY <1>2, <1>3, <1>5, <1>6, <1>7, <2>1
  <2>2. CASE p + adv = w
    <3>1. Due(p) = Off
      BY <1>0, <1>w, <2>2 DEF Due
    <3>2. p + adv \in dropped'
      BY <1>2, <1>7, <2>2
    <3>3. Due(p)' = Off
      BY <1>1, <3>2 DEF Due
    <3>4. p < w
      BY <1>0, <2>0, <2>2
    <3> QED
      BY <1>2, <1>3, <1>5, <1>7, <3>1, <3>3, <3>4
  <2>3. CASE p = w
    <3>1. ~ (p + adv < w + 1)
      BY <1>0, <2>0, <2>3
    <3>2. Due(p)' = Off
      BY <1>1, <3>1 DEF Due
    <3> QED
      BY <1>2, <1>7, <2>3, <3>2
  <2>4. p < w \/ p = w
    BY <1>0
  <2> QED
    BY <2>1, <2>2, <2>3, <2>4
<1>8. CASE ~ TooLate(w)
  <2>1. CASE p < w /\ p + adv # w
    <3>1. u \in Int /\ p \in Int /\ p # u /\ p < u + N /\ u < p + N
      BY <1>0, <1>w, <2>1
    <3>2. RingSlot(p) # RingSlot(u)
      BY <3>1, Distinct
    <3> QED
      BY <1>2, <1>3, <1>5, <1>6, <1>8, <2>1, <3>2
  <2>2. CASE p + adv = w
    <3>1. p = u
      BY <1>0, <1>w, <2>2
    <3>2. w \notin dropped'
      BY <1>0, <1>2, <1>8
    <3>3. p + adv' = w /\ w < trk'.wr
      BY <1>0, <1>1, <2>2
    <3>4. data'[RingSlot(p + adv')] = p + adv'
      BY <1>2, <3>3
    <3>5. Due(p)' = w
      BY <3>2, <3>3, <3>4 DEF Due, Holds
    <3> QED
      BY <1>2, <1>8, <3>1, <3>5
  <2>3. CASE p = w /\ p + adv # w
    <3>1. ~ (p + adv < w + 1)
      BY <1>0, <2>3
    <3>2. Due(p)' = Off
      BY <1>1, <3>1 DEF Due
    <3>3. u \in Int /\ w \in Int /\ u # w /\ u < w + N /\ w < u + N
      BY <1>0, <1>w, <2>3
    <3>4. RingSlot(u) # RingSlot(w)
      BY <3>3, Distinct
    <3> QED
      BY <1>2, <1>8, <2>3, <3>2, <3>4
  <2>4. p < w \/ p = w
    BY <1>0
  <2> QED
    BY <2>1, <2>2, <2>3, <2>4
<1> QED
  BY <1>7, <1>8

LEMMA IdlesPlaced ==
  ASSUME WInv, WordsPlaced, Idles, NEW p \in eng + 1 .. trk'.wr - 1
  PROVE  words'[RingSlot(p)] = Due(p)'
<1>1. PICK c \in Nat : trk.wr + c <= trk.rd + N - 2 /\ Pads(c)
  BY DEF Idles
<1> DEFINE w == trk.wr
<1>2. /\ trk'.wr = w + c /\ adv' = adv /\ dropped' = dropped
      /\ \A q \in w .. w + c - 1 : words'[RingSlot(q)] = Off /\ data'[RingSlot(q)] = Off
      /\ \A q \in trk.rd .. w - 1 :
            words'[RingSlot(q)] = words[RingSlot(q)] /\ data'[RingSlot(q)] = data[RingSlot(q)]
  <2>1. adv' = adv /\ dropped' = dropped
    BY DEF Idles
  <2> QED
    BY <1>1, <2>1, PadsSlots DEF WInv
<1>0. /\ w \in Nat /\ trk.rd \in Nat /\ eng \in Nat /\ trk.rd <= eng /\ adv \in Nat
      /\ p \in Int /\ eng < p /\ p < w + c
  <2>1. /\ trk.wr \in Nat /\ trk.rd \in Nat /\ eng \in Nat /\ lag \in Nat /\ eng = trk.rd + lag
        /\ adv \in Nat
    BY RingConstants DEF WInv, WordTypes, Trackers, Tracked
  <2> QED
    BY <1>2, <2>1
<1>w. w = trk.wr
  OBVIOUS
<1> HIDE DEF w
<1>3. ASSUME p + adv >= w
      PROVE  Due(p)' = Off
  <2>1. CASE p + adv < w + c
    <3>1. p + adv \in w .. w + c - 1
      BY <1>0, <1>3, <2>1
    <3>2. data'[RingSlot(p + adv)] = Off /\ p + adv \in Nat
      BY <1>0, <1>2, <3>1
    <3>3. ~ Holds(p + adv)'
      BY <1>0, <1>2, <3>2 DEF Holds, Off
    <3> QED
      BY <1>2, <3>3 DEF Due
  <2>2. CASE ~ (p + adv < w + c)
    BY <1>2, <2>2 DEF Due
  <2> QED
    BY <2>1, <2>2
<1>4. CASE p >= w
  <2>1. p \in w .. w + c - 1 /\ p + adv >= w
    BY <1>0, <1>4
  <2> QED
    BY <1>2, <1>3, <2>1
<1>5. CASE p < w
  <2>1. p \in trk.rd .. w - 1 /\ p \in eng + 1 .. trk.wr - 1
    BY <1>0, <1>5, <1>w
  <2>2. words'[RingSlot(p)] = Due(p)
    BY <1>2, <2>1, PlacedAtDue
  <2>3. CASE p + adv >= w
    <3>1. Due(p) = Off
      BY <1>0, <1>w, <2>3 DEF Due
    <3> QED
      BY <1>3, <2>2, <2>3, <3>1
  <2>4. CASE ~ (p + adv >= w)
    <3>1. p + adv \in trk.rd .. w - 1 /\ p + adv < w /\ p + adv < w + c
      BY <1>0, <1>1, <2>4
    <3>2. data'[RingSlot(p + adv)] = data[RingSlot(p + adv)]
      BY <1>2, <3>1
    <3>3. Holds(p + adv)' <=> Holds(p + adv)
      BY <1>2, <3>2 DEF Holds
    <3>4. Due(p)' = Due(p)
      BY <1>2, <1>w, <3>1, <3>3 DEF Due
    <3> QED
      BY <2>2, <3>4
  <2> QED
    BY <2>3, <2>4
<1> QED
  BY <1>0, <1>4, <1>5

LEMMA PollPlaced ==
  ASSUME WInv, WordsPlaced, Poll, NEW p \in eng + 1 .. trk'.wr - 1
  PROVE  words'[RingSlot(p)] = Due(p)'
<1>1. adv' = adv /\ dropped' = dropped
  BY DEF Poll, envV
<1>0. /\ trk.wr \in Nat /\ eng \in Nat /\ adv \in Nat /\ p \in Int /\ eng < p /\ Guard \in Nat
      /\ WordTypes /\ Tracked
  BY RingConstants DEF WInv, WordTypes, Trackers
<1>2. CASE eng < trk.wr
  <2>1. /\ trk'.wr = trk.wr
        /\ \A q \in eng .. trk.wr - 1 :
             words'[RingSlot(q)] = words[RingSlot(q)] /\ data'[RingSlot(q)] = data[RingSlot(q)]
    BY <1>0, <1>2, PollEffect
  <2>2. p \in eng + 1 .. trk.wr - 1 /\ p \in eng .. trk.wr - 1
    BY <1>0, <2>1
  <2>3. words'[RingSlot(p)] = Due(p)
    BY <2>1, <2>2, PlacedAtDue
  <2>4. CASE p + adv < trk.wr
    <3>1. p + adv \in eng .. trk.wr - 1
      BY <1>0, <2>4
    <3>2. Holds(p + adv)' <=> Holds(p + adv)
      BY <1>1, <2>1, <3>1 DEF Holds
    <3> QED
      BY <1>1, <2>1, <2>3, <3>2 DEF Due
  <2>5. CASE ~ (p + adv < trk.wr)
    BY <1>1, <2>1, <2>3, <2>5 DEF Due
  <2> QED
    BY <2>4, <2>5
<1>3. CASE ~ (eng < trk.wr)
  <2>1. /\ trk'.wr = eng + Guard
        /\ \A q \in eng + 1 .. eng + Guard - 1 :
             words'[RingSlot(q)] = Off /\ data'[RingSlot(q)] = Off
    BY <1>0, <1>3, PollEffect
  <2>2. p \in eng + 1 .. eng + Guard - 1
    BY <1>0, <2>1
  <2>3. Due(p)' = Off
    <3>1. CASE p + adv < eng + Guard
      <4>1. p + adv \in eng + 1 .. eng + Guard - 1 /\ p + adv \in Nat
        BY <1>0, <3>1
      <4>2. data'[RingSlot(p + adv)] = Off
        BY <2>1, <4>1
      <4>3. ~ Holds(p + adv)'
        BY <1>0, <1>1, <4>1, <4>2 DEF Holds, Off
      <4> QED
        BY <1>1, <4>3 DEF Due
    <3>2. CASE ~ (p + adv < eng + Guard)
      BY <1>1, <2>1, <3>2 DEF Due
    <3> QED
      BY <3>1, <3>2
  <2> QED
    BY <2>1, <2>2, <2>3
<1> QED
  BY <1>2, <1>3

LEMMA ChangesPlaced ==
  ASSUME WInv, WordsPlaced, WordTypes', Changes, NEW p \in eng + 1 .. trk.wr - 1
  PROVE  words'[RingSlot(p)] = Due(p)'
<1>0. /\ trk' = trk /\ words' = words /\ data' = data /\ dropped' = dropped /\ Crossed
      /\ trk.wr \in Nat /\ trk.rd \in Nat /\ eng \in Nat /\ lag \in Nat /\ eng = trk.rd + lag
      /\ adv \in Nat /\ adv' \in Nat /\ p \in Int /\ eng < p /\ p < trk.wr /\ lastData \in Nat
      /\ data \in [Slots -> Vals] /\ \A s \in Slots : data[s] < lastData
  <2>1. trk' = trk /\ words' = words /\ data' = data /\ dropped' = dropped /\ Crossed
    BY DEF Changes, RingKept
  <2>2. /\ trk.wr \in Nat /\ trk.rd \in Nat /\ eng \in Nat /\ lag \in Nat /\ eng = trk.rd + lag
        /\ adv \in Advances /\ adv' \in Advances /\ lastData \in Nat
        /\ data \in [Slots -> Vals] /\ \A s \in Slots : data[s] < lastData
    BY DEF WInv, WordTypes, Trackers, Tracked, NewestInv
  <2>3. adv \in Nat /\ adv' \in Nat
    BY <2>2, RingConstants
  <2> QED
    BY <2>1, <2>2, <2>3
<1>1. trk.rd >= lastData
  BY <1>0 DEF Crossed
<1>2. ASSUME NEW a \in Nat
      PROVE  data[RingSlot(p + a)] # p + a
  <2>1. p + a \in Int /\ lastData < p + a
    BY <1>0, <1>1, <1>2
  <2>2. RingSlot(p + a) \in Slots
    BY <2>1, SlotIn
  <2>3. data[RingSlot(p + a)] < lastData
    BY <1>0, <2>2
  <2> DEFINE d == data[RingSlot(p + a)]
  <2>4. d \in Int
    BY <1>0, <2>2 DEF Vals, Off
  <2>5. d < lastData
    BY <2>3
  <2> HIDE DEF d
  <2>6. d # p + a
    BY <1>0, <2>1, <2>4, <2>5
  <2> QED
    BY <2>6 DEF d
<1>3. ~ Holds(p + adv) /\ ~ Holds(p + adv)'
  BY <1>0, <1>2 DEF Holds
<1>4. Due(p) = Off /\ Due(p)' = Off
  BY <1>3 DEF Due
<1> QED
  BY <1>0, <1>4, PlacedAtDue

LEMMA MovesPlaced ==
  ASSUME WInv, WordsPlaced, Moves, NEW p \in eng + 2 .. trk.wr - 1
  PROVE  words'[RingSlot(p)] = Due(p)'
<1>0. /\ trk' = trk /\ words' = words /\ data' = data /\ adv' = adv
      /\ dropped' = {q \in dropped : q > eng'} /\ eng' = eng + 1 /\ eng \in Nat
      /\ adv \in Nat /\ p \in Int /\ eng + 1 < p /\ p \in eng + 1 .. trk.wr - 1
  <2>1. eng \in Nat /\ adv \in Nat /\ trk.wr \in Nat
    BY RingConstants DEF WInv, WordTypes, Trackers
  <2> QED
    BY <2>1 DEF Moves, RingKept
<1>1. p + adv > eng'
  BY <1>0
<1>2. p + adv \in dropped' <=> p + adv \in dropped
  BY <1>0, <1>1
<1>3. Due(p)' = Due(p)
  BY <1>0, <1>2 DEF Due, Holds
<1> QED
  BY <1>0, <1>3, PlacedAtDue

LEMMA StepPlaced == WInv /\ WordsPlaced /\ [Next]_vars => WordsPlaced'
<1> SUFFICES ASSUME WInv, WordsPlaced, [Next]_vars
             PROVE  \A p \in eng' + 1 .. trk'.wr - 1 : words'[RingSlot(p)] = Due(p)'
  BY DEF WordsPlaced, Due
<1>0. eng \in Nat /\ trk.wr \in Nat /\ WordTypes
  BY DEF WInv, WordTypes, Trackers
<1>1. CASE Quiet
  <2>1. /\ trk' = trk /\ words' = words /\ data' = data /\ dropped' = dropped /\ adv' = adv /\ eng' = eng
    BY <1>1 DEF Quiet, RingKept
  <2> QED
    BY <2>1, PlacedAtDue DEF Due, Holds
<1>2. CASE Moves
  <2>1. eng' = eng + 1 /\ trk' = trk
    BY <1>2 DEF Moves, RingKept
  <2>2. \A p \in eng' + 1 .. trk'.wr - 1 : p \in eng + 2 .. trk.wr - 1
    BY <1>0, <2>1
  <2> QED
    BY <1>2, <2>2, MovesPlaced
<1>3. CASE Changes
  <2>1. eng' = eng /\ trk' = trk
    BY <1>3 DEF Changes, RingKept
  <2> QED
    BY <1>3, <2>1, ChangesPlaced, StepTypes
<1>4. CASE Resets
  <2>1. eng' = 0 /\ trk'.wr = 0
    BY <1>4, ResetSlots DEF Resets
  <2> QED
    BY <2>1
<1>5. CASE Idles
  <2>1. eng' = eng
    BY <1>5 DEF Idles
  <2> QED
    BY <1>5, <2>1, IdlesPlaced
<1>6. CASE Poll
  <2>1. eng' = eng
    BY <1>6, Frames
  <2> QED
    BY <1>6, <2>1, PollPlaced
<1>7. CASE Writes
  <2>1. eng' = eng /\ trk'.wr = trk.wr + 1
    BY <1>0, <1>7, WritesSlots DEF Writes
  <2>2. \A p \in eng' + 1 .. trk'.wr - 1 : p \in eng + 1 .. trk.wr
    BY <1>0, <2>1
  <2> QED
    BY <1>7, <2>2, WritesPlaced
<1> QED
  BY <1>1, <1>2, <1>3, <1>4, <1>5, <1>6, <1>7, RingSteps

(* For every ring, guard, chunk, advance and stall the amplitude words in a  *)
(* slot still to be executed are those of its sample, or off, through       *)
(* changes of the advance, retunes, overruns and words that came too late   *)
(* (WriteDataSlot(), ApplyPendingEnvAdvance()).                             *)
THEOREM WordsInPlace == Spec => []WordsPlaced
<1> DEFINE Inv == WInv /\ WordsPlaced
<1>1. Init => Inv
  <2>1. Init => WordsPlaced
    <3> SUFFICES ASSUME Init PROVE WordsPlaced
      OBVIOUS
    <3>1. eng = 0 /\ trk.wr = 0
      BY DEF Init, Rewound
    <3> QED
      BY <3>1 DEF WordsPlaced
  <2> QED
    BY <2>1, InitWInv
<1>2. Inv /\ [Next]_vars => Inv'
  BY StepWInv, StepPlaced
<1>3. Inv => WordsPlaced
  OBVIOUS
<1> HIDE DEF Inv
<1> QED
  BY <1>1, <1>2, <1>3, PTL DEF Spec

\* What ExecutingUntouched says of a step.
Untouched == on /\ on' /\ eng' = eng /\ eng < trk.wr => words'[RingSlot(eng)] = words[RingSlot(eng)]

LEMMA StepUntouched == WInv /\ [Next]_vars => Untouched
<1> SUFFICES ASSUME WInv, [Next]_vars, on, on', eng' = eng, eng < trk.wr
             PROVE  words'[RingSlot(eng)] = words[RingSlot(eng)]
  BY DEF Untouched
<1>0. /\ WordTypes /\ Tracked /\ RoomInv /\ trk.wr \in Nat /\ trk.rd \in Nat /\ eng \in Nat /\ trk.rd <= eng
      /\ adv \in Nat /\ adv < N /\ N \in Nat /\ limit \in Int /\ moved \in Nat /\ Busy \in Nat
      /\ trk.wr <= trk.rd + N - 2
  <2>1. /\ WordTypes /\ Tracked /\ RoomInv /\ trk.wr \in Nat /\ trk.rd \in Nat /\ eng \in Nat
        /\ lag \in Nat /\ eng = trk.rd + lag
        /\ adv \in Nat /\ adv < N /\ N \in Nat /\ limit \in Int /\ moved \in Nat /\ Busy \in Nat
        /\ trk.wr <= trk.rd + N - 2
    BY RingConstants DEF WInv, WordTypes, Trackers, Tracked, RoomInv
  <2> QED
    BY <2>1
<1>1. CASE Quiet \/ Changes
  BY <1>1 DEF Quiet, Changes, RingKept
<1>2. CASE Moves
  BY <1>0, <1>2 DEF Moves
<1>3. CASE Resets
  BY <1>3 DEF Resets
<1>4. CASE Idles
  <2>1. eng \in trk.rd .. trk.wr - 1
    BY <1>0
  <2>2. PICK c \in Nat : trk.wr + c <= trk.rd + N - 2 /\ Pads(c)
    BY <1>4 DEF Idles
  <2> QED
    BY <1>0, <2>1, <2>2, PadsSlots
<1>5. CASE Poll
  <2>1. eng \in eng .. trk.wr - 1
    BY <1>0
  <2> QED
    BY <1>0, <1>5, <2>1, PollEffect
<1>6. CASE Writes
  <2> DEFINE w == trk.wr   u == w - adv
  <2>1. WriteDataSlot(w) /\ fpc = "write"
    BY <1>6 DEF Writes
  <2>2. eng < limit
    BY <1>0, <2>1 DEF WInv, LimitInv
  <2>3. RingSlot(eng) \in Slots \ {RingSlot(w)}
    <3>1. eng \in Int /\ w \in Int /\ eng # w /\ eng < w + N /\ w < eng + N
      BY <1>0
    <3> HIDE DEF w
    <3> QED
      BY <3>1, SlotIn, Distinct
  <2>4. CASE TooLate(w)
    BY <1>0, <2>1, <2>3, <2>4, WriteEffect
  <2>5. CASE ~ TooLate(w)
    <3>1. RingSlot(eng) # RingSlot(u)
      <4>1. CASE adv = 0
        <5>1. u = w
          BY <1>0, <4>1
        <5> QED
          BY <2>3, <5>1
      <4>2. CASE adv > 0
        <5>1. w - adv >= limit
          BY <1>0, <2>5, <4>2 DEF TooLate
        <5>2. eng \in Int /\ u \in Int /\ eng # u /\ eng < u + N /\ u < eng + N
          BY <1>0, <2>2, <5>1
        <5> HIDE DEF u
        <5> QED
          BY <5>2, Distinct
      <4> QED
        BY <1>0, <4>1, <4>2
    <3> QED
      BY <1>0, <2>1, <2>3, <2>5, <3>1, WriteEffect
  <2> QED
    BY <2>4, <2>5
<1> QED
  BY <1>1, <1>2, <1>3, <1>4, <1>5, <1>6, RingSteps

(* The feeder never changes the amplitude words of the slot that the engine *)
(* is executing, as long as the engine has not reached the writer: the      *)
(* limit of UpdateBehindLimit() outlasts the chunk written under it.        *)
THEOREM WordsUntouched == Spec => ExecutingUntouched
<1>1. Init => WInv
  BY InitWInv
<1>2. WInv /\ [Next]_vars => WInv'
  BY StepWInv
<1>3. WInv /\ [Next]_vars => Untouched
  BY StepUntouched
<1>4. Spec => [][Untouched]_vars
  BY <1>1, <1>2, <1>3, PTL DEF Spec
<1> QED
  BY <1>4 DEF ExecutingUntouched, Untouched
==============================================================================
