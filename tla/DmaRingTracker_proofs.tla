------------------------ MODULE DmaRingTracker_proofs ------------------------
(***************************************************************************)
(* Facts about DmaRingTracker for every ring size, position and target.     *)
(***************************************************************************)
EXTENDS DmaRingTracker, TLAPS

-----------------------------------------------------------------------------
(* Facts about % and \div that the rings rest on.                           *)

(* Division with remainder, and the range of the remainder. *)
LEMMA DivMod ==
  ASSUME NEW n \in Nat \ {0}, NEW a \in Int
  PROVE  /\ a % n \in 0..n - 1
         /\ a \div n \in Int
         /\ a = n * (a \div n) + (a % n)
BY SMT

(* Multiples of n with different quotients are at least n apart. *)
LEMMA MultiplesApart ==
  ASSUME NEW n \in Nat \ {0}, NEW p \in Int, NEW q \in Int, p < q
  PROVE  n * p \in Int /\ n * q \in Int /\ n * p + n =< n * q
BY SMT

(* Quotient and remainder are unique. *)
LEMMA QuotientUnique ==
  ASSUME NEW n \in Nat \ {0}, NEW p \in Int, NEW q \in Int,
         NEW r \in 0..n - 1, NEW s \in 0..n - 1,
         n * p + r = n * q + s
  PROVE  p = q /\ r = s
<1>1. ~ (p < q)
  BY MultiplesApart
<1>2. ~ (q < p)
  BY MultiplesApart
<1> QED
  BY <1>1, <1>2

(* A number written as quotient and remainder. *)
LEMMA ModOf ==
  ASSUME NEW n \in Nat \ {0}, NEW q \in Int, NEW r \in 0..n - 1
  PROVE  (n * q + r) % n = r /\ (n * q + r) \div n = q
<1> DEFINE a == n * q + r
<1>1. a \in Int
  BY SMT
<1>2. /\ a = n * (a \div n) + (a % n)
      /\ a \div n \in Int
      /\ a % n \in 0..n - 1
  BY <1>1, DivMod
<1> HIDE DEF a
<1>3. a = n * q + r
  BY DEF a
<1>4. a \div n = q /\ a % n = r
  BY <1>2, <1>3, QuotientUnique
<1> QED
  BY <1>4 DEF a

(* Two different positions less than one lap apart are in different slots. *)
LEMMA SlotsDiffer ==
  ASSUME NEW n \in Nat \ {0}, NEW a \in Int, NEW b \in Int, a < b, b < a + n
  PROVE  a % n # b % n
<1>1. a = n * (a \div n) + (a % n) /\ a \div n \in Int /\ a % n \in 0..n - 1
  BY DivMod
<1>2. b = n * (b \div n) + (b % n) /\ b \div n \in Int /\ b % n \in 0..n - 1
  BY DivMod
<1> DEFINE p == a \div n
           q == b \div n
           r == a % n
           s == b % n
<1>3. /\ a = n * p + r /\ b = n * q + s
      /\ p \in Int /\ q \in Int /\ r \in 0..n - 1 /\ s \in 0..n - 1
  BY <1>1, <1>2
<1> HIDE DEF p, q, r, s
<1>4. SUFFICES ASSUME r = s PROVE FALSE
  BY DEF r, s
<1>5. CASE p < q
  BY <1>5, <1>3, <1>4, MultiplesApart
<1>6. CASE q < p
  BY <1>6, <1>3, <1>4, MultiplesApart
<1>7. CASE p = q
  BY <1>7, <1>3, <1>4
<1> QED
  BY <1>3, <1>5, <1>6, <1>7

-----------------------------------------------------------------------------
(* The ring.                                                                *)

(* The modular distance is the distance travelled modulo the ring. *)
LEMMA DeltaIsDistance ==
  ASSUME NEW t, NEW d \in Nat, t.rd \in Nat, t.prev = t.rd % N
  PROVE  Delta(t, (t.rd + d) % N) = d % N
<1> DEFINE n  == N
           x  == t.rd
           y  == t.rd + d
<1>1. n \in Nat \ {0} /\ x \in Int /\ y \in Int /\ y = x + d
  BY RingAssumption
<1>2. x = n * (x \div n) + (x % n) /\ x \div n \in Int /\ x % n \in 0..n - 1
  BY <1>1, DivMod
<1>3. y = n * (y \div n) + (y % n) /\ y \div n \in Int /\ y % n \in 0..n - 1
  BY <1>1, DivMod
<1>4. d = n * (d \div n) + (d % n) /\ d \div n \in Int /\ d % n \in 0..n - 1
  BY <1>1, DivMod
<1> DEFINE q == 1 + (x \div n) - (y \div n) + (d \div n)
<1>5. q \in Int /\ (y % n) + n - (x % n) = n * q + (d % n)
  <2> DEFINE xq == x \div n  xr == x % n
             yq == y \div n  yr == y % n
             dq == d \div n  dr == d % n
  <2>1. /\ {xq, yq, dq, xr, yr, dr} \subseteq Int
        /\ x = n * xq + xr /\ y = n * yq + yr /\ d = n * dq + dr
    BY <1>1, <1>2, <1>3, <1>4
  <2> HIDE DEF xq, xr, yq, yr, dq, dr, n, x, y
  <2>2. n * (1 + xq - yq + dq) = n + n * xq - n * yq + n * dq
    BY <1>1, <2>1
  <2>3. yr + n - xr = n * (1 + xq - yq + dq) + dr
    <3> DEFINE xn == n * xq  yn == n * yq  dn == n * dq
               total == n * (1 + xq - yq + dq)
    <3>1. /\ xn \in Int /\ yn \in Int /\ dn \in Int
          /\ x = xn + xr /\ y = yn + yr /\ d = dn + dr
      BY <1>1, <2>1
    <3>2. total = n + xn - yn + dn
      BY <2>2
    <3> HIDE DEF xn, yn, dn, total
    <3>3. /\ xr \in Int /\ yr \in Int /\ dr \in Int
          /\ n \in Int /\ x \in Int /\ y \in Int /\ y = x + d
      BY <1>1, <2>1
    <3>4. yr + n - xr = total + dr
      BY <3>1, <3>2, <3>3
    <3> QED
      BY <3>4 DEF total
  <2> QED
    BY <1>1, <2>1, <2>3 DEF xq, xr, yq, yr, dq, dr
<1>6. ((y % n) + n - (x % n)) % n = d % n
  BY <1>1, <1>4, <1>5, ModOf
<1> QED
  BY <1>6 DEF Delta

(* The laps recovered are the laps made, when the expected distance is off *)
(* by less than half a ring.                                               *)
LEMMA LapsAreRecovered ==
  ASSUME NEW d \in Nat, NEW e \in Int, 2 * (e - d) < N, 2 * (d - e) < N
  PROVE  (d % N) + Laps(d % N, e) * N = d
<1>1. N \in Nat \ {0} /\ N >= 4 /\ 2 * N \in Nat \ {0}
  BY RingAssumption
<1>2. d = N * (d \div N) + (d % N) /\ d \div N \in Int /\ d % N \in 0..N - 1
  BY <1>1, DivMod
<1> DEFINE q == d \div N
           r == d % N
<1>3. d = N * q + r /\ q \in Int /\ r \in 0..N - 1
  BY <1>2
<1> HIDE DEF q, r
<1>4. CASE 2 * e > N
  <2> DEFINE s == 2 * (e - d) + N
  <2>1. s \in 0..(2 * N) - 1
    BY <1>1
  <2>2. 2 * (e - r) + N = (2 * N) * q + s
    BY <1>1, <1>3
  <2>3. (2 * (e - r) + N) \div (2 * N) = q
    BY <1>1, <1>3, <2>1, <2>2, ModOf
  <2>4. q >= 0
    <3>1. CASE q < 0
      <4>1. N * q + N =< N * 0
        BY <1>1, <1>3, <3>1, MultiplesApart
      <4> QED
        BY <4>1, <1>1, <1>3
    <3> QED
      BY <3>1, <1>3
  <2>5. Laps(r, e) = q
    BY <1>4, <2>3, <2>4, <1>3 DEF Laps, Larger
  <2>6. q * N = N * q /\ N * q \in Int
    BY <1>1, <1>3
  <2>7. r + Laps(r, e) * N = d
    BY <2>5, <2>6, <1>3
  <2> QED
    BY <2>7 DEF r
<1>5. CASE ~ (2 * e > N)
  <2>1. d \in 0..N - 1
    BY <1>1, <1>5
  <2>2. N * 0 + d = N * q + r
    BY <1>1, <1>3, <2>1
  <2>3. r = d
    BY <1>1, <1>3, <2>1, <2>2, QuotientUnique
  <2>4. Laps(r, e) = 0
    BY <1>5 DEF Laps
  <2> QED
    BY <2>3, <2>4, <1>1 DEF r
<1> QED
  BY <1>4, <1>5

(* update() finds the absolute position of the engine again after any      *)
(* number of laps, if the time elapsed tells the distance to better than   *)
(* half a ring (DmaRingTracker::update()).                                 *)
THEOREM UpdateExact ==
  ASSUME NEW t \in Trackers, t.prev = t.rd % N,
         NEW d \in Nat, NEW e \in Int, 2 * (e - d) < N, 2 * (d - e) < N
  PROVE  Update(t, (t.rd + d) % N, e)
           = [t EXCEPT !.rd = t.rd + d, !.prev = (t.rd + d) % N]
<1> DEFINE slot == (t.rd + d) % N
<1>1. Delta(t, slot) = d % N
  BY DeltaIsDistance DEF Trackers
<1>2. Travelled(t, slot, e) = d
  BY <1>1, LapsAreRecovered DEF Travelled
<1> HIDE DEF slot
<1> QED
  BY <1>2 DEF Update, slot

(* Of the slots that writable() grants, one that is executing or still to   *)
(* be executed can only be the first of an empty ring: there the writer is  *)
(* on the executing slot, which fill() = 0 tells.  The feeder meets such a  *)
(* ring with the engine stopped; while it runs, update() reports it and the *)
(* feeder resynchronises before it writes.  On every other ring the granted *)
(* slots are clear of both, and the fill stays at most N - 2                *)
(* (Buffers.hpp:275).                                                       *)
THEOREM WritesStayClear ==
  ASSUME NEW t \in Trackers, NEW target \in Nat,
         NEW i \in 0..Writable(t, target) - 1,
         NEW q \in {t.rd} \cup t.rd..t.wr - 1
  PROVE  /\ RingSlot(t.wr + i) = RingSlot(q) <=> Fill(t) = 0 /\ i = 0
         /\ Fill(AdvanceWrite(t, i + 1)) =< N - 2
<1>1. N \in Nat \ {0} /\ N >= 4 /\ t.rd \in Nat /\ t.wr \in Nat /\ q \in Int /\ i \in Int
  BY RingAssumption DEF Trackers, Writable, Fill, Smaller
<1>2. /\ t.wr + i \in Int /\ t.rd =< t.wr /\ t.rd =< q /\ 0 =< i
      /\ t.wr + i + 1 - t.rd =< N - 2
      /\ t.rd = t.wr => q = t.rd
      /\ t.rd < t.wr => q < t.wr
  BY <1>1 DEF Writable, Fill, Smaller
<1>3. Fill(t) = 0 <=> t.rd = t.wr
  BY <1>1 DEF Fill
<1>4. ASSUME ~ (t.rd = t.wr /\ i = 0) PROVE RingSlot(t.wr + i) # RingSlot(q)
  <2>1. q < t.wr + i /\ t.wr + i < q + N
    BY <1>1, <1>2, <1>4
  <2>2. q % N # (t.wr + i) % N
    BY <1>1, <1>2, <2>1, SlotsDiffer
  <2> QED
    BY <2>2 DEF RingSlot
<1>5. Fill(AdvanceWrite(t, i + 1)) = t.wr + (i + 1) - t.rd
  BY <1>1 DEF Fill, AdvanceWrite, Trackers
<1>6. Fill(AdvanceWrite(t, i + 1)) =< N - 2
  BY <1>1, <1>2, <1>5
<1>7. RingSlot(t.wr + i) = RingSlot(q) <=> Fill(t) = 0 /\ i = 0
  <2>1. CASE t.rd = t.wr /\ i = 0
    <3>1. t.wr + i = q
      BY <1>1, <1>2, <2>1
    <3> QED
      BY <1>3, <2>1, <3>1
  <2>2. CASE ~ (t.rd = t.wr /\ i = 0)
    BY <1>3, <1>4, <2>2
  <2> QED
    BY <2>1, <2>2
<1> QED
  BY <1>6, <1>7

(* Scrubbing touches completed slots only: never one between the engine     *)
(* and the writer (DmaRingTracker::scrubRange()).                          *)
THEOREM ScrubStaysBehind ==
  ASSUME NEW t \in Trackers,
         NEW p \in ScrubBegin(t)..ScrubEnd(t) - 1, NEW q \in t.rd..t.wr - 1
  PROVE  p < t.rd /\ RingSlot(p) # RingSlot(q)
<1>1. /\ N \in Nat \ {0} /\ t.rd \in Nat /\ t.wr \in Nat /\ t.scrubbed \in Nat
      /\ p \in Int /\ q \in Int
  BY RingAssumption DEF Trackers, ScrubBegin, ScrubEnd, Larger
<1>2. p < t.rd /\ p < q /\ q < p + N
  BY <1>1 DEF ScrubBegin, ScrubEnd, Larger
<1>3. p % N # q % N
  BY <1>1, <1>2, SlotsDiffer
<1> QED
  BY <1>2, <1>3 DEF RingSlot
=============================================================================
