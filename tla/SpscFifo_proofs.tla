--------------------------- MODULE SpscFifo_proofs ---------------------------
(***************************************************************************)
(* Proofs about SpscFifo for every storage size, every limit, every batch  *)
(* size and every interleaving.                                            *)
(*                                                                         *)
(* The inductive invariant says what the two copies in progress know: the  *)
(* producer's copy fits in the storage beyond the elements not yet popped  *)
(* and is complete up to pi, the consumer's copy lies inside the elements  *)
(* already published and agrees with the storage.  Without the second part *)
(* the stores that publish a copy could publish anything.                  *)
(***************************************************************************)
EXTENDS SpscFifo, SequenceTheorems, TLAPS

(* The counters are ordered, and the stored elements fit in the storage. *)
CountersInv ==
  /\ tail =< head
  /\ head =< tail + Cap
  /\ ppc # "idle" => pt =< tail

(* The batch being copied in fits, and its first pi elements are in place. *)
PushInv ==
  ppc = "copy" =>
    /\ pi =< pm
    /\ pm =< Len(src)
    /\ head + pm =< tail + Cap
    /\ \A i \in 0..pi - 1 : buffer[SlotOf(head + i)] = src[i + 1]

(* The batch being copied out is published and agrees with the storage. *)
PopInv ==
  cpc = "copy" =>
    /\ Len(dst) =< cm
    /\ tail + cm =< head
    /\ \A i \in 1..Len(dst) : dst[i] = buffer[SlotOf(tail + i - 1)]

(* What clear() saw is still in order between the counters. *)
ClearInv == cpc = "clear" => tail =< seen /\ seen =< head

IInv == TypeOK /\ CountersInv /\ PushInv /\ PopInv /\ ClearInv

USE FifoAssumption
-----------------------------------------------------------------------------
(* A position is its lap and its slot. *)
LEMMA SlotInRange ==
  ASSUME NEW p \in Nat
  PROVE  /\ SlotOf(p) \in 0..Cap - 1
         /\ p \div Cap \in Int /\ p = Cap * (p \div Cap) + SlotOf(p)
BY SMT DEF SlotOf

(* Two elements less than a storage apart are in different slots. *)
LEMMA SlotsApart ==
  ASSUME NEW p \in Nat, NEW q \in Nat, p < q, q < p + Cap
  PROVE  SlotOf(p) # SlotOf(q)
<1> DEFINE x == p \div Cap
           y == q \div Cap
<1>1. x \in Int /\ p = Cap * x + SlotOf(p) /\ SlotOf(p) \in 0..Cap - 1
  BY SlotInRange
<1>2. y \in Int /\ q = Cap * y + SlotOf(q) /\ SlotOf(q) \in 0..Cap - 1
  BY SlotInRange
<1> HIDE DEF x, y
<1>0. ASSUME NEW i \in Int, NEW j \in Int, i < j
      PROVE  Cap * i \in Int /\ Cap * j \in Int /\ Cap * i + Cap =< Cap * j
  BY <1>0, FifoAssumption, SMT
<1>3. CASE x < y
  BY <1>0, <1>1, <1>2, <1>3
<1>4. CASE y < x
  BY <1>0, <1>1, <1>2, <1>4
<1>5. CASE x = y
  BY <1>1, <1>2, <1>5
<1> QED
  BY <1>1, <1>2, <1>3, <1>4, <1>5

(* The limit is never larger than the storage nor zero. *)
LEMMA ClampedInRange ==
  ASSUME NEW l \in Nat
  PROVE  Clamped(l) \in 1..Cap
BY DEF Clamped, Lesser

(* The number of elements push() may copy, from a possibly old tail. *)
LEMMA FreeSlotsFit ==
  ASSUME IInv, ppc = "limit"
  PROVE  /\ FreeSlots(head - pt) \in Nat
         /\ head + FreeSlots(head - pt) =< tail + Cap
BY DEF IInv, TypeOK, CountersInv, FreeSlots

(* A batch offered is a sequence of samples. *)
LEMMA BatchIsSeq == Batch \subseteq Seq(Values)
BY DEF Batch

LEMMA InitIInv == Init => IInv
<1> SUFFICES ASSUME Init PROVE IInv
  OBVIOUS
<1>1. TypeOK
  BY DEF Init, TypeOK
<1>2. CountersInv /\ PushInv /\ PopInv /\ ClearInv
  BY DEF Init, CountersInv, PushInv, PopInv, ClearInv
<1> QED
  BY <1>1, <1>2 DEF IInv
-----------------------------------------------------------------------------
(* Every step keeps the invariant. *)
LEMMA StepIInv == IInv /\ [Next]_vars => IInv'
<1> SUFFICES ASSUME IInv, [Next]_vars PROVE IInv'
  OBVIOUS
<1>t. TypeOK /\ CountersInv /\ PushInv /\ PopInv /\ ClearInv
  BY DEF IInv
<1>1. CASE PushLoad
  <2>1. TypeOK'
    BY <1>1, <1>t, BatchIsSeq DEF PushLoad, TypeOK, cvars
  <2>2. CountersInv' /\ PushInv'
    BY <1>1, <1>t DEF PushLoad, TypeOK, CountersInv, PushInv, cvars
  <2>3. PopInv' /\ ClearInv'
    BY <1>1, <1>t DEF PushLoad, PopInv, ClearInv, cvars
  <2> QED
    BY <2>1, <2>2, <2>3 DEF IInv
<1>2. CASE PushLimit
  <2>1. /\ FreeSlots(head - pt) \in Nat
        /\ head + FreeSlots(head - pt) =< tail + Cap
    BY <1>2, FreeSlotsFit DEF PushLimit
  <2>2. pm' \in Nat /\ pm' =< Len(src) /\ head + pm' =< tail + Cap
    BY <1>2, <1>t, <2>1 DEF PushLimit, Lesser, TypeOK
  <2>3. TypeOK'
    BY <1>2, <1>t, <2>2 DEF PushLimit, TypeOK, cvars
  <2>4. CountersInv' /\ PushInv'
    BY <1>2, <1>t, <2>2 DEF PushLimit, TypeOK, CountersInv, PushInv, cvars
  <2>5. PopInv' /\ ClearInv'
    BY <1>2, <1>t DEF PushLimit, PopInv, ClearInv, cvars
  <2> QED
    BY <2>3, <2>4, <2>5 DEF IInv
<1>3. CASE PushCopy
  <2>0. /\ pi < pm /\ pm =< Len(src) /\ head + pm =< tail + Cap
        /\ ppc = "copy" /\ head \in Nat /\ tail \in Nat /\ pi \in Nat /\ pm \in Nat
        /\ src \in Seq(Values) /\ tail =< head
        /\ buffer \in [0..Cap - 1 -> Values \cup {Zero}]
    BY <1>3, <1>t DEF PushCopy, TypeOK, PushInv, CountersInv
  <2>1. SlotOf(head + pi) \in 0..Cap - 1
    <3>1. head + pi \in Nat
      BY <2>0
    <3> QED
      BY <3>1, SlotInRange
  <2>2. src[pi + 1] \in Values
    BY <2>0
  <2>3. buffer' = [buffer EXCEPT ![SlotOf(head + pi)] = src[pi + 1]]
    BY <1>3 DEF PushCopy
  <2>4. TypeOK'
    BY <1>3, <1>t, <2>1, <2>2 DEF PushCopy, TypeOK, cvars
  <2>5. CountersInv' /\ ClearInv'
    BY <1>3, <1>t DEF PushCopy, CountersInv, ClearInv, cvars
  <2>6. PushInv'
    <3>1. SUFFICES ASSUME NEW i \in 0..pi
                   PROVE  buffer'[SlotOf(head + i)] = src[i + 1]
      BY <1>3, <2>0, <1>t DEF PushCopy, PushInv
    <3>2. CASE i = pi
      BY <3>2, <2>1, <2>3, <2>0
    <3>3. CASE i < pi
      <4>1. SlotOf(head + i) # SlotOf(head + pi) /\ SlotOf(head + i) \in 0..Cap - 1
        <5> DEFINE p == head + i
                   q == head + pi
        <5>1. p \in Nat /\ q \in Nat /\ p < q /\ q < p + Cap
          BY <3>3, <2>0
        <5> HIDE DEF p, q
        <5>2. SlotOf(p) # SlotOf(q) /\ SlotOf(p) \in 0..Cap - 1
          BY <5>1, SlotsApart, SlotInRange
        <5> QED
          BY <5>2 DEF p, q
      <4>2. buffer[SlotOf(head + i)] = src[i + 1]
        BY <3>3, <1>t, <2>0 DEF PushInv
      <4> QED
        BY <4>1, <4>2, <2>3, <2>0
    <3> QED
      BY <3>2, <3>3, <2>0
  <2>7. PopInv'
    <3>1. SUFFICES ASSUME cpc = "copy", NEW i \in 1..Len(dst)
                   PROVE  buffer'[SlotOf(tail + i - 1)] = buffer[SlotOf(tail + i - 1)]
      BY <1>3, <1>t DEF PushCopy, PopInv, cvars
    <3>2. dst \in Seq(Values \cup {Zero}) /\ cm \in Nat /\ Len(dst) =< cm /\ tail + cm =< head
      BY <3>1, <1>t DEF PopInv, TypeOK
    <3>3. SlotOf(tail + i - 1) # SlotOf(head + pi) /\ SlotOf(tail + i - 1) \in 0..Cap - 1
      <4> DEFINE p == tail + i - 1
                 q == head + pi
      <4>1. p \in Nat /\ q \in Nat /\ p < q /\ q < p + Cap
        BY <3>2, <2>0
      <4> HIDE DEF p, q
      <4>2. SlotOf(p) # SlotOf(q) /\ SlotOf(p) \in 0..Cap - 1
        BY <4>1, SlotsApart, SlotInRange
      <4> QED
        BY <4>2 DEF p, q
    <3> QED
      BY <3>3, <2>3, <2>0
  <2> QED
    BY <2>4, <2>5, <2>6, <2>7 DEF IInv
<1>4. CASE PushStore
  <2>1. TypeOK'
    BY <1>4, <1>t DEF PushStore, TypeOK, cvars
  <2>2. CountersInv' /\ PushInv' /\ ClearInv' /\ PopInv'
    BY <1>4, <1>t DEF PushStore, TypeOK, CountersInv, PushInv, PopInv, ClearInv, cvars
  <2> QED
    BY <2>1, <2>2 DEF IInv
<1>5. CASE PopLoad
  <2>1. cm' \in Nat /\ tail + cm' =< head
    BY <1>5, <1>t DEF PopLoad, TypeOK, CountersInv, Lesser
  <2>2. TypeOK'
    BY <1>5, <1>t, <2>1 DEF PopLoad, TypeOK, pvars
  <2>3. CountersInv' /\ PushInv' /\ ClearInv'
    BY <1>5, <1>t DEF PopLoad, CountersInv, PushInv, ClearInv, pvars
  <2>4. PopInv'
    BY <1>5, <1>t, <2>1 DEF PopLoad, PopInv, TypeOK
  <2> QED
    BY <2>2, <2>3, <2>4 DEF IInv
<1>6. CASE PopCopy
  <2>1. SlotOf(tail + Len(dst)) \in 0..Cap - 1
    <3>1. tail + Len(dst) \in Nat
      BY <1>t DEF TypeOK
    <3> QED
      BY <3>1, SlotInRange
  <2>2. TypeOK'
    BY <1>6, <1>t, <2>1 DEF PopCopy, TypeOK, pvars
  <2>3. CountersInv' /\ PushInv' /\ ClearInv'
    BY <1>6, <1>t DEF PopCopy, CountersInv, PushInv, ClearInv, pvars
  <2>4. PopInv'
    <3>0. /\ dst \in Seq(Values \cup {Zero}) /\ cm \in Nat /\ tail \in Nat
          /\ cpc = "copy" /\ Len(dst) < cm /\ tail + cm =< head
          /\ \A i \in 1..Len(dst) : dst[i] = buffer[SlotOf(tail + i - 1)]
      BY <1>6, <1>t DEF PopCopy, PopInv, TypeOK
    <3>1. dst' = Append(dst, buffer[SlotOf(tail + Len(dst))])
      BY <1>6 DEF PopCopy
    <3>2. /\ Len(dst') = Len(dst) + 1
          /\ \A i \in 1..Len(dst) : dst'[i] = dst[i]
          /\ dst'[Len(dst) + 1] = buffer[SlotOf(tail + Len(dst))]
      BY <3>0, <3>1, <2>1, <1>t DEF TypeOK
    <3>3. ASSUME NEW i \in 1..Len(dst) + 1
          PROVE  dst'[i] = buffer[SlotOf(tail + i - 1)]
      <4>1. CASE i \in 1..Len(dst)
        BY <4>1, <3>0, <3>2
      <4>2. CASE i = Len(dst) + 1
        <5>1. tail + i - 1 = tail + Len(dst)
          BY <4>2, <3>0
        <5> QED
          BY <5>1, <4>2, <3>2
      <4> QED
        BY <4>1, <4>2, <3>0
    <3> QED
      BY <3>0, <3>2, <3>3, <1>6 DEF PopCopy, PopInv
  <2> QED
    BY <2>2, <2>3, <2>4 DEF IInv
<1>7. CASE PopStore
  <2>1. TypeOK'
    BY <1>7, <1>t DEF PopStore, TypeOK, pvars
  <2>2. CountersInv' /\ PushInv' /\ PopInv' /\ ClearInv'
    BY <1>7, <1>t DEF PopStore, TypeOK, CountersInv, PushInv, PopInv, ClearInv, pvars
  <2> QED
    BY <2>1, <2>2 DEF IInv
<1>8. CASE ClearLoad
  <2>1. TypeOK'
    BY <1>8, <1>t DEF ClearLoad, TypeOK, pvars
  <2>2. CountersInv' /\ PushInv' /\ PopInv' /\ ClearInv'
    BY <1>8, <1>t DEF ClearLoad, TypeOK, CountersInv, PushInv, PopInv, ClearInv, pvars
  <2> QED
    BY <2>1, <2>2 DEF IInv
<1>9. CASE ClearStore
  <2>1. TypeOK'
    BY <1>9, <1>t DEF ClearStore, TypeOK, pvars
  <2>2. CountersInv' /\ PushInv' /\ PopInv' /\ ClearInv'
    BY <1>9, <1>t DEF ClearStore, TypeOK, CountersInv, PushInv, PopInv, ClearInv, pvars
  <2> QED
    BY <2>1, <2>2 DEF IInv
<1>10. CASE SetLimit
  <2>1. TypeOK'
    BY <1>10, <1>t, ClampedInRange DEF SetLimit, TypeOK, pvars, cvars
  <2>2. CountersInv' /\ PushInv' /\ PopInv' /\ ClearInv'
    BY <1>10, <1>t DEF SetLimit, CountersInv, PushInv, PopInv, ClearInv, pvars, cvars
  <2> QED
    BY <2>1, <2>2 DEF IInv
<1>11. CASE UNCHANGED vars
  BY <1>11, <1>t DEF IInv, TypeOK, CountersInv, PushInv, PopInv, ClearInv, vars, pvars, cvars
<1> QED
  BY <1>1, <1>2, <1>3, <1>4, <1>5, <1>6, <1>7, <1>8, <1>9, <1>10, <1>11 DEF Next
-----------------------------------------------------------------------------
LEMMA Invariance == Spec => []IInv
BY InitIInv, StepIInv, PTL DEF Spec

(* Type correctness of the FIFO's state for every storage size. *)
THEOREM TypeCorrect == Spec => []TypeOK
<1>1. IInv => TypeOK
  BY DEF IInv
<1> QED
  BY <1>1, Invariance, PTL

(* The FIFO never holds more than its storage, whatever setLimit() and     *)
(* clear() do meanwhile.                                                   *)
THEOREM FifoFillBounded == Spec => []FillBounded
<1>1. IInv => FillBounded
  BY DEF IInv, TypeOK, CountersInv, PushInv, FillBounded
<1> QED
  BY <1>1, Invariance, PTL

(* push() and pop() never touch the same element of the storage at once.   *)
THEOREM FifoNoDataRace == Spec => []NoDataRace
<1>1. IInv => NoDataRace
  <2> SUFFICES ASSUME IInv, ppc = "copy", pi < pm, cpc = "copy", Len(dst) < cm
               PROVE  SlotOf(head + pi) # SlotOf(tail + Len(dst))
    BY DEF NoDataRace
  <2>1. /\ head \in Nat /\ tail \in Nat /\ pi \in Nat /\ pm \in Nat /\ cm \in Nat
        /\ Len(dst) \in Nat
        /\ head + pm =< tail + Cap /\ tail + cm =< head
    BY DEF IInv, TypeOK, PushInv, PopInv
  <2> QED
    BY <2>1, SlotsApart
<1> QED
  BY <1>1, Invariance, PTL
-----------------------------------------------------------------------------
(* The visible content is a sequence of head - tail samples.               *)
LEMMA ContentsIsSeq ==
  ASSUME IInv
  PROVE  /\ Contents \in Seq(Values \cup {Zero})
         /\ Len(Contents) = head - tail
         /\ \A i \in 1..head - tail : Contents[i] = buffer[SlotOf(tail + i - 1)]
<1>1. /\ head - tail \in Nat /\ head \in Nat /\ tail \in Nat
      /\ buffer \in [0..Cap - 1 -> Values \cup {Zero}]
  BY DEF IInv, TypeOK, CountersInv
<1>2. ASSUME NEW i \in 1..head - tail
      PROVE  buffer[SlotOf(tail + i - 1)] \in Values \cup {Zero}
  <2>1. tail + i - 1 \in Nat
    BY <1>1
  <2> QED
    BY <2>1, <1>1, SlotInRange
<1> QED
  BY <1>1, <1>2 DEF Contents

(* Copying an element in does not change what the FIFO holds.              *)
LEMMA PushCopyKeepsContents ==
  ASSUME IInv, PushCopy
  PROVE  Contents' = Contents
<1>1. /\ head \in Nat /\ tail \in Nat /\ pi \in Nat /\ pm \in Nat
      /\ tail =< head /\ pi < pm /\ head + pm =< tail + Cap
      /\ buffer \in [0..Cap - 1 -> Values \cup {Zero}]
      /\ buffer' = [buffer EXCEPT ![SlotOf(head + pi)] = src[pi + 1]]
      /\ head' = head /\ tail' = tail
  BY DEF IInv, TypeOK, CountersInv, PushInv, PushCopy
<1>2. ASSUME NEW i \in 1..head - tail
      PROVE  buffer'[SlotOf(tail + i - 1)] = buffer[SlotOf(tail + i - 1)]
  <2> DEFINE p == tail + i - 1
             q == head + pi
  <2>1. p \in Nat /\ q \in Nat /\ p < q /\ q < p + Cap
    BY <1>1
  <2> HIDE DEF p, q
  <2>2. SlotOf(p) # SlotOf(q) /\ SlotOf(p) \in 0..Cap - 1
    BY <2>1, SlotsApart, SlotInRange
  <2>3. buffer' = [buffer EXCEPT ![SlotOf(q)] = src[pi + 1]]
    BY <1>1 DEF q
  <2>4. buffer'[SlotOf(p)] = buffer[SlotOf(p)]
    BY <2>2, <2>3, <1>1
  <2> QED
    BY <2>4 DEF p
<1> QED
  BY <1>1, <1>2 DEF Contents

(* The store of head appends the accepted prefix of the batch.             *)
LEMMA PushStoreAppends ==
  ASSUME IInv, PushStore
  PROVE  /\ Contents' = Contents \o SubSeq(src, 1, pm)
         /\ pm \in 0..Len(src)
         /\ Len(Contents) + pm =< Cap
<1>1. /\ head \in Nat /\ tail \in Nat /\ pm \in Nat /\ tail =< head
      /\ pi = pm /\ pm =< Len(src) /\ src \in Seq(Values)
      /\ head + pm =< tail + Cap
      /\ \A i \in 0..pm - 1 : buffer[SlotOf(head + i)] = src[i + 1]
      /\ head' = head + pm /\ tail' = tail /\ buffer' = buffer
  BY DEF IInv, TypeOK, CountersInv, PushInv, PushStore
<1> DEFINE new == SubSeq(src, 1, pm)
<1>2. /\ new \in Seq(Values) /\ Len(new) = pm
      /\ \A i \in 1..pm : new[i] = src[i]
  BY <1>1
<1>3. /\ Contents \in Seq(Values \cup {Zero})
      /\ Len(Contents) = head - tail
      /\ \A i \in 1..head - tail : Contents[i] = buffer[SlotOf(tail + i - 1)]
  BY ContentsIsSeq
<1> HIDE DEF new
<1>a. /\ Contents \o new \in Seq(Values \cup {Zero})
      /\ Len(Contents \o new) = (head - tail) + pm
      /\ \A i \in 1..(head - tail) + pm : (Contents \o new)[i] =
            IF i <= head - tail THEN Contents[i] ELSE new[i - (head - tail)]
  <2>1. new \in Seq(Values \cup {Zero})
    BY <1>2, SeqMonotonic
  <2> DEFINE old == Contents
  <2>2. old \in Seq(Values \cup {Zero}) /\ Len(old) = head - tail
    BY <1>3
  <2> HIDE DEF old
  <2>3. /\ old \o new \in Seq(Values \cup {Zero})
        /\ Len(old \o new) = Len(old) + Len(new)
        /\ \A i \in 1..Len(old) + Len(new) : (old \o new)[i] =
              IF i <= Len(old) THEN old[i] ELSE new[i - Len(old)]
    BY <2>1, <2>2, ConcatProperties
  <2> QED
    BY <2>2, <2>3, <1>2 DEF old
<1> DEFINE both == Contents \o new
<1> HIDE DEF both
<1>b. (head - tail) + pm = head + pm - tail
  BY <1>1
<1>c. /\ both \in Seq(Values \cup {Zero})
      /\ Len(both) = head + pm - tail
      /\ \A i \in 1..head + pm - tail : both[i] =
            IF i <= head - tail THEN Contents[i] ELSE new[i - (head - tail)]
  BY <1>a, <1>b DEF both
<1>4. ASSUME NEW i \in 1..head + pm - tail
      PROVE  buffer[SlotOf(tail + i - 1)] = both[i]
  <2>1. CASE i =< head - tail
    <3>1. i \in 1..head - tail
      BY <2>1, <1>1
    <3> QED
      BY <3>1, <2>1, <1>3, <1>c
  <2>2. CASE ~ (i =< head - tail)
    <3> DEFINE j == i - (head - tail)
    <3>1. j \in 1..pm /\ tail + i - 1 = head + (j - 1)
      BY <2>2, <1>1
    <3>2. both[i] = new[j]
      BY <2>2, <1>c
    <3> HIDE DEF j
    <3>3. j - 1 \in 0..pm - 1 /\ (j - 1) + 1 = j
      BY <3>1, <1>1
    <3>4. buffer[SlotOf(head + (j - 1))] = src[(j - 1) + 1]
      BY <3>3, <1>1
    <3>5. new[j] = src[j]
      BY <3>1, <1>2
    <3> QED
      BY <3>1, <3>2, <3>3, <3>4, <3>5
  <2> QED
    BY <2>1, <2>2
<1>6. Contents' = [i \in 1..head + pm - tail |-> buffer[SlotOf(tail + i - 1)]]
  BY <1>1 DEF Contents
<1>7. both = [i \in 1..head + pm - tail |-> both[i]]
  BY <1>c
<1>8. Contents' = both
  BY <1>4, <1>6, <1>7
<1>9. Len(Contents) + pm =< Cap
  BY <1>1, <1>3
<1> QED
  BY <1>8, <1>9, <1>1 DEF new, both

(* Moving the tail by n drops the n oldest samples and nothing else.       *)
LEMMA TailMoveDrops ==
  ASSUME IInv, NEW n \in Nat, tail + n =< head,
         head' = head, tail' = tail + n, buffer' = buffer
  PROVE  /\ n \in 0..Len(Contents)
         /\ Contents' = SubSeq(Contents, n + 1, Len(Contents))
<1>1. head \in Nat /\ tail \in Nat /\ tail =< head
  BY DEF IInv, TypeOK, CountersInv
<1>2. /\ Contents \in Seq(Values \cup {Zero})
      /\ Len(Contents) = head - tail
      /\ \A i \in 1..head - tail : Contents[i] = buffer[SlotOf(tail + i - 1)]
  BY ContentsIsSeq
<1>3. Contents' = [i \in 1..head - (tail + n) |-> buffer[SlotOf((tail + n) + i - 1)]]
  BY DEF Contents
<1>4. SubSeq(Contents, n + 1, head - tail)
        = [i \in 1..(head - tail) - n |-> Contents[i + n]]
  <2> DEFINE s == SubSeq(Contents, n + 1, head - tail)
  <2>1. /\ s \in Seq(Values \cup {Zero}) /\ Len(s) = (head - tail) - n
        /\ \A i \in 1..(head - tail) - n : s[i] = Contents[i + n]
    BY <1>1, <1>2
  <2> HIDE DEF s
  <2>2. s = [i \in 1..Len(s) |-> s[i]]
    BY <2>1
  <2>3. s = [i \in 1..(head - tail) - n |-> Contents[i + n]]
    BY <2>1, <2>2
  <2> QED
    BY <2>3 DEF s
<1>5. ASSUME NEW i \in 1..(head - tail) - n
      PROVE  Contents[i + n] = buffer[SlotOf((tail + n) + i - 1)]
  <2>1. i + n \in 1..head - tail /\ tail + (i + n) - 1 = (tail + n) + i - 1
    BY <1>1
  <2> QED
    BY <2>1, <1>2
<1>6. (head - tail) - n = head - (tail + n)
  BY <1>1
<1> QED
  BY <1>1, <1>2, <1>3, <1>4, <1>5, <1>6

(* What pop() copied out is the oldest part of the content.                *)
LEMMA PoppedIsPrefix ==
  ASSUME IInv, cpc = "copy", Len(dst) = cm
  PROVE  dst = SubSeq(Contents, 1, cm)
<1>1. /\ head \in Nat /\ tail \in Nat /\ cm \in Nat /\ tail + cm =< head
      /\ dst \in Seq(Values \cup {Zero})
      /\ \A i \in 1..cm : dst[i] = buffer[SlotOf(tail + i - 1)]
  BY DEF IInv, TypeOK, PopInv
<1>2. /\ Contents \in Seq(Values \cup {Zero})
      /\ Len(Contents) = head - tail
      /\ \A i \in 1..head - tail : Contents[i] = buffer[SlotOf(tail + i - 1)]
  BY ContentsIsSeq
<1> DEFINE s == SubSeq(Contents, 1, cm)
<1>3. /\ s \in Seq(Values \cup {Zero}) /\ Len(s) = cm
      /\ \A i \in 1..cm : s[i] = Contents[i]
  BY <1>1, <1>2
<1> HIDE DEF s
<1>4. ASSUME NEW i \in 1..cm
      PROVE  s[i] = dst[i]
  <2>1. i \in 1..head - tail
    BY <1>1
  <2>2. s[i] = Contents[i] /\ dst[i] = buffer[SlotOf(tail + i - 1)]
    BY <1>1, <1>3
  <2>3. Contents[i] = buffer[SlotOf(tail + i - 1)]
    BY <2>1, <1>2
  <2> QED
    BY <2>2, <2>3
<1>5. Len(dst) = cm /\ dst \in Seq(Values \cup {Zero})
  BY <1>1
<1>6. s = dst
  BY <1>3, <1>4, <1>5, SeqEqual
<1> QED
  BY <1>6 DEF s
-----------------------------------------------------------------------------
(* The initial state is an empty queue.                                    *)
LEMMA InitRefines == Init => Queue!QInit
<1> SUFFICES ASSUME Init PROVE Queue!QInit
  OBVIOUS
<1>1. Contents = <<>>
  BY DEF Init, Contents
<1> QED
  BY <1>1 DEF Init, Queue!QInit

(* Every step is a step of the bounded queue or changes nothing it shows.  *)
LEMMA StepRefines ==
  ASSUME IInv, [Next]_vars
  PROVE  [Queue!QNext]_Queue!qvars
<1> USE DEF Queue!qvars
<1>1. CASE PushLoad
  <2>1. Contents' = Contents
    BY <1>1 DEF PushLoad, Contents, SlotOf
  <2>2. Queue!Offer
    BY <1>1, <2>1 DEF PushLoad, Queue!Offer, Queue!Batches, Batch, cvars
  <2> QED
    BY <2>2 DEF Queue!QNext
<1>2. CASE PushLimit \/ PopLoad \/ PopCopy \/ ClearLoad \/ SetLimit
  <2>1. Contents' = Contents
    BY <1>2 DEF PushLimit, PopLoad, PopCopy, ClearLoad, SetLimit, Contents, SlotOf
  <2> QED
    BY <1>2, <2>1 DEF PushLimit, PopLoad, PopCopy, ClearLoad, SetLimit, pvars, cvars
<1>3. CASE PushCopy
  <2>1. Contents' = Contents
    BY <1>3, PushCopyKeepsContents
  <2> QED
    BY <1>3, <2>1 DEF PushCopy, cvars
<1>4. CASE PushStore
  <2>1. /\ Contents' = Contents \o SubSeq(src, 1, pm)
        /\ pm \in 0..Len(src)
        /\ Len(Contents) + pm =< Cap
    BY <1>4, PushStoreAppends
  <2>2. src' = src /\ got' = got
    BY <1>4 DEF PushStore, cvars
  <2>3. CASE pm = 0
    <3>1. Contents' = Contents
      BY <1>4, <2>3 DEF PushStore, Contents, SlotOf, IInv, TypeOK
    <3> QED
      BY <3>1, <2>2
  <2>4. CASE pm # 0
    <3>1. pm \in 1..Len(src)
      BY <2>1, <2>4
    <3>2. Queue!Accept
      BY <3>1, <2>1, <2>2 DEF Queue!Accept
    <3> QED
      BY <3>2 DEF Queue!QNext
  <2> QED
    BY <2>3, <2>4
<1>5. CASE PopStore
  <2>1. /\ cm \in Nat /\ tail + cm =< head /\ cpc = "copy" /\ Len(dst) = cm
        /\ head' = head /\ tail' = tail + cm /\ buffer' = buffer
        /\ got' = dst /\ src' = src
    BY <1>5 DEF PopStore, IInv, TypeOK, PopInv, pvars
  <2>2. /\ cm \in 0..Len(Contents)
        /\ Contents' = SubSeq(Contents, cm + 1, Len(Contents))
    BY <2>1, TailMoveDrops
  <2>3. dst = SubSeq(Contents, 1, cm)
    BY <2>1, PoppedIsPrefix
  <2>4. Queue!Take
    BY <2>1, <2>2, <2>3 DEF Queue!Take
  <2> QED
    BY <2>4 DEF Queue!QNext
<1>6. CASE ClearStore
  <2> DEFINE n == seen - tail
  <2>1. /\ n \in Nat /\ tail + n =< head
        /\ head' = head /\ tail' = tail + n /\ buffer' = buffer
        /\ got' = got /\ src' = src
    BY <1>6 DEF ClearStore, IInv, TypeOK, ClearInv, pvars
  <2> HIDE DEF n
  <2>2. /\ n \in 0..Len(Contents)
        /\ Contents' = SubSeq(Contents, n + 1, Len(Contents))
    BY <2>1, TailMoveDrops
  <2>3. Queue!Discard
    BY <2>1, <2>2 DEF Queue!Discard
  <2> QED
    BY <2>3 DEF Queue!QNext
<1>7. CASE UNCHANGED vars
  <2>1. Contents' = Contents
    BY <1>7 DEF vars, Contents, SlotOf
  <2> QED
    BY <1>7, <2>1 DEF vars, pvars, cvars
<1> QED
  BY <1>1, <1>2, <1>3, <1>4, <1>5, <1>6, <1>7 DEF Next

(* SpscFifo implements the bounded queue for every storage size, limit and *)
(* batch size: no sample is lost, duplicated, reordered or overwritten     *)
(* between writeStream() and the feeder thread.                            *)
THEOREM FifoImplementsQueue == Spec => ImplementsQueue
<1>1. IInv /\ [Next]_vars => [Queue!QNext]_Queue!qvars
  BY StepRefines
<1> QED
  BY <1>1, InitRefines, Invariance, PTL DEF Spec, ImplementsQueue, Queue!QSpec
=============================================================================
