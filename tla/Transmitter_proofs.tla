-------------------------- MODULE Transmitter_proofs --------------------------
(***************************************************************************)
(* Theorems about Transmitter, for every ring size, every number of slots   *)
(* per sample, every level and every bound: types and tracked position, the *)
(* silence behind the scrub, the idle prefix, the advance, and the samples: *)
(* none lost, doubled or reordered, a drained transmitter quiet, and what a *)
(* fault has the engine execute again.                                     *)
(*                                                                         *)
(* The order of the file is that of the invariant: operators and types,     *)
(* TrackInv; slots and positions; ControlInv, DistInv; what a step does to  *)
(* the ring (IdleWrite, DataWrite, Replays, Takes); SpaceInv and LastInv    *)
(* (PlaceInv); PrefixInv; the path of the samples (PathOK) and PathInv;     *)
(* DrainInv; NearInv and ResendInv.                                        *)
(***************************************************************************)
EXTENDS Transmitter, DmaRingTracker_proofs, NaturalsInduction, WellFoundedInduction

(* The constants, as the lemmas below use them. *)
LEMMA ConstantTypes ==
  /\ N \in Nat \ {0} /\ N >= 4
  /\ K \in Nat /\ K > 0 /\ Chunk \in Nat /\ Chunk > 0 /\ FifoCap \in Nat
  /\ Guard \in Nat /\ LowBase \in Nat /\ Margin \in Nat /\ Pacing \in Nat
  /\ BusyLag \in Nat /\ MaxLag \in Nat /\ Skew \in Nat /\ 2 * Skew < N
  /\ MinBatch \in Nat /\ MaxBatch \in Nat
  /\ Advances \subseteq Nat /\ 0 \in Advances
  /\ Target \in Nat
<1>1. N \in Nat \ {0} /\ N >= 4
  BY RingAssumption
<1>2. Target \in Nat
  <2>1. (N * 3) \div 4 \in Nat
    BY <1>1
  <2> QED
    BY <2>1 DEF Target
<1>3. Advances \subseteq Nat /\ 0 \in Advances
  <2>1. N \div 8 \in Int
    BY <1>1
  <2> QED
    BY <2>1, TransmitterAssumption
<1> QED
  BY <1>1, <1>2, <1>3, TransmitterAssumption

LEMMA SlotType ==
  ASSUME NEW p \in Int
  PROVE  RingSlot(p) \in 0..N - 1
BY ConstantTypes, DivMod DEF RingSlot

(* Operators on trackers return trackers. *)
LEMMA UpdateType ==
  ASSUME NEW t \in Trackers, NEW slot \in 0..N - 1, NEW e \in Int
  PROVE  Update(t, slot, e) \in Trackers
<1>1. Delta(t, slot) \in 0..N - 1
  <2>1. slot + N - t.prev \in Int
    BY ConstantTypes DEF Trackers
  <2>2. (slot + N - t.prev) % N \in 0..N - 1
    BY <2>1, ConstantTypes, DivMod
  <2> QED
    BY <2>2 DEF Delta
<1>2. Laps(Delta(t, slot), e) \in Nat
  <2> DEFINE d == Delta(t, slot)
  <2>1. d \in Int /\ 2 * (e - d) + N \in Int /\ 2 * N \in Nat \ {0}
    BY <1>1, ConstantTypes
  <2>2. (2 * (e - d) + N) \div (2 * N) \in Int
    BY <2>1, DivMod
  <2> HIDE DEF d
  <2>3. Laps(d, e) \in Nat
    BY <2>2 DEF Laps, Larger
  <2> QED
    BY <2>3 DEF d
<1>3. Travelled(t, slot, e) \in Nat
  <2> DEFINE l == Laps(Delta(t, slot), e)
  <2>1. l * N \in Nat
    <3> HIDE DEF l
    <3> QED
      BY <1>2, ConstantTypes DEF l
  <2> QED
    BY <1>1, <2>1 DEF Travelled
<1> DEFINE m == Travelled(t, slot, e)
<1> HIDE DEF m
<1>4. t.rd + m \in Nat
  BY <1>3 DEF Trackers, m
<1>5. [t EXCEPT !.rd = @ + m, !.prev = slot] \in Trackers
  BY <1>4 DEF Trackers
<1> QED
  BY <1>5 DEF Update, m

LEMMA WritableType ==
  ASSUME NEW t \in Trackers, NEW target \in Nat
  PROVE  Writable(t, target) \in Nat
BY ConstantTypes DEF Writable, Fill, Smaller, Trackers

LEMMA AdvanceType ==
  ASSUME NEW t \in Trackers, NEW n \in Nat
  PROVE  /\ AdvanceWrite(t, n) \in Trackers
         /\ AdvanceWrite(t, n).rd = t.rd /\ AdvanceWrite(t, n).prev = t.prev
         /\ AdvanceWrite(t, n).wr = t.wr + n
BY DEF AdvanceWrite, Trackers

LEMMA PadType ==
  ASSUME NEW t \in Trackers, NEW level \in Nat
  PROVE  /\ PadTrk(t, level) \in Trackers
         /\ PadTrk(t, level).rd = t.rd /\ PadTrk(t, level).prev = t.prev
BY WritableType, AdvanceType DEF PadTrk

LEMMA PolledType ==
  ASSUME NEW t \in Trackers
  PROVE  /\ PolledTrk(t) \in Trackers
         /\ PolledTrk(t).rd = t.rd /\ PolledTrk(t).prev = t.prev
<1>1. Larger(Guard, 1) \in Nat /\ Larger(t.scrubbed, t.rd) \in Nat
  BY ConstantTypes DEF Larger, Trackers
<1>2. t.rd + Larger(Guard, 1) \in Nat
  BY <1>1 DEF Trackers
<1>3. /\ Resync(t, Guard) \in Trackers
      /\ Resync(t, Guard).rd = t.rd /\ Resync(t, Guard).prev = t.prev
  BY <1>1, <1>2 DEF Resync, Trackers
<1> QED
  BY <1>3 DEF PolledTrk

LEMMA ScrubType ==
  ASSUME NEW t \in Trackers
  PROVE  /\ ScrubTrk(t) \in Trackers
         /\ ScrubTrk(t).rd = t.rd /\ ScrubTrk(t).prev = t.prev
<1>1. ScrubEnd(t) \in Nat
  BY ConstantTypes DEF ScrubEnd, ScrubBegin, Larger, Trackers
<1> QED
  BY <1>1 DEF ScrubTrk, MarkScrubbed, Larger, Trackers

(* Operators on ring contents return ring contents. *)
Rings == [0..N - 1 -> Nat]

LEMMA SilencedType ==
  ASSUME NEW r \in Rings, NEW from, NEW to
  PROVE  Silenced(r, from, to) \in Rings
BY DEF Silenced, Rings

LEMMA FilledType ==
  ASSUME NEW r \in Rings, NEW pos \in Nat, NEW seq \in Seq(Nat)
  PROVE  Filled(r, pos, seq) \in Rings
<1>1. ASSUME NEW s \in 0..N - 1
      PROVE  (s - pos) % N \in 0..N - 1
  BY ConstantTypes, DivMod
<1>2. ASSUME NEW s \in 0..N - 1, ((s - pos) % N) + 1 =< Len(seq)
      PROVE  seq[((s - pos) % N) + 1] \in Nat
  BY <1>1, <1>2, ConstantTypes
<1> QED
  BY <1>1, <1>2 DEF Filled, Rings

LEMMA LowType ==
  ASSUME adv \in Advances
  PROVE  Low \in Nat
BY ConstantTypes DEF Low, Smaller, Larger

(* A nonempty set of naturals has a least element, a bounded one a greatest. *)
LEMMA LeastElement ==
  ASSUME NEW S \in SUBSET Nat, S # {}
  PROVE  \E m \in S : \A p \in S : m =< p
<1>1. PICK m \in S : \A p \in S : <<p, m>> \notin OpToRel(<, Nat)
  <2>1. S \subseteq Nat
    OBVIOUS
  <2> QED
    BY <2>1, NatLessThanWellFounded, WFMin, Zenon
<1>2. ASSUME NEW p \in S
      PROVE  ~ (p < m)
  <2>1. p \in Nat /\ m \in Nat
    OBVIOUS
  <2> QED
    BY <1>1, <2>1, Zenon DEF OpToRel
<1> QED
  BY <1>2

LEMMA GreatestElement ==
  ASSUME NEW n \in Nat, NEW S \in SUBSET (0..n), S # {}
  PROVE  \E m \in S : \A p \in S : p =< m
<1> DEFINE T == {n - p : p \in S}
<1>1. T \in SUBSET Nat /\ T # {}
  <2>1. PICK p \in S : TRUE
    OBVIOUS
  <2>2. n - p \in T
    OBVIOUS
  <2>3. \A x \in S : n - x \in Nat
    OBVIOUS
  <2> QED
    BY <2>2, <2>3
<1>2. PICK l \in T : \A p \in T : l =< p
  BY <1>1, LeastElement
<1>3. PICK m \in S : l = n - m
  BY <1>2
<1>4. ASSUME NEW p \in S PROVE p =< m
  <2>1. n - p \in T
    OBVIOUS
  <2>2. l =< n - p
    BY <1>2, <2>1
  <2>3. n \in Int /\ p \in Int /\ m \in Int
    OBVIOUS
  <2> HIDE DEF T
  <2> QED
    BY <1>3, <2>2, <2>3
<1> QED
  BY <1>4

(* What a retune keeps is a sequence of slot contents. *)
LEMMA UnplayedType ==
  ASSUME NEW from \in Nat, NEW to \in Nat, ring \in Rings
  PROVE  Unplayed(from, to) \in Seq(Nat)
<1>1. CASE to > from /\ to - from =< N
  <2> DEFINE data  == {p \in from..to - 1 : ring[RingSlot(p)] # 0}
             first == IF data = {} THEN to ELSE CHOOSE p \in data : \A q \in data : p =< q
  <2>1. first \in from..to
    <3>1. CASE data = {}
      BY <1>1, <3>1
    <3>2. CASE data # {}
      <4>1. data \in SUBSET Nat
        OBVIOUS
      <4>2. \E p \in data : \A q \in data : p =< q
        BY <4>1, <3>2, LeastElement
      <4>3. first \in data
        BY <3>2, <4>2
      <4> QED
        BY <4>3
    <3> QED
      BY <3>1, <3>2
  <2> HIDE DEF first
  <2>2. \A i \in 1..to - first : ring[RingSlot(first + i - 1)] \in Nat
    <3> TAKE i \in 1..to - first
    <3>1. first + i - 1 \in Int
      BY <2>1
    <3>2. RingSlot(first + i - 1) \in 0..N - 1
      BY <3>1, SlotType
    <3> QED
      BY <3>2 DEF Rings
  <2>3. [i \in 1..to - first |-> ring[RingSlot(first + i - 1)]] \in Seq(Nat)
    BY <2>1, <2>2
  <2>4. Unplayed(from, to) = [i \in 1..to - first |-> ring[RingSlot(first + i - 1)]]
    BY <1>1 DEF Unplayed, first
  <2> QED
    BY <2>3, <2>4
<1>2. CASE ~ (to > from /\ to - from =< N)
  <2>1. Unplayed(from, to) = << >>
    BY <1>2 DEF Unplayed
  <2> QED
    BY <2>1
<1> QED
  BY <1>1, <1>2

(* The distance the feeder expects, and the tracker of a paused engine.     *)
LEMMA PausedType ==
  ASSUME TypeOK, NEW b \in BOOLEAN, NEW e \in Expected(b)
  PROVE  e \in Int /\ Paused(e) \in Trackers
<1>1. e \in Int
  BY ConstantTypes DEF TypeOK, Expected, Trackers
<1>2. RingSlot(eng) \in 0..N - 1 /\ trk \in Trackers
  <2>1. eng \in Int /\ trk \in Trackers
    BY DEF TypeOK
  <2> QED
    BY <2>1, SlotType
<1> QED
  BY <1>1, <1>2, UpdateType DEF Paused
-----------------------------------------------------------------------------
(* Type correctness *)

LEMMA InitTypes == Init => TypeOK
<1> SUFFICES ASSUME Init PROVE TypeOK
  OBVIOUS
<1>1. IdleRing \in [0..N - 1 -> Nat] /\ Rewound \in Trackers
  BY ConstantTypes DEF IdleRing, Rewound, Trackers
<1>2. /\ endBurst \in BOOLEAN /\ active \in BOOLEAN /\ running \in BOOLEAN
      /\ padNow \in BOOLEAN /\ inBurst \in BOOLEAN /\ firstQueued \in BOOLEAN
      /\ waited \in BOOLEAN /\ on \in BOOLEAN
  BY Zenon DEF Init
<1> QED
  BY <1>1, <1>2, ConstantTypes DEF Init, TypeOK, NoModel, NotDrained

LEMMA ResetTypes ==
  ASSUME ResetRing
  PROVE  trk' \in Trackers /\ ring' \in Rings /\ lastData' \in Nat /\ prefix' \in Nat
BY ConstantTypes DEF ResetRing, IdleRing, Rewound, Trackers, Rings

LEMMA ProducerTypes == TypeOK /\ Producer => TypeOK'
<1> SUFFICES ASSUME TypeOK, Producer PROVE TypeOK'
  OBVIOUS
<1> USE DEF fifoV, prodV, flagV, tuneV, envV, pubV, ringV, burstV, drainV, engV, statV
<1>1. CASE WriteBegin
  <2>1. endBurst' \in BOOLEAN
    BY <1>1, Zenon DEF WriteBegin
  <2> QED
    BY <1>1, <2>1, ConstantTypes DEF WriteBegin, TypeOK
<1>2. CASE WritePush
  BY <1>2, ConstantTypes DEF WritePush, TypeOK, Smaller
<1>3. CASE EndBurst
  BY <1>3 DEF EndBurst, TypeOK
<1> QED
  BY <1>1, <1>2, <1>3 DEF Producer

LEMMA ControlTypes == TypeOK /\ Control => TypeOK'
<1> SUFFICES ASSUME TypeOK, Control PROVE TypeOK'
  OBVIOUS
<1> USE DEF fifoV, prodV, flagV, tuneV, envV, pubV, ringV, burstV, drainV, engV, statV
<1>1. CASE RequestRetune
  BY <1>1 DEF RequestRetune, TypeOK
<1>2. CASE PublishModel
  BY <1>2 DEF PublishModel, TypeOK
<1>3. CASE StartClear
  <2>1. head * K \in Nat
    BY ConstantTypes DEF TypeOK
  <2> QED
    BY <1>3, <2>1 DEF StartClear, TypeOK
<1>4. CASE StartRun
  <2>1. want' \in Advances
    BY <1>4 DEF StartRun, TypeOK
  <2>2. /\ endBurst' \in BOOLEAN /\ active' \in BOOLEAN /\ running' \in BOOLEAN
        /\ padNow' \in BOOLEAN /\ inBurst' \in BOOLEAN /\ firstQueued' \in BOOLEAN
        /\ waited' \in BOOLEAN
    BY <1>4, Zenon DEF StartRun
  <2> QED
    BY <1>4, <2>1, <2>2, ResetTypes DEF StartRun, Baseline, Rings, TypeOK
<1>5. CASE StopBegin
  <2>1. active' \in BOOLEAN /\ running' \in BOOLEAN
    BY <1>5, Zenon DEF StopBegin
  <2> QED
    BY <1>5, <2>1 DEF StopBegin, TypeOK
<1>6. CASE StopFinish
  <2>1. head * K \in Nat
    BY ConstantTypes DEF TypeOK
  <2>2. on' \in BOOLEAN
    BY <1>6, Zenon DEF StopFinish
  <2> QED
    BY <1>6, <2>1, <2>2, ResetTypes DEF StopFinish, Rings, TypeOK
<1> QED
  BY <1>1, <1>2, <1>3, <1>4, <1>5, <1>6 DEF Control

LEMMA EngineTypes == TypeOK /\ (Engine \/ PrerollExpires) => TypeOK'
<1> SUFFICES ASSUME TypeOK, Engine \/ PrerollExpires PROVE TypeOK'
  OBVIOUS
<1> USE DEF fifoV, prodV, flagV, tuneV, envV, pubV, ringV, burstV, drainV, engV, statV
<1>1. CASE EngineStep
  <2>1. ring[RingSlot(eng + 1)] \in Nat
    <3>1. eng + 1 \in Int /\ ring \in [0..N - 1 -> Nat]
      BY DEF TypeOK
    <3>2. RingSlot(eng + 1) \in 0..N - 1
      BY <3>1, SlotType
    <3> QED
      BY <3>1, <3>2
  <2> QED
    BY <1>1, <2>1 DEF EngineStep, Larger, TypeOK
<1>2. CASE EngineFault
  BY <1>2 DEF EngineFault, TypeOK
<1>3. CASE FaultClears
  BY <1>3 DEF FaultClears, TypeOK
<1>4. CASE PrerollExpires
  BY <1>4 DEF PrerollExpires, TypeOK
<1> QED
  BY <1>1, <1>2, <1>3, <1>4 DEF Engine

(* Applying or keeping an advance in one feeder step. *)
LEMMA AdvanceTypes ==
  ASSUME TypeOK, NEW w \in Advances, ApplyAdvance(w) \/ KeepAdvance
  PROVE  /\ adv' \in Advances /\ trk' \in Trackers /\ ring' \in Rings
         /\ lastData' \in Nat /\ prefix' \in Nat
<1>1. CASE ApplyAdvance(w)
  <2>1. CASE ResetRing
    BY <1>1, <2>1, ResetTypes DEF ApplyAdvance
  <2>2. CASE UNCHANGED ringV
    BY <1>1, <2>2 DEF ApplyAdvance, ringV, TypeOK, Rings
  <2> QED
    BY <1>1, <2>1, <2>2 DEF ApplyAdvance
<1>2. CASE KeepAdvance
  BY <1>2 DEF KeepAdvance, ringV, TypeOK, Rings
<1> QED
  BY <1>1, <1>2

(* The feeder steps that take requests and rebuild the ring. *)
LEMMA FeederControlTypes ==
  ASSUME TypeOK,
         FeederExit \/ FeederTop \/ RetuneBegin \/ RetuneRebuild \/ FeederAdvance
  PROVE  TypeOK'
<1> USE DEF fifoV, prodV, flagV, tuneV, envV, pubV, ringV, burstV, drainV, engV, statV
<1>1. CASE FeederExit
  BY <1>1 DEF FeederExit, TypeOK
<1>2. CASE FeederTop
  <2>1. want' \in Advances /\ published' \in Advances \cup {NoModel}
    BY <1>2 DEF FeederTop, RefreshModel, TypeOK
  <2>2. /\ adv' \in Advances /\ trk' \in Trackers /\ ring' \in Rings
        /\ lastData' \in Nat /\ prefix' \in Nat
    <3>1. CASE published = NoModel
      BY <1>2, <3>1, ConstantTypes, AdvanceTypes DEF FeederTop, RefreshModel
    <3>2. CASE published # NoModel
      <4>1. published \in Advances
        BY <3>2 DEF TypeOK
      <4> QED
        BY <1>2, <3>2, <4>1, AdvanceTypes DEF FeederTop, RefreshModel
    <3> QED
      BY <3>1, <3>2
  <2>3. padNow' \in BOOLEAN
    BY <1>2, Zenon DEF FeederTop, RefreshModel
  <2> QED
    BY <1>2, <2>1, <2>2, <2>3 DEF FeederTop, RefreshModel, TypeOK, Rings
<1>3. CASE RetuneBegin
  BY <1>3 DEF RetuneBegin, TypeOK
<1>4. CASE RetuneRebuild
  <2>1. replay' \in Seq(Nat)
    <3>1. PICK e \in Expected(fpc = "restore" \/ fault = "stopped") :
            replay' = Unplayed(Paused(e).rd, lastData) \o replay
      BY <1>4 DEF RetuneRebuild
    <3>2. Paused(e).rd \in Nat
      BY <3>1, PausedType DEF Trackers
    <3>3. Unplayed(Paused(e).rd, lastData) \in Seq(Nat)
      BY <3>2, UnplayedType DEF TypeOK, Rings
    <3>4. replay \in Seq(Nat)
      BY DEF TypeOK
    <3> QED
      BY <3>1, <3>3, <3>4
  <2>2. /\ on' \in BOOLEAN /\ inBurst' \in BOOLEAN
        /\ firstQueued' \in BOOLEAN /\ waited' \in BOOLEAN
    BY <1>4, Zenon DEF RetuneRebuild
  <2> QED
    BY <1>4, <2>1, <2>2, ResetTypes DEF RetuneRebuild, TypeOK, Rings
<1>5. CASE FeederAdvance
  <2>1. /\ adv' \in Advances /\ trk' \in Trackers /\ ring' \in Rings
        /\ lastData' \in Nat /\ prefix' \in Nat
    <3>1. want \in Advances
      BY DEF TypeOK
    <3> QED
      BY <1>5, <3>1, AdvanceTypes DEF FeederAdvance
  <2>2. padNow' \in BOOLEAN
    BY <1>5, Zenon DEF FeederAdvance
  <2> QED
    BY <1>5, <2>1, <2>2 DEF FeederAdvance, TypeOK, Rings
<1> QED
  BY <1>1, <1>2, <1>3, <1>4, <1>5

(* The feeder steps that write idle slots. *)
LEMMA FeederIdleTypes ==
  ASSUME TypeOK, FeederFill \/ PollBad \/ Poll \/ FeederStarve
  PROVE  TypeOK'
<1> USE DEF fifoV, prodV, flagV, tuneV, envV, pubV, ringV, burstV, drainV, engV, statV
<1>0. /\ trk \in Trackers /\ ring \in Rings /\ Low \in Nat
      /\ adv \in Nat /\ eng \in Nat /\ late \in Nat /\ underflows \in Nat
  BY LowType, ConstantTypes DEF TypeOK, Rings
<1>1. CASE FeederFill
  <2>1. prefix' \in Nat /\ ring' \in Rings /\ trk' \in Trackers
    <3>1. CASE trk.wr = 0 /\ prefix = 0
      <4>1. prefix' \in Nat
        BY <1>0, <1>1, <3>1, ConstantTypes DEF FeederFill
      <4> QED
        BY <1>0, <1>1, <3>1, <4>1, PadType, SilencedType DEF FeederFill, PadRing
    <3>2. CASE ~ (trk.wr = 0 /\ prefix = 0)
      BY <1>0, <1>1, <3>2 DEF FeederFill, TypeOK
    <3> QED
      BY <3>1, <3>2
  <2> QED
    BY <1>1, <2>1 DEF FeederFill, TypeOK, Rings
<1>2. CASE PollBad
  BY <1>2 DEF PollBad, TypeOK
<1>3. CASE Poll
  <2>1. PICK e \in Expected(FALSE) :
          LET t == Update(trk, RingSlot(eng), e)
              p == PolledTrk(t)
              r == ScrubRing(p, PolledRing(t))
              s == ScrubTrk(p)
          IN  /\ trk'  = IF padNow THEN PadTrk(s, Low) ELSE s
              /\ ring' = IF padNow THEN PadRing(s, r, Low) ELSE r
              /\ late' = IF Overtaken(t) THEN late + 1 ELSE late
    BY <1>3 DEF Poll
  <2> DEFINE t == Update(trk, RingSlot(eng), e)
             p == PolledTrk(t)
             r == ScrubRing(p, PolledRing(t))
             s == ScrubTrk(p)
  <2>2. e \in Int
    BY <1>0, <2>1, ConstantTypes DEF Expected, Trackers
  <2>3. t \in Trackers
    <3>1. RingSlot(eng) \in 0..N - 1
      BY <1>0, SlotType
    <3> QED
      BY <1>0, <2>2, <3>1, UpdateType
  <2>4. p \in Trackers /\ s \in Trackers
    BY <2>3, PolledType, ScrubType
  <2>5. r \in Rings
    <3>1. PolledRing(t) \in Rings
      BY <1>0 DEF PolledRing, Rings
    <3> QED
      BY <3>1, SilencedType DEF ScrubRing
  <2>6. trk' \in Trackers /\ ring' \in Rings /\ late' \in Nat
    <3> HIDE DEF t, p, r, s
    <3>1. /\ trk'  = IF padNow THEN PadTrk(s, Low) ELSE s
          /\ ring' = IF padNow THEN PadRing(s, r, Low) ELSE r
          /\ late' = IF Overtaken(t) THEN late + 1 ELSE late
      BY <2>1 DEF t, p, r, s
    <3> QED
      BY <3>1, <1>0, <2>4, <2>5, PadType, SilencedType DEF PadRing
  <2>7. padNow' \in BOOLEAN
    BY <1>3, Zenon DEF Poll
  <2>8. UNCHANGED <<fifoV, prodV, flagV, tuneV, want, adv, pubV, lastData, prefix, replay,
                    burstV, drainV, on, eng, fault, sent, faults, underflows>>
        /\ badPolls' = 0 /\ lag' = 0 /\ fpc' = "pump"
    BY <1>3 DEF Poll
  <2> QED
    BY <2>6, <2>7, <2>8 DEF TypeOK, Rings
<1>4. CASE FeederStarve
  <2>1. trk' \in Trackers /\ ring' \in Rings
    BY <1>0, <1>4, PadType, SilencedType DEF FeederStarve, PadRing
  <2>2. inBurst' \in BOOLEAN
    <3>1. inBurst \in BOOLEAN
      BY DEF TypeOK
    <3> QED
      BY <1>4, <3>1, Zenon DEF FeederStarve
  <2>3. underflows' \in Nat
    BY <1>0, <1>4 DEF FeederStarve
  <2> QED
    BY <1>4, <2>1, <2>2, <2>3 DEF FeederStarve, TypeOK, Rings
<1> QED
  BY <1>1, <1>2, <1>3, <1>4

(* The feeder steps that write data slots, start the engine and publish. *)
LEMMA RoomType ==
  ASSUME trk \in Trackers
  PROVE  Room \in Nat /\ Want \in Nat
<1>1. Room \in Nat
  BY ConstantTypes, WritableType DEF Room
<1>2. Room \div K \in Nat
  BY <1>1, ConstantTypes
<1> QED
  BY <1>1, <1>2, ConstantTypes DEF Want, Smaller

LEMMA FeederPumpTypes ==
  ASSUME TypeOK, PumpReplay \/ PumpFifo \/ PumpDone \/ FeederStart \/ PublishDrain
  PROVE  TypeOK'
<1> USE DEF fifoV, prodV, flagV, tuneV, envV, pubV, ringV, burstV, drainV, engV, statV
<1>0. /\ trk \in Trackers /\ ring \in Rings /\ Room \in Nat /\ Want \in Nat
      /\ replay \in Seq(Nat) /\ head \in Nat /\ tail \in Nat
  BY RoomType DEF TypeOK, Rings
<1>1. CASE PumpReplay
  <2> DEFINE m    == Smaller(Smaller(Room, Chunk), Len(replay))
             part == SubSeq(replay, 1, m)
             data == {i \in 1..m : part[i] # 0}
  <2>1. m \in Nat /\ m =< Len(replay)
    BY <1>0, ConstantTypes DEF Smaller
  <2> HIDE DEF m
  <2>2. part \in Seq(Nat) /\ SubSeq(replay, m + 1, Len(replay)) \in Seq(Nat)
    BY <1>0, <2>1
  <2>3. trk' \in Trackers /\ ring' \in Rings
    <3>1. ring' = Filled(ring, trk.wr, part) /\ trk' = AdvanceWrite(trk, m)
      BY <1>1 DEF PumpReplay, m
    <3>2. trk.wr \in Nat
      BY <1>0 DEF Trackers
    <3> QED
      BY <1>0, <2>1, <2>2, <3>1, <3>2, FilledType, AdvanceType
  <2>4. lastData' \in Nat
    <3>1. lastData' = IF data = {} THEN lastData
                      ELSE trk.wr + (CHOOSE i \in data : \A j \in data : j =< i)
      BY <1>1 DEF PumpReplay, m
    <3>2. CASE data # {}
      <4>1. data \in SUBSET (0..m)
        OBVIOUS
      <4>2. \E i \in data : \A j \in data : j =< i
        BY <2>1, <3>2, <4>1, GreatestElement
      <4> DEFINE last == CHOOSE i \in data : \A j \in data : j =< i
      <4>3. last \in data
        BY <4>2
      <4>4. lastData' = trk.wr + last
        BY <3>1, <3>2
      <4> HIDE DEF last
      <4>5. last \in Nat
        BY <2>1, <4>3
      <4>6. trk.wr \in Nat
        BY <1>0 DEF Trackers
      <4> QED
        BY <4>4, <4>5, <4>6
    <3> QED
      BY <3>1, <3>2 DEF TypeOK
  <2>5. replay' \in Seq(Nat)
    BY <1>1, <2>2 DEF PumpReplay, m
  <2>6. inBurst' \in BOOLEAN
    BY <1>1, Zenon DEF PumpReplay
  <2>7. UNCHANGED <<fifoV, prodV, flagV, tuneV, envV, pubV, fpc, prefix, firstQueued,
                    waited, badPolls, drainV, on, engV, faults, statV>>
    BY <1>1 DEF PumpReplay
  <2> QED
    BY <2>3, <2>4, <2>5, <2>6, <2>7 DEF TypeOK, Rings
<1>2. CASE PumpFifo
  <2> DEFINE m == Smaller(Want, head - tail)
  <2>1. m \in Nat
    BY <1>0, <1>2 DEF PumpFifo, Smaller
  <2> HIDE DEF m
  <2>2. m * K \in Nat /\ tail * K \in Nat
    BY <1>0, <2>1, ConstantTypes
  <2>3. SlotsOf(tail, m) \in Seq(Nat)
    BY <2>2 DEF SlotsOf
  <2>4. trk' \in Trackers /\ ring' \in Rings /\ lastData' \in Nat
    <3>1. /\ ring' = Filled(ring, trk.wr, SlotsOf(tail, m))
          /\ trk' = AdvanceWrite(trk, m * K)
          /\ lastData' = trk'.wr
      BY <1>2 DEF PumpFifo, m
    <3>2. trk.wr \in Nat
      BY <1>0 DEF Trackers
    <3> QED
      BY <1>0, <2>2, <2>3, <3>1, <3>2, FilledType, AdvanceType DEF Trackers
  <2>5. tail' = tail + m /\ consumed' = consumed + m
    BY <1>2 DEF PumpFifo, m
  <2>6. inBurst' \in BOOLEAN
    BY <1>2, Zenon DEF PumpFifo
  <2> QED
    BY <1>2, <2>1, <2>4, <2>5, <2>6 DEF PumpFifo, TypeOK, Rings
<1>3. CASE PumpDone
  BY <1>3 DEF PumpDone, TypeOK
<1>4. CASE FeederStart
  <2>1. /\ on' \in BOOLEAN /\ inBurst' \in BOOLEAN
        /\ firstQueued' \in BOOLEAN /\ waited' \in BOOLEAN
    <3>1. /\ on \in BOOLEAN /\ inBurst \in BOOLEAN /\ waited \in BOOLEAN
      BY DEF TypeOK
    <3> QED
      BY <1>4, <3>1, Zenon DEF FeederStart
  <2>2. eng' \in Nat /\ lag' \in Int /\ badPolls' \in Nat
    BY <1>4, ConstantTypes DEF FeederStart, TypeOK
  <2> QED
    BY <1>4, <2>1, <2>2 DEF FeederStart, TypeOK
<1>5. CASE PublishDrain
  BY <1>5 DEF PublishDrain, TypeOK
<1> QED
  BY <1>1, <1>2, <1>3, <1>4, <1>5

LEMMA StepTypes == TypeOK /\ [Next]_vars => TypeOK'
<1> SUFFICES ASSUME TypeOK, [Next]_vars PROVE TypeOK'
  OBVIOUS
<1>1. CASE Producer
  BY <1>1, ProducerTypes
<1>2. CASE Control
  BY <1>2, ControlTypes
<1>3. CASE Feeder
  BY <1>3, FeederControlTypes, FeederIdleTypes, FeederPumpTypes DEF Feeder
<1>4. CASE Engine \/ PrerollExpires
  BY <1>4, EngineTypes
<1>5. CASE UNCHANGED vars
  BY <1>5 DEF vars, fifoV, prodV, flagV, tuneV, envV, pubV, ringV, burstV, drainV, engV,
              statV, TypeOK
<1> QED
  BY <1>1, <1>2, <1>3, <1>4, <1>5 DEF Next

(* The variables keep their types, whatever the sizes, levels and bounds. *)
THEOREM TransmitterTypes == Spec => []TypeOK
BY InitTypes, StepTypes, PTL DEF Spec
-----------------------------------------------------------------------------
(* The tracker follows the engine *)

(* TrackerFollows speaks of the moments between a poll and the end of what  *)
(* the feeder does about it.  To find the position again at the next poll,  *)
(* however late that is, the feeder needs to have been right at the last    *)
(* one: the slot it remembers is the slot of the position it remembers, and *)
(* the engine has only moved forward from there.                           *)
TrackInv ==
  /\ trk.prev = RingSlot(trk.rd)
  /\ trk.rd =< eng
  /\ ~on => trk.rd = 0 /\ eng = 0
  /\ fpc = "poll" => on
  /\ fpc \in {"fill", "start"} => ~on
  /\ (on /\ fpc \in {"pump", "starve"}) =>
        trk.rd = eng - lag /\ 0 =< lag /\ lag =< BusyLag

LEMMA ResetTracks ==
  ASSUME ResetRing
  PROVE  trk'.rd = 0 /\ trk'.prev = RingSlot(0)
<1>1. RingSlot(0) = 0
  <2>1. 0 = N * 0 + 0 /\ 0 \in 0..N - 1
    BY ConstantTypes
  <2>2. (N * 0 + 0) % N = 0
    BY <2>1, ConstantTypes, ModOf
  <2> QED
    BY <2>1, <2>2 DEF RingSlot
<1> QED
  BY <1>1 DEF ResetRing, Rewound

LEMMA InitTracks == Init => TrackInv
<1> SUFFICES ASSUME Init PROVE TrackInv
  OBVIOUS
<1>1. RingSlot(0) = 0
  <2>1. 0 = N * 0 + 0 /\ 0 \in 0..N - 1
    BY ConstantTypes
  <2>2. (N * 0 + 0) % N = 0
    BY <2>1, ConstantTypes, ModOf
  <2> QED
    BY <2>1, <2>2 DEF RingSlot
<1> QED
  BY <1>1 DEF Init, Rewound, TrackInv

(* A valid poll finds the engine, whatever distance it has travelled.       *)
LEMMA PollFinds ==
  ASSUME TypeOK, TrackInv, NEW e \in Expected(FALSE)
  PROVE  LET t == Update(trk, RingSlot(eng), e)
         IN  t \in Trackers /\ t.rd = eng /\ t.prev = RingSlot(eng)
<1> DEFINE d == eng - trk.rd
<1>1. trk \in Trackers /\ trk.rd \in Nat /\ eng \in Nat /\ d \in Nat /\ eng = trk.rd + d
  <2>1. trk \in Trackers /\ eng \in Nat
    BY DEF TypeOK
  <2>2. trk.rd \in Nat
    BY <2>1 DEF Trackers
  <2>3. trk.rd =< eng
    BY DEF TrackInv
  <2> QED
    BY <2>1, <2>2, <2>3
<1>2. e \in Int /\ 2 * (e - d) < N /\ 2 * (d - e) < N
  BY <1>1, ConstantTypes DEF Expected
<1>3. trk.prev = trk.rd % N
  BY DEF TrackInv, RingSlot
<1>4. RingSlot(eng) = (trk.rd + d) % N
  BY <1>1 DEF RingSlot
<1> HIDE DEF d
<1>5. Update(trk, (trk.rd + d) % N, e)
        = [trk EXCEPT !.rd = trk.rd + d, !.prev = (trk.rd + d) % N]
  BY <1>1, <1>2, <1>3, UpdateExact
<1>6. Update(trk, RingSlot(eng), e) = [trk EXCEPT !.rd = eng, !.prev = RingSlot(eng)]
  BY <1>1, <1>4, <1>5
<1>7. RingSlot(eng) \in 0..N - 1
  BY <1>1, SlotType
<1> QED
  BY <1>1, <1>6, <1>7 DEF Trackers

LEMMA PollTracks ==
  ASSUME TypeOK, TrackInv, Poll
  PROVE  TrackInv'
<1>1. PICK e \in Expected(FALSE) :
        LET t == Update(trk, RingSlot(eng), e)
            s == ScrubTrk(PolledTrk(t))
        IN  trk' = IF padNow THEN PadTrk(s, Low) ELSE s
  BY DEF Poll
<1> DEFINE t == Update(trk, RingSlot(eng), e)
           s == ScrubTrk(PolledTrk(t))
<1>2. t \in Trackers /\ t.rd = eng /\ t.prev = RingSlot(eng)
  BY PollFinds
<1> HIDE DEF t
<1>3. s \in Trackers /\ s.rd = eng /\ s.prev = RingSlot(eng)
  BY <1>2, PolledType, ScrubType
<1>4. Low \in Nat
  BY LowType DEF TypeOK
<1> HIDE DEF s
<1>5. trk' = IF padNow THEN PadTrk(s, Low) ELSE s
  BY <1>1 DEF t, s
<1>6. trk'.rd = eng /\ trk'.prev = RingSlot(eng)
  BY <1>3, <1>4, <1>5, PadType
<1>7. eng' = eng /\ on' = on /\ on /\ lag' = 0 /\ fpc' = "pump"
  BY DEF Poll, TrackInv
<1>8. eng \in Nat
  BY DEF TypeOK
<1> QED
  BY <1>6, <1>7, <1>8, ConstantTypes DEF TrackInv

(* Steps that only move the writer leave what TrackInv speaks of alone.     *)
LEMMA WriterTracks ==
  ASSUME TrackInv, trk'.rd = trk.rd, trk'.prev = trk.prev,
         UNCHANGED <<on, eng, lag>>,
         fpc' = "poll" => on,
         fpc' \in {"fill", "start"} => ~on,
         fpc' \in {"pump", "starve"} => fpc \in {"pump", "starve"} \/ ~on
  PROVE  TrackInv'
BY DEF TrackInv, RingSlot

LEMMA StepTracks == TypeOK /\ TrackInv /\ [Next]_vars => TrackInv'
<1> SUFFICES ASSUME TypeOK, TrackInv, [Next]_vars PROVE TrackInv'
  OBVIOUS
<1> USE DEF fifoV, prodV, flagV, tuneV, envV, pubV, ringV, burstV, drainV, engV, statV
<1>0. trk \in Trackers /\ eng \in Nat /\ lag \in Int /\ trk.rd \in Nat /\ Low \in Nat
  BY LowType DEF TypeOK, Trackers
<1>1. CASE UNCHANGED <<trk, on, eng, lag, fpc>>
  BY <1>1 DEF TrackInv
<1>2. CASE Producer
  BY <1>1, <1>2 DEF Producer, WriteBegin, WritePush, EndBurst
<1>3. CASE RequestRetune \/ PublishModel \/ StartClear \/ StopBegin
  BY <1>1, <1>3 DEF RequestRetune, PublishModel, StartClear, StopBegin
<1>4. CASE StartRun
  <2>1. trk'.rd = 0 /\ trk'.prev = RingSlot(0)
    BY <1>4, ResetTracks DEF StartRun
  <2>2. fpc' = "top" /\ UNCHANGED <<on, eng, lag>>
    BY <1>4 DEF StartRun
  <2> QED
    BY <1>0, <2>1, <2>2 DEF TrackInv, RingSlot
<1>5. CASE StopFinish \/ RetuneRebuild
  <2>1. trk'.rd = 0 /\ trk'.prev = RingSlot(0)
    BY <1>5, ResetTracks DEF StopFinish, RetuneRebuild
  <2>2. fpc' \notin {"poll", "pump", "starve"} /\ ~on' /\ eng' = 0
    BY <1>5 DEF StopFinish, RetuneRebuild
  <2> QED
    BY <2>1, <2>2 DEF TrackInv, RingSlot
<1>6. CASE FeederExit \/ RetuneBegin \/ PublishDrain
  BY <1>6, WriterTracks DEF FeederExit, RetuneBegin, PublishDrain
<1>7. CASE FeederTop \/ FeederAdvance
  <2>1. /\ trk' = trk \/ (~on /\ trk'.rd = 0 /\ trk'.prev = RingSlot(0))
        /\ UNCHANGED <<on, eng, lag>>
        /\ fpc' \in {"retune", "advance"} \/ fpc' = IF on THEN "poll" ELSE "fill"
    BY <1>7, ResetTracks DEF FeederTop, RefreshModel, FeederAdvance, ApplyAdvance, KeepAdvance
  <2> QED
    BY <1>0, <2>1 DEF TrackInv, RingSlot
<1>8. CASE FeederFill
  <2>1. trk'.rd = trk.rd /\ trk'.prev = trk.prev
    <3>1. CASE trk.wr = 0 /\ prefix = 0
      <4>1. adv \in Nat
        BY ConstantTypes DEF TypeOK
      <4>2. prefix' \in Nat /\ trk' = PadTrk(trk, prefix')
        BY <1>8, <3>1, <4>1, ConstantTypes DEF FeederFill
      <4> QED
        BY <1>0, <4>2, PadType
    <3>2. CASE ~ (trk.wr = 0 /\ prefix = 0)
      BY <1>8, <3>2 DEF FeederFill
    <3> QED
      BY <3>1, <3>2
  <2>2. fpc' = "pump" /\ ~on /\ UNCHANGED <<on, eng, lag>>
    BY <1>8 DEF FeederFill, TrackInv
  <2> QED
    BY <2>1, <2>2, WriterTracks
<1>9. CASE PollBad
  <2>1. fpc' \in {"recover", "publish"} /\ UNCHANGED <<trk, on, eng>>
    BY <1>9 DEF PollBad
  <2> QED
    BY <2>1 DEF TrackInv
<1>10. CASE Poll
  BY <1>10, PollTracks
<1>11. CASE PumpReplay
  <2>1. trk'.rd = trk.rd /\ trk'.prev = trk.prev
    <3> DEFINE m == Smaller(Smaller(Room, Chunk), Len(replay))
    <3>1. replay \in Seq(Nat)
      BY DEF TypeOK
    <3>2. m \in Nat
      BY <1>0, <3>1, RoomType, ConstantTypes DEF Smaller
    <3>3. trk' = AdvanceWrite(trk, m)
      BY <1>11 DEF PumpReplay
    <3> HIDE DEF m
    <3> QED
      BY <1>0, <3>2, <3>3, AdvanceType
  <2>2. fpc = "pump" /\ UNCHANGED <<fpc, on, eng, lag>>
    BY <1>11 DEF PumpReplay
  <2> QED
    BY <2>1, <2>2, WriterTracks
<1>12. CASE PumpFifo
  <2>1. trk'.rd = trk.rd /\ trk'.prev = trk.prev
    <3> DEFINE m == Smaller(Want, head - tail)
    <3>1. head \in Nat /\ tail \in Nat
      BY DEF TypeOK
    <3>2. m \in Nat
      BY <1>0, <1>12, <3>1, RoomType DEF PumpFifo, Smaller
    <3>3. trk' = AdvanceWrite(trk, m * K)
      BY <1>12 DEF PumpFifo
    <3> HIDE DEF m
    <3>4. m * K \in Nat
      BY <3>2, ConstantTypes
    <3> QED
      BY <1>0, <3>3, <3>4, AdvanceType
  <2>2. fpc = "pump" /\ UNCHANGED <<fpc, on, eng, lag>>
    BY <1>12 DEF PumpFifo
  <2> QED
    BY <2>1, <2>2, WriterTracks
<1>13. CASE PumpDone
  BY <1>13, WriterTracks DEF PumpDone
<1>14. CASE FeederStart
  <2>1. ~on /\ trk.rd = 0 /\ eng = 0
    BY <1>14 DEF FeederStart, TrackInv
  <2>2. fpc' = "publish" /\ trk' = trk /\ eng' = 0
    BY <1>14, <2>1 DEF FeederStart
  <2> QED
    BY <2>1, <2>2 DEF TrackInv
<1>15. CASE FeederStarve
  <2>1. trk'.rd = trk.rd /\ trk'.prev = trk.prev
    BY <1>0, <1>15, PadType DEF FeederStarve
  <2>2. fpc' = "publish" /\ UNCHANGED <<on, eng, lag>>
    BY <1>15 DEF FeederStarve
  <2> QED
    BY <2>1, <2>2, WriterTracks
<1>16. CASE EngineStep
  <2>1. /\ on /\ eng' = eng + 1 /\ lag' = lag + 1 /\ UNCHANGED <<trk, on, fpc>>
        /\ fpc \in {"pump", "starve"} => lag < BusyLag
    BY <1>16 DEF EngineStep, LagLimit
  <2> QED
    BY <1>0, <2>1, ConstantTypes DEF TrackInv
<1>17. CASE EngineFault \/ FaultClears \/ PrerollExpires
  BY <1>1, <1>17 DEF EngineFault, FaultClears, PrerollExpires
<1>18. CASE UNCHANGED vars
  BY <1>1, <1>18 DEF vars
<1> QED
  BY <1>2, <1>3, <1>4, <1>5, <1>6, <1>7, <1>8, <1>9, <1>10, <1>11, <1>12, <1>13, <1>14,
     <1>15, <1>16, <1>17, <1>18 DEF Next, Control, Feeder, Engine

(* While the feeder writes, the position it works with is the engine's at   *)
(* the poll, however many laps the engine made before it: the elapsed time  *)
(* only has to tell the distance to better than half a ring.                *)
THEOREM TransmitterTracks == Spec => []TrackerFollows
<1>1. TypeOK /\ TrackInv => TrackerFollows
  BY ConstantTypes DEF TypeOK, TrackInv, TrackerFollows, Trackers
<1> QED
  BY InitTypes, StepTypes, InitTracks, StepTracks, <1>1, PTL DEF Spec
-----------------------------------------------------------------------------
(* What is written where *)

(* Positions less than a lap apart share a slot only if they are the same.  *)
LEMMA SlotPosition ==
  ASSUME NEW p \in Int, NEW q \in Int, RingSlot(p) = RingSlot(q), p - q < N, q - p < N
  PROVE  p = q
<1>1. N \in Nat \ {0}
  BY ConstantTypes
<1>2. CASE p < q
  <2>1. q < p + N
    BY <1>1
  <2>2. p % N # q % N
    BY <1>1, <1>2, <2>1, SlotsDiffer
  <2> QED
    BY <2>2 DEF RingSlot
<1>3. CASE q < p
  <2>1. p < q + N
    BY <1>1
  <2>2. q % N # p % N
    BY <1>1, <1>3, <2>1, SlotsDiffer
  <2> QED
    BY <2>2 DEF RingSlot
<1> QED
  BY <1>2, <1>3

(* Every slot is the slot of one position of each lap.                      *)
LEMMA SlotOffset ==
  ASSUME NEW pos \in Int, NEW p \in Int
  PROVE  /\ p \in pos..pos + N - 1 => (RingSlot(p) - pos) % N = p - pos
         /\ p \in pos - N..pos - 1 => (RingSlot(p) - pos) % N = p - pos + N
<1>1. N \in Nat \ {0}
  BY ConstantTypes
<1> DEFINE q == p \div N
           r == p % N
<1>2. q \in Int /\ r \in 0..N - 1 /\ p = N * q + r
  BY <1>1, DivMod
<1> HIDE DEF q, r
<1>3. RingSlot(p) = r
  BY DEF RingSlot, r
<1>4. ASSUME p \in pos..pos + N - 1
      PROVE  (r - pos) % N = p - pos
  <2>1. p - pos \in 0..N - 1 /\ -q \in Int
    BY <1>1, <1>2, <1>4
  <2>2. N * (-q) + (p - pos) = r - pos
    <3>1. N * (-q) = -(N * q) /\ N * q \in Int
      BY <1>1, <1>2
    <3> QED
      BY <1>1, <1>2, <3>1
  <2>3. (N * (-q) + (p - pos)) % N = p - pos
    BY <1>1, <2>1, ModOf
  <2> QED
    BY <2>2, <2>3
<1>5. ASSUME p \in pos - N..pos - 1
      PROVE  (r - pos) % N = p - pos + N
  <2>1. p - pos + N \in 0..N - 1 /\ -q - 1 \in Int
    BY <1>1, <1>2, <1>5
  <2>2. N * (-q - 1) + (p - pos + N) = r - pos
    <3>1. N * (-q - 1) = -(N * q) - N /\ N * q \in Int
      BY <1>1, <1>2
    <3> QED
      BY <1>1, <1>2, <3>1
  <2>3. (N * (-q - 1) + (p - pos + N)) % N = p - pos + N
    BY <1>1, <2>1, ModOf
  <2> QED
    BY <2>2, <2>3
<1> QED
  BY <1>3, <1>4, <1>5

(* Silence: idle slots at the positions from..to-1, the rest as it was.     *)
LEMMA SilencedSlots ==
  ASSUME NEW r \in Rings, NEW from \in Int, NEW to \in Int, NEW s \in 0..N - 1
  PROVE  /\ Silenced(r, from, to)[s] \in {0, r[s]}
         /\ (\E p \in from..to - 1 : RingSlot(p) = s) => Silenced(r, from, to)[s] = 0
         /\ (\A p \in from..to - 1 : RingSlot(p) # s) => Silenced(r, from, to)[s] = r[s]
BY DEF Silenced, Rings

LEMMA SilencedAt ==
  ASSUME NEW r \in Rings, NEW from \in Int, NEW to \in Int, NEW p \in Int,
         to - N =< p, p < from + N
  PROVE  Silenced(r, from, to)[RingSlot(p)]
           = IF p \in from..to - 1 THEN 0 ELSE r[RingSlot(p)]
<1>1. RingSlot(p) \in 0..N - 1
  BY SlotType
<1>2. CASE p \in from..to - 1
  BY <1>1, <1>2, SilencedSlots
<1>3. CASE p \notin from..to - 1
  <2>1. ASSUME NEW q \in from..to - 1, RingSlot(q) = RingSlot(p)
        PROVE  FALSE
    <3>1. p - q < N /\ q - p < N /\ q \in Int
      BY ConstantTypes
    <3> QED
      BY <1>3, <2>1, <3>1, SlotPosition
  <2> QED
    BY <1>1, <1>3, <2>1, SilencedSlots
<1> QED
  BY <1>2, <1>3

(* Data: the elements of seq at the positions from pos on, the rest as it   *)
(* was.                                                                    *)
LEMMA FilledAt ==
  ASSUME NEW r \in Rings, NEW pos \in Int, NEW seq \in Seq(Nat), NEW p \in Int,
         Len(seq) =< N, pos + Len(seq) - N =< p, p < pos + Len(seq)
  PROVE  Filled(r, pos, seq)[RingSlot(p)]
           = IF p < pos THEN r[RingSlot(p)] ELSE seq[p - pos + 1]
<1>1. RingSlot(p) \in 0..N - 1
  BY SlotType
<1>2. Filled(r, pos, seq)[RingSlot(p)]
        = LET i == ((RingSlot(p) - pos) % N) + 1
          IN  IF i =< Len(seq) THEN seq[i] ELSE r[RingSlot(p)]
  BY <1>1 DEF Filled
<1>3. Len(seq) \in Nat /\ N \in Nat
  BY ConstantTypes
<1>4. CASE p < pos
  <2>1. (RingSlot(p) - pos) % N = p - pos + N
    BY <1>3, <1>4, SlotOffset
  <2> QED
    BY <1>2, <1>3, <1>4, <2>1
<1>5. CASE ~ (p < pos)
  <2>1. (RingSlot(p) - pos) % N = p - pos
    BY <1>3, <1>5, SlotOffset
  <2> QED
    BY <1>2, <1>3, <1>5, <2>1
<1> QED
  BY <1>4, <1>5

LEMMA FilledSlots ==
  ASSUME NEW r \in Rings, NEW pos \in Int, NEW seq \in Seq(Nat), NEW s \in 0..N - 1,
         Len(seq) =< N
  PROVE  \/ Filled(r, pos, seq)[s] = r[s]
         \/ \E i \in 1..Len(seq) : /\ Filled(r, pos, seq)[s] = seq[i]
                                   /\ RingSlot(pos + i - 1) = s
<1> DEFINE k == (s - pos) % N
<1>0. s - pos \in Int /\ N \in Nat \ {0}
  BY ConstantTypes
<1>1. k \in 0..N - 1 /\ s - pos \in Int /\ N \in Nat \ {0}
  BY <1>0, DivMod
<1>2. Filled(r, pos, seq)[s] = IF k + 1 =< Len(seq) THEN seq[k + 1] ELSE r[s]
  BY DEF Filled
<1>3. RingSlot(pos + k) = s
  <2> DEFINE q == (s - pos) \div N
  <2>1. q \in Int /\ s - pos = N * q + k
    BY <1>1, DivMod
  <2> HIDE DEF k, q
  <2>2. pos + k = N * (-q) + s
    <3>1. N * (-q) = -(N * q) /\ N * q \in Int
      BY <1>1, <2>1
    <3> QED
      BY <1>1, <2>1, <3>1
  <2>3. (N * (-q) + s) % N = s
    <3>1. -q \in Int
      BY <2>1
    <3> QED
      BY <1>1, <3>1, ModOf
  <2>4. (pos + k) % N = s
    BY <2>2, <2>3
  <2> QED
    BY <2>4 DEF RingSlot, k
<1> HIDE DEF k
<1>4. CASE k + 1 =< Len(seq)
  <2>1. k + 1 \in 1..Len(seq) /\ pos + (k + 1) - 1 = pos + k
    BY <1>1, <1>4
  <2> QED
    BY <1>2, <1>3, <1>4, <2>1
<1> QED
  BY <1>2, <1>4
-----------------------------------------------------------------------------
(* The writer keeps clear of the engine, and every slot of data belongs to  *)
(* a position between the tracked one and the writer.                       *)
Spaced(t) == t.rd =< t.wr /\ t.wr =< t.rd + N - 2 /\ t.scrubbed =< t.rd

Held(t, r) ==
  \A s \in 0..N - 1 : r[s] # 0 => \E p \in t.rd..t.wr - 1 : RingSlot(p) = s

LEMMA HeldAhead ==
  ASSUME NEW t \in Trackers, NEW r \in Rings, Spaced(t), Held(t, r),
         NEW p \in Int, t.wr =< p, p < t.rd + N
  PROVE  r[RingSlot(p)] = 0
<1>1. RingSlot(p) \in 0..N - 1
  BY SlotType
<1>2. SUFFICES ASSUME r[RingSlot(p)] # 0 PROVE FALSE
  OBVIOUS
<1>3. PICK q \in t.rd..t.wr - 1 : RingSlot(q) = RingSlot(p)
  BY <1>1, <1>2 DEF Held
<1>4. t.rd \in Nat /\ t.wr \in Nat /\ N \in Nat
  BY ConstantTypes DEF Trackers
<1>5. q < p /\ p - q < N /\ q - p < N /\ q \in Int
  BY <1>4
<1>6. q = p
  BY <1>3, <1>5, SlotPosition
<1> QED
  BY <1>5, <1>6

(* PadIdle() *)
LEMMA PadWrites ==
  ASSUME NEW t \in Trackers, NEW r \in Rings, Spaced(t), Held(t, r), NEW level \in Nat
  PROVE  LET u == PadTrk(t, level)
             q == PadRing(t, r, level)
         IN  /\ u \in Trackers /\ q \in Rings
             /\ u.rd = t.rd /\ t.wr =< u.wr
             /\ Spaced(u) /\ Held(u, q)
             /\ \A p \in t.rd..u.wr - 1 :
                  q[RingSlot(p)] = IF p < t.wr THEN r[RingSlot(p)] ELSE 0
             /\ \A s \in 0..N - 1 : q[s] \in {0, r[s]}
             /\ t.wr = t.rd /\ level =< N - 2 => u.wr = t.wr + level
<1> DEFINE w == Writable(t, level)
           u == PadTrk(t, level)
           q == PadRing(t, r, level)
<1>1. /\ t.rd \in Nat /\ t.wr \in Nat /\ t.scrubbed \in Nat /\ N \in Nat /\ N >= 4
      /\ t.rd =< t.wr /\ t.wr =< t.rd + N - 2 /\ t.scrubbed =< t.rd
  BY ConstantTypes DEF Trackers, Spaced
<1>2. /\ w \in Nat /\ t.wr + w =< t.rd + N - 2
      /\ t.wr = t.rd /\ level =< N - 2 => w = level
  BY <1>1 DEF Writable, Fill, Smaller
<1>3. /\ u \in Trackers /\ u.rd = t.rd /\ u.wr = t.wr + w /\ u.scrubbed = t.scrubbed
  BY <1>2 DEF PadTrk, AdvanceWrite, Trackers
<1>4. q = Silenced(r, t.wr, t.wr + w)
  BY DEF PadRing
<1> HIDE DEF w, u, q
<1>5. q \in Rings
  BY <1>4, SilencedType
<1>6. Spaced(u) /\ t.wr =< u.wr
  BY <1>1, <1>2, <1>3 DEF Spaced
<1>7. ASSUME NEW p \in t.rd..u.wr - 1
      PROVE  q[RingSlot(p)] = IF p < t.wr THEN r[RingSlot(p)] ELSE 0
  <2>1. p \in Int /\ t.wr + w - N =< p /\ p < t.wr + N /\ t.wr \in Int /\ t.wr + w \in Int
    BY <1>1, <1>2, <1>3
  <2>2. q[RingSlot(p)] = IF p \in t.wr..(t.wr + w) - 1 THEN 0 ELSE r[RingSlot(p)]
    <3> DEFINE from == t.wr
               to   == t.wr + w
    <3>1. from \in Int /\ to \in Int /\ p \in Int /\ to - N =< p /\ p < from + N
      BY <1>1, <1>2, <2>1
    <3> HIDE DEF from, to
    <3>2. Silenced(r, from, to)[RingSlot(p)] = IF p \in from..to - 1 THEN 0 ELSE r[RingSlot(p)]
      BY <3>1, SilencedAt
    <3> QED
      BY <1>4, <3>2 DEF from, to
  <2> QED
    BY <1>1, <1>2, <1>3, <2>2
<1>8. ASSUME NEW s \in 0..N - 1
      PROVE  q[s] \in {0, r[s]}
  BY <1>1, <1>2, <1>4, SilencedSlots
<1>9. Held(u, q)
  <2> SUFFICES ASSUME NEW s \in 0..N - 1, q[s] # 0
               PROVE  \E p \in u.rd..u.wr - 1 : RingSlot(p) = s
    BY DEF Held
  <2>1. r[s] # 0
    BY <1>8
  <2>2. PICK p \in t.rd..t.wr - 1 : RingSlot(p) = s
    BY <2>1 DEF Held
  <2> QED
    BY <1>1, <1>2, <1>3, <2>2
<1>10. t.wr = t.rd /\ level =< N - 2 => u.wr = t.wr + level
  BY <1>2, <1>3
<1> QED
  BY <1>3, <1>5, <1>6, <1>7, <1>8, <1>9, <1>10 DEF u, q

(* What a valid poll does before any padding: t is the updated tracker.     *)
LEMMA PolledWrites ==
  ASSUME NEW t \in Trackers, NEW r \in Rings, NEW old \in Nat,
         old =< t.rd, t.wr =< old + N - 2, t.scrubbed =< old,
         Held([t EXCEPT !.rd = old], r), ring = r
  PROVE  LET p == PolledTrk(t)
             q == ScrubRing(p, PolledRing(t))
             s == ScrubTrk(p)
         IN  /\ s \in Trackers /\ q \in Rings
             /\ s.rd = t.rd /\ t.wr =< s.wr
             /\ Spaced(s) /\ Held(s, q)
             /\ \A x \in t.rd..t.wr - 1 : q[RingSlot(x)] = r[RingSlot(x)]
             /\ \A x \in t.rd + 1..s.wr - 1 : t.wr =< x => q[RingSlot(x)] = 0
             /\ \A x \in 0..N - 1 : q[x] \in {0, r[x]}
<1> DEFINE p == PolledTrk(t)
           q == ScrubRing(p, PolledRing(t))
           s == ScrubTrk(p)
           l == Larger(ScrubBegin(p), ScrubEnd(p) - N)
<1>1. /\ t.rd \in Nat /\ t.wr \in Nat /\ t.scrubbed \in Nat /\ N \in Nat /\ N >= 4
      /\ Guard \in Nat /\ Larger(Guard, 1) \in 1..N - 2
  <2>1. N \div 4 =< N - 2
    BY ConstantTypes
  <2>2. Guard \in Nat /\ (Guard =< N \div 4 \/ Guard = 1) /\ N \in Nat /\ N >= 4
    BY ConstantTypes, TransmitterAssumption
  <2>3. Larger(Guard, 1) \in 1..N - 2
    <3>1. N \div 4 \in Int
      BY <2>2
    <3> HIDE DEF p, q, s, l
    <3> QED
      BY <2>1, <2>2, <3>1 DEF Larger
  <2> QED
    BY <2>2, <2>3 DEF Trackers
<1>2. CASE t.wr > t.rd
  <2>1. p = t /\ PolledRing(t) = r
    BY <1>1, <1>2 DEF PolledTrk, PolledRing, Overtaken, Fill
  <2>2. /\ ScrubBegin(t) \in Nat /\ ScrubBegin(t) =< old /\ ScrubEnd(t) = t.rd
        /\ l =< old /\ l \in Int
    BY <1>1, <1>2, <2>1 DEF ScrubBegin, ScrubEnd, Larger
  <2>3. s \in Trackers /\ s.rd = t.rd /\ s.wr = t.wr /\ s.scrubbed = t.rd
    BY <1>1, <2>1, <2>2 DEF ScrubTrk, MarkScrubbed, Larger, Trackers
  <2>4. q = Silenced(r, l, t.rd)
    BY <2>1, <2>2 DEF ScrubRing
  <2>4a. l >= t.rd - N
    BY <1>1, <2>1, <2>2 DEF Larger
  <2> HIDE DEF p, q, s, l
  <2>5. q \in Rings
    BY <2>4, SilencedType
  <2>6. Spaced(s)
    BY <1>1, <1>2, <2>3 DEF Spaced
  <2>7. ASSUME NEW x \in t.rd..t.wr - 1
        PROVE  q[RingSlot(x)] = r[RingSlot(x)]
    <3>1. x \in Int /\ x < old + N /\ t.rd - N =< x /\ x \notin l..t.rd - 1 /\ t.rd \in Int
      BY <1>1, <2>2
    <3>2. ASSUME NEW y \in l..t.rd - 1 PROVE RingSlot(y) # RingSlot(x)
      <4>1. y < x
        BY <1>1, <2>2
      <4>2. CASE y >= old
        <5>1. x - y < N /\ y - x < N /\ y \in Int
          BY <1>1, <2>2, <3>1, <4>1, <4>2
        <5> QED
          BY <3>1, <4>1, <5>1, SlotPosition
      <4>3. CASE y < old
        <5>1. t.wr - N =< l \/ t.wr =< N
          BY <1>1, <2>1, <2>2 DEF ScrubBegin, Larger, l
        <5>2. l >= 0
          BY <1>1, <2>1, <2>2 DEF ScrubBegin, Larger, l
        <5>3. x - y < N /\ y - x < N /\ y \in Int
          BY <1>1, <2>2, <3>1, <4>1, <5>1, <5>2
        <5> QED
          BY <3>1, <4>1, <5>3, SlotPosition
      <4> QED
        BY <1>1, <2>2, <4>2, <4>3
    <3>3. RingSlot(x) \in 0..N - 1
      BY <3>1, SlotType
    <3> QED
      <4>1. l \in Int /\ t.rd \in Int
        BY <1>1, <2>2
      <4>2. Silenced(r, l, t.rd)[RingSlot(x)] = r[RingSlot(x)]
        BY <3>2, <3>3, <4>1, SilencedSlots
      <4> QED
        BY <2>4, <4>2
  <2>8. ASSUME NEW x \in 0..N - 1
        PROVE  q[x] \in {0, r[x]}
    BY <1>1, <2>2, <2>4, SilencedSlots
  <2>9. Held(s, q)
    <3> SUFFICES ASSUME NEW x \in 0..N - 1, q[x] # 0
                 PROVE  \E y \in s.rd..s.wr - 1 : RingSlot(y) = x
      BY DEF Held
    <3>1. r[x] # 0
      BY <2>8
    <3>2. PICK y \in old..t.wr - 1 : RingSlot(y) = x
      <4>1. [t EXCEPT !.rd = old].rd = old /\ [t EXCEPT !.rd = old].wr = t.wr
        BY DEF Trackers
      <4> QED
        BY <3>1, <4>1 DEF Held
    <3>3. CASE y < t.rd
      <4>1. y \in l..t.rd - 1
        BY <1>1, <2>2, <3>3
      <4>2. q[x] = 0
        BY <1>1, <2>2, <2>4, <3>2, <4>1, SilencedSlots
      <4> QED
        BY <4>2
    <3>4. CASE y >= t.rd
      BY <1>1, <2>3, <3>2, <3>4
    <3> QED
      BY <1>1, <3>3, <3>4
  <2>10. \A x \in t.rd + 1..s.wr - 1 : ~ (t.wr =< x)
    BY <1>1, <2>3
  <2>11. t.wr =< s.wr
    BY <1>1, <2>3
  <2> QED
    BY <2>3, <2>5, <2>6, <2>7, <2>8, <2>9, <2>10, <2>11 DEF p, q, s
<1>3. CASE ~ (t.wr > t.rd)
  <2> DEFINE g == Larger(Guard, 1)
             r2 == [x \in 0..N - 1 |-> IF x = RingSlot(t.rd) THEN r[x] ELSE 0]
  <2>1. /\ p \in Trackers /\ p.rd = t.rd /\ p.wr = t.rd + g
        /\ p.scrubbed = t.rd
    <3>1. p = [t EXCEPT !.wr = t.rd + g, !.scrubbed = Larger(@, t.rd)]
      BY <1>1, <1>3 DEF PolledTrk, Overtaken, Fill, Resync
    <3>2. Larger(t.scrubbed, t.rd) = t.rd
      BY <1>1 DEF Larger
    <3>3. g \in Nat
      BY <1>1
    <3>4. p = [t EXCEPT !.wr = t.rd + g, !.scrubbed = t.rd]
      BY <3>1, <3>2
    <3> HIDE DEF p, g
    <3>5. t.rd + g \in Nat
      BY <1>1, <3>3
    <3> QED
      BY <1>1, <3>4, <3>5 DEF Trackers
  <2>2. PolledRing(t) = r2
    BY <1>1, <1>3 DEF PolledRing, Overtaken, Fill
  <2> HIDE DEF p, g
  <2>3. ScrubBegin(p) = t.rd /\ ScrubEnd(p) = t.rd /\ l = t.rd
    BY <1>1, <2>1 DEF ScrubBegin, ScrubEnd, Larger, g
  <2>4. s \in Trackers /\ s.rd = t.rd /\ s.wr = t.rd + g /\ s.scrubbed = t.rd
    BY <1>1, <2>1, <2>3 DEF ScrubTrk, MarkScrubbed, Larger, Trackers
  <2>5. q = Silenced(r2, t.rd, t.rd)
    BY <2>2, <2>3 DEF ScrubRing
  <2>6. r2 \in Rings
    BY DEF Rings
  <2> HIDE DEF q, s, l
  <2>7. q \in Rings
    BY <2>5, <2>6, SilencedType
  <2>8. ASSUME NEW x \in 0..N - 1
        PROVE  q[x] = r2[x]
    <3> HIDE DEF r2
    <3> QED
      <4>1. t.rd \in Int /\ \A y \in t.rd..t.rd - 1 : RingSlot(y) # x
        BY <1>1
      <4>2. Silenced(r2, t.rd, t.rd)[x] = r2[x]
        BY <2>6, <4>1, SilencedSlots
      <4> QED
        BY <2>5, <4>2
  <2>9. g \in 1..N - 2
    BY <1>1 DEF g
  <2>10. Spaced(s) /\ t.wr =< s.wr
    BY <1>1, <1>3, <2>4, <2>9 DEF Spaced
  <2>11. ASSUME NEW x \in 0..N - 1
         PROVE  q[x] \in {0, r[x]}
    BY <2>8
  <2>12. Held(s, q)
    <3> SUFFICES ASSUME NEW x \in 0..N - 1, q[x] # 0
                 PROVE  \E y \in s.rd..s.wr - 1 : RingSlot(y) = x
      BY DEF Held
    <3>1. x = RingSlot(t.rd)
      BY <2>8
    <3>2. t.rd \in s.rd..s.wr - 1
      BY <1>1, <2>4, <2>9
    <3> QED
      BY <3>1, <3>2
  <2>13. ASSUME NEW x \in t.rd + 1..s.wr - 1
         PROVE  q[RingSlot(x)] = 0
    <3>1. x \in Int /\ x # t.rd /\ x - t.rd < N /\ t.rd - x < N /\ t.rd \in Int
      BY <1>1, <2>4, <2>9
    <3>2. RingSlot(x) # RingSlot(t.rd)
      BY <3>1, SlotPosition
    <3>3. RingSlot(x) \in 0..N - 1
      BY <3>1, SlotType
    <3> QED
      BY <2>8, <3>2, <3>3
  <2>14. \A x \in t.rd..t.wr - 1 : FALSE
    BY <1>1, <1>3
  <2> QED
    BY <2>4, <2>7, <2>10, <2>11, <2>12, <2>13, <2>14 DEF p, q, s
<1> QED
  BY <1>2, <1>3
-----------------------------------------------------------------------------
(* Control flags and the feeder's place *)

(* A stopped transmitter is at rest: its ring is empty and rewound, nothing *)
(* is left to replay.                                                      *)
AtRest ==
  /\ ~on /\ trk = Rewound /\ ring = IdleRing
  /\ lastData = 0 /\ prefix = 0 /\ replay = <<>>

(* Nothing makes the feeder rebuild the ring: no retunes, no engine faults. *)
NoRebuild == MaxRetunes = 0 /\ MaxFaults = 0

ControlInv ==
  /\ running = active
  /\ active => restart = "no"
  /\ fpc = "exited" => ~active
  /\ fpc # "exited" => active \/ restart = "stopping"
  /\ ~active /\ restart # "stopping" => AtRest
  /\ fault # "none" => faults > 0
  /\ tail =< head /\ head =< tail + FifoCap
  /\ NoRebuild => /\ replay = <<>> /\ tune = "none" /\ fault = "none"
                  /\ fpc \notin {"retune", "rebuild", "recover", "restore"}

LEMMA InitControl == Init => ControlInv
<1> SUFFICES ASSUME Init PROVE ControlInv
  OBVIOUS
<1>1. AtRest /\ running = active /\ ~active
  BY Zenon DEF Init, AtRest
<1>2. /\ restart = "no" /\ fpc = "exited" /\ fault = "none" /\ tune = "none" /\ replay = <<>>
      /\ head = 0 /\ tail = 0
  BY DEF Init
<1> QED
  BY <1>1, <1>2, ConstantTypes DEF ControlInv

(* What the steps of the feeder have in common. *)
LEMMA FeederFlags ==
  ASSUME Feeder
  PROVE  /\ UNCHANGED <<active, running, restart, head, faults>>
         /\ fpc # "exited"
         /\ fpc' # "exited" \/ (fpc = "top" /\ ~running)
<1> USE DEF fifoV, prodV, flagV, tuneV, envV, pubV, ringV, burstV, drainV, engV, statV
<1>1. CASE FeederExit \/ FeederTop \/ RetuneBegin \/ RetuneRebuild \/ FeederAdvance
  BY <1>1 DEF FeederExit, FeederTop, RetuneBegin, RetuneRebuild, FeederAdvance
<1>2. CASE FeederFill \/ PollBad \/ Poll \/ FeederStarve
  BY <1>2 DEF FeederFill, PollBad, Poll, FeederStarve
<1>3. CASE PumpReplay \/ PumpFifo \/ PumpDone \/ FeederStart \/ PublishDrain
  BY <1>3 DEF PumpReplay, PumpFifo, PumpDone, FeederStart, PublishDrain
<1> QED
  BY <1>1, <1>2, <1>3 DEF Feeder

(* Without retunes and faults the feeder never rebuilds the ring. *)
LEMMA FeederNoRebuild ==
  ASSUME TypeOK, ControlInv, Feeder, NoRebuild
  PROVE  /\ replay' = <<>> /\ tune' = "none" /\ fault' = "none"
         /\ fpc' \notin {"retune", "rebuild", "recover", "restore"}
<1> USE DEF fifoV, prodV, flagV, tuneV, envV, pubV, ringV, burstV, drainV, engV, statV
<1>0. /\ replay = <<>> /\ tune = "none" /\ fault = "none"
      /\ fpc \notin {"retune", "rebuild", "recover", "restore"}
  BY DEF ControlInv
<1>1. CASE FeederExit \/ FeederTop \/ RetuneBegin \/ RetuneRebuild \/ FeederAdvance
  BY <1>0, <1>1 DEF FeederExit, FeederTop, RetuneBegin, RetuneRebuild, FeederAdvance
<1>2. CASE FeederFill \/ PollBad \/ Poll \/ FeederStarve
  BY <1>0, <1>2 DEF FeederFill, PollBad, Poll, FeederStarve
<1>3. CASE PumpReplay \/ PumpFifo \/ PumpDone \/ FeederStart \/ PublishDrain
  BY <1>0, <1>3 DEF PumpReplay, PumpFifo, PumpDone, FeederStart, PublishDrain
<1> QED
  BY <1>1, <1>2, <1>3 DEF Feeder

LEMMA FeederTaken ==
  ASSUME TypeOK, ControlInv, Feeder
  PROVE  tail' =< head /\ head =< tail' + FifoCap /\ (fault' # "none" => fault # "none")
<1> USE DEF fifoV, prodV, flagV, tuneV, envV, pubV, ringV, burstV, drainV, engV, statV
<1>0. tail =< head /\ head =< tail + FifoCap
  BY DEF ControlInv
<1>1. CASE FeederExit \/ FeederTop \/ RetuneBegin \/ RetuneRebuild \/ FeederAdvance
  BY <1>0, <1>1 DEF FeederExit, FeederTop, RetuneBegin, RetuneRebuild, FeederAdvance
<1>2. CASE FeederFill \/ PollBad \/ Poll \/ FeederStarve
  BY <1>0, <1>2 DEF FeederFill, PollBad, Poll, FeederStarve
<1>3. CASE PumpReplay \/ PumpDone \/ FeederStart \/ PublishDrain
  BY <1>0, <1>3 DEF PumpReplay, PumpDone, FeederStart, PublishDrain
<1>4. CASE PumpFifo
  <2>1. Want \in Nat /\ head \in Nat /\ tail \in Nat
    BY RoomType DEF TypeOK
  <2>2. tail' = tail + Smaller(Want, head - tail) /\ fault' = fault
    BY <1>4 DEF PumpFifo
  <2> QED
    BY <1>0, <2>1, <2>2, ConstantTypes DEF Smaller
<1> QED
  BY <1>1, <1>2, <1>3, <1>4 DEF Feeder

LEMMA FeederControl == TypeOK /\ ControlInv /\ Feeder => ControlInv'
<1> SUFFICES ASSUME TypeOK, ControlInv, Feeder PROVE ControlInv'
  OBVIOUS
<1>1. /\ UNCHANGED <<active, running, restart, head, faults>>
      /\ fpc # "exited"
      /\ fpc' # "exited" \/ (fpc = "top" /\ ~running)
  BY FeederFlags
<1>2. active \/ restart = "stopping"
  BY <1>1 DEF ControlInv
<1>3. /\ running' = active' /\ (active' => restart' = "no")
      /\ fpc' = "exited" => ~active'
      /\ fpc' # "exited" => active' \/ restart' = "stopping"
      /\ ~ (~active' /\ restart' # "stopping")
  BY <1>1, <1>2 DEF ControlInv
<1>4. (fault' # "none" => faults' > 0) /\ tail' =< head' /\ head' =< tail' + FifoCap
  BY <1>1, FeederTaken DEF ControlInv
<1>5. NoRebuild => /\ replay' = <<>> /\ tune' = "none" /\ fault' = "none"
                   /\ fpc' \notin {"retune", "rebuild", "recover", "restore"}
  BY FeederNoRebuild
<1>6. NoRebuild' <=> NoRebuild
  BY DEF NoRebuild
<1> QED
  BY <1>3, <1>4, <1>5, <1>6, Zenon DEF ControlInv

LEMMA StepControl == TypeOK /\ ControlInv /\ [Next]_vars => ControlInv'
<1> SUFFICES ASSUME TypeOK, ControlInv, [Next]_vars PROVE ControlInv'
  OBVIOUS
<1> USE DEF fifoV, prodV, flagV, tuneV, envV, pubV, ringV, burstV, drainV, engV, statV
<1>1. CASE WriteBegin \/ EndBurst \/ PublishModel \/ PrerollExpires \/ UNCHANGED vars
  BY <1>1 DEF WriteBegin, EndBurst, PublishModel, PrerollExpires, vars, ControlInv, AtRest,
              NoRebuild
<1>2. CASE WritePush
  <2>1. tail' =< head' /\ head' =< tail' + FifoCap
    <3>1. /\ head \in Nat /\ tail \in Nat /\ left \in Nat /\ FifoCap \in Nat
          /\ tail =< head /\ head =< tail + FifoCap
      BY ConstantTypes DEF TypeOK, ControlInv
    <3>2. head' = head + Smaller(left, FifoCap - (head - tail)) /\ tail' = tail
      BY <1>2 DEF WritePush
    <3> QED
      BY <3>1, <3>2 DEF Smaller
  <2>2. UNCHANGED <<tail, active, running, restart, fpc, on, trk, ring, lastData, prefix,
                    replay, fault, faults, tune>>
    BY <1>2 DEF WritePush
  <2> QED
    BY <2>1, <2>2 DEF ControlInv, AtRest, NoRebuild
<1>3. CASE RequestRetune
  BY <1>3, ConstantTypes DEF RequestRetune, ControlInv, AtRest, NoRebuild, TypeOK
<1>4. CASE StartClear
  BY <1>4, ConstantTypes DEF StartClear, ControlInv, AtRest, NoRebuild, TypeOK
<1>5. CASE StartRun
  BY <1>5 DEF StartRun, ControlInv, AtRest, NoRebuild
<1>6. CASE StopBegin
  BY <1>6 DEF StopBegin, ControlInv, AtRest, NoRebuild
<1>7. CASE StopFinish
  BY <1>7, ConstantTypes DEF StopFinish, ResetRing, ControlInv, AtRest, NoRebuild, TypeOK
<1>8. CASE Feeder
  BY <1>8, FeederControl
<1>9. CASE Engine
  <2>1. /\ UNCHANGED <<head, tail, active, running, restart, fpc, on, trk, ring, lastData,
                      prefix, replay, tune>>
        /\ on \/ fault # "none"
        /\ fault' # "none" => faults' > 0
        /\ NoRebuild /\ fault = "none" => fault' = "none"
    <3>1. faults \in Nat /\ MaxFaults \in Nat
      BY TransmitterAssumption DEF TypeOK
    <3>2. CASE EngineStep
      BY <3>2 DEF EngineStep, ControlInv
    <3>3. CASE EngineFault
      BY <3>1, <3>3 DEF EngineFault, NoRebuild
    <3>4. CASE FaultClears
      BY <3>4 DEF FaultClears
    <3> QED
      BY <1>9, <3>2, <3>3, <3>4 DEF Engine
  <2> QED
    BY <2>1 DEF ControlInv, AtRest, NoRebuild
<1> QED
  BY <1>1, <1>2, <1>3, <1>4, <1>5, <1>6, <1>7, <1>8, <1>9 DEF Next, Producer, Control
-----------------------------------------------------------------------------
(* How far the engine gets ahead of the tracker *)

(* The slots the engine can execute from one good poll to the recovery from *)
(* a fault, the pacing FIFO's filling included.                            *)
Reach == Pacing + BadPollLimit * MaxLag + BusyLag

(* The feeder never stalls for a lap. *)
ShortStalls == Reach < N

DistInv ==
  on => /\ lag =< MaxLag
        /\ IF fpc \in {"recover", "restore"}
             THEN badPolls =< BadPollLimit /\ lag =< BusyLag
             ELSE badPolls < BadPollLimit
        /\ eng - trk.rd =< Pacing + badPolls * MaxLag + lag

(* One bad poll more, and the products of the bounds. *)
LEMMA BadPolls ==
  ASSUME NEW b \in Nat
  PROVE  /\ b * MaxLag \in Nat /\ (b + 1) * MaxLag = b * MaxLag + MaxLag
         /\ b =< BadPollLimit => b * MaxLag =< BadPollLimit * MaxLag
         /\ b < BadPollLimit => b * MaxLag + MaxLag =< BadPollLimit * MaxLag
         /\ BadPollLimit * MaxLag \in Nat
<1>1. MaxLag \in Nat /\ BadPollLimit \in Nat
  BY ConstantTypes, TransmitterAssumption
<1>2. b * MaxLag \in Nat /\ BadPollLimit * MaxLag \in Nat
  BY <1>1
<1>3. (b + 1) * MaxLag = b * MaxLag + MaxLag
  BY <1>1
<1>4. ASSUME NEW c \in Nat, c =< BadPollLimit PROVE c * MaxLag =< BadPollLimit * MaxLag
  <2>1. BadPollLimit * MaxLag = c * MaxLag + (BadPollLimit - c) * MaxLag
    BY <1>1
  <2>2. (BadPollLimit - c) * MaxLag \in Nat
    <3>1. BadPollLimit - c \in Nat
      BY <1>1, <1>4
    <3> QED
      BY <1>1, <3>1
  <2>3. c * MaxLag \in Nat
    BY <1>1
  <2> QED
    BY <1>2, <2>1, <2>2, <2>3
<1>5. b < BadPollLimit => b * MaxLag + MaxLag =< BadPollLimit * MaxLag
  <2> HAVE b < BadPollLimit
  <2>1. b + 1 \in Nat /\ b + 1 =< BadPollLimit
    BY <1>1
  <2> QED
    BY <1>3, <1>4, <2>1
<1> QED
  BY <1>2, <1>3, <1>4, <1>5

LEMMA EngineWithinReach ==
  ASSUME TypeOK, DistInv, on
  PROVE  /\ badPolls * MaxLag + lag =< BadPollLimit * MaxLag + BusyLag
         /\ eng - trk.rd =< Reach
<1>1. /\ badPolls \in Nat /\ lag \in Int /\ eng \in Nat /\ trk.rd \in Nat
      /\ Pacing \in Nat /\ BusyLag \in Nat /\ MaxLag \in Nat
  BY ConstantTypes DEF TypeOK, Trackers
<1> DEFINE bm == badPolls * MaxLag
           lm == BadPollLimit * MaxLag
<1>2. /\ bm \in Nat /\ lm \in Nat
      /\ badPolls =< BadPollLimit => bm =< lm
      /\ badPolls < BadPollLimit => bm + MaxLag =< lm
  BY <1>1, BadPolls
<1>3. /\ lag =< MaxLag
      /\ (badPolls =< BadPollLimit /\ lag =< BusyLag) \/ badPolls < BadPollLimit
      /\ eng - trk.rd =< Pacing + bm + lag
  BY DEF DistInv
<1> HIDE DEF bm, lm
<1>4. bm + lag =< lm + BusyLag
  BY <1>1, <1>2, <1>3
<1>5. eng - trk.rd =< Pacing + lm + BusyLag
  BY <1>1, <1>2, <1>3, <1>4
<1> QED
  BY <1>4, <1>5 DEF Reach, bm, lm

LEMMA InitDist == Init => DistInv
BY DEF Init, DistInv

LEMMA StepDist ==
  TypeOK /\ TrackInv /\ ControlInv /\ DistInv /\ [Next]_vars => DistInv'
<1> SUFFICES ASSUME TypeOK, TrackInv, ControlInv, DistInv, [Next]_vars PROVE DistInv'
  OBVIOUS
<1> USE DEF fifoV, prodV, flagV, tuneV, envV, pubV, ringV, burstV, drainV, engV, statV
<1>0. /\ trk \in Trackers /\ eng \in Nat /\ lag \in Int /\ trk.rd \in Nat /\ Low \in Nat
      /\ badPolls \in Nat /\ Pacing \in Nat /\ BusyLag \in Nat /\ MaxLag \in Nat
      /\ BusyLag =< MaxLag /\ BadPollLimit \in Nat /\ BadPollLimit > 0
      /\ trk.rd =< eng
  BY LowType, ConstantTypes, TransmitterAssumption DEF TypeOK, Trackers, TrackInv
<1>1. ASSUME trk'.rd = trk.rd, UNCHANGED <<on, eng, lag, badPolls>>,
             on => (fpc' \in {"recover", "restore"} <=> fpc \in {"recover", "restore"})
      PROVE  DistInv'
  BY <1>1 DEF DistInv
<1>2. CASE Producer \/ RequestRetune \/ PublishModel \/ StartClear \/ StopBegin
           \/ EngineFault \/ FaultClears \/ PrerollExpires \/ UNCHANGED vars
  BY <1>1, <1>2 DEF Producer, WriteBegin, WritePush, EndBurst, RequestRetune, PublishModel,
                    StartClear, StopBegin, EngineFault, FaultClears, PrerollExpires, vars
<1>3. CASE StartRun \/ StopFinish \/ RetuneRebuild
  BY <1>3 DEF StartRun, StopFinish, RetuneRebuild, DistInv, ControlInv, AtRest
<1>4. CASE FeederExit \/ PublishDrain \/ PumpDone
  BY <1>1, <1>4 DEF FeederExit, PublishDrain, PumpDone
<1>5. CASE FeederTop \/ FeederAdvance
  <2>1. CASE on
    BY <1>1, <1>5, <2>1
    DEF FeederTop, RefreshModel, FeederAdvance, ApplyAdvance, KeepAdvance
  <2>2. CASE ~on
    BY <1>5, <2>2 DEF FeederTop, FeederAdvance, DistInv
  <2> QED
    BY <2>1, <2>2
<1>6. CASE RetuneBegin
  BY <1>6 DEF RetuneBegin, DistInv
<1>7. CASE FeederFill
  BY <1>7 DEF FeederFill, TrackInv, DistInv
<1>8. CASE PollBad
  <2>1. CASE on
    <3>1. /\ badPolls' = badPolls + 1 /\ lag' = 0 /\ UNCHANGED <<trk, eng, on>>
          /\ fpc = "poll" /\ fpc' = IF badPolls' >= BadPollLimit THEN "recover" ELSE "publish"
      BY <1>8 DEF PollBad
    <3>2. badPolls < BadPollLimit /\ lag =< MaxLag
          /\ eng - trk.rd =< Pacing + badPolls * MaxLag + lag
      BY <2>1, <3>1 DEF DistInv
    <3>3. badPolls' * MaxLag = badPolls * MaxLag + MaxLag /\ badPolls * MaxLag \in Nat
      BY <1>0, <3>1, BadPolls
    <3>4. eng' - trk'.rd =< Pacing + badPolls' * MaxLag + lag'
      BY <1>0, <3>1, <3>2, <3>3
    <3>5. badPolls' =< BadPollLimit /\ (fpc' # "recover" => badPolls' < BadPollLimit)
      BY <1>0, <3>1, <3>2
    <3> QED
      BY <1>0, <3>1, <3>4, <3>5 DEF DistInv
  <2>2. CASE ~on
    BY <1>8, <2>2 DEF PollBad, DistInv
  <2> QED
    BY <2>1, <2>2
<1>9. CASE Poll
  <2>1. trk'.rd = eng
    <3>1. PICK e \in Expected(FALSE) :
            LET t == Update(trk, RingSlot(eng), e)
                s == ScrubTrk(PolledTrk(t))
            IN  trk' = IF padNow THEN PadTrk(s, Low) ELSE s
      BY <1>9 DEF Poll
    <3> DEFINE t == Update(trk, RingSlot(eng), e)
               s == ScrubTrk(PolledTrk(t))
    <3>2. t \in Trackers /\ t.rd = eng
      BY PollFinds
    <3> HIDE DEF t
    <3>3. s \in Trackers /\ s.rd = eng
      BY <3>2, PolledType, ScrubType
    <3> HIDE DEF s
    <3>4. trk' = IF padNow THEN PadTrk(s, Low) ELSE s
      BY <3>1 DEF t, s
    <3> QED
      BY <1>0, <3>3, <3>4, PadType
  <2>2. lag' = 0 /\ badPolls' = 0 /\ eng' = eng /\ fpc' = "pump"
    BY <1>9 DEF Poll
  <2>3. 0 * MaxLag = 0
    BY <1>0
  <2> QED
    BY <1>0, <2>1, <2>2, <2>3 DEF DistInv
<1>10. CASE PumpReplay \/ PumpFifo \/ FeederStarve
  <2>1. trk'.rd = trk.rd
    BY <1>0, <1>10 DEF PumpReplay, PumpFifo, FeederStarve, PadTrk, AdvanceWrite, Trackers
  <2>2. UNCHANGED <<on, eng, lag, badPolls>>
    BY <1>10 DEF PumpReplay, PumpFifo, FeederStarve
  <2>3. fpc \in {"pump", "starve"} /\ fpc' \in {"pump", "publish"}
    BY <1>10 DEF PumpReplay, PumpFifo, FeederStarve
  <2> QED
    BY <1>1, <2>1, <2>2, <2>3
<1>11. CASE FeederStart
  <2>1. ~on /\ trk.rd = 0
    BY <1>11 DEF FeederStart, TrackInv
  <2>2. CASE MayStart
    <3>1. eng' = 0 /\ lag' = -Pacing /\ badPolls' = 0 /\ trk' = trk /\ fpc' = "publish"
      BY <1>11, <2>2 DEF FeederStart
    <3>2. 0 * MaxLag = 0
      BY <1>0
    <3> QED
      BY <1>0, <2>1, <3>1, <3>2 DEF DistInv
  <2>3. CASE ~MayStart
    BY <1>11, <2>1, <2>3 DEF FeederStart, DistInv
  <2> QED
    BY <2>2, <2>3
<1>12. CASE EngineStep
  <2>1. /\ on /\ eng' = eng + 1 /\ lag' = lag + 1 /\ UNCHANGED <<trk, on, fpc, badPolls>>
        /\ lag < LagLimit
    BY <1>12 DEF EngineStep
  <2>2. badPolls * MaxLag \in Nat
    BY <1>0, BadPolls
  <2>3. eng' - trk'.rd =< Pacing + badPolls' * MaxLag + lag'
    BY <1>0, <2>1, <2>2 DEF DistInv
  <2>4. lag' =< MaxLag /\ (fpc' \in {"recover", "restore"} => lag' =< BusyLag)
    BY <1>0, <2>1 DEF LagLimit
  <2> QED
    BY <2>1, <2>3, <2>4 DEF DistInv
<1> QED
  BY <1>2, <1>3, <1>4, <1>5, <1>6, <1>7, <1>8, <1>9, <1>10, <1>11, <1>12
  DEF Next, Control, Feeder, Engine
-----------------------------------------------------------------------------
(* The steps that touch the ring, by what they do to it *)

SpaceInv == Spaced(trk) /\ Held(trk, ring)

(* Idle slots are written, and the tracker may move up to the engine: what  *)
(* lies between both positions stays, what is new is idle.  After a stall   *)
(* of more than a lap the executing slot may hold an older lap's content.   *)
IdleWrite ==
  /\ trk.rd =< trk'.rd /\ trk'.rd =< eng /\ trk.wr =< trk'.wr
  /\ Spaced(trk') /\ Held(trk', ring')
  /\ \A p \in trk'.rd..trk'.wr - 1 :
       IF p < trk.wr THEN Content(p)' = Content(p)
                     ELSE Content(p)' = 0 \/ (p = trk'.rd /\ on /\ ~ShortStalls)
  /\ \A s \in 0..N - 1 : ring'[s] \in {0, ring[s]}
  /\ UNCHANGED <<head, tail, lastData, replay, on, eng, sent, fault, faults>>

(* The slots in seq are written from the writer's position on.              *)
DataWrite(seq) ==
  /\ trk'.rd = trk.rd /\ trk'.wr = trk.wr + Len(seq)
  /\ Spaced(trk') /\ Held(trk', ring')
  /\ \A p \in trk.rd..trk'.wr - 1 :
       Content(p)' = IF p < trk.wr THEN Content(p) ELSE seq[p - trk.wr + 1]
  /\ \A s \in 0..N - 1 : ring'[s] = ring[s] \/ \E i \in 1..Len(seq) : ring'[s] = seq[i]
  /\ UNCHANGED <<head, on, eng, lag, badPolls, sent, fault, faults, fpc>>

LEMMA PadStep ==
  ASSUME TypeOK, TrackInv, SpaceInv, NEW level \in Nat,
         trk' = PadTrk(trk, level), ring' = PadRing(trk, ring, level),
         UNCHANGED <<head, tail, lastData, replay, on, eng, sent, fault, faults>>
  PROVE  /\ IdleWrite
         /\ trk.wr = trk.rd /\ level =< N - 2 => trk'.wr = trk.wr + level
         /\ \A p \in trk.rd..trk'.wr - 1 : p >= trk.wr => Content(p)' = 0
<1>1. /\ trk \in Trackers /\ ring \in Rings /\ Spaced(trk) /\ Held(trk, ring)
      /\ trk.rd \in Nat /\ trk.wr \in Nat
  BY DEF TypeOK, Rings, SpaceInv, Trackers
<1>2. /\ trk' \in Trackers /\ trk'.rd = trk.rd /\ trk.wr =< trk'.wr
      /\ Spaced(trk') /\ Held(trk', ring')
      /\ \A p \in trk.rd..trk'.wr - 1 :
           ring'[RingSlot(p)] = IF p < trk.wr THEN ring[RingSlot(p)] ELSE 0
      /\ \A s \in 0..N - 1 : ring'[s] \in {0, ring[s]}
      /\ trk.wr = trk.rd /\ level =< N - 2 => trk'.wr = trk.wr + level
  BY <1>1, PadWrites
<1>3. trk.rd =< eng
  BY DEF TrackInv
<1>4. trk'.wr \in Nat
  BY <1>2 DEF Trackers
<1>5. ASSUME NEW p \in trk.rd..trk'.wr - 1
      PROVE  Content(p)' = IF p < trk.wr THEN Content(p) ELSE 0
  BY <1>2 DEF Content
<1>6. \A p \in trk.rd..trk'.wr - 1 : p >= trk.wr => Content(p)' = 0
  BY <1>1, <1>4, <1>5
<1>7. IdleWrite
  <2>1. trk.rd =< trk'.rd /\ trk'.rd =< eng
    BY <1>1, <1>2, <1>3
  <2>2. \A p \in trk'.rd..trk'.wr - 1 :
          IF p < trk.wr THEN Content(p)' = Content(p)
                        ELSE Content(p)' = 0 \/ (p = trk'.rd /\ on /\ ~ShortStalls)
    BY <1>2, <1>5
  <2> QED
    BY <1>2, <2>1, <2>2 DEF IdleWrite
<1> QED
  BY <1>2, <1>6, <1>7

LEMMA PollStep ==
  ASSUME TypeOK, TrackInv, DistInv, SpaceInv, Poll
  PROVE  IdleWrite /\ trk'.rd = eng
<1>1. PICK e \in Expected(FALSE) :
        LET t == Update(trk, RingSlot(eng), e)
            p == PolledTrk(t)
            r == ScrubRing(p, PolledRing(t))
            s == ScrubTrk(p)
        IN  /\ trk'  = IF padNow THEN PadTrk(s, Low) ELSE s
            /\ ring' = IF padNow THEN PadRing(s, r, Low) ELSE r
  BY DEF Poll
<1> DEFINE t == Update(trk, RingSlot(eng), e)
           p == PolledTrk(t)
           r == ScrubRing(p, PolledRing(t))
           s == ScrubTrk(p)
<1>2. /\ trk \in Trackers /\ ring \in Rings /\ Spaced(trk) /\ Held(trk, ring)
      /\ trk.rd \in Nat /\ trk.wr \in Nat /\ eng \in Nat /\ trk.rd =< eng /\ on
      /\ Low \in Nat
  BY LowType DEF TypeOK, Rings, SpaceInv, Trackers, TrackInv, Poll
<1>3. t \in Trackers /\ t.rd = eng /\ t.wr = trk.wr /\ t.scrubbed = trk.scrubbed
  <2>1. t \in Trackers /\ t.rd = eng
    BY PollFinds
  <2>2. t.wr = trk.wr /\ t.scrubbed = trk.scrubbed
    BY <1>2 DEF Update, Trackers
  <2> QED
    BY <2>1, <2>2
<1> HIDE DEF t
<1>4. Held([t EXCEPT !.rd = trk.rd], ring)
  <2> DEFINE u == [t EXCEPT !.rd = trk.rd]
  <2>1. u.rd = trk.rd /\ u.wr = trk.wr
    BY <1>3 DEF Trackers
  <2> HIDE DEF u
  <2>2. Held(u, ring)
    BY <1>2, <2>1 DEF Held
  <2> QED
    BY <2>2 DEF u
<1>5. /\ s \in Trackers /\ r \in Rings
      /\ s.rd = t.rd /\ t.wr =< s.wr
      /\ Spaced(s) /\ Held(s, r)
      /\ \A x \in t.rd..t.wr - 1 : r[RingSlot(x)] = ring[RingSlot(x)]
      /\ \A x \in t.rd + 1..s.wr - 1 : t.wr =< x => r[RingSlot(x)] = 0
      /\ \A x \in 0..N - 1 : r[x] \in {0, ring[x]}
  <2>1. trk.rd =< t.rd /\ t.wr =< trk.rd + N - 2 /\ t.scrubbed =< trk.rd
    BY <1>2, <1>3 DEF Spaced
  <2> HIDE DEF p, r, s
  <2> QED
    BY <1>2, <1>3, <1>4, <2>1, PolledWrites DEF p, r, s
<1> HIDE DEF r, s
<1>6. /\ trk'  = IF padNow THEN PadTrk(s, Low) ELSE s
      /\ ring' = IF padNow THEN PadRing(s, r, Low) ELSE r
  BY <1>1 DEF t, r, s
<1>7. /\ trk' \in Trackers /\ trk'.rd = eng /\ s.wr =< trk'.wr
      /\ Spaced(trk') /\ Held(trk', ring')
      /\ \A x \in eng..trk'.wr - 1 :
           ring'[RingSlot(x)] = IF x < s.wr THEN r[RingSlot(x)] ELSE 0
      /\ \A x \in 0..N - 1 : ring'[x] \in {0, r[x]}
  <2>1. CASE padNow
    <3>1. /\ PadTrk(s, Low) \in Trackers /\ PadRing(s, r, Low) \in Rings
          /\ PadTrk(s, Low).rd = s.rd /\ s.wr =< PadTrk(s, Low).wr
          /\ Spaced(PadTrk(s, Low)) /\ Held(PadTrk(s, Low), PadRing(s, r, Low))
          /\ \A x \in s.rd..PadTrk(s, Low).wr - 1 :
               PadRing(s, r, Low)[RingSlot(x)] = IF x < s.wr THEN r[RingSlot(x)] ELSE 0
          /\ \A x \in 0..N - 1 : PadRing(s, r, Low)[x] \in {0, r[x]}
      BY <1>2, <1>5, PadWrites
    <3>2. trk' = PadTrk(s, Low) /\ ring' = PadRing(s, r, Low)
      BY <1>6, <2>1
    <3> QED
      BY <1>3, <1>5, <3>1, <3>2
  <2>2. CASE ~padNow
    <3>1. trk' = s /\ ring' = r
      BY <1>6, <2>2
    <3>2. s.wr \in Nat /\ eng \in Nat
      BY <1>2, <1>5 DEF Trackers
    <3> QED
      BY <1>3, <1>5, <3>1, <3>2
  <2> QED
    BY <2>1, <2>2
<1>8. trk'.wr \in Nat /\ s.wr \in Nat
  BY <1>5, <1>7 DEF Trackers
<1>9. ASSUME NEW x \in trk'.rd..trk'.wr - 1
      PROVE  IF x < trk.wr THEN Content(x)' = Content(x)
             ELSE Content(x)' = 0 \/ (x = trk'.rd /\ on /\ ~ShortStalls)
  <2>1. x \in Int /\ x >= eng /\ x \in eng..trk'.wr - 1
    BY <1>2, <1>7, <1>8
  <2>2. Content(x)' = IF x < s.wr THEN r[RingSlot(x)] ELSE 0
    BY <1>7, <2>1 DEF Content
  <2>3. CASE x < trk.wr
    <3>1. x < s.wr /\ x \in t.rd..t.wr - 1
      BY <1>2, <1>3, <1>5, <1>8, <2>1, <2>3
    <3> QED
      BY <1>5, <2>2, <2>3, <3>1 DEF Content
  <2>4. CASE ~ (x < trk.wr) /\ x # eng
    <3>1. CASE x < s.wr
      <4>1. x \in t.rd + 1..s.wr - 1 /\ t.wr =< x
        BY <1>2, <1>3, <1>8, <2>1, <2>4, <3>1
      <4> QED
        BY <1>5, <2>2, <2>4, <3>1, <4>1
    <3> QED
      BY <2>2, <2>4, <3>1
  <2>5. CASE ~ (x < trk.wr) /\ x = eng /\ ~ShortStalls
    BY <1>2, <1>7, <2>5
  <2>6. CASE ~ (x < trk.wr) /\ x = eng /\ ShortStalls
    <3>1. eng - trk.rd =< Reach
      BY <1>2, EngineWithinReach
    <3>2. Reach \in Int /\ N \in Int
      <4>1. BadPollLimit * MaxLag \in Nat
        BY BadPolls
      <4> QED
        BY <4>1, ConstantTypes DEF Reach
    <3>3. trk.wr =< eng /\ eng < trk.rd + N
      BY <1>2, <2>6, <3>1, <3>2 DEF ShortStalls
    <3>4. ring[RingSlot(eng)] = 0
      BY <1>2, <3>3, HeldAhead
    <3>5. RingSlot(eng) \in 0..N - 1
      BY <1>2, SlotType
    <3> QED
      BY <1>5, <2>2, <2>6, <3>4, <3>5
  <2> QED
    BY <2>3, <2>4, <2>5, <2>6
<1>10. ASSUME NEW x \in 0..N - 1
       PROVE  ring'[x] \in {0, ring[x]}
  BY <1>5, <1>7
<1>11. UNCHANGED <<head, tail, lastData, replay, on, eng, sent, fault, faults>>
  BY DEF Poll, fifoV
<1>12. trk.rd =< trk'.rd /\ trk'.rd =< eng /\ trk.wr =< trk'.wr
  BY <1>2, <1>3, <1>5, <1>7, <1>8
<1> QED
  BY <1>7, <1>9, <1>10, <1>11, <1>12 DEF IdleWrite

LEMMA FillStep ==
  ASSUME TypeOK, TrackInv, SpaceInv, FeederFill, trk.wr = 0, prefix = 0
  PROVE  /\ IdleWrite
         /\ prefix' = Pacing + 1 + adv /\ prefix' \in Nat
         /\ prefix' =< N - 2 => trk'.wr = prefix'
         /\ \A p \in 0..trk'.wr - 1 : Content(p)' = 0
<1>1. /\ prefix' = Pacing + 1 + adv /\ prefix' \in Nat
      /\ trk' = PadTrk(trk, prefix') /\ ring' = PadRing(trk, ring, prefix')
      /\ UNCHANGED <<head, tail, lastData, replay, on, eng, sent, fault, faults>>
  <2>1. adv \in Nat
    BY ConstantTypes DEF TypeOK
  <2> QED
    BY <2>1, ConstantTypes DEF FeederFill, fifoV, engV
<1>2. trk.rd = 0
  BY DEF FeederFill, TrackInv
<1>3. /\ IdleWrite
      /\ trk.wr = trk.rd /\ prefix' =< N - 2 => trk'.wr = trk.wr + prefix'
      /\ \A p \in trk.rd..trk'.wr - 1 : p >= trk.wr => Content(p)' = 0
  BY <1>1, PadStep
<1> QED
  BY <1>1, <1>2, <1>3

(* A step that leaves the ring and all that IdleWrite speaks of alone.      *)
LEMMA StillWrite ==
  ASSUME TypeOK, TrackInv, SpaceInv,
         UNCHANGED <<trk, ring, head, tail, lastData, replay, on, eng, sent, fault, faults>>
  PROVE  IdleWrite
<1>1. trk.rd \in Nat /\ trk.wr \in Nat /\ trk.rd =< eng
  BY DEF TypeOK, Trackers, TrackInv
<1>2. \A p \in trk'.rd..trk'.wr - 1 : p < trk.wr /\ Content(p)' = Content(p)
  BY <1>1 DEF Content
<1> QED
  BY <1>1, <1>2 DEF IdleWrite, SpaceInv

LEMMA StarveStep ==
  ASSUME TypeOK, TrackInv, SpaceInv, FeederStarve
  PROVE  IdleWrite /\ trk'.rd = trk.rd
<1>0. UNCHANGED <<head, tail, lastData, replay, on, eng, sent, fault, faults>> /\ Low \in Nat
  BY LowType DEF FeederStarve, fifoV, engV, TypeOK
<1>1. CASE head = tail /\ replay = <<>> /\ Fill(trk) < Low
  <2>1. trk' = PadTrk(trk, Low) /\ ring' = PadRing(trk, ring, Low)
    BY <1>1 DEF FeederStarve
  <2>2. trk \in Trackers
    BY DEF TypeOK
  <2>3. trk'.rd = trk.rd
    BY <1>0, <2>1, <2>2, PadType
  <2> QED
    BY <1>0, <2>1, <2>3, PadStep
<1>2. CASE ~ (head = tail /\ replay = <<>> /\ Fill(trk) < Low)
  <2>1. UNCHANGED <<trk, ring>>
    BY <1>2 DEF FeederStarve
  <2> QED
    BY <1>0, <2>1, StillWrite
<1> QED
  BY <1>1, <1>2
-----------------------------------------------------------------------------
(* Data written *)

LEMMA WritesData ==
  ASSUME TypeOK, SpaceInv, NEW seq \in Seq(Nat), Len(seq) =< Room,
         trk' = AdvanceWrite(trk, Len(seq)), ring' = Filled(ring, trk.wr, seq),
         UNCHANGED <<head, on, eng, lag, badPolls, sent, fault, faults, fpc>>
  PROVE  DataWrite(seq)
<1>1. /\ trk \in Trackers /\ ring \in Rings /\ Held(trk, ring)
      /\ trk.rd \in Nat /\ trk.wr \in Nat /\ trk.scrubbed \in Nat
      /\ N \in Nat /\ N >= 4 /\ Target \in Nat /\ Len(seq) \in Nat
      /\ trk.rd =< trk.wr /\ trk.wr =< trk.rd + N - 2 /\ trk.scrubbed =< trk.rd
  BY ConstantTypes DEF TypeOK, Rings, SpaceInv, Spaced, Trackers
<1>2. trk.wr + Len(seq) =< trk.rd + N - 2
  BY <1>1 DEF Room, Writable, Fill, Smaller
<1>3. /\ trk' \in Trackers /\ trk'.rd = trk.rd /\ trk'.wr = trk.wr + Len(seq)
      /\ trk'.scrubbed = trk.scrubbed
  <2> DEFINE n == Len(seq)
  <2>1. n \in Nat /\ trk.wr + n \in Nat /\ trk' = AdvanceWrite(trk, n)
    BY <1>1
  <2> HIDE DEF n
  <2>2. /\ trk' \in Trackers /\ trk'.rd = trk.rd /\ trk'.wr = trk.wr + n
        /\ trk'.scrubbed = trk.scrubbed
    BY <1>1, <2>1 DEF AdvanceWrite, Trackers
  <2> QED
    BY <2>2 DEF n
<1>3a. trk'.wr \in Nat
  BY <1>3 DEF Trackers
<1>4. Spaced(trk')
  BY <1>1, <1>2, <1>3 DEF Spaced
<1>5. ASSUME NEW p \in trk.rd..trk'.wr - 1
      PROVE  Content(p)' = IF p < trk.wr THEN Content(p) ELSE seq[p - trk.wr + 1]
  <2> DEFINE pos == trk.wr
  <2>1. pos \in Int /\ p \in Int /\ Len(seq) =< N /\ pos + Len(seq) - N =< p /\ p < pos + Len(seq)
    <3> DEFINE a == trk.rd
               n == Len(seq)
               v == trk'.wr
    <3>1. /\ a \in Nat /\ n \in Nat /\ pos \in Nat /\ v \in Nat /\ v = pos + n
          /\ a =< pos /\ pos + n =< a + N - 2 /\ N \in Nat /\ p \in a..v - 1
      BY <1>1, <1>2, <1>3, <1>3a
    <3> HIDE DEF a, n, v, pos
    <3>2. pos \in Int /\ p \in Int /\ n =< N /\ pos + n - N =< p /\ p < pos + n
      BY <3>1
    <3> QED
      BY <3>2 DEF n
  <2> HIDE DEF pos
  <2>2. Filled(ring, pos, seq)[RingSlot(p)]
          = IF p < pos THEN ring[RingSlot(p)] ELSE seq[p - pos + 1]
    BY <1>1, <2>1, FilledAt
  <2> QED
    BY <2>2 DEF pos, Content
<1>6. ASSUME NEW s \in 0..N - 1
      PROVE  \/ ring'[s] = ring[s]
             \/ \E i \in 1..Len(seq) : ring'[s] = seq[i] /\ RingSlot(trk.wr + i - 1) = s
  <2> DEFINE pos == trk.wr
  <2>1. pos \in Int /\ Len(seq) =< N
    BY <1>1, <1>2
  <2> HIDE DEF pos
  <2>2. \/ Filled(ring, pos, seq)[s] = ring[s]
        \/ \E i \in 1..Len(seq) : /\ Filled(ring, pos, seq)[s] = seq[i]
                                  /\ RingSlot(pos + i - 1) = s
    BY <1>1, <2>1, FilledSlots
  <2> QED
    BY <2>2 DEF pos
<1>7. Held(trk', ring')
  <2> SUFFICES ASSUME NEW s \in 0..N - 1, ring'[s] # 0
               PROVE  \E p \in trk'.rd..trk'.wr - 1 : RingSlot(p) = s
    BY DEF Held
  <2>1. CASE ring'[s] = ring[s]
    <3>1. PICK p \in trk.rd..trk.wr - 1 : RingSlot(p) = s
      BY <1>1, <2>1 DEF Held
    <3> QED
      BY <1>1, <1>3, <3>1
  <2>2. CASE \E i \in 1..Len(seq) : ring'[s] = seq[i] /\ RingSlot(trk.wr + i - 1) = s
    <3>1. PICK i \in 1..Len(seq) : RingSlot(trk.wr + i - 1) = s
      BY <2>2
    <3>2. trk.wr + i - 1 \in trk'.rd..trk'.wr - 1
      <4> DEFINE a == trk.rd
                 n == Len(seq)
                 v == trk'.wr
                 w == trk.wr
      <4>1. /\ a \in Nat /\ n \in Nat /\ w \in Nat /\ v \in Nat /\ v = w + n
            /\ a =< w /\ i \in 1..n
        BY <1>1, <1>3, <1>3a
      <4>2. trk'.rd = a
        BY <1>3
      <4> HIDE DEF a, n, v, w
      <4>3. w + i - 1 \in a..v - 1
        BY <4>1
      <4> QED
        BY <4>2, <4>3 DEF v, w
    <3> QED
      BY <3>1, <3>2
  <2> QED
    BY <1>6, <2>1, <2>2
<1>8. \A s \in 0..N - 1 : ring'[s] = ring[s] \/ \E i \in 1..Len(seq) : ring'[s] = seq[i]
  BY <1>6
<1> QED
  BY <1>3, <1>4, <1>5, <1>7, <1>8 DEF DataWrite

(* PumpReplay writes the first m slots of the replay buffer.                *)
Replays(m) ==
  /\ m \in 1..Len(replay)
  /\ DataWrite(SubSeq(replay, 1, m))
  /\ replay' = SubSeq(replay, m + 1, Len(replay))
  /\ UNCHANGED <<tail, prefix>>
  /\ lastData' =< trk'.wr
  /\ lastData' = lastData \/ trk.wr =< lastData'
  /\ \A i \in 1..m : replay[i] # 0 => trk.wr + i =< lastData'

LEMMA ReplayStep ==
  ASSUME TypeOK, SpaceInv, lastData =< trk.wr, PumpReplay
  PROVE  \E m \in 1..Len(replay) : Replays(m)
<1> DEFINE m    == Smaller(Smaller(Room, Chunk), Len(replay))
           part == SubSeq(replay, 1, m)
           data == {i \in 1..m : part[i] # 0}
<1>0. /\ trk \in Trackers /\ Room \in Nat /\ Room > 0 /\ replay \in Seq(Nat) /\ replay # <<>>
      /\ trk.wr \in Nat /\ lastData \in Nat
  BY RoomType DEF TypeOK, PumpReplay, Trackers
<1>1. m \in 1..Len(replay) /\ m =< Room
  <2>1. Len(replay) \in Nat /\ Len(replay) # 0
    BY <1>0
  <2> QED
    BY <1>0, <2>1, ConstantTypes DEF Smaller
<1> HIDE DEF m
<1>2. /\ part \in Seq(Nat) /\ Len(part) = m
      /\ \A i \in 1..m : part[i] = replay[i]
  BY <1>0, <1>1
<1>3. /\ ring' = Filled(ring, trk.wr, part) /\ trk' = AdvanceWrite(trk, m)
      /\ lastData' = (IF data = {} THEN lastData
                      ELSE trk.wr + (CHOOSE i \in data : \A j \in data : j =< i))
      /\ replay' = SubSeq(replay, m + 1, Len(replay))
      /\ UNCHANGED <<tail, prefix, head, on, eng, lag, badPolls, sent, fault, faults, fpc>>
  BY DEF PumpReplay, m, fifoV, engV
<1> HIDE DEF part
<1>4. DataWrite(part)
  <2>1. Len(part) =< Room /\ trk' = AdvanceWrite(trk, Len(part))
    BY <1>1, <1>2, <1>3
  <2> QED
    BY <1>2, <1>3, <2>1, WritesData
<1>5. trk'.wr = trk.wr + m
  BY <1>2, <1>4 DEF DataWrite
<1>6. /\ lastData' =< trk'.wr /\ (lastData' = lastData \/ trk.wr =< lastData')
      /\ \A i \in 1..m : part[i] # 0 => trk.wr + i =< lastData'
  <2>1. CASE data = {}
    <3>1. lastData' = lastData
      BY <1>3, <2>1
    <3>2. \A i \in 1..m : ~ (part[i] # 0)
      BY <2>1
    <3> HIDE DEF data
    <3> QED
      BY <1>0, <1>1, <1>5, <3>1, <3>2
  <2>2. CASE data # {}
    <3>1. data \in SUBSET (0..m) /\ m \in Nat
      BY <1>1
    <3>2. \E i \in data : \A j \in data : j =< i
      BY <2>2, <3>1, GreatestElement
    <3> DEFINE last == CHOOSE i \in data : \A j \in data : j =< i
    <3>3. last \in data /\ \A j \in data : j =< last
      BY <3>2
    <3>4. lastData' = trk.wr + last
      BY <1>3, <2>2
    <3>5. last \in 1..m /\ \A i \in 1..m : part[i] # 0 => i =< last
      BY <3>3
    <3> HIDE DEF last, data
    <3> QED
      BY <1>0, <1>1, <1>5, <3>4, <3>5
  <2> QED
    BY <2>1, <2>2
<1>7. \A i \in 1..m : replay[i] # 0 => trk.wr + i =< lastData'
  BY <1>2, <1>6
<1> QED
  BY <1>1, <1>3, <1>4, <1>6, <1>7 DEF Replays, part

(* PumpFifo writes the slots of the next m samples.                         *)
Takes(m) ==
  /\ DataWrite(SlotsOf(tail, m))
  /\ replay = <<>> /\ replay' = <<>>
  /\ tail' = tail + m /\ tail' =< head /\ consumed' = consumed + m
  /\ lastData' = trk'.wr
  /\ UNCHANGED <<prefix, drained>>

LEMMA TakeStep ==
  ASSUME TypeOK, SpaceInv, PumpFifo
  PROVE  \E m \in Nat \ {0} : Takes(m)
<1> DEFINE m == Smaller(Want, head - tail)
<1>0. /\ trk \in Trackers /\ Room \in Nat /\ Want \in Nat /\ Want > 0
      /\ head \in Nat /\ tail \in Nat /\ head > tail /\ K \in Nat /\ K > 0
  BY RoomType, ConstantTypes DEF TypeOK, PumpFifo
<1>1. m \in Nat \ {0} /\ tail + m =< head /\ m =< Want
  BY <1>0 DEF Smaller
<1> HIDE DEF m
<1>2. m * K \in Nat /\ m * K =< Room
  <2> DEFINE q == Room \div K
  <2>1. q \in Int /\ K * q =< Room
    <3>1. Room = K * (Room \div K) + (Room % K) /\ Room \div K \in Int /\ Room % K \in 0..K - 1
      BY <1>0, DivMod
    <3>2. K * (Room \div K) \in Int
      BY <1>0, <3>1
    <3> QED
      BY <1>0, <3>1, <3>2
  <2>2. m =< q
    <3>1. Want =< q
      BY <1>0, <2>1, ConstantTypes DEF Want, Smaller
    <3> QED
      BY <1>0, <1>1, <2>1, <3>1
  <2> HIDE DEF q
  <2>3. m * K =< K * q
    <3>1. K * q = K * m + K * (q - m)
      BY <1>0, <1>1, <2>1
    <3>2. K * (q - m) \in Nat
      <4>1. q - m \in Nat
        BY <1>1, <2>1, <2>2
      <4> QED
        BY <1>0, <4>1
    <3>3. K * m = m * K /\ m * K \in Nat
      BY <1>0, <1>1
    <3> QED
      BY <3>1, <3>2, <3>3
  <2> QED
    BY <1>0, <1>1, <2>1, <2>3
<1>3. /\ SlotsOf(tail, m) \in Seq(Nat) /\ Len(SlotsOf(tail, m)) = m * K
  <2>1. tail * K \in Nat
    BY <1>0
  <2> QED
    BY <1>2, <2>1 DEF SlotsOf
<1>4. /\ ring' = Filled(ring, trk.wr, SlotsOf(tail, m)) /\ trk' = AdvanceWrite(trk, m * K)
      /\ lastData' = trk'.wr /\ tail' = tail + m /\ consumed' = consumed + m
      /\ replay = <<>> /\ replay' = <<>>
      /\ UNCHANGED <<prefix, drained, head, on, eng, lag, badPolls, sent, fault, faults, fpc>>
  BY DEF PumpFifo, m, engV
<1>5. DataWrite(SlotsOf(tail, m))
  BY <1>2, <1>3, <1>4, WritesData
<1> QED
  BY <1>1, <1>4, <1>5 DEF Takes
-----------------------------------------------------------------------------
(* The end of the data in the ring: no data slot lies at or beyond          *)
(* lastDataPos.                                                            *)
LastInv ==
  /\ lastData =< trk.wr
  /\ \A p \in trk.rd..trk.wr - 1 :
       p >= lastData => Content(p) = 0 \/ (p = trk.rd /\ on /\ ~ShortStalls)

LEMMA IdleSteps ==
  ASSUME TypeOK, TrackInv, DistInv, SpaceInv, FeederFill \/ Poll \/ FeederStarve
  PROVE  IdleWrite
<1>1. CASE FeederFill
  <2>1. CASE trk.wr = 0 /\ prefix = 0
    BY <1>1, <2>1, FillStep
  <2>2. CASE ~ (trk.wr = 0 /\ prefix = 0)
    <3>1. UNCHANGED <<trk, ring, head, tail, lastData, replay, on, eng, sent, fault, faults>>
      BY <1>1, <2>2 DEF FeederFill, fifoV, engV
    <3> QED
      BY <3>1, StillWrite
  <2> QED
    BY <2>1, <2>2
<1> QED
  BY <1>1, PollStep, StarveStep

(* Every step writes idle slots, writes data slots, empties the ring or     *)
(* leaves it alone.                                                        *)
LEMMA RingCases ==
  ASSUME TypeOK, TrackInv, ControlInv, DistInv, SpaceInv, LastInv, [Next]_vars
  PROVE  \/ IdleWrite
         \/ \E m \in 1..Len(replay) : Replays(m)
         \/ \E m \in Nat \ {0} : Takes(m)
         \/ ResetRing
         \/ UNCHANGED <<trk, ring, lastData>> /\ (on => on')
<1> USE DEF fifoV, prodV, flagV, tuneV, envV, pubV, ringV, burstV, drainV, engV, statV
<1>1. CASE FeederFill \/ Poll \/ FeederStarve
  BY <1>1, IdleSteps
<1>2. CASE PumpReplay
  <2>1. lastData =< trk.wr
    BY DEF LastInv
  <2> QED
    BY <1>2, <2>1, ReplayStep
<1>3. CASE PumpFifo
  BY <1>3, TakeStep
<1>4. CASE StartRun \/ StopFinish \/ RetuneRebuild
  BY <1>4 DEF StartRun, StopFinish, RetuneRebuild
<1>5. CASE FeederTop \/ FeederAdvance
  BY <1>5 DEF FeederTop, RefreshModel, FeederAdvance, ApplyAdvance, KeepAdvance
<1>6. CASE Producer \/ RequestRetune \/ PublishModel \/ StartClear \/ StopBegin
           \/ PrerollExpires \/ Engine \/ UNCHANGED vars
  BY <1>6 DEF Producer, WriteBegin, WritePush, EndBurst, RequestRetune, PublishModel,
              StartClear, StopBegin, PrerollExpires, Engine, EngineStep, EngineFault,
              FaultClears, vars
<1>7. CASE FeederExit \/ RetuneBegin \/ PollBad \/ PumpDone \/ PublishDrain
  BY <1>7 DEF FeederExit, RetuneBegin, PollBad, PumpDone, PublishDrain
<1>8. CASE FeederStart
  <2>1. ~on
    BY <1>8 DEF FeederStart, TrackInv
  <2> QED
    BY <1>8, <2>1 DEF FeederStart
<1> QED
  BY <1>1, <1>2, <1>3, <1>4, <1>5, <1>6, <1>7, <1>8 DEF Next, Control, Feeder

LEMMA EmptyRing ==
  ASSUME ResetRing
  PROVE  /\ Spaced(trk') /\ Held(trk', ring')
         /\ trk'.rd = 0 /\ trk'.wr = 0 /\ lastData' = 0 /\ prefix' = 0
         /\ \A s \in 0..N - 1 : ring'[s] = 0
         /\ \A p \in Int : Content(p)' = 0
<1>1. /\ trk'.rd = 0 /\ trk'.wr = 0 /\ trk'.scrubbed = 0
      /\ lastData' = 0 /\ prefix' = 0
      /\ \A s \in 0..N - 1 : ring'[s] = 0
  BY DEF ResetRing, Rewound, IdleRing
<1>2. Spaced(trk') /\ Held(trk', ring')
  BY <1>1, ConstantTypes DEF Spaced, Held
<1>3. ASSUME NEW p \in Int PROVE Content(p)' = 0
  <2>1. RingSlot(p) \in 0..N - 1
    BY SlotType
  <2> QED
    BY <1>1, <2>1 DEF Content
<1> QED
  BY <1>1, <1>2, <1>3

LEMMA RestIsEmpty ==
  ASSUME TypeOK, AtRest
  PROVE  SpaceInv /\ LastInv /\ trk.rd = 0 /\ trk.wr = 0
<1>1. trk.rd = 0 /\ trk.wr = 0 /\ trk.scrubbed = 0 /\ lastData = 0
  BY DEF AtRest, Rewound
<1>2. \A s \in 0..N - 1 : ring[s] = 0
  BY DEF AtRest, IdleRing
<1> QED
  BY <1>1, <1>2, ConstantTypes DEF SpaceInv, LastInv, Spaced, Held

LEMMA InitSpace == Init => SpaceInv /\ LastInv
<1> SUFFICES ASSUME Init PROVE SpaceInv /\ LastInv
  OBVIOUS
<1>1. AtRest
  BY Zenon DEF Init, AtRest
<1> QED
  BY <1>1, InitTypes, RestIsEmpty

LEMMA StepSpace ==
  TypeOK /\ TrackInv /\ ControlInv /\ DistInv /\ SpaceInv /\ LastInv /\ [Next]_vars
    => SpaceInv' /\ LastInv'
<1> SUFFICES ASSUME TypeOK, TrackInv, ControlInv, DistInv, SpaceInv, LastInv, [Next]_vars
             PROVE  SpaceInv' /\ LastInv'
  OBVIOUS
<1>0. /\ trk.rd \in Nat /\ trk.wr \in Nat /\ lastData \in Nat /\ lastData =< trk.wr
      /\ trk'.rd \in Nat /\ trk'.wr \in Nat /\ lastData' \in Nat
  <2>1. TypeOK'
    BY StepTypes
  <2> QED
    BY <2>1 DEF TypeOK, Trackers, LastInv
<1>1. CASE IdleWrite
  <2>1. SpaceInv'
    BY <1>1 DEF IdleWrite, SpaceInv, Spaced, Held
  <2>2. lastData' =< trk'.wr
    BY <1>0, <1>1 DEF IdleWrite
  <2>3. ASSUME NEW p \in trk'.rd..trk'.wr - 1, p >= lastData'
        PROVE  Content(p)' = 0 \/ (p = trk'.rd /\ on' /\ ~ShortStalls)
    <3>0. /\ trk.rd =< trk'.rd /\ lastData' = lastData /\ on' = on
          /\ IF p < trk.wr THEN Content(p)' = Content(p)
                           ELSE Content(p)' = 0 \/ (p = trk'.rd /\ on /\ ~ShortStalls)
      BY <1>1 DEF IdleWrite
    <3>1. CASE p < trk.wr
      <4>1. p \in trk.rd..trk.wr - 1
        BY <1>0, <3>0, <3>1
      <4>2. Content(p) = 0 \/ (p = trk.rd /\ on /\ ~ShortStalls)
        BY <2>3, <3>0, <4>1 DEF LastInv
      <4>3. p = trk.rd => p = trk'.rd
        BY <1>0, <3>0
      <4> QED
        BY <3>0, <3>1, <4>2, <4>3
    <3>2. CASE ~ (p < trk.wr)
      BY <3>0, <3>2
    <3> QED
      BY <3>1, <3>2
  <2>4. ShortStalls' <=> ShortStalls
    BY DEF ShortStalls, Reach
  <2> QED
    BY <2>1, <2>2, <2>3, <2>4 DEF LastInv
<1>2. CASE \E m \in 1..Len(replay) : Replays(m)
  <2>1. PICK m \in 1..Len(replay) : Replays(m)
    BY <1>2
  <2>2. /\ DataWrite(SubSeq(replay, 1, m)) /\ lastData' =< trk'.wr
        /\ lastData' = lastData \/ trk.wr =< lastData'
        /\ \A i \in 1..m : replay[i] # 0 => trk.wr + i =< lastData'
    BY <2>1 DEF Replays
  <2>3. SpaceInv'
    BY <2>2 DEF DataWrite, SpaceInv, Spaced, Held
  <2>4. /\ replay \in Seq(Nat) /\ Len(SubSeq(replay, 1, m)) = m /\ m \in Nat
        /\ \A i \in 1..m : SubSeq(replay, 1, m)[i] = replay[i]
    <3>1. replay \in Seq(Nat)
      BY DEF TypeOK
    <3> QED
      BY <3>1
  <2>5. trk'.rd = trk.rd /\ trk'.wr = trk.wr + m /\ on' = on
    BY <2>2, <2>4 DEF DataWrite
  <2>6. ASSUME NEW p \in trk'.rd..trk'.wr - 1, p >= lastData'
        PROVE  Content(p)' = 0 \/ (p = trk'.rd /\ on' /\ ~ShortStalls)
    <3>1. Content(p)' = IF p < trk.wr THEN Content(p)
                        ELSE SubSeq(replay, 1, m)[p - trk.wr + 1]
      BY <2>2, <2>5 DEF DataWrite
    <3>2. CASE p < trk.wr
      <4>1. p \in trk.rd..trk.wr - 1 /\ p >= lastData
        BY <1>0, <2>2, <2>5, <2>6, <3>2
      <4> QED
        BY <2>5, <3>1, <3>2, <4>1 DEF LastInv
    <3>3. CASE ~ (p < trk.wr)
      <4> DEFINE i == p - trk.wr + 1
      <4>1. i \in 1..m /\ trk.wr + i = p + 1
        <5> DEFINE v == trk'.wr
                   w == trk.wr
        <5>1. v \in Nat /\ w \in Nat /\ v = w + m /\ m \in Nat /\ p \in Int /\ p =< v - 1
              /\ ~ (p < w)
          BY <1>0, <2>4, <2>5, <3>3
        <5> HIDE DEF v, w
        <5>2. p - w + 1 \in 1..m /\ w + (p - w + 1) = p + 1
          BY <5>1
        <5> QED
          BY <5>2 DEF w
      <4> HIDE DEF i
      <4>2. ~ (trk.wr + i =< lastData')
        BY <1>0, <2>6, <4>1
      <4>3. replay[i] = 0
        BY <2>2, <4>1, <4>2
      <4> QED
        BY <2>4, <3>1, <3>3, <4>1, <4>3 DEF i
    <3> QED
      BY <3>2, <3>3
  <2>7. ShortStalls' <=> ShortStalls
    BY DEF ShortStalls, Reach
  <2> QED
    BY <2>2, <2>3, <2>6, <2>7 DEF LastInv
<1>3. CASE \E m \in Nat \ {0} : Takes(m)
  <2>1. PICK m \in Nat \ {0} : Takes(m)
    BY <1>3
  <2>2. DataWrite(SlotsOf(tail, m)) /\ lastData' = trk'.wr
    BY <2>1 DEF Takes
  <2>3. SpaceInv'
    BY <2>2 DEF DataWrite, SpaceInv, Spaced, Held
  <2>4. \A p \in trk'.rd..trk'.wr - 1 : ~ (p >= lastData')
    BY <1>0, <2>2
  <2> QED
    BY <1>0, <2>2, <2>3, <2>4 DEF LastInv
<1>4. CASE ResetRing
  <2>1. /\ Spaced(trk') /\ Held(trk', ring')
        /\ trk'.rd = 0 /\ trk'.wr = 0 /\ lastData' = 0
    BY <1>4, EmptyRing
  <2> QED
    BY <2>1 DEF SpaceInv, LastInv, Spaced, Held
<1>5. CASE UNCHANGED <<trk, ring, lastData>> /\ (on => on')
  <2>1. SpaceInv'
    BY <1>5 DEF SpaceInv, Spaced, Held
  <2>2. LastInv'
    BY <1>5 DEF LastInv, Content, ShortStalls, Reach
  <2> QED
    BY <2>1, <2>2
<1> QED
  BY <1>1, <1>2, <1>3, <1>4, <1>5, RingCases

(* The parts of the invariant that need nothing of the stalls. *)
PlaceInv ==
  TypeOK /\ TrackInv /\ ControlInv /\ DistInv /\ SpaceInv /\ LastInv

LEMMA InitPlace == Init => PlaceInv
BY InitTypes, InitTracks, InitControl, InitDist, InitSpace DEF PlaceInv

LEMMA StepPlace == PlaceInv /\ [Next]_vars => PlaceInv'
BY StepTypes, StepTracks, StepControl, StepDist, StepSpace DEF PlaceInv

(* Whatever the stalls, retunes and faults: when the feeder has polled, no  *)
(* slot holds a sample that is not still to be executed or executing.       *)
THEOREM TransmitterSilences == Spec => []NothingStale
<1>1. PlaceInv => NothingStale
  BY DEF PlaceInv, SpaceInv, Held, NothingStale
<1> QED
  BY InitPlace, StepPlace, <1>1, PTL DEF Spec

(* The advance changes only when nothing placed with the old one is still   *)
(* to be executed.                                                         *)
LEMMA AdvanceStep ==
  ASSUME PlaceInv, Next, active, adv' # adv
  PROVE  \A p \in From..trk.wr - 1 : Content(p) = 0
<1> USE DEF fifoV, prodV, flagV, tuneV, envV, pubV, ringV, burstV, drainV, engV, statV
<1>0. /\ TypeOK /\ TrackInv /\ ControlInv /\ LastInv
      /\ trk.rd \in Nat /\ trk.wr \in Nat /\ lastData \in Nat /\ eng \in Nat /\ trk.rd =< eng
      /\ ~on => trk.rd = 0
  BY DEF PlaceInv, TypeOK, Trackers, TrackInv
<1>1. AtBurstBoundary
  <2>1. CASE FeederTop \/ FeederAdvance
    BY <2>1 DEF FeederTop, RefreshModel, FeederAdvance, KeepAdvance
  <2>2. CASE StartRun
    BY <1>0, <2>2 DEF StartRun, ControlInv
  <2>3. CASE Producer \/ RequestRetune \/ PublishModel \/ StartClear \/ StopBegin
             \/ StopFinish \/ PrerollExpires \/ Engine
    BY <2>3 DEF Producer, WriteBegin, WritePush, EndBurst, RequestRetune, PublishModel,
                StartClear, StopBegin, StopFinish, PrerollExpires, Engine, EngineStep,
                EngineFault, FaultClears
  <2>4. CASE FeederExit \/ RetuneBegin \/ RetuneRebuild \/ PollBad \/ PumpDone \/ PublishDrain
             \/ FeederStart \/ FeederFill \/ Poll \/ FeederStarve \/ PumpReplay \/ PumpFifo
    BY <2>4 DEF FeederExit, RetuneBegin, RetuneRebuild, PollBad, PumpDone, PublishDrain,
                FeederStart, FeederFill, Poll, FeederStarve, PumpReplay, PumpFifo
  <2> QED
    BY <2>1, <2>2, <2>3, <2>4 DEF Next, Control, Feeder
<1>2. ASSUME NEW p \in From..trk.wr - 1
      PROVE  Content(p) = 0
  <2>1. /\ p \in trk.rd..trk.wr - 1 /\ p >= lastData
        /\ on => p # trk.rd
    <3>1. CASE on
      <4>1. From = eng + 1 /\ trk.rd >= lastData
        BY <1>1, <3>1 DEF From, AtBurstBoundary
      <4> QED
        BY <1>0, <3>1, <4>1
    <3>2. CASE ~on
      <4>1. From = 0 /\ lastData = 0
        BY <1>1, <3>2 DEF From, AtBurstBoundary
      <4> QED
        BY <1>0, <3>2, <4>1
    <3> QED
      BY <3>1, <3>2
  <2> QED
    BY <1>0, <2>1 DEF LastInv
<1> QED
  BY <1>2

THEOREM TransmitterAdvances == Spec => AdvanceAtBoundary
<1>1. PlaceInv /\ [Next]_vars
        => [active /\ adv' # adv => \A p \in From..trk.wr - 1 : Content(p) = 0]_vars
  BY AdvanceStep
<1> QED
  BY InitPlace, StepPlace, <1>1, PTL DEF Spec, AdvanceAtBoundary
-----------------------------------------------------------------------------
(* The idle prefix *)

(* The ring of a stopped engine begins with the idle slots that a start     *)
(* needs for the advance in effect; only while the feeder is not about to   *)
(* write or to start may they be missing.                                  *)
Prefixed ==
  /\ prefix = Pacing + 1 + adv /\ prefix =< trk.wr
  /\ \A p \in 0..prefix - 1 : Content(p) = 0

PrefixInv ==
  /\ fpc = "starve" => on
  /\ ~on => Prefixed \/ (prefix = 0 /\ trk.wr = 0 /\ fpc \notin {"pump", "start"})

LEMMA InitPrefix == Init => PrefixInv
BY DEF Init, Rewound, PrefixInv

(* Data written behind the prefix leaves it alone. *)
LEMMA DataKeepsPrefix ==
  ASSUME PlaceInv, PrefixInv, fpc = "pump", NEW seq \in Seq(Nat), DataWrite(seq),
         UNCHANGED <<prefix, adv>>
  PROVE  PrefixInv'
<1>1. on' = on /\ fpc' = fpc
  BY DEF DataWrite
<1>2. ASSUME ~on
      PROVE  Prefixed'
  <2> DEFINE v == trk'.wr
             w == trk.wr
             n == Len(seq)
  <2>1. Prefixed /\ trk.rd = 0 /\ w \in Nat /\ prefix \in Nat /\ n \in Nat
    BY <1>2 DEF PrefixInv, PlaceInv, TypeOK, TrackInv, Trackers
  <2>2. /\ v = w + n
        /\ \A p \in 0..v - 1 : Content(p)' = IF p < w THEN Content(p) ELSE seq[p - w + 1]
    BY <2>1 DEF DataWrite
  <2>3. prefix =< w /\ \A p \in 0..prefix - 1 : Content(p) = 0
    BY <2>1 DEF Prefixed
  <2> HIDE DEF v, w, n
  <2>4. prefix =< v /\ \A p \in 0..prefix - 1 : Content(p)' = 0
    BY <2>1, <2>2, <2>3
  <2>5. prefix' = Pacing + 1 + adv'
    BY <2>1 DEF Prefixed
  <2> QED
    BY <2>4, <2>5 DEF Prefixed, v
<1> QED
  BY <1>1, <1>2 DEF PrefixInv

LEMMA StepPrefix == PlaceInv /\ PrefixInv /\ [Next]_vars => PrefixInv'
<1> SUFFICES ASSUME PlaceInv, PrefixInv, [Next]_vars PROVE PrefixInv'
  OBVIOUS
<1> USE DEF fifoV, prodV, flagV, tuneV, envV, pubV, ringV, burstV, drainV, engV, statV
<1>0. /\ TypeOK /\ TrackInv /\ ControlInv /\ DistInv /\ SpaceInv /\ LastInv
      /\ replay \in Seq(Nat) /\ prefix \in Nat
  BY DEF PlaceInv, TypeOK
<1>1. ASSUME UNCHANGED <<trk, ring, prefix, adv, on>>,
             fpc' = "starve" => on,
             ~on /\ fpc' \in {"pump", "start"} => fpc \in {"pump", "start"}
      PROVE  PrefixInv'
  BY <1>1 DEF PrefixInv, Prefixed, Content
<1>2. ASSUME ResetRing, fpc' \notin {"pump", "start", "starve"}
      PROVE  PrefixInv'
  BY <1>2 DEF PrefixInv, ResetRing, Rewound
<1>3. CASE Producer \/ RequestRetune \/ PublishModel \/ StartClear \/ StopBegin
           \/ EngineStep \/ EngineFault \/ FaultClears \/ PrerollExpires \/ UNCHANGED vars
  <2>1. UNCHANGED <<trk, ring, prefix, adv, on, fpc>>
    BY <1>3 DEF Producer, WriteBegin, WritePush, EndBurst, RequestRetune, PublishModel,
                StartClear, StopBegin, EngineStep, EngineFault, FaultClears,
                PrerollExpires, vars
  <2> QED
    BY <1>1, <2>1 DEF PrefixInv
<1>4. CASE StartRun \/ StopFinish \/ RetuneRebuild
  BY <1>2, <1>4 DEF StartRun, StopFinish, RetuneRebuild
<1>5. CASE FeederExit \/ RetuneBegin \/ PollBad \/ PublishDrain \/ PumpDone
  BY <1>1, <1>5 DEF FeederExit, RetuneBegin, PollBad, PublishDrain, PumpDone
<1>6. CASE FeederTop \/ FeederAdvance
  <2>1. \/ UNCHANGED <<trk, ring, prefix, adv, on>>
        \/ ResetRing
        \/ UNCHANGED <<trk, ring, prefix, on>> /\ (on \/ prefix = 0)
    BY <1>6 DEF FeederTop, RefreshModel, FeederAdvance, ApplyAdvance, KeepAdvance
  <2>2. fpc' \in {"retune", "advance", "poll", "fill"}
    BY <1>6 DEF FeederTop, FeederAdvance
  <2>3. CASE UNCHANGED <<trk, ring, prefix, on>> /\ (on \/ prefix = 0)
    <3>1. ~on => prefix = 0 /\ trk.wr = 0
      <4>1. prefix = 0 => ~Prefixed
        <5>1. adv \in Nat
          BY <1>0, ConstantTypes DEF TypeOK
        <5> QED
          BY <5>1, ConstantTypes DEF Prefixed
      <4> QED
        BY <2>3, <4>1 DEF PrefixInv
    <3> QED
      BY <2>2, <2>3, <3>1 DEF PrefixInv
  <2> QED
    BY <1>1, <1>2, <2>1, <2>2, <2>3
<1>7. CASE FeederFill
  <2>1. fpc' = "pump" /\ UNCHANGED <<adv, on>> /\ ~on
    BY <1>0, <1>7 DEF FeederFill, TrackInv
  <2>2. CASE trk.wr = 0 /\ prefix = 0
    <3>1. /\ prefix' = Pacing + 1 + adv /\ prefix' \in Nat
          /\ prefix' =< N - 2 => trk'.wr = prefix'
          /\ \A p \in 0..trk'.wr - 1 : Content(p)' = 0
      BY <1>0, <1>7, <2>2, FillStep
    <3>2. prefix' =< N - 2
      BY <1>0, <3>1, TransmitterAssumption DEF TypeOK
    <3> QED
      BY <2>1, <3>1, <3>2 DEF PrefixInv, Prefixed
  <2>3. CASE ~ (trk.wr = 0 /\ prefix = 0)
    BY <1>7, <2>1, <2>3 DEF FeederFill, PrefixInv, Prefixed, Content
  <2> QED
    BY <2>2, <2>3
<1>8. CASE Poll \/ FeederStarve
  <2>1. on /\ on' = on /\ fpc' # "starve"
    BY <1>0, <1>8 DEF Poll, FeederStarve, TrackInv, PrefixInv
  <2> QED
    BY <2>1 DEF PrefixInv
<1>9. CASE PumpReplay
  <2>1. PICK m \in 1..Len(replay) : Replays(m)
    BY <1>0, <1>9, ReplayStep DEF LastInv
  <2>2. DataWrite(SubSeq(replay, 1, m)) /\ SubSeq(replay, 1, m) \in Seq(Nat)
    BY <1>0, <2>1 DEF Replays
  <2>3. UNCHANGED <<prefix, adv>> /\ fpc = "pump"
    BY <1>9 DEF PumpReplay
  <2> QED
    BY <2>2, <2>3, DataKeepsPrefix
<1>10. CASE PumpFifo
  <2>1. PICK m \in Nat \ {0} : Takes(m)
    BY <1>0, <1>10, TakeStep
  <2>2. DataWrite(SlotsOf(tail, m)) /\ SlotsOf(tail, m) \in Seq(Nat)
    <3>1. tail * K \in Nat /\ m * K \in Nat
      BY <1>0, ConstantTypes DEF TypeOK
    <3> QED
      BY <2>1, <3>1 DEF Takes, SlotsOf
  <2>3. UNCHANGED <<prefix, adv>> /\ fpc = "pump"
    BY <1>10 DEF PumpFifo
  <2> QED
    BY <2>2, <2>3, DataKeepsPrefix
<1>11. CASE FeederStart
  BY <1>11 DEF FeederStart, PrefixInv, Prefixed, Content
<1> QED
  BY <1>3, <1>4, <1>5, <1>6, <1>7, <1>8, <1>9, <1>10, <1>11
  DEF Next, Control, Feeder, Engine

(* Only the feeder's start decision starts the engine, on the idle prefix.  *)
LEMMA StartStep ==
  ASSUME PlaceInv, PrefixInv, Next, on', ~on
  PROVE  \A p \in 0..Pacing + adv : Content(p) = 0
<1> USE DEF fifoV, prodV, flagV, tuneV, envV, pubV, ringV, burstV, drainV, engV, statV
<1>1. FeederStart
  <2>1. ~ (Producer \/ Control \/ PrerollExpires \/ Engine)
    BY DEF Producer, WriteBegin, WritePush, EndBurst, Control, RequestRetune, PublishModel,
           StartClear, StartRun, StopBegin, StopFinish, PrerollExpires, Engine, EngineStep,
           EngineFault, FaultClears
  <2>2. ~ (FeederExit \/ FeederTop \/ RetuneBegin \/ RetuneRebuild \/ FeederAdvance
           \/ FeederFill \/ PollBad \/ Poll \/ PumpReplay \/ PumpFifo \/ PumpDone
           \/ FeederStarve \/ PublishDrain)
    BY DEF FeederExit, FeederTop, RetuneBegin, RetuneRebuild, FeederAdvance, FeederFill,
           PollBad, Poll, PumpReplay, PumpFifo, PumpDone, FeederStarve, PublishDrain
  <2> QED
    BY <2>1, <2>2 DEF Next, Feeder
<1>2. Prefixed /\ adv \in Nat /\ Pacing \in Nat
  BY <1>1, ConstantTypes DEF FeederStart, PrefixInv, PlaceInv, TypeOK
<1> QED
  BY <1>2 DEF Prefixed

THEOREM TransmitterStarts == Spec => StartsWithPrefix
<1>1. PlaceInv /\ PrefixInv /\ [Next]_vars
        => [on' /\ ~on => \A p \in 0..Pacing + adv : Content(p) = 0]_vars
  BY StartStep
<1> QED
  BY InitPlace, StepPlace, InitPrefix, StepPrefix, <1>1, PTL DEF Spec, StartsWithPrefix
-----------------------------------------------------------------------------
(* The path of the samples: the slots at positions f..w-1 of ring g, then   *)
(* the replay buffer rp                                                    *)

InRing(f, w, g, n) == \E p \in f..w - 1 : g[RingSlot(p)] = n
InReplay(rp, n)    == \E i \in 1..Len(rp) : rp[i] = n
OnPath(f, w, g, rp, n) == InRing(f, w, g, n) \/ InReplay(rp, n)

(* The data slots come in the order of their numbers. *)
Ordered(f, w, g, rp) ==
  /\ \A p, q \in f..w - 1 :
       p < q /\ g[RingSlot(p)] # 0 /\ g[RingSlot(q)] # 0 => g[RingSlot(p)] < g[RingSlot(q)]
  /\ \A i, j \in 1..Len(rp) : i < j /\ rp[i] # 0 /\ rp[j] # 0 => rp[i] < rp[j]
  /\ \A p \in f..w - 1, i \in 1..Len(rp) :
       g[RingSlot(p)] # 0 /\ rp[i] # 0 => g[RingSlot(p)] < rp[i]

(* No slot has a number beyond k. *)
Below(g, rp, k) ==
  /\ \A s \in 0..N - 1 : g[s] =< k
  /\ \A i \in 1..Len(rp) : rp[i] =< k

(* What follows a data slot on the path goes up to k without a gap. *)
Gapless(f, w, g, rp, k) ==
  \A n \in Nat \ {0} : OnPath(f, w, g, rp, n) => \A m \in n..k : OnPath(f, w, g, rp, m)

PathOK(f, w, g, rp, k) ==
  Ordered(f, w, g, rp) /\ Below(g, rp, k) /\ Gapless(f, w, g, rp, k)

(* A later number comes later. *)
LEMMA Onward ==
  ASSUME NEW f \in Int, NEW w \in Int, NEW g \in Rings, NEW rp \in Seq(Nat),
         Ordered(f, w, g, rp), NEW v \in Nat \ {0}, NEW n \in Nat, v =< n,
         OnPath(f, w, g, rp, n)
  PROVE  /\ \A p \in f..w - 1 : g[RingSlot(p)] = v => OnPath(p, w, g, rp, n)
         /\ InReplay(rp, v) => InReplay(rp, n)
<1>1. ASSUME NEW p \in f..w - 1, g[RingSlot(p)] = v, ~InReplay(rp, n)
      PROVE  InRing(p, w, g, n)
  <2>1. PICK q \in f..w - 1 : g[RingSlot(q)] = n
    BY <1>1 DEF OnPath, InRing
  <2>2. ~ (q < p)
    BY <1>1, <2>1 DEF Ordered
  <2>3. q \in p..w - 1
    BY <2>2
  <2> QED
    BY <2>1, <2>3 DEF InRing
<1>2. ASSUME InReplay(rp, v), ~InReplay(rp, n)
      PROVE  FALSE
  <2>1. PICK i \in 1..Len(rp) : rp[i] = v
    BY <1>2 DEF InReplay
  <2>2. PICK q \in f..w - 1 : g[RingSlot(q)] = n
    BY <1>2 DEF OnPath, InRing
  <2>3. n < v
    BY <2>1, <2>2 DEF Ordered
  <2> QED
    BY <2>3
<1> QED
  BY <1>1, <1>2 DEF OnPath

(* The front of the path is executed or skipped, idle slots are written     *)
(* at the end of the ring.                                                 *)
LEMMA TrimmedSlots ==
  ASSUME NEW f \in Int, NEW w \in Int, NEW g \in Rings, NEW rp \in Seq(Nat),
         NEW w2 \in Int, NEW g2 \in Rings, w =< w2,
         \A p \in f..w2 - 1 : g2[RingSlot(p)] = IF p < w THEN g[RingSlot(p)] ELSE 0,
         NEW n \in Nat \ {0}
  PROVE  OnPath(f, w2, g2, rp, n) <=> OnPath(f, w, g, rp, n)
<1>1. ASSUME NEW p \in f..w2 - 1, g2[RingSlot(p)] = n
      PROVE  InRing(f, w, g, n)
  <2>1. p < w /\ g[RingSlot(p)] = n
    BY <1>1
  <2>2. p \in f..w - 1
    BY <2>1
  <2> QED
    BY <2>1, <2>2 DEF InRing
<1>2. ASSUME NEW p \in f..w - 1, g[RingSlot(p)] = n
      PROVE  InRing(f, w2, g2, n)
  <2>1. p \in f..w2 - 1 /\ p < w
    OBVIOUS
  <2>2. g2[RingSlot(p)] = n
    BY <1>2, <2>1
  <2> QED
    BY <2>1, <2>2 DEF InRing
<1> QED
  BY <1>1, <1>2 DEF OnPath, InRing

LEMMA TrimmedPath ==
  ASSUME NEW f \in Int, NEW w \in Int, NEW g \in Rings, NEW rp \in Seq(Nat), NEW k \in Nat,
         PathOK(f, w, g, rp, k),
         NEW f2 \in Int, NEW w2 \in Int, NEW g2 \in Rings, f =< f2, w =< w2,
         \A p \in f2..w2 - 1 : g2[RingSlot(p)] = IF p < w THEN g[RingSlot(p)] ELSE 0,
         \A s \in 0..N - 1 : g2[s] \in {0, g[s]}
  PROVE  PathOK(f2, w2, g2, rp, k)
<1>1. /\ Ordered(f, w, g, rp) /\ Below(g, rp, k) /\ Gapless(f, w, g, rp, k)
  BY DEF PathOK
<1>2. ASSUME NEW p \in f2..w2 - 1, g2[RingSlot(p)] # 0
      PROVE  p \in f..w - 1 /\ g2[RingSlot(p)] = g[RingSlot(p)]
  BY <1>2
<1>3. Ordered(f2, w2, g2, rp)
  BY <1>1, <1>2 DEF Ordered
<1>4. Below(g2, rp, k)
  BY <1>1 DEF Below
<1>5. \A n \in Nat \ {0} : OnPath(f2, w2, g2, rp, n) <=> OnPath(f2, w, g, rp, n)
  BY TrimmedSlots, Zenon
<1>6. ASSUME NEW n \in Nat \ {0}, OnPath(f2, w2, g2, rp, n), NEW m \in n..k
      PROVE  OnPath(f2, w2, g2, rp, m)
  <2>1. m \in Nat \ {0} /\ n =< m
    OBVIOUS
  <2>2. OnPath(f2, w, g, rp, n)
    BY <1>5, <1>6
  <2>3. OnPath(f2, w, g, rp, m)
    <3>1. CASE InReplay(rp, n)
      <4>1. OnPath(f, w, g, rp, n)
        BY <3>1 DEF OnPath
      <4>2. OnPath(f, w, g, rp, m)
        BY <1>1, <4>1 DEF Gapless
      <4> QED
        BY <1>1, <2>1, <3>1, <4>2, Onward DEF OnPath
    <3>2. CASE InRing(f2, w, g, n)
      <4>1. PICK p \in f2..w - 1 : g[RingSlot(p)] = n
        BY <3>2 DEF InRing
      <4>2. p \in f..w - 1
        OBVIOUS
      <4>3. OnPath(f, w, g, rp, n)
        BY <4>1, <4>2 DEF OnPath, InRing
      <4>4. OnPath(f, w, g, rp, m)
        BY <1>1, <4>3 DEF Gapless
      <4>5. OnPath(p, w, g, rp, m)
        BY <1>1, <2>1, <4>1, <4>2, <4>4, Onward
      <4>6. \A q \in p..w - 1 : q \in f2..w - 1
        OBVIOUS
      <4> QED
        BY <4>5, <4>6 DEF OnPath, InRing
    <3> QED
      BY <2>2, <3>1, <3>2 DEF OnPath
  <2> QED
    BY <1>5, <2>1, <2>3
<1>7. Gapless(f2, w2, g2, rp, k)
  BY <1>6 DEF Gapless
<1> QED
  BY <1>3, <1>4, <1>7 DEF PathOK

(* Slots of the replay buffer move to the end of the ring. *)
LEMMA ReplayedSlots ==
  ASSUME NEW f \in Int, NEW w \in Int, NEW g \in Rings, NEW rp \in Seq(Nat),
         NEW m \in 1..Len(rp), NEW w2 \in Int, NEW g2 \in Rings, f =< w, w2 = w + m,
         \A p \in f..w2 - 1 :
           g2[RingSlot(p)] = IF p < w THEN g[RingSlot(p)] ELSE rp[p - w + 1],
         NEW n \in Nat
  PROVE  OnPath(f, w2, g2, SubSeq(rp, m + 1, Len(rp)), n) <=> OnPath(f, w, g, rp, n)
<1> DEFINE rest == SubSeq(rp, m + 1, Len(rp))
           l == Len(rp)
<1>1. /\ l \in Nat /\ m \in Nat /\ m =< l
      /\ rest \in Seq(Nat) /\ Len(rest) = l - m
      /\ \A i \in 1..l - m : rest[i] = rp[i + m]
  OBVIOUS
<1> HIDE DEF rest
<1>2. ASSUME NEW p \in f..w2 - 1, g2[RingSlot(p)] = n
      PROVE  OnPath(f, w, g, rp, n)
  <2>1. CASE p < w
    <3>1. p \in f..w - 1 /\ g[RingSlot(p)] = n
      BY <1>2, <2>1
    <3> QED
      BY <3>1 DEF OnPath, InRing
  <2>2. CASE ~ (p < w)
    <3>1. p - w + 1 \in 1..l /\ rp[p - w + 1] = n
      BY <1>1, <1>2, <2>2
    <3> QED
      BY <3>1 DEF OnPath, InReplay
  <2> QED
    BY <2>1, <2>2
<1>3. ASSUME NEW i \in 1..Len(rest), rest[i] = n
      PROVE  OnPath(f, w, g, rp, n)
  <2>1. i + m \in 1..l /\ rp[i + m] = n
    BY <1>1, <1>3
  <2> QED
    BY <2>1 DEF OnPath, InReplay
<1>4. ASSUME NEW p \in f..w - 1, g[RingSlot(p)] = n
      PROVE  OnPath(f, w2, g2, rest, n)
  <2>1. p \in f..w2 - 1 /\ p < w
    BY <1>1
  <2>2. g2[RingSlot(p)] = n
    BY <1>4, <2>1
  <2> QED
    BY <2>1, <2>2 DEF OnPath, InRing
<1>5. ASSUME NEW i \in 1..l, rp[i] = n
      PROVE  OnPath(f, w2, g2, rest, n)
  <2>1. CASE i =< m
    <3> DEFINE p == w + i - 1
    <3>1. p \in f..w2 - 1 /\ ~ (p < w) /\ p - w + 1 = i
      BY <1>1, <2>1
    <3> HIDE DEF p
    <3>2. g2[RingSlot(p)] = n
      BY <1>5, <3>1
    <3> QED
      BY <3>1, <3>2 DEF OnPath, InRing
  <2>2. CASE ~ (i =< m)
    <3>1. i - m \in 1..l - m /\ (i - m) + m = i
      BY <1>1, <2>2
    <3>2. rest[i - m] = n
      BY <1>1, <1>5, <3>1
    <3> QED
      BY <1>1, <3>1, <3>2 DEF OnPath, InReplay
  <2> QED
    BY <2>1, <2>2
<1>6. OnPath(f, w2, g2, rest, n) <=> OnPath(f, w, g, rp, n)
  BY <1>2, <1>3, <1>4, <1>5 DEF OnPath, InRing, InReplay
<1> QED
  BY <1>6 DEF rest

LEMMA ReplayedPath ==
  ASSUME NEW f \in Int, NEW w \in Int, NEW g \in Rings, NEW rp \in Seq(Nat), NEW k \in Nat,
         PathOK(f, w, g, rp, k),
         NEW m \in 1..Len(rp), NEW w2 \in Int, NEW g2 \in Rings, f =< w, w2 = w + m,
         \A p \in f..w2 - 1 :
           g2[RingSlot(p)] = IF p < w THEN g[RingSlot(p)] ELSE rp[p - w + 1],
         \A s \in 0..N - 1 : g2[s] = g[s] \/ \E i \in 1..m : g2[s] = rp[i]
  PROVE  PathOK(f, w2, g2, SubSeq(rp, m + 1, Len(rp)), k)
<1> DEFINE rest == SubSeq(rp, m + 1, Len(rp))
           l == Len(rp)
<1>1. /\ l \in Nat /\ m \in Nat /\ m =< l
      /\ rest \in Seq(Nat) /\ Len(rest) = l - m
      /\ \A i \in 1..l - m : rest[i] = rp[i + m] /\ i + m \in 1..l
  OBVIOUS
<1>2. /\ Ordered(f, w, g, rp) /\ Below(g, rp, k) /\ Gapless(f, w, g, rp, k)
  BY DEF PathOK
<1>3. ASSUME NEW n \in Nat
      PROVE  OnPath(f, w2, g2, rest, n) <=> OnPath(f, w, g, rp, n)
  BY ReplayedSlots
<1> HIDE DEF rest
<1>0. ASSUME NEW p \in f..w2 - 1, p < w
      PROVE  p \in f..w - 1 /\ g2[RingSlot(p)] = g[RingSlot(p)]
  <2>1. p \in f..w - 1
    BY <1>0
  <2>2. g2[RingSlot(p)] = g[RingSlot(p)]
    BY <1>0
  <2> QED
    BY <2>1, <2>2
<1>4. ASSUME NEW p \in f..w2 - 1, ~ (p < w)
      PROVE  /\ p - w + 1 \in 1..l /\ p - w + 1 \in 1..m
             /\ g2[RingSlot(p)] = rp[p - w + 1]
  <2>1. p - w + 1 \in 1..m /\ p - w + 1 \in 1..l
    <3> HIDE DEF l
    <3> QED
      BY <1>1, <1>4
  <2>2. g2[RingSlot(p)] = rp[p - w + 1]
    BY <1>4
  <2> QED
    BY <2>1, <2>2
<1>5. ASSUME NEW p \in f..w2 - 1, NEW q \in f..w2 - 1, p < q,
             g2[RingSlot(p)] # 0, g2[RingSlot(q)] # 0
      PROVE  g2[RingSlot(p)] < g2[RingSlot(q)]
  <2>1. CASE q < w
    <3>1. p < w
      BY <1>5, <2>1
    <3>2. /\ p \in f..w - 1 /\ g2[RingSlot(p)] = g[RingSlot(p)]
          /\ q \in f..w - 1 /\ g2[RingSlot(q)] = g[RingSlot(q)]
      BY <1>0, <2>1, <3>1
    <3> QED
      BY <1>2, <1>5, <3>2 DEF Ordered
  <2>2. CASE p < w /\ ~ (q < w)
    <3>1. /\ p \in f..w - 1 /\ g2[RingSlot(p)] = g[RingSlot(p)]
          /\ q - w + 1 \in 1..l /\ g2[RingSlot(q)] = rp[q - w + 1]
      BY <1>0, <1>4, <2>2
    <3> QED
      BY <1>2, <1>5, <3>1 DEF Ordered
  <2>3. CASE ~ (p < w)
    <3>1. /\ p - w + 1 \in 1..l /\ g2[RingSlot(p)] = rp[p - w + 1]
          /\ q - w + 1 \in 1..l /\ g2[RingSlot(q)] = rp[q - w + 1]
          /\ p - w + 1 < q - w + 1
      <4>1. ~ (q < w) /\ p - w + 1 < q - w + 1
        BY <1>5, <2>3
      <4> QED
        BY <1>4, <2>3, <4>1
    <3> QED
      BY <1>2, <1>5, <3>1 DEF Ordered
  <2> QED
    BY <2>1, <2>2, <2>3
<1>6. ASSUME NEW i \in 1..Len(rest), NEW j \in 1..Len(rest), i < j, rest[i] # 0, rest[j] # 0
      PROVE  rest[i] < rest[j]
  <2>1. i \in 1..l - m /\ j \in 1..l - m /\ i + m < j + m
    <3> HIDE DEF l
    <3> QED
      BY <1>1, <1>6
  <2>2. /\ rest[i] = rp[i + m] /\ i + m \in 1..l
        /\ rest[j] = rp[j + m] /\ j + m \in 1..l
    BY <1>1, <2>1
  <2> QED
    BY <1>2, <1>6, <2>1, <2>2 DEF Ordered
<1>7. ASSUME NEW p \in f..w2 - 1, NEW i \in 1..Len(rest), g2[RingSlot(p)] # 0, rest[i] # 0
      PROVE  g2[RingSlot(p)] < rest[i]
  <2>1. rest[i] = rp[i + m] /\ i + m \in 1..l
    BY <1>1
  <2>2. CASE p < w
    <3>1. p \in f..w - 1 /\ g2[RingSlot(p)] = g[RingSlot(p)]
      BY <1>0, <2>2
    <3> QED
      BY <1>2, <1>7, <2>1, <3>1 DEF Ordered
  <2>3. CASE ~ (p < w)
    <3>1. /\ p - w + 1 \in 1..l /\ g2[RingSlot(p)] = rp[p - w + 1]
          /\ p - w + 1 < i + m
      <4>1. p - w + 1 \in 1..m /\ p - w + 1 \in 1..l /\ g2[RingSlot(p)] = rp[p - w + 1]
        BY <1>4, <2>3
      <4>2. i \in Nat /\ i >= 1 /\ m \in Nat
        BY <1>1
      <4> QED
        BY <4>1, <4>2
    <3> QED
      BY <1>2, <1>7, <2>1, <3>1 DEF Ordered
  <2> QED
    BY <2>2, <2>3
<1>8. Ordered(f, w2, g2, rest)
  BY <1>5, <1>6, <1>7 DEF Ordered
<1>9. Below(g2, rest, k)
  <2>1. ASSUME NEW s \in 0..N - 1 PROVE g2[s] =< k
    <3>1. \A i \in 1..m : i \in 1..l
      BY <1>1
    <3> QED
      BY <1>2, <3>1 DEF Below
  <2>2. ASSUME NEW i \in 1..Len(rest) PROVE rest[i] =< k
    BY <1>1, <1>2 DEF Below
  <2> QED
    BY <2>1, <2>2 DEF Below
<1>10. Gapless(f, w2, g2, rest, k)
  <2>1. ASSUME NEW n \in Nat \ {0}, OnPath(f, w2, g2, rest, n), NEW j \in n..k
        PROVE  OnPath(f, w2, g2, rest, j)
    <3>1. j \in Nat /\ n \in Nat
      OBVIOUS
    <3>2. OnPath(f, w, g, rp, j)
      BY <1>2, <1>3, <2>1, <3>1 DEF Gapless
    <3> QED
      BY <1>3, <3>1, <3>2
  <2> QED
    BY <2>1 DEF Gapless
<1>11. PathOK(f, w2, g2, rest, k)
  BY <1>8, <1>9, <1>10 DEF PathOK
<1> QED
  BY <1>11 DEF rest
-----------------------------------------------------------------------------
(* The next slots up to number k2 are written at the end of the ring, while *)
(* nothing waits to be replayed.                                           *)
LEMMA TakenSlots ==
  ASSUME NEW f \in Int, NEW w \in Int, NEW g \in Rings, NEW k \in Nat, NEW k2 \in Nat,
         k =< k2, NEW w2 \in Int, NEW g2 \in Rings, f =< w, w2 = w + (k2 - k),
         \A p \in f..w2 - 1 :
           g2[RingSlot(p)] = IF p < w THEN g[RingSlot(p)] ELSE k + (p - w + 1),
         NEW n \in Nat
  PROVE  OnPath(f, w2, g2, <<>>, n) <=> (OnPath(f, w, g, <<>>, n) \/ n \in k + 1..k2)
<1>1. ASSUME NEW p \in f..w2 - 1, g2[RingSlot(p)] = n
      PROVE  InRing(f, w, g, n) \/ n \in k + 1..k2
  <2>1. CASE p < w
    <3>1. p \in f..w - 1 /\ g[RingSlot(p)] = n
      BY <1>1, <2>1
    <3> QED
      BY <3>1 DEF InRing
  <2>2. CASE ~ (p < w)
    <3>1. n = k + (p - w + 1)
      BY <1>1, <2>2
    <3> QED
      BY <2>2, <3>1
  <2> QED
    BY <2>1, <2>2
<1>2. ASSUME NEW p \in f..w - 1, g[RingSlot(p)] = n
      PROVE  InRing(f, w2, g2, n)
  <2>1. p \in f..w2 - 1 /\ p < w
    BY <1>2
  <2>2. g2[RingSlot(p)] = n
    BY <1>2, <2>1
  <2> QED
    BY <2>1, <2>2 DEF InRing
<1>3. ASSUME n \in k + 1..k2
      PROVE  InRing(f, w2, g2, n)
  <2> DEFINE p == w + (n - k) - 1
  <2>1. p \in f..w2 - 1 /\ ~ (p < w) /\ k + (p - w + 1) = n
    BY <1>3
  <2> HIDE DEF p
  <2>2. g2[RingSlot(p)] = n
    BY <2>1
  <2> QED
    BY <2>1, <2>2 DEF InRing
<1>4. ~InReplay(<<>>, n)
  BY DEF InReplay
<1> QED
  BY <1>1, <1>2, <1>3, <1>4 DEF OnPath, InRing

LEMMA TakenPath ==
  ASSUME NEW f \in Int, NEW w \in Int, NEW g \in Rings, NEW k \in Nat, NEW k2 \in Nat,
         k =< k2, PathOK(f, w, g, <<>>, k),
         NEW w2 \in Int, NEW g2 \in Rings, f =< w, w2 = w + (k2 - k),
         \A p \in f..w2 - 1 :
           g2[RingSlot(p)] = IF p < w THEN g[RingSlot(p)] ELSE k + (p - w + 1),
         \A s \in 0..N - 1 : g2[s] = g[s] \/ g2[s] =< k2
  PROVE  PathOK(f, w2, g2, <<>>, k2)
<1>1. /\ Ordered(f, w, g, <<>>) /\ Below(g, <<>>, k) /\ Gapless(f, w, g, <<>>, k)
  BY DEF PathOK
<1>2. ASSUME NEW n \in Nat
      PROVE  OnPath(f, w2, g2, <<>>, n) <=> (OnPath(f, w, g, <<>>, n) \/ n \in k + 1..k2)
  BY TakenSlots
<1>3. ASSUME NEW p \in f..w2 - 1, p < w
      PROVE  p \in f..w - 1 /\ g2[RingSlot(p)] = g[RingSlot(p)] /\ g[RingSlot(p)] =< k
  <2>0. p \in f..w - 1 /\ p \in Int
    BY <1>3
  <2>1. p \in f..w - 1 /\ RingSlot(p) \in 0..N - 1
    BY <2>0, SlotType
  <2>2. g2[RingSlot(p)] = g[RingSlot(p)]
    BY <1>3
  <2> QED
    BY <1>1, <2>1, <2>2 DEF Below
<1>4. ASSUME NEW p \in f..w2 - 1, ~ (p < w)
      PROVE  g2[RingSlot(p)] = k + (p - w + 1)
  BY <1>4
<1>5. ASSUME NEW p \in f..w2 - 1, NEW q \in f..w2 - 1, p < q,
             g2[RingSlot(p)] # 0, g2[RingSlot(q)] # 0
      PROVE  g2[RingSlot(p)] < g2[RingSlot(q)]
  <2>1. CASE q < w
    <3>1. p < w
      BY <1>5, <2>1
    <3>2. /\ p \in f..w - 1 /\ g2[RingSlot(p)] = g[RingSlot(p)]
          /\ q \in f..w - 1 /\ g2[RingSlot(q)] = g[RingSlot(q)]
      BY <1>3, <2>1, <3>1
    <3> QED
      BY <1>1, <1>5, <3>2 DEF Ordered
  <2>2. CASE p < w /\ ~ (q < w)
    <3>1. g2[RingSlot(p)] =< k
      BY <1>3, <2>2
    <3>2. g2[RingSlot(q)] = k + (q - w + 1)
      BY <1>4, <2>2
    <3>3. RingSlot(p) \in 0..N - 1
      <4>1. p \in Int
        OBVIOUS
      <4> QED
        BY <4>1, SlotType
    <3>4. g2[RingSlot(p)] \in Nat
      BY <3>3 DEF Rings
    <3> QED
      BY <2>2, <3>1, <3>2, <3>4
  <2>3. CASE ~ (p < w)
    <3>1. ~ (q < w)
      BY <1>5, <2>3
    <3>2. g2[RingSlot(p)] = k + (p - w + 1) /\ g2[RingSlot(q)] = k + (q - w + 1)
      BY <1>4, <2>3, <3>1
    <3> QED
      BY <1>5, <3>2
  <2> QED
    BY <2>1, <2>2, <2>3
<1>6. Ordered(f, w2, g2, <<>>)
  BY <1>5 DEF Ordered
<1>7. Below(g2, <<>>, k2)
  <2>1. ASSUME NEW s \in 0..N - 1 PROVE g2[s] =< k2
    <3>1. g[s] =< k /\ g[s] \in Nat
      BY <1>1 DEF Below, Rings
    <3> QED
      BY <3>1
  <2> QED
    BY <2>1 DEF Below
<1>8. Gapless(f, w2, g2, <<>>, k2)
  <2>1. ASSUME NEW n \in Nat \ {0}, OnPath(f, w2, g2, <<>>, n), NEW j \in n..k2
        PROVE  OnPath(f, w2, g2, <<>>, j)
    <3>1. j \in Nat /\ n \in Nat
      OBVIOUS
    <3>2. CASE j =< k
      <4>1. OnPath(f, w, g, <<>>, n) /\ j \in n..k
        BY <1>2, <2>1, <3>1, <3>2
      <4>2. OnPath(f, w, g, <<>>, j)
        BY <1>1, <4>1 DEF Gapless
      <4> QED
        BY <1>2, <3>1, <4>2
    <3>3. CASE ~ (j =< k)
      <4>1. j \in k + 1..k2
        BY <3>3
      <4> QED
        BY <1>2, <3>1, <4>1
    <3> QED
      BY <3>2, <3>3
  <2> QED
    BY <2>1 DEF Gapless
<1> QED
  BY <1>6, <1>7, <1>8 DEF PathOK

(* A ring of idle slots and nothing to replay. *)
LEMMA EmptyPath ==
  ASSUME NEW f \in Int, NEW w \in Int, NEW g \in Rings, NEW k \in Nat,
         \A s \in 0..N - 1 : g[s] = 0
  PROVE  PathOK(f, w, g, <<>>, k)
<1>1. \A p \in f..w - 1 : g[RingSlot(p)] = 0
  <2> TAKE p \in f..w - 1
  <2>1. RingSlot(p) \in 0..N - 1
    BY SlotType
  <2> QED
    BY <2>1
<1>2. \A n \in Nat \ {0} : ~OnPath(f, w, g, <<>>, n)
  BY <1>1 DEF OnPath, InRing, InReplay
<1> QED
  BY <1>1, <1>2 DEF PathOK, Ordered, Below, Gapless

(* The ring is rebuilt: seq holds the slots from position r on without the  *)
(* idle ones in front and behind, and goes in front of the replay buffer.   *)
Kept(r, first, seq, w, g) ==
  /\ r =< first /\ (Len(seq) = 0 \/ first + Len(seq) =< w)
  /\ \A i \in 1..Len(seq) : seq[i] = g[RingSlot(first + i - 1)]
  /\ \A p \in r..w - 1 : g[RingSlot(p)] # 0 => first =< p /\ p < first + Len(seq)

LEMMA RebuiltSlots ==
  ASSUME NEW w \in Int, NEW g \in Rings, NEW rp \in Seq(Nat),
         NEW r \in Int, NEW first \in Int, NEW seq \in Seq(Nat),
         Kept(r, first, seq, w, g),
         NEW g2 \in Rings, \A s \in 0..N - 1 : g2[s] = 0,
         NEW n \in Nat \ {0}
  PROVE  /\ InReplay(seq, n) <=> InRing(r, w, g, n)
         /\ OnPath(0, 0, g2, seq \o rp, n) <=> OnPath(r, w, g, rp, n)
<1> DEFINE l == Len(seq)
           m == Len(rp)
           all == seq \o rp
<1>1. /\ l \in Nat /\ m \in Nat /\ all \in Seq(Nat) /\ Len(all) = l + m
      /\ \A i \in 1..l + m : all[i] = IF i =< l THEN seq[i] ELSE rp[i - l]
  OBVIOUS
<1>0. /\ r =< first /\ (Len(seq) = 0 \/ first + Len(seq) =< w)
      /\ \A i \in 1..Len(seq) : seq[i] = g[RingSlot(first + i - 1)]
      /\ \A p \in r..w - 1 : g[RingSlot(p)] # 0 => first =< p /\ p < first + Len(seq)
  BY DEF Kept
<1> HIDE DEF all
<1>2. ~InRing(0, 0, g2, n)
  BY DEF InRing
<1>3. InReplay(seq, n) => InRing(r, w, g, n)
  <2> SUFFICES ASSUME NEW i \in 1..l, seq[i] = n
               PROVE  InRing(r, w, g, n)
    BY DEF InReplay
  <2> DEFINE p == first + i - 1
  <2>1. p \in r..w - 1
    <3> HIDE DEF l
    <3>1. l \in Nat /\ (l = 0 \/ first + l =< w)
      BY <1>0, <1>1 DEF l
    <3> QED
      BY <1>0, <3>1
  <2>2. g[RingSlot(p)] = n
    BY <1>0
  <2> HIDE DEF p
  <2> QED
    BY <2>1, <2>2 DEF InRing
<1>4. InRing(r, w, g, n) => InReplay(seq, n)
  <2> SUFFICES ASSUME NEW p \in r..w - 1, g[RingSlot(p)] = n
               PROVE  InReplay(seq, n)
    BY DEF InRing
  <2> DEFINE i == p - first + 1
  <2>1. first =< p /\ p < first + l
    BY <1>0
  <2>2. i \in 1..l /\ first + i - 1 = p
    <3> HIDE DEF l
    <3> QED
      BY <1>1, <2>1
  <2> HIDE DEF i
  <2>3. seq[i] = n
    BY <1>0, <2>2
  <2> QED
    BY <2>2, <2>3 DEF InReplay
<1>5. InReplay(all, n) <=> (InReplay(seq, n) \/ InReplay(rp, n))
  <2>1. ASSUME NEW i \in 1..Len(all), all[i] = n
        PROVE  InReplay(seq, n) \/ InReplay(rp, n)
    <3>1. CASE i =< l
      <4>1. i \in 1..l /\ seq[i] = n
        BY <1>1, <2>1, <3>1
      <4> QED
        BY <4>1 DEF InReplay
    <3>2. CASE ~ (i =< l)
      <4> HIDE DEF l, m
      <4>1. i - l \in 1..m /\ rp[i - l] = n
        BY <1>1, <2>1, <3>2
      <4> QED
        BY <4>1 DEF InReplay, m
    <3> QED
      BY <3>1, <3>2
  <2>2. ASSUME NEW i \in 1..l, seq[i] = n
        PROVE  InReplay(all, n)
    <3> HIDE DEF l, m
    <3>1. i \in 1..Len(all) /\ i \in 1..l + m /\ i =< l
      BY <1>1, <2>2
    <3>2. all[i] = n
      BY <1>1, <2>2, <3>1
    <3> QED
      BY <3>1, <3>2 DEF InReplay
  <2>3. ASSUME NEW i \in 1..m, rp[i] = n
        PROVE  InReplay(all, n)
    <3> HIDE DEF l, m
    <3>1. i + l \in 1..l + m /\ ~ (i + l =< l) /\ (i + l) - l = i
      BY <1>1, <2>3
    <3>2. all[i + l] = n
      BY <1>1, <2>3, <3>1
    <3> QED
      BY <1>1, <3>1, <3>2 DEF InReplay
  <2> QED
    BY <2>1, <2>2, <2>3 DEF InReplay
<1> QED
  BY <1>2, <1>3, <1>4, <1>5 DEF OnPath, all

LEMMA RebuiltPath ==
  ASSUME NEW f \in Int, NEW w \in Int, NEW g \in Rings, NEW rp \in Seq(Nat), NEW k \in Nat,
         PathOK(f, w, g, rp, k),
         NEW r \in Int, NEW first \in Int, NEW seq \in Seq(Nat), f =< r,
         Kept(r, first, seq, w, g),
         NEW g2 \in Rings, \A s \in 0..N - 1 : g2[s] = 0
  PROVE  PathOK(0, 0, g2, seq \o rp, k)
<1> DEFINE l == Len(seq)
           m == Len(rp)
           all == seq \o rp
<1>1. /\ l \in Nat /\ m \in Nat /\ all \in Seq(Nat) /\ Len(all) = l + m
      /\ \A i \in 1..l + m : all[i] = IF i =< l THEN seq[i] ELSE rp[i - l]
  OBVIOUS
<1>0. /\ r =< first /\ (Len(seq) = 0 \/ first + Len(seq) =< w)
      /\ \A i \in 1..Len(seq) : seq[i] = g[RingSlot(first + i - 1)]
  BY DEF Kept
<1>2. /\ Ordered(f, w, g, rp) /\ Below(g, rp, k) /\ Gapless(f, w, g, rp, k)
  BY DEF PathOK
<1>3. ASSUME NEW n \in Nat \ {0}
      PROVE  OnPath(0, 0, g2, all, n) <=> OnPath(r, w, g, rp, n)
  BY RebuiltSlots
<1> HIDE DEF all
<1>4. ASSUME NEW i \in 1..l + m, i =< l
      PROVE  /\ first + i - 1 \in f..w - 1
             /\ all[i] = g[RingSlot(first + i - 1)]
  <2>1. i \in 1..l
    BY <1>1, <1>4
  <2>2. first + i - 1 \in f..w - 1
    <3> HIDE DEF l
    <3>1. l \in Nat /\ (l = 0 \/ first + l =< w)
      BY <1>0, <1>1 DEF l
    <3> QED
      BY <1>0, <2>1, <3>1
  <2> QED
    BY <1>0, <1>1, <1>4, <2>1, <2>2
<1>5. ASSUME NEW i \in 1..l + m, ~ (i =< l)
      PROVE  i - l \in 1..m /\ all[i] = rp[i - l]
  <2>1. all[i] = rp[i - l]
    BY <1>1, <1>5
  <2> HIDE DEF l, m
  <2>2. i - l \in 1..m
    BY <1>1, <1>5
  <2> QED
    BY <2>1, <2>2
<1>6. ASSUME NEW i \in 1..l + m, NEW j \in 1..l + m, i < j, all[i] # 0, all[j] # 0
      PROVE  all[i] < all[j]
  <2>0. i \in Int /\ j \in Int /\ l \in Int
    BY <1>1
  <2>1. CASE j =< l
    <3> DEFINE p == first + i - 1
               q == first + j - 1
    <3>1. i =< l /\ p < q
      <4> HIDE DEF l
      <4> QED
        BY <1>6, <2>0, <2>1
    <3>2. p \in f..w - 1 /\ q \in f..w - 1 /\ all[i] = g[RingSlot(p)] /\ all[j] = g[RingSlot(q)]
      BY <1>4, <2>1, <3>1
    <3> HIDE DEF p, q
    <3> QED
      BY <1>2, <1>6, <3>1, <3>2 DEF Ordered
  <2>2. CASE i =< l /\ ~ (j =< l)
    <3> DEFINE p == first + i - 1
    <3>1. p \in f..w - 1 /\ all[i] = g[RingSlot(p)]
      BY <1>4, <2>2
    <3>2. j - l \in 1..m /\ all[j] = rp[j - l]
      BY <1>5, <2>2
    <3> HIDE DEF p
    <3> QED
      BY <1>2, <1>6, <3>1, <3>2 DEF Ordered
  <2>3. CASE ~ (i =< l)
    <3>1. ~ (j =< l) /\ i - l < j - l
      <4> HIDE DEF l
      <4> QED
        BY <1>6, <2>0, <2>3
    <3>2. /\ i - l \in 1..m /\ all[i] = rp[i - l]
          /\ j - l \in 1..m /\ all[j] = rp[j - l]
      BY <1>5, <2>3, <3>1
    <3> QED
      BY <1>2, <1>6, <3>1, <3>2 DEF Ordered
  <2> QED
    BY <2>1, <2>2, <2>3
<1>7. Ordered(0, 0, g2, all)
  <2>1. \A p \in 0..0 - 1 : FALSE
    OBVIOUS
  <2> QED
    BY <1>1, <1>6, <2>1 DEF Ordered
<1>8. Below(g2, all, k)
  <2>1. ASSUME NEW i \in 1..l + m PROVE all[i] =< k
    <3>1. CASE i =< l
      <4>0. first + i - 1 \in Int
        OBVIOUS
      <4>1. RingSlot(first + i - 1) \in 0..N - 1
        BY <4>0, SlotType
      <4> QED
        BY <1>2, <1>4, <3>1, <4>1 DEF Below
    <3>2. CASE ~ (i =< l)
      BY <1>2, <1>5, <3>2 DEF Below
    <3> QED
      BY <3>1, <3>2
  <2> QED
    BY <1>1, <2>1 DEF Below
<1>9. Gapless(0, 0, g2, all, k)
  <2>1. ASSUME NEW n \in Nat \ {0}, OnPath(0, 0, g2, all, n), NEW j \in n..k
        PROVE  OnPath(0, 0, g2, all, j)
    <3>1. j \in Nat \ {0}
      OBVIOUS
    <3>2. OnPath(r, w, g, rp, n)
      BY <1>3, <2>1
    <3>3. PathOK(r, w, g, rp, k)
      <4>1. /\ \A p \in r..w - 1 :
                  g[RingSlot(p)] = IF p < w THEN g[RingSlot(p)] ELSE 0
            /\ \A s \in 0..N - 1 : g[s] \in {0, g[s]}
            /\ w =< w
        OBVIOUS
      <4> QED
        BY <4>1, TrimmedPath
    <3>4. OnPath(r, w, g, rp, j)
      BY <3>2, <3>3 DEF PathOK, Gapless
    <3> QED
      BY <1>3, <3>1, <3>4
  <2> QED
    BY <2>1 DEF Gapless
<1>10. PathOK(0, 0, g2, all, k)
  BY <1>7, <1>8, <1>9 DEF PathOK
<1> QED
  BY <1>10 DEF all
-----------------------------------------------------------------------------
(* Nothing is lost, doubled or reordered *)

(* Without stalls the path of the samples begins at the tracked position:   *)
(* a rebuild that has no valid position to go by starts there.  A feeder    *)
(* that stalls for laps leaves behind it what is executed more than once;   *)
(* the path is then what is ahead of the engine, and nothing may rebuild.   *)
PathFrom == IF ShortStalls THEN trk.rd ELSE From

PathInv ==
  /\ PathOK(PathFrom, trk.wr, ring, replay, tail * K)
  /\ sent =< tail * K
  /\ \A n \in sent + 1..tail * K : OnPath(From, trk.wr, ring, replay, n)

(* The engine does not reach the writer between a poll and the writes that  *)
(* follow it.                                                              *)
WriterAhead == on /\ fpc = "pump" => eng < trk.wr

Places ==
  /\ trk.rd \in Nat /\ trk.wr \in Nat /\ trk.rd =< trk.wr /\ eng \in Nat
  /\ ring \in Rings /\ replay \in Seq(Nat) /\ sent \in Nat /\ lastData \in Nat
  /\ head \in Nat /\ tail \in Nat /\ tail * K \in Nat /\ head * K \in Nat
  /\ PathFrom \in Nat /\ From \in Nat /\ trk.rd =< PathFrom /\ PathFrom =< From
  /\ on => trk.rd < From
  /\ ~on => trk.rd = 0 /\ From = 0 /\ PathFrom = 0

LEMMA PathPlaces == PlaceInv => Places
<1> SUFFICES ASSUME PlaceInv PROVE Places
  OBVIOUS
<1>1. /\ trk.rd \in Nat /\ trk.wr \in Nat /\ trk.rd =< trk.wr /\ eng \in Nat
      /\ ring \in Rings /\ replay \in Seq(Nat) /\ sent \in Nat /\ lastData \in Nat
      /\ head \in Nat /\ tail \in Nat /\ trk.rd =< eng
      /\ ~on => trk.rd = 0
  BY DEF PlaceInv, TypeOK, Trackers, Rings, SpaceInv, Spaced, TrackInv
<1>2. tail * K \in Nat /\ head * K \in Nat
  BY <1>1, ConstantTypes
<1> QED
  BY <1>1, <1>2 DEF Places, PathFrom, From

LEMMA NextPlaces == PlaceInv' => Places'
BY PathPlaces, PTL

LEMMA SameStalls == ShortStalls' <=> ShortStalls
BY DEF ShortStalls, Reach

LEMMA InitPath == Init => PathInv
<1> SUFFICES ASSUME Init PROVE PathInv
  OBVIOUS
<1>1. /\ replay = <<>> /\ sent = 0 /\ tail = 0 /\ trk.rd = 0 /\ trk.wr = 0 /\ ~on
      /\ \A s \in 0..N - 1 : ring[s] = 0
  BY DEF Init, Rewound, IdleRing
<1>2. ring \in Rings
  BY InitTypes DEF TypeOK, Rings
<1>3. tail * K = 0
  BY <1>1, ConstantTypes
<1>4. PathFrom = 0
  BY <1>1 DEF PathFrom, From
<1>5. PathOK(PathFrom, trk.wr, ring, replay, tail * K)
  <2>1. PathOK(0, 0, ring, <<>>, 0)
    BY <1>1, <1>2, EmptyPath
  <2> QED
    BY <1>1, <1>3, <1>4, <2>1
<1>6. \A n \in sent + 1..tail * K : FALSE
  BY <1>1, <1>3
<1> QED
  BY <1>1, <1>3, <1>5, <1>6 DEF PathInv

(* Idle slots are written, the tracker moves up to the engine. *)
LEMMA IdlePath ==
  ASSUME PlaceInv, PlaceInv', PathInv, IdleWrite
  PROVE  PathInv'
<1> DEFINE f  == PathFrom
           f2 == PathFrom'
           o  == From
           w  == trk.wr
           w2 == trk'.wr
           k  == tail * K
<1>1. /\ f \in Nat /\ w \in Nat /\ ring \in Rings /\ replay \in Seq(Nat) /\ o \in Nat
      /\ k \in Nat /\ f2 \in Nat /\ w2 \in Nat /\ ring' \in Rings /\ f2 =< o
      /\ trk'.rd =< f2 /\ trk.rd \in Nat /\ trk'.rd \in Nat
      /\ on => trk'.rd < o
  <2>1. From' = From /\ on' = on
    BY DEF IdleWrite, From
  <2> QED
    BY <2>1, PathPlaces, NextPlaces DEF Places
<1>2. /\ w =< w2 /\ trk.rd =< trk'.rd
      /\ UNCHANGED <<tail, replay, on, eng, sent>>
      /\ \A p \in trk'.rd..w2 - 1 :
           IF p < w THEN ring'[RingSlot(p)] = ring[RingSlot(p)]
                    ELSE ring'[RingSlot(p)] = 0 \/ (p = trk'.rd /\ on /\ ~ShortStalls)
      /\ \A s \in 0..N - 1 : ring'[s] \in {0, ring[s]}
  BY DEF IdleWrite, Content
<1>3. f =< f2 /\ (~ShortStalls => f2 = o)
  BY <1>1, <1>2, SameStalls DEF PathFrom, From
<1>4. PathOK(f, w, ring, replay, k) /\ sent =< k
      /\ \A n \in sent + 1..k : OnPath(o, w, ring, replay, n)
  BY DEF PathInv
<1>5. o = From' /\ k = tail' * K
  BY <1>2 DEF From
<1>0. f \in Int /\ f2 \in Int /\ o \in Int /\ w \in Int /\ w2 \in Int
  BY <1>1
<1> HIDE DEF f, f2, o, k
<1>6. ASSUME NEW p \in f2..w2 - 1
      PROVE  ring'[RingSlot(p)] = IF p < w THEN ring[RingSlot(p)] ELSE 0
  <2>1. p \in trk'.rd..w2 - 1
    BY <1>1
  <2>2. ~ (p = trk'.rd /\ on /\ ~ShortStalls)
    BY <1>1, <1>3
  <2> QED
    BY <1>2, <2>1, <2>2
<1>7. PathOK(f2, w2, ring', replay, k)
  <2> HIDE DEF w, w2
  <2> QED
    BY <1>0, <1>1, <1>2, <1>3, <1>4, <1>6, TrimmedPath
<1>8. ASSUME NEW n \in sent + 1..k
      PROVE  OnPath(o, w2, ring', replay, n)
  <2> HIDE DEF w, w2
  <2>1. n \in Nat \ {0}
    BY PathPlaces DEF Places
  <2>2. \A p \in o..w2 - 1 : p \in f2..w2 - 1
    BY <1>1
  <2>3. \A p \in o..w2 - 1 : ring'[RingSlot(p)] = IF p < w THEN ring[RingSlot(p)] ELSE 0
    BY <1>6, <2>2
  <2>4. w =< w2
    BY <1>2
  <2>5. OnPath(o, w2, ring', replay, n) <=> OnPath(o, w, ring, replay, n)
    BY <1>0, <1>1, <2>1, <2>3, <2>4, TrimmedSlots
  <2> QED
    BY <1>4, <2>5
<1>9. sent' = sent /\ tail' = tail /\ replay' = replay
  BY <1>2
<1> QED
  BY <1>4, <1>5, <1>7, <1>8, <1>9 DEF PathInv, f2, w2

(* The engine executes a slot or starts at an idle one; the rest stays. *)
LEMMA EnginePath ==
  ASSUME PlaceInv, PlaceInv', PathInv, UNCHANGED <<trk, ring, replay, tail>>,
         \/ From' = From /\ sent' = sent
         \/ From' = From + 1 /\ sent' = Larger(sent, Content(From))
  PROVE  PathInv'
<1> DEFINE f  == PathFrom
           f2 == PathFrom'
           o  == From
           o2 == From'
           w  == trk.wr
           k  == tail * K
<1>1. /\ f \in Nat /\ w \in Nat /\ ring \in Rings /\ replay \in Seq(Nat) /\ o \in Nat
      /\ k \in Nat /\ f2 \in Nat /\ o2 \in Nat /\ sent \in Nat
  BY PathPlaces, NextPlaces DEF Places
<1>2. PathOK(f, w, ring, replay, k) /\ sent =< k
      /\ \A n \in sent + 1..k : OnPath(o, w, ring, replay, n)
  BY DEF PathInv
<1>3. f =< f2
  BY <1>1, SameStalls DEF PathFrom
<1>4. /\ trk'.wr = w /\ tail' * K = k /\ ring' = ring /\ replay' = replay
  OBVIOUS
<1>5. \/ o2 = o /\ sent' = sent
      \/ o2 = o + 1 /\ sent' = Larger(sent, ring[RingSlot(o)])
  BY DEF Content
<1>0. f \in Int /\ f2 \in Int /\ o \in Int /\ o2 \in Int /\ w \in Int
  BY <1>1
<1>6. ring[RingSlot(o)] \in Nat /\ ring[RingSlot(o)] =< k
  <2>1. RingSlot(o) \in 0..N - 1
    BY <1>0, SlotType
  <2> QED
    BY <1>1, <1>2, <2>1 DEF Rings, PathOK, Below
<1> HIDE DEF f, f2, o, o2, w, k
<1>7. PathOK(f2, w, ring, replay, k)
  <2>1. \A p \in f2..w - 1 : ring[RingSlot(p)] = IF p < w THEN ring[RingSlot(p)] ELSE 0
    BY <1>1
  <2>2. w =< w /\ \A s \in 0..N - 1 : ring[s] \in {0, ring[s]}
    BY <1>1
  <2> QED
    BY <1>0, <1>1, <1>2, <1>3, <2>1, <2>2, TrimmedPath
<1>8. sent' =< k /\ sent =< sent'
  BY <1>1, <1>2, <1>5, <1>6 DEF Larger
<1>9. ASSUME NEW n \in sent' + 1..k
      PROVE  OnPath(o2, w, ring, replay, n)
  <2>0. sent' \in Nat
    BY <1>1, <1>5, <1>6 DEF Larger
  <2>1. OnPath(o, w, ring, replay, n)
    <3>1. n \in sent + 1..k
      <4> DEFINE s == sent
                 s2 == sent'
      <4>1. s \in Nat /\ s2 \in Nat /\ s =< s2 /\ n \in s2 + 1..k
        BY <1>1, <1>8, <2>0
      <4> HIDE DEF s, s2
      <4>2. n \in s + 1..k
        BY <1>1, <4>1
      <4> QED
        BY <4>2 DEF s
    <3> QED
      BY <1>2, <3>1
  <2>2. CASE o2 = o
    BY <2>1, <2>2
  <2>3. CASE o2 = o + 1 /\ sent' = Larger(sent, ring[RingSlot(o)])
    <3>1. ring[RingSlot(o)] # n
      <4>1. ring[RingSlot(o)] =< sent'
        BY <1>1, <1>6, <2>3 DEF Larger
      <4> DEFINE s2 == sent'
                 c  == ring[RingSlot(o)]
      <4>2. s2 \in Nat /\ c \in Nat /\ c =< s2 /\ n \in s2 + 1..k
        BY <1>6, <2>0, <4>1
      <4> HIDE DEF s2, c
      <4>3. c # n
        BY <1>1, <4>2
      <4> QED
        BY <4>3 DEF c
    <3>2. \A q \in o..w - 1 : q # o => q \in o2..w - 1
      BY <1>1, <2>3
    <3> QED
      BY <2>1, <3>1, <3>2 DEF OnPath, InRing
  <2> QED
    BY <1>5, <2>2, <2>3
<1> QED
  BY <1>4, <1>7, <1>8, <1>9 DEF PathInv, f2, o2

(* Where data is written, the engine is behind the writer. *)
LEMMA WritesAhead ==
  ASSUME PlaceInv, WriterAhead, fpc = "pump"
  PROVE  From =< trk.wr
BY PathPlaces DEF Places, WriterAhead, From

LEMMA ReplayPath ==
  ASSUME PlaceInv, PlaceInv', PathInv, WriterAhead, fpc = "pump",
         NEW m \in 1..Len(replay), Replays(m)
  PROVE  PathInv'
<1> DEFINE f  == PathFrom
           o  == From
           w  == trk.wr
           w2 == trk'.wr
           k  == tail * K
           part == SubSeq(replay, 1, m)
<1>1. /\ f \in Nat /\ w \in Nat /\ ring \in Rings /\ replay \in Seq(Nat) /\ o \in Nat
      /\ k \in Nat /\ w2 \in Nat /\ ring' \in Rings /\ trk.rd \in Nat
      /\ trk.rd =< f /\ f =< o /\ o =< w /\ sent \in Nat
  BY PathPlaces, NextPlaces, WritesAhead DEF Places
<1>2. PathOK(f, w, ring, replay, k) /\ sent =< k
      /\ \A n \in sent + 1..k : OnPath(o, w, ring, replay, n)
  BY DEF PathInv
<1>3. Len(part) = m /\ \A i \in 1..m : part[i] = replay[i]
  BY <1>1
<1>4. /\ w2 = w + m /\ UNCHANGED <<on, eng, sent, tail>> /\ trk'.rd = trk.rd
      /\ \A p \in trk.rd..w2 - 1 :
           ring'[RingSlot(p)] = IF p < w THEN ring[RingSlot(p)] ELSE part[p - w + 1]
      /\ \A s \in 0..N - 1 : ring'[s] = ring[s] \/ \E i \in 1..m : ring'[s] = part[i]
      /\ replay' = SubSeq(replay, m + 1, Len(replay))
  BY <1>3 DEF Replays, DataWrite, Content
<1>5. PathFrom' = f /\ From' = o /\ tail' * K = k
  BY <1>4, SameStalls DEF PathFrom, From
<1>0. f \in Int /\ o \in Int /\ w \in Int /\ w2 \in Int
  BY <1>1
<1> HIDE DEF f, o, w, w2, k, part
<1>6. ASSUME NEW p \in trk.rd..w2 - 1
      PROVE  ring'[RingSlot(p)] = IF p < w THEN ring[RingSlot(p)] ELSE replay[p - w + 1]
  <2>1. ~ (p < w) => p - w + 1 \in 1..m
    BY <1>1, <1>4
  <2> QED
    BY <1>3, <1>4, <2>1
<1>7. PathOK(f, w2, ring', SubSeq(replay, m + 1, Len(replay)), k)
  <2>1. \A p \in f..w2 - 1 : p \in trk.rd..w2 - 1
    BY <1>1
  <2>2. \A p \in f..w2 - 1 :
          ring'[RingSlot(p)] = IF p < w THEN ring[RingSlot(p)] ELSE replay[p - w + 1]
    BY <1>6, <2>1
  <2>3. \A s \in 0..N - 1 : ring'[s] = ring[s] \/ \E i \in 1..m : ring'[s] = replay[i]
    BY <1>3, <1>4
  <2>4. f =< w
    BY <1>1
  <2> QED
    BY <1>0, <1>1, <1>2, <1>4, <2>2, <2>3, <2>4, ReplayedPath
<1>8. ASSUME NEW n \in sent + 1..k
      PROVE  OnPath(o, w2, ring', SubSeq(replay, m + 1, Len(replay)), n)
  <2>1. \A p \in o..w2 - 1 : p \in trk.rd..w2 - 1
    BY <1>1
  <2>2. \A p \in o..w2 - 1 :
          ring'[RingSlot(p)] = IF p < w THEN ring[RingSlot(p)] ELSE replay[p - w + 1]
    BY <1>6, <2>1
  <2>3. n \in Nat
    BY <1>1
  <2> QED
    BY <1>0, <1>1, <1>2, <1>4, <2>2, <2>3, ReplayedSlots
<1> QED
  BY <1>2, <1>4, <1>5, <1>7, <1>8 DEF PathInv, w2

LEMMA TakePath ==
  ASSUME PlaceInv, PlaceInv', PathInv, WriterAhead, fpc = "pump",
         NEW m \in Nat \ {0}, Takes(m)
  PROVE  PathInv'
<1> DEFINE f  == PathFrom
           o  == From
           w  == trk.wr
           w2 == trk'.wr
           k  == tail * K
           k2 == tail' * K
           part == SlotsOf(tail, m)
<1>1. /\ f \in Nat /\ w \in Nat /\ ring \in Rings /\ o \in Nat
      /\ k \in Nat /\ k2 \in Nat /\ w2 \in Nat /\ ring' \in Rings /\ trk.rd \in Nat
      /\ trk.rd =< f /\ f =< o /\ o =< w /\ sent \in Nat
  BY PathPlaces, NextPlaces, WritesAhead DEF Places
<1>2. replay = <<>> /\ replay' = <<>> /\ tail' = tail + m /\ DataWrite(part)
  BY DEF Takes
<1>3. PathOK(f, w, ring, <<>>, k) /\ sent =< k
      /\ \A n \in sent + 1..k : OnPath(o, w, ring, <<>>, n)
  BY <1>2 DEF PathInv
<1>4. m * K \in Nat /\ k2 = k + m * K
  <2>1. tail \in Nat /\ m \in Nat /\ K \in Nat
    BY ConstantTypes, PathPlaces DEF Places
  <2>2. (tail + m) * K = tail * K + m * K
    BY <2>1
  <2> QED
    BY <1>2, <2>1, <2>2
<1>5. Len(part) = m * K /\ \A i \in 1..m * K : part[i] = k + i
  BY <1>4 DEF SlotsOf
<1>6. /\ w2 = w + (k2 - k) /\ UNCHANGED <<on, eng, sent>> /\ trk'.rd = trk.rd
      /\ \A p \in trk.rd..w2 - 1 :
           ring'[RingSlot(p)] = IF p < w THEN ring[RingSlot(p)] ELSE part[p - w + 1]
      /\ \A s \in 0..N - 1 : ring'[s] = ring[s] \/ \E i \in 1..m * K : ring'[s] = part[i]
  <2>1. /\ w2 = w + Len(part) /\ UNCHANGED <<on, eng, sent>> /\ trk'.rd = trk.rd
        /\ \A p \in trk.rd..w2 - 1 :
             ring'[RingSlot(p)] = IF p < w THEN ring[RingSlot(p)] ELSE part[p - w + 1]
        /\ \A s \in 0..N - 1 : ring'[s] = ring[s] \/ \E i \in 1..Len(part) : ring'[s] = part[i]
    BY <1>2 DEF DataWrite, Content
  <2>2. Len(part) = k2 - k
    <3> DEFINE d == m * K
    <3>1. d \in Nat /\ k2 = k + d /\ Len(part) = d
      BY <1>4, <1>5
    <3> HIDE DEF d, k, k2, part
    <3> QED
      BY <1>1, <3>1
  <2> QED
    BY <1>5, <2>1, <2>2
<1>7. PathFrom' = f /\ From' = o
  BY <1>6, SameStalls DEF PathFrom, From
<1> DEFINE d == m * K
<1>8. /\ d \in Nat /\ k2 = k + d /\ \A i \in 1..d : part[i] = k + i
      /\ \A s \in 0..N - 1 : ring'[s] = ring[s] \/ \E i \in 1..d : ring'[s] = part[i]
  BY <1>4, <1>5, <1>6
<1>0. f \in Int /\ o \in Int /\ w \in Int /\ w2 \in Int
  BY <1>1
<1> HIDE DEF f, o, w, w2, k, k2, d, part
<1>9. ASSUME NEW p \in trk.rd..w2 - 1
      PROVE  ring'[RingSlot(p)] = IF p < w THEN ring[RingSlot(p)] ELSE k + (p - w + 1)
  <2>1. ~ (p < w) => p - w + 1 \in 1..d
    BY <1>1, <1>6, <1>8
  <2> QED
    BY <1>6, <1>8, <2>1
<1>10. k =< k2 /\ w2 = w + (k2 - k) /\ f =< w
  BY <1>1, <1>6, <1>8
<1>11. PathOK(f, w2, ring', <<>>, k2)
  <2>1. \A p \in f..w2 - 1 : p \in trk.rd..w2 - 1
    BY <1>1
  <2>2. \A p \in f..w2 - 1 :
          ring'[RingSlot(p)] = IF p < w THEN ring[RingSlot(p)] ELSE k + (p - w + 1)
    BY <1>9, <2>1
  <2>3. \A s \in 0..N - 1 : ring'[s] = ring[s] \/ ring'[s] =< k2
    <3> TAKE s \in 0..N - 1
    <3>1. CASE \E i \in 1..d : ring'[s] = part[i]
      BY <1>1, <1>8, <3>1
    <3> QED
      BY <1>8, <3>1
  <2> QED
    BY <1>0, <1>1, <1>3, <1>10, <2>2, <2>3, TakenPath
<1>12. ASSUME NEW n \in sent + 1..k2
       PROVE  OnPath(o, w2, ring', <<>>, n)
  <2>1. \A p \in o..w2 - 1 : p \in trk.rd..w2 - 1
    BY <1>1
  <2>2. \A p \in o..w2 - 1 :
          ring'[RingSlot(p)] = IF p < w THEN ring[RingSlot(p)] ELSE k + (p - w + 1)
    BY <1>9, <2>1
  <2>3. n \in Nat /\ (n \in sent + 1..k \/ n \in k + 1..k2)
    BY <1>1, <1>10
  <2>4. OnPath(o, w, ring, <<>>, n) \/ n \in k + 1..k2
    BY <1>3, <2>3
  <2> QED
    BY <1>0, <1>1, <1>10, <2>2, <2>3, <2>4, TakenSlots
<1>13. sent =< k2
  BY <1>1, <1>3, <1>10
<1>14. sent' = sent /\ replay' = <<>>
  BY <1>2, <1>6
<1> QED
  BY <1>7, <1>11, <1>12, <1>13, <1>14 DEF PathInv, w2, k2
-----------------------------------------------------------------------------
(* The ring starts over *)

(* ... with all there was discarded. *)
LEMMA DiscardedPath ==
  ASSUME PlaceInv', \A s \in 0..N - 1 : ring'[s] = 0, replay' = <<>>, sent' = tail' * K
  PROVE  PathInv'
<1> DEFINE f == PathFrom'
           w == trk'.wr
           k == tail' * K
<1>1. f \in Int /\ w \in Int /\ ring' \in Rings /\ k \in Nat
  BY NextPlaces DEF Places
<1> HIDE DEF f, w, k
<1>2. PathOK(f, w, ring', <<>>, k)
  BY <1>1, EmptyPath
<1>3. sent' = k
  BY DEF k
<1>4. \A n \in sent' + 1..k : FALSE
  BY <1>1, <1>3
<1> QED
  BY <1>1, <1>2, <1>3, <1>4 DEF PathInv, f, w, k

(* ... with what lay in it from position r on, without the idle slots in    *)
(* front and behind, kept in front of the replay buffer.                   *)
LEMMA KeptPath ==
  ASSUME PlaceInv, PlaceInv', PathInv, ResetRing, ~on', UNCHANGED <<tail, sent>>,
         NEW r \in Int, NEW first \in Int, NEW seq \in Seq(Nat),
         PathFrom =< r, r =< From, Kept(r, first, seq, trk.wr, ring),
         replay' = seq \o replay
  PROVE  PathInv'
<1> DEFINE f == PathFrom
           o == From
           w == trk.wr
           k == tail * K
<1>1. /\ f \in Int /\ w \in Int /\ ring \in Rings /\ o \in Int /\ replay \in Seq(Nat)
      /\ k \in Nat /\ ring' \in Rings /\ sent \in Nat
  <2>1. Places /\ Places'
    BY PathPlaces, NextPlaces
  <2> QED
    BY <2>1 DEF Places
<1>2. PathOK(f, w, ring, replay, k) /\ sent =< k
      /\ \A n \in sent + 1..k : OnPath(o, w, ring, replay, n)
  BY DEF PathInv
<1>3. \A s \in 0..N - 1 : ring'[s] = 0
  BY EmptyRing
<1>4. trk'.wr = 0 /\ PathFrom' = 0 /\ From' = 0 /\ tail' * K = k /\ sent' = sent
  BY EmptyRing, SameStalls DEF PathFrom, From
<1>5. f =< r /\ r =< o /\ Kept(r, first, seq, w, ring)
  OBVIOUS
<1> HIDE DEF f, o, w, k
<1>6. PathOK(0, 0, ring', seq \o replay, k)
  BY <1>1, <1>2, <1>3, <1>5, RebuiltPath
<1>7. ASSUME NEW n \in sent + 1..k
      PROVE  OnPath(0, 0, ring', seq \o replay, n)
  <2>1. n \in Nat \ {0}
    BY <1>1
  <2>2. \A p \in o..w - 1 : p \in r..w - 1
    BY <1>1, <1>5
  <2>3. OnPath(r, w, ring, replay, n)
    BY <1>2, <2>2 DEF OnPath, InRing
  <2>4. OnPath(0, 0, ring', seq \o replay, n) <=> OnPath(r, w, ring, replay, n)
    BY <1>1, <1>3, <1>5, <2>1, RebuiltSlots
  <2> QED
    BY <2>3, <2>4
<1> QED
  BY <1>2, <1>4, <1>6, <1>7 DEF PathInv

(* ... with no data slot in it. *)
LEMMA IdleRingPath ==
  ASSUME PlaceInv, PlaceInv', PathInv, ResetRing, ~on, ~on', UNCHANGED <<tail, sent, replay>>,
         lastData = 0
  PROVE  PathInv'
<1> DEFINE seq == <<>>
<1>1. /\ PathFrom = 0 /\ From = 0 /\ trk.rd = 0 /\ trk.wr \in Nat /\ replay \in Seq(Nat)
  BY PathPlaces DEF Places
<1>2. \A p \in 0..trk.wr - 1 : Content(p) = 0
  BY <1>1 DEF PlaceInv, LastInv
<1>3. seq \in Seq(Nat) /\ Len(seq) = 0 /\ seq \o replay = replay
  BY <1>1
<1>4. Kept(0, 0, seq, trk.wr, ring)
  BY <1>1, <1>2, <1>3 DEF Kept, Content
<1> HIDE DEF seq
<1>5. PathFrom =< 0 /\ 0 =< From /\ 0 \in Int
  BY <1>1
<1>6. replay' = seq \o replay
  BY <1>3
<1> QED
  BY <1>3, <1>4, <1>5, <1>6, KeptPath

(* Without stalls a rebuild finds the engine, or goes by the last valid     *)
(* position.                                                               *)
LEMMA PausedPlace ==
  ASSUME PlaceInv, ShortStalls, NEW e \in Expected(fpc = "restore" \/ fault = "stopped")
  PROVE  LET r == Paused(e).rd
         IN  /\ r = IF on /\ fault # "lost" THEN eng ELSE trk.rd
             /\ r \in Nat /\ trk.rd =< r /\ r =< eng
<1>1. /\ TypeOK /\ TrackInv /\ DistInv /\ trk \in Trackers
      /\ trk.rd \in Nat /\ eng \in Nat /\ trk.rd =< eng
  BY DEF PlaceInv, TypeOK, Trackers, TrackInv
<1>2. CASE on /\ fault # "lost" /\ ~ (fpc = "restore" \/ fault = "stopped")
  <2>1. e \in Expected(FALSE)
    BY <1>2
  <2>2. Update(trk, RingSlot(eng), e).rd = eng
    BY <1>1, <2>1, PollFinds
  <2> QED
    BY <1>1, <1>2, <2>2 DEF Paused
<1>3. CASE on /\ fault # "lost" /\ (fpc = "restore" \/ fault = "stopped")
  <2> DEFINE d == eng - trk.rd
  <2>1. e = 0
    BY <1>3 DEF Expected
  <2>2. d \in Nat /\ eng = trk.rd + d
    BY <1>1
  <2>3. d < N
    <3>1. d =< Reach
      BY <1>1, <1>3, EngineWithinReach
    <3>2. Reach \in Int /\ N \in Int
      <4>1. BadPollLimit * MaxLag \in Nat
        BY BadPolls
      <4> QED
        BY <4>1, ConstantTypes DEF Reach
    <3> QED
      BY <2>2, <3>1, <3>2 DEF ShortStalls
  <2> HIDE DEF d
  <2>4. trk.prev = trk.rd % N /\ RingSlot(eng) = (trk.rd + d) % N
    BY <1>1, <2>2 DEF TrackInv, RingSlot
  <2>5. Delta(trk, RingSlot(eng)) = d
    <3>1. Delta(trk, RingSlot(eng)) = d % N
      <4> DEFINE x == RingSlot(eng)
      <4>1. x = (trk.rd + d) % N
        BY <2>4
      <4>2. Delta(trk, (trk.rd + d) % N) = d % N
        BY <1>1, <2>2, <2>4, DeltaIsDistance
      <4> QED
        BY <4>1, <4>2
    <3>2. d % N = d
      <4>1. d \in 0..N - 1 /\ 0 \in Int /\ N \in Nat \ {0}
        BY <2>2, <2>3, ConstantTypes
      <4>2. (N * 0 + d) % N = d
        BY <4>1, ModOf
      <4>3. N * 0 + d = d
        BY <2>2, <4>1
      <4> QED
        BY <4>2, <4>3
    <3> QED
      BY <3>1, <3>2
  <2>6. Laps(d, 0) = 0
    BY ConstantTypes DEF Laps
  <2>7. Travelled(trk, RingSlot(eng), 0) = d
    <3>1. 0 * N = 0
      BY ConstantTypes
    <3> QED
      BY <2>2, <2>5, <2>6, <3>1 DEF Travelled
  <2>8. Update(trk, RingSlot(eng), 0).rd = trk.rd + d
    BY <1>1, <2>7 DEF Update, Trackers
  <2> QED
    BY <1>1, <1>3, <2>1, <2>2, <2>8 DEF Paused
<1>4. CASE ~ (on /\ fault # "lost")
  BY <1>1, <1>4 DEF Paused
<1> QED
  BY <1>2, <1>3, <1>4

(* What a rebuild keeps. *)
LEMMA UnplayedSlots ==
  ASSUME NEW from \in Nat, NEW to \in Nat, NEW w \in Nat, ring \in Rings,
         to =< w, to - from =< N, \A p \in from..w - 1 : p >= to => Content(p) = 0
  PROVE  \E first \in Nat :
           /\ Unplayed(from, to) \in Seq(Nat)
           /\ Kept(from, first, Unplayed(from, to), w, ring)
<1>0. Unplayed(from, to) \in Seq(Nat)
  BY UnplayedType
<1>1. CASE to > from
  <2> DEFINE data  == {p \in from..to - 1 : ring[RingSlot(p)] # 0}
             first == IF data = {} THEN to ELSE CHOOSE p \in data : \A q \in data : p =< q
             seq   == Unplayed(from, to)
  <2>1. first \in from..to /\ \A p \in data : first =< p
    <3>1. CASE data = {}
      BY <1>1, <3>1
    <3>2. CASE data # {}
      <4>1. data \in SUBSET Nat
        OBVIOUS
      <4>2. \E p \in data : \A q \in data : p =< q
        BY <4>1, <3>2, LeastElement
      <4>3. first \in data /\ \A q \in data : first =< q
        BY <3>2, <4>2
      <4> QED
        BY <4>3
    <3> QED
      BY <3>1, <3>2
  <2>2. seq = [i \in 1..to - first |-> ring[RingSlot(first + i - 1)]]
    BY <1>1 DEF Unplayed
  <2>3. \A p \in from..to - 1 : Content(p) # 0 => first =< p
    BY <2>1 DEF Content
  <2> HIDE DEF first, data
  <2>4. to - first \in Nat
    BY <2>1
  <2>5. Len(seq) = to - first
    <3>1. DOMAIN seq = 1..to - first
      BY <2>2
    <3>2. seq \in Seq(Nat)
      BY <1>0
    <3> HIDE DEF seq
    <3> QED
      BY <2>4, <3>1, <3>2
  <2>6. \A i \in 1..Len(seq) : seq[i] = Content(first + i - 1)
    BY <2>2, <2>5 DEF Content
  <2> HIDE DEF seq
  <2>7. ASSUME NEW p \in from..w - 1, Content(p) # 0
        PROVE  first =< p /\ p < first + Len(seq)
    <3>1. p < to
      BY <2>7
    <3>2. p \in from..to - 1
      BY <3>1
    <3>3. first =< p
      BY <2>3, <2>7, <3>2
    <3> QED
      BY <2>1, <2>5, <3>1, <3>3
  <2>8. first \in Nat /\ from =< first /\ first + Len(seq) = to
    BY <2>1, <2>5
  <2>9. seq \in Seq(Nat)
    BY <1>0 DEF seq
  <2>10. Kept(from, first, seq, w, ring)
    BY <2>6, <2>7, <2>8 DEF Kept, Content
  <2> QED
    BY <2>8, <2>9, <2>10 DEF seq
<1>2. CASE ~ (to > from)
  <2>1. Unplayed(from, to) = <<>> /\ Len(<<>>) = 0
    BY <1>2 DEF Unplayed
  <2>2. \A p \in from..w - 1 : Content(p) = 0
    BY <1>2
  <2>3. \A i \in 1..Len(<<>>) : FALSE
    OBVIOUS
  <2>4. Kept(from, from, Unplayed(from, to), w, ring)
    BY <2>1, <2>2, <2>3 DEF Kept, Content
  <2> QED
    BY <1>0, <2>4
<1> QED
  BY <1>1, <1>2

(* What a rebuild finds, and what it puts in front of the replay buffer.    *)
LEMMA RebuildKeeps ==
  ASSUME PlaceInv, ShortStalls, RetuneRebuild
  PROVE  \E r, first \in Nat : \E seq \in Seq(Nat) :
           /\ r = IF on /\ fault # "lost" THEN eng ELSE trk.rd
           /\ trk.rd =< r /\ r =< eng
           /\ Kept(r, first, seq, trk.wr, ring)
           /\ replay' = seq \o replay
<1>1. PICK e \in Expected(fpc = "restore" \/ fault = "stopped") :
        replay' = Unplayed(Paused(e).rd, lastData) \o replay
  BY DEF RetuneRebuild
<1> DEFINE r == Paused(e).rd
<1>3. /\ trk.rd \in Nat /\ trk.wr \in Nat /\ eng \in Nat /\ lastData \in Nat
      /\ ring \in Rings
  BY PathPlaces DEF Places
<1>4. /\ r = IF on /\ fault # "lost" THEN eng ELSE trk.rd
      /\ r \in Nat /\ trk.rd =< r /\ r =< eng
  BY <1>1, PausedPlace
<1> HIDE DEF r
<1>5. /\ lastData =< trk.wr /\ lastData - r =< N
      /\ \A p \in r..trk.wr - 1 : p >= lastData => Content(p) = 0
  <2>1. /\ lastData =< trk.wr /\ trk.wr =< trk.rd + N - 2
        /\ \A p \in trk.rd..trk.wr - 1 : p >= lastData => Content(p) = 0
    BY DEF PlaceInv, LastInv, SpaceInv, Spaced
  <2>2. \A p \in r..trk.wr - 1 : p \in trk.rd..trk.wr - 1
    BY <1>3, <1>4
  <2> QED
    BY <1>3, <1>4, <2>1, <2>2, ConstantTypes
<1> DEFINE seq == Unplayed(r, lastData)
           w   == trk.wr
<1>6. PICK first \in Nat :
        seq \in Seq(Nat) /\ Kept(r, first, seq, w, ring)
  <2>1. w \in Nat /\ lastData \in Nat /\ lastData =< w
    BY <1>3, <1>5
  <2> HIDE DEF w
  <2> QED
    BY <1>3, <1>4, <1>5, <2>1, UnplayedSlots DEF w
<1>7. replay' = seq \o replay
  BY <1>1 DEF r
<1> HIDE DEF seq
<1> QED
  BY <1>4, <1>6, <1>7

LEMMA RebuildPath ==
  ASSUME PlaceInv, PlaceInv', PathInv, ShortStalls, RetuneRebuild
  PROVE  PathInv'
<1>1. PICK r, first \in Nat : \E seq \in Seq(Nat) :
        /\ r = IF on /\ fault # "lost" THEN eng ELSE trk.rd
        /\ trk.rd =< r /\ r =< eng
        /\ Kept(r, first, seq, trk.wr, ring)
        /\ replay' = seq \o replay
  BY RebuildKeeps
<1>2. PICK seq \in Seq(Nat) :
        Kept(r, first, seq, trk.wr, ring) /\ replay' = seq \o replay
  BY <1>1
<1>3. ResetRing /\ ~on' /\ UNCHANGED <<tail, sent>>
  BY DEF RetuneRebuild, fifoV
<1>4. r =< From /\ PathFrom =< r
  BY <1>1, PathPlaces DEF Places, PathFrom, From
<1>5. r \in Int /\ first \in Int
  OBVIOUS
<1> QED
  BY <1>2, <1>3, <1>4, <1>5, KeptPath
-----------------------------------------------------------------------------
LEMMA StepPath ==
  ASSUME ShortStalls \/ NoRebuild, PlaceInv, PlaceInv', PrefixInv, PathInv, WriterAhead,
         [Next]_vars
  PROVE  PathInv'
<1> USE DEF fifoV, prodV, flagV, tuneV, envV, pubV, ringV, burstV, drainV, engV, statV
<1>0. /\ TypeOK /\ TrackInv /\ ControlInv /\ DistInv /\ SpaceInv /\ LastInv
      /\ replay \in Seq(Nat) /\ prefix \in Nat
  BY DEF PlaceInv, TypeOK
<1>1. ASSUME UNCHANGED <<trk, ring, replay, tail, on, eng, sent>>
      PROVE  PathInv'
  BY <1>1, EnginePath DEF From
<1>2. CASE Producer \/ RequestRetune \/ PublishModel \/ StopBegin
           \/ EngineFault \/ FaultClears \/ PrerollExpires \/ UNCHANGED vars
  <2>1. UNCHANGED <<trk, ring, replay, tail, on, eng, sent>>
    BY <1>2 DEF Producer, WriteBegin, WritePush, EndBurst, RequestRetune, PublishModel,
                StopBegin, EngineFault, FaultClears, PrerollExpires, vars
  <2> QED
    BY <1>1, <2>1
<1>3. CASE FeederExit \/ RetuneBegin \/ PollBad \/ PublishDrain \/ PumpDone
  BY <1>1, <1>3 DEF FeederExit, RetuneBegin, PollBad, PublishDrain, PumpDone
<1>4. CASE StartClear
  <2>1. AtRest
    BY <1>0, <1>4 DEF StartClear, ControlInv
  <2>2. /\ ring' = ring /\ replay' = <<>> /\ sent' = head * K /\ tail' = head
    BY <1>4, <2>1 DEF StartClear, AtRest
  <2>3. \A s \in 0..N - 1 : ring'[s] = 0
    BY <2>1, <2>2 DEF AtRest, IdleRing
  <2> QED
    BY <2>2, <2>3, DiscardedPath
<1>5. CASE StopFinish
  <2>1. replay' = <<>> /\ sent' = head * K /\ tail' = head /\ ResetRing
    BY <1>5 DEF StopFinish
  <2>2. \A s \in 0..N - 1 : ring'[s] = 0
    BY <2>1, EmptyRing
  <2> QED
    BY <2>1, <2>2, DiscardedPath
<1>6. CASE StartRun
  <2>1. AtRest
    BY <1>0, <1>6 DEF StartRun, ControlInv
  <2>2. /\ ResetRing /\ ~on /\ ~on' /\ UNCHANGED <<tail, sent, replay>> /\ lastData = 0
    BY <1>6, <2>1 DEF StartRun, AtRest
  <2> QED
    BY <2>2, IdleRingPath
<1>7. CASE RetuneRebuild
  <2>1. ShortStalls
    BY <1>0, <1>7 DEF RetuneRebuild, ControlInv
  <2> QED
    BY <1>7, <2>1, RebuildPath
<1>8. CASE FeederTop \/ FeederAdvance
  <2>1. /\ UNCHANGED <<replay, tail, on, eng, sent>>
        /\ UNCHANGED <<trk, ring>> \/ (ResetRing /\ ~on /\ lastData = 0)
    BY <1>8 DEF FeederTop, RefreshModel, FeederAdvance, ApplyAdvance, KeepAdvance,
                AtBurstBoundary
  <2>2. CASE ResetRing /\ ~on /\ lastData = 0
    BY <2>1, <2>2, IdleRingPath
  <2> QED
    BY <1>1, <2>1, <2>2
<1>9. CASE FeederFill \/ Poll \/ FeederStarve
  BY <1>0, <1>9, IdleSteps, IdlePath
<1>10. CASE PumpReplay
  <2>1. PICK m \in 1..Len(replay) : Replays(m)
    BY <1>0, <1>10, ReplayStep DEF LastInv
  <2>2. fpc = "pump"
    BY <1>10 DEF PumpReplay
  <2> QED
    BY <2>1, <2>2, ReplayPath
<1>11. CASE PumpFifo
  <2>1. PICK m \in Nat \ {0} : Takes(m)
    BY <1>0, <1>11, TakeStep
  <2>2. fpc = "pump"
    BY <1>11 DEF PumpFifo
  <2> QED
    BY <2>1, <2>2, TakePath
<1>12. CASE FeederStart
  <2>1. UNCHANGED <<trk, ring, replay, tail, sent>>
    BY <1>12 DEF FeederStart
  <2>2. ~on /\ eng = 0 /\ From = 0
    BY <1>0, <1>12 DEF FeederStart, TrackInv, From
  <2>3. CASE MayStart
    <3>1. From' = From + 1
      BY <1>12, <2>2, <2>3 DEF FeederStart, From
    <3>2. Content(From) = 0
      <4>1. Prefixed /\ adv \in Nat /\ Pacing \in Nat
        BY <1>0, <1>12, <2>2, ConstantTypes DEF FeederStart, PrefixInv, TypeOK
      <4>2. 0 \in 0..prefix - 1
        BY <1>0, <4>1 DEF Prefixed
      <4> QED
        BY <2>2, <4>1, <4>2 DEF Prefixed
    <3>3. sent' = Larger(sent, Content(From))
      BY <2>1, <3>2, PathPlaces DEF Places, Larger
    <3> QED
      BY <2>1, <3>1, <3>3, EnginePath
  <2>4. CASE ~MayStart
    <3>1. UNCHANGED <<on, eng>>
      BY <1>12, <2>4 DEF FeederStart
    <3> QED
      BY <1>1, <2>1, <3>1
  <2> QED
    BY <2>3, <2>4
<1>13. CASE EngineStep
  <2>1. UNCHANGED <<trk, ring, replay, tail>>
    BY <1>13 DEF EngineStep
  <2>2. From' = From + 1 /\ sent' = Larger(sent, Content(From))
    <3>1. on /\ on' /\ eng' = eng + 1 /\ eng \in Nat
      BY <1>0, <1>13 DEF EngineStep, TypeOK
    <3>2. From = eng + 1 /\ From' = eng' + 1
      BY <3>1 DEF From
    <3>3. sent' = Larger(sent, ring[RingSlot(eng + 1)])
      BY <1>13 DEF EngineStep
    <3> QED
      BY <3>1, <3>2, <3>3 DEF Content
  <2> QED
    BY <2>1, <2>2, EnginePath
<1> QED
  BY <1>2, <1>3, <1>4, <1>5, <1>6, <1>7, <1>8, <1>9, <1>10, <1>11, <1>12, <1>13
  DEF Next, Control, Feeder, Engine

(* What is still to be executed, as a sequence and as a path. *)
LEMMA ComingSlots ==
  ASSUME PlaceInv
  PROVE  /\ \A n \in Nat \ {0} : n \in Numbers <=> OnPath(From, trk.wr, ring, replay, n)
         /\ Numbers \subseteq Nat \ {0}
         /\ Ordered(From, trk.wr, ring, replay)
              => \A i, j \in DOMAIN Coming :
                   i < j /\ Coming[i] # 0 /\ Coming[j] # 0 => Coming[i] < Coming[j]
<1> DEFINE f == From
           w == trk.wr
           l == Larger(0, w - f)
           m == Len(replay)
           front == [i \in 1..l |-> Content(f + i - 1)]
           all == front \o replay
<1>0. /\ f \in Int /\ w \in Int /\ ring \in Rings /\ replay \in Seq(Nat)
  BY PathPlaces DEF Places
<1>1. l \in Nat /\ m \in Nat /\ (l > 0 => f + l = w) /\ (f < w => f + l = w)
  <2> HIDE DEF f, w
  <2> QED
    BY <1>0 DEF Larger
<1>2. \A p \in Int : Content(p) \in Nat
  <2> TAKE p \in Int
  <2>1. RingSlot(p) \in 0..N - 1
    BY SlotType
  <2> QED
    BY <1>0, <2>1 DEF Content, Rings
<1> HIDE DEF f, w, l
<1>3. front \in Seq(Nat) /\ Len(front) = l
  <2>1. \A i \in 1..l : Content(f + i - 1) \in Nat
    BY <1>0, <1>1, <1>2
  <2> QED
    BY <1>1, <2>1
<1>4. /\ DOMAIN all = 1..l + m
      /\ \A i \in 1..l + m : all[i] = IF i =< l THEN Content(f + i - 1) ELSE replay[i - l]
  <2>1. \A i \in 1..l : front[i] = Content(f + i - 1)
    OBVIOUS
  <2> HIDE DEF front
  <2>2. Len(all) = Len(front) + Len(replay) /\ all \in Seq(Nat)
    BY <1>0, <1>3
  <2>3. \A i \in 1..Len(front) + Len(replay) :
          all[i] = IF i =< Len(front) THEN front[i] ELSE replay[i - Len(front)]
    BY <1>0, <1>3
  <2>4. \A i \in 1..l + m : i =< l => i \in 1..l
    BY <1>1
  <2>5. DOMAIN all = 1..l + m
    BY <1>3, <2>2
  <2>6. ASSUME NEW i \in 1..l + m
        PROVE  all[i] = IF i =< l THEN front[i] ELSE replay[i - l]
    BY <1>3, <2>3
  <2> HIDE DEF all, m
  <2> QED
    BY <2>1, <2>4, <2>5, <2>6
<1>5. Coming = all
  BY DEF Coming, all, front, l, f, w
<1> HIDE DEF all, front
<1>6. ASSUME NEW i \in 1..l + m, i =< l
      PROVE  f + i - 1 \in f..w - 1 /\ all[i] = Content(f + i - 1)
  <2>1. all[i] = Content(f + i - 1)
    BY <1>4, <1>6
  <2> HIDE DEF m
  <2>2. f + i - 1 \in f..w - 1
    BY <1>0, <1>1, <1>6
  <2> QED
    BY <2>1, <2>2
<1>7. ASSUME NEW i \in 1..l + m, ~ (i =< l)
      PROVE  i - l \in 1..m /\ all[i] = replay[i - l]
  <2>1. all[i] = replay[i - l]
    BY <1>4, <1>7
  <2> HIDE DEF m
  <2>2. i - l \in 1..m
    BY <1>1, <1>7
  <2> QED
    BY <2>1, <2>2
<1>8. ASSUME NEW n \in Nat \ {0}
      PROVE  n \in Numbers <=> OnPath(f, w, ring, replay, n)
  <2>1. n \in Numbers <=> \E i \in 1..l + m : all[i] = n
    BY <1>4, <1>5 DEF Numbers
  <2>2. ASSUME NEW i \in 1..l + m, all[i] = n
        PROVE  OnPath(f, w, ring, replay, n)
    BY <1>6, <1>7, <2>2 DEF OnPath, InRing, InReplay, Content
  <2>3. ASSUME NEW p \in f..w - 1, ring[RingSlot(p)] = n
        PROVE  \E i \in 1..l + m : all[i] = n
    <3> DEFINE i == p - f + 1
    <3>1. i \in 1..l + m /\ i =< l /\ f + i - 1 = p
      <4> HIDE DEF m
      <4> QED
        BY <1>0, <1>1
    <3> HIDE DEF i
    <3>2. all[i] = n
      BY <1>6, <2>3, <3>1 DEF Content
    <3> QED
      BY <3>1, <3>2
  <2>4. ASSUME NEW i \in 1..m, replay[i] = n
        PROVE  \E j \in 1..l + m : all[j] = n
    <3>1. i + l \in 1..l + m /\ ~ (i + l =< l) /\ (i + l) - l = i
      <4> HIDE DEF m
      <4> QED
        BY <1>1
    <3>2. all[i + l] = n
      BY <1>7, <2>4, <3>1
    <3> QED
      BY <3>1, <3>2
  <2> QED
    BY <2>1, <2>2, <2>3, <2>4 DEF OnPath, InRing, InReplay
<1>9. Numbers \subseteq Nat \ {0}
  <2>1. ASSUME NEW i \in 1..l + m PROVE all[i] \in Nat
    <3>1. CASE i =< l
      <4>1. f + i - 1 \in Int
        BY <1>6, <3>1
      <4> QED
        BY <1>2, <1>6, <3>1, <4>1
    <3>2. CASE ~ (i =< l)
      <4>1. i - l \in 1..Len(replay) /\ all[i] = replay[i - l]
        BY <1>7, <3>2
      <4> QED
        BY <1>0, <4>1
    <3> QED
      BY <3>1, <3>2
  <2> QED
    BY <1>4, <1>5, <2>1 DEF Numbers
<1>10. ASSUME Ordered(f, w, ring, replay), NEW i \in 1..l + m, NEW j \in 1..l + m,
              i < j, all[i] # 0, all[j] # 0
       PROVE  all[i] < all[j]
  <2>0. i \in Int /\ j \in Int
    BY <1>1
  <2>1. CASE j =< l
    <3> DEFINE p == f + i - 1
               q == f + j - 1
    <3>1. i =< l /\ p < q
      BY <1>0, <1>1, <1>10, <2>0, <2>1
    <3>2. /\ p \in f..w - 1 /\ all[i] = ring[RingSlot(p)]
          /\ q \in f..w - 1 /\ all[j] = ring[RingSlot(q)]
      BY <1>6, <2>1, <3>1 DEF Content
    <3> HIDE DEF p, q
    <3> QED
      BY <1>10, <3>1, <3>2 DEF Ordered
  <2>2. CASE i =< l /\ ~ (j =< l)
    <3> DEFINE p == f + i - 1
    <3>1. /\ p \in f..w - 1 /\ all[i] = ring[RingSlot(p)]
          /\ j - l \in 1..m /\ all[j] = replay[j - l]
      BY <1>6, <1>7, <2>2 DEF Content
    <3> HIDE DEF p
    <3> QED
      BY <1>10, <3>1 DEF Ordered
  <2>3. CASE ~ (i =< l)
    <3>1. ~ (j =< l) /\ i - l < j - l
      BY <1>1, <1>10, <2>0, <2>3
    <3>2. /\ i - l \in 1..m /\ all[i] = replay[i - l]
          /\ j - l \in 1..m /\ all[j] = replay[j - l]
      BY <1>7, <2>3, <3>1
    <3> QED
      BY <1>10, <3>1, <3>2 DEF Ordered
  <2> QED
    BY <2>1, <2>2, <2>3
<1>11. Ordered(f, w, ring, replay)
         => \A i, j \in DOMAIN all : i < j /\ all[i] # 0 /\ all[j] # 0 => all[i] < all[j]
  BY <1>4, <1>10
<1> QED
  BY <1>5, <1>8, <1>9, <1>11 DEF f, w

LEMMA PathAccounts == PlaceInv /\ PathInv => Accounted
<1> SUFFICES ASSUME PlaceInv, PathInv PROVE Accounted
  OBVIOUS
<1> DEFINE f == From
           w == trk.wr
           k == tail * K
<1>1. /\ f \in Int /\ w \in Int /\ PathFrom \in Int /\ PathFrom =< f
      /\ ring \in Rings /\ replay \in Seq(Nat) /\ k \in Nat /\ sent \in Nat
  BY PathPlaces DEF Places
<1>2. /\ PathOK(PathFrom, w, ring, replay, k) /\ sent =< k
      /\ \A n \in sent + 1..k : OnPath(f, w, ring, replay, n)
  BY DEF PathInv
<1>3. /\ \A n \in Nat \ {0} : n \in Numbers <=> OnPath(f, w, ring, replay, n)
      /\ Numbers \subseteq Nat \ {0}
      /\ Ordered(f, w, ring, replay)
           => \A i, j \in DOMAIN Coming :
                i < j /\ Coming[i] # 0 /\ Coming[j] # 0 => Coming[i] < Coming[j]
  BY ComingSlots
<1> HIDE DEF f, w, k
<1>4. PathOK(f, w, ring, replay, k)
  <2>1. /\ w =< w /\ \A p \in f..w - 1 : ring[RingSlot(p)] = IF p < w THEN ring[RingSlot(p)] ELSE 0
        /\ \A s \in 0..N - 1 : ring[s] \in {0, ring[s]}
    BY <1>1
  <2> QED
    BY <1>1, <1>2, <2>1, TrimmedPath
<1>5. ASSUME NEW n \in Numbers
      PROVE  n =< k /\ n..k \subseteq Numbers
  <2>1. n \in Nat \ {0} /\ OnPath(f, w, ring, replay, n)
    BY <1>3
  <2>2. n =< k
    <3>1. CASE InReplay(replay, n)
      BY <1>4, <3>1 DEF InReplay, PathOK, Below
    <3>2. CASE InRing(f, w, ring, n)
      <4>1. PICK p \in f..w - 1 : ring[RingSlot(p)] = n
        BY <3>2 DEF InRing
      <4>2. RingSlot(p) \in 0..N - 1
        <5>1. p \in Int
          BY <1>1
        <5> QED
          BY <5>1, SlotType
      <4> QED
        BY <1>4, <4>1, <4>2 DEF PathOK, Below
    <3> QED
      BY <2>1, <3>1, <3>2 DEF OnPath
  <2>3. ASSUME NEW m \in n..k PROVE m \in Numbers
    <3>1. m \in Nat \ {0}
      BY <2>1
    <3>2. OnPath(f, w, ring, replay, m)
      BY <1>4, <2>1 DEF PathOK, Gapless
    <3> QED
      BY <1>3, <3>1, <3>2
  <2> QED
    BY <2>2, <2>3
<1>6. ASSUME NEW n \in sent + 1..k PROVE n \in Numbers
  <2>1. n \in Nat \ {0}
    BY <1>1
  <2> QED
    BY <1>2, <1>3, <2>1
<1>7. \E first \in 1..sent + 1 : Numbers = first..k
  <2>1. CASE Numbers = {}
    <3>1. sent = k
      <4>1. sent + 1 \notin sent + 1..k
        BY <1>6, <2>1
      <4> QED
        BY <1>1, <1>2, <4>1
    <3>2. sent + 1 \in 1..sent + 1 /\ sent + 1..k = {}
      BY <1>1, <3>1
    <3> QED
      BY <2>1, <3>2
  <2>2. CASE Numbers # {}
    <3>1. Numbers \in SUBSET Nat
      BY <1>3
    <3>2. PICK first \in Numbers : \A n \in Numbers : first =< n
      BY <2>2, <3>1, LeastElement
    <3>3. first \in Nat \ {0} /\ first =< k
      BY <1>3, <1>5
    <3>4. first =< sent + 1
      <4>1. CASE sent < k
        <5>1. sent + 1 \in Numbers
          BY <1>1, <1>6, <4>1
        <5> QED
          BY <3>2, <5>1
      <4>2. CASE ~ (sent < k)
        BY <1>1, <1>2, <3>3, <4>2
      <4> QED
        BY <4>1, <4>2
    <3>5. Numbers = first..k
      <4>1. ASSUME NEW n \in Numbers PROVE n \in first..k
        BY <1>1, <1>3, <1>5, <3>2, <3>3
      <4> QED
        BY <1>5, <4>1
    <3>6. first \in 1..sent + 1
      BY <1>1, <3>3, <3>4
    <3> QED
      BY <3>5, <3>6
  <2> QED
    BY <2>1, <2>2
<1>8. \A i, j \in DOMAIN Coming : i < j /\ Coming[i] # 0 /\ Coming[j] # 0 => Coming[i] < Coming[j]
  BY <1>3, <1>4 DEF PathOK
<1> QED
  BY <1>7, <1>8 DEF Accounted, k

(* No sample is lost, doubled or reordered, whatever retunes, faults,       *)
(* starvation, late polls, changes of the advance, stops and starts come in *)
(* between, as long as the engine does not reach the writer between a poll  *)
(* and the writes after it; a feeder that stalls for laps and a rebuild of  *)
(* the ring must not come together.                                        *)
THEOREM TransmitterAccounts ==
  ASSUME ShortStalls \/ NoRebuild
  PROVE  Spec /\ []WriterAhead => []Accounted
<1> DEFINE PInv == PlaceInv /\ PrefixInv /\ PathInv
<1>1. Init => PInv
  BY InitPlace, InitPrefix, InitPath
<1>2. PInv /\ WriterAhead /\ [Next]_vars => PInv'
  BY StepPlace, StepPrefix, StepPath
<1>3. PInv => Accounted
  BY PathAccounts
<1> HIDE DEF PInv
<1> QED
  BY <1>1, <1>2, <1>3, PTL DEF Spec

-----------------------------------------------------------------------------
(* A published drain state *)

(* The transmitter is running, or its feeder has yet to be joined. *)
Busy == active \/ restart = "stopping"

Settled == replay = <<>> /\ tail = head /\ trk.rd >= lastData

(* The count of consumed samples is where the FIFO is read, nothing is      *)
(* pushed while Start() is between the clear and the baseline, and a count  *)
(* published as drained stays true until something is pushed or the feeder  *)
(* takes it back, which it does before it rebuilds the ring.               *)
DrainInv ==
  /\ Busy => consumed = tail
  /\ restart = "cleared" => wpc = "idle" /\ tail = head /\ ~active
  /\ drained =< head
  /\ fpc \in {"rebuild", "restore"} => drained = NotDrained
  /\ drained = head /\ Busy => Settled

LEMMA StepDrain ==
  ASSUME CalmRestart
  PROVE  PlaceInv /\ DrainInv /\ [Next]_vars => DrainInv'
<1> SUFFICES ASSUME PlaceInv, DrainInv, [Next]_vars PROVE DrainInv'
  OBVIOUS
<1> USE DEF fifoV, prodV, flagV, tuneV, envV, pubV, ringV, burstV, drainV, engV, statV
<1>0. /\ TypeOK /\ TrackInv /\ ControlInv /\ DistInv /\ SpaceInv /\ LastInv
      /\ head \in Nat /\ tail \in Nat /\ drained \in Nat \cup {NotDrained} /\ drained \in Int
      /\ consumed \in Nat /\ lastData \in Nat /\ trk.rd \in Nat /\ -1 # head
  BY DEF PlaceInv, TypeOK, Trackers, NotDrained
<1>1. CASE WriteBegin \/ EndBurst \/ RequestRetune \/ PublishModel \/ PrerollExpires
           \/ EngineStep \/ EngineFault \/ FaultClears \/ UNCHANGED vars
  BY <1>1 DEF WriteBegin, EndBurst, RequestRetune, PublishModel, PrerollExpires,
              EngineStep, EngineFault, FaultClears, vars, DrainInv, Busy, Settled
<1>2. CASE WritePush
  <2>1. PICK m \in Int : head' = head + m /\ m >= 0
    <3>1. left \in Nat /\ FifoCap \in Nat /\ head =< tail + FifoCap
      BY <1>0, ConstantTypes DEF TypeOK, ControlInv
    <3>2. Smaller(left, FifoCap - (head - tail)) >= 0
           /\ Smaller(left, FifoCap - (head - tail)) \in Int
      BY <1>0, <3>1 DEF Smaller
    <3> QED
      BY <1>2, <3>2 DEF WritePush
  <2>2. /\ UNCHANGED <<tail, active, running, restart, fpc, trk, lastData, replay, consumed,
                       drained>>
        /\ wpc = "push"
    BY <1>2 DEF WritePush
  <2>3. drained =< head'
    BY <1>0, <2>1 DEF DrainInv
  <2>4. drained = head' => drained = head /\ head' = head
    BY <1>0, <2>1 DEF DrainInv
  <2>5. restart # "cleared"
    BY <2>2 DEF DrainInv
  <2> QED
    BY <2>2, <2>3, <2>4, <2>5 DEF DrainInv, Busy, Settled
<1>3. CASE StartClear
  BY <1>0, <1>3 DEF StartClear, DrainInv, Busy
<1>4. CASE StartRun
  <2>1. /\ consumed' = head /\ drained' = -1 /\ UNCHANGED <<head, tail, wpc>>
        /\ restart' = "no" /\ fpc' = "top" /\ tail = head
    BY <1>4 DEF StartRun, Baseline, NotDrained, DrainInv
  <2> QED
    BY <1>0, <2>1 DEF DrainInv, Busy, Settled, NotDrained
<1>5. CASE StopBegin
  BY <1>0, <1>5 DEF StopBegin, DrainInv, Busy, Settled, ControlInv
<1>6. CASE StopFinish
  <2>1. /\ restart' = "no" /\ ~active' /\ drained' = -1 /\ head' = head /\ fpc' = "exited"
    BY <1>0, <1>6 DEF StopFinish, NotDrained, ControlInv
  <2> QED
    BY <1>0, <2>1 DEF DrainInv, Busy, NotDrained
<1>7. CASE RetuneBegin
  <2>1. /\ UNCHANGED <<head, tail, wpc, active, restart, consumed>> /\ drained' = -1
    BY <1>7 DEF RetuneBegin, NotDrained
  <2> QED
    BY <1>0, <2>1 DEF DrainInv, Busy, NotDrained
<1>8. CASE RetuneRebuild
  <2>1. /\ UNCHANGED <<head, tail, wpc, active, restart, consumed, drained>> /\ drained = -1
    BY <1>8 DEF RetuneRebuild, DrainInv, NotDrained
  <2> QED
    BY <1>0, <2>1 DEF DrainInv, Busy, NotDrained
<1>9. CASE FeederExit \/ PollBad \/ PumpDone \/ FeederStart
  BY <1>0, <1>9 DEF FeederExit, PollBad, PumpDone, FeederStart, DrainInv, Busy, Settled
<1>10. CASE FeederTop \/ FeederAdvance
  <2>1. /\ UNCHANGED <<head, tail, wpc, active, restart, consumed, drained, replay>>
        /\ fpc' \notin {"rebuild", "restore"}
        /\ UNCHANGED <<trk, lastData>> \/ ResetRing
    BY <1>10 DEF FeederTop, RefreshModel, FeederAdvance, ApplyAdvance, KeepAdvance
  <2>2. ResetRing => trk'.rd >= lastData'
    <3>1. ASSUME ResetRing PROVE trk'.rd = 0 /\ lastData' = 0
      BY <3>1, EmptyRing
    <3> QED
      BY <3>1
  <2> QED
    BY <2>1, <2>2 DEF DrainInv, Busy, Settled
<1>11. CASE FeederFill \/ Poll \/ FeederStarve
  <2>1. IdleWrite
    BY <1>0, <1>11, IdleSteps
  <2>2. trk'.rd \in Nat
    <3>1. PlaceInv'
      BY StepPlace
    <3> QED
      BY <3>1 DEF PlaceInv, TypeOK, Trackers
  <2>3. trk.rd >= lastData => trk'.rd >= lastData'
    BY <1>0, <2>1, <2>2 DEF IdleWrite
  <2>4. /\ UNCHANGED <<head, tail, wpc, active, restart, consumed, drained, replay>>
        /\ fpc' \notin {"rebuild", "restore"}
    BY <1>11 DEF FeederFill, Poll, FeederStarve
  <2> QED
    BY <2>3, <2>4 DEF DrainInv, Busy, Settled
<1>12. CASE PumpReplay
  <2>1. /\ UNCHANGED <<head, tail, wpc, active, restart, consumed, drained, fpc>>
        /\ replay # <<>>
    BY <1>12 DEF PumpReplay
  <2> QED
    BY <2>1 DEF DrainInv, Busy, Settled
<1>13. CASE PumpFifo
  <2>1. PICK m \in Nat : tail' = tail + m /\ consumed' = consumed + m
    <3>1. Want \in Nat /\ head > tail
      BY <1>0, <1>13, RoomType DEF PumpFifo, TypeOK
    <3>2. Smaller(Want, head - tail) \in Nat
      BY <1>0, <3>1 DEF Smaller
    <3> QED
      BY <1>13, <3>2 DEF PumpFifo
  <2>2. /\ UNCHANGED <<head, wpc, active, restart, drained, fpc>> /\ head > tail
        /\ fpc = "pump"
    BY <1>13 DEF PumpFifo
  <2>3. Busy => drained # head
    BY <1>0, <2>2 DEF DrainInv, Settled
  <2>4. restart # "cleared"
    BY <1>0, <2>2 DEF DrainInv
  <2> QED
    BY <1>0, <2>1, <2>2, <2>3, <2>4 DEF DrainInv, Busy
<1>14. CASE PublishDrain
  <2>1. /\ UNCHANGED <<head, tail, wpc, active, restart, consumed, replay, trk, lastData>>
        /\ drained' = IF AllDone THEN head ELSE -1
        /\ fpc' = "top"
    BY <1>14 DEF PublishDrain, NotDrained
  <2>2. drained' =< head /\ (drained' = head => AllDone)
    BY <1>0, <2>1
  <2> QED
    BY <2>1, <2>2 DEF DrainInv, Busy, Settled, AllDone
<1> QED
  BY <1>1, <1>2, <1>3, <1>4, <1>5, <1>6, <1>7, <1>8, <1>9, <1>10, <1>11, <1>12, <1>13, <1>14
  DEF Next, Producer, Control, Feeder, Engine

LEMMA QuietRing ==
  ASSUME PlaceInv, Settled
  PROVE  Numbers = {}
<1>1. /\ trk.rd \in Nat /\ trk.wr \in Nat /\ lastData \in Nat /\ From \in Nat
      /\ trk.rd >= lastData /\ replay = <<>>
      /\ trk.rd =< From /\ (on => trk.rd < From)
  BY PathPlaces DEF Places, Settled
<1>2. ASSUME NEW p \in From..trk.wr - 1 PROVE Content(p) = 0
  <2>1. p \in trk.rd..trk.wr - 1 /\ p >= lastData /\ (on => p # trk.rd)
    BY <1>1
  <2> QED
    BY <2>1 DEF PlaceInv, LastInv
<1>3. ASSUME NEW n \in Nat \ {0} PROVE ~OnPath(From, trk.wr, ring, replay, n)
  BY <1>1, <1>2 DEF OnPath, InRing, InReplay, Content
<1> QED
  BY <1>3, ComingSlots

LEMMA DrainQuiet == PlaceInv /\ PathInv /\ DrainInv => DrainedMeansQuiet
<1> SUFFICES ASSUME PlaceInv, PathInv, DrainInv, active, drained = head
             PROVE  sent = head * K /\ Numbers = {} /\ head = tail
  BY DEF DrainedMeansQuiet
<1>1. Settled
  BY DEF DrainInv, Busy
<1>2. Numbers = {} /\ head = tail
  BY <1>1, QuietRing DEF Settled
<1>3. sent \in Nat /\ head * K \in Nat /\ sent =< tail * K
  BY PathPlaces DEF Places, PathInv
<1>4. ASSUME sent < head * K PROVE FALSE
  <2>1. OnPath(From, trk.wr, ring, replay, sent + 1)
    BY <1>2, <1>3, <1>4 DEF PathInv
  <2>2. sent + 1 \in Numbers
    <3>1. sent + 1 \in Nat \ {0}
      BY <1>3
    <3> QED
      BY <2>1, <3>1, ComingSlots
  <2> QED
    BY <1>2, <2>2
<1> QED
  BY <1>2, <1>3, <1>4

(* WaitDrained() does not return early: when the published push count is    *)
(* the current one, the engine has executed every slot of every sample, and *)
(* FIFO, replay buffer and ring are empty.                                 *)
THEOREM TransmitterDrains ==
  ASSUME CalmRestart, ShortStalls \/ NoRebuild
  PROVE  Spec /\ []WriterAhead => []DrainedMeansQuiet
<1> DEFINE DInv == PlaceInv /\ PrefixInv /\ PathInv /\ DrainInv
<1>1. Init => DInv
  <2>1. Init => DrainInv
    BY DEF Init, DrainInv, Busy, NotDrained
  <2> QED
    BY <2>1, InitPlace, InitPrefix, InitPath
<1>2. DInv /\ WriterAhead /\ [Next]_vars => DInv'
  BY StepPlace, StepPrefix, StepPath, StepDrain
<1>3. DInv => DrainedMeansQuiet
  BY DrainQuiet
<1> HIDE DEF DInv
<1> QED
  BY <1>1, <1>2, <1>3, PTL DEF Spec
-----------------------------------------------------------------------------
(* What is executed again *)

(* The engine is no further past a data slot of the ring than it moved in   *)
(* the bad polls and since the last poll: the idle prefix lies in front of  *)
(* the data, so the slots of the pacing FIFO do not count.                 *)
NearInv ==
  on => \A p \in trk.rd..trk.wr - 1 :
          Content(p) # 0 => eng - p =< badPolls * MaxLag + lag

LEMMA StepNear == PlaceInv /\ PrefixInv /\ NearInv /\ [Next]_vars => NearInv'
<1> SUFFICES ASSUME PlaceInv, PrefixInv, NearInv, [Next]_vars PROVE NearInv'
  OBVIOUS
<1> USE DEF fifoV, prodV, flagV, tuneV, envV, pubV, ringV, burstV, drainV, engV, statV
<1>0. /\ TypeOK /\ TrackInv /\ ControlInv /\ DistInv /\ SpaceInv /\ LastInv
      /\ replay \in Seq(Nat) /\ eng \in Nat /\ lag \in Int /\ trk.rd \in Nat /\ trk.wr \in Nat
      /\ badPolls \in Nat /\ badPolls * MaxLag \in Nat /\ MaxLag \in Nat /\ Pacing \in Nat
      /\ adv \in Nat
  BY BadPolls, ConstantTypes DEF PlaceInv, TypeOK, Trackers
<1>a. trk'.rd \in Nat /\ trk'.wr \in Nat
  <2>1. PlaceInv'
    BY StepPlace
  <2> QED
    BY <2>1 DEF PlaceInv, TypeOK, Trackers
<1>1. ASSUME UNCHANGED <<trk, ring, on, eng, lag, badPolls>>
      PROVE  NearInv'
  BY <1>1 DEF NearInv, Content
<1>2. ASSUME ~on' PROVE NearInv'
  BY <1>2 DEF NearInv
<1>3. CASE Producer \/ RequestRetune \/ PublishModel \/ StartClear \/ StopBegin
           \/ EngineFault \/ FaultClears \/ PrerollExpires \/ UNCHANGED vars
  <2>1. UNCHANGED <<trk, ring, on, eng, lag, badPolls>>
    BY <1>3 DEF Producer, WriteBegin, WritePush, EndBurst, RequestRetune, PublishModel,
                StartClear, StopBegin, EngineFault, FaultClears, PrerollExpires, vars
  <2> QED
    BY <1>1, <2>1
<1>4. CASE FeederExit \/ RetuneBegin \/ PublishDrain \/ PumpDone
  BY <1>1, <1>4 DEF FeederExit, RetuneBegin, PublishDrain, PumpDone
<1>5. CASE StartRun \/ StopFinish \/ RetuneRebuild \/ FeederFill
  BY <1>0, <1>2, <1>5 DEF StartRun, StopFinish, RetuneRebuild, FeederFill, ControlInv, AtRest,
                          TrackInv
<1>6. CASE FeederTop \/ FeederAdvance
  <2>1. /\ UNCHANGED <<on, eng, lag, badPolls>>
        /\ UNCHANGED <<trk, ring>> \/ ~on
    BY <1>6 DEF FeederTop, RefreshModel, FeederAdvance, ApplyAdvance, KeepAdvance
  <2> QED
    BY <1>1, <1>2, <2>1
<1>7. ASSUME fpc \in {"pump", "starve"}, trk'.rd = trk.rd, UNCHANGED <<on, eng, lag, badPolls>>
      PROVE  NearInv'
  <2> SUFFICES ASSUME on, NEW p \in trk'.rd..trk'.wr - 1
               PROVE  eng - p =< badPolls * MaxLag + lag
    BY <1>7 DEF NearInv
  <2>1. trk.rd = eng - lag
    BY <1>0, <1>7 DEF TrackInv
  <2>2. p \in Int /\ p >= trk.rd
    BY <1>7, <1>a
  <2> QED
    BY <1>0, <2>1, <2>2
<1>8. CASE FeederStarve
  <2>1. trk'.rd = trk.rd
    BY <1>0, <1>8, StarveStep
  <2> QED
    BY <1>7, <1>8, <2>1 DEF FeederStarve
<1>9. CASE PumpReplay
  <2>1. PICK m \in 1..Len(replay) : Replays(m)
    BY <1>0, <1>9, ReplayStep DEF LastInv
  <2> QED
    BY <1>7, <1>9, <2>1 DEF PumpReplay, Replays, DataWrite
<1>10. CASE PumpFifo
  <2>1. PICK m \in Nat \ {0} : Takes(m)
    BY <1>0, <1>10, TakeStep
  <2> QED
    BY <1>7, <1>10, <2>1 DEF PumpFifo, Takes, DataWrite
<1>11. CASE Poll
  <2>1. trk'.rd = eng /\ eng' = eng /\ badPolls' = 0 /\ lag' = 0
    BY <1>0, <1>11, PollStep DEF Poll
  <2>2. 0 * MaxLag = 0
    BY <1>0
  <2>3. \A p \in trk'.rd..trk'.wr - 1 : eng' - p =< badPolls' * MaxLag + lag'
    BY <1>0, <1>a, <2>1, <2>2
  <2> QED
    BY <2>3 DEF NearInv
<1>12. CASE PollBad
  <2>1. /\ UNCHANGED <<trk, ring, on, eng>> /\ badPolls' = badPolls + 1 /\ lag' = 0
    BY <1>12 DEF PollBad
  <2>2. badPolls' * MaxLag = badPolls * MaxLag + MaxLag
    BY <1>0, <2>1, BadPolls
  <2> DEFINE b == badPolls * MaxLag
  <2> SUFFICES ASSUME on, NEW p \in trk.rd..trk.wr - 1, Content(p) # 0
               PROVE  eng - p =< badPolls' * MaxLag + lag'
    BY <2>1 DEF NearInv, Content
  <2>3. eng - p =< b + lag /\ lag =< MaxLag
    BY <1>0 DEF NearInv, DistInv
  <2>4. b \in Nat /\ badPolls' * MaxLag = b + MaxLag
    BY <1>0, <2>2
  <2> HIDE DEF b
  <2> QED
    BY <1>0, <2>1, <2>3, <2>4
<1>13. CASE FeederStart
  <2>1. CASE MayStart
    <3>1. /\ UNCHANGED <<trk, ring>> /\ ~on /\ eng' = 0 /\ lag' = -Pacing /\ badPolls' = 0
          /\ trk.rd = 0
      BY <1>0, <1>13, <2>1 DEF FeederStart, TrackInv
    <3>2. prefix = Pacing + 1 + adv /\ \A p \in 0..prefix - 1 : Content(p) = 0
      BY <1>13, <3>1 DEF FeederStart, PrefixInv, Prefixed
    <3>3. 0 * MaxLag = 0
      BY <1>0
    <3>4. ASSUME NEW p \in trk.rd..trk.wr - 1, Content(p) # 0
          PROVE  eng' - p =< badPolls' * MaxLag + lag'
      <4>1. p \in Nat /\ p \notin 0..prefix - 1
        BY <1>0, <3>1, <3>2, <3>4
      <4>2. p >= Pacing
        BY <1>0, <3>2, <4>1
      <4>3. badPolls' * MaxLag = 0
        BY <3>1, <3>3
      <4> QED
        BY <1>0, <3>1, <4>1, <4>2, <4>3
    <3> QED
      BY <3>1, <3>4 DEF NearInv, Content
  <2>2. CASE ~MayStart
    <3>1. ~on' 
      BY <1>0, <1>13, <2>2 DEF FeederStart, TrackInv
    <3> QED
      BY <1>2, <3>1
  <2> QED
    BY <2>1, <2>2
<1>14. CASE EngineStep
  <2>1. UNCHANGED <<trk, ring, badPolls, on>> /\ eng' = eng + 1 /\ lag' = lag + 1
    BY <1>14 DEF EngineStep
  <2> SUFFICES ASSUME on, NEW p \in trk.rd..trk.wr - 1, Content(p) # 0
               PROVE  eng' - p =< badPolls * MaxLag + lag'
    BY <2>1 DEF NearInv, Content
  <2> DEFINE b == badPolls * MaxLag
  <2>2. eng - p =< b + lag /\ b \in Nat
    BY <1>0 DEF NearInv
  <2> HIDE DEF b
  <2>3. eng' - p =< b + lag'
    BY <1>0, <2>1, <2>2
  <2> QED
    BY <2>3 DEF b
<1> QED
  BY <1>3, <1>4, <1>5, <1>6, <1>8, <1>9, <1>10, <1>11, <1>12, <1>13, <1>14
  DEF Next, Control, Feeder, Engine

(* From one data slot of the ring to a later one, the number grows by no    *)
(* more than the position.                                                 *)
LEMMA Slope ==
  ASSUME NEW f \in Int, NEW w \in Int, NEW g \in Rings, NEW rp \in Seq(Nat), NEW k \in Nat,
         PathOK(f, w, g, rp, k),
         NEW x \in f..w - 1, NEW y \in f..w - 1, x < y,
         g[RingSlot(x)] # 0, g[RingSlot(y)] # 0
  PROVE  g[RingSlot(y)] - g[RingSlot(x)] =< y - x
<1> DEFINE c(p) == g[RingSlot(p)]
           Steep(d) == /\ x + d \in f..w - 1 /\ d > 0 /\ c(x + d) # 0
                       /\ c(x + d) - c(x) > d
           S == {d \in Nat : Steep(d)}
<1>1. \A p \in f..w - 1 : c(p) \in Nat /\ c(p) =< k
  <2> TAKE p \in f..w - 1
  <2>1. p \in Int
    OBVIOUS
  <2>2. RingSlot(p) \in 0..N - 1
    BY <2>1, SlotType
  <2> QED
    BY <2>2 DEF PathOK, Below, Rings
<1>2. ASSUME S # {}
      PROVE  FALSE
  <2>1. PICK d \in S : \A e \in S : d =< e
    <3>1. S \in SUBSET Nat
      OBVIOUS
    <3> HIDE DEF S
    <3> QED
      BY <1>2, <3>1, LeastElement
  <2>2. d \in Nat /\ d > 0 /\ x + d \in f..w - 1 /\ c(x + d) # 0 /\ c(x + d) - c(x) > d
    OBVIOUS
  <2> DEFINE n == c(x + d) - 1
             a == c(x)
  <2>3. /\ c(x + d) \in Nat /\ c(x + d) =< k /\ a \in Nat /\ a # 0
    BY <1>1, <2>2
  <2>4. n \in Nat \ {0} /\ a < n /\ n =< k /\ c(x + d) = n + 1 /\ n - a >= d
    <3> HIDE DEF a, c
    <3> QED
      BY <2>2, <2>3 DEF a
  <2> HIDE DEF n
  <2>5. OnPath(f, w, g, rp, n)
    <3>1. OnPath(f, w, g, rp, a) /\ a \in Nat \ {0}
      BY <2>3 DEF OnPath, InRing
    <3>2. n \in a..k
      BY <2>3, <2>4
    <3> QED
      BY <3>1, <3>2 DEF PathOK, Gapless
  <2>6. ~InReplay(rp, n)
    <3>1. ASSUME NEW i \in 1..Len(rp), rp[i] = n
          PROVE  c(x + d) < n
      BY <2>2, <2>4, <3>1 DEF PathOK, Ordered
    <3>2. ~ (c(x + d) < n)
      BY <2>4
    <3> QED
      BY <3>1, <3>2 DEF InReplay
  <2>7. PICK q \in f..w - 1 : c(q) = n
    BY <2>5, <2>6 DEF OnPath, InRing
  <2>8. x < q /\ q < x + d
    <3>1. \A u, v \in f..w - 1 : u < v /\ c(u) # 0 /\ c(v) # 0 => c(u) < c(v)
      BY DEF PathOK, Ordered
    <3>2. q < x => c(q) < c(x)
      BY <2>3, <2>4, <2>7, <3>1
    <3>3. x + d < q => c(x + d) < c(q)
      BY <2>2, <2>4, <2>7, <3>1
    <3>4. c(q) = n /\ a < n /\ c(x + d) = n + 1 /\ n \in Nat /\ a \in Nat
      BY <2>3, <2>4, <2>7
    <3>5. ~ (q < x) /\ q # x
      BY <3>2, <3>4
    <3>6. ~ (x + d < q)
      BY <3>3, <3>4
    <3>7. q # x + d
      <4>1. q = x + d => c(q) = c(x + d)
        BY Zenon
      <4>2. c(q) # c(x + d)
        BY <3>4
      <4> QED
        BY <4>1, <4>2, Zenon
    <3> QED
      BY <2>2, <3>5, <3>6, <3>7
  <2> DEFINE e == q - x
  <2>9. e \in Nat /\ e < d /\ e > 0 /\ x + e = q
    BY <2>2, <2>8
  <2>10. Steep(e)
    <3>1. x + e \in f..w - 1 /\ c(x + e) = n
      BY <2>7, <2>9
    <3>2. n - a > e
      BY <2>2, <2>3, <2>4, <2>9
    <3> HIDE DEF c, e
    <3> QED
      BY <2>4, <2>9, <3>1, <3>2 DEF a
  <2>11. e \in S
    BY <2>9, <2>10
  <2> HIDE DEF S, e
  <2> QED
    BY <2>1, <2>2, <2>9, <2>11
<1>3. y - x \in Nat /\ y - x > 0 /\ x + (y - x) = y
  OBVIOUS
<1>4. ~Steep(y - x)
  BY <1>2, <1>3
<1> QED
  BY <1>1, <1>3, <1>4
-----------------------------------------------------------------------------
(* What the faults so far may have had the engine execute again; a fault    *)
(* counts once the feeder has recovered from it.                           *)
Spent == (IF fault = "none" THEN faults ELSE faults - 1) * ResentPerFault

(* A slot that was executed and lies ahead of the engine, or in the replay  *)
(* buffer, is no older than the faults account for; behind the engine its   *)
(* distance comes on top, which a fault without a position turns into work  *)
(* done twice.                                                             *)
ResendInv ==
  /\ \A p \in PathFrom..trk.wr - 1 :
       Content(p) # 0 => sent - Content(p) =< Spent + Larger(0, eng - p)
  /\ \A i \in 1..Len(replay) : replay[i] # 0 => sent - replay[i] =< Spent

LEMMA SpentGrows ==
  ASSUME TypeOK, ControlInv
  PROVE  /\ ResentPerFault \in Nat /\ Spent \in Nat /\ faults * ResentPerFault \in Nat
         /\ Spent =< faults * ResentPerFault
         /\ fault # "none" => Spent + ResentPerFault = faults * ResentPerFault
         /\ fault = "none" => Spent = faults * ResentPerFault
<1> DEFINE r == ResentPerFault
<1>1. r \in Nat
  <2>1. BadPollLimit * MaxLag \in Nat
    BY BadPolls
  <2> QED
    BY <2>1, ConstantTypes DEF ResentPerFault
<1>2. faults \in Nat /\ (fault # "none" => faults > 0)
  BY DEF TypeOK, ControlInv
<1>3. Spent = (IF fault = "none" THEN faults ELSE faults - 1) * r
  BY DEF Spent
<1> HIDE DEF r
<1>4. faults * r \in Nat
  BY <1>1, <1>2
<1>5. CASE fault = "none"
  <2>1. Spent = faults * r
    BY <1>3, <1>5
  <2> QED
    BY <1>1, <1>4, <1>5, <2>1 DEF r
<1>6. CASE fault # "none"
  <2> DEFINE a == faults - 1
  <2>1. a \in Nat /\ faults = a + 1
    BY <1>2, <1>6
  <2>2. Spent = a * r
    BY <1>3, <1>6
  <2> HIDE DEF a
  <2>3. a * r \in Nat /\ (a + 1) * r = a * r + r
    BY <1>1, <2>1
  <2> QED
    BY <1>1, <1>4, <1>6, <2>1, <2>2, <2>3 DEF r
<1> QED
  BY <1>5, <1>6

SpentSum ==
  /\ Spent \in Nat
  /\ fault # "none" => Spent + ResentPerFault = faults * ResentPerFault
  /\ fault = "none" => Spent = faults * ResentPerFault

LEMMA SpentFits == PlaceInv => SpentSum
BY SpentGrows DEF PlaceInv, SpentSum

LEMMA NextSpent == PlaceInv' => SpentSum'
BY SpentFits, PTL

LEMMA StepSpent == PlaceInv /\ PlaceInv' /\ [Next]_vars => Spent =< Spent'
<1> SUFFICES ASSUME PlaceInv, PlaceInv', [Next]_vars PROVE Spent =< Spent'
  OBVIOUS
<1> USE DEF fifoV, prodV, flagV, tuneV, envV, pubV, ringV, burstV, drainV, engV, statV
<1>1. /\ ResentPerFault \in Nat /\ Spent \in Nat /\ faults * ResentPerFault \in Nat
      /\ Spent =< faults * ResentPerFault
      /\ fault = "none" => Spent = faults * ResentPerFault
  BY SpentGrows DEF PlaceInv
<1>2. /\ fault' # "none" => Spent' + ResentPerFault = faults' * ResentPerFault
      /\ fault' = "none" => Spent' = faults' * ResentPerFault
      /\ Spent' \in Nat
  <2>1. ResentPerFault' = ResentPerFault
    BY DEF ResentPerFault
  <2> QED
    BY <2>1, NextSpent DEF SpentSum
<1>3. \/ UNCHANGED <<fault, faults>>
      \/ faults' = faults /\ fault' = "none"
      \/ faults' = faults + 1 /\ fault = "none" /\ fault' # "none"
  <2>1. CASE Producer \/ Control \/ PrerollExpires \/ Engine \/ UNCHANGED vars
    BY <2>1 DEF Producer, WriteBegin, WritePush, EndBurst, Control, RequestRetune, PublishModel,
           StartClear, StartRun, StopBegin, StopFinish, PrerollExpires, Engine, EngineStep,
           EngineFault, FaultClears, vars
  <2>2. CASE Feeder
    BY <2>2 DEF Feeder, FeederExit, FeederTop, RetuneBegin, RetuneRebuild, FeederAdvance,
           FeederFill, PollBad, Poll, PumpReplay, PumpFifo, PumpDone, FeederStart, FeederStarve,
           PublishDrain
  <2> QED
    BY <2>1, <2>2 DEF Next
<1>4. CASE UNCHANGED <<fault, faults>>
  <2>1. Spent' = Spent
    BY <1>4 DEF Spent, ResentPerFault
  <2> QED
    BY <1>1, <2>1
<1>5. CASE faults' = faults /\ fault' = "none"
  BY <1>1, <1>2, <1>5
<1>6. CASE faults' = faults + 1 /\ fault = "none" /\ fault' # "none"
  <2>1. (faults + 1) * ResentPerFault = faults * ResentPerFault + ResentPerFault
    <3> DEFINE r == ResentPerFault
    <3>1. r \in Nat /\ faults \in Nat
      BY <1>1 DEF PlaceInv, TypeOK
    <3> HIDE DEF r
    <3>2. (faults + 1) * r = faults * r + r
      BY <3>1
    <3> QED
      BY <3>2 DEF r
  <2> DEFINE m == faults * ResentPerFault
             r == ResentPerFault
             s == Spent
             s2 == Spent'
  <2>2. /\ m \in Nat /\ r \in Nat /\ s \in Nat /\ s2 \in Nat /\ s = m /\ s2 + r = m + r
    BY <1>1, <1>2, <1>6, <2>1
  <2> HIDE DEF m, r, s, s2
  <2>3. s =< s2
    BY <2>2
  <2> QED
    BY <2>3 DEF s, s2
<1> QED
  BY <1>3, <1>4, <1>5, <1>6

(* What the step leaves on the path was there, or was never executed.       *)
LEMMA SameResend ==
  ASSUME PlaceInv, PlaceInv', ResendInv, Spent =< Spent', sent' = sent, eng =< eng',
         \A p \in PathFrom'..trk'.wr - 1 :
           Content(p)' # 0 => \/ p \in PathFrom..trk.wr - 1 /\ Content(p)' = Content(p)
                              \/ \E i \in 1..Len(replay) : Content(p)' = replay[i]
                              \/ Content(p)' > sent,
         \A i \in 1..Len(replay') :
           replay'[i] # 0 => \/ \E j \in 1..Len(replay) : replay'[i] = replay[j]
                             \/ sent - replay'[i] =< Spent'
  PROVE  ResendInv'
<1> DEFINE s == sent
           a == Spent
           b == Spent'
           e == eng
           e2 == eng'
           f2 == PathFrom'
           w2 == trk'.wr
<1>1. /\ s \in Nat /\ a \in Nat /\ b \in Nat /\ e \in Nat /\ e2 \in Nat /\ a =< b /\ e =< e2
      /\ f2 \in Nat /\ w2 \in Nat /\ ring' \in Rings /\ replay' \in Seq(Nat)
  <2>1. Spent \in Nat /\ Spent' \in Nat
    BY SpentFits, NextSpent DEF SpentSum
  <2> QED
    BY <2>1, PathPlaces, NextPlaces DEF Places
<1>2. ASSUME NEW p \in f2..w2 - 1, Content(p)' # 0
      PROVE  s - Content(p)' =< b + Larger(0, e2 - p)
  <2> DEFINE c == Content(p)'
  <2>0. c \in Nat
    <3>1. p \in Int
      BY <1>1
    <3>2. RingSlot(p) \in 0..N - 1
      BY <3>1, SlotType
    <3> QED
      BY <1>1, <3>2 DEF Content, Rings
  <2>1. \/ s - c =< a + Larger(0, e - p)
        \/ s - c =< a
        \/ c > s
    BY <1>2 DEF ResendInv
  <2> HIDE DEF a, b, c, s, e, e2, f2, w2
  <2>2. Larger(0, e - p) =< Larger(0, e2 - p) /\ Larger(0, e2 - p) >= 0
        /\ Larger(0, e - p) \in Int /\ Larger(0, e2 - p) \in Int
    BY <1>1 DEF Larger
  <2>3. s - c =< b + Larger(0, e2 - p)
    BY <1>1, <2>0, <2>1, <2>2
  <2> QED
    BY <2>3 DEF c
<1>3. ASSUME NEW i \in 1..Len(replay'), replay'[i] # 0
      PROVE  s - replay'[i] =< b
  <2> DEFINE c == replay'[i]
  <2>0. c \in Nat
    BY <1>1
  <2>1. s - c =< a \/ s - c =< b
    BY <1>3 DEF ResendInv
  <2> HIDE DEF a, b, c, s
  <2>2. s - c =< b
    BY <1>1, <2>0, <2>1
  <2> QED
    BY <2>2 DEF c
<1>4. /\ \A p \in PathFrom'..trk'.wr - 1 :
           Content(p)' # 0 => sent' - Content(p)' =< Spent' + Larger(0, eng' - p)
      /\ \A i \in 1..Len(replay') : replay'[i] # 0 => sent' - replay'[i] =< Spent'
  BY <1>2, <1>3
<1> QED
  BY <1>4 DEF ResendInv
-----------------------------------------------------------------------------
LEMMA StillResend ==
  ASSUME PlaceInv, PlaceInv', ResendInv, Spent =< Spent', From =< From',
         UNCHANGED <<trk, ring, replay, sent, eng>>
  PROVE  ResendInv'
<1>1. /\ PathFrom =< PathFrom' /\ PathFrom \in Nat /\ PathFrom' \in Nat /\ trk.wr \in Nat
      /\ eng =< eng'
  <2>1. eng \in Nat
    BY PathPlaces DEF Places
  <2> QED
    BY <2>1, SameStalls, PathPlaces, NextPlaces DEF Places, PathFrom
<1>2. \A p \in PathFrom'..trk'.wr - 1 : p \in PathFrom..trk.wr - 1 /\ Content(p)' = Content(p)
  BY <1>1 DEF Content
<1>3. \A i \in 1..Len(replay') : \E j \in 1..Len(replay) : replay'[i] = replay[j]
  OBVIOUS
<1>4. sent' = sent
  OBVIOUS
<1> QED
  BY <1>1, <1>2, <1>3, <1>4, SameResend

(* An empty ring, and a replay buffer of slots the faults account for.      *)
LEMMA EmptyResend ==
  ASSUME PlaceInv', \A s \in 0..N - 1 : ring'[s] = 0,
         \A i \in 1..Len(replay') : replay'[i] # 0 => sent' - replay'[i] =< Spent'
  PROVE  ResendInv'
<1>1. ASSUME NEW p \in PathFrom'..trk'.wr - 1 PROVE Content(p)' = 0
  <2>1. p \in Int
    BY NextPlaces DEF Places
  <2>2. RingSlot(p) \in 0..N - 1
    BY <2>1, SlotType
  <2> QED
    BY <2>2 DEF Content
<1> QED
  BY <1>1 DEF ResendInv

LEMMA IdleResend ==
  ASSUME PlaceInv, PlaceInv', ResendInv, Spent =< Spent', IdleWrite
  PROVE  ResendInv'
<1> DEFINE f  == PathFrom
           f2 == PathFrom'
           w  == trk.wr
           w2 == trk'.wr
<1>1. /\ UNCHANGED <<replay, on, eng, sent>> /\ trk.rd =< trk'.rd /\ w =< w2
      /\ \A p \in trk'.rd..w2 - 1 :
           IF p < w THEN Content(p)' = Content(p)
                    ELSE Content(p)' = 0 \/ (p = trk'.rd /\ on /\ ~ShortStalls)
  BY DEF IdleWrite
<1>2. /\ f \in Nat /\ f2 \in Nat /\ w \in Nat /\ w2 \in Nat /\ trk.rd \in Nat
      /\ trk'.rd \in Nat /\ trk'.rd =< f2 /\ eng \in Nat /\ (on => trk'.rd < From)
  <2>1. From' = From /\ on' = on
    BY <1>1 DEF From
  <2> QED
    BY <2>1, PathPlaces, NextPlaces DEF Places
<1>3. f =< f2 /\ (~ShortStalls => f2 = From)
  BY <1>1, <1>2, SameStalls DEF PathFrom, From
<1>4. ASSUME NEW p \in f2..w2 - 1, Content(p)' # 0
      PROVE  p \in f..w - 1 /\ Content(p)' = Content(p)
  <2> HIDE DEF f, f2, w, w2
  <2>1. p \in trk'.rd..w2 - 1 /\ p >= f
    BY <1>2, <1>3
  <2>2. ~ (p = trk'.rd /\ on /\ ~ShortStalls)
    BY <1>2, <1>3
  <2>3. p < w /\ Content(p)' = Content(p)
    BY <1>1, <1>4, <2>1, <2>2
  <2> QED
    BY <1>2, <2>1, <2>3
<1>5. \A i \in 1..Len(replay') : \E j \in 1..Len(replay) : replay'[i] = replay[j]
  BY <1>1
<1>6. sent' = sent /\ eng =< eng'
  BY <1>1, <1>2
<1> QED
  BY <1>4, <1>5, <1>6, SameResend

LEMMA ReplayResend ==
  ASSUME PlaceInv, PlaceInv', ResendInv, Spent =< Spent', NEW m \in 1..Len(replay), Replays(m)
  PROVE  ResendInv'
<1> DEFINE part == SubSeq(replay, 1, m)
           rest == SubSeq(replay, m + 1, Len(replay))
           w    == trk.wr
           w2   == trk'.wr
<1>1. /\ PathFrom \in Nat /\ w \in Nat /\ w2 \in Nat /\ trk.rd \in Nat /\ trk.rd =< PathFrom
      /\ replay \in Seq(Nat) /\ eng \in Nat
  BY PathPlaces, NextPlaces DEF Places
<1>2. Len(part) = m /\ \A i \in 1..m : part[i] = replay[i]
  BY <1>1
<1>3. \A i \in 1..Len(rest) : \E j \in 1..Len(replay) : rest[i] = replay[j]
  <2> TAKE i \in 1..Len(rest)
  <2>1. Len(rest) = Len(replay) - m /\ rest[i] = replay[m + i]
    BY <1>1
  <2>2. m + i \in 1..Len(replay)
    BY <1>1, <2>1
  <2> QED
    BY <2>1, <2>2
<1> HIDE DEF part
<1>4. /\ w2 = w + m /\ UNCHANGED <<on, eng, sent>> /\ replay' = rest /\ trk'.rd = trk.rd
      /\ \A p \in trk.rd..w2 - 1 : Content(p)' = IF p < w THEN Content(p) ELSE part[p - w + 1]
  BY <1>2 DEF Replays, DataWrite, part
<1> HIDE DEF rest, w, w2
<1>5. PathFrom' = PathFrom
  BY <1>4, SameStalls DEF PathFrom, From
<1>6. ASSUME NEW p \in PathFrom'..w2 - 1
      PROVE  \/ p \in PathFrom..w - 1 /\ Content(p)' = Content(p)
             \/ \E i \in 1..Len(replay) : Content(p)' = replay[i]
  <2>1. p \in trk.rd..w2 - 1 /\ p >= PathFrom
    BY <1>1, <1>5
  <2>2. CASE p < w
    BY <1>1, <1>4, <2>1, <2>2
  <2>3. CASE ~ (p < w)
    <3>1. p - w + 1 \in 1..m
      BY <1>1, <1>4, <2>1, <2>3
    <3>2. Content(p)' = replay[p - w + 1] /\ p - w + 1 \in 1..Len(replay)
      BY <1>1, <1>2, <1>4, <2>1, <2>3, <3>1
    <3> QED
      BY <3>2
  <2> QED
    BY <2>2, <2>3
<1>7. sent' = sent /\ eng =< eng'
  BY <1>1, <1>4
<1> QED
  BY <1>3, <1>4, <1>6, <1>7, SameResend DEF w, w2

LEMMA TakeResend ==
  ASSUME PlaceInv, PlaceInv', PathInv, ResendInv, Spent =< Spent',
         NEW m \in Nat \ {0}, Takes(m)
  PROVE  ResendInv'
<1> DEFINE k == tail * K
           d == m * K
           part == SlotsOf(tail, m)
           w    == trk.wr
           w2   == trk'.wr
<1>1. /\ PathFrom \in Nat /\ w \in Nat /\ w2 \in Nat /\ trk.rd \in Nat /\ trk.rd =< PathFrom
      /\ eng \in Nat /\ k \in Nat /\ sent \in Nat /\ sent =< k /\ d \in Nat
  BY PathPlaces, NextPlaces, ConstantTypes DEF Places, PathInv
<1>2. Len(part) = d /\ \A i \in 1..d : part[i] = k + i
  BY <1>1 DEF SlotsOf
<1>3. /\ w2 = w + d /\ UNCHANGED <<on, eng, sent>> /\ replay' = <<>> /\ trk'.rd = trk.rd
      /\ \A p \in trk.rd..w2 - 1 : Content(p)' = IF p < w THEN Content(p) ELSE part[p - w + 1]
  BY <1>2 DEF Takes, DataWrite
<1> HIDE DEF part, d, k, w, w2
<1>4. PathFrom' = PathFrom
  BY <1>3, SameStalls DEF PathFrom, From
<1>5. ASSUME NEW p \in PathFrom'..w2 - 1
      PROVE  (p \in PathFrom..w - 1 /\ Content(p)' = Content(p)) \/ Content(p)' > sent
  <2>1. p \in trk.rd..w2 - 1 /\ p >= PathFrom
    BY <1>1, <1>4
  <2>2. CASE p < w
    BY <1>1, <1>3, <2>1, <2>2
  <2>3. CASE ~ (p < w)
    <3>1. p - w + 1 \in 1..d
      BY <1>1, <1>3, <2>1, <2>3
    <3>2. Content(p)' = k + (p - w + 1)
      BY <1>2, <1>3, <2>1, <2>3, <3>1
    <3> QED
      BY <1>1, <3>1, <3>2
  <2> QED
    BY <2>2, <2>3
<1>6. \A i \in 1..Len(replay') : FALSE
  BY <1>3
<1>7. sent' = sent /\ eng =< eng'
  BY <1>1, <1>3
<1> QED
  BY <1>5, <1>6, <1>7, SameResend DEF w, w2
-----------------------------------------------------------------------------
(* A rebuild that has a position to go by keeps what lies ahead of it; one  *)
(* without keeps what the engine executed since the last valid poll too.    *)
LEMMA RebuildResend ==
  ASSUME PlaceInv, PlaceInv', NearInv, ResendInv, Spent =< Spent', ShortStalls, RetuneRebuild
  PROVE  ResendInv'
<1>1. PICK r, first \in Nat : \E seq \in Seq(Nat) :
        /\ r = IF on /\ fault # "lost" THEN eng ELSE trk.rd
        /\ trk.rd =< r /\ r =< eng
        /\ Kept(r, first, seq, trk.wr, ring)
        /\ replay' = seq \o replay
  BY RebuildKeeps
<1>2. PICK seq \in Seq(Nat) :
        Kept(r, first, seq, trk.wr, ring) /\ replay' = seq \o replay
  BY <1>1
<1>3. /\ ResetRing /\ sent' = sent /\ fault' = "none" /\ faults' = faults
  BY DEF RetuneRebuild
<1>4. \A s \in 0..N - 1 : ring'[s] = 0
  BY <1>3, EmptyRing
<1>5. /\ trk.rd \in Nat /\ trk.wr \in Nat /\ eng \in Nat /\ PathFrom = trk.rd
      /\ ring \in Rings /\ replay \in Seq(Nat) /\ sent \in Nat /\ (~on => eng = 0)
      /\ Spent \in Nat /\ Spent' \in Nat
  BY PathPlaces, SpentFits, NextSpent DEF Places, PathFrom, SpentSum, PlaceInv, TrackInv
<1>6. fault = "lost" => Spent + ResentPerFault = Spent'
  <2>1. ResentPerFault' = ResentPerFault
    BY DEF ResentPerFault
  <2> QED
    BY <1>3, <2>1, SpentFits, NextSpent DEF SpentSum
<1>7. ASSUME NEW p \in r..trk.wr - 1, Content(p) # 0
      PROVE  sent - Content(p) =< Spent'
  <2> DEFINE c == Content(p)
             s == sent
             a == Spent
             b == Spent'
             n == ResentPerFault
  <2>1. p \in trk.rd..trk.wr - 1
    BY <1>1, <1>5
  <2>2. s - c =< a + Larger(0, eng - p)
    BY <1>5, <1>7, <2>1 DEF ResendInv
  <2>3. c \in Nat /\ s \in Nat /\ a \in Nat /\ b \in Nat /\ a =< b /\ n \in Nat
    <3>0. p \in Int
      BY <1>5, <2>1
    <3>1. RingSlot(p) \in 0..N - 1
      BY <3>0, SlotType
    <3>2. ResentPerFault \in Nat
      BY SpentGrows DEF PlaceInv
    <3> QED
      BY <1>5, <3>1, <3>2 DEF Content, Rings
  <2>4. CASE on /\ fault = "lost"
    <3>1. eng - p =< n
      <4> DEFINE m == badPolls * MaxLag + lag
      <4>1. eng - p =< m
        BY <1>7, <2>1, <2>4 DEF NearInv
      <4>2. m =< n
        BY <2>4, EngineWithinReach DEF PlaceInv, ResentPerFault
      <4>3. m \in Int
        <5>1. badPolls \in Nat /\ lag \in Int
          BY DEF PlaceInv, TypeOK
        <5> QED
          BY <5>1, BadPolls
      <4> HIDE DEF m, n
      <4> QED
        BY <1>5, <2>1, <2>3, <4>1, <4>2, <4>3
    <3>2. a + n = b
      BY <1>6, <2>4
    <3> HIDE DEF a, b, c, n, s
    <3>3. Larger(0, eng - p) =< n /\ Larger(0, eng - p) \in Int
      BY <1>5, <2>1, <2>3, <3>1 DEF Larger
    <3>4. s - c =< b
      BY <2>2, <2>3, <3>2, <3>3
    <3> QED
      BY <3>4 DEF b, c, s
  <2>5. CASE ~ (on /\ fault = "lost")
    <3>1. eng =< p
      BY <1>1, <1>5, <2>1, <2>5
    <3>2. Larger(0, eng - p) = 0
      BY <1>5, <2>1, <3>1 DEF Larger
    <3> HIDE DEF a, b, c, n, s
    <3>3. s - c =< b
      BY <2>2, <2>3, <3>2
    <3> QED
      BY <3>3 DEF b, c, s
  <2> QED
    BY <2>4, <2>5
<1>8. ASSUME NEW i \in 1..Len(replay'), replay'[i] # 0
      PROVE  sent - replay'[i] =< Spent'
  <2> DEFINE l == Len(seq)
             m == Len(replay)
  <2>1. /\ l \in Nat /\ m \in Nat /\ i \in 1..l + m
        /\ replay'[i] = IF i =< l THEN seq[i] ELSE replay[i - l]
    BY <1>2, <1>5
  <2>2. CASE i =< l
    <3> DEFINE p == first + i - 1
    <3>1. seq[i] = Content(p) /\ r =< first /\ (l = 0 \/ first + l =< trk.wr)
      BY <2>1, <2>2, <1>2 DEF Kept, Content
    <3>2. p \in r..trk.wr - 1
      <4> DEFINE w == trk.wr
      <4>1. /\ w \in Nat /\ r \in Nat /\ first \in Nat /\ l \in Nat /\ m \in Nat
            /\ i \in 1..l + m /\ i =< l /\ r =< first /\ (l = 0 \/ first + l =< w)
        BY <1>5, <2>1, <2>2, <3>1
      <4> HIDE DEF l, m, w
      <4>2. first + l =< w
        BY <4>1
      <4>3. first + i - 1 \in r..w - 1
        BY <4>1, <4>2
      <4> QED
        BY <4>3 DEF w
    <3> HIDE DEF l, m
    <3> HIDE DEF p
    <3> QED
      BY <1>7, <1>8, <2>1, <2>2, <3>1, <3>2
  <2>3. CASE ~ (i =< l)
    <3>1. replay'[i] = replay[i - l] /\ i - l \in 1..m
      <4> HIDE DEF l, m
      <4> QED
        BY <2>1, <2>3
    <3>2. sent - replay'[i] =< Spent
      BY <1>8, <3>1 DEF ResendInv
    <3>3. replay'[i] \in Nat
      BY <1>5, <3>1
    <3> DEFINE s == sent
               a == Spent
               b == Spent'
               c == replay'[i]
    <3>4. s \in Nat /\ a \in Nat /\ b \in Nat /\ c \in Nat /\ a =< b /\ s - c =< a
      BY <1>5, <3>2, <3>3
    <3> HIDE DEF a, b, c, s
    <3>5. s - c =< b
      BY <3>4
    <3> QED
      BY <3>5 DEF b, c, s
  <2> QED
    BY <2>2, <2>3
<1> QED
  BY <1>3, <1>4, <1>8, EmptyResend

WithinReach == on => eng - trk.rd =< Reach

LEMMA ReachFits == PlaceInv => WithinReach
BY EngineWithinReach DEF PlaceInv, WithinReach

LEMMA NextReach == PlaceInv' => WithinReach'
BY ReachFits, PTL

(* A slot never executed before lies ahead of the engine and before the     *)
(* writer; what is older lies behind it by at least as much.               *)
LEMMA EngineResend ==
  ASSUME ShortStalls \/ NoRebuild, PlaceInv, PlaceInv', PathInv, ResendInv, Spent =< Spent',
         EngineStep
  PROVE  ResendInv'
<1> DEFINE f == PathFrom
           f2 == PathFrom'
           w == trk.wr
           e == eng
           c == Content(eng + 1)
           s == sent
           a == Spent
           b == Spent'
<1>1. /\ UNCHANGED <<trk, ring, replay, tail, on>> /\ on /\ eng' = e + 1
      /\ sent' = Larger(s, c)
  BY DEF EngineStep, ringV, fifoV, Content
<1>2. /\ f \in Nat /\ f2 \in Nat /\ w \in Nat /\ e \in Nat /\ s \in Nat /\ trk.rd \in Nat
      /\ ring \in Rings /\ replay \in Seq(Nat) /\ tail * K \in Nat
      /\ From = e + 1 /\ From' = e + 2 /\ f =< f2 /\ f =< e + 1
      /\ a \in Nat /\ b \in Nat /\ a =< b
      /\ ~ShortStalls => f2 = e + 2
  <2>1. /\ f \in Nat /\ f2 \in Nat /\ w \in Nat /\ e \in Nat /\ s \in Nat /\ trk.rd \in Nat
        /\ ring \in Rings /\ replay \in Seq(Nat) /\ tail * K \in Nat /\ f =< From
    BY PathPlaces, NextPlaces DEF Places
  <2>2. From = e + 1 /\ From' = e + 2
    BY <1>1, <2>1 DEF From
  <2>3. f =< f2 /\ (~ShortStalls => f2 = e + 2)
    BY <1>1, <2>1, <2>2, SameStalls DEF PathFrom
  <2>4. a \in Nat /\ b \in Nat
    BY SpentFits, NextSpent DEF SpentSum
  <2> QED
    BY <2>1, <2>2, <2>3, <2>4
<1>3. c \in Nat
  <2>0. e + 1 \in Int
    BY <1>2
  <2>1. RingSlot(e + 1) \in 0..N - 1
    BY <2>0, SlotType
  <2> QED
    BY <1>2, <2>1 DEF Content, Rings
<1>4. \A p \in f2..w - 1 : p \in f..w - 1 /\ Content(p)' = Content(p)
  BY <1>1, <1>2 DEF Content
<1>5. CASE ~ (c > s)
  <2>1. sent' = sent /\ eng =< eng'
    BY <1>1, <1>2, <1>3, <1>5 DEF Larger
  <2>2. \A i \in 1..Len(replay') : \E j \in 1..Len(replay) : replay'[i] = replay[j]
    BY <1>1
  <2>3. \A p \in f2..trk'.wr - 1 : p \in f..w - 1 /\ Content(p)' = Content(p)
    BY <1>1, <1>4
  <2> QED
    BY <2>1, <2>2, <2>3, SameResend
<1>6. CASE c > s
  <2>1. sent' = c
    BY <1>1, <1>2, <1>3, <1>6 DEF Larger
  <2>2. e + 1 < w \/ ((\A p \in f2..w - 1 : FALSE) /\ replay = <<>>)
    <3> SUFFICES ASSUME ~ (e + 1 < w)
                 PROVE  (\A p \in f2..w - 1 : FALSE) /\ replay = <<>>
      OBVIOUS
    <3>1. ~ShortStalls
      <4> SUFFICES ASSUME ShortStalls PROVE FALSE
        OBVIOUS
      <4>1. (e + 1) - trk.rd =< Reach
        <5> DEFINE e2 == eng'
                   x  == trk.rd
                   x2 == trk'.rd
        <5>1. e2 - x2 =< Reach'
          BY <1>1, NextReach DEF WithinReach
        <5>2. Reach' = Reach /\ e2 = e + 1 /\ x2 = x /\ e \in Nat /\ x \in Nat
          BY <1>1, <1>2 DEF Reach
        <5> HIDE DEF e2, x, x2, e
        <5>3. (e + 1) - x =< Reach
          BY <5>1, <5>2, Zenon
        <5> QED
          BY <5>3, Zenon DEF x
      <4>2. Reach \in Int /\ N \in Int
        <5>1. BadPollLimit * MaxLag \in Nat
          BY BadPolls
        <5> QED
          BY <5>1, ConstantTypes DEF Reach
      <4>3. w =< e + 1 /\ e + 1 < trk.rd + N /\ e + 1 \in Int
        BY <1>2, <4>1, <4>2 DEF ShortStalls
      <4>4. trk \in Trackers /\ Spaced(trk) /\ Held(trk, ring)
        BY DEF PlaceInv, TypeOK, SpaceInv
      <4>5. ring[RingSlot(e + 1)] = 0
        BY <1>2, <4>3, <4>4, HeldAhead
      <4> QED
        BY <1>2, <1>6, <4>5 DEF Content
    <3>2. NoRebuild /\ f2 = e + 2
      BY <1>2, <3>1
    <3>3. replay = <<>>
      BY <3>2 DEF PlaceInv, ControlInv
    <3> QED
      BY <1>2, <3>2, <3>3
  <2>3. PathOK(f, w, ring, replay, tail * K)
    BY DEF PathInv
  <2>4. ASSUME NEW p \in f2..w - 1, Content(p) # 0
        PROVE  c - Content(p) =< b + Larger(0, (e + 1) - p)
    <3> DEFINE d == Content(p)
               y == e + 1
    <3>1. e + 1 < w
      BY <2>2
    <3>2. p \in f..w - 1 /\ y \in f..w - 1 /\ p \in Int /\ c # 0
      BY <1>2, <1>3, <1>4, <1>6, <3>1
    <3>3. d \in Nat
      <4>1. RingSlot(p) \in 0..N - 1
        BY <3>2, SlotType
      <4> QED
        BY <1>2, <4>1 DEF Content, Rings
    <3>4. p < y => c - d =< y - p
      <4>1. p < y => ring[RingSlot(y)] - ring[RingSlot(p)] =< y - p
        <5> HAVE p < y
        <5>1. ring[RingSlot(y)] # 0 /\ ring[RingSlot(p)] # 0
          BY <2>4, <3>2 DEF Content
        <5>2. f \in Int /\ w \in Int
          BY <1>2
        <5> HIDE DEF f, w, y
        <5> QED
          BY <1>2, <2>3, <3>2, <5>1, <5>2, Slope
      <4> QED
        BY <4>1 DEF Content
    <3>5. p = y => c = d
      BY DEF Content
    <3>6. y < p => c < d
      BY <2>3, <2>4, <3>2 DEF PathOK, Ordered, Content
    <3>7. y \in Int
      BY <1>2
    <3> HIDE DEF b, c, d, y
    <3>8. c - d =< b + Larger(0, y - p)
      <4>1. CASE p < y
        BY <1>2, <1>3, <3>2, <3>3, <3>4, <3>7, <4>1 DEF Larger
      <4>2. CASE p = y
        BY <1>2, <1>3, <3>3, <3>5, <3>7, <4>2 DEF Larger
      <4>3. CASE y < p
        BY <1>2, <1>3, <3>2, <3>3, <3>6, <3>7, <4>3 DEF Larger
      <4> QED
        BY <3>2, <3>7, <4>1, <4>2, <4>3
    <3> QED
      BY <3>8 DEF d, y
  <2>5. ASSUME NEW i \in 1..Len(replay), replay[i] # 0
        PROVE  c - replay[i] =< b
    <3> DEFINE y == e + 1
    <3>1. y < w /\ y \in f..w - 1 /\ c # 0
      BY <1>2, <1>3, <1>6, <2>2
    <3>2. c < replay[i]
      BY <2>3, <2>5, <3>1 DEF PathOK, Ordered, Content
    <3>3. replay[i] \in Nat
      BY <1>2
    <3> HIDE DEF b, c
    <3> QED
      BY <1>2, <1>3, <3>2, <3>3
  <2>6. /\ \A p \in f2..trk'.wr - 1 :
             Content(p)' # 0 => sent' - Content(p)' =< b + Larger(0, eng' - p)
        /\ \A i \in 1..Len(replay') : replay'[i] # 0 => sent' - replay'[i] =< b
    BY <1>1, <1>4, <2>1, <2>4, <2>5
  <2> QED
    BY <2>6 DEF ResendInv
<1> QED
  BY <1>5, <1>6
-----------------------------------------------------------------------------
LEMMA StepResend ==
  ASSUME ShortStalls \/ NoRebuild, PlaceInv, PlaceInv', PrefixInv, PathInv, NearInv, ResendInv,
         [Next]_vars
  PROVE  ResendInv'
<1> USE DEF fifoV, prodV, flagV, tuneV, envV, pubV, ringV, burstV, drainV, engV, statV
<1>0. /\ TypeOK /\ TrackInv /\ ControlInv /\ DistInv /\ SpaceInv /\ LastInv
      /\ replay \in Seq(Nat) /\ eng \in Nat /\ From \in Nat /\ sent \in Nat
  BY PathPlaces DEF PlaceInv, TypeOK, Places
<1>a. Spent =< Spent'
  BY StepSpent
<1>1. ASSUME UNCHANGED <<trk, ring, replay, on, eng, sent>>
      PROVE  ResendInv'
  <2>1. From =< From'
    BY <1>0, <1>1 DEF From
  <2> QED
    BY <1>1, <1>a, <2>1, StillResend
<1>2. CASE Producer \/ RequestRetune \/ PublishModel \/ StopBegin
           \/ EngineFault \/ FaultClears \/ PrerollExpires \/ UNCHANGED vars
  <2>1. UNCHANGED <<trk, ring, replay, on, eng, sent>>
    BY <1>2 DEF Producer, WriteBegin, WritePush, EndBurst, RequestRetune, PublishModel,
                StopBegin, EngineFault, FaultClears, PrerollExpires, vars
  <2> QED
    BY <1>1, <2>1
<1>3. CASE FeederExit \/ RetuneBegin \/ PollBad \/ PublishDrain \/ PumpDone
  BY <1>1, <1>3 DEF FeederExit, RetuneBegin, PollBad, PublishDrain, PumpDone
<1>4. CASE StartClear \/ StartRun \/ StopFinish
  <2>1. replay' = <<>> /\ \A s \in 0..N - 1 : ring'[s] = 0
    <3>1. CASE StartClear
      <4>1. AtRest /\ UNCHANGED <<ring, replay>>
        BY <1>0, <3>1 DEF StartClear, ControlInv
      <4> QED
        BY <4>1 DEF AtRest, IdleRing
    <3>2. CASE StartRun \/ StopFinish
      BY <3>2, EmptyRing DEF StartRun, StopFinish
    <3> QED
      BY <1>4, <3>1, <3>2
  <2>2. \A i \in 1..Len(replay') : FALSE
    BY <2>1
  <2> QED
    BY <2>1, <2>2, EmptyResend
<1>5. CASE RetuneRebuild
  <2>1. ShortStalls
    BY <1>0, <1>5 DEF RetuneRebuild, ControlInv
  <2> QED
    BY <1>5, <1>a, <2>1, RebuildResend
<1>6. CASE FeederTop \/ FeederAdvance
  <2>1. /\ UNCHANGED <<replay, on, eng, sent>>
        /\ UNCHANGED <<trk, ring>> \/ ResetRing
    BY <1>6 DEF FeederTop, RefreshModel, FeederAdvance, ApplyAdvance, KeepAdvance
  <2>2. CASE ResetRing
    <3>1. \A s \in 0..N - 1 : ring'[s] = 0
      BY <2>2, EmptyRing
    <3>2. ASSUME NEW i \in 1..Len(replay'), replay'[i] # 0
          PROVE  sent' - replay'[i] =< Spent'
      <4> DEFINE s == sent
                 a == Spent
                 b == Spent'
                 c == replay[i]
      <4>1. sent' = s /\ replay'[i] = c /\ s - c =< a
        BY <2>1, <3>2 DEF ResendInv
      <4>2. s \in Nat /\ a \in Nat /\ b \in Nat /\ c \in Nat /\ a =< b
        BY <1>0, <1>a, <2>1, SpentFits, NextSpent DEF SpentSum
      <4> HIDE DEF a, b, c, s
      <4>3. s - c =< b
        BY <4>1, <4>2
      <4> QED
        BY <4>1, <4>3, Zenon DEF b
    <3> QED
      BY <3>1, <3>2, EmptyResend
  <2> QED
    BY <1>1, <2>1, <2>2
<1>7. CASE FeederFill \/ Poll \/ FeederStarve
  BY <1>0, <1>7, <1>a, IdleSteps, IdleResend
<1>8. CASE PumpReplay
  <2>1. PICK m \in 1..Len(replay) : Replays(m)
    BY <1>0, <1>8, ReplayStep DEF LastInv
  <2> QED
    BY <1>a, <2>1, ReplayResend
<1>9. CASE PumpFifo
  <2>1. PICK m \in Nat \ {0} : Takes(m)
    BY <1>0, <1>9, TakeStep
  <2> QED
    BY <1>a, <2>1, TakeResend
<1>10. CASE FeederStart
  <2>1. UNCHANGED <<trk, ring, replay, sent>> /\ eng' = eng /\ ~on
    BY <1>0, <1>10 DEF FeederStart, TrackInv
  <2>2. From =< From'
    BY <1>0, <2>1 DEF From
  <2> QED
    BY <1>a, <2>1, <2>2, StillResend
<1>11. CASE EngineStep
  BY <1>11, <1>a, EngineResend
<1> QED
  BY <1>2, <1>3, <1>4, <1>5, <1>6, <1>7, <1>8, <1>9, <1>10, <1>11
  DEF Next, Control, Feeder, Engine

LEMMA PathResends == PlaceInv /\ ResendInv => ResendBounded
<1> SUFFICES ASSUME PlaceInv, ResendInv, NEW n \in Numbers
             PROVE  sent - n =< faults * ResentPerFault
  BY DEF ResendBounded
<1> DEFINE s == sent
           a == Spent
           b == faults * ResentPerFault
<1>1. /\ n \in Nat \ {0} /\ OnPath(From, trk.wr, ring, replay, n)
  BY ComingSlots
<1>2. s \in Nat /\ a \in Nat /\ b \in Nat /\ a =< b
  BY SpentGrows, PathPlaces DEF PlaceInv, Places
<1>3. s - n =< a
  <2>1. CASE InReplay(replay, n)
    BY <1>1, <2>1 DEF InReplay, ResendInv
  <2>2. CASE InRing(From, trk.wr, ring, n)
    <3>1. PICK p \in From..trk.wr - 1 : Content(p) = n
      BY <2>2 DEF InRing, Content
    <3>2. /\ From \in Nat /\ PathFrom \in Nat /\ PathFrom =< From /\ trk.wr \in Nat
          /\ eng \in Nat /\ eng =< From
      BY PathPlaces DEF Places, From, PlaceInv, TrackInv
    <3>3. p \in PathFrom..trk.wr - 1 /\ eng - p =< 0 /\ eng - p \in Int
      BY <3>2
    <3>4. s - n =< a + Larger(0, eng - p)
      BY <1>1, <3>1, <3>3 DEF ResendInv
    <3>5. Larger(0, eng - p) = 0
      BY <3>3 DEF Larger
    <3> HIDE DEF s, a
    <3> QED
      BY <1>1, <1>2, <3>4, <3>5
  <2> QED
    BY <1>1, <2>1, <2>2 DEF OnPath
<1> HIDE DEF s, a, b
<1>4. s - n =< b
  BY <1>1, <1>2, <1>3
<1> QED
  BY <1>4 DEF s, b

(* A retune resends nothing that was executed; an engine error without a    *)
(* valid position resends no more than the engine executes until the feeder *)
(* recovers, however many samples, retunes, stops and starts come between.  *)
THEOREM TransmitterResends ==
  ASSUME ShortStalls \/ NoRebuild
  PROVE  Spec /\ []WriterAhead => []ResendBounded
<1> DEFINE RInv == PlaceInv /\ PrefixInv /\ PathInv /\ NearInv /\ ResendInv
<1>1. Init => RInv
  <2>1. Init => NearInv
    BY DEF Init, NearInv
  <2>2. Init => ResendInv
    <3> SUFFICES ASSUME Init PROVE ResendInv
      OBVIOUS
    <3>1. /\ trk.wr = 0 /\ PathFrom = 0 /\ \A i \in 1..Len(replay) : FALSE
      BY DEF Init, Rewound, PathFrom, From
    <3> QED
      BY <3>1 DEF ResendInv
  <2> QED
    BY <2>1, <2>2, InitPlace, InitPrefix, InitPath
<1>2. RInv /\ WriterAhead /\ [Next]_vars => RInv'
  BY StepPlace, StepPrefix, StepPath, StepNear, StepResend
<1>3. RInv => ResendBounded
  BY PathResends
<1> HIDE DEF RInv
<1> QED
  BY <1>1, <1>2, <1>3, PTL DEF Spec
=============================================================================
