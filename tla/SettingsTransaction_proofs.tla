---------------------- MODULE SettingsTransaction_proofs ----------------------
(***************************************************************************)
(* For any callers, requests, profile files and clock constants: a call     *)
(* makes all of its changes or none, no call undoes another, and device,    *)
(* transmitter and clocks agree, and what is in force is legal and can be   *)
(* produced.                                                                *)
(***************************************************************************)
EXTENDS SettingsTransaction, FiniteSetTheorems, WellFoundedInduction, TLAPS

------------------------------------------------------------------------------
(* The inductive invariant. *)

\* What a caller has kept since it took the mutex.
InCall(x) ==
  /\ x = [pc |-> x.pc, req |-> x.req, pending |-> x.pending, before |-> x.before]
  /\ x.pc \in {"validated", "checked", "refused", "tuned", "done"}
  /\ DOMAIN x.req.set \subseteq Keys
  /\ DOMAIN x.before.conf = Keys
  /\ x.pending = Over(x.req.set, x.before.conf)

\* Only the caller that holds the mutex is in a call.
Exclusive ==
  /\ call \in [Callers -> {call[c] : c \in Callers}]
  /\ \A c \in Callers : IF c \in holder THEN InCall(call[c]) ELSE call[c] = Idle
  /\ \A c, d \in holder : c = d
  /\ holder \subseteq Callers

\* What is already done of the call that is in progress.
Progress(x) ==
  LET b == x.before IN
  /\ x.pc \in {"validated", "checked", "refused"} =>
       conf = b.conf /\ profile = b.profile /\ tx = b.tx /\ clock = b.clock
  /\ x.pc = "checked" => tx # NoStream
  /\ x.pc = "tuned" =>
       /\ \A k \in Keys : conf[k] = IF k \in TuneKeys THEN x.pending[k] ELSE b.conf[k]
       /\ profile = b.profile
  /\ x.pc = "done" =>
       /\ \A k \in Keys : conf[k] = x.pending[k]
       /\ profile = IF x.req.op = "profile" THEN Named(x.req.path) ELSE b.profile

ClockRecord(k) ==
  k = [centre |-> k.centre, divider |-> k.divider, at |-> k.at, pacing |-> k.pacing,
       pacedAt |-> k.pacedAt, ppm |-> k.ppm, pacingPpm |-> k.pacingPpm]

\* Clocks that run for a configuration, programmed with the corrections p and q of their drivers.
Following(c, slots, p, q) ==
  [centre |-> Centre(c), divider |-> CheckCenterFrequency(Centre(c), c["sampleRate"] * slots), at |-> p,
   pacing |-> c["sampleRate"] * slots, pacedAt |-> q, ppm |-> p, pacingPpm |-> q]

\* Device, transmitter and clocks agree, also in the middle of a call.
Consistent ==
  /\ ClockRecord(clock)
  /\ tx # NoStream =>
       /\ DOMAIN tx = {"slots", "ring", "out", "conf"}
       /\ tx.conf = conf
       /\ clock = Following(conf, tx.slots, clock.ppm, clock.pacingPpm)
       /\ clock.divider # NoDivider

IInv ==
  /\ conf = [k \in Keys |-> conf[k]]
  /\ ~opened => holder = {} /\ tx = NoStream
  /\ Exclusive
  /\ \A c \in holder : Progress(call[c])
  /\ Consistent

------------------------------------------------------------------------------
(* The configuration operators. *)

LEMMA TakingValues ==
  ASSUME NEW c, NEW S, NEW from
  PROVE  /\ Taking(c, S, from) = [k \in Keys |-> Taking(c, S, from)[k]]
         /\ \A k \in Keys : Taking(c, S, from)[k] = IF k \in S THEN from[k] ELSE c[k]
BY DEF Taking

LEMMA OverValues ==
  ASSUME NEW set, NEW c, DOMAIN set \subseteq Keys, DOMAIN c = Keys
  PROVE  /\ DOMAIN Over(set, c) = Keys
         /\ Over(set, c) = [k \in Keys |-> Over(set, c)[k]]
         /\ \A k \in Keys : Over(set, c)[k] = IF k \in DOMAIN set THEN set[k] ELSE c[k]
BY DEF Over

LEMMA SettingNames == SettingKeys \subseteq Keys /\ "gain" \in Keys
BY DEF SettingKeys, Keys, TuneKeys, AmpKeys, LiveKeys

LEMMA LoadedKeys ==
  ASSUME NEW path
  PROVE  DOMAIN Loaded(path).set \subseteq SettingKeys \union {"gain"}
         /\ DOMAIN Loaded(path).set \subseteq Keys
BY SettingNames DEF Loaded, LinesOf

(* What the tune of a configuration programs depends on the tune keys only. *)
LEMMA TuneOnly ==
  ASSUME NEW c, NEW d, \A k \in TuneKeys : c[k] = d[k]
  PROVE  Centre(c) = Centre(d) /\ c["sampleRate"] = d["sampleRate"]
BY DEF Centre, TuneKeys

LEMMA SameFollowing ==
  ASSUME NEW c, NEW d, NEW slots, NEW p, NEW q, Centre(c) = Centre(d), c["sampleRate"] = d["sampleRate"]
  PROVE  Following(c, slots, p, q) = Following(d, slots, p, q)
BY DEF Following

(* What the steps of ApplyTune() do to the clocks, field by field. *)
LEMMA RestoredFields ==
  ASSUME NEW k, ClockRecord(k)
  PROVE  /\ ClockRecord(Restored(k))
         /\ Restored(k).centre = k.centre /\ Restored(k).divider = k.divider /\ Restored(k).at = k.at
         /\ Restored(k).pacing = k.pacing /\ Restored(k).pacedAt = k.pacedAt
         /\ Restored(k).ppm = clock.ppm /\ Restored(k).pacingPpm = clock.pacingPpm
<1> DEFINE p == clock.ppm
           q == clock.pacingPpm
           r == Restored(k)
<1>1. r = [k EXCEPT !.ppm = p, !.pacingPpm = q]
  BY DEF Restored
<1> HIDE DEF p, q, r
<1>2. r = [centre |-> k.centre, divider |-> k.divider, at |-> k.at, pacing |-> k.pacing,
            pacedAt |-> k.pacedAt, ppm |-> p, pacingPpm |-> q]
  BY <1>1 DEF ClockRecord
<1>3. ClockRecord(r) /\ r.centre = k.centre /\ r.divider = k.divider /\ r.at = k.at
      /\ r.pacing = k.pacing /\ r.pacedAt = k.pacedAt /\ r.ppm = p /\ r.pacingPpm = q
  BY <1>2 DEF ClockRecord
<1>4. QED
  BY <1>3 DEF r, p, q

LEMMA PacedFields ==
  ASSUME NEW k, NEW rate, ClockRecord(k)
  PROVE  /\ ClockRecord(Paced(k, rate))
         /\ Paced(k, rate).centre = k.centre /\ Paced(k, rate).divider = k.divider /\ Paced(k, rate).at = k.at
         /\ Paced(k, rate).pacing = rate /\ Paced(k, rate).pacedAt = k.pacingPpm
         /\ Paced(k, rate).ppm = k.ppm /\ Paced(k, rate).pacingPpm = k.pacingPpm
<1> DEFINE q == k.pacingPpm
           r == Paced(k, rate)
<1>1. r = [k EXCEPT !.pacing = rate, !.pacedAt = q]
  BY DEF Paced
<1> HIDE DEF q, r
<1>2. r = [centre |-> k.centre, divider |-> k.divider, at |-> k.at, pacing |-> rate,
            pacedAt |-> q, ppm |-> k.ppm, pacingPpm |-> k.pacingPpm]
  BY <1>1 DEF ClockRecord
<1>3. ClockRecord(r) /\ r.centre = k.centre /\ r.divider = k.divider /\ r.at = k.at
      /\ r.pacing = rate /\ r.pacedAt = q /\ r.ppm = k.ppm /\ r.pacingPpm = k.pacingPpm
  BY <1>2 DEF ClockRecord
<1>4. QED
  BY <1>3 DEF r, q

LEMMA TunedFields ==
  ASSUME NEW k, NEW c, NEW rate, ClockRecord(k), CheckCenterFrequency(Centre(c), rate) # NoDivider
  PROVE  /\ ClockRecord(Tuned(k, c, rate))
         /\ Tuned(k, c, rate).centre = Centre(c)
         /\ Tuned(k, c, rate).divider = CheckCenterFrequency(Centre(c), rate)
         /\ Tuned(k, c, rate).at = k.ppm
         /\ Tuned(k, c, rate).pacing = k.pacing /\ Tuned(k, c, rate).pacedAt = k.pacedAt
         /\ Tuned(k, c, rate).ppm = k.ppm /\ Tuned(k, c, rate).pacingPpm = k.pacingPpm
<1> DEFINE f == Centre(c)
           d == CheckCenterFrequency(Centre(c), rate)
           p == k.ppm
           r == Tuned(k, c, rate)
<1>1. r = [k EXCEPT !.centre = f, !.divider = d, !.at = p]
  BY DEF Tuned
<1> HIDE DEF f, d, p, r
<1>2. r = [centre |-> f, divider |-> d, at |-> p, pacing |-> k.pacing,
            pacedAt |-> k.pacedAt, ppm |-> k.ppm, pacingPpm |-> k.pacingPpm]
  BY <1>1 DEF ClockRecord
<1>3. ClockRecord(r) /\ r.centre = f /\ r.divider = d /\ r.at = p
      /\ r.pacing = k.pacing /\ r.pacedAt = k.pacedAt /\ r.ppm = k.ppm /\ r.pacingPpm = k.pacingPpm
  BY <1>2 DEF ClockRecord
<1>4. QED
  BY <1>3 DEF r, f, d, p

LEMMA CorrectedFields ==
  ASSUME NEW c, ClockRecord(clock)
  PROVE  LET r == Corrected(c) IN
         /\ ClockRecord(r)
         /\ r.centre = clock.centre /\ r.divider = clock.divider /\ r.at = clock.at
         /\ r.pacing = clock.pacing /\ r.pacedAt = clock.pacedAt
         /\ r.ppm = Correction(c) /\ r.pacingPpm = Correction(c)
<1> DEFINE m == Correction(c)
           r == Corrected(c)
<1>1. r = [clock EXCEPT !.ppm = m, !.pacingPpm = m]
  BY DEF Corrected
<1> HIDE DEF m, r
<1>2. r = [centre |-> clock.centre, divider |-> clock.divider, at |-> clock.at, pacing |-> clock.pacing,
           pacedAt |-> clock.pacedAt, ppm |-> m, pacingPpm |-> m]
  BY <1>1 DEF ClockRecord
<1>3. /\ ClockRecord(r) /\ r.centre = clock.centre /\ r.divider = clock.divider /\ r.at = clock.at
      /\ r.pacing = clock.pacing /\ r.pacedAt = clock.pacedAt /\ r.ppm = m /\ r.pacingPpm = m
  BY <1>2 DEF ClockRecord
<1>4. QED
  BY <1>3 DEF m, r

(* What a tune that succeeds programs. *)
LEMMA ProgrammedFollows ==
  ASSUME NEW t, NEW c, ClockRecord(clock), Accepts(t, c)
  PROVE  /\ Programmed(t, c) = Following(c, t.slots, Correction(c), Correction(c))
         /\ Programmed(t, c).divider # NoDivider
<1> DEFINE s == SlotRate(c, t)
           a == Corrected(c)
           b == Tuned(a, c, s)
           r == Paced(b, s)
<1>1. CheckCenterFrequency(Centre(c), s) # NoDivider
  BY DEF Accepts
<1>2. s = c["sampleRate"] * t.slots /\ Programmed(t, c) = r
  BY DEF SlotRate, Programmed
<1>3. ClockRecord(a) /\ a.ppm = Correction(c) /\ a.pacingPpm = Correction(c)
  BY CorrectedFields
<1> HIDE DEF s, a
<1>4. /\ ClockRecord(b)
      /\ b.centre = Centre(c) /\ b.divider = CheckCenterFrequency(Centre(c), s) /\ b.at = Correction(c)
      /\ b.ppm = Correction(c) /\ b.pacingPpm = Correction(c)
  BY <1>1, <1>3, TunedFields
<1> HIDE DEF b
<1>5. /\ ClockRecord(r)
      /\ r.centre = Centre(c) /\ r.divider = CheckCenterFrequency(Centre(c), s) /\ r.at = Correction(c)
      /\ r.pacing = s /\ r.pacedAt = Correction(c)
      /\ r.ppm = Correction(c) /\ r.pacingPpm = Correction(c)
  BY <1>4, PacedFields
<1> HIDE DEF r
<1>6. QED
  BY <1>1, <1>2, <1>5 DEF ClockRecord, Following

(* The rollback of a refused tune leaves the clocks and the corrections as they were, wherever *)
(* the refusal came: the PLL, if it was programmed, is programmed again, for the tune in       *)
(* effect and with the correction restored before.                                             *)
LEMMA RefusalRestores ==
  ASSUME NEW t, NEW c, clock = Following(t.conf, t.slots, clock.ppm, clock.pacingPpm), clock.divider # NoDivider
  PROVE  AfterRefusal(t, c) = clock
<1> DEFINE s == SlotRate(t.conf, t)
           d == CheckCenterFrequency(Centre(t.conf), s)
           a == Corrected(c)
           k == Tuned(a, c, SlotRate(c, t))
           r == Restored(k)
<1>1. s = t.conf["sampleRate"] * t.slots
  BY DEF SlotRate
<1>2. /\ ClockRecord(clock)
      /\ clock.centre = Centre(t.conf) /\ clock.divider = d /\ clock.at = clock.ppm
      /\ clock.pacing = s /\ clock.pacedAt = clock.pacingPpm
      /\ d # NoDivider
  <2> DEFINE p == clock.ppm
             q == clock.pacingPpm
  <2>1. clock = Following(t.conf, t.slots, p, q) /\ clock.ppm = p /\ clock.pacingPpm = q
    OBVIOUS
  <2> HIDE DEF d, s, p, q
  <2>2. clock = [centre |-> Centre(t.conf), divider |-> d, at |-> p, pacing |-> s, pacedAt |-> q, ppm |-> p, pacingPpm |-> q]
    BY <1>1, <2>1 DEF Following, d
  <2>3. /\ clock.centre = Centre(t.conf) /\ clock.divider = d /\ clock.at = p
        /\ clock.pacing = s /\ clock.pacedAt = q
    BY <2>2
  <2>4. ClockRecord(clock)
    BY <2>1, <2>2, <2>3 DEF ClockRecord
  <2>5. QED
    BY <2>1, <2>3, <2>4
<1>3. /\ ClockRecord(a) /\ a.centre = clock.centre /\ a.divider = clock.divider /\ a.at = clock.at
      /\ a.pacing = clock.pacing /\ a.pacedAt = clock.pacedAt
  BY <1>2, CorrectedFields
<1>4. \/ AfterRefusal(t, c) = clock
      \/ AfterRefusal(t, c) = Restored(a)
      \/ AfterRefusal(t, c) = Tuned(r, t.conf, s)
  BY DEF AfterRefusal, Accepts
<1>5. ClockRecord(k) /\ k.pacing = clock.pacing /\ k.pacedAt = clock.pacedAt
  <2> HIDE DEF a
  <2>1. CASE CheckCenterFrequency(Centre(c), SlotRate(c, t)) = NoDivider
    BY <1>3, <2>1 DEF Tuned
  <2>2. CASE CheckCenterFrequency(Centre(c), SlotRate(c, t)) # NoDivider
    BY <1>3, <2>2, TunedFields
  <2>3. QED
    BY <2>1, <2>2
<1> HIDE DEF a, k
<1>6. /\ ClockRecord(r) /\ r.pacing = clock.pacing /\ r.pacedAt = clock.pacedAt
      /\ r.ppm = clock.ppm /\ r.pacingPpm = clock.pacingPpm
  BY <1>5, RestoredFields
<1>7. Restored(a) = clock
  <2>1. /\ ClockRecord(Restored(a)) /\ Restored(a).centre = a.centre /\ Restored(a).divider = a.divider
        /\ Restored(a).at = a.at /\ Restored(a).pacing = a.pacing /\ Restored(a).pacedAt = a.pacedAt
        /\ Restored(a).ppm = clock.ppm /\ Restored(a).pacingPpm = clock.pacingPpm
    BY <1>3, RestoredFields
  <2>2. QED
    BY <1>2, <1>3, <2>1 DEF ClockRecord
<1> HIDE DEF r
<1>8. Tuned(r, t.conf, s) = clock
  <2> DEFINE u == Tuned(r, t.conf, s)
  <2>1. /\ ClockRecord(u) /\ u.centre = Centre(t.conf) /\ u.divider = d /\ u.at = r.ppm
        /\ u.pacing = r.pacing /\ u.pacedAt = r.pacedAt /\ u.ppm = r.ppm /\ u.pacingPpm = r.pacingPpm
    BY <1>2, <1>6, TunedFields
  <2> HIDE DEF u, d, s
  <2>2. u = clock
    BY <1>2, <1>6, <2>1 DEF ClockRecord
  <2>3. QED
    BY <2>2 DEF u
<1>9. QED
  BY <1>4, <1>7, <1>8

(* A step of the caller in progress leaves the other callers alone. *)
LEMMA GotoKeeps ==
  ASSUME NEW c \in Callers, NEW to, c \in holder, Exclusive, Goto(c, to), holder' = holder,
         to \in {"validated", "checked", "refused", "tuned", "done"}
  PROVE  /\ Exclusive'
         /\ call'[c].pc = to /\ call'[c].req = call[c].req
         /\ call'[c].pending = call[c].pending /\ call'[c].before = call[c].before
         /\ \A d \in holder' : d = c
<1> DEFINE x == call[c]
           y == [x EXCEPT !.pc = to]
<1>1. InCall(x) /\ DOMAIN call = Callers
  BY DEF Exclusive
<1>2. call' = [call EXCEPT ![c] = y]
  BY DEF Goto
<1>3. y.pc = to /\ y.req = x.req /\ y.pending = x.pending /\ y.before = x.before
      /\ y = [pc |-> y.pc, req |-> y.req, pending |-> y.pending, before |-> y.before]
  <2> HIDE DEF x
  <2>1. x = [pc |-> x.pc, req |-> x.req, pending |-> x.pending, before |-> x.before]
    BY <1>1 DEF InCall
  <2>2. y = [pc |-> to, req |-> x.req, pending |-> x.pending, before |-> x.before]
    BY <2>1
  <2>3. QED
    BY <2>2
<1> HIDE DEF x, y
<1>4. InCall(y)
  BY <1>1, <1>3 DEF InCall
<1>5. call'[c] = y /\ (\A d \in Callers : d # c => call'[d] = call[d]) /\ DOMAIN call' = Callers
  BY <1>1, <1>2
<1>6. \A d \in Callers : IF d \in holder THEN InCall(call'[d]) ELSE call'[d] = Idle
  BY <1>4, <1>5 DEF Exclusive
<1>7. call' \in [Callers -> {call'[d] : d \in Callers}]
  BY <1>1, <1>2
<1>8. Exclusive'
  BY <1>6, <1>7 DEF Exclusive, InCall
<1>9. \A d \in holder' : d = c
  BY DEF Exclusive
<1>10. QED
  BY <1>3, <1>5, <1>8, <1>9 DEF x

------------------------------------------------------------------------------
(* The invariant holds initially and is kept by every action. *)

LEMMA InitIInv == Init => IInv
<1>1. Default = [k \in Keys |-> Default[k]]
  BY SettingsAssumption DEF Configurations
<1>2. QED
  BY <1>1 DEF Init, IInv, Exclusive, Consistent, ClockRecord, NoClock

(* Between two calls nobody is in a call. *)
LEMMA QuietStep ==
  ASSUME IInv, holder = {}, holder' = {}, call' = call, conf' = [k \in Keys |-> conf'[k]], Consistent', opened'
  PROVE  IInv'
<1>1. Exclusive'
  BY DEF IInv, Exclusive
<1>2. QED
  BY <1>1 DEF IInv

LEMMA ConstructKeeps ==
  ASSUME IInv, NEW path, NEW args \in Explicit, Construct(path, args)
  PROVE  IInv'
<1> DEFINE loaded == IF path = NoPath THEN NoArgs ELSE Loaded(path).set
           kept   == [k \in DOMAIN loaded \ DOMAIN args |-> loaded[k]]
           first  == Over(kept, Default)
<1>1. DOMAIN loaded \subseteq Keys
  BY LoadedKeys DEF NoArgs
<1>2. DOMAIN kept \subseteq Keys /\ DOMAIN args \subseteq Keys /\ DOMAIN Default = Keys
  BY <1>1, SettingsAssumption, SettingNames DEF Configurations
<1> HIDE DEF kept
<1>3. DOMAIN first = Keys
  BY <1>2, OverValues
<1> HIDE DEF first
<1>4. Over(args, first) = [k \in Keys |-> Over(args, first)[k]]
  BY <1>2, <1>3, OverValues
<1>5. /\ conf' = Over(args, first) /\ ~opened
      /\ tx' = tx /\ clock' = clock /\ holder' = holder /\ call' = call
  BY DEF Construct, first, kept
<1>6. holder = {} /\ holder' = {} /\ tx' = NoStream /\ opened'
  BY <1>5 DEF IInv, Construct
<1>7. Consistent'
  BY <1>5, <1>6 DEF IInv, Consistent, ClockRecord
<1>8. QED
  BY <1>4, <1>5, <1>6, <1>7, QuietStep

(* A step that leaves an open stream with clocks that follow its configuration. *)
LEMMA FollowingConsistent ==
  ASSUME DOMAIN tx' = {"slots", "ring", "out", "conf"}, tx'.conf = conf',
         NEW p, NEW q, clock' = Following(conf', tx'.slots, p, q), clock'.divider # NoDivider
  PROVE  Consistent'
<1>1. clock'.ppm = p /\ clock'.pacingPpm = q
  BY DEF Following
<1>2. ClockRecord(clock')
  BY DEF ClockRecord, Following
<1>3. ClockRecord(clock)' /\ clock' = Following(conf, tx.slots, clock.ppm, clock.pacingPpm)'
  BY <1>1, <1>2 DEF ClockRecord, Following, Centre
<1>4. QED
  BY <1>3 DEF Consistent

LEMMA SetupStreamKeeps ==
  ASSUME IInv, NEW given, SetupStream(given)
  PROVE  IInv'
<1>1. holder = {} /\ holder' = {} /\ call' = call /\ conf' = conf /\ opened'
  BY DEF SetupStream, Free
<1>2. Consistent'
  <2>1. PICK new : /\ DOMAIN new = {"slots", "ring", "out", "conf"} /\ new.conf = conf
                   /\ tx' = new /\ Accepts(new, conf) /\ clock' = Programmed(new, conf)
    BY DEF SetupStream
  <2>2. ClockRecord(clock)
    BY DEF IInv, Consistent
  <2>3. Programmed(new, conf) = Following(conf, new.slots, Correction(conf), Correction(conf))
        /\ Programmed(new, conf).divider # NoDivider
    BY <2>1, <2>2, ProgrammedFollows
  <2>4. QED
    BY <1>1, <2>1, <2>3, FollowingConsistent
<1>3. QED
  BY <1>1, <1>2, QuietStep DEF IInv

LEMMA CloseStreamKeeps ==
  ASSUME IInv, CloseStream
  PROVE  IInv'
<1>1. holder = {} /\ holder' = {} /\ call' = call /\ conf' = conf /\ opened'
  BY DEF CloseStream, Free
<1>2. Consistent'
  BY DEF CloseStream, Consistent, ClockRecord, NoClock
<1>3. QED
  BY <1>1, <1>2, QuietStep DEF IInv

(* Steps that touch neither the configuration nor a call. *)
LEMMA OtherKeeps ==
  ASSUME IInv, ActivateStream \/ DeactivateStream \/ NtpDrifts \/ FeederStops \/ UNCHANGED vars
  PROVE  IInv'
<1>1. UNCHANGED <<conf, profile, tx, clock, holder, call, opened>>
  BY DEF ActivateStream, DeactivateStream, NtpDrifts, FeederStops, vars
<1>2. Exclusive'
  BY <1>1 DEF IInv, Exclusive
<1>3. \A c \in holder' : Progress(call[c])'
  BY <1>1 DEF IInv, Progress
<1>4. Consistent'
  BY <1>1 DEF IInv, Consistent, Centre, ClockRecord, Following
<1>5. QED
  BY <1>1, <1>2, <1>3, <1>4 DEF IInv

LEMMA ForgetProfileKeeps ==
  ASSUME IInv, ForgetProfile
  PROVE  IInv'
<1>1. holder = {} /\ opened' /\ UNCHANGED <<conf, tx, clock, holder, call>>
  BY DEF ForgetProfile, Free
<1>2. Consistent'
  BY <1>1 DEF IInv, Consistent, Centre, ClockRecord, Following
<1>3. QED
  BY <1>1, <1>2, QuietStep DEF IInv

LEMMA BeginKeeps ==
  ASSUME IInv, NEW c \in Callers, NEW asked \in Requests, Begin(c, asked)
  PROVE  IInv'
<1> DEFINE set     == CASE asked.op = "gain"    -> Clamped(asked.set)
                        [] asked.op = "profile" -> Loaded(asked.path).set
                        [] OTHER                -> asked.set
           req     == [asked EXCEPT !.set = set]
           pending == Over(set, conf)
           before  == [conf |-> conf, profile |-> profile, tx |-> tx, clock |-> clock]
           x       == [pc |-> "validated", req |-> req, pending |-> pending, before |-> before]
<1>1. DOMAIN asked = {"op", "set", "path"} /\ DOMAIN asked.set \subseteq Keys
  BY SettingsAssumption
<1>2. DOMAIN set \subseteq Keys
  <2>1. DOMAIN Clamped(asked.set) \subseteq Keys
    BY <1>1 DEF Clamped
  <2>2. QED
    BY <1>1, <2>1, LoadedKeys
<1> HIDE DEF set
<1>3. req.set = set
  BY <1>1
<1>4. /\ holder = {} /\ holder' = {c} /\ call' = [call EXCEPT ![c] = x]
      /\ opened /\ UNCHANGED <<opened, conf, profile, tx, clock>>
  BY DEF Begin, Acquire, Free, set
<1> HIDE DEF req
<1>5. DOMAIN before.conf = Keys
  BY DEF IInv
<1>6. InCall(x)
  BY <1>2, <1>3, <1>5 DEF InCall
<1>7. x.pc = "validated" /\ x.before = before
  OBVIOUS
<1> HIDE DEF x
<1>8. DOMAIN call = Callers /\ call' \in [Callers -> {call'[d] : d \in Callers}]
  BY <1>4 DEF IInv, Exclusive
<1>9. call'[c] = x /\ \A d \in Callers : d # c => call'[d] = Idle
  BY <1>4, <1>8 DEF IInv, Exclusive
<1>10. Exclusive'
  BY <1>4, <1>6, <1>8, <1>9 DEF Exclusive, InCall
<1>11. \A d \in holder' : Progress(call[d])'
  <2>1. Progress(call[c])'
    BY <1>4, <1>7, <1>9 DEF Progress
  <2>2. QED
    BY <1>4, <2>1
<1>12. Consistent'
  BY <1>4 DEF IInv, Consistent, Centre, ClockRecord, Following
<1>13. QED
  BY <1>4, <1>10, <1>11, <1>12 DEF IInv

(* A step of the caller in progress: what is left to show of it. *)
LEMMA CallerStep ==
  ASSUME IInv, NEW c \in Callers, NEW to, Goto(c, to), call[c].pc # "idle", holder' = holder, opened' = opened,
         to \in {"validated", "checked", "refused", "tuned", "done"}
  PROVE  /\ c \in holder /\ InCall(call[c]) /\ Progress(call[c]) /\ opened
         /\ call'[c].pc = to /\ call'[c].req = call[c].req
         /\ call'[c].pending = call[c].pending /\ call'[c].before = call[c].before
         /\ (conf' = [k \in Keys |-> conf'[k]] /\ Progress(call[c])' /\ Consistent' => IInv')
<1>1. c \in holder
  BY DEF IInv, Exclusive, Idle
<1>2. InCall(call[c]) /\ Progress(call[c]) /\ opened
  BY <1>1 DEF IInv, Exclusive
<1>3. /\ Exclusive'
      /\ call'[c].pc = to /\ call'[c].req = call[c].req
      /\ call'[c].pending = call[c].pending /\ call'[c].before = call[c].before
      /\ \A d \in holder' : d = c
  BY <1>1, GotoKeeps DEF IInv
<1>4. QED
  BY <1>1, <1>2, <1>3 DEF IInv

(* What the pending configuration holds. *)
LEMMA PendingValues ==
  ASSUME NEW x, InCall(x)
  PROVE  /\ DOMAIN x.pending = Keys
         /\ \A k \in Keys : x.pending[k] = IF k \in DOMAIN x.req.set THEN x.req.set[k] ELSE x.before.conf[k]
BY OverValues DEF InCall

LEMMA KeySets ==
  /\ TuneKeys \subseteq Keys
  /\ "sampleRate" \in TuneKeys
BY DEF TuneKeys, Keys

LEMMA TuneDeviceKeeps ==
  ASSUME IInv, NEW c \in Callers, TuneDevice(c)
  PROVE  IInv'
<1> DEFINE x == call[c]
           S == IF tx = NoStream THEN TuneKeys ELSE {}
<1>1. /\ x.pc = "validated" /\ Goto(c, "tuned")
      /\ conf' = Taking(conf, S, x.pending)
      /\ UNCHANGED <<opened, profile, tx, clock, holder>>
      /\ tx = NoStream \/ ~Touches(x.req, TuneKeys)
  BY DEF TuneDevice
<1>2. /\ InCall(x) /\ Progress(x)
      /\ call'[c].pc = "tuned" /\ call'[c].req = x.req
      /\ call'[c].pending = x.pending /\ call'[c].before = x.before
      /\ (conf' = [k \in Keys |-> conf'[k]] /\ Progress(call[c])' /\ Consistent' => IInv')
  BY <1>1, CallerStep
<1> HIDE DEF x
<1>3. /\ conf' = [k \in Keys |-> conf'[k]]
      /\ \A k \in Keys : conf'[k] = IF k \in S THEN x.pending[k] ELSE conf[k]
  BY <1>1, TakingValues
<1>4. conf = x.before.conf /\ profile = x.before.profile
  BY <1>1, <1>2 DEF Progress
<1>5. ASSUME NEW k \in Keys
      PROVE  conf'[k] = IF k \in TuneKeys THEN x.pending[k] ELSE x.before.conf[k]
  <2>1. CASE tx = NoStream
    BY <1>3, <1>4, <2>1
  <2>2. CASE tx # NoStream
    <3>1. k \in TuneKeys => k \notin DOMAIN x.req.set
      BY <1>1, <2>2 DEF Touches
    <3>2. k \in TuneKeys => x.pending[k] = x.before.conf[k]
      BY <1>2, <3>1, PendingValues
    <3>3. QED
      BY <1>3, <1>4, <2>2, <3>2
  <2>3. QED
    BY <2>1, <2>2
<1>6. Progress(call[c])'
  BY <1>1, <1>2, <1>4, <1>5 DEF Progress
<1>7. Consistent'
  <2>1. CASE tx = NoStream
    BY <1>1, <2>1 DEF IInv, Consistent, ClockRecord
  <2>2. CASE tx # NoStream
    <3>1. conf' = Taking(conf, {}, x.pending)
      BY <1>1, <2>2
    <3>2. conf = [k \in Keys |-> conf[k]]
      BY DEF IInv
    <3>3. conf' = conf
      BY <3>1, <3>2 DEF Taking
    <3>4. QED
      BY <1>1, <3>3 DEF IInv, Consistent, Centre, ClockRecord, Following
  <2>3. QED
    BY <2>1, <2>2
<1>8. QED
  BY <1>2, <1>3, <1>6, <1>7

(* A tune that the transmitter refuses, at whatever step, leaves the clocks as they were. *)
LEMMA RetuneRefusedRestores ==
  ASSUME IInv, NEW c \in Callers, RetuneRefused(c)
  PROVE  clock' = clock
<1>1. c \in holder
  BY DEF IInv, Exclusive, Idle, RetuneRefused
<1>2. tx # NoStream
  BY <1>1 DEF IInv, Progress, RetuneRefused
<1>3. clock = Following(tx.conf, tx.slots, clock.ppm, clock.pacingPpm) /\ clock.divider # NoDivider
  BY <1>2 DEF IInv, Consistent
<1>4. QED
  BY <1>3, RefusalRestores DEF RetuneRefused

(* The check and the refusals of the transmitter change nothing. *)
LEMMA RefusalKeeps ==
  ASSUME IInv, NEW c \in Callers, CheckTune(c) \/ RetuneRefused(c) \/ RetuneUnanswered(c)
  PROVE  IInv'
<1> DEFINE x  == call[c]
<1>1. PICK to \in {"checked", "refused"} : Goto(c, to) /\ (to = "checked" => tx # NoStream)
  BY DEF CheckTune, RetuneRefused, RetuneUnanswered
<1>2. /\ x.pc \in {"validated", "checked"}
      /\ UNCHANGED <<opened, conf, profile, tx, clock, holder>>
  BY RetuneRefusedRestores DEF CheckTune, RetuneRefused, RetuneUnanswered
<1>3. /\ Progress(x)
      /\ call'[c].pc = to /\ call'[c].before = x.before
      /\ (conf' = [k \in Keys |-> conf'[k]] /\ Progress(call[c])' /\ Consistent' => IInv')
  BY <1>1, <1>2, CallerStep
<1>4. Progress(call[c])'
  <2> HIDE DEF x
  <2>1. QED
    BY <1>1, <1>2, <1>3 DEF Progress
<1>5. Consistent'
  BY <1>2 DEF IInv, Consistent, Centre, ClockRecord, Following
<1>6. QED
  BY <1>2, <1>3, <1>4, <1>5 DEF IInv

LEMMA RetuneKeeps ==
  ASSUME IInv, NEW c \in Callers, Retune(c)
  PROVE  IInv'
<1> DEFINE x   == call[c]
           new == x.pending
<1>1. x.pc = "checked" /\ UNCHANGED <<opened, profile, holder>>
  BY DEF Retune
<1>2. /\ clock' = Programmed(tx, new) /\ Accepts(tx, new)
      /\ tx' = [tx EXCEPT !.conf = Taking(tx.conf, TuneKeys, new)]
      /\ conf' = Taking(conf, TuneKeys, new)
      /\ Goto(c, "tuned")
  BY DEF Retune
<1>3. /\ InCall(x) /\ Progress(x)
      /\ call'[c].pc = "tuned" /\ call'[c].req = x.req
      /\ call'[c].pending = x.pending /\ call'[c].before = x.before
      /\ (conf' = [k \in Keys |-> conf'[k]] /\ Progress(call[c])' /\ Consistent' => IInv')
  BY <1>1, <1>2, CallerStep
<1> HIDE DEF x
<1>4. /\ conf' = [k \in Keys |-> conf'[k]]
      /\ \A k \in Keys : conf'[k] = IF k \in TuneKeys THEN new[k] ELSE conf[k]
  BY <1>2, TakingValues
<1>5. conf = x.before.conf /\ profile = x.before.profile
  BY <1>1, <1>3 DEF Progress
<1>6. Progress(call[c])'
  BY <1>1, <1>3, <1>4, <1>5 DEF Progress
<1>7. Consistent'
  <2>1. tx # NoStream /\ ClockRecord(clock)
    BY <1>1, <1>3 DEF IInv, Consistent, Progress
  <2>2. DOMAIN tx = {"slots", "ring", "out", "conf"} /\ tx.conf = conf
    BY <2>1 DEF IInv, Consistent
  <2>3. DOMAIN tx' = {"slots", "ring", "out", "conf"} /\ tx'.conf = conf' /\ tx'.slots = tx.slots
    BY <1>2, <2>2
  <2>4. Centre(conf') = Centre(new) /\ conf'["sampleRate"] = new["sampleRate"]
    <3>1. \A k \in TuneKeys : conf'[k] = new[k]
      BY <1>4, KeySets
    <3>2. QED
      BY <3>1, TuneOnly
  <2>5. /\ clock' = Following(new, tx.slots, Correction(new), Correction(new))
        /\ clock'.divider # NoDivider
    BY <1>2, <2>1, ProgrammedFollows
  <2>6. clock' = Following(conf', tx'.slots, Correction(new), Correction(new))
    BY <2>3, <2>4, <2>5, SameFollowing
  <2>7. QED
    BY <2>3, <2>5, <2>6, FollowingConsistent
<1>8. QED
  BY <1>3, <1>4, <1>6, <1>7

LEMMA CommitKeeps ==
  ASSUME IInv, NEW c \in Callers, Commit(c)
  PROVE  IInv'
<1> DEFINE x == call[c]
           S == DOMAIN x.req.set \ TuneKeys
<1>1. /\ x.pc = "tuned" /\ Goto(c, "done")
      /\ conf' = Taking(conf, S, x.pending)
      /\ tx' = ToTransmitter(S, x.pending)
      /\ profile' = IF x.req.op = "profile" THEN Named(x.req.path) ELSE profile
      /\ UNCHANGED <<opened, clock, holder>>
  BY DEF Commit
<1>2. /\ InCall(x) /\ Progress(x)
      /\ call'[c].pc = "done" /\ call'[c].req = x.req
      /\ call'[c].pending = x.pending /\ call'[c].before = x.before
      /\ (conf' = [k \in Keys |-> conf'[k]] /\ Progress(call[c])' /\ Consistent' => IInv')
  BY <1>1, CallerStep
<1> HIDE DEF x
<1>3. /\ conf' = [k \in Keys |-> conf'[k]]
      /\ \A k \in Keys : conf'[k] = IF k \in S THEN x.pending[k] ELSE conf[k]
  BY <1>1, TakingValues
<1>4. /\ \A k \in Keys : conf[k] = IF k \in TuneKeys THEN x.pending[k] ELSE x.before.conf[k]
      /\ profile = x.before.profile
  BY <1>1, <1>2 DEF Progress
<1>5. ASSUME NEW k \in Keys PROVE conf'[k] = x.pending[k]
  <2>1. x.pending[k] = IF k \in DOMAIN x.req.set THEN x.req.set[k] ELSE x.before.conf[k]
    BY <1>2, PendingValues
  <2>2. QED
    BY <1>3, <1>4, <2>1
<1>6. Progress(call[c])'
  BY <1>1, <1>2, <1>4, <1>5 DEF Progress
<1>7. Consistent'
  <2>1. CASE tx = NoStream
    BY <1>1, <2>1 DEF IInv, Consistent, ClockRecord, ToTransmitter
  <2>2. CASE tx # NoStream
    <3>1. /\ DOMAIN tx = {"slots", "ring", "out", "conf"} /\ tx.conf = conf
          /\ clock = Following(conf, tx.slots, clock.ppm, clock.pacingPpm)
          /\ clock.divider # NoDivider
      BY <2>2 DEF IInv, Consistent
    <3>2. tx' = [tx EXCEPT !.conf = Taking(tx.conf, S, x.pending)]
      BY <1>1, <2>2 DEF ToTransmitter
    <3>3. DOMAIN tx' = {"slots", "ring", "out", "conf"} /\ tx'.conf = conf' /\ tx'.slots = tx.slots
      BY <1>1, <3>1, <3>2
    <3>4. Centre(conf') = Centre(conf) /\ conf'["sampleRate"] = conf["sampleRate"]
      <4>1. \A k \in TuneKeys : conf'[k] = conf[k]
        BY <1>3, KeySets
      <4>2. QED
        BY <4>1, TuneOnly
    <3>5. clock' = Following(conf', tx'.slots, clock.ppm, clock.pacingPpm)
      BY <1>1, <3>1, <3>3, <3>4, SameFollowing
    <3>6. QED
      BY <1>1, <3>1, <3>3, <3>5, FollowingConsistent
  <2>3. QED
    BY <2>1, <2>2
<1>8. QED
  BY <1>2, <1>3, <1>6, <1>7

LEMMA ReturnKeeps ==
  ASSUME IInv, NEW c \in Callers, Return(c)
  PROVE  IInv'
<1>1. /\ call[c].pc \in {"done", "refused"}
      /\ call' = [call EXCEPT ![c] = Idle]
      /\ holder' = holder \ {c}
      /\ UNCHANGED <<opened, conf, tx, clock>>
  BY DEF Return
<1>2. c \in holder
  BY <1>1 DEF IInv, Exclusive, Idle
<1>3. holder' = {}
  BY <1>1, <1>2 DEF IInv, Exclusive
<1>4. \A d \in Callers : call'[d] = Idle
  BY <1>1, <1>2 DEF IInv, Exclusive
<1>5. call' \in [Callers -> {call'[d] : d \in Callers}]
  BY <1>1 DEF IInv, Exclusive
<1>6. Exclusive'
  BY <1>3, <1>4, <1>5 DEF Exclusive
<1>7. Consistent'
  BY <1>1 DEF IInv, Consistent, Centre, ClockRecord, Following
<1>8. QED
  BY <1>1, <1>3, <1>6, <1>7 DEF IInv

(* Every step keeps the invariant. *)
LEMMA StepIInv == IInv /\ [Next]_vars => IInv'
<1>1. SUFFICES ASSUME IInv, [Next]_vars PROVE IInv'
  OBVIOUS
<1>2. ASSUME NEW path \in Paths \union {NoPath}, NEW args \in Explicit, Construct(path, args) PROVE IInv'
  BY <1>1, <1>2, ConstructKeeps
<1>3. ASSUME NEW given \in StreamArgs, SetupStream(given) PROVE IInv'
  BY <1>1, <1>3, SetupStreamKeeps
<1>4. CASE CloseStream
  BY <1>1, <1>4, CloseStreamKeeps
<1>5. CASE ActivateStream \/ DeactivateStream \/ NtpDrifts \/ FeederStops \/ UNCHANGED vars
  BY <1>1, <1>5, OtherKeeps
<1>6. CASE ForgetProfile
  BY <1>1, <1>6, ForgetProfileKeeps
<1>7. ASSUME NEW c \in Callers, Call(c) PROVE IInv'
  <2>1. ASSUME NEW req \in Requests, Begin(c, req) PROVE IInv'
    BY <1>1, <2>1, BeginKeeps
  <2>2. CASE TuneDevice(c)
    BY <1>1, <2>2, TuneDeviceKeeps
  <2>3. CASE CheckTune(c) \/ RetuneRefused(c) \/ RetuneUnanswered(c)
    BY <1>1, <2>3, RefusalKeeps
  <2>4. CASE Retune(c)
    BY <1>1, <2>4, RetuneKeeps
  <2>5. CASE Commit(c)
    BY <1>1, <2>5, CommitKeeps
  <2>6. CASE Return(c)
    BY <1>1, <2>6, ReturnKeeps
  <2>7. QED
    BY <1>7, <2>1, <2>2, <2>3, <2>4, <2>5, <2>6 DEF Call
<1>8. QED
  BY <1>1, <1>2, <1>3, <1>4, <1>5, <1>6, <1>7 DEF Next

------------------------------------------------------------------------------
(* The properties. *)

LEMMA SpecIInv == Spec => []IInv
BY InitIInv, StepIInv, PTL DEF Spec

LEMMA IInvAllOrNothing == IInv => AllOrNothing
<1>1. SUFFICES ASSUME IInv, NEW c \in Callers
      PROVE  LET b == call[c].before
                 r == call[c].req
             IN  /\ call[c].pc = "refused" => <<conf, profile, tx, clock>> = <<b.conf, b.profile, b.tx, b.clock>>
                 /\ call[c].pc = "done" =>
                      /\ \A k \in Keys : conf[k] = IF k \in DOMAIN r.set THEN call[c].pending[k] ELSE b.conf[k]
                      /\ profile = IF r.op = "profile" THEN Named(r.path) ELSE b.profile
  BY DEF AllOrNothing
<1>2. CASE c \in holder
  <2> DEFINE x == call[c]
  <2>1. InCall(x) /\ Progress(x)
    BY <1>1, <1>2 DEF IInv, Exclusive
  <2> HIDE DEF x
  <2>2. \A k \in Keys : x.pending[k] = IF k \in DOMAIN x.req.set THEN x.req.set[k] ELSE x.before.conf[k]
    BY <2>1, PendingValues
  <2>3. QED
    BY <2>1, <2>2 DEF Progress, x
<1>3. CASE c \notin holder
  BY <1>1, <1>3 DEF IInv, Exclusive, Idle
<1>4. QED
  BY <1>2, <1>3

(* Whatever the callers ask for, and wherever a call is refused, times out or loses the     *)
(* feeder, it has made all of its changes or none.                                         *)
THEOREM CallsAreAtomic == Spec => []AllOrNothing
BY SpecIInv, IInvAllOrNothing, PTL

(* The device and the transmitter of the open stream hold the same configuration. *)
THEOREM DeviceFollows == Spec => []DeviceMatchesTransmitter
<1>1. IInv => DeviceMatchesTransmitter
  BY DEF IInv, Consistent, DeviceMatchesTransmitter
<1>2. QED
  BY <1>1, SpecIInv, PTL

(* The clocks run as the transmitter's configuration says, each with the correction its     *)
(* driver computes with, wherever the tunes before were refused: the rollback of ApplyTune()*)
(* restores what a refused tune had already set.                                            *)
THEOREM ClocksFollow == Spec => []HardwareMatches
<1>1. IInv => HardwareMatches
  BY DEF IInv, Consistent, HardwareMatches, Following, SlotRate
<1>2. QED
  BY <1>1, SpecIInv, PTL

(* A step that commits a copy of the whole tune changes only what its call names. *)
LEMMA TakingChanges ==
  ASSUME NEW x, InCall(x), NEW S, NEW k \in Keys, conf = [j \in Keys |-> conf[j]],
         k \in S => conf[k] = x.before.conf[k],
         Taking(conf, S, x.pending)[k] # conf[k]
  PROVE  k \in DOMAIN x.req.set
<1>1. k \in S /\ x.pending[k] # conf[k]
  BY TakingValues
<1>2. QED
  BY <1>1, PendingValues

(* No call undoes what another has set. *)
THEOREM SettingsKept == Spec => NoLostUpdate
<1> DEFINE NamedBy(k) == \E c \in Callers : call'[c] # call[c] /\ k \in DOMAIN call[c].req.set
           Step == opened => \A k \in Keys : conf'[k] # conf[k] => NamedBy(k)
<1>1. IInv /\ [Next]_vars => [Step]_vars
  <2>1. SUFFICES ASSUME IInv, Next, opened, NEW k \in Keys, conf'[k] # conf[k]
                 PROVE  NamedBy(k)
    OBVIOUS
  <2>2. PICK c \in Callers : TuneDevice(c) \/ Retune(c) \/ Commit(c)
    BY <2>1 DEF Next, Call, Construct, SetupStream, CloseStream, ActivateStream, DeactivateStream,
                ForgetProfile, NtpDrifts, FeederStops, Begin, CheckTune, RetuneRefused, RetuneUnanswered, Return
  <2> DEFINE x == call[c]
  <2>3. x.pc \in {"validated", "checked", "tuned"}
    BY <2>2 DEF TuneDevice, Retune, Commit
  <2>4. c \in holder /\ InCall(x) /\ Progress(x)
    BY <2>1, <2>3 DEF IInv, Exclusive, Idle
  <2>5. conf = [j \in Keys |-> conf[j]]
    BY <2>1 DEF IInv
  <2>6. k \in DOMAIN x.req.set
    <3>1. CASE TuneDevice(c) \/ Retune(c)
      <4>1. x.pc \in {"validated", "checked"}
        BY <3>1 DEF TuneDevice, Retune
      <4>2. PICK S : conf' = Taking(conf, S, x.pending)
        BY <2>1, <3>1 DEF TuneDevice, Retune
      <4>3. conf[k] = x.before.conf[k]
        BY <2>4, <4>1 DEF Progress
      <4> HIDE DEF x
      <4>4. QED
        BY <2>1, <2>4, <2>5, <4>2, <4>3, TakingChanges
    <3>2. CASE Commit(c)
      <4>1. x.pc = "tuned" /\ conf' = Taking(conf, DOMAIN x.req.set \ TuneKeys, x.pending)
        BY <3>2 DEF Commit
      <4> HIDE DEF x
      <4>2. k \notin TuneKeys => conf[k] = x.before.conf[k]
        BY <2>4, <4>1 DEF Progress
      <4>3. QED
        BY <2>1, <2>4, <2>5, <4>1, <4>2, TakingChanges
    <3>3. QED
      BY <2>2, <3>1, <3>2
  <2>7. call'[c] # call[c]
    <3>1. PICK to \in {"tuned", "done", "refused"} : Goto(c, to) /\ to # x.pc
      BY <2>2 DEF TuneDevice, Retune, Commit
    <3>2. UNCHANGED holder
      BY <2>2 DEF TuneDevice, Retune, Commit
    <3>3. call'[c].pc = to
      BY <2>1, <2>4, <3>1, <3>2, GotoKeeps DEF IInv
    <3>4. QED
      BY <3>1, <3>3
  <2>8. QED
    BY <2>6, <2>7
<1>2. QED
  BY <1>1, SpecIInv, PTL DEF Spec, NoLostUpdate

------------------------------------------------------------------------------
(* What the open stream can carry. *)

RateFits(c, t)  == c["sampleRate"] * t.slots <= MaxRate /\ RingFitsRate(t.ring, c["sampleRate"] * t.slots)
DelayFits(c, t) == AdvanceFits(c["envelope_delay"], t.slots, t.out, t.ring)

\* The stream carries the configuration in force, and a delay that is still to be committed
\* was checked against the stream that is open.
FInv ==
  /\ conf \in Configurations
  /\ tx # NoStream =>
       /\ tx.slots \in Int /\ tx.ring \in Int /\ tx.out \in Outputs
       /\ RateFits(conf, tx) /\ DelayFits(conf, tx)
  /\ \A c \in holder :
       /\ call[c].pending \in Configurations
       /\ (/\ call[c].pc \in {"validated", "checked", "tuned"}
           /\ "envelope_delay" \in DOMAIN call[c].req.set /\ tx # NoStream) => DelayFits(call[c].pending, tx)

LEMMA InRangeInt ==
  ASSUME NEW k \in Keys, NEW v, InRange(k, v)
  PROVE  v \in Int
<1>1. {MinRate, MaxRate, MaxHarmonic, MaxPpm, MaxDelay, MaxGain} \subseteq Int
  BY SettingsAssumption
<1>2. k \in {"frequency", "harmonic", "sampleRate", "ppm", "ppm_ntp", "envelope_delay", "gain"}
  BY DEF Keys, TuneKeys, AmpKeys, LiveKeys
<1>3. CASE k = "frequency"
  BY <1>3 DEF InRange
<1>9. CASE k = "ppm_ntp"
  BY <1>9 DEF InRange
<1>4. CASE k = "harmonic"
  BY <1>1, <1>4 DEF InRange
<1>5. CASE k = "sampleRate"
  BY <1>1, <1>5 DEF InRange
<1>6. CASE k = "ppm"
  BY <1>1, <1>6 DEF InRange
<1>7. CASE k = "envelope_delay"
  BY <1>1, <1>7 DEF InRange
<1>8. CASE k = "gain"
  BY <1>1, <1>8 DEF InRange
<1>10. QED
  BY <1>2, <1>3, <1>4, <1>5, <1>6, <1>7, <1>8, <1>9

LEMMA IntOver ==
  ASSUME NEW set, NEW c \in Configurations, DOMAIN set \subseteq Keys, \A k \in DOMAIN set : set[k] \in Int
  PROVE  Over(set, c) \in Configurations
BY OverValues DEF Configurations

LEMMA ParsedOver ==
  ASSUME NEW set, NEW c \in Configurations, DOMAIN set \subseteq Keys, Parses(set)
  PROVE  Over(set, c) \in Configurations
BY InRangeInt, IntOver DEF Parses

LEMMA TakingInt ==
  ASSUME NEW c \in Configurations, NEW from \in Configurations, NEW S
  PROVE  Taking(c, S, from) \in Configurations
BY DEF Taking, Configurations

(* The default length of the ring is one that ring_size may ask for. *)
LEMMA DefaultRingRange ==
  ASSUME NEW rate \in Int
  PROVE  DefaultRingSize(rate) \in MinRing .. MaxRing
<1> DEFINE x == rate * DefaultTime + RingStep - 1
           q == x \div RingStep
<1>1. /\ RingStep \in Nat \ {0} /\ DefaultTime \in Int /\ MinRing \in Int /\ MaxRing \in Int
      /\ MinRing <= MaxRing
  BY ClockPlanAssumption
<1>2. x \in Int
  BY <1>1
<1>3. q \in Int
  BY <1>1, <1>2, SMT
<1> HIDE DEF q
<1>4. q * RingStep \in Int
  BY <1>1, <1>3
<1>5. QED
  BY <1>1, <1>4 DEF DefaultRingSize, q

LEMMA InitFInv == Init => FInv
BY SettingsAssumption DEF Init, FInv

LEMMA FInvQuiet ==
  ASSUME FInv, UNCHANGED <<conf, tx, holder, call>>
  PROVE  FInv'
BY DEF FInv, RateFits, DelayFits

LEMMA ConstructFInv ==
  ASSUME IInv, FInv, NEW path, NEW args \in Explicit, Construct(path, args)
  PROVE  FInv'
<1> DEFINE loaded == IF path = NoPath THEN NoArgs ELSE Loaded(path).set
           kept   == [k \in DOMAIN loaded \ DOMAIN args |-> loaded[k]]
           first  == Over(kept, Default)
<1>1. DOMAIN loaded \subseteq Keys
  BY LoadedKeys DEF NoArgs
<1>2. DOMAIN kept \subseteq Keys /\ DOMAIN args \subseteq Keys /\ Default \in Configurations
  BY <1>1, SettingsAssumption, SettingNames
<1>3. Parses(kept) /\ Parses(args) /\ conf' = Over(args, first) /\ tx' = tx /\ holder' = holder /\ ~opened
  BY DEF Construct
<1> HIDE DEF kept
<1>4. first \in Configurations
  BY <1>2, <1>3, ParsedOver
<1> HIDE DEF first
<1>5. conf' \in Configurations
  BY <1>2, <1>3, <1>4, ParsedOver
<1>6. tx' = NoStream /\ holder' = {}
  BY <1>3 DEF IInv
<1>7. QED
  BY <1>5, <1>6 DEF FInv

LEMMA SetupStreamFInv ==
  ASSUME IInv, FInv, NEW given, SetupStream(given)
  PROVE  FInv'
<1> DEFINE args  == Over(given, profile.stream)
           slots == Argument(args, "slots_per_sample", 1)
           ring  == Argument(args, "ring_size", DefaultRingSize(conf["sampleRate"] * slots))
           out   == Argument(args, "envelope_output", "none")
           new   == [slots |-> slots, ring |-> ring, out |-> out, conf |-> conf]
<1>1. /\ StreamArgsParse(args) /\ AdvanceFits(conf["envelope_delay"], new.slots, new.out, new.ring)
      /\ Accepts(new, conf) /\ tx' = new /\ UNCHANGED <<conf, holder, call>> /\ holder = {}
  BY DEF SetupStream, Free
<1> HIDE DEF args
<1>2. slots \in Int
  BY <1>1, SettingsAssumption DEF StreamArgsParse, Argument
<1>3. out \in Outputs
  BY <1>1 DEF StreamArgsParse, Argument, Outputs
<1> HIDE DEF slots, out
<1>4. conf["sampleRate"] * slots \in Int
  <2>1. conf["sampleRate"] \in Int
    BY KeySets DEF FInv, Configurations
  <2>2. QED
    BY <1>2, <2>1
<1>5. ring \in Int
  BY <1>1, <1>4, DefaultRingRange, ClockPlanAssumption DEF StreamArgsParse, Argument
<1> HIDE DEF ring
<1>6. RateFits(conf, new)
  BY <1>1 DEF Accepts, RateTaken, RateFits, SlotRate
<1>7. DelayFits(conf, new)
  BY <1>1 DEF DelayFits
<1>8. new.slots = slots /\ new.ring = ring /\ new.out = out
  OBVIOUS
<1> HIDE DEF new
<1>9. RateFits(conf, tx)' /\ DelayFits(conf, tx)'
  BY <1>1, <1>6, <1>7 DEF RateFits, DelayFits
<1>10. QED
  BY <1>1, <1>2, <1>3, <1>5, <1>8, <1>9 DEF FInv

LEMMA BeginFInv ==
  ASSUME IInv, FInv, NEW c \in Callers, NEW asked \in Requests, Begin(c, asked)
  PROVE  FInv'
<1> DEFINE set     == CASE asked.op = "gain"    -> Clamped(asked.set)
                        [] asked.op = "profile" -> Loaded(asked.path).set
                        [] OTHER                -> asked.set
           req     == [asked EXCEPT !.set = set]
           pending == Over(set, conf)
           x       == [pc |-> "validated", req |-> req, pending |-> pending,
                       before |-> [conf |-> conf, profile |-> profile, tx |-> tx, clock |-> clock]]
<1>1. /\ DOMAIN asked = {"op", "set", "path"} /\ DOMAIN asked.set \subseteq Keys
      /\ asked.op \in {"frequency", "sampleRate", "gain", "setting", "profile"}
      /\ asked.op \in {"frequency", "sampleRate", "gain"} => DOMAIN asked.set = {asked.op}
      /\ \A k \in DOMAIN asked.set : asked.set[k] \in Int
  BY SettingsAssumption
<1>2. /\ holder' = {c} /\ call' = [call EXCEPT ![c] = x] /\ UNCHANGED <<conf, tx>>
      /\ Admitted(req, pending)
  BY DEF Begin, Acquire, Free
<1>3. DOMAIN Clamped(asked.set) = DOMAIN asked.set /\ \A k \in DOMAIN asked.set : Clamped(asked.set)[k] \in Int
  <2>1. MaxGain \in Int
    BY SettingsAssumption
  <2>2. QED
    BY <1>1, <2>1 DEF Clamped
<1>4. DOMAIN set \subseteq Keys
  BY <1>1, <1>3, LoadedKeys
<1>5. asked.op = "profile" => Parses(set)
  BY <1>1, <1>2 DEF Admitted
<1>6. pending \in Configurations
  <2>1. CASE asked.op = "profile"
    <3> HIDE DEF set
    <3>1. QED
      BY <1>4, <1>5, <2>1, ParsedOver DEF FInv
  <2>2. CASE asked.op # "profile"
    <3>1. \A k \in DOMAIN set : set[k] \in Int
      BY <1>1, <1>3, <2>2
    <3> HIDE DEF set
    <3>2. QED
      BY <1>4, <3>1, IntOver DEF FInv
  <2>3. QED
    BY <2>1, <2>2
<1>7. "envelope_delay" \in DOMAIN set /\ tx # NoStream => DelayFits(pending, tx)
  <2>1. SUFFICES ASSUME "envelope_delay" \in DOMAIN set, tx # NoStream PROVE DelayFits(pending, tx)
    OBVIOUS
  <2>2. asked.op \in {"setting", "profile"}
    BY <1>1, <1>3, <2>1
  <2> HIDE DEF set, pending
  <2>3. Valid(set, pending)
    BY <1>1, <1>2, <2>2 DEF Admitted
  <2>4. QED
    BY <2>1, <2>3 DEF Valid, DelayFits
<1>8. req.set = set
  BY <1>1
<1> HIDE DEF set, req, pending
<1>9. x.pending = pending /\ x.req = req /\ x.pc = "validated"
  OBVIOUS
<1> HIDE DEF x
<1>10. call'[c] = x
  BY <1>2 DEF IInv, Exclusive
<1>11. "envelope_delay" \in DOMAIN call'[c].req.set /\ tx' # NoStream => DelayFits(call[c].pending, tx)'
  BY <1>2, <1>7, <1>8, <1>9, <1>10 DEF DelayFits
<1>12. (tx # NoStream => RateFits(conf, tx) /\ DelayFits(conf, tx)) => (tx' # NoStream => RateFits(conf, tx)' /\ DelayFits(conf, tx)')
  BY <1>2 DEF RateFits, DelayFits
<1>13. QED
  BY <1>2, <1>6, <1>9, <1>10, <1>11, <1>12 DEF FInv

(* A step of the caller that only moves on. *)
LEMMA RefusalFInv ==
  ASSUME IInv, FInv, NEW c \in Callers, CheckTune(c) \/ RetuneRefused(c) \/ RetuneUnanswered(c)
  PROVE  FInv'
<1> DEFINE x == call[c]
<1>1. PICK to \in {"checked", "refused"} : Goto(c, to)
  BY DEF CheckTune, RetuneRefused, RetuneUnanswered
<1>2. /\ x.pc \in {"validated", "checked"}
      /\ UNCHANGED <<conf, tx, holder>>
  BY DEF CheckTune, RetuneRefused, RetuneUnanswered
<1>3. c \in holder /\ call'[c].req = x.req /\ call'[c].pending = x.pending /\ \A d \in holder' : d = c
  <2>1. c \in holder
    BY <1>2 DEF IInv, Exclusive, Idle
  <2>2. QED
    BY <1>1, <1>2, <2>1, GotoKeeps DEF IInv
<1>4. (tx # NoStream => RateFits(conf, tx) /\ DelayFits(conf, tx)) => (tx' # NoStream => RateFits(conf, tx)' /\ DelayFits(conf, tx)')
  BY <1>2 DEF RateFits, DelayFits
<1>5. DelayFits(x.pending, tx) => DelayFits(call[c].pending, tx)'
  BY <1>2, <1>3 DEF DelayFits
<1> HIDE DEF x
<1>6. QED
  BY <1>2, <1>3, <1>4, <1>5 DEF FInv, x

LEMMA TuneDeviceFInv ==
  ASSUME IInv, FInv, NEW c \in Callers, TuneDevice(c)
  PROVE  FInv'
<1> DEFINE x == call[c]
<1>1. /\ x.pc = "validated" /\ Goto(c, "tuned") /\ UNCHANGED <<tx, holder>>
      /\ conf' = Taking(conf, IF tx = NoStream THEN TuneKeys ELSE {}, x.pending)
  BY DEF TuneDevice
<1>2. c \in holder /\ call'[c].req = x.req /\ call'[c].pending = x.pending /\ \A d \in holder' : d = c
  <2>1. c \in holder
    BY <1>1 DEF IInv, Exclusive, Idle
  <2>2. QED
    BY <1>1, <2>1, GotoKeeps DEF IInv
<1>3. conf' \in Configurations
  BY <1>1, <1>2, TakingInt DEF FInv
<1>4. tx # NoStream => conf' = conf
  <2>1. conf = [k \in Keys |-> conf[k]]
    BY DEF IInv
  <2>2. QED
    BY <1>1, <2>1 DEF Taking
<1>5. tx # NoStream => RateFits(conf, tx)' /\ DelayFits(conf, tx)'
  BY <1>1, <1>4 DEF FInv, RateFits, DelayFits
<1>6. DelayFits(x.pending, tx) => DelayFits(call[c].pending, tx)'
  BY <1>1, <1>2 DEF DelayFits
<1> HIDE DEF x
<1>7. QED
  BY <1>1, <1>2, <1>3, <1>5, <1>6 DEF FInv, x

LEMMA RetuneFInv ==
  ASSUME IInv, FInv, NEW c \in Callers, Retune(c)
  PROVE  FInv'
<1> DEFINE x   == call[c]
           new == x.pending
<1>1. x.pc = "checked" /\ UNCHANGED <<holder>>
  BY DEF Retune
<1>2. c \in holder /\ Progress(x)
  BY <1>1 DEF IInv, Exclusive, Idle
<1>3. tx # NoStream
  BY <1>1, <1>2 DEF Progress
<1>4. DOMAIN tx = {"slots", "ring", "out", "conf"} /\ tx.conf = conf
  BY <1>3 DEF IInv, Consistent
<1>5. Goto(c, "tuned")
  BY DEF Retune
<1>6. call'[c].req = x.req /\ call'[c].pending = new /\ \A d \in holder' : d = c
  BY <1>1, <1>2, <1>5, GotoKeeps DEF IInv
<1>7. new \in Configurations
  BY <1>2 DEF FInv
<1>8. /\ tx'.slots = tx.slots /\ tx'.ring = tx.ring /\ tx'.out = tx.out
      /\ conf' \in Configurations
      /\ RateFits(conf', tx) /\ conf'["envelope_delay"] = conf["envelope_delay"]
  <2>1. /\ Accepts(tx, new)
        /\ tx' = [tx EXCEPT !.conf = Taking(tx.conf, TuneKeys, new)] /\ conf' = Taking(conf, TuneKeys, new)
    BY DEF Retune
  <2> HIDE DEF new
  <2>2. conf' \in Configurations
    BY <1>7, <2>1, TakingInt DEF FInv
  <2>3. conf'["sampleRate"] = new["sampleRate"] /\ conf'["envelope_delay"] = conf["envelope_delay"]
    <3>1. "envelope_delay" \in Keys \ TuneKeys
      BY DEF Keys, TuneKeys, AmpKeys
    <3>2. QED
      BY <2>1, <3>1, KeySets, TakingValues
  <2>4. RateFits(conf', tx)
    BY <2>1, <2>3 DEF Accepts, RateTaken, RateFits, SlotRate
  <2>5. QED
    BY <1>4, <2>1, <2>2, <2>3, <2>4
<1>9. RateFits(conf, tx)' /\ DelayFits(conf, tx)'
  BY <1>3, <1>8 DEF FInv, RateFits, DelayFits
<1>10. DelayFits(new, tx) => DelayFits(call[c].pending, tx)'
  BY <1>6, <1>8 DEF DelayFits
<1>11. "envelope_delay" \in DOMAIN x.req.set => DelayFits(new, tx)
  BY <1>1, <1>2, <1>3 DEF FInv
<1> HIDE DEF new
<1>12. QED
  BY <1>1, <1>3, <1>6, <1>7, <1>8, <1>9, <1>10, <1>11 DEF FInv

LEMMA CommitFInv ==
  ASSUME IInv, FInv, NEW c \in Callers, Commit(c)
  PROVE  FInv'
<1> DEFINE x == call[c]
           S == DOMAIN x.req.set \ TuneKeys
<1>1. /\ x.pc = "tuned" /\ Goto(c, "done") /\ conf' = Taking(conf, S, x.pending)
      /\ tx' = ToTransmitter(S, x.pending) /\ UNCHANGED holder
  BY DEF Commit
<1>2. c \in holder
  BY <1>1 DEF IInv, Exclusive, Idle
<1>3. /\ call'[c].pc = "done" /\ call'[c].pending = x.pending
      /\ \A d \in holder' : d = c
  BY <1>1, <1>2, GotoKeeps DEF IInv
<1>4. x.pending \in Configurations
  BY <1>2 DEF FInv
<1>5. conf' \in Configurations
  BY <1>1, <1>4, TakingInt DEF FInv
<1>6. CASE tx = NoStream
  <2>1. tx' = NoStream
    BY <1>1, <1>6 DEF ToTransmitter
  <2>2. QED
    BY <1>1, <1>3, <1>4, <1>5, <2>1 DEF FInv
<1>7. CASE tx # NoStream
  <2>1. DOMAIN tx = {"slots", "ring", "out", "conf"}
    BY <1>7 DEF IInv, Consistent
  <2>2. tx'.slots = tx.slots /\ tx'.ring = tx.ring /\ tx'.out = tx.out
    BY <1>1, <1>7, <2>1 DEF ToTransmitter
  <2>3. "envelope_delay" \in DOMAIN x.req.set => DelayFits(x.pending, tx)
    BY <1>1, <1>2, <1>7 DEF FInv
  <2>4. RateFits(conf, tx) /\ DelayFits(conf, tx) /\ tx.slots \in Int /\ tx.ring \in Int /\ tx.out \in Outputs
    BY <1>7 DEF FInv
  <2> HIDE DEF x
  <2>5. conf'["sampleRate"] = conf["sampleRate"]
    BY <1>1, KeySets, TakingValues
  <2>6. conf'["envelope_delay"] = IF "envelope_delay" \in DOMAIN x.req.set THEN x.pending["envelope_delay"]
                                                                        ELSE conf["envelope_delay"]
    <3>1. "envelope_delay" \in Keys \ TuneKeys
      BY DEF Keys, TuneKeys, AmpKeys
    <3>2. QED
      BY <1>1, <3>1, TakingValues
  <2>7. RateFits(conf', tx)
    BY <2>4, <2>5 DEF RateFits
  <2>8. DelayFits(conf', tx)
    BY <2>3, <2>4, <2>6 DEF DelayFits
  <2>9. RateFits(conf, tx)' /\ DelayFits(conf, tx)'
    BY <2>2, <2>7, <2>8 DEF RateFits, DelayFits
  <2>10. QED
    BY <1>1, <1>3, <1>4, <1>5, <2>2, <2>4, <2>9 DEF FInv
<1>8. QED
  BY <1>6, <1>7

LEMMA ReturnFInv ==
  ASSUME IInv, FInv, NEW c \in Callers, Return(c)
  PROVE  FInv'
<1>1. /\ call[c].pc \in {"done", "refused"} /\ holder' = holder \ {c} /\ UNCHANGED <<conf, tx>>
  BY DEF Return
<1>2. holder' = {}
  <2>1. c \in holder
    BY <1>1 DEF IInv, Exclusive, Idle
  <2>2. QED
    BY <1>1, <2>1 DEF IInv, Exclusive
<1>3. tx # NoStream => RateFits(conf, tx)' /\ DelayFits(conf, tx)'
  BY <1>1 DEF FInv, RateFits, DelayFits
<1>4. QED
  BY <1>1, <1>2, <1>3 DEF FInv

LEMMA CloseStreamFInv ==
  ASSUME IInv, FInv, CloseStream
  PROVE  FInv'
BY DEF CloseStream, Free, FInv

LEMMA StepFInv == IInv /\ FInv /\ [Next]_vars => FInv'
<1>1. SUFFICES ASSUME IInv, FInv, [Next]_vars PROVE FInv'
  OBVIOUS
<1>2. ASSUME NEW path \in Paths \union {NoPath}, NEW args \in Explicit, Construct(path, args) PROVE FInv'
  BY <1>1, <1>2, ConstructFInv
<1>3. ASSUME NEW given \in StreamArgs, SetupStream(given) PROVE FInv'
  BY <1>1, <1>3, SetupStreamFInv
<1>4. CASE CloseStream
  BY <1>1, <1>4, CloseStreamFInv
<1>5. CASE ActivateStream \/ DeactivateStream \/ NtpDrifts \/ FeederStops \/ ForgetProfile \/ UNCHANGED vars
  <2>1. UNCHANGED <<conf, tx, holder, call>>
    BY <1>5 DEF ActivateStream, DeactivateStream, NtpDrifts, FeederStops, ForgetProfile, vars
  <2>2. QED
    BY <1>1, <2>1, FInvQuiet
<1>6. ASSUME NEW c \in Callers, Call(c) PROVE FInv'
  <2>1. ASSUME NEW req \in Requests, Begin(c, req) PROVE FInv'
    BY <1>1, <2>1, BeginFInv
  <2>2. CASE TuneDevice(c)
    BY <1>1, <2>2, TuneDeviceFInv
  <2>3. CASE CheckTune(c) \/ RetuneRefused(c) \/ RetuneUnanswered(c)
    BY <1>1, <2>3, RefusalFInv
  <2>4. CASE Retune(c)
    BY <1>1, <2>4, RetuneFInv
  <2>5. CASE Commit(c)
    BY <1>1, <2>5, CommitFInv
  <2>6. CASE Return(c)
    BY <1>1, <2>6, ReturnFInv
  <2>7. QED
    BY <1>6, <2>1, <2>2, <2>3, <2>4, <2>5, <2>6 DEF Call
<1>7. QED
  BY <1>1, <1>2, <1>3, <1>4, <1>5, <1>6 DEF Next

(* An advance of at most an eighth of the ring, in numbers. *)
LEMMA DelayArithmetic ==
  ASSUME NEW delay \in Int, NEW slots \in Int, NEW ring \in Int, NEW out \in Outputs,
         AdvanceFits(delay, slots, out, ring)
  PROVE  8 * (Latency(out) - delay * slots) <= ring
<1> DEFINE ahead == Latency(out) - delay * slots
           q     == ring \div 8
<1>1. Latency(out) \in Int
  BY DEF Latency, Outputs
<1>2. delay * slots \in Int
  OBVIOUS
<1>3. ahead \in Int
  BY <1>1, <1>2
<1>4. (IF ahead > 0 THEN ahead ELSE 0) <= q
  BY DEF AdvanceFits, Advance
<1>5. q \in Int /\ 8 * q <= ring
  OBVIOUS
<1> HIDE DEF ahead, q
<1>6. 8 * ahead <= ring
  BY <1>3, <1>4, <1>5
<1>7. QED
  BY <1>6 DEF ahead

(* The open stream can always carry the rate and the delay in force: no setting, profile or *)
(* sample rate changes them beyond what its ring was made for.                             *)
THEOREM StreamCarries == Spec => []StreamFits
<1>1. FInv => StreamFits
  <2>1. SUFFICES ASSUME FInv, tx # NoStream
                 PROVE  /\ conf["sampleRate"] * tx.slots <= MaxRate
                        /\ conf["sampleRate"] * tx.slots * RingTime <= tx.ring
                        /\ 8 * (Latency(tx.out) - conf["envelope_delay"] * tx.slots) <= tx.ring
    BY DEF StreamFits
  <2>2. /\ tx.slots \in Int /\ tx.ring \in Int /\ tx.out \in Outputs
        /\ RateFits(conf, tx) /\ DelayFits(conf, tx)
    BY <2>1 DEF FInv
  <2>3. conf["envelope_delay"] \in Int
    BY <2>1 DEF FInv, Configurations, Keys, AmpKeys
  <2>4. 8 * (Latency(tx.out) - conf["envelope_delay"] * tx.slots) <= tx.ring
    BY <2>2, <2>3, DelayArithmetic DEF DelayFits
  <2>5. QED
    BY <2>2, <2>4 DEF RateFits, RingFitsRate
<1>2. FInv /\ IInv /\ [Next]_vars => FInv'
  BY StepFInv
<1>3. QED
  BY <1>1, <1>2, InitFInv, SpecIInv, PTL DEF Spec

------------------------------------------------------------------------------
(* The divider search. *)

(* A non-empty set of naturals has a least element, and a bounded one a greatest. *)
LEMMA LeastElement ==
  ASSUME NEW T, T \subseteq Nat, T # {}
  PROVE  \E x \in T : \A y \in T : x <= y
<1>1. PICK x \in T : \A y \in T : ~ (<<y, x>> \in OpToRel(<, Nat))
  BY NatLessThanWellFounded, WFMin, Zenon
<1>2. ASSUME NEW y \in T PROVE x <= y
  <2>1. y \in Nat /\ x \in Nat
    OBVIOUS
  <2>2. ~ (y < x)
    BY <1>1, <2>1, Zenon DEF OpToRel
  <2>3. QED
    BY <2>1, <2>2
<1>3. QED
  BY <1>2

LEMMA GreatestElement ==
  ASSUME NEW n \in Nat, NEW T, T \subseteq 0 .. n, T # {}
  PROVE  \E x \in T : \A y \in T : y <= x
<1> DEFINE U == {n - y : y \in T}
<1>1. U \subseteq Nat /\ U # {}
  <2>1. ASSUME NEW y \in T PROVE n - y \in Nat
    OBVIOUS
  <2>2. QED
    BY <2>1
<1>2. PICK u \in U : \A v \in U : u <= v
  BY <1>1, LeastElement
<1>3. PICK x \in T : u = n - x
  BY <1>2
<1>4. ASSUME NEW y \in T PROVE y <= x
  <2>1. n - y \in U
    OBVIOUS
  <2>2. n - x <= n - y
    BY <1>2, <1>3, <2>1
  <2>3. x \in Int /\ y \in Int
    OBVIOUS
  <2>4. QED
    BY <2>2, <2>3
<1>5. QED
  BY <1>4

LEMMA Division ==
  ASSUME NEW a \in Int, NEW k \in Nat \ {0}
  PROVE  a \div k \in Int /\ a = k * (a \div k) + (a % k) /\ a % k \in 0 .. k - 1
BY SMT

(* The carrier of a frequency within the range is within the PLL's. *)
LEMMA CentreInRange ==
  ASSUME NEW f \in Int, NEW h \in Int, h >= 1, InPllRange(f, h)
  PROVE  Rounded(f, h) \in Int /\ PllMin <= Rounded(f, h) /\ Rounded(f, h) <= PllMax
<1> DEFINE q == (2 * f + h) \div (2 * h)
           m == (2 * f + h) % (2 * h)
<1>1. PllMin \in Int /\ PllMax \in Int /\ 2 * h \in Nat \ {0} /\ 2 * f + h \in Int
  BY ClockPlanAssumption
<1>2. q \in Int /\ 2 * f + h = (2 * h) * q + m /\ m \in 0 .. 2 * h - 1
  BY <1>1, Division
<1> HIDE DEF q, m
<1>3. ASSUME NEW i \in Int, NEW j \in Int, i < j
      PROVE  (2 * h) * i \in Int /\ (2 * h) * j \in Int /\ (2 * h) * i + 2 * h <= (2 * h) * j
  BY <1>1, <1>3, SMT
<1>4. (2 * h) * PllMin <= 2 * f /\ 2 * f <= (2 * h) * PllMax
  <2>1. PllMin * h <= f /\ f <= PllMax * h
    BY DEF InPllRange
  <2>2. (2 * h) * PllMin = 2 * (PllMin * h) /\ (2 * h) * PllMax = 2 * (PllMax * h)
        /\ PllMin * h \in Int /\ PllMax * h \in Int
    BY <1>1, SMT
  <2>3. QED
    BY <2>1, <2>2
<1>5. ~ (q < PllMin)
  BY <1>1, <1>2, <1>3, <1>4
<1>6. ~ (PllMax < q)
  BY <1>1, <1>2, <1>3, <1>4
<1>7. QED
  BY <1>1, <1>2, <1>5, <1>6 DEF Rounded, q

(* The divider search succeeds for every carrier that is not too slow or too fast for it. *)
LEMMA UsableExists ==
  ASSUME NEW f \in Int, f >= 1, VcoMin <= f * MaxDivider, ~ (f * 2 > VcoPrediv)
  PROVE  Usable(f) # {}
<1>1. /\ VcoMin \in Nat \ {0} /\ VcoPrediv \in Nat /\ MaxDivider \in Nat /\ MaxDivider >= 2
      /\ 2 * VcoMin <= VcoPrediv
  BY ClockPlanAssumption, PllRangeAssumption
<1>2. CASE f * 2 >= VcoMin
  <2>1. 2 \in Usable(f)
    BY <1>1, <1>2 DEF Usable
  <2>2. QED
    BY <2>1
<1>3. CASE f * 2 < VcoMin
  <2> DEFINE d == (VcoMin + f - 1) \div f
             r == (VcoMin + f - 1) % f
  <2>1. d \in Int /\ VcoMin + f - 1 = f * d + r /\ r \in 0 .. f - 1
    BY <1>1, SMT
  <2> HIDE DEF d, r
  <2>2. VcoMin <= f * d /\ f * d <= VcoMin + f - 1 /\ f * d \in Int
    BY <1>1, <2>1
  <2>3. ASSUME NEW i \in Int, NEW j \in Int, i < j
        PROVE  f * i \in Int /\ f * j \in Int /\ f * i + f <= f * j
    BY <2>3, SMT
  <2>4. ~ (d < 2)
    BY <1>1, <1>3, <2>1, <2>2, <2>3
  <2>5. ~ (MaxDivider < d)
    BY <1>1, <2>1, <2>2, <2>3
  <2>6. f * d <= VcoPrediv
    BY <1>1, <1>3, <2>2
  <2>7. d \in Usable(f)
    BY <1>1, <2>1, <2>2, <2>4, <2>5, <2>6 DEF Usable
  <2>8. QED
    BY <2>7
<1>4. QED
  BY <1>1, <1>2, <1>3

LEMMA PreferredExists ==
  ASSUME NEW f \in Int, NEW band, Usable(f) # {}
  PROVE  \E d \in Usable(f) : Preferred(f, band, d)
<1> DEFINE Clear == {e \in Usable(f) : ~Crosses(f, band, e)}
<1>1. MaxDivider \in Nat /\ Usable(f) \subseteq 0 .. MaxDivider /\ Usable(f) \subseteq Nat
  BY ClockPlanAssumption DEF Usable
<1>2. CASE Clear # {}
  <2>1. PICK d \in Clear : \A e \in Clear : e <= d
    BY <1>1, <1>2, GreatestElement
  <2>2. QED
    BY <1>2, <2>1 DEF Preferred
<1>3. CASE Clear = {}
  <2>1. PICK d \in Usable(f) : \A e \in Usable(f) : d <= e
    BY <1>1, LeastElement
  <2>2. QED
    BY <1>3, <2>1 DEF Preferred
<1>4. QED
  BY <1>2, <1>3

LEMMA DividerFound ==
  ASSUME NEW f \in Int, NEW band, f >= 1, VcoMin <= f * MaxDivider, f * 2 <= VcoMax
  PROVE  BestDivider(f, band) # NoDivider
<1>1. VcoMin \in Int /\ VcoMax \in Int /\ VcoPrediv \in Int /\ MaxDivider \in Int
  BY ClockPlanAssumption
<1>2. ~ (f * MaxDivider < VcoMin \/ f * 2 > VcoMax)
  BY <1>1
<1>3. CASE f * 2 > VcoPrediv
  BY <1>2, <1>3 DEF BestDivider, NoDivider
<1>4. CASE ~ (f * 2 > VcoPrediv)
  <2>1. Usable(f) # {}
    BY <1>4, UsableExists
  <2>2. \E d \in Usable(f) : Preferred(f, band, d)
    BY <2>1, PreferredExists
  <2>3. BestDivider(f, band) = CHOOSE d \in Usable(f) : Preferred(f, band, d)
    BY <1>2, <1>4, <2>1 DEF BestDivider
  <2>4. BestDivider(f, band) \in Usable(f)
    BY <2>2, <2>3
  <2>5. QED
    BY <2>4, <1>1 DEF Usable, NoDivider
<1>5. QED
  BY <1>3, <1>4

(* Every frequency in range of its harmonic has a divider. *)
LEMMA RangeIsReachable ==
  ASSUME NEW f \in Int, NEW h \in Int, h >= 1, InPllRange(f, h), NEW band
  PROVE  CheckCenterFrequency(Rounded(f, h), band) # NoDivider
<1> DEFINE c == Rounded(f, h)
<1>1. c \in Int /\ PllMin <= c /\ c <= PllMax
  BY CentreInRange
<1>2. /\ {VcoMin, VcoMax, MaxDivider, PllMin, PllMax} \subseteq Nat \ {0}
      /\ VcoMin <= PllMin * MaxDivider
      /\ (IF Bcm2711 THEN 4 ELSE 2) * PllMax <= VcoMax
  BY ClockPlanAssumption, PllRangeAssumption
<1> HIDE DEF c
<1>3. VcoMin <= c * MaxDivider /\ c * MaxDivider \in Int
  <2>1. PllMin * MaxDivider <= c * MaxDivider /\ PllMin * MaxDivider \in Int /\ c * MaxDivider \in Int
    BY <1>1, <1>2, SMT
  <2>2. QED
    BY <1>2, <2>1
<1>4. CASE Bcm2711
  <2>1. 2 * c \in Int /\ 2 * c >= 1 /\ (2 * c) * 2 <= VcoMax
    BY <1>1, <1>2, <1>4
  <2>2. (2 * c) * MaxDivider = 2 * (c * MaxDivider)
    BY <1>1, <1>2, SMT
  <2>3. VcoMin <= (2 * c) * MaxDivider
    BY <1>2, <1>3, <2>2
  <2>4. BestDivider(2 * c, 2 * band) # NoDivider
    BY <2>1, <2>3, DividerFound
  <2>5. QED
    BY <1>4, <2>4 DEF CheckCenterFrequency, c
<1>5. CASE ~Bcm2711
  <2>1. c >= 1 /\ c * 2 <= VcoMax
    BY <1>1, <1>2, <1>5
  <2>2. BestDivider(c, band) # NoDivider
    BY <1>1, <1>3, <2>1, DividerFound
  <2>3. QED
    BY <1>5, <2>2 DEF CheckCenterFrequency, c
<1>6. QED
  BY <1>4, <1>5

------------------------------------------------------------------------------
(* What is in force is legal.  The tune of a pending call is committed as a whole, so that *)
(* the frequency and the harmonic that were checked together are also stored together.     *)

InForce(c) == (\A k \in Keys : InRange(k, c[k])) /\ InPllRange(c["frequency"], c["harmonic"])

RInv ==
  /\ opened \in BOOLEAN /\ feeding \in BOOLEAN /\ ntp \in Ntps
  /\ InForce(conf)
  /\ profile.path \in Paths \union {NoPath} /\ StreamArgsParse(profile.stream)
  /\ tx \in Transmitters \union {NoStream}
  /\ tx = NoStream => ~feeding
  /\ \A c \in holder :
       /\ InForce(call[c].pending)
       /\ call[c].req.op = "profile" => /\ call[c].req.path \in Paths
                                        /\ StreamArgsParse(Loaded(call[c].req.path).stream)

LEMMA TuneNames ==
  /\ {"frequency", "harmonic"} \subseteq TuneKeys /\ {"frequency", "harmonic"} \subseteq Keys
  /\ "frequency" \notin SettingKeys \union {"gain"}
BY DEF TuneKeys, Keys, SettingKeys

(* Settings that parse and are valid over what is in force can be put in force. *)
LEMMA OverInForce ==
  ASSUME NEW c, InForce(c), DOMAIN c = Keys, NEW set, DOMAIN set \subseteq SettingKeys \union {"gain"},
         Parses(set), Valid(set, Over(set, c))
  PROVE  InForce(Over(set, c)) /\ DOMAIN Over(set, c) = Keys
<1> DEFINE new == Over(set, c)
<1>1. DOMAIN set \subseteq Keys
  BY SettingNames
<1>2. DOMAIN new = Keys /\ \A k \in Keys : new[k] = IF k \in DOMAIN set THEN set[k] ELSE c[k]
  BY <1>1, OverValues
<1> HIDE DEF new
<1>3. \A k \in Keys : InRange(k, new[k])
  BY <1>2 DEF InForce, Parses
<1>4. new["frequency"] = c["frequency"]
  BY <1>2, TuneNames
<1>5. InPllRange(new["frequency"], new["harmonic"])
  <2>1. CASE "harmonic" \in DOMAIN set
    BY <2>1 DEF Valid, new
  <2>2. CASE "harmonic" \notin DOMAIN set
    <3>1. new["harmonic"] = c["harmonic"]
      BY <1>2, <2>2, TuneNames
    <3>2. QED
      BY <1>4, <3>1 DEF InForce
  <2>3. QED
    BY <2>1, <2>2
<1>6. QED
  BY <1>2, <1>3, <1>5 DEF InForce, new

(* A tune is taken whole or not at all. *)
LEMMA TakingInForce ==
  ASSUME NEW c, NEW from, NEW S, InForce(c), InForce(from), TuneKeys \subseteq S \/ TuneKeys \intersect S = {}
  PROVE  InForce(Taking(c, S, from))
<1> DEFINE new == Taking(c, S, from)
<1>1. \A k \in Keys : new[k] = IF k \in S THEN from[k] ELSE c[k]
  BY TakingValues
<1> HIDE DEF new
<1>2. \A k \in Keys : InRange(k, new[k])
  BY <1>1 DEF InForce
<1>3. CASE TuneKeys \subseteq S
  <2>1. new["frequency"] = from["frequency"] /\ new["harmonic"] = from["harmonic"]
    BY <1>1, <1>3, TuneNames
  <2>2. QED
    BY <1>2, <2>1 DEF InForce, new
<1>4. CASE TuneKeys \intersect S = {}
  <2>1. new["frequency"] = c["frequency"] /\ new["harmonic"] = c["harmonic"]
    BY <1>1, <1>4, TuneNames
  <2>2. QED
    BY <1>2, <2>1 DEF InForce, new
<1>5. QED
  BY <1>3, <1>4

LEMMA NamedParses ==
  ASSUME NEW path, path # NoPath => StreamArgsParse(Loaded(path).stream)
  PROVE  Named(path).path = path /\ StreamArgsParse(Named(path).stream)
<1>1. StreamArgsParse(NoArgs)
  BY DEF StreamArgsParse, NoArgs
<1>2. QED
  BY <1>1 DEF Named

LEMMA InitRInv == Init => RInv
<1>1. SUFFICES ASSUME Init PROVE RInv
  OBVIOUS
<1>2. InForce(conf)
  BY <1>1, SettingsAssumption, DefaultAssumption DEF Init, InForce
<1>3. profile.path = NoPath /\ StreamArgsParse(profile.stream)
  BY <1>1, NamedParses DEF Init
<1>4. QED
  BY <1>1, <1>2, <1>3 DEF Init, RInv

LEMMA ConstructRInv ==
  ASSUME IInv, RInv, NEW path \in Paths \union {NoPath}, NEW args \in Explicit, Construct(path, args),
         conf = Default
  PROVE  RInv'
<1> DEFINE loaded == IF path = NoPath THEN NoArgs ELSE Loaded(path).set
           kept   == [k \in DOMAIN loaded \ DOMAIN args |-> loaded[k]]
           first  == Over(kept, Default)
<1>1. DOMAIN loaded \subseteq SettingKeys \union {"gain"}
  BY LoadedKeys DEF NoArgs
<1>2. DOMAIN kept \subseteq SettingKeys \union {"gain"} /\ DOMAIN args \subseteq SettingKeys \union {"gain"}
  BY <1>1, SettingsAssumption
<1>3. /\ Parses(kept) /\ Valid(kept, first) /\ Parses(args) /\ Valid(args, Over(args, first))
      /\ conf' = Over(args, first) /\ opened' = TRUE /\ profile' = Named(path)
      /\ path # NoPath => StreamArgsParse(Loaded(path).stream)
      /\ tx' = tx /\ feeding' = feeding /\ ntp' = ntp /\ holder' = holder /\ ~opened
  BY DEF Construct
<1> HIDE DEF kept
<1>4. DOMAIN Default = Keys /\ InForce(Default)
  BY SettingsAssumption, DefaultAssumption DEF InForce, Configurations
<1>5. InForce(first) /\ DOMAIN first = Keys
  BY <1>2, <1>3, <1>4, OverInForce
<1> HIDE DEF first
<1>6. InForce(conf')
  BY <1>2, <1>3, <1>5, OverInForce
<1>7. InForce(conf)'
  BY <1>6 DEF InForce
<1>8. profile'.path = path /\ StreamArgsParse(profile'.stream)
  BY <1>3, NamedParses
<1>9. tx' = NoStream /\ holder' = {}
  BY <1>3 DEF IInv
<1>10. QED
  BY <1>3, <1>7, <1>8, <1>9 DEF RInv

LEMMA SetupStreamRInv ==
  ASSUME FInv, RInv, NEW given, SetupStream(given)
  PROVE  RInv'
<1> DEFINE args  == Over(given, profile.stream)
           slots == Argument(args, "slots_per_sample", 1)
           ring  == Argument(args, "ring_size", DefaultRingSize(conf["sampleRate"] * slots))
           out   == Argument(args, "envelope_output", "none")
           new   == [slots |-> slots, ring |-> ring, out |-> out, conf |-> conf]
<1>1. /\ StreamArgsParse(args) /\ tx' = new /\ tx = NoStream /\ holder = {}
      /\ UNCHANGED <<opened, conf, profile, feeding, ntp, holder, call>>
  BY DEF SetupStream, Free
<1> HIDE DEF args
<1>2. slots \in 1 .. MaxSlots
  BY <1>1, SettingsAssumption DEF StreamArgsParse, Argument
<1>3. out \in Outputs
  BY <1>1 DEF StreamArgsParse, Argument, Outputs
<1> HIDE DEF slots, out
<1>4. conf["sampleRate"] * slots \in Int
  <2>1. conf["sampleRate"] \in Int
    BY KeySets DEF FInv, Configurations
  <2>2. slots \in Int
    BY <1>2, SettingsAssumption
  <2>3. QED
    BY <2>1, <2>2
<1>5. ring \in MinRing .. MaxRing
  BY <1>1, <1>4, DefaultRingRange DEF StreamArgsParse, Argument
<1> HIDE DEF ring
<1>6. tx' \in Transmitters
  BY <1>1, <1>2, <1>3, <1>5 DEF Transmitters, FInv
<1>7. InForce(conf)'
  BY <1>1 DEF RInv, InForce
<1>8. QED
  BY <1>1, <1>6, <1>7, SettingsAssumption DEF RInv

LEMMA QuietRInv ==
  ASSUME RInv, CloseStream \/ ActivateStream \/ DeactivateStream \/ NtpDrifts \/ FeederStops \/ UNCHANGED vars
  PROVE  RInv'
<1>1. UNCHANGED <<opened, conf, profile, holder, call>>
  BY DEF CloseStream, ActivateStream, DeactivateStream, NtpDrifts, FeederStops, vars
<1>2. InForce(conf)' /\ \A c \in holder : InForce(call[c].pending)'
  BY <1>1 DEF RInv, InForce
<1>3. ntp' \in Ntps /\ feeding' \in BOOLEAN
  BY DEF RInv, CloseStream, ActivateStream, DeactivateStream, NtpDrifts, FeederStops, vars
<1>4. /\ tx' = NoStream \/ tx' = tx
      /\ tx' = NoStream => ~feeding'
  BY DEF RInv, CloseStream, ActivateStream, DeactivateStream, NtpDrifts, FeederStops, vars
<1>5. QED
  BY <1>1, <1>2, <1>3, <1>4 DEF RInv

LEMMA ForgetProfileRInv ==
  ASSUME RInv, ForgetProfile
  PROVE  RInv'
<1>1. holder = {} /\ UNCHANGED <<opened, conf, tx, feeding, ntp, holder, call>> /\ profile' = Named(NoPath)
  BY DEF ForgetProfile, Free
<1>2. profile'.path = NoPath /\ StreamArgsParse(profile'.stream)
  BY <1>1, NamedParses
<1>3. InForce(conf)'
  BY <1>1 DEF RInv, InForce
<1>4. QED
  BY <1>1, <1>2, <1>3 DEF RInv

(* One value put over what is in force. *)
LEMMA OneOver ==
  ASSUME NEW c, DOMAIN c = Keys, NEW key \in Keys, NEW set, DOMAIN set = {key}
  PROVE  Over(set, c)[key] = set[key] /\ \A k \in Keys : k # key => Over(set, c)[k] = c[k]
BY OverValues

LEMMA GainOver ==
  ASSUME NEW c, DOMAIN c = Keys, NEW set, DOMAIN set = {"gain"}
  PROVE  Over(set, c)["gain"] = set["gain"] /\ \A k \in Keys : k # "gain" => Over(set, c)[k] = c[k]
<1>1. "gain" \in Keys
  BY SettingNames
<1>2. DOMAIN set \subseteq Keys
  BY <1>1
<1>3. QED
  BY <1>1, <1>2, OverValues

LEMMA ClampedGain ==
  ASSUME NEW asked, DOMAIN asked = {"gain"}, asked["gain"] \in Int
  PROVE  DOMAIN Clamped(asked) = {"gain"} /\ Clamped(asked)["gain"] \in 0 .. MaxGain
<1>1. MaxGain \in Nat
  BY SettingsAssumption
<1>2. QED
  BY <1>1 DEF Clamped

LEMMA PendingInForce ==
  ASSUME FInv, RInv, NEW asked \in Requests, NEW set, NEW req,
         set = (CASE asked.op = "gain"    -> Clamped(asked.set)
                  [] asked.op = "profile" -> Loaded(asked.path).set
                  [] OTHER                -> asked.set),
         req = [asked EXCEPT !.set = set], Admitted(req, Over(set, conf))
  PROVE  InForce(Over(set, conf))
<1> DEFINE pending == Over(set, conf)
<1>1. /\ DOMAIN asked = {"op", "set", "path"}
      /\ asked.op \in {"frequency", "sampleRate", "gain", "setting", "profile"}
      /\ asked.op \in {"frequency", "sampleRate", "gain"} => DOMAIN asked.set = {asked.op}
      /\ asked.op = "setting" => DOMAIN asked.set \subseteq SettingKeys
      /\ \A k \in DOMAIN asked.set : asked.set[k] \in Int
  BY SettingsAssumption
<1>2. req.op = asked.op /\ req.set = set /\ req.path = asked.path
  BY <1>1
<1>3. DOMAIN conf = Keys /\ InForce(conf)
  BY DEF FInv, RInv, Configurations
<1>4. CASE asked.op = "frequency"
  <2>1. set = asked.set /\ DOMAIN set = {"frequency"}
    BY <1>1, <1>4
  <2>2. InPllRange(pending["frequency"], pending["harmonic"])
    BY <1>2, <1>4 DEF Admitted
  <2>3. pending["frequency"] = set["frequency"] /\ \A k \in Keys : k # "frequency" => pending[k] = conf[k]
    BY <1>3, <2>1, OneOver, TuneNames
  <2> HIDE DEF pending
  <2>4. pending["frequency"] \in Nat
    <3>1. pending["harmonic"] = conf["harmonic"] /\ InRange("harmonic", conf["harmonic"])
      BY <1>3, <2>3, TuneNames DEF InForce
    <3>2. pending["harmonic"] \in Nat
      BY <3>1, SettingsAssumption DEF InRange
    <3>3. PllMin * pending["harmonic"] \in Nat
      BY <3>2, ClockPlanAssumption
    <3>4. pending["frequency"] \in Int
      BY <1>1, <2>1, <2>3
    <3>5. QED
      BY <2>2, <3>3, <3>4 DEF InPllRange
  <2>5. \A k \in Keys : InRange(k, pending[k])
    <3>1. InRange("frequency", pending["frequency"])
      BY <2>4 DEF InRange
    <3>2. QED
      BY <1>3, <2>3, <3>1 DEF InForce
  <2>6. QED
    BY <2>2, <2>5 DEF InForce, pending
<1>5. CASE asked.op = "sampleRate"
  <2>1. set = asked.set /\ DOMAIN set = {"sampleRate"}
    BY <1>1, <1>5
  <2>2. Parses(set)
    BY <1>2, <1>5 DEF Admitted
  <2>3. pending["sampleRate"] = set["sampleRate"] /\ \A k \in Keys : k # "sampleRate" => pending[k] = conf[k]
    BY <1>3, <2>1, OneOver, KeySets
  <2> HIDE DEF pending
  <2>4. \A k \in Keys : InRange(k, pending[k])
    BY <1>3, <2>1, <2>2, <2>3 DEF InForce, Parses
  <2>5. QED
    BY <1>3, <2>3, <2>4, TuneNames DEF InForce, pending
<1>6. CASE asked.op = "gain"
  <2>1. set = Clamped(asked.set) /\ DOMAIN asked.set = {"gain"}
    BY <1>1, <1>6
  <2>2. DOMAIN set = {"gain"} /\ set["gain"] \in 0 .. MaxGain
    <3>1. asked.set["gain"] \in Int
      BY <1>1, <2>1
    <3>2. QED
      BY <2>1, <3>1, ClampedGain
  <2>3. pending["gain"] = set["gain"] /\ \A k \in Keys : k # "gain" => pending[k] = conf[k]
    BY <1>3, <2>2, GainOver
  <2> HIDE DEF pending
  <2>4. InRange("gain", pending["gain"])
    BY <2>2, <2>3 DEF InRange
  <2>5. \A k \in Keys : InRange(k, pending[k])
    BY <1>3, <2>3, <2>4 DEF InForce
  <2>6. QED
    BY <1>3, <2>3, <2>5, TuneNames DEF InForce, pending
<1>7. CASE asked.op \in {"setting", "profile"}
  <2>1. DOMAIN set \subseteq SettingKeys \union {"gain"}
    BY <1>1, <1>7, LoadedKeys
  <2>2. Parses(set) /\ Valid(set, pending)
    BY <1>2, <1>7 DEF Admitted
  <2>3. QED
    BY <1>3, <2>1, <2>2, OverInForce
<1>8. QED
  BY <1>1, <1>4, <1>5, <1>6, <1>7

LEMMA BeginRInv ==
  ASSUME IInv, FInv, RInv, NEW c \in Callers, NEW asked \in Requests, Begin(c, asked)
  PROVE  RInv'
<1> DEFINE set     == CASE asked.op = "gain"    -> Clamped(asked.set)
                        [] asked.op = "profile" -> Loaded(asked.path).set
                        [] OTHER                -> asked.set
           req     == [asked EXCEPT !.set = set]
           pending == Over(set, conf)
           x       == [pc |-> "validated", req |-> req, pending |-> pending,
                       before |-> [conf |-> conf, profile |-> profile, tx |-> tx, clock |-> clock]]
<1>1. /\ holder' = {c} /\ call' = [call EXCEPT ![c] = x] /\ UNCHANGED <<opened, conf, profile, tx, feeding, ntp>>
      /\ Admitted(req, pending)
  BY DEF Begin, Acquire, Free
<1>2. InForce(pending)
  BY <1>1, PendingInForce
<1>3. req.op = asked.op /\ req.path = asked.path /\ (asked.op = "profile" => asked.path \in Paths)
  BY SettingsAssumption
<1> HIDE DEF req, pending
<1>4. asked.op = "profile" => StreamArgsParse(Loaded(asked.path).stream)
  BY <1>1, <1>3 DEF Admitted
<1>5. x.pending = pending /\ x.req = req
  OBVIOUS
<1> HIDE DEF x
<1>6. call'[c] = x
  BY <1>1 DEF IInv, Exclusive
<1>7. InForce(conf)' /\ InForce(call[c].pending)'
  BY <1>1, <1>2, <1>5, <1>6 DEF RInv, InForce
<1>8. QED
  BY <1>1, <1>3, <1>4, <1>5, <1>6, <1>7 DEF RInv

(* A step of the caller keeps what is pending; what is left is what it puts in force. *)
LEMMA CallerRInv ==
  ASSUME IInv, RInv, NEW c \in Callers, NEW to, Goto(c, to), call[c].pc # "idle", holder' = holder,
         UNCHANGED <<opened, feeding, ntp>>, to \in {"validated", "checked", "refused", "tuned", "done"}
  PROVE  /\ c \in holder /\ InForce(call[c].pending) /\ Progress(call[c])
         /\ (/\ InForce(conf')
             /\ profile'.path \in Paths \union {NoPath} /\ StreamArgsParse(profile'.stream)
             /\ IF tx = NoStream THEN tx' = NoStream ELSE tx' \in Transmitters)
            => RInv'
<1>1. c \in holder
  BY DEF IInv, Exclusive, Idle
<1>2. /\ call'[c].req = call[c].req /\ call'[c].pending = call[c].pending /\ \A d \in holder' : d = c
  BY <1>1, GotoKeeps DEF IInv
<1>3. InForce(call[c].pending) /\ Progress(call[c])
  BY <1>1 DEF IInv, RInv
<1>4. InForce(call[c].pending)'
  BY <1>2, <1>3 DEF InForce
<1>5. call'[c].req.op = "profile" => call'[c].req.path \in Paths /\ StreamArgsParse(Loaded(call'[c].req.path).stream)
  BY <1>1, <1>2 DEF RInv
<1>6. InForce(conf') => InForce(conf)'
  BY DEF InForce
<1>7. QED
  BY <1>1, <1>2, <1>3, <1>4, <1>5, <1>6, SettingsAssumption DEF RInv

(* A transmitter that takes a part of another configuration is still one. *)
LEMMA TransmitterTaking ==
  ASSUME NEW t \in Transmitters, NEW S, NEW from \in Configurations
  PROVE  [t EXCEPT !.conf = Taking(t.conf, S, from)] \in Transmitters
<1>1. t.conf \in Configurations
  BY DEF Transmitters
<1>2. Taking(t.conf, S, from) \in Configurations
  BY <1>1, TakingInt
<1>3. QED
  BY <1>2 DEF Transmitters

LEMMA RefusalRInv ==
  ASSUME IInv, RInv, NEW c \in Callers, CheckTune(c) \/ RetuneRefused(c) \/ RetuneUnanswered(c)
  PROVE  RInv'
<1>1. PICK to \in {"checked", "refused"} : Goto(c, to)
  BY DEF CheckTune, RetuneRefused, RetuneUnanswered
<1>2. /\ call[c].pc \in {"validated", "checked"}
      /\ UNCHANGED <<opened, conf, profile, tx, feeding, ntp, holder>>
  BY DEF CheckTune, RetuneRefused, RetuneUnanswered
<1>3. InForce(conf)
  BY DEF RInv
<1>4. QED
  BY <1>1, <1>2, <1>3, CallerRInv DEF RInv

LEMMA TuneDeviceRInv ==
  ASSUME IInv, RInv, NEW c \in Callers, TuneDevice(c)
  PROVE  RInv'
<1> DEFINE S == IF tx = NoStream THEN TuneKeys ELSE {}
<1>1. /\ call[c].pc = "validated" /\ Goto(c, "tuned") /\ UNCHANGED <<opened, profile, tx, feeding, ntp, holder>>
      /\ conf' = Taking(conf, S, call[c].pending)
  BY DEF TuneDevice
<1>2. InForce(call[c].pending) /\ InForce(conf)
  BY <1>1, CallerRInv DEF RInv
<1>3. InForce(conf')
  BY <1>1, <1>2, TakingInForce
<1>4. QED
  BY <1>1, <1>3, CallerRInv DEF RInv

LEMMA RetuneRInv ==
  ASSUME IInv, FInv, RInv, NEW c \in Callers, Retune(c)
  PROVE  RInv'
<1> DEFINE new == call[c].pending
<1>1. call[c].pc = "checked" /\ UNCHANGED <<opened, profile, feeding, ntp, holder>>
  BY DEF Retune
<1>2. Goto(c, "tuned")
  BY DEF Retune
<1>3. c \in holder /\ InForce(new) /\ InForce(conf) /\ Progress(call[c])
  BY <1>1, <1>2, CallerRInv DEF RInv
<1>4. tx \in Transmitters /\ tx # NoStream /\ new \in Configurations
  BY <1>1, <1>3 DEF Progress, RInv, FInv
<1>5. InForce(conf') /\ tx' \in Transmitters
  <2>1. tx' = [tx EXCEPT !.conf = Taking(tx.conf, TuneKeys, new)] /\ conf' = Taking(conf, TuneKeys, new)
    BY DEF Retune
  <2>2. InForce(conf')
    BY <1>3, <2>1, TakingInForce
  <2>3. QED
    BY <1>4, <2>1, <2>2, TransmitterTaking
<1>6. profile'.path \in Paths \union {NoPath} /\ StreamArgsParse(profile'.stream)
  BY <1>1 DEF RInv
<1>7. QED
  BY <1>1, <1>2, <1>4, <1>5, <1>6, CallerRInv

LEMMA CommitRInv ==
  ASSUME IInv, FInv, RInv, NEW c \in Callers, Commit(c)
  PROVE  RInv'
<1> DEFINE x == call[c]
           S == DOMAIN x.req.set \ TuneKeys
<1>1. /\ x.pc = "tuned" /\ Goto(c, "done") /\ conf' = Taking(conf, S, x.pending)
      /\ tx' = ToTransmitter(S, x.pending) /\ UNCHANGED <<opened, feeding, ntp, holder>>
      /\ profile' = IF x.req.op = "profile" THEN Named(x.req.path) ELSE profile
  BY DEF Commit
<1>2. c \in holder /\ InForce(x.pending) /\ InForce(conf)
  BY <1>1, CallerRInv DEF RInv
<1>3. InForce(conf')
  BY <1>1, <1>2, TakingInForce
<1>4. profile'.path \in Paths \union {NoPath} /\ StreamArgsParse(profile'.stream)
  <2>1. CASE x.req.op = "profile"
    <3>1. x.req.path \in Paths /\ StreamArgsParse(Loaded(x.req.path).stream)
      BY <1>2, <2>1 DEF RInv
    <3>2. QED
      BY <1>1, <2>1, <3>1, SettingsAssumption, NamedParses
  <2>2. CASE x.req.op # "profile"
    BY <1>1, <2>2 DEF RInv
  <2>3. QED
    BY <2>1, <2>2
<1>5. IF tx = NoStream THEN tx' = NoStream ELSE tx' \in Transmitters
  <2>1. CASE tx = NoStream
    BY <1>1, <2>1 DEF ToTransmitter
  <2>2. CASE tx # NoStream
    <3>1. tx \in Transmitters /\ x.pending \in Configurations
      BY <1>2, <2>2 DEF RInv, FInv
    <3>2. tx' = [tx EXCEPT !.conf = Taking(tx.conf, S, x.pending)]
      BY <1>1, <2>2 DEF ToTransmitter
    <3>3. QED
      BY <2>2, <3>1, <3>2, TransmitterTaking
  <2>3. QED
    BY <2>1, <2>2
<1>6. QED
  BY <1>1, <1>3, <1>4, <1>5, CallerRInv

LEMMA ReturnRInv ==
  ASSUME IInv, RInv, NEW c \in Callers, Return(c)
  PROVE  RInv'
<1>1. /\ call[c].pc \in {"done", "refused"} /\ holder' = holder \ {c}
      /\ UNCHANGED <<opened, conf, profile, tx, feeding, ntp>>
  BY DEF Return
<1>2. holder' = {}
  <2>1. c \in holder
    BY <1>1 DEF IInv, Exclusive, Idle
  <2>2. QED
    BY <1>1, <2>1 DEF IInv, Exclusive
<1>3. InForce(conf)'
  BY <1>1 DEF RInv, InForce
<1>4. QED
  BY <1>1, <1>2, <1>3 DEF RInv

(* Until the constructor has returned the device has its default configuration. *)
LEMMA StepNew ==
  (~opened => conf = Default) /\ IInv /\ [Next]_vars => (~opened => conf = Default)'
<1>1. SUFFICES ASSUME ~opened => conf = Default, IInv, [Next]_vars, ~opened' PROVE conf' = Default
  OBVIOUS
<1>2. ASSUME NEW c \in Callers, Call(c) PROVE opened'
  <2>1. ASSUME call[c] # Idle, opened' = opened PROVE opened'
    <3>1. c \in holder
      BY <1>1, <2>1, Zenon DEF IInv, Exclusive
    <3>2. opened
      BY <1>1, <3>1, Zenon DEF IInv
    <3>3. QED
      BY <2>1, <3>2, Zenon
  <2>2. ASSUME NEW req \in Requests, Begin(c, req) PROVE opened'
    BY <2>2 DEF Begin, Acquire, Free
  <2>3. QED
    BY <1>2, <2>1, <2>2 DEF Call, TuneDevice, CheckTune, Retune, RetuneRefused, RetuneUnanswered, Commit, Return, Idle
<1>3. QED
  BY <1>1, <1>2 DEF Next, vars, Construct, SetupStream, CloseStream, ActivateStream, DeactivateStream,
     ForgetProfile, NtpDrifts, FeederStops, Free

RStep == RInv /\ (~opened => conf = Default)

LEMMA StepRInv == IInv /\ FInv /\ RStep /\ [Next]_vars => RStep'
<1>1. SUFFICES ASSUME IInv, FInv, RStep, [Next]_vars PROVE RInv'
  BY StepNew DEF RStep
<1>2. ASSUME NEW path \in Paths \union {NoPath}, NEW args \in Explicit, Construct(path, args) PROVE RInv'
  BY <1>1, <1>2, ConstructRInv DEF RStep, Construct
<1>3. ASSUME NEW given \in StreamArgs, SetupStream(given) PROVE RInv'
  BY <1>1, <1>3, SetupStreamRInv DEF RStep
<1>4. CASE CloseStream \/ ActivateStream \/ DeactivateStream \/ NtpDrifts \/ FeederStops \/ UNCHANGED vars
  BY <1>1, <1>4, QuietRInv DEF RStep
<1>5. CASE ForgetProfile
  BY <1>1, <1>5, ForgetProfileRInv DEF RStep
<1>6. ASSUME NEW c \in Callers, Call(c) PROVE RInv'
  <2>1. ASSUME NEW req \in Requests, Begin(c, req) PROVE RInv'
    BY <1>1, <2>1, BeginRInv DEF RStep
  <2>2. CASE TuneDevice(c)
    BY <1>1, <2>2, TuneDeviceRInv DEF RStep
  <2>3. CASE CheckTune(c) \/ RetuneRefused(c) \/ RetuneUnanswered(c)
    BY <1>1, <2>3, RefusalRInv DEF RStep
  <2>4. CASE Retune(c)
    BY <1>1, <2>4, RetuneRInv DEF RStep
  <2>5. CASE Commit(c)
    BY <1>1, <2>5, CommitRInv DEF RStep
  <2>6. CASE Return(c)
    BY <1>1, <2>6, ReturnRInv DEF RStep
  <2>7. QED
    BY <1>6, <2>1, <2>2, <2>3, <2>4, <2>5, <2>6 DEF Call
<1>7. QED
  BY <1>1, <1>2, <1>3, <1>4, <1>5, <1>6 DEF Next

LEMMA SpecFInv == Spec => []FInv
<1>1. FInv /\ IInv /\ [Next]_vars => FInv'
  BY StepFInv
<1>2. QED
  BY <1>1, InitFInv, SpecIInv, PTL DEF Spec

LEMMA SpecRInv == Spec => []RStep
<1>1. Init => RStep
  BY InitRInv DEF Init, RStep
<1>2. QED
  BY <1>1, StepRInv, SpecIInv, SpecFInv, PTL DEF Spec

(* One caller at a time is in a call, and every value in force is one that its setting *)
(* declares.                                                                           *)
THEOREM SettingsTypes == Spec => []TypeOK
<1>1. IInv /\ FInv /\ RStep => TypeOK
  <2>1. SUFFICES ASSUME IInv, FInv, RInv PROVE TypeOK
    BY DEF RStep
  <2>2. Cardinality(holder) <= 1
    <3>1. CASE holder = {}
      BY <3>1, FS_EmptySet
    <3>2. CASE holder # {}
      <4>1. PICK c \in holder : TRUE
        BY <3>2
      <4>2. holder = {c}
        BY <2>1, <4>1 DEF IInv, Exclusive
      <4>3. Cardinality(holder) = 1
        BY <4>2, FS_Singleton, Zenon
      <4>4. QED
        BY <4>3
    <3>3. QED
      BY <3>1, <3>2
  <2>3. \A c \in Callers : call[c].pc # "idle" <=> c \in holder
    BY <2>1 DEF IInv, Exclusive, InCall, Idle
  <2>4. QED
    BY <2>1, <2>2, <2>3 DEF TypeOK, RInv, FInv, InForce, IInv, Exclusive
<1>2. QED
  BY <1>1, SpecIInv, SpecFInv, SpecRInv, PTL

(* Whatever the order in which frequency, harmonic and profile were set, accepted or refused, *)
(* the divider search finds a setting for the carrier in force.                               *)
THEOREM FrequencyReachable == Spec => []Reachable
<1>1. FInv /\ RStep => Reachable
  <2>1. SUFFICES ASSUME FInv, InForce(conf) PROVE Reachable
    BY DEF RStep, RInv
  <2> DEFINE f == conf["frequency"]
             h == conf["harmonic"]
  <2>2. f \in Int /\ h \in Int
    BY <2>1, TuneNames DEF FInv, Configurations
  <2>3. InRange("harmonic", h) /\ InPllRange(f, h)
    BY <2>1, TuneNames DEF InForce
  <2>4. h >= 1
    BY <2>2, <2>3, SettingsAssumption DEF InRange
  <2>5. CheckCenterFrequency(Rounded(f, h), conf["sampleRate"]) # NoDivider
    BY <2>2, <2>3, <2>4, RangeIsReachable
  <2>6. QED
    BY <2>3, <2>5 DEF Reachable, Centre
<1>2. QED
  BY <1>1, SpecFInv, SpecRInv, PTL
==============================================================================
