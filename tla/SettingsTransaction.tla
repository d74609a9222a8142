------------------------- MODULE SettingsTransaction -------------------------
(***************************************************************************)
(* Settings, profiles and the open stream (SoapyRPITX_Settings.cpp,         *)
(* SoapyRPITX_Profile.hpp, setupStream(); CheckTune() and ApplyTune() of    *)
(* the transmitter).  Every call works under device_mutex on a copy of the  *)
(* configuration: it parses, validates, lets the transmitter try the tune,  *)
(* and only then commits, the tune first, the amplitude next and last what  *)
(* cannot fail.                                                             *)
(*                                                                         *)
(* The device, the transmitter of the open stream and the clocks each hold  *)
(* the configuration.  While a call runs, the NTP estimate may drift and    *)
(* the feeder may stop; a request to the feeder may time out.  How request  *)
(* and answer cross the threads is the subject of RetuneHandshake.          *)
(*                                                                         *)
(* The amplitude settings are represented by envelope_delay, the only one   *)
(* an open stream can refuse, and the settings that are applied live by     *)
(* the gain.                                                                *)
(***************************************************************************)
EXTENDS ClockPlan, FiniteSets

CONSTANTS
  Callers,            \* application threads
  Requests,           \* what they ask for: [op, set, path]
  StreamArgs,         \* arguments of setupStream()
  Explicit,           \* settings given as device arguments
  Paths, NoPath,      \* profile files
  File,               \* what each holds: [trusted, lines], a line being [kind, key, value]
  Default,            \* configuration of a new device
  MinRate, MaxRate, MaxSlots,
  MaxHarmonic, MaxPpm, MaxDelay, MaxGain,
  Ntps,               \* estimates of the kernel
  NoStream

VARIABLES
  opened,             \* the constructor has returned
  conf,               \* tune, ampCfg and the live settings of the device
  profile,            \* profilePath, profileStream
  tx,                 \* the transmitter of the open stream
  feeding,            \* its feeder runs
  clock,              \* PLL and pacing clock as programmed, corrections in use
  ntp,
  holder,             \* of device_mutex
  call                \* progress of each caller

vars == <<opened, conf, profile, tx, feeding, clock, ntp, holder, call>>

------------------------------------------------------------------------------
TuneKeys == {"frequency", "harmonic", "sampleRate", "ppm", "ppm_ntp"}
AmpKeys  == {"envelope_delay"}
LiveKeys == {"gain"}
Keys     == TuneKeys \union AmpKeys \union LiveKeys

\* Settings by name, in writeSetting(), profiles and device arguments.  Frequency, rate and
\* gain have calls of their own.
SettingKeys == {"harmonic", "ppm", "ppm_ntp", "envelope_delay"}

Configurations == [Keys -> Int]

\* Assigning the keys of S from another configuration.
Taking(c, S, from) == [k \in Keys |-> IF k \in S THEN from[k] ELSE c[k]]

Touches(req, S) == DOMAIN req.set \intersect S # {}

\* The entries of a map over those of another.
Over(set, c) == [k \in DOMAIN set \union DOMAIN c |-> IF k \in DOMAIN set THEN set[k] ELSE c[k]]

\* What an open stream was set up with, and the configuration its transmitter holds.
Transmitters == [slots : 1 .. MaxSlots, ring : MinRing .. MaxRing, out : Outputs, conf : Configurations]

NoArgs  == [k \in {} |-> 0]

\* The PLL (centre, divider) with the correction it was programmed at, the pacing clock with
\* its own, and the corrections the two drivers compute with.
NoClock ==
  [centre |-> 0, divider |-> 0, at |-> 0, pacing |-> 0, pacedAt |-> 0, ppm |-> 0, pacingPpm |-> 0]

Idle    == [pc |-> "idle"]

StreamKeys == {"slots_per_sample", "ring_size", "envelope_output"}

ASSUME SettingsAssumption ==
  /\ NoPath \notin Paths /\ NoStream \notin Transmitters
  /\ Default \in Configurations
  /\ InPllRange(Default["frequency"], Default["harmonic"])
  /\ {MinRate, MaxRate, MaxSlots, MaxHarmonic} \subseteq Nat \ {0}
  /\ {MaxPpm, MaxDelay, MaxGain} \subseteq Nat
  /\ Ntps \subseteq Int /\ Ntps # {}
  /\ \A r \in Requests :
       /\ DOMAIN r = {"op", "set", "path"}
       /\ DOMAIN r.set \subseteq Keys
       /\ \A k \in DOMAIN r.set : r.set[k] \in Int
       /\ r.op \in {"frequency", "sampleRate", "gain", "setting", "profile"}
       /\ r.op \in {"frequency", "sampleRate", "gain"} => DOMAIN r.set = {r.op}
       /\ r.op = "setting" => DOMAIN r.set \subseteq SettingKeys
       /\ r.op = "profile" => r.path \in Paths
  /\ \A args \in Explicit : DOMAIN args \subseteq SettingKeys

------------------------------------------------------------------------------
(* Profile files. *)

\* SoapyRPITX_LoadProfile(): a file that others could change, or with a line that is neither
\* blank, nor a comment, nor key=value, is refused as a whole.
Readable(path) ==
  /\ File[path].trusted
  /\ \A i \in DOMAIN File[path].lines : File[path].lines[i].kind # "malformed"

\* SoapyRPITX_ParseProfile(): of two lines with one key the later counts.  Keys the driver
\* does not know are ignored.
LinesOf(path, kind, keys) ==
  LET lines == File[path].lines
      at(k) == {i \in DOMAIN lines : lines[i].kind = kind /\ lines[i].key = k}
  IN  [k \in {key \in keys : at(key) # {}} |-> lines[CHOOSE i \in at(k) : \A j \in at(k) : j <= i].value]

\* What LoadProfile() takes from a file: settings with the initial gain, stream arguments.
Loaded(path) ==
  [set |-> LinesOf(path, "setting", SettingKeys \union {"gain"}), stream |-> LinesOf(path, "stream", StreamKeys)]

------------------------------------------------------------------------------
(* Parsing and validation: nothing is changed. *)

InRange(k, v) ==
  CASE k = "frequency"      -> v \in Nat
    [] k = "harmonic"       -> v \in 1 .. MaxHarmonic
    [] k = "sampleRate"     -> v \in MinRate .. MaxRate
    [] k = "ppm"            -> v \in -MaxPpm .. MaxPpm
    [] k = "ppm_ntp"        -> v \in 0 .. 1
    [] k = "envelope_delay" -> v \in -MaxDelay .. MaxDelay
    [] k = "gain"           -> v \in 0 .. MaxGain

\* The settings of a new device are ones it would accept.
ASSUME DefaultAssumption == \A k \in Keys : InRange(k, Default[k])

\* Mutant: a value out of range is let through.
Parses_Anything(set) == TRUE

Parses(set) == \A k \in DOMAIN set : InRange(k, set[k])

\* setGain() clamps, the other calls parse.
Clamped(set) ==
  [k \in DOMAIN set |-> IF set[k] < 0 THEN 0 ELSE IF set[k] > MaxGain THEN MaxGain ELSE set[k]]

SlotRate(c, t) == c["sampleRate"] * t.slots

\* Mutant: a new harmonic is not checked against the frequency.
Valid_AnyHarmonic(set, pending) ==
  /\ ("envelope_delay" \in DOMAIN set /\ tx # NoStream)
       => AdvanceFits(pending["envelope_delay"], tx.slots, tx.out, tx.ring)

\* ValidateSettings()
Valid(set, pending) ==
  /\ "harmonic" \in DOMAIN set => InPllRange(pending["frequency"], pending["harmonic"])
  /\ ("envelope_delay" \in DOMAIN set /\ tx # NoStream)
       => AdvanceFits(pending["envelope_delay"], tx.slots, tx.out, tx.ring)

\* ParseStreamArgs()
StreamArgsParse(args) ==
  /\ "slots_per_sample" \in DOMAIN args => args["slots_per_sample"] \in 1 .. MaxSlots
  /\ "ring_size" \in DOMAIN args => args["ring_size"] \in MinRing .. MaxRing
  /\ "envelope_output" \in DOMAIN args => args["envelope_output"] \in Outputs

RateFitsStream(pending) ==
  tx # NoStream => /\ SlotRate(pending, tx) <= MaxRate
                   /\ RingFitsRate(tx.ring, SlotRate(pending, tx))

Admitted(req, pending) ==
  CASE req.op = "frequency"  -> InPllRange(pending["frequency"], pending["harmonic"])
    [] req.op = "sampleRate" -> Parses(req.set) /\ RateFitsStream(pending)
    [] req.op = "gain"       -> TRUE
    [] req.op = "setting"    -> Parses(req.set) /\ Valid(req.set, pending)
    [] req.op = "profile"    -> /\ Readable(req.path)
                                /\ Parses(req.set) /\ Valid(req.set, pending)
                                /\ StreamArgsParse(Loaded(req.path).stream)

------------------------------------------------------------------------------
(* The transmitter. *)

Correction(c) == (IF c["ppm_ntp"] = 1 THEN ntp ELSE 0) + c["ppm"]

Centre(c) == Rounded(c["frequency"], c["harmonic"])

RateTaken(t, c) ==
  /\ c["sampleRate"] \in MinRate .. MaxRate
  /\ SlotRate(c, t) <= MaxRate
  /\ RingFitsRate(t.ring, SlotRate(c, t))

\* The checks of CheckTune(), repeated by ApplyTune().
Accepts(t, c) ==
  /\ RateTaken(t, c)
  /\ PacingFits(t.out, SlotRate(c, t), Correction(c))
  /\ CheckCenterFrequency(Centre(c), SlotRate(c, t)) # NoDivider

\* The crystal corrections of a tune, which ApplyTune() sets before its checks.
Corrected(c) == [clock EXCEPT !.ppm = Correction(c), !.pacingPpm = Correction(c)]

\* SetCenterFrequency(), which reprograms nothing when the search finds no divider.
Tuned(k, c, rate) ==
  IF CheckCenterFrequency(Centre(c), rate) = NoDivider
    THEN k
    ELSE [k EXCEPT !.centre = Centre(c), !.divider = CheckCenterFrequency(Centre(c), rate), !.at = k.ppm]

\* SetFrequency() of the pacing clock.
Paced(k, rate) == [k EXCEPT !.pacing = rate, !.pacedAt = k.pacingPpm]

\* ApplyTune() that succeeds.
Programmed(t, c) == Paced(Tuned(Corrected(c), c, SlotRate(c, t)), SlotRate(c, t))

\* The lambda rollback(): the corrections found.
Restored(k) == [k EXCEPT !.ppm = clock.ppm, !.pacingPpm = clock.pacingPpm]

\* Mutant: the PLL goes back before the corrections do.
AfterRefusal_PllFirst(t, c) ==
  CASE ~RateTaken(t, c) -> clock
    [] RateTaken(t, c) /\ ~Accepts(t, c) -> Restored(Corrected(c))
    [] Accepts(t, c) ->
         Restored(Tuned(Tuned(Corrected(c), c, SlotRate(c, t)), t.conf, SlotRate(t.conf, t)))

\* ApplyTune() that fails: at the rate, before the corrections are set; at a check, before the
\* clocks are programmed; or at the pacing clock, when the PLL runs for the new tune already
\* and is programmed again for the one in effect.
AfterRefusal(t, c) ==
  CASE ~RateTaken(t, c) -> clock
    [] RateTaken(t, c) /\ ~Accepts(t, c) -> Restored(Corrected(c))
    [] Accepts(t, c) ->
         Tuned(Restored(Tuned(Corrected(c), c, SlotRate(c, t))), t.conf, SlotRate(t.conf, t))

------------------------------------------------------------------------------
(* Construction and the stream. *)

Named(path) == [path |-> path, stream |-> IF path = NoPath THEN NoArgs ELSE Loaded(path).stream]

\* The constructor: the profile without the keys given as arguments, then the arguments.
Construct(path, args) ==
  LET loaded == IF path = NoPath THEN NoArgs ELSE Loaded(path).set
      kept   == [k \in DOMAIN loaded \ DOMAIN args |-> loaded[k]]
      first  == Over(kept, Default)
      new    == Over(args, first)
  IN
  /\ ~opened
  /\ Parses(kept) /\ Valid(kept, first)
  /\ Parses(args) /\ Valid(args, new)
  /\ path # NoPath => Readable(path) /\ StreamArgsParse(Loaded(path).stream)
  /\ opened' = TRUE
  /\ conf' = new
  /\ profile' = Named(path)
  /\ UNCHANGED <<tx, feeding, clock, ntp, holder, call>>

Free == opened /\ holder = {}

Argument(args, name, default) == IF name \in DOMAIN args THEN args[name] ELSE default

\* setupStream(): a configuration the checks or the clocks refuse opens nothing.
SetupStream(given) ==
  LET args  == Over(given, profile.stream)
      slots == Argument(args, "slots_per_sample", 1)
      ring  == Argument(args, "ring_size", DefaultRingSize(conf["sampleRate"] * slots))
      new   == [slots |-> slots, ring |-> ring,
                out |-> Argument(args, "envelope_output", "none"), conf |-> conf]
  IN
  /\ Free /\ tx = NoStream
  /\ StreamArgsParse(args)
  /\ AdvanceFits(conf["envelope_delay"], new.slots, new.out, new.ring)
  /\ Accepts(new, conf)
  /\ tx' = new
  /\ clock' = Programmed(new, conf)
  /\ UNCHANGED <<opened, conf, profile, feeding, ntp, holder, call>>

CloseStream ==
  /\ Free /\ tx # NoStream
  /\ tx' = NoStream
  /\ feeding' = FALSE
  /\ clock' = NoClock
  /\ UNCHANGED <<opened, conf, profile, ntp, holder, call>>

ActivateStream ==
  /\ Free /\ tx # NoStream /\ ~feeding
  /\ feeding' = TRUE
  /\ UNCHANGED <<opened, conf, profile, tx, clock, ntp, holder, call>>

DeactivateStream ==
  /\ Free /\ feeding
  /\ feeding' = FALSE
  /\ UNCHANGED <<opened, conf, profile, tx, clock, ntp, holder, call>>

------------------------------------------------------------------------------
(* A call that changes the configuration. *)

\* Mutant: the call does not take device_mutex.
Acquire_Nothing(c) == opened /\ holder' = holder \union {c}

Acquire(c) == Free /\ holder' = {c}

\* The copy of the configuration, parsed and validated.  A call that is refused here
\* has changed nothing and is not shown.
Begin(c, asked) ==
  LET set     == CASE asked.op = "gain"    -> Clamped(asked.set)
                   [] asked.op = "profile" -> Loaded(asked.path).set
                   [] OTHER                -> asked.set
      req     == [asked EXCEPT !.set = set]
      pending == Over(set, conf)
  IN
  /\ call[c] = Idle
  /\ Acquire(c)
  /\ Admitted(req, pending)
  /\ call' = [call EXCEPT ![c] = [pc |-> "validated", req |-> req, pending |-> pending,
                                  before |-> [conf |-> conf, profile |-> profile, tx |-> tx, clock |-> clock]]]
  /\ UNCHANGED <<opened, conf, profile, tx, feeding, clock, ntp>>

Goto(c, to) == call' = [call EXCEPT ![c].pc = to]

\* ApplyTune() of the device without a stream, or nothing to tune.
TuneDevice(c) ==
  /\ call[c].pc = "validated"
  /\ tx = NoStream \/ ~Touches(call[c].req, TuneKeys)
  /\ conf' = Taking(conf, IF tx = NoStream THEN TuneKeys ELSE {}, call[c].pending)
  /\ Goto(c, "tuned")
  /\ UNCHANGED <<opened, profile, tx, feeding, clock, ntp, holder>>

\* Retune(): the precheck, which stores nothing.
CheckTune(c) ==
  /\ call[c].pc = "validated"
  /\ tx # NoStream /\ Touches(call[c].req, TuneKeys)
  /\ Goto(c, IF Accepts(tx, call[c].pending) THEN "checked" ELSE "refused")
  /\ UNCHANGED <<opened, conf, profile, tx, feeding, clock, ntp, holder>>

\* ApplyTune() of the transmitter, by the caller or by the feeder, and the answer.
Retune(c) ==
  LET new == call[c].pending IN
  /\ call[c].pc = "checked"
  /\ Accepts(tx, new)
  /\ clock' = Programmed(tx, new)
  /\ tx' = [tx EXCEPT !.conf = Taking(tx.conf, TuneKeys, new)]
  /\ conf' = Taking(conf, TuneKeys, new)
  /\ Goto(c, "tuned")
  /\ UNCHANGED <<opened, profile, feeding, ntp, holder>>

\* ApplyTune() that fails: at its checks, when the estimate has drifted since the precheck, or
\* at the pacing clock, when the hardware has changed since.
RetuneRefused(c) ==
  /\ call[c].pc = "checked"
  /\ clock' = AfterRefusal(tx, call[c].pending)
  /\ Goto(c, "refused")
  /\ UNCHANGED <<opened, conf, profile, tx, feeding, ntp, holder>>

\* Mutant: the device takes the tune whatever the transmitter answers.
RetuneUnanswered_Kept(c) ==
  /\ call[c].pc = "checked" /\ feeding
  /\ conf' = Taking(conf, TuneKeys, call[c].pending)
  /\ Goto(c, "refused")
  /\ UNCHANGED <<opened, profile, tx, feeding, clock, ntp, holder>>

\* The feeder stops, or does not respond within 3 s, before it has taken the request.
RetuneUnanswered(c) ==
  /\ call[c].pc = "checked" /\ feeding
  /\ Goto(c, "refused")
  /\ UNCHANGED <<opened, conf, profile, tx, feeding, clock, ntp, holder>>

\* Mutant: the transmitter keeps its amplitude settings.
ToTransmitter_NotAmp(S, new) == IF tx = NoStream THEN tx ELSE [tx EXCEPT !.conf = Taking(tx.conf, S \ AmpKeys, new)]

ToTransmitter(S, new) == IF tx = NoStream THEN tx ELSE [tx EXCEPT !.conf = Taking(tx.conf, S, new)]

\* The rest of ApplySettings(), and the profile.  The branch that restores the tune when the
\* amplitude is refused is not modelled: Valid() repeats the transmitter's test, so that
\* StreamFits shows it is not reached.
Commit(c) ==
  LET req == call[c].req
      S   == DOMAIN req.set \ TuneKeys
  IN
  /\ call[c].pc = "tuned"
  /\ conf' = Taking(conf, S, call[c].pending)
  /\ tx' = ToTransmitter(S, call[c].pending)
  /\ profile' = IF req.op = "profile" THEN Named(req.path) ELSE profile
  /\ Goto(c, "done")
  /\ UNCHANGED <<opened, feeding, clock, ntp, holder>>

\* Return, or exception.
Return(c) ==
  /\ call[c].pc \in {"done", "refused"}
  /\ call' = [call EXCEPT ![c] = Idle]
  /\ holder' = holder \ {c}
  /\ UNCHANGED <<opened, conf, profile, tx, feeding, clock, ntp>>

\* writeSetting("profile", "")
ForgetProfile ==
  /\ Free
  /\ profile' = Named(NoPath)
  /\ UNCHANGED <<opened, conf, tx, feeding, clock, ntp, holder, call>>

------------------------------------------------------------------------------
(* The environment. *)

NtpDrifts ==
  /\ opened
  /\ ntp' \in Ntps \ {ntp}
  /\ UNCHANGED <<opened, conf, profile, tx, feeding, clock, holder, call>>

\* EmergencyStop(), or the end of the feeder.
FeederStops ==
  /\ feeding
  /\ feeding' = FALSE
  /\ UNCHANGED <<opened, conf, profile, tx, clock, ntp, holder, call>>

Init ==
  /\ opened = FALSE
  /\ conf = Default
  /\ profile = Named(NoPath)
  /\ tx = NoStream
  /\ feeding = FALSE
  /\ clock = NoClock
  /\ ntp \in Ntps
  /\ holder = {}
  /\ call = [c \in Callers |-> Idle]

Call(c) ==
  \/ \E req \in Requests : Begin(c, req)
  \/ TuneDevice(c)
  \/ CheckTune(c)
  \/ Retune(c)
  \/ RetuneRefused(c)
  \/ RetuneUnanswered(c)
  \/ Commit(c)
  \/ Return(c)

Next ==
  \/ \E path \in Paths \union {NoPath}, args \in Explicit : Construct(path, args)
  \/ \E given \in StreamArgs : SetupStream(given)
  \/ CloseStream
  \/ ActivateStream
  \/ DeactivateStream
  \/ ForgetProfile
  \/ \E c \in Callers : Call(c)
  \/ NtpDrifts
  \/ FeederStops

Spec == Init /\ [][Next]_vars

------------------------------------------------------------------------------
(* Properties. *)

\* Every value in force is within the range the settings declare.
TypeOK ==
  /\ opened \in BOOLEAN /\ feeding \in BOOLEAN
  /\ conf \in Configurations /\ \A k \in Keys : InRange(k, conf[k])
  /\ profile.path \in Paths \union {NoPath} /\ StreamArgsParse(profile.stream)
  /\ tx \in Transmitters \union {NoStream}
  /\ tx = NoStream => ~feeding
  /\ ntp \in Ntps
  /\ holder \subseteq Callers /\ Cardinality(holder) <= 1
  /\ \A c \in Callers : call[c].pc # "idle" <=> c \in holder

\* A call that returns has made every change it was asked for or, refused, timed out or
\* left by the feeder, none: not in the device, the transmitter, the profile or the clocks
\* (README.md:529, SoapyRPITX.hpp:839 and 869).
AllOrNothing ==
  \A c \in Callers :
    LET b == call[c].before
        r == call[c].req
    IN
    /\ call[c].pc = "refused" => <<conf, profile, tx, clock>> = <<b.conf, b.profile, b.tx, b.clock>>
    /\ call[c].pc = "done" =>
         /\ \A k \in Keys : conf[k] = IF k \in DOMAIN r.set THEN call[c].pending[k] ELSE b.conf[k]
         /\ profile = IF r.op = "profile" THEN Named(r.path) ELSE b.profile

\* No call undoes another: a setting changes only by a call that names it, although every
\* call commits a copy of the whole tune.
NoLostUpdate ==
  [][opened => \A k \in Keys : conf'[k] # conf[k] =>
       \E c \in Callers : call'[c] # call[c] /\ k \in DOMAIN call[c].req.set]_vars

\* The frequency can be produced with the harmonic in force: the search finds a divider for
\* it, in whatever order frequency, harmonic and profile were set (Settings.cpp:82, 531).
Reachable ==
  /\ InPllRange(conf["frequency"], conf["harmonic"])
  /\ CheckCenterFrequency(Centre(conf), conf["sampleRate"]) # NoDivider

\* The open stream can carry the rate and the delay in force, although both change while
\* its ring does not: the slot rate is within the hardware's, the ring is long enough for
\* it, and the envelope words are not written further ahead than an eighth of it.
StreamFits ==
  tx # NoStream =>
    /\ conf["sampleRate"] * tx.slots <= MaxRate
    /\ conf["sampleRate"] * tx.slots * RingTime <= tx.ring
    /\ 8 * (Latency(tx.out) - conf["envelope_delay"] * tx.slots) <= tx.ring

\* Between two calls the device and the transmitter hold the same configuration.
DeviceMatchesTransmitter ==
  (tx # NoStream /\ holder = {}) => tx.conf = conf

\* The clocks run as the transmitter's configuration says, each programmed with the correction
\* its driver goes on computing with, the modulation included, wherever a retune was refused
\* (README.md:974, dmaSync.cpp:473 and 527).
HardwareMatches ==
  tx # NoStream =>
    /\ clock.centre = Centre(tx.conf)
    /\ clock.divider = CheckCenterFrequency(Centre(tx.conf), SlotRate(tx.conf, tx))
    /\ clock.pacing = SlotRate(tx.conf, tx)
    /\ clock.ppm = clock.at
    /\ clock.pacingPpm = clock.pacedAt
==============================================================================
