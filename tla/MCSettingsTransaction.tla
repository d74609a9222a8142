----------------------- MODULE MCSettingsTransaction -----------------------
(* Requests, stream arguments and profile files for the model checker. *)
EXTENDS SettingsTransaction, TLC

CONSTANTS p1, p2, p3

MCDefault ==
  [frequency |-> 2, harmonic |-> 1, sampleRate |-> 1, ppm |-> 0, ppm_ntp |-> 1,
   envelope_delay |-> 0, gain |-> 1]

Set(k, v)    == [kind |-> "setting", key |-> k, value |-> v]
Stream(k, v) == [kind |-> "stream", key |-> k, value |-> v]

\* The second has a key twice and unknown keys, the third a line without "=".
MCFile ==
  (p1 :> [trusted |-> TRUE,
          lines |-> <<Set("harmonic", 2), Set("ppm", 1), Set("envelope_delay", -1), Set("gain", 0),
                      Stream("slots_per_sample", 2)>>]) @@
  (p2 :> [trusted |-> TRUE,
          lines |-> <<Set("ppm_ntp", 1), Set("colour", 7), Set("envelope_delay", 1), Set("ppm_ntp", 0),
                      Stream("ring_size", 16), Stream("shape", 1), Stream("envelope_output", "pwm")>>]) @@
  (p3 :> [trusted |-> TRUE, lines |-> <<Set("gain", 0), [kind |-> "malformed"]>>])

Ask(op, set) == [op |-> op, set |-> set, path |-> NoPath]

MCRequests ==
  {Ask("frequency", [frequency |-> f]) : f \in {2, 5}} \union
  {Ask("sampleRate", [sampleRate |-> r]) : r \in 1 .. 3} \union
  {Ask("setting", [harmonic |-> h]) : h \in 1 .. 3} \union
  {Ask("setting", [ppm |-> 1]), Ask("setting", [envelope_delay |-> -1]),
   Ask("gain", [gain |-> 5])} \union
  {[op |-> "profile", set |-> NoArgs, path |-> p] : p \in {p1, p2, p3}}

MCStreamArgs ==
  {NoArgs, [slots_per_sample |-> 2], [ring_size |-> 8],
   [envelope_output |-> "pwm"], [slots_per_sample |-> 1, envelope_output |-> "pcm"]}

MCExplicit == {NoArgs, [harmonic |-> 1]}

MCNtps == {0, 1}

MCCallerSymmetry == Permutations(Callers)
=============================================================================
