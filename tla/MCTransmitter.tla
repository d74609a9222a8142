---------------------------- MODULE MCTransmitter ----------------------------
(* Transmitter on a ring of 8 slots.  The configurations differ in what may *)
(* go wrong: retunes and engine faults, restarts and a change of the        *)
(* envelope advance, a feeder that stalls for more than a lap.              *)
EXTENDS Transmitter

(* No envelope advance; none, or one slot. *)
MCAdvances == {0}
MCTwoAdvances == {0, 1}
=============================================================================
