---------------------------- MODULE MCSpscFifo ----------------------------
(* A three-element FIFO that wraps around twice: batches of up to two      *)
(* elements are offered, the limit is set below, at and above the storage, *)
(* and to zero.                                                            *)
EXTENDS SpscFifo

CONSTANTS a, b, zero

MCValues == {a, b}
MCLimits == {0, 2, 4}
============================================================================
