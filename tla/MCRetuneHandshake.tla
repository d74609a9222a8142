-------------------------- MODULE MCRetuneHandshake --------------------------
(* Three requests among two configurations, two starts, one engine error.   *)
EXTENDS RetuneHandshake

CONSTANTS t1, t2, none

MCTunes == {t1, t2}
=============================================================================
