-------------------------- MODULE MCSessionRecord --------------------------
(***************************************************************************)
(* A driver and a recovery tool, two handles, and both storage clocks on    *)
(* PLLC as the firmware may leave them.                                     *)
(***************************************************************************)
EXTENDS SessionRecord, TLC

\* A tree as the firmware leaves it: the VPU on PLLC, the storage clocks given.
Found(emmc, emmc2) ==
  [vpu |-> Gen("pllc", TRUE), emmc |-> emmc, emmc2 |-> emmc2, gp0 |-> Gen("osc", FALSE),
   ana |-> "orig", ctrl |-> "orig", core0 |-> "orig", per |-> "orig", pacing |-> "orig"]

MCFoundTrees == {Found(Gen("pllc", TRUE), Gen("pllc", TRUE))}

MCHandleSymmetry == Permutations(Handles)
=============================================================================
