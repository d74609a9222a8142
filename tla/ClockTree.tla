------------------------------ MODULE ClockTree ------------------------------
(***************************************************************************)
(* The clocks librpitx takes over (gpio.cpp).  The carrier comes from       *)
(* GPCLK0, which is fed by PLLC, and PLLC is modulated: before that the     *)
(* VPU, EMMC and EMMC2 clocks have to leave it, and whatever ends the       *)
(* transmitter has to put everything back.                                  *)
(*                                                                         *)
(* A tree maps each register group to its value: a generator to its source  *)
(* and whether it runs, the PLLC settings and the pacing clock to "orig"    *)
(* (as found) or "tx" (as librpitx programs them).  Rates and dividers are  *)
(* not modelled.  A reprogramming is the sequence of its register writes,   *)
(* because the process may die between any two of them.                     *)
(***************************************************************************)
EXTENDS Naturals, Sequences

CONSTANT Bcm2711   \* the SoC has an EMMC2 clock generator

ASSUME ClockAssumption == Bcm2711 \in BOOLEAN

Gen(src, run) == [src |-> src, run |-> run]

Sources    == {"osc", "plla", "pllc", "plld"}
Generators == {"vpu", "emmc", "emmc2", "gp0"}
Clock   == [src : Sources, run : BOOLEAN]
Setting == {"orig", "tx"}
Trees ==
  [vpu : Clock, emmc : Clock, emmc2 : Clock, gp0 : Clock,
   ana : Setting, ctrl : Setting, core0 : Setting, per : Setting, pacing : Setting]

W(g, v) == <<g, v>>

Written(tree, w) == [tree EXCEPT ![w[1]] = w[2]]

\* cm_stop_generator(), cm_program_generator(): stopped, set up stopped, started.
Stop(g, now) == <<W(g, Gen(now.src, FALSE))>>

\* Mutant: the generator keeps running.
Program_Running(g, now, src, run) == <<W(g, Gen(src, FALSE)), W(g, Gen(src, run))>>

Program(g, now, src, run) ==
  Stop(g, now) \o <<W(g, Gen(src, FALSE))>> \o (IF run THEN <<W(g, Gen(src, TRUE))>> ELSE <<>>)

\* cm_move_emmc2_off_pllc(): a storage clock fed by PLLC goes to PLLD.
MoveEmmc2(t) ==
  IF Bcm2711 /\ t.emmc2.src = "pllc" THEN Program("emmc2", t.emmc2, "plld", t.emmc2.run) ELSE <<>>

\* SetAdvancedPllMode(true).  The VPU clock cannot be stopped.
AdvanceWrites(t) ==
  <<W("vpu", Gen("plla", TRUE))>> \o Program("emmc", t.emmc, "plld", TRUE) \o MoveEmmc2(t)
    \o Program("gp0", t.gp0, "pllc", FALSE) \o <<W("core0", "tx"), W("per", "tx")>>

\* SetFrequency() and SetMasterMultFrac() move PLLC; SetDacFrequency(), SetFrequency() the
\* pacing clock.
MasterWrites == <<W("ctrl", "tx")>>
PacingWrites == <<W("pacing", "tx")>>

\* SetCenterFrequency() reprograms GPCLK0 stopped and starts it when PLLC is set.
TuneWrites ==
  Program("gp0", Gen("pllc", FALSE), "pllc", FALSE)
    \o <<W("ana", "tx")>> \o MasterWrites \o <<W("gp0", Gen("pllc", TRUE))>> \o PacingWrites

\* Mutant: the clocks go back before PLLC.
RestoreTree_ClocksFirst(t, s) ==
  Stop("gp0", t.gp0)
    \o <<W("vpu", s.vpu)>>
    \o Program("emmc", t.emmc, s.emmc.src, s.emmc.run)
    \o (IF Bcm2711 THEN Program("emmc2", t.emmc2, s.emmc2.src, s.emmc2.run) ELSE <<>>)
    \o <<W("ana", s.ana), W("ctrl", s.ctrl), W("per", s.per), W("core0", s.core0)>>
    \o Program("gp0", t.gp0, s.gp0.src, s.gp0.run)

\* cm_restore_tree(): PLLC and its channels first, then the clocks they feed.
RestoreTree(t, s) ==
  Stop("gp0", t.gp0)
    \o <<W("ana", s.ana), W("ctrl", s.ctrl), W("per", s.per), W("core0", s.core0), W("vpu", s.vpu)>>
    \o Program("emmc", t.emmc, s.emmc.src, s.emmc.run)
    \o (IF Bcm2711 THEN Program("emmc2", t.emmc2, s.emmc2.src, s.emmc2.run) ELSE <<>>)
    \o Program("gp0", t.gp0, s.gp0.src, s.gp0.run)

\* ~pcmgpio(), ~pwmgpio(): the pacing clock as it was found.
RestorePacing(s) == <<W("pacing", s.pacing)>>

-----------------------------------------------------------------------------
(* What the storage and processor clocks depend on.                         *)

Undisturbed(t, g) ==
  {t.ana, t.ctrl, IF g = "vpu" THEN t.core0 ELSE t.per} = {"orig"}

FedByModulated(t) ==
  \E g \in Generators \ {"gp0"} : t[g] = Gen("pllc", TRUE) /\ ~Undisturbed(t, g)
=============================================================================
