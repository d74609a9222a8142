--------------------------- MODULE RetuneHandshake ---------------------------
(***************************************************************************)
(* SoapyRPITX_IQ_dmaSync::Retune() and the feeder thread: how a change of   *)
(* frequency or sample rate reaches the thread that owns the hardware, and  *)
(* how the outcome comes back.                                              *)
(*                                                                         *)
(* The control thread (the control API is serialised by device_mutex) calls *)
(* ApplyTune() of the device, Start() and Stop().  The feeder takes a       *)
(* request at the top of a period.  Both use tuneMutex and the condition    *)
(* variable tuneCv; `running` and `feederExited` are stored and notified    *)
(* without the mutex, so a notification may come between a predicate and    *)
(* the wait that follows it, and is then lost.  Wake-ups may be spurious.   *)
(* The exit handler may clear `running` at any time.                        *)
(*                                                                         *)
(* The precheck CheckTune() changes nothing when it refuses, and is left    *)
(* out; ApplyTune() may still refuse (the measured crystal correction and   *)
(* the hardware may have changed), and then restores what was in effect.    *)
(***************************************************************************)
EXTENDS Naturals

CONSTANTS
  Tunes, InitialTune,                     \* configurations; the first one
  NoTune,                                 \* no request is pending
  MaxRequests, MaxStarts, MaxRecoveries   \* bounds

ASSUME HandshakeAssumption ==
  /\ InitialTune \in Tunes /\ NoTune \notin Tunes
  /\ {MaxRequests, MaxStarts, MaxRecoveries} \subseteq Nat

VARIABLES
  tune,        \* SoapyRPITX::tune: what the device believes to be in effect
  tuneCfg,     \* what the transmitter has in effect
  cpc, asked,  \* control thread: where it is, and the configuration it asks for
  fpc,         \* feeder thread: where it is
  request, seq, ok,   \* its locals: the request taken, and its outcome
  mutex,       \* tuneMutex: "free", "control" or "feeder"
  pendingTune, \* the request, or NoTune (tunePending)
  requestSeq, takenSeq, doneSeq, tuneResult,
  running, feederExited, active,
  exiting, starts, recoveries

reqV    == <<pendingTune, requestSeq>>
outV    == <<takenSeq, doneSeq, tuneResult>>
feederV == <<fpc, request, seq, ok>>
flagV   == <<running, feederExited, active>>
boundV  == <<exiting, starts, recoveries>>
vars    == <<tune, tuneCfg, cpc, asked, feederV, mutex, reqV, outV, flagV, boundV>>

Init ==
  /\ tune = InitialTune /\ tuneCfg = InitialTune
  /\ cpc = "idle" /\ asked = InitialTune
  /\ fpc = "gone" /\ request = InitialTune /\ seq = 0 /\ ok = FALSE
  /\ mutex = "free" /\ pendingTune = NoTune
  /\ requestSeq = 0 /\ takenSeq = 0 /\ doneSeq = 0 /\ tuneResult = FALSE
  /\ running = FALSE /\ feederExited = TRUE /\ active = FALSE
  /\ exiting = FALSE /\ starts = 0 /\ recoveries = 0

(* notify_all(): a control thread that waits is woken; one that is about to *)
(* wait is not.                                                            *)
NotifyAll == cpc' = CASE cpc = "wait1" -> "woken1"
                      [] cpc = "wait2" -> "woken2"
                      [] OTHER -> cpc
-----------------------------------------------------------------------------
(* Control thread: Retune() *)

Retune ==
  /\ cpc = "idle" /\ requestSeq < MaxRequests
  /\ asked' \in Tunes
  /\ cpc' = (IF running THEN "lock" ELSE "direct")
  /\ UNCHANGED <<tune, tuneCfg, feederV, mutex, reqV, outV, flagV, boundV>>

(* Feeder not running: ApplyTune() from the control thread.                *)
Direct ==
  /\ cpc = "direct"
  /\ \/ tuneCfg' = asked /\ tune' = asked
     \/ UNCHANGED <<tuneCfg, tune>>
  /\ cpc' = "idle"
  /\ UNCHANGED <<asked, feederV, mutex, reqV, outV, flagV, boundV>>

Submit ==
  /\ cpc = "lock" /\ mutex = "free"
  /\ mutex' = "control"
  /\ requestSeq' = requestSeq + 1
  /\ pendingTune' = asked
  /\ cpc' = "taken?"
  /\ UNCHANGED <<tune, tuneCfg, asked, feederV, outV, flagV, boundV>>

(* A predicate is evaluated, and the wait begun, with the mutex held.       *)
EvaluateTaken ==
  /\ cpc = "taken?"
  /\ cpc' = (IF takenSeq >= requestSeq \/ ~running THEN "decide" ELSE "block1")
  /\ UNCHANGED <<tune, tuneCfg, asked, feederV, mutex, reqV, outV, flagV, boundV>>

EvaluateDone ==
  /\ cpc = "done?"
  /\ cpc' = (IF doneSeq >= requestSeq \/ feederExited THEN "report" ELSE "block2")
  /\ UNCHANGED <<tune, tuneCfg, asked, feederV, mutex, reqV, outV, flagV, boundV>>

Block ==
  /\ \/ cpc = "block1" /\ cpc' = "wait1"
     \/ cpc = "block2" /\ cpc' = "wait2"
  /\ mutex' = "free"
  /\ UNCHANGED <<tune, tuneCfg, asked, feederV, reqV, outV, flagV, boundV>>

SpuriousWake ==
  /\ \/ cpc = "wait1" /\ cpc' = "woken1"
     \/ cpc = "wait2" /\ cpc' = "woken2"
  /\ UNCHANGED <<tune, tuneCfg, asked, feederV, mutex, reqV, outV, flagV, boundV>>

(* The first wait ends after three seconds.                                *)
Timeout ==
  /\ cpc = "wait1"
  /\ cpc' = "expired"
  /\ UNCHANGED <<tune, tuneCfg, asked, feederV, mutex, reqV, outV, flagV, boundV>>

Relock ==
  /\ mutex = "free"
  /\ \/ cpc = "woken1"  /\ cpc' = "taken?"
     \/ cpc = "woken2"  /\ cpc' = "done?"
     \/ cpc = "expired" /\ cpc' = "decide"
  /\ mutex' = "control"
  /\ UNCHANGED <<tune, tuneCfg, asked, feederV, reqV, outV, flagV, boundV>>

(* Not taken: the request is withdrawn and the device keeps its tune (the   *)
(* result is Stopped or Timeout).  (Mutated: the request stays.)           *)
Decide_LeavesPending ==
  /\ cpc = "decide"
  /\ IF takenSeq < requestSeq THEN cpc' = "idle" /\ mutex' = "free"
                              ELSE cpc' = "done?" /\ UNCHANGED mutex
  /\ UNCHANGED <<tune, tuneCfg, asked, feederV, reqV, outV, flagV, boundV>>

Decide ==
  /\ cpc = "decide"
  /\ IF takenSeq < requestSeq
       THEN pendingTune' = NoTune /\ cpc' = "idle" /\ mutex' = "free"
       ELSE cpc' = "done?" /\ UNCHANGED <<pendingTune, mutex>>
  /\ UNCHANGED <<tune, tuneCfg, asked, feederV, requestSeq, outV, flagV, boundV>>

Report ==
  /\ cpc = "report"
  /\ tune' = (IF doneSeq >= requestSeq /\ tuneResult THEN asked ELSE tune)
  /\ cpc' = "idle" /\ mutex' = "free"
  /\ UNCHANGED <<tuneCfg, asked, feederV, reqV, outV, flagV, boundV>>
-----------------------------------------------------------------------------
(* Control thread: Start() and Stop(); the exit handler *)

Start ==
  /\ cpc = "idle" /\ ~active /\ fpc = "gone" /\ starts < MaxStarts
  /\ starts' = starts + 1
  /\ active' = TRUE /\ running' = TRUE /\ feederExited' = FALSE
  /\ fpc' = "top"
  /\ UNCHANGED <<tune, tuneCfg, cpc, asked, request, seq, ok, mutex, reqV, outV,
                 exiting, recoveries>>

Stop ==
  /\ cpc = "idle" /\ active
  /\ active' = FALSE /\ running' = FALSE
  /\ cpc' = "join"
  /\ UNCHANGED <<tune, tuneCfg, asked, feederV, mutex, reqV, outV, feederExited, boundV>>

StopJoined ==
  /\ cpc = "join" /\ fpc = "gone" /\ mutex = "free"
  /\ pendingTune' = NoTune
  /\ cpc' = "idle"
  /\ UNCHANGED <<tune, tuneCfg, asked, feederV, mutex, requestSeq, outV, flagV, boundV>>

(* EmergencyStop() *)
ExitHandler ==
  /\ ~exiting
  /\ exiting' = TRUE
  /\ running' = FALSE
  /\ UNCHANGED <<tune, tuneCfg, cpc, asked, feederV, mutex, reqV, outV, feederExited, active,
                 starts, recoveries>>
-----------------------------------------------------------------------------
(* Feeder thread *)

Take ==
  /\ fpc = "top" /\ running /\ mutex = "free" /\ pendingTune # NoTune
  /\ request' = pendingTune
  /\ seq' = requestSeq
  /\ takenSeq' = requestSeq
  /\ pendingTune' = NoTune
  /\ fpc' = "taken"
  /\ UNCHANGED <<tune, tuneCfg, cpc, asked, ok, mutex, requestSeq, doneSeq, tuneResult,
                 flagV, boundV>>

NotifyTaken ==
  /\ fpc = "taken"
  /\ NotifyAll
  /\ fpc' = "retune"
  /\ UNCHANGED <<tune, tuneCfg, asked, request, seq, ok, mutex, reqV, outV, flagV, boundV>>

(* FeederRetune(): ApplyTune() succeeds or restores.                       *)
FeederRetune ==
  /\ fpc = "retune"
  /\ \/ tuneCfg' = request /\ ok' = TRUE
     \/ UNCHANGED tuneCfg /\ ok' = FALSE
  /\ fpc' = "publish"
  /\ UNCHANGED <<tune, cpc, asked, request, seq, mutex, reqV, outV, flagV, boundV>>

Publish ==
  /\ fpc = "publish" /\ mutex = "free"
  /\ tuneResult' = ok
  /\ doneSeq' = seq
  /\ fpc' = "done"
  /\ UNCHANGED <<tune, tuneCfg, cpc, asked, request, seq, ok, mutex, reqV, takenSeq,
                 flagV, boundV>>

(* (Mutated: the waiting thread is not woken.)                             *)
NotifyDone_Silent ==
  /\ fpc = "done"
  /\ fpc' = "top"
  /\ UNCHANGED <<tune, tuneCfg, cpc, asked, request, seq, ok, mutex, reqV, outV, flagV, boundV>>
NotifyDone ==
  /\ fpc = "done"
  /\ NotifyAll
  /\ fpc' = "top"
  /\ UNCHANGED <<tune, tuneCfg, asked, request, seq, ok, mutex, reqV, outV, flagV, boundV>>

(* RecoverDma() in the rest of the period: the tune in effect is applied    *)
(* again after an engine error.                                            *)
RecoverBegin ==
  /\ fpc = "top" /\ running /\ recoveries < MaxRecoveries
  /\ recoveries' = recoveries + 1
  /\ request' = tuneCfg
  /\ fpc' = "recover"
  /\ UNCHANGED <<tune, tuneCfg, cpc, asked, seq, ok, mutex, reqV, outV, flagV, exiting, starts>>

RecoverEnd ==
  /\ fpc = "recover"
  /\ tuneCfg' \in {request, tuneCfg}
  /\ fpc' = "top"
  /\ UNCHANGED <<tune, cpc, asked, request, seq, ok, mutex, reqV, outV, flagV, boundV>>

FeederExit ==
  /\ fpc = "top" /\ ~running
  /\ feederExited' = TRUE
  /\ fpc' = "exiting"
  /\ UNCHANGED <<tune, tuneCfg, cpc, asked, request, seq, ok, mutex, reqV, outV,
                 running, active, boundV>>

NotifyExit ==
  /\ fpc = "exiting"
  /\ NotifyAll
  /\ fpc' = "gone"
  /\ UNCHANGED <<tune, tuneCfg, asked, request, seq, ok, mutex, reqV, outV, flagV, boundV>>
-----------------------------------------------------------------------------
InRetune == Direct \/ EvaluateTaken \/ EvaluateDone \/ Block \/ Timeout \/ Decide \/ Report

Feeder ==
  \/ NotifyTaken \/ FeederRetune \/ NotifyDone \/ RecoverEnd \/ FeederExit \/ NotifyExit

Next ==
  \/ Retune \/ Submit \/ Relock \/ InRetune \/ SpuriousWake
  \/ Start \/ Stop \/ StopJoined \/ ExitHandler
  \/ Feeder \/ RecoverBegin \/ Take \/ Publish

Spec == Init /\ [][Next]_vars

(* Both threads go on; the mutex is held for a few instructions at a time,  *)
(* so whoever wants it finds it free in the end.                           *)
Fairness ==
  /\ WF_vars(InRetune) /\ WF_vars(Feeder) /\ WF_vars(StopJoined)
  /\ SF_vars(Submit) /\ SF_vars(Relock) /\ SF_vars(Take) /\ SF_vars(Publish)

FairSpec == Spec /\ Fairness
-----------------------------------------------------------------------------
ControlPoints == {"idle", "direct", "lock", "taken?", "block1", "wait1", "woken1", "expired",
                  "decide", "done?", "block2", "wait2", "woken2", "report", "join"}
FeederPoints  == {"gone", "top", "taken", "retune", "publish", "done", "recover", "exiting"}

TypeOK ==
  /\ tune \in Tunes /\ tuneCfg \in Tunes /\ asked \in Tunes /\ request \in Tunes
  /\ cpc \in ControlPoints /\ fpc \in FeederPoints
  /\ mutex \in {"free", "control"}
  /\ pendingTune \in Tunes \cup {NoTune}
  /\ requestSeq \in Nat /\ takenSeq \in Nat /\ doneSeq \in Nat /\ seq \in Nat
  /\ ok \in BOOLEAN /\ tuneResult \in BOOLEAN
  /\ running \in BOOLEAN /\ feederExited \in BOOLEAN /\ active \in BOOLEAN
  /\ exiting \in BOOLEAN /\ starts \in Nat /\ recoveries \in Nat

(* Between calls the device and the transmitter agree on the tune, whatever *)
(* the call returned: Ok means applied, anything else that nothing changed, *)
(* then or later (Retune()).  Only an engine recovery that overlaps the     *)
(* exit of the process may set the tune back.                              *)
Agree ==
  (cpc = "idle" /\ ~(exiting /\ recoveries > 0)) => tune = tuneCfg

(* Retune() and Stop() return: neither a lost notification nor a feeder     *)
(* that stops half-way leaves the caller waiting.                          *)
CallsReturn == (cpc # "idle") ~> (cpc = "idle")

(* "Feeder not running: the DMA is stopped and the hardware can be          *)
(* reprogrammed directly" (comment in Retune()): nobody else is using it.   *)
DirectAlone == cpc = "direct" => feederExited
=============================================================================
