------------------------ MODULE RetuneHandshake_proofs ------------------------
(***************************************************************************)
(* Retune() and the feeder agree on the tune in effect, for every set of    *)
(* configurations and every number of requests, starts and engine errors.   *)
(***************************************************************************)
EXTENDS RetuneHandshake, TLAPS

(* The control thread has a request with the feeder: in the first wait, or  *)
(* past it.                                                                *)
FirstWait  == {"taken?", "block1", "wait1", "woken1", "expired", "decide"}
SecondWait == {"done?", "block2", "wait2", "woken2", "report"}
Requesting == FirstWait \cup SecondWait

(* The feeder works on a request.                                          *)
Serving == {"taken", "retune", "publish"}

(* An engine recovery and the exit of the process may have overlapped.      *)
Overlap == exiting /\ recoveries > 0

(* Who holds the mutex, and how far the flags of the feeder can be trusted. *)
FlagInv ==
  /\ mutex = "control" <=> cpc \in {"taken?", "block1", "decide", "done?", "block2", "report"}
  /\ feederExited <=> fpc \in {"exiting", "gone"}
  /\ (~running /\ ~feederExited) => (exiting \/ cpc = "join")
  /\ cpc = "direct" => (feederExited \/ exiting)
  /\ fpc = "recover" => (recoveries > 0 /\ (request = tuneCfg \/ exiting))

(* At most one request is under way, and the counters say how far it is.    *)
SeqInv ==
  /\ takenSeq =< requestSeq /\ doneSeq =< takenSeq
  /\ pendingTune # NoTune =>
       (cpc \in FirstWait /\ takenSeq < requestSeq /\ pendingTune = asked)
  /\ fpc \in Serving =>
       /\ cpc \in Requesting
       /\ seq = requestSeq /\ takenSeq = requestSeq /\ doneSeq < requestSeq
       /\ request = asked
  /\ fpc \notin Serving => doneSeq = takenSeq
  /\ cpc \in SecondWait => takenSeq = requestSeq
  /\ cpc = "report" => (doneSeq = requestSeq \/ feederExited)

(* What is in effect at each stage of a request.                           *)
TuneInv ==
  ~Overlap =>
    /\ cpc \notin Requesting => tune = tuneCfg
    /\ (cpc \in Requesting /\ takenSeq < requestSeq) => tune = tuneCfg
    /\ fpc \in {"taken", "retune"} => tune = tuneCfg
    /\ fpc = "publish" => tuneCfg = IF ok THEN asked ELSE tune
    /\ (cpc \in Requesting /\ doneSeq = requestSeq) =>
         tuneCfg = IF tuneResult THEN asked ELSE tune

HInv == TypeOK /\ FlagInv /\ SeqInv /\ TuneInv

USE HandshakeAssumption
    DEF ControlPoints, FeederPoints, FirstWait, SecondWait, Requesting, Serving, Overlap

LEMMA HInit == Init => HInv
<1>1. Init => /\ ok \in BOOLEAN /\ tuneResult \in BOOLEAN /\ running \in BOOLEAN
              /\ feederExited \in BOOLEAN /\ active \in BOOLEAN /\ exiting \in BOOLEAN
  BY Zenon DEF Init
<1> QED
  BY <1>1 DEF Init, HInv, TypeOK, FlagInv, SeqInv, TuneInv

LEMMA HControl ==
  ASSUME HInv,
         \/ Retune \/ Submit \/ Relock \/ InRetune \/ SpuriousWake
         \/ Start \/ Stop \/ StopJoined \/ ExitHandler
  PROVE  HInv'
<1> USE DEF HInv, TypeOK, FlagInv, SeqInv, TuneInv, reqV, outV, feederV, flagV, boundV
<1>1. CASE Retune
  BY <1>1 DEF Retune
<1>2. CASE Submit
  BY <1>2 DEF Submit
<1>3. CASE Relock
  BY <1>3 DEF Relock
<1>4. CASE Direct
  BY <1>4 DEF Direct
<1>5. CASE EvaluateTaken
  BY <1>5 DEF EvaluateTaken
<1>6. CASE EvaluateDone
  BY <1>6 DEF EvaluateDone
<1>7. CASE Block
  BY <1>7 DEF Block
<1>8. CASE Timeout
  BY <1>8 DEF Timeout
<1>9. CASE Decide
  BY <1>9 DEF Decide
<1>10. CASE Report
  BY <1>10 DEF Report
<1>11. CASE SpuriousWake
  BY <1>11 DEF SpuriousWake
<1>12. CASE Start
  <2>1. active' \in BOOLEAN /\ running' \in BOOLEAN /\ feederExited' \in BOOLEAN
    BY <1>12, Zenon DEF Start
  <2> QED
    BY <1>12, <2>1 DEF Start
<1>13. CASE Stop
  BY <1>13 DEF Stop
<1>14. CASE StopJoined
  BY <1>14 DEF StopJoined
<1>15. CASE ExitHandler
  <2>1. exiting' \in BOOLEAN /\ running' \in BOOLEAN
    BY <1>15, Zenon DEF ExitHandler
  <2> QED
    BY <1>15, <2>1 DEF ExitHandler
<1> QED
  BY <1>1, <1>2, <1>3, <1>4, <1>5, <1>6, <1>7, <1>8, <1>9, <1>10, <1>11, <1>12, <1>13,
     <1>14, <1>15 DEF InRetune

LEMMA HFeeder ==
  ASSUME HInv, Feeder \/ RecoverBegin \/ Take \/ Publish
  PROVE  HInv'
<1> USE DEF HInv, TypeOK, FlagInv, SeqInv, TuneInv, reqV, outV, feederV, flagV, boundV
<1>1. CASE Take
  BY <1>1 DEF Take
<1>2. CASE NotifyTaken
  BY <1>2 DEF NotifyTaken, NotifyAll
<1>3. CASE FeederRetune
  <2>1. ok' \in BOOLEAN
    BY <1>3, Zenon DEF FeederRetune
  <2> QED
    BY <1>3, <2>1 DEF FeederRetune
<1>4. CASE Publish
  BY <1>4 DEF Publish
<1>5. CASE NotifyDone
  BY <1>5 DEF NotifyDone, NotifyAll
<1>6. CASE RecoverBegin
  BY <1>6 DEF RecoverBegin
<1>7. CASE RecoverEnd
  BY <1>7 DEF RecoverEnd
<1>8. CASE FeederExit
  BY <1>8 DEF FeederExit
<1>9. CASE NotifyExit
  BY <1>9 DEF NotifyExit, NotifyAll
<1> QED
  BY <1>1, <1>2, <1>3, <1>4, <1>5, <1>6, <1>7, <1>8, <1>9 DEF Feeder

LEMMA HStep == HInv /\ [Next]_vars => HInv'
<1> SUFFICES ASSUME HInv, [Next]_vars PROVE HInv'
  OBVIOUS
<1>1. CASE Next
  BY <1>1, HControl, HFeeder DEF Next
<1>2. CASE UNCHANGED vars
  BY <1>2 DEF vars, reqV, outV, feederV, flagV, boundV, HInv, TypeOK, FlagInv, SeqInv, TuneInv
<1> QED
  BY <1>1, <1>2

(* Whatever Retune() returned, device and transmitter agree between calls.  *)
THEOREM RetuneAgrees == Spec => []Agree
<1>1. HInv => Agree
  BY DEF HInv, TuneInv, Agree
<1> QED
  BY HInit, HStep, <1>1, PTL DEF Spec
=============================================================================
