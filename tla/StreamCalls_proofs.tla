-------------------------- MODULE StreamCalls_proofs --------------------------
(***************************************************************************)
(* The data-path calls of StreamCalls take no lock.  For any number of      *)
(* readers and deactivating threads, and any number of streams, none of     *)
(* them works on a stream object that is gone, only the open stream         *)
(* transmits, and a deactivation does not cut a burst short.               *)
(***************************************************************************)
EXTENDS StreamCalls, FiniteSetTheorems, TLAPS

(* streamCalls counts the calls under way.                                 *)
Registered == {c \in Callers : pc[c] # "out"}
CountInv == streamCalls = Cardinality(Registered)

(* What the device's pointer and handle are worth at each point of a        *)
(* control call.                                                           *)
DeviceInv ==
  /\ streamHandle # 0 =>
       streamHandle = txStream /\ streamPtr = txStream /\ cpc \in {"idle", "start"}
  /\ cpc \in {"handle", "start", "interrupt", "wait"} => streamPtr = txStream
  /\ cpc \in {"pointer", "handle"} => txStream = streamGeneration
  /\ cpc \in {"pointer", "handle", "start", "interrupt", "wait"} => txStream # 0
  /\ (cpc = "idle" /\ txStream # 0) => streamPtr = txStream
  /\ cpc = "forget" => txStream = 0
  /\ txStream # 0 => txStream \in alive

(* A call that passed the check of its handle has the open stream's: the     *)
(* device keeps that stream while the call is registered.                   *)
CallInv ==
  \A c \in Callers :
    /\ pc[c] \in {"matched"} \cup InBody =>
         txStream # 0 /\ handle[c] = txStream /\ streamPtr = txStream
    /\ pc[c] \in InBody => obj[c] = handle[c]

(* The transmitter of a stream runs while the stream is open, and not any    *)
(* more when closing it waits for the calls under way.                      *)
ActiveInv ==
  /\ \A g \in Streams : active[g] => g = txStream
  /\ cpc = "wait" => ~active[txStream]

SInv == TypeOK /\ CountInv /\ DeviceInv /\ CallInv /\ ActiveInv

USE StreamAssumption DEF InBody, Streams, Goto

(* Adding one to an entry of a function to Nat leaves it one.             *)
LEMMA Increment ==
  ASSUME NEW S, NEW f \in [S -> Nat], NEW x
  PROVE  [f EXCEPT ![x] = @ + 1] \in [S -> Nat]
<1>1. \A y \in S : [f EXCEPT ![x] = @ + 1][y] \in Nat
  OBVIOUS
<1> QED
  BY <1>1

(* The calls under way are a finite set: none when the count is zero, and  *)
(* the count is not zero inside a call.                                    *)
LEMMA CallersFinite == IsFiniteSet(Callers) /\ IsFiniteSet(Registered)
<1>1. IsFiniteSet(Callers)
  <2>1. IsFiniteSet(Readers \cup {Writer})
    BY FS_AddElement
  <2> QED
    BY <2>1 DEF Callers
<1>2. Registered \in SUBSET Callers
  BY DEF Registered
<1> QED
  BY <1>1, <1>2, FS_Subset

LEMMA NoneRegistered ==
  ASSUME CountInv, streamCalls = 0
  PROVE  \A c \in Callers : pc[c] = "out"
<1>1. Registered = {}
  BY CallersFinite, FS_EmptySet DEF CountInv
<1> QED
  BY <1>1 DEF Registered

LEMMA CountAtLeastOne ==
  ASSUME CountInv, NEW c \in Callers, pc[c] # "out"
  PROVE  streamCalls \in Nat \ {0}
<1>1. Registered # {}
  BY DEF Registered
<1>2. Cardinality(Registered) \in Nat /\ Cardinality(Registered) # 0
  BY <1>1, CallersFinite, FS_CardinalityType, FS_EmptySet
<1> QED
  BY <1>2 DEF CountInv

LEMMA ControlTypes ==
  ASSUME SInv, SetupCreate \/ SetupPointer \/ SetupHandle \/ ActivateBegin \/ ActivateStart \/ CloseBegin \/ CloseInterrupt \/ CloseReset \/ CloseEnd
  PROVE  TypeOK'
<1> USE DEF deviceV, fifoV, callV, boundV, drainV, SInv, TypeOK, DeviceInv, Callers
<1>1. CASE SetupCreate
  BY <1>1 DEF SetupCreate
<1>2. CASE SetupPointer
  BY <1>2 DEF SetupPointer
<1>3. CASE SetupHandle
  BY <1>3 DEF SetupHandle
<1>4. CASE ActivateBegin
  BY <1>4 DEF ActivateBegin
<1>5. CASE ActivateStart
  BY <1>5 DEF ActivateStart
<1>6. CASE CloseBegin
  BY <1>6 DEF CloseBegin
<1>7. CASE CloseInterrupt
  BY <1>7 DEF CloseInterrupt, Stop
<1>8. CASE CloseReset
  BY <1>8 DEF CloseReset
<1>9. CASE CloseEnd
  BY <1>9 DEF CloseEnd
<1> QED
  BY <1>1, <1>2, <1>3, <1>4, <1>5, <1>6, <1>7, <1>8, <1>9

LEMMA DrainTypes ==
  ASSUME SInv, NEW d \in Drainers, DeactivateBegin(d) \/ Drained(d) \/ DrainTimeout(d) \/ DeactivateStop(d) \/ DeactivateEnd(d)
  PROVE  TypeOK'
<1> USE DEF deviceV, fifoV, callV, boundV, drainV, SInv, TypeOK, DeviceInv, Callers
<1>1. CASE DeactivateBegin(d)
  BY <1>1 DEF DeactivateBegin
<1>2. CASE Drained(d)
  BY <1>2 DEF Drained
<1>3. CASE DrainTimeout(d)
  BY <1>3 DEF DrainTimeout
<1>4. CASE DeactivateStop(d)
  <2>1. /\ active' \in [Streams -> BOOLEAN] /\ endBurstPending' \in [Streams -> BOOLEAN]
        /\ gone' \in [Streams -> Nat]
    <3>1. CASE txStream = held[d]
      <4>1. active' \in [Streams -> BOOLEAN] /\ endBurstPending' \in [Streams -> BOOLEAN]
        BY <1>4, <3>1 DEF DeactivateStop, Stop
      <4>2. gone' = [gone EXCEPT ![txStream] = pushed[txStream]]
        BY <1>4, <3>1 DEF DeactivateStop, Stop
      <4>3. gone' \in [Streams -> Nat]
        BY <4>2
      <4> QED
        BY <4>1, <4>3
    <3>2. CASE txStream # held[d]
      BY <1>4, <3>2 DEF DeactivateStop
    <3> QED
      BY <3>1, <3>2
  <2>2. dpc' \in [Drainers -> {"out", "drain", "stop", "release"}]
    BY <1>4 DEF DeactivateStop
  <2> QED
    BY <1>4, <2>1, <2>2 DEF DeactivateStop
<1>5. CASE DeactivateEnd(d)
  <2>1. alive' \in SUBSET Streams
    BY <1>5 DEF DeactivateEnd
  <2>2. held' \in [Drainers -> 0..MaxStreams] /\ mark' \in [Drainers -> Nat]
    BY <1>5 DEF DeactivateEnd
  <2>3. gaveUp' \in [Drainers -> BOOLEAN]
    BY <1>5 DEF DeactivateEnd
  <2>4. dpc' \in [Drainers -> {"out", "drain", "stop", "release"}]
    BY <1>5 DEF DeactivateEnd
  <2> QED
    BY <1>5, <2>1, <2>2, <2>3, <2>4 DEF DeactivateEnd
<1> QED
  BY <1>1, <1>2, <1>3, <1>4, <1>5

LEMMA CallTypes ==
  ASSUME SInv, NEW c \in Callers, EnterStreamCall(c) \/ Validate(c) \/ LoadPointer(c) \/ LeaveStreamCall(c)
  PROVE  TypeOK'
<1> USE DEF deviceV, fifoV, callV, boundV, drainV, SInv, TypeOK, DeviceInv, Callers
<1>1. CASE EnterStreamCall(c)
  <2>1. handle' \in [Callers -> 0..MaxStreams]
    <3>1. PICK h \in Issued : handle' = [handle EXCEPT ![c] = h]
      BY <1>1 DEF EnterStreamCall
    <3>2. h \in 0..MaxStreams
      BY DEF Issued
    <3> QED
      BY <3>1, <3>2
  <2>2. pc' \in [Callers -> {"out", "entered", "matched", "leave"} \cup InBody]
    BY <1>1 DEF EnterStreamCall
  <2>3. streamCalls' \in Nat
    BY <1>1 DEF EnterStreamCall
  <2> QED
    BY <1>1, <2>1, <2>2, <2>3 DEF EnterStreamCall
<1>2. CASE Validate(c)
  <2>1. pc' \in [Callers -> {"out", "entered", "matched", "leave"} \cup InBody]
    BY <1>2 DEF Validate
  <2>2. refused' = refused \/ refused' = refused + 1
    BY <1>2 DEF Validate
  <2>3. refused' \in Nat
    BY <2>2
  <2> QED
    BY <1>2, <2>1, <2>3 DEF Validate
<1>3. CASE LoadPointer(c)
  BY <1>3 DEF LoadPointer
<1>4. CASE LeaveStreamCall(c)
  <2>1. streamCalls' \in Nat
    BY <1>4, CountAtLeastOne DEF LeaveStreamCall
  <2>2. /\ handle' \in [Callers -> 0..MaxStreams] /\ obj' \in [Callers -> 0..MaxStreams]
    BY <1>4 DEF LeaveStreamCall
  <2>3. pc' \in [Callers -> {"out", "entered", "matched", "leave"} \cup InBody]
    BY <1>4 DEF LeaveStreamCall
  <2> QED
    BY <1>4, <2>1, <2>2, <2>3 DEF LeaveStreamCall
<1> QED
  BY <1>1, <1>2, <1>3, <1>4

LEMMA SendTypes ==
  ASSUME SInv, Send \/ Write \/ WriteTimeout \/ SendAccepted \/ SendEndBurst \/ Play
  PROVE  TypeOK'
<1> USE DEF deviceV, fifoV, callV, boundV, drainV, SInv, TypeOK, DeviceInv, Callers
<1>1. CASE Send
  BY <1>1 DEF Send, W
<1>2. CASE Write
  <2>1. pushed' \in [Streams -> Nat]
    <3>1. pushed' = [pushed EXCEPT ![W] = @ + 1] \/ pushed' = pushed
      BY <1>2 DEF Write
    <3>2. [pushed EXCEPT ![W] = @ + 1] \in [Streams -> Nat]
      BY Increment
    <3> QED
      BY <3>1, <3>2
  <2>2. ended' \in [Streams -> BOOLEAN]
    BY <1>2 DEF Write, W
  <2>3. pc' \in [Callers -> {"out", "entered", "matched", "leave"} \cup InBody]
    BY <1>2 DEF Write
  <2> QED
    BY <1>2, <2>1, <2>2, <2>3 DEF Write
<1>3. CASE WriteTimeout
  BY <1>3 DEF WriteTimeout, W
<1>4. CASE SendAccepted
  BY <1>4 DEF SendAccepted, W
<1>5. CASE SendEndBurst
  BY <1>5 DEF SendEndBurst, W
<1>6. CASE Play
  <2>1. gone' \in [Streams -> Nat]
    <3>1. PICK g \in alive : gone' = [gone EXCEPT ![g] = @ + 1]
      BY <1>6 DEF Play
    <3> QED
      BY <3>1, Increment
  <2> QED
    BY <1>6, <2>1 DEF Play
<1> QED
  BY <1>1, <1>2, <1>3, <1>4, <1>5, <1>6

LEMMA ReadTypes ==
  ASSUME SInv, NEW r \in Readers, ReadClosing(r) \/ ReadReturns(r)
  PROVE  TypeOK'
<1> USE DEF deviceV, fifoV, callV, boundV, drainV, SInv, TypeOK, DeviceInv, Callers
<1>1. CASE ReadClosing(r)
  BY <1>1 DEF ReadClosing
<1>2. CASE ReadReturns(r)
  BY <1>2 DEF ReadReturns
<1> QED
  BY <1>1, <1>2

LEMMA ControlDevice ==
  ASSUME SInv, SetupCreate \/ SetupPointer \/ SetupHandle \/ ActivateBegin \/ ActivateStart \/ CloseBegin \/ CloseInterrupt \/ CloseReset \/ CloseEnd
  PROVE  DeviceInv'
<1> USE DEF deviceV, fifoV, callV, boundV, drainV, SInv, TypeOK, DeviceInv
<1>1. CASE SetupCreate
  BY <1>1 DEF SetupCreate
<1>2. CASE SetupPointer
  BY <1>2 DEF SetupPointer
<1>3. CASE SetupHandle
  BY <1>3 DEF SetupHandle
<1>4. CASE ActivateBegin
  BY <1>4 DEF ActivateBegin
<1>5. CASE ActivateStart
  BY <1>5 DEF ActivateStart
<1>6. CASE CloseBegin
  BY <1>6 DEF CloseBegin
<1>7. CASE CloseInterrupt
  BY <1>7 DEF CloseInterrupt, Stop
<1>8. CASE CloseReset
  BY <1>8 DEF CloseReset
<1>9. CASE CloseEnd
  BY <1>9 DEF CloseEnd
<1> QED
  BY <1>1, <1>2, <1>3, <1>4, <1>5, <1>6, <1>7, <1>8, <1>9

LEMMA DrainDevice ==
  ASSUME SInv, NEW d \in Drainers, DeactivateBegin(d) \/ Drained(d) \/ DrainTimeout(d) \/ DeactivateStop(d) \/ DeactivateEnd(d)
  PROVE  DeviceInv'
<1> USE DEF deviceV, fifoV, callV, boundV, drainV, SInv, TypeOK, DeviceInv
<1>1. CASE DeactivateBegin(d)
  BY <1>1 DEF DeactivateBegin
<1>2. CASE Drained(d)
  BY <1>2 DEF Drained
<1>3. CASE DrainTimeout(d)
  BY <1>3 DEF DrainTimeout
<1>4. CASE DeactivateStop(d)
  BY <1>4 DEF DeactivateStop, Stop
<1>5. CASE DeactivateEnd(d)
  BY <1>5 DEF DeactivateEnd, Unreferenced
<1> QED
  BY <1>1, <1>2, <1>3, <1>4, <1>5

LEMMA CallDevice ==
  ASSUME SInv, NEW c \in Callers, EnterStreamCall(c) \/ Validate(c) \/ LoadPointer(c) \/ LeaveStreamCall(c)
  PROVE  DeviceInv'
<1> USE DEF deviceV, fifoV, callV, boundV, drainV, SInv, TypeOK, DeviceInv
<1>1. CASE EnterStreamCall(c)
  BY <1>1 DEF EnterStreamCall, Issued
<1>2. CASE Validate(c)
  BY <1>2 DEF Validate, Matches
<1>3. CASE LoadPointer(c)
  BY <1>3 DEF LoadPointer
<1>4. CASE LeaveStreamCall(c)
  BY <1>4 DEF LeaveStreamCall
<1> QED
  BY <1>1, <1>2, <1>3, <1>4

LEMMA SendDevice ==
  ASSUME SInv, Send \/ Write \/ WriteTimeout \/ SendAccepted \/ SendEndBurst \/ Play
  PROVE  DeviceInv'
<1> USE DEF deviceV, fifoV, callV, boundV, drainV, SInv, TypeOK, DeviceInv
<1>1. CASE Send
  BY <1>1 DEF Send, W
<1>2. CASE Write
  BY <1>2 DEF Write, W
<1>3. CASE WriteTimeout
  BY <1>3 DEF WriteTimeout, W
<1>4. CASE SendAccepted
  BY <1>4 DEF SendAccepted, W
<1>5. CASE SendEndBurst
  BY <1>5 DEF SendEndBurst, W
<1>6. CASE Play
  BY <1>6 DEF Play
<1> QED
  BY <1>1, <1>2, <1>3, <1>4, <1>5, <1>6

LEMMA ReadDevice ==
  ASSUME SInv, NEW r \in Readers, ReadClosing(r) \/ ReadReturns(r)
  PROVE  DeviceInv'
<1> USE DEF deviceV, fifoV, callV, boundV, drainV, SInv, TypeOK, DeviceInv
<1>1. CASE ReadClosing(r)
  BY <1>1 DEF ReadClosing
<1>2. CASE ReadReturns(r)
  BY <1>2 DEF ReadReturns
<1> QED
  BY <1>1, <1>2

LEMMA ControlCalls ==
  ASSUME SInv, SetupCreate \/ SetupPointer \/ SetupHandle \/ ActivateBegin \/ ActivateStart \/ CloseBegin \/ CloseInterrupt \/ CloseReset \/ CloseEnd
  PROVE  CallInv'
<1> USE DEF deviceV, fifoV, callV, boundV, drainV, SInv, TypeOK, DeviceInv, CallInv, Callers
<1>1. CASE SetupCreate
  BY <1>1 DEF SetupCreate
<1>2. CASE SetupPointer
  BY <1>2 DEF SetupPointer
<1>3. CASE SetupHandle
  BY <1>3 DEF SetupHandle
<1>4. CASE ActivateBegin
  BY <1>4 DEF ActivateBegin
<1>5. CASE ActivateStart
  BY <1>5 DEF ActivateStart
<1>6. CASE CloseBegin
  BY <1>6 DEF CloseBegin
<1>7. CASE CloseInterrupt
  BY <1>7 DEF CloseInterrupt, Stop
<1>8. CASE CloseReset
  <2>1. \A c \in Callers : pc[c] = "out"
    BY <1>8, NoneRegistered DEF CloseReset
  <2> QED
    BY <1>8, <2>1 DEF CloseReset
<1>9. CASE CloseEnd
  BY <1>9 DEF CloseEnd
<1> QED
  BY <1>1, <1>2, <1>3, <1>4, <1>5, <1>6, <1>7, <1>8, <1>9

LEMMA DrainCalls ==
  ASSUME SInv, NEW d \in Drainers, DeactivateBegin(d) \/ Drained(d) \/ DrainTimeout(d) \/ DeactivateStop(d) \/ DeactivateEnd(d)
  PROVE  CallInv'
<1> USE DEF deviceV, fifoV, callV, boundV, drainV, SInv, TypeOK, DeviceInv, CallInv, Callers
<1>1. CASE DeactivateBegin(d)
  BY <1>1 DEF DeactivateBegin
<1>2. CASE Drained(d)
  BY <1>2 DEF Drained
<1>3. CASE DrainTimeout(d)
  BY <1>3 DEF DrainTimeout
<1>4. CASE DeactivateStop(d)
  BY <1>4 DEF DeactivateStop, Stop
<1>5. CASE DeactivateEnd(d)
  BY <1>5 DEF DeactivateEnd, Unreferenced
<1> QED
  BY <1>1, <1>2, <1>3, <1>4, <1>5

LEMMA CallCalls ==
  ASSUME SInv, NEW c \in Callers, EnterStreamCall(c) \/ Validate(c) \/ LoadPointer(c) \/ LeaveStreamCall(c)
  PROVE  CallInv'
<1> USE DEF deviceV, fifoV, callV, boundV, drainV, SInv, TypeOK, DeviceInv, CallInv, Callers
<1>1. CASE EnterStreamCall(c)
  BY <1>1 DEF EnterStreamCall, Issued
<1>2. CASE Validate(c)
  BY <1>2 DEF Validate, Matches
<1>3. CASE LoadPointer(c)
  BY <1>3 DEF LoadPointer
<1>4. CASE LeaveStreamCall(c)
  BY <1>4 DEF LeaveStreamCall
<1> QED
  BY <1>1, <1>2, <1>3, <1>4

LEMMA SendCalls ==
  ASSUME SInv, Send \/ Write \/ WriteTimeout \/ SendAccepted \/ SendEndBurst \/ Play
  PROVE  CallInv'
<1> USE DEF deviceV, fifoV, callV, boundV, drainV, SInv, TypeOK, DeviceInv, CallInv, Callers
<1>1. CASE Send
  BY <1>1 DEF Send, W
<1>2. CASE Write
  BY <1>2 DEF Write, W
<1>3. CASE WriteTimeout
  BY <1>3 DEF WriteTimeout, W
<1>4. CASE SendAccepted
  BY <1>4 DEF SendAccepted, W
<1>5. CASE SendEndBurst
  BY <1>5 DEF SendEndBurst, W
<1>6. CASE Play
  BY <1>6 DEF Play
<1> QED
  BY <1>1, <1>2, <1>3, <1>4, <1>5, <1>6

LEMMA ReadCalls ==
  ASSUME SInv, NEW r \in Readers, ReadClosing(r) \/ ReadReturns(r)
  PROVE  CallInv'
<1> USE DEF deviceV, fifoV, callV, boundV, drainV, SInv, TypeOK, DeviceInv, CallInv, Callers
<1>1. CASE ReadClosing(r)
  BY <1>1 DEF ReadClosing
<1>2. CASE ReadReturns(r)
  BY <1>2 DEF ReadReturns
<1> QED
  BY <1>1, <1>2

LEMMA ControlActive ==
  ASSUME SInv, SetupCreate \/ SetupPointer \/ SetupHandle \/ ActivateBegin \/ ActivateStart \/ CloseBegin \/ CloseInterrupt \/ CloseReset \/ CloseEnd
  PROVE  ActiveInv'
<1> USE DEF deviceV, fifoV, callV, boundV, drainV, SInv, TypeOK, DeviceInv, CallInv, ActiveInv, Callers
<1>1. CASE SetupCreate
  BY <1>1 DEF SetupCreate
<1>2. CASE SetupPointer
  BY <1>2 DEF SetupPointer
<1>3. CASE SetupHandle
  BY <1>3 DEF SetupHandle
<1>4. CASE ActivateBegin
  BY <1>4 DEF ActivateBegin
<1>5. CASE ActivateStart
  BY <1>5 DEF ActivateStart
<1>6. CASE CloseBegin
  BY <1>6 DEF CloseBegin
<1>7. CASE CloseInterrupt
  BY <1>7 DEF CloseInterrupt, Stop
<1>8. CASE CloseReset
  BY <1>8 DEF CloseReset
<1>9. CASE CloseEnd
  BY <1>9 DEF CloseEnd
<1> QED
  BY <1>1, <1>2, <1>3, <1>4, <1>5, <1>6, <1>7, <1>8, <1>9

LEMMA DrainActive ==
  ASSUME SInv, NEW d \in Drainers, DeactivateBegin(d) \/ Drained(d) \/ DrainTimeout(d) \/ DeactivateStop(d) \/ DeactivateEnd(d)
  PROVE  ActiveInv'
<1> USE DEF deviceV, fifoV, callV, boundV, drainV, SInv, TypeOK, DeviceInv, CallInv, ActiveInv, Callers
<1>1. CASE DeactivateBegin(d)
  BY <1>1 DEF DeactivateBegin
<1>2. CASE Drained(d)
  BY <1>2 DEF Drained
<1>3. CASE DrainTimeout(d)
  BY <1>3 DEF DrainTimeout
<1>4. CASE DeactivateStop(d)
  BY <1>4 DEF DeactivateStop, Stop
<1>5. CASE DeactivateEnd(d)
  BY <1>5 DEF DeactivateEnd, Unreferenced
<1> QED
  BY <1>1, <1>2, <1>3, <1>4, <1>5

LEMMA CallActive ==
  ASSUME SInv, NEW c \in Callers, EnterStreamCall(c) \/ Validate(c) \/ LoadPointer(c) \/ LeaveStreamCall(c)
  PROVE  ActiveInv'
<1> USE DEF deviceV, fifoV, callV, boundV, drainV, SInv, TypeOK, DeviceInv, CallInv, ActiveInv, Callers
<1>1. CASE EnterStreamCall(c)
  BY <1>1 DEF EnterStreamCall, Issued
<1>2. CASE Validate(c)
  BY <1>2 DEF Validate, Matches
<1>3. CASE LoadPointer(c)
  BY <1>3 DEF LoadPointer
<1>4. CASE LeaveStreamCall(c)
  BY <1>4 DEF LeaveStreamCall
<1> QED
  BY <1>1, <1>2, <1>3, <1>4

LEMMA SendActive ==
  ASSUME SInv, Send \/ Write \/ WriteTimeout \/ SendAccepted \/ SendEndBurst \/ Play
  PROVE  ActiveInv'
<1> USE DEF deviceV, fifoV, callV, boundV, drainV, SInv, TypeOK, DeviceInv, CallInv, ActiveInv, Callers
<1>1. CASE Send
  BY <1>1 DEF Send, W
<1>2. CASE Write
  BY <1>2 DEF Write, W
<1>3. CASE WriteTimeout
  BY <1>3 DEF WriteTimeout, W
<1>4. CASE SendAccepted
  BY <1>4 DEF SendAccepted, W
<1>5. CASE SendEndBurst
  BY <1>5 DEF SendEndBurst, W
<1>6. CASE Play
  BY <1>6 DEF Play
<1> QED
  BY <1>1, <1>2, <1>3, <1>4, <1>5, <1>6

LEMMA ReadActive ==
  ASSUME SInv, NEW r \in Readers, ReadClosing(r) \/ ReadReturns(r)
  PROVE  ActiveInv'
<1> USE DEF deviceV, fifoV, callV, boundV, drainV, SInv, TypeOK, DeviceInv, CallInv, ActiveInv, Callers
<1>1. CASE ReadClosing(r)
  BY <1>1 DEF ReadClosing
<1>2. CASE ReadReturns(r)
  BY <1>2 DEF ReadReturns
<1> QED
  BY <1>1, <1>2

-----------------------------------------------------------------------------
(* A step inside a call leaves the set of calls under way as it is.         *)
LEMMA SameCalls ==
  ASSUME TypeOK, CountInv, streamCalls' = streamCalls, NEW c \in Callers, pc[c] # "out",
         NEW l, l # "out", pc' = [pc EXCEPT ![c] = l]
  PROVE  CountInv'
<1>1. pc \in [Callers -> {"out", "entered", "matched", "leave"} \cup InBody]
  BY DEF TypeOK
<1>2. \A x \in Callers : pc'[x] # "out" <=> pc[x] # "out"
  BY <1>1
<1>3. Registered' = Registered
  BY <1>2 DEF Registered
<1> QED
  BY <1>3 DEF CountInv

(* The count follows the calls as they are entered and left.               *)
LEMMA CallCount ==
  ASSUME SInv, NEW c \in Callers, EnterStreamCall(c) \/ Call(c)
  PROVE  CountInv'
<1>1. TypeOK /\ CountInv
  BY DEF SInv
<1>2. pc \in [Callers -> {"out", "entered", "matched", "leave"} \cup InBody]
  BY <1>1 DEF TypeOK
<1>3. Cardinality(Registered) \in Nat
  BY CallersFinite, FS_CardinalityType
<1>4. CASE EnterStreamCall(c)
  <2>1. streamCalls' = streamCalls + 1 /\ pc[c] = "out" /\ pc' = [pc EXCEPT ![c] = "entered"]
    BY <1>4 DEF EnterStreamCall
  <2>2. Registered' = Registered \cup {c} /\ c \notin Registered
    BY <1>2, <2>1 DEF Registered
  <2>3. Cardinality(Registered') = Cardinality(Registered) + 1
    BY <2>2, CallersFinite, FS_AddElement
  <2> QED
    BY <1>1, <2>1, <2>3 DEF CountInv
<1>5. CASE Validate(c)
  <2>1. pc[c] # "out" /\ streamCalls' = streamCalls
    BY <1>5 DEF Validate
  <2>2. PICK l \in {"matched", "leave"} : pc' = [pc EXCEPT ![c] = l]
    BY <1>5 DEF Validate
  <2> QED
    BY <1>1, <2>1, <2>2, SameCalls
<1>6. CASE LoadPointer(c)
  <2>1. pc[c] # "out" /\ streamCalls' = streamCalls /\ pc' = [pc EXCEPT ![c] = "in"]
    BY <1>6 DEF LoadPointer
  <2> QED
    BY <1>1, <2>1, SameCalls
<1>7. CASE LeaveStreamCall(c)
  <2>1. streamCalls' = streamCalls - 1 /\ pc[c] = "leave" /\ pc' = [pc EXCEPT ![c] = "out"]
    BY <1>7 DEF LeaveStreamCall
  <2>2. Registered' = Registered \ {c} /\ c \in Registered
    BY <1>2, <2>1 DEF Registered
  <2>3. Cardinality(Registered') = Cardinality(Registered) - 1
    BY <2>2, CallersFinite, FS_RemoveElement
  <2> QED
    BY <1>1, <2>1, <2>3 DEF CountInv
<1> QED
  BY <1>4, <1>5, <1>6, <1>7 DEF Call

(* So it does while a write or a status call is in its body ...             *)
LEMMA SendCount ==
  ASSUME SInv, Send \/ Write \/ WriteTimeout \/ SendAccepted \/ SendEndBurst
  PROVE  CountInv'
<1>1. Writer \in Callers /\ TypeOK /\ CountInv
  BY DEF Callers, SInv
<1>2. pc[Writer] # "out" /\ streamCalls' = streamCalls
  BY DEF Send, Write, WriteTimeout, SendAccepted, SendEndBurst
<1>3. PICK l \in {"leave", "write", "mark", "clear"} : pc' = [pc EXCEPT ![Writer] = l]
  BY DEF Send, Write, WriteTimeout, SendAccepted, SendEndBurst
<1> QED
  BY <1>1, <1>2, <1>3, SameCalls

LEMMA ReadCount ==
  ASSUME SInv, NEW r \in Readers, ReadClosing(r) \/ ReadReturns(r)
  PROVE  CountInv'
<1>1. r \in Callers /\ TypeOK /\ CountInv
  BY DEF Callers, SInv
<1>2. pc[r] # "out" /\ streamCalls' = streamCalls /\ pc' = [pc EXCEPT ![r] = "leave"]
  BY DEF ReadClosing, ReadReturns
<1> QED
  BY <1>1, <1>2, SameCalls

(* ... and while the other threads run.                                    *)
LEMMA OtherCount ==
  ASSUME SInv, pc' = pc, streamCalls' = streamCalls
  PROVE  CountInv'
<1>1. Registered' = Registered
  BY DEF Registered
<1> QED
  BY <1>1 DEF SInv, CountInv
-----------------------------------------------------------------------------
LEMMA SInit == ASSUME Init PROVE SInv
<1> USE DEF Init
<1>1. TypeOK
  <2>1. 0 \in 0..MaxStreams
    OBVIOUS
  <2>2. /\ closing \in [Streams -> BOOLEAN] /\ active \in [Streams -> BOOLEAN]
        /\ endBurstPending \in [Streams -> BOOLEAN] /\ ended \in [Streams -> BOOLEAN]
        /\ pushed \in [Streams -> Nat] /\ gone \in [Streams -> Nat]
    OBVIOUS
  <2>3. /\ pc \in [Callers -> {"out", "entered", "matched", "leave"} \cup InBody]
        /\ handle \in [Callers -> 0..MaxStreams] /\ obj \in [Callers -> 0..MaxStreams]
    BY <2>1
  <2>4. /\ dpc \in [Drainers -> {"out", "drain", "stop", "release"}]
        /\ held \in [Drainers -> 0..MaxStreams]
        /\ mark \in [Drainers -> Nat] /\ gaveUp \in [Drainers -> BOOLEAN]
    BY <2>1
  <2> QED
    BY <2>1, <2>2, <2>3, <2>4 DEF TypeOK
<1>2. CountInv
  <2>1. Registered = {}
    BY DEF Registered
  <2> QED
    BY <2>1, FS_EmptySet DEF CountInv
<1>3. DeviceInv
  BY DEF DeviceInv
<1>4. CallInv
  BY DEF CallInv
<1>5. ActiveInv
  BY DEF ActiveInv
<1> QED
  BY <1>1, <1>2, <1>3, <1>4, <1>5 DEF SInv

LEMMA SStep == ASSUME SInv, [Next]_vars PROVE SInv'
<1>1. CASE \/ SetupCreate \/ ActivateBegin \/ CloseBegin \/ Control
  <2>1. \/ SetupCreate \/ SetupPointer \/ SetupHandle \/ ActivateBegin \/ ActivateStart
        \/ CloseBegin \/ CloseInterrupt \/ CloseReset \/ CloseEnd
    BY <1>1 DEF Control
  <2>2. pc' = pc /\ streamCalls' = streamCalls
    BY <2>1 DEF SetupCreate, SetupPointer, SetupHandle, ActivateBegin, ActivateStart, CloseBegin,
                CloseInterrupt, CloseReset, CloseEnd, callV
  <2>3. CountInv'
    BY <2>2, OtherCount
  <2> QED
    BY <2>1, <2>3, ControlTypes, ControlDevice, ControlCalls, ControlActive DEF SInv
<1>2. ASSUME NEW d \in Drainers,
             \/ DeactivateBegin(d) \/ Drained(d) \/ DrainTimeout(d)
             \/ DeactivateStop(d) \/ DeactivateEnd(d)
      PROVE  SInv'
  <2>1. pc' = pc /\ streamCalls' = streamCalls
    BY <1>2 DEF DeactivateBegin, Drained, DrainTimeout, DeactivateStop, DeactivateEnd, callV
  <2>2. CountInv'
    BY <2>1, OtherCount
  <2> QED
    BY <1>2, <2>2, DrainTypes, DrainDevice, DrainCalls, DrainActive DEF SInv
<1>3. ASSUME NEW c \in Callers, EnterStreamCall(c) \/ Call(c)
      PROVE  SInv'
  <2>1. EnterStreamCall(c) \/ Validate(c) \/ LoadPointer(c) \/ LeaveStreamCall(c)
    BY <1>3 DEF Call
  <2>2. CountInv'
    BY <1>3, CallCount
  <2> QED
    BY <2>1, <2>2, CallTypes, CallDevice, CallCalls, CallActive DEF SInv
<1>4. CASE Sending \/ WriteTimeout
  <2>1. Send \/ Write \/ WriteTimeout \/ SendAccepted \/ SendEndBurst
    BY <1>4 DEF Sending
  <2>2. CountInv'
    BY <2>1, SendCount
  <2> QED
    BY <2>1, <2>2, SendTypes, SendDevice, SendCalls, SendActive DEF SInv
<1>5. CASE Play
  <2>1. pc' = pc /\ streamCalls' = streamCalls
    BY <1>5 DEF Play, callV
  <2>2. CountInv'
    BY <2>1, OtherCount
  <2> QED
    BY <1>5, <2>2, SendTypes, SendDevice, SendCalls, SendActive DEF SInv
<1>6. ASSUME NEW r \in Readers, ReadClosing(r) \/ ReadReturns(r)
      PROVE  SInv'
  <2>1. CountInv'
    BY <1>6, ReadCount
  <2> QED
    BY <1>6, <2>1, ReadTypes, ReadDevice, ReadCalls, ReadActive DEF SInv
<1>7. CASE UNCHANGED vars
  BY <1>7 DEF SInv, TypeOK, CountInv, Registered, DeviceInv, CallInv, ActiveInv, vars, deviceV,
              fifoV, callV, drainV, boundV
<1> QED
  BY <1>1, <1>2, <1>3, <1>4, <1>5, <1>6, <1>7 DEF Next

LEMMA SAlways == Spec => []SInv
<1>1. Init => SInv
  BY SInit
<1>2. SInv /\ [Next]_vars => SInv'
  BY SStep
<1> QED
  BY <1>1, <1>2, PTL DEF Spec

(* Every variable of the stream calls keeps its type; streamCalls never      *)
(* goes below zero.                                                        *)
THEOREM StreamTypes == Spec => []TypeOK
<1>1. SInv => TypeOK
  BY DEF SInv
<1> QED
  BY <1>1, SAlways, PTL

(* writeStream() and readStreamStatus() take no lock, and in them a stream   *)
(* object is used only while the device keeps it, and only by a call with    *)
(* the handle it was returned for, whatever is closed and set up meanwhile. *)
THEOREM CallsUseLiveStream == Spec => []NoUseAfterClose
<1>1. SInv => NoUseAfterClose
  BY DEF SInv, DeviceInv, CallInv, NoUseAfterClose
<1> QED
  BY <1>1, SAlways, PTL

(* No transmitter but that of the open stream runs, with any number of       *)
(* threads still in deactivateStream() for streams closed before.           *)
THEOREM OnlyOpenStreamTransmits == Spec => []OnlyOpenTransmits
<1>1. SInv => OnlyOpenTransmits
  BY DEF SInv, TypeOK, DeviceInv, ActiveInv, OnlyOpenTransmits
<1> QED
  BY <1>1, SAlways, PTL
-----------------------------------------------------------------------------
(* What is behind BurstPlayed.  No more is played or discarded than was     *)
(* queued; ...                                                             *)
QueueInv == \A g \in Streams : gone[g] <= pushed[g]

(* ... deactivateStream() finds endBurstPending set whenever the last write  *)
(* to a running transmitter carried END_BURST; ...                         *)
EndInv ==
  /\ \A g \in Streams : active[g] /\ ended[g] => endBurstPending[g]
  /\ pc[Writer] = "clear" => ~ended[W]

(* ... and while it waits, the samples it waits for are in the queue of a   *)
(* running transmitter, until they are played or discarded by a close.      *)
MarkInv ==
  \A d \in Drainers :
    /\ dpc[d] \in {"drain", "stop"} => held[d] \in Streams /\ mark[d] <= pushed[held[d]]
    /\ dpc[d] = "drain" => active[held[d]] \/ gone[held[d]] >= mark[d]
    /\ dpc[d] = "stop" => gaveUp[d] \/ gone[held[d]] >= mark[d]

BInv == QueueInv /\ EndInv /\ MarkInv

(* A step that leaves the queue, the transmitter and the deactivations as    *)
(* they are, and does not bring the writer to its next step after a write.  *)
LEMMA BFrame ==
  ASSUME BInv, UNCHANGED <<fifoV, active, endBurstPending, ended, drainV>>,
         pc'[Writer] = "clear" => pc[Writer] = "clear" /\ obj'[Writer] = obj[Writer]
  PROVE  BInv'
<1>1. QueueInv'
  BY DEF BInv, QueueInv, fifoV
<1>2. EndInv'
  BY DEF BInv, EndInv, W
<1>3. MarkInv'
  BY DEF BInv, MarkInv, fifoV, drainV
<1> QED
  BY <1>1, <1>2, <1>3 DEF BInv

(* What Stop() discards and what Start() discards: all that was queued.     *)
LEMMA BDiscard ==
  ASSUME SInv, BInv, NEW g \in Streams, gone' = [gone EXCEPT ![g] = pushed[g]],
         UNCHANGED <<pushed, dpc, held, mark, gaveUp>>,
         \A h \in Streams \ {g} : active'[h] = active[h]
  PROVE  QueueInv' /\ MarkInv'
<1>1. \A h \in Streams : pushed[h] \in Nat /\ gone[h] \in Nat /\ gone[h] <= pushed[h]
  BY DEF SInv, TypeOK, BInv, QueueInv
<1>2. \A h \in Streams : gone'[h] = IF h = g THEN pushed[g] ELSE gone[h]
  BY DEF SInv, TypeOK
<1>3. QueueInv'
  BY <1>1, <1>2 DEF QueueInv
<1>4. \A h \in Streams : gone'[h] >= gone[h] /\ gone'[h] \in Nat
  BY <1>1, <1>2
<1>5. \A d \in Drainers : mark[d] \in Nat
  BY DEF SInv, TypeOK
<1>6. ASSUME NEW d \in Drainers
      PROVE  /\ dpc[d] \in {"drain", "stop"} => held[d] \in Streams /\ mark[d] <= pushed[held[d]]
             /\ dpc[d] = "drain" => active'[held[d]] \/ gone'[held[d]] >= mark[d]
             /\ dpc[d] = "stop" => gaveUp[d] \/ gone'[held[d]] >= mark[d]
  <2>1. CASE held[d] = g
    BY <1>1, <1>2, <1>5, <2>1 DEF BInv, MarkInv
  <2>2. CASE held[d] # g
    BY <1>1, <1>2, <1>5, <2>2 DEF BInv, MarkInv
  <2> QED
    BY <2>1, <2>2
<1>7. MarkInv'
  BY <1>6 DEF MarkInv
<1> QED
  BY <1>3, <1>7

LEMMA BControl ==
  ASSUME SInv, BInv, SetupCreate \/ ActivateBegin \/ CloseBegin \/ Control
  PROVE  BInv'
<1>1. CASE \/ SetupCreate \/ SetupPointer \/ SetupHandle \/ CloseBegin \/ CloseReset \/ CloseEnd
  <2>1. UNCHANGED <<fifoV, active, endBurstPending, ended, drainV, callV>>
    BY <1>1 DEF SetupCreate, SetupPointer, SetupHandle, CloseBegin, CloseReset, CloseEnd
  <2> QED
    BY <2>1, BFrame DEF callV
<1>2. CASE ActivateBegin
  <2>1. txStream \in Streams /\ ~active[txStream]
    BY <1>2 DEF ActivateBegin, SInv, TypeOK
  <2>2. QueueInv' /\ MarkInv'
    BY <1>2 DEF ActivateBegin, BInv, QueueInv, MarkInv, fifoV, drainV
  <2>3. \A g \in Streams \ {txStream} : endBurstPending'[g] = endBurstPending[g]
    BY <1>2 DEF ActivateBegin, SInv, TypeOK
  <2>4. UNCHANGED <<active, ended, pc, obj>>
    BY <1>2 DEF ActivateBegin, callV
  <2>5. EndInv'
    BY <2>1, <2>3, <2>4 DEF BInv, EndInv, W
  <2> QED
    BY <2>2, <2>5 DEF BInv
<1>3. CASE ActivateStart
  <2>1. txStream \in Streams
    BY <1>3 DEF ActivateStart, SInv, TypeOK, DeviceInv
  <2>2. /\ gone' = [gone EXCEPT ![txStream] = pushed[txStream]]
        /\ UNCHANGED <<pushed, dpc, held, mark, gaveUp, pc, obj, endBurstPending>>
    BY <1>3 DEF ActivateStart, drainV, callV
  <2>3. \A h \in Streams \ {txStream} : active'[h] = active[h] /\ ended'[h] = ended[h]
    BY <1>3 DEF ActivateStart, SInv, TypeOK
  <2>4. QueueInv' /\ MarkInv'
    BY <2>1, <2>2, <2>3, BDiscard
  <2>5. ended' = [ended EXCEPT ![txStream] = FALSE] /\ ended \in [Streams -> BOOLEAN]
    BY <1>3 DEF ActivateStart, SInv, TypeOK
  <2>6. ~ended'[txStream]
    BY <2>1, <2>5
  <2>7. pc[Writer] = "clear" => W \in Streams
    BY DEF SInv, TypeOK, CallInv, Callers, W
  <2>8. EndInv'
    BY <2>2, <2>3, <2>6, <2>7 DEF BInv, EndInv, W
  <2> QED
    BY <2>4, <2>8 DEF BInv
<1>4. CASE CloseInterrupt
  <2>1. txStream \in Streams
    BY <1>4 DEF CloseInterrupt, SInv, TypeOK, DeviceInv
  <2>2. /\ gone' = [gone EXCEPT ![txStream] = pushed[txStream]]
        /\ UNCHANGED <<pushed, dpc, held, mark, gaveUp, pc, obj, ended, endBurstPending>>
    BY <1>4 DEF CloseInterrupt, Stop, drainV, callV
  <2>3. \A h \in Streams \ {txStream} : active'[h] = active[h]
    BY <1>4 DEF CloseInterrupt, Stop, SInv, TypeOK
  <2>4. QueueInv' /\ MarkInv'
    BY <2>1, <2>2, <2>3, BDiscard
  <2>5. ~active'[txStream]
    BY <1>4, <2>1 DEF CloseInterrupt, Stop, SInv, TypeOK
  <2>6. EndInv'
    BY <2>2, <2>3, <2>5 DEF BInv, EndInv, W
  <2> QED
    BY <2>4, <2>6 DEF BInv
<1> QED
  BY <1>1, <1>2, <1>3, <1>4 DEF Control

(* A deactivation marks what it has to wait for, and waits when there is     *)
(* something to wait for.                                                  *)
LEMMA BBegin ==
  ASSUME SInv, BInv, NEW d \in Drainers, DeactivateBegin(d)
  PROVE  BInv'
<1>1. UNCHANGED <<pushed, gone, active, endBurstPending, ended, pc, obj, gaveUp>>
  BY DEF DeactivateBegin, fifoV, callV
<1>2. QueueInv' /\ EndInv'
  BY <1>1 DEF BInv, QueueInv, EndInv, W
<1>3. txStream \in Streams
  BY DEF DeactivateBegin, SInv, TypeOK
<1>4. pushed[txStream] \in Nat /\ gone[txStream] \in Nat
  BY <1>3 DEF SInv, TypeOK
<1>5. /\ held'[d] = txStream
      /\ dpc'[d] = (IF active[txStream] /\ endBurstPending[txStream] THEN "drain" ELSE "stop")
      /\ mark'[d] = (IF active[txStream] /\ ended[txStream] THEN pushed[txStream] ELSE 0)
  BY DEF DeactivateBegin, SInv, TypeOK
<1>6. active[txStream] /\ ended[txStream] => endBurstPending[txStream]
  BY <1>3 DEF BInv, EndInv
<1>7. /\ held'[d] \in Streams /\ mark'[d] <= pushed[held'[d]]
      /\ dpc'[d] = "drain" => active[held'[d]] \/ gone[held'[d]] >= mark'[d]
      /\ dpc'[d] = "stop" => gaveUp[d] \/ gone[held'[d]] >= mark'[d]
  <2>1. CASE active[txStream] /\ endBurstPending[txStream]
    BY <1>3, <1>4, <1>5, <2>1
  <2>2. CASE ~(active[txStream] /\ endBurstPending[txStream])
    BY <1>3, <1>4, <1>5, <1>6, <2>2
  <2> QED
    BY <2>1, <2>2
<1>8. \A x \in Drainers \ {d} : dpc'[x] = dpc[x] /\ held'[x] = held[x] /\ mark'[x] = mark[x]
  BY DEF DeactivateBegin, SInv, TypeOK
<1>9. ASSUME NEW x \in Drainers
      PROVE  /\ dpc'[x] \in {"drain", "stop"} =>
                  held'[x] \in Streams /\ mark'[x] <= pushed'[held'[x]]
             /\ dpc'[x] = "drain" => active'[held'[x]] \/ gone'[held'[x]] >= mark'[x]
             /\ dpc'[x] = "stop" => gaveUp'[x] \/ gone'[held'[x]] >= mark'[x]
  <2>1. CASE x = d
    BY <1>1, <1>7, <2>1
  <2>2. CASE x # d
    BY <1>1, <1>8, <2>2 DEF BInv, MarkInv
  <2> QED
    BY <2>1, <2>2
<1>10. MarkInv'
  BY <1>9 DEF MarkInv
<1> QED
  BY <1>2, <1>10 DEF BInv

(* It goes on when the transmitter stopped or the queue is empty, or when it *)
(* gives up.                                                               *)
LEMMA BDrain ==
  ASSUME SInv, BInv, NEW d \in Drainers, Drained(d) \/ DrainTimeout(d)
  PROVE  BInv'
<1>1. UNCHANGED <<pushed, gone, active, endBurstPending, ended, pc, obj, held, mark>>
  BY DEF Drained, DrainTimeout, fifoV, callV
<1>2. QueueInv' /\ EndInv'
  BY <1>1 DEF BInv, QueueInv, EndInv, W
<1>3. dpc[d] = "drain" /\ dpc'[d] = "stop"
  BY DEF Drained, DrainTimeout, SInv, TypeOK
<1>4. held[d] \in Streams /\ mark[d] <= pushed[held[d]]
  BY <1>3 DEF BInv, MarkInv
<1>5. gaveUp'[d] \/ gone[held[d]] >= mark[d]
  <2>1. CASE Drained(d)
    <3>1. CASE ~active[held[d]]
      BY <1>3, <3>1 DEF BInv, MarkInv
    <3>2. CASE gone[held[d]] = pushed[held[d]]
      <4>1. pushed[held[d]] \in Nat /\ mark[d] \in Nat
        BY <1>4 DEF SInv, TypeOK
      <4> QED
        BY <1>4, <3>2, <4>1
    <3> QED
      BY <2>1, <3>1, <3>2 DEF Drained
  <2>2. CASE DrainTimeout(d)
    BY <2>2 DEF DrainTimeout, SInv, TypeOK
  <2> QED
    BY <2>1, <2>2
<1>6. \A x \in Drainers \ {d} : dpc'[x] = dpc[x] /\ gaveUp'[x] = gaveUp[x]
  BY DEF Drained, DrainTimeout, SInv, TypeOK
<1>7. ASSUME NEW x \in Drainers
      PROVE  /\ dpc'[x] \in {"drain", "stop"} =>
                  held'[x] \in Streams /\ mark'[x] <= pushed'[held'[x]]
             /\ dpc'[x] = "drain" => active'[held'[x]] \/ gone'[held'[x]] >= mark'[x]
             /\ dpc'[x] = "stop" => gaveUp'[x] \/ gone'[held'[x]] >= mark'[x]
  <2>1. CASE x = d
    BY <1>1, <1>3, <1>4, <1>5, <2>1
  <2>2. CASE x # d
    BY <1>1, <1>6, <2>2 DEF BInv, MarkInv
  <2> QED
    BY <2>1, <2>2
<1>8. MarkInv'
  BY <1>7 DEF MarkInv
<1> QED
  BY <1>2, <1>8 DEF BInv

(* The end of a deactivation discards only what the others need not see.    *)
LEMMA BStop ==
  ASSUME SInv, BInv, NEW d \in Drainers, DeactivateStop(d)
  PROVE  BInv'
<1>1. UNCHANGED <<pushed, ended, pc, obj, held, mark, gaveUp>>
  BY DEF DeactivateStop, callV
<1>2. dpc'[d] = "release" /\ \A x \in Drainers \ {d} : dpc'[x] = dpc[x]
  BY DEF DeactivateStop, SInv, TypeOK
<1>3. CASE txStream = held[d]
  <2>1. dpc[d] = "stop" /\ held[d] \in Streams
    BY DEF DeactivateStop, BInv, MarkInv
  <2>2. gone' = [gone EXCEPT ![txStream] = pushed[txStream]]
    BY <1>3 DEF DeactivateStop, Stop
  <2>3. \A h \in Streams \ {txStream} :
           active'[h] = active[h] /\ endBurstPending'[h] = endBurstPending[h]
    BY <1>3 DEF DeactivateStop, Stop, SInv, TypeOK
  <2>4. ~active'[txStream]
    BY <1>3, <2>1 DEF DeactivateStop, Stop, SInv, TypeOK
  <2>5. EndInv'
    BY <1>1, <2>3, <2>4 DEF BInv, EndInv, W
  <2>6. \A h \in Streams : pushed[h] \in Nat /\ gone[h] \in Nat /\ gone[h] <= pushed[h]
    BY DEF SInv, TypeOK, BInv, QueueInv
  <2>7. \A h \in Streams : gone'[h] = IF h = txStream THEN pushed[h] ELSE gone[h]
    BY <2>2 DEF SInv, TypeOK
  <2>8. QueueInv'
    BY <1>1, <2>6, <2>7 DEF QueueInv
  <2>9. ASSUME NEW x \in Drainers
        PROVE  /\ dpc'[x] \in {"drain", "stop"} =>
                    held[x] \in Streams /\ mark[x] <= pushed[held[x]]
               /\ dpc'[x] = "drain" => active'[held[x]] \/ gone'[held[x]] >= mark[x]
               /\ dpc'[x] = "stop" => gaveUp[x] \/ gone'[held[x]] >= mark[x]
    <3>1. mark[x] \in Nat
      BY DEF SInv, TypeOK
    <3>2. CASE x = d
      BY <1>2, <3>2
    <3>3. CASE x # d /\ held[x] = txStream
      BY <1>2, <2>6, <2>7, <3>1, <3>3 DEF BInv, MarkInv
    <3>4. CASE x # d /\ held[x] # txStream
      BY <1>2, <2>3, <2>7, <3>4 DEF BInv, MarkInv
    <3> QED
      BY <3>2, <3>3, <3>4
  <2>10. MarkInv'
    BY <1>1, <2>9 DEF MarkInv
  <2> QED
    BY <2>5, <2>8, <2>10 DEF BInv
<1>4. CASE txStream # held[d]
  <2>1. UNCHANGED <<active, gone, endBurstPending>>
    BY <1>4 DEF DeactivateStop
  <2>2. QueueInv' /\ EndInv'
    BY <1>1, <2>1 DEF BInv, QueueInv, EndInv, W
  <2>3. MarkInv'
    BY <1>1, <1>2, <2>1 DEF BInv, MarkInv
  <2> QED
    BY <2>2, <2>3 DEF BInv
<1> QED
  BY <1>3, <1>4

LEMMA BEnd ==
  ASSUME SInv, BInv, NEW d \in Drainers, DeactivateEnd(d)
  PROVE  BInv'
<1>1. UNCHANGED <<pushed, gone, active, endBurstPending, ended, pc, obj>>
  BY DEF DeactivateEnd, fifoV, callV
<1>2. QueueInv' /\ EndInv'
  BY <1>1 DEF BInv, QueueInv, EndInv, W
<1>3. dpc'[d] = "out"
  BY DEF DeactivateEnd, SInv, TypeOK
<1>4. \A x \in Drainers \ {d} : /\ dpc'[x] = dpc[x] /\ held'[x] = held[x]
                                /\ mark'[x] = mark[x] /\ gaveUp'[x] = gaveUp[x]
  BY DEF DeactivateEnd, SInv, TypeOK
<1>5. MarkInv'
  BY <1>1, <1>3, <1>4 DEF BInv, MarkInv
<1> QED
  BY <1>2, <1>5 DEF BInv

(* The writer clears endBurstPending only after a write that took the burst  *)
(* on, and sets it with the end of the burst.                              *)
LEMMA BSend ==
  ASSUME SInv, BInv, Sending \/ WriteTimeout
  PROVE  BInv'
<1> USE DEF Callers
<1>1. /\ pc \in [Callers -> {"out", "entered", "matched", "leave"} \cup InBody]
      /\ endBurstPending \in [Streams -> BOOLEAN] /\ ended \in [Streams -> BOOLEAN]
      /\ pushed \in [Streams -> Nat] /\ gone \in [Streams -> Nat] /\ mark \in [Drainers -> Nat]
  BY DEF SInv, TypeOK
<1>2. pc[Writer] \in InBody => W \in Streams
  BY DEF SInv, TypeOK, CallInv, W
<1>3. CASE Send \/ WriteTimeout
  <2>1. UNCHANGED <<fifoV, active, endBurstPending, ended, drainV>>
    BY <1>3 DEF Send, WriteTimeout
  <2>2. pc'[Writer] # "clear"
    BY <1>1, <1>3 DEF Send, WriteTimeout
  <2> QED
    BY <2>1, <2>2, BFrame
<1>4. CASE Write
  <2>1. pc[Writer] = "write" /\ W \in Streams
    BY <1>2, <1>4 DEF Write
  <2>2. UNCHANGED <<gone, active, endBurstPending, drainV, obj>>
    BY <1>4 DEF Write
  <2>3. CASE pushed' = [pushed EXCEPT ![W] = @ + 1] /\ ended' = [ended EXCEPT ![W] = FALSE]
    <3>1. \A g \in Streams : pushed'[g] \in Nat /\ pushed[g] <= pushed'[g]
      BY <1>1, <2>3
    <3>2. \A g \in Streams : gone[g] \in Nat /\ pushed[g] \in Nat
      BY <1>1
    <3>3. QueueInv'
      BY <2>2, <3>1, <3>2 DEF BInv, QueueInv
    <3>4. \A g \in Streams : ended'[g] => ended[g]
      BY <1>1, <2>3
    <3>5. ~ended'[W]
      BY <1>1, <2>1, <2>3
    <3>6. EndInv'
      BY <2>2, <3>4, <3>5 DEF BInv, EndInv, W
    <3>7. \A d \in Drainers : mark[d] \in Nat
      BY <1>1
    <3>8. MarkInv'
      BY <2>2, <3>1, <3>2, <3>7 DEF BInv, MarkInv, drainV
    <3> QED
      BY <3>3, <3>6, <3>8 DEF BInv
  <2>4. CASE Goto(Writer, "leave") /\ UNCHANGED <<pushed, ended>>
    <3>1. pc'[Writer] # "clear"
      BY <1>1, <2>4
    <3> QED
      BY <2>2, <2>4, <3>1, BFrame DEF fifoV
  <2> QED
    BY <1>4, <2>3, <2>4 DEF Write
<1>5. CASE SendAccepted
  <2>1. pc[Writer] = "clear" /\ W \in Streams
    BY <1>2, <1>5 DEF SendAccepted
  <2>2. UNCHANGED <<pushed, gone, active, ended, drainV, obj>>
    BY <1>5 DEF SendAccepted, fifoV
  <2>3. QueueInv' /\ MarkInv'
    BY <2>2 DEF BInv, QueueInv, MarkInv, drainV
  <2>4. pc'[Writer] # "clear"
    BY <1>1, <1>5 DEF SendAccepted
  <2>5. ~ended[W]
    BY <2>1 DEF BInv, EndInv
  <2>6. \A g \in Streams \ {W} : endBurstPending'[g] = endBurstPending[g]
    BY <1>1, <1>5 DEF SendAccepted
  <2>7. EndInv'
    BY <2>2, <2>4, <2>5, <2>6 DEF BInv, EndInv
  <2> QED
    BY <2>3, <2>7 DEF BInv
<1>6. CASE SendEndBurst
  <2>1. pc[Writer] = "mark" /\ W \in Streams
    BY <1>2, <1>6 DEF SendEndBurst
  <2>2. UNCHANGED <<pushed, gone, active, drainV>>
    BY <1>6 DEF SendEndBurst, fifoV
  <2>3. QueueInv' /\ MarkInv'
    BY <2>2 DEF BInv, QueueInv, MarkInv, drainV
  <2>4. pc'[Writer] # "clear"
    BY <1>1, <1>6 DEF SendEndBurst
  <2>5. endBurstPending'[W]
    BY <1>1, <1>6, <2>1 DEF SendEndBurst
  <2>6. \A g \in Streams \ {W} : endBurstPending'[g] = endBurstPending[g] /\ ended'[g] = ended[g]
    BY <1>1, <1>6 DEF SendEndBurst
  <2>7. EndInv'
    BY <2>2, <2>4, <2>5, <2>6 DEF BInv, EndInv
  <2> QED
    BY <2>3, <2>7 DEF BInv
<1> QED
  BY <1>3, <1>4, <1>5, <1>6 DEF Sending

(* The calls before and after their body, and the status calls.             *)
LEMMA BCall ==
  ASSUME SInv, BInv, NEW c \in Callers,
         \/ EnterStreamCall(c) \/ Call(c)
         \/ c \in Readers /\ (ReadClosing(c) \/ ReadReturns(c))
  PROVE  BInv'
<1>1. UNCHANGED <<fifoV, active, endBurstPending, ended, drainV>>
  BY DEF EnterStreamCall, Call, Validate, LoadPointer, LeaveStreamCall, ReadClosing, ReadReturns
<1>2. PICK l \in {"entered", "matched", "in", "leave", "out"} : pc' = [pc EXCEPT ![c] = l]
  BY DEF EnterStreamCall, Call, Validate, LoadPointer, LeaveStreamCall, ReadClosing, ReadReturns
<1>3. \A x \in Callers \ {c} : obj'[x] = obj[x] /\ pc'[x] = pc[x]
  BY <1>2 DEF SInv, TypeOK, EnterStreamCall, Call, Validate, LoadPointer, LeaveStreamCall,
              ReadClosing, ReadReturns
<1>4. pc'[c] # "clear"
  BY <1>2 DEF SInv, TypeOK
<1>5. Writer \in Callers
  BY DEF Callers
<1> QED
  BY <1>1, <1>3, <1>4, <1>5, BFrame

LEMMA BPlay == ASSUME SInv, BInv, Play PROVE BInv'
<1>1. PICK g \in alive : gone[g] < pushed[g] /\ gone' = [gone EXCEPT ![g] = @ + 1]
  BY DEF Play
<1>2. UNCHANGED <<pushed, active, endBurstPending, ended, dpc, held, mark, gaveUp, pc, obj>>
  BY DEF Play, drainV, callV
<1>3. \A h \in Streams : pushed[h] \in Nat /\ gone[h] \in Nat /\ gone[h] <= pushed[h]
  BY DEF SInv, TypeOK, BInv, QueueInv
<1>4. \A h \in Streams : gone'[h] = IF h = g THEN gone[h] + 1 ELSE gone[h]
  BY <1>1 DEF SInv, TypeOK
<1>5. \A h \in Streams : gone'[h] \in Nat /\ gone[h] <= gone'[h] /\ gone'[h] <= pushed[h]
  BY <1>1, <1>3, <1>4
<1>6. QueueInv' /\ EndInv'
  BY <1>2, <1>5 DEF BInv, QueueInv, EndInv, W
<1>7. \A d \in Drainers : mark[d] \in Nat
  BY DEF SInv, TypeOK
<1>8. MarkInv'
  BY <1>2, <1>3, <1>5, <1>7 DEF BInv, MarkInv
<1> QED
  BY <1>6, <1>8 DEF BInv

LEMMA BInit == ASSUME Init PROVE BInv
<1>1. QueueInv
  BY DEF Init, QueueInv
<1>2. EndInv
  BY DEF Init, EndInv, Callers
<1>3. MarkInv
  BY DEF Init, MarkInv
<1> QED
  BY <1>1, <1>2, <1>3 DEF BInv

LEMMA BStep == ASSUME SInv, BInv, [Next]_vars PROVE BInv'
<1>1. CASE SetupCreate \/ ActivateBegin \/ CloseBegin \/ Control
  BY <1>1, BControl
<1>2. ASSUME NEW d \in Drainers,
             \/ DeactivateBegin(d) \/ Drained(d) \/ DrainTimeout(d)
             \/ DeactivateStop(d) \/ DeactivateEnd(d)
      PROVE  BInv'
  BY <1>2, BBegin, BDrain, BStop, BEnd
<1>3. ASSUME NEW c \in Callers, EnterStreamCall(c) \/ Call(c)
      PROVE  BInv'
  BY <1>3, BCall
<1>4. CASE Sending \/ WriteTimeout
  BY <1>4, BSend
<1>5. ASSUME NEW r \in Readers, ReadClosing(r) \/ ReadReturns(r)
      PROVE  BInv'
  <2>1. r \in Callers
    BY DEF Callers
  <2> QED
    BY <1>5, <2>1, BCall
<1>6. CASE Play
  BY <1>6, BPlay
<1>7. CASE UNCHANGED vars
  BY <1>7, BFrame DEF vars, callV
<1> QED
  BY <1>1, <1>2, <1>3, <1>4, <1>5, <1>6, <1>7 DEF Next

(* deactivateStream() stops the transmitter of the open stream only after    *)
(* the samples queued when it was called have gone, when the last write then *)
(* had ended a burst, or after its deadline: whatever is written, activated, *)
(* deactivated by other threads or closed between its two locked parts.     *)
THEOREM BurstsArePlayed == Spec => BurstPlayed
<1>1. Init => SInv /\ BInv
  BY SInit, BInit
<1>2. SInv /\ BInv /\ [Next]_vars => (SInv /\ BInv)'
  BY SStep, BStep
<1>3. ASSUME SInv, BInv, NEW d \in Drainers, DeactivateStop(d)
      PROVE  gone[held[d]] >= mark[d] \/ gaveUp[d]
  BY <1>3 DEF DeactivateStop, BInv, MarkInv
<1>4. SInv /\ BInv /\ [Next]_vars =>
        [\A d \in Drainers :
           DeactivateStop(d) /\ txStream = held[d] => gone[held[d]] >= mark[d] \/ gaveUp[d]]_vars
  BY <1>3
<1> QED
  BY <1>1, <1>2, <1>4, PTL DEF Spec, BurstPlayed
=============================================================================
