----------------------------- MODULE StreamCalls -----------------------------
(***************************************************************************)
(* The stream calls of the SoapyRPITX device (SoapyRPITX_Streaming.cpp):     *)
(* one open TX stream at a time, the control calls serialised by            *)
(* device_mutex, and the two data-path calls that do not take it,           *)
(* writeStream() and readStreamStatus(), which register in streamCalls.     *)
(*                                                                         *)
(* A stream object is named by its generation, which is also its handle.    *)
(* shared_ptr references are held by the device (txStream) and by each      *)
(* deactivateStream() call in progress; the object is destroyed, and with   *)
(* it the hardware claim given back, when the last one goes.                *)
(*                                                                         *)
(* The transmitter is reduced to what Transmitter promises: samples queued  *)
(* are played in order, Stop() discards those left, WaitDrained() sees when *)
(* none is left.  A write offers one sample.  Calls with a handle that is   *)
(* not the open stream's change nothing under the mutex, and are left out   *)
(* there.                                                                  *)
(***************************************************************************)
EXTENDS Naturals, FiniteSets

CONSTANTS
  Writer,       \* the thread that calls writeStream()
  Readers,      \* threads that call readStreamStatus()
  Drainers,     \* threads that call deactivateStream()
  FifoCap,      \* samples the transmitter queues
  MaxStreams, MaxStarts, MaxSamples,  \* bounds
  MaxRefused    \* bound: calls refused before the application stops calling

Callers == Readers \cup {Writer}

ASSUME StreamAssumption ==
  /\ IsFiniteSet(Readers) /\ Writer \notin Readers
  /\ {FifoCap, MaxStreams, MaxStarts, MaxSamples, MaxRefused} \subseteq Nat

VARIABLES
  mutex,        \* device_mutex is held by a call of several steps
  cpc,          \* control thread: where it is in setup, activate or close
  txStream,     \* tx_stream, or 0
  streamPtr, streamHandle, streamGeneration,
  streamCalls,  \* data-path calls registered
  alive,        \* stream objects that exist
  closing,      \* by stream: interrupt() was called
  active,       \* by stream: the transmitter is started
  endBurstPending,
  pushed, gone, \* by stream: samples queued, and played or discarded
  pc,           \* where each data-path call is
  handle, obj,  \* the handle it was given, the pointer it obtained
  dpc, held,    \* deactivateStream(): where it is, the reference it holds
  starts, refused,
  ended,        \* history: the last write accepted carried END_BURST
  mark, gaveUp  \* history: samples a deactivation has to see played; timeout

deviceV == <<txStream, streamPtr, streamHandle, streamGeneration>>
fifoV   == <<pushed, gone>>
callV   == <<pc, handle, obj>>
boundV  == <<starts, refused>>
drainV  == <<dpc, held, mark, gaveUp>>
vars    == <<mutex, cpc, deviceV, streamCalls, alive, closing, active, endBurstPending, fifoV,
             callV, drainV, boundV, ended>>

Streams == 1..MaxStreams

Init ==
  /\ mutex = FALSE /\ cpc = "idle"
  /\ txStream = 0 /\ streamPtr = 0 /\ streamHandle = 0 /\ streamGeneration = 0
  /\ streamCalls = 0 /\ alive = {}
  /\ closing = [g \in Streams |-> FALSE] /\ active = [g \in Streams |-> FALSE]
  /\ endBurstPending = [g \in Streams |-> FALSE]
  /\ pushed = [g \in Streams |-> 0] /\ gone = [g \in Streams |-> 0]
  /\ pc = [c \in Callers |-> "out"]
  /\ handle = [c \in Callers |-> 0] /\ obj = [c \in Callers |-> 0]
  /\ dpc = [d \in Drainers |-> "out"] /\ held = [d \in Drainers |-> 0]
  /\ mark = [d \in Drainers |-> 0] /\ gaveUp = [d \in Drainers |-> FALSE]
  /\ starts = 0 /\ refused = 0 /\ ended = [g \in Streams |-> FALSE]

(* IsActive() and Stop() of the transmitter of stream g. *)
Stop(g) ==
  /\ active' = [active EXCEPT ![g] = FALSE]
  /\ gone' = [gone EXCEPT ![g] = pushed[g]]

(* Neither the device nor a thread in Others holds a reference to g.        *)
Unreferenced(g, Others) == txStream # g /\ \A d \in Others : held[d] # g
-----------------------------------------------------------------------------
(* Control thread: setupStream().  It throws while a stream is open, and     *)
(* while another stream object still claims the hardware.                   *)

SetupCreate ==
  /\ ~mutex /\ cpc = "idle" /\ txStream = 0
  /\ alive = {}
  /\ streamGeneration < MaxStreams
  /\ streamGeneration' = streamGeneration + 1
  /\ txStream' = streamGeneration'
  /\ alive' = {streamGeneration'}
  /\ mutex' = TRUE /\ cpc' = "pointer"
  /\ UNCHANGED <<streamPtr, streamHandle, streamCalls, closing, active, endBurstPending, fifoV,
                 callV, drainV, boundV, ended>>

(* The pointer is stored before the handle that lets callers read it.       *)
SetupPointer ==
  /\ cpc = "pointer"
  /\ streamPtr' = txStream
  /\ cpc' = "handle"
  /\ UNCHANGED <<mutex, txStream, streamHandle, streamGeneration, streamCalls, alive, closing,
                 active, endBurstPending, fifoV, callV, drainV, boundV, ended>>

SetupHandle ==
  /\ cpc = "handle"
  /\ streamHandle' = streamGeneration
  /\ mutex' = FALSE /\ cpc' = "idle"
  /\ UNCHANGED <<txStream, streamPtr, streamGeneration, streamCalls, alive, closing, active,
                 endBurstPending, fifoV, callV, drainV, boundV, ended>>
-----------------------------------------------------------------------------
(* Control thread: activateStream() *)

ActivateBegin ==
  /\ ~mutex /\ cpc = "idle" /\ txStream # 0
  /\ ~active[txStream] /\ starts < MaxStarts
  /\ starts' = starts + 1
  /\ endBurstPending' = [endBurstPending EXCEPT ![txStream] = FALSE]
  /\ mutex' = TRUE /\ cpc' = "start"
  /\ UNCHANGED <<deviceV, streamCalls, alive, closing, active, fifoV, callV, drainV, refused,
                 ended>>

(* Start(): samples left from before are discarded.  (Mutated: the burst end *)
(* is forgotten after the transmitter has started.)                        *)
ActivateStart_LateReset ==
  /\ cpc = "start"
  /\ IF active[txStream]
       THEN /\ endBurstPending' = [endBurstPending EXCEPT ![txStream] = FALSE]
            /\ mutex' = FALSE /\ cpc' = "idle"
            /\ UNCHANGED <<active, gone, ended>>
       ELSE /\ active' = [active EXCEPT ![txStream] = TRUE]
            /\ gone' = [gone EXCEPT ![txStream] = pushed[txStream]]
            /\ ended' = [ended EXCEPT ![txStream] = FALSE]
            /\ UNCHANGED <<mutex, cpc, endBurstPending>>
  /\ UNCHANGED <<deviceV, streamCalls, alive, closing, pushed, callV, drainV, boundV>>
ActivateStart ==
  /\ cpc = "start"
  /\ active' = [active EXCEPT ![txStream] = TRUE]
  /\ gone' = [gone EXCEPT ![txStream] = pushed[txStream]]
  /\ ended' = [ended EXCEPT ![txStream] = FALSE]
  /\ mutex' = FALSE /\ cpc' = "idle"
  /\ UNCHANGED <<deviceV, streamCalls, alive, closing, endBurstPending, pushed, callV, drainV,
                 boundV>>
-----------------------------------------------------------------------------
(* Control thread: closeStream() and ReleaseTxStreamLocked() *)

CloseBegin ==
  /\ ~mutex /\ cpc = "idle" /\ txStream # 0
  /\ streamHandle' = 0
  /\ mutex' = TRUE /\ cpc' = "interrupt"
  /\ UNCHANGED <<txStream, streamPtr, streamGeneration, streamCalls, alive, closing, active,
                 endBurstPending, fifoV, callV, drainV, boundV, ended>>

(* interrupt().  (Mutated: the reader is not told; the transmitter goes on.) *)
CloseInterrupt_Quietly ==
  /\ cpc = "interrupt"
  /\ Stop(txStream)
  /\ cpc' = "wait"
  /\ UNCHANGED <<mutex, deviceV, streamCalls, alive, closing, endBurstPending, pushed, callV,
                 drainV, boundV, ended>>
CloseInterrupt_NoStop ==
  /\ cpc = "interrupt"
  /\ closing' = [closing EXCEPT ![txStream] = TRUE]
  /\ cpc' = "wait"
  /\ UNCHANGED <<mutex, deviceV, streamCalls, alive, active, endBurstPending, fifoV, callV,
                 drainV, boundV, ended>>
CloseInterrupt ==
  /\ cpc = "interrupt"
  /\ closing' = [closing EXCEPT ![txStream] = TRUE]
  /\ Stop(txStream)
  /\ cpc' = "wait"
  /\ UNCHANGED <<mutex, deviceV, streamCalls, alive, endBurstPending, pushed, callV, drainV,
                 boundV, ended>>

(* No call is registered: the device drops its reference.                   *)
CloseReset ==
  /\ cpc = "wait" /\ streamCalls = 0
  /\ txStream' = 0
  /\ alive' = (IF \E d \in Drainers : held[d] = txStream THEN alive ELSE alive \ {txStream})
  /\ cpc' = "forget"
  /\ UNCHANGED <<mutex, streamPtr, streamHandle, streamGeneration, streamCalls, closing, active,
                 endBurstPending, fifoV, callV, drainV, boundV, ended>>

CloseEnd ==
  /\ cpc = "forget"
  /\ streamPtr' = 0
  /\ mutex' = FALSE /\ cpc' = "idle"
  /\ UNCHANGED <<txStream, streamHandle, streamGeneration, streamCalls, alive, closing, active,
                 endBurstPending, fifoV, callV, drainV, boundV, ended>>
-----------------------------------------------------------------------------
(* deactivateStream() in thread d *)

(* Under the mutex: a reference, and whether to wait for the last burst.    *)
DeactivateBegin(d) ==
  /\ dpc[d] = "out" /\ ~mutex /\ txStream # 0
  /\ held' = [held EXCEPT ![d] = txStream]
  /\ dpc' = [dpc EXCEPT ![d] = IF active[txStream] /\ endBurstPending[txStream]
                                 THEN "drain" ELSE "stop"]
  /\ mark' = [mark EXCEPT ![d] = IF active[txStream] /\ ended[txStream]
                                   THEN pushed[txStream] ELSE 0]
  /\ UNCHANGED <<mutex, cpc, deviceV, streamCalls, alive, closing, active, endBurstPending, fifoV,
                 callV, gaveUp, boundV, ended>>

(* WaitDrained(), without the mutex.                                       *)
Drained(d) ==
  /\ dpc[d] = "drain"
  /\ ~active[held[d]] \/ gone[held[d]] = pushed[held[d]]
  /\ dpc' = [dpc EXCEPT ![d] = "stop"]
  /\ UNCHANGED <<mutex, cpc, deviceV, streamCalls, alive, closing, active, endBurstPending, fifoV,
                 callV, held, mark, gaveUp, boundV, ended>>

DrainTimeout(d) ==
  /\ dpc[d] = "drain"
  /\ gaveUp' = [gaveUp EXCEPT ![d] = TRUE]
  /\ dpc' = [dpc EXCEPT ![d] = "stop"]
  /\ UNCHANGED <<mutex, cpc, deviceV, streamCalls, alive, closing, active, endBurstPending, fifoV,
                 callV, held, mark, boundV, ended>>

(* Under the mutex again: a stream that was closed meanwhile is left alone. *)
DeactivateStop(d) ==
  /\ dpc[d] = "stop" /\ ~mutex
  /\ IF txStream = held[d]
       THEN /\ Stop(txStream)
            /\ endBurstPending' = [endBurstPending EXCEPT ![txStream] = FALSE]
       ELSE UNCHANGED <<active, gone, endBurstPending>>
  /\ dpc' = [dpc EXCEPT ![d] = "release"]
  /\ UNCHANGED <<mutex, cpc, deviceV, streamCalls, alive, closing, pushed, callV, held, mark,
                 gaveUp, boundV, ended>>

(* The mutex is released before the reference.                             *)
DeactivateEnd(d) ==
  /\ dpc[d] = "release"
  /\ alive' = (IF Unreferenced(held[d], Drainers \ {d}) THEN alive \ {held[d]} ELSE alive)
  /\ held' = [held EXCEPT ![d] = 0]
  /\ mark' = [mark EXCEPT ![d] = 0]
  /\ gaveUp' = [gaveUp EXCEPT ![d] = FALSE]
  /\ dpc' = [dpc EXCEPT ![d] = "out"]
  /\ UNCHANGED <<mutex, cpc, deviceV, streamCalls, closing, active, endBurstPending, fifoV,
                 callV, boundV, ended>>
-----------------------------------------------------------------------------
(* Data-path calls: EnterStreamCall() and LeaveStreamCall() *)

(* Handles returned so far. *)
Issued == IF cpc \in {"pointer", "handle"} THEN 1..streamGeneration - 1 ELSE 1..streamGeneration

Goto(c, l) == pc' = [pc EXCEPT ![c] = l]

(* Register first, with whatever handle the application has ...             *)
EnterStreamCall(c) ==
  /\ pc[c] = "out" /\ refused < MaxRefused
  /\ \E h \in Issued : handle' = [handle EXCEPT ![c] = h]
  /\ streamCalls' = streamCalls + 1
  /\ Goto(c, "entered")
  /\ UNCHANGED <<mutex, cpc, deviceV, alive, closing, active, endBurstPending, fifoV, obj,
                 drainV, boundV, ended>>

(* ... validate afterwards.  (Mutated: any handle while a stream is set up.) *)
Matches_AnyStream(c) == streamPtr # 0
Matches(c) == streamHandle # 0 /\ handle[c] = streamHandle

Validate(c) ==
  /\ pc[c] = "entered"
  /\ \/ Matches(c) /\ Goto(c, "matched") /\ UNCHANGED refused
     \/ ~Matches(c) /\ Goto(c, "leave") /\ refused' = refused + 1
  /\ UNCHANGED <<mutex, cpc, deviceV, streamCalls, alive, closing, active, endBurstPending, fifoV,
                 handle, obj, drainV, starts, ended>>

LoadPointer(c) ==
  /\ pc[c] = "matched"
  /\ obj' = [obj EXCEPT ![c] = streamPtr]
  /\ Goto(c, "in")
  /\ UNCHANGED <<mutex, cpc, deviceV, streamCalls, alive, closing, active, endBurstPending, fifoV,
                 handle, drainV, boundV, ended>>

(* (Mutated: a refused call is counted out twice.)                         *)
LeaveStreamCall_Twice(c) ==
  /\ pc[c] = "leave"
  /\ streamCalls' = streamCalls - (IF obj[c] = 0 THEN 2 ELSE 1)
  /\ handle' = [handle EXCEPT ![c] = 0]
  /\ obj' = [obj EXCEPT ![c] = 0]
  /\ Goto(c, "out")
  /\ UNCHANGED <<mutex, cpc, deviceV, alive, closing, active, endBurstPending, fifoV,
                 drainV, boundV, ended>>
LeaveStreamCall(c) ==
  /\ pc[c] = "leave"
  /\ streamCalls' = streamCalls - 1
  /\ handle' = [handle EXCEPT ![c] = 0]
  /\ obj' = [obj EXCEPT ![c] = 0]
  /\ Goto(c, "out")
  /\ UNCHANGED <<mutex, cpc, deviceV, alive, closing, active, endBurstPending, fifoV,
                 drainV, boundV, ended>>
-----------------------------------------------------------------------------
(* writeStream(): tx_streamer::send() *)

W == obj[Writer]

Send ==
  /\ pc[Writer] = "in"
  /\ \/ ~active[W] /\ Goto(Writer, "leave")
     \/ active[W] /\ Goto(Writer, "write")
     \/ active[W] /\ Goto(Writer, "mark")   \* no samples, END_BURST
  /\ UNCHANGED <<mutex, cpc, deviceV, streamCalls, alive, closing, active, endBurstPending, fifoV,
                 handle, obj, drainV, boundV, ended>>

(* Write() queues the sample, or gives up on a stopped transmitter ...      *)
Write ==
  /\ pc[Writer] = "write"
  /\ \/ /\ pushed[W] - gone[W] < FifoCap /\ pushed[W] < MaxSamples
        /\ pushed' = [pushed EXCEPT ![W] = @ + 1]
        /\ ended' = [ended EXCEPT ![W] = FALSE]
        /\ Goto(Writer, "clear")
     \/ /\ ~active[W]
        /\ Goto(Writer, "leave")
        /\ UNCHANGED <<pushed, ended>>
  /\ UNCHANGED <<mutex, cpc, deviceV, streamCalls, alive, closing, active, endBurstPending, gone,
                 handle, obj, drainV, boundV>>

(* ... or, with the FIFO full, at the end of its timeout.                   *)
WriteTimeout ==
  /\ pc[Writer] = "write" /\ active[W]
  /\ pushed[W] - gone[W] >= FifoCap \/ pushed[W] >= MaxSamples
  /\ Goto(Writer, "leave")
  /\ UNCHANGED <<mutex, cpc, deviceV, streamCalls, alive, closing, active, endBurstPending, fifoV,
                 handle, obj, drainV, boundV, ended>>

(* The write may have carried END_BURST.                                   *)
SendAccepted ==
  /\ pc[Writer] = "clear"
  /\ endBurstPending' = [endBurstPending EXCEPT ![W] = FALSE]
  /\ Goto(Writer, "mark") \/ Goto(Writer, "leave")
  /\ UNCHANGED <<mutex, cpc, deviceV, streamCalls, alive, closing, active, fifoV, handle, obj,
                 drainV, boundV, ended>>

SendEndBurst ==
  /\ pc[Writer] = "mark"
  /\ endBurstPending' = [endBurstPending EXCEPT ![W] = TRUE]
  /\ ended' = [ended EXCEPT ![W] = TRUE]
  /\ Goto(Writer, "leave")
  /\ UNCHANGED <<mutex, cpc, deviceV, streamCalls, alive, closing, active, fifoV, handle, obj,
                 drainV, boundV>>
-----------------------------------------------------------------------------
(* readStreamStatus(): tx_streamer::readStatus() polls until the stream is   *)
(* being closed ...                                                        *)
ReadClosing(r) ==
  /\ pc[r] = "in" /\ closing[obj[r]]
  /\ Goto(r, "leave")
  /\ UNCHANGED <<mutex, cpc, deviceV, streamCalls, alive, closing, active, endBurstPending, fifoV,
                 handle, obj, drainV, boundV, ended>>

(* ... or an event or the timeout ends it.                                 *)
ReadReturns(r) ==
  /\ pc[r] = "in" /\ ~closing[obj[r]]
  /\ Goto(r, "leave")
  /\ UNCHANGED <<mutex, cpc, deviceV, streamCalls, alive, closing, active, endBurstPending, fifoV,
                 handle, obj, drainV, boundV, ended>>
-----------------------------------------------------------------------------
(* The transmitter plays the next sample.                                  *)
Play ==
  /\ \E g \in alive :
       /\ active[g] /\ gone[g] < pushed[g]
       /\ gone' = [gone EXCEPT ![g] = @ + 1]
  /\ UNCHANGED <<mutex, cpc, deviceV, streamCalls, alive, closing, active, endBurstPending, pushed,
                 callV, drainV, boundV, ended>>

Control ==
  \/ SetupPointer \/ SetupHandle \/ ActivateStart
  \/ CloseInterrupt \/ CloseReset \/ CloseEnd

Sending == Send \/ Write \/ SendAccepted \/ SendEndBurst

Call(c) == Validate(c) \/ LoadPointer(c) \/ LeaveStreamCall(c)

Next ==
  \/ SetupCreate \/ ActivateBegin \/ CloseBegin \/ Control
  \/ \E d \in Drainers : \/ DeactivateBegin(d) \/ Drained(d) \/ DrainTimeout(d)
                         \/ DeactivateStop(d) \/ DeactivateEnd(d)
  \/ \E c \in Callers : EnterStreamCall(c) \/ Call(c)
  \/ Sending \/ WriteTimeout
  \/ \E r \in Readers : ReadClosing(r) \/ ReadReturns(r)
  \/ Play

Spec == Init /\ [][Next]_vars

(* Every thread inside a call goes on; the drain has a deadline.  A write or *)
(* a status call may be given a timeout of a day, so its expiry is not      *)
(* counted on.  The mutex goes in the end to who waits for it.              *)
Fairness ==
  /\ WF_vars(Control)
  /\ \A d \in Drainers : /\ WF_vars(Drained(d) \/ DrainTimeout(d)) /\ SF_vars(DeactivateStop(d))
                         /\ WF_vars(DeactivateEnd(d))
  /\ \A c \in Callers : WF_vars(Call(c))
  /\ WF_vars(Sending)
  /\ \A r \in Readers : WF_vars(ReadClosing(r))

FairSpec == Spec /\ Fairness
-----------------------------------------------------------------------------
InBody == {"in", "write", "clear", "mark"}

TypeOK ==
  /\ mutex \in BOOLEAN
  /\ cpc \in {"idle", "pointer", "handle", "start", "interrupt", "wait", "forget"}
  /\ txStream \in 0..MaxStreams /\ streamPtr \in 0..MaxStreams
  /\ streamHandle \in 0..MaxStreams /\ streamGeneration \in 0..MaxStreams
  /\ streamCalls \in Nat /\ alive \in SUBSET Streams
  /\ closing \in [Streams -> BOOLEAN] /\ active \in [Streams -> BOOLEAN]
  /\ endBurstPending \in [Streams -> BOOLEAN] /\ ended \in [Streams -> BOOLEAN]
  /\ pushed \in [Streams -> Nat] /\ gone \in [Streams -> Nat]
  /\ pc \in [Callers -> {"out", "entered", "matched", "leave"} \cup InBody]
  /\ handle \in [Callers -> 0..MaxStreams] /\ obj \in [Callers -> 0..MaxStreams]
  /\ dpc \in [Drainers -> {"out", "drain", "stop", "release"}]
  /\ held \in [Drainers -> 0..MaxStreams]
  /\ mark \in [Drainers -> Nat] /\ gaveUp \in [Drainers -> BOOLEAN]
  /\ starts \in Nat /\ refused \in Nat

(* A data-path call only ever works on a stream object that exists, and on  *)
(* the one its handle was returned for, although it takes no lock and the   *)
(* stream may be closed and another one set up at any point of the call.    *)
NoUseAfterClose ==
  \A c \in Callers : pc[c] \in InBody => obj[c] \in alive /\ obj[c] = handle[c]

(* Only the open stream transmits: closing it stops the transmitter even    *)
(* while deactivateStream() keeps the object, and a late deactivation does   *)
(* not touch the stream that follows.                                      *)
OnlyOpenTransmits == \A g \in Streams : active[g] => g \in alive /\ g = txStream

(* deactivateStream() of an active stream does not discard a burst whose     *)
(* last write carried END_BURST when it was called: the samples queued by   *)
(* then have been played, or the wait ended at its deadline.                *)
BurstPlayed ==
  [][\A d \in Drainers :
       DeactivateStop(d) /\ txStream = held[d] => gone[held[d]] >= mark[d] \/ gaveUp[d]]_vars

(* closeStream() and deactivateStream() return, whatever the data-path      *)
(* calls in flight wait for.                                               *)
CloseReturns == cpc = "interrupt" ~> cpc = "idle"
DeactivateReturns == \A d \in Drainers : dpc[d] # "out" ~> dpc[d] = "out"

(* "the hardware is free for a new stream right after" closeStream(), "also  *)
(* while another thread waits in deactivateStream()" (README, streams).     *)
HardwareFreeAfterClose == (~mutex /\ txStream = 0) => alive = {}
=============================================================================
