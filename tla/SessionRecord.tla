---------------------------- MODULE SessionRecord ----------------------------
(***************************************************************************)
(* One transmitter per machine, and what happens when its process dies.     *)
(*                                                                         *)
(* A driver takes the session lock (flock on the lock file), recovers what  *)
(* the record of a dead owner names, allocates VideoCore memory and a DMA   *)
(* channel, takes over the clocks, and undoes all of it when it closes.     *)
(* It publishes in the lock file what a successor would have to undo.  The  *)
(* recovery tool rpitx_reset takes the same lock and runs the same          *)
(* recovery.  A process may die between any two steps; a block of memory    *)
(* whose process is dead is an orphan until somebody frees it.              *)
(*                                                                         *)
(* A record is written over the text of the one before, line by line, and   *)
(* a line that is missing reads as the parser's default.  Only one DMA      *)
(* channel is modelled.  Clock writes are single steps, taken from          *)
(* ClockTree.                                                               *)
(***************************************************************************)
EXTENDS ClockTree, FiniteSets

CONSTANTS
  Drivers,       \* processes that open the transmitter
  Tools,         \* processes that run rpitx_reset
  Handles,       \* VideoCore memory handles
  FoundTrees,    \* clock trees the firmware may leave
  NoTree,        \* a record without a clock tree
  Faults,        \* what may fail: a record's "write", the mapping of registers or mailbox ("map")
  CrashAfterFree,\* a recovery may die between mem_free() and Clear()
  MaxCrashes     \* bound

Actors == Drivers \cup Tools
Child  == "child"     \* a fork() without exec() shares the lock

ASSUME SessionAssumption ==
  /\ Drivers \cap Tools = {} /\ Child \notin Actors
  /\ {"free", "other", "orphan"} \cap Actors = {}
  /\ {"none", "idle", "other"} \cap Handles = {}
  /\ FoundTrees \subseteq Trees /\ NoTree \notin Trees
  /\ Faults \subseteq {"write", "map"} /\ CrashAfterFree \in BOOLEAN
  /\ MaxCrashes \in Nat

\* The firmware leaves GPCLK0 stopped and, without a generator of its own, no EMMC2 clock on
\* PLLC.  "orig" is the setting that was found.
ASSUME FoundAssumption ==
  \A t \in FoundTrees :
    /\ ~t.gp0.run
    /\ {t.ana, t.ctrl, t.core0, t.per, t.pacing} = {"orig"}
    /\ ~Bcm2711 => t.emmc2.src # "pllc"

VARIABLES
  lock,     \* holders of the flock: empty when free
  file,     \* text of the lock file
  pc, rec,  \* by actor: where it is, its record in memory
  todo,     \* by actor: clock writes still to do
  outcome,  \* by actor: what the session constructor found
  mem,      \* by handle: owner of the block
  dma,      \* what the channel executes: a block, "other" or nothing
  pins,     \* RF pin and pads: as found, carrier output, or input
  regs,     \* clock tree
  maskReadable,  \* the kernel's DMA channel mask can be read
  signalled, \* processes whose signal handler has run, and that are about to die
  crashes,
  found,    \* history: the clock tree at the start
  lost,     \* history: blocks that became an orphan no record names
  loose,    \* history: a recovery could not reset the channel, which runs on
  tainted   \* history: what a record no longer says, or a recovery could not restore

hardware == <<mem, dma, pins, regs>>
history  == <<signalled, crashes, found, lost, loose, tainted>>
vars == <<lock, file, pc, rec, todo, outcome, hardware, maskReadable, history>>

-----------------------------------------------------------------------------
(* The record and its text.                                                 *)

\* A record before anything is known, and what an empty file reads as.
Blank == [chan |-> FALSE, mask |-> TRUE, mem |-> "none", loc |-> "none", pins |-> "off",
          tree |-> NoTree, end |-> TRUE]
Empty == [Blank EXCEPT !.end = FALSE]

Records ==
  [chan : BOOLEAN, mask : BOOLEAN, mem : Handles \cup {"none"}, loc : Handles \cup {"none"},
   pins : {"orig", "off", "on"}, tree : Trees \cup {NoTree}, end : BOOLEAN]

\* Lines of a text, by what they say: a block's location and the end marker are there or
\* not, and two lines stand for those of the tree.
Lines(r) ==
  LET p == IF r.loc = "none" THEN 4 ELSE 5
      e == IF r.tree = NoTree THEN p + 1 ELSE p + 3
  IN [chan |-> {1}, mask |-> {2}, mem |-> {3}, loc |-> 4 .. p - 1, pins |-> {p},
      tree |-> p + 1 .. e - 1, end |-> IF r.end THEN {e} ELSE {}]

\* Mutant: the file is cut before it is written.
Mixed_CutFirst(new, n, old, m) ==
  [k \in DOMAIN Empty |-> IF Lines(new)[k] \subseteq 1 .. n THEN new[k] ELSE Empty[k]]

\* What is read when the first n lines of the new text stand over the first m of the old
\* one: what is there whole, and the tree only without lines of another.
Mixed(new, n, old, m) ==
  [k \in DOMAIN Empty |->
     LET written == Lines(new)[k] \cap 1 .. n
         left    == Lines(old)[k] \ 1 .. m
     IN IF left = Lines(old)[k] /\ left # {} /\ (k = "tree" => written = {}) THEN old[k]
        ELSE IF written = Lines(new)[k] /\ written # {} /\ left = {} THEN new[k]
        ELSE Empty[k]]

\* A write that ends before the last line.  When the channel is written with another length
\* everything moves, and the cut may spoil a line of the old text.
Torn(new, old) ==
  {Mixed(new, c[1], old, c[2]) : c \in
     {c \in (1 .. 7) \X (1 .. 8) :
        /\ Lines(new).end \cap 1 .. c[1] = {}
        /\ c[2] = c[1] \/ (new.chan # old.chan /\ c[2] = c[1] + 1)}}

\* A fault may happen as long as none has: a bound.
May(fault) == fault \in Faults /\ ~tainted

\* Session::Write(): text after the end marker is never read, so that cutting the file
\* changes nothing; a failed or short write is reported and nothing else.
AfterWrite(new, old) ==
  {new} \cup (IF May("write") THEN {old} \cup Torn(new, old) ELSE {})

\* RecordPlausible(): the channel can be checked as it was when it was allocated.
Plausible(r) == r.chan => maskReadable \/ ~r.mask

\* RecoverHardware(): the channel still runs control blocks of the recorded block.  Without
\* its location any block near the one the mailbox reports is taken for it.
Ours(r) ==
  IF r.loc # "none" THEN {dma = r.loc}
  ELSE IF r.mem = "none" THEN {FALSE}
  ELSE {dma = r.mem, dma # "idle"}

\* RestoredFunction(): never back to a clock output.
Restored(p) == IF p = "on" THEN "off" ELSE p

-----------------------------------------------------------------------------
Init ==
  /\ lock = {} /\ file = Empty
  /\ pc = [a \in Actors |-> "idle"]
  /\ rec = [a \in Actors |-> Blank]
  /\ todo = [a \in Actors |-> <<>>]
  /\ outcome = [a \in Actors |-> "none"]
  /\ mem = [h \in Handles |-> "free"]
  /\ dma = "idle" /\ pins = "orig" /\ regs \in FoundTrees /\ found = regs
  /\ maskReadable \in BOOLEAN
  /\ signalled = {} /\ crashes = 0 /\ lost = {} /\ loose = FALSE /\ tainted = FALSE

At(a, from) == pc[a] = from
Goto(a, to) == pc' = [pc EXCEPT ![a] = to]

\* The session constructor: a refused lock leaves nothing behind.
TakeLock(a) ==
  /\ At(a, "idle") /\ lock = {}
  /\ lock' = {a}
  /\ LET stale == IF file = Empty THEN "none" ELSE IF Plausible(file) THEN "recovered" ELSE "discarded"
     IN /\ outcome' = [outcome EXCEPT ![a] = stale]
        /\ Goto(a, IF stale = "recovered" THEN "recDma" ELSE "recClear")
        /\ tainted' = (tainted \/ stale = "discarded")
        /\ lost' = IF stale = "discarded" THEN lost \cup {h \in Handles : mem[h] = "orphan"} ELSE lost
  /\ UNCHANGED <<file, rec, todo, hardware, maskReadable, signalled, crashes, found, loose>>

\* A step of the recovery that fails is reported, and the next one is tried.
Skipped(from, to, a) ==
  /\ May("map") /\ At(a, from) /\ Goto(a, to) /\ tainted' = TRUE
  /\ UNCHANGED <<lock, file, rec, todo, outcome, hardware, maskReadable, signalled, crashes, found, lost, loose>>

\* The registers of the channel cannot be mapped: it is not reset, whatever it executes.
RunsOn(a) ==
  /\ May("map") /\ At(a, "recDma") /\ Goto(a, "recPins")
  /\ loose' = (loose \/ dma \in Handles) /\ tainted' = TRUE
  /\ UNCHANGED <<lock, file, rec, todo, outcome, hardware, maskReadable, signalled, crashes, found, lost>>

\* Mutant: the record's channel is left alone.
RecoverDma_NoReset(a) ==
  /\ At(a, "recDma") /\ Goto(a, "recPins")
  /\ UNCHANGED <<lock, file, rec, todo, outcome, hardware, maskReadable, history>>

RecoverDma(a) ==
  \/ /\ At(a, "recDma") /\ Goto(a, "recPins")
     /\ \E ours \in (IF file.chan THEN IF dma = "idle" THEN {TRUE} ELSE Ours(file) ELSE {FALSE}) :
          dma' = IF ours THEN "idle" ELSE dma
     /\ UNCHANGED <<lock, file, rec, todo, outcome, mem, pins, regs, maskReadable, history>>
  \/ RunsOn(a)

RecoverPins(a) ==
  \/ /\ At(a, "recPins") /\ Goto(a, "recPlan")
     /\ pins' = Restored(file.pins)
     /\ UNCHANGED <<lock, file, rec, todo, outcome, mem, dma, regs, maskReadable, history>>
  \/ Skipped("recPins", "recPlan", a)

\* GPCLK0 is stopped first; the pacing clock and the tree only if the record has them.
RecoverPlan(a) ==
  \/ /\ At(a, "recPlan") /\ Goto(a, "recClocks")
     /\ todo' = [todo EXCEPT ![a] =
          Stop("gp0", regs.gp0) \o
          IF file.tree = NoTree THEN <<>> ELSE RestorePacing(file.tree) \o RestoreTree(regs, file.tree)]
     /\ UNCHANGED <<lock, file, rec, outcome, hardware, maskReadable, history>>
  \/ Skipped("recPlan", "recMem", a)

RecoverMem(a) ==
  /\ At(a, "recMem") /\ Goto(a, "recClear")
  /\ \/ /\ file.end /\ file.mem # "none"
        /\ mem' = [mem EXCEPT ![file.mem] = "free"]
        /\ UNCHANGED <<lost, tainted>>
     \/ /\ ~file.end \/ file.mem = "none" \/ May("map")
        /\ lost' = lost \cup {h \in Handles : h = file.mem /\ mem[h] = "orphan"}
        /\ tainted' = (tainted \/ (file.end /\ file.mem # "none"))
        /\ UNCHANGED mem
  /\ UNCHANGED <<lock, file, rec, todo, outcome, dma, pins, regs, maskReadable, signalled, crashes, found, loose>>

RecoverClear(a) ==
  /\ At(a, "recClear") /\ Goto(a, IF a \in Tools THEN "tool" ELSE "claim")
  /\ file' = Empty
  /\ UNCHANGED <<lock, rec, todo, outcome, hardware, maskReadable, history>>

-----------------------------------------------------------------------------
(* Writes to the clock tree, one at a time.                                 *)

AfterClocks == [recClocks |-> "recMem", advance |-> "tune", tuned |-> "ready",
                retune |-> "ready", retuneTx |-> "running", restore |-> "dmaStop"]

ClockWrite(a) ==
  /\ pc[a] \in DOMAIN AfterClocks
  /\ IF todo[a] = <<>>
     THEN Goto(a, AfterClocks[pc[a]]) /\ UNCHANGED <<regs, todo>>
     ELSE /\ regs' = Written(regs, Head(todo[a]))
          /\ todo' = [todo EXCEPT ![a] = Tail(todo[a])]
          /\ UNCHANGED pc
  /\ UNCHANGED <<lock, file, rec, outcome, mem, dma, pins, maskReadable, history>>

-----------------------------------------------------------------------------
(* The driver.                                                              *)

\* HardwareClaim: another user of the pins or of the pacing block is refused.
Claim(a) ==
  /\ At(a, "claim")
  /\ \/ rec' = [rec EXCEPT ![a].pins = pins] /\ Goto(a, "alloc")
     \/ UNCHANGED rec /\ Goto(a, "clear")
  /\ UNCHANGED <<lock, file, todo, outcome, hardware, maskReadable, history>>

\* dma::dma(): an active channel needs dma_force, and without the mask the channel has to be
\* given; then the memory.  A refusal, also of the memory's lock, frees what was taken.
Allocate(a) ==
  /\ At(a, "alloc")
  /\ \/ \E h \in Handles, explicit, force \in BOOLEAN :
          /\ explicit \/ maskReadable
          /\ dma = "idle" \/ (explicit /\ force)
          /\ mem[h] = "free"
          /\ mem' = [mem EXCEPT ![h] = a]
          /\ rec' = [rec EXCEPT ![a] = [@ EXCEPT !.chan = TRUE, !.mask = maskReadable, !.mem = h, !.loc = h]]
          /\ Goto(a, "pubAlloc")
     \/ UNCHANGED <<mem, rec>> /\ Goto(a, "clear")
  /\ UNCHANGED <<lock, file, todo, outcome, dma, pins, regs, maskReadable, history>>

AfterPublish == [pubAlloc |-> "map", pubClocks |-> "pinOff", pubFree |-> "free"]

\* PublishRecord(), from the allocation, the constructor's body and ~dma().
Publish(a) ==
  /\ pc[a] \in DOMAIN AfterPublish
  /\ file' \in AfterWrite(rec[a], file)
  /\ tainted' = (tainted \/ file' # rec[a])
  /\ Goto(a, AfterPublish[pc[a]])
  /\ UNCHANGED <<lock, rec, todo, outcome, hardware, maskReadable, signalled, crashes, found, lost, loose>>

\* Mutant: it does not.
Forget_Nothing(r) == r

\* The record stops naming channel and memory before they are given back.
Forget(r) == [r EXCEPT !.chan = FALSE, !.mask = TRUE, !.mem = "none", !.loc = "none"]

\* The block is mapped and the channel reset, or all is given back.
MapBlock(a) ==
  /\ At(a, "map")
  /\ \/ dma' = "idle" /\ Goto(a, "save") /\ UNCHANGED rec
     \/ rec' = [rec EXCEPT ![a] = Forget(@)] /\ Goto(a, "pubFree") /\ UNCHANGED dma
  /\ UNCHANGED <<lock, file, todo, outcome, mem, pins, regs, maskReadable, history>>

\* Mutant: the clocks are saved and not recorded.
SaveClocks_Unrecorded(a) ==
  /\ At(a, "save") /\ Goto(a, "pinOff")
  /\ rec' = [rec EXCEPT ![a].tree = regs]
  /\ UNCHANGED <<lock, file, todo, outcome, hardware, maskReadable, history>>

\* SaveClockTree(), WriteSessionRecord(); a clock or pacing block that cannot be mapped
\* throws before anything is saved.
SaveClocks(a) ==
  /\ At(a, "save")
  /\ \/ rec' = [rec EXCEPT ![a].tree = regs] /\ Goto(a, "pubClocks")
     \/ UNCHANGED rec /\ Goto(a, "dmaStop")
  /\ UNCHANGED <<lock, file, todo, outcome, hardware, maskReadable, history>>

\* The constructor's body: a carrier left on the pin goes off, the clocks leave PLLC
\* (refused when PLLA does not run) and PLLC is tuned (or the tune refused).
PinOff(a) ==
  /\ At(a, "pinOff")
  /\ pins' = Restored(pins)
  /\ \/ todo' = [todo EXCEPT ![a] = AdvanceWrites(regs)] /\ Goto(a, "advance")
     \/ UNCHANGED todo /\ Goto(a, "undo")
  /\ UNCHANGED <<lock, file, rec, outcome, mem, dma, regs, maskReadable, history>>

Tune(a) ==
  /\ At(a, "tune")
  /\ \/ todo' = [todo EXCEPT ![a] = TuneWrites] /\ Goto(a, "tuned")
     \/ UNCHANGED todo /\ Goto(a, "undo")
  /\ UNCHANGED <<lock, file, rec, outcome, hardware, maskReadable, history>>

\* A retune of an open transmitter programs PLLC and the pacing clock again.
Retune(a) ==
  /\ pc[a] \in {"ready", "running"}
  /\ todo' = [todo EXCEPT ![a] = TuneWrites]
  /\ Goto(a, IF At(a, "running") THEN "retuneTx" ELSE "retune")
  /\ UNCHANGED <<lock, file, rec, outcome, hardware, maskReadable, history>>

\* Mutant: the engine is started with the handle of a record that has forgotten it.
StartDma_Forgotten(a) ==
  /\ At(a, "ready") /\ Goto(a, "running")
  /\ dma' = Forget(rec[a]).mem
  /\ UNCHANGED <<lock, file, rec, todo, outcome, mem, pins, regs, maskReadable, history>>

\* The feeder's StartDma(), and Stop(): StopDma(), RestoreGpio().
StartDma(a) ==
  /\ At(a, "ready") /\ Goto(a, "running")
  /\ dma' = rec[a].mem
  /\ UNCHANGED <<lock, file, rec, todo, outcome, mem, pins, regs, maskReadable, history>>

StopDma(a) ==
  /\ At(a, "running") /\ Goto(a, "ready")
  /\ dma' = "idle" /\ pins' = Restored(rec[a].pins)
  /\ UNCHANGED <<lock, file, rec, todo, outcome, mem, regs, maskReadable, history>>

\* The destructor, or the constructor's catch block: then ~pcmgpio() and ~clkgpio().
Close(a) ==
  /\ pc[a] \in {"ready", "undo"} /\ Goto(a, "restore")
  /\ dma' = IF At(a, "ready") THEN "idle" ELSE dma
  /\ pins' = Restored(rec[a].pins)
  /\ todo' = [todo EXCEPT ![a] = RestorePacing(rec[a].tree) \o RestoreTree(regs, rec[a].tree)]
  /\ UNCHANGED <<lock, file, rec, outcome, mem, regs, maskReadable, history>>

\* ~dma(): channel stopped, record, memory.
DmaStop(a) ==
  /\ At(a, "dmaStop") /\ Goto(a, "pubFree")
  /\ dma' = "idle"
  /\ rec' = [rec EXCEPT ![a] = Forget(@)]
  /\ UNCHANGED <<lock, file, todo, outcome, mem, pins, regs, maskReadable, history>>

FreeBlock(a) ==
  /\ At(a, "free") /\ Goto(a, "clear")
  /\ mem' = [h \in Handles |-> IF mem[h] = a THEN "free" ELSE mem[h]]
  /\ UNCHANGED <<lock, file, rec, todo, outcome, dma, pins, regs, maskReadable, history>>

\* ~Session(): the record is cleared, then the lock given back.
ClearRecord(a) ==
  /\ At(a, "clear") /\ Goto(a, "unlock")
  /\ file' = Empty
  /\ UNCHANGED <<lock, rec, todo, outcome, hardware, maskReadable, history>>

\* What a process that ends takes with it.
Ends(a) ==
  /\ Goto(a, "idle")
  /\ lock' = lock \ {a}
  /\ rec' = [rec EXCEPT ![a] = Blank]
  /\ todo' = [todo EXCEPT ![a] = <<>>]
  /\ outcome' = [outcome EXCEPT ![a] = "none"]

Unlock(a) ==
  /\ At(a, "unlock") /\ Ends(a)
  /\ UNCHANGED <<file, hardware, maskReadable, history>>

\* rpitx_reset: without a record the carrier is switched off and GPCLK0 stopped; a channel
\* given on the command line is reset when the kernel's mask allows it, or by force.
ToolReset(a) ==
  /\ At(a, "tool") /\ Goto(a, "clear")
  /\ IF outcome[a] = "none"
     THEN pins' = Restored(pins) /\ regs' = [regs EXCEPT !.gp0.run = FALSE]
     ELSE UNCHANGED <<pins, regs>>
  /\ dma' \in {dma, "idle"}
  /\ UNCHANGED <<lock, file, rec, todo, outcome, mem, maskReadable, history>>

-----------------------------------------------------------------------------
(* What happens around the program.                                         *)

\* Points where a block in use is named by no record on file.
Unnamed == {"pubAlloc", "free"}

\* What the documentation says is not given back: a block of which there is no record yet or
\* no more, and one named by a record that grew and lost its end marker.
Gap(a, h, text) ==
  \/ pc[a] \in Unnamed
  \/ At(a, "pubFree") /\ text.mem # h
  \/ At(a, "pubClocks") /\ text.mem = h /\ ~text.end

\* The record a dead process leaves says text; its block becomes an orphan.
Dies(a, text) ==
  /\ crashes < MaxCrashes /\ crashes' = crashes + 1
  /\ Ends(a)
  /\ file' = text
  /\ mem' = [h \in Handles |-> IF mem[h] = a THEN "orphan" ELSE mem[h]]
  /\ lost' = lost \cup {h \in Handles : mem[h] = a /\ Gap(a, h, text)}
  /\ signalled' = signalled \ {a}
  /\ UNCHANGED <<maskReadable, found, loose>>

\* A kill at any point, or the signal a handler raises again.
Crash(a) ==
  /\ pc[a] # "idle"
  /\ pc[a] = "recClear" /\ outcome[a] = "recovered" => CrashAfterFree
  /\ Dies(a, file)
  /\ UNCHANGED <<dma, pins, regs, tainted>>

\* A kill while the record is overwritten; a first record that does not get as far as the
\* pin has it set to input.
CrashInWrite(a) ==
  /\ pc[a] \in DOMAIN AfterPublish
  /\ \E text \in Torn(rec[a], file) :
       /\ Dies(a, text)
       /\ tainted' = (tainted \/ (At(a, "pubAlloc") /\ text.pins # rec[a].pins))
  /\ UNCHANGED <<dma, pins, regs>>

\* SignalSafeStop(): channel, pins and GPCLK0.
Silence == dma' = "idle" /\ pins' = "off" /\ regs' = [regs EXCEPT !.gp0.run = FALSE]

HandlersInstalled == {"ready", "running", "retune", "retuneTx"}

\* cleanupSignalHandler(): the other threads run on until the signal is raised again.
SignalStop(a) ==
  /\ pc[a] \in HandlersInstalled /\ a \notin signalled
  /\ signalled' = signalled \cup {a}
  /\ Silence
  /\ UNCHANGED <<lock, file, pc, rec, todo, outcome, mem, maskReadable, crashes, found, lost, loose, tainted>>

\* exitHandler(), EmergencyStop(): the feeder is gone before the last stop.
Exit(a) ==
  /\ pc[a] \in HandlersInstalled
  /\ Silence
  /\ Dies(a, file)
  /\ UNCHANGED tainted

\* While the channel runs, each slot writes the function of the pin, the pads and the
\* multiplier of PLLC.
EngineWrites ==
  /\ dma \in Handles
  /\ pins' \in {"on", "off"}
  /\ regs' = [regs EXCEPT !.ctrl = "tx"]
  /\ UNCHANGED <<lock, file, pc, rec, todo, outcome, mem, dma, maskReadable, history>>

\* Another VideoCore client takes a free block, and keeps it.
OtherAllocates(h) ==
  /\ mem[h] = "free" /\ mem' = [mem EXCEPT ![h] = "other"]
  /\ UNCHANGED <<lock, file, pc, rec, todo, outcome, dma, pins, regs, maskReadable, history>>

\* Another program takes the channel while no living transmitter has it, or gives it back.
OtherDma ==
  /\ \A a \in Drivers : pc[a] \notin {"save", "pubClocks", "pinOff", "advance", "tune", "tuned",
                                      "undo", "restore", "dmaStop"} \cup HandlersInstalled
  /\ dma' = IF dma = "other" THEN "idle" ELSE "other"
  /\ UNCHANGED <<lock, file, pc, rec, todo, outcome, mem, pins, regs, maskReadable, history>>

ForkChild ==
  /\ lock \cap Drivers # {} /\ crashes < MaxCrashes
  /\ lock' = lock \cup {Child}
  /\ UNCHANGED <<file, pc, rec, todo, outcome, hardware, maskReadable, history>>

ChildExits ==
  /\ Child \in lock /\ lock' = lock \ {Child}
  /\ UNCHANGED <<file, pc, rec, todo, outcome, hardware, maskReadable, history>>

MaskChanges ==
  /\ maskReadable' = ~maskReadable
  /\ UNCHANGED <<lock, file, pc, rec, todo, outcome, hardware, history>>

Step(a) ==
  \/ TakeLock(a) \/ RecoverDma(a) \/ RecoverPins(a) \/ RecoverPlan(a) \/ RecoverMem(a) \/ RecoverClear(a)
  \/ ClockWrite(a) \/ Claim(a) \/ Allocate(a) \/ Publish(a) \/ MapBlock(a) \/ SaveClocks(a)
  \/ PinOff(a) \/ Tune(a) \/ Retune(a) \/ StartDma(a) \/ StopDma(a) \/ Close(a)
  \/ DmaStop(a) \/ FreeBlock(a) \/ ClearRecord(a) \/ Unlock(a) \/ ToolReset(a)

Death(a) == Crash(a) \/ CrashInWrite(a) \/ SignalStop(a) \/ Exit(a)

Environment ==
  \/ EngineWrites \/ OtherDma \/ ForkChild \/ ChildExits \/ MaskChanges
  \/ \E h \in Handles : OtherAllocates(h)

Next ==
  \/ \E a \in Actors : Step(a) \/ Death(a)
  \/ Environment

Spec == Init /\ [][Next]_vars

-----------------------------------------------------------------------------
Clocked == {"recClocks", "advance", "tuned", "retune", "retuneTx", "restore"}
Places ==
  {"idle", "recDma", "recPins", "recPlan", "recMem", "recClear", "tool", "claim", "alloc", "pubAlloc",
   "map", "save", "pubClocks", "pinOff", "tune", "ready", "running", "undo", "dmaStop", "pubFree",
   "free", "clear", "unlock"} \cup Clocked

\* Every variable keeps its type (the state of SoapyRPITX_Session and of what it guards).
TypeOK ==
  /\ lock \subseteq Actors \cup {Child}
  /\ file \in Records
  /\ pc \in [Actors -> Places]
  /\ rec \in [Actors -> Records]
  /\ \A a \in Actors : pc[a] \notin Clocked => todo[a] = <<>>
  /\ outcome \in [Actors -> {"none", "recovered", "discarded"}]
  /\ mem \in [Handles -> Actors \cup {"free", "other", "orphan"}]
  /\ dma \in Handles \cup {"idle", "other"}
  /\ pins \in {"orig", "off", "on"}
  /\ regs \in Trees /\ found \in Trees
  /\ maskReadable \in BOOLEAN /\ loose \in BOOLEAN /\ tainted \in BOOLEAN
  /\ signalled \subseteq Drivers /\ crashes \in 0 .. MaxCrashes /\ lost \subseteq Handles

\* No step gives back a block another VideoCore client has allocated: a handle in a record
\* or in ~dma() is never one that was free in between (Session.cpp:403, dma.cpp:160).
NeverFreesForeign ==
  [][\A h \in Handles : mem[h] = "other" /\ ~tainted => mem'[h] = "other"]_mem

\* The channel never runs control blocks in memory that is free or somebody else's: it is
\* stopped before its block goes, by ~dma() and by the recovery (Session.cpp:313).
NoStrayDma ==
  dma \in Handles /\ ~tainted => mem[dma] \in Actors \cup {"orphan"}

\* A dead process leaves no block that no complete record names, except where the
\* documentation says so: before the record of the allocation, after that of the release,
\* and when a record that grows is torn (Session.cpp:586, 403).
OrphansNamed ==
  \A h \in Handles : mem[h] = "orphan" /\ h \notin lost /\ ~tainted => file.end /\ file.mem = h

\* Free lock, empty record: whatever died in between, also a recovery or a restoration
\* half way, the clocks and the pin are as they were found (Session.cpp:308).
IdleMeansOriginal ==
  lock = {} /\ file = Empty /\ ~tainted => regs = found /\ pins = "orig"

\* No processor or storage clock runs from a PLLC that is not as it was found, not between
\* two register writes nor after a kill there, while the channel of a dead process still
\* writes PLLC: it is stopped before the clocks go back, unless a recovery could not reset
\* it (gpio.cpp:595, gpio.cpp:160, Session.cpp:313).
NeverModulated == FedByModulated(regs) => loose

\* A generator that can be stopped changes its source only while it is (gpio.cpp:77).
SwitchedStopped ==
  [][\A g \in Generators \ {"vpu"} :
       regs'[g].src # regs[g].src => ~regs[g].run /\ ~regs'[g].run]_regs

\* A process killed by a signal it has a handler for leaves the channel silent, as the
\* documentation says (README.md:1003).
KilledIsSilent ==
  [][\A a \in signalled \ signalled' : dma' \notin Handles]_vars
=============================================================================
