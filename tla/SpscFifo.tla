------------------------------ MODULE SpscFifo ------------------------------
(***************************************************************************)
(* SpscFifo<T> (src/src/SoapyRPITX_Buffers.hpp): the lock-free FIFO between *)
(* the thread that calls writeStream() and the feeder thread.              *)
(*                                                                         *)
(* head and tail are the two atomic counters, buffer the circular storage. *)
(* Each step is one access to a variable another thread also uses: the     *)
(* load of the other side's counter, the load of the limit, the copy of    *)
(* one element, the store that publishes the result.  Each counter has one *)
(* writer, which orders its store after its copies (release) and whose     *)
(* reader orders its copies after its load (acquire), so an interleaving   *)
(* of these steps is all the memory model allows.  The load of a thread's  *)
(* own counter is folded into the next step: no other thread writes it.    *)
(* clear() runs on the consumer's side while no pop is in progress.        *)
(***************************************************************************)
EXTENDS Integers, Sequences

CONSTANTS
  Values,     \* samples
  Zero,       \* the value the storage is initialised with
  Cap,        \* storage(): elements allocated
  Limits,     \* arguments setLimit() is called with
  PushMax,    \* largest n of push()
  PopMax,     \* largest n of pop()
  MaxPushed   \* bound: elements ever pushed

ASSUME FifoAssumption ==
  /\ Cap \in Nat \ {0}
  /\ PushMax \in Nat \ {0}
  /\ PopMax \in Nat \ {0}
  /\ Limits \subseteq Nat
  /\ MaxPushed \in Nat

VARIABLES
  buffer,   \* circular storage, indexed 0..Cap-1
  lim,      \* usable capacity
  head,     \* elements pushed so far, written by the producer only
  tail,     \* elements popped so far, written by the consumer side only
  ppc,      \* where the producer is in push()
  src,      \* the batch the producer offers
  pt,       \* the tail counter push() loaded
  pm, pi,   \* elements push() decided to copy, and has copied
  cpc,      \* where the consumer side is in pop() or clear()
  dst,      \* elements pop() has copied out
  cm,       \* elements pop() decided to copy
  seen,     \* the head counter clear() loaded
  got       \* what the last completed pop() returned

pvars == <<ppc, src, pt, pm, pi>>
cvars == <<cpc, dst, cm, seen, got>>
vars  == <<buffer, lim, head, tail, pvars, cvars>>

Lesser(a, b) == IF a < b THEN a ELSE b

(* The batches push() may be called with. *)
Batch == UNION {[1..n -> Values] : n \in 1..PushMax}

(* Ring slot of an absolute element index. *)
SlotOf(p) == p % Cap

Init ==
  /\ buffer = [i \in 0..Cap - 1 |-> Zero]
  /\ lim = Cap
  /\ head = 0 /\ tail = 0
  /\ ppc = "idle" /\ src = <<>> /\ pt = 0 /\ pm = 0 /\ pi = 0
  /\ cpc = "idle" /\ dst = <<>> /\ cm = 0 /\ seen = 0 /\ got = <<>>
-----------------------------------------------------------------------------
(* push(): the producer *)

PushLoad ==
  /\ ppc = "idle"
  /\ src' \in Batch
  /\ head + Len(src') =< MaxPushed
  /\ pt' = tail
  /\ ppc' = "limit"
  /\ UNCHANGED <<buffer, lim, head, tail, pm, pi, cvars>>

(* Elements that fit, from the counters loaded and the current limit, which *)
(* may have been lowered below the fill.  (Mutated: one element too many;   *)
(* the difference of two unsigned counts without the comparison.)          *)
FreeSlots_OneMore(used) == IF used >= lim THEN 1 ELSE lim - used + 1
FreeSlots_Wraps(used) == (lim - used) % 65536
FreeSlots(used) == IF used >= lim THEN 0 ELSE lim - used

PushLimit ==
  /\ ppc = "limit"
  /\ pm' = Lesser(Len(src), FreeSlots(head - pt))
  /\ pi' = 0
  /\ ppc' = "copy"
  /\ UNCHANGED <<buffer, lim, head, tail, src, pt, cvars>>

PushCopy ==
  /\ ppc = "copy"
  /\ pi < pm
  /\ buffer' = [buffer EXCEPT ![SlotOf(head + pi)] = src[pi + 1]]
  /\ pi' = pi + 1
  /\ UNCHANGED <<lim, head, tail, ppc, src, pt, pm, cvars>>

(* The elements become visible.  (Mutated: before they are copied.)        *)
PushStore_Early ==
  /\ ppc = "copy"
  /\ head' = head + pm
  /\ ppc' = "idle"
  /\ UNCHANGED <<buffer, lim, tail, src, pt, pm, pi, cvars>>

PushStore ==
  /\ ppc = "copy"
  /\ pi = pm
  /\ head' = head + pm
  /\ ppc' = "idle"
  /\ UNCHANGED <<buffer, lim, tail, src, pt, pm, pi, cvars>>
-----------------------------------------------------------------------------
(* pop(): the consumer *)

PopLoad ==
  /\ cpc = "idle"
  /\ \E n \in 1..PopMax : cm' = Lesser(n, head - tail)
  /\ dst' = <<>>
  /\ cpc' = "copy"
  /\ UNCHANGED <<buffer, lim, head, tail, pvars, seen, got>>

PopCopy ==
  /\ cpc = "copy"
  /\ Len(dst) < cm
  /\ dst' = Append(dst, buffer[SlotOf(tail + Len(dst))])
  /\ UNCHANGED <<buffer, lim, head, tail, pvars, cpc, cm, seen, got>>

PopStore ==
  /\ cpc = "copy"
  /\ Len(dst) = cm
  /\ tail' = tail + cm
  /\ got' = dst
  /\ cpc' = "idle"
  /\ UNCHANGED <<buffer, lim, head, pvars, dst, cm, seen>>
-----------------------------------------------------------------------------
(* clear(), by the thread that stopped the consumer, and setLimit() *)

ClearLoad ==
  /\ cpc = "idle"
  /\ seen' = head
  /\ cpc' = "clear"
  /\ UNCHANGED <<buffer, lim, head, tail, pvars, dst, cm, got>>

ClearStore ==
  /\ cpc = "clear"
  /\ tail' = seen
  /\ cpc' = "idle"
  /\ UNCHANGED <<buffer, lim, head, pvars, dst, cm, seen, got>>

(* The limit is clamped to [1, Cap]; elements already stored are kept.      *)
(* (Mutated: it may exceed the storage.)                                   *)
Clamped_FromBelow(l) == IF l < 1 THEN 1 ELSE l
Clamped(l) == Lesser(IF l < 1 THEN 1 ELSE l, Cap)

SetLimit ==
  /\ \E l \in Limits : lim' = Clamped(l)
  /\ UNCHANGED <<buffer, head, tail, pvars, cvars>>

Next ==
  \/ PushLoad \/ PushLimit \/ PushCopy \/ PushStore
  \/ PopLoad \/ PopCopy \/ PopStore
  \/ ClearLoad \/ ClearStore
  \/ SetLimit

Spec == Init /\ [][Next]_vars
-----------------------------------------------------------------------------
TypeOK ==
  /\ buffer \in [0..Cap - 1 -> Values \cup {Zero}]
  /\ lim \in 1..Cap
  /\ head \in Nat /\ tail \in Nat
  /\ ppc \in {"idle", "limit", "copy"}
  /\ src \in Seq(Values)
  /\ pt \in Nat /\ pm \in Nat /\ pi \in Nat
  /\ cpc \in {"idle", "copy", "clear"}
  /\ dst \in Seq(Values \cup {Zero})
  /\ cm \in Nat /\ seen \in Nat
  /\ got \in Seq(Values \cup {Zero})

(* No data race on the storage: the element the producer is about to write *)
(* is never the one the consumer is about to read, although both decide    *)
(* from counters that are out of date and the limit may change in between  *)
(* (push() and pop() copy without a lock).                                 *)
NoDataRace ==
  (/\ ppc = "copy" /\ pi < pm
   /\ cpc = "copy" /\ Len(dst) < cm)
  => SlotOf(head + pi) # SlotOf(tail + Len(dst))

(* The FIFO never holds more than the storage, whatever limit was set      *)
(* while push() was between its loads and its store, and clear() never     *)
(* moves the tail past the head.                                           *)
FillBounded ==
  /\ tail =< head
  /\ head + (IF ppc = "copy" THEN pm ELSE 0) =< tail + Cap

(* The content of the FIFO as its users see it. *)
Contents == [i \in 1..head - tail |-> buffer[SlotOf(tail + i - 1)]]

(* The counters and the circular buffer implement a bounded queue: nothing *)
(* is lost, duplicated, reordered or overwritten between push() and pop(), *)
(* and clear() drops only what was stored when it ran.                     *)
Queue == INSTANCE BoundedQueue WITH queue <- Contents, offer <- src, taken <- got

ImplementsQueue == Queue!QSpec
=============================================================================
