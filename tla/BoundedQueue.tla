---------------------------- MODULE BoundedQueue ----------------------------
(***************************************************************************)
(* What the sample FIFO of the transmit path promises to its two users: a  *)
(* queue of at most Cap samples.  The producer offers a batch and some     *)
(* prefix of it is appended, the consumer takes a prefix of the queue, and *)
(* whoever stops the transmitter may discard a prefix.  SpscFifo           *)
(* implements this with two counters and a circular buffer.                *)
(***************************************************************************)
EXTENDS Naturals, Sequences

CONSTANTS
  Values,   \* samples
  Cap,      \* storage size of the FIFO
  PushMax   \* largest batch offered in one call

VARIABLES
  queue,    \* the samples stored, oldest first
  offer,    \* the batch of the last push
  taken     \* the batch returned by the last pop

qvars == <<queue, offer, taken>>

Batches == UNION {[1..n -> Values] : n \in 1..PushMax}

QInit ==
  /\ queue = <<>>
  /\ offer = <<>>
  /\ taken = <<>>

(* The producer calls push() with a batch. *)
Offer ==
  /\ offer' \in Batches
  /\ UNCHANGED <<queue, taken>>

(* A prefix of the offered batch becomes visible to the consumer at once. *)
Accept ==
  /\ \E n \in 1..Len(offer) :
       /\ Len(queue) + n =< Cap
       /\ queue' = queue \o SubSeq(offer, 1, n)
  /\ UNCHANGED <<offer, taken>>

(* pop() returns the oldest samples, in order, and removes exactly them. *)
Take ==
  /\ \E n \in 0..Len(queue) :
       /\ taken' = SubSeq(queue, 1, n)
       /\ queue' = SubSeq(queue, n + 1, Len(queue))
  /\ UNCHANGED offer

(* clear() removes the samples it saw; later ones stay. *)
Discard ==
  /\ \E n \in 0..Len(queue) : queue' = SubSeq(queue, n + 1, Len(queue))
  /\ UNCHANGED <<offer, taken>>

QNext == Offer \/ Accept \/ Take \/ Discard

QSpec == QInit /\ [][QNext]_qvars
=============================================================================
