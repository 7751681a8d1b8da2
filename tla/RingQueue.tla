----------------------------- MODULE RingQueue ------------------------------
(***************************************************************************)
(* The bounded ring queue (rlib/data/rqueuering.c).  head and tail are in  *)
(* 0..sizep1 and reduced modulo sizep1 only when the buffer is indexed;    *)
(* one slot stays free.  popped is what the last pop returned (NullItem    *)
(* when empty) and Contents the items between the indices, oldest first.   *)
(***************************************************************************)
EXTENDS Integers, Sequences

CONSTANTS Size, Items, NullItem
ASSUME SizeAssumption == Size \in Nat /\ Size > 0
ASSUME ItemsAssumption == NullItem \notin Items

VARIABLES buffer, head, tail, popped
ringVars == <<buffer, head, tail, popped>>

sizep1 == Size + 1
(* r_mem_new_n does not clear the buffer: a slot may hold any pointer. *)
r_queue_ring_new ==
  /\ buffer \in [0..Size -> Items \cup {NullItem}]
  /\ head = 0 /\ tail = 0
  /\ popped = NullItem

r_queue_ring_size == IF tail >= head THEN tail - head ELSE sizep1 - (head - tail)
r_queue_ring_is_empty == tail = head
r_queue_ring_peek == IF tail = head THEN NullItem ELSE buffer[head % sizep1]

\* mutant: a push into the last free slot is allowed
push_fills(item) ==
  /\ r_queue_ring_size < sizep1
  /\ buffer' = [buffer EXCEPT ![tail % sizep1] = item]
  /\ tail' = (tail % sizep1) + 1
  /\ UNCHANGED <<head, popped>>
r_queue_ring_push(item) ==
  /\ r_queue_ring_size < sizep1 - 1
  /\ buffer' = [buffer EXCEPT ![tail % sizep1] = item]
  /\ tail' = (tail % sizep1) + 1
  /\ UNCHANGED <<head, popped>>
(* Full: FALSE and nothing changes. *)
r_queue_ring_push_full(item) ==
  /\ r_queue_ring_size >= sizep1 - 1
  /\ UNCHANGED ringVars

r_queue_ring_pop ==
  /\ IF tail = head THEN popped' = NullItem /\ UNCHANGED head
     ELSE /\ popped' = buffer[head % sizep1]
          /\ head' = (head % sizep1) + 1
  /\ UNCHANGED <<buffer, tail>>
(* With a notifier the items are popped one by one; without, both indices reset. *)
r_queue_ring_clear(notify) ==
  /\ head' = IF notify THEN tail ELSE 0
  /\ tail' = IF notify THEN tail ELSE 0
  /\ popped' = NullItem
  /\ UNCHANGED buffer

RingInit == r_queue_ring_new
RingNext ==
  \/ \E item \in Items : r_queue_ring_push(item)
  \/ \E item \in Items : r_queue_ring_push_full(item)
  \/ r_queue_ring_pop
  \/ \E notify \in BOOLEAN : r_queue_ring_clear(notify)

Contents == [i \in 1..r_queue_ring_size |-> buffer[(head + i - 1) % sizep1]]
RingSpec == RingInit /\ [][RingNext]_ringVars

(***************************************************************************)
(* What a bounded FIFO promises, of the sequence Contents and of what the  *)
(* last pop gave back.                                                     *)
(***************************************************************************)
FifoInit == Contents = << >> /\ popped = NullItem
FifoPush == \E item \in Items : Len(Contents) < Size /\ Contents' = Append(Contents, item) /\ UNCHANGED popped
FifoPop ==
  IF Contents = << >> THEN popped' = NullItem /\ UNCHANGED Contents
                      ELSE popped' = Head(Contents) /\ Contents' = Tail(Contents)
FifoClear == Contents' = << >> /\ popped' = NullItem

(* The ring queue gives items back in the order they were pushed and never  *)
(* overwrites one, wherever its two indices stand (rqueuering.c).          *)
ImplementsFifo == FifoInit /\ [][FifoPush \/ FifoPop \/ FifoClear]_<<Contents, popped>>
=============================================================================
