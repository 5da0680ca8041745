----------------------------- MODULE SPSCRingBuffer -----------------------------
(***************************************************************************)
(* The lock-free ring buffer of src/common/ring_buffer.hpp, between one    *)
(* producer and one consumer thread.  The threads interleave at every      *)
(* access to shared memory; each of them knows its own index exactly.      *)
(*                                                                         *)
(* The other thread's index is read with an acquire load, which need not   *)
(* return the newest value: it returns any value stored since the one it   *)
(* returned last (TailValues, HeadValues).  What was written before the    *)
(* release store of a value is visible to who has read that value, so the  *)
(* slots are ordinary memory as long as no two accesses to one overlap.    *)
(***************************************************************************)
EXTENDS Integers

CONSTANTS Items, RingCapacity,
          NoItem   \* a slot without a value: uninitialized, or moved from

ASSUME RingAssumption == RingCapacity \in Nat \ {0} /\ NoItem \notin Items

VARIABLES buf,        \* buf_
          head,       \* head_, stored by the producer
          tail,       \* tail_, stored by the consumer
          tail_seen,  \* the tail the producer read last
          head_seen,  \* the head the consumer read last
          ppc, cpc,   \* where try_push and try_pop are
          item,       \* try_push's argument
          out         \* try_pop's

producerVars == <<tail_seen, ppc, item>>
consumerVars == <<head_seen, cpc, out>>
ringVars == <<buf, head, tail, tail_seen, head_seen, ppc, cpc, item, out>>

Slots == 0 .. RingCapacity - 1

\* & mask_, for a capacity that is a power of two
Wrap(i) == i % RingCapacity

\* the slots from index i, included, to index j, excluded
Distance(i, j) == Wrap(j - i)

RingInit ==
  /\ buf = [i \in Slots |-> NoItem]
  /\ head = 0 /\ tail = 0
  /\ tail_seen = 0 /\ head_seen = 0
  /\ ppc = "idle" /\ cpc = "idle"
  /\ item = NoItem /\ out = NoItem

\* what an acquire load of tail_ may give the producer, one of head_ the consumer
TailValues == {Wrap(tail_seen + k) : k \in 0 .. Distance(tail_seen, tail)}
HeadValues == {Wrap(head_seen + k) : k \in 0 .. Distance(head_seen, head)}
-----------------------------------------------------------------------------
(* The producer.                                                           *)

\* mutant: the mask is forgotten in the check for a full buffer
FullUnmasked(t) == head + 1 = t
Full(t) == Wrap(head + 1) = t

\* try_push is called; it goes on unless it sees a full buffer
TryPush(x) ==
  /\ ppc = "idle"
  /\ \E t \in TailValues :
       /\ tail_seen' = t
       /\ \/ Full(t) /\ UNCHANGED <<ppc, item>>   \* returns false
          \/ ~Full(t) /\ ppc' = "write" /\ item' = x
  /\ UNCHANGED <<buf, head, tail, consumerVars>>

WriteSlot ==
  /\ ppc = "write"
  /\ ppc' = "publish"
  /\ buf' = [buf EXCEPT ![head] = item]
  /\ UNCHANGED <<head, tail, tail_seen, item, consumerVars>>

\* mutant: the mask is forgotten in the store
PublishHeadUnmasked ==
  /\ ppc = "publish"
  /\ ppc' = "idle"
  /\ head' = head + 1
  /\ UNCHANGED <<buf, tail, tail_seen, item, consumerVars>>

PublishHead ==
  /\ ppc = "publish"
  /\ ppc' = "idle"
  /\ head' = Wrap(head + 1)
  /\ UNCHANGED <<buf, tail, tail_seen, item, consumerVars>>
-----------------------------------------------------------------------------
(* The consumer.                                                           *)

\* try_pop is called; it goes on unless it sees an empty buffer
TryPop ==
  /\ cpc = "idle"
  /\ \E h \in HeadValues :
       /\ head_seen' = h
       /\ cpc' = IF tail = h THEN "idle" ELSE "read"
  /\ UNCHANGED <<buf, head, tail, out, producerVars>>

\* the move leaves nothing that may be read again
ReadSlot ==
  /\ cpc = "read"
  /\ cpc' = "release"
  /\ out' = buf[tail]
  /\ buf' = [buf EXCEPT ![tail] = NoItem]
  /\ UNCHANGED <<head, tail, head_seen, producerVars>>

ReleaseTail ==
  /\ cpc = "release"
  /\ cpc' = "idle"
  /\ tail' = Wrap(tail + 1)
  /\ UNCHANGED <<buf, head, head_seen, out, producerVars>>
-----------------------------------------------------------------------------
Producer == WriteSlot \/ PublishHead \/ \E x \in Items : TryPush(x)
Consumer == TryPop \/ ReadSlot \/ ReleaseTail

RingNext == Producer \/ Consumer

RingSpec == RingInit /\ [][RingNext]_ringVars
-----------------------------------------------------------------------------
(* Properties.                                                             *)

\* Indices stay inside the array, and every slot holds an item or nothing.
RingTypeOK ==
  /\ buf \in [Slots -> Items \cup {NoItem}]
  /\ {head, tail, tail_seen, head_seen} \subseteq Slots
  /\ ppc \in {"idle", "write", "publish"} /\ cpc \in {"idle", "read", "release"}
  /\ {item, out} \subseteq Items \cup {NoItem}

\* The two threads never access one slot at the same time, however late each
\* of them learns of the other's progress (docs/architecture.md:57).
NoDataRace == ~(ppc = "write" /\ cpc = "read" /\ head = tail)

\* size() asks for both indices.  Called by the producer it never returns too
\* little, called by the consumer never too much, whatever the loads return;
\* so empty() is right when the consumer hears "no", or the producer "yes".
SizeIsSafe ==
  /\ \A t \in TailValues : Distance(t, head) >= Distance(tail, head)
  /\ \A h \in HeadValues : Distance(tail, h) <= Distance(tail, head)

\* The items from the tail on; the one the consumer has just taken is gone.
FirstSlot == IF cpc = "release" THEN Wrap(tail + 1) ELSE tail
Queue == [i \in 1 .. Distance(FirstSlot, head) |-> buf[Wrap(FirstSlot + i - 1)]]

Fifo == INSTANCE BoundedFifo WITH Length <- RingCapacity - 1, queue <- Queue

\* The ring buffer is a first-in first-out queue: nothing is lost, repeated,
\* reordered or read before it was written.  It holds one item less than
\* capacity() says, since head = tail means empty.
ImplementsFifo == Fifo!Spec
=============================================================================
