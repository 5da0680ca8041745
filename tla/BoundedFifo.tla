------------------------------ MODULE BoundedFifo ------------------------------
(***************************************************************************)
(* What SPSCRingBuffer promises its two threads: a queue of bounded length *)
(* that gives every item out once, in the order they went in.  An attempt  *)
(* that fails leaves no trace.                                             *)
(***************************************************************************)
EXTENDS Naturals, Sequences

CONSTANTS Items, Length,
          NoItem   \* what the consumer's variable holds before the first pop

VARIABLES queue,
          out      \* the item popped last

vars == <<queue, out>>

Init == queue = << >> /\ out = NoItem

Put(item) == Len(queue) < Length /\ queue' = Append(queue, item) /\ out' = out

Get == queue # << >> /\ out' = Head(queue) /\ queue' = Tail(queue)

Next == Get \/ \E item \in Items : Put(item)

Spec == Init /\ [][Next]_vars
=============================================================================
