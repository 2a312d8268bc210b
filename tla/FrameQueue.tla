----------------------------- MODULE FrameQueue -----------------------------
(***************************************************************************)
(* What a ring of Ethernet DMA descriptors promises: a bounded queue that  *)
(* frames leave in the order in which they came.  Receiving, frames may be *)
(* dropped for want of memory, but only the oldest; sending, a frame that  *)
(* finds the queue full spoils the oldest one, and no other.               *)
(***************************************************************************)
EXTENDS Naturals, Sequences

CONSTANTS
  Items,
  Fragile,   \* the items that may leave as Torn
  Torn,
  Cap

VARIABLES queue, last
vars == <<queue, last>>

Init == queue = <<>> /\ last = Torn

Put(x) ==
  /\ Len(queue) < Cap
  /\ queue' = Append(queue, x)
  /\ UNCHANGED last

Take ==
  /\ queue # <<>>
  /\ queue' = Tail(queue)
  /\ last' = Head(queue) \/ (Head(queue) \in Fragile /\ last' = Torn)

Drop ==
  /\ queue # <<>>
  /\ queue' = Tail(queue)
  /\ UNCHANGED last

Replace(x) ==
  /\ Len(queue) = Cap
  /\ queue' = [queue EXCEPT ![1] = x]
  /\ UNCHANGED last

RxNext == (\E x \in Items : Put(x)) \/ Take \/ Drop
TxNext == (\E x \in Items : Put(x) \/ Replace(x)) \/ Take \/ Replace(Torn)

RxSpec == Init /\ [][RxNext]_vars
TxSpec == Init /\ [][TxNext]_vars

=============================================================================
