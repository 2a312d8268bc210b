----------------------------- MODULE ByteStream -----------------------------
(***************************************************************************)
(* What the USB output path promises its callers: the bytes that           *)
(* USB_Send_Data accepted reach the host in order, each exactly once, in   *)
(* packets of at most MaxPacket bytes, none empty.                         *)
(***************************************************************************)
EXTENDS Naturals, Sequences

CONSTANTS Bytes, Capacity, MaxPacket

VARIABLES
  queue,   \* bytes accepted and not yet part of a packet
  packet   \* the packet the host is about to take, or <<>>

vars == <<queue, packet>>

Init == queue = <<>> /\ packet = <<>>

Accept(b) ==
  /\ Len(queue) < Capacity
  /\ queue' = Append(queue, b)
  /\ UNCHANGED packet

Emit ==
  /\ packet = <<>>
  /\ \E n \in 1..MaxPacket :
       /\ n <= Len(queue)
       /\ packet' = SubSeq(queue, 1, n)
       /\ queue' = SubSeq(queue, n + 1, Len(queue))

Take ==
  /\ packet # <<>>
  /\ packet' = <<>>
  /\ UNCHANGED queue

Next == (\E b \in Bytes : Accept(b)) \/ Emit \/ Take

Spec == Init /\ [][Next]_vars

(* Nothing that was accepted stays behind. *)
FairSpec == Spec /\ WF_vars(Emit) /\ WF_vars(Take)
=============================================================================
