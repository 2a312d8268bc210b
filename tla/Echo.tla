-------------------------------- MODULE Echo --------------------------------
(***************************************************************************)
(* What the TCP server promises a client: every byte that it sent comes    *)
(* back, once and in order, and the server closes the connection after the *)
(* client did, but not before the last byte went back.  A connection may   *)
(* be reset at any time.  What it does not promise: when TCP refuses the   *)
(* close the server does not try again, and the client waits (left).       *)
(***************************************************************************)
EXTENDS Naturals, Sequences

CONSTANTS Bytes, Burst   \* Burst: the most that arrives at a time

VARIABLES
  phase,   \* "none", "open", "fin" (the client closed), "closed" (both
           \* did), "left" (the server's close was refused)
  owed,    \* received and not yet sent back
  back     \* sent back and not yet acknowledged

vars == <<phase, owed, back>>

Ended == {"closed", "left"}

Init == phase = "none" /\ owed = <<>> /\ back = <<>>

Connect == phase = "none" /\ phase' = "open" /\ UNCHANGED <<owed, back>>

Receive(s) ==
  /\ phase = "open"
  /\ owed' = owed \o s
  /\ UNCHANGED <<phase, back>>

Reply ==
  /\ owed # <<>>
  /\ back' = Append(back, Head(owed))
  /\ owed' = Tail(owed)
  /\ UNCHANGED phase

Acknowledge ==
  /\ back # <<>>
  /\ \E n \in 1..Len(back) : back' = SubSeq(back, n + 1, Len(back))
  /\ \/ UNCHANGED phase
     \/ phase = "fin" /\ owed = <<>> /\ phase' \in Ended
  /\ UNCHANGED owed

(* The server closes too, at once if it owes nothing. *)
ClientCloses ==
  /\ phase = "open"
  /\ IF owed = <<>> THEN phase' \in Ended ELSE phase' = "fin"
  /\ UNCHANGED <<owed, back>>

Close ==
  /\ phase = "fin"
  /\ owed = <<>>
  /\ phase' \in Ended
  /\ UNCHANGED <<owed, back>>

Over ==
  /\ phase # "none"
  /\ phase' = "none"
  /\ owed' = <<>>
  /\ back' = <<>>

Next ==
  \/ Connect \/ Reply \/ Acknowledge \/ ClientCloses \/ Close \/ Over
  \/ \E n \in 1..Burst : \E s \in [1..n -> Bytes] : Receive(s)

SafeSpec == Init /\ [][Next]_vars

(* Nothing that was received stays behind on a connection that lives, and  *)
(* no client waits for the close.                                          *)
Spec == SafeSpec /\ WF_vars(Reply) /\ WF_vars(Close)
=============================================================================
