------------------------------ MODULE TimersMC ------------------------------
(* An instance of Timers for TLC, with one of the timers of lwIP: they do   *)
(* not look at each other.                                                  *)
EXTENDS Timers

EachFour == [t \in {"tcp"} |-> 4]
=============================================================================
