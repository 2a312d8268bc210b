----------------------------- MODULE MainLoopMC -----------------------------
(* An instance of MainLoop for TLC: the calls may succeed, fail or hang.    *)
EXTENDS MainLoop

AnyOutcome == Outcomes
=============================================================================
