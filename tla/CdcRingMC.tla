----------------------------- MODULE CdcRingMC ------------------------------
(* Instances of CdcRing for TLC. *)
EXTENDS CdcRing

MainOnly == {"main"}
MainAndIsr == {"main", "isr"}
=============================================================================
