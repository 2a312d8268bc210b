------------------------------ MODULE EthRings ------------------------------
(***************************************************************************)
(* Both descriptor rings of the Ethernet driver, as TLC checks them.  The  *)
(* main loop uses one at a time and the two processes of the DMA share no  *)
(* state, so a behaviour of both is one of each side by side: the initial  *)
(* states choose which of them is watched.                                 *)
(***************************************************************************)
EXTENDS EthRx, EthTx

VARIABLE watched   \* "rx" or "tx"

ringVars == <<rxVars, txVars, watched>>

RingsInit == RxInit /\ TxInit /\ watched \in {"rx", "tx"}

RingsNext ==
  \/ watched = "rx" /\ RxStep /\ UNCHANGED <<txVars, watched>>
  \/ watched = "tx" /\ TxStep /\ UNCHANGED <<rxVars, watched>>

(* The main loop goes on, and so does a DMA that is running; no frame has  *)
(* to arrive.                                                              *)
FairSpec ==
  /\ RingsInit /\ [][RingsNext]_ringVars
  /\ WF_rxVars(RxPoll)
  /\ WF_txVars(Transmit) /\ WF_txVars(TxDma)

(* A frame that takes one buffer, and one that takes three of the four.    *)
ShortAndLong == [f \in {"short", "long"} |-> IF f = "short" THEN 1 ELSE 3]

=============================================================================
