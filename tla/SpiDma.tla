------------------------------- MODULE SpiDma -------------------------------
(***************************************************************************)
(* write_SPI and its end-of-transmission flag.  A write waits, 50 ms at    *)
(* most, for the flag that the DMA interrupt sets, and then claims the     *)
(* transmitter by clearing it.  LocalTime is a 32-bit counter advanced by  *)
(* the SysTick interrupt; the deadline is computed modulo its range.       *)
(***************************************************************************)
EXTENDS Naturals

CONSTANTS
  Timeout,   \* 50
  Word       \* 2^32

ASSUME RangeAssumption ==
  Timeout \in Nat \ {0} /\ Word \in Nat /\ Timeout < Word

VARIABLES
  SPI_EOT_FLAG,
  LocalTime,
  tend,
  pc,         \* "idle", or "wait": in the loop of write_SPI
  returned    \* what the last write_SPI returned, "none" before the first

vars == <<SPI_EOT_FLAG, LocalTime, tend, pc, returned>>

TypeOK ==
  /\ SPI_EOT_FLAG \in {0, 1}
  /\ LocalTime \in 0..Word-1
  /\ tend \in 0..Word-1
  /\ pc \in {"idle", "wait"}
  /\ returned \in {"none", "refused", "accepted"}

Init ==
  /\ SPI_EOT_FLAG = 1
  /\ LocalTime = 0
  /\ tend = 0
  /\ pc = "idle"
  /\ returned = "none"

Ticked(t) == (t + 1) % Word

SysTick ==
  /\ LocalTime' = Ticked(LocalTime)
  /\ UNCHANGED <<SPI_EOT_FLAG, tend, pc, returned>>

(* Transfer complete.  SPI_Config never enables this interrupt of the      *)
(* stream; it is let happen at any moment all the same.                    *)
SPIx_DMA_TX_IRQHandler ==
  /\ SPI_EOT_FLAG' = 1
  /\ UNCHANGED <<LocalTime, tend, pc, returned>>

Call ==
  /\ pc = "idle"
  /\ tend' = (LocalTime + Timeout) % Word
  /\ pc' = "wait"
  /\ UNCHANGED <<SPI_EOT_FLAG, LocalTime, returned>>

Waits == SPI_EOT_FLAG = 0 /\ LocalTime < tend

(* The test behind the loop, as it is written. *)
Leave ==
  /\ pc = "wait"
  /\ ~Waits
  /\ pc' = "idle"
  /\ IF SPI_EOT_FLAG = 1
       THEN returned' = "refused" /\ UNCHANGED SPI_EOT_FLAG
       ELSE returned' = "accepted" /\ SPI_EOT_FLAG' = 0
  /\ UNCHANGED <<LocalTime, tend>>

Next == SysTick \/ SPIx_DMA_TX_IRQHandler \/ Call \/ Leave

Spec == Init /\ [][Next]_vars

-----------------------------------------------------------------------------
(* Properties. *)

(* What the comments on write_SPI say: it waits for the end of the previous*)
(* transmission, returns 1 in case of success, and 0 in case of error: it  *)
(* accepts a write if the transmission has ended, and refuses it if not.   *)
(* The code does the contrary.                                             *)
WriteReturnsAsDocumented ==
  [][pc = "wait" /\ pc' = "idle" =>
       (returned' = "accepted" <=> SPI_EOT_FLAG = 1)]_vars

=============================================================================
