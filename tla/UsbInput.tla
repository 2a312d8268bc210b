------------------------------ MODULE UsbInput ------------------------------
(***************************************************************************)
(* Commands that come over USB.  The OUT endpoint of a port receives into  *)
(* the USB_Rx_Buffer of its handle.  A packet is copied there in one pass  *)
(* of the interrupt handler (DCD_HandleRxStatusQueueLevel_ISR) and parsed  *)
(* in a later one (usbd_cdc_DataOut); in between the port may be suspended *)
(* or lose its configuration.  The endpoint takes the next packet when it  *)
(* is armed again.                                                         *)
(***************************************************************************)
EXTENDS Naturals, Sequences

CONSTANTS
  InPorts,
  Chars,     \* what commands are made of
  Longest    \* CDC_DATA_OUT_PACKET_SIZE

ASSUME LongestAssumption == Longest \in Nat

VARIABLES
  USB_Rx_Buffer, \* per port, with what is left of longer packets
  inStatus,    \* device_status of the port
  armed,       \* the OUT endpoint takes a packet
  xfer_pending,\* a packet was copied, its end is not handled
  inCount,     \* its length: out_ep.xfer_count
  inSent,      \* what the host of the port sent
  missed       \* history: the end came while the port was suspended

inputVars == <<USB_Rx_Buffer, inStatus, armed, xfer_pending, inCount, inSent,
               missed>>

Packets == UNION {[1..n -> Chars] : n \in 0..Longest}

InputTypeOK ==
  /\ USB_Rx_Buffer \in [InPorts -> [1..Longest -> Chars]]
  /\ inStatus \in [InPorts -> {"ADDRESSED", "CONFIGURED", "SUSPENDED"}]
  /\ armed \in [InPorts -> BOOLEAN]
  /\ xfer_pending \in [InPorts -> BOOLEAN]
  /\ inCount \in [InPorts -> 0..Longest]
  /\ inSent \in [InPorts -> Packets]
  /\ missed \in [InPorts -> BOOLEAN]

InputInit ==
  /\ \E c \in Chars :
       USB_Rx_Buffer = [p \in InPorts |-> [i \in 1..Longest |-> c]]
  /\ inStatus = [p \in InPorts |-> "ADDRESSED"]
  /\ armed = [p \in InPorts |-> FALSE]
  /\ xfer_pending = [p \in InPorts |-> FALSE]
  /\ inCount = [p \in InPorts |-> 0]
  /\ inSent = [p \in InPorts |-> <<>>]
  /\ missed = [p \in InPorts |-> FALSE]

-----------------------------------------------------------------------------
(* usbd_cdc_Init prepares the endpoint, when the host configures the port. *)
Configure(p) ==
  /\ inStatus[p] = "ADDRESSED"
  /\ inStatus' = [inStatus EXCEPT ![p] = "CONFIGURED"]
  /\ armed' = [armed EXCEPT ![p] = TRUE]
  /\ missed' = [missed EXCEPT ![p] = FALSE]
  /\ UNCHANGED <<USB_Rx_Buffer, xfer_pending, inCount, inSent>>

(* A reset, or usbd_cdc_DeInit, closes it with the packet that it held.    *)
Deconfigure(p) ==
  /\ inStatus[p] # "ADDRESSED"
  /\ inStatus' = [inStatus EXCEPT ![p] = "ADDRESSED"]
  /\ armed' = [armed EXCEPT ![p] = FALSE]
  /\ xfer_pending' = [xfer_pending EXCEPT ![p] = FALSE]
  /\ inSent' = [inSent EXCEPT ![p] = <<>>]
  /\ inCount' = [inCount EXCEPT ![p] = 0]
  /\ UNCHANGED <<USB_Rx_Buffer, missed>>

SuspendInput(p) ==
  /\ inStatus[p] = "CONFIGURED"
  /\ inStatus' = [inStatus EXCEPT ![p] = "SUSPENDED"]
  /\ UNCHANGED <<USB_Rx_Buffer, armed, xfer_pending, inCount, inSent, missed>>

ResumeInput(p) ==
  /\ inStatus[p] = "SUSPENDED"
  /\ inStatus' = [inStatus EXCEPT ![p] = "CONFIGURED"]
  /\ UNCHANGED <<USB_Rx_Buffer, armed, xfer_pending, inCount, inSent, missed>>

(* DCD_HandleRxStatusQueueLevel_ISR; the host of a suspended port is still.*)
RxStored(p, x) ==
  /\ inStatus[p] = "CONFIGURED"
  /\ armed[p]
  /\ armed' = [armed EXCEPT ![p] = FALSE]
  /\ USB_Rx_Buffer' = [USB_Rx_Buffer EXCEPT ![p] =
                         [i \in 1..Longest |->
                            IF i <= Len(x) THEN x[i] ELSE USB_Rx_Buffer[p][i]]]
  /\ inCount' = [inCount EXCEPT ![p] = Len(x)]
  /\ inSent' = [inSent EXCEPT ![p] = x]
  /\ xfer_pending' = [xfer_pending EXCEPT ![p] = TRUE]
  /\ UNCHANGED <<inStatus, missed>>

(* Mutant of Given: a packet is taken to be of full length. *)
GivenFull(p) == USB_Rx_Buffer[p]

(* What usbd_cdc_DataOut hands to VCP_DataRx, to be parsed. *)
Given(p) == SubSeq(USB_Rx_Buffer[p], 1, inCount[p])

(* Mutant of Rearmed: DCD_EP_PrepareRx is missing. *)
RearmedNot(p) == armed

Rearmed(p) == [armed EXCEPT ![p] = TRUE]

(* USBD_DataOutStage and usbd_cdc_DataOut: Given(p) is parsed.  A port that *)
(* is not configured is passed over, and its endpoint not armed again.     *)
DataOut(p) ==
  /\ xfer_pending[p]
  /\ xfer_pending' = [xfer_pending EXCEPT ![p] = FALSE]
  /\ \/ /\ inStatus[p] = "CONFIGURED"
        /\ armed' = Rearmed(p)
        /\ UNCHANGED missed
     \/ /\ inStatus[p] # "CONFIGURED"
        /\ missed' = [missed EXCEPT ![p] = TRUE]
        /\ UNCHANGED armed
  /\ UNCHANGED <<USB_Rx_Buffer, inStatus, inCount, inSent>>

InputNext == \E p \in InPorts :
  \/ Configure(p) \/ Deconfigure(p) \/ SuspendInput(p) \/ ResumeInput(p)
  \/ \E x \in Packets : RxStored(p, x)
  \/ DataOut(p)

InputSpec == InputInit /\ [][InputNext]_inputVars

-----------------------------------------------------------------------------
(* Properties. *)

(* The commands that are carried out for a packet are those of the packet, *)
(* whatever is left in the buffer of longer ones before it; and the next   *)
(* packet is not let in, to be copied over this one, before it is parsed:  *)
(* through suspends, resumes and new configurations in between.            *)
OwnCommands ==
  \A p \in InPorts : xfer_pending[p] => Given(p) = inSent[p] /\ ~armed[p]

(* A configured port does not go deaf: its endpoint is armed or will be    *)
(* when the packet it holds is parsed.  The one way to lose it is a        *)
(* suspend between the two passes.                                         *)
NotDeaf ==
  \A p \in InPorts :
    inStatus[p] = "CONFIGURED" => armed[p] \/ xfer_pending[p] \/ missed[p]

=============================================================================
