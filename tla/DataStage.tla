----------------------------- MODULE DataStage -----------------------------
(***************************************************************************)
(* A control transfer from the device to its host: USBD_GetDescriptor, and *)
(* the packets of the data stage of endpoint 0.  The device counts what is *)
(* left in rem_data_len and the core sends one packet at a time; the host  *)
(* knows only wLength and the length of each packet.  Both have to see the *)
(* same packet as the last one, or one of them waits for ever.             *)
(***************************************************************************)
EXTENDS Integers

CONSTANTS
  MaxPacket,   \* USB_OTG_MAX_EP0_SIZE: 64
  DeviceDescriptor, \* the length of the device descriptor: 18
  Descriptors, \* the lengths of the other ones
  FirstBytes,  \* what a host without an address gets of the first: 8
  FirstWish,   \* and one that asks for so much of it: 64
  Wishes       \* the wLength of the hosts; 0 has no data stage

ASSUME PacketAssumption ==
  /\ MaxPacket \in Nat \ {0}
  /\ Descriptors \subseteq Nat \ {0}
  /\ {DeviceDescriptor, FirstBytes} \subseteq Nat \ {0}
  /\ Wishes \subseteq Nat \ {0}

VARIABLES
  device_state,
  total_data_len, rem_data_len, ctl_data_len,
  xfer_len, xfer_count,
  xfer_buff,   \* the offset of the pointer in the descriptor
  epena,       \* the core has a packet to send
  fifo,        \* where its data begin in the descriptor, None if not loaded
  xfercompl,   \* the interrupt
  asks,        \* the host: what it waits for
  wLength,     \* how much it asked for
  offered,     \* history: how much there is for it, as Described
  received,    \* how many bytes it has got
  inOrder      \* history: each byte was the next of the descriptor

None == -1

device == <<device_state, total_data_len, rem_data_len, ctl_data_len, xfer_len,
            xfer_count, xfer_buff>>
hostSide == <<asks, wLength, offered, received, inOrder>>
stageVars == <<device, epena, fifo, xfercompl, hostSide>>

StageTypeOK ==
  /\ device_state \in {"IDLE", "DATA_IN", "STATUS_OUT"}
  /\ {total_data_len, rem_data_len, ctl_data_len, xfer_len, xfer_count,
      xfer_buff, wLength, offered, received} \subseteq Nat
  /\ epena \in BOOLEAN
  /\ fifo \in Nat \union {None}
  /\ xfercompl \in BOOLEAN
  /\ asks \in {"nothing", "data", "status"}
  /\ inOrder \in BOOLEAN

StageInit ==
  /\ device_state = "IDLE"
  /\ total_data_len = 0 /\ rem_data_len = 0 /\ ctl_data_len = 0
  /\ xfer_len = 0 /\ xfer_count = 0 /\ xfer_buff = 0
  /\ epena = FALSE /\ fifo = None /\ xfercompl = FALSE
  /\ asks = "nothing" /\ wLength = 0 /\ offered = 0 /\ received = 0
  /\ inOrder = TRUE

-----------------------------------------------------------------------------
MIN(a, b) == IF a < b THEN a ELSE b

(* DCD_EP_Tx and USB_OTG_EP0StartXfer: one packet of at most MaxPacket.    *)
EP_Tx(from, len) ==
  /\ xfer_buff' = from
  /\ xfer_count' = 0
  /\ xfer_len' = MIN(len, MaxPacket)
  /\ epena' = TRUE
  /\ fifo' = None

(* The length of what is sent of the device descriptor: a host that is     *)
(* still in DEFAULT status, or asks for 64 bytes, only wants to know the   *)
(* size of the packets, in the first 8 bytes.                              *)
Described(wish, inDefault) ==
  IF wish = FirstWish \/ inDefault THEN FirstBytes ELSE DeviceDescriptor

(* len = MIN(len, req->wLength) *)
Answered(len, wish) == MIN(len, wish)

(* The rest of a SETUP packet whose descriptor is there: the first packet  *)
(* of USBD_CtlSendData.                                                    *)
SendDescriptor(len, wish) ==
  /\ asks = "nothing"
  /\ asks' = "data" /\ wLength' = wish /\ offered' = len
  /\ received' = 0 /\ inOrder' = TRUE
  /\ ctl_data_len' = wish
  /\ total_data_len' = Answered(len, wish)
  /\ rem_data_len' = Answered(len, wish)
  /\ device_state' = "DATA_IN"
  /\ EP_Tx(0, Answered(len, wish))
  /\ UNCHANGED xfercompl

(* The SETUP packet: USBD_ParseSetupRequest, USBD_GetDescriptor.  (One for *)
(* a descriptor that the device does not have is refused, USBD_CtlError,   *)
(* and has no data stage.)                                                 *)
GetDescriptor(wish) ==
  \/ \E inDefault \in BOOLEAN :
       SendDescriptor(Described(wish, inDefault), wish)
  \/ \E len \in Descriptors : SendDescriptor(len, wish)

(* DCD_WriteEmptyTxFifo: the packet goes into the FIFO and moves xfer_buff.*)
WriteEmptyTxFifo ==
  /\ epena
  /\ xfer_count < xfer_len
  /\ fifo' = xfer_buff
  /\ xfer_buff' = xfer_buff + (xfer_len - xfer_count)
  /\ xfer_count' = xfer_len
  /\ UNCHANGED <<device_state, total_data_len, rem_data_len, ctl_data_len,
                 xfer_len, epena, xfercompl, hostSide>>

(* The host fetches a packet whose data are complete.  Its data stage ends *)
(* with a packet that is not full, or with the last byte it asked for.     *)
HostIn ==
  /\ asks = "data"
  /\ epena
  /\ xfer_count = xfer_len
  /\ inOrder' = (inOrder /\ (xfer_len > 0 => fifo = received))
  /\ received' = received + xfer_len
  /\ asks' = IF xfer_len < MaxPacket \/ received' = wLength
               THEN "status" ELSE "data"
  /\ epena' = FALSE
  /\ fifo' = None
  /\ xfercompl' = TRUE
  /\ UNCHANGED <<device, wLength, offered>>

MoreToSend == rem_data_len > MaxPacket

(* Mutant of EmptyPacketDue: a full last packet is never followed by an    *)
(* empty one.                                                              *)
EmptyPacketNever == FALSE

(* "last packet is MPS multiple, so send ZLP packet": if the host asked    *)
(* for more.                                                               *)
EmptyPacketDue ==
  /\ total_data_len % MaxPacket = 0
  /\ total_data_len >= MaxPacket
  /\ total_data_len < ctl_data_len

(* Mutant of EmptyPacketSent: ctl_data_len = 0 is missing. *)
EmptyPacketSentOn == EP_Tx(0, 0) /\ UNCHANGED ctl_data_len

EmptyPacketSent == EP_Tx(0, 0) /\ ctl_data_len' = 0

(* USBD_DataInStage on endpoint 0 *)
DataInStage ==
  /\ xfercompl
  /\ xfercompl' = FALSE
  /\ device_state = "DATA_IN"
  /\ \/ /\ MoreToSend
        /\ rem_data_len' = rem_data_len - MaxPacket
        /\ EP_Tx(xfer_buff, rem_data_len')
        /\ UNCHANGED <<device_state, ctl_data_len>>
     \/ /\ ~MoreToSend /\ EmptyPacketDue
        /\ EmptyPacketSent
        /\ UNCHANGED <<device_state, rem_data_len>>
     \/ /\ ~MoreToSend /\ ~EmptyPacketDue
        /\ device_state' = "STATUS_OUT"   \* USBD_CtlReceiveStatus
        /\ UNCHANGED <<rem_data_len, ctl_data_len, xfer_len, xfer_count,
                       xfer_buff, epena, fifo>>
  /\ UNCHANGED <<total_data_len, hostSide>>

(* The host's empty packet, which a device that is not ready refuses.      *)
HostStatus ==
  /\ asks = "status"
  /\ device_state = "STATUS_OUT"
  /\ asks' = "nothing"
  /\ UNCHANGED <<device, epena, fifo, xfercompl, wLength, offered, received,
                 inOrder>>

StageStep == WriteEmptyTxFifo \/ HostIn \/ DataInStage \/ HostStatus

StageNext ==
  \/ \E wish \in Wishes : GetDescriptor(wish)
  \/ StageStep

StageSpec == StageInit /\ [][StageNext]_stageVars

-----------------------------------------------------------------------------
(* Properties. *)

(* The host gets what there is for it up to what it asked for, nothing     *)
(* twice and nothing left out: the descriptor, or the first bytes of the   *)
(* device descriptor (Described).  And whoever sees the end of the data    *)
(* stage first, the other one does not contradict: the device waits for    *)
(* the status only when the host is done, and has no packet left for a     *)
(* host that is.                                                           *)
WholeAnswer ==
  /\ asks = "status" => inOrder /\ received = MIN(offered, wLength) /\ ~epena
  /\ device_state = "STATUS_OUT" => asks # "data"

(* A transfer that was begun is finished, whatever the lengths. *)
TransferEnds == asks # "nothing" ~> asks = "nothing"

=============================================================================
