------------------------------ MODULE CdcRing -------------------------------
(***************************************************************************)
(* The output path of the virtual COM port: USB_Send_Data puts bytes into  *)
(* the ring APP_Rx_Buffer, the start-of-frame interrupt hands contiguous   *)
(* windows of it to the IN endpoint in packets, the FIFO-empty interrupt   *)
(* copies a window into the endpoint's FIFO and the transfer-complete      *)
(* interrupt asks for the next packet.                                     *)
(*                                                                         *)
(* This is one port: the build has SEPARATE_USB_BUF, so that the ring, its *)
(* indices and USB_Tx_State are in the port's own handle (pdev->buf), and  *)
(* of the other ports it meets only the frames, which are counted in one   *)
(* static FrameCount.                                                      *)
(*                                                                         *)
(* Bytes are written to the port that is USB_active[0], by the main loop   *)
(* (prnt, printInt, the echo of TCP commands) and by the USB interrupt of  *)
(* any port (the echo of the commands it parses): a write of the main loop *)
(* loads the index, stores the byte and stores the index, and interrupts   *)
(* run in between.                                                         *)
(***************************************************************************)
EXTENDS Naturals, Sequences

CONSTANTS
  Size,        \* APP_RX_DATA_SIZE
  Packet,      \* CDC_DATA_IN_PACKET_SIZE
  Interval,    \* CDC_IN_FRAME_INTERVAL
  Others,      \* TRUE: another port is on a bus too
  Writers,     \* which contexts call USB_Send_Data, within {"main", "isr"}
  Paced,       \* TRUE: writers never outrun the host
  LosesXfers,  \* TRUE: a bus reset or DeInit may end a transfer
  Bytes        \* the values of a byte

ASSUME SizeAssumption == Size \in Nat /\ Size > 1
ASSUME PacketAssumption == Packet \in Nat /\ Packet > 0
ASSUME IntervalAssumption == Interval \in Nat
ASSUME OptionsAssumption ==
  /\ Writers \subseteq {"main", "isr"}
  /\ {Others, Paced, LosesXfers} \subseteq BOOLEAN

VARIABLES
  buf,         \* APP_Rx_Buffer
  ptr_in,      \* APP_Rx_ptr_in
  ptr_out,     \* APP_Rx_ptr_out
  length,      \* APP_Rx_length
  Tx_State,    \* USB_Tx_State
  FrameCount,  \* of all ports together
  xfer,        \* the transfer the IN endpoint was given
  fifo,        \* the packet in the endpoint's FIFO
  wstage,      \* where a write of the main loop is
  wreg,        \* the index it loaded
  wbyte,       \* the byte it writes
  lost         \* history: a transfer ended without a completion

vars == <<buf, ptr_in, ptr_out, length, Tx_State, FrameCount, xfer, fifo,
          wstage, wreg, wbyte, lost>>

ring   == <<ptr_in, buf>>
reader == <<ptr_out, length, Tx_State, FrameCount, xfer, fifo, lost>>
writer == <<wstage, wreg, wbyte>>

XferStates == {"idle", "armed", "loaded"}
Idle == [st |-> "idle", ptr |-> 0, len |-> 0]

TypeOK ==
  /\ buf \in [0..Size-1 -> Bytes]
  /\ ptr_in \in 0..Size-1
  /\ ptr_out \in 0..Size
  /\ length \in 0..Size
  /\ Tx_State \in {0, 1}
  /\ FrameCount \in 0..Interval
  /\ xfer \in [st : XferStates, ptr : 0..Size, len : 0..Size]
  /\ fifo \in Seq(Bytes)
  /\ wstage \in {"idle", "put", "store"}
  /\ wreg \in 0..Size-1
  /\ wbyte \in Bytes
  /\ lost \in BOOLEAN

Init ==
  /\ \E b \in Bytes : buf = [i \in 0..Size-1 |-> b] /\ wbyte = b
  /\ ptr_in = 0
  /\ ptr_out = 0
  /\ length = 0
  /\ Tx_State = 0
  /\ FrameCount = 0
  /\ xfer = Idle
  /\ fifo = <<>>
  /\ wstage = "idle"
  /\ wreg = 0
  /\ lost = FALSE

-----------------------------------------------------------------------------
(* The bytes accepted and not yet in the FIFO: the window of a transfer    *)
(* that was armed, then the ring from ptr_out to ptr_in.                   *)
Window == [i \in 1..xfer.len |-> buf[xfer.ptr + i - 1]]

Buffered ==
  LET from == IF ptr_out = Size THEN 0 ELSE ptr_out
  IN  [i \in 1..(ptr_in + Size - from) % Size |-> buf[(from + i - 1) % Size]]

Pending == IF xfer.st = "armed" THEN Window \o Buffered ELSE Buffered

-----------------------------------------------------------------------------
(* USB_Send_Data, on a configured port whose terminal is open.  Nothing in *)
(* it compares ptr_in with ptr_out: whether there is room is up to the     *)
(* callers (Paced).                                                        *)
Room == Paced => Len(Pending) < Size - 1

After(i) == IF i + 1 = Size THEN 0 ELSE i + 1

MainLoad(b) ==
  /\ "main" \in Writers
  /\ wstage = "idle"
  /\ Room
  /\ wstage' = "put"
  /\ wreg' = ptr_in
  /\ wbyte' = b
  /\ UNCHANGED <<ring, reader>>

MainPut ==
  /\ wstage = "put"
  /\ wstage' = "store"
  /\ buf' = [buf EXCEPT ![wreg] = wbyte]
  /\ UNCHANGED <<ptr_in, wreg, wbyte, reader>>

MainStore ==
  /\ wstage = "store"
  /\ wstage' = "idle"
  /\ ptr_in' = After(wreg)
  /\ UNCHANGED <<buf, wreg, wbyte, reader>>

IsrSend(b) ==
  /\ "isr" \in Writers
  /\ Room
  /\ buf' = [buf EXCEPT ![ptr_in] = b]
  /\ ptr_in' = After(ptr_in)
  /\ UNCHANGED <<writer, reader>>

-----------------------------------------------------------------------------
(* DCD_EP_Tx of the next packet out of the len bytes at ptr: a whole packet*)
(* if there is more than one, all of it otherwise.                         *)
Give(ptr, len) ==
  LET n == IF len > Packet THEN Packet ELSE len
  IN  /\ xfer' = [st |-> "armed", ptr |-> ptr, len |-> n]
      /\ ptr_out' = ptr + n
      /\ length' = len - n

(* Mutant of Contiguous: the rollback is not cut at the end of the buffer. *)
ContiguousWhole(from) ==
  IF from > ptr_in THEN Size - from + ptr_in ELSE ptr_in - from

(* How many bytes can be sent from there without wrapping round. *)
Contiguous(from) == IF from > ptr_in THEN Size - from ELSE ptr_in - from

(* Mutant of Handle: if(USB_Tx_State != 1) is missing. *)
HandleAlways ==
  LET from == IF ptr_out = Size THEN 0 ELSE ptr_out IN
  \/ /\ from = ptr_in
     /\ Tx_State' = 0
     /\ ptr_out' = from
     /\ UNCHANGED <<length, xfer>>
  \/ /\ from # ptr_in
     /\ Tx_State' = 1
     /\ Give(from, Contiguous(from))

(* Handle_USBAsynchXfer *)
Handle ==
  LET from == IF ptr_out = Size THEN 0 ELSE ptr_out IN
  \/ /\ Tx_State = 1
     /\ UNCHANGED <<ptr_out, length, Tx_State, xfer>>
  \/ /\ Tx_State # 1
     /\ from = ptr_in
     /\ Tx_State' = 0
     /\ ptr_out' = from
     /\ UNCHANGED <<length, xfer>>
  \/ /\ Tx_State # 1
     /\ from # ptr_in
     /\ Tx_State' = 1
     /\ Give(from, Contiguous(from))

(* usbd_cdc_SOF of this port. *)
SOF ==
  /\ \/ /\ FrameCount = Interval
        /\ FrameCount' = 0
        /\ Handle
     \/ /\ FrameCount # Interval
        /\ FrameCount' = FrameCount + 1
        /\ UNCHANGED <<ptr_out, length, Tx_State, xfer>>
  /\ UNCHANGED <<ring, fifo, lost, writer>>

(* Of another port: it may be the one that finds the count full, and then  *)
(* Handle_USBAsynchXfer looks at that port's ring.                         *)
OtherSOF ==
  /\ Others
  /\ FrameCount' = IF FrameCount = Interval THEN 0 ELSE FrameCount + 1
  /\ UNCHANGED <<ring, ptr_out, length, Tx_State, xfer, fifo, lost, writer>>

(* DCD_WriteEmptyTxFifo: the window is copied only now. *)
WriteEmptyTxFifo ==
  /\ xfer.st = "armed"
  /\ fifo' = Window
  /\ xfer' = [xfer EXCEPT !.st = "loaded"]
  /\ UNCHANGED <<ring, ptr_out, length, Tx_State, FrameCount, lost, writer>>

(* Mutant of DataIn: USB_Tx_State is not cleared after the last packet. *)
DataInStaysBusy ==
  /\ xfer.st = "loaded"
  /\ fifo' = <<>>
  /\ \/ /\ length = 0 \/ Tx_State # 1
        /\ xfer' = Idle
        /\ UNCHANGED <<ptr_out, length, Tx_State>>
     \/ /\ Tx_State = 1
        /\ length # 0
        /\ Give(ptr_out, length)
        /\ UNCHANGED Tx_State
  /\ UNCHANGED <<ring, FrameCount, lost, writer>>

(* The host took the packet: usbd_cdc_DataIn. *)
DataIn ==
  /\ xfer.st = "loaded"
  /\ fifo' = <<>>
  /\ \/ /\ Tx_State # 1
        /\ xfer' = Idle
        /\ UNCHANGED <<ptr_out, length, Tx_State>>
     \/ /\ Tx_State = 1
        /\ length = 0
        /\ Tx_State' = 0
        /\ xfer' = Idle
        /\ UNCHANGED <<ptr_out, length>>
     \/ /\ Tx_State = 1
        /\ length # 0
        /\ Give(ptr_out, length)
        /\ UNCHANGED Tx_State
  /\ UNCHANGED <<ring, FrameCount, lost, writer>>

(* A bus reset, or the close of the endpoint in usbd_cdc_DeInit, ends the  *)
(* transfer without a completion; neither touches USB_Tx_State.            *)
XferLost ==
  /\ LosesXfers
  /\ xfer.st # "idle"
  /\ xfer' = Idle
  /\ fifo' = <<>>
  /\ lost' = TRUE
  /\ UNCHANGED <<ring, ptr_out, length, Tx_State, FrameCount, writer>>

Next ==
  \/ \E b \in Bytes : MainLoad(b)
  \/ MainPut
  \/ MainStore
  \/ \E b \in Bytes : IsrSend(b)
  \/ SOF \/ OtherSOF
  \/ WriteEmptyTxFifo
  \/ DataIn
  \/ XferLost

Spec == Init /\ [][Next]_vars

(* A bus that is not suspended has a frame every millisecond, the FIFO-    *)
(* empty interrupt stays pending until it is served, and a host that opened*)
(* the port polls its IN endpoint.                                         *)
FairSpec == Spec /\ WF_vars(SOF) /\ WF_vars(WriteEmptyTxFifo) /\ WF_vars(DataIn)

-----------------------------------------------------------------------------
(* Properties. *)

(* No transfer reads outside APP_Rx_Buffer, and none is empty: neither the *)
(* window the endpoint was given nor the rest of the contiguous piece that *)
(* DataIn will cut further packets from, wherever ptr_in has moved to in   *)
(* the meantime and however often the writers lap the reader.              *)
WindowInBuffer ==
  /\ ptr_out + length <= Size
  /\ xfer.st # "idle" =>
       /\ xfer.ptr + xfer.len <= Size
       /\ xfer.len \in 1..Packet

(* USB_Tx_State, which usbd_cdc_SOF and usbd_cdc_DataIn keep in step with  *)
(* an endpoint they never look at, is 1 exactly while it has a transfer,   *)
(* unless one was lost; and no rest of a contiguous piece is left behind   *)
(* when it is 0, where the next frame would forget it.                     *)
TxAgrees ==
  /\ xfer.st # "idle" => Tx_State = 1
  /\ Tx_State = 1 => xfer.st # "idle" \/ lost
  /\ Tx_State = 0 => length = 0

(* Once a transfer of the port was lost, its USB_Tx_State is 1 with nothing*)
(* to clear it: Handle_USBAsynchXfer starts no other one for this port,    *)
(* whatever is written, whatever frames come and however often the port is *)
(* configured again.  (The other ports have a USB_Tx_State of their own.)  *)
LostXferIsForever == [][lost => lost' /\ xfer'.st = "idle" /\ Tx_State' = 1]_vars

(* The path implements the byte stream.                                    *)
Stream == INSTANCE ByteStream WITH
  queue <- Pending, packet <- fifo, Capacity <- Size - 1, MaxPacket <- Packet
IsByteStream == Stream!FairSpec

(* Its safety: a byte for which USB_Send_Data returned USBD_OK is sent, in *)
(* its place among the others, and nothing else is.                        *)
LosesNoByte == Stream!Spec

=============================================================================
