--------------------------- MODULE CdcRingProofs ----------------------------
(***************************************************************************)
(* Proofs about CdcRing, for every size of the ring and every packet size: *)
(* what holds with writers in both contexts, no pacing, lost transfers and *)
(* frames of other ports, and that without the first three no byte is lost.*)
(***************************************************************************)
EXTENDS CdcRing, SequenceTheorems, TLAPS

(* The part of TypeOK that the pointer arithmetic needs.                   *)
Typed ==
  /\ ptr_in \in 0..Size-1
  /\ wreg \in 0..Size-1
  /\ ptr_out \in 0..Size
  /\ length \in 0..Size
  /\ Tx_State \in {0, 1}
  /\ xfer \in [st : XferStates, ptr : 0..Size, len : 0..Size]

(* A packet is cut only when the last one is complete: length is 0 while   *)
(* USB_Tx_State is, so that Handle_USBAsynchXfer never meets a rest.       *)
IInv == Typed /\ WindowInBuffer /\ TxAgrees

-----------------------------------------------------------------------------
(* The index after a store is again an index of the buffer.                *)
LEMMA AfterInBuffer ==
  ASSUME NEW i \in 0..Size-1
  PROVE  After(i) \in 0..Size-1
BY SizeAssumption DEF SizeAssumption, After

(* The contiguous piece from an index is not empty, unless the ring is, and*)
(* ends within the buffer.                                                 *)
LEMMA ContiguousFits ==
  ASSUME ptr_in \in 0..Size-1, NEW from \in 0..Size-1, from # ptr_in
  PROVE  /\ Contiguous(from) \in 1..Size
         /\ from + Contiguous(from) <= Size
BY SizeAssumption DEF SizeAssumption, Contiguous

(* Cutting a packet off a piece that lies in the buffer leaves a packet and*)
(* a rest that both do.                                                    *)
LEMMA GiveKeepsWindows ==
  ASSUME Typed, NEW ptr \in 0..Size, NEW len \in 1..Size, ptr + len <= Size,
         Give(ptr, len), UNCHANGED lost,
         Tx_State' = 1, ptr_in' \in 0..Size-1, wreg' \in 0..Size-1
  PROVE  IInv'
<1> DEFINE n == IF len > Packet THEN Packet ELSE len
<1>1. n \in 1..Packet /\ n <= len /\ n \in 0..Size
  BY SizeAssumption, PacketAssumption DEF SizeAssumption, PacketAssumption
<1>2. /\ xfer' = [st |-> "armed", ptr |-> ptr, len |-> n]
      /\ ptr_out' = ptr + n
      /\ length' = len - n
  BY DEF Give
<1> HIDE DEF n
<1>3. Typed'
  <2>1. ptr_out' \in 0..Size /\ length' \in 0..Size
    BY <1>1, <1>2, SizeAssumption DEF SizeAssumption
  <2>2. xfer' \in [st : XferStates, ptr : 0..Size, len : 0..Size]
    BY <1>1, <1>2 DEF XferStates
  <2>3. QED
    BY <2>1, <2>2 DEF Typed
<1>4. WindowInBuffer'
  <2>1. ptr_out' + length' <= Size
    BY <1>1, <1>2, SizeAssumption DEF SizeAssumption
  <2>2. ptr + n <= Size
    BY <1>1, SizeAssumption, PacketAssumption DEF SizeAssumption, PacketAssumption
  <2>3. QED
    BY <1>1, <1>2, <2>1, <2>2 DEF WindowInBuffer
<1>5. TxAgrees'
  BY <1>2 DEF TxAgrees
<1>6. QED
  BY <1>3, <1>4, <1>5 DEF IInv

LEMMA IdleIsXfer == Idle \in [st : XferStates, ptr : 0..Size, len : 0..Size]
BY SizeAssumption DEF SizeAssumption, Idle, XferStates

(* The end of a transfer disturbs no window, and USB_Tx_State follows it   *)
(* if it was the last packet of its piece, or is marked as lost.           *)
LEMMA XferEndKeepsWindows ==
  ASSUME IInv,
         xfer' = Idle,
         UNCHANGED <<ptr_out, length, ptr_in, wreg>>,
         \/ UNCHANGED Tx_State /\ lost' = TRUE
         \/ Tx_State' = 0 /\ length = 0 /\ lost' = lost
  PROVE  IInv'
<1>1. Typed'
  <2>1. xfer' \in [st : XferStates, ptr : 0..Size, len : 0..Size]
    BY IdleIsXfer
  <2>2. QED
    BY <2>1 DEF IInv, Typed
<1>2. WindowInBuffer' /\ TxAgrees'
  BY DEF IInv, WindowInBuffer, TxAgrees, Idle
<1>3. QED
  BY <1>1, <1>2 DEF IInv

LEMMA InitIInv == Init => IInv
<1> SUFFICES ASSUME Init PROVE IInv
  OBVIOUS
<1>1. Typed
  <2>1. /\ xfer = Idle /\ lost = FALSE
        /\ ptr_in = 0 /\ wreg = 0 /\ ptr_out = 0 /\ length = 0 /\ Tx_State = 0
    BY DEF Init
  <2>2. QED
    BY <2>1, IdleIsXfer, SizeAssumption DEF SizeAssumption, Typed
<1>2. WindowInBuffer
  BY SizeAssumption DEF SizeAssumption, Init, WindowInBuffer, Idle
<1>3. TxAgrees
  BY DEF Init, TxAgrees, Idle
<1>4. QED
  BY <1>1, <1>2, <1>3 DEF IInv

(* The writers move ptr_in only, and the frames of other ports FrameCount  *)
(* only; no window depends on either.                                      *)
LEMMA WriterKeepsIInv ==
  ASSUME IInv, UNCHANGED <<ptr_out, length, Tx_State, xfer, lost>>,
         ptr_in' \in 0..Size-1, wreg' \in 0..Size-1
  PROVE  IInv'
BY DEF IInv, Typed, WindowInBuffer, TxAgrees

LEMMA SofKeepsIInv == ASSUME IInv, SOF PROVE IInv'
<1> DEFINE from == IF ptr_out = Size THEN 0 ELSE ptr_out
<1>1. from \in 0..Size-1
  BY SizeAssumption DEF SizeAssumption, IInv, Typed
<1>2. UNCHANGED <<ptr_in, wreg, lost>>
  BY DEF SOF, ring, writer
<1>3. CASE UNCHANGED <<ptr_out, length, Tx_State, xfer>>
  BY <1>2, <1>3, WriterKeepsIInv DEF IInv, Typed
<1>4. CASE Tx_State # 1 /\ Handle
  <2>1. xfer.st = "idle" /\ length = 0
    BY <1>4 DEF IInv, Typed, TxAgrees
  <2>2. CASE from = ptr_in
    <3>1. Tx_State' = 0 /\ ptr_out' = from /\ length' = length /\ xfer' = xfer
      BY <1>4, <2>2 DEF Handle
    <3>2. ptr_out' + length' <= Size
      BY <2>1, <3>1, <1>1, SizeAssumption DEF SizeAssumption, IInv, Typed
    <3>3. Typed'
      BY <1>1, <1>2, <3>1, SizeAssumption DEF SizeAssumption, IInv, Typed
    <3>4. QED
      BY <2>1, <3>1, <3>2, <3>3 DEF IInv, WindowInBuffer, TxAgrees
  <2>3. CASE from # ptr_in
    <3>1. Tx_State' = 1 /\ Give(from, Contiguous(from))
      BY <1>4, <2>3 DEF Handle
    <3>2. Contiguous(from) \in 1..Size /\ from + Contiguous(from) <= Size
      BY <1>1, <2>3, ContiguousFits DEF IInv, Typed
    <3> HIDE DEF from
    <3>3. from \in 0..Size
      BY <1>1, SizeAssumption DEF SizeAssumption
    <3>4. QED
      BY <1>2, <3>1, <3>2, <3>3, GiveKeepsWindows DEF IInv, Typed
  <2>4. QED
    BY <2>2, <2>3
<1>5. QED
  BY <1>3, <1>4 DEF SOF, Handle

LEMMA DataInKeepsIInv == ASSUME IInv, DataIn PROVE IInv'
<1>1. UNCHANGED <<ptr_in, wreg, lost>> /\ Tx_State = 1
  BY DEF DataIn, ring, writer, IInv, TxAgrees
<1>2. CASE length = 0
  <2>1. xfer' = Idle /\ UNCHANGED <<ptr_out, length>> /\ Tx_State' = 0
    BY <1>1, <1>2 DEF DataIn
  <2>2. QED
    BY <1>1, <1>2, <2>1, XferEndKeepsWindows
<1>3. CASE length # 0
  <2>1. Give(ptr_out, length) /\ Tx_State' = 1
    BY <1>1, <1>3 DEF DataIn
  <2>2. length \in 1..Size /\ ptr_out \in 0..Size /\ ptr_out + length <= Size
    BY <1>3, SizeAssumption DEF SizeAssumption, IInv, Typed, WindowInBuffer
  <2>3. QED
    BY <1>1, <2>1, <2>2, GiveKeepsWindows DEF IInv, Typed
<1>4. QED
  BY <1>2, <1>3

LEMMA StepIInv == IInv /\ [Next]_vars => IInv'
<1> SUFFICES ASSUME IInv, [Next]_vars PROVE IInv'
  OBVIOUS
<1>1. CASE \E b \in Bytes : MainLoad(b)
  BY <1>1, WriterKeepsIInv DEF MainLoad, ring, reader, IInv, Typed
<1>2. CASE MainPut
  BY <1>2, WriterKeepsIInv DEF MainPut, reader, IInv, Typed
<1>3. CASE MainStore
  BY <1>3, WriterKeepsIInv, AfterInBuffer DEF MainStore, reader, IInv, Typed
<1>4. CASE \E b \in Bytes : IsrSend(b)
  BY <1>4, WriterKeepsIInv, AfterInBuffer DEF IsrSend, writer, reader, IInv, Typed
<1>5. CASE SOF
  BY <1>5, SofKeepsIInv
<1>6. CASE OtherSOF
  BY <1>6, WriterKeepsIInv DEF OtherSOF, ring, writer, IInv, Typed
<1>7. CASE WriteEmptyTxFifo
  <2>1. /\ xfer' = [xfer EXCEPT !.st = "loaded"]
        /\ xfer.st = "armed"
        /\ UNCHANGED <<ptr_in, ptr_out, length, Tx_State, wreg, lost>>
    BY <1>7 DEF WriteEmptyTxFifo, ring, writer
  <2>2. Typed'
    BY <2>1 DEF IInv, Typed, XferStates
  <2>3. WindowInBuffer' /\ TxAgrees'
    BY <2>1 DEF IInv, Typed, WindowInBuffer, TxAgrees
  <2>4. QED
    BY <2>2, <2>3 DEF IInv
<1>8. CASE DataIn
  BY <1>8, DataInKeepsIInv
<1>9. CASE XferLost
  BY <1>9, XferEndKeepsWindows DEF XferLost, ring, writer
<1>10. CASE UNCHANGED vars
  BY <1>10, WriterKeepsIInv DEF vars, IInv, Typed
<1>11. QED
  BY <1>1, <1>2, <1>3, <1>4, <1>5, <1>6, <1>7, <1>8, <1>9, <1>10 DEF Next

LEMMA IInvHolds == Spec => []IInv
BY InitIInv, StepIInv, PTL DEF Spec

-----------------------------------------------------------------------------
(* The endpoint is never given a window that leaves APP_Rx_Buffer, an empty*)
(* packet or one longer than CDC_DATA_IN_PACKET_SIZE, whatever the sizes,  *)
(* the writers, the frames of other ports and the losses.                  *)
THEOREM WindowsAreSafe == Spec => []WindowInBuffer
<1>1. IInv => WindowInBuffer
  BY DEF IInv
<1>2. QED
  BY <1>1, IInvHolds, PTL

(* USB_Tx_State of a port says what its endpoint does, unless a transfer   *)
(* was lost, and is 0 only with no rest of a piece left.                   *)
THEOREM TxStateAgrees == Spec => []TxAgrees
<1>1. IInv => TxAgrees
  BY DEF IInv
<1>2. QED
  BY <1>1, IInvHolds, PTL

(* What a lost transfer leaves of its port.                                *)
Silent == lost => xfer.st = "idle" /\ Tx_State = 1

LEMMA StepSilent == IInv /\ Silent /\ [Next]_vars => Silent' /\ (lost => lost')
<1> SUFFICES ASSUME IInv, Silent, [Next]_vars PROVE Silent' /\ (lost => lost')
  OBVIOUS
<1>1. CASE SOF
  BY <1>1 DEF SOF, Handle, Silent
<1>2. CASE WriteEmptyTxFifo \/ DataIn
  BY <1>2 DEF WriteEmptyTxFifo, DataIn, Silent
<1>3. CASE XferLost
  BY <1>3 DEF XferLost, Silent, Idle, IInv, TxAgrees
<1>4. CASE UNCHANGED <<Tx_State, xfer, lost>>
  BY <1>4 DEF Silent
<1>5. QED
  BY <1>1, <1>2, <1>3, <1>4
  DEF Next, MainLoad, MainPut, MainStore, IsrSend, OtherSOF, reader, vars

(* A lost transfer silences its port for good.                             *)
THEOREM LostIsForever == Spec => LostXferIsForever
<1>1. Init => Silent
  BY DEF Init, Silent
<1>2. Silent' /\ (lost => lost')
      => [lost => lost' /\ xfer'.st = "idle" /\ Tx_State' = 1]_vars
  BY DEF Silent
<1>3. QED
  BY <1>1, <1>2, StepSilent, IInvHolds, PTL DEF Spec, LostXferIsForever

-----------------------------------------------------------------------------
(* The bytes, and the rest of TypeOK.                                      *)
BytesTyped ==
  /\ buf \in [0..Size-1 -> Bytes]
  /\ FrameCount \in 0..Interval
  /\ fifo \in Seq(Bytes)
  /\ wstage \in {"idle", "put", "store"}
  /\ wbyte \in Bytes
  /\ lost \in BOOLEAN

(* A window holds bytes of the ring: what WindowInBuffer is for.           *)
LEMMA WindowHasBytes ==
  ASSUME IInv, BytesTyped, xfer.st # "idle"
  PROVE  Window \in Seq(Bytes)
<1>1. /\ xfer.ptr \in 0..Size /\ xfer.len \in 0..Size
      /\ xfer.ptr + xfer.len <= Size
  BY DEF IInv, Typed, WindowInBuffer
<1>2. \A i \in 1..xfer.len : xfer.ptr + i - 1 \in 0..Size-1
  BY <1>1, SizeAssumption DEF SizeAssumption
<1>3. Window \in [1..xfer.len -> Bytes]
  BY <1>2 DEF Window, BytesTyped
<1>4. QED
  BY <1>1, <1>3

LEMMA StepBytes == IInv /\ BytesTyped /\ [Next]_vars => BytesTyped'
<1> SUFFICES ASSUME IInv, BytesTyped, [Next]_vars PROVE BytesTyped'
  OBVIOUS
<1> USE DEF BytesTyped, ring, reader, writer
<1>1. CASE \E b \in Bytes : MainLoad(b)
  BY <1>1 DEF MainLoad
<1>2. CASE MainPut \/ MainStore
  BY <1>2 DEF MainPut, MainStore
<1>3. CASE \E b \in Bytes : IsrSend(b)
  BY <1>3 DEF IsrSend
<1>4. CASE SOF \/ OtherSOF
  BY <1>4, IntervalAssumption DEF SOF, OtherSOF, IntervalAssumption
<1>5. CASE WriteEmptyTxFifo
  BY <1>5, WindowHasBytes DEF WriteEmptyTxFifo
<1>6. CASE DataIn \/ XferLost
  <2>1. fifo' = <<>> /\ UNCHANGED <<buf, FrameCount, wstage, wbyte>>
    BY <1>6 DEF DataIn, XferLost
  <2>2. <<>> \in Seq(Bytes)
    OBVIOUS
  <2>3. lost' = TRUE \/ lost' = lost
    BY <1>6 DEF DataIn, XferLost
  <2>4. lost' \in BOOLEAN
    BY <2>3, Zenon
  <2>5. QED
    BY <2>1, <2>2, <2>4
<1>7. CASE UNCHANGED vars
  BY <1>7 DEF vars
<1>8. QED
  BY <1>1, <1>2, <1>3, <1>4, <1>5, <1>6, <1>7 DEF Next

(* The endpoint's FIFO is filled with bytes of the ring only, and every    *)
(* index, counter and record keeps its range.                              *)
THEOREM RingTypeCorrect == Spec => []TypeOK
<1>1. Init => BytesTyped
  BY IntervalAssumption, SizeAssumption
  DEF Init, BytesTyped, IntervalAssumption, SizeAssumption
<1>2. IInv /\ BytesTyped => TypeOK
  BY DEF IInv, Typed, BytesTyped, TypeOK
<1>3. QED
  BY <1>1, <1>2, StepBytes, IInvHolds, PTL DEF Spec
-----------------------------------------------------------------------------
(* The byte stream.  What is pending begins at the window of a transfer    *)
(* that was armed, or where the next one will be cut, and goes on to       *)
(* ptr_in: Ahead bytes, the i-th at Place.                                 *)
Ahead(a) == IF a <= ptr_in THEN ptr_in - a ELSE ptr_in + Size - a

Place(a, i) == IF a + i - 1 < Size THEN a + i - 1 ELSE a + i - 1 - Size

Begin == IF xfer.st = "armed" THEN xfer.ptr ELSE ptr_out

Pended ==
  /\ xfer.st = "armed" => Begin = xfer.ptr
  /\ Begin \in 0..Size
  /\ Pending \in Seq(Bytes) /\ Len(Pending) = Ahead(Begin)
  /\ \A i \in 1..Ahead(Begin) : Pending[i] = buf[Place(Begin, i)]

(* What pacing and a single kind of writer are for: ptr_in has not come    *)
(* round to a window, nor to the rest that DataIn will cut packets from;   *)
(* the FIFO is filled from the one transfer; and a write that is under way *)
(* has the index that it will store, and room for its byte.                *)
Unlapped ==
  /\ xfer.st = "armed" =>
       /\ ptr_out = xfer.ptr + xfer.len
       /\ Ahead(xfer.ptr) = xfer.len + Ahead(ptr_out)
  /\ length <= Ahead(ptr_out)

FifoIsLoaded == fifo # <<>> <=> xfer.st = "loaded"

WriteHasRoom ==
  wstage # "idle" =>
    wreg = ptr_in /\ "main" \in Writers /\ Ahead(Begin) < Size - 1

StreamInv == Unlapped /\ FifoIsLoaded /\ WriteHasRoom

LEMMA RingModulo ==
  ASSUME NEW v \in 0..2 * Size - 1
  PROVE  v % Size = IF v < Size THEN v ELSE v - Size
<1>1. Size \in Nat \ {0}
  BY SizeAssumption DEF SizeAssumption
<1>2. ASSUME NEW a \in 0..Size-1 PROVE a % Size = a /\ (a + Size) % Size = a
  BY <1>1, <1>2
<1>3. CASE v < Size
  BY <1>1, <1>2, <1>3
<1>4. CASE ~(v < Size)
  <2>1. v - Size \in 0..Size-1 /\ (v - Size) + Size = v
    BY <1>1, <1>4
  <2>2. QED
    BY <1>2, <1>4, <2>1
<1>5. QED
  BY <1>3, <1>4

(* The places of what is ahead are in the buffer and end before ptr_in.    *)
LEMMA PlaceIs ==
  ASSUME ptr_in \in 0..Size-1, NEW a \in 0..Size
  PROVE  /\ Ahead(a) \in 0..Size-1
         /\ \A i \in 1..Ahead(a) : Place(a, i) \in 0..Size-1 \ {ptr_in}
         /\ \A i \in Nat : i = Ahead(a) + 1 => Place(a, i) = ptr_in
         /\ a = Size => Ahead(a) = Ahead(0)
                        /\ \A i \in 1..Ahead(a) : Place(a, i) = Place(0, i)
BY SizeAssumption DEF SizeAssumption, Ahead, Place

LEMMA AheadGrows ==
  ASSUME ptr_in \in 0..Size-1, ptr_in' = After(ptr_in), NEW a \in 0..Size,
         Ahead(a) < Size - 1
  PROVE  Ahead(a)' = Ahead(a) + 1
BY SizeAssumption DEF SizeAssumption, Ahead, After

LEMMA BufferedIs ==
  ASSUME ptr_in \in 0..Size-1, ptr_out \in 0..Size,
         buf \in [0..Size-1 -> Bytes]
  PROVE  /\ Buffered \in Seq(Bytes) /\ Len(Buffered) = Ahead(ptr_out)
         /\ \A i \in 1..Ahead(ptr_out) : Buffered[i] = buf[Place(ptr_out, i)]
<1> DEFINE from == IF ptr_out = Size THEN 0 ELSE ptr_out
           n == (ptr_in + Size - from) % Size
<1>1. Size \in Nat \ {0} /\ from \in 0..Size-1
  BY SizeAssumption DEF SizeAssumption
<1>2. PICK v \in 0..2 * Size - 1 : v = ptr_in + Size - from
  <2> HIDE DEF from
  <2>1. ptr_in + Size - from \in 0..2 * Size - 1
    BY <1>1
  <2>2. QED
    BY <2>1
<1>3. n = Ahead(ptr_out)
  <2>1. n = IF v < Size THEN v ELSE v - Size
    BY <1>2, RingModulo
  <2>2. QED
    BY <1>1, <1>2, <2>1 DEF Ahead
<1>4. Ahead(ptr_out) \in 0..Size-1
  BY PlaceIs
<1>5. ASSUME NEW i \in 1..Ahead(ptr_out)
      PROVE  /\ (from + i - 1) % Size = Place(ptr_out, i)
             /\ Place(ptr_out, i) \in 0..Size-1
  <2>1. PICK w \in 0..2 * Size - 1 : w = from + i - 1
    BY <1>1, <1>4
  <2>2. w % Size = IF w < Size THEN w ELSE w - Size
    BY RingModulo
  <2>3. (from + i - 1) % Size = w % Size
    BY <2>1
  <2>4. (from + i - 1) % Size = Place(ptr_out, i)
    BY <1>1, <1>4, <2>1, <2>2, <2>3 DEF Place
  <2>5. QED
    BY <2>4, PlaceIs
<1>6. Buffered = [i \in 1..Ahead(ptr_out) |-> buf[(from + i - 1) % Size]]
  BY <1>3 DEF Buffered
<1> HIDE DEF from
<1>7. Buffered = [i \in 1..Ahead(ptr_out) |-> buf[Place(ptr_out, i)]]
  BY <1>5, <1>6
<1>8. Buffered \in [1..Ahead(ptr_out) -> Bytes]
  BY <1>5, <1>7
<1>9. QED
  BY <1>4, <1>7, <1>8

LEMMA PendingIs == IInv /\ BytesTyped /\ Unlapped => Pended
<1> SUFFICES ASSUME IInv, BytesTyped, Unlapped PROVE Pended
  OBVIOUS
<1>1. /\ ptr_in \in 0..Size-1 /\ ptr_out \in 0..Size /\ Size \in Nat \ {0}
      /\ buf \in [0..Size-1 -> Bytes]
  BY SizeAssumption DEF SizeAssumption, IInv, Typed, BytesTyped
<1>2. /\ Buffered \in Seq(Bytes) /\ Len(Buffered) = Ahead(ptr_out)
      /\ \A i \in 1..Ahead(ptr_out) : Buffered[i] = buf[Place(ptr_out, i)]
  BY <1>1, BufferedIs
<1>3. CASE xfer.st # "armed"
  BY <1>1, <1>2, <1>3 DEF Pended, Begin, Pending
<1>4. CASE xfer.st = "armed"
  <2>1. Begin = xfer.ptr /\ Pending = Window \o Buffered
    BY <1>4 DEF Begin, Pending
  <2>2. PICK a \in 0..Size, len \in 1..Size :
          a = xfer.ptr /\ len = xfer.len
    BY <1>1, <1>4 DEF IInv, Typed, WindowInBuffer
  <2>3. /\ ptr_out = a + len /\ a + len <= Size
        /\ Ahead(a) = len + Ahead(ptr_out)
    BY <1>4, <2>2 DEF IInv, WindowInBuffer, Unlapped
  <2>4. Ahead(ptr_out) \in 0..Size-1 /\ Ahead(a) \in 0..Size-1
    BY <1>1, PlaceIs
  <2>5. /\ Window \in Seq(Bytes) /\ Len(Window) = len
        /\ \A i \in 1..len : Window[i] = buf[a + i - 1]
    <3>1. Window = [i \in 1..len |-> buf[a + i - 1]]
      BY <2>2 DEF Window
    <3>2. Window \in Seq(Bytes)
      BY <1>4, WindowHasBytes
    <3>3. QED
      BY <3>1, <3>2
  <2>6. /\ Pending \in Seq(Bytes) /\ Len(Pending) = len + Ahead(ptr_out)
        /\ \A i \in 1..len + Ahead(ptr_out) :
             Pending[i] = IF i <= len THEN Window[i] ELSE Buffered[i - len]
    <3>1. PICK s \in Seq(Bytes), t \in Seq(Bytes) : s = Window /\ t = Buffered
      BY <1>2, <2>5
    <3>2. /\ s \o t \in Seq(Bytes) /\ Len(s \o t) = Len(s) + Len(t)
          /\ \A i \in 1..Len(s) + Len(t) :
               (s \o t)[i] = IF i <= Len(s) THEN s[i] ELSE t[i - Len(s)]
      BY ConcatProperties
    <3>3. Pending = s \o t /\ Len(s) = len /\ Len(t) = Ahead(ptr_out)
      BY <1>2, <2>1, <2>5, <3>1
    <3>4. QED
      BY <3>1, <3>2, <3>3, Zenon
  <2>7. ASSUME NEW i \in 1..Ahead(a) PROVE Pending[i] = buf[Place(a, i)]
    <3>1. CASE i <= len
      <4>1. i \in 1..len /\ Place(a, i) = a + i - 1
        BY <1>1, <2>3, <2>4, <3>1 DEF Place
      <4>2. QED
        BY <2>3, <2>5, <2>6, <3>1, <4>1
    <3>2. CASE ~(i <= len)
      <4>1. i - len \in 1..Ahead(ptr_out) /\ Place(a, i) = Place(ptr_out, i - len)
        BY <1>1, <2>3, <2>4, <3>2 DEF Place
      <4>2. QED
        BY <1>2, <2>3, <2>6, <3>2, <4>1
    <3>3. QED
      BY <3>1, <3>2
  <2>8. Begin = a
    BY <2>1, <2>2
  <2>9. QED
    BY <2>1, <2>3, <2>6, <2>7, <2>8 DEF Pended
<1>5. QED
  BY <1>3, <1>4

-----------------------------------------------------------------------------
(* What the steps make of it: the same, one byte more, a packet less.      *)
LEMMA PendingSame ==
  ASSUME Pended, Pended', NEW n \in Nat, Ahead(Begin) = n, Ahead(Begin)' = n,
         \A i \in 1..n : buf'[Place(Begin, i)'] = buf[Place(Begin, i)]
  PROVE  Pending' = Pending
<1>1. \A i \in 1..n : Pending'[i] = Pending[i]
  BY DEF Pended
<1>2. QED
  BY <1>1, SeqEqual DEF Pended

LEMMA PendingGrows ==
  ASSUME Pended, Pended', NEW n \in Nat, Ahead(Begin) = n, Ahead(Begin)' = n + 1,
         \A i \in 1..n : buf'[Place(Begin, i)'] = buf[Place(Begin, i)],
         NEW b \in Bytes, buf'[Place(Begin, n + 1)'] = b
  PROVE  Pending' = Append(Pending, b)
<1> DEFINE q == Append(Pending, b)
<1>1. /\ q \in Seq(Bytes) /\ Len(q) = n + 1 /\ q[n + 1] = b
      /\ \A i \in 1..n : q[i] = Pending[i]
  BY AppendProperties DEF Pended
<1> HIDE DEF q
<1>2. ASSUME NEW i \in 1..n + 1 PROVE Pending'[i] = q[i]
  <2>1. Pending'[i] = buf'[Place(Begin, i)']
    BY DEF Pended
  <2>2. CASE i = n + 1
    BY <1>1, <2>1, <2>2
  <2>3. CASE i # n + 1
    <3>1. i \in 1..n
      BY <2>3
    <3>2. QED
      BY <1>1, <2>1, <3>1 DEF Pended
  <2>4. QED
    BY <2>2, <2>3
<1>3. Pending' = q
  BY <1>1, <1>2, SeqEqual DEF Pended
<1>4. QED
  BY <1>3 DEF q

LEMMA PendingEmitted ==
  ASSUME Pended, Pended', NEW n \in Nat, NEW len \in 1..n,
         Ahead(Begin) = n, Ahead(Begin)' = n - len,
         \A i \in 1..n - len : buf'[Place(Begin, i)'] = buf[Place(Begin, i + len)],
         fifo' \in Seq(Bytes), Len(fifo') = len,
         \A i \in 1..len : fifo'[i] = buf[Place(Begin, i)]
  PROVE  /\ fifo' = SubSeq(Pending, 1, len)
         /\ Pending' = SubSeq(Pending, len + 1, Len(Pending))
<1>1. /\ SubSeq(Pending, 1, len) \in Seq(Bytes)
      /\ Len(SubSeq(Pending, 1, len)) = len
      /\ \A i \in 1..len : SubSeq(Pending, 1, len)[i] = Pending[i]
  BY DEF Pended
<1>2. fifo' = SubSeq(Pending, 1, len)
  <2>1. \A i \in 1..len : fifo'[i] = SubSeq(Pending, 1, len)[i]
    BY <1>1 DEF Pended
  <2>2. QED
    BY <1>1, <2>1, SeqEqual
<1> DEFINE q == SubSeq(Pending, len + 1, n)
<1>3. /\ q \in Seq(Bytes) /\ Len(q) = n - len
      /\ \A i \in 1..n - len : q[i] = Pending[i + len]
  BY DEF Pended
<1> HIDE DEF q
<1>4. ASSUME NEW i \in 1..n - len PROVE Pending'[i] = q[i]
  <2>1. i + len \in 1..n
    OBVIOUS
  <2>2. QED
    BY <1>3, <2>1 DEF Pended
<1>5. Pending' = q
  BY <1>3, <1>4, SeqEqual DEF Pended
<1>6. QED
  BY <1>2, <1>5 DEF q, Pended

-----------------------------------------------------------------------------
(* That a pointer was set counts what is ahead of it.                      *)
Counted == Unlapped => Pended

(* A packet less is ahead of the place that follows it.                    *)
LEMMA AheadCut ==
  ASSUME ptr_in \in 0..Size-1, NEW a \in 0..Size, NEW n \in 1..Ahead(a),
         a + n <= Size
  PROVE  /\ Ahead(a + n) = Ahead(a) - n
         /\ \A i \in 1..Ahead(a) - n : Place(a + n, i) = Place(a, i + n)
BY SizeAssumption DEF SizeAssumption, Ahead, Place

LEMMA ContiguousIsAhead ==
  ASSUME ptr_in \in 0..Size-1, NEW a \in 0..Size-1
  PROVE  Contiguous(a) <= Ahead(a)
BY SizeAssumption DEF SizeAssumption, Ahead, Contiguous

(* Where what is pending begins, before a transfer is given and after.     *)
LEMMA BeginIs ==
  ASSUME IInv, Unlapped, Pended
  PROVE  /\ xfer.st # "armed" => Begin = ptr_out
         /\ Begin \in 0..Size
         /\ Ahead(Begin) \in 0..Size-1
         /\ Ahead(ptr_out) \in 0..Size-1
         /\ Ahead(ptr_out) <= Ahead(Begin)
<1>1. xfer.st # "armed" => Begin = ptr_out
  BY DEF Begin
<1>2. ptr_in \in 0..Size-1 /\ ptr_out \in 0..Size /\ Begin \in 0..Size
  BY DEF IInv, Typed, Pended
<1>3. PICK a \in 0..Size, o \in 0..Size : a = Begin /\ o = ptr_out
  BY <1>2
<1>4. Ahead(a) \in 0..Size-1 /\ Ahead(o) \in 0..Size-1
  BY <1>2, PlaceIs
<1>5. Ahead(o) <= Ahead(a)
  <2>1. CASE xfer.st # "armed"
    BY <1>1, <1>3, <1>4, <2>1
  <2>2. ASSUME xfer.st = "armed" PROVE Ahead(o) <= Ahead(a)
    <3>1. a = xfer.ptr /\ xfer.len \in Nat
      BY <1>3, <2>2 DEF Pended, IInv, Typed
    <3>2. Ahead(a) = xfer.len + Ahead(o)
      BY <1>3, <2>2, <3>1 DEF Unlapped
    <3>3. QED
      BY <1>4, <3>1, <3>2
  <2>3. QED
    BY <2>1, <2>2
<1>6. QED
  BY <1>1, <1>2, <1>3, <1>4, <1>5

(* What leaves the transfers and ptr_out alone leaves the beginning.       *)
LEMMA BeginStays ==
  ASSUME Pended, Pended', UNCHANGED <<xfer, ptr_out>>
  PROVE  Begin' = Begin
<1>1. ASSUME xfer.st = "armed" PROVE Begin' = Begin
  BY <1>1 DEF Pended
<1>2. CASE xfer.st # "armed"
  BY <1>2 DEF Begin
<1>3. QED
  BY <1>1, <1>2

(* A store beyond the last byte, or none, changes nothing.                 *)
LEMMA WriterWaits ==
  ASSUME IInv, Unlapped, Pended, Counted', UNCHANGED <<ptr_in, ptr_out, length, xfer>>,
         \A j \in 0..Size-1 \ {ptr_in} : buf'[j] = buf[j]
  PROVE  Unlapped' /\ Pending' = Pending /\ Ahead(Begin)' = Ahead(Begin)
<1>1. Unlapped'
  BY DEF Unlapped, Ahead
<1>2. Pended' /\ Begin' = Begin
  BY <1>1, BeginStays DEF Counted
<1>3. PICK a \in 0..Size : a = Begin
  BY DEF Pended
<1>4. /\ Ahead(a) \in 0..Size-1
      /\ \A i \in 1..Ahead(a) : Place(a, i) \in 0..Size-1 \ {ptr_in}
  BY PlaceIs DEF IInv, Typed
<1>5. PICK n \in Nat : n = Ahead(a)
  BY <1>4, SizeAssumption DEF SizeAssumption
<1>6. Ahead(Begin) = n /\ Ahead(Begin)' = n
  BY <1>2, <1>3, <1>5 DEF Ahead
<1>7. ASSUME NEW i \in 1..n PROVE buf'[Place(Begin, i)'] = buf[Place(Begin, i)]
  <2>1. Place(Begin, i)' = Place(a, i) /\ Place(Begin, i) = Place(a, i)
    BY <1>2, <1>3 DEF Place
  <2>2. QED
    BY <1>4, <1>5, <2>1
<1>8. QED
  BY <1>1, <1>2, <1>6, <1>7, PendingSame

(* A store and the step of ptr_in add the byte at the end.                 *)
LEMMA WriterSteps ==
  ASSUME IInv, Unlapped, Pended, Counted', UNCHANGED <<ptr_out, length, xfer>>,
         ptr_in' = After(ptr_in), Ahead(Begin) < Size - 1,
         NEW b \in Bytes, buf'[ptr_in] = b,
         \A j \in 0..Size-1 \ {ptr_in} : buf'[j] = buf[j]
  PROVE  Unlapped' /\ Pending' = Append(Pending, b)
<1>1. /\ Begin \in 0..Size /\ Ahead(Begin) \in 0..Size-1
      /\ Ahead(ptr_out) \in 0..Size-1 /\ Ahead(ptr_out) <= Ahead(Begin)
  BY BeginIs
<1>2. PICK a \in 0..Size, o \in 0..Size : a = Begin /\ o = ptr_out
  BY <1>1 DEF IInv, Typed
<1>3. ptr_in \in 0..Size-1 /\ Size \in Nat
  BY SizeAssumption DEF SizeAssumption, IInv, Typed
<1>4. Ahead(a)' = Ahead(a) + 1 /\ Ahead(o)' = Ahead(o) + 1
  <2>1. Ahead(a) < Size - 1 /\ Ahead(o) < Size - 1
    BY <1>1, <1>2, <1>3
  <2>2. QED
    BY <1>3, <2>1, AheadGrows
<1>5. Unlapped'
  <2>1. ASSUME xfer'.st = "armed"
        PROVE  /\ ptr_out' = xfer'.ptr + xfer'.len
               /\ Ahead(xfer.ptr)' = xfer'.len + Ahead(ptr_out)'
    <3>1. /\ xfer.ptr = a /\ xfer.len \in Nat
          /\ ptr_out = xfer.ptr + xfer.len
          /\ Ahead(xfer.ptr) = xfer.len + Ahead(ptr_out)
      BY <1>2, <2>1 DEF Unlapped, Pended, IInv, Typed
    <3>2. Ahead(xfer.ptr)' = Ahead(a)' /\ Ahead(ptr_out)' = Ahead(o)'
      BY <1>2, <3>1 DEF Ahead
    <3>3. QED
      BY <1>1, <1>2, <1>3, <1>4, <3>1, <3>2
  <2>2. length' <= Ahead(ptr_out)'
    <3>1. Ahead(ptr_out)' = Ahead(o)' /\ length \in Nat /\ length <= Ahead(o)
      BY <1>2 DEF Ahead, Unlapped, IInv, Typed
    <3>2. QED
      BY <1>1, <1>2, <1>4, <3>1
  <2>3. QED
    BY <2>1, <2>2 DEF Unlapped
<1>6. Pended' /\ Begin' = Begin
  BY <1>5, BeginStays DEF Counted
<1>7. PICK n \in Nat : n = Ahead(a)
  BY <1>1, <1>2, <1>3
<1>8. Ahead(Begin) = n /\ Ahead(Begin)' = n + 1
  <2>1. Ahead(Begin)' = Ahead(a)'
    BY <1>2, <1>6 DEF Ahead
  <2>2. QED
    BY <1>2, <1>4, <1>7, <2>1
<1>9. ASSUME NEW i \in 1..n PROVE buf'[Place(Begin, i)'] = buf[Place(Begin, i)]
  <2>1. Place(Begin, i)' = Place(a, i) /\ Place(Begin, i) = Place(a, i)
    BY <1>2, <1>6 DEF Place
  <2>2. Place(a, i) \in 0..Size-1 \ {ptr_in}
    BY <1>3, <1>7, PlaceIs
  <2>3. QED
    BY <2>1, <2>2
<1>10. buf'[Place(Begin, n + 1)'] = b
  <2>1. Place(a, n + 1) = ptr_in
    BY <1>3, <1>7, PlaceIs
  <2>2. Place(Begin, n + 1)' = Place(a, n + 1)
    BY <1>2, <1>6 DEF Place
  <2>3. QED
    BY <2>1, <2>2
<1>11. QED
  BY <1>5, <1>6, <1>8, <1>9, <1>10, PendingGrows

(* A packet that is cut off what is ahead is still pending.                *)
LEMMA GiveKeepsPending ==
  ASSUME IInv, IInv', Unlapped, Pended, Counted', UNCHANGED ring,
         xfer.st # "armed",
         NEW a \in 0..Size, NEW len \in 1..Size,
         Give(a, len), a + len <= Size, len <= Ahead(a),
         Ahead(a) = Ahead(ptr_out),
         \A i \in 1..Ahead(a) : Place(a, i) = Place(ptr_out, i)
  PROVE  Unlapped' /\ Pending' = Pending /\ Ahead(Begin)' = Ahead(Begin)
<1>1. PICK n \in 1..len :
        /\ xfer' = [st |-> "armed", ptr |-> a, len |-> n]
        /\ ptr_out' = a + n
        /\ length' = len - n
  <2> DEFINE k == IF len > Packet THEN Packet ELSE len
  <2>1. k \in 1..len
    BY PacketAssumption DEF PacketAssumption
  <2>2. /\ xfer' = [st |-> "armed", ptr |-> a, len |-> k]
        /\ ptr_out' = a + k
        /\ length' = len - k
    BY DEF Give
  <2> HIDE DEF k
  <2>3. QED
    BY <2>1, <2>2
<1>2. ptr_in \in 0..Size-1 /\ ptr_in' = ptr_in /\ buf' = buf /\ Size \in Nat
  BY SizeAssumption DEF SizeAssumption, IInv, Typed, ring
<1>3. Ahead(a) \in 0..Size-1
  BY <1>2, PlaceIs
<1>4. xfer'.st = "armed" /\ xfer'.ptr = a /\ xfer'.len = n
  BY <1>1
<1>5. Ahead(a + n) = Ahead(a) - n
  <2>1. n \in 1..Ahead(a) /\ a + n <= Size
    BY <1>2, <1>3
  <2>2. QED
    BY <1>2, <2>1, AheadCut
<1>6. Ahead(ptr_out)' = Ahead(a + n)
  BY <1>1, <1>2 DEF Ahead
<1>7. Unlapped'
  <2>1. ASSUME xfer'.st = "armed"
        PROVE  /\ ptr_out' = xfer'.ptr + xfer'.len
               /\ Ahead(xfer.ptr)' = xfer'.len + Ahead(ptr_out)'
    <3>1. xfer'.ptr = a /\ xfer'.len = n
      BY <1>4, <2>1
    <3>2. Ahead(xfer.ptr)' = Ahead(a)
      BY <1>2, <3>1 DEF Ahead
    <3>3. QED
      BY <1>1, <1>3, <1>5, <1>6, <3>1, <3>2
  <2>2. length' <= Ahead(ptr_out)'
    BY <1>1, <1>3, <1>5, <1>6
  <2>3. QED
    BY <2>1, <2>2 DEF Unlapped
<1>8. Pended' /\ Begin' = a
  BY <1>4, <1>7 DEF Counted, Pended
<1>9. Begin = ptr_out
  BY BeginIs
<1>10. PICK k \in Nat : k = Ahead(a)
  BY <1>2, <1>3
<1>11. Ahead(Begin) = k /\ Ahead(Begin)' = k
  <2>1. Ahead(Begin)' = Ahead(a)
    BY <1>2, <1>8 DEF Ahead
  <2>2. QED
    BY <1>9, <1>10, <2>1
<1>12. ASSUME NEW i \in 1..k PROVE buf'[Place(Begin, i)'] = buf[Place(Begin, i)]
  <2>1. Place(Begin, i)' = Place(a, i)
    BY <1>8 DEF Place
  <2>2. QED
    BY <1>2, <1>9, <1>10, <2>1
<1>13. QED
  BY <1>7, <1>8, <1>11, <1>12, PendingSame

-----------------------------------------------------------------------------
(* The steps, under pacing, with one kind of writer and no lost transfer.  *)
Undisturbed == Paced /\ ~LosesXfers /\ Writers # {"main", "isr"}

LEMMA RoomIsAhead ==
  ASSUME Undisturbed, Pended, Room
  PROVE  Ahead(Begin) < Size - 1
BY DEF Undisturbed, Pended, Room

LEMMA MainStreams ==
  ASSUME Undisturbed, IInv, StreamInv, BytesTyped, Pended, Counted',
         (\E b \in Bytes : MainLoad(b)) \/ MainPut \/ MainStore
  PROVE  StreamInv' /\ [Stream!Next]_(Stream!vars)
<1>1. CASE \E b \in Bytes : MainLoad(b)
  <2>1. /\ UNCHANGED <<ptr_in, ptr_out, length, xfer, buf, fifo>>
        /\ wreg' = ptr_in /\ "main" \in Writers /\ Room
    BY <1>1 DEF MainLoad, ring, reader
  <2>2. Unlapped' /\ Pending' = Pending /\ Ahead(Begin)' = Ahead(Begin)
    BY <2>1, WriterWaits DEF StreamInv
  <2>3. FifoIsLoaded'
    BY <2>1 DEF StreamInv, FifoIsLoaded
  <2>4. WriteHasRoom'
    BY <2>1, <2>2, RoomIsAhead DEF WriteHasRoom
  <2>5. QED
    BY <2>1, <2>2, <2>3, <2>4 DEF StreamInv, Stream!vars
<1>2. CASE MainPut
  <2>1. /\ UNCHANGED <<ptr_in, ptr_out, length, xfer, fifo>>
        /\ wstage = "put" /\ wreg' = wreg /\ wreg = ptr_in
        /\ buf' = [buf EXCEPT ![ptr_in] = wbyte]
        /\ "main" \in Writers /\ Ahead(Begin) < Size - 1
    BY <1>2 DEF MainPut, reader, StreamInv, WriteHasRoom
  <2>2. \A j \in 0..Size-1 \ {ptr_in} : buf'[j] = buf[j]
    BY <2>1 DEF BytesTyped
  <2>3. Unlapped' /\ Pending' = Pending /\ Ahead(Begin)' = Ahead(Begin)
    BY <2>1, <2>2, WriterWaits DEF StreamInv
  <2>4. FifoIsLoaded'
    BY <2>1 DEF StreamInv, FifoIsLoaded
  <2>5. WriteHasRoom'
    BY <2>1, <2>3 DEF WriteHasRoom
  <2>6. QED
    BY <2>1, <2>3, <2>4, <2>5 DEF StreamInv, Stream!vars
<1>3. CASE MainStore
  <2>1. /\ UNCHANGED <<ptr_out, length, xfer, fifo, buf>>
        /\ wstage' = "idle" /\ ptr_in' = After(ptr_in)
        /\ Ahead(Begin) < Size - 1
    BY <1>3 DEF MainStore, reader, StreamInv, WriteHasRoom
  <2>2. PICK b \in Bytes : b = buf[ptr_in]
    BY DEF BytesTyped, IInv, Typed
  <2>3. Unlapped' /\ Pending' = Append(Pending, b)
    BY <2>1, <2>2, WriterSteps DEF StreamInv
  <2>4. FifoIsLoaded' /\ WriteHasRoom'
    BY <2>1 DEF StreamInv, FifoIsLoaded, WriteHasRoom
  <2>5. Len(Pending) < Size - 1
    BY <2>1 DEF Pended
  <2>6. Stream!Accept(b)
    BY <2>1, <2>3, <2>5 DEF Stream!Accept
  <2>7. QED
    BY <2>3, <2>4, <2>6 DEF StreamInv, Stream!Next
<1>4. QED
  BY <1>1, <1>2, <1>3

LEMMA IsrStreams ==
  ASSUME Undisturbed, IInv, StreamInv, BytesTyped, Pended, Counted',
         NEW b \in Bytes, IsrSend(b)
  PROVE  StreamInv' /\ [Stream!Next]_(Stream!vars)
<1>1. /\ UNCHANGED <<ptr_out, length, xfer, fifo, wstage>>
      /\ ptr_in' = After(ptr_in) /\ buf' = [buf EXCEPT ![ptr_in] = b]
      /\ "isr" \in Writers /\ Room
  BY DEF IsrSend, reader, writer
<1>2. buf'[ptr_in] = b /\ \A j \in 0..Size-1 \ {ptr_in} : buf'[j] = buf[j]
  BY <1>1 DEF BytesTyped, IInv, Typed
<1>3. Ahead(Begin) < Size - 1
  BY <1>1, RoomIsAhead
<1>4. Unlapped' /\ Pending' = Append(Pending, b)
  BY <1>1, <1>2, <1>3, WriterSteps DEF StreamInv
<1>5. wstage' = "idle"
  <2>1. "main" \notin Writers
    BY <1>1, OptionsAssumption DEF OptionsAssumption, Undisturbed
  <2>2. QED
    BY <1>1, <2>1 DEF StreamInv, WriteHasRoom
<1>6. FifoIsLoaded' /\ WriteHasRoom'
  BY <1>1, <1>5 DEF StreamInv, FifoIsLoaded, WriteHasRoom
<1>7. Len(Pending) < Size - 1
  BY <1>3 DEF Pended
<1>8. Stream!Accept(b)
  BY <1>1, <1>4, <1>7 DEF Stream!Accept
<1>9. QED
  BY <1>4, <1>6, <1>8 DEF StreamInv, Stream!Next

(* What keeps the count keeps a write its room.                            *)
LEMMA RoomStays ==
  ASSUME WriteHasRoom, UNCHANGED <<ptr_in, wstage, wreg>>,
         Ahead(Begin)' = Ahead(Begin)
  PROVE  WriteHasRoom'
BY DEF WriteHasRoom

LEMMA SofStreams ==
  ASSUME IInv, IInv', StreamInv, BytesTyped, Pended, Counted',
         SOF
  PROVE  StreamInv' /\ UNCHANGED Stream!vars
<1> DEFINE from == IF ptr_out = Size THEN 0 ELSE ptr_out
<1>1. /\ UNCHANGED <<ptr_in, buf, fifo, wstage, wreg>>
      /\ ptr_in \in 0..Size-1 /\ ptr_out \in 0..Size
      /\ from \in 0..Size-1 /\ Size \in Nat
  BY SizeAssumption DEF SizeAssumption, SOF, ring, writer, IInv, Typed
<1>2. CASE UNCHANGED <<ptr_out, length, xfer>>
  <2>1. Unlapped' /\ Pending' = Pending /\ Ahead(Begin)' = Ahead(Begin)
    BY <1>1, <1>2, WriterWaits DEF StreamInv
  <2>2. FifoIsLoaded'
    BY <1>1, <1>2 DEF StreamInv, FifoIsLoaded
  <2>3. QED
    BY <1>1, <2>1, <2>2, RoomStays DEF StreamInv, Stream!vars
<1>3. CASE Tx_State # 1 /\ Handle
  <2>1. xfer.st = "idle"
    BY <1>3 DEF IInv, Typed, XferStates, TxAgrees
  <2>2. /\ Ahead(from) = Ahead(ptr_out) /\ Ahead(from) \in 0..Size-1
        /\ \A i \in 1..Ahead(from) : Place(from, i) = Place(ptr_out, i)
        /\ \A i \in 1..Ahead(from) : Place(from, i) \in 0..Size-1
    BY <1>1, PlaceIs
  <2>3. Begin = ptr_out
    BY <2>1, BeginIs DEF StreamInv
  <2>4. CASE from = ptr_in
    <3>1. ptr_out' = from /\ UNCHANGED <<length, xfer>>
      BY <1>3, <2>4 DEF Handle
    <3> HIDE DEF from
    <3>2. Ahead(ptr_out)' = Ahead(from)
      BY <1>1, <3>1 DEF Ahead
    <3>3. Unlapped' /\ FifoIsLoaded'
      BY <1>1, <2>1, <2>2, <3>1, <3>2 DEF StreamInv, Unlapped, FifoIsLoaded
    <3>4. Pended' /\ Begin' = from
      BY <2>1, <3>1, <3>3 DEF Counted, Begin
    <3>5. PICK n \in Nat : n = Ahead(from)
      BY <1>1, <2>2
    <3>6. Ahead(Begin) = n /\ Ahead(Begin)' = n
      <4>1. Ahead(Begin)' = Ahead(from)
        BY <1>1, <3>4 DEF Ahead
      <4>2. QED
        BY <2>2, <2>3, <3>5, <4>1
    <3>7. ASSUME NEW i \in 1..n PROVE buf'[Place(Begin, i)'] = buf[Place(Begin, i)]
      <4>1. Place(Begin, i)' = Place(from, i)
        BY <3>4 DEF Place
      <4>2. QED
        BY <1>1, <2>2, <2>3, <3>5, <4>1
    <3>8. Pending' = Pending
      BY <3>4, <3>6, <3>7, PendingSame
    <3>9. WriteHasRoom'
      BY <1>1, <3>6, RoomStays DEF StreamInv
    <3>10. QED
      BY <1>1, <3>3, <3>8, <3>9 DEF StreamInv, Stream!vars
  <2>5. CASE from # ptr_in
    <3>1. Give(from, Contiguous(from))
      BY <1>3, <2>5 DEF Handle
    <3>2. PICK a \in 0..Size-1 : a = from
      BY <1>1
    <3>3. PICK len \in 1..Size : len = Contiguous(a) /\ a + len <= Size
      BY <1>1, <2>5, <3>2, ContiguousFits
    <3>4. len <= Ahead(a)
      BY <1>1, <3>3, ContiguousIsAhead
    <3> HIDE DEF from
    <3>5. a \in 0..Size /\ Give(a, len)
      BY <1>1, <3>1, <3>2, <3>3
    <3>6. Unlapped' /\ Pending' = Pending /\ Ahead(Begin)' = Ahead(Begin)
      BY <1>1, <2>1, <2>2, <3>2, <3>3, <3>4, <3>5, GiveKeepsPending
      DEF StreamInv, ring
    <3>7. FifoIsLoaded'
      <4>1. xfer'.st # "loaded"
        BY <3>5 DEF Give
      <4>2. QED
        BY <1>1, <2>1, <4>1 DEF StreamInv, FifoIsLoaded
    <3>8. QED
      BY <1>1, <3>6, <3>7, RoomStays DEF StreamInv, Stream!vars
  <2>6. QED
    BY <2>4, <2>5
<1>4. QED
  BY <1>2, <1>3 DEF SOF, Handle

(* The window of the transfer goes into the FIFO.                          *)
LEMMA FifoStreams ==
  ASSUME IInv, IInv', StreamInv, BytesTyped, BytesTyped', Pended, Counted',
         WriteEmptyTxFifo
  PROVE  StreamInv' /\ Stream!Emit
<1>1. /\ UNCHANGED <<ptr_in, buf, ptr_out, length, wstage, wreg>>
      /\ ptr_in \in 0..Size-1 /\ ptr_out \in 0..Size /\ Size \in Nat
      /\ xfer.st = "armed" /\ xfer' = [xfer EXCEPT !.st = "loaded"]
      /\ fifo' = Window
  BY SizeAssumption DEF SizeAssumption, WriteEmptyTxFifo, ring, writer, IInv, Typed
<1>2. PICK a \in 0..Size, len \in 1..Packet : a = xfer.ptr /\ len = xfer.len
  BY <1>1 DEF IInv, Typed, WindowInBuffer
<1>3. /\ Begin = a /\ ptr_out = a + len /\ len \in 1..Size
      /\ Ahead(a) = len + Ahead(ptr_out) /\ length <= Ahead(ptr_out)
  BY <1>1, <1>2 DEF StreamInv, Unlapped, Pended, IInv, Typed
<1>4. Ahead(a) \in 0..Size-1 /\ Ahead(ptr_out) \in 0..Size-1
  BY <1>1, PlaceIs
<1>5. xfer'.st = "loaded"
  BY <1>1 DEF IInv, Typed
<1>6. Unlapped'
  <2>1. Ahead(ptr_out)' = Ahead(ptr_out)
    BY <1>1 DEF Ahead
  <2>2. QED
    BY <1>1, <1>3, <1>5, <2>1 DEF Unlapped
<1>7. Pended' /\ Begin' = ptr_out
  BY <1>1, <1>5, <1>6 DEF Counted, Begin
<1>8. PICK n \in Nat : n = Ahead(a)
  BY <1>1, <1>4
<1>9. len \in 1..n /\ n - len = Ahead(ptr_out)
  BY <1>1, <1>3, <1>4, <1>8
<1>10. Ahead(Begin) = n /\ Ahead(Begin)' = n - len
  <2>1. Ahead(Begin)' = Ahead(ptr_out)
    BY <1>1, <1>7 DEF Ahead
  <2>2. QED
    BY <1>3, <1>8, <1>9, <2>1
<1>11. ASSUME NEW i \in 1..n - len
       PROVE  buf'[Place(Begin, i)'] = buf[Place(Begin, i + len)]
  <2>1. Place(Begin, i)' = Place(a + len, i)
    BY <1>3, <1>7 DEF Place
  <2>2. len \in 1..Ahead(a) /\ a + len <= Size /\ i \in 1..Ahead(a) - len
    BY <1>1, <1>3, <1>8, <1>9
  <2>3. Place(a + len, i) = Place(a, i + len)
    BY <1>1, <2>2, AheadCut
  <2>4. QED
    BY <1>1, <1>3, <2>1, <2>3
<1>12. fifo' \in Seq(Bytes)
  BY DEF BytesTyped
<1>13. /\ Len(fifo') = len
       /\ \A i \in 1..len : fifo'[i] = buf[Place(Begin, i)]
  <2>1. fifo' = [i \in 1..len |-> buf[a + i - 1]]
    BY <1>1, <1>2 DEF Window
  <2>2. ASSUME NEW i \in 1..len PROVE Place(a, i) = a + i - 1
    BY <1>1, <1>3, SizeAssumption DEF SizeAssumption, Place
  <2>3. QED
    BY <1>3, <2>1, <2>2
<1>14. /\ fifo' = SubSeq(Pending, 1, len)
       /\ Pending' = SubSeq(Pending, len + 1, Len(Pending))
  BY <1>7, <1>9, <1>10, <1>11, <1>12, <1>13, PendingEmitted
<1>15. fifo = <<>>
  BY <1>1, <1>5 DEF StreamInv, FifoIsLoaded
<1>16. len <= Len(Pending)
  BY <1>9, <1>10 DEF Pended
<1>17. Stream!Emit
  BY <1>14, <1>15, <1>16 DEF Stream!Emit
<1>18. FifoIsLoaded'
  <2>1. fifo' # <<>>
    BY <1>13
  <2>2. QED
    BY <1>5, <2>1 DEF FifoIsLoaded
<1>19. WriteHasRoom'
  <2>1. Ahead(Begin)' <= Ahead(Begin)
    BY <1>9, <1>10
  <2>2. Ahead(Begin) \in Nat /\ Ahead(Begin)' \in Nat
    BY <1>9, <1>10
  <2>3. QED
    BY <1>1, <2>1, <2>2 DEF StreamInv, WriteHasRoom
<1>20. QED
  BY <1>6, <1>17, <1>18, <1>19 DEF StreamInv

(* The host takes the packet; the next one, if any, stays pending.         *)
LEMMA DataInStreams ==
  ASSUME IInv, IInv', StreamInv, BytesTyped, Pended, Counted',
         DataIn
  PROVE  StreamInv' /\ Stream!Take
<1>1. /\ UNCHANGED <<ptr_in, buf, wstage, wreg>>
      /\ ptr_in \in 0..Size-1 /\ ptr_out \in 0..Size /\ Size \in Nat
      /\ xfer.st = "loaded" /\ fifo' = <<>> /\ Tx_State = 1
  BY SizeAssumption
  DEF SizeAssumption, DataIn, ring, writer, IInv, Typed, TxAgrees
<1>2. fifo # <<>>
  BY <1>1 DEF StreamInv, FifoIsLoaded
<1>3. xfer.st # "armed"
  BY <1>1
<1>4. CASE length = 0
  <2>1. xfer' = Idle /\ UNCHANGED <<ptr_out, length>>
    BY <1>1, <1>4 DEF DataIn
  <2>2. xfer'.st = "idle"
    BY <2>1 DEF Idle
  <2>3. Ahead(ptr_out)' = Ahead(ptr_out)
    BY <1>1, <2>1 DEF Ahead
  <2>4. Unlapped' /\ FifoIsLoaded'
    BY <1>1, <2>1, <2>2, <2>3 DEF StreamInv, Unlapped, FifoIsLoaded
  <2>5. Pended' /\ Begin' = ptr_out /\ Begin = ptr_out
    BY <1>3, <2>1, <2>2, <2>4 DEF Counted, Begin
  <2>6. PICK n \in Nat : n = Ahead(ptr_out)
    BY <1>1, BeginIs DEF StreamInv
  <2>7. Ahead(Begin) = n /\ Ahead(Begin)' = n
    <3>1. Ahead(Begin)' = Ahead(ptr_out)
      BY <1>1, <2>5 DEF Ahead
    <3>2. QED
      BY <2>5, <2>6, <3>1
  <2>8. ASSUME NEW i \in 1..n PROVE buf'[Place(Begin, i)'] = buf[Place(Begin, i)]
    <3>1. Place(Begin, i)' = Place(Begin, i)
      BY <2>5 DEF Place
    <3>2. QED
      BY <1>1, <3>1
  <2>9. Pending' = Pending
    BY <2>5, <2>7, <2>8, PendingSame
  <2>10. WriteHasRoom'
    BY <1>1, <2>7, RoomStays DEF StreamInv
  <2>11. QED
    BY <1>1, <1>2, <2>4, <2>9, <2>10 DEF StreamInv, Stream!Take
<1>5. CASE length # 0
  <2>1. Give(ptr_out, length)
    BY <1>1, <1>5 DEF DataIn
  <2>2. PICK a \in 0..Size, len \in 1..Size : a = ptr_out /\ len = length
    BY <1>1, <1>5 DEF IInv, Typed
  <2>3. Give(a, len) /\ a + len <= Size /\ len <= Ahead(a)
    BY <2>1, <2>2 DEF IInv, WindowInBuffer, StreamInv, Unlapped
  <2>4. UNCHANGED ring
    BY <1>1 DEF ring
  <2>5. /\ Ahead(a) = Ahead(ptr_out)
        /\ \A i \in 1..Ahead(a) : Place(a, i) = Place(ptr_out, i)
    BY <2>2
  <2>6. Unlapped' /\ Pending' = Pending /\ Ahead(Begin)' = Ahead(Begin)
    BY <1>3, <2>3, <2>4, <2>5, GiveKeepsPending DEF StreamInv
  <2>7. FifoIsLoaded'
    <3>1. xfer'.st # "loaded"
      BY <2>1 DEF Give
    <3>2. QED
      BY <1>1, <3>1 DEF FifoIsLoaded
  <2>8. QED
    BY <1>1, <1>2, <2>6, <2>7, RoomStays DEF StreamInv, Stream!Take
<1>6. QED
  BY <1>4, <1>5

-----------------------------------------------------------------------------
LEMMA InitStreams == Init => StreamInv /\ Stream!Init
<1> SUFFICES ASSUME Init PROVE StreamInv /\ Stream!Init
  OBVIOUS
<1>1. /\ ptr_in = 0 /\ ptr_out = 0 /\ length = 0 /\ fifo = <<>> /\ wstage = "idle"
      /\ xfer.st = "idle"
  BY DEF Init, Idle
<1>2. StreamInv
  BY <1>1 DEF StreamInv, Unlapped, Ahead, FifoIsLoaded, WriteHasRoom
<1>3. BytesTyped
  BY IntervalAssumption, SizeAssumption
  DEF Init, BytesTyped, IntervalAssumption, SizeAssumption
<1>4. Pended
  BY <1>2, <1>3, InitIInv, PendingIs DEF StreamInv
<1>5. Begin = 0
  BY <1>1 DEF Begin
<1>6. Pending = <<>>
  BY <1>1, <1>4, <1>5 DEF Pended, Ahead
<1>7. QED
  BY <1>1, <1>2, <1>6 DEF Stream!Init

LEMMA StreamStep ==
  ASSUME Undisturbed
  PROVE  /\ IInv /\ BytesTyped /\ Counted /\ StreamInv /\ [Next]_vars
         /\ IInv' /\ BytesTyped' /\ Counted'
         => StreamInv' /\ [Stream!Next]_(Stream!vars)
<1> SUFFICES ASSUME IInv, BytesTyped, Counted, StreamInv, [Next]_vars,
                    IInv', BytesTyped', Counted'
             PROVE  StreamInv' /\ [Stream!Next]_(Stream!vars)
  OBVIOUS
<1>1. Pended
  BY DEF Counted, StreamInv
<1>2. CASE (\E b \in Bytes : MainLoad(b)) \/ MainPut \/ MainStore
  BY <1>1, <1>2, MainStreams
<1>3. CASE \E b \in Bytes : IsrSend(b)
  BY <1>1, <1>3, IsrStreams
<1>4. CASE SOF
  BY <1>1, <1>4, SofStreams
<1>5. CASE WriteEmptyTxFifo
  BY <1>1, <1>5, FifoStreams DEF Stream!Next
<1>6. CASE DataIn
  BY <1>1, <1>6, DataInStreams DEF Stream!Next
<1>7. CASE XferLost
  BY <1>7 DEF XferLost, Undisturbed
<1>8. CASE OtherSOF \/ UNCHANGED vars
  <2>1. UNCHANGED <<ptr_in, buf, ptr_out, length, xfer, fifo, wstage, wreg>>
    BY <1>8 DEF vars, OtherSOF, ring, writer
  <2>2. Unlapped' /\ Pending' = Pending /\ Ahead(Begin)' = Ahead(Begin)
    BY <1>1, <2>1, WriterWaits DEF StreamInv
  <2>3. FifoIsLoaded'
    BY <2>1 DEF StreamInv, FifoIsLoaded
  <2>4. QED
    BY <2>1, <2>2, <2>3, RoomStays DEF StreamInv, Stream!vars
<1>9. QED
  BY <1>2, <1>3, <1>4, <1>5, <1>6, <1>7, <1>8 DEF Next

(* While the writers leave the host room, write in one context only and no *)
(* transfer is lost, every byte for which USB_Send_Data returned USBD_OK   *)
(* reaches the host once, in its place, in packets of 1..Packet bytes:     *)
(* whatever interrupts arrive between the load, the store of the byte and  *)
(* the store of the index, and for every size of the ring.                 *)
THEOREM NoByteIsLost ==
  ASSUME Paced, ~LosesXfers, Writers # {"main", "isr"}
  PROVE  Spec => LosesNoByte
<1>1. Undisturbed
  BY DEF Undisturbed
<1>2. Init => BytesTyped
  BY IntervalAssumption, SizeAssumption
  DEF Init, BytesTyped, IntervalAssumption, SizeAssumption
<1>3. IInv /\ BytesTyped => Counted
  BY PendingIs DEF Counted
<1>4. /\ IInv /\ BytesTyped /\ Counted /\ StreamInv /\ [Next]_vars
      /\ IInv' /\ BytesTyped' /\ Counted'
      => StreamInv' /\ [Stream!Next]_(Stream!vars)
  BY <1>1, StreamStep
<1>5. QED
  BY <1>2, <1>3, <1>4, InitStreams, StepBytes, IInvHolds, PTL
  DEF Spec, LosesNoByte, Stream!Spec

=============================================================================
