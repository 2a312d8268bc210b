------------------------------- MODULE EthRx -------------------------------
(***************************************************************************)
(* The ring of receive descriptors, between the DMA of the Ethernet MAC,   *)
(* which fills a buffer and gives its descriptor to the processor, and the *)
(* main loop, which polls with ETH_CheckFrameReceived, copies the frame in *)
(* low_level_input and gives the descriptors back.                         *)
(*                                                                         *)
(* A frame may take several buffers.  With the buffers as built (1524      *)
(* bytes) the MAC passes on no such frame; smaller ones                    *)
(* (CUSTOM_DRIVER_BUFFERS_CONFIG) make the driver's code for segments run. *)
(***************************************************************************)
EXTENDS Naturals, Sequences, FiniteSets

CONSTANTS
  RxN,      \* ETH_RXBUFNB
  Frames,
  Pieces,   \* how many buffers each frame takes
  None      \* no frame

ASSUME RxAssumption ==
  /\ RxN \in Nat /\ RxN > 1
  /\ Pieces \in [Frames -> Nat \ {0}]
  /\ None \notin Frames

VARIABLES
  rxDesc,          \* of each descriptor: OWN, FS, LS, and the length at LS
  rxBuf,           \* the piece of a frame in its buffer
  DMARxDescToGet,
  FS_Rx_Desc,
  Seg_Count,
  rxAt,            \* the descriptor the DMA is at
  rxPart,          \* the frame it is storing and the pieces stored so far
  rxRun,           \* the receive process of the DMA
  RBUS,            \* its receive-buffer-unavailable flag
  rxPc,            \* where the main loop is
  relDesc,         \* DMARxNextDesc, the descriptor to be released next
  relLeft,         \* how many are to be released
  got              \* the last frame handed to lwIP

rxVars == <<rxDesc, rxBuf, DMARxDescToGet, FS_Rx_Desc, Seg_Count, rxAt, rxPart,
            rxRun, RBUS, rxPc, relDesc, relLeft, got>>

RxDescs == 0..RxN-1
Ready == [own |-> TRUE, fs |-> FALSE, ls |-> FALSE, len |-> 0]
Torn == <<"torn">>

(* Buffer2NextDescAddr: the chain closes at its end. *)
RxNextOf(d) == IF d < RxN - 1 THEN d + 1 ELSE 0

RxTypeOK ==
  /\ rxDesc \in [RxDescs -> [own: BOOLEAN, fs: BOOLEAN, ls: BOOLEAN, len: Nat]]
  /\ rxBuf \in [RxDescs -> (Frames \X Nat) \union {<<None, 0>>}]
  /\ DMARxDescToGet \in RxDescs
  /\ FS_Rx_Desc \in RxDescs
  /\ Seg_Count \in Nat
  /\ rxAt \in RxDescs
  /\ rxPart \in (Frames \X Nat) \union {<<None, 0>>}
  /\ rxRun \in {"run", "suspended", "stopped"}
  /\ RBUS \in BOOLEAN
  /\ rxPc \in {"poll", "input", "release", "resume"}
  /\ relDesc \in RxDescs
  /\ relLeft \in Nat

(* After ETH_DMARxDescChainInit and ETH_Start. *)
RxInit ==
  /\ rxDesc = [d \in RxDescs |-> Ready]
  /\ rxBuf = [d \in RxDescs |-> <<None, 0>>]
  /\ DMARxDescToGet = 0
  /\ FS_Rx_Desc = 0
  /\ Seg_Count = 0
  /\ rxAt = 0
  /\ rxPart = <<None, 0>>
  /\ rxRun = "run"
  /\ RBUS = FALSE
  /\ rxPc = "poll"
  /\ relDesc = 0
  /\ relLeft = 0
  /\ got = Torn

-----------------------------------------------------------------------------
(* The DMA.  The next piece of a frame goes to the descriptor it is at; a  *)
(* frame for which it does not own the next descriptor is cut off and ends *)
(* here.                                                                   *)
RxStore(f) ==
  LET k == rxPart[2] + 1
      ends == k = Pieces[f] \/ ~rxDesc[RxNextOf(rxAt)].own
  IN  /\ rxRun = "run"
      /\ rxDesc[rxAt].own
      /\ rxPart[1] \in {f, None}
      /\ rxDesc' = [rxDesc EXCEPT ![rxAt] =
           [own |-> FALSE, fs |-> k = 1, ls |-> ends,
            len |-> IF ends THEN k ELSE 0]]
      /\ rxBuf' = [rxBuf EXCEPT ![rxAt] = <<f, k>>]
      /\ rxAt' = RxNextOf(rxAt)
      /\ rxPart' = IF ends THEN <<None, 0>> ELSE <<f, k>>
      /\ UNCHANGED <<DMARxDescToGet, FS_Rx_Desc, Seg_Count, rxRun, RBUS, rxPc,
                     relDesc, relLeft, got>>

(* It suspends itself at a descriptor that is not its own. *)
RxSuspend ==
  /\ rxRun = "run"
  /\ ~rxDesc[rxAt].own
  /\ rxRun' = "suspended"
  /\ RBUS' = TRUE
  /\ UNCHANGED <<rxDesc, rxBuf, DMARxDescToGet, FS_Rx_Desc, Seg_Count, rxAt,
                 rxPart, rxPc, relDesc, relLeft, got>>

(* A frame from the wire makes it look at the descriptor again. *)
RxRetry ==
  /\ rxRun = "suspended"
  /\ rxDesc[rxAt].own
  /\ rxRun' = "run"
  /\ UNCHANGED <<rxDesc, rxBuf, DMARxDescToGet, FS_Rx_Desc, Seg_Count, rxAt,
                 rxPart, RBUS, rxPc, relDesc, relLeft, got>>

(* ETH_SoftwareReset, in the main loop or in the wake-up interrupt: it     *)
(* clears the registers, the descriptors stay, and ETH_Start is not called *)
(* again (MainLoop!ResetEthStaysDown).                                     *)
RxReset ==
  /\ rxRun # "stopped"
  /\ rxRun' = "stopped"
  /\ RBUS' = FALSE
  /\ rxPart' = <<None, 0>>
  /\ UNCHANGED <<rxDesc, rxBuf, DMARxDescToGet, FS_Rx_Desc, Seg_Count, rxAt,
                 rxPc, relDesc, relLeft, got>>

-----------------------------------------------------------------------------
(* The main loop: ETH_CheckFrameReceived takes one segment per pass.       *)
CheckLast ==
  /\ rxDesc[DMARxDescToGet].ls
  /\ Seg_Count' = Seg_Count + 1
  /\ rxPc' = "input"
  /\ UNCHANGED <<DMARxDescToGet, FS_Rx_Desc>>

(* Mutant of CheckFirst: the count goes on from the frame before. *)
CheckFirstNoCount ==
  /\ rxDesc[DMARxDescToGet].fs /\ ~rxDesc[DMARxDescToGet].ls
  /\ FS_Rx_Desc' = DMARxDescToGet
  /\ DMARxDescToGet' = RxNextOf(DMARxDescToGet)
  /\ UNCHANGED <<Seg_Count, rxPc>>

CheckFirst ==
  /\ rxDesc[DMARxDescToGet].fs /\ ~rxDesc[DMARxDescToGet].ls
  /\ FS_Rx_Desc' = DMARxDescToGet
  /\ Seg_Count' = 1
  /\ DMARxDescToGet' = RxNextOf(DMARxDescToGet)
  /\ UNCHANGED rxPc

CheckMiddle ==
  /\ ~rxDesc[DMARxDescToGet].fs /\ ~rxDesc[DMARxDescToGet].ls
  /\ Seg_Count' = Seg_Count + 1
  /\ DMARxDescToGet' = RxNextOf(DMARxDescToGet)
  /\ UNCHANGED <<FS_Rx_Desc, rxPc>>

CheckNone ==
  /\ rxDesc[DMARxDescToGet].own
  /\ UNCHANGED <<DMARxDescToGet, FS_Rx_Desc, Seg_Count, rxPc>>

ETH_CheckFrameReceived ==
  /\ rxPc = "poll"
  /\ \/ CheckNone
     \/ /\ ~rxDesc[DMARxDescToGet].own
        /\ CheckLast \/ CheckFirst \/ CheckMiddle
  /\ UNCHANGED <<rxDesc, rxBuf, rxAt, rxPart, rxRun, RBUS, relDesc, relLeft, got>>

(* Mutant of FirstDesc: Seg_Count is not looked at. *)
FirstDescAny == FS_Rx_Desc

(* Where a frame that has been checked begins. *)
FirstDesc == IF Seg_Count > 1 THEN FS_Rx_Desc ELSE DMARxDescToGet

(* low_level_input copies the frame from one address on: what lies behind  *)
(* the last buffer is not the first one.  A frame that is read piece by    *)
(* piece, or up to where it was cut off, comes out right.                  *)
Copied ==
  LET n == rxDesc[DMARxDescToGet].len
      f == rxBuf[FirstDesc][1]
  IN  IF \A k \in 1..n : /\ FirstDesc + k - 1 < RxN
                         /\ rxBuf[FirstDesc + k - 1] = <<f, k>>
        THEN <<f, n>> ELSE Torn

(* pbuf_alloc may find no memory: the frame is dropped. *)
Fetch(allocated) ==
  /\ rxPc = "input"
  /\ got' = IF allocated THEN Copied ELSE got
  /\ DMARxDescToGet' = RxNextOf(DMARxDescToGet)
  /\ relDesc' = FirstDesc
  /\ relLeft' = Seg_Count
  /\ rxPc' = "release"
  /\ UNCHANGED <<rxDesc, rxBuf, FS_Rx_Desc, Seg_Count, rxAt, rxPart, rxRun, RBUS>>

(* One descriptor per step goes back; what is in its buffer is forgotten.  *)
Release ==
  /\ rxPc = "release"
  /\ rxDesc' = [rxDesc EXCEPT ![relDesc] = Ready]
  /\ rxBuf' = [rxBuf EXCEPT ![relDesc] = <<None, 0>>]
  /\ relDesc' = RxNextOf(relDesc)
  /\ relLeft' = relLeft - 1
  /\ rxPc' = IF relLeft = 1 THEN "resume" ELSE "release"
  /\ UNCHANGED <<DMARxDescToGet, FS_Rx_Desc, Seg_Count, rxAt, rxPart, rxRun,
                 RBUS, got>>

(* Mutant of Resumed: the flag is cleared, the poll demand is missing. *)
ResumedNot == rxRun

Resumed == IF RBUS /\ rxRun = "suspended" THEN "run" ELSE rxRun

ResumeRx ==
  /\ rxPc = "resume"
  /\ Seg_Count' = 0
  /\ RBUS' = FALSE
  /\ rxRun' = Resumed
  /\ rxPc' = "poll"
  /\ UNCHANGED <<rxDesc, rxBuf, DMARxDescToGet, FS_Rx_Desc, rxAt, rxPart,
                 relDesc, relLeft, got>>

RxPoll ==
  \/ ETH_CheckFrameReceived
  \/ \E allocated \in BOOLEAN : Fetch(allocated)
  \/ Release
  \/ ResumeRx

RxDma == (\E f \in Frames : RxStore(f)) \/ RxSuspend \/ RxRetry

RxStep == RxPoll \/ RxDma \/ RxReset

RxSpec == RxInit /\ [][RxStep]_rxVars

-----------------------------------------------------------------------------
(* Properties. *)

(* The oldest descriptor that the processor still holds. *)
RxHead ==
  CASE rxPc = "release"                   -> relDesc
    [] rxPc = "poll" /\ Seg_Count > 0     -> FS_Rx_Desc
    [] rxPc = "input"                     -> FirstDesc
    [] OTHER                              -> DMARxDescToGet

RxArc(a, b) == {d \in RxDescs : IF a < b THEN a <= d /\ d < b
                                         ELSE a <= d \/ d < b}

RxHeld == {d \in RxDescs : ~rxDesc[d].own}

(* No descriptor is lost and none is given back too early: at every moment *)
(* the processor holds exactly those from the oldest unreleased one up to  *)
(* where the DMA is, however frames of several segments are collected over *)
(* passes, dropped, and released under a DMA that is filling.              *)
RxWindow ==
  \/ RxHeld = {} /\ RxHead = rxAt
  \/ RxHeld # {} /\ RxHeld = RxArc(RxHead, rxAt)

(* The frames that wait for the main loop, read off the descriptors: how   *)
(* many it has not read yet, the i-th of them, those that end a frame, and *)
(* the k-th of these.                                                      *)
Unread ==
  LET from == (rxAt + RxN - DMARxDescToGet) % RxN
      full == ~rxDesc[DMARxDescToGet].own /\ rxPc # "release"
  IN  IF from = 0 /\ full THEN RxN ELSE from

UnreadAt(i) == (DMARxDescToGet + i - 1) % RxN

Completed == {i \in 1..Unread : rxDesc[UnreadAt(i)].ls}

Nth(S, k) == CHOOSE i \in S : Cardinality({j \in S : j <= i}) = k

FrameAt(d) == <<rxBuf[d][1], rxDesc[d].len>>

RxWaiting ==
  [k \in 1..Cardinality(Completed) |-> FrameAt(UnreadAt(Nth(Completed, k)))]

Lengths == 1..RxN
RxQueue == INSTANCE FrameQueue WITH
  Items <- Frames \X Lengths, Fragile <- Frames \X (Lengths \ {1}),
  Cap <- RxN, queue <- RxWaiting, last <- got

(* Frames reach lwIP in the order in which the MAC completed them, each at *)
(* most once and with its bytes.  Only one that takes several buffers can  *)
(* be torn: low_level_input reads past the last buffer.                    *)
RxIsQueue == RxQueue!RxSpec

(* A DMA that suspended itself for want of a buffer is set going again,    *)
(* without waiting for another frame to make it look.                      *)
RxResumes == rxRun = "suspended" ~> rxRun # "suspended"

=============================================================================
