------------------------------- MODULE EthTx -------------------------------
(***************************************************************************)
(* The ring of transmit descriptors, between lwIP, which calls             *)
(* low_level_output for a frame, and the DMA of the Ethernet MAC.          *)
(*                                                                         *)
(* low_level_output copies the frame into the buffer of DMATxDescToSet     *)
(* before ETH_Prepare_Transmit_Descriptors looks whether the descriptor is *)
(* free, and returns ERR_OK whatever that finds.  lwIP's frames fit into   *)
(* one buffer (1514 bytes into 1524).                                      *)
(***************************************************************************)
EXTENDS Naturals, Sequences

CONSTANTS
  TxN,       \* ETH_TXBUFNB
  TxFrames,  \* frames, of different lengths
  Mixed,     \* a frame with bytes or with the length of another one
  NoFrame

ASSUME TxAssumption ==
  /\ TxN \in Nat /\ TxN > 1
  /\ Mixed \notin TxFrames /\ NoFrame \notin TxFrames /\ Mixed # NoFrame

VARIABLES
  txOwn,     \* OWN of each descriptor
  txSize,    \* the frame whose length is in ControlBufferSize
  txBuf,     \* the frame whose bytes are in the buffer
  DMATxDescToSet,
  txAt,      \* the descriptor the DMA is at
  txRun,     \* the transmit process of the DMA
  TBUS,      \* its transmit-buffer-unavailable flag
  txPhase,   \* how far it has come with its descriptor
  txOut,     \* what it has read of the buffer
  txPc,      \* where low_level_output is
  txFrame,   \* the frame it was called with
  wire       \* the last frame sent

txVars == <<txOwn, txSize, txBuf, DMATxDescToSet, txAt, txRun, TBUS, txPhase,
            txOut, txPc, txFrame, wire>>

TxDescs == 0..TxN-1
Contents == TxFrames \union {Mixed, NoFrame}

(* Buffer2NextDescAddr: the chain closes at its end. *)
TxNextOf(d) == IF d < TxN - 1 THEN d + 1 ELSE 0

TxTypeOK ==
  /\ txOwn \in [TxDescs -> BOOLEAN]
  /\ txSize \in [TxDescs -> Contents]
  /\ txBuf \in [TxDescs -> Contents]
  /\ DMATxDescToSet \in TxDescs
  /\ txAt \in TxDescs
  /\ txRun \in {"run", "suspended", "stopped"}
  /\ TBUS \in BOOLEAN
  /\ txPhase \in {"none", "reading", "read"}
  /\ txOut \in Contents
  /\ txPc \in {"stack", "copy", "prepare", "resume"}
  /\ txFrame \in Contents
  /\ wire \in Contents

(* After ETH_DMATxDescChainInit and ETH_Start. *)
TxInit ==
  /\ txOwn = [d \in TxDescs |-> FALSE]
  /\ txSize = [d \in TxDescs |-> NoFrame]
  /\ txBuf = [d \in TxDescs |-> NoFrame]
  /\ DMATxDescToSet = 0
  /\ txAt = 0
  /\ txRun = "run"
  /\ TBUS = FALSE
  /\ txPhase = "none"
  /\ txOut = NoFrame
  /\ txPc = "stack"
  /\ txFrame = NoFrame
  /\ wire = Mixed

-----------------------------------------------------------------------------
(* low_level_output.  While it copies, the buffer holds parts of two       *)
(* frames, and so does what a DMA reads that is at this descriptor.        *)
CopyStart(f) ==
  /\ txPc = "stack"
  /\ txFrame' = f
  /\ txBuf' = [txBuf EXCEPT ![DMATxDescToSet] = Mixed]
  /\ txOut' = IF txPhase = "reading" /\ txAt = DMATxDescToSet
                THEN Mixed ELSE txOut
  /\ txPc' = "copy"
  /\ UNCHANGED <<txOwn, txSize, DMATxDescToSet, txAt, txRun, TBUS, txPhase, wire>>

CopyEnd ==
  /\ txPc = "copy"
  /\ txBuf' = [txBuf EXCEPT ![DMATxDescToSet] = txFrame]
  /\ txPc' = "prepare"
  /\ UNCHANGED <<txOwn, txSize, DMATxDescToSet, txAt, txRun, TBUS, txPhase,
                 txOut, txFrame, wire>>

(* Mutant of Busy: the OWN bit is not looked at. *)
BusyNever == FALSE

(* The descriptor still belongs to the DMA. *)
Busy == txOwn[DMATxDescToSet]

(* Mutant of Prepare: the next descriptor is set also after an error. *)
PrepareAdvances ==
  /\ txPc = "prepare"
  /\ txFrame' = NoFrame
  /\ txSize' = [txSize EXCEPT ![DMATxDescToSet] = IF Busy THEN @ ELSE txFrame]
  /\ txOwn' = [txOwn EXCEPT ![DMATxDescToSet] = TRUE]
  /\ DMATxDescToSet' = TxNextOf(DMATxDescToSet)
  /\ txPc' = "resume"
  /\ UNCHANGED <<txBuf, txAt, txRun, TBUS, txPhase, txOut, wire>>

(* ETH_Prepare_Transmit_Descriptors: ETH_ERROR, which nobody looks at, or  *)
(* the length and the descriptor go to the DMA.                            *)
Prepare ==
  /\ txPc = "prepare"
  /\ txFrame' = NoFrame
  /\ \/ /\ Busy
        /\ txPc' = "stack"
        /\ UNCHANGED <<txOwn, txSize, DMATxDescToSet>>
     \/ /\ ~Busy
        /\ txSize' = [txSize EXCEPT ![DMATxDescToSet] = txFrame]
        /\ txOwn' = [txOwn EXCEPT ![DMATxDescToSet] = TRUE]
        /\ DMATxDescToSet' = TxNextOf(DMATxDescToSet)
        /\ txPc' = "resume"
  /\ UNCHANGED <<txBuf, txAt, txRun, TBUS, txPhase, txOut, wire>>

(* Mutant of Demanded: the poll demand comes without a suspended DMA only. *)
DemandedNot == txRun

Demanded == IF TBUS /\ txRun = "suspended" THEN "run" ELSE txRun

ResumeTx ==
  /\ txPc = "resume"
  /\ TBUS' = FALSE
  /\ txRun' = Demanded
  /\ txPc' = "stack"
  /\ UNCHANGED <<txOwn, txSize, txBuf, DMATxDescToSet, txAt, txPhase, txOut,
                 txFrame, wire>>

-----------------------------------------------------------------------------
(* The DMA reads the buffer, sends what it has read, and gives the         *)
(* descriptor back.  (That it may read a second frame ahead makes no       *)
(* difference: the processor writes to buffers of its own or to the first.)*)
InBuffer(d) == IF txBuf[d] = txSize[d] THEN txBuf[d] ELSE Mixed

TxRead ==
  /\ txRun = "run"
  /\ txPhase = "none"
  /\ txOwn[txAt]
  /\ txPhase' = "reading"
  /\ txOut' = InBuffer(txAt)
  /\ UNCHANGED <<txOwn, txSize, txBuf, DMATxDescToSet, txAt, txRun, TBUS,
                 txPc, txFrame, wire>>

TxHasRead ==
  /\ txPhase = "reading"
  /\ txPhase' = "read"
  /\ UNCHANGED <<txOwn, txSize, txBuf, DMATxDescToSet, txAt, txRun, TBUS,
                 txOut, txPc, txFrame, wire>>

(* What a buffer held that was sent, and is not being copied to, is        *)
(* forgotten.                                                              *)
TxSent ==
  /\ txPhase = "read"
  /\ wire' = txOut
  /\ txOwn' = [txOwn EXCEPT ![txAt] = FALSE]
  /\ txSize' = [txSize EXCEPT ![txAt] = NoFrame]
  /\ txBuf' = IF txPc \in {"copy", "prepare"} /\ DMATxDescToSet = txAt
                THEN txBuf ELSE [txBuf EXCEPT ![txAt] = NoFrame]
  /\ txAt' = TxNextOf(txAt)
  /\ txPhase' = "none"
  /\ txOut' = NoFrame
  /\ UNCHANGED <<DMATxDescToSet, txRun, TBUS, txPc, txFrame>>

TxSuspend ==
  /\ txRun = "run"
  /\ txPhase = "none"
  /\ ~txOwn[txAt]
  /\ txRun' = "suspended"
  /\ TBUS' = TRUE
  /\ UNCHANGED <<txOwn, txSize, txBuf, DMATxDescToSet, txAt, txPhase, txOut,
                 txPc, txFrame, wire>>

(* ETH_SoftwareReset; nothing calls ETH_Start afterwards. *)
TxReset ==
  /\ txRun # "stopped"
  /\ txRun' = "stopped"
  /\ TBUS' = FALSE
  /\ txPhase' = "none"
  /\ txOut' = NoFrame
  /\ UNCHANGED <<txOwn, txSize, txBuf, DMATxDescToSet, txAt, txPc, txFrame, wire>>

Transmit == CopyEnd \/ Prepare \/ ResumeTx
TxDma == TxRead \/ TxHasRead \/ TxSent
TxStep ==
  (\E f \in TxFrames : CopyStart(f)) \/ Transmit \/ TxDma \/ TxSuspend \/ TxReset

TxSpec == TxInit /\ [][TxStep]_txVars

-----------------------------------------------------------------------------
(* Properties. *)

TxArc(a, b) == {d \in TxDescs : IF a < b THEN a <= d /\ d < b
                                         ELSE a <= d \/ d < b}
TxOwned == {d \in TxDescs : txOwn[d]}

(* The DMA owns exactly the descriptors from the one it is at up to the    *)
(* next one to set, also when frames come faster than they leave: a full   *)
(* ring is never taken for an empty one.                                   *)
TxWindow ==
  \/ TxOwned = {} /\ DMATxDescToSet = txAt
  \/ TxOwned # {} /\ TxOwned = TxArc(txAt, DMATxDescToSet)

(* Only the frame that is due next can be spoiled by a frame that finds    *)
(* the ring full, and only then; all others leave as lwIP handed them over.*)
OthersIntact ==
  \A d \in TxOwned : txBuf[d] # txSize[d] => d = txAt /\ TxOwned = TxDescs

(* A suspended DMA has nothing to send, once low_level_output is back.     *)
NothingStranded ==
  txRun = "suspended" /\ txPc # "resume" => TxOwned = {}

(* The frames that wait for the DMA, read off the descriptors. *)
TxWaiting ==
  LET from == (DMATxDescToSet + TxN - txAt) % TxN
      n    == IF from = 0 /\ txOwn[txAt] THEN TxN ELSE from
  IN  [i \in 1..n |->
        LET d == (txAt + i - 1) % TxN
        IN  IF i = 1 /\ txPhase # "none" THEN txOut ELSE InBuffer(d)]

TxQueue == INSTANCE FrameQueue WITH
  Items <- TxFrames, Fragile <- {}, Torn <- Mixed,
  Cap <- TxN, queue <- TxWaiting, last <- wire

(* Frames leave in the order in which lwIP handed them over, each once.    *)
(* One that finds the ring full is not queued, though ERR_OK says it was:  *)
(* it takes the place of the oldest waiting frame, or spoils it.           *)
TxIsQueue == TxQueue!TxSpec

(* Every descriptor that the DMA owns comes back, with a cable that is     *)
(* connected, unless the MAC is reset.                                     *)
TxDrains == \A d \in TxDescs : txOwn[d] ~> (~txOwn[d] \/ txRun = "stopped")

=============================================================================
