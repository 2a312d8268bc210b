------------------------------ MODULE EthProofs ------------------------------
(***************************************************************************)
(* Proofs about EthTx and EthRx, for rings of every length.                *)
(***************************************************************************)
EXTENDS EthRx, EthTx, SequenceTheorems,
        FiniteSetTheorems, TLAPS

(* An arc of the transmit ring, when its end or its beginning moves on.    *)
LEMMA TxNextIs ==
  ASSUME NEW a \in TxDescs
  PROVE  TxNextOf(a) \in TxDescs /\ TxNextOf(a) # a
BY TxAssumption DEF TxAssumption, TxDescs, TxNextOf

LEMMA TxArcHolds ==
  ASSUME NEW a \in TxDescs, NEW b \in TxDescs
  PROVE  /\ a \in TxArc(a, b)
         /\ b \in TxArc(a, b) => a = b
         /\ a = b => TxArc(a, b) = TxDescs
BY TxAssumption DEF TxAssumption, TxDescs, TxArc

LEMMA TxArcOfOne ==
  ASSUME NEW a \in TxDescs
  PROVE  TxArc(a, TxNextOf(a)) = {a}
BY TxAssumption DEF TxAssumption, TxDescs, TxArc, TxNextOf

LEMMA TxArcGrows ==
  ASSUME NEW a \in TxDescs, NEW b \in TxDescs, a # b
  PROVE  TxArc(a, TxNextOf(b)) = TxArc(a, b) \union {b}
BY TxAssumption DEF TxAssumption, TxDescs, TxArc, TxNextOf

LEMMA TxArcShrinks ==
  ASSUME NEW a \in TxDescs, NEW b \in TxDescs, b # TxNextOf(a)
  PROVE  TxArc(TxNextOf(a), b) = TxArc(a, b) \ {a}
BY TxAssumption DEF TxAssumption, TxDescs, TxArc, TxNextOf

-----------------------------------------------------------------------------
(* What TxWindow and OthersIntact need: the DMA is busy with a descriptor  *)
(* it owns; a frame that is about to be given to it lies in its buffer;    *)
(* and a DMA that is suspended has said so in TBUS.                        *)
TxInv ==
  /\ TxTypeOK /\ TxWindow /\ OthersIntact /\ NothingStranded
  /\ txPhase # "none" => txOwn[txAt]
  /\ txPc = "prepare" => txBuf[DMATxDescToSet] = txFrame
  /\ txRun = "suspended" => TBUS

LEMMA TxOwnedIs ==
  ASSUME TxTypeOK, TxWindow
  PROVE  /\ txAt \in TxDescs /\ DMATxDescToSet \in TxDescs
         /\ ~txOwn[txAt] <=> TxOwned = {}
         /\ txOwn[DMATxDescToSet] <=> TxOwned = TxDescs
         /\ txOwn[DMATxDescToSet] => DMATxDescToSet = txAt
BY TxArcHolds DEF TxTypeOK, TxWindow, TxOwned

LEMMA TxTypeStep == TxTypeOK /\ [TxStep]_txVars => TxTypeOK'
<1> SUFFICES ASSUME TxTypeOK, [TxStep]_txVars PROVE TxTypeOK'
  OBVIOUS
<1> USE DEF TxTypeOK, Contents
<1>1. ASSUME NEW f \in TxFrames, CopyStart(f) PROVE TxTypeOK'
  BY <1>1 DEF CopyStart
<1>2. CASE CopyEnd
  BY <1>2 DEF CopyEnd
<1>3. CASE Prepare
  BY <1>3, TxNextIs DEF Prepare
<1>4. CASE ResumeTx
  BY <1>4 DEF ResumeTx, Demanded
<1>5. CASE TxRead
  BY <1>5 DEF TxRead, InBuffer
<1>6. CASE TxHasRead
  BY <1>6 DEF TxHasRead
<1>7. CASE TxSent
  BY <1>7, TxNextIs DEF TxSent
<1>8. CASE TxSuspend
  BY <1>8 DEF TxSuspend
<1>9. CASE TxReset
  BY <1>9 DEF TxReset
<1>10. CASE UNCHANGED txVars
  BY <1>10 DEF txVars
<1>11. QED
  BY <1>1, <1>2, <1>3, <1>4, <1>5, <1>6, <1>7, <1>8, <1>9, <1>10
  DEF TxStep, Transmit, TxDma

(* Nothing that the DMA or a window depends on changes.                    *)
LEMMA TxSameWindow ==
  ASSUME TxInv, UNCHANGED <<txOwn, DMATxDescToSet, txAt>>
  PROVE  TxWindow' /\ TxOwned' = TxOwned
BY DEF TxInv, TxWindow, TxOwned

LEMMA TxCopying ==
  ASSUME TxInv, TxTypeOK', NEW x \in Contents,
         txBuf' = [txBuf EXCEPT ![DMATxDescToSet] = x],
         UNCHANGED <<txOwn, txSize, DMATxDescToSet, txAt>>
  PROVE  TxWindow' /\ OthersIntact' /\ TxOwned' = TxOwned
<1>1. TxWindow' /\ TxOwned' = TxOwned
  BY TxSameWindow
<1>2. OthersIntact'
  <2> SUFFICES ASSUME NEW d \in TxOwned, txBuf'[d] # txSize[d]
               PROVE  d = txAt /\ TxOwned = TxDescs
    BY <1>1 DEF OthersIntact
  <2>1. CASE d = DMATxDescToSet
    BY <2>1, TxOwnedIs DEF TxInv, TxOwned
  <2>2. CASE d # DMATxDescToSet
    BY <2>2 DEF TxInv, OthersIntact, TxTypeOK, TxOwned
  <2>3. QED
    BY <2>1, <2>2
<1>3. QED
  BY <1>1, <1>2

LEMMA TxPrepared == TxInv /\ TxTypeOK' /\ Prepare => TxInv'
<1> SUFFICES ASSUME TxInv, TxTypeOK', Prepare PROVE TxInv'
  OBVIOUS
<1> USE DEF TxInv
<1>1. CASE /\ Busy /\ txPc' = "stack"
           /\ UNCHANGED <<txOwn, txSize, DMATxDescToSet>>
  <2>1. UNCHANGED <<txBuf, txAt, txRun, TBUS, txPhase>> /\ txPc = "prepare"
    BY DEF Prepare
  <2>2. TxWindow' /\ TxOwned' = TxOwned
    BY <1>1, <2>1, TxSameWindow
  <2>3. QED
    BY <1>1, <2>1, <2>2 DEF OthersIntact, NothingStranded
<1>2. CASE /\ ~Busy /\ txPc' = "resume"
           /\ txSize' = [txSize EXCEPT ![DMATxDescToSet] = txFrame]
           /\ txOwn' = [txOwn EXCEPT ![DMATxDescToSet] = TRUE]
           /\ DMATxDescToSet' = TxNextOf(DMATxDescToSet)
  <2>1. UNCHANGED <<txBuf, txAt, txRun, TBUS, txPhase>> /\ txPc = "prepare"
    BY DEF Prepare
  <2>2. /\ DMATxDescToSet \in TxDescs /\ txAt \in TxDescs
        /\ DMATxDescToSet \notin TxOwned /\ TxOwned # TxDescs
    BY <1>2, TxOwnedIs DEF Busy, TxOwned
  <2>3. TxOwned' = TxOwned \union {DMATxDescToSet}
    BY <1>2, <2>2 DEF TxOwned, TxTypeOK
  <2>4. TxOwned' = TxArc(txAt, DMATxDescToSet')
    <3>1. CASE TxOwned = {}
      BY <1>2, <2>2, <2>3, <3>1, TxArcOfOne, TxArcHolds DEF TxWindow
    <3>2. CASE TxOwned # {}
      <4>1. TxOwned = TxArc(txAt, DMATxDescToSet)
        BY <3>2 DEF TxWindow
      <4>2. DMATxDescToSet # txAt
        BY <2>2, <4>1, TxArcHolds
      <4>3. QED
        BY <1>2, <2>2, <2>3, <4>1, <4>2, TxArcGrows
    <3>3. QED
      BY <3>1, <3>2
  <2>5. TxWindow'
    BY <2>1, <2>3, <2>4 DEF TxWindow
  <2>6. OthersIntact'
    <3> SUFFICES ASSUME NEW d \in TxOwned' PROVE txBuf'[d] = txSize'[d]
      BY DEF OthersIntact
    <3>1. CASE d = DMATxDescToSet
      BY <1>2, <2>1, <2>2, <3>1 DEF TxTypeOK
    <3>2. CASE d # DMATxDescToSet
      BY <1>2, <2>1, <2>2, <2>3, <3>2 DEF TxTypeOK, OthersIntact, TxOwned
    <3>3. QED
      BY <3>1, <3>2
  <2>7. txPhase' # "none" => txOwn'[txAt']
    BY <1>2, <2>1, <2>2 DEF TxTypeOK
  <2>8. QED
    BY <1>2, <2>1, <2>5, <2>6, <2>7 DEF NothingStranded
<1>3. QED
  BY <1>1, <1>2 DEF Prepare

LEMMA TxGoesOn == TxInv /\ TxTypeOK' /\ TxSent => TxInv'
<1> SUFFICES ASSUME TxInv, TxTypeOK', TxSent PROVE TxInv'
  OBVIOUS
<1> USE DEF TxInv
<1>1. /\ txOwn[txAt] /\ txOwn' = [txOwn EXCEPT ![txAt] = FALSE]
      /\ txSize' = [txSize EXCEPT ![txAt] = NoFrame]
      /\ txBuf' = IF txPc \in {"copy", "prepare"} /\ DMATxDescToSet = txAt
                    THEN txBuf ELSE [txBuf EXCEPT ![txAt] = NoFrame]
      /\ txAt' = TxNextOf(txAt) /\ txPhase' = "none"
      /\ UNCHANGED <<DMATxDescToSet, txRun, TBUS, txPc, txFrame>>
  BY DEF TxSent
<1>2. txAt \in TxDescs /\ DMATxDescToSet \in TxDescs /\ txAt' \in TxDescs
  BY DEF TxTypeOK
<1>3. TxOwned' = TxOwned \ {txAt} /\ TxOwned = TxArc(txAt, DMATxDescToSet)
  BY <1>1, <1>2 DEF TxOwned, TxWindow, TxTypeOK
<1>4. TxWindow'
  <2>1. CASE DMATxDescToSet = TxNextOf(txAt)
    <3>1. TxOwned' = {}
      BY <1>2, <1>3, <2>1, TxArcOfOne
    <3>2. QED
      BY <1>1, <2>1, <3>1 DEF TxWindow
  <2>2. CASE DMATxDescToSet # TxNextOf(txAt)
    <3>1. TxOwned' = TxArc(txAt', DMATxDescToSet')
      BY <1>1, <1>2, <1>3, <2>2, TxArcShrinks
    <3>2. txAt' \in TxArc(txAt', DMATxDescToSet')
      BY <1>1, <1>2, TxArcHolds
    <3>3. TxOwned' # {}
      BY <3>1, <3>2
    <3>4. QED
      BY <3>1, <3>3 DEF TxWindow
  <2>3. QED
    BY <2>1, <2>2
<1>5. ASSUME NEW d \in TxDescs, d # txAt
      PROVE  txBuf'[d] = txBuf[d] /\ txSize'[d] = txSize[d]
  BY <1>1, <1>2, <1>5 DEF TxTypeOK
<1>6. OthersIntact'
  BY <1>3, <1>5 DEF OthersIntact, TxOwned
<1>7. NothingStranded'
  BY <1>1, <1>3 DEF NothingStranded
<1>8. txPc' = "prepare" => txBuf'[DMATxDescToSet'] = txFrame'
  BY <1>1, <1>2, <1>5
<1>9. QED
  BY <1>1, <1>4, <1>6, <1>7, <1>8

LEMMA TxStepKeeps == TxInv /\ [TxStep]_txVars => TxInv'
<1> SUFFICES ASSUME TxInv, [TxStep]_txVars PROVE TxInv'
  OBVIOUS
<1>1. TxTypeOK'
  BY TxTypeStep DEF TxInv
<1>2. ASSUME NEW f \in TxFrames, CopyStart(f) PROVE TxInv'
  <2>1. TxWindow' /\ OthersIntact' /\ TxOwned' = TxOwned
    BY <1>1, <1>2, TxCopying DEF CopyStart, Contents
  <2>2. QED
    BY <1>1, <1>2, <2>1 DEF TxInv, CopyStart, NothingStranded
<1>3. CASE CopyEnd
  <2>1. TxWindow' /\ OthersIntact' /\ TxOwned' = TxOwned
    BY <1>1, <1>3, TxCopying DEF CopyEnd, TxInv, TxTypeOK
  <2>2. txBuf'[DMATxDescToSet'] = txFrame'
    BY <1>3 DEF CopyEnd, TxInv, TxTypeOK
  <2>3. QED
    BY <1>1, <1>3, <2>1, <2>2 DEF TxInv, CopyEnd, NothingStranded
<1>4. CASE Prepare
  BY <1>1, <1>4, TxPrepared
<1>5. CASE TxSent
  BY <1>1, <1>5, TxGoesOn
<1>6. ASSUME ResumeTx \/ TxRead \/ TxHasRead \/ TxSuspend \/ TxReset
             \/ UNCHANGED txVars
      PROVE  TxInv'
  <2>1. UNCHANGED <<txOwn, txSize, txBuf, DMATxDescToSet, txAt, txFrame>>
    BY <1>6 DEF ResumeTx, TxRead, TxHasRead, TxSuspend, TxReset, txVars
  <2>2. TxWindow' /\ OthersIntact' /\ TxOwned' = TxOwned
    BY <2>1, TxSameWindow DEF TxInv, OthersIntact
  <2>3. txPhase' # "none" => txOwn'[txAt']
    BY <1>6, <2>1 DEF TxInv, ResumeTx, TxRead, TxHasRead, TxSuspend, TxReset,
       txVars
  <2>4. txPc' = "prepare" => txPc = "prepare"
    BY <1>6 DEF ResumeTx, TxRead, TxHasRead, TxSuspend, TxReset, txVars
  <2>5. txRun' = "suspended" => TBUS'
    BY <1>6 DEF TxInv, ResumeTx, Demanded, TxRead, TxHasRead, TxSuspend,
       TxReset, txVars
  <2>6. NothingStranded'
    <3>1. CASE ResumeTx
      BY <3>1 DEF ResumeTx, Demanded, TxInv, NothingStranded
    <3>2. CASE TxSuspend
      BY <2>2, <3>2, TxOwnedIs DEF TxSuspend, TxInv, NothingStranded
    <3>3. CASE TxRead \/ TxHasRead \/ TxReset \/ UNCHANGED txVars
      BY <2>2, <3>3 DEF TxRead, TxHasRead, TxReset, txVars, TxInv,
         NothingStranded
    <3>4. QED
      BY <1>6, <3>1, <3>2, <3>3
  <2>7. QED
    BY <1>1, <2>1, <2>2, <2>3, <2>4, <2>5, <2>6 DEF TxInv
<1>7. QED
  BY <1>2, <1>3, <1>4, <1>5, <1>6 DEF TxStep, Transmit, TxDma

LEMMA TxStarts == TxInit => TxInv
<1> SUFFICES ASSUME TxInit PROVE TxInv
  OBVIOUS
<1>1. 0 \in TxDescs
  BY TxAssumption DEF TxAssumption, TxDescs
<1>2. TxTypeOK /\ TxOwned = {}
  BY <1>1 DEF TxInit, TxTypeOK, TxOwned, Contents
<1>3. QED
  BY <1>2 DEF TxInit, TxInv, TxWindow, OthersIntact, NothingStranded

LEMMA TxInvHolds == TxSpec => []TxInv
BY TxStarts, TxStepKeeps, PTL DEF TxSpec

(* The types of the transmit ring.                                         *)
THEOREM TxTypeCorrect == TxSpec => []TxTypeOK
<1>1. TxInv => TxTypeOK
  BY DEF TxInv
<1>2. QED
  BY <1>1, TxInvHolds, PTL

(* In a ring of any length the DMA owns what lies between it and the next  *)
(* descriptor to set: a full ring is not taken for an empty one.           *)
THEOREM TxRingIsAWindow == TxSpec => []TxWindow
<1>1. TxInv => TxWindow
  BY DEF TxInv
<1>2. QED
  BY <1>1, TxInvHolds, PTL

(* A frame that low_level_output copies into a full ring spoils at most    *)
(* the one that is due next.                                               *)
THEOREM TxOthersStayIntact == TxSpec => []OthersIntact
<1>1. TxInv => OthersIntact
  BY DEF TxInv
<1>2. QED
  BY <1>1, TxInvHolds, PTL

(* A DMA that suspended itself is woken by the frame that ends its wait.   *)
THEOREM TxNothingIsStranded == TxSpec => []NothingStranded
<1>1. TxInv => NothingStranded
  BY DEF TxInv
<1>2. QED
  BY <1>1, TxInvHolds, PTL

-----------------------------------------------------------------------------
(* The transmit ring as a queue.  What waits is counted from the           *)
(* descriptor the DMA is at to the next one to set; i places on, in a ring *)
(* that closes; and what the wire would be given from there.               *)
TxCount ==
  IF DMATxDescToSet = txAt
    THEN IF txOwn[txAt] THEN TxN ELSE 0
    ELSE IF txAt < DMATxDescToSet THEN DMATxDescToSet - txAt
                                  ELSE DMATxDescToSet + TxN - txAt

TxSlot(a, i) == IF a + i - 1 < TxN THEN a + i - 1 ELSE a + i - 1 - TxN

TxEntry(i) ==
  IF i = 1 /\ txPhase # "none" THEN txOut ELSE InBuffer(TxSlot(txAt, i))

TxQueued ==
  /\ TxWaiting \in Seq(Contents) /\ Len(TxWaiting) = TxCount
  /\ \A i \in 1..TxCount : TxWaiting[i] = TxEntry(i)

LEMMA TxModulo ==
  ASSUME NEW v \in 0..2 * TxN - 1
  PROVE  v % TxN = IF v < TxN THEN v ELSE v - TxN
<1>1. TxN \in Nat \ {0}
  BY TxAssumption DEF TxAssumption
<1>2. ASSUME NEW a \in 0..TxN-1 PROVE a % TxN = a /\ (a + TxN) % TxN = a
  BY <1>1, <1>2
<1>3. CASE v < TxN
  BY <1>1, <1>2, <1>3
<1>4. CASE ~(v < TxN)
  <2>1. v - TxN \in 0..TxN-1 /\ (v - TxN) + TxN = v
    BY <1>1, <1>4
  <2>2. QED
    BY <1>2, <1>4, <2>1
<1>5. QED
  BY <1>3, <1>4

(* The places of the ring are all different.                               *)
LEMMA TxSlotIs ==
  ASSUME NEW a \in TxDescs, NEW i \in 1..TxN
  PROVE  /\ TxSlot(a, i) \in TxDescs
         /\ TxSlot(a, i) = a <=> i = 1
         /\ i < TxN => TxSlot(TxNextOf(a), i) = TxSlot(a, i + 1)
BY TxAssumption DEF TxAssumption, TxDescs, TxSlot, TxNextOf

LEMMA TxCountIs ==
  ASSUME TxTypeOK
  PROVE  /\ TxCount \in 0..TxN
         /\ TxCount = 0 <=> DMATxDescToSet = txAt /\ ~txOwn[txAt]
         /\ TxCount = TxN <=> DMATxDescToSet = txAt /\ txOwn[txAt]
         /\ TxCount < TxN => TxSlot(txAt, TxCount + 1) = DMATxDescToSet
         /\ \A i \in 1..TxCount :
              TxSlot(txAt, i) = DMATxDescToSet => i = 1 /\ DMATxDescToSet = txAt
BY TxAssumption DEF TxAssumption, TxTypeOK, TxDescs, TxSlot, TxCount

LEMMA TxWaitingIs == TxTypeOK => TxQueued
<1> SUFFICES ASSUME TxTypeOK PROVE TxQueued
  OBVIOUS
<1>1. TxN \in Nat \ {0} /\ txAt \in 0..TxN-1 /\ DMATxDescToSet \in 0..TxN-1
  BY TxAssumption DEF TxAssumption, TxTypeOK, TxDescs
<1> DEFINE from == (DMATxDescToSet + TxN - txAt) % TxN
           n    == IF from = 0 /\ txOwn[txAt] THEN TxN ELSE from
<1>2. n = TxCount
  <2>1. DMATxDescToSet + TxN - txAt \in 0..2 * TxN - 1
    BY <1>1
  <2>2. from = IF DMATxDescToSet < txAt THEN DMATxDescToSet + TxN - txAt
                                        ELSE DMATxDescToSet - txAt
    BY <1>1, <2>1, TxModulo
  <2>3. QED
    BY <1>1, <2>2 DEF TxCount
<1>3. TxCount \in Nat /\ TxCount \in 0..TxN
  BY <1>1, TxCountIs
<1>4. \A i \in 1..TxCount : (txAt + i - 1) % TxN = TxSlot(txAt, i)
  <2> TAKE i \in 1..TxCount
  <2>1. txAt + i - 1 \in 0..2 * TxN - 1
    BY <1>1, <1>3
  <2>2. PICK v \in 0..2 * TxN - 1 : v = txAt + i - 1
    BY <2>1
  <2>3. v % TxN = IF v < TxN THEN v ELSE v - TxN
    BY TxModulo
  <2>4. (txAt + i - 1) % TxN = v % TxN
    BY <2>2
  <2>5. QED
    BY <1>1, <1>3, <2>2, <2>3, <2>4 DEF TxSlot
<1>5. TxWaiting = [i \in 1..TxCount |->
        IF i = 1 /\ txPhase # "none" THEN txOut
                                     ELSE InBuffer((txAt + i - 1) % TxN)]
  BY <1>2 DEF TxWaiting
<1>6. TxWaiting = [i \in 1..TxCount |-> TxEntry(i)]
  BY <1>4, <1>5 DEF TxEntry
<1>7. ASSUME NEW i \in 1..TxCount PROVE TxEntry(i) \in Contents
  <2>1. TxSlot(txAt, i) \in TxDescs
    BY <1>1, <1>3, TxSlotIs DEF TxDescs
  <2>2. QED
    BY <2>1 DEF TxEntry, InBuffer, TxTypeOK, Contents
<1>8. TxWaiting \in [1..TxCount -> Contents]
  BY <1>6, <1>7
<1>9. QED
  BY <1>3, <1>6, <1>8 DEF TxQueued

(* What the steps make of it: the same, another first one, one more, one   *)
(* less.                                                                   *)
LEMMA TxWaitsOn ==
  ASSUME TxQueued, TxQueued', TxCount \in Nat, TxCount' = TxCount,
         \A i \in 1..TxCount : TxEntry(i)' = TxEntry(i)
  PROVE  TxWaiting' = TxWaiting
<1>1. \A i \in 1..TxCount : TxWaiting'[i] = TxWaiting[i]
  BY DEF TxQueued
<1>2. QED
  BY <1>1, SeqEqual DEF TxQueued

LEMMA TxFirstReplaced ==
  ASSUME TxQueued, TxQueued', TxCount \in Nat \ {0}, TxCount' = TxCount,
         \A i \in 2..TxCount : TxEntry(i)' = TxEntry(i),
         TxEntry(1)' \in Contents
  PROVE  TxWaiting' = [TxWaiting EXCEPT ![1] = TxEntry(1)']
<1> DEFINE q == [TxWaiting EXCEPT ![1] = TxEntry(1)']
<1>1. /\ q \in Seq(Contents) /\ Len(q) = TxCount
      /\ \A i \in 1..TxCount : q[i] = IF i = 1 THEN TxEntry(1)' ELSE TxWaiting[i]
  BY ExceptSeq DEF TxQueued
<1> HIDE DEF q
<1>2. ASSUME NEW i \in 1..TxCount PROVE TxWaiting'[i] = q[i]
  <2>1. CASE i = 1
    BY <1>1, <2>1 DEF TxQueued
  <2>2. CASE i # 1
    <3>1. i \in 2..TxCount
      BY <2>2
    <3>2. QED
      BY <1>1, <2>2, <3>1 DEF TxQueued
  <2>3. QED
    BY <2>1, <2>2
<1>3. TxWaiting' = q
  BY <1>1, <1>2, SeqEqual DEF TxQueued
<1>4. QED
  BY <1>3 DEF q

LEMMA TxOneMore ==
  ASSUME TxQueued, TxQueued', NEW n \in Nat, TxCount = n, TxCount' = n + 1,
         \A i \in 1..n : TxEntry(i)' = TxEntry(i),
         NEW x \in Contents, TxEntry(n + 1)' = x
  PROVE  TxWaiting' = Append(TxWaiting, x)
<1> DEFINE q == Append(TxWaiting, x)
<1>1. /\ q \in Seq(Contents) /\ Len(q) = n + 1 /\ q[n + 1] = x
      /\ \A i \in 1..n : q[i] = TxWaiting[i]
  BY AppendProperties DEF TxQueued
<1> HIDE DEF q
<1>2. ASSUME NEW i \in 1..n + 1 PROVE TxWaiting'[i] = q[i]
  <2>1. TxWaiting'[i] = TxEntry(i)'
    BY DEF TxQueued
  <2>2. CASE i = n + 1
    BY <1>1, <2>1, <2>2
  <2>3. CASE i # n + 1
    <3>1. i \in 1..n
      BY <2>3
    <3>2. QED
      BY <1>1, <2>1, <3>1 DEF TxQueued
  <2>4. QED
    BY <2>2, <2>3
<1>3. TxWaiting' = q
  BY <1>1, <1>2, SeqEqual DEF TxQueued
<1>4. QED
  BY <1>3 DEF q

LEMMA TxOneLess ==
  ASSUME TxQueued, TxQueued', TxCount \in Nat \ {0}, TxCount' = TxCount - 1,
         \A i \in 1..TxCount - 1 : TxEntry(i)' = TxEntry(i + 1)
  PROVE  /\ TxWaiting # <<>> /\ Head(TxWaiting) = TxEntry(1)
         /\ TxWaiting' = Tail(TxWaiting)
<1>1. TxWaiting # <<>>
  BY DEF TxQueued
<1>2. /\ Head(TxWaiting) = TxWaiting[1] /\ Tail(TxWaiting) \in Seq(Contents)
      /\ Len(Tail(TxWaiting)) = TxCount - 1
      /\ \A i \in 1..TxCount - 1 : Tail(TxWaiting)[i] = TxWaiting[i + 1]
  BY <1>1 DEF TxQueued
<1>3. ASSUME NEW i \in 1..TxCount - 1
      PROVE  TxWaiting'[i] = Tail(TxWaiting)[i]
  <2>1. i + 1 \in 1..TxCount
    OBVIOUS
  <2>2. QED
    BY <1>2, <2>1 DEF TxQueued
<1>4. TxWaiting' = Tail(TxWaiting)
  BY <1>2, <1>3, SeqEqual DEF TxQueued
<1>5. QED
  BY <1>1, <1>2, <1>4 DEF TxQueued

(* What the queue needs besides: the length in a descriptor that the DMA   *)
(* owns is that of a frame; and what it is sending is what is in the       *)
(* buffer, unless a frame that found the ring full was copied over it.     *)
TxQueueInv ==
  /\ TxInv
  /\ txPc \in {"copy", "prepare"} => txFrame \in TxFrames
  /\ \A d \in TxOwned : txSize[d] \in TxFrames
  /\ txPhase # "none" /\ txOut # InBuffer(txAt) => DMATxDescToSet = txAt

(* A frame that is copied to the descriptor to set, which may be that of   *)
(* the oldest one waiting: x is in its buffer then.                        *)
LEMMA TxCopied ==
  ASSUME TxQueueInv, TxInv', TxQueued, TxQueued', NEW x \in TxFrames \union {Mixed},
         txBuf' = [txBuf EXCEPT ![DMATxDescToSet] = x],
         txOut' \in {txOut, Mixed}, txOut' # txOut => txPhase = "reading" /\ x = Mixed,
         txOut' # txOut => DMATxDescToSet = txAt,
         UNCHANGED <<txOwn, txSize, DMATxDescToSet, txAt, txPhase, wire>>
  PROVE  [TxQueue!TxNext]_(TxQueue!vars)
<1>1. /\ TxTypeOK /\ TxCount \in 0..TxN /\ TxN \in Nat \ {0}
      /\ TxCount' = TxCount
  BY TxCountIs, TxAssumption DEF TxAssumption, TxQueueInv, TxInv, TxCount
<1>2. \A i \in 1..TxCount :
        TxSlot(txAt, i) \in TxDescs /\ (TxSlot(txAt, i) = txAt <=> i = 1)
  BY <1>1, TxSlotIs DEF TxTypeOK
<1>3. \A d \in TxDescs \ {DMATxDescToSet} : InBuffer(d)' = InBuffer(d)
  BY <1>1 DEF TxTypeOK, InBuffer
<1>4. \A i \in 2..TxCount : TxEntry(i)' = TxEntry(i)
  <2> TAKE i \in 2..TxCount
  <2>1. i \in 1..TxCount /\ i # 1
    BY <1>1
  <2>2. TxSlot(txAt, i) \in TxDescs \ {DMATxDescToSet}
    BY <1>1, <1>2, <2>1, TxCountIs
  <2>3. QED
    BY <1>3, <2>1, <2>2 DEF TxEntry
<1>5. CASE TxCount # 0 /\ TxEntry(1)' # TxEntry(1)
  <2>1. TxSlot(txAt, 1) = txAt /\ 1 \in 1..TxCount /\ 1 \in 1..TxN
    BY <1>1, <1>2, <1>5
  <2>2. DMATxDescToSet = txAt
    BY <1>1, <1>3, <1>5, <2>1 DEF TxEntry, TxTypeOK
  <2>3. txOwn[txAt] /\ TxCount = TxN
    BY <1>1, <1>5, <2>2, TxCountIs
  <2>4. TxEntry(1)' \in TxFrames \union {Mixed}
    <3>1. CASE txPhase = "none"
      <4>1. TxEntry(1)' = InBuffer(txAt)'
        BY <2>1, <3>1 DEF TxEntry
      <4>2. txBuf'[txAt] = x
        BY <1>1, <2>2 DEF TxTypeOK
      <4>3. QED
        BY <4>1, <4>2 DEF InBuffer
    <3>2. CASE txPhase # "none"
      BY <1>5, <3>2 DEF TxEntry
    <3>3. QED
      BY <3>1, <3>2
  <2>5. TxWaiting' = [TxWaiting EXCEPT ![1] = TxEntry(1)']
    BY <1>1, <1>4, <1>5, <2>4, TxFirstReplaced DEF Contents
  <2>6. TxQueue!Replace(TxEntry(1)')
    BY <2>3, <2>5 DEF TxQueue!Replace, TxQueued
  <2>7. QED
    BY <2>4, <2>6 DEF TxQueue!TxNext
<1>6. CASE TxCount = 0 \/ TxEntry(1)' = TxEntry(1)
  <2>1. \A i \in 1..TxCount : TxEntry(i)' = TxEntry(i)
    <3> TAKE i \in 1..TxCount
    <3>1. i = 1 \/ i \in 2..TxCount
      BY <1>1
    <3>2. QED
      BY <1>1, <1>4, <1>6, <3>1
  <2>2. TxWaiting' = TxWaiting
    BY <1>1, <2>1, TxWaitsOn
  <2>3. QED
    BY <2>2 DEF TxQueue!vars
<1>7. QED
  BY <1>5, <1>6

(* Steps that change neither the descriptors nor what is sent first.       *)
LEMMA TxIdles ==
  ASSUME TxQueueInv, TxQueued, TxQueued',
         UNCHANGED <<txOwn, txSize, txBuf, DMATxDescToSet, txAt, wire>>,
         TxCount # 0 => TxEntry(1)' = TxEntry(1)
  PROVE  [TxQueue!TxNext]_(TxQueue!vars)
<1>1. TxTypeOK /\ TxCount \in 0..TxN /\ TxN \in Nat /\ TxCount' = TxCount
  BY TxCountIs, TxAssumption DEF TxAssumption, TxQueueInv, TxInv, TxCount
<1>2. \A i \in 1..TxCount : TxEntry(i)' = TxEntry(i)
  <2> TAKE i \in 1..TxCount
  <2>1. CASE i = 1
    BY <1>1, <2>1
  <2>2. CASE i # 1
    BY <2>2 DEF TxEntry, InBuffer
  <2>3. QED
    BY <2>1, <2>2
<1>3. TxWaiting' = TxWaiting
  BY <1>1, <1>2, TxWaitsOn
<1>4. QED
  BY <1>3 DEF TxQueue!vars

LEMMA TxQueueStep ==
  TxQueueInv /\ TxInv' /\ TxQueued /\ TxQueued' /\ [TxStep]_txVars
    => TxQueueInv' /\ [TxQueue!TxNext]_(TxQueue!vars)
<1> SUFFICES ASSUME TxQueueInv, TxInv', TxQueued, TxQueued', [TxStep]_txVars
             PROVE  TxQueueInv' /\ [TxQueue!TxNext]_(TxQueue!vars)
  OBVIOUS
<1>1. /\ TxInv /\ TxTypeOK /\ TxWindow /\ TxTypeOK'
      /\ TxN \in Nat \ {0} /\ 1 \in 1..TxN
      /\ txAt \in TxDescs /\ DMATxDescToSet \in TxDescs
  BY TxAssumption DEF TxAssumption, TxQueueInv, TxInv, TxTypeOK
<1>2. /\ TxCount \in 0..TxN
      /\ TxCount = 0 <=> DMATxDescToSet = txAt /\ ~txOwn[txAt]
      /\ TxCount = TxN <=> DMATxDescToSet = txAt /\ txOwn[txAt]
      /\ TxCount < TxN => TxSlot(txAt, TxCount + 1) = DMATxDescToSet
      /\ \A i \in 1..TxCount :
           TxSlot(txAt, i) = DMATxDescToSet => i = 1 /\ DMATxDescToSet = txAt
  BY <1>1, TxCountIs
<1>3. TxSlot(txAt, 1) = txAt
  BY <1>1, TxSlotIs
<1>4. txOwn[DMATxDescToSet] => DMATxDescToSet = txAt
  BY <1>1, TxOwnedIs
<1>5. txPhase # "none" => txOwn[txAt] /\ TxCount # 0
  BY <1>2 DEF TxQueueInv, TxInv
<1>6. ASSUME NEW f \in TxFrames, CopyStart(f)
      PROVE  TxQueueInv' /\ [TxQueue!TxNext]_(TxQueue!vars)
  <2>1. /\ txBuf' = [txBuf EXCEPT ![DMATxDescToSet] = Mixed]
        /\ UNCHANGED <<txOwn, txSize, DMATxDescToSet, txAt, txPhase, wire>>
        /\ txFrame' = f
        /\ txOut' = IF txPhase = "reading" /\ txAt = DMATxDescToSet
                      THEN Mixed ELSE txOut
    BY <1>6 DEF CopyStart
  <2>2. [TxQueue!TxNext]_(TxQueue!vars)
    BY <2>1, TxCopied
  <2>3. txAt # DMATxDescToSet => InBuffer(txAt)' = InBuffer(txAt) /\ txOut' = txOut
    BY <1>1, <2>1 DEF TxTypeOK, InBuffer
  <2>4. QED
    BY <2>1, <2>2, <2>3 DEF TxQueueInv, TxOwned
<1>7. CASE CopyEnd
  <2>1. /\ txBuf' = [txBuf EXCEPT ![DMATxDescToSet] = txFrame]
        /\ UNCHANGED <<txOwn, txSize, DMATxDescToSet, txAt, txPhase, wire, txOut,
                       txFrame>>
        /\ txPc = "copy"
    BY <1>7 DEF CopyEnd
  <2>2. txFrame \in TxFrames
    BY <2>1 DEF TxQueueInv
  <2>3. [TxQueue!TxNext]_(TxQueue!vars)
    BY <2>1, <2>2, TxCopied
  <2>4. txAt # DMATxDescToSet => InBuffer(txAt)' = InBuffer(txAt)
    BY <1>1, <2>1 DEF TxTypeOK, InBuffer
  <2>5. QED
    BY <2>1, <2>2, <2>3, <2>4 DEF TxQueueInv, TxOwned
<1>8. CASE Prepare /\ Busy
  <2>1. /\ UNCHANGED <<txOwn, txSize, txBuf, DMATxDescToSet, txAt, txPhase,
                       txOut, wire>>
        /\ txPc' = "stack"
    BY <1>8 DEF Prepare
  <2>2. TxEntry(1)' = TxEntry(1)
    BY <2>1 DEF TxEntry, InBuffer
  <2>3. [TxQueue!TxNext]_(TxQueue!vars)
    BY <2>1, <2>2, TxIdles
  <2>4. QED
    BY <2>1, <2>3 DEF TxQueueInv, TxOwned, InBuffer
<1>9. CASE Prepare /\ ~Busy
  <2>1. /\ txPc = "prepare" /\ txPc' = "resume"
        /\ txSize' = [txSize EXCEPT ![DMATxDescToSet] = txFrame]
        /\ txOwn' = [txOwn EXCEPT ![DMATxDescToSet] = TRUE]
        /\ DMATxDescToSet' = TxNextOf(DMATxDescToSet)
        /\ UNCHANGED <<txBuf, txAt, txPhase, txOut, wire>>
    BY <1>9 DEF Prepare
  <2>2. /\ txFrame \in TxFrames /\ txBuf[DMATxDescToSet] = txFrame
        /\ ~txOwn[DMATxDescToSet]
    BY <1>9, <2>1 DEF TxQueueInv, TxInv, Busy
  <2>3. /\ txSize'[DMATxDescToSet] = txFrame /\ txOwn'[DMATxDescToSet]
        /\ \A d \in TxDescs \ {DMATxDescToSet} :
             txSize'[d] = txSize[d] /\ txOwn'[d] = txOwn[d]
    BY <1>1, <2>1 DEF TxTypeOK
  <2>4. TxCount < TxN /\ TxCount' = TxCount + 1
    <3>1. TxCount < TxN
      BY <1>1, <1>2, <2>2
    <3>2. CASE DMATxDescToSet = txAt
      BY <1>1, <2>1, <2>2, <3>2, TxNextIs
         DEF TxCount, TxNextOf, TxDescs
    <3>3. CASE DMATxDescToSet # txAt
      <4>1. txOwn[txAt] /\ txOwn'[txAt]
        BY <1>1, <2>3, <3>3, TxOwnedIs DEF TxWindow
      <4>2. QED
        BY <1>1, <2>1, <3>3, <4>1 DEF TxCount, TxNextOf, TxDescs
    <3>4. QED
      BY <3>1, <3>2, <3>3
  <2>5. ASSUME NEW d \in TxDescs \ {DMATxDescToSet}
        PROVE  InBuffer(d)' = InBuffer(d)
    BY <2>1, <2>3 DEF InBuffer
  <2>6. PICK n \in Nat : n = TxCount
    BY <1>1, <1>2
  <2>7. ASSUME NEW i \in 1..n PROVE TxEntry(i)' = TxEntry(i)
    <3>1. TxSlot(txAt, i) \in TxDescs /\ TxSlot(txAt, i) # DMATxDescToSet
      BY <1>1, <1>2, <2>2, <2>6, TxSlotIs
    <3>2. QED
      BY <2>1, <2>5, <3>1 DEF TxEntry
  <2>8. ASSUME NEW i \in Nat, i = n + 1
        PROVE  TxEntry(i)' = txFrame
    <3>1. TxSlot(txAt, i) = DMATxDescToSet
      BY <1>2, <2>4, <2>6, <2>8
    <3>2. i = 1 => txPhase' = "none"
      BY <1>2, <1>5, <2>1, <2>6, <2>8
    <3>3. TxEntry(i)' = IF txBuf'[DMATxDescToSet] = txSize'[DMATxDescToSet]
                          THEN txBuf'[DMATxDescToSet] ELSE Mixed
      BY <2>1, <3>1, <3>2 DEF TxEntry, InBuffer
    <3>4. QED
      BY <2>1, <2>2, <2>3, <3>3
  <2>9. PICK x \in TxFrames : x = txFrame
    BY <2>2
  <2>10. TxWaiting' = Append(TxWaiting, x)
    BY <2>4, <2>6, <2>7, <2>8, <2>9, TxOneMore DEF Contents
  <2>11. TxQueue!Put(x)
    BY <2>1, <2>4, <2>10 DEF TxQueue!Put, TxQueued
  <2>12. TxQueueInv'
    <3>1. \A d \in TxOwned' : txSize'[d] \in TxFrames
      BY <2>2, <2>3 DEF TxQueueInv, TxOwned
    <3>2. txPhase' # "none" => txOut' = InBuffer(txAt)'
      <4>1. SUFFICES ASSUME txPhase # "none" PROVE txOut = InBuffer(txAt)'
        BY <2>1
      <4>2. txAt # DMATxDescToSet
        BY <1>5, <2>2, <4>1
      <4>3. QED
        BY <1>1, <2>1, <2>5, <4>1, <4>2 DEF TxQueueInv
    <3>3. QED
      BY <2>1, <3>1, <3>2 DEF TxQueueInv
  <2>13. QED
    BY <2>11, <2>12 DEF TxQueue!TxNext
<1>10. CASE TxRead
  <2>1. /\ UNCHANGED <<txOwn, txSize, txBuf, DMATxDescToSet, txAt, txPc, txFrame,
                       wire>>
        /\ txPhase = "none" /\ txPhase' = "reading" /\ txOut' = InBuffer(txAt)
    BY <1>10 DEF TxRead
  <2>2. TxEntry(1)' = TxEntry(1)
    BY <1>3, <2>1 DEF TxEntry
  <2>3. [TxQueue!TxNext]_(TxQueue!vars)
    BY <2>1, <2>2, TxIdles
  <2>4. QED
    BY <2>1, <2>3 DEF TxQueueInv, TxOwned, InBuffer
<1>11. CASE TxHasRead
  <2>1. /\ UNCHANGED <<txOwn, txSize, txBuf, DMATxDescToSet, txAt, txPc, txFrame,
                       wire, txOut>>
        /\ txPhase = "reading" /\ txPhase' = "read"
    BY <1>11 DEF TxHasRead
  <2>2. TxEntry(1)' = TxEntry(1)
    BY <2>1 DEF TxEntry
  <2>3. [TxQueue!TxNext]_(TxQueue!vars)
    BY <2>1, <2>2, TxIdles
  <2>4. QED
    BY <2>1, <2>3 DEF TxQueueInv, TxOwned, InBuffer
<1>12. CASE TxSent
  <2>1. /\ txPhase = "read" /\ wire' = txOut
        /\ txOwn' = [txOwn EXCEPT ![txAt] = FALSE]
        /\ txSize' = [txSize EXCEPT ![txAt] = NoFrame]
        /\ txBuf' = IF txPc \in {"copy", "prepare"} /\ DMATxDescToSet = txAt
                      THEN txBuf ELSE [txBuf EXCEPT ![txAt] = NoFrame]
        /\ txAt' = TxNextOf(txAt) /\ txPhase' = "none"
        /\ UNCHANGED <<DMATxDescToSet, txPc, txFrame>>
    BY <1>12 DEF TxSent
  <2>2. /\ ~txOwn'[txAt]
        /\ \A d \in TxDescs \ {txAt} :
             txSize'[d] = txSize[d] /\ txOwn'[d] = txOwn[d] /\ txBuf'[d] = txBuf[d]
    BY <1>1, <2>1 DEF TxTypeOK
  <2>3. txOwn[txAt] /\ TxCount \in 1..TxN
    BY <1>2, <1>5, <2>1
  <2>4. TxCount' = TxCount - 1
    <3>1. CASE DMATxDescToSet = txAt
      <4>1. TxCount = TxN /\ txAt' # DMATxDescToSet
        BY <1>1, <1>2, <2>1, <2>3, <3>1, TxNextIs
      <4>2. QED
        BY <1>1, <2>1, <3>1, <4>1 DEF TxCount, TxNextOf, TxDescs
    <3>2. CASE DMATxDescToSet # txAt
      <4>1. CASE DMATxDescToSet = txAt'
        <5>1. ~txOwn[DMATxDescToSet] /\ ~txOwn'[DMATxDescToSet]
          BY <1>1, <1>4, <2>2, <3>2
        <5>2. QED
          BY <1>1, <2>1, <3>2, <4>1, <5>1 DEF TxCount, TxNextOf, TxDescs
      <4>2. CASE DMATxDescToSet # txAt'
        BY <1>1, <2>1, <3>2, <4>2 DEF TxCount, TxNextOf, TxDescs
      <4>3. QED
        BY <4>1, <4>2
    <3>3. QED
      BY <3>1, <3>2
  <2>5. ASSUME NEW i \in 1..TxCount - 1 PROVE TxEntry(i)' = TxEntry(i + 1)
    <3>1. i + 1 \in 1..TxN /\ i \in 1..TxN /\ i < TxN /\ i + 1 # 1
      BY <1>1, <1>2
    <3>2. PICK d \in TxDescs \ {txAt} :
            d = TxSlot(txAt, i + 1) /\ d = TxSlot(txAt', i)
      BY <1>1, <2>1, <3>1, TxSlotIs
    <3>3. TxEntry(i)' = InBuffer(d)' /\ TxEntry(i + 1) = InBuffer(d)
      BY <2>1, <3>1, <3>2 DEF TxEntry, InBuffer
    <3>4. QED
      BY <2>2, <3>3 DEF InBuffer
  <2>6. /\ TxWaiting # <<>> /\ Head(TxWaiting) = TxEntry(1)
        /\ TxWaiting' = Tail(TxWaiting)
    BY <1>1, <2>3, <2>4, <2>5, TxOneLess
  <2>7. TxEntry(1) = txOut
    BY <2>1 DEF TxEntry
  <2>8. TxQueue!Take
    BY <2>1, <2>6, <2>7 DEF TxQueue!Take
  <2>9. \A d \in TxOwned' : txSize'[d] \in TxFrames
    BY <1>1, <2>2 DEF TxQueueInv, TxOwned
  <2>10. QED
    BY <2>1, <2>8, <2>9 DEF TxQueueInv, TxQueue!TxNext
<1>13. CASE TxReset
  <2>1. /\ UNCHANGED <<txOwn, txSize, txBuf, DMATxDescToSet, txAt, txPc, txFrame,
                       wire>>
        /\ txPhase' = "none"
    BY <1>13 DEF TxReset
  <2>2. TxEntry(1)' = InBuffer(txAt)
    BY <1>3, <2>1 DEF TxEntry, InBuffer
  <2>3. TxQueueInv'
    BY <2>1 DEF TxQueueInv, TxOwned
  <2>4. CASE TxEntry(1)' = TxEntry(1)
    BY <2>1, <2>3, <2>4, TxIdles
  <2>5. CASE TxEntry(1)' # TxEntry(1)
    <3>1. txPhase # "none" /\ txOut # InBuffer(txAt)
      BY <1>3, <2>2, <2>5 DEF TxEntry
    <3>2. DMATxDescToSet = txAt /\ txOwn[txAt] /\ TxCount = TxN
      BY <1>2, <1>5, <3>1 DEF TxQueueInv
    <3>3. TxEntry(1)' \in TxFrames \union {Mixed}
      BY <1>1, <2>2, <3>2 DEF TxQueueInv, TxOwned, InBuffer
    <3>4. \A i \in 2..TxCount : TxEntry(i)' = TxEntry(i)
      BY <2>1 DEF TxEntry, InBuffer
    <3>5. TxCount' = TxCount
      BY <2>1 DEF TxCount
    <3>6. TxWaiting' = [TxWaiting EXCEPT ![1] = TxEntry(1)']
      BY <1>1, <3>2, <3>3, <3>4, <3>5, TxFirstReplaced DEF Contents
    <3>7. TxQueue!Replace(TxEntry(1)')
      BY <2>1, <3>2, <3>6 DEF TxQueue!Replace, TxQueued
    <3>8. QED
      BY <2>3, <3>3, <3>7 DEF TxQueue!TxNext
  <2>6. QED
    BY <2>4, <2>5
<1>14. CASE ResumeTx \/ TxSuspend \/ UNCHANGED txVars
  <2>1. /\ UNCHANGED <<txOwn, txSize, txBuf, DMATxDescToSet, txAt, txPhase, txOut,
                       txFrame, wire>>
        /\ txPc' \in {"copy", "prepare"} => txPc' = txPc
    BY <1>14 DEF ResumeTx, TxSuspend, txVars
  <2>2. TxEntry(1)' = TxEntry(1)
    BY <2>1 DEF TxEntry, InBuffer
  <2>3. [TxQueue!TxNext]_(TxQueue!vars)
    BY <2>1, <2>2, TxIdles
  <2>4. QED
    BY <2>1, <2>3 DEF TxQueueInv, TxOwned, InBuffer
<1>15. QED
  BY <1>6, <1>7, <1>8, <1>9, <1>10, <1>11, <1>12, <1>13, <1>14
     DEF TxStep, Transmit, TxDma

(* The transmit ring is a bounded queue, of any length: frames leave in    *)
(* the order in which lwIP handed them over, each once, and one that finds *)
(* the ring full changes the oldest one waiting and no other.              *)
THEOREM TxRingIsAQueue == TxSpec => TxIsQueue
<1>1. TxInit => TxQueueInv
  <2>1. TxInit => TxOwned = {}
    BY DEF TxInit, TxOwned
  <2>2. QED
    BY <2>1, TxStarts DEF TxInit, TxQueueInv
<1>2. TxInit /\ TxQueued => TxQueue!Init
  <2> SUFFICES ASSUME TxInit, TxQueued PROVE TxQueue!Init
    OBVIOUS
  <2>1. TxCount = 0
    BY TxAssumption DEF TxAssumption, TxInit, TxCount, TxDescs
  <2>2. QED
    BY <2>1, EmptySeq DEF TxInit, TxQueued, TxQueue!Init
<1>3. TxInv => TxQueued
  BY TxWaitingIs DEF TxInv
<1>4. QED
  BY <1>1, <1>2, <1>3, TxQueueStep, TxInvHolds, PTL
     DEF TxSpec, TxIsQueue, TxQueue!TxSpec

-----------------------------------------------------------------------------
(* The receive ring.  n steps lead from a to b; the n descriptors from a   *)
(* on; and the one before d.                                               *)
Steps(a, n, b) == b = a + n \/ b = a + n - RxN

Span(a, n) == {d \in RxDescs : (a <= d /\ d < a + n) \/ d + RxN < a + n}

Before(d) == IF d = 0 THEN RxN - 1 ELSE d - 1

(* The frame before the descriptor the DMA is at has ended.                *)
Ended(desc, unread, at, begins) ==
  IF unread = 0 THEN begins ELSE desc[Before(at)].ls

(* From head on, read segments of a frame that is not released yet, then,  *)
(* from get on, unread ones up to where the DMA is.  A frame begins where  *)
(* the one before it has ended; the first unread one, if that is said of   *)
(* it.  In the middle of a frame the DMA owns the next descriptor.         *)
Shape(desc, head, read, get, unread, at, begins) ==
  /\ head \in RxDescs /\ get \in RxDescs /\ at \in RxDescs
  /\ read \in Nat /\ unread \in Nat /\ read + unread <= RxN
  /\ Steps(head, read, get) /\ Steps(get, unread, at)
  /\ \A d \in RxDescs : ~desc[d].own <=> d \in Span(head, read + unread)
  /\ unread > 0 => (desc[get].fs <=> begins)
  /\ \A d \in Span(get, unread) : d # get => (desc[d].fs <=> desc[Before(d)].ls)
  /\ ~Ended(desc, unread, at, begins) => desc[at].own

Descs == [RxDescs -> [own: BOOLEAN, fs: BOOLEAN, ls: BOOLEAN, len: Nat]]

(* One descriptor has changed.                                             *)
Changed(old, new, at, to) ==
  new[at] = to /\ \A d \in RxDescs : d # at => new[d] = old[d]

LEMMA RxNextIs ==
  ASSUME NEW a \in RxDescs
  PROVE  /\ RxNextOf(a) \in RxDescs /\ RxNextOf(a) # a
         /\ RxNextOf(a) = a + 1 \/ RxNextOf(a) = a + 1 - RxN
         /\ Before(RxNextOf(a)) = a
         /\ Before(a) \in RxDescs
BY RxAssumption DEF RxAssumption, RxDescs, RxNextOf, Before

LEMMA SpanGrows ==
  ASSUME NEW a \in RxDescs, NEW n \in Nat, n < RxN, NEW b \in RxDescs,
         Steps(a, n, b)
  PROVE  /\ b \notin Span(a, n)
         /\ Span(a, n + 1) = Span(a, n) \union {b}
         /\ Steps(a, n + 1, RxNextOf(b))
BY RxAssumption DEF RxAssumption, RxDescs, RxNextOf, Steps, Span

LEMMA SpanShrinks ==
  ASSUME NEW a \in RxDescs, NEW n \in Nat, 0 < n, n <= RxN, NEW b \in RxDescs,
         Steps(a, n, b)
  PROVE  /\ a \in Span(a, n)
         /\ Span(RxNextOf(a), n - 1) = Span(a, n) \ {a}
         /\ Steps(RxNextOf(a), n - 1, b)
BY RxAssumption DEF RxAssumption, RxDescs, RxNextOf, Steps, Span

LEMMA SpanEnds ==
  ASSUME NEW a \in RxDescs, NEW n \in Nat, n <= RxN, NEW b \in RxDescs,
         Steps(a, n, b)
  PROVE  /\ n = 0 => Span(a, n) = {} /\ a = b
         /\ n = RxN => Span(a, n) = RxDescs
         /\ n > 0 => /\ Span(a, n) # {} /\ Span(a, n) = RxArc(a, b)
                     /\ Before(b) \in Span(a, n)
<1> USE RxAssumption DEF RxAssumption, RxDescs
<1>1. n = 0 => Span(a, n) = {} /\ a = b
  BY DEF Steps, Span
<1>2. n = RxN => Span(a, n) = RxDescs
  BY DEF Span
<1>3. n > 0 => a \in Span(a, n)
  BY DEF Span
<1>4. n > 0 => Span(a, n) = RxArc(a, b)
  BY DEF Steps, Span, RxArc
<1>5. n > 0 => Before(b) \in Span(a, n)
  BY DEF Steps, Span, Before
<1>6. QED
  BY <1>1, <1>2, <1>3, <1>4, <1>5

(* The second of two spans that follow each other.                         *)
LEMMA SpanSplits ==
  ASSUME NEW a \in RxDescs, NEW m \in Nat, NEW n \in Nat, m + n <= RxN,
         NEW b \in RxDescs, Steps(a, m, b),
         NEW c \in RxDescs, Steps(b, n, c)
  PROVE  /\ Steps(a, m + n, c)
         /\ Span(b, n) \subseteq Span(a, m + n)
         /\ m > 0 => a \notin Span(b, n)
         /\ \A d \in Span(b, n) : d # b => Before(d) \in Span(b, n)
BY RxAssumption DEF RxAssumption, RxDescs, Steps, Span, Before

(* The DMA stores a segment.                                               *)
LEMMA ShapeStore ==
  ASSUME NEW desc \in Descs, NEW head, NEW read, NEW get, NEW unread, NEW at,
         NEW begins, Shape(desc, head, read, get, unread, at, begins),
         desc[at].own,
         NEW new \in [own: BOOLEAN, fs: BOOLEAN, ls: BOOLEAN, len: Nat],
         ~new.own, new.fs <=> Ended(desc, unread, at, begins),
         ~new.ls => desc[RxNextOf(at)].own,
         NEW desc2, Changed(desc, desc2, at, new)
  PROVE  /\ Shape(desc2, head, read, get, unread + 1, RxNextOf(at), begins)
         /\ Ended(desc2, unread + 1, RxNextOf(at), begins) = new.ls
<1>1. /\ head \in RxDescs /\ get \in RxDescs /\ at \in RxDescs
      /\ read \in Nat /\ unread \in Nat /\ read + unread <= RxN
      /\ Steps(head, read, get) /\ Steps(get, unread, at)
      /\ RxN \in Nat
  BY RxAssumption DEF Shape, RxAssumption
<1>2. /\ RxNextOf(at) \in RxDescs /\ RxNextOf(at) # at
      /\ Before(RxNextOf(at)) = at
  BY <1>1, RxNextIs
<1>3. /\ desc2[at] = new
      /\ \A d \in RxDescs : d # at => desc2[d] = desc[d]
  BY <1>1 DEF Changed
<1>4. Steps(head, read + unread, at)
  BY <1>1, SpanSplits
<1>5. at \notin Span(head, read + unread) /\ read + unread < RxN
  <2>1. at \notin Span(head, read + unread)
    BY <1>1 DEF Shape
  <2>2. read + unread # RxN
    BY <1>1, <1>4, <2>1, SpanEnds
  <2>3. QED
    BY <1>1, <2>1, <2>2
<1>6. /\ Span(head, read + unread + 1) = Span(head, read + unread) \union {at}
      /\ Span(get, unread + 1) = Span(get, unread) \union {at}
      /\ at \notin Span(get, unread)
      /\ Steps(get, unread + 1, RxNextOf(at))
  BY <1>1, <1>4, <1>5, SpanGrows
<1>7. \A d \in RxDescs : ~desc2[d].own <=> d \in Span(head, read + unread + 1)
  BY <1>1, <1>3, <1>6 DEF Shape
<1>8. desc2[get].fs <=> begins
  <2>1. CASE unread = 0
    BY <1>1, <1>3, <2>1, SpanEnds DEF Ended
  <2>2. CASE unread > 0
    <3>1. get # at
      BY <1>1, <1>6, <2>2, SpanShrinks
    <3>2. QED
      BY <1>1, <1>3, <2>2, <3>1 DEF Shape
  <2>3. QED
    BY <1>1, <2>1, <2>2
<1>9. ASSUME NEW d \in Span(get, unread + 1), d # get
      PROVE  desc2[d].fs <=> desc2[Before(d)].ls
  <2>1. CASE d = at
    <3>1. unread # 0
      BY <1>1, <1>9, <2>1, SpanEnds
    <3>2. Before(at) \in RxDescs /\ Before(at) # at
      BY <1>1, <1>6, <3>1, SpanEnds, RxNextIs
    <3>3. QED
      BY <1>3, <2>1, <3>1, <3>2 DEF Ended
  <2>2. CASE d # at
    <3>1. d \in Span(get, unread) /\ d \in RxDescs
      BY <1>6, <2>2 DEF Span
    <3>2. Before(d) # at /\ Before(d) \in RxDescs
      BY <1>1, <1>6, <1>9, <3>1, SpanSplits, RxNextIs
    <3>3. QED
      BY <1>3, <1>9, <2>2, <3>1, <3>2 DEF Shape
  <2>3. QED
    BY <2>1, <2>2
<1>10. Ended(desc2, unread + 1, RxNextOf(at), begins) = new.ls
  BY <1>1, <1>2, <1>3 DEF Ended
<1>11. ~new.ls => desc2[RxNextOf(at)].own
  BY <1>2, <1>3
<1>12. QED
  BY <1>1, <1>2, <1>5, <1>6, <1>7, <1>8, <1>9, <1>10, <1>11 DEF Shape

(* The main loop reads a segment.                                          *)
LEMMA ShapeRead ==
  ASSUME NEW desc \in Descs, NEW head, NEW read, NEW get, NEW unread, NEW at,
         NEW begins, Shape(desc, head, read, get, unread, at, begins),
         unread > 0,
         NEW ends, ends = desc[get].ls,
         NEW more, more = read + 1, NEW less, less = unread - 1
  PROVE  /\ Shape(desc, head, more, RxNextOf(get), less, at, ends)
         /\ Ended(desc, less, at, ends) = Ended(desc, unread, at, begins)
<1>1. /\ head \in RxDescs /\ get \in RxDescs /\ at \in RxDescs
      /\ read \in Nat /\ unread \in Nat /\ read + unread <= RxN
      /\ Steps(head, read, get) /\ Steps(get, unread, at)
      /\ RxN \in Nat
  BY RxAssumption DEF Shape, RxAssumption
<1>2. /\ RxNextOf(get) \in RxDescs /\ Before(RxNextOf(get)) = get
  BY <1>1, RxNextIs
<1>3. /\ Span(RxNextOf(get), unread - 1) = Span(get, unread) \ {get}
      /\ Steps(RxNextOf(get), unread - 1, at)
  BY <1>1, SpanShrinks
<1>4. Steps(head, read + 1, RxNextOf(get))
  <2>1. read < RxN
    BY <1>1
  <2>2. QED
    BY <1>1, <2>1, SpanGrows
<1>5. unread - 1 > 0 => (desc[RxNextOf(get)].fs <=> desc[get].ls)
  <2> SUFFICES ASSUME unread - 1 > 0
               PROVE  desc[RxNextOf(get)].fs <=> desc[get].ls
    OBVIOUS
  <2>1. RxNextOf(get) \in Span(get, unread) /\ RxNextOf(get) # get
    BY <1>1, <1>2, <1>3, SpanShrinks
  <2>2. QED
    BY <1>2, <2>1 DEF Shape
<1>6. \A d \in Span(RxNextOf(get), unread - 1) :
        d # RxNextOf(get) => (desc[d].fs <=> desc[Before(d)].ls)
  BY <1>3 DEF Shape
<1>7. Ended(desc, unread - 1, at, ends)
        = Ended(desc, unread, at, begins)
  <2>1. CASE unread - 1 = 0
    <3>1. at = RxNextOf(get)
      BY <1>1, <1>2, <1>3, <2>1, SpanEnds
    <3>2. QED
      BY <1>1, <1>2, <2>1, <3>1 DEF Ended
  <2>2. CASE unread - 1 # 0
    BY <1>1, <2>2 DEF Ended
  <2>3. QED
    BY <2>1, <2>2
<1>8. /\ read + 1 \in Nat /\ unread - 1 \in Nat
      /\ (read + 1) + (unread - 1) = read + unread
  BY <1>1
<1>9. QED
  BY <1>1, <1>2, <1>3, <1>4, <1>5, <1>6, <1>7, <1>8 DEF Shape

(* It gives a descriptor back.                                             *)
LEMMA ShapeRelease ==
  ASSUME NEW desc \in Descs, NEW head, NEW read, NEW get, NEW unread, NEW at,
         NEW begins, Shape(desc, head, read, get, unread, at, begins),
         read > 0,
         NEW desc2, Changed(desc, desc2, head, Ready)
  PROVE  /\ Shape(desc2, RxNextOf(head), read - 1, get, unread, at, begins)
         /\ Ended(desc2, unread, at, begins) = Ended(desc, unread, at, begins)
<1>1. /\ head \in RxDescs /\ get \in RxDescs /\ at \in RxDescs
      /\ read \in Nat /\ unread \in Nat /\ read + unread <= RxN
      /\ Steps(head, read, get) /\ Steps(get, unread, at)
      /\ RxN \in Nat
  BY RxAssumption DEF Shape, RxAssumption
<1>2. RxNextOf(head) \in RxDescs
  BY <1>1, RxNextIs
<1>3. /\ desc2[head] = Ready
      /\ \A d \in RxDescs : d # head => desc2[d] = desc[d]
  BY <1>1 DEF Changed
<1>4. /\ Steps(head, read + unread, at) /\ head \notin Span(get, unread)
      /\ \A d \in Span(get, unread) : d # get => Before(d) \in Span(get, unread)
  BY <1>1, SpanSplits
<1>5. /\ Span(RxNextOf(head), read + unread - 1)
           = Span(head, read + unread) \ {head}
      /\ Steps(RxNextOf(head), read - 1, get)
  BY <1>1, <1>4, SpanShrinks
<1>6. \A d \in RxDescs :
        ~desc2[d].own <=> d \in Span(RxNextOf(head), read + unread - 1)
  BY <1>1, <1>3, <1>5 DEF Shape, Ready
<1>7. unread > 0 => (desc2[get].fs <=> begins)
  BY <1>1, <1>3, <1>4, SpanShrinks DEF Shape
<1>8. \A d \in Span(get, unread) :
        d # get => (desc2[d].fs <=> desc2[Before(d)].ls)
  BY <1>3, <1>4 DEF Shape, Span
<1>9. Ended(desc2, unread, at, begins) = Ended(desc, unread, at, begins)
  <2>1. unread > 0 => Before(at) # head /\ Before(at) \in RxDescs
    BY <1>1, <1>4, SpanEnds, RxNextIs
  <2>2. QED
    BY <1>1, <1>3, <2>1 DEF Ended
<1>10. ~Ended(desc, unread, at, begins) => desc2[at].own
  BY <1>1, <1>3 DEF Shape, Ready
<1>11. /\ read - 1 \in Nat /\ (read - 1) + unread = read + unread - 1
       /\ (read - 1) + unread <= RxN
  BY <1>1
<1>12. QED
  BY <1>1, <1>2, <1>5, <1>6, <1>7, <1>8, <1>9, <1>10, <1>11 DEF Shape

LEMMA ShapeIsWindow ==
  ASSUME NEW desc \in Descs, NEW head, NEW read, NEW get, NEW unread, NEW at,
         NEW begins, Shape(desc, head, read, get, unread, at, begins),
         NEW held, held = {d \in RxDescs : ~desc[d].own}
  PROVE  \/ held = {} /\ head = at
         \/ held # {} /\ held = RxArc(head, at)
<1>1. /\ head \in RxDescs /\ get \in RxDescs /\ at \in RxDescs
      /\ read \in Nat /\ unread \in Nat /\ read + unread <= RxN
      /\ Steps(head, read, get) /\ Steps(get, unread, at)
      /\ RxN \in Nat
  BY RxAssumption DEF Shape, RxAssumption
<1>2. Steps(head, read + unread, at)
  BY <1>1, SpanSplits
<1>3. held = Span(head, read + unread)
  BY DEF Shape, Span
<1>4. QED
  BY <1>1, <1>2, <1>3, SpanEnds

(* Segments read but not released, and whether the next begins a frame.    *)
RxRead ==
  IF rxPc = "poll" THEN Seg_Count
  ELSE IF rxPc = "input" THEN Seg_Count - 1
  ELSE IF rxPc = "release" THEN relLeft ELSE 0

Begins ==
  IF \/ rxPc \in {"release", "resume"}
     \/ rxPc = "poll" /\ Seg_Count = 0
     \/ rxPc = "input" /\ Seg_Count = 1
    THEN TRUE ELSE FALSE

RxShape(unread) ==
  /\ Shape(rxDesc, RxHead, RxRead, DMARxDescToGet, unread, rxAt, Begins)
  /\ rxPc = "input" => /\ unread > 0 /\ Seg_Count > 0
                       /\ rxDesc[DMARxDescToGet].ls
                       /\ ~rxDesc[DMARxDescToGet].own
  /\ rxRun # "stopped" =>
       (rxPart[1] = None <=> Ended(rxDesc, unread, rxAt, Begins))

RxInv ==
  /\ RxTypeOK
  /\ rxPart = <<None, 0>> \/ (rxPart[1] \in Frames /\ rxPart[2] > 0)
  /\ rxPc = "release" => relLeft > 0
  /\ \E unread \in Nat : RxShape(unread)

LEMMA RxTypeStep ==
  RxTypeOK /\ (rxPc = "release" => relLeft > 0) /\ [RxStep]_rxVars => RxTypeOK'
<1> SUFFICES ASSUME RxTypeOK, rxPc = "release" => relLeft > 0, [RxStep]_rxVars
             PROVE  RxTypeOK'
  OBVIOUS
<1>1. ASSUME NEW f \in Frames, RxStore(f) PROVE RxTypeOK'
  <2> DEFINE k == rxPart[2] + 1
             ends == k = Pieces[f] \/ ~rxDesc[RxNextOf(rxAt)].own
             new == [own |-> FALSE, fs |-> k = 1, ls |-> ends,
                     len |-> IF ends THEN k ELSE 0]
  <2>1. k \in Nat
    BY DEF RxTypeOK
  <2>2. rxAt \in RxDescs /\ RxNextOf(rxAt) \in RxDescs
    BY RxNextIs DEF RxTypeOK
  <2>3. ends \in BOOLEAN /\ (k = 1) \in BOOLEAN
    BY <2>1, <2>2, RxAssumption DEF RxTypeOK, RxAssumption
  <2>4. new \in [own: BOOLEAN, fs: BOOLEAN, ls: BOOLEAN, len: Nat]
    BY <2>1, <2>3
  <2>5. rxDesc' = [rxDesc EXCEPT ![rxAt] = new]
    BY <1>1 DEF RxStore
  <2>6. rxDesc' \in [RxDescs -> [own: BOOLEAN, fs: BOOLEAN, ls: BOOLEAN,
                                 len: Nat]]
    BY <2>2, <2>4, <2>5 DEF RxTypeOK
  <2>7. rxPart' \in (Frames \X Nat) \union {<<None, 0>>}
    BY <1>1, <2>1 DEF RxStore
  <2>8. rxBuf' \in [RxDescs -> (Frames \X Nat) \union {<<None, 0>>}]
    <3>1. rxBuf' = [rxBuf EXCEPT ![rxAt] = <<f, k>>] /\ <<f, k>> \in Frames \X Nat
      BY <1>1, <2>1 DEF RxStore
    <3>2. QED
      BY <2>2, <3>1 DEF RxTypeOK
  <2>9. QED
    BY <1>1, <2>2, <2>6, <2>7, <2>8 DEF RxTypeOK, RxStore
<1>2. CASE RxSuspend \/ RxRetry \/ RxReset \/ UNCHANGED rxVars
  BY <1>2 DEF RxSuspend, RxRetry, RxReset, rxVars, RxTypeOK
<1>3. CASE ETH_CheckFrameReceived
  BY <1>3, RxNextIs DEF ETH_CheckFrameReceived, CheckNone, CheckLast,
     CheckFirst, CheckMiddle, RxTypeOK
<1>4. ASSUME NEW allocated \in BOOLEAN, Fetch(allocated) PROVE RxTypeOK'
  BY <1>4, RxNextIs DEF Fetch, FirstDesc, RxTypeOK
<1>5. CASE Release
  <2>1. rxDesc' \in [RxDescs -> [own: BOOLEAN, fs: BOOLEAN, ls: BOOLEAN,
                                 len: Nat]]
    BY <1>5 DEF Release, RxTypeOK, Ready
  <2>2. relLeft' \in Nat
    BY <1>5 DEF Release, RxTypeOK
  <2>3. rxBuf' \in [RxDescs -> (Frames \X Nat) \union {<<None, 0>>}]
    BY <1>5 DEF Release, RxTypeOK
  <2>4. QED
    BY <1>5, <2>1, <2>2, <2>3, RxNextIs DEF Release, RxTypeOK
<1>6. CASE ResumeRx
  BY <1>6 DEF ResumeRx, Resumed, RxTypeOK
<1>7. QED
  BY <1>1, <1>2, <1>3, <1>4, <1>5, <1>6 DEF RxStep, RxDma, RxPoll

LEMMA RxStored ==
  ASSUME RxInv, RxTypeOK', NEW f \in Frames, RxStore(f),
         NEW unread \in Nat, RxShape(unread)
  PROVE  RxInv' /\ RxShape(unread + 1)'
<1> DEFINE k == rxPart[2] + 1
           ends == k = Pieces[f] \/ ~rxDesc[RxNextOf(rxAt)].own
           new == [own |-> FALSE, fs |-> k = 1, ls |-> ends,
                   len |-> IF ends THEN k ELSE 0]
<1>1. /\ rxRun = "run" /\ rxDesc[rxAt].own
      /\ rxDesc' = [rxDesc EXCEPT ![rxAt] = new]
      /\ rxAt' = RxNextOf(rxAt)
      /\ rxPart' = IF ends THEN <<None, 0>> ELSE <<f, k>>
      /\ UNCHANGED <<DMARxDescToGet, FS_Rx_Desc, Seg_Count, rxRun, RBUS, rxPc,
                     relDesc, relLeft>>
  BY DEF RxStore
<1>2. /\ rxDesc \in Descs /\ rxAt \in RxDescs /\ DMARxDescToGet \in RxDescs
      /\ RxNextOf(rxAt) \in RxDescs
      /\ rxPart[2] \in Nat
  BY RxNextIs DEF RxInv, RxTypeOK, Descs
<1>3. k \in Nat /\ ends \in BOOLEAN /\ (k = 1) \in BOOLEAN
  BY <1>2, RxAssumption DEF Descs, RxAssumption
<1>4. new \in [own: BOOLEAN, fs: BOOLEAN, ls: BOOLEAN, len: Nat]
  BY <1>3
<1>5. k = 1 <=> rxPart[1] = None
  BY <1>2, RxAssumption DEF RxInv, RxAssumption
<1>6. new.fs <=> Ended(rxDesc, unread, rxAt, Begins)
  BY <1>1, <1>5 DEF RxShape
<1>7. ~new.own /\ (~new.ls => rxDesc[RxNextOf(rxAt)].own) /\ new.ls = ends
  OBVIOUS
<1>8. UNCHANGED <<RxHead, RxRead, Begins>>
  BY <1>1 DEF RxHead, FirstDesc, RxRead, Begins
<1>9. /\ Shape(rxDesc', RxHead, RxRead, DMARxDescToGet, unread + 1,
                RxNextOf(rxAt), Begins)
       /\ Ended(rxDesc', unread + 1, RxNextOf(rxAt), Begins) = ends
  <2>1. PICK piece \in [own: BOOLEAN, fs: BOOLEAN, ls: BOOLEAN, len: Nat] :
          piece = new
    BY <1>4
  <2>2. /\ rxDesc' = [rxDesc EXCEPT ![rxAt] = piece]
        /\ ~piece.own /\ piece.ls = ends
        /\ ~piece.ls => rxDesc[RxNextOf(rxAt)].own
        /\ piece.fs <=> Ended(rxDesc, unread, rxAt, Begins)
    BY <1>1, <1>6, <1>7, <2>1
  <2>3. Changed(rxDesc, rxDesc', rxAt, piece)
    BY <1>2, <2>2 DEF Changed, Descs
  <2>4. Shape(rxDesc, RxHead, RxRead, DMARxDescToGet, unread, rxAt, Begins)
    BY DEF RxShape
  <2>5. QED
    BY <1>1, <1>2, <2>2, <2>3, <2>4, ShapeStore
<1> HIDE DEF ends
<1>10. rxPart'[1] = None <=> ends
  BY <1>1, <1>3, RxAssumption DEF RxAssumption
<1>11. rxPc' = "input" =>
         /\ unread + 1 > 0 /\ Seg_Count' > 0
         /\ rxDesc'[DMARxDescToGet'].ls /\ ~rxDesc'[DMARxDescToGet'].own
  BY <1>1, <1>2 DEF RxShape, Descs
<1>12. RxShape(unread + 1)'
  BY <1>1, <1>8, <1>9, <1>10, <1>11 DEF RxShape
<1>13. rxPart' = <<None, 0>> \/ (rxPart'[1] \in Frames /\ rxPart'[2] > 0)
  BY <1>1, <1>2
<1>14. (rxPc = "release" => relLeft > 0)'
  BY <1>1 DEF RxInv
<1>15. QED
  BY <1>12, <1>13, <1>14 DEF RxInv

(* The DMA stops, suspends itself or goes on.                              *)
LEMMA RxPaused ==
  ASSUME RxInv, RxTypeOK', RxSuspend \/ RxRetry \/ RxReset \/ UNCHANGED rxVars,
         NEW unread \in Nat, RxShape(unread)
  PROVE  RxInv' /\ RxShape(unread)'
<1>1. /\ UNCHANGED <<rxDesc, DMARxDescToGet, FS_Rx_Desc, Seg_Count, rxAt, rxPc,
                     relDesc, relLeft>>
      /\ rxPart' = rxPart \/ (rxPart' = <<None, 0>> /\ rxRun' = "stopped")
      /\ rxRun' # "stopped" => rxRun # "stopped" /\ rxPart' = rxPart
  BY DEF RxSuspend, RxRetry, RxReset, rxVars
<1>2. UNCHANGED <<RxHead, RxRead, Begins>>
  BY <1>1 DEF RxHead, FirstDesc, RxRead, Begins
<1>3. RxShape(unread)'
  BY <1>1, <1>2 DEF RxShape
<1>4. QED
  BY <1>1, <1>3 DEF RxInv

(* Whether there is something to read, when ETH_CheckFrameReceived looks.  *)
LEMMA RxUnread ==
  ASSUME RxInv, rxPc = "poll", ~rxDesc[DMARxDescToGet].own,
         NEW unread \in Nat, RxShape(unread)
  PROVE  unread > 0 /\ (rxDesc[DMARxDescToGet].fs <=> Seg_Count = 0)
<1>1. /\ Shape(rxDesc, RxHead, Seg_Count, DMARxDescToGet, unread, rxAt, Begins)
      /\ Begins <=> Seg_Count = 0
      /\ RxHead = IF Seg_Count > 0 THEN FS_Rx_Desc ELSE DMARxDescToGet
      /\ Seg_Count \in Nat
  BY DEF RxShape, RxRead, Begins, RxHead, RxInv, RxTypeOK
<1>2. ASSUME unread = 0 PROVE FALSE
  <2>1. DMARxDescToGet = rxAt
    BY <1>1, <1>2, RxAssumption, SpanEnds DEF Shape, RxAssumption
  <2>2. Begins
    BY <1>1, <1>2, <2>1 DEF Shape, Ended
  <2>3. Seg_Count + unread = 0
    BY <1>1, <1>2, <2>2
  <2>4. DMARxDescToGet \in Span(RxHead, 0)
    BY <1>1, <2>3 DEF Shape
  <2>5. QED
    BY <1>1, <2>4, RxAssumption, SpanEnds DEF Shape, Span, RxDescs, RxAssumption
<1>3. QED
  BY <1>1, <1>2 DEF Shape

LEMMA RxChecked ==
  ASSUME RxInv, RxTypeOK', ETH_CheckFrameReceived,
         NEW unread \in Nat, RxShape(unread)
  PROVE  /\ RxInv'
         /\ IF DMARxDescToGet' = DMARxDescToGet THEN RxShape(unread)'
                                              ELSE unread > 0 /\ RxShape(unread - 1)'
<1>1. /\ rxPc = "poll"
      /\ UNCHANGED <<rxDesc, rxAt, rxPart, rxRun, relDesc, relLeft>>
  BY DEF ETH_CheckFrameReceived
<1>2. /\ rxDesc \in Descs /\ Seg_Count \in Nat /\ DMARxDescToGet \in RxDescs
  BY DEF RxInv, RxTypeOK, Descs
<1>3. /\ Shape(rxDesc, RxHead, Seg_Count, DMARxDescToGet, unread, rxAt, Begins)
      /\ RxHead = IF Seg_Count > 0 THEN FS_Rx_Desc ELSE DMARxDescToGet
      /\ Begins = IF Seg_Count = 0 THEN TRUE ELSE FALSE
  BY <1>1, <1>2 DEF RxShape, RxRead, RxHead, Begins
<1>4. ~rxDesc[DMARxDescToGet].own =>
        unread > 0 /\ (rxDesc[DMARxDescToGet].fs <=> Seg_Count = 0)
  BY <1>1, RxUnread
<1>5. CASE CheckNone
  <2>1. UNCHANGED <<DMARxDescToGet, FS_Rx_Desc, Seg_Count, rxPc>>
    BY <1>5 DEF CheckNone
  <2>2. UNCHANGED <<RxHead, RxRead, Begins>>
    BY <1>1, <2>1 DEF RxHead, FirstDesc, RxRead, Begins
  <2>3. RxShape(unread)'
    BY <1>1, <2>1, <2>2 DEF RxShape
  <2>4. QED
    BY <1>1, <2>1, <2>3 DEF RxInv
<1>6. CASE ~rxDesc[DMARxDescToGet].own /\ CheckLast
  <2>1. /\ Seg_Count' = Seg_Count + 1 /\ rxPc' = "input"
        /\ rxDesc[DMARxDescToGet].ls
        /\ UNCHANGED <<DMARxDescToGet, FS_Rx_Desc>>
    BY <1>6 DEF CheckLast
  <2>2. RxHead' = RxHead
    BY <1>1, <1>2, <1>3, <2>1 DEF RxHead, FirstDesc
  <2>3. RxRead' = Seg_Count
    BY <1>1, <1>2, <2>1 DEF RxRead
  <2>4. Begins' = Begins
    BY <1>1, <1>2, <2>1 DEF Begins
  <2>5. Seg_Count' > 0
    BY <1>2, <2>1
  <2>6. RxShape(unread)'
    BY <1>1, <1>3, <1>4, <1>6, <2>1, <2>2, <2>3, <2>4, <2>5 DEF RxShape
  <2>7. QED
    BY <1>1, <2>1, <2>6 DEF RxInv
<1>7. CASE ~rxDesc[DMARxDescToGet].own /\ (CheckFirst \/ CheckMiddle)
  <2>1. /\ DMARxDescToGet' = RxNextOf(DMARxDescToGet) /\ rxPc' = "poll"
        /\ ~rxDesc[DMARxDescToGet].ls
        /\ Seg_Count' = Seg_Count + 1
        /\ FS_Rx_Desc' = IF Seg_Count = 0 THEN DMARxDescToGet ELSE FS_Rx_Desc
    BY <1>1, <1>2, <1>4, <1>7 DEF CheckFirst, CheckMiddle
  <2>2. RxHead' = RxHead
    BY <1>2, <1>3, <2>1 DEF RxHead
  <2>3. RxRead' = Seg_Count + 1
    BY <2>1 DEF RxRead
  <2>4. Begins' = rxDesc[DMARxDescToGet].ls
    <3>1. ~Begins'
      BY <1>2, <2>1 DEF Begins
    <3>2. Begins' \in BOOLEAN /\ rxDesc[DMARxDescToGet].ls \in BOOLEAN
      BY <1>2 DEF Begins, Descs
    <3>3. QED
      BY <2>1, <3>1, <3>2
  <2>5. PICK less \in Nat : unread > 0 /\ less = unread - 1
    BY <1>4, <1>7
  <2>6. /\ Shape(rxDesc, RxHead, Seg_Count, DMARxDescToGet, unread, rxAt, Begins)
        /\ rxDesc \in Descs /\ unread > 0 /\ less = unread - 1
    BY <1>2, <1>3, <2>5
  <2>7. Shape(rxDesc, RxHead, RxRead', RxNextOf(DMARxDescToGet), less, rxAt,
              Begins')
    BY <2>3, <2>4, <2>6, ShapeRead
  <2>8. Ended(rxDesc, less, rxAt, Begins') = Ended(rxDesc, unread, rxAt, Begins)
    BY <2>3, <2>4, <2>6, ShapeRead
  <2>9. RxShape(less)'
    BY <1>1, <2>1, <2>2, <2>3, <2>4, <2>7, <2>8 DEF RxShape
  <2>10. QED
    BY <1>1, <1>2, <2>1, <2>5, <2>9, RxNextIs DEF RxInv
<1>8. QED
  BY <1>5, <1>6, <1>7 DEF ETH_CheckFrameReceived

LEMMA RxFetched ==
  ASSUME RxInv, RxTypeOK', NEW allocated, Fetch(allocated),
         NEW unread \in Nat, RxShape(unread)
  PROVE  RxInv' /\ unread > 0 /\ RxShape(unread - 1)'
<1>1. /\ rxPc = "input" /\ rxPc' = "release"
      /\ DMARxDescToGet' = RxNextOf(DMARxDescToGet)
      /\ relDesc' = FirstDesc /\ relLeft' = Seg_Count
      /\ UNCHANGED <<rxDesc, FS_Rx_Desc, Seg_Count, rxAt, rxPart, rxRun>>
  BY DEF Fetch
<1>2. /\ rxDesc \in Descs /\ Seg_Count \in Nat /\ Seg_Count > 0
      /\ DMARxDescToGet \in RxDescs /\ unread > 0
      /\ rxDesc[DMARxDescToGet].ls
  BY <1>1 DEF RxInv, RxTypeOK, Descs, RxShape
<1>3. PICK read \in Nat : read = Seg_Count - 1
  BY <1>2
<1>4. /\ Shape(rxDesc, RxHead, read, DMARxDescToGet, unread, rxAt, Begins)
      /\ RxHead = FirstDesc
  BY <1>1, <1>3 DEF RxShape, RxRead, RxHead
<1>5. RxHead' = RxHead /\ RxRead' = read + 1 /\ Begins'
  BY <1>1, <1>2, <1>3, <1>4 DEF RxHead, RxRead, Begins
<1>6. Begins' = rxDesc[DMARxDescToGet].ls
  <2>1. Begins' \in BOOLEAN /\ rxDesc[DMARxDescToGet].ls \in BOOLEAN
    BY <1>2 DEF Begins, Descs
  <2>2. QED
    BY <1>2, <1>5, <2>1
<1>7. PICK less \in Nat : less = unread - 1
  BY <1>2
<1>8. /\ Shape(rxDesc, RxHead, read, DMARxDescToGet, unread, rxAt, Begins)
      /\ rxDesc \in Descs /\ unread > 0 /\ RxRead' = read + 1
  BY <1>2, <1>4, <1>5
<1>9. Shape(rxDesc, RxHead, RxRead', RxNextOf(DMARxDescToGet), less, rxAt,
             Begins')
  BY <1>6, <1>7, <1>8, ShapeRead
<1>10. Ended(rxDesc, less, rxAt, Begins') = Ended(rxDesc, unread, rxAt, Begins)
  BY <1>6, <1>7, <1>8, ShapeRead
<1>11. RxShape(less)'
  BY <1>1, <1>5, <1>6, <1>9, <1>10 DEF RxShape
<1>12. relLeft' > 0
  BY <1>1, <1>2
<1>13. QED
  BY <1>1, <1>2, <1>7, <1>11, <1>12 DEF RxInv

LEMMA RxReleased ==
  ASSUME RxInv, RxTypeOK', Release, NEW unread \in Nat, RxShape(unread)
  PROVE  RxInv' /\ RxShape(unread)'
<1>1. /\ rxPc = "release"
      /\ rxDesc' = [rxDesc EXCEPT ![relDesc] = Ready]
      /\ relDesc' = RxNextOf(relDesc) /\ relLeft' = relLeft - 1
      /\ rxPc' = IF relLeft = 1 THEN "resume" ELSE "release"
      /\ UNCHANGED <<DMARxDescToGet, FS_Rx_Desc, Seg_Count, rxAt, rxPart, rxRun>>
  BY DEF Release
<1>2. /\ rxDesc \in Descs /\ relLeft \in Nat /\ relLeft > 0
      /\ relDesc \in RxDescs /\ RxHead = relDesc
  BY <1>1 DEF RxInv, RxTypeOK, Descs, RxHead
<1>3. Shape(rxDesc, relDesc, relLeft, DMARxDescToGet, unread, rxAt, Begins)
  BY <1>1, <1>2 DEF RxShape, RxRead
<1>4. Changed(rxDesc, rxDesc', relDesc, Ready)
  BY <1>1, <1>2 DEF Changed, Descs
<1>5. /\ Shape(rxDesc', RxNextOf(relDesc), relLeft - 1, DMARxDescToGet, unread,
               rxAt, Begins)
      /\ Ended(rxDesc', unread, rxAt, Begins)
           = Ended(rxDesc, unread, rxAt, Begins)
  BY <1>2, <1>3, <1>4, ShapeRelease
<1>6. Begins' = Begins /\ RxRead' = relLeft - 1
  BY <1>1, <1>2 DEF Begins, RxRead
<1>7. RxHead' = RxNextOf(relDesc)
  <2>1. CASE relLeft = 1
    <3>1. RxNextOf(relDesc) = DMARxDescToGet
      BY <1>5, <2>1, RxAssumption, SpanEnds DEF Shape, RxAssumption
    <3>2. QED
      BY <1>1, <2>1, <3>1 DEF RxHead
  <2>2. CASE relLeft # 1
    BY <1>1, <2>2 DEF RxHead
  <2>3. QED
    BY <2>1, <2>2
<1>8. RxShape(unread)'
  BY <1>1, <1>5, <1>6, <1>7 DEF RxShape
<1>9. rxPc' = "release" => relLeft' > 0
  BY <1>1, <1>2
<1>10. QED
  BY <1>1, <1>8, <1>9 DEF RxInv

LEMMA RxResumed ==
  ASSUME RxInv, RxTypeOK', ResumeRx, NEW unread \in Nat, RxShape(unread)
  PROVE  RxInv' /\ RxShape(unread)'
<1>1. /\ rxPc = "resume" /\ rxPc' = "poll" /\ Seg_Count' = 0
      /\ rxRun' = "stopped" <=> rxRun = "stopped"
      /\ UNCHANGED <<rxDesc, DMARxDescToGet, FS_Rx_Desc, rxAt, rxPart>>
  BY DEF ResumeRx, Resumed
<1>2. UNCHANGED <<RxHead, RxRead, Begins>>
  BY <1>1 DEF RxHead, RxRead, Begins
<1>3. RxShape(unread)'
  BY <1>1, <1>2 DEF RxShape
<1>4. QED
  BY <1>1, <1>3 DEF RxInv

LEMMA RxStarts == RxInit => RxInv
<1> SUFFICES ASSUME RxInit PROVE RxInv
  OBVIOUS
<1>1. 0 \in RxDescs /\ RxN \in Nat
  BY RxAssumption DEF RxAssumption, RxDescs
<1>2. RxTypeOK
  BY <1>1 DEF RxInit, RxTypeOK, Ready
<1>3. /\ Begins /\ RxRead = 0 /\ RxHead = 0
  BY DEF RxInit, Begins, RxRead, RxHead
<1>4. Steps(0, 0, 0) /\ Span(0, 0) = {}
  BY <1>1 DEF Steps, Span, RxDescs
<1>5. \A d \in RxDescs : rxDesc[d].own
  BY DEF RxInit, Ready
<1>6. RxShape(0)
  BY <1>1, <1>3, <1>4, <1>5 DEF RxInit, RxShape, Shape, Ended
<1>7. QED
  BY <1>2, <1>6 DEF RxInit, RxInv

LEMMA RxInvHolds == RxSpec => []RxInv
<1>1. RxInv /\ [RxStep]_rxVars => RxInv'
  <2> SUFFICES ASSUME RxInv, [RxStep]_rxVars PROVE RxInv'
    OBVIOUS
  <2>1. RxTypeOK'
    BY RxTypeStep DEF RxInv
  <2>2. PICK unread \in Nat : RxShape(unread)
    BY DEF RxInv
  <2>3. QED
    BY <2>1, <2>2, RxStored, RxPaused, RxChecked, RxFetched, RxReleased, RxResumed
    DEF RxStep, RxDma, RxPoll
<1>2. QED
  BY <1>1, RxStarts, PTL DEF RxSpec

(* The types of the receive ring.                                          *)
THEOREM RxTypeCorrect == RxSpec => []RxTypeOK
<1>1. RxInv => RxTypeOK
  BY DEF RxInv
<1>2. QED
  BY <1>1, RxInvHolds, PTL

(* In a ring of any length, with frames of any number of segments, no      *)
(* descriptor is lost and none is given back too early.                    *)
THEOREM RxRingIsAWindow == RxSpec => []RxWindow
<1>1. RxInv => RxWindow
  <2> SUFFICES ASSUME RxInv PROVE RxWindow
    OBVIOUS
  <2>1. PICK unread \in Nat : RxShape(unread)
    BY DEF RxInv
  <2>2. rxDesc \in Descs
    BY DEF RxInv, RxTypeOK, Descs
  <2>3. RxHeld = {d \in RxDescs : ~rxDesc[d].own}
    BY DEF RxHeld
  <2>4. Shape(rxDesc, RxHead, RxRead, DMARxDescToGet, unread, rxAt, Begins)
    BY <2>1 DEF RxShape
  <2>5. QED
    BY <2>2, <2>3, <2>4, ShapeIsWindow DEF RxWindow
<1>2. QED
  BY <1>1, RxInvHolds, PTL

-----------------------------------------------------------------------------
(* The members of a set of numbers in their order: how many there are up   *)
(* to i, which is a numbering of the set that Nth inverts.                 *)
UpTo(S, i) == {j \in S : j <= i}

LEMMA UpToIs ==
  ASSUME NEW n \in Nat, NEW S \in SUBSET (1..n)
  PROVE  /\ IsFiniteSet(S) /\ Cardinality(S) \in Nat
         /\ \A i \in S : Cardinality(UpTo(S, i)) \in 1..Cardinality(S)
         /\ \A i, j \in S : i < j =>
              Cardinality(UpTo(S, i)) < Cardinality(UpTo(S, j))
<1>1. IsFiniteSet(1..n)
  BY FS_Interval
<1>2. IsFiniteSet(S) /\ Cardinality(S) \in Nat
  BY <1>1, FS_Subset, FS_CardinalityType
<1>3. ASSUME NEW i \in S
      PROVE  /\ IsFiniteSet(UpTo(S, i)) /\ Cardinality(UpTo(S, i)) \in Nat
             /\ Cardinality(UpTo(S, i)) <= Cardinality(S)
             /\ Cardinality(UpTo(S, i)) # 0
  <2>1. UpTo(S, i) \in SUBSET S /\ i \in UpTo(S, i)
    BY DEF UpTo
  <2>2. /\ IsFiniteSet(UpTo(S, i)) /\ Cardinality(UpTo(S, i)) \in Nat
        /\ Cardinality(UpTo(S, i)) <= Cardinality(S)
    BY <1>2, <2>1, FS_Subset, FS_CardinalityType
  <2>3. Cardinality(UpTo(S, i)) # 0
    BY <2>1, <2>2, FS_EmptySet
  <2>4. QED
    BY <2>2, <2>3
<1>4. ASSUME NEW i \in S, NEW j \in S, i < j
      PROVE  Cardinality(UpTo(S, i)) < Cardinality(UpTo(S, j))
  <2>1. UpTo(S, i) \in SUBSET UpTo(S, j)
    <3>1. \A x \in S : x \in Nat
      OBVIOUS
    <3>2. \A x \in S : x <= i => x <= j
      BY <1>4, <3>1
    <3>3. QED
      BY <3>2 DEF UpTo
  <2>2. j \in UpTo(S, j) /\ j \notin UpTo(S, i)
    BY <1>4 DEF UpTo
  <2>3. /\ Cardinality(UpTo(S, i)) <= Cardinality(UpTo(S, j))
        /\ Cardinality(UpTo(S, j)) # Cardinality(UpTo(S, i))
    BY <1>3, <2>1, <2>2, FS_Subset
  <2>4. QED
    BY <1>3, <2>3
<1>5. QED
  BY <1>2, <1>3, <1>4

LEMMA NthIs ==
  ASSUME NEW n \in Nat, NEW S \in SUBSET (1..n)
  PROVE  /\ \A k \in 1..Cardinality(S) :
              Nth(S, k) \in S /\ Cardinality(UpTo(S, Nth(S, k))) = k
         /\ \A i \in S : Nth(S, Cardinality(UpTo(S, i))) = i
<1> DEFINE c == Cardinality(S)
           f == [i \in S |-> Cardinality(UpTo(S, i))]
<1>1. /\ IsFiniteSet(S) /\ c \in Nat
      /\ \A i \in S : f[i] \in 1..c
      /\ \A i, j \in S : i < j => f[i] < f[j]
  BY UpToIs
<1>2. f \in [S -> 1..c]
  BY <1>1
<1>3. \A i \in S : f[i] = Cardinality({j \in S : j <= i})
  BY DEF UpTo
<1> HIDE DEF f
<1>4. ASSUME NEW i \in S, NEW j \in S, f[i] = f[j] PROVE i = j
  <2>1. i \in Int /\ j \in Int /\ f[i] \in Int /\ f[j] \in Int
    BY <1>1
  <2>2. ~(i < j) /\ ~(j < i)
    BY <1>1, <1>4, <2>1
  <2>3. QED
    BY <2>1, <2>2
<1>5. f \in Injection(S, 1..c)
  BY <1>2, <1>4 DEF Injection, IsInjective
<1>6. IsFiniteSet(1..c) /\ Cardinality(1..c) = c
  BY <1>1, FS_Interval
<1>7. f \in Surjection(S, 1..c)
  BY <1>1, <1>5, <1>6, FS_Injection
<1>8. \A k \in 1..c : \E i \in S : f[i] = k
  BY <1>7 DEF Surjection
<1>9. ASSUME NEW i \in S PROVE Nth(S, f[i]) = i
  <2>1. \A j \in S : Cardinality({l \in S : l <= j}) = f[i] <=> j = i
    BY <1>3, <1>4
  <2>2. QED
    BY <2>1 DEF Nth
<1>10. \A k \in 1..c : Nth(S, k) \in S /\ f[Nth(S, k)] = k
  BY <1>8, <1>9
<1>11. \A i \in S : f[i] = Cardinality(UpTo(S, i))
  BY DEF f
<1>12. QED
  BY <1>9, <1>10, <1>11

(* One more member, beyond the others, is the last.                        *)
LEMMA NthGrows ==
  ASSUME NEW n \in Nat, NEW S \in SUBSET (1..n)
  PROVE  /\ Cardinality(S \union {n + 1}) = Cardinality(S) + 1
         /\ \A k \in 1..Cardinality(S) : Nth(S \union {n + 1}, k) = Nth(S, k)
         /\ Nth(S \union {n + 1}, Cardinality(S) + 1) = n + 1
<1> DEFINE T == S \union {n + 1}
<1>1. /\ n + 1 \in Nat /\ T \in SUBSET (1..n + 1) /\ n + 1 \notin S
      /\ \A i \in S : i <= n /\ i \in Nat
  OBVIOUS
<1>2. /\ IsFiniteSet(S) /\ Cardinality(S) \in Nat
      /\ \A i \in S : Cardinality(UpTo(S, i)) \in 1..Cardinality(S)
  BY UpToIs
<1>3. Cardinality(T) = Cardinality(S) + 1
  BY <1>1, <1>2, FS_AddElement
<1>4. \A i \in S : UpTo(T, i) = UpTo(S, i)
  BY <1>1 DEF UpTo
<1>5. UpTo(T, n + 1) = T
  <2>1. \A i \in T : i <= n + 1
    BY <1>1
  <2> HIDE DEF T
  <2>2. QED
    BY <2>1 DEF UpTo
<1> HIDE DEF T
<1>6. \A i \in T : Nth(T, Cardinality(UpTo(T, i))) = i
  BY <1>1, NthIs
<1>7. ASSUME NEW k \in 1..Cardinality(S) PROVE Nth(T, k) = Nth(S, k)
  <2>1. Nth(S, k) \in S /\ Cardinality(UpTo(S, Nth(S, k))) = k
    BY NthIs
  <2>2. Nth(S, k) \in T /\ Cardinality(UpTo(T, Nth(S, k))) = k
    BY <1>4, <2>1 DEF T
  <2>3. QED
    BY <1>6, <2>2
<1>8. Nth(T, Cardinality(S) + 1) = n + 1
  <2>1. n + 1 \in T /\ Cardinality(UpTo(T, n + 1)) = Cardinality(S) + 1
    BY <1>3, <1>5 DEF T
  <2>2. QED
    BY <1>6, <2>1
<1>9. QED
  BY <1>3, <1>7, <1>8 DEF T

(* All members move down by one.                                           *)
LEMMA CardinalityShifts ==
  ASSUME NEW n \in Nat, NEW S \in SUBSET (1..n), 1 \notin S
  PROVE  Cardinality({i - 1 : i \in S}) = Cardinality(S)
<1> DEFINE T == {i - 1 : i \in S}
           f == [i \in S |-> i - 1]
<1>1. IsFiniteSet(S)
  BY UpToIs
<1>2. \A i \in S : i \in Int
  OBVIOUS
<1>3. f \in Bijection(S, T)
  <2>1. f \in [S -> T]
    OBVIOUS
  <2>2. \A i, j \in S : f[i] = f[j] => i = j
    BY <1>2
  <2>3. \A t \in T : \E i \in S : f[i] = t
    OBVIOUS
  <2>4. QED
    BY <2>1, <2>2, <2>3 DEF Bijection, Injection, Surjection, IsInjective
<1>4. ExistsBijection(S, T)
  BY <1>3 DEF ExistsBijection
<1>5. QED
  BY <1>1, <1>4, FS_Bijection

LEMMA NthShifts ==
  ASSUME NEW n \in Nat, NEW S \in SUBSET (1..n), 1 \notin S,
         NEW T, T = {i - 1 : i \in S}
  PROVE  /\ Cardinality(T) = Cardinality(S)
         /\ \A k \in 1..Cardinality(S) : Nth(S, k) = Nth(T, k) + 1
<1>1. /\ T \in SUBSET (1..n)
      /\ \A i \in S : i \in Nat /\ i - 1 \in T
  OBVIOUS
<1>2. Cardinality(T) = Cardinality(S)
  BY CardinalityShifts
<1>3. ASSUME NEW i \in S
      PROVE  Cardinality(UpTo(T, i - 1)) = Cardinality(UpTo(S, i))
  <2>1. UpTo(S, i) \in SUBSET (1..n) /\ 1 \notin UpTo(S, i)
    BY DEF UpTo
  <2>2. UpTo(T, i - 1) = {j - 1 : j \in UpTo(S, i)}
    BY <1>1 DEF UpTo
  <2>3. QED
    BY <2>1, <2>2, CardinalityShifts
<1>4. ASSUME NEW k \in 1..Cardinality(S) PROVE Nth(S, k) = Nth(T, k) + 1
  <2>1. Nth(S, k) \in S /\ Cardinality(UpTo(S, Nth(S, k))) = k
    BY NthIs
  <2>2. PICK i \in S : i = Nth(S, k)
    BY <2>1
  <2>3. Nth(T, Cardinality(UpTo(T, i - 1))) = i - 1
    BY <1>1, NthIs
  <2>4. Nth(T, k) = i - 1
    BY <1>3, <2>1, <2>2, <2>3
  <2>5. QED
    BY <1>1, <2>2, <2>4
<1>5. QED
  BY <1>2, <1>4

(* The first member goes, and the others move down.                        *)
LEMMA NthDrops ==
  ASSUME NEW n \in Nat, NEW S \in SUBSET (1..n), 1 \in S,
         NEW T, T = {i - 1 : i \in S \ {1}}
  PROVE  /\ Cardinality(S) = Cardinality(T) + 1 /\ Cardinality(T) \in Nat
         /\ Nth(S, 1) = 1
         /\ \A k \in 1..Cardinality(T) : Nth(S, k + 1) = Nth(T, k) + 1
<1> DEFINE R == S \ {1}
<1>1. /\ R \in SUBSET (1..n) /\ 1 \notin R /\ S = R \union {1}
      /\ \A i \in S : i \in Nat /\ 1 <= i
  OBVIOUS
<1>2. IsFiniteSet(R) /\ Cardinality(R) \in Nat
  BY <1>1, UpToIs
<1>3. Cardinality(S) = Cardinality(R) + 1
  BY <1>1, <1>2, FS_AddElement
<1> HIDE DEF R
<1>4. /\ Cardinality(T) = Cardinality(R)
      /\ \A k \in 1..Cardinality(R) : Nth(R, k) = Nth(T, k) + 1
  <2>1. T = {i - 1 : i \in R}
    BY DEF R
  <2>2. QED
    BY <1>1, <2>1, NthShifts
<1>5. \A i \in S : Nth(S, Cardinality(UpTo(S, i))) = i
  BY NthIs
<1>6. Nth(S, 1) = 1
  <2>1. UpTo(S, 1) = {1}
    <3>1. \A i \in S : i <= 1 <=> i = 1
      BY <1>1
    <3>2. QED
      BY <3>1 DEF UpTo
  <2>2. Cardinality(UpTo(S, 1)) = 1
    BY <2>1, FS_Singleton
  <2>3. QED
    BY <1>5, <2>2
<1>7. ASSUME NEW k \in 1..Cardinality(R) PROVE Nth(S, k + 1) = Nth(R, k)
  <2>1. PICK i \in R : i = Nth(R, k) /\ Cardinality(UpTo(R, i)) = k
    BY <1>1, NthIs
  <2>2. UpTo(S, i) = UpTo(R, i) \union {1} /\ 1 \notin UpTo(R, i)
    BY <1>1 DEF UpTo
  <2>3. IsFiniteSet(UpTo(R, i))
    <3>1. UpTo(R, i) \in SUBSET R
      BY DEF UpTo
    <3>2. QED
      BY <1>2, <3>1, FS_Subset
  <2>4. Cardinality(UpTo(S, i)) = k + 1
    BY <2>1, <2>2, <2>3, FS_AddElement
  <2>5. QED
    BY <1>1, <1>5, <2>1, <2>4
<1>8. QED
  BY <1>2, <1>3, <1>4, <1>6, <1>7

-----------------------------------------------------------------------------
(* The receive ring as a queue.  The i-th descriptor from a on, and what   *)
(* Unread and UnreadAt come to.                                            *)
RxSlot(a, i) == IF a + i - 1 < RxN THEN a + i - 1 ELSE a + i - 1 - RxN

LEMMA RxModulo ==
  ASSUME NEW v \in 0..2 * RxN - 1
  PROVE  v % RxN = IF v < RxN THEN v ELSE v - RxN
<1>1. RxN \in Nat \ {0}
  BY RxAssumption DEF RxAssumption
<1>2. ASSUME NEW a \in 0..RxN-1 PROVE a % RxN = a /\ (a + RxN) % RxN = a
  BY <1>1, <1>2
<1>3. CASE v < RxN
  BY <1>1, <1>2, <1>3
<1>4. CASE ~(v < RxN)
  <2>1. v - RxN \in 0..RxN-1 /\ (v - RxN) + RxN = v
    BY <1>1, <1>4
  <2>2. v % RxN = v - RxN
    BY <1>2, <2>1
  <2>3. QED
    BY <1>4, <2>2
<1>5. QED
  BY <1>3, <1>4

LEMMA RxSlotIs ==
  ASSUME NEW a \in RxDescs
  PROVE  /\ RxSlot(a, 1) = a
         /\ \A i \in 1..RxN : RxSlot(a, i) \in RxDescs
         /\ \A i \in 1..RxN-1 : RxSlot(RxNextOf(a), i) = RxSlot(a, i + 1)
         /\ \A n \in 0..RxN : \A i \in 1..n : RxSlot(a, i) \in Span(a, n)
         /\ \A n \in 0..RxN-1, b \in RxDescs :
              Steps(a, n, b) => RxSlot(a, n + 1) = b
         /\ \A n \in 1..RxN, b \in RxDescs :
              Steps(a, n, b) => RxSlot(a, n) = Before(b)
BY RxAssumption
   DEF RxAssumption, RxDescs, RxSlot, RxNextOf, Span, Steps, Before

LEMMA UnreadIs ==
  ASSUME RxTypeOK
  PROVE  /\ \A i \in 1..RxN : UnreadAt(i) = RxSlot(DMARxDescToGet, i)
         /\ Unread =
              IF rxAt = DMARxDescToGet
                THEN IF ~rxDesc[rxAt].own /\ rxPc # "release" THEN RxN ELSE 0
                ELSE IF DMARxDescToGet < rxAt THEN rxAt - DMARxDescToGet
                                              ELSE rxAt + RxN - DMARxDescToGet
         /\ Unread \in 0..RxN
<1>1. /\ RxN \in Nat /\ RxN > 1
      /\ DMARxDescToGet \in 0..RxN-1 /\ rxAt \in 0..RxN-1
  BY RxAssumption DEF RxAssumption, RxTypeOK, RxDescs
<1>2. \A i \in 1..RxN : UnreadAt(i) = RxSlot(DMARxDescToGet, i)
  <2> SUFFICES ASSUME NEW i \in 1..RxN
               PROVE  UnreadAt(i) = RxSlot(DMARxDescToGet, i)
    OBVIOUS
  <2>1. DMARxDescToGet + i - 1 \in 0..2 * RxN - 1
    BY <1>1
  <2>2. QED
    BY <1>1, <2>1, RxModulo DEF UnreadAt, RxSlot
<1>3. rxAt + RxN - DMARxDescToGet \in 0..2 * RxN - 1
  BY <1>1
<1>4. (rxAt + RxN - DMARxDescToGet) % RxN =
        IF rxAt < DMARxDescToGet THEN rxAt + RxN - DMARxDescToGet
                                 ELSE rxAt - DMARxDescToGet
  BY <1>1, <1>3, RxModulo
<1>5. QED
  BY <1>1, <1>2, <1>4 DEF Unread

(* The number of unread segments that RxInv speaks of is the one that the  *)
(* indices and the OWN bit give.                                           *)
LEMMA RxCounted ==
  ASSUME RxInv, NEW unread \in Nat, RxShape(unread)
  PROVE  unread = Unread
<1>1. /\ RxHead \in RxDescs /\ DMARxDescToGet \in RxDescs /\ rxAt \in RxDescs
      /\ RxRead \in Nat /\ RxRead + unread <= RxN
      /\ Steps(RxHead, RxRead, DMARxDescToGet)
      /\ Steps(DMARxDescToGet, unread, rxAt)
      /\ \A d \in RxDescs : ~rxDesc[d].own <=> d \in Span(RxHead, RxRead + unread)
      /\ ~Ended(rxDesc, unread, rxAt, Begins) => rxDesc[rxAt].own
  BY DEF RxShape, Shape
<1>2. RxN \in Nat /\ RxN > 1 /\ RxDescs = 0..RxN-1
  BY RxAssumption DEF RxAssumption, RxDescs
<1>3. Unread =
        IF rxAt = DMARxDescToGet
          THEN IF ~rxDesc[rxAt].own /\ rxPc # "release" THEN RxN ELSE 0
          ELSE IF DMARxDescToGet < rxAt THEN rxAt - DMARxDescToGet
                                        ELSE rxAt + RxN - DMARxDescToGet
  BY UnreadIs DEF RxInv
<1>4. CASE rxAt # DMARxDescToGet
  BY <1>1, <1>2, <1>3, <1>4 DEF Steps
<1>5. CASE rxAt = DMARxDescToGet
  <2>1. unread = 0 \/ unread = RxN
    BY <1>1, <1>2, <1>5 DEF Steps
  <2>2. CASE unread = RxN
    <3>1. RxRead = 0
      BY <1>1, <1>2, <2>2
    <3>2. rxPc # "release"
      BY <1>2, <3>1 DEF RxInv, RxRead
    <3>3. ~rxDesc[rxAt].own
      <4>1. RxHead = DMARxDescToGet
        BY <1>1, <1>2, <3>1 DEF Steps
      <4>2. QED
        BY <1>1, <1>2, <1>5, <2>2, <3>1, <4>1, SpanShrinks
    <3>4. QED
      BY <1>3, <1>5, <2>2, <3>2, <3>3
  <2>3. CASE unread = 0
    <3>1. rxDesc[rxAt].own \/ rxPc = "release"
      <4>1. CASE RxRead = 0
        <5>1. Span(RxHead, 0) = {}
          BY <1>1, <1>2 DEF Span
        <5>2. QED
          BY <1>1, <2>3, <4>1, <5>1
      <4>2. CASE RxRead # 0 /\ rxPc # "release"
        <5>1. rxPc = "poll" /\ Seg_Count # 0
          BY <2>3, <4>2 DEF RxRead, RxShape, RxInv, RxTypeOK
        <5>2. ~Begins
          BY <5>1 DEF Begins
        <5>3. QED
          BY <1>1, <2>3, <5>2 DEF Ended
      <4>3. QED
        BY <4>1, <4>2
    <3>2. QED
      BY <1>2, <1>3, <1>5, <2>3, <3>1
  <2>4. QED
    BY <2>1, <2>2, <2>3
<1>6. QED
  BY <1>4, <1>5

RxIndexed ==
  /\ Unread \in 0..RxN
  /\ \A i \in 1..RxN : UnreadAt(i) = RxSlot(DMARxDescToGet, i)
  /\ \A unread \in Nat : RxShape(unread) => unread = Unread

LEMMA RxIndexes == RxInv => RxIndexed
BY RxCounted, UnreadIs DEF RxInv, RxIndexed

LEMMA RxShaped == RxInv /\ RxIndexed => RxShape(Unread)
<1> SUFFICES ASSUME RxInv, RxIndexed PROVE RxShape(Unread)
  OBVIOUS
<1>1. PICK unread \in Nat : RxShape(unread)
  BY DEF RxInv
<1>2. QED
  BY <1>1 DEF RxIndexed

(* What the DMA has stored.  How many segments of the frame that the main  *)
(* loop is reading it has read; which segment of its frame the i-th unread *)
(* one is.                                                                 *)
RxCur == IF Begins THEN 0 ELSE RxRead

Piece(i) == rxBuf[UnreadAt(i)][2]

Segment(i) ==
  /\ rxBuf[UnreadAt(i)] \in Frames \X (Nat \ {0})
  /\ rxDesc[UnreadAt(i)].ls => rxDesc[UnreadAt(i)].len = Piece(i)

Follows(i) ==
  Piece(i) = IF rxDesc[UnreadAt(i - 1)].ls THEN 1 ELSE Piece(i - 1) + 1

(* Unread segments are numbered on from those that were read, from 1 after *)
(* the end of a frame, and the last one of a frame holds its length: so no *)
(* frame is longer than the ring, and one of one segment is whole.         *)
RxData ==
  /\ \A i \in 1..Unread : Segment(i)
  /\ Unread > 0 => Piece(1) = RxCur + 1
  /\ \A i \in 2..Unread : Follows(i)
  /\ \A i, j \in 1..Unread : i <= j => Piece(j) <= Piece(i) + j - i
  /\ rxRun # "stopped" /\ rxPart[1] # None =>
       rxPart[2] = IF Unread = 0 THEN RxCur ELSE Piece(Unread)

(* After a step the i-th unread segment is what the j-th was before.       *)
Was(i, j) ==
  /\ rxBuf'[UnreadAt(i)'] = rxBuf[UnreadAt(j)]
  /\ rxDesc'[UnreadAt(i)'] = rxDesc[UnreadAt(j)]

LEMMA OthersStay ==
  ASSUME RxInv, RxIndexed, RxIndexed', DMARxDescToGet' = DMARxDescToGet, NEW d,
         d \notin Span(DMARxDescToGet, Unread),
         \A e \in RxDescs : e # d => rxBuf'[e] = rxBuf[e] /\ rxDesc'[e] = rxDesc[e]
  PROVE  \A i \in 1..Unread : Was(i, i)
<1>1. /\ DMARxDescToGet \in RxDescs /\ Unread \in 0..RxN /\ RxN \in Nat
      /\ \A i \in 1..RxN : /\ UnreadAt(i) = RxSlot(DMARxDescToGet, i)
                           /\ UnreadAt(i)' = RxSlot(DMARxDescToGet', i)
  BY RxAssumption DEF RxInv, RxTypeOK, RxAssumption, RxIndexed
<1>2. \A i \in 1..Unread :
        RxSlot(DMARxDescToGet, i) \in Span(DMARxDescToGet, Unread) \cap RxDescs
  BY <1>1, RxSlotIs
<1>3. QED
  BY <1>1, <1>2 DEF Was

LEMMA NextIsFirst ==
  ASSUME RxInv, RxIndexed, RxIndexed', DMARxDescToGet' = RxNextOf(DMARxDescToGet),
         UNCHANGED <<rxBuf, rxDesc>>, NEW n \in Nat, n < Unread
  PROVE  \A i \in 1..n : Was(i, i + 1)
<1>1. /\ DMARxDescToGet \in RxDescs /\ Unread \in 0..RxN /\ RxN \in Nat
      /\ \A i \in 1..RxN : /\ UnreadAt(i) = RxSlot(DMARxDescToGet, i)
                           /\ UnreadAt(i)' = RxSlot(DMARxDescToGet', i)
  BY RxAssumption DEF RxInv, RxTypeOK, RxAssumption, RxIndexed
<1>2. ASSUME NEW i \in 1..n
      PROVE  i \in 1..RxN-1 /\ i \in 1..RxN /\ i + 1 \in 1..RxN
  BY <1>1
<1>3. \A i \in 1..n : UnreadAt(i)' = UnreadAt(i + 1)
  BY <1>1, <1>2, RxSlotIs
<1>4. QED
  BY <1>3 DEF Was

(* Nothing changed for the unread segments.                                *)
LEMMA DataStays ==
  ASSUME RxIndexed, RxData, Unread' = Unread, RxCur' = RxCur,
         \A i \in 1..Unread : Was(i, i),
         rxRun' # "stopped" => rxRun # "stopped" /\ rxPart' = rxPart
  PROVE  RxData'
<1>1. Unread \in Nat
  BY RxAssumption DEF RxIndexed, RxAssumption
<1>2. \A i \in 1..Unread : Piece(i)' = Piece(i) /\ Segment(i)'
  BY DEF RxData, Was, Piece, Segment
<1>3. ASSUME NEW i \in 2..Unread PROVE Follows(i)'
  <2>1. i \in 1..Unread /\ i - 1 \in 1..Unread
    BY <1>1
  <2>2. QED
    BY <1>2, <2>1 DEF RxData, Follows, Was
<1>4. QED
  BY <1>1, <1>2, <1>3 DEF RxData

(* One more was stored.                                                    *)
LEMMA DataGrows ==
  ASSUME RxData, NEW n \in Nat, Unread = n, Unread' = n + 1,
         RxCur' = RxCur, \A i \in 1..n : Was(i, i),
         Segment(n + 1)',
         Piece(n + 1)' = IF n = 0 THEN RxCur + 1
                         ELSE IF rxDesc[UnreadAt(n)].ls THEN 1 ELSE Piece(n) + 1,
         rxPart'[1] # None => rxPart'[2] = Piece(n + 1)'
  PROVE  RxData'
<1>1. \A i \in 1..n : Piece(i)' = Piece(i) /\ Segment(i)' /\ Piece(i) \in Nat \ {0}
  BY DEF RxData, Was, Piece, Segment
<1>2. Piece(n + 1)' \in Nat
  BY DEF Segment, Piece
<1>3. \A i \in 1..n + 1 : Segment(i)'
  BY <1>1
<1>4. Piece(1)' = RxCur + 1
  BY <1>1 DEF RxData
<1>5. ASSUME NEW i \in 2..n + 1 PROVE Follows(i)'
  <2>1. CASE i = n + 1
    <3>1. n \in 1..n /\ n # 0 /\ (n + 1) - 1 = n
      BY <2>1
    <3>2. QED
      BY <1>1, <2>1, <3>1 DEF Follows, Was
  <2>2. CASE i # n + 1
    <3>1. i \in 2..n /\ i \in 1..n /\ i - 1 \in 1..n
      BY <2>2
    <3>2. QED
      BY <1>1, <3>1 DEF RxData, Follows, Was
  <2>3. QED
    BY <2>1, <2>2
<1>6. ASSUME NEW i \in 1..n + 1, NEW j \in 1..n + 1, i <= j
      PROVE  Piece(j)' <= Piece(i)' + j - i
  <2>1. CASE j # n + 1
    <3>1. i \in 1..n /\ j \in 1..n
      BY <1>6, <2>1
    <3>2. QED
      BY <1>1, <1>6, <3>1 DEF RxData
  <2>2. CASE j = n + 1 /\ i # n + 1
    <3>1. i \in 1..n /\ n \in 1..n /\ n # 0 /\ i <= n
      BY <2>2
    <3>2. Piece(n) <= Piece(i) + n - i
      BY <3>1 DEF RxData
    <3>3. Piece(n + 1)' <= Piece(n) + 1
      BY <1>1, <3>1
    <3>4. QED
      BY <1>1, <1>2, <2>2, <3>1, <3>2, <3>3
  <2>3. CASE j = n + 1 /\ i = n + 1
    BY <1>2, <2>3
  <2>4. QED
    BY <2>1, <2>2, <2>3
<1>7. QED
  BY <1>3, <1>4, <1>5, <1>6 DEF RxData

(* The first one was read.                                                 *)
LEMMA DataShrinks ==
  ASSUME RxData, NEW n \in Nat, Unread = n + 1, Unread' = n,
         RxCur' = IF rxDesc[UnreadAt(1)].ls THEN 0 ELSE RxCur + 1,
         \A i \in 1..n : Was(i, i + 1),
         rxRun' = rxRun, rxPart' = rxPart,
         n = 0 /\ rxDesc[UnreadAt(1)].ls /\ rxRun # "stopped" => rxPart[1] = None
  PROVE  RxData'
<1>1. ASSUME NEW i \in 1..n
      PROVE  Piece(i)' = Piece(i + 1) /\ Segment(i)'
  <2>1. i + 1 \in 1..n + 1
    OBVIOUS
  <2>2. QED
    BY <2>1 DEF RxData, Was, Piece, Segment
<1>2. Piece(1) = RxCur + 1 /\ Piece(1) \in Nat \ {0}
  BY DEF RxData, Segment, Piece
<1>3. n > 0 => Piece(1)' = RxCur' + 1
  <2> SUFFICES ASSUME n > 0 PROVE Piece(1)' = RxCur' + 1
    OBVIOUS
  <2>1. 1 \in 1..n /\ 2 \in 2..n + 1
    OBVIOUS
  <2>2. Follows(2) /\ 1 + 1 = 2 /\ 2 - 1 = 1
    BY <2>1 DEF RxData
  <2>3. QED
    BY <1>1, <1>2, <2>1, <2>2 DEF Follows
<1>4. ASSUME NEW i \in 2..n PROVE Follows(i)'
  <2>1. i \in 1..n /\ i - 1 \in 1..n /\ i + 1 \in 2..n + 1
    OBVIOUS
  <2>2. (i - 1) + 1 = i /\ (i + 1) - 1 = i
    OBVIOUS
  <2>3. Follows(i + 1) /\ Was(i - 1, i)
    BY <2>1, <2>2 DEF RxData
  <2>4. Piece(i)' = Piece(i + 1) /\ Piece(i - 1)' = Piece(i)
    BY <1>1, <2>1, <2>2
  <2>5. QED
    BY <2>2, <2>3, <2>4 DEF Follows, Was
<1>5. ASSUME NEW i \in 1..n, NEW j \in 1..n, i <= j
      PROVE  Piece(j)' <= Piece(i)' + j - i
  <2>1. i + 1 \in 1..n + 1 /\ j + 1 \in 1..n + 1 /\ i + 1 <= j + 1
    BY <1>5
  <2>2. /\ Piece(j + 1) <= Piece(i + 1) + (j + 1) - (i + 1)
        /\ Piece(i + 1) \in Nat
    BY <2>1 DEF RxData, Segment, Piece
  <2>3. QED
    BY <1>1, <2>2
<1>6. rxRun' # "stopped" /\ rxPart'[1] # None =>
        rxPart'[2] = IF n = 0 THEN RxCur' ELSE Piece(n)'
  BY <1>1, <1>2 DEF RxData
<1>7. QED
  BY <1>1, <1>3, <1>4, <1>5, <1>6 DEF RxData

(* What waits, one frame for each last segment, in their order.            *)
RxItem(i) == FrameAt(UnreadAt(i))

RxQueued ==
  /\ Unread \in Nat
  /\ Completed \in SUBSET (1..Unread) /\ Cardinality(Completed) \in 0..Unread
  /\ RxWaiting \in Seq(Frames \X Lengths)
  /\ Len(RxWaiting) = Cardinality(Completed)
  /\ \A k \in 1..Cardinality(Completed) :
       RxWaiting[k] = RxItem(Nth(Completed, k))
  /\ \A i \in Completed : RxItem(i) \in Frames \X Lengths

LEMMA RxCurFits == RxInv /\ RxIndexed => RxCur \in Nat /\ RxCur + Unread <= RxN
<1> SUFFICES ASSUME RxInv, RxIndexed
             PROVE  RxCur \in Nat /\ RxCur + Unread <= RxN
  OBVIOUS
<1>1. Shape(rxDesc, RxHead, RxRead, DMARxDescToGet, Unread, rxAt, Begins)
  BY RxShaped DEF RxShape
<1>2. RxRead \in Nat /\ Unread \in Nat /\ RxN \in Nat /\ RxRead + Unread <= RxN
  BY <1>1, RxAssumption DEF Shape, RxAssumption
<1>3. QED
  BY <1>2 DEF RxCur

LEMMA RxWaitingIs == RxInv /\ RxIndexed /\ RxData => RxQueued
<1> SUFFICES ASSUME RxInv, RxIndexed, RxData PROVE RxQueued
  OBVIOUS
<1> DEFINE c == Cardinality(Completed)
<1>1. Unread \in Nat /\ RxN \in Nat
  BY RxAssumption DEF RxIndexed, RxAssumption
<1>2. Completed \in SUBSET (1..Unread)
  BY DEF Completed
<1>3. IsFiniteSet(1..Unread) /\ Cardinality(1..Unread) = Unread
  BY <1>1, FS_Interval
<1>4. c \in 0..Unread
  <2>1. c <= Cardinality(1..Unread)
    BY <1>2, <1>3, FS_Subset
  <2>2. c \in Nat
    BY <1>1, <1>2, UpToIs
  <2>3. QED
    BY <1>1, <1>3, <2>1, <2>2
<1>5. ASSUME NEW i \in Completed PROVE RxItem(i) \in Frames \X Lengths
  <2>1. i \in 1..Unread /\ 1 \in 1..Unread /\ 1 <= i /\ rxDesc[UnreadAt(i)].ls
    BY <1>1 DEF Completed
  <2>2. /\ rxBuf[UnreadAt(i)][1] \in Frames
        /\ rxDesc[UnreadAt(i)].len = Piece(i) /\ Piece(i) \in Nat \ {0}
    BY <2>1 DEF RxData, Segment, Piece
  <2>3. Piece(i) <= Piece(1) + i - 1 /\ Piece(1) = RxCur + 1
    BY <1>1, <2>1 DEF RxData
  <2>4. Piece(i) <= RxN
    BY <1>1, <2>1, <2>2, <2>3, RxCurFits
  <2>5. QED
    BY <1>1, <2>2, <2>4 DEF RxItem, FrameAt, Lengths
<1>6. \A k \in 1..c : Nth(Completed, k) \in Completed
  BY <1>1, <1>2, NthIs
<1>7. RxWaiting = [k \in 1..c |-> RxItem(Nth(Completed, k))]
  BY DEF RxWaiting, RxItem
<1> HIDE DEF c
<1>8. RxWaiting \in Seq(Frames \X Lengths) /\ Len(RxWaiting) = c
  <2>1. RxWaiting \in [1..c -> Frames \X Lengths]
    BY <1>5, <1>6, <1>7
  <2>2. c \in Nat
    BY <1>1, <1>4
  <2>3. QED
    BY <2>1, <2>2
<1>9. \A k \in 1..c : RxWaiting[k] = RxItem(Nth(Completed, k))
  BY <1>7
<1>10. QED
  BY <1>1, <1>2, <1>4, <1>5, <1>8, <1>9 DEF RxQueued, c

LEMMA WaitsOn ==
  ASSUME RxQueued, RxQueued', Unread' = Unread, \A i \in 1..Unread : Was(i, i)
  PROVE  RxWaiting' = RxWaiting
<1>1. Completed' = Completed
  BY DEF Completed, Was
<1>2. \A i \in Completed : RxItem(i)' = RxItem(i)
  BY DEF RxQueued, RxItem, FrameAt, Was
<1>3. \A k \in 1..Cardinality(Completed) : Nth(Completed, k) \in Completed
  BY NthIs DEF RxQueued
<1>4. \A k \in 1..Cardinality(Completed) : RxWaiting'[k] = RxWaiting[k]
  BY <1>1, <1>2, <1>3 DEF RxQueued
<1>5. QED
  BY <1>1, <1>4, SeqEqual DEF RxQueued

LEMMA WaitsMore ==
  ASSUME RxQueued, RxQueued', NEW n \in Nat, Unread = n, Unread' = n + 1,
         \A i \in 1..n : Was(i, i)
  PROVE  IF rxDesc'[UnreadAt(n + 1)'].ls
           THEN RxWaiting' = Append(RxWaiting, RxItem(n + 1)')
           ELSE RxWaiting' = RxWaiting
<1> DEFINE c == Cardinality(Completed)
           q == Append(RxWaiting, RxItem(n + 1)')
<1>1. c \in Nat /\ Completed \in SUBSET (1..n)
  BY DEF RxQueued
<1>2. \A k \in 1..c : Nth(Completed, k) \in Completed
  BY <1>1, NthIs
<1>3. \A i \in Completed : RxItem(i)' = RxItem(i)
  BY <1>1 DEF RxItem, FrameAt, Was
<1>4. Completed' = IF rxDesc'[UnreadAt(n + 1)'].ls THEN Completed \union {n + 1}
                                                   ELSE Completed
  <2>1. \A i \in 1..n : i \in Completed' <=> i \in Completed
    BY DEF Completed, Was
  <2>2. n + 1 \in Completed' <=> rxDesc'[UnreadAt(n + 1)'].ls
    BY DEF Completed
  <2>3. Completed' \subseteq 1..n + 1 /\ Completed \subseteq 1..n
    BY DEF Completed
  <2>4. \A i \in 1..n + 1 : i = n + 1 \/ i \in 1..n
    OBVIOUS
  <2>5. ~rxDesc'[UnreadAt(n + 1)'].ls => Completed' = Completed
    BY <2>1, <2>2, <2>3, <2>4
  <2>6. rxDesc'[UnreadAt(n + 1)'].ls => Completed' = Completed \union {n + 1}
    BY <2>1, <2>2, <2>3, <2>4
  <2>7. QED
    BY <2>5, <2>6
<1>5. CASE ~rxDesc'[UnreadAt(n + 1)'].ls
  <2>1. Completed' = Completed
    BY <1>4, <1>5
  <2>2. \A k \in 1..c : RxWaiting'[k] = RxWaiting[k]
    BY <1>2, <1>3, <2>1 DEF RxQueued
  <2>3. QED
    BY <1>5, <2>1, <2>2, SeqEqual DEF RxQueued
<1>6. CASE rxDesc'[UnreadAt(n + 1)'].ls
  <2>1. Completed' = Completed \union {n + 1}
    BY <1>4, <1>6
  <2>2. /\ Cardinality(Completed') = c + 1
        /\ \A k \in 1..c : Nth(Completed', k) = Nth(Completed, k)
        /\ Nth(Completed', c + 1) = n + 1
    BY <1>1, <2>1, NthGrows
  <2>3. RxItem(n + 1)' \in Frames \X Lengths
    BY <2>1 DEF RxQueued
  <2>4. /\ q \in Seq(Frames \X Lengths) /\ Len(q) = c + 1
        /\ q[c + 1] = RxItem(n + 1)' /\ \A k \in 1..c : q[k] = RxWaiting[k]
    BY <2>3, AppendProperties DEF RxQueued
  <2> HIDE DEF q
  <2>5. ASSUME NEW k \in 1..c + 1 PROVE RxWaiting'[k] = q[k]
    <3>1. RxWaiting'[k] = RxItem(Nth(Completed, k))'
      BY <2>2 DEF RxQueued
    <3>2. CASE k = c + 1
      BY <2>2, <2>4, <3>1, <3>2
    <3>3. CASE k # c + 1
      <4>1. k \in 1..c
        BY <1>1, <3>3
      <4>2. QED
        BY <1>2, <1>3, <2>2, <2>4, <3>1, <4>1 DEF RxQueued
    <3>4. QED
      BY <3>2, <3>3
  <2>6. RxWaiting' = q
    BY <2>2, <2>4, <2>5, SeqEqual DEF RxQueued
  <2>7. QED
    BY <1>6, <2>6 DEF q
<1>7. QED
  BY <1>5, <1>6

LEMMA WaitsLess ==
  ASSUME RxQueued, RxQueued', NEW n \in Nat, Unread = n + 1, Unread' = n,
         \A i \in 1..n : Was(i, i + 1)
  PROVE  IF rxDesc[UnreadAt(1)].ls
           THEN /\ RxWaiting # <<>> /\ Head(RxWaiting) = RxItem(1)
                /\ RxWaiting' = Tail(RxWaiting)
           ELSE RxWaiting' = RxWaiting
<1> DEFINE c == Cardinality(Completed')
<1>1. /\ c \in Nat /\ Completed \in SUBSET (1..n + 1) /\ n + 1 \in Nat
      /\ Completed' \in SUBSET (1..n)
  BY DEF RxQueued
<1>2. \A k \in 1..c : Nth(Completed', k) \in Completed'
  BY <1>1, NthIs
<1>3. \A i \in Completed' : RxItem(i)' = RxItem(i + 1)
  BY <1>1 DEF RxItem, FrameAt, Was
<1>4. /\ \A i \in 1..n : i \in Completed' <=> i + 1 \in Completed
      /\ 1 \in Completed <=> rxDesc[UnreadAt(1)].ls
  BY DEF Completed, Was
<1>5. Completed' = {i - 1 : i \in Completed \ {1}}
  <2>1. \A i \in Completed \ {1} : i - 1 \in 1..n /\ (i - 1) + 1 = i
    BY <1>1
  <2>2. \A i \in Completed' : i + 1 \in Completed \ {1} /\ (i + 1) - 1 = i
    BY <1>1, <1>4
  <2>3. QED
    BY <1>4, <2>1, <2>2
<1>6. CASE ~rxDesc[UnreadAt(1)].ls
  <2>1. 1 \notin Completed /\ Completed' = {i - 1 : i \in Completed}
    BY <1>4, <1>5, <1>6
  <2>2. /\ Cardinality(Completed') = Cardinality(Completed)
        /\ \A k \in 1..Cardinality(Completed) :
             Nth(Completed, k) = Nth(Completed', k) + 1
    <3> HIDE DEF c
    <3>1. QED
      BY <1>1, <2>1, NthShifts
  <2>3. \A k \in 1..c : RxWaiting'[k] = RxWaiting[k]
    BY <1>2, <1>3, <2>2 DEF RxQueued
  <2>4. QED
    BY <1>6, <2>2, <2>3, SeqEqual DEF RxQueued
<1>7. CASE rxDesc[UnreadAt(1)].ls
  <2>1. 1 \in Completed
    BY <1>4, <1>7
  <2>2. /\ Cardinality(Completed) = c + 1 /\ Nth(Completed, 1) = 1
        /\ \A k \in 1..c : Nth(Completed, k + 1) = Nth(Completed', k) + 1
    BY <1>1, <1>5, <2>1, NthDrops
  <2>3. RxWaiting # <<>> /\ RxWaiting[1] = RxItem(1)
    BY <1>1, <2>2 DEF RxQueued
  <2>4. /\ Head(RxWaiting) = RxWaiting[1]
        /\ Tail(RxWaiting) \in Seq(Frames \X Lengths)
        /\ Len(Tail(RxWaiting)) = c
        /\ \A k \in 1..c : Tail(RxWaiting)[k] = RxWaiting[k + 1]
    BY <1>1, <2>2, <2>3 DEF RxQueued
  <2>5. ASSUME NEW k \in 1..c PROVE RxWaiting'[k] = Tail(RxWaiting)[k]
    <3>1. k + 1 \in 1..c + 1
      BY <1>1
    <3>2. QED
      BY <1>2, <1>3, <2>2, <2>4, <3>1 DEF RxQueued
  <2>6. RxWaiting' = Tail(RxWaiting)
    BY <2>4, <2>5, SeqEqual DEF RxQueued
  <2>7. QED
    BY <1>7, <2>3, <2>4, <2>6
<1>8. QED
  BY <1>6, <1>7

(* What a step does to the unread segments: nothing; the DMA stores one    *)
(* more; or the main loop reads the first one, and if a frame ends there   *)
(* hands it on, in one piece unless it has several.                        *)
UnreadStays ==
  /\ Unread' = Unread /\ RxCur' = RxCur /\ \A i \in 1..Unread : Was(i, i)
  /\ rxRun' # "stopped" => rxRun # "stopped" /\ rxPart' = rxPart
  /\ got' = got

UnreadGrows(n) ==
  /\ n < RxN /\ Unread = n /\ Unread' = n + 1
  /\ RxCur' = RxCur /\ \A i \in 1..n : Was(i, i)
  /\ Segment(n + 1)'
  /\ Piece(n + 1)' = IF n = 0 THEN RxCur + 1
                     ELSE IF rxDesc[UnreadAt(n)].ls THEN 1 ELSE Piece(n) + 1
  /\ rxPart'[1] # None => rxPart'[2] = Piece(n + 1)'
  /\ got' = got

UnreadShrinks(n) ==
  /\ Unread = n + 1 /\ Unread' = n
  /\ RxCur' = IF rxDesc[UnreadAt(1)].ls THEN 0 ELSE RxCur + 1
  /\ \A i \in 1..n : Was(i, i + 1)
  /\ rxRun' = rxRun /\ rxPart' = rxPart
  /\ n = 0 /\ rxDesc[UnreadAt(1)].ls /\ rxRun # "stopped" => rxPart[1] = None
  /\ \/ got' = got
     \/ /\ rxDesc[UnreadAt(1)].ls
        /\ got' = RxItem(1) \/ (RxItem(1)[2] # 1 /\ got' = Torn)

RxMoves ==
  UnreadStays \/ \E n \in Nat : UnreadGrows(n) \/ UnreadShrinks(n)

LEMMA PausedStays ==
  ASSUME RxSuspend \/ RxRetry \/ RxReset \/ UNCHANGED rxVars
  PROVE  UnreadStays
<1>1. /\ UNCHANGED <<rxDesc, rxBuf, DMARxDescToGet, Seg_Count, rxAt, rxPc,
                     relDesc, relLeft, got>>
      /\ rxRun' # "stopped" => rxRun # "stopped" /\ rxPart' = rxPart
  BY DEF RxSuspend, RxRetry, RxReset, rxVars
<1>2. Unread' = Unread /\ \A i : UnreadAt(i)' = UnreadAt(i)
  BY <1>1 DEF Unread, UnreadAt
<1>3. RxCur' = RxCur
  BY <1>1 DEF RxCur, RxRead, Begins
<1>4. QED
  BY <1>1, <1>2, <1>3 DEF UnreadStays, Was

LEMMA ResumedStays ==
  ASSUME RxInv, RxIndexed, RxTypeOK', RxIndexed', ResumeRx
  PROVE  UnreadStays
<1>1. /\ rxPc = "resume" /\ rxPc' = "poll" /\ Seg_Count' = 0
      /\ UNCHANGED <<rxDesc, rxBuf, DMARxDescToGet, rxAt, rxPart, got>>
      /\ rxRun' # "stopped" => rxRun # "stopped"
  BY DEF ResumeRx, Resumed
<1>2. Unread' = Unread /\ \A i : UnreadAt(i)' = UnreadAt(i)
  BY <1>1 DEF Unread, UnreadAt
<1>3. RxCur' = RxCur
  BY <1>1 DEF RxCur, RxRead, Begins
<1>4. QED
  BY <1>1, <1>2, <1>3 DEF UnreadStays, Was

LEMMA ReleasedStays ==
  ASSUME RxInv, RxIndexed, RxTypeOK', RxIndexed', Release
  PROVE  UnreadStays
<1>1. /\ rxPc = "release" /\ rxPc' \in {"release", "resume"}
      /\ rxDesc' = [rxDesc EXCEPT ![relDesc] = Ready]
      /\ rxBuf' = [rxBuf EXCEPT ![relDesc] = <<None, 0>>]
      /\ UNCHANGED <<DMARxDescToGet, rxAt, rxPart, rxRun, got>>
  BY DEF Release
<1>2. PICK n \in Nat : n = Unread /\ RxShape(n)
  BY RxShaped, RxAssumption DEF RxIndexed, RxAssumption
<1>3. RxShape(n)'
  BY <1>2, RxReleased
<1>4. Unread' = n
  BY <1>3 DEF RxIndexed
<1>5. /\ relDesc \in RxDescs /\ relLeft \in Nat /\ relLeft > 0
      /\ RxHead = relDesc /\ RxRead = relLeft
  BY <1>1 DEF RxInv, RxTypeOK, RxHead, RxRead
<1>6. relDesc \notin Span(DMARxDescToGet, n)
  BY <1>2, <1>5, SpanSplits DEF RxShape, Shape
<1>7. \A e \in RxDescs : e # relDesc =>
        rxBuf'[e] = rxBuf[e] /\ rxDesc'[e] = rxDesc[e]
  BY <1>1, <1>5 DEF RxInv, RxTypeOK
<1>8. \A i \in 1..Unread : Was(i, i)
  <2>1. PICK d \in RxDescs : d = relDesc
    BY <1>5
  <2>2. QED
    BY <1>1, <1>2, <1>6, <1>7, <2>1, OthersStay
<1>9. RxCur' = RxCur
  BY <1>1 DEF RxCur, Begins
<1>10. QED
  BY <1>1, <1>2, <1>4, <1>8, <1>9 DEF UnreadStays

LEMMA StoredGrows ==
  ASSUME RxInv, RxIndexed, RxTypeOK', RxIndexed', RxData, NEW f \in Frames,
         RxStore(f)
  PROVE  \E n \in Nat : UnreadGrows(n)
<1> DEFINE k == rxPart[2] + 1
           ends == k = Pieces[f] \/ ~rxDesc[RxNextOf(rxAt)].own
<1>1. /\ rxRun = "run" /\ rxDesc[rxAt].own
      /\ rxDesc' = [rxDesc EXCEPT ![rxAt] =
           [own |-> FALSE, fs |-> k = 1, ls |-> ends, len |-> IF ends THEN k ELSE 0]]
      /\ rxBuf' = [rxBuf EXCEPT ![rxAt] = <<f, k>>]
      /\ rxPart' = IF ends THEN <<None, 0>> ELSE <<f, k>>
      /\ UNCHANGED <<DMARxDescToGet, FS_Rx_Desc, Seg_Count, rxPc, relDesc,
                     relLeft, got>>
  BY DEF RxStore
<1>2. PICK n \in Nat : n = Unread /\ RxShape(n)
  BY RxShaped, RxAssumption DEF RxIndexed, RxAssumption
<1>3. RxShape(n + 1)' /\ n + 1 \in Nat
  BY <1>2, RxStored
<1>4. Unread' = n + 1
  BY <1>3 DEF RxIndexed
<1>5. /\ rxAt \in RxDescs /\ DMARxDescToGet \in RxDescs /\ rxPart[2] \in Nat
      /\ k \in Nat \ {0} /\ RxN \in Nat
  BY RxAssumption DEF RxInv, RxTypeOK, RxAssumption
<1>6. Steps(DMARxDescToGet, n, rxAt) /\ n + 1 <= RxN
  <2>1. Unread' <= RxN
    BY <1>5 DEF RxIndexed
  <2>2. QED
    BY <1>2, <1>4, <2>1 DEF RxShape, Shape
<1>7. /\ rxAt \notin Span(DMARxDescToGet, n)
      /\ UnreadAt(n + 1)' = rxAt
  BY <1>1, <1>5, <1>6, SpanGrows, RxSlotIs DEF RxIndexed
<1>8. \A e \in RxDescs : e # rxAt =>
        rxBuf'[e] = rxBuf[e] /\ rxDesc'[e] = rxDesc[e]
  BY <1>1, <1>5 DEF RxInv, RxTypeOK
<1>9. \A i \in 1..n : Was(i, i)
  <2>1. PICK d \in RxDescs : d = rxAt
    BY <1>5
  <2>2. QED
    BY <1>1, <1>2, <1>7, <1>8, <2>1, OthersStay
<1>10. rxBuf'[rxAt] = <<f, k>> /\ (rxDesc'[rxAt].ls => rxDesc'[rxAt].len = k)
  BY <1>1, <1>5 DEF RxInv, RxTypeOK
<1>11. Piece(n + 1)' = k /\ Segment(n + 1)'
  <2> HIDE DEF k, ends
  <2>1. rxBuf'[UnreadAt(n + 1)'] = <<f, k>>
    BY <1>7, <1>10
  <2>2. Piece(n + 1)' = k
    BY <2>1 DEF Piece
  <2>3. rxBuf'[UnreadAt(n + 1)'] \in Frames \X (Nat \ {0})
    BY <1>5, <2>1
  <2>4. QED
    BY <1>7, <1>10, <2>2, <2>3 DEF Segment
<1>12. RxCur' = RxCur
  BY <1>1 DEF RxCur, RxRead, Begins
<1>13. rxPart'[1] # None => rxPart'[2] = k
  BY <1>1
<1>14. k = IF n = 0 THEN RxCur + 1
           ELSE IF rxDesc[UnreadAt(n)].ls THEN 1 ELSE Piece(n) + 1
  <2>1. rxPart[1] = None <=> Ended(rxDesc, n, rxAt, Begins)
    BY <1>1, <1>2 DEF RxShape
  <2>2. rxPart[1] = None => k = 1
    BY RxAssumption DEF RxInv, RxAssumption
  <2>3. rxPart[1] # None => k = (IF n = 0 THEN RxCur ELSE Piece(n)) + 1
    BY <1>1, <1>2 DEF RxData
  <2>4. CASE n = 0
    BY <2>1, <2>2, <2>3, <2>4 DEF Ended, RxCur
  <2>5. CASE n # 0
    <3>1. UnreadAt(n) = Before(rxAt)
      BY <1>5, <1>6, <2>5, RxSlotIs DEF RxIndexed
    <3>2. QED
      BY <2>1, <2>2, <2>3, <2>5, <3>1 DEF Ended
  <2>6. QED
    BY <2>4, <2>5
<1> HIDE DEF k
<1>15. UnreadGrows(n)
  BY <1>1, <1>2, <1>4, <1>5, <1>6, <1>9, <1>11, <1>12, <1>13, <1>14 DEF UnreadGrows
<1>16. QED
  BY <1>15

LEMMA CheckedMoves ==
  ASSUME RxInv, RxIndexed, RxTypeOK', RxIndexed', ETH_CheckFrameReceived
  PROVE  RxMoves
<1>1. /\ rxPc = "poll"
      /\ UNCHANGED <<rxDesc, rxBuf, rxAt, rxPart, rxRun, got>>
  BY DEF ETH_CheckFrameReceived
<1>2. PICK unread \in Nat : unread = Unread /\ RxShape(unread)
  BY RxShaped, RxAssumption DEF RxIndexed, RxAssumption
<1>3. /\ Seg_Count \in Nat /\ DMARxDescToGet \in RxDescs
      /\ RxN \in Nat /\ RxN > 1
  BY RxAssumption DEF RxInv, RxTypeOK, RxAssumption
<1>4. RxCur = Seg_Count
  BY <1>1, <1>3 DEF RxCur, RxRead, Begins
<1>5. CASE CheckNone \/ CheckLast
  <2>1. /\ DMARxDescToGet' = DMARxDescToGet /\ rxPc' \in {"poll", "input"}
        /\ rxPc' = "poll" => Seg_Count' = Seg_Count
        /\ rxPc' = "input" => Seg_Count' = Seg_Count + 1
    BY <1>1, <1>5 DEF CheckNone, CheckLast
  <2>2. Unread' = Unread /\ \A i : UnreadAt(i)' = UnreadAt(i)
    BY <1>1, <2>1 DEF Unread, UnreadAt
  <2>3. RxCur' = RxCur
    BY <1>3, <1>4, <2>1 DEF RxCur, RxRead, Begins
  <2>4. QED
    BY <1>1, <2>2, <2>3 DEF RxMoves, UnreadStays, Was
<1>6. CASE ~rxDesc[DMARxDescToGet].own /\ (CheckFirst \/ CheckMiddle)
  <2>1. rxDesc[DMARxDescToGet].fs <=> Seg_Count = 0
    BY <1>1, <1>2, <1>6, RxUnread
  <2>2. /\ DMARxDescToGet' = RxNextOf(DMARxDescToGet) /\ rxPc' = "poll"
        /\ Seg_Count' = Seg_Count + 1 /\ ~rxDesc[DMARxDescToGet].ls
    BY <1>1, <1>3, <1>6, <2>1 DEF CheckFirst, CheckMiddle
  <2>3. unread > 0 /\ RxShape(unread - 1)'
    BY <1>2, <1>3, <2>2, RxChecked, RxNextIs
  <2>4. PICK n \in Nat : n = unread - 1
    BY <2>3
  <2>5. Unread = n + 1 /\ Unread' = n
    BY <1>2, <2>3, <2>4 DEF RxIndexed
  <2>6. UnreadAt(1) = DMARxDescToGet
    BY <1>3, RxSlotIs DEF RxIndexed
  <2>7. RxCur' = RxCur + 1
    BY <1>3, <1>4, <2>2 DEF RxCur, RxRead, Begins
  <2>8. \A i \in 1..n : Was(i, i + 1)
    BY <1>1, <2>2, <2>5, NextIsFirst
  <2>9. UnreadShrinks(n)
    BY <1>1, <2>2, <2>5, <2>6, <2>7, <2>8 DEF UnreadShrinks
  <2>10. QED
    BY <2>9 DEF RxMoves
<1>7. QED
  BY <1>5, <1>6 DEF ETH_CheckFrameReceived

(* low_level_input copies the frame, or what is torn had several segments. *)
LEMMA CopiedIs ==
  ASSUME RxInv, RxIndexed, RxData, rxPc = "input"
  PROVE  Copied = RxItem(1) \/ (RxItem(1)[2] # 1 /\ Copied = Torn)
<1>1. PICK unread \in Nat : unread = Unread /\ RxShape(unread)
  BY RxShaped, RxAssumption DEF RxIndexed, RxAssumption
<1>2. /\ unread > 0 /\ Seg_Count > 0 /\ rxDesc[DMARxDescToGet].ls
      /\ Seg_Count \in Nat /\ DMARxDescToGet \in RxDescs
      /\ RxN \in Nat /\ RxN > 1 /\ RxDescs = 0..RxN-1
  BY <1>1, RxAssumption
     DEF RxInv, RxTypeOK, RxAssumption, RxShape, RxDescs
<1>3. UnreadAt(1) = DMARxDescToGet
  BY <1>2, RxSlotIs DEF RxIndexed
<1>4. FirstDesc \in RxDescs /\ Steps(FirstDesc, Seg_Count - 1, DMARxDescToGet)
  BY <1>1 DEF RxShape, Shape, RxHead, RxRead
<1>5. RxCur + 1 = Seg_Count
  BY <1>2 DEF RxCur, RxRead, Begins
<1>6. /\ rxBuf[DMARxDescToGet] \in Frames \X (Nat \ {0})
      /\ rxBuf[DMARxDescToGet][2] = Seg_Count
      /\ rxDesc[DMARxDescToGet].len = Seg_Count
  <2>1. Segment(1) /\ Piece(1) = RxCur + 1
    BY <1>1, <1>2 DEF RxData
  <2>2. QED
    BY <1>2, <1>3, <1>5, <2>1 DEF Segment, Piece
<1>7. RxItem(1) = <<rxBuf[DMARxDescToGet][1], Seg_Count>>
  BY <1>3, <1>6 DEF RxItem, FrameAt
<1> DEFINE f == rxBuf[FirstDesc][1]
           whole == \A k \in 1..Seg_Count : /\ FirstDesc + k - 1 < RxN
                                            /\ rxBuf[FirstDesc + k - 1] = <<f, k>>
<1>8. Copied = IF whole THEN <<f, Seg_Count>> ELSE Torn
  BY <1>6 DEF Copied
<1>9. ASSUME whole PROVE f = rxBuf[DMARxDescToGet][1]
  <2>1. /\ FirstDesc + Seg_Count - 1 < RxN
        /\ rxBuf[FirstDesc + Seg_Count - 1] = <<f, Seg_Count>>
    <3>1. Seg_Count \in 1..Seg_Count
      BY <1>2
    <3>2. QED
      BY <1>9, <3>1
  <2> HIDE DEF f
  <2>2. DMARxDescToGet = FirstDesc + Seg_Count - 1
    BY <1>2, <1>4, <2>1 DEF Steps
  <2>3. QED
    BY <2>1, <2>2
<1>10. ASSUME Seg_Count = 1 PROVE whole
  <2>1. FirstDesc = DMARxDescToGet
    BY <1>10 DEF FirstDesc
  <2>2. rxBuf[FirstDesc] = <<f, 1>>
    BY <1>6, <1>10, <2>1
  <2> HIDE DEF f
  <2>3. FirstDesc < RxN /\ FirstDesc \in Nat
    BY <1>2, <1>4
  <2>4. \A k \in 1..Seg_Count : k = 1 /\ FirstDesc + k - 1 = FirstDesc
    BY <1>10, <2>3
  <2>5. QED
    BY <2>2, <2>3, <2>4
<1> HIDE DEF f, whole
<1>11. QED
  BY <1>7, <1>8, <1>9, <1>10

LEMMA FetchedShrinks ==
  ASSUME RxInv, RxIndexed, RxTypeOK', RxIndexed', RxData,
         NEW allocated \in BOOLEAN, Fetch(allocated)
  PROVE  \E n \in Nat : UnreadShrinks(n)
<1>1. /\ rxPc = "input" /\ rxPc' = "release"
      /\ DMARxDescToGet' = RxNextOf(DMARxDescToGet)
      /\ got' = IF allocated THEN Copied ELSE got
      /\ UNCHANGED <<rxDesc, rxBuf, rxAt, rxPart, rxRun>>
  BY DEF Fetch
<1>2. PICK unread \in Nat : unread = Unread /\ RxShape(unread)
  BY RxShaped, RxAssumption DEF RxIndexed, RxAssumption
<1>3. unread > 0 /\ RxShape(unread - 1)'
  BY <1>2, RxFetched
<1>4. PICK n \in Nat : n = unread - 1
  BY <1>3
<1>5. Unread = n + 1 /\ Unread' = n
  BY <1>2, <1>3, <1>4 DEF RxIndexed
<1>6. /\ DMARxDescToGet \in RxDescs /\ rxAt \in RxDescs
      /\ RxN \in Nat /\ RxN > 1
  BY RxAssumption DEF RxInv, RxTypeOK, RxAssumption
<1>7. UnreadAt(1) = DMARxDescToGet /\ rxDesc[DMARxDescToGet].ls
  BY <1>1, <1>2, <1>6, RxSlotIs DEF RxIndexed, RxShape
<1>8. RxCur' = 0
  BY <1>1 DEF RxCur, Begins
<1>9. \A i \in 1..n : Was(i, i + 1)
  BY <1>1, <1>5, NextIsFirst
<1>10. ASSUME n = 0, rxRun # "stopped" PROVE rxPart[1] = None
  <2>1. unread = 1 /\ Steps(DMARxDescToGet, 1, rxAt)
    BY <1>2, <1>5, <1>10 DEF RxShape, Shape
  <2>2. Before(rxAt) = DMARxDescToGet
    BY <1>6, <2>1, RxSlotIs
  <2>3. QED
    BY <1>2, <1>7, <1>10, <2>1, <2>2 DEF RxShape, Ended
<1>11. \/ got' = got
       \/ got' = RxItem(1) \/ (RxItem(1)[2] # 1 /\ got' = Torn)
  BY <1>1, CopiedIs
<1>12. UnreadShrinks(n)
  BY <1>1, <1>5, <1>7, <1>8, <1>9, <1>10, <1>11 DEF UnreadShrinks
<1>13. QED
  BY <1>12

LEMMA EachMoves ==
  ASSUME RxInv, RxIndexed, RxTypeOK', RxIndexed', RxData, [RxStep]_rxVars
  PROVE  RxMoves
BY PausedStays, ResumedStays, ReleasedStays, StoredGrows, CheckedMoves,
   FetchedShrinks
   DEF RxStep, RxDma, RxPoll, RxMoves

LEMMA DataStep ==
  RxInv /\ RxIndexed /\ RxTypeOK' /\ RxIndexed' /\ RxData /\ [RxStep]_rxVars
    => RxData'
BY EachMoves, DataStays, DataGrows, DataShrinks
   DEF RxMoves, UnreadStays, UnreadGrows, UnreadShrinks

LEMMA QueueStep ==
  ASSUME RxQueued, RxQueued', RxMoves
  PROVE  [RxQueue!RxNext]_(RxQueue!vars)
<1>1. CASE UnreadStays
  <2>1. RxWaiting' = RxWaiting /\ got' = got
    BY <1>1, WaitsOn DEF UnreadStays
  <2>2. QED
    BY <2>1 DEF RxQueue!vars
<1>2. ASSUME NEW n \in Nat, UnreadGrows(n) PROVE [RxQueue!RxNext]_(RxQueue!vars)
  <2>1. /\ IF rxDesc'[UnreadAt(n + 1)'].ls
             THEN RxWaiting' = Append(RxWaiting, RxItem(n + 1)')
             ELSE RxWaiting' = RxWaiting
        /\ got' = got /\ Unread = n /\ Unread' = n + 1 /\ n < RxN
    BY <1>2, WaitsMore DEF UnreadGrows
  <2>2. CASE ~rxDesc'[UnreadAt(n + 1)'].ls
    BY <2>1, <2>2 DEF RxQueue!vars
  <2>3. CASE rxDesc'[UnreadAt(n + 1)'].ls
    <3>1. n + 1 \in Completed'
      BY <2>1, <2>3 DEF Completed
    <3>2. PICK x \in Frames \X Lengths : x = RxItem(n + 1)'
      BY <3>1 DEF RxQueued
    <3>3. Len(RxWaiting) < RxN
      BY <2>1, RxAssumption DEF RxQueued, RxAssumption
    <3>4. RxQueue!Put(x)
      BY <2>1, <2>3, <3>2, <3>3 DEF RxQueue!Put
    <3>5. QED
      BY <3>4 DEF RxQueue!RxNext
  <2>4. QED
    BY <2>2, <2>3
<1>3. ASSUME NEW n \in Nat, UnreadShrinks(n) PROVE [RxQueue!RxNext]_(RxQueue!vars)
  <2>1. /\ IF rxDesc[UnreadAt(1)].ls
             THEN /\ RxWaiting # <<>> /\ Head(RxWaiting) = RxItem(1)
                  /\ RxWaiting' = Tail(RxWaiting)
             ELSE RxWaiting' = RxWaiting
        /\ \/ got' = got
           \/ /\ rxDesc[UnreadAt(1)].ls
              /\ got' = RxItem(1) \/ (RxItem(1)[2] # 1 /\ got' = Torn)
        /\ Unread = n + 1
    BY <1>3, WaitsLess DEF UnreadShrinks
  <2>2. CASE ~rxDesc[UnreadAt(1)].ls
    BY <2>1, <2>2 DEF RxQueue!vars
  <2>3. CASE rxDesc[UnreadAt(1)].ls /\ got' = got
    BY <2>1, <2>3 DEF RxQueue!Drop, RxQueue!RxNext
  <2>4. CASE rxDesc[UnreadAt(1)].ls /\ got' # got
    <3>1. 1 \in Completed
      BY <2>1, <2>4 DEF Completed
    <3>2. RxItem(1) \in Frames \X Lengths
      BY <3>1 DEF RxQueued
    <3>3. RxItem(1)[2] # 1 => RxItem(1) \in Frames \X (Lengths \ {1})
      BY <3>2
    <3>4. RxQueue!Take
      BY <2>1, <2>4, <3>3 DEF RxQueue!Take
    <3>5. QED
      BY <3>4 DEF RxQueue!RxNext
  <2>5. QED
    BY <2>2, <2>3, <2>4
<1>4. QED
  BY <1>1, <1>2, <1>3 DEF RxMoves

(* The receive ring is a bounded queue, of any length and for frames of    *)
(* any number of segments: they reach lwIP in the order in which the MAC   *)
(* completed them, each at most once and with its bytes; dropped is only   *)
(* the oldest, and torn only one of several segments.                      *)
THEOREM RxRingIsAQueue == RxSpec => RxIsQueue
<1>1. RxInit => RxData /\ RxQueue!Init
  <2> SUFFICES ASSUME RxInit PROVE RxData /\ RxQueue!Init
    OBVIOUS
  <2>1. RxIndexed /\ RxTypeOK
    BY RxStarts, RxIndexes DEF RxInv
  <2>2. Unread = 0
    BY <2>1, UnreadIs DEF RxInit, Ready, RxTypeOK
  <2>3. RxData
    BY <2>2 DEF RxInit, RxData
  <2>4. Completed = {}
    BY <2>2 DEF Completed
  <2>5. Cardinality(Completed) = 0
    BY <2>4, FS_EmptySet
  <2>6. RxQueued
    BY <2>1, <2>3, RxStarts, RxWaitingIs
  <2>7. RxWaiting = <<>>
    BY <2>5, <2>6, EmptySeq DEF RxQueued
  <2>8. QED
    BY <2>3, <2>7 DEF RxInit, RxQueue!Init
<1>2. RxInv => RxTypeOK /\ RxIndexed
  BY RxIndexes DEF RxInv
<1>3. /\ RxInv /\ RxIndexed /\ RxTypeOK' /\ RxIndexed' /\ RxData
      /\ RxQueued /\ RxQueued' /\ [RxStep]_rxVars
      => [RxQueue!RxNext]_(RxQueue!vars)
  BY EachMoves, QueueStep
<1>4. QED
  BY <1>1, <1>2, <1>3, DataStep, RxWaitingIs, RxInvHolds, PTL
     DEF RxSpec, RxIsQueue, RxQueue!RxSpec

=============================================================================
