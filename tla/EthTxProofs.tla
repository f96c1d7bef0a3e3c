---------------------------- MODULE EthTxProofs ----------------------------
(***************************************************************************)
(* Theorems about EthTx for every number of buffers, every set of lengths, *)
(* and both confirmation modes: types and ownership first, then the order  *)
(* of the ring: the DMA follows the driver, no buffer is released before   *)
(* it is sent and confirmed, no confirmation is lost, and the driver       *)
(* implements the queue EthTxQueue.  The last section is about the user of *)
(* the driver, NetifTx, for every size of buffer and all frames lwIP may   *)
(* send.                                                                   *)
(***************************************************************************)
EXTENDS NetifTx, SequenceLemmas, FiniteSetTheorems, TLAPS

\* The ring successor stays in the ring, and wraps at the last buffer only.
LEMMA Successor ==
  ASSUME NEW i \in Buffers
  PROVE  /\ lIncrTxBufIdx(i) \in Buffers
         /\ i < EthTxBufTotal - 1 => lIncrTxBufIdx(i) = i + 1
         /\ i = EthTxBufTotal - 1 => lIncrTxBufIdx(i) = 0
  <1>1. EthTxBufTotal \in Nat \ {0}
    BY TxConstants
  <1>2. CASE i < EthTxBufTotal - 1
    <2>1. (i + 1) % EthTxBufTotal = i + 1
      BY <1>1, <1>2 DEF Buffers
    <2> QED
      BY <1>1, <1>2, <2>1 DEF Buffers, lIncrTxBufIdx
  <1>3. CASE i = EthTxBufTotal - 1
    <2>1. (i + 1) % EthTxBufTotal = 0
      BY <1>1, <1>3
    <2> QED
      BY <1>1, <1>3, <2>1 DEF Buffers, lIncrTxBufIdx
  <1> QED
    BY <1>1, <1>2, <1>3 DEF Buffers

-----------------------------------------------------------------------------
(* Types. *)

\* While the callback runs the scan has an iteration left to finish.
CountLeft == InCallback => scan.Count < EthTxBufTotal

TypeInv == TypeOK /\ CountLeft

LEMMA ConstantFacts ==
  /\ EthTxBufTotal \in Nat \ {0}
  /\ MaxLoopCnt \in Nat
  /\ Lengths \subseteq Nat
  /\ 0 \in Buffers
  /\ IdleScan \in ScanRecord
  /\ [IdleScan EXCEPT !.at = "test"] \in ScanRecord
  <1>1. /\ EthTxBufTotal \in Nat \ {0}
        /\ MaxLoopCnt \in Nat
        /\ Lengths \subseteq Nat
    BY TxConstants
  <1>2. 0 \in Buffers
    BY <1>1 DEF Buffers
  <1>3. 0 \in 0 .. EthTxBufTotal /\ 0 \in 0 .. MaxLoopCnt
    BY <1>1
  <1>4. /\ IdleScan \in ScanRecord
        /\ [IdleScan EXCEPT !.at = "test"] \in ScanRecord
    BY <1>3 DEF IdleScan, ScanRecord
  <1> QED
    BY <1>1, <1>2, <1>4

LEMMA ReleasedIsRecord ==
  ASSUME NEW rec \in BufferRecord
  PROVE  /\ Released(rec) \in BufferRecord
         /\ Released(rec).BuffStatus = "NOTUSED"
  BY DEF Released, BufferRecord

LEMMA InitType == Init => TypeInv
  <1> SUFFICES ASSUME Init PROVE TypeInv
    OBVIOUS
  <1>1. [BuffStatus |-> "NOTUSED", FrameTxInitiated |-> FALSE,
         TxConfirmReq |-> FALSE, BuffLengthReqstd |-> 0] \in BufferRecord
    BY DEF BufferRecord
  <1>2. txBuffTable \in [Buffers -> BufferRecord]
    BY <1>1 DEF Init, FreshRing
  <1>3. own \in [Buffers -> BOOLEAN]
    BY DEF Init, FreshRing
  <1>4. scan \in ScanRecord /\ ~InCallback
    BY ConstantFacts DEF Init, FreshRing, IdleScan, InCallback
  <1> QED
    BY <1>2, <1>3, <1>4, ConstantFacts DEF Init, FreshRing, TypeInv, TypeOK, CountLeft

\* A restart leaves either the table it found or the released one.
LEMMA RestartType ==
  ASSUME TypeInv, SetControllerMode
  PROVE  TypeInv'
  <1>1. [i \in Buffers |-> Released(txBuffTable[i])] \in [Buffers -> BufferRecord]
    BY ReleasedIsRecord DEF TypeInv, TypeOK
  <1>2. /\ txBuffTable' \in [Buffers -> BufferRecord]
        /\ CurrTxIdx' \in Buffers /\ ConfirmTxBufIdx' \in Buffers
        /\ own' = own
        /\ dmaIdx' \in Buffers /\ dmaSuspended' \in BOOLEAN
        /\ hwActive' \in BOOLEAN /\ cntrlInit' \in BOOLEAN /\ TI' \in BOOLEAN
        /\ TxIntEnabled' = TxIntEnabled /\ coreInit' = coreInit /\ scan' = scan
    <2> USE <1>1, ConstantFacts DEF SetControllerMode, TypeInv, TypeOK,
          lDisableGethInterrupt, lDmaTxDescriptorInit, table, dma
    <2>1. CASE InitControllerFails
      BY <2>1 DEF InitControllerFails
    <2>2. CASE CoreInitTimerFails
      BY <2>2 DEF CoreInitTimerFails
    <2>3. CASE SetModeActive
      BY <2>3 DEF SetModeActive, lStartTxRx
    <2>4. CASE SetModeDown
      BY <2>4 DEF SetModeDown, lStopTxRx
    <2> QED
      BY <2>1, <2>2, <2>3, <2>4
  <1> QED
    BY <1>2 DEF TypeInv, TypeOK, CountLeft, InCallback

LEMMA ProvideType ==
  ASSUME TypeInv, NEW len \in Lengths, ProvideTxBuffer(len)
  PROVE  TypeInv'
  <1>1. ImplicitRelease \in [Buffers -> BufferRecord]
    BY DEF ImplicitRelease, TypeInv, TypeOK, BufferRecord
  <1>2. ImplicitConfirm \in Buffers /\ lIncrTxBufIdx(CurrTxIdx) \in Buffers
    BY Successor DEF ImplicitConfirm, TypeInv, TypeOK
  <1>3. GrantedRecord(len) \in BufferRecord
    BY ConstantFacts DEF GrantedRecord, BufferRecord
  <1>4. [ImplicitRelease EXCEPT ![CurrTxIdx] = GrantedRecord(len)]
          \in [Buffers -> BufferRecord]
    BY <1>1, <1>3
  <1>5. /\ txBuffTable' \in [Buffers -> BufferRecord]
        /\ CurrTxIdx' \in Buffers /\ ConfirmTxBufIdx' \in Buffers
        /\ UNCHANGED <<own, status, dma, TI, scan>>
    BY <1>1, <1>2, <1>4
    DEF ProvideTxBuffer, ProvideOverflow, ProvideGrant, TypeInv, TypeOK
  <1> QED
    BY <1>5 DEF TypeInv, TypeOK, CountLeft, InCallback, status, dma

LEMMA TransmitType ==
  ASSUME TypeInv, NEW i \in Buffers, NEW confirm \in BOOLEAN,
         lTransmit(i, confirm)
  PROVE  TypeInv'
  <1>1. txBuffTable' \in [Buffers -> BufferRecord]
    BY DEF lTransmit, TypeInv, TypeOK, BufferRecord
  <1>2. own' \in [Buffers -> BOOLEAN]
    BY DEF lTransmit, TypeInv, TypeOK
  <1> QED
    BY <1>1, <1>2
    DEF lTransmit, TypeInv, TypeOK, CountLeft, InCallback, status

LEMMA ReleaseType ==
  ASSUME TypeInv, ReleaseConfirmed, scan.Count < EthTxBufTotal
  PROVE  TypeInv'
  <1>1. txBuffTable' \in [Buffers -> BufferRecord]
    BY ReleasedIsRecord DEF ReleaseConfirmed, TypeInv, TypeOK
  <1>2. ConfirmTxBufIdx' \in Buffers
    BY Successor DEF ReleaseConfirmed, TypeInv, TypeOK
  <1>3. scan.Count + 1 \in 0 .. EthTxBufTotal
    BY ConstantFacts DEF TypeInv, TypeOK, ScanRecord
  <1>4. scan' \in ScanRecord /\ scan'.at = "test"
    BY <1>3 DEF ReleaseConfirmed, TypeInv, TypeOK, ScanRecord
  <1> QED
    BY <1>1, <1>2, <1>4
    DEF ReleaseConfirmed, TypeInv, TypeOK, CountLeft, InCallback, status, dma

LEMMA ScanType ==
  ASSUME TypeInv, Scan
  PROVE  TypeInv'
  <1>1. CASE TxConfirmation \/ TxConfirmationReturns \/ IrqReturns
             \/ TxDmaCh0IrqHdlr
    <2>1. scan' \in ScanRecord /\ scan'.at /= "callback"
      BY <1>1, ConstantFacts DEF TxConfirmation, TxConfirmationReturns,
         IrqReturns, TxDmaCh0IrqHdlr, IdleScan
    <2>2. TI' \in BOOLEAN /\ UNCHANGED <<table, own, status, dma>>
      BY <1>1 DEF TxConfirmation, TxConfirmationReturns, IrqReturns,
         TxDmaCh0IrqHdlr, TypeInv, TypeOK
    <2> QED
      BY <2>1, <2>2
      DEF TypeInv, TypeOK, CountLeft, InCallback, table, status, dma
  <1>2. CASE IrqLoops
    <2>1. scan.MaxLoops + 1 \in 0 .. MaxLoopCnt /\ 0 \in 0 .. EthTxBufTotal
      BY <1>2, ConstantFacts DEF IrqLoops, TypeInv, TypeOK, ScanRecord
    <2>2. scan' \in ScanRecord /\ scan'.at /= "callback"
      BY <1>2, <2>1 DEF IrqLoops, ScanRecord
    <2> QED
      BY <1>2, <2>2
      DEF IrqLoops, TypeInv, TypeOK, CountLeft, InCallback, table, status, dma
  <1>3. CASE ConfirmCallback
    <2>1. scan' \in ScanRecord /\ scan'.Count = scan.Count
      BY <1>3 DEF ConfirmCallback, TypeInv, TypeOK, ScanRecord
    <2> QED
      BY <1>3, <2>1 DEF ConfirmCallback, ScanGoesOn, TypeInv, TypeOK, CountLeft,
         table, status, dma
  <1>4. CASE ConfirmSilently
    BY <1>4, ReleaseType DEF ConfirmSilently, ScanGoesOn
  <1>5. CASE CallbackReturns
    BY <1>5, ReleaseType DEF CallbackReturns, TypeInv, CountLeft
  <1> QED
    BY <1>1, <1>2, <1>3, <1>4, <1>5 DEF Scan, ScanStep

LEMMA TypeInvariance == Spec => []TypeInv
  <1>1. Init => TypeInv
    BY InitType
  <1>2. TypeInv /\ [Next]_vars => TypeInv'
    <2> SUFFICES ASSUME TypeInv, [Next]_vars PROVE TypeInv'
      OBVIOUS
    <2>1. CASE EthInit
      BY <2>1, ConstantFacts
      DEF EthInit, lInitGlobalVar, TypeInv, TypeOK, CountLeft, InCallback, dma
    <2>2. CASE SetControllerMode
      BY <2>2, RestartType
    <2>3. ASSUME NEW len \in Lengths, ProvideTxBuffer(len) PROVE TypeInv'
      BY <2>3, ProvideType
    <2>4. ASSUME NEW i \in Buffers, NEW confirm \in BOOLEAN,
                 NEW len \in Lengths, Transmit(i, confirm, len)
          PROVE  TypeInv'
      BY <2>4, TransmitType DEF Transmit
    <2>5. CASE Scan
      BY <2>5, ScanType
    <2>6. CASE DmaSends
      BY <2>6, Successor DEF DmaSends, TypeInv, TypeOK, CountLeft, InCallback,
         table, status
    <2>7. CASE DmaSuspends
      BY <2>7 DEF DmaSuspends, TypeInv, TypeOK, CountLeft, InCallback,
         table, status
    <2>8. CASE UNCHANGED vars
      BY <2>8 DEF vars, table, status, dma, TypeInv, TypeOK, CountLeft, InCallback
    <2> QED
      BY <2>1, <2>2, <2>3, <2>4, <2>5, <2>6, <2>7, <2>8 DEF Next, Application, Dma
  <1> QED
    BY <1>1, <1>2, PTL DEF Spec

\* Every variable keeps its type: in particular both indices and the DMA's
\* descriptor pointer stay inside the ring, and no scan visits more buffers
\* than the ring has.
THEOREM TypeCorrect == Spec => []TypeOK
  <1>1. TypeInv => TypeOK
    BY DEF TypeInv
  <1> QED
    BY <1>1, TypeInvariance, PTL

-----------------------------------------------------------------------------
(* The window of used buffers. *)

\* Granting the buffer at the tail extends the window by that buffer.
LEMMA WindowGrows ==
  ASSUME NEW a \in Buffers, NEW b \in Buffers, NEW used \in SUBSET Buffers,
         Window(used, a, b), b \notin used
  PROVE  Window(used \cup {b}, a, lIncrTxBufIdx(b))
  <1> USE ConstantFacts DEF Buffers
  <1>1. CASE b < EthTxBufTotal - 1
    <2>1. lIncrTxBufIdx(b) = b + 1
      BY <1>1, Successor
    <2> QED
      BY <1>1, <2>1 DEF Window, Stretch
  <1>2. CASE b = EthTxBufTotal - 1
    <2>1. lIncrTxBufIdx(b) = 0
      BY <1>2, Successor
    <2> QED
      BY <1>2, <2>1 DEF Window, Stretch
  <1> QED
    BY <1>1, <1>2

\* Releasing the buffer at the head shrinks the window by that buffer.
LEMMA WindowShrinks ==
  ASSUME NEW a \in Buffers, NEW b \in Buffers, NEW used \in SUBSET Buffers,
         Window(used, a, b), a \in used
  PROVE  Window(used \ {a}, lIncrTxBufIdx(a), b)
  <1> USE ConstantFacts DEF Buffers
  <1>1. CASE a < EthTxBufTotal - 1
    <2>1. lIncrTxBufIdx(a) = a + 1
      BY <1>1, Successor
    <2> QED
      BY <1>1, <2>1 DEF Window, Stretch
  <1>2. CASE a = EthTxBufTotal - 1
    <2>1. lIncrTxBufIdx(a) = 0
      BY <1>2, Successor
    <2> QED
      BY <1>2, <2>1 DEF Window, Stretch
  <1> QED
    BY <1>1, <1>2

\* The buffer at the tail is used only if every buffer is.
LEMMA TailUsedMeansFull ==
  ASSUME NEW a \in Buffers, NEW b \in Buffers, NEW used \in SUBSET Buffers,
         Window(used, a, b), b \in used
  PROVE  a = b /\ used = Buffers
  <1>1. b \notin Stretch(a, b) \/ a = b
    BY ConstantFacts DEF Stretch, Buffers
  <1> QED
    BY <1>1 DEF Window

-----------------------------------------------------------------------------
(* The ring invariant. *)

\* A scan only runs once the controller is initialised, and the buffer its
\* callback reports cannot be released or transmitted meanwhile.
ScanReady == ~MainRuns => cntrlInit

RingInv == TypeInv /\ RingWindow /\ ScanReady /\ CallbackBufferStable

LEMMA IncrStaysInRing ==
  ASSUME TypeInv
  PROVE  /\ CurrTxIdx \in Buffers /\ ConfirmTxBufIdx \in Buffers
         /\ UsedBuffers \in SUBSET Buffers
  BY DEF TypeInv, TypeOK, UsedBuffers

\* After an initialisation, a restart or power-on the window is empty.
LEMMA RestartWindow ==
  ASSUME RingInv, SetControllerMode
  PROVE  RingWindow'
  <1>1. CASE InitControllerFails
    BY <1>1 DEF InitControllerFails, RingWindow
  <1>2. CASE CoreInitTimerFails
    BY <1>2 DEF CoreInitTimerFails, RingWindow
  <1>3. CASE SetModeActive \/ SetModeDown
    <2>1. /\ txBuffTable' = [i \in Buffers |-> Released(txBuffTable[i])]
          /\ CurrTxIdx' = ConfirmTxBufIdx'
      BY <1>3 DEF SetModeActive, SetModeDown, lDmaTxDescriptorInit
    <2>2. UsedBuffers' = {}
      BY <2>1, ReleasedIsRecord DEF UsedBuffers, Used, RingInv, TypeInv, TypeOK
    <2> QED
      BY <2>1, <2>2 DEF RingWindow, Window
  <1> QED
    BY <1>1, <1>2, <1>3 DEF SetControllerMode

\* The implicit release of ProvideTxBuffer happens in a full ring only; it
\* frees the head and moves ConfirmTxBufIdx past it, and never touches the
\* buffer a callback is running for.
LEMMA ImplicitReleaseWindow ==
  ASSUME RingInv, cntrlInit
  PROVE  LET used == {i \in Buffers : ImplicitRelease[i].BuffStatus = "USED"}
         IN  /\ Window(used, ImplicitConfirm, CurrTxIdx)
             /\ used \in SUBSET Buffers
             /\ ImplicitConfirm \in Buffers
             /\ CurrTxIdx \in used <=> ImplicitRelease[CurrTxIdx].BuffStatus = "USED"
             /\ InCallback => /\ ImplicitConfirm = ConfirmTxBufIdx
                              /\ ImplicitRelease = txBuffTable
  <1> DEFINE used == {i \in Buffers : ImplicitRelease[i].BuffStatus = "USED"}
  <1>1. /\ CurrTxIdx \in Buffers /\ ConfirmTxBufIdx \in Buffers
        /\ UsedBuffers \in SUBSET Buffers
        /\ Window(UsedBuffers, ConfirmTxBufIdx, CurrTxIdx)
    BY IncrStaysInRing DEF RingInv, RingWindow
  <1>2. CurrTxIdx \in used <=> ImplicitRelease[CurrTxIdx].BuffStatus = "USED"
    BY <1>1
  <1>3. CASE ~ImplicitlyDone
    <2>1. ImplicitRelease = txBuffTable /\ ImplicitConfirm = ConfirmTxBufIdx
      BY <1>3 DEF ImplicitRelease, ImplicitConfirm
    <2>2. used = UsedBuffers
      BY <2>1 DEF UsedBuffers, Used
    <2> QED
      BY <1>1, <1>2, <2>1, <2>2
  <1>4. CASE ImplicitlyDone
    <2>1. CurrTxIdx \in UsedBuffers
      BY <1>1, <1>4 DEF ImplicitlyDone, UsedBuffers
    <2>2. ConfirmTxBufIdx = CurrTxIdx
      BY <1>1, <2>1, TailUsedMeansFull
    <2>3. ImplicitConfirm = lIncrTxBufIdx(ConfirmTxBufIdx)
      BY <1>4, <2>2 DEF ImplicitConfirm
    <2>4. \A i \in Buffers : ImplicitRelease[i].BuffStatus =
            IF i = CurrTxIdx THEN "NOTUSED" ELSE txBuffTable[i].BuffStatus
      BY <1>1, <1>4 DEF ImplicitRelease, RingInv, TypeInv, TypeOK, BufferRecord
    <2>5. used = UsedBuffers \ {ConfirmTxBufIdx}
      BY <2>2, <2>4 DEF UsedBuffers, Used
    <2>6. Window(used, ImplicitConfirm, CurrTxIdx) /\ ImplicitConfirm \in Buffers
      BY <1>1, <2>1, <2>2, <2>3, <2>5, WindowShrinks, Successor
    <2>7. ~InCallback
      BY <1>4, <2>2 DEF ImplicitlyDone, RingInv, CallbackBufferStable
    <2> QED
      BY <1>2, <2>6, <2>7
  <1> QED
    BY <1>3, <1>4

LEMMA ProvideWindow ==
  ASSUME RingInv, NEW len \in Lengths, ProvideTxBuffer(len)
  PROVE  RingWindow' /\ CallbackBufferStable'
  <1> DEFINE used == {i \in Buffers : ImplicitRelease[i].BuffStatus = "USED"}
  <1>1. /\ cntrlInit /\ cntrlInit' = cntrlInit
        /\ own' = own /\ scan' = scan
        /\ ConfirmTxBufIdx' = ImplicitConfirm
    BY DEF ProvideTxBuffer, ProvideOverflow, ProvideGrant, DriverReady,
       lDetCheckNoInit, status
  <1>2. /\ Window(used, ImplicitConfirm, CurrTxIdx)
        /\ used \in SUBSET Buffers
        /\ ImplicitConfirm \in Buffers
        /\ CurrTxIdx \in used <=> ImplicitRelease[CurrTxIdx].BuffStatus = "USED"
        /\ InCallback => /\ ImplicitConfirm = ConfirmTxBufIdx
                         /\ ImplicitRelease = txBuffTable
    BY <1>1, ImplicitReleaseWindow
  <1>3. CurrTxIdx \in Buffers /\ ConfirmTxBufIdx \in Buffers
    BY IncrStaysInRing DEF RingInv
  <1>4. ImplicitRelease \in [Buffers -> BufferRecord]
    BY DEF ImplicitRelease, RingInv, TypeInv, TypeOK, BufferRecord
  <1>5. CASE ProvideOverflow(len)
    <2>1. txBuffTable' = ImplicitRelease /\ CurrTxIdx' = CurrTxIdx
      BY <1>5 DEF ProvideOverflow
    <2>2. UsedBuffers' = used
      BY <2>1 DEF UsedBuffers, Used
    <2>3. RingWindow'
      BY <1>1, <1>2, <2>1, <2>2 DEF RingWindow
    <2>4. CallbackBufferStable'
      BY <1>1, <1>2, <2>1 DEF RingInv, CallbackBufferStable, InCallback, Used,
         Initiated
    <2> QED
      BY <2>3, <2>4
  <1>6. CASE ProvideGrant(len)
    <2>1. /\ txBuffTable' =
               [ImplicitRelease EXCEPT ![CurrTxIdx] = GrantedRecord(len)]
          /\ CurrTxIdx' = lIncrTxBufIdx(CurrTxIdx)
          /\ CurrTxIdx \notin used
      BY <1>2, <1>6 DEF ProvideGrant
    <2>2. \A i \in Buffers : txBuffTable'[i] =
            IF i = CurrTxIdx THEN GrantedRecord(len) ELSE ImplicitRelease[i]
      BY <1>3, <1>4, <2>1
    <2>3. UsedBuffers' = used \cup {CurrTxIdx}
      BY <1>3, <2>2 DEF UsedBuffers, Used, GrantedRecord
    <2>4. RingWindow'
      BY <1>1, <1>2, <1>3, <2>1, <2>3, WindowGrows DEF RingWindow
    <2>5. CallbackBufferStable'
      <3> SUFFICES ASSUME InCallback PROVE CallbackBufferStable'
        BY <1>1 DEF CallbackBufferStable, InCallback
      <3>1. ConfirmTxBufIdx \in used
        BY <1>2, <1>3 DEF RingInv, CallbackBufferStable, Used
      <3>2. txBuffTable'[ConfirmTxBufIdx] = txBuffTable[ConfirmTxBufIdx]
        BY <1>2, <1>3, <2>1, <2>2, <3>1
      <3> QED
        BY <1>1, <1>2, <3>2 DEF RingInv, CallbackBufferStable, Used, Initiated
    <2> QED
      BY <2>4, <2>5
  <1> QED
    BY <1>5, <1>6 DEF ProvideTxBuffer

LEMMA TransmitWindow ==
  ASSUME RingInv, NEW i \in Buffers, NEW confirm \in BOOLEAN,
         NEW len \in Lengths, Transmit(i, confirm, len)
  PROVE  RingWindow' /\ CallbackBufferStable'
  <1>1. /\ UNCHANGED <<CurrTxIdx, ConfirmTxBufIdx, cntrlInit, scan>>
        /\ ~Initiated(i)
        /\ own' = [own EXCEPT ![i] = TRUE]
    BY DEF Transmit, lTransmit, status
  <1>2. txBuffTable \in [Buffers -> BufferRecord] /\ own \in [Buffers -> BOOLEAN]
        /\ ConfirmTxBufIdx \in Buffers
    BY DEF RingInv, TypeInv, TypeOK
  <1>3. \A k \in Buffers : /\ txBuffTable'[k].BuffStatus = txBuffTable[k].BuffStatus
                           /\ k /= i => txBuffTable'[k] = txBuffTable[k]
    BY <1>2 DEF Transmit, lTransmit, BufferRecord
  <1>4. UsedBuffers' = UsedBuffers
    BY <1>3 DEF UsedBuffers, Used
  <1>5. RingWindow'
    BY <1>1, <1>4 DEF RingInv, RingWindow
  <1>6. InCallback => ConfirmTxBufIdx /= i
    BY <1>1 DEF RingInv, CallbackBufferStable
  <1>7. CallbackBufferStable'
    BY <1>1, <1>2, <1>3, <1>6
    DEF RingInv, CallbackBufferStable, InCallback, Used, Initiated
  <1> QED
    BY <1>5, <1>7

LEMMA ReleaseWindow ==
  ASSUME RingInv, ReleaseConfirmed, cntrlInit, Used(ConfirmTxBufIdx)
  PROVE  RingWindow' /\ CallbackBufferStable'
  <1>1. /\ CurrTxIdx \in Buffers /\ ConfirmTxBufIdx \in Buffers
        /\ UsedBuffers \in SUBSET Buffers
        /\ Window(UsedBuffers, ConfirmTxBufIdx, CurrTxIdx)
        /\ txBuffTable \in [Buffers -> BufferRecord]
        /\ scan \in ScanRecord
    BY IncrStaysInRing DEF RingInv, RingWindow, TypeInv, TypeOK
  <1>2. /\ CurrTxIdx' = CurrTxIdx /\ cntrlInit' = cntrlInit
        /\ ConfirmTxBufIdx' = lIncrTxBufIdx(ConfirmTxBufIdx)
        /\ txBuffTable' = [txBuffTable EXCEPT
             ![ConfirmTxBufIdx] = Released(txBuffTable[ConfirmTxBufIdx])]
    BY DEF ReleaseConfirmed, status
  <1>3. UsedBuffers' = UsedBuffers \ {ConfirmTxBufIdx}
    BY <1>1, <1>2, ReleasedIsRecord DEF UsedBuffers, Used
  <1>4. RingWindow'
    BY <1>1, <1>2, <1>3, WindowShrinks DEF RingWindow, UsedBuffers
  <1>5. ~InCallback'
    BY <1>1 DEF ReleaseConfirmed, InCallback, ScanRecord
  <1> QED
    BY <1>4, <1>5 DEF CallbackBufferStable

LEMMA ScanWindow ==
  ASSUME RingInv, Scan
  PROVE  RingWindow' /\ CallbackBufferStable'
  <1>1. scan.at /= "idle" => cntrlInit
    BY DEF RingInv, ScanReady, MainRuns
  <1>2. CASE TxConfirmation \/ TxConfirmationReturns \/ IrqReturns
             \/ TxDmaCh0IrqHdlr \/ IrqLoops
    <2>1. UNCHANGED <<txBuffTable, CurrTxIdx, ConfirmTxBufIdx, cntrlInit>>
      BY <1>2 DEF TxConfirmation, TxConfirmationReturns, IrqReturns,
         TxDmaCh0IrqHdlr, IrqLoops, table, status
    <2>2. ~InCallback'
      BY <1>2 DEF TxConfirmation, TxConfirmationReturns, IrqReturns,
         TxDmaCh0IrqHdlr, IrqLoops, IdleScan, InCallback
    <2>3. UsedBuffers' = UsedBuffers
      BY <2>1 DEF UsedBuffers, Used
    <2> QED
      BY <2>1, <2>2, <2>3 DEF RingInv, RingWindow, CallbackBufferStable
  <1>3. CASE ConfirmCallback
    <2>1. /\ UNCHANGED <<txBuffTable, CurrTxIdx, ConfirmTxBufIdx, cntrlInit, own>>
          /\ Confirmable /\ txBuffTable[ConfirmTxBufIdx].TxConfirmReq
      BY <1>3 DEF ConfirmCallback, ScanGoesOn, table, status
    <2>2. UsedBuffers' = UsedBuffers
      BY <2>1 DEF UsedBuffers, Used
    <2> QED
      BY <2>1, <2>2 DEF RingInv, RingWindow, CallbackBufferStable, Confirmable,
         Used, Initiated
  <1>4. CASE ConfirmSilently
    BY <1>1, <1>4, ReleaseWindow DEF ConfirmSilently, ScanGoesOn, Confirmable
  <1>5. CASE CallbackReturns
    BY <1>1, <1>5, ReleaseWindow
    DEF CallbackReturns, RingInv, CallbackBufferStable, InCallback
  <1> QED
    BY <1>2, <1>3, <1>4, <1>5 DEF Scan, ScanStep

LEMMA ScanReadyStep ==
  ASSUME RingInv, [Next]_vars
  PROVE  ScanReady'
  <1>1. CASE EthInit \/ SetControllerMode
    BY <1>1 DEF EthInit, SetControllerMode, ScanReady, MainRuns
  <1>2. ASSUME NEW len \in Lengths, ProvideTxBuffer(len) PROVE ScanReady'
    BY <1>2 DEF ProvideTxBuffer, ProvideOverflow, ProvideGrant, RingInv,
       ScanReady, MainRuns, status
  <1>3. ASSUME NEW i \in Buffers, NEW confirm \in BOOLEAN,
               NEW len \in Lengths, Transmit(i, confirm, len)
        PROVE  ScanReady'
    BY <1>3 DEF Transmit, lTransmit, RingInv, ScanReady, MainRuns, status
  <1>4. CASE Scan
    BY <1>4 DEF Scan, ScanStep, TxConfirmation, TxConfirmationReturns, IrqReturns,
       TxDmaCh0IrqHdlr, IrqLoops, ConfirmCallback, ConfirmSilently,
       CallbackReturns, ReleaseConfirmed, ScanGoesOn, ScanEnds, InCallback,
       DriverReady, lDetCheckNoInit, RingInv, ScanReady, MainRuns, status, IdleScan
  <1>5. CASE Dma \/ UNCHANGED vars
    BY <1>5 DEF Dma, DmaSends, DmaSuspends, vars, RingInv, ScanReady, MainRuns,
       status
  <1> QED
    BY <1>1, <1>2, <1>3, <1>4, <1>5 DEF Next, Application

LEMMA RingInvariance == Spec => []RingInv
  <1>1. Init => RingInv
    <2> SUFFICES ASSUME Init PROVE RingInv
      OBVIOUS
    <2>1. TypeInv
      BY InitType
    <2>2. scan.at = "idle" /\ ~cntrlInit
      BY DEF Init, FreshRing, IdleScan
    <2> QED
      BY <2>1, <2>2
      DEF RingInv, RingWindow, ScanReady, CallbackBufferStable, MainRuns, InCallback
  <1>2. RingInv /\ TypeInv' /\ [Next]_vars => RingInv'
    <2> SUFFICES ASSUME RingInv, TypeInv', [Next]_vars
                 PROVE  RingWindow' /\ CallbackBufferStable'
      BY ScanReadyStep DEF RingInv
    <2>1. CASE EthInit
      BY <2>1 DEF EthInit, lInitGlobalVar, RingWindow, CallbackBufferStable,
         InCallback, MainRuns
    <2>2. CASE SetControllerMode
      BY <2>2, RestartWindow DEF SetControllerMode, CallbackBufferStable,
         InCallback, MainRuns
    <2>3. ASSUME NEW len \in Lengths, ProvideTxBuffer(len)
          PROVE  RingWindow' /\ CallbackBufferStable'
      BY <2>3, ProvideWindow
    <2>4. ASSUME NEW i \in Buffers, NEW confirm \in BOOLEAN,
                 NEW len \in Lengths, Transmit(i, confirm, len)
          PROVE  RingWindow' /\ CallbackBufferStable'
      BY <2>4, TransmitWindow
    <2>5. CASE Scan
      BY <2>5, ScanWindow
    <2>6. CASE Dma \/ UNCHANGED vars
      <3>1. /\ UNCHANGED <<txBuffTable, CurrTxIdx, ConfirmTxBufIdx, cntrlInit, scan>>
            /\ \A i \in Buffers : own'[i] => own[i]
        BY <2>6 DEF Dma, DmaSends, DmaSuspends, vars, table, status,
           RingInv, TypeInv, TypeOK
      <3>2. UsedBuffers' = UsedBuffers /\ ConfirmTxBufIdx \in Buffers
        BY <3>1 DEF UsedBuffers, Used, RingInv, TypeInv, TypeOK
      <3> QED
        BY <3>1, <3>2 DEF RingInv, RingWindow, CallbackBufferStable, InCallback,
           Used, Initiated
    <2> QED
      BY <2>1, <2>2, <2>3, <2>4, <2>5, <2>6 DEF Next, Application
  <1> QED
    BY <1>1, <1>2, TypeInvariance, PTL DEF Spec

\* For every ring size and both modes, the used buffers always form the
\* stretch of the ring between the two indices.
THEOREM RingWindowCorrect == Spec => []RingWindow
  <1>1. RingInv => RingWindow
    BY DEF RingInv
  <1> QED
    BY <1>1, RingInvariance, PTL

\* For every ring size, BUFREQ_E_BUSY is returned only when all buffers are in
\* use, although ProvideTxBuffer looks at a single one.
THEOREM BusyCorrect == Spec => []BusyMeansAllInUse
  <1>1. RingInv => BusyMeansAllInUse
    <2> SUFFICES ASSUME RingInv, NEW len \in Lengths, ProvideBusy(len)
                 PROVE  UsedBuffers = Buffers
      BY DEF BusyMeansAllInUse
    <2>1. cntrlInit /\ ImplicitRelease[CurrTxIdx].BuffStatus = "USED"
      BY DEF ProvideBusy, DriverReady, lDetCheckNoInit
    <2>2. CurrTxIdx \in Buffers /\ txBuffTable \in [Buffers -> BufferRecord]
      BY DEF RingInv, TypeInv, TypeOK
    <2>3. ~ImplicitlyDone
      BY <2>1, <2>2 DEF ImplicitRelease, BufferRecord
    <2>4. CurrTxIdx \in UsedBuffers
      BY <2>1, <2>2, <2>3 DEF ImplicitRelease, UsedBuffers, Used
    <2> QED
      BY <2>1, <2>4, IncrStaysInRing, TailUsedMeansFull DEF RingInv, RingWindow
  <1> QED
    BY <1>1, RingInvariance, PTL

\* Whatever the confirmation callback does, the buffer it is called for stays
\* reserved until it returns.
THEOREM CallbackCorrect == Spec => []CallbackBufferStable
  <1>1. RingInv => CallbackBufferStable
    BY DEF RingInv
  <1> QED
    BY <1>1, RingInvariance, PTL

-----------------------------------------------------------------------------
(* The OWN bits. *)

OwnInv == \A i \in Buffers : own[i] => Used(i) /\ Initiated(i)

\* Provided the application never stops or re-initialises the driver while a
\* descriptor belongs to the DMA, the DMA owns only buffers that are in use
\* and were passed to Transmit.
THEOREM DmaOwnershipCorrect ==
  ASSUME StopsWhilePending = FALSE
  PROVE  Spec => []DmaOwnsOnlyInitiated
  <1>1. Init => OwnInv
    BY DEF Init, FreshRing, OwnInv
  <1>2. OwnInv /\ RingInv /\ [Next]_vars => OwnInv'
    <2> SUFFICES ASSUME OwnInv, RingInv, [Next]_vars,
                        NEW k \in Buffers, own'[k]
                 PROVE  Used(k)' /\ Initiated(k)'
      BY DEF OwnInv
    <2> USE DEF Used, Initiated
    <2>1. /\ txBuffTable \in [Buffers -> BufferRecord]
          /\ own \in [Buffers -> BOOLEAN]
          /\ CurrTxIdx \in Buffers /\ ConfirmTxBufIdx \in Buffers
      BY DEF RingInv, TypeInv, TypeOK
    <2>2. CASE EthInit \/ SetControllerMode
      <3>1. \A i \in Buffers : ~own[i]
        BY <2>2 DEF EthInit, SetControllerMode, MayStop
      <3>2. own' = own
        BY <2>2 DEF EthInit, SetControllerMode, InitControllerFails,
           CoreInitTimerFails, SetModeActive, SetModeDown, lDmaTxDescriptorInit
      <3> QED
        BY <3>1, <3>2
    <2>3. ASSUME NEW len \in Lengths, ProvideTxBuffer(len)
          PROVE  Used(k)' /\ Initiated(k)'
      <3>1. own' = own
        BY <2>3 DEF ProvideTxBuffer, ProvideOverflow, ProvideGrant
      <3>2. own[k] /\ Used(k) /\ Initiated(k)
        BY <3>1 DEF OwnInv
      <3>3. ImplicitlyDone => k /= CurrTxIdx
        BY <3>2 DEF ImplicitlyDone
      <3>4. ImplicitRelease[k] = txBuffTable[k]
        BY <2>1, <3>3 DEF ImplicitRelease
      <3>5. CASE ProvideOverflow(len)
        BY <3>2, <3>4, <3>5 DEF ProvideOverflow
      <3>6. CASE ProvideGrant(len)
        <4>1. k /= CurrTxIdx
          BY <3>2, <3>4, <3>6 DEF ProvideGrant
        <4>2. ImplicitRelease \in [Buffers -> BufferRecord]
          BY <2>1 DEF ImplicitRelease, BufferRecord
        <4>3. txBuffTable'[k] = ImplicitRelease[k]
          BY <3>6, <4>1, <4>2 DEF ProvideGrant
        <4> QED
          BY <3>2, <3>4, <4>3
      <3> QED
        BY <2>3, <3>5, <3>6 DEF ProvideTxBuffer
    <2>4. ASSUME NEW i \in Buffers, NEW confirm \in BOOLEAN,
                 NEW len \in Lengths, Transmit(i, confirm, len)
          PROVE  Used(k)' /\ Initiated(k)'
      <3>1. Used(i)
        BY <2>4 DEF Transmit, TransmitAccepted
      <3>2. CASE k = i
        BY <2>1, <2>4, <3>1, <3>2 DEF Transmit, lTransmit, BufferRecord
      <3>3. CASE k /= i
        BY <2>1, <2>4, <3>3 DEF Transmit, lTransmit, OwnInv
      <3> QED
        BY <3>2, <3>3
    <2>5. ASSUME ReleaseConfirmed, ~own[ConfirmTxBufIdx]
          PROVE  Used(k)' /\ Initiated(k)'
      BY <2>1, <2>5 DEF ReleaseConfirmed, OwnInv
    <2>6. CASE Scan
      <3>1. CASE ConfirmSilently
        BY <2>5, <3>1 DEF ConfirmSilently, ScanGoesOn, Confirmable
      <3>2. CASE CallbackReturns
        BY <2>5, <3>2 DEF CallbackReturns, RingInv, CallbackBufferStable
      <3>3. CASE UNCHANGED <<table, own>>
        BY <3>3 DEF table, OwnInv
      <3> QED
        BY <2>6, <3>1, <3>2, <3>3 DEF Scan, ScanStep, TxConfirmation,
           TxConfirmationReturns, IrqReturns, TxDmaCh0IrqHdlr, IrqLoops,
           ConfirmCallback
    <2>7. CASE Dma \/ UNCHANGED vars
      BY <2>1, <2>7 DEF Dma, DmaSends, DmaSuspends, vars, table, OwnInv
    <2> QED
      BY <2>2, <2>3, <2>4, <2>6, <2>7 DEF Next, Application
  <1>3. OwnInv => DmaOwnsOnlyInitiated
    BY DEF OwnInv, DmaOwnsOnlyInitiated
  <1> QED
    BY <1>1, <1>2, <1>3, RingInvariance, PTL DEF Spec

-----------------------------------------------------------------------------
(* Counting round the ring. *)

\* How far buffer i is ahead of ConfirmTxBufIdx.
Offset(i) ==
  IF i >= ConfirmTxBufIdx THEN i - ConfirmTxBufIdx
  ELSE i - ConfirmTxBufIdx + EthTxBufTotal

LEMMA SlotValue ==
  ASSUME ConfirmTxBufIdx \in Buffers, NEW j \in 0 .. EthTxBufTotal
  PROVE  /\ Slot(j) = IF ConfirmTxBufIdx + j < EthTxBufTotal
                      THEN ConfirmTxBufIdx + j
                      ELSE ConfirmTxBufIdx + j - EthTxBufTotal
         /\ Slot(j) \in Buffers
  <1>1. EthTxBufTotal \in Nat \ {0}
    BY ConstantFacts
  <1>2. CASE ConfirmTxBufIdx + j < EthTxBufTotal
    <2>1. (ConfirmTxBufIdx + j) % EthTxBufTotal = ConfirmTxBufIdx + j
      BY <1>1, <1>2 DEF Buffers
    <2> QED
      BY <1>1, <1>2, <2>1 DEF Slot, Buffers
  <1>3. CASE ConfirmTxBufIdx + j >= EthTxBufTotal
    <2>1. (ConfirmTxBufIdx + j) % EthTxBufTotal = ConfirmTxBufIdx + j - EthTxBufTotal
      BY <1>1, <1>3 DEF Buffers
    <2> QED
      BY <1>1, <1>3, <2>1 DEF Slot, Buffers
  <1> QED
    BY <1>1, <1>2, <1>3 DEF Buffers

LEMMA NextIndex ==
  ASSUME NEW i \in Buffers
  PROVE  lIncrTxBufIdx(i) = IF i = EthTxBufTotal - 1 THEN 0 ELSE i + 1
  <1>1. EthTxBufTotal \in Nat \ {0}
    BY ConstantFacts
  <1>2. i < EthTxBufTotal - 1 \/ i = EthTxBufTotal - 1
    BY <1>1 DEF Buffers
  <1> QED
    BY <1>1, <1>2, Successor DEF Buffers

LEMMA SlotOffset ==
  ASSUME ConfirmTxBufIdx \in Buffers
  PROVE  /\ \A i \in Buffers : /\ Offset(i) \in 0 .. EthTxBufTotal - 1
                               /\ Slot(Offset(i)) = i
         /\ \A j \in 0 .. EthTxBufTotal - 1 : Offset(Slot(j)) = j
  <1>1. EthTxBufTotal \in Nat \ {0}
    BY ConstantFacts
  <1>2. ASSUME NEW i \in Buffers
        PROVE  Offset(i) \in 0 .. EthTxBufTotal - 1 /\ Slot(Offset(i)) = i
    <2>1. Offset(i) \in 0 .. EthTxBufTotal - 1
      BY <1>1 DEF Offset, Buffers
    <2>2. Slot(Offset(i)) = IF ConfirmTxBufIdx + Offset(i) < EthTxBufTotal
                            THEN ConfirmTxBufIdx + Offset(i)
                            ELSE ConfirmTxBufIdx + Offset(i) - EthTxBufTotal
      BY <1>1, <2>1, SlotValue
    <2> QED
      BY <1>1, <2>1, <2>2 DEF Offset, Buffers
  <1>3. ASSUME NEW j \in 0 .. EthTxBufTotal - 1
        PROVE  Offset(Slot(j)) = j
    <2>1. Slot(j) = IF ConfirmTxBufIdx + j < EthTxBufTotal
                    THEN ConfirmTxBufIdx + j
                    ELSE ConfirmTxBufIdx + j - EthTxBufTotal
      BY <1>1, SlotValue
    <2> QED
      BY <1>1, <2>1 DEF Offset, Buffers
  <1> QED
    BY <1>2, <1>3

\* When the head is released every other buffer comes one nearer.
LEMMA OffsetShift ==
  ASSUME ConfirmTxBufIdx \in Buffers,
         ConfirmTxBufIdx' = lIncrTxBufIdx(ConfirmTxBufIdx)
  PROVE  /\ \A i \in Buffers : i /= ConfirmTxBufIdx => Offset(i)' = Offset(i) - 1
         /\ \A j \in 1 .. EthTxBufTotal : Slot(j - 1)' = Slot(j)
  <1>1. EthTxBufTotal \in Nat \ {0}
    BY ConstantFacts
  <1>2. ConfirmTxBufIdx' = IF ConfirmTxBufIdx = EthTxBufTotal - 1
                           THEN 0 ELSE ConfirmTxBufIdx + 1
    BY <1>1, Successor DEF Buffers
  <1>3. \A i \in Buffers : i /= ConfirmTxBufIdx => Offset(i)' = Offset(i) - 1
    BY <1>1, <1>2 DEF Offset, Buffers
  <1>4. ASSUME NEW j \in 1 .. EthTxBufTotal PROVE Slot(j - 1)' = Slot(j)
    <2>1. Slot(j) = IF ConfirmTxBufIdx + j < EthTxBufTotal
                    THEN ConfirmTxBufIdx + j
                    ELSE ConfirmTxBufIdx + j - EthTxBufTotal
      BY <1>1, SlotValue
    <2>2. Slot(j - 1)' = (ConfirmTxBufIdx' + (j - 1)) % EthTxBufTotal
      BY DEF Slot
    <2>3. CASE ConfirmTxBufIdx' = ConfirmTxBufIdx + 1
      <3>1. ConfirmTxBufIdx' + (j - 1) = ConfirmTxBufIdx + j
        BY <1>1, <2>3 DEF Buffers
      <3> QED
        BY <2>2, <3>1 DEF Slot
    <2>4. CASE ConfirmTxBufIdx = EthTxBufTotal - 1 /\ ConfirmTxBufIdx' = 0
      <3>1. (0 + (j - 1)) % EthTxBufTotal = j - 1
        BY <1>1
      <3> QED
        BY <1>1, <2>1, <2>2, <2>4, <3>1
    <2> QED
      BY <1>2, <2>3, <2>4
  <1> QED
    BY <1>3, <1>4

\* The buffers nearer than n to ConfirmTxBufIdx are n.
LEMMA NearCount ==
  ASSUME ConfirmTxBufIdx \in Buffers, NEW n \in 0 .. EthTxBufTotal
  PROVE  Cardinality({i \in Buffers : Offset(i) < n}) = n
  <1> DEFINE a == ConfirmTxBufIdx
             near == {i \in Buffers : Offset(i) < n}
  <1>1. EthTxBufTotal \in Nat \ {0} /\ a \in Nat /\ a < EthTxBufTotal
    BY ConstantFacts DEF Buffers
  <1>2. CASE a + n <= EthTxBufTotal
    <2>1. near = a .. (a + n - 1)
      BY <1>1, <1>2 DEF Offset, Buffers
    <2>2. Cardinality(a .. (a + n - 1)) = n
      BY <1>1, FS_Interval
    <2> QED
      BY <2>1, <2>2
  <1>3. CASE a + n > EthTxBufTotal
    <2> DEFINE far == (a + n - EthTxBufTotal) .. (a - 1)
    <2>1. near = Buffers \ far /\ Buffers \cap far = far
      <3>1. \A i \in Buffers : Offset(i) < n <=> i \notin far
        BY <1>1, <1>3 DEF Offset, Buffers
      <3>2. far \subseteq Buffers
        BY <1>1, <1>3 DEF Buffers
      <3> HIDE DEF far
      <3> QED
        BY <3>1, <3>2
    <2>2. Cardinality(far) = EthTxBufTotal - n
      BY <1>1, <1>3, FS_Interval
    <2>3. IsFiniteSet(Buffers) /\ Cardinality(Buffers) = EthTxBufTotal
      BY <1>1, FS_Interval DEF Buffers
    <2>4. Cardinality(Buffers \ far) = Cardinality(Buffers) - Cardinality(Buffers \cap far)
      BY <2>3, FS_Difference
    <2>5. Cardinality(near) = EthTxBufTotal - (EthTxBufTotal - n)
      <3> HIDE DEF near, far
      <3> QED
        BY <2>1, <2>2, <2>3, <2>4
    <2> QED
      BY <1>1, <2>5
  <1> QED
    BY <1>1, <1>2, <1>3

\* The window of used buffers, counted: the used ones are the nearest.
CountInv ==
  cntrlInit =>
    /\ UsedCount \in 0 .. EthTxBufTotal
    /\ \A i \in Buffers : Used(i) <=> Offset(i) < UsedCount
    /\ CurrTxIdx = Slot(UsedCount)

LEMMA WindowCounts == RingInv => CountInv
  <1> SUFFICES ASSUME RingInv, cntrlInit
               PROVE  /\ UsedCount \in 0 .. EthTxBufTotal
                      /\ \A i \in Buffers : Used(i) <=> Offset(i) < UsedCount
                      /\ CurrTxIdx = Slot(UsedCount)
    BY DEF CountInv
  <1> DEFINE a == ConfirmTxBufIdx
             b == CurrTxIdx
  <1>1. /\ EthTxBufTotal \in Nat \ {0}
        /\ a \in Buffers /\ b \in Buffers
        /\ Window(UsedBuffers, a, b)
    BY ConstantFacts, IncrStaysInRing DEF RingInv, RingWindow
  <1>2. ASSUME NEW n \in 0 .. EthTxBufTotal,
               UsedBuffers = {i \in Buffers : Offset(i) < n},
               b = IF a + n < EthTxBufTotal THEN a + n ELSE a + n - EthTxBufTotal
        PROVE  /\ UsedCount \in 0 .. EthTxBufTotal
               /\ \A i \in Buffers : Used(i) <=> Offset(i) < UsedCount
               /\ CurrTxIdx = Slot(UsedCount)
    <2>1. UsedCount = n
      BY <1>1, <1>2, NearCount DEF UsedCount
    <2>2. \A i \in Buffers : Used(i) <=> i \in UsedBuffers
      BY DEF UsedBuffers
    <2>3. Slot(n) = b
      BY <1>1, <1>2, SlotValue
    <2> QED
      BY <1>2, <2>1, <2>2, <2>3
  <1>3. CASE a = b /\ UsedBuffers = {}
    <2>1. UsedBuffers = {i \in Buffers : Offset(i) < 0}
      BY <1>1, <1>3 DEF Offset, Buffers
    <2>2. b = IF a + 0 < EthTxBufTotal THEN a + 0 ELSE a + 0 - EthTxBufTotal
      BY <1>1, <1>3 DEF Buffers
    <2> QED
      BY <1>1, <1>2, <2>1, <2>2
  <1>4. CASE a = b /\ UsedBuffers = Buffers
    <2> DEFINE n == EthTxBufTotal
    <2>1. UsedBuffers = {i \in Buffers : Offset(i) < n}
      BY <1>1, <1>4 DEF Offset, Buffers
    <2>2. b = IF a + n < EthTxBufTotal THEN a + n ELSE a + n - EthTxBufTotal
      BY <1>1, <1>4 DEF Buffers
    <2> QED
      BY <1>1, <1>2, <2>1, <2>2
  <1>5. CASE a /= b
    <2> DEFINE n == IF a < b THEN b - a ELSE b - a + EthTxBufTotal
    <2>1. n \in 0 .. EthTxBufTotal
      BY <1>1, <1>5 DEF Buffers
    <2>2. UsedBuffers = {i \in Buffers : Offset(i) < n}
      BY <1>1, <1>5 DEF Window, Stretch, Offset, Buffers
    <2>3. b = IF a + n < EthTxBufTotal THEN a + n ELSE a + n - EthTxBufTotal
      BY <1>1, <1>5 DEF Buffers
    <2> QED
      BY <1>2, <2>1, <2>2, <2>3
  <1> QED
    BY <1>1, <1>3, <1>4, <1>5 DEF Window

-----------------------------------------------------------------------------
(* What the steps of the driver and the DMA do to the ring. *)

SameBuffer(i) == (Used(i)' <=> Used(i)) /\ (Initiated(i)' <=> Initiated(i))

OthersSame(k) == \A i \in Buffers : i /= k => SameBuffer(i)

\* The head h was sent and becomes free.
RingRelease(h) ==
  /\ h = ConfirmTxBufIdx
  /\ Used(h) /\ Initiated(h) /\ ~own[h]
  /\ ~Used(h)' /\ OthersSame(h)
  /\ ConfirmTxBufIdx' = lIncrTxBufIdx(h)
  /\ UNCHANGED <<CurrTxIdx, own, dmaIdx>>

\* The free buffer c at the tail is granted.
RingGrant(c) ==
  /\ c = CurrTxIdx
  /\ ~Used(c)
  /\ Used(c)' /\ ~Initiated(c)' /\ OthersSame(c)
  /\ CurrTxIdx' = lIncrTxBufIdx(c)
  /\ UNCHANGED <<ConfirmTxBufIdx, own, dmaIdx>>

\* Both at once, in a full ring: the head was sent and is granted again.
RingRegrant(c) ==
  /\ c = CurrTxIdx /\ c = ConfirmTxBufIdx
  /\ Used(c) /\ Initiated(c) /\ ~own[c]
  /\ Used(c)' /\ ~Initiated(c)' /\ OthersSame(c)
  /\ CurrTxIdx' = lIncrTxBufIdx(c)
  /\ ConfirmTxBufIdx' = lIncrTxBufIdx(c)
  /\ UNCHANGED <<own, dmaIdx>>

RingTransmit(i) ==
  /\ Used(i) /\ ~Initiated(i)
  /\ Used(i)' /\ Initiated(i)' /\ OthersSame(i)
  /\ own' = [own EXCEPT ![i] = TRUE]
  /\ UNCHANGED <<CurrTxIdx, ConfirmTxBufIdx, dmaIdx>>

RingSend(d) ==
  /\ d = dmaIdx /\ own[d]
  /\ \A i \in Buffers : SameBuffer(i)
  /\ own' = [own EXCEPT ![d] = FALSE]
  /\ dmaIdx' = lIncrTxBufIdx(d)
  /\ UNCHANGED <<CurrTxIdx, ConfirmTxBufIdx>>

RingSame ==
  /\ \A i \in Buffers : SameBuffer(i)
  /\ UNCHANGED <<CurrTxIdx, ConfirmTxBufIdx, own, dmaIdx>>

RingReset ==
  /\ \A i \in Buffers : ~Used(i)'
  /\ CurrTxIdx' = 0 /\ ConfirmTxBufIdx' = 0 /\ dmaIdx' = 0

RingStep ==
  \/ RingSame
  \/ \E i \in Buffers : \/ RingRelease(i) \/ RingGrant(i) \/ RingRegrant(i)
                        \/ RingTransmit(i) \/ RingSend(i)

LEMMA ProvideKinds ==
  ASSUME RingInv, NEW len \in Lengths, ProvideTxBuffer(len)
  PROVE  cntrlInit /\ RingStep
  <1>1. /\ CurrTxIdx \in Buffers /\ ConfirmTxBufIdx \in Buffers
        /\ UsedBuffers \in SUBSET Buffers
        /\ txBuffTable \in [Buffers -> BufferRecord]
        /\ cntrlInit
        /\ Window(UsedBuffers, ConfirmTxBufIdx, CurrTxIdx)
    BY IncrStaysInRing DEF RingInv, TypeInv, TypeOK, RingWindow, ProvideTxBuffer,
       ProvideOverflow, ProvideGrant, DriverReady, lDetCheckNoInit
  <1>2. /\ own' = own /\ dmaIdx' = dmaIdx
        /\ ConfirmTxBufIdx' = ImplicitConfirm
    BY DEF ProvideTxBuffer, ProvideOverflow, ProvideGrant, dma
  <1>3. CASE ImplicitlyDone
    <2>1. /\ Used(CurrTxIdx) /\ Initiated(CurrTxIdx) /\ ~own[CurrTxIdx]
          /\ CurrTxIdx \in UsedBuffers
      BY <1>1, <1>3 DEF ImplicitlyDone, UsedBuffers
    <2>2. ConfirmTxBufIdx = CurrTxIdx
      BY <1>1, <2>1, TailUsedMeansFull
    <2>3. ImplicitConfirm = lIncrTxBufIdx(ConfirmTxBufIdx)
      BY <1>3, <2>2 DEF ImplicitConfirm
    <2>4. /\ ImplicitRelease \in [Buffers -> BufferRecord]
          /\ ImplicitRelease[CurrTxIdx].BuffStatus = "NOTUSED"
          /\ \A i \in Buffers : i /= CurrTxIdx => ImplicitRelease[i] = txBuffTable[i]
      BY <1>1, <1>3 DEF ImplicitRelease, BufferRecord
    <2>5. CASE ProvideOverflow(len)
      <3>1. txBuffTable' = ImplicitRelease /\ CurrTxIdx' = CurrTxIdx
        BY <2>5 DEF ProvideOverflow
      <3> QED
        BY <1>1, <1>2, <2>1, <2>2, <2>3, <2>4, <3>1
        DEF RingStep, RingRelease, OthersSame, SameBuffer, Used, Initiated
    <2>6. CASE ProvideGrant(len)
      <3>1. /\ txBuffTable' = [ImplicitRelease EXCEPT ![CurrTxIdx] = GrantedRecord(len)]
            /\ CurrTxIdx' = lIncrTxBufIdx(CurrTxIdx)
        BY <2>6 DEF ProvideGrant
      <3>2. /\ txBuffTable'[CurrTxIdx].BuffStatus = "USED"
            /\ ~txBuffTable'[CurrTxIdx].FrameTxInitiated
            /\ \A i \in Buffers : i /= CurrTxIdx => txBuffTable'[i] = txBuffTable[i]
        BY <1>1, <2>4, <3>1 DEF GrantedRecord
      <3> QED
        BY <1>1, <1>2, <2>1, <2>2, <2>3, <3>1, <3>2
        DEF RingStep, RingRegrant, OthersSame, SameBuffer, Used, Initiated
    <2> QED
      BY <1>1, <2>5, <2>6 DEF ProvideTxBuffer
  <1>4. CASE ~ImplicitlyDone
    <2>1. ImplicitRelease = txBuffTable /\ ImplicitConfirm = ConfirmTxBufIdx
      BY <1>4 DEF ImplicitRelease, ImplicitConfirm
    <2>2. CASE ProvideOverflow(len)
      BY <1>1, <1>2, <2>1, <2>2 DEF ProvideOverflow, RingStep, RingSame,
         SameBuffer, Used, Initiated
    <2>3. CASE ProvideGrant(len)
      <3>1. /\ txBuffTable[CurrTxIdx].BuffStatus = "NOTUSED"
            /\ txBuffTable' = [txBuffTable EXCEPT ![CurrTxIdx] = GrantedRecord(len)]
            /\ CurrTxIdx' = lIncrTxBufIdx(CurrTxIdx)
        BY <2>1, <2>3 DEF ProvideGrant
      <3>2. /\ txBuffTable'[CurrTxIdx].BuffStatus = "USED"
            /\ ~txBuffTable'[CurrTxIdx].FrameTxInitiated
            /\ \A i \in Buffers : i /= CurrTxIdx => txBuffTable'[i] = txBuffTable[i]
        BY <1>1, <3>1 DEF GrantedRecord
      <3> QED
        BY <1>1, <1>2, <2>1, <3>1, <3>2
        DEF RingStep, RingGrant, OthersSame, SameBuffer, Used, Initiated
    <2> QED
      BY <1>1, <2>2, <2>3 DEF ProvideTxBuffer
  <1> QED
    BY <1>3, <1>4

LEMMA ReleaseKind ==
  ASSUME RingInv, ReleaseConfirmed, Confirmable
  PROVE  RingStep
  <1>1. /\ ConfirmTxBufIdx \in Buffers
        /\ txBuffTable \in [Buffers -> BufferRecord]
    BY DEF RingInv, TypeInv, TypeOK
  <1>2. /\ txBuffTable'[ConfirmTxBufIdx] = Released(txBuffTable[ConfirmTxBufIdx])
        /\ \A i \in Buffers : i /= ConfirmTxBufIdx => txBuffTable'[i] = txBuffTable[i]
    BY <1>1 DEF ReleaseConfirmed
  <1>3. txBuffTable'[ConfirmTxBufIdx].BuffStatus = "NOTUSED"
    BY <1>1, <1>2, ReleasedIsRecord
  <1> QED
    BY <1>1, <1>2, <1>3 DEF ReleaseConfirmed, Confirmable, RingStep, RingRelease,
       OthersSame, SameBuffer, Used, Initiated, dma

LEMMA RestartKind ==
  ASSUME RingInv, SetControllerMode
  PROVE  ~cntrlInit' \/ RingReset
  <1>1. CASE InitControllerFails \/ CoreInitTimerFails
    BY <1>1 DEF InitControllerFails, CoreInitTimerFails
  <1>2. CASE SetModeActive \/ SetModeDown
    <2>1. /\ txBuffTable' = [i \in Buffers |-> Released(txBuffTable[i])]
          /\ CurrTxIdx' = 0 /\ ConfirmTxBufIdx' = 0 /\ dmaIdx' = 0
      BY <1>2 DEF SetModeActive, SetModeDown, lDmaTxDescriptorInit
    <2>2. \A i \in Buffers : ~Used(i)'
      BY <2>1, ReleasedIsRecord DEF Used, RingInv, TypeInv, TypeOK
    <2> QED
      BY <2>1, <2>2 DEF RingReset
  <1> QED
    BY <1>1, <1>2 DEF SetControllerMode

\* Every step of the driver or the DMA is one of these on the ring.
LEMMA StepKinds ==
  ASSUME RingInv, [Next]_vars
  PROVE  \/ ~cntrlInit' \/ RingReset
         \/ cntrlInit /\ RingStep
  <1>1. /\ txBuffTable \in [Buffers -> BufferRecord]
        /\ own \in [Buffers -> BOOLEAN]
        /\ dmaIdx \in Buffers
    BY DEF RingInv, TypeInv, TypeOK
  <1>2. CASE UNCHANGED <<txBuffTable, CurrTxIdx, ConfirmTxBufIdx, own, dmaIdx, cntrlInit>>
    BY <1>2 DEF RingStep, RingSame, SameBuffer, Used, Initiated
  <1>3. CASE EthInit
    BY <1>3 DEF EthInit, lInitGlobalVar
  <1>4. CASE SetControllerMode
    BY <1>4, RestartKind
  <1>5. ASSUME NEW len \in Lengths, ProvideTxBuffer(len) PROVE cntrlInit /\ RingStep
    BY <1>5, ProvideKinds
  <1>6. ASSUME NEW i \in Buffers, NEW confirm \in BOOLEAN, NEW len \in Lengths,
               Transmit(i, confirm, len)
        PROVE  cntrlInit /\ RingStep
    <2>1. /\ cntrlInit /\ Used(i) /\ ~Initiated(i)
          /\ UNCHANGED <<CurrTxIdx, ConfirmTxBufIdx, dmaIdx>>
          /\ own' = [own EXCEPT ![i] = TRUE]
      BY <1>6 DEF Transmit, TransmitAccepted, DriverReady, lDetCheckNoInit, lTransmit
    <2>2. /\ txBuffTable'[i].BuffStatus = txBuffTable[i].BuffStatus
          /\ txBuffTable'[i].FrameTxInitiated = TRUE
          /\ \A k \in Buffers : k /= i => txBuffTable'[k] = txBuffTable[k]
      BY <1>1, <1>6 DEF Transmit, lTransmit, BufferRecord
    <2> QED
      BY <2>1, <2>2 DEF RingStep, RingTransmit, OthersSame, SameBuffer, Used, Initiated
  <1>7. CASE TxConfirmation \/ TxConfirmationReturns \/ IrqReturns \/ TxDmaCh0IrqHdlr
             \/ IrqLoops \/ ConfirmCallback
    BY <1>2, <1>7 DEF TxConfirmation, TxConfirmationReturns, IrqReturns,
       TxDmaCh0IrqHdlr, IrqLoops, ConfirmCallback, table, status, dma
  <1>8. CASE ConfirmSilently \/ CallbackReturns
    <2>1. ReleaseConfirmed /\ Confirmable /\ cntrlInit
      BY <1>8 DEF ConfirmSilently, CallbackReturns, ScanGoesOn, RingInv, ScanReady,
         MainRuns, InCallback, CallbackBufferStable, Confirmable
    <2> QED
      BY <2>1, ReleaseKind
  <1>9. CASE DmaSends
    <2>1. /\ UNCHANGED <<txBuffTable, CurrTxIdx, ConfirmTxBufIdx, cntrlInit>>
          /\ own[dmaIdx] /\ own' = [own EXCEPT ![dmaIdx] = FALSE]
          /\ dmaIdx' = lIncrTxBufIdx(dmaIdx)
      BY <1>9 DEF DmaSends, table, status
    <2> QED
      BY <1>1, <2>1 DEF RingStep, RingSend, SameBuffer, Used, Initiated
  <1>10. CASE DmaSuspends \/ UNCHANGED vars
    BY <1>2, <1>10 DEF DmaSuspends, vars, table, status, dma
  <1> QED
    BY <1>3, <1>4, <1>5, <1>6, <1>7, <1>8, <1>9, <1>10
    DEF Next, Application, Scan, ScanStep, Dma

-----------------------------------------------------------------------------
(* The DMA follows the ring. *)

\* The DMA stands k buffers ahead of the head: the nearer ones are sent, of the
\* others it owns those passed to Transmit.
DmaAt(k) ==
  /\ dmaIdx = Slot(k)
  /\ \A i \in Buffers :
       Offset(i) < UsedCount =>
         IF Offset(i) < k THEN Initiated(i) /\ ~own[i] ELSE own[i] <=> Initiated(i)

DmaInv == cntrlInit => \E k \in 0 .. UsedCount : DmaAt(k)

\* What the steps do to the number of used buffers.
LEMMA CountChanges ==
  ASSUME RingInv, cntrlInit
  PROVE  /\ IsFiniteSet(UsedBuffers)
         /\ \A h \in Buffers : RingRelease(h) => UsedCount' = UsedCount - 1
         /\ \A c \in Buffers : RingGrant(c) => UsedCount' = UsedCount + 1
         /\ \A c \in Buffers : RingRegrant(c) => UsedCount' = UsedCount
         /\ \A i \in Buffers : RingTransmit(i) \/ RingSend(i) => UsedCount' = UsedCount
         /\ RingSame => UsedCount' = UsedCount
  <1>1. IsFiniteSet(UsedBuffers)
    <2>1. IsFiniteSet(Buffers)
      <3>1. EthTxBufTotal \in Nat
        BY ConstantFacts
      <3> QED
        BY <3>1, FS_Interval DEF Buffers
    <2>2. UsedBuffers \in SUBSET Buffers
      BY DEF UsedBuffers
    <2> QED
      BY <2>1, <2>2, FS_Subset
  <1>2. ASSUME NEW h \in Buffers, RingRelease(h) PROVE UsedCount' = UsedCount - 1
    <2>1. UsedBuffers' = UsedBuffers \ {h} /\ h \in UsedBuffers
      BY <1>2 DEF RingRelease, OthersSame, SameBuffer, UsedBuffers
    <2> QED
      BY <1>1, <2>1, FS_RemoveElement DEF UsedCount
  <1>3. ASSUME NEW c \in Buffers, RingGrant(c) PROVE UsedCount' = UsedCount + 1
    <2>1. UsedBuffers' = UsedBuffers \cup {c} /\ c \notin UsedBuffers
      BY <1>3 DEF RingGrant, OthersSame, SameBuffer, UsedBuffers
    <2> QED
      BY <1>1, <2>1, FS_AddElement DEF UsedCount
  <1>4. ASSUME NEW c \in Buffers, RingRegrant(c) \/ RingTransmit(c) \/ RingSend(c) \/ RingSame
        PROVE  UsedCount' = UsedCount
    <2>1. UsedBuffers' = UsedBuffers
      BY <1>4 DEF RingRegrant, RingTransmit, RingSend, RingSame, OthersSame, SameBuffer,
         UsedBuffers
    <2> QED
      BY <2>1 DEF UsedCount
  <1> QED
    BY <1>1, <1>2, <1>3, <1>4, ConstantFacts

LEMMA DmaInvStep ==
  ASSUME RingInv, CountInv, CountInv', DmaInv, DmaOwnsOnlyInitiated,
         TypeInv', [Next]_vars
  PROVE  DmaInv'
  <1> SUFFICES ASSUME cntrlInit' PROVE \E k \in 0 .. UsedCount' : DmaAt(k)'
    BY DEF DmaInv
  <1> DEFINE a == ConfirmTxBufIdx
  <1>1. /\ EthTxBufTotal \in Nat \ {0}
        /\ a \in Buffers /\ a' \in Buffers
        /\ own \in [Buffers -> BOOLEAN] /\ dmaIdx \in Buffers
        /\ UsedCount' \in 0 .. EthTxBufTotal
        /\ \A i \in Buffers : Used(i)' <=> Offset(i)' < UsedCount'
        /\ \A i \in Buffers : Offset(i) \in 0 .. EthTxBufTotal - 1
        /\ Offset(a) = 0
    BY ConstantFacts, SlotOffset DEF RingInv, TypeInv, TypeOK, CountInv, Offset, Buffers
  <1>2. CASE RingReset
    <2>1. UsedCount' = 0
      <3>1. UsedBuffers' = {}
        BY <1>2 DEF RingReset, UsedBuffers
      <3> QED
        BY <3>1, FS_EmptySet DEF UsedCount
    <2>2. Slot(0)' = 0
      BY <1>1, <1>2, SlotValue DEF RingReset, Slot
    <2>3. \A i \in Buffers : ~(Offset(i)' < UsedCount')
      BY <1>1, <1>2 DEF RingReset
    <2> QED
      BY <1>2, <2>1, <2>2, <2>3 DEF RingReset, DmaAt
  <1>3. CASE cntrlInit /\ RingStep
    <2>1. PICK k \in 0 .. UsedCount : DmaAt(k)
      BY <1>3 DEF DmaInv
    <2>2. /\ UsedCount \in 0 .. EthTxBufTotal /\ k \in 0 .. EthTxBufTotal
          /\ CurrTxIdx \in Buffers /\ CurrTxIdx = Slot(UsedCount)
          /\ \A i \in Buffers : Used(i) <=> Offset(i) < UsedCount
          /\ \A i \in Buffers : own[i] => Used(i) /\ Initiated(i)
          /\ dmaIdx = Slot(k)
          /\ \A i \in Buffers :
               Offset(i) < UsedCount =>
                 IF Offset(i) < k THEN Initiated(i) /\ ~own[i] ELSE own[i] <=> Initiated(i)
      BY <1>1, <1>3, <2>1 DEF CountInv, DmaOwnsOnlyInitiated, DmaAt, RingInv, TypeInv,
         TypeOK
    <2>3. ASSUME a' = a, own' = own, dmaIdx' = dmaIdx,
                 NEW c \in Buffers,
                 \A i \in Buffers : i /= c => SameBuffer(i),
                 SameBuffer(c) \/ (~Used(c) /\ ~Initiated(c)'),
                 UsedCount' >= UsedCount
          PROVE  \E kk \in 0 .. UsedCount' : DmaAt(kk)'
      <3>1. Slot(k)' = Slot(k) /\ \A i \in Buffers : Offset(i)' = Offset(i)
        BY <2>3 DEF Slot, Offset
      <3>2. k \in 0 .. UsedCount'
        BY <1>1, <2>2, <2>3
      <3>3. ASSUME NEW i \in Buffers, Offset(i)' < UsedCount'
            PROVE  IF Offset(i) < k THEN Initiated(i)' /\ ~own[i]
                                    ELSE own[i] <=> Initiated(i)'
        <4>1. Used(i)'
          BY <1>1, <3>3
        <4>2. CASE SameBuffer(i)
          BY <2>2, <4>1, <4>2 DEF SameBuffer
        <4>3. CASE ~Used(i) /\ ~Initiated(i)'
          BY <1>1, <2>2, <4>3
        <4> QED
          BY <2>3, <4>2, <4>3
      <3> QED
        BY <2>2, <2>3, <3>1, <3>2, <3>3 DEF DmaAt
    <2>4. CASE RingSame
      <3>1. UsedCount' = UsedCount
        BY <1>3, <2>4, CountChanges
      <3> QED
        BY <1>1, <2>2, <2>3, <2>4, <3>1 DEF RingSame
    <2>5. ASSUME NEW c \in Buffers, RingGrant(c) PROVE \E kk \in 0 .. UsedCount' : DmaAt(kk)'
      <3>1. UsedCount' = UsedCount + 1
        BY <1>3, <2>5, CountChanges
      <3> QED
        BY <1>1, <2>2, <2>3, <2>5, <3>1 DEF RingGrant, OthersSame
    <2>6. ASSUME NEW h \in Buffers, h = a, Used(h), Initiated(h), ~own[h],
                 a' = lIncrTxBufIdx(a), own' = own, dmaIdx' = dmaIdx,
                 OthersSame(h),
                 \/ ~Used(h)' /\ UsedCount' = UsedCount - 1
                 \/ ~Initiated(h)' /\ UsedCount' = UsedCount /\ UsedCount = EthTxBufTotal
          PROVE  \E kk \in 0 .. UsedCount' : DmaAt(kk)'
      <3>1. UsedCount > 0 /\ k > 0
        BY <1>1, <2>2, <2>6
      <3>2. k - 1 \in 0 .. UsedCount'
        BY <1>1, <2>2, <2>6, <3>1
      <3>3. Slot(k - 1)' = Slot(k)
        BY <1>1, <2>2, <2>6, <3>1, OffsetShift
      <3>4. ASSUME NEW i \in Buffers, Offset(i)' < UsedCount'
            PROVE  IF Offset(i)' < k - 1 THEN Initiated(i)' /\ ~own[i]
                                         ELSE own[i] <=> Initiated(i)'
        <4>1. Used(i)'
          BY <1>1, <3>4
        <4>2. CASE i /= h
          <5>1. Offset(i)' = Offset(i) - 1
            BY <1>1, <2>6, <4>2, OffsetShift
          <5>2. Used(i) /\ (Initiated(i)' <=> Initiated(i))
            BY <2>6, <4>1, <4>2 DEF OthersSame, SameBuffer
          <5> QED
            BY <1>1, <2>2, <5>1, <5>2
        <4>3. CASE i = h
          <5>1. ~Initiated(h)' /\ UsedCount = EthTxBufTotal
            BY <2>6, <4>1, <4>3
          <5>2. Offset(h)' = EthTxBufTotal - 1
            <6>1. a' = IF a = EthTxBufTotal - 1 THEN 0 ELSE a + 1
              BY <1>1, <2>6, NextIndex
            <6> QED
              BY <1>1, <2>6, <6>1 DEF Offset, Buffers
          <5> QED
            BY <1>1, <2>2, <2>6, <4>3, <5>1, <5>2
        <4> QED
          BY <4>2, <4>3
      <3> QED
        BY <2>2, <2>6, <3>2, <3>3, <3>4 DEF DmaAt
    <2>7. ASSUME NEW h \in Buffers, RingRelease(h) PROVE \E kk \in 0 .. UsedCount' : DmaAt(kk)'
      <3>1. UsedCount' = UsedCount - 1
        BY <1>3, <2>7, CountChanges
      <3>2. /\ h = a /\ Used(h) /\ Initiated(h) /\ ~own[h] /\ ~Used(h)'
            /\ OthersSame(h) /\ a' = lIncrTxBufIdx(a)
            /\ own' = own /\ dmaIdx' = dmaIdx
        BY <2>7 DEF RingRelease
      <3> QED
        BY <2>6, <2>7, <3>1, <3>2
    <2>8. ASSUME NEW c \in Buffers, RingRegrant(c) PROVE \E kk \in 0 .. UsedCount' : DmaAt(kk)'
      <3>1. UsedCount' = UsedCount
        BY <1>3, <2>8, CountChanges
      <3>2. UsedCount = EthTxBufTotal
        <4>1. UsedCount > 0 /\ Slot(UsedCount) = a
          BY <1>1, <2>2, <2>8 DEF RingRegrant
        <4>2. UsedCount < EthTxBufTotal => Offset(Slot(UsedCount)) = UsedCount
          BY <1>1, <2>2, SlotOffset
        <4> QED
          BY <1>1, <2>2, <4>1, <4>2
      <3> QED
        BY <2>6, <2>8, <3>1, <3>2 DEF RingRegrant
    <2>9. ASSUME NEW t \in Buffers, RingTransmit(t) PROVE \E kk \in 0 .. UsedCount' : DmaAt(kk)'
      <3>1. UsedCount' = UsedCount /\ Slot(k)' = Slot(k) /\ \A i \in Buffers : Offset(i)' = Offset(i)
        BY <1>3, <2>9, CountChanges DEF RingTransmit, Slot, Offset
      <3>2. ASSUME NEW i \in Buffers, Offset(i) < UsedCount
            PROVE  IF Offset(i) < k THEN Initiated(i)' /\ ~own'[i]
                                    ELSE own'[i] <=> Initiated(i)'
        BY <1>1, <2>2, <2>9, <3>2 DEF RingTransmit, OthersSame, SameBuffer
      <3> QED
        BY <2>1, <2>2, <2>9, <3>1, <3>2 DEF DmaAt, RingTransmit
    <2>10. ASSUME NEW d \in Buffers, RingSend(d) PROVE \E kk \in 0 .. UsedCount' : DmaAt(kk)'
      <3>1. UsedCount' = UsedCount /\ a' = a /\ \A i \in Buffers : Offset(i)' = Offset(i)
        BY <1>3, <2>10, CountChanges DEF RingSend, Offset
      <3>2. d = Slot(k) /\ own[d] /\ Offset(d) < UsedCount /\ Initiated(d)
        BY <2>2, <2>10 DEF RingSend
      <3>3. k < EthTxBufTotal
        <4>1. k = EthTxBufTotal => Slot(k) = a
          BY <1>1, <2>2, SlotValue DEF Buffers
        <4> QED
          BY <1>1, <2>2, <3>2, <4>1
      <3>4. Offset(d) = k
        BY <1>1, <2>2, <3>2, <3>3, SlotOffset
      <3>5. Slot(k + 1)' = lIncrTxBufIdx(d)
        <4>1. Slot(k + 1)' = Slot(k + 1)
          BY <3>1 DEF Slot
        <4>2. Slot(k + 1) = lIncrTxBufIdx(Slot(k))
          <5>1. /\ Slot(k) = IF a + k < EthTxBufTotal THEN a + k ELSE a + k - EthTxBufTotal
                /\ Slot(k) \in Buffers
            BY <1>1, <2>2, SlotValue
          <5>2. Slot(k + 1) = IF a + (k + 1) < EthTxBufTotal THEN a + (k + 1)
                              ELSE a + (k + 1) - EthTxBufTotal
            BY <1>1, <2>2, <3>3, SlotValue
          <5>3. lIncrTxBufIdx(Slot(k)) = IF Slot(k) = EthTxBufTotal - 1 THEN 0 ELSE Slot(k) + 1
            BY <5>1, NextIndex
          <5>4. a \in Int /\ a < EthTxBufTotal /\ k \in Int /\ k < EthTxBufTotal
            BY <1>1, <2>2, <3>3 DEF Buffers
          <5> QED
            BY <1>1, <5>1, <5>2, <5>3, <5>4
        <4> QED
          BY <3>2, <4>1, <4>2
      <3>6. k + 1 \in 0 .. UsedCount'
        BY <1>1, <2>2, <3>1, <3>2, <3>4
      <3>7. ASSUME NEW i \in Buffers, Offset(i) < UsedCount
            PROVE  IF Offset(i) < k + 1 THEN Initiated(i)' /\ ~own'[i]
                                        ELSE own'[i] <=> Initiated(i)'
        <4>1. Initiated(i)' <=> Initiated(i)
          BY <2>10 DEF RingSend, SameBuffer
        <4>2. CASE i = d
          BY <1>1, <2>2, <2>10, <3>2, <3>4, <4>1, <4>2 DEF RingSend
        <4>3. CASE i /= d
          <5>1. own'[i] = own[i]
            BY <1>1, <2>10, <4>3 DEF RingSend
          <5>2. Offset(i) /= k
            BY <1>1, <3>2, <4>3, SlotOffset
          <5> QED
            BY <1>1, <2>2, <3>7, <4>1, <5>1, <5>2
        <4> QED
          BY <4>2, <4>3
      <3> QED
        BY <2>10, <3>1, <3>5, <3>6, <3>7 DEF DmaAt, RingSend
    <2> QED
      BY <1>3, <2>4, <2>5, <2>7, <2>8, <2>9, <2>10 DEF RingStep
  <1> QED
    BY <1>2, <1>3, StepKinds

LEMMA CountInvariance == Spec => []CountInv
  BY RingInvariance, WindowCounts, PTL

LEMMA DmaInvariance ==
  ASSUME StopsWhilePending = FALSE
  PROVE  Spec => []DmaInv
  <1>1. Init => DmaInv
    BY DEF Init, DmaInv
  <1>2. RingInv /\ CountInv /\ CountInv' /\ DmaInv /\ DmaOwnsOnlyInitiated /\ TypeInv'
          /\ [Next]_vars => DmaInv'
    BY DmaInvStep
  <1>3. Spec => []DmaOwnsOnlyInitiated
    BY DmaOwnershipCorrect
  <1> QED
    BY <1>1, <1>2, <1>3, RingInvariance, CountInvariance, TypeInvariance, PTL DEF Spec

\* For every ring size, provided the application never stops the controller
\* while descriptors belong to the DMA, frames leave in ring order.
THEOREM DmaFollowsCorrect ==
  ASSUME StopsWhilePending = FALSE
  PROVE  Spec => []DmaFollowsRing
  <1>1. RingInv /\ CountInv /\ DmaInv => DmaFollowsRing
    <2> SUFFICES ASSUME RingInv, CountInv, DmaInv, cntrlInit
                 PROVE  \E k \in 0 .. UsedCount :
                          /\ dmaIdx = Slot(k)
                          /\ \A j \in 0 .. UsedCount - 1 :
                               IF j < k THEN Initiated(Slot(j)) /\ ~own[Slot(j)]
                                        ELSE own[Slot(j)] <=> Initiated(Slot(j))
      BY DEF DmaFollowsRing
    <2>1. PICK k \in 0 .. UsedCount : DmaAt(k)
      BY DEF DmaInv
    <2>2. /\ EthTxBufTotal \in Nat /\ ConfirmTxBufIdx \in Buffers
          /\ UsedCount \in 0 .. EthTxBufTotal
      BY ConstantFacts DEF RingInv, TypeInv, TypeOK, CountInv
    <2>3. ASSUME NEW j \in 0 .. UsedCount - 1
          PROVE  Slot(j) \in Buffers /\ Offset(Slot(j)) = j
      BY <2>2, SlotValue, SlotOffset
    <2>4. ASSUME NEW j \in 0 .. UsedCount - 1
          PROVE  IF j < k THEN Initiated(Slot(j)) /\ ~own[Slot(j)]
                          ELSE own[Slot(j)] <=> Initiated(Slot(j))
      <3>1. Slot(j) \in Buffers /\ Offset(Slot(j)) = j /\ j < UsedCount
        BY <2>2, <2>3
      <3> QED
        BY <2>1, <3>1 DEF DmaAt
    <2> QED
      BY <2>1, <2>4 DEF DmaAt
  <1> QED
    BY <1>1, RingInvariance, CountInvariance, DmaInvariance, PTL

-----------------------------------------------------------------------------
(* Confirmations. *)

\* For every ring size and both modes, whatever the application, the callback
\* and the interrupt do, a frame that asked for its confirmation is released by
\* the return of that callback only, as long as the controller runs.
THEOREM ReleaseCorrect == Spec => NoUnconfirmedRelease
  <1>1. RingInv /\ [Next]_vars =>
          [\A i \in Buffers :
             /\ Used(i) /\ Initiated(i) /\ txBuffTable[i].TxConfirmReq
             /\ cntrlInit' /\ cntrlInit /\ hwActive /\ hwActive'
             /\ ~Used(i)'
             => InCallback /\ i = ConfirmTxBufIdx]_vars
    <2> SUFFICES ASSUME RingInv, Next, NEW i \in Buffers,
                        Used(i), txBuffTable[i].TxConfirmReq,
                        cntrlInit', cntrlInit, hwActive, hwActive', ~Used(i)'
                 PROVE  InCallback /\ i = ConfirmTxBufIdx
      OBVIOUS
    <2>1. /\ txBuffTable \in [Buffers -> BufferRecord]
          /\ CurrTxIdx \in Buffers /\ ConfirmTxBufIdx \in Buffers
          /\ txBuffTable'[i].BuffStatus /= txBuffTable[i].BuffStatus
      BY DEF RingInv, TypeInv, TypeOK, Used
    <2>2. CASE EthInit \/ SetControllerMode
      BY <2>2 DEF EthInit, lInitGlobalVar, SetControllerMode, InitControllerFails,
         CoreInitTimerFails, SetModeActive, SetModeDown, lStopTxRx
    <2>3. ASSUME NEW len \in Lengths, ProvideTxBuffer(len) PROVE FALSE
      <3>1. /\ ImplicitRelease[i] = txBuffTable[i]
            /\ ImplicitRelease \in [Buffers -> BufferRecord]
        BY <2>1 DEF ImplicitRelease, ImplicitlyDone, BufferRecord
      <3>2. CASE ProvideOverflow(len)
        BY <2>1, <3>1, <3>2 DEF ProvideOverflow
      <3>3. CASE ProvideGrant(len)
        <4>1. i /= CurrTxIdx
          BY <3>1, <3>3 DEF ProvideGrant, Used
        <4> QED
          BY <2>1, <3>1, <3>3, <4>1 DEF ProvideGrant
      <3> QED
        BY <2>3, <3>2, <3>3 DEF ProvideTxBuffer
    <2>4. ASSUME NEW k \in Buffers, NEW confirm \in BOOLEAN, NEW len \in Lengths,
                 Transmit(k, confirm, len)
          PROVE  FALSE
      BY <2>1, <2>4 DEF Transmit, lTransmit, BufferRecord
    <2>5. ASSUME ReleaseConfirmed PROVE i = ConfirmTxBufIdx
      BY <2>1, <2>5 DEF ReleaseConfirmed
    <2>6. CASE ConfirmSilently
      BY <2>5, <2>6 DEF ConfirmSilently
    <2>7. CASE CallbackReturns
      BY <2>5, <2>7 DEF CallbackReturns
    <2>8. CASE UNCHANGED txBuffTable
      BY <2>1, <2>8
    <2> QED
      BY <2>2, <2>3, <2>4, <2>6, <2>7, <2>8 DEF Next, Application, Scan, ScanStep, Dma,
         TxConfirmation, TxConfirmationReturns, IrqReturns, TxDmaCh0IrqHdlr, IrqLoops,
         ConfirmCallback, DmaSends, DmaSuspends, table
  <1> QED
    BY <1>1, RingInvariance, PTL DEF Spec, NoUnconfirmedRelease

\* The buffers whose frames were sent but are not confirmed yet.
Sent == {i \in Buffers : Used(i) /\ Initiated(i) /\ ~own[i]}

\* Without a pending interrupt no frame was sent since the scan began: those
\* that wait fit into the iterations the scan has left, and when it is over the
\* head is not one of them.
ConfirmInv ==
  TxIntEnabled /\ cntrlInit /\ ~TI =>
    IF MainRuns THEN ConfirmTxBufIdx \notin Sent
                ELSE Cardinality(Sent) + scan.Count <= EthTxBufTotal

LEMMA SentFacts ==
  /\ IsFiniteSet(Sent) /\ Cardinality(Sent) \in 0 .. EthTxBufTotal
  /\ Sent \in SUBSET Buffers
  /\ \A S \in SUBSET Sent : Cardinality(S) \in Nat /\ Cardinality(S) <= Cardinality(Sent)
  <1>1. EthTxBufTotal \in Nat \ {0}
    BY ConstantFacts
  <1>2. IsFiniteSet(Buffers) /\ Cardinality(Buffers) = EthTxBufTotal
    BY <1>1, FS_Interval DEF Buffers
  <1>3. Sent \in SUBSET Buffers
    BY DEF Sent
  <1>4. IsFiniteSet(Sent) /\ Cardinality(Sent) <= EthTxBufTotal
    BY <1>2, <1>3, FS_Subset
  <1>5. Cardinality(Sent) \in Nat
    BY <1>4, FS_CardinalityType
  <1>6. \A S \in SUBSET Sent : Cardinality(S) \in Nat /\ Cardinality(S) <= Cardinality(Sent)
    BY <1>4, FS_Subset, FS_CardinalityType
  <1> QED
    BY <1>1, <1>3, <1>4, <1>5, <1>6

\* Only the DMA adds to the sent frames, and only the release of the head moves
\* the head.
LEMMA SentShrinks ==
  ASSUME RingInv, RingStep, own' = own \/ \E i \in Buffers : RingTransmit(i)
  PROVE  /\ Sent' \subseteq Sent
         /\ ConfirmTxBufIdx \notin Sent => ConfirmTxBufIdx' = ConfirmTxBufIdx
  <1>1. own \in [Buffers -> BOOLEAN]
    BY DEF RingInv, TypeInv, TypeOK
  <1>2. CASE RingSame
    BY <1>2 DEF RingSame, SameBuffer, Sent
  <1>3. ASSUME NEW h \in Buffers, RingRelease(h) PROVE Sent' \subseteq Sent /\ ConfirmTxBufIdx \in Sent
    BY <1>3 DEF RingRelease, OthersSame, SameBuffer, Sent
  <1>4. ASSUME NEW c \in Buffers, RingGrant(c)
        PROVE  Sent' \subseteq Sent /\ ConfirmTxBufIdx' = ConfirmTxBufIdx
    BY <1>4 DEF RingGrant, OthersSame, SameBuffer, Sent
  <1>5. ASSUME NEW c \in Buffers, RingRegrant(c) PROVE Sent' \subseteq Sent /\ ConfirmTxBufIdx \in Sent
    BY <1>5 DEF RingRegrant, OthersSame, SameBuffer, Sent
  <1>6. ASSUME NEW t \in Buffers, RingTransmit(t)
        PROVE  Sent' \subseteq Sent /\ ConfirmTxBufIdx' = ConfirmTxBufIdx
    BY <1>1, <1>6 DEF RingTransmit, OthersSame, SameBuffer, Sent
  <1>7. ASSUME NEW d \in Buffers, RingSend(d)
        PROVE  Sent' \subseteq Sent /\ ConfirmTxBufIdx' = ConfirmTxBufIdx
    <2>1. own' /= own
      BY <1>1, <1>7 DEF RingSend
    <2> QED
      BY <1>6, <1>7, <2>1 DEF RingSend
  <1> QED
    BY <1>2, <1>3, <1>4, <1>5, <1>6, <1>7 DEF RingStep

LEMMA ConfirmInvStep ==
  ASSUME RingInv, ConfirmInv, [Next]_vars
  PROVE  ConfirmInv'
  <1> SUFFICES ASSUME TxIntEnabled', cntrlInit', ~TI'
               PROVE  IF MainRuns' THEN (ConfirmTxBufIdx \notin Sent)'
                      ELSE (Cardinality(Sent) + scan.Count <= EthTxBufTotal)'
    BY DEF ConfirmInv
  <1>1. /\ EthTxBufTotal \in Nat /\ scan \in ScanRecord
        /\ ConfirmTxBufIdx \in Buffers
        /\ Cardinality(Sent) \in 0 .. EthTxBufTotal
        /\ \A S \in SUBSET Sent : Cardinality(S) \in Nat
                                  /\ Cardinality(S) <= Cardinality(Sent)
        /\ txBuffTable \in [Buffers -> BufferRecord]
    BY ConstantFacts, SentFacts DEF RingInv, TypeInv, TypeOK
  <1>2. ASSUME UNCHANGED <<TxIntEnabled, cntrlInit, TI, scan>>,
               Sent' \subseteq Sent,
               ConfirmTxBufIdx \notin Sent => ConfirmTxBufIdx' = ConfirmTxBufIdx
        PROVE  ConfirmInv'
    <2>1. CASE MainRuns
      BY <1>2, <2>1 DEF ConfirmInv, MainRuns
    <2>2. CASE ~MainRuns
      <3>1. Cardinality(Sent) + scan.Count <= EthTxBufTotal
        BY <1>2, <2>2 DEF ConfirmInv
      <3>2. Cardinality(Sent') \in Nat /\ Cardinality(Sent') <= Cardinality(Sent)
        BY <1>1, <1>2
      <3>3. Cardinality(Sent') + scan.Count <= EthTxBufTotal
        BY <1>1, <3>1, <3>2 DEF ScanRecord
      <3> QED
        BY <1>2, <2>2, <3>3 DEF ConfirmInv, MainRuns
    <2> QED
      BY <2>1, <2>2
  <1>3. CASE EthInit
    BY <1>3 DEF EthInit, lInitGlobalVar
  <1>4. CASE SetControllerMode
    <2>1. Sent' = {} /\ MainRuns'
      BY <1>4, RestartKind DEF RingReset, Sent, SetControllerMode, MainRuns
    <2> QED
      BY <2>1 DEF ConfirmInv
  <1>5. ASSUME NEW len \in Lengths, ProvideTxBuffer(len) PROVE ConfirmInv'
    <2>1. RingStep /\ own' = own /\ UNCHANGED <<TxIntEnabled, cntrlInit, TI, scan>>
      BY <1>5, ProvideKinds DEF ProvideTxBuffer, ProvideOverflow, ProvideGrant, status
    <2> QED
      BY <1>2, <2>1, SentShrinks
  <1>6. ASSUME NEW i \in Buffers, NEW confirm \in BOOLEAN, NEW len \in Lengths,
               Transmit(i, confirm, len)
        PROVE  ConfirmInv'
    <2>1. /\ ~Initiated(i) /\ own' = [own EXCEPT ![i] = TRUE]
          /\ UNCHANGED <<TxIntEnabled, cntrlInit, TI, scan, ConfirmTxBufIdx>>
          /\ \A k \in Buffers : k /= i => txBuffTable'[k] = txBuffTable[k]
      BY <1>1, <1>6 DEF Transmit, lTransmit, status
    <2>2. own \in [Buffers -> BOOLEAN]
      BY DEF RingInv, TypeInv, TypeOK
    <2>3. Sent' \subseteq Sent
      BY <2>1, <2>2 DEF Sent, Used, Initiated
    <2> QED
      BY <1>2, <2>1, <2>3
  <1>7. CASE TxConfirmation \/ TxConfirmationReturns
    BY <1>7 DEF TxConfirmation, TxConfirmationReturns, status
  <1>8. CASE TxDmaCh0IrqHdlr \/ IrqLoops
    <2>1. Sent' = Sent /\ scan'.Count = 0 /\ scan'.at = "test"
      BY <1>1, <1>8 DEF TxDmaCh0IrqHdlr, IrqLoops, IdleScan, ScanRecord, Sent, Used,
         Initiated, table
    <2> QED
      BY <1>1, <2>1 DEF ConfirmInv, MainRuns
  <1>9. CASE IrqReturns
    <2>1. /\ ~MainRuns /\ MainRuns' /\ ~TI /\ TxIntEnabled /\ cntrlInit
          /\ Sent' = Sent /\ ConfirmTxBufIdx' = ConfirmTxBufIdx
      BY <1>9 DEF IrqReturns, ScanEnds, MainRuns, IdleScan, Sent, Used, Initiated,
         table, status
    <2>2. Cardinality(Sent) + scan.Count <= EthTxBufTotal
      BY <2>1 DEF ConfirmInv
    <2>3. CASE scan.Count < EthTxBufTotal
      BY <1>9, <2>1, <2>3 DEF IrqReturns, ScanEnds, Confirmable, Sent, ConfirmInv
    <2>4. CASE ~(scan.Count < EthTxBufTotal)
      <3>1. Cardinality(Sent) = 0
        BY <1>1, <2>2, <2>4 DEF ScanRecord
      <3>2. Sent = {}
        BY <3>1, SentFacts, FS_EmptySet
      <3> QED
        BY <2>1, <3>2 DEF ConfirmInv
    <2> QED
      BY <2>3, <2>4
  <1>10. CASE ConfirmCallback
    <2>1. /\ scan.at = "test" /\ scan'.at = "callback" /\ scan'.Count = scan.Count
          /\ Sent' = Sent /\ UNCHANGED <<TxIntEnabled, cntrlInit, TI>>
      BY <1>1, <1>10 DEF ConfirmCallback, ScanGoesOn, ScanRecord, Sent, Used, Initiated,
         table, status
    <2> QED
      BY <2>1 DEF ConfirmInv, MainRuns
  <1>11. CASE ConfirmSilently \/ CallbackReturns
    <2>1. /\ ReleaseConfirmed /\ ConfirmTxBufIdx \in Sent
          /\ scan.at \in {"test", "callback"}
      BY <1>1, <1>11 DEF ConfirmSilently, CallbackReturns, ScanGoesOn, InCallback, RingInv,
         CallbackBufferStable, Confirmable, Sent
    <2>2. /\ scan'.at = "test" /\ scan'.Count = scan.Count + 1
          /\ UNCHANGED <<TxIntEnabled, cntrlInit, TI>>
      BY <1>1, <2>1 DEF ReleaseConfirmed, ScanRecord, status
    <2>3. Sent' = Sent \ {ConfirmTxBufIdx}
      <3>1. txBuffTable'[ConfirmTxBufIdx].BuffStatus = "NOTUSED"
        BY <1>1, <2>1, ReleasedIsRecord DEF ReleaseConfirmed
      <3>2. /\ \A i \in Buffers : i /= ConfirmTxBufIdx => txBuffTable'[i] = txBuffTable[i]
            /\ own' = own
        BY <1>1, <2>1 DEF ReleaseConfirmed
      <3> QED
        BY <3>1, <3>2 DEF Sent, Used, Initiated
    <2>4. Cardinality(Sent') = Cardinality(Sent) - 1
      BY <2>1, <2>3, SentFacts, FS_RemoveElement
    <2>5. Cardinality(Sent) + scan.Count <= EthTxBufTotal
      BY <2>1, <2>2 DEF ConfirmInv, MainRuns
    <2>6. Cardinality(Sent') + scan'.Count <= EthTxBufTotal
      BY <1>1, <2>2, <2>4, <2>5 DEF ScanRecord
    <2> QED
      BY <2>2, <2>6 DEF ConfirmInv, MainRuns
  <1>12. CASE DmaSends
    BY <1>12 DEF DmaSends
  <1>13. CASE DmaSuspends \/ UNCHANGED vars
    <2>1. UNCHANGED <<TxIntEnabled, cntrlInit, TI, scan, ConfirmTxBufIdx>>
      BY <1>13 DEF DmaSuspends, vars, table, status
    <2>2. Sent' = Sent
      BY <1>13 DEF DmaSuspends, vars, table, status, Sent, Used, Initiated
    <2>3. Sent' \subseteq Sent
      BY <2>2
    <2> QED
      BY <1>2, <2>1, <2>3 DEF ConfirmInv
  <1>14. CASE Application
    BY <1>3, <1>4, <1>5, <1>6, <1>14 DEF Application, ConfirmInv
  <1>15. CASE Scan
    BY <1>7, <1>8, <1>9, <1>10, <1>11, <1>15 DEF Scan, ScanStep
  <1>16. CASE Dma
    BY <1>12, <1>13, <1>16 DEF Dma
  <1> QED
    BY <1>13, <1>14, <1>15, <1>16 DEF Next

\* For every ring size and every limit of loops, a sent frame at the head of the
\* ring leaves the interrupt pending when no scan runs.
THEOREM InterruptCorrect == Spec => []NoLostConfirmation
  <1>1. Init => ConfirmInv
    BY DEF Init, ConfirmInv
  <1>2. RingInv /\ ConfirmInv /\ [Next]_vars => ConfirmInv'
    BY ConfirmInvStep
  <1>3. RingInv /\ ConfirmInv => NoLostConfirmation
    BY DEF RingInv, TypeInv, TypeOK, ConfirmInv, NoLostConfirmation, Confirmable, Sent
  <1> QED
    BY <1>1, <1>2, <1>3, RingInvariance, PTL DEF Spec

-----------------------------------------------------------------------------
(* The queue the ring stands for. *)

Phases == {"held", "queued", "sent"}

LEMMA QueueElements ==
  CountInv =>
    /\ QueueLength \in 0 .. EthTxBufTotal
    /\ QueueOf \in Seq(Phases) /\ Len(QueueOf) = QueueLength
    /\ \A j \in 1 .. QueueLength : QueueOf[j] = PhaseOf(Slot(j - 1))
  <1> SUFFICES ASSUME CountInv
               PROVE  /\ QueueLength \in 0 .. EthTxBufTotal
                      /\ QueueOf \in Seq(Phases) /\ Len(QueueOf) = QueueLength
                      /\ \A j \in 1 .. QueueLength : QueueOf[j] = PhaseOf(Slot(j - 1))
    OBVIOUS
  <1>1. QueueLength \in 0 .. EthTxBufTotal /\ QueueLength \in Nat
    BY ConstantFacts DEF QueueLength, CountInv
  <1>2. QueueOf \in [1 .. QueueLength -> Phases]
    BY DEF QueueOf, PhaseOf, Phases
  <1>3. QueueOf \in Seq(Phases) /\ Len(QueueOf) = QueueLength
    BY <1>1, <1>2, FunctionIsSeq
  <1> QED
    BY <1>1, <1>3 DEF QueueOf

LEMMA NextQueueElements ==
  CountInv' =>
    /\ QueueLength' \in 0 .. EthTxBufTotal
    /\ QueueOf' \in Seq(Phases) /\ Len(QueueOf') = QueueLength'
    /\ \A j \in 1 .. QueueLength' : QueueOf'[j] = PhaseOf(Slot(j - 1))'
  <1> SUFFICES ASSUME CountInv'
               PROVE  /\ QueueLength' \in 0 .. EthTxBufTotal
                      /\ QueueOf' \in Seq(Phases) /\ Len(QueueOf') = QueueLength'
                      /\ \A j \in 1 .. QueueLength' :
                           QueueOf'[j] = PhaseOf(Slot(j - 1))'
    OBVIOUS
  <1>1. QueueLength' \in 0 .. EthTxBufTotal /\ QueueLength' \in Nat
    BY ConstantFacts DEF QueueLength, CountInv
  <1>2. QueueOf' \in [1 .. QueueLength' -> Phases]
    BY DEF QueueOf, PhaseOf, Phases
  <1>3. QueueOf' \in Seq(Phases) /\ Len(QueueOf') = QueueLength'
    BY <1>1, <1>2, FunctionIsSeq
  <1> QED
    BY <1>1, <1>3 DEF QueueOf

\* What the ring, its window and the DMA tell of the queue before a step.
LEMMA QueueFacts ==
  ASSUME RingInv, CountInv, cntrlInit
  PROVE  /\ EthTxBufTotal \in Nat \ {0}
         /\ ConfirmTxBufIdx \in Buffers /\ CurrTxIdx \in Buffers
         /\ UsedCount \in 0 .. EthTxBufTotal
         /\ QueueLength = UsedCount
         /\ CurrTxIdx = Slot(UsedCount)
         /\ Slot(0) = ConfirmTxBufIdx
         /\ \A i \in Buffers : /\ Offset(i) \in 0 .. EthTxBufTotal - 1
                               /\ Slot(Offset(i)) = i
                               /\ Used(i) <=> Offset(i) < UsedCount
         /\ \A j \in 0 .. EthTxBufTotal - 1 : Slot(j) \in Buffers /\ Offset(Slot(j)) = j
  <1>1. /\ EthTxBufTotal \in Nat \ {0}
        /\ ConfirmTxBufIdx \in Buffers /\ CurrTxIdx \in Buffers
        /\ UsedCount \in 0 .. EthTxBufTotal
        /\ QueueLength = UsedCount
        /\ CurrTxIdx = Slot(UsedCount)
        /\ \A i \in Buffers : Used(i) <=> Offset(i) < UsedCount
    BY ConstantFacts DEF RingInv, TypeInv, TypeOK, CountInv, QueueLength
  <1>2. \A j \in 0 .. EthTxBufTotal - 1 : Slot(j) \in Buffers
    BY <1>1, SlotValue
  <1>3. Slot(0) = ConfirmTxBufIdx
    BY <1>1, SlotValue DEF Buffers
  <1> QED
    BY <1>1, <1>2, <1>3, SlotOffset

\* A step that leaves the window where it is, and one buffer or none in another
\* phase.
LEMMA PhaseChange ==
  ASSUME RingInv, CountInv, CountInv', cntrlInit, cntrlInit',
         UsedCount' = UsedCount, ConfirmTxBufIdx' = ConfirmTxBufIdx,
         NEW i \in Buffers, Used(i),
         \A k \in Buffers : k /= i => PhaseOf(k)' = PhaseOf(k)
  PROVE  /\ Offset(i) + 1 \in DOMAIN QueueOf
         /\ QueueOf[Offset(i) + 1] = PhaseOf(i)
         /\ QueueOf' = [QueueOf EXCEPT ![Offset(i) + 1] = PhaseOf(i)']
  <1>1. /\ EthTxBufTotal \in Nat /\ UsedCount \in 0 .. EthTxBufTotal
        /\ QueueLength = UsedCount /\ QueueLength' = UsedCount
        /\ Offset(i) \in 0 .. UsedCount - 1 /\ Slot(Offset(i)) = i
        /\ \A j \in 0 .. EthTxBufTotal - 1 : Slot(j) \in Buffers /\ Offset(Slot(j)) = j
    BY QueueFacts DEF QueueLength
  <1>2. \A j \in 0 .. EthTxBufTotal : Slot(j)' = Slot(j)
    BY DEF Slot
  <1>3. /\ QueueOf \in Seq(Phases) /\ Len(QueueOf) = UsedCount
        /\ \A j \in 1 .. UsedCount : QueueOf[j] = PhaseOf(Slot(j - 1))
    BY <1>1, QueueElements
  <1>4. /\ QueueOf' \in Seq(Phases) /\ Len(QueueOf') = UsedCount
        /\ \A j \in 1 .. UsedCount : QueueOf'[j] = PhaseOf(Slot(j - 1))'
    BY <1>1, NextQueueElements
  <1>5. ASSUME NEW j \in 1 .. UsedCount
        PROVE  QueueOf'[j] = IF j = Offset(i) + 1 THEN PhaseOf(i)' ELSE QueueOf[j]
    <2>1. Slot(j - 1)' = Slot(j - 1) /\ Slot(j - 1) \in Buffers /\ Offset(Slot(j - 1)) = j - 1
      BY <1>1, <1>2
    <2>2. CASE j = Offset(i) + 1
      <3>1. Slot(j - 1) = i
        BY <1>1, <2>2
      <3>2. PhaseOf(Slot(j - 1))' = PhaseOf(i)'
        BY <2>1, <3>1
      <3> QED
        BY <1>4, <2>2, <3>2
    <2>3. CASE j /= Offset(i) + 1
      <3>1. Slot(j - 1) /= i
        BY <1>1, <2>1, <2>3
      <3>2. PhaseOf(Slot(j - 1))' = PhaseOf(Slot(j - 1))
        BY <2>1, <3>1
      <3> QED
        BY <1>3, <1>4, <2>3, <3>2
    <2> QED
      BY <2>2, <2>3
  <1>6. Offset(i) + 1 \in 1 .. Len(QueueOf) /\ PhaseOf(i)' \in Phases
    BY <1>1, <1>3 DEF PhaseOf, Phases
  <1>7. QueueOf' = [QueueOf EXCEPT ![Offset(i) + 1] = PhaseOf(i)']
    BY <1>3, <1>4, <1>5, <1>6, ExceptByElements
  <1> QED
    BY <1>1, <1>3, <1>6, <1>7, LenProperties

-----------------------------------------------------------------------------
(* Each kind of ring step, as a step of the queue. *)

LEMMA SameIsStutter ==
  ASSUME RingInv, CountInv, CountInv', cntrlInit, cntrlInit', RingSame
  PROVE  QueueOf' = QueueOf
  <1>1. UsedCount' = UsedCount
    BY CountChanges
  <1>2. /\ EthTxBufTotal \in Nat /\ UsedCount \in 0 .. EthTxBufTotal
        /\ QueueLength = UsedCount /\ QueueLength' = UsedCount
        /\ \A j \in 0 .. EthTxBufTotal - 1 : Slot(j) \in Buffers
    BY <1>1, QueueFacts DEF QueueLength
  <1>3. \A j \in 0 .. EthTxBufTotal : Slot(j)' = Slot(j)
    BY DEF Slot, RingSame
  <1>4. \A i \in Buffers : UsedCount > Offset(i) => PhaseOf(i)' = PhaseOf(i)
    <2>1. \A i \in Buffers : UsedCount > Offset(i) => Used(i) /\ SameBuffer(i)
      BY <1>2, QueueFacts DEF RingSame
    <2> QED
      BY <2>1 DEF SameBuffer, PhaseOf, RingSame
  <1>5. \A j \in 1 .. UsedCount : PhaseOf(Slot(j - 1))' = PhaseOf(Slot(j - 1))
    <2> SUFFICES ASSUME NEW j \in 1 .. UsedCount
                 PROVE  PhaseOf(Slot(j - 1))' = PhaseOf(Slot(j - 1))
      OBVIOUS
    <2>1. Slot(j - 1) \in Buffers /\ Offset(Slot(j - 1)) = j - 1 /\ Slot(j - 1)' = Slot(j - 1)
      BY <1>2, <1>3, QueueFacts
    <2>2. ASSUME NEW i \in Buffers, i = Slot(j - 1), Slot(j - 1)' = i, Offset(i) = j - 1
          PROVE  PhaseOf(Slot(j - 1))' = PhaseOf(Slot(j - 1))
      <3>1. PhaseOf(i)' = PhaseOf(i)
        BY <1>2, <1>4, <2>2
      <3> QED
        BY <2>2, <3>1
    <2> QED
      BY <2>1, <2>2
  <1> QED
    BY <1>2, <1>5, QueueElements, NextQueueElements, SeqEqual

LEMMA ReleaseIsGiveBack ==
  ASSUME RingInv, CountInv, CountInv', cntrlInit, cntrlInit',
         NEW h \in Buffers, RingRelease(h)
  PROVE  Queue!GiveBack
  <1>1. UsedCount' = UsedCount - 1
    BY CountChanges
  <1>2. /\ EthTxBufTotal \in Nat /\ UsedCount \in 1 .. EthTxBufTotal
        /\ QueueLength = UsedCount /\ QueueLength' = UsedCount - 1
        /\ h = ConfirmTxBufIdx /\ Slot(0) = h /\ Offset(h) = 0
        /\ \A j \in 0 .. EthTxBufTotal - 1 : Slot(j) \in Buffers /\ Offset(Slot(j)) = j
    BY <1>1, QueueFacts DEF QueueLength, RingRelease, CountInv
  <1>3. \A j \in 1 .. EthTxBufTotal : Slot(j - 1)' = Slot(j)
    BY <1>2, OffsetShift DEF RingRelease
  <1>4. \A i \in Buffers : i /= h /\ Used(i) => PhaseOf(i)' = PhaseOf(i)
    BY DEF RingRelease, OthersSame, SameBuffer, PhaseOf
  <1>5. ASSUME NEW j \in 1 .. UsedCount - 1
        PROVE  PhaseOf(Slot(j - 1))' = PhaseOf(Slot(j))
    <2>1. Slot(j) \in Buffers /\ Offset(Slot(j)) = j /\ Slot(j - 1)' = Slot(j)
      BY <1>2, <1>3
    <2>2. ASSUME NEW i \in Buffers, i = Slot(j), Slot(j - 1)' = i, Offset(i) = j
          PROVE  PhaseOf(Slot(j - 1))' = PhaseOf(Slot(j))
      <3>1. i /= h /\ Used(i)
        BY <1>2, <2>2, QueueFacts
      <3>2. PhaseOf(i)' = PhaseOf(i)
        BY <1>4, <3>1
      <3> QED
        BY <2>2, <3>2
    <2> QED
      BY <2>1, <2>2
  <1>6. /\ QueueOf \in Seq(Phases) /\ Len(QueueOf) = UsedCount
        /\ \A j \in 1 .. UsedCount : QueueOf[j] = PhaseOf(Slot(j - 1))
    BY <1>2, QueueElements
  <1>7. /\ QueueOf' \in Seq(Phases) /\ Len(QueueOf') = UsedCount - 1
        /\ \A j \in 1 .. UsedCount - 1 : QueueOf'[j] = PhaseOf(Slot(j - 1))'
    BY <1>2, NextQueueElements
  <1>8. QueueOf[1] = "sent"
    BY <1>2, <1>6 DEF RingRelease, PhaseOf
  <1>9. \A j \in 1 .. Len(QueueOf') : QueueOf'[j] = QueueOf[j + 1]
    BY <1>2, <1>5, <1>6, <1>7
  <1>10. QueueOf /= <<>> /\ Head(QueueOf) = QueueOf[1] /\ QueueOf' = Tail(QueueOf)
    BY <1>2, <1>6, <1>7, <1>9, TailByElements
  <1> QED
    BY <1>8, <1>10 DEF Queue!GiveBack

LEMMA GrantIsGrant ==
  ASSUME RingInv, CountInv, CountInv', cntrlInit, cntrlInit',
         NEW c \in Buffers, RingGrant(c)
  PROVE  Queue!Grant
  <1>1. UsedCount' = UsedCount + 1
    BY CountChanges
  <1>2. /\ EthTxBufTotal \in Nat /\ UsedCount \in 0 .. EthTxBufTotal - 1
        /\ QueueLength = UsedCount /\ QueueLength' = UsedCount + 1
        /\ c = Slot(UsedCount)
        /\ \A j \in 0 .. EthTxBufTotal - 1 : Slot(j) \in Buffers /\ Offset(Slot(j)) = j
    <2>1. UsedCount \in 0 .. EthTxBufTotal /\ UsedCount + 1 \in 0 .. EthTxBufTotal
      BY <1>1, QueueFacts DEF CountInv
    <2> QED
      BY <1>1, <2>1, QueueFacts DEF QueueLength, RingGrant
  <1>3. \A j \in 0 .. EthTxBufTotal : Slot(j)' = Slot(j)
    BY DEF RingGrant, Slot
  <1>4. \A i \in Buffers : i /= c /\ Used(i) => PhaseOf(i)' = PhaseOf(i)
    BY DEF RingGrant, OthersSame, SameBuffer, PhaseOf
  <1>5. ASSUME NEW j \in 1 .. UsedCount
        PROVE  PhaseOf(Slot(j - 1))' = PhaseOf(Slot(j - 1))
    <2>1. Slot(j - 1) \in Buffers /\ Offset(Slot(j - 1)) = j - 1 /\ Slot(j - 1)' = Slot(j - 1)
      BY <1>2, <1>3
    <2>2. ASSUME NEW i \in Buffers, i = Slot(j - 1), Slot(j - 1)' = i, Offset(i) = j - 1
          PROVE  PhaseOf(Slot(j - 1))' = PhaseOf(Slot(j - 1))
      <3>1. i /= c /\ Used(i)
        BY <1>2, <2>2, QueueFacts DEF RingGrant
      <3>2. PhaseOf(i)' = PhaseOf(i)
        BY <1>4, <3>1
      <3> QED
        BY <2>2, <3>2
    <2> QED
      BY <2>1, <2>2
  <1>6. ASSUME NEW n \in 0 .. EthTxBufTotal - 1, n = UsedCount
        PROVE  PhaseOf(Slot(n))' = "held"
    <2>1. PhaseOf(c)' = "held"
      BY DEF RingGrant, PhaseOf
    <2>2. Slot(n)' = c
      BY <1>2, <1>3, <1>6
    <2> QED
      BY <2>1, <2>2
  <1>7. /\ QueueOf \in Seq(Phases) /\ Len(QueueOf) = UsedCount
        /\ \A j \in 1 .. UsedCount : QueueOf[j] = PhaseOf(Slot(j - 1))
    BY <1>2, QueueElements
  <1>8. /\ QueueOf' \in Seq(Phases) /\ Len(QueueOf') = UsedCount + 1
        /\ \A j \in 1 .. UsedCount + 1 : QueueOf'[j] = PhaseOf(Slot(j - 1))'
    BY <1>2, NextQueueElements
  <1>9. QueueOf'[UsedCount + 1] = "held"
    <2>1. ASSUME NEW n \in 0 .. EthTxBufTotal - 1, n = UsedCount
          PROVE  QueueOf'[n + 1] = "held"
      <3>1. n + 1 \in 1 .. UsedCount + 1 /\ n + 1 - 1 = n
        BY <1>2, <2>1
      <3>2. QueueOf'[n + 1] = PhaseOf(Slot(n + 1 - 1))'
        BY <1>8, <3>1
      <3> QED
        BY <1>6, <2>1, <3>1, <3>2
    <2> QED
      BY <1>2, <2>1
  <1>10. \A j \in 1 .. UsedCount : QueueOf'[j] = QueueOf[j]
    BY <1>2, <1>5, <1>7, <1>8
  <1>11. QueueOf' = Append(QueueOf, "held")
    BY <1>2, <1>7, <1>8, <1>9, <1>10, AppendByElements DEF Phases
  <1> QED
    BY <1>2, <1>7, <1>11 DEF Queue!Grant

LEMMA RegrantIsGrant ==
  ASSUME RingInv, CountInv, CountInv', cntrlInit, cntrlInit',
         NEW c \in Buffers, RingRegrant(c)
  PROVE  Queue!Grant
  <1>1. UsedCount' = UsedCount
    BY CountChanges
  <1>2. /\ EthTxBufTotal \in Nat \ {0} /\ UsedCount = EthTxBufTotal
        /\ QueueLength = UsedCount /\ QueueLength' = UsedCount
        /\ c = ConfirmTxBufIdx /\ Slot(0) = c /\ Offset(c) = 0
        /\ \A j \in 0 .. EthTxBufTotal - 1 : Slot(j) \in Buffers /\ Offset(Slot(j)) = j
    <2>1. c = ConfirmTxBufIdx /\ Slot(0) = c /\ Used(c) /\ c = Slot(UsedCount)
      BY QueueFacts DEF RingRegrant
    <2>2. Offset(c) = 0
      BY <2>1, QueueFacts
    <2>3. UsedCount \in 1 .. EthTxBufTotal
      BY <2>1, <2>2, QueueFacts
    <2>4. ~(UsedCount < EthTxBufTotal)
      BY <2>1, <2>2, <2>3, QueueFacts
    <2> QED
      BY <1>1, <2>1, <2>2, <2>3, <2>4, QueueFacts DEF QueueLength
  <1>3. \A j \in 1 .. EthTxBufTotal : Slot(j - 1)' = Slot(j)
    BY <1>2, OffsetShift DEF RingRegrant
  <1>4. \A i \in Buffers : i /= c => PhaseOf(i)' = PhaseOf(i)
    BY DEF RingRegrant, OthersSame, SameBuffer, PhaseOf
  <1>5. ASSUME NEW j \in 1 .. EthTxBufTotal - 1
        PROVE  PhaseOf(Slot(j - 1))' = PhaseOf(Slot(j))
    <2>1. Slot(j) \in Buffers /\ Offset(Slot(j)) = j /\ Slot(j - 1)' = Slot(j)
      BY <1>2, <1>3
    <2>2. ASSUME NEW i \in Buffers, i = Slot(j), Slot(j - 1)' = i, Offset(i) = j
          PROVE  PhaseOf(Slot(j - 1))' = PhaseOf(Slot(j))
      <3>1. i /= c
        BY <1>2, <2>2
      <3>2. PhaseOf(i)' = PhaseOf(i)
        BY <1>4, <3>1
      <3> QED
        BY <2>2, <3>2
    <2> QED
      BY <2>1, <2>2
  <1>6. PhaseOf(Slot(EthTxBufTotal - 1))' = "held"
    <2>1. PhaseOf(c)' = "held"
      BY DEF RingRegrant, PhaseOf
    <2>2. Slot(EthTxBufTotal - 1)' = Slot(EthTxBufTotal)
      BY <1>2, <1>3
    <2>3. Slot(EthTxBufTotal) = c
      BY <1>2, QueueFacts DEF RingRegrant
    <2> QED
      BY <2>1, <2>2, <2>3
  <1>7. /\ QueueOf \in Seq(Phases) /\ Len(QueueOf) = EthTxBufTotal
        /\ \A j \in 1 .. EthTxBufTotal : QueueOf[j] = PhaseOf(Slot(j - 1))
    BY <1>2, QueueElements
  <1>8. /\ QueueOf' \in Seq(Phases) /\ Len(QueueOf') = EthTxBufTotal
        /\ \A j \in 1 .. EthTxBufTotal : QueueOf'[j] = PhaseOf(Slot(j - 1))'
    BY <1>2, NextQueueElements
  <1>9. QueueOf[1] = "sent" /\ QueueOf /= <<>>
    BY <1>2, <1>7 DEF RingRegrant, PhaseOf
  <1>10. /\ Tail(QueueOf) \in Seq(Phases) /\ Len(Tail(QueueOf)) = EthTxBufTotal - 1
         /\ \A j \in 1 .. EthTxBufTotal - 1 : Tail(QueueOf)[j] = QueueOf[j + 1]
    BY <1>7, <1>9, HeadTailProperties
  <1>11. \A j \in 1 .. EthTxBufTotal - 1 : QueueOf'[j] = Tail(QueueOf)[j]
    BY <1>2, <1>5, <1>7, <1>8, <1>10
  <1>12. QueueOf'[EthTxBufTotal] = "held"
    BY <1>2, <1>6, <1>8
  <1>13. QueueOf' = Append(Tail(QueueOf), "held")
    BY <1>2, <1>8, <1>10, <1>11, <1>12, AppendByElements DEF Phases
  <1>14. Head(QueueOf) = "sent"
    BY <1>9
  <1> QED
    BY <1>7, <1>13, <1>14 DEF Queue!Grant

LEMMA TransmitIsHandOver ==
  ASSUME RingInv, CountInv, CountInv', cntrlInit, cntrlInit',
         NEW i \in Buffers, RingTransmit(i)
  PROVE  \E j \in DOMAIN QueueOf : Queue!HandOver(j)
  <1>1. UsedCount' = UsedCount /\ own \in [Buffers -> BOOLEAN]
    BY CountChanges DEF RingInv, TypeInv, TypeOK
  <1>2. /\ PhaseOf(i) = "held" /\ PhaseOf(i)' = "queued"
        /\ \A k \in Buffers : k /= i => PhaseOf(k)' = PhaseOf(k)
    <2>1. /\ ~Initiated(i) /\ Initiated(i)' /\ own'[i]
          /\ \A k \in Buffers : k /= i => own'[k] = own[k] /\ SameBuffer(k)
      BY <1>1 DEF RingTransmit, OthersSame
    <2> QED
      BY <2>1 DEF SameBuffer, PhaseOf
  <1>3. ConfirmTxBufIdx' = ConfirmTxBufIdx /\ Used(i)
    BY DEF RingTransmit
  <1>4. /\ Offset(i) + 1 \in DOMAIN QueueOf
        /\ QueueOf[Offset(i) + 1] = "held"
        /\ QueueOf' = [QueueOf EXCEPT ![Offset(i) + 1] = "queued"]
    BY <1>1, <1>2, <1>3, PhaseChange
  <1> QED
    BY <1>4 DEF Queue!HandOver

LEMMA SendIsSend ==
  ASSUME RingInv, CountInv, CountInv', DmaInv, DmaOwnsOnlyInitiated,
         cntrlInit, cntrlInit', NEW d \in Buffers, RingSend(d)
  PROVE  \E j \in DOMAIN QueueOf : Queue!Send(j)
  <1>1. UsedCount' = UsedCount /\ own \in [Buffers -> BOOLEAN]
    BY CountChanges DEF RingInv, TypeInv, TypeOK
  <1>2. PICK k \in 0 .. UsedCount : DmaAt(k)
    BY DEF DmaInv
  <1>3. /\ EthTxBufTotal \in Nat /\ UsedCount \in 0 .. EthTxBufTotal
        /\ QueueLength = UsedCount
        /\ d = Slot(k) /\ Used(d) /\ own[d] /\ Offset(d) \in 0 .. UsedCount - 1
        /\ \A j \in 0 .. EthTxBufTotal - 1 : Slot(j) \in Buffers /\ Offset(Slot(j)) = j
    BY <1>2, QueueFacts DEF DmaOwnsOnlyInitiated, DmaAt, RingSend
  <1>4. Offset(d) = k /\ Initiated(d)
    <2>1. ~(Offset(d) < k) /\ Initiated(d)
      BY <1>2, <1>3 DEF DmaAt
    <2> QED
      BY <1>2, <1>3, <2>1
  <1>5. /\ PhaseOf(d) = "queued" /\ PhaseOf(d)' = "sent"
        /\ \A i \in Buffers : i /= d => PhaseOf(i)' = PhaseOf(i)
    <2>1. /\ Initiated(d)' /\ ~own'[d]
          /\ \A i \in Buffers : i /= d => own'[i] = own[i] /\ SameBuffer(i)
      BY <1>1, <1>4 DEF RingSend, SameBuffer
    <2> QED
      BY <1>3, <1>4, <2>1 DEF SameBuffer, PhaseOf
  <1>6. ConfirmTxBufIdx' = ConfirmTxBufIdx
    BY DEF RingSend
  <1>7. /\ k + 1 \in DOMAIN QueueOf
        /\ QueueOf[k + 1] = "queued"
        /\ QueueOf' = [QueueOf EXCEPT ![k + 1] = "sent"]
    BY <1>1, <1>3, <1>4, <1>5, <1>6, PhaseChange
  <1>8. ASSUME NEW older \in 1 .. k + 1 - 1
        PROVE  QueueOf[older] = "sent"
    <2>1. /\ Slot(older - 1) \in Buffers /\ Offset(Slot(older - 1)) = older - 1
          /\ older - 1 < k /\ older - 1 < UsedCount /\ older \in 1 .. UsedCount
      BY <1>2, <1>3
    <2>2. Initiated(Slot(older - 1)) /\ ~own[Slot(older - 1)]
      BY <1>2, <2>1 DEF DmaAt
    <2> QED
      BY <1>3, <2>1, <2>2, QueueElements DEF PhaseOf
  <1>9. \A older \in 1 .. k + 1 - 1 : QueueOf[older] = "sent"
    BY <1>8
  <1>10. Queue!Send(k + 1)
    BY <1>7, <1>9 DEF Queue!Send
  <1> QED
    BY <1>7, <1>10

LEMMA NothingUsedIsRestart ==
  ASSUME CountInv', ~cntrlInit' \/ RingReset
  PROVE  Queue!Restart
  <1>1. QueueLength' = 0
    <2>1. CASE RingReset
      <3>1. UsedBuffers' = {}
        BY <2>1 DEF RingReset, UsedBuffers
      <3>2. UsedCount' = 0
        BY <3>1, FS_EmptySet DEF UsedCount
      <3> QED
        BY <3>2 DEF QueueLength
    <2> QED
      BY <2>1 DEF QueueLength
  <1>2. QueueOf' \in Seq(Phases) /\ Len(QueueOf') = 0
    BY <1>1, NextQueueElements
  <1>3. QueueOf' = <<>>
    BY <1>2, EmptySeq
  <1> QED
    BY <1>3 DEF Queue!Restart

-----------------------------------------------------------------------------
\* For every ring size, both modes and every interleaving of the application,
\* the scan and the DMA, the driver is the bounded queue its callers rely on,
\* provided the controller is never stopped while descriptors belong to the DMA.
THEOREM QueueCorrect ==
  ASSUME StopsWhilePending = FALSE
  PROVE  Spec => ImplementsQueue
  <1>1. Init => Queue!Init
    <2> SUFFICES ASSUME Init PROVE QueueOf = <<>>
      BY DEF Queue!Init
    <2>1. QueueLength = 0
      BY DEF Init, QueueLength
    <2>2. CountInv
      BY DEF Init, CountInv
    <2>3. QueueOf \in Seq(Phases) /\ Len(QueueOf) = 0
      BY <2>1, <2>2, QueueElements
    <2> QED
      BY <2>3, EmptySeq
  <1>2. RingInv /\ CountInv /\ CountInv' /\ DmaInv /\ DmaOwnsOnlyInitiated
          /\ [Next]_vars => [Queue!Next]_QueueOf
    <2> SUFFICES ASSUME RingInv, CountInv, CountInv', DmaInv, DmaOwnsOnlyInitiated,
                        [Next]_vars
                 PROVE  Queue!Next \/ QueueOf' = QueueOf
      OBVIOUS
    <2>1. CASE ~cntrlInit' \/ RingReset
      BY <2>1, NothingUsedIsRestart DEF Queue!Next
    <2>2. CASE cntrlInit /\ cntrlInit' /\ RingStep
      <3>1. CASE RingSame
        BY <2>2, <3>1, SameIsStutter
      <3>2. ASSUME NEW i \in Buffers, RingRelease(i) PROVE Queue!Next
        BY <2>2, <3>2, ReleaseIsGiveBack DEF Queue!Next
      <3>3. ASSUME NEW i \in Buffers, RingGrant(i) \/ RingRegrant(i) PROVE Queue!Next
        BY <2>2, <3>3, GrantIsGrant, RegrantIsGrant DEF Queue!Next
      <3>4. ASSUME NEW i \in Buffers, RingTransmit(i) PROVE Queue!Next
        BY <2>2, <3>4, TransmitIsHandOver DEF Queue!Next
      <3>5. ASSUME NEW i \in Buffers, RingSend(i) PROVE Queue!Next
        BY <2>2, <3>5, SendIsSend DEF Queue!Next
      <3> QED
        BY <2>2, <3>1, <3>2, <3>3, <3>4, <3>5 DEF RingStep
    <2> QED
      BY <2>1, <2>2, StepKinds
  <1>3. Spec => []DmaOwnsOnlyInitiated
    BY DmaOwnershipCorrect
  <1> QED
    BY <1>1, <1>2, <1>3, RingInvariance, CountInvariance, DmaInvariance, PTL
    DEF Spec, ImplementsQueue, Queue!Spec

-----------------------------------------------------------------------------
\* The interface over the driver: low_level_output.

Held(i) == Used(i) /\ ~Initiated(i)

\* Between the grant and Eth_Transmit the buffer is held with the length that
\* was asked for, and the controller that granted it is still running: nothing
\* stops it after lwIP is entered.
OutputRecord ==
  [pc : {"idle", "filled", "transmitted", "confirming"}, bufferIdx : Int, length : Int]

HeldInv ==
  /\ out \in OutputRecord
  /\ txBuffTable \in [Buffers -> BufferRecord]
  /\ CurrTxIdx \in Buffers /\ ConfirmTxBufIdx \in Buffers
  /\ coreInit /\ (cntrlInit <=> hwActive)
  /\ out.pc = "filled" =>
       /\ out.bufferIdx \in Buffers /\ Held(out.bufferIdx)
       /\ out.length \in FrameLengths
       /\ txBuffTable[out.bufferIdx].BuffLengthReqstd = out.length
       /\ cntrlInit
  /\ OnlyTheFilledBufferIsHeld

LEMMA RingIndex ==
  /\ 0 \in Buffers
  /\ \A i \in Buffers : lIncrTxBufIdx(i) \in Buffers
  <1>1. EthTxBufTotal \in Nat \ {0}
    BY TxConstants
  <1>2. ASSUME NEW i \in Buffers PROVE lIncrTxBufIdx(i) \in Buffers
    <2>1. i + 1 \in Nat
      BY <1>1 DEF Buffers
    <2>2. (i + 1) % EthTxBufTotal \in 0 .. EthTxBufTotal - 1
      BY <1>1, <2>1
    <2> QED
      BY <2>2 DEF lIncrTxBufIdx, Buffers
  <1>3. 0 \in Buffers
    BY <1>1 DEF Buffers
  <1> QED
    BY <1>2, <1>3

\* What the implicit release leaves of the ring.
LEMMA ReleaseKeepsOthers ==
  ASSUME HeldInv
  PROVE  /\ ImplicitRelease \in [Buffers -> BufferRecord]
         /\ ImplicitConfirm \in Buffers
         /\ \A i \in Buffers : i /= CurrTxIdx => ImplicitRelease[i] = txBuffTable[i]
         /\ \/ ImplicitRelease[CurrTxIdx] = txBuffTable[CurrTxIdx]
            \/ ImplicitRelease[CurrTxIdx].BuffStatus = "NOTUSED"
  BY RingIndex DEF HeldInv, ImplicitRelease, ImplicitConfirm, BufferRecord

LEMMA StartKeepsHeld ==
  ASSUME HeldInv, NEW len \in FrameLengths, OutputStart(len)
  PROVE  HeldInv'
  <1>1. /\ out.pc = "idle" /\ len \in Nat
        /\ txBuffTable \in [Buffers -> BufferRecord]
        /\ CurrTxIdx \in Buffers
        /\ \A i \in Buffers : ~Held(i)
    BY NetifConstants DEF OutputStart, HeldInv, OnlyTheFilledBufferIsHeld, Held, HeaderLength, Mtu
  <1>2. CASE OutputFill(len)
    <2>1. /\ txBuffTable' = [ImplicitRelease EXCEPT ![CurrTxIdx] = GrantedRecord(len)]
          /\ ConfirmTxBufIdx' = ImplicitConfirm
          /\ CurrTxIdx' = lIncrTxBufIdx(CurrTxIdx)
          /\ UNCHANGED <<coreInit, cntrlInit, hwActive>>
          /\ cntrlInit
          /\ out' = [pc |-> "filled", bufferIdx |-> CurrTxIdx, length |-> len]
      BY <1>2 DEF OutputFill, ProvideGrant, status, dma, DriverReady, lDetCheckNoInit
    <2>2. GrantedRecord(len) \in BufferRecord
      BY <1>1 DEF GrantedRecord, BufferRecord
    <2>3. /\ txBuffTable' \in [Buffers -> BufferRecord]
          /\ txBuffTable'[CurrTxIdx] = GrantedRecord(len)
          /\ \A i \in Buffers : i /= CurrTxIdx => txBuffTable'[i] = txBuffTable[i]
      BY <1>1, <2>1, <2>2, ReleaseKeepsOthers
    <2>4. ASSUME NEW i \in Buffers, Held(i)' PROVE i = CurrTxIdx
      BY <1>1, <2>3, <2>4 DEF Held, Used, Initiated
    <2>6. OnlyTheFilledBufferIsHeld'
      BY <2>1, <2>4 DEF OnlyTheFilledBufferIsHeld, Held
    <2>7. /\ out'.bufferIdx \in Buffers
          /\ txBuffTable'[out'.bufferIdx].BuffStatus = "USED"
          /\ ~txBuffTable'[out'.bufferIdx].FrameTxInitiated
          /\ txBuffTable'[out'.bufferIdx].BuffLengthReqstd = out'.length
          /\ out'.length \in FrameLengths
      BY <1>1, <2>1, <2>3 DEF GrantedRecord
    <2>8. CurrTxIdx' \in Buffers /\ ConfirmTxBufIdx' \in Buffers
      BY <1>1, <2>1, RingIndex, ReleaseKeepsOthers
    <2>9. coreInit' /\ cntrlInit' /\ (cntrlInit' <=> hwActive')
      BY <2>1 DEF HeldInv
    <2>10. out' \in OutputRecord
      BY <1>1, <2>1 DEF OutputRecord, Buffers
    <2> QED
      BY <2>3, <2>6, <2>7, <2>8, <2>9, <2>10 DEF HeldInv, Held, Used, Initiated
  <1>3. CASE UNCHANGED vars /\ UNCHANGED out
    BY <1>3 DEF vars, table, status, dma, HeldInv, OnlyTheFilledBufferIsHeld, Held,
       Used, Initiated
  <1>4. CASE ProvideOverflow(len) /\ UNCHANGED out
    <2>1. /\ txBuffTable' = ImplicitRelease /\ ConfirmTxBufIdx' = ImplicitConfirm
          /\ UNCHANGED <<CurrTxIdx, coreInit, cntrlInit, hwActive, out>>
      BY <1>4 DEF ProvideOverflow, status, dma
    <2>2. \A i \in Buffers : ~Held(i)'
      BY <1>1, <2>1, ReleaseKeepsOthers DEF Held, Used, Initiated
    <2> QED
      BY <1>1, <2>1, <2>2, ReleaseKeepsOthers DEF HeldInv, OnlyTheFilledBufferIsHeld, Held
  <1> QED
    BY <1>2, <1>3, <1>4 DEF OutputStart, OutputRefused

\* A held buffer has room for the payload of its frame: Eth_Transmit accepts it.
LEMMA HeldIsAccepted ==
  ASSUME HeldInv, out.pc = "filled"
  PROVE  TransmitAccepted(out.bufferIdx, out.length - HeaderLength)
  <1>1. out.length \in FrameLengths
    BY DEF HeldInv
  <1>2. \A len \in FrameLengths : len \in Nat
    BY NetifConstants DEF HeaderLength, Mtu
  <1> QED
    BY <1>1, <1>2 DEF HeldInv, Held, TransmitAccepted, DriverReady, lDetCheckNoInitStage1,
       lDetCheckNoInit, lDetCheckMode, HeaderLength

LEMMA HeldInvStep ==
  ASSUME HeldInv, [NetifNext]_netifVars
  PROVE  HeldInv'
  <1>1. CASE \E len \in FrameLengths : OutputStart(len)
    BY <1>1, StartKeepsHeld
  <1>2. CASE OutputTransmit
    <2>1. /\ out.pc = "filled" /\ out' = [out EXCEPT !.pc = "transmitted"]
          /\ lTransmit(out.bufferIdx, TRUE)
      BY <1>2, HeldIsAccepted DEF OutputTransmit
    <2>2. /\ txBuffTable' = [txBuffTable EXCEPT ![out.bufferIdx].TxConfirmReq = TRUE,
                                                ![out.bufferIdx].FrameTxInitiated = TRUE]
          /\ UNCHANGED <<CurrTxIdx, ConfirmTxBufIdx, coreInit, cntrlInit, hwActive>>
      BY <2>1 DEF lTransmit, status
    <2>3. /\ txBuffTable' \in [Buffers -> BufferRecord]
          /\ txBuffTable'[out.bufferIdx].FrameTxInitiated
          /\ \A i \in Buffers : i /= out.bufferIdx => txBuffTable'[i] = txBuffTable[i]
      <3> DEFINE i0 == out.bufferIdx
                 held == txBuffTable[i0]
                 sent == [held EXCEPT !.TxConfirmReq = TRUE, !.FrameTxInitiated = TRUE]
      <3>1. txBuffTable \in [Buffers -> BufferRecord] /\ i0 \in Buffers
        BY <2>1 DEF HeldInv
      <3>2. held \in BufferRecord
        BY <3>1
      <3>3. txBuffTable' = [txBuffTable EXCEPT ![i0] = sent]
        BY <2>2, <3>1
      <3> HIDE DEF held
      <3>4. sent \in BufferRecord /\ sent.FrameTxInitiated
        BY <3>2 DEF BufferRecord
      <3> HIDE DEF sent
      <3> QED
        BY <3>1, <3>3, <3>4
    <2>4. \A i \in Buffers : ~Held(i)'
      BY <2>1, <2>3 DEF HeldInv, OnlyTheFilledBufferIsHeld, Held, Used, Initiated
    <2>5. out'.pc = "transmitted" /\ out' \in OutputRecord
      BY <2>1 DEF HeldInv, OutputRecord
    <2> QED
      BY <2>2, <2>3, <2>4, <2>5 DEF HeldInv, OnlyTheFilledBufferIsHeld, Held
  <1>3. CASE /\ UNCHANGED <<txBuffTable, CurrTxIdx, ConfirmTxBufIdx, coreInit, cntrlInit, hwActive>>
             /\ out' \in OutputRecord
             /\ out' = out \/ (out.pc /= "filled" /\ out'.pc /= "filled")
    BY <1>3 DEF HeldInv, OnlyTheFilledBufferIsHeld, Held, Used, Initiated
  <1>4. CASE out.pc = "confirming" /\ UNCHANGED out /\ ReleaseConfirmed
    <2>1. /\ txBuffTable' = [txBuffTable EXCEPT ![ConfirmTxBufIdx] = Released(@)]
          /\ ConfirmTxBufIdx' = lIncrTxBufIdx(ConfirmTxBufIdx)
          /\ UNCHANGED <<CurrTxIdx, coreInit, cntrlInit, hwActive>>
      BY <1>4 DEF ReleaseConfirmed, status, dma
    <2>2. /\ Released(txBuffTable[ConfirmTxBufIdx]) \in BufferRecord
          /\ Released(txBuffTable[ConfirmTxBufIdx]).BuffStatus = "NOTUSED"
      BY DEF HeldInv, Released, BufferRecord
    <2>3. /\ txBuffTable' \in [Buffers -> BufferRecord]
          /\ \A i \in Buffers : txBuffTable'[i] = txBuffTable[i]
                                \/ txBuffTable'[i].BuffStatus = "NOTUSED"
      BY <2>1, <2>2 DEF HeldInv
    <2>4. \A i \in Buffers : ~Held(i)'
      BY <1>4, <2>3 DEF HeldInv, OnlyTheFilledBufferIsHeld, Held, Used, Initiated
    <2> QED
      BY <1>4, <2>1, <2>3, <2>4, RingIndex DEF HeldInv, OnlyTheFilledBufferIsHeld, Held
  <1>5. CASE OutputConfirm
    <2> USE DEF OutputRecord
    <2>1. CASE out.pc = "transmitted" /\ TxConfirmation /\ out' = [out EXCEPT !.pc = "confirming"]
      <3>1. out' \in OutputRecord /\ out'.pc = "confirming"
        BY <2>1 DEF HeldInv
      <3> QED
        BY <1>3, <2>1, <3>1 DEF TxConfirmation, table, status, dma
    <2>2. CASE out.pc = "confirming" /\ TxConfirmationReturns /\ out' = Idle
      BY <1>3, <2>2 DEF TxConfirmationReturns, table, status, dma, Idle
    <2>3. CASE out.pc = "confirming" /\ ScanStep /\ UNCHANGED out
      BY <1>3, <1>4, <2>3 DEF HeldInv, ScanStep, ConfirmCallback, CallbackReturns, ConfirmSilently,
         table, status, dma
    <2> QED
      BY <1>5, <2>1, <2>2, <2>3 DEF OutputConfirm
  <1>6. CASE (Dma /\ UNCHANGED out) \/ UNCHANGED netifVars
    BY <1>3, <1>6 DEF HeldInv, Dma, DmaSends, DmaSuspends, netifVars, vars, table, status, dma
  <1> QED
    BY <1>1, <1>2, <1>5, <1>6 DEF NetifNext

LEMMA HeldInvariance == NetifSpec => []HeldInv
  <1>1. NetifInit => HeldInv
    <2> SUFFICES ASSUME NetifInit PROVE HeldInv
      OBVIOUS
    <2>1. /\ txBuffTable \in [Buffers -> BufferRecord]
          /\ \A i \in Buffers : ~Used(i)
      BY DEF NetifInit, FreshRing, BufferRecord, Used
    <2> QED
      BY <2>1, RingIndex DEF NetifInit, FreshRing, HeldInv, OnlyTheFilledBufferIsHeld, Idle,
         OutputRecord
  <1> QED
    BY <1>1, HeldInvStep, PTL DEF NetifSpec

\* For every ring, no buffer leaks: the one being filled is the only one held.
THEOREM HeldCorrect == NetifSpec => []OnlyTheFilledBufferIsHeld
  <1>1. HeldInv => OnlyTheFilledBufferIsHeld
    BY DEF HeldInv
  <1> QED
    BY <1>1, HeldInvariance, PTL

\* For every ring, buffer size and frame: Eth_Transmit never refuses the buffer
\* low_level_output has filled.
THEOREM TransmitCorrect == NetifSpec => GrantedFramesAreTransmitted
  <1>1. HeldInv /\ [NetifNext]_netifVars =>
          [~(out.pc = "filled" /\ out'.pc = "idle")]_netifVars
    <2> SUFFICES ASSUME HeldInv, NetifNext, out.pc = "filled"
                 PROVE  out'.pc /= "idle"
      OBVIOUS
    <2>1. CASE OutputTransmit
      <3>1. out' = [out EXCEPT !.pc = "transmitted"]
        BY <2>1, HeldIsAccepted DEF OutputTransmit
      <3>2. out'.pc = "transmitted"
        BY <3>1 DEF HeldInv, OutputRecord
      <3> QED
        BY <3>2
    <2> QED
      BY <2>1 DEF NetifNext, OutputStart, OutputConfirm
  <1> QED
    BY <1>1, HeldInvariance, PTL DEF NetifSpec, GrantedFramesAreTransmitted
=============================================================================
