-------------------------------- MODULE EthTx --------------------------------
(***************************************************************************)
(* The transmit half of the Ethernet driver Eth_17_GEthMac and the DMA     *)
(* channel it shares its descriptor ring with.                             *)
(*                                                                         *)
(* The driver hands the buffers of the ring out at CurrTxIdx, the          *)
(* application fills them and passes them on with Transmit, the DMA sends  *)
(* them and clears the OWN bit of their descriptors, and the confirmation  *)
(* scan takes them back at ConfirmTxBufIdx.  The scan runs in the caller   *)
(* of TxConfirmation when the driver is polled and in the Tx interrupt     *)
(* otherwise; its callback EthIf_TxConfirmation may enter the driver again.*)
(***************************************************************************)
EXTENDS Integers, FiniteSets, Sequences

CONSTANTS
  EthTxBufTotal,    \* number of Tx buffers and descriptors of the ring
  PayloadLimit,     \* EthCtrlTxBufLenByte minus header and checksum
  Lengths,          \* payload lengths the application asks for
  MaxLoopCnt,       \* ETH_17_GETHMAC_TXRX_INT_PENDG_MAXLOOPCNT
  StopsWhilePending \* TRUE: the application may stop or re-initialise the
                    \* driver while descriptors still belong to the DMA

ASSUME TxConstants ==
  /\ EthTxBufTotal \in Nat \ {0}
  /\ PayloadLimit \in Int
  /\ Lengths \subseteq Nat
  /\ MaxLoopCnt \in Nat
  /\ StopsWhilePending \in BOOLEAN

Buffers == 0 .. EthTxBufTotal - 1

VARIABLES
  TxIntEnabled,      \* configured mode: TRUE interrupt, FALSE polling
  txBuffTable,       \* EthTxBuffTablePtr[]
  own,               \* OWN bit (TDES3) of each Tx descriptor
  CurrTxIdx,         \* next buffer to hand out
  ConfirmTxBufIdx,   \* next buffer to take back
  coreInit,          \* *Eth_17_GEthMac_CoreInitStatus = CORE_INIT
  cntrlInit,         \* CntrlConfigStatus = CNTRL_INITIALIZED
  hwActive,          \* MAC and both DMA engines started (what lGetMode reads)
  dmaIdx,            \* descriptor the Tx DMA looks at next
  dmaSuspended,      \* the Tx DMA waits for a tail pointer write
  TI,                \* DMA_CH[0].STATUS.TI
  scan               \* where lConfirmTxFrames stands

table  == <<txBuffTable, CurrTxIdx, ConfirmTxBufIdx>>
status == <<TxIntEnabled, coreInit, cntrlInit>>
dma    == <<hwActive, dmaIdx, dmaSuspended>>
vars   == <<table, own, status, dma, TI, scan>>

BufferRecord ==
  [BuffStatus : {"USED", "NOTUSED"}, FrameTxInitiated : BOOLEAN,
   TxConfirmReq : BOOLEAN, BuffLengthReqstd : Nat]

ScanRecord ==
  [at : {"idle", "test", "callback"}, Count : 0 .. EthTxBufTotal,
   MaxLoops : 0 .. MaxLoopCnt]

TypeOK ==
  /\ txBuffTable \in [Buffers -> BufferRecord]
  /\ own \in [Buffers -> BOOLEAN]
  /\ CurrTxIdx \in Buffers
  /\ ConfirmTxBufIdx \in Buffers
  /\ TxIntEnabled \in BOOLEAN
  /\ coreInit \in BOOLEAN
  /\ cntrlInit \in BOOLEAN
  /\ hwActive \in BOOLEAN
  /\ dmaIdx \in Buffers
  /\ dmaSuspended \in BOOLEAN
  /\ TI \in BOOLEAN
  /\ scan \in ScanRecord

-----------------------------------------------------------------------------
(* Helpers of the driver. *)

\* Mutants of the increment: the index never wraps; it wraps one too early.
lIncrTxBufIdx_NoWrap(i) == i + 1
lIncrTxBufIdx_WrapsEarly(i) == IF i + 1 >= EthTxBufTotal - 1 THEN 0 ELSE i + 1

lIncrTxBufIdx(i) == (i + 1) % EthTxBufTotal

Used(i)      == txBuffTable[i].BuffStatus = "USED"
Initiated(i) == txBuffTable[i].FrameTxInitiated

\* What lDmaTxDescriptorInit and the confirmation scan leave in the table.
Released(rec) ==
  [rec EXCEPT !.BuffStatus = "NOTUSED", !.FrameTxInitiated = FALSE,
              !.TxConfirmReq = FALSE]

\* DET checks common to the Tx services (stage 1, then controller).
lDetCheckNoInitStage1 == coreInit
lDetCheckNoInit       == cntrlInit
DriverReady           == lDetCheckNoInitStage1 /\ lDetCheckNoInit

\* Transmit and TxConfirmation also ask the hardware for its mode.
lDetCheckMode == hwActive

\* A context that may call the driver: the main program while no scan keeps
\* the core busy, or the callback the scan is waiting for.
MainRuns    == scan.at = "idle"
InCallback  == scan.at = "callback"
CallerRuns  == MainRuns \/ InCallback

-----------------------------------------------------------------------------
(* Power-on and Eth_17_GEthMac_Init. *)

IdleScan == [at |-> "idle", Count |-> 0, MaxLoops |-> 0]

FreshRing ==
  /\ txBuffTable = [i \in Buffers |->
       [BuffStatus |-> "NOTUSED", FrameTxInitiated |-> FALSE,
        TxConfirmReq |-> FALSE, BuffLengthReqstd |-> 0]]
  /\ own = [i \in Buffers |-> FALSE]
  /\ CurrTxIdx = 0 /\ ConfirmTxBufIdx = 0
  /\ dmaIdx = 0 /\ dmaSuspended = TRUE
  /\ TI = FALSE
  /\ scan = IdleScan

\* The mode is fixed when the driver is built: no action changes it.
Init ==
  /\ FreshRing
  /\ TxIntEnabled \in BOOLEAN
  /\ coreInit = FALSE /\ cntrlInit = FALSE /\ hwActive = FALSE

\* The restriction StopsWhilePending = FALSE puts on the application.
MayStop == StopsWhilePending \/ \A i \in Buffers : ~own[i]

lInitGlobalVar ==
  /\ CurrTxIdx' = 0
  /\ ConfirmTxBufIdx' = 0
  /\ cntrlInit' = FALSE

\* Init may be called again; the module clock either comes on or does not.
EthInit ==
  /\ MainRuns /\ MayStop
  /\ lInitGlobalVar
  /\ coreInit' \in BOOLEAN
  /\ UNCHANGED <<TxIntEnabled, txBuffTable, own, dma, TI, scan>>

-----------------------------------------------------------------------------
(* Eth_17_GEthMac_SetControllerMode. *)

\* Every buffer is marked free and both indices restart, as does the DMA's
\* descriptor pointer; tail = list address, so the DMA has nothing to fetch.
\* TDES3, the word with the OWN bit, is not written.
lDmaTxDescriptorInit ==
  /\ txBuffTable' = [i \in Buffers |-> Released(txBuffTable[i])]
  /\ CurrTxIdx' = 0
  /\ ConfirmTxBufIdx' = 0
  /\ dmaIdx' = 0
  /\ dmaSuspended' = TRUE
  /\ own' = own

lDisableGethInterrupt == TI' = FALSE

\* First step: the interrupts are masked and the kernel reset may time out.
\* A reset that worked stops the hardware; then the DMA reset may fail.
InitControllerFails ==
  /\ ~cntrlInit
  /\ lDisableGethInterrupt
  /\ \/ UNCHANGED dma
     \/ hwActive' = FALSE /\ dmaIdx' = 0 /\ dmaSuspended' = TRUE
  /\ UNCHANGED <<table, own, cntrlInit>>

\* lGethCoreInit prepared the ring, but the timer initialisation failed.
CoreInitTimerFails ==
  /\ ~cntrlInit
  /\ lDisableGethInterrupt
  /\ lDmaTxDescriptorInit
  /\ hwActive' = FALSE
  /\ UNCHANGED cntrlInit

lStartTxRx == hwActive' = TRUE
lStopTxRx  == hwActive' = FALSE

\* From DOWN (or from a controller just initialised) to ACTIVE.
SetModeActive ==
  /\ ~cntrlInit \/ ~hwActive
  /\ cntrlInit' = TRUE
  /\ lDisableGethInterrupt
  /\ lDmaTxDescriptorInit
  /\ lStartTxRx

SetModeDown ==
  /\ cntrlInit' = TRUE
  /\ lStopTxRx
  /\ lDisableGethInterrupt
  /\ lDmaTxDescriptorInit

\* ACTIVE when already ACTIVE, or a disabled module clock, changes nothing.
SetControllerMode ==
  /\ MainRuns /\ MayStop
  /\ lDetCheckNoInitStage1
  /\ InitControllerFails \/ CoreInitTimerFails \/ SetModeActive \/ SetModeDown
  /\ UNCHANGED <<TxIntEnabled, coreInit, scan>>

-----------------------------------------------------------------------------
(* Eth_17_GEthMac_ProvideTxBuffer, one critical section. *)

\* Mutant: a requested confirmation does not keep the buffer.
ImplicitlyDone_AnyRequest ==
  Used(CurrTxIdx) /\ Initiated(CurrTxIdx) /\ ~own[CurrTxIdx]

\* The buffer at CurrTxIdx was sent and nobody wants a confirmation for it.
ImplicitlyDone ==
  /\ Used(CurrTxIdx) /\ Initiated(CurrTxIdx)
  /\ ~txBuffTable[CurrTxIdx].TxConfirmReq
  /\ ~own[CurrTxIdx]

ImplicitRelease ==
  IF ImplicitlyDone
  THEN [txBuffTable EXCEPT ![CurrTxIdx].FrameTxInitiated = FALSE,
                           ![CurrTxIdx].BuffStatus = "NOTUSED"]
  ELSE txBuffTable

\* Mutant: the implicit release forgets the confirmation index.
ImplicitConfirm_Stale == ConfirmTxBufIdx

ImplicitConfirm ==
  IF ImplicitlyDone /\ ConfirmTxBufIdx = CurrTxIdx
  THEN lIncrTxBufIdx(ConfirmTxBufIdx)
  ELSE ConfirmTxBufIdx

TooLong(len) == PayloadLimit <= 0 \/ len > PayloadLimit

\* Mutant: the granted length is not stored.
GrantedRecord_NoLength(len) ==
  [BuffStatus |-> "USED", FrameTxInitiated |-> FALSE,
   TxConfirmReq |-> FALSE, BuffLengthReqstd |-> 0]

GrantedRecord(len) ==
  [BuffStatus |-> "USED", FrameTxInitiated |-> FALSE,
   TxConfirmReq |-> FALSE, BuffLengthReqstd |-> len]

\* BUFREQ_E_OVFL: the implicit release stands, no buffer is granted.
ProvideOverflow(len) ==
  /\ CallerRuns /\ DriverReady
  /\ TooLong(len)
  /\ txBuffTable' = ImplicitRelease
  /\ ConfirmTxBufIdx' = ImplicitConfirm
  /\ UNCHANGED <<CurrTxIdx, own, status, dma, TI, scan>>

\* BUFREQ_OK: the buffer at CurrTxIdx goes to the caller.
ProvideGrant(len) ==
  /\ CallerRuns /\ DriverReady
  /\ ~TooLong(len)
  /\ ImplicitRelease[CurrTxIdx].BuffStatus = "NOTUSED"
  /\ txBuffTable' = [ImplicitRelease EXCEPT ![CurrTxIdx] = GrantedRecord(len)]
  /\ ConfirmTxBufIdx' = ImplicitConfirm
  /\ CurrTxIdx' = lIncrTxBufIdx(CurrTxIdx)
  /\ UNCHANGED <<own, status, dma, TI, scan>>

\* BUFREQ_E_BUSY changes nothing; this is when it is the answer.
ProvideBusy(len) ==
  /\ DriverReady
  /\ ~TooLong(len)
  /\ ImplicitRelease[CurrTxIdx].BuffStatus = "USED"

ProvideTxBuffer(len) == ProvideOverflow(len) \/ ProvideGrant(len)

-----------------------------------------------------------------------------
(* Eth_17_GEthMac_Transmit and lTransmit. *)

\* The DET checks of Transmit; a call that fails them changes nothing.
TransmitAccepted(i, len) ==
  /\ DriverReady /\ lDetCheckMode
  /\ Used(i)
  /\ len <= txBuffTable[i].BuffLengthReqstd

\* Mutant: no tail pointer write.
lTransmit_NoTailWrite(i, confirm) ==
  /\ txBuffTable' = [txBuffTable EXCEPT ![i].TxConfirmReq = confirm,
                                        ![i].FrameTxInitiated = TRUE]
  /\ own' = [own EXCEPT ![i] = TRUE]
  /\ UNCHANGED <<CurrTxIdx, ConfirmTxBufIdx, status, dma, TI, scan>>

\* The descriptor goes to the DMA and the tail pointer write wakes it up.
lTransmit(i, confirm) ==
  /\ txBuffTable' = [txBuffTable EXCEPT ![i].TxConfirmReq = confirm,
                                        ![i].FrameTxInitiated = TRUE]
  /\ own' = [own EXCEPT ![i] = TRUE]
  /\ dmaSuspended' = FALSE
  /\ UNCHANGED <<CurrTxIdx, ConfirmTxBufIdx, status, hwActive, dmaIdx, TI, scan>>

\* The application passes on a buffer it was granted and still holds.
Transmit(i, confirm, len) ==
  /\ CallerRuns
  /\ ~Initiated(i)
  /\ TransmitAccepted(i, len)
  /\ lTransmit(i, confirm)

-----------------------------------------------------------------------------
(* lConfirmTxFrames: a scan of at most EthTxBufTotal buffers from           *)
(* ConfirmTxBufIdx, entered from TxConfirmation or from the interrupt.      *)

\* Mutants: the scan ignores the OWN bit; it ignores FrameTxInitiated.
Confirmable_StillOwned == Used(ConfirmTxBufIdx) /\ Initiated(ConfirmTxBufIdx)
Confirmable_NotInitiated == Used(ConfirmTxBufIdx) /\ ~own[ConfirmTxBufIdx]

Confirmable ==
  Used(ConfirmTxBufIdx) /\ Initiated(ConfirmTxBufIdx) /\ ~own[ConfirmTxBufIdx]

\* One iteration's tail: the buffer is free again and the index moves on.
ReleaseConfirmed ==
  /\ txBuffTable' =
       [txBuffTable EXCEPT ![ConfirmTxBufIdx] = Released(@)]
  /\ ConfirmTxBufIdx' = lIncrTxBufIdx(ConfirmTxBufIdx)
  /\ scan' = [scan EXCEPT !.at = "test", !.Count = @ + 1]
  /\ UNCHANGED <<CurrTxIdx, own, status, dma, TI>>

ScanGoesOn == scan.at = "test" /\ scan.Count < EthTxBufTotal /\ Confirmable

\* The frame asked for a confirmation: EthIf_TxConfirmation is called.
ConfirmCallback ==
  /\ ScanGoesOn
  /\ txBuffTable[ConfirmTxBufIdx].TxConfirmReq
  /\ scan' = [scan EXCEPT !.at = "callback"]
  /\ UNCHANGED <<table, own, status, dma, TI>>

\* EthIf_TxConfirmation returns and the iteration ends.
CallbackReturns ==
  /\ InCallback
  /\ ReleaseConfirmed

ConfirmSilently ==
  /\ ScanGoesOn
  /\ ~txBuffTable[ConfirmTxBufIdx].TxConfirmReq
  /\ ReleaseConfirmed

ScanEnds == scan.at = "test" /\ ~(scan.Count < EthTxBufTotal /\ Confirmable)

TxConfirmation ==
  /\ ~TxIntEnabled
  /\ MainRuns /\ DriverReady /\ lDetCheckMode
  /\ scan' = [IdleScan EXCEPT !.at = "test"]
  /\ UNCHANGED <<table, own, status, dma, TI>>

TxConfirmationReturns ==
  /\ ~TxIntEnabled /\ ScanEnds
  /\ scan' = IdleScan
  /\ UNCHANGED <<table, own, status, dma, TI>>

\* TxDmaCh0IrqHdlr: while TI is set, clear it and scan.
TxDmaCh0IrqHdlr ==
  /\ TxIntEnabled /\ MainRuns /\ DriverReady
  /\ TI
  /\ TI' = FALSE
  /\ scan' = [IdleScan EXCEPT !.at = "test"]
  /\ UNCHANGED <<table, own, status, dma>>

\* The handler's loop: again if TI came back, at most MaxLoopCnt + 1 scans.
IrqLoops ==
  /\ TxIntEnabled /\ ScanEnds
  /\ TI /\ scan.MaxLoops < MaxLoopCnt
  /\ TI' = FALSE
  /\ scan' = [at |-> "test", Count |-> 0, MaxLoops |-> scan.MaxLoops + 1]
  /\ UNCHANGED <<table, own, status, dma>>

\* Mutant: the handler acknowledges the interrupt once more on its way out.
IrqReturns_ClearsTI ==
  /\ TxIntEnabled /\ ScanEnds
  /\ ~TI \/ scan.MaxLoops = MaxLoopCnt
  /\ TI' = FALSE
  /\ scan' = IdleScan
  /\ UNCHANGED <<table, own, status, dma>>

IrqReturns ==
  /\ TxIntEnabled /\ ScanEnds
  /\ ~TI \/ scan.MaxLoops = MaxLoopCnt
  /\ scan' = IdleScan
  /\ UNCHANGED <<table, own, status, dma, TI>>

-----------------------------------------------------------------------------
(* The Tx DMA channel (hardware). *)

DmaSends ==
  /\ hwActive /\ ~dmaSuspended /\ own[dmaIdx]
  /\ own' = [own EXCEPT ![dmaIdx] = FALSE]
  /\ dmaIdx' = lIncrTxBufIdx(dmaIdx)
  /\ TI' = TRUE
  /\ UNCHANGED <<table, status, hwActive, dmaSuspended, scan>>

DmaSuspends ==
  /\ hwActive /\ ~dmaSuspended /\ ~own[dmaIdx]
  /\ dmaSuspended' = TRUE
  /\ UNCHANGED <<table, own, status, hwActive, dmaIdx, TI, scan>>

-----------------------------------------------------------------------------
Application ==
  \/ EthInit
  \/ SetControllerMode
  \/ \E len \in Lengths : ProvideTxBuffer(len)
  \/ \E i \in Buffers, confirm \in BOOLEAN, len \in Lengths :
       Transmit(i, confirm, len)

ScanStep == ConfirmCallback \/ CallbackReturns \/ ConfirmSilently

Scan ==
  \/ TxConfirmation \/ TxConfirmationReturns
  \/ TxDmaCh0IrqHdlr \/ IrqLoops \/ IrqReturns
  \/ ScanStep

Dma == DmaSends \/ DmaSuspends

Next == Application \/ Scan \/ Dma

Spec == Init /\ [][Next]_vars

\* The hardware goes on and so does the core once it runs the Tx interrupt.
InterruptFairness == WF_vars(Dma) /\ WF_vars(Scan)

FairSpec == Spec /\ InterruptFairness

-----------------------------------------------------------------------------
(* Properties. *)

UsedBuffers == {i \in Buffers : Used(i)}

\* The buffers from index a up to but not including b, going round the ring.
Stretch(a, b) ==
  {i \in Buffers : IF a < b THEN a <= i /\ i < b ELSE a <= i \/ i < b}

Window(used, a, b) ==
  IF a = b THEN used = {} \/ used = Buffers ELSE used = Stretch(a, b)

\* Once the controller is initialised the USED buffers are exactly the cyclic
\* stretch of the ring from ConfirmTxBufIdx up to CurrTxIdx, however grants,
\* implicit releases, confirmations and restarts interleave; with the indices
\* equal the ring is empty or full, never something between.
RingWindow == cntrlInit => Window(UsedBuffers, ConfirmTxBufIdx, CurrTxIdx)

\* ProvideTxBuffer looks at one buffer only, yet promises that BUFREQ_E_BUSY
\* means "All Buffers are in USE".
BusyMeansAllInUse ==
  \A len \in Lengths : ProvideBusy(len) => UsedBuffers = Buffers

\* While EthIf_TxConfirmation runs for a buffer, nothing the callback does
\* gives that buffer away or hands it to the DMA again: the scan releases it
\* when the callback returns.
CallbackBufferStable ==
  InCallback =>
    /\ Used(ConfirmTxBufIdx) /\ Initiated(ConfirmTxBufIdx)
    /\ txBuffTable[ConfirmTxBufIdx].TxConfirmReq
    /\ ~own[ConfirmTxBufIdx]

UsedCount == Cardinality(UsedBuffers)
Slot(j)   == (ConfirmTxBufIdx + j) % EthTxBufTotal

\* The DMA stays in step with the ring: counted from ConfirmTxBufIdx, the
\* buffers behind the DMA are transmitted ones, and of those ahead of it the
\* DMA owns exactly the ones passed to Transmit.  So frames leave in ring
\* order, and a buffer is confirmed only after its frame was sent.
DmaFollowsRing ==
  cntrlInit =>
    \E k \in 0 .. UsedCount :
      /\ dmaIdx = Slot(k)
      /\ \A j \in 0 .. UsedCount - 1 :
           IF j < k THEN Initiated(Slot(j)) /\ ~own[Slot(j)]
                    ELSE own[Slot(j)] <=> Initiated(Slot(j))

\* A buffer the driver regards as free or as being filled by the application
\* is not one the DMA reads from.
DmaOwnsOnlyInitiated ==
  cntrlInit => \A i \in Buffers : own[i] => Used(i) /\ Initiated(i)

\* In interrupt mode a sent frame is never forgotten: if it heads the ring
\* and no scan is running, its interrupt is still pending.
NoLostConfirmation ==
  TxIntEnabled /\ cntrlInit /\ MainRuns /\ Confirmable => TI

\* A frame whose confirmation was requested is released only by the return of
\* its callback (or by a restart), never silently.
NoUnconfirmedRelease ==
  [][\A i \in Buffers :
       /\ Used(i) /\ Initiated(i) /\ txBuffTable[i].TxConfirmReq
       /\ cntrlInit' /\ cntrlInit /\ hwActive /\ hwActive'
       /\ ~Used(i)'
       => InCallback /\ i = ConfirmTxBufIdx]_vars

\* In interrupt mode the frame at the head of the ring is sent and confirmed,
\* unless the controller is stopped first: no wake-up of the DMA and no
\* interrupt is lost on the way.
HeadFrameConfirmed ==
  \A i \in Buffers :
    (cntrlInit /\ hwActive /\ ConfirmTxBufIdx = i /\ Used(i) /\ Initiated(i))
      ~> (~cntrlInit \/ ~hwActive \/ ConfirmTxBufIdx /= i \/ ~Initiated(i))

\* The ring as the queue EthTxQueue describes; empty until the controller is
\* initialised.
PhaseOf(i) ==
  IF ~Initiated(i) THEN "held" ELSE IF own[i] THEN "queued" ELSE "sent"

QueueLength == IF cntrlInit THEN UsedCount ELSE 0
QueueOf     == [j \in 1 .. QueueLength |-> PhaseOf(Slot(j - 1))]

Queue == INSTANCE EthTxQueue WITH Capacity <- EthTxBufTotal, ring <- QueueOf

\* The driver and its DMA implement the bounded queue: every step is a step of
\* the queue or leaves it alone.
ImplementsQueue == Queue!Spec
=============================================================================
