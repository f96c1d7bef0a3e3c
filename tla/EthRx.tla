-------------------------------- MODULE EthRx --------------------------------
(***************************************************************************)
(* The receive half of the Ethernet driver Eth_17_GEthMac and the DMA      *)
(* channel that fills its descriptor ring.                                 *)
(*                                                                         *)
(* The DMA closes descriptors in ring order: one per frame, two for a      *)
(* frame longer than a buffer, and one more, a context descriptor, when it *)
(* took a time stamp.  lReceiveFrames follows it from CurrRxDmaDescIdx,    *)
(* hands each complete frame to EthIf_RxIndication without copying it, and *)
(* gives the descriptors back when the callback returns.  It runs in the   *)
(* caller of Receive when the driver is polled, one frame per call, and in *)
(* the Rx interrupt otherwise.                                             *)
(***************************************************************************)
EXTENDS Integers, FiniteSets, Sequences, SequencesExt

CONSTANTS
  EthRxBufTotal,   \* number of Rx buffers and descriptors of the ring
  MaxLoopCnt,      \* ETH_17_GETHMAC_TXRX_INT_PENDG_MAXLOOPCNT
  Frames,          \* frames that may arrive
  NA,              \* ETH_17_GETHMAC_TIMESTAMP_NA
  Timestamps       \* TRUE: the MAC may take time stamps of received frames

Buffers == 0 .. EthRxBufTotal - 1

ASSUME RxConstants ==
  /\ EthRxBufTotal \in Nat \ {0, 1}
  /\ MaxLoopCnt \in Nat
  /\ NA \notin Buffers
  /\ Timestamps \in BOOLEAN

VARIABLES
  RxIntEnabled,              \* configured mode: TRUE interrupt, FALSE polling
  desc,                      \* DMA Rx descriptors
  CurrRxDmaDescIdx,          \* descriptor the driver looks at next
  RxDmaDesIdxForIngTimStamp, \* context descriptor of the last frame, or NA
  coreInit, cntrlInit,       \* as in EthTx
  hwActive,                  \* MAC and both DMA engines started
  dmaIdx,                    \* descriptor the Rx DMA looks at next
  dmaPending,                \* what it has yet to write of the current frame
  dmaSuspended,              \* the Rx DMA waits for a tail pointer write
  irq,                       \* DMA_CH[0].STATUS.RI or RBU
  scan,                      \* where lReceiveFrames stands
  rxStatus                   \* *RxStatusPtr of the last Receive

driver == <<CurrRxDmaDescIdx, RxDmaDesIdxForIngTimStamp>>
status == <<RxIntEnabled, coreInit, cntrlInit>>
dma    == <<dmaIdx, dmaPending, dmaSuspended>>
vars   == <<desc, driver, status, hwActive, dma, irq, scan, rxStatus>>

\* RDES3.OWN, FD, LD and CTXT, RDES1.TSA, and the contents of the buffer.
Descriptor ==
  [OWN : BOOLEAN, FD : BOOLEAN, LD : BOOLEAN, CTXT : BOOLEAN, TSA : BOOLEAN,
   data : Frames \cup {NA}]

TypeOK ==
  /\ desc \in [Buffers -> Descriptor]
  /\ CurrRxDmaDescIdx \in Buffers
  /\ RxDmaDesIdxForIngTimStamp \in Buffers \cup {NA}
  /\ {RxIntEnabled, coreInit, cntrlInit, hwActive, irq, dmaSuspended} \subseteq BOOLEAN
  /\ dmaIdx \in Buffers
  /\ dmaPending \in {"none", "rest", "rest, context"}
  /\ scan \in [at : {"idle", "test", "callback", "done"}, start : Buffers,
               BufferCount : 0 .. EthRxBufTotal, BufferClearCount : 0 .. 2,
               ApplIndication : BOOLEAN, MaxLoops : 0 .. MaxLoopCnt]
  /\ rxStatus \in {"NONE", "NOT_RECEIVED", "RECEIVED", "MORE"}

-----------------------------------------------------------------------------
(* Helpers of the driver. *)

lIncrRxBufIdx(i) == (i + 1) % EthRxBufTotal

\* A descriptor as the driver gives it to the DMA.
Fresh ==
  [OWN |-> TRUE, FD |-> FALSE, LD |-> FALSE, CTXT |-> FALSE, TSA |-> FALSE,
   data |-> NA]

DriverReady == coreInit /\ cntrlInit
MainRuns    == scan.at = "idle"
InCallback  == scan.at = "callback"

IdleScan ==
  [at |-> "idle", start |-> 0, BufferCount |-> 0, BufferClearCount |-> 0,
   ApplIndication |-> FALSE, MaxLoops |-> 0]

\* The tail pointer always names the end of the ring: writing it only wakes up
\* a DMA that ran out of descriptors.
WriteTailPointer == dmaSuspended' = FALSE

-----------------------------------------------------------------------------
(* Power-on, Eth_17_GEthMac_Init and Eth_17_GEthMac_SetControllerMode. *)

\* The mode is fixed when the driver is built: no action changes it.
Init ==
  /\ RxIntEnabled \in BOOLEAN
  /\ desc = [i \in Buffers |-> [Fresh EXCEPT !.OWN = FALSE]]
  /\ CurrRxDmaDescIdx = 0 /\ RxDmaDesIdxForIngTimStamp = NA
  /\ coreInit = FALSE /\ cntrlInit = FALSE /\ hwActive = FALSE
  /\ dmaIdx = 0 /\ dmaPending = "none" /\ dmaSuspended = FALSE
  /\ irq = FALSE
  /\ scan = IdleScan
  /\ rxStatus = "NONE"

\* lInitGlobalVar; the module clock either comes on or does not.
EthInit ==
  /\ MainRuns
  /\ CurrRxDmaDescIdx' = 0
  /\ RxDmaDesIdxForIngTimStamp' = NA
  /\ cntrlInit' = FALSE
  /\ coreInit' \in BOOLEAN
  /\ rxStatus' = "NONE"
  /\ UNCHANGED <<RxIntEnabled, desc, hwActive, dma, irq, scan>>

DmaRestarts == dmaIdx' = 0 /\ dmaPending' = "none" /\ dmaSuspended' = FALSE

\* Every descriptor goes to the DMA, which starts again at the first one.
lDmaRxDescriptorInit ==
  /\ desc' = [i \in Buffers |-> Fresh]
  /\ CurrRxDmaDescIdx' = 0
  /\ DmaRestarts
  /\ UNCHANGED RxDmaDesIdxForIngTimStamp

\* The kernel reset or the DMA reset times out: nothing was prepared.
InitControllerFails ==
  /\ ~cntrlInit
  /\ \/ UNCHANGED <<hwActive, dma>>
     \/ hwActive' = FALSE /\ DmaRestarts
  /\ UNCHANGED <<desc, driver, cntrlInit>>

CoreInitTimerFails ==
  /\ ~cntrlInit
  /\ lDmaRxDescriptorInit
  /\ hwActive' = FALSE
  /\ UNCHANGED cntrlInit

SetModeActive ==
  /\ ~cntrlInit \/ ~hwActive
  /\ lDmaRxDescriptorInit
  /\ cntrlInit' = TRUE /\ hwActive' = TRUE

SetModeDown ==
  /\ lDmaRxDescriptorInit
  /\ cntrlInit' = TRUE /\ hwActive' = FALSE

\* lDisableGethInterrupt clears the DMA status in each of the four.
SetControllerMode ==
  /\ MainRuns /\ coreInit
  /\ InitControllerFails \/ CoreInitTimerFails \/ SetModeActive \/ SetModeDown
  /\ irq' = FALSE
  /\ rxStatus' = "NONE"
  /\ UNCHANGED <<RxIntEnabled, coreInit, scan>>

-----------------------------------------------------------------------------
(* lReceiveFrames. *)

\* Mutant: one indication per scan in interrupt mode, too.
ScanGoesOn_OnePerScan ==
  /\ scan.at = "test"
  /\ scan.BufferCount < EthRxBufTotal
  /\ ~desc[CurrRxDmaDescIdx].OWN
  /\ ~scan.ApplIndication

\* The loop looks at one more descriptor: it was closed by the DMA and, when
\* polling, no frame was indicated yet.
ScanGoesOn ==
  /\ scan.at = "test"
  /\ scan.BufferCount < EthRxBufTotal
  /\ ~desc[CurrRxDmaDescIdx].OWN
  /\ RxIntEnabled \/ ~scan.ApplIndication

Complete(d) == d.FD /\ d.LD

\* Mutant: the context descriptor is not given back.
Cleared_FrameOnly(start, count) == [desc EXCEPT ![start] = Fresh]

\* BufferClearCount descriptors from start go back to the DMA.
Cleared(start, count) ==
  [i \in Buffers |->
     IF i = start \/ (count = 2 /\ i = lIncrRxBufIdx(start)) THEN Fresh ELSE desc[i]]

\* Mutants: a frame without time stamp leaves the previous one in place; the
\* descriptors are given back before the callback instead of after it.
RxIndication_KeepsTimeStamp ==
  /\ ScanGoesOn
  /\ Complete(desc[CurrRxDmaDescIdx])
  /\ LET ConxtDescPosition == lIncrRxBufIdx(CurrRxDmaDescIdx)
         stamped           == desc[CurrRxDmaDescIdx].TSA
     IN  /\ CurrRxDmaDescIdx' = IF stamped THEN ConxtDescPosition ELSE CurrRxDmaDescIdx
         /\ RxDmaDesIdxForIngTimStamp' =
              IF stamped THEN ConxtDescPosition ELSE RxDmaDesIdxForIngTimStamp
         /\ scan' = [scan EXCEPT !.at = "callback", !.start = CurrRxDmaDescIdx,
                                 !.BufferClearCount = IF stamped THEN 2 ELSE 1]
  /\ UNCHANGED <<desc, status, hwActive, dma, irq, rxStatus>>

RxIndication_ReleasesFirst ==
  /\ ScanGoesOn
  /\ Complete(desc[CurrRxDmaDescIdx])
  /\ desc' = Cleared(CurrRxDmaDescIdx, 1)
  /\ scan' = [scan EXCEPT !.at = "callback", !.start = CurrRxDmaDescIdx,
                          !.BufferClearCount = 1]
  /\ UNCHANGED <<driver, status, hwActive, dma, irq, rxStatus>>

\* A complete frame: EthIf_RxIndication is called.  With a time stamp the next
\* descriptor is skipped, and remembered if it holds the time stamp already.
RxIndication ==
  /\ ScanGoesOn
  /\ Complete(desc[CurrRxDmaDescIdx])
  /\ LET ConxtDescPosition == lIncrRxBufIdx(CurrRxDmaDescIdx)
         stamped           == desc[CurrRxDmaDescIdx].TSA
     IN  /\ CurrRxDmaDescIdx' = IF stamped THEN ConxtDescPosition ELSE CurrRxDmaDescIdx
         /\ RxDmaDesIdxForIngTimStamp' =
              IF stamped /\ desc[ConxtDescPosition].CTXT THEN ConxtDescPosition ELSE NA
         /\ scan' = [scan EXCEPT !.at = "callback", !.start = CurrRxDmaDescIdx,
                                 !.BufferClearCount = IF stamped THEN 2 ELSE 1]
  /\ UNCHANGED <<desc, status, hwActive, dma, irq, rxStatus>>

\* The callback returns; its descriptors are freed and the index moves on.
RxIndicationReturns ==
  /\ InCallback
  /\ desc' = Cleared(scan.start, scan.BufferClearCount)
  /\ CurrRxDmaDescIdx' = lIncrRxBufIdx(CurrRxDmaDescIdx)
  /\ scan' = [scan EXCEPT !.at = "test", !.BufferCount = @ + 1,
                          !.start = 0, !.BufferClearCount = 0,
                          !.ApplIndication = TRUE]
  /\ UNCHANGED <<RxDmaDesIdxForIngTimStamp, status, hwActive, dma, irq, rxStatus>>

\* Not a complete frame in one descriptor: freed without a word.
DropDescriptor ==
  /\ ScanGoesOn
  /\ ~Complete(desc[CurrRxDmaDescIdx])
  /\ desc' = Cleared(CurrRxDmaDescIdx, 1)
  /\ CurrRxDmaDescIdx' = lIncrRxBufIdx(CurrRxDmaDescIdx)
  /\ scan' = [scan EXCEPT !.BufferCount = @ + 1]
  /\ UNCHANGED <<RxDmaDesIdxForIngTimStamp, status, hwActive, dma, irq, rxStatus>>

ScanEnds == scan.at = "test" /\ ~ScanGoesOn

\* GetIngressTimeStamp, called in the callback: a time stamp is read once.
GetIngressTimeStamp ==
  /\ InCallback /\ DriverReady
  /\ RxDmaDesIdxForIngTimStamp /= NA
  /\ RxDmaDesIdxForIngTimStamp' = NA
  /\ UNCHANGED <<desc, CurrRxDmaDescIdx, status, hwActive, dma, irq, scan, rxStatus>>

-----------------------------------------------------------------------------
(* Eth_17_GEthMac_Receive. *)

\* Mutant: the OWN bit read the wrong way round.
lIsNextFrameAvailable_OwnInverted == desc[CurrRxDmaDescIdx].OWN

\* A first descriptor at CurrRxDmaDescIdx and, before any descriptor the DMA
\* still owns, a last one.
lIsNextFrameAvailable ==
  /\ ~desc[CurrRxDmaDescIdx].OWN /\ desc[CurrRxDmaDescIdx].FD
  /\ \E n \in 0 .. EthRxBufTotal - 1 :
       LET at(k) == desc[(CurrRxDmaDescIdx + k) % EthRxBufTotal]
       IN  at(n).LD /\ \A k \in 0 .. n : ~at(k).OWN

Receive ==
  /\ ~RxIntEnabled
  /\ MainRuns /\ DriverReady /\ hwActive
  /\ scan' = [IdleScan EXCEPT !.at = "test"]
  /\ UNCHANGED <<desc, driver, status, hwActive, dma, irq, rxStatus>>

\* Mutant: no tail pointer write.
ReceiveReturns_NoTailWrite ==
  /\ ~RxIntEnabled /\ ScanEnds
  /\ rxStatus' = IF scan.ApplIndication THEN "RECEIVED" ELSE "NOT_RECEIVED"
  /\ scan' = IdleScan
  /\ UNCHANGED <<desc, driver, status, hwActive, dma, irq>>

ReceiveReturns ==
  /\ ~RxIntEnabled /\ ScanEnds
  /\ rxStatus' = CASE ~scan.ApplIndication    -> "NOT_RECEIVED"
                   [] lIsNextFrameAvailable   -> "MORE"
                   [] OTHER                   -> "RECEIVED"
  /\ WriteTailPointer
  /\ scan' = IdleScan
  /\ UNCHANGED <<desc, driver, status, hwActive, dmaIdx, dmaPending, irq>>

\* In interrupt mode Receive only writes the tail pointer.
ReceiveWakesDma ==
  /\ RxIntEnabled
  /\ MainRuns /\ DriverReady /\ hwActive
  /\ rxStatus' = "NOT_RECEIVED"
  /\ WriteTailPointer
  /\ UNCHANGED <<desc, driver, status, hwActive, dmaIdx, dmaPending, irq, scan>>

-----------------------------------------------------------------------------
(* Eth_17_GEthMac_RxDmaCh0IrqHdlr: while RI or RBU is set, clear both, scan, *)
(* write the tail pointer; at most MaxLoopCnt + 1 times.                     *)

RxDmaCh0IrqHdlr ==
  /\ RxIntEnabled /\ MainRuns /\ DriverReady
  /\ irq
  /\ irq' = FALSE
  /\ scan' = [IdleScan EXCEPT !.at = "test"]
  /\ UNCHANGED <<desc, driver, status, hwActive, dma, rxStatus>>

\* Mutant: no tail pointer write.
IrqWritesTail_NoTailWrite ==
  /\ RxIntEnabled /\ ScanEnds
  /\ scan' = [scan EXCEPT !.at = "done"]
  /\ UNCHANGED <<desc, driver, status, hwActive, dma, irq, rxStatus>>

IrqWritesTail ==
  /\ RxIntEnabled /\ ScanEnds
  /\ WriteTailPointer
  /\ scan' = [scan EXCEPT !.at = "done"]
  /\ UNCHANGED <<desc, driver, status, hwActive, dmaIdx, dmaPending, irq, rxStatus>>

\* Mutant: an off-by-one in the loop limit.
IrqLoops_OneMore ==
  /\ scan.at = "done"
  /\ irq /\ scan.MaxLoops <= MaxLoopCnt
  /\ irq' = FALSE
  /\ scan' = [IdleScan EXCEPT !.at = "test", !.MaxLoops = scan.MaxLoops + 1]
  /\ UNCHANGED <<desc, driver, status, hwActive, dma, rxStatus>>

IrqLoops ==
  /\ scan.at = "done"
  /\ irq /\ scan.MaxLoops < MaxLoopCnt
  /\ irq' = FALSE
  /\ scan' = [IdleScan EXCEPT !.at = "test", !.MaxLoops = scan.MaxLoops + 1]
  /\ UNCHANGED <<desc, driver, status, hwActive, dma, rxStatus>>

\* Mutant: the handler acknowledges the interrupt once more on its way out.
IrqReturns_ClearsIrq ==
  /\ scan.at = "done"
  /\ ~irq \/ scan.MaxLoops = MaxLoopCnt
  /\ irq' = FALSE
  /\ scan' = IdleScan
  /\ UNCHANGED <<desc, driver, status, hwActive, dma, rxStatus>>

IrqReturns ==
  /\ scan.at = "done"
  /\ ~irq \/ scan.MaxLoops = MaxLoopCnt
  /\ scan' = IdleScan
  /\ UNCHANGED <<desc, driver, status, hwActive, dma, irq, rxStatus>>

-----------------------------------------------------------------------------
(* The Rx DMA channel (hardware). *)

Ahead(k) == (dmaIdx + k) % EthRxBufTotal

Closed(first, last, frame, stamped) ==
  [OWN |-> FALSE, FD |-> first, LD |-> last, CTXT |-> FALSE,
   TSA |-> last /\ stamped, data |-> frame]

ContextDescriptor == [Fresh EXCEPT !.OWN = FALSE, !.CTXT = TRUE]

\* The DMA closes the descriptors `written`, a sequence; with `pending` it is
\* not done with the frame, otherwise it raises the interrupt.
DmaCloses(written, pending) ==
  /\ hwActive /\ ~dmaSuspended
  /\ \A k \in 1 .. Len(written) : desc[Ahead(k - 1)].OWN
  /\ desc' = [i \in Buffers |->
       LET k == (i - dmaIdx) % EthRxBufTotal
       IN  IF k < Len(written) THEN written[k + 1] ELSE desc[i]]
  /\ dmaIdx' = Ahead(Len(written))
  /\ dmaPending' = pending
  /\ irq' = (irq \/ pending = "none")
  /\ UNCHANGED <<driver, status, hwActive, dmaSuspended, scan, rxStatus>>

\* The last descriptor of a frame, and its time stamp if it has one: the driver
\* sees either both closed or none.
DmaCompletes(last, stamped) ==
  DmaCloses(IF stamped THEN <<last, ContextDescriptor>> ELSE <<last>>, "none")

\* A frame that fits into one buffer arrives.
DmaReceives(frame, stamped) ==
  /\ dmaPending = "none"
  /\ DmaCompletes(Closed(TRUE, TRUE, frame, stamped), stamped)

\* A longer one arrives: its first descriptor, then its last one.
DmaReceivesOversize(stamped) ==
  /\ dmaPending = "none"
  /\ DmaCloses(<<Closed(TRUE, FALSE, NA, FALSE)>>,
               IF stamped THEN "rest, context" ELSE "rest")

DmaReceivesRest ==
  \/ /\ dmaPending = "rest"
     /\ DmaCompletes(Closed(FALSE, TRUE, NA, FALSE), FALSE)
  \/ /\ dmaPending = "rest, context"
     /\ DmaCompletes(Closed(FALSE, TRUE, NA, TRUE), TRUE)

\* The DMA needs a descriptor that is not its own: RBU.
DmaSuspends ==
  /\ hwActive /\ ~dmaSuspended
  /\ ~desc[dmaIdx].OWN \/ (Timestamps /\ ~desc[Ahead(1)].OWN)
  /\ dmaSuspended' = TRUE
  /\ irq' = TRUE
  /\ UNCHANGED <<desc, driver, status, hwActive, dmaIdx, dmaPending, scan, rxStatus>>

-----------------------------------------------------------------------------
Scan ==
  \/ Receive \/ ReceiveReturns
  \/ RxDmaCh0IrqHdlr \/ IrqWritesTail \/ IrqLoops \/ IrqReturns
  \/ RxIndication \/ RxIndicationReturns \/ DropDescriptor

Dma ==
  \/ \E frame \in Frames, stamped \in {FALSE, Timestamps} : DmaReceives(frame, stamped)
  \/ \E stamped \in {FALSE, Timestamps} : DmaReceivesOversize(stamped)
  \/ DmaReceivesRest
  \/ DmaSuspends

Next ==
  \/ EthInit \/ SetControllerMode
  \/ GetIngressTimeStamp \/ ReceiveWakesDma
  \/ Scan \/ Dma

Spec == Init /\ [][Next]_vars

\* Polling: Receive is called again and again.  Interrupt mode: the core takes
\* the Rx interrupt.  Either way scans and their callbacks come to an end.
FairSpec == Spec /\ WF_vars(Scan)

-----------------------------------------------------------------------------
(* Properties. *)

\* Where the driver's share of the ring begins.
First == IF InCallback THEN scan.start ELSE CurrRxDmaDescIdx

\* The descriptors from index a up to but not including b, round the ring.
Stretch(a, b) ==
  {i \in Buffers : IF a < b THEN a <= i /\ i < b ELSE a <= i \/ i < b}

Received == {i \in Buffers : ~desc[i].OWN}

\* "Next packet will be stored to buffer of descriptor after this context
\* descriptor": the index of the driver and the position of the DMA stay in
\* step, so that the descriptors the DMA closed are exactly those from the one
\* the driver looks at up to the one the DMA looks at.
RxInStep ==
  cntrlInit =>
    IF First = dmaIdx THEN Received \in {{}, Buffers}
                      ELSE Received = Stretch(First, dmaIdx)

\* A time stamp the driver offers to the callback is one the DMA wrote, and for
\* the frame the callback is given, never one left over from another frame.
TimestampBelongsToFrame ==
  InCallback /\ RxDmaDesIdxForIngTimStamp /= NA =>
    /\ desc[scan.start].TSA
    /\ RxDmaDesIdxForIngTimStamp = lIncrRxBufIdx(scan.start)
    /\ desc[RxDmaDesIdxForIngTimStamp].CTXT
    /\ ~desc[RxDmaDesIdxForIngTimStamp].OWN

\* In interrupt mode neither a stored frame nor a DMA out of descriptors is
\* forgotten: while no scan runs, an interrupt is pending.
NoLostRxInterrupt ==
  RxIntEnabled /\ cntrlInit /\ hwActive /\ MainRuns =>
    /\ dmaSuspended => irq
    /\ ~desc[CurrRxDmaDescIdx].OWN /\ dmaPending = "none" => irq

\* "whether more frames are available": a Receive that follows the answer
\* ETH_RECEIVED_MORE_DATA_AVAILABLE finds descriptors the DMA has closed.  It
\* indicates a frame, unless all it finds are parts of frames longer than a
\* buffer, which it drops, or the controller was restarted.
MoreDataMeansMoreFrames ==
  [][rxStatus = "MORE" /\ rxStatus' = "NOT_RECEIVED" => scan.BufferCount > 0]_vars

\* A complete frame at the driver's index is indicated, unless the controller
\* is stopped first.
FrameIndicated ==
  \A i \in Buffers :
    (cntrlInit /\ hwActive /\ CurrRxDmaDescIdx = i /\ MainRuns
       /\ ~desc[i].OWN /\ Complete(desc[i]))
      ~> (~cntrlInit \/ ~hwActive \/ (InCallback /\ scan.start = i))

\* The DMA never waits for descriptors for good.
ReceptionGoesOn == dmaSuspended ~> (~dmaSuspended \/ ~hwActive \/ ~cntrlInit)

\* The frames that a row of descriptors holds.
FramesOf(slots) ==
  FoldLeft(LAMBDA frames, d : IF Complete(d) THEN Append(frames, d.data) ELSE frames,
           <<>>, slots)

\* The descriptors the DMA closed, the oldest first, and the frames in them that
\* the driver has yet to indicate.
ClosedSlots ==
  [k \in 1 .. Cardinality(Received) |-> desc[(First + (k - 1)) % EthRxBufTotal]]

AfterFirst(frames) == SubSeq(frames, 2, Len(frames))

StoredFrames ==
  IF InCallback THEN AfterFirst(FramesOf(ClosedSlots)) ELSE FramesOf(ClosedSlots)

Queue == INSTANCE EthRxQueue WITH
  Capacity  <- EthRxBufTotal,
  None      <- NA,
  waiting   <- IF cntrlInit THEN StoredFrames ELSE <<>>,
  indicated <- IF cntrlInit /\ InCallback THEN desc[scan.start].data ELSE NA

\* The driver and its DMA implement the queue of received frames: every frame
\* stored is indicated once, in the order of arrival, and stays as it is until
\* its callback returns.
ImplementsRxQueue == Queue!Spec
=============================================================================
