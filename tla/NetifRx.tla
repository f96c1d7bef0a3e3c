------------------------------ MODULE NetifRx ------------------------------
(***************************************************************************)
(* The link input of the lwIP port, netif_Indication of netif.c, inside    *)
(* the callback of the polled Ethernet driver.  A pbuf is taken from the   *)
(* pool and its payload pointer turned to the DMA buffer of the frame; the *)
(* pbuf goes to lwIP, which frees it or keeps it: TCP segments that arrive *)
(* out of order and IP fragments wait for the missing ones.                *)
(***************************************************************************)
EXTENDS EthRx

CONSTANTS
  PoolSize,   \* PBUF_POOL_SIZE
  LongFrames, \* frames that need two pbufs of the pool
  MayKeep,    \* TRUE: frames may arrive that lwIP keeps
  MaxKept     \* bound: pbufs lwIP keeps at a time

ASSUME NetifRxConstants ==
  /\ PoolSize \in Nat
  /\ LongFrames \subseteq Frames
  /\ MayKeep \in BOOLEAN
  /\ MaxKept \in Nat

VARIABLES
  pc,      \* where netif_Indication stands
  chain,   \* the number of pbufs it took
  pool,    \* free pbufs
  kept,    \* pbufs in the queues of lwIP, each with its buffer and frame
  memory   \* the last frame the DMA stored in each buffer

netif     == <<pc, chain, pool, kept>>
netifVars == <<vars, netif, memory>>

\* The project polls the driver, and EcuM started the controller before lwIP.
NetifRxInit ==
  /\ RxIntEnabled = FALSE
  /\ desc = [i \in Buffers |-> Fresh]
  /\ CurrRxDmaDescIdx = 0 /\ RxDmaDesIdxForIngTimStamp = NA
  /\ coreInit = TRUE /\ cntrlInit = TRUE /\ hwActive = TRUE
  /\ dmaIdx = 0 /\ dmaPending = "none" /\ dmaSuspended = FALSE
  /\ irq = FALSE /\ scan = IdleScan /\ rxStatus = "NONE"
  /\ pc = "none" /\ chain = 0 /\ pool = PoolSize /\ kept = <<>>
  /\ memory = [i \in Buffers |-> NA]

Frame         == desc[scan.start].data
Needed(frame) == IF frame \in LongFrames THEN 2 ELSE 1

-----------------------------------------------------------------------------
\* pbuf_alloc, whose result is not looked at: without a free pbuf, the write to
\* p->payload traps.  Otherwise the payload of the first pbuf of the chain
\* becomes the DMA buffer; a second one keeps its own, which no frame fills.
Alloc ==
  /\ InCallback /\ pc = "none"
  /\ IF pool < Needed(Frame)
     THEN pc' = "trapped" /\ UNCHANGED <<chain, pool>>
     ELSE /\ pc' = "input"
          /\ chain' = Needed(Frame)
          /\ pool' = pool - Needed(Frame)
  /\ UNCHANGED <<vars, kept, memory>>

\* lwIP takes the data and frees the pbuf.
InputConsumes ==
  /\ pc = "input" /\ pc' = "done"
  /\ pool' = pool + chain
  /\ UNCHANGED <<vars, chain, kept, memory>>

\* Mutant: an error of lwIP's input leaves the pbuf allocated.
InputFails_Leaks ==
  /\ pc = "input" /\ pc' = "done"
  /\ UNCHANGED <<vars, chain, pool, kept, memory>>

\* lwIP refuses it, and netif_Indication frees it.
InputFails ==
  /\ pc = "input" /\ pc' = "done"
  /\ pool' = pool + chain
  /\ UNCHANGED <<vars, chain, kept, memory>>

\* lwIP accepts it and queues the pbuf.
InputKeeps ==
  /\ MayKeep /\ Len(kept) < MaxKept
  /\ pc = "input" /\ pc' = "done"
  /\ kept' = Append(kept, [buffer |-> scan.start, frame |-> Frame, pbufs |-> chain])
  /\ UNCHANGED <<vars, chain, pool, memory>>

IndicationReturns ==
  /\ pc = "done" /\ pc' = "none" /\ chain' = 0
  /\ RxIndicationReturns
  /\ UNCHANGED <<pool, kept, memory>>

\* What was missing arrives, or the time for it is over: lwIP is done with a
\* pbuf of its queues, in the input or in a timer.
DoneWithKept ==
  /\ MainRuns \/ pc = "input"
  /\ \E k \in DOMAIN kept :
       /\ kept' = RemoveAt(kept, k)
       /\ pool' = pool + kept[k].pbufs
  /\ UNCHANGED <<vars, pc, chain, memory>>

Driver ==
  /\ Receive \/ ReceiveReturns \/ RxIndication \/ DmaSuspends
  /\ UNCHANGED <<netif, memory>>

FrameArrives(frame) ==
  /\ DmaReceives(frame, FALSE)
  /\ memory' = [memory EXCEPT ![dmaIdx] = frame]
  /\ UNCHANGED netif

\* The processor is in the trap; the DMA goes on.
Trapped == pc = "trapped" /\ UNCHANGED netifVars

NetifRxNext ==
  \/ Alloc \/ InputConsumes \/ InputFails \/ InputKeeps \/ IndicationReturns
  \/ DoneWithKept \/ Driver \/ Trapped
  \/ \E frame \in Frames : FrameArrives(frame)

NetifRxSpec == NetifRxInit /\ [][NetifRxNext]_netifVars

-----------------------------------------------------------------------------
(* Properties. *)

\* As long as its input runs, what lwIP reads in the first pbuf is the frame the
\* driver indicated: the DMA does not store another one over it, although
\* nothing was copied.
InputReadsTheFrame == pc = "input" => memory[scan.start] = Frame

\* "... transfer the bytes of the incoming packet from the interface into the
\* pbuf": what a kept pbuf points to is still its frame.
KeptPbufsIntact == \A k \in DOMAIN kept : memory[kept[k].buffer] = kept[k].frame

\* Every pbuf is free, in the hands of netif_Indication, or in a queue: on no
\* path is one lost or freed twice.
NoPbufLost ==
  pc /= "done" =>
    pool + chain + FoldLeft(LAMBDA sum, pbuf : sum + pbuf.pbufs, 0, kept) = PoolSize
=============================================================================
