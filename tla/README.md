# TC375_MCAL: models and proofs

A verification development for the TC375 demo project: Infineon's MCAL drivers
for the AURIX TC37x, an lwIP port on top of the Ethernet driver, an echo server
and a cyclic executive. The models are TLA+, checked with TLC on small
instances; theorems for every instance are checked with TLAPS.

Paths are relative to the repository. `Eth.c` stands for
`src/0_Src/McIsar/Src/Mcal/Tricore/Eth_17_GEthMac/ssc/src/Eth_17_GEthMac.c`,
`netif.c` and `Ifx_Lwip.c` for the files of `src/0_Src/Ethernet/lwip/port/src/`,
`Cpu0_Main.c` for `src/0_Src/AppSw/Tricore/Main/Cpu0_Main.c`, `Echo.c` for
`src/App/EchoApp/Echo.c`, `Fee.c` for
`src/0_Src/McIsar/Src/Mcal/Tricore/Fee/ssc/src/Fee.c`. `PROJECT.json` maps every definition to its lines.

## 1. The system

Core 0 runs everything: `core0_main` initialises through `EcuM_Init`, then waits
for a millisecond flag and per tick advances the lwIP timers, polls the
Ethernet driver for received frames, and runs 10 ms and 1000 ms tasks.

| component | state it keeps | operations | interacts with |
|---|---|---|---|
| Ethernet driver, transmission (`Eth.c`) | buffer table, `CurrTxIdx`, `ConfirmTxBufIdx`, descriptors (OWN bit shared with the DMA), init status | Init, SetControllerMode, ProvideTxBuffer, Transmit, TxConfirmation, Tx interrupt | DMA through descriptors, tail pointer and TI; callback `EthIf_TxConfirmation` |
| Ethernet driver, reception (`Eth.c`) | descriptors, `CurrRxDmaDescIdx`, index of the last time stamp, init status | Receive, Rx interrupt, GetIngressTimeStamp, Init, SetControllerMode | DMA through descriptors, tail pointer, RI and RBU; callback `EthIf_RxIndication` |
| Ethernet driver, addresses, time, statistics | hardware registers, report counters | UpdatePhysAddrFilter, SetPhysAddr, Set/GetGlobalTime, egress time stamps, GetDropCount, GetEtherStats, MainFunction | registers only |
| lwIP port, interface (`netif.c`) | none between calls; pbufs of lwIP | `low_level_output`, `netif_Indication` | driver below, lwIP above |
| lwIP port, timers (`Ifx_Lwip.c`) | timer counters, expiry flags, `g_TickCount_1ms` | onTimerTick, pollTimerFlags, pollReceiveFlags, sys_now | main loop, lwIP, PHY link status |
| Main loop (`Cpu0_Main.c`) | `SystemTick`, `SystemTickUpdateFlag`, `localSysTick` | the loop, `SystemTickIsr` | timer interrupt; everything else |
| Echo server (`Echo.c`) | per session, in lwIP's heap: state, pending pbufs, storage of 256 bytes | callbacks accept, recv, sent, poll, error | lwIP's TCP |
| Flash EEPROM emulation (`Fee.c`) | cache of block addresses, sector info, states of initialisation, garbage collection and user request; in the flash: copies of blocks and state pages of two sectors | Init, MainFunction, Write, InvalidateBlock, Cancel, Read, job notifications of the flash driver | Fls below (one job at a time), NvM or the demo above |
| Status report | one pbuf | one UDP datagram a second | lwIP |
| Start-up (`EcuM.c`, Ssw) | none | order of the Init calls | all drivers |
| PHY, McalLib, Fls, Spi, Uart, Wdg, Gpt, Can, Adc, Dma, Lin, Fr, Icu, Pwm, Ocu, Dsadc, Mcu, Port, Dio, Smu, Stm, Crc, I2c, FlsLoader, Bfx, CanTrcv | see `PROJECT.json` | | of these the demo uses Mcu, Port, Gpt (the tick), Dio, Icu, Pwm, Adc, Dma, Can; the others are configured or demonstrated only |

### What is hard here

* **The descriptor rings.** Driver and DMA share them with no lock but the OWN
  bit; equal indices mean empty or full; a scan calls back into code that calls
  the driver; two different paths free sent buffers; a frame with a time stamp
  takes two descriptors, one longer than a buffer too.
* **Edges and levels.** A DMA that ran out of descriptors only goes on after a
  tail pointer write; an interrupt flag cleared at the wrong moment is never
  raised again; interrupt handlers leave after a fixed number of rounds.
* **Failures half way.** SetControllerMode may fail after each of its steps, and
  its answer is ignored; `tcp_write` may refuse one of two related calls; a
  buffer may be granted and the frame then refused.
* **Lifetime.** Received frames are passed up without a copy; sessions are freed
  by several callbacks.
* **Resets.** The flash outlives a reset, everything else does not: a reset may cut
  off any job of the flash driver, and the start-up has to make sense of the
  rest. Programming and erasing can fail, and what shares a wordline with a
  failed page is suspect, too.
* **Time.** One interrupt, two variables, a loop that reads both, and tasks tied
  to exact values of a counter that wraps.

`PROJECT.json` lists each hazard at its line, with the properties aimed at it or
the reason there is none yet.

### What makes each component correct

* Transmission: the buffers in use are one stretch of the ring; BUSY means full;
  frames leave in the order of the ring, none is confirmed before it is sent,
  each requested confirmation is given; buffers the application fills are not
  the DMA's; in interrupt mode nothing is forgotten.
* Reception: driver and DMA stay in step; every stored frame is indicated once,
  in order, unchanged; a time stamp belongs to its frame; the DMA never starves.
* Interface: no buffer and no pbuf leaks; transmission goes on.
* Executive: no tick unseen, lwIP's timers served once per expiry, tasks at their
  period, the clock right.
* Flash emulation: a write takes effect at once or not at all; an acknowledged value
  stays, whatever is reset, fails or is collected meanwhile; blank pages only
  are programmed; resets alone do not make it give up; every request is answered.
* Echo: nothing lost or repeated, no use after free, every session freed, complete
  lines answered, callbacks return.

## 2. Modules

| module | models | relation |
|---|---|---|
| `EthTxQueue` | what transmission promises: a bounded queue whose entries are held, queued, sent | abstract specification |
| `EthTx` | transmit half of the driver, Tx DMA, Tx interrupt, Init and SetControllerMode | implements `EthTxQueue` (`ImplementsQueue`) |
| `EthTxProofs` | theorems about `EthTx`: stretch and order of the ring, callbacks, ownership, confirmations, it implements `EthTxQueue`; and about `NetifTx` | extends both |
| `NetifTx` | `low_level_output` on the polled driver | extends and composes `EthTx` |
| `EthRxQueue` | what reception promises: a queue of frames, one indication at a time | abstract specification |
| `EthRx` | receive half of the driver, Rx DMA, Rx interrupt, time stamps | implements `EthRxQueue` (`ImplementsRxQueue`) |
| `EthRxProofs` | theorems about `EthRx`, it implements `EthRxQueue`; and about `NetifRx` | extends both |
| `NetifRx` | `netif_Indication` in the driver's callback, pbuf pool, pbufs lwIP keeps | extends and composes `EthRx` |
| `MainLoop` | `core0_main`, `SystemTickIsr`, the lwIP port's timers | |
| `MainLoopProofs` | theorems about `MainLoop` | extends it |
| `Echo` | the callbacks of the echo server and their sessions, one connection after the other | |
| `EchoProofs` | theorems about `Echo` | extends it |
| `FeeStore` | what the flash emulation promises: a crash-safe store of blocks | abstract specification |
| `Fee` | initialisation, cache, reads, writes, garbage collection and failures of the flash emulation; flash jobs and resets | implements `FeeStore` (`ImplementsStore`) |
| `FeeInv` | the inductive invariant of `Fee` until a flash job fails | extends it |
| `FeeProofs` | theorems about `Fee`, it implements `FeeStore` | extends `FeeInv` |
| `FeeFault` | the inductive invariant of `Fee` that failing flash jobs keep | extends `FeeInv` |
| `FeeFaultProofs` | theorems about `Fee` with failing flash jobs | extends `FeeFault` and `FeeProofs` |
| `FeeWordline` | the invariant of what `Fee` does about a wordline in which programming failed | extends `FeeFault` |
| `FeeWordlineProofs` | theorems about that | extends `FeeWordline` and `FeeFaultProofs` |
| `SequenceLemmas` | lemmas about sequences, folds, sums and quotients | extended by the proofs that count or divide |
| `MC*` | constants of the instances TLC checks | extend the above |

A definition whose name has a suffix after an underscore and a comment
"Mutant" (`Confirmable_StillOwned`) is not part of the model: it is a broken
variant that shows that a property would notice.

### EthTx

`txBuffTable`, `CurrTxIdx` and `ConfirmTxBufIdx` are the variables of the code;
`own` is bit 31 of TDES3 of each descriptor; `coreInit`, `cntrlInit` and
`hwActive` are the three levels of initialisation the DET checks ask for;
`dmaIdx`, `dmaSuspended` and `TI` are the DMA's. `scan` is the position in
`lConfirmTxFrames`, the one function with a callback in its middle: it is a
sequence of steps (`ConfirmCallback`, `CallbackReturns`, `ConfirmSilently`),
and while it waits for the callback, the callback may call ProvideTxBuffer and
Transmit. Everything else is one action per service: ProvideTxBuffer and the
state-changing part of Transmit are critical sections of the code (SchM).

In `lTransmit` OWN is set (`Eth.c:9902`) before `FrameTxInitiated` (`Eth.c:9905`)
and before the tail pointer (`Eth.c:9920`). It is one step here: the critical
section keeps scans out, and the DMA reads neither. A DMA that is still running
may fetch the descriptor between the writes, in which case the tail pointer
write wakes a DMA that is about to suspend anyway: `DmaSuspends` after it.

SetControllerMode is split by outcome, because it stops half way: before or
after the kernel reset (`InitControllerFails`), after the rings were prepared
(`CoreInitTimerFails`), or not at all. That `lDmaTxDescriptorInit` writes
TDES0..TDES2 and not TDES3 is modelled (`own' = own`), and matters: see
`ethtx_restart`.

### EthRx

`desc` is the ring as the DMA writes it back (OWN, FD, LD, CTXT, TSA and a frame).
The scan is `ScanGoesOn` with three outcomes: `RxIndication` (and its return),
`DropDescriptor`, end. In polling mode the scan indicates one frame, then
Receive computes its status with `lIsNextFrameAvailable`; in interrupt mode the
handler loops. The DMA may store frames between any two steps, `DmaReceives`
frames that fit, `DmaReceivesOversize` and `DmaReceivesRest` longer ones. RI and
RBU are one variable `irq`: the handler treats them alike and clears both.

### NetifTx and NetifRx

`NetifTx` follows one call of `low_level_output` at a time from ProvideTxBuffer
through Transmit (length minus header) to the scan of TxConfirmation. Its
initial states include a controller whose start failed: `EcuM_Init` ignores the
answer. `NetifRx` puts `netif_Indication` into the callback: pbuf_alloc
(unchecked), lwIP's input, which consumes, refuses or keeps the pbuf, and the
return; `memory` is what each DMA buffer holds, so that a pbuf without a copy can
be compared with its frame.

### MainLoop

One step per statement of the loop that touches a variable the interrupt
touches; `SystemTickIsr` between any two. `elapsed`, `missed`, `overrun`,
`lastRun`, `interval`, `ran` and `skipped` are history variables: no guard but
the bound on `elapsed` reads them.

### Echo

A callback is one action, because lwIP runs in the main loop. `Unpacked` is the
loop of `echoUnpack`; where the code would loop for ever (the packet in front
does not fit) the action sets `hung`, after which nothing happens. The storage is
abstracted to the number of bytes and whether the last one is a newline. The
answers of the two `tcp_write` calls are independent.

Connections follow each other; `es` is the session of the present one, `heap` the
number of sessions allocated and not freed, and `unclaimed` counts those allocated
by `echoAcceptNull`. That is the call lwIP makes of `echoAccept` when it has no pcb for a
client (`tcp_in.c:663-669`, at most 5 are configured): `newPcb` is NULL and `err`
ERR_MEM, the code looks at neither, `tcp_arg`, `tcp_recv`, `tcp_sent`, `tcp_err`, `tcp_poll`
and `tcp_write` do nothing with NULL, and lwIP ignores what is returned. The connections that
use up the pcbs are not part of the model: the call may come at any time. The histories of
bytes start anew with each connection.

`echoSent` changes nothing a property sees. Three branches of `echoRecv` and
`echoPoll` need a packet left over from an earlier callback (chaining, the
ES_CLOSING state); since `echoUnpack` returns only with none left they are in the
model but never taken. The error branch and the unknown state of `echoRecv`
(`Echo.c:213-222`, `246-252`) are not modelled: lwIP calls with ERR_OK only and
the state has no other value.

### Fee

`fee` is the state of the driver (`Fee_StateDataType`), lost in a reset; `flash` is
what survives; `job` is the one job the flash driver runs. `MainFunction` is one
call of `Fee_MainFunction`: `DecideMainJob` with its transition handlers and
then the handler of the main job, which looks at the result of the job that ended
and starts the next one, sometimes both in one call (`GoesOn`). Handlers are
operators from the driver's state to the next one, named after the functions.
The states of the code that differ only in the sector they name are one state
(`E_SP` is `FEE_GC_MARK_SECTOR0_E_SP` and its `INIT` variant, told apart by
`GcInit`).

A sector is a row of wordlines of `PerWL` slots; a slot holds a whole copy of a
block, header and pages together; a state page is a page and, programmed
after it, its marker. `Partial` is the fault model: a job that fails or is cut
off by a reset has done all, nothing, or left an unreadable page or a torn
marker; an erasure cut short leaves the pages of a kind as they were or
unreadable, or has erased them all. `Reset` includes `Fee_Init`, and `Boot` is what
`Fee_lSetInitGc` concludes from the flash.

`recovered` (what a reset and start-up would find now), `doubt` (values that may
still surface without being acknowledged), `failedWL`, `prepared` and the counters
are history variables: only bounds read them.

A read is a request like a write: it waits in `toRead`, is `reading` while its flash
job runs, and ends in the notification of that job. Once it has ended, a write of
its user goes straight from the read to the write handler, past the question whether
the collection allows it (`DecideMainJob`, `Fee.c:5307`). Reading an unreadable page
is not modelled: it marks the block inconsistent in the cache (`Fee.c:18881`).

Left out: reads that fail, quasi-static blocks, copies that cross wordlines (the delivered
blocks fit; the check of the previous block belongs to these), unerasable
wordlines, blocks no longer configured, previous copies (`FEE_GET_PREV_DATA_API`
is off), cycle counts, `FeeEraseAllEnable` (off), erase suspend, CancelAll,
DisableGcStart, and errors other than of verification.

## 3. The runs

Every passing property comes with a mutant in `PROJECT.json`: a plausible bug of
the mapped code which makes it fail under the same configuration.

| run | question | instance, distinct states |
|---|---|---|
| `ethtx` | Polled and with interrupts: do window, callbacks and ownership survive every interleaving with the DMA, callbacks and restarts, is the ring a queue, does the DMA follow it, and is no wake-up or confirmation lost? | both modes, 4 buffers, a length that fits and one that does not, handler loop of 2 rounds; 34016 |
| `ethtx_restart` | Violated: may the controller be stopped with frames queued? | 3 buffers, `StopsWhilePending` |
| `netif_tx` | Does `low_level_output` leak a buffer, and is every granted frame transmitted? | 3 buffers, the configured 1504 bytes of payload, frames of 60 and 1514; 301 |
| `netif_stuck` | Violated: does transmission go on? | frames of 60 |
| `ethrx` | Polled and with interrupts: do driver and DMA stay in step, time stamps with their frames, is the ring a queue, can "more data" be trusted, is every frame indicated and no stall forgotten? | both modes, 3 buffers, 2 frames, time stamps, frames of two buffers, handler loop of 2 rounds; 143939 |
| `netif_rx` | Is the frame intact while lwIP reads it, and is every pbuf accounted for on all paths? | 3 buffers, 3 pbufs, frames of one and of two pbufs, one kept; 12630 |
| `netif_rx_kept` | Violated: is a pbuf that lwIP keeps intact? | two kept |
| `mainloop` | Are ticks, timers, tasks and clock right wherever the interrupt comes? | modulus 8, periods 2 and 3, timers 1 to 4, 9 ticks; 93625 |
| `echo` | Is input complete, are lines answered, are sessions freed once? | storage of 3, segments of 1 to 3 bytes, 4 of them over all connections, heap of 2 sessions; 3452 |
| `echo_overfull` | Violated: do callbacks return? | the same |
| `fee` | Is the flash emulation a crash-safe store, whatever is cut off, fails or interleaves; is the cache right, is only blank flash programmed, and is every request answered? | 2 blocks, one immediate; 7 wordlines of 2 copies; blank and nearly full flash; 3 writes or invalidations of the immediate block, reads of it (`ReadFaults`: none after both a reset and a failure), one reset, one failing job; 830224 |
| `fee_undo` | Violated: does the cache lead to the latest copies after a collection's copy failed? | 2 blocks, one immediate; 7 wordlines of 2 copies, threshold 6; blank flash; 4 writes, one failing job |

### Bounds and why they are enough

* **Three or four buffers** (the configuration has 4 and 4); three are the smallest ring with a
  head, a tail and something between, with wrap, full and empty, a scan that
  stops in the middle, a frame with a context descriptor next to another frame,
  and a frame of two buffers plus context that takes the whole ring.
  The invariants of both rings are proved for every size.
* **Two frames**: enough to see a swap, a loss or a repetition. Frames only differ
  in name; no property depends on content.
* **MAXLOOPCNT** is 5 in the code, 1 here: the handler's loop is taken, and left
  by its limit with the flag raised.
* **Periods 2 and 3, timers of 1 to 4 ticks, 9 ticks, modulus 8** for 10 and 1000,
  100 to 1000 and 2^32: tasks fall together and apart, each timer expires at
  least twice, the counter wraps, and iterations take up to 9 ticks.
* **Storage of 3 bytes** for 256: it is filled exactly, by one or several segments,
  and overfilled. **4 segments** fill it more than once. `MaxRepeated` = 2 lets one
  or two refused preambles repeat a text.

* **Two blocks, one of them immediate** are the delivered configuration. **7 wordlines of
  2 copies, threshold 2**: state pages take two wordlines, a failure skips one more,
  so that a collection with a failed page still ends, or not, depending on where it
  fails; two copies in a wordline are enough for one to suffer from the other. Here every
  collection begins with a copy of block 0, or has nothing to copy again, so that
  finding 5 does not apply.
  **0 or 6 copies** at first: the preparation of a blank flash, and a sector whose
  second or third write starts a collection. **3 writes**: one that starts the
  collection, one during it, one after. **One reset and one failing job** anywhere,
  also both in one behaviour: a reset after a failed job, or a failure while the
  start-up continues what the reset cut off. Two resets without failures were
  checked as well (121563 states). **Reads of the
  immediate block, at any time until both a reset and a failure have happened**: this
  covers a read during every state of the collection, from either sector, before an
  erasure's result is looked at, and followed by a write that goes past the
  collection. **Invalidations of the immediate block**: an invalidation of the
  other one takes the path of a normal write.

### Fairness

* `EthTx!FairSpec`: the DMA engine goes on, and a scan that can go on does; the
  scan includes the entry of the interrupt handler, which the hardware takes as
  long as TI is set and interrupts are enabled. Nothing is assumed of the
  application.
* `EthRx!FairSpec`: scans go on. In polling mode this includes that Receive is
  called again and again, which `core0_main` does every tick. Nothing is assumed
  of the arrival of frames.
* `MainLoop!FairSpec`: the core executes statements. Nothing is assumed of the
  timer.
* `Echo!FairSpec`: `echoPoll` is called again and again (lwIP's slow timer) and
  sometimes finds room in the send buffer. A connection that never has room is
  the peer's doing. `MaxSegments` means that peers stop sending at some time; a line that
  waits for room is then sent by a poll (`CompleteLineEchoed`), unless unfinished
  text came behind it.
* `Fee!Fairness`: `Fee_MainFunction` is called again and again, as the AUTOSAR schedule
  (here the demo's loop) does, and every flash job ends, well or not. Nothing is
  assumed of the user.
* `NetifTx!NetifFairSpec`: the DMA sends, calls end, and lwIP keeps sending
  (the status report does every second). The counterexample of `netif_stuck`
  satisfies it: transmission stops although all of this continues.

## 4. What the models showed

Five findings have a run of their own and are quoted in `PROJECT.json`:

1. `ethtx_restart`: stopping or restarting the controller with frames queued
   leaves the OWN bits set; the driver grants the buffer again while the DMA may
   still send it.
2. `netif_stuck`: `TxConfirmation` is called only after a successful transmit. Once
   every buffer is sent but not confirmed, ProvideTxBuffer answers BUSY for ever
   and nothing is transmitted again.
3. `netif_rx_kept`: a pbuf kept by lwIP (out-of-order TCP segment, IP fragment)
   points into a DMA buffer that is reused.
4. `echo_overfull`: an unfinished line followed by a packet that does not fit makes
   `echoUnpack`, and the main loop with it, loop for ever.
5. `fee_undo`: after a failed copy the garbage collection goes back to the first block of
   the wordline and hands the remembered source addresses to the cache entries from there
   on, as if the copies of a wordline were those of consecutive blocks with the failed one behind them.
   But immediate data may be written during the collection, and is then copied in a
   second round. In the run block 1 was copied when block 0 is written for the first
   time, and the copy of block 0 fails in the wordline of block 1: the search goes on at block 1,
   finds nothing more to copy, and the new sector becomes VALID without block 0. Its value was
   acknowledged, a start-up no longer finds it, and the old sector is erased. Two copies in a wordline
   and the two blocks of the delivered configuration suffice. With three copies, two of them of one block,
   another block's entry is given the address of the first
   block's copy, is read as that, and loses its data (2 blocks, 14 wordlines of 3 copies,
   threshold 16, 21 copies at first, 6 writes). With more
   copies in the wordline than blocks configured the loop runs past the cache table
   (the model stops at its end). Likewise, with a never written block between two others,
   a latest copy stays in the wordline that failed (`NoBlockLeftInFailedWordline` does not hold
   with four blocks and three copies in a wordline).

Others were seen while modelling and are visible in the modules:

* `low_level_output` returns ERR_OK for frames it dropped (`netif.c:218`, its comment
  at lines 146-147 says otherwise): `OutputRefused`.
* It asks for `p->tot_len` bytes, header included, where the driver adds the header
  itself: a frame of the full MTU (1514) exceeds the limit of 1504 and is dropped
  (`netif.c:179`, `Eth.c:2536`): `ProvideOverflow` in `NetifTx`.
* A frame longer than one pool pbuf gets a chain, of which only the first payload
  points at the data (`netif.c:402`); with the pool exhausted the null pointer is
  written through (`Trapped` in `NetifRx`, reachable in its run).
* `echoSend` queues its text again if only the preamble was refused
  (`repeated` in `Echo`). A peer that closes its side loses a complete line that
  had no room yet (`echoRecvNull` does not look at the storage). Text that arrives while a
  complete line waits for room is appended to it; if it ends in the middle of a line,
  the complete one is held back with it until the peer ends its line or fills the
  storage (the exception in `CompleteLineEchoed`: without it the property fails).
* With all pcbs in use, each further request for a connection makes `echoAccept`
  allocate a session for no connection (`echoAcceptNull`): it does not look at `err` and
  `newPcb` (`Echo.c:160-191`). Nothing ever frees it; `unclaimed` in
  `SessionMatchesConnection` counts these sessions, and they may fill the heap.
* `sys_now` counts iterations: it loses the ticks that came while the flag was
  raised, for good (`missed` in `MainLoop`). A task may run twice for one tick if the
  interrupt comes between clearing the flag and reading the counter. An iteration
  longer than a tick leaves out the tasks of the ticks it skips, for a whole period;
  2^32 is no multiple of 10 or 1000, so at the wrap the tasks run 6 and 296 ms after
  their last run. `TasksOnTime` ends at the first overrun or wrap and so says nothing about
  either: it says that nothing else delays a task or leaves one out.
* A reset while a blank flash is prepared for the first time may leave states the next
  start-up takes as inconsistent: the initialisation fails then and at every start-up
  after it (`prepared` in `FailsOnlyAfterFault`). After the preparation this
  cannot happen without a fault: that is a theorem.
* A reset while the old sector is being erased makes the start-up erase it again and then
  run a whole collection, although the current sector is nearly empty. Immediate
  writes accepted between its copies are each copied again: they fill the new sector
  as fast as the current one, the collection ends without room (`NewSectorValid`)
  and gives up, although no job ever failed. With one immediate block and 7 wordlines of one
  copy, nine writes and two resets do it. This is why `FailsOnlyAfterFault` excepts a
  collection that copied a block twice; the three writes of the run are too few for it.
* A write accepted while the collection has failed is never executed, and one that
  waits while the collection ends without room is dropped with its result still
  pending (`NewSectorValid`; `GaveUp` in `RequestAnswered`).
* "More data available" may be answered for a frame of two buffers, which the next
  Receive drops: `MoreDataMeansMoreFrames` says so.

## 5. The proofs

`EthTxProofs`, for every ring size, set of lengths, payload limit, loop bound and
both confirmation modes:

* `TypeCorrect`: `[]TypeOK`, with `CountLeft` (a running callback has an iteration
  left) because the scan counter would otherwise leave its range.
* `RingWindowCorrect`, `CallbackCorrect`: `RingWindow` is not inductive. A release
  takes the buffer at `ConfirmTxBufIdx` out of the stretch only if that buffer is
  in it, so the invariant needs that a scan runs only on an initialised
  controller (`ScanReady`), and that the buffer whose callback runs stays used,
  initiated and with its confirmation requested (`CallbackBufferStable`): the
  implicit release inside the callback cannot take it. `RingInv` is `TypeInv`
  with these three. Its preservation rests on three lemmas about cyclic
  stretches: appending at the tail (`WindowGrows`), removing at the head
  (`WindowShrinks`), and a used buffer at the tail index means a full ring
  (`TailUsedMeansFull`).
* `BusyCorrect`: `BusyMeansAllInUse`, from `RingInv` and `TailUsedMeansFull`.
* `DmaOwnershipCorrect`: under `StopsWhilePending = FALSE`, the DMA owns only buffers
  passed to Transmit (`OwnInv`). Without that hypothesis it is false
  (`ethtx_restart`).

The rest counts round the ring: `CountInv` says that the used buffers are
those less than `UsedCount` ahead of `ConfirmTxBufIdx`, and follows from `RingInv`.
Every step of the driver or the DMA is one of six kinds of step of the ring
(`StepKinds`: grant, grant again, hand-over, send, release, none), or resets it.

* `DmaFollowsCorrect`: `DmaFollowsRing`, under `StopsWhilePending = FALSE`, from `DmaInv`, the
  same statement with distances from the head in place of positions.
* `InterruptCorrect`: `NoLostConfirmation`, from `ConfirmInv`: while the interrupt is not pending
  the scan has as many iterations left as there are sent buffers, or none is
  running and the head is not a sent one. It holds in spite of the bound on
  iterations because the ring has no more buffers than the scan has iterations,
  and a frame sent meanwhile raises the interrupt again.
* `ReleaseCorrect`: `NoUnconfirmedRelease`, an action property, from `RingInv`.

* `QueueCorrect`, under `StopsWhilePending = FALSE`: `EthTx` implements
  `EthTxQueue`. One lemma per kind of step maps it to a step of the queue or
  a stutter; `DmaInv` is what makes the buffer that is sent the first queued one.

`EthRxProofs`, for every number of descriptors, with and without time stamps, and both
modes of reception:

* `TypeCorrect`: `TypeOK` with a bound on the running scan.
* `InStepCorrect`, `TimestampCorrect`: `RxInStep` is not inductive: an indication gives two
  descriptors back if there is a time stamp, and both have to be closed ones. So
  `RingInv` adds that the descriptor after one with a time stamp is a closed
  context descriptor (`StampFollowed`), and what the running callback was given
  (`IndicatedFrame`). The lemmas are again those of a cyclic stretch that grows at one
  end and shrinks at the other, by one or two.
* `InterruptCorrect`: `NoLostRxInterrupt`, from `IrqCovers`: without a pending interrupt what the
  scan has still to visit fits into the iterations it has left.
* `MoreCorrect`: `MoreDataMeansMoreFrames`, from `MoreInv`.
* `RxQueueCorrect`: `EthRx` implements `EthRxQueue`. What the refinement maps to the queue
  is the row of closed descriptors without those that are not complete frames
  (`FramesOf`, a fold). Only the DMA lengthens the row, at its end (`SlotsGrow`), and only the
  driver shortens it, at its front (`SlotsShrink`); the lemmas `FramesOfAppend` and
  `FramesOfTail` carry both over to the frames. An indication with a time stamp gives
  back two descriptors, and `ContextInv` (a context descriptor is no frame) is what makes
  that one frame. A dropped descriptor is none at all, so its step stutters.

The same module about `NetifTx`: `HeldCorrect` and `TransmitCorrect`, from `HeldInv`: between the grant and
Eth_Transmit the buffer is held with the length that was asked for, and the
controller that granted it is still running.

The same module about `NetifRx`: every step of the interface is a step of the driver or leaves it alone
(`NetifStepIsDriverStep`), so `RingInv` is invariant here too (`RingCorrect`).
With it, a closed descriptor's buffer holds its frame (`BuffersHoldFrames`), because the
DMA stores only into buffers that are not closed: `InputCorrect`. `PoolCorrect`: `NoPbufLost`
from `PoolInv`, which says when the chain of the indication is its own and when lwIP's:
the pbufs in the pool, in the chain and in the queue of kept ones add up to the pool, where
the kept ones are a sum over a sequence from which lwIP may release any element.

`EchoProofs`, for every size of storage and all segments:

* `SessionCorrect`: `SessionMatchesConnection`, from `SessionInv` (the number of sessions in
  the heap is bounded): callbacks, session and connection come and go together, each
  session of a connection is freed once when it ends, and what else is in the heap was allocated
  without a pcb. Those are never freed, which `SessionMatchesConnection` states and does not
  excuse (section 4).
* `TypeCorrect`, `EchoCorrect`, `HangsCorrect`: `TypeOK`, `EchoIsComplete`, `HangsOnlyIfOverfull`,
  all from `EchoInv`. It adds that between two callbacks no packet is left over,
  unless the loop of `echoUnpack` does not end, and then the packet in front does not
  fit: hence the chaining in `echoRecv` and the unpacking in `echoRecvNull` are never
  reached. That the loop takes every packet that fits, once, is an induction over its
  turns, with `Halfway` as the invariant (bytes taken, bytes left, the first packet left).

`SequenceLemmas` has what these proofs need of sequences and of the folds of the
community modules. The library's induction theorems take an operator as a parameter and
cannot be used here, so induction is over an explicit set of numbers: were there a
number not in it, there would be a least one (`LeastElement`, `SetInduction`, from the fact
that < is well founded on the natural numbers). With it: a fold over 1 .. n is the last value of its
recursion (`LastIsMax`, `FirstNumbers`), and the sum of a concatenation, a tail or a sequence with
an element removed is what one expects (`TotalOfConcat`, `TotalOfTail`, `TotalOfRemoveAt`).
The facts about quotient and remainder by any number (`DivisionFacts`, `DivisionUnique`) serve
the timers of `MainLoop` and the wordlines of `Fee`.

`MainLoopProofs`, for every modulus, period and set of timers and tasks:

* `TypeCorrect`, with `RunsPast` (no task ran in the future), because an interval
  would otherwise not be a natural number.
* `TicksTakenUp`: `NoTickForgotten`, from `TickInv`: outside the two statements that
  clear and read, an unraised flag means the tick was read.
* `ClockCorrect`: `ClockLosesOnlyMissedTicks`, from `ClockInv`: the clock, the missed
  ticks and the ticks announced or taken up but not yet counted (`Owed`) add up
  to the time.
* `ExpiriesCorrect`: `EveryExpiryPolled`, from `ExpiryInv`: each timer is the clock modulo its
  period, and what was served, left out or is flagged is their quotient.
* `TasksCorrect`: `TasksOnTime`, from `TaskInv`: until the first overrun or wrap the tick
  counter is the time, and each task last ran at the last multiple of its period; hence
  no run is left out either.
  Both rest on lemmas about quotient and remainder (`DivisionOfNext`, `NextMultiple`).

`FeeProofs`, for every number of blocks and which of them are immediate, every size of sector
and wordline and every threshold, with any number of writes and of resets that may cut off
any job:

* `FeeInvariant`: `FInv` of `FeeInv`, which says what holds until a job of the flash driver fails.
* `FlashCorrect`: `ProgramsBlankFlash` until then.
* `CacheCorrect`: `CacheShowsStore` until then.
* `StoreCorrect`: if no job fails (`MaxFails = 0`), `Fee` implements `FeeStore`: atomic writes, and
  an acknowledged value survives resets and collections.
* `FailsCorrect`: `FailsOnlyAfterFault`.

The restriction to flash jobs that do not fail is not for convenience: after a failed copy
`CacheShowsStore` is false for some values of the constants (`fee_undo`, finding 5). A reset in
the middle of a job is no failure here: every outcome of `Partial` is allowed for.
For what failures leave untouched see `FeeFaultProofs` below.

None of the properties is inductive, or nearly so. All that a start-up has is the flash, so `FlashOk`
says what shape both sectors keep whatever happens: an ERASED page only in the first
slot, at most one VALID page, at the beginning of a wordline, copies behind the first
wordline, no hole in front of a used page of a wordline, and no equal counts of two VALID
pages. A job is harmless if each of its partial outcomes leaves that shape (`JobSafe`,
`JobsAreSafe`), so `Reset` keeps the invariant if a start-up from any such flash establishes it
(`BootInv`). The other parts tie the driver's state to the flash, each for one phase:
`UserInv` (the slot a write goes to and where the blank part begins, since a wordline may be
half used), `PrepInv` and `StartInv` (how far the first preparation is; what a
torn marker and a sector to be erased look like to the start-up), `GcInv` (which sector
governs and what the busy step has put into the other one), `CacheInv` (each entry leads to the
latest copy in the sector it names; a moved one has the same value as the latest copy
in the old sector), `DoubtInv` (the history variables). They are operators of a flash, a
state of the driver and a job, because the main function first chooses a job, which may
move the next free page or request a collection (`DecideStep`), and then runs a handler that may look
at a result and start the next job in one call. There is one lemma per handler and state
of the collection. `FInv` and `GoesOnInv` were checked with TLC on the instance of `fee` before
they were proved.

The refinement rests on `RecoveredAfter`: what a start-up would find changes only by the user's
own copy; neither the copies of a collection, nor the marker that hands over to the new sector,
nor the erasure of the old one change it, whole or cut off. `FailsCorrect` adds two arguments. The governing
sector survives every partial outcome (`GovernedAfter`), so a start-up of a prepared flash
always finds one. And a collection fills its sector without a gap (`FillInv`), so one that has
copied no block twice has used no more slots than there are blocks (`RoomLeft`, by counting), and
where there is room for these (`Roomy`) it does not give up.

`FeeFaultProofs`, for the same constants, any number of writes and resets, and any number of
failing jobs:

* `FaultFlashCorrect`: `ProgramsBlankFlash`, if a sector has six wordlines or more and as long as `UndoExact`
  holds.
* `FaultFlashOneCopy`: `ProgramsBlankFlash` where a copy takes a whole wordline.

Here `FInv` is of no use: a job that fails may have done nothing, half or all of its work, and so
may a reset after it, so that neither the shape of a sector nor what a start-up finds in it is what it
was. `FaultInv` keeps what is left. Of a flash: a used wordline is used from its first slot on
(`InOrder`), because nothing is ever programmed into the rest of a wordline whose first slot is
blank. Of the driver: where the blank part of each sector begins, given as one clause for each step that
programs, with the job that runs (`Programming`, `PageRuns`, `MarkerRuns`) or the result that waits
(`Ended`, `PageEnded`, `MarkerEnded`), of which nothing is known when it is FAIL but that what lies behind it is
still blank. That suffices because the driver never programs there again: after a failed copy, state
page or marker it skips to the next wordline but one. A
start-up knows nothing but the flash, and takes up the first wordline with a blank first slot
(`Open`); this is why `InOrder` has to survive everything. The recopying of a failed wordline counts its copies
against their number, so it stays in the wordline it has moved to (`UserFault`), and a collection has
in its wordline exactly the copies whose sources it remembers (`GcFault`).

`UndoExact` says that when a copy of a collection fails, the sources remembered belong to consecutive blocks from
the first of the wordline, and the block that failed is not before it. Where that is not so finding 5
applies: a cache entry may then lead to a slot that is blank or was erased, and the cell a collection
copies from there is anything. It is a condition on behaviours, not on the constants; it was
checked that the run `fee` satisfies it, and with one copy per wordline it always holds.
Six wordlines are needed because the first preparation of a flash may fail twice and each
retry skips a wordline; the code does not check that a sector has them.

`FeeWordlineProofs`, for the same constants, while at most one job has failed:

* `WordlineCorrect`: `NoBlockLeftInFailedWordline`, if a sector has six wordlines or more and as long as
  `UndoExact` holds.
* `WordlineOneCopy`: the same where a copy takes a whole wordline.

The property speaks of the moments when nothing is being dealt with; `WordlineInv` says of every
other moment how far that is. In the initialisation (`StartLeft`) the wordline holds no copy, and the
state page tried again lies behind it. A write (`UserLeft`) has either failed just now, or
makes the latest copies of the wordline again from its first to its last, so that those still to be made
lie from the one in hand on, or is done, with the next free page behind the wordline. A
collection (`GcLeft`) has either failed just now, or has taken all of the wordline's copies back, for which
the remembered sources have to be those of the blocks whose entries lead into it (`RowInv`; here `UndoExact`
is needed again), and goes on behind it. Between failure and handling the driver must not miss the
failure: counts and steps stand as at first (`FirstFailure`).

When the first failure comes nothing has failed before, so there the strong invariant `FInv` still holds,
with one addition, `AloneInv`: a VALID page has its wordline for itself. It is what makes a failed
marker of a repaired page harmless: were there copies behind the page, the start-up would leave
them in a wordline it has just found to fail. `AloneInv` in turn needs that a start-up looks for the
next free page behind the page it took as the latest. `WordlineInv` and `AloneInv` were checked with TLC on
five instances (one to four blocks, one to three copies in a wordline) before they were proved.

The proofs assume only the named ASSUMEs of the constants (`TxConstants`,
`RxConstants`, `LoopConstants`, ...), which TLC evaluates on every instance, and, where it
says so, `StopsWhilePending = FALSE`.

Model-checked only: the liveness properties (`HeadFrameConfirmed`, `RequestAnswered` and their like;
out of the prover's reach, like ENABLED), and of `Fee` after a flash job failed `CacheShowsStore`
and `ImplementsStore`. Neither is a theorem for all constants: they are violated when two or three copies
share a wordline and one of them fails (finding 5). Nor is `NoBlockLeftInFailedWordline` without its
two conditions: that violates it too, and so does a write that fails twice, because the driver then
gives the write up and makes the other copies of its wordline no more (`MCFee.cfg` has one failing job).

## 6. Assumptions and limits

* External, modelled from how `src/` uses them: the DMA channels, lwIP and its
  pools, the interrupt controller, the timer. The Rx DMA is assumed to close
  the descriptor of a frame and its context descriptor before the driver sees
  either: `lReceiveFrames` frees the context descriptor without looking at its
  OWN bit (`Eth.c:6597`), and would lose step with a DMA that does otherwise.
* The application transmits only buffers it was granted and has not passed on, and
  each frame has at least its header. Init and SetControllerMode are called from
  the main program, GetIngressTimeStamp from the callback, Provide and Transmit
  from either.
* `StopsWhilePending = FALSE` in the runs and theorems named above.
* Transmission and reception are checked apart. They share the initialisation state
  and SetControllerMode, whose actions both modules have, and nothing else.
* The shipped configuration polls (`netif_tx`, `netif_rx` and the main loop do so);
  the interrupt mode is checked as an option of the driver.
* A flash job for Fee ends before the next one starts (one job at a time is what Fee
  itself observes), and a page read after a cut-off job is either readable or not,
  the same at every reading.
* A volatile qualifier is missing on `SystemTickUpdateFlag` (`Cpu0_Main.c:77`); the
  model takes every access as a memory access.

## 7. Not modelled

* **Addresses, time and statistics of the Ethernet driver**: registers and report
  counters without state shared with the rings.
* **Reads of the flash emulation that fail, quasi-static blocks, copies that cross
  wordlines, unerasable wordlines**: see Fee above. The command sequences of the flash driver are
  its environment.
* **PHY, start-up code, Mcu, Port, Dio, Smu, Stm**: register set-up and polling of
  hardware, straight-line code.
* **lwIP**: vendored; appears as the calls it makes and the answers it gives. The
  hazard of the status report (one pbuf sent every second, perhaps while ARP still holds
  it) depends on its reference counts.
* **McalLib's spinlocks**: taken by the demos, trap handlers and drivers outside the
  network path; nothing modelled here runs on two cores.
* **Spi, Uart, Wdg, Can, Adc, Dma, Lin, Fr, I2c, Icu, Pwm, Ocu, Dsadc, FlsLoader, CanTrcv,
  Crc, Bfx**: used by the application not at all or by one call from a cyclic task
  whose result nothing depends on. Of these the sequence queue of Spi, the state
  machines of Uart and Can, and the group queue of Adc have state machines of their own
  that are worth a module when the application comes to use them.

Each hazard in `PROJECT.json` without a property says why.
