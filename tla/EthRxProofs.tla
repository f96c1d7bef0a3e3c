---------------------------- MODULE EthRxProofs ----------------------------
(***************************************************************************)
(* Theorems about EthRx for every number of descriptors, every set of      *)
(* frames, with and without time stamps, polled and interrupt driven:      *)
(* driver and DMA stay in step, and the ring implements the queue          *)
(* EthRxQueue.  The last section is about the user of the driver, NetifRx, *)
(* for every pool: the network interface reads the frame it was given, and *)
(* every pbuf is accounted for.                                            *)
(***************************************************************************)
EXTENDS NetifRx, SequenceLemmas, FiniteSetTheorems

-----------------------------------------------------------------------------
(* The ring. *)

LEMMA ConstantFacts ==
  /\ EthRxBufTotal \in Nat \ {0, 1}
  /\ MaxLoopCnt \in Nat
  /\ NA \notin Buffers
  /\ Timestamps \in BOOLEAN
  /\ 0 \in Buffers
  <1>1. /\ EthRxBufTotal \in Nat \ {0, 1}
        /\ MaxLoopCnt \in Nat
        /\ NA \notin Buffers
        /\ Timestamps \in BOOLEAN
    BY RxConstants
  <1> QED
    BY <1>1 DEF Buffers

\* The ring successor stays in the ring, and wraps at the last index only.
LEMMA Successor ==
  ASSUME NEW i \in Buffers
  PROVE  /\ lIncrRxBufIdx(i) \in Buffers
         /\ lIncrRxBufIdx(i) = IF i = EthRxBufTotal - 1 THEN 0 ELSE i + 1
  <1>1. EthRxBufTotal \in Nat \ {0, 1}
    BY ConstantFacts
  <1>2. CASE i < EthRxBufTotal - 1
    <2>1. (i + 1) % EthRxBufTotal = i + 1
      BY <1>1, <1>2 DEF Buffers
    <2> QED
      BY <1>1, <1>2, <2>1 DEF Buffers, lIncrRxBufIdx
  <1>3. CASE i = EthRxBufTotal - 1
    <2>1. (i + 1) % EthRxBufTotal = 0
      BY <1>1, <1>3
    <2> QED
      BY <1>1, <1>3, <2>1 DEF Buffers, lIncrRxBufIdx
  <1> QED
    BY <1>1, <1>2, <1>3 DEF Buffers

\* The descriptors the DMA looks ahead at are the successors of its own.
LEMMA AheadIsSuccessor ==
  ASSUME dmaIdx \in Buffers
  PROVE  /\ Ahead(0) = dmaIdx
         /\ Ahead(1) = lIncrRxBufIdx(dmaIdx)
         /\ Ahead(2) = lIncrRxBufIdx(lIncrRxBufIdx(dmaIdx))
  <1>1. EthRxBufTotal \in Nat \ {0, 1}
    BY ConstantFacts
  <1>2. Ahead(0) = dmaIdx
    <2>1. dmaIdx % EthRxBufTotal = dmaIdx
      BY <1>1 DEF Buffers
    <2> QED
      BY <2>1 DEF Ahead, Buffers
  <1>3. Ahead(1) = lIncrRxBufIdx(dmaIdx)
    BY DEF Ahead, lIncrRxBufIdx
  <1>4. Ahead(2) = lIncrRxBufIdx(lIncrRxBufIdx(dmaIdx))
    <2> DEFINE n == EthRxBufTotal
    <2>1. CASE dmaIdx < n - 2
      <3>1. (dmaIdx + 2) % n = dmaIdx + 2
        BY <1>1, <2>1 DEF Buffers
      <3> QED
        BY <1>1, <2>1, <3>1, Successor DEF Ahead, Buffers
    <2>2. CASE dmaIdx = n - 2
      <3>1. (dmaIdx + 2) % n = 0
        BY <1>1, <2>2
      <3> QED
        BY <1>1, <2>2, <3>1, Successor DEF Ahead, Buffers
    <2>3. CASE dmaIdx = n - 1
      <3>1. (dmaIdx + 2) % n = 1
        BY <1>1, <2>3
      <3>2. lIncrRxBufIdx(dmaIdx) = 0 /\ lIncrRxBufIdx(0) = 1
        BY <1>1, <2>3, Successor, ConstantFacts
      <3> QED
        BY <3>1, <3>2 DEF Ahead
    <2> QED
      BY <1>1, <2>1, <2>2, <2>3 DEF Buffers
  <1> QED
    BY <1>2, <1>3, <1>4

\* Which distance from the DMA's index a descriptor has.
LEMMA Distance ==
  ASSUME dmaIdx \in Buffers, NEW i \in Buffers
  PROVE  LET k == (i - dmaIdx) % EthRxBufTotal
         IN  /\ k \in Nat
             /\ k = 0 <=> i = dmaIdx
             /\ k = 1 <=> i = lIncrRxBufIdx(dmaIdx)
  <1> DEFINE n == EthRxBufTotal
             k == (i - dmaIdx) % n
  <1>1. n \in Nat \ {0, 1}
    BY ConstantFacts
  <1>2. CASE i >= dmaIdx
    <2>1. k = i - dmaIdx
      BY <1>1, <1>2 DEF Buffers
    <2> QED
      BY <1>1, <1>2, <2>1, Successor DEF Buffers
  <1>3. CASE i < dmaIdx
    <2>1. k = i - dmaIdx + n
      BY <1>1, <1>3 DEF Buffers
    <2> QED
      BY <1>1, <1>3, <2>1, Successor DEF Buffers
  <1> QED
    BY <1>1, <1>2, <1>3 DEF Buffers

\* The descriptors R are exactly those from index a up to index b.
InStep(R, a, b) == IF a = b THEN R = {} \/ R = Buffers ELSE R = Stretch(a, b)

\* How many they are.
Used(R, a, b) ==
  IF a = b THEN (IF R = {} THEN 0 ELSE EthRxBufTotal)
  ELSE IF a < b THEN b - a ELSE b - a + EthRxBufTotal

\* The DMA extends the stretch at its end ...
LEMMA StretchGrows ==
  ASSUME NEW a \in Buffers, NEW b \in Buffers, NEW R \in SUBSET Buffers,
         InStep(R, a, b), b \notin R
  PROVE  InStep(R \cup {b}, a, lIncrRxBufIdx(b))
  <1> DEFINE c == lIncrRxBufIdx(b)
  <1>1. EthRxBufTotal \in Nat \ {0, 1}
    BY ConstantFacts
  <1>2. c \in Buffers /\ c = IF b = EthRxBufTotal - 1 THEN 0 ELSE b + 1
    BY Successor
  <1> HIDE DEF c
  <1>3. CASE a = b
    <2>1. R = {} /\ c /= a
      BY <1>1, <1>2, <1>3 DEF InStep, Buffers
    <2>2. Stretch(a, c) = {b}
      BY <1>1, <1>2, <1>3 DEF Stretch, Buffers
    <2> QED
      BY <2>1, <2>2 DEF InStep, c
  <1>4. CASE a /= b
    <2>1. R = Stretch(a, b)
      BY <1>4 DEF InStep
    <2>2. CASE c = a
      <3>1. R \cup {b} = Buffers
        BY <1>1, <1>2, <1>4, <2>1, <2>2 DEF Stretch, Buffers
      <3> QED
        BY <2>2, <3>1 DEF InStep, c
    <2>3. CASE c /= a
      <3>1. R \cup {b} = Stretch(a, c)
        BY <1>1, <1>2, <1>4, <2>1, <2>3 DEF Stretch, Buffers
      <3> QED
        BY <2>3, <3>1 DEF InStep, c
    <2> QED
      BY <2>2, <2>3
  <1> QED
    BY <1>3, <1>4

\* ... and the driver shortens it at its beginning.
LEMMA StretchShrinks ==
  ASSUME NEW a \in Buffers, NEW b \in Buffers, NEW R \in SUBSET Buffers,
         InStep(R, a, b), a \in R
  PROVE  /\ InStep(R \ {a}, lIncrRxBufIdx(a), b)
         /\ Used(R \ {a}, lIncrRxBufIdx(a), b) = Used(R, a, b) - 1
  <1> USE ConstantFacts DEF Buffers
  <1>1. lIncrRxBufIdx(a) = IF a = EthRxBufTotal - 1 THEN 0 ELSE a + 1
    BY Successor
  <1>2. InStep(R \ {a}, lIncrRxBufIdx(a), b)
    <2>1. CASE a < EthRxBufTotal - 1
      BY <1>1, <2>1 DEF InStep, Stretch
    <2>2. CASE a = EthRxBufTotal - 1
      BY <1>1, <2>2 DEF InStep, Stretch
    <2> QED
      BY <2>1, <2>2
  <1>3. lIncrRxBufIdx(a) = b => R \ {a} = {}
    <2>1. SUFFICES ASSUME lIncrRxBufIdx(a) = b PROVE R \subseteq {a}
      OBVIOUS
    <2>2. a /= b /\ R = Stretch(a, b)
      BY <1>1, <2>1 DEF InStep
    <2> QED
      BY <1>1, <2>1, <2>2 DEF Stretch
  <1>4. Used(R \ {a}, lIncrRxBufIdx(a), b) = Used(R, a, b) - 1
    <2>1. CASE a = b
      BY <1>1, <2>1 DEF Used
    <2>2. CASE a /= b
      BY <1>1, <1>3, <2>2 DEF Used
    <2> QED
      BY <2>1, <2>2
  <1> QED
    BY <1>2, <1>4

\* The descriptor before the first one is in the stretch only if all are.
LEMMA PredecessorMeansFull ==
  ASSUME NEW a \in Buffers, NEW b \in Buffers, NEW R \in SUBSET Buffers,
         InStep(R, a, b), NEW i \in R, lIncrRxBufIdx(i) = a
  PROVE  a = b
  <1> USE ConstantFacts DEF Buffers
  <1>1. lIncrRxBufIdx(i) = IF i = EthRxBufTotal - 1 THEN 0 ELSE i + 1
    BY Successor
  <1>2. i \notin Stretch(a, b) \/ a = b
    BY <1>1 DEF Stretch
  <1> QED
    BY <1>2 DEF InStep

LEMMA UsedBounds ==
  ASSUME NEW a \in Buffers, NEW b \in Buffers, NEW R \in SUBSET Buffers,
         InStep(R, a, b)
  PROVE  /\ Used(R, a, b) \in 0 .. EthRxBufTotal
         /\ a \in R => Used(R, a, b) > 0
  BY ConstantFacts DEF Buffers, InStep, Used, Stretch

-----------------------------------------------------------------------------
(* The inductive invariant. *)

\* While the callback runs the scan has an iteration left to finish.
CountLeft == InCallback => scan.BufferCount < EthRxBufTotal

TypeInv == TypeOK /\ CountLeft

\* A scan only runs once the controller is initialised.
ScanReady == ~MainRuns => cntrlInit

\* The frame the callback is given stays a complete one; the driver's index
\* and the number of descriptors to free agree about its time stamp.
IndicatedFrame ==
  InCallback =>
    /\ scan.start \in Received
    /\ Complete(desc[scan.start])
    /\ IF desc[scan.start].TSA
       THEN /\ CurrRxDmaDescIdx = lIncrRxBufIdx(scan.start)
            /\ scan.BufferClearCount = 2
       ELSE /\ CurrRxDmaDescIdx = scan.start
            /\ scan.BufferClearCount = 1

\* A frame with a time stamp is followed by its context descriptor.
StampFollowed ==
  cntrlInit =>
    \A i \in Received :
      desc[i].TSA => /\ lIncrRxBufIdx(i) /= dmaIdx
                     /\ lIncrRxBufIdx(i) \in Received
                     /\ desc[lIncrRxBufIdx(i)].CTXT

RingInv ==
  /\ TypeInv
  /\ ScanReady
  /\ RxInStep
  /\ IndicatedFrame
  /\ StampFollowed
  /\ TimestampBelongsToFrame

\* Without a pending interrupt the DMA has closed nothing since the scan began:
\* what the scan has still to visit fits into the iterations it has left, and
\* afterwards nothing is left over.
IrqCovers ==
  RxIntEnabled /\ cntrlInit /\ ~irq =>
    /\ scan.at \in {"idle", "done"} => ~dmaSuspended
    /\ dmaPending = "none" =>
         IF scan.at \in {"idle", "done"}
         THEN desc[CurrRxDmaDescIdx].OWN
         ELSE Used(Received, First, dmaIdx) + scan.BufferCount <= EthRxBufTotal

-----------------------------------------------------------------------------
(* What the DMA does to the ring. *)

LEMMA ClosesOne ==
  ASSUME TypeOK, NEW d \in Descriptor, NEW pending, DmaCloses(<<d>>, pending)
  PROVE  /\ desc[dmaIdx].OWN
         /\ desc' = [desc EXCEPT ![dmaIdx] = d]
         /\ dmaIdx' = lIncrRxBufIdx(dmaIdx)
  <1>1. dmaIdx \in Buffers /\ desc \in [Buffers -> Descriptor]
    BY DEF TypeOK
  <1>2. Len(<<d>>) = 1 /\ <<d>>[1] = d
    OBVIOUS
  <1>3. desc[Ahead(0)].OWN /\ dmaIdx' = Ahead(1)
    BY <1>2 DEF DmaCloses
  <1>4. \A i \in Buffers : desc'[i] = IF i = dmaIdx THEN d ELSE desc[i]
    <2> SUFFICES ASSUME NEW i \in Buffers
                 PROVE  desc'[i] = IF i = dmaIdx THEN d ELSE desc[i]
      OBVIOUS
    <2> DEFINE k == (i - dmaIdx) % EthRxBufTotal
    <2>1. k \in Nat /\ (k = 0 <=> i = dmaIdx)
      BY <1>1, Distance
    <2>2. desc'[i] = IF k < 1 THEN <<d>>[k + 1] ELSE desc[i]
      BY <1>2 DEF DmaCloses
    <2>3. k < 1 <=> k = 0
      BY <2>1
    <2> HIDE DEF k
    <2> QED
      BY <1>2, <2>1, <2>2, <2>3
  <1>5. desc' = [i \in Buffers |-> desc'[i]]
    BY DEF DmaCloses
  <1> QED
    BY <1>1, <1>3, <1>4, <1>5, AheadIsSuccessor

LEMMA ClosesTwo ==
  ASSUME TypeOK, NEW d \in Descriptor, NEW e \in Descriptor, NEW pending,
         DmaCloses(<<d, e>>, pending)
  PROVE  LET next == lIncrRxBufIdx(dmaIdx)
         IN  /\ desc[dmaIdx].OWN /\ desc[next].OWN
             /\ desc' = [desc EXCEPT ![dmaIdx] = d, ![next] = e]
             /\ dmaIdx' = lIncrRxBufIdx(next)
  <1> DEFINE next == lIncrRxBufIdx(dmaIdx)
  <1>1. /\ dmaIdx \in Buffers /\ desc \in [Buffers -> Descriptor]
        /\ next \in Buffers /\ next /= dmaIdx
    <2>1. dmaIdx \in Buffers /\ desc \in [Buffers -> Descriptor]
      BY DEF TypeOK
    <2>2. next \in Buffers /\ next = IF dmaIdx = EthRxBufTotal - 1 THEN 0 ELSE dmaIdx + 1
      BY <2>1, Successor
    <2> QED
      BY <2>1, <2>2, ConstantFacts DEF Buffers
  <1>2. Len(<<d, e>>) = 2 /\ <<d, e>>[1] = d /\ <<d, e>>[2] = e
    OBVIOUS
  <1>3. desc[Ahead(0)].OWN /\ desc[Ahead(1)].OWN /\ dmaIdx' = Ahead(2)
    BY <1>2 DEF DmaCloses
  <1>4. \A i \in Buffers : desc'[i] = IF i = dmaIdx THEN d
                                      ELSE IF i = next THEN e ELSE desc[i]
    <2> SUFFICES ASSUME NEW i \in Buffers
                 PROVE  desc'[i] = IF i = dmaIdx THEN d
                                   ELSE IF i = next THEN e ELSE desc[i]
      OBVIOUS
    <2> DEFINE k == (i - dmaIdx) % EthRxBufTotal
    <2>1. k \in Nat /\ (k = 0 <=> i = dmaIdx) /\ (k = 1 <=> i = next)
      BY <1>1, Distance
    <2>2. desc'[i] = IF k < 2 THEN <<d, e>>[k + 1] ELSE desc[i]
      BY <1>2 DEF DmaCloses
    <2>3. k < 2 <=> k = 0 \/ k = 1
      BY <2>1
    <2> HIDE DEF k, next
    <2> QED
      BY <1>2, <2>1, <2>2, <2>3
  <1>5. desc' = [i \in Buffers |-> desc'[i]]
    BY DEF DmaCloses
  <1>6. desc' = [desc EXCEPT ![dmaIdx] = d, ![next] = e]
    <2> HIDE DEF next
    <2> QED
      BY <1>1, <1>4, <1>5
  <1> QED
    BY <1>1, <1>3, <1>6, AheadIsSuccessor

LEMMA DescriptorTypes ==
  /\ Fresh \in Descriptor
  /\ ContextDescriptor \in Descriptor
  /\ \A first, last, stamped \in BOOLEAN, frame \in Frames \cup {NA} :
       Closed(first, last, frame, stamped) \in Descriptor
  BY DEF Fresh, ContextDescriptor, Closed, Descriptor

\* The three ways in which a step of the DMA extends the closed descriptors: by
\* one without time stamp, or by one with time stamp and its context descriptor.
DmaClosesOne(d) ==
  /\ d \in Descriptor /\ ~d.OWN /\ ~d.TSA
  /\ Complete(d) => d.data \in Frames /\ ~d.CTXT
  /\ desc[dmaIdx].OWN
  /\ desc' = [desc EXCEPT ![dmaIdx] = d]
  /\ dmaIdx' = lIncrRxBufIdx(dmaIdx)

DmaClosesTwo(d) ==
  LET next == lIncrRxBufIdx(dmaIdx)
  IN  /\ d \in Descriptor /\ ~d.OWN
      /\ Complete(d) => d.data \in Frames /\ ~d.CTXT
      /\ desc[dmaIdx].OWN /\ desc[next].OWN
      /\ desc' = [desc EXCEPT ![dmaIdx] = d, ![next] = ContextDescriptor]
      /\ dmaIdx' = lIncrRxBufIdx(next)

LEMMA DmaSteps ==
  ASSUME TypeOK, Dma
  PROVE  /\ UNCHANGED <<driver, status, hwActive, scan, rxStatus>>
         /\ irq' \in BOOLEAN
         /\ irq => irq'
         /\ \/ /\ \E d \in Descriptor : DmaClosesOne(d) \/ DmaClosesTwo(d)
               /\ dmaSuspended' = dmaSuspended
               /\ dmaPending' \in {"none", "rest", "rest, context"}
               /\ irq' \/ dmaPending' /= "none"
            \/ /\ UNCHANGED <<desc, dmaIdx, dmaPending>>
               /\ dmaSuspended' \in BOOLEAN /\ irq'
  <1> USE DescriptorTypes
  <1>1. ASSUME NEW d \in Descriptor, NEW pending \in {"none", "rest", "rest, context"},
               ~d.OWN, ~d.TSA, Complete(d) => d.data \in Frames /\ ~d.CTXT,
               DmaCloses(<<d>>, pending)
        PROVE  /\ DmaClosesOne(d)
               /\ UNCHANGED <<driver, status, hwActive, scan, rxStatus, dmaSuspended>>
               /\ dmaPending' = pending /\ irq' = (irq \/ pending = "none")
    BY <1>1, ClosesOne DEF DmaClosesOne, DmaCloses
  <1>2. ASSUME NEW d \in Descriptor, ~d.OWN, NEW stamped \in BOOLEAN,
               d.TSA => stamped, Complete(d) => d.data \in Frames /\ ~d.CTXT,
               DmaCompletes(d, stamped)
        PROVE  /\ DmaClosesOne(d) \/ DmaClosesTwo(d)
               /\ UNCHANGED <<driver, status, hwActive, scan, rxStatus, dmaSuspended>>
               /\ dmaPending' = "none" /\ irq' = TRUE
    <2>1. CASE stamped
      <3>1. DmaCloses(<<d, ContextDescriptor>>, "none")
        BY <1>2, <2>1 DEF DmaCompletes
      <3> QED
        BY <1>2, <3>1, ClosesTwo DEF DmaClosesTwo, DmaCloses
    <2>2. CASE ~stamped
      <3>1. DmaCloses(<<d>>, "none")
        BY <1>2, <2>2 DEF DmaCompletes
      <3> QED
        BY <1>1, <1>2, <2>2, <3>1
    <2> QED
      BY <2>1, <2>2
  <1>3. ASSUME NEW first \in BOOLEAN, NEW last \in BOOLEAN,
               NEW frame \in Frames \cup {NA}, NEW stamped \in BOOLEAN
        PROVE  LET d == Closed(first, last, frame, stamped)
               IN  /\ d \in Descriptor /\ ~d.OWN /\ d.TSA = (last /\ stamped)
                   /\ Complete(d) => first /\ last
                   /\ d.data = frame /\ ~d.CTXT
    BY DEF Closed, Complete
  <1>4. irq \in BOOLEAN /\ {FALSE, Timestamps} \subseteq BOOLEAN
    BY ConstantFacts DEF TypeOK
  <1>5. CASE \E frame \in Frames, stamped \in {FALSE, Timestamps} :
               DmaReceives(frame, stamped)
    <2>1. PICK frame \in Frames, stamped \in {FALSE, Timestamps} :
                 DmaReceives(frame, stamped)
      BY <1>5
    <2> DEFINE d == Closed(TRUE, TRUE, frame, stamped)
    <2>2. /\ d \in Descriptor /\ ~d.OWN /\ (d.TSA => stamped)
          /\ Complete(d) => d.data \in Frames /\ ~d.CTXT
          /\ stamped \in BOOLEAN
      <3>1. stamped \in BOOLEAN
        BY <1>4
      <3>2. d \in Descriptor /\ ~d.OWN /\ d.TSA = (TRUE /\ stamped)
            /\ d.data = frame /\ ~d.CTXT
        BY <1>3, <3>1
      <3> HIDE DEF d
      <3> QED
        BY <3>1, <3>2
    <2>3. DmaCompletes(d, stamped)
      BY <2>1 DEF DmaReceives
    <2> HIDE DEF d
    <2> QED
      BY <1>2, <2>2, <2>3
  <1>6. CASE \E stamped \in {FALSE, Timestamps} : DmaReceivesOversize(stamped)
    BY <1>1, <1>3, <1>4, <1>6 DEF DmaReceivesOversize
  <1>7. CASE DmaReceivesRest
    BY <1>2, <1>3, <1>4, <1>7 DEF DmaReceivesRest
  <1>8. CASE DmaSuspends
    BY <1>8 DEF DmaSuspends
  <1> QED
    BY <1>5, <1>6, <1>7, <1>8 DEF Dma

-----------------------------------------------------------------------------
(* Types. *)

ScanRecord ==
  [at : {"idle", "test", "callback", "done"}, start : Buffers,
   BufferCount : 0 .. EthRxBufTotal, BufferClearCount : 0 .. 2,
   ApplIndication : BOOLEAN, MaxLoops : 0 .. MaxLoopCnt]

LEMMA TypeFacts ==
  /\ TypeOK => /\ desc \in [Buffers -> Descriptor]
               /\ CurrRxDmaDescIdx \in Buffers /\ dmaIdx \in Buffers
               /\ RxDmaDesIdxForIngTimStamp \in Buffers \cup {NA}
               /\ RxIntEnabled \in BOOLEAN /\ irq \in BOOLEAN
               /\ scan \in ScanRecord
               /\ Received \in SUBSET Buffers
               /\ First \in Buffers
  /\ IdleScan \in ScanRecord
  /\ [IdleScan EXCEPT !.at = "test"] \in ScanRecord
  /\ [IdleScan EXCEPT !.at = "test"].at = "test"
  /\ IdleScan.at = "idle"
  <1>1. /\ 0 \in 0 .. EthRxBufTotal /\ 0 \in 0 .. MaxLoopCnt /\ 0 \in 0 .. 2
        /\ 0 \in Buffers
    BY ConstantFacts
  <1>2. /\ IdleScan \in ScanRecord
        /\ [IdleScan EXCEPT !.at = "test"] \in ScanRecord
        /\ [IdleScan EXCEPT !.at = "test"].at = "test"
        /\ IdleScan.at = "idle"
    BY <1>1 DEF IdleScan, ScanRecord
  <1>3. TypeOK => scan \in ScanRecord
    BY DEF TypeOK, ScanRecord
  <1>4. TypeOK => First \in Buffers
    BY <1>3 DEF TypeOK, First, ScanRecord
  <1> QED
    BY <1>2, <1>3, <1>4 DEF TypeOK, Received

LEMMA ClearedType ==
  ASSUME TypeOK, NEW start \in Buffers, NEW count
  PROVE  /\ Cleared(start, count) \in [Buffers -> Descriptor]
         /\ \A i \in Buffers : Cleared(start, count)[i] =
              IF i = start \/ (count = 2 /\ i = lIncrRxBufIdx(start))
              THEN Fresh ELSE desc[i]
  BY DescriptorTypes DEF Cleared, TypeOK

LEMMA InitType == Init => TypeInv
  <1> SUFFICES ASSUME Init PROVE TypeInv
    OBVIOUS
  <1>1. [Fresh EXCEPT !.OWN = FALSE] \in Descriptor
    BY DEF Fresh, Descriptor
  <1>2. desc \in [Buffers -> Descriptor]
    BY <1>1 DEF Init
  <1>3. scan \in ScanRecord /\ ~InCallback
    BY TypeFacts DEF Init, InCallback
  <1> QED
    BY <1>2, <1>3, ConstantFacts DEF Init, TypeInv, TypeOK, CountLeft, ScanRecord

\* A restart leaves the ring as it was or gives all of it to the DMA.
LEMMA RestartSteps ==
  ASSUME TypeOK, SetControllerMode
  PROVE  /\ MainRuns /\ UNCHANGED <<RxIntEnabled, coreInit, scan>>
         /\ irq' = FALSE /\ rxStatus' = "NONE" /\ hwActive' \in BOOLEAN
         /\ RxDmaDesIdxForIngTimStamp' = RxDmaDesIdxForIngTimStamp
         /\ dmaIdx' \in Buffers /\ dmaSuspended' \in BOOLEAN
         /\ dmaPending' \in {"none", "rest", "rest, context"}
         /\ cntrlInit' \in BOOLEAN
         /\ \/ /\ UNCHANGED <<desc, CurrRxDmaDescIdx>>
               /\ ~cntrlInit'
            \/ /\ desc' = [i \in Buffers |-> Fresh]
               /\ CurrRxDmaDescIdx' = 0 /\ dmaIdx' = 0
               /\ dmaPending' = "none" /\ dmaSuspended' = FALSE
  <1> USE ConstantFacts DEF SetControllerMode, TypeOK, lDmaRxDescriptorInit,
        DmaRestarts, driver, dma
  <1>1. CASE InitControllerFails
    BY <1>1 DEF InitControllerFails
  <1>2. CASE CoreInitTimerFails
    BY <1>2 DEF CoreInitTimerFails
  <1>3. CASE SetModeActive
    BY <1>3 DEF SetModeActive
  <1>4. CASE SetModeDown
    BY <1>4 DEF SetModeDown
  <1> QED
    BY <1>1, <1>2, <1>3, <1>4

\* What every step of a scan leaves alone, and what it does to the ring.
LEMMA ScanTypeStep ==
  ASSUME TypeInv, Scan
  PROVE  TypeInv'
  <1> USE TypeFacts, ConstantFacts DEF TypeInv
  <1>1. ASSUME scan' \in ScanRecord, scan'.at /= "callback",
               UNCHANGED <<desc, driver, status, hwActive, dmaIdx, dmaPending>>,
               dmaSuspended' \in BOOLEAN, irq' \in BOOLEAN,
               rxStatus' \in {"NONE", "NOT_RECEIVED", "RECEIVED", "MORE"}
        PROVE  TypeInv'
    BY <1>1 DEF TypeOK, ScanRecord, CountLeft, InCallback, driver, status
  <1>2. CASE Receive \/ RxDmaCh0IrqHdlr
    BY <1>1, <1>2 DEF Receive, RxDmaCh0IrqHdlr, dma, TypeOK
  <1>3. CASE ReceiveReturns
    BY <1>1, <1>3 DEF ReceiveReturns, WriteTailPointer
  <1>4. CASE IrqWritesTail
    <2>1. scan' \in ScanRecord /\ scan'.at = "done"
      BY <1>4 DEF IrqWritesTail, ScanRecord
    <2> QED
      BY <1>1, <1>4, <2>1 DEF IrqWritesTail, WriteTailPointer, TypeOK
  <1>5. CASE IrqLoops
    <2>1. scan.MaxLoops + 1 \in 0 .. MaxLoopCnt
      BY <1>5 DEF IrqLoops, ScanRecord
    <2>2. scan' \in ScanRecord /\ scan'.at = "test"
      BY <1>5, <2>1 DEF IrqLoops, ScanRecord
    <2> QED
      BY <1>1, <1>5, <2>2 DEF IrqLoops, dma, TypeOK
  <1>6. CASE IrqReturns
    BY <1>1, <1>6 DEF IrqReturns, dma, TypeOK
  <1>7. CASE RxIndication
    <2>1. lIncrRxBufIdx(CurrRxDmaDescIdx) \in Buffers
      BY Successor
    <2>2. scan' \in ScanRecord /\ scan'.BufferCount < EthRxBufTotal
      <3> DEFINE count == IF desc[CurrRxDmaDescIdx].TSA THEN 2 ELSE 1
      <3>1. scan' = [scan EXCEPT !.at = "callback", !.start = CurrRxDmaDescIdx,
                                 !.BufferClearCount = count]
        BY <1>7 DEF RxIndication
      <3>2. scan.BufferCount < EthRxBufTotal
        BY <1>7 DEF RxIndication, ScanGoesOn
      <3>3. count \in 0 .. 2
        OBVIOUS
      <3>4. scan \in ScanRecord /\ CurrRxDmaDescIdx \in Buffers
        BY TypeFacts
      <3> HIDE DEF count
      <3> QED
        BY <3>1, <3>2, <3>3, <3>4 DEF ScanRecord
    <2>3. /\ CurrRxDmaDescIdx' \in Buffers
          /\ RxDmaDesIdxForIngTimStamp' \in Buffers \cup {NA}
          /\ UNCHANGED <<desc, status, hwActive, dma, irq, rxStatus>>
      BY <1>7, <2>1 DEF RxIndication
    <2> QED
      BY <2>2, <2>3 DEF TypeOK, ScanRecord, CountLeft, status, dma
  <1>8. CASE RxIndicationReturns
    <2>1. scan.BufferCount + 1 \in 0 .. EthRxBufTotal
      BY <1>8 DEF RxIndicationReturns, CountLeft, ScanRecord
    <2>2. scan' \in ScanRecord /\ scan'.at = "test"
      <3>1. 0 \in Buffers /\ 0 \in 0 .. 2
        OBVIOUS
      <3> QED
        BY <1>8, <2>1, <3>1, TypeFacts DEF RxIndicationReturns, ScanRecord
    <2>3. desc' \in [Buffers -> Descriptor] /\ CurrRxDmaDescIdx' \in Buffers
      BY <1>8, ClearedType, Successor DEF RxIndicationReturns, ScanRecord
    <2> QED
      BY <1>8, <2>2, <2>3 DEF RxIndicationReturns, TypeOK, ScanRecord,
         CountLeft, InCallback, status, dma
  <1>9. CASE DropDescriptor
    <2>1. scan.BufferCount + 1 \in 0 .. EthRxBufTotal /\ scan.at = "test"
      BY <1>9 DEF DropDescriptor, ScanGoesOn, ScanRecord
    <2>2. scan' \in ScanRecord /\ scan'.at = "test"
      BY <1>9, <2>1 DEF DropDescriptor, ScanRecord
    <2>3. desc' \in [Buffers -> Descriptor] /\ CurrRxDmaDescIdx' \in Buffers
      BY <1>9, ClearedType, Successor DEF DropDescriptor
    <2> QED
      BY <1>9, <2>2, <2>3 DEF DropDescriptor, TypeOK, ScanRecord,
         CountLeft, InCallback, status, dma
  <1> QED
    BY <1>2, <1>3, <1>4, <1>5, <1>6, <1>7, <1>8, <1>9 DEF Scan

LEMMA DmaTypeStep ==
  ASSUME TypeInv, Dma
  PROVE  TypeInv'
  <1>1. /\ desc \in [Buffers -> Descriptor] /\ dmaIdx \in Buffers
        /\ lIncrRxBufIdx(dmaIdx) \in Buffers
        /\ lIncrRxBufIdx(lIncrRxBufIdx(dmaIdx)) \in Buffers
    BY TypeFacts, Successor DEF TypeInv
  <1>2. desc' \in [Buffers -> Descriptor] /\ dmaIdx' \in Buffers
    BY <1>1, DmaSteps, DescriptorTypes DEF TypeInv, DmaClosesOne, DmaClosesTwo
  <1>3. /\ UNCHANGED <<driver, status, hwActive, scan, rxStatus>>
        /\ irq' \in BOOLEAN /\ dmaSuspended' \in BOOLEAN
        /\ dmaPending' \in {"none", "rest", "rest, context"}
    <2>1. TypeOK
      BY DEF TypeInv
    <2>2. UNCHANGED <<driver, status, hwActive, scan, rxStatus>> /\ irq' \in BOOLEAN
      BY <2>1, DmaSteps
    <2>3. dmaSuspended' \in BOOLEAN
      <3>1. dmaSuspended' = dmaSuspended \/ dmaSuspended' \in BOOLEAN
        BY <2>1, DmaSteps
      <3>2. dmaSuspended \in BOOLEAN
        BY <2>1 DEF TypeOK
      <3> QED
        BY <3>1, <3>2
    <2>4. dmaPending' = dmaPending \/ dmaPending' \in {"none", "rest", "rest, context"}
      BY <2>1, DmaSteps
    <2> QED
      BY <2>1, <2>2, <2>3, <2>4 DEF TypeOK
  <1>4. TypeOK'
    BY <1>2, <1>3 DEF TypeInv, TypeOK, driver, status
  <1>5. CountLeft'
    BY <1>3 DEF TypeInv, CountLeft, InCallback
  <1> QED
    BY <1>4, <1>5 DEF TypeInv

LEMMA TypeStep == TypeInv /\ [Next]_vars => TypeInv'
  <1> SUFFICES ASSUME TypeInv, [Next]_vars PROVE TypeInv'
    OBVIOUS
  <1> USE DEF TypeInv
  <1>1. CASE EthInit
    BY <1>1, ConstantFacts DEF EthInit, TypeOK, CountLeft, InCallback, dma
  <1>2. CASE SetControllerMode
    BY <1>2, RestartSteps, ConstantFacts, DescriptorTypes
    DEF TypeOK, CountLeft, InCallback
  <1>3. CASE GetIngressTimeStamp \/ ReceiveWakesDma
    BY <1>3 DEF GetIngressTimeStamp, ReceiveWakesDma, WriteTailPointer, TypeOK,
       CountLeft, InCallback, driver, status, dma
  <1>4. CASE Scan
    BY <1>4, ScanTypeStep
  <1>5. CASE Dma
    BY <1>5, DmaTypeStep
  <1>6. CASE UNCHANGED vars
    BY <1>6 DEF vars, driver, status, dma, TypeOK, CountLeft, InCallback
  <1> QED
    BY <1>1, <1>2, <1>3, <1>4, <1>5, <1>6 DEF Next

LEMMA TypeInvariance == Spec => []TypeInv
  BY InitType, TypeStep, PTL DEF Spec

\* Every variable keeps its type: both indices stay in the ring, and no scan
\* visits more descriptors than the ring has.
THEOREM TypeCorrect == Spec => []TypeOK
  <1>1. TypeInv => TypeOK
    BY DEF TypeInv
  <1> QED
    BY <1>1, TypeInvariance, PTL

-----------------------------------------------------------------------------
(* The ring invariant. *)

LEMMA SuccessorInjective ==
  ASSUME NEW i \in Buffers, NEW j \in Buffers
  PROVE  /\ lIncrRxBufIdx(i) = lIncrRxBufIdx(j) => i = j
         /\ lIncrRxBufIdx(i) /= i
  <1>1. /\ lIncrRxBufIdx(i) = IF i = EthRxBufTotal - 1 THEN 0 ELSE i + 1
        /\ lIncrRxBufIdx(j) = IF j = EthRxBufTotal - 1 THEN 0 ELSE j + 1
    BY Successor
  <1> QED
    BY <1>1, ConstantFacts DEF Buffers

LEMMA RingFacts ==
  ASSUME RingInv, cntrlInit
  PROVE  /\ TypeOK
         /\ First \in Buffers /\ dmaIdx \in Buffers
         /\ Received \in SUBSET Buffers
         /\ InStep(Received, First, dmaIdx)
         /\ \A i \in Buffers : i \in Received <=> ~desc[i].OWN
         /\ \A i \in Received :
              desc[i].TSA => /\ lIncrRxBufIdx(i) /= dmaIdx
                             /\ lIncrRxBufIdx(i) \in Received
                             /\ desc[lIncrRxBufIdx(i)].CTXT
  BY TypeFacts DEF RingInv, TypeInv, RxInStep, InStep, StampFollowed, Received

\* The DMA closes one descriptor, or a frame with its time stamp.
LEMMA DmaExtends ==
  ASSUME RingInv, cntrlInit, First' = First, cntrlInit' = cntrlInit,
         NEW d \in Descriptor, DmaClosesOne(d) \/ DmaClosesTwo(d)
  PROVE  /\ InStep(Received', First', dmaIdx')
         /\ StampFollowed'
         /\ \A i \in Received : i \in Received' /\ desc'[i] = desc[i]
  <1> DEFINE b == dmaIdx
             c == lIncrRxBufIdx(b)
  <1>1. /\ First \in Buffers /\ b \in Buffers /\ c \in Buffers /\ c /= b
        /\ lIncrRxBufIdx(c) /= c
        /\ Received \in SUBSET Buffers
        /\ InStep(Received, First, b)
        /\ \A i \in Buffers : i \in Received <=> ~desc[i].OWN
        /\ \A i \in Received :
              desc[i].TSA => /\ lIncrRxBufIdx(i) \in Received
                             /\ desc[lIncrRxBufIdx(i)].CTXT
        /\ desc \in [Buffers -> Descriptor]
    BY RingFacts, Successor, SuccessorInjective DEF TypeOK
  <1> HIDE DEF c
  <1>2. CASE DmaClosesOne(d)
    <2>1. /\ b \notin Received /\ ~d.OWN /\ ~d.TSA
          /\ dmaIdx' = c
          /\ \A i \in Buffers : desc'[i] = IF i = b THEN d ELSE desc[i]
      BY <1>1, <1>2 DEF DmaClosesOne, c
    <2>2. Received' = Received \cup {b}
      BY <1>1, <2>1 DEF Received
    <2>3. InStep(Received', First', dmaIdx')
      BY <1>1, <2>1, <2>2, StretchGrows DEF c
    <2>4. ASSUME NEW i \in Received', desc'[i].TSA
          PROVE  /\ lIncrRxBufIdx(i) /= dmaIdx'
                 /\ lIncrRxBufIdx(i) \in Received'
                 /\ desc'[lIncrRxBufIdx(i)].CTXT
      <3>1. i \in Received /\ i /= b /\ desc[i].TSA
        BY <1>1, <2>1, <2>2, <2>4
      <3>2. lIncrRxBufIdx(i) \in Received /\ desc[lIncrRxBufIdx(i)].CTXT
        BY <1>1, <3>1
      <3>3. lIncrRxBufIdx(i) /= c
        BY <1>1, <3>1, SuccessorInjective DEF c
      <3> QED
        BY <1>1, <2>1, <2>2, <3>2, <3>3
    <2> QED
      BY <1>1, <2>1, <2>2, <2>3, <2>4 DEF StampFollowed
  <1>3. CASE DmaClosesTwo(d)
    <2>1. /\ b \notin Received /\ c \notin Received /\ ~d.OWN
          /\ dmaIdx' = lIncrRxBufIdx(c)
          /\ \A i \in Buffers : desc'[i] = IF i = c THEN ContextDescriptor
                                           ELSE IF i = b THEN d ELSE desc[i]
      BY <1>1, <1>3 DEF DmaClosesTwo, c
    <2>2. ~ContextDescriptor.OWN /\ ~ContextDescriptor.TSA /\ ContextDescriptor.CTXT
      BY DEF ContextDescriptor, Fresh
    <2>3. Received' = (Received \cup {b}) \cup {c}
      BY <1>1, <2>1, <2>2 DEF Received
    <2>4. InStep(Received \cup {b}, First, c)
      BY <1>1, <2>1, StretchGrows DEF c
    <2>5. InStep(Received', First', dmaIdx')
      BY <1>1, <2>1, <2>3, <2>4, StretchGrows
    <2>6. ASSUME NEW i \in Received', desc'[i].TSA
          PROVE  /\ lIncrRxBufIdx(i) /= dmaIdx'
                 /\ lIncrRxBufIdx(i) \in Received'
                 /\ desc'[lIncrRxBufIdx(i)].CTXT
      <3>1. i /= c /\ i \in Buffers
        BY <1>1, <2>1, <2>2, <2>3, <2>6
      <3>2. lIncrRxBufIdx(i) /= lIncrRxBufIdx(c)
        BY <1>1, <3>1, SuccessorInjective
      <3>3. CASE i = b
        BY <1>1, <2>1, <2>2, <2>3, <3>2, <3>3 DEF c
      <3>4. CASE i /= b
        <4>1. i \in Received /\ desc[i].TSA
          BY <1>1, <2>1, <2>3, <2>6, <3>1, <3>4
        <4>2. lIncrRxBufIdx(i) \in Received /\ desc[lIncrRxBufIdx(i)].CTXT
          BY <1>1, <4>1
        <4> QED
          BY <1>1, <2>1, <2>3, <3>2, <4>2
      <3> QED
        BY <3>3, <3>4
    <2> QED
      BY <1>1, <2>1, <2>3, <2>5, <2>6 DEF StampFollowed
  <1> QED
    BY <1>2, <1>3

\* The driver gives back its first descriptor, with the next one if that holds
\* the time stamp.
LEMMA DriverReleases ==
  ASSUME RingInv, cntrlInit, cntrlInit' = cntrlInit, dmaIdx' = dmaIdx,
         First \in Received, NEW count \in {1, 2},
         count = 2 => desc[First].TSA,
         desc' = Cleared(First, count),
         First' = IF count = 2 THEN lIncrRxBufIdx(lIncrRxBufIdx(First))
                  ELSE lIncrRxBufIdx(First)
  PROVE  /\ InStep(Received', First', dmaIdx')
         /\ StampFollowed'
         /\ Used(Received', First', dmaIdx') < Used(Received, First, dmaIdx)
  <1> DEFINE a == First
             c == lIncrRxBufIdx(a)
             R == Received
             b == dmaIdx
             gone == IF count = 2 THEN {a, c} ELSE {a}
  <1>1. /\ a \in Buffers /\ b \in Buffers /\ c \in Buffers /\ c /= a
        /\ R \in SUBSET Buffers /\ a \in R
        /\ InStep(R, a, b)
        /\ \A i \in Buffers : i \in R <=> ~desc[i].OWN
        /\ \A i \in R :
              desc[i].TSA => /\ lIncrRxBufIdx(i) /= b
                             /\ lIncrRxBufIdx(i) \in R
                             /\ desc[lIncrRxBufIdx(i)].CTXT
    BY RingFacts, Successor, SuccessorInjective
  <1>2. \A i \in Buffers : desc'[i] = IF i \in gone THEN Fresh ELSE desc[i]
    BY <1>1, RingFacts, ClearedType
  <1>3. Fresh.OWN /\ ~Fresh.TSA
    BY DEF Fresh
  <1>4. Received' = R \ gone
    <2>1. Received' = {i \in Buffers : ~desc'[i].OWN}
      BY DEF Received
    <2> HIDE DEF gone, R
    <2> QED
      BY <1>1, <1>2, <1>3, <2>1
  <1>5. /\ InStep(R \ {a}, c, b)
        /\ Used(R \ {a}, c, b) = Used(R, a, b) - 1
        /\ Used(R, a, b) \in Int
    BY <1>1, StretchShrinks, UsedBounds
  <1>6. /\ InStep(Received', First', dmaIdx')
        /\ Used(Received', First', dmaIdx') < Used(R, a, b)
    <2>1. CASE count = 1
      BY <1>4, <1>5, <2>1
    <2>2. CASE count = 2
      <3>1. c \in R \ {a} /\ R \ {a} \in SUBSET Buffers
        BY <1>1, <2>2
      <3>2. /\ InStep((R \ {a}) \ {c}, lIncrRxBufIdx(c), b)
            /\ Used((R \ {a}) \ {c}, lIncrRxBufIdx(c), b) = Used(R \ {a}, c, b) - 1
        BY <1>1, <1>5, <3>1, StretchShrinks
      <3>3. (R \ {a}) \ {c} = R \ gone /\ First' = lIncrRxBufIdx(c)
        BY <2>2
      <3>4. Received' = (R \ {a}) \ {c} /\ dmaIdx' = b
        BY <1>4, <3>3
      <3>5. InStep(Received', First', dmaIdx')
        BY <3>2, <3>3, <3>4
      <3>6. Used(Received', First', dmaIdx') = Used(R, a, b) - 1 - 1
        BY <1>5, <3>2, <3>3, <3>4
      <3> HIDE DEF R, a, b, c, gone
      <3> QED
        BY <1>5, <3>5, <3>6
    <2> QED
      BY <2>1, <2>2
  <1>7. ASSUME NEW i \in Received', desc'[i].TSA
        PROVE  /\ lIncrRxBufIdx(i) /= dmaIdx'
               /\ lIncrRxBufIdx(i) \in Received'
               /\ desc'[lIncrRxBufIdx(i)].CTXT
    <2>1. i \in R /\ i \notin gone /\ desc[i].TSA
      BY <1>1, <1>2, <1>4, <1>7
    <2>2. /\ lIncrRxBufIdx(i) /= b
          /\ lIncrRxBufIdx(i) \in R
          /\ desc[lIncrRxBufIdx(i)].CTXT
      BY <1>1, <2>1
    <2>3. lIncrRxBufIdx(i) /= a
      BY <1>1, <2>1, <2>2, PredecessorMeansFull
    <2>4. lIncrRxBufIdx(i) /= c
      BY <1>1, <2>1, SuccessorInjective
    <2> QED
      BY <1>1, <1>2, <1>4, <2>2, <2>3, <2>4
  <1> QED
    BY <1>6, <1>7 DEF StampFollowed

\* The steps of a scan that neither call the callback nor free a descriptor.
ScanControl ==
  Receive \/ ReceiveReturns \/ RxDmaCh0IrqHdlr \/ IrqWritesTail \/ IrqLoops \/ IrqReturns

LEMMA ScanControlSteps ==
  ASSUME RingInv, ScanControl
  PROVE  /\ UNCHANGED <<desc, driver, status, dmaIdx, dmaPending>>
         /\ ~InCallback /\ ~InCallback'
         /\ First' = First /\ Received' = Received
         /\ cntrlInit
  <1>1. scan \in ScanRecord
    BY TypeFacts DEF RingInv, TypeInv
  <1>2. /\ UNCHANGED <<desc, driver, status, dmaIdx, dmaPending>>
        /\ ~InCallback /\ ~InCallback' /\ cntrlInit
    BY <1>1, TypeFacts DEF ScanControl, Receive, ReceiveReturns, RxDmaCh0IrqHdlr,
       IrqWritesTail, IrqLoops, IrqReturns, ScanEnds, InCallback, MainRuns,
       DriverReady, dma, RingInv, ScanReady, ScanRecord
  <1> QED
    BY <1>2 DEF First, Received, driver

LEMMA ScanRing ==
  ASSUME RingInv, Scan
  PROVE  /\ RxInStep' /\ IndicatedFrame' /\ StampFollowed'
         /\ TimestampBelongsToFrame'
  <1>1. /\ scan \in ScanRecord
        /\ CurrRxDmaDescIdx \in Buffers
    BY TypeFacts DEF RingInv, TypeInv
  <1>2. CASE ScanControl
    BY <1>2, ScanControlSteps DEF RingInv, RxInStep, IndicatedFrame, StampFollowed,
       TimestampBelongsToFrame, driver, status
  <1>3. CASE RxIndication
    <2>1. /\ ~InCallback /\ InCallback' /\ cntrlInit
          /\ First = CurrRxDmaDescIdx /\ First' = CurrRxDmaDescIdx
          /\ scan'.start = CurrRxDmaDescIdx
          /\ scan'.BufferClearCount = IF desc[CurrRxDmaDescIdx].TSA THEN 2 ELSE 1
      BY <1>1, <1>3 DEF RxIndication, ScanGoesOn, InCallback, First, ScanRecord,
         RingInv, ScanReady, MainRuns
    <2>2. /\ UNCHANGED <<desc, dmaIdx, cntrlInit>> /\ Received' = Received
      BY <1>3 DEF RxIndication, status, dma, Received
    <2>3. CurrRxDmaDescIdx \in Received
      BY <1>1, <1>3 DEF RxIndication, ScanGoesOn, Received
    <2>4. RxInStep' /\ StampFollowed'
      BY <2>1, <2>2 DEF RingInv, RxInStep, StampFollowed
    <2>5. IndicatedFrame'
      BY <1>3, <2>1, <2>2, <2>3 DEF RxIndication, IndicatedFrame
    <2>6. TimestampBelongsToFrame'
      <3> SUFFICES ASSUME RxDmaDesIdxForIngTimStamp' /= NA
                   PROVE  TimestampBelongsToFrame'
        BY DEF TimestampBelongsToFrame
      <3>1. /\ desc[CurrRxDmaDescIdx].TSA
            /\ RxDmaDesIdxForIngTimStamp' = lIncrRxBufIdx(CurrRxDmaDescIdx)
            /\ desc[lIncrRxBufIdx(CurrRxDmaDescIdx)].CTXT
        BY <1>3 DEF RxIndication
      <3>2. ~desc[lIncrRxBufIdx(CurrRxDmaDescIdx)].OWN
        BY <2>1, <2>3, <3>1, RingFacts
      <3> QED
        BY <2>1, <2>2, <3>1, <3>2 DEF TimestampBelongsToFrame
    <2> QED
      BY <2>4, <2>5, <2>6
  <1>4. CASE RxIndicationReturns \/ DropDescriptor
    <2> DEFINE count == IF InCallback THEN scan.BufferClearCount ELSE 1
    <2>1. /\ cntrlInit /\ cntrlInit' = cntrlInit /\ dmaIdx' = dmaIdx
          /\ ~InCallback' /\ First' = lIncrRxBufIdx(CurrRxDmaDescIdx)
      BY <1>1, <1>4 DEF RxIndicationReturns, DropDescriptor, ScanGoesOn, InCallback,
         ScanRecord, RingInv, ScanReady, MainRuns, First, status, dma
    <2>2. /\ First \in Received /\ count \in {1, 2}
          /\ count = 2 => desc[First].TSA
          /\ desc' = Cleared(First, count)
          /\ CurrRxDmaDescIdx = IF count = 2 THEN lIncrRxBufIdx(First) ELSE First
      <3>1. CASE RxIndicationReturns
        BY <3>1 DEF RxIndicationReturns, RingInv, IndicatedFrame, First
      <3>2. CASE DropDescriptor
        BY <1>1, <3>2 DEF DropDescriptor, ScanGoesOn, InCallback, First, Received
      <3> QED
        BY <1>4, <3>1, <3>2
    <2> HIDE DEF count
    <2>3. First' = IF count = 2 THEN lIncrRxBufIdx(lIncrRxBufIdx(First))
                   ELSE lIncrRxBufIdx(First)
      BY <2>1, <2>2
    <2>4. InStep(Received', First', dmaIdx') /\ StampFollowed'
      BY <2>1, <2>2, <2>3, DriverReleases
    <2> QED
      BY <2>1, <2>4 DEF RxInStep, InStep, IndicatedFrame, TimestampBelongsToFrame
  <1> QED
    BY <1>2, <1>3, <1>4 DEF Scan, ScanControl

LEMMA ScanReadyStep ==
  ASSUME RingInv, [Next]_vars
  PROVE  ScanReady'
  <1>1. scan \in ScanRecord
    BY TypeFacts DEF RingInv, TypeInv
  <1>2. CASE EthInit \/ SetControllerMode
    BY <1>2 DEF EthInit, SetControllerMode, ScanReady, MainRuns
  <1>3. CASE GetIngressTimeStamp \/ ReceiveWakesDma \/ UNCHANGED vars
    BY <1>3 DEF GetIngressTimeStamp, ReceiveWakesDma, vars, status, RingInv,
       ScanReady, MainRuns
  <1>4. CASE ScanControl
    BY <1>4, ScanControlSteps DEF ScanReady, status
  <1>5. CASE RxIndication \/ RxIndicationReturns \/ DropDescriptor
    BY <1>1, <1>5 DEF RxIndication, RxIndicationReturns, DropDescriptor, ScanGoesOn,
       InCallback, status, RingInv, ScanReady, MainRuns, ScanRecord
  <1>6. CASE Dma
    BY <1>6, DmaSteps DEF RingInv, TypeInv, ScanReady, MainRuns, status
  <1> QED
    BY <1>2, <1>3, <1>4, <1>5, <1>6 DEF Next, Scan, ScanControl

LEMMA DmaRing ==
  ASSUME RingInv, Dma
  PROVE  /\ RxInStep' /\ IndicatedFrame' /\ StampFollowed'
         /\ TimestampBelongsToFrame'
  <1>1. /\ TypeOK
        /\ UNCHANGED <<driver, status, hwActive, scan, rxStatus>>
        /\ \/ \E d \in Descriptor : DmaClosesOne(d) \/ DmaClosesTwo(d)
           \/ UNCHANGED <<desc, dmaIdx, dmaPending>>
    BY DmaSteps DEF RingInv, TypeInv
  <1>2. First' = First /\ cntrlInit' = cntrlInit /\ (InCallback' <=> InCallback)
    BY <1>1 DEF First, InCallback, driver, status
  <1>3. InCallback => cntrlInit
    BY DEF RingInv, ScanReady, MainRuns, InCallback
  <1>4. CASE UNCHANGED <<desc, dmaIdx, dmaPending>>
    BY <1>1, <1>2, <1>4 DEF RingInv, RxInStep, IndicatedFrame, StampFollowed,
       TimestampBelongsToFrame, Received, driver
  <1>5. ASSUME NEW d \in Descriptor, DmaClosesOne(d) \/ DmaClosesTwo(d), cntrlInit
        PROVE  /\ RxInStep' /\ IndicatedFrame' /\ StampFollowed'
               /\ TimestampBelongsToFrame'
    <2>1. /\ InStep(Received', First', dmaIdx')
          /\ StampFollowed'
          /\ \A i \in Received : i \in Received' /\ desc'[i] = desc[i]
      BY <1>2, <1>5, DmaExtends
    <2>2. RxInStep'
      BY <2>1 DEF RxInStep, InStep
    <2>3. IndicatedFrame'
      BY <1>1, <1>2, <2>1 DEF RingInv, IndicatedFrame, driver
    <2>4. TimestampBelongsToFrame'
      <3> SUFFICES ASSUME InCallback, RxDmaDesIdxForIngTimStamp /= NA
                   PROVE  TimestampBelongsToFrame'
        BY <1>1, <1>2 DEF TimestampBelongsToFrame, driver
      <3>1. scan.start \in Received /\ RxDmaDesIdxForIngTimStamp \in Received
        BY <1>1, TypeFacts DEF RingInv, IndicatedFrame, TimestampBelongsToFrame, Received
      <3>2. /\ desc'[scan.start] = desc[scan.start]
            /\ desc'[RxDmaDesIdxForIngTimStamp] = desc[RxDmaDesIdxForIngTimStamp]
        BY <2>1, <3>1
      <3> QED
        BY <1>1, <1>2, <3>2 DEF RingInv, TimestampBelongsToFrame, driver
    <2> QED
      BY <2>1, <2>2, <2>3, <2>4
  <1>6. CASE ~cntrlInit
    BY <1>2, <1>3, <1>6 DEF RxInStep, IndicatedFrame, StampFollowed,
       TimestampBelongsToFrame
  <1> QED
    BY <1>1, <1>4, <1>5, <1>6

LEMMA RestartRing ==
  ASSUME RingInv, EthInit \/ SetControllerMode
  PROVE  /\ RxInStep' /\ IndicatedFrame' /\ StampFollowed'
         /\ TimestampBelongsToFrame'
  <1>1. ~InCallback'
    BY DEF EthInit, SetControllerMode, MainRuns, InCallback
  <1>2. CASE ~cntrlInit'
    BY <1>1, <1>2 DEF RxInStep, IndicatedFrame, StampFollowed, TimestampBelongsToFrame
  <1>3. CASE cntrlInit'
    <2>1. /\ desc' = [i \in Buffers |-> Fresh]
          /\ CurrRxDmaDescIdx' = 0 /\ dmaIdx' = 0
      BY <1>3, RestartSteps DEF RingInv, TypeInv, EthInit
    <2>2. Received' = {} /\ First' = dmaIdx'
      BY <1>1, <2>1 DEF Received, Fresh, First
    <2> QED
      BY <1>1, <2>2 DEF RxInStep, IndicatedFrame, StampFollowed, TimestampBelongsToFrame
  <1> QED
    BY <1>2, <1>3

LEMMA RingStep == RingInv /\ TypeInv' /\ [Next]_vars => RingInv'
  <1> SUFFICES ASSUME RingInv, TypeInv', [Next]_vars
               PROVE  /\ RxInStep' /\ IndicatedFrame' /\ StampFollowed'
                      /\ TimestampBelongsToFrame'
    BY ScanReadyStep DEF RingInv
  <1>1. CASE EthInit \/ SetControllerMode
    BY <1>1, RestartRing
  <1>2. CASE GetIngressTimeStamp \/ ReceiveWakesDma \/ UNCHANGED vars
    <2>1. /\ UNCHANGED <<desc, CurrRxDmaDescIdx, dmaIdx, cntrlInit, scan>>
          /\ RxDmaDesIdxForIngTimStamp' \in {RxDmaDesIdxForIngTimStamp, NA}
      BY <1>2 DEF GetIngressTimeStamp, ReceiveWakesDma, vars, driver, status, dma
    <2>2. Received' = Received /\ First' = First /\ InCallback' = InCallback
      BY <2>1 DEF Received, First, InCallback
    <2> QED
      BY <2>1, <2>2 DEF RingInv, RxInStep, IndicatedFrame, StampFollowed,
         TimestampBelongsToFrame
  <1>3. CASE Scan
    BY <1>3, ScanRing
  <1>4. CASE Dma
    BY <1>4, DmaRing
  <1> QED
    BY <1>1, <1>2, <1>3, <1>4 DEF Next

LEMMA RingInvariance == Spec => []RingInv
  <1>1. Init => RingInv
    <2> SUFFICES ASSUME Init PROVE RingInv
      OBVIOUS
    <2>1. scan.at = "idle" /\ ~cntrlInit
      BY TypeFacts DEF Init
    <2> QED
      BY <2>1, InitType DEF RingInv, ScanReady, MainRuns, RxInStep, IndicatedFrame,
         StampFollowed, TimestampBelongsToFrame, InCallback
  <1> QED
    BY <1>1, RingStep, TypeInvariance, PTL DEF Spec

\* For every ring size the index of the driver and the position of the DMA stay
\* in step: the closed descriptors are those between the two, whatever frames,
\* oversize frames, time stamps, scans and restarts interleave.
THEOREM InStepCorrect == Spec => []RxInStep
  <1>1. RingInv => RxInStep
    BY DEF RingInv
  <1> QED
    BY <1>1, RingInvariance, PTL

\* For every ring size the callback is never offered the time stamp of another
\* frame.
THEOREM TimestampCorrect == Spec => []TimestampBelongsToFrame
  <1>1. RingInv => TimestampBelongsToFrame
    BY DEF RingInv
  <1> QED
    BY <1>1, RingInvariance, PTL

-----------------------------------------------------------------------------
(* The receive interrupt. *)

LEMMA ScanCovers ==
  ASSUME RingInv, IrqCovers, Scan, RxIntEnabled, ~irq'
  PROVE  IrqCovers'
  <1>1. /\ scan \in ScanRecord /\ cntrlInit
        /\ CurrRxDmaDescIdx \in Buffers /\ irq \in BOOLEAN
        /\ Used(Received, First, dmaIdx) \in 0 .. EthRxBufTotal
        /\ First \in Received => Used(Received, First, dmaIdx) > 0
    <2>1. cntrlInit
      BY ScanControlSteps DEF Scan, ScanControl, RxIndication, RxIndicationReturns,
         DropDescriptor, ScanGoesOn, InCallback, RingInv, ScanReady, MainRuns
    <2> QED
      BY <2>1, TypeFacts, RingFacts, UsedBounds DEF RingInv, TypeInv
  <1>2. CASE Receive \/ ReceiveReturns
    BY <1>2 DEF Receive, ReceiveReturns
  <1>3. CASE RxDmaCh0IrqHdlr \/ IrqLoops
    <2>1. /\ scan'.at = "test" /\ scan'.BufferCount = 0
          /\ Received' = Received /\ First' = First /\ dmaIdx' = dmaIdx
      BY <1>1, <1>3, ScanControlSteps
      DEF ScanControl, RxDmaCh0IrqHdlr, IrqLoops, IdleScan, ScanRecord
    <2> QED
      BY <1>1, <2>1, ConstantFacts DEF IrqCovers
  <1>4. CASE IrqWritesTail
    <2>1. /\ irq = FALSE /\ dmaPending' = dmaPending /\ dmaSuspended' = FALSE
          /\ desc' = desc /\ CurrRxDmaDescIdx' = CurrRxDmaDescIdx
          /\ scan.at = "test" /\ scan'.at = "done" /\ First = CurrRxDmaDescIdx
      BY <1>1, <1>4 DEF IrqWritesTail, ScanEnds, WriteTailPointer, ScanRecord, driver,
         First, InCallback
    <2>2. ASSUME dmaPending = "none" PROVE desc[CurrRxDmaDescIdx].OWN
      <3>1. Used(Received, First, dmaIdx) + scan.BufferCount <= EthRxBufTotal
        BY <1>1, <2>1, <2>2 DEF IrqCovers
      <3>2. CASE scan.BufferCount < EthRxBufTotal
        BY <1>4, <2>1, <3>2 DEF IrqWritesTail, ScanEnds, ScanGoesOn
      <3>3. CASE scan.BufferCount >= EthRxBufTotal
        <4>1. First \notin Received
          BY <1>1, <3>1, <3>3, ConstantFacts DEF ScanRecord
        <4> QED
          BY <1>1, <2>1, <4>1 DEF Received
      <3> QED
        BY <1>1, <3>2, <3>3, ConstantFacts DEF ScanRecord
    <2> QED
      BY <2>1, <2>2 DEF IrqCovers
  <1>5. CASE IrqReturns
    <2>1. /\ scan.at = "done" /\ scan'.at = "idle"
          /\ UNCHANGED <<irq, dmaPending, dmaSuspended, desc, CurrRxDmaDescIdx>>
      BY <1>5 DEF IrqReturns, IdleScan, driver, dma
    <2> QED
      BY <1>1, <2>1 DEF IrqCovers
  <1>6. CASE RxIndication
    <2>1. /\ scan.at = "test" /\ scan'.at = "callback"
          /\ scan'.BufferCount = scan.BufferCount
          /\ UNCHANGED <<irq, dmaPending, dmaIdx>>
          /\ Received' = Received /\ First' = First
      BY <1>1, <1>6 DEF RxIndication, ScanGoesOn, ScanRecord, dma, Received, First,
         InCallback
    <2> QED
      BY <1>1, <2>1 DEF IrqCovers
  <1>7. CASE RxIndicationReturns \/ DropDescriptor
    <2> DEFINE count == IF InCallback THEN scan.BufferClearCount ELSE 1
    <2>1. /\ scan.at \in {"test", "callback"} /\ scan'.at = "test"
          /\ scan'.BufferCount = scan.BufferCount + 1
          /\ UNCHANGED <<irq, dmaPending, dmaIdx>> /\ cntrlInit' = cntrlInit
          /\ ~InCallback' /\ First' = lIncrRxBufIdx(CurrRxDmaDescIdx)
      BY <1>1, <1>7 DEF RxIndicationReturns, DropDescriptor, ScanGoesOn, InCallback,
         ScanRecord, First, status, dma
    <2>2. /\ First \in Received /\ count \in {1, 2}
          /\ count = 2 => desc[First].TSA
          /\ desc' = Cleared(First, count)
          /\ CurrRxDmaDescIdx = IF count = 2 THEN lIncrRxBufIdx(First) ELSE First
      <3>1. CASE RxIndicationReturns
        BY <3>1 DEF RxIndicationReturns, RingInv, IndicatedFrame, First
      <3>2. CASE DropDescriptor
        BY <1>1, <3>2 DEF DropDescriptor, ScanGoesOn, InCallback, First, Received
      <3> QED
        BY <1>7, <3>1, <3>2
    <2> HIDE DEF count
    <2>3. First' = IF count = 2 THEN lIncrRxBufIdx(lIncrRxBufIdx(First))
                   ELSE lIncrRxBufIdx(First)
      BY <2>1, <2>2
    <2>4. /\ Used(Received', First', dmaIdx') < Used(Received, First, dmaIdx)
          /\ InStep(Received', First', dmaIdx')
      BY <1>1, <2>1, <2>2, <2>3, DriverReleases
    <2>5. Used(Received', First', dmaIdx') \in Int
      <3>1. /\ First' \in Buffers /\ dmaIdx' \in Buffers
            /\ Received' \in SUBSET Buffers
        BY <1>1, <2>1, TypeFacts, Successor DEF Received, RingInv, TypeInv
      <3> QED
        BY <2>4, <3>1, UsedBounds, ConstantFacts
    <2>6. dmaPending = "none" =>
            Used(Received', First', dmaIdx') + scan'.BufferCount <= EthRxBufTotal
      <3>1. dmaPending = "none" =>
              Used(Received, First, dmaIdx) + scan.BufferCount <= EthRxBufTotal
        BY <1>1, <2>1 DEF IrqCovers
      <3> QED
        BY <1>1, <2>1, <2>4, <2>5, <3>1, ConstantFacts DEF ScanRecord
    <2> QED
      BY <2>1, <2>6 DEF IrqCovers
  <1> QED
    BY <1>2, <1>3, <1>4, <1>5, <1>6, <1>7 DEF Scan

\* For every ring size and every limit of loops, a stored frame or a DMA
\* without descriptors leaves an interrupt pending when no scan runs.
THEOREM InterruptCorrect == Spec => []NoLostRxInterrupt
  <1>1. Init => IrqCovers
    BY DEF Init, IrqCovers
  <1>2. IrqCovers /\ RingInv /\ [Next]_vars => IrqCovers'
    <2> SUFFICES ASSUME IrqCovers, RingInv, [Next]_vars,
                        RxIntEnabled', cntrlInit', ~irq'
                 PROVE  IrqCovers'
      BY DEF IrqCovers
    <2>1. CASE EthInit
      BY <2>1 DEF EthInit
    <2>2. CASE SetControllerMode
      <3>1. /\ desc' = [i \in Buffers |-> Fresh] /\ CurrRxDmaDescIdx' = 0
            /\ dmaSuspended' = FALSE /\ scan'.at = "idle"
        BY <2>2, RestartSteps DEF RingInv, TypeInv, MainRuns
      <3>2. desc'[CurrRxDmaDescIdx'].OWN
        BY <3>1, ConstantFacts DEF Fresh
      <3> QED
        BY <3>1, <3>2 DEF IrqCovers
    <2>3. CASE GetIngressTimeStamp \/ ReceiveWakesDma \/ UNCHANGED vars
      <3>1. /\ UNCHANGED <<RxIntEnabled, desc, CurrRxDmaDescIdx, dmaIdx, cntrlInit,
                           scan, irq, dmaPending>>
            /\ dmaSuspended' \in {dmaSuspended, FALSE}
        BY <2>3 DEF GetIngressTimeStamp, ReceiveWakesDma, WriteTailPointer, vars,
           driver, status, dma
      <3>2. Received' = Received /\ First' = First
        BY <3>1 DEF Received, First, InCallback
      <3> QED
        BY <3>1, <3>2 DEF IrqCovers
    <2>4. CASE Scan
      <3>1. RxIntEnabled
        BY <2>4 DEF Scan, Receive, ReceiveReturns, RxDmaCh0IrqHdlr, IrqWritesTail,
           IrqLoops, IrqReturns, RxIndication, RxIndicationReturns, DropDescriptor,
           status
      <3> QED
        BY <2>4, <3>1, ScanCovers
    <2>5. CASE Dma
      <3>1. /\ UNCHANGED <<RxIntEnabled, cntrlInit, scan, CurrRxDmaDescIdx>>
            /\ ~irq /\ dmaSuspended' = dmaSuspended /\ dmaPending' /= "none"
        BY <2>5, DmaSteps DEF RingInv, TypeInv, driver, status
      <3> QED
        BY <3>1 DEF IrqCovers
    <2> QED
      BY <2>1, <2>2, <2>3, <2>4, <2>5 DEF Next
  <1>3. IrqCovers => NoLostRxInterrupt
    BY DEF IrqCovers, NoLostRxInterrupt, MainRuns
  <1> QED
    BY <1>1, <1>2, <1>3, RingInvariance, PTL DEF Spec

-----------------------------------------------------------------------------
(* The answer of Receive. *)

\* After the answer "more" the driver's descriptor stays closed until the next
\* scan has looked at it.
MoreInv ==
  rxStatus = "MORE" =>
    /\ ~RxIntEnabled /\ scan.at /= "done"
    /\ scan.at = "idle" \/ (scan.at = "test" /\ scan.BufferCount = 0) =>
         ~desc[CurrRxDmaDescIdx].OWN
    /\ scan.at = "test" /\ scan.BufferCount = 0 => ~scan.ApplIndication

LEMMA MoreStep ==
  ASSUME MoreInv, TypeInv, [Next]_vars
  PROVE  MoreInv'
  <1>1. /\ scan \in ScanRecord
        /\ desc \in [Buffers -> Descriptor]
        /\ CurrRxDmaDescIdx \in Buffers /\ dmaIdx \in Buffers
    BY TypeFacts DEF TypeInv
  <1>2. CASE EthInit \/ SetControllerMode \/ ReceiveWakesDma
    BY <1>2 DEF EthInit, SetControllerMode, ReceiveWakesDma, MoreInv
  <1>3. CASE GetIngressTimeStamp \/ UNCHANGED vars
    BY <1>3 DEF GetIngressTimeStamp, vars, driver, status, MoreInv
  <1>4. CASE ReceiveReturns
    BY <1>4, TypeFacts DEF ReceiveReturns, lIsNextFrameAvailable, driver, status, MoreInv
  <1>5. CASE Receive
    <2>1. /\ scan.at = "idle" /\ scan'.at = "test" /\ ~scan'.ApplIndication
          /\ UNCHANGED <<desc, CurrRxDmaDescIdx, RxIntEnabled, rxStatus>>
      BY <1>5 DEF Receive, MainRuns, IdleScan, driver, status
    <2> QED
      BY <2>1 DEF MoreInv
  <1>6. CASE RxDmaCh0IrqHdlr \/ IrqWritesTail
    BY <1>6 DEF RxDmaCh0IrqHdlr, IrqWritesTail, status, MoreInv
  <1>7. CASE IrqLoops \/ IrqReturns
    BY <1>7 DEF IrqLoops, IrqReturns, MoreInv
  <1>8. CASE RxIndication
    <2>1. scan'.at = "callback" /\ RxIntEnabled' = RxIntEnabled /\ rxStatus' = rxStatus
      BY <1>1, <1>8 DEF RxIndication, ScanRecord, status
    <2> QED
      BY <2>1 DEF MoreInv
  <1>9. CASE RxIndicationReturns \/ DropDescriptor
    <2>1. /\ scan'.at = "test" /\ scan'.BufferCount > 0
          /\ RxIntEnabled' = RxIntEnabled /\ rxStatus' = rxStatus
      <3>1. scan.BufferCount + 1 > 0
        BY <1>1, ConstantFacts DEF ScanRecord
      <3> QED
        BY <1>1, <1>9, <3>1
        DEF RxIndicationReturns, DropDescriptor, ScanGoesOn, ScanRecord, status
    <2> QED
      BY <2>1 DEF MoreInv
  <1>10. CASE Dma
    <2>1. /\ UNCHANGED <<RxIntEnabled, CurrRxDmaDescIdx, scan, rxStatus>>
          /\ \/ \E d \in Descriptor : DmaClosesOne(d) \/ DmaClosesTwo(d)
             \/ desc' = desc
      BY <1>10, DmaSteps DEF TypeInv, driver, status
    <2>2. ~desc[CurrRxDmaDescIdx].OWN => ~desc'[CurrRxDmaDescIdx].OWN
      BY <1>1, <2>1, Successor DEF DmaClosesOne, DmaClosesTwo
    <2> QED
      BY <2>1, <2>2 DEF MoreInv
  <1> QED
    BY <1>2, <1>3, <1>4, <1>5, <1>6, <1>7, <1>8, <1>9, <1>10 DEF Next, Scan

\* For every ring size a Receive that follows the answer "more data available"
\* finds a descriptor the DMA has closed.
THEOREM MoreCorrect == Spec => MoreDataMeansMoreFrames
  <1>1. Init => MoreInv
    BY DEF Init, MoreInv
  <1>2. MoreInv /\ TypeInv /\ [Next]_vars => MoreInv'
    BY MoreStep
  <1>3. MoreInv /\ TypeInv /\ [Next]_vars =>
          [rxStatus = "MORE" /\ rxStatus' = "NOT_RECEIVED" => scan.BufferCount > 0]_vars
    <2> SUFFICES ASSUME MoreInv, TypeInv, Next,
                        rxStatus = "MORE", rxStatus' = "NOT_RECEIVED"
                 PROVE  scan.BufferCount > 0
      OBVIOUS
    <2>1. scan \in ScanRecord
      BY TypeFacts DEF TypeInv
    <2>2. ~RxIntEnabled
      BY DEF MoreInv
    <2>3. CASE ReceiveReturns
      <3>1. scan.BufferCount = 0 => ~desc[CurrRxDmaDescIdx].OWN /\ ~scan.ApplIndication
        BY <2>3 DEF ReceiveReturns, ScanEnds, MoreInv
      <3>2. scan.BufferCount /= 0
        BY <2>3, <3>1, ConstantFacts DEF ReceiveReturns, ScanEnds, ScanGoesOn
      <3> QED
        BY <2>1, <3>2 DEF ScanRecord
    <2>4. CASE Dma
      BY <2>4, DmaSteps DEF TypeInv
    <2>5. CASE ~ReceiveReturns /\ ~Dma
      BY <2>2, <2>5 DEF Next, Scan, EthInit, SetControllerMode, GetIngressTimeStamp,
         ReceiveWakesDma, Receive, RxDmaCh0IrqHdlr, IrqWritesTail, IrqLoops, IrqReturns,
         RxIndication, RxIndicationReturns, DropDescriptor
    <2> QED
      BY <2>3, <2>4, <2>5
  <1> QED
    BY <1>1, <1>2, <1>3, TypeInvariance, PTL DEF Spec, MoreDataMeansMoreFrames

-----------------------------------------------------------------------------
(* The frames of a row of descriptors. *)

Data == Frames \cup {NA}

\* The recursion of the fold, over the sets of positions of n descriptors.
FramesIter(f, n, slots) ==
  f = [s \in SUBSET (1 .. n) |->
         IF s = {} THEN <<>>
         ELSE IF Complete(slots[Max(s)])
              THEN Append(f[s \ {Max(s)}], slots[Max(s)].data)
              ELSE f[s \ {Max(s)}]]

LEMMA FramesIterExists ==
  ASSUME NEW n \in Nat, NEW slots \in [1 .. n -> Descriptor]
  PROVE  \E f : FramesIter(f, n, slots)
  <1> DEFINE More(q, d) == IF Complete(d) THEN Append(q, d.data) ELSE q
             Iter(f, k) ==
               \A s \in SUBSET (1 .. k) :
                 f[s] = IF s = {} THEN <<>> ELSE More(f[s \ {Max(s)}], slots[Max(s)])
             Exists(k) == \E f \in [SUBSET (1 .. k) -> Seq(Data)] : Iter(f, k)
             S == {k \in Nat : k <= n => Exists(k)}
  <1>0. \A q \in Seq(Data), d \in Descriptor : More(q, d) \in Seq(Data)
    BY AppendProperties DEF Descriptor, Data
  <1> HIDE DEF More
  <1>1. 0 \in S
    <2> DEFINE g == [s \in SUBSET (1 .. 0) |-> <<>>]
    <2>1. \A s \in SUBSET (1 .. 0) : s = {}
      OBVIOUS
    <2>2. <<>> \in Seq(Data)
      OBVIOUS
    <2> QED
      BY <2>1, <2>2, g \in [SUBSET (1 .. 0) -> Seq(Data)], Iter(g, 0)
  <1>2. ASSUME NEW k \in S PROVE k + 1 \in S
    <2> SUFFICES ASSUME k + 1 <= n, Exists(k) PROVE Exists(k + 1)
      <3> HIDE DEF Exists
      <3> QED
        OBVIOUS
    <2>1. PICK f \in [SUBSET (1 .. k) -> Seq(Data)] : Iter(f, k)
      BY Zenon
    <2>2. slots[k + 1] \in Descriptor
      OBVIOUS
    <2> DEFINE g == [s \in SUBSET (1 .. k + 1) |->
                       IF k + 1 \in s THEN More(f[s \ {Max(s)}], slots[k + 1]) ELSE f[s]]
    <2>3. g \in [SUBSET (1 .. k + 1) -> Seq(Data)]
      <3> SUFFICES ASSUME NEW s \in SUBSET (1 .. k + 1) PROVE g[s] \in Seq(Data)
        BY Zenon
      <3>1. CASE k + 1 \in s
        <4>1. f[s \ {Max(s)}] \in Seq(Data)
          BY <3>1, LastIsMax
        <4> QED
          BY <1>0, <2>2, <3>1, <4>1
      <3>2. CASE k + 1 \notin s
        BY <3>2, LastIsMax
      <3> QED
        BY <3>1, <3>2
    <2>4. ASSUME NEW s \in SUBSET (1 .. k + 1)
          PROVE  g[s] = IF s = {} THEN <<>> ELSE More(g[s \ {Max(s)}], slots[Max(s)])
      <3>1. CASE k + 1 \in s
        <4>1. /\ Max(s) = k + 1 /\ s \ {Max(s)} \in SUBSET (1 .. k)
              /\ k + 1 \notin s \ {Max(s)} /\ s \ {Max(s)} \in SUBSET (1 .. k + 1)
          BY <3>1, LastIsMax
        <4>2. g[s \ {Max(s)}] = f[s \ {Max(s)}]
          BY <4>1
        <4> QED
          BY <3>1, <4>1, <4>2
      <3>2. CASE k + 1 \notin s
        <4>1. s \in SUBSET (1 .. k) /\ g[s] = f[s]
          BY <3>2, LastIsMax
        <4>2. s /= {} => s \ {Max(s)} \in SUBSET (1 .. k) /\ s \ {Max(s)} \in SUBSET (1 .. k + 1)
          BY <3>2, LastIsMax
        <4>3. s /= {} => g[s \ {Max(s)}] = f[s \ {Max(s)}]
          BY <3>2, <4>2
        <4> HIDE DEF g
        <4> QED
          BY <4>1, <4>3, <2>1
      <3> QED
        BY <3>1, <3>2
    <2> HIDE DEF g
    <2>5. Iter(g, k + 1)
      BY <2>4
    <2> HIDE DEF Iter
    <2> QED
      BY <2>3, <2>5
  <1> HIDE DEF S
  <1>3. S = Nat
    BY <1>1, <1>2, SetInduction, S \in SUBSET Nat DEF S
  <1>4. Exists(n)
    <2> HIDE DEF Exists
    <2> QED
      BY <1>3, n \in S DEF S
  <1>5. PICK f \in [SUBSET (1 .. n) -> Seq(Data)] : Iter(f, n)
    BY <1>4, Zenon
  <1>6. FramesIter(f, n, slots)
    BY <1>5 DEF FramesIter, More
  <1> QED
    BY <1>6

\* The frames of the first descriptors, of none, of one, and so on.
RunningFrames(r, slots) ==
  /\ r \in [0 .. Len(slots) -> Seq(Data)]
  /\ r[0] = <<>>
  /\ \A k \in 1 .. Len(slots) :
       r[k] = IF Complete(slots[k]) THEN Append(r[k - 1], slots[k].data) ELSE r[k - 1]

LEMMA RunningFramesUnique ==
  ASSUME NEW slots, Len(slots) \in Nat, NEW a, NEW b,
         RunningFrames(a, slots), RunningFrames(b, slots)
  PROVE  a[Len(slots)] = b[Len(slots)]
  <1> DEFINE S == {k \in Nat : k <= Len(slots) => a[k] = b[k]}
  <1>1. 0 \in S
    BY DEF RunningFrames
  <1>2. ASSUME NEW k \in S PROVE k + 1 \in S
    <2> SUFFICES ASSUME k + 1 <= Len(slots) PROVE a[k + 1] = b[k + 1]
      OBVIOUS
    <2>1. k + 1 \in 1 .. Len(slots) /\ (k + 1) - 1 = k /\ a[k] = b[k]
      OBVIOUS
    <2> QED
      BY <2>1 DEF RunningFrames
  <1> HIDE DEF S
  <1>3. S = Nat
    BY <1>1, <1>2, SetInduction, S \in SUBSET Nat DEF S
  <1> QED
    BY <1>3, Len(slots) \in S DEF S

LEMMA IterIsRunningFrames ==
  ASSUME NEW n \in Nat, NEW slots \in [1 .. n -> Descriptor],
         NEW f, FramesIter(f, n, slots)
  PROVE  /\ f[1 .. 0] = <<>>
         /\ \A k \in 0 .. n : f[1 .. k] \in Seq(Data)
         /\ \A k \in 1 .. n :
              f[1 .. k] = IF Complete(slots[k])
                          THEN Append(f[1 .. k - 1], slots[k].data)
                          ELSE f[1 .. k - 1]
  <1>1. f[1 .. 0] = <<>>
    <2>1. 1 .. 0 = {} /\ {} \in SUBSET (1 .. n)
      OBVIOUS
    <2> QED
      BY <2>1 DEF FramesIter
  <1>2. ASSUME NEW k \in 1 .. n
        PROVE  f[1 .. k] = IF Complete(slots[k])
                           THEN Append(f[1 .. k - 1], slots[k].data)
                           ELSE f[1 .. k - 1]
    <2>1. PICK m \in Nat : k = m + 1
      BY k - 1 \in Nat, (k - 1) + 1 = k
    <2>2. 1 .. k \in SUBSET (1 .. n) /\ 1 .. k \in SUBSET (1 .. m + 1) /\ m + 1 \in 1 .. k
      BY <2>1
    <2>3. Max(1 .. k) = k
      BY <2>1, <2>2, LastIsMax
    <2>4. (1 .. k) \ {k} = 1 .. k - 1 /\ 1 .. k /= {}
      BY <2>1, FirstNumbers
    <2> QED
      BY <2>2, <2>3, <2>4 DEF FramesIter
  <1> DEFINE S == {k \in Nat : k <= n => f[1 .. k] \in Seq(Data)}
  <1>3. 0 \in S
    <2>1. f[1 .. 0] \in Seq(Data)
      BY <1>1, EmptySeq
    <2> QED
      BY <2>1
  <1>4. ASSUME NEW k \in S PROVE k + 1 \in S
    <2> SUFFICES ASSUME k + 1 <= n PROVE f[1 .. k + 1] \in Seq(Data)
      OBVIOUS
    <2>1. k + 1 \in 1 .. n /\ (k + 1) - 1 = k /\ f[1 .. k] \in Seq(Data)
      OBVIOUS
    <2>2. slots[k + 1].data \in Data
      BY <2>1 DEF Descriptor, Data
    <2>3. Append(f[1 .. k], slots[k + 1].data) \in Seq(Data)
      BY <2>1, <2>2, AppendProperties
    <2> QED
      BY <1>2, <2>1, <2>3
  <1> HIDE DEF S
  <1>5. S = Nat
    BY <1>3, <1>4, SetInduction, S \in SUBSET Nat DEF S
  <1>6. ASSUME NEW k \in 0 .. n PROVE f[1 .. k] \in Seq(Data)
    BY <1>5, k \in S DEF S
  <1> QED
    BY <1>1, <1>2, <1>6

\* The fold is the last of them.
LEMMA FramesAreRunning ==
  ASSUME NEW slots \in Seq(Descriptor)
  PROVE  /\ \E r : RunningFrames(r, slots) /\ FramesOf(slots) = r[Len(slots)]
         /\ \A r : RunningFrames(r, slots) => FramesOf(slots) = r[Len(slots)]
         /\ FramesOf(slots) \in Seq(Data)
  <1> DEFINE n == Len(slots)
             g == CHOOSE f : f = [s \in SUBSET DOMAIN slots |->
                                    IF s = {} THEN <<>>
                                    ELSE IF Complete(slots[Max(s)])
                                         THEN Append(f[s \ {Max(s)}], slots[Max(s)].data)
                                         ELSE f[s \ {Max(s)}]]
             r == [k \in 0 .. n |-> g[1 .. k]]
  <1>1. n \in Nat /\ slots \in [1 .. n -> Descriptor] /\ DOMAIN slots = 1 .. n
    OBVIOUS
  <1>2. FramesOf(slots) = g[DOMAIN slots]
    BY Zenon DEF FramesOf, FoldLeft, MapThenFoldSet
  <1>3. g = [s \in SUBSET DOMAIN slots |->
               IF s = {} THEN <<>>
               ELSE IF Complete(slots[Max(s)])
                    THEN Append(g[s \ {Max(s)}], slots[Max(s)].data)
                    ELSE g[s \ {Max(s)}]]
    <2> HIDE DEF n
    <2>1. \E f : FramesIter(f, n, slots)
      BY <1>1, FramesIterExists
    <2>2. \E f : f = [s \in SUBSET DOMAIN slots |->
                        IF s = {} THEN <<>>
                        ELSE IF Complete(slots[Max(s)])
                             THEN Append(f[s \ {Max(s)}], slots[Max(s)].data)
                             ELSE f[s \ {Max(s)}]]
      BY <1>1, <2>1, Zenon DEF FramesIter
    <2> QED
      BY <2>2, Zenon
  <1> HIDE DEF g, n, r
  <1>4. /\ g[1 .. 0] = <<>>
        /\ \A k \in 0 .. n : g[1 .. k] \in Seq(Data)
        /\ \A k \in 1 .. n :
             g[1 .. k] = IF Complete(slots[k])
                         THEN Append(g[1 .. k - 1], slots[k].data)
                         ELSE g[1 .. k - 1]
    <2>1. FramesIter(g, n, slots)
      BY <1>1, <1>3, Zenon DEF FramesIter
    <2> QED
      BY <1>1, <2>1, IterIsRunningFrames
  <1>5. RunningFrames(r, slots)
    <2>1. \A k \in 1 .. n : k - 1 \in 0 .. n /\ k \in 0 .. n
      BY <1>1
    <2>2. 0 \in 0 .. n
      BY <1>1
    <2>3. /\ r \in [0 .. n -> Seq(Data)] /\ r[0] = <<>>
          /\ \A k \in 0 .. n : r[k] = g[1 .. k]
      BY <1>4, <2>2 DEF r
    <2> QED
      BY <1>4, <2>1, <2>3 DEF RunningFrames, n
  <1>6. r[Len(slots)] = FramesOf(slots) /\ FramesOf(slots) \in Seq(Data)
    BY <1>1, <1>2, <1>4 DEF n, r
  <1>7. ASSUME NEW q, RunningFrames(q, slots) PROVE FramesOf(slots) = q[Len(slots)]
    BY <1>5, <1>6, <1>7, <1>1, RunningFramesUnique DEF n
  <1> QED
    BY <1>5, <1>6, <1>7

LEMMA FramesOfAppend ==
  ASSUME NEW slots \in Seq(Descriptor), NEW d \in Descriptor
  PROVE  FramesOf(Append(slots, d)) =
           IF Complete(d) THEN Append(FramesOf(slots), d.data) ELSE FramesOf(slots)
  <1>1. PICK a : RunningFrames(a, slots) /\ FramesOf(slots) = a[Len(slots)]
    BY FramesAreRunning
  <1>2. PICK b : /\ RunningFrames(b, Append(slots, d))
                 /\ FramesOf(Append(slots, d)) = b[Len(Append(slots, d))]
    BY FramesAreRunning, AppendProperties
  <1>3. /\ Len(slots) \in Nat /\ Len(Append(slots, d)) = Len(slots) + 1
        /\ \A k \in 1 .. Len(slots) : Append(slots, d)[k] = slots[k]
        /\ Append(slots, d)[Len(slots) + 1] = d
    BY AppendProperties, LenProperties
  <1>4. b[Len(slots)] = a[Len(slots)]
    <2> DEFINE S == {k \in Nat : k <= Len(slots) => a[k] = b[k]}
    <2>1. 0 \in S
      BY <1>1, <1>2 DEF RunningFrames
    <2>2. ASSUME NEW k \in S PROVE k + 1 \in S
      <3> SUFFICES ASSUME k + 1 <= Len(slots) PROVE a[k + 1] = b[k + 1]
        OBVIOUS
      <3>1. k + 1 \in 1 .. Len(slots) /\ k + 1 \in 1 .. Len(slots) + 1
            /\ (k + 1) - 1 = k /\ a[k] = b[k]
        BY <1>3
      <3> QED
        BY <1>1, <1>2, <1>3, <3>1 DEF RunningFrames
    <2> HIDE DEF S
    <2>3. S = Nat
      BY <2>1, <2>2, SetInduction, S \in SUBSET Nat DEF S
    <2> QED
      BY <1>3, <2>3, Len(slots) \in S DEF S
  <1>5. b[Len(slots) + 1] = IF Complete(d) THEN Append(b[Len(slots)], d.data)
                            ELSE b[Len(slots)]
    <2>1. Len(slots) + 1 \in 1 .. Len(Append(slots, d)) /\ (Len(slots) + 1) - 1 = Len(slots)
      BY <1>3
    <2> QED
      BY <1>2, <1>3, <2>1 DEF RunningFrames
  <1> QED
    BY <1>1, <1>2, <1>3, <1>4, <1>5

LEMMA FramesOfTail ==
  ASSUME NEW slots \in Seq(Descriptor), slots /= <<>>
  PROVE  /\ Tail(slots) \in Seq(Descriptor)
         /\ FramesOf(slots) = IF Complete(slots[1])
                             THEN <<slots[1].data>> \o FramesOf(Tail(slots))
                             ELSE FramesOf(Tail(slots))
  <1> DEFINE n == Len(slots)
             rest == Tail(slots)
             head == IF Complete(slots[1]) THEN <<slots[1].data>> ELSE <<>>
  <1>1. /\ n \in Nat \ {0} /\ rest \in Seq(Descriptor) /\ Len(rest) = n - 1
        /\ \A k \in 1 .. n - 1 : rest[k] = slots[k + 1]
        /\ \A k \in 1 .. n : slots[k] \in Descriptor
    BY HeadTailProperties, EmptySeq, ElementOfSeq
  <1>2. head \in Seq(Data)
    <2>1. slots[1].data \in Data
      BY <1>1 DEF Descriptor, Data
    <2> QED
      BY <2>1
  <1>3. PICK b : RunningFrames(b, rest) /\ FramesOf(rest) = b[Len(rest)]
    BY <1>1, FramesAreRunning
  <1>4. b[0] = <<>> /\ \A k \in 0 .. n - 1 : b[k] \in Seq(Data)
    BY <1>1, <1>3 DEF RunningFrames
  <1> DEFINE c == [k \in 0 .. n |-> IF k = 0 THEN <<>> ELSE head \o b[k - 1]]
  <1> HIDE DEF n, rest, head
  <1>5. c \in [0 .. n -> Seq(Data)] /\ c[0] = <<>>
        /\ \A k \in 1 .. n : c[k] = head \o b[k - 1]
    <2>1. ASSUME NEW k \in 1 .. n PROVE head \o b[k - 1] \in Seq(Data)
      BY <1>1, <1>2, <1>4, k - 1 \in 0 .. n - 1, ConcatProperties
    <2>2. ASSUME NEW k \in 0 .. n PROVE c[k] \in Seq(Data)
      <3>1. k = 0 \/ k \in 1 .. n
        BY <1>1
      <3> QED
        BY <2>1, <3>1, EmptySeq
    <2> QED
      BY <1>1, <2>2
  <1> HIDE DEF c
  <1>6. ASSUME NEW k \in 1 .. n
        PROVE  c[k] = IF Complete(slots[k]) THEN Append(c[k - 1], slots[k].data)
                      ELSE c[k - 1]
    <2>1. CASE k = 1
      <3>1. c[1] = head \o b[0] /\ c[0] = <<>>
        BY <1>5, <2>1
      <3>2. c[1] = head
        BY <1>2, <1>4, <3>1, ConcatEmptySeq
      <3>3. Append(<<>>, slots[1].data) = <<slots[1].data>>
        OBVIOUS
      <3>4. head = IF Complete(slots[1]) THEN Append(<<>>, slots[1].data) ELSE <<>>
        BY <3>3, Zenon DEF head
      <3>5. c[k] = head /\ c[k - 1] = <<>> /\ slots[k] = slots[1]
        BY <2>1, <3>1, <3>2
      <3> HIDE DEF head
      <3> QED
        BY <3>4, <3>5, Zenon
    <2>2. CASE k > 1
      <3>1. PICK j \in 1 .. n - 1 : k = j + 1
        BY <1>1, <2>2, k - 1 \in 1 .. n - 1, k = (k - 1) + 1
      <3>2. j - 1 \in 0 .. n - 1 /\ j \in 1 .. Len(rest) /\ j \in 1 .. n
            /\ k - 1 = j
        BY <1>1, <3>1
      <3>3. c[k] = head \o b[j] /\ c[j] = head \o b[j - 1]
        BY <1>5, <3>2
      <3>4. b[j] = IF Complete(slots[k]) THEN Append(b[j - 1], slots[k].data) ELSE b[j - 1]
        BY <1>1, <1>3, <3>1, <3>2 DEF RunningFrames
      <3>5. slots[k].data \in Data
        BY <1>1 DEF Descriptor, Data
      <3>6. head \o Append(b[j - 1], slots[k].data) = Append(head \o b[j - 1], slots[k].data)
        <4> DEFINE s == b[j - 1]
                   e == slots[k].data
        <4>1. s \in Seq(Data) /\ e \in Data /\ head \in Seq(Data)
          BY <1>2, <1>4, <3>2, <3>5
        <4> HIDE DEF head, s, e
        <4>2. head \o Append(s, e) = Append(head \o s, e)
          BY <4>1, ConcatOfAppend
        <4> QED
          BY <4>2 DEF s, e
      <3> QED
        BY <3>2, <3>3, <3>4, <3>6
    <2> QED
      BY <1>1, <2>1, <2>2
  <1>7. RunningFrames(c, slots)
    BY <1>5, <1>6 DEF RunningFrames, n
  <1>8. FramesOf(slots) = head \o FramesOf(rest)
    <2>1. FramesOf(slots) = c[n]
      BY <1>7, FramesAreRunning DEF n
    <2>2. c[n] = head \o b[n - 1]
      BY <1>1, <1>5
    <2>3. FramesOf(rest) = b[n - 1]
      BY <1>1, <1>3
    <2> QED
      BY <2>1, <2>2, <2>3, Zenon
  <1>9. <<>> \o FramesOf(rest) = FramesOf(rest)
    BY <1>1, FramesAreRunning, ConcatEmptySeq
  <1> QED
    BY <1>1, <1>8, <1>9 DEF rest, head

LEMMA FramesFit ==
  ASSUME NEW slots \in Seq(Descriptor)
  PROVE  FramesOf(slots) \in Seq(Data) /\ Len(FramesOf(slots)) <= Len(slots)
  <1>1. PICK r : RunningFrames(r, slots) /\ FramesOf(slots) = r[Len(slots)]
    BY FramesAreRunning
  <1>2. Len(slots) \in Nat /\ FramesOf(slots) \in Seq(Data)
    BY FramesAreRunning, LenProperties
  <1> DEFINE S == {k \in Nat : k <= Len(slots) => Len(r[k]) <= k}
  <1>3. 0 \in S
    <2>1. Len(r[0]) = 0
      BY <1>1, EmptySeq DEF RunningFrames
    <2> QED
      BY <2>1
  <1>4. ASSUME NEW k \in S PROVE k + 1 \in S
    <2> SUFFICES ASSUME k + 1 <= Len(slots) PROVE Len(r[k + 1]) <= k + 1
      OBVIOUS
    <2>1. k + 1 \in 1 .. Len(slots) /\ k \in 0 .. Len(slots) /\ (k + 1) - 1 = k
          /\ Len(r[k]) <= k
      BY <1>2
    <2>2. r[k] \in Seq(Data) /\ slots[k + 1].data \in Data
      <3>1. slots[k + 1] \in Descriptor
        BY <2>1, ElementOfSeq
      <3>2. r[k] \in Seq(Data)
        BY <1>1, <2>1 DEF RunningFrames
      <3> QED
        BY <3>1, <3>2 DEF Descriptor, Data
    <2>3. Len(Append(r[k], slots[k + 1].data)) = Len(r[k]) + 1 /\ Len(r[k]) \in Nat
      BY <2>2, AppendProperties, LenProperties
    <2>4. r[k + 1] = r[k] \/ r[k + 1] = Append(r[k], slots[k + 1].data)
      BY <1>1, <2>1 DEF RunningFrames
    <2> QED
      BY <2>1, <2>3, <2>4
  <1> HIDE DEF S
  <1>5. S = Nat
    BY <1>3, <1>4, SetInduction, S \in SUBSET Nat DEF S
  <1> QED
    BY <1>1, <1>2, <1>5, Len(slots) \in S DEF S

-----------------------------------------------------------------------------
(* The descriptors the DMA closed, as a row. *)

\* The place k after index a in the ring.
Place(a, k) == (a + k) % EthRxBufTotal

LEMMA PlaceValue ==
  ASSUME NEW a \in Buffers, NEW k \in 0 .. EthRxBufTotal
  PROVE  /\ Place(a, k) \in Buffers
         /\ Place(a, k) = IF a + k < EthRxBufTotal THEN a + k ELSE a + k - EthRxBufTotal
  <1>1. EthRxBufTotal \in Nat \ {0, 1}
    BY ConstantFacts
  <1>2. CASE a + k < EthRxBufTotal
    <2>1. (a + k) % EthRxBufTotal = a + k
      BY <1>1, <1>2 DEF Buffers
    <2> QED
      BY <1>1, <1>2, <2>1 DEF Buffers, Place
  <1>3. CASE a + k >= EthRxBufTotal
    <2>1. (a + k) % EthRxBufTotal = a + k - EthRxBufTotal
      BY <1>1, <1>3 DEF Buffers
    <2> QED
      BY <1>1, <1>3, <2>1 DEF Buffers, Place
  <1> QED
    BY <1>1, <1>2, <1>3 DEF Buffers

LEMMA Places ==
  ASSUME NEW a \in Buffers
  PROVE  /\ Place(a, 0) = a
         /\ \A j, k \in 0 .. EthRxBufTotal - 1 : Place(a, j) = Place(a, k) => j = k
         /\ \A k \in 0 .. EthRxBufTotal - 1 : Place(lIncrRxBufIdx(a), k) = Place(a, k + 1)
  <1>1. EthRxBufTotal \in Nat \ {0, 1}
    BY ConstantFacts
  <1>2. Place(a, 0) = a
    BY <1>1, PlaceValue DEF Buffers
  <1>3. ASSUME NEW j \in 0 .. EthRxBufTotal - 1, NEW k \in 0 .. EthRxBufTotal - 1,
               Place(a, j) = Place(a, k)
        PROVE  j = k
    <2>1. /\ Place(a, j) = IF a + j < EthRxBufTotal THEN a + j ELSE a + j - EthRxBufTotal
          /\ Place(a, k) = IF a + k < EthRxBufTotal THEN a + k ELSE a + k - EthRxBufTotal
      BY <1>1, PlaceValue
    <2>2. a \in 0 .. EthRxBufTotal - 1
      BY DEF Buffers
    <2>3. \/ a + j = a + k
          \/ a + j = a + k - EthRxBufTotal
          \/ a + j - EthRxBufTotal = a + k
          \/ a + j - EthRxBufTotal = a + k - EthRxBufTotal
      BY <1>3, <2>1, Zenon
    <2> QED
      BY <1>1, <2>2, <2>3
  <1>4. ASSUME NEW k \in 0 .. EthRxBufTotal - 1
        PROVE  Place(lIncrRxBufIdx(a), k) = Place(a, k + 1)
    <2> DEFINE b == lIncrRxBufIdx(a)
    <2>1. b \in Buffers /\ b = IF a = EthRxBufTotal - 1 THEN 0 ELSE a + 1
      BY Successor
    <2> HIDE DEF b
    <2>2. /\ Place(b, k) = IF b + k < EthRxBufTotal THEN b + k ELSE b + k - EthRxBufTotal
          /\ Place(a, k + 1) = IF a + (k + 1) < EthRxBufTotal THEN a + (k + 1)
                               ELSE a + (k + 1) - EthRxBufTotal
      BY <1>1, <2>1, PlaceValue
    <2>3. Place(b, k) = Place(a, k + 1)
      BY <1>1, <2>1, <2>2 DEF Buffers
    <2> QED
      BY <2>3 DEF b
  <1> QED
    BY <1>2, <1>3, <1>4

\* A stretch of the ring, by the number of its descriptors.
LEMMA StretchCount ==
  ASSUME NEW a \in Buffers, NEW b \in Buffers, NEW R \in SUBSET Buffers, InStep(R, a, b)
  PROVE  /\ Cardinality(R) \in 0 .. EthRxBufTotal
         /\ Place(a, Cardinality(R)) = b
         /\ a \in R <=> Cardinality(R) > 0
         /\ b \notin R => Cardinality(R) < EthRxBufTotal
  <1>1. EthRxBufTotal \in Nat \ {0, 1} /\ Buffers = 0 .. EthRxBufTotal - 1
    BY ConstantFacts DEF Buffers
  <1> DEFINE n == EthRxBufTotal
  <1>2. CASE R = {} /\ a = b
    <2>1. Cardinality(R) = 0
      BY <1>2, FS_EmptySet
    <2> QED
      BY <1>1, <1>2, <2>1, Places
  <1>3. CASE R = Buffers /\ a = b
    <2>1. Cardinality(R) = n
      BY <1>1, <1>3, FS_Interval, 0 \in Int, n - 1 \in Int
    <2>2. Place(a, n) = a
      BY <1>1, PlaceValue
    <2> QED
      BY <1>1, <1>3, <2>1, <2>2
  <1>4. CASE a < b
    <2>1. R = a .. b - 1
      <3>1. \A i \in Buffers : i \in Stretch(a, b) <=> a <= i /\ i < b
        BY <1>4 DEF Stretch
      <3>2. \A i \in Buffers : a <= i /\ i < b <=> i \in a .. b - 1
        BY <1>1
      <3>3. a .. b - 1 \subseteq Buffers /\ R = Stretch(a, b)
        BY <1>1, <1>4 DEF InStep
      <3> QED
        BY <3>1, <3>2, <3>3
    <2>2. Cardinality(R) = b - a
      BY <1>1, <1>4, <2>1, FS_Interval, a \in Int, b - 1 \in Int
    <2>3. Place(a, b - a) = b
      BY <1>1, <1>4, PlaceValue
    <2> QED
      BY <1>1, <1>4, <2>1, <2>2, <2>3
  <1>5. CASE b < a
    <2> DEFINE low == 0 .. b - 1
               high == a .. n - 1
    <2>1. R = low \cup high /\ low \cap high = {}
      BY <1>1, <1>5 DEF InStep, Stretch
    <2>2. /\ IsFiniteSet(low) /\ Cardinality(low) = b
          /\ IsFiniteSet(high) /\ Cardinality(high) = n - a
      <3>1. IsFiniteSet(low) /\ Cardinality(low) = IF 0 > b - 1 THEN 0 ELSE (b - 1) - 0 + 1
        BY <1>1, FS_Interval, 0 \in Int, b - 1 \in Int
      <3>2. IsFiniteSet(high) /\ Cardinality(high) = IF a > n - 1 THEN 0 ELSE (n - 1) - a + 1
        BY <1>1, FS_Interval, a \in Int, n - 1 \in Int
      <3> HIDE DEF low, high
      <3> QED
        BY <1>1, <3>1, <3>2
    <2> HIDE DEF low, high
    <2>3. Cardinality(R) = b + (n - a)
      <3>1. Cardinality(low \cup high) = Cardinality(low) + Cardinality(high) - Cardinality({})
        BY <2>1, <2>2, FS_Union
      <3> QED
        BY <1>1, <2>1, <2>2, <3>1, FS_EmptySet
    <2>4. Place(a, b + (n - a)) = b
      BY <1>1, <1>5, PlaceValue
    <2>5. a \in R
      BY <1>1, <1>5, <2>1 DEF high
    <2> QED
      BY <1>1, <1>5, <2>3, <2>4, <2>5
  <1> QED
    BY <1>1, <1>2, <1>3, <1>4, <1>5 DEF InStep

\* The contents d of c descriptors from index a on.
Row(d, a, c) == [k \in 1 .. c |-> d[Place(a, k - 1)]]

LEMMA RowElements ==
  ASSUME NEW d \in [Buffers -> Descriptor], NEW a \in Buffers,
         NEW c \in 0 .. EthRxBufTotal
  PROVE  /\ Row(d, a, c) \in Seq(Descriptor) /\ Len(Row(d, a, c)) = c
         /\ \A k \in 1 .. c : Row(d, a, c)[k] = d[Place(a, k - 1)]
         /\ c > 0 => Row(d, a, c) /= <<>> /\ Row(d, a, c)[1] = d[a]
  <1>1. EthRxBufTotal \in Nat
    BY ConstantFacts
  <1>2. \A k \in 1 .. c : k - 1 \in 0 .. EthRxBufTotal
    BY <1>1
  <1>3. Row(d, a, c) \in [1 .. c -> Descriptor] /\ c \in Nat
    BY <1>1, <1>2, PlaceValue DEF Row
  <1>4. Row(d, a, c) \in Seq(Descriptor) /\ Len(Row(d, a, c)) = c
    BY <1>3, FunctionIsSeq
  <1>5. ASSUME c > 0 PROVE Row(d, a, c) /= <<>> /\ Row(d, a, c)[1] = d[a]
    <2>1. Row(d, a, c) /= <<>>
      BY <1>4, <1>5, EmptySeq
    <2>2. 1 \in 1 .. c /\ 1 - 1 = 0
      BY <1>3, <1>5
    <2>3. Row(d, a, c)[1] = d[Place(a, 0)]
      BY <2>2 DEF Row
    <2> QED
      BY <2>1, <2>3, Places
  <1> QED
    BY <1>4, <1>5 DEF Row

LEMMA RowGrows ==
  ASSUME NEW d \in [Buffers -> Descriptor], NEW a \in Buffers,
         NEW c \in 0 .. EthRxBufTotal - 1, NEW e \in Descriptor
  PROVE  Row([d EXCEPT ![Place(a, c)] = e], a, c + 1) = Append(Row(d, a, c), e)
  <1> DEFINE d2 == [d EXCEPT ![Place(a, c)] = e]
  <1>1. EthRxBufTotal \in Nat \ {0, 1} /\ c \in 0 .. EthRxBufTotal
        /\ c + 1 \in 0 .. EthRxBufTotal
    BY ConstantFacts
  <1>2. Place(a, c) \in Buffers /\ d2 \in [Buffers -> Descriptor] /\ d2[Place(a, c)] = e
        /\ \A i \in Buffers : i /= Place(a, c) => d2[i] = d[i]
    BY <1>1, PlaceValue
  <1> HIDE DEF d2
  <1>3. ASSUME NEW k \in 1 .. c PROVE d2[Place(a, k - 1)] = d[Place(a, k - 1)]
    <2>1. k - 1 \in 0 .. EthRxBufTotal - 1 /\ k - 1 /= c /\ k - 1 \in 0 .. EthRxBufTotal
      BY <1>1
    <2>2. Place(a, k - 1) /= Place(a, c) /\ Place(a, k - 1) \in Buffers
      BY <2>1, Places, PlaceValue
    <2> QED
      BY <1>2, <2>2
  <1>4. /\ Row(d, a, c) \in Seq(Descriptor) /\ Len(Row(d, a, c)) = c
        /\ \A k \in 1 .. c : Row(d, a, c)[k] = d[Place(a, k - 1)]
    BY <1>1, RowElements
  <1>5. /\ Row(d2, a, c + 1) \in Seq(Descriptor) /\ Len(Row(d2, a, c + 1)) = c + 1
        /\ \A k \in 1 .. c + 1 : Row(d2, a, c + 1)[k] = d2[Place(a, k - 1)]
    <2> DEFINE n == c + 1
    <2>1. n \in 0 .. EthRxBufTotal /\ d2 \in [Buffers -> Descriptor]
      BY <1>1, <1>2
    <2> HIDE DEF n
    <2>2. /\ Row(d2, a, n) \in Seq(Descriptor) /\ Len(Row(d2, a, n)) = n
          /\ \A k \in 1 .. n : Row(d2, a, n)[k] = d2[Place(a, k - 1)]
      BY <2>1, RowElements
    <2> QED
      BY <2>2 DEF n
  <1>6. \A k \in 1 .. c : Row(d2, a, c + 1)[k] = Row(d, a, c)[k]
    BY <1>1, <1>3, <1>4, <1>5
  <1>7. Row(d2, a, c + 1)[c + 1] = e
    BY <1>1, <1>2, <1>5, c + 1 \in 1 .. c + 1, (c + 1) - 1 = c
  <1>8. Row(d2, a, c + 1) = Append(Row(d, a, c), e)
    BY <1>4, <1>5, <1>6, <1>7, AppendByElements
  <1> QED
    BY <1>8 DEF d2

LEMMA RowShrinks ==
  ASSUME NEW d \in [Buffers -> Descriptor], NEW a \in Buffers,
         NEW c \in 1 .. EthRxBufTotal, NEW d2 \in [Buffers -> Descriptor],
         \A i \in Buffers : i /= a => d2[i] = d[i]
  PROVE  Row(d2, lIncrRxBufIdx(a), c - 1) = Tail(Row(d, a, c))
  <1>1. EthRxBufTotal \in Nat \ {0, 1} /\ c \in 0 .. EthRxBufTotal
        /\ c - 1 \in 0 .. EthRxBufTotal /\ lIncrRxBufIdx(a) \in Buffers
    BY ConstantFacts, Successor
  <1>2. ASSUME NEW k \in 1 .. c - 1
        PROVE  d2[Place(lIncrRxBufIdx(a), k - 1)] = d[Place(a, k)]
    <2>1. k - 1 \in 0 .. EthRxBufTotal - 1 /\ (k - 1) + 1 = k
          /\ k \in 0 .. EthRxBufTotal - 1 /\ k /= 0 /\ 0 \in 0 .. EthRxBufTotal - 1
          /\ k \in 0 .. EthRxBufTotal
      BY <1>1
    <2>2. Place(lIncrRxBufIdx(a), k - 1) = Place(a, k)
      BY <2>1, Places
    <2>3. Place(a, k) /= a /\ Place(a, k) \in Buffers
      BY <2>1, Places, PlaceValue
    <2> QED
      BY <2>2, <2>3
  <1>3. /\ Row(d, a, c) \in Seq(Descriptor) /\ Len(Row(d, a, c)) = c
        /\ \A k \in 1 .. c : Row(d, a, c)[k] = d[Place(a, k - 1)]
    BY <1>1, RowElements
  <1> DEFINE t == Row(d2, lIncrRxBufIdx(a), c - 1)
  <1>4. /\ t \in Seq(Descriptor) /\ Len(t) = c - 1
        /\ \A k \in 1 .. c - 1 : t[k] = d2[Place(lIncrRxBufIdx(a), k - 1)]
    BY <1>1, RowElements
  <1> HIDE DEF t
  <1>5. ASSUME NEW k \in 1 .. Len(t) PROVE t[k] = Row(d, a, c)[k + 1]
    <2>1. k \in 1 .. c - 1 /\ k + 1 \in 1 .. c /\ (k + 1) - 1 = k
      BY <1>1, <1>4
    <2> QED
      BY <1>2, <1>3, <1>4, <2>1
  <1>6. t = Tail(Row(d, a, c))
    BY <1>1, <1>3, <1>4, <1>5, TailByElements
  <1> QED
    BY <1>6 DEF t

-----------------------------------------------------------------------------
(* The driver as a queue. *)

Waiting == IF cntrlInit THEN StoredFrames ELSE <<>>

LEMMA AfterFirstIsTail ==
  ASSUME NEW S, NEW q \in Seq(S), q /= <<>>
  PROVE  AfterFirst(q) = Tail(q)
  BY DEF AfterFirst
Indicated == IF cntrlInit /\ InCallback THEN desc[scan.start].data ELSE NA

LEMMA RowFacts ==
  ASSUME RingInv, cntrlInit
  PROVE  LET c == Cardinality(Received)
         IN  /\ First \in Buffers /\ dmaIdx \in Buffers
             /\ desc \in [Buffers -> Descriptor]
             /\ c \in 0 .. EthRxBufTotal
             /\ Place(First, c) = dmaIdx
             /\ First \in Received <=> c > 0
             /\ dmaIdx \notin Received => c < EthRxBufTotal
             /\ IsFiniteSet(Received)
             /\ ClosedSlots = Row(desc, First, c)
             /\ ClosedSlots \in Seq(Descriptor) /\ Len(ClosedSlots) = c
             /\ InCallback => c > 0 /\ Complete(ClosedSlots[1]) /\ First = scan.start
  <1>1. /\ First \in Buffers /\ dmaIdx \in Buffers
        /\ desc \in [Buffers -> Descriptor]
        /\ Received \in SUBSET Buffers
        /\ InStep(Received, First, dmaIdx)
    BY RingFacts DEF TypeOK
  <1> DEFINE c == Cardinality(Received)
  <1>2. /\ c \in 0 .. EthRxBufTotal /\ Place(First, c) = dmaIdx
        /\ First \in Received <=> c > 0
        /\ dmaIdx \notin Received => c < EthRxBufTotal
    BY <1>1, StretchCount
  <1>3. ClosedSlots = Row(desc, First, c)
    BY DEF ClosedSlots, Row, Place
  <1>4. IsFiniteSet(Received)
    <2>1. IsFiniteSet(Buffers)
      BY FS_Interval, ConstantFacts, 0 \in Int, EthRxBufTotal - 1 \in Int DEF Buffers
    <2> QED
      BY <1>1, <2>1, FS_Subset
  <1>5. InCallback => c > 0 /\ desc[First] = ClosedSlots[1]
                      /\ Complete(desc[First]) /\ First = scan.start
    <2> SUFFICES ASSUME InCallback
                 PROVE  c > 0 /\ desc[First] = ClosedSlots[1]
                        /\ Complete(desc[First]) /\ First = scan.start
      OBVIOUS
    <2>1. First = scan.start /\ First \in Received /\ Complete(desc[First])
      BY DEF RingInv, IndicatedFrame, First
    <2> QED
      BY <1>1, <1>2, <1>3, <2>1, RowElements
  <1> QED
    BY <1>1, <1>2, <1>3, <1>4, <1>5, RowElements

\* The frame of the running indication is the first one of the closed
\* descriptors, the waiting ones follow it.
LEMMA WaitingFrames ==
  ASSUME RingInv, cntrlInit
  PROVE  /\ FramesOf(ClosedSlots) \in Seq(Data)
         /\ ~InCallback => Waiting = FramesOf(ClosedSlots) /\ Indicated = NA
         /\ InCallback =>
              /\ FramesOf(ClosedSlots) = <<Indicated>> \o Waiting
              /\ Waiting \in Seq(Data) /\ Indicated \in Data
              /\ Waiting = FramesOf(Tail(ClosedSlots))
         /\ Len(Waiting) + (IF InCallback THEN 1 ELSE 0) <= Cardinality(Received)
         /\ Len(Waiting) \in Nat
  <1>1. /\ ClosedSlots \in Seq(Descriptor) /\ Len(ClosedSlots) = Cardinality(Received)
        /\ FramesOf(ClosedSlots) \in Seq(Data)
        /\ Len(FramesOf(ClosedSlots)) <= Cardinality(Received)
        /\ Cardinality(Received) \in Nat
    BY RowFacts, FramesFit, ConstantFacts
  <1>2. CASE ~InCallback
    <2>1. Waiting = FramesOf(ClosedSlots) /\ Indicated = NA
      BY <1>2 DEF Waiting, Indicated, StoredFrames
    <2> QED
      BY <1>1, <1>2, <2>1, LenProperties
  <1>3. CASE InCallback
    <2>1. /\ Complete(ClosedSlots[1]) /\ First = scan.start /\ ClosedSlots /= <<>>
          /\ Indicated = ClosedSlots[1].data
      <3>1. /\ Complete(ClosedSlots[1]) /\ First = scan.start
            /\ Cardinality(Received) > 0
        BY <1>3, RowFacts
      <3>2. ClosedSlots /= <<>> /\ ClosedSlots[1] = desc[First]
        BY <3>1, RowFacts, RowElements
      <3> QED
        BY <1>3, <3>1, <3>2 DEF Indicated
    <2>2. /\ FramesOf(ClosedSlots) = <<Indicated>> \o FramesOf(Tail(ClosedSlots))
          /\ FramesOf(Tail(ClosedSlots)) \in Seq(Data) /\ Indicated \in Data
      <3>1. ClosedSlots[1] \in Descriptor
        BY <1>1, <2>1, EmptySeq, ElementOfSeq, 1 \in 1 .. Len(ClosedSlots)
      <3> QED
        BY <1>1, <2>1, <3>1, FramesOfTail, FramesAreRunning DEF Descriptor, Data
    <2> DEFINE rest == FramesOf(Tail(ClosedSlots))
    <2> HIDE DEF rest
    <2>3. Waiting = rest
      <3>1. Waiting = AfterFirst(<<Indicated>> \o rest)
        BY <1>3, <2>2 DEF Waiting, StoredFrames, rest
      <3>2. Tail(<<Indicated>> \o rest) = rest
        BY <2>2, TailOfConcat DEF rest
      <3>3. AfterFirst(<<Indicated>> \o rest) = Tail(<<Indicated>> \o rest)
        BY <1>1, <2>2, TailOfConcat, AfterFirstIsTail DEF rest
      <3> QED
        BY <3>1, <3>2, <3>3
    <2>4. Len(<<Indicated>> \o rest) = 1 + Len(rest) /\ Len(rest) \in Nat
      BY <2>2, TailOfConcat DEF rest
    <2> QED
      BY <1>1, <1>3, <2>2, <2>3, <2>4 DEF rest
  <1> QED
    BY <1>2, <1>3

\* A time stamp descriptor is not a frame.
ContextInv == \A i \in Buffers : desc[i].CTXT => ~Complete(desc[i])

LEMMA ContextInvStep ==
  ASSUME TypeOK, ContextInv, [Next]_vars
  PROVE  ContextInv'
  <1>1. ~Fresh.CTXT /\ ~Complete(ContextDescriptor) /\ desc \in [Buffers -> Descriptor]
        /\ dmaIdx \in Buffers /\ CurrRxDmaDescIdx \in Buffers /\ scan.start \in Buffers
    BY TypeFacts DEF Fresh, ContextDescriptor, Complete, ScanRecord
  <1>2. ASSUME desc' = desc PROVE ContextInv'
    BY <1>2 DEF ContextInv
  <1>3. ASSUME desc' = [i \in Buffers |-> Fresh] PROVE ContextInv'
    BY <1>1, <1>3 DEF ContextInv
  <1>4. CASE EthInit \/ SetControllerMode
    BY <1>2, <1>3, <1>4, RestartSteps DEF EthInit
  <1>5. ASSUME NEW start \in Buffers, NEW count, desc' = Cleared(start, count)
        PROVE  ContextInv'
    BY <1>1, <1>5, ClearedType DEF ContextInv
  <1>6. CASE RxIndicationReturns \/ DropDescriptor
    BY <1>1, <1>5, <1>6 DEF RxIndicationReturns, DropDescriptor
  <1>7. CASE Dma
    <2>1. ASSUME NEW d \in Descriptor, DmaClosesOne(d) PROVE ContextInv'
      <3>1. \A i \in Buffers : desc'[i] = IF i = dmaIdx THEN d ELSE desc[i]
        BY <1>1, <2>1 DEF DmaClosesOne
      <3>2. d.CTXT => ~Complete(d)
        BY <2>1 DEF DmaClosesOne
      <3> QED
        BY <3>1, <3>2 DEF ContextInv
    <2>2. ASSUME NEW d \in Descriptor, DmaClosesTwo(d) PROVE ContextInv'
      <3>1. \A i \in Buffers : desc'[i] \in {d, ContextDescriptor, desc[i]}
        BY <1>1, <2>2 DEF DmaClosesTwo
      <3>2. d.CTXT => ~Complete(d)
        BY <2>2 DEF DmaClosesTwo
      <3> QED
        BY <1>1, <3>1, <3>2 DEF ContextInv
    <2> QED
      BY <1>2, <1>7, <2>1, <2>2, DmaSteps
  <1>8. CASE GetIngressTimeStamp \/ ReceiveWakesDma \/ UNCHANGED vars \/ Receive
             \/ ReceiveReturns \/ RxDmaCh0IrqHdlr \/ IrqWritesTail \/ IrqLoops
             \/ IrqReturns \/ RxIndication
    BY <1>2, <1>8 DEF GetIngressTimeStamp, ReceiveWakesDma, vars, Receive,
       ReceiveReturns, RxDmaCh0IrqHdlr, IrqWritesTail, IrqLoops, IrqReturns, RxIndication
  <1> QED
    BY <1>4, <1>6, <1>7, <1>8 DEF Next, Scan

LEMMA ContextInvariance == Spec => []ContextInv
  <1>1. Init => ContextInv
    BY DEF Init, ContextInv, Fresh
  <1>2. Spec => []TypeOK
    BY TypeCorrect
  <1> QED
    BY <1>1, <1>2, ContextInvStep, PTL DEF Spec

\* The DMA appends to the row of closed descriptors ...
LEMMA SlotsGrow ==
  ASSUME RingInv, cntrlInit, First' = First,
         NEW d \in Descriptor, DmaClosesOne(d) \/ DmaClosesTwo(d)
  PROVE  /\ ClosedSlots' = IF DmaClosesOne(d) THEN Append(ClosedSlots, d)
                           ELSE Append(Append(ClosedSlots, d), ContextDescriptor)
         /\ Cardinality(Received) < EthRxBufTotal
  <1> DEFINE c == Cardinality(Received)
             b == dmaIdx
             e == lIncrRxBufIdx(b)
  <1>1. /\ First \in Buffers /\ b \in Buffers /\ e \in Buffers /\ e /= b
        /\ desc \in [Buffers -> Descriptor]
        /\ Received \in SUBSET Buffers /\ IsFiniteSet(Received)
        /\ InStep(Received, First, b)
        /\ \A i \in Buffers : i \in Received <=> ~desc[i].OWN
        /\ c \in 0 .. EthRxBufTotal /\ Place(First, c) = b
        /\ b \notin Received => c < EthRxBufTotal
        /\ ClosedSlots = Row(desc, First, c)
    BY RowFacts, RingFacts, Successor, SuccessorInjective
  <1>2. b \notin Received /\ ~d.OWN /\ c \in 0 .. EthRxBufTotal - 1
    BY <1>1, ConstantFacts DEF DmaClosesOne, DmaClosesTwo
  <1>3. Cardinality(Received \cup {b}) = c + 1 /\ IsFiniteSet(Received \cup {b})
    BY <1>1, <1>2, FS_AddElement
  <1> DEFINE d1 == [desc EXCEPT ![b] = d]
  <1>4. d1 \in [Buffers -> Descriptor] /\ Row(d1, First, c + 1) = Append(ClosedSlots, d)
    BY <1>1, <1>2, RowGrows
  <1>5. ClosedSlots' = Row(desc', First, Cardinality(Received'))
    BY DEF ClosedSlots, Row, Place
  <1>8. c < EthRxBufTotal
    BY <1>2, ConstantFacts
  <1>6. CASE DmaClosesOne(d)
    <2>1. desc' = d1
      BY <1>6 DEF DmaClosesOne
    <2>2. Received' = Received \cup {b}
      BY <1>1, <1>2, <2>1 DEF Received
    <2>3. ClosedSlots' = Append(ClosedSlots, d)
      BY <1>3, <1>4, <1>5, <2>1, <2>2, Zenon
    <2> QED
      BY <1>6, <1>8, <2>3, Zenon
  <1>7. CASE DmaClosesTwo(d) /\ ~DmaClosesOne(d)
    <2> DEFINE d2 == [d1 EXCEPT ![e] = ContextDescriptor]
    <2>1. desc' = d2 /\ e \notin Received /\ e \notin Received \cup {b}
      BY <1>1, <1>7 DEF DmaClosesTwo
    <2>2. Received' = (Received \cup {b}) \cup {e}
      <3>1. ~ContextDescriptor.OWN
        BY DEF ContextDescriptor, Fresh
      <3>2. \A i \in Buffers : desc'[i] = IF i = e THEN ContextDescriptor
                                          ELSE IF i = b THEN d ELSE desc[i]
        <4> HIDE DEF e
        <4> QED
          BY <1>1, <2>1
      <3> HIDE DEF e, d2, d1
      <3> QED
        BY <1>1, <1>2, <3>1, <3>2 DEF Received
    <2>3. Cardinality(Received') = (c + 1) + 1
      BY <1>3, <2>1, <2>2, FS_AddElement
    <2>4. InStep(Received \cup {b}, First, e)
      BY <1>1, <1>2, StretchGrows
    <2>5. c + 1 \in 0 .. EthRxBufTotal - 1 /\ Place(First, c + 1) = e
      <3>1. Received \cup {b} \in SUBSET Buffers
        BY <1>1
      <3> HIDE DEF e, c, b
      <3>2. /\ Cardinality(Received \cup {b}) \in 0 .. EthRxBufTotal
            /\ Place(First, Cardinality(Received \cup {b})) = e
            /\ Cardinality(Received \cup {b}) < EthRxBufTotal
        BY <1>1, <2>1, <2>4, <3>1, StretchCount
      <3> QED
        BY <1>2, <1>3, <3>2, ConstantFacts
    <2>6. Row(d2, First, (c + 1) + 1) = Append(Append(ClosedSlots, d), ContextDescriptor)
      <3> HIDE DEF d1, e, c
      <3>1. ContextDescriptor \in Descriptor
        BY DescriptorTypes
      <3>2. Row([d1 EXCEPT ![Place(First, c + 1)] = ContextDescriptor], First, (c + 1) + 1)
              = Append(Row(d1, First, c + 1), ContextDescriptor)
        BY <1>1, <1>4, <2>5, <3>1, RowGrows
      <3> QED
        BY <1>4, <2>5, <3>2
    <2>7. ClosedSlots' = Append(Append(ClosedSlots, d), ContextDescriptor)
      BY <1>5, <2>1, <2>3, <2>6, Zenon
    <2> QED
      BY <1>7, <1>8, <2>7, Zenon
  <1> QED
    BY <1>6, <1>7

\* ... and the driver takes descriptors from its beginning.
LEMMA SlotsShrink ==
  ASSUME RingInv, cntrlInit, cntrlInit' = cntrlInit,
         First \in Received, NEW count \in {1, 2},
         count = 2 => desc[First].TSA,
         desc' = Cleared(First, count),
         First' = IF count = 2 THEN lIncrRxBufIdx(lIncrRxBufIdx(First))
                  ELSE lIncrRxBufIdx(First)
  PROVE  /\ ClosedSlots /= <<>> /\ ClosedSlots[1] = desc[First]
         /\ count = 1 => ClosedSlots' = Tail(ClosedSlots)
         /\ count = 2 => /\ Tail(ClosedSlots) /= <<>>
                         /\ Tail(ClosedSlots)[1] = desc[lIncrRxBufIdx(First)]
                         /\ desc[lIncrRxBufIdx(First)].CTXT
                         /\ ClosedSlots' = Tail(Tail(ClosedSlots))
  <1> DEFINE c == Cardinality(Received)
             a == First
             e == lIncrRxBufIdx(a)
             d1 == [desc EXCEPT ![a] = Fresh]
  <1>1. /\ a \in Buffers /\ e \in Buffers /\ e /= a
        /\ desc \in [Buffers -> Descriptor]
        /\ Received \in SUBSET Buffers /\ IsFiniteSet(Received)
        /\ \A i \in Buffers : i \in Received <=> ~desc[i].OWN
        /\ c \in 1 .. EthRxBufTotal
        /\ ClosedSlots = Row(desc, a, c)
        /\ EthRxBufTotal \in Nat
    BY RowFacts, RingFacts, Successor, SuccessorInjective, ConstantFacts
  <1>2. ClosedSlots /= <<>> /\ ClosedSlots[1] = desc[a]
    <2>1. c \in 0 .. EthRxBufTotal /\ c > 0
      BY <1>1
    <2> HIDE DEF c
    <2> QED
      BY <1>1, <2>1, RowElements
  <1>3. Fresh \in Descriptor /\ Fresh.OWN
    BY DescriptorTypes DEF Fresh
  <1>4. d1 \in [Buffers -> Descriptor] /\ \A i \in Buffers : i /= a => d1[i] = desc[i]
    BY <1>1, <1>3
  <1>5. ClosedSlots' = Row(desc', First', Cardinality(Received'))
    BY DEF ClosedSlots, Row, Place
  <1>6. Cardinality(Received \ {a}) = c - 1 /\ IsFiniteSet(Received \ {a})
    BY <1>1, FS_RemoveElement
  <1>7. \A i \in Buffers : desc'[i] = IF i = a \/ (count = 2 /\ i = e) THEN Fresh ELSE desc[i]
    BY <1>1, RingFacts, ClearedType
  <1>8. desc' \in [Buffers -> Descriptor]
    BY <1>1, RingFacts, ClearedType
  <1>9. Row(d1, e, c - 1) = Tail(ClosedSlots)
    <2> HIDE DEF d1, e, c
    <2> QED
      BY <1>1, <1>4, RowShrinks DEF e
  <1>10. CASE count = 1
    <2>1. \A i \in Buffers : i /= a => desc'[i] = desc[i]
      BY <1>7, <1>10
    <2>2. Received' = Received \ {a}
      BY <1>1, <1>3, <1>7, <1>10 DEF Received
    <2>3. Row(desc', e, c - 1) = Tail(ClosedSlots)
      <3> HIDE DEF d1, c
      <3> QED
        BY <1>1, <1>8, <2>1, RowShrinks
    <2>4. ClosedSlots' = Tail(ClosedSlots)
      <3>1. First' = e
        BY <1>10
      <3> QED
        BY <1>5, <1>6, <2>2, <2>3, <3>1, Zenon
    <2> QED
      BY <1>2, <1>10, <2>4
  <1>11. CASE count = 2
    <2>1. e \in Received /\ desc[e].CTXT
      BY <1>11, RingFacts
    <2>2. /\ Received' = (Received \ {a}) \ {e}
          /\ \A i \in Buffers : i /= e => desc'[i] = d1[i]
      <3>1. \A i \in Buffers : d1[i] = IF i = a THEN Fresh ELSE desc[i]
        BY <1>1
      <3> HIDE DEF d1, e, c
      <3> QED
        BY <1>1, <1>3, <1>7, <1>11, <3>1 DEF Received
    <2>3. Cardinality(Received') = (c - 1) - 1 /\ c - 1 \in 1 .. EthRxBufTotal
      <3>1. e \in Received \ {a}
        BY <1>1, <2>1
      <3>2. Cardinality(Received') = (c - 1) - 1
        BY <1>6, <2>2, <3>1, FS_RemoveElement
      <3>3. c - 1 /= 0
        BY <1>6, <3>1, FS_EmptySet
      <3> QED
        BY <1>1, <3>2, <3>3
    <2>4. /\ Tail(ClosedSlots) /= <<>> /\ Tail(ClosedSlots)[1] = desc[e]
          /\ Row(desc', lIncrRxBufIdx(e), (c - 1) - 1) = Tail(Tail(ClosedSlots))
      <3>1. d1[e] = desc[e]
        BY <1>1, <1>4
      <3>2. c - 1 \in 0 .. EthRxBufTotal /\ c - 1 > 0
        BY <1>1, <2>3
      <3> HIDE DEF d1, e, c
      <3>3. Row(d1, e, c - 1) /= <<>> /\ Row(d1, e, c - 1)[1] = d1[e]
        BY <1>1, <1>4, <3>2, RowElements
      <3>4. Row(desc', lIncrRxBufIdx(e), (c - 1) - 1) = Tail(Row(d1, e, c - 1))
        BY <1>1, <1>4, <1>8, <2>2, <2>3, RowShrinks
      <3> QED
        BY <1>9, <3>1, <3>3, <3>4
    <2>5. ClosedSlots' = Tail(Tail(ClosedSlots))
      <3>1. First' = lIncrRxBufIdx(e)
        BY <1>11
      <3> QED
        BY <1>5, <2>3, <2>4, <3>1, Zenon
    <2> QED
      BY <1>2, <1>11, <2>1, <2>4, <2>5
  <1> QED
    BY <1>10, <1>11

LEMMA DmaIsArrive ==
  ASSUME RingInv, cntrlInit, cntrlInit', First' = First, scan' = scan,
         NEW d \in Descriptor, DmaClosesOne(d) \/ DmaClosesTwo(d)
  PROVE  \/ Queue!Arrive
         \/ Waiting' = Waiting /\ Indicated' = Indicated
  <1> DEFINE F == FramesOf(ClosedSlots)
             x == d.data
  <1>1. /\ ClosedSlots \in Seq(Descriptor) /\ F \in Seq(Data) /\ x \in Data
        /\ Append(ClosedSlots, d) \in Seq(Descriptor)
    BY RowFacts, WaitingFrames, AppendProperties DEF Descriptor, Data
  <1>2. FramesOf(ClosedSlots') = IF Complete(d) THEN Append(F, x) ELSE F
    <2>1. FramesOf(Append(ClosedSlots, d)) = IF Complete(d) THEN Append(F, x) ELSE F
      BY <1>1, FramesOfAppend
    <2>2. FramesOf(Append(Append(ClosedSlots, d), ContextDescriptor))
            = FramesOf(Append(ClosedSlots, d))
      <3>1. ~Complete(ContextDescriptor) /\ ContextDescriptor \in Descriptor
        BY DescriptorTypes DEF ContextDescriptor, Fresh, Complete
      <3> QED
        BY <1>1, <3>1, FramesOfAppend
    <2>3. \/ ClosedSlots' = Append(ClosedSlots, d)
          \/ ClosedSlots' = Append(Append(ClosedSlots, d), ContextDescriptor)
      BY SlotsGrow
    <2> HIDE DEF F, x
    <2> QED
      BY <2>1, <2>2, <2>3
  <1>3. Complete(d) => x \in Frames
    BY DEF DmaClosesOne, DmaClosesTwo
  <1>4. InCallback' = InCallback
    BY DEF InCallback
  <1>5. Indicated' = Indicated
    <2>1. ASSUME InCallback PROVE desc'[scan.start] = desc[scan.start]
      <3>1. scan.start \in Received
        BY <2>1 DEF RingInv, IndicatedFrame
      <3> QED
        BY <3>1, DmaExtends
    <2> QED
      BY <1>4, <2>1 DEF Indicated
  <1>6. Waiting' = IF Complete(d) THEN Append(Waiting, x) ELSE Waiting
    <2>1. CASE ~InCallback
      <3>1. Waiting = F /\ Waiting' = FramesOf(ClosedSlots')
        BY <1>4, <2>1 DEF Waiting, StoredFrames
      <3> HIDE DEF F, x
      <3> QED
        BY <1>2, <3>1
    <2>2. CASE InCallback
      <3>1. Waiting = AfterFirst(F) /\ Waiting' = AfterFirst(FramesOf(ClosedSlots'))
        BY <1>4, <2>2 DEF Waiting, StoredFrames
      <3>2. F /= <<>>
        BY <2>2, WaitingFrames, TailOfConcat
      <3>3. AfterFirst(Append(F, x)) = Append(AfterFirst(F), x)
        <4> HIDE DEF F, x
        <4>1. Append(F, x) \in Seq(Data) /\ Append(F, x) /= <<>>
          BY <1>1
        <4>2. AfterFirst(Append(F, x)) = Tail(Append(F, x)) /\ AfterFirst(F) = Tail(F)
          BY <1>1, <3>2, <4>1, AfterFirstIsTail
        <4>3. Tail(Append(F, x)) = Append(Tail(F), x)
          BY <1>1, <3>2, TailOfAppend
        <4> QED
          BY <4>2, <4>3
      <3> HIDE DEF F, x
      <3> QED
        BY <1>2, <3>1, <3>3
    <2> QED
      BY <2>1, <2>2
  <1>7. Len(Waiting) + (IF Indicated = NA THEN 0 ELSE 1) < EthRxBufTotal
    <2>1. /\ Len(Waiting) + (IF InCallback THEN 1 ELSE 0) <= Cardinality(Received)
          /\ Len(Waiting) \in Nat /\ ~InCallback => Indicated = NA
      BY WaitingFrames
    <2>2. Cardinality(Received) < EthRxBufTotal /\ Cardinality(Received) \in Nat
      BY SlotsGrow, RowFacts, ConstantFacts
    <2> QED
      BY <2>1, <2>2, ConstantFacts
  <1> HIDE DEF x
  <1>8. CASE Complete(d)
    <2>1. Waiting' = Append(Waiting, x) /\ x \in Frames
      BY <1>3, <1>6, <1>8
    <2> QED
      BY <1>5, <1>7, <2>1 DEF Queue!Arrive, Queue!InUse, Waiting, Indicated
  <1> QED
    BY <1>5, <1>6, <1>8

LEMMA IndicationIsIndicate ==
  ASSUME RingInv, RxIndication
  PROVE  Queue!Indicate
  <1>1. /\ ~InCallback /\ InCallback' /\ cntrlInit /\ cntrlInit'
        /\ First = CurrRxDmaDescIdx /\ First' = First
        /\ scan'.start = First
        /\ desc' = desc /\ Received' = Received
        /\ First \in Received /\ Complete(desc[First])
    <2>1. scan \in ScanRecord /\ CurrRxDmaDescIdx \in Buffers
      BY TypeFacts DEF RingInv, TypeInv
    <2> QED
      BY <2>1 DEF RxIndication, ScanGoesOn, InCallback, First, ScanRecord, RingInv,
         ScanReady, MainRuns, status, Received
  <1>2. ClosedSlots' = ClosedSlots
    BY <1>1 DEF ClosedSlots
  <1>3. /\ ClosedSlots \in Seq(Descriptor) /\ ClosedSlots /= <<>>
        /\ ClosedSlots[1] = desc[First] /\ desc[First].data \in Data
    BY <1>1, RowFacts, RowElements DEF Descriptor, Data
  <1> DEFINE rest == FramesOf(Tail(ClosedSlots))
  <1>4. /\ FramesOf(ClosedSlots) = <<desc[First].data>> \o rest
        /\ rest \in Seq(Data)
    BY <1>1, <1>3, FramesOfTail, FramesAreRunning
  <1>5. /\ Waiting = FramesOf(ClosedSlots) /\ Indicated = NA
        /\ Waiting' = AfterFirst(FramesOf(ClosedSlots))
        /\ Indicated' = desc[First].data
    BY <1>1, <1>2 DEF Waiting, Indicated, StoredFrames
  <1> HIDE DEF rest
  <1>6. Head(Waiting) = desc[First].data /\ Waiting /= <<>>
    BY <1>3, <1>4, <1>5, TailOfConcat
  <1>7. Waiting' = Tail(Waiting)
    BY <1>3, <1>4, <1>5, <1>6, FramesAreRunning, AfterFirstIsTail
  <1> QED
    BY <1>5, <1>6, <1>7 DEF Queue!Indicate, Waiting, Indicated

\* What the driver gives back is the frame it indicated, or none.
LEMMA ReleaseIsReturn ==
  ASSUME RingInv, ContextInv, RxIndicationReturns \/ DropDescriptor
  PROVE  \/ Queue!Return
         \/ Waiting' = Waiting /\ Indicated' = Indicated
  <1> DEFINE count == IF InCallback THEN scan.BufferClearCount ELSE 1
  <1>1. scan \in ScanRecord /\ CurrRxDmaDescIdx \in Buffers
    BY TypeFacts DEF RingInv, TypeInv
  <1>2. /\ cntrlInit /\ cntrlInit' = cntrlInit
        /\ ~InCallback' /\ First' = lIncrRxBufIdx(CurrRxDmaDescIdx)
        /\ RxIndicationReturns <=> InCallback
    BY <1>1 DEF RxIndicationReturns, DropDescriptor, ScanGoesOn, InCallback,
       ScanRecord, RingInv, ScanReady, MainRuns, First, status
  <1>3. /\ First \in Received /\ count \in {1, 2}
        /\ count = 2 => desc[First].TSA /\ InCallback
        /\ desc' = Cleared(First, count)
        /\ CurrRxDmaDescIdx = IF count = 2 THEN lIncrRxBufIdx(First) ELSE First
        /\ ~InCallback => ~Complete(desc[First])
    <2>1. CASE RxIndicationReturns
      BY <1>2, <2>1 DEF RxIndicationReturns, RingInv, IndicatedFrame, First
    <2>2. CASE DropDescriptor
      BY <1>1, <2>2 DEF DropDescriptor, ScanGoesOn, InCallback, First, Received
    <2> QED
      BY <2>1, <2>2
  <1> HIDE DEF count
  <1>4. First' = IF count = 2 THEN lIncrRxBufIdx(lIncrRxBufIdx(First))
                 ELSE lIncrRxBufIdx(First)
    BY <1>2, <1>3
  <1>5. /\ ClosedSlots /= <<>> /\ ClosedSlots[1] = desc[First]
        /\ count = 1 => ClosedSlots' = Tail(ClosedSlots)
        /\ count = 2 => /\ Tail(ClosedSlots) /= <<>>
                        /\ Tail(ClosedSlots)[1] = desc[lIncrRxBufIdx(First)]
                        /\ desc[lIncrRxBufIdx(First)].CTXT
                        /\ ClosedSlots' = Tail(Tail(ClosedSlots))
    BY <1>2, <1>3, <1>4, SlotsShrink
  <1>6. ClosedSlots \in Seq(Descriptor) /\ Tail(ClosedSlots) \in Seq(Descriptor)
    BY <1>2, <1>5, RowFacts, FramesOfTail
  <1>7. FramesOf(ClosedSlots') = FramesOf(Tail(ClosedSlots))
    <2>1. CASE count = 1
      BY <1>5, <2>1
    <2>2. CASE count = 2
      <3>1. lIncrRxBufIdx(First) \in Buffers
        BY <1>2, RowFacts, Successor
      <3>2. ~Complete(Tail(ClosedSlots)[1])
        BY <1>5, <2>2, <3>1 DEF ContextInv
      <3> QED
        BY <1>5, <1>6, <2>2, <3>2, FramesOfTail
    <2> QED
      BY <1>3, <2>1, <2>2
  <1>8. Waiting' = FramesOf(ClosedSlots') /\ Indicated' = NA
    BY <1>2 DEF Waiting, Indicated, StoredFrames
  <1>9. Waiting' = Waiting
    <2>1. CASE InCallback
      <3>1. Waiting = FramesOf(Tail(ClosedSlots))
        BY <1>2, <2>1, WaitingFrames
      <3> QED
        BY <1>7, <1>8, <3>1
    <2>2. CASE ~InCallback
      <3>1. Waiting = FramesOf(ClosedSlots)
        BY <1>2, <2>2, WaitingFrames
      <3>2. FramesOf(ClosedSlots) = FramesOf(Tail(ClosedSlots))
        BY <1>3, <1>5, <1>6, <2>2, FramesOfTail
      <3> QED
        BY <1>7, <1>8, <3>1, <3>2
    <2> QED
      BY <2>1, <2>2
  <1> QED
    BY <1>8, <1>9 DEF Queue!Return, Waiting, Indicated

LEMMA RestartIsRestart ==
  ASSUME RingInv, EthInit \/ SetControllerMode
  PROVE  Queue!Restart
  <1>1. ~InCallback'
    BY DEF EthInit, SetControllerMode, MainRuns, InCallback
  <1>2. CASE ~cntrlInit'
    BY <1>2 DEF Queue!Restart
  <1>3. CASE cntrlInit'
    <2>1. desc' = [i \in Buffers |-> Fresh]
      BY <1>3, RestartSteps DEF RingInv, TypeInv, EthInit
    <2>2. Received' = {}
      BY <2>1 DEF Received, Fresh
    <2>3. Cardinality(Received') = 0
      BY <2>2, FS_EmptySet
    <2>4. ClosedSlots' = Row(desc', First', 0)
      BY <2>3 DEF ClosedSlots, Row, Place
    <2>5. ClosedSlots' = <<>>
      <3>1. Row(desc', First', 0) = <<>>
        BY DEF Row
      <3> QED
        BY <2>4, <3>1
    <2>6. FramesOf(<<>>) = <<>>
      BY FramesAreRunning, EmptySeq, <<>> \in Seq(Descriptor) DEF RunningFrames
    <2>7. StoredFrames' = <<>>
      BY <1>1, <2>5, <2>6 DEF StoredFrames
    <2> QED
      BY <1>1, <2>7 DEF Queue!Restart
  <1> QED
    BY <1>2, <1>3

-----------------------------------------------------------------------------
\* For every ring size, polled or driven by the interrupt, with and without time
\* stamps, the receive half indicates every frame the DMA stored once, in the
\* order of arrival, and leaves it alone until its callback returns.
THEOREM RxQueueCorrect == Spec => ImplementsRxQueue
  <1>1. Init => Queue!Init
    <2>1. Init => ~cntrlInit
      BY DEF Init
    <2> QED
      BY <2>1 DEF Queue!Init
  <1>2. RingInv /\ RingInv' /\ ContextInv /\ [Next]_vars
          => Queue!Next \/ (Waiting' = Waiting /\ Indicated' = Indicated)
    <2> SUFFICES ASSUME RingInv, RingInv', ContextInv, [Next]_vars
                 PROVE  Queue!Next \/ (Waiting' = Waiting /\ Indicated' = Indicated)
      OBVIOUS
    <2>1. CASE EthInit \/ SetControllerMode
      BY <2>1, RestartIsRestart DEF Queue!Next
    <2>2. CASE GetIngressTimeStamp \/ ReceiveWakesDma \/ UNCHANGED vars
      <3>1. UNCHANGED <<desc, CurrRxDmaDescIdx, cntrlInit, scan>>
        BY <2>2 DEF GetIngressTimeStamp, ReceiveWakesDma, vars, driver, status
      <3> QED
        BY <3>1 DEF Waiting, Indicated, StoredFrames, ClosedSlots, Received, First,
           InCallback
    <2>3. CASE ScanControl
      <3>1. /\ desc' = desc /\ cntrlInit' = cntrlInit /\ ~InCallback /\ ~InCallback'
            /\ First' = First /\ Received' = Received
        BY <2>3, ScanControlSteps DEF status
      <3> QED
        BY <3>1 DEF Waiting, Indicated, StoredFrames, ClosedSlots
    <2>4. CASE RxIndication
      BY <2>4, IndicationIsIndicate DEF Queue!Next
    <2>5. CASE RxIndicationReturns \/ DropDescriptor
      BY <2>5, ReleaseIsReturn DEF Queue!Next
    <2>6. CASE Dma
      <3>1. /\ UNCHANGED <<driver, status, scan>>
            /\ \/ \E d \in Descriptor : DmaClosesOne(d) \/ DmaClosesTwo(d)
               \/ desc' = desc
        BY <2>6, DmaSteps DEF RingInv, TypeInv
      <3>2. First' = First /\ cntrlInit' = cntrlInit /\ scan' = scan
            /\ InCallback' = InCallback
        BY <3>1 DEF First, InCallback, driver, status
      <3>3. CASE desc' = desc
        BY <3>2, <3>3 DEF Waiting, Indicated, StoredFrames, ClosedSlots, Received
      <3>4. CASE ~cntrlInit
        BY <3>2, <3>4 DEF Waiting, Indicated
      <3>5. ASSUME NEW d \in Descriptor, DmaClosesOne(d) \/ DmaClosesTwo(d), cntrlInit
            PROVE  Queue!Next \/ (Waiting' = Waiting /\ Indicated' = Indicated)
        BY <3>2, <3>5, DmaIsArrive DEF Queue!Next
      <3> QED
        BY <3>1, <3>3, <3>4, <3>5
    <2> QED
      BY <2>1, <2>2, <2>3, <2>4, <2>5, <2>6 DEF Next, Scan, ScanControl
  <1>3. RingInv /\ RingInv' /\ ContextInv /\ [Next]_vars
          => [Queue!Next]_<<IF cntrlInit THEN StoredFrames ELSE <<>>,
                            IF cntrlInit /\ InCallback THEN desc[scan.start].data ELSE NA>>
    BY <1>2 DEF Waiting, Indicated
  <1> QED
    BY <1>1, <1>3, RingInvariance, ContextInvariance, PTL
    DEF Spec, ImplementsRxQueue, Queue!Spec

-----------------------------------------------------------------------------
(* The network interface over the driver, composed of the driver's ring    *)
(* invariant and of what the interface adds to it.                         *)

\* Every step of the interface is a step of the driver, or of the DMA, or
\* leaves both alone.
LEMMA NetifStepIsDriverStep == [NetifRxNext]_netifVars => [Next]_vars
  <1>1. ASSUME NEW frame \in Frames, FrameArrives(frame) PROVE Dma
    BY <1>1 DEF FrameArrives, Dma
  <1>2. CASE Alloc \/ InputConsumes \/ InputFails \/ InputKeeps \/ DoneWithKept
             \/ Trapped \/ UNCHANGED netifVars
    BY <1>2 DEF Alloc, InputConsumes, InputFails, InputKeeps, DoneWithKept, Trapped,
       netifVars
  <1>3. CASE IndicationReturns
    BY <1>3 DEF IndicationReturns, Next, Scan
  <1>4. CASE Driver
    BY <1>4 DEF Driver, Next, Scan, Dma
  <1> QED
    BY <1>1, <1>2, <1>3, <1>4 DEF NetifRxNext, Next

\* netif_Indication is the callback of the driver.
InputInCallback == pc /= "none" => InCallback

\* In every descriptor the driver has still to give back, the buffer holds the
\* frame the descriptor was closed for.
BuffersHoldFrames == \A i \in Received : memory[i] = desc[i].data

InputInv ==
  /\ RingInv
  /\ InputInCallback
  /\ DOMAIN memory = Buffers
  /\ BuffersHoldFrames

LEMMA InputInvInit == NetifRxInit => InputInv
  <1> SUFFICES ASSUME NetifRxInit PROVE InputInv
    OBVIOUS
  <1>1. /\ desc = [i \in Buffers |-> Fresh]
        /\ CurrRxDmaDescIdx = 0 /\ RxDmaDesIdxForIngTimStamp = NA /\ dmaIdx = 0
        /\ scan = IdleScan /\ scan.at = "idle" /\ ~InCallback
    BY TypeFacts DEF NetifRxInit, InCallback
  <1>2. TypeOK
    BY <1>1, ConstantFacts, DescriptorTypes, TypeFacts DEF NetifRxInit, TypeOK, ScanRecord
  <1>3. Received = {} /\ First = 0
    BY <1>1 DEF Received, Fresh, First
  <1>4. RingInv
    BY <1>1, <1>2, <1>3 DEF RingInv, TypeInv, CountLeft, ScanReady, MainRuns, RxInStep,
       IndicatedFrame, StampFollowed, TimestampBelongsToFrame
  <1> QED
    BY <1>3, <1>4 DEF NetifRxInit, InputInv, InputInCallback, BuffersHoldFrames

LEMMA InputInvStep ==
  ASSUME InputInv, [NetifRxNext]_netifVars
  PROVE  InputInv'
  <1>1. RingInv'
    <2>1. TypeInv'
      BY NetifStepIsDriverStep, TypeStep DEF InputInv, RingInv
    <2> QED
      BY <2>1, NetifStepIsDriverStep, RingStep DEF InputInv
  <1>2. /\ TypeOK /\ desc \in [Buffers -> Descriptor] /\ dmaIdx \in Buffers
        /\ scan \in ScanRecord
        /\ DOMAIN memory = Buffers
    BY TypeFacts DEF InputInv, RingInv, TypeInv
  <1>3. ASSUME UNCHANGED <<desc, memory>>, InputInCallback' PROVE InputInv'
    BY <1>1, <1>3 DEF InputInv, BuffersHoldFrames, Received
  <1>4. ASSUME NEW frame \in Frames, FrameArrives(frame) PROVE InputInv'
    <2> DEFINE d == Closed(TRUE, TRUE, frame, FALSE)
    <2>1. d \in Descriptor /\ d.data = frame
      BY DescriptorTypes DEF Closed
    <2>2. /\ DmaCloses(<<d>>, "none")
          /\ memory' = [memory EXCEPT ![dmaIdx] = frame]
          /\ UNCHANGED <<netif, scan>>
      BY <1>4 DEF FrameArrives, DmaReceives, DmaCompletes, DmaCloses
    <2>3. desc' = [desc EXCEPT ![dmaIdx] = d]
      BY <1>2, <2>1, <2>2, ClosesOne
    <2>4. ASSUME NEW i \in Buffers, ~desc'[i].OWN PROVE memory'[i] = desc'[i].data
      <3>1. CASE i = dmaIdx
        BY <1>2, <2>1, <2>2, <2>3, <3>1
      <3>2. CASE i /= dmaIdx
        BY <1>2, <2>2, <2>3, <2>4, <3>2 DEF InputInv, BuffersHoldFrames, Received
      <3> QED
        BY <3>1, <3>2
    <2>5. DOMAIN memory' = Buffers
      BY <1>2, <2>2
    <2>6. InputInCallback'
      BY <2>2 DEF InputInv, InputInCallback, InCallback, netif
    <2> QED
      BY <1>1, <2>4, <2>5, <2>6 DEF InputInv, BuffersHoldFrames, Received
  <1>5. CASE Alloc \/ InputConsumes \/ InputFails \/ InputKeeps \/ DoneWithKept
             \/ Trapped \/ UNCHANGED netifVars
    <2>1. UNCHANGED <<desc, scan, memory>>
      BY <1>5 DEF Alloc, InputConsumes, InputFails, InputKeeps, DoneWithKept, Trapped,
         netifVars, vars
    <2>2. pc' /= "none" => pc /= "none" \/ InCallback
      BY <1>5 DEF Alloc, InputConsumes, InputFails, InputKeeps, DoneWithKept, Trapped,
         netifVars, netif
    <2> QED
      BY <1>3, <2>1, <2>2 DEF InputInv, InputInCallback, InCallback
  <1>6. CASE IndicationReturns
    <2>1. /\ pc' = "none" /\ memory' = memory
          /\ desc' = Cleared(scan.start, scan.BufferClearCount)
      BY <1>6 DEF IndicationReturns, RxIndicationReturns
    <2>2. scan.start \in Buffers
      BY <1>2 DEF ScanRecord
    <2>3. \A i \in Buffers : desc'[i] = desc[i] \/ desc'[i] = Fresh
      BY <1>2, <2>1, <2>2, ClearedType
    <2>4. \A i \in Received' : i \in Received /\ desc'[i] = desc[i]
      BY <2>3 DEF Received, Fresh
    <2> QED
      BY <1>1, <1>2, <2>1, <2>4 DEF InputInv, InputInCallback, BuffersHoldFrames
  <1>7. CASE Driver
    <2>1. UNCHANGED <<desc, pc, memory>>
      BY <1>7 DEF Driver, Receive, ReceiveReturns, RxIndication, DmaSuspends, netif
    <2>2. InCallback => scan' = scan
      BY <1>7 DEF Driver, Receive, ReceiveReturns, ScanEnds, RxIndication, ScanGoesOn,
         DmaSuspends, InCallback, MainRuns
    <2> QED
      BY <1>3, <2>1, <2>2 DEF InputInv, InputInCallback, InCallback
  <1> QED
    BY <1>4, <1>5, <1>6, <1>7 DEF NetifRxNext

\* For every ring size, pool and set of frames: as long as the input runs, the
\* pbuf reads the frame the driver indicated, although nothing was copied.
THEOREM InputCorrect == NetifRxSpec => []InputReadsTheFrame
  <1>1. InputInv => InputReadsTheFrame
    BY DEF InputInv, InputInCallback, BuffersHoldFrames, RingInv, IndicatedFrame,
       InputReadsTheFrame, Frame
  <1> QED
    BY <1>1, InputInvInit, InputInvStep, PTL DEF NetifRxSpec

\* What the driver promises, it promises inside lwIP's port: index and DMA stay
\* in step while callbacks, pools and kept pbufs come and go.
THEOREM RingCorrect == NetifRxSpec => []RxInStep
  <1>1. InputInv => RxInStep
    BY DEF InputInv, RingInv
  <1> QED
    BY <1>1, InputInvInit, InputInvStep, PTL DEF NetifRxSpec

-----------------------------------------------------------------------------
(* The pool. *)

KeptPbuf == [buffer : Buffers, frame : Frames \cup {NA}, pbufs : Nat]

Counts(q) == [k \in DOMAIN q |-> q[k].pbufs]
Pbufs(q)  == FoldLeft(LAMBDA sum, pbuf : sum + pbuf.pbufs, 0, q)

LEMMA CountsOfQueue ==
  ASSUME NEW q \in Seq(KeptPbuf)
  PROVE  /\ Counts(q) \in Seq(Nat) /\ Len(Counts(q)) = Len(q) /\ DOMAIN q = 1 .. Len(q)
         /\ \A k \in 1 .. Len(q) : Counts(q)[k] = q[k].pbufs /\ q[k].pbufs \in Nat
  <1>1. \A k \in 1 .. Len(q) : q[k] \in KeptPbuf /\ q[k].pbufs \in Nat
    <2>1. \A k \in 1 .. Len(q) : q[k] \in KeptPbuf
      OBVIOUS
    <2>2. \A r \in KeptPbuf : r.pbufs \in Nat
      BY DEF KeptPbuf
    <2> QED
      BY <2>1, <2>2
  <1>2. DOMAIN q = 1 .. Len(q) /\ Len(q) \in Nat
    OBVIOUS
  <1>3. Counts(q) \in [1 .. Len(q) -> Nat]
    BY <1>1, <1>2 DEF Counts
  <1>4. Counts(q) \in Seq(Nat) /\ Len(Counts(q)) = Len(q)
    BY <1>2, <1>3
  <1> QED
    BY <1>1, <1>2, <1>4 DEF Counts

\* The sum NoPbufLost takes is the sum of the counts.
LEMMA PbufsIsTotal ==
  ASSUME NEW q \in Seq(KeptPbuf)
  PROVE  Counts(q) \in Seq(Nat) /\ Pbufs(q) = Total(Counts(q)) /\ Pbufs(q) \in Nat
  <1> DEFINE n == Len(q)
             w == Counts(q)
             g == CHOOSE f : f = [s \in SUBSET DOMAIN q |->
                                    IF s = {} THEN 0 ELSE f[s \ {Max(s)}] + q[Max(s)].pbufs]
  <1>1. /\ n \in Nat /\ DOMAIN q = 1 .. n /\ w \in Seq(Nat) /\ Len(w) = n
        /\ w \in [1 .. n -> Nat] /\ \A k \in 1 .. n : w[k] = q[k].pbufs
    <2>1. n \in Nat
      OBVIOUS
    <2>2. w \in [1 .. n -> Nat]
      BY CountsOfQueue
    <2> QED
      BY <2>1, <2>2, CountsOfQueue
  <1>2. Pbufs(q) = g[DOMAIN q]
    BY Zenon DEF Pbufs, FoldLeft, MapThenFoldSet
  <1> HIDE DEF n, w
  <1>3. ASSUME NEW f
        PROVE  SumIter(f, n, w)
                 <=> f = [s \in SUBSET (1 .. n) |->
                            IF s = {} THEN 0 ELSE f[s \ {Max(s)}] + q[Max(s)].pbufs]
    <2>1. ASSUME NEW s \in SUBSET (1 .. n), s /= {} PROVE w[Max(s)] = q[Max(s)].pbufs
      <3>1. Max(s) \in s
        <4>1. s \in SUBSET (1 .. n + 1)
          BY <1>1
        <4> QED
          BY <1>1, <2>1, <4>1, LastIsMax
      <3> QED
        BY <1>1, <3>1
    <2>2. [s \in SUBSET (1 .. n) |->
             IF s = {} THEN 0 ELSE f[s \ {Max(s)}] + w[Max(s)]]
          = [s \in SUBSET (1 .. n) |->
               IF s = {} THEN 0 ELSE f[s \ {Max(s)}] + q[Max(s)].pbufs]
      BY <2>1
    <2> QED
      BY <2>2, Zenon DEF SumIter
  <1>4. SumIter(g, n, w)
    <2>3. \E f : SumIter(f, n, w)
      BY <1>1, IterIsTotal
    <2>1. \E f : f = [s \in SUBSET DOMAIN q |->
                        IF s = {} THEN 0 ELSE f[s \ {Max(s)}] + q[Max(s)].pbufs]
      <3>1. PICK f : SumIter(f, n, w)
        BY <2>3
      <3>2. f = [s \in SUBSET (1 .. n) |->
                   IF s = {} THEN 0 ELSE f[s \ {Max(s)}] + q[Max(s)].pbufs]
        BY <1>3, <3>1, Zenon
      <3>3. DOMAIN q = 1 .. n
        BY <1>1
      <3> WITNESS f
      <3> QED
        BY <3>2, <3>3, Zenon
    <2>2. g = [s \in SUBSET DOMAIN q |->
                 IF s = {} THEN 0 ELSE g[s \ {Max(s)}] + q[Max(s)].pbufs]
      BY <2>1, Zenon
    <2> QED
      BY <1>1, <1>3, <2>2, Zenon
  <1> HIDE DEF g
  <1> QED
    BY <1>1, <1>2, <1>4, IterIsTotal, TotalIsRunningSum DEF w

\* What lwIP's queues do to the number of pbufs they hold.
LEMMA PbufsOfAppend ==
  ASSUME NEW q \in Seq(KeptPbuf), NEW r \in KeptPbuf
  PROVE  Append(q, r) \in Seq(KeptPbuf) /\ Pbufs(Append(q, r)) = Pbufs(q) + r.pbufs
  <1>1. /\ Append(q, r) \in Seq(KeptPbuf) /\ r.pbufs \in Nat
        /\ Counts(q) \in Seq(Nat) /\ <<r.pbufs>> \in Seq(Nat)
    <2>1. r.pbufs \in Nat
      BY DEF KeptPbuf
    <2> QED
      BY <2>1, CountsOfQueue
  <1>2. Counts(Append(q, r)) = Counts(q) \o <<r.pbufs>>
    <2> DEFINE a == Append(q, r)
               b == Counts(q) \o <<r.pbufs>>
    <2>1. /\ Len(a) = Len(q) + 1 /\ \A k \in 1 .. Len(q) : a[k] = q[k]
          /\ a[Len(q) + 1] = r
      OBVIOUS
    <2>2. /\ b \in Seq(Nat) /\ Len(b) = Len(q) + 1 /\ b[Len(q) + 1] = r.pbufs
          /\ \A k \in 1 .. Len(q) : b[k] = q[k].pbufs
      BY <1>1, CountsOfQueue
    <2>3. a \in Seq(KeptPbuf)
      OBVIOUS
    <2> HIDE DEF a, b
    <2>4. /\ Counts(a) \in Seq(Nat) /\ Len(Counts(a)) = Len(q) + 1
          /\ \A k \in 1 .. Len(q) + 1 : Counts(a)[k] = a[k].pbufs
      BY <2>1, <2>3, CountsOfQueue
    <2>5. ASSUME NEW k \in 1 .. Len(q) + 1 PROVE Counts(a)[k] = b[k]
      <3>1. CASE k = Len(q) + 1
        BY <2>1, <2>2, <2>4, <3>1
      <3>2. CASE k \in 1 .. Len(q)
        BY <2>1, <2>2, <2>4, <3>2
      <3> QED
        BY <3>1, <3>2
    <2> QED
      BY <2>2, <2>4, <2>5, SeqEqual DEF a, b
  <1>3. Total(Counts(q) \o <<r.pbufs>>) = Total(Counts(q)) + r.pbufs
    BY <1>1, TotalOfConcat, TotalOfOne
  <1> QED
    BY <1>1, <1>2, <1>3, PbufsIsTotal

LEMMA PbufsOfRemoveAt ==
  ASSUME NEW q \in Seq(KeptPbuf), NEW k \in DOMAIN q
  PROVE  /\ RemoveAt(q, k) \in Seq(KeptPbuf) /\ q[k].pbufs \in Nat
         /\ Pbufs(q) = q[k].pbufs + Pbufs(RemoveAt(q, k))
  <1>1. /\ RemoveAt(q, k) \in Seq(KeptPbuf)
        /\ Counts(q) \in Seq(Nat) /\ k \in 1 .. Len(Counts(q))
        /\ Counts(q)[k] = q[k].pbufs /\ k \in 1 .. Len(q)
    BY CountsOfQueue DEF RemoveAt
  <1>2. Counts(RemoveAt(q, k)) = RemoveAt(Counts(q), k)
    <2> DEFINE a == RemoveAt(q, k)
               b == RemoveAt(Counts(q), k)
    <2>1. Len(Counts(q)) = Len(q) /\ \A i \in 1 .. Len(q) : Counts(q)[i] = q[i].pbufs
      BY CountsOfQueue
    <2>2. /\ Len(a) = Len(q) - 1 /\ \A i \in 1 .. k - 1 : a[i] = q[i]
          /\ \A i \in k .. Len(q) - 1 : a[i] = q[i + 1]
      BY <1>1, RemoveAtElements
    <2>3. /\ b \in Seq(Nat)
          /\ Len(b) = Len(q) - 1 /\ \A i \in 1 .. k - 1 : b[i] = Counts(q)[i]
          /\ \A i \in k .. Len(q) - 1 : b[i] = Counts(q)[i + 1]
      BY <1>1, <2>1, RemoveAtElements
    <2> HIDE DEF a, b
    <2>4. /\ Counts(a) \in Seq(Nat) /\ Len(Counts(a)) = Len(q) - 1
          /\ \A i \in 1 .. Len(q) - 1 : Counts(a)[i] = a[i].pbufs
      BY <1>1, <2>2, CountsOfQueue DEF a
    <2>5. ASSUME NEW i \in 1 .. Len(q) - 1 PROVE Counts(a)[i] = b[i]
      <3>1. CASE i < k
        <4>1. i \in 1 .. k - 1 /\ i \in 1 .. Len(q)
          BY <1>1, <3>1
        <4> QED
          BY <2>1, <2>2, <2>3, <2>4, <4>1
      <3>2. CASE i >= k
        <4>1. i \in k .. Len(q) - 1 /\ i + 1 \in 1 .. Len(q)
          BY <1>1, <3>2
        <4> QED
          BY <2>1, <2>2, <2>3, <2>4, <4>1
      <3> QED
        BY <1>1, <3>1, <3>2
    <2> QED
      BY <2>3, <2>4, <2>5, SeqEqual DEF a, b
  <1>3. /\ RemoveAt(Counts(q), k) \in Seq(Nat) /\ Counts(q)[k] \in Nat
        /\ Total(Counts(q)) = Counts(q)[k] + Total(RemoveAt(Counts(q), k))
    BY <1>1, TotalOfRemoveAt
  <1> QED
    BY <1>1, <1>2, <1>3, PbufsIsTotal

\* The pbufs of netif_Indication are its own until it has handed them over.
PoolInv ==
  /\ InputInv
  /\ pool \in Nat /\ chain \in Nat /\ kept \in Seq(KeptPbuf)
  /\ pc = "none" => chain = 0
  /\ pool + (IF pc = "done" THEN 0 ELSE chain) + Pbufs(kept) = PoolSize

LEMMA PoolInvInit == NetifRxInit => PoolInv
  <1> SUFFICES ASSUME NetifRxInit PROVE PoolInv
    OBVIOUS
  <1>1. <<>> \in Seq(KeptPbuf) /\ Counts(<<>>) = <<>> /\ Pbufs(<<>>) = 0
    <2>1. <<>> \in Seq(KeptPbuf)
      OBVIOUS
    <2>2. Counts(<<>>) = <<>>
      BY DEF Counts
    <2> QED
      BY <2>1, <2>2, PbufsIsTotal, TotalOfOne
  <1> QED
    BY <1>1, InputInvInit, NetifRxConstants DEF NetifRxInit, PoolInv

LEMMA PoolInvStep ==
  ASSUME PoolInv, [NetifRxNext]_netifVars
  PROVE  PoolInv'
  <1>1. InputInv'
    BY InputInvStep DEF PoolInv
  <1>2. /\ pool \in Nat /\ chain \in Nat /\ kept \in Seq(KeptPbuf)
        /\ pc = "none" => chain = 0
        /\ Pbufs(kept) \in Nat /\ PoolSize \in Nat
        /\ pool + (IF pc = "done" THEN 0 ELSE chain) + Pbufs(kept) = PoolSize
    BY PbufsIsTotal, NetifRxConstants DEF PoolInv
  <1>3. CASE Alloc
    <2>1. Needed(Frame) \in 1 .. 2
      BY DEF Needed
    <2>2. kept' = kept /\ pc = "none"
      BY <1>3 DEF Alloc
    <2>3. CASE pool < Needed(Frame)
      BY <1>1, <1>2, <1>3, <2>2, <2>3 DEF Alloc, PoolInv
    <2>4. CASE ~(pool < Needed(Frame))
      BY <1>1, <1>2, <1>3, <2>1, <2>2, <2>4 DEF Alloc, PoolInv
    <2> QED
      BY <2>3, <2>4
  <1>4. CASE InputConsumes \/ InputFails
    BY <1>1, <1>2, <1>4 DEF InputConsumes, InputFails, PoolInv
  <1>5. CASE InputKeeps
    <2> DEFINE r == [buffer |-> scan.start, frame |-> Frame, pbufs |-> chain]
    <2>1. r \in KeptPbuf /\ r.pbufs = chain
      <3>1. /\ desc \in [Buffers -> Descriptor] /\ scan.start \in Buffers
        BY TypeFacts DEF PoolInv, InputInv, RingInv, TypeInv, ScanRecord
      <3>2. Frame \in Frames \cup {NA}
        BY <3>1 DEF Frame, Descriptor
      <3> QED
        BY <1>2, <3>1, <3>2 DEF KeptPbuf
    <2>2. kept' = Append(kept, r) /\ pc = "input" /\ pc' = "done" /\ UNCHANGED <<chain, pool>>
      BY <1>5 DEF InputKeeps
    <2> HIDE DEF r
    <2>3. kept' \in Seq(KeptPbuf) /\ Pbufs(kept') = Pbufs(kept) + chain
      BY <1>2, <2>1, <2>2, PbufsOfAppend
    <2> QED
      BY <1>1, <1>2, <2>2, <2>3 DEF PoolInv
  <1>6. CASE IndicationReturns
    BY <1>1, <1>2, <1>6 DEF IndicationReturns, PoolInv
  <1>7. CASE DoneWithKept
    <2>1. PICK k \in DOMAIN kept : kept' = RemoveAt(kept, k) /\ pool' = pool + kept[k].pbufs
      BY <1>7 DEF DoneWithKept
    <2>2. UNCHANGED <<pc, chain>>
      BY <1>7 DEF DoneWithKept
    <2>3. /\ kept' \in Seq(KeptPbuf) /\ kept[k].pbufs \in Nat
          /\ Pbufs(kept) = kept[k].pbufs + Pbufs(kept')
          /\ Pbufs(kept') \in Nat
      BY <1>2, <2>1, PbufsOfRemoveAt, PbufsIsTotal
    <2>4. /\ pool' \in Nat
          /\ pool' + (IF pc = "done" THEN 0 ELSE chain) + Pbufs(kept') = PoolSize
      <3> DEFINE n == kept[k].pbufs
                 left == Pbufs(kept')
      <3>1. /\ n \in Nat /\ left \in Nat /\ pool' = pool + n /\ Pbufs(kept) = n + left
        BY <2>1, <2>3
      <3>2. /\ pool \in Nat /\ chain \in Nat
            /\ pool + (IF pc = "done" THEN 0 ELSE chain) + Pbufs(kept) = PoolSize
        BY <1>2
      <3> HIDE DEF n, left
      <3>3. /\ pool' \in Nat
            /\ pool' + (IF pc = "done" THEN 0 ELSE chain) + left = PoolSize
        BY <3>1, <3>2
      <3> QED
        BY <3>3 DEF left
    <2> QED
      BY <1>1, <1>2, <2>2, <2>3, <2>4 DEF PoolInv
  <1>8. CASE Driver \/ Trapped \/ UNCHANGED netifVars \/ \E frame \in Frames : FrameArrives(frame)
    <2>1. UNCHANGED netif
      BY <1>8 DEF Driver, Trapped, FrameArrives, netifVars
    <2> QED
      BY <1>1, <1>2, <2>1 DEF PoolInv, netif
  <1> QED
    BY <1>3, <1>4, <1>5, <1>6, <1>7, <1>8 DEF NetifRxNext

\* For every pool, every set of frames and any number of pbufs lwIP keeps: no
\* pbuf is lost or freed twice, on no path of netif_Indication and in no order
\* in which lwIP lets go of what it kept.
THEOREM PoolCorrect == NetifRxSpec => []NoPbufLost
  <1>1. PoolInv => NoPbufLost
    BY DEF PoolInv, NoPbufLost, Pbufs
  <1> QED
    BY <1>1, PoolInvInit, PoolInvStep, PTL DEF NetifRxSpec
=============================================================================
