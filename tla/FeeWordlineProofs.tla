--------------------------- MODULE FeeWordlineProofs ---------------------------
(***************************************************************************)
(* Proofs about a wordline in which programming failed: that WordlineInv   *)
(* of FeeWordline is an invariant as long as UndoExact is, and with it     *)
(* that once a single failure is dealt with no block's latest copy is left *)
(* in that wordline.                                                       *)
(*                                                                         *)
(* First come the steps that leave the handling of a failure where it is,  *)
(* then the initialisation, the cache, writes and the garbage collection,  *)
(* each with its own handling; at last the first failure itself, which     *)
(* still finds the flash as FeeInv and AloneInv describe it.               *)
(***************************************************************************)
EXTENDS FeeWordline, FeeFaultProofs

-----------------------------------------------------------------------------
(* What leaves the handling of a failure where it is. *)

\* The addresses of failed wordlines.
LEMMA WordlineOf ==
  ASSUME NEW s \in Sectors, NEW a \in Slots
  PROVE  LET w == At(s, WLBeginning(a))
         IN /\ w \in Addresses /\ w.sector = s /\ w.slot = WLBeginning(a)
            /\ IsWLBeginning(w.slot) /\ w.slot \in Nat /\ w.slot <= a
            /\ a < w.slot + PerWL
  <1>1. a \in Nat /\ WLBeginning(a) \in Slots
    BY SlotFacts, WordlineSlots
  <1>2. WLBeginning(a) \in Nat /\ WLBeginning(a) <= a /\ IsWLBeginning(WLBeginning(a))
        /\ a < WLBeginning(a) + PerWL
    BY <1>1, WordlineFacts
  <1> QED
    BY <1>1, <1>2, AddressFacts

\* A slot of a wordline, by its number.
LEMMA WithinSlot ==
  ASSUME NEW at \in Addresses \cup {NoAddr}, NEW w \in Addresses
  PROVE  /\ w.sector \in Sectors /\ w.slot \in Slots /\ w.slot \in Nat
         /\ Within(at, w) =>
              /\ at \in Addresses /\ at # NoAddr /\ at.sector = w.sector
              /\ at.slot \in Slots /\ at.slot \in Nat /\ WLBeginning(at.slot) = w.slot
              /\ w.slot <= at.slot /\ at.slot < w.slot + PerWL
         /\ at # NoAddr /\ at.sector = w.sector /\ WLBeginning(at.slot) = w.slot => Within(at, w)
  <1>1. w.sector \in Sectors /\ w.slot \in Slots /\ w.slot \in Nat /\ w = At(w.sector, w.slot)
    BY AddressFacts, SlotFacts
  <1>2. ASSUME Within(at, w)
        PROVE  /\ at \in Addresses /\ at # NoAddr /\ at.sector = w.sector
               /\ at.slot \in Slots /\ at.slot \in Nat /\ WLBeginning(at.slot) = w.slot
               /\ w.slot <= at.slot /\ at.slot < w.slot + PerWL
    <2>1. at \in Addresses /\ at # NoAddr /\ At(at.sector, WLBeginning(at.slot)) = w
      BY <1>2 DEF Within
    <2>2. at.sector \in Sectors /\ at.slot \in Slots
      BY <2>1, AddressFacts
    <2>3. w.sector = at.sector /\ w.slot = WLBeginning(at.slot)
          /\ w.slot <= at.slot /\ at.slot < w.slot + PerWL
      BY <2>1, <2>2, WordlineOf
    <2> QED
      BY <2>1, <2>2, <2>3, SlotFacts
  <1>3. ASSUME at # NoAddr, at.sector = w.sector, WLBeginning(at.slot) = w.slot
        PROVE  Within(at, w)
    BY <1>1, <1>3 DEF Within
  <1> QED
    BY <1>1, <1>2, <1>3

\* A result that is not new brings no failure.
LEMMA FirstFailureKept ==
  ASSUME NEW f, NEW g, FirstFailure(f),
         g.IntrJob = "FAIL" =>
           /\ f.IntrJob = "FAIL" /\ g.IntrJobFailCount = f.IntrJobFailCount
           /\ g.RepairStep = f.RepairStep,
         g.UserJob = "FAIL" =>
           /\ f.UserJob = "FAIL" /\ g.UserJobFailCount = f.UserJobFailCount
           /\ Stage(g, "recopy") => Stage(f, "recopy")
  PROVE  FirstFailure(g)
  BY DEF FirstFailure

\* The part about the start-up depends on these.
LEMMA StartLeftKept ==
  ASSUME NEW fl, NEW new, NEW f, NEW g, NEW w, StartLeft(fl, f, w),
         g.CacheUpdated = f.CacheUpdated, g.InitGCState = f.InitGCState,
         g.PrepStep = f.PrepStep, g.PrepDest = f.PrepDest,
         g.StatePageAddr = f.StatePageAddr, g.NextFreeWL = f.NextFreeWL,
         f.IntrJob = "FAIL" => g.IntrJob = "FAIL",
         ~f.CacheUpdated /\ NoCopyIn(fl, w) => NoCopyIn(new, w)
  PROVE  StartLeft(new, g, w)
  BY DEF StartLeft, PrepLeft, PageAfter, Behind

\* A later page is still behind the wordline.
LEMMA BehindLater ==
  ASSUME NEW w \in Addresses, NEW d \in Nat, NEW e \in Nat, d <= e, Behind(w, d)
  PROVE  Behind(w, e)
  BY AddressFacts, SlotFacts DEF Behind

\* The parts about writes and collections depend on these.
LEMMA UserLeftKept ==
  ASSUME NEW f, NEW g, NEW w \in Addresses, UserLeft(f, w),
         g.Cache = f.Cache, f.NextFreePage \in Nat, g.NextFreePage \in Nat,
         f.NextFreePage <= g.NextFreePage,
         UserWrites(f) =>
           /\ g.Req = f.Req /\ g.NextFreePage = f.NextFreePage /\ g.Affected = f.Affected
           /\ f.UserJob = "FAIL" => g.UserJob = "FAIL"
  PROVE  UserLeft(g, w)
  <1>1. CASE Left(f, w) /\ Behind(w, f.NextFreePage)
    BY <1>1, BehindLater DEF UserLeft, Left
  <1>2. CASE UserWrites(f)
    BY <1>1, <1>2 DEF UserLeft, Left, Stage
  <1> QED
    BY <1>1, <1>2 DEF UserLeft, UserWrites

\* The same for the sector a collection fills.
LEMMA GcLeftKept ==
  ASSUME NEW f, NEW g, NEW w, GcLeft(f, w),
         g.Cache = f.Cache, g.CurrSector = f.CurrSector, g.NextFreeWL = f.NextFreeWL,
         g.GcDest = f.GcDest,
         g.GcState = f.GcState \/ (f.GcState = "IDLE" /\ g.GcState = "REQUESTED"),
         f.IntrJob = "FAIL" => g.IntrJob = "FAIL",
         g.GcState = "ERASE" /\ g.IntrJob = "PASS" => f.IntrJob = "PASS"
  PROVE  GcLeft(g, w)
  <1>1. Oth(g) = Oth(f)
    BY DEF Oth
  <1>2. g.GcState \in {"IDLE", "REQUESTED"} => f.GcState \in {"IDLE", "REQUESTED"}
    OBVIOUS
  <1>3. g.GcState \in Copying \cup {"E_SP", "E_M"} => f.GcState = g.GcState
    BY DEF Copying
  <1> QED
    BY <1>1, <1>2, <1>3 DEF GcLeft, Left

\* And for both sectors once the cache is built.
LEMMA CacheLeftKept ==
  ASSUME NEW f, NEW g, NEW w \in Addresses, CacheLeft(f, w),
         g.CacheUpdated = f.CacheUpdated, g.Cache = f.Cache, g.CurrSector = f.CurrSector,
         g.NextFreeWL = f.NextFreeWL, g.GcDest = f.GcDest,
         g.GcState = f.GcState \/ (f.GcState = "IDLE" /\ g.GcState = "REQUESTED"),
         f.NextFreePage \in Nat, g.NextFreePage \in Nat, f.NextFreePage <= g.NextFreePage,
         UserWrites(f) =>
           /\ g.Req = f.Req /\ g.NextFreePage = f.NextFreePage /\ g.Affected = f.Affected
           /\ f.UserJob = "FAIL" => g.UserJob = "FAIL",
         f.IntrJob = "FAIL" => g.IntrJob = "FAIL",
         w.sector = Cur(f) /\ g.GcState = "COPY_WRITE" /\ g.IntrJob = "FAIL" => f.IntrJob = "FAIL",
         w.sector # Cur(f) /\ g.GcState = "ERASE" /\ g.IntrJob = "PASS" => f.IntrJob = "PASS"
  PROVE  CacheLeft(g, w)
  <1>1. SUFFICES ASSUME f.CacheUpdated, g.GcState # "FAIL"
                 PROVE  IF w.sector = Cur(g)
                        THEN UserLeft(g, w) /\ ~(g.GcState = "COPY_WRITE" /\ g.IntrJob = "FAIL")
                        ELSE GcLeft(g, w)
    BY DEF CacheLeft
  <1>2. Cur(g) = Cur(f) /\ f.GcState # "FAIL"
    BY <1>1 DEF Cur
  <1>3. CASE w.sector = Cur(f)
    <2>1. UserLeft(f, w) /\ ~(f.GcState = "COPY_WRITE" /\ f.IntrJob = "FAIL")
      BY <1>1, <1>2, <1>3 DEF CacheLeft
    <2>2. UserLeft(g, w)
      BY <2>1, UserLeftKept
    <2> QED
      BY <1>2, <1>3, <2>1, <2>2
  <1>4. CASE w.sector # Cur(f)
    <2>1. GcLeft(f, w)
      BY <1>1, <1>2, <1>4 DEF CacheLeft
    <2>2. GcLeft(g, w)
      BY <1>4, <2>1, GcLeftKept
    <2> QED
      BY <1>2, <1>4, <2>2
  <1> QED
    BY <1>3, <1>4

\* The sources a collection remembers depend on these.
LEMMA RowKept ==
  ASSUME NEW fl, NEW new, NEW f, NEW g, FaultTypes(f), RowInv(fl, f), CacheFault(fl, f),
         f.CacheUpdated \/ f.GcState \notin {"START_COPY", "COPY_WRITE"},
         g.GcState \in {"START_COPY", "COPY_WRITE"} =>
           /\ f.GcState \in {"START_COPY", "COPY_WRITE"}
           /\ g.CurrSector = f.CurrSector /\ g.GcDest = f.GcDest /\ g.GcSrcAddr = f.GcSrcAddr
           /\ \A b \in Blocks : \/ g.Cache[b] = f.Cache[b] \/ g.Cache[b] = NoAddr
                                \/ g.Cache[b].sector = Cur(f)
           /\ \A p \in Slots : fl[Cur(f)][p].kind = "copy" => new[Cur(f)][p] = fl[Cur(f)][p]
  PROVE  RowInv(new, g)
  <1> DEFINE d == f.GcDest
             row == WLBeginning(d)
             o == Oth(f)
  <1>1. SUFFICES ASSUME g.GcState \in {"START_COPY", "COPY_WRITE"}, ~IsWLBeginning(g.GcDest)
                 PROVE  RowInv(new, g)
    BY DEF RowInv
  <1>2. g.GcDest = d /\ g.GcSrcAddr = f.GcSrcAddr /\ Oth(g) = o /\ Cur(g) = Cur(f)
        /\ f.GcState \in {"START_COPY", "COPY_WRITE"} /\ f.CacheUpdated
    BY <1>1 DEF Oth, Cur
  <1>3. /\ f.Cache \in [Blocks -> Addresses \cup {NoAddr}] /\ f.GcSrcAddr \in Seq(Addresses)
        /\ Cur(f) \in Sectors /\ o \in Sectors /\ o # Cur(f) /\ d \in Nat
    BY FieldFacts
  <1>4. Len(f.GcSrcAddr) = d - row /\ row \in Nat /\ row <= d /\ IsWLBeginning(row)
        /\ PerWL \in Nat /\ d < row + PerWL
    BY <1>1, <1>2, <1>3, WordlineFacts, WordlineSize DEF RowInv
  <1>5. \A i \in DOMAIN f.GcSrcAddr :
          LET at == f.GcSrcAddr[i]
          IN at.sector = Cur(f) /\ fl[Cur(f)][at.slot].kind = "copy" /\ at.slot \in Slots
    <2>1. \A i \in DOMAIN f.GcSrcAddr : f.GcSrcAddr[i] \in Addresses
      BY <1>3
    <2>2. \A i \in DOMAIN f.GcSrcAddr : f.GcSrcAddr[i].slot \in Slots
      BY <2>1, AddressFacts
    <2> QED
      BY <1>2, <2>2 DEF CacheFault
  <1>6. ASSUME NEW b \in Blocks, Within(g.Cache[b], At(o, row)), g.Cache[b].slot < d
        PROVE  LET at == f.GcSrcAddr[g.Cache[b].slot - row + 1]
               IN new[at.sector][at.slot].blk = b
    <2>1. g.Cache[b] # NoAddr /\ g.Cache[b].sector = o
      BY <1>6 DEF Within, At
    <2>2. g.Cache[b] = f.Cache[b]
      BY <1>1, <1>3, <2>1
    <2>3. f.Cache[b] \in Addresses /\ f.Cache[b].slot \in Slots
          /\ WLBeginning(f.Cache[b].slot) = row
      <3>1. f.Cache[b] \in Addresses
        BY <1>3, <2>1, <2>2
      <3> QED
        BY <1>6, <2>2, <3>1, AddressFacts DEF Within, At
    <2>4. f.Cache[b].slot \in Nat /\ row <= f.Cache[b].slot
      BY <2>3, SlotFacts, WordlineFacts
    <2> DEFINE i == f.Cache[b].slot - row + 1
    <2>5. i \in DOMAIN f.GcSrcAddr
      <3>1. i \in 1 .. Len(f.GcSrcAddr)
        BY <1>3, <1>4, <1>6, <2>2, <2>4
      <3> QED
        BY <1>3, <3>1
    <2>6. fl[f.GcSrcAddr[i].sector][f.GcSrcAddr[i].slot].blk = b
      BY <1>1, <1>2, <1>6, <2>2 DEF RowInv
    <2>7. new[f.GcSrcAddr[i].sector][f.GcSrcAddr[i].slot]
            = fl[f.GcSrcAddr[i].sector][f.GcSrcAddr[i].slot]
      <3> HIDE DEF i
      <3>1. /\ f.GcSrcAddr[i].sector = Cur(f) /\ f.GcSrcAddr[i].slot \in Slots
            /\ fl[Cur(f)][f.GcSrcAddr[i].slot].kind = "copy"
        BY <1>5, <2>5
      <3>2. \A p \in Slots : fl[Cur(f)][p].kind = "copy" => new[Cur(f)][p] = fl[Cur(f)][p]
        BY <1>1
      <3> QED
        BY <3>1, <3>2
    <2> QED
      BY <2>2, <2>6, <2>7
  <1>7. row = WLBeginning(g.GcDest) /\ o = Oth(g) /\ d = g.GcDest /\ f.GcSrcAddr = g.GcSrcAddr
        /\ Len(f.GcSrcAddr) = d - row
    BY <1>2, <1>4
  <1> HIDE DEF row, o, d
  <1>8. ASSUME NEW b \in Blocks, Within(g.Cache[b], At(Oth(g), WLBeginning(g.GcDest))),
               g.Cache[b].slot < g.GcDest
        PROVE  LET at == g.GcSrcAddr[g.Cache[b].slot - WLBeginning(g.GcDest) + 1]
               IN new[at.sector][at.slot].blk = b
    <2>1. Within(g.Cache[b], At(o, row)) /\ g.Cache[b].slot < d
      BY <1>7, <1>8
    <2>2. LET at == f.GcSrcAddr[g.Cache[b].slot - row + 1]
          IN new[at.sector][at.slot].blk = b
      BY <1>6, <2>1
    <2> QED
      BY <1>7, <2>2, Zenon
  <1>9. Len(g.GcSrcAddr) = g.GcDest - WLBeginning(g.GcDest)
    BY <1>7
  <1> QED
    BY <1>8, <1>9 DEF RowInv

\* It depends on these fields only.
LEMMA RowSame ==
  ASSUME NEW fl, NEW f, NEW g, RowInv(fl, f), f.GcState \in {"START_COPY", "COPY_WRITE"},
         g.GcDest = f.GcDest, g.GcSrcAddr = f.GcSrcAddr, g.Cache = f.Cache, Oth(g) = Oth(f)
  PROVE  RowInv(fl, g)
  <1> DEFINE row == WLBeginning(f.GcDest)
  <1>1. SUFFICES ASSUME ~IsWLBeginning(f.GcDest)
                 PROVE  /\ Len(f.GcSrcAddr) = f.GcDest - row
                        /\ \A b \in Blocks :
                             Within(f.Cache[b], At(Oth(f), row)) /\ f.Cache[b].slot < f.GcDest =>
                               LET at == f.GcSrcAddr[f.Cache[b].slot - row + 1]
                               IN fl[at.sector][at.slot].blk = b
    BY Zenon DEF RowInv
  <1> QED
    BY <1>1, Zenon DEF RowInv

\* A step that changes none of the fields the handling goes by.
LEMMA DealtKept ==
  ASSUME NEW fl, NEW fwl, NEW f, NEW g, FaultTypes(f), MainInv(f, job), CacheFault(fl, f),
         DealtWith(fl, fwl, f), FaultTypes(g),
         NEW X, Same(f, g, X),
         X \subseteq {"MainJob", "NextFreePage", "Req", "UserJob", "UserJobFailCount", "GcState"},
         f.NextFreePage <= g.NextFreePage,
         UserWrites(f) => g.Req = f.Req /\ g.NextFreePage = f.NextFreePage
                            /\ g.UserJob = f.UserJob /\ g.UserJobFailCount = f.UserJobFailCount,
         g.UserJob = "FAIL" => UserWrites(f),
         g.GcState = f.GcState \/ (f.GcState = "IDLE" /\ g.GcState = "REQUESTED")
  PROVE  DealtWith(fl, fwl, g)
  <1>1. /\ g.InitGCState = f.InitGCState /\ g.RepairStep = f.RepairStep /\ g.PrepStep = f.PrepStep
        /\ g.PrepDest = f.PrepDest /\ g.CurrSector = f.CurrSector
        /\ g.StatePageAddr = f.StatePageAddr /\ g.NextFreeWL = f.NextFreeWL
        /\ g.CacheUpdated = f.CacheUpdated /\ g.Cache = f.Cache /\ g.GcDest = f.GcDest
        /\ g.GcSrcAddr = f.GcSrcAddr /\ g.IntrJob = f.IntrJob
        /\ g.IntrJobFailCount = f.IntrJobFailCount /\ g.Affected = f.Affected
    BY DEF Same, Fields
  <1>2. f.NextFreePage \in Nat /\ g.NextFreePage \in Nat
    BY FieldFacts
  <1>3. FirstFailure(f) /\ RowInv(fl, f) /\ \A w \in fwl : WordlineLeft(fl, f, w)
    BY DEF DealtWith
  <1>4. FirstFailure(g)
    <2>1. g.UserJob = "FAIL" =>
            /\ f.UserJob = "FAIL" /\ g.UserJobFailCount = f.UserJobFailCount
            /\ Stage(g, "recopy") => Stage(f, "recopy")
      BY DEF Stage
    <2> QED
      BY <1>1, <1>3, <2>1, FirstFailureKept
  <1>5. RowInv(fl, g)
    <2>1. f.CacheUpdated \/ f.GcState \notin {"START_COPY", "COPY_WRITE"}
      BY DEF MainInv
    <2> QED
      BY <1>1, <1>3, <2>1, RowKept
  <1>6. ASSUME NEW w \in fwl PROVE WordlineLeft(fl, g, w)
    <2>1. w \in Addresses /\ IsWLBeginning(w.slot) /\ StartLeft(fl, f, w) /\ CacheLeft(f, w)
      BY <1>3 DEF WordlineLeft
    <2>2. StartLeft(fl, g, w)
      BY <1>1, <2>1, StartLeftKept
    <2>3. CacheLeft(g, w)
      BY <1>1, <1>2, <2>1, CacheLeftKept
    <2> QED
      BY <2>1, <2>2, <2>3 DEF WordlineLeft
  <1> QED
    BY <1>4, <1>5, <1>6 DEF DealtWith

\* Fee_lDecideMainJob moves the next page on only while a request waits.
LEMMA DecidedPage ==
  ASSUME NEW f, FaultTypes(f)
  PROVE  LET g == DecideMainJob(f)
         IN /\ g.NextFreePage = f.NextFreePage \/ (Stage(f, "request") /\ f.NextFreePage <= g.NextFreePage)
  <1>1. DOMAIN f = Fields /\ f.NextFreePage \in Nat
    BY FieldFacts
  <1>2. \A m : [f EXCEPT !.MainJob = m].NextFreePage = f.NextFreePage
    BY <1>1 DEF Fields
  <1>3. /\ CheckedPage(f) \in Nat /\ f.NextFreePage <= CheckedPage(f)
    BY <1>1, WordlineFacts DEF CheckedPage
  <1>4. AskGC(f).NextFreePage \in {f.NextFreePage, CheckedPage(f)}
    <2>1. CurrBlkCheck(f).NextFreePage = CheckedPage(f)
          /\ DOMAIN CurrBlkCheck(f) = Fields
      BY <1>1 DEF CurrBlkCheck, Fields
    <2>2. [CurrBlkCheck(f) EXCEPT !.MainJob = "WRITE"].NextFreePage = CheckedPage(f)
      <3> HIDE DEF CurrBlkCheck
      <3> QED
        BY <2>1 DEF Fields
    <2> HIDE DEF CurrBlkCheck
    <2> QED
      BY <1>2, <2>1, <2>2 DEF AskGC
  <1>5. Requested(f) => Stage(f, "request")
    BY DEF Requested, Stage
  <1>6. CASE DecideMainJob(f) = AskGC(f) /\ Requested(f)
    BY <1>1, <1>3, <1>4, <1>5, <1>6
  <1>7. CASE ~(DecideMainJob(f) = AskGC(f) /\ Requested(f))
    <2> DEFINE To(m) == [f EXCEPT !.MainJob = m]
    <2>1. \/ DecideMainJob(f) = f
          \/ DecideMainJob(f) = To("CACHEUPDATE")
          \/ DecideMainJob(f) = To("READ")
          \/ DecideMainJob(f) = To("WRITE")
          \/ DecideMainJob(f) = To("GC")
          \/ DecideMainJob(f) = To("NONE")
          \/ DecideMainJob(f) = To(AfterJob(f))
          \/ DecideMainJob(f) = To(CASE ReadRequested(f) -> "READ" [] Requested(f) -> "WRITE"
                                     [] OTHER -> AfterJob(f))
      <3> HIDE DEF To
      <3> DEFINE D == DecideMainJob(f)
      <3>1. CASE f.MainJob = "GC" /\ f.GcState # "IDLE" /\ Requested(f) /\ ~ReadRequested(f)
        BY <1>7, <3>1 DEF DecideMainJob
      <3>2. CASE f.MainJob = "GC" /\ ~(f.GcState # "IDLE" /\ Requested(f) /\ ~ReadRequested(f))
        <4>1. CASE f.GcState = "IDLE"
          BY <3>2, <4>1 DEF DecideMainJob, To
        <4>2. CASE f.GcState # "IDLE" /\ ReadRequested(f)
          <5>1. ~Requested(f)
            BY <4>2 DEF Requested, ReadRequested
          <5> QED
            BY <3>2, <4>2, <5>1 DEF DecideMainJob, To
        <4>3. CASE f.GcState # "IDLE" /\ ~ReadRequested(f) /\ ~Requested(f)
          BY <3>2, <4>3 DEF DecideMainJob, To
        <4> QED
          BY <3>2, <4>1, <4>2, <4>3
      <3>3. CASE f.MainJob = "INITGC"
        BY <3>3 DEF DecideMainJob, To
      <3>4. CASE f.MainJob = "CACHEUPDATE"
        BY <3>4 DEF DecideMainJob, To
      <3>5. CASE f.MainJob \in {"NONE", "READ", "WRITE"}
        <4>1. /\ Requested(f) => f.Req # NoReq /\ ~ReadRequested(f)
              /\ ReadRequested(f) => f.Req # NoReq /\ ~Requested(f)
          BY DEF Requested, ReadRequested
        <4>2. CASE ReadRequested(f)
          BY <3>5, <4>1, <4>2 DEF DecideMainJob, To
        <4>3. CASE Requested(f)
          BY <3>5, <4>1, <4>3 DEF DecideMainJob, To
        <4>4. CASE ~ReadRequested(f) /\ ~Requested(f)
          BY <3>5, <4>4 DEF DecideMainJob, To
        <4> QED
          BY <4>2, <4>3, <4>4
      <3> QED
        BY <1>1, <3>1, <3>2, <3>3, <3>4, <3>5, FieldFacts
    <2>2. \A m : To(m).NextFreePage = f.NextFreePage
      BY <1>2
    <2> HIDE DEF To
    <2>3. DecideMainJob(f).NextFreePage = f.NextFreePage
      BY <2>1, <2>2
    <2> QED
      BY <2>3
  <1> QED
    BY <1>6, <1>7

\* Fee_lDecideMainJob does not touch what a failure left.
LEMMA DealtDecide ==
  ASSUME NEW f, FaultInv(flash, f, job), DealtWith(flash, failedWL, f)
  PROVE  DealtWith(flash, failedWL, DecideMainJob(f))
  <1> DEFINE g == DecideMainJob(f)
             X == {"MainJob", "NextFreePage"}
  <1>1. FaultInv(flash, g, job) /\ \A x \in Fields \ X : g[x] = f[x]
    BY FaultDecide
  <1>2. FaultTypes(f) /\ MainInv(f, job) /\ CacheFault(flash, f) /\ FaultTypes(g)
        /\ UserFault(flash, f, job)
    BY <1>1 DEF FaultInv
  <1>3. g.NextFreePage = f.NextFreePage \/ (Stage(f, "request") /\ f.NextFreePage <= g.NextFreePage)
    BY <1>2, DecidedPage
  <1> HIDE DEF g
  <1>4. f.NextFreePage \in Nat /\ f.NextFreePage <= g.NextFreePage
    BY <1>2, <1>3, FieldFacts
  <1>5. Same(f, g, X)
    BY <1>1, <1>2, FieldFacts DEF Same
  <1>6. g.Req = f.Req /\ g.UserJob = f.UserJob /\ g.UserJobFailCount = f.UserJobFailCount
        /\ g.GcState = f.GcState
    BY <1>5 DEF Same, Fields
  <1>7. UserWrites(f) => g.NextFreePage = f.NextFreePage
    BY <1>3 DEF UserWrites, Stage
  <1>8. f.UserJob = "FAIL" => UserWrites(f)
    BY <1>2 DEF UserFault
  <1>9. X \subseteq {"MainJob", "NextFreePage", "Req", "UserJob", "UserJobFailCount", "GcState"}
    OBVIOUS
  <1> HIDE DEF X
  <1>10. DealtWith(flash, failedWL, g)
    BY <1>2, <1>4, <1>5, <1>6, <1>7, <1>8, <1>9, DealtKept
  <1> QED
    BY <1>10 DEF g

\* Requests that come, are refused or are taken back.
LEMMA DealtRequest ==
  ASSUME NEW f, FaultInv(flash, f, job), DealtWith(flash, failedWL, f), ~UserWrites(f),
         NEW g, FaultTypes(g), NEW X, Same(f, g, X), X \subseteq {"Req", "UserJobFailCount"}
  PROVE  DealtWith(flash, failedWL, g)
  <1>1. FaultTypes(f) /\ MainInv(f, job) /\ CacheFault(flash, f) /\ UserFault(flash, f, job)
    BY DEF FaultInv
  <1>2. g.NextFreePage = f.NextFreePage /\ g.GcState = f.GcState /\ g.UserJob = "IDLE"
    BY <1>1 DEF Same, Fields, UserFault
  <1>3. f.NextFreePage <= g.NextFreePage
    BY <1>1, <1>2, FieldFacts
  <1>4. X \subseteq {"MainJob", "NextFreePage", "Req", "UserJob", "UserJobFailCount", "GcState"}
    OBVIOUS
  <1> QED
    BY <1>1, <1>2, <1>3, <1>4, DealtKept

\* The user's calls do not touch it either.
LEMMA DealtRequestStep ==
  ASSUME FaultInv(flash, fee, job), writes \in Nat, DealtWith(flash, failedWL, fee),
         \/ \E b \in Blocks : Read(b) \/ Write(b) \/ InvalidateBlock(b)
         \/ Cancel
  PROVE  DealtWith(flash', failedWL', fee')
  <1>1. FaultTypes(fee) /\ DOMAIN fee = Fields
    BY DEF FaultInv, FaultTypes
  <1>2. FaultTypes(fee')
    BY FaultRequestStep, FaultCancelStep DEF FaultInv
  <1>3. flash' = flash /\ failedWL' = failedWL
    BY DEF Read, Write, InvalidateBlock, Cancel
  <1>4. ~UserWrites(fee)
    BY DEF Read, Write, InvalidateBlock, Cancel, UserWrites, Stage
  <1>5. \E r : fee' = [fee EXCEPT !.Req = r] \/ fee' = [fee EXCEPT !.Req = r, !.UserJobFailCount = 0]
    BY DEF Read, Write, InvalidateBlock, Cancel, NewRequest
  <1>6. Same(fee, fee', {"Req", "UserJobFailCount"})
    BY <1>1, <1>5 DEF Same, Fields
  <1>7. DealtWith(flash, failedWL, fee')
    BY <1>2, <1>4, <1>6, DealtRequest
  <1> QED
    BY <1>3, <1>7

\* A read that is started.
LEMMA DealtLocalRead ==
  ASSUME NEW f, FaultInv(flash, f, NoJob), Stage(f, "toRead"), job = NoJob, LocalRead(f),
         DealtWith(flash, failedWL, f)
  PROVE  DealtWith(flash, failedWL, fee')
  <1>1. FaultTypes(f) /\ DOMAIN f = Fields /\ FaultInv(flash, f, job)
    BY DEF FaultInv, FaultTypes
  <1>2. FaultTypes(fee')
    <2>1. FaultInv(flash, fee', job')
      BY FaultLocalRead
    <2> QED
      BY <2>1 DEF FaultInv
  <1>3. ~UserWrites(f)
    BY DEF UserWrites, Stage
  <1>4. \/ fee' = [f EXCEPT !.Req = NoReq]
        \/ fee' = [f EXCEPT !.Req.stage = "reading"]
    BY DEF LocalRead, Continue, Start
  <1>5. Same(f, fee', {"Req"})
    BY <1>1, <1>4 DEF Same, Fields
  <1>6. {"Req"} \subseteq {"Req", "UserJobFailCount"}
    OBVIOUS
  <1> QED
    BY <1>1, <1>2, <1>3, <1>5, <1>6, DealtRequest

-----------------------------------------------------------------------------
(* The initialisation. *)

\* The result of a job of the first preparation.
LEMMA PrepLeftResult ==
  ASSUME NEW f, FaultInv(flash, f, NoJob), f.MainJob = "INITGC", f.InitGCState = "PREPARE",
         f.IntrJob # "IDLE", NEW w \in Addresses, StartLeft(flash, f, w)
  PROVE  StartLeft(flash, InitGCResult(f), w)
  <1> DEFINE g == InitGCResult(f)
             k == f.PrepStep
             d == f.PrepDest
             s == PrepSector[k]
             passed == f.IntrJob = "PASS"
  <1>1. /\ FaultTypes(f) /\ ~f.CacheUpdated /\ PrepFault(flash, f, NoJob) /\ DOMAIN f = Fields
    BY InitFacts
  <1>2. k \in 1 .. 6 /\ IsWLBeginning(d)
    BY <1>1 DEF PrepFault
  <1>3. /\ k \in {1, 2, 3, 4, 5, 6} /\ (k \in {1, 2, 3, 4} => s = 0) /\ (k \in {5, 6} => s = 1)
        /\ PrepSector[1] = 0 /\ PrepSector[2] = 0 /\ PrepSector[3] = 0 /\ PrepSector[4] = 0
        /\ PrepSector[5] = 1 /\ PrepSector[6] = 1
    BY <1>2, PrepSteps
  <1>4. /\ d \in Nat /\ f.IntrJob \in {"PASS", "FAIL"} /\ f.StatePageAddr \in [Sectors -> Nat]
        /\ f.NextFreeWL \in [Sectors -> Nat] /\ Sectors = {0, 1}
        /\ PerWL \in Nat /\ PerWL > 0 /\ w.sector \in {0, 1} /\ w.slot \in Nat
    BY <1>1, FieldFacts, SlotFacts, WordlineSize, AddressFacts
  <1>5. NextWL(d) = d + PerWL /\ NextWL(NextWL(d)) = d + PerWL + PerWL
    BY <1>2, <1>4, WordlineFacts
  <1>6. NoCopyIn(flash, w) /\ PrepLeft(f, w)
    BY <1>1 DEF StartLeft
  <1>7. \/ passed /\ w.sector = s /\ w.slot + PerWL <= d
        \/ ~passed /\ w.sector = s /\ (w.slot = d \/ w.slot + PerWL <= d)
        \/ /\ w.sector # s /\ k \in {5, 6} /\ w.sector = 0
           /\ w.slot <= f.StatePageAddr[0] /\ f.StatePageAddr[0] + PerWL <= f.NextFreeWL[0]
    BY <1>3, <1>4, <1>6 DEF PrepLeft, Behind
  <1>8. /\ g.IntrJob = "IDLE"
        /\ \/ /\ passed /\ k \in {1, 3, 5}
              /\ Same(f, g, {"IntrJob", "PrepStep"}) /\ g.PrepStep = k + 1
           \/ /\ passed /\ k = 2
              /\ Same(f, g, {"IntrJob", "PrepStep", "IntrJobFailCount", "PrepDest"})
              /\ g.PrepStep = k + 1 /\ g.IntrJobFailCount = 0 /\ g.PrepDest = NextWL(d)
           \/ /\ passed /\ k \in {4, 6}
              /\ Same(f, g, {"IntrJob", "PrepStep", "IntrJobFailCount", "PrepDest",
                             "StatePageAddr", "NextFreeWL", "InitGCState"})
              /\ g.PrepStep = k + 1 /\ g.IntrJobFailCount = 0 /\ g.PrepDest = 0
              /\ g.StatePageAddr = [f.StatePageAddr EXCEPT ![PrepSector[k]] = d]
              /\ g.NextFreeWL = [f.NextFreeWL EXCEPT ![PrepSector[k]] = NextWL(d)]
              /\ g.InitGCState = (IF k = 6 THEN "COMPLETE" ELSE "PREPARE")
           \/ /\ ~passed /\ f.IntrJobFailCount = 0
              /\ Same(f, g, {"IntrJob", "PrepStep", "IntrJobFailCount", "PrepDest"})
              /\ g.PrepStep = (IF k \in {1, 3, 5} THEN k ELSE k - 1)
              /\ g.IntrJobFailCount = 1 /\ g.PrepDest = NextWL(NextWL(d))
           \/ Same(f, g, {"IntrJob", "InitGCState"}) /\ g.InitGCState = "FAIL"
    BY <1>1, <1>2, PrepResultChanges
  <1> SUFFICES StartLeft(flash, g, w)
    OBVIOUS
  <1> HIDE DEF g
  <1>9. CASE passed /\ k \in {1, 3, 5} /\ Same(f, g, {"IntrJob", "PrepStep"}) /\ g.PrepStep = k + 1
    <2>1. g.InitGCState = "PREPARE" /\ g.PrepDest = d /\ g.StatePageAddr = f.StatePageAddr
          /\ g.NextFreeWL = f.NextFreeWL
      BY <1>9 DEF Same, Fields
    <2>2. PrepSector[g.PrepStep] = s /\ (k \in {5, 6} => g.PrepStep >= 5)
      BY <1>3, <1>9
    <2>3. PrepLeft(g, w)
      BY <1>3, <1>4, <1>7, <1>9, <2>1, <2>2 DEF PrepLeft, Behind
    <2> QED
      BY <1>6, <2>1, <2>3 DEF StartLeft
  <1>10. CASE /\ passed /\ k = 2
              /\ Same(f, g, {"IntrJob", "PrepStep", "IntrJobFailCount", "PrepDest"})
              /\ g.PrepStep = k + 1 /\ g.PrepDest = NextWL(d)
    <2>1. g.InitGCState = "PREPARE" /\ g.PrepStep = 3
      BY <1>10 DEF Same, Fields
    <2>2. PrepLeft(g, w)
      BY <1>3, <1>4, <1>5, <1>7, <1>10, <2>1 DEF PrepLeft, Behind
    <2> QED
      BY <1>6, <2>1, <2>2 DEF StartLeft
  <1>11. CASE /\ passed /\ k = 4
              /\ Same(f, g, {"IntrJob", "PrepStep", "IntrJobFailCount", "PrepDest",
                             "StatePageAddr", "NextFreeWL", "InitGCState"})
              /\ g.PrepStep = k + 1
              /\ g.StatePageAddr = [f.StatePageAddr EXCEPT ![PrepSector[k]] = d]
              /\ g.NextFreeWL = [f.NextFreeWL EXCEPT ![PrepSector[k]] = NextWL(d)]
              /\ g.InitGCState = "PREPARE"
    <2>1. g.PrepStep = 5 /\ g.StatePageAddr[0] = d /\ g.NextFreeWL[0] = d + PerWL
      BY <1>3, <1>4, <1>5, <1>11
    <2>2. PrepLeft(g, w)
      BY <1>3, <1>4, <1>7, <1>11, <2>1 DEF PrepLeft, Behind
    <2> QED
      BY <1>6, <1>11, <2>2 DEF StartLeft
  <1>12. CASE /\ passed /\ k = 6
              /\ g.StatePageAddr = [f.StatePageAddr EXCEPT ![PrepSector[k]] = d]
              /\ g.NextFreeWL = [f.NextFreeWL EXCEPT ![PrepSector[k]] = NextWL(d)]
              /\ g.InitGCState = "COMPLETE"
    <2>1. /\ g.StatePageAddr[1] = d /\ g.NextFreeWL[1] = d + PerWL
          /\ g.StatePageAddr[0] = f.StatePageAddr[0] /\ g.NextFreeWL[0] = f.NextFreeWL[0]
      BY <1>3, <1>4, <1>5, <1>12
    <2>2. PageAfter(g, w)
      BY <1>3, <1>4, <1>7, <1>12, <2>1 DEF PageAfter
    <2> QED
      BY <1>6, <1>12, <2>2 DEF StartLeft
  <1>13. CASE /\ ~passed
              /\ Same(f, g, {"IntrJob", "PrepStep", "IntrJobFailCount", "PrepDest"})
              /\ g.PrepStep = (IF k \in {1, 3, 5} THEN k ELSE k - 1)
              /\ g.PrepDest = NextWL(NextWL(d))
    <2>1. g.InitGCState = "PREPARE" /\ g.StatePageAddr = f.StatePageAddr
          /\ g.NextFreeWL = f.NextFreeWL
      BY <1>13 DEF Same, Fields
    <2>2. PrepSector[g.PrepStep] = s /\ (k \in {5, 6} => g.PrepStep >= 5)
      BY <1>3, <1>13
    <2>3. PrepLeft(g, w)
      BY <1>3, <1>4, <1>5, <1>7, <1>13, <2>1, <2>2 DEF PrepLeft, Behind
    <2> QED
      BY <1>6, <2>1, <2>3 DEF StartLeft
  <1>14. CASE g.InitGCState = "FAIL"
    BY <1>14 DEF StartLeft
  <1> QED
    BY <1>3, <1>8, <1>9, <1>10, <1>11, <1>12, <1>13, <1>14

\* The result of a job of the repair.
LEMMA RepairLeftResult ==
  ASSUME NEW f, FaultInv(flash, f, NoJob), f.MainJob = "INITGC", f.InitGCState = "DIRTY",
         f.IntrJob # "IDLE", NEW w \in Addresses, StartLeft(flash, f, w)
  PROVE  StartLeft(flash, InitGCResult(f), w)
  <1> DEFINE g == InitGCResult(f)
  <1>1. /\ FaultTypes(f) /\ ~f.CacheUpdated
    BY InitFacts
  <1>2. NoCopyIn(flash, w) /\ PageAfter(f, w)
    BY <1>1 DEF StartLeft
  <1>3. \/ g.InitGCState = "FAIL"
        \/ /\ g.InitGCState \in {"DIRTY", "NORMAL"}
           /\ g.StatePageAddr = f.StatePageAddr /\ g.NextFreeWL = f.NextFreeWL
    <2> HIDE DEF g
    <2>1. /\ g.IntrJob = "IDLE"
          /\ \/ /\ Same(f, g, {"IntrJob", "Dirty", "InitGCState", "IntrJobFailCount"})
                /\ g.InitGCState \in {"DIRTY", "NORMAL"}
             \/ Same(f, g, {"IntrJob", "RepairStep"})
             \/ Same(f, g, {"IntrJob", "RepairStep", "IntrJobFailCount"})
             \/ Same(f, g, {"IntrJob", "InitGCState"}) /\ g.InitGCState = "FAIL"
      BY <1>1, RepairResultFields DEF g
    <2> QED
      BY <2>1 DEF Same, Fields
  <1> HIDE DEF g
  <1>4. StartLeft(flash, g, w)
    BY <1>2, <1>3 DEF StartLeft, PageAfter
  <1> QED
    BY <1>4 DEF g

\* The repair programs its state page anew behind all that is used.
LEMMA RepairLeftJob ==
  ASSUME NEW f, FaultInv(flash, f, NoJob), f.MainJob = "INITGC", f.InitGCState = "DIRTY",
         NEW w \in Addresses, StartLeft(flash, f, w), RepairJob(f)
  PROVE  StartLeft(flash, fee', w)
  <1> DEFINE s == DirtySector(f)
             new == f.NextFreeWL[s]
  <1>1. /\ FaultTypes(f) /\ ~f.CacheUpdated /\ StartFault(flash, f, NoJob) /\ DOMAIN f = Fields
        /\ s \in Sectors /\ f.NextFreeWL \in [Sectors -> Nat] /\ f.StatePageAddr \in [Sectors -> Nat]
        /\ f.RepairStep \in {"MARKER", "PAGE"}
    BY InitFacts, FieldFacts
  <1>2. NoCopyIn(flash, w) /\ PageAfter(f, w)
    BY <1>1 DEF StartLeft
  <1>3. CASE f.RepairStep = "MARKER"
    <2>1. fee' = f
      BY <1>3 DEF RepairJob, Start
    <2> QED
      BY <2>1
  <1>4. CASE f.RepairStep = "PAGE"
    <2> DEFINE g == [f EXCEPT !.StatePageAddr[s] = new, !.NextFreeWL[s] = NextWL(new)]
    <2>1. fee' = g
      BY <1>4 DEF RepairJob, Start
    <2>2. /\ g.InitGCState = "DIRTY" /\ g.StatePageAddr = [f.StatePageAddr EXCEPT ![s] = new]
          /\ g.NextFreeWL = [f.NextFreeWL EXCEPT ![s] = NextWL(new)]
      BY <1>1 DEF Fields
    <2> HIDE DEF g
    <2>3. IsWLBeginning(new) /\ new \in Nat
      BY <1>1 DEF StartFault, OpenWL
    <2>4. NextWL(new) = new + PerWL /\ PerWL \in Nat
      BY <2>3, WordlineFacts, WordlineSize
    <2>5. w.sector \in Sectors /\ w.slot \in Nat
      BY AddressFacts, SlotFacts
    <2>6. PageAfter(g, w)
      <3>1. CASE w.sector = s
        <4>1. g.StatePageAddr[s] = new /\ g.NextFreeWL[s] = new + PerWL
          BY <1>1, <2>2, <2>4
        <4>2. w.slot <= f.StatePageAddr[s] /\ f.StatePageAddr[s] + PerWL <= new
              /\ f.StatePageAddr[s] \in Nat
          BY <1>1, <1>2, <3>1 DEF PageAfter
        <4> HIDE DEF new, s
        <4> QED
          BY <2>3, <2>4, <2>5, <3>1, <4>1, <4>2 DEF PageAfter
      <3>2. CASE w.sector # s
        <4>1. g.StatePageAddr[w.sector] = f.StatePageAddr[w.sector]
              /\ g.NextFreeWL[w.sector] = f.NextFreeWL[w.sector]
          BY <1>1, <2>2, <2>5, <3>2
        <4> QED
          BY <1>2, <4>1 DEF PageAfter
      <3> QED
        BY <3>1, <3>2
    <2> QED
      BY <1>2, <2>1, <2>2, <2>6 DEF StartLeft
  <1> QED
    BY <1>1, <1>3, <1>4

\* A step of the initialisation.
LEMMA DealtInitGC ==
  ASSUME WLs >= 6, NEW f, FaultInv(flash, f, NoJob), job = NoJob, InitGC(f),
         DealtWith(flash, failedWL, f)
  PROVE  DealtWith(flash, failedWL, fee')
  <1> DEFINE g == InitGCResult(f)
  <1>1. /\ FaultInv(flash, g, NoJob) /\ g.MainJob = "INITGC" /\ g.IntrJob = "IDLE"
        /\ f.MainJob = "INITGC"
    BY FaultInitResult DEF InitGC
  <1>2. \/ g.InitGCState = "INVALID" /\ Continue(InitGCFail(g))
        \/ g.InitGCState = "EMPTY" /\ PrepJob([g EXCEPT !.InitGCState = "PREPARE"])
        \/ g.InitGCState = "PREPARE" /\ PrepJob(g)
        \/ g.InitGCState = "DIRTY" /\ RepairJob(g)
        \/ g.InitGCState = "NORMAL" /\ Continue(Resume(g))
        \/ g.InitGCState \in {"COMPLETE", "FAIL"} /\ Continue(g)
    BY DEF InitGC
  <1>3. ASSUME NEW w \in failedWL PROVE StartLeft(flash, g, w) /\ w \in Addresses /\ IsWLBeginning(w.slot)
    <2>1. w \in Addresses /\ IsWLBeginning(w.slot) /\ StartLeft(flash, f, w)
      BY DEF DealtWith, WordlineLeft
    <2>2. CASE f.IntrJob = "IDLE"
      <3>1. g = f
        BY <2>2 DEF InitGCResult
      <3> QED
        BY <2>1, <3>1
    <2>3. CASE f.IntrJob # "IDLE"
      <3>1. f.InitGCState \in {"DIRTY", "PREPARE"}
        BY <1>1, <2>3, InitFacts
      <3> QED
        BY <1>1, <2>1, <2>3, <3>1, PrepLeftResult, RepairLeftResult
    <2> QED
      BY <2>1, <2>2, <2>3
  <1> HIDE DEF g
  <1>4. DOMAIN g = Fields /\ ~g.CacheUpdated
    BY <1>1, InitFacts
  <1>5. ASSUME NEW w \in failedWL PROVE StartLeft(flash, fee', w)
    <2>1. g.InitGCState \notin {"INVALID", "EMPTY"} /\ StartLeft(flash, g, w) /\ w \in Addresses
      BY <1>3, <1>4 DEF StartLeft
    <2>2. CASE g.InitGCState = "PREPARE" /\ PrepJob(g)
      <3>1. fee' = g \/ fee' = [g EXCEPT !.StateCount = NextCount(g)]
        BY <2>2 DEF PrepJob, Start
      <3>2. /\ fee'.CacheUpdated = g.CacheUpdated /\ fee'.InitGCState = g.InitGCState
            /\ fee'.PrepStep = g.PrepStep /\ fee'.PrepDest = g.PrepDest
            /\ fee'.StatePageAddr = g.StatePageAddr /\ fee'.NextFreeWL = g.NextFreeWL
            /\ fee'.IntrJob = g.IntrJob
        BY <1>4, <3>1 DEF Fields
      <3> QED
        BY <2>1, <3>2, StartLeftKept
    <2>3. CASE g.InitGCState = "DIRTY" /\ RepairJob(g)
      BY <1>1, <2>1, <2>3, RepairLeftJob
    <2>4. CASE g.InitGCState = "NORMAL" /\ Continue(Resume(g))
      <3> DEFINE h == Resume(g)
      <3>1. h.InitGCState = "COMPLETE" /\ h.StatePageAddr = g.StatePageAddr
            /\ h.NextFreeWL = g.NextFreeWL
        BY <1>4 DEF Resume, Fields
      <3>2. fee' = h
        BY <2>4 DEF Continue
      <3> HIDE DEF h
      <3>3. NoCopyIn(flash, w) /\ PageAfter(g, w)
        BY <1>4, <2>1, <2>4 DEF StartLeft
      <3>4. PageAfter(h, w)
        BY <3>1, <3>3 DEF PageAfter
      <3> QED
        BY <3>1, <3>2, <3>3, <3>4 DEF StartLeft
    <2>5. CASE g.InitGCState \in {"COMPLETE", "FAIL"} /\ Continue(g)
      BY <2>1, <2>5 DEF Continue
    <2> QED
      BY <1>2, <2>1, <2>2, <2>3, <2>4, <2>5
  <1>6. FaultInv(flash, fee', job')
    BY FaultInitGC
  <1>7. fee'.IntrJob = "IDLE" /\ ~fee'.CacheUpdated
    <2>1. \A st \in {g.InitGCState, "PREPARE"} :
            LET h == [g EXCEPT !.InitGCState = st]
            IN DOMAIN h = Fields /\ h.IntrJob = "IDLE" /\ ~h.CacheUpdated
      BY <1>1, <1>4 DEF Fields
    <2>2. ASSUME NEW h, DOMAIN h = Fields, h.IntrJob = "IDLE", ~h.CacheUpdated,
                 \/ h = fee' \/ PrepJob(h) \/ RepairJob(h)
          PROVE  fee'.IntrJob = "IDLE" /\ ~fee'.CacheUpdated
      BY <2>2 DEF PrepJob, RepairJob, Start, Fields
    <2>3. CASE g.InitGCState = "INVALID" /\ Continue(InitGCFail(g))
      BY <1>1, <1>4, <2>3 DEF InitGCFail, Continue, Fields
    <2>4. CASE g.InitGCState = "NORMAL" /\ Continue(Resume(g))
      BY <1>1, <1>4, <2>4 DEF Resume, Continue, Fields
    <2>5. CASE g.InitGCState = "EMPTY" /\ PrepJob([g EXCEPT !.InitGCState = "PREPARE"])
      BY <2>1, <2>2, <2>5
    <2> QED
      BY <1>1, <1>2, <1>4, <2>2, <2>3, <2>4, <2>5 DEF Continue
  <1>8. FirstFailure(fee') /\ RowInv(flash, fee')
    <2>1. fee'.UserJob = "IDLE" /\ fee'.GcState \notin {"START_COPY", "COPY_WRITE"}
      BY <1>6, <1>7 DEF FaultInv, UserFault, UserWrites, MainInv
    <2> QED
      BY <1>7, <2>1 DEF FirstFailure, RowInv
  <1>9. ASSUME NEW w \in failedWL PROVE WordlineLeft(flash, fee', w)
    BY <1>3, <1>5, <1>7 DEF WordlineLeft, CacheLeft
  <1> QED
    BY <1>8, <1>9 DEF DealtWith

-----------------------------------------------------------------------------
(* The cache. *)

\* The first free page follows the wordline: its page is older than the
\* sector's last wordline, or is that wordline.
LEMMA FirstPageBehind ==
  ASSUME InOrder(flash), NEW s \in Sectors, NEW free \in Nat, Unread(flash[s], free),
         NEW page \in Nat, NEW w \in Addresses, IsWLBeginning(w.slot),
         w.slot <= page, page + PerWL <= free, NEW a,
         \/ a = free
         \/ /\ a = Max({p \in free - PerWL .. free - 1 : flash[s][p] # Blank}) + 1
            /\ free - PerWL # page
  PROVE  Behind(w, a)
  <1> DEFINE l == free - PerWL
             S == {p \in l .. free - 1 : flash[s][p] # Blank}
  <1>1. /\ free >= PerWL /\ l \in Slots /\ IsWLBeginning(free) /\ flash[s][l] # Blank
        /\ PerWL \in Nat /\ PerWL > 0 /\ l \in Nat
    BY WordlineSize, SlotFacts DEF Unread, OpenWL
  <1>2. w.slot \in Nat
    BY AddressFacts, SlotFacts
  <1>3. CASE a = free
    BY <1>1, <1>2, <1>3 DEF Behind
  <1>4. CASE a = Max(S) + 1 /\ l # page
    <2>1. w.slot < l
      BY <1>1, <1>2, <1>4
    <2>2. NextWL(w.slot) = w.slot + PerWL /\ IsWLBeginning(w.slot + PerWL)
      BY <1>2, WordlineFacts
    <2>3. w.slot + PerWL < free /\ w.slot + PerWL \in Nat
      BY <1>1, <1>2, <2>1
    <2>4. NextWL(w.slot + PerWL) = w.slot + PerWL + PerWL
      BY <2>2, <2>3, WordlineFacts
    <2>5. NextWL(w.slot + PerWL) <= free
      BY <1>1, <2>3, WordlinesApart
    <2>6. w.slot + PerWL <= l
      BY <1>1, <1>2, <2>4, <2>5
    <2>7. l <= Max(S) /\ Max(S) \in Nat
      <3>1. l \in S /\ S \subseteq Nat
        BY <1>1
      <3>2. S \subseteq Slots
        <4>1. free <= WLs * PerWL
          <5> SUFFICES ASSUME free > WLs * PerWL PROVE FALSE
            BY <1>1, SlotFacts
          <5>1. NextWL(WLs * PerWL) <= free
            BY <1>1, SlotFacts, WordlinesApart
          <5>2. NextWL(WLs * PerWL) = WLs * PerWL + PerWL
            BY SlotFacts, WordlineSlots, WordlineFacts
          <5>3. l < WLs * PerWL /\ WLs * PerWL \in Nat
            BY <1>1, SlotFacts
          <5> QED
            BY <1>1, <5>1, <5>2, <5>3
        <4> QED
          BY <1>1, <4>1, SlotFacts
      <3> HIDE DEF S
      <3> QED
        BY <3>1, <3>2, GreatestElement
    <2> HIDE DEF S
    <2> QED
      BY <1>1, <1>2, <1>4, <2>6, <2>7 DEF Behind
  <1> QED
    BY <1>3, <1>4

\* The cache is built: no copy it finds is in the failed wordline.
LEMMA DealtUpdateCache ==
  ASSUME NEW f, FaultInv(flash, f, NoJob), ~f.CacheUpdated, job = NoJob, UpdateCache(f),
         DealtWith(flash, failedWL, f)
  PROVE  DealtWith(flash, failedWL, fee')
  <1> DEFINE s == f.CurrSector
             free == f.NextFreeWL[s]
  <1>1. /\ InOrder(flash) /\ FaultTypes(f) /\ MainInv(f, NoJob) /\ UserFault(flash, f, NoJob)
        /\ StartFault(flash, f, NoJob) /\ f.MainJob = "CACHEUPDATE"
    BY DEF FaultInv, UpdateCache
  <1>2. /\ f.InitGCState = "COMPLETE" /\ f.IntrJob = "IDLE" /\ f.GcState \in {"IDLE", "ERASE"}
        /\ Unread(flash[s], free)
    BY <1>1, FieldFacts DEF MainInv, StartFault, Cur, Quiet
  <1>3. /\ s \in Sectors /\ Other(s) \in Sectors /\ Other(s) # s /\ free \in Nat
        /\ DOMAIN f = Fields /\ f.StatePageAddr \in [Sectors -> Nat]
        /\ f.NextFreeWL \in [Sectors -> Nat]
    BY <1>1, FieldFacts, SlotFacts
  <1>4. PICK a : /\ \/ a = free
                    \/ /\ a = Max({p \in free - PerWL .. free - 1 : flash[s][p] # Blank}) + 1
                       /\ free - PerWL # f.StatePageAddr[s]
                 /\ fee' = [f EXCEPT !.CacheUpdated = TRUE, !.NextFreePage = a,
                                     !.Cache = CacheOf(flash, s)]
    BY DEF UpdateCache, Continue
  <1> DEFINE g == [f EXCEPT !.CacheUpdated = TRUE, !.NextFreePage = a,
                            !.Cache = CacheOf(flash, s)]
             X == {"CacheUpdated", "NextFreePage", "Cache"}
  <1>5. Same(f, g, X) /\ g.CacheUpdated /\ g.NextFreePage = a /\ g.Cache = CacheOf(flash, s)
    BY <1>3 DEF Same, Fields
  <1> HIDE DEF g
  <1>6. /\ g.CurrSector = s /\ g.GcState = f.GcState /\ g.IntrJob = f.IntrJob
        /\ g.IntrJobFailCount = f.IntrJobFailCount /\ g.RepairStep = f.RepairStep
        /\ g.UserJob = f.UserJob /\ g.NextFreeWL = f.NextFreeWL
    BY <1>5 DEF Same, Fields
  <1>7. f.UserJob = "IDLE"
    BY <1>1 DEF UserFault, UserWrites
  <1>8. FirstFailure(g) /\ RowInv(flash, g)
    BY <1>2, <1>6, <1>7 DEF FirstFailure, RowInv
  <1>9. ASSUME NEW w \in failedWL PROVE WordlineLeft(flash, g, w)
    <2>1. w \in Addresses /\ IsWLBeginning(w.slot) /\ StartLeft(flash, f, w)
      BY DEF DealtWith, WordlineLeft
    <2>2. NoCopyIn(flash, w) /\ PageAfter(f, w)
      BY <1>2, <2>1 DEF StartLeft
    <2>3. w.sector \in Sectors /\ w.slot \in Nat /\ (w.sector = s \/ w.sector = Other(s))
      BY <1>3, <2>1, AddressFacts, SlotFacts
    <2>4. CASE w.sector = s
      <3>1. Behind(w, a)
        <4>1. w.slot <= f.StatePageAddr[s] /\ f.StatePageAddr[s] + PerWL <= free
          BY <2>2, <2>4 DEF PageAfter
        <4>2. f.StatePageAddr[s] \in Nat
          BY <1>3
        <4> DEFINE page == f.StatePageAddr[s]
        <4>3. \/ a = free
              \/ /\ a = Max({p \in free - PerWL .. free - 1 : flash[s][p] # Blank}) + 1
                 /\ free - PerWL # page
          BY <1>4
        <4>4. page \in Nat /\ w.slot <= page /\ page + PerWL <= free
          BY <4>1, <4>2
        <4> HIDE DEF s, free, page
        <4> QED
          BY <1>1, <1>2, <1>3, <2>1, <4>3, <4>4, FirstPageBehind
      <3>2. Left(g, w)
        <4> SUFFICES ASSUME NEW b \in Blocks, Within(g.Cache[b], w) PROVE FALSE
          BY DEF Left
        <4> DEFINE x == CacheOf(flash, s)[b]
        <4>1. x \in Addresses \cup {NoAddr} /\ (x # NoAddr => x.sector = s /\ LatestIs(flash[s], b, x.slot))
          BY <1>1, <1>3, FaultCacheOf
        <4>2. g.Cache[b] = x
          BY <1>5
        <4> HIDE DEF x, s
        <4>3. x # NoAddr /\ x.slot \in Slots /\ WLBeginning(x.slot) = w.slot
          BY <2>1, <4>1, <4>2, WithinSlot
        <4>4. flash[s][x.slot].kind = "copy"
          BY <4>1, <4>3 DEF LatestIs, CopiesOf
        <4> QED
          BY <2>2, <2>4, <4>3, <4>4 DEF NoCopyIn
      <3>3. UserLeft(g, w)
        BY <1>5, <3>1, <3>2 DEF UserLeft
      <3>4. g.GcState # "COPY_WRITE"
        BY <1>2, <1>6
      <3> QED
        BY <1>5, <1>6, <2>1, <2>4, <3>3, <3>4 DEF WordlineLeft, StartLeft, CacheLeft, Cur
    <2>5. CASE w.sector = Other(s)
      <3>1. Oth(g) = w.sector /\ Cur(g) # w.sector
        BY <1>3, <1>6, <2>5 DEF Oth, Cur
      <3>2. Behind(w, g.NextFreeWL[Oth(g)])
        <4>1. f.StatePageAddr[w.sector] \in Nat /\ f.NextFreeWL[w.sector] \in Nat
          BY <1>3, <2>3
        <4>2. w.slot <= f.StatePageAddr[w.sector]
              /\ f.StatePageAddr[w.sector] + PerWL <= f.NextFreeWL[w.sector]
          BY <2>2 DEF PageAfter
        <4>3. w.slot + PerWL <= f.NextFreeWL[w.sector]
          <5>1. PerWL \in Nat
            BY WordlineSize
          <5> QED
            BY <2>3, <4>1, <4>2, <5>1
        <4> QED
          BY <1>6, <3>1, <4>3 DEF Behind
      <3>3. GcLeft(g, w)
        BY <1>2, <1>6, <3>2 DEF GcLeft, Copying
      <3> QED
        BY <1>5, <2>1, <3>1, <3>3 DEF WordlineLeft, StartLeft, CacheLeft
    <2> QED
      BY <2>3, <2>4, <2>5
  <1>10. DealtWith(flash, failedWL, g)
    BY <1>8, <1>9 DEF DealtWith
  <1> QED
    BY <1>4, <1>10 DEF g

-----------------------------------------------------------------------------
(* Writes. *)

\* What a step of a write has to show: that the wordlines of the current sector
\* are dealt with.
LEMMA DealtWriteFrame ==
  ASSUME NEW f, FaultInv(flash, f, NoJob), DealtWith(flash, failedWL, f),
         f.MainJob = "WRITE", f.CacheUpdated, NEW g, FaultTypes(g), NEW X, Same(f, g, X),
         X \subseteq {"Req", "Affected", "UserJob", "NextFreePage", "UserJobFailCount",
                      "Cache", "Copied", "BlkModified", "MainJob"},
         g.UserJob = "IDLE",
         \A b \in Blocks : \/ g.Cache[b] = f.Cache[b]
                           \/ g.Cache[b] # NoAddr /\ g.Cache[b].sector = Cur(f),
         \A w \in Addresses : IsWLBeginning(w.slot) /\ w.sector = Cur(f) /\ UserLeft(f, w)
                                => UserLeft(g, w)
  PROVE  DealtWith(flash, failedWL, g)
  <1>1. /\ FaultTypes(f) /\ MainInv(f, NoJob) /\ CacheFault(flash, f)
    BY DEF FaultInv
  <1>2. /\ g.InitGCState = f.InitGCState /\ g.RepairStep = f.RepairStep /\ g.PrepStep = f.PrepStep
        /\ g.PrepDest = f.PrepDest /\ g.CurrSector = f.CurrSector /\ g.GcState = f.GcState
        /\ g.StatePageAddr = f.StatePageAddr /\ g.NextFreeWL = f.NextFreeWL
        /\ g.CacheUpdated = f.CacheUpdated /\ g.GcDest = f.GcDest
        /\ g.GcSrcAddr = f.GcSrcAddr /\ g.IntrJob = f.IntrJob
        /\ g.IntrJobFailCount = f.IntrJobFailCount
    <2> DEFINE K == {"InitGCState", "RepairStep", "PrepStep", "PrepDest", "CurrSector", "GcState",
                     "StatePageAddr", "NextFreeWL", "CacheUpdated", "GcDest", "GcSrcAddr",
                     "IntrJob", "IntrJobFailCount"}
    <2>1. K \subseteq Fields \ X
      BY DEF Fields
    <2>2. \A x \in K : g[x] = f[x]
      <3> HIDE DEF K
      <3> QED
        BY <2>1 DEF Same
    <2> QED
      BY <2>2
  <1>3. Cur(g) = Cur(f) /\ Oth(g) = Oth(f)
    BY <1>2 DEF Cur, Oth
  <1>4. FirstFailure(f) /\ RowInv(flash, f) /\ \A w \in failedWL : WordlineLeft(flash, f, w)
    BY DEF DealtWith
  <1>5. FirstFailure(g)
    BY <1>2, <1>4 DEF FirstFailure
  <1>6. RowInv(flash, g)
    <2>1. f.CacheUpdated \/ f.GcState \notin {"START_COPY", "COPY_WRITE"}
      OBVIOUS
    <2>2. g.GcState \in {"START_COPY", "COPY_WRITE"} =>
            /\ f.GcState \in {"START_COPY", "COPY_WRITE"}
            /\ g.CurrSector = f.CurrSector /\ g.GcDest = f.GcDest /\ g.GcSrcAddr = f.GcSrcAddr
            /\ \A b \in Blocks : \/ g.Cache[b] = f.Cache[b] \/ g.Cache[b] = NoAddr
                                 \/ g.Cache[b].sector = Cur(f)
            /\ \A p \in Slots : flash[Cur(f)][p].kind = "copy" => flash[Cur(f)][p] = flash[Cur(f)][p]
      BY <1>2
    <2> QED
      BY <1>1, <1>4, <2>1, <2>2, RowKept
  <1>7. ASSUME NEW w \in failedWL PROVE WordlineLeft(flash, g, w)
    <2>1. w \in Addresses /\ IsWLBeginning(w.slot) /\ CacheLeft(f, w)
      BY <1>4 DEF WordlineLeft
    <2>2. StartLeft(flash, g, w)
      BY <1>2 DEF StartLeft
    <2>3. ASSUME w.sector = Cur(f), g.GcState # "FAIL" PROVE CacheLeft(g, w)
      BY <1>2, <1>3, <2>1, <2>3 DEF CacheLeft
    <2>4. ASSUME w.sector # Cur(f), g.GcState # "FAIL" PROVE CacheLeft(g, w)
      <3>1. GcLeft(f, w)
        BY <1>2, <2>1, <2>4 DEF CacheLeft
      <3>2. Left(f, w) => Left(g, w)
        <4> SUFFICES ASSUME Left(f, w), NEW b \in Blocks, Within(g.Cache[b], w) PROVE FALSE
          BY DEF Left
        <4>1. g.Cache[b] \in Addresses \cup {NoAddr}
          BY FieldFacts
        <4>2. g.Cache[b].sector = w.sector
          BY <2>1, <4>1, WithinSlot
        <4>3. g.Cache[b] = f.Cache[b]
          BY <2>4, <4>2
        <4> QED
          BY <4>3 DEF Left
      <3>3. GcLeft(g, w)
        BY <1>2, <1>3, <3>1, <3>2 DEF GcLeft
      <3> QED
        BY <1>3, <2>4, <3>3 DEF CacheLeft
    <2>5. CacheLeft(g, w)
      BY <2>3, <2>4 DEF CacheLeft
    <2> QED
      BY <2>1, <2>2, <2>5 DEF WordlineLeft
  <1> QED
    BY <1>5, <1>6, <1>7 DEF DealtWith

\* The next copy of the wordline is written again, or the user's copy anew.
LEMMA RecopyLeft ==
  ASSUME NEW m, FaultTypes(m), m.Req \in Requests, NEW a \in Slots, NEW from \in Nat,
         WLBeginning(a) <= from, RecopyFrom(m, a, from)
  PROVE  /\ Same(m, fee', {"Affected", "Req"})
         /\ \A w \in Addresses :
              /\ w.sector = Cur(m) /\ Behind(w, m.NextFreePage)
              /\ \/ Left(m, w)
                 \/ /\ w.slot = WLBeginning(a)
                    /\ \A b \in Blocks : Within(m.Cache[b], w) => m.Cache[b].slot >= from
              => UserLeft(fee', w)
  <1> DEFINE S == LatestIn(m, a, from)
             p == Min(S)
  <1>1. DOMAIN m = Fields /\ m.Cache \in [Blocks -> Addresses \cup {NoAddr}] /\ m.NextFreePage \in Nat
    BY FieldFacts
  <1>2. /\ \A x \in S : x \in Nat
        /\ NextWL(a) = WLBeginning(a) + PerWL /\ NextWL(a) \in Nat
    <2>1. a \in Nat
      BY SlotFacts
    <2> QED
      BY <2>1, WordlineFacts DEF LatestIn
  <1>3. ASSUME NEW w \in Addresses, w.sector = Cur(m), w.slot = WLBeginning(a), NEW b \in Blocks,
               Within(m.Cache[b], w), m.Cache[b].slot >= from
        PROVE  m.Cache[b].slot \in S
    <2>1. /\ m.Cache[b] \in Addresses /\ m.Cache[b].sector = Cur(m) /\ m.Cache[b].slot \in Nat
          /\ m.Cache[b].slot < w.slot + PerWL
      <3>1. m.Cache[b] \in Addresses \cup {NoAddr}
        BY <1>1
      <3> QED
        BY <1>3, <3>1, WithinSlot
    <2>2. m.Cache[b] = At(m.CurrSector, m.Cache[b].slot)
      BY <2>1, AddressFacts DEF Cur
    <2>3. m.Cache[b].slot \in from .. NextWL(a) - 1
      BY <1>2, <1>3, <2>1
    <2> QED
      BY <2>2, <2>3 DEF LatestIn
  <1>4. CASE S = {}
    <2>1. fee' = [m EXCEPT !.Req.stage = "request"]
      BY <1>4 DEF RecopyFrom, Continue
    <2>2. Same(m, fee', {"Affected", "Req"}) /\ fee'.Cache = m.Cache /\ fee'.NextFreePage = m.NextFreePage
      BY <1>1, <2>1 DEF Same, Fields
    <2>3. ASSUME NEW w \in Addresses, w.sector = Cur(m), Behind(w, m.NextFreePage),
                 \/ Left(m, w)
                 \/ /\ w.slot = WLBeginning(a)
                    /\ \A b \in Blocks : Within(m.Cache[b], w) => m.Cache[b].slot >= from
          PROVE  UserLeft(fee', w)
      <3>1. Left(m, w)
        <4> HIDE DEF S
        <4> QED
          BY <1>3, <1>4, <2>3 DEF Left
      <3> QED
        BY <2>2, <2>3, <3>1 DEF UserLeft, Left
    <2> QED
      BY <2>2, <2>3
  <1>5. CASE S # {}
    <2>1. fee' = [m EXCEPT !.Affected = p, !.Req.stage = "recopy"]
      BY <1>5 DEF RecopyFrom, Recopy, Start
    <2>2. p \in Slots /\ WLBeginning(p) = WLBeginning(a)
      BY <1>5, LatestInFacts
    <2>3. \A x \in S : p <= x
      <3> HIDE DEF S
      <3>1. S \subseteq Nat
        BY <1>2
      <3> QED
        BY <1>5, <3>1, LeastElement DEF Min
    <2>4. [m.Req EXCEPT !.stage = "recopy"].stage = "recopy" /\ [m.Req EXCEPT !.stage = "recopy"] # NoReq
      BY RequestFacts
    <2> DEFINE r == [m.Req EXCEPT !.stage = "recopy"]
    <2>5. fee' = [m EXCEPT !.Affected = p, !.Req = r]
      BY <2>1
    <2> HIDE DEF p, S, r
    <2>6. Same(m, fee', {"Affected", "Req"}) /\ fee'.Cache = m.Cache /\ fee'.NextFreePage = m.NextFreePage
          /\ fee'.Affected = p /\ fee'.Req = r
      BY <1>1, <2>5 DEF Same, Fields
    <2>7. Stage(fee', "recopy")
      BY <2>4, <2>6 DEF Stage, r
    <2>8. ASSUME NEW w \in Addresses, w.sector = Cur(m), Behind(w, m.NextFreePage),
                 \/ Left(m, w)
                 \/ /\ w.slot = WLBeginning(a)
                    /\ \A b \in Blocks : Within(m.Cache[b], w) => m.Cache[b].slot >= from
          PROVE  UserLeft(fee', w)
      <3>1. CASE Left(m, w)
        BY <2>6, <2>8, <3>1 DEF UserLeft, Left
      <3>2. CASE /\ w.slot = WLBeginning(a)
                 /\ \A b \in Blocks : Within(m.Cache[b], w) => m.Cache[b].slot >= from
        <4>1. \A b \in Blocks : Within(m.Cache[b], w) => m.Cache[b].slot >= p
          <5> SUFFICES ASSUME NEW b \in Blocks, Within(m.Cache[b], w) PROVE m.Cache[b].slot >= p
            OBVIOUS
          <5>1. m.Cache[b].slot \in S
            BY <1>3, <2>8, <3>2
          <5> QED
            BY <1>2, <2>2, <2>3, <5>1, SlotFacts
        <4>2. w.slot = WLBeginning(fee'.Affected)
          BY <2>2, <2>6, <3>2
        <4> QED
          BY <2>6, <2>7, <4>1, <4>2 DEF UserLeft
      <3> QED
        BY <2>8, <3>1, <3>2
    <2> QED
      BY <2>6, <2>8
  <1> QED
    BY <1>4, <1>5

\* A copy behind the wordline is not in it.
LEMMA BehindNotWithin ==
  ASSUME NEW w \in Addresses, IsWLBeginning(w.slot), NEW s \in Sectors, NEW d \in Slots, Behind(w, d)
  PROVE  ~Within(At(s, d), w)
  <1> SUFFICES ASSUME Within(At(s, d), w) PROVE FALSE
    OBVIOUS
  <1>1. At(s, d) \in Addresses /\ At(s, d).slot = d
    BY AddressFacts
  <1>2. d < w.slot + PerWL /\ d \in Nat /\ w.slot \in Nat
    BY <1>1, WithinSlot
  <1> QED
    BY <1>2, WordlineSize DEF Behind

\* A programmed copy is taken over, or its failure is handled.
LEMMA DealtWriteDone ==
  ASSUME NEW f, FaultInv(flash, f, NoJob), DealtWith(flash, failedWL, f),
         Stage(f, "compare"), f.UserJob = "PASS",
         NEW h, Same(f, h, {"UserJob"}), h.UserJob = "IDLE", fee' = WriteDone(h)
  PROVE  DealtWith(flash, failedWL, fee')
  <1> DEFINE b == f.Req.blk
             d == f.NextFreePage
             g == WriteDone(h)
             X == {"Req", "NextFreePage", "Cache", "MainJob", "Copied", "BlkModified",
                   "UserJobFailCount", "UserJob"}
  <1>1. /\ FaultTypes(f) /\ UserFault(flash, f, NoJob) /\ f.Req # NoReq
    BY DEF FaultInv, Stage
  <1>2. /\ f.MainJob = "WRITE" /\ f.CacheUpdated /\ d \in Slots /\ d \in Nat /\ Cur(f) \in Sectors
        /\ f.Cache \in [Blocks -> Addresses \cup {NoAddr}] /\ f.Req \in Requests
    BY <1>1, FieldFacts DEF UserFault
  <1>3. FaultTypes(h)
    <2> DEFINE Z == {"UserJob"}
    <2>1. \A x \in Fields \ Z : h[x] = f[x]
      BY DEF Same
    <2>2. \A x \in Z : x \in DOMAIN FieldTypes => h[x] \in FieldTypes[x]
      BY DEF FieldTypes
    <2>3. DOMAIN h = Fields
      BY DEF Same
    <2> HIDE DEF Z
    <2> QED
      BY <1>1, <2>1, <2>2, <2>3, TypesKept
  <1>4. /\ h.Req = f.Req /\ h.NextFreePage = d /\ h.Cache = f.Cache /\ Cur(h) = Cur(f)
    BY DEF Same, Fields, Cur
  <1>5. /\ FaultTypes(g) /\ g.NextFreePage = d + 1 /\ g.Cache = [f.Cache EXCEPT ![b] = At(Cur(f), d)]
        /\ Same(h, g, {"Req", "NextFreePage", "Cache", "MainJob", "Copied", "BlkModified",
                       "UserJobFailCount"})
    <2>1. h.Req # NoReq /\ h.NextFreePage \in Slots
      BY <1>1, <1>2, <1>4
    <2>2. /\ FaultTypes(g) /\ g.NextFreePage = h.NextFreePage + 1
          /\ g.Cache = [h.Cache EXCEPT ![h.Req.blk] = At(Cur(h), h.NextFreePage)]
          /\ Same(h, g, {"Req", "NextFreePage", "Cache", "MainJob", "Copied", "BlkModified",
                         "UserJobFailCount"})
      BY <1>3, <2>1, FaultDoneFields
    <2> HIDE DEF g, d
    <2> QED
      BY <1>4, <2>2
  <1> HIDE DEF g
  <1>6. Same(f, g, X) /\ g.UserJob = "IDLE"
    BY <1>5 DEF Same, Fields
  <1>7. At(Cur(f), d) # NoAddr /\ At(Cur(f), d).sector = Cur(f)
    BY <1>2, AddressFacts
  <1>8. \A x \in Blocks : \/ g.Cache[x] = f.Cache[x]
                          \/ g.Cache[x] # NoAddr /\ g.Cache[x].sector = Cur(f)
    <2> HIDE DEF b, d
    <2> QED
      BY <1>2, <1>5, <1>7
  <1>9. ASSUME NEW w \in Addresses, IsWLBeginning(w.slot), w.sector = Cur(f), UserLeft(f, w)
        PROVE  UserLeft(g, w)
    <2>1. Left(f, w) /\ Behind(w, d)
      BY <1>9 DEF UserLeft, Stage
    <2>2. Behind(w, d + 1)
      BY <1>2, <2>1, BehindLater
    <2>3. ~Within(At(Cur(f), d), w)
      BY <1>2, <1>9, <2>1, BehindNotWithin
    <2>4. Left(g, w)
      <3> HIDE DEF b, d
      <3> QED
        BY <1>2, <1>5, <2>1, <2>3 DEF Left
    <2> QED
      BY <1>5, <2>2, <2>4 DEF UserLeft
  <1>10. X \subseteq {"Req", "Affected", "UserJob", "NextFreePage", "UserJobFailCount",
                      "Cache", "Copied", "BlkModified", "MainJob"}
    OBVIOUS
  <1> HIDE DEF X
  <1> QED
    BY <1>2, <1>5, <1>6, <1>8, <1>9, <1>10, DealtWriteFrame DEF g

\* The first failure of a write: its wordline's copies are written again.
LEMMA DealtWriteFailed ==
  ASSUME NEW f, FaultInv(flash, f, NoJob), DealtWith(flash, failedWL, f),
         Stage(f, "compare"), f.UserJob # "PASS", job = NoJob,
         NEW h, Same(f, h, {"UserJob"}), h.UserJob = "IDLE", WriteCompare(h, FALSE)
  PROVE  DealtWith(flash, failedWL, fee')
  <1> DEFINE d == f.NextFreePage
             m == [h EXCEPT !.NextFreePage = NextWL(d) + PerWL, !.UserJobFailCount = 1]
             X == {"UserJob", "NextFreePage", "UserJobFailCount"}
             Y == {"UserJob", "NextFreePage", "UserJobFailCount", "Affected", "Req"}
  <1>1. /\ FaultTypes(f) /\ UserFault(flash, f, NoJob) /\ f.Req # NoReq
    BY DEF FaultInv, Stage
  <1>2. /\ f.MainJob = "WRITE" /\ f.CacheUpdated /\ d \in Slots /\ d \in Nat /\ Cur(f) \in Sectors
        /\ f.Cache \in [Blocks -> Addresses \cup {NoAddr}] /\ f.Req \in Requests
    BY <1>1, FieldFacts DEF UserFault
  <1>3. f.UserJob = "FAIL" /\ f.UserJobFailCount = 0
    <2>1. \A c : ~Programming(flash, NoJob, "user", Cur(f), d, c)
      BY DEF Programming, Programs, IsJob
    <2>2. f.UserJob = "FAIL"
      BY <1>1, <2>1 DEF UserFault, Ended
    <2> QED
      BY <2>2 DEF DealtWith, FirstFailure
  <1>4. NextWL(d) \in Nat /\ NextWL(d) = WLBeginning(d) + PerWL /\ d < NextWL(d)
        /\ WLBeginning(d) \in Nat /\ WLBeginning(d) <= d /\ PerWL \in Nat /\ PerWL > 0
    BY <1>2, WordlineFacts, WordlineSize
  <1>5. RecopyFrom(m, d, WLBeginning(d))
    <2>1. h.UserJobFailCount = 0 /\ h.NextFreePage = d
      BY <1>3 DEF Same, Fields
    <2> QED
      BY <2>1 DEF WriteCompare
  <1>6. /\ DOMAIN m = Fields /\ m.NextFreePage = NextWL(d) + PerWL /\ m.UserJobFailCount = 1
        /\ m.UserJob = "IDLE" /\ \A x \in Fields \ X : m[x] = f[x]
    BY DEF Same, Fields
  <1> HIDE DEF m
  <1>7. FaultTypes(m)
    <2>1. \A x \in X : x \in DOMAIN FieldTypes => m[x] \in FieldTypes[x]
      BY <1>4, <1>6 DEF FieldTypes
    <2> HIDE DEF X
    <2> QED
      BY <1>1, <1>6, <2>1, TypesKept
  <1>8. m.Req = f.Req /\ m.Cache = f.Cache /\ Cur(m) = Cur(f)
    BY <1>6 DEF Fields, Cur
  <1>9. /\ Same(m, fee', {"Affected", "Req"})
        /\ \A w \in Addresses :
             /\ w.sector = Cur(m) /\ Behind(w, m.NextFreePage)
             /\ \/ Left(m, w)
                \/ /\ w.slot = WLBeginning(d)
                   /\ \A b \in Blocks : Within(m.Cache[b], w) => m.Cache[b].slot >= WLBeginning(d)
             => UserLeft(fee', w)
    <2>1. m.Req \in Requests /\ WLBeginning(d) <= WLBeginning(d)
      BY <1>2, <1>4, <1>8
    <2> HIDE DEF d
    <2> QED
      BY <1>2, <1>4, <1>5, <1>7, <2>1, RecopyLeft
  <1>10. Same(f, fee', Y) /\ fee'.UserJob = "IDLE" /\ fee'.Cache = f.Cache
    BY <1>6, <1>8, <1>9 DEF Same, Fields
  <1>11. FaultTypes(fee')
    <2>1. FaultInv(flash, fee', job')
      BY FaultWriteFailed
    <2> QED
      BY <2>1 DEF FaultInv
  <1>12. ASSUME NEW w \in Addresses, IsWLBeginning(w.slot), w.sector = Cur(f), UserLeft(f, w)
         PROVE  UserLeft(fee', w)
    <2>1. w.slot \in Nat
      BY AddressFacts, SlotFacts
    <2>2. CASE w.slot = WLBeginning(d)
      <3>1. Behind(w, m.NextFreePage)
        BY <1>4, <1>6, <2>1, <2>2 DEF Behind
      <3>2. \A b \in Blocks : Within(m.Cache[b], w) => m.Cache[b].slot >= WLBeginning(d)
        <4> SUFFICES ASSUME NEW b \in Blocks, Within(m.Cache[b], w) PROVE m.Cache[b].slot >= w.slot
          BY <2>2
        <4>1. m.Cache[b] \in Addresses \cup {NoAddr}
          BY <1>2, <1>8
        <4> QED
          BY <4>1, WithinSlot
      <3> QED
        BY <1>8, <1>9, <1>12, <2>2, <3>1, <3>2
    <2>3. CASE Left(f, w) /\ Behind(w, d)
      <3>1. Left(m, w)
        BY <1>8, <2>3 DEF Left
      <3>2. Behind(w, m.NextFreePage)
        <4>1. m.NextFreePage \in Nat /\ d <= m.NextFreePage
          BY <1>2, <1>4, <1>6
        <4> QED
          BY <1>2, <2>3, <4>1, BehindLater
      <3> QED
        BY <1>8, <1>9, <1>12, <3>1, <3>2
    <2> QED
      BY <1>12, <2>2, <2>3 DEF UserLeft, Stage
  <1>13. /\ Y \subseteq {"Req", "Affected", "UserJob", "NextFreePage", "UserJobFailCount",
                         "Cache", "Copied", "BlkModified", "MainJob"}
         /\ \A b \in Blocks : \/ fee'.Cache[b] = f.Cache[b]
                              \/ fee'.Cache[b] # NoAddr /\ fee'.Cache[b].sector = Cur(f)
    BY <1>10
  <1> HIDE DEF Y
  <1> QED
    BY <1>2, <1>10, <1>11, <1>12, <1>13, DealtWriteFrame

\* A copy has been written again.
LEMMA DealtRecopied ==
  ASSUME NEW f, FaultInv(flash, f, NoJob), DealtWith(flash, failedWL, f),
         Stage(f, "recopy"), job = NoJob,
         NEW h, Same(f, h, {"UserJob"}), h.UserJob = "IDLE",
         RecopyCompare(h, f.UserJob = "PASS")
  PROVE  DealtWith(flash, failedWL, fee')
  <1> DEFINE d == f.NextFreePage
             a == f.Affected
             s == Cur(f)
             b == flash[s][a].blk
             m == Cached(h, b)
             X == {"UserJob", "NextFreePage", "Cache"}
             Y == {"UserJob", "NextFreePage", "Cache", "Affected", "Req"}
  <1>1. /\ FaultTypes(f) /\ UserFault(flash, f, NoJob) /\ f.Req # NoReq /\ InOrder(flash)
        /\ CacheFault(flash, f)
    BY DEF FaultInv, Stage
  <1>2. /\ f.MainJob = "WRITE" /\ f.CacheUpdated /\ d \in Nat /\ s \in Sectors
        /\ f.Cache \in [Blocks -> Addresses \cup {NoAddr}] /\ f.Req \in Requests
        /\ a \in Slots /\ a \in Nat /\ d >= RetryBase(a) /\ flash[s][a].kind = "copy"
        /\ f.Cache[b] = At(s, a)
    BY <1>1, FieldFacts, SlotFacts DEF UserFault
  <1>3. f.UserJob = "PASS" /\ d \in Slots
    <2>1. \A c : ~Programming(flash, NoJob, "user", s, d, c)
      BY DEF Programming, Programs, IsJob
    <2>2. Ended(flash, f.UserJob, s, d, flash[s][a])
      BY <1>1, <2>1 DEF UserFault
    <2>3. f.UserJob # "FAIL"
      BY DEF DealtWith, FirstFailure
    <2> QED
      BY <2>2, <2>3 DEF Ended
  <1>4. NextWL(a) \in Nat /\ NextWL(a) = WLBeginning(a) + PerWL /\ a < NextWL(a)
        /\ WLBeginning(a) \in Nat /\ WLBeginning(a) <= a /\ PerWL \in Nat /\ PerWL > 0
        /\ RetryBase(a) = NextWL(a) + PerWL
    BY <1>2, WordlineFacts, WordlineSize DEF RetryBase
  <1>5. RecopyFrom(m, a, a + 1)
    <2>1. h.Affected = a /\ h.CurrSector = s
      BY DEF Same, Fields, Cur
    <2> QED
      BY <1>3, <2>1 DEF RecopyCompare
  <1>6. /\ DOMAIN m = Fields /\ m.NextFreePage = d + 1 /\ m.UserJob = "IDLE"
        /\ m.Cache = [f.Cache EXCEPT ![b] = At(s, d)] /\ \A x \in Fields \ X : m[x] = f[x]
    BY DEF Same, Cached, Fields, Cur
  <1> HIDE DEF m
  <1>7. At(s, d) \in Addresses /\ At(s, d) # NoAddr /\ At(s, d).sector = s
        /\ At(s, a).slot = a
    BY <1>2, <1>3, AddressFacts
  <1>8. m.Cache \in [Blocks -> Addresses \cup {NoAddr}]
    <2> HIDE DEF b, s, d
    <2> QED
      BY <1>2, <1>6, <1>7
  <1>9. FaultTypes(m)
    <2>1. \A x \in X : x \in DOMAIN FieldTypes => m[x] \in FieldTypes[x]
      <3>1. m.NextFreePage \in Nat
        BY <1>2, <1>6
      <3> QED
        BY <1>6, <1>8, <3>1 DEF FieldTypes
    <2> HIDE DEF X
    <2> QED
      BY <1>1, <1>6, <2>1, TypesKept
  <1>10. m.Req = f.Req /\ Cur(m) = s
    BY <1>6 DEF Fields, Cur
  <1> DEFINE n == a + 1
  <1>11. /\ Same(m, fee', {"Affected", "Req"})
         /\ \A w \in Addresses :
              /\ w.sector = Cur(m) /\ Behind(w, m.NextFreePage)
              /\ \/ Left(m, w)
                 \/ /\ w.slot = WLBeginning(a)
                    /\ \A x \in Blocks : Within(m.Cache[x], w) => m.Cache[x].slot >= n
              => UserLeft(fee', w)
    <2>1. m.Req \in Requests /\ n \in Nat /\ WLBeginning(a) <= n /\ a \in Slots
      BY <1>2, <1>4, <1>10
    <2>2. RecopyFrom(m, a, n)
      BY <1>5
    <2> HIDE DEF a, n
    <2> QED
      BY <1>9, <2>1, <2>2, RecopyLeft
  <1>12. Same(f, fee', Y) /\ fee'.UserJob = "IDLE" /\ fee'.Cache = m.Cache
    BY <1>6, <1>11 DEF Same, Fields
  <1>13. FaultTypes(fee')
    <2>1. FaultInv(flash, fee', job')
      BY FaultRecopied
    <2> QED
      BY <2>1 DEF FaultInv
  <1>14. ASSUME NEW w \in Addresses, IsWLBeginning(w.slot), w.sector = Cur(f), UserLeft(f, w)
         PROVE  UserLeft(fee', w)
    <2>1. w.slot \in Nat
      BY AddressFacts, SlotFacts
    <2>2. CASE w.slot = WLBeginning(a) /\ \A x \in Blocks : Within(f.Cache[x], w) => f.Cache[x].slot >= a
      <3>1. Behind(w, d) /\ Behind(w, m.NextFreePage)
        BY <1>2, <1>4, <1>6, <2>1, <2>2 DEF Behind
      <3>2. ~Within(At(s, d), w)
        BY <1>2, <1>3, <1>14, <3>1, BehindNotWithin
      <3>3. ASSUME NEW x \in Blocks, Within(m.Cache[x], w) PROVE m.Cache[x].slot >= n
        <4>1. x # b /\ m.Cache[x] = f.Cache[x]
          <5> HIDE DEF b, s, d
          <5> QED
            BY <1>2, <1>6, <3>2, <3>3
        <4>2. f.Cache[x] \in Addresses /\ f.Cache[x] # NoAddr /\ f.Cache[x].sector = s
              /\ f.Cache[x].slot \in Nat /\ f.Cache[x].slot >= a
          <5>1. f.Cache[x] \in Addresses \cup {NoAddr}
            BY <1>2
          <5> QED
            BY <1>14, <2>2, <3>3, <4>1, <5>1, WithinSlot
        <4>3. f.Cache[x].slot # a
          <5>1. flash[f.Cache[x].sector][f.Cache[x].slot].blk = x
            BY <1>1, <1>2, <4>2 DEF CacheFault
          <5> QED
            BY <4>1, <4>2, <5>1
        <4> QED
          BY <1>2, <4>1, <4>2, <4>3
      <3> QED
        BY <1>10, <1>11, <1>14, <2>2, <3>1, <3>3
    <2>3. CASE Left(f, w) /\ Behind(w, d)
      <3>1. ~Within(At(s, d), w)
        BY <1>2, <1>3, <1>14, <2>3, BehindNotWithin
      <3>2. Left(m, w)
        <4> HIDE DEF b, s, d
        <4> QED
          BY <1>2, <1>6, <2>3, <3>1 DEF Left
      <3>3. Behind(w, m.NextFreePage)
        BY <1>2, <1>4, <1>6, <2>1, <2>3 DEF Behind
      <3> QED
        BY <1>10, <1>11, <1>14, <3>2, <3>3
    <2> QED
      BY <1>14, <2>2, <2>3 DEF UserLeft, Stage
  <1>15. /\ Y \subseteq {"Req", "Affected", "UserJob", "NextFreePage", "UserJobFailCount",
                         "Cache", "Copied", "BlkModified", "MainJob"}
         /\ \A x \in Blocks : \/ fee'.Cache[x] = f.Cache[x]
                              \/ fee'.Cache[x] # NoAddr /\ fee'.Cache[x].sector = Cur(f)
    <2>1. \A x \in Blocks : \/ m.Cache[x] = f.Cache[x]
                            \/ m.Cache[x] # NoAddr /\ m.Cache[x].sector = Cur(f)
      <3>1. At(s, d).sector = Cur(f)
        BY <1>7
      <3> HIDE DEF b, s, d
      <3> QED
        BY <1>2, <1>6, <1>7, <3>1
    <2> QED
      BY <1>12, <2>1
  <1> HIDE DEF Y
  <1> QED
    BY <1>2, <1>12, <1>13, <1>14, <1>15, DealtWriteFrame

\* Any step of a write.
LEMMA DealtLocalWrite ==
  ASSUME NEW f, FaultInv(flash, f, NoJob), f.Req # NoReq, job = NoJob, LocalWrite(f),
         DealtWith(flash, failedWL, f)
  PROVE  DealtWith(flash, failedWL, fee')
  <1> DEFINE h == [f EXCEPT !.UserJob = "IDLE"]
             passed == f.UserJob = "PASS"
  <1>1. /\ FaultTypes(f) /\ MainInv(f, NoJob) /\ MainInv(f, job) /\ UserFault(flash, f, NoJob)
        /\ f.MainJob = "WRITE" /\ f.CacheUpdated /\ DOMAIN f = Fields /\ CacheFault(flash, f)
    BY FieldFacts DEF FaultInv, MainInv, LocalWrite
  <1>2. /\ f.Req.stage = "request" => WriteCopy(h)
        /\ f.Req.stage = "compare" => WriteCompare(h, passed)
        /\ f.Req.stage = "recopy" => RecopyCompare(h, passed)
        /\ f.Req.stage \notin {"request", "compare", "recopy"} => Continue(h)
    BY DEF LocalWrite
  <1>3. Same(f, h, {"UserJob"}) /\ h.UserJob = "IDLE"
    BY <1>1 DEF Same, Fields
  <1>4. FaultTypes(fee')
    <2>1. FaultInv(flash, fee', job')
      BY FaultLocalWrite
    <2> QED
      BY <2>1 DEF FaultInv
  <1> HIDE DEF h
  <1>5. CASE f.Req.stage = "compare"
    <2>1. Stage(f, "compare")
      BY <1>5 DEF Stage
    <2>2. CASE passed
      <3>1. fee' = WriteDone(h)
        BY <1>2, <1>5, <2>2 DEF WriteCompare, Continue
      <3> QED
        BY <1>3, <2>1, <2>2, <3>1, DealtWriteDone
    <2>3. CASE ~passed
      <3>1. WriteCompare(h, FALSE)
        <4>1. passed = FALSE
          BY <2>3
        <4> HIDE DEF passed
        <4> QED
          BY <1>2, <1>5, <4>1
      <3> QED
        BY <1>3, <2>1, <2>3, <3>1, DealtWriteFailed
    <2> QED
      BY <2>2, <2>3
  <1>6. CASE f.Req.stage = "recopy"
    <2>1. Stage(f, "recopy")
      BY <1>6 DEF Stage
    <2> QED
      BY <1>2, <1>3, <1>6, <2>1, DealtRecopied
  <1>7. CASE f.Req.stage \notin {"compare", "recopy"}
    <2>1. ~UserWrites(f) /\ f.UserJob = "IDLE"
      BY <1>1, <1>7 DEF UserWrites, Stage, UserFault
    <2>2. /\ \A x \in Fields : h[x] = f[x]
          /\ \A st : Stage(h, st) <=> Stage(f, st)
          /\ h.NextFreePage = f.NextFreePage /\ h.GcState = f.GcState /\ h.CacheUpdated
      BY <1>1, <1>3, <2>1 DEF Same, Fields, Stage
    <2> DEFINE X == {"NextFreePage", "GcState", "Req"}
    <2>3. /\ Same(f, fee', X) /\ f.NextFreePage <= fee'.NextFreePage
          /\ fee'.GcState = f.GcState \/ (f.GcState = "IDLE" /\ fee'.GcState = "REQUESTED")
      <3>1. CASE f.Req.stage = "request"
        <4> DEFINE g == CurrBlkCheck(h)
        <4>1. ~Answering(h)
          BY <2>1, <2>2, <3>1 DEF Answering, UserWrites, Stage
        <4>2. /\ FaultInv(flash, g, NoJob) /\ g.NextFreePage = CheckedPage(h)
              /\ g.GcState = h.GcState \/ (h.GcState = "IDLE" /\ g.GcState = "REQUESTED")
              /\ \A x \in Fields \ {"NextFreePage", "GcState"} : g[x] = h[x]
          <5>1. FaultInv(flash, h, NoJob)
            <6>1. Same(f, h, {"Req"})
              BY <1>3, <2>2 DEF Same
            <6>2. FaultTypes(h)
              <7>1. h.Req \in Requests \cup {NoReq}
                BY <1>1, <2>2, FieldFacts DEF Fields
              <7> QED
                BY <1>1, <6>1, <7>1, RequestTypes
            <6>3. UserFault(flash, h, NoJob)
              BY <1>1, <2>2 DEF UserFault, UserWrites, Fields, Cur
            <6>4. f.NextFreePage <= h.NextFreePage
              BY <1>1, <2>2, FieldFacts
            <6>5. ~IntrRuns(NoJob)
              BY DEF IntrRuns
            <6> QED
              BY <1>3, <6>1, <6>2, <6>3, <6>4, <6>5, FaultRequestFrame
          <5> QED
            BY <2>2, <4>1, <5>1, FaultPageChecked
        <4>3. f.NextFreePage <= CheckedPage(h)
          <5>1. h.NextFreePage \in Nat
            BY <1>1, <2>2, FieldFacts
          <5> QED
            BY <2>2, <5>1, WordlineFacts, WordlineSize DEF CheckedPage
        <4>4. fee' = g \/ fee' = [g EXCEPT !.Req.stage = "compare"]
          BY <1>2, <3>1 DEF WriteCopy, Continue, Start
        <4> HIDE DEF g
        <4>5. DOMAIN g = Fields
          BY <4>2 DEF FaultInv, FaultTypes
        <4>6. /\ DOMAIN fee' = Fields /\ \A x \in Fields \ {"Req"} : fee'[x] = g[x]
          BY <4>4, <4>5 DEF Fields
        <4>7. fee'.NextFreePage = g.NextFreePage /\ fee'.GcState = g.GcState
          BY <4>6 DEF Fields
        <4> QED
          BY <2>2, <4>2, <4>3, <4>6, <4>7 DEF Same
      <3>2. CASE f.Req.stage # "request"
        <4>1. fee' = h
          BY <1>2, <1>7, <3>2 DEF Continue
        <4> QED
          BY <1>1, <1>3, <2>2, <4>1, FieldFacts DEF Same
      <3> QED
        BY <3>1, <3>2
    <2>4. fee'.UserJob # "FAIL"
      BY <2>1, <2>3 DEF Same, Fields
    <2>5. X \subseteq {"MainJob", "NextFreePage", "Req", "UserJob", "UserJobFailCount", "GcState"}
      OBVIOUS
    <2> HIDE DEF X
    <2> QED
      BY <1>1, <1>4, <2>1, <2>3, <2>4, <2>5, DealtKept
  <1> QED
    BY <1>5, <1>6, <1>7

-----------------------------------------------------------------------------
(* The garbage collection. *)

\* What a step of the collection has to show.
LEMMA DealtGcFrame ==
  ASSUME NEW f, DealtWith(flash, failedWL, f), NEW g, g.CacheUpdated,
         g.IntrJob = "IDLE", g.UserJob = "IDLE", RowInv(flash, g),
         \A w \in Addresses : IsWLBeginning(w.slot) /\ CacheLeft(f, w) => CacheLeft(g, w)
  PROVE  DealtWith(flash, failedWL, g)
  <1>1. \A w \in failedWL : w \in Addresses /\ IsWLBeginning(w.slot) /\ CacheLeft(f, w)
    BY DEF DealtWith, WordlineLeft
  <1>2. FirstFailure(g)
    BY DEF FirstFailure
  <1>3. \A w \in failedWL : StartLeft(flash, g, w)
    BY DEF StartLeft
  <1> QED
    BY <1>1, <1>2, <1>3 DEF DealtWith, WordlineLeft

\* Where the collection goes on in the other sector.
Ahead(f) == IF f.GcState \in {"IDLE", "REQUESTED"} THEN f.NextFreeWL[Oth(f)] ELSE f.GcDest

\* A failed wordline of the sector it fills is the last one or left behind.
FailedOrLeft(f, w) ==
  \/ f.IntrJob = "FAIL" /\ w.slot = WLBeginning(f.GcDest)
  \/ Left(f, w) /\ Behind(w, Ahead(f))

\* In the other sector there is no third possibility.
LEMMA OtherSector ==
  ASSUME NEW f, FaultInv(flash, f, NoJob), f.MainJob = "GC",
         f.GcState \notin {"FAIL", "ERASE"}, NEW w \in Addresses, w.sector = Oth(f),
         GcLeft(f, w)
  PROVE  FailedOrLeft(f, w)
  <1>1. /\ FaultTypes(f) /\ CacheFault(flash, f) /\ f.CacheUpdated
        /\ f.Cache \in [Blocks -> Addresses \cup {NoAddr}]
        /\ f.GcState \in {"IDLE", "REQUESTED"} \cup Copying \cup {"E_SP", "E_M"}
    BY FaultGcFacts, FieldFacts DEF Copying
  <1>2. CASE f.GcState \in {"IDLE", "REQUESTED"}
    <2>1. Left(f, w)
      <3> SUFFICES ASSUME NEW b \in Blocks, Within(f.Cache[b], w) PROVE FALSE
        BY DEF Left
      <3>1. f.Cache[b] \in Addresses \cup {NoAddr}
        BY <1>1
      <3>2. f.Cache[b] # NoAddr /\ f.Cache[b].sector = Oth(f)
        BY <3>1, WithinSlot
      <3> QED
        BY <1>1, <1>2, <3>2 DEF CacheFault, Copying
    <2> QED
      BY <1>2, <2>1 DEF GcLeft, FailedOrLeft, Ahead
  <1>3. CASE f.GcState \in Copying \cup {"E_SP", "E_M"}
    BY <1>3 DEF GcLeft, FailedOrLeft, Ahead, Copying
  <1> QED
    BY <1>1, <1>2, <1>3

\* A step of the collection that does not change the current sector.
LEMMA DealtGcMoved ==
  ASSUME NEW f, FaultInv(flash, f, NoJob), DealtWith(flash, failedWL, f), f.MainJob = "GC",
         NEW g, g.CacheUpdated, g.IntrJob = "IDLE", g.UserJob = "IDLE",
         g.CurrSector = f.CurrSector, g.NextFreePage = f.NextFreePage, RowInv(flash, g),
         f.GcState = "FAIL" => g.GcState = "FAIL",
         f.GcState = "ERASE" /\ g.GcState \notin {"ERASE", "FAIL"} => f.IntrJob = "PASS",
         g.GcState = "ERASE" => f.GcState = "ERASE",
         \A w \in Addresses :
           /\ IsWLBeginning(w.slot) /\ w.sector = Cur(f) /\ Left(f, w)
           /\ ~(f.GcState = "COPY_WRITE" /\ f.IntrJob = "FAIL") /\ g.GcState # "FAIL"
           => Left(g, w),
         \A w \in Addresses :
           /\ IsWLBeginning(w.slot) /\ w.sector = Oth(f) /\ FailedOrLeft(f, w)
           /\ f.GcState # "ERASE" /\ g.GcState \notin {"ERASE", "FAIL"}
           => Left(g, w) /\ Behind(w, Ahead(g))
  PROVE  DealtWith(flash, failedWL, g)
  <1>1. /\ Cur(g) = Cur(f) /\ Oth(g) = Oth(f)
    BY DEF Cur, Oth
  <1>2. f.CacheUpdated /\ ~UserWrites(f) /\ FaultTypes(f)
    BY FaultGcFacts
  <1>3. ASSUME NEW w \in Addresses, IsWLBeginning(w.slot), CacheLeft(f, w)
        PROVE  CacheLeft(g, w)
    <2>1. SUFFICES ASSUME g.GcState # "FAIL" PROVE CacheLeft(g, w)
      BY DEF CacheLeft
    <2>2. CASE w.sector = Cur(f)
      <3>1. UserLeft(f, w) /\ ~(f.GcState = "COPY_WRITE" /\ f.IntrJob = "FAIL")
        BY <1>2, <1>3, <2>1, <2>2 DEF CacheLeft
      <3>2. Left(f, w) /\ Behind(w, f.NextFreePage)
        BY <1>2, <3>1 DEF UserLeft, UserWrites
      <3>3. Left(g, w)
        BY <1>3, <2>1, <2>2, <3>1, <3>2
      <3> QED
        BY <1>1, <2>2, <3>2, <3>3 DEF CacheLeft, UserLeft
    <2>3. CASE w.sector # Cur(f)
      <3>1. GcLeft(f, w)
        BY <1>2, <1>3, <2>1, <2>3 DEF CacheLeft
      <3>2. w.sector = Oth(f)
        <4>1. w.sector \in Sectors /\ Cur(f) \in Sectors
          BY <1>2, AddressFacts, FieldFacts
        <4> QED
          BY <2>3, <4>1, SlotFacts DEF Oth, Cur
      <3>3. CASE g.GcState = "ERASE"
        BY <1>1, <2>3, <3>3 DEF CacheLeft, GcLeft, Copying
      <3>4. CASE g.GcState # "ERASE"
        <4>1. f.GcState # "ERASE"
          BY <2>1, <3>1, <3>4 DEF GcLeft
        <4>2. FailedOrLeft(f, w)
          BY <2>1, <3>1, <3>2, <4>1, OtherSector
        <4>3. Left(g, w) /\ Behind(w, Ahead(g))
          BY <1>3, <2>1, <3>2, <3>4, <4>1, <4>2
        <4>4. GcLeft(g, w)
          BY <1>1, <3>4, <4>3 DEF GcLeft, Ahead, Copying
        <4> QED
          BY <1>1, <2>3, <4>4 DEF CacheLeft
      <3> QED
        BY <3>3, <3>4
    <2> QED
      BY <2>2, <2>3
  <1> QED
    BY <1>3, DealtGcFrame

\* The fields that starting a job changes: none that a wordline depends on, but
\* the next copy or state page is not before the last.
StartFields ==
  {"GcState", "StateCount", "BlkModified", "GcCopyIndex", "GcBlock", "GcFirstBlkInWL",
   "GcSrcAddr", "GcDest", "IntrJobFailCount"}

\* The fields the start of a state page changes.
LEMMA StatePageFields ==
  ASSUME NEW m, DOMAIN m = Fields, GcStatePage(m)
  PROVE  /\ Same(m, fee', {"GcState", "StateCount"})
         /\ fee'.GcState \in {m.GcState, "FAIL"}
  BY DEF GcStatePage, GcFail, Start, Continue, Same, Fields

\* The fields the start of a copy changes.
LEMMA StartCopyFields ==
  ASSUME NEW m, FaultTypes(m), m.GcState = "START_COPY", GcStartCopy(m)
  PROVE  /\ Same(m, fee', StartFields) /\ fee'.GcDest \in Nat /\ m.GcDest <= fee'.GcDest
         /\ fee'.GcState \in {"FAIL", "COPY_WRITE", "V_SP"}
         /\ fee'.GcState = "COPY_WRITE" =>
              /\ fee'.GcDest = m.GcDest
              /\ ~IsWLBeginning(m.GcDest) => fee'.GcSrcAddr = m.GcSrcAddr
  <1> DEFINE again == ToCopy(m, m.GcCopyIndex) = {} /\ m.BlkModified
             left == ToCopy(m, IF again THEN 0 ELSE m.GcCopyIndex)
             g == IF again THEN [m EXCEPT !.BlkModified = FALSE] ELSE m
             a == m.GcDest
             e == IF IsWLBeginning(a) THEN a ELSE NextWL(a)
             p == [g EXCEPT !.GcState = "V_SP", !.IntrJobFailCount = 0, !.GcCopyIndex = NBlocks,
                            !.GcDest = IF IsWLBeginning(@) THEN @ ELSE NextWL(@)]
  <1>1. DOMAIN m = Fields /\ a \in Nat
    BY FieldFacts
  <1>2. e \in Nat /\ a <= e
    BY <1>1, WordlineFacts
  <1>3. Same(m, g, {"BlkModified"}) /\ g.GcDest = a /\ g.GcSrcAddr = m.GcSrcAddr /\ DOMAIN g = Fields
    BY <1>1 DEF Same, Fields
  <1>4. /\ left # {} => GcCopyWrite(g, Min(left))
        /\ left = {} => GcStatePage(p)
    BY DEF GcStartCopy
  <1> HIDE DEF g, left
  <1>5. CASE left # {}
    <2> DEFINE b == Min(left)
    <2>1. GcCopyWrite(g, b)
      BY <1>4, <1>5
    <2> HIDE DEF b
    <2> DEFINE c == flash[g.Cache[b].sector][g.Cache[b].slot].blk
               k == [g EXCEPT !.GcState = "COPY_WRITE", !.GcCopyIndex = b, !.GcBlock = c]
    <2>2. \/ fee' = GcFail(g)
          \/ fee' = IF IsWLBeginning(a) THEN [k EXCEPT !.GcFirstBlkInWL = c, !.GcSrcAddr = <<>>] ELSE k
      BY <1>3, <2>1 DEF GcCopyWrite, Start, Continue
    <2> HIDE DEF c
    <2>3. CASE fee' = GcFail(g)
      BY <1>1, <1>3, <2>3 DEF GcFail, Same, Fields, StartFields
    <2>4. CASE fee' = IF IsWLBeginning(a) THEN [k EXCEPT !.GcFirstBlkInWL = c, !.GcSrcAddr = <<>>] ELSE k
      <3>1. /\ DOMAIN k = Fields /\ k.GcState = "COPY_WRITE" /\ k.GcDest = a
            /\ k.GcSrcAddr = m.GcSrcAddr
            /\ \A x \in Fields \ {"GcState", "GcCopyIndex", "GcBlock"} : k[x] = g[x]
        BY <1>3 DEF Fields
      <3> HIDE DEF k
      <3>2. /\ DOMAIN fee' = Fields /\ fee'.GcState = "COPY_WRITE" /\ fee'.GcDest = a
            /\ ~IsWLBeginning(a) => fee'.GcSrcAddr = m.GcSrcAddr
            /\ \A x \in Fields \ {"GcFirstBlkInWL", "GcSrcAddr"} : fee'[x] = k[x]
        BY <2>4, <3>1 DEF Fields
      <3>3. Same(m, fee', StartFields)
        BY <1>3, <3>1, <3>2 DEF Same, StartFields
      <3> QED
        BY <1>1, <3>2, <3>3
    <2> QED
      BY <2>2, <2>3, <2>4
  <1>6. CASE left = {}
    <2>1. GcStatePage(p)
      BY <1>4, <1>6
    <2>2. /\ DOMAIN p = Fields /\ p.GcState = "V_SP" /\ p.GcDest = e
          /\ \A x \in Fields \ {"GcState", "IntrJobFailCount", "GcCopyIndex", "GcDest"} : p[x] = g[x]
      <3>1. p = [g EXCEPT !.GcState = "V_SP", !.IntrJobFailCount = 0, !.GcCopyIndex = NBlocks,
                          !.GcDest = e]
        BY <1>3
      <3> HIDE DEF p, e
      <3> QED
        BY <1>3, <3>1 DEF Fields
    <2> HIDE DEF p, e
    <2>3. Same(p, fee', {"GcState", "StateCount"}) /\ fee'.GcState \in {"V_SP", "FAIL"}
      BY <2>1, <2>2, StatePageFields
    <2>4. fee'.GcDest = e
      BY <2>2, <2>3 DEF Same, Fields
    <2>5. Same(m, fee', StartFields)
      BY <1>3, <2>2, <2>3 DEF Same, StartFields
    <2> QED
      BY <1>2, <2>3, <2>4, <2>5
  <1> QED
    BY <1>5, <1>6

\* The next job of the collection starts.
LEMMA DealtGcStart ==
  ASSUME NEW f, FaultInv(flash, f, NoJob), DealtWith(flash, failedWL, f), f.MainJob = "GC",
         f.IntrJob = "IDLE", job = NoJob, GcStart(f)
  PROVE  DealtWith(flash, failedWL, fee')
  <1> DEFINE o == Oth(f)
  <1>1. /\ FaultTypes(f) /\ DOMAIN f = Fields /\ GcFault(flash, f, NoJob) /\ f.CacheUpdated
        /\ f.InitGCState = "COMPLETE" /\ f.UserJob = "IDLE" /\ f.GcDest \in Nat
        /\ f.NextFreeWL[o] \in Nat /\ o = Other(f.CurrSector) /\ RowInv(flash, f)
    <2>1. o \in Sectors /\ f.NextFreeWL \in [Sectors -> Nat] /\ f.GcDest \in Nat
      BY FaultGcFacts, FieldFacts
    <2> QED
      BY <2>1, FaultGcFacts DEF DealtWith
  <1>2. ASSUME NEW g, NEW X, Same(f, g, X),
               X \subseteq StartFields \cup {"Copied"}, RowInv(flash, g),
               f.GcState = "FAIL" => g.GcState = "FAIL",
               (g.GcState = "ERASE") <=> (f.GcState = "ERASE"),
               g.GcState # "FAIL" => Ahead(g) \in Nat /\ Ahead(f) <= Ahead(g)
        PROVE  DealtWith(flash, failedWL, g)
    <2>1. /\ g.CacheUpdated /\ g.IntrJob = "IDLE" /\ g.UserJob = "IDLE" /\ g.Cache = f.Cache
          /\ g.CurrSector = f.CurrSector /\ g.NextFreePage = f.NextFreePage
      BY <1>1, <1>2 DEF Same, Fields, StartFields
    <2>2. \A w : Left(f, w) <=> Left(g, w)
      BY <2>1 DEF Left
    <2>3. \A w \in Addresses :
            /\ FailedOrLeft(f, w) /\ g.GcState # "FAIL" => Left(g, w) /\ Behind(w, Ahead(g))
      <3>1. Ahead(f) \in Nat
        BY <1>1 DEF Ahead
      <3> QED
        BY <1>2, <2>2, <3>1, BehindLater DEF FailedOrLeft
    <2> QED
      BY <1>2, <2>1, <2>2, <2>3, DealtGcMoved
  <1>3. CASE f.GcState \in {"REQUESTED", "START_COPY"}
    <2> DEFINE m == IF f.GcState = "REQUESTED" THEN GcRequested(f) ELSE f
    <2>1. /\ FaultTypes(m) /\ m.GcState = "START_COPY" /\ GcStartCopy(m)
          /\ Same(f, m, {"GcState", "GcDest", "Copied", "BlkModified", "GcCopyIndex", "GcSrcAddr"})
          /\ m.GcDest = Ahead(f)
          /\ ~IsWLBeginning(m.GcDest) => f.GcState = "START_COPY" /\ m = f
      <3>1. CASE f.GcState = "REQUESTED"
        <4>1. FaultInv(flash, m, NoJob) /\ m.GcState = "START_COPY"
          BY <3>1, FaultGcRequested
        <4>2. GcStartCopy(m)
          BY <3>1 DEF GcStart
        <4>3. Same(f, m, {"GcState", "GcDest", "Copied", "BlkModified", "GcCopyIndex", "GcSrcAddr"})
              /\ m.GcDest = f.NextFreeWL[o]
          BY <1>1, <3>1 DEF GcRequested, Same, Fields
        <4>4. IsWLBeginning(f.NextFreeWL[o])
          BY <1>1, <3>1 DEF GcFault, OpenWL
        <4>5. FaultTypes(m)
          BY <4>1 DEF FaultInv
        <4> HIDE DEF m
        <4> QED
          BY <3>1, <4>1, <4>2, <4>3, <4>4, <4>5 DEF Ahead
      <3>2. CASE f.GcState = "START_COPY"
        <4>1. m = f /\ GcStartCopy(f)
          BY <3>2 DEF GcStart
        <4> QED
          BY <1>1, <3>2, <4>1 DEF Same, Ahead
      <3> QED
        BY <1>3, <3>1, <3>2
    <2> HIDE DEF m
    <2>2. /\ Same(m, fee', StartFields) /\ fee'.GcDest \in Nat /\ m.GcDest <= fee'.GcDest
          /\ fee'.GcState \in {"FAIL", "COPY_WRITE", "V_SP"}
          /\ fee'.GcState = "COPY_WRITE" =>
               /\ fee'.GcDest = m.GcDest
               /\ ~IsWLBeginning(m.GcDest) => fee'.GcSrcAddr = m.GcSrcAddr
      BY <2>1, StartCopyFields
    <2>3. Same(f, fee', StartFields \cup {"Copied"})
      BY <2>1, <2>2 DEF Same, StartFields
    <2>4. fee'.Cache = f.Cache /\ fee'.CurrSector = f.CurrSector
      BY <2>3 DEF Same, Fields, StartFields
    <2>5. RowInv(flash, fee')
      <3>1. SUFFICES ASSUME fee'.GcState = "COPY_WRITE", ~IsWLBeginning(fee'.GcDest)
                     PROVE  RowInv(flash, fee')
        BY <2>2 DEF RowInv
      <3>2. /\ f.GcState = "START_COPY" /\ fee'.GcDest = f.GcDest
            /\ fee'.GcSrcAddr = f.GcSrcAddr /\ Oth(fee') = o
        BY <2>1, <2>2, <2>4, <3>1 DEF Oth
      <3> QED
        BY <1>1, <2>4, <3>1, <3>2, RowSame DEF DealtWith
    <2>6. fee'.GcState # "FAIL" => Ahead(fee') \in Nat /\ Ahead(f) <= Ahead(fee')
      BY <2>1, <2>2 DEF Ahead
    <2>7. fee'.GcState # "ERASE" /\ f.GcState \notin {"ERASE", "FAIL"}
      BY <1>3, <2>2
    <2> QED
      BY <1>2, <2>3, <2>5, <2>6, <2>7
  <1>4. CASE f.GcState \notin {"REQUESTED", "START_COPY"}
    <2>1. /\ Same(f, fee', {"GcState", "StateCount"})
          /\ fee'.GcState \in {f.GcState, "FAIL"} /\ (f.GcState = "ERASE" => fee'.GcState = "ERASE")
      <3>1. CASE f.GcState \in {"V_SP", "E_SP"}
        <4>1. GcStatePage(f)
          BY <3>1 DEF GcStart
        <4> QED
          BY <1>1, <3>1, <4>1, StatePageFields
      <3>2. CASE f.GcState \notin {"V_SP", "E_SP"}
        <4>1. fee' = f
          BY <1>4, <3>2 DEF GcStart, Start, Continue
        <4> QED
          BY <1>1, <4>1 DEF Same
      <3> QED
        BY <3>1, <3>2
    <2>2. /\ fee'.GcDest = f.GcDest /\ fee'.GcSrcAddr = f.GcSrcAddr /\ fee'.Cache = f.Cache
          /\ fee'.CurrSector = f.CurrSector /\ fee'.NextFreeWL = f.NextFreeWL
      BY <2>1 DEF Same, Fields
    <2>3. RowInv(flash, fee')
      <3>1. SUFFICES ASSUME fee'.GcState \in {"START_COPY", "COPY_WRITE"} PROVE RowInv(flash, fee')
        BY DEF RowInv
      <3>2. fee'.GcState = f.GcState /\ Oth(fee') = o
        BY <2>1, <2>2, <3>1 DEF Oth
      <3> QED
        BY <1>1, <2>2, <3>1, <3>2, RowSame DEF DealtWith
    <2>4. fee'.GcState # "FAIL" => Ahead(fee') = Ahead(f) /\ fee'.GcState = f.GcState
      BY <2>1, <2>2 DEF Ahead, Oth
    <2>5. Ahead(f) \in Nat
      BY <1>1 DEF Ahead
    <2>6. {"GcState", "StateCount"} \subseteq StartFields \cup {"Copied"}
      BY DEF StartFields
    <2> QED
      BY <1>2, <2>1, <2>3, <2>4, <2>5, <2>6
  <1> QED
    BY <1>3, <1>4

\* A copy or a page is in the flash, or the sector is erased: the collection
\* goes on where it is.
LEMMA DealtGcPassed ==
  ASSUME NEW f, FaultInv(flash, f, NoJob), DealtWith(flash, failedWL, f), f.MainJob = "GC",
         f.IntrJob = "PASS", NEW g, NEW X, Same(f, g, X),
         X \subseteq GcFields \cup {"StatePageAddr", "NextFreeWL"},
         g.Cache = f.Cache, g.IntrJob = "IDLE", f.GcState # "FAIL",
         g.GcState \notin {"START_COPY", "COPY_WRITE", "ERASE"},
         f.GcState # "ERASE" => Ahead(g) \in Nat /\ Ahead(f) <= Ahead(g)
  PROVE  DealtWith(flash, failedWL, g)
  <1>1. /\ FaultTypes(f) /\ DOMAIN f = Fields /\ f.CacheUpdated
        /\ f.UserJob = "IDLE" /\ f.GcDest \in Nat
    BY FaultGcFacts, FieldFacts
  <1>2. /\ g.CacheUpdated /\ g.UserJob = "IDLE"
        /\ g.CurrSector = f.CurrSector /\ g.NextFreePage = f.NextFreePage
    BY <1>1 DEF Same, Fields, GcFields
  <1>3. \A w : Left(f, w) <=> Left(g, w)
    BY DEF Left
  <1>4. Ahead(f) \in Nat
    <2>1. Oth(f) \in Sectors /\ f.NextFreeWL \in [Sectors -> Nat]
      BY <1>1, FieldFacts
    <2> QED
      BY <1>1, <2>1 DEF Ahead
  <1>5. \A w \in Addresses :
          FailedOrLeft(f, w) /\ f.GcState # "ERASE" => Left(g, w) /\ Behind(w, Ahead(g))
    BY <1>3, <1>4, BehindLater DEF FailedOrLeft
  <1>6. RowInv(flash, g)
    BY DEF RowInv
  <1> QED
    BY <1>2, <1>3, <1>5, <1>6, DealtGcMoved

\* A state page has failed: it goes to the next wordline but one.
LEMMA DealtPageFailed ==
  ASSUME NEW f, FaultInv(flash, f, NoJob), DealtWith(flash, failedWL, f), f.MainJob = "GC",
         f.IntrJob = "FAIL",
         NEW page, \/ page = "V_SP" /\ f.GcState \in {"V_SP", "V_M"}
                   \/ page = "E_SP" /\ f.GcState \in {"E_SP", "E_M"},
         NEW h, Same(f, h, {"IntrJob"}), h.IntrJob = "IDLE"
  PROVE  DealtWith(flash, failedWL, PageFailed(h, page))
  <1> DEFINE g == PageFailed(h, page)
             d == f.GcDest
  <1>1. /\ FaultTypes(f) /\ DOMAIN f = Fields /\ f.CacheUpdated /\ CacheFault(flash, f)
        /\ f.UserJob = "IDLE" /\ d \in Nat /\ f.Cache \in [Blocks -> Addresses \cup {NoAddr}]
    BY FaultGcFacts, FieldFacts
  <1>2. h.GcDest = d /\ h.IntrJobFailCount = f.IntrJobFailCount /\ DOMAIN h = Fields
    BY DEF Same, Fields
  <1>3. f.IntrJobFailCount = 0 /\ IsWLBeginning(d) /\ d \in Slots
    BY FaultGcEnded DEF DealtWith, FirstFailure
  <1>4. g = [h EXCEPT !.GcState = page, !.IntrJobFailCount = 1, !.GcDest = NextWL(d) + PerWL]
    BY <1>2, <1>3 DEF PageFailed
  <1>5. /\ g.GcState = page /\ g.GcDest = NextWL(d) + PerWL /\ g.IntrJob = "IDLE"
        /\ Same(f, g, {"GcState", "IntrJobFailCount", "GcDest", "IntrJob"})
    <2> HIDE DEF g, d
    <2> QED
      BY <1>2, <1>4 DEF Same, Fields
  <1> HIDE DEF g
  <1>6. /\ g.CacheUpdated /\ g.UserJob = "IDLE" /\ g.Cache = f.Cache
        /\ g.CurrSector = f.CurrSector /\ g.NextFreePage = f.NextFreePage
    BY <1>1, <1>5 DEF Same, Fields
  <1>7. \A w : Left(f, w) <=> Left(g, w)
    BY <1>6 DEF Left
  <1>8. /\ NextWL(d) \in Nat /\ NextWL(d) = d + PerWL /\ WLBeginning(d) = d
        /\ PerWL \in Nat /\ PerWL > 0
    BY <1>1, <1>3, WordlineFacts, WordlineSize
  <1>9. ASSUME NEW w \in Addresses, w.sector = Oth(f), FailedOrLeft(f, w)
        PROVE  Left(g, w) /\ Behind(w, Ahead(g))
    <2>1. w.slot \in Nat
      BY AddressFacts, SlotFacts
    <2>2. Ahead(f) = d /\ Ahead(g) = d + PerWL + PerWL
      BY <1>5, <1>8 DEF Ahead
    <2>3. CASE w.slot = d
      <3>1. Left(f, w)
        <4> SUFFICES ASSUME NEW b \in Blocks, Within(f.Cache[b], w) PROVE FALSE
          BY DEF Left
        <4>1. f.Cache[b] \in Addresses \cup {NoAddr}
          BY <1>1
        <4>2. /\ f.Cache[b] # NoAddr /\ f.Cache[b].sector = Oth(f) /\ f.Cache[b].slot \in Nat
              /\ d <= f.Cache[b].slot
          BY <1>9, <2>3, <4>1, WithinSlot
        <4>3. f.GcState \in Copying => f.Cache[b].slot < d
          BY <1>1, <4>2 DEF CacheFault
        <4>4. f.GcState \in Copying \cup {"FAIL"}
          BY <1>1, <4>2 DEF CacheFault
        <4> HIDE DEF d
        <4> QED
          BY <1>1, <4>2, <4>3, <4>4
      <3>2. Behind(w, d + PerWL + PerWL)
        BY <1>8, <2>1, <2>3 DEF Behind
      <3> QED
        BY <1>7, <2>2, <3>1, <3>2
    <2>4. CASE Left(f, w) /\ Behind(w, d)
      <3>1. Behind(w, d + PerWL + PerWL)
        BY <1>1, <1>8, <2>1, <2>4 DEF Behind
      <3> QED
        BY <1>7, <2>2, <2>4, <3>1
    <2> QED
      BY <1>8, <1>9, <2>2, <2>3, <2>4 DEF FailedOrLeft
  <1>10. RowInv(flash, g)
    BY <1>5 DEF RowInv
  <1>11. g.GcState \notin {"ERASE", "FAIL"} /\ f.GcState \notin {"ERASE", "FAIL"}
    BY <1>5
  <1>12. DealtWith(flash, failedWL, g)
    BY <1>5, <1>6, <1>7, <1>9, <1>10, <1>11, DealtGcMoved
  <1> QED
    BY <1>12 DEF g

\* The erasure has failed: it is tried again.
LEMMA DealtEraseFailed ==
  ASSUME NEW f, FaultInv(flash, f, NoJob), DealtWith(flash, failedWL, f), f.MainJob = "GC",
         f.IntrJob = "FAIL", f.GcState = "ERASE",
         NEW h, Same(f, h, {"IntrJob"}), h.IntrJob = "IDLE"
  PROVE  DealtWith(flash, failedWL, EraseFailed(h))
  <1> DEFINE g == EraseFailed(h)
  <1>1. DOMAIN f = Fields /\ f.CacheUpdated /\ f.UserJob = "IDLE"
    BY FaultGcFacts
  <1>2. /\ DOMAIN h = Fields /\ \A x \in Fields \ {"IntrJob"} : h[x] = f[x]
        /\ h.IntrJobFailCount = f.IntrJobFailCount
    BY DEF Same, Fields
  <1>3. g = [h EXCEPT !.IntrJobFailCount = 1]
    BY <1>2 DEF EraseFailed, DealtWith, FirstFailure
  <1> HIDE DEF g
  <1>4. /\ g.CacheUpdated /\ g.UserJob = "IDLE" /\ g.Cache = f.Cache /\ g.IntrJob = "IDLE"
        /\ g.CurrSector = f.CurrSector /\ g.NextFreePage = f.NextFreePage /\ g.GcState = "ERASE"
    BY <1>1, <1>2, <1>3 DEF Fields
  <1>5. \A w : Left(f, w) <=> Left(g, w)
    BY <1>4 DEF Left
  <1>6. RowInv(flash, g)
    BY <1>4 DEF RowInv
  <1>7. DealtWith(flash, failedWL, g)
    BY <1>4, <1>5, <1>6, DealtGcMoved
  <1> QED
    BY <1>7 DEF g

\* Inside a wordline the next page is of the same wordline.
LEMMA SameRow ==
  ASSUME NEW d \in Nat, ~IsWLBeginning(d + 1)
  PROVE  WLBeginning(d + 1) = WLBeginning(d)
  <1> DEFINE z == WLBeginning(d + 1)
             row == WLBeginning(d)
  <1>1. /\ d + 1 \in Nat /\ d < NextWL(d) /\ NextWL(d) \in Nat /\ NextWL(d) = row + PerWL
        /\ IsWLBeginning(NextWL(d)) /\ IsWLBeginning(row) /\ row \in Nat /\ row <= d
    BY WordlineFacts
  <1>2. z \in Nat /\ IsWLBeginning(z) /\ z <= d + 1 /\ z # d + 1
    BY <1>1, WordlineFacts
  <1> HIDE DEF z, row
  <1>3. z <= d
    BY <1>2
  <1>4. row <= z /\ z <= row
    BY <1>1, <1>2, <1>3, WordlinesApart DEF z, row
  <1>5. z = row
    BY <1>1, <1>2, <1>4
  <1> QED
    BY <1>5 DEF z, row

\* A copy is in the flash.
LEMMA DealtCopyDone ==
  ASSUME NEW f, FaultInv(flash, f, NoJob), DealtWith(flash, failedWL, f), f.MainJob = "GC",
         f.IntrJob = "PASS", f.GcState = "COPY_WRITE",
         NEW h, Same(f, h, {"IntrJob"}), h.IntrJob = "IDLE"
  PROVE  DealtWith(flash, failedWL, CopyDone(h))
  <1> DEFINE o == Oth(f)
             d == f.GcDest
             b == f.GcCopyIndex
             at == f.Cache[b]
             row == WLBeginning(d)
             g == CopyDone(h)
             src == Append(f.GcSrcAddr, at)
             cache == [f.Cache EXCEPT ![b] = At(o, d)]
  <1>1. /\ FaultTypes(f) /\ CacheFault(flash, f) /\ f.CacheUpdated /\ f.UserJob = "IDLE"
        /\ GcFault(flash, f, NoJob) /\ f.InitGCState = "COMPLETE"
        /\ o \in Sectors /\ Cur(f) \in Sectors /\ o # Cur(f) /\ o = Other(f.CurrSector)
        /\ f.Cache \in [Blocks -> Addresses \cup {NoAddr}]
        /\ f.GcSrcAddr \in Seq(Addresses) /\ d \in Nat
    BY FaultGcFacts, FieldFacts
  <1>2. /\ b \in Blocks /\ f.GcBlock = b /\ at # NoAddr /\ d \in Slots
        /\ at \in Addresses /\ flash[at.sector][at.slot].blk = b
    <2>1. b \in Blocks /\ f.GcBlock = b /\ at # NoAddr /\ d \in Slots
      BY FaultGcEnded DEF Ended
    <2> QED
      BY <1>1, <2>1 DEF CacheFault
  <1>3. At(o, d) \in Addresses /\ At(o, d) # NoAddr /\ At(o, d).sector = o /\ At(o, d).slot = d
    BY <1>1, <1>2, AddressFacts
  <1>4. /\ h.GcBlock = b /\ h.Cache = f.Cache /\ h.GcDest = d /\ h.GcSrcAddr = f.GcSrcAddr
        /\ h.CurrSector = f.CurrSector /\ DOMAIN h = Fields /\ h.CacheUpdated
        /\ h.UserJob = "IDLE" /\ h.NextFreePage = f.NextFreePage
    BY <1>1, <1>2 DEF Same, Fields
  <1>5. /\ g.GcState = "START_COPY" /\ g.GcSrcAddr = src /\ g.Cache = cache /\ g.GcDest = d + 1
        /\ g.IntrJob = "IDLE" /\ g.CurrSector = f.CurrSector /\ g.CacheUpdated
        /\ g.UserJob = "IDLE" /\ g.NextFreePage = f.NextFreePage
    <2> DEFINE n == IF h.GcBlock # h.GcPrevBlock THEN 0 ELSE h.IntrJobFailCount
               m == [h EXCEPT !.GcState = "START_COPY", !.IntrJobFailCount = n,
                              !.Copied = [h.Copied EXCEPT ![b] = TRUE],
                              !.GcSrcAddr = Append(h.GcSrcAddr, h.Cache[b]),
                              !.Cache = [h.Cache EXCEPT ![b] = At(o, d)],
                              !.GcCopyIndex = h.GcCopyIndex + 1, !.GcDest = h.GcDest + 1,
                              !.GcPrevBlock = b]
    <2>1. At(Other(h.CurrSector), h.GcDest) = At(o, d)
      BY <1>1, <1>4
    <2>2. g = m
      <3>1. h.GcBlock = b
        BY <1>4
      <3> HIDE DEF o, d, b
      <3> QED
        BY <2>1, <3>1 DEF CopyDone
    <2> HIDE DEF g, n
    <2>3. /\ m.GcState = "START_COPY" /\ m.GcSrcAddr = Append(h.GcSrcAddr, h.Cache[b])
          /\ m.Cache = [h.Cache EXCEPT ![b] = At(o, d)] /\ m.GcDest = h.GcDest + 1
          /\ \A x \in Fields \ {"GcState", "IntrJobFailCount", "Copied", "GcSrcAddr", "Cache",
                                "GcCopyIndex", "GcDest", "GcPrevBlock"} : m[x] = h[x]
      <3> HIDE DEF o, d, b
      <3> QED
        BY <1>4 DEF Fields
    <2> HIDE DEF m
    <2>4. /\ m.IntrJob = "IDLE" /\ m.CurrSector = f.CurrSector /\ m.CacheUpdated
          /\ m.UserJob = "IDLE" /\ m.NextFreePage = f.NextFreePage
      BY <1>4, <2>3 DEF Fields
    <2> QED
      BY <1>4, <2>2, <2>3, <2>4
  <1>6. \A x \in Blocks : cache[x] = (IF x = b THEN At(o, d) ELSE f.Cache[x])
    BY <1>1
  <1>7. /\ src \in Seq(Addresses) /\ Len(src) = Len(f.GcSrcAddr) + 1 /\ src[Len(src)] = at
        /\ \A i \in 1 .. Len(f.GcSrcAddr) : src[i] = f.GcSrcAddr[i]
    <2> HIDE DEF at
    <2> QED
      BY <1>1, <1>2
  <1> HIDE DEF g, src, cache
  <1>8. ASSUME NEW w \in Addresses, Left(f, w), ~Within(At(o, d), w) PROVE Left(g, w)
    <2> HIDE DEF o, d, b
    <2> QED
      BY <1>5, <1>6, <1>8 DEF Left
  <1>9. ASSUME NEW w \in Addresses, w.sector = Cur(f), Left(f, w) PROVE Left(g, w)
    <2>1. ~Within(At(o, d), w)
      BY <1>1, <1>3, <1>9, WithinSlot
    <2> QED
      BY <1>8, <1>9, <2>1
  <1>10. ASSUME NEW w \in Addresses, IsWLBeginning(w.slot), FailedOrLeft(f, w)
         PROVE  Left(g, w) /\ Behind(w, Ahead(g))
    <2>1. Left(f, w) /\ Behind(w, d)
      BY <1>10 DEF FailedOrLeft, Ahead
    <2>2. ~Within(At(o, d), w)
      BY <1>1, <1>2, <1>10, <2>1, BehindNotWithin
    <2>3. Ahead(g) = d + 1
      BY <1>5 DEF Ahead
    <2> HIDE DEF d, o
    <2> QED
      BY <1>1, <1>8, <2>1, <2>2, <2>3, BehindLater
  <1>11. ASSUME ~IsWLBeginning(d + 1) PROVE RowInv(flash, g)
    <2>1. Oth(g) = o /\ WLBeginning(d + 1) = row
      BY <1>1, <1>5, <1>11, SameRow DEF Oth
    <2>2. /\ row \in Nat /\ row <= d /\ row \in Slots /\ d < row + PerWL
          /\ PerWL \in Nat
      BY <1>1, <1>2, WordlineFacts, WordlineSlots, WordlineSize
    <2>3. /\ Len(f.GcSrcAddr) = d - row
          /\ \A x \in Blocks : Within(f.Cache[x], At(o, row)) /\ f.Cache[x].slot < d =>
               LET from == f.GcSrcAddr[f.Cache[x].slot - row + 1]
               IN flash[from.sector][from.slot].blk = x
      <3>1. CASE IsWLBeginning(d)
        <4>1. f.GcSrcAddr = <<>> /\ row = d
          BY <1>1, <3>1, WordlineFacts DEF GcFault
        <4>2. ASSUME NEW x \in Blocks, Within(f.Cache[x], At(o, row)) PROVE ~(f.Cache[x].slot < d)
          <5>1. At(o, row) \in Addresses /\ At(o, row).slot = row /\ f.Cache[x] \in Addresses \cup {NoAddr}
            BY <1>1, <2>2, AddressFacts
          <5>2. row <= f.Cache[x].slot /\ f.Cache[x].slot \in Nat
            BY <4>2, <5>1, WithinSlot
          <5> QED
            BY <1>1, <4>1, <5>2
        <4> QED
          BY <1>1, <4>1, <4>2, SMTT(30)
      <3>2. CASE ~IsWLBeginning(d)
        BY <3>2 DEF DealtWith, RowInv
      <3> QED
        BY <3>1, <3>2
    <2>4. ASSUME NEW x \in Blocks, Within(cache[x], At(o, row)), cache[x].slot < d + 1
          PROVE  LET from == src[cache[x].slot - row + 1]
                 IN flash[from.sector][from.slot].blk = x
      <3>1. CASE x = b
        <4>1. cache[x].slot = d
          BY <1>2, <1>3, <1>6, <3>1
        <4>2. cache[x].slot - row + 1 = Len(src)
          BY <1>1, <1>7, <2>2, <2>3, <4>1
        <4>3. flash[at.sector][at.slot].blk = x
          BY <1>2, <3>1
        <4> QED
          BY <1>7, <4>2, <4>3
      <3>2. CASE x # b
        <4>1. cache[x] = f.Cache[x]
          BY <1>6, <3>2
        <4>2. At(o, row) \in Addresses /\ At(o, row).slot = row /\ f.Cache[x] \in Addresses \cup {NoAddr}
              /\ At(o, row).sector = o
          BY <1>1, <2>2, AddressFacts
        <4>3. row <= f.Cache[x].slot /\ f.Cache[x].slot \in Nat /\ f.Cache[x] # NoAddr
              /\ f.Cache[x].sector = o
          BY <2>4, <4>1, <4>2, WithinSlot
        <4>4. f.Cache[x].slot < d
          BY <1>1, <4>3 DEF CacheFault, Copying
        <4>5. f.Cache[x].slot - row + 1 \in 1 .. Len(f.GcSrcAddr)
          <5> DEFINE q == f.Cache[x].slot
                     n == Len(f.GcSrcAddr)
          <5>1. n = d - row /\ d \in Nat /\ row \in Nat /\ q \in Nat /\ row <= q /\ q < d
            BY <1>1, <2>2, <2>3, <4>3, <4>4
          <5> HIDE DEF row, d, o, q, n
          <5>2. q - row + 1 \in 1 .. n
            BY <5>1
          <5> QED
            BY <5>2 DEF q, n
        <4>6. LET from == f.GcSrcAddr[f.Cache[x].slot - row + 1]
              IN flash[from.sector][from.slot].blk = x
          BY <2>3, <2>4, <4>1, <4>4
        <4> HIDE DEF row, d, o
        <4> QED
          BY <1>7, <4>1, <4>5, <4>6
      <3> QED
        BY <3>1, <3>2
    <2>5. Len(src) = (d + 1) - row
      <3> DEFINE len == Len(f.GcSrcAddr)
      <3>1. Len(src) = len + 1 /\ len = d - row /\ d \in Nat /\ row \in Nat
        BY <1>1, <1>7, <2>2, <2>3
      <3> HIDE DEF row, d, len
      <3> QED
        BY <3>1
    <2>6. /\ Len(g.GcSrcAddr) = g.GcDest - WLBeginning(g.GcDest)
          /\ \A x \in Blocks :
               Within(g.Cache[x], At(Oth(g), WLBeginning(g.GcDest))) /\ g.Cache[x].slot < g.GcDest =>
                 flash[g.GcSrcAddr[g.Cache[x].slot - WLBeginning(g.GcDest) + 1].sector]
                      [g.GcSrcAddr[g.Cache[x].slot - WLBeginning(g.GcDest) + 1].slot].blk = x
      <3>1. g.GcSrcAddr = src /\ g.GcDest = d + 1 /\ g.Cache = cache
        BY <1>5
      <3>2. WLBeginning(g.GcDest) = row
        BY <2>1, <3>1
      <3>3. Len(g.GcSrcAddr) = g.GcDest - WLBeginning(g.GcDest)
        <4> DEFINE e == d + 1
        <4>1. Len(src) = e - row /\ g.GcDest = e
          BY <2>5, <3>1
        <4> HIDE DEF row, e
        <4> QED
          BY <3>1, <3>2, <4>1
      <3>4. ASSUME NEW x \in Blocks, Within(g.Cache[x], At(Oth(g), WLBeginning(g.GcDest))),
                   g.Cache[x].slot < g.GcDest
            PROVE  flash[g.GcSrcAddr[g.Cache[x].slot - WLBeginning(g.GcDest) + 1].sector]
                        [g.GcSrcAddr[g.Cache[x].slot - WLBeginning(g.GcDest) + 1].slot].blk = x
        <4> DEFINE i == cache[x].slot - row + 1
        <4>1. i = g.Cache[x].slot - WLBeginning(g.GcDest) + 1
          BY <3>1, <3>2
        <4>2. Within(cache[x], At(o, row)) /\ cache[x].slot < d + 1
          <5> HIDE DEF row, d, o
          <5> QED
            BY <2>1, <3>1, <3>2, <3>4
        <4>3. flash[src[i].sector][src[i].slot].blk = x
          BY <2>4, <4>2
        <4> HIDE DEF i, row, d, o
        <4> QED
          BY <3>1, <4>1, <4>3
      <3> QED
        BY <3>3, <3>4
    <2> QED
      BY <2>6 DEF RowInv
  <1>13. RowInv(flash, g)
    <2>1. CASE IsWLBeginning(d + 1)
      BY <1>5, <2>1 DEF RowInv
    <2> QED
      BY <1>11, <2>1
  <1>12. DealtWith(flash, failedWL, g)
    BY <1>5, <1>9, <1>10, <1>13, DealtGcMoved
  <1> QED
    BY <1>12 DEF g

\* A copy could not be programmed: those of its wordline are undone.
LEMMA DealtCopyFailed ==
  ASSUME NEW f, FaultInv(flash, f, NoJob), DealtWith(flash, failedWL, f), f.MainJob = "GC",
         f.IntrJob = "FAIL", f.GcState = "COPY_WRITE", UndoExactOf(flash, f),
         NEW h, Same(f, h, {"IntrJob"}), h.IntrJob = "IDLE"
  PROVE  DealtWith(flash, failedWL, CopyFailed(h))
  <1> DEFINE o == Oth(f)
             d == f.GcDest
             e == RetryBase(d)
             row == WLBeginning(d)
             first == f.GcFirstBlkInWL
             src == f.GcSrcAddr
             undone == {x \in Blocks : x >= first /\ x < first + Len(src) /\ f.Copied[x]}
             cache == [x \in Blocks |-> IF x \in undone THEN src[(x - first) + 1] ELSE f.Cache[x]]
             g == [h EXCEPT !.GcState = "START_COPY", !.IntrJobFailCount = 1,
                            !.GcDest = NextWL(NextWL(h.GcDest))]
             k == CopyFailed(h)
  <1>1. /\ FaultTypes(f) /\ CacheFault(flash, f) /\ f.CacheUpdated /\ f.UserJob = "IDLE"
        /\ GcFault(flash, f, NoJob) /\ f.InitGCState = "COMPLETE" /\ f.IntrJobFailCount = 0
        /\ o \in Sectors /\ Cur(f) \in Sectors /\ o # Cur(f)
        /\ f.Cache \in [Blocks -> Addresses \cup {NoAddr}]
        /\ src \in Seq(Addresses) /\ first \in Nat
    BY FaultGcFacts, FieldFacts DEF DealtWith, FirstFailure
  <1>2. d \in Slots /\ d \in Nat
    BY FaultGcEnded, SlotFacts DEF Ended
  <1>3. /\ e \in Nat /\ d < e /\ e = NextWL(NextWL(d)) /\ IsWLBeginning(e) /\ e = NextWL(d) + PerWL
        /\ row \in Nat /\ row \in Slots /\ NextWL(d) = row + PerWL /\ PerWL \in Nat
        /\ row <= d /\ d < row + PerWL /\ (IsWLBeginning(d) => row = d)
    <2>1. e \in Nat /\ d < e /\ e = NextWL(NextWL(d))
      BY <1>2, FaultGcEnded, OpenAfter DEF Ended
    <2>2. NextWL(d) \in Nat /\ IsWLBeginning(NextWL(NextWL(d)))
      BY <1>2, WordlineFacts
    <2>3. e = NextWL(d) + PerWL
      BY DEF RetryBase
    <2> QED
      BY <1>2, <2>1, <2>2, <2>3, WordlineFacts, WordlineSlots, WordlineSize
  <1> HIDE DEF e
  <1>4. /\ h.GcDest = d /\ h.IntrJobFailCount = 0 /\ h.GcSrcAddr = src /\ h.Cache = f.Cache
        /\ h.Copied = f.Copied /\ h.GcFirstBlkInWL = first /\ h.CurrSector = f.CurrSector
        /\ h.NextFreePage = f.NextFreePage /\ h.CacheUpdated /\ h.UserJob = "IDLE"
        /\ DOMAIN h = Fields
    BY <1>1 DEF Same, Fields
  <1>5. /\ g.GcState = "START_COPY" /\ g.GcDest = e
        /\ g.GcSrcAddr = src /\ g.Cache = f.Cache /\ g.Copied = f.Copied
        /\ g.GcFirstBlkInWL = first /\ g.CurrSector = f.CurrSector /\ g.IntrJob = "IDLE"
        /\ g.NextFreePage = f.NextFreePage /\ g.CacheUpdated /\ g.UserJob = "IDLE"
        /\ DOMAIN g = Fields
    BY <1>3, <1>4 DEF Fields
  <1>6. k = IF src # <<>> THEN UndoWL(g) ELSE g
    BY <1>4 DEF CopyFailed
  <1>7. undone = {} \/ src # <<>>
    <2> SUFFICES ASSUME src = <<>> PROVE undone = {}
      OBVIOUS
    <2>1. Len(src) = 0
      OBVIOUS
    <2>2. \A x \in Blocks : x \in Nat
      BY SlotFacts
    <2> HIDE DEF src, first
    <2> QED
      BY <1>1, <2>1, <2>2
  <1>8. /\ k.GcState = "START_COPY" /\ k.GcDest = e /\ k.IntrJob = "IDLE" /\ k.UserJob = "IDLE"
        /\ k.CurrSector = f.CurrSector /\ k.NextFreePage = f.NextFreePage /\ k.CacheUpdated
        /\ \A x \in Blocks : k.Cache[x] = (IF x \in undone THEN src[(x - first) + 1] ELSE f.Cache[x])
    <2>1. CASE src = <<>>
      <3>1. k = g /\ undone = {}
        BY <1>6, <1>7, <2>1
      <3> HIDE DEF k, g, undone
      <3> QED
        BY <1>5, <3>1
    <2>2. CASE src # <<>>
      <3>1. undone = {x \in Blocks : /\ x >= g.GcFirstBlkInWL
                                     /\ x < g.GcFirstBlkInWL + Len(g.GcSrcAddr) /\ g.Copied[x]}
        BY <1>5
      <3>2. \A x \in Blocks : (x - first) + 1 = x - first + 1
        BY <1>1, SlotFacts
      <3>3. k = UndoWL(g)
        BY <1>6, <2>2
      <3> HIDE DEF g, k, undone
      <3> DEFINE m == [g EXCEPT !.Copied = [x \in Blocks |-> g.Copied[x] /\ x \notin undone],
                                !.Cache = cache, !.GcCopyIndex = first, !.GcSrcAddr = <<>>]
      <3>4. k = m
        BY <1>5, <3>1, <3>2, <3>3 DEF UndoWL
      <3> HIDE DEF cache
      <3>5. /\ m.GcState = g.GcState /\ m.GcDest = g.GcDest /\ m.IntrJob = g.IntrJob
            /\ m.UserJob = g.UserJob /\ m.CurrSector = g.CurrSector
            /\ m.NextFreePage = g.NextFreePage /\ m.CacheUpdated = g.CacheUpdated
            /\ m.Cache = cache
        BY <1>5 DEF Fields
      <3> HIDE DEF m
      <3>6. \A x \in Blocks : cache[x] = (IF x \in undone THEN src[(x - first) + 1] ELSE f.Cache[x])
        BY DEF cache
      <3> QED
        BY <1>5, <3>4, <3>5, <3>6
    <2> QED
      BY <2>1, <2>2
  <1> HIDE DEF k, g, cache
  <1>9. ASSUME NEW x \in undone
        PROVE  src[(x - first) + 1].sector = Cur(f)
    <2> DEFINE i == (x - first) + 1
    <2>1. x \in Nat /\ first \in Nat /\ Len(src) \in Nat
      BY <1>1, SlotFacts
    <2>2. i \in 1 .. Len(src)
      BY <2>1
    <2>3. i \in DOMAIN src
      BY <1>1, <2>2
    <2> HIDE DEF i
    <2>4. src[i].sector = Cur(f)
      BY <1>1, <2>3 DEF CacheFault
    <2> QED
      BY <2>4 DEF i
  <1>10. ASSUME NEW x \in Blocks, NEW w \in Addresses, w.sector = o, Within(k.Cache[x], w)
         PROVE  x \notin undone /\ k.Cache[x] = f.Cache[x] /\ Within(f.Cache[x], w)
    <2>1. x \notin undone
      <3> SUFFICES ASSUME x \in undone PROVE FALSE
        OBVIOUS
      <3>1. k.Cache[x] = src[(x - first) + 1]
        BY <1>8
      <3>2. k.Cache[x].sector = Cur(f)
        BY <1>9, <3>1
      <3>3. Within(k.Cache[x], w) => k.Cache[x].sector = w.sector
        <4> HIDE DEF src, first, undone
        <4>1. k.Cache[x] # NoAddr
          BY <1>10 DEF Within
        <4>2. w = At(k.Cache[x].sector, WLBeginning(k.Cache[x].slot))
          BY <1>10 DEF Within
        <4> QED
          BY <4>2 DEF At
      <3> HIDE DEF src, first, undone, o
      <3> QED
        BY <1>1, <1>10, <3>2, <3>3
    <2> HIDE DEF undone, src, first
    <2> QED
      BY <1>8, <1>10, <2>1
  <1>11. ASSUME NEW w \in Addresses, w.sector = o, Left(f, w) PROVE Left(k, w)
    <2> HIDE DEF o, undone, src, first
    <2> QED
      BY <1>10, <1>11 DEF Left
  <1>12. ASSUME NEW w \in Addresses, w.sector = o, w.slot = row PROVE Left(k, w)
    <2> SUFFICES ASSUME NEW x \in Blocks, Within(k.Cache[x], w) PROVE FALSE
      BY DEF Left
    <2>1. x \notin undone /\ Within(f.Cache[x], w)
      BY <1>10, <1>12
    <2>2. f.Cache[x] \in Addresses \cup {NoAddr}
      BY <1>1
    <2> DEFINE p == f.Cache[x].slot
    <2>3. /\ f.Cache[x] # NoAddr /\ f.Cache[x].sector = o /\ p \in Nat
          /\ row <= p
      BY <1>12, <2>1, <2>2, WithinSlot
    <2>4. f.Copied[x] /\ p < d
      BY <1>1, <2>3 DEF CacheFault, Copying
    <2>5. ~IsWLBeginning(d)
      <3> HIDE DEF row, d, p
      <3> QED
        BY <1>2, <1>3, <2>3, <2>4
    <2>6. w = At(o, row)
      BY <1>1, <1>12, AddressFacts DEF Addresses, At
    <2> DEFINE i == (p - row) + 1
    <2>7. /\ Len(src) = d - row
          /\ flash[src[i].sector][src[i].slot].blk = x
      <3>1. RowInv(flash, f)
        BY DEF DealtWith
      <3>2. i = p - row + 1
        <4> HIDE DEF p, row
        <4> QED
          BY <1>3, <2>3
      <3>3. Len(f.GcSrcAddr) = d - WLBeginning(d)
        BY <2>5, <3>1 DEF RowInv
      <3>4. flash[f.GcSrcAddr[p - row + 1].sector][f.GcSrcAddr[p - row + 1].slot].blk = x
        BY <2>1, <2>4, <2>5, <2>6, <3>1 DEF RowInv
      <3> QED
        BY <3>2, <3>3, <3>4
    <2>8. i \in 1 .. Len(src)
      <3>1. Len(src) = d - row
        BY <2>7
      <3> HIDE DEF p, row, d, src
      <3> QED
        BY <1>2, <1>3, <2>3, <2>4, <3>1
    <2>9. i \in DOMAIN src
      BY <1>1, <2>8
    <2> HIDE DEF i
    <2>10. x = first + i - 1
      BY <1>1, <2>7, <2>9 DEF UndoExactOf
    <2>11. x \in Nat /\ Len(src) \in Nat
      BY <1>1, SlotFacts
    <2>12. x >= first /\ x < first + Len(src)
      <3> HIDE DEF first, src
      <3> QED
        BY <1>1, <2>8, <2>10, <2>11
    <2> QED
      BY <2>1, <2>4, <2>12
  <1>13. ASSUME NEW w \in Addresses, IsWLBeginning(w.slot), w.sector = o, FailedOrLeft(f, w)
         PROVE  Left(k, w) /\ Behind(w, Ahead(k))
    <2>1. Ahead(k) = e
      BY <1>8 DEF Ahead
    <2>2. CASE w.slot = row
      <3>1. w.slot + PerWL <= e
        <4> HIDE DEF row
        <4> QED
          BY <1>3, <2>2
      <3> QED
        BY <1>12, <1>13, <2>1, <2>2, <3>1 DEF Behind
    <2>3. CASE Left(f, w) /\ Behind(w, d)
      <3>1. d <= e
        BY <1>2, <1>3
      <3>2. Behind(w, e)
        BY <1>2, <1>3, <2>3, <3>1, BehindLater
      <3> QED
        BY <1>11, <1>13, <2>1, <2>3, <3>2
    <2> QED
      BY <1>13, <2>2, <2>3 DEF FailedOrLeft, Ahead
  <1>14. RowInv(flash, k)
    BY <1>3, <1>8 DEF RowInv
  <1>15. DealtWith(flash, failedWL, k)
    BY <1>8, <1>13, <1>14, DealtGcMoved
  <1> QED
    BY <1>15 DEF k

\* The other sector becomes the current one: what is left behind in it is left
\* behind by the next write.
LEMMA DealtNewSector ==
  ASSUME NEW f, FaultInv(flash, f, NoJob), DealtWith(flash, failedWL, f), f.MainJob = "GC",
         f.IntrJob = "PASS", f.GcState = "V_M",
         NEW h, Same(f, h, {"IntrJob"}), h.IntrJob = "IDLE"
  PROVE  DealtWith(flash, failedWL, NewSectorValid(h))
  <1> DEFINE o == Oth(f)
             d == f.GcDest
             n == [h EXCEPT !.IntrJobFailCount = 0, !.CurrSector = o, !.StatePageAddr[o] = d,
                            !.NextFreeWL[o] = NextWL(d), !.NextFreePage = NextWL(d)]
             checked == IF Requested(n) THEN CurrBlkCheck(n) ELSE n
             k == NewSectorValid(h)
  <1>1. /\ FaultTypes(f) /\ f.CacheUpdated /\ f.UserJob = "IDLE"
        /\ o \in Sectors /\ o = Other(f.CurrSector)
    BY FaultGcFacts, FieldFacts
  <1>2. d \in Nat /\ BlankFrom(flash[o], d + 1)
    BY FaultGcEnded, SlotFacts
  <1>3. NextWL(d) \in Nat /\ d < NextWL(d) /\ Open(flash[o], NextWL(d))
    <2>1. OpenWL(flash[o], NextWL(d)) /\ NextWL(d) \in Nat /\ d < NextWL(d)
      BY <1>2, OpenAfter
    <2> HIDE DEF d, o
    <2> QED
      BY <2>1, OpenWordline
  <1>4. /\ h.GcDest = d /\ h.CurrSector = f.CurrSector /\ DOMAIN h = Fields
        /\ h.Cache = f.Cache /\ h.CacheUpdated /\ h.UserJob = "IDLE" /\ h.GcState = "V_M"
    BY <1>1 DEF Same, Fields
  <1>5. NewSectorValid(h) =
          CASE ThresholdCrossed(Free(n.NextFreePage), PerWL) ->
                 [GcFail(n) EXCEPT !.Req = StuckReq]
            [] /\ ~ThresholdCrossed(Free(n.NextFreePage), PerWL)
               /\ Requested(n) /\ ~BlkWritable(n) -> [GcFail(checked) EXCEPT !.Req = NoReq]
            [] OTHER -> [checked EXCEPT !.GcDest = 0, !.GcState = "ERASE", !.GcInit = FALSE]
    <2>1. Other(h.CurrSector) = o /\ h.GcDest = d
      BY <1>1, <1>4
    <2> HIDE DEF o, d
    <2> QED
      BY <2>1 DEF NewSectorValid
  <1>6. /\ n.CurrSector = o /\ n.NextFreePage = NextWL(d) /\ n.IntrJob = "IDLE"
        /\ DOMAIN n = Fields /\ n.Cache = f.Cache /\ n.CacheUpdated /\ n.UserJob = "IDLE"
        /\ n.GcState = "V_M"
    <2> HIDE DEF o, d
    <2> QED
      BY <1>4 DEF Fields
  <1> HIDE DEF n
  <1>7. /\ checked.NextFreePage \in Nat /\ NextWL(d) <= checked.NextFreePage
        /\ DOMAIN checked = Fields
        /\ \A x \in Fields \ {"NextFreePage"} : checked[x] = n[x]
    <2>1. CASE Requested(n)
      <3>1. CheckedPage(n) \in Nat /\ n.NextFreePage <= CheckedPage(n)
        BY <1>3, <1>6, CheckedOpen
      <3>2. checked = CurrBlkCheck(n)
        BY <2>1
      <3>3. /\ CurrBlkCheck(n).NextFreePage = CheckedPage(n) /\ DOMAIN CurrBlkCheck(n) = Fields
            /\ \A x \in Fields \ {"NextFreePage"} : CurrBlkCheck(n)[x] = n[x]
        BY <1>6 DEF CurrBlkCheck, Fields
      <3> QED
        BY <1>6, <3>1, <3>2, <3>3
    <2>2. CASE ~Requested(n)
      BY <1>3, <1>6, <2>2
    <2> QED
      BY <2>1, <2>2
  <1> HIDE DEF checked
  <1>8. ASSUME NEW p, p = n \/ p = checked, NEW g, k = g, DOMAIN g = Fields,
               \A x \in Fields \ {"GcState", "Req", "GcDest", "GcInit"} : g[x] = p[x],
               g.GcState \in {"FAIL", "ERASE"}
        PROVE  DealtWith(flash, failedWL, g)
    <2>1. /\ g.NextFreePage \in Nat /\ NextWL(d) <= g.NextFreePage
          /\ g.CacheUpdated /\ g.UserJob = "IDLE" /\ g.Cache = f.Cache /\ g.IntrJob = "IDLE"
          /\ g.CurrSector = o
      <3>1. g.NextFreePage = p.NextFreePage /\ NextWL(d) <= p.NextFreePage /\ p.NextFreePage \in Nat
        BY <1>3, <1>6, <1>7, <1>8 DEF Fields
      <3>2. \A x \in Fields \ {"GcState", "Req", "GcDest", "GcInit", "NextFreePage"} : g[x] = n[x]
        BY <1>7, <1>8
      <3> QED
        BY <1>6, <3>1, <3>2 DEF Fields
    <2>2. \A w : Left(f, w) <=> Left(g, w)
      BY <2>1 DEF Left
    <2>3. RowInv(flash, g)
      BY <1>8 DEF RowInv
    <2>4. ASSUME NEW w \in Addresses, CacheLeft(f, w), g.GcState = "ERASE"
          PROVE  CacheLeft(g, w)
      <3>1. CASE w.sector = o
        <4>1. o # Cur(f)
          BY FaultGcFacts
        <4>2. GcLeft(f, w)
          BY <1>1, <2>4, <3>1, <4>1 DEF CacheLeft
        <4>3. FailedOrLeft(f, w)
          BY <3>1, <4>2, OtherSector
        <4>4. Left(f, w) /\ Behind(w, d)
          BY <4>3 DEF FailedOrLeft, Ahead
        <4>5. d <= g.NextFreePage
          BY <1>2, <1>3, <2>1
        <4>6. Behind(w, g.NextFreePage)
          BY <1>2, <2>1, <4>4, <4>5, BehindLater
        <4> QED
          BY <2>1, <2>2, <2>4, <3>1, <4>4, <4>6 DEF CacheLeft, UserLeft, Cur
      <3>2. CASE w.sector # o
        BY <2>1, <2>4, <3>2 DEF CacheLeft, GcLeft, Copying, Cur
      <3> QED
        BY <3>1, <3>2
    <2>5. \A w \in Addresses : CacheLeft(f, w) => CacheLeft(g, w)
      BY <1>8, <2>4 DEF CacheLeft
    <2> QED
      BY <2>1, <2>3, <2>5, DealtGcFrame
  <1>9. CASE ThresholdCrossed(Free(n.NextFreePage), PerWL)
    <2> DEFINE g == [GcFail(n) EXCEPT !.Req = StuckReq]
    <2>1. /\ g.GcState = "FAIL" /\ DOMAIN g = Fields
          /\ \A x \in Fields \ {"GcState", "Req"} : g[x] = n[x]
      BY <1>6 DEF GcFail, Fields
    <2>2. k = g
      BY <1>5, <1>9
    <2> HIDE DEF g, k
    <2>3. \A x \in Fields \ {"GcState", "Req", "GcDest", "GcInit"} : g[x] = n[x]
      BY <2>1
    <2>4. DealtWith(flash, failedWL, g)
      BY <1>8, <2>1, <2>2, <2>3
    <2> QED
      BY <2>2, <2>4 DEF k
  <1>10. CASE /\ ~ThresholdCrossed(Free(n.NextFreePage), PerWL)
              /\ Requested(n) /\ ~BlkWritable(n)
    <2> DEFINE g == [GcFail(checked) EXCEPT !.Req = NoReq]
    <2>1. /\ g.GcState = "FAIL" /\ DOMAIN g = Fields
          /\ \A x \in Fields \ {"GcState", "Req"} : g[x] = checked[x]
      BY <1>7 DEF GcFail, Fields
    <2>2. k = g
      BY <1>5, <1>10
    <2> HIDE DEF g, k
    <2>3. \A x \in Fields \ {"GcState", "Req", "GcDest", "GcInit"} : g[x] = checked[x]
      BY <2>1
    <2>4. DealtWith(flash, failedWL, g)
      BY <1>8, <2>1, <2>2, <2>3
    <2> QED
      BY <2>2, <2>4 DEF k
  <1>11. CASE /\ ~ThresholdCrossed(Free(n.NextFreePage), PerWL)
              /\ ~(Requested(n) /\ ~BlkWritable(n))
    <2> DEFINE g == [checked EXCEPT !.GcDest = 0, !.GcState = "ERASE", !.GcInit = FALSE]
    <2>1. /\ g.GcState = "ERASE" /\ DOMAIN g = Fields
          /\ \A x \in Fields \ {"GcState", "GcDest", "GcInit"} : g[x] = checked[x]
      BY <1>7 DEF Fields
    <2>2. k = g
      BY <1>5, <1>11
    <2> HIDE DEF g, k
    <2>3. \A x \in Fields \ {"GcState", "Req", "GcDest", "GcInit"} : g[x] = checked[x]
      BY <2>1
    <2>4. DealtWith(flash, failedWL, g)
      BY <1>8, <2>1, <2>2, <2>3
    <2> QED
      BY <2>2, <2>4 DEF k
  <1> QED
    BY <1>9, <1>10, <1>11

\* The old sector has its ERASED page.
LEMMA DealtOldSector ==
  ASSUME NEW f, FaultInv(flash, f, NoJob), DealtWith(flash, failedWL, f), f.MainJob = "GC",
         f.IntrJob = "PASS", f.GcState = "E_M",
         NEW h, Same(f, h, {"IntrJob"}), h.IntrJob = "IDLE"
  PROVE  DealtWith(flash, failedWL, OldSectorErased(h))
  <1> DEFINE o == Oth(f)
             d == f.GcDest
             g == OldSectorErased(h)
             X == {"IntrJob", "IntrJobFailCount", "StatePageAddr", "NextFreeWL", "GcState", "GcInit"}
  <1>1. /\ o \in Sectors /\ o = Other(f.CurrSector) /\ f.NextFreeWL \in [Sectors -> Nat]
    BY FaultGcFacts, FieldFacts
  <1>2. d \in Nat /\ NextWL(d) \in Nat /\ d <= NextWL(d)
    <2>1. d \in Slots /\ d \in Nat /\ BlankFrom(flash[o], d + 1)
      BY FaultGcEnded, SlotFacts
    <2>2. NextWL(d) \in Nat /\ d < NextWL(d)
      BY <2>1, OpenAfter
    <2> QED
      BY <2>1, <2>2
  <1>3. /\ h.GcDest = d /\ h.CurrSector = f.CurrSector /\ DOMAIN h = Fields
        /\ h.NextFreeWL = f.NextFreeWL /\ h.Cache = f.Cache
    BY DEF Same, Fields
  <1>4. /\ g.GcState \in {"REQUESTED", "IDLE"}
        /\ g.NextFreeWL = [f.NextFreeWL EXCEPT ![o] = NextWL(d)]
        /\ g.IntrJob = "IDLE" /\ DOMAIN g = Fields /\ \A x \in Fields \ X : g[x] = f[x]
    BY <1>1, <1>3 DEF Same, Fields, OldSectorErased
  <1> HIDE DEF g
  <1>5. g.Cache = f.Cache /\ g.CurrSector = f.CurrSector /\ Oth(g) = o
    BY <1>4 DEF Fields, Oth
  <1>6. Ahead(g) = NextWL(d) /\ Ahead(f) = d
    BY <1>1, <1>2, <1>4, <1>5 DEF Ahead
  <1>7. Same(f, g, X) /\ X \subseteq GcFields \cup {"StatePageAddr", "NextFreeWL"}
    BY <1>4 DEF Same, GcFields
  <1> HIDE DEF X
  <1>8. DealtWith(flash, failedWL, g)
    BY <1>2, <1>4, <1>5, <1>6, <1>7, DealtGcPassed
  <1> QED
    BY <1>8 DEF g

\* The result of the job that has ended, and the job that it may start at once.
LEMMA DealtGcResult ==
  ASSUME NEW f, FaultInv(flash, f, NoJob), DealtWith(flash, failedWL, f), f.MainJob = "GC",
         f.IntrJob # "IDLE", job = NoJob, UndoExactOf(flash, f),
         NEW g, g = GcResult([f EXCEPT !.IntrJob = "IDLE"], f.IntrJob = "PASS"),
         \/ <<f.GcState, g.GcState>> \in GoesOn /\ GcStart(g)
         \/ <<f.GcState, g.GcState>> \notin GoesOn /\ Continue(g)
  PROVE  DealtWith(flash, failedWL, fee')
  <1> DEFINE h == [f EXCEPT !.IntrJob = "IDLE"]
             passed == f.IntrJob = "PASS"
  <1>1. /\ FaultTypes(f) /\ DOMAIN f = Fields /\ Oth(f) = Other(f.CurrSector)
        /\ f.IntrJob \in {"PASS", "FAIL"} /\ f.GcState \in Busy /\ f.GcDest \in Nat
    BY FaultGcFacts, FaultGcEnded, FieldFacts
  <1>2. Same(f, h, {"IntrJob"}) /\ h.IntrJob = "IDLE" /\ h.GcState = f.GcState
        /\ h.CurrSector = f.CurrSector /\ h.GcDest = f.GcDest /\ DOMAIN h = Fields
    BY <1>1 DEF Same, Fields
  <1>3. g = GcResult(h, passed)
    OBVIOUS
  <1> HIDE DEF h
  <1>4. ASSUME DealtWith(flash, failedWL, g), <<f.GcState, g.GcState>> \notin GoesOn
        PROVE  DealtWith(flash, failedWL, fee')
    <2>1. fee' = g
      BY <1>4 DEF Continue
    <2> QED
      BY <1>4, <2>1
  <1>5. CASE f.GcState = "COPY_WRITE"
    <2>1. <<f.GcState, g.GcState>> \notin GoesOn
      BY <1>5 DEF GoesOn
    <2>2. CASE f.IntrJob = "PASS"
      <3>1. g = CopyDone(h)
        BY <1>2, <1>3, <1>5, <2>2 DEF GcResult
      <3>2. DealtWith(flash, failedWL, CopyDone(h))
        BY <1>2, <1>5, <2>2, DealtCopyDone
      <3> QED
        BY <1>4, <2>1, <3>1, <3>2
    <2>3. CASE f.IntrJob = "FAIL"
      <3>1. g = CopyFailed(h)
        BY <1>2, <1>3, <1>5, <2>3 DEF GcResult
      <3>2. DealtWith(flash, failedWL, CopyFailed(h))
        BY <1>2, <1>5, <2>3, DealtCopyFailed
      <3> QED
        BY <1>4, <2>1, <3>1, <3>2
    <2> QED
      BY <1>1, <2>2, <2>3
  <1>6. ASSUME NEW p, NEW m, <<p, m>> \in {<<"V_SP", "V_M">>, <<"E_SP", "E_M">>}, f.GcState = p
        PROVE  DealtWith(flash, failedWL, fee')
    <2>1. CASE f.IntrJob = "PASS"
      <3>1. g = [h EXCEPT !.GcState = m]
        BY <1>2, <1>3, <1>6, <2>1 DEF GcResult
      <3>2. /\ g.GcState = m /\ g.IntrJob = "IDLE" /\ g.GcDest = f.GcDest /\ g.Cache = f.Cache
            /\ Same(f, g, {"GcState", "IntrJob"})
        BY <1>2, <3>1 DEF Same, Fields
      <3>3. GcStart(g) /\ m \in {"V_M", "E_M"}
        BY <1>6, <3>2 DEF GoesOn
      <3>4. fee' = g
        BY <1>1, <3>2, <3>3 DEF GcStart, Start
      <3>5. Ahead(g) = f.GcDest /\ Ahead(f) = f.GcDest
        BY <1>6, <3>2, <3>3 DEF Ahead
      <3>6. {"GcState", "IntrJob"} \subseteq GcFields \cup {"StatePageAddr", "NextFreeWL"}
        BY DEF GcFields
      <3>7. f.GcDest <= f.GcDest
        BY <1>1
      <3>8. DealtWith(flash, failedWL, g)
        BY <1>1, <1>6, <2>1, <3>2, <3>3, <3>5, <3>6, <3>7, DealtGcPassed
      <3> QED
        BY <3>4, <3>8
    <2>2. CASE f.IntrJob = "FAIL"
      <3>1. g = PageFailed(h, p)
        BY <1>2, <1>3, <1>6, <2>2 DEF GcResult
      <3>2. DealtWith(flash, failedWL, g)
        BY <1>2, <1>6, <2>2, <3>1, DealtPageFailed
      <3>3. g.GcState \in {p, "FAIL"}
        BY <1>2, <3>1 DEF PageFailed, GcFail, Fields
      <3>4. <<f.GcState, g.GcState>> \notin GoesOn
        BY <1>6, <3>3 DEF GoesOn
      <3> QED
        BY <1>4, <3>2, <3>4
    <2> QED
      BY <1>1, <2>1, <2>2
  <1>7. CASE f.GcState = "V_M"
    <2>1. <<f.GcState, g.GcState>> \notin GoesOn
      BY <1>7 DEF GoesOn
    <2>2. CASE f.IntrJob = "PASS"
      <3>1. g = NewSectorValid(h)
        BY <1>2, <1>3, <1>7, <2>2 DEF GcResult
      <3>2. DealtWith(flash, failedWL, NewSectorValid(h))
        BY <1>2, <1>7, <2>2, DealtNewSector
      <3> QED
        BY <1>4, <2>1, <3>1, <3>2
    <2>3. CASE f.IntrJob = "FAIL"
      <3>1. g = PageFailed(h, "V_SP")
        BY <1>2, <1>3, <1>7, <2>3 DEF GcResult
      <3>2. DealtWith(flash, failedWL, g)
        BY <1>2, <1>7, <2>3, <3>1, DealtPageFailed
      <3> QED
        BY <1>4, <2>1, <3>2
    <2> QED
      BY <1>1, <2>2, <2>3
  <1>8. CASE f.GcState = "E_M"
    <2>1. <<f.GcState, g.GcState>> \notin GoesOn
      BY <1>8 DEF GoesOn
    <2>2. CASE f.IntrJob = "PASS"
      <3>1. g = OldSectorErased(h)
        BY <1>2, <1>3, <1>8, <2>2 DEF GcResult
      <3>2. DealtWith(flash, failedWL, OldSectorErased(h))
        BY <1>2, <1>8, <2>2, DealtOldSector
      <3> QED
        BY <1>4, <2>1, <3>1, <3>2
    <2>3. CASE f.IntrJob = "FAIL"
      <3>1. g = PageFailed(h, "E_SP")
        BY <1>2, <1>3, <1>8, <2>3 DEF GcResult
      <3>2. DealtWith(flash, failedWL, g)
        BY <1>2, <1>8, <2>3, <3>1, DealtPageFailed
      <3> QED
        BY <1>4, <2>1, <3>2
    <2> QED
      BY <1>1, <2>2, <2>3
  <1>9. CASE f.GcState = "ERASE"
    <2>1. CASE f.IntrJob = "PASS"
      <3>1. g = EraseDone(h)
        BY <1>2, <1>3, <1>9, <2>1 DEF GcResult
      <3>2. FaultInv(flash, g, NoJob) /\ g.GcState = "E_SP" /\ g.IntrJob = "IDLE" /\ g.MainJob = "GC"
        BY <1>2, <1>9, <2>1, <3>1, FaultEraseDone
      <3>3. GcStart(g)
        BY <1>9, <3>2 DEF GoesOn
      <3> DEFINE X == {"IntrJob", "GcState", "IntrJobFailCount", "StateCount"}
      <3>4. Same(f, g, X) /\ g.Cache = f.Cache /\ X \subseteq GcFields \cup {"StatePageAddr", "NextFreeWL"}
        <4>1. X \subseteq GcFields \cup {"StatePageAddr", "NextFreeWL"}
          BY DEF GcFields
        <4>2. DOMAIN h = Fields /\ \A x \in Fields \ {"IntrJob"} : h[x] = f[x]
          BY <1>2 DEF Same
        <4>3. DOMAIN g = Fields /\ \A x \in Fields \ X : g[x] = f[x]
          BY <3>1, <4>2 DEF EraseDone
        <4>4. "Cache" \in Fields \ X
          BY DEF Fields
        <4> HIDE DEF X
        <4>5. g["Cache"] = f["Cache"]
          BY <4>3, <4>4
        <4> QED
          BY <4>1, <4>3, <4>5 DEF Same
      <3> HIDE DEF X
      <3>5. DealtWith(flash, failedWL, g)
        BY <1>9, <2>1, <3>2, <3>4, DealtGcPassed
      <3> QED
        BY <3>2, <3>3, <3>5, DealtGcStart
    <2>2. CASE f.IntrJob = "FAIL"
      <3>1. g = EraseFailed(h)
        BY <1>2, <1>3, <1>9, <2>2 DEF GcResult
      <3>2. DealtWith(flash, failedWL, g)
        BY <1>2, <1>9, <2>2, <3>1, DealtEraseFailed
      <3>3. g.GcState \in {"ERASE", "FAIL"}
        BY <1>2, <1>9, <3>1 DEF EraseFailed, GcFail, Fields
      <3>4. <<f.GcState, g.GcState>> \notin GoesOn
        BY <1>9, <3>3 DEF GoesOn
      <3> QED
        BY <1>4, <3>2, <3>4
    <2> QED
      BY <1>1, <2>1, <2>2
  <1>10. /\ <<"V_SP", "V_M">> \in {<<"V_SP", "V_M">>, <<"E_SP", "E_M">>}
         /\ <<"E_SP", "E_M">> \in {<<"V_SP", "V_M">>, <<"E_SP", "E_M">>}
    OBVIOUS
  <1>11. f.GcState \in {"V_SP", "E_SP"} => DealtWith(flash, failedWL, fee')
    BY <1>6, <1>10
  <1> QED
    BY <1>1, <1>5, <1>7, <1>8, <1>9, <1>11 DEF Busy

\* A step of the collection.
LEMMA DealtGarbageCollection ==
  ASSUME NEW f, FaultInv(flash, f, NoJob), DealtWith(flash, failedWL, f), job = NoJob,
         UndoExactOf(flash, f), GarbageCollection(f)
  PROVE  DealtWith(flash, failedWL, fee')
  <1>1. f.MainJob = "GC"
    BY DEF GarbageCollection
  <1>2. CASE f.IntrJob = "IDLE"
    BY <1>1, <1>2, DealtGcStart DEF GarbageCollection
  <1>3. CASE f.IntrJob # "IDLE"
    <2> DEFINE g == GcResult([f EXCEPT !.IntrJob = "IDLE"], f.IntrJob = "PASS")
    <2>1. \/ <<f.GcState, g.GcState>> \in GoesOn /\ GcStart(g)
          \/ <<f.GcState, g.GcState>> \notin GoesOn /\ Continue(g)
      BY <1>3 DEF GarbageCollection
    <2>2. g = GcResult([f EXCEPT !.IntrJob = "IDLE"], f.IntrJob = "PASS")
      OBVIOUS
    <2> HIDE DEF g
    <2> QED
      BY <1>1, <1>3, <2>1, <2>2, DealtGcResult
  <1> QED
    BY <1>2, <1>3

\* A call of the main function.
LEMMA DealtMainFunction ==
  ASSUME WLs >= 6, FaultInv(flash, fee, job), DealtWith(flash, failedWL, fee), UndoExact,
         MainFunction
  PROVE  DealtWith(flash', failedWL', fee')
  <1> DEFINE f == DecideMainJob(fee)
  <1>1. flash' = flash /\ failedWL' = failedWL
    BY DEF MainFunction
  <1>2. /\ FaultInv(flash, f, job)
        /\ \A x \in Fields \ {"MainJob", "NextFreePage"} : f[x] = fee[x]
        /\ f.MainJob \in {"READ", "WRITE"} => f.Req # NoReq
        /\ f.MainJob = "READ" /\ job = NoJob => Stage(f, "toRead")
    BY FaultDecide
  <1>3. f.MainJob = "CACHEUPDATE" => ~fee.CacheUpdated
    BY FaultCacheBuiltOnce
  <1>4. \/ Continue(f)
        \/ job = NoJob /\ (InitGC(f) \/ UpdateCache(f) \/ LocalRead(f) \/ LocalWrite(f)
                           \/ GarbageCollection(f))
    BY DEF MainFunction
  <1>5. DealtWith(flash, failedWL, f)
    BY DealtDecide
  <1> HIDE DEF f
  <1>6. UndoExactOf(flash, f) /\ f.CacheUpdated = fee.CacheUpdated
    <2>1. /\ f.CacheUpdated = fee.CacheUpdated /\ f.GcState = fee.GcState
          /\ f.IntrJob = fee.IntrJob
          /\ f.IntrJobFailCount = fee.IntrJobFailCount /\ f.GcSrcAddr = fee.GcSrcAddr
          /\ f.GcFirstBlkInWL = fee.GcFirstBlkInWL /\ f.GcCopyIndex = fee.GcCopyIndex
      BY <1>2 DEF Fields
    <2> QED
      BY <2>1 DEF UndoExact, UndoExactOf
  <1>7. SUFFICES DealtWith(flash, failedWL, fee')
    BY <1>1
  <1>8. CASE Continue(f)
    BY <1>5, <1>8 DEF Continue
  <1>9. CASE job = NoJob /\ InitGC(f)
    BY <1>2, <1>5, <1>9, DealtInitGC
  <1>10. CASE job = NoJob /\ UpdateCache(f)
    <2>1. ~f.CacheUpdated
      BY <1>3, <1>6, <1>10 DEF UpdateCache
    <2> QED
      BY <1>2, <1>5, <1>10, <2>1, DealtUpdateCache
  <1>11. CASE job = NoJob /\ LocalRead(f)
    <2>1. Stage(f, "toRead")
      BY <1>2, <1>11 DEF LocalRead
    <2> QED
      BY <1>2, <1>5, <1>11, <2>1, DealtLocalRead
  <1>12. CASE job = NoJob /\ LocalWrite(f)
    <2>1. f.Req # NoReq
      BY <1>2, <1>12 DEF LocalWrite
    <2> QED
      BY <1>2, <1>5, <1>12, <2>1, DealtLocalWrite
  <1>13. CASE job = NoJob /\ GarbageCollection(f)
    BY <1>2, <1>5, <1>6, <1>13, DealtGarbageCollection
  <1> QED
    BY <1>4, <1>8, <1>9, <1>10, <1>11, <1>12, <1>13

-----------------------------------------------------------------------------
(* The end of a job. *)

\* Which result a job gives to whom.
LEMMA NotifiedFields ==
  ASSUME NEW f, NEW j, FaultInv(flash, f, j), j # NoJob, NEW result \in {"PASS", "FAIL"}
  PROVE  LET g == Notified(f, j, result)
         IN /\ Same(f, g, {"Req", "UserJob", "IntrJob"})
            /\ \/ /\ j.op = "read" /\ Stage(f, "reading") /\ ~UserWrites(f) /\ f.UserJob = "IDLE"
                  /\ g.Req = NoReq /\ g.UserJob = f.UserJob /\ g.IntrJob = f.IntrJob
               \/ /\ j.op = "program" /\ j.sector = Cur(f) /\ j.addr = f.NextFreePage
                  /\ UserWrites(f) /\ f.UserJob = "IDLE"
                  /\ f.CacheUpdated /\ ~IntrRuns(j)
                  /\ g.Req = f.Req /\ g.UserJob = result /\ g.IntrJob = f.IntrJob
               \/ /\ IntrRuns(j) /\ j.op # "read" /\ ~UserWrites(f) /\ f.UserJob = "IDLE"
                  /\ f.IntrJob = "IDLE"
                  /\ g.Req = f.Req /\ g.UserJob = f.UserJob /\ g.IntrJob = result
  <1> DEFINE g == Notified(f, j, result)
  <1>1. /\ FaultTypes(f) /\ DOMAIN f = Fields /\ UserFault(flash, f, j) /\ MainInv(f, j)
    BY FieldFacts DEF FaultInv
  <1>2. CASE ~IntrRuns(j) /\ UserWrites(f)
    <2>1. Programming(flash, j, "user", Cur(f), f.NextFreePage, UserCell(flash, f))
          /\ f.CacheUpdated /\ f.UserJob = "IDLE"
      <3>1. ~Stage(f, "reading")
        BY <1>2 DEF UserWrites, Stage
      <3> QED
        BY <1>2, <3>1, FaultForms
    <2>2. j.op = "program" /\ j.owner = "user" /\ j.sector = Cur(f) /\ j.addr = f.NextFreePage
      BY <2>1 DEF Programming, Programs, IsJob
    <2>3. g = [f EXCEPT !.UserJob = result]
      BY <2>2 DEF Notified
    <2> HIDE DEF g
    <2>4. /\ g.Req = f.Req /\ g.UserJob = result /\ g.IntrJob = f.IntrJob
          /\ Same(f, g, {"Req", "UserJob", "IntrJob"})
      BY <1>1, <2>3 DEF Same, Fields
    <2> QED
      BY <1>2, <2>1, <2>2, <2>4 DEF g
  <1>3. CASE ~IntrRuns(j) /\ ~UserWrites(f)
    <2>1. Stage(f, "reading") /\ \E at \in Addresses : Reads(flash, j, at)
      BY <1>3, FaultForms
    <2>2. j.op = "read"
      BY <2>1 DEF Reads, IsJob
    <2>3. g = [f EXCEPT !.Req = NoReq]
      BY <2>2 DEF Notified
    <2>5. f.UserJob = "IDLE"
      BY <1>1, <1>3 DEF UserFault
    <2> HIDE DEF g
    <2>4. /\ g.Req = NoReq /\ g.UserJob = f.UserJob /\ g.IntrJob = f.IntrJob
          /\ Same(f, g, {"Req", "UserJob", "IntrJob"})
      BY <1>1, <2>3 DEF Same, Fields
    <2> QED
      BY <1>3, <2>1, <2>2, <2>4, <2>5 DEF g
  <1>4. CASE IntrRuns(j)
    <2>1. ~UserWrites(f) /\ f.UserJob = "IDLE" /\ f.IntrJob = "IDLE" /\ j.owner = "intr"
      BY <1>1, <1>4, StagesMain DEF UserFault, MainInv, IntrRuns
    <2>2. j.op # "read"
      <3>1. f.InitGCState \in {"PREPARE", "DIRTY", "COMPLETE"}
        BY <1>4, FaultForms
      <3>2. Outcome(j, CHOOSE c \in Partial(j) : TRUE, "FAIL") \/ Partial(j) = {}
        BY DEF Outcome
      <3>3. Harmless(flash, j) /\ InOrder(flash)
        BY JobsHarmless DEF FaultInv
      <3>4. Partial(j) # {}
        BY <3>3, JobCompletes
      <3> QED
        BY <1>4, <3>1, <3>2, <3>4, PrepJobEnds, RepairJobEnds, GcJobEnds
    <2>3. g = [f EXCEPT !.IntrJob = result]
      BY <2>1, <2>2 DEF Notified
    <2> HIDE DEF g
    <2>4. /\ g.Req = f.Req /\ g.UserJob = f.UserJob /\ g.IntrJob = result
          /\ Same(f, g, {"Req", "UserJob", "IntrJob"})
      BY <1>1, <2>3 DEF Same, Fields
    <2> QED
      BY <1>4, <2>1, <2>2, <2>4 DEF g
  <1> QED
    BY <1>2, <1>3, <1>4

\* A job of the initialisation makes no copy.
LEMMA StartJobCopies ==
  ASSUME FaultInv(flash, fee, job), job # NoJob, ~fee.CacheUpdated,
         NEW cells, NEW result, Outcome(job, cells, result)
  PROVE  \A t \in Sectors : \A p \in Slots :
           After(flash, job.sector, cells)[t][p].kind = "copy" => flash[t][p].kind = "copy"
  <1> DEFINE new == After(flash, job.sector, cells)
  <1>1. InOrder(flash) /\ Harmless(flash, job) /\ MainInv(fee, job)
    BY JobsHarmless DEF FaultInv
  <1>2. /\ new[job.sector] = cells /\ Changes(flash, job, cells) /\ job.sector \in Sectors
        /\ \A t \in Sectors : t # job.sector => new[t] = flash[t]
    BY <1>1, JobOutcome DEF Harmless
  <1> HIDE DEF new
  <1>3. (job.op = "program" /\ job.cell.kind = "state") \/ job.op = "marker"
    <2>1. ASSUME NEW s, NEW a, PageRuns(flash, job, s, a) PROVE job.op = "program" /\ job.cell.kind = "state"
      BY <2>1 DEF PageRuns, IsJob, IsPage, Pages
    <2>2. ASSUME NEW s, NEW a, Marks(flash, job, s, a) PROVE job.op = "marker"
      BY <2>2 DEF Marks, IsJob
    <2>3. ~(fee.InitGCState = "COMPLETE" /\ IntrRuns(job))
      BY <1>1 DEF MainInv, Quiet
    <2> QED
      BY <2>1, <2>2, <2>3, FaultForms DEF MarkerRuns
  <1>4. ASSUME NEW p \in Slots, cells[p].kind = "copy" PROVE flash[job.sector][p].kind = "copy"
    <2>1. CASE job.op = "marker"
      BY <1>2, <1>4, <2>1 DEF Changes
    <2>2. CASE job.op = "program" /\ job.cell.kind = "state"
      <3> DEFINE old == flash[job.sector]
      <3>1. old \in [Slots -> Cells]
        BY <1>1, <1>2, OrderFacts
      <3>2. PICK c \in {old[job.addr], Torn, job.cell} : cells = [old EXCEPT ![job.addr] = c]
        BY <2>2, PartialProgram DEF Outcome
      <3> HIDE DEF old
      <3>3. p # job.addr => cells[p] = old[p]
        BY <3>1, <3>2
      <3>4. p = job.addr => cells[p] = c
        BY <3>1, <3>2
      <3>5. Torn.kind # "copy"
        BY DEF Torn
      <3> QED
        BY <1>4, <2>2, <3>2, <3>3, <3>4, <3>5 DEF old
    <2> QED
      BY <1>3, <2>1, <2>2
  <1>5. \A t \in Sectors : \A p \in Slots : new[t][p].kind = "copy" => flash[t][p].kind = "copy"
    BY <1>2, <1>4
  <1> QED
    BY <1>5 DEF new

\* A job leaves the sources of a collection as they are.
LEMMA RowJob ==
  ASSUME FaultInv(flash, fee, job), job # NoJob, RowInv(flash, fee),
         NEW cells, NEW result, Outcome(job, cells, result)
  PROVE  RowInv(After(flash, job.sector, cells), Notified(fee, job, result))
  <1> DEFINE new == After(flash, job.sector, cells)
             g == Notified(fee, job, result)
  <1>1. /\ InOrder(flash) /\ Harmless(flash, job) /\ MainInv(fee, job) /\ FaultTypes(fee)
        /\ CacheFault(flash, fee) /\ result \in {"PASS", "FAIL"} /\ Cur(fee) \in Sectors
    BY JobsHarmless, FieldFacts DEF FaultInv, Outcome
  <1>2. job.op # "erase" =>
          \A p \in Slots : flash[Cur(fee)][p].kind = "copy" => new[Cur(fee)][p] = flash[Cur(fee)][p]
    BY <1>1, JobOutcome
  <1>3. Same(fee, g, {"Req", "UserJob", "IntrJob"})
    BY <1>1, NotifiedFields
  <1> HIDE DEF new, g
  <1>4. /\ g.GcState = fee.GcState /\ g.CurrSector = fee.CurrSector /\ g.GcDest = fee.GcDest
        /\ g.GcSrcAddr = fee.GcSrcAddr /\ g.Cache = fee.Cache
    BY <1>3 DEF Same, Fields
  <1>5. job.op = "erase" => fee.GcState = "ERASE"
    <2>1. \A s, a : PageRuns(flash, job, s, a) => job.op = "program"
      BY DEF PageRuns, IsJob
    <2>2. \A s, a : Marks(flash, job, s, a) => job.op = "marker"
      BY DEF Marks, IsJob
    <2>3. \A o, s, a, c : Programming(flash, job, o, s, a, c) => job.op = "program"
      BY DEF Programming, Programs, IsJob
    <2>4. \A at : Reads(flash, job, at) => job.op = "read"
      BY DEF Reads, IsJob
    <2> QED
      BY <2>1, <2>2, <2>3, <2>4, FaultForms DEF MarkerRuns, Busy
  <1>6. RowInv(new, g)
    <2>1. fee.CacheUpdated \/ fee.GcState \notin {"START_COPY", "COPY_WRITE"}
      BY <1>1 DEF MainInv
    <2>2. fee.GcState \in {"START_COPY", "COPY_WRITE"} => job.op # "erase"
      BY <1>5
    <2> QED
      BY <1>1, <1>2, <1>4, <2>1, <2>2, RowKept
  <1> QED
    BY <1>6 DEF new, g

\* A job ends well: only the erasure of a sector makes its wordlines good.
LEMMA DealtJobEnds ==
  ASSUME FaultInv(flash, fee, job), DealtWith(flash, failedWL, fee), JobEndNotification
  PROVE  DealtWith(flash', failedWL', fee')
  <1> DEFINE cells == Finished(job)
             g == Notified(fee, job, "PASS")
             new == After(flash, job.sector, cells)
  <1>1. /\ job # NoJob /\ flash' = new /\ fee' = g
        /\ failedWL' = IF job.op = "erase"
                       THEN {w \in failedWL : w.sector # job.sector} ELSE failedWL
    BY DEF JobEndNotification, JobEnd, After, Notified
  <1>2. /\ InOrder(flash) /\ Harmless(flash, job) /\ MainInv(fee, job) /\ FaultTypes(fee)
        /\ UserFault(flash, fee, job)
        /\ FirstFailure(fee) /\ RowInv(flash, fee) /\ fee.NextFreePage \in Nat
        /\ Cur(fee) \in Sectors
    BY <1>1, JobsHarmless, FieldFacts DEF FaultInv, DealtWith
  <1>3. Outcome(job, cells, "PASS")
    BY <1>2, JobCompletes DEF Outcome
  <1>4. RowInv(new, g)
    BY <1>1, <1>2, <1>3, RowJob
  <1>5. ~fee.CacheUpdated =>
          \A t \in Sectors : \A p \in Slots : new[t][p].kind = "copy" => flash[t][p].kind = "copy"
    BY <1>1, <1>3, StartJobCopies
  <1>6. /\ Same(fee, g, {"Req", "UserJob", "IntrJob"})
        /\ \/ /\ job.op = "read" /\ ~UserWrites(fee) /\ fee.UserJob = "IDLE"
              /\ g.Req = NoReq /\ g.UserJob = fee.UserJob /\ g.IntrJob = fee.IntrJob
           \/ /\ job.op = "program" /\ UserWrites(fee) /\ fee.UserJob = "IDLE"
              /\ g.Req = fee.Req /\ g.UserJob = "PASS" /\ g.IntrJob = fee.IntrJob
           \/ /\ IntrRuns(job) /\ ~UserWrites(fee) /\ fee.UserJob = "IDLE" /\ fee.IntrJob = "IDLE"
              /\ g.Req = fee.Req /\ g.UserJob = fee.UserJob /\ g.IntrJob = "PASS"
    <2>1. "PASS" \in {"PASS", "FAIL"}
      OBVIOUS
    <2> QED
      BY <1>1, <2>1, NotifiedFields
  <1> HIDE DEF new, g, cells
  <1>7. /\ g.InitGCState = fee.InitGCState /\ g.RepairStep = fee.RepairStep
        /\ g.PrepStep = fee.PrepStep /\ g.PrepDest = fee.PrepDest /\ g.CurrSector = fee.CurrSector
        /\ g.StatePageAddr = fee.StatePageAddr /\ g.NextFreeWL = fee.NextFreeWL
        /\ g.CacheUpdated = fee.CacheUpdated /\ g.Cache = fee.Cache /\ g.GcDest = fee.GcDest
        /\ g.GcState = fee.GcState /\ g.NextFreePage = fee.NextFreePage
        /\ g.IntrJobFailCount = fee.IntrJobFailCount /\ g.Affected = fee.Affected
        /\ g.UserJobFailCount = fee.UserJobFailCount
    BY <1>6 DEF Same, Fields
  <1>8. FirstFailure(g)
    BY <1>2, <1>6, <1>7, FirstFailureKept DEF Stage
  <1>9. ASSUME NEW w \in failedWL'
        PROVE  WordlineLeft(new, g, w)
    <2>1. w \in failedWL /\ (job.op = "erase" => w.sector # job.sector)
      BY <1>1, <1>9
    <2>2. w \in Addresses /\ IsWLBeginning(w.slot) /\ StartLeft(flash, fee, w) /\ CacheLeft(fee, w)
      BY <2>1 DEF DealtWith, WordlineLeft
    <2>3. ~fee.CacheUpdated /\ NoCopyIn(flash, w) => NoCopyIn(new, w)
      <3>1. w.sector \in Sectors
        BY <2>2, AddressFacts
      <3> QED
        BY <1>5, <3>1 DEF NoCopyIn
    <2>4. StartLeft(new, g, w)
      BY <1>6, <1>7, <2>2, <2>3, StartLeftKept
    <2>5. w.sector # Cur(fee) /\ g.GcState = "ERASE" /\ g.IntrJob = "PASS" => fee.IntrJob = "PASS"
      <3>1. SUFFICES ASSUME w.sector # Cur(fee), fee.GcState = "ERASE", g.IntrJob = "PASS",
                            fee.IntrJob # "PASS"
                     PROVE  FALSE
        BY <1>7
      <3>2. IntrRuns(job)
        BY <1>6, <3>1
      <3>3. fee.InitGCState = "COMPLETE"
        BY <1>2, <3>1 DEF MainInv
      <3>4. Erases(job, Oth(fee))
        BY <1>1, <3>1, <3>2, <3>3, FaultForms
      <3>5. job.op = "erase" /\ job.sector = Oth(fee)
        BY <3>4 DEF Erases, IsJob
      <3>6. w.sector = Oth(fee)
        BY <1>2, <2>2, <3>1, AddressFacts, SlotFacts DEF Oth, Cur
      <3> QED
        BY <2>1, <3>5, <3>6
    <2>6. w.sector = Cur(fee) /\ g.GcState = "COPY_WRITE" /\ g.IntrJob = "FAIL"
            => fee.IntrJob = "FAIL"
      BY <1>6
    <2>7. fee.IntrJob = "FAIL" => g.IntrJob = "FAIL"
      BY <1>6
    <2>8. UserWrites(fee) => g.Req = fee.Req /\ (fee.UserJob = "FAIL" => g.UserJob = "FAIL")
      BY <1>6
    <2>9. CacheLeft(g, w)
      BY <1>2, <1>7, <2>2, <2>5, <2>6, <2>7, <2>8, CacheLeftKept
    <2> QED
      BY <2>2, <2>4, <2>9 DEF WordlineLeft
  <1> QED
    BY <1>1, <1>4, <1>8, <1>9 DEF DealtWith

-----------------------------------------------------------------------------
(* Before the first failure: AloneInv. *)

\* A job, done or cut off, puts no copy into the wordline of a VALID page.
LEMMA AloneJob ==
  ASSUME Inv(flash, fee, job), AloneInv(flash, fee), job # NoJob, NEW cells \in Partial(job)
  PROVE  \A s \in Sectors : PageAlone(After(flash, job.sector, cells)[s])
  <1> DEFINE old == flash[job.sector]
             a == job.addr
  <1>1. /\ FlashOk(flash) /\ IsFee(fee) /\ JobSafe(flash, job) /\ job.sector \in Sectors
        /\ old \in [Slots -> Cells] /\ \A s \in Sectors : PageAlone(flash[s])
        /\ \A p \in Slots : old[p] \in Cells
    BY JobsAreSafe DEF Inv, JobSafe, FlashOk, AloneInv
  <1>2. SUFFICES PageAlone(cells)
    BY <1>1, AfterSectors
  <1>3. ASSUME \A p \in Slots : /\ IsState(cells[p], "VALID") => IsState(old[p], "VALID")
                                /\ cells[p].kind = "copy" => old[p].kind = "copy"
        PROVE  PageAlone(cells)
    BY <1>1, <1>3 DEF PageAlone
  <1>4. CASE job.op = "read"
    BY <1>3, <1>4, PartialRead
  <1>5. CASE job.op = "erase"
    <2>1. \/ \A p \in Slots : cells[p] = Blank
          \/ \A p \in Slots : cells[p] = old[p] \/ cells[p] = Torn
      BY <1>1, <1>5, PartialErase
    <2> QED
      BY <1>3, <2>1, BuiltCells DEF IsState
  <1>6. CASE job.op = "marker"
    <2>1. /\ \A p \in Slots : p # a => cells[p] = old[p]
          /\ old[a].kind = "state" /\ cells[a].kind = "state" /\ cells[a].st = old[a].st
      BY <1>1, <1>6, ShapeAfterMarker
    <2> QED
      BY <1>3, <2>1 DEF IsState
  <1>7. CASE job.op = "program"
    <2>1. PICK c \in {old[a], Torn, job.cell} : cells = [old EXCEPT ![a] = c]
      BY <1>7, PartialProgram
    <2>2. /\ a \in Slots /\ cells[a] = c /\ \A p \in Slots : p # a => cells[p] = old[p]
          /\ job.cell.kind \in {"copy", "state"}
      BY <1>1, <1>7, <2>1 DEF JobSafe, IsState
    <2> HIDE DEF old, a
    <2>3. CASE c \in {old[a], Torn}
      BY <1>3, <2>2, <2>3, BuiltCells DEF IsState
    <2>4. CASE c = job.cell /\ job.cell.kind = "state"
      <3>1. \A p \in WLBeginning(a) .. NextWL(a) - 1 : old[p] = Blank
        BY <1>1, <1>7, <2>4, BlankFlash DEF ProgramsBlankFlash, old, a
      <3>2. \A p \in Slots : cells[p].kind = "copy" => p # a /\ old[p].kind = "copy"
        BY <2>2, <2>4
      <3>3. ASSUME NEW p \in Slots, cells[p].kind = "copy" PROVE WLBeginning(p) # a
        <4>1. SUFFICES ASSUME WLBeginning(p) = a PROVE FALSE
          OBVIOUS
        <4>2. p \in Nat /\ a \in Nat /\ IsWLBeginning(a) /\ a <= p /\ p < a + PerWL /\ PerWL \in Nat
          BY <4>1, SlotFacts, WordlineFacts
        <4>3. WLBeginning(a) = a /\ NextWL(a) = a + PerWL
          BY <4>2, WordlineFacts
        <4>4. p \in WLBeginning(a) .. NextWL(a) - 1
          BY <4>2, <4>3
        <4> QED
          BY <3>1, <3>2, <3>3, <4>4, BuiltCells
      <3>4. ASSUME NEW v \in Slots, IsState(cells[v], "VALID"), v # a,
                   NEW p \in Slots, cells[p].kind = "copy"
            PROVE  WLBeginning(p) # v
        <4>1. IsState(old[v], "VALID") /\ old[p].kind = "copy"
          BY <2>2, <3>2, <3>4
        <4> QED
          BY <1>1, <4>1 DEF PageAlone, old
      <3> QED
        BY <3>3, <3>4 DEF PageAlone
    <2>5. CASE c = job.cell /\ job.cell.kind = "copy"
      <3>1. ASSUME NEW v \in Slots, IsState(old[v], "VALID") PROVE WLBeginning(a) # v
        <4>1. \/ /\ job.sector = Cur(fee) /\ a = fee.NextFreePage /\ fee.CacheUpdated
              \/ NoValidIn(old)
          <5>1. fee.InitGCState = "PREPARE" /\ IntrRuns(job) /\ fee.IntrJob = "IDLE" => FALSE
            <6>1. SUFFICES ASSUME fee.InitGCState = "PREPARE", IntrRuns(job), fee.IntrJob = "IDLE"
                           PROVE  FALSE
              OBVIOUS
            <6>2. /\ job.op = IF fee.PrepStep % 2 = 1 THEN "program" ELSE "marker"
                  /\ fee.PrepStep % 2 = 1 =>
                       job.cell = StatePage(PrepState[fee.PrepStep], fee.StateCount, "none")
              BY <1>1, <6>1, PrepJobSafe DEF Inv
            <6> QED
              BY <1>7, <2>5, <6>2 DEF StatePage
          <5>2. fee.InitGCState = "DIRTY" /\ IntrRuns(job) => FALSE
            BY <1>1, <1>7, RepairSafe DEF Inv
          <5>3. \A at : ~Reads(flash, job, at)
            BY <1>7 DEF Reads, IsJob
          <5>4. ASSUME fee.InitGCState = "COMPLETE", fee.GcState \in Busy, IntrRuns(job),
                       fee.IntrJob = "IDLE", GcRunning(flash, fee, job)
                PROVE  NoValidIn(old)
            <6>1. /\ job.sector = Oth(fee) /\ job.cell = GcCell(flash, fee)
                  /\ fee.GcState \in {"COPY_WRITE", "V_SP", "E_SP"}
              BY <1>7, <5>4, GcJobSafe
            <6>2. fee.GcState \in {"V_SP", "E_SP"} => job.cell.kind = "state"
              BY <6>1 DEF GcCell, StatePage
            <6>3. fee.GcState = "COPY_WRITE"
              BY <2>5, <6>1, <6>2
            <6> QED
              BY <5>4, <6>1, <6>3 DEF GcRunning, Filling, old
          <5>5. Programs(job, "user", Cur(fee), fee.NextFreePage, BlockCopy(fee.Req.blk, fee.Req.val))
                  => job.sector = Cur(fee) /\ a = fee.NextFreePage
            BY DEF Programs, IsJob, a
          <5> QED
            BY <1>7, <5>1, <5>2, <5>3, <5>4, <5>5, JobForms
        <4>2. ASSUME job.sector = Cur(fee), a = fee.NextFreePage, fee.CacheUpdated
              PROVE  WLBeginning(a) # v
          <5>1. v + PerWL <= a
            BY <3>1, <4>2 DEF AloneInv, old
          <5>2. a \in Nat /\ v \in Nat
            BY <2>2, SlotFacts
          <5>3. a < WLBeginning(a) + PerWL /\ PerWL \in Nat /\ WLBeginning(a) \in Nat
            BY <5>2, SlotFacts, WordlineFacts
          <5> QED
            BY <5>1, <5>2, <5>3
        <4> QED
          BY <3>1, <4>1, <4>2 DEF NoValidIn
      <3>2. ASSUME NEW v \in Slots, IsState(cells[v], "VALID"),
                   NEW p \in Slots, cells[p].kind = "copy"
            PROVE  WLBeginning(p) # v
        <4>1. v # a /\ IsState(old[v], "VALID")
          BY <2>2, <2>5, <3>2 DEF IsState
        <4>2. CASE p = a
          BY <3>1, <4>1, <4>2
        <4>3. CASE p # a
          <5>1. old[p].kind = "copy"
            BY <2>2, <3>2, <4>3
          <5> QED
            BY <1>1, <4>1, <5>1 DEF PageAlone, old
        <4> QED
          BY <4>2, <4>3
      <3> QED
        BY <3>2 DEF PageAlone
    <2> QED
      BY <2>1, <2>2, <2>3, <2>4, <2>5
  <1> QED
    BY <1>1, <1>4, <1>5, <1>6, <1>7 DEF JobSafe

\* A step that keeps the VALID page where it is known.
LEMMA AloneFrame ==
  ASSUME NEW f, NEW g, AloneInv(flash, f),
         g.CurrSector = f.CurrSector, g.CacheUpdated = f.CacheUpdated,
         f.NextFreePage \in Nat, g.NextFreePage \in Nat, f.NextFreePage <= g.NextFreePage,
         g.InitGCState \in Started /\ ~g.CacheUpdated =>
           f.InitGCState \in Started /\ g.StatePageAddr = f.StatePageAddr
  PROVE  AloneInv(flash, g)
  <1>1. \A a \in Slots : a + PerWL <= f.NextFreePage => a + PerWL <= g.NextFreePage
    BY SlotFacts
  <1>2. Cur(g) = Cur(f)
    BY DEF Cur
  <1> QED
    BY <1>1, <1>2 DEF AloneInv

\* The initialisation: a repaired marker is in its page, and the prepared VALID
\* page in the second wordline.
LEMMA AloneInitResult ==
  ASSUME NEW f, Inv(flash, f, NoJob), f.MainJob = "INITGC", AloneInv(flash, f)
  PROVE  AloneInv(flash, InitGCResult(f)) /\ InitGCResult(f).CacheUpdated = f.CacheUpdated
  <1> DEFINE g == InitGCResult(f)
             h == [f EXCEPT !.IntrJob = "IDLE"]
  <1>1. /\ IsFee(f) /\ DOMAIN f = Fields /\ f.NextFreePage \in Nat /\ ~f.CacheUpdated
        /\ f.IntrJob \in {"IDLE", "PASS"} /\ f.RepairStep = "MARKER"
    BY DEF Inv, IsFee, MainInv
  <1>2. DOMAIN h = Fields /\ \A x \in Fields \ {"IntrJob"} : h[x] = f[x]
    BY <1>1 DEF Fields
  <1>3. /\ f.IntrJob = "IDLE" => g = f
        /\ f.IntrJob = "PASS" /\ f.InitGCState = "DIRTY" => g = RepairResult(h, TRUE)
        /\ f.IntrJob = "PASS" /\ f.InitGCState \notin {"DIRTY", "PREPARE"} => g = h
    <2> HIDE DEF h
    <2>1. h.InitGCState = f.InitGCState
      BY <1>2 DEF Fields
    <2> QED
      BY <2>1 DEF InitGCResult, h
  <1> HIDE DEF h, g
  <1>4. CASE f.IntrJob = "IDLE"
    BY <1>3, <1>4 DEF g
  <1>5. CASE f.IntrJob = "PASS" /\ f.InitGCState \notin {"DIRTY", "PREPARE"}
    <2>1. AloneInv(flash, h) /\ h.CacheUpdated = f.CacheUpdated
      BY <1>1, <1>2, AloneFrame DEF Fields
    <2> QED
      BY <1>3, <1>5, <2>1 DEF g
  <1>6. CASE f.IntrJob = "PASS" /\ f.InitGCState = "DIRTY"
    <2>1. \A x \in Fields \ {"IntrJob", "Dirty", "InitGCState", "IntrJobFailCount"} : g[x] = f[x]
      <3> DEFINE s == DirtySector(h)
                 dirty == [h.Dirty EXCEPT ![s] = FALSE]
                 st == IF h.Dirty[Other(s)] THEN h.InitGCState ELSE "NORMAL"
      <3>1. g = [h EXCEPT !.Dirty = dirty, !.InitGCState = st, !.IntrJobFailCount = 0]
        <4>1. h.RepairStep = "MARKER"
          BY <1>1, <1>2 DEF Fields
        <4> QED
          BY <1>2, <1>3, <1>6, <4>1 DEF RepairResult, Fields
      <3> HIDE DEF dirty, st
      <3> QED
        BY <1>2, <3>1 DEF Fields
    <2>2. AloneInv(flash, g) /\ g.CacheUpdated = f.CacheUpdated
      BY <1>1, <1>6, <2>1, AloneFrame DEF Fields, Started
    <2> QED
      BY <2>2 DEF g
  <1>7. CASE f.IntrJob = "PASS" /\ f.InitGCState = "PREPARE"
    <2>1. /\ \A x \in Fields \ {"IntrJob", "PrepStep", "IntrJobFailCount", "InitGCState",
                                "PrepDest", "StatePageAddr", "NextFreeWL"} : g[x] = f[x]
          /\ g.InitGCState = IF f.PrepStep = 6 THEN "COMPLETE" ELSE "PREPARE"
      BY <1>7, PrepResultFields DEF g
    <2>2. /\ Cur(g) = 0 /\ ~g.CacheUpdated
          /\ f.PrepStep >= 4 => g.StatePageAddr[0] = PerWL
      BY <1>7, PrepPassedType DEF g
    <2>5. g.CacheUpdated = f.CacheUpdated
      BY <2>1 DEF Fields
    <2>3. CASE f.PrepStep # 6
      <3>1. AloneInv(flash, g)
        BY <1>1, <2>1, <2>3, AloneFrame DEF Fields, Started
      <3> QED
        BY <2>5, <3>1 DEF g
    <2>4. CASE f.PrepStep = 6
      <3>1. PrepFlash(flash, 7) /\ PerWL \in Slots
        BY <1>7, <2>4 DEF Inv, PrepInv, FlashOk
      <3>2. IsState(flash[0][PerWL], "VALID")
        BY <3>1 DEF PrepFlash
      <3>3. AloneInv(flash, g)
        BY <2>2, <2>4, <3>1, <3>2 DEF AloneInv
      <3> QED
        BY <2>5, <3>3 DEF g
    <2> QED
      BY <2>3, <2>4
  <1> QED
    BY <1>1, <1>4, <1>5, <1>6, <1>7

\* A step of the initialisation.
LEMMA AloneInitGC ==
  ASSUME NEW f, Inv(flash, f, NoJob), AloneInv(flash, f), job = NoJob, InitGC(f)
  PROVE  AloneInv(flash, fee')
  <1> DEFINE g == InitGCResult(f)
  <1>1. f.MainJob = "INITGC"
    BY DEF InitGC
  <1>2. Inv(flash, g, NoJob) /\ AloneInv(flash, g)
    BY <1>1, InitGCResultStep, AloneInitResult
  <1>3. \/ g.InitGCState = "INVALID" /\ Continue(InitGCFail(g))
        \/ g.InitGCState = "EMPTY" /\ PrepJob([g EXCEPT !.InitGCState = "PREPARE"])
        \/ g.InitGCState = "PREPARE" /\ PrepJob(g)
        \/ g.InitGCState = "DIRTY" /\ RepairJob(g)
        \/ g.InitGCState = "NORMAL" /\ Continue(Resume(g))
        \/ g.InitGCState \in {"COMPLETE", "FAIL"} /\ Continue(g)
    BY DEF InitGC
  <1> HIDE DEF g
  <1>4. DOMAIN g = Fields /\ g.NextFreePage \in Nat /\ g.RepairStep = "MARKER"
    BY <1>2 DEF Inv, IsFee
  <1>5. ASSUME NEW n, Same(g, n, {"InitGCState", "StateCount", "GcState", "GcInit"}),
               n.InitGCState \in Started => g.InitGCState \in Started
        PROVE  AloneInv(flash, n)
    BY <1>2, <1>4, <1>5, AloneFrame DEF Same, Fields
  <1>6. CASE g.InitGCState = "INVALID" /\ Continue(InitGCFail(g))
    <2>1. fee' = [g EXCEPT !.InitGCState = "FAIL"]
      BY <1>6 DEF Continue, InitGCFail
    <2> QED
      BY <1>4, <1>5, <2>1 DEF Same, Fields, Started
  <1>7. CASE g.InitGCState = "EMPTY" /\ PrepJob([g EXCEPT !.InitGCState = "PREPARE"])
    <2> DEFINE h == [g EXCEPT !.InitGCState = "PREPARE"]
    <2>1. Same(g, h, {"InitGCState"}) /\ h.InitGCState = "PREPARE"
      BY <1>4 DEF Same, Fields
    <2>2. PrepJob(h)
      BY <1>7
    <2> HIDE DEF h
    <2>3. fee' = h \/ \E n : fee' = [h EXCEPT !.StateCount = n]
      BY <2>2 DEF PrepJob, Start
    <2>4. Same(g, fee', {"InitGCState", "StateCount"}) /\ fee'.InitGCState = "PREPARE"
      BY <2>1, <2>3 DEF Same, Fields
    <2> QED
      BY <1>5, <2>4 DEF Same, Started
  <1>8. CASE g.InitGCState = "PREPARE" /\ PrepJob(g)
    <2>1. fee' = g \/ \E n : fee' = [g EXCEPT !.StateCount = n]
      BY <1>8 DEF PrepJob, Start
    <2>2. Same(g, fee', {"InitGCState", "StateCount"}) /\ fee'.InitGCState = "PREPARE"
      BY <1>4, <1>8, <2>1 DEF Same, Fields
    <2> QED
      BY <1>5, <2>2 DEF Same, Started
  <1>9. CASE g.InitGCState = "DIRTY" /\ RepairJob(g)
    <2>1. fee' = g
      BY <1>4, <1>9 DEF RepairJob, Start
    <2> QED
      BY <1>2, <2>1
  <1>10. CASE g.InitGCState = "NORMAL" /\ Continue(Resume(g))
    <2>1. fee' = Resume(g)
      BY <1>10 DEF Continue
    <2>2. Same(g, fee', {"InitGCState", "GcState", "GcInit"})
      BY <1>4, <2>1 DEF Same, Fields, Resume
    <2> QED
      BY <1>5, <1>10, <2>2 DEF Same, Started
  <1>11. CASE g.InitGCState \in {"COMPLETE", "FAIL"} /\ Continue(g)
    BY <1>2, <1>11 DEF Continue
  <1> QED
    BY <1>3, <1>6, <1>7, <1>8, <1>9, <1>10, <1>11

\* The first free page is behind the wordline of the VALID page.
LEMMA AloneUpdateCache ==
  ASSUME NEW f, Inv(flash, f, NoJob), AloneInv(flash, f), ~f.CacheUpdated, job = NoJob,
         UpdateCache(f)
  PROVE  AloneInv(flash, fee')
  <1> DEFINE s == f.CurrSector
             free == f.NextFreeWL[s]
             lastWL == free - PerWL
             used == {p \in lastWL .. free - 1 : flash[s][p] # Blank}
             page == f.StatePageAddr[s]
  <1>1. PICK a :
          /\ \/ a = free
             \/ a = Max(used) + 1 /\ lastWL # page
          /\ fee' = [f EXCEPT !.CacheUpdated = TRUE, !.NextFreePage = a, !.Cache = CacheOf(flash, s)]
    BY DEF UpdateCache, Continue
  <1>2. /\ FlashOk(flash) /\ DOMAIN f = Fields /\ s \in Sectors /\ f.InitGCState = "COMPLETE"
        /\ Shape(flash[s]) /\ Ready(flash[s], free)
        /\ page \in Slots /\ IsState(flash[s][page], "VALID")
    <2>1. IsFee(f) /\ FlashOk(flash) /\ f.InitGCState = "COMPLETE" /\ StartInv(flash, f, NoJob)
      BY DEF Inv, MainInv, UpdateCache
    <2> QED
      BY <2>1 DEF IsFee, FlashOk, StartInv, AloneInv, Started, Cur
  <1>3. PICK w \in Slots : /\ w >= PerWL /\ IsWLBeginning(w) /\ flash[s][w] # Blank
                           /\ free = w + PerWL /\ BlankFrom(flash[s], free)
    BY <1>2 DEF Ready
  <1>4. /\ page \in Nat /\ w \in Nat /\ PerWL \in Nat /\ PerWL > 0 /\ IsWLBeginning(page)
        /\ page < free
    <2>1. flash[s][page] # Blank
      BY <1>2, BuiltCells DEF IsState
    <2>2. page \in Nat /\ w \in Nat /\ PerWL \in Nat /\ PerWL > 0
      BY <1>2, SlotFacts
    <2>3. ~(page >= free)
      BY <1>2, <1>3, <2>1 DEF BlankFrom
    <2> QED
      BY <1>2, <1>3, <2>2, <2>3 DEF Shape
  <1>5. page <= w
    <2>1. NextWL(w) = w + PerWL
      BY <1>3, <1>4, WordlineFacts
    <2> QED
      BY <1>3, <1>4, <2>1, WordlinesApart
  <1>6. page + PerWL <= a
    <2>1. CASE a = free
      BY <1>3, <1>4, <1>5, <2>1
    <2>2. CASE a = Max(used) + 1 /\ lastWL # page
      <3>1. w \in used /\ used \in SUBSET Slots
        <4>1. \A p \in used : p \in Slots
          <5>1. ASSUME NEW p \in used PROVE p \in Slots
            <6>1. p \in w .. (w + PerWL) - 1
              BY <1>3, <1>4
            <6>2. NextWL(w) = w + PerWL /\ NextWL(w) <= WLs * PerWL
              BY <1>3, <1>4, WordlineFacts, WordlineSlots
            <6>3. WLs * PerWL \in Nat
              BY SlotFacts
            <6> HIDE DEF used
            <6> QED
              BY <1>4, <6>1, <6>2, <6>3 DEF Slots
          <5> QED
            BY <5>1
        <4>2. w \in used
          BY <1>3, <1>4
        <4> QED
          BY <4>1, <4>2
      <3> HIDE DEF used
      <3>2. Max(used) \in Slots /\ w <= Max(used)
        BY <3>1, GreatestElement
      <3>3. page < w
        BY <1>3, <1>4, <1>5, <2>2
      <3>4. NextWL(page) <= w /\ NextWL(page) = page + PerWL
        BY <1>3, <1>4, <3>3, WordlineFacts, WordlinesApart
      <3>5. Max(used) \in Nat
        BY <3>2, SlotFacts
      <3> QED
        BY <1>4, <2>2, <3>2, <3>4, <3>5
    <2> QED
      BY <1>1, <2>1, <2>2
  <1> HIDE DEF used
  <1>7. fee'.CacheUpdated /\ fee'.NextFreePage = a /\ Cur(fee') = s
    BY <1>1, <1>2 DEF Fields, Cur
  <1>8. \A v \in Slots : IsState(flash[s][v], "VALID") => v = page
    BY <1>2 DEF Shape
  <1> QED
    BY <1>6, <1>7, <1>8 DEF AloneInv

\* A copy moves the next page on.
LEMMA PageMovesOn ==
  ASSUME NEW f, f.NextFreePage \in Nat
  PROVE  CheckedPage(f) \in Nat /\ f.NextFreePage <= CheckedPage(f)
  BY WordlineFacts DEF CheckedPage

\* A step of a write.
LEMMA AloneLocalWrite ==
  ASSUME NEW f, Inv(flash, f, NoJob), AloneInv(flash, f), f.Req # NoReq, LocalWrite(f)
  PROVE  AloneInv(flash, fee')
  <1> DEFINE h == [f EXCEPT !.UserJob = "IDLE"]
             passed == f.UserJob = "PASS"
             Kept(g) == /\ g.InitGCState = f.InitGCState /\ g.StatePageAddr = f.StatePageAddr
                        /\ g.CurrSector = f.CurrSector /\ g.CacheUpdated = f.CacheUpdated
  <1>1. IsFee(f) /\ UserInv(flash, f, NoJob) /\ f.NextFreePage \in Nat
    BY DEF Inv, IsFee
  <1>2. f.Req.stage \in {"request", "toRead", "reading", "compare", "stuck"}
    BY <1>1 DEF UserInv
  <1>3. /\ f.Req.stage = "request" => WriteCopy(h)
        /\ f.Req.stage = "compare" => WriteCompare(h, passed)
        /\ f.Req.stage \notin {"request", "compare", "recopy"} => fee' = h
    BY DEF LocalWrite, Continue
  <1>4. DOMAIN h = Fields /\ \A x \in Fields \ {"UserJob"} : h[x] = f[x]
    BY <1>1 DEF IsFee, Fields
  <1> HIDE DEF h
  <1>5. Kept(h) /\ h.NextFreePage = f.NextFreePage
    BY <1>4 DEF Fields
  <1>6. ASSUME NEW g, Kept(g), g.NextFreePage \in Nat, f.NextFreePage <= g.NextFreePage
        PROVE  AloneInv(flash, g)
    BY <1>1, <1>6, AloneFrame
  <1>7. CASE f.Req.stage = "request"
    <2> DEFINE k == CurrBlkCheck(h)
    <2>1. DOMAIN k = Fields /\ Kept(k) /\ k.NextFreePage = CheckedPage(h)
      BY <1>4, <1>5 DEF CurrBlkCheck, Fields
    <2> HIDE DEF k
    <2>2. (\E r : fee' = [k EXCEPT !.Req = r]) \/ fee' = k
      BY <1>3, <1>7 DEF WriteCopy, Start, Continue, k
    <2>3. Kept(fee') /\ fee'.NextFreePage = CheckedPage(h)
      BY <2>1, <2>2 DEF Fields
    <2> QED
      BY <1>1, <1>5, <1>6, <2>3, PageMovesOn
  <1>8. CASE f.Req.stage = "compare"
    <2>1. Landed(f, NoJob)
      BY <1>8 DEF Landed, Stage
    <2>2. passed
      BY <1>1, <2>1 DEF UserInv, Landed, Programs, IsJob
    <2>3. fee' = WriteDone(h)
      BY <1>3, <1>8, <2>2 DEF WriteCompare, Continue
    <2>4. Kept(WriteDone(h)) /\ WriteDone(h).NextFreePage = f.NextFreePage + 1
      <3>1. /\ WriteDone(h).InitGCState = h.InitGCState
            /\ WriteDone(h).StatePageAddr = h.StatePageAddr
            /\ WriteDone(h).CurrSector = h.CurrSector
            /\ WriteDone(h).CacheUpdated = h.CacheUpdated
            /\ WriteDone(h).NextFreePage = h.NextFreePage + 1
        BY <1>4 DEF WriteDone, Cached, Fields
      <3> QED
        BY <1>5, <3>1
    <2> QED
      BY <1>1, <1>6, <2>3, <2>4
  <1>9. CASE f.Req.stage \in {"toRead", "reading", "stuck"}
    BY <1>1, <1>3, <1>5, <1>6, <1>9
  <1> QED
    BY <1>2, <1>7, <1>8, <1>9

\* The start of a collection's next job keeps the current sector.
CurrentKept(f, g) ==
  /\ g.CurrSector = f.CurrSector /\ g.CacheUpdated = f.CacheUpdated
  /\ g.NextFreePage = f.NextFreePage

\* Each of the jobs a collection may start next does.
LEMMA GcStartKeeps ==
  ASSUME NEW f, DOMAIN f = Fields, GcStart(f)
  PROVE  CurrentKept(f, fee')
  <1>1. {"CurrSector", "CacheUpdated", "NextFreePage"} \subseteq Fields
    BY DEF Fields
  <1>2. ASSUME NEW h, DOMAIN h = Fields, GcStatePage(h) PROVE CurrentKept(h, fee')
    BY <1>1, <1>2 DEF GcStatePage, Continue, Start, GcFail, CurrentKept
  <1>3. ASSUME NEW h, DOMAIN h = Fields, NEW b, GcCopyWrite(h, b) PROVE CurrentKept(h, fee')
    BY <1>1, <1>3 DEF GcCopyWrite, Continue, Start, GcFail, CurrentKept
  <1>4. ASSUME NEW h, DOMAIN h = Fields, GcStartCopy(h) PROVE CurrentKept(h, fee')
    <2> DEFINE again == ToCopy(h, h.GcCopyIndex) = {} /\ h.BlkModified
               g == IF again THEN [h EXCEPT !.BlkModified = FALSE] ELSE h
               p == [g EXCEPT !.GcState = "V_SP", !.IntrJobFailCount = 0,
                              !.GcCopyIndex = NBlocks,
                              !.GcDest = IF IsWLBeginning(@) THEN @ ELSE NextWL(@)]
    <2>1. (\E b : GcCopyWrite(g, b)) \/ GcStatePage(p)
      BY <1>4 DEF GcStartCopy
    <2>2. DOMAIN g = Fields /\ CurrentKept(h, g) /\ DOMAIN p = Fields /\ CurrentKept(h, p)
      BY <1>1, <1>4 DEF CurrentKept
    <2> HIDE DEF g, p
    <2> QED
      BY <1>2, <1>3, <2>1, <2>2 DEF CurrentKept
  <1>5. CASE f.GcState = "REQUESTED"
    <2>1. GcStartCopy(GcRequested(f))
      BY <1>5 DEF GcStart
    <2>2. DOMAIN GcRequested(f) = Fields /\ CurrentKept(f, GcRequested(f))
      BY <1>1 DEF GcRequested, CurrentKept
    <2> QED
      BY <1>4, <2>1, <2>2 DEF CurrentKept
  <1>6. CASE f.GcState = "START_COPY"
    BY <1>4, <1>6 DEF GcStart
  <1>7. CASE f.GcState \in {"V_SP", "E_SP"}
    BY <1>2, <1>7 DEF GcStart
  <1>8. CASE f.GcState \notin {"REQUESTED", "START_COPY", "V_SP", "E_SP"}
    BY <1>8 DEF GcStart, Start, Continue, CurrentKept
  <1> QED
    BY <1>5, <1>6, <1>7, <1>8

\* A collection hands the other sector over with its next page behind the
\* VALID page.
LEMMA AloneNewSector ==
  ASSUME NEW f, Inv(flash, f, NoJob), AloneInv(flash, f), f.MainJob = "GC", f.GcState = "V_M",
         GcOver(flash, f), NEW h, DOMAIN h = Fields, \A x \in Fields \ {"IntrJob"} : h[x] = f[x]
  PROVE  AloneInv(flash, NewSectorValid(h))
  <1> DEFINE o == Oth(f)
             d == f.GcDest
             g == NewSectorValid(h)
             n == [h EXCEPT !.IntrJobFailCount = 0, !.CurrSector = o, !.StatePageAddr[o] = d,
                            !.NextFreeWL[o] = NextWL(d), !.NextFreePage = NextWL(d)]
             checked == IF Requested(n) THEN CurrBlkCheck(n) ELSE n
  <1>1. /\ IsFee(f) /\ FlashOk(flash) /\ GcInv(flash, f, NoJob) /\ f.CacheUpdated
        /\ f.InitGCState = "COMPLETE" /\ o \in Sectors /\ o = Other(f.CurrSector)
        /\ Shape(flash[o])
    BY GcFacts DEF FlashOk
  <1>2. h.CurrSector = f.CurrSector /\ h.GcDest = d /\ h.CacheUpdated
    BY <1>1 DEF Fields
  <1>3. d \in Slots /\ d \in Nat /\ IsWLBeginning(d) /\ PerWL \in Nat
    BY <1>1, SlotFacts DEF GcInv
  <1>4. NextWL(d) \in Nat /\ NextWL(d) = d + PerWL
    BY <1>3, WordlineFacts
  <1>5. IsState(flash[o][d], "VALID")
    <2>1. flash[o][d] = [StatePage("VALID", f.StateCount, "none") EXCEPT !.mark = "ok"]
      BY DEF GcOver, GcCell
    <2> QED
      BY <2>1 DEF StatePage, IsState
  <1>6. /\ \/ g = [GcFail(n) EXCEPT !.Req = StuckReq]
           \/ g = [GcFail(checked) EXCEPT !.Req = NoReq]
           \/ g = [checked EXCEPT !.GcDest = 0, !.GcState = "ERASE", !.GcInit = FALSE]
    <2>1. Other(h.CurrSector) = o /\ h.GcDest = d
      BY <1>1, <1>2
    <2> HIDE DEF o, d
    <2> QED
      BY <2>1 DEF NewSectorValid
  <1> HIDE DEF g
  <1>7. /\ DOMAIN n = Fields /\ n.CurrSector = o /\ n.CacheUpdated /\ n.NextFreePage = NextWL(d)
    BY <1>2 DEF Fields
  <1> HIDE DEF n
  <1>8. /\ DOMAIN checked = Fields /\ checked.CurrSector = o /\ checked.CacheUpdated
        /\ checked.NextFreePage \in Nat /\ NextWL(d) <= checked.NextFreePage
    <2>1. CheckedPage(n) \in Nat /\ NextWL(d) <= CheckedPage(n)
      BY <1>4, <1>7, PageMovesOn
    <2> QED
      BY <1>4, <1>7, <2>1 DEF CurrBlkCheck, Fields
  <1> HIDE DEF checked
  <1>9. /\ g.CurrSector = o /\ g.CacheUpdated
        /\ g.NextFreePage \in Nat /\ NextWL(d) <= g.NextFreePage
    <2>1. {"CurrSector", "CacheUpdated", "NextFreePage"} \subseteq Fields
      BY DEF Fields
    <2> HIDE DEF o, d
    <2>2. CASE g = [GcFail(n) EXCEPT !.Req = StuckReq]
      BY <1>4, <1>7, <2>1, <2>2 DEF GcFail
    <2>3. CASE g = [GcFail(checked) EXCEPT !.Req = NoReq]
      BY <1>4, <1>8, <2>1, <2>3 DEF GcFail
    <2>4. CASE g = [checked EXCEPT !.GcDest = 0, !.GcState = "ERASE", !.GcInit = FALSE]
      BY <1>4, <1>8, <2>1, <2>4
    <2> QED
      BY <1>6, <2>2, <2>3, <2>4
  <1>10. \A v \in Slots : IsState(flash[o][v], "VALID") => v = d
    BY <1>1, <1>3, <1>5 DEF Shape
  <1>11. \A v \in Slots : IsState(flash[o][v], "VALID") => v + PerWL <= g.NextFreePage
    BY <1>3, <1>4, <1>9, <1>10
  <1> HIDE DEF o
  <1> QED
    BY <1>9, <1>11 DEF AloneInv, Cur, g

\* A step of a collection.
LEMMA AloneCollection ==
  ASSUME NEW f, Inv(flash, f, NoJob), AloneInv(flash, f), GarbageCollection(f)
  PROVE  AloneInv(flash, fee')
  <1> DEFINE h == [f EXCEPT !.IntrJob = "IDLE"]
             g == GcResult(h, TRUE)
  <1>1. f.MainJob = "GC"
    BY DEF GarbageCollection
  <1>2. DOMAIN f = Fields /\ f.CacheUpdated /\ f.NextFreePage \in Nat
    BY <1>1, GcFacts DEF IsFee
  <1>3. ASSUME NEW m, CurrentKept(f, m) PROVE AloneInv(flash, m)
    <2>1. /\ m.CurrSector = f.CurrSector /\ m.CacheUpdated = f.CacheUpdated /\ m.CacheUpdated
          /\ m.NextFreePage \in Nat /\ f.NextFreePage <= m.NextFreePage
      BY <1>2, <1>3 DEF CurrentKept
    <2> QED
      BY <1>2, <2>1, AloneFrame
  <1>4. CASE f.IntrJob = "IDLE"
    <2>1. GcStart(f)
      BY <1>4 DEF GarbageCollection
    <2> QED
      BY <1>2, <1>3, <2>1, GcStartKeeps
  <1>5. CASE f.IntrJob # "IDLE"
    <2>1. GoesTo(f, h, g) /\ GcOver(flash, f)
      BY <1>1, <1>5, GcResults, GcPassed
    <2> HIDE DEF h, g
    <2>2. /\ f.GcState \in Busy /\ DOMAIN h = Fields
          /\ \A x \in Fields \ {"IntrJob"} : h[x] = f[x]
      BY <2>1 DEF GoesTo
    <2>3. CASE f.GcState = "V_M"
      <3>1. AloneInv(flash, NewSectorValid(h)) /\ g = NewSectorValid(h)
        BY <1>1, <2>1, <2>2, <2>3, AloneNewSector DEF GoesTo
      <3>2. <<f.GcState, g.GcState>> \notin GoesOn
        BY <2>3 DEF GoesOn
      <3> QED
        BY <2>1, <3>1, <3>2 DEF GoesTo, Continue
    <2>4. CASE f.GcState # "V_M"
      <3>1. CurrentKept(f, h)
        BY <2>2 DEF CurrentKept, Fields
      <3>2. DOMAIN g = Fields /\ CurrentKept(h, g)
        <4>0. {"CurrSector", "CacheUpdated", "NextFreePage"} \subseteq Fields
          BY DEF Fields
        <4>1. CASE f.GcState = "COPY_WRITE"
          BY <2>1, <2>2, <4>0, <4>1 DEF GoesTo, CopyDone, CurrentKept
        <4>2. CASE f.GcState \in {"V_SP", "E_SP"}
          BY <2>1, <2>2, <4>0, <4>2 DEF GoesTo, CurrentKept
        <4>3. CASE f.GcState = "ERASE"
          BY <2>1, <2>2, <4>0, <4>3 DEF GoesTo, EraseDone, CurrentKept
        <4>4. CASE f.GcState = "E_M"
          BY <2>1, <2>2, <4>0, <4>4 DEF GoesTo, OldSectorErased, CurrentKept
        <4> QED
          BY <2>2, <2>4, <4>1, <4>2, <4>3, <4>4 DEF Busy
      <3>3. CurrentKept(g, fee')
        <4>1. GcStart(g) \/ fee' = g
          BY <2>1 DEF GoesTo, Continue
        <4> QED
          BY <3>2, <4>1, GcStartKeeps DEF CurrentKept
      <3> QED
        BY <1>3, <3>1, <3>2, <3>3 DEF CurrentKept
    <2> QED
      BY <2>3, <2>4
  <1> QED
    BY <1>4, <1>5

\* A step of the main function.
LEMMA AloneMainFunction ==
  ASSUME IInv, FaultInv(flash, fee, job), AloneInv(flash, fee), MainFunction
  PROVE  AloneInv(flash', fee')
  <1> DEFINE f == DecideMainJob(fee)
  <1>1. /\ Inv(flash, fee, job) /\ flash' = flash /\ IsFee(fee) /\ FaultTypes(fee)
    BY DEF IInv, Inv, MainFunction, FaultInv
  <1>2. /\ Inv(flash, f, job)
        /\ \A x \in Fields \ {"MainJob", "NextFreePage"} : f[x] = fee[x]
        /\ f.MainJob \in {"READ", "WRITE"} => f.Req # NoReq
    BY <1>1, DecideStep
  <1>3. fee.NextFreePage \in Nat /\ f.NextFreePage \in Nat /\ fee.NextFreePage <= f.NextFreePage
    <2>1. fee.NextFreePage \in Nat /\ f.NextFreePage \in Nat
      BY <1>1, <1>2 DEF Inv, IsFee
    <2> QED
      BY <1>1, <2>1, DecidedPage
  <1>4. \/ fee' = f
        \/ job = NoJob /\ (InitGC(f) \/ UpdateCache(f) \/ LocalRead(f) \/ LocalWrite(f)
                           \/ GarbageCollection(f))
    BY DEF MainFunction, Continue
  <1>5. UpdateCache(f) => ~f.CacheUpdated
    <2>1. UpdateCache(f) => ~fee.CacheUpdated
      BY <1>1, CacheBuiltOnce DEF UpdateCache
    <2>2. f.CacheUpdated = fee.CacheUpdated
      BY <1>2 DEF Fields
    <2> QED
      BY <2>1, <2>2
  <1> HIDE DEF f
  <1>6. AloneInv(flash, f)
    BY <1>2, <1>3, AloneFrame DEF Fields
  <1>7. CASE job = NoJob /\ InitGC(f)
    BY <1>1, <1>2, <1>6, <1>7, AloneInitGC
  <1>8. CASE job = NoJob /\ UpdateCache(f)
    BY <1>1, <1>2, <1>5, <1>6, <1>8, AloneUpdateCache
  <1>9. CASE job = NoJob /\ LocalRead(f)
    <2>1. \E r : fee' = [f EXCEPT !.Req = r]
      BY <1>9 DEF LocalRead, Continue, Start
    <2>2. DOMAIN f = Fields
      BY <1>2 DEF Inv, IsFee
    <2>3. /\ fee'.CurrSector = f.CurrSector /\ fee'.CacheUpdated = f.CacheUpdated
          /\ fee'.NextFreePage = f.NextFreePage /\ fee'.InitGCState = f.InitGCState
          /\ fee'.StatePageAddr = f.StatePageAddr
      BY <2>1, <2>2 DEF Fields
    <2> QED
      BY <1>1, <1>3, <1>6, <2>3, AloneFrame
  <1>10. CASE job = NoJob /\ LocalWrite(f)
    <2>1. f.Req # NoReq /\ Inv(flash, f, NoJob)
      BY <1>2, <1>10 DEF LocalWrite
    <2> QED
      BY <1>1, <1>6, <1>10, <2>1, AloneLocalWrite
  <1>11. CASE job = NoJob /\ GarbageCollection(f)
    BY <1>1, <1>2, <1>6, <1>11, AloneCollection
  <1> QED
    BY <1>1, <1>4, <1>6, <1>7, <1>8, <1>9, <1>10, <1>11

\* A job that ends.
LEMMA AloneJobEnds ==
  ASSUME IInv, FaultInv(flash, fee, job), AloneInv(flash, fee), JobEndNotification
  PROVE  AloneInv(flash', fee')
  <1> DEFINE cells == Finished(job)
             g == Notified(fee, job, "PASS")
             new == After(flash, job.sector, cells)
             s == Cur(fee)
  <1>1. /\ job # NoJob /\ flash' = new /\ fee' = g
    BY DEF JobEndNotification, JobEnd, After, Notified
  <1>2. /\ Inv(flash, fee, job) /\ FlashOk(flash) /\ IsFee(fee) /\ MainInv(fee, job)
        /\ StartInv(flash, fee, job) /\ JobSafe(flash, job) /\ s \in Sectors
    BY <1>1, JobsAreSafe DEF IInv, Inv, IsFee, Cur
  <1>3. cells \in Partial(job)
    BY <1>2, FinishedIsPartial
  <1>4. \A t \in Sectors : PageAlone(new[t])
    BY <1>1, <1>2, <1>3, AloneJob
  <1>5. Same(fee, g, {"Req", "UserJob", "IntrJob"})
    <2>1. "PASS" \in {"PASS", "FAIL"}
      OBVIOUS
    <2> QED
      BY <1>1, <2>1, NotifiedFields
  <1> HIDE DEF g
  <1>6. /\ g.CurrSector = fee.CurrSector /\ g.CacheUpdated = fee.CacheUpdated
        /\ g.NextFreePage = fee.NextFreePage /\ g.InitGCState = fee.InitGCState
        /\ g.StatePageAddr = fee.StatePageAddr
    BY <1>5 DEF Same, Fields
  <1>7. ASSUME fee.InitGCState \in Started, ~fee.CacheUpdated
        PROVE  IsState(new[s][fee.StatePageAddr[s]], "VALID") /\ fee.StatePageAddr[s] \in Slots
    <2>1. IsState(flash[s][fee.StatePageAddr[s]], "VALID") /\ fee.StatePageAddr[s] \in Slots
      BY <1>7 DEF AloneInv
    <2>2. IntrRuns(job) /\ fee.InitGCState = "DIRTY"
      <3>1. ~fee.CacheUpdated /\ fee.InitGCState = "COMPLETE" => ~IntrRuns(job)
        BY <1>2 DEF MainInv, Quiet
      <3> QED
        BY <1>1, <1>2, <1>7, <3>1, JobForms DEF Started
    <2>3. job.op = "marker"
      BY <1>2, <2>2, RepairSafe
    <2>4. \A p \in Slots : /\ new[s][p].kind = flash[s][p].kind
                           /\ flash[s][p].kind = "state" => new[s][p].st = flash[s][p].st
      BY <1>1, <1>2, <2>3, MarkerKeeps
    <2> QED
      BY <2>1, <2>4 DEF IsState
  <1>8. ASSUME fee.CacheUpdated, NEW p \in Slots, IsState(new[s][p], "VALID")
        PROVE  IsState(flash[s][p], "VALID")
    <2>1. \/ /\ ~IntrRuns(job) /\ Stage(fee, "compare")
             /\ Programs(job, "user", Cur(fee), fee.NextFreePage, BlockCopy(fee.Req.blk, fee.Req.val))
          \/ ~IntrRuns(job) /\ Stage(fee, "reading")
          \/ /\ IntrRuns(job) /\ fee.InitGCState = "COMPLETE" /\ fee.GcState \in Busy
             /\ fee.IntrJob = "IDLE" /\ GcRunning(flash, fee, job)
      BY <1>1, <1>2, <1>8, JobForms
    <2>2. CASE Programs(job, "user", Cur(fee), fee.NextFreePage, BlockCopy(fee.Req.blk, fee.Req.val))
      <3>1. /\ job.op = "program" /\ job.sector = s
            /\ job.cell = BlockCopy(fee.Req.blk, fee.Req.val)
        BY <2>2 DEF Programs, IsJob
      <3>2. /\ new[s][job.addr] = job.cell
            /\ \A q \in Slots : q # job.addr => new[s][q] = flash[s][q]
        BY <1>1, <1>2, <3>1, ProgramEnds
      <3>3. job.cell.kind = "copy"
        BY <3>1 DEF BlockCopy
      <3>4. p # job.addr
        BY <1>8, <3>2, <3>3 DEF IsState
      <3> QED
        BY <1>8, <3>2, <3>4
    <2>3. CASE ~IntrRuns(job) /\ Stage(fee, "reading")
      <3>1. new = flash
        BY <1>1, <1>2, <2>3, ReadEnds
      <3> QED
        BY <1>8, <3>1
    <2>4. CASE /\ IntrRuns(job) /\ fee.InitGCState = "COMPLETE" /\ fee.GcState \in Busy
               /\ fee.IntrJob = "IDLE" /\ GcRunning(flash, fee, job)
      <3>1. new[s] = flash[s]
        BY <1>1, <1>2, <2>4, GcJobEffect
      <3> QED
        BY <1>8, <3>1
    <2> QED
      BY <2>1, <2>2, <2>3, <2>4
  <1> HIDE DEF new
  <1>9. Cur(g) = s
    BY <1>6 DEF Cur
  <1>10. \A a \in Slots : IsState(new[s][a], "VALID") /\ g.CacheUpdated => a + PerWL <= g.NextFreePage
    <2>1. fee.CacheUpdated => \A a \in Slots : IsState(flash[s][a], "VALID") => a + PerWL <= fee.NextFreePage
      BY DEF AloneInv
    <2> HIDE DEF s
    <2> QED
      BY <1>6, <1>8, <2>1
  <1> HIDE DEF s
  <1> QED
    BY <1>1, <1>4, <1>6, <1>7, <1>9, <1>10 DEF AloneInv

\* A start-up finds the VALID page of the sector it takes as the current one.
LEMMA AloneBoot ==
  ASSUME NEW fl, FlashOk(fl), \A s \in Sectors : PageAlone(fl[s])
  PROVE  AloneInv(fl, Boot(fl))
  <1> DEFINE f == Boot(fl)
             s == Cur(f)
  <1>1. ~f.CacheUpdated /\ f.InitGCState \in {"EMPTY", "INVALID", "DIRTY", "NORMAL"} /\ s \in Sectors
    <2>1. ~f.CacheUpdated
      BY DEF Boot
    <2> QED
      BY <2>1, BootTypes DEF IsFee, Cur
  <1>2. f.StatePageAddr = [t \in Sectors |-> IF StatePages(fl[t]) = {} THEN 0 ELSE LatestPage(fl[t])]
    BY DEF Boot
  <1>3. ASSUME f.InitGCState \in Started
        PROVE  f.StatePageAddr[s] \in Slots /\ IsState(fl[s][f.StatePageAddr[s]], "VALID")
    <2>1. Governs(fl, s)
      BY <1>1, <1>3, BootGoverned DEF Started
    <2>2. PICK a \in Slots : MarkedState(fl[s][a], "VALID")
      BY <2>1 DEF Governs
    <2>3. fl[s] \in [Slots -> Cells] /\ Shape(fl[s])
      BY <1>1 DEF FlashOk
    <2>4. a \in StatePages(fl[s]) /\ LatestPage(fl[s]) = a
      BY <2>2, <2>3, ValidIsLatest
    <2> HIDE DEF s, f
    <2>5. f.StatePageAddr[s] = a
      BY <1>1, <1>2, <2>4
    <2> QED
      BY <2>2, <2>5 DEF MarkedState
  <1> HIDE DEF f
  <1> QED
    BY <1>1, <1>3 DEF AloneInv, f

\* The flash a run starts with.
LEMMA AloneStart == Init => AloneInv(flash, fee)
  <1> SUFFICES ASSUME Init PROVE AloneInv(flash, fee)
    OBVIOUS
  <1>1. PICK n \in Filled : flash = InitialFlash(n)
    BY DEF Init
  <1>2. /\ n \in Nat /\ PerWL \in Slots /\ PerWL \in Nat /\ PerWL > 0 /\ 2 * PerWL = PerWL + PerWL
        /\ Sectors = {0, 1} /\ Slots \subseteq Nat /\ 0 \in Slots
    BY InitialSizes, SlotFacts
  <1> DEFINE full == [a \in Slots |->
                        CASE a = 0 -> StatePage("ERASED", 1, "ok")
                          [] a = PerWL -> StatePage("VALID", 2, "ok")
                          [] a \in 2 * PerWL .. 2 * PerWL + n - 1 -> BlockCopy(a % NBlocks, 0)
                          [] OTHER -> Blank]
             other == [AllBlank EXCEPT ![0] = StatePage("ERASED", 3, "ok")]
  <1>3. \A s \in Sectors : flash[s] \in {AllBlank, full, other}
    <2>1. flash = [s \in {0, 1} |-> CASE n = 0 -> AllBlank
                                     [] n # 0 /\ s = 0 -> full
                                     [] OTHER -> other]
      BY <1>1, <1>2 DEF InitialFlash
    <2> HIDE DEF full, other
    <2> QED
      BY <1>2, <2>1
  <1>4. PageAlone(AllBlank)
    BY BuiltCells DEF PageAlone, AllBlank, IsState
  <1>5. PageAlone(other)
    <2>1. \A a \in Slots : other[a] = IF a = 0 THEN StatePage("ERASED", 3, "ok") ELSE Blank
      BY <1>2 DEF AllBlank
    <2> HIDE DEF other
    <2>2. \A a \in Slots : other[a].kind # "copy"
      BY <2>1, BuiltCells DEF StatePage
    <2> QED
      BY <2>2 DEF PageAlone
  <1>6. PageAlone(full)
    <2>1. \A a \in Slots : IsState(full[a], "VALID") => a = PerWL
      BY BuiltCells DEF IsState, StatePage, BlockCopy
    <2>2. \A p \in Slots : full[p].kind = "copy" => 2 * PerWL <= p
      <3>1. ASSUME NEW p \in Slots, full[p].kind = "copy" PROVE p \in 2 * PerWL .. 2 * PerWL + n - 1
        BY <3>1, BuiltCells DEF StatePage
      <3> HIDE DEF full
      <3> QED
        BY <1>2, <3>1
    <2>3. IsWLBeginning(2 * PerWL) /\ 2 * PerWL \in Nat
      BY <1>2, WordlineSlots, WordlineFacts
    <2> HIDE DEF full
    <2>4. ASSUME NEW p \in Slots, full[p].kind = "copy" PROVE WLBeginning(p) # PerWL
      <3>1. 2 * PerWL <= WLBeginning(p) /\ WLBeginning(p) \in Nat
        BY <1>2, <2>2, <2>3, <2>4, WordlinesApart, WordlineFacts
      <3> QED
        BY <1>2, <3>1
    <2> QED
      BY <2>1, <2>4 DEF PageAlone
  <1> HIDE DEF full, other
  <1>7. \A s \in Sectors : PageAlone(flash[s])
    BY <1>3, <1>4, <1>5, <1>6
  <1>8. FlashOk(flash) /\ fee = Boot(flash)
    BY <1>1, InitialFlashOk DEF Init
  <1> QED
    BY <1>7, <1>8, AloneBoot

\* A reset, whatever the job it cuts off leaves.
LEMMA AloneReset ==
  ASSUME Inv(flash, fee, job), AloneInv(flash, fee), Reset
  PROVE  AloneInv(flash', fee')
  <1>1. FlashOk(flash) /\ fee' = Boot(flash')
    BY DEF Inv, Reset
  <1>2. FlashOk(flash') /\ \A s \in Sectors : PageAlone(flash'[s])
    <2>1. CASE job = NoJob
      BY <1>1, <2>1 DEF Reset, AloneInv
    <2>2. CASE job # NoJob
      <3>1. PICK cells \in Partial(job) : flash' = After(flash, job.sector, cells)
        BY <2>2 DEF Reset, After
      <3>2. JobSafe(flash, job)
        BY <2>2, JobsAreSafe
      <3> QED
        BY <1>1, <2>2, <3>1, <3>2, FlashOkAfter, AloneJob
    <2> QED
      BY <2>1, <2>2
  <1> QED
    BY <1>1, <1>2, AloneBoot

\* The user's calls.
LEMMA AloneRequestStep ==
  ASSUME IsFee(fee), AloneInv(flash, fee),
         \/ \E b \in Blocks : Read(b) \/ Write(b) \/ InvalidateBlock(b)
         \/ Cancel
  PROVE  AloneInv(flash', fee')
  <1>1. /\ flash' = flash
        /\ \/ \E r : fee' = [fee EXCEPT !.Req = r]
           \/ fee' = [fee EXCEPT !.Req = NoReq, !.UserJobFailCount = 0]
    BY DEF Read, Write, InvalidateBlock, NewRequest, Cancel
  <1>2. DOMAIN fee = Fields /\ fee.NextFreePage \in Nat
    BY DEF IsFee
  <1>3. /\ fee'.CurrSector = fee.CurrSector /\ fee'.CacheUpdated = fee.CacheUpdated
        /\ fee'.NextFreePage = fee.NextFreePage /\ fee'.InitGCState = fee.InitGCState
        /\ fee'.StatePageAddr = fee.StatePageAddr
    <2>1. CASE \E r : fee' = [fee EXCEPT !.Req = r]
      BY <1>2, <2>1 DEF Fields
    <2>2. CASE fee' = [fee EXCEPT !.Req = NoReq, !.UserJobFailCount = 0]
      BY <1>2, <2>2 DEF Fields
    <2> QED
      BY <1>1, <2>1, <2>2
  <1> QED
    BY <1>1, <1>2, <1>3, AloneFrame

-----------------------------------------------------------------------------
(* The first failure. *)

\* A job of the initialisation programs a wordline without copies.
LEMMA StartWordlineBare ==
  ASSUME Inv(flash, fee, job), AloneInv(flash, fee), IntrRuns(job), job.op # "erase",
         fee.InitGCState \in {"PREPARE", "DIRTY"}
  PROVE  LET w == At(job.sector, WLBeginning(job.addr))
         IN /\ job.sector \in Sectors /\ job.addr \in Slots /\ w.slot = job.addr
            /\ NoCopyIn(flash, w)
  <1> DEFINE w == At(job.sector, WLBeginning(job.addr))
  <1>1. /\ FlashOk(flash) /\ IsFee(fee) /\ PrepInv(flash, fee, job) /\ StartInv(flash, fee, job)
        /\ MainInv(fee, job) /\ fee.IntrJob = "IDLE" /\ PerWL \in Slots
        /\ \A s \in Sectors : Shape(flash[s]) /\ flash[s] \in [Slots -> Cells]
    BY DEF Inv, MainInv, FlashOk
  <1>2. CASE fee.InitGCState = "PREPARE"
    <2>1. /\ job.sector = PrepSector[fee.PrepStep] /\ job.addr = PrepAddr(fee.PrepStep)
          /\ fee.PrepStep \in 1 .. 6 /\ PrepFlash(flash, fee.PrepStep)
      BY <1>1, <1>2, PrepJobSafe DEF PrepInv
    <2>2. job.sector \in Sectors /\ job.addr \in {0, PerWL}
      BY <2>1, PrepSteps, SlotFacts
    <2>3. job.addr \in Slots /\ IsWLBeginning(job.addr) /\ job.addr \in Nat
      BY <1>1, <2>2, SlotFacts, WordlineSlots
    <2>4. w.sector = job.sector /\ w.slot = job.addr
      BY <2>2, <2>3, WordlineOf, WordlineFacts
    <2>5. ASSUME NEW s \in Sectors, NEW a \in Slots PROVE flash[s][a].kind # "copy"
      <3>1. flash[s][a] = Blank \/ flash[s][a].kind = "state"
        <4>1. 0 \in Slots /\ s \in {0, 1}
          BY SlotFacts
        <4> QED
          BY <2>1, <2>5, <4>1 DEF PrepFlash, IsState
      <3> QED
        BY <3>1 DEF Blank
    <2> QED
      BY <2>2, <2>3, <2>4, <2>5 DEF NoCopyIn
  <1>3. CASE fee.InitGCState = "DIRTY"
    <2> DEFINE a == job.addr
               s == job.sector
    <2>1. s \in Sectors /\ a \in Slots /\ Marked(flash[s][a])
      BY <1>1, <1>3, RepairSafe
    <2>2. flash[s][a].kind = "state" /\ flash[s][a].st \in {"VALID", "ERASED"}
      BY <1>1, <2>1, CellFacts DEF Marked
    <2> HIDE DEF a, s
    <2>3. IsWLBeginning(a) /\ a \in Nat
      BY <1>1, <2>1, <2>2, SlotFacts, WordlineSlots DEF Shape, IsState
    <2>4. w.sector = s /\ w.slot = a
      BY <2>1, <2>3, WordlineOf, WordlineFacts DEF a, s
    <2>5. \A p \in Slots : flash[s][p].kind = "copy" => WLBeginning(p) # a
      <3>1. CASE IsState(flash[s][a], "VALID")
        BY <2>1, <3>1 DEF AloneInv, PageAlone
      <3>2. CASE IsState(flash[s][a], "ERASED")
        <4>1. a = 0
          BY <1>1, <2>1, <3>2 DEF Shape
        <4>2. ASSUME NEW p \in Slots, flash[s][p].kind = "copy" PROVE WLBeginning(p) # 0
          <5>1. p >= PerWL
            BY <1>1, <2>1, <4>2 DEF Shape
          <5>2. PerWL <= WLBeginning(p)
            BY <5>1, SlotFacts, WordlineSlots, WordlinesApart
          <5>3. WLBeginning(p) \in Nat
            BY SlotFacts, WordlineFacts
          <5> QED
            BY <5>2, <5>3, WordlineSize
        <4> QED
          BY <4>1, <4>2
      <3> QED
        BY <2>2, <3>1, <3>2 DEF IsState
    <2> QED
      BY <2>1, <2>4, <2>5 DEF NoCopyIn, a, s
  <1> QED
    BY <1>2, <1>3

\* The page whose marker is repaired has its own wordline, before the blank end.
LEMMA RepairedPageBefore ==
  ASSUME Inv(flash, fee, job), FaultInv(flash, fee, job), IntrRuns(job),
         fee.InitGCState = "DIRTY"
  PROVE  /\ job.addr = fee.StatePageAddr[job.sector] /\ job.addr \in Nat
         /\ job.addr + PerWL <= fee.NextFreeWL[job.sector]
  <1> DEFINE a == job.addr
             s == job.sector
             n == fee.NextFreeWL[s]
  <1>1. /\ FlashOk(flash) /\ IsFee(fee) /\ StartInv(flash, fee, job)
        /\ \A t \in Sectors : Shape(flash[t]) /\ flash[t] \in [Slots -> Cells]
    BY DEF Inv, FlashOk
  <1>2. s \in Sectors /\ a \in Slots /\ Marked(flash[s][a]) /\ a = fee.StatePageAddr[s]
    BY <1>1, RepairSafe
  <1>3. flash[s][a].kind = "state" /\ flash[s][a].st \in {"VALID", "ERASED"}
        /\ flash[s][a] # Blank
    BY <1>1, <1>2, CellFacts DEF Marked, Blank
  <1>4. OpenWL(flash[s], n) /\ n \in Nat
    BY <1>1, <1>2 DEF FaultInv, StartFault, IsFee
  <1> HIDE DEF a, s, n
  <1>5. IsWLBeginning(a) /\ a \in Nat
    BY <1>1, <1>2, <1>3, SlotFacts, WordlineSlots DEF Shape, IsState
  <1>6. a < n
    BY <1>2, <1>3, <1>4, <1>5 DEF OpenWL, BlankFrom
  <1>7. NextWL(a) <= n /\ NextWL(a) = a + PerWL
    BY <1>4, <1>5, <1>6, WordlinesApart, WordlineFacts DEF OpenWL
  <1> QED
    BY <1>2, <1>5, <1>7 DEF a, s, n

\* The first failure: what its wordline still holds is in the cache only where
\* the next step is the handling of that failure.
LEMMA DealtJobFails ==
  ASSUME IInv, FaultInv(flash, fee, job), AloneInv(flash, fee), failedWL = {},
         DealtWith(flash, failedWL, fee), JobFails
  PROVE  DealtWith(flash', failedWL', fee')
  <1> DEFINE g == Notified(fee, job, "FAIL")
  <1>1. PICK cells \in Partial(job) : flash' = After(flash, job.sector, cells)
    BY DEF JobFails, After
  <1> DEFINE new == After(flash, job.sector, cells)
  <1>2. /\ job # NoJob /\ job.op # "read" /\ fee' = g
        /\ failedWL' = IF job.op = "erase" THEN {} ELSE {At(job.sector, WLBeginning(job.addr))}
    BY DEF JobFails, JobEnd, Notified
  <1>3. /\ Inv(flash, fee, job) /\ MainInv(fee, job) /\ UserInv(flash, fee, job) /\ IsFee(fee)
        /\ RowInv(flash, fee) /\ Cur(fee) \in Sectors /\ Oth(fee) # Cur(fee)
    BY FieldFacts DEF IInv, Inv, DealtWith, FaultInv
  <1>4. Outcome(job, cells, "FAIL")
    BY <1>1 DEF Outcome
  <1>5. RowInv(new, g)
    BY <1>2, <1>3, <1>4, RowJob
  <1>6. ~fee.CacheUpdated =>
          \A t \in Sectors : \A p \in Slots : new[t][p].kind = "copy" => flash[t][p].kind = "copy"
    BY <1>2, <1>4, StartJobCopies
  <1>7. /\ Same(fee, g, {"Req", "UserJob", "IntrJob"})
        /\ \/ /\ job.op = "program" /\ job.sector = Cur(fee) /\ job.addr = fee.NextFreePage
              /\ UserWrites(fee) /\ fee.CacheUpdated /\ ~IntrRuns(job)
              /\ g.Req = fee.Req /\ g.UserJob = "FAIL" /\ g.IntrJob = fee.IntrJob
           \/ /\ IntrRuns(job) /\ ~UserWrites(fee) /\ fee.UserJob = "IDLE" /\ fee.IntrJob = "IDLE"
              /\ g.Req = fee.Req /\ g.UserJob = fee.UserJob /\ g.IntrJob = "FAIL"
    <2>1. "FAIL" \in {"PASS", "FAIL"}
      OBVIOUS
    <2> QED
      BY <1>2, <2>1, NotifiedFields
  <1> HIDE DEF new, g
  <1>8. /\ g.InitGCState = fee.InitGCState /\ g.RepairStep = fee.RepairStep
        /\ g.PrepStep = fee.PrepStep /\ g.PrepDest = fee.PrepDest /\ g.CurrSector = fee.CurrSector
        /\ g.StatePageAddr = fee.StatePageAddr /\ g.NextFreeWL = fee.NextFreeWL
        /\ g.CacheUpdated = fee.CacheUpdated /\ g.Cache = fee.Cache /\ g.GcDest = fee.GcDest
        /\ g.GcState = fee.GcState /\ g.NextFreePage = fee.NextFreePage
        /\ g.IntrJobFailCount = fee.IntrJobFailCount /\ g.Affected = fee.Affected
        /\ g.UserJobFailCount = fee.UserJobFailCount
    BY <1>7 DEF Same, Fields
  <1>9. FirstFailure(g)
    <2>1. ~Stage(fee, "recopy")
      BY <1>3 DEF UserInv, Stage
    <2>2. ~Stage(g, "recopy")
      BY <1>7, <2>1 DEF Stage
    <2>3. g.IntrJobFailCount = 0 /\ g.UserJobFailCount = 0 /\ g.RepairStep = "MARKER"
      BY <1>3, <1>8 DEF IsFee
    <2> QED
      BY <2>2, <2>3 DEF FirstFailure
  <1>10. ASSUME NEW w \in failedWL'
         PROVE  WordlineLeft(new, g, w)
    <2>1. job.op # "erase" /\ w = At(job.sector, WLBeginning(job.addr))
      BY <1>2, <1>10
    <2>2. CASE ~IntrRuns(job)
      <3>1. /\ job.sector = Cur(fee) /\ job.addr = fee.NextFreePage
            /\ UserWrites(fee) /\ fee.CacheUpdated /\ g.UserJob = "FAIL" /\ g.IntrJob = fee.IntrJob
            /\ g.Req = fee.Req
        BY <1>7, <2>2
      <3>2. Stage(fee, "compare") /\ fee.NextFreePage \in Slots
        BY <1>3, <3>1 DEF UserInv, UserWrites, Stage
      <3>3. /\ w \in Addresses /\ w.sector = Cur(fee) /\ w.slot = WLBeginning(fee.NextFreePage)
            /\ IsWLBeginning(w.slot)
        BY <1>3, <2>1, <3>1, <3>2, WordlineOf
      <3>4. UserLeft(g, w)
        BY <1>8, <3>1, <3>2, <3>3 DEF UserLeft, Stage
      <3>5. g.IntrJob # "FAIL"
        BY <1>3, <3>1 DEF IsFee
      <3> QED
        BY <1>8, <3>1, <3>3, <3>4, <3>5 DEF WordlineLeft, StartLeft, CacheLeft, Cur
    <2>3. CASE IntrRuns(job) /\ ~fee.CacheUpdated
      <3>1. fee.InitGCState \in {"PREPARE", "DIRTY"} /\ g.IntrJob = "FAIL"
        <4>1. ~(fee.InitGCState = "COMPLETE")
          BY <1>3, <2>3 DEF MainInv, Quiet
        <4> QED
          BY <1>2, <1>3, <1>7, <2>3, <4>1, JobForms
      <3>2. /\ job.sector \in Sectors /\ job.addr \in Slots /\ w.slot = job.addr
            /\ NoCopyIn(flash, w)
        BY <1>3, <2>1, <2>3, <3>1, StartWordlineBare
      <3>3. w \in Addresses /\ w.sector = job.sector /\ IsWLBeginning(w.slot)
        BY <2>1, <3>2, WordlineOf
      <3>4. NoCopyIn(new, w)
        BY <1>6, <2>3, <3>2, <3>3 DEF NoCopyIn
      <3>5. g.InitGCState = "PREPARE" => PrepLeft(g, w)
        <4>1. SUFFICES ASSUME fee.InitGCState = "PREPARE" PROVE PrepLeft(g, w)
          BY <1>8
        <4>2. /\ FlashOk(flash) /\ PrepInv(flash, fee, job) /\ fee.IntrJob = "IDLE"
          BY <1>3, <2>3 DEF Inv, MainInv
        <4>3. job.sector = PrepSector[fee.PrepStep] /\ job.addr = PrepAddr(fee.PrepStep)
          BY <1>3, <2>3, <4>1, <4>2, PrepJobSafe
        <4>4. fee.PrepDest = PrepAddr(fee.PrepStep)
          BY <4>1, <4>2 DEF PrepInv
        <4> QED
          BY <1>8, <3>1, <3>2, <3>3, <4>3, <4>4 DEF PrepLeft
      <3>6. g.InitGCState \in {"DIRTY", "NORMAL", "COMPLETE"} => PageAfter(g, w)
        <4>1. SUFFICES ASSUME fee.InitGCState = "DIRTY" PROVE PageAfter(g, w)
          BY <1>8, <3>1
        <4>2. /\ job.addr = fee.StatePageAddr[job.sector] /\ job.addr \in Nat
              /\ job.addr + PerWL <= fee.NextFreeWL[job.sector]
          BY <1>3, <2>3, <4>1, RepairedPageBefore
        <4> QED
          BY <1>8, <3>2, <3>3, <4>2 DEF PageAfter
      <3>7. StartLeft(new, g, w)
        BY <1>8, <3>1, <3>4, <3>5, <3>6 DEF StartLeft
      <3> QED
        BY <1>8, <2>3, <3>3, <3>7 DEF WordlineLeft, CacheLeft
    <2>4. CASE IntrRuns(job) /\ fee.CacheUpdated
      <3>1. /\ fee.InitGCState = "COMPLETE" /\ fee.GcState \in Busy /\ fee.IntrJob = "IDLE"
            /\ GcRunning(flash, fee, job)
        <4>1. fee.InitGCState = "COMPLETE"
          BY <1>3, <2>4 DEF MainInv
        <4> QED
          BY <1>2, <1>3, <2>4, <4>1, JobForms
      <3>2. /\ job.sector = Oth(fee) /\ job.addr = fee.GcDest /\ g.IntrJob = "FAIL"
            /\ fee.GcState # "ERASE"
        <4>1. job.sector = Oth(fee) /\ (job.op # "erase" => job.addr = fee.GcDest)
              /\ job.op = CASE fee.GcState \in {"COPY_WRITE", "V_SP", "E_SP"} -> "program"
                            [] fee.GcState = "ERASE" -> "erase"
                            [] OTHER -> "marker"
          BY <1>3, <2>4, <3>1, GcJobSafe
        <4>2. fee.GcState # "ERASE"
          BY <2>1, <4>1
        <4> QED
          BY <1>7, <2>1, <2>4, <4>1, <4>2
      <3>3. fee.GcDest \in Slots /\ Oth(fee) \in Sectors
        <4>1. Oth(fee) \in Sectors
          BY <1>3, SlotFacts DEF Oth, Cur
        <4>2. GcInv(flash, fee, job)
          BY <1>3 DEF Inv
        <4>3. fee.GcDest = 0 \/ fee.GcDest \in Slots
          BY <3>1, <3>2, <4>2 DEF GcInv, Busy
        <4> QED
          BY <4>1, <4>3, SlotFacts
      <3>4. /\ w \in Addresses /\ w.sector = Oth(fee) /\ w.slot = WLBeginning(fee.GcDest)
            /\ IsWLBeginning(w.slot)
        BY <2>1, <3>2, <3>3, WordlineOf
      <3>5. GcLeft(g, w)
        <4>1. g.GcState \notin {"IDLE", "REQUESTED"}
          BY <1>8, <3>1 DEF Busy
        <4> QED
          BY <1>8, <3>2, <3>4, <4>1 DEF GcLeft
      <3> QED
        BY <1>3, <1>8, <2>4, <3>4, <3>5 DEF WordlineLeft, StartLeft, CacheLeft, Cur
    <2> QED
      BY <2>2, <2>3, <2>4
  <1> QED
    BY <1>1, <1>2, <1>5, <1>9, <1>10 DEF DealtWith, new

-----------------------------------------------------------------------------
(* The whole program. *)

\* A start-up has no failure to deal with.
LEMMA DealtBoot ==
  ASSUME NEW fl, NEW f, \E old : f = Boot(old)
  PROVE  DealtWith(fl, {}, f)
  <1>1. f.IntrJob = "IDLE" /\ f.UserJob = "IDLE" /\ f.GcState = "IDLE"
    BY DEF Boot
  <1> QED
    BY <1>1 DEF DealtWith, FirstFailure, RowInv

\* Before the first failure a VALID page keeps its wordline for itself.
LEMMA AloneStep ==
  ASSUME FInv, FaultyInv, fails = 0, AloneInv(flash, fee), [Next]_vars, fails' = 0
  PROVE  AloneInv(flash', fee')
  <1>1. IInv /\ FaultInv(flash, fee, job) /\ Inv(flash, fee, job) /\ IsFee(fee)
    BY DEF FInv, FaultyInv, IInv, Inv
  <1>2. CASE MainFunction
    BY <1>1, <1>2, AloneMainFunction
  <1>3. CASE JobEndNotification
    BY <1>1, <1>3, AloneJobEnds
  <1>4. CASE JobFails
    BY <1>4 DEF JobFails
  <1>5. CASE \/ \E b \in Blocks : Read(b) \/ Write(b) \/ InvalidateBlock(b)
             \/ Cancel
    BY <1>1, <1>5, AloneRequestStep
  <1>6. CASE Reset
    BY <1>1, <1>6, AloneReset
  <1>7. CASE UNCHANGED vars
    <2>1. flash' = flash /\ fee' = fee
      BY <1>7 DEF vars
    <2> QED
      BY <2>1
  <1> QED
    BY <1>2, <1>3, <1>4, <1>5, <1>6, <1>7 DEF Next

\* Every step deals with the one failure there is.
LEMMA DealtStep ==
  ASSUME WLs >= 6, FInv, FaultyInv, UndoExact, fails = 0 => AloneInv(flash, fee),
         WordlineInv(flash, failedWL, fails, fee), [Next]_vars
  PROVE  WordlineInv(flash', failedWL', fails', fee')
  <1>1. /\ FaultInv(flash, fee, job) /\ writes \in Nat /\ fails \in Nat
        /\ fails' \in {fails, fails + 1}
    BY DEF FInv, FaultyInv, Next, vars, MainFunction, JobEndNotification, JobFails, Read, Write,
           InvalidateBlock, Cancel, Reset
  <1>2. SUFFICES ASSUME fails' <= 1
                 PROVE  (fails' = 0 => failedWL' = {}) /\ DealtWith(flash', failedWL', fee')
    BY DEF WordlineInv
  <1>3. (fails = 0 => failedWL = {}) /\ DealtWith(flash, failedWL, fee)
    BY <1>1, <1>2 DEF WordlineInv
  <1>4. CASE MainFunction
    <2>1. fails' = fails /\ failedWL' = failedWL
      BY <1>4 DEF MainFunction
    <2> QED
      BY <1>1, <1>3, <1>4, <2>1, DealtMainFunction
  <1>5. CASE JobEndNotification
    <2>1. fails' = fails /\ failedWL' \subseteq failedWL
      BY <1>5 DEF JobEndNotification
    <2> QED
      BY <1>1, <1>3, <1>5, <2>1, DealtJobEnds
  <1>6. CASE JobFails
    <2>1. fails' = fails + 1 /\ fails = 0
      BY <1>1, <1>2, <1>6 DEF JobFails
    <2>2. IInv
      BY <2>1 DEF FInv
    <2> QED
      BY <1>1, <1>3, <1>6, <2>1, <2>2, DealtJobFails
  <1>7. CASE \/ \E b \in Blocks : Read(b) \/ Write(b) \/ InvalidateBlock(b)
             \/ Cancel
    <2>1. fails' = fails /\ failedWL' = failedWL
      BY <1>7 DEF Read, Write, InvalidateBlock, Cancel
    <2> QED
      BY <1>1, <1>3, <1>7, <2>1, DealtRequestStep
  <1>8. CASE Reset
    <2>1. failedWL' = {} /\ fee' = Boot(flash')
      BY <1>8 DEF Reset
    <2> QED
      BY <2>1, DealtBoot
  <1>9. CASE UNCHANGED vars
    <2>1. flash' = flash /\ fee' = fee /\ failedWL' = failedWL /\ fails' = fails
      BY <1>9 DEF vars
    <2> QED
      BY <1>3, <2>1
  <1> QED
    BY <1>4, <1>5, <1>6, <1>7, <1>8, <1>9 DEF Next

\* What is dealt with leaves no latest copy in the wordline.
LEMMA DealtSettled ==
  ASSUME FaultyInv, WordlineInv(flash, failedWL, fails, fee), fails <= 1
  PROVE  NoBlockLeftInFailedWordline
  <1>1. /\ FaultTypes(fee) /\ CacheFault(flash, fee)
        /\ \A w \in failedWL : WordlineLeft(flash, fee, w)
    BY DEF FaultyInv, FaultInv, WordlineInv, DealtWith
  <1>2. SUFFICES ASSUME Settled, NEW b \in Blocks, InFailedWL(fee.Cache[b])
                 PROVE  FALSE
    BY DEF NoBlockLeftInFailedWordline
  <1> DEFINE at == fee.Cache[b]
             w == At(at.sector, WLBeginning(at.slot))
  <1>3. at \in Addresses /\ at # NoAddr /\ w \in failedWL /\ Within(at, w)
    BY <1>1, <1>2, FieldFacts DEF InFailedWL, Within
  <1>4. at.sector \in Sectors /\ w.sector = at.sector
    BY <1>3, AddressFacts, WordlineOf
  <1> HIDE DEF w
  <1>5. CacheLeft(fee, w) /\ fee.CacheUpdated /\ fee.GcState # "FAIL"
        /\ fee.IntrJob = "IDLE" /\ fee.UserJob = "IDLE" /\ ~Stage(fee, "recopy")
    BY <1>1, <1>2, <1>3 DEF WordlineLeft, Settled, Stage
  <1>6. ~Left(fee, w)
    BY <1>3 DEF Left
  <1>7. CASE at.sector = Cur(fee)
    BY <1>4, <1>5, <1>6, <1>7 DEF CacheLeft, UserLeft
  <1>8. CASE at.sector # Cur(fee)
    <2>1. at.sector = Oth(fee)
      BY <1>1, <1>4, <1>8, FieldFacts, SlotFacts
    <2>2. fee.GcState \in Copying
      BY <1>1, <1>3, <1>5, <2>1 DEF CacheFault
    <2> QED
      BY <1>4, <1>5, <1>6, <1>8, <2>2 DEF CacheLeft, GcLeft
  <1> QED
    BY <1>7, <1>8

\* The inductive invariant.
FailureInv ==
  /\ FInv /\ FaultyInv
  /\ fails = 0 => AloneInv(flash, fee)
  /\ WordlineInv(flash, failedWL, fails, fee)

\* It holds at first.
LEMMA FailureStart == Init => FailureInv
  <1>1. SUFFICES ASSUME Init PROVE FailureInv
    OBVIOUS
  <1>2. IInv /\ FaultInv(flash, fee, job) /\ AloneInv(flash, fee)
    BY <1>1, InitInv, FaultStart, AloneStart
  <1>3. writes \in Nat /\ fails = 0 /\ failedWL = {} /\ fee = Boot(flash)
    BY <1>1 DEF Init
  <1>4. FInv /\ FaultyInv
    BY <1>2, <1>3 DEF FInv, FaultyInv
  <1>5. WordlineInv(flash, failedWL, fails, fee)
    BY <1>3, DealtBoot DEF WordlineInv
  <1> QED
    BY <1>2, <1>4, <1>5 DEF FailureInv

\* Every step keeps it.
LEMMA FailureStep ==
  ASSUME WLs >= 6, FailureInv, UndoExact, [Next]_vars
  PROVE  FailureInv'
  <1>1. FInv' /\ FaultyInv'
    BY FeeStep, FaultStep DEF FailureInv
  <1>2. WordlineInv(flash', failedWL', fails', fee')
    BY DealtStep DEF FailureInv
  <1>3. fails' = 0 => AloneInv(flash', fee')
    <2>1. SUFFICES ASSUME fails' = 0 PROVE AloneInv(flash', fee')
      OBVIOUS
    <2>2. fails \in Nat /\ fails' \in {fails, fails + 1}
      BY DEF FailureInv, FInv, Next, vars, MainFunction, JobEndNotification, JobFails, Read,
             Write, InvalidateBlock, Cancel, Reset
    <2>3. fails = 0
      BY <2>1, <2>2
    <2> QED
      BY <2>1, <2>3, AloneStep DEF FailureInv
  <1> QED
    BY <1>1, <1>2, <1>3 DEF FailureInv

\* A wordline in which programming failed holds no block's latest copy once
\* that failure is dealt with, as long as there was only one and its copies
\* were not such that Fee_lHandleConfigGcCopyError takes them back wrongly.
THEOREM WordlineCorrect ==
  ASSUME WLs >= 6
  PROVE  Spec /\ []UndoExact => [](fails <= 1 => NoBlockLeftInFailedWordline)
  <1>1. Init => FailureInv
    BY FailureStart
  <1>2. FailureInv /\ UndoExact /\ [Next]_vars => FailureInv'
    BY FailureStep
  <1>3. FailureInv => (fails <= 1 => NoBlockLeftInFailedWordline)
    BY DealtSettled DEF FailureInv
  <1> QED
    BY <1>1, <1>2, <1>3, PTL DEF Spec

\* With one copy per wordline they never are.
THEOREM WordlineOneCopy ==
  ASSUME WLs >= 6, PerWL = 1
  PROVE  Spec => [](fails <= 1 => NoBlockLeftInFailedWordline)
  <1>1. Init => FailureInv
    BY FailureStart
  <1>2. FailureInv /\ [Next]_vars => FailureInv'
    <2>1. FailureInv => UndoExact
      BY OneCopyUndo DEF FailureInv
    <2> QED
      BY <2>1, FailureStep
  <1>3. FailureInv => (fails <= 1 => NoBlockLeftInFailedWordline)
    BY DealtSettled DEF FailureInv
  <1> QED
    BY <1>1, <1>2, <1>3, PTL DEF Spec
=============================================================================
