------------------------------ MODULE FeeWordline ------------------------------
(***************************************************************************)
(* What the flash EEPROM emulation does about a wordline in which          *)
(* programming failed: the latest copies in it are made again elsewhere,   *)
(* and nothing is put there until the sector is erased.  WordlineInv says  *)
(* how far this is, after one failure, for each step that may fail.        *)
(***************************************************************************)
EXTENDS FeeFault

\* A copy is in wordline w.
Within(at, w) == at # NoAddr /\ At(at.sector, WLBeginning(at.slot)) = w

\* No block's latest copy is in wordline w, and the next page is behind it.
Left(f, w) == \A b \in Blocks : ~Within(f.Cache[b], w)
Behind(w, d) == w.slot + PerWL <= d

\* No copy is in wordline w.
NoCopyIn(fl, w) == \A a \in Slots : fl[w.sector][a].kind = "copy" => WLBeginning(a) # w.slot

\* The initialisation: the wordline of a state page or of its marker failed.
PrepLeft(f, w) ==
  LET k == f.PrepStep
  IN IF w.sector = PrepSector[k]
     THEN (f.IntrJob = "FAIL" /\ w.slot = f.PrepDest) \/ Behind(w, f.PrepDest)
     ELSE /\ k >= 5 /\ w.slot <= f.StatePageAddr[0]
          /\ f.StatePageAddr[0] + PerWL <= f.NextFreeWL[0]

\* The sector's state page is in the wordline or behind it, with blanks behind.
PageAfter(f, w) ==
  /\ w.slot <= f.StatePageAddr[w.sector]
  /\ f.StatePageAddr[w.sector] + PerWL <= f.NextFreeWL[w.sector]

\* Until the cache is built.
StartLeft(fl, f, w) ==
  ~f.CacheUpdated =>
    /\ f.InitGCState \notin {"EMPTY", "INVALID"}
    /\ f.InitGCState # "FAIL" => NoCopyIn(fl, w)
    /\ f.InitGCState = "PREPARE" => PrepLeft(f, w)
    /\ f.InitGCState \in {"DIRTY", "NORMAL", "COMPLETE"} => PageAfter(f, w)

\* A write: the copies of the wordline are made again from its first to its
\* last.
UserLeft(f, w) ==
  \/ Stage(f, "compare") /\ f.UserJob = "FAIL" /\ w.slot = WLBeginning(f.NextFreePage)
  \/ /\ Stage(f, "recopy") /\ w.slot = WLBeginning(f.Affected)
     /\ \A b \in Blocks : Within(f.Cache[b], w) => f.Cache[b].slot >= f.Affected
  \/ Left(f, w) /\ Behind(w, f.NextFreePage)

\* A collection fills the other sector.
GcLeft(f, w) ==
  /\ f.GcState \in {"IDLE", "REQUESTED"} => Behind(w, f.NextFreeWL[Oth(f)])
  /\ f.GcState \in Copying \cup {"E_SP", "E_M"} =>
       \/ f.IntrJob = "FAIL" /\ w.slot = WLBeginning(f.GcDest)
       \/ Left(f, w) /\ Behind(w, f.GcDest)
  /\ ~(f.GcState = "ERASE" /\ f.IntrJob = "PASS")

\* From then on, in the sector that is current and in the other one.
CacheLeft(f, w) ==
  f.CacheUpdated /\ f.GcState # "FAIL" =>
    IF w.sector = Cur(f)
    THEN UserLeft(f, w) /\ ~(f.GcState = "COPY_WRITE" /\ f.IntrJob = "FAIL")
    ELSE GcLeft(f, w)

WordlineLeft(fl, f, w) ==
  /\ w \in Addresses /\ IsWLBeginning(w.slot)
  /\ StartLeft(fl, f, w) /\ CacheLeft(f, w)

\* A first failure finds no earlier one that is still dealt with.
FirstFailure(f) ==
  /\ f.IntrJob = "FAIL" => f.IntrJobFailCount = 0 /\ f.RepairStep = "MARKER"
  /\ f.UserJob = "FAIL" => f.UserJobFailCount = 0 /\ ~Stage(f, "recopy")

\* The sources a collection remembers are those of the copies in its wordline.
RowInv(fl, f) ==
  LET d == f.GcDest
      row == WLBeginning(d)
  IN f.GcState \in {"START_COPY", "COPY_WRITE"} /\ ~IsWLBeginning(d) =>
       /\ Len(f.GcSrcAddr) = d - row
       /\ \A b \in Blocks :
            Within(f.Cache[b], At(Oth(f), row)) /\ f.Cache[b].slot < d =>
              LET at == f.GcSrcAddr[f.Cache[b].slot - row + 1]
              IN fl[at.sector][at.slot].blk = b

\* Each failed wordline is left as far as the driver has got with it.
DealtWith(fl, fwl, f) ==
  FirstFailure(f) /\ RowInv(fl, f) /\ \A w \in fwl : WordlineLeft(fl, f, w)

\* That holds while at most one job has failed.
WordlineInv(fl, fwl, n, f) ==
  n <= 1 => (n = 0 => fwl = {}) /\ DealtWith(fl, fwl, f)

\* Before the first failure: a VALID page has its wordline for itself.
PageAlone(cells) ==
  \A a \in Slots : IsState(cells[a], "VALID") =>
    \A p \in Slots : cells[p].kind = "copy" => WLBeginning(p) # a

\* A start-up looks for the next free page behind that page.
AloneInv(fl, f) ==
  /\ \A s \in Sectors : PageAlone(fl[s])
  /\ f.InitGCState \in Started /\ ~f.CacheUpdated =>
       f.StatePageAddr[Cur(f)] \in Slots /\ IsState(fl[Cur(f)][f.StatePageAddr[Cur(f)]], "VALID")
  /\ f.CacheUpdated =>
       \A a \in Slots : IsState(fl[Cur(f)][a], "VALID") => a + PerWL <= f.NextFreePage
=============================================================================
