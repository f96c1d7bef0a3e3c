-------------------------------- MODULE FeeInv --------------------------------
(***************************************************************************)
(* The inductive invariant of the flash EEPROM emulation, for a flash of   *)
(* any size, until a job of the flash driver fails.  A reset may cut off   *)
(* any job at any moment; all that survives it is the flash, so FlashOk,   *)
(* the shape of the two sectors, is what a start-up can rely on, and a job *)
(* is harmless where each of its partial outcomes keeps that shape.  The   *)
(* other parts tie the driver's state to the flash: the page a write goes  *)
(* to (UserInv), the first preparation and the repair of a marker          *)
(* (PrepInv, StartInv), the sector a garbage collection fills (GcInv) and  *)
(* the copies the cache leads to (CacheInv).                               *)
(*                                                                         *)
(* The parts are operators of a flash, a state of the driver and a job:    *)
(* the main function chooses its next job first, and the invariant has to  *)
(* hold of the state between the two.                                      *)
(***************************************************************************)
EXTENDS Fee

-----------------------------------------------------------------------------
(* The flash. *)

Marked(c) == c.kind = "state" /\ c.mark # "none"
IsState(c, st) == c.kind = "state" /\ c.st = st
MarkedState(c, st) == IsState(c, st) /\ c.mark # "none"

BlankFrom(cells, a) == \A p \in Slots : p >= a => cells[p] = Blank

NoValidIn(cells) == \A a \in Slots : ~IsState(cells[a], "VALID")

\* A sector: its ERASED page is its first slot, its only VALID page and all
\* copies come later, and a wordline is used from its beginning.
Shape(cells) ==
  /\ \A a \in Slots : IsState(cells[a], "ERASED") => a = 0
  /\ \A a \in Slots : IsState(cells[a], "VALID") => a >= PerWL /\ IsWLBeginning(a)
  /\ \A a \in Slots : cells[a].kind = "copy" => a >= PerWL
  /\ \A a, p \in Slots :
       IsState(cells[a], "VALID") /\ IsState(cells[p], "VALID") => a = p
  /\ \A a \in Slots : IsState(cells[a], "VALID") /\ IsState(cells[0], "ERASED")
                        => cells[0].cnt < cells[a].cnt
  /\ \A a \in Slots : cells[a] # Blank => cells[WLBeginning(a)] # Blank

NoTie(fl) ==
  \A a, p \in Slots : IsState(fl[0][a], "VALID") /\ IsState(fl[1][p], "VALID")
                        => fl[0][a].cnt # fl[1][p].cnt

FlashOk(fl) ==
  /\ PerWL \in Slots
  /\ fl \in [Sectors -> [Slots -> Cells]]
  /\ \A s \in Sectors : Shape(fl[s])
  /\ NoTie(fl)

\* The sector a start-up would take as the current one.
Governs(fl, s) ==
  \E a \in Slots :
    /\ MarkedState(fl[s][a], "VALID")
    /\ \A p \in Slots : MarkedState(fl[Other(s)][p], "VALID")
                          => fl[Other(s)][p].cnt < fl[s][a].cnt

\* A sector as an ended collection leaves it, one a collection fills up to
\* slot d, and one that is used up to a whole wordline.
Unused(cells) == MarkedState(cells[0], "ERASED") /\ BlankFrom(cells, PerWL)

Frontier(cells, d) ==
  /\ d >= PerWL
  /\ BlankFrom(cells, d)
  /\ d \in Slots => IsWLBeginning(d) \/ cells[WLBeginning(d)] # Blank

Filling(cells, d) ==
  MarkedState(cells[0], "ERASED") /\ Frontier(cells, d) /\ NoValidIn(cells)

Ready(cells, free) ==
  \E w \in Slots : /\ w >= PerWL /\ IsWLBeginning(w) /\ cells[w] # Blank
                   /\ free = w + PerWL /\ BlankFrom(cells, free)

LatestIs(cells, b, a) == a \in CopiesOf(cells, b) /\ \A p \in CopiesOf(cells, b) : p <= a

Latest(cells, b) ==
  IF CopiesOf(cells, b) = {} THEN NoValue ELSE cells[Max(CopiesOf(cells, b))].val

-----------------------------------------------------------------------------
(* The driver's state and its job. *)

Fields ==
  {"MainJob", "InitGCState", "GcResumeState", "RepairStep", "PrepStep", "PrepDest",
   "CurrSector", "StateCount", "StatePageAddr", "NextFreeWL", "Dirty",
   "CacheUpdated", "Cache", "Copied", "NextFreePage", "GcState", "GcInit", "GcDest",
   "GcCopyIndex", "GcBlock", "GcPrevBlock", "GcFirstBlkInWL", "GcSrcAddr",
   "BlkModified", "IntrJob", "IntrJobFailCount", "Req", "UserJob",
   "UserJobFailCount", "Affected"}

IsFee(f) ==
  /\ DOMAIN f = Fields
  /\ f.MainJob \in {"INITGC", "CACHEUPDATE", "READ", "WRITE", "GC", "NONE"}
  /\ f.InitGCState \in
       {"EMPTY", "INVALID", "DIRTY", "NORMAL", "PREPARE", "COMPLETE", "FAIL"}
  /\ f.GcResumeState \in {"ERASE", "DATA_COPY", "NORMAL"}
  /\ f.PrepStep \in Nat /\ f.PrepDest \in Nat
  /\ f.CurrSector \in Sectors /\ f.StateCount \in Nat
  /\ f.StatePageAddr \in [Sectors -> Nat] /\ f.NextFreeWL \in [Sectors -> Nat]
  /\ f.Dirty \in [Sectors -> BOOLEAN]
  /\ f.CacheUpdated \in BOOLEAN
  /\ f.Cache \in [Blocks -> Addresses \cup {NoAddr}]
  /\ f.Copied \in [Blocks -> BOOLEAN] /\ f.NextFreePage \in Nat
  /\ f.GcState \in {"IDLE", "REQUESTED", "START_COPY", "COPY_WRITE", "V_SP", "V_M",
                    "ERASE", "E_SP", "E_M", "FAIL"}
  /\ f.GcInit \in BOOLEAN /\ f.GcDest \in Nat /\ f.GcCopyIndex \in Nat
  /\ f.BlkModified \in BOOLEAN
  /\ f.Req \in Requests \cup {NoReq}
  /\ f.IntrJob \in {"IDLE", "PASS"} /\ f.UserJob \in {"IDLE", "PASS"}
  /\ f.IntrJobFailCount = 0 /\ f.UserJobFailCount = 0 /\ f.RepairStep = "MARKER"

Cur(f) == f.CurrSector
Oth(f) == Other(f.CurrSector)

IsJob(j, op, owner, s) ==
  j # NoJob /\ j.op = op /\ j.owner = owner /\ j.sector = s

Programs(j, owner, s, a, c) ==
  IsJob(j, "program", owner, s) /\ j.addr = a /\ j.cell = c

Marks(fl, j, s, a) ==
  IsJob(j, "marker", "intr", s) /\ j.addr = a /\ j.cell = [fl[s][a] EXCEPT !.mark = "ok"]

Erases(j, s) == IsJob(j, "erase", "intr", s)

Reads(fl, j, at) ==
  IsJob(j, "read", "user", at.sector) /\ j.addr = at.slot /\ j.cell = fl[at.sector][at.slot]

IntrRuns(j) == j # NoJob /\ j.owner = "intr"
Quiet(f, j) == f.IntrJob = "IDLE" /\ ~IntrRuns(j)
Over(f, j) == f.IntrJob = "PASS" /\ ~IntrRuns(j)

Stage(f, st) == f.Req # NoReq /\ f.Req.stage = st

\* The user's copy is in the flash and not yet acknowledged.
Landed(f, j) == Stage(f, "compare") /\ j = NoJob

-----------------------------------------------------------------------------
(* The inductive invariant. *)

CountsKnown(fl, f) ==
  \A s \in Sectors : \A a \in Slots : Marked(fl[s][a]) => fl[s][a].cnt <= f.StateCount

CountsBelow(fl, f) ==
  \A s \in Sectors : \A a \in Slots : Marked(fl[s][a]) => fl[s][a].cnt < f.StateCount

UserInv(fl, f, j) ==
  /\ f.Req # NoReq =>
       f.Req.stage \in {"request", "toRead", "reading", "compare", "stuck"}
  /\ Stage(f, "compare") =>
       /\ f.MainJob = "WRITE" /\ f.CacheUpdated /\ f.NextFreePage \in Slots
       /\ \/ /\ Programs(j, "user", Cur(f), f.NextFreePage, BlockCopy(f.Req.blk, f.Req.val))
             /\ f.UserJob = "IDLE"
             /\ Frontier(fl[Cur(f)], f.NextFreePage)
          \/ /\ j = NoJob /\ f.UserJob = "PASS"
             /\ fl[Cur(f)][f.NextFreePage] = BlockCopy(f.Req.blk, f.Req.val)
             /\ f.NextFreePage >= PerWL
             /\ Frontier(fl[Cur(f)], f.NextFreePage + 1)
  /\ Stage(f, "reading") =>
       /\ f.MainJob = "READ" /\ f.CacheUpdated /\ f.Cache[f.Req.blk] # NoAddr
       /\ Reads(fl, j, f.Cache[f.Req.blk])
  /\ Stage(f, "stuck") => f.GcState = "FAIL"
  /\ ~Stage(f, "compare") => f.UserJob = "IDLE"
  /\ ~Stage(f, "compare") /\ ~Stage(f, "reading") => j = NoJob \/ IntrRuns(j)
  /\ f.CacheUpdated /\ ~Stage(f, "compare") => Frontier(fl[Cur(f)], f.NextFreePage)

MainInv(f, j) ==
  /\ IntrRuns(j) => /\ f.UserJob = "IDLE" /\ f.IntrJob = "IDLE"
                    /\ f.MainJob \in {"INITGC", "GC"}
  /\ f.CacheUpdated => f.InitGCState = "COMPLETE" /\ f.MainJob # "INITGC"
  /\ ~f.CacheUpdated => f.MainJob \in {"INITGC", "CACHEUPDATE"}
  /\ f.MainJob = "CACHEUPDATE" => f.InitGCState = "COMPLETE"
  /\ f.InitGCState # "COMPLETE" => f.GcState = "IDLE" /\ f.MainJob = "INITGC"
  /\ ~f.CacheUpdated /\ f.InitGCState = "COMPLETE" => Quiet(f, j)
  /\ f.GcState \notin {"IDLE", "ERASE"} => f.CacheUpdated
  /\ f.GcState \in {"COPY_WRITE", "V_SP", "V_M", "E_SP", "E_M", "FAIL"}
       => f.MainJob = "GC"

\* The flash when the first k - 1 jobs of the preparation have ended.
PrepFlash(fl, k) ==
  /\ IF k = 1 THEN fl[0][0] = Blank
     ELSE IsState(fl[0][0], "ERASED") /\ (fl[0][0].mark = "none" <=> k = 2)
  /\ IF k <= 3 THEN fl[0][PerWL] = Blank
     ELSE IsState(fl[0][PerWL], "VALID") /\ (fl[0][PerWL].mark = "none" <=> k = 4)
  /\ IF k <= 5 THEN fl[1][0] = Blank
     ELSE IsState(fl[1][0], "ERASED") /\ (fl[1][0].mark = "none" <=> k = 6)
  /\ \A a \in Slots : a \notin {0, PerWL} => fl[0][a] = Blank
  /\ \A a \in Slots : a # 0 => fl[1][a] = Blank

PrepAddr(k) == IF k \in {3, 4} THEN PerWL ELSE 0

PrepInv(fl, f, j) ==
  LET k == f.PrepStep
      s == PrepSector[k]
  IN f.InitGCState \in {"EMPTY", "PREPARE"} =>
       /\ Cur(f) = 0 /\ k \in 1 .. 6 /\ f.PrepDest = PrepAddr(k) /\ f.GcDest = 0
       /\ PrepFlash(fl, IF f.IntrJob = "PASS" THEN k + 1 ELSE k)
       /\ f.InitGCState = "EMPTY" => k = 1 /\ Quiet(f, j)
       /\ IntrRuns(j) => f.StateCount > 0
       /\ IntrRuns(j) =>
            IF k % 2 = 1
            THEN Programs(j, "intr", s, PrepAddr(k),
                          StatePage(PrepState[k], f.StateCount, "none"))
            ELSE Marks(fl, j, s, PrepAddr(k))
       /\ k >= 5 => f.StatePageAddr[0] = PerWL /\ f.NextFreeWL[0] = PerWL + PerWL
       /\ \A t \in Sectors : \A a \in Slots :
            fl[t][a].kind = "state" =>
              /\ fl[t][a].cnt <= f.StateCount
              /\ IntrRuns(j) /\ k % 2 = 1 => fl[t][a].cnt < f.StateCount

StartInv(fl, f, j) ==
  /\ f.InitGCState \in {"INVALID", "NORMAL", "FAIL"} => Quiet(f, j)
  /\ f.InitGCState = "DIRTY" =>
       /\ \E s \in Sectors : f.Dirty[s]
       /\ \A s \in Sectors : f.Dirty[s] => /\ f.StatePageAddr[s] \in Slots
                                           /\ Marked(fl[s][f.StatePageAddr[s]])
       /\ IntrRuns(j) => Marks(fl, j, DirtySector(f), f.StatePageAddr[DirtySector(f)])
  /\ f.InitGCState \in {"DIRTY", "NORMAL"} =>
       /\ Governs(fl, Cur(f))
       /\ f.GcResumeState = "NORMAL" =>
            Unused(fl[Oth(f)]) /\ f.NextFreeWL[Oth(f)] = PerWL
       /\ f.GcDest = 0
  /\ f.InitGCState \in {"DIRTY", "NORMAL", "COMPLETE"} /\ ~f.CacheUpdated =>
       Ready(fl[Cur(f)], f.NextFreeWL[Cur(f)])

\* What a busy collection step expects of the other sector before its job has
\* an effect, and finds after it.
GcCell(fl, f) ==
  CASE f.GcState = "COPY_WRITE" -> fl[Cur(f)][f.Cache[f.GcCopyIndex].slot]
    [] f.GcState \in {"V_SP", "V_M"} -> StatePage("VALID", f.StateCount, "none")
    [] OTHER -> StatePage("ERASED", f.StateCount, "none")

GcRunning(fl, f, j) ==
  LET other == fl[Oth(f)]
      d == f.GcDest
  IN CASE f.GcState = "COPY_WRITE" ->
            Programs(j, "intr", Oth(f), d, GcCell(fl, f)) /\ Filling(other, d)
       [] f.GcState = "V_SP" ->
            /\ Programs(j, "intr", Oth(f), d, GcCell(fl, f)) /\ Filling(other, d)
            /\ CountsBelow(fl, f)
       [] f.GcState = "E_SP" ->
            Programs(j, "intr", Oth(f), d, GcCell(fl, f)) /\ BlankFrom(other, 0)
       [] f.GcState = "ERASE" -> IntrRuns(j) => Erases(j, Oth(f))
       [] OTHER -> Marks(fl, j, Oth(f), d) /\ other[d] = GcCell(fl, f)

GcOver(fl, f) ==
  LET other == fl[Oth(f)]
      d == f.GcDest
  IN CASE f.GcState = "COPY_WRITE" -> other[d] = GcCell(fl, f) /\ Filling(other, d + 1)
       [] f.GcState \in {"V_SP", "E_SP"} -> other[d] = GcCell(fl, f)
       [] f.GcState = "ERASE" -> BlankFrom(other, 0)
       [] OTHER -> other[d] = [GcCell(fl, f) EXCEPT !.mark = "ok"]

Busy == {"COPY_WRITE", "V_SP", "V_M", "ERASE", "E_SP", "E_M"}

GcInv(fl, f, j) ==
  f.InitGCState = "COMPLETE" =>
    /\ Governs(fl, IF f.GcState = "V_M" /\ f.IntrJob = "PASS" THEN Oth(f) ELSE Cur(f))
    /\ f.GcState \in {"IDLE", "REQUESTED"} =>
         Unused(fl[Oth(f)]) /\ f.NextFreeWL[Oth(f)] = PerWL
    /\ f.GcState \notin Busy => Quiet(f, j)
    /\ f.GcState \in Busy => \/ f.IntrJob = "IDLE" /\ GcRunning(fl, f, j)
                             \/ Over(f, j) /\ GcOver(fl, f)
    /\ f.GcState = "START_COPY" => Filling(fl[Oth(f)], f.GcDest)
    /\ f.GcState \in {"COPY_WRITE", "V_SP", "V_M"} =>
         f.GcDest \in Slots /\ f.GcDest >= PerWL
    /\ f.GcState \in {"V_SP", "V_M"} =>
         /\ MarkedState(fl[Oth(f)][0], "ERASED") /\ BlankFrom(fl[Oth(f)], f.GcDest + 1)
         /\ IsWLBeginning(f.GcDest)
    /\ f.GcState = "COPY_WRITE" =>
         LET b == f.GcCopyIndex
         IN /\ b \in Blocks /\ f.GcBlock = b
            /\ f.Cache[b] # NoAddr /\ f.Cache[b].sector = Cur(f)
    /\ f.GcState \in {"E_SP", "E_M"} => BlankFrom(fl[Oth(f)], 1)
    /\ f.GcState \in {"ERASE", "E_SP", "E_M"} => f.GcDest = 0

Copying == {"START_COPY", "COPY_WRITE", "V_SP", "V_M"}

\* The current sector without a copy that is not acknowledged yet.
Ack(fl, f, j) ==
  IF Landed(f, j) THEN [fl[Cur(f)] EXCEPT ![f.NextFreePage] = Blank] ELSE fl[Cur(f)]

Moved(f, b) == f.Cache[b] # NoAddr /\ f.Cache[b].sector = Oth(f)

CacheOk(fl, f, cells, b) ==
  /\ f.Cache[b] = NoAddr <=> CopiesOf(cells, b) = {}
  /\ f.Cache[b] = NoAddr /\ f.GcState \in Copying => CopiesOf(fl[Oth(f)], b) = {}
  /\ f.Cache[b] # NoAddr =>
       LatestIs(IF Moved(f, b) THEN fl[Oth(f)] ELSE cells, b, f.Cache[b].slot)
  /\ Moved(f, b) => /\ f.GcState \in Copying \cup {"FAIL"}
                    /\ Latest(cells, b) = fl[Oth(f)][f.Cache[b].slot].val
  /\ f.GcState \in Copying => (f.Copied[b] <=> Moved(f, b))
  /\ f.GcState \in {"V_SP", "V_M"} => Moved(f, b) \/ f.Cache[b] = NoAddr

CacheInv(fl, f, j) ==
  f.CacheUpdated =>
    /\ \A b \in Blocks : CacheOk(fl, f, Ack(fl, f, j), b)
    /\ f.GcState \in {"START_COPY", "COPY_WRITE"} /\ ~f.BlkModified =>
         \A b \in Blocks : b < f.GcCopyIndex => Moved(f, b) \/ f.Cache[b] = NoAddr

Inv(fl, f, j) ==
  /\ FlashOk(fl) /\ IsFee(f) /\ CountsKnown(fl, f)
  /\ UserInv(fl, f, j) /\ MainInv(f, j)
  /\ PrepInv(fl, f, j) /\ StartInv(fl, f, j)
  /\ GcInv(fl, f, j) /\ CacheInv(fl, f, j)

DoubtInv ==
  /\ recovered = Recovered(flash)
  /\ doubt \in [Blocks -> SUBSET (Values \cup {NoValue})]
  /\ Landed(fee, job) => Content(fee.Cache[fee.Req.blk])
                           \in {recovered[fee.Req.blk]} \cup doubt[fee.Req.blk]

IInv == Inv(flash, fee, job) /\ DoubtInv /\ writes \in Nat /\ fails = 0

\* The invariant, for as long as no job of the flash driver has failed.
FInv == fails \in Nat /\ (fails = 0 => IInv)

-----------------------------------------------------------------------------
(* Why neither a start-up nor a collection gives up: a prepared flash has a  *)
(* sector that governs, and the collection has filled its sector without a  *)
(* gap.                                                                     *)

Started == {"DIRTY", "NORMAL", "COMPLETE"}

CopiesUpTo(cells, d) == \A a \in Slots : a >= PerWL /\ a < d => cells[a].kind = "copy"

FillInv(fl, f) ==
  /\ f.GcState \in {"START_COPY", "COPY_WRITE"} => CopiesUpTo(fl[Oth(f)], f.GcDest)
  /\ f.GcState \in {"V_SP", "V_M"} => CopiesUpTo(fl[Oth(f)], f.GcDest - PerWL + 1)

GoesOnInv ==
  fails = 0 => FillInv(flash, fee) /\ (prepared => fee.InitGCState \in Started)
=============================================================================
