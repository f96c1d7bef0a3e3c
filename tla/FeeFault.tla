------------------------------- MODULE FeeFault -------------------------------
(***************************************************************************)
(* The inductive invariant of the flash EEPROM emulation that also         *)
(* survives failing jobs.  A job that fails may have done nothing, half or *)
(* all of its work, so a sector is no longer of the shape FeeInv relies on *)
(* and a start-up may not find what was acknowledged; what is left is      *)
(* where the sectors are still blank.  The driver never goes back there:   *)
(* after a failure it skips to the next wordline but one.                  *)
(***************************************************************************)
EXTENDS FeeInv

-----------------------------------------------------------------------------
(* The flash. *)

UsedFromBeginning(cells) == \A a \in Slots : cells[a] # Blank => cells[WLBeginning(a)] # Blank

InOrder(fl) ==
  /\ fl \in [Sectors -> [Slots -> Cells]]
  /\ \A s \in Sectors : UsedFromBeginning(fl[s])

\* A sector that is blank from slot d on: there the next copy goes, or at the
\* beginning of a wordline w a state page.
Open(cells, d) ==
  /\ BlankFrom(cells, d)
  /\ d \in Slots => IsWLBeginning(d) \/ cells[WLBeginning(d)] # Blank

OpenWL(cells, w) == IsWLBeginning(w) /\ BlankFrom(cells, w)

\* The current sector before its first free page is looked for.
Unread(cells, w) ==
  w >= PerWL /\ w - PerWL \in Slots /\ OpenWL(cells, w) /\ cells[w - PerWL] # Blank

IsPage(c, m) == c \in Pages /\ c.mark = m

\* What a job of the flash driver that programs slot a finds, and what it
\* leaves: the cell it programs, unless it fails.
Programming(fl, j, owner, s, a, c) ==
  Programs(j, owner, s, a, c) /\ a \in Slots /\ Open(fl[s], a)

Ended(fl, result, s, a, c) ==
  /\ result \in {"PASS", "FAIL"} /\ a \in Slots
  /\ BlankFrom(fl[s], a + 1)
  /\ result = "PASS" => fl[s][a] = c

\* The steps of a state page: it is programmed, then its marker is.
PageRuns(fl, j, s, a) ==
  /\ IsJob(j, "program", "intr", s) /\ j.addr = a /\ IsPage(j.cell, "none")
  /\ a \in Slots /\ OpenWL(fl[s], a)

PageEnded(fl, result, s, a) ==
  /\ result \in {"PASS", "FAIL"} /\ a \in Slots /\ IsWLBeginning(a)
  /\ BlankFrom(fl[s], a + 1)
  /\ result = "PASS" => IsPage(fl[s][a], "none")

MarkerRuns(fl, j, s, a) ==
  /\ Marks(fl, j, s, a) /\ a \in Slots /\ IsWLBeginning(a)
  /\ BlankFrom(fl[s], a + 1) /\ IsPage(fl[s][a], "none")

MarkerEnded(fl, result, s, a) ==
  /\ result \in {"PASS", "FAIL"} /\ a \in Slots /\ IsWLBeginning(a)
  /\ BlankFrom(fl[s], a + 1) /\ fl[s][a].kind = "state"

-----------------------------------------------------------------------------
(* The driver's state. *)

FieldTypes ==
  [MainJob |-> {"INITGC", "CACHEUPDATE", "READ", "WRITE", "GC", "NONE"},
   InitGCState |->
     {"EMPTY", "INVALID", "DIRTY", "NORMAL", "PREPARE", "COMPLETE", "FAIL"},
   GcResumeState |-> {"ERASE", "DATA_COPY", "NORMAL"},
   RepairStep |-> {"MARKER", "PAGE"}, PrepStep |-> Nat, PrepDest |-> Nat,
   CurrSector |-> Sectors, StateCount |-> Nat,
   StatePageAddr |-> [Sectors -> Nat], NextFreeWL |-> [Sectors -> Nat],
   Dirty |-> [Sectors -> BOOLEAN], CacheUpdated |-> BOOLEAN,
   Cache |-> [Blocks -> Addresses \cup {NoAddr}], Copied |-> [Blocks -> BOOLEAN],
   NextFreePage |-> Nat,
   GcState |-> {"IDLE", "REQUESTED", "START_COPY", "COPY_WRITE", "V_SP", "V_M",
                "ERASE", "E_SP", "E_M", "FAIL"},
   GcInit |-> BOOLEAN, GcDest |-> Nat, GcCopyIndex |-> Nat, GcFirstBlkInWL |-> Nat,
   GcSrcAddr |-> Seq(Addresses), BlkModified |-> BOOLEAN,
   IntrJob |-> {"IDLE", "PASS", "FAIL"}, IntrJobFailCount |-> {0, 1},
   Req |-> Requests \cup {NoReq},
   UserJob |-> {"IDLE", "PASS", "FAIL"}, UserJobFailCount |-> {0, 1}]

FaultTypes(f) ==
  DOMAIN f = Fields /\ \A x \in DOMAIN FieldTypes : f[x] \in FieldTypes[x]

\* The user's copy, or the copies its wordline shares, are being programmed.
UserWrites(f) == Stage(f, "compare") \/ Stage(f, "recopy")

RetryBase(a) == NextWL(a) + PerWL

UserFault(fl, f, j) ==
  LET s == Cur(f)
      d == f.NextFreePage
  IN /\ Stage(f, "compare") =>
          /\ f.MainJob = "WRITE" /\ f.CacheUpdated /\ d \in Slots
          /\ IsWLBeginning(d) \/ RetryBase(d) \in Slots
          /\ LET c == BlockCopy(f.Req.blk, f.Req.val)
             IN \/ Programming(fl, j, "user", s, d, c) /\ f.UserJob = "IDLE"
                \/ j = NoJob /\ Ended(fl, f.UserJob, s, d, c)
     /\ Stage(f, "recopy") =>
          /\ f.MainJob = "WRITE" /\ f.CacheUpdated /\ f.Affected \in Slots
          /\ RetryBase(f.Affected) \in Slots
          /\ d >= RetryBase(f.Affected)
          /\ d - RetryBase(f.Affected) <= f.Affected - WLBeginning(f.Affected)
          /\ fl[s][f.Affected].kind = "copy"
          /\ f.Cache[fl[s][f.Affected].blk] = At(s, f.Affected)
          /\ LET c == fl[s][f.Affected]
             IN \/ Programming(fl, j, "user", s, d, c) /\ f.UserJob = "IDLE"
                \/ j = NoJob /\ Ended(fl, f.UserJob, s, d, c)
     /\ Stage(f, "reading") =>
          /\ f.MainJob = "READ" /\ f.CacheUpdated
          /\ \E at \in Addresses : Reads(fl, j, at)
     /\ Stage(f, "fail") => f.MainJob = "WRITE"
     /\ Stage(f, "stuck") => f.GcState = "FAIL"
     /\ ~UserWrites(f) => f.UserJob = "IDLE"
     /\ ~UserWrites(f) /\ ~Stage(f, "reading") => j = NoJob \/ IntrRuns(j)
     /\ f.CacheUpdated /\ ~UserWrites(f) /\ ~Stage(f, "fail") => Open(fl[s], d)

\* The first preparation: where the next state page goes.  Each of the three
\* pages may be tried again once, two wordlines further on.
PrepEnd(k) == IF k \in {3, 4} THEN 5 * PerWL ELSE 2 * PerWL

PrepFault(fl, f, j) ==
  LET k == f.PrepStep
      s == PrepSector[k]
      d == f.PrepDest
  IN f.InitGCState \in {"EMPTY", "PREPARE"} =>
       /\ Cur(f) = 0 /\ k \in 1 .. 6 /\ f.GcDest = 0
       /\ IsWLBeginning(d)
       /\ d + (IF f.IntrJobFailCount = 0 THEN 2 * PerWL ELSE 0) <= PrepEnd(k)
       /\ k <= 4 => BlankFrom(fl[1], 0)
       /\ k >= 5 => Unread(fl[0], f.NextFreeWL[0])
       /\ f.InitGCState = "EMPTY" => k = 1 /\ Quiet(f, j) /\ f.IntrJobFailCount = 0
       /\ IF k % 2 = 1
          THEN \/ Quiet(f, j) /\ OpenWL(fl[s], d)
               \/ f.IntrJob = "IDLE" /\ PageRuns(fl, j, s, d)
               \/ ~IntrRuns(j) /\ PageEnded(fl, f.IntrJob, s, d)
          ELSE \/ Quiet(f, j) /\ BlankFrom(fl[s], d + 1) /\ IsPage(fl[s][d], "none")
               \/ f.IntrJob = "IDLE" /\ MarkerRuns(fl, j, s, d)
               \/ ~IntrRuns(j) /\ MarkerEnded(fl, f.IntrJob, s, d)

\* The repair of half programmed markers.
RepairFault(fl, f, j) ==
  LET s == DirtySector(f)
      a == f.StatePageAddr[s]
  IN f.InitGCState = "DIRTY" =>
       /\ \E t \in Sectors : f.Dirty[t]
       /\ \A t \in Sectors : f.Dirty[t] => f.StatePageAddr[t] \in Slots
       /\ \A t \in Sectors : f.Dirty[t] /\ (t # s \/ f.RepairStep = "MARKER") =>
            fl[t][f.StatePageAddr[t]].kind = "state"
       /\ f.RepairStep = "MARKER" /\ IntrRuns(j) => Marks(fl, j, s, a)
       /\ f.RepairStep = "PAGE" =>
            \/ Quiet(f, j) /\ f.NextFreeWL[s] \in Slots /\ fl[s][a].kind = "state"
            \/ /\ f.NextFreeWL[s] = a + PerWL
               /\ \/ f.IntrJob = "IDLE" /\ PageRuns(fl, j, s, a)
                  \/ ~IntrRuns(j) /\ PageEnded(fl, f.IntrJob, s, a)
       /\ f.IntrJob # "IDLE" => ~IntrRuns(j)

StartFault(fl, f, j) ==
  /\ f.InitGCState \in {"INVALID", "NORMAL", "FAIL"} => Quiet(f, j)
  /\ f.InitGCState \in {"PREPARE", "DIRTY", "NORMAL", "COMPLETE"} => f.StateCount > 0
  /\ f.InitGCState \in {"DIRTY", "NORMAL"} =>
       /\ \A s \in Sectors : OpenWL(fl[s], f.NextFreeWL[s])
       /\ f.GcDest = 0
  /\ f.InitGCState \in {"DIRTY", "NORMAL", "COMPLETE"} /\ ~f.CacheUpdated =>
       \/ Unread(fl[Cur(f)], f.NextFreeWL[Cur(f)])
       \/ f.InitGCState = "DIRTY" /\ f.RepairStep = "PAGE" /\ DirtySector(f) = Cur(f)

GcFault(fl, f, j) ==
  LET s == Oth(f)
      d == f.GcDest
  IN f.InitGCState = "COMPLETE" =>
       /\ f.GcState \notin Busy => Quiet(f, j)
       /\ f.GcState \in {"IDLE", "REQUESTED"} => OpenWL(fl[s], f.NextFreeWL[s])
       /\ f.GcState = "START_COPY" => Open(fl[s], d)
       /\ f.GcState = "COPY_WRITE" =>
            LET b == f.GcCopyIndex
                c == fl[Cur(f)][f.Cache[b].slot]
            IN /\ b \in Blocks /\ f.GcBlock = b
               /\ f.Cache[b] # NoAddr /\ f.Cache[b].sector = Cur(f) /\ ~f.Copied[b]
               /\ IsWLBeginning(d) => f.GcSrcAddr = <<>>
               /\ \/ f.IntrJob = "IDLE" /\ Programming(fl, j, "intr", s, d, c)
                  \/ ~IntrRuns(j) /\ Ended(fl, f.IntrJob, s, d, c)
       /\ f.GcState \in {"V_SP", "E_SP"} =>
            \/ Quiet(f, j) /\ OpenWL(fl[s], d)
            \/ f.IntrJob = "IDLE" /\ PageRuns(fl, j, s, d)
            \/ ~IntrRuns(j) /\ PageEnded(fl, f.IntrJob, s, d)
       /\ f.GcState \in {"V_M", "E_M"} =>
            \/ f.IntrJob = "IDLE" /\ MarkerRuns(fl, j, s, d)
            \/ ~IntrRuns(j) /\ MarkerEnded(fl, f.IntrJob, s, d)
       /\ f.GcState = "ERASE" =>
            /\ d = 0
            /\ IntrRuns(j) => Erases(j, s) /\ f.IntrJob = "IDLE"
            /\ f.IntrJob = "PASS" => BlankFrom(fl[s], 0)

\* The cache leads to copies: of the current sector, or of the other one while
\* a collection fills it.  What a wordline's copies were made from is known.
CacheFault(fl, f) ==
  f.CacheUpdated =>
    /\ \A b \in Blocks : f.Cache[b] # NoAddr =>
         LET at == f.Cache[b]
         IN /\ fl[at.sector][at.slot].kind = "copy" /\ fl[at.sector][at.slot].blk = b
            /\ at.sector = Cur(f) => at.slot < f.NextFreePage
            /\ at.sector = Oth(f) => f.GcState \in Copying \cup {"FAIL"}
            /\ at.sector = Oth(f) /\ f.GcState \in Copying => f.Copied[b] /\ at.slot < f.GcDest
            /\ f.GcState \in Copying /\ f.Copied[b] => at.sector = Oth(f)
            /\ f.GcState \in {"V_SP", "V_M"} => at.sector = Oth(f)
            /\ f.GcState \in {"START_COPY", "COPY_WRITE"} /\ ~f.BlkModified
                 /\ b < f.GcCopyIndex => at.sector = Oth(f)
    /\ f.GcState \in {"START_COPY", "COPY_WRITE"} =>
         \A i \in DOMAIN f.GcSrcAddr :
           LET at == f.GcSrcAddr[i]
           IN at.sector = Cur(f) /\ fl[Cur(f)][at.slot].kind = "copy" /\ at.slot < f.NextFreePage

FaultInv(fl, f, j) ==
  /\ InOrder(fl) /\ FaultTypes(f) /\ MainInv(f, j)
  /\ UserFault(fl, f, j) /\ PrepFault(fl, f, j) /\ RepairFault(fl, f, j)
  /\ StartFault(fl, f, j) /\ GcFault(fl, f, j) /\ CacheFault(fl, f)

\* Fee_lHandleConfigGcCopyError takes the copies of a wordline for those of a
\* row of blocks, and goes on copying with the first of them.  That is right
\* unless one of the blocks was never written, or one was written again between
\* two copies: then a copy may be of another block, or the copy that failed of a
\* block before the row, which is not reached again.
UndoExactOf(fl, f) ==
  f.GcState = "COPY_WRITE" /\ f.IntrJob = "FAIL" /\ f.IntrJobFailCount = 0 =>
    \A i \in DOMAIN f.GcSrcAddr :
      LET at == f.GcSrcAddr[i]
      IN /\ fl[at.sector][at.slot].blk = f.GcFirstBlkInWL + i - 1
         /\ f.GcFirstBlkInWL <= f.GcCopyIndex

UndoExact == UndoExactOf(flash, fee)
=============================================================================
