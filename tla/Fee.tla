--------------------------------- MODULE Fee ---------------------------------
(***************************************************************************)
(* The flash EEPROM emulation Fee: it keeps the blocks of its user in two  *)
(* sectors of the data flash.  A write appends a copy of the block to the  *)
(* current sector; when that sector runs full a garbage collection copies  *)
(* the latest copy of every block to the other one, marks it VALID, erases *)
(* the first and marks it ERASED.  Fee_MainFunction advances all of this   *)
(* one step per call; each step hands one job to the flash driver, whose   *)
(* end notification makes the next step possible.                          *)
(*                                                                         *)
(* A sector is a row of wordlines (WL) of PerWL slots, a slot holds one    *)
(* copy of a block, and a state page takes a wordline for itself.  A reset *)
(* can come between any two steps and leaves the running flash job done,   *)
(* undone or half done; programming and erasing can also fail by           *)
(* themselves.  Left out: quasi-static blocks, copies that cross           *)
(* wordlines, unerasable wordlines, erase cycle counts, reads that fail.   *)
(***************************************************************************)
EXTENDS Integers, FiniteSets, Sequences, FiniteSetsExt

CONSTANTS
  NBlocks,     \* FeeBlkCnt
  Immediate,   \* the blocks configured FEE_IMMEDIATE_DATA
  WLs,         \* wordlines of a sector
  PerWL,       \* copies that fit in a wordline
  Threshold,   \* FeeThresholdLimit, in slots
  NoValue, NoReq, NoJob, NoAddr,
  Filled,      \* copies the first sector may hold at first; 0: a blank flash
  ReadBlocks,  \* bound: the blocks the user reads,
  ReadFaults,  \* bound: until there were more resets and failed jobs
  InvalidateBlocks,   \* bound: the blocks the user invalidates
  MaxWrites, MaxResets, MaxFails   \* bounds of the instance

Blocks == 0 .. NBlocks - 1
Values == 0 .. MaxWrites   \* a value is the number of its write, or 0: older
Sectors == 0 .. 1
Slots == 0 .. WLs * PerWL - 1

ASSUME FeeConstants ==
  /\ {NBlocks, WLs, PerWL, Threshold} \subseteq Nat \ {0}
  /\ Immediate \subseteq Blocks /\ ReadBlocks \cup InvalidateBlocks \subseteq Blocks
  /\ {ReadFaults, MaxWrites, MaxResets, MaxFails} \subseteq Nat
  /\ Filled \subseteq 0 .. (WLs - 2) * PerWL

VARIABLES
  flash,     \* the contents of the two sectors
  job,       \* what the flash driver is doing for Fee
  fee,       \* Fee_StateDataType, lost in a reset
  writes, resets, fails,    \* how many there were
  prepared,  \* an initialisation has completed
  failedWL,  \* wordlines that failed since the reset or their erasure
  recovered, \* what a reset and a start-up would find, for each block
  doubt      \* values that may surface without a further write, per block

vars ==
  <<flash, job, fee, writes, resets, fails, prepared, failedWL, recovered, doubt>>

-----------------------------------------------------------------------------
(* Flash cells and addresses. *)

Blank == [kind |-> "blank"]
Torn == [kind |-> "torn"]
BlockCopy(b, v) == [kind |-> "copy", blk |-> b, val |-> v]

\* mark: the state page marker, programmed after the page: it is missing
\* ("none"), half programmed ("torn") or good ("ok").
StatePage(st, n, m) == [kind |-> "state", st |-> st, cnt |-> n, mark |-> m]

Copies == [kind : {"copy"}, blk : Blocks, val : Values \cup {NoValue}]

Pages ==
  [kind : {"state"}, st : {"VALID", "ERASED"}, cnt : Nat \ {0},
   mark : {"none", "torn", "ok"}]

Cells == {Blank, Torn} \cup Copies \cup Pages

Addresses == [sector : Sectors, slot : Slots]

\* A user request and how far it is, and a job of the flash driver.
Requests ==
  [blk : Blocks, val : Values \cup {NoValue}, invalidate : BOOLEAN,
   stage : {"request", "toRead", "reading", "compare", "recopy", "fail", "stuck"}]

Jobs ==
  [op : {"program", "marker", "read"}, sector : Sectors, addr : Slots, cell : Cells,
   owner : {"user", "intr"}]
  \cup [op : {"erase"}, sector : Sectors, owner : {"intr"}]

\* What the user sees of a request: see UserRequest.
UserRequests ==
  [kind : {"write", "read", "answer"}, blk : Blocks, val : Values \cup {NoValue}]

ASSUME FeeNulls ==
  /\ NoAddr \notin Addresses
  /\ NoReq \notin Requests \cup UserRequests
  /\ NoJob \notin Jobs

AllBlank == [a \in Slots |-> Blank]
At(s, a) == [sector |-> s, slot |-> a]
Other(s) == 1 - s
WLBeginning(a) == (a \div PerWL) * PerWL
IsWLBeginning(a) == a % PerWL = 0
NextWL(a) == WLBeginning(a) + PerWL

\* Fee_lGetFreeDFLASHPages.
Free(a) == Max({0, WLs * PerWL - a})

ThresholdCrossed(free, n) == free - n < Threshold

-----------------------------------------------------------------------------
(* What a start-up finds in the flash. *)

UsedWLs(cells) == {a \in Slots : IsWLBeginning(a) /\ cells[a] # Blank}

StatePages(cells) ==
  {a \in Slots : cells[a].kind = "state" /\ cells[a].mark # "none"}

\* Fee_lGetSectorInfo reads the wordlines from the last to the first and
\* keeps the state page with the highest count.
LatestPage(cells) ==
  CHOOSE a \in StatePages(cells) :
    \A p \in StatePages(cells) :
      \/ cells[p].cnt < cells[a].cnt
      \/ cells[p].cnt = cells[a].cnt /\ p <= a

SectorState(cells) ==
  IF StatePages(cells) = {} THEN "STATELESS" ELSE cells[LatestPage(cells)].st

StateCount(cells) ==
  IF StatePages(cells) = {} THEN 0 ELSE cells[LatestPage(cells)].cnt

IsUsed(cells) ==
  /\ UsedWLs(cells) # {}
  /\ ~(SectorState(cells) = "ERASED" /\ Cardinality(UsedWLs(cells)) = 1)

\* Mutant: two valid sectors, a reset before the erasure of the old one, are
\* not told from an inconsistent flash.
DFlashStatus_OneValidOnly(fl) ==
  LET st == [s \in Sectors |-> SectorState(fl[s])]
      Empty(s) == st[s] = "STATELESS" /\ ~IsUsed(fl[s])
  IN CASE st[0] = "VALID" /\ st[1] # "VALID" -> "S0_VALID"
       [] st[0] # "VALID" /\ st[1] = "VALID" -> "S1_VALID"
       [] Empty(0) /\ Empty(1) -> "EMPTY"
       [] OTHER -> "INVALID"

\* Fee_lBuildDFlashStatus.
DFlashStatus(fl) ==
  LET st == [s \in Sectors |-> SectorState(fl[s])]
      Empty(s) == st[s] = "STATELESS" /\ ~IsUsed(fl[s])
  IN CASE st[0] = "VALID" /\ st[1] = "ERASED" -> "S0_VALID"
       [] st[0] = "ERASED" /\ st[1] = "VALID" -> "S1_VALID"
       [] \/ st[0] = "VALID" /\ st[1] \in {"VALID", "STATELESS"}
          \/ st[0] = "STATELESS" /\ st[1] = "VALID" -> "S0_S1_VALID"
       [] Empty(0) /\ Empty(1) -> "EMPTY"
       [] OTHER -> "INVALID"

\* The sector Fee_lSetInitGc makes the current one.
ValidSector(fl) ==
  CASE DFlashStatus(fl) = "S1_VALID" -> 1
    [] DFlashStatus(fl) = "S0_S1_VALID" ->
         IF StateCount(fl[0]) > StateCount(fl[1]) THEN 0 ELSE 1
    [] OTHER -> 0

CopiesOf(cells, b) ==
  {a \in Slots : cells[a].kind = "copy" /\ cells[a].blk = b}

\* Mutant: the scan goes on past the latest copy, to the first one.
CacheOf_FirstCopy(fl, s) ==
  [b \in Blocks |-> IF CopiesOf(fl[s], b) = {} THEN NoAddr
                    ELSE At(s, Min(CopiesOf(fl[s], b)))]

\* The cache as Fee_lUpdateCacheTable builds it, from the end of the sector.
CacheOf(fl, s) ==
  [b \in Blocks |-> IF CopiesOf(fl[s], b) = {} THEN NoAddr
                    ELSE At(s, Max(CopiesOf(fl[s], b)))]

\* The values a reset and a start-up would find.
Recovered(fl) ==
  LET s == ValidSector(fl)
      readable == DFlashStatus(fl) \notin {"EMPTY", "INVALID"}
  IN [b \in Blocks |->
        IF readable /\ CopiesOf(fl[s], b) # {}
        THEN fl[s][Max(CopiesOf(fl[s], b))].val ELSE NoValue]

\* Fee_Init and Fee_lSetInitGc.
Boot(fl) ==
  LET status == DFlashStatus(fl)
      cur == ValidSector(fl)
      bothValid == status = "S0_S1_VALID"
      resume == CASE bothValid -> "ERASE"
                  [] ~bothValid /\ IsUsed(fl[Other(cur)]) -> "DATA_COPY"
                  [] OTHER -> "NORMAL"
      torn(s) == /\ StatePages(fl[s]) # {}
                 /\ fl[s][LatestPage(fl[s])].mark = "torn"
      dirty == [s \in Sectors |->
                  /\ torn(s)
                  /\ status \notin {"EMPTY", "INVALID"}
                  /\ s = cur \/ resume = "NORMAL"]
  IN [MainJob |-> "INITGC",
      InitGCState |-> CASE status \in {"EMPTY", "INVALID"} -> status
                        [] TRUE \in {dirty[s] : s \in Sectors} -> "DIRTY"
                        [] OTHER -> "NORMAL",
      GcResumeState |-> resume,
      RepairStep |-> "MARKER",
      PrepStep |-> 1, PrepDest |-> 0,
      CurrSector |-> cur,
      StateCount |-> Max({StateCount(fl[s]) : s \in Sectors}),
      StatePageAddr |-> [s \in Sectors |-> IF StatePages(fl[s]) = {} THEN 0
                                           ELSE LatestPage(fl[s])],
      NextFreeWL |-> [s \in Sectors |-> IF UsedWLs(fl[s]) = {} THEN 0
                                        ELSE NextWL(Max(UsedWLs(fl[s])))],
      Dirty |-> dirty,
      CacheUpdated |-> FALSE,
      Cache |-> [b \in Blocks |-> NoAddr],
      Copied |-> [b \in Blocks |-> FALSE],
      NextFreePage |-> 0,
      GcState |-> "IDLE", GcInit |-> FALSE, GcDest |-> 0,
      GcCopyIndex |-> 0, GcBlock |-> NBlocks, GcPrevBlock |-> NBlocks,
      GcFirstBlkInWL |-> 0, GcSrcAddr |-> <<>>, BlkModified |-> FALSE,
      IntrJob |-> "IDLE", IntrJobFailCount |-> 0,
      Req |-> NoReq, UserJob |-> "IDLE", UserJobFailCount |-> 0,
      Affected |-> 0]

-----------------------------------------------------------------------------
(* Jobs for the flash driver. *)

ProgramCell(s, a, c, owner) ==
  [op |-> "program", sector |-> s, addr |-> a, cell |-> c, owner |-> owner]

ProgramMarker(s, a) ==
  [op |-> "marker", sector |-> s, addr |-> a,
   cell |-> [flash[s][a] EXCEPT !.mark = "ok"], owner |-> "intr"]

\* A read changes no cell: its result is the cell as it stands.
ReadCell(at) == [op |-> "read", sector |-> at.sector, addr |-> at.slot,
                 cell |-> flash[at.sector][at.slot], owner |-> "user"]

EraseSector(s) == [op |-> "erase", sector |-> s, owner |-> "intr"]

\* A new state page has the next count; a repeated one keeps its own.
NextCount(f) == f.StateCount + (IF f.IntrJobFailCount = 0 THEN 1 ELSE 0)

Start(f, j) == fee' = f /\ job' = j

Continue(f) == fee' = f /\ UNCHANGED job

-----------------------------------------------------------------------------
(* Initialisation: Fee_lInitGC repairs a half programmed marker, prepares   *)
(* an empty flash, and sets the state the garbage collection resumes in.    *)

\* Fee_lPrepareDFlash: the state pages of an empty flash, each a page and its
\* marker: S0 ERASED, S0 VALID, S1 ERASED.
PrepSector == <<0, 0, 0, 0, 1, 1>>
PrepState == <<"ERASED", "ERASED", "VALID", "VALID", "ERASED", "ERASED">>

InitGCFail(f) == [f EXCEPT !.InitGCState = "FAIL"]

PrepResult(f, passed) ==
  LET d == f.PrepDest
      k == f.PrepStep
      isPage == k % 2 = 1
  IN CASE passed /\ isPage -> [f EXCEPT !.PrepStep = k + 1]
       [] passed /\ ~isPage ->
            [f EXCEPT !.PrepStep = k + 1, !.IntrJobFailCount = 0,
                      !.PrepDest = IF k = 2 THEN NextWL(d) ELSE 0,
                      !.StatePageAddr = IF k = 2 THEN @
                                        ELSE [@ EXCEPT ![PrepSector[k]] = d],
                      !.NextFreeWL = IF k = 2 THEN @
                                     ELSE [@ EXCEPT ![PrepSector[k]] = NextWL(d)],
                      !.InitGCState = IF k = 6 THEN "COMPLETE" ELSE @]
       [] ~passed /\ f.IntrJobFailCount = 0 ->
            [f EXCEPT !.IntrJobFailCount = 1, !.PrepDest = NextWL(NextWL(d)),
                      !.PrepStep = IF isPage THEN k ELSE k - 1]
       [] OTHER -> InitGCFail(f)

\* The sector Fee_lIDSM repairs.
DirtySector(f) ==
  IF f.Dirty[f.CurrSector] THEN f.CurrSector ELSE Other(f.CurrSector)

RepairResult(f, passed) ==
  LET s == DirtySector(f)
      clean == [f EXCEPT !.Dirty[s] = FALSE,
                         !.InitGCState = IF f.Dirty[Other(s)] THEN @ ELSE "NORMAL"]
  IN CASE f.RepairStep = "MARKER" /\ passed -> [clean EXCEPT !.IntrJobFailCount = 0]
       [] f.RepairStep = "PAGE" /\ passed -> [f EXCEPT !.RepairStep = "MARKER"]
       [] f.RepairStep = "MARKER" /\ ~passed /\ f.IntrJobFailCount = 0 ->
            IF f.NextFreeWL[s] > (WLs - 1) * PerWL THEN clean
            ELSE [f EXCEPT !.IntrJobFailCount = 1, !.RepairStep = "PAGE"]
       [] OTHER -> InitGCFail(f)

\* Fee_lInitGCTransHandler: what the job that ended leads to.
InitGCResult(f) ==
  LET g == [f EXCEPT !.IntrJob = "IDLE"]
      passed == f.IntrJob = "PASS"
  IN IF f.IntrJob = "IDLE" THEN f
     ELSE CASE f.InitGCState = "DIRTY" -> RepairResult(g, passed)
            [] f.InitGCState = "PREPARE" -> PrepResult(g, passed)
            [] OTHER -> g

\* The next job of Fee_lIPrepDFlashSM and of Fee_lIDSM.
PrepJob(f) ==
  LET s == PrepSector[f.PrepStep]
  IN IF f.PrepStep % 2 = 1
     THEN Start([f EXCEPT !.StateCount = NextCount(f)],
                ProgramCell(s, f.PrepDest,
                  StatePage(PrepState[f.PrepStep], NextCount(f), "none"), "intr"))
     ELSE Start(f, ProgramMarker(s, f.PrepDest))

RepairJob(f) ==
  LET s == DirtySector(f)
      old == f.StatePageAddr[s]
      new == f.NextFreeWL[s]
  IN IF f.RepairStep = "MARKER"
     THEN Start(f, ProgramMarker(s, old))
     ELSE Start([f EXCEPT !.StatePageAddr[s] = new, !.NextFreeWL[s] = NextWL(new)],
                ProgramCell(s, new, [flash[s][old] EXCEPT !.mark = "none"], "intr"))

\* Fee_lINSM.
Resume(f) ==
  [f EXCEPT !.InitGCState = "COMPLETE",
            !.GcState = IF f.GcResumeState = "NORMAL" THEN "IDLE" ELSE "ERASE",
            !.GcInit = f.GcResumeState = "DATA_COPY"]

InitGC(f) ==
  /\ f.MainJob = "INITGC"
  /\ \E g \in {InitGCResult(f)} :
       \/ g.InitGCState = "INVALID" /\ Continue(InitGCFail(g))
       \/ g.InitGCState = "EMPTY" /\ PrepJob([g EXCEPT !.InitGCState = "PREPARE"])
       \/ g.InitGCState = "PREPARE" /\ PrepJob(g)
       \/ g.InitGCState = "DIRTY" /\ RepairJob(g)
       \/ g.InitGCState = "NORMAL" /\ Continue(Resume(g))
       \/ g.InitGCState \in {"COMPLETE", "FAIL"} /\ Continue(g)
  /\ prepared' = (prepared \/ fee'.InitGCState = "COMPLETE")
  /\ UNCHANGED doubt

\* Fee_lUpdateCache.  The first free page follows the last one that is used,
\* or is that of the next wordline where the last one cannot be read.
UpdateCache(f) ==
  LET s == f.CurrSector
      free == f.NextFreeWL[s]
      lastWL == free - PerWL
      last == Max({a \in lastWL .. free - 1 : flash[s][a] # Blank})
  IN /\ f.MainJob = "CACHEUPDATE"
     /\ \E a \in {free} \cup {last + 1} :
          /\ \/ a = free /\ (lastWL = f.StatePageAddr[s] \/ flash[s][last] = Torn)
             \/ a = last + 1 /\ lastWL # f.StatePageAddr[s]
          /\ Continue([f EXCEPT !.CacheUpdated = TRUE, !.NextFreePage = a,
                                !.Cache = CacheOf(flash, s)])
     /\ UNCHANGED <<prepared, doubt>>

-----------------------------------------------------------------------------
(* User requests. *)

Requested(f) == f.Req # NoReq /\ f.Req.stage = "request"

IsImmediate(r) == r.blk \in Immediate /\ ~r.invalidate

\* Fee_lPerformCurrBlkCheck: where the copy goes and whether it may.
CheckedPage(f) ==
  LET d == f.NextFreePage
  IN IF /\ ~IsWLBeginning(d)
        /\ ThresholdCrossed(Free(NextWL(d) + PerWL), (d % PerWL) + 1)
     THEN NextWL(d) ELSE d

CurrBlkCheck(f) ==
  [f EXCEPT !.NextFreePage = CheckedPage(f),
            !.GcState = IF @ = "IDLE" /\ ThresholdCrossed(Free(CheckedPage(f)), 1)
                        THEN "REQUESTED" ELSE @]

BlkWritable(f) ==
  \/ ~ThresholdCrossed(Free(CheckedPage(f)), 1)
  \/ IsImmediate(f.Req) /\ Free(CheckedPage(f)) >= 1

\* Fee_lIsWriteInvldAllowedbyGC.  While the old sector is erased the check
\* moves the next page even where the write has to wait.
AskGC(f) ==
  CASE IsImmediate(f.Req) /\ f.GcState = "START_COPY" ->
         IF job = NoJob THEN [f EXCEPT !.MainJob = "WRITE"] ELSE f
    [] f.GcState = "ERASE" /\ ~f.GcInit ->
         IF job = NoJob /\ BlkWritable(f)
         THEN [CurrBlkCheck(f) EXCEPT !.MainJob = "WRITE"] ELSE CurrBlkCheck(f)
    [] OTHER -> f

ReadRequested(f) == f.Req # NoReq /\ f.Req.stage = "toRead"

\* Fee_lIsReadAllowedbyGC.
ReadAllowed(f) ==
  \/ f.GcState = "REQUESTED"
  \/ f.GcState = "START_COPY" /\ job = NoJob /\ f.IntrJob = "IDLE"
  \/ f.GcState = "ERASE" /\ job = NoJob

AfterJob(f) == IF f.GcState # "IDLE" THEN "GC" ELSE "NONE"

\* Fee_lDecideMainJob and its transition handlers.
DecideMainJob(f) ==
  CASE f.MainJob = "INITGC" /\ f.InitGCState = "COMPLETE" ->
         [f EXCEPT !.MainJob = "CACHEUPDATE"]
    [] f.MainJob = "CACHEUPDATE" /\ f.CacheUpdated ->
         [f EXCEPT !.MainJob = CASE ReadRequested(f) -> "READ"
                                 [] Requested(f) -> "WRITE"
                                 [] OTHER -> AfterJob(f)]
    [] f.MainJob \in {"NONE", "WRITE"} /\ ReadRequested(f) ->
         [f EXCEPT !.MainJob = "READ"]
    [] f.MainJob \in {"NONE", "READ"} /\ Requested(f) ->
         [f EXCEPT !.MainJob = "WRITE"]
    [] f.MainJob \in {"READ", "WRITE"} /\ f.Req = NoReq ->
         [f EXCEPT !.MainJob = AfterJob(f)]
    [] f.MainJob = "WRITE" /\ Requested(f) /\ f.GcState # "IDLE" ->
         [f EXCEPT !.MainJob = "GC"]
    [] f.MainJob = "GC" /\ f.GcState = "IDLE" -> [f EXCEPT !.MainJob = "NONE"]
    [] f.MainJob = "GC" /\ f.GcState # "IDLE" /\ ReadRequested(f) ->
         IF ReadAllowed(f) THEN [f EXCEPT !.MainJob = "READ"] ELSE f
    [] f.MainJob = "GC" /\ f.GcState # "IDLE" /\ Requested(f) -> AskGC(f)
    [] OTHER -> f

-----------------------------------------------------------------------------
(* Fee_lLocalWrite: a write or an invalidation.  The copy is programmed and *)
(* compared; after a failure the latest copies that share its wordline are  *)
(* written again and the user's copy is retried once.                       *)

WriteCopy(f) ==
  IF BlkWritable(f)
  THEN LET g == [CurrBlkCheck(f) EXCEPT !.Req.stage = "compare"]
       IN Start(g, ProgramCell(f.CurrSector, g.NextFreePage,
                               BlockCopy(f.Req.blk, f.Req.val), "user"))
  ELSE Continue(CurrBlkCheck(f))

\* The latest copies in the wordline of slot a, from slot "from" on.
LatestIn(f, a, from) ==
  {p \in from .. NextWL(a) - 1 :
     \E b \in Blocks : f.Cache[b] = At(f.CurrSector, p)}

Recopy(f, p) ==
  Start([f EXCEPT !.Affected = p, !.Req.stage = "recopy"],
        ProgramCell(f.CurrSector, f.NextFreePage, flash[f.CurrSector][p], "user"))

\* Mutant: only the user's copy is written again.
RecopyFrom_UserOnly(f, a, from) == Continue([f EXCEPT !.Req.stage = "request"])

\* The next copy to be written again, or the user's copy anew.
RecopyFrom(f, a, from) ==
  IF LatestIn(f, a, from) # {} THEN Recopy(f, Min(LatestIn(f, a, from)))
  ELSE Continue([f EXCEPT !.Req.stage = "request"])

Cached(f, b) ==
  [f EXCEPT !.Cache[b] = At(f.CurrSector, f.NextFreePage), !.NextFreePage = @ + 1]

\* Mutant: the collection is not told of the new copy.
WriteDone_NotCopiedAgain(f) ==
  [Cached(f, f.Req.blk) EXCEPT
     !.Req = NoReq, !.UserJobFailCount = 0,
     !.MainJob = IF f.GcState = "REQUESTED" THEN "GC" ELSE @]

\* Fee_lLastPgHandler: a garbage collection that is copying takes the block
\* once more.
WriteDone(f) ==
  LET g == [Cached(f, f.Req.blk) EXCEPT
              !.Req = NoReq, !.UserJobFailCount = 0,
              !.MainJob = IF f.GcState = "REQUESTED" THEN "GC" ELSE @]
  IN IF f.GcState \in {"IDLE", "ERASE"} THEN g
     ELSE [g EXCEPT !.Copied[f.Req.blk] = FALSE, !.BlkModified = TRUE]

WriteCompare(f, passed) ==
  LET d == f.NextFreePage
      moved == [f EXCEPT !.NextFreePage = NextWL(d) + PerWL]
  IN CASE passed -> Continue(WriteDone(f))
       [] ~passed /\ f.UserJobFailCount = 0 ->
            RecopyFrom([moved EXCEPT !.UserJobFailCount = 1], d, WLBeginning(d))
       [] OTHER -> Continue([moved EXCEPT !.Req = NoReq, !.UserJobFailCount = 0])

RecopyCompare(f, passed) ==
  IF passed
  THEN RecopyFrom(Cached(f, flash[f.CurrSector][f.Affected].blk),
                  f.Affected, f.Affected + 1)
  ELSE Continue([f EXCEPT !.Req.stage = "fail"])

LocalWrite(f) ==
  LET g == [f EXCEPT !.UserJob = "IDLE"]
      passed == f.UserJob = "PASS"
  IN /\ f.MainJob = "WRITE"
     /\ CASE f.Req.stage = "request" -> WriteCopy(g)
          [] f.Req.stage = "compare" -> WriteCompare(g, passed)
          [] f.Req.stage = "recopy" -> RecopyCompare(g, passed)
          [] OTHER -> Continue(g)
     /\ doubt' = IF f.Req.stage = "compare" /\ passed
                 THEN [doubt EXCEPT ![f.Req.blk] = {}] ELSE doubt
     /\ UNCHANGED prepared

-----------------------------------------------------------------------------
(* Fee_lLocalRead: the latest copy is read as the cache tells, or the       *)
(* request is refused at once: there is none, or it is an invalidation.     *)

Content(addr) == IF addr = NoAddr THEN NoValue ELSE flash[addr.sector][addr.slot].val

LocalRead(f) ==
  LET at == f.Cache[f.Req.blk]
  IN /\ f.MainJob = "READ"
     /\ \/ Content(at) = NoValue /\ Continue([f EXCEPT !.Req = NoReq])
        \/ Content(at) # NoValue /\ Start([f EXCEPT !.Req.stage = "reading"],
                                          ReadCell(at))
     /\ UNCHANGED <<prepared, doubt>>

-----------------------------------------------------------------------------
(* Fee_lGarbageCollection. *)

GcFail(f) == [f EXCEPT !.GcState = "FAIL"]

GcRequested(f) ==
  [f EXCEPT !.GcState = "START_COPY", !.GcDest = f.NextFreeWL[Other(f.CurrSector)],
            !.Copied = [b \in Blocks |-> FALSE], !.BlkModified = FALSE,
            !.GcCopyIndex = 0, !.GcSrcAddr = <<>>]

ToCopy(f, from) == {b \in Blocks : b >= from /\ f.Cache[b] # NoAddr /\ ~f.Copied[b]}

GcCopyWrite(f, b) ==
  LET a == f.GcDest
      cell == flash[f.Cache[b].sector][f.Cache[b].slot]
      g == [f EXCEPT !.GcState = "COPY_WRITE", !.GcCopyIndex = b, !.GcBlock = cell.blk]
  IN IF ThresholdCrossed(Free(a), 1) THEN Continue(GcFail(f))
     ELSE Start(IF IsWLBeginning(a)
                THEN [g EXCEPT !.GcFirstBlkInWL = cell.blk, !.GcSrcAddr = <<>>] ELSE g,
                ProgramCell(Other(f.CurrSector), a, cell, "intr"))

GcStatePage(f) ==
  LET st == IF f.GcState = "V_SP" THEN "VALID" ELSE "ERASED"
  IN IF Free(f.GcDest) < PerWL THEN Continue(GcFail(f))
     ELSE Start([f EXCEPT !.StateCount = NextCount(f)],
                ProgramCell(Other(f.CurrSector), f.GcDest,
                            StatePage(st, NextCount(f), "none"), "intr"))

\* Blocks written while others were copied are copied in a further round;
\* when none is left the state page takes the next whole wordline.
GcStartCopy(f) ==
  LET again == ToCopy(f, f.GcCopyIndex) = {} /\ f.BlkModified
      left == ToCopy(f, IF again THEN 0 ELSE f.GcCopyIndex)
      g == IF again THEN [f EXCEPT !.BlkModified = FALSE] ELSE f
  IN IF left # {} THEN GcCopyWrite(g, Min(left))
     ELSE GcStatePage([g EXCEPT !.GcState = "V_SP", !.IntrJobFailCount = 0,
                                !.GcCopyIndex = NBlocks,
                                !.GcDest = IF IsWLBeginning(@) THEN @ ELSE NextWL(@)])

\* The job the state of the collection asks for.
GcStart(f) ==
  CASE f.GcState = "REQUESTED" -> GcStartCopy(GcRequested(f))
    [] f.GcState = "START_COPY" -> GcStartCopy(f)
    [] f.GcState \in {"V_SP", "E_SP"} -> GcStatePage(f)
    [] f.GcState \in {"V_M", "E_M"} ->
         Start(f, ProgramMarker(Other(f.CurrSector), f.GcDest))
    [] f.GcState = "ERASE" -> Start(f, EraseSector(Other(f.CurrSector)))
    [] OTHER -> Continue(f)

\* Fee_lGcBlkCompare.
CopyDone(f) ==
  LET b == f.GcBlock
  IN [f EXCEPT !.GcState = "START_COPY",
               !.IntrJobFailCount = IF b # f.GcPrevBlock THEN 0 ELSE @,
               !.Copied[b] = TRUE,
               !.GcSrcAddr = Append(@, f.Cache[b]),
               !.Cache[b] = At(Other(f.CurrSector), f.GcDest),
               !.GcCopyIndex = @ + 1, !.GcDest = @ + 1, !.GcPrevBlock = b]

\* Fee_lHandleConfigGcCopyError: as many cache entries as copies were made in
\* the wordline, in a row from that of its first block, go back to their
\* source.
UndoWL(f) ==
  LET first == f.GcFirstBlkInWL
      undone == {b \in Blocks : /\ b >= first /\ b < first + Len(f.GcSrcAddr)
                                /\ f.Copied[b]}
  IN [f EXCEPT !.Copied = [b \in Blocks |-> @[b] /\ b \notin undone],
               !.Cache = [b \in Blocks |-> IF b \in undone
                                           THEN f.GcSrcAddr[b - first + 1] ELSE @[b]],
               !.GcCopyIndex = first, !.GcSrcAddr = <<>>]

CopyFailed(f) ==
  LET g == [f EXCEPT !.GcState = "START_COPY", !.IntrJobFailCount = 1,
                     !.GcDest = NextWL(NextWL(@))]
  IN CASE f.IntrJobFailCount # 0 -> GcFail(f)
       [] f.IntrJobFailCount = 0 /\ f.GcSrcAddr # <<>> -> UndoWL(g)
       [] OTHER -> g

\* Mutant: the state page is tried again in the wordline that failed.
PageFailed_SameWL(f, page) ==
  IF f.IntrJobFailCount # 0 THEN GcFail(f)
  ELSE [f EXCEPT !.GcState = page, !.IntrJobFailCount = 1]

\* Fee_lGcStatePageCompare.
PageFailed(f, page) ==
  IF f.IntrJobFailCount # 0 THEN GcFail(f)
  ELSE [f EXCEPT !.GcState = page, !.IntrJobFailCount = 1,
                 !.GcDest = NextWL(@) + PerWL]

\* The other sector has become the valid one.  A collection that ends with
\* too little room fails: it leaves the driver waiting for a comparison that
\* nobody makes, or drops the write that waits, its result still pending.
StuckReq == [blk |-> 0, val |-> NoValue, invalidate |-> FALSE, stage |-> "stuck"]

NewSectorValid(f) ==
  LET s == Other(f.CurrSector)
      g == [f EXCEPT !.IntrJobFailCount = 0, !.CurrSector = s,
                     !.StatePageAddr[s] = f.GcDest,
                     !.NextFreeWL[s] = NextWL(f.GcDest),
                     !.NextFreePage = NextWL(f.GcDest)]
      checked == IF Requested(g) THEN CurrBlkCheck(g) ELSE g
  IN CASE ThresholdCrossed(Free(g.NextFreePage), PerWL) ->
            [GcFail(g) EXCEPT !.Req = StuckReq]
       [] /\ ~ThresholdCrossed(Free(g.NextFreePage), PerWL)
          /\ Requested(g) /\ ~BlkWritable(g) -> [GcFail(checked) EXCEPT !.Req = NoReq]
       [] OTHER -> [checked EXCEPT !.GcDest = 0, !.GcState = "ERASE", !.GcInit = FALSE]

\* Mutant: the collection does not end.
OldSectorErased_StaysBusy(f) ==
  LET s == Other(f.CurrSector)
  IN [f EXCEPT !.IntrJobFailCount = 0,
               !.StatePageAddr[s] = f.GcDest, !.NextFreeWL[s] = NextWL(f.GcDest),
               !.GcInit = FALSE]

OldSectorErased(f) ==
  LET s == Other(f.CurrSector)
  IN [f EXCEPT !.IntrJobFailCount = 0,
               !.StatePageAddr[s] = f.GcDest, !.NextFreeWL[s] = NextWL(f.GcDest),
               !.GcState = IF f.GcInit THEN "REQUESTED" ELSE "IDLE", !.GcInit = FALSE]

EraseDone(f) ==
  [f EXCEPT !.GcState = "E_SP", !.IntrJobFailCount = 0,
            !.StateCount = IF f.GcInit THEN @ + 1 ELSE @]

EraseFailed(f) ==
  IF f.IntrJobFailCount = 0 THEN [f EXCEPT !.IntrJobFailCount = 1] ELSE GcFail(f)

GcResult(f, passed) ==
  CASE f.GcState = "COPY_WRITE" -> IF passed THEN CopyDone(f) ELSE CopyFailed(f)
    [] f.GcState = "V_SP" ->
         IF passed THEN [f EXCEPT !.GcState = "V_M"] ELSE PageFailed(f, "V_SP")
    [] f.GcState = "V_M" -> IF passed THEN NewSectorValid(f) ELSE PageFailed(f, "V_SP")
    [] f.GcState = "ERASE" -> IF passed THEN EraseDone(f) ELSE EraseFailed(f)
    [] f.GcState = "E_SP" ->
         IF passed THEN [f EXCEPT !.GcState = "E_M"] ELSE PageFailed(f, "E_SP")
    [] f.GcState = "E_M" -> IF passed THEN OldSectorErased(f) ELSE PageFailed(f, "E_SP")
    [] OTHER -> f

\* Some results start the next job in the same call.
GoesOn == {<<"V_SP", "V_M">>, <<"ERASE", "E_SP">>, <<"E_SP", "E_M">>}

GarbageCollection(f) ==
  /\ f.MainJob = "GC"
  /\ \/ /\ f.IntrJob = "IDLE"
        /\ GcStart(f)
     \/ /\ f.IntrJob # "IDLE"
        /\ \E g \in {GcResult([f EXCEPT !.IntrJob = "IDLE"], f.IntrJob = "PASS")} :
             \/ <<f.GcState, g.GcState>> \in GoesOn /\ GcStart(g)
             \/ <<f.GcState, g.GcState>> \notin GoesOn /\ Continue(g)
  /\ UNCHANGED <<prepared, doubt>>

-----------------------------------------------------------------------------
(* The actions. *)

MainFunction ==
  /\ \E f \in {DecideMainJob(fee)} :
       \/ /\ job # NoJob \/ f.MainJob = "NONE"
          /\ Continue(f)
          /\ UNCHANGED <<prepared, doubt>>
       \/ /\ job = NoJob
          /\ \/ InitGC(f) \/ UpdateCache(f)
             \/ LocalRead(f) \/ LocalWrite(f) \/ GarbageCollection(f)
  /\ UNCHANGED <<flash, writes, resets, fails, failedWL, recovered>>

\* What an interrupted or failing job can leave behind.  An erasure acts on
\* the whole sector: cut short it leaves pages as they were or unreadable, the
\* pages of a kind alike, or has erased them all.
Partial(j) ==
  LET cells == flash[j.sector]
      Kind(c) == IF c.kind = "state" THEN c.st ELSE c.kind
  IN CASE j.op = "read" -> {cells}
       [] j.op = "program" ->
            {[cells EXCEPT ![j.addr] = c] : c \in {cells[j.addr], Torn, j.cell}}
       [] j.op = "marker" ->
            {[cells EXCEPT ![j.addr].mark = m] : m \in {cells[j.addr].mark, "torn", "ok"}}
       [] j.op = "erase" ->
            {AllBlank} \cup
            {[a \in Slots |-> IF Kind(cells[a]) \in lost THEN Torn ELSE cells[a]] :
               lost \in SUBSET {"copy", "VALID", "ERASED"}}

Finished(j) == IF j.op = "erase" THEN AllBlank
               ELSE [flash[j.sector] EXCEPT ![j.addr] = j.cell]

\* A copy of the user's value that is found before it is acknowledged.
NewDoubt ==
  LET b == fee.Req.blk
  IN IF job.owner = "user" /\ fee.Req.stage = "compare" /\ recovered' # recovered
     THEN [doubt EXCEPT ![b] = @ \cup {recovered[b], recovered'[b]}]
     ELSE doubt

\* Fee_JobEndNotification and Fee_JobErrorNotification.
JobEnd(passed) ==
  /\ job # NoJob
  /\ job' = NoJob
  /\ fee' = CASE job.op = "read" -> [fee EXCEPT !.Req = NoReq]
              [] job.op # "read" /\ job.owner = "user" ->
                   [fee EXCEPT !.UserJob = IF passed THEN "PASS" ELSE "FAIL"]
              [] OTHER -> [fee EXCEPT !.IntrJob = IF passed THEN "PASS" ELSE "FAIL"]
  /\ recovered' = Recovered(flash')
  /\ doubt' = NewDoubt
  /\ UNCHANGED <<writes, resets, prepared>>

JobEndNotification ==
  /\ job # NoJob
  /\ flash' = [flash EXCEPT ![job.sector] = Finished(job)]
  /\ failedWL' = IF job.op = "erase"
                 THEN {w \in failedWL : w.sector # job.sector} ELSE failedWL
  /\ JobEnd(TRUE)
  /\ UNCHANGED fails

JobFails ==
  /\ job # NoJob /\ job.op # "read"
  /\ fails < MaxFails
  /\ \E cells \in Partial(job) : flash' = [flash EXCEPT ![job.sector] = cells]
  /\ failedWL' = IF job.op = "erase" THEN failedWL
                 ELSE failedWL \cup {At(job.sector, WLBeginning(job.addr))}
  /\ JobEnd(FALSE)
  /\ fails' = fails + 1

NewRequest(b, v, invld) ==
  fee' = [fee EXCEPT !.Req = [blk |-> b, val |-> v, invalidate |-> invld,
                              stage |-> "request"]]

\* Fee_Read.
Read(b) ==
  /\ b \in ReadBlocks
  /\ resets + fails <= ReadFaults
  /\ fee.Req = NoReq
  /\ fee' = [fee EXCEPT !.Req = [blk |-> b, val |-> NoValue, invalidate |-> FALSE,
                                 stage |-> "toRead"]]
  /\ UNCHANGED <<flash, job, writes, resets, fails, prepared, failedWL,
                 recovered, doubt>>

\* Fee_Write: accepted at any time when no request waits, even while the
\* initialisation runs.
Write(b) ==
  /\ writes < MaxWrites
  /\ fee.Req = NoReq
  /\ NewRequest(b, writes + 1, FALSE)
  /\ writes' = writes + 1
  /\ UNCHANGED <<flash, job, resets, fails, prepared, failedWL,
                 recovered, doubt>>

IsIdle ==
  \/ fee.InitGCState = "FAIL"
  \/ fee.GcState = "FAIL"
  \/ fee.CacheUpdated /\ fee.GcState = "IDLE"

\* Fee_InvalidateBlock.
InvalidateBlock(b) ==
  /\ writes < MaxWrites /\ b \in InvalidateBlocks
  /\ fee.Req = NoReq
  /\ IsIdle
  /\ NewRequest(b, NoValue, TRUE)
  /\ writes' = writes + 1
  /\ UNCHANGED <<flash, job, resets, fails, prepared, failedWL,
                 recovered, doubt>>

\* Fee_Cancel: a read, or a write that has not been started.
Cancel ==
  /\ fee.Req # NoReq /\ fee.Req.stage \in {"request", "toRead", "reading"}
  /\ fee' = [fee EXCEPT !.Req = NoReq, !.UserJobFailCount = 0]
  /\ job' = IF fee.Req.stage = "reading" THEN NoJob ELSE job
  /\ UNCHANGED <<flash, writes, resets, fails, prepared, failedWL,
                 recovered, doubt>>

\* A reset, with whatever the running job leaves, and Fee_Init.
Reset ==
  /\ resets < MaxResets
  /\ \/ job = NoJob /\ UNCHANGED flash
     \/ /\ job # NoJob
        /\ \E cells \in Partial(job) : flash' = [flash EXCEPT ![job.sector] = cells]
  /\ fee' = Boot(flash')
  /\ recovered' = Recovered(flash')
  /\ job' = NoJob
  /\ resets' = resets + 1
  /\ doubt' = [b \in Blocks |-> {}]
  /\ failedWL' = {}
  /\ UNCHANGED <<writes, fails, prepared>>

\* A flash as the first preparation leaves it, with n copies written since.
InitialFlash(n) ==
  LET used == [a \in Slots |->
        CASE a = 0 -> StatePage("ERASED", 1, "ok")
          [] a = PerWL -> StatePage("VALID", 2, "ok")
          [] a \in 2 * PerWL .. 2 * PerWL + n - 1 -> BlockCopy(a % NBlocks, 0)
          [] OTHER -> Blank]
      erased == [AllBlank EXCEPT ![0] = StatePage("ERASED", 3, "ok")]
  IN [s \in Sectors |-> CASE n = 0 -> AllBlank
                          [] n # 0 /\ s = 0 -> used
                          [] OTHER -> erased]

Init ==
  /\ \E n \in Filled : /\ flash = InitialFlash(n)
                       /\ prepared = (n > 0)
  /\ fee = Boot(flash)
  /\ recovered = Recovered(flash)
  /\ job = NoJob
  /\ writes = 0 /\ resets = 0 /\ fails = 0
  /\ failedWL = {}
  /\ doubt = [b \in Blocks |-> {}]

Next ==
  \/ MainFunction
  \/ JobEndNotification
  \/ JobFails
  \/ \E b \in Blocks : Read(b) \/ Write(b) \/ InvalidateBlock(b)
  \/ Cancel
  \/ Reset

\* The main function is called cyclically and every flash job ends.
Fairness == WF_vars(MainFunction) /\ WF_job(job' = NoJob)

Spec == Init /\ [][Next]_vars /\ Fairness

-----------------------------------------------------------------------------
(* Properties. *)

\* The request r as the user sees it; a read that has started has its answer.
UserRequest(r, answer) ==
  CASE r = NoReq \/ r.stage = "stuck" -> NoReq
    [] r # NoReq /\ r.stage = "toRead" ->
         [kind |-> "read", blk |-> r.blk, val |-> NoValue]
    [] r # NoReq /\ r.stage = "reading" ->
         [kind |-> "answer", blk |-> r.blk, val |-> answer]
    [] OTHER -> [kind |-> "write", blk |-> r.blk, val |-> r.val]

PendingRequest == UserRequest(fee.Req, flash[job.sector][job.addr].val)

\* What the user sees: the store of FeeStore.
Store == INSTANCE FeeStore WITH
  store <- recovered, request <- PendingRequest, doubt <- doubt

\* A write takes effect at once or not at all, an acknowledged value stays
\* until the next write and a read returns it, whatever job a reset
\* interrupts and however the garbage collection interleaves with reads and
\* writes; whichever job fails, too, except where UndoWL takes back the wrong
\* copies (MCFeeUndo.cfg), which the instance MCFee.cfg does not reach.
ImplementsStore == Store!Spec

\* The cache leads to the value a start-up would find, or to another that is
\* in doubt: garbage collection moves both together, and a read is neither
\* refused nor answered wrongly.
CacheShowsStore ==
  fee.CacheUpdated =>
    \A b \in Blocks : Content(fee.Cache[b]) \in {recovered[b]} \cup doubt[b]

\* No page is programmed twice between two erasures: a copy goes to a blank
\* slot, a state page to a blank wordline, a marker to a page that has none.
\* Only the repair of a torn marker programs it again.
ProgramsBlankFlash ==
  /\ (job # NoJob /\ job.op = "program") =>
       /\ flash[job.sector][job.addr] = Blank
       /\ job.cell.kind = "state" =>
            \A a \in WLBeginning(job.addr) .. NextWL(job.addr) - 1 :
              flash[job.sector][a] = Blank
  /\ (job # NoJob /\ job.op = "marker") =>
       /\ flash[job.sector][job.addr].kind = "state"
       /\ flash[job.sector][job.addr].mark = "none" \/ fee.InitGCState = "DIRTY"

\* A sector has room for one more copy of every block, and for what the pages
\* and the threshold keep free.
Roomy == NBlocks + Threshold + 4 * PerWL <= WLs * PerWL + 1

CopiedTwice(cells) == \E b \in Blocks : \E a, p \in CopiesOf(cells, b) : a # p

\* Once a flash has been prepared, neither the initialisation nor a garbage
\* collection gives up before a flash job failed: a reset alone, at whatever
\* step, leaves a flash the next start-up can go on with.  The collection may
\* do so for another reason, though: it copies a block again for each write
\* it allows in between, and so many of these use up the new sector.
FailsOnlyAfterFault ==
  [][prepared /\ fails = 0 =>
       /\ fee'.InitGCState # "FAIL"
       /\ fee'.GcState = "FAIL" /\ fee.GcState # "FAIL" /\ Roomy
            => CopiedTwice(flash[Other(fee.CurrSector)])]_vars

InFailedWL(addr) == addr # NoAddr /\ At(addr.sector, WLBeginning(addr.slot)) \in failedWL

\* Where the handling of a failure ends.
Settled ==
  /\ fee.CacheUpdated
  /\ fee.IntrJob = "IDLE" /\ fee.UserJob = "IDLE"
  /\ fee.Req # NoReq => fee.Req.stage \in {"request", "toRead", "reading"}
  /\ fee.GcState # "FAIL"

\* A wordline in which programming failed holds no block's latest copy once
\* the failure is dealt with: the copies that shared it have been made again.
\* That is one failure: when a write fails twice the driver gives it up.
NoBlockLeftInFailedWordline ==
  Settled => \A b \in Blocks : ~InFailedWL(fee.Cache[b])

GaveUp ==
  \/ fee.InitGCState = "FAIL" \/ fee.GcState = "FAIL"
  \/ fee.Req # NoReq /\ fee.Req.stage \in {"fail", "stuck"}

\* Every accepted request is answered (or lost in a reset, or the driver has
\* reported that it gave up), also one that has to wait for the
\* initialisation and a whole garbage collection.
RequestAnswered == fee.Req # NoReq ~> fee.Req = NoReq \/ GaveUp

=============================================================================
