------------------------------- MODULE FeeProofs -------------------------------
(***************************************************************************)
(* Proofs about the flash EEPROM emulation: that FInv of FeeInv is an      *)
(* invariant, that until a flash job fails only blank flash is programmed, *)
(* the cache leads to what a start-up would find and the driver does not   *)
(* give up, and that where no job fails Fee implements FeeStore.           *)
(*                                                                         *)
(* First come wordlines and cells, what a start-up concludes from the      *)
(* flash, and what a job does to it, ended or cut off.  Then each action   *)
(* is shown to keep the invariant, one job and one step of the main        *)
(* function after the other, to be a step of the store or none, and to     *)
(* keep the driver going.                                                  *)
(***************************************************************************)
EXTENDS FeeInv, SequenceLemmas, FiniteSetTheorems, TLAPS

-----------------------------------------------------------------------------
(* Wordlines. *)

\* The constants: slots, sectors and blocks are numbers from 0.
LEMMA SlotFacts ==
  /\ PerWL \in Nat \ {0} /\ WLs \in Nat \ {0} /\ WLs * PerWL \in Nat
  /\ Slots = 0 .. WLs * PerWL - 1 /\ Slots \subseteq Nat
  /\ 0 \in Slots
  /\ Sectors = {0, 1}
  /\ Blocks \subseteq Nat /\ 0 \in Blocks
  /\ \A s \in Sectors : Other(s) \in Sectors /\ Other(s) # s /\ Other(Other(s)) = s
  <1>1. PerWL \in Nat \ {0} /\ WLs \in Nat \ {0} /\ NBlocks \in Nat \ {0}
    BY FeeConstants
  <1>2. WLs * PerWL \in Nat /\ WLs * PerWL >= 1
    BY <1>1
  <1> QED
    BY <1>1, <1>2 DEF Slots, Sectors, Blocks, Other

\* Where the wordline of a slot begins and where the next one does.
LEMMA WordlineFacts ==
  ASSUME NEW a \in Nat
  PROVE  /\ WLBeginning(a) \in Nat /\ WLBeginning(a) <= a
         /\ NextWL(a) \in Nat /\ NextWL(a) = WLBeginning(a) + PerWL /\ a < NextWL(a)
         /\ IsWLBeginning(WLBeginning(a)) /\ IsWLBeginning(NextWL(a))
         /\ IsWLBeginning(a) <=> WLBeginning(a) = a
  <1> DEFINE q == a \div PerWL
             r == a % PerWL
  <1>1. PerWL \in Nat \ {0}
    BY SlotFacts
  <1>2. q \in Nat /\ r \in 0 .. PerWL - 1 /\ a = PerWL * q + r
    BY <1>1, DivisionFacts
  <1>3. WLBeginning(a) = q * PerWL /\ (IsWLBeginning(a) <=> r = 0)
    BY DEF WLBeginning, IsWLBeginning
  <1> HIDE DEF q, r
  <1>4. q * PerWL \in Nat /\ q * PerWL = PerWL * q + 0
    BY <1>1, <1>2
  <1>5. q * PerWL + PerWL \in Nat /\ q * PerWL + PerWL = PerWL * (q + 1) + 0
    BY <1>1, <1>2, <1>4
  <1>6. (q * PerWL) % PerWL = 0
    BY <1>1, <1>2, <1>4, DivisionUnique
  <1>7. (q * PerWL + PerWL) % PerWL = 0
    BY <1>1, <1>2, <1>5, DivisionUnique
  <1>8. NextWL(a) = q * PerWL + PerWL
    BY <1>3 DEF NextWL
  <1> QED
    BY <1>1, <1>2, <1>3, <1>4, <1>5, <1>6, <1>7, <1>8 DEF IsWLBeginning

\* No wordline begins within another.
LEMMA WordlinesApart ==
  ASSUME NEW a \in Nat, NEW p \in Nat, IsWLBeginning(p)
  PROVE  /\ p <= a => p <= WLBeginning(a)
         /\ a < p => NextWL(a) <= p
  <1> DEFINE q == a \div PerWL
             r == a % PerWL
             n == p \div PerWL
  <1>1. PerWL \in Nat \ {0}
    BY SlotFacts
  <1>2. q \in Nat /\ r \in 0 .. PerWL - 1 /\ a = PerWL * q + r
    BY <1>1, DivisionFacts
  <1>3. n \in Nat /\ p = PerWL * n + 0
    BY <1>1, DivisionFacts DEF IsWLBeginning
  <1>4. WLBeginning(a) = q * PerWL /\ NextWL(a) = q * PerWL + PerWL
    BY DEF WLBeginning, NextWL
  <1> HIDE DEF q, r, n
  <1>5. q * PerWL = PerWL * q /\ PerWL * q \in Int /\ PerWL * n \in Int
    BY <1>1, <1>2, <1>3
  <1>6. n > q => PerWL * n >= PerWL * q + PerWL
    BY <1>1, <1>2, <1>3, ProductsApart
  <1>7. q > n => PerWL * q >= PerWL * n + PerWL
    BY <1>1, <1>2, <1>3, ProductsApart
  <1> QED
    BY <1>1, <1>2, <1>3, <1>4, <1>5, <1>6, <1>7

\* The next slot is in the same wordline or begins one.
LEMMA WordlineOfNext ==
  ASSUME NEW a \in Nat
  PROVE  IsWLBeginning(a + 1) \/ WLBeginning(a + 1) = WLBeginning(a)
  <1>1. a + 1 \in Nat /\ WLBeginning(a) \in Nat /\ WLBeginning(a + 1) \in Nat
    BY WordlineFacts
  <1>2. WLBeginning(a + 1) <= a + 1 /\ IsWLBeginning(WLBeginning(a + 1))
        /\ WLBeginning(a) <= a /\ IsWLBeginning(WLBeginning(a))
    BY <1>1, WordlineFacts
  <1>3. CASE WLBeginning(a + 1) = a + 1
    BY <1>1, <1>3, WordlineFacts
  <1>4. CASE WLBeginning(a + 1) <= a
    <2>1. WLBeginning(a + 1) <= WLBeginning(a)
      BY <1>1, <1>2, <1>4, WordlinesApart
    <2>2. WLBeginning(a) <= WLBeginning(a + 1)
      BY <1>1, <1>2, WordlinesApart
    <2> QED
      BY <1>1, <2>1, <2>2
  <1> QED
    BY <1>1, <1>2, <1>3, <1>4

\* The first two wordlines of a sector, and its last.
LEMMA WordlineSlots ==
  /\ IsWLBeginning(0) /\ IsWLBeginning(PerWL) /\ IsWLBeginning(WLs * PerWL)
  /\ NextWL(0) = PerWL /\ NextWL(PerWL) = PerWL + PerWL
  /\ \A a \in Slots : /\ WLBeginning(a) \in Slots
                      /\ NextWL(a) <= WLs * PerWL
  <1>1. PerWL \in Nat \ {0} /\ WLs \in Nat \ {0} /\ WLs * PerWL \in Nat
        /\ Slots = 0 .. WLs * PerWL - 1
    BY SlotFacts
  <1>2. 0 = PerWL * 0 + 0 /\ PerWL = PerWL * 1 + 0 /\ WLs * PerWL = PerWL * WLs + 0
        /\ 0 \in 0 .. PerWL - 1
    BY <1>1
  <1>3. 0 % PerWL = 0
    BY <1>1, <1>2, DivisionUnique
  <1>4. PerWL % PerWL = 0
    BY <1>1, <1>2, DivisionUnique
  <1>5. (WLs * PerWL) % PerWL = 0
    BY <1>1, <1>2, DivisionUnique
  <1>6. IsWLBeginning(0) /\ IsWLBeginning(PerWL) /\ IsWLBeginning(WLs * PerWL)
    BY <1>3, <1>4, <1>5 DEF IsWLBeginning
  <1>7. NextWL(0) = PerWL
    <2>1. WLBeginning(0) = 0
      BY <1>6, WordlineFacts
    <2> QED
      BY <2>1, <1>1 DEF NextWL
  <1>8. NextWL(PerWL) = PerWL + PerWL
    <2>1. WLBeginning(PerWL) = PerWL
      BY <1>1, <1>6, WordlineFacts
    <2> QED
      BY <2>1, <1>1 DEF NextWL
  <1>9. ASSUME NEW a \in Slots
        PROVE  WLBeginning(a) \in Slots /\ NextWL(a) <= WLs * PerWL
    <2>1. a \in Nat /\ a < WLs * PerWL
      BY <1>1
    <2>2. NextWL(a) <= WLs * PerWL
      BY <1>1, <1>6, <2>1, WordlinesApart
    <2>3. WLBeginning(a) \in Nat /\ WLBeginning(a) <= a
      BY <2>1, WordlineFacts
    <2> QED
      BY <1>1, <2>1, <2>2, <2>3
  <1> QED
    BY <1>6, <1>7, <1>8, <1>9

-----------------------------------------------------------------------------
(* Cells. *)

\* What a cell can hold, and what programming its marker makes of it.
LEMMA CellFacts ==
  ASSUME NEW c \in Cells
  PROVE  /\ c.kind \in {"blank", "torn", "copy", "state"}
         /\ c = Blank <=> c.kind = "blank"
         /\ c.kind = "copy" => /\ c.blk \in Blocks /\ c.val \in Values \cup {NoValue}
                               /\ c = BlockCopy(c.blk, c.val)
         /\ c.kind = "state" => /\ c.st \in {"VALID", "ERASED"} /\ c.cnt \in Nat \ {0}
                                /\ c.mark \in {"none", "torn", "ok"}
                                /\ c = StatePage(c.st, c.cnt, c.mark)
                                /\ [c EXCEPT !.mark = "ok"] = StatePage(c.st, c.cnt, "ok")
                                /\ [c EXCEPT !.mark = "torn"] = StatePage(c.st, c.cnt, "torn")
                                /\ [c EXCEPT !.mark = c.mark] = c
  <1>1. CASE c \in {Blank, Torn}
    BY <1>1 DEF Blank, Torn
  <1>2. CASE c \in Copies
    BY <1>2 DEF Copies, Blank, BlockCopy
  <1>3. CASE c \in Pages
    BY <1>3 DEF Pages, Blank, StatePage
  <1> QED
    BY <1>1, <1>2, <1>3 DEF Cells

\* What the program writes is a cell.
LEMMA BuiltCells ==
  /\ Blank \in Cells /\ Blank.kind = "blank"
  /\ Torn \in Cells /\ Torn.kind = "torn" /\ Torn # Blank
  /\ \A b \in Blocks : \A v \in Values \cup {NoValue} :
       /\ BlockCopy(b, v) \in Cells /\ BlockCopy(b, v).kind = "copy"
       /\ BlockCopy(b, v).blk = b /\ BlockCopy(b, v).val = v
  /\ \A st \in {"VALID", "ERASED"} : \A n \in Nat \ {0} : \A m \in {"none", "torn", "ok"} :
       /\ StatePage(st, n, m) \in Cells /\ StatePage(st, n, m).kind = "state"
       /\ StatePage(st, n, m).st = st /\ StatePage(st, n, m).cnt = n
       /\ StatePage(st, n, m).mark = m
  <1>1. Blank.kind = "blank" /\ Torn.kind = "torn"
    BY DEF Blank, Torn
  <1>2. ASSUME NEW b \in Blocks, NEW v \in Values \cup {NoValue}
        PROVE  /\ BlockCopy(b, v) \in Copies /\ BlockCopy(b, v).kind = "copy"
               /\ BlockCopy(b, v).blk = b /\ BlockCopy(b, v).val = v
    BY DEF BlockCopy, Copies
  <1>3. ASSUME NEW st \in {"VALID", "ERASED"}, NEW n \in Nat \ {0},
               NEW m \in {"none", "torn", "ok"}
        PROVE  /\ StatePage(st, n, m) \in Pages /\ StatePage(st, n, m).kind = "state"
               /\ StatePage(st, n, m).st = st /\ StatePage(st, n, m).cnt = n
               /\ StatePage(st, n, m).mark = m
    BY DEF StatePage, Pages
  <1> QED
    BY <1>1, <1>2, <1>3 DEF Cells

\* A request at each of its stages.
LEMMA RequestFacts ==
  ASSUME NEW r \in Requests
  PROVE  /\ r # NoReq /\ r.blk \in Blocks /\ r.val \in Values \cup {NoValue}
         /\ \A st \in {"request", "toRead", "reading", "compare", "recopy", "fail", "stuck"} :
              /\ [r EXCEPT !.stage = st] \in Requests
              /\ [r EXCEPT !.stage = st].stage = st
              /\ [r EXCEPT !.stage = st].blk = r.blk /\ [r EXCEPT !.stage = st].val = r.val
              /\ [r EXCEPT !.stage = st].invalidate = r.invalidate
  BY FeeNulls DEF Requests

\* The cache's addresses.
LEMMA AddressFacts ==
  /\ \A s \in Sectors : \A a \in Slots :
       /\ At(s, a) \in Addresses /\ At(s, a) # NoAddr
       /\ At(s, a).sector = s /\ At(s, a).slot = a
  /\ \A x \in Addresses : x.sector \in Sectors /\ x.slot \in Slots /\ x # NoAddr
                          /\ x = At(x.sector, x.slot)
  BY FeeNulls DEF Addresses, At

-----------------------------------------------------------------------------
(* What a start-up concludes from a sector. *)

\* A set of slots that is not empty has a greatest element.
LEMMA GreatestElement ==
  ASSUME NEW S \in SUBSET Slots, S # {}
  PROVE  Max(S) \in S /\ \A y \in S : y <= Max(S)
  <1>1. S \in SUBSET Nat /\ WLs * PerWL \in Nat /\ \A y \in S : y < WLs * PerWL
    BY SlotFacts
  <1> QED
    BY <1>1, GreatestBelow

\* A start-up sees the state pages whose marker has been programmed.
LEMMA StatePagesMarked ==
  ASSUME NEW cells \in [Slots -> Cells]
  PROVE  StatePages(cells) = {a \in Slots : Marked(cells[a])}
  BY DEF StatePages, Marked

\* In a sector that is VALID the VALID page is the latest one.
LEMMA ValidIsLatest ==
  ASSUME NEW cells \in [Slots -> Cells], Shape(cells),
         NEW v \in Slots, MarkedState(cells[v], "VALID")
  PROVE  /\ v \in StatePages(cells) /\ LatestPage(cells) = v
         /\ SectorState(cells) = "VALID" /\ StateCount(cells) = cells[v].cnt
         /\ \A a \in Slots : MarkedState(cells[a], "VALID") => a = v
  <1>1. v \in StatePages(cells)
    BY StatePagesMarked DEF Marked, MarkedState, IsState
  <1>2. \A p \in StatePages(cells) : p # v => cells[p].cnt < cells[v].cnt
    <2> SUFFICES ASSUME NEW p \in StatePages(cells), p # v
                 PROVE  cells[p].cnt < cells[v].cnt
      OBVIOUS
    <2>1. p \in Slots /\ Marked(cells[p]) /\ cells[p] \in Cells
      BY StatePagesMarked
    <2>2. cells[p].st \in {"VALID", "ERASED"}
      BY <2>1, CellFacts DEF Marked
    <2>3. cells[p].st = "ERASED"
      BY <2>1, <2>2 DEF Shape, Marked, MarkedState, IsState
    <2>4. p = 0
      BY <2>1, <2>3 DEF Shape, Marked, IsState
    <2> QED
      BY <2>1, <2>3, <2>4 DEF Shape, Marked, MarkedState, IsState
  <1>3. \A p \in StatePages(cells) : cells[p].cnt \in Nat /\ p \in Nat
    <2> TAKE p \in StatePages(cells)
    <2>1. p \in Slots /\ Marked(cells[p]) /\ cells[p] \in Cells
      BY StatePagesMarked
    <2> QED
      BY <2>1, CellFacts, SlotFacts DEF Marked
  <1>4. LatestPage(cells) = v
    BY <1>1, <1>2, <1>3 DEF LatestPage
  <1> QED
    BY <1>1, <1>4 DEF SectorState, StateCount, MarkedState, IsState, Shape

\* In a sector without a marked VALID page the ERASED page is.
LEMMA ErasedIsLatest ==
  ASSUME NEW cells \in [Slots -> Cells], Shape(cells),
         \A a \in Slots : ~MarkedState(cells[a], "VALID"), Marked(cells[0])
  PROVE  /\ StatePages(cells) = {0} /\ LatestPage(cells) = 0
         /\ SectorState(cells) = "ERASED" /\ StateCount(cells) = cells[0].cnt
  <1>1. \A a \in Slots : Marked(cells[a]) => a = 0 /\ cells[a].st = "ERASED"
    <2> SUFFICES ASSUME NEW a \in Slots, Marked(cells[a])
                 PROVE  a = 0 /\ cells[a].st = "ERASED"
      OBVIOUS
    <2>1. cells[a].st \in {"VALID", "ERASED"}
      BY CellFacts DEF Marked
    <2> QED
      BY <2>1 DEF Shape, Marked, MarkedState, IsState
  <1>2. StatePages(cells) = {0}
    BY <1>1, StatePagesMarked, SlotFacts
  <1>3. LatestPage(cells) = 0
    BY <1>2 DEF LatestPage
  <1> QED
    BY <1>1, <1>2, <1>3, SlotFacts DEF SectorState, StateCount

\* A sector without a marked page has no state.
LEMMA NoPageIsStateless ==
  ASSUME NEW cells \in [Slots -> Cells], \A a \in Slots : ~Marked(cells[a])
  PROVE  StatePages(cells) = {} /\ SectorState(cells) = "STATELESS" /\ StateCount(cells) = 0
  BY StatePagesMarked DEF SectorState, StateCount

\* The three cases together.
LEMMA SectorCases ==
  ASSUME NEW cells \in [Slots -> Cells], Shape(cells)
  PROVE  /\ SectorState(cells) \in {"VALID", "ERASED", "STATELESS"}
         /\ SectorState(cells) = "VALID" <=> \E a \in Slots : MarkedState(cells[a], "VALID")
         /\ SectorState(cells) = "ERASED" =>
              Marked(cells[0]) /\ MarkedState(cells[0], "ERASED")
         /\ SectorState(cells) = "STATELESS" <=> StatePages(cells) = {}
         /\ StatePages(cells) # {} =>
              LatestPage(cells) \in Slots /\ Marked(cells[LatestPage(cells)])
         /\ StateCount(cells) \in Nat
         /\ SectorState(cells) = "STATELESS" => StateCount(cells) = 0
         /\ SectorState(cells) # "STATELESS" => StateCount(cells) > 0
         /\ \A a \in Slots : Marked(cells[a]) => cells[a].cnt <= StateCount(cells)
  <1>1. CASE \E a \in Slots : MarkedState(cells[a], "VALID")
    <2>1. PICK v \in Slots : MarkedState(cells[v], "VALID")
      BY <1>1
    <2>2. /\ v \in StatePages(cells) /\ LatestPage(cells) = v
          /\ SectorState(cells) = "VALID" /\ StateCount(cells) = cells[v].cnt
      BY <2>1, ValidIsLatest
    <2>3. cells[v].cnt \in Nat \ {0} /\ Marked(cells[v])
      BY <2>1, CellFacts DEF MarkedState, IsState, Marked
    <2>4. ASSUME NEW a \in Slots, Marked(cells[a])
          PROVE  cells[a].cnt <= cells[v].cnt
      <3>1. cells[a].st \in {"VALID", "ERASED"} /\ cells[a].cnt \in Nat
        BY <2>4, CellFacts DEF Marked
      <3>2. CASE cells[a].st = "VALID"
        <4>1. a = v
          BY <2>1, <2>4, <3>2, ValidIsLatest DEF Marked, MarkedState, IsState
        <4> QED
          BY <4>1, <2>3
      <3>3. CASE cells[a].st = "ERASED"
        <4>1. a = 0
          BY <2>4, <3>3 DEF Shape, Marked, IsState
        <4> QED
          BY <4>1, <2>1, <2>3, <2>4, <3>1, <3>3 DEF Shape, Marked, MarkedState, IsState
      <3> QED
        BY <3>1, <3>2, <3>3
    <2> QED
      BY <1>1, <2>2, <2>3, <2>4
  <1>2. CASE (\A a \in Slots : ~MarkedState(cells[a], "VALID")) /\ Marked(cells[0])
    <2>1. /\ StatePages(cells) = {0} /\ LatestPage(cells) = 0
          /\ SectorState(cells) = "ERASED" /\ StateCount(cells) = cells[0].cnt
      BY <1>2, ErasedIsLatest
    <2>2. 0 \in Slots /\ cells[0] \in Cells
      BY SlotFacts
    <2>3. cells[0].cnt \in Nat \ {0} /\ MarkedState(cells[0], "ERASED")
      BY <1>2, <2>2, CellFacts DEF MarkedState, IsState, Marked
    <2>4. \A a \in Slots : Marked(cells[a]) => a = 0
      BY <2>1, StatePagesMarked
    <2> QED
      BY <1>2, <2>1, <2>2, <2>3, <2>4
  <1>3. CASE (\A a \in Slots : ~MarkedState(cells[a], "VALID")) /\ ~Marked(cells[0])
    <2>1. \A a \in Slots : ~Marked(cells[a])
      <3> SUFFICES ASSUME NEW a \in Slots, Marked(cells[a]) PROVE FALSE
        OBVIOUS
      <3>1. cells[a].st \in {"VALID", "ERASED"}
        BY CellFacts DEF Marked
      <3> QED
        BY <3>1, <1>3 DEF Shape, Marked, MarkedState, IsState
    <2>2. StatePages(cells) = {} /\ SectorState(cells) = "STATELESS" /\ StateCount(cells) = 0
      BY <2>1, NoPageIsStateless
    <2> QED
      BY <1>3, <2>1, <2>2
  <1> QED
    BY <1>1, <1>2, <1>3

-----------------------------------------------------------------------------
(* What it concludes from both. *)

Readable(fl) == DFlashStatus(fl) \notin {"EMPTY", "INVALID"}

\* A start-up takes the governing sector as the current one.
LEMMA GoverningSector ==
  ASSUME NEW fl, FlashOk(fl), NEW s \in Sectors, Governs(fl, s)
  PROVE  Readable(fl) /\ ValidSector(fl) = s /\ SectorState(fl[s]) = "VALID"
  <1>1. PICK a \in Slots :
          /\ MarkedState(fl[s][a], "VALID")
          /\ \A p \in Slots : MarkedState(fl[Other(s)][p], "VALID")
                                => fl[Other(s)][p].cnt < fl[s][a].cnt
    BY DEF Governs
  <1>2. \A t \in Sectors : fl[t] \in [Slots -> Cells] /\ Shape(fl[t])
    BY DEF FlashOk
  <1>3. Other(s) \in Sectors /\ Other(s) # s
    BY SlotFacts
  <1>4. SectorState(fl[s]) = "VALID" /\ StateCount(fl[s]) = fl[s][a].cnt
    BY <1>1, <1>2, ValidIsLatest
  <1>5. SectorState(fl[Other(s)]) \in {"VALID", "ERASED", "STATELESS"}
        /\ StateCount(fl[Other(s)]) \in Nat /\ StateCount(fl[s]) \in Nat
        /\ StateCount(fl[s]) > 0
        /\ (SectorState(fl[Other(s)]) = "STATELESS" => StateCount(fl[Other(s)]) = 0)
    BY <1>2, <1>3, <1>4, SectorCases
  <1>6. SectorState(fl[Other(s)]) = "VALID" =>
          StateCount(fl[Other(s)]) < StateCount(fl[s])
    <2> SUFFICES ASSUME SectorState(fl[Other(s)]) = "VALID"
                 PROVE  StateCount(fl[Other(s)]) < StateCount(fl[s])
      OBVIOUS
    <2>1. PICK p \in Slots : MarkedState(fl[Other(s)][p], "VALID")
      BY <1>2, <1>3, SectorCases
    <2>2. StateCount(fl[Other(s)]) = fl[Other(s)][p].cnt
      BY <1>2, <1>3, <2>1, ValidIsLatest
    <2> QED
      BY <1>1, <1>4, <2>1, <2>2
  <1> DEFINE st == [t \in Sectors |-> SectorState(fl[t])]
  <1>7. Sectors = {0, 1} /\ ((s = 0 /\ Other(s) = 1) \/ (s = 1 /\ Other(s) = 0))
    BY <1>3 DEF Sectors
  <1>8. CASE s = 0
    BY <1>4, <1>5, <1>6, <1>7, <1>8 DEF DFlashStatus, ValidSector, Readable
  <1>9. CASE s = 1
    BY <1>4, <1>5, <1>6, <1>7, <1>9 DEF DFlashStatus, ValidSector, Readable
  <1> QED
    BY <1>4, <1>7, <1>8, <1>9

\* A flash it can go on with has a governing sector.
LEMMA ReadableIsGoverned ==
  ASSUME NEW fl, FlashOk(fl), Readable(fl)
  PROVE  ValidSector(fl) \in Sectors /\ Governs(fl, ValidSector(fl))
  <1>1. \A t \in Sectors : fl[t] \in [Slots -> Cells] /\ Shape(fl[t])
    BY DEF FlashOk
  <1>2. Sectors = {0, 1} /\ Other(0) = 1 /\ Other(1) = 0
    BY DEF Sectors, Other
  <1>3. \A t \in Sectors : SectorState(fl[t]) \in {"VALID", "ERASED", "STATELESS"}
                           /\ StateCount(fl[t]) \in Nat
    BY <1>1, SectorCases
  <1>4. ASSUME NEW t \in Sectors, SectorState(fl[t]) = "VALID"
        PROVE  \E a \in Slots : MarkedState(fl[t][a], "VALID")
                                /\ StateCount(fl[t]) = fl[t][a].cnt
    BY <1>1, <1>4, SectorCases, ValidIsLatest
  <1>5. ASSUME NEW t \in Sectors, NEW a \in Slots, MarkedState(fl[t][a], "VALID")
        PROVE  SectorState(fl[t]) = "VALID" /\ StateCount(fl[t]) = fl[t][a].cnt
    BY <1>1, <1>5, ValidIsLatest
  <1>6. SectorState(fl[0]) = "VALID" /\ SectorState(fl[1]) = "VALID"
          => StateCount(fl[0]) # StateCount(fl[1])
    <2> SUFFICES ASSUME SectorState(fl[0]) = "VALID", SectorState(fl[1]) = "VALID"
                 PROVE  StateCount(fl[0]) # StateCount(fl[1])
      OBVIOUS
    <2>1. PICK a \in Slots : MarkedState(fl[0][a], "VALID") /\ StateCount(fl[0]) = fl[0][a].cnt
      BY <1>2, <1>4
    <2>2. PICK p \in Slots : MarkedState(fl[1][p], "VALID") /\ StateCount(fl[1]) = fl[1][p].cnt
      BY <1>2, <1>4
    <2> QED
      BY <2>1, <2>2 DEF FlashOk, NoTie, MarkedState
  <1>7. ASSUME NEW t \in Sectors, SectorState(fl[t]) = "VALID",
               SectorState(fl[Other(t)]) = "VALID" => StateCount(fl[Other(t)]) < StateCount(fl[t])
        PROVE  Governs(fl, t)
    <2>1. PICK a \in Slots : MarkedState(fl[t][a], "VALID") /\ StateCount(fl[t]) = fl[t][a].cnt
      BY <1>4, <1>7
    <2>2. Other(t) \in Sectors
      BY SlotFacts
    <2>3. \A p \in Slots : MarkedState(fl[Other(t)][p], "VALID")
                             => fl[Other(t)][p].cnt < fl[t][a].cnt
      BY <1>5, <1>7, <2>1, <2>2
    <2> QED
      BY <2>1, <2>3 DEF Governs
  <1>8. CASE SectorState(fl[0]) = "VALID" /\ SectorState(fl[1]) # "VALID"
    <2>1. ValidSector(fl) = 0
      <3>1. CASE SectorState(fl[1]) = "ERASED"
        BY <1>2, <1>8, <3>1 DEF ValidSector, DFlashStatus
      <3>2. CASE SectorState(fl[1]) = "STATELESS"
        <4>1. StateCount(fl[0]) > StateCount(fl[1])
          BY <1>1, <1>2, <1>8, <3>2, SectorCases
        <4> QED
          BY <1>2, <1>8, <3>2, <4>1 DEF ValidSector, DFlashStatus
      <3> QED
        BY <1>2, <1>3, <1>8, <3>1, <3>2
    <2> QED
      BY <2>1, <1>2, <1>7, <1>8
  <1>9. CASE SectorState(fl[0]) # "VALID" /\ SectorState(fl[1]) = "VALID"
    <2>1. ValidSector(fl) = 1
      <3>1. CASE SectorState(fl[0]) = "ERASED"
        BY <1>2, <1>9, <3>1 DEF ValidSector, DFlashStatus
      <3>2. CASE SectorState(fl[0]) = "STATELESS"
        <4>1. ~(StateCount(fl[0]) > StateCount(fl[1]))
          BY <1>1, <1>2, <1>9, <3>2, SectorCases
        <4> QED
          BY <1>2, <1>9, <3>2, <4>1 DEF ValidSector, DFlashStatus
      <3> QED
        BY <1>2, <1>3, <1>9, <3>1, <3>2
    <2> QED
      BY <2>1, <1>2, <1>7, <1>9
  <1>10. CASE SectorState(fl[0]) = "VALID" /\ SectorState(fl[1]) = "VALID"
    <2>1. ValidSector(fl) = IF StateCount(fl[0]) > StateCount(fl[1]) THEN 0 ELSE 1
      BY <1>2, <1>10 DEF ValidSector, DFlashStatus
    <2> QED
      BY <2>1, <1>2, <1>3, <1>6, <1>7, <1>10
  <1>11. ~(SectorState(fl[0]) # "VALID" /\ SectorState(fl[1]) # "VALID")
    BY <1>2, <1>3 DEF Readable, DFlashStatus
  <1> QED
    BY <1>8, <1>9, <1>10, <1>11

-----------------------------------------------------------------------------
(* The values it would find. *)

\* The latest copy of a block in a sector.
LEMMA LatestOf ==
  ASSUME NEW cells \in [Slots -> Cells], NEW b \in Blocks
  PROVE  /\ CopiesOf(cells, b) \subseteq Slots
         /\ CopiesOf(cells, b) # {} => LatestIs(cells, b, Max(CopiesOf(cells, b)))
         /\ \A a : LatestIs(cells, b, a) =>
              a = Max(CopiesOf(cells, b)) /\ Latest(cells, b) = cells[a].val
         /\ Latest(cells, b) \in Values \cup {NoValue}
  <1> DEFINE S == CopiesOf(cells, b)
  <1>1. S \in SUBSET Slots /\ Slots \subseteq Nat
    BY SlotFacts DEF CopiesOf
  <1>2. S # {} => Max(S) \in S /\ \A y \in S : y <= Max(S)
    BY <1>1, GreatestElement
  <1>3. ASSUME NEW a, LatestIs(cells, b, a)
        PROVE  a = Max(S) /\ Latest(cells, b) = cells[a].val
    <2>1. a \in S /\ \A p \in S : p <= a
      BY <1>3 DEF LatestIs
    <2>2. a = Max(S)
      <3> HIDE DEF S
      <3>1. Max(S) \in S /\ Max(S) \in Nat /\ a \in Nat /\ a <= Max(S) /\ Max(S) <= a
        BY <1>1, <1>2, <2>1
      <3> QED
        BY <3>1
    <2> QED
      BY <2>1, <2>2 DEF Latest
  <1>4. Latest(cells, b) \in Values \cup {NoValue}
    <2>1. CASE S = {}
      BY <2>1 DEF Latest
    <2>2. CASE S # {}
      <3>1. Max(S) \in Slots /\ cells[Max(S)].kind = "copy"
        BY <1>2, <2>2 DEF CopiesOf
      <3>2. cells[Max(S)] \in Cells
        BY <3>1
      <3> QED
        BY <2>2, <3>1, <3>2, CellFacts DEF Latest
    <2> QED
      BY <2>1, <2>2
  <1> QED
    BY <1>1, <1>2, <1>3, <1>4 DEF LatestIs

\* It finds the latest copies of the governing sector.
LEMMA RecoveredValues ==
  ASSUME NEW fl, FlashOk(fl)
  PROVE  /\ \A s \in Sectors : Governs(fl, s) =>
              Recovered(fl) = [b \in Blocks |-> Latest(fl[s], b)]
         /\ (\A s \in Sectors : ~Governs(fl, s)) =>
              Recovered(fl) = [b \in Blocks |-> NoValue]
         /\ Recovered(fl) \in [Blocks -> Values \cup {NoValue}]
  <1>1. ASSUME NEW s \in Sectors, Governs(fl, s)
        PROVE  /\ Recovered(fl) = [b \in Blocks |-> Latest(fl[s], b)]
               /\ Recovered(fl) \in [Blocks -> Values \cup {NoValue}]
    <2>1. Readable(fl) /\ ValidSector(fl) = s
      BY <1>1, GoverningSector
    <2>2. Recovered(fl) = [b \in Blocks |-> Latest(fl[s], b)]
      BY <2>1 DEF Recovered, Latest, Readable
    <2>3. fl[s] \in [Slots -> Cells]
      BY DEF FlashOk
    <2> QED
      BY <2>2, <2>3, LatestOf
  <1>2. ASSUME \A s \in Sectors : ~Governs(fl, s)
        PROVE  Recovered(fl) = [b \in Blocks |-> NoValue]
    <2>1. ~Readable(fl)
      BY <1>2, ReadableIsGoverned
    <2> QED
      BY <2>1 DEF Recovered, Readable
  <1> QED
    BY <1>1, <1>2

-----------------------------------------------------------------------------
(* What a flash job, ended or cut off, does to the flash. *)

\* What makes a job harmless, wherever it is cut off.
JobSafe(fl, j) ==
  LET cells == fl[j.sector]
      a == j.addr
      c == j.cell
  IN /\ j.sector \in Sectors
     /\ j.op \in {"read", "program", "marker", "erase"}
     /\ j.op # "erase" => a \in Slots
     /\ j.op = "read" => c = cells[a]
     /\ j.op = "program" =>
          /\ c \in Cells /\ cells[a] = Blank
          /\ IsWLBeginning(a) \/ cells[WLBeginning(a)] # Blank
          /\ \/ c.kind = "copy" /\ a >= PerWL
             \/ /\ IsState(c, "VALID") /\ c.mark = "none"
                /\ a >= PerWL /\ IsWLBeginning(a) /\ NoValidIn(cells)
                /\ IsState(cells[0], "ERASED") => cells[0].cnt < c.cnt
                /\ \A p \in Slots : IsState(fl[Other(j.sector)][p], "VALID")
                                      => fl[Other(j.sector)][p].cnt # c.cnt
             \/ IsState(c, "ERASED") /\ c.mark = "none" /\ a = 0 /\ BlankFrom(cells, 0)
     /\ j.op = "marker" => cells[a].kind = "state" /\ c = [cells[a] EXCEPT !.mark = "ok"]

After(fl, s, cells) == [fl EXCEPT ![s] = cells]

\* A read changes nothing, wherever it is cut off.
LEMMA PartialRead ==
  ASSUME NEW j, j.op = "read", NEW cells \in Partial(j)
  PROVE  cells = flash[j.sector]
  BY DEF Partial

\* A copy or page cut off is there, torn, or not there.
LEMMA PartialProgram ==
  ASSUME NEW j, j.op = "program", NEW cells \in Partial(j)
  PROVE  \E c \in {flash[j.sector][j.addr], Torn, j.cell} :
           cells = [flash[j.sector] EXCEPT ![j.addr] = c]
  BY DEF Partial

\* A marker cut off is there, torn, or as it was.
LEMMA PartialMarker ==
  ASSUME NEW j, j.op = "marker", NEW cells \in Partial(j),
         FlashOk(flash), j.sector \in Sectors, j.addr \in Slots,
         flash[j.sector][j.addr].kind = "state"
  PROVE  LET page == flash[j.sector][j.addr]
         IN \E m \in {page.mark, "torn", "ok"} :
              cells = [flash[j.sector] EXCEPT ![j.addr] = StatePage(page.st, page.cnt, m)]
  <1> DEFINE page == flash[j.sector][j.addr]
  <1>1. flash[j.sector] \in [Slots -> Cells] /\ page \in Cells
    BY DEF FlashOk
  <1>2. PICK m \in {page.mark, "torn", "ok"} :
          cells = [flash[j.sector] EXCEPT ![j.addr] = [page EXCEPT !.mark = m]]
    BY <1>1 DEF Partial
  <1>3. [page EXCEPT !.mark = m] = StatePage(page.st, page.cnt, m)
    <2>1. page.kind = "state"
      OBVIOUS
    <2> HIDE DEF page
    <2>2. page = StatePage(page.st, page.cnt, page.mark) /\ [page EXCEPT !.mark = page.mark] = page
      BY <1>1, <2>1, CellFacts
    <2>3. m = page.mark \/ m = "torn" \/ m = "ok"
      OBVIOUS
    <2>4. CASE m = page.mark
      BY <2>2, <2>4, Zenon
    <2> QED
      BY <1>1, <2>1, <2>3, <2>4, CellFacts
  <1> QED
    BY <1>2, <1>3

\* An erasure cut off leaves each cell as it was, torn or blank.
LEMMA PartialErase ==
  ASSUME NEW j, j.op = "erase", NEW cells \in Partial(j),
         FlashOk(flash), j.sector \in Sectors
  PROVE  /\ cells \in [Slots -> Cells]
         /\ \/ \A a \in Slots : cells[a] = Blank
            \/ \A a \in Slots : \/ cells[a] = flash[j.sector][a]
                                \/ cells[a] = Torn /\ flash[j.sector][a] # Blank
  <1>1. flash[j.sector] \in [Slots -> Cells]
    BY DEF FlashOk
  <1> DEFINE Kind(c) == IF c.kind = "state" THEN c.st ELSE c.kind
             Rest(lost) == [a \in Slots |-> IF Kind(flash[j.sector][a]) \in lost
                                            THEN Torn ELSE flash[j.sector][a]]
  <1>2. cells \in {AllBlank} \cup {Rest(lost) : lost \in SUBSET {"copy", "VALID", "ERASED"}}
    BY DEF Partial
  <1>3. CASE cells = AllBlank
    BY <1>3, BuiltCells DEF AllBlank
  <1>4. CASE \E lost \in SUBSET {"copy", "VALID", "ERASED"} : cells = Rest(lost)
    <2>1. PICK lost \in SUBSET {"copy", "VALID", "ERASED"} : cells = Rest(lost)
      BY <1>4
    <2>2. Kind(Blank) \notin lost
      BY BuiltCells
    <2> QED
      BY <1>1, <2>1, <2>2, BuiltCells
  <1> QED
    BY <1>2, <1>3, <1>4

\* A sector keeps its shape.
LEMMA ShapeAfterProgram ==
  ASSUME FlashOk(flash), NEW j, JobSafe(flash, j), j.op = "program", NEW cells \in Partial(j)
  PROVE  cells \in [Slots -> Cells] /\ Shape(cells)
  <1> DEFINE old == flash[j.sector]
             a == j.addr
  <1>1. /\ old \in [Slots -> Cells] /\ Shape(old) /\ a \in Slots /\ old[a] = Blank
        /\ j.cell \in Cells /\ (IsWLBeginning(a) \/ old[WLBeginning(a)] # Blank)
    BY DEF FlashOk, JobSafe
  <1>2. PICK c \in {Blank, Torn, j.cell} : cells = [old EXCEPT ![a] = c]
    BY <1>1, PartialProgram
  <1>3. /\ cells \in [Slots -> Cells] /\ cells[a] = c
        /\ \A p \in Slots : p # a => cells[p] = old[p]
    BY <1>1, <1>2, BuiltCells
  <1>4. CASE c = Blank
    <2>1. cells = old
      BY <1>1, <1>2, <1>4
    <2> QED
      BY <2>1, <1>1
  <1>5. CASE c # Blank
    <2>0. a \in Nat /\ 0 \in Slots /\ PerWL \in Nat \ {0}
          /\ \A p \in Slots : p \in Nat /\ WLBeginning(p) \in Slots
                              /\ (IsWLBeginning(p) <=> WLBeginning(p) = p)
                              /\ IsWLBeginning(WLBeginning(p))
      BY <1>1, SlotFacts, WordlineFacts, WordlineSlots
    <2>1. \A p \in Slots : cells[p] # Blank => cells[WLBeginning(p)] # Blank
      <3> SUFFICES ASSUME NEW p \in Slots, cells[p] # Blank
                   PROVE  cells[WLBeginning(p)] # Blank
        OBVIOUS
      <3>1. CASE WLBeginning(p) = a
        BY <1>3, <1>5, <3>1
      <3>2. CASE WLBeginning(p) # a /\ p = a
        BY <1>1, <1>3, <2>0, <3>2
      <3>3. CASE WLBeginning(p) # a /\ p # a
        BY <1>1, <1>3, <2>0, <3>3 DEF Shape
      <3> QED
        BY <3>1, <3>2, <3>3
    <2>2. CASE c.kind = "torn" \/ (c.kind = "copy" /\ a >= PerWL)
      <3>1. \A p \in Slots : \A st \in {"VALID", "ERASED"} :
              IsState(cells[p], st) => p # a /\ cells[p] = old[p]
        BY <1>3, <2>2 DEF IsState
      <3>2. cells[0].kind = "state" => cells[0] = old[0]
        BY <1>3, <2>0, <2>2
      <3>3. \A p \in Slots : cells[p].kind = "copy" => p >= PerWL
        BY <1>1, <1>3, <2>2 DEF Shape
      <3> QED
        BY <1>1, <1>3, <2>0, <2>1, <3>1, <3>2, <3>3 DEF Shape, IsState
    <2>3. CASE /\ IsState(c, "VALID") /\ a >= PerWL /\ IsWLBeginning(a) /\ NoValidIn(old)
               /\ IsState(old[0], "ERASED") => old[0].cnt < c.cnt
      <3>1. \A p \in Slots : IsState(cells[p], "VALID") => p = a
        BY <1>3, <2>3 DEF NoValidIn
      <3>2. a # 0 /\ cells[0] = old[0]
        BY <1>3, <2>0, <2>3
      <3>3. \A p \in Slots : cells[p].kind = "copy" => p # a
        BY <1>3, <2>3 DEF IsState
      <3>4. \A p \in Slots : IsState(cells[p], "ERASED") => p # a
        BY <1>3, <2>3 DEF IsState
      <3> QED
        BY <1>1, <1>3, <2>0, <2>1, <2>3, <3>1, <3>2, <3>3, <3>4 DEF Shape
    <2>4. CASE IsState(c, "ERASED") /\ a = 0 /\ BlankFrom(old, 0)
      <3>1. \A p \in Slots : p # 0 => cells[p].kind = "blank"
        BY <1>3, <2>0, <2>4, BuiltCells DEF BlankFrom
      <3> QED
        BY <1>3, <2>0, <2>1, <2>4, <3>1 DEF Shape, IsState
    <2>5. c = Torn \/ c = j.cell
      BY <1>2, <1>5
    <2> QED
      BY <2>2, <2>3, <2>4, <2>5, BuiltCells DEF JobSafe
  <1> QED
    BY <1>4, <1>5

\* A marker, wherever it is cut off, keeps the sector's shape.
LEMMA ShapeAfterMarker ==
  ASSUME FlashOk(flash), NEW j, JobSafe(flash, j), j.op = "marker", NEW cells \in Partial(j)
  PROVE  /\ cells \in [Slots -> Cells] /\ Shape(cells)
         /\ \A p \in Slots : p # j.addr => cells[p] = flash[j.sector][p]
         /\ LET old == flash[j.sector][j.addr]
                new == cells[j.addr]
            IN /\ old.kind = "state" /\ new.kind = "state" /\ new.st = old.st /\ new.cnt = old.cnt
               /\ new.mark \in {old.mark, "torn", "ok"}
  <1> DEFINE old == flash[j.sector]
             a == j.addr
  <1>1. /\ old \in [Slots -> Cells] /\ Shape(old) /\ a \in Slots /\ old[a].kind = "state"
        /\ j.sector \in Sectors
    BY DEF FlashOk, JobSafe
  <1>2. PICK m \in {old[a].mark, "torn", "ok"} :
          cells = [old EXCEPT ![a] = StatePage(old[a].st, old[a].cnt, m)]
    BY <1>1, PartialMarker
  <1>3. old[a].st \in {"VALID", "ERASED"} /\ old[a].cnt \in Nat \ {0}
        /\ old[a].mark \in {"none", "torn", "ok"}
    BY <1>1, CellFacts
  <1> DEFINE new == StatePage(old[a].st, old[a].cnt, m)
  <1>4. /\ new \in Cells /\ new.kind = "state" /\ new.st = old[a].st /\ new.cnt = old[a].cnt
        /\ new.mark = m
    BY <1>2, <1>3, BuiltCells
  <1> HIDE DEF new
  <1>5. cells \in [Slots -> Cells] /\ cells[a] = new /\ \A p \in Slots : p # a => cells[p] = old[p]
    BY <1>1, <1>2, <1>4 DEF new
  <1>6. \A p \in Slots : /\ cells[p].kind = old[p].kind
                         /\ old[p].kind = "state" => cells[p].st = old[p].st
                                                     /\ cells[p].cnt = old[p].cnt
                         /\ cells[p] = Blank <=> old[p] = Blank
    <2> TAKE p \in Slots
    <2>1. old[p] \in Cells /\ cells[p] \in Cells
      BY <1>1, <1>5
    <2>2. (cells[p] = Blank <=> cells[p].kind = "blank") /\ (old[p] = Blank <=> old[p].kind = "blank")
      BY <2>1, CellFacts
    <2>3. CASE p = a
      BY <1>1, <1>4, <1>5, <2>2, <2>3
    <2>4. CASE p # a
      BY <1>5, <2>4
    <2> QED
      BY <2>3, <2>4
  <1>7. 0 \in Slots /\ \A p \in Slots : WLBeginning(p) \in Slots
    BY SlotFacts, WordlineSlots
  <1>8. Shape(cells)
    BY <1>1, <1>6, <1>7 DEF Shape, IsState
  <1> QED
    BY <1>1, <1>2, <1>4, <1>5, <1>8

\* So does an erasure.
LEMMA ShapeAfterErase ==
  ASSUME FlashOk(flash), NEW j, JobSafe(flash, j), j.op = "erase", NEW cells \in Partial(j)
  PROVE  /\ cells \in [Slots -> Cells] /\ Shape(cells)
         /\ \A a \in Slots : cells[a].kind = "state" => cells[a] = flash[j.sector][a]
  <1> DEFINE old == flash[j.sector]
  <1>1. old \in [Slots -> Cells] /\ Shape(old) /\ j.sector \in Sectors
    BY DEF FlashOk, JobSafe
  <1>2. /\ cells \in [Slots -> Cells]
        /\ \/ \A a \in Slots : cells[a] = Blank
           \/ \A a \in Slots : cells[a] = old[a] \/ (cells[a] = Torn /\ old[a] # Blank)
    BY <1>1, PartialErase
  <1>3. 0 \in Slots /\ \A p \in Slots : WLBeginning(p) \in Slots
    BY SlotFacts, WordlineSlots
  <1>4. CASE \A a \in Slots : cells[a] = Blank
    <2>1. \A a \in Slots : cells[a].kind = "blank"
      BY <1>4, BuiltCells
    <2> QED
      BY <1>2, <1>3, <1>4, <2>1 DEF Shape, IsState
  <1>5. CASE \A a \in Slots : cells[a] = old[a] \/ (cells[a] = Torn /\ old[a] # Blank)
    <2>1. \A a \in Slots : cells[a].kind \in {"state", "copy"} => cells[a] = old[a]
      BY <1>5, BuiltCells
    <2>2. \A a \in Slots : cells[a] = Blank <=> old[a] = Blank
      BY <1>5, BuiltCells
    <2> QED
      BY <1>1, <1>2, <1>3, <2>1, <2>2 DEF Shape, IsState
  <1> QED
    BY <1>2, <1>4, <1>5

\* A safe job keeps the flash in order, wherever it is cut off.
LEMMA FlashOkAfter ==
  ASSUME FlashOk(flash), NEW j, JobSafe(flash, j), NEW cells \in Partial(j)
  PROVE  FlashOk(After(flash, j.sector, cells))
  <1> DEFINE s == j.sector
             fl == After(flash, s, cells)
  <1>1. /\ s \in Sectors /\ \A t \in Sectors : flash[t] \in [Slots -> Cells] /\ Shape(flash[t])
        /\ flash \in [Sectors -> [Slots -> Cells]] /\ NoTie(flash) /\ PerWL \in Slots
    BY DEF FlashOk, JobSafe
  <1>2. cells \in [Slots -> Cells] /\ Shape(cells)
    <2>1. CASE j.op = "read"
      BY <1>1, <2>1, PartialRead
    <2> QED
      BY <2>1, ShapeAfterProgram, ShapeAfterMarker, ShapeAfterErase DEF JobSafe
  <1>3. fl \in [Sectors -> [Slots -> Cells]] /\ fl[s] = cells
        /\ \A t \in Sectors : t # s => fl[t] = flash[t]
    BY <1>1, <1>2 DEF After
  <1>4. \A a \in Slots : IsState(cells[a], "VALID") =>
          \/ IsState(flash[s][a], "VALID") /\ flash[s][a].cnt = cells[a].cnt
          \/ \A p \in Slots : IsState(flash[Other(s)][p], "VALID")
                                => flash[Other(s)][p].cnt # cells[a].cnt
    <2>1. CASE j.op = "read"
      BY <2>1, PartialRead
    <2>2. CASE j.op = "program"
      <3>1. PICK c \in {Blank, Torn, j.cell} : cells = [flash[s] EXCEPT ![j.addr] = c]
        BY <2>2, PartialProgram DEF JobSafe
      <3>2. c = j.cell /\ IsState(c, "VALID") =>
              \A p \in Slots : IsState(flash[Other(s)][p], "VALID")
                                 => flash[Other(s)][p].cnt # c.cnt
        BY <2>2 DEF JobSafe, IsState
      <3> QED
        BY <1>1, <3>1, <3>2, BuiltCells DEF IsState
    <2>3. CASE j.op = "marker"
      BY <2>3, ShapeAfterMarker DEF IsState
    <2>4. CASE j.op = "erase"
      BY <2>4, ShapeAfterErase DEF IsState
    <2> QED
      BY <2>1, <2>2, <2>3, <2>4 DEF JobSafe
  <1>5. Sectors = {0, 1} /\ Other(0) = 1 /\ Other(1) = 0
    BY DEF Sectors, Other
  <1>6. NoTie(fl)
    <2> SUFFICES ASSUME NEW a \in Slots, NEW p \in Slots,
                        IsState(fl[0][a], "VALID"), IsState(fl[1][p], "VALID")
                 PROVE  fl[0][a].cnt # fl[1][p].cnt
      BY DEF NoTie
    <2>1. CASE s = 0
      BY <1>1, <1>3, <1>4, <1>5, <2>1 DEF NoTie
    <2>2. CASE s = 1
      BY <1>1, <1>3, <1>4, <1>5, <2>2 DEF NoTie
    <2> QED
      BY <1>1, <1>5, <2>1, <2>2
  <1> QED
    BY <1>1, <1>2, <1>3, <1>6 DEF FlashOk

-----------------------------------------------------------------------------
(* Who governs, and which copies there are, after a job. *)

\* A job changes one sector.
LEMMA AfterSectors ==
  ASSUME FlashOk(flash), NEW s \in Sectors, NEW cells
  PROVE  /\ After(flash, s, cells)[s] = cells
         /\ \A t \in Sectors : t # s => After(flash, s, cells)[t] = flash[t]
         /\ After(flash, s, cells)[Other(s)] = flash[Other(s)]
  BY SlotFacts DEF After, FlashOk

\* A sector governs as long as its VALID page stays and the other gets none.
LEMMA GovernsStays ==
  ASSUME NEW fl, NEW new, NEW t \in Sectors, Governs(fl, t),
         \A a \in Slots : MarkedState(fl[t][a], "VALID") =>
           MarkedState(new[t][a], "VALID") /\ new[t][a].cnt = fl[t][a].cnt,
         \A a \in Slots : MarkedState(new[Other(t)][a], "VALID") =>
           MarkedState(fl[Other(t)][a], "VALID")
             /\ new[Other(t)][a].cnt = fl[Other(t)][a].cnt
  PROVE  Governs(new, t)
  BY DEF Governs

\* Which sector governs depends on the marked VALID pages alone.
LEMMA SameMarks ==
  ASSUME NEW fl, NEW new, NEW t \in Sectors,
         \A u \in Sectors : \A a \in Slots :
           /\ MarkedState(fl[u][a], "VALID") <=> MarkedState(new[u][a], "VALID")
           /\ MarkedState(fl[u][a], "VALID") => new[u][a].cnt = fl[u][a].cnt
  PROVE  Governs(fl, t) <=> Governs(new, t)
  <1>1. Other(t) \in Sectors
    BY SlotFacts
  <1>2. Governs(fl, t) => Governs(new, t)
    BY <1>1, GovernsStays
  <1>3. Governs(new, t) => Governs(fl, t)
    BY <1>1, GovernsStays
  <1> QED
    BY <1>2, <1>3

\* Programming a copy or a page without its marker changes no governor.
LEMMA ProgramKeepsGoverning ==
  ASSUME FlashOk(flash), NEW j, JobSafe(flash, j), j.op = "program",
         NEW cells \in Partial(j), NEW t \in Sectors
  PROVE  /\ Governs(flash, t) <=> Governs(After(flash, j.sector, cells), t)
         /\ \A p \in Slots : MarkedState(cells[p], "VALID") = MarkedState(flash[j.sector][p], "VALID")
         /\ \A p \in Slots : Marked(cells[p]) => cells[p] = flash[j.sector][p]
         /\ \A p \in Slots : Marked(flash[j.sector][p]) => cells[p] = flash[j.sector][p]
  <1> DEFINE s == j.sector
             a == j.addr
             new == After(flash, s, cells)
  <1>1. s \in Sectors /\ a \in Slots /\ flash[s] \in [Slots -> Cells] /\ flash[s][a] = Blank
    BY DEF JobSafe, FlashOk
  <1>2. PICK c \in {Blank, Torn, j.cell} : cells = [flash[s] EXCEPT ![a] = c]
    BY <1>1, PartialProgram
  <1>3. ~Marked(c) /\ ~Marked(Blank)
    <2>1. c.kind = "state" => c = j.cell
      BY BuiltCells
    <2> QED
      BY <2>1, BuiltCells DEF Marked, JobSafe
  <1>4. \A p \in Slots : /\ Marked(cells[p]) => cells[p] = flash[s][p]
                         /\ Marked(flash[s][p]) => cells[p] = flash[s][p]
    BY <1>1, <1>2, <1>3
  <1>5. \A p \in Slots : MarkedState(cells[p], "VALID") = MarkedState(flash[s][p], "VALID")
    BY <1>4 DEF Marked, MarkedState, IsState
  <1>6. \A u \in Sectors : \A p \in Slots :
          /\ MarkedState(flash[u][p], "VALID") <=> MarkedState(new[u][p], "VALID")
          /\ MarkedState(flash[u][p], "VALID") => new[u][p].cnt = flash[u][p].cnt
    BY <1>1, <1>4, AfterSectors DEF Marked, MarkedState, IsState
  <1>7. Governs(flash, t) <=> Governs(new, t)
    BY <1>6, SameMarks
  <1> QED
    BY <1>4, <1>5, <1>7

\* Nor does a marker, but for the first one of a VALID page.
LEMMA MarkerKeepsGoverning ==
  ASSUME FlashOk(flash), NEW j, JobSafe(flash, j), j.op = "marker",
         NEW cells \in Partial(j), NEW t \in Sectors,
         Marked(flash[j.sector][j.addr]) \/ IsState(flash[j.sector][j.addr], "ERASED")
           \/ ~Marked(cells[j.addr])
  PROVE  Governs(flash, t) <=> Governs(After(flash, j.sector, cells), t)
  <1> DEFINE s == j.sector
             a == j.addr
             new == After(flash, s, cells)
  <1>1. s \in Sectors /\ a \in Slots /\ flash[s] \in [Slots -> Cells]
    BY DEF JobSafe, FlashOk
  <1>2. /\ \A p \in Slots : p # a => cells[p] = flash[s][p]
        /\ flash[s][a].kind = "state" /\ cells[a].kind = "state"
        /\ cells[a].st = flash[s][a].st /\ cells[a].cnt = flash[s][a].cnt
        /\ cells[a].mark \in {flash[s][a].mark, "torn", "ok"}
    BY ShapeAfterMarker
  <1>3. MarkedState(cells[a], "VALID") <=> MarkedState(flash[s][a], "VALID")
    BY <1>2 DEF Marked, MarkedState, IsState
  <1>4. \A u \in Sectors : \A p \in Slots :
          /\ MarkedState(flash[u][p], "VALID") <=> MarkedState(new[u][p], "VALID")
          /\ MarkedState(flash[u][p], "VALID") => new[u][p].cnt = flash[u][p].cnt
    BY <1>1, <1>2, <1>3, AfterSectors
  <1> QED
    BY <1>4, SameMarks

\* Nor does an erasure of the other sector.
LEMMA EraseKeepsGoverning ==
  ASSUME FlashOk(flash), NEW j, JobSafe(flash, j), j.op = "erase",
         NEW cells \in Partial(j), Governs(flash, Other(j.sector))
  PROVE  Governs(After(flash, j.sector, cells), Other(j.sector))
  <1> DEFINE s == j.sector
             new == After(flash, s, cells)
  <1>1. s \in Sectors /\ Other(s) \in Sectors /\ Other(Other(s)) = s
    BY SlotFacts DEF JobSafe
  <1>2. new[s] = cells /\ new[Other(s)] = flash[Other(s)]
    BY <1>1, AfterSectors
  <1>3. \A a \in Slots : cells[a].kind = "state" => cells[a] = flash[s][a]
    BY ShapeAfterErase
  <1> QED
    BY <1>1, <1>2, <1>3, GovernsStays DEF MarkedState, IsState

\* The marker of a VALID page with the highest count hands its sector over.
LEMMA MarkerHandsOver ==
  ASSUME FlashOk(flash), NEW j, JobSafe(flash, j), j.op = "marker",
         NEW cells \in Partial(j), IsState(flash[j.sector][j.addr], "VALID"),
         Marked(cells[j.addr]),
         \A p \in Slots : MarkedState(flash[Other(j.sector)][p], "VALID")
           => flash[Other(j.sector)][p].cnt < flash[j.sector][j.addr].cnt
  PROVE  Governs(After(flash, j.sector, cells), j.sector)
  <1> DEFINE s == j.sector
             a == j.addr
  <1>1. s \in Sectors /\ a \in Slots
    BY DEF JobSafe
  <1>2. /\ cells[a].kind = "state" /\ cells[a].st = flash[s][a].st
        /\ cells[a].cnt = flash[s][a].cnt
    BY ShapeAfterMarker
  <1> QED
    BY <1>1, <1>2, AfterSectors DEF Governs, Marked, MarkedState, IsState

\* Sectors with the same copies have the same latest values.
LEMMA SameCopies ==
  ASSUME NEW cells \in [Slots -> Cells], NEW new \in [Slots -> Cells], NEW b \in Blocks,
         \A a \in Slots : cells[a].kind = "copy" \/ new[a].kind = "copy" => new[a] = cells[a]
  PROVE  CopiesOf(new, b) = CopiesOf(cells, b) /\ Latest(new, b) = Latest(cells, b)
  <1>1. CopiesOf(new, b) = CopiesOf(cells, b)
    BY DEF CopiesOf
  <1>2. CASE CopiesOf(cells, b) = {}
    BY <1>1, <1>2 DEF Latest
  <1>3. CASE CopiesOf(cells, b) # {}
    <2>1. Max(CopiesOf(cells, b)) \in CopiesOf(cells, b)
      BY <1>3, LatestOf DEF LatestIs
    <2>2. new[Max(CopiesOf(cells, b))] = cells[Max(CopiesOf(cells, b))]
      BY <2>1 DEF CopiesOf
    <2> QED
      BY <1>1, <1>3, <2>2 DEF Latest
  <1> QED
    BY <1>1, <1>2, <1>3

\* A copy behind all others is its block's latest and no other block's.
LEMMA NewCopy ==
  ASSUME NEW cells \in [Slots -> Cells], NEW d \in Slots, BlankFrom(cells, d),
         NEW new \in [Slots -> Cells], new[d].kind = "copy",
         \A p \in Slots : p # d => new[p] = cells[p],
         NEW x \in Blocks
  PROVE  /\ x = new[d].blk => /\ CopiesOf(new, x) = CopiesOf(cells, x) \cup {d}
                              /\ LatestIs(new, x, d) /\ Latest(new, x) = new[d].val
         /\ x # new[d].blk => /\ CopiesOf(new, x) = CopiesOf(cells, x)
                              /\ Latest(new, x) = Latest(cells, x)
  <1> DEFINE c == new[d]
             B == c.blk
  <1>1. /\ new \in [Slots -> Cells] /\ new[d] = c
        /\ \A a \in Slots : a # d => new[a] = cells[a]
    OBVIOUS
  <1>2. c.blk \in Blocks /\ cells[d].kind = "blank" /\ Slots \subseteq Nat
    <2>1. d \in Nat /\ d >= d /\ Slots \subseteq Nat
      BY SlotFacts
    <2>2. cells[d].kind = "blank"
      BY <2>1, BuiltCells DEF BlankFrom
    <2>3. new[d] \in Cells
      OBVIOUS
    <2> QED
      BY <2>1, <2>2, <2>3, CellFacts
  <1>3. CopiesOf(new, B) = CopiesOf(cells, B) \cup {d}
    BY <1>1 DEF CopiesOf
  <1>4. \A p \in CopiesOf(cells, B) : p <= d
    <2> SUFFICES ASSUME NEW p \in CopiesOf(cells, B), ~(p <= d) PROVE FALSE
      OBVIOUS
    <2>1. p \in Slots /\ cells[p].kind = "copy" /\ p >= d
      BY <1>2 DEF CopiesOf
    <2> QED
      BY <2>1, BuiltCells DEF BlankFrom
  <1>5. LatestIs(new, B, d)
    BY <1>2, <1>3, <1>4 DEF LatestIs
  <1>6. Latest(new, B) = c.val
    BY <1>1, <1>2, <1>5, LatestOf
  <1>7. ASSUME NEW b \in Blocks, b # B
        PROVE  CopiesOf(new, b) = CopiesOf(cells, b) /\ Latest(new, b) = Latest(cells, b)
    <2>1. CopiesOf(new, b) = CopiesOf(cells, b)
      BY <1>1, <1>2, <1>7 DEF CopiesOf
    <2>2. CopiesOf(cells, b) = {} => Latest(new, b) = Latest(cells, b)
      BY <2>1 DEF Latest
    <2>3. ASSUME CopiesOf(cells, b) # {} PROVE Latest(new, b) = Latest(cells, b)
      <3>1. Max(CopiesOf(cells, b)) \in CopiesOf(cells, b)
        BY <2>3, LatestOf DEF LatestIs
      <3>2. new[Max(CopiesOf(cells, b))] = cells[Max(CopiesOf(cells, b))]
        BY <1>1, <1>2, <3>1 DEF CopiesOf
      <3> QED
        BY <2>1, <2>3, <3>2 DEF Latest
    <2> QED
      BY <2>1, <2>2, <2>3
  <1> QED
    BY <1>1, <1>3, <1>5, <1>6, <1>7

-----------------------------------------------------------------------------
(* The start-up. *)

\* The greater of the two sectors' counts.
LEMMA GreaterOfTwo ==
  ASSUME NEW f \in [Sectors -> Nat]
  PROVE  /\ Max({f[s] : s \in Sectors}) \in Nat
         /\ \A s \in Sectors : f[s] <= Max({f[t] : t \in Sectors})
  <1> DEFINE S == {f[s] : s \in Sectors}
  <1>1. 0 \in Sectors /\ 1 \in Sectors /\ f[0] \in Nat /\ f[1] \in Nat /\ S = {f[0], f[1]}
    BY DEF Sectors
  <1>2. \E x \in S : \A y \in S : x >= y
    BY <1>1
  <1>3. Max(S) \in S /\ \A y \in S : Max(S) >= y
    BY <1>2 DEF Max
  <1> QED
    BY <1>1, <1>3

\* The last used wordline of a sector: behind it all is blank.
LEMMA UsedFacts ==
  ASSUME NEW fl, FlashOk(fl), NEW s \in Sectors
  PROVE  /\ UsedWLs(fl[s]) = {} => \A a \in Slots : fl[s][a] = Blank
         /\ UsedWLs(fl[s]) # {} =>
              LET w == Max(UsedWLs(fl[s]))
              IN /\ w \in Slots /\ IsWLBeginning(w) /\ fl[s][w] # Blank
                 /\ NextWL(w) = w + PerWL /\ BlankFrom(fl[s], w + PerWL)
                 /\ \A a \in Slots : fl[s][a] # Blank => WLBeginning(a) <= w
  <1> DEFINE cells == fl[s]
             S == UsedWLs(cells)
  <1>1. Shape(cells)
    BY DEF FlashOk
  <1>2. \A a \in Slots : cells[a] # Blank => WLBeginning(a) \in S
    <2> TAKE a \in Slots
    <2>1. WLBeginning(a) \in Slots /\ IsWLBeginning(WLBeginning(a))
      BY WordlineSlots, WordlineFacts, SlotFacts
    <2> QED
      BY <2>1, <1>1 DEF Shape, UsedWLs
  <1>3. ASSUME S # {}
        PROVE  LET w == Max(S)
               IN /\ w \in Slots /\ IsWLBeginning(w) /\ cells[w] # Blank
                  /\ NextWL(w) = w + PerWL /\ BlankFrom(cells, w + PerWL)
                  /\ \A a \in Slots : cells[a] # Blank => WLBeginning(a) <= w
    <2> DEFINE w == Max(S)
    <2>1. S \in SUBSET Slots /\ w \in S /\ \A y \in S : y <= w
      <3>1. S \in SUBSET Slots
        BY DEF UsedWLs
      <3> QED
        BY <1>3, <3>1, GreatestElement
    <2>2. w \in Slots /\ IsWLBeginning(w) /\ cells[w] # Blank
      BY <2>1 DEF UsedWLs
    <2> HIDE DEF w, S
    <2>3. w \in Nat /\ WLBeginning(w) = w /\ NextWL(w) = w + PerWL
      BY <2>2, SlotFacts, WordlineFacts
    <2>4. \A a \in Slots : cells[a] # Blank => WLBeginning(a) <= w
      BY <1>2, <2>1
    <2>5. \A a \in Slots : cells[a] # Blank => a < w + PerWL
      <3> TAKE a \in Slots
      <3>1. a \in Nat /\ a < WLBeginning(a) + PerWL /\ WLBeginning(a) \in Nat /\ PerWL \in Nat
        BY SlotFacts, WordlineFacts
      <3> QED
        BY <2>3, <2>4, <3>1
    <2>6. BlankFrom(cells, w + PerWL)
      <3> SUFFICES ASSUME NEW a \in Slots, a >= w + PerWL, cells[a] # Blank PROVE FALSE
        BY DEF BlankFrom
      <3> QED
        BY <2>3, <2>5, SlotFacts
    <2> QED
      BY <2>2, <2>3, <2>4, <2>6 DEF w
  <1> QED
    BY <1>2, <1>3

\* An ERASED sector that is not used holds its state page alone.
LEMMA BootUnused ==
  ASSUME NEW fl, FlashOk(fl), NEW s \in Sectors,
         SectorState(fl[s]) = "ERASED", ~IsUsed(fl[s])
  PROVE  Unused(fl[s]) /\ UsedWLs(fl[s]) = {0}
  <1> DEFINE cells == fl[s]
             S == UsedWLs(cells)
  <1>1. cells \in [Slots -> Cells] /\ Shape(cells)
    BY DEF FlashOk
  <1>2. MarkedState(cells[0], "ERASED") /\ 0 \in Slots
    BY <1>1, SectorCases, SlotFacts
  <1>3. 0 \in S
    BY <1>2, BuiltCells, WordlineSlots DEF UsedWLs, MarkedState, IsState
  <1>4. Cardinality(S) = 1 /\ S # {}
    BY <1>3 DEF IsUsed
  <1>5. IsFiniteSet(S)
    <2>1. IsFiniteSet(Slots)
      BY FS_Interval, SlotFacts
    <2> QED
      BY <2>1, FS_Subset DEF UsedWLs
  <1>6. S = {0}
    <2> HIDE DEF S
    <2>1. Cardinality(S \ {0}) = 0
      <3>1. 0 \in S /\ IsFiniteSet(S) /\ Cardinality(S) = 1
        BY <1>3, <1>4, <1>5
      <3>2. Cardinality(S \ {0}) = Cardinality(S) - 1
        BY <3>1, FS_RemoveElement
      <3> QED
        BY <3>1, <3>2
    <2>2. IsFiniteSet(S \ {0})
      BY <1>3, <1>5, FS_RemoveElement
    <2>3. S \ {0} = {}
      BY <2>1, <2>2, FS_EmptySet
    <2> QED
      BY <1>3, <2>3
  <1>7. BlankFrom(cells, PerWL)
    <2>1. Max(S) = 0
      <3>1. S # {} /\ S \in SUBSET Slots
        BY <1>4 DEF UsedWLs
      <3> QED
        BY <1>6, <3>1, GreatestElement
    <2>2. BlankFrom(cells, 0 + PerWL)
      BY <1>4, <2>1, UsedFacts
    <2> QED
      BY <2>2, SlotFacts
  <1> QED
    BY <1>2, <1>6, <1>7 DEF Unused

\* What Fee_Init sets has its types and knows every count in the flash.
LEMMA BootTypes ==
  ASSUME NEW fl, FlashOk(fl)
  PROVE  /\ IsFee(Boot(fl)) /\ CountsKnown(fl, Boot(fl))
         /\ Boot(fl).CurrSector = ValidSector(fl)
         /\ Boot(fl).InitGCState \in {"EMPTY", "INVALID", "DIRTY", "NORMAL"}
  <1> DEFINE f == Boot(fl)
  <1>1. \A s \in Sectors : fl[s] \in [Slots -> Cells] /\ Shape(fl[s])
    BY DEF FlashOk
  <1>2. ValidSector(fl) \in Sectors
    BY SlotFacts DEF ValidSector
  <1>3. f.StateCount \in Nat /\ \A s \in Sectors : StateCount(fl[s]) <= f.StateCount
    <2> DEFINE g == [s \in Sectors |-> StateCount(fl[s])]
    <2>1. g \in [Sectors -> Nat]
      BY <1>1, SectorCases
    <2>2. f.StateCount = Max({g[s] : s \in Sectors})
      BY DEF Boot
    <2> QED
      BY <2>1, <2>2, GreaterOfTwo
  <1>4. CountsKnown(fl, f)
    <2> SUFFICES ASSUME NEW s \in Sectors, NEW a \in Slots, Marked(fl[s][a])
                 PROVE  fl[s][a].cnt <= f.StateCount
      BY DEF CountsKnown
    <2>1. fl[s][a].cnt <= StateCount(fl[s]) /\ StateCount(fl[s]) \in Nat
      BY <1>1, SectorCases
    <2>2. fl[s][a].cnt \in Nat
      BY <1>1, CellFacts DEF Marked
    <2> HIDE DEF f
    <2> QED
      BY <1>3, <2>1, <2>2
  <1>5. f.StatePageAddr \in [Sectors -> Nat]
    <2>1. \A s \in Sectors : StatePages(fl[s]) # {} => LatestPage(fl[s]) \in Nat
      BY <1>1, SectorCases, SlotFacts
    <2> QED
      BY <2>1 DEF Boot
  <1>6. f.NextFreeWL \in [Sectors -> Nat]
    <2>1. \A s \in Sectors : UsedWLs(fl[s]) # {} => NextWL(Max(UsedWLs(fl[s]))) \in Nat
      BY UsedFacts, WordlineFacts, SlotFacts
    <2> QED
      BY <2>1 DEF Boot
  <1>7. f.Dirty \in [Sectors -> BOOLEAN]
    BY DEF Boot
  <1>8. f.Cache \in [Blocks -> Addresses \cup {NoAddr}] /\ f.Copied \in [Blocks -> BOOLEAN]
    BY DEF Boot
  <1>9. f.InitGCState \in {"EMPTY", "INVALID", "DIRTY", "NORMAL"}
    BY DEF Boot
  <1>10. f.GcResumeState \in {"ERASE", "DATA_COPY", "NORMAL"}
    BY DEF Boot
  <1>11. f.CurrSector = ValidSector(fl)
    BY DEF Boot
  <1>12. DOMAIN f = Fields
    BY DEF Boot, Fields
  <1>13. /\ f.MainJob = "INITGC" /\ f.PrepStep = 1 /\ f.PrepDest = 0
         /\ f.CacheUpdated = FALSE /\ f.NextFreePage = 0 /\ f.GcState = "IDLE"
         /\ f.GcInit = FALSE /\ f.GcDest = 0 /\ f.GcCopyIndex = 0 /\ f.BlkModified = FALSE
         /\ f.Req = NoReq /\ f.IntrJob = "IDLE" /\ f.UserJob = "IDLE"
         /\ f.IntrJobFailCount = 0 /\ f.UserJobFailCount = 0 /\ f.RepairStep = "MARKER"
    BY DEF Boot
  <1> HIDE DEF f
  <1>14. IsFee(f)
    <2>1. /\ f.MainJob \in {"INITGC", "CACHEUPDATE", "READ", "WRITE", "GC", "NONE"}
          /\ f.GcState \in {"IDLE", "REQUESTED", "START_COPY", "COPY_WRITE", "V_SP", "V_M",
                            "ERASE", "E_SP", "E_M", "FAIL"}
          /\ f.PrepStep \in Nat /\ f.PrepDest \in Nat /\ f.NextFreePage \in Nat
          /\ f.GcDest \in Nat /\ f.GcCopyIndex \in Nat
      BY <1>13
    <2>2. f.CacheUpdated \in BOOLEAN /\ f.GcInit \in BOOLEAN /\ f.BlkModified \in BOOLEAN
      BY <1>13, Zenon
    <2> QED
      BY <2>1, <2>2, <1>2, <1>3, <1>5, <1>6, <1>7, <1>8, <1>9, <1>10, <1>11, <1>12, <1>13 DEF IsFee
  <1> QED
    BY <1>4, <1>9, <1>11, <1>14 DEF f

\* A start-up that goes on has found the governing sector and its free end.
LEMMA BootGoverned ==
  ASSUME NEW fl, FlashOk(fl), Boot(fl).InitGCState \in {"DIRTY", "NORMAL"}
  PROVE  LET f == Boot(fl)
         IN /\ Governs(fl, Cur(f))
            /\ f.GcResumeState = "NORMAL" =>
                 Unused(fl[Oth(f)]) /\ f.NextFreeWL[Oth(f)] = PerWL
            /\ Ready(fl[Cur(f)], f.NextFreeWL[Cur(f)])
            /\ \A s \in Sectors : f.Dirty[s] => /\ f.StatePageAddr[s] \in Slots
                                                /\ Marked(fl[s][f.StatePageAddr[s]])
            /\ f.InitGCState = "DIRTY" => \E s \in Sectors : f.Dirty[s]
  <1> DEFINE f == Boot(fl)
             c == ValidSector(fl)
  <1>1. \A s \in Sectors : fl[s] \in [Slots -> Cells] /\ Shape(fl[s])
    BY DEF FlashOk
  <1>2. Readable(fl)
    <2>1. f.InitGCState = IF DFlashStatus(fl) \in {"EMPTY", "INVALID"} THEN DFlashStatus(fl)
                          ELSE f.InitGCState
      BY DEF Boot
    <2> HIDE DEF f
    <2> QED
      BY <2>1 DEF Readable, f
  <1>3. c \in Sectors /\ Governs(fl, c) /\ f.CurrSector = c
    BY <1>2, ReadableIsGoverned, BootTypes
  <1>4. Other(c) \in Sectors /\ Other(c) # c
    BY <1>3, SlotFacts
  <1>5. SectorState(fl[c]) = "VALID"
    BY <1>3, GoverningSector
  <1>6. ASSUME f.GcResumeState = "NORMAL"
        PROVE  Unused(fl[Other(c)]) /\ f.NextFreeWL[Other(c)] = PerWL
    <2>1. DFlashStatus(fl) # "S0_S1_VALID" /\ ~IsUsed(fl[Other(c)])
      BY <1>6 DEF Boot
    <2>2. SectorState(fl[Other(c)]) = "ERASED"
      <3>1. SectorState(fl[Other(c)]) \in {"VALID", "ERASED", "STATELESS"}
        BY <1>1, <1>4, SectorCases
      <3>2. (c = 0 /\ Other(c) = 1) \/ (c = 1 /\ Other(c) = 0)
        BY <1>3, <1>4 DEF Sectors
      <3>3. CASE c = 0
        BY <1>5, <2>1, <3>1, <3>2, <3>3, SlotFacts DEF DFlashStatus
      <3>4. CASE c = 1
        BY <1>5, <2>1, <3>1, <3>2, <3>4, SlotFacts DEF DFlashStatus
      <3> QED
        BY <3>2, <3>3, <3>4
    <2>3. Unused(fl[Other(c)]) /\ UsedWLs(fl[Other(c)]) = {0}
      BY <1>4, <2>1, <2>2, BootUnused
    <2>4. f.NextFreeWL[Other(c)] = NextWL(Max({0}))
      BY <1>4, <2>3 DEF Boot
    <2>5. Max({0}) = 0
      BY SlotFacts, GreatestElement
    <2> QED
      BY <2>3, <2>4, <2>5, WordlineSlots
  <1>7. Ready(fl[c], f.NextFreeWL[c])
    <2>1. PICK v \in Slots : MarkedState(fl[c][v], "VALID")
      BY <1>3 DEF Governs
    <2>2. v >= PerWL /\ IsWLBeginning(v) /\ v \in Nat /\ WLBeginning(v) = v
      BY <1>1, <1>3, <2>1, SlotFacts, WordlineFacts DEF Shape, MarkedState
    <2>3. fl[c][v] # Blank
      BY <2>1, BuiltCells DEF MarkedState, IsState
    <2> DEFINE w == Max(UsedWLs(fl[c]))
    <2>4. UsedWLs(fl[c]) # {}
      BY <1>3, <2>3, UsedFacts
    <2>5. /\ w \in Slots /\ IsWLBeginning(w) /\ fl[c][w] # Blank
          /\ NextWL(w) = w + PerWL /\ BlankFrom(fl[c], w + PerWL) /\ v <= w
      BY <1>3, <2>2, <2>3, <2>4, UsedFacts
    <2>6. f.NextFreeWL[c] = w + PerWL
      BY <1>3, <2>4, <2>5 DEF Boot
    <2> HIDE DEF w
    <2>7. w >= PerWL
      BY <2>2, <2>5, SlotFacts
    <2> QED
      BY <2>5, <2>6, <2>7 DEF Ready
  <1>8. ASSUME NEW s \in Sectors, f.Dirty[s]
        PROVE  f.StatePageAddr[s] \in Slots /\ Marked(fl[s][f.StatePageAddr[s]])
    <2>1. StatePages(fl[s]) # {}
      BY <1>8 DEF Boot
    <2>2. f.StatePageAddr[s] = LatestPage(fl[s])
      BY <2>1 DEF Boot
    <2> QED
      BY <1>1, <2>1, <2>2, SectorCases
  <1>9. f.InitGCState = "DIRTY" => \E s \in Sectors : f.Dirty[s]
    <2> SUFFICES ASSUME f.InitGCState = "DIRTY" PROVE \E s \in Sectors : f.Dirty[s]
      OBVIOUS
    <2>1. TRUE \in {f.Dirty[s] : s \in Sectors}
      BY <1>2 DEF Boot, Readable
    <2> QED
      BY <2>1
  <1> HIDE DEF f
  <1> QED
    BY <1>3, <1>6, <1>7, <1>8, <1>9 DEF f, Cur, Oth

\* A start-up that prepares the flash has found it blank.
LEMMA BootEmpty ==
  ASSUME NEW fl, FlashOk(fl), Boot(fl).InitGCState = "EMPTY"
  PROVE  Boot(fl).CurrSector = 0 /\ \A s \in Sectors, a \in Slots : fl[s][a] = Blank
  <1>1. DFlashStatus(fl) = "EMPTY"
    BY DEF Boot
  <1>2. ValidSector(fl) = 0
    BY <1>1 DEF ValidSector
  <1>3. \A s \in Sectors : ~IsUsed(fl[s]) /\ SectorState(fl[s]) = "STATELESS"
    BY <1>1 DEF DFlashStatus, Sectors
  <1>4. \A s \in Sectors : UsedWLs(fl[s]) = {}
    BY <1>3 DEF IsUsed
  <1> QED
    BY <1>2, <1>4, BootTypes, UsedFacts

\* After a reset the invariant holds again, whatever the flash in order holds.
LEMMA BootInv ==
  ASSUME NEW fl, FlashOk(fl)
  PROVE  Inv(fl, Boot(fl), NoJob)
  <1> DEFINE f == Boot(fl)
  <1>1. /\ IsFee(f) /\ CountsKnown(fl, f)
        /\ f.InitGCState \in {"EMPTY", "INVALID", "DIRTY", "NORMAL"}
    BY BootTypes
  <1>2. /\ f.MainJob = "INITGC" /\ f.PrepStep = 1 /\ f.PrepDest = 0
        /\ f.CacheUpdated = FALSE /\ f.GcState = "IDLE" /\ f.GcDest = 0
        /\ f.Req = NoReq /\ f.IntrJob = "IDLE" /\ f.UserJob = "IDLE"
    BY DEF Boot
  <1>3. f.InitGCState \in {"DIRTY", "NORMAL"} =>
            /\ Governs(fl, Cur(f))
            /\ f.GcResumeState = "NORMAL" =>
                 Unused(fl[Oth(f)]) /\ f.NextFreeWL[Oth(f)] = PerWL
            /\ Ready(fl[Cur(f)], f.NextFreeWL[Cur(f)])
            /\ \A s \in Sectors : f.Dirty[s] => /\ f.StatePageAddr[s] \in Slots
                                                /\ Marked(fl[s][f.StatePageAddr[s]])
            /\ f.InitGCState = "DIRTY" => \E s \in Sectors : f.Dirty[s]
    BY BootGoverned
  <1>4. f.InitGCState = "EMPTY" =>
          f.CurrSector = 0 /\ \A s \in Sectors, a \in Slots : fl[s][a] = Blank
    BY BootEmpty
  <1> HIDE DEF f
  <1>5. UserInv(fl, f, NoJob) /\ MainInv(f, NoJob)
    BY <1>1, <1>2 DEF UserInv, MainInv, Stage, IntrRuns
  <1>6. PrepInv(fl, f, NoJob)
    <2> SUFFICES ASSUME f.InitGCState = "EMPTY" PROVE PrepInv(fl, f, NoJob)
      BY <1>1 DEF PrepInv
    <2>1. \A s \in Sectors, a \in Slots : fl[s][a] = Blank /\ fl[s][a].kind # "state"
      BY <1>4, BuiltCells
    <2>2. PrepFlash(fl, 1)
      <3>1. PerWL \in Slots /\ 0 \in Slots /\ 0 \in Sectors /\ 1 \in Sectors
        BY SlotFacts DEF FlashOk
      <3> QED
        BY <2>1, <3>1 DEF PrepFlash
    <2> QED
      BY <1>2, <1>4, <2>1, <2>2 DEF PrepInv, Cur, PrepAddr, Quiet, IntrRuns
  <1>7. StartInv(fl, f, NoJob)
    BY <1>1, <1>2, <1>3 DEF StartInv, Quiet, IntrRuns
  <1>8. GcInv(fl, f, NoJob) /\ CacheInv(fl, f, NoJob)
    BY <1>1, <1>2 DEF GcInv, CacheInv
  <1> QED
    BY <1>1, <1>5, <1>6, <1>7, <1>8 DEF Inv, f

-----------------------------------------------------------------------------
(* Every job that runs is harmless. *)

\* The jobs of a state the invariant allows: the user's copy, a read, a step of
\* the preparation, of the repair or of the collection.
LEMMA JobForms ==
  ASSUME NEW fl, NEW f, NEW j, Inv(fl, f, j), j # NoJob
  PROVE  \/ /\ ~IntrRuns(j) /\ Stage(f, "compare") /\ f.CacheUpdated /\ f.UserJob = "IDLE"
            /\ Programs(j, "user", Cur(f), f.NextFreePage, BlockCopy(f.Req.blk, f.Req.val))
            /\ Frontier(fl[Cur(f)], f.NextFreePage) /\ f.NextFreePage \in Slots
         \/ /\ ~IntrRuns(j) /\ Stage(f, "reading") /\ f.CacheUpdated
            /\ f.Cache[f.Req.blk] # NoAddr /\ Reads(fl, j, f.Cache[f.Req.blk])
         \/ IntrRuns(j) /\ f.InitGCState = "PREPARE" /\ f.IntrJob = "IDLE" /\ ~f.CacheUpdated
         \/ IntrRuns(j) /\ f.InitGCState = "DIRTY" /\ f.IntrJob = "IDLE" /\ ~f.CacheUpdated
         \/ /\ IntrRuns(j) /\ f.InitGCState = "COMPLETE" /\ f.GcState \in Busy
            /\ f.IntrJob = "IDLE" /\ GcRunning(fl, f, j)
  <1>1. UserInv(fl, f, j) /\ MainInv(f, j) /\ StartInv(fl, f, j) /\ GcInv(fl, f, j)
        /\ PrepInv(fl, f, j) /\ IsFee(f)
    BY DEF Inv
  <1>2. CASE IntrRuns(j)
    <2>1. f.IntrJob = "IDLE"
      BY <1>1, <1>2 DEF MainInv
    <2>2. ~Quiet(f, j) /\ ~Over(f, j)
      BY <1>2 DEF Quiet, Over
    <2>3. f.InitGCState \in {"EMPTY", "INVALID", "DIRTY", "NORMAL", "PREPARE", "COMPLETE", "FAIL"}
      BY <1>1 DEF IsFee
    <2>4. f.InitGCState \notin {"INVALID", "NORMAL", "FAIL"}
      BY <1>1, <2>2 DEF StartInv
    <2>5. f.InitGCState # "EMPTY"
      BY <1>1, <2>2 DEF PrepInv
    <2>6. f.InitGCState # "COMPLETE" => ~f.CacheUpdated
      BY <1>1 DEF MainInv
    <2>7. f.InitGCState = "COMPLETE" => f.GcState \in Busy /\ GcRunning(fl, f, j)
      BY <1>1, <2>2 DEF GcInv
    <2> QED
      BY <1>2, <2>1, <2>3, <2>4, <2>5, <2>6, <2>7
  <1>3. CASE ~IntrRuns(j)
    BY <1>1, <1>3 DEF UserInv
  <1> QED
    BY <1>2, <1>3

\* The user's copy goes to the blank end of the current sector.
LEMMA UserJobSafe ==
  ASSUME NEW fl, FlashOk(fl), NEW f, IsFee(f), NEW j, Stage(f, "compare"),
         Programs(j, "user", Cur(f), f.NextFreePage, BlockCopy(f.Req.blk, f.Req.val)),
         Frontier(fl[Cur(f)], f.NextFreePage), f.NextFreePage \in Slots
  PROVE  JobSafe(fl, j)
  <1>1. f.Req \in Requests /\ Cur(f) \in Sectors
    BY DEF IsFee, Stage, Cur
  <1>2. BlockCopy(f.Req.blk, f.Req.val) \in Cells
        /\ BlockCopy(f.Req.blk, f.Req.val).kind = "copy"
    <2>1. f.Req.blk \in Blocks /\ f.Req.val \in Values \cup {NoValue}
      BY <1>1, RequestFacts
    <2> QED
      BY <2>1, BuiltCells
  <1>3. f.NextFreePage >= f.NextFreePage
    BY SlotFacts
  <1> QED
    BY <1>1, <1>2, <1>3 DEF JobSafe, Programs, IsJob, Frontier, BlankFrom

\* A read is safe.
LEMMA ReadSafe ==
  ASSUME NEW fl, NEW f, IsFee(f), NEW j, Stage(f, "reading"),
         f.Cache[f.Req.blk] # NoAddr, Reads(fl, j, f.Cache[f.Req.blk])
  PROVE  JobSafe(fl, j) /\ j.op = "read"
  <1>1. f.Req \in Requests /\ f.Req.blk \in Blocks
    BY RequestFacts DEF IsFee, Stage
  <1>2. f.Cache[f.Req.blk] \in Addresses
    BY <1>1 DEF IsFee
  <1> QED
    BY <1>2, AddressFacts DEF JobSafe, Reads, IsJob

\* The facts of a step of the preparation, with the step's number.
LEMMA PrepSteps ==
  /\ PrepSector[1] = 0 /\ PrepSector[2] = 0 /\ PrepSector[3] = 0 /\ PrepSector[4] = 0
  /\ PrepSector[5] = 1 /\ PrepSector[6] = 1
  /\ PrepState[1] = "ERASED" /\ PrepState[2] = "ERASED" /\ PrepState[3] = "VALID"
  /\ PrepState[4] = "VALID" /\ PrepState[5] = "ERASED" /\ PrepState[6] = "ERASED"
  /\ PrepAddr(1) = 0 /\ PrepAddr(2) = 0 /\ PrepAddr(3) = PerWL /\ PrepAddr(4) = PerWL
  /\ PrepAddr(5) = 0 /\ PrepAddr(6) = 0
  /\ 1 % 2 = 1 /\ 2 % 2 = 0 /\ 3 % 2 = 1 /\ 4 % 2 = 0 /\ 5 % 2 = 1 /\ 6 % 2 = 0
  /\ \A k \in 1 .. 6 : k = 1 \/ k = 2 \/ k = 3 \/ k = 4 \/ k = 5 \/ k = 6
  BY DEF PrepSector, PrepState, PrepAddr

\* So is each job of the preparation.
LEMMA PrepJobSafe ==
  ASSUME NEW fl, FlashOk(fl), NEW f, IsFee(f), NEW j, PrepInv(fl, f, j),
         f.InitGCState = "PREPARE", IntrRuns(j), f.IntrJob = "IDLE"
  PROVE  /\ JobSafe(fl, j)
         /\ j.sector = PrepSector[f.PrepStep] /\ j.addr = PrepAddr(f.PrepStep)
         /\ j.op = IF f.PrepStep % 2 = 1 THEN "program" ELSE "marker"
         /\ f.PrepStep % 2 = 1 =>
              j.cell = StatePage(PrepState[f.PrepStep], f.StateCount, "none")
  <1> DEFINE k == f.PrepStep
             s == PrepSector[k]
             n == f.StateCount
  <1>1. /\ k \in 1 .. 6 /\ PrepFlash(fl, k) /\ n > 0 /\ n \in Nat
        /\ IF k % 2 = 1 THEN Programs(j, "intr", s, PrepAddr(k), StatePage(PrepState[k], n, "none"))
                        ELSE Marks(fl, j, s, PrepAddr(k))
        /\ \A t \in Sectors : \A a \in Slots :
             fl[t][a].kind = "state" => fl[t][a].cnt <= n /\ (k % 2 = 1 => fl[t][a].cnt < n)
    BY DEF PrepInv, IsFee
  <1>2. /\ 0 \in Sectors /\ 1 \in Sectors /\ Other(0) = 1 /\ Other(1) = 0
        /\ 0 \in Slots /\ PerWL \in Slots /\ Slots \subseteq Nat /\ PerWL # 0
        /\ IsWLBeginning(0) /\ IsWLBeginning(PerWL) /\ PerWL >= PerWL
    BY SlotFacts, WordlineSlots DEF FlashOk, Sectors, Other
  <1>3. \A st \in {"VALID", "ERASED"} :
          /\ StatePage(st, n, "none") \in Cells /\ IsState(StatePage(st, n, "none"), st)
          /\ StatePage(st, n, "none").mark = "none" /\ StatePage(st, n, "none").cnt = n
    BY <1>1, BuiltCells DEF IsState
  <1> HIDE DEF k, n
  <1>4. CASE k = 1 \/ k = 5
    <2>1. BlankFrom(fl[s], 0)
      BY <1>1, <1>2, <1>4, PrepSteps DEF PrepFlash, BlankFrom
    <2>2. fl[s][0] = Blank
      BY <1>2, <2>1 DEF BlankFrom
    <2>3. Programs(j, "intr", s, 0, StatePage("ERASED", n, "none")) /\ s \in Sectors
      BY <1>1, <1>2, <1>4, PrepSteps
    <2> QED
      BY <1>2, <1>3, <1>4, <2>1, <2>2, <2>3, PrepSteps DEF JobSafe, Programs, IsJob, k, n
  <1>5. CASE k = 3
    <2>1. Programs(j, "intr", 0, PerWL, StatePage("VALID", n, "none"))
      BY <1>1, <1>5, PrepSteps
    <2>2. /\ fl[0][PerWL] = Blank /\ IsState(fl[0][0], "ERASED") /\ fl[0][0].cnt < n
          /\ \A a \in Slots : a # 0 => fl[0][a].kind = "blank"
          /\ \A a \in Slots : fl[1][a].kind = "blank"
      BY <1>1, <1>2, <1>5, PrepSteps, BuiltCells DEF PrepFlash, IsState
    <2>3. NoValidIn(fl[0])
      BY <2>2 DEF NoValidIn, IsState
    <2> QED
      BY <1>2, <1>3, <1>5, <2>1, <2>2, <2>3, PrepSteps
         DEF JobSafe, Programs, IsJob, IsState, k, n
  <1>6. CASE k = 2 \/ k = 4 \/ k = 6
    <2>1. Marks(fl, j, s, PrepAddr(k))
      BY <1>1, <1>6, PrepSteps
    <2>2. fl[s][PrepAddr(k)].kind = "state" /\ PrepAddr(k) \in Slots /\ s \in Sectors
      BY <1>1, <1>2, <1>6, PrepSteps DEF PrepFlash, IsState
    <2> QED
      BY <1>6, <2>1, <2>2, PrepSteps DEF JobSafe, Marks, IsJob, k
  <1> QED
    BY <1>1, <1>4, <1>5, <1>6, PrepSteps

\* So is the repair of a marker.
LEMMA RepairSafe ==
  ASSUME NEW fl, FlashOk(fl), NEW f, IsFee(f), NEW j, StartInv(fl, f, j),
         f.InitGCState = "DIRTY", IntrRuns(j)
  PROVE  LET s == DirtySector(f)
         IN /\ JobSafe(fl, j) /\ j.op = "marker" /\ j.sector = s /\ s \in Sectors
            /\ f.Dirty[s] /\ j.addr = f.StatePageAddr[s] /\ j.addr \in Slots
            /\ Marked(fl[s][j.addr])
  <1> DEFINE s == DirtySector(f)
  <1>1. s \in Sectors /\ f.Dirty[s]
    BY SlotFacts DEF StartInv, DirtySector, IsFee, Sectors, Other
  <1>2. Marks(fl, j, s, f.StatePageAddr[s]) /\ f.StatePageAddr[s] \in Slots
        /\ Marked(fl[s][f.StatePageAddr[s]])
    BY <1>1 DEF StartInv
  <1> HIDE DEF s
  <1>3. JobSafe(fl, j) /\ j.op = "marker" /\ j.sector = s /\ j.addr = f.StatePageAddr[s]
    BY <1>1, <1>2 DEF JobSafe, Marks, IsJob, Marked
  <1> QED
    BY <1>1, <1>2, <1>3 DEF s

\* What governs has the only VALID page of its sector, with a known count.
LEMMA GoverningPage ==
  ASSUME NEW fl, FlashOk(fl), NEW f, CountsKnown(fl, f), NEW s \in Sectors, Governs(fl, s)
  PROVE  /\ \A p \in Slots : IsState(fl[s][p], "VALID") => Marked(fl[s][p])
         /\ \E p \in Slots : MarkedState(fl[s][p], "VALID") /\ fl[s][p].cnt \in Nat \ {0}
                             /\ fl[s][p].cnt <= f.StateCount
  <1>1. PICK a \in Slots : MarkedState(fl[s][a], "VALID")
    BY DEF Governs
  <1>2. fl[s] \in [Slots -> Cells] /\ Shape(fl[s])
    BY DEF FlashOk
  <1>3. fl[s][a].cnt \in Nat \ {0} /\ Marked(fl[s][a])
    BY <1>1, <1>2, CellFacts DEF MarkedState, IsState, Marked
  <1> QED
    BY <1>1, <1>2, <1>3 DEF CountsKnown, Shape, MarkedState

\* A start-up that ended has seen a state page.
LEMMA CountPositive ==
  ASSUME NEW fl, NEW f, NEW j, Inv(fl, f, j), f.InitGCState = "COMPLETE"
  PROVE  f.StateCount \in Nat \ {0}
  <1> DEFINE s == IF f.GcState = "V_M" /\ f.IntrJob = "PASS" THEN Oth(f) ELSE Cur(f)
  <1>1. FlashOk(fl) /\ CountsKnown(fl, f) /\ Governs(fl, s) /\ f.StateCount \in Nat
    BY DEF Inv, GcInv, IsFee
  <1>2. s \in Sectors
    BY SlotFacts DEF Inv, IsFee, Cur, Oth
  <1> HIDE DEF s
  <1>3. PICK p \in Slots : fl[s][p].cnt \in Nat \ {0} /\ fl[s][p].cnt <= f.StateCount
    BY <1>1, <1>2, GoverningPage
  <1> QED
    BY <1>1, <1>3

\* The copy a collection moves.
LEMMA GcCopyCell ==
  ASSUME NEW fl, NEW f, NEW j, Inv(fl, f, j), f.InitGCState = "COMPLETE",
         f.GcState = "COPY_WRITE"
  PROVE  LET c == GcCell(fl, f)
             b == f.GcCopyIndex
         IN /\ c \in Cells /\ c.kind = "copy" /\ c.blk = b /\ b \in Blocks
            /\ f.CacheUpdated /\ Ack(fl, f, j) = fl[Cur(f)]
            /\ LatestIs(fl[Cur(f)], b, f.Cache[b].slot) /\ f.Cache[b].slot \in Slots
            /\ Latest(fl[Cur(f)], b) = c.val
  <1> DEFINE b == f.GcCopyIndex
  <1>1. /\ FlashOk(fl) /\ IsFee(f) /\ b \in Blocks /\ f.Cache[b] # NoAddr
        /\ f.Cache[b].sector = Cur(f) /\ f.MainJob = "GC" /\ f.CacheUpdated
    BY DEF Inv, GcInv, MainInv
  <1>2. Cur(f) \in Sectors /\ Oth(f) # Cur(f)
    BY <1>1, SlotFacts DEF IsFee, Cur, Oth
  <1>3. ~Landed(f, j)
    BY <1>1 DEF Inv, UserInv, Landed
  <1>4. Ack(fl, f, j) = fl[Cur(f)]
    BY <1>3 DEF Ack
  <1>5. ~Moved(f, b) /\ CacheOk(fl, f, fl[Cur(f)], b)
    BY <1>1, <1>2, <1>4 DEF Inv, CacheInv, Moved
  <1>6. LatestIs(fl[Cur(f)], b, f.Cache[b].slot)
    BY <1>1, <1>5 DEF CacheOk
  <1>7. /\ f.Cache[b].slot \in Slots /\ fl[Cur(f)][f.Cache[b].slot].kind = "copy"
        /\ fl[Cur(f)][f.Cache[b].slot].blk = b
    BY <1>6 DEF LatestIs, CopiesOf
  <1>8. fl[Cur(f)] \in [Slots -> Cells]
    BY <1>1, <1>2 DEF FlashOk
  <1>9. Latest(fl[Cur(f)], b) = fl[Cur(f)][f.Cache[b].slot].val
    BY <1>1, <1>6, <1>8, LatestOf
  <1>10. GcCell(fl, f) = fl[Cur(f)][f.Cache[b].slot]
    BY DEF GcCell
  <1> QED
    BY <1>1, <1>4, <1>6, <1>7, <1>8, <1>9, <1>10

\* So is each job of a collection.
LEMMA GcJobSafe ==
  ASSUME NEW fl, NEW f, NEW j, Inv(fl, f, j), f.InitGCState = "COMPLETE",
         f.GcState \in Busy, IntrRuns(j), f.IntrJob = "IDLE", GcRunning(fl, f, j)
  PROVE  /\ JobSafe(fl, j) /\ j.sector = Oth(f)
         /\ j.op = CASE f.GcState \in {"COPY_WRITE", "V_SP", "E_SP"} -> "program"
                     [] f.GcState = "ERASE" -> "erase"
                     [] OTHER -> "marker"
         /\ j.op # "erase" => j.addr = f.GcDest
         /\ j.op = "program" => j.cell = GcCell(fl, f)
  <1> DEFINE c == Cur(f)
             o == Oth(f)
             d == f.GcDest
             n == f.StateCount
  <1>1. /\ FlashOk(fl) /\ IsFee(f) /\ CountsKnown(fl, f) /\ GcInv(fl, f, j)
        /\ Governs(fl, c)
    BY DEF Inv, GcInv
  <1>2. c \in Sectors /\ o \in Sectors /\ o # c /\ Other(o) = c /\ d \in Nat
    BY <1>1, SlotFacts DEF IsFee, Cur, Oth
  <1>3. n \in Nat \ {0}
    BY CountPositive
  <1>4. \A st \in {"VALID", "ERASED"} :
          /\ StatePage(st, n, "none") \in Cells /\ IsState(StatePage(st, n, "none"), st)
          /\ StatePage(st, n, "none").mark = "none" /\ StatePage(st, n, "none").cnt = n
    BY <1>3, BuiltCells DEF IsState
  <1>5. d >= d /\ 0 \in Slots
    BY <1>2, SlotFacts
  <1>6. CASE f.GcState = "COPY_WRITE"
    <2>1. Programs(j, "intr", o, d, GcCell(fl, f)) /\ Frontier(fl[o], d) /\ d \in Slots
      BY <1>1, <1>6 DEF GcRunning, GcInv, Filling
    <2>2. GcCell(fl, f) \in Cells /\ GcCell(fl, f).kind = "copy"
      BY <1>6, GcCopyCell
    <2> QED
      BY <1>2, <1>5, <1>6, <2>1, <2>2 DEF JobSafe, Programs, IsJob, Frontier, BlankFrom
  <1>7. CASE f.GcState = "V_SP"
    <2>1. /\ Programs(j, "intr", o, d, GcCell(fl, f)) /\ Filling(fl[o], d) /\ d \in Slots
          /\ CountsBelow(fl, f) /\ IsWLBeginning(d)
      BY <1>1, <1>7 DEF GcRunning, GcInv
    <2>2. GcCell(fl, f) = StatePage("VALID", n, "none")
      BY <1>7 DEF GcCell
    <2>3. fl[o][d] = Blank /\ d >= PerWL /\ NoValidIn(fl[o])
      BY <1>5, <2>1 DEF Filling, Frontier, BlankFrom
    <2>4. IsState(fl[o][0], "ERASED") => fl[o][0].cnt < n
      BY <1>2, <1>5, <2>1 DEF Filling, MarkedState, CountsBelow, Marked, IsState
    <2>5. \A p \in Slots : IsState(fl[c][p], "VALID") => fl[c][p].cnt # n
      <3> SUFFICES ASSUME NEW p \in Slots, IsState(fl[c][p], "VALID")
                   PROVE  fl[c][p].cnt # n
        OBVIOUS
      <3>1. Marked(fl[c][p])
        BY <1>1, <1>2, GoverningPage
      <3>2. fl[c][p] \in Cells
        BY <1>1, <1>2 DEF FlashOk
      <3>3. fl[c][p].cnt \in Nat
        BY <3>1, <3>2, CellFacts DEF Marked
      <3> QED
        BY <1>2, <1>3, <2>1, <3>1, <3>3 DEF CountsBelow
    <2>6. j.op = "program" /\ j.sector = o /\ j.addr = d /\ j.cell = StatePage("VALID", n, "none")
      BY <2>1, <2>2 DEF Programs, IsJob
    <2> HIDE DEF c, o, d, n
    <2>7. JobSafe(fl, j)
      BY <1>2, <1>4, <2>1, <2>3, <2>4, <2>5, <2>6 DEF JobSafe
    <2> QED
      BY <1>7, <2>2, <2>6, <2>7 DEF o, d, n
  <1>8. CASE f.GcState = "E_SP"
    <2>1. Programs(j, "intr", o, 0, StatePage("ERASED", n, "none")) /\ BlankFrom(fl[o], 0) /\ d = 0
      BY <1>1, <1>8 DEF GcRunning, GcInv, GcCell
    <2>2. fl[o][0] = Blank
      BY <1>5, <2>1 DEF BlankFrom
    <2> QED
      BY <1>2, <1>4, <1>5, <1>8, <2>1, <2>2, WordlineSlots
         DEF JobSafe, Programs, IsJob, GcCell
  <1>9. CASE f.GcState = "ERASE"
    BY <1>2, <1>9 DEF GcRunning, Erases, IsJob, JobSafe
  <1>10. CASE f.GcState \in {"V_M", "E_M"}
    <2>1. Marks(fl, j, o, d) /\ fl[o][d] = GcCell(fl, f)
      BY <1>10 DEF GcRunning
    <2>2. d \in Slots
      BY <1>1, <1>5, <1>10 DEF GcInv
    <2>3. fl[o][d].kind = "state"
      BY <1>4, <1>10, <2>1 DEF GcCell, IsState
    <2> QED
      BY <1>2, <1>10, <2>1, <2>2, <2>3 DEF JobSafe, Marks, IsJob
  <1> QED
    BY <1>6, <1>7, <1>8, <1>9, <1>10 DEF Busy

\* Every job the driver starts is safe.
LEMMA JobsAreSafe ==
  ASSUME NEW fl, NEW f, NEW j, Inv(fl, f, j), j # NoJob
  PROVE  JobSafe(fl, j)
  <1>1. FlashOk(fl) /\ IsFee(f) /\ PrepInv(fl, f, j) /\ StartInv(fl, f, j)
    BY DEF Inv
  <1> QED
    BY <1>1, JobForms, UserJobSafe, ReadSafe, PrepJobSafe, RepairSafe, GcJobSafe

-----------------------------------------------------------------------------
(* What the invariant gives: no page is programmed twice, and the cache     *)
(* shows what a start-up would find.                                        *)

\* The invariant implies that only blank flash is programmed.
LEMMA BlankFlash ==
  ASSUME Inv(flash, fee, job)
  PROVE  ProgramsBlankFlash
  <1>1. FlashOk(flash) /\ IsFee(fee) /\ PrepInv(flash, fee, job) /\ StartInv(flash, fee, job)
        /\ GcInv(flash, fee, job)
    BY DEF Inv
  <1>2. ASSUME job # NoJob, job.op = "program"
        PROVE  /\ flash[job.sector][job.addr] = Blank
               /\ job.cell.kind = "state" =>
                    \A a \in WLBeginning(job.addr) .. NextWL(job.addr) - 1 :
                      flash[job.sector][a] = Blank
    <2> DEFINE s == job.sector
               p == job.addr
    <2>1. JobSafe(flash, job)
      BY <1>2, JobsAreSafe
    <2>2. /\ s \in Sectors /\ p \in Slots /\ flash[s][p] = Blank
          /\ job.cell.kind = "state" => IsWLBeginning(p)
      BY <1>2, <2>1, WordlineSlots, CellFacts DEF JobSafe, IsState
    <2>3. ASSUME NEW a \in WLBeginning(p) .. NextWL(p) - 1, IsWLBeginning(p)
          PROVE  flash[s][a] = Blank
      <3>1. p \in Nat /\ WLBeginning(p) = p /\ NextWL(p) = p + PerWL /\ NextWL(p) <= WLs * PerWL
            /\ WLs * PerWL \in Nat /\ PerWL \in Nat
        BY <2>2, <2>3, SlotFacts, WordlineFacts, WordlineSlots
      <3>2. a \in Nat /\ a >= p /\ a < p + PerWL /\ a < WLs * PerWL
        BY <2>3, <3>1
      <3>3. a \in Slots
        BY <3>2, <3>1, SlotFacts
      <3>4. WLBeginning(a) \in Nat /\ WLBeginning(a) <= a /\ p <= WLBeginning(a)
            /\ IsWLBeginning(WLBeginning(a))
        BY <2>3, <3>1, <3>2, WordlineFacts, WordlinesApart
      <3>5. WLBeginning(a) = p
        <4>1. p < WLBeginning(a) => NextWL(p) <= WLBeginning(a)
          BY <3>1, <3>4, WordlinesApart
        <4> QED
          BY <3>1, <3>2, <3>4, <4>1
      <3>6. Shape(flash[s])
        BY <1>1, <2>2 DEF FlashOk
      <3> QED
        BY <2>2, <3>3, <3>5, <3>6 DEF Shape
    <2> QED
      BY <2>2, <2>3
  <1>3. ASSUME job # NoJob, job.op = "marker"
        PROVE  /\ flash[job.sector][job.addr].kind = "state"
               /\ flash[job.sector][job.addr].mark = "none" \/ fee.InitGCState = "DIRTY"
    <2>1. flash[job.sector][job.addr].kind = "state"
      BY <1>3, JobsAreSafe DEF JobSafe
    <2>2. CASE fee.InitGCState = "PREPARE" /\ IntrRuns(job) /\ fee.IntrJob = "IDLE"
      <3> DEFINE k == fee.PrepStep
      <3>1. /\ job.sector = PrepSector[k] /\ job.addr = PrepAddr(k) /\ k % 2 # 1
        BY <1>1, <1>3, <2>2, PrepJobSafe
      <3>2. PrepFlash(flash, k) /\ k \in 1 .. 6
        BY <1>1, <2>2 DEF PrepInv
      <3>3. k = 2 \/ k = 4 \/ k = 6
        BY <3>1, <3>2
      <3> QED
        BY <2>1, <3>1, <3>2, <3>3, PrepSteps DEF PrepFlash
    <2>3. CASE /\ IntrRuns(job) /\ fee.InitGCState = "COMPLETE" /\ fee.GcState \in Busy
               /\ fee.IntrJob = "IDLE" /\ GcRunning(flash, fee, job)
      <3>1. job.sector = Oth(fee) /\ job.addr = fee.GcDest
            /\ fee.GcState \in {"V_M", "E_M"}
        BY <1>3, <2>3, GcJobSafe DEF Busy
      <3>2. flash[Oth(fee)][fee.GcDest] = GcCell(flash, fee)
        BY <2>3, <3>1 DEF GcRunning
      <3>3. GcCell(flash, fee).mark = "none"
        BY <3>1 DEF GcCell, StatePage
      <3> QED
        BY <2>1, <3>1, <3>2, <3>3
    <2> QED
      BY <1>3, <2>1, <2>2, <2>3, JobForms DEF Programs, Reads, IsJob
  <1> QED
    BY <1>2, <1>3 DEF ProgramsBlankFlash

\* The current sector and the copy that is not acknowledged yet.
LEMMA AckCells ==
  ASSUME NEW fl, NEW f, NEW j, Inv(fl, f, j)
  PROVE  /\ Cur(f) \in Sectors /\ Oth(f) \in Sectors /\ Oth(f) # Cur(f)
         /\ fl[Cur(f)] \in [Slots -> Cells] /\ fl[Oth(f)] \in [Slots -> Cells]
         /\ ~Landed(f, j) => Ack(fl, f, j) = fl[Cur(f)]
         /\ Landed(f, j) =>
              LET c == BlockCopy(f.Req.blk, f.Req.val)
                  d == f.NextFreePage
              IN /\ d \in Slots /\ c \in Cells /\ c.kind = "copy" /\ c.blk = f.Req.blk
                 /\ c.val = f.Req.val /\ f.Req.blk \in Blocks
                 /\ Ack(fl, f, j) \in [Slots -> Cells] /\ BlankFrom(Ack(fl, f, j), d)
                 /\ fl[Cur(f)] = [Ack(fl, f, j) EXCEPT ![d] = c]
                 /\ f.MainJob = "WRITE" /\ f.CacheUpdated /\ f.UserJob = "PASS"
                 /\ d >= PerWL /\ Frontier(fl[Cur(f)], d + 1)
  <1>1. FlashOk(fl) /\ IsFee(f) /\ UserInv(fl, f, j)
    BY DEF Inv
  <1>2. /\ Cur(f) \in Sectors /\ Oth(f) \in Sectors /\ Oth(f) # Cur(f)
        /\ fl[Cur(f)] \in [Slots -> Cells] /\ fl[Oth(f)] \in [Slots -> Cells]
    BY <1>1, SlotFacts DEF IsFee, Cur, Oth, FlashOk
  <1>3. ASSUME Landed(f, j)
        PROVE  LET c == BlockCopy(f.Req.blk, f.Req.val)
                   d == f.NextFreePage
               IN /\ d \in Slots /\ c \in Cells /\ c.kind = "copy" /\ c.blk = f.Req.blk
                  /\ c.val = f.Req.val /\ f.Req.blk \in Blocks
                  /\ Ack(fl, f, j) \in [Slots -> Cells] /\ BlankFrom(Ack(fl, f, j), d)
                  /\ fl[Cur(f)] = [Ack(fl, f, j) EXCEPT ![d] = c]
                  /\ f.MainJob = "WRITE" /\ f.CacheUpdated /\ f.UserJob = "PASS"
                  /\ d >= PerWL /\ Frontier(fl[Cur(f)], d + 1)
    <2> DEFINE c == BlockCopy(f.Req.blk, f.Req.val)
               d == f.NextFreePage
               old == Ack(fl, f, j)
    <2>1. Stage(f, "compare") /\ j = NoJob /\ f.Req \in Requests
      BY <1>1, <1>3 DEF Landed, Stage, IsFee
    <2>2. f.Req.blk \in Blocks /\ f.Req.val \in Values \cup {NoValue}
      BY <2>1, RequestFacts
    <2>3. c \in Cells /\ c.kind = "copy" /\ c.blk = f.Req.blk /\ c.val = f.Req.val
      BY <2>2, BuiltCells
    <2>4. /\ d \in Slots /\ f.MainJob = "WRITE" /\ f.CacheUpdated /\ f.UserJob = "PASS"
          /\ fl[Cur(f)][d] = c /\ d >= PerWL /\ Frontier(fl[Cur(f)], d + 1)
      BY <1>1, <2>1 DEF UserInv, Programs, IsJob
    <2>5. old = [fl[Cur(f)] EXCEPT ![d] = Blank]
      BY <1>3 DEF Ack
    <2> HIDE DEF c, d, old
    <2>6. /\ old \in [Slots -> Cells] /\ old[d] = Blank
          /\ \A p \in Slots : p # d => old[p] = fl[Cur(f)][p]
      BY <1>2, <2>4, <2>5, BuiltCells
    <2>7. fl[Cur(f)] = [old EXCEPT ![d] = c]
      BY <1>2, <2>4, <2>5
    <2>8. BlankFrom(old, d)
      <3> SUFFICES ASSUME NEW p \in Slots, p >= d, p # d PROVE old[p] = Blank
        BY <2>6 DEF BlankFrom
      <3>1. p >= d + 1
        BY <2>4, SlotFacts
      <3> QED
        BY <2>4, <2>6, <3>1 DEF Frontier, BlankFrom
    <2> QED
      BY <2>2, <2>3, <2>4, <2>6, <2>7, <2>8 DEF c, d, old
  <1> QED
    BY <1>2, <1>3 DEF Ack

\* The unacknowledged copy concerns one block only.
LEMMA AckOthers ==
  ASSUME NEW fl, NEW f, NEW j, Inv(fl, f, j), NEW b \in Blocks,
         ~(Landed(f, j) /\ b = f.Req.blk)
  PROVE  /\ CopiesOf(Ack(fl, f, j), b) = CopiesOf(fl[Cur(f)], b)
         /\ Latest(Ack(fl, f, j), b) = Latest(fl[Cur(f)], b)
         /\ \A a : LatestIs(Ack(fl, f, j), b, a) <=> LatestIs(fl[Cur(f)], b, a)
  <1>1. CASE ~Landed(f, j)
    <2>1. Ack(fl, f, j) = fl[Cur(f)]
      BY <1>1 DEF Ack
    <2> QED
      BY <2>1
  <1>2. CASE Landed(f, j)
    <2> DEFINE c == BlockCopy(f.Req.blk, f.Req.val)
               d == f.NextFreePage
               old == Ack(fl, f, j)
    <2>1. /\ d \in Slots /\ c \in Cells /\ c.kind = "copy" /\ c.blk = f.Req.blk
          /\ old \in [Slots -> Cells] /\ BlankFrom(old, d) /\ fl[Cur(f)] = [old EXCEPT ![d] = c]
      BY <1>2, AckCells
    <2> HIDE DEF c, d, old
    <2>2. b # c.blk
      BY <1>2, <2>1
    <2> DEFINE new == fl[Cur(f)]
    <2>3. /\ new[d] = c /\ new \in [Slots -> Cells]
          /\ \A p \in Slots : p # d => new[p] = old[p]
      BY <2>1
    <2> HIDE DEF new
    <2>4. CopiesOf(new, b) = CopiesOf(old, b) /\ Latest(new, b) = Latest(old, b)
      BY <2>1, <2>2, <2>3, NewCopy
    <2> QED
      BY <2>4 DEF new, old, LatestIs
  <1> QED
    BY <1>1, <1>2

\* It implies that the cache leads to the store's values.
LEMMA CacheShows ==
  ASSUME Inv(flash, fee, job), DoubtInv
  PROVE  CacheShowsStore
  <1> SUFFICES ASSUME fee.CacheUpdated, NEW b \in Blocks
               PROVE  Content(fee.Cache[b]) \in {recovered[b]} \cup doubt[b]
    BY DEF CacheShowsStore
  <1> DEFINE c == Cur(fee)
             o == Oth(fee)
             at == fee.Cache[b]
             g == IF fee.GcState = "V_M" /\ fee.IntrJob = "PASS" THEN o ELSE c
             own == Ack(flash, fee, job)
  <1>1. /\ FlashOk(flash) /\ IsFee(fee) /\ fee.InitGCState = "COMPLETE"
        /\ Governs(flash, g) /\ CacheOk(flash, fee, own, b)
    BY DEF Inv, MainInv, GcInv, CacheInv
  <1>2. /\ c \in Sectors /\ o \in Sectors /\ g \in Sectors
        /\ flash[c] \in [Slots -> Cells] /\ flash[o] \in [Slots -> Cells]
    BY AckCells
  <1>3. recovered[b] = Latest(flash[g], b)
    BY <1>1, <1>2, RecoveredValues DEF DoubtInv
  <1>4. CASE Landed(fee, job) /\ b = fee.Req.blk
    BY <1>4 DEF DoubtInv
  <1>5. CASE ~(Landed(fee, job) /\ b = fee.Req.blk)
    <2>1. /\ CopiesOf(own, b) = CopiesOf(flash[c], b)
          /\ Latest(own, b) = Latest(flash[c], b)
          /\ \A a \in Slots : LatestIs(own, b, a) <=> LatestIs(flash[c], b, a)
      BY <1>5, AckOthers
    <2>2. CASE at = NoAddr
      <3>1. CopiesOf(flash[c], b) = {} /\ (g = o => CopiesOf(flash[o], b) = {})
        BY <1>1, <1>2, <2>1, <2>2, AckCells DEF CacheOk, Copying
      <3>2. Latest(flash[g], b) = NoValue
        BY <3>1 DEF Latest
      <3> QED
        BY <1>3, <2>2, <3>2 DEF Content
    <2>3. CASE at # NoAddr /\ at.sector = o
      <3>1. Moved(fee, b)
        BY <2>3 DEF Moved
      <3>2. LatestIs(flash[o], b, at.slot) /\ Latest(flash[c], b) = flash[o][at.slot].val
        BY <1>1, <2>1, <2>3, <3>1 DEF CacheOk
      <3>3. Latest(flash[o], b) = flash[o][at.slot].val
        BY <1>2, <3>2, LatestOf
      <3>4. Latest(flash[g], b) = flash[o][at.slot].val
        BY <3>2, <3>3
      <3> QED
        BY <1>3, <2>3, <3>4 DEF Content
    <2>4. CASE at # NoAddr /\ at.sector # o
      <3>1. at \in Addresses
        BY <1>1, <2>4 DEF IsFee
      <3>2. at.sector = c /\ at.slot \in Slots
        <4>1. at.sector \in {0, 1} /\ at.slot \in Slots
          BY <3>1, AddressFacts, SlotFacts
        <4>2. c \in {0, 1} /\ o \in {0, 1} /\ o # c
          BY <1>2, AckCells, SlotFacts
        <4> QED
          BY <2>4, <4>1, <4>2
      <3>3. ~Moved(fee, b)
        BY <2>4 DEF Moved
      <3>4. LatestIs(flash[c], b, at.slot) /\ g = c
        BY <1>1, <2>1, <2>4, <3>2, <3>3 DEF CacheOk
      <3>5. Latest(flash[g], b) = flash[c][at.slot].val
        BY <1>2, <3>4, LatestOf
      <3> QED
        BY <1>3, <2>4, <3>2, <3>5 DEF Content
    <2> QED
      BY <2>2, <2>3, <2>4
  <1> QED
    BY <1>4, <1>5

-----------------------------------------------------------------------------
(* The initial states, and a reset.                                         *)

\* A sector that can hold what it is filled with has two wordlines.
LEMMA InitialSizes ==
  ASSUME NEW n \in Filled
  PROVE  /\ n \in Nat /\ PerWL \in Slots /\ 2 * PerWL = PerWL + PerWL
         /\ 2 * PerWL + n <= WLs * PerWL
  <1>1. n \in 0 .. (WLs - 2) * PerWL /\ PerWL \in Nat \ {0} /\ WLs \in Nat \ {0}
    BY FeeConstants
  <1>2. ASSUME NEW p \in Nat \ {0}, NEW w \in Nat \ {0}, n \in 0 .. (w - 2) * p
        PROVE  p \in 0 .. w * p - 1 /\ 2 * p + n <= w * p /\ w * p \in Nat
    <2>1. (w - 2) * p = w * p - 2 * p
      BY <1>2
    <2>2. w * p \in Int /\ n \in Int /\ n >= 0 /\ n <= w * p - 2 * p
      BY <1>2, <2>1
    <2> QED
      BY <1>2, <2>2
  <1> QED
    BY <1>1, <1>2 DEF Slots

\* The initial flash is in order.
LEMMA InitialFlashOk ==
  ASSUME NEW n \in Filled
  PROVE  FlashOk(InitialFlash(n))
  <1> DEFINE fl == InitialFlash(n)
             full == [a \in Slots |->
                        CASE a = 0 -> StatePage("ERASED", 1, "ok")
                          [] a = PerWL -> StatePage("VALID", 2, "ok")
                          [] a \in 2 * PerWL .. 2 * PerWL + n - 1 -> BlockCopy(a % NBlocks, 0)
                          [] OTHER -> Blank]
             other == [AllBlank EXCEPT ![0] = StatePage("ERASED", 3, "ok")]
  <1>1. /\ n \in Nat /\ PerWL \in Slots /\ PerWL \in Nat \ {0} /\ 2 * PerWL = PerWL + PerWL
        /\ 0 \in Slots /\ Slots \subseteq Nat /\ Sectors = {0, 1}
        /\ IsWLBeginning(0) /\ IsWLBeginning(PerWL) /\ IsWLBeginning(2 * PerWL)
        /\ 2 * PerWL + n <= WLs * PerWL /\ WLs * PerWL \in Nat
    <2>1. IsWLBeginning(PerWL + PerWL)
      BY SlotFacts, WordlineSlots, WordlineFacts
    <2> QED
      BY <2>1, InitialSizes, SlotFacts, WordlineSlots
  <1>2. \A a \in Slots : BlockCopy(a % NBlocks, 0) \in Copies
    <2>1. \A a \in Slots : a % NBlocks \in Blocks
      BY <1>1, FeeConstants DEF Blocks
    <2>2. 0 \in Values
      BY FeeConstants DEF Values
    <2> QED
      BY <2>1, <2>2 DEF BlockCopy, Copies
  <1>3. /\ \A a \in Slots : BlockCopy(a % NBlocks, 0) \in Cells
                            /\ BlockCopy(a % NBlocks, 0).kind = "copy"
        /\ Blank \in Cells /\ Blank.kind = "blank"
        /\ \A s \in {"VALID", "ERASED"}, k \in {1, 2, 3} :
             /\ StatePage(s, k, "ok") \in Cells /\ StatePage(s, k, "ok").kind = "state"
             /\ StatePage(s, k, "ok").st = s /\ StatePage(s, k, "ok").cnt = k
    BY <1>2, BuiltCells DEF Copies, Cells
  <1>4. CASE n = 0
    <2>1. fl = [s \in Sectors |-> AllBlank]
      BY <1>4 DEF InitialFlash
    <2>2. /\ fl \in [Sectors -> [Slots -> Cells]]
          /\ \A s \in Sectors : \A a \in Slots : fl[s][a] = Blank
      BY <1>3, <2>1 DEF AllBlank
    <2>3. \A s \in Sectors : Shape(fl[s])
      BY <1>3, <2>2 DEF Shape, IsState
    <2> QED
      BY <1>1, <1>3, <2>2, <2>3 DEF FlashOk, NoTie, IsState
  <1>5. CASE n # 0
    <2>1. fl[0] = full /\ fl[1] = other /\ fl = [s \in {0, 1} |-> IF s = 0 THEN full ELSE other]
      <3>1. fl = [s \in {0, 1} |-> CASE n = 0 -> AllBlank
                                     [] n # 0 /\ s = 0 -> full
                                     [] OTHER -> other]
        BY <1>1 DEF InitialFlash
      <3> HIDE DEF full, other, fl
      <3> QED
        BY <1>5, <3>1
    <2>2. /\ full \in [Slots -> Cells]
          /\ full[0] = StatePage("ERASED", 1, "ok") /\ full[PerWL] = StatePage("VALID", 2, "ok")
          /\ \A a \in Slots : a # 0 /\ a # PerWL =>
               full[a] = IF a \in 2 * PerWL .. 2 * PerWL + n - 1
                         THEN BlockCopy(a % NBlocks, 0) ELSE Blank
      BY <1>1, <1>3
    <2>3. /\ other \in [Slots -> Cells] /\ other[0] = StatePage("ERASED", 3, "ok")
          /\ \A a \in Slots : a # 0 => other[a] = Blank
      BY <1>1, <1>3 DEF AllBlank
    <2> HIDE DEF full, other
    <2>4. \A a \in Slots : /\ IsState(full[a], "ERASED") <=> a = 0
                           /\ IsState(full[a], "VALID") <=> a = PerWL
                           /\ IsState(other[a], "ERASED") <=> a = 0
                           /\ ~IsState(other[a], "VALID") /\ other[a].kind # "copy"
      BY <1>1, <1>3, <2>2, <2>3 DEF IsState
    <2>5. \A a \in Slots : full[a].kind = "copy" => a >= PerWL
      BY <1>1, <1>3, <2>2
    <2>6. full[0] # Blank /\ full[PerWL] # Blank /\ other[0] # Blank
      BY <1>3, <2>2, <2>3
    <2>7. ASSUME NEW a \in Slots, full[a] # Blank PROVE full[WLBeginning(a)] # Blank
      <3>1. CASE a \in {0, PerWL}
        BY <1>1, <2>6, <3>1, WordlineFacts
      <3>2. CASE a \notin {0, PerWL}
        <4>1. a \in 2 * PerWL .. 2 * PerWL + n - 1
          BY <2>2, <2>7, <3>2
        <4>2. /\ WLBeginning(a) \in Slots /\ WLBeginning(a) <= a /\ 2 * PerWL <= WLBeginning(a)
          BY <1>1, <4>1, WordlineFacts, WordlineSlots, WordlinesApart
        <4> HIDE DEF fl
        <4>3. WLBeginning(a) \in 2 * PerWL .. 2 * PerWL + n - 1
          <5>1. n \in Nat /\ PerWL \in Nat /\ a \in Nat /\ WLBeginning(a) \in Nat
            BY <1>1, <4>2
          <5> QED
            BY <4>1, <4>2, <5>1
        <4>4. WLBeginning(a) # 0 /\ WLBeginning(a) # PerWL
          BY <1>1, <4>2
        <4> QED
          BY <1>3, <2>2, <4>2, <4>3, <4>4
      <3> QED
        BY <3>1, <3>2
    <2>8. ASSUME NEW a \in Slots, other[a] # Blank PROVE other[WLBeginning(a)] # Blank
      BY <1>1, <2>3, <2>6, <2>8, WordlineFacts
    <2>9. Shape(full)
      <3>1. full[0].cnt < full[PerWL].cnt /\ PerWL >= PerWL
        BY <1>1, <1>3, <2>2
      <3> QED
        BY <1>1, <2>4, <2>5, <2>7, <3>1 DEF Shape
    <2>10. Shape(other)
      BY <2>4, <2>8 DEF Shape
    <2>11. fl \in [Sectors -> [Slots -> Cells]]
      BY <1>1, <2>1, <2>2, <2>3
    <2> HIDE DEF fl
    <2>12. NoTie(fl)
      BY <2>1, <2>4 DEF NoTie
    <2> QED
      BY <1>1, <2>1, <2>9, <2>10, <2>11, <2>12 DEF FlashOk, fl
  <1> QED
    BY <1>4, <1>5

\* The invariant holds initially.
LEMMA InitInv == Init => IInv
  <1> SUFFICES ASSUME Init PROVE IInv
    OBVIOUS
  <1>1. PICK n \in Filled : flash = InitialFlash(n)
    BY DEF Init
  <1>2. Inv(flash, fee, job)
    BY <1>1, InitialFlashOk, BootInv DEF Init
  <1>3. fee.Req = NoReq
    BY DEF Init, Boot
  <1>4. ~Landed(fee, job)
    BY <1>3 DEF Landed, Stage
  <1>5. DoubtInv
    BY <1>4 DEF Init, DoubtInv
  <1> QED
    BY <1>2, <1>5 DEF Init, IInv

\* A reset keeps it, whatever job it cuts off.
LEMMA ResetStep == IInv /\ Reset => IInv'
  <1> SUFFICES ASSUME IInv, Reset PROVE IInv'
    OBVIOUS
  <1>1. FlashOk(flash')
    <2>1. CASE job = NoJob
      BY <2>1 DEF Reset, IInv, Inv
    <2>2. CASE job # NoJob
      <3>1. PICK cells \in Partial(job) : flash' = [flash EXCEPT ![job.sector] = cells]
        BY <2>2 DEF Reset
      <3>2. JobSafe(flash, job) /\ FlashOk(flash)
        BY <2>2, JobsAreSafe DEF IInv, Inv
      <3> QED
        BY <3>1, <3>2, FlashOkAfter DEF After
    <2> QED
      BY <2>1, <2>2
  <1>2. fee' = Boot(flash') /\ job' = NoJob
    BY DEF Reset
  <1>3. Inv(flash', fee', job')
    BY <1>1, <1>2, BootInv
  <1>4. fee'.Req = NoReq
    BY <1>2 DEF Boot
  <1>5. ~Landed(fee', job')
    BY <1>4 DEF Landed, Stage
  <1>6. DoubtInv'
    BY <1>5 DEF Reset, DoubtInv
  <1> QED
    BY <1>3, <1>6 DEF Reset, IInv

-----------------------------------------------------------------------------
(* The end of a job.                                                        *)

\* A finished job is one of the outcomes of a job cut off.
LEMMA FinishedIsPartial ==
  ASSUME FlashOk(flash), NEW j, JobSafe(flash, j)
  PROVE  /\ Finished(j) \in Partial(j)
         /\ j.op = "read" => Finished(j) = flash[j.sector]
         /\ j.op = "program" => Finished(j) = [flash[j.sector] EXCEPT ![j.addr] = j.cell]
         /\ j.op = "marker" => Finished(j) = [flash[j.sector] EXCEPT ![j.addr] =
                                               [flash[j.sector][j.addr] EXCEPT !.mark = "ok"]]
         /\ j.op = "erase" => \A a \in Slots : Finished(j)[a] = Blank
  <1> DEFINE cells == flash[j.sector]
  <1>1. /\ cells \in [Slots -> Cells] /\ j.op \in {"read", "program", "marker", "erase"}
        /\ j.op # "erase" => j.addr \in Slots
    BY DEF FlashOk, JobSafe
  <1>2. CASE j.op = "read"
    <2>1. j.cell = cells[j.addr]
      BY <1>2 DEF JobSafe
    <2>2. [cells EXCEPT ![j.addr] = j.cell] = cells
      BY <1>1, <1>2, <2>1
    <2> QED
      BY <1>2, <2>2 DEF Finished, Partial
  <1>3. CASE j.op = "program"
    <2>1. Finished(j) = [cells EXCEPT ![j.addr] = j.cell]
      BY <1>3 DEF Finished
    <2>2. Partial(j) = {[cells EXCEPT ![j.addr] = c] : c \in {cells[j.addr], Torn, j.cell}}
      BY <1>3 DEF Partial
    <2> QED
      BY <1>3, <2>1, <2>2
  <1>4. CASE j.op = "marker"
    <2>1. Finished(j) = [cells EXCEPT ![j.addr] = j.cell]
          /\ j.cell = [cells[j.addr] EXCEPT !.mark = "ok"]
      BY <1>4 DEF Finished, JobSafe
    <2>2. Partial(j) = {[cells EXCEPT ![j.addr].mark = m] :
                          m \in {cells[j.addr].mark, "torn", "ok"}}
      BY <1>4 DEF Partial
    <2>3. [cells EXCEPT ![j.addr].mark = "ok"]
            = [cells EXCEPT ![j.addr] = [cells[j.addr] EXCEPT !.mark = "ok"]]
      BY <1>1, <1>4
    <2> QED
      BY <1>4, <2>1, <2>2, <2>3
  <1>5. CASE j.op = "erase"
    BY <1>5 DEF Finished, Partial, AllBlank
  <1> QED
    BY <1>1, <1>2, <1>3, <1>4, <1>5

\* The flash after the job of the user or of the driver itself.
LEMMA FlashAfterJob ==
  ASSUME NEW f, NEW j, Inv(flash, f, j), j # NoJob
  PROVE  LET new == After(flash, j.sector, Finished(j))
         IN /\ FlashOk(new) /\ j.sector \in Sectors
            /\ new[j.sector] = Finished(j) /\ new[Other(j.sector)] = flash[Other(j.sector)]
            /\ Finished(j) \in [Slots -> Cells]
  <1> DEFINE new == After(flash, j.sector, Finished(j))
  <1>1. JobSafe(flash, j) /\ FlashOk(flash)
    BY JobsAreSafe DEF Inv
  <1>2. Finished(j) \in Partial(j)
    BY <1>1, FinishedIsPartial
  <1>3. FlashOk(new)
    BY <1>1, <1>2, FlashOkAfter
  <1>4. j.sector \in Sectors
    BY <1>1 DEF JobSafe
  <1>5. new[j.sector] = Finished(j) /\ new[Other(j.sector)] = flash[Other(j.sector)]
    BY <1>1, <1>4, AfterSectors
  <1> HIDE DEF new
  <1>6. Finished(j) \in [Slots -> Cells]
    BY <1>3, <1>4, <1>5 DEF FlashOk
  <1> QED
    BY <1>3, <1>4, <1>5, <1>6 DEF new

\* A program job marks no page, so that a sector governs as before.
LEMMA ProgramEnds ==
  ASSUME NEW f, NEW j, Inv(flash, f, j), j # NoJob, j.op = "program"
  PROVE  LET new == After(flash, j.sector, Finished(j))
         IN /\ \A t \in Sectors : Governs(flash, t) => Governs(new, t)
            /\ \A s \in Sectors : \A p \in Slots :
                 Marked(new[s][p]) \/ Marked(flash[s][p]) => new[s][p] = flash[s][p]
            /\ j.addr \in Slots /\ j.cell \in Cells /\ flash[j.sector][j.addr] = Blank
            /\ new[j.sector][j.addr] = j.cell
            /\ \A p \in Slots : p # j.addr => new[j.sector][p] = flash[j.sector][p]
  <1> DEFINE new == After(flash, j.sector, Finished(j))
  <1>1. JobSafe(flash, j) /\ FlashOk(flash)
    BY JobsAreSafe DEF Inv
  <1>2. Finished(j) \in Partial(j) /\ Finished(j) = [flash[j.sector] EXCEPT ![j.addr] = j.cell]
    BY <1>1, FinishedIsPartial
  <1>3. \A t \in Sectors : Governs(flash, t) => Governs(new, t)
    <2> SUFFICES ASSUME NEW t \in Sectors, Governs(flash, t) PROVE Governs(new, t)
      OBVIOUS
    <2> QED
      BY <1>1, <1>2, ProgramKeepsGoverning
  <1>4. \A p \in Slots : Marked(Finished(j)[p]) \/ Marked(flash[j.sector][p])
                           => Finished(j)[p] = flash[j.sector][p]
    BY <1>1, <1>2, SlotFacts, ProgramKeepsGoverning
  <1>5. /\ j.sector \in Sectors /\ new[j.sector] = Finished(j)
        /\ new[Other(j.sector)] = flash[Other(j.sector)]
    BY FlashAfterJob
  <1>6. /\ j.addr \in Slots /\ j.cell \in Cells /\ flash[j.sector][j.addr] = Blank
        /\ flash[j.sector] \in [Slots -> Cells]
    BY <1>1, <1>5 DEF JobSafe, FlashOk
  <1>7. /\ Finished(j)[j.addr] = j.cell
        /\ \A p \in Slots : p # j.addr => Finished(j)[p] = flash[j.sector][p]
    BY <1>2, <1>6
  <1> HIDE DEF new
  <1>8. ASSUME NEW s \in Sectors, NEW p \in Slots, Marked(new[s][p]) \/ Marked(flash[s][p])
        PROVE  new[s][p] = flash[s][p]
    <2>1. s = j.sector \/ s = Other(j.sector)
      BY <1>5, SlotFacts
    <2>2. CASE s = j.sector
      BY <1>4, <1>5, <1>8, <2>2
    <2>3. CASE s = Other(j.sector)
      BY <1>5, <2>3
    <2> QED
      BY <2>1, <2>2, <2>3
  <1> QED
    BY <1>3, <1>5, <1>6, <1>7, <1>8 DEF new

\* The user's copy has been programmed.
LEMMA CopyEnds ==
  ASSUME NEW f, NEW j, Inv(flash, f, j), j # NoJob, ~IntrRuns(j), Stage(f, "compare")
  PROVE  LET new == After(flash, j.sector, Finished(j))
             g == [f EXCEPT !.UserJob = "PASS"]
         IN /\ Inv(new, g, NoJob)
            /\ \A a \in Slots : flash[Cur(f)][a].kind = "copy" => new[Cur(f)][a] = flash[Cur(f)][a]
            /\ new[Oth(f)] = flash[Oth(f)]
  <1> DEFINE new == After(flash, j.sector, Finished(j))
             g == [f EXCEPT !.UserJob = "PASS"]
             c == Cur(f)
             d == f.NextFreePage
             copy == BlockCopy(f.Req.blk, f.Req.val)
  <1>1. /\ FlashOk(flash) /\ IsFee(f) /\ UserInv(flash, f, j) /\ MainInv(f, j)
        /\ GcInv(flash, f, j) /\ CacheInv(flash, f, j) /\ CountsKnown(flash, f)
    BY DEF Inv
  <1>2. /\ Programs(j, "user", c, d, copy) /\ Frontier(flash[c], d) /\ d \in Slots
        /\ f.CacheUpdated /\ f.MainJob = "WRITE" /\ f.InitGCState = "COMPLETE"
    BY <1>1 DEF UserInv, MainInv
  <1>3. j.op = "program" /\ j.sector = c /\ j.addr = d /\ j.cell = copy
    BY <1>2 DEF Programs, IsJob
  <1>4. /\ c \in Sectors /\ Oth(f) \in Sectors /\ Oth(f) # c /\ Other(c) = Oth(f)
        /\ flash[c] \in [Slots -> Cells]
    BY <1>1, AckCells DEF Cur, Oth
  <1>5. JobSafe(flash, j) /\ Finished(j) \in Partial(j)
        /\ Finished(j) = [flash[c] EXCEPT ![d] = copy]
    BY <1>1, <1>3, JobsAreSafe, FinishedIsPartial
  <1>6. /\ FlashOk(new) /\ new[c] = Finished(j) /\ new[Oth(f)] = flash[Oth(f)]
    BY <1>3, <1>4, FlashAfterJob
  <1>7. /\ d \in Nat /\ d >= d /\ flash[c][d] = Blank /\ copy # Blank /\ copy.kind = "copy"
    <2>1. d \in Nat /\ d >= d /\ flash[c][d] = Blank
      BY <1>2, SlotFacts DEF Frontier, BlankFrom
    <2> QED
      BY <2>1 DEF BlockCopy, Blank
  <1>8. /\ new[c][d] = copy /\ \A a \in Slots : a # d => new[c][a] = flash[c][a]
    BY <1>2, <1>4, <1>5, <1>6
  <1>9. /\ \A t \in Sectors : Governs(flash, t) => Governs(new, t)
        /\ \A s \in Sectors : \A p \in Slots :
             Marked(new[s][p]) \/ Marked(flash[s][p]) => new[s][p] = flash[s][p]
    BY <1>3, ProgramEnds
  <1>10. IsFee(g) /\ Cur(g) = c /\ Oth(g) = Oth(f) /\ g.UserJob = "PASS"
    BY <1>1 DEF IsFee, Fields, Cur, Oth
  <1> HIDE DEF new, copy
  <1>11. Frontier(new[c], d + 1) /\ d >= PerWL
    <2>1. d >= PerWL /\ d + 1 >= PerWL
      BY <1>2, <1>7, SlotFacts DEF Frontier
    <2>2. BlankFrom(new[c], d + 1)
      <3> SUFFICES ASSUME NEW p \in Slots, p >= d + 1 PROVE new[c][p] = Blank
        BY DEF BlankFrom
      <3>1. p # d /\ p >= d
        BY <1>7, SlotFacts
      <3> QED
        BY <1>2, <1>8, <3>1 DEF Frontier, BlankFrom
    <2>3. new[c][WLBeginning(d)] # Blank
      <3>1. WLBeginning(d) \in Slots /\ (IsWLBeginning(d) => WLBeginning(d) = d)
        BY <1>2, <1>7, WordlineFacts, WordlineSlots
      <3> QED
        BY <1>2, <1>7, <1>8, <3>1 DEF Frontier
    <2>4. IsWLBeginning(d + 1) \/ new[c][WLBeginning(d + 1)] # Blank
      BY <1>7, <2>3, WordlineOfNext
    <2> QED
      BY <2>1, <2>2, <2>4 DEF Frontier
  <1>12. UserInv(new, g, NoJob)
    <2>1. g.Req = f.Req /\ g.MainJob = f.MainJob /\ g.CacheUpdated = f.CacheUpdated
          /\ g.NextFreePage = d /\ g.GcState = f.GcState
      BY <1>1 DEF IsFee, Fields
    <2>2. Stage(g, "compare")
      BY <2>1 DEF Stage
    <2> QED
      BY <1>2, <1>8, <1>10, <1>11, <2>1, <2>2 DEF UserInv, Stage, copy
  <1>13. MainInv(g, NoJob)
    BY <1>1 DEF MainInv, IsFee, Fields, Quiet, IntrRuns
  <1>14. CountsKnown(new, g)
    <2>1. g.StateCount = f.StateCount
      BY <1>1 DEF IsFee, Fields
    <2> SUFFICES ASSUME NEW s \in Sectors, NEW a \in Slots, Marked(new[s][a])
                 PROVE  new[s][a].cnt <= f.StateCount
      BY <2>1 DEF CountsKnown
    <2>3. new[s][a] = flash[s][a]
      BY <1>9
    <2> QED
      BY <1>1, <2>3 DEF CountsKnown
  <1>15. PrepInv(new, g, NoJob) /\ StartInv(new, g, NoJob)
    <2>1. g.InitGCState = "COMPLETE" /\ g.CacheUpdated
      BY <1>1, <1>2 DEF IsFee, Fields
    <2> QED
      BY <2>1 DEF PrepInv, StartInv
  <1>16. GcInv(new, g, NoJob)
    <2>1. f.GcState \notin {"COPY_WRITE", "V_SP", "V_M", "E_SP", "E_M", "FAIL"}
      BY <1>1, <1>2 DEF MainInv
    <2>2. /\ g.GcState = f.GcState /\ g.IntrJob = f.IntrJob /\ g.NextFreeWL = f.NextFreeWL
          /\ g.GcDest = f.GcDest
      BY <1>1 DEF IsFee, Fields
    <2>3. ~IntrRuns(NoJob) /\ (Quiet(f, j) => Quiet(g, NoJob)) /\ (Over(f, j) => Over(g, NoJob))
      BY <2>2 DEF Quiet, Over, IntrRuns
    <2>4. /\ Governs(flash, Cur(f))
          /\ f.GcState \in {"IDLE", "REQUESTED"} =>
               Unused(flash[Oth(f)]) /\ f.NextFreeWL[Oth(f)] = PerWL
          /\ f.GcState \notin Busy => Quiet(f, j)
          /\ f.GcState \in Busy => \/ f.IntrJob = "IDLE"
                                   \/ Over(f, j) /\ GcOver(flash, f)
          /\ f.GcState = "START_COPY" => Filling(flash[Oth(f)], f.GcDest)
          /\ f.GcState = "ERASE" => f.GcDest = 0
      BY <1>1, <1>2, <2>1 DEF GcInv
    <2>5. f.GcState = "ERASE" => GcRunning(new, g, NoJob)
      BY <2>2, <2>3 DEF GcRunning
    <2>6. f.GcState = "ERASE" /\ GcOver(flash, f) => GcOver(new, g)
      BY <1>6, <1>10, <2>2 DEF GcOver
    <2>7. f.GcState \in Busy => f.GcState = "ERASE"
      BY <2>1 DEF Busy
    <2> QED
      BY <1>4, <1>6, <1>9, <1>10, <2>1, <2>2, <2>3, <2>4, <2>5, <2>6, <2>7 DEF GcInv
  <1>17. CacheInv(new, g, NoJob)
    <2>1. Ack(flash, f, j) = flash[c]
      BY DEF Ack, Landed
    <2>2. Ack(new, g, NoJob) = flash[c]
      <3>1. Landed(g, NoJob) /\ g.NextFreePage = d
        BY <1>1 DEF Landed, Stage, IsFee, Fields
      <3>2. Ack(new, g, NoJob) = [new[c] EXCEPT ![d] = Blank]
        BY <1>10, <3>1 DEF Ack
      <3>3. \A a \in Slots : Ack(new, g, NoJob)[a] = flash[c][a]
        BY <1>2, <1>4, <1>5, <1>6, <1>7, <1>8, <3>2
      <3>4. DOMAIN new[c] = Slots /\ new[c] \in [Slots -> Cells]
        BY <1>4, <1>6 DEF FlashOk
      <3> QED
        BY <1>4, <3>2, <3>3, <3>4
    <2>3. /\ g.CacheUpdated = f.CacheUpdated /\ g.Cache = f.Cache /\ g.Copied = f.Copied
          /\ g.GcState = f.GcState /\ g.BlkModified = f.BlkModified
          /\ g.GcCopyIndex = f.GcCopyIndex
      BY <1>1 DEF IsFee, Fields
    <2>4. \A b \in Blocks : CacheOk(new, g, flash[c], b)
      BY <1>1, <1>2, <1>6, <1>10, <2>1, <2>3 DEF CacheInv, CacheOk, Moved
    <2> QED
      BY <1>1, <1>2, <1>10, <2>2, <2>3, <2>4 DEF CacheInv, Moved
  <1>18. \A a \in Slots : flash[c][a].kind = "copy" => new[c][a] = flash[c][a]
    BY <1>7, <1>8, BuiltCells
  <1> QED
    BY <1>6, <1>10, <1>12, <1>13, <1>14, <1>15, <1>16, <1>17, <1>18 DEF Inv, new

\* What a programmed marker leaves in the flash.
LEMMA MarkerEnds ==
  ASSUME NEW f, NEW j, Inv(flash, f, j), j # NoJob, j.op = "marker"
  PROVE  LET new == After(flash, j.sector, Finished(j))
             page == flash[j.sector][j.addr]
         IN /\ j.addr \in Slots /\ page \in Cells /\ page.kind = "state"
            /\ new[j.sector][j.addr] = StatePage(page.st, page.cnt, "ok")
            /\ \A p \in Slots : p # j.addr => new[j.sector][p] = flash[j.sector][p]
  <1> DEFINE new == After(flash, j.sector, Finished(j))
             page == flash[j.sector][j.addr]
  <1>1. JobSafe(flash, j) /\ FlashOk(flash)
    BY JobsAreSafe DEF Inv
  <1>2. /\ Finished(j) \in Partial(j)
        /\ Finished(j) = [flash[j.sector] EXCEPT ![j.addr] = [page EXCEPT !.mark = "ok"]]
    BY <1>1, FinishedIsPartial
  <1>3. /\ j.sector \in Sectors /\ new[j.sector] = Finished(j)
        /\ new[Other(j.sector)] = flash[Other(j.sector)]
    BY FlashAfterJob
  <1>4. /\ j.addr \in Slots /\ page.kind = "state" /\ flash[j.sector] \in [Slots -> Cells]
    BY <1>1, <1>3 DEF JobSafe, FlashOk
  <1>5. page \in Cells
    BY <1>4
  <1>6. [page EXCEPT !.mark = "ok"] = StatePage(page.st, page.cnt, "ok")
        /\ page.cnt \in Nat /\ page.st \in {"VALID", "ERASED"}
    BY <1>4, <1>5, CellFacts
  <1>7. /\ Finished(j)[j.addr] = [page EXCEPT !.mark = "ok"]
        /\ \A p \in Slots : p # j.addr => Finished(j)[p] = flash[j.sector][p]
    BY <1>2, <1>4
  <1> HIDE DEF new
  <1> QED
    BY <1>3, <1>4, <1>5, <1>6, <1>7 DEF new

\* A VALID page with the highest count has a higher one than the other sector's.
LEMMA LowerCounts ==
  ASSUME NEW fl, FlashOk(fl), NEW f, CountsKnown(fl, f), NEW s \in Sectors, NEW a \in Slots,
         IsState(fl[s][a], "VALID"), fl[s][a].cnt = f.StateCount
  PROVE  \A p \in Slots : MarkedState(fl[Other(s)][p], "VALID")
                            => fl[Other(s)][p].cnt < fl[s][a].cnt
  <1> SUFFICES ASSUME NEW p \in Slots, MarkedState(fl[Other(s)][p], "VALID")
               PROVE  fl[Other(s)][p].cnt < fl[s][a].cnt
    OBVIOUS
  <1> DEFINE q == fl[Other(s)][p]
             page == fl[s][a]
  <1>1. Other(s) \in Sectors /\ s \in {0, 1} /\ Other(s) = 1 - s
    BY SlotFacts DEF Other
  <1>2. q \in Cells /\ page \in Cells
    BY <1>1 DEF FlashOk
  <1>3. q.cnt \in Nat /\ Marked(q) /\ IsState(q, "VALID")
    BY <1>2, CellFacts DEF MarkedState, IsState, Marked
  <1>4. page.cnt \in Nat
    BY <1>2, CellFacts DEF IsState
  <1>5. q.cnt <= page.cnt
    BY <1>1, <1>3 DEF CountsKnown
  <1>6. q.cnt # page.cnt
    <2>1. CASE s = 0
      BY <1>1, <1>3, <2>1 DEF FlashOk, NoTie
    <2>2. CASE s = 1
      BY <1>1, <1>3, <2>2 DEF FlashOk, NoTie
    <2> QED
      BY <1>1, <2>1, <2>2
  <1> HIDE DEF q, page
  <1>7. q.cnt < page.cnt
    BY <1>3, <1>4, <1>5, <1>6
  <1> QED
    BY <1>7 DEF q, page

\* Which sector governs when a marker has been programmed.
LEMMA MarkerGoverns ==
  ASSUME NEW f, NEW j, Inv(flash, f, j), j # NoJob, j.op = "marker"
  PROVE  LET new == After(flash, j.sector, Finished(j))
             page == flash[j.sector][j.addr]
         IN /\ page.st = "ERASED" \/ page.mark # "none" =>
                 \A t \in Sectors : Governs(flash, t) => Governs(new, t)
            /\ page.st = "VALID" /\ Governs(flash, Other(j.sector)) /\ CountsKnown(flash, f)
                 /\ page.cnt = f.StateCount => Governs(new, j.sector)
  <1> DEFINE new == After(flash, j.sector, Finished(j))
             page == flash[j.sector][j.addr]
  <1>1. JobSafe(flash, j) /\ FlashOk(flash)
    BY JobsAreSafe DEF Inv
  <1>2. /\ Finished(j) \in Partial(j)
        /\ Finished(j) = [flash[j.sector] EXCEPT ![j.addr] = [page EXCEPT !.mark = "ok"]]
    BY <1>1, FinishedIsPartial
  <1>3. j.sector \in Sectors
    BY FlashAfterJob
  <1>4. /\ j.addr \in Slots /\ page \in Cells /\ page.kind = "state"
        /\ new[j.sector][j.addr] = StatePage(page.st, page.cnt, "ok")
    BY MarkerEnds
  <1>5. ASSUME page.st = "ERASED" \/ page.mark # "none", NEW t \in Sectors, Governs(flash, t)
        PROVE  Governs(new, t)
    <2>1. Marked(page) \/ IsState(page, "ERASED")
      BY <1>4, <1>5 DEF Marked, IsState
    <2> QED
      BY <1>1, <1>2, <1>5, <2>1, MarkerKeepsGoverning
  <1>6. ASSUME page.st = "VALID", Governs(flash, Other(j.sector)), CountsKnown(flash, f),
               page.cnt = f.StateCount
        PROVE  Governs(new, j.sector)
    <2>1. IsState(page, "VALID")
      BY <1>4, <1>6 DEF IsState
    <2>2. Marked(Finished(j)[j.addr])
      BY <1>3, <1>4, FlashAfterJob DEF Marked, StatePage
    <2>3. \A p \in Slots : MarkedState(flash[Other(j.sector)][p], "VALID")
                             => flash[Other(j.sector)][p].cnt < page.cnt
      BY <1>1, <1>3, <1>4, <1>6, <2>1, LowerCounts
    <2> QED
      BY <1>1, <1>2, <2>1, <2>2, <2>3, MarkerHandsOver
  <1> QED
    BY <1>5, <1>6

\* What an erasure leaves.
LEMMA EraseEnds ==
  ASSUME NEW f, NEW j, Inv(flash, f, j), j # NoJob, j.op = "erase"
  PROVE  LET new == After(flash, j.sector, Finished(j))
         IN /\ BlankFrom(new[j.sector], 0)
            /\ Governs(flash, Other(j.sector)) => Governs(new, Other(j.sector))
  <1> DEFINE new == After(flash, j.sector, Finished(j))
  <1>1. JobSafe(flash, j) /\ FlashOk(flash)
    BY JobsAreSafe DEF Inv
  <1>2. Finished(j) \in Partial(j) /\ \A a \in Slots : Finished(j)[a] = Blank
    BY <1>1, FinishedIsPartial
  <1>3. new[j.sector] = Finished(j)
    BY FlashAfterJob
  <1>4. BlankFrom(new[j.sector], 0)
    BY <1>2, <1>3 DEF BlankFrom
  <1> QED
    BY <1>1, <1>2, <1>4, EraseKeepsGoverning

\* A read has ended.
LEMMA ReadEnds ==
  ASSUME NEW f, NEW j, Inv(flash, f, j), j # NoJob, ~IntrRuns(j), Stage(f, "reading")
  PROVE  LET g == [f EXCEPT !.Req = NoReq]
         IN Inv(flash, g, NoJob) /\ After(flash, j.sector, Finished(j)) = flash /\ j.op = "read"
  <1> DEFINE g == [f EXCEPT !.Req = NoReq]
  <1>1. /\ FlashOk(flash) /\ IsFee(f) /\ UserInv(flash, f, j) /\ MainInv(f, j)
        /\ GcInv(flash, f, j) /\ CacheInv(flash, f, j) /\ CountsKnown(flash, f)
    BY DEF Inv
  <1>2. /\ j.op = "read" /\ f.CacheUpdated /\ ~Stage(f, "compare")
    BY <1>1 DEF UserInv, Reads, IsJob, Stage
  <1>3. JobSafe(flash, j) /\ Finished(j) = flash[j.sector]
    BY <1>1, <1>2, JobsAreSafe, FinishedIsPartial
  <1>4. After(flash, j.sector, Finished(j)) = flash
    BY <1>1, <1>3 DEF After, FlashOk
  <1>5. /\ g.Req = NoReq
        /\ \A x \in Fields : x # "Req" => g[x] = f[x]
    BY <1>1 DEF IsFee, Fields
  <1>6. IsFee(g) /\ Cur(g) = Cur(f) /\ Oth(g) = Oth(f)
    BY <1>1 DEF IsFee, Fields, Cur, Oth
  <1>7. UserInv(flash, g, NoJob)
    <2>1. ~Stage(g, "compare") /\ ~Stage(g, "reading") /\ ~Stage(g, "stuck")
      BY <1>5 DEF Stage
    <2>2. f.UserJob = "IDLE" /\ Frontier(flash[Cur(f)], f.NextFreePage)
      BY <1>1, <1>2 DEF UserInv
    <2> QED
      BY <1>5, <1>6, <2>1, <2>2 DEF UserInv, Fields
  <1>8. MainInv(g, NoJob)
    BY <1>1, <1>5 DEF MainInv, Fields, Quiet, IntrRuns
  <1>9. PrepInv(flash, g, NoJob) /\ StartInv(flash, g, NoJob) /\ CountsKnown(flash, g)
    BY <1>1, <1>2, <1>5 DEF PrepInv, StartInv, MainInv, Fields, CountsKnown
  <1>10. GcInv(flash, g, NoJob)
    <2>1. f.GcState \notin {"COPY_WRITE", "V_SP", "V_M", "E_SP", "E_M", "FAIL"}
          /\ f.InitGCState = "COMPLETE"
      BY <1>1, <1>2 DEF MainInv, UserInv
    <2>2. /\ g.GcState = f.GcState /\ g.IntrJob = f.IntrJob /\ g.NextFreeWL = f.NextFreeWL
          /\ g.GcDest = f.GcDest
      BY <1>5 DEF Fields
    <2>3. ~IntrRuns(NoJob) /\ (Quiet(f, j) => Quiet(g, NoJob)) /\ (Over(f, j) => Over(g, NoJob))
      BY <2>2 DEF Quiet, Over, IntrRuns
    <2>4. /\ Governs(flash, Cur(f))
          /\ f.GcState \in {"IDLE", "REQUESTED"} =>
               Unused(flash[Oth(f)]) /\ f.NextFreeWL[Oth(f)] = PerWL
          /\ f.GcState \notin Busy => Quiet(f, j)
          /\ f.GcState \in Busy => \/ f.IntrJob = "IDLE"
                                   \/ Over(f, j) /\ GcOver(flash, f)
          /\ f.GcState = "START_COPY" => Filling(flash[Oth(f)], f.GcDest)
          /\ f.GcState = "ERASE" => f.GcDest = 0
      BY <1>1, <1>2, <2>1 DEF GcInv
    <2>5. f.GcState = "ERASE" => GcRunning(flash, g, NoJob)
      BY <2>2, <2>3 DEF GcRunning
    <2>6. f.GcState = "ERASE" /\ GcOver(flash, f) => GcOver(flash, g)
      BY <1>6, <2>2 DEF GcOver
    <2>7. f.GcState \in Busy => f.GcState = "ERASE"
      BY <2>1 DEF Busy
    <2> QED
      BY <1>6, <2>1, <2>2, <2>3, <2>4, <2>5, <2>6, <2>7 DEF GcInv
  <1>11. CacheInv(flash, g, NoJob)
    <2>1. Ack(flash, f, j) = flash[Cur(f)] /\ Ack(flash, g, NoJob) = flash[Cur(f)]
      BY <1>2, <1>5, <1>6 DEF Ack, Landed, Stage
    <2>3. /\ g.CacheUpdated = f.CacheUpdated /\ g.Cache = f.Cache /\ g.Copied = f.Copied
          /\ g.GcState = f.GcState /\ g.BlkModified = f.BlkModified
          /\ g.GcCopyIndex = f.GcCopyIndex
      BY <1>5 DEF Fields
    <2>4. \A b \in Blocks : CacheOk(flash, g, flash[Cur(f)], b)
      BY <1>1, <1>2, <1>6, <2>1, <2>3 DEF CacheInv, CacheOk, Moved
    <2> QED
      BY <1>1, <1>2, <1>6, <2>1, <2>3, <2>4 DEF CacheInv, Moved
  <1> QED
    BY <1>1, <1>2, <1>4, <1>6, <1>7, <1>8, <1>9, <1>10, <1>11 DEF Inv

\* What the end of one of the driver's own jobs leaves alone.
LEMMA OwnJobEnds ==
  ASSUME NEW f, NEW j, Inv(flash, f, j), IntrRuns(j), NEW new,
         f.CacheUpdated => new[Cur(f)] = flash[Cur(f)]
  PROVE  LET g == [f EXCEPT !.IntrJob = "PASS"]
         IN /\ UserInv(new, g, NoJob) /\ MainInv(g, NoJob) /\ IsFee(g)
            /\ ~Landed(g, NoJob) /\ ~Landed(f, j)
            /\ g.IntrJob = "PASS" /\ \A x \in Fields : x # "IntrJob" => g[x] = f[x]
            /\ Cur(g) = Cur(f) /\ Oth(g) = Oth(f) /\ DirtySector(g) = DirtySector(f)
            /\ Over(g, NoJob)
  <1> DEFINE g == [f EXCEPT !.IntrJob = "PASS"]
  <1>1. IsFee(f) /\ UserInv(flash, f, j) /\ MainInv(f, j) /\ j # NoJob
    BY DEF Inv, IntrRuns
  <1>2. g.IntrJob = "PASS" /\ \A x \in Fields : x # "IntrJob" => g[x] = f[x]
    BY <1>1 DEF IsFee, Fields
  <1>3. IsFee(g)
    BY <1>1 DEF IsFee, Fields
  <1>4. Cur(g) = Cur(f) /\ Oth(g) = Oth(f) /\ DirtySector(g) = DirtySector(f)
    BY <1>2 DEF Fields, Cur, Oth, DirtySector
  <1> HIDE DEF g
  <1>5. ~IntrRuns(NoJob) /\ Over(g, NoJob)
    BY <1>2 DEF IntrRuns, Over
  <1>6. ~Stage(f, "compare") /\ ~Stage(f, "reading")
    BY <1>1 DEF UserInv, Programs, Reads, IsJob, IntrRuns
  <1>7. \A st : Stage(g, st) <=> Stage(f, st)
    BY <1>2 DEF Stage, Fields
  <1>8. UserInv(new, g, NoJob)
    BY <1>1, <1>2, <1>4, <1>5, <1>6, <1>7 DEF UserInv, Fields
  <1>9. MainInv(g, NoJob)
    BY <1>1, <1>2, <1>5 DEF MainInv, Fields, Quiet
  <1>10. ~Landed(g, NoJob) /\ ~Landed(f, j)
    BY <1>6, <1>7 DEF Landed
  <1> QED
    BY <1>2, <1>3, <1>4, <1>5, <1>8, <1>9, <1>10 DEF g

\* A job of the preparation has ended.
LEMMA PrepEnds ==
  ASSUME NEW f, NEW j, Inv(flash, f, j), j # NoJob,
         IntrRuns(j), f.InitGCState = "PREPARE", f.IntrJob = "IDLE", ~f.CacheUpdated
  PROVE  Inv(After(flash, j.sector, Finished(j)), [f EXCEPT !.IntrJob = "PASS"], NoJob)
  <1> DEFINE new == After(flash, j.sector, Finished(j))
             g == [f EXCEPT !.IntrJob = "PASS"]
             k == f.PrepStep
             n == f.StateCount
  <1>1. /\ FlashOk(flash) /\ IsFee(f) /\ PrepInv(flash, f, j) /\ CountsKnown(flash, f)
    BY DEF Inv
  <1>2. /\ UserInv(new, g, NoJob) /\ MainInv(g, NoJob) /\ IsFee(g)
        /\ g.IntrJob = "PASS" /\ \A x \in Fields : x # "IntrJob" => g[x] = f[x]
        /\ Cur(g) = Cur(f)
    BY OwnJobEnds
  <1>3. /\ FlashOk(new) /\ new[Other(j.sector)] = flash[Other(j.sector)]
    BY FlashAfterJob
  <1>4. /\ j.sector = PrepSector[k] /\ j.addr = PrepAddr(k) /\ JobSafe(flash, j)
        /\ j.op = IF k % 2 = 1 THEN "program" ELSE "marker"
        /\ k % 2 = 1 => j.cell = StatePage(PrepState[k], n, "none")
    BY <1>1, PrepJobSafe
  <1>5. /\ k \in 1 .. 6 /\ PrepFlash(flash, k) /\ n \in Nat \ {0}
        /\ Cur(f) = 0 /\ f.PrepDest = PrepAddr(k) /\ f.GcDest = 0
        /\ k >= 5 => f.StatePageAddr[0] = PerWL /\ f.NextFreeWL[0] = PerWL + PerWL
        /\ \A t \in Sectors : \A a \in Slots :
             flash[t][a].kind = "state" => flash[t][a].cnt <= n
    BY <1>1 DEF PrepInv, IsFee
  <1>6. /\ 0 \in Sectors /\ 1 \in Sectors /\ Other(0) = 1 /\ Other(1) = 0 /\ Sectors = {0, 1}
        /\ 0 \in Slots /\ PerWL \in Slots /\ PerWL # 0
    BY <1>1, SlotFacts DEF FlashOk, Other
  <1>7. \A st \in {"VALID", "ERASED"} : \A m \in {"none", "torn", "ok"} : \A i \in Nat \ {0} :
          /\ StatePage(st, i, m).kind = "state" /\ StatePage(st, i, m).st = st
          /\ StatePage(st, i, m).cnt = i /\ StatePage(st, i, m).mark = m
    BY BuiltCells
  <1> DEFINE s == PrepSector[k]
             a == PrepAddr(k)
  <1>8. s \in Sectors /\ a \in Slots /\ PrepState[k] \in {"VALID", "ERASED"}
    BY <1>5, <1>6, PrepSteps
  <1>9. /\ new[s][a].kind = "state" /\ new[s][a].cnt <= n
        /\ IF k % 2 = 1 THEN new[s][a].st = PrepState[k] /\ new[s][a].mark = "none"
           ELSE new[s][a].st = flash[s][a].st /\ new[s][a].mark = "ok"
                /\ flash[s][a].kind = "state"
        /\ \A p \in Slots : p # a => new[s][p] = flash[s][p]
        /\ new[Other(s)] = flash[Other(s)]
    <2>1. CASE k % 2 = 1
      <3>1. /\ new[s][a] = StatePage(PrepState[k], n, "none")
            /\ \A p \in Slots : p # a => new[s][p] = flash[s][p]
        BY <1>4, <2>1, ProgramEnds
      <3>2. n <= n
        BY <1>5
      <3> QED
        BY <1>3, <1>4, <1>5, <1>7, <1>8, <2>1, <3>1, <3>2
    <2>2. CASE k % 2 # 1
      <3> DEFINE page == flash[s][a]
      <3>1. /\ page.kind = "state" /\ page \in Cells
            /\ new[s][a] = StatePage(page.st, page.cnt, "ok")
            /\ \A p \in Slots : p # a => new[s][p] = flash[s][p]
        <4>1. j.op = "marker" /\ j.sector = s /\ j.addr = a
          BY <1>4, <2>2
        <4>0. j.op = "marker"
          BY <4>1
        <4>2. LET old == flash[j.sector][j.addr]
              IN /\ old.kind = "state" /\ old \in Cells
                 /\ new[j.sector][j.addr] = StatePage(old.st, old.cnt, "ok")
                 /\ \A p \in Slots : p # j.addr => new[j.sector][p] = flash[j.sector][p]
          BY <4>0, MarkerEnds
        <4> HIDE DEF new, s, a
        <4> QED
          BY <4>1, <4>2
      <3>2. page.st \in {"VALID", "ERASED"} /\ page.cnt \in Nat \ {0}
        BY <3>1, CellFacts
      <3>3. page.cnt <= n
        BY <1>5, <1>8, <3>1
      <3> HIDE DEF page
      <3>4. new[s][a].kind = "state" /\ new[s][a].st = page.st /\ new[s][a].mark = "ok"
            /\ new[s][a].cnt = page.cnt
        BY <1>7, <3>1, <3>2
      <3> QED
        BY <1>3, <1>4, <2>2, <3>1, <3>3, <3>4 DEF page
    <2> QED
      BY <2>1, <2>2
  <1> HIDE DEF new, g, k, n, s, a
  <1>10. PrepFlash(new, k + 1)
    <2>0. new[s][a] # Blank
      BY <1>9 DEF Blank
    <2>1. CASE k = 1
      BY <1>5, <1>6, <1>9, <2>0, <2>1, PrepSteps DEF PrepFlash, IsState, s, a
    <2>2. CASE k = 2
      BY <1>5, <1>6, <1>9, <2>0, <2>2, PrepSteps DEF PrepFlash, IsState, s, a
    <2>3. CASE k = 3
      BY <1>5, <1>6, <1>9, <2>0, <2>3, PrepSteps DEF PrepFlash, IsState, s, a
    <2>4. CASE k = 4
      BY <1>5, <1>6, <1>9, <2>0, <2>4, PrepSteps DEF PrepFlash, IsState, s, a
    <2>5. CASE k = 5
      BY <1>5, <1>6, <1>9, <2>0, <2>5, PrepSteps DEF PrepFlash, IsState, s, a
    <2>6. CASE k = 6
      BY <1>5, <1>6, <1>9, <2>0, <2>6, PrepSteps DEF PrepFlash, IsState, s, a
    <2> QED
      BY <1>5, <2>1, <2>2, <2>3, <2>4, <2>5, <2>6, PrepSteps
  <1>11. \A t \in Sectors : \A p \in Slots : new[t][p].kind = "state" => new[t][p].cnt <= n
    <2> SUFFICES ASSUME NEW t \in Sectors, NEW p \in Slots, new[t][p].kind = "state"
                 PROVE  new[t][p].cnt <= n
      OBVIOUS
    <2>1. CASE t = s /\ p = a
      BY <1>9, <2>1
    <2>2. CASE ~(t = s /\ p = a)
      <3>1. new[t][p] = flash[t][p]
        BY <1>6, <1>8, <1>9, <2>2
      <3> QED
        BY <1>5, <3>1
    <2> QED
      BY <2>1, <2>2
  <1>12. /\ g.InitGCState = "PREPARE" /\ g.PrepStep = k /\ g.PrepDest = PrepAddr(k)
         /\ g.GcDest = 0 /\ g.StateCount = n /\ g.StatePageAddr = f.StatePageAddr
         /\ g.NextFreeWL = f.NextFreeWL /\ ~g.CacheUpdated /\ ~IntrRuns(NoJob)
    BY <1>2, <1>5 DEF Fields, IntrRuns, k, n
  <1>13. PrepInv(new, g, NoJob)
    BY <1>2, <1>5, <1>10, <1>11, <1>12 DEF PrepInv
  <1>14. CountsKnown(new, g)
    BY <1>11, <1>12 DEF CountsKnown, Marked
  <1>15. StartInv(new, g, NoJob) /\ GcInv(new, g, NoJob) /\ CacheInv(new, g, NoJob)
    BY <1>12 DEF StartInv, GcInv, CacheInv
  <1> QED
    BY <1>2, <1>3, <1>13, <1>14, <1>15 DEF Inv, new, g

\* A page whose marker is programmed stays where it was and of its kind.
LEMMA MarkerKeeps ==
  ASSUME NEW f, NEW j, Inv(flash, f, j), j # NoJob, j.op = "marker"
  PROVE  LET new == After(flash, j.sector, Finished(j))
         IN \A s \in Sectors : \A p \in Slots :
              /\ new[s][p] = Blank <=> flash[s][p] = Blank
              /\ new[s][p].kind = flash[s][p].kind
              /\ flash[s][p].kind = "state" => new[s][p].st = flash[s][p].st
                                               /\ new[s][p].cnt = flash[s][p].cnt
              /\ Marked(flash[s][p]) => Marked(new[s][p])
              /\ ~(s = j.sector /\ p = j.addr) => new[s][p] = flash[s][p]
  <1> DEFINE new == After(flash, j.sector, Finished(j))
             page == flash[j.sector][j.addr]
             done == new[j.sector][j.addr]
  <1>1. /\ j.addr \in Slots /\ page \in Cells /\ page.kind = "state"
        /\ done = StatePage(page.st, page.cnt, "ok")
        /\ \A p \in Slots : p # j.addr => new[j.sector][p] = flash[j.sector][p]
    BY MarkerEnds
  <1>2. new[Other(j.sector)] = flash[Other(j.sector)] /\ j.sector \in Sectors
    BY FlashAfterJob
  <1> HIDE DEF new
  <1>3. /\ done.kind = "state" /\ done.st = page.st /\ done.cnt = page.cnt /\ done.mark = "ok"
    BY <1>1 DEF StatePage
  <1>4. done # Blank /\ page # Blank
    BY <1>1, <1>3 DEF Blank
  <1> SUFFICES ASSUME NEW s \in Sectors, NEW p \in Slots
               PROVE  /\ new[s][p] = Blank <=> flash[s][p] = Blank
                      /\ new[s][p].kind = flash[s][p].kind
                      /\ flash[s][p].kind = "state" => new[s][p].st = flash[s][p].st
                                                       /\ new[s][p].cnt = flash[s][p].cnt
                      /\ Marked(flash[s][p]) => Marked(new[s][p])
                      /\ ~(s = j.sector /\ p = j.addr) => new[s][p] = flash[s][p]
    BY DEF new
  <1>5. CASE s = j.sector /\ p = j.addr
    BY <1>1, <1>3, <1>4, <1>5 DEF Marked
  <1>6. CASE ~(s = j.sector /\ p = j.addr)
    <2>1. new[s][p] = flash[s][p]
      BY <1>1, <1>2, <1>6, SlotFacts
    <2> QED
      BY <1>6, <2>1
  <1> QED
    BY <1>5, <1>6

\* The repair of a marker has ended.
LEMMA RepairEnds ==
  ASSUME NEW f, NEW j, Inv(flash, f, j), j # NoJob,
         IntrRuns(j), f.InitGCState = "DIRTY", f.IntrJob = "IDLE", ~f.CacheUpdated
  PROVE  Inv(After(flash, j.sector, Finished(j)), [f EXCEPT !.IntrJob = "PASS"], NoJob)
  <1> DEFINE new == After(flash, j.sector, Finished(j))
             g == [f EXCEPT !.IntrJob = "PASS"]
             s == DirtySector(f)
  <1>1. /\ FlashOk(flash) /\ IsFee(f) /\ StartInv(flash, f, j) /\ CountsKnown(flash, f)
    BY DEF Inv
  <1>2. /\ UserInv(new, g, NoJob) /\ MainInv(g, NoJob) /\ IsFee(g)
        /\ g.IntrJob = "PASS" /\ \A x \in Fields : x # "IntrJob" => g[x] = f[x]
        /\ Cur(g) = Cur(f) /\ Oth(g) = Oth(f)
    BY OwnJobEnds
  <1>3. FlashOk(new)
    BY FlashAfterJob
  <1>4. /\ j.op = "marker" /\ j.sector = s /\ s \in Sectors
        /\ f.Dirty[s] /\ j.addr = f.StatePageAddr[s] /\ j.addr \in Slots
        /\ Marked(flash[s][j.addr])
    BY <1>1, RepairSafe
  <1>5. \A t \in Sectors : Governs(flash, t) => Governs(new, t)
    <2>1. j.op = "marker" /\ flash[j.sector][j.addr].mark # "none"
      BY <1>4 DEF Marked
    <2> QED
      BY <2>1, MarkerGoverns
  <1>6. \A t \in Sectors : \A p \in Slots :
              /\ new[t][p] = Blank <=> flash[t][p] = Blank
              /\ new[t][p].kind = flash[t][p].kind
              /\ flash[t][p].kind = "state" => new[t][p].st = flash[t][p].st
                                               /\ new[t][p].cnt = flash[t][p].cnt
              /\ Marked(flash[t][p]) => Marked(new[t][p])
              /\ ~(t = j.sector /\ p = j.addr) => new[t][p] = flash[t][p]
    BY <1>4, MarkerKeeps
  <1>7. Cur(f) \in Sectors /\ Oth(f) \in Sectors /\ 0 \in Slots
    BY AckCells, SlotFacts
  <1> HIDE DEF new, g, s
  <1>8. /\ g.InitGCState = "DIRTY" /\ g.Dirty = f.Dirty /\ g.StatePageAddr = f.StatePageAddr
        /\ g.NextFreeWL = f.NextFreeWL /\ g.GcResumeState = f.GcResumeState
        /\ g.CacheUpdated = f.CacheUpdated /\ g.GcDest = f.GcDest /\ g.StateCount = f.StateCount
        /\ ~IntrRuns(NoJob)
    BY <1>2 DEF Fields, IntrRuns
  <1>9. CountsKnown(new, g)
    <2> SUFFICES ASSUME NEW t \in Sectors, NEW p \in Slots, Marked(new[t][p])
                 PROVE  new[t][p].cnt <= f.StateCount
      BY <1>8 DEF CountsKnown
    <2>1. Marked(flash[t][p]) /\ new[t][p].cnt = flash[t][p].cnt
      <3>1. CASE t = j.sector /\ p = j.addr
        BY <1>4, <1>6, <3>1 DEF Marked
      <3>2. CASE ~(t = j.sector /\ p = j.addr)
        BY <1>6, <3>2
      <3> QED
        BY <3>1, <3>2
    <2> QED
      BY <1>1, <2>1 DEF CountsKnown
  <1>10. StartInv(new, g, NoJob)
    <2>1. \A t \in Sectors : f.Dirty[t] => /\ f.StatePageAddr[t] \in Slots
                                           /\ Marked(new[t][f.StatePageAddr[t]])
      BY <1>1, <1>6 DEF StartInv
    <2>2. Governs(new, Cur(f))
      BY <1>1, <1>5, <1>7 DEF StartInv
    <2>3. f.GcResumeState = "NORMAL" => Unused(new[Oth(f)]) /\ f.NextFreeWL[Oth(f)] = PerWL
      <3> SUFFICES ASSUME f.GcResumeState = "NORMAL"
                   PROVE  Unused(new[Oth(f)]) /\ f.NextFreeWL[Oth(f)] = PerWL
        OBVIOUS
      <3>1. Unused(flash[Oth(f)]) /\ f.NextFreeWL[Oth(f)] = PerWL
        BY <1>1 DEF StartInv
      <3>2. MarkedState(new[Oth(f)][0], "ERASED")
        BY <1>6, <1>7, <3>1 DEF Unused, MarkedState, IsState, Marked
      <3>3. BlankFrom(new[Oth(f)], PerWL)
        BY <1>6, <1>7, <3>1 DEF Unused, BlankFrom
      <3> QED
        BY <3>1, <3>2, <3>3 DEF Unused
    <2>4. Ready(new[Cur(f)], f.NextFreeWL[Cur(f)])
      <3>1. Ready(flash[Cur(f)], f.NextFreeWL[Cur(f)])
        BY <1>1 DEF StartInv
      <3> QED
        BY <1>6, <1>7, <3>1 DEF Ready, BlankFrom
    <2> QED
      BY <1>1, <1>2, <1>8, <2>1, <2>2, <2>3, <2>4 DEF StartInv
  <1>11. PrepInv(new, g, NoJob) /\ GcInv(new, g, NoJob) /\ CacheInv(new, g, NoJob)
    BY <1>8 DEF PrepInv, GcInv, CacheInv
  <1> QED
    BY <1>2, <1>3, <1>9, <1>10, <1>11 DEF Inv, new, g

\* The other sector after a job of the collection, but for its slot.
LEMMA GcJobEffect ==
  ASSUME NEW f, NEW j, Inv(flash, f, j), j # NoJob, f.InitGCState = "COMPLETE",
         f.GcState \in Busy, IntrRuns(j), f.IntrJob = "IDLE", GcRunning(flash, f, j)
  PROVE  LET new == After(flash, j.sector, Finished(j))
             o == Oth(f)
             d == f.GcDest
         IN /\ FlashOk(new) /\ new[Cur(f)] = flash[Cur(f)]
            /\ f.GcState = "ERASE" => BlankFrom(new[o], 0)
            /\ f.GcState # "ERASE" => \A p \in Slots : p # d => new[o][p] = flash[o][p]
            /\ f.GcState # "ERASE" => d \in Slots
            /\ f.GcState \in {"COPY_WRITE", "V_SP", "E_SP"} =>
                 new[o][d] = GcCell(flash, f) /\ flash[o][d] = Blank
            /\ f.GcState \in {"V_M", "E_M"} =>
                 /\ flash[o][d] = GcCell(flash, f)
                 /\ new[o][d] = [GcCell(flash, f) EXCEPT !.mark = "ok"]
                 /\ new[o][d].kind = "state" /\ new[o][d].cnt = f.StateCount
            /\ f.GcState \in {"V_SP", "V_M", "E_SP", "E_M"} => GcCell(flash, f).kind = "state"
            /\ Governs(new, IF f.GcState = "V_M" THEN o ELSE Cur(f))
  <1> DEFINE new == After(flash, j.sector, Finished(j))
             o == Oth(f)
             d == f.GcDest
             cell == GcCell(flash, f)
  <1>1. /\ FlashOk(flash) /\ IsFee(f) /\ GcInv(flash, f, j) /\ Governs(flash, Cur(f))
        /\ CountsKnown(flash, f) /\ f.StateCount \in Nat
    BY DEF Inv, GcInv, IsFee
  <1>2. /\ j.sector = o
        /\ j.op = CASE f.GcState \in {"COPY_WRITE", "V_SP", "E_SP"} -> "program"
                    [] f.GcState = "ERASE" -> "erase"
                    [] OTHER -> "marker"
        /\ j.op # "erase" => j.addr = d
        /\ j.op = "program" => j.cell = cell
    BY GcJobSafe
  <1>3. /\ Cur(f) \in Sectors /\ o \in Sectors /\ Other(o) = Cur(f)
    BY <1>1, SlotFacts DEF IsFee, Cur, Oth
  <1>4. FlashOk(new) /\ new[Cur(f)] = flash[Cur(f)]
    BY <1>2, <1>3, FlashAfterJob
  <1>5. f.GcState \in {"V_SP", "V_M", "E_SP", "E_M"} =>
          cell.kind = "state" /\ cell.cnt = f.StateCount /\ cell.mark = "none"
          /\ cell.st = (IF f.GcState \in {"V_SP", "V_M"} THEN "VALID" ELSE "ERASED")
          /\ [cell EXCEPT !.mark = "ok"] = StatePage(cell.st, cell.cnt, "ok")
    <2> DEFINE st == IF f.GcState \in {"V_SP", "V_M"} THEN "VALID" ELSE "ERASED"
    <2>1. f.GcState \in {"V_SP", "V_M", "E_SP", "E_M"} =>
            cell = StatePage(st, f.StateCount, "none")
      BY DEF GcCell
    <2> HIDE DEF st, cell
    <2>2. LET page == StatePage(st, f.StateCount, "none")
          IN /\ page.kind = "state" /\ page.cnt = f.StateCount /\ page.mark = "none"
             /\ page.st = st
             /\ [page EXCEPT !.mark = "ok"] = StatePage(page.st, page.cnt, "ok")
      BY DEF StatePage
    <2> QED
      BY <2>1, <2>2 DEF st
  <1>6. CASE f.GcState \in {"COPY_WRITE", "V_SP", "E_SP"}
    <2>1. j.op = "program"
      BY <1>2, <1>6
    <2>2. /\ \A t \in Sectors : Governs(flash, t) => Governs(new, t)
          /\ j.addr \in Slots /\ flash[j.sector][j.addr] = Blank
          /\ new[j.sector][j.addr] = j.cell
          /\ \A p \in Slots : p # j.addr => new[j.sector][p] = flash[j.sector][p]
      BY <2>1, ProgramEnds
    <2>3. j.sector = o /\ j.addr = d /\ j.cell = cell
      BY <1>2, <2>1
    <2> HIDE DEF new, o, d, cell
    <2>4. /\ \A p \in Slots : p # d => new[o][p] = flash[o][p]
          /\ d \in Slots /\ new[o][d] = cell /\ flash[o][d] = Blank /\ Governs(new, Cur(f))
      BY <1>1, <1>3, <2>2, <2>3
    <2> QED
      BY <1>4, <1>5, <1>6, <2>4 DEF new, o, d, cell
  <1>7. CASE f.GcState = "ERASE"
    <2>1. j.op = "erase" /\ j.sector = o
      BY <1>2, <1>7
    <2>2. BlankFrom(new[o], 0) /\ Governs(new, Cur(f))
      BY <1>1, <1>3, <2>1, EraseEnds
    <2> QED
      BY <1>4, <1>7, <2>2
  <1>8. CASE f.GcState \in {"V_M", "E_M"}
    <2>1. j.op = "marker"
      BY <1>2, <1>8
    <2>2. /\ j.addr \in Slots
          /\ new[j.sector][j.addr] = StatePage(flash[j.sector][j.addr].st,
                                               flash[j.sector][j.addr].cnt, "ok")
          /\ \A p \in Slots : p # j.addr => new[j.sector][p] = flash[j.sector][p]
      BY <2>1, MarkerEnds
    <2>3. j.sector = o /\ j.addr = d
      BY <1>2, <2>1
    <2>4. flash[o][d] = cell
      BY <1>8 DEF GcRunning
    <2>5. LET page == flash[j.sector][j.addr]
          IN /\ page.st = "ERASED" \/ page.mark # "none" =>
                  \A t \in Sectors : Governs(flash, t) => Governs(new, t)
             /\ page.st = "VALID" /\ Governs(flash, Other(j.sector)) /\ CountsKnown(flash, f)
                  /\ page.cnt = f.StateCount => Governs(new, j.sector)
      BY <2>1, MarkerGoverns
    <2> HIDE DEF new, o, d, cell
    <2>6. /\ \A p \in Slots : p # d => new[o][p] = flash[o][p]
          /\ d \in Slots /\ new[o][d] = StatePage(cell.st, cell.cnt, "ok")
      BY <2>2, <2>3, <2>4
    <2>7. Governs(new, IF f.GcState = "V_M" THEN o ELSE Cur(f))
      <3>1. CASE f.GcState = "V_M"
        BY <1>1, <1>3, <1>5, <2>3, <2>4, <2>5, <3>1
      <3>2. CASE f.GcState # "V_M"
        BY <1>1, <1>3, <1>5, <1>8, <2>3, <2>4, <2>5, <3>2
      <3> QED
        BY <3>1, <3>2
    <2>8. new[o][d].kind = "state" /\ new[o][d].cnt = f.StateCount
      BY <1>5, <1>8, <2>6 DEF StatePage
    <2> QED
      BY <1>4, <1>5, <1>8, <2>4, <2>6, <2>7, <2>8 DEF new, o, d, cell
  <1> QED
    BY <1>6, <1>7, <1>8 DEF Busy

\* A job of the collection has ended.
LEMMA GcEnds ==
  ASSUME NEW f, NEW j, Inv(flash, f, j), j # NoJob, f.InitGCState = "COMPLETE",
         f.GcState \in Busy, IntrRuns(j), f.IntrJob = "IDLE", GcRunning(flash, f, j)
  PROVE  Inv(After(flash, j.sector, Finished(j)), [f EXCEPT !.IntrJob = "PASS"], NoJob)
  <1> DEFINE new == After(flash, j.sector, Finished(j))
             g == [f EXCEPT !.IntrJob = "PASS"]
             c == Cur(f)
             o == Oth(f)
             d == f.GcDest
             cell == GcCell(flash, f)
  <1>1. /\ FlashOk(flash) /\ IsFee(f) /\ GcInv(flash, f, j) /\ CacheInv(flash, f, j)
        /\ CountsKnown(flash, f) /\ StartInv(flash, f, j)
    BY DEF Inv
  <1>2. /\ FlashOk(new) /\ new[c] = flash[c]
        /\ f.GcState = "ERASE" => BlankFrom(new[o], 0)
        /\ f.GcState # "ERASE" => \A p \in Slots : p # d => new[o][p] = flash[o][p]
        /\ f.GcState # "ERASE" => d \in Slots
        /\ f.GcState \in {"COPY_WRITE", "V_SP", "E_SP"} =>
             new[o][d] = cell /\ flash[o][d] = Blank
        /\ f.GcState \in {"V_M", "E_M"} =>
             /\ flash[o][d] = cell /\ new[o][d] = [cell EXCEPT !.mark = "ok"]
             /\ new[o][d].kind = "state" /\ new[o][d].cnt = f.StateCount
        /\ f.GcState \in {"V_SP", "V_M", "E_SP", "E_M"} => cell.kind = "state"
        /\ Governs(new, IF f.GcState = "V_M" THEN o ELSE c)
    BY GcJobEffect
  <1> HIDE DEF new
  <1>3. /\ UserInv(new, g, NoJob) /\ MainInv(g, NoJob) /\ IsFee(g)
        /\ ~Landed(g, NoJob) /\ ~Landed(f, j)
        /\ g.IntrJob = "PASS" /\ \A x \in Fields : x # "IntrJob" => g[x] = f[x]
        /\ Cur(g) = c /\ Oth(g) = o /\ Over(g, NoJob)
    BY <1>2, OwnJobEnds
  <1>4. /\ c \in Sectors /\ o \in Sectors /\ o # c /\ d \in Nat
        /\ flash[c] \in [Slots -> Cells] /\ flash[o] \in [Slots -> Cells]
        /\ \A s \in Sectors : s = c \/ s = o
    BY <1>1, AckCells, SlotFacts DEF IsFee
  <1> HIDE DEF g
  <1>5. /\ g.InitGCState = "COMPLETE" /\ g.GcState = f.GcState /\ g.GcDest = d
        /\ g.StateCount = f.StateCount /\ g.Cache = f.Cache /\ g.GcCopyIndex = f.GcCopyIndex
        /\ g.GcBlock = f.GcBlock /\ g.Copied = f.Copied /\ g.CacheUpdated = f.CacheUpdated
        /\ g.BlkModified = f.BlkModified /\ g.NextFreeWL = f.NextFreeWL
    BY <1>1, <1>3 DEF Fields
  <1>6. GcCell(new, g) = cell
    BY <1>2, <1>3, <1>5 DEF GcCell
  <1> HIDE DEF cell
  <1>7. /\ f.GcState = "COPY_WRITE" => cell.kind = "copy" /\ cell.blk = f.GcCopyIndex
        /\ f.GcState \in {"V_SP", "V_M"} =>
             /\ MarkedState(flash[o][0], "ERASED") /\ BlankFrom(flash[o], d + 1)
             /\ IsWLBeginning(d)
        /\ f.GcState \in {"COPY_WRITE", "V_SP", "V_M"} => d >= PerWL
        /\ f.GcState \in {"E_SP", "E_M"} => BlankFrom(flash[o], 1)
        /\ f.GcState \in {"ERASE", "E_SP", "E_M"} => d = 0
        /\ f.GcState = "COPY_WRITE" => Filling(flash[o], d)
    BY <1>1, GcCopyCell DEF GcInv, GcRunning, Busy, cell
  <1>8. CountsKnown(new, g)
    <2> SUFFICES ASSUME NEW s \in Sectors, NEW p \in Slots, Marked(new[s][p])
                 PROVE  new[s][p].cnt <= f.StateCount
      BY <1>5 DEF CountsKnown
    <2>1. CASE new[s][p] = flash[s][p]
      BY <1>1, <2>1 DEF CountsKnown
    <2>2. CASE new[s][p] # flash[s][p]
      <3>1. s = o
        BY <1>2, <1>4, <2>2
      <3>2. f.GcState # "ERASE"
        <4> SUFFICES ASSUME f.GcState = "ERASE" PROVE FALSE
          OBVIOUS
        <4>1. p >= 0
          BY SlotFacts
        <4>2. new[s][p] = Blank
          BY <1>2, <3>1, <4>1 DEF BlankFrom
        <4> QED
          BY <4>2, BuiltCells DEF Marked
      <3>3. p = d
        BY <1>2, <2>2, <3>1, <3>2
      <3>4. f.GcState \notin {"V_SP", "E_SP", "COPY_WRITE"}
        <4>1. f.GcState \in {"V_SP", "E_SP"} => cell.mark = "none"
          BY DEF cell, GcCell, StatePage
        <4>2. f.GcState = "COPY_WRITE" => cell.kind = "copy"
          BY <1>7
        <4> QED
          BY <1>2, <2>2, <3>1, <3>3, <4>1, <4>2 DEF Marked
      <3>5. new[s][p].cnt = f.StateCount
        BY <1>2, <3>1, <3>2, <3>3, <3>4 DEF Busy
      <3>6. f.StateCount \in Nat
        BY <1>1 DEF IsFee
      <3> QED
        BY <3>5, <3>6
    <2> QED
      BY <2>1, <2>2
  <1>9. GcOver(new, g)
    <2>1. CASE f.GcState = "COPY_WRITE"
      <3>1. /\ new[o][d] = cell /\ d \in Slots /\ flash[o][d] = Blank /\ d >= PerWL
            /\ \A p \in Slots : p # d => new[o][p] = flash[o][p]
            /\ Filling(flash[o], d) /\ cell.kind = "copy"
        BY <1>2, <1>7, <2>1
      <3>2. PerWL \in Nat \ {0} /\ 0 \in Slots /\ d # 0 /\ cell # Blank /\ Slots \subseteq Nat
        BY <3>1, SlotFacts, BuiltCells
      <3>3. MarkedState(new[o][0], "ERASED") /\ NoValidIn(new[o])
        BY <3>1, <3>2 DEF Filling, NoValidIn, IsState
      <3>4. BlankFrom(new[o], d + 1) /\ d + 1 >= PerWL
        <4>1. \A p \in Slots : p >= d + 1 => p # d /\ p >= d
          BY <1>4, <3>2
        <4>2. d + 1 >= PerWL
          BY <1>4, <3>1, <3>2
        <4> QED
          BY <3>1, <4>1, <4>2 DEF Filling, Frontier, BlankFrom
      <3>5. new[o][WLBeginning(d)] # Blank
        <4>1. WLBeginning(d) \in Slots /\ (IsWLBeginning(d) => WLBeginning(d) = d)
          BY <1>4, <3>1, WordlineFacts, WordlineSlots
        <4> QED
          BY <3>1, <3>2, <4>1 DEF Filling, Frontier
      <3>6. IsWLBeginning(d + 1) \/ new[o][WLBeginning(d + 1)] # Blank
        BY <1>4, <3>5, WordlineOfNext
      <3>7. Filling(new[o], d + 1)
        BY <3>3, <3>4, <3>6 DEF Filling, Frontier
      <3> QED
        BY <1>3, <1>5, <1>6, <2>1, <3>1, <3>7 DEF GcOver
    <2>2. CASE f.GcState \in {"V_SP", "E_SP"}
      BY <1>2, <1>3, <1>5, <1>6, <2>2 DEF GcOver
    <2>3. CASE f.GcState = "ERASE"
      BY <1>2, <1>3, <1>5, <1>6, <2>3 DEF GcOver
    <2>4. CASE f.GcState \in {"V_M", "E_M"}
      BY <1>2, <1>3, <1>5, <1>6, <2>4 DEF GcOver
    <2> QED
      BY <2>1, <2>2, <2>3, <2>4 DEF Busy
  <1>10. GcInv(new, g, NoJob)
    <2>1. f.GcState \in {"V_SP", "V_M"} =>
            MarkedState(new[o][0], "ERASED") /\ BlankFrom(new[o], d + 1) /\ IsWLBeginning(d)
      <3>1. 0 \in Slots /\ (d >= PerWL => d # 0) /\ \A p \in Slots : p >= d + 1 => p # d
        BY <1>4, SlotFacts
      <3> QED
        BY <1>2, <1>7, <3>1 DEF BlankFrom
    <2>2. f.GcState \in {"E_SP", "E_M"} => BlankFrom(new[o], 1)
      <3>1. \A p \in Slots : p >= 1 => p # 0
        OBVIOUS
      <3> QED
        BY <1>2, <1>7, <3>1 DEF BlankFrom
    <2>3. f.GcState = "COPY_WRITE" =>
            LET b == f.GcCopyIndex
            IN b \in Blocks /\ f.GcBlock = b /\ f.Cache[b] # NoAddr /\ f.Cache[b].sector = c
      BY <1>1 DEF GcInv
    <2>4. f.GcState \in {"COPY_WRITE", "V_SP", "V_M"} => d \in Slots /\ d >= PerWL
      BY <1>2, <1>7
    <2>5. f.GcState \notin {"IDLE", "REQUESTED", "START_COPY"} /\ f.GcState \in Busy
      BY DEF Busy
    <2> QED
      BY <1>2, <1>3, <1>5, <1>7, <1>9, <2>1, <2>2, <2>3, <2>4, <2>5 DEF GcInv
  <1>11. ASSUME NEW b \in Blocks, f.GcState \in {"COPY_WRITE", "V_SP", "V_M"},
                f.GcState = "COPY_WRITE" => b # f.GcCopyIndex
         PROVE  /\ CopiesOf(new[o], b) = CopiesOf(flash[o], b)
                /\ \A a \in CopiesOf(flash[o], b) : new[o][a] = flash[o][a]
    <2>1. ASSUME NEW p \in Slots
          PROVE  (new[o][p].kind = "copy" /\ new[o][p].blk = b)
                   <=> (flash[o][p].kind = "copy" /\ flash[o][p].blk = b)
      <3>1. CASE p # d
        BY <1>2, <1>11, <3>1
      <3>2. CASE p = d
        BY <1>2, <1>7, <1>11, <3>2, BuiltCells
      <3> QED
        BY <3>1, <3>2
    <2>2. CopiesOf(new[o], b) = CopiesOf(flash[o], b)
      BY <2>1 DEF CopiesOf
    <2>3. ASSUME NEW a \in CopiesOf(flash[o], b) PROVE new[o][a] = flash[o][a]
      <3>1. a \in Slots /\ flash[o][a].kind = "copy"
        BY DEF CopiesOf
      <3>2. a # d
        BY <1>2, <1>11, <3>1, BuiltCells
      <3> QED
        BY <1>2, <1>11, <3>1, <3>2
    <2> QED
      BY <2>2, <2>3
  <1>12. CacheInv(new, g, NoJob)
    <2> SUFFICES ASSUME f.CacheUpdated PROVE CacheInv(new, g, NoJob)
      BY <1>5 DEF CacheInv
    <2>1. Ack(flash, f, j) = flash[c] /\ Ack(new, g, NoJob) = flash[c]
      BY <1>2, <1>3 DEF Ack
    <2>2. ASSUME NEW b \in Blocks PROVE CacheOk(new, g, flash[c], b)
      <3>1. CacheOk(flash, f, flash[c], b)
        BY <1>1, <2>1 DEF CacheInv
      <3>2. Moved(g, b) <=> Moved(f, b)
        BY <1>3, <1>5 DEF Moved
      <3>3. f.GcState = "COPY_WRITE" /\ b = f.GcCopyIndex => ~Moved(f, b) /\ f.Cache[b] # NoAddr
        BY <1>1, <1>4 DEF GcInv, Moved
      <3>4. Moved(f, b) => f.GcState \in {"COPY_WRITE", "V_SP", "V_M"}
        BY <3>1 DEF CacheOk, Copying, Busy
      <3>5. f.Cache[b] = NoAddr /\ f.GcState \in Copying => CopiesOf(new[o], b) = {}
        <4>1. f.GcState \in Copying => f.GcState \in {"COPY_WRITE", "V_SP", "V_M"}
          BY DEF Copying, Busy
        <4> QED
          BY <1>11, <3>1, <3>3, <4>1 DEF CacheOk
      <3>6. Moved(f, b) =>
              /\ LatestIs(new[o], b, f.Cache[b].slot)
              /\ new[o][f.Cache[b].slot] = flash[o][f.Cache[b].slot]
        <4> SUFFICES ASSUME Moved(f, b)
                     PROVE  /\ LatestIs(new[o], b, f.Cache[b].slot)
                            /\ new[o][f.Cache[b].slot] = flash[o][f.Cache[b].slot]
          OBVIOUS
        <4>1. LatestIs(flash[o], b, f.Cache[b].slot)
          BY <3>1 DEF CacheOk, Moved
        <4>2. /\ CopiesOf(new[o], b) = CopiesOf(flash[o], b)
              /\ \A a \in CopiesOf(flash[o], b) : new[o][a] = flash[o][a]
          BY <1>11, <3>3, <3>4
        <4> QED
          BY <4>1, <4>2 DEF LatestIs
      <3> QED
        BY <1>3, <1>5, <3>1, <3>2, <3>5, <3>6 DEF CacheOk
    <2>3. f.GcState \in {"START_COPY", "COPY_WRITE"} /\ ~f.BlkModified =>
            \A b \in Blocks : b < f.GcCopyIndex => Moved(f, b) \/ f.Cache[b] = NoAddr
      BY <1>1 DEF CacheInv
    <2> QED
      BY <1>3, <1>5, <2>1, <2>2, <2>3 DEF CacheInv, Moved
  <1>13. StartInv(new, g, NoJob) /\ PrepInv(new, g, NoJob)
    <2>1. ~f.CacheUpdated => Ready(new[c], f.NextFreeWL[c])
      BY <1>1, <1>2 DEF StartInv
    <2> QED
      BY <1>3, <1>5, <2>1 DEF StartInv, PrepInv
  <1> QED
    BY <1>2, <1>3, <1>8, <1>10, <1>12, <1>13 DEF Inv, new, g

\* The end of a job keeps the invariant.
LEMMA JobEndStep ==
  ASSUME IInv, JobEndNotification
  PROVE  IInv'
  <1> DEFINE b == fee.Req.blk
  <1>1. /\ Inv(flash, fee, job) /\ DoubtInv /\ job # NoJob /\ job' = NoJob
        /\ flash' = After(flash, job.sector, Finished(job))
        /\ fee' = CASE job.op = "read" -> [fee EXCEPT !.Req = NoReq]
                    [] job.op # "read" /\ job.owner = "user" -> [fee EXCEPT !.UserJob = "PASS"]
                    [] OTHER -> [fee EXCEPT !.IntrJob = "PASS"]
        /\ recovered' = Recovered(flash') /\ doubt' = NewDoubt
        /\ FlashOk(flash) /\ IsFee(fee) /\ UserInv(flash, fee, job)
    BY DEF IInv, Inv, JobEndNotification, JobEnd, After
  <1>2. FlashOk(flash')
    BY <1>1, FlashAfterJob
  <1>3. /\ recovered \in [Blocks -> Values \cup {NoValue}]
        /\ recovered' \in [Blocks -> Values \cup {NoValue}]
        /\ doubt \in [Blocks -> SUBSET (Values \cup {NoValue})]
    BY <1>1, <1>2, RecoveredValues DEF DoubtInv
  <1>4. job.owner = "user" /\ fee.Req.stage = "compare" => Stage(fee, "compare")
    <2>1. CASE fee.Req # NoReq
      BY <2>1 DEF Stage
    <2>2. CASE fee.Req = NoReq
      <3>1. IntrRuns(job)
        BY <1>1, <2>2 DEF UserInv, Stage
      <3> QED
        BY <3>1 DEF IntrRuns
    <2> QED
      BY <2>1, <2>2
  <1>5. Stage(fee, "compare") => b \in Blocks
    BY <1>1, RequestFacts DEF Stage, IsFee
  <1>6. doubt' \in [Blocks -> SUBSET (Values \cup {NoValue})]
    <2>1. CASE job.owner = "user" /\ fee.Req.stage = "compare" /\ recovered' # recovered
      <3>1. doubt' = [doubt EXCEPT ![b] = @ \cup {recovered[b], recovered'[b]}] /\ b \in Blocks
        BY <1>1, <1>4, <1>5, <2>1 DEF NewDoubt
      <3> HIDE DEF b
      <3>2. doubt[b] \cup {recovered[b], recovered'[b]} \in SUBSET (Values \cup {NoValue})
        BY <1>3, <3>1
      <3> QED
        BY <1>3, <3>1, <3>2
    <2>2. CASE ~(job.owner = "user" /\ fee.Req.stage = "compare" /\ recovered' # recovered)
      BY <1>1, <1>3, <2>2 DEF NewDoubt
    <2> QED
      BY <2>1, <2>2
  <1>7. CASE ~IntrRuns(job) /\ Stage(fee, "compare")
    <2>1. job.op = "program" /\ job.owner = "user"
      BY <1>1, <1>7 DEF UserInv, Programs, IsJob
    <2>2. fee' = [fee EXCEPT !.UserJob = "PASS"]
      BY <1>1, <2>1
    <2>3. /\ Inv(flash', fee', job')
          /\ \A a \in Slots : flash[Cur(fee)][a].kind = "copy"
                              => flash'[Cur(fee)][a] = flash[Cur(fee)][a]
          /\ flash'[Oth(fee)] = flash[Oth(fee)]
      <3> DEFINE new == After(flash, job.sector, Finished(job))
                 g == [fee EXCEPT !.UserJob = "PASS"]
      <3>1. /\ Inv(new, g, NoJob)
            /\ \A a \in Slots : flash[Cur(fee)][a].kind = "copy"
                                => new[Cur(fee)][a] = flash[Cur(fee)][a]
            /\ new[Oth(fee)] = flash[Oth(fee)]
        BY <1>1, <1>7, CopyEnds
      <3> HIDE DEF new, g
      <3>2. flash' = new /\ fee' = g /\ job' = NoJob
        BY <1>1, <2>2 DEF new, g
      <3> QED
        BY <3>1, <3>2
    <2>4. fee'.Req = fee.Req /\ fee'.Cache = fee.Cache
      BY <1>1, <2>2 DEF IsFee, Fields
    <2>5. fee.CacheUpdated /\ b \in Blocks
      BY <1>1, <1>5, <1>7 DEF UserInv
    <2> DEFINE at == fee.Cache[b]
    <2>6. Content(at) \in {recovered[b]} \cup doubt[b]
      BY <1>1, <2>5, CacheShows DEF CacheShowsStore
    <2>7. Content(at)' = Content(at)
      <3>1. CASE at = NoAddr
        BY <2>4, <3>1 DEF Content
      <3>2. CASE at # NoAddr
        <4>1. CacheOk(flash, fee, flash[Cur(fee)], b)
          <5>1. ~Landed(fee, job)
            BY <1>1 DEF Landed
          <5>2. Ack(flash, fee, job) = flash[Cur(fee)]
            BY <5>1 DEF Ack
          <5>3. CacheInv(flash, fee, job)
            BY <1>1 DEF Inv
          <5> QED
            BY <2>5, <5>2, <5>3 DEF CacheInv
        <4>2. at \in Addresses
          BY <1>1, <2>5, <3>2 DEF IsFee
        <4>3. at.sector \in {0, 1} /\ Cur(fee) \in {0, 1} /\ Oth(fee) \in {0, 1}
              /\ Oth(fee) # Cur(fee)
          <5>1. at.sector \in Sectors
            BY <4>2, AddressFacts
          <5>2. fee.CurrSector \in Sectors
            BY <1>1 DEF IsFee
          <5> QED
            BY <5>1, <5>2, SlotFacts DEF Cur, Oth
        <4>4. CASE at.sector = Oth(fee)
          BY <2>3, <2>4, <3>2, <4>4 DEF Content
        <4>5. CASE at.sector # Oth(fee)
          <5>1. at.sector = Cur(fee) /\ ~Moved(fee, b)
            BY <4>3, <4>5 DEF Moved
          <5>2. LatestIs(flash[Cur(fee)], b, at.slot)
            BY <3>2, <4>1, <5>1 DEF CacheOk
          <5>3. at.slot \in Slots /\ flash[Cur(fee)][at.slot].kind = "copy"
            BY <5>2 DEF LatestIs, CopiesOf
          <5>4. flash'[Cur(fee)][at.slot] = flash[Cur(fee)][at.slot]
            BY <2>3, <5>3
          <5> QED
            BY <2>4, <3>2, <5>1, <5>4 DEF Content
        <4> QED
          BY <4>4, <4>5
      <3> QED
        BY <3>1, <3>2
    <2>8. Content(at)' \in {recovered'[b]} \cup doubt'[b]
      <3>1. CASE recovered' = recovered
        <4>1. doubt' = doubt
          BY <1>1, <3>1 DEF NewDoubt
        <4> QED
          BY <2>6, <2>7, <3>1, <4>1
      <3>2. CASE recovered' # recovered
        <4>1. doubt' = [doubt EXCEPT ![b] = @ \cup {recovered[b], recovered'[b]}]
          BY <1>1, <1>7, <2>1, <3>2 DEF NewDoubt, Stage
        <4>2. doubt'[b] = doubt[b] \cup {recovered[b], recovered'[b]}
          BY <1>3, <2>5, <4>1
        <4> QED
          BY <2>6, <2>7, <4>2
      <3> QED
        BY <3>1, <3>2
    <2>9. fee'.Cache[fee'.Req.blk] = at /\ fee'.Req.blk = b
      BY <2>4
    <2>10. DoubtInv'
      BY <1>1, <1>6, <2>4, <2>8, <2>9 DEF DoubtInv
    <2> QED
      BY <2>3, <2>10 DEF IInv, JobEndNotification, JobEnd
  <1>8. CASE ~(~IntrRuns(job) /\ Stage(fee, "compare"))
    <2>1. Inv(flash', fee', job') /\ ~Landed(fee', job')
      <3>1. CASE ~IntrRuns(job)
        <4>1. Stage(fee, "reading")
          BY <1>1, <1>8, <3>1 DEF UserInv
        <4>2. /\ Inv(flash, [fee EXCEPT !.Req = NoReq], NoJob) /\ job.op = "read"
              /\ flash' = flash
          BY <1>1, <3>1, <4>1, ReadEnds
        <4>3. fee' = [fee EXCEPT !.Req = NoReq]
          BY <1>1, <4>2
        <4>4. fee'.Req = NoReq
          BY <1>1, <4>3 DEF IsFee, Fields
        <4> QED
          BY <1>1, <4>2, <4>3, <4>4 DEF Landed, Stage
      <3>2. CASE IntrRuns(job)
        <4>1. job.owner = "intr" /\ job.op # "read"
          <5>1. job.op # "read"
            BY <1>1, <3>2, JobForms, PrepJobSafe, RepairSafe, GcJobSafe DEF Inv
          <5> QED
            BY <3>2, <5>1 DEF IntrRuns
        <4>2. fee' = [fee EXCEPT !.IntrJob = "PASS"]
          BY <1>1, <4>1
        <4>3. Inv(flash', fee', job')
          BY <1>1, <3>2, <4>2, JobForms, PrepEnds, RepairEnds, GcEnds
        <4>4. ~Stage(fee, "compare")
          BY <1>1, <3>2 DEF UserInv, Programs, IsJob, IntrRuns
        <4>5. ~Stage(fee', "compare")
          BY <1>1, <4>2, <4>4 DEF Stage, IsFee, Fields
        <4> QED
          BY <4>3, <4>5 DEF Landed
      <3> QED
        BY <3>1, <3>2
    <2>2. DoubtInv'
      BY <1>1, <1>6, <2>1 DEF DoubtInv
    <2> QED
      BY <2>1, <2>2 DEF IInv, JobEndNotification, JobEnd
  <1> QED
    BY <1>7, <1>8

-----------------------------------------------------------------------------
(* What the parts of the invariant depend on.                               *)

\* What the collection's part of the invariant depends on.
LEMMA GcFrame ==
  ASSUME NEW fl, NEW f, NEW g, NEW j, NEW k, GcInv(fl, f, j),
         g.InitGCState = f.InitGCState, g.GcState = f.GcState, g.IntrJob = f.IntrJob,
         g.CurrSector = f.CurrSector, g.NextFreeWL = f.NextFreeWL, g.GcDest = f.GcDest,
         g.GcCopyIndex = f.GcCopyIndex, g.GcBlock = f.GcBlock, g.Cache = f.Cache,
         g.StateCount = f.StateCount, IntrRuns(j) \/ IntrRuns(k) => k = j
  PROVE  GcInv(fl, g, k)
  <1>1. Cur(g) = Cur(f) /\ Oth(g) = Oth(f)
    BY DEF Cur, Oth
  <1>2. (Quiet(f, j) <=> Quiet(g, k)) /\ (Over(f, j) <=> Over(g, k))
    BY DEF Quiet, Over
  <1>3. GcCell(fl, g) = GcCell(fl, f)
    BY <1>1 DEF GcCell
  <1>4. GcOver(fl, f) => GcOver(fl, g)
    BY <1>1, <1>3 DEF GcOver
  <1>5. CountsBelow(fl, f) => CountsBelow(fl, g)
    BY DEF CountsBelow
  <1>6. ASSUME GcRunning(fl, f, j), f.GcState \in Busy PROVE GcRunning(fl, g, k)
    <2>1. CASE f.GcState = "ERASE"
      BY <1>1, <1>6, <2>1 DEF GcRunning
    <2>2. CASE f.GcState # "ERASE"
      <3>1. IntrRuns(j)
        BY <1>6, <2>2 DEF GcRunning, Busy, Programs, Marks, IsJob, IntrRuns
      <3> QED
        BY <1>1, <1>3, <1>5, <1>6, <3>1 DEF GcRunning
    <2> QED
      BY <2>1, <2>2
  <1> QED
    BY <1>1, <1>2, <1>4, <1>6 DEF GcInv

\* What the cache's part depends on.
LEMMA CacheFrame ==
  ASSUME NEW fl, NEW f, NEW g, NEW j, NEW k, CacheInv(fl, f, j),
         g.CacheUpdated = f.CacheUpdated, g.Cache = f.Cache, g.Copied = f.Copied,
         g.GcState = f.GcState, g.BlkModified = f.BlkModified,
         g.GcCopyIndex = f.GcCopyIndex, g.CurrSector = f.CurrSector,
         Ack(fl, g, k) = Ack(fl, f, j)
  PROVE  CacheInv(fl, g, k)
  <1>1. Cur(g) = Cur(f) /\ Oth(g) = Oth(f)
    BY DEF Cur, Oth
  <1>2. \A b : Moved(g, b) <=> Moved(f, b)
    BY <1>1 DEF Moved
  <1>3. ASSUME NEW b \in Blocks, CacheOk(fl, f, Ack(fl, f, j), b)
        PROVE  CacheOk(fl, g, Ack(fl, g, k), b)
    BY <1>1, <1>2, <1>3 DEF CacheOk
  <1> QED
    BY <1>2, <1>3 DEF CacheInv

\* The parts about the start-up no longer say anything once it is over.
LEMMA StartedUp ==
  ASSUME NEW fl, NEW f, NEW j, f.InitGCState = "COMPLETE", f.CacheUpdated
  PROVE  PrepInv(fl, f, j) /\ StartInv(fl, f, j)
  BY DEF PrepInv, StartInv

\* The next job of the main function alone.
LEMMA NextMainJob ==
  ASSUME NEW fl, NEW f, NEW j, Inv(fl, f, j),
         NEW m \in {"INITGC", "CACHEUPDATE", "READ", "WRITE", "GC", "NONE"},
         Stage(f, "compare") => m = "WRITE", Stage(f, "reading") => m = "READ",
         NEW g, DOMAIN g = Fields, g.MainJob = m,
         \A x \in Fields : x # "MainJob" => g[x] = f[x],
         MainInv(g, j)
  PROVE  Inv(fl, g, j)
  <1>1. /\ FlashOk(fl) /\ IsFee(f) /\ CountsKnown(fl, f) /\ UserInv(fl, f, j)
        /\ PrepInv(fl, f, j) /\ StartInv(fl, f, j) /\ GcInv(fl, f, j) /\ CacheInv(fl, f, j)
    BY DEF Inv
  <1>2. g.MainJob = m /\ \A x \in Fields : x # "MainJob" => g[x] = f[x]
    OBVIOUS
  <1>3. IsFee(g)
    <2>1. g.CacheUpdated = f.CacheUpdated /\ g.GcInit = f.GcInit /\ g.BlkModified = f.BlkModified
      BY <1>2 DEF Fields
    <2>2. /\ g.CacheUpdated \in BOOLEAN /\ g.GcInit \in BOOLEAN /\ g.BlkModified \in BOOLEAN
      BY <1>1, <2>1, Zenon DEF IsFee
    <2> QED
      BY <1>1, <1>2, <2>2 DEF IsFee, Fields
  <1>4. MainInv(g, j)
    OBVIOUS
  <1>5. Cur(g) = Cur(f) /\ Oth(g) = Oth(f) /\ \A st : Stage(g, st) <=> Stage(f, st)
    BY <1>2 DEF Fields, Cur, Oth, Stage
  <1>6. UserInv(fl, g, j)
    BY <1>1, <1>2, <1>5 DEF Fields, UserInv
  <1>7. PrepInv(fl, g, j) /\ CountsKnown(fl, g)
    BY <1>1, <1>2, <1>5 DEF Fields, PrepInv, CountsKnown, Quiet
  <1>8. StartInv(fl, g, j)
    <2>1. DirtySector(g) = DirtySector(f)
      BY <1>2 DEF Fields, DirtySector
    <2> QED
      BY <1>1, <1>2, <1>5, <2>1 DEF Fields, StartInv, Quiet
  <1>9. GcInv(fl, g, j)
    BY <1>1, <1>2, GcFrame DEF Fields
  <1>10. CacheInv(fl, g, j)
    <2>1. Ack(fl, g, j) = Ack(fl, f, j)
      BY <1>2, <1>5 DEF Fields, Ack, Landed
    <2> QED
      BY <1>1, <1>2, <2>1, CacheFrame DEF Fields
  <1> QED
    BY <1>1, <1>2, <1>3, <1>4, <1>6, <1>7, <1>8, <1>9, <1>10 DEF Inv

\* The check that chooses the page of the next write.
LEMMA CheckedFrontier ==
  ASSUME NEW f, NEW cells, f.NextFreePage \in Nat, Frontier(cells, f.NextFreePage)
  PROVE  CheckedPage(f) \in Nat /\ Frontier(cells, CheckedPage(f))
  <1> DEFINE d == f.NextFreePage
  <1>1. CASE CheckedPage(f) = d
    BY <1>1
  <1>2. CASE CheckedPage(f) # d
    <2>1. CheckedPage(f) = NextWL(d)
      BY <1>2 DEF CheckedPage
    <2>2. NextWL(d) \in Nat /\ d < NextWL(d) /\ IsWLBeginning(NextWL(d))
      BY WordlineFacts
    <2>3. NextWL(d) >= PerWL
      BY <2>2, SlotFacts DEF Frontier
    <2>4. \A p \in Slots : p >= NextWL(d) => p >= d
      BY <2>2, SlotFacts
    <2> QED
      BY <2>1, <2>2, <2>3, <2>4 DEF Frontier, BlankFrom
  <1> QED
    BY <1>1, <1>2

\* Fee_lPerformCurrBlkCheck keeps the invariant.
LEMMA PageChecked ==
  ASSUME NEW fl, NEW f, NEW j, Inv(fl, f, j), f.CacheUpdated, ~Stage(f, "compare")
  PROVE  LET g == CurrBlkCheck(f)
         IN /\ Inv(fl, g, j) /\ g.NextFreePage = CheckedPage(f)
            /\ g.GcState = f.GcState \/ (f.GcState = "IDLE" /\ g.GcState = "REQUESTED")
            /\ \A x \in Fields \ {"NextFreePage", "GcState"} : g[x] = f[x]
  <1> DEFINE g == CurrBlkCheck(f)
             d == CheckedPage(f)
  <1>1. /\ FlashOk(fl) /\ IsFee(f) /\ CountsKnown(fl, f) /\ UserInv(fl, f, j) /\ MainInv(f, j)
        /\ PrepInv(fl, f, j) /\ StartInv(fl, f, j) /\ GcInv(fl, f, j) /\ CacheInv(fl, f, j)
        /\ f.InitGCState = "COMPLETE"
    BY DEF Inv, MainInv
  <1>2. d \in Nat /\ Frontier(fl[Cur(f)], d)
    BY <1>1, CheckedFrontier DEF UserInv, IsFee
  <1>3. /\ g.NextFreePage = d
        /\ g.GcState = f.GcState \/ (f.GcState = "IDLE" /\ g.GcState = "REQUESTED")
        /\ \A x \in Fields \ {"NextFreePage", "GcState"} : g[x] = f[x]
        /\ DOMAIN g = Fields
    BY <1>1 DEF CurrBlkCheck, IsFee, Fields
  <1> HIDE DEF g, d
  <1>4. IsFee(g)
    <2>1. g.CacheUpdated = f.CacheUpdated /\ g.GcInit = f.GcInit /\ g.BlkModified = f.BlkModified
      BY <1>3 DEF Fields
    <2>2. /\ g.CacheUpdated \in BOOLEAN /\ g.GcInit \in BOOLEAN /\ g.BlkModified \in BOOLEAN
      BY <1>1, <2>1, Zenon DEF IsFee
    <2> QED
      BY <1>1, <1>2, <1>3, <2>2 DEF IsFee, Fields
  <1>5. Cur(g) = Cur(f) /\ Oth(g) = Oth(f) /\ \A st : Stage(g, st) <=> Stage(f, st)
    BY <1>3 DEF Fields, Cur, Oth, Stage
  <1>6. UserInv(fl, g, j)
    BY <1>1, <1>2, <1>3, <1>5 DEF Fields, UserInv
  <1>7. MainInv(g, j)
    BY <1>1, <1>3 DEF Fields, MainInv, Quiet
  <1>8. PrepInv(fl, g, j) /\ StartInv(fl, g, j) /\ CountsKnown(fl, g)
    BY <1>1, <1>3, StartedUp DEF Fields, CountsKnown
  <1>9. GcInv(fl, g, j)
    <2>1. CASE g.GcState = f.GcState
      BY <1>1, <1>3, <2>1, GcFrame DEF Fields
    <2>2. CASE f.GcState = "IDLE" /\ g.GcState = "REQUESTED"
      BY <1>1, <1>3, <1>5, <2>2 DEF GcInv, Fields, Busy, Quiet
    <2> QED
      BY <1>3, <2>1, <2>2
  <1>10. CacheInv(fl, g, j)
    <2>1. Ack(fl, g, j) = fl[Cur(f)] /\ Ack(fl, f, j) = fl[Cur(f)]
      BY <1>5 DEF Ack, Landed
    <2>2. CASE g.GcState = f.GcState
      BY <1>1, <1>3, <2>1, <2>2, CacheFrame DEF Fields
    <2>3. CASE f.GcState = "IDLE" /\ g.GcState = "REQUESTED"
      <3>1. \A b : Moved(g, b) <=> Moved(f, b)
        BY <1>3, <1>5 DEF Moved, Fields
      <3>2. ASSUME NEW b \in Blocks, CacheOk(fl, f, fl[Cur(f)], b)
            PROVE  CacheOk(fl, g, fl[Cur(f)], b)
        BY <1>3, <1>5, <2>3, <3>1, <3>2 DEF CacheOk, Fields, Copying
      <3> QED
        BY <1>1, <1>3, <2>1, <2>3, <3>2 DEF CacheInv, Fields
    <2> QED
      BY <1>3, <2>2, <2>3
  <1> QED
    BY <1>1, <1>3, <1>4, <1>6, <1>7, <1>8, <1>9, <1>10 DEF Inv, g, d

\* A further job of the main function is legal when the driver's own jobs
\* do not need the one it had.
LEMMA MainInvOf ==
  ASSUME NEW f, NEW j, IsFee(f), MainInv(f, j),
         NEW m \in {"INITGC", "CACHEUPDATE", "READ", "WRITE", "GC", "NONE"},
         IntrRuns(j) => m \in {"INITGC", "GC"},
         f.CacheUpdated => m # "INITGC",
         ~f.CacheUpdated => m \in {"INITGC", "CACHEUPDATE"},
         m = "CACHEUPDATE" => f.InitGCState = "COMPLETE",
         f.InitGCState # "COMPLETE" => m = "INITGC",
         f.GcState \in {"COPY_WRITE", "V_SP", "V_M", "E_SP", "E_M", "FAIL"} => m = "GC"
  PROVE  MainInv([f EXCEPT !.MainJob = m], j)
  <1> DEFINE g == [f EXCEPT !.MainJob = m]
  <1>1. g.MainJob = m /\ \A x \in Fields : x # "MainJob" => g[x] = f[x]
    BY DEF IsFee, Fields
  <1> HIDE DEF g
  <1>2. Quiet(g, j) <=> Quiet(f, j)
    BY <1>1 DEF Fields, Quiet
  <1>3. MainInv(g, j)
    BY <1>1, <1>2 DEF Fields, MainInv
  <1> QED
    BY <1>3 DEF g

\* Fee_lIsWriteInvldAllowedbyGC keeps it.
LEMMA AskGCStep ==
  ASSUME NEW f, Inv(flash, f, job), f.MainJob = "GC", f.GcState # "IDLE", Requested(f)
  PROVE  LET g == AskGC(f)
         IN /\ Inv(flash, g, job)
            /\ \A x \in Fields \ {"MainJob", "NextFreePage"} : g[x] = f[x]
            /\ g.MainJob \in {"GC", "WRITE"}
  <1>1. IsFee(f) /\ MainInv(f, job) /\ GcInv(flash, f, job) /\ f.CacheUpdated
        /\ f.InitGCState = "COMPLETE"
    BY DEF Inv, MainInv
  <1>2. ~Stage(f, "compare") /\ ~Stage(f, "reading")
    BY DEF Requested, Stage
  <1>3. CASE IsImmediate(f.Req) /\ f.GcState = "START_COPY"
    <2>1. CASE job = NoJob
      <3>1. AskGC(f) = [f EXCEPT !.MainJob = "WRITE"]
        BY <1>3, <2>1 DEF AskGC
      <3>2. MainInv([f EXCEPT !.MainJob = "WRITE"], job)
        BY <1>1, <1>3, <2>1, MainInvOf DEF IntrRuns
      <3> DEFINE g == [f EXCEPT !.MainJob = "WRITE"]
      <3>5. DOMAIN g = Fields /\ g.MainJob = "WRITE" /\ MainInv(g, job)
            /\ \A x \in Fields : x # "MainJob" => g[x] = f[x]
        BY <1>1, <3>2 DEF IsFee, Fields
      <3> HIDE DEF g
      <3>3. Inv(flash, g, job) /\ g.MainJob = "WRITE"
            /\ \A x \in Fields : x # "MainJob" => g[x] = f[x]
        BY <1>2, <3>5, NextMainJob
      <3>4. AskGC(f) = g
        BY <3>1 DEF g
      <3> QED
        BY <3>3, <3>4
    <2>2. CASE job # NoJob
      BY <1>1, <1>3, <2>2 DEF AskGC
    <2> QED
      BY <2>1, <2>2
  <1>4. CASE f.GcState = "ERASE" /\ ~f.GcInit
    <2> DEFINE g == CurrBlkCheck(f)
    <2>1. /\ Inv(flash, g, job) /\ g.GcState = "ERASE"
          /\ \A x \in Fields \ {"NextFreePage"} : g[x] = f[x]
      BY <1>1, <1>2, <1>4, PageChecked
    <2>2. g.MainJob = "GC" /\ ~Stage(g, "compare") /\ ~Stage(g, "reading")
      BY <1>2, <2>1 DEF Fields, Stage
    <2> HIDE DEF g
    <2>3. CASE job = NoJob /\ BlkWritable(f)
      <3> DEFINE h == [g EXCEPT !.MainJob = "WRITE"]
      <3>1. AskGC(f) = h
        BY <1>4, <2>3 DEF AskGC, g
      <3>2. MainInv(h, job)
        <4>1. /\ IsFee(g) /\ MainInv(g, job) /\ g.CacheUpdated /\ g.InitGCState = "COMPLETE"
              /\ g.GcState = "ERASE"
          BY <1>1, <2>1 DEF Fields, Inv
        <4> QED
          BY <2>3, <4>1, MainInvOf DEF IntrRuns
      <3>4. IsFee(g)
        BY <2>1 DEF Inv
      <3>5. DOMAIN h = Fields /\ h.MainJob = "WRITE"
            /\ \A x \in Fields : x # "MainJob" => h[x] = g[x]
        BY <3>4 DEF IsFee, Fields
      <3> HIDE DEF h
      <3>3. Inv(flash, h, job) /\ h.MainJob = "WRITE"
            /\ \A x \in Fields : x # "MainJob" => h[x] = g[x]
        BY <2>1, <2>2, <3>2, <3>5, NextMainJob
      <3> QED
        BY <2>1, <3>1, <3>3
    <2>4. CASE ~(job = NoJob /\ BlkWritable(f))
      <3>1. AskGC(f) = g
        BY <1>4, <2>4 DEF AskGC, g
      <3> QED
        BY <2>1, <2>2, <3>1
    <2> QED
      BY <2>3, <2>4
  <1>5. CASE ~(IsImmediate(f.Req) /\ f.GcState = "START_COPY") /\ ~(f.GcState = "ERASE" /\ ~f.GcInit)
    BY <1>5 DEF AskGC
  <1> QED
    BY <1>3, <1>4, <1>5

\* Fee_lDecideMainJob keeps it and chooses READ and WRITE for a request only.
LEMMA DecideStep ==
  ASSUME NEW f, Inv(flash, f, job)
  PROVE  LET g == DecideMainJob(f)
         IN /\ Inv(flash, g, job)
            /\ \A x \in Fields \ {"MainJob", "NextFreePage"} : g[x] = f[x]
            /\ g.MainJob \in {"READ", "WRITE"} => g.Req # NoReq
            /\ g.MainJob = "READ" /\ job = NoJob => Stage(g, "toRead")
  <1>1. /\ IsFee(f) /\ MainInv(f, job) /\ GcInv(flash, f, job) /\ UserInv(flash, f, job)
    BY DEF Inv
  <1> DEFINE Good(g) ==
               /\ Inv(flash, g, job)
               /\ \A x \in Fields \ {"MainJob", "NextFreePage"} : g[x] = f[x]
               /\ g.MainJob \in {"READ", "WRITE"} => g.Req # NoReq
               /\ g.MainJob = "READ" /\ job = NoJob => Stage(g, "toRead")
             To(m) == [f EXCEPT !.MainJob = m]
  <1>2. ASSUME NEW m \in {"INITGC", "CACHEUPDATE", "READ", "WRITE", "GC", "NONE"},
               MainInv(To(m), job),
               Stage(f, "compare") => m = "WRITE", Stage(f, "reading") => m = "READ",
               m \in {"READ", "WRITE"} => f.Req # NoReq,
               m = "READ" /\ job = NoJob => Stage(f, "toRead")
        PROVE  Good(To(m))
    <2>1. (Stage(f, "compare") => m = "WRITE") /\ (Stage(f, "reading") => m = "READ")
      BY <1>2
    <2> DEFINE g == [f EXCEPT !.MainJob = m]
    <2>2. DOMAIN g = Fields /\ g.MainJob = m
          /\ \A x \in Fields : x # "MainJob" => g[x] = f[x]
      BY <1>1 DEF IsFee, Fields
    <2>3. g = To(m)
      OBVIOUS
    <2>4. MainInv(g, job)
      BY <1>2
    <2> HIDE DEF g, To
    <2>5. Inv(flash, g, job)
      BY <2>1, <2>2, <2>4, NextMainJob
    <2> QED
      BY <1>2, <2>2, <2>3, <2>5 DEF Fields, Stage
  <1> SUFFICES Good(DecideMainJob(f))
    OBVIOUS
  <1> HIDE DEF Good
  <1>3. Requested(f) => /\ f.Req # NoReq /\ Stage(f, "request") /\ ~Stage(f, "compare")
                        /\ ~Stage(f, "reading") /\ ~ReadRequested(f)
    BY DEF Requested, ReadRequested, Stage
  <1>4. ReadRequested(f) => /\ f.Req # NoReq /\ Stage(f, "toRead") /\ ~Stage(f, "compare")
                            /\ ~Stage(f, "reading") /\ ~Requested(f)
    BY DEF Requested, ReadRequested, Stage
  <1>5. f.MainJob \notin {"INITGC", "GC"} => ~IntrRuns(job)
    BY <1>1 DEF MainInv
  <1>6. AfterJob(f) \in {"GC", "NONE"} /\ (AfterJob(f) = "NONE" => f.GcState = "IDLE")
    BY DEF AfterJob
  <1>7. CASE f.MainJob = "INITGC" /\ f.InitGCState = "COMPLETE"
    <2>1. DecideMainJob(f) = To("CACHEUPDATE")
      BY <1>7 DEF DecideMainJob
    <2>2. ~IntrRuns(job) /\ ~f.CacheUpdated
      BY <1>1, <1>7 DEF MainInv, Quiet
    <2>3. f.GcState \notin {"COPY_WRITE", "V_SP", "V_M", "E_SP", "E_M", "FAIL"}
          /\ ~Stage(f, "compare") /\ ~Stage(f, "reading")
      BY <1>1, <1>7, <2>2 DEF MainInv, UserInv
    <2>4. MainInv(To("CACHEUPDATE"), job)
      BY <1>1, <1>7, <2>2, <2>3, MainInvOf
    <2>5. Good(To("CACHEUPDATE"))
      BY <1>2, <2>3, <2>4
    <2> QED
      BY <2>1, <2>5
  <1>8. CASE f.MainJob \in {"CACHEUPDATE", "NONE", "READ", "WRITE"} /\ f.CacheUpdated
    <2>1. /\ f.InitGCState = "COMPLETE" /\ ~IntrRuns(job)
          /\ f.GcState \notin {"COPY_WRITE", "V_SP", "V_M", "E_SP", "E_M", "FAIL"}
      BY <1>1, <1>5, <1>8 DEF MainInv
    <2>2. ASSUME NEW m \in {"READ", "WRITE", "GC", "NONE"} PROVE MainInv(To(m), job)
      BY <1>1, <1>8, <2>1, MainInvOf
    <2>3. f.MainJob # "WRITE" => ~Stage(f, "compare")
      BY <1>1 DEF UserInv
    <2>4. f.MainJob # "READ" => ~Stage(f, "reading")
      BY <1>1 DEF UserInv
    <2>5. CASE ReadRequested(f) /\ f.MainJob # "READ"
      <3>1. DecideMainJob(f) = To("READ")
        BY <1>4, <1>8, <2>5 DEF DecideMainJob
      <3>2. Good(To("READ"))
        BY <1>2, <1>4, <2>2, <2>5
      <3> QED
        BY <3>1, <3>2
    <2>6. CASE Requested(f) /\ f.MainJob # "WRITE"
      <3>1. DecideMainJob(f) = To("WRITE")
        BY <1>3, <1>8, <2>6 DEF DecideMainJob
      <3>2. Good(To("WRITE"))
        BY <1>2, <1>3, <2>2, <2>6
      <3> QED
        BY <3>1, <3>2
    <2>7. CASE Requested(f) /\ f.MainJob = "WRITE" /\ f.GcState # "IDLE"
      <3>1. DecideMainJob(f) = To("GC")
        BY <1>3, <2>7 DEF DecideMainJob
      <3>2. Good(To("GC"))
        BY <1>2, <1>3, <2>2, <2>7
      <3> QED
        BY <3>1, <3>2
    <2>8. CASE \/ f.MainJob = "CACHEUPDATE" /\ ~ReadRequested(f) /\ ~Requested(f)
               \/ f.MainJob \in {"READ", "WRITE"} /\ f.Req = NoReq
      <3>1. DecideMainJob(f) = To(AfterJob(f))
        BY <1>3, <1>4, <1>8, <2>8 DEF DecideMainJob
      <3>2. ~Stage(f, "compare") /\ ~Stage(f, "reading")
        BY <2>3, <2>4, <2>8 DEF Stage
      <3>3. MainInv(To(AfterJob(f)), job)
        BY <1>6, <2>2
      <3>4. Good(To(AfterJob(f)))
        <4> HIDE DEF To
        <4> QED
          BY <1>2, <1>6, <3>2, <3>3
      <3> QED
        BY <3>1, <3>4
    <2>9. CASE /\ ~(ReadRequested(f) /\ f.MainJob # "READ") /\ ~(Requested(f) /\ f.MainJob # "WRITE")
               /\ ~(Requested(f) /\ f.MainJob = "WRITE" /\ f.GcState # "IDLE")
               /\ ~(f.MainJob = "CACHEUPDATE" /\ ~ReadRequested(f) /\ ~Requested(f))
               /\ ~(f.MainJob \in {"READ", "WRITE"} /\ f.Req = NoReq)
      <3>1. DecideMainJob(f) = f
        BY <1>3, <1>4, <1>8, <2>9 DEF DecideMainJob
      <3>2. f.MainJob = "READ" /\ job = NoJob => Stage(f, "toRead")
        <4> SUFFICES ASSUME f.MainJob = "READ", job = NoJob PROVE Stage(f, "toRead")
          OBVIOUS
        <4>1. f.Req # NoReq /\ ~Requested(f)
          BY <2>9
        <4>2. f.Req.stage \in {"toRead", "reading", "compare", "stuck"}
          BY <1>1, <4>1 DEF UserInv, Requested
        <4>3. ~Stage(f, "reading") /\ ~Stage(f, "compare") /\ ~Stage(f, "stuck")
          BY <1>1, <2>1, <2>3 DEF UserInv, Reads, IsJob
        <4> QED
          BY <4>1, <4>2, <4>3 DEF Stage
      <3>3. Good(f)
        BY <2>9, <3>2 DEF Good
      <3> QED
        BY <3>1, <3>3
    <2> QED
      BY <2>5, <2>6, <2>7, <2>8, <2>9
  <1>9. CASE f.MainJob = "GC"
    <2>1. f.CacheUpdated /\ f.InitGCState = "COMPLETE" /\ ~Stage(f, "compare") /\ ~Stage(f, "reading")
      BY <1>1, <1>9 DEF MainInv, UserInv
    <2>2. CASE f.GcState = "IDLE"
      <3>1. DecideMainJob(f) = To("NONE")
        BY <1>9, <2>2 DEF DecideMainJob
      <3>2. ~IntrRuns(job)
        BY <1>1, <2>1, <2>2 DEF GcInv, Busy, Quiet
      <3>3. MainInv(To("NONE"), job)
        BY <1>1, <2>1, <2>2, <3>2, MainInvOf
      <3>4. Good(To("NONE"))
        BY <1>2, <2>1, <3>3
      <3> QED
        BY <3>1, <3>4
    <2>3. CASE f.GcState # "IDLE" /\ ReadRequested(f) /\ ReadAllowed(f)
      <3>1. DecideMainJob(f) = To("READ")
        BY <1>4, <1>9, <2>3 DEF DecideMainJob
      <3>2. f.GcState \in {"REQUESTED", "START_COPY", "ERASE"} /\ ~IntrRuns(job)
        BY <1>1, <2>1, <2>3 DEF ReadAllowed, GcInv, Busy, Quiet, IntrRuns
      <3>3. MainInv(To("READ"), job)
        BY <1>1, <2>1, <3>2, MainInvOf
      <3>4. Good(To("READ"))
        BY <1>2, <1>4, <2>1, <2>3, <3>3
      <3> QED
        BY <3>1, <3>4
    <2>4. CASE f.GcState # "IDLE" /\ Requested(f)
      <3>1. DecideMainJob(f) = AskGC(f)
        BY <1>3, <1>9, <2>4 DEF DecideMainJob
      <3>2. Good(AskGC(f))
        <4> DEFINE g == AskGC(f)
        <4>1. /\ Inv(flash, g, job) /\ g.MainJob \in {"GC", "WRITE"}
              /\ \A x \in Fields \ {"MainJob", "NextFreePage"} : g[x] = f[x]
          BY <1>9, <2>4, AskGCStep
        <4> HIDE DEF g
        <4>2. g.Req = f.Req
          BY <4>1 DEF Fields
        <4> QED
          BY <1>3, <2>4, <4>1, <4>2 DEF g, Good
      <3> QED
        BY <3>1, <3>2
    <2>5. CASE f.GcState # "IDLE" /\ ~Requested(f) /\ ~(ReadRequested(f) /\ ReadAllowed(f))
      <3>1. DecideMainJob(f) = f
        BY <1>9, <2>5 DEF DecideMainJob
      <3> QED
        BY <1>9, <3>1 DEF Good
    <2> QED
      BY <2>2, <2>3, <2>4, <2>5
  <1>10. CASE \/ f.MainJob = "INITGC" /\ f.InitGCState # "COMPLETE"
              \/ f.MainJob = "CACHEUPDATE" /\ ~f.CacheUpdated
    <2>1. DecideMainJob(f) = f
      BY <1>10 DEF DecideMainJob
    <2> QED
      BY <1>10, <2>1 DEF Good
  <1>11. \/ f.MainJob = "INITGC" /\ f.InitGCState = "COMPLETE"
         \/ f.MainJob \in {"CACHEUPDATE", "NONE", "READ", "WRITE"} /\ f.CacheUpdated
         \/ f.MainJob = "GC"
         \/ f.MainJob = "INITGC" /\ f.InitGCState # "COMPLETE"
         \/ f.MainJob = "CACHEUPDATE" /\ ~f.CacheUpdated
    BY <1>1 DEF IsFee, MainInv
  <1> QED
    BY <1>7, <1>8, <1>9, <1>10, <1>11

-----------------------------------------------------------------------------
(* The steps of the initialisation.                                         *)

\* What a step of the initialisation has to show.
LEMMA StartUpStep ==
  ASSUME NEW f, Inv(flash, f, NoJob), f.MainJob = "INITGC",
         NEW g, IsFee(g), NEW j, j = NoJob \/ IntrRuns(j),
         g.MainJob = "INITGC", ~g.CacheUpdated, g.Req = f.Req, g.UserJob = f.UserJob,
         IntrRuns(j) => g.IntrJob = "IDLE",
         g.GcState = "IDLE" \/ (g.InitGCState = "COMPLETE" /\ g.GcState = "ERASE"),
         g.InitGCState = "COMPLETE" => Quiet(g, j),
         CountsKnown(flash, g), PrepInv(flash, g, j), StartInv(flash, g, j), GcInv(flash, g, j)
  PROVE  Inv(flash, g, j)
  <1>1. FlashOk(flash) /\ UserInv(flash, f, NoJob) /\ MainInv(f, NoJob)
    BY DEF Inv
  <1>2. \A st : Stage(g, st) <=> Stage(f, st)
    BY DEF Stage
  <1>3. ~Stage(f, "compare") /\ ~Stage(f, "reading") /\ ~Stage(f, "stuck")
    <2>1. f.GcState # "FAIL"
      BY <1>1 DEF MainInv
    <2> QED
      BY <1>1, <2>1 DEF UserInv
  <1>4. UserInv(flash, g, j)
    BY <1>1, <1>2, <1>3 DEF UserInv
  <1>5. g.UserJob = "IDLE"
    BY <1>2, <1>3, <1>4 DEF UserInv
  <1>6. MainInv(g, j)
    BY <1>5 DEF MainInv
  <1>7. CacheInv(flash, g, j)
    BY DEF CacheInv
  <1> QED
    BY <1>1, <1>4, <1>6, <1>7 DEF Inv

\* A page whose marker was torn has a good one again.
LEMMA Repaired ==
  ASSUME NEW f, Inv(flash, f, NoJob), f.MainJob = "INITGC", f.InitGCState = "DIRTY",
         f.IntrJob = "PASS"
  PROVE  LET g == InitGCResult(f)
         IN Inv(flash, g, NoJob) /\ g.MainJob = "INITGC" /\ g.IntrJob = "IDLE"
  <1> DEFINE g == InitGCResult(f)
             s == DirtySector(f)
  <1>1. /\ FlashOk(flash) /\ IsFee(f) /\ CountsKnown(flash, f) /\ MainInv(f, NoJob)
        /\ StartInv(flash, f, NoJob) /\ ~f.CacheUpdated /\ f.GcState = "IDLE"
    BY DEF Inv, MainInv
  <1>2. s \in Sectors /\ Other(s) \in Sectors /\ Other(s) # s
    BY <1>1, SlotFacts DEF DirtySector, IsFee
  <1>3. /\ g.IntrJob = "IDLE" /\ g.Dirty = [f.Dirty EXCEPT ![s] = FALSE]
        /\ g.InitGCState = (IF f.Dirty[Other(s)] THEN "DIRTY" ELSE "NORMAL")
        /\ g.IntrJobFailCount = 0
        /\ DOMAIN g = Fields
        /\ \A x \in Fields \ {"IntrJob", "Dirty", "InitGCState", "IntrJobFailCount"} : g[x] = f[x]
    <2> DEFINE h == [f EXCEPT !.IntrJob = "IDLE"]
    <2>1. /\ h.IntrJob = "IDLE" /\ DOMAIN h = Fields
          /\ \A x \in Fields \ {"IntrJob"} : h[x] = f[x]
      BY <1>1 DEF IsFee, Fields
    <2>2. g = RepairResult(h, TRUE)
      BY DEF InitGCResult
    <2> HIDE DEF h, g
    <2>3. DirtySector(h) = s /\ h.Dirty = f.Dirty /\ h.RepairStep = "MARKER"
          /\ h.InitGCState = "DIRTY"
      BY <1>1, <2>1 DEF Fields, DirtySector, IsFee
    <2> HIDE DEF s
    <2>4. g = [[h EXCEPT !.Dirty[s] = FALSE,
                         !.InitGCState = IF h.Dirty[Other(s)] THEN @ ELSE "NORMAL"]
                 EXCEPT !.IntrJobFailCount = 0]
      BY <2>2, <2>3 DEF RepairResult
    <2> QED
      BY <1>1, <2>1, <2>3, <2>4 DEF Fields, IsFee
  <1> HIDE DEF g, s
  <1>4. IsFee(g)
    <2>1. g.CacheUpdated = f.CacheUpdated /\ g.GcInit = f.GcInit /\ g.BlkModified = f.BlkModified
      BY <1>3 DEF Fields
    <2>2. /\ g.CacheUpdated \in BOOLEAN /\ g.GcInit \in BOOLEAN /\ g.BlkModified \in BOOLEAN
      BY <1>1, <2>1, Zenon DEF IsFee
    <2>3. g.Dirty \in [Sectors -> BOOLEAN]
      BY <1>1, <1>2, <1>3 DEF IsFee
    <2> QED
      BY <1>1, <1>3, <2>2, <2>3 DEF IsFee, Fields
  <1>5. Cur(g) = Cur(f) /\ Oth(g) = Oth(f) /\ g.MainJob = "INITGC" /\ ~g.CacheUpdated
        /\ g.GcState = "IDLE" /\ g.Req = f.Req /\ g.UserJob = f.UserJob
    BY <1>1, <1>3 DEF Fields, Cur, Oth
  <1>6. CountsKnown(flash, g) /\ PrepInv(flash, g, NoJob) /\ GcInv(flash, g, NoJob)
    BY <1>1, <1>3 DEF Fields, CountsKnown, PrepInv, GcInv
  <1>7. Quiet(g, NoJob)
    BY <1>3 DEF Quiet, IntrRuns
  <1>8. StartInv(flash, g, NoJob)
    <2>1. \A t \in Sectors : g.Dirty[t] => t # s /\ f.Dirty[t]
      BY <1>1, <1>2, <1>3 DEF IsFee
    <2>2. g.InitGCState = "DIRTY" => g.Dirty[Other(s)]
      BY <1>1, <1>2, <1>3 DEF IsFee
    <2>3. g.InitGCState \in {"DIRTY", "NORMAL"}
      BY <1>3
    <2>4. /\ g.StatePageAddr = f.StatePageAddr /\ g.GcResumeState = f.GcResumeState
          /\ g.NextFreeWL = f.NextFreeWL /\ g.GcDest = f.GcDest
      BY <1>3 DEF Fields
    <2>5. ~IntrRuns(NoJob)
      BY DEF IntrRuns
    <2> QED
      BY <1>1, <1>2, <1>5, <1>7, <2>1, <2>2, <2>3, <2>4, <2>5 DEF StartInv
  <1>9. Inv(flash, g, NoJob)
    BY <1>3, <1>4, <1>5, <1>6, <1>7, <1>8, StartUpStep
  <1> QED
    BY <1>3, <1>5, <1>9 DEF g

\* What one more job of the preparation changes in the driver's state.
LEMMA PrepResultFields ==
  ASSUME NEW f, Inv(flash, f, NoJob), f.MainJob = "INITGC", f.InitGCState = "PREPARE",
         f.IntrJob = "PASS"
  PROVE  LET g == InitGCResult(f)
             k == f.PrepStep
         IN /\ DOMAIN g = Fields
            /\ g.IntrJob = "IDLE" /\ g.PrepStep = k + 1 /\ g.IntrJobFailCount = 0
            /\ g.InitGCState = IF k = 6 THEN "COMPLETE" ELSE "PREPARE"
            /\ k = 2 => g.PrepDest = NextWL(f.PrepDest)
            /\ k \in {4, 6} => g.PrepDest = 0
            /\ k \in {1, 3, 5} => g.PrepDest = f.PrepDest
            /\ k \in {1, 2, 3, 5} =>
                 g.StatePageAddr = f.StatePageAddr /\ g.NextFreeWL = f.NextFreeWL
            /\ k \in {4, 6} =>
                 /\ g.StatePageAddr = [f.StatePageAddr EXCEPT ![PrepSector[k]] = f.PrepDest]
                 /\ g.NextFreeWL = [f.NextFreeWL EXCEPT ![PrepSector[k]] = NextWL(f.PrepDest)]
            /\ \A x \in Fields \ {"IntrJob", "PrepStep", "IntrJobFailCount", "InitGCState",
                                  "PrepDest", "StatePageAddr", "NextFreeWL"} : g[x] = f[x]
  <1> DEFINE g == InitGCResult(f)
             h == [f EXCEPT !.IntrJob = "IDLE"]
             k == f.PrepStep
  <1>1. IsFee(f) /\ k \in 1 .. 6
    BY DEF Inv, PrepInv
  <1>2. /\ h.IntrJob = "IDLE" /\ DOMAIN h = Fields
        /\ \A x \in Fields \ {"IntrJob"} : h[x] = f[x]
    BY <1>1 DEF IsFee, Fields
  <1>3. g = PrepResult(h, TRUE)
    BY DEF InitGCResult
  <1> HIDE DEF h, g
  <1>4. /\ h.PrepStep = k /\ h.PrepDest = f.PrepDest /\ h.InitGCState = "PREPARE"
        /\ h.StatePageAddr = f.StatePageAddr /\ h.NextFreeWL = f.NextFreeWL
        /\ h.IntrJobFailCount = 0
    BY <1>1, <1>2 DEF Fields, IsFee
  <1>5. k % 2 = 1 <=> k \in {1, 3, 5}
    BY <1>1, PrepSteps
  <1>6. CASE k \in {1, 3, 5}
    <2>1. g = [h EXCEPT !.PrepStep = k + 1]
      BY <1>3, <1>4, <1>5, <1>6 DEF PrepResult
    <2> HIDE DEF k
    <2>2. /\ DOMAIN g = Fields /\ g.PrepStep = k + 1
          /\ \A x \in Fields \ {"PrepStep"} : g[x] = h[x]
      BY <1>2, <2>1 DEF Fields
    <2>3. k # 6 /\ k # 2 /\ k # 4
      BY <1>6
    <2> QED
      BY <1>2, <1>4, <1>6, <2>2, <2>3 DEF Fields, g, k
  <1>7. CASE k = 2
    <2>1. g = [h EXCEPT !.PrepStep = k + 1, !.IntrJobFailCount = 0,
                      !.PrepDest = NextWL(h.PrepDest),
                      !.StatePageAddr = h.StatePageAddr, !.NextFreeWL = h.NextFreeWL,
                      !.InitGCState = h.InitGCState]
      BY <1>3, <1>4, <1>5, <1>7 DEF PrepResult
    <2> HIDE DEF k
    <2>2. /\ DOMAIN g = Fields /\ g.PrepStep = k + 1 /\ g.IntrJobFailCount = 0
          /\ g.PrepDest = NextWL(h.PrepDest)
          /\ \A x \in Fields \ {"PrepStep", "IntrJobFailCount", "PrepDest"} : g[x] = h[x]
      BY <1>2, <2>1 DEF Fields
    <2>3. k # 6 /\ k \notin {4, 6} /\ k \notin {1, 3, 5}
      BY <1>7
    <2> QED
      BY <1>2, <1>4, <1>7, <2>2, <2>3 DEF Fields, g, k
  <1>8. CASE k \in {4, 6}
    <2>0. k # 2 /\ ~(k % 2 = 1) /\ h.PrepStep # 2 /\ ~(h.PrepStep % 2 = 1)
      BY <1>4, <1>5, <1>8
    <2> DEFINE d == h.PrepDest
               n == h.PrepStep
    <2>4. g = [h EXCEPT !.PrepStep = n + 1, !.IntrJobFailCount = 0,
                      !.PrepDest = IF n = 2 THEN NextWL(d) ELSE 0,
                      !.StatePageAddr = IF n = 2 THEN @ ELSE [@ EXCEPT ![PrepSector[n]] = d],
                      !.NextFreeWL = IF n = 2 THEN @
                                     ELSE [@ EXCEPT ![PrepSector[n]] = NextWL(d)],
                      !.InitGCState = IF n = 6 THEN "COMPLETE" ELSE @]
      BY <1>3, <2>0 DEF PrepResult
    <2>1. g = [h EXCEPT !.PrepStep = k + 1, !.IntrJobFailCount = 0,
                      !.PrepDest = 0,
                      !.StatePageAddr = [h.StatePageAddr EXCEPT ![PrepSector[k]] = h.PrepDest],
                      !.NextFreeWL = [h.NextFreeWL EXCEPT ![PrepSector[k]] = NextWL(h.PrepDest)],
                      !.InitGCState = IF k = 6 THEN "COMPLETE" ELSE h.InitGCState]
      BY <1>4, <2>0, <2>4
    <2> HIDE DEF k
    <2>2. /\ DOMAIN g = Fields /\ g.PrepStep = k + 1 /\ g.IntrJobFailCount = 0
          /\ g.PrepDest = 0
          /\ g.StatePageAddr = [h.StatePageAddr EXCEPT ![PrepSector[k]] = h.PrepDest]
          /\ g.NextFreeWL = [h.NextFreeWL EXCEPT ![PrepSector[k]] = NextWL(h.PrepDest)]
          /\ g.InitGCState = IF k = 6 THEN "COMPLETE" ELSE h.InitGCState
          /\ \A x \in Fields \ {"PrepStep", "IntrJobFailCount", "PrepDest", "StatePageAddr",
                                "NextFreeWL", "InitGCState"} : g[x] = h[x]
      BY <1>2, <2>1 DEF Fields
    <2>3. k \notin {1, 2, 3, 5}
      BY <1>8
    <2> QED
      BY <1>2, <1>4, <1>8, <2>2, <2>3 DEF Fields, g, k
  <1> QED
    BY <1>1, <1>6, <1>7, <1>8

\* The state after a job of the preparation passed.
LEMMA PrepPassedType ==
  ASSUME NEW f, Inv(flash, f, NoJob), f.MainJob = "INITGC", f.InitGCState = "PREPARE",
         f.IntrJob = "PASS"
  PROVE  LET g == InitGCResult(f)
             k == f.PrepStep
         IN /\ IsFee(g) /\ ~g.CacheUpdated /\ Quiet(g, NoJob)
            /\ Cur(g) = 0 /\ Oth(g) = 1 /\ g.MainJob = "INITGC" /\ g.GcState = "IDLE"
            /\ g.Req = f.Req /\ g.UserJob = f.UserJob /\ g.StateCount = f.StateCount
            /\ g.GcDest = 0
            /\ k # 6 => g.PrepDest = PrepAddr(k + 1)
            /\ k >= 4 => g.StatePageAddr[0] = PerWL /\ g.NextFreeWL[0] = PerWL + PerWL
            /\ k = 6 => g.NextFreeWL[1] = PerWL
  <1> DEFINE g == InitGCResult(f)
             k == f.PrepStep
  <1>1. /\ IsFee(f) /\ k \in 1 .. 6 /\ Cur(f) = 0 /\ f.PrepDest = PrepAddr(k) /\ f.GcDest = 0
        /\ ~f.CacheUpdated /\ f.GcState = "IDLE"
        /\ k >= 5 => f.StatePageAddr[0] = PerWL /\ f.NextFreeWL[0] = PerWL + PerWL
    BY DEF Inv, PrepInv, MainInv
  <1>2. /\ DOMAIN g = Fields
        /\ g.IntrJob = "IDLE" /\ g.PrepStep = k + 1 /\ g.IntrJobFailCount = 0
        /\ g.InitGCState = (IF k = 6 THEN "COMPLETE" ELSE "PREPARE")
        /\ k = 2 => g.PrepDest = NextWL(f.PrepDest)
        /\ k \in {4, 6} => g.PrepDest = 0
        /\ k \in {1, 3, 5} => g.PrepDest = f.PrepDest
        /\ k \in {1, 2, 3, 5} =>
             g.StatePageAddr = f.StatePageAddr /\ g.NextFreeWL = f.NextFreeWL
        /\ k \in {4, 6} =>
             /\ g.StatePageAddr = [f.StatePageAddr EXCEPT ![PrepSector[k]] = f.PrepDest]
             /\ g.NextFreeWL = [f.NextFreeWL EXCEPT ![PrepSector[k]] = NextWL(f.PrepDest)]
        /\ \A x \in Fields \ {"IntrJob", "PrepStep", "IntrJobFailCount", "InitGCState",
                              "PrepDest", "StatePageAddr", "NextFreeWL"} : g[x] = f[x]
    BY PrepResultFields
  <1> HIDE DEF g, k
  <1>3. /\ k \in {1, 2, 3, 4, 5, 6} /\ PerWL \in Nat /\ Sectors = {0, 1} /\ Other(0) = 1
        /\ NextWL(0) = PerWL /\ NextWL(PerWL) = PerWL + PerWL
    BY <1>1, SlotFacts, WordlineSlots, PrepSteps DEF Other
  <1>4. g.PrepDest \in Nat /\ (k # 6 => g.PrepDest = PrepAddr(k + 1))
    <2>1. k \in {1, 3, 5} => g.PrepDest = PrepAddr(k + 1)
      BY <1>1, <1>2 DEF PrepAddr
    <2>2. k = 2 => g.PrepDest = PrepAddr(3)
      BY <1>1, <1>2, <1>3 DEF PrepAddr
    <2>3. k \in {4, 6} => g.PrepDest = 0
      BY <1>2
    <2> QED
      BY <1>3, <2>1, <2>2, <2>3 DEF PrepAddr
  <1>5. /\ g.StatePageAddr \in [Sectors -> Nat] /\ g.NextFreeWL \in [Sectors -> Nat]
        /\ k >= 4 => g.StatePageAddr[0] = PerWL /\ g.NextFreeWL[0] = PerWL + PerWL
        /\ k = 6 => g.NextFreeWL[1] = PerWL
    <2>0. f.StatePageAddr \in [Sectors -> Nat] /\ f.NextFreeWL \in [Sectors -> Nat]
      BY <1>1 DEF IsFee
    <2>1. CASE k \in {1, 2, 3, 5}
      BY <1>1, <1>2, <2>0, <2>1
    <2>2. CASE k = 4
      <3>1. PrepSector[4] = 0 /\ f.PrepDest = PerWL
        BY <1>1, <2>2, PrepSteps
      <3> QED
        BY <1>2, <1>3, <2>0, <2>2, <3>1
    <2>3. CASE k = 6
      <3>1. PrepSector[6] = 1 /\ f.PrepDest = 0
        BY <1>1, <2>3, PrepSteps
      <3> QED
        BY <1>1, <1>2, <1>3, <2>0, <2>3, <3>1
    <2> QED
      BY <1>3, <2>1, <2>2, <2>3
  <1>6. IsFee(g)
    <2>1. g.CacheUpdated = f.CacheUpdated /\ g.GcInit = f.GcInit /\ g.BlkModified = f.BlkModified
      BY <1>2 DEF Fields
    <2>2. /\ g.CacheUpdated \in BOOLEAN /\ g.GcInit \in BOOLEAN /\ g.BlkModified \in BOOLEAN
      BY <1>1, <2>1, Zenon DEF IsFee
    <2>3. g.PrepStep \in Nat
      BY <1>2, <1>3
    <2> QED
      BY <1>1, <1>2, <1>4, <1>5, <2>2, <2>3 DEF IsFee, Fields
  <1>7. /\ Cur(g) = 0 /\ Oth(g) = 1 /\ g.MainJob = "INITGC" /\ ~g.CacheUpdated
        /\ g.GcState = "IDLE" /\ g.Req = f.Req /\ g.UserJob = f.UserJob
        /\ g.StateCount = f.StateCount /\ g.GcDest = 0
    BY <1>1, <1>2, <1>3 DEF Fields, Cur, Oth
  <1>8. Quiet(g, NoJob)
    BY <1>2 DEF Quiet, IntrRuns
  <1> QED
    BY <1>4, <1>5, <1>6, <1>7, <1>8 DEF g, k

\* One of the jobs of the preparation has been taken notice of.
LEMMA Prepared ==
  ASSUME NEW f, Inv(flash, f, NoJob), f.MainJob = "INITGC", f.InitGCState = "PREPARE",
         f.IntrJob = "PASS"
  PROVE  LET g == InitGCResult(f)
         IN Inv(flash, g, NoJob) /\ g.MainJob = "INITGC" /\ g.IntrJob = "IDLE"
  <1> DEFINE g == InitGCResult(f)
             k == f.PrepStep
  <1>1. /\ FlashOk(flash) /\ IsFee(f) /\ CountsKnown(flash, f) /\ MainInv(f, NoJob)
        /\ PrepInv(flash, f, NoJob) /\ k \in 1 .. 6 /\ PrepFlash(flash, k + 1)
        /\ \A t \in Sectors : \A a \in Slots :
             flash[t][a].kind = "state" => flash[t][a].cnt <= f.StateCount
    BY DEF Inv, PrepInv
  <1>2. /\ g.IntrJob = "IDLE" /\ g.PrepStep = k + 1
        /\ g.InitGCState = (IF k = 6 THEN "COMPLETE" ELSE "PREPARE")
    BY PrepResultFields
  <1>3. /\ IsFee(g) /\ ~g.CacheUpdated /\ Quiet(g, NoJob)
        /\ Cur(g) = 0 /\ Oth(g) = 1 /\ g.MainJob = "INITGC" /\ g.GcState = "IDLE"
        /\ g.Req = f.Req /\ g.UserJob = f.UserJob /\ g.StateCount = f.StateCount
        /\ g.GcDest = 0
        /\ k # 6 => g.PrepDest = PrepAddr(k + 1)
        /\ k >= 4 => g.StatePageAddr[0] = PerWL /\ g.NextFreeWL[0] = PerWL + PerWL
        /\ k = 6 => g.NextFreeWL[1] = PerWL
    BY PrepPassedType
  <1> HIDE DEF g, k
  <1>4. ~IntrRuns(NoJob)
    BY DEF IntrRuns
  <1>5. CountsKnown(flash, g)
    BY <1>1, <1>3 DEF CountsKnown
  <1>6. PrepInv(flash, g, NoJob)
    <2>1. CASE k = 6
      BY <1>2, <2>1 DEF PrepInv
    <2>2. CASE k # 6
      <3>1. g.PrepStep \in 1 .. 6 /\ (g.PrepStep >= 5 => k >= 4)
        BY <1>1, <1>2, <2>2
      <3> QED
        BY <1>1, <1>2, <1>3, <1>4, <2>2, <3>1 DEF PrepInv
    <2> QED
      BY <2>1, <2>2
  <1>7. k = 6 => /\ Governs(flash, 0) /\ Unused(flash[1])
                 /\ Ready(flash[0], PerWL + PerWL)
    <2> SUFFICES ASSUME k = 6 PROVE Governs(flash, 0) /\ Unused(flash[1])
                                    /\ Ready(flash[0], PerWL + PerWL)
      OBVIOUS
    <2>1. PrepFlash(flash, 7)
      BY <1>1
    <2>2. /\ IsState(flash[0][PerWL], "VALID") /\ flash[0][PerWL].mark # "none"
          /\ IsState(flash[1][0], "ERASED") /\ flash[1][0].mark # "none"
          /\ \A a \in Slots : a \notin {0, PerWL} => flash[0][a] = Blank
          /\ \A a \in Slots : a # 0 => flash[1][a] = Blank
      BY <2>1 DEF PrepFlash
    <2>3. PerWL \in Slots /\ 0 \in Slots /\ PerWL > 0 /\ Other(0) = 1 /\ Slots \subseteq Nat
          /\ PerWL \in Nat
      BY <1>1, SlotFacts DEF FlashOk, Other
    <2>4. Blank.kind = "blank"
      BY BuiltCells
    <2>5. Governs(flash, 0)
      <3>1. MarkedState(flash[0][PerWL], "VALID")
        BY <2>2 DEF MarkedState
      <3>2. \A p \in Slots : ~MarkedState(flash[1][p], "VALID")
        BY <2>2, <2>3, <2>4 DEF MarkedState, IsState
      <3> QED
        BY <2>3, <3>1, <3>2 DEF Governs
    <2>6. Unused(flash[1])
      <3>1. \A p \in Slots : p >= PerWL => p # 0
        BY <2>3
      <3> QED
        BY <2>2, <3>1 DEF Unused, MarkedState, BlankFrom
    <2>7. Ready(flash[0], PerWL + PerWL)
      <3>1. \A p \in Slots : p >= PerWL + PerWL => p \notin {0, PerWL}
        BY <2>3
      <3>2. BlankFrom(flash[0], PerWL + PerWL)
        BY <2>2, <3>1 DEF BlankFrom
      <3>3. flash[0][PerWL] # Blank
        BY <2>2, <2>4 DEF IsState
      <3> QED
        BY <2>3, <3>2, <3>3, WordlineSlots DEF Ready
    <2> QED
      BY <2>5, <2>6, <2>7
  <1>8. StartInv(flash, g, NoJob)
    <2>1. CASE k = 6
      BY <1>2, <1>3, <1>7, <2>1 DEF StartInv
    <2>2. CASE k # 6
      BY <1>2, <2>2 DEF StartInv
    <2> QED
      BY <2>1, <2>2
  <1>9. GcInv(flash, g, NoJob)
    <2>1. CASE k = 6
      BY <1>2, <1>3, <1>7, <2>1 DEF GcInv, Busy
    <2>2. CASE k # 6
      BY <1>2, <2>2 DEF GcInv
    <2> QED
      BY <2>1, <2>2
  <1>10. Inv(flash, g, NoJob)
    BY <1>2, <1>3, <1>4, <1>5, <1>6, <1>8, <1>9, StartUpStep
  <1> QED
    BY <1>2, <1>3, <1>10 DEF g

\* What the result of the last job makes of the state, in each case.
LEMMA InitGCResultStep ==
  ASSUME NEW f, Inv(flash, f, NoJob), f.MainJob = "INITGC"
  PROVE  LET g == InitGCResult(f)
         IN Inv(flash, g, NoJob) /\ g.MainJob = "INITGC" /\ g.IntrJob = "IDLE"
  <1>1. IsFee(f) /\ MainInv(f, NoJob) /\ PrepInv(flash, f, NoJob) /\ StartInv(flash, f, NoJob)
    BY DEF Inv
  <1>2. CASE f.IntrJob = "IDLE"
    <2>1. InitGCResult(f) = f
      BY <1>2 DEF InitGCResult
    <2> QED
      BY <1>2, <2>1
  <1>3. CASE f.IntrJob = "PASS"
    <2>1. ~Quiet(f, NoJob) /\ ~f.CacheUpdated
      BY <1>1, <1>3 DEF Quiet, MainInv
    <2>2. f.InitGCState \in {"DIRTY", "PREPARE"}
      BY <1>1, <2>1 DEF IsFee, MainInv, PrepInv, StartInv
    <2> QED
      BY <1>3, <2>2, Repaired, Prepared
  <1> QED
    BY <1>1, <1>2, <1>3 DEF IsFee

\* The jobs the driver makes are jobs of the flash driver.
LEMMA BuiltJobs ==
  ASSUME NEW s \in Sectors
  PROVE  /\ \A a \in Slots : \A c \in Cells : \A o \in {"user", "intr"} :
              Programs(ProgramCell(s, a, c, o), o, s, a, c)
         /\ \A a \in Slots : [flash[s][a] EXCEPT !.mark = "ok"] \in Cells =>
              Marks(flash, ProgramMarker(s, a), s, a)
         /\ \A a \in Slots : flash[s][a] \in Cells => Reads(flash, ReadCell(At(s, a)), At(s, a))
         /\ Erases(EraseSector(s), s)
  <1>1. ASSUME NEW a \in Slots, NEW c \in Cells, NEW o \in {"user", "intr"}
        PROVE  Programs(ProgramCell(s, a, c, o), o, s, a, c)
    <2> DEFINE j == ProgramCell(s, a, c, o)
    <2>1. j \in Jobs
      BY DEF ProgramCell, Jobs
    <2>2. j.op = "program" /\ j.owner = o /\ j.sector = s /\ j.addr = a /\ j.cell = c
      BY DEF ProgramCell
    <2> HIDE DEF j
    <2>3. j # NoJob
      BY <2>1, FeeNulls
    <2>4. Programs(j, o, s, a, c)
      BY <2>2, <2>3 DEF Programs, IsJob
    <2> QED
      BY <2>4 DEF j
  <1>2. ASSUME NEW a \in Slots, [flash[s][a] EXCEPT !.mark = "ok"] \in Cells
        PROVE  Marks(flash, ProgramMarker(s, a), s, a)
    <2> DEFINE j == ProgramMarker(s, a)
               c == [flash[s][a] EXCEPT !.mark = "ok"]
    <2>1. j = [op |-> "marker", sector |-> s, addr |-> a, cell |-> c, owner |-> "intr"]
          /\ c \in Cells
      BY <1>2 DEF ProgramMarker
    <2> HIDE DEF c, j
    <2>2. j \in Jobs
      BY <2>1 DEF Jobs
    <2>3. j.op = "marker" /\ j.owner = "intr" /\ j.sector = s /\ j.addr = a /\ j.cell = c
      BY <2>1
    <2>4. j # NoJob
      BY <2>2, FeeNulls
    <2>5. Marks(flash, j, s, a)
      BY <2>3, <2>4 DEF Marks, IsJob, c
    <2> QED
      BY <2>5 DEF j
  <1>3. ASSUME NEW a \in Slots, flash[s][a] \in Cells
        PROVE  Reads(flash, ReadCell(At(s, a)), At(s, a))
    <2> DEFINE j == ReadCell(At(s, a))
    <2>1. At(s, a).sector = s /\ At(s, a).slot = a
      BY AddressFacts
    <2>2. j = [op |-> "read", sector |-> s, addr |-> a, cell |-> flash[s][a], owner |-> "user"]
      BY <2>1 DEF ReadCell
    <2> HIDE DEF j
    <2>3. j \in Jobs
      BY <1>3, <2>2 DEF Jobs
    <2>4. j # NoJob
      BY <2>3, FeeNulls
    <2>5. Reads(flash, j, At(s, a))
      BY <2>1, <2>2, <2>4 DEF Reads, IsJob
    <2> QED
      BY <2>5 DEF j
  <1>4. Erases(EraseSector(s), s)
    <2> DEFINE j == EraseSector(s)
    <2>1. j \in Jobs /\ j.op = "erase" /\ j.owner = "intr" /\ j.sector = s
      BY DEF EraseSector, Jobs
    <2> HIDE DEF j
    <2>2. j # NoJob
      BY <2>1, FeeNulls
    <2>3. Erases(j, s)
      BY <2>1, <2>2 DEF Erases, IsJob
    <2> QED
      BY <2>3 DEF j
  <1> QED
    BY <1>1, <1>2, <1>3, <1>4

\* The next job of the preparation.
LEMMA PrepJobStep ==
  ASSUME NEW f, Inv(flash, f, NoJob), f.MainJob = "INITGC", f.InitGCState = "PREPARE",
         f.IntrJob = "IDLE", PrepJob(f)
  PROVE  Inv(flash, fee', job') /\ fee'.MainJob = "INITGC"
  <1> DEFINE k == f.PrepStep
             s == PrepSector[k]
             d == f.PrepDest
             n == NextCount(f)
  <1>1. /\ FlashOk(flash) /\ IsFee(f) /\ CountsKnown(flash, f) /\ MainInv(f, NoJob)
        /\ PrepInv(flash, f, NoJob) /\ ~f.CacheUpdated /\ f.GcState = "IDLE"
        /\ f.IntrJobFailCount = 0 /\ f.StateCount \in Nat
    BY DEF Inv, MainInv, IsFee
  <1>2. /\ Cur(f) = 0 /\ k \in 1 .. 6 /\ d = PrepAddr(k) /\ f.GcDest = 0
        /\ PrepFlash(flash, k)
        /\ k >= 5 => f.StatePageAddr[0] = PerWL /\ f.NextFreeWL[0] = PerWL + PerWL
        /\ \A t \in Sectors : \A a \in Slots :
             flash[t][a].kind = "state" => flash[t][a].cnt <= f.StateCount
    BY <1>1 DEF PrepInv
  <1>3. s \in Sectors /\ d \in Slots /\ PerWL \in Slots /\ 0 \in Slots /\ Sectors = {0, 1}
        /\ PrepState[k] \in {"VALID", "ERASED"}
    BY <1>1, <1>2, PrepSteps, SlotFacts DEF FlashOk, PrepAddr
  <1>4. n = f.StateCount + 1 /\ n \in Nat \ {0}
    BY <1>1 DEF NextCount
  <1>5. CASE k % 2 = 1
    <2> DEFINE g == [f EXCEPT !.StateCount = n]
               c == StatePage(PrepState[k], n, "none")
               j == ProgramCell(s, d, c, "intr")
    <2>1. fee' = g /\ job' = j
      BY <1>5 DEF PrepJob, Start
    <2>2. Programs(j, "intr", s, d, c)
      BY <1>3, <1>4, BuiltJobs, BuiltCells
    <2>3. /\ g.StateCount = n /\ IsFee(g)
          /\ \A x \in Fields \ {"StateCount"} : g[x] = f[x]
      BY <1>1, <1>4 DEF IsFee, Fields
    <2> HIDE DEF n, g, c, j
    <2>4. IntrRuns(j)
      BY <2>2 DEF Programs, IsJob, IntrRuns
    <2>5. Cur(g) = 0 /\ g.MainJob = "INITGC" /\ ~g.CacheUpdated /\ g.Req = f.Req
          /\ g.UserJob = f.UserJob /\ g.GcState = "IDLE" /\ g.InitGCState = "PREPARE"
          /\ g.IntrJob = "IDLE"
      BY <1>1, <1>2, <2>3 DEF Fields, Cur
    <2>7. PrepInv(flash, g, j) /\ CountsKnown(flash, g)
      <3>1. g.PrepStep = k /\ g.PrepDest = d /\ g.GcDest = 0
            /\ g.StatePageAddr = f.StatePageAddr /\ g.NextFreeWL = f.NextFreeWL
        BY <1>2, <2>3 DEF Fields
      <3>2. \A t \in Sectors : \A a \in Slots :
              flash[t][a].kind = "state" => flash[t][a].cnt < n /\ flash[t][a].cnt <= n
        <4> SUFFICES ASSUME NEW t \in Sectors, NEW a \in Slots, flash[t][a].kind = "state"
                     PROVE  flash[t][a].cnt < n /\ flash[t][a].cnt <= n
          OBVIOUS
        <4>1. flash[t][a] \in Cells
          BY <1>1 DEF FlashOk
        <4>2. flash[t][a].cnt \in Nat /\ flash[t][a].cnt <= f.StateCount
          BY <1>2, <4>1, CellFacts
        <4> QED
          BY <1>1, <1>4, <4>2
      <3>3. n > 0
        BY <1>4
      <3>4. Programs(j, "intr", PrepSector[k], PrepAddr(k), StatePage(PrepState[k], n, "none"))
        BY <1>2, <2>2 DEF c
      <3>5. CountsKnown(flash, g)
        BY <2>3, <3>2 DEF CountsKnown, Marked
      <3> HIDE DEF k, d, s
      <3> QED
        BY <1>2, <1>5, <2>3, <2>5, <3>1, <3>2, <3>3, <3>4, <3>5 DEF PrepInv
    <2>8. StartInv(flash, g, j) /\ GcInv(flash, g, j)
      BY <2>5 DEF StartInv, GcInv
    <2>9. Inv(flash, g, j)
      BY <2>3, <2>4, <2>5, <2>7, <2>8, StartUpStep
    <2> QED
      BY <2>1, <2>5, <2>9
  <1>6. CASE k % 2 # 1
    <2> DEFINE j == ProgramMarker(s, d)
    <2>1. fee' = f /\ job' = j
      BY <1>6 DEF PrepJob, Start
    <2>2. IsState(flash[s][d], PrepState[k]) /\ flash[s][d] \in Cells
      <3>1. k \in {2, 4, 6}
        BY <1>2, <1>6, PrepSteps
      <3>2. CASE k = 2
        BY <1>1, <1>2, <1>3, <3>2, PrepSteps DEF PrepFlash, FlashOk
      <3>3. CASE k = 4
        BY <1>1, <1>2, <1>3, <3>3, PrepSteps DEF PrepFlash, FlashOk
      <3>4. CASE k = 6
        BY <1>1, <1>2, <1>3, <3>4, PrepSteps DEF PrepFlash, FlashOk
      <3> QED
        BY <3>1, <3>2, <3>3, <3>4
    <2>3. flash[s][d].cnt \in Nat \ {0} /\ flash[s][d].cnt <= f.StateCount
          /\ [flash[s][d] EXCEPT !.mark = "ok"] \in Cells
      <3>1. flash[s][d].kind = "state" /\ flash[s][d] \in Cells
        BY <2>2 DEF IsState
      <3>2. flash[s][d].cnt <= f.StateCount
        BY <1>2, <1>3, <3>1
      <3> DEFINE c == flash[s][d]
      <3> HIDE DEF c
      <3>3. c \in Cells /\ c.kind = "state"
        BY <3>1 DEF c
      <3>4. c.cnt \in Nat \ {0} /\ [c EXCEPT !.mark = "ok"] \in Cells
        <4>1. /\ c.cnt \in Nat \ {0} /\ c.st \in {"VALID", "ERASED"}
              /\ [c EXCEPT !.mark = "ok"] = StatePage(c.st, c.cnt, "ok")
          BY <3>3, CellFacts
        <4> QED
          BY <4>1, BuiltCells
      <3> QED
        BY <3>2, <3>4 DEF c
    <2>4. Marks(flash, j, s, d) /\ f.StateCount > 0
      BY <1>1, <1>3, <2>3, BuiltJobs
    <2> HIDE DEF j
    <2>5. IntrRuns(j)
      BY <2>4 DEF Marks, IsJob, IntrRuns
    <2>6. PrepInv(flash, f, j)
      <3>1. Marks(flash, j, PrepSector[k], PrepAddr(k))
        BY <1>2, <2>4
      <3> QED
        BY <1>1, <1>2, <1>6, <2>4, <3>1 DEF PrepInv
    <2>7. StartInv(flash, f, j) /\ GcInv(flash, f, j)
      BY DEF StartInv, GcInv
    <2>8. Inv(flash, f, j)
      BY <1>1, <2>5, <2>6, <2>7, StartUpStep
    <2> QED
      BY <2>1, <2>8
  <1> QED
    BY <1>5, <1>6

\* The next repair of a marker.
LEMMA RepairJobStep ==
  ASSUME NEW f, Inv(flash, f, NoJob), f.MainJob = "INITGC", f.InitGCState = "DIRTY",
         f.IntrJob = "IDLE", RepairJob(f)
  PROVE  Inv(flash, fee', job') /\ fee'.MainJob = "INITGC"
  <1> DEFINE s == DirtySector(f)
             a == f.StatePageAddr[s]
             j == ProgramMarker(s, a)
  <1>1. /\ FlashOk(flash) /\ IsFee(f) /\ CountsKnown(flash, f) /\ MainInv(f, NoJob)
        /\ StartInv(flash, f, NoJob) /\ ~f.CacheUpdated /\ f.GcState = "IDLE"
        /\ f.RepairStep = "MARKER"
    BY DEF Inv, MainInv, IsFee
  <1>2. fee' = f /\ job' = j
    BY <1>1 DEF RepairJob, Start
  <1>3. s \in Sectors /\ f.Dirty[s]
    BY <1>1, SlotFacts DEF DirtySector, IsFee, StartInv, Other, Sectors
  <1>4. a \in Slots /\ Marked(flash[s][a]) /\ flash[s][a] \in Cells
    BY <1>1, <1>3 DEF StartInv, FlashOk
  <1> HIDE DEF s, a
  <1>5. [flash[s][a] EXCEPT !.mark = "ok"] \in Cells
    <2> DEFINE c == flash[s][a]
    <2> HIDE DEF c
    <2>1. c \in Cells /\ c.kind = "state"
      BY <1>4 DEF Marked, c
    <2>2. /\ c.cnt \in Nat \ {0} /\ c.st \in {"VALID", "ERASED"}
          /\ [c EXCEPT !.mark = "ok"] = StatePage(c.st, c.cnt, "ok")
      BY <2>1, CellFacts
    <2>3. [c EXCEPT !.mark = "ok"] \in Cells
      BY <2>2, BuiltCells
    <2> QED
      BY <2>3 DEF c
  <1>6. Marks(flash, j, s, a)
    BY <1>3, <1>4, <1>5, BuiltJobs
  <1> HIDE DEF j
  <1>7. IntrRuns(j) /\ ~IntrRuns(NoJob)
    BY <1>6 DEF Marks, IsJob, IntrRuns
  <1>8. StartInv(flash, f, j)
    BY <1>1, <1>6, <1>7 DEF StartInv, s, a
  <1>9. PrepInv(flash, f, j) /\ GcInv(flash, f, j)
    BY DEF PrepInv, GcInv
  <1>10. Inv(flash, f, j)
    BY <1>1, <1>7, <1>8, <1>9, StartUpStep
  <1> QED
    BY <1>2, <1>10

\* The collection resumes where the start-up found it.
LEMMA ResumeStep ==
  ASSUME NEW f, Inv(flash, f, NoJob), f.MainJob = "INITGC", f.InitGCState = "NORMAL",
         f.IntrJob = "IDLE"
  PROVE  LET g == Resume(f) IN Inv(flash, g, NoJob) /\ g.MainJob = "INITGC"
  <1> DEFINE g == Resume(f)
             normal == f.GcResumeState = "NORMAL"
  <1>1. /\ FlashOk(flash) /\ IsFee(f) /\ CountsKnown(flash, f) /\ MainInv(f, NoJob)
        /\ StartInv(flash, f, NoJob) /\ ~f.CacheUpdated /\ f.GcState = "IDLE"
    BY DEF Inv, MainInv
  <1>2. /\ g.InitGCState = "COMPLETE"
        /\ normal => g.GcState = "IDLE"
        /\ ~normal => g.GcState = "ERASE"
        /\ g.GcInit \in BOOLEAN /\ DOMAIN g = Fields
        /\ \A x \in Fields \ {"InitGCState", "GcState", "GcInit"} : g[x] = f[x]
    BY <1>1 DEF Resume, IsFee, Fields
  <1> HIDE DEF g
  <1>3. IsFee(g)
    <2>1. /\ f.CacheUpdated \in BOOLEAN /\ f.BlkModified \in BOOLEAN
      BY <1>1 DEF IsFee
    <2>2. g.CacheUpdated = f.CacheUpdated /\ g.BlkModified = f.BlkModified
      BY <1>2 DEF Fields
    <2>3. /\ g.CacheUpdated \in BOOLEAN /\ g.BlkModified \in BOOLEAN
      BY <2>1, <2>2, Zenon
    <2> QED
      BY <1>1, <1>2, <2>3 DEF IsFee, Fields
  <1>4. Cur(g) = Cur(f) /\ Oth(g) = Oth(f) /\ g.MainJob = "INITGC" /\ ~g.CacheUpdated
        /\ g.Req = f.Req /\ g.UserJob = f.UserJob /\ g.IntrJob = "IDLE"
        /\ g.NextFreeWL = f.NextFreeWL /\ g.GcDest = f.GcDest /\ g.StateCount = f.StateCount
    BY <1>1, <1>2 DEF Fields, Cur, Oth
  <1>5. Quiet(g, NoJob) /\ ~IntrRuns(NoJob)
    BY <1>4 DEF Quiet, IntrRuns
  <1>6. /\ Governs(flash, Cur(f)) /\ f.GcDest = 0
        /\ normal => Unused(flash[Oth(f)]) /\ f.NextFreeWL[Oth(f)] = PerWL
        /\ Ready(flash[Cur(f)], f.NextFreeWL[Cur(f)])
    BY <1>1 DEF StartInv
  <1>7. CountsKnown(flash, g) /\ PrepInv(flash, g, NoJob)
    BY <1>1, <1>2, <1>4 DEF CountsKnown, PrepInv
  <1>8. StartInv(flash, g, NoJob)
    BY <1>2, <1>4, <1>6 DEF StartInv
  <1>9. GcInv(flash, g, NoJob)
    <2>1. CASE normal
      BY <1>2, <1>4, <1>5, <1>6, <2>1 DEF GcInv, Busy
    <2>2. CASE ~normal
      BY <1>2, <1>4, <1>5, <1>6, <2>2 DEF GcInv, Busy, GcRunning
    <2> QED
      BY <2>1, <2>2
  <1>10. Inv(flash, g, NoJob)
    <2>1. g.GcState = "IDLE" \/ (g.InitGCState = "COMPLETE" /\ g.GcState = "ERASE")
      BY <1>2
    <2> QED
      BY <1>3, <1>4, <1>5, <1>7, <1>8, <1>9, <2>1, StartUpStep
  <1> QED
    BY <1>4, <1>10 DEF g

\* Two states of the initialisation that a single step leaves.
LEMMA InitGCStateStep ==
  ASSUME NEW f, Inv(flash, f, NoJob), f.MainJob = "INITGC", f.IntrJob = "IDLE",
         NEW st, \/ f.InitGCState = "INVALID" /\ st = "FAIL"
                 \/ f.InitGCState = "EMPTY" /\ st = "PREPARE"
  PROVE  LET g == [f EXCEPT !.InitGCState = st]
         IN /\ Inv(flash, g, NoJob) /\ g.MainJob = "INITGC" /\ g.IntrJob = "IDLE"
            /\ g.InitGCState = st
  <1> DEFINE g == [f EXCEPT !.InitGCState = st]
  <1>1. /\ FlashOk(flash) /\ IsFee(f) /\ CountsKnown(flash, f) /\ MainInv(f, NoJob)
        /\ PrepInv(flash, f, NoJob) /\ ~f.CacheUpdated /\ f.GcState = "IDLE"
    BY DEF Inv, MainInv
  <1>2. /\ g.InitGCState = st /\ DOMAIN g = Fields
        /\ \A x \in Fields \ {"InitGCState"} : g[x] = f[x]
    BY <1>1 DEF IsFee, Fields
  <1>3. IsFee(g)
    BY <1>1 DEF IsFee, Fields
  <1> HIDE DEF g
  <1>4. Cur(g) = Cur(f) /\ Oth(g) = Oth(f) /\ g.MainJob = "INITGC" /\ ~g.CacheUpdated
        /\ g.Req = f.Req /\ g.UserJob = f.UserJob /\ g.IntrJob = "IDLE" /\ g.GcState = "IDLE"
        /\ g.NextFreeWL = f.NextFreeWL /\ g.GcDest = f.GcDest /\ g.StateCount = f.StateCount
        /\ g.PrepStep = f.PrepStep /\ g.PrepDest = f.PrepDest
        /\ g.StatePageAddr = f.StatePageAddr
    BY <1>1, <1>2 DEF Fields, Cur, Oth
  <1>5. Quiet(g, NoJob) /\ ~IntrRuns(NoJob)
    BY <1>4 DEF Quiet, IntrRuns
  <1>6. CountsKnown(flash, g)
    BY <1>1, <1>4 DEF CountsKnown
  <1>7. PrepInv(flash, g, NoJob)
    BY <1>1, <1>2, <1>4, <1>5 DEF PrepInv
  <1>8. StartInv(flash, g, NoJob) /\ GcInv(flash, g, NoJob)
    BY <1>2, <1>4, <1>5 DEF StartInv, GcInv
  <1>9. Inv(flash, g, NoJob)
    BY <1>2, <1>3, <1>4, <1>5, <1>6, <1>7, <1>8, StartUpStep
  <1> QED
    BY <1>2, <1>4, <1>9 DEF g

\* A step of the initialisation keeps the invariant.
LEMMA InitGCStep ==
  ASSUME NEW f, Inv(flash, f, NoJob), job = NoJob, InitGC(f)
  PROVE  Inv(flash, fee', job') /\ fee'.MainJob = "INITGC" /\ doubt' = doubt
  <1>1. f.MainJob = "INITGC" /\ doubt' = doubt
    BY DEF InitGC
  <1> DEFINE g == InitGCResult(f)
  <1>2. Inv(flash, g, NoJob) /\ g.MainJob = "INITGC" /\ g.IntrJob = "IDLE"
    BY <1>1, InitGCResultStep
  <1>3. \/ g.InitGCState = "INVALID" /\ Continue(InitGCFail(g))
        \/ g.InitGCState = "EMPTY" /\ PrepJob([g EXCEPT !.InitGCState = "PREPARE"])
        \/ g.InitGCState = "PREPARE" /\ PrepJob(g)
        \/ g.InitGCState = "DIRTY" /\ RepairJob(g)
        \/ g.InitGCState = "NORMAL" /\ Continue(Resume(g))
        \/ g.InitGCState \in {"COMPLETE", "FAIL"} /\ Continue(g)
    BY DEF InitGC
  <1> HIDE DEF g
  <1>4. CASE g.InitGCState = "INVALID" /\ Continue(InitGCFail(g))
    <2> DEFINE h == [g EXCEPT !.InitGCState = "FAIL"]
    <2>1. Inv(flash, h, NoJob) /\ h.MainJob = "INITGC"
      BY <1>2, <1>4, InitGCStateStep
    <2>2. fee' = h /\ job' = NoJob
      BY <1>4 DEF Continue, InitGCFail
    <2> HIDE DEF h
    <2> QED
      BY <1>1, <2>1, <2>2
  <1>5. CASE g.InitGCState = "EMPTY" /\ PrepJob([g EXCEPT !.InitGCState = "PREPARE"])
    <2> DEFINE h == [g EXCEPT !.InitGCState = "PREPARE"]
    <2>1. Inv(flash, h, NoJob) /\ h.MainJob = "INITGC" /\ h.IntrJob = "IDLE"
          /\ h.InitGCState = "PREPARE"
      BY <1>2, <1>5, InitGCStateStep
    <2>2. PrepJob(h)
      BY <1>5
    <2> HIDE DEF h
    <2>3. Inv(flash, fee', job') /\ fee'.MainJob = "INITGC"
      BY <2>1, <2>2, PrepJobStep
    <2> QED
      BY <1>1, <2>3
  <1>6. CASE g.InitGCState = "PREPARE" /\ PrepJob(g)
    BY <1>1, <1>2, <1>6, PrepJobStep
  <1>7. CASE g.InitGCState = "DIRTY" /\ RepairJob(g)
    BY <1>1, <1>2, <1>7, RepairJobStep
  <1>8. CASE g.InitGCState = "NORMAL" /\ Continue(Resume(g))
    BY <1>1, <1>2, <1>8, ResumeStep DEF Continue
  <1>9. CASE g.InitGCState \in {"COMPLETE", "FAIL"} /\ Continue(g)
    BY <1>1, <1>2, <1>9 DEF Continue
  <1> QED
    BY <1>3, <1>4, <1>5, <1>6, <1>7, <1>8, <1>9

-----------------------------------------------------------------------------
(* The construction of the cache.                                           *)

\* The cache is built once, when the initialisation has ended.
LEMMA CacheBuiltOnce ==
  ASSUME NEW f, Inv(flash, f, job), DecideMainJob(f).MainJob = "CACHEUPDATE"
  PROVE  ~f.CacheUpdated
  <1>1. IsFee(f) /\ MainInv(f, job)
    BY DEF Inv
  <1>2. SUFFICES ASSUME f.CacheUpdated PROVE FALSE
    OBVIOUS
  <1>3. f.MainJob # "INITGC"
    BY <1>1, <1>2 DEF MainInv
  <1> DEFINE g == DecideMainJob(f)
  <1>4. /\ IsFee(g) /\ g.MainJob = "CACHEUPDATE"
    BY DecideStep DEF Inv
  <1>5. CASE f.MainJob = "CACHEUPDATE"
    <2> DEFINE m == CASE ReadRequested(f) -> "READ" [] Requested(f) -> "WRITE"
                      [] OTHER -> AfterJob(f)
    <2>1. g = [f EXCEPT !.MainJob = m]
      BY <1>2, <1>5 DEF DecideMainJob
    <2>2. m # "CACHEUPDATE"
      <3>1. ReadRequested(f) => ~Requested(f)
        BY DEF ReadRequested, Requested
      <3> QED
        BY <3>1 DEF AfterJob
    <2> HIDE DEF m, g
    <2>3. g.MainJob = m
      BY <1>1, <2>1 DEF IsFee, Fields
    <2> QED
      BY <1>4, <2>2, <2>3
  <1>6. CASE f.MainJob \in {"READ", "WRITE", "GC", "NONE"}
    <2>1. AskGC(f).MainJob # "CACHEUPDATE"
      BY <1>1, <1>6 DEF AskGC, CurrBlkCheck, IsFee, Fields
    <2>2. g.MainJob # "CACHEUPDATE"
      <3>1. \A m : [f EXCEPT !.MainJob = m].MainJob = m
        BY <1>1 DEF IsFee, Fields
      <3>2. ReadRequested(f) => ~Requested(f) /\ f.Req # NoReq
        BY DEF ReadRequested, Requested
      <3>3. AfterJob(f) # "CACHEUPDATE" /\ (Requested(f) => f.Req # NoReq)
        BY DEF AfterJob, Requested
      <3> HIDE DEF g
      <3>4. \/ g = f \/ g = AskGC(f)
            \/ \E m \in {"READ", "WRITE", "GC", "NONE", AfterJob(f)} : g = [f EXCEPT !.MainJob = m]
        BY <1>3, <1>6, <3>2, <3>3 DEF DecideMainJob, g
      <3> QED
        BY <1>6, <2>1, <3>1, <3>3, <3>4
    <2> QED
      BY <1>4, <2>2
  <1> QED
    BY <1>1, <1>3, <1>5, <1>6 DEF IsFee

\* The cache Fee_lUpdateCacheTable builds leads to the latest copies.
LEMMA CacheOfFacts ==
  ASSUME FlashOk(flash), NEW s \in Sectors
  PROVE  /\ CacheOf(flash, s) \in [Blocks -> Addresses \cup {NoAddr}]
         /\ \A b \in Blocks :
              LET x == CacheOf(flash, s)[b]
              IN /\ x = NoAddr <=> CopiesOf(flash[s], b) = {}
                 /\ x # NoAddr => x.sector = s /\ LatestIs(flash[s], b, x.slot)
  <1>1. ASSUME NEW b \in Blocks
        PROVE  LET x == CacheOf(flash, s)[b]
               IN /\ x = NoAddr <=> CopiesOf(flash[s], b) = {}
                  /\ x # NoAddr => x.sector = s /\ LatestIs(flash[s], b, x.slot)
                  /\ x \in Addresses \cup {NoAddr}
    <2> DEFINE C == CopiesOf(flash[s], b)
               x == CacheOf(flash, s)[b]
    <2>1. x = IF C = {} THEN NoAddr ELSE At(s, Max(C))
      BY DEF CacheOf
    <2>2. C \subseteq Slots /\ (C # {} => LatestIs(flash[s], b, Max(C)))
      BY LatestOf DEF FlashOk
    <2>3. C # {} => Max(C) \in Slots
      BY <2>2, GreatestElement
    <2> HIDE DEF C, x
    <2>4. CASE C = {}
      BY <2>1, <2>4 DEF C, x
    <2>5. CASE C # {}
      <3>1. x = At(s, Max(C)) /\ Max(C) \in Slots
        BY <2>1, <2>3, <2>5
      <3>2. x \in Addresses /\ x # NoAddr /\ x.sector = s /\ x.slot = Max(C)
        BY <3>1, AddressFacts
      <3>3. LatestIs(flash[s], b, x.slot)
        BY <2>2, <2>5, <3>2
      <3> QED
        BY <2>5, <3>2, <3>3 DEF C, x
    <2> QED
      BY <2>4, <2>5
  <1>2. CacheOf(flash, s) \in [Blocks -> Addresses \cup {NoAddr}]
    <2> DEFINE e(b) == IF CopiesOf(flash[s], b) = {} THEN NoAddr
                       ELSE At(s, Max(CopiesOf(flash[s], b)))
    <2>1. CacheOf(flash, s) = [b \in Blocks |-> e(b)]
      BY DEF CacheOf
    <2>2. \A b \in Blocks : CacheOf(flash, s)[b] \in Addresses \cup {NoAddr}
      BY <1>1
    <2> HIDE DEF e
    <2>3. \A b \in Blocks : e(b) \in Addresses \cup {NoAddr}
      BY <2>1, <2>2
    <2> QED
      BY <2>1, <2>3
  <1> QED
    BY <1>1, <1>2

\* Where the first free page is, in a wordline that is read or skipped.
LEMMA FirstFreePage ==
  ASSUME FlashOk(flash), NEW s \in Sectors, NEW free, Ready(flash[s], free), NEW a,
         \/ a = free
         \/ a = Max({p \in free - PerWL .. free - 1 : flash[s][p] # Blank}) + 1
  PROVE  a \in Nat /\ Frontier(flash[s], a)
  <1> DEFINE cells == flash[s]
  <1>1. PICK w \in Slots : /\ w >= PerWL /\ IsWLBeginning(w) /\ cells[w] # Blank
                           /\ free = w + PerWL /\ BlankFrom(cells, free)
    BY DEF Ready
  <1>2. PerWL \in Nat /\ PerWL > 0 /\ w \in Nat /\ Slots \subseteq Nat
        /\ Slots = 0 .. WLs * PerWL - 1 /\ WLs * PerWL \in Nat
    BY <1>1, SlotFacts
  <1>3. NextWL(w) = free /\ IsWLBeginning(free) /\ free \in Nat /\ free <= WLs * PerWL
        /\ WLBeginning(w) = w
    BY <1>1, <1>2, WordlineFacts, WordlineSlots
  <1>4. CASE a = free
    BY <1>1, <1>2, <1>3, <1>4 DEF Frontier
  <1>5. CASE a = Max({p \in free - PerWL .. free - 1 : flash[s][p] # Blank}) + 1
    <2> DEFINE S == {p \in free - PerWL .. free - 1 : flash[s][p] # Blank}
               l == Max(S)
    <2>1. free - PerWL = w
      BY <1>1, <1>2
    <2>2. w .. free - 1 \subseteq Slots
      BY <1>2, <1>3
    <2>3. S \subseteq Slots /\ w \in S
      BY <1>1, <1>2, <2>1, <2>2
    <2> HIDE DEF S
    <2>4. l \in S /\ \A y \in S : y <= l
      BY <2>3, GreatestElement
    <2> HIDE DEF l
    <2>5. l \in w .. free - 1 /\ cells[l] # Blank /\ l \in Slots /\ l \in Nat
      BY <1>2, <2>1, <2>3, <2>4 DEF S
    <2>6. a = l + 1 /\ a \in Nat /\ a >= PerWL
      BY <1>1, <1>2, <1>5, <2>5 DEF l, S
    <2>7. BlankFrom(cells, a)
      <3> SUFFICES ASSUME NEW p \in Slots, p >= a PROVE cells[p] = Blank
        BY DEF BlankFrom
      <3>1. CASE p >= free
        BY <1>1, <3>1 DEF BlankFrom
      <3>2. CASE p < free
        <4>1. p \in w .. free - 1
          BY <1>2, <1>3, <2>5, <2>6, <3>2
        <4>2. p \notin S
          BY <1>2, <2>4, <2>5, <2>6
        <4> QED
          BY <2>1, <4>1, <4>2 DEF S
      <3> QED
        BY <1>2, <1>3, <3>1, <3>2
    <2>8. IsWLBeginning(a) \/ cells[WLBeginning(a)] # Blank
      <3>1. Shape(cells)
        BY DEF FlashOk
      <3>2. cells[WLBeginning(l)] # Blank
        BY <2>5, <3>1 DEF Shape
      <3> QED
        BY <2>5, <2>6, <3>2, WordlineOfNext
    <2> QED
      BY <2>6, <2>7, <2>8 DEF Frontier
  <1> QED
    BY <1>4, <1>5

\* Building the cache keeps the invariant.
LEMMA UpdateCacheStep ==
  ASSUME NEW f, Inv(flash, f, NoJob), ~f.CacheUpdated, job = NoJob, UpdateCache(f)
  PROVE  Inv(flash, fee', job') /\ ~Landed(fee', job') /\ doubt' = doubt
  <1> DEFINE s == f.CurrSector
             free == f.NextFreeWL[s]
  <1>1. /\ FlashOk(flash) /\ IsFee(f) /\ CountsKnown(flash, f) /\ MainInv(f, NoJob)
        /\ StartInv(flash, f, NoJob) /\ GcInv(flash, f, NoJob) /\ UserInv(flash, f, NoJob)
        /\ f.MainJob = "CACHEUPDATE"
    BY DEF Inv, UpdateCache
  <1>2. f.InitGCState = "COMPLETE" /\ Quiet(f, NoJob) /\ f.GcState \in {"IDLE", "ERASE"}
        /\ Ready(flash[Cur(f)], f.NextFreeWL[Cur(f)])
    BY <1>1 DEF MainInv, StartInv, IsFee
  <1>3. s \in Sectors /\ s = Cur(f) /\ Other(s) # s /\ Oth(f) = Other(s)
    BY <1>1, SlotFacts DEF IsFee, Cur, Oth
  <1>4. PICK a : /\ \/ a = free
                    \/ a = Max({p \in free - PerWL .. free - 1 : flash[s][p] # Blank}) + 1
                 /\ fee' = [f EXCEPT !.CacheUpdated = TRUE, !.NextFreePage = a,
                                     !.Cache = CacheOf(flash, s)]
                 /\ job' = NoJob /\ doubt' = doubt
    BY DEF UpdateCache, Continue
  <1> DEFINE g == [f EXCEPT !.CacheUpdated = TRUE, !.NextFreePage = a,
                            !.Cache = CacheOf(flash, s)]
  <1>5. a \in Nat /\ Frontier(flash[s], a)
    BY <1>1, <1>2, <1>3, <1>4, FirstFreePage
  <1>6. /\ CacheOf(flash, s) \in [Blocks -> Addresses \cup {NoAddr}]
        /\ \A b \in Blocks :
             LET x == CacheOf(flash, s)[b]
             IN /\ x = NoAddr <=> CopiesOf(flash[s], b) = {}
                /\ x # NoAddr => x.sector = s /\ LatestIs(flash[s], b, x.slot)
    BY <1>1, <1>3, CacheOfFacts
  <1>7. /\ g.CacheUpdated = TRUE /\ g.NextFreePage = a /\ g.Cache = CacheOf(flash, s)
        /\ DOMAIN g = Fields
        /\ \A x \in Fields \ {"CacheUpdated", "NextFreePage", "Cache"} : g[x] = f[x]
    BY <1>1 DEF IsFee, Fields
  <1> HIDE DEF g, s
  <1>8. IsFee(g) /\ g.CacheUpdated
    <2>1. /\ f.GcInit \in BOOLEAN /\ f.BlkModified \in BOOLEAN
      BY <1>1 DEF IsFee
    <2>2. g.GcInit = f.GcInit /\ g.BlkModified = f.BlkModified
      BY <1>7 DEF Fields
    <2>3. g.CacheUpdated \in BOOLEAN /\ g.GcInit \in BOOLEAN /\ g.BlkModified \in BOOLEAN
      BY <1>7, <2>1, <2>2, Zenon
    <2> QED
      BY <1>1, <1>5, <1>6, <1>7, <2>3 DEF IsFee, Fields
  <1>9. /\ Cur(g) = s /\ Oth(g) = Other(s) /\ g.MainJob = "CACHEUPDATE"
        /\ g.Req = f.Req /\ g.UserJob = f.UserJob /\ g.IntrJob = f.IntrJob
        /\ g.GcState = f.GcState /\ g.InitGCState = "COMPLETE" /\ g.GcDest = f.GcDest
        /\ g.NextFreeWL = f.NextFreeWL /\ g.StateCount = f.StateCount
        /\ \A st : Stage(g, st) <=> Stage(f, st)
    BY <1>1, <1>2, <1>3, <1>7 DEF Fields, Cur, Oth, Stage
  <1>10. ~Stage(f, "compare") /\ ~Stage(f, "reading") /\ ~IntrRuns(NoJob)
    BY <1>1 DEF UserInv, IntrRuns
  <1>11. UserInv(flash, g, NoJob)
    BY <1>1, <1>5, <1>7, <1>9, <1>10 DEF UserInv
  <1>12. MainInv(g, NoJob)
    BY <1>1, <1>2, <1>8, <1>9, <1>10 DEF MainInv
  <1>13. Quiet(g, NoJob)
    BY <1>2, <1>9 DEF Quiet
  <1>14. GcInv(flash, g, NoJob)
    BY <1>1, <1>2, <1>3, <1>9, <1>10, <1>13 DEF GcInv, Busy, GcRunning, Quiet
  <1>15. CountsKnown(flash, g) /\ PrepInv(flash, g, NoJob) /\ StartInv(flash, g, NoJob)
    BY <1>1, <1>8, <1>9, StartedUp DEF CountsKnown
  <1>16. ~Landed(g, NoJob)
    BY <1>9, <1>10 DEF Landed
  <1>17. CacheInv(flash, g, NoJob)
    <2>1. Ack(flash, g, NoJob) = flash[s]
      BY <1>9, <1>16 DEF Ack
    <2>2. g.GcState \notin Copying /\ g.GcState \notin {"START_COPY", "COPY_WRITE"}
          /\ g.GcState \notin {"V_SP", "V_M"}
      BY <1>2, <1>9 DEF Copying
    <2>3. ASSUME NEW b \in Blocks PROVE CacheOk(flash, g, flash[s], b)
      <3>1. ~Moved(g, b)
        BY <1>3, <1>6, <1>7, <1>9 DEF Moved
      <3> QED
        BY <1>6, <1>7, <2>2, <3>1 DEF CacheOk
    <2> QED
      BY <2>1, <2>2, <2>3 DEF CacheInv
  <1>18. Inv(flash, g, NoJob)
    BY <1>1, <1>8, <1>11, <1>12, <1>14, <1>15, <1>17 DEF Inv
  <1> QED
    BY <1>4, <1>16, <1>18 DEF g

-----------------------------------------------------------------------------
(* Requests: the steps that change little but the request.                  *)

\* A state that differs in its request and in a job of the user only.
LEMMA RequestFrame ==
  ASSUME NEW fl, NEW f, NEW g, NEW j, NEW k, Inv(fl, f, j), DOMAIN g = Fields,
         \A x \in Fields \ {"Req"} : g[x] = f[x],
         g.Req \in Requests \cup {NoReq},
         IntrRuns(j) \/ IntrRuns(k) => k = j,
         ~Landed(f, j), ~Landed(g, k), UserInv(fl, g, k)
  PROVE  Inv(fl, g, k)
  <1>1. /\ FlashOk(fl) /\ IsFee(f) /\ CountsKnown(fl, f) /\ UserInv(fl, f, j) /\ MainInv(f, j)
        /\ PrepInv(fl, f, j) /\ StartInv(fl, f, j) /\ GcInv(fl, f, j) /\ CacheInv(fl, f, j)
    BY DEF Inv
  <1>2. IsFee(g)
    <2>1. g.CacheUpdated = f.CacheUpdated /\ g.GcInit = f.GcInit /\ g.BlkModified = f.BlkModified
      BY DEF Fields
    <2>2. /\ g.CacheUpdated \in BOOLEAN /\ g.GcInit \in BOOLEAN /\ g.BlkModified \in BOOLEAN
      BY <1>1, <2>1, Zenon DEF IsFee
    <2> QED
      BY <1>1, <2>2 DEF IsFee, Fields
  <1>3. Cur(g) = Cur(f) /\ Oth(g) = Oth(f) /\ DirtySector(g) = DirtySector(f)
    BY DEF Fields, Cur, Oth, DirtySector
  <1>4. (IntrRuns(j) <=> IntrRuns(k)) /\ (IntrRuns(j) => k = j)
        /\ (Quiet(g, k) <=> Quiet(f, j))
    BY DEF Quiet, Fields
  <1>5. CountsKnown(fl, g)
    BY <1>1 DEF CountsKnown, Fields
  <1>6. MainInv(g, k)
    BY <1>1, <1>4 DEF MainInv, Fields
  <1>7. PrepInv(fl, g, k)
    BY <1>1, <1>3, <1>4 DEF PrepInv, Fields
  <1>8. StartInv(fl, g, k)
    BY <1>1, <1>3, <1>4 DEF StartInv, Fields
  <1>9. GcInv(fl, g, k)
    BY <1>1, <1>4, GcFrame DEF Fields
  <1>10. CacheInv(fl, g, k)
    <2>1. Ack(fl, g, k) = Ack(fl, f, j)
      BY <1>3 DEF Ack
    <2> QED
      BY <1>1, <2>1, CacheFrame DEF Fields
  <1> QED
    BY <1>1, <1>2, <1>5, <1>6, <1>7, <1>8, <1>9, <1>10 DEF Inv

\* The request is dropped: refused, cancelled or answered.
LEMMA RequestDropped ==
  ASSUME NEW fl, NEW f, NEW g, NEW j, NEW k, Inv(fl, f, j), DOMAIN g = Fields,
         \A x \in Fields \ {"Req"} : g[x] = f[x], g.Req = NoReq,
         ~Stage(f, "compare"), k = IF Stage(f, "reading") THEN NoJob ELSE j
  PROVE  Inv(fl, g, k)
  <1>1. UserInv(fl, f, j)
    BY DEF Inv
  <1>2. \A st : ~Stage(g, st)
    BY DEF Stage
  <1>3. ~Landed(f, j) /\ ~Landed(g, k)
    BY <1>2 DEF Landed
  <1>4. IntrRuns(j) \/ IntrRuns(k) => k = j
    BY <1>1 DEF IntrRuns, UserInv, Reads, IsJob
  <1>5. UserInv(fl, g, k)
    BY <1>1, <1>2 DEF UserInv, Fields, Cur
  <1> QED
    BY <1>3, <1>4, <1>5, RequestFrame

\* A request is accepted.
LEMMA RequestAccepted ==
  ASSUME NEW fl, NEW f, NEW g, NEW j, Inv(fl, f, j), DOMAIN g = Fields,
         \A x \in Fields \ {"Req"} : g[x] = f[x], g.Req \in Requests,
         f.Req = NoReq, g.Req.stage \in {"request", "toRead"}
  PROVE  Inv(fl, g, j) /\ ~Landed(g, j)
  <1>1. UserInv(fl, f, j)
    BY DEF Inv
  <1>2. /\ \A st : ~Stage(f, st)
        /\ ~Stage(g, "compare") /\ ~Stage(g, "reading") /\ ~Stage(g, "stuck")
    BY DEF Stage
  <1>3. ~Landed(f, j) /\ ~Landed(g, j)
    BY <1>2 DEF Landed
  <1>4. UserInv(fl, g, j)
    BY <1>1, <1>2 DEF UserInv, Fields, Cur
  <1> QED
    BY <1>3, <1>4, RequestFrame

\* A read that is refused or starts keeps it.
LEMMA LocalReadStep ==
  ASSUME NEW f, Inv(flash, f, NoJob), Stage(f, "toRead"), job = NoJob, LocalRead(f)
  PROVE  Inv(flash, fee', job') /\ ~Landed(fee', job') /\ doubt' = doubt
  <1> DEFINE at == f.Cache[f.Req.blk]
  <1>1. /\ IsFee(f) /\ MainInv(f, NoJob) /\ UserInv(flash, f, NoJob) /\ FlashOk(flash)
        /\ f.MainJob = "READ" /\ f.CacheUpdated /\ doubt' = doubt
    BY DEF Inv, MainInv, LocalRead
  <1>2. f.Req # NoReq /\ f.Req \in Requests /\ f.Req.stage = "toRead"
    BY <1>1 DEF Stage, IsFee
  <1>3. CASE Content(at) = NoValue /\ Continue([f EXCEPT !.Req = NoReq])
    <2> DEFINE g == [f EXCEPT !.Req = NoReq]
    <2>1. fee' = g /\ job' = NoJob
      BY <1>3 DEF Continue
    <2>2. DOMAIN g = Fields /\ g.Req = NoReq /\ \A x \in Fields \ {"Req"} : g[x] = f[x]
      BY <1>1 DEF IsFee, Fields
    <2>3. ~Stage(f, "compare") /\ ~Stage(f, "reading")
      BY <1>2 DEF Stage
    <2> HIDE DEF g
    <2>4. Inv(flash, g, NoJob)
      BY <2>2, <2>3, RequestDropped
    <2>5. ~Landed(g, NoJob)
      BY <2>2 DEF Landed, Stage
    <2> QED
      BY <1>1, <2>1, <2>4, <2>5
  <1>4. CASE Content(at) # NoValue /\ Start([f EXCEPT !.Req.stage = "reading"], ReadCell(at))
    <2> DEFINE r == [f.Req EXCEPT !.stage = "reading"]
               g == [f EXCEPT !.Req = r]
               j == ReadCell(at)
    <2>1. fee' = g /\ job' = j
      BY <1>4 DEF Start
    <2>2. r \in Requests /\ r.stage = "reading" /\ r.blk = f.Req.blk
      BY <1>2, RequestFacts
    <2> HIDE DEF r
    <2>3. DOMAIN g = Fields /\ g.Req = r /\ \A x \in Fields \ {"Req"} : g[x] = f[x]
      BY <1>1 DEF IsFee, Fields
    <2> HIDE DEF g
    <2>4. r # NoReq /\ f.Req.blk \in Blocks
      BY <1>2, <2>2, RequestFacts
    <2>5. at # NoAddr /\ at \in Addresses
      BY <1>1, <1>4, <2>4 DEF Content, IsFee
    <2>6. at.sector \in Sectors /\ at.slot \in Slots /\ at = At(at.sector, at.slot)
          /\ flash[at.sector][at.slot] \in Cells
      BY <1>1, <2>5, AddressFacts DEF FlashOk
    <2>7. Reads(flash, j, at)
      <3> HIDE DEF j, at
      <3>1. Reads(flash, ReadCell(At(at.sector, at.slot)), At(at.sector, at.slot))
        BY <2>6, BuiltJobs
      <3> QED
        BY <2>6, <3>1 DEF j
    <2> HIDE DEF j, at
    <2>8. ~IntrRuns(j) /\ ~IntrRuns(NoJob) /\ j # NoJob
      BY <2>7 DEF Reads, IsJob, IntrRuns
    <2>9. ~Landed(f, NoJob) /\ ~Landed(g, j)
      BY <1>2, <2>8 DEF Landed, Stage
    <2>10. /\ Stage(g, "reading") /\ ~Stage(g, "compare") /\ ~Stage(g, "stuck")
           /\ ~Stage(f, "compare")
      BY <1>2, <2>2, <2>3, <2>4 DEF Stage
    <2>11. g.MainJob = "READ" /\ g.Cache = f.Cache /\ g.CacheUpdated = f.CacheUpdated
           /\ g.UserJob = f.UserJob /\ g.NextFreePage = f.NextFreePage /\ Cur(g) = Cur(f)
      BY <1>1, <2>3 DEF Fields, Cur
    <2>12. UserInv(flash, g, j)
      BY <1>1, <2>2, <2>3, <2>4, <2>5, <2>7, <2>10, <2>11 DEF UserInv, at
    <2>13. Inv(flash, g, j)
      BY <2>2, <2>3, <2>8, <2>9, <2>12, RequestFrame
    <2> QED
      BY <1>1, <2>1, <2>9, <2>13
  <1> QED
    BY <1>3, <1>4 DEF LocalRead

-----------------------------------------------------------------------------
(* Writes.                                                                  *)

\* Room for a copy or for a state page means that the slot exists.
LEMMA FreeFacts ==
  ASSUME NEW d \in Nat
  PROVE  /\ Free(d) \in Nat
         /\ Free(d) >= 1 => d \in Slots /\ Free(d) = WLs * PerWL - d
         /\ ~ThresholdCrossed(Free(d), 1) => d \in Slots
         /\ Free(d) >= PerWL => d \in Slots
         /\ Free(d) >= WLs * PerWL - d
  <1> DEFINE n == WLs * PerWL - d
             S == {0, n}
  <1>1. WLs * PerWL \in Nat /\ n \in Int /\ PerWL \in Nat /\ PerWL > 0
        /\ Slots = 0 .. WLs * PerWL - 1
    BY SlotFacts
  <1>2. Threshold \in Nat /\ Threshold > 0
    BY FeeConstants
  <1> HIDE DEF n
  <1>3. \E x \in S : \A y \in S : x >= y
    BY <1>1
  <1>4. Max(S) \in S /\ \A y \in S : Max(S) >= y
    BY <1>3 DEF Max
  <1>5. Free(d) = Max(S)
    BY DEF Free, n
  <1> HIDE DEF S
  <1>9. Free(d) >= n
    BY <1>4, <1>5 DEF S
  <1>6. Free(d) \in Nat /\ (Free(d) # 0 => Free(d) = n /\ n > 0)
    BY <1>1, <1>4, <1>5 DEF S
  <1>7. n > 0 => d \in Slots
    BY <1>1 DEF n
  <1>8. ~ThresholdCrossed(Free(d), 1) => Free(d) # 0
    BY <1>2, <1>6 DEF ThresholdCrossed
  <1> QED
    BY <1>1, <1>6, <1>7, <1>8, <1>9 DEF n

\* The copy of the user's block is handed to the flash driver.
LEMMA WriteCopyStep ==
  ASSUME NEW f, Inv(flash, f, NoJob), Stage(f, "request"), f.MainJob = "WRITE",
         f.CacheUpdated, job = NoJob, WriteCopy(f)
  PROVE  Inv(flash, fee', job') /\ ~Landed(fee', job')
  <1> DEFINE h == CurrBlkCheck(f)
  <1>1. IsFee(f) /\ UserInv(flash, f, NoJob) /\ FlashOk(flash)
        /\ f.Req # NoReq /\ f.Req \in Requests /\ f.Req.stage = "request"
    BY DEF Inv, Stage, IsFee
  <1>2. ~Stage(f, "compare") /\ f.UserJob = "IDLE"
    BY <1>1 DEF Stage, UserInv
  <1>3. /\ Inv(flash, h, NoJob) /\ h.NextFreePage = CheckedPage(f)
        /\ \A x \in Fields \ {"NextFreePage", "GcState"} : h[x] = f[x]
    BY <1>2, PageChecked
  <1>4. CheckedPage(f) \in Nat
    BY <1>1, <1>2, CheckedFrontier DEF UserInv, IsFee
  <1> HIDE DEF h
  <1>5. /\ IsFee(h) /\ UserInv(flash, h, NoJob) /\ h.MainJob = "WRITE" /\ h.CacheUpdated
        /\ h.Req = f.Req /\ h.UserJob = "IDLE" /\ h.CurrSector = f.CurrSector
    BY <1>2, <1>3 DEF Fields, Inv
  <1>6. ~Stage(h, "compare") /\ ~Stage(h, "reading") /\ ~Stage(h, "stuck")
    BY <1>1, <1>5 DEF Stage
  <1>7. CASE ~BlkWritable(f)
    <2>1. fee' = h /\ job' = NoJob
      BY <1>7 DEF WriteCopy, Continue, h
    <2>2. ~Landed(h, NoJob)
      BY <1>6 DEF Landed
    <2> QED
      BY <1>3, <2>1, <2>2
  <1>8. CASE BlkWritable(f)
    <2> DEFINE r == [f.Req EXCEPT !.stage = "compare"]
               g == [h EXCEPT !.Req = r]
               d == h.NextFreePage
               c == BlockCopy(f.Req.blk, f.Req.val)
               j == ProgramCell(f.CurrSector, d, c, "user")
    <2>1. fee' = g /\ job' = j
      <3>1. [h EXCEPT !.Req.stage = "compare"] = g
        BY <1>5
      <3>2. [h EXCEPT !.Req.stage = "compare"].NextFreePage = d
        BY <1>5 DEF IsFee, Fields
      <3>3. Start([h EXCEPT !.Req.stage = "compare"],
                  ProgramCell(f.CurrSector, [h EXCEPT !.Req.stage = "compare"].NextFreePage,
                              c, "user"))
        BY <1>8 DEF WriteCopy, h
      <3> QED
        BY <3>1, <3>2, <3>3 DEF Start
    <2>2. r \in Requests /\ r.stage = "compare" /\ r.blk = f.Req.blk /\ r.val = f.Req.val
          /\ r # NoReq /\ f.Req.blk \in Blocks /\ f.Req.val \in Values \cup {NoValue}
      BY <1>1, RequestFacts
    <2> HIDE DEF r
    <2>3. DOMAIN g = Fields /\ g.Req = r /\ \A x \in Fields \ {"Req"} : g[x] = h[x]
      BY <1>5 DEF IsFee, Fields
    <2> HIDE DEF g
    <2>4. d \in Slots
      BY <1>3, <1>4, <1>8, FreeFacts DEF BlkWritable
    <2>5. f.CurrSector \in Sectors /\ Cur(h) = f.CurrSector /\ Cur(g) = f.CurrSector
      BY <1>1, <1>5, <2>3 DEF IsFee, Cur, Fields
    <2>6. Programs(j, "user", f.CurrSector, d, c)
      BY <2>2, <2>4, <2>5, BuiltJobs, BuiltCells
    <2> HIDE DEF j, c, d
    <2>7. ~IntrRuns(j) /\ ~IntrRuns(NoJob) /\ j # NoJob
      BY <2>6 DEF Programs, IsJob, IntrRuns
    <2>8. ~Landed(h, NoJob) /\ ~Landed(g, j)
      BY <1>6, <2>7 DEF Landed
    <2>9. Stage(g, "compare") /\ ~Stage(g, "reading") /\ ~Stage(g, "stuck")
      BY <2>2, <2>3 DEF Stage
    <2>10. g.MainJob = "WRITE" /\ g.CacheUpdated /\ g.UserJob = "IDLE" /\ g.NextFreePage = d
      BY <1>5, <2>3 DEF Fields, d
    <2>11. Frontier(flash[f.CurrSector], d)
      BY <1>5, <1>6, <2>5 DEF UserInv, d
    <2>12. UserInv(flash, g, j)
      BY <2>2, <2>3, <2>4, <2>5, <2>6, <2>9, <2>10, <2>11 DEF UserInv, c
    <2>13. Inv(flash, g, j)
      BY <1>3, <2>2, <2>3, <2>7, <2>8, <2>12, RequestFrame
    <2> QED
      BY <2>1, <2>8, <2>13
  <1> QED
    BY <1>7, <1>8

\* The copy is in the flash: the cache is led to it and the request ends.
LEMMA WriteDoneFields ==
  ASSUME NEW f, IsFee(f), f.Req # NoReq, f.NextFreePage \in Slots
  PROVE  LET g == WriteDone(f)
             b == f.Req.blk
         IN /\ IsFee(g) /\ g.Req = NoReq /\ g.NextFreePage = f.NextFreePage + 1
            /\ g.Cache = [f.Cache EXCEPT ![b] = At(f.CurrSector, f.NextFreePage)]
            /\ g.MainJob = IF f.GcState = "REQUESTED" THEN "GC" ELSE f.MainJob
            /\ f.GcState \in {"IDLE", "ERASE"} =>
                 g.Copied = f.Copied /\ g.BlkModified = f.BlkModified
            /\ f.GcState \notin {"IDLE", "ERASE"} =>
                 g.Copied = [f.Copied EXCEPT ![b] = FALSE] /\ g.BlkModified = TRUE
            /\ \A x \in Fields \ {"Req", "NextFreePage", "Cache", "MainJob", "Copied",
                                  "BlkModified"} : g[x] = f[x]
  <1> DEFINE b == f.Req.blk
             at == At(f.CurrSector, f.NextFreePage)
             m == IF f.GcState = "REQUESTED" THEN "GC" ELSE f.MainJob
             cache == [f.Cache EXCEPT ![b] = at]
             copied == [f.Copied EXCEPT ![b] = FALSE]
             h == [f EXCEPT !.Cache = cache, !.NextFreePage = f.NextFreePage + 1,
                            !.Req = NoReq, !.UserJobFailCount = 0, !.MainJob = m]
             g == WriteDone(f)
  <1>1. f.NextFreePage + 1 \in Nat /\ b \in Blocks /\ at \in Addresses /\ f.CurrSector \in Sectors
    <2> HIDE DEF h, g, m, cache, copied
    <2>1. f.Req \in Requests /\ f.CurrSector \in Sectors /\ f.NextFreePage \in Nat
      BY DEF IsFee
    <2>2. b \in Blocks
      BY <2>1, RequestFacts
    <2> QED
      BY <2>1, <2>2, AddressFacts
  <1>2. g = IF f.GcState \in {"IDLE", "ERASE"} THEN h
            ELSE [h EXCEPT !.Copied = copied, !.BlkModified = TRUE]
    <2>1. [Cached(f, b) EXCEPT !.Req = NoReq, !.UserJobFailCount = 0,
              !.MainJob = IF f.GcState = "REQUESTED" THEN "GC" ELSE @] = h
      BY DEF Cached, IsFee, Fields
    <2>2. h.Copied = f.Copied
      BY DEF IsFee, Fields
    <2> HIDE DEF h
    <2> QED
      BY <2>1, <2>2 DEF WriteDone
  <1>3. cache \in [Blocks -> Addresses \cup {NoAddr}] /\ copied \in [Blocks -> BOOLEAN]
    BY <1>1 DEF IsFee
  <1>4. m \in {"INITGC", "CACHEUPDATE", "READ", "WRITE", "GC", "NONE"}
    BY DEF IsFee
  <1>5. /\ DOMAIN h = Fields /\ h.Cache = cache /\ h.NextFreePage = f.NextFreePage + 1
        /\ h.Req = NoReq /\ h.MainJob = m
        /\ \A x \in Fields \ {"Req", "NextFreePage", "Cache", "MainJob"} : h[x] = f[x]
    BY DEF IsFee, Fields
  <1> HIDE DEF h, cache, copied, m, g
  <1>6. CASE f.GcState \in {"IDLE", "ERASE"}
    <2>1. g = h
      BY <1>2, <1>6
    <2>2. IsFee(h)
      <3>1. /\ f.GcInit \in BOOLEAN /\ f.BlkModified \in BOOLEAN /\ f.CacheUpdated \in BOOLEAN
        BY DEF IsFee
      <3>2. /\ h.GcInit = f.GcInit /\ h.BlkModified = f.BlkModified
            /\ h.CacheUpdated = f.CacheUpdated
        BY <1>5 DEF Fields
      <3>3. /\ h.GcInit \in BOOLEAN /\ h.BlkModified \in BOOLEAN /\ h.CacheUpdated \in BOOLEAN
        BY <3>1, <3>2, Zenon
      <3> QED
        BY <1>1, <1>3, <1>4, <1>5, <3>3 DEF IsFee, Fields
    <2> QED
      BY <1>5, <1>6, <2>1, <2>2 DEF Fields, g, m, cache
  <1>7. CASE f.GcState \notin {"IDLE", "ERASE"}
    <2>1. g = [h EXCEPT !.Copied = copied, !.BlkModified = TRUE]
      BY <1>2, <1>7
    <2>2. /\ DOMAIN g = Fields /\ g.Copied = copied /\ g.BlkModified = TRUE
          /\ \A x \in Fields \ {"Copied", "BlkModified"} : g[x] = h[x]
      BY <1>5, <2>1 DEF Fields
    <2>3. IsFee(g)
      <3>1. /\ f.GcInit \in BOOLEAN /\ f.CacheUpdated \in BOOLEAN
        BY DEF IsFee
      <3>2. /\ g.GcInit = f.GcInit /\ g.CacheUpdated = f.CacheUpdated
        BY <1>5, <2>2 DEF Fields
      <3>3. /\ g.GcInit \in BOOLEAN /\ g.BlkModified \in BOOLEAN /\ g.CacheUpdated \in BOOLEAN
        BY <2>2, <3>1, <3>2, Zenon
      <3> QED
        BY <1>1, <1>3, <1>4, <1>5, <2>2, <3>3 DEF IsFee, Fields
    <2> QED
      BY <1>5, <1>7, <2>2, <2>3 DEF Fields, g, m, cache, copied
  <1> QED
    BY <1>6, <1>7

\* An acknowledged write keeps it: the collection copies the block once more.
LEMMA WriteDoneStep ==
  ASSUME NEW f, Inv(flash, f, NoJob), Landed(f, NoJob), NEW h, DOMAIN h = Fields,
         h.UserJob = "IDLE", \A x \in Fields \ {"UserJob"} : h[x] = f[x]
  PROVE  LET g == WriteDone(h) IN Inv(flash, g, NoJob) /\ ~Landed(g, NoJob)
  <1> DEFINE b == f.Req.blk
             d == f.NextFreePage
             s == Cur(f)
             o == Oth(f)
             cells == flash[s]
             old == Ack(flash, f, NoJob)
             g == WriteDone(h)
  <1>1. /\ FlashOk(flash) /\ IsFee(f) /\ CountsKnown(flash, f) /\ UserInv(flash, f, NoJob)
        /\ MainInv(f, NoJob) /\ GcInv(flash, f, NoJob) /\ CacheInv(flash, f, NoJob)
        /\ Stage(f, "compare") /\ f.Req # NoReq
    BY DEF Inv, Landed, Stage
  <1>2. /\ s \in Sectors /\ o \in Sectors /\ o # s
        /\ cells \in [Slots -> Cells]
        /\ LET c == BlockCopy(b, f.Req.val)
           IN /\ d \in Slots /\ c \in Cells /\ c.kind = "copy" /\ c.blk = b
              /\ b \in Blocks
              /\ old \in [Slots -> Cells] /\ BlankFrom(old, d)
              /\ cells = [old EXCEPT ![d] = c]
              /\ f.MainJob = "WRITE" /\ f.CacheUpdated
              /\ d >= PerWL /\ Frontier(cells, d + 1)
    BY AckCells
  <1>3. /\ f.InitGCState = "COMPLETE"
        /\ f.GcState \in {"IDLE", "REQUESTED", "START_COPY", "ERASE"}
    BY <1>1, <1>2 DEF MainInv, IsFee
  <1>4. IsFee(h)
    <2>1. h.CacheUpdated = f.CacheUpdated /\ h.GcInit = f.GcInit /\ h.BlkModified = f.BlkModified
      BY DEF Fields
    <2>2. /\ h.CacheUpdated \in BOOLEAN /\ h.GcInit \in BOOLEAN /\ h.BlkModified \in BOOLEAN
      BY <1>1, <2>1, Zenon DEF IsFee
    <2> QED
      BY <1>1, <2>2 DEF IsFee, Fields
  <1>5. /\ h.Req = f.Req /\ h.NextFreePage = d /\ h.Cache = f.Cache /\ h.MainJob = "WRITE"
        /\ h.GcState = f.GcState /\ h.Copied = f.Copied /\ h.BlkModified = f.BlkModified
        /\ h.CurrSector = s
    BY <1>2 DEF Fields, Cur
  <1>6. /\ IsFee(g) /\ g.Req = NoReq /\ g.NextFreePage = d + 1
        /\ g.Cache = [f.Cache EXCEPT ![b] = At(s, d)]
        /\ g.MainJob = (IF f.GcState = "REQUESTED" THEN "GC" ELSE "WRITE")
        /\ f.GcState \in {"IDLE", "ERASE"} =>
             g.Copied = f.Copied /\ g.BlkModified = f.BlkModified
        /\ f.GcState \notin {"IDLE", "ERASE"} =>
             g.Copied = [f.Copied EXCEPT ![b] = FALSE] /\ g.BlkModified = TRUE
        /\ \A x \in Fields \ {"Req", "NextFreePage", "Cache", "MainJob", "Copied",
                              "BlkModified"} : g[x] = h[x]
    <2>1. h.Req # NoReq /\ h.NextFreePage \in Slots
      BY <1>1, <1>2, <1>5
    <2>2. /\ IsFee(g) /\ g.Req = NoReq /\ g.NextFreePage = h.NextFreePage + 1
          /\ g.Cache = [h.Cache EXCEPT ![h.Req.blk] = At(h.CurrSector, h.NextFreePage)]
          /\ g.MainJob = (IF h.GcState = "REQUESTED" THEN "GC" ELSE h.MainJob)
          /\ h.GcState \in {"IDLE", "ERASE"} =>
               g.Copied = h.Copied /\ g.BlkModified = h.BlkModified
          /\ h.GcState \notin {"IDLE", "ERASE"} =>
               g.Copied = [h.Copied EXCEPT ![h.Req.blk] = FALSE] /\ g.BlkModified = TRUE
          /\ \A x \in Fields \ {"Req", "NextFreePage", "Cache", "MainJob", "Copied",
                                "BlkModified"} : g[x] = h[x]
      BY <1>4, <2>1, WriteDoneFields
    <2>3. h.Req.blk = b
      BY <1>5
    <2> HIDE DEF g, b, d, s
    <2> QED
      BY <1>5, <2>2, <2>3
  <1> HIDE DEF g
  <1>7. /\ g.UserJob = "IDLE" /\ g.CacheUpdated /\ g.GcState = f.GcState
        /\ g.InitGCState = "COMPLETE" /\ g.IntrJob = f.IntrJob /\ g.GcDest = f.GcDest
        /\ g.NextFreeWL = f.NextFreeWL /\ g.StateCount = f.StateCount
        /\ Cur(g) = s /\ Oth(g) = o
    <2>1. h.CurrSector = f.CurrSector /\ h.CacheUpdated /\ h.InitGCState = "COMPLETE"
      BY <1>2, <1>3 DEF Fields
    <2> QED
      BY <1>3, <1>6, <2>1 DEF Fields, Cur, Oth
  <1>8. /\ \A st : ~Stage(g, st)
        /\ ~Landed(g, NoJob)
    BY <1>6 DEF Stage, Landed
  <1>9. UserInv(flash, g, NoJob)
    BY <1>2, <1>6, <1>7, <1>8 DEF UserInv
  <1>10. MainInv(g, NoJob)
    <2>1. ~IntrRuns(NoJob)
      BY DEF IntrRuns
    <2> QED
      BY <1>3, <1>6, <1>7, <2>1 DEF MainInv
  <1>11. GcInv(flash, g, NoJob)
    <2>1. ~IntrRuns(NoJob)
      BY DEF IntrRuns
    <2> QED
      BY <1>1, <1>3, <1>7, <2>1 DEF GcInv, Busy, Quiet, Over, GcRunning, GcOver
  <1>12. CountsKnown(flash, g) /\ PrepInv(flash, g, NoJob) /\ StartInv(flash, g, NoJob)
    BY <1>1, <1>7, StartedUp DEF CountsKnown
  <1>13. CacheInv(flash, g, NoJob)
    <2>1. Ack(flash, g, NoJob) = cells
      BY <1>7, <1>8 DEF Ack
    <2>2. g.Cache[b] = At(s, d) /\ g.Cache[b] # NoAddr /\ g.Cache[b].sector = s
          /\ g.Cache[b].slot = d
      BY <1>1, <1>2, <1>6, AddressFacts DEF IsFee
    <2>3. \A x \in Blocks \ {b} : g.Cache[x] = f.Cache[x] /\ g.Copied[x] = f.Copied[x]
      BY <1>1, <1>2, <1>6 DEF IsFee
    <2>4. g.GcState \in Copying => ~g.Copied[b]
      BY <1>1, <1>2, <1>3, <1>6, <1>7 DEF IsFee, Copying
    <2>5. LatestIs(cells, b, d) /\ CopiesOf(cells, b) # {}
      <3>1. cells[d].kind = "copy" /\ cells[d].blk = b /\ \A p \in Slots : p # d => cells[p] = old[p]
        BY <1>2
      <3>2. LatestIs(cells, b, d) /\ d \in CopiesOf(cells, b)
        <4>1. b \in Blocks /\ d \in Slots /\ old \in [Slots -> Cells] /\ BlankFrom(old, d)
              /\ cells \in [Slots -> Cells]
          BY <1>2
        <4> HIDE DEF cells, old, d, b
        <4>2. LatestIs(cells, b, d)
          BY <3>1, <4>1, NewCopy
        <4> QED
          BY <4>2 DEF LatestIs
      <3> QED
        BY <3>2
    <2>6. ASSUME NEW x \in Blocks PROVE CacheOk(flash, g, cells, x)
      <3>1. CASE x = b
        <4>1. ~Moved(g, b)
          BY <1>2, <1>7, <2>2 DEF Moved
        <4>2. g.GcState \notin {"V_SP", "V_M"}
          BY <1>3, <1>7
        <4> HIDE DEF b, d, cells
        <4> QED
          BY <2>2, <2>4, <2>5, <3>1, <4>1, <4>2 DEF CacheOk
      <3>2. CASE x # b
        <4>1. /\ CopiesOf(old, x) = CopiesOf(cells, x)
              /\ Latest(old, x) = Latest(cells, x)
              /\ \A a : LatestIs(old, x, a) <=> LatestIs(cells, x, a)
          BY <3>2, AckOthers
        <4>2. CacheOk(flash, f, old, x)
          BY <1>1, <1>2 DEF CacheInv
        <4>3. g.Cache[x] = f.Cache[x] /\ g.Copied[x] = f.Copied[x]
          BY <2>3, <3>2
        <4>4. Moved(g, x) <=> Moved(f, x)
          BY <1>7, <4>3 DEF Moved
        <4> HIDE DEF b, d, cells, old
        <4> QED
          BY <1>7, <4>1, <4>2, <4>3, <4>4 DEF CacheOk
      <3> QED
        BY <3>1, <3>2
    <2>7. g.GcState \in {"START_COPY", "COPY_WRITE"} => g.BlkModified
      BY <1>3, <1>6, <1>7
    <2> QED
      BY <2>1, <2>6, <2>7 DEF CacheInv
  <1>14. Inv(flash, g, NoJob)
    BY <1>1, <1>6, <1>9, <1>10, <1>11, <1>12, <1>13 DEF Inv
  <1> QED
    BY <1>8, <1>14 DEF g

\* Every step of a write keeps it.
LEMMA LocalWriteStep ==
  ASSUME NEW f, Inv(flash, f, NoJob), f.Req # NoReq, job = NoJob, LocalWrite(f),
         doubt \in [Blocks -> SUBSET (Values \cup {NoValue})]
  PROVE  /\ Inv(flash, fee', job') /\ ~Landed(fee', job')
         /\ doubt' \in [Blocks -> SUBSET (Values \cup {NoValue})]
  <1> DEFINE h == [f EXCEPT !.UserJob = "IDLE"]
             passed == f.UserJob = "PASS"
  <1>1. /\ IsFee(f) /\ MainInv(f, NoJob) /\ UserInv(flash, f, NoJob)
        /\ f.MainJob = "WRITE" /\ f.CacheUpdated
    BY DEF Inv, MainInv, LocalWrite
  <1>2. f.Req.stage \in {"request", "toRead", "reading", "compare", "stuck"}
    BY <1>1 DEF UserInv
  <1>3. doubt' \in [Blocks -> SUBSET (Values \cup {NoValue})]
    BY DEF LocalWrite
  <1>4. /\ f.Req.stage = "request" => WriteCopy(h)
        /\ f.Req.stage = "compare" => WriteCompare(h, passed)
        /\ f.Req.stage \notin {"request", "compare", "recopy"} => Continue(h)
    BY DEF LocalWrite
  <1>5. DOMAIN h = Fields /\ h.UserJob = "IDLE" /\ \A x \in Fields \ {"UserJob"} : h[x] = f[x]
    BY <1>1 DEF IsFee, Fields
  <1> HIDE DEF h
  <1>6. h.Req = f.Req /\ h.MainJob = "WRITE" /\ h.CacheUpdated
        /\ \A st : Stage(h, st) <=> Stage(f, st)
    BY <1>1, <1>5 DEF Fields, Stage
  <1>7. ~Stage(f, "compare") => Inv(flash, h, NoJob) /\ ~Landed(h, NoJob)
    <2> SUFFICES ASSUME ~Stage(f, "compare") PROVE Inv(flash, h, NoJob) /\ ~Landed(h, NoJob)
      OBVIOUS
    <2>1. f.UserJob = "IDLE"
      BY <1>1 DEF UserInv
    <2>2. \A x \in Fields \ {"Req"} : h[x] = f[x]
      BY <1>5, <2>1
    <2>3. ~Landed(f, NoJob) /\ ~Landed(h, NoJob) /\ ~IntrRuns(NoJob)
      BY <1>6 DEF Landed, IntrRuns
    <2>4. UserInv(flash, h, NoJob)
      BY <1>1, <1>5, <1>6, <2>2 DEF UserInv, Fields, Cur
    <2>5. h.Req \in Requests \cup {NoReq}
      BY <1>1, <1>6 DEF IsFee
    <2> QED
      BY <1>5, <2>2, <2>3, <2>4, <2>5, RequestFrame
  <1>8. CASE f.Req.stage = "request"
    <2>1. Stage(h, "request") /\ Inv(flash, h, NoJob)
      BY <1>6, <1>7, <1>8 DEF Stage
    <2> QED
      BY <1>3, <1>4, <1>6, <1>8, <2>1, WriteCopyStep
  <1>9. CASE f.Req.stage = "compare"
    <2>1. Landed(f, NoJob)
      BY <1>9 DEF Landed, Stage
    <2>2. passed
      BY <1>1, <2>1 DEF UserInv, Landed, Programs, IsJob
    <2>3. Continue(WriteDone(h))
      BY <1>4, <1>9, <2>2 DEF WriteCompare
    <2>4. Inv(flash, WriteDone(h), NoJob) /\ ~Landed(WriteDone(h), NoJob)
      BY <1>5, <2>1, WriteDoneStep
    <2> QED
      BY <1>3, <2>3, <2>4 DEF Continue
  <1>10. CASE f.Req.stage \in {"toRead", "reading", "stuck"}
    <2>1. Continue(h) /\ ~Stage(f, "compare")
      BY <1>4, <1>10 DEF Stage
    <2> QED
      BY <1>3, <1>7, <2>1 DEF Continue
  <1> QED
    BY <1>2, <1>8, <1>9, <1>10

-----------------------------------------------------------------------------
(* The steps of the garbage collection.                                     *)

\* What a step of the collection has to show.
LEMMA GcStep ==
  ASSUME NEW f, Inv(flash, f, NoJob), f.MainJob = "GC",
         NEW g, IsFee(g), NEW j,
         g.MainJob = "GC", g.CacheUpdated, g.InitGCState = "COMPLETE", g.UserJob = f.UserJob,
         g.Req # NoReq => g.Req.stage \in {"request", "toRead", "stuck"},
         Stage(g, "stuck") => g.GcState = "FAIL",
         Frontier(flash[Cur(g)], g.NextFreePage),
         j = NoJob \/ (IntrRuns(j) /\ g.IntrJob = "IDLE"),
         CountsKnown(flash, g), GcInv(flash, g, j), CacheInv(flash, g, j)
  PROVE  Inv(flash, g, j) /\ ~Landed(g, j)
  <1>1. FlashOk(flash) /\ UserInv(flash, f, NoJob) /\ MainInv(f, NoJob)
    BY DEF Inv
  <1>2. ~Stage(g, "compare") /\ ~Stage(g, "reading")
    BY DEF Stage
  <1>3. ~Stage(f, "compare")
    BY <1>1 DEF UserInv
  <1>4. g.UserJob = "IDLE"
    BY <1>1, <1>3 DEF UserInv
  <1>5. UserInv(flash, g, j)
    BY <1>2, <1>4 DEF UserInv
  <1>6. MainInv(g, j)
    BY <1>4 DEF MainInv, IntrRuns
  <1>7. PrepInv(flash, g, j) /\ StartInv(flash, g, j)
    BY StartedUp
  <1>8. ~Landed(g, j)
    BY <1>2 DEF Landed
  <1> QED
    BY <1>1, <1>5, <1>6, <1>7, <1>8 DEF Inv

\* What a collection step starts from.
LEMMA GcFacts ==
  ASSUME NEW f, Inv(flash, f, NoJob), f.MainJob = "GC"
  PROVE  /\ FlashOk(flash) /\ IsFee(f) /\ CountsKnown(flash, f) /\ GcInv(flash, f, NoJob)
         /\ CacheInv(flash, f, NoJob) /\ Ack(flash, f, NoJob) = flash[Cur(f)]
         /\ f.CacheUpdated /\ f.InitGCState = "COMPLETE"
         /\ f.Req # NoReq => f.Req.stage \in {"request", "toRead", "stuck"}
         /\ Stage(f, "stuck") => f.GcState = "FAIL"
         /\ Frontier(flash[Cur(f)], f.NextFreePage)
         /\ Cur(f) \in Sectors /\ Oth(f) \in Sectors /\ Oth(f) # Cur(f)
         /\ Oth(f) = Other(f.CurrSector) /\ Cur(f) = f.CurrSector
         /\ \A b \in Blocks : CacheOk(flash, f, flash[Cur(f)], b)
  <1>1. /\ FlashOk(flash) /\ IsFee(f) /\ CountsKnown(flash, f) /\ GcInv(flash, f, NoJob)
        /\ CacheInv(flash, f, NoJob) /\ UserInv(flash, f, NoJob) /\ MainInv(f, NoJob)
    BY DEF Inv
  <1>2. f.CacheUpdated /\ f.InitGCState = "COMPLETE"
    BY <1>1 DEF MainInv
  <1>3. ~Stage(f, "compare") /\ ~Stage(f, "reading")
    BY <1>1 DEF UserInv
  <1>4. Ack(flash, f, NoJob) = flash[Cur(f)]
    BY <1>3 DEF Ack, Landed
  <1>5. Cur(f) \in Sectors /\ Oth(f) \in Sectors /\ Oth(f) # Cur(f)
        /\ Oth(f) = Other(f.CurrSector) /\ Cur(f) = f.CurrSector
    BY <1>1, SlotFacts DEF IsFee, Cur, Oth
  <1>6. /\ f.Req # NoReq => f.Req.stage \in {"request", "toRead", "stuck"}
        /\ Stage(f, "stuck") => f.GcState = "FAIL"
        /\ Frontier(flash[Cur(f)], f.NextFreePage)
    BY <1>1, <1>2, <1>3 DEF UserInv, Stage
  <1> QED
    BY <1>1, <1>2, <1>4, <1>5, <1>6 DEF CacheInv

\* The same cache in another state of the collection.
LEMMA CacheNextState ==
  ASSUME NEW fl, NEW f, NEW g, NEW j,
         \A b \in Blocks : CacheOk(fl, f, fl[Cur(f)], b),
         g.Cache = f.Cache, g.Copied = f.Copied, g.CurrSector = f.CurrSector,
         Ack(fl, g, j) = fl[Cur(f)],
         g.GcState \in Copying => f.GcState \in Copying,
         f.GcState \in Copying \cup {"FAIL"} => g.GcState \in Copying \cup {"FAIL"},
         g.GcState \in {"V_SP", "V_M"} =>
           \A b \in Blocks : Moved(f, b) \/ f.Cache[b] = NoAddr,
         g.GcState \in {"START_COPY", "COPY_WRITE"} /\ ~g.BlkModified =>
           \A b \in Blocks : b < g.GcCopyIndex => Moved(f, b) \/ f.Cache[b] = NoAddr
  PROVE  CacheInv(fl, g, j)
  <1>1. Cur(g) = Cur(f) /\ Oth(g) = Oth(f)
    BY DEF Cur, Oth
  <1>2. \A b : Moved(g, b) <=> Moved(f, b)
    BY <1>1 DEF Moved
  <1>3. ASSUME NEW b \in Blocks PROVE CacheOk(fl, g, fl[Cur(f)], b)
    BY <1>1, <1>2 DEF CacheOk
  <1> QED
    BY <1>2, <1>3 DEF CacheInv

\* A new count is above every count in the flash.
LEMMA CountsGrow ==
  ASSUME NEW fl, FlashOk(fl), NEW f, NEW g, CountsKnown(fl, f),
         f.StateCount \in Nat, g.StateCount \in Nat, g.StateCount >= f.StateCount
  PROVE  CountsKnown(fl, g) /\ (g.StateCount > f.StateCount => CountsBelow(fl, g))
  <1>1. ASSUME NEW s \in Sectors, NEW a \in Slots, Marked(fl[s][a])
        PROVE  /\ fl[s][a].cnt <= g.StateCount
               /\ g.StateCount > f.StateCount => fl[s][a].cnt < g.StateCount
    <2> DEFINE c == fl[s][a]
    <2>1. c \in Cells /\ c.kind = "state" /\ c.cnt <= f.StateCount
      BY <1>1 DEF FlashOk, Marked, CountsKnown
    <2> HIDE DEF c
    <2>2. c.cnt \in Nat
      BY <2>1, CellFacts
    <2> QED
      BY <2>1, <2>2 DEF c
  <1> QED
    BY <1>1 DEF CountsKnown, CountsBelow

\* A state in which the collection has given up.
LEMMA GcFailStep ==
  ASSUME NEW f, Inv(flash, f, NoJob), f.MainJob = "GC", Governs(flash, Cur(f)),
         NEW g, IsFee(g), g.GcState = "FAIL", g.IntrJob = "IDLE",
         \A x \in Fields \ {"GcState", "IntrJob", "IntrJobFailCount", "GcDest", "GcCopyIndex",
                            "BlkModified", "StateCount", "GcSrcAddr"} : g[x] = f[x],
         g.StateCount >= f.StateCount
  PROVE  f.GcState \in Copying \cup {"FAIL"} \/ (\A b \in Blocks : ~Moved(f, b))
           => Inv(flash, g, NoJob) /\ ~Landed(g, NoJob)
  <1> SUFFICES ASSUME f.GcState \in Copying \cup {"FAIL"} \/ (\A b \in Blocks : ~Moved(f, b))
               PROVE  Inv(flash, g, NoJob) /\ ~Landed(g, NoJob)
    OBVIOUS
  <1>1. /\ FlashOk(flash) /\ IsFee(f) /\ CountsKnown(flash, f)
        /\ f.CacheUpdated /\ f.InitGCState = "COMPLETE"
        /\ f.Req # NoReq => f.Req.stage \in {"request", "toRead", "stuck"}
        /\ Frontier(flash[Cur(f)], f.NextFreePage)
        /\ \A b \in Blocks : CacheOk(flash, f, flash[Cur(f)], b)
    BY GcFacts
  <1>2. /\ g.MainJob = "GC" /\ g.CacheUpdated /\ g.InitGCState = "COMPLETE"
        /\ g.UserJob = f.UserJob /\ g.Req = f.Req /\ g.NextFreePage = f.NextFreePage
        /\ g.CurrSector = f.CurrSector /\ Cur(g) = Cur(f) /\ g.Cache = f.Cache
    BY <1>1 DEF Fields, Cur
  <1>3. CountsKnown(flash, g)
    <2>1. f.StateCount \in Nat /\ g.StateCount \in Nat
      BY <1>1 DEF IsFee
    <2> QED
      BY <1>1, <2>1, CountsGrow
  <1>4. Quiet(g, NoJob)
    BY DEF Quiet, IntrRuns
  <1>5. GcInv(flash, g, NoJob)
    BY <1>2, <1>4 DEF GcInv, Busy
  <1>6. Ack(flash, g, NoJob) = flash[Cur(f)]
    BY <1>1, <1>2 DEF Ack, Landed, Stage
  <1>7. CacheInv(flash, g, NoJob)
    <2>1. \A b : Moved(g, b) <=> Moved(f, b)
      BY <1>2 DEF Moved, Cur, Oth
    <2>2. Oth(g) = Oth(f)
      BY <1>2 DEF Oth
    <2>3. ASSUME NEW b \in Blocks PROVE CacheOk(flash, g, flash[Cur(f)], b)
      BY <1>1, <1>2, <2>1, <2>2 DEF CacheOk, Copying
    <2> QED
      BY <1>6, <2>3 DEF CacheInv
  <1> QED
    BY <1>1, <1>2, <1>3, <1>5, <1>7, GcStep

\* A collection begins.
LEMMA GcRequestedStep ==
  ASSUME NEW f, Inv(flash, f, NoJob), f.MainJob = "GC", f.GcState = "REQUESTED"
  PROVE  LET g == GcRequested(f)
         IN Inv(flash, g, NoJob) /\ g.MainJob = "GC" /\ g.GcState = "START_COPY"
  <1> DEFINE g == GcRequested(f)
             o == Oth(f)
             none == [b \in Blocks |-> FALSE]
  <1>1. /\ FlashOk(flash) /\ IsFee(f) /\ CountsKnown(flash, f) /\ GcInv(flash, f, NoJob)
        /\ f.CacheUpdated /\ f.InitGCState = "COMPLETE"
        /\ f.Req # NoReq => f.Req.stage \in {"request", "toRead", "stuck"}
        /\ Stage(f, "stuck") => f.GcState = "FAIL"
        /\ Frontier(flash[Cur(f)], f.NextFreePage) /\ o \in Sectors /\ o = Other(f.CurrSector)
        /\ \A b \in Blocks : CacheOk(flash, f, flash[Cur(f)], b)
    BY GcFacts
  <1>2. Governs(flash, Cur(f)) /\ Unused(flash[o]) /\ f.NextFreeWL[o] = PerWL /\ Quiet(f, NoJob)
    BY <1>1 DEF GcInv, Busy
  <1>3. /\ g.GcState = "START_COPY" /\ g.GcDest = PerWL /\ g.GcCopyIndex = 0
        /\ g.Copied = none /\ g.BlkModified = FALSE /\ DOMAIN g = Fields
        /\ \A x \in Fields \ {"GcState", "GcDest", "GcCopyIndex", "Copied", "BlkModified",
                              "GcSrcAddr"} : g[x] = f[x]
    BY <1>1, <1>2 DEF GcRequested, IsFee, Fields
  <1>4. none \in [Blocks -> BOOLEAN] /\ \A b \in Blocks : ~none[b]
    OBVIOUS
  <1> HIDE DEF g, none
  <1>5. IsFee(g)
    <2>1. /\ f.CacheUpdated \in BOOLEAN /\ f.GcInit \in BOOLEAN
      BY <1>1 DEF IsFee
    <2>2. g.CacheUpdated = f.CacheUpdated /\ g.GcInit = f.GcInit
      BY <1>3 DEF Fields
    <2>3. /\ g.CacheUpdated \in BOOLEAN /\ g.GcInit \in BOOLEAN /\ g.BlkModified \in BOOLEAN
      BY <1>3, <2>1, <2>2, Zenon
    <2>4. PerWL \in Nat
      BY SlotFacts
    <2> QED
      BY <1>1, <1>3, <1>4, <2>3, <2>4 DEF IsFee, Fields
  <1>6. /\ g.MainJob = "GC" /\ g.CacheUpdated /\ g.InitGCState = "COMPLETE"
        /\ g.UserJob = f.UserJob /\ g.Req = f.Req /\ g.NextFreePage = f.NextFreePage
        /\ g.CurrSector = f.CurrSector /\ Cur(g) = Cur(f) /\ Oth(g) = o /\ g.Cache = f.Cache
        /\ g.IntrJob = f.IntrJob /\ g.StateCount = f.StateCount
    BY <1>1, <1>3 DEF Fields, Cur, Oth
  <1>7. ~Stage(f, "stuck") /\ ~Stage(g, "stuck")
    BY <1>1, <1>6 DEF Stage
  <1>8. Filling(flash[o], PerWL)
    <2>1. Shape(flash[o]) /\ PerWL \in Slots /\ Slots \subseteq Nat /\ flash[o] \in [Slots -> Cells]
      BY <1>1, SlotFacts DEF FlashOk
    <2>2. NoValidIn(flash[o])
      <3> SUFFICES ASSUME NEW a \in Slots, IsState(flash[o][a], "VALID") PROVE FALSE
        BY DEF NoValidIn
      <3>1. a >= PerWL
        BY <2>1 DEF Shape
      <3>2. flash[o][a] = Blank
        BY <1>2, <3>1 DEF Unused, BlankFrom
      <3> QED
        BY <3>2, BuiltCells DEF IsState
    <2>3. Frontier(flash[o], PerWL)
      <3>1. PerWL >= PerWL
        BY <2>1
      <3> QED
        BY <1>2, <3>1, WordlineSlots DEF Frontier, Unused
    <2> QED
      BY <1>2, <2>2, <2>3 DEF Filling, Unused
  <1>9. Quiet(g, NoJob)
    BY <1>2, <1>6 DEF Quiet
  <1>10. GcInv(flash, g, NoJob)
    BY <1>2, <1>3, <1>6, <1>8, <1>9 DEF GcInv, Busy
  <1>11. CacheInv(flash, g, NoJob)
    <2>1. Ack(flash, g, NoJob) = flash[Cur(f)]
      BY <1>1, <1>6 DEF Ack, Landed, Stage
    <2>2. ASSUME NEW b \in Blocks PROVE CacheOk(flash, g, flash[Cur(f)], b)
      <3>1. ~Moved(f, b) /\ ~Moved(g, b)
        BY <1>1, <1>6 DEF CacheOk, Copying, Moved
      <3>2. CopiesOf(flash[o], b) = {}
        <4> SUFFICES ASSUME NEW a \in CopiesOf(flash[o], b) PROVE FALSE
          OBVIOUS
        <4>1. a \in Slots /\ flash[o][a].kind = "copy"
          BY DEF CopiesOf
        <4>2. a >= PerWL
          BY <1>1, <4>1 DEF FlashOk, Shape
        <4>3. flash[o][a] = Blank
          BY <1>2, <4>1, <4>2 DEF Unused, BlankFrom
        <4> QED
          BY <4>1, <4>3, BuiltCells
      <3> QED
        BY <1>1, <1>3, <1>4, <1>6, <3>1, <3>2 DEF CacheOk
    <2>3. \A b \in Blocks : ~(b < g.GcCopyIndex)
      BY <1>3, SlotFacts
    <2> QED
      BY <2>1, <2>2, <2>3 DEF CacheInv
  <1>12. CountsKnown(flash, g)
    BY <1>1, <1>6 DEF CountsKnown
  <1>13. Inv(flash, g, NoJob)
    BY <1>1, <1>5, <1>6, <1>7, <1>10, <1>11, <1>12, GcStep
  <1> QED
    BY <1>3, <1>6, <1>13 DEF g

\* The next block that has not been copied goes to the other sector.
LEMMA GcCopyWriteStep ==
  ASSUME NEW f, Inv(flash, f, NoJob), f.MainJob = "GC", f.GcState = "START_COPY", job = NoJob,
         NEW h, DOMAIN h = Fields, h.BlkModified \in BOOLEAN,
         \A x \in Fields \ {"BlkModified"} : h[x] = f[x],
         NEW b \in Blocks, f.Cache[b] # NoAddr, ~f.Copied[b],
         ~h.BlkModified => \A x \in Blocks : x < b => Moved(f, x) \/ f.Cache[x] = NoAddr,
         GcCopyWrite(h, b)
  PROVE  Inv(flash, fee', job') /\ ~Landed(fee', job')
  <1> DEFINE o == Oth(f)
             a == f.GcDest
             cell == flash[f.Cache[b].sector][f.Cache[b].slot]
  <1>1. /\ FlashOk(flash) /\ IsFee(f) /\ CountsKnown(flash, f) /\ GcInv(flash, f, NoJob)
        /\ f.CacheUpdated /\ f.InitGCState = "COMPLETE"
        /\ f.Req # NoReq => f.Req.stage \in {"request", "toRead", "stuck"}
        /\ Stage(f, "stuck") => f.GcState = "FAIL"
        /\ Frontier(flash[Cur(f)], f.NextFreePage) /\ Cur(f) \in Sectors /\ o \in Sectors
        /\ o = Other(f.CurrSector) /\ Cur(f) = f.CurrSector
        /\ \A x \in Blocks : CacheOk(flash, f, flash[Cur(f)], x)
    BY GcFacts
  <1>2. Governs(flash, Cur(f)) /\ Quiet(f, NoJob) /\ Filling(flash[o], a) /\ f.IntrJob = "IDLE"
    BY <1>1 DEF GcInv, Busy, Quiet
  <1>3. /\ h.Cache = f.Cache /\ h.GcDest = a /\ h.CurrSector = f.CurrSector
    BY DEF Fields
  <1>4. IsFee(h)
    <2>1. h.CacheUpdated = f.CacheUpdated /\ h.GcInit = f.GcInit
      BY DEF Fields
    <2>2. /\ h.CacheUpdated \in BOOLEAN /\ h.GcInit \in BOOLEAN
      BY <1>1, <2>1, Zenon DEF IsFee
    <2> QED
      BY <1>1, <2>2 DEF IsFee, Fields
  <1>5. /\ ~Moved(f, b) /\ f.Cache[b] \in Addresses /\ f.Cache[b].sector = Cur(f)
        /\ f.Cache[b].slot \in Slots /\ LatestIs(flash[Cur(f)], b, f.Cache[b].slot)
    <2>1. CacheOk(flash, f, flash[Cur(f)], b) /\ f.GcState \in Copying
      BY <1>1 DEF Copying
    <2>2. ~Moved(f, b)
      BY <2>1 DEF CacheOk
    <2>3. f.Cache[b] \in Addresses
      BY <1>1 DEF IsFee
    <2>4. f.Cache[b].sector \in Sectors /\ f.Cache[b].slot \in Slots
      BY <2>3, AddressFacts
    <2>5. f.Cache[b].sector # o
      BY <2>2 DEF Moved
    <2>6. f.Cache[b].sector = Cur(f)
      BY <1>1, <2>4, <2>5, SlotFacts
    <2> QED
      BY <2>1, <2>2, <2>3, <2>4, <2>6 DEF CacheOk
  <1>6. cell \in Cells /\ cell.blk = b
    BY <1>1, <1>5 DEF FlashOk, LatestIs, CopiesOf
  <1>7. CASE ThresholdCrossed(Free(a), 1)
    <2> DEFINE g == GcFail(h)
    <2>1. fee' = g /\ job' = NoJob
      BY <1>3, <1>7 DEF GcCopyWrite, Continue
    <2>2. /\ g.GcState = "FAIL" /\ IsFee(g)
          /\ \A x \in Fields \ {"GcState"} : g[x] = h[x]
      BY <1>4 DEF GcFail, IsFee, Fields
    <2> HIDE DEF g
    <2>3. g.IntrJob = "IDLE" /\ g.StateCount >= f.StateCount
      <3>1. f.StateCount \in Nat /\ g.StateCount = f.StateCount /\ g.IntrJob = f.IntrJob
        BY <1>1, <2>2 DEF Fields, IsFee
      <3> QED
        BY <1>2, <3>1
    <2>4. \A x \in Fields \ {"GcState", "IntrJob", "IntrJobFailCount", "GcDest", "GcCopyIndex",
                            "BlkModified", "StateCount", "GcSrcAddr"} : g[x] = f[x]
      BY <2>2
    <2>5. Inv(flash, g, NoJob) /\ ~Landed(g, NoJob)
      BY <1>2, <2>2, <2>3, <2>4, GcFailStep DEF Copying
    <2> QED
      BY <2>1, <2>5
  <1>8. CASE ~ThresholdCrossed(Free(a), 1)
    <2> DEFINE j == ProgramCell(o, a, cell, "intr")
               g == [h EXCEPT !.GcState = "COPY_WRITE", !.GcCopyIndex = b, !.GcBlock = cell.blk]
               k == IF IsWLBeginning(a)
                    THEN [g EXCEPT !.GcFirstBlkInWL = cell.blk, !.GcSrcAddr = <<>>] ELSE g
    <2>1. fee' = k /\ job' = j
      <3>1. /\ Other(h.CurrSector) = o
            /\ flash[h.Cache[b].sector][h.Cache[b].slot] = cell
        BY <1>1, <1>3
      <3>2. Start(k, j)
        BY <1>3, <1>8, <3>1 DEF GcCopyWrite
      <3> QED
        BY <3>2 DEF Start
    <2>2. a \in Slots /\ a \in Nat /\ a >= PerWL
      BY <1>1, <1>2, <1>8, FreeFacts, SlotFacts DEF IsFee, Filling, Frontier
    <2>3. Programs(j, "intr", o, a, cell)
      BY <1>1, <1>6, <2>2, BuiltJobs
    <2> HIDE DEF j, cell
    <2>4. /\ k.GcState = "COPY_WRITE" /\ k.GcCopyIndex = b /\ k.GcBlock = b /\ DOMAIN k = Fields
          /\ \A x \in Fields \ {"GcState", "GcCopyIndex", "GcBlock", "GcFirstBlkInWL",
                                "GcSrcAddr"} : k[x] = h[x]
      BY <1>4, <1>6 DEF IsFee, Fields
    <2> HIDE DEF k
    <2>5. IsFee(k)
      <3>1. /\ k.CacheUpdated = h.CacheUpdated /\ k.GcInit = h.GcInit
            /\ k.BlkModified = h.BlkModified
        BY <2>4 DEF Fields
      <3>2. /\ k.CacheUpdated \in BOOLEAN /\ k.GcInit \in BOOLEAN /\ k.BlkModified \in BOOLEAN
        BY <1>4, <3>1, Zenon DEF IsFee
      <3>3. b \in Nat
        BY SlotFacts
      <3> QED
        BY <1>4, <2>4, <3>2, <3>3 DEF IsFee, Fields
    <2>6. /\ k.MainJob = "GC" /\ k.CacheUpdated /\ k.InitGCState = "COMPLETE"
          /\ k.UserJob = f.UserJob /\ k.Req = f.Req /\ k.NextFreePage = f.NextFreePage
          /\ k.CurrSector = f.CurrSector /\ Cur(k) = Cur(f) /\ Oth(k) = o /\ k.Cache = f.Cache
          /\ k.IntrJob = "IDLE" /\ k.StateCount = f.StateCount /\ k.GcDest = a
          /\ k.Copied = f.Copied /\ k.BlkModified = h.BlkModified
      BY <1>1, <1>2, <2>4 DEF Fields, Cur, Oth
    <2>7. IntrRuns(j)
      BY <2>3 DEF Programs, IsJob, IntrRuns
    <2>8. ~Stage(f, "stuck") /\ ~Stage(k, "stuck")
      BY <1>1, <2>6 DEF Stage
    <2>9. GcCell(flash, k) = cell
      BY <1>5, <2>4, <2>6 DEF GcCell, cell
    <2>10. GcRunning(flash, k, j)
      BY <1>2, <2>3, <2>4, <2>6, <2>9 DEF GcRunning
    <2>11. GcInv(flash, k, j)
      BY <1>2, <1>5, <2>2, <2>4, <2>6, <2>10 DEF GcInv, Busy
    <2>12. Ack(flash, k, j) = flash[Cur(f)]
      BY <1>1, <2>6 DEF Ack, Landed, Stage
    <2>13. CacheInv(flash, k, j)
      BY <1>1, <2>4, <2>6, <2>12, CacheNextState DEF Copying
    <2>14. CountsKnown(flash, k)
      BY <1>1, <2>6 DEF CountsKnown
    <2>15. Inv(flash, k, j) /\ ~Landed(k, j)
      BY <1>1, <2>5, <2>6, <2>7, <2>8, <2>11, <2>13, <2>14, GcStep
    <2> QED
      BY <2>1, <2>15
  <1> QED
    BY <1>7, <1>8

\* The programming of a state page, or the end of a collection without room.
LEMMA PageJob ==
  ASSUME NEW h, IsFee(h), h.GcState \in {"V_SP", "E_SP"}, GcStatePage(h)
  PROVE  \/ /\ IsFee(fee') /\ fee'.GcState = "FAIL" /\ job' = job
            /\ \A x \in Fields \ {"GcState"} : fee'[x] = h[x]
         \/ /\ IsFee(fee') /\ h.GcDest \in Slots
            /\ fee'.StateCount = h.StateCount + 1
            /\ \A x \in Fields \ {"StateCount"} : fee'[x] = h[x]
            /\ Programs(job', "intr", Other(h.CurrSector), h.GcDest,
                 StatePage(IF h.GcState = "V_SP" THEN "VALID" ELSE "ERASED",
                           fee'.StateCount, "none"))
  <1> DEFINE st == IF h.GcState = "V_SP" THEN "VALID" ELSE "ERASED"
             d == h.GcDest
             n == h.StateCount + 1
             o == Other(h.CurrSector)
  <1>1. NextCount(h) = n /\ n \in Nat \ {0} /\ d \in Nat /\ o \in Sectors
    BY SlotFacts DEF NextCount, IsFee
  <1>2. CASE Free(d) < PerWL
    <2> DEFINE g == GcFail(h)
    <2>1. fee' = g /\ job' = job
      BY <1>2 DEF GcStatePage, Continue
    <2>2. g.GcState = "FAIL" /\ IsFee(g) /\ \A x \in Fields \ {"GcState"} : g[x] = h[x]
      BY DEF GcFail, IsFee, Fields
    <2> HIDE DEF g
    <2> QED
      BY <2>1, <2>2
  <1>3. CASE ~(Free(d) < PerWL)
    <2> DEFINE g == [h EXCEPT !.StateCount = n]
               c == StatePage(st, n, "none")
               j == ProgramCell(o, d, c, "intr")
    <2>1. fee' = g /\ job' = j
      BY <1>1, <1>3 DEF GcStatePage, Start
    <2>2. d \in Slots
      <3>1. Free(d) \in Nat /\ PerWL \in Nat
        BY <1>1, FreeFacts, SlotFacts
      <3>2. Free(d) >= PerWL
        BY <1>3, <3>1
      <3> QED
        BY <1>1, <3>2, FreeFacts
    <2>3. Programs(j, "intr", o, d, c)
      BY <1>1, <2>2, BuiltJobs, BuiltCells
    <2>4. g.StateCount = n /\ IsFee(g) /\ \A x \in Fields \ {"StateCount"} : g[x] = h[x]
      BY <1>1 DEF IsFee, Fields
    <2> HIDE DEF g, j
    <2> QED
      BY <2>1, <2>2, <2>3, <2>4
  <1> QED
    BY <1>2, <1>3

\* The VALID page of the other sector, when every block has been copied.
LEMMA ValidPageStep ==
  ASSUME NEW f, Inv(flash, f, NoJob), f.MainJob = "GC", f.GcState = "START_COPY", job = NoJob,
         NEW h, IsFee(h), h.GcState = "V_SP",
         h.GcDest = IF IsWLBeginning(f.GcDest) THEN f.GcDest ELSE NextWL(f.GcDest),
         \A x \in Fields \ {"GcState", "IntrJobFailCount", "GcCopyIndex", "GcDest",
                            "BlkModified"} : h[x] = f[x],
         \A x \in Blocks : Moved(f, x) \/ f.Cache[x] = NoAddr,
         GcStatePage(h)
  PROVE  Inv(flash, fee', job') /\ ~Landed(fee', job')
  <1> DEFINE o == Oth(f)
             a == f.GcDest
             d == h.GcDest
             g == fee'
             j == job'
  <1>1. /\ FlashOk(flash) /\ IsFee(f) /\ CountsKnown(flash, f) /\ GcInv(flash, f, NoJob)
        /\ f.CacheUpdated /\ f.InitGCState = "COMPLETE"
        /\ f.Req # NoReq => f.Req.stage \in {"request", "toRead", "stuck"}
        /\ Stage(f, "stuck") => f.GcState = "FAIL"
        /\ Frontier(flash[Cur(f)], f.NextFreePage) /\ o = Other(f.CurrSector)
        /\ \A x \in Blocks : CacheOk(flash, f, flash[Cur(f)], x)
    BY GcFacts
  <1>2. Governs(flash, Cur(f)) /\ Quiet(f, NoJob) /\ Filling(flash[o], a) /\ f.IntrJob = "IDLE"
    BY <1>1 DEF GcInv, Busy, Quiet
  <1>3. /\ h.StateCount = f.StateCount /\ h.CurrSector = f.CurrSector /\ h.IntrJob = "IDLE"
        /\ h.MainJob = "GC" /\ h.CacheUpdated /\ h.InitGCState = "COMPLETE"
        /\ h.UserJob = f.UserJob /\ h.Req = f.Req /\ h.NextFreePage = f.NextFreePage
        /\ h.Cache = f.Cache /\ h.Copied = f.Copied /\ f.StateCount \in Nat /\ a \in Nat
    BY <1>1, <1>2 DEF Fields, IsFee
  <1>4. d \in Nat /\ a <= d /\ IsWLBeginning(d) /\ d >= PerWL
    <2>1. NextWL(a) \in Nat /\ a < NextWL(a) /\ IsWLBeginning(NextWL(a))
      BY <1>3, WordlineFacts
    <2>2. a >= PerWL /\ PerWL \in Nat
      BY <1>2, SlotFacts DEF Filling, Frontier
    <2>3. CASE IsWLBeginning(a)
      BY <1>3, <2>2, <2>3
    <2>4. CASE ~IsWLBeginning(a)
      BY <1>3, <2>1, <2>2, <2>4
    <2> QED
      BY <2>3, <2>4
  <1>5. BlankFrom(flash[o], d) /\ BlankFrom(flash[o], d + 1)
    <2>1. BlankFrom(flash[o], a)
      BY <1>2 DEF Filling, Frontier
    <2>2. \A p \in Slots : p >= d \/ p >= d + 1 => p >= a
      BY <1>3, <1>4, SlotFacts
    <2> QED
      BY <2>1, <2>2 DEF BlankFrom
  <1>6. Filling(flash[o], d)
    BY <1>2, <1>4, <1>5 DEF Filling, Frontier
  <1>7. CASE /\ IsFee(fee') /\ fee'.GcState = "FAIL" /\ job' = job
             /\ \A x \in Fields \ {"GcState"} : fee'[x] = h[x]
    <2> HIDE DEF g
    <2>1. /\ IsFee(g) /\ g.GcState = "FAIL" /\ g.IntrJob = "IDLE" /\ j = NoJob
          /\ g.StateCount = f.StateCount
      BY <1>3, <1>7 DEF g, Fields
    <2>2. \A x \in Fields \ {"GcState", "IntrJob", "IntrJobFailCount", "GcDest", "GcCopyIndex",
                            "BlkModified", "StateCount", "GcSrcAddr"} : g[x] = f[x]
      BY <1>7 DEF g
    <2>3. g.StateCount >= f.StateCount
      BY <1>3, <2>1
    <2>4. Inv(flash, g, NoJob) /\ ~Landed(g, NoJob)
      BY <1>2, <2>1, <2>2, <2>3, GcFailStep DEF Copying
    <2> QED
      BY <2>1, <2>4 DEF g
  <1>8. CASE /\ IsFee(fee') /\ h.GcDest \in Slots
             /\ fee'.StateCount = h.StateCount + 1
             /\ \A x \in Fields \ {"StateCount"} : fee'[x] = h[x]
             /\ Programs(job', "intr", Other(h.CurrSector), h.GcDest,
                         StatePage("VALID", fee'.StateCount, "none"))
    <2> HIDE DEF g, j, d
    <2>1. /\ IsFee(g) /\ d \in Slots /\ g.StateCount = f.StateCount + 1
          /\ \A x \in Fields \ {"StateCount"} : g[x] = h[x]
          /\ Programs(j, "intr", o, d, StatePage("VALID", g.StateCount, "none"))
      BY <1>1, <1>3, <1>8 DEF g, j, d
    <2>2. /\ g.MainJob = "GC" /\ g.CacheUpdated /\ g.InitGCState = "COMPLETE"
          /\ g.UserJob = f.UserJob /\ g.Req = f.Req /\ g.NextFreePage = f.NextFreePage
          /\ g.CurrSector = f.CurrSector /\ Cur(g) = Cur(f) /\ Oth(g) = o /\ g.Cache = f.Cache
          /\ g.IntrJob = "IDLE" /\ g.GcDest = d /\ g.Copied = f.Copied /\ g.GcState = "V_SP"
      BY <1>1, <1>3, <2>1 DEF Fields, Cur, Oth, d
    <2>3. IntrRuns(j)
      BY <2>1 DEF Programs, IsJob, IntrRuns
    <2>4. ~Stage(f, "stuck") /\ ~Stage(g, "stuck")
      BY <1>1, <2>2 DEF Stage
    <2>5. CountsKnown(flash, g) /\ CountsBelow(flash, g)
      <3>1. f.StateCount \in Nat /\ g.StateCount \in Nat /\ g.StateCount >= f.StateCount
            /\ g.StateCount > f.StateCount
        BY <1>3, <2>1
      <3> QED
        BY <1>1, <3>1, CountsGrow
    <2>6. GcRunning(flash, g, j)
      BY <1>6, <2>1, <2>2, <2>5 DEF GcRunning, GcCell
    <2>7. MarkedState(flash[o][0], "ERASED")
      BY <1>2 DEF Filling
    <2>8. GcInv(flash, g, j)
      BY <1>2, <1>4, <1>5, <2>1, <2>2, <2>6, <2>7 DEF GcInv, Busy
    <2>9. Ack(flash, g, j) = flash[Cur(f)]
      BY <1>1, <2>2 DEF Ack, Landed, Stage
    <2>10. CacheInv(flash, g, j)
      BY <1>1, <2>2, <2>9, CacheNextState DEF Copying
    <2>11. Inv(flash, g, j) /\ ~Landed(g, j)
      BY <1>1, <2>1, <2>2, <2>3, <2>4, <2>5, <2>8, <2>10, GcStep
    <2> QED
      BY <2>11 DEF g, j
  <1> QED
    BY <1>7, <1>8, PageJob

\* The next block is copied, or all have been and the VALID page follows.
LEMMA GcStartCopyStep ==
  ASSUME NEW f, Inv(flash, f, NoJob), f.MainJob = "GC", f.GcState = "START_COPY", job = NoJob,
         GcStartCopy(f)
  PROVE  Inv(flash, fee', job') /\ ~Landed(fee', job')
  <1> DEFINE again == ToCopy(f, f.GcCopyIndex) = {} /\ f.BlkModified
             from == IF again THEN 0 ELSE f.GcCopyIndex
             left == ToCopy(f, from)
             h == IF again THEN [f EXCEPT !.BlkModified = FALSE] ELSE f
  <1>1. /\ IsFee(f) /\ CacheInv(flash, f, NoJob) /\ f.CacheUpdated
        /\ \A b \in Blocks : CacheOk(flash, f, flash[Cur(f)], b)
        /\ f.GcState \in Copying
    BY GcFacts DEF Copying
  <1>2. f.GcCopyIndex \in Nat /\ f.BlkModified \in BOOLEAN /\ DOMAIN f = Fields
    BY <1>1 DEF IsFee
  <1>3. /\ DOMAIN h = Fields /\ h.BlkModified \in BOOLEAN
        /\ \A x \in Fields \ {"BlkModified"} : h[x] = f[x]
        /\ ~again => h = f
    BY <1>2 DEF Fields
  <1>4. \A x \in Blocks : f.Copied[x] => Moved(f, x)
    BY <1>1 DEF CacheOk
  <1>5. \A x \in Blocks : x \notin left => x < from \/ f.Cache[x] = NoAddr \/ Moved(f, x)
    BY <1>2, <1>4, SlotFacts DEF ToCopy
  <1>6. ~f.BlkModified =>
          \A b \in Blocks : b < f.GcCopyIndex => Moved(f, b) \/ f.Cache[b] = NoAddr
    BY <1>1 DEF CacheInv
  <1>7. \A x \in Blocks : again => ~(x < from)
    BY SlotFacts
  <1>8. (~again /\ f.BlkModified) => left # {}
    OBVIOUS
  <1>9. left = {} => \A x \in Blocks : Moved(f, x) \/ f.Cache[x] = NoAddr
    <2> SUFFICES ASSUME left = {}, NEW x \in Blocks PROVE Moved(f, x) \/ f.Cache[x] = NoAddr
      OBVIOUS
    <2>1. x < from \/ f.Cache[x] = NoAddr \/ Moved(f, x)
      BY <1>5
    <2>2. CASE again
      BY <1>7, <2>1, <2>2
    <2>3. CASE ~again
      BY <1>6, <1>8, <2>1, <2>3
    <2> QED
      BY <2>2, <2>3
  <1>10. IF left # {} THEN GcCopyWrite(h, Min(left))
         ELSE GcStatePage([h EXCEPT !.GcState = "V_SP", !.IntrJobFailCount = 0,
                                    !.GcCopyIndex = NBlocks,
                                    !.GcDest = IF IsWLBeginning(@) THEN @ ELSE NextWL(@)])
    BY DEF GcStartCopy
  <1>11. CASE left # {}
    <2> DEFINE b == Min(left)
    <2>1. left \in SUBSET Nat
      BY SlotFacts DEF ToCopy
    <2>2. \E n \in left : \A m \in left : n <= m
      BY <1>11, <2>1, LeastElement
    <2>3. b \in left /\ \A m \in left : b <= m
      BY <2>2 DEF Min
    <2>4. b \in Blocks /\ f.Cache[b] # NoAddr /\ ~f.Copied[b]
      BY <2>3 DEF ToCopy
    <2>5. GcCopyWrite(h, b)
      BY <1>10, <1>11
    <2> HIDE DEF b
    <2>6. ASSUME ~h.BlkModified, NEW x \in Blocks, x < b
          PROVE  Moved(f, x) \/ f.Cache[x] = NoAddr
      <3>1. x \notin left
        BY <2>1, <2>3, <2>6
      <3>2. x < from \/ f.Cache[x] = NoAddr \/ Moved(f, x)
        BY <1>5, <3>1
      <3>3. CASE again
        BY <1>7, <3>2, <3>3
      <3>4. CASE ~again
        BY <1>3, <1>6, <2>6, <3>2, <3>4
      <3> QED
        BY <3>3, <3>4
    <2> HIDE DEF h, left
    <2>7. Inv(flash, fee', job') /\ ~Landed(fee', job')
      BY <1>3, <2>4, <2>5, <2>6, GcCopyWriteStep
    <2> QED
      BY <2>7
  <1>12. CASE left = {}
    <2>1. \A x \in Blocks : Moved(f, x) \/ f.Cache[x] = NoAddr
      BY <1>9, <1>12
    <2> HIDE DEF h, left, again
    <2> DEFINE g == [h EXCEPT !.GcState = "V_SP", !.IntrJobFailCount = 0,
                              !.GcCopyIndex = NBlocks,
                              !.GcDest = IF IsWLBeginning(@) THEN @ ELSE NextWL(@)]
    <2>2. h.GcDest = f.GcDest /\ f.GcDest \in Nat /\ NBlocks \in Nat
      BY <1>1, <1>3, FeeConstants DEF IsFee, Fields
    <2>3. /\ g.GcState = "V_SP" /\ DOMAIN g = Fields /\ g.IntrJobFailCount = 0
          /\ g.GcCopyIndex = NBlocks
          /\ g.GcDest = IF IsWLBeginning(f.GcDest) THEN f.GcDest ELSE NextWL(f.GcDest)
          /\ g.BlkModified = h.BlkModified
          /\ \A x \in Fields \ {"GcState", "IntrJobFailCount", "GcCopyIndex", "GcDest",
                                "BlkModified"} : g[x] = f[x]
      BY <1>3, <2>2 DEF Fields
    <2>4. GcStatePage(g)
      BY <1>10, <1>12
    <2> HIDE DEF g
    <2>5. IsFee(g)
      <3>1. /\ f.CacheUpdated \in BOOLEAN /\ f.GcInit \in BOOLEAN
        BY <1>1 DEF IsFee
      <3>2. g.CacheUpdated = f.CacheUpdated /\ g.GcInit = f.GcInit
        BY <2>3 DEF Fields
      <3>3. /\ g.CacheUpdated \in BOOLEAN /\ g.GcInit \in BOOLEAN /\ g.BlkModified \in BOOLEAN
        BY <1>3, <2>3, <3>1, <3>2, Zenon
      <3>4. g.GcDest \in Nat
        BY <2>2, <2>3, WordlineFacts
      <3> QED
        BY <1>1, <2>2, <2>3, <3>3, <3>4 DEF IsFee, Fields
    <2> QED
      BY <2>1, <2>3, <2>4, <2>5, ValidPageStep
  <1> QED
    BY <1>11, <1>12

\* A collection without a job goes on with the one its state asks for.
LEMMA GcStartStep ==
  ASSUME NEW f, Inv(flash, f, NoJob), f.MainJob = "GC", f.IntrJob = "IDLE", job = NoJob,
         GcStart(f)
  PROVE  Inv(flash, fee', job') /\ ~Landed(fee', job')
  <1>1. /\ IsFee(f) /\ GcInv(flash, f, NoJob) /\ f.InitGCState = "COMPLETE" /\ f.CacheUpdated
        /\ CountsKnown(flash, f) /\ CacheInv(flash, f, NoJob)
        /\ Ack(flash, f, NoJob) = flash[Cur(f)]
        /\ f.Req # NoReq => f.Req.stage \in {"request", "toRead", "stuck"}
        /\ Stage(f, "stuck") => f.GcState = "FAIL"
        /\ Frontier(flash[Cur(f)], f.NextFreePage) /\ Oth(f) \in Sectors
        /\ Oth(f) = Other(f.CurrSector)
    BY GcFacts
  <1>2. f.GcState \notin {"COPY_WRITE", "V_SP", "V_M", "E_SP", "E_M"}
    BY <1>1 DEF GcInv, Busy, GcRunning, Programs, Marks, IsJob, Over
  <1>3. f.GcState \in {"IDLE", "REQUESTED", "START_COPY", "ERASE", "FAIL"}
    BY <1>1, <1>2 DEF IsFee
  <1>4. CASE f.GcState = "REQUESTED"
    <2> DEFINE g == GcRequested(f)
    <2>1. Inv(flash, g, NoJob) /\ g.MainJob = "GC" /\ g.GcState = "START_COPY"
      BY <1>4, GcRequestedStep
    <2>2. GcStartCopy(g)
      BY <1>4 DEF GcStart
    <2> HIDE DEF g
    <2> QED
      BY <2>1, <2>2, GcStartCopyStep
  <1>5. CASE f.GcState = "START_COPY"
    BY <1>5, GcStartCopyStep DEF GcStart
  <1>6. CASE f.GcState = "ERASE"
    <2> DEFINE j == EraseSector(Oth(f))
    <2>1. fee' = f /\ job' = j
      BY <1>1, <1>6 DEF GcStart, Start
    <2>2. Erases(j, Oth(f)) /\ IntrRuns(j)
      BY <1>1, BuiltJobs DEF Erases, IsJob, IntrRuns
    <2> HIDE DEF j
    <2>3. GcInv(flash, f, j)
      BY <1>1, <1>6, <2>2 DEF GcInv, Busy, GcRunning
    <2>4. Ack(flash, f, j) = flash[Cur(f)]
      BY <1>1 DEF Ack, Landed, Stage
    <2>5. CacheInv(flash, f, j)
      BY <1>1, <2>4, CacheFrame
    <2>6. Inv(flash, f, j) /\ ~Landed(f, j)
      BY <1>1, <2>2, <2>3, <2>5, GcStep
    <2> QED
      BY <2>1, <2>6
  <1>7. CASE f.GcState \in {"IDLE", "FAIL"}
    <2>1. fee' = f /\ job' = NoJob
      BY <1>7 DEF GcStart, Continue
    <2>2. ~Landed(f, NoJob)
      BY <1>1 DEF Landed, Stage
    <2> QED
      BY <2>1, <2>2
  <1> QED
    BY <1>3, <1>4, <1>5, <1>6, <1>7

\* What the end of a job of the collection finds.
LEMMA GcPassed ==
  ASSUME NEW f, Inv(flash, f, NoJob), f.MainJob = "GC", f.IntrJob # "IDLE"
  PROVE  /\ f.IntrJob = "PASS" /\ f.GcState \in Busy /\ GcOver(flash, f)
         /\ [f EXCEPT !.IntrJob = "IDLE"].IntrJob = "IDLE"
         /\ IsFee([f EXCEPT !.IntrJob = "IDLE"])
         /\ \A x \in Fields \ {"IntrJob"} : [f EXCEPT !.IntrJob = "IDLE"][x] = f[x]
  <1> DEFINE h == [f EXCEPT !.IntrJob = "IDLE"]
  <1>1. IsFee(f) /\ GcInv(flash, f, NoJob) /\ f.InitGCState = "COMPLETE"
    BY GcFacts
  <1>2. f.IntrJob = "PASS"
    BY <1>1 DEF IsFee
  <1>3. f.GcState \in Busy /\ GcOver(flash, f)
    BY <1>1, <1>2 DEF GcInv, Quiet
  <1>4. /\ h.IntrJob = "IDLE" /\ DOMAIN h = Fields
        /\ \A x \in Fields \ {"IntrJob"} : h[x] = f[x]
    BY <1>1 DEF IsFee, Fields
  <1> HIDE DEF h
  <1>5. IsFee(h)
    <2>1. h.CacheUpdated = f.CacheUpdated /\ h.GcInit = f.GcInit /\ h.BlkModified = f.BlkModified
      BY <1>4 DEF Fields
    <2>2. /\ h.CacheUpdated \in BOOLEAN /\ h.GcInit \in BOOLEAN /\ h.BlkModified \in BOOLEAN
      BY <1>1, <2>1, Zenon DEF IsFee
    <2> QED
      BY <1>1, <1>4, <2>2 DEF IsFee, Fields
  <1> QED
    BY <1>2, <1>3, <1>4, <1>5 DEF h

\* How the collection goes on from f when the job has passed: the result turns h, which is
\* f without it, into g.
GoesTo(f, h, g) ==
  /\ f.GcState \in Busy /\ DOMAIN h = Fields /\ \A x \in Fields \ {"IntrJob"} : h[x] = f[x]
  /\ f.GcState = "COPY_WRITE" => g = CopyDone(h)
  /\ f.GcState = "V_SP" => g = [h EXCEPT !.GcState = "V_M"]
  /\ f.GcState = "V_M" => g = NewSectorValid(h)
  /\ f.GcState = "ERASE" => g = EraseDone(h)
  /\ f.GcState = "E_SP" => g = [h EXCEPT !.GcState = "E_M"]
  /\ f.GcState = "E_M" => g = OldSectorErased(h)
  /\ \/ <<f.GcState, g.GcState>> \in GoesOn /\ GcStart(g)
     \/ <<f.GcState, g.GcState>> \notin GoesOn /\ Continue(g)

LEMMA GcResults ==
  ASSUME NEW f, Inv(flash, f, NoJob), GarbageCollection(f), f.IntrJob # "IDLE"
  PROVE  LET h == [f EXCEPT !.IntrJob = "IDLE"]
         IN GoesTo(f, h, GcResult(h, TRUE))
  <1> DEFINE h == [f EXCEPT !.IntrJob = "IDLE"]
             g == GcResult(h, TRUE)
  <1>1. f.MainJob = "GC"
    BY DEF GarbageCollection
  <1>2. /\ f.IntrJob = "PASS" /\ f.GcState \in Busy /\ IsFee(h)
        /\ \A x \in Fields \ {"IntrJob"} : h[x] = f[x]
    BY <1>1, GcPassed
  <1>3. \/ <<f.GcState, g.GcState>> \in GoesOn /\ GcStart(g)
        \/ <<f.GcState, g.GcState>> \notin GoesOn /\ Continue(g)
    BY <1>2 DEF GarbageCollection
  <1> HIDE DEF h
  <1>4. DOMAIN h = Fields /\ h.GcState = f.GcState
    BY <1>2 DEF IsFee, Fields
  <1> QED
    BY <1>2, <1>3, <1>4 DEF GoesTo, GcResult, h

\* A copy is in place: the cache follows it to the other sector.
LEMMA CopyDoneStep ==
  ASSUME NEW f, Inv(flash, f, NoJob), f.MainJob = "GC", f.GcState = "COPY_WRITE",
         f.IntrJob # "IDLE"
  PROVE  LET g == CopyDone([f EXCEPT !.IntrJob = "IDLE"])
         IN Inv(flash, g, NoJob) /\ ~Landed(g, NoJob) /\ g.GcState = "START_COPY"
  <1> DEFINE h == [f EXCEPT !.IntrJob = "IDLE"]
             g == CopyDone(h)
             o == Oth(f)
             b == f.GcCopyIndex
             d == f.GcDest
             c == GcCell(flash, f)
  <1>1. /\ IsFee(f) /\ CountsKnown(flash, f) /\ GcInv(flash, f, NoJob)
        /\ CacheInv(flash, f, NoJob) /\ f.CacheUpdated /\ f.InitGCState = "COMPLETE"
        /\ f.Req # NoReq => f.Req.stage \in {"request", "toRead", "stuck"}
        /\ Stage(f, "stuck") => f.GcState = "FAIL"
        /\ Frontier(flash[Cur(f)], f.NextFreePage) /\ o \in Sectors /\ o = Other(f.CurrSector)
        /\ \A x \in Blocks : CacheOk(flash, f, flash[Cur(f)], x)
    BY GcFacts
  <1>2. GcOver(flash, f) /\ h.IntrJob = "IDLE" /\ IsFee(h)
        /\ \A x \in Fields \ {"IntrJob"} : h[x] = f[x]
    BY GcPassed
  <1>3. /\ b \in Blocks /\ f.GcBlock = b /\ d \in Slots /\ Governs(flash, Cur(f))
        /\ flash[o][d] = c /\ Filling(flash[o], d + 1)
    BY <1>1, <1>2 DEF GcInv, GcOver
  <1>4. c.kind = "copy" /\ c.blk = b /\ Latest(flash[Cur(f)], b) = c.val /\ f.Cache[b] # NoAddr
    BY <1>1, GcCopyCell DEF GcInv
  <1> HIDE DEF h, c
  <1>5. /\ h.GcBlock = b /\ h.GcDest = d /\ h.GcCopyIndex = b /\ h.CurrSector = f.CurrSector
        /\ h.Cache = f.Cache /\ h.Copied = f.Copied /\ h.IntrJobFailCount = 0
        /\ DOMAIN h = Fields /\ h.Cache \in [Blocks -> Addresses \cup {NoAddr}]
        /\ h.Copied \in [Blocks -> BOOLEAN] /\ b \in Nat /\ d \in Nat
    <2>1. /\ h.GcBlock = f.GcBlock /\ h.GcDest = f.GcDest /\ h.GcCopyIndex = f.GcCopyIndex
          /\ h.CurrSector = f.CurrSector /\ h.Cache = f.Cache /\ h.Copied = f.Copied
      BY <1>2 DEF Fields
    <2>2. DOMAIN h = Fields /\ h.IntrJobFailCount = 0
      BY <1>2 DEF IsFee
    <2>3. h.Cache \in [Blocks -> Addresses \cup {NoAddr}] /\ h.Copied \in [Blocks -> BOOLEAN]
      BY <1>2 DEF IsFee
    <2>4. b \in Nat /\ d \in Nat
      BY <1>3, SlotFacts
    <2> QED
      BY <1>3, <2>1, <2>2, <2>3, <2>4
  <1>6. /\ g.GcState = "START_COPY" /\ g.IntrJobFailCount = 0 /\ DOMAIN g = Fields
        /\ g.Copied = [f.Copied EXCEPT ![b] = TRUE]
        /\ g.Cache = [f.Cache EXCEPT ![b] = At(o, d)]
        /\ g.GcCopyIndex = b + 1 /\ g.GcDest = d + 1
        /\ \A x \in Fields \ {"GcState", "IntrJobFailCount", "Copied", "GcSrcAddr", "Cache",
                              "GcCopyIndex", "GcDest", "GcPrevBlock"} : g[x] = h[x]
    BY <1>1, <1>5 DEF CopyDone, Fields
  <1> HIDE DEF g
  <1>7. At(o, d) \in Addresses /\ At(o, d) # NoAddr /\ At(o, d).sector = o /\ At(o, d).slot = d
    BY <1>1, <1>3, AddressFacts
  <1>8. g.Cache \in [Blocks -> Addresses \cup {NoAddr}] /\ g.Copied \in [Blocks -> BOOLEAN]
    <2>1. ASSUME NEW A, NEW B, NEW F \in [A -> B], NEW x, NEW e \in B
          PROVE  [F EXCEPT ![x] = e] \in [A -> B]
      OBVIOUS
    <2>2. f.Cache \in [Blocks -> Addresses \cup {NoAddr}] /\ f.Copied \in [Blocks -> BOOLEAN]
      BY <1>1 DEF IsFee
    <2>3. TRUE \in BOOLEAN /\ At(o, d) \in Addresses \cup {NoAddr}
      BY <1>7
    <2>4. [f.Cache EXCEPT ![b] = At(o, d)] \in [Blocks -> Addresses \cup {NoAddr}]
      BY <2>1, <2>2, <2>3, Zenon
    <2>5. [f.Copied EXCEPT ![b] = TRUE] \in [Blocks -> BOOLEAN]
      BY <2>1, <2>2, <2>3, Zenon
    <2> QED
      BY <1>6, <2>4, <2>5
  <1>9. IsFee(g)
    <2>1. g.CacheUpdated = h.CacheUpdated /\ g.GcInit = h.GcInit /\ g.BlkModified = h.BlkModified
      BY <1>6 DEF Fields
    <2>2. /\ g.CacheUpdated \in BOOLEAN /\ g.GcInit \in BOOLEAN /\ g.BlkModified \in BOOLEAN
      BY <1>2, <2>1, Zenon DEF IsFee
    <2>3. b + 1 \in Nat /\ d + 1 \in Nat
      BY <1>5
    <2> QED
      BY <1>2, <1>6, <1>8, <2>2, <2>3 DEF IsFee, Fields
  <1>10. /\ g.MainJob = "GC" /\ g.CacheUpdated /\ g.InitGCState = "COMPLETE"
         /\ g.UserJob = f.UserJob /\ g.Req = f.Req /\ g.NextFreePage = f.NextFreePage
         /\ g.CurrSector = f.CurrSector /\ Cur(g) = Cur(f) /\ Oth(g) = o
         /\ g.IntrJob = "IDLE" /\ g.StateCount = f.StateCount /\ g.BlkModified = f.BlkModified
    BY <1>1, <1>2, <1>6 DEF Fields, Cur, Oth
  <1>11. ~Stage(f, "stuck") /\ ~Stage(g, "stuck")
    BY <1>1, <1>10 DEF Stage
  <1>12. Quiet(g, NoJob)
    BY <1>10 DEF Quiet, IntrRuns
  <1>13. GcInv(flash, g, NoJob)
    BY <1>3, <1>6, <1>10, <1>12 DEF GcInv, Busy
  <1>14. CountsKnown(flash, g)
    BY <1>1, <1>10 DEF CountsKnown
  <1>15. \A x \in Blocks : /\ x # b => g.Cache[x] = f.Cache[x] /\ g.Copied[x] = f.Copied[x]
                           /\ x = b => g.Cache[x] = At(o, d) /\ g.Copied[x]
    BY <1>1, <1>6 DEF IsFee
  <1>16. CacheOk(flash, g, flash[Cur(f)], b)
    <2>1. Moved(g, b)
      BY <1>3, <1>7, <1>10, <1>15 DEF Moved
    <2>2. LatestIs(flash[o], b, d)
      <3>1. d \in CopiesOf(flash[o], b)
        BY <1>3, <1>4 DEF CopiesOf
      <3>2. ASSUME NEW p \in CopiesOf(flash[o], b) PROVE p <= d
        <4>1. p \in Slots /\ flash[o][p].kind = "copy"
          BY DEF CopiesOf
        <4>2. flash[o][p] # Blank
          BY <4>1, BuiltCells
        <4>3. ~(p >= d + 1)
          BY <1>3, <4>1, <4>2 DEF Filling, Frontier, BlankFrom
        <4> QED
          BY <1>5, <4>1, <4>3, SlotFacts
      <3> QED
        BY <3>1, <3>2 DEF LatestIs
    <2>3. CopiesOf(flash[Cur(f)], b) # {}
      BY <1>1, <1>3, <1>4 DEF CacheOk
    <2>4. /\ g.Cache[b] = At(o, d) /\ g.Cache[b] # NoAddr /\ g.Cache[b].slot = d
          /\ g.Copied[b] /\ g.GcState = "START_COPY"
      BY <1>3, <1>6, <1>7, <1>15
    <2>5. Latest(flash[Cur(f)], b) = flash[o][d].val
      BY <1>3, <1>4
    <2> QED
      BY <1>10, <2>1, <2>2, <2>3, <2>4, <2>5 DEF CacheOk, Copying
  <1>17. ASSUME NEW x \in Blocks, x # b PROVE CacheOk(flash, g, flash[Cur(f)], x)
    <2>1. Moved(g, x) <=> Moved(f, x)
      BY <1>10, <1>15, <1>17 DEF Moved
    <2> QED
      BY <1>1, <1>6, <1>10, <1>15, <1>17, <2>1 DEF CacheOk, Copying
  <1>18. ~Landed(g, NoJob)
    BY <1>1, <1>10 DEF Landed, Stage
  <1>19. CacheInv(flash, g, NoJob)
    <2>1. Ack(flash, g, NoJob) = flash[Cur(f)]
      BY <1>10, <1>18 DEF Ack
    <2>2. ASSUME ~g.BlkModified, NEW x \in Blocks, x < b + 1
          PROVE  Moved(g, x) \/ g.Cache[x] = NoAddr
      <3>1. CASE x = b
        BY <1>7, <1>10, <1>15, <3>1 DEF Moved
      <3>2. CASE x # b
        <4>1. x < b
          BY <1>5, <2>2, <3>2, SlotFacts
        <4>2. Moved(f, x) \/ f.Cache[x] = NoAddr
          BY <1>1, <1>10, <2>2, <4>1 DEF CacheInv
        <4> QED
          BY <1>10, <1>15, <3>2, <4>2 DEF Moved
      <3> QED
        BY <3>1, <3>2
    <2> QED
      BY <1>6, <1>16, <1>17, <2>1, <2>2 DEF CacheInv
  <1>20. Inv(flash, g, NoJob)
    BY <1>1, <1>9, <1>10, <1>11, <1>13, <1>14, <1>19, GcStep
  <1> QED
    BY <1>6, <1>18, <1>20 DEF g, h

\* A state page is in place: its marker follows.
LEMMA GcMarkerStep ==
  ASSUME NEW f, Inv(flash, f, NoJob), f.MainJob = "GC", f.GcState \in {"V_SP", "E_SP"},
         f.IntrJob # "IDLE", NEW m,
         (f.GcState = "V_SP" /\ m = "V_M") \/ (f.GcState = "E_SP" /\ m = "E_M")
  PROVE  LET g == [[f EXCEPT !.IntrJob = "IDLE"] EXCEPT !.GcState = m]
             j == ProgramMarker(Other(g.CurrSector), g.GcDest)
         IN /\ Inv(flash, g, j) /\ ~Landed(g, j)
            /\ g.GcState = m
  <1> DEFINE h == [f EXCEPT !.IntrJob = "IDLE"]
             g == [h EXCEPT !.GcState = m]
             o == Oth(f)
             d == f.GcDest
             c == GcCell(flash, f)
             j == ProgramMarker(Other(g.CurrSector), g.GcDest)
  <1>1. /\ FlashOk(flash) /\ CountsKnown(flash, f) /\ GcInv(flash, f, NoJob) /\ f.CacheUpdated
        /\ f.InitGCState = "COMPLETE"
        /\ f.Req # NoReq => f.Req.stage \in {"request", "toRead", "stuck"}
        /\ Stage(f, "stuck") => f.GcState = "FAIL"
        /\ Frontier(flash[Cur(f)], f.NextFreePage) /\ o \in Sectors /\ o = Other(f.CurrSector)
        /\ \A x \in Blocks : CacheOk(flash, f, flash[Cur(f)], x)
    BY GcFacts
  <1>2. GcOver(flash, f) /\ h.IntrJob = "IDLE" /\ IsFee(h)
        /\ \A x \in Fields \ {"IntrJob"} : h[x] = f[x]
    BY GcPassed
  <1> HIDE DEF h
  <1>3. /\ g.GcState = m /\ DOMAIN g = Fields
        /\ \A x \in Fields \ {"GcState"} : g[x] = h[x]
    BY <1>2 DEF IsFee, Fields
  <1> HIDE DEF g, j
  <1>4. IsFee(g)
    <2>1. g.CacheUpdated = h.CacheUpdated /\ g.GcInit = h.GcInit /\ g.BlkModified = h.BlkModified
      BY <1>3 DEF Fields
    <2>2. /\ g.CacheUpdated \in BOOLEAN /\ g.GcInit \in BOOLEAN /\ g.BlkModified \in BOOLEAN
      BY <1>2, <2>1, Zenon DEF IsFee
    <2> QED
      BY <1>2, <1>3, <2>2 DEF IsFee, Fields
  <1>5. /\ g.MainJob = "GC" /\ g.CacheUpdated /\ g.InitGCState = "COMPLETE"
        /\ g.UserJob = f.UserJob /\ g.Req = f.Req /\ g.NextFreePage = f.NextFreePage
        /\ g.CurrSector = f.CurrSector /\ Cur(g) = Cur(f) /\ Oth(g) = o /\ g.Cache = f.Cache
        /\ g.IntrJob = "IDLE" /\ g.StateCount = f.StateCount /\ g.GcDest = d
        /\ g.Copied = f.Copied
    BY <1>1, <1>2, <1>3 DEF Fields, Cur, Oth
  <1>6. /\ flash[o][d] = c /\ Governs(flash, Cur(f)) /\ d \in Slots /\ c \in Cells
    <2>1. flash[o][d] = c /\ Governs(flash, Cur(f))
      BY <1>1, <1>2 DEF GcInv, GcOver
    <2>2. d \in Slots
      BY <1>1, SlotFacts DEF GcInv
    <2> QED
      BY <1>1, <2>1, <2>2 DEF FlashOk
  <1>7. GcCell(flash, g) = c
    BY <1>3, <1>5 DEF GcCell, c
  <1>8. Marks(flash, j, o, d) /\ IntrRuns(j)
    <2>1. [c EXCEPT !.mark = "ok"] \in Cells
      <3>1. c.kind = "state"
        BY DEF GcCell, c, StatePage
      <3>2. c.st \in {"VALID", "ERASED"} /\ c.cnt \in Nat \ {0}
            /\ [c EXCEPT !.mark = "ok"] = StatePage(c.st, c.cnt, "ok")
        BY <1>6, <3>1, CellFacts
      <3> QED
        BY <3>2, BuiltCells
    <2> HIDE DEF c
    <2>2. Marks(flash, ProgramMarker(o, d), o, d)
      BY <1>1, <1>6, <2>1, BuiltJobs
    <2> QED
      BY <1>1, <1>5, <2>2 DEF j, Marks, IsJob, IntrRuns
  <1> HIDE DEF c
  <1>9. GcRunning(flash, g, j)
    BY <1>3, <1>5, <1>6, <1>7, <1>8 DEF GcRunning
  <1>10. GcInv(flash, g, j)
    BY <1>1, <1>3, <1>5, <1>6, <1>9 DEF GcInv, Busy
  <1>11. ~Stage(f, "stuck") /\ ~Stage(g, "stuck")
    BY <1>1, <1>5 DEF Stage
  <1>12. ~Landed(g, j)
    BY <1>1, <1>5 DEF Landed, Stage
  <1>13. Ack(flash, g, j) = flash[Cur(f)]
    BY <1>5, <1>12 DEF Ack
  <1>14. CacheInv(flash, g, j)
    <2>1. f.GcState = "V_SP" => \A x \in Blocks : Moved(f, x) \/ f.Cache[x] = NoAddr
      BY <1>1 DEF CacheOk
    <2> QED
      BY <1>1, <1>3, <1>5, <1>13, <2>1, CacheNextState DEF Copying
  <1>15. CountsKnown(flash, g)
    BY <1>1, <1>5 DEF CountsKnown
  <1>16. Inv(flash, g, j)
    BY <1>1, <1>4, <1>5, <1>8, <1>10, <1>11, <1>14, <1>15, GcStep
  <1> QED
    BY <1>3, <1>12, <1>16 DEF g, h, j

\* The old sector is blank: its ERASED page follows.
LEMMA GcEraseDoneStep ==
  ASSUME NEW f, Inv(flash, f, NoJob), f.MainJob = "GC", f.GcState = "ERASE",
         f.IntrJob # "IDLE", job = NoJob,
         GcStatePage(EraseDone([f EXCEPT !.IntrJob = "IDLE"]))
  PROVE  Inv(flash, fee', job') /\ ~Landed(fee', job')
  <1> DEFINE p == [f EXCEPT !.IntrJob = "IDLE"]
             h == EraseDone(p)
             o == Oth(f)
             g == fee'
             j == job'
  <1>1. /\ FlashOk(flash) /\ CountsKnown(flash, f) /\ GcInv(flash, f, NoJob) /\ f.CacheUpdated
        /\ f.InitGCState = "COMPLETE"
        /\ f.Req # NoReq => f.Req.stage \in {"request", "toRead", "stuck"}
        /\ Stage(f, "stuck") => f.GcState = "FAIL"
        /\ Frontier(flash[Cur(f)], f.NextFreePage) /\ o = Other(f.CurrSector)
        /\ \A x \in Blocks : CacheOk(flash, f, flash[Cur(f)], x)
    BY GcFacts
  <1>2. GcOver(flash, f) /\ p.IntrJob = "IDLE" /\ IsFee(p)
        /\ \A x \in Fields \ {"IntrJob"} : p[x] = f[x]
    BY GcPassed
  <1>3. BlankFrom(flash[o], 0) /\ Governs(flash, Cur(f)) /\ f.GcDest = 0 /\ f.StateCount \in Nat
    BY <1>1, <1>2 DEF GcInv, GcOver, IsFee
  <1>4. \A x \in Blocks : ~Moved(f, x)
    BY <1>1 DEF CacheOk, Copying
  <1> HIDE DEF p
  <1>5. /\ h.GcState = "E_SP" /\ h.IntrJobFailCount = 0 /\ DOMAIN h = Fields
        /\ h.StateCount = IF p.GcInit THEN p.StateCount + 1 ELSE p.StateCount
        /\ \A x \in Fields \ {"GcState", "IntrJobFailCount", "StateCount"} : h[x] = p[x]
    BY <1>2 DEF EraseDone, IsFee, Fields
  <1>6. GcStatePage(h)
    BY DEF p
  <1> HIDE DEF h
  <1>7. h.StateCount \in Nat /\ h.StateCount >= f.StateCount
    <2>1. p.StateCount = f.StateCount
      BY <1>2 DEF Fields
    <2> QED
      BY <1>3, <1>5, <2>1
  <1>8. IsFee(h)
    <2>1. h.CacheUpdated = p.CacheUpdated /\ h.GcInit = p.GcInit /\ h.BlkModified = p.BlkModified
      BY <1>5 DEF Fields
    <2>2. /\ h.CacheUpdated \in BOOLEAN /\ h.GcInit \in BOOLEAN /\ h.BlkModified \in BOOLEAN
      BY <1>2, <2>1, Zenon DEF IsFee
    <2> QED
      BY <1>2, <1>5, <1>7, <2>2 DEF IsFee, Fields
  <1>9. /\ h.MainJob = "GC" /\ h.CacheUpdated /\ h.InitGCState = "COMPLETE"
        /\ h.UserJob = f.UserJob /\ h.Req = f.Req /\ h.NextFreePage = f.NextFreePage
        /\ h.CurrSector = f.CurrSector /\ Other(h.CurrSector) = o /\ h.Cache = f.Cache
        /\ h.IntrJob = "IDLE" /\ h.GcDest = 0 /\ h.Copied = f.Copied
    BY <1>1, <1>2, <1>3, <1>5 DEF Fields
  <1>10. \A x \in Fields \ {"GcState", "IntrJobFailCount", "StateCount", "IntrJob"} : h[x] = f[x]
    BY <1>2, <1>5
  <1>11. CASE /\ IsFee(fee') /\ fee'.GcState = "FAIL" /\ job' = job
              /\ \A x \in Fields \ {"GcState"} : fee'[x] = h[x]
    <2> HIDE DEF g
    <2>1. /\ IsFee(g) /\ g.GcState = "FAIL" /\ g.IntrJob = "IDLE" /\ j = NoJob
          /\ g.StateCount >= f.StateCount
      BY <1>7, <1>9, <1>11 DEF g, Fields
    <2>2. \A x \in Fields \ {"GcState", "IntrJob", "IntrJobFailCount", "GcDest", "GcCopyIndex",
                            "BlkModified", "StateCount", "GcSrcAddr"} : g[x] = f[x]
      BY <1>10, <1>11 DEF g
    <2>3. Inv(flash, g, NoJob) /\ ~Landed(g, NoJob)
      BY <1>3, <1>4, <2>1, <2>2, GcFailStep
    <2> QED
      BY <2>1, <2>3 DEF g
  <1>12. CASE /\ IsFee(fee') /\ h.GcDest \in Slots
              /\ fee'.StateCount = h.StateCount + 1
              /\ \A x \in Fields \ {"StateCount"} : fee'[x] = h[x]
              /\ Programs(job', "intr", Other(h.CurrSector), h.GcDest,
                          StatePage("ERASED", fee'.StateCount, "none"))
    <2> HIDE DEF g, j
    <2>1. /\ IsFee(g) /\ g.StateCount = h.StateCount + 1
          /\ \A x \in Fields \ {"StateCount"} : g[x] = h[x]
          /\ Programs(j, "intr", o, 0, StatePage("ERASED", g.StateCount, "none"))
      BY <1>9, <1>12 DEF g, j
    <2>2. /\ g.MainJob = "GC" /\ g.CacheUpdated /\ g.InitGCState = "COMPLETE"
          /\ g.UserJob = f.UserJob /\ g.Req = f.Req /\ g.NextFreePage = f.NextFreePage
          /\ g.CurrSector = f.CurrSector /\ Cur(g) = Cur(f) /\ Oth(g) = o /\ g.Cache = f.Cache
          /\ g.IntrJob = "IDLE" /\ g.GcDest = 0 /\ g.Copied = f.Copied /\ g.GcState = "E_SP"
      BY <1>1, <1>5, <1>9, <2>1 DEF Fields, Cur, Oth
    <2>3. IntrRuns(j)
      BY <2>1 DEF Programs, IsJob, IntrRuns
    <2>4. ~Stage(f, "stuck") /\ ~Stage(g, "stuck")
      BY <1>1, <2>2 DEF Stage
    <2>5. CountsKnown(flash, g)
      <3>1. g.StateCount \in Nat /\ g.StateCount >= f.StateCount
        BY <1>3, <1>7, <2>1
      <3> QED
        BY <1>1, <1>3, <3>1, CountsGrow
    <2>6. GcRunning(flash, g, j)
      BY <1>3, <2>1, <2>2 DEF GcRunning, GcCell
    <2>7. BlankFrom(flash[o], 1)
      BY <1>3, SlotFacts DEF BlankFrom
    <2>8. GcInv(flash, g, j)
      BY <1>3, <2>2, <2>6, <2>7 DEF GcInv, Busy
    <2>9. ~Landed(g, j)
      BY <1>1, <2>2 DEF Landed, Stage
    <2>10. Ack(flash, g, j) = flash[Cur(f)]
      BY <2>2, <2>9 DEF Ack
    <2>11. CacheInv(flash, g, j)
      BY <1>1, <2>2, <2>10, CacheNextState DEF Copying
    <2>12. Inv(flash, g, j)
      BY <1>1, <2>1, <2>2, <2>3, <2>4, <2>5, <2>8, <2>11, GcStep
    <2> QED
      BY <2>9, <2>12 DEF g, j
  <1> QED
    BY <1>5, <1>6, <1>8, <1>11, <1>12, PageJob

\* The sectors have changed their roles.
LEMMA SectorHandedOver ==
  ASSUME NEW f, Inv(flash, f, NoJob), f.MainJob = "GC", f.GcState = "V_M", f.IntrJob # "IDLE",
         NEW g, IsFee(g), g.IntrJob = "IDLE", g.CurrSector = Oth(f),
         g.GcState = "FAIL" \/ (g.GcState = "ERASE" /\ g.GcDest = 0),
         g.MainJob = "GC", g.CacheUpdated, g.InitGCState = "COMPLETE", g.UserJob = f.UserJob,
         g.Cache = f.Cache, g.StateCount = f.StateCount,
         g.Req # NoReq => g.Req.stage \in {"request", "toRead", "stuck"},
         Stage(g, "stuck") => g.GcState = "FAIL",
         Frontier(flash[Oth(f)], g.NextFreePage)
  PROVE  Inv(flash, g, NoJob) /\ ~Landed(g, NoJob)
  <1> DEFINE o == Oth(f)
  <1>1. /\ CountsKnown(flash, f) /\ GcInv(flash, f, NoJob) /\ f.InitGCState = "COMPLETE"
        /\ Cur(f) \in Sectors /\ o # Cur(f)
        /\ \A x \in Blocks : CacheOk(flash, f, flash[Cur(f)], x)
    BY GcFacts
  <1>2. f.IntrJob = "PASS"
    BY GcPassed
  <1>3. Governs(flash, o)
    BY <1>1, <1>2 DEF GcInv
  <1>4. Cur(g) = o /\ Oth(g) = Cur(f)
    BY <1>1, SlotFacts DEF Cur, Oth
  <1>5. Quiet(g, NoJob) /\ ~IntrRuns(NoJob)
    BY DEF Quiet, IntrRuns
  <1>6. GcInv(flash, g, NoJob)
    BY <1>3, <1>4, <1>5 DEF GcInv, Busy, GcRunning
  <1>7. CountsKnown(flash, g)
    BY <1>1 DEF CountsKnown
  <1>8. ~Landed(g, NoJob)
    BY DEF Landed, Stage
  <1>9. ASSUME NEW x \in Blocks PROVE CacheOk(flash, g, flash[o], x)
    <2>1. /\ CacheOk(flash, f, flash[Cur(f)], x)
          /\ f.GcState \in Copying /\ g.GcState \notin Copying
      BY <1>1 DEF Copying
    <2>2. Moved(f, x) \/ f.Cache[x] = NoAddr
      BY <2>1 DEF CacheOk
    <2>3. ~Moved(g, x)
      BY <1>1, <1>4, <2>2 DEF Moved
    <2>4. f.Cache[x] = NoAddr => CopiesOf(flash[o], x) = {}
      BY <2>1 DEF CacheOk
    <2>5. f.Cache[x] # NoAddr => LatestIs(flash[o], x, f.Cache[x].slot)
      BY <2>1, <2>2 DEF CacheOk
    <2>6. f.Cache[x] # NoAddr => CopiesOf(flash[o], x) # {}
      BY <2>5 DEF LatestIs
    <2>7. g.GcState \notin {"V_SP", "V_M"}
      OBVIOUS
    <2> QED
      BY <2>1, <2>3, <2>4, <2>5, <2>6, <2>7 DEF CacheOk
  <1>10. CacheInv(flash, g, NoJob)
    <2>1. Ack(flash, g, NoJob) = flash[o]
      BY <1>4, <1>8 DEF Ack
    <2> QED
      BY <1>9, <2>1 DEF CacheInv
  <1>11. Inv(flash, g, NoJob)
    BY <1>4, <1>6, <1>7, <1>10, GcStep
  <1> QED
    BY <1>8, <1>11

\* The VALID page of the other sector has its marker.
LEMMA NewSectorStep ==
  ASSUME NEW f, Inv(flash, f, NoJob), f.MainJob = "GC", f.GcState = "V_M", f.IntrJob # "IDLE"
  PROVE  LET g == NewSectorValid([f EXCEPT !.IntrJob = "IDLE"])
         IN /\ Inv(flash, g, NoJob) /\ ~Landed(g, NoJob)
            /\ g.GcState \in {"FAIL", "ERASE"}
  <1> DEFINE h == [f EXCEPT !.IntrJob = "IDLE"]
             o == Oth(f)
             d == f.GcDest
             n == [h EXCEPT !.IntrJobFailCount = 0, !.CurrSector = o, !.StatePageAddr[o] = d,
                            !.NextFreeWL[o] = NextWL(d), !.NextFreePage = NextWL(d)]
             checked == IF Requested(n) THEN CurrBlkCheck(n) ELSE n
  <1>1. /\ IsFee(f) /\ GcInv(flash, f, NoJob) /\ f.CacheUpdated /\ f.InitGCState = "COMPLETE"
        /\ f.Req # NoReq => f.Req.stage \in {"request", "toRead", "stuck"}
        /\ Stage(f, "stuck") => f.GcState = "FAIL"
        /\ o \in Sectors /\ o = Other(f.CurrSector)
    BY GcFacts
  <1>2. h.IntrJob = "IDLE" /\ IsFee(h) /\ \A x \in Fields \ {"IntrJob"} : h[x] = f[x]
    BY GcPassed
  <1>3. d \in Nat /\ d >= PerWL /\ BlankFrom(flash[o], d + 1)
    BY <1>1 DEF GcInv, IsFee
  <1>4. NewSectorValid(h) =
          CASE ThresholdCrossed(Free(n.NextFreePage), PerWL) ->
                 [GcFail(n) EXCEPT !.Req = StuckReq]
            [] /\ ~ThresholdCrossed(Free(n.NextFreePage), PerWL)
               /\ Requested(n) /\ ~BlkWritable(n) -> [GcFail(checked) EXCEPT !.Req = NoReq]
            [] OTHER -> [checked EXCEPT !.GcDest = 0, !.GcState = "ERASE", !.GcInit = FALSE]
    <2>1. Other(h.CurrSector) = o /\ h.GcDest = d
      BY <1>1, <1>2 DEF Fields
    <2> HIDE DEF h, o, d
    <2> QED
      BY <2>1 DEF NewSectorValid
  <1> HIDE DEF h
  <1>5. /\ n.IntrJobFailCount = 0 /\ n.CurrSector = o /\ n.NextFreePage = NextWL(d)
        /\ n.StatePageAddr \in [Sectors -> Nat] /\ n.NextFreeWL \in [Sectors -> Nat]
        /\ DOMAIN n = Fields /\ NextWL(d) \in Nat
        /\ \A x \in Fields \ {"IntrJobFailCount", "CurrSector", "StatePageAddr", "NextFreeWL",
                              "NextFreePage"} : n[x] = h[x]
    <2>1. NextWL(d) \in Nat
      BY <1>3, WordlineFacts
    <2> QED
      BY <1>2, <1>3, <2>1 DEF IsFee, Fields
  <1>6. Frontier(flash[o], NextWL(d))
    <2>1. NextWL(d) \in Nat /\ d < NextWL(d) /\ IsWLBeginning(NextWL(d))
      BY <1>3, WordlineFacts
    <2>2. NextWL(d) >= PerWL /\ \A p \in Slots : p >= NextWL(d) => p >= d + 1
      BY <1>3, <2>1, SlotFacts
    <2> QED
      BY <1>3, <2>1, <2>2 DEF Frontier, BlankFrom
  <1> HIDE DEF n
  <1>7. /\ n.MainJob = "GC" /\ n.CacheUpdated /\ n.InitGCState = "COMPLETE"
        /\ n.UserJob = f.UserJob /\ n.Req = f.Req /\ n.Cache = f.Cache /\ n.IntrJob = "IDLE"
        /\ n.StateCount = f.StateCount /\ n.GcState = "V_M"
    BY <1>1, <1>2, <1>5 DEF Fields
  <1>8. IsFee(n)
    <2>1. n.CacheUpdated = h.CacheUpdated /\ n.GcInit = h.GcInit /\ n.BlkModified = h.BlkModified
      BY <1>5 DEF Fields
    <2>2. /\ n.CacheUpdated \in BOOLEAN /\ n.GcInit \in BOOLEAN /\ n.BlkModified \in BOOLEAN
      BY <1>2, <2>1, Zenon DEF IsFee
    <2>3. n.CurrSector \in Sectors /\ n.NextFreePage \in Nat
      BY <1>1, <1>5
    <2> QED
      BY <1>2, <1>5, <2>2, <2>3 DEF IsFee, Fields
  <1>9. /\ checked.NextFreePage \in Nat /\ Frontier(flash[o], checked.NextFreePage)
        /\ DOMAIN checked = Fields
        /\ \A x \in Fields \ {"NextFreePage"} : checked[x] = n[x]
    <2>1. CASE Requested(n)
      <3>1. CheckedPage(n) \in Nat /\ Frontier(flash[o], CheckedPage(n))
        BY <1>5, <1>6, CheckedFrontier
      <3>2. checked = CurrBlkCheck(n)
        BY <2>1
      <3>3. /\ CurrBlkCheck(n).NextFreePage = CheckedPage(n) /\ DOMAIN CurrBlkCheck(n) = Fields
            /\ \A x \in Fields \ {"NextFreePage"} : CurrBlkCheck(n)[x] = n[x]
        BY <1>5, <1>7 DEF CurrBlkCheck, Fields
      <3> QED
        BY <3>1, <3>2, <3>3
    <2>2. CASE ~Requested(n)
      BY <1>5, <1>6, <2>2
    <2> QED
      BY <2>1, <2>2
  <1> HIDE DEF checked
  <1>10. IsFee(checked)
    <2>1. /\ checked.CacheUpdated = n.CacheUpdated /\ checked.GcInit = n.GcInit
          /\ checked.BlkModified = n.BlkModified
      BY <1>9 DEF Fields
    <2>2. /\ checked.CacheUpdated \in BOOLEAN /\ checked.GcInit \in BOOLEAN
          /\ checked.BlkModified \in BOOLEAN
      BY <1>8, <2>1, Zenon DEF IsFee
    <2> QED
      BY <1>8, <1>9, <2>2 DEF IsFee, Fields
  <1>11. ASSUME NEW r \in Requests \cup {NoReq}, r # NoReq => r.stage \in {"request", "toRead", "stuck"},
                NEW p, p = n \/ p = checked
         PROVE  LET g == [GcFail(p) EXCEPT !.Req = r]
                IN Inv(flash, g, NoJob) /\ ~Landed(g, NoJob) /\ g.GcState = "FAIL"
    <2> DEFINE g == [GcFail(p) EXCEPT !.Req = r]
    <2>1. IsFee(p) /\ Frontier(flash[o], p.NextFreePage)
          /\ \A x \in Fields \ {"NextFreePage"} : p[x] = n[x]
      BY <1>5, <1>6, <1>8, <1>9, <1>10, <1>11
    <2>2. /\ g.GcState = "FAIL" /\ g.Req = r /\ DOMAIN g = Fields
          /\ \A x \in Fields \ {"GcState", "Req"} : g[x] = p[x]
      BY <2>1 DEF GcFail, IsFee, Fields
    <2> HIDE DEF g
    <2>3. IsFee(g)
      <3>1. g.CacheUpdated = p.CacheUpdated /\ g.GcInit = p.GcInit /\ g.BlkModified = p.BlkModified
        BY <2>2 DEF Fields
      <3>2. /\ g.CacheUpdated \in BOOLEAN /\ g.GcInit \in BOOLEAN /\ g.BlkModified \in BOOLEAN
        BY <2>1, <3>1, Zenon DEF IsFee
      <3> QED
        BY <1>11, <2>1, <2>2, <3>2 DEF IsFee, Fields
    <2>4. /\ g.MainJob = "GC" /\ g.CacheUpdated /\ g.InitGCState = "COMPLETE"
          /\ g.UserJob = f.UserJob /\ g.Cache = f.Cache /\ g.IntrJob = "IDLE"
          /\ g.StateCount = f.StateCount /\ g.CurrSector = o /\ g.NextFreePage = p.NextFreePage
      BY <1>5, <1>7, <2>1, <2>2 DEF Fields
    <2>5. Inv(flash, g, NoJob) /\ ~Landed(g, NoJob)
      BY <1>11, <2>1, <2>2, <2>3, <2>4, SectorHandedOver
    <2> QED
      BY <2>2, <2>5 DEF g
  <1>12. LET g == [checked EXCEPT !.GcDest = 0, !.GcState = "ERASE", !.GcInit = FALSE]
         IN Inv(flash, g, NoJob) /\ ~Landed(g, NoJob) /\ g.GcState = "ERASE"
    <2> DEFINE g == [checked EXCEPT !.GcDest = 0, !.GcState = "ERASE", !.GcInit = FALSE]
    <2>1. /\ g.GcState = "ERASE" /\ g.GcDest = 0 /\ g.GcInit = FALSE /\ DOMAIN g = Fields
          /\ \A x \in Fields \ {"GcState", "GcDest", "GcInit"} : g[x] = checked[x]
      BY <1>9 DEF Fields
    <2> HIDE DEF g
    <2>2. IsFee(g)
      <3>1. /\ checked.CacheUpdated \in BOOLEAN /\ checked.BlkModified \in BOOLEAN
        BY <1>10 DEF IsFee
      <3>2. g.CacheUpdated = checked.CacheUpdated /\ g.BlkModified = checked.BlkModified
        BY <2>1 DEF Fields
      <3>3. /\ g.CacheUpdated \in BOOLEAN /\ g.GcInit \in BOOLEAN /\ g.BlkModified \in BOOLEAN
        BY <2>1, <3>1, <3>2, Zenon
      <3> QED
        BY <1>10, <2>1, <3>3 DEF IsFee, Fields
    <2>3. /\ g.MainJob = "GC" /\ g.CacheUpdated /\ g.InitGCState = "COMPLETE"
          /\ g.UserJob = f.UserJob /\ g.Cache = f.Cache /\ g.IntrJob = "IDLE" /\ g.Req = f.Req
          /\ g.StateCount = f.StateCount /\ g.CurrSector = o
          /\ g.NextFreePage = checked.NextFreePage
      BY <1>5, <1>7, <1>9, <2>1 DEF Fields
    <2>4. ~Stage(g, "stuck")
      BY <1>1, <2>3 DEF Stage
    <2>5. Inv(flash, g, NoJob) /\ ~Landed(g, NoJob)
      BY <1>1, <1>9, <2>1, <2>2, <2>3, <2>4, SectorHandedOver
    <2> QED
      BY <2>1, <2>5 DEF g
  <1>13. StuckReq \in Requests /\ StuckReq.stage = "stuck"
    BY SlotFacts DEF StuckReq, Requests
  <1>14. CASE ThresholdCrossed(Free(n.NextFreePage), PerWL)
    <2>1. NewSectorValid(h) = [GcFail(n) EXCEPT !.Req = StuckReq]
      BY <1>4, <1>14
    <2> DEFINE g == [GcFail(n) EXCEPT !.Req = StuckReq]
    <2>2. Inv(flash, g, NoJob) /\ ~Landed(g, NoJob) /\ g.GcState = "FAIL"
      BY <1>11, <1>13
    <2> HIDE DEF g
    <2>3. NewSectorValid(h) = g
      BY <2>1 DEF g
    <2> QED
      BY <2>2, <2>3 DEF h
  <1>15. CASE /\ ~ThresholdCrossed(Free(n.NextFreePage), PerWL)
              /\ Requested(n) /\ ~BlkWritable(n)
    <2>1. NewSectorValid(h) = [GcFail(checked) EXCEPT !.Req = NoReq]
      BY <1>4, <1>15
    <2> DEFINE g == [GcFail(checked) EXCEPT !.Req = NoReq]
    <2>2. Inv(flash, g, NoJob) /\ ~Landed(g, NoJob) /\ g.GcState = "FAIL"
      BY <1>11
    <2> HIDE DEF g
    <2>3. NewSectorValid(h) = g
      BY <2>1 DEF g
    <2> QED
      BY <2>2, <2>3 DEF h
  <1>16. CASE /\ ~ThresholdCrossed(Free(n.NextFreePage), PerWL)
              /\ ~(Requested(n) /\ ~BlkWritable(n))
    <2>1. NewSectorValid(h) =
            [checked EXCEPT !.GcDest = 0, !.GcState = "ERASE", !.GcInit = FALSE]
      BY <1>4, <1>16
    <2> QED
      BY <1>12, <2>1 DEF h
  <1> QED
    BY <1>14, <1>15, <1>16

\* The ERASED page of the old sector has its marker: the collection ends, or
\* starts anew after one that a start-up resumed.
LEMMA OldSectorStep ==
  ASSUME NEW f, Inv(flash, f, NoJob), f.MainJob = "GC", f.GcState = "E_M", f.IntrJob # "IDLE"
  PROVE  LET g == OldSectorErased([f EXCEPT !.IntrJob = "IDLE"])
         IN /\ Inv(flash, g, NoJob) /\ ~Landed(g, NoJob)
            /\ g.GcState \in {"IDLE", "REQUESTED"}
  <1> DEFINE h == [f EXCEPT !.IntrJob = "IDLE"]
             g == OldSectorErased(h)
             o == Oth(f)
             d == f.GcDest
  <1>1. /\ CountsKnown(flash, f) /\ GcInv(flash, f, NoJob) /\ f.CacheUpdated
        /\ f.InitGCState = "COMPLETE"
        /\ f.Req # NoReq => f.Req.stage \in {"request", "toRead", "stuck"}
        /\ Stage(f, "stuck") => f.GcState = "FAIL"
        /\ Frontier(flash[Cur(f)], f.NextFreePage) /\ o \in Sectors /\ o = Other(f.CurrSector)
        /\ \A x \in Blocks : CacheOk(flash, f, flash[Cur(f)], x)
    BY GcFacts
  <1>2. GcOver(flash, f) /\ h.IntrJob = "IDLE" /\ IsFee(h)
        /\ \A x \in Fields \ {"IntrJob"} : h[x] = f[x]
    BY GcPassed
  <1>3. /\ d = 0 /\ Governs(flash, Cur(f)) /\ BlankFrom(flash[o], 1)
        /\ flash[o][0] = [StatePage("ERASED", f.StateCount, "none") EXCEPT !.mark = "ok"]
        /\ f.StateCount \in Nat
    BY <1>1, <1>2 DEF GcInv, GcOver, GcCell, IsFee
  <1>4. Unused(flash[o])
    <2>1. MarkedState(flash[o][0], "ERASED")
      BY <1>3 DEF StatePage, MarkedState, IsState
    <2>2. BlankFrom(flash[o], PerWL)
      BY <1>3, SlotFacts DEF BlankFrom
    <2> QED
      BY <2>1, <2>2 DEF Unused
  <1> HIDE DEF h
  <1>5. /\ g.GcState \in {"IDLE", "REQUESTED"} /\ g.GcInit = FALSE /\ g.IntrJobFailCount = 0
        /\ DOMAIN g = Fields
        /\ g.StatePageAddr \in [Sectors -> Nat] /\ g.NextFreeWL \in [Sectors -> Nat]
        /\ g.NextFreeWL[o] = PerWL
        /\ \A x \in Fields \ {"GcState", "GcInit", "IntrJobFailCount", "StatePageAddr",
                              "NextFreeWL"} : g[x] = h[x]
    <2>1. /\ h.CurrSector = f.CurrSector /\ h.GcDest = 0
          /\ h.StatePageAddr \in [Sectors -> Nat] /\ h.NextFreeWL \in [Sectors -> Nat]
          /\ DOMAIN h = Fields
      BY <1>2, <1>3 DEF IsFee, Fields
    <2>2. NextWL(0) = PerWL /\ PerWL \in Nat
      BY WordlineSlots, SlotFacts
    <2> DEFINE A == [h.StatePageAddr EXCEPT ![o] = 0]
               N == [h.NextFreeWL EXCEPT ![o] = PerWL]
    <2>3. A \in [Sectors -> Nat] /\ N \in [Sectors -> Nat] /\ N[o] = PerWL
      BY <1>1, <2>1, <2>2
    <2>4. g = [h EXCEPT !.IntrJobFailCount = 0, !.StatePageAddr = A, !.NextFreeWL = N,
                        !.GcState = IF h.GcInit THEN "REQUESTED" ELSE "IDLE",
                        !.GcInit = FALSE]
      <3>1. Other(h.CurrSector) = o /\ NextWL(h.GcDest) = PerWL /\ h.GcDest = 0
        BY <1>1, <2>1, <2>2
      <3> QED
        BY <3>1 DEF OldSectorErased
    <2> HIDE DEF A, N, g
    <2>5. /\ DOMAIN g = Fields /\ g.StatePageAddr = A /\ g.NextFreeWL = N
          /\ g.IntrJobFailCount = 0
      BY <2>1, <2>4 DEF Fields
    <2>6. g.GcState \in {"IDLE", "REQUESTED"} /\ g.GcInit = FALSE
      BY <2>1, <2>4 DEF Fields
    <2>7. \A x \in Fields \ {"GcState", "GcInit", "IntrJobFailCount", "StatePageAddr",
                             "NextFreeWL"} : g[x] = h[x]
      BY <2>1, <2>4 DEF Fields
    <2> QED
      BY <2>3, <2>5, <2>6, <2>7
  <1> HIDE DEF g
  <1>6. IsFee(g)
    <2>1. /\ h.CacheUpdated \in BOOLEAN /\ h.BlkModified \in BOOLEAN
      BY <1>2 DEF IsFee
    <2>2. g.CacheUpdated = h.CacheUpdated /\ g.BlkModified = h.BlkModified
      BY <1>5 DEF Fields
    <2>3. /\ g.CacheUpdated \in BOOLEAN /\ g.GcInit \in BOOLEAN /\ g.BlkModified \in BOOLEAN
      BY <1>5, <2>1, <2>2, Zenon
    <2> QED
      BY <1>2, <1>5, <2>3 DEF IsFee, Fields
  <1>7. /\ g.MainJob = "GC" /\ g.CacheUpdated /\ g.InitGCState = "COMPLETE"
        /\ g.UserJob = f.UserJob /\ g.Req = f.Req /\ g.NextFreePage = f.NextFreePage
        /\ g.CurrSector = f.CurrSector /\ Cur(g) = Cur(f) /\ Oth(g) = o /\ g.Cache = f.Cache
        /\ g.IntrJob = "IDLE" /\ g.StateCount = f.StateCount /\ g.Copied = f.Copied
    BY <1>1, <1>2, <1>5 DEF Fields, Cur, Oth
  <1>8. ~Stage(f, "stuck") /\ ~Stage(g, "stuck") /\ ~Landed(g, NoJob) /\ Quiet(g, NoJob)
    BY <1>1, <1>7 DEF Stage, Landed, Quiet, IntrRuns
  <1>9. GcInv(flash, g, NoJob)
    BY <1>3, <1>4, <1>5, <1>7, <1>8 DEF GcInv, Busy
  <1>10. CacheInv(flash, g, NoJob)
    <2>1. Ack(flash, g, NoJob) = flash[Cur(f)]
      BY <1>7, <1>8 DEF Ack
    <2> QED
      BY <1>1, <1>5, <1>7, <2>1, CacheNextState DEF Copying
  <1>11. CountsKnown(flash, g)
    BY <1>1, <1>7 DEF CountsKnown
  <1>12. Inv(flash, g, NoJob)
    BY <1>1, <1>6, <1>7, <1>8, <1>9, <1>10, <1>11, GcStep
  <1> QED
    BY <1>5, <1>8, <1>12 DEF g, h

\* Every step of a collection keeps the invariant.
LEMMA GarbageCollectionStep ==
  ASSUME NEW f, Inv(flash, f, NoJob), job = NoJob, GarbageCollection(f)
  PROVE  Inv(flash, fee', job') /\ ~Landed(fee', job') /\ doubt' = doubt
  <1> DEFINE h == [f EXCEPT !.IntrJob = "IDLE"]
  <1>1. f.MainJob = "GC" /\ doubt' = doubt
    BY DEF GarbageCollection
  <1>2. CASE f.IntrJob = "IDLE"
    <2>1. GcStart(f)
      BY <1>2 DEF GarbageCollection
    <2> QED
      BY <1>1, <1>2, <2>1, GcStartStep
  <1>3. CASE f.IntrJob # "IDLE"
    <2> DEFINE g == GcResult(h, TRUE)
    <2>1. GoesTo(f, h, g)
      BY <1>3, GcResults
    <2> HIDE DEF g
    <2>2. CASE f.GcState = "COPY_WRITE"
      <3>1. Inv(flash, CopyDone(h), NoJob) /\ ~Landed(CopyDone(h), NoJob)
            /\ CopyDone(h).GcState = "START_COPY"
        BY <1>1, <1>3, <2>2, CopyDoneStep
      <3> HIDE DEF h
      <3> QED
        BY <1>1, <2>1, <2>2, <3>1 DEF GoesTo, GoesOn, Continue
    <2>3. CASE f.GcState \in {"V_SP", "E_SP"}
      <3> DEFINE m == IF f.GcState = "V_SP" THEN "V_M" ELSE "E_M"
                 k == [h EXCEPT !.GcState = m]
                 j == ProgramMarker(Other(k.CurrSector), k.GcDest)
      <3>1. (f.GcState = "V_SP" /\ m = "V_M") \/ (f.GcState = "E_SP" /\ m = "E_M")
        BY <2>3
      <3> HIDE DEF m
      <3>2. Inv(flash, k, j) /\ ~Landed(k, j) /\ k.GcState = m
        BY <1>1, <1>3, <2>3, <3>1, GcMarkerStep
      <3> HIDE DEF h
      <3>3. g = k
        BY <2>1, <3>1 DEF GoesTo
      <3> HIDE DEF k
      <3>4. GcStart(k)
        BY <2>1, <3>1, <3>2, <3>3 DEF GoesTo, GoesOn
      <3>5. fee' = k /\ job' = j
        BY <3>1, <3>2, <3>4 DEF GcStart, Start
      <3> HIDE DEF j
      <3> QED
        BY <1>1, <3>2, <3>5
    <2>4. CASE f.GcState = "V_M"
      <3>1. Inv(flash, NewSectorValid(h), NoJob) /\ ~Landed(NewSectorValid(h), NoJob)
            /\ NewSectorValid(h).GcState \in {"FAIL", "ERASE"}
        BY <1>1, <1>3, <2>4, NewSectorStep
      <3> HIDE DEF h
      <3> QED
        BY <1>1, <2>1, <2>4, <3>1 DEF GoesTo, GoesOn, Continue
    <2>5. CASE f.GcState = "ERASE"
      <3>1. GcStatePage(EraseDone(h))
        <4> HIDE DEF h
        <4>3. g = EraseDone(h) /\ DOMAIN h = Fields
          BY <2>1, <2>5 DEF GoesTo
        <4>1. g = EraseDone(h) /\ g.GcState = "E_SP"
          BY <4>3 DEF EraseDone, Fields
        <4>2. GcStart(g)
          BY <2>1, <2>5, <4>1 DEF GoesTo, GoesOn
        <4> QED
          BY <4>1, <4>2 DEF GcStart
      <3> QED
        BY <1>1, <1>3, <2>5, <3>1, GcEraseDoneStep
    <2>6. CASE f.GcState = "E_M"
      <3>1. Inv(flash, OldSectorErased(h), NoJob) /\ ~Landed(OldSectorErased(h), NoJob)
            /\ OldSectorErased(h).GcState \in {"IDLE", "REQUESTED"}
        BY <1>1, <1>3, <2>6, OldSectorStep
      <3> HIDE DEF h
      <3> QED
        BY <1>1, <2>1, <2>6, <3>1 DEF GoesTo, GoesOn, Continue
    <2> QED
      BY <2>1, <2>2, <2>3, <2>4, <2>5, <2>6 DEF GoesTo, Busy
  <1> QED
    BY <1>2, <1>3

-----------------------------------------------------------------------------
(* Every step keeps the invariant.                                          *)

\* A call of the main function keeps it.
LEMMA MainFunctionStep ==
  ASSUME IInv, MainFunction
  PROVE  IInv'
  <1> DEFINE f == DecideMainJob(fee)
  <1>1. /\ Inv(flash, fee, job) /\ DoubtInv /\ writes \in Nat /\ fails = 0
        /\ UNCHANGED <<flash, writes, fails, recovered>>
    BY DEF IInv, MainFunction
  <1>2. /\ Inv(flash, f, job)
        /\ \A x \in Fields \ {"MainJob", "NextFreePage", "GcState"} : f[x] = fee[x]
        /\ f.MainJob \in {"READ", "WRITE"} => f.Req # NoReq
        /\ f.MainJob = "READ" /\ job = NoJob => Stage(f, "toRead")
    BY <1>1, DecideStep
  <1>3. f.MainJob = "CACHEUPDATE" => ~f.CacheUpdated
    <2>1. f.MainJob = "CACHEUPDATE" => ~fee.CacheUpdated
      BY <1>1, CacheBuiltOnce
    <2>2. f.CacheUpdated = fee.CacheUpdated
      BY <1>2 DEF Fields
    <2> QED
      BY <2>1, <2>2
  <1>4. \/ Continue(f) /\ UNCHANGED doubt
        \/ job = NoJob /\ (InitGC(f) \/ UpdateCache(f) \/ LocalRead(f) \/ LocalWrite(f)
                           \/ GarbageCollection(f))
    BY DEF MainFunction
  <1> HIDE DEF f
  <1>5. doubt \in [Blocks -> SUBSET (Values \cup {NoValue})]
    BY <1>1 DEF DoubtInv
  <1>6. CASE Continue(f) /\ UNCHANGED doubt
    <2>1. fee' = f /\ job' = job /\ doubt' = doubt
      BY <1>6 DEF Continue
    <2>2. f.Req = fee.Req /\ f.Cache = fee.Cache
      BY <1>2 DEF Fields
    <2>3. Landed(fee', job') <=> Landed(fee, job)
      BY <2>1, <2>2 DEF Landed, Stage
    <2>4. DoubtInv'
      BY <1>1, <2>1, <2>2, <2>3 DEF DoubtInv, Content
    <2> QED
      BY <1>1, <1>2, <2>1, <2>4 DEF IInv
  <1>7. CASE job = NoJob /\ (InitGC(f) \/ UpdateCache(f) \/ LocalRead(f) \/ LocalWrite(f)
                             \/ GarbageCollection(f))
    <2>1. Inv(flash, f, NoJob)
      BY <1>2, <1>7
    <2>2. /\ Inv(flash, fee', job') /\ ~Landed(fee', job')
          /\ doubt' \in [Blocks -> SUBSET (Values \cup {NoValue})]
      <3>1. CASE InitGC(f)
        <4>1. Inv(flash, fee', job') /\ fee'.MainJob = "INITGC" /\ doubt' = doubt
          BY <1>7, <2>1, <3>1, InitGCStep
        <4>2. ~Stage(fee', "compare")
          BY <4>1 DEF Inv, UserInv
        <4> QED
          BY <1>5, <4>1, <4>2 DEF Landed
      <3>2. CASE UpdateCache(f)
        <4>1. ~f.CacheUpdated
          BY <1>3, <3>2 DEF UpdateCache
        <4> QED
          BY <1>5, <1>7, <2>1, <3>2, <4>1, UpdateCacheStep
      <3>3. CASE LocalRead(f)
        <4>1. Stage(f, "toRead")
          BY <1>2, <1>7, <3>3 DEF LocalRead
        <4> QED
          BY <1>5, <1>7, <2>1, <3>3, <4>1, LocalReadStep
      <3>4. CASE LocalWrite(f)
        <4>1. f.Req # NoReq
          BY <1>2, <3>4 DEF LocalWrite
        <4> QED
          BY <1>5, <1>7, <2>1, <3>4, <4>1, LocalWriteStep
      <3>5. CASE GarbageCollection(f)
        BY <1>5, <1>7, <2>1, <3>5, GarbageCollectionStep
      <3> QED
        BY <1>7, <3>1, <3>2, <3>3, <3>4, <3>5
    <2>3. DoubtInv'
      BY <1>1, <2>2 DEF DoubtInv
    <2> QED
      BY <1>1, <2>2, <2>3 DEF IInv
  <1> QED
    BY <1>4, <1>6, <1>7

\* A new request: fee and writes alone change.
LEMMA RequestStep ==
  ASSUME IInv, NEW r \in Requests, r.stage \in {"request", "toRead"},
         fee.Req = NoReq, fee' = [fee EXCEPT !.Req = r],
         UNCHANGED <<flash, job, fails, recovered, doubt>>, writes' \in Nat
  PROVE  IInv'
  <1> DEFINE g == [fee EXCEPT !.Req = r]
  <1>1. Inv(flash, fee, job) /\ DoubtInv /\ fails = 0 /\ DOMAIN fee = Fields
    BY DEF IInv, Inv, IsFee
  <1>2. DOMAIN g = Fields /\ g.Req = r /\ \A x \in Fields \ {"Req"} : g[x] = fee[x]
    BY <1>1 DEF Fields
  <1>3. fee' = g
    OBVIOUS
  <1> HIDE DEF g
  <1>4. Inv(flash, g, job) /\ ~Landed(g, job)
    BY <1>1, <1>2, RequestAccepted
  <1>5. DoubtInv'
    BY <1>1, <1>3, <1>4 DEF DoubtInv
  <1> QED
    BY <1>1, <1>3, <1>4, <1>5 DEF IInv

\* Fee_Read keeps it.
LEMMA ReadStep ==
  ASSUME IInv, NEW b \in Blocks, Read(b)
  PROVE  IInv'
  <1> DEFINE r == [blk |-> b, val |-> NoValue, invalidate |-> FALSE, stage |-> "toRead"]
  <1>1. r \in Requests /\ r.stage = "toRead"
    BY DEF Requests
  <1>2. fee.Req = NoReq /\ fee' = [fee EXCEPT !.Req = r]
        /\ UNCHANGED <<flash, job, fails, recovered, doubt>> /\ writes' = writes
    BY DEF Read
  <1>3. writes' \in Nat
    BY <1>2 DEF IInv
  <1> HIDE DEF r
  <1> QED
    BY <1>1, <1>2, <1>3, RequestStep

\* Fee_Write and Fee_InvalidateBlock keep it.
LEMMA WriteStep ==
  ASSUME IInv, NEW b \in Blocks, Write(b) \/ InvalidateBlock(b)
  PROVE  IInv'
  <1>1. writes \in Nat /\ writes < MaxWrites /\ writes + 1 \in Values
    <2>1. writes \in Nat
      BY DEF IInv
    <2>2. writes < MaxWrites
      BY DEF Write, InvalidateBlock
    <2>3. MaxWrites \in Nat
      BY FeeConstants
    <2> QED
      BY <2>1, <2>2, <2>3 DEF Values
  <1>2. ASSUME NEW v \in Values \cup {NoValue}, NEW i \in BOOLEAN, NewRequest(b, v, i),
               fee.Req = NoReq, writes' = writes + 1,
               UNCHANGED <<flash, job, fails, recovered, doubt>>
        PROVE  IInv'
    <2> DEFINE r == [blk |-> b, val |-> v, invalidate |-> i, stage |-> "request"]
    <2>1. r \in Requests /\ r.stage = "request"
      BY DEF Requests
    <2>2. fee' = [fee EXCEPT !.Req = r]
      BY <1>2 DEF NewRequest
    <2>3. writes' \in Nat
      BY <1>1, <1>2
    <2> HIDE DEF r
    <2> QED
      BY <1>2, <2>1, <2>2, <2>3, RequestStep
  <1>3. CASE Write(b)
    BY <1>1, <1>2, <1>3 DEF Write
  <1>4. CASE InvalidateBlock(b)
    BY <1>2, <1>4 DEF InvalidateBlock
  <1> QED
    BY <1>3, <1>4

\* Fee_Cancel keeps it.
LEMMA CancelStep ==
  ASSUME IInv, Cancel
  PROVE  IInv'
  <1> DEFINE g == [fee EXCEPT !.Req = NoReq, !.UserJobFailCount = 0]
             k == IF Stage(fee, "reading") THEN NoJob ELSE job
  <1>1. Inv(flash, fee, job) /\ DoubtInv /\ fails = 0 /\ IsFee(fee) /\ writes \in Nat
    BY DEF IInv, Inv
  <1>2. /\ fee' = g /\ job' = k /\ UNCHANGED <<flash, writes, fails, recovered, doubt>>
        /\ ~Stage(fee, "compare")
    BY DEF Cancel, Stage
  <1>3. DOMAIN g = Fields /\ g.Req = NoReq /\ \A x \in Fields \ {"Req"} : g[x] = fee[x]
    BY <1>1 DEF IsFee, Fields
  <1> HIDE DEF g, k
  <1>4. Inv(flash, g, k)
    BY <1>1, <1>2, <1>3, RequestDropped DEF k
  <1>5. ~Landed(g, k)
    BY <1>3 DEF Landed, Stage
  <1>6. DoubtInv'
    BY <1>1, <1>2, <1>5 DEF DoubtInv
  <1> QED
    BY <1>1, <1>2, <1>4, <1>6 DEF IInv

\* Every step keeps it.
LEMMA FeeStep ==
  ASSUME FInv, [Next]_vars
  PROVE  FInv'
  <1>1. CASE MainFunction
    BY <1>1, MainFunctionStep DEF MainFunction, FInv
  <1>2. CASE JobEndNotification
    BY <1>2, JobEndStep DEF JobEndNotification, FInv
  <1>3. CASE JobFails
    <2>1. fails' = fails + 1 /\ fails \in Nat
      BY <1>3 DEF JobFails, FInv
    <2> QED
      BY <2>1 DEF FInv
  <1>4. ASSUME NEW b \in Blocks, Read(b) \/ Write(b) \/ InvalidateBlock(b)
        PROVE  FInv'
    <2>1. fails' = fails
      BY <1>4 DEF Read, Write, InvalidateBlock
    <2> QED
      BY <1>4, <2>1, ReadStep, WriteStep DEF FInv
  <1>5. CASE Cancel
    BY <1>5, CancelStep DEF Cancel, FInv
  <1>6. CASE Reset
    BY <1>6, ResetStep DEF Reset, FInv
  <1>7. CASE UNCHANGED vars
    <2>1. UNCHANGED <<flash, job, fee, writes, fails, recovered, doubt>>
      BY <1>7 DEF vars
    <2>2. fails \in Nat /\ fails' \in Nat
      BY <2>1 DEF FInv
    <2>3. ASSUME IInv PROVE IInv'
      <3>1. Inv(flash', fee', job') /\ DoubtInv /\ writes \in Nat /\ fails = 0
        BY <2>1, <2>3 DEF IInv
      <3>2. Landed(fee', job') <=> Landed(fee, job)
        BY <2>1
      <3>3. DoubtInv'
        BY <2>1, <3>1, <3>2 DEF DoubtInv, Content
      <3> QED
        BY <2>1, <3>1, <3>3 DEF IInv
    <2> QED
      BY <2>1, <2>2, <2>3 DEF FInv
  <1> QED
    BY <1>1, <1>2, <1>3, <1>4, <1>5, <1>6, <1>7 DEF Next

-----------------------------------------------------------------------------

\* Until a flash job fails the invariant holds, for every size of the flash,
\* any number of blocks, writes and resets.
THEOREM FeeInvariant == Spec => []FInv
  <1>1. Init => FInv
    BY InitInv DEF Init, FInv
  <1>2. FInv /\ [Next]_vars => FInv'
    BY FeeStep
  <1> QED
    BY <1>1, <1>2, PTL DEF Spec

\* Until a flash job fails no page is programmed twice between two erasures.
THEOREM FlashCorrect == Spec => [](fails = 0 => ProgramsBlankFlash)
  <1>1. FInv => (fails = 0 => ProgramsBlankFlash)
    BY BlankFlash DEF FInv, IInv
  <1> QED
    BY <1>1, FeeInvariant, PTL

\* Until a flash job fails the cache leads to the value a start-up would find,
\* or to another that is in doubt: reads are answered rightly.
THEOREM CacheCorrect == Spec => [](fails = 0 => CacheShowsStore)
  <1>1. FInv => (fails = 0 => CacheShowsStore)
    BY CacheShows DEF FInv, IInv
  <1> QED
    BY <1>1, FeeInvariant, PTL

-----------------------------------------------------------------------------
(* What a job, ended or cut off, does to the values a start-up finds.       *)

\* A flash without copies has no values.
LEMMA NothingRecovered ==
  ASSUME NEW fl, FlashOk(fl), \A s \in Sectors : \A a \in Slots : fl[s][a].kind # "copy"
  PROVE  Recovered(fl) = [b \in Blocks |-> NoValue]
  <1>1. ASSUME NEW s \in Sectors, NEW b \in Blocks PROVE Latest(fl[s], b) = NoValue
    BY DEF Latest, CopiesOf
  <1>2. CASE \E s \in Sectors : Governs(fl, s)
    <2>1. PICK s \in Sectors : Governs(fl, s)
      BY <1>2
    <2>2. Recovered(fl) = [b \in Blocks |-> Latest(fl[s], b)]
      BY <2>1, RecoveredValues
    <2> QED
      BY <1>1, <2>2
  <1>3. CASE \A s \in Sectors : ~Governs(fl, s)
    BY <1>3, RecoveredValues
  <1> QED
    BY <1>2, <1>3

\* Two flashes with the same governing sector and the same copies in it.
LEMMA SameRecovered ==
  ASSUME NEW fl, FlashOk(fl), NEW new, FlashOk(new), NEW s \in Sectors,
         Governs(fl, s), Governs(new, s),
         \A a \in Slots : fl[s][a].kind = "copy" \/ new[s][a].kind = "copy"
                            => new[s][a] = fl[s][a]
  PROVE  Recovered(new) = Recovered(fl)
  <1>1. fl[s] \in [Slots -> Cells] /\ new[s] \in [Slots -> Cells]
    BY DEF FlashOk
  <1>2. ASSUME NEW b \in Blocks PROVE Latest(new[s], b) = Latest(fl[s], b)
    BY <1>1, SameCopies
  <1>3. /\ Recovered(fl) = [b \in Blocks |-> Latest(fl[s], b)]
        /\ Recovered(new) = [b \in Blocks |-> Latest(new[s], b)]
    BY RecoveredValues
  <1> QED
    BY <1>2, <1>3

\* A job of the user.
LEMMA CopyCutOff ==
  ASSUME NEW f, NEW j, Inv(flash, f, j), j # NoJob, NEW cells \in Partial(j),
         Stage(f, "compare"), f.CacheUpdated, f.NextFreePage \in Slots,
         Programs(j, "user", Cur(f), f.NextFreePage, BlockCopy(f.Req.blk, f.Req.val)),
         Frontier(flash[Cur(f)], f.NextFreePage)
  PROVE  LET new == After(flash, j.sector, cells)
         IN \/ Recovered(new) = Recovered(flash)
            \/ Recovered(new) = [Recovered(flash) EXCEPT ![f.Req.blk] = f.Req.val]
  <1> DEFINE new == After(flash, j.sector, cells)
             s == Cur(f)
             d == f.NextFreePage
             b == f.Req.blk
             v == f.Req.val
             copy == BlockCopy(b, v)
  <1>1. /\ FlashOk(flash) /\ IsFee(f) /\ MainInv(f, j) /\ UserInv(flash, f, j)
        /\ GcInv(flash, f, j) /\ JobSafe(flash, j)
    BY JobsAreSafe DEF Inv
  <1>2. j.op = "program" /\ j.sector = s /\ j.addr = d /\ j.cell = copy /\ s \in Sectors
    BY <1>1 DEF Programs, IsJob, IsFee, Cur
  <1>3. FlashOk(new) /\ new[s] = cells
    BY <1>1, <1>2, FlashOkAfter, AfterSectors
  <1>4. Governs(flash, s)
    BY <1>1 DEF MainInv, UserInv, GcInv
  <1>5. Governs(new, s)
    BY <1>1, <1>2, <1>4, ProgramKeepsGoverning
  <1>6. PICK c \in {flash[s][d], Torn, copy} : cells = [flash[s] EXCEPT ![d] = c]
    BY <1>2, PartialProgram
  <1>7. flash[s] \in [Slots -> Cells] /\ flash[s][d] = Blank /\ cells \in [Slots -> Cells]
    BY <1>1, <1>2, <1>3, SlotFacts DEF FlashOk, Frontier, BlankFrom
  <1>8. cells[d] = c /\ \A p \in Slots : p # d => cells[p] = flash[s][p]
    BY <1>6, <1>7
  <1>9. b \in Blocks /\ v \in Values \cup {NoValue}
    BY <1>1, RequestFacts DEF Stage, IsFee
  <1>10. copy.kind = "copy" /\ copy.blk = b /\ copy.val = v
    BY <1>9, BuiltCells
  <1> HIDE DEF copy, new, b, v
  <1>11. CASE c # copy
    <2>1. c.kind # "copy" /\ flash[s][d].kind # "copy"
      BY <1>6, <1>7, <1>11, BuiltCells
    <2>2. \A a \in Slots : flash[s][a].kind = "copy" \/ new[s][a].kind = "copy"
                             => new[s][a] = flash[s][a]
      BY <1>3, <1>8, <2>1
    <2>3. Recovered(new) = Recovered(flash)
      BY <1>1, <1>2, <1>3, <1>4, <1>5, <2>2, SameRecovered
    <2> QED
      BY <2>3 DEF new
  <1>12. CASE c = copy
    <2>1. BlankFrom(flash[s], d)
      BY DEF Frontier
    <2>2. \A x \in Blocks : Latest(cells, x) = IF x = b THEN v ELSE Latest(flash[s], x)
      BY <1>7, <1>8, <1>10, <1>12, <2>1, NewCopy
    <2>3. /\ Recovered(flash) = [x \in Blocks |-> Latest(flash[s], x)]
          /\ Recovered(new) = [x \in Blocks |-> Latest(cells, x)]
      BY <1>1, <1>2, <1>3, <1>4, <1>5, RecoveredValues
    <2>4. Recovered(new) = [Recovered(flash) EXCEPT ![b] = v]
      BY <1>9, <2>2, <2>3
    <2> QED
      BY <2>4 DEF new, b, v
  <1> QED
    BY <1>11, <1>12

\* A job of the first preparation: there are no copies.
LEMMA PrepCutOff ==
  ASSUME NEW f, NEW j, Inv(flash, f, j), j # NoJob, NEW cells \in Partial(j),
         IntrRuns(j), f.InitGCState = "PREPARE", f.IntrJob = "IDLE"
  PROVE  Recovered(After(flash, j.sector, cells)) = Recovered(flash)
  <1> DEFINE new == After(flash, j.sector, cells)
             s == j.sector
             k == f.PrepStep
  <1>1. /\ FlashOk(flash) /\ IsFee(f) /\ PrepInv(flash, f, j) /\ JobSafe(flash, j)
    BY JobsAreSafe DEF Inv
  <1>2. /\ s \in Sectors /\ j.op \in {"program", "marker"}
        /\ j.op = "program" => j.cell.kind = "state"
    <2>1. k \in 1 .. 6 /\ (j.op = IF k % 2 = 1 THEN "program" ELSE "marker")
          /\ (k % 2 = 1 => j.cell = StatePage(PrepState[k], f.StateCount, "none"))
      BY <1>1, PrepJobSafe DEF PrepInv
    <2>2. \A st, n : StatePage(st, n, "none").kind = "state"
      BY DEF StatePage
    <2>3. j.op = "program" => k % 2 = 1
      BY <2>1
    <2>4. j.op \in {"program", "marker"}
      BY <2>1
    <2> QED
      BY <1>1, <2>1, <2>2, <2>3, <2>4 DEF JobSafe
  <1>3. \A t \in Sectors : \A a \in Slots : flash[t][a].kind # "copy"
    <2> SUFFICES ASSUME NEW t \in Sectors, NEW a \in Slots PROVE flash[t][a].kind # "copy"
      OBVIOUS
    <2>1. \E n : PrepFlash(flash, n)
      BY <1>1 DEF PrepInv
    <2>2. Blank.kind # "copy" /\ t \in {0, 1}
      BY BuiltCells, SlotFacts
    <2> QED
      BY <2>1, <2>2 DEF PrepFlash, IsState
  <1>4. FlashOk(new) /\ new[s] = cells /\ \A t \in Sectors : t # s => new[t] = flash[t]
    BY <1>1, <1>2, FlashOkAfter, AfterSectors
  <1>5. \A a \in Slots : cells[a].kind # "copy"
    <2>1. CASE j.op = "program"
      <3>1. PICK c \in {flash[s][j.addr], Torn, j.cell} :
              cells = [flash[s] EXCEPT ![j.addr] = c]
        BY <2>1, PartialProgram
      <3>2. j.addr \in Slots /\ flash[s] \in [Slots -> Cells]
        BY <1>1, <1>2 DEF JobSafe, FlashOk
      <3>3. c.kind # "copy"
        BY <1>2, <1>3, <2>1, <3>1, <3>2, BuiltCells
      <3> QED
        BY <1>2, <1>3, <3>1, <3>2, <3>3
    <2>2. CASE j.op = "marker"
      <3>1. /\ \A p \in Slots : p # j.addr => cells[p] = flash[s][p]
            /\ cells[j.addr].kind = "state"
        BY <1>1, <2>2, ShapeAfterMarker
      <3> QED
        BY <1>2, <1>3, <3>1
    <2> QED
      BY <1>2, <2>1, <2>2
  <1>6. \A t \in Sectors : \A a \in Slots : new[t][a].kind # "copy"
    BY <1>3, <1>4, <1>5
  <1> HIDE DEF new
  <1>7. Recovered(new) = Recovered(flash)
    BY <1>1, <1>3, <1>4, <1>6, NothingRecovered
  <1> QED
    BY <1>7 DEF new

\* The repair of a marker.
LEMMA RepairCutOff ==
  ASSUME NEW f, NEW j, Inv(flash, f, j), j # NoJob, NEW cells \in Partial(j),
         IntrRuns(j), f.InitGCState = "DIRTY"
  PROVE  Recovered(After(flash, j.sector, cells)) = Recovered(flash)
  <1> DEFINE new == After(flash, j.sector, cells)
             s == j.sector
             t == Cur(f)
  <1>1. /\ FlashOk(flash) /\ IsFee(f) /\ StartInv(flash, f, j) /\ JobSafe(flash, j)
    BY JobsAreSafe DEF Inv
  <1>2. j.op = "marker" /\ Marked(flash[s][j.addr]) /\ s \in Sectors
    BY <1>1, RepairSafe
  <1>3. FlashOk(new) /\ new[s] = cells /\ \A u \in Sectors : u # s => new[u] = flash[u]
    BY <1>1, <1>2, FlashOkAfter, AfterSectors
  <1>4. t \in Sectors /\ Governs(flash, t)
    BY <1>1 DEF StartInv, IsFee, Cur
  <1>5. Governs(new, t)
    BY <1>1, <1>2, <1>4, MarkerKeepsGoverning
  <1>6. /\ \A p \in Slots : p # j.addr => cells[p] = flash[s][p]
        /\ cells[j.addr].kind = "state" /\ flash[s][j.addr].kind = "state"
    BY <1>1, <1>2, ShapeAfterMarker
  <1>7. \A a \in Slots : flash[t][a].kind = "copy" \/ new[t][a].kind = "copy"
                           => new[t][a] = flash[t][a]
    BY <1>3, <1>4, <1>6
  <1> HIDE DEF new
  <1>8. Recovered(new) = Recovered(flash)
    BY <1>1, <1>3, <1>4, <1>5, <1>7, SameRecovered
  <1> QED
    BY <1>8 DEF new

\* Before the other sector takes over it holds the latest copy of each block.
LEMMA BothSectorsAgree ==
  ASSUME NEW f, NEW j, Inv(flash, f, j), f.InitGCState = "COMPLETE", f.GcState = "V_M",
         NEW b \in Blocks
  PROVE  Latest(flash[Oth(f)], b) = Latest(flash[Cur(f)], b)
  <1> DEFINE o == Oth(f)
             s == Cur(f)
  <1>1. /\ UserInv(flash, f, j) /\ MainInv(f, j) /\ CacheInv(flash, f, j)
        /\ f.CacheUpdated
    BY DEF Inv, MainInv
  <1>2. ~Landed(f, j)
    BY <1>1 DEF Landed, UserInv, MainInv
  <1>3. flash[o] \in [Slots -> Cells] /\ Ack(flash, f, j) = flash[s]
    <2>1. flash[o] \in [Slots -> Cells]
      BY SlotFacts DEF Inv, FlashOk, IsFee, Oth
    <2> QED
      BY <1>2, <2>1 DEF Ack
  <1>4. CacheOk(flash, f, flash[s], b) /\ f.GcState \in Copying
    BY <1>1, <1>3 DEF CacheInv, Copying
  <1>5. CASE f.Cache[b] = NoAddr
    <2>1. CopiesOf(flash[s], b) = {} /\ CopiesOf(flash[o], b) = {}
      BY <1>4, <1>5 DEF CacheOk
    <2> QED
      BY <2>1 DEF Latest
  <1>6. CASE Moved(f, b)
    <2>1. /\ LatestIs(flash[o], b, f.Cache[b].slot)
          /\ Latest(flash[s], b) = flash[o][f.Cache[b].slot].val
      BY <1>4, <1>6 DEF CacheOk, Moved
    <2>2. Latest(flash[o], b) = flash[o][f.Cache[b].slot].val
      BY <1>3, <2>1, LatestOf
    <2> QED
      BY <2>1, <2>2
  <1> QED
    BY <1>4, <1>5, <1>6 DEF CacheOk

\* A job of the collection.
LEMMA GcCutOff ==
  ASSUME NEW f, NEW j, Inv(flash, f, j), j # NoJob, NEW cells \in Partial(j),
         IntrRuns(j), f.InitGCState = "COMPLETE", f.GcState \in Busy, f.IntrJob = "IDLE",
         GcRunning(flash, f, j)
  PROVE  Recovered(After(flash, j.sector, cells)) = Recovered(flash)
  <1> DEFINE new == After(flash, j.sector, cells)
             o == Oth(f)
             s == Cur(f)
             d == f.GcDest
  <1>1. /\ FlashOk(flash) /\ IsFee(f) /\ GcInv(flash, f, j) /\ CountsKnown(flash, f)
        /\ JobSafe(flash, j)
    BY JobsAreSafe DEF Inv
  <1>2. /\ j.sector = o
        /\ j.op = CASE f.GcState \in {"COPY_WRITE", "V_SP", "E_SP"} -> "program"
                    [] f.GcState = "ERASE" -> "erase"
                    [] OTHER -> "marker"
        /\ j.op # "erase" => j.addr = d
    BY GcJobSafe
  <1>3. /\ s \in Sectors /\ o \in Sectors /\ o # s /\ Other(o) = s
        /\ Governs(flash, s)
    BY <1>1, SlotFacts DEF GcInv, IsFee, Cur, Oth
  <1>4. FlashOk(new) /\ new[o] = cells /\ new[s] = flash[s]
    BY <1>1, <1>2, <1>3, FlashOkAfter, AfterSectors
  <1>5. Governs(new, s) => Recovered(new) = Recovered(flash)
    <2> HIDE DEF new
    <2> QED
      BY <1>1, <1>3, <1>4, SameRecovered
  <1>6. CASE f.GcState \in {"COPY_WRITE", "V_SP", "E_SP"}
    <2>1. j.op = "program"
      BY <1>2, <1>6
    <2>2. Governs(new, s)
      BY <1>1, <1>3, <2>1, ProgramKeepsGoverning
    <2> QED
      BY <1>5, <2>2
  <1>7. CASE f.GcState = "ERASE"
    <2>1. j.op = "erase"
      BY <1>2, <1>7
    <2>2. Governs(new, s)
      BY <1>1, <1>2, <1>3, <2>1, EraseKeepsGoverning
    <2> QED
      BY <1>5, <2>2
  <1>8. CASE f.GcState \in {"V_M", "E_M"}
    <2>1. j.op = "marker" /\ j.addr = d /\ d \in Slots
      BY <1>1, <1>2, <1>8 DEF JobSafe
    <2>2. flash[o][d] = StatePage(IF f.GcState = "V_M" THEN "VALID" ELSE "ERASED",
                                  f.StateCount, "none")
      BY <1>8 DEF GcRunning, GcCell
    <2>3. CASE f.GcState = "E_M" \/ ~Marked(cells[d])
      <3>1. f.GcState = "E_M" => IsState(flash[o][d], "ERASED")
        BY <2>2 DEF IsState, StatePage
      <3>2. Governs(new, s)
        BY <1>1, <1>2, <1>3, <2>1, <2>3, <3>1, MarkerKeepsGoverning
      <3> QED
        BY <1>5, <3>2
    <2>4. CASE f.GcState = "V_M" /\ Marked(cells[d])
      <3>1. IsState(flash[o][d], "VALID") /\ flash[o][d].cnt = f.StateCount
        BY <2>2, <2>4 DEF IsState, StatePage
      <3>2. \A p \in Slots : MarkedState(flash[Other(o)][p], "VALID")
                               => flash[Other(o)][p].cnt < flash[o][d].cnt
        BY <1>1, <1>3, <2>1, <3>1, LowerCounts
      <3>3. Governs(new, o)
        BY <1>1, <1>2, <2>1, <2>4, <3>1, <3>2, MarkerHandsOver
      <3>4. /\ \A p \in Slots : p # d => cells[p] = flash[o][p]
            /\ cells[d].kind = "state" /\ flash[o][d].kind = "state"
        BY <1>1, <1>2, <2>1, ShapeAfterMarker
      <3>5. \A a \in Slots : flash[o][a].kind = "copy" \/ cells[a].kind = "copy"
                               => cells[a] = flash[o][a]
        BY <2>1, <3>4
      <3>6. ASSUME NEW b \in Blocks PROVE Latest(cells, b) = Latest(flash[s], b)
        <4>1. flash[o] \in [Slots -> Cells] /\ cells \in [Slots -> Cells]
          BY <1>1, <1>3, <1>4 DEF FlashOk
        <4>2. Latest(cells, b) = Latest(flash[o], b)
          BY <3>5, <4>1, SameCopies
        <4>3. Latest(flash[o], b) = Latest(flash[s], b)
          BY <2>4, BothSectorsAgree
        <4> QED
          BY <4>2, <4>3
      <3> HIDE DEF new
      <3>7. /\ Recovered(flash) = [b \in Blocks |-> Latest(flash[s], b)]
            /\ Recovered(new) = [b \in Blocks |-> Latest(cells, b)]
        BY <1>1, <1>3, <1>4, <3>3, RecoveredValues
      <3>8. Recovered(new) = Recovered(flash)
        BY <3>6, <3>7
      <3> QED
        BY <3>8 DEF new
    <2> QED
      BY <1>8, <2>3, <2>4
  <1> QED
    BY <1>6, <1>7, <1>8 DEF Busy

\* Wherever a job is cut off, a start-up finds the values of before, or the
\* one the user is writing.
LEMMA RecoveredAfter ==
  ASSUME NEW f, NEW j, Inv(flash, f, j), j # NoJob, NEW cells \in Partial(j)
  PROVE  LET new == After(flash, j.sector, cells)
         IN \/ Recovered(new) = Recovered(flash)
            \/ /\ ~IntrRuns(j) /\ Stage(f, "compare")
               /\ Recovered(new) = [Recovered(flash) EXCEPT ![f.Req.blk] = f.Req.val]
  <1> DEFINE new == After(flash, j.sector, cells)
  <1>1. FlashOk(flash) /\ IsFee(f) /\ JobSafe(flash, j)
    BY JobsAreSafe DEF Inv
  <1>2. CASE /\ ~IntrRuns(j) /\ Stage(f, "compare") /\ f.CacheUpdated /\ f.UserJob = "IDLE"
             /\ Programs(j, "user", Cur(f), f.NextFreePage, BlockCopy(f.Req.blk, f.Req.val))
             /\ Frontier(flash[Cur(f)], f.NextFreePage) /\ f.NextFreePage \in Slots
    BY <1>2, CopyCutOff
  <1>3. CASE /\ ~IntrRuns(j) /\ Stage(f, "reading") /\ f.CacheUpdated
             /\ f.Cache[f.Req.blk] # NoAddr /\ Reads(flash, j, f.Cache[f.Req.blk])
    <2>1. cells = flash[j.sector]
      BY <1>1, <1>3, ReadSafe, PartialRead
    <2>2. new = flash
      BY <1>1, <2>1 DEF After, FlashOk
    <2> QED
      BY <2>2
  <1>4. CASE IntrRuns(j) /\ f.InitGCState = "PREPARE" /\ f.IntrJob = "IDLE" /\ ~f.CacheUpdated
    BY <1>4, PrepCutOff
  <1>5. CASE IntrRuns(j) /\ f.InitGCState = "DIRTY" /\ f.IntrJob = "IDLE" /\ ~f.CacheUpdated
    BY <1>5, RepairCutOff
  <1>6. CASE /\ IntrRuns(j) /\ f.InitGCState = "COMPLETE" /\ f.GcState \in Busy
             /\ f.IntrJob = "IDLE" /\ GcRunning(flash, f, j)
    BY <1>6, GcCutOff
  <1> QED
    BY <1>2, <1>3, <1>4, <1>5, <1>6, JobForms

-----------------------------------------------------------------------------
(* What the steps of the main function do to the request.                   *)

\* The initialisation leaves the request alone, and what has begun goes on.
LEMMA InitGCRequest ==
  ASSUME NEW f, Inv(flash, f, NoJob), InitGC(f)
  PROVE  /\ fee'.Req = f.Req
         /\ f.InitGCState \in Started => fee'.InitGCState \in Started
  <1> DEFINE h == [f EXCEPT !.IntrJob = "IDLE"]
             g == InitGCResult(f)
  <1>1. IsFee(f) /\ DOMAIN f = Fields /\ f.RepairStep = "MARKER" /\ f.MainJob = "INITGC"
    BY DEF Inv, IsFee, InitGC
  <1>2. /\ DOMAIN g = Fields /\ g.Req = f.Req
        /\ f.InitGCState \in Started => g.InitGCState \in Started
    <2>1. CASE f.IntrJob = "IDLE"
      BY <1>1, <2>1 DEF InitGCResult
    <2>2. CASE f.IntrJob # "IDLE"
      <3>1. f.IntrJob = "PASS"
        BY <1>1, <2>2 DEF IsFee
      <3>2. DOMAIN h = Fields /\ h.Req = f.Req /\ h.InitGCState = f.InitGCState
            /\ h.RepairStep = "MARKER"
        BY <1>1 DEF Fields
      <3> HIDE DEF h
      <3>3. CASE f.InitGCState = "DIRTY"
        <4>1. g = RepairResult(h, TRUE)
          BY <3>1, <3>3 DEF InitGCResult, h
        <4>2. /\ DOMAIN RepairResult(h, TRUE) = Fields /\ RepairResult(h, TRUE).Req = h.Req
              /\ RepairResult(h, TRUE).InitGCState \in {"DIRTY", "NORMAL"}
          BY <3>2, <3>3 DEF RepairResult, Fields
        <4> QED
          BY <3>2, <4>1, <4>2 DEF Started
      <3>4. CASE f.InitGCState = "PREPARE"
        <4>1. DOMAIN g = Fields
              /\ \A x \in Fields \ {"IntrJob", "PrepStep", "IntrJobFailCount", "InitGCState",
                                    "PrepDest", "StatePageAddr", "NextFreeWL"} : g[x] = f[x]
          BY <1>1, <3>1, <3>4, PrepResultFields
        <4> HIDE DEF g
        <4>2. "Req" \in Fields \ {"IntrJob", "PrepStep", "IntrJobFailCount", "InitGCState",
                                  "PrepDest", "StatePageAddr", "NextFreeWL"}
          BY DEF Fields
        <4> QED
          BY <3>4, <4>1, <4>2 DEF Started
      <3>5. CASE f.InitGCState \notin {"DIRTY", "PREPARE"}
        <4>1. g = h
          BY <3>1, <3>5 DEF InitGCResult, h
        <4> QED
          BY <3>2, <4>1
      <3> QED
        BY <3>3, <3>4, <3>5
    <2> QED
      BY <2>1, <2>2
  <1>3. \/ g.InitGCState = "INVALID" /\ Continue(InitGCFail(g))
        \/ g.InitGCState = "EMPTY" /\ PrepJob([g EXCEPT !.InitGCState = "PREPARE"])
        \/ g.InitGCState = "PREPARE" /\ PrepJob(g)
        \/ g.InitGCState = "DIRTY" /\ RepairJob(g)
        \/ g.InitGCState = "NORMAL" /\ Continue(Resume(g))
        \/ g.InitGCState \in {"COMPLETE", "FAIL"} /\ Continue(g)
    BY DEF InitGC
  <1> HIDE DEF g
  <1>4. \/ fee' = InitGCFail(g)
        \/ \E n : fee' = [[g EXCEPT !.InitGCState = "PREPARE"] EXCEPT !.StateCount = n]
        \/ fee' = [g EXCEPT !.InitGCState = "PREPARE"]
        \/ \E n : fee' = [g EXCEPT !.StateCount = n]
        \/ fee' = g
        \/ \E s, n, m : fee' = [g EXCEPT !.StatePageAddr[s] = n, !.NextFreeWL[s] = m]
        \/ fee' = Resume(g)
    BY <1>3 DEF Continue, PrepJob, RepairJob, Start
  <1>5. "Req" \in Fields /\ "InitGCState" \in Fields
    BY DEF Fields
  <1>6. f.InitGCState \in Started => RepairJob(g) \/ fee' = Resume(g) \/ fee' = g
    BY <1>2, <1>3 DEF Started, Continue
  <1>7. RepairJob(g) => fee'.InitGCState = g.InitGCState
    BY <1>2, <1>5 DEF RepairJob, Start
  <1> QED
    BY <1>2, <1>4, <1>5, <1>6, <1>7 DEF InitGCFail, Resume, Started

\* So does the start of a collection's next job, and the initialisation has ended.
LEMMA GcStartRequest ==
  ASSUME NEW f, DOMAIN f = Fields, GcStart(f)
  PROVE  fee'.Req = f.Req /\ fee'.InitGCState = f.InitGCState
  <1> DEFINE Kept(h, g) == g.Req = h.Req /\ g.InitGCState = h.InitGCState
  <1>1. "Req" \in Fields /\ "InitGCState" \in Fields
    BY DEF Fields
  <1>2. ASSUME NEW h, DOMAIN h = Fields, GcStatePage(h) PROVE Kept(h, fee')
    BY <1>1, <1>2 DEF GcStatePage, Continue, Start, GcFail
  <1>3. ASSUME NEW h, DOMAIN h = Fields, NEW b, GcCopyWrite(h, b) PROVE Kept(h, fee')
    BY <1>1, <1>3 DEF GcCopyWrite, Continue, Start, GcFail
  <1>4. ASSUME NEW h, DOMAIN h = Fields, GcStartCopy(h) PROVE Kept(h, fee')
    <2> DEFINE again == ToCopy(h, h.GcCopyIndex) = {} /\ h.BlkModified
               g == IF again THEN [h EXCEPT !.BlkModified = FALSE] ELSE h
               p == [g EXCEPT !.GcState = "V_SP", !.IntrJobFailCount = 0,
                              !.GcCopyIndex = NBlocks,
                              !.GcDest = IF IsWLBeginning(@) THEN @ ELSE NextWL(@)]
    <2>1. (\E b : GcCopyWrite(g, b)) \/ GcStatePage(p)
      BY <1>4 DEF GcStartCopy
    <2>2. DOMAIN g = Fields /\ Kept(h, g) /\ DOMAIN p = Fields /\ Kept(h, p)
      BY <1>1, <1>4
    <2> HIDE DEF g, p
    <2> QED
      BY <1>2, <1>3, <2>1, <2>2
  <1>5. CASE f.GcState = "REQUESTED"
    <2>1. GcStartCopy(GcRequested(f))
      BY <1>5 DEF GcStart
    <2>2. DOMAIN GcRequested(f) = Fields /\ Kept(f, GcRequested(f))
      BY <1>1 DEF GcRequested
    <2> QED
      BY <1>4, <2>1, <2>2
  <1>6. CASE f.GcState = "START_COPY"
    BY <1>4, <1>6 DEF GcStart
  <1>7. CASE f.GcState \in {"V_SP", "E_SP"}
    BY <1>2, <1>7 DEF GcStart
  <1>8. CASE f.GcState \notin {"REQUESTED", "START_COPY", "V_SP", "E_SP"}
    BY <1>8 DEF GcStart, Start, Continue
  <1> QED
    BY <1>5, <1>6, <1>7, <1>8

\* A collection leaves the request alone or drops it.
LEMMA GcRequest ==
  ASSUME NEW f, Inv(flash, f, NoJob), GarbageCollection(f)
  PROVE  fee'.Req \in {f.Req, NoReq, StuckReq} /\ fee'.InitGCState = f.InitGCState
  <1> DEFINE h == [f EXCEPT !.IntrJob = "IDLE"]
             g == GcResult(h, TRUE)
  <1>1. f.MainJob = "GC" /\ "Req" \in Fields /\ "InitGCState" \in Fields
    BY DEF GarbageCollection, Fields
  <1>2. DOMAIN f = Fields
    BY <1>1, GcFacts DEF IsFee
  <1>3. CASE f.IntrJob = "IDLE"
    <2>1. GcStart(f)
      BY <1>3 DEF GarbageCollection
    <2> QED
      BY <1>2, <2>1, GcStartRequest
  <1>4. CASE f.IntrJob # "IDLE"
    <2>1. GoesTo(f, h, g)
      BY <1>4, GcResults
    <2> HIDE DEF h, g
    <2>2. /\ f.GcState \in Busy /\ DOMAIN h = Fields /\ h.Req = f.Req
          /\ h.InitGCState = f.InitGCState
      BY <2>1 DEF GoesTo, Fields
    <2>3. DOMAIN g = Fields /\ g.Req \in {h.Req, NoReq, StuckReq}
          /\ g.InitGCState = h.InitGCState
      <3>1. CASE f.GcState = "COPY_WRITE"
        BY <1>1, <2>1, <2>2, <3>1 DEF GoesTo, CopyDone
      <3>2. CASE f.GcState \in {"V_SP", "E_SP"}
        BY <1>1, <2>1, <2>2, <3>2 DEF GoesTo
      <3>3. CASE f.GcState = "ERASE"
        BY <1>1, <2>1, <2>2, <3>3 DEF GoesTo, EraseDone
      <3>4. CASE f.GcState = "E_M"
        BY <1>1, <2>1, <2>2, <3>4 DEF GoesTo, OldSectorErased
      <3>5. CASE f.GcState = "V_M"
        <4> DEFINE s == Other(h.CurrSector)
                   n == [h EXCEPT !.IntrJobFailCount = 0, !.CurrSector = s,
                                  !.StatePageAddr[s] = h.GcDest,
                                  !.NextFreeWL[s] = NextWL(h.GcDest),
                                  !.NextFreePage = NextWL(h.GcDest)]
                   checked == IF Requested(n) THEN CurrBlkCheck(n) ELSE n
        <4>1. g = NewSectorValid(h)
          BY <2>1, <3>5 DEF GoesTo
        <4>2. DOMAIN n = Fields /\ n.Req = h.Req /\ n.InitGCState = h.InitGCState
          BY <1>1, <2>2
        <4>3. \/ g = [GcFail(n) EXCEPT !.Req = StuckReq]
              \/ g = [GcFail(checked) EXCEPT !.Req = NoReq]
              \/ g = [checked EXCEPT !.GcDest = 0, !.GcState = "ERASE", !.GcInit = FALSE]
          BY <4>1 DEF NewSectorValid
        <4> HIDE DEF n
        <4>4. DOMAIN checked = Fields /\ checked.Req = h.Req
              /\ checked.InitGCState = h.InitGCState
          BY <1>1, <4>2 DEF CurrBlkCheck
        <4> HIDE DEF checked
        <4> QED
          BY <1>1, <4>2, <4>3, <4>4 DEF GcFail
      <3> QED
        BY <2>2, <3>1, <3>2, <3>3, <3>4, <3>5 DEF Busy
    <2> QED
      BY <2>1, <2>2, <2>3, GcStartRequest DEF GoesTo, Continue
  <1> QED
    BY <1>3, <1>4

-----------------------------------------------------------------------------
(* The store the user sees.                                                 *)

\* A request as the user sees it, at each of its stages.
LEMMA UserRequestFacts ==
  ASSUME NEW r \in Requests \cup {NoReq}, NEW v
  PROVE  /\ r = NoReq => UserRequest(r, v) = NoReq
         /\ r # NoReq /\ r.stage = "stuck" => UserRequest(r, v) = NoReq
         /\ r # NoReq /\ r.stage = "toRead" =>
              UserRequest(r, v) = [kind |-> "read", blk |-> r.blk, val |-> NoValue]
         /\ r # NoReq /\ r.stage = "reading" =>
              UserRequest(r, v) = [kind |-> "answer", blk |-> r.blk, val |-> v]
         /\ r # NoReq /\ r.stage \in {"request", "compare"} =>
              UserRequest(r, v) = [kind |-> "write", blk |-> r.blk, val |-> r.val]
  BY DEF UserRequest

\* What it sees is a request.
LEMMA UserRequestsFacts ==
  ASSUME NEW k \in {"write", "read", "answer"}, NEW b \in Blocks,
         NEW v \in Values \cup {NoValue}
  PROVE  /\ [kind |-> k, blk |-> b, val |-> v] # NoReq
         /\ [kind |-> k, blk |-> b, val |-> v].kind = k
         /\ [kind |-> k, blk |-> b, val |-> v].blk = b
         /\ [kind |-> k, blk |-> b, val |-> v].val = v
  BY FeeNulls DEF UserRequests

\* Only the answer to a read depends on the flash.
LEMMA AnswerOnly ==
  ASSUME NEW r \in Requests \cup {NoReq}, NEW v, NEW w,
         r # NoReq => r.stage \in {"request", "toRead", "compare", "stuck"}
  PROVE  UserRequest(r, v) = UserRequest(r, w)
  BY UserRequestFacts

\* A step that changes nothing the user sees.
LEMMA StoreSame ==
  ASSUME PendingRequest' = PendingRequest, UNCHANGED <<recovered, doubt>>
  PROVE  UNCHANGED Store!vars
  BY DEF Store!vars

\* A step that ends a request and changes nothing else.
LEMMA StoreDrop ==
  ASSUME PendingRequest' = NoReq, UNCHANGED <<recovered, doubt>>
  PROVE  [Store!Next]_(Store!vars)
  <1>1. CASE PendingRequest = NoReq
    BY <1>1, StoreSame
  <1>2. CASE PendingRequest # NoReq
    BY <1>2 DEF Store!Next, Store!Drop
  <1> QED
    BY <1>1, <1>2

\* A request that is not being read, and stays or is dropped.
LEMMA SameRequest ==
  ASSUME fee.Req \in Requests \cup {NoReq},
         fee.Req # NoReq => fee.Req.stage \in {"request", "toRead", "compare", "stuck"},
         fee'.Req \in {fee.Req, NoReq, StuckReq},
         UNCHANGED <<recovered, doubt>>
  PROVE  [Store!Next]_(Store!vars)
  <1> DEFINE v == flash[job.sector][job.addr].val
             w == flash'[job'.sector][job'.addr].val
  <1>1. PendingRequest = UserRequest(fee.Req, v) /\ PendingRequest' = UserRequest(fee'.Req, w)
    BY DEF PendingRequest
  <1> HIDE DEF v, w
  <1>2. CASE fee'.Req = fee.Req
    <2>1. PendingRequest' = PendingRequest
      BY <1>1, <1>2, AnswerOnly
    <2> QED
      BY <2>1, StoreSame
  <1>3. CASE fee'.Req \in {NoReq, StuckReq}
    <2>1. StuckReq \in Requests /\ StuckReq.stage = "stuck"
      BY SlotFacts DEF StuckReq, Requests
    <2>2. PendingRequest' = NoReq
      BY <1>1, <1>3, <2>1, UserRequestFacts
    <2> QED
      BY <2>2, StoreDrop
  <1> QED
    BY <1>2, <1>3

\* The value that is being written is found as soon as it is programmed.
LEMMA LandedIsRecovered ==
  ASSUME NEW f, Inv(flash, f, NoJob), Landed(f, NoJob)
  PROVE  f.Req.blk \in Blocks /\ Recovered(flash)[f.Req.blk] = f.Req.val
  <1> DEFINE s == Cur(f)
             d == f.NextFreePage
             b == f.Req.blk
             c == BlockCopy(f.Req.blk, f.Req.val)
             own == Ack(flash, f, NoJob)
  <1>1. /\ d \in Slots /\ c.kind = "copy" /\ c.blk = b /\ c.val = f.Req.val /\ b \in Blocks
        /\ own \in [Slots -> Cells] /\ BlankFrom(own, d)
        /\ flash[s] = [own EXCEPT ![d] = c]
        /\ s \in Sectors /\ flash[s] \in [Slots -> Cells]
    BY AckCells
  <1>2. FlashOk(flash) /\ MainInv(f, NoJob) /\ UserInv(flash, f, NoJob)
        /\ GcInv(flash, f, NoJob)
    BY DEF Inv
  <1>3. Governs(flash, s)
    BY <1>2 DEF MainInv, UserInv, GcInv, Landed
  <1> HIDE DEF own, c
  <1>4. flash[s][d] = c /\ \A p \in Slots : p # d => flash[s][p] = own[p]
    BY <1>1
  <1>5. Latest(flash[s], b) = f.Req.val
    <2> DEFINE cells == flash[s]
    <2>1. cells \in [Slots -> Cells] /\ cells[d].kind = "copy" /\ cells[d].blk = b
          /\ cells[d].val = f.Req.val /\ \A p \in Slots : p # d => cells[p] = own[p]
      BY <1>1, <1>4
    <2>2. d \in Slots /\ b \in Blocks /\ own \in [Slots -> Cells] /\ BlankFrom(own, d)
      BY <1>1
    <2> HIDE DEF cells, s, d, b
    <2>3. Latest(cells, b) = cells[d].val
      BY <2>1, <2>2, NewCopy
    <2> QED
      BY <2>1, <2>3 DEF cells
  <1>6. Recovered(flash)[b] = Latest(flash[s], b)
    BY <1>1, <1>2, <1>3, RecoveredValues
  <1> QED
    BY <1>1, <1>5, <1>6

-----------------------------------------------------------------------------
(* Each step is one of the store or none.                                   *)

\* A read request becomes its answer.
LEMMA Answered ==
  ASSUME NEW b, NEW v
  PROVE  [[kind |-> "read", blk |-> b, val |-> NoValue] EXCEPT !.kind = "answer", !.val = v]
           = [kind |-> "answer", blk |-> b, val |-> v]
  <1> DEFINE r == [kind |-> "read", blk |-> b, val |-> NoValue]
             g == [r EXCEPT !.kind = "answer", !.val = v]
             w == [kind |-> "answer", blk |-> b, val |-> v]
  <1>1. DOMAIN g = {"kind", "blk", "val"} /\ DOMAIN w = {"kind", "blk", "val"}
    OBVIOUS
  <1>2. g.kind = "answer" /\ g.blk = b /\ g.val = v
    OBVIOUS
  <1>3. g = [x \in DOMAIN g |-> g[x]] /\ w = [x \in DOMAIN w |-> w[x]]
    OBVIOUS
  <1>4. w.kind = "answer" /\ w.blk = b /\ w.val = v
    OBVIOUS
  <1> HIDE DEF g, w
  <1>5. \A x \in {"kind", "blk", "val"} : g[x] = w[x]
    BY <1>2, <1>4
  <1>6. g = w
    BY <1>1, <1>3, <1>5
  <1> QED
    BY <1>6 DEF g, w

\* A read finds what the cache leads to, or is refused.
LEMMA LocalReadStore ==
  ASSUME Inv(flash, fee, job), DoubtInv, NEW f, f.Req = fee.Req, f.Cache = fee.Cache,
         f.CacheUpdated = fee.CacheUpdated,
         Inv(flash, f, NoJob), job = NoJob, Stage(f, "toRead"), LocalRead(f),
         UNCHANGED <<flash, recovered>>
  PROVE  [Store!Next]_(Store!vars)
  <1> DEFINE b == f.Req.blk
             at == f.Cache[b]
             v == Content(at)
  <1>1. IsFee(f) /\ f.CacheUpdated /\ UNCHANGED doubt
    BY DEF Inv, MainInv, LocalRead
  <1>2. f.Req \in Requests /\ f.Req # NoReq /\ b \in Blocks /\ f.Req.stage = "toRead"
    BY <1>1, RequestFacts DEF IsFee, Stage
  <1>3. PendingRequest = [kind |-> "read", blk |-> b, val |-> NoValue]
    BY <1>2, UserRequestFacts DEF PendingRequest
  <1>4. v \in {recovered[b]} \cup doubt[b]
    BY <1>1, <1>2, CacheShows DEF CacheShowsStore
  <1>5. CASE v = NoValue /\ Continue([f EXCEPT !.Req = NoReq])
    <2>1. fee'.Req = NoReq
      BY <1>1, <1>5 DEF Continue, IsFee, Fields
    <2>2. PendingRequest' = NoReq
      BY <2>1, UserRequestFacts DEF PendingRequest
    <2> QED
      BY <1>1, <2>2, StoreDrop
  <1>6. CASE v # NoValue /\ Start([f EXCEPT !.Req.stage = "reading"], ReadCell(at))
    <2> DEFINE r == [f.Req EXCEPT !.stage = "reading"]
    <2>1. fee'.Req = r
      BY <1>1, <1>6 DEF Start, IsFee, Fields
    <2>2. r \in Requests /\ r # NoReq /\ r.stage = "reading" /\ r.blk = b
      BY <1>2, RequestFacts
    <2>3. job'.sector = at.sector /\ job'.addr = at.slot
      BY <1>6 DEF Start, ReadCell
    <2>4. v = flash[at.sector][at.slot].val
      BY <1>6 DEF Content
    <2> HIDE DEF r, v, b
    <2>5. PendingRequest' = [kind |-> "answer", blk |-> b, val |-> v]
      <3>1. PendingRequest' = UserRequest(r, v)
        BY <2>1, <2>3, <2>4 DEF PendingRequest
      <3> QED
        BY <2>2, <3>1, UserRequestFacts
    <2>6. PendingRequest # NoReq /\ PendingRequest.kind = "read" /\ PendingRequest.blk = b
      BY <1>2, <1>3, UserRequestsFacts
    <2>7. PendingRequest' = [PendingRequest EXCEPT !.kind = "answer", !.val = v]
      <3> DEFINE r0 == [kind |-> "read", blk |-> b, val |-> NoValue]
      <3>1. [r0 EXCEPT !.kind = "answer", !.val = v] = [kind |-> "answer", blk |-> b, val |-> v]
        BY Answered
      <3> HIDE DEF r0
      <3> QED
        BY <1>3, <2>5, <3>1 DEF r0
    <2>8. v \in ({recovered[b]} \cup doubt[b]) \ {NoValue}
      BY <1>4, <1>6
    <2>9. Store!Fetch
      BY <1>1, <2>6, <2>7, <2>8 DEF Store!Fetch, Store!Pending
    <2> QED
      BY <2>9 DEF Store!Next
  <1> QED
    BY <1>5, <1>6 DEF LocalRead

\* A write is acknowledged, or goes on.
LEMMA LocalWriteStore ==
  ASSUME DoubtInv, NEW f, f.Req = fee.Req, f.Req # NoReq,
         Inv(flash, f, NoJob), job = NoJob, LocalWrite(f), UNCHANGED <<flash, recovered>>
  PROVE  [Store!Next]_(Store!vars)
  <1> DEFINE h == [f EXCEPT !.UserJob = "IDLE"]
             passed == f.UserJob = "PASS"
             b == f.Req.blk
  <1>1. IsFee(f) /\ UserInv(flash, f, NoJob) /\ ~Stage(f, "reading")
    BY DEF Inv, UserInv, Reads, IsJob
  <1>2. f.Req \in Requests /\ f.Req.stage \in {"request", "toRead", "compare", "stuck"}
        /\ b \in Blocks
    BY <1>1, RequestFacts DEF UserInv, IsFee, Stage
  <1>3. /\ f.Req.stage = "request" => WriteCopy(h)
        /\ f.Req.stage = "compare" => WriteCompare(h, passed)
        /\ f.Req.stage \notin {"request", "compare", "recopy"} => Continue(h)
        /\ doubt' = IF f.Req.stage = "compare" /\ passed
                    THEN [doubt EXCEPT ![b] = {}] ELSE doubt
    BY DEF LocalWrite
  <1>4. DOMAIN h = Fields /\ h.Req = f.Req /\ h.NextFreePage = f.NextFreePage
    BY <1>1 DEF IsFee, Fields
  <1> HIDE DEF h
  <1>5. CASE f.Req.stage = "request"
    <2> DEFINE c == CurrBlkCheck(h)
               r == [f.Req EXCEPT !.stage = "compare"]
               g == [c EXCEPT !.Req.stage = "compare"]
    <2>1. DOMAIN c = Fields /\ c.Req = f.Req
      BY <1>4 DEF CurrBlkCheck, Fields
    <2>2. fee' = c \/ fee' = g
      BY <1>3, <1>5 DEF WriteCopy, Start, Continue
    <2> HIDE DEF c
    <2>3. g.Req = r
      BY <2>1 DEF Fields
    <2>4. r \in Requests /\ r # NoReq /\ r.stage = "compare" /\ r.blk = b /\ r.val = f.Req.val
      BY <1>2, RequestFacts
    <2> HIDE DEF g, r, b
    <2>5. fee'.Req \in {f.Req, r}
      BY <2>1, <2>2, <2>3
    <2>6. \A v : UserRequest(r, v) = [kind |-> "write", blk |-> b, val |-> f.Req.val]
      BY <2>4, UserRequestFacts
    <2>7. \A v : UserRequest(f.Req, v) = [kind |-> "write", blk |-> b, val |-> f.Req.val]
      BY <1>2, <1>5, UserRequestFacts DEF b
    <2>8. PendingRequest' = PendingRequest
      BY <2>5, <2>6, <2>7 DEF PendingRequest
    <2> QED
      BY <1>3, <1>5, <2>8, StoreSame
  <1>6. CASE f.Req.stage = "compare"
    <2>1. Landed(f, NoJob)
      BY <1>6 DEF Landed, Stage
    <2>2. passed
      BY <1>1, <2>1 DEF UserInv, Landed, Programs, IsJob
    <2>3. fee' = WriteDone(h)
      BY <1>3, <1>6, <2>2 DEF WriteCompare, Continue
    <2>4. fee'.Req = NoReq
      BY <1>4, <2>3 DEF WriteDone, Cached, Fields
    <2>5. PendingRequest' = NoReq
      BY <2>4, UserRequestFacts DEF PendingRequest
    <2>6. PendingRequest = [kind |-> "write", blk |-> b, val |-> f.Req.val]
      BY <1>2, <1>6, UserRequestFacts DEF PendingRequest
    <2>7. f.Req.val \in Values \cup {NoValue}
      BY <1>2, RequestFacts
    <2>8. recovered[b] = f.Req.val
      BY <2>1, LandedIsRecovered DEF DoubtInv
    <2>9. doubt' = [doubt EXCEPT ![b] = {}]
      BY <1>3, <1>6, <2>2
    <2> HIDE DEF b
    <2>10. /\ PendingRequest # NoReq /\ PendingRequest.kind = "write"
           /\ PendingRequest.blk = b /\ PendingRequest.val = f.Req.val
      BY <1>2, <2>6, <2>7, UserRequestsFacts
    <2>11. Store!Acknowledge
      BY <2>5, <2>8, <2>9, <2>10 DEF Store!Acknowledge, Store!Pending
    <2> QED
      BY <2>11 DEF Store!Next
  <1>7. CASE f.Req.stage \in {"toRead", "stuck"}
    <2>1. fee'.Req = f.Req /\ UNCHANGED doubt
      BY <1>3, <1>4, <1>7 DEF Continue
    <2> QED
      BY <1>2, <2>1, SameRequest
  <1> QED
    BY <1>2, <1>5, <1>6, <1>7

\* A call of the main function.
LEMMA MainFunctionStore ==
  ASSUME IInv, MainFunction
  PROVE  [Store!Next]_(Store!vars)
  <1> DEFINE f == DecideMainJob(fee)
  <1>1. /\ Inv(flash, fee, job) /\ DoubtInv /\ UNCHANGED <<flash, recovered>>
        /\ fee.Req \in Requests \cup {NoReq}
    BY DEF IInv, MainFunction, Inv, IsFee
  <1>2. /\ Inv(flash, f, job)
        /\ \A x \in Fields \ {"MainJob", "NextFreePage", "GcState"} : f[x] = fee[x]
        /\ f.MainJob \in {"READ", "WRITE"} => f.Req # NoReq
        /\ f.MainJob = "READ" /\ job = NoJob => Stage(f, "toRead")
    BY <1>1, DecideStep
  <1>3. \/ Continue(f) /\ UNCHANGED doubt
        \/ job = NoJob /\ (InitGC(f) \/ UpdateCache(f) \/ LocalRead(f) \/ LocalWrite(f)
                           \/ GarbageCollection(f))
    BY DEF MainFunction
  <1> HIDE DEF f
  <1>4. f.Req = fee.Req /\ f.Cache = fee.Cache /\ f.CacheUpdated = fee.CacheUpdated
    BY <1>2 DEF Fields
  <1>5. CASE Continue(f) /\ UNCHANGED doubt
    <2>1. fee'.Req = fee.Req /\ job' = job /\ flash' = flash
      BY <1>1, <1>4, <1>5 DEF Continue
    <2>2. PendingRequest' = PendingRequest
      BY <2>1 DEF PendingRequest
    <2> QED
      BY <1>1, <1>5, <2>2, StoreSame
  <1>6. CASE job = NoJob /\ (InitGC(f) \/ UpdateCache(f) \/ LocalRead(f) \/ LocalWrite(f)
                             \/ GarbageCollection(f))
    <2>1. Inv(flash, f, NoJob)
      BY <1>2, <1>6
    <2>2. fee.Req # NoReq => fee.Req.stage \in {"request", "toRead", "compare", "stuck"}
      BY <1>4, <2>1 DEF Inv, UserInv, Stage, Reads, IsJob
    <2>3. CASE InitGC(f)
      <3>1. fee'.Req = fee.Req /\ UNCHANGED doubt
        BY <1>4, <2>1, <2>3, InitGCRequest DEF InitGC
      <3> QED
        BY <1>1, <2>2, <3>1, SameRequest
    <2>4. CASE UpdateCache(f)
      <3>1. DOMAIN f = Fields
        BY <2>1 DEF Inv, IsFee
      <3>2. fee'.Req = fee.Req /\ UNCHANGED doubt
        BY <1>4, <2>4, <3>1 DEF UpdateCache, Continue, Fields
      <3> QED
        BY <1>1, <2>2, <3>2, SameRequest
    <2>5. CASE LocalRead(f)
      <3>1. Stage(f, "toRead")
        BY <1>2, <1>6, <2>5 DEF LocalRead
      <3> QED
        BY <1>1, <1>4, <1>6, <2>1, <2>5, <3>1, LocalReadStore
    <2>6. CASE LocalWrite(f)
      <3>1. f.Req # NoReq
        BY <1>2, <2>6 DEF LocalWrite
      <3> QED
        BY <1>1, <1>4, <1>6, <2>1, <2>6, <3>1, LocalWriteStore
    <2>7. CASE GarbageCollection(f)
      <3>1. fee'.Req \in {fee.Req, NoReq, StuckReq} /\ UNCHANGED doubt
        BY <1>4, <2>1, <2>7, GcRequest DEF GarbageCollection
      <3> QED
        BY <1>1, <2>2, <3>1, SameRequest
    <2> QED
      BY <1>6, <2>3, <2>4, <2>5, <2>6, <2>7
  <1> QED
    BY <1>3, <1>5, <1>6

\* A write takes effect when its copy has been programmed.
LEMMA CommitStore ==
  ASSUME NEW r \in Requests, r.stage = "compare", fee.Req = r, fee'.Req = r,
         recovered \in [Blocks -> Values \cup {NoValue}],
         recovered' = [recovered EXCEPT ![r.blk] = r.val],
         doubt' = IF recovered' # recovered
                  THEN [doubt EXCEPT ![r.blk] = @ \cup {recovered[r.blk], recovered'[r.blk]}]
                  ELSE doubt
  PROVE  [Store!Next]_(Store!vars)
  <1> DEFINE b == r.blk
             v == r.val
  <1>1. b \in Blocks /\ v \in Values \cup {NoValue} /\ r # NoReq
    BY RequestFacts
  <1>2. \A x : UserRequest(r, x) = [kind |-> "write", blk |-> b, val |-> v]
    BY <1>1, UserRequestFacts
  <1>3. PendingRequest = [kind |-> "write", blk |-> b, val |-> v]
        /\ PendingRequest' = [kind |-> "write", blk |-> b, val |-> v]
    BY <1>2 DEF PendingRequest
  <1>4. recovered'[b] = v /\ recovered' = [recovered EXCEPT ![b] = v]
    BY <1>1
  <1> HIDE DEF b, v
  <1>5. /\ PendingRequest # NoReq /\ PendingRequest.kind = "write"
        /\ PendingRequest.blk = b /\ PendingRequest.val = v
    BY <1>1, <1>3, UserRequestsFacts
  <1>6. CASE recovered' = recovered
    <2>1. UNCHANGED <<recovered, doubt>>
      BY <1>6
    <2> QED
      BY <1>3, <2>1, StoreSame
  <1>7. CASE recovered' # recovered
    <2>1. doubt' = [doubt EXCEPT ![b] = @ \cup {recovered[b], v}]
      BY <1>4, <1>7 DEF b
    <2>2. Store!Commit
      BY <1>3, <1>4, <1>5, <2>1 DEF Store!Commit, Store!Pending
    <2> QED
      BY <2>2 DEF Store!Next
  <1> QED
    BY <1>6, <1>7

\* The end of a flash job: of a read, of the user's copy, of any other.
LEMMA JobEndStore ==
  ASSUME IInv, JobEndNotification
  PROVE  [Store!Next]_(Store!vars)
  <1> DEFINE r == fee.Req
             new == After(flash, job.sector, Finished(job))
  <1>1. /\ Inv(flash, fee, job) /\ DoubtInv /\ job # NoJob /\ job' = NoJob
        /\ flash' = new
        /\ fee' = CASE job.op = "read" -> [fee EXCEPT !.Req = NoReq]
                    [] job.op # "read" /\ job.owner = "user" -> [fee EXCEPT !.UserJob = "PASS"]
                    [] OTHER -> [fee EXCEPT !.IntrJob = "PASS"]
        /\ recovered' = Recovered(flash') /\ doubt' = NewDoubt
        /\ FlashOk(flash) /\ IsFee(fee) /\ UserInv(flash, fee, job)
        /\ recovered = Recovered(flash)
    BY DEF IInv, Inv, JobEndNotification, JobEnd, After, DoubtInv
  <1>2. Finished(job) \in Partial(job)
    BY <1>1, JobsAreSafe, FinishedIsPartial
  <1>3. \/ recovered' = recovered
        \/ /\ ~IntrRuns(job) /\ Stage(fee, "compare")
           /\ recovered' = [recovered EXCEPT ![r.blk] = r.val]
    <2>1. \/ Recovered(new) = Recovered(flash)
          \/ /\ ~IntrRuns(job) /\ Stage(fee, "compare")
             /\ Recovered(new) = [Recovered(flash) EXCEPT ![r.blk] = r.val]
      BY <1>1, <1>2, RecoveredAfter
    <2> QED
      BY <1>1, <2>1
  <1> HIDE DEF new
  <1>4. r \in Requests \cup {NoReq}
        /\ (r # NoReq => r.stage \in {"request", "toRead", "reading", "compare", "stuck"})
    BY <1>1 DEF IsFee, UserInv
  <1>5. CASE ~IntrRuns(job) /\ Stage(fee, "compare")
    <2>1. job.op = "program" /\ job.owner = "user"
      BY <1>1, <1>5 DEF UserInv, Programs, IsJob
    <2>2. fee'.Req = r
      BY <1>1, <2>1 DEF IsFee, Fields
    <2>3. r \in Requests /\ r.stage = "compare"
      BY <1>4, <1>5 DEF Stage
    <2>4. recovered \in [Blocks -> Values \cup {NoValue}]
      BY <1>1, RecoveredValues
    <2>5. doubt' = IF recovered' # recovered
                   THEN [doubt EXCEPT ![r.blk] = @ \cup {recovered[r.blk], recovered'[r.blk]}]
                   ELSE doubt
      BY <1>1, <2>1, <2>3 DEF NewDoubt
    <2>6. CASE recovered' = recovered
      <3>1. UNCHANGED <<recovered, doubt>>
        BY <2>5, <2>6
      <3>2. fee'.Req \in {fee.Req, NoReq, StuckReq} /\ fee.Req.stage = "compare"
        BY <2>2, <2>3
      <3> QED
        BY <1>4, <3>1, <3>2, SameRequest
    <2>7. CASE recovered' = [recovered EXCEPT ![r.blk] = r.val]
      <3> HIDE DEF r
      <3>1. fee.Req = r
        BY DEF r
      <3> QED
        BY <2>2, <2>3, <2>4, <2>5, <2>7, <3>1, CommitStore
    <2> QED
      BY <1>3, <2>6, <2>7
  <1>6. CASE ~(~IntrRuns(job) /\ Stage(fee, "compare"))
    <2>1. recovered' = recovered
      BY <1>3, <1>6
    <2>2. doubt' = doubt
      BY <1>1, <2>1 DEF NewDoubt
    <2>3. CASE Stage(fee, "reading")
      <3>1. job.op = "read"
        BY <1>1, <2>3 DEF UserInv, Reads, IsJob
      <3>2. fee'.Req = NoReq
        BY <1>1, <3>1 DEF IsFee, Fields
      <3>3. PendingRequest' = NoReq
        BY <3>2, UserRequestFacts DEF PendingRequest
      <3> QED
        BY <2>1, <2>2, <3>3, StoreDrop
    <2>4. CASE ~Stage(fee, "reading")
      <3>1. fee'.Req \in {r, NoReq}
        BY <1>1 DEF IsFee, Fields
      <3>2. r # NoReq => r.stage \in {"request", "toRead", "compare", "stuck"}
        BY <1>4, <2>4 DEF Stage
      <3> QED
        BY <1>4, <2>1, <2>2, <3>1, <3>2, SameRequest
    <2> QED
      BY <2>3, <2>4
  <1> QED
    BY <1>5, <1>6

\* A request is accepted.
LEMMA AcceptStore ==
  ASSUME NEW r \in Requests, fee.Req = NoReq, fee'.Req = r,
         r.stage = "request" \/ (r.stage = "toRead"),
         UNCHANGED <<recovered, doubt>>
  PROVE  [Store!Next]_(Store!vars)
  <1> DEFINE b == r.blk
             v == r.val
  <1>1. b \in Blocks /\ v \in Values \cup {NoValue} /\ r # NoReq
    BY RequestFacts
  <1>2. PendingRequest = NoReq
    BY UserRequestFacts DEF PendingRequest
  <1>3. PendingRequest' \in {[kind |-> "write", blk |-> b, val |-> v],
                             [kind |-> "read", blk |-> b, val |-> NoValue]}
    BY <1>1, UserRequestFacts DEF PendingRequest
  <1> HIDE DEF b, v
  <1>4. Store!Accept(b, v)
    BY <1>2, <1>3 DEF Store!Accept
  <1> QED
    BY <1>1, <1>4 DEF Store!Next

\* Fee_Read is an accepted read.
LEMMA ReadStore ==
  ASSUME IInv, NEW b \in Blocks, Read(b)
  PROVE  [Store!Next]_(Store!vars)
  <1> DEFINE r == [blk |-> b, val |-> NoValue, invalidate |-> FALSE, stage |-> "toRead"]
  <1>1. r \in Requests /\ r.stage = "toRead"
    BY DEF Requests
  <1>2. fee.Req = NoReq /\ fee'.Req = r /\ UNCHANGED <<recovered, doubt>>
    BY DEF Read, IInv, Inv, IsFee, Fields
  <1> HIDE DEF r
  <1> QED
    BY <1>1, <1>2, AcceptStore

\* Fee_Write and Fee_InvalidateBlock are accepted writes.
LEMMA WriteStore ==
  ASSUME IInv, NEW b \in Blocks, Write(b) \/ InvalidateBlock(b)
  PROVE  [Store!Next]_(Store!vars)
  <1>1. ASSUME NEW v \in Values \cup {NoValue}, NEW i \in BOOLEAN, NewRequest(b, v, i),
               fee.Req = NoReq, UNCHANGED <<recovered, doubt>>
        PROVE  [Store!Next]_(Store!vars)
    <2> DEFINE r == [blk |-> b, val |-> v, invalidate |-> i, stage |-> "request"]
    <2>1. r \in Requests /\ r.stage = "request"
      BY DEF Requests
    <2>2. fee'.Req = r
      BY <1>1 DEF NewRequest, IInv, Inv, IsFee, Fields
    <2> HIDE DEF r
    <2> QED
      BY <1>1, <2>1, <2>2, AcceptStore
  <1>2. CASE Write(b)
    <2>1. writes \in Nat /\ MaxWrites \in Nat /\ writes < MaxWrites
      BY <1>2, FeeConstants DEF IInv, Write
    <2>2. writes + 1 \in Values \cup {NoValue}
      BY <2>1 DEF Values
    <2>3. NewRequest(b, writes + 1, FALSE) /\ fee.Req = NoReq /\ UNCHANGED <<recovered, doubt>>
      BY <1>2 DEF Write
    <2> QED
      BY <1>1, <2>2, <2>3
  <1>3. CASE InvalidateBlock(b)
    BY <1>1, <1>3 DEF InvalidateBlock
  <1> QED
    BY <1>2, <1>3

\* Fee_Cancel drops the request.
LEMMA CancelStore ==
  ASSUME IInv, Cancel
  PROVE  [Store!Next]_(Store!vars)
  <1>1. fee'.Req = NoReq /\ UNCHANGED <<recovered, doubt>>
    BY DEF Cancel, IInv, Inv, IsFee, Fields
  <1>2. PendingRequest' = NoReq
    BY <1>1, UserRequestFacts DEF PendingRequest
  <1> QED
    BY <1>1, <1>2, StoreDrop

\* A reset leaves the store as it is, or with the value that is being written.
LEMMA ResetStore ==
  ASSUME IInv, Reset
  PROVE  [Store!Next]_(Store!vars)
  <1> DEFINE r == fee.Req
             b == r.blk
             v == r.val
  <1>1. /\ Inv(flash, fee, job) /\ DoubtInv /\ IsFee(fee) /\ FlashOk(flash)
        /\ recovered = Recovered(flash)
        /\ fee' = Boot(flash') /\ recovered' = Recovered(flash')
        /\ doubt' = [x \in Blocks |-> {}]
    BY DEF IInv, Inv, DoubtInv, Reset
  <1>2. FlashOk(flash')
    BY ResetStep DEF IInv, Inv
  <1>3. recovered \in [Blocks -> Values \cup {NoValue}]
        /\ recovered' \in [Blocks -> Values \cup {NoValue}]
    BY <1>1, <1>2, RecoveredValues
  <1>4. fee'.Req = NoReq
    BY <1>1 DEF Boot
  <1>5. PendingRequest' = NoReq
    BY <1>4, UserRequestFacts DEF PendingRequest
  <1>6. \/ recovered' = recovered
        \/ Stage(fee, "compare") /\ recovered' = [recovered EXCEPT ![b] = v]
    <2>1. CASE job = NoJob
      BY <1>1, <2>1 DEF Reset
    <2>2. CASE job # NoJob
      <3>1. PICK cells \in Partial(job) : flash' = [flash EXCEPT ![job.sector] = cells]
        BY <2>2 DEF Reset
      <3> DEFINE new == After(flash, job.sector, cells)
      <3>2. \/ Recovered(new) = Recovered(flash)
            \/ /\ ~IntrRuns(job) /\ Stage(fee, "compare")
               /\ Recovered(new) = [Recovered(flash) EXCEPT ![b] = v]
        BY <1>1, <2>2, RecoveredAfter
      <3>3. flash' = new
        BY <3>1 DEF After
      <3> HIDE DEF new
      <3> QED
        BY <1>1, <3>2, <3>3
    <2> QED
      BY <2>1, <2>2
  <1>7. Stage(fee, "compare") =>
          /\ PendingRequest # NoReq /\ PendingRequest.kind = "write"
          /\ PendingRequest.blk = b /\ PendingRequest.val = v
    <2> SUFFICES ASSUME Stage(fee, "compare")
                 PROVE  /\ PendingRequest # NoReq /\ PendingRequest.kind = "write"
                        /\ PendingRequest.blk = b /\ PendingRequest.val = v
      OBVIOUS
    <2>1. r \in Requests /\ r # NoReq /\ r.stage = "compare"
      BY <1>1 DEF Stage, IsFee
    <2>2. b \in Blocks /\ v \in Values \cup {NoValue}
      BY <2>1, RequestFacts
    <2>3. PendingRequest = [kind |-> "write", blk |-> b, val |-> v]
      BY <2>1, UserRequestFacts DEF PendingRequest
    <2> HIDE DEF b, v
    <2> QED
      BY <2>2, <2>3, UserRequestsFacts
  <1> HIDE DEF b, v
  <1>8. \A x \in Blocks :
          \/ recovered'[x] \in {recovered[x]} \cup doubt[x]
          \/ /\ PendingRequest # NoReq /\ PendingRequest.kind = "write"
             /\ PendingRequest.blk = x /\ recovered'[x] = PendingRequest.val
    <2> SUFFICES ASSUME NEW x \in Blocks, recovered'[x] # recovered[x]
                 PROVE  /\ PendingRequest # NoReq /\ PendingRequest.kind = "write"
                        /\ PendingRequest.blk = x /\ recovered'[x] = PendingRequest.val
      OBVIOUS
    <2>1. Stage(fee, "compare") /\ recovered' = [recovered EXCEPT ![b] = v]
      BY <1>6
    <2>2. x = b /\ recovered'[x] = v
      BY <1>3, <2>1
    <2> QED
      BY <1>7, <2>1, <2>2
  <1>9. Store!Crash
    BY <1>1, <1>3, <1>5, <1>8 DEF Store!Crash, Store!Pending
  <1> QED
    BY <1>9 DEF Store!Next

\* As long as no flash job can fail, the emulation is the store it promises.
THEOREM StoreCorrect == ASSUME MaxFails = 0 PROVE Spec => ImplementsStore
  <1>1. Init => Store!Init
    <2> SUFFICES ASSUME Init PROVE Store!Init
      OBVIOUS
    <2>1. fee.Req = NoReq /\ recovered = Recovered(flash) /\ doubt = [b \in Blocks |-> {}]
      BY DEF Init, Boot
    <2>2. FlashOk(flash)
      BY InitInv DEF IInv, Inv
    <2>3. recovered \in [Blocks -> Values \cup {NoValue}]
      BY <2>1, <2>2, RecoveredValues
    <2>4. PendingRequest = NoReq
      BY <2>1, UserRequestFacts DEF PendingRequest
    <2> QED
      BY <2>1, <2>3, <2>4 DEF Store!Init
  <1>2. Init => fails = 0
    BY DEF Init
  <1>3. fails = 0 /\ [Next]_vars => fails' = 0 /\ ~JobFails
    <2> SUFFICES ASSUME fails = 0, [Next]_vars PROVE fails' = 0 /\ ~JobFails
      OBVIOUS
    <2>1. ~JobFails
      BY DEF JobFails
    <2>2. fails' = fails
      BY <2>1 DEF Next, vars, MainFunction, JobEndNotification, Read, Write,
                  InvalidateBlock, Cancel, Reset
    <2> QED
      BY <2>1, <2>2
  <1>4. fails = 0 /\ FInv /\ [Next]_vars => [Store!Next]_(Store!vars)
    <2> SUFFICES ASSUME fails = 0, IInv, [Next]_vars PROVE [Store!Next]_(Store!vars)
      BY DEF FInv
    <2>1. CASE MainFunction
      BY <2>1, MainFunctionStore
    <2>2. CASE JobEndNotification
      BY <2>2, JobEndStore
    <2>3. CASE JobFails
      BY <1>3, <2>3
    <2>4. ASSUME NEW b \in Blocks, Read(b) \/ Write(b) \/ InvalidateBlock(b)
          PROVE  [Store!Next]_(Store!vars)
      BY <2>4, ReadStore, WriteStore
    <2>5. CASE Cancel
      BY <2>5, CancelStore
    <2>6. CASE Reset
      BY <2>6, ResetStore
    <2>7. CASE UNCHANGED vars
      <3>1. UNCHANGED <<fee, flash, job, recovered, doubt>>
        BY <2>7 DEF vars
      <3>2. PendingRequest' = PendingRequest
        BY <3>1 DEF PendingRequest
      <3> QED
        BY <3>1, <3>2, StoreSame
    <2> QED
      BY <2>1, <2>2, <2>3, <2>4, <2>5, <2>6, <2>7 DEF Next
  <1>5. fails = 0 /\ [Next]_vars => (fails = 0)'
    BY <1>3
  <1> QED
    BY <1>1, <1>2, <1>4, <1>5, FeeInvariant, PTL DEF Spec, ImplementsStore, Store!Spec

-----------------------------------------------------------------------------
(* Why it does not give up.                                                 *)

\* A collection that has copied no block twice has not filled its sector.
LEMMA RoomLeft ==
  ASSUME NEW cells, NEW d \in Nat, CopiesUpTo(cells, d), cells \in [Slots -> Cells],
         ~CopiedTwice(cells), Roomy
  PROVE  d <= PerWL + NBlocks
  <1> DEFINE size == WLs * PerWL
             S == PerWL .. PerWL + NBlocks
             blk == [a \in S |-> cells[a].blk]
  <1>1. /\ PerWL \in Nat /\ NBlocks \in Nat /\ NBlocks > 0 /\ Threshold \in Nat /\ Threshold > 0
        /\ size \in Nat /\ Slots = 0 .. size - 1 /\ PerWL > 0
    BY SlotFacts, FeeConstants
  <1>2. NBlocks + Threshold + 4 * PerWL <= size + 1
    BY DEF Roomy
  <1> HIDE DEF size
  <1>3. S \subseteq Slots
    BY <1>1, <1>2
  <1>4. SUFFICES ASSUME d > PerWL + NBlocks PROVE FALSE
    BY <1>1
  <1>5. \A a \in S : cells[a].kind = "copy" /\ cells[a] \in Cells
    BY <1>1, <1>3, <1>4 DEF CopiesUpTo
  <1>6. \A a \in S : cells[a].blk \in Blocks
    BY <1>5, CellFacts
  <1>7. IsFiniteSet(S) /\ Cardinality(S) = NBlocks + 1
    BY <1>1, FS_Interval
  <1>8. IsFiniteSet(Blocks) /\ Cardinality(Blocks) = NBlocks
    BY <1>1, FS_Interval DEF Blocks
  <1>9. blk \in [S -> Blocks]
    BY <1>6
  <1> HIDE DEF blk
  <1>10. PICK a \in S, p \in S : a # p /\ blk[a] = blk[p]
    <2> HIDE DEF S
    <2>1. Cardinality(Blocks) < Cardinality(S)
      BY <1>1, <1>7, <1>8
    <2> QED
      BY <1>7, <1>8, <1>9, <2>1, FS_PigeonHole
  <1> USE DEF blk
  <1>11. {a, p} \subseteq CopiesOf(cells, cells[a].blk)
    BY <1>3, <1>5, <1>10 DEF CopiesOf
  <1> QED
    BY <1>6, <1>10, <1>11 DEF CopiedTwice

\* What a step of the collection has to show, and the other steps that leave
\* the collection where it is.
StaysAhead(f, g) ==
  /\ FillInv(flash, g)
  /\ g.GcState = "FAIL" /\ f.GcState # "FAIL" /\ Roomy => CopiedTwice(flash[Oth(f)])

GcSame(f, g) ==
  g.GcState \in Copying \cup {"FAIL"} =>
    g.GcState = f.GcState /\ g.GcDest = f.GcDest /\ g.CurrSector = f.CurrSector

LEMMA GcSameStays ==
  ASSUME NEW f, NEW g, FillInv(flash, f), GcSame(f, g)
  PROVE  StaysAhead(f, g)
  BY DEF StaysAhead, GcSame, FillInv, Copying, Oth

\* The next copy, or the VALID page behind the last one.
LEMMA StartCopyStays ==
  ASSUME NEW f, IsFee(f), FlashOk(flash), f.GcState = "START_COPY", FillInv(flash, f),
         GcStartCopy(f)
  PROVE  StaysAhead(f, fee')
  <1> DEFINE again == ToCopy(f, f.GcCopyIndex) = {} /\ f.BlkModified
             h == IF again THEN [f EXCEPT !.BlkModified = FALSE] ELSE f
             d == f.GcDest
             new == IF IsWLBeginning(d) THEN d ELSE NextWL(d)
             p == [h EXCEPT !.GcState = "V_SP", !.IntrJobFailCount = 0,
                            !.GcCopyIndex = NBlocks,
                            !.GcDest = IF IsWLBeginning(@) THEN @ ELSE NextWL(@)]
             cells == flash[Oth(f)]
             size == WLs * PerWL
  <1>1. /\ DOMAIN f = Fields /\ d \in Nat /\ Oth(f) \in Sectors /\ Oth(f) = Other(f.CurrSector)
        /\ cells \in [Slots -> Cells] /\ CopiesUpTo(cells, d)
    BY SlotFacts DEF IsFee, FlashOk, Oth, FillInv
  <1>2. /\ DOMAIN h = Fields /\ h.GcState = f.GcState /\ h.GcDest = d
        /\ h.CurrSector = f.CurrSector
    BY <1>1 DEF Fields
  <1>3. (\E b : GcCopyWrite(h, b)) \/ GcStatePage(p)
    BY DEF GcStartCopy
  <1>4. /\ DOMAIN p = Fields /\ p.GcState = "V_SP" /\ p.GcDest = new
        /\ p.CurrSector = f.CurrSector
    <2> HIDE DEF h
    <2> QED
      BY <1>2 DEF Fields
  <1> HIDE DEF h, p
  <1>5. /\ PerWL \in Nat /\ PerWL > 0 /\ NBlocks \in Nat /\ Threshold \in Nat /\ Threshold > 0
        /\ size \in Nat
    BY SlotFacts, FeeConstants
  <1>6. Roomy => NBlocks + Threshold + 4 * PerWL <= size + 1
    BY DEF Roomy
  <1>7. ~CopiedTwice(cells) /\ Roomy => d <= PerWL + NBlocks
    BY <1>1, RoomLeft
  <1>8. new \in Nat /\ new < d + PerWL
    BY <1>1, <1>5, WordlineFacts
  <1>9. Free(d) \in Nat /\ Free(new) \in Nat /\ Free(d) >= size - d /\ Free(new) >= size - new
    BY <1>1, <1>8, FreeFacts
  <1> HIDE DEF size, new
  <1>10. CASE \E b : GcCopyWrite(h, b)
    <2>1. \/ fee' = GcFail(h) /\ ThresholdCrossed(Free(d), 1)
          \/ /\ fee'.GcState = "COPY_WRITE" /\ fee'.GcDest = d
             /\ fee'.CurrSector = f.CurrSector
      <3>1. PICK b : GcCopyWrite(h, b)
        BY <1>10
      <3> QED
        BY <1>2, <3>1 DEF GcCopyWrite, Continue, Start, Fields
    <2>2. CASE fee' = GcFail(h) /\ ThresholdCrossed(Free(d), 1)
      <3>1. fee'.GcState = "FAIL"
        BY <1>2, <2>2 DEF GcFail, Fields
      <3>2. Free(d) - 1 < Threshold
        BY <2>2 DEF ThresholdCrossed
      <3>3. Roomy => CopiedTwice(cells)
        BY <1>1, <1>5, <1>6, <1>7, <1>9, <3>2
      <3> QED
        BY <3>1, <3>3 DEF StaysAhead, FillInv
    <2>3. CASE /\ fee'.GcState = "COPY_WRITE" /\ fee'.GcDest = d
               /\ fee'.CurrSector = f.CurrSector
      BY <1>1, <2>3 DEF StaysAhead, FillInv, Oth
    <2> QED
      BY <2>1, <2>2, <2>3
  <1>11. CASE GcStatePage(p)
    <2>1. \/ fee' = GcFail(p) /\ Free(new) < PerWL
          \/ /\ fee'.GcState = "V_SP" /\ fee'.GcDest = new
             /\ fee'.CurrSector = f.CurrSector
      BY <1>4, <1>11 DEF GcStatePage, Continue, Start, Fields
    <2>2. CASE fee' = GcFail(p) /\ Free(new) < PerWL
      <3>1. fee'.GcState = "FAIL"
        BY <1>4, <2>2 DEF GcFail, Fields
      <3>2. Roomy => CopiedTwice(cells)
        BY <1>1, <1>5, <1>6, <1>7, <1>8, <1>9, <2>2
      <3> QED
        BY <3>1, <3>2 DEF StaysAhead, FillInv
    <2>3. CASE /\ fee'.GcState = "V_SP" /\ fee'.GcDest = new
               /\ fee'.CurrSector = f.CurrSector
      <3>1. CopiesUpTo(cells, new - PerWL + 1)
        BY <1>1, <1>5, <1>8, SlotFacts DEF CopiesUpTo
      <3> QED
        BY <2>3, <3>1 DEF StaysAhead, FillInv, Oth
    <2> QED
      BY <2>1, <2>2, <2>3
  <1> QED
    BY <1>3, <1>10, <1>11

\* The end of a collection: the VALID page is in the last wordline it needs.
LEMMA NewSectorStays ==
  ASSUME NEW f, Inv(flash, f, NoJob), f.MainJob = "GC", f.GcState = "V_M", f.IntrJob # "IDLE",
         FillInv(flash, f)
  PROVE  StaysAhead(f, NewSectorValid([f EXCEPT !.IntrJob = "IDLE"]))
  <1> DEFINE h == [f EXCEPT !.IntrJob = "IDLE"]
             o == Oth(f)
             d == f.GcDest
             g == NewSectorValid(h)
             n == [h EXCEPT !.IntrJobFailCount = 0, !.CurrSector = o, !.StatePageAddr[o] = d,
                            !.NextFreeWL[o] = NextWL(d), !.NextFreePage = NextWL(d)]
             size == WLs * PerWL
  <1>1. /\ IsFee(f) /\ flash[o] \in [Slots -> Cells] /\ o = Other(f.CurrSector)
        /\ d \in Nat /\ d >= PerWL /\ IsWLBeginning(d)
        /\ CopiesUpTo(flash[o], d - PerWL + 1)
    BY GcFacts DEF GcInv, IsFee, FlashOk, FillInv
  <1>2. h.CurrSector = f.CurrSector /\ h.GcDest = d /\ DOMAIN h = Fields
    BY <1>1 DEF IsFee, Fields
  <1> HIDE DEF h
  <1>3. n.NextFreePage = NextWL(d) /\ DOMAIN n = Fields
    BY <1>2 DEF Fields
  <1>4. \/ ThresholdCrossed(Free(NextWL(d)), PerWL)
        \/ ThresholdCrossed(Free(CheckedPage(n)), 1)
        \/ g.GcState = "ERASE"
    <2>1. \/ ThresholdCrossed(Free(n.NextFreePage), PerWL)
          \/ ~BlkWritable(n)
          \/ \E k : DOMAIN k = Fields /\
               g = [k EXCEPT !.GcDest = 0, !.GcState = "ERASE", !.GcInit = FALSE]
      <3> DEFINE checked == IF Requested(n) THEN CurrBlkCheck(n) ELSE n
      <3>1. DOMAIN checked = Fields
        <4> HIDE DEF n
        <4> QED
          BY <1>3 DEF CurrBlkCheck
      <3>2. \/ ThresholdCrossed(Free(n.NextFreePage), PerWL)
            \/ ~BlkWritable(n)
            \/ g = [checked EXCEPT !.GcDest = 0, !.GcState = "ERASE", !.GcInit = FALSE]
        <4>1. Other(h.CurrSector) = o /\ h.GcDest = d
          BY <1>1, <1>2
        <4> HIDE DEF o, d
        <4> QED
          BY <4>1 DEF NewSectorValid
      <3> HIDE DEF checked
      <3> QED
        BY <3>1, <3>2
    <2> HIDE DEF g, n
    <2> QED
      BY <1>3, <2>1 DEF BlkWritable, Fields
  <1>5. /\ PerWL \in Nat /\ PerWL > 0 /\ NBlocks \in Nat /\ Threshold \in Nat /\ Threshold > 0
        /\ size \in Nat
    BY SlotFacts, FeeConstants
  <1>6. NextWL(d) = d + PerWL /\ IsWLBeginning(NextWL(d)) /\ NextWL(d) \in Nat
    BY <1>1, <1>5, WordlineFacts DEF NextWL
  <1>7. CheckedPage(n) = NextWL(d)
    BY <1>3, <1>6 DEF CheckedPage
  <1>8. Free(NextWL(d)) \in Nat /\ Free(NextWL(d)) >= size - NextWL(d)
    BY <1>6, FreeFacts
  <1> HIDE DEF size, n, g
  <1>9. Roomy => NBlocks + Threshold + 4 * PerWL <= size + 1
    BY DEF Roomy, size
  <1>10. ~CopiedTwice(flash[o]) /\ Roomy => d - PerWL + 1 <= PerWL + NBlocks
    <2>1. d - PerWL + 1 \in Nat
      BY <1>1, <1>5
    <2> QED
      BY <1>1, <2>1, RoomLeft
  <1>11. Roomy /\ ~CopiedTwice(flash[o]) => g.GcState = "ERASE"
    BY <1>1, <1>4, <1>5, <1>6, <1>7, <1>8, <1>9, <1>10 DEF ThresholdCrossed
  <1>12. g.GcState \in {"FAIL", "ERASE"}
    BY NewSectorStep DEF g, h
  <1> QED
    BY <1>11, <1>12 DEF StaysAhead, FillInv, g, h

\* A step of the collection.
LEMMA CollectionStays ==
  ASSUME NEW f, Inv(flash, f, NoJob), FillInv(flash, f), GarbageCollection(f)
  PROVE  StaysAhead(f, fee')
  <1> DEFINE h == [f EXCEPT !.IntrJob = "IDLE"]
             g == GcResult(h, TRUE)
             o == Oth(f)
  <1>1. f.MainJob = "GC"
    BY DEF GarbageCollection
  <1>2. /\ FlashOk(flash) /\ IsFee(f) /\ GcInv(flash, f, NoJob) /\ f.InitGCState = "COMPLETE"
        /\ f.GcDest \in Nat /\ DOMAIN f = Fields
    BY <1>1, GcFacts DEF IsFee
  <1>3. CASE f.IntrJob = "IDLE"
    <2>1. GcStart(f)
      BY <1>3 DEF GarbageCollection
    <2>2. f.GcState \notin {"COPY_WRITE", "V_SP", "V_M", "E_SP", "E_M"}
      BY <1>2, <1>3 DEF GcInv, Busy, GcRunning, Over, Programs, Marks, IsJob
    <2>3. CASE f.GcState = "REQUESTED"
      <3> DEFINE r == GcRequested(f)
      <3>1. IsFee(r) /\ r.GcState = "START_COPY"
        BY <1>1, <2>3, GcRequestedStep DEF Inv
      <3>2. r.CurrSector = f.CurrSector /\ r.GcDest = f.NextFreeWL[o]
        BY <1>2 DEF GcRequested, Fields, Oth
      <3>3. GcStartCopy(r)
        BY <2>1, <2>3 DEF GcStart
      <3> HIDE DEF r
      <3>4. r.GcDest = PerWL /\ Oth(r) = o
        BY <1>2, <2>3, <3>2 DEF GcInv, Oth
      <3>5. FillInv(flash, r)
        BY <3>1, <3>4, SlotFacts DEF FillInv, CopiesUpTo
      <3>6. StaysAhead(r, fee')
        BY <1>2, <3>1, <3>3, <3>5, StartCopyStays
      <3> QED
        BY <3>1, <3>4, <3>6 DEF StaysAhead
    <2>4. CASE f.GcState = "START_COPY"
      <3>1. GcStartCopy(f)
        BY <2>1, <2>4 DEF GcStart
      <3> QED
        BY <1>2, <2>4, <3>1, StartCopyStays
    <2>5. CASE f.GcState \notin {"REQUESTED", "START_COPY"}
      <3>1. fee' = f
        BY <2>1, <2>2, <2>5 DEF GcStart, Start, Continue
      <3> QED
        BY <3>1, GcSameStays DEF GcSame
    <2> QED
      BY <2>3, <2>4, <2>5
  <1>4. CASE f.IntrJob # "IDLE"
    <2>1. GoesTo(f, h, g)
      BY <1>4, GcResults
    <2>2. GcOver(flash, f)
      BY <1>1, <1>4, GcPassed
    <2>3. CASE f.GcState = "V_M"
      <3>1. StaysAhead(f, NewSectorValid(h)) /\ NewSectorValid(h).GcState \in {"FAIL", "ERASE"}
        BY <1>1, <1>4, <2>3, NewSectorStays, NewSectorStep
      <3> HIDE DEF h, g
      <3> QED
        BY <2>1, <2>3, <3>1 DEF GoesTo, GoesOn, Continue
    <2> HIDE DEF h, g
    <2>4. /\ f.GcState \in Busy /\ DOMAIN h = Fields /\ h.GcDest = f.GcDest
          /\ h.CurrSector = f.CurrSector
      BY <2>1 DEF GoesTo, Fields
    <2>5. CASE f.GcState = "COPY_WRITE"
      <3>1. g.GcState = "START_COPY" /\ g.GcDest = f.GcDest + 1 /\ g.CurrSector = f.CurrSector
        <4>1. g = CopyDone(h)
          BY <2>1, <2>5 DEF GoesTo
        <4> QED
          BY <2>4, <4>1 DEF CopyDone, Fields
      <3>2. fee' = g
        BY <2>1, <2>5, <3>1 DEF GoesTo, GoesOn, Continue
      <3>3. flash[o][f.GcDest].kind = "copy"
        <4>1. GcCell(flash, f).kind = "copy"
          BY <1>2, <2>5, GcCopyCell
        <4> QED
          BY <2>2, <2>5, <4>1 DEF GcOver
      <3>4. CopiesUpTo(flash[o], f.GcDest + 1)
        BY <1>2, <2>5, <3>3, SlotFacts DEF FillInv, CopiesUpTo
      <3> QED
        BY <3>1, <3>2, <3>4 DEF StaysAhead, FillInv, Oth
    <2>6. CASE f.GcState \in {"V_SP", "E_SP"}
      <3> DEFINE m == IF f.GcState = "V_SP" THEN "V_M" ELSE "E_M"
      <3>1. g.GcState = m /\ g.GcDest = f.GcDest /\ g.CurrSector = f.CurrSector
        BY <2>1, <2>4, <2>6 DEF GoesTo, Fields
      <3>2. fee' = g
        BY <2>1, <2>6, <3>1 DEF GoesTo, GoesOn, GcStart, Start
      <3> QED
        BY <2>6, <3>1, <3>2 DEF StaysAhead, FillInv, Oth
    <2>7. CASE f.GcState = "ERASE"
      <3>1. g.GcState = "E_SP" /\ g.GcDest = 0 /\ DOMAIN g = Fields
        BY <1>2, <2>1, <2>4, <2>7 DEF GoesTo, EraseDone, Fields, GcInv
      <3>2. GcStatePage(g)
        BY <2>1, <2>7, <3>1 DEF GoesTo, GoesOn, GcStart
      <3>3. ~(Free(0) < PerWL)
        <4> DEFINE size == WLs * PerWL
        <4>1. /\ PerWL \in 0 .. size - 1 /\ Free(0) >= size - 0 /\ size \in Nat
              /\ Free(0) \in Nat
          BY <1>2, FreeFacts, SlotFacts DEF FlashOk
        <4> HIDE DEF size
        <4> QED
          BY <4>1
      <3>4. fee'.GcState = "E_SP"
        BY <3>1, <3>2, <3>3 DEF GcStatePage, Start, Fields
      <3> QED
        BY <3>4 DEF StaysAhead, FillInv
    <2>8. CASE f.GcState = "E_M"
      <3>1. g.GcState \in {"IDLE", "REQUESTED"}
        <4>1. g = OldSectorErased(h)
          BY <2>1, <2>8 DEF GoesTo
        <4> QED
          BY <2>4, <4>1 DEF OldSectorErased, Fields
      <3>2. fee' = g
        BY <2>1, <2>8, <3>1 DEF GoesTo, GoesOn, Continue
      <3> QED
        BY <3>1, <3>2 DEF StaysAhead, FillInv
    <2> QED
      BY <2>3, <2>4, <2>5, <2>6, <2>7, <2>8 DEF Busy
  <1> QED
    BY <1>3, <1>4

-----------------------------------------------------------------------------
(* A start-up after a reset finds a sector that governs.                    *)

\* Only a collection erases, and only the sector that does not govern.
LEMMA ErasesOtherSector ==
  ASSUME NEW fl, NEW f, NEW j, Inv(fl, f, j), j # NoJob, j.op = "erase"
  PROVE  /\ f.InitGCState = "COMPLETE" /\ f.GcState = "ERASE"
         /\ j.sector = Oth(f) /\ Governs(fl, Cur(f))
  <1>1. PrepInv(fl, f, j) /\ StartInv(fl, f, j) /\ GcInv(fl, f, j)
    BY DEF Inv
  <1>2. \A o, s, a, c : ~Programs(j, o, s, a, c)
    BY DEF Programs, IsJob
  <1>3. (\A s, a : ~Marks(fl, j, s, a)) /\ (\A at : ~Reads(fl, j, at))
    BY DEF Marks, Reads, IsJob
  <1>4. ~(IntrRuns(j) /\ f.InitGCState = "PREPARE")
    BY <1>1, <1>2, <1>3 DEF PrepInv
  <1>5. ~(IntrRuns(j) /\ f.InitGCState = "DIRTY")
    BY <1>1, <1>3 DEF StartInv
  <1>6. /\ IntrRuns(j) /\ f.InitGCState = "COMPLETE" /\ f.GcState \in Busy
        /\ f.IntrJob = "IDLE" /\ GcRunning(fl, f, j)
    BY <1>2, <1>3, <1>4, <1>5, JobForms
  <1>7. /\ j.sector = Oth(f)
        /\ j.op = CASE f.GcState \in {"COPY_WRITE", "V_SP", "E_SP"} -> "program"
                    [] f.GcState = "ERASE" -> "erase"
                    [] OTHER -> "marker"
    BY <1>6, GcJobSafe
  <1>8. f.GcState = "ERASE"
    BY <1>6, <1>7
  <1> QED
    BY <1>1, <1>6, <1>7, <1>8 DEF GcInv

\* Wherever a job is cut off, one of the sectors governs.
LEMMA GovernedAfter ==
  ASSUME FlashOk(flash), NEW j, JobSafe(flash, j), NEW cells \in Partial(j),
         NEW t \in Sectors, Governs(flash, t), j.op = "erase" => j.sector = Other(t)
  PROVE  \E u \in Sectors : Governs(After(flash, j.sector, cells), u)
  <1> DEFINE s == j.sector
             a == j.addr
             new == After(flash, s, cells)
  <1>1. /\ s \in Sectors /\ Other(s) \in Sectors /\ s # Other(s) /\ Other(Other(t)) = t
        /\ j.op \in {"read", "program", "marker", "erase"}
        /\ t = s \/ t = Other(s)
    BY SlotFacts DEF JobSafe, Sectors, Other
  <1>2. CASE j.op = "read"
    <2>1. cells = flash[s]
      BY <1>2, PartialRead
    <2>2. new = flash
      BY <2>1 DEF After, FlashOk
    <2> QED
      BY <2>2
  <1>3. CASE j.op = "program"
    BY <1>3, ProgramKeepsGoverning
  <1>4. CASE j.op = "erase"
    <2>1. Other(s) = t
      BY <1>1, <1>4
    <2> QED
      BY <1>1, <1>4, <2>1, EraseKeepsGoverning
  <1>5. CASE j.op = "marker"
    <2>1. CASE Marked(flash[s][a]) \/ IsState(flash[s][a], "ERASED") \/ ~Marked(cells[a])
      BY <1>5, <2>1, MarkerKeepsGoverning
    <2>2. CASE ~Marked(flash[s][a]) /\ ~IsState(flash[s][a], "ERASED") /\ Marked(cells[a])
      <3>1. /\ a \in Slots /\ flash[s] \in [Slots -> Cells] /\ flash[t] \in [Slots -> Cells]
            /\ Shape(flash[s]) /\ Shape(flash[t]) /\ NoTie(flash)
        BY <1>1, <1>5 DEF JobSafe, FlashOk
      <3>2. /\ \A p \in Slots : p # a => cells[p] = flash[s][p]
            /\ flash[s][a].kind = "state" /\ cells[a].kind = "state"
            /\ cells[a].st = flash[s][a].st /\ cells[a].cnt = flash[s][a].cnt
        BY <1>5, ShapeAfterMarker
      <3>3. IsState(flash[s][a], "VALID") /\ flash[s][a].cnt \in Nat
        BY <2>2, <3>1, <3>2, CellFacts DEF IsState
      <3>4. PICK q \in Slots : MarkedState(flash[t][q], "VALID")
        BY DEF Governs
      <3>5. t = Other(s)
        <4> SUFFICES ASSUME t = s PROVE FALSE
          BY <1>1
        <4>1. q = a
          BY <3>1, <3>3, <3>4 DEF Shape, MarkedState
        <4> QED
          BY <2>2, <3>4, <4>1 DEF Marked, MarkedState, IsState
      <3>6. flash[t][q].cnt \in Nat /\ flash[t][q].cnt # flash[s][a].cnt
        <4>1. flash[t][q].cnt \in Nat
          BY <3>1, <3>4, CellFacts DEF MarkedState, IsState
        <4>2. (s = 0 /\ t = 1) \/ (s = 1 /\ t = 0)
          BY <1>1, <3>5 DEF Sectors, Other
        <4> QED
          BY <3>1, <3>3, <3>4, <4>1, <4>2 DEF NoTie, MarkedState
      <3>7. \A p \in Slots : MarkedState(flash[t][p], "VALID") => p = q
        BY <3>1, <3>4 DEF Shape, MarkedState
      <3>8. CASE flash[t][q].cnt < flash[s][a].cnt
        <4>1. \A p \in Slots : MarkedState(flash[Other(s)][p], "VALID")
                                 => flash[Other(s)][p].cnt < flash[s][a].cnt
          BY <3>5, <3>7, <3>8
        <4>2. Governs(new, s)
          BY <1>5, <2>2, <3>3, <4>1, MarkerHandsOver
        <4> QED
          BY <1>1, <4>2
      <3>9. CASE flash[s][a].cnt < flash[t][q].cnt
        <4>1. new[s] = cells /\ new[t] = flash[t] /\ Other(t) = s
          BY <1>1, <3>5, AfterSectors, SlotFacts
        <4>2. \A p \in Slots : MarkedState(cells[p], "VALID") => p = a
          BY <3>1, <3>2, <3>3 DEF Shape, MarkedState, IsState
        <4> HIDE DEF new
        <4>3. Governs(new, t)
          BY <3>2, <3>4, <3>9, <4>1, <4>2 DEF Governs
        <4> QED
          BY <4>3 DEF new
      <3> QED
        BY <3>3, <3>6, <3>8, <3>9
    <2> QED
      BY <2>1, <2>2
  <1> QED
    BY <1>1, <1>2, <1>3, <1>4, <1>5

\* So a reset leaves a flash the start-up can go on with.
LEMMA ResetGoesOn ==
  ASSUME IInv, fee.InitGCState \in Started, Reset
  PROVE  fee'.InitGCState \in Started
  <1>1. Inv(flash, fee, job) /\ FlashOk(flash) /\ IsFee(fee) /\ MainInv(fee, job)
        /\ StartInv(flash, fee, job) /\ GcInv(flash, fee, job)
    BY DEF IInv, Inv
  <1>2. Cur(fee) \in Sectors /\ Oth(fee) \in Sectors /\ Oth(fee) = Other(Cur(fee))
        /\ Cur(fee) = Other(Oth(fee))
    BY <1>1, SlotFacts DEF IsFee, Cur, Oth
  <1>3. PICK t \in Sectors : Governs(flash, t) /\
               (job # NoJob /\ job.op = "erase" => job.sector = Other(t))
    <2>1. CASE job # NoJob /\ job.op = "erase"
      BY <1>1, <1>2, <2>1, ErasesOtherSector
    <2>2. CASE ~(job # NoJob /\ job.op = "erase")
      BY <1>1, <1>2, <2>2 DEF Started, StartInv, GcInv
    <2> QED
      BY <2>1, <2>2
  <1>4. FlashOk(flash') /\ \E u \in Sectors : Governs(flash', u)
    <2>1. CASE job = NoJob
      BY <1>1, <1>3, <2>1 DEF Reset
    <2>2. CASE job # NoJob
      <3>1. PICK cells \in Partial(job) : flash' = After(flash, job.sector, cells)
        BY <2>2 DEF Reset, After
      <3>2. JobSafe(flash, job)
        BY <1>1, <2>2, JobsAreSafe
      <3> QED
        BY <1>1, <1>3, <2>2, <3>1, <3>2, FlashOkAfter, GovernedAfter
    <2> QED
      BY <2>1, <2>2
  <1>5. Readable(flash') /\ fee' = Boot(flash')
    BY <1>4, GoverningSector DEF Reset
  <1> QED
    BY <1>5 DEF Boot, Readable, Started

-----------------------------------------------------------------------------
(* The other steps leave the collection where it is. *)

\* A write does not change its state, but to ask for a collection.
LEMMA WriteGoesOn ==
  ASSUME NEW f, Inv(flash, f, NoJob), LocalWrite(f), f.Req # NoReq
  PROVE  GcSame(f, fee') /\ fee'.InitGCState = f.InitGCState
  <1> DEFINE h == [f EXCEPT !.UserJob = "IDLE"]
             passed == f.UserJob = "PASS"
             Same(g) == /\ g.InitGCState = f.InitGCState /\ g.GcDest = f.GcDest
                        /\ g.CurrSector = f.CurrSector
                        /\ g.GcState \in {f.GcState, "REQUESTED"}
  <1>1. IsFee(f) /\ UserInv(flash, f, NoJob)
    BY DEF Inv
  <1>2. f.Req.stage \in {"request", "toRead", "reading", "compare", "stuck"}
    BY <1>1 DEF UserInv
  <1>3. /\ f.Req.stage = "request" => WriteCopy(h)
        /\ f.Req.stage = "compare" => WriteCompare(h, passed)
        /\ f.Req.stage \notin {"request", "compare", "recopy"} => fee' = h
    BY DEF LocalWrite, Continue
  <1>4. DOMAIN h = Fields /\ \A x \in Fields \ {"UserJob"} : h[x] = f[x]
    BY <1>1 DEF IsFee, Fields
  <1> HIDE DEF h
  <1>5. Same(h)
    BY <1>4 DEF Fields
  <1>6. CASE f.Req.stage = "request"
    <2> DEFINE k == CurrBlkCheck(h)
    <2>1. DOMAIN k = Fields /\ Same(k)
      BY <1>4, <1>5 DEF CurrBlkCheck, Fields
    <2> HIDE DEF k
    <2>2. (\E r : fee' = [k EXCEPT !.Req = r]) \/ fee' = k
      BY <1>3, <1>6 DEF WriteCopy, Start, Continue, k
    <2>3. Same(fee')
      BY <2>1, <2>2 DEF Fields
    <2> QED
      BY <2>3 DEF GcSame, Copying
  <1>7. CASE f.Req.stage = "compare"
    <2>1. Landed(f, NoJob)
      BY <1>7 DEF Landed, Stage
    <2>2. passed
      BY <1>1, <2>1 DEF UserInv, Landed, Programs, IsJob
    <2>3. fee' = WriteDone(h)
      BY <1>3, <1>7, <2>2 DEF WriteCompare, Continue
    <2>4. /\ WriteDone(h).InitGCState = h.InitGCState /\ WriteDone(h).GcDest = h.GcDest
          /\ WriteDone(h).CurrSector = h.CurrSector /\ WriteDone(h).GcState = h.GcState
      BY <1>4 DEF WriteDone, Cached, Fields
    <2> QED
      BY <1>5, <2>3, <2>4 DEF GcSame, Copying
  <1>8. CASE f.Req.stage \in {"toRead", "reading", "stuck"}
    BY <1>3, <1>5, <1>8 DEF GcSame, Copying
  <1> QED
    BY <1>2, <1>6, <1>7, <1>8

\* A flash job that ends writes over no copy, and does not change its state.
LEMMA JobEndGoesOn ==
  ASSUME IInv, FillInv(flash, fee), JobEndNotification
  PROVE  /\ FillInv(flash', fee') /\ fee'.GcState = fee.GcState
         /\ fee'.InitGCState = fee.InitGCState
  <1> DEFINE s == job.sector
             o == Oth(fee)
             cells == Finished(job)
  <1>1. /\ Inv(flash, fee, job) /\ IsFee(fee) /\ FlashOk(flash) /\ job # NoJob
        /\ JobSafe(flash, job)
    BY JobsAreSafe DEF IInv, Inv, JobEndNotification
  <1>2. /\ flash' = After(flash, s, cells)
        /\ \/ \E r : fee' = [fee EXCEPT !.Req = r]
           \/ \E r : fee' = [fee EXCEPT !.UserJob = r]
           \/ \E r : fee' = [fee EXCEPT !.IntrJob = r]
    BY DEF JobEndNotification, JobEnd, After
  <1>3. /\ fee'.GcState = fee.GcState /\ fee'.InitGCState = fee.InitGCState
        /\ fee'.GcDest = fee.GcDest /\ fee'.CurrSector = fee.CurrSector
    BY <1>1, <1>2 DEF IsFee, Fields
  <1>4. s \in Sectors /\ o \in Sectors /\ Oth(fee') = o /\ flash[o] \in [Slots -> Cells]
    BY <1>1, <1>3, SlotFacts DEF JobSafe, IsFee, Oth, FlashOk
  <1>5. fee.GcState \in Copying => job.op # "erase"
    BY <1>1, ErasesOtherSector DEF Copying
  <1>6. ASSUME job.op # "erase", NEW a \in Slots, flash[o][a].kind = "copy"
        PROVE  flash'[o][a] = flash[o][a]
    <2>1. CASE s # o
      BY <1>1, <1>2, <1>4, <2>1, AfterSectors
    <2>2. CASE s = o
      <3>1. flash'[o] = cells /\ cells = [flash[o] EXCEPT ![job.addr] = job.cell]
            /\ job.addr \in Slots
        BY <1>1, <1>2, <1>4, <1>6, <2>2, AfterSectors DEF Finished, JobSafe
      <3>2. CASE a # job.addr
        BY <1>4, <3>1, <3>2
      <3>3. CASE a = job.addr
        <4>1. job.op = "read"
          BY <1>1, <1>6, <2>2, <3>3, BuiltCells DEF JobSafe
        <4> QED
          BY <1>1, <1>4, <2>2, <3>1, <3>3, <4>1 DEF JobSafe
      <3> QED
        BY <3>2, <3>3
    <2> QED
      BY <2>1, <2>2
  <1>7. ASSUME NEW d, CopiesUpTo(flash[o], d), job.op # "erase"
        PROVE  CopiesUpTo(flash'[o], d)
    BY <1>6, <1>7 DEF CopiesUpTo
  <1>8. FillInv(flash', fee')
    BY <1>3, <1>4, <1>5, <1>7 DEF FillInv, Copying
  <1> QED
    BY <1>3, <1>8

\* What every step has to show.
KeepsGoing ==
  /\ fails' = 0 => FillInv(flash', fee') /\ (prepared' => fee'.InitGCState \in Started)
  /\ prepared => fee'.InitGCState # "FAIL"
  /\ fee'.GcState = "FAIL" /\ fee.GcState # "FAIL" /\ Roomy => CopiedTwice(flash[Oth(fee)])

LEMMA SameGoesOn ==
  ASSUME GoesOnInv, fails = 0, flash' = flash, prepared' = prepared, GcSame(fee, fee'),
         fee'.InitGCState = fee.InitGCState
  PROVE  KeepsGoing
  <1>1. StaysAhead(fee, fee')
    BY GcSameStays DEF GoesOnInv
  <1>2. prepared => fee.InitGCState # "FAIL"
    BY DEF GoesOnInv, Started
  <1> QED
    BY <1>1, <1>2 DEF KeepsGoing, StaysAhead, GoesOnInv

\* A step of the main function.
LEMMA MainGoesOn ==
  ASSUME IInv, GoesOnInv, MainFunction
  PROVE  KeepsGoing
  <1> DEFINE f == DecideMainJob(fee)
  <1>1. /\ Inv(flash, fee, job) /\ fails = 0 /\ fails' = 0 /\ flash' = flash
        /\ IsFee(fee) /\ FillInv(flash, fee)
    BY DEF IInv, Inv, MainFunction, GoesOnInv
  <1>2. /\ Inv(flash, f, job)
        /\ \A x \in Fields \ {"MainJob", "NextFreePage"} : f[x] = fee[x]
        /\ f.MainJob \in {"READ", "WRITE"} => f.Req # NoReq
    BY <1>1, DecideStep
  <1>3. \/ fee' = f /\ prepared' = prepared
        \/ job = NoJob /\ (InitGC(f) \/ UpdateCache(f) \/ LocalRead(f) \/ LocalWrite(f)
                           \/ GarbageCollection(f))
    BY DEF MainFunction, Continue
  <1> HIDE DEF f
  <1>4. /\ f.GcDest = fee.GcDest /\ f.CurrSector = fee.CurrSector
        /\ f.InitGCState = fee.InitGCState /\ f.GcState = fee.GcState
        /\ IsFee(f) /\ DOMAIN f = Fields
    BY <1>2 DEF Fields, Inv, IsFee
  <1>5. FillInv(flash, f) /\ Oth(f) = Oth(fee)
    BY <1>1, <1>4 DEF FillInv, Oth
  <1>6. ASSUME GcSame(f, fee'), fee'.InitGCState = f.InitGCState, prepared' = prepared
        PROVE  KeepsGoing
    BY <1>1, <1>4, <1>6, SameGoesOn DEF GcSame
  <1>7. CASE fee' = f /\ prepared' = prepared
    BY <1>6, <1>7 DEF GcSame
  <1>8. CASE job = NoJob /\ InitGC(f)
    <2>1. Inv(flash, f, NoJob)
      BY <1>2, <1>8
    <2>2. Inv(flash, fee', job') /\ fee'.MainJob = "INITGC"
      BY <1>8, <2>1, InitGCStep
    <2>3. fee'.GcState \in {"IDLE", "ERASE"}
      BY <2>2 DEF Inv, MainInv, IsFee
    <2>4. prepared => fee'.InitGCState \in Started
      BY <1>1, <1>4, <1>8, <2>1, InitGCRequest DEF GoesOnInv
    <2>5. prepared' = (prepared \/ fee'.InitGCState = "COMPLETE")
      BY <1>8 DEF InitGC
    <2>6. FillInv(flash', fee')
      BY <2>3 DEF FillInv
    <2> QED
      BY <2>3, <2>4, <2>5, <2>6 DEF KeepsGoing, Started
  <1>9. CASE job = NoJob /\ UpdateCache(f)
    <2>1. prepared' = prepared /\
          \E a, c : fee' = [f EXCEPT !.CacheUpdated = TRUE, !.NextFreePage = a, !.Cache = c]
      BY <1>9 DEF UpdateCache, Continue
    <2> QED
      BY <1>4, <1>6, <2>1 DEF GcSame, Fields
  <1>10. CASE job = NoJob /\ LocalRead(f)
    <2>1. prepared' = prepared /\ \E r : fee' = [f EXCEPT !.Req = r]
      BY <1>10 DEF LocalRead, Continue, Start
    <2> QED
      BY <1>4, <1>6, <2>1 DEF GcSame, Fields
  <1>11. CASE job = NoJob /\ LocalWrite(f)
    <2>1. f.Req # NoReq /\ Inv(flash, f, NoJob) /\ prepared' = prepared
      BY <1>2, <1>11 DEF LocalWrite
    <2> QED
      BY <1>6, <1>11, <2>1, WriteGoesOn
  <1>12. CASE job = NoJob /\ GarbageCollection(f)
    <2>1. Inv(flash, f, NoJob) /\ prepared' = prepared /\ f.MainJob = "GC"
      BY <1>2, <1>12 DEF GarbageCollection
    <2>2. StaysAhead(f, fee')
      BY <1>5, <1>12, <2>1, CollectionStays
    <2>3. f.InitGCState = "COMPLETE" /\ Inv(flash, fee', job')
      BY <1>2, <1>12, <2>1, GcFacts, GarbageCollectionStep
    <2>4. fee'.InitGCState \in Started
      BY <1>12, <2>1, <2>3, GcRequest DEF Started
    <2> QED
      BY <1>1, <1>4, <1>5, <2>2, <2>4 DEF KeepsGoing, StaysAhead, Started
  <1> QED
    BY <1>3, <1>7, <1>8, <1>9, <1>10, <1>11, <1>12

\* The steps that leave the driver's own state alone.
LEMMA RequestGoesOn ==
  ASSUME IInv, GoesOnInv,
         Cancel \/ \E b \in Blocks : Read(b) \/ Write(b) \/ InvalidateBlock(b)
  PROVE  KeepsGoing
  <1>1. /\ flash' = flash /\ prepared' = prepared /\ fails = 0
        /\ \/ \E r : fee' = [fee EXCEPT !.Req = r]
           \/ \E r, n : fee' = [fee EXCEPT !.Req = r, !.UserJobFailCount = n]
    BY DEF IInv, Cancel, Read, Write, InvalidateBlock, NewRequest
  <1>2. DOMAIN fee = Fields
    BY DEF IInv, Inv, IsFee
  <1>3. GcSame(fee, fee') /\ fee'.InitGCState = fee.InitGCState
    BY <1>1, <1>2 DEF GcSame, Fields
  <1> QED
    BY <1>1, <1>3, SameGoesOn

\* A step before a flash job fails keeps the collection and the start-up going.
LEMMA StepGoesOn ==
  ASSUME IInv, GoesOnInv, [Next]_vars
  PROVE  KeepsGoing
  <1>1. fails = 0 /\ DOMAIN fee = Fields /\ FillInv(flash, fee)
        /\ (prepared => fee.InitGCState \in Started)
    BY DEF IInv, Inv, IsFee, GoesOnInv
  <1>2. CASE JobEndNotification
    <2>1. prepared' = prepared
      BY <1>2 DEF JobEndNotification, JobEnd
    <2> QED
      BY <1>1, <1>2, <2>1, JobEndGoesOn DEF KeepsGoing, Started
  <1>3. CASE JobFails
    <2>1. fails' = 1
      BY <1>1, <1>3 DEF JobFails
    <2>2. \/ \E r : fee' = [fee EXCEPT !.Req = r]
          \/ \E r : fee' = [fee EXCEPT !.UserJob = r]
          \/ \E r : fee' = [fee EXCEPT !.IntrJob = r]
      BY <1>3 DEF JobFails, JobEnd
    <2>3. fee'.GcState = fee.GcState /\ fee'.InitGCState = fee.InitGCState
      BY <1>1, <2>2 DEF Fields
    <2> QED
      BY <1>1, <2>1, <2>3 DEF KeepsGoing, Started
  <1>4. CASE Reset
    <2>1. fee'.GcState = "IDLE" /\ prepared' = prepared
      BY <1>4 DEF Reset, Boot
    <2>2. FillInv(flash', fee')
      BY <2>1 DEF FillInv
    <2>3. prepared => fee'.InitGCState \in Started
      BY <1>1, <1>4, ResetGoesOn
    <2> QED
      BY <2>1, <2>2, <2>3 DEF KeepsGoing, Started
  <1>5. CASE UNCHANGED vars
    <2>1. flash' = flash /\ prepared' = prepared /\ fee' = fee
      BY <1>5 DEF vars
    <2> QED
      BY <1>1, <2>1, SameGoesOn DEF GcSame
  <1> QED
    BY <1>2, <1>3, <1>4, <1>5, MainGoesOn, RequestGoesOn DEF Next

\* A prepared flash has a governing sector from the start.
LEMMA InitGoesOnInv == Init => GoesOnInv
  <1> SUFFICES ASSUME Init PROVE GoesOnInv
    OBVIOUS
  <1>1. PICK n \in Filled : flash = InitialFlash(n) /\ prepared = (n > 0)
    BY DEF Init
  <1>2. fee = Boot(flash) /\ FlashOk(flash)
    BY <1>1, InitialFlashOk DEF Init
  <1>3. FillInv(flash, fee)
    BY <1>2 DEF Boot, FillInv
  <1>4. ASSUME prepared PROVE fee.InitGCState \in Started
    <2>1. /\ n \in Nat /\ n # 0 /\ PerWL \in Slots /\ PerWL # 0 /\ Sectors = {0, 1}
          /\ 0 \in Slots /\ Slots \subseteq Nat
      <3>1. n > 0
        BY <1>1, <1>4
      <3> QED
        BY <3>1, InitialSizes, SlotFacts
    <2> DEFINE full == [a \in Slots |->
                          CASE a = 0 -> StatePage("ERASED", 1, "ok")
                            [] a = PerWL -> StatePage("VALID", 2, "ok")
                            [] a \in 2 * PerWL .. 2 * PerWL + n - 1 -> BlockCopy(a % NBlocks, 0)
                            [] OTHER -> Blank]
               other == [AllBlank EXCEPT ![0] = StatePage("ERASED", 3, "ok")]
    <2>2. /\ flash[0][PerWL] = StatePage("VALID", 2, "ok")
          /\ flash[1] = [AllBlank EXCEPT ![0] = StatePage("ERASED", 3, "ok")]
      <3>1. flash = [s \in {0, 1} |-> CASE n = 0 -> AllBlank
                                       [] n # 0 /\ s = 0 -> full
                                       [] OTHER -> other]
        BY <1>1, <2>1 DEF InitialFlash
      <3>2. full[PerWL] = StatePage("VALID", 2, "ok")
        BY <2>1
      <3> HIDE DEF full, other
      <3>3. flash[0] = full /\ flash[1] = other
        BY <2>1, <3>1
      <3> QED
        BY <3>2, <3>3 DEF other
    <2>3. /\ MarkedState(flash[0][PerWL], "VALID")
          /\ \A p \in Slots : ~MarkedState(flash[1][p], "VALID")
      BY <2>2 DEF MarkedState, IsState, StatePage, AllBlank, Blank
    <2>4. Governs(flash, 0)
      BY <2>1, <2>3 DEF Governs, Other
    <2>5. Readable(flash)
      BY <1>2, <2>1, <2>4, GoverningSector
    <2> QED
      BY <1>2, <2>5 DEF Boot, Readable, Started
  <1> QED
    BY <1>3, <1>4 DEF GoesOnInv

-----------------------------------------------------------------------------

\* Once a flash has been prepared, and until a flash job fails, no start-up
\* gives up, whatever the resets before it cut off; and a garbage collection
\* gives up only where it has copied a block again.
THEOREM FailsCorrect == Spec => FailsOnlyAfterFault
  <1> DEFINE Gives ==
        prepared /\ fails = 0 =>
          /\ fee'.InitGCState # "FAIL"
          /\ fee'.GcState = "FAIL" /\ fee.GcState # "FAIL" /\ Roomy
               => CopiedTwice(flash[Other(fee.CurrSector)])
  <1>1. Spec => []FInv
    BY FeeInvariant
  <1>2. Init => GoesOnInv
    BY InitGoesOnInv
  <1>3. FInv /\ GoesOnInv /\ [Next]_vars => GoesOnInv'
    <2> SUFFICES ASSUME FInv, GoesOnInv, [Next]_vars, fails' = 0 PROVE GoesOnInv'
      BY DEF GoesOnInv
    <2>1. fails \in Nat /\ fails' \in {fails, fails + 1}
      BY DEF FInv, Next, vars, MainFunction, JobEndNotification, JobFails, Read, Write,
             InvalidateBlock, Cancel, Reset
    <2>2. fails = 0
      BY <2>1
    <2>3. KeepsGoing
      BY <2>2, StepGoesOn DEF FInv
    <2> QED
      BY <2>3 DEF KeepsGoing, GoesOnInv
  <1>4. FInv /\ GoesOnInv /\ [Next]_vars => [Gives]_vars
    <2> SUFFICES ASSUME FInv, GoesOnInv, [Next]_vars, fails = 0 PROVE Gives
      OBVIOUS
    <2>1. KeepsGoing
      BY StepGoesOn DEF FInv
    <2> QED
      BY <2>1 DEF KeepsGoing, Oth
  <1> QED
    BY <1>1, <1>2, <1>3, <1>4, PTL DEF Spec, FailsOnlyAfterFault
=============================================================================
