---------------------------- MODULE FeeFaultProofs ----------------------------
(***************************************************************************)
(* Proofs about the flash EEPROM emulation whose flash jobs may fail, any  *)
(* of them and any number of times: that FaultInv of FeeFault is an        *)
(* invariant as long as UndoExact is, and with it that only blank flash is *)
(* programmed.                                                             *)
(*                                                                         *)
(* First come blank and open wordlines, and what a start-up, a job that    *)
(* ends and one that fails leave of them.  Then each step of the main      *)
(* function is shown to keep the invariant: the initialisation with the    *)
(* first preparation and the repair of markers, the cache, reads and       *)
(* writes with the recopying of a wordline, and the garbage collection     *)
(* with each of its failures.                                              *)
(***************************************************************************)
EXTENDS FeeFault, FeeProofs

-----------------------------------------------------------------------------
(* The driver's state. *)

\* The fields with a type.
LEMMA TypedFields == DOMAIN FieldTypes = Fields \ {"GcBlock", "GcPrevBlock", "Affected"}
  BY DEF FieldTypes, Fields

\* The types of a state that differs from another in the fields X.
LEMMA TypesKept ==
  ASSUME NEW f, FaultTypes(f), NEW g, DOMAIN g = Fields, NEW X,
         \A x \in Fields \ X : g[x] = f[x],
         \A x \in X : x \in DOMAIN FieldTypes => g[x] \in FieldTypes[x]
  PROVE  FaultTypes(g)
  BY TypedFields DEF FaultTypes

-----------------------------------------------------------------------------
(* The flash. *)

\* A sound flash without failures is in order.
LEMMA ShapedInOrder ==
  ASSUME NEW fl, FlashOk(fl)
  PROVE  InOrder(fl)
  BY DEF FlashOk, Shape, InOrder, UsedFromBeginning

\* A wordline has a slot.
LEMMA WordlineSize == PerWL \in Nat /\ PerWL > 0
  BY SlotFacts

\* What is blank from a slot on is blank from a later one.
LEMMA BlankLater ==
  ASSUME NEW cells, NEW a \in Nat, NEW p \in Nat, a <= p, BlankFrom(cells, a)
  PROVE  BlankFrom(cells, p)
  BY SlotFacts DEF BlankFrom

\* The wordline after the one that holds the last used slot is open.
LEMMA OpenAfter ==
  ASSUME NEW cells, NEW a \in Nat, BlankFrom(cells, a + 1)
  PROVE  /\ OpenWL(cells, NextWL(a)) /\ NextWL(a) \in Nat /\ a < NextWL(a)
         /\ OpenWL(cells, RetryBase(a)) /\ RetryBase(a) \in Nat /\ a < RetryBase(a)
         /\ RetryBase(a) = NextWL(NextWL(a)) /\ RetryBase(a) = NextWL(a) + PerWL
         /\ IsWLBeginning(a) => NextWL(a) = a + PerWL
  <1>1. /\ NextWL(a) \in Nat /\ a < NextWL(a) /\ IsWLBeginning(NextWL(a))
        /\ PerWL \in Nat /\ PerWL > 0
    BY WordlineFacts, WordlineSize
  <1>2. NextWL(NextWL(a)) = NextWL(a) + PerWL /\ IsWLBeginning(NextWL(NextWL(a)))
    BY <1>1, WordlineFacts
  <1>3. BlankFrom(cells, NextWL(a)) /\ BlankFrom(cells, NextWL(a) + PerWL)
    BY <1>1, BlankLater
  <1>4. IsWLBeginning(a) => NextWL(a) = a + PerWL
    BY WordlineFacts
  <1> QED
    BY <1>1, <1>2, <1>3, <1>4 DEF OpenWL, RetryBase

\* An open wordline can take a copy too.
LEMMA OpenWordline ==
  ASSUME NEW cells, NEW w, OpenWL(cells, w)
  PROVE  Open(cells, w)
  BY DEF Open, OpenWL

\* The slot behind a copy is open.
LEMMA OpenBehind ==
  ASSUME NEW fl, InOrder(fl), NEW s \in Sectors, NEW a \in Slots,
         fl[s][a] # Blank, BlankFrom(fl[s], a + 1)
  PROVE  Open(fl[s], a + 1)
  <1>1. fl[s][WLBeginning(a)] # Blank
    BY DEF InOrder, UsedFromBeginning
  <1>2. IsWLBeginning(a + 1) \/ WLBeginning(a + 1) = WLBeginning(a)
    BY SlotFacts, WordlineOfNext
  <1> QED
    BY <1>1, <1>2 DEF Open

\* The check that chooses the page of the next write keeps to open flash, and
\* leaves room for a second try unless the page begins a wordline.
LEMMA CheckedOpen ==
  ASSUME NEW f, NEW cells, f.NextFreePage \in Nat, Open(cells, f.NextFreePage)
  PROVE  LET d == CheckedPage(f)
         IN /\ d \in Nat /\ Open(cells, d) /\ f.NextFreePage <= d
            /\ IsWLBeginning(d) \/ RetryBase(d) \in Slots
  <1> DEFINE d == f.NextFreePage
             e == CheckedPage(f)
  <1>1. /\ NextWL(d) \in Nat /\ d < NextWL(d) /\ IsWLBeginning(NextWL(d))
        /\ PerWL \in Nat /\ PerWL > 0 /\ d % PerWL \in Nat
    <2> HIDE DEF d
    <2>1. d \in Nat
      BY DEF d
    <2>2. d % PerWL \in Nat
      BY <2>1, SlotFacts, DivisionFacts
    <2> QED
      BY <2>1, <2>2, WordlineFacts, WordlineSize
  <1>2. CASE e = d /\ ~IsWLBeginning(d)
    <2>1. ~ThresholdCrossed(Free(NextWL(d) + PerWL), (d % PerWL) + 1)
      BY <1>1, <1>2 DEF CheckedPage
    <2>2. NextWL(d) + PerWL \in Nat /\ Free(NextWL(d) + PerWL) \in Nat /\ Threshold \in Nat
      BY <1>1, FreeFacts, FeeConstants
    <2>3. Free(NextWL(d) + PerWL) >= 1
      BY <1>1, <2>1, <2>2 DEF ThresholdCrossed
    <2>4. NextWL(d) + PerWL \in Slots
      BY <2>2, <2>3, FreeFacts
    <2> QED
      BY <1>2, <2>4 DEF RetryBase
  <1>3. CASE e = NextWL(d)
    <2>1. BlankFrom(cells, NextWL(d))
      BY <1>1, BlankLater DEF Open
    <2> QED
      BY <1>1, <1>3, <2>1 DEF Open
  <1>4. e = d \/ e = NextWL(d)
    BY DEF CheckedPage
  <1> QED
    BY <1>2, <1>3, <1>4

\* A job that can be cut off anywhere and still leaves the flash in order.
Harmless(fl, j) ==
  /\ j.sector \in Sectors
  /\ \/ j.op = "read" /\ j.addr \in Slots /\ j.cell = fl[j.sector][j.addr]
     \/ /\ j.op = "program" /\ j.addr \in Slots /\ j.cell \in Cells
        /\ Open(fl[j.sector], j.addr)
     \/ /\ j.op = "marker" /\ j.addr \in Slots /\ fl[j.sector][j.addr].kind = "state"
        /\ j.cell = [fl[j.sector][j.addr] EXCEPT !.mark = "ok"]
     \/ j.op = "erase"

\* Which cells a job may change, and into what.
Changes(fl, j, cells) ==
  /\ cells \in [Slots -> Cells]
  /\ j.op = "read" => cells = fl[j.sector]
  /\ j.op = "program" =>
       /\ \A a \in Slots : a # j.addr => cells[a] = fl[j.sector][a]
       /\ BlankFrom(cells, j.addr + 1)
  /\ j.op = "marker" =>
       /\ \A a \in Slots : a # j.addr => cells[a] = fl[j.sector][a]
       /\ cells[j.addr].kind = "state"
       /\ \A a \in Slots : BlankFrom(fl[j.sector], a + 1) => BlankFrom(cells, a + 1)

\* What a job leaves, done or cut off.
LEMMA JobLeaves ==
  ASSUME InOrder(flash), NEW j, Harmless(flash, j), NEW cells \in Partial(j)
  PROVE  InOrder(After(flash, j.sector, cells)) /\ Changes(flash, j, cells)
  <1> DEFINE s == j.sector
             old == flash[s]
  <1>1. s \in Sectors /\ old \in [Slots -> Cells] /\ UsedFromBeginning(old)
        /\ flash \in [Sectors -> [Slots -> Cells]] /\ Slots \subseteq Nat
        /\ \A t \in Sectors : UsedFromBeginning(flash[t])
    BY SlotFacts DEF Harmless, InOrder
  <1>2. ASSUME cells \in [Slots -> Cells], UsedFromBeginning(cells)
        PROVE  InOrder(After(flash, s, cells))
    BY <1>1, <1>2 DEF InOrder, After
  <1>3. CASE j.op = "read"
    <2>1. cells = old
      BY <1>3, PartialRead
    <2> QED
      BY <1>1, <1>2, <1>3, <2>1 DEF Changes
  <1>4. CASE j.op = "program"
    <2> DEFINE d == j.addr
    <2>1. d \in Slots /\ j.cell \in Cells /\ Open(old, d)
      BY <1>4 DEF Harmless
    <2>2. PICK c \in {old[d], Torn, j.cell} : cells = [old EXCEPT ![d] = c]
      BY <1>4, PartialProgram
    <2>7. d \in Nat /\ \A a \in Slots : a >= d => old[a] = Blank
      BY <1>1, <2>1 DEF Open, BlankFrom
    <2>3. c \in Cells
      <3>1. Torn \in Cells /\ old[d] \in Cells
        BY <1>1, <2>1, BuiltCells
      <3> QED
        BY <2>1, <2>2, <3>1
    <2>4. cells \in [Slots -> Cells] /\ \A a \in Slots : a # d => cells[a] = old[a]
      BY <1>1, <2>1, <2>2, <2>3
    <2> HIDE DEF d, old, s
    <2>8. old[d] = Blank
      BY <2>1, <2>7
    <2>5. BlankFrom(cells, d + 1)
      <3> SUFFICES ASSUME NEW a \in Slots, a >= d + 1 PROVE cells[a] = Blank
        BY DEF BlankFrom
      <3>1. a \in Nat /\ a >= d /\ a # d
        BY <2>7, SlotFacts
      <3> QED
        BY <2>4, <2>7, <3>1
    <2>6. UsedFromBeginning(cells)
      <3> SUFFICES ASSUME NEW a \in Slots, cells[a] # Blank
                   PROVE  cells[WLBeginning(a)] # Blank
        BY DEF UsedFromBeginning
      <3>1. WLBeginning(a) \in Slots /\ WLBeginning(d) \in Slots
        BY <2>1, WordlineSlots
      <3>2. CASE a # d
        <4>1. old[a] # Blank /\ old[WLBeginning(a)] # Blank
          BY <1>1, <2>4, <3>2 DEF UsedFromBeginning
        <4> QED
          BY <2>4, <2>8, <3>1, <4>1
      <3>3. CASE a = d
        <4>1. CASE IsWLBeginning(d)
          <5>1. WLBeginning(d) = d
            BY <1>1, <2>1, <4>1, WordlineFacts
          <5> QED
            BY <3>3, <5>1
        <4>2. CASE old[WLBeginning(d)] # Blank
          <5>1. WLBeginning(d) # d
            BY <2>8, <4>2
          <5> QED
            BY <2>4, <3>1, <3>3, <4>2, <5>1
        <4> QED
          BY <2>1, <4>1, <4>2 DEF Open
      <3> QED
        BY <3>2, <3>3
    <2> QED
      BY <1>2, <1>4, <2>4, <2>5, <2>6 DEF Changes, d, old, s
  <1>5. CASE j.op = "marker"
    <2> DEFINE d == j.addr
               page == old[d]
    <2>1. d \in Slots /\ page.kind = "state" /\ page \in Cells
      BY <1>1, <1>5 DEF Harmless
    <2>2. PICK m \in {page.mark, "torn", "ok"} :
            cells = [old EXCEPT ![d] = [page EXCEPT !.mark = m]]
      BY <1>1, <1>5, <2>1 DEF Partial
    <2>3. [page EXCEPT !.mark = m] \in Cells /\ [page EXCEPT !.mark = m].kind = "state"
      <3> HIDE DEF page
      <3>1. page \in Pages /\ m \in {"none", "torn", "ok"}
        BY <2>1, <2>2 DEF Cells, Blank, Torn, Copies, Pages
      <3> QED
        BY <3>1 DEF Cells, Pages
    <2>4. cells \in [Slots -> Cells] /\ cells[d].kind = "state"
          /\ \A a \in Slots : a # d => cells[a] = old[a]
      BY <1>1, <2>1, <2>2, <2>3
    <2>5. page # Blank /\ cells[d] # Blank
      BY <2>1, <2>4, BuiltCells
    <2>6. UsedFromBeginning(cells)
      BY <1>1, <2>4, <2>5, WordlineSlots DEF UsedFromBeginning
    <2>7. \A a \in Slots : BlankFrom(old, a + 1) => BlankFrom(cells, a + 1)
      BY <1>1, <2>1, <2>4, <2>5 DEF BlankFrom
    <2> QED
      BY <1>2, <1>5, <2>4, <2>6, <2>7 DEF Changes
  <1>6. CASE j.op = "erase"
    <2> DEFINE Kind(c) == IF c.kind = "state" THEN c.st ELSE c.kind
               Rest(lost) == [a \in Slots |-> IF Kind(old[a]) \in lost THEN Torn ELSE old[a]]
    <2>1. cells \in {AllBlank} \cup {Rest(lost) : lost \in SUBSET {"copy", "VALID", "ERASED"}}
      BY <1>6 DEF Partial
    <2>2. CASE cells = AllBlank
      <3>1. cells \in [Slots -> Cells] /\ UsedFromBeginning(cells)
        BY <2>2, BuiltCells DEF AllBlank, UsedFromBeginning
      <3> QED
        BY <1>2, <1>6, <3>1 DEF Changes
    <2>3. CASE \E lost \in SUBSET {"copy", "VALID", "ERASED"} : cells = Rest(lost)
      <3>1. PICK lost \in SUBSET {"copy", "VALID", "ERASED"} : cells = Rest(lost)
        BY <2>3
      <3>2. Kind(Blank) \notin lost
        BY BuiltCells
      <3>3. /\ cells \in [Slots -> Cells]
            /\ \A a \in Slots : cells[a] = old[a] \/ (cells[a] = Torn /\ old[a] # Blank)
        BY <1>1, <3>1, <3>2, BuiltCells
      <3>4. UsedFromBeginning(cells)
        <4> HIDE DEF old
        <4>1. \A a \in Slots : old[a] # Blank => cells[a] # Blank
          BY <3>3, BuiltCells
        <4>2. \A a \in Slots : cells[a] # Blank => old[a] # Blank
          BY <3>3, BuiltCells
        <4>3. \A a \in Slots : WLBeginning(a) \in Slots
          BY WordlineSlots
        <4> QED
          BY <1>1, <4>1, <4>2, <4>3 DEF UsedFromBeginning
      <3> QED
        BY <1>2, <1>6, <3>3, <3>4 DEF Changes
    <2> QED
      BY <2>1, <2>2, <2>3
  <1> QED
    BY <1>3, <1>4, <1>5, <1>6 DEF Harmless

\* A job that ends without a failure leaves one of these, the one it was for.
LEMMA JobCompletes ==
  ASSUME InOrder(flash), NEW j, Harmless(flash, j)
  PROVE  /\ Finished(j) \in Partial(j)
         /\ j.op \in {"read", "program", "marker"} => Finished(j)[j.addr] = j.cell
         /\ j.op = "erase" => BlankFrom(Finished(j), 0)
  <1> DEFINE old == flash[j.sector]
  <1>1. old \in [Slots -> Cells]
    BY DEF Harmless, InOrder
  <1>2. CASE j.op = "read"
    <2>1. Finished(j) = [old EXCEPT ![j.addr] = j.cell] /\ j.addr \in Slots /\ j.cell = old[j.addr]
      BY <1>2 DEF Finished, Harmless
    <2>2. Finished(j) = old
      BY <1>1, <2>1
    <2> QED
      BY <1>2, <2>1, <2>2 DEF Partial
  <1>3. CASE j.op = "program"
    <2>1. Finished(j) = [old EXCEPT ![j.addr] = j.cell] /\ j.addr \in Slots
      BY <1>3 DEF Finished, Harmless
    <2>2. Partial(j) = {[old EXCEPT ![j.addr] = c] : c \in {old[j.addr], Torn, j.cell}}
      BY <1>3 DEF Partial
    <2> QED
      BY <1>1, <1>3, <2>1, <2>2
  <1>4. CASE j.op = "marker"
    <2>1. Finished(j) = [old EXCEPT ![j.addr] = j.cell] /\ j.addr \in Slots
          /\ j.cell = [old[j.addr] EXCEPT !.mark = "ok"]
      BY <1>4 DEF Finished, Harmless
    <2>2. Partial(j) = {[old EXCEPT ![j.addr].mark = m] : m \in {old[j.addr].mark, "torn", "ok"}}
      BY <1>4 DEF Partial
    <2>3. [old EXCEPT ![j.addr].mark = "ok"] = Finished(j)
      BY <1>1, <2>1
    <2> QED
      BY <1>1, <1>4, <2>1, <2>2, <2>3
  <1>5. CASE j.op = "erase"
    BY <1>5, BuiltCells DEF Finished, Partial, AllBlank, BlankFrom
  <1> QED
    BY <1>2, <1>3, <1>4, <1>5 DEF Harmless

-----------------------------------------------------------------------------
(* A start-up from a flash in order. *)

\* A start-up finds the latest state page of a sector that has one.
LEMMA LatestPageFound ==
  ASSUME NEW cells \in [Slots -> Cells], StatePages(cells) # {}
  PROVE  /\ LatestPage(cells) \in Slots /\ Marked(cells[LatestPage(cells)])
         /\ StateCount(cells) \in Nat /\ StateCount(cells) > 0
  <1> DEFINE S == StatePages(cells)
             Later(p, a) == \/ cells[a].cnt < cells[p].cnt
                            \/ cells[a].cnt = cells[p].cnt /\ a < p
             Above(a) == {p \in S : Later(p, a)}
             K == {Cardinality(Above(a)) : a \in S}
  <1>1. S \in SUBSET Slots /\ \A a \in S : Marked(cells[a])
    BY StatePagesMarked
  <1>2. \A a \in S : a \in Nat /\ cells[a].cnt \in Nat /\ cells[a].cnt > 0
    <2> SUFFICES ASSUME NEW a \in S
                 PROVE  a \in Nat /\ cells[a].cnt \in Nat /\ cells[a].cnt > 0
      OBVIOUS
    <2>1. a \in Slots /\ cells[a] \in Cells /\ cells[a].kind = "state"
      BY <1>1 DEF Marked
    <2>2. cells[a].cnt \in Nat \ {0}
      BY <2>1, CellFacts
    <2> QED
      BY <2>1, <2>2, SlotFacts
  <1>3. IsFiniteSet(S)
    <2>1. IsFiniteSet(Slots)
      BY FS_Interval, SlotFacts
    <2> HIDE DEF S
    <2> QED
      BY <1>1, <2>1, FS_Subset
  <1> HIDE DEF S
  <1>4. \A a \in S : IsFiniteSet(Above(a)) /\ Cardinality(Above(a)) \in Nat
    BY <1>3, FS_Subset, FS_CardinalityType
  <1>5. PICK a \in S : \A p \in S : Cardinality(Above(a)) <= Cardinality(Above(p))
    <2>1. K \in SUBSET Nat /\ K # {}
      BY <1>4 DEF S
    <2>2. PICK n \in K : \A m \in K : n <= m
      BY <2>1, LeastElement
    <2>3. PICK a \in S : n = Cardinality(Above(a))
      BY <2>2
    <2>4. \A p \in S : Cardinality(Above(p)) \in K
      OBVIOUS
    <2> HIDE DEF K, Above
    <2> QED
      BY <2>2, <2>3, <2>4
  <1>6. Above(a) = {}
    <2> SUFFICES ASSUME NEW p \in S, Later(p, a) PROVE FALSE
      OBVIOUS
    <2>1. Above(p) \subseteq Above(a) /\ p \in Above(a) /\ p \notin Above(p)
      BY <1>2
    <2>5. IsFiniteSet(Above(a)) /\ Cardinality(Above(a)) \in Nat /\ Cardinality(Above(p)) \in Nat
          /\ Cardinality(Above(a)) <= Cardinality(Above(p))
      BY <1>4, <1>5
    <2> HIDE DEF Above, Later
    <2>2. Cardinality(Above(p)) # Cardinality(Above(a))
      BY <2>1, <2>5, FS_Subset
    <2>3. Cardinality(Above(p)) <= Cardinality(Above(a))
      BY <2>1, <2>5, FS_Subset
    <2> QED
      BY <2>2, <2>3, <2>5
  <1>7. \A p \in S : cells[p].cnt < cells[a].cnt \/ (cells[p].cnt = cells[a].cnt /\ p <= a)
    BY <1>2, <1>6
  <1>8. LatestPage(cells) \in S
    BY <1>5, <1>7 DEF LatestPage, S
  <1>9. StateCount(cells) = cells[LatestPage(cells)].cnt
    BY DEF StateCount
  <1> QED
    BY <1>1, <1>2, <1>8, <1>9

\* The end of a sector in order: a start-up finds its last used wordline.
LEMMA FreeEnd ==
  ASSUME NEW fl, InOrder(fl), NEW s \in Sectors
  PROVE  LET free == Boot(fl).NextFreeWL[s]
         IN /\ free \in Nat /\ OpenWL(fl[s], free)
            /\ UsedWLs(fl[s]) # {} => Unread(fl[s], free)
            /\ UsedWLs(fl[s]) = {} => BlankFrom(fl[s], 0)
  <1> DEFINE cells == fl[s]
             S == UsedWLs(cells)
             w == Max(S)
             free == Boot(fl).NextFreeWL[s]
  <1>1. UsedFromBeginning(cells) /\ cells \in [Slots -> Cells]
    BY DEF InOrder
  <1>2. \A a \in Slots : cells[a] # Blank => WLBeginning(a) \in S
    <2> TAKE a \in Slots
    <2>1. WLBeginning(a) \in Slots /\ IsWLBeginning(WLBeginning(a))
      BY WordlineSlots, WordlineFacts, SlotFacts
    <2> QED
      BY <2>1, <1>1 DEF UsedFromBeginning, UsedWLs
  <1>3. free = IF S = {} THEN 0 ELSE NextWL(w)
    BY DEF Boot
  <1>4. S \in SUBSET Slots /\ \A p \in S : p \in Slots /\ IsWLBeginning(p) /\ cells[p] # Blank
    BY DEF UsedWLs
  <1> HIDE DEF S, free
  <1>5. CASE S = {}
    <2>1. BlankFrom(cells, 0)
      BY <1>2, <1>5 DEF BlankFrom
    <2> QED
      BY <1>3, <1>5, <2>1, WordlineSlots DEF OpenWL, free, S
  <1>6. CASE S # {}
    <2>1. w \in S /\ \A y \in S : y <= w
      BY <1>4, <1>6, GreatestElement
    <2> HIDE DEF w
    <2>2. w \in Nat /\ w \in Slots /\ IsWLBeginning(w) /\ cells[w] # Blank
      BY <1>4, <2>1, SlotFacts
    <2>3. NextWL(w) = w + PerWL /\ WLBeginning(w) = w /\ NextWL(w) \in Nat
          /\ IsWLBeginning(NextWL(w)) /\ PerWL \in Nat
      BY <2>2, WordlineFacts, WordlineSize
    <2>4. BlankFrom(cells, w + PerWL)
      <3> SUFFICES ASSUME NEW a \in Slots, a >= w + PerWL, cells[a] # Blank PROVE FALSE
        BY DEF BlankFrom
      <3>1. a \in Nat /\ WLBeginning(a) \in Nat /\ WLBeginning(a) <= w
        BY <1>2, <2>1, SlotFacts, WordlineFacts
      <3>2. a < WLBeginning(a) + PerWL
        BY <3>1, WordlineFacts
      <3> QED
        BY <2>2, <2>3, <3>1, <3>2
    <2>5. free = w + PerWL /\ free - PerWL = w /\ free >= PerWL /\ free \in Nat
      BY <1>3, <1>6, <2>2, <2>3 DEF w
    <2>6. Unread(cells, free)
      BY <2>2, <2>3, <2>4, <2>5 DEF Unread, OpenWL
    <2> QED
      BY <1>6, <2>5, <2>6 DEF Unread, free, S
  <1> QED
    BY <1>5, <1>6

\* What Fee_Init sets has its types.
LEMMA BootFaultTypes ==
  ASSUME NEW fl, InOrder(fl)
  PROVE  FaultTypes(Boot(fl))
  <1> DEFINE f == Boot(fl)
  <1>1. \A s \in Sectors : fl[s] \in [Slots -> Cells]
    BY DEF InOrder
  <1>2. f.CurrSector \in Sectors
    BY SlotFacts DEF Boot, ValidSector
  <1>3. f.StateCount \in Nat
    <2> DEFINE g == [s \in Sectors |-> StateCount(fl[s])]
    <2>1. g \in [Sectors -> Nat]
      <3>1. \A s \in Sectors : StateCount(fl[s]) \in Nat
        <4> TAKE s \in Sectors
        <4>1. StatePages(fl[s]) = {} => StateCount(fl[s]) = 0
          BY DEF StateCount
        <4> QED
          BY <1>1, <4>1, LatestPageFound
      <3> QED
        BY <3>1
    <2>2. f.StateCount = Max({g[s] : s \in Sectors})
      BY DEF Boot
    <2> QED
      BY <2>1, <2>2, GreaterOfTwo
  <1>4. f.StatePageAddr \in [Sectors -> Nat]
    <2>1. \A s \in Sectors : StatePages(fl[s]) # {} => LatestPage(fl[s]) \in Nat
      BY <1>1, LatestPageFound, SlotFacts
    <2> QED
      BY <2>1 DEF Boot
  <1>5. f.NextFreeWL \in [Sectors -> Nat]
    <2>1. f.NextFreeWL = [s \in Sectors |-> f.NextFreeWL[s]]
      BY DEF Boot
    <2>2. \A s \in Sectors : f.NextFreeWL[s] \in Nat
      BY FreeEnd
    <2> HIDE DEF f
    <2> QED
      BY <2>1, <2>2
  <1>6. f.Dirty \in [Sectors -> BOOLEAN]
    BY DEF Boot
  <1>7. f.Cache \in [Blocks -> Addresses \cup {NoAddr}] /\ f.Copied \in [Blocks -> BOOLEAN]
    BY DEF Boot
  <1>8. f.InitGCState \in {"EMPTY", "INVALID", "DIRTY", "NORMAL"}
    BY DEF Boot
  <1>9. f.GcResumeState \in {"ERASE", "DATA_COPY", "NORMAL"}
    BY DEF Boot
  <1>10. DOMAIN f = Fields
    BY DEF Boot, Fields
  <1>11. /\ f.MainJob = "INITGC" /\ f.PrepStep = 1 /\ f.PrepDest = 0
         /\ f.CacheUpdated = FALSE /\ f.NextFreePage = 0 /\ f.GcState = "IDLE"
         /\ f.GcInit = FALSE /\ f.GcDest = 0 /\ f.GcCopyIndex = 0 /\ f.BlkModified = FALSE
         /\ f.GcFirstBlkInWL = 0 /\ f.GcSrcAddr = <<>>
         /\ f.Req = NoReq /\ f.IntrJob = "IDLE" /\ f.UserJob = "IDLE"
         /\ f.IntrJobFailCount = 0 /\ f.UserJobFailCount = 0 /\ f.RepairStep = "MARKER"
    BY DEF Boot
  <1> HIDE DEF f
  <1>12. <<>> \in Seq(Addresses)
    OBVIOUS
  <1>13. \A x \in DOMAIN FieldTypes : f[x] \in FieldTypes[x]
    <2>1. /\ f.CurrSector \in FieldTypes.CurrSector /\ f.StateCount \in FieldTypes.StateCount
          /\ f.StatePageAddr \in FieldTypes.StatePageAddr
          /\ f.NextFreeWL \in FieldTypes.NextFreeWL /\ f.Dirty \in FieldTypes.Dirty
          /\ f.Cache \in FieldTypes.Cache /\ f.Copied \in FieldTypes.Copied
          /\ f.InitGCState \in FieldTypes.InitGCState
          /\ f.GcResumeState \in FieldTypes.GcResumeState
      BY <1>2, <1>3, <1>4, <1>5, <1>6, <1>7, <1>8, <1>9 DEF FieldTypes
    <2>2. /\ f.MainJob \in FieldTypes.MainJob /\ f.PrepStep \in FieldTypes.PrepStep
          /\ f.PrepDest \in FieldTypes.PrepDest /\ f.NextFreePage \in FieldTypes.NextFreePage
          /\ f.GcState \in FieldTypes.GcState /\ f.GcDest \in FieldTypes.GcDest
          /\ f.GcCopyIndex \in FieldTypes.GcCopyIndex
          /\ f.GcFirstBlkInWL \in FieldTypes.GcFirstBlkInWL
          /\ f.GcSrcAddr \in FieldTypes.GcSrcAddr /\ f.Req \in FieldTypes.Req
          /\ f.IntrJob \in FieldTypes.IntrJob /\ f.UserJob \in FieldTypes.UserJob
          /\ f.IntrJobFailCount \in FieldTypes.IntrJobFailCount
          /\ f.UserJobFailCount \in FieldTypes.UserJobFailCount
          /\ f.RepairStep \in FieldTypes.RepairStep
      BY <1>11, <1>12 DEF FieldTypes
    <2>3. /\ f.CacheUpdated \in FieldTypes.CacheUpdated /\ f.GcInit \in FieldTypes.GcInit
          /\ f.BlkModified \in FieldTypes.BlkModified
      BY <1>11 DEF FieldTypes
    <2> QED
      BY <2>1, <2>2, <2>3, TypedFields DEF Fields
  <1> QED
    BY <1>10, <1>13 DEF FaultTypes, f

\* A start-up goes on only with a sector that has a state page.
LEMMA BootCurrent ==
  ASSUME NEW fl, InOrder(fl), Boot(fl).InitGCState \in {"DIRTY", "NORMAL"}
  PROVE  LET s == Boot(fl).CurrSector
         IN s \in Sectors /\ StatePages(fl[s]) # {} /\ UsedWLs(fl[s]) # {}
  <1> DEFINE status == DFlashStatus(fl)
             cur == ValidSector(fl)
             st == [s \in Sectors |-> SectorState(fl[s])]
  <1>1. fl[0] \in [Slots -> Cells] /\ fl[1] \in [Slots -> Cells]
        /\ UsedFromBeginning(fl[0]) /\ UsedFromBeginning(fl[1])
    BY SlotFacts DEF InOrder
  <1>2. status \in {"S0_VALID", "S1_VALID", "S0_S1_VALID"}
    BY DEF Boot, DFlashStatus
  <1>3. \A s \in Sectors : /\ StatePages(fl[s]) = {} <=> SectorState(fl[s]) = "STATELESS"
                           /\ StatePages(fl[s]) = {} => StateCount(fl[s]) = 0
                           /\ StatePages(fl[s]) # {} => StateCount(fl[s]) \in Nat /\ StateCount(fl[s]) > 0
    <2> SUFFICES ASSUME NEW s \in Sectors
                 PROVE  /\ StatePages(fl[s]) = {} <=> SectorState(fl[s]) = "STATELESS"
                        /\ StatePages(fl[s]) = {} => StateCount(fl[s]) = 0
                        /\ StatePages(fl[s]) # {} => StateCount(fl[s]) \in Nat /\ StateCount(fl[s]) > 0
      OBVIOUS
    <2>1. fl[s] \in [Slots -> Cells]
      BY <1>1, SlotFacts
    <2>2. CASE StatePages(fl[s]) = {}
      BY <2>2 DEF SectorState, StateCount
    <2>3. CASE StatePages(fl[s]) # {}
      <3>1. LatestPage(fl[s]) \in Slots /\ Marked(fl[s][LatestPage(fl[s])])
            /\ StateCount(fl[s]) \in Nat /\ StateCount(fl[s]) > 0
        BY <2>1, <2>3, LatestPageFound
      <3>2. fl[s][LatestPage(fl[s])].st \in {"VALID", "ERASED"}
        BY <2>1, <3>1, CellFacts DEF Marked
      <3> QED
        BY <2>3, <3>1, <3>2 DEF SectorState
    <2> QED
      BY <2>2, <2>3
  <1>4. cur \in {0, 1} /\ SectorState(fl[cur]) # "STATELESS"
    <2>1. st[0] = SectorState(fl[0]) /\ st[1] = SectorState(fl[1]) /\ 0 \in Sectors /\ 1 \in Sectors
      BY SlotFacts
    <2>2. CASE status = "S0_VALID"
      <3>1. SectorState(fl[0]) = "VALID"
        BY <2>1, <2>2 DEF DFlashStatus
      <3> QED
        BY <2>2, <3>1 DEF ValidSector
    <2>3. CASE status = "S1_VALID"
      <3>1. SectorState(fl[1]) = "VALID"
        BY <2>1, <2>3 DEF DFlashStatus
      <3> QED
        BY <2>3, <3>1 DEF ValidSector
    <2>4. CASE status = "S0_S1_VALID"
      <3>1. \/ SectorState(fl[0]) = "VALID" /\ SectorState(fl[1]) \in {"VALID", "STATELESS"}
            \/ SectorState(fl[0]) = "STATELESS" /\ SectorState(fl[1]) = "VALID"
        BY <2>1, <2>4 DEF DFlashStatus
      <3>2. cur = IF StateCount(fl[0]) > StateCount(fl[1]) THEN 0 ELSE 1
        BY <2>4 DEF ValidSector
      <3>3. SectorState(fl[1]) = "STATELESS" => StateCount(fl[0]) > StateCount(fl[1])
        BY <1>3, <2>1, <3>1
      <3>4. SectorState(fl[0]) = "STATELESS" => ~(StateCount(fl[0]) > StateCount(fl[1]))
        BY <1>3, <2>1, <3>1
      <3> QED
        BY <3>2, <3>3, <3>4
    <2> QED
      BY <1>2, <2>2, <2>3, <2>4
  <1>5. Boot(fl).CurrSector = cur
    BY DEF Boot
  <1>6. StatePages(fl[cur]) # {}
    BY <1>3, <1>4, SlotFacts
  <1>7. PICK a \in Slots : a \in StatePages(fl[cur])
    BY <1>6 DEF StatePages
  <1>8. fl[cur][a] # Blank /\ fl[cur][WLBeginning(a)] # Blank
    BY <1>1, <1>4, <1>7, BuiltCells DEF StatePages, UsedFromBeginning
  <1>9. WLBeginning(a) \in UsedWLs(fl[cur])
    BY <1>7, <1>8, WordlineSlots, WordlineFacts, SlotFacts DEF UsedWLs
  <1> QED
    BY <1>4, <1>5, <1>6, <1>9, SlotFacts

\* From any flash in order a start-up can begin.
LEMMA BootFault ==
  ASSUME NEW fl, InOrder(fl)
  PROVE  FaultInv(fl, Boot(fl), NoJob)
  <1> DEFINE f == Boot(fl)
  <1>1. FaultTypes(f)
    BY BootFaultTypes
  <1>2. /\ f.MainJob = "INITGC" /\ f.PrepStep = 1 /\ f.PrepDest = 0
        /\ f.CacheUpdated = FALSE /\ f.GcState = "IDLE" /\ f.GcDest = 0
        /\ f.Req = NoReq /\ f.IntrJob = "IDLE" /\ f.UserJob = "IDLE"
        /\ f.IntrJobFailCount = 0 /\ f.RepairStep = "MARKER"
    BY DEF Boot
  <1>3. f.InitGCState \in {"EMPTY", "INVALID", "DIRTY", "NORMAL"}
    BY DEF Boot
  <1>4. ~IntrRuns(NoJob)
    BY DEF IntrRuns
  <1>5. f.InitGCState = "EMPTY" => f.CurrSector = 0 /\ BlankFrom(fl[0], 0) /\ BlankFrom(fl[1], 0)
    <2> HAVE f.InitGCState = "EMPTY"
    <2>1. DFlashStatus(fl) = "EMPTY"
      BY DEF Boot
    <2>2. \A s \in Sectors : SectorState(fl[s]) = "STATELESS" /\ ~IsUsed(fl[s])
      BY <2>1, SlotFacts DEF DFlashStatus
    <2>3. \A s \in Sectors : UsedWLs(fl[s]) = {}
      BY <2>2 DEF IsUsed
    <2>4. f.CurrSector = 0
      BY <2>1 DEF Boot, ValidSector
    <2> QED
      BY <2>3, <2>4, FreeEnd, SlotFacts
  <1>6. \A s \in Sectors : f.Dirty[s] =>
          f.StatePageAddr[s] \in Slots /\ fl[s][f.StatePageAddr[s]].kind = "state"
    <2> SUFFICES ASSUME NEW s \in Sectors, f.Dirty[s]
                 PROVE  f.StatePageAddr[s] \in Slots /\ fl[s][f.StatePageAddr[s]].kind = "state"
      OBVIOUS
    <2>1. StatePages(fl[s]) # {} /\ f.StatePageAddr[s] = LatestPage(fl[s])
      BY DEF Boot
    <2>2. fl[s] \in [Slots -> Cells]
      BY DEF InOrder
    <2> QED
      BY <2>1, <2>2, LatestPageFound DEF Marked
  <1>7. f.InitGCState = "DIRTY" => \E s \in Sectors : f.Dirty[s]
    BY DEF Boot
  <1>8. f.InitGCState \in {"DIRTY", "NORMAL"} =>
          /\ f.CurrSector \in Sectors /\ f.StateCount > 0
          /\ Unread(fl[f.CurrSector], f.NextFreeWL[f.CurrSector])
    <2> HAVE f.InitGCState \in {"DIRTY", "NORMAL"}
    <2> DEFINE cur == f.CurrSector
               g == [s \in Sectors |-> StateCount(fl[s])]
    <2>1. cur \in Sectors /\ StatePages(fl[cur]) # {} /\ UsedWLs(fl[cur]) # {}
      BY BootCurrent
    <2>2. \A s \in Sectors : StateCount(fl[s]) \in Nat
      <3> TAKE s \in Sectors
      <3>1. fl[s] \in [Slots -> Cells]
        BY DEF InOrder
      <3> QED
        BY <3>1, LatestPageFound DEF StateCount
    <2>3. f.StateCount = Max({g[s] : s \in Sectors})
      BY DEF Boot
    <2>4. g[cur] > 0 /\ g \in [Sectors -> Nat]
      BY <2>1, <2>2, LatestPageFound DEF InOrder
    <2>5. Unread(fl[cur], f.NextFreeWL[cur])
      BY <2>1, FreeEnd
    <2> HIDE DEF g, f
    <2>6. f.StateCount \in Nat /\ g[cur] <= f.StateCount /\ g[cur] \in Nat
      BY <2>1, <2>3, <2>4, GreaterOfTwo
    <2> QED
      BY <2>1, <2>4, <2>5, <2>6
  <1>9. \A s \in Sectors : OpenWL(fl[s], f.NextFreeWL[s])
    BY FreeEnd
  <1> HIDE DEF f
  <1>10. MainInv(f, NoJob)
    BY <1>2, <1>3, <1>4 DEF MainInv, Quiet
  <1>11. UserFault(fl, f, NoJob)
    BY <1>2 DEF UserFault, Stage, UserWrites
  <1>12. PrepFault(fl, f, NoJob)
    <2> SUFFICES ASSUME f.InitGCState = "EMPTY" PROVE PrepFault(fl, f, NoJob)
      BY <1>3 DEF PrepFault
    <2>1. IsWLBeginning(0) /\ 1 % 2 = 1 /\ PrepSector[1] = 0 /\ PrepEnd(1) = 2 * PerWL
      BY WordlineSlots, PrepSteps DEF PrepEnd
    <2>2. 0 + 2 * PerWL <= 2 * PerWL /\ 1 \in 1 .. 6
      BY WordlineSize
    <2>3. OpenWL(fl[0], 0) /\ Quiet(f, NoJob)
      BY <1>2, <1>4, <1>5, <2>1 DEF OpenWL, Quiet
    <2> QED
      BY <1>2, <1>5, <2>1, <2>2, <2>3 DEF PrepFault, Cur
  <1>13. RepairFault(fl, f, NoJob)
    BY <1>2, <1>4, <1>6, <1>7 DEF RepairFault
  <1>14. StartFault(fl, f, NoJob)
    BY <1>2, <1>3, <1>4, <1>8, <1>9 DEF StartFault, Quiet, Cur
  <1>15. GcFault(fl, f, NoJob) /\ CacheFault(fl, f)
    BY <1>2, <1>3 DEF GcFault, CacheFault
  <1> QED
    BY <1>1, <1>10, <1>11, <1>12, <1>13, <1>14, <1>15 DEF FaultInv, f

-----------------------------------------------------------------------------
(* Jobs of the flash driver.                                               *)

\* The types, field by field.
LEMMA FieldFacts ==
  ASSUME NEW f, FaultTypes(f)
  PROVE  /\ DOMAIN f = Fields
         /\ f.MainJob \in {"INITGC", "CACHEUPDATE", "READ", "WRITE", "GC", "NONE"}
         /\ f.InitGCState \in
              {"EMPTY", "INVALID", "DIRTY", "NORMAL", "PREPARE", "COMPLETE", "FAIL"}
         /\ f.GcResumeState \in {"ERASE", "DATA_COPY", "NORMAL"}
         /\ f.RepairStep \in {"MARKER", "PAGE"}
         /\ f.PrepStep \in Nat /\ f.PrepDest \in Nat /\ f.StateCount \in Nat
         /\ f.CurrSector \in Sectors /\ Cur(f) \in Sectors /\ Oth(f) \in Sectors /\ Oth(f) # Cur(f)
         /\ Other(Oth(f)) = Cur(f)
         /\ f.StatePageAddr \in [Sectors -> Nat] /\ f.NextFreeWL \in [Sectors -> Nat]
         /\ f.Dirty \in [Sectors -> BOOLEAN] /\ f.CacheUpdated \in BOOLEAN
         /\ f.Cache \in [Blocks -> Addresses \cup {NoAddr}] /\ f.Copied \in [Blocks -> BOOLEAN]
         /\ f.NextFreePage \in Nat
         /\ f.GcState \in {"IDLE", "REQUESTED", "START_COPY", "COPY_WRITE", "V_SP", "V_M",
                           "ERASE", "E_SP", "E_M", "FAIL"}
         /\ f.GcInit \in BOOLEAN /\ f.GcDest \in Nat /\ f.GcCopyIndex \in Nat
         /\ f.GcFirstBlkInWL \in Nat /\ f.GcSrcAddr \in Seq(Addresses) /\ f.BlkModified \in BOOLEAN
         /\ f.IntrJob \in {"IDLE", "PASS", "FAIL"} /\ f.IntrJobFailCount \in {0, 1}
         /\ f.Req \in Requests \cup {NoReq}
         /\ f.UserJob \in {"IDLE", "PASS", "FAIL"} /\ f.UserJobFailCount \in {0, 1}
         /\ DirtySector(f) \in Sectors
  <1>1. \A x \in DOMAIN FieldTypes : f[x] \in FieldTypes[x]
    BY DEF FaultTypes
  <1>2. f.CurrSector \in Sectors
    BY <1>1 DEF FieldTypes
  <1>3. Cur(f) \in Sectors /\ Oth(f) \in Sectors /\ Oth(f) # Cur(f) /\ Other(Oth(f)) = Cur(f)
        /\ DirtySector(f) \in Sectors
    BY <1>2, SlotFacts DEF Cur, Oth, DirtySector
  <1>4. /\ f.MainJob \in FieldTypes.MainJob /\ f.InitGCState \in FieldTypes.InitGCState
        /\ f.GcResumeState \in FieldTypes.GcResumeState /\ f.RepairStep \in FieldTypes.RepairStep
        /\ f.PrepStep \in FieldTypes.PrepStep /\ f.PrepDest \in FieldTypes.PrepDest
        /\ f.StateCount \in FieldTypes.StateCount
        /\ f.StatePageAddr \in FieldTypes.StatePageAddr /\ f.NextFreeWL \in FieldTypes.NextFreeWL
        /\ f.Dirty \in FieldTypes.Dirty /\ f.CacheUpdated \in FieldTypes.CacheUpdated
    BY <1>1 DEF FieldTypes
  <1>5. /\ f.Cache \in FieldTypes.Cache /\ f.Copied \in FieldTypes.Copied
        /\ f.NextFreePage \in FieldTypes.NextFreePage /\ f.GcState \in FieldTypes.GcState
        /\ f.GcInit \in FieldTypes.GcInit /\ f.GcDest \in FieldTypes.GcDest
        /\ f.GcCopyIndex \in FieldTypes.GcCopyIndex
        /\ f.GcFirstBlkInWL \in FieldTypes.GcFirstBlkInWL
        /\ f.GcSrcAddr \in FieldTypes.GcSrcAddr /\ f.BlkModified \in FieldTypes.BlkModified
    BY <1>1 DEF FieldTypes
  <1>6. /\ f.IntrJob \in FieldTypes.IntrJob /\ f.IntrJobFailCount \in FieldTypes.IntrJobFailCount
        /\ f.Req \in FieldTypes.Req /\ f.UserJob \in FieldTypes.UserJob
        /\ f.UserJobFailCount \in FieldTypes.UserJobFailCount
    BY <1>1 DEF FieldTypes
  <1>7. DOMAIN f = Fields
    BY DEF FaultTypes
  <1> QED
    BY <1>2, <1>3, <1>4, <1>5, <1>6, <1>7 DEF FieldTypes

\* A sector in order.
LEMMA OrderFacts ==
  ASSUME NEW fl, InOrder(fl), NEW s \in Sectors
  PROVE  fl[s] \in [Slots -> Cells] /\ UsedFromBeginning(fl[s])
  BY DEF InOrder

\* The results of a job: it has passed, and is done, or it has failed.
Outcome(j, cells, result) ==
  /\ cells \in Partial(j) /\ result \in {"PASS", "FAIL"}
  /\ result = "PASS" => cells = Finished(j)

\* What a job leaves of the flash.
LEMMA JobOutcome ==
  ASSUME InOrder(flash), NEW j, Harmless(flash, j), NEW cells, NEW result,
         Outcome(j, cells, result)
  PROVE  LET new == After(flash, j.sector, cells)
         IN /\ InOrder(new) /\ Changes(flash, j, cells)
            /\ new[j.sector] = cells
            /\ \A t \in Sectors : t # j.sector => new[t] = flash[t]
            /\ j.op = "read" => new = flash
            /\ j.op # "erase" =>
                 \A t \in Sectors : \A p \in Slots :
                   /\ flash[t][p].kind = "copy" => new[t][p] = flash[t][p]
                   /\ flash[t][p].kind = "state" => new[t][p].kind = "state"
                   /\ flash[t][p] # Blank => new[t][p] # Blank
  <1> DEFINE new == After(flash, j.sector, cells)
             s == j.sector
  <1>1. InOrder(new) /\ Changes(flash, j, cells)
    BY JobLeaves DEF Outcome
  <1>2. s \in Sectors /\ flash \in [Sectors -> [Slots -> Cells]]
    BY DEF Harmless, InOrder
  <1>3. new[s] = cells /\ \A t \in Sectors : t # s => new[t] = flash[t]
    BY <1>2 DEF After
  <1>4. j.op = "read" => new = flash
    BY <1>1, <1>2 DEF After, Changes
  <1> HIDE DEF new
  <1>5. ASSUME j.op # "erase", NEW p \in Slots
        PROVE  /\ flash[s][p].kind = "copy" => cells[p] = flash[s][p]
               /\ flash[s][p].kind = "state" => cells[p].kind = "state"
               /\ flash[s][p] # Blank => cells[p] # Blank
    <2>1. CASE j.op = "read"
      BY <1>1, <2>1 DEF Changes
    <2>2. CASE j.op = "program"
      <3>1. flash[s][j.addr] = Blank /\ Blank.kind = "blank"
        BY <2>2, SlotFacts, BuiltCells DEF Harmless, Open, BlankFrom
      <3> QED
        BY <1>1, <2>2, <3>1 DEF Changes
    <2>3. CASE j.op = "marker"
      <3>1. flash[s][j.addr].kind = "state" /\ cells[j.addr].kind = "state" /\ Blank.kind = "blank"
        BY <1>1, <2>3, BuiltCells DEF Harmless, Changes
      <3> QED
        BY <1>1, <2>3, <3>1 DEF Changes
    <2> QED
      BY <1>5, <2>1, <2>2, <2>3 DEF Harmless
  <1> QED
    BY <1>1, <1>3, <1>4, <1>5 DEF new

\* A program job that ends.
LEMMA ProgrammingEnds ==
  ASSUME InOrder(flash), NEW j, NEW owner, NEW s \in Sectors, NEW a, NEW c \in Cells,
         Programming(flash, j, owner, s, a, c), NEW cells, NEW result, Outcome(j, cells, result)
  PROVE  /\ Harmless(flash, j) /\ j.sector = s /\ j.op = "program"
         /\ Ended(After(flash, s, cells), result, s, a, c)
  <1>1. j.sector = s /\ j.op = "program" /\ j.addr = a /\ j.cell = c /\ a \in Slots
    BY DEF Programming, Programs, IsJob
  <1>2. Harmless(flash, j)
    BY <1>1 DEF Harmless, Programming
  <1>3. Changes(flash, j, cells) /\ After(flash, s, cells)[s] = cells
    BY <1>1, <1>2, JobOutcome
  <1>4. result = "PASS" => cells[a] = c
    BY <1>1, <1>2, JobCompletes DEF Outcome
  <1> QED
    BY <1>1, <1>2, <1>3, <1>4 DEF Ended, Outcome, Changes

\* The job for a state page ends.
LEMMA PageRunsEnds ==
  ASSUME InOrder(flash), NEW j, NEW s \in Sectors, NEW a,
         PageRuns(flash, j, s, a), NEW cells, NEW result, Outcome(j, cells, result)
  PROVE  /\ Harmless(flash, j) /\ j.sector = s /\ j.op = "program"
         /\ PageEnded(After(flash, s, cells), result, s, a)
  <1>1. j.sector = s /\ j.op = "program" /\ j.addr = a /\ IsPage(j.cell, "none") /\ a \in Slots
        /\ IsWLBeginning(a)
    BY DEF PageRuns, IsJob, OpenWL
  <1>2. Harmless(flash, j)
    BY <1>1, OpenWordline DEF Harmless, PageRuns, IsPage, Cells
  <1>3. Changes(flash, j, cells) /\ After(flash, s, cells)[s] = cells
    BY <1>1, <1>2, JobOutcome
  <1>4. result = "PASS" => cells[a] = j.cell
    BY <1>1, <1>2, JobCompletes DEF Outcome
  <1> QED
    BY <1>1, <1>2, <1>3, <1>4 DEF PageEnded, Outcome, Changes

\* The job for a marker ends.
LEMMA MarkerRunsEnds ==
  ASSUME InOrder(flash), NEW j, NEW s \in Sectors, NEW a,
         MarkerRuns(flash, j, s, a), NEW cells, NEW result, Outcome(j, cells, result)
  PROVE  /\ Harmless(flash, j) /\ j.sector = s /\ j.op = "marker"
         /\ MarkerEnded(After(flash, s, cells), result, s, a)
  <1>1. j.sector = s /\ j.op = "marker" /\ j.addr = a /\ a \in Slots /\ IsPage(flash[s][a], "none")
        /\ j.cell = [flash[s][a] EXCEPT !.mark = "ok"]
    BY DEF MarkerRuns, Marks, IsJob
  <1>2. Harmless(flash, j)
    BY <1>1 DEF Harmless, IsPage, Pages
  <1>3. Changes(flash, j, cells) /\ After(flash, s, cells)[s] = cells
    BY <1>1, <1>2, JobOutcome
  <1> QED
    BY <1>1, <1>2, <1>3 DEF MarkerRuns, MarkerEnded, Outcome, Changes

\* The cell a user's job programs.
UserCell(fl, f) ==
  IF Stage(f, "compare") THEN BlockCopy(f.Req.blk, f.Req.val) ELSE fl[Cur(f)][f.Affected]

\* The cell a job of the collection copies.
GcCopyOf(fl, f) == fl[Cur(f)][f.Cache[f.GcCopyIndex].slot]

\* What a running job is for.
LEMMA FaultForms ==
  ASSUME NEW fl, NEW f, NEW j, FaultInv(fl, f, j), j # NoJob
  PROVE  \/ /\ ~IntrRuns(j) /\ UserWrites(f) /\ f.CacheUpdated /\ f.UserJob = "IDLE"
            /\ Programming(fl, j, "user", Cur(f), f.NextFreePage, UserCell(fl, f))
            /\ UserCell(fl, f) \in Cells /\ f.MainJob = "WRITE" /\ f.InitGCState = "COMPLETE"
         \/ /\ ~IntrRuns(j) /\ Stage(f, "reading") /\ f.CacheUpdated
            /\ \E at \in Addresses : Reads(fl, j, at)
         \/ /\ IntrRuns(j) /\ f.InitGCState = "PREPARE" /\ f.IntrJob = "IDLE" /\ ~f.CacheUpdated
            /\ f.PrepStep \in 1 .. 6
            /\ IF f.PrepStep % 2 = 1 THEN PageRuns(fl, j, PrepSector[f.PrepStep], f.PrepDest)
               ELSE MarkerRuns(fl, j, PrepSector[f.PrepStep], f.PrepDest)
         \/ /\ IntrRuns(j) /\ f.InitGCState = "DIRTY" /\ f.IntrJob = "IDLE" /\ ~f.CacheUpdated
            /\ \/ /\ f.RepairStep = "MARKER"
                  /\ Marks(fl, j, DirtySector(f), f.StatePageAddr[DirtySector(f)])
               \/ /\ f.RepairStep = "PAGE"
                  /\ f.NextFreeWL[DirtySector(f)] = f.StatePageAddr[DirtySector(f)] + PerWL
                  /\ PageRuns(fl, j, DirtySector(f), f.StatePageAddr[DirtySector(f)])
         \/ /\ IntrRuns(j) /\ f.InitGCState = "COMPLETE" /\ f.GcState \in Busy
            /\ f.IntrJob = "IDLE"
            /\ CASE f.GcState = "COPY_WRITE" ->
                      /\ Programming(fl, j, "intr", Oth(f), f.GcDest, GcCopyOf(fl, f))
                      /\ GcCopyOf(fl, f) \in Cells
                 [] f.GcState \in {"V_SP", "E_SP"} -> PageRuns(fl, j, Oth(f), f.GcDest)
                 [] f.GcState \in {"V_M", "E_M"} -> MarkerRuns(fl, j, Oth(f), f.GcDest)
                 [] f.GcState = "ERASE" -> Erases(j, Oth(f)) /\ f.GcDest = 0
  <1>1. /\ FaultTypes(f) /\ UserFault(fl, f, j) /\ MainInv(f, j) /\ StartFault(fl, f, j)
        /\ GcFault(fl, f, j) /\ PrepFault(fl, f, j) /\ RepairFault(fl, f, j) /\ InOrder(fl)
    BY DEF FaultInv
  <1>2. CASE IntrRuns(j)
    <2>1. f.IntrJob = "IDLE" /\ ~Quiet(f, j)
      BY <1>1, <1>2 DEF MainInv, Quiet
    <2>2. /\ f.InitGCState \in {"EMPTY", "INVALID", "DIRTY", "NORMAL", "PREPARE", "COMPLETE", "FAIL"}
          /\ f.RepairStep \in {"MARKER", "PAGE"} /\ Cur(f) \in Sectors
          /\ f.Cache \in [Blocks -> Addresses \cup {NoAddr}]
      BY <1>1, FieldFacts
    <2>3. f.InitGCState \notin {"INVALID", "NORMAL", "FAIL"}
      BY <1>1, <2>1 DEF StartFault
    <2>4. f.InitGCState # "EMPTY"
      BY <1>1, <2>1 DEF PrepFault
    <2>5. f.InitGCState # "COMPLETE" => ~f.CacheUpdated
      BY <1>1 DEF MainInv
    <2>6. CASE f.InitGCState = "PREPARE"
      BY <1>1, <1>2, <2>1, <2>5, <2>6 DEF PrepFault
    <2>7. CASE f.InitGCState = "DIRTY"
      BY <1>1, <1>2, <2>1, <2>2, <2>5, <2>7 DEF RepairFault
    <2>8. CASE f.InitGCState = "COMPLETE"
      <3>1. f.GcState \in Busy
        BY <1>1, <2>1, <2>8 DEF GcFault
      <3>2. CASE f.GcState = "COPY_WRITE"
        <4>1. /\ f.GcCopyIndex \in Blocks /\ f.Cache[f.GcCopyIndex] # NoAddr
              /\ Programming(fl, j, "intr", Oth(f), f.GcDest, GcCopyOf(fl, f))
          BY <1>1, <1>2, <2>8, <3>2 DEF GcFault, GcCopyOf
        <4>2. f.Cache[f.GcCopyIndex].slot \in Slots
          BY <2>2, <4>1, AddressFacts
        <4>3. GcCopyOf(fl, f) \in Cells
          BY <1>1, <2>2, <4>2, OrderFacts DEF GcCopyOf
        <4> QED
          BY <1>2, <2>1, <2>8, <3>1, <3>2, <4>1, <4>3
      <3>3. CASE f.GcState \in {"V_SP", "E_SP"}
        BY <1>1, <1>2, <2>1, <2>8, <3>1, <3>3 DEF GcFault
      <3>4. CASE f.GcState \in {"V_M", "E_M"}
        BY <1>1, <1>2, <2>1, <2>8, <3>1, <3>4 DEF GcFault
      <3>5. CASE f.GcState = "ERASE"
        BY <1>1, <1>2, <2>1, <2>8, <3>1, <3>5 DEF GcFault
      <3> QED
        BY <3>1, <3>2, <3>3, <3>4, <3>5 DEF Busy
    <2> QED
      BY <2>2, <2>3, <2>4, <2>6, <2>7, <2>8
  <1>3. CASE ~IntrRuns(j)
    <2>1. UserWrites(f) \/ Stage(f, "reading")
      BY <1>1, <1>3 DEF UserFault
    <2>2. CASE Stage(f, "reading")
      BY <1>1, <1>3, <2>2 DEF UserFault
    <2>3. CASE UserWrites(f)
      <3>1. /\ f.MainJob = "WRITE" /\ f.CacheUpdated /\ f.UserJob = "IDLE"
            /\ Programming(fl, j, "user", Cur(f), f.NextFreePage, UserCell(fl, f))
            /\ Stage(f, "recopy") => f.Affected \in Slots
        <4>1. CASE Stage(f, "compare")
          <5>1. ~Stage(f, "recopy")
            BY <4>1 DEF Stage
          <5> QED
            BY <1>1, <4>1, <5>1 DEF UserFault, UserCell
        <4>2. CASE Stage(f, "recopy")
          <5>1. ~Stage(f, "compare")
            BY <4>2 DEF Stage
          <5> QED
            BY <1>1, <4>2, <5>1 DEF UserFault, UserCell
        <4> QED
          BY <2>3, <4>1, <4>2 DEF UserWrites
      <3>2. UserCell(fl, f) \in Cells
        <4>1. CASE Stage(f, "compare")
          <5>1. f.Req \in Requests
            BY <1>1, <4>1, FieldFacts DEF Stage
          <5>2. f.Req.blk \in Blocks /\ f.Req.val \in Values \cup {NoValue}
            BY <5>1, RequestFacts
          <5> QED
            BY <4>1, <5>2, BuiltCells DEF UserCell
        <4>2. CASE ~Stage(f, "compare")
          <5>1. f.Affected \in Slots /\ Cur(f) \in Sectors
            BY <1>1, <2>3, <3>1, <4>2, FieldFacts DEF UserWrites
          <5> QED
            BY <1>1, <4>2, <5>1, OrderFacts DEF UserCell
        <4> QED
          BY <4>1, <4>2
      <3>3. f.InitGCState = "COMPLETE"
        BY <1>1, <3>1 DEF MainInv
      <3> QED
        BY <1>3, <2>3, <3>1, <3>2, <3>3
    <2> QED
      BY <2>1, <2>2, <2>3
  <1> QED
    BY <1>2, <1>3

\* What CacheFault says of one block, and of the sources of a wordline.
CachedCopy(fl, f, b) ==
  LET at == f.Cache[b]
  IN /\ fl[at.sector][at.slot].kind = "copy" /\ fl[at.sector][at.slot].blk = b
     /\ at.sector = Cur(f) => at.slot < f.NextFreePage
     /\ at.sector = Oth(f) => f.GcState \in Copying \cup {"FAIL"}
     /\ at.sector = Oth(f) /\ f.GcState \in Copying => f.Copied[b] /\ at.slot < f.GcDest
     /\ f.GcState \in Copying /\ f.Copied[b] => at.sector = Oth(f)
     /\ f.GcState \in {"V_SP", "V_M"} => at.sector = Oth(f)
     /\ f.GcState \in {"START_COPY", "COPY_WRITE"} /\ ~f.BlkModified
          /\ b < f.GcCopyIndex => at.sector = Oth(f)

CopiedFrom(fl, f, at) ==
  at.sector = Cur(f) /\ fl[Cur(f)][at.slot].kind = "copy" /\ at.slot < f.NextFreePage

LEMMA CacheFaultParts ==
  ASSUME NEW fl, NEW f,
         \A b \in Blocks : f.Cache[b] # NoAddr => CachedCopy(fl, f, b),
         f.GcState \in {"START_COPY", "COPY_WRITE"} =>
           \A i \in DOMAIN f.GcSrcAddr : CopiedFrom(fl, f, f.GcSrcAddr[i])
  PROVE  CacheFault(fl, f)
  BY DEF CacheFault, CachedCopy, CopiedFrom

LEMMA CacheFaultGives ==
  ASSUME NEW fl, NEW f, CacheFault(fl, f), f.CacheUpdated
  PROVE  /\ \A b \in Blocks : f.Cache[b] # NoAddr => CachedCopy(fl, f, b)
         /\ f.GcState \in {"START_COPY", "COPY_WRITE"} =>
              \A i \in DOMAIN f.GcSrcAddr : CopiedFrom(fl, f, f.GcSrcAddr[i])
  BY DEF CacheFault, CachedCopy, CopiedFrom

\* The cache's part depends on these, and on the copies it leads to.
LEMMA CacheFaultFrame ==
  ASSUME NEW fl, NEW new, NEW f, NEW g, FaultTypes(f), CacheFault(fl, f),
         g.CacheUpdated = f.CacheUpdated, g.Cache = f.Cache, g.Copied = f.Copied,
         g.GcState = f.GcState, g.BlkModified = f.BlkModified,
         g.GcCopyIndex = f.GcCopyIndex, g.CurrSector = f.CurrSector,
         g.NextFreePage = f.NextFreePage, g.GcDest = f.GcDest, g.GcSrcAddr = f.GcSrcAddr,
         f.CacheUpdated => \A p \in Slots : fl[Cur(f)][p].kind = "copy" => new[Cur(f)][p] = fl[Cur(f)][p],
         f.CacheUpdated /\ f.GcState # "ERASE" =>
           \A p \in Slots : fl[Oth(f)][p].kind = "copy" => new[Oth(f)][p] = fl[Oth(f)][p]
  PROVE  CacheFault(new, g)
  <1>1. Cur(g) = Cur(f) /\ Oth(g) = Oth(f)
    BY DEF Cur, Oth
  <1>2. /\ f.Cache \in [Blocks -> Addresses \cup {NoAddr}] /\ f.GcSrcAddr \in Seq(Addresses)
        /\ Cur(f) \in Sectors /\ Oth(f) \in Sectors /\ Oth(f) # Cur(f)
    BY FieldFacts
  <1>3. SUFFICES ASSUME f.CacheUpdated PROVE CacheFault(new, g)
    BY DEF CacheFault
  <1>4. \A b \in Blocks : f.Cache[b] # NoAddr =>
          /\ f.Cache[b].slot \in Slots
          /\ f.Cache[b].sector = Cur(f) \/ (f.Cache[b].sector = Oth(f) /\ f.GcState # "ERASE")
    <2> SUFFICES ASSUME NEW b \in Blocks, f.Cache[b] # NoAddr
                 PROVE  /\ f.Cache[b].slot \in Slots
                        /\ \/ f.Cache[b].sector = Cur(f)
                           \/ f.Cache[b].sector = Oth(f) /\ f.GcState # "ERASE"
      OBVIOUS
    <2>1. f.Cache[b].slot \in Slots /\ f.Cache[b].sector \in Sectors
      BY <1>2, AddressFacts
    <2>2. f.Cache[b].sector = Cur(f) \/ f.Cache[b].sector = Oth(f)
      BY <1>2, <2>1, SlotFacts
    <2>3. f.Cache[b].sector = Oth(f) => f.GcState \in Copying \cup {"FAIL"}
      BY <1>3 DEF CacheFault
    <2> QED
      BY <2>1, <2>2, <2>3 DEF Copying
  <1>5. \A b \in Blocks : f.Cache[b] # NoAddr =>
          /\ fl[f.Cache[b].sector][f.Cache[b].slot].kind = "copy"
          /\ new[f.Cache[b].sector][f.Cache[b].slot] = fl[f.Cache[b].sector][f.Cache[b].slot]
    BY <1>3, <1>4 DEF CacheFault
  <1>6. f.GcState \in {"START_COPY", "COPY_WRITE"} =>
          \A i \in DOMAIN f.GcSrcAddr :
            /\ fl[Cur(f)][f.GcSrcAddr[i].slot].kind = "copy"
            /\ new[Cur(f)][f.GcSrcAddr[i].slot] = fl[Cur(f)][f.GcSrcAddr[i].slot]
    <2> SUFFICES ASSUME f.GcState \in {"START_COPY", "COPY_WRITE"}, NEW i \in DOMAIN f.GcSrcAddr
                 PROVE  /\ fl[Cur(f)][f.GcSrcAddr[i].slot].kind = "copy"
                        /\ new[Cur(f)][f.GcSrcAddr[i].slot] = fl[Cur(f)][f.GcSrcAddr[i].slot]
      OBVIOUS
    <2>1. f.GcSrcAddr[i] \in Addresses
      BY <1>2
    <2>2. f.GcSrcAddr[i].slot \in Slots
      BY <2>1, AddressFacts
    <2>3. fl[Cur(f)][f.GcSrcAddr[i].slot].kind = "copy"
      BY <1>3 DEF CacheFault
    <2> QED
      BY <1>3, <2>2, <2>3
  <1>7. ASSUME NEW b \in Blocks, g.Cache[b] # NoAddr PROVE CachedCopy(new, g, b)
    <2>1. CachedCopy(fl, f, b)
      BY <1>3, <1>7, CacheFaultGives
    <2> QED
      BY <1>1, <1>5, <1>7, <2>1 DEF CachedCopy
  <1>8. ASSUME f.GcState \in {"START_COPY", "COPY_WRITE"}, NEW i \in DOMAIN f.GcSrcAddr
        PROVE  CopiedFrom(new, g, f.GcSrcAddr[i])
    <2>1. CopiedFrom(fl, f, f.GcSrcAddr[i])
      BY <1>3, <1>8, CacheFaultGives
    <2> QED
      BY <1>1, <1>6, <1>8, <2>1 DEF CopiedFrom
  <1> QED
    BY <1>7, <1>8, CacheFaultParts

\* The collection's part depends on these.
LEMMA GcFaultFrame ==
  ASSUME NEW fl, NEW new, NEW f, NEW g, NEW j, NEW k, GcFault(fl, f, j), FaultTypes(f),
         g.InitGCState = f.InitGCState, g.GcState = f.GcState, g.IntrJob = f.IntrJob,
         g.CurrSector = f.CurrSector, g.NextFreeWL = f.NextFreeWL, g.GcDest = f.GcDest,
         g.GcCopyIndex = f.GcCopyIndex, g.GcBlock = f.GcBlock, g.Cache = f.Cache,
         g.Copied = f.Copied, g.GcSrcAddr = f.GcSrcAddr,
         IntrRuns(j) \/ IntrRuns(k) => k = j,
         f.InitGCState = "COMPLETE" =>
           /\ new[Oth(f)] = fl[Oth(f)]
           /\ f.GcState = "COPY_WRITE" => new[Cur(f)] = fl[Cur(f)]
  PROVE  GcFault(new, g, k)
  <1>1. Cur(g) = Cur(f) /\ Oth(g) = Oth(f)
    BY DEF Cur, Oth
  <1>2. SUFFICES ASSUME f.InitGCState = "COMPLETE" PROVE GcFault(new, g, k)
    BY DEF GcFault
  <1>3. Quiet(f, j) <=> Quiet(g, k)
    BY DEF Quiet
  <1>4. IntrRuns(j) <=> IntrRuns(k)
    OBVIOUS
  <1>5. CASE f.GcState = "COPY_WRITE"
    <2> DEFINE o == Oth(f)
               d == f.GcDest
               c == fl[Cur(f)][f.Cache[f.GcCopyIndex].slot]
    <2>1. Programming(fl, j, "intr", o, d, c) => Programming(new, k, "intr", o, d, c)
      <3>1. Programming(fl, j, "intr", o, d, c) => IntrRuns(j)
        BY DEF Programming, Programs, IsJob, IntrRuns
      <3> QED
        BY <1>2, <3>1 DEF Programming
    <2>2. Ended(fl, f.IntrJob, o, d, c) => Ended(new, f.IntrJob, o, d, c)
      BY <1>2 DEF Ended
    <2>3. c = new[Cur(f)][f.Cache[f.GcCopyIndex].slot]
      BY <1>2, <1>5
    <2> HIDE DEF c
    <2> QED
      BY <1>1, <1>2, <1>4, <1>5, <2>1, <2>2, <2>3 DEF GcFault, Busy, c
  <1>6. CASE f.GcState \in {"V_SP", "E_SP", "V_M", "E_M"}
    <2> DEFINE o == Oth(f)
               d == f.GcDest
    <2>1. PageRuns(fl, j, o, d) => PageRuns(new, k, o, d)
      <3>1. PageRuns(fl, j, o, d) => IntrRuns(j)
        BY DEF PageRuns, IsJob, IntrRuns
      <3> QED
        BY <1>2, <3>1 DEF PageRuns
    <2>2. PageEnded(fl, f.IntrJob, o, d) => PageEnded(new, f.IntrJob, o, d)
      BY <1>2 DEF PageEnded
    <2>3. MarkerRuns(fl, j, o, d) => MarkerRuns(new, k, o, d)
      <3>1. MarkerRuns(fl, j, o, d) => IntrRuns(j)
        BY DEF MarkerRuns, Marks, IsJob, IntrRuns
      <3> QED
        BY <1>2, <3>1 DEF MarkerRuns, Marks
    <2>4. MarkerEnded(fl, f.IntrJob, o, d) => MarkerEnded(new, f.IntrJob, o, d)
      BY <1>2 DEF MarkerEnded
    <2> QED
      BY <1>1, <1>2, <1>3, <1>4, <1>6, <2>1, <2>2, <2>3, <2>4 DEF GcFault, Busy
  <1>7. CASE f.GcState \notin {"COPY_WRITE", "V_SP", "E_SP", "V_M", "E_M"}
    <2>1. Erases(j, Oth(f)) /\ IntrRuns(k) => Erases(k, Oth(f))
      BY <1>4
    <2> QED
      BY <1>1, <1>2, <1>3, <1>4, <1>7, <2>1 DEF GcFault
  <1> QED
    BY <1>5, <1>6, <1>7

\* Once the driver is up, the parts about the start-up say no more than this.
LEMMA StartedFault ==
  ASSUME NEW fl, NEW f, NEW j, f.InitGCState = "COMPLETE", f.CacheUpdated, f.StateCount > 0
  PROVE  PrepFault(fl, f, j) /\ RepairFault(fl, f, j) /\ StartFault(fl, f, j)
  BY DEF PrepFault, RepairFault, StartFault

\* A user's program job ends.
LEMMA UserJobEnds ==
  ASSUME NEW f, NEW j, FaultInv(flash, f, j), j # NoJob, ~IntrRuns(j), UserWrites(f),
         NEW cells, NEW result, Outcome(j, cells, result)
  PROVE  /\ Harmless(flash, j) /\ j.op = "program"
         /\ FaultInv(After(flash, j.sector, cells), [f EXCEPT !.UserJob = result], NoJob)
  <1> DEFINE new == After(flash, j.sector, cells)
             g == [f EXCEPT !.UserJob = result]
             s == Cur(f)
             d == f.NextFreePage
             c == UserCell(flash, f)
  <1>1. /\ InOrder(flash) /\ FaultTypes(f) /\ UserFault(flash, f, j) /\ MainInv(f, j)
        /\ GcFault(flash, f, j) /\ CacheFault(flash, f) /\ StartFault(flash, f, j)
        /\ result \in {"PASS", "FAIL"}
    BY DEF FaultInv, Outcome
  <1>2. ~Stage(f, "reading")
    BY DEF UserWrites, Stage
  <1>3. /\ f.CacheUpdated /\ Programming(flash, j, "user", s, d, c) /\ c \in Cells
        /\ f.MainJob = "WRITE" /\ f.InitGCState = "COMPLETE"
    BY <1>2, FaultForms
  <1>4. s \in Sectors /\ Oth(f) \in Sectors /\ Oth(f) # s /\ DOMAIN f = Fields
    BY <1>1, FieldFacts
  <1>5. Harmless(flash, j) /\ j.sector = s /\ j.op = "program" /\ Ended(new, result, s, d, c)
    BY <1>1, <1>3, <1>4, ProgrammingEnds
  <1>6. /\ InOrder(new) /\ new[Oth(f)] = flash[Oth(f)]
        /\ \A t \in Sectors : \A p \in Slots :
             flash[t][p].kind = "copy" => new[t][p] = flash[t][p]
    BY <1>1, <1>4, <1>5, JobOutcome
  <1>7. g.UserJob = result /\ DOMAIN g = Fields /\ \A x \in Fields : x # "UserJob" => g[x] = f[x]
    BY <1>4 DEF Fields
  <1> HIDE DEF new, g, c
  <1>8. FaultTypes(g)
    <2> DEFINE X == {"UserJob"}
    <2>2. \A x \in Fields \ X : g[x] = f[x]
      BY <1>7
    <2>1. \A x \in X : x \in DOMAIN FieldTypes => g[x] \in FieldTypes[x]
      BY <1>1, <1>7 DEF FieldTypes
    <2> HIDE DEF X
    <2> QED
      BY <1>1, <1>7, <2>1, <2>2, TypesKept
  <1>9. ~IntrRuns(NoJob) /\ Cur(g) = s /\ Oth(g) = Oth(f)
        /\ \A st : Stage(g, st) <=> Stage(f, st)
    BY <1>7 DEF IntrRuns, Cur, Oth, Stage, Fields
  <1>10. MainInv(g, NoJob)
    BY <1>1, <1>7, <1>9 DEF MainInv, Quiet, Fields
  <1>11. UserFault(new, g, NoJob)
    <2>1. CASE Stage(f, "compare")
      <3>1. ~Stage(f, "recopy") /\ ~Stage(f, "fail") /\ ~Stage(f, "stuck") /\ UserWrites(g)
        BY <1>9, <2>1 DEF Stage, UserWrites
      <3>2. c = BlockCopy(g.Req.blk, g.Req.val)
        BY <1>7, <2>1 DEF c, UserCell, Fields
      <3> QED
        BY <1>1, <1>2, <1>5, <1>7, <1>9, <2>1, <3>1, <3>2 DEF UserFault, Fields
    <2>2. CASE Stage(f, "recopy")
      <3>1. ~Stage(f, "compare") /\ ~Stage(f, "fail") /\ ~Stage(f, "stuck") /\ UserWrites(g)
        BY <1>9, <2>2 DEF Stage, UserWrites
      <3>2. f.Affected \in Slots /\ flash[s][f.Affected].kind = "copy"
        BY <1>1, <2>2 DEF UserFault
      <3>3. c = flash[s][f.Affected] /\ new[s][f.Affected] = flash[s][f.Affected]
        BY <1>4, <1>6, <3>1, <3>2 DEF c, UserCell
      <3> QED
        BY <1>1, <1>2, <1>5, <1>7, <1>9, <2>2, <3>1, <3>2, <3>3 DEF UserFault, Fields
    <2> QED
      BY <2>1, <2>2 DEF UserWrites
  <1>12. PrepFault(new, g, NoJob) /\ RepairFault(new, g, NoJob) /\ StartFault(new, g, NoJob)
    <2>1. g.InitGCState = "COMPLETE" /\ g.CacheUpdated /\ g.StateCount > 0
      BY <1>1, <1>3, <1>7 DEF StartFault, Fields
    <2> QED
      BY <2>1, StartedFault
  <1>13. GcFault(new, g, NoJob)
    <2>1. f.GcState # "COPY_WRITE"
      BY <1>1, <1>3 DEF MainInv
    <2>2. /\ g.InitGCState = f.InitGCState /\ g.GcState = f.GcState /\ g.IntrJob = f.IntrJob
          /\ g.CurrSector = f.CurrSector /\ g.NextFreeWL = f.NextFreeWL /\ g.GcDest = f.GcDest
          /\ g.GcCopyIndex = f.GcCopyIndex /\ g.GcBlock = f.GcBlock /\ g.Cache = f.Cache
          /\ g.Copied = f.Copied /\ g.GcSrcAddr = f.GcSrcAddr
      BY <1>7 DEF Fields
    <2> QED
      BY <1>1, <1>6, <1>9, <2>1, <2>2, GcFaultFrame
  <1>14. CacheFault(new, g)
    <2>1. /\ g.CacheUpdated = f.CacheUpdated /\ g.Cache = f.Cache /\ g.Copied = f.Copied
          /\ g.GcState = f.GcState /\ g.BlkModified = f.BlkModified
          /\ g.GcCopyIndex = f.GcCopyIndex /\ g.CurrSector = f.CurrSector
          /\ g.NextFreePage = f.NextFreePage /\ g.GcDest = f.GcDest /\ g.GcSrcAddr = f.GcSrcAddr
      BY <1>7 DEF Fields
    <2> QED
      BY <1>1, <1>4, <1>6, <2>1, CacheFaultFrame
  <1> QED
    BY <1>5, <1>6, <1>8, <1>10, <1>11, <1>12, <1>13, <1>14 DEF FaultInv, new, g

\* A read ends.
LEMMA ReadJobEnds ==
  ASSUME NEW f, NEW j, FaultInv(flash, f, j), j # NoJob, ~IntrRuns(j), Stage(f, "reading"),
         NEW cells, NEW result, Outcome(j, cells, result)
  PROVE  /\ Harmless(flash, j) /\ j.op = "read"
         /\ FaultInv(After(flash, j.sector, cells), [f EXCEPT !.Req = NoReq], NoJob)
  <1> DEFINE g == [f EXCEPT !.Req = NoReq]
  <1>1. /\ InOrder(flash) /\ FaultTypes(f) /\ UserFault(flash, f, j) /\ MainInv(f, j)
        /\ GcFault(flash, f, j) /\ CacheFault(flash, f) /\ StartFault(flash, f, j)
    BY DEF FaultInv
  <1>2. ~UserWrites(f) /\ ~Stage(f, "fail") /\ ~Stage(f, "stuck")
    BY DEF UserWrites, Stage
  <1>3. PICK at \in Addresses : Reads(flash, j, at)
    BY <1>2, FaultForms
  <1>4. Harmless(flash, j) /\ j.op = "read"
    BY <1>3, AddressFacts DEF Harmless, Reads, IsJob
  <1>5. After(flash, j.sector, cells) = flash
    BY <1>1, <1>4, JobOutcome
  <1>6. f.CacheUpdated /\ f.MainJob = "READ" /\ f.UserJob = "IDLE" /\ f.InitGCState = "COMPLETE"
    BY <1>1, <1>2 DEF UserFault, MainInv
  <1>7. DOMAIN f = Fields
    BY <1>1, FieldFacts
  <1>8. g.Req = NoReq /\ DOMAIN g = Fields /\ \A x \in Fields : x # "Req" => g[x] = f[x]
    BY <1>7 DEF Fields
  <1> HIDE DEF g
  <1>9. FaultTypes(g)
    <2> DEFINE X == {"Req"}
    <2>2. \A x \in Fields \ X : g[x] = f[x]
      BY <1>8
    <2>1. \A x \in X : x \in DOMAIN FieldTypes => g[x] \in FieldTypes[x]
      BY <1>8 DEF FieldTypes
    <2> HIDE DEF X
    <2> QED
      BY <1>1, <1>8, <2>1, <2>2, TypesKept
  <1>10. ~IntrRuns(NoJob) /\ Cur(g) = Cur(f) /\ Oth(g) = Oth(f) /\ \A st : ~Stage(g, st)
    BY <1>8 DEF IntrRuns, Cur, Oth, Stage, Fields
  <1>11. MainInv(g, NoJob)
    BY <1>1, <1>8, <1>10 DEF MainInv, Quiet, Fields
  <1>12. UserFault(flash, g, NoJob)
    BY <1>1, <1>2, <1>6, <1>8, <1>10 DEF UserFault, UserWrites, Fields
  <1>13. PrepFault(flash, g, NoJob) /\ RepairFault(flash, g, NoJob) /\ StartFault(flash, g, NoJob)
    <2>1. g.InitGCState = "COMPLETE" /\ g.CacheUpdated /\ g.StateCount > 0
      BY <1>1, <1>6, <1>8 DEF StartFault, Fields
    <2> QED
      BY <2>1, StartedFault
  <1>14. /\ g.InitGCState = f.InitGCState /\ g.GcState = f.GcState /\ g.IntrJob = f.IntrJob
         /\ g.CurrSector = f.CurrSector /\ g.NextFreeWL = f.NextFreeWL /\ g.GcDest = f.GcDest
         /\ g.GcCopyIndex = f.GcCopyIndex /\ g.GcBlock = f.GcBlock /\ g.Cache = f.Cache
         /\ g.Copied = f.Copied /\ g.GcSrcAddr = f.GcSrcAddr
         /\ g.CacheUpdated = f.CacheUpdated /\ g.BlkModified = f.BlkModified
         /\ g.NextFreePage = f.NextFreePage
    BY <1>8 DEF Fields
  <1>15. GcFault(flash, g, NoJob)
    BY <1>1, <1>10, <1>14, GcFaultFrame
  <1>16. CacheFault(flash, g)
    BY <1>1, <1>14, CacheFaultFrame
  <1> QED
    BY <1>1, <1>4, <1>5, <1>9, <1>11, <1>12, <1>13, <1>15, <1>16 DEF FaultInv, g

\* The end of one of the driver's own jobs is noted, and disturbs no user.
LEMMA IntrEnds ==
  ASSUME NEW fl, NEW f, NEW j, FaultInv(fl, f, j), IntrRuns(j), NEW new,
         f.CacheUpdated => new[Cur(f)] = fl[Cur(f)], NEW result \in {"PASS", "FAIL"},
         NEW g, g = [f EXCEPT !.IntrJob = result]
  PROVE  /\ UserFault(new, g, NoJob) /\ MainInv(g, NoJob) /\ FaultTypes(g)
         /\ g.IntrJob = result /\ \A x \in Fields : x # "IntrJob" => g[x] = f[x]
         /\ Cur(g) = Cur(f) /\ Oth(g) = Oth(f) /\ DirtySector(g) = DirtySector(f)
         /\ ~IntrRuns(NoJob) /\ ~Quiet(g, NoJob)
  <1>1. FaultTypes(f) /\ UserFault(fl, f, j) /\ MainInv(f, j) /\ j # NoJob
    BY DEF FaultInv, IntrRuns
  <1>2. DOMAIN f = Fields
    BY <1>1, FieldFacts
  <1>3. g.IntrJob = result /\ DOMAIN g = Fields /\ \A x \in Fields : x # "IntrJob" => g[x] = f[x]
    BY <1>2 DEF Fields
  <1>4. FaultTypes(g)
    <2> DEFINE X == {"IntrJob"}
    <2>1. \A x \in Fields \ X : g[x] = f[x]
      BY <1>3
    <2>2. \A x \in X : x \in DOMAIN FieldTypes => g[x] \in FieldTypes[x]
      <3>1. result \in FieldTypes["IntrJob"]
        BY DEF FieldTypes
      <3> QED
        BY <1>3, <3>1
    <2> HIDE DEF X
    <2> QED
      BY <1>1, <1>3, <2>1, <2>2, TypesKept
  <1>5. Cur(g) = Cur(f) /\ Oth(g) = Oth(f) /\ DirtySector(g) = DirtySector(f)
    BY <1>3 DEF Fields, Cur, Oth, DirtySector
  <1>6. ~IntrRuns(NoJob) /\ ~Quiet(g, NoJob)
    BY <1>3 DEF IntrRuns, Quiet
  <1>7. ~UserWrites(f) /\ ~Stage(f, "reading")
    <2>1. j.owner = "intr" /\ ~(j.owner = "user") /\ j # NoJob
      BY DEF IntrRuns
    <2>2. ~Stage(f, "compare")
      BY <1>1, <2>1 DEF UserFault, Programming, Programs, IsJob
    <2>3. ~Stage(f, "recopy")
      BY <1>1, <2>1 DEF UserFault, Programming, Programs, IsJob
    <2>4. ~Stage(f, "reading")
      BY <1>1, <2>1 DEF UserFault, Reads, IsJob
    <2> QED
      BY <2>2, <2>3, <2>4 DEF UserWrites
  <1>8. /\ \A st : Stage(g, st) <=> Stage(f, st)
        /\ UserWrites(g) <=> UserWrites(f)
    BY <1>3 DEF Stage, Fields, UserWrites
  <1>9. UserFault(new, g, NoJob)
    BY <1>1, <1>3, <1>5, <1>6, <1>7, <1>8 DEF UserFault, UserWrites, Fields
  <1>10. MainInv(g, NoJob)
    <2>1. f.InitGCState = "COMPLETE" => f.CacheUpdated
      BY <1>1 DEF MainInv, Quiet
    <2> QED
      BY <1>1, <1>3, <1>6, <2>1 DEF MainInv, Fields
  <1> QED
    BY <1>3, <1>4, <1>5, <1>6, <1>9, <1>10

\* A job of the preparation ends.
LEMMA PrepJobEnds ==
  ASSUME NEW f, NEW j, FaultInv(flash, f, j), IntrRuns(j), f.InitGCState = "PREPARE",
         NEW cells, NEW result, Outcome(j, cells, result)
  PROVE  /\ Harmless(flash, j) /\ j.op # "read"
         /\ FaultInv(After(flash, j.sector, cells), [f EXCEPT !.IntrJob = result], NoJob)
  <1> DEFINE new == After(flash, j.sector, cells)
             g == [f EXCEPT !.IntrJob = result]
             k == f.PrepStep
             s == PrepSector[k]
             d == f.PrepDest
  <1>1. /\ InOrder(flash) /\ PrepFault(flash, f, j) /\ StartFault(flash, f, j) /\ j # NoJob
        /\ result \in {"PASS", "FAIL"} /\ FaultTypes(f) /\ MainInv(f, j)
    BY DEF FaultInv, Outcome, IntrRuns
  <1>2. /\ ~f.CacheUpdated /\ k \in 1 .. 6
        /\ IF k % 2 = 1 THEN PageRuns(flash, j, s, d) ELSE MarkerRuns(flash, j, s, d)
    BY <1>1, FaultForms
  <1>3. s \in Sectors /\ (k <= 4 => s = 0) /\ (k >= 5 => s = 1)
    BY <1>2, PrepSteps, SlotFacts
  <1>5. /\ Harmless(flash, j) /\ j.sector = s /\ j.op \in {"program", "marker"}
        /\ IF k % 2 = 1 THEN PageEnded(new, result, s, d) ELSE MarkerEnded(new, result, s, d)
    <2>1. CASE k % 2 = 1
      BY <1>1, <1>2, <1>3, <2>1, PageRunsEnds
    <2>2. CASE k % 2 # 1
      BY <1>1, <1>2, <1>3, <2>2, MarkerRunsEnds
    <2> QED
      BY <2>1, <2>2
  <1>6. InOrder(new) /\ \A t \in Sectors : t # s => new[t] = flash[t]
    BY <1>1, <1>5, JobOutcome
  <1> HIDE DEF new
  <1>7. /\ UserFault(new, g, NoJob) /\ MainInv(g, NoJob) /\ FaultTypes(g)
        /\ g.IntrJob = result /\ \A x \in Fields : x # "IntrJob" => g[x] = f[x]
        /\ Cur(g) = Cur(f) /\ ~IntrRuns(NoJob)
    <2>1. result \in {"PASS", "FAIL"} /\ g = [f EXCEPT !.IntrJob = result]
          /\ (f.CacheUpdated => new[Cur(f)] = flash[Cur(f)])
      BY <1>1, <1>2
    <2> HIDE DEF g
    <2> QED
      BY <2>1, IntrEnds
  <1> HIDE DEF g
  <1>8. PrepFault(new, g, NoJob)
    <2>1. k <= 4 => new[1] = flash[1]
      BY <1>3, <1>6, SlotFacts
    <2>2. k >= 5 => new[0] = flash[0]
      BY <1>3, <1>6, SlotFacts
    <2> QED
      BY <1>1, <1>5, <1>7, <2>1, <2>2 DEF PrepFault, Fields
  <1>9. RepairFault(new, g, NoJob) /\ GcFault(new, g, NoJob) /\ CacheFault(new, g)
    BY <1>2, <1>7 DEF RepairFault, GcFault, CacheFault, Fields
  <1>10. StartFault(new, g, NoJob)
    BY <1>1, <1>7 DEF StartFault, Fields
  <1> QED
    BY <1>5, <1>6, <1>7, <1>8, <1>9, <1>10 DEF FaultInv, new, g

\* A job of a repair ends.
LEMMA RepairJobEnds ==
  ASSUME NEW f, NEW j, FaultInv(flash, f, j), IntrRuns(j), f.InitGCState = "DIRTY",
         NEW cells, NEW result, Outcome(j, cells, result)
  PROVE  /\ Harmless(flash, j) /\ j.op # "read"
         /\ FaultInv(After(flash, j.sector, cells), [f EXCEPT !.IntrJob = result], NoJob)
  <1> DEFINE new == After(flash, j.sector, cells)
             g == [f EXCEPT !.IntrJob = result]
             s == DirtySector(f)
             a == f.StatePageAddr[s]
  <1>1. /\ InOrder(flash) /\ RepairFault(flash, f, j) /\ StartFault(flash, f, j) /\ j # NoJob
        /\ result \in {"PASS", "FAIL"} /\ FaultTypes(f) /\ MainInv(f, j)
    BY DEF FaultInv, Outcome, IntrRuns
  <1>2. /\ ~f.CacheUpdated
        /\ \/ f.RepairStep = "MARKER" /\ Marks(flash, j, s, a)
           \/ /\ f.RepairStep = "PAGE" /\ f.NextFreeWL[s] = a + PerWL
              /\ PageRuns(flash, j, s, a)
    BY <1>1, FaultForms
  <1>3. /\ s \in Sectors /\ f.StatePageAddr \in [Sectors -> Nat] /\ f.NextFreeWL \in [Sectors -> Nat]
        /\ Cur(f) \in Sectors /\ f.Dirty \in [Sectors -> BOOLEAN]
    BY <1>1, FieldFacts
  <1>4. f.Dirty[s]
    <2>1. PICK t \in Sectors : f.Dirty[t]
      BY <1>1 DEF RepairFault
    <2> QED
      BY <1>3, <2>1, SlotFacts DEF DirtySector, Cur, Other
  <1>5. a \in Slots
    BY <1>1, <1>3, <1>4 DEF RepairFault
  <1>6. /\ Harmless(flash, j) /\ j.sector = s /\ j.op \in {"program", "marker"} /\ j.addr = a
        /\ f.RepairStep = "PAGE" => PageEnded(new, result, s, a)
        /\ f.RepairStep = "MARKER" => j.op = "marker"
        /\ f.RepairStep = "PAGE" => j.op = "program"
    <2>1. CASE f.RepairStep = "MARKER"
      <3>1. Marks(flash, j, s, a) /\ flash[s][a].kind = "state"
        BY <1>1, <1>2, <1>3, <1>4, <2>1 DEF RepairFault
      <3> QED
        BY <1>3, <1>5, <2>1, <3>1 DEF Marks, IsJob, Harmless
    <2>2. CASE f.RepairStep = "PAGE"
      <3>1. PageRuns(flash, j, s, a)
        BY <1>2, <2>2
      <3> QED
        BY <1>1, <1>3, <2>2, <3>1, PageRunsEnds DEF PageRuns, IsJob
    <2> QED
      BY <1>2, <2>1, <2>2
  <1>7. /\ InOrder(new) /\ \A t \in Sectors : t # s => new[t] = flash[t]
        /\ \A t \in Sectors : \A p \in Slots :
             /\ flash[t][p].kind = "state" => new[t][p].kind = "state"
             /\ flash[t][p] # Blank => new[t][p] # Blank
        /\ new[s] = cells /\ Changes(flash, j, cells)
    BY <1>1, <1>6, JobOutcome
  <1> HIDE DEF new
  <1>8. /\ UserFault(new, g, NoJob) /\ MainInv(g, NoJob) /\ FaultTypes(g)
        /\ g.IntrJob = result /\ \A x \in Fields : x # "IntrJob" => g[x] = f[x]
        /\ Cur(g) = Cur(f) /\ ~IntrRuns(NoJob) /\ DirtySector(g) = s
    <2>1. result \in {"PASS", "FAIL"} /\ g = [f EXCEPT !.IntrJob = result]
          /\ (f.CacheUpdated => new[Cur(f)] = flash[Cur(f)])
      BY <1>1, <1>2
    <2> HIDE DEF g
    <2> QED
      BY <2>1, IntrEnds
  <1> HIDE DEF g
  <1>9. RepairFault(new, g, NoJob)
    <2>1. f.RepairStep = "PAGE" => f.NextFreeWL[s] = a + PerWL
      BY <1>2
    <2>2. /\ \E t \in Sectors : f.Dirty[t]
          /\ \A t \in Sectors : f.Dirty[t] => f.StatePageAddr[t] \in Slots
          /\ \A t \in Sectors : f.Dirty[t] /\ (t # s \/ f.RepairStep = "MARKER") =>
               flash[t][f.StatePageAddr[t]].kind = "state"
      BY <1>1 DEF RepairFault
    <2>3. \A t \in Sectors : f.Dirty[t] /\ (t # s \/ f.RepairStep = "MARKER") =>
               new[t][f.StatePageAddr[t]].kind = "state"
      BY <1>7, <2>2
    <2> QED
      BY <1>6, <1>8, <2>1, <2>2, <2>3 DEF RepairFault, Fields
  <1>10. \A t \in Sectors : OpenWL(new[t], f.NextFreeWL[t])
    <2> SUFFICES ASSUME NEW t \in Sectors PROVE OpenWL(new[t], f.NextFreeWL[t])
      OBVIOUS
    <2>1. OpenWL(flash[t], f.NextFreeWL[t])
      BY <1>1 DEF StartFault
    <2>2. CASE t # s
      BY <1>7, <2>1, <2>2
    <2>3. CASE t = s /\ j.op = "marker"
      <3>1. /\ \A p \in Slots : p # a => cells[p] = flash[s][p]
            /\ flash[s][a].kind = "state"
        BY <1>6, <1>7, <2>3 DEF Changes, Harmless
      <3>2. \A p \in Slots : p >= f.NextFreeWL[t] => p # a
        BY <2>1, <2>3, <3>1, BuiltCells DEF OpenWL, BlankFrom
      <3> QED
        BY <1>7, <2>1, <2>3, <3>1, <3>2 DEF OpenWL, BlankFrom
    <2>4. CASE t = s /\ j.op = "program"
      <3>1. BlankFrom(cells, a + 1) /\ f.NextFreeWL[s] = a + PerWL
        BY <1>2, <1>6, <1>7, <2>4 DEF Changes
      <3>2. a \in Nat /\ a + 1 \in Nat /\ a + PerWL \in Nat /\ a + 1 <= a + PerWL
        BY <1>5, SlotFacts, WordlineSize
      <3>3. BlankFrom(cells, a + PerWL)
        BY <3>1, <3>2, BlankLater
      <3> QED
        BY <1>7, <2>1, <2>4, <3>1, <3>3 DEF OpenWL
    <2> QED
      BY <1>6, <2>2, <2>3, <2>4
  <1>11. \/ Unread(new[Cur(f)], f.NextFreeWL[Cur(f)])
         \/ f.RepairStep = "PAGE" /\ s = Cur(f)
    <2>1. \/ Unread(flash[Cur(f)], f.NextFreeWL[Cur(f)])
          \/ f.RepairStep = "PAGE" /\ s = Cur(f)
      BY <1>1, <1>2 DEF StartFault
    <2> QED
      BY <1>3, <1>7, <1>10, <2>1 DEF Unread
  <1>12. StartFault(new, g, NoJob)
    BY <1>1, <1>8, <1>10, <1>11 DEF StartFault, Fields
  <1>13. PrepFault(new, g, NoJob) /\ GcFault(new, g, NoJob) /\ CacheFault(new, g)
    BY <1>2, <1>8 DEF PrepFault, GcFault, CacheFault, Fields
  <1> QED
    BY <1>6, <1>7, <1>8, <1>9, <1>12, <1>13 DEF FaultInv, new, g

\* A job of the collection ends.
LEMMA GcJobEnds ==
  ASSUME NEW f, NEW j, FaultInv(flash, f, j), IntrRuns(j), f.InitGCState = "COMPLETE",
         NEW cells, NEW result, Outcome(j, cells, result)
  PROVE  /\ Harmless(flash, j) /\ j.op # "read"
         /\ FaultInv(After(flash, j.sector, cells), [f EXCEPT !.IntrJob = result], NoJob)
  <1> DEFINE new == After(flash, j.sector, cells)
             g == [f EXCEPT !.IntrJob = result]
             o == Oth(f)
             d == f.GcDest
             c == GcCopyOf(flash, f)
  <1>1. /\ InOrder(flash) /\ GcFault(flash, f, j) /\ StartFault(flash, f, j) /\ j # NoJob
        /\ result \in {"PASS", "FAIL"} /\ FaultTypes(f) /\ MainInv(f, j) /\ CacheFault(flash, f)
    BY DEF FaultInv, Outcome, IntrRuns
  <1>2. /\ f.GcState \in Busy /\ f.IntrJob = "IDLE"
        /\ f.GcState = "COPY_WRITE" => Programming(flash, j, "intr", o, d, c) /\ c \in Cells
        /\ f.GcState \in {"V_SP", "E_SP"} => PageRuns(flash, j, o, d)
        /\ f.GcState \in {"V_M", "E_M"} => MarkerRuns(flash, j, o, d)
        /\ f.GcState = "ERASE" => Erases(j, o) /\ d = 0
    BY <1>1, FaultForms
  <1>3. o \in Sectors /\ Cur(f) \in Sectors /\ o # Cur(f)
        /\ f.Cache \in [Blocks -> Addresses \cup {NoAddr}]
    BY <1>1, FieldFacts
  <1>4. f.CacheUpdated
    BY <1>1 DEF MainInv, Quiet
  <1>5. /\ Harmless(flash, j) /\ j.sector = o /\ j.op # "read"
        /\ f.GcState = "COPY_WRITE" => Ended(new, result, o, d, c)
        /\ f.GcState \in {"V_SP", "E_SP"} => PageEnded(new, result, o, d)
        /\ f.GcState \in {"V_M", "E_M"} => MarkerEnded(new, result, o, d)
        /\ f.GcState = "ERASE" => j.op = "erase"
        /\ f.GcState # "ERASE" => j.op # "erase"
    <2>1. CASE f.GcState = "COPY_WRITE"
      <3>1. Programming(flash, j, "intr", o, d, c) /\ c \in Cells
        BY <1>2, <2>1
      <3> HIDE DEF c
      <3> QED
        BY <1>1, <1>3, <2>1, <3>1, ProgrammingEnds
    <2>2. CASE f.GcState \in {"V_SP", "E_SP"}
      BY <1>1, <1>2, <1>3, <2>2, PageRunsEnds
    <2>3. CASE f.GcState \in {"V_M", "E_M"}
      BY <1>1, <1>2, <1>3, <2>3, MarkerRunsEnds
    <2>4. CASE f.GcState = "ERASE"
      BY <1>2, <1>3, <2>4 DEF Erases, IsJob, Harmless
    <2> QED
      BY <1>2, <2>1, <2>2, <2>3, <2>4 DEF Busy
  <1>6. /\ InOrder(new) /\ new[Cur(f)] = flash[Cur(f)] /\ new[o] = cells
        /\ f.GcState # "ERASE" =>
             \A p \in Slots : flash[o][p].kind = "copy" => new[o][p] = flash[o][p]
    BY <1>1, <1>3, <1>5, JobOutcome
  <1>7. f.GcState = "ERASE" /\ result = "PASS" => BlankFrom(new[o], 0)
    BY <1>1, <1>5, <1>6, JobCompletes DEF Outcome
  <1>8. /\ UserFault(new, g, NoJob) /\ MainInv(g, NoJob) /\ FaultTypes(g)
        /\ g.IntrJob = result /\ \A x \in Fields : x # "IntrJob" => g[x] = f[x]
        /\ Cur(g) = Cur(f) /\ ~IntrRuns(NoJob) /\ Oth(g) = o
    <2> HIDE DEF new
    <2>1. result \in {"PASS", "FAIL"} /\ g = [f EXCEPT !.IntrJob = result]
          /\ (f.CacheUpdated => new[Cur(f)] = flash[Cur(f)])
      BY <1>1, <1>6
    <2> HIDE DEF g
    <2> QED
      BY <2>1, IntrEnds
  <1>9. c = GcCopyOf(new, g)
    BY <1>6, <1>8 DEF GcCopyOf, Fields
  <1> HIDE DEF g, new, c
  <1>10. GcFault(new, g, NoJob)
    <2>1. CASE f.GcState = "COPY_WRITE"
      BY <1>1, <1>5, <1>6, <1>8, <1>9, <2>1 DEF GcFault, Fields, Busy, GcCopyOf
    <2>2. CASE f.GcState # "COPY_WRITE"
      BY <1>1, <1>2, <1>5, <1>6, <1>7, <1>8, <2>2 DEF GcFault, Fields, Busy
    <2> QED
      BY <2>1, <2>2
  <1>11. CacheFault(new, g)
    <2>1. /\ g.CacheUpdated = f.CacheUpdated /\ g.Cache = f.Cache /\ g.Copied = f.Copied
          /\ g.GcState = f.GcState /\ g.BlkModified = f.BlkModified
          /\ g.GcCopyIndex = f.GcCopyIndex /\ g.CurrSector = f.CurrSector
          /\ g.NextFreePage = f.NextFreePage /\ g.GcDest = f.GcDest /\ g.GcSrcAddr = f.GcSrcAddr
      BY <1>8 DEF Fields
    <2> QED
      BY <1>1, <1>6, <2>1, CacheFaultFrame
  <1>12. PrepFault(new, g, NoJob) /\ RepairFault(new, g, NoJob) /\ StartFault(new, g, NoJob)
    <2>1. g.InitGCState = "COMPLETE" /\ g.CacheUpdated /\ g.StateCount > 0
      BY <1>1, <1>4, <1>8 DEF StartFault, Fields
    <2> QED
      BY <2>1, StartedFault
  <1> QED
    BY <1>5, <1>6, <1>8, <1>10, <1>11, <1>12 DEF FaultInv, new, g

\* Whichever job runs may be cut off.
LEMMA JobsHarmless ==
  ASSUME NEW fl, NEW f, NEW j, FaultInv(fl, f, j), j # NoJob
  PROVE  Harmless(fl, j)
  <1>1. InOrder(fl) /\ FaultTypes(f) /\ RepairFault(fl, f, j)
    BY DEF FaultInv
  <1>2. Cur(f) \in Sectors /\ Oth(f) \in Sectors /\ DirtySector(f) \in Sectors
        /\ f.Dirty \in [Sectors -> BOOLEAN]
    BY <1>1, FieldFacts
  <1>3. ASSUME NEW owner, NEW s \in Sectors, NEW a, NEW c \in Cells,
               Programming(fl, j, owner, s, a, c)
        PROVE  Harmless(fl, j)
    BY <1>3 DEF Harmless, Programming, Programs, IsJob
  <1>4. ASSUME NEW s \in Sectors, NEW a, PageRuns(fl, j, s, a) PROVE Harmless(fl, j)
    <2>1. Open(fl[s], a)
      BY <1>4, OpenWordline DEF PageRuns
    <2> QED
      BY <1>4, <2>1 DEF Harmless, PageRuns, IsJob, IsPage, Cells
  <1>5. ASSUME NEW s \in Sectors, NEW a, MarkerRuns(fl, j, s, a) PROVE Harmless(fl, j)
    BY <1>5 DEF Harmless, MarkerRuns, Marks, IsJob, IsPage, Pages
  <1>6. CASE ~IntrRuns(j)
    <2>1. CASE UserWrites(f)
      <3>1. ~Stage(f, "reading")
        BY <2>1 DEF UserWrites, Stage
      <3>2. Programming(fl, j, "user", Cur(f), f.NextFreePage, UserCell(fl, f))
            /\ UserCell(fl, f) \in Cells
        BY <1>6, <3>1, FaultForms
      <3> QED
        BY <1>2, <1>3, <3>2
    <2>2. CASE ~UserWrites(f)
      <3>1. PICK at \in Addresses : Reads(fl, j, at)
        BY <1>6, <2>2, FaultForms
      <3> QED
        BY <3>1, AddressFacts DEF Harmless, Reads, IsJob
    <2> QED
      BY <2>1, <2>2
  <1>7. CASE IntrRuns(j)
    <2>1. CASE f.InitGCState = "PREPARE"
      <3>1. /\ f.PrepStep \in 1 .. 6
            /\ IF f.PrepStep % 2 = 1 THEN PageRuns(fl, j, PrepSector[f.PrepStep], f.PrepDest)
               ELSE MarkerRuns(fl, j, PrepSector[f.PrepStep], f.PrepDest)
        BY <1>7, <2>1, FaultForms
      <3>2. PrepSector[f.PrepStep] \in Sectors
        BY <3>1, PrepSteps, SlotFacts
      <3> QED
        BY <1>4, <1>5, <3>1, <3>2
    <2>2. CASE f.InitGCState = "DIRTY"
      <3> DEFINE s == DirtySector(f)
      <3>1. \/ f.RepairStep = "MARKER" /\ Marks(fl, j, s, f.StatePageAddr[s])
            \/ PageRuns(fl, j, s, f.StatePageAddr[s])
        BY <1>7, <2>2, FaultForms
      <3>2. CASE PageRuns(fl, j, s, f.StatePageAddr[s])
        BY <1>2, <1>4, <3>2
      <3>3. CASE f.RepairStep = "MARKER" /\ Marks(fl, j, s, f.StatePageAddr[s])
        <4>1. f.Dirty[s]
          <5>1. PICK t \in Sectors : f.Dirty[t]
            BY <1>1, <2>2 DEF RepairFault
          <5> QED
            BY <1>2, <5>1, SlotFacts DEF DirtySector, Cur, Other
        <4>2. f.StatePageAddr[s] \in Slots /\ fl[s][f.StatePageAddr[s]].kind = "state"
          BY <1>1, <1>2, <2>2, <3>3, <4>1 DEF RepairFault
        <4> QED
          BY <1>2, <3>3, <4>2 DEF Harmless, Marks, IsJob
      <3> QED
        BY <3>1, <3>2, <3>3
    <2>3. CASE f.InitGCState \notin {"PREPARE", "DIRTY"}
      <3>1. f.GcState \in Busy
            /\ CASE f.GcState = "COPY_WRITE" ->
                      /\ Programming(fl, j, "intr", Oth(f), f.GcDest, GcCopyOf(fl, f))
                      /\ GcCopyOf(fl, f) \in Cells
                 [] f.GcState \in {"V_SP", "E_SP"} -> PageRuns(fl, j, Oth(f), f.GcDest)
                 [] f.GcState \in {"V_M", "E_M"} -> MarkerRuns(fl, j, Oth(f), f.GcDest)
                 [] f.GcState = "ERASE" -> Erases(j, Oth(f)) /\ f.GcDest = 0
        BY <1>7, <2>3, FaultForms
      <3>2. CASE f.GcState = "COPY_WRITE"
        BY <1>2, <1>3, <3>1, <3>2
      <3>3. CASE f.GcState \in {"V_SP", "E_SP"}
        BY <1>2, <1>4, <3>1, <3>3
      <3>4. CASE f.GcState \in {"V_M", "E_M"}
        BY <1>2, <1>5, <3>1, <3>4
      <3>5. CASE f.GcState = "ERASE"
        BY <1>2, <3>1, <3>5 DEF Erases, IsJob, Harmless
      <3> QED
        BY <3>1, <3>2, <3>3, <3>4, <3>5 DEF Busy
    <2> QED
      BY <2>1, <2>2, <2>3
  <1> QED
    BY <1>6, <1>7

\* The driver after a job has ended.
Notified(f, j, result) ==
  CASE j.op = "read" -> [f EXCEPT !.Req = NoReq]
    [] j.op # "read" /\ j.owner = "user" -> [f EXCEPT !.UserJob = result]
    [] OTHER -> [f EXCEPT !.IntrJob = result]

\* Any job ends, well or badly.
LEMMA JobEnds ==
  ASSUME NEW f, NEW j, FaultInv(flash, f, j), j # NoJob,
         NEW cells, NEW result, Outcome(j, cells, result)
  PROVE  FaultInv(After(flash, j.sector, cells), Notified(f, j, result), NoJob)
  <1>1. CASE ~IntrRuns(j) /\ UserWrites(f)
    <2>1. /\ j.op = "program"
          /\ FaultInv(After(flash, j.sector, cells), [f EXCEPT !.UserJob = result], NoJob)
      BY <1>1, UserJobEnds
    <2>2. ~Stage(f, "reading")
      BY <1>1 DEF UserWrites, Stage
    <2>3. j.owner = "user"
      BY <1>1, <2>2, FaultForms DEF Programming, Programs, IsJob
    <2> QED
      BY <2>1, <2>3 DEF Notified
  <1>2. CASE ~IntrRuns(j) /\ ~UserWrites(f)
    <2>1. Stage(f, "reading")
      BY <1>2, FaultForms
    <2> QED
      BY <1>2, <2>1, ReadJobEnds DEF Notified
  <1>3. CASE IntrRuns(j)
    <2>1. j.owner = "intr" /\ f.InitGCState \in {"PREPARE", "DIRTY", "COMPLETE"}
      BY <1>3, FaultForms DEF IntrRuns
    <2>2. j.op # "read"
          /\ FaultInv(After(flash, j.sector, cells), [f EXCEPT !.IntrJob = result], NoJob)
      BY <1>3, <2>1, PrepJobEnds, RepairJobEnds, GcJobEnds
    <2> QED
      BY <2>1, <2>2 DEF Notified
  <1> QED
    BY <1>1, <1>2, <1>3

\* A job that ends, or fails, keeps the invariant.
LEMMA FaultJobStep ==
  ASSUME FaultInv(flash, fee, job), JobEndNotification \/ JobFails
  PROVE  FaultInv(flash', fee', job')
  <1>1. job # NoJob /\ Harmless(flash, job) /\ InOrder(flash)
    BY JobsHarmless DEF JobEndNotification, JobFails, FaultInv
  <1>2. CASE JobEndNotification
    <2>1. flash' = After(flash, job.sector, Finished(job)) /\ job' = NoJob
          /\ fee' = Notified(fee, job, "PASS")
      BY <1>2 DEF JobEndNotification, JobEnd, After, Notified
    <2>2. Outcome(job, Finished(job), "PASS")
      BY <1>1, JobCompletes DEF Outcome
    <2> QED
      BY <1>1, <2>1, <2>2, JobEnds
  <1>3. CASE JobFails
    <2>1. PICK cells \in Partial(job) : flash' = After(flash, job.sector, cells)
      BY <1>3 DEF JobFails, After
    <2>2. job' = NoJob /\ fee' = Notified(fee, job, "FAIL")
      BY <1>3 DEF JobFails, JobEnd, Notified
    <2>3. Outcome(job, cells, "FAIL")
      BY DEF Outcome
    <2> QED
      BY <1>1, <2>1, <2>2, <2>3, JobEnds
  <1> QED
    BY <1>2, <1>3

\* A reset, whatever it cuts off.
LEMMA FaultResetStep ==
  ASSUME FaultInv(flash, fee, job), Reset
  PROVE  FaultInv(flash', fee', job')
  <1>1. InOrder(flash')
    <2>1. CASE job = NoJob /\ UNCHANGED flash
      BY <2>1 DEF FaultInv
    <2>2. CASE job # NoJob /\ \E cells \in Partial(job) : flash' = [flash EXCEPT ![job.sector] = cells]
      <3>1. PICK cells \in Partial(job) : flash' = After(flash, job.sector, cells)
        BY <2>2 DEF After
      <3>2. Harmless(flash, job) /\ InOrder(flash)
        BY <2>2, JobsHarmless DEF FaultInv
      <3> QED
        BY <3>1, <3>2, JobLeaves
    <2> QED
      BY <2>1, <2>2 DEF Reset
  <1>2. fee' = Boot(flash') /\ job' = NoJob
    BY DEF Reset
  <1> QED
    BY <1>1, <1>2, BootFault

\* It holds at the first start.
LEMMA FaultStart == Init => FaultInv(flash, fee, job)
  <1> SUFFICES ASSUME Init PROVE FaultInv(flash, fee, job)
    OBVIOUS
  <1>1. InOrder(flash)
    BY InitInv, ShapedInOrder DEF IInv, Inv
  <1>2. fee = Boot(flash) /\ job = NoJob
    BY DEF Init
  <1> QED
    BY <1>1, <1>2, BootFault

\* A write has been started and not yet answered.
Answering(f) == UserWrites(f) \/ Stage(f, "fail")

\* What the parts of the invariant say of the main job.
LEMMA StagesMain ==
  ASSUME NEW fl, NEW f, NEW j, UserFault(fl, f, j), MainInv(f, j)
  PROVE  /\ Answering(f) => f.MainJob = "WRITE"
         /\ Stage(f, "reading") => f.MainJob = "READ" /\ j # NoJob
         /\ Stage(f, "stuck") => f.MainJob = "GC"
         /\ IntrRuns(j) => ~UserWrites(f) /\ ~Stage(f, "reading")
         /\ ~UserWrites(f) /\ ~Stage(f, "reading") => j = NoJob \/ IntrRuns(j)
  <1>1. Answering(f) => f.MainJob = "WRITE"
    BY DEF UserFault, UserWrites, Answering
  <1>2. Stage(f, "reading") => f.MainJob = "READ" /\ j # NoJob
    BY DEF UserFault, Reads, IsJob
  <1> QED
    BY <1>1, <1>2 DEF UserFault, MainInv, Answering

\* The next job of the main function alone.
LEMMA FaultMainJob ==
  ASSUME NEW fl, NEW f, NEW j, FaultInv(fl, f, j),
         NEW m \in {"INITGC", "CACHEUPDATE", "READ", "WRITE", "GC", "NONE"},
         Answering(f) => m = "WRITE", Stage(f, "reading") => m = "READ",
         NEW g, DOMAIN g = Fields, g.MainJob = m,
         \A x \in Fields : x # "MainJob" => g[x] = f[x],
         MainInv(g, j)
  PROVE  FaultInv(fl, g, j)
  <1>1. /\ InOrder(fl) /\ FaultTypes(f) /\ UserFault(fl, f, j) /\ PrepFault(fl, f, j)
        /\ RepairFault(fl, f, j) /\ StartFault(fl, f, j) /\ GcFault(fl, f, j) /\ CacheFault(fl, f)
    BY DEF FaultInv
  <1>2. g.MainJob = m /\ \A x \in Fields : x # "MainJob" => g[x] = f[x]
    OBVIOUS
  <1>3. FaultTypes(g)
    <2> DEFINE X == {"MainJob"}
    <2>2. \A x \in Fields \ X : g[x] = f[x]
      BY <1>2
    <2>1. \A x \in X : x \in DOMAIN FieldTypes => g[x] \in FieldTypes[x]
      BY <1>2 DEF FieldTypes
    <2> HIDE DEF X
    <2> QED
      BY <1>1, <2>1, <2>2, TypesKept
  <1>5. Cur(g) = Cur(f) /\ Oth(g) = Oth(f) /\ \A st : Stage(g, st) <=> Stage(f, st)
    BY <1>2 DEF Fields, Cur, Oth, Stage
  <1>4. (UserWrites(g) <=> UserWrites(f)) /\ (Quiet(g, j) <=> Quiet(f, j))
        /\ DirtySector(g) = DirtySector(f)
    BY <1>2, <1>5 DEF Fields, UserWrites, Quiet, DirtySector
  <1>6. UserFault(fl, g, j)
    BY <1>1, <1>2, <1>4, <1>5 DEF Fields, UserFault, UserWrites, Answering
  <1>7. PrepFault(fl, g, j) /\ RepairFault(fl, g, j) /\ StartFault(fl, g, j)
    <2>1. PrepFault(fl, g, j)
      BY <1>1, <1>2, <1>4, <1>5 DEF Fields, PrepFault
    <2>2. RepairFault(fl, g, j)
      BY <1>1, <1>2, <1>4, <1>5 DEF Fields, RepairFault
    <2>3. StartFault(fl, g, j)
      BY <1>1, <1>2, <1>4, <1>5 DEF Fields, StartFault
    <2> QED
      BY <2>1, <2>2, <2>3
  <1>8. /\ g.InitGCState = f.InitGCState /\ g.GcState = f.GcState /\ g.IntrJob = f.IntrJob
        /\ g.CurrSector = f.CurrSector /\ g.NextFreeWL = f.NextFreeWL /\ g.GcDest = f.GcDest
        /\ g.GcCopyIndex = f.GcCopyIndex /\ g.GcBlock = f.GcBlock /\ g.Cache = f.Cache
        /\ g.Copied = f.Copied /\ g.GcSrcAddr = f.GcSrcAddr
        /\ g.CacheUpdated = f.CacheUpdated /\ g.BlkModified = f.BlkModified
        /\ g.NextFreePage = f.NextFreePage
    BY <1>2 DEF Fields
  <1>9. GcFault(fl, g, j)
    BY <1>1, <1>8, GcFaultFrame
  <1>10. CacheFault(fl, g)
    BY <1>1, <1>8, CacheFaultFrame
  <1> QED
    BY <1>1, <1>3, <1>6, <1>7, <1>9, <1>10 DEF FaultInv

\* A further job of the main function is legal when the driver's own jobs
\* do not need the one it had.
LEMMA FaultMainInvOf ==
  ASSUME NEW f, NEW j, FaultTypes(f), MainInv(f, j),
         NEW m \in {"INITGC", "CACHEUPDATE", "READ", "WRITE", "GC", "NONE"},
         IntrRuns(j) => m \in {"INITGC", "GC"},
         f.CacheUpdated => m # "INITGC",
         ~f.CacheUpdated => m \in {"INITGC", "CACHEUPDATE"},
         m = "CACHEUPDATE" => f.InitGCState = "COMPLETE",
         f.InitGCState # "COMPLETE" => m = "INITGC",
         f.GcState \in {"COPY_WRITE", "V_SP", "V_M", "E_SP", "E_M", "FAIL"} => m = "GC"
  PROVE  MainInv([f EXCEPT !.MainJob = m], j)
  <1> DEFINE g == [f EXCEPT !.MainJob = m]
  <1>1. g.MainJob = m /\ \A x \in Fields : x # "MainJob" => g[x] = f[x]
    BY DEF FaultTypes, Fields
  <1> HIDE DEF g
  <1>2. Quiet(g, j) <=> Quiet(f, j)
    BY <1>1 DEF Fields, Quiet
  <1>3. MainInv(g, j)
    BY <1>1, <1>2 DEF Fields, MainInv
  <1> QED
    BY <1>3 DEF g

\* Fee_lPerformCurrBlkCheck keeps the invariant, and leaves room to try again.
LEMMA FaultPageChecked ==
  ASSUME NEW fl, NEW f, NEW j, FaultInv(fl, f, j), f.CacheUpdated, ~Answering(f)
  PROVE  LET g == CurrBlkCheck(f)
         IN /\ FaultInv(fl, g, j) /\ g.NextFreePage = CheckedPage(f)
            /\ IsWLBeginning(CheckedPage(f)) \/ RetryBase(CheckedPage(f)) \in Slots
            /\ g.GcState = f.GcState \/ (f.GcState = "IDLE" /\ g.GcState = "REQUESTED")
            /\ \A x \in Fields \ {"NextFreePage", "GcState"} : g[x] = f[x]
  <1> DEFINE g == CurrBlkCheck(f)
             d == CheckedPage(f)
  <1>1. /\ InOrder(fl) /\ FaultTypes(f) /\ MainInv(f, j) /\ UserFault(fl, f, j) /\ PrepFault(fl, f, j)
        /\ RepairFault(fl, f, j) /\ StartFault(fl, f, j) /\ GcFault(fl, f, j) /\ CacheFault(fl, f)
        /\ f.InitGCState = "COMPLETE" /\ f.StateCount > 0
    BY DEF FaultInv, MainInv, StartFault
  <1>2. /\ d \in Nat /\ Open(fl[Cur(f)], d) /\ f.NextFreePage <= d
        /\ IsWLBeginning(d) \/ RetryBase(d) \in Slots
    <2>1. f.NextFreePage \in Nat /\ Open(fl[Cur(f)], f.NextFreePage)
      BY <1>1, FieldFacts DEF UserFault, Answering
    <2> QED
      BY <2>1, CheckedOpen
  <1>3. /\ g.NextFreePage = d
        /\ g.GcState = f.GcState \/ (f.GcState = "IDLE" /\ g.GcState = "REQUESTED")
        /\ \A x \in Fields \ {"NextFreePage", "GcState"} : g[x] = f[x]
        /\ DOMAIN g = Fields
    BY <1>1 DEF CurrBlkCheck, FaultTypes, Fields
  <1> HIDE DEF g, d
  <1>4. FaultTypes(g)
    <2> DEFINE X == {"NextFreePage", "GcState"}
    <2>1. \A x \in Fields \ X : g[x] = f[x]
      BY <1>3
    <2>3. f.GcState \in FieldTypes["GcState"]
      BY <1>1, FieldFacts DEF FieldTypes
    <2>2. \A x \in X : x \in DOMAIN FieldTypes => g[x] \in FieldTypes[x]
      BY <1>2, <1>3, <2>3 DEF FieldTypes
    <2> HIDE DEF X
    <2> QED
      BY <1>1, <1>3, <2>1, <2>2, TypesKept
  <1>5. Cur(g) = Cur(f) /\ Oth(g) = Oth(f) /\ \A st : Stage(g, st) <=> Stage(f, st)
    BY <1>3 DEF Fields, Cur, Oth, Stage
  <1>6. UserFault(fl, g, j)
    BY <1>1, <1>2, <1>3, <1>5 DEF Fields, UserFault, UserWrites, Answering
  <1>7. MainInv(g, j)
    BY <1>1, <1>3 DEF Fields, MainInv, Quiet
  <1>8. PrepFault(fl, g, j) /\ RepairFault(fl, g, j) /\ StartFault(fl, g, j)
    <2>1. g.InitGCState = "COMPLETE" /\ g.CacheUpdated /\ g.StateCount > 0
      BY <1>1, <1>3 DEF Fields
    <2> QED
      BY <2>1, StartedFault
  <1>11. /\ g.InitGCState = f.InitGCState /\ g.IntrJob = f.IntrJob
         /\ g.CurrSector = f.CurrSector /\ g.NextFreeWL = f.NextFreeWL /\ g.GcDest = f.GcDest
         /\ g.GcCopyIndex = f.GcCopyIndex /\ g.GcBlock = f.GcBlock /\ g.Cache = f.Cache
         /\ g.Copied = f.Copied /\ g.GcSrcAddr = f.GcSrcAddr
         /\ g.CacheUpdated = f.CacheUpdated /\ g.BlkModified = f.BlkModified
    BY <1>3 DEF Fields
  <1>9. GcFault(fl, g, j)
    <2>1. CASE g.GcState = f.GcState
      BY <1>1, <1>11, <2>1, GcFaultFrame
    <2>2. CASE f.GcState = "IDLE" /\ g.GcState = "REQUESTED"
      BY <1>1, <1>5, <1>11, <2>2 DEF GcFault, Busy, Quiet
    <2> QED
      BY <1>3, <2>1, <2>2
  <1>10. CacheFault(fl, g)
    <2>0. f.NextFreePage \in Nat /\ g.NextFreePage \in Nat /\ f.NextFreePage <= g.NextFreePage
      BY <1>1, <1>2, <1>3, FieldFacts
    <2>1. g.GcState \in {"START_COPY", "COPY_WRITE", "V_SP", "V_M", "FAIL"} <=>
          f.GcState \in {"START_COPY", "COPY_WRITE", "V_SP", "V_M", "FAIL"}
      BY <1>3
    <2>2. g.GcState # f.GcState => g.GcState \notin {"START_COPY", "COPY_WRITE", "V_SP", "V_M", "FAIL"}
      BY <1>3
    <2>3. ASSUME NEW b \in Blocks, f.Cache[b] # NoAddr
          PROVE  f.Cache[b].slot \in Nat /\ f.Cache[b] \in Addresses
      <3>1. f.Cache[b] \in Addresses
        BY <1>1, <2>3, FieldFacts
      <3> QED
        BY <3>1, AddressFacts, SlotFacts
    <2>4. ASSUME NEW i \in DOMAIN f.GcSrcAddr PROVE f.GcSrcAddr[i].slot \in Nat
      <3>1. f.GcSrcAddr[i] \in Addresses
        <4>1. f.GcSrcAddr \in Seq(Addresses)
          BY <1>1, FieldFacts
        <4> QED
          BY <4>1
      <3> QED
        BY <3>1, AddressFacts, SlotFacts
    <2>5. ASSUME NEW at, at.slot \in Nat, at.slot < f.NextFreePage PROVE at.slot < g.NextFreePage
      BY <2>0, <2>5
    <2>6. ASSUME NEW b \in Blocks, g.Cache[b] # NoAddr PROVE CachedCopy(fl, g, b)
      <3>1. CachedCopy(fl, f, b) /\ f.Cache[b] # NoAddr
        BY <1>1, <1>11, <2>6, CacheFaultGives
      <3> QED
        BY <1>5, <1>11, <2>1, <2>2, <2>3, <2>5, <3>1 DEF CachedCopy, Copying
    <2>7. ASSUME g.GcState \in {"START_COPY", "COPY_WRITE"}, NEW i \in DOMAIN g.GcSrcAddr
          PROVE  CopiedFrom(fl, g, g.GcSrcAddr[i])
      <3>1. f.GcState \in {"START_COPY", "COPY_WRITE"} /\ g.GcSrcAddr = f.GcSrcAddr
        BY <1>11, <2>2, <2>7
      <3>2. CopiedFrom(fl, f, f.GcSrcAddr[i]) /\ f.GcSrcAddr[i].slot \in Nat
        BY <1>1, <2>4, <2>7, <3>1, CacheFaultGives
      <3> QED
        BY <1>5, <2>5, <3>1, <3>2 DEF CopiedFrom
    <2> QED
      BY <2>6, <2>7, CacheFaultParts
  <1> QED
    BY <1>1, <1>2, <1>3, <1>4, <1>6, <1>7, <1>8, <1>9, <1>10 DEF FaultInv, g, d

\* Fee_lIsWriteInvldAllowedbyGC keeps it.
LEMMA FaultAskGC ==
  ASSUME NEW f, FaultInv(flash, f, job), f.MainJob = "GC", f.GcState # "IDLE", Requested(f)
  PROVE  LET g == AskGC(f)
         IN /\ FaultInv(flash, g, job)
            /\ \A x \in Fields \ {"MainJob", "NextFreePage"} : g[x] = f[x]
            /\ g.MainJob \in {"GC", "WRITE"}
  <1>1. FaultTypes(f) /\ MainInv(f, job) /\ GcFault(flash, f, job) /\ f.CacheUpdated
        /\ f.InitGCState = "COMPLETE"
    BY DEF FaultInv, MainInv
  <1>2. ~Answering(f) /\ ~Stage(f, "reading")
    BY DEF Requested, Stage, Answering, UserWrites
  <1>3. CASE IsImmediate(f.Req) /\ f.GcState = "START_COPY"
    <2>1. CASE job = NoJob
      <3>1. AskGC(f) = [f EXCEPT !.MainJob = "WRITE"]
        BY <1>3, <2>1 DEF AskGC
      <3>2. MainInv([f EXCEPT !.MainJob = "WRITE"], job)
        BY <1>1, <1>3, <2>1, FaultMainInvOf DEF IntrRuns
      <3> DEFINE g == [f EXCEPT !.MainJob = "WRITE"]
      <3>5. DOMAIN g = Fields /\ g.MainJob = "WRITE" /\ MainInv(g, job)
            /\ \A x \in Fields : x # "MainJob" => g[x] = f[x]
        BY <1>1, <3>2 DEF FaultTypes, Fields
      <3> HIDE DEF g
      <3>3. FaultInv(flash, g, job) /\ g.MainJob = "WRITE"
            /\ \A x \in Fields : x # "MainJob" => g[x] = f[x]
        BY <1>2, <3>5, FaultMainJob
      <3>4. AskGC(f) = g
        BY <3>1 DEF g
      <3> QED
        BY <3>3, <3>4
    <2>2. CASE job # NoJob
      BY <1>1, <1>3, <2>2 DEF AskGC
    <2> QED
      BY <2>1, <2>2
  <1>4. CASE f.GcState = "ERASE" /\ ~f.GcInit
    <2> DEFINE g == CurrBlkCheck(f)
    <2>1. /\ FaultInv(flash, g, job) /\ g.GcState = "ERASE"
          /\ \A x \in Fields \ {"NextFreePage"} : g[x] = f[x]
      BY <1>1, <1>2, <1>4, FaultPageChecked
    <2>2. g.MainJob = "GC" /\ ~Answering(g) /\ ~Stage(g, "reading")
      BY <1>2, <2>1 DEF Fields, Stage, Answering, UserWrites
    <2> HIDE DEF g
    <2>3. CASE job = NoJob /\ BlkWritable(f)
      <3> DEFINE h == [g EXCEPT !.MainJob = "WRITE"]
      <3>1. AskGC(f) = h
        BY <1>4, <2>3 DEF AskGC, g
      <3>2. MainInv(h, job)
        <4>1. /\ FaultTypes(g) /\ MainInv(g, job) /\ g.CacheUpdated /\ g.InitGCState = "COMPLETE"
              /\ g.GcState = "ERASE"
          BY <1>1, <2>1 DEF Fields, FaultInv
        <4> QED
          BY <2>3, <4>1, FaultMainInvOf DEF IntrRuns
      <3>4. FaultTypes(g)
        BY <2>1 DEF FaultInv
      <3>5. DOMAIN h = Fields /\ h.MainJob = "WRITE"
            /\ \A x \in Fields : x # "MainJob" => h[x] = g[x]
        BY <3>4 DEF FaultTypes, Fields
      <3> HIDE DEF h
      <3>3. FaultInv(flash, h, job) /\ h.MainJob = "WRITE"
            /\ \A x \in Fields : x # "MainJob" => h[x] = g[x]
        BY <2>1, <2>2, <3>2, <3>5, FaultMainJob
      <3> QED
        BY <2>1, <3>1, <3>3
    <2>4. CASE ~(job = NoJob /\ BlkWritable(f))
      <3>1. AskGC(f) = g
        BY <1>4, <2>4 DEF AskGC, g
      <3> QED
        BY <2>1, <2>2, <3>1
    <2> QED
      BY <2>3, <2>4
  <1>5. CASE ~(IsImmediate(f.Req) /\ f.GcState = "START_COPY") /\ ~(f.GcState = "ERASE" /\ ~f.GcInit)
    BY <1>5 DEF AskGC
  <1> QED
    BY <1>3, <1>4, <1>5

\* Fee_lDecideMainJob keeps it and chooses READ and WRITE for a request only.
LEMMA FaultDecide ==
  ASSUME NEW f, FaultInv(flash, f, job)
  PROVE  LET g == DecideMainJob(f)
         IN /\ FaultInv(flash, g, job)
            /\ \A x \in Fields \ {"MainJob", "NextFreePage"} : g[x] = f[x]
            /\ g.MainJob \in {"READ", "WRITE"} => g.Req # NoReq
            /\ g.MainJob = "READ" /\ job = NoJob => Stage(g, "toRead")
  <1>1. /\ FaultTypes(f) /\ MainInv(f, job) /\ GcFault(flash, f, job) /\ UserFault(flash, f, job)
        /\ Answering(f) => f.MainJob = "WRITE"
        /\ Stage(f, "reading") => f.MainJob = "READ" /\ job # NoJob
        /\ Stage(f, "stuck") => f.MainJob = "GC"
    BY StagesMain DEF FaultInv
  <1> DEFINE Good(g) ==
               /\ FaultInv(flash, g, job)
               /\ \A x \in Fields \ {"MainJob", "NextFreePage"} : g[x] = f[x]
               /\ g.MainJob \in {"READ", "WRITE"} => g.Req # NoReq
               /\ g.MainJob = "READ" /\ job = NoJob => Stage(g, "toRead")
             To(m) == [f EXCEPT !.MainJob = m]
  <1>2. ASSUME NEW m \in {"INITGC", "CACHEUPDATE", "READ", "WRITE", "GC", "NONE"},
               MainInv(To(m), job),
               Answering(f) => m = "WRITE", Stage(f, "reading") => m = "READ",
               m \in {"READ", "WRITE"} => f.Req # NoReq,
               m = "READ" /\ job = NoJob => Stage(f, "toRead")
        PROVE  Good(To(m))
    <2>1. (Answering(f) => m = "WRITE") /\ (Stage(f, "reading") => m = "READ")
      BY <1>2
    <2> DEFINE g == [f EXCEPT !.MainJob = m]
    <2>2. DOMAIN g = Fields /\ g.MainJob = m
          /\ \A x \in Fields : x # "MainJob" => g[x] = f[x]
      BY <1>1 DEF FaultTypes, Fields
    <2>3. g = To(m)
      OBVIOUS
    <2>4. MainInv(g, job)
      BY <1>2
    <2> HIDE DEF g, To
    <2>5. FaultInv(flash, g, job)
      BY <2>1, <2>2, <2>4, FaultMainJob
    <2> QED
      BY <1>2, <2>2, <2>3, <2>5 DEF Fields, Stage
  <1> SUFFICES Good(DecideMainJob(f))
    OBVIOUS
  <1> HIDE DEF Good
  <1>3. Requested(f) => /\ f.Req # NoReq /\ Stage(f, "request") /\ ~Answering(f)
                        /\ ~Stage(f, "reading") /\ ~ReadRequested(f)
    BY DEF Requested, ReadRequested, Stage, Answering, UserWrites
  <1>4. ReadRequested(f) => /\ f.Req # NoReq /\ Stage(f, "toRead") /\ ~Answering(f)
                            /\ ~Stage(f, "reading") /\ ~Requested(f)
    BY DEF Requested, ReadRequested, Stage, Answering, UserWrites
  <1>5. f.MainJob \notin {"INITGC", "GC"} => ~IntrRuns(job)
    BY <1>1 DEF MainInv
  <1>6. AfterJob(f) \in {"GC", "NONE"} /\ (AfterJob(f) = "NONE" => f.GcState = "IDLE")
    BY DEF AfterJob
  <1>7. CASE f.MainJob = "INITGC" /\ f.InitGCState = "COMPLETE"
    <2>1. DecideMainJob(f) = To("CACHEUPDATE")
      BY <1>7 DEF DecideMainJob
    <2>2. ~IntrRuns(job) /\ ~f.CacheUpdated
      BY <1>1, <1>7 DEF MainInv, Quiet
    <2>3. f.GcState \notin {"COPY_WRITE", "V_SP", "V_M", "E_SP", "E_M", "FAIL"}
          /\ ~Answering(f) /\ ~Stage(f, "reading")
      BY <1>1, <1>7, <2>2 DEF MainInv
    <2>4. MainInv(To("CACHEUPDATE"), job)
      BY <1>1, <1>7, <2>2, <2>3, FaultMainInvOf
    <2>5. Good(To("CACHEUPDATE"))
      BY <1>2, <2>3, <2>4
    <2> QED
      BY <2>1, <2>5
  <1>8. CASE f.MainJob \in {"CACHEUPDATE", "NONE", "READ", "WRITE"} /\ f.CacheUpdated
    <2>1. /\ f.InitGCState = "COMPLETE" /\ ~IntrRuns(job)
          /\ f.GcState \notin {"COPY_WRITE", "V_SP", "V_M", "E_SP", "E_M", "FAIL"}
      BY <1>1, <1>5, <1>8 DEF MainInv
    <2>2. ASSUME NEW m \in {"READ", "WRITE", "GC", "NONE"} PROVE MainInv(To(m), job)
      BY <1>1, <1>8, <2>1, FaultMainInvOf
    <2>3. f.MainJob # "WRITE" => ~Answering(f)
      BY <1>1
    <2>4. f.MainJob # "READ" => ~Stage(f, "reading")
      BY <1>1
    <2>5. CASE ReadRequested(f) /\ f.MainJob # "READ"
      <3>1. DecideMainJob(f) = To("READ")
        BY <1>4, <1>8, <2>5 DEF DecideMainJob
      <3>2. Good(To("READ"))
        BY <1>2, <1>4, <2>2, <2>5
      <3> QED
        BY <3>1, <3>2
    <2>6. CASE Requested(f) /\ f.MainJob # "WRITE"
      <3>1. DecideMainJob(f) = To("WRITE")
        BY <1>3, <1>8, <2>6 DEF DecideMainJob
      <3>2. Good(To("WRITE"))
        BY <1>2, <1>3, <2>2, <2>6
      <3> QED
        BY <3>1, <3>2
    <2>7. CASE Requested(f) /\ f.MainJob = "WRITE" /\ f.GcState # "IDLE"
      <3>1. DecideMainJob(f) = To("GC")
        BY <1>3, <2>7 DEF DecideMainJob
      <3>2. Good(To("GC"))
        BY <1>2, <1>3, <2>2, <2>7
      <3> QED
        BY <3>1, <3>2
    <2>8. CASE \/ f.MainJob = "CACHEUPDATE" /\ ~ReadRequested(f) /\ ~Requested(f)
               \/ f.MainJob \in {"READ", "WRITE"} /\ f.Req = NoReq
      <3>1. DecideMainJob(f) = To(AfterJob(f))
        BY <1>3, <1>4, <1>8, <2>8 DEF DecideMainJob
      <3>2. ~Answering(f) /\ ~Stage(f, "reading")
        BY <2>3, <2>4, <2>8 DEF Stage, Answering, UserWrites
      <3>3. MainInv(To(AfterJob(f)), job)
        BY <1>6, <2>2
      <3>4. Good(To(AfterJob(f)))
        <4> HIDE DEF To
        <4> QED
          BY <1>2, <1>6, <3>2, <3>3
      <3> QED
        BY <3>1, <3>4
    <2>9. CASE /\ ~(ReadRequested(f) /\ f.MainJob # "READ") /\ ~(Requested(f) /\ f.MainJob # "WRITE")
               /\ ~(Requested(f) /\ f.MainJob = "WRITE" /\ f.GcState # "IDLE")
               /\ ~(f.MainJob = "CACHEUPDATE" /\ ~ReadRequested(f) /\ ~Requested(f))
               /\ ~(f.MainJob \in {"READ", "WRITE"} /\ f.Req = NoReq)
      <3>1. DecideMainJob(f) = f
        BY <1>3, <1>4, <1>8, <2>9 DEF DecideMainJob
      <3>2. f.MainJob = "READ" /\ job = NoJob => Stage(f, "toRead")
        <4> SUFFICES ASSUME f.MainJob = "READ", job = NoJob PROVE Stage(f, "toRead")
          OBVIOUS
        <4>1. f.Req # NoReq /\ ~Requested(f)
          BY <2>9
        <4>2. f.Req.stage \in {"request", "toRead", "reading", "compare", "recopy", "fail", "stuck"}
          <5>1. f.Req \in Requests
            BY <1>1, <4>1, FieldFacts
          <5> QED
            BY <5>1 DEF Requests
        <4>3. ~Stage(f, "reading") /\ ~Answering(f) /\ ~Stage(f, "stuck")
          BY <1>1, <2>3
        <4> QED
          BY <4>1, <4>2, <4>3 DEF Stage, Answering, UserWrites, Requested
      <3>3. Good(f)
        BY <2>9, <3>2 DEF Good
      <3> QED
        BY <3>1, <3>3
    <2> QED
      BY <2>5, <2>6, <2>7, <2>8, <2>9
  <1>9. CASE f.MainJob = "GC"
    <2>1. f.CacheUpdated /\ f.InitGCState = "COMPLETE" /\ ~Answering(f) /\ ~Stage(f, "reading")
      BY <1>1, <1>9 DEF MainInv
    <2>2. CASE f.GcState = "IDLE"
      <3>1. DecideMainJob(f) = To("NONE")
        BY <1>9, <2>2 DEF DecideMainJob
      <3>2. ~IntrRuns(job)
        BY <1>1, <2>1, <2>2 DEF GcFault, Busy, Quiet
      <3>3. MainInv(To("NONE"), job)
        BY <1>1, <2>1, <2>2, <3>2, FaultMainInvOf
      <3>4. Good(To("NONE"))
        BY <1>2, <2>1, <3>3
      <3> QED
        BY <3>1, <3>4
    <2>3. CASE f.GcState # "IDLE" /\ ReadRequested(f) /\ ReadAllowed(f)
      <3>1. DecideMainJob(f) = To("READ")
        BY <1>4, <1>9, <2>3 DEF DecideMainJob
      <3>2. f.GcState \in {"REQUESTED", "START_COPY", "ERASE"} /\ ~IntrRuns(job)
        BY <1>1, <2>1, <2>3 DEF ReadAllowed, GcFault, Busy, Quiet, IntrRuns
      <3>3. MainInv(To("READ"), job)
        BY <1>1, <2>1, <3>2, FaultMainInvOf
      <3>4. Good(To("READ"))
        BY <1>2, <1>4, <2>1, <2>3, <3>3
      <3> QED
        BY <3>1, <3>4
    <2>4. CASE f.GcState # "IDLE" /\ Requested(f)
      <3>1. DecideMainJob(f) = AskGC(f)
        BY <1>3, <1>9, <2>4 DEF DecideMainJob
      <3>2. Good(AskGC(f))
        <4> DEFINE g == AskGC(f)
        <4>1. /\ FaultInv(flash, g, job) /\ g.MainJob \in {"GC", "WRITE"}
              /\ \A x \in Fields \ {"MainJob", "NextFreePage"} : g[x] = f[x]
          BY <1>9, <2>4, FaultAskGC
        <4> HIDE DEF g
        <4>2. g.Req = f.Req
          BY <4>1 DEF Fields
        <4> QED
          BY <1>3, <2>4, <4>1, <4>2 DEF g, Good
      <3> QED
        BY <3>1, <3>2
    <2>5. CASE f.GcState # "IDLE" /\ ~Requested(f) /\ ~(ReadRequested(f) /\ ReadAllowed(f))
      <3>1. DecideMainJob(f) = f
        BY <1>9, <2>5 DEF DecideMainJob
      <3> QED
        BY <1>9, <3>1 DEF Good
    <2> QED
      BY <2>2, <2>3, <2>4, <2>5
  <1>10. CASE \/ f.MainJob = "INITGC" /\ f.InitGCState # "COMPLETE"
              \/ f.MainJob = "CACHEUPDATE" /\ ~f.CacheUpdated
    <2>1. DecideMainJob(f) = f
      BY <1>10 DEF DecideMainJob
    <2> QED
      BY <1>10, <2>1 DEF Good
  <1>11. \/ f.MainJob = "INITGC" /\ f.InitGCState = "COMPLETE"
         \/ f.MainJob \in {"CACHEUPDATE", "NONE", "READ", "WRITE"} /\ f.CacheUpdated
         \/ f.MainJob = "GC"
         \/ f.MainJob = "INITGC" /\ f.InitGCState # "COMPLETE"
         \/ f.MainJob = "CACHEUPDATE" /\ ~f.CacheUpdated
    BY <1>1, FieldFacts DEF MainInv
  <1> QED
    BY <1>7, <1>8, <1>9, <1>10, <1>11

-----------------------------------------------------------------------------
(* The steps of the initialisation. *)

\* What a step of the initialisation has to show.
LEMMA FaultStartUp ==
  ASSUME NEW f, FaultInv(flash, f, NoJob), f.MainJob = "INITGC",
         NEW g, FaultTypes(g), NEW j, j = NoJob \/ IntrRuns(j),
         g.MainJob = "INITGC", ~g.CacheUpdated, g.Req = f.Req, g.UserJob = f.UserJob,
         IntrRuns(j) => g.IntrJob = "IDLE",
         g.GcState = "IDLE" \/ (g.InitGCState = "COMPLETE" /\ g.GcState = "ERASE"),
         g.InitGCState = "COMPLETE" => Quiet(g, j),
         PrepFault(flash, g, j), RepairFault(flash, g, j), StartFault(flash, g, j),
         GcFault(flash, g, j)
  PROVE  FaultInv(flash, g, j)
  <1>1. InOrder(flash) /\ UserFault(flash, f, NoJob) /\ MainInv(f, NoJob)
    BY DEF FaultInv
  <1>2. \A st : Stage(g, st) <=> Stage(f, st)
    BY DEF Stage
  <1>3. ~Answering(f) /\ ~Stage(f, "reading") /\ ~Stage(f, "stuck")
    BY <1>1, StagesMain
  <1>4. UserFault(flash, g, j)
    BY <1>1, <1>2, <1>3 DEF UserFault, UserWrites, Answering
  <1>5. g.UserJob = "IDLE"
    BY <1>1, <1>3 DEF UserFault, Answering
  <1>6. MainInv(g, j)
    BY <1>5 DEF MainInv
  <1>7. CacheFault(flash, g)
    BY DEF CacheFault
  <1> QED
    BY <1>1, <1>4, <1>6, <1>7 DEF FaultInv

\* The other fields.
Same(f, g, X) == DOMAIN g = Fields /\ \A x \in Fields \ X : g[x] = f[x]

\* What the initialisation starts with: no job runs.
LEMMA InitFacts ==
  ASSUME NEW f, FaultInv(flash, f, NoJob), f.MainJob = "INITGC"
  PROVE  /\ InOrder(flash) /\ FaultTypes(f) /\ ~f.CacheUpdated /\ f.GcState \in {"IDLE", "ERASE"}
         /\ f.InitGCState # "COMPLETE" => f.GcState = "IDLE"
         /\ PrepFault(flash, f, NoJob) /\ RepairFault(flash, f, NoJob)
         /\ StartFault(flash, f, NoJob) /\ GcFault(flash, f, NoJob) /\ DOMAIN f = Fields
         /\ f.InitGCState \notin {"DIRTY", "PREPARE"} => f.IntrJob = "IDLE"
         /\ ~IntrRuns(NoJob)
  <1>1. FaultTypes(f) /\ MainInv(f, NoJob) /\ PrepFault(flash, f, NoJob) /\ StartFault(flash, f, NoJob)
    BY DEF FaultInv
  <1>2. ~f.CacheUpdated /\ (f.InitGCState # "COMPLETE" => f.GcState = "IDLE")
        /\ f.GcState \in {"IDLE", "ERASE"} /\ DOMAIN f = Fields
    BY <1>1, FieldFacts DEF MainInv
  <1>3. f.InitGCState \notin {"DIRTY", "PREPARE"} => f.IntrJob = "IDLE"
    BY <1>1, <1>2, FieldFacts DEF MainInv, PrepFault, StartFault, Quiet
  <1> QED
    BY <1>2, <1>3 DEF FaultInv, IntrRuns

\* A step that gives up.
LEMMA FaultGivenUp ==
  ASSUME NEW f, FaultInv(flash, f, NoJob), f.MainJob = "INITGC", f.InitGCState # "COMPLETE",
         NEW g, Same(f, g, {"IntrJob", "InitGCState"}), g.IntrJob = "IDLE", g.InitGCState = "FAIL"
  PROVE  FaultInv(flash, g, NoJob)
  <1>1. /\ FaultTypes(f) /\ ~f.CacheUpdated /\ f.GcState = "IDLE" /\ ~IntrRuns(NoJob)
    BY InitFacts
  <1>2. DOMAIN g = Fields /\ \A x \in Fields \ {"IntrJob", "InitGCState"} : g[x] = f[x]
    BY DEF Same
  <1>3. FaultTypes(g)
    <2> DEFINE X == {"IntrJob", "InitGCState"}
    <2>1. \A x \in Fields \ X : g[x] = f[x]
      BY <1>2
    <2>2. \A x \in X : x \in DOMAIN FieldTypes => g[x] \in FieldTypes[x]
      BY DEF FieldTypes
    <2> HIDE DEF X
    <2> QED
      BY <1>1, <1>2, <2>1, <2>2, TypesKept
  <1>4. g.MainJob = "INITGC" /\ ~g.CacheUpdated /\ g.Req = f.Req /\ g.UserJob = f.UserJob
        /\ g.GcState = "IDLE"
    BY <1>1, <1>2 DEF Fields
  <1>5. PrepFault(flash, g, NoJob) /\ RepairFault(flash, g, NoJob) /\ GcFault(flash, g, NoJob)
        /\ StartFault(flash, g, NoJob)
    BY <1>1 DEF PrepFault, RepairFault, GcFault, StartFault, Quiet
  <1> QED
    BY <1>1, <1>3, <1>4, <1>5, FaultStartUp

\* The fields the end of a job of the repair changes.
LEMMA RepairResultFields ==
  ASSUME NEW f, FaultTypes(f), f.InitGCState = "DIRTY", f.IntrJob # "IDLE"
  PROVE  LET g == InitGCResult(f)
             s == DirtySector(f)
             passed == f.IntrJob = "PASS"
             clean == \/ f.RepairStep = "MARKER" /\ passed
                      \/ /\ f.RepairStep = "MARKER" /\ f.IntrJobFailCount = 0
                         /\ f.NextFreeWL[s] > (WLs - 1) * PerWL
         IN /\ g.IntrJob = "IDLE"
            /\ \/ /\ clean
                  /\ Same(f, g, {"IntrJob", "Dirty", "InitGCState", "IntrJobFailCount"})
                  /\ g.Dirty = [f.Dirty EXCEPT ![s] = FALSE]
                  /\ g.InitGCState = (IF f.Dirty[Other(s)] THEN "DIRTY" ELSE "NORMAL")
                  /\ g.IntrJobFailCount = 0
               \/ /\ f.RepairStep = "PAGE" /\ passed
                  /\ Same(f, g, {"IntrJob", "RepairStep"}) /\ g.RepairStep = "MARKER"
               \/ /\ f.RepairStep = "MARKER" /\ ~passed /\ f.IntrJobFailCount = 0
                  /\ ~(f.NextFreeWL[s] > (WLs - 1) * PerWL)
                  /\ Same(f, g, {"IntrJob", "RepairStep", "IntrJobFailCount"})
                  /\ g.RepairStep = "PAGE" /\ g.IntrJobFailCount = 1
               \/ Same(f, g, {"IntrJob", "InitGCState"}) /\ g.InitGCState = "FAIL"
  <1> DEFINE g == InitGCResult(f)
             h == [f EXCEPT !.IntrJob = "IDLE"]
             s == DirtySector(f)
             passed == f.IntrJob = "PASS"
             clean == [h EXCEPT !.Dirty[s] = FALSE,
                                !.InitGCState = IF h.Dirty[Other(s)] THEN @ ELSE "NORMAL"]
  <1>1. DOMAIN f = Fields /\ f.Dirty \in [Sectors -> BOOLEAN] /\ s \in Sectors
        /\ f.RepairStep \in {"MARKER", "PAGE"} /\ f.IntrJobFailCount \in {0, 1}
    BY FieldFacts
  <1>2. h.IntrJob = "IDLE" /\ DOMAIN h = Fields /\ \A x \in Fields \ {"IntrJob"} : h[x] = f[x]
    BY <1>1 DEF Fields
  <1>3. g = RepairResult(h, passed)
    BY DEF InitGCResult
  <1> HIDE DEF h, g
  <1>4. DirtySector(h) = s /\ h.Dirty = f.Dirty /\ h.RepairStep = f.RepairStep
        /\ h.InitGCState = "DIRTY" /\ h.IntrJobFailCount = f.IntrJobFailCount
        /\ h.NextFreeWL = f.NextFreeWL
    BY <1>1, <1>2 DEF Fields, DirtySector
  <1> HIDE DEF s, passed
  <1>5. /\ clean.Dirty = [f.Dirty EXCEPT ![s] = FALSE]
        /\ clean.InitGCState = (IF f.Dirty[Other(s)] THEN "DIRTY" ELSE "NORMAL")
        /\ DOMAIN clean = Fields
        /\ \A x \in Fields \ {"Dirty", "InitGCState"} : clean[x] = h[x]
    BY <1>2, <1>4 DEF Fields
  <1>6. g = CASE f.RepairStep = "MARKER" /\ passed -> [clean EXCEPT !.IntrJobFailCount = 0]
              [] f.RepairStep = "PAGE" /\ passed -> [h EXCEPT !.RepairStep = "MARKER"]
              [] f.RepairStep = "MARKER" /\ ~passed /\ f.IntrJobFailCount = 0 ->
                   IF f.NextFreeWL[s] > (WLs - 1) * PerWL THEN clean
                   ELSE [h EXCEPT !.IntrJobFailCount = 1, !.RepairStep = "PAGE"]
              [] OTHER -> InitGCFail(h)
    BY <1>3, <1>4 DEF RepairResult
  <1> HIDE DEF clean
  <1>7. CASE f.RepairStep = "MARKER" /\ passed
    <2>1. g = [clean EXCEPT !.IntrJobFailCount = 0]
      BY <1>6, <1>7
    <2> QED
      BY <1>2, <1>5, <1>7, <2>1 DEF Same, Fields, g, s, passed
  <1>8. CASE f.RepairStep = "PAGE" /\ passed
    <2>1. g = [h EXCEPT !.RepairStep = "MARKER"]
      BY <1>6, <1>8
    <2> QED
      BY <1>2, <1>8, <2>1 DEF Same, Fields, g, s, passed
  <1>9. CASE f.RepairStep = "MARKER" /\ ~passed /\ f.IntrJobFailCount = 0
    <2>1. CASE f.NextFreeWL[s] > (WLs - 1) * PerWL
      <3>1. g = clean
        BY <1>6, <1>9, <2>1
      <3>2. clean.IntrJobFailCount = 0 /\ clean.IntrJob = "IDLE"
        BY <1>2, <1>4, <1>5, <1>9 DEF Fields
      <3> QED
        BY <1>2, <1>5, <1>9, <2>1, <3>1, <3>2 DEF Same, Fields, g, s, passed
    <2>2. CASE ~(f.NextFreeWL[s] > (WLs - 1) * PerWL)
      <3>1. g = [h EXCEPT !.IntrJobFailCount = 1, !.RepairStep = "PAGE"]
        BY <1>6, <1>9, <2>2
      <3> QED
        BY <1>2, <1>9, <2>2, <3>1 DEF Same, Fields, g, s, passed
    <2> QED
      BY <2>1, <2>2
  <1>10. CASE /\ ~(f.RepairStep = "MARKER" /\ passed) /\ ~(f.RepairStep = "PAGE" /\ passed)
              /\ ~(f.RepairStep = "MARKER" /\ ~passed /\ f.IntrJobFailCount = 0)
    <2>1. g = [h EXCEPT !.InitGCState = "FAIL"]
      BY <1>6, <1>10 DEF InitGCFail
    <2> QED
      BY <1>2, <2>1 DEF Same, Fields, g
  <1> QED
    BY <1>7, <1>8, <1>9, <1>10

\* The end of a job of the repair is handled.
LEMMA FaultRepairResult ==
  ASSUME NEW f, FaultInv(flash, f, NoJob), f.MainJob = "INITGC", f.InitGCState = "DIRTY",
         f.IntrJob # "IDLE"
  PROVE  LET g == InitGCResult(f)
         IN FaultInv(flash, g, NoJob) /\ g.MainJob = "INITGC" /\ g.IntrJob = "IDLE"
  <1> DEFINE g == InitGCResult(f)
             s == DirtySector(f)
             passed == f.IntrJob = "PASS"
             clean == \/ f.RepairStep = "MARKER" /\ passed
                      \/ /\ f.RepairStep = "MARKER" /\ f.IntrJobFailCount = 0
                         /\ f.NextFreeWL[s] > (WLs - 1) * PerWL
  <1>1. /\ InOrder(flash) /\ FaultTypes(f) /\ ~f.CacheUpdated /\ f.GcState = "IDLE"
        /\ RepairFault(flash, f, NoJob) /\ StartFault(flash, f, NoJob) /\ DOMAIN f = Fields
        /\ ~IntrRuns(NoJob)
    BY InitFacts
  <1>2. /\ s \in Sectors /\ Other(s) \in Sectors /\ Other(s) # s /\ Cur(f) \in Sectors
        /\ f.Dirty \in [Sectors -> BOOLEAN] /\ f.IntrJob \in {"PASS", "FAIL"}
        /\ f.NextFreeWL \in [Sectors -> Nat] /\ f.StatePageAddr \in [Sectors -> Nat]
    BY <1>1, FieldFacts, SlotFacts
  <1>3. /\ g.IntrJob = "IDLE"
        /\ \/ /\ clean
              /\ Same(f, g, {"IntrJob", "Dirty", "InitGCState", "IntrJobFailCount"})
              /\ g.Dirty = [f.Dirty EXCEPT ![s] = FALSE]
              /\ g.InitGCState = (IF f.Dirty[Other(s)] THEN "DIRTY" ELSE "NORMAL")
              /\ g.IntrJobFailCount = 0
           \/ /\ f.RepairStep = "PAGE" /\ passed
              /\ Same(f, g, {"IntrJob", "RepairStep"}) /\ g.RepairStep = "MARKER"
           \/ /\ f.RepairStep = "MARKER" /\ ~passed /\ f.IntrJobFailCount = 0
              /\ ~(f.NextFreeWL[s] > (WLs - 1) * PerWL)
              /\ Same(f, g, {"IntrJob", "RepairStep", "IntrJobFailCount"})
              /\ g.RepairStep = "PAGE" /\ g.IntrJobFailCount = 1
           \/ Same(f, g, {"IntrJob", "InitGCState"}) /\ g.InitGCState = "FAIL"
    BY <1>1, RepairResultFields
  <1>4. /\ \E t \in Sectors : f.Dirty[t]
        /\ \A t \in Sectors : f.Dirty[t] => f.StatePageAddr[t] \in Slots
        /\ \A t \in Sectors : f.Dirty[t] /\ (t # s \/ f.RepairStep = "MARKER") =>
             flash[t][f.StatePageAddr[t]].kind = "state"
        /\ f.RepairStep = "PAGE" /\ passed =>
             /\ f.NextFreeWL[s] = f.StatePageAddr[s] + PerWL
             /\ IsPage(flash[s][f.StatePageAddr[s]], "none")
    <2>1. f.RepairStep = "PAGE" /\ passed => ~Quiet(f, NoJob) /\ f.IntrJob # "IDLE"
      BY DEF Quiet
    <2> QED
      BY <1>1, <2>1 DEF RepairFault, PageEnded
  <1>5. /\ f.StateCount > 0 /\ \A t \in Sectors : OpenWL(flash[t], f.NextFreeWL[t])
        /\ f.GcDest = 0
        /\ \/ Unread(flash[Cur(f)], f.NextFreeWL[Cur(f)])
           \/ f.RepairStep = "PAGE" /\ s = Cur(f)
    BY <1>1 DEF StartFault
  <1>6. f.Dirty[s]
    <2>1. \A t \in Sectors : t = Cur(f) \/ t = Other(Cur(f))
      BY <1>2, SlotFacts
    <2> QED
      BY <1>4, <2>1 DEF DirtySector, Cur
  <1> HIDE DEF g, s, passed, clean
  <1>7. Quiet(g, NoJob)
    BY <1>1, <1>3 DEF Quiet
  <1>8. CASE g.InitGCState = "FAIL" /\ Same(f, g, {"IntrJob", "InitGCState"})
    <2>1. FaultInv(flash, g, NoJob)
      BY <1>3, <1>8, FaultGivenUp
    <2> QED
      BY <1>3, <1>8, <2>1 DEF Same, Fields, g
  <1> DEFINE S == {"IntrJob", "Dirty", "InitGCState", "IntrJobFailCount", "RepairStep"}
  <1>9. /\ g.Dirty \in [Sectors -> BOOLEAN] /\ g.InitGCState \in {"DIRTY", "NORMAL"}
        /\ g.IntrJobFailCount \in {0, 1} /\ g.RepairStep \in {"MARKER", "PAGE"}
        /\ Same(f, g, S)
        => FaultTypes(g)
    <2> SUFFICES ASSUME g.Dirty \in [Sectors -> BOOLEAN], g.InitGCState \in {"DIRTY", "NORMAL"},
                        g.IntrJobFailCount \in {0, 1}, g.RepairStep \in {"MARKER", "PAGE"},
                        Same(f, g, S)
                 PROVE  FaultTypes(g)
      OBVIOUS
    <2>1. \A x \in Fields \ S : g[x] = f[x]
      BY DEF Same
    <2>2. \A x \in S : x \in DOMAIN FieldTypes => g[x] \in FieldTypes[x]
      BY <1>3 DEF FieldTypes
    <2>3. DOMAIN g = Fields
      BY DEF Same
    <2> HIDE DEF S
    <2> QED
      BY <1>1, <2>1, <2>2, <2>3, TypesKept
  <1>10. Same(f, g, S) =>
           /\ Cur(g) = Cur(f) /\ g.MainJob = "INITGC" /\ ~g.CacheUpdated
           /\ g.GcState = "IDLE" /\ g.Req = f.Req /\ g.UserJob = f.UserJob
           /\ g.StatePageAddr = f.StatePageAddr /\ g.NextFreeWL = f.NextFreeWL
           /\ g.GcDest = 0 /\ g.StateCount = f.StateCount
    BY <1>1, <1>5 DEF Same, Fields, Cur
  <1>11. /\ FaultTypes(g) /\ Same(f, g, S) /\ g.InitGCState \in {"DIRTY", "NORMAL"}
         /\ RepairFault(flash, g, NoJob) /\ StartFault(flash, g, NoJob)
         => FaultInv(flash, g, NoJob)
    <2> SUFFICES ASSUME FaultTypes(g), Same(f, g, S), g.InitGCState \in {"DIRTY", "NORMAL"},
                        RepairFault(flash, g, NoJob), StartFault(flash, g, NoJob)
                 PROVE  FaultInv(flash, g, NoJob)
      OBVIOUS
    <2>1. PrepFault(flash, g, NoJob) /\ GcFault(flash, g, NoJob)
      BY DEF PrepFault, GcFault
    <2> QED
      BY <1>1, <1>7, <1>10, <2>1, FaultStartUp
  <1>12. CASE /\ clean
              /\ Same(f, g, {"IntrJob", "Dirty", "InitGCState", "IntrJobFailCount"})
              /\ g.Dirty = [f.Dirty EXCEPT ![s] = FALSE]
              /\ g.InitGCState = (IF f.Dirty[Other(s)] THEN "DIRTY" ELSE "NORMAL")
              /\ g.IntrJobFailCount = 0
    <2>0. f.RepairStep = "MARKER" /\ g.RepairStep = "MARKER" /\ Same(f, g, S)
      <3> DEFINE Z == {"IntrJob", "Dirty", "InitGCState", "IntrJobFailCount"}
      <3>1. DOMAIN g = Fields /\ \A x \in Fields \ Z : g[x] = f[x]
        BY <1>12 DEF Same
      <3>2. "RepairStep" \in Fields \ Z /\ Z \subseteq S
        BY DEF Fields
      <3>3. f.RepairStep = "MARKER"
        BY <1>12 DEF clean
      <3> HIDE DEF Z, S
      <3>4. g["RepairStep"] = f["RepairStep"]
        BY <3>1, <3>2
      <3> QED
        BY <3>1, <3>2, <3>3, <3>4 DEF Same
    <2>1. g.InitGCState \in {"DIRTY", "NORMAL"} /\ g.Dirty \in [Sectors -> BOOLEAN]
          /\ \A t \in Sectors : g.Dirty[t] => t # s /\ f.Dirty[t]
          /\ (g.InitGCState = "DIRTY" => g.Dirty[Other(s)])
      BY <1>2, <1>12
    <2>2. RepairFault(flash, g, NoJob)
      BY <1>1, <1>2, <1>3, <1>4, <1>10, <2>0, <2>1 DEF RepairFault
    <2>3. StartFault(flash, g, NoJob)
      BY <1>5, <1>7, <1>10, <2>0, <2>1 DEF StartFault
    <2> HIDE DEF S
    <2> QED
      BY <1>3, <1>9, <1>10, <1>11, <1>12, <2>0, <2>1, <2>2, <2>3 DEF g
  <1>13. CASE /\ f.RepairStep = "PAGE" /\ passed
              /\ Same(f, g, {"IntrJob", "RepairStep"}) /\ g.RepairStep = "MARKER"
    <2>0. Same(f, g, S) /\ g.InitGCState = "DIRTY" /\ g.Dirty = f.Dirty
          /\ g.IntrJobFailCount = f.IntrJobFailCount /\ f.IntrJobFailCount \in {0, 1}
      <3> DEFINE Z == {"IntrJob", "RepairStep"}
      <3>1. DOMAIN g = Fields /\ \A x \in Fields \ Z : g[x] = f[x]
        BY <1>13 DEF Same
      <3>2. {"InitGCState", "Dirty", "IntrJobFailCount"} \subseteq Fields \ Z /\ Z \subseteq S
        BY DEF Fields
      <3>3. f.InitGCState = "DIRTY" /\ f.IntrJobFailCount \in {0, 1}
        BY <1>1, FieldFacts
      <3> HIDE DEF Z, S
      <3>4. /\ g["InitGCState"] = f["InitGCState"] /\ g["Dirty"] = f["Dirty"]
            /\ g["IntrJobFailCount"] = f["IntrJobFailCount"]
        BY <3>1, <3>2
      <3> QED
        BY <3>1, <3>2, <3>3, <3>4 DEF Same
    <2>1. DirtySector(g) = s
      BY <1>10, <2>0 DEF DirtySector, Cur, s
    <2>2. flash[s][f.StatePageAddr[s]].kind = "state"
      BY <1>4, <1>13 DEF IsPage, Pages
    <2>3. RepairFault(flash, g, NoJob)
      BY <1>1, <1>2, <1>3, <1>4, <1>10, <1>13, <2>0, <2>1, <2>2 DEF RepairFault
    <2>4. Unread(flash[Cur(f)], f.NextFreeWL[Cur(f)])
      <3>1. CASE s = Cur(f)
        <4>1. f.StatePageAddr[s] \in Slots /\ f.StatePageAddr[s] \in Nat
          BY <1>2, <1>4, <1>6
        <4>2. f.NextFreeWL[s] >= PerWL /\ f.NextFreeWL[s] - PerWL = f.StatePageAddr[s]
          BY <1>4, <1>13, <4>1, WordlineSize
        <4>3. flash[s][f.StatePageAddr[s]] # Blank
          BY <2>2 DEF Blank
        <4> QED
          BY <1>2, <1>5, <3>1, <4>1, <4>2, <4>3 DEF Unread
      <3> QED
        BY <1>5, <3>1
    <2>5. StartFault(flash, g, NoJob)
      BY <1>5, <1>7, <1>10, <2>0, <2>4 DEF StartFault
    <2> HIDE DEF S
    <2> QED
      BY <1>2, <1>3, <1>9, <1>10, <1>11, <1>13, <2>0, <2>3, <2>5 DEF g
  <1>14. CASE /\ f.RepairStep = "MARKER" /\ ~passed /\ f.IntrJobFailCount = 0
              /\ ~(f.NextFreeWL[s] > (WLs - 1) * PerWL)
              /\ Same(f, g, {"IntrJob", "RepairStep", "IntrJobFailCount"})
              /\ g.RepairStep = "PAGE" /\ g.IntrJobFailCount = 1
    <2>0. Same(f, g, S) /\ g.InitGCState = "DIRTY" /\ g.Dirty = f.Dirty
      BY <1>14 DEF Same, Fields
    <2>1. DirtySector(g) = s
      BY <1>10, <2>0 DEF DirtySector, Cur, s
    <2>2. f.NextFreeWL[s] \in Slots
      <3>1. f.NextFreeWL[s] \in Nat /\ WLs \in Nat /\ PerWL \in Nat /\ PerWL > 0
            /\ Slots = 0 .. WLs * PerWL - 1
        BY <1>2, SlotFacts
      <3>2. (WLs - 1) * PerWL = WLs * PerWL - PerWL /\ WLs * PerWL \in Nat
        BY <3>1
      <3>3. f.NextFreeWL[s] <= WLs * PerWL - PerWL
        BY <1>14, <3>1, <3>2
      <3> QED
        BY <3>1, <3>2, <3>3
    <2>3. RepairFault(flash, g, NoJob)
      BY <1>1, <1>2, <1>3, <1>4, <1>6, <1>7, <1>10, <1>14, <2>0, <2>1, <2>2 DEF RepairFault
    <2>4. StartFault(flash, g, NoJob)
      BY <1>5, <1>7, <1>10, <1>14, <2>0 DEF StartFault
    <2> HIDE DEF S
    <2> QED
      BY <1>2, <1>3, <1>9, <1>10, <1>11, <1>14, <2>0, <2>3, <2>4 DEF g
  <1> QED
    BY <1>3, <1>8, <1>12, <1>13, <1>14

\* The fields the end of a job of the preparation changes.
LEMMA PrepResultChanges ==
  ASSUME NEW f, FaultTypes(f), f.InitGCState = "PREPARE", f.IntrJob # "IDLE", f.PrepStep \in 1 .. 6
  PROVE  LET g == InitGCResult(f)
             k == f.PrepStep
             d == f.PrepDest
             passed == f.IntrJob = "PASS"
         IN /\ g.IntrJob = "IDLE"
            /\ \/ /\ passed /\ k \in {1, 3, 5}
                  /\ Same(f, g, {"IntrJob", "PrepStep"}) /\ g.PrepStep = k + 1
               \/ /\ passed /\ k = 2
                  /\ Same(f, g, {"IntrJob", "PrepStep", "IntrJobFailCount", "PrepDest"})
                  /\ g.PrepStep = k + 1 /\ g.IntrJobFailCount = 0 /\ g.PrepDest = NextWL(d)
               \/ /\ passed /\ k \in {4, 6}
                  /\ Same(f, g, {"IntrJob", "PrepStep", "IntrJobFailCount", "PrepDest",
                                 "StatePageAddr", "NextFreeWL", "InitGCState"})
                  /\ g.PrepStep = k + 1 /\ g.IntrJobFailCount = 0 /\ g.PrepDest = 0
                  /\ g.StatePageAddr = [f.StatePageAddr EXCEPT ![PrepSector[k]] = d]
                  /\ g.NextFreeWL = [f.NextFreeWL EXCEPT ![PrepSector[k]] = NextWL(d)]
                  /\ g.InitGCState = (IF k = 6 THEN "COMPLETE" ELSE "PREPARE")
               \/ /\ ~passed /\ f.IntrJobFailCount = 0
                  /\ Same(f, g, {"IntrJob", "PrepStep", "IntrJobFailCount", "PrepDest"})
                  /\ g.PrepStep = (IF k \in {1, 3, 5} THEN k ELSE k - 1)
                  /\ g.IntrJobFailCount = 1 /\ g.PrepDest = NextWL(NextWL(d))
               \/ Same(f, g, {"IntrJob", "InitGCState"}) /\ g.InitGCState = "FAIL"
  <1> DEFINE g == InitGCResult(f)
             h == [f EXCEPT !.IntrJob = "IDLE"]
             k == f.PrepStep
             d == f.PrepDest
             passed == f.IntrJob = "PASS"
  <1>1. DOMAIN f = Fields
    BY FieldFacts
  <1>2. h.IntrJob = "IDLE" /\ DOMAIN h = Fields /\ \A x \in Fields \ {"IntrJob"} : h[x] = f[x]
    BY <1>1 DEF Fields
  <1>3. g = PrepResult(h, passed)
    BY DEF InitGCResult
  <1> HIDE DEF h, g
  <1>4. h.PrepStep = k /\ h.PrepDest = d /\ h.StatePageAddr = f.StatePageAddr
        /\ h.InitGCState = "PREPARE" /\ h.IntrJobFailCount = f.IntrJobFailCount
        /\ h.NextFreeWL = f.NextFreeWL
    BY <1>2 DEF Fields
  <1>5. (k % 2 = 1 <=> k \in {1, 3, 5}) /\ k \in {1, 2, 3, 4, 5, 6}
    BY PrepSteps
  <1> HIDE DEF k, d, passed
  <1>6. g = CASE passed /\ k \in {1, 3, 5} -> [h EXCEPT !.PrepStep = k + 1]
              [] passed /\ ~(k \in {1, 3, 5}) ->
                   [h EXCEPT !.PrepStep = k + 1, !.IntrJobFailCount = 0,
                      !.PrepDest = IF k = 2 THEN NextWL(d) ELSE 0,
                      !.StatePageAddr = IF k = 2 THEN @
                                        ELSE [@ EXCEPT ![PrepSector[k]] = d],
                      !.NextFreeWL = IF k = 2 THEN @
                                     ELSE [@ EXCEPT ![PrepSector[k]] = NextWL(d)],
                      !.InitGCState = IF k = 6 THEN "COMPLETE" ELSE @]
              [] ~passed /\ f.IntrJobFailCount = 0 ->
                   [h EXCEPT !.IntrJobFailCount = 1, !.PrepDest = NextWL(NextWL(d)),
                             !.PrepStep = IF k \in {1, 3, 5} THEN k ELSE k - 1]
              [] OTHER -> InitGCFail(h)
    BY <1>3, <1>4, <1>5 DEF PrepResult
  <1>7. CASE passed /\ k \in {1, 3, 5}
    <2>1. g = [h EXCEPT !.PrepStep = k + 1]
      BY <1>6, <1>7
    <2> QED
      BY <1>2, <1>7, <2>1 DEF Same, Fields, g, k, d, passed
  <1>8. CASE passed /\ k = 2
    <2>1. g = [h EXCEPT !.PrepStep = k + 1, !.IntrJobFailCount = 0, !.PrepDest = NextWL(d),
                 !.StatePageAddr = h.StatePageAddr, !.NextFreeWL = h.NextFreeWL,
                 !.InitGCState = h.InitGCState]
      BY <1>6, <1>8
    <2>2. /\ DOMAIN g = Fields /\ g.PrepStep = k + 1 /\ g.IntrJobFailCount = 0
          /\ g.PrepDest = NextWL(d)
          /\ \A x \in Fields \ {"PrepStep", "IntrJobFailCount", "PrepDest"} : g[x] = h[x]
      BY <1>2, <2>1 DEF Fields
    <2>3. g.IntrJob = "IDLE" /\ k \notin {1, 3, 5} /\ k \notin {4, 6}
          /\ Same(f, g, {"IntrJob", "PrepStep", "IntrJobFailCount", "PrepDest"})
      BY <1>2, <1>8, <2>2 DEF Same, Fields
    <2> QED
      BY <1>8, <2>2, <2>3 DEF g, k, d, passed
  <1>9. CASE passed /\ k \in {4, 6}
    <2>0. passed /\ k # 2 /\ ~(k \in {1, 3, 5})
      BY <1>9
    <2>4. g = [h EXCEPT !.PrepStep = k + 1, !.IntrJobFailCount = 0,
                 !.PrepDest = IF k = 2 THEN NextWL(d) ELSE 0,
                 !.StatePageAddr = IF k = 2 THEN @ ELSE [@ EXCEPT ![PrepSector[k]] = d],
                 !.NextFreeWL = IF k = 2 THEN @ ELSE [@ EXCEPT ![PrepSector[k]] = NextWL(d)],
                 !.InitGCState = IF k = 6 THEN "COMPLETE" ELSE @]
      BY <1>6, <2>0
    <2>1. g = [h EXCEPT !.PrepStep = k + 1, !.IntrJobFailCount = 0, !.PrepDest = 0,
                 !.StatePageAddr = [h.StatePageAddr EXCEPT ![PrepSector[k]] = d],
                 !.NextFreeWL = [h.NextFreeWL EXCEPT ![PrepSector[k]] = NextWL(d)],
                 !.InitGCState = IF k = 6 THEN "COMPLETE" ELSE h.InitGCState]
      BY <2>0, <2>4
    <2>2. /\ DOMAIN g = Fields /\ g.PrepStep = k + 1 /\ g.IntrJobFailCount = 0
          /\ g.PrepDest = 0
          /\ g.StatePageAddr = [f.StatePageAddr EXCEPT ![PrepSector[k]] = d]
          /\ g.NextFreeWL = [f.NextFreeWL EXCEPT ![PrepSector[k]] = NextWL(d)]
          /\ g.InitGCState = (IF k = 6 THEN "COMPLETE" ELSE "PREPARE")
          /\ \A x \in Fields \ {"PrepStep", "IntrJobFailCount", "PrepDest", "StatePageAddr",
                                "NextFreeWL", "InitGCState"} : g[x] = h[x]
      BY <1>2, <1>4, <2>1 DEF Fields
    <2>3. /\ g.IntrJob = "IDLE"
          /\ Same(f, g, {"IntrJob", "PrepStep", "IntrJobFailCount", "PrepDest",
                         "StatePageAddr", "NextFreeWL", "InitGCState"})
      BY <1>2, <2>2 DEF Same, Fields
    <2> QED
      BY <1>9, <2>2, <2>3 DEF g, k, d, passed
  <1>10. CASE ~passed /\ f.IntrJobFailCount = 0
    <2>1. g = [h EXCEPT !.IntrJobFailCount = 1, !.PrepDest = NextWL(NextWL(d)),
                        !.PrepStep = IF k \in {1, 3, 5} THEN k ELSE k - 1]
      BY <1>6, <1>10
    <2> QED
      BY <1>2, <1>10, <2>1 DEF Same, Fields, g, k, d, passed
  <1>11. CASE ~passed /\ f.IntrJobFailCount # 0
    <2>1. g = [h EXCEPT !.InitGCState = "FAIL"]
      BY <1>6, <1>11 DEF InitGCFail
    <2> QED
      BY <1>2, <2>1 DEF Same, Fields, g
  <1> QED
    BY <1>5, <1>7, <1>8, <1>9, <1>10, <1>11

\* The end of a job of the preparation is handled.
LEMMA FaultPrepResult ==
  ASSUME NEW f, FaultInv(flash, f, NoJob), f.MainJob = "INITGC", f.InitGCState = "PREPARE",
         f.IntrJob # "IDLE"
  PROVE  LET g == InitGCResult(f)
         IN FaultInv(flash, g, NoJob) /\ g.MainJob = "INITGC" /\ g.IntrJob = "IDLE"
  <1> DEFINE g == InitGCResult(f)
             k == f.PrepStep
             d == f.PrepDest
             s == PrepSector[k]
             passed == f.IntrJob = "PASS"
  <1>1. /\ InOrder(flash) /\ FaultTypes(f) /\ ~f.CacheUpdated /\ f.GcState = "IDLE"
        /\ PrepFault(flash, f, NoJob) /\ StartFault(flash, f, NoJob) /\ DOMAIN f = Fields
        /\ ~IntrRuns(NoJob)
    BY InitFacts
  <1>2. /\ Cur(f) = 0 /\ k \in 1 .. 6 /\ f.GcDest = 0 /\ IsWLBeginning(d)
        /\ d + (IF f.IntrJobFailCount = 0 THEN 2 * PerWL ELSE 0) <= PrepEnd(k)
        /\ k <= 4 => BlankFrom(flash[1], 0)
        /\ k >= 5 => Unread(flash[0], f.NextFreeWL[0])
        /\ ~Quiet(f, NoJob) /\ f.StateCount > 0
    BY <1>1 DEF PrepFault, StartFault, Quiet
  <1>3. /\ k \in {1, 2, 3, 4, 5, 6} /\ s \in Sectors /\ d \in Nat /\ PerWL \in Nat /\ PerWL > 0
        /\ (k % 2 = 1 <=> k \in {1, 3, 5})
        /\ k \in {1, 2, 3, 4} => s = 0
        /\ k \in {5, 6} => s = 1
        /\ f.IntrJob \in {"PASS", "FAIL"}
        /\ f.IntrJobFailCount \in {0, 1} /\ f.NextFreeWL \in [Sectors -> Nat]
        /\ f.StatePageAddr \in [Sectors -> Nat] /\ Sectors = {0, 1} /\ Oth(f) = 1
    <2>1. k \in {1, 2, 3, 4, 5, 6} /\ (k % 2 = 1 <=> k \in {1, 3, 5})
          /\ (k \in {1, 2, 3, 4} => s = 0) /\ (k \in {5, 6} => s = 1)
      BY <1>2, PrepSteps
    <2>2. /\ d \in Nat /\ f.IntrJob \in {"PASS", "FAIL"} /\ f.IntrJobFailCount \in {0, 1}
          /\ f.NextFreeWL \in [Sectors -> Nat] /\ f.StatePageAddr \in [Sectors -> Nat]
      BY <1>1, FieldFacts
    <2>3. Sectors = {0, 1} /\ Oth(f) = 1
      BY <1>2, SlotFacts DEF Oth, Cur, Other
    <2> HIDE DEF k, d, s
    <2> QED
      BY <2>1, <2>2, <2>3, WordlineSize
  <1>4. /\ k \in {1, 3, 5} => PageEnded(flash, f.IntrJob, s, d)
        /\ k \in {2, 4, 6} => MarkerEnded(flash, f.IntrJob, s, d)
    <2>1. ~PageRuns(flash, NoJob, s, d) /\ ~MarkerRuns(flash, NoJob, s, d)
      BY DEF PageRuns, MarkerRuns, Marks, IsJob
    <2>2. CASE k \in {1, 3, 5}
      BY <1>1, <1>2, <1>3, <2>1, <2>2 DEF PrepFault
    <2>3. CASE k \in {2, 4, 6}
      BY <1>1, <1>2, <1>3, <2>1, <2>3 DEF PrepFault
    <2> QED
      BY <2>2, <2>3
  <1>5. BlankFrom(flash[s], d + 1) /\ d \in Slots
    BY <1>3, <1>4 DEF PageEnded, MarkerEnded
  <1>6. /\ OpenWL(flash[s], NextWL(d)) /\ OpenWL(flash[s], NextWL(NextWL(d)))
        /\ NextWL(d) = d + PerWL /\ NextWL(NextWL(d)) = d + PerWL + PerWL
    BY <1>2, <1>3, <1>5, OpenAfter
  <1>7. /\ g.IntrJob = "IDLE"
        /\ \/ /\ passed /\ k \in {1, 3, 5}
              /\ Same(f, g, {"IntrJob", "PrepStep"}) /\ g.PrepStep = k + 1
           \/ /\ passed /\ k = 2
              /\ Same(f, g, {"IntrJob", "PrepStep", "IntrJobFailCount", "PrepDest"})
              /\ g.PrepStep = k + 1 /\ g.IntrJobFailCount = 0 /\ g.PrepDest = NextWL(d)
           \/ /\ passed /\ k \in {4, 6}
              /\ Same(f, g, {"IntrJob", "PrepStep", "IntrJobFailCount", "PrepDest",
                             "StatePageAddr", "NextFreeWL", "InitGCState"})
              /\ g.PrepStep = k + 1 /\ g.IntrJobFailCount = 0 /\ g.PrepDest = 0
              /\ g.StatePageAddr = [f.StatePageAddr EXCEPT ![s] = d]
              /\ g.NextFreeWL = [f.NextFreeWL EXCEPT ![s] = NextWL(d)]
              /\ g.InitGCState = (IF k = 6 THEN "COMPLETE" ELSE "PREPARE")
           \/ /\ ~passed /\ f.IntrJobFailCount = 0
              /\ Same(f, g, {"IntrJob", "PrepStep", "IntrJobFailCount", "PrepDest"})
              /\ g.PrepStep = (IF k \in {1, 3, 5} THEN k ELSE k - 1)
              /\ g.IntrJobFailCount = 1 /\ g.PrepDest = NextWL(NextWL(d))
           \/ Same(f, g, {"IntrJob", "InitGCState"}) /\ g.InitGCState = "FAIL"
    BY <1>1, <1>2, PrepResultChanges
  <1> HIDE DEF g, k, d, s, passed
  <1>8. Quiet(g, NoJob)
    BY <1>1, <1>7 DEF Quiet
  <1>9. CASE g.InitGCState = "FAIL" /\ Same(f, g, {"IntrJob", "InitGCState"})
    <2>1. FaultInv(flash, g, NoJob)
      BY <1>7, <1>9, FaultGivenUp
    <2> QED
      BY <1>7, <1>9, <2>1 DEF Same, Fields, g
  <1> DEFINE S == {"IntrJob", "PrepStep", "IntrJobFailCount", "PrepDest", "StatePageAddr",
                   "NextFreeWL", "InitGCState"}
  <1>10. /\ g.PrepStep \in Nat /\ g.IntrJobFailCount \in {0, 1} /\ g.PrepDest \in Nat
         /\ g.StatePageAddr \in [Sectors -> Nat] /\ g.NextFreeWL \in [Sectors -> Nat]
         /\ g.InitGCState \in {"PREPARE", "COMPLETE"} /\ Same(f, g, S)
         => FaultTypes(g)
    <2> SUFFICES ASSUME g.PrepStep \in Nat, g.IntrJobFailCount \in {0, 1}, g.PrepDest \in Nat,
                        g.StatePageAddr \in [Sectors -> Nat], g.NextFreeWL \in [Sectors -> Nat],
                        g.InitGCState \in {"PREPARE", "COMPLETE"}, Same(f, g, S)
                 PROVE  FaultTypes(g)
      OBVIOUS
    <2>1. \A x \in Fields \ S : g[x] = f[x]
      BY DEF Same
    <2>2. \A x \in S : x \in DOMAIN FieldTypes => g[x] \in FieldTypes[x]
      BY <1>7 DEF FieldTypes
    <2>3. DOMAIN g = Fields
      BY DEF Same
    <2> HIDE DEF S
    <2> QED
      BY <1>1, <2>1, <2>2, <2>3, TypesKept
  <1>11. Same(f, g, S) =>
           /\ Cur(g) = 0 /\ Oth(g) = 1 /\ g.MainJob = "INITGC" /\ ~g.CacheUpdated
           /\ g.GcState = "IDLE" /\ g.Req = f.Req /\ g.UserJob = f.UserJob
           /\ g.GcDest = 0 /\ g.StateCount = f.StateCount
    BY <1>1, <1>2, <1>3 DEF Same, Fields, Cur, Oth
  <1>12. /\ FaultTypes(g) /\ Same(f, g, S) /\ g.InitGCState = "PREPARE"
         /\ PrepFault(flash, g, NoJob)
         => FaultInv(flash, g, NoJob)
    <2> SUFFICES ASSUME FaultTypes(g), Same(f, g, S), g.InitGCState = "PREPARE",
                        PrepFault(flash, g, NoJob)
                 PROVE  FaultInv(flash, g, NoJob)
      OBVIOUS
    <2>1. RepairFault(flash, g, NoJob) /\ GcFault(flash, g, NoJob) /\ StartFault(flash, g, NoJob)
      BY <1>2, <1>11 DEF RepairFault, GcFault, StartFault
    <2> QED
      BY <1>1, <1>8, <1>11, <2>1, FaultStartUp
  <1>13. CASE /\ passed /\ k \in {1, 3, 5}
              /\ Same(f, g, {"IntrJob", "PrepStep"}) /\ g.PrepStep = k + 1
    <2>1. Same(f, g, S) /\ g.InitGCState = "PREPARE" /\ g.PrepDest = d
          /\ g.IntrJobFailCount = f.IntrJobFailCount /\ g.NextFreeWL = f.NextFreeWL
          /\ g.StatePageAddr = f.StatePageAddr
      BY <1>13 DEF Same, Fields, d
    <2>2. g.PrepStep \in {2, 4, 6} /\ PrepSector[g.PrepStep] = s /\ PrepEnd(g.PrepStep) = PrepEnd(k)
          /\ g.PrepStep \in 1 .. 6 /\ g.PrepStep % 2 # 1 /\ g.PrepStep \in Nat
          /\ (g.PrepStep <= 4 => k <= 4) /\ (g.PrepStep >= 5 => k >= 5)
      BY <1>13, PrepSteps DEF PrepEnd, s
    <2>3. IsPage(flash[s][d], "none")
      BY <1>3, <1>4, <1>13 DEF PageEnded, passed
    <2>4. PrepFault(flash, g, NoJob)
      BY <1>2, <1>5, <1>8, <1>11, <1>13, <2>1, <2>2, <2>3 DEF PrepFault, d
    <2> HIDE DEF S
    <2> QED
      BY <1>3, <1>7, <1>10, <1>11, <1>12, <2>1, <2>2, <2>4 DEF g
  <1>14. CASE /\ passed /\ k = 2
              /\ Same(f, g, {"IntrJob", "PrepStep", "IntrJobFailCount", "PrepDest"})
              /\ g.PrepStep = k + 1 /\ g.IntrJobFailCount = 0 /\ g.PrepDest = NextWL(d)
    <2>1. Same(f, g, S) /\ g.InitGCState = "PREPARE" /\ g.NextFreeWL = f.NextFreeWL
          /\ g.StatePageAddr = f.StatePageAddr /\ g.PrepStep = 3 /\ s = 0
      BY <1>3, <1>14 DEF Same, Fields
    <2>2. PrepSector[3] = 0 /\ PrepEnd(k) = 2 * PerWL /\ PrepEnd(3) = 5 * PerWL
          /\ 3 \in 1 .. 6 /\ 3 % 2 = 1 /\ 3 \in Nat
      BY <1>14, PrepSteps DEF PrepEnd
    <2>3. NextWL(d) + 2 * PerWL <= 5 * PerWL /\ NextWL(d) \in Nat
      BY <1>2, <1>3, <1>6, <2>2
    <2>4. IsWLBeginning(NextWL(d))
      BY <1>6 DEF OpenWL
    <2>5. PrepFault(flash, g, NoJob)
      BY <1>2, <1>6, <1>8, <1>11, <1>14, <2>1, <2>2, <2>3, <2>4 DEF PrepFault
    <2> HIDE DEF S
    <2> QED
      BY <1>3, <1>7, <1>10, <1>11, <1>12, <1>14, <2>1, <2>3, <2>5 DEF g
  <1>15. CASE /\ passed /\ k \in {4, 6}
              /\ Same(f, g, {"IntrJob", "PrepStep", "IntrJobFailCount", "PrepDest",
                             "StatePageAddr", "NextFreeWL", "InitGCState"})
              /\ g.PrepStep = k + 1 /\ g.IntrJobFailCount = 0 /\ g.PrepDest = 0
              /\ g.StatePageAddr = [f.StatePageAddr EXCEPT ![s] = d]
              /\ g.NextFreeWL = [f.NextFreeWL EXCEPT ![s] = NextWL(d)]
              /\ g.InitGCState = (IF k = 6 THEN "COMPLETE" ELSE "PREPARE")
    <2>1. Same(f, g, S) /\ NextWL(d) \in Nat
      BY <1>3, <1>6, <1>15
    <2>2. g.NextFreeWL \in [Sectors -> Nat] /\ g.StatePageAddr \in [Sectors -> Nat]
          /\ g.NextFreeWL[s] = NextWL(d)
          /\ \A t \in Sectors : t # s => g.NextFreeWL[t] = f.NextFreeWL[t]
      BY <1>3, <1>15, <2>1
    <2>3. CASE k = 4
      <3>1. g.PrepStep = 5 /\ s = 0 /\ g.InitGCState = "PREPARE"
        BY <1>3, <1>15, <2>3
      <3>2. flash[0][d].kind = "state"
        BY <1>3, <1>4, <2>3, <3>1 DEF MarkerEnded
      <3>3. Unread(flash[0], g.NextFreeWL[0])
        <4>1. flash[0][d] # Blank /\ NextWL(d) - PerWL = d /\ NextWL(d) >= PerWL
          BY <1>3, <1>6, <3>2 DEF Blank
        <4> QED
          BY <1>5, <1>6, <2>2, <3>1, <4>1 DEF Unread
      <3>4. OpenWL(flash[1], 0) /\ IsWLBeginning(0)
        BY <1>2, <2>3, WordlineSlots DEF OpenWL
      <3>5. PrepSector[5] = 1 /\ PrepEnd(5) = 2 * PerWL /\ 5 \in 1 .. 6 /\ 5 % 2 = 1 /\ 5 \in Nat
            /\ 0 + 2 * PerWL <= 2 * PerWL
        BY <1>3, PrepSteps DEF PrepEnd
      <3>6. PrepFault(flash, g, NoJob)
        BY <1>8, <1>11, <1>15, <2>1, <3>1, <3>3, <3>4, <3>5 DEF PrepFault
      <3> HIDE DEF S
      <3> QED
        BY <1>7, <1>10, <1>11, <1>12, <1>15, <2>1, <2>2, <3>1, <3>5, <3>6 DEF g
    <2>4. CASE k = 6
      <3>1. s = 1 /\ g.InitGCState = "COMPLETE" /\ g.PrepStep \in Nat
        BY <1>3, <1>15, <2>4
      <3>2. Unread(flash[0], g.NextFreeWL[0])
        BY <1>2, <1>3, <2>2, <2>4, <3>1
      <3>3. OpenWL(flash[1], g.NextFreeWL[1])
        BY <1>6, <2>2, <3>1
      <3>4. PrepFault(flash, g, NoJob) /\ RepairFault(flash, g, NoJob)
        BY <3>1 DEF PrepFault, RepairFault
      <3>5. StartFault(flash, g, NoJob)
        BY <1>2, <1>11, <2>1, <3>1, <3>2 DEF StartFault
      <3>6. GcFault(flash, g, NoJob)
        BY <1>8, <1>11, <2>1, <3>3 DEF GcFault, Busy
      <3>7. FaultTypes(g)
        BY <1>10, <1>15, <2>1, <2>2, <3>1
      <3> HIDE DEF S
      <3> QED
        BY <1>1, <1>7, <1>8, <1>11, <2>1, <3>1, <3>4, <3>5, <3>6, <3>7, FaultStartUp DEF g
    <2> QED
      BY <1>15, <2>3, <2>4
  <1>16. CASE /\ ~passed /\ f.IntrJobFailCount = 0
              /\ Same(f, g, {"IntrJob", "PrepStep", "IntrJobFailCount", "PrepDest"})
              /\ g.PrepStep = (IF k \in {1, 3, 5} THEN k ELSE k - 1)
              /\ g.IntrJobFailCount = 1 /\ g.PrepDest = NextWL(NextWL(d))
    <2>1. Same(f, g, S) /\ g.InitGCState = "PREPARE" /\ g.NextFreeWL = f.NextFreeWL
          /\ g.StatePageAddr = f.StatePageAddr
      BY <1>16 DEF Same, Fields
    <2>2. g.PrepStep \in {1, 3, 5} /\ PrepSector[g.PrepStep] = s /\ PrepEnd(g.PrepStep) = PrepEnd(k)
          /\ g.PrepStep \in 1 .. 6 /\ g.PrepStep % 2 = 1 /\ g.PrepStep \in Nat
          /\ (g.PrepStep <= 4 => k <= 4) /\ (g.PrepStep >= 5 => k >= 5)
      <3>1. CASE k \in {1, 3, 5}
        BY <1>16, <3>1, PrepSteps DEF s
      <3>2. CASE k \in {2, 4, 6}
        BY <1>16, <3>2, PrepSteps DEF PrepEnd, s
      <3> QED
        BY <1>3, <3>1, <3>2
    <2>3. NextWL(NextWL(d)) \in Nat /\ NextWL(NextWL(d)) + 0 <= PrepEnd(k)
          /\ IsWLBeginning(NextWL(NextWL(d)))
      <3>1. PrepEnd(k) \in Nat
        BY <1>3 DEF PrepEnd
      <3> QED
        BY <1>2, <1>3, <1>6, <1>16, <3>1 DEF OpenWL
    <2>4. PrepFault(flash, g, NoJob)
      BY <1>2, <1>6, <1>8, <1>11, <1>16, <2>1, <2>2, <2>3 DEF PrepFault
    <2> HIDE DEF S
    <2> QED
      BY <1>3, <1>7, <1>10, <1>11, <1>12, <1>16, <2>1, <2>2, <2>3, <2>4 DEF g
  <1> QED
    BY <1>7, <1>9, <1>13, <1>14, <1>15, <1>16

\* Fee_lInitGCTransHandler keeps the invariant.
LEMMA FaultInitResult ==
  ASSUME NEW f, FaultInv(flash, f, NoJob), f.MainJob = "INITGC"
  PROVE  LET g == InitGCResult(f)
         IN FaultInv(flash, g, NoJob) /\ g.MainJob = "INITGC" /\ g.IntrJob = "IDLE"
  <1>1. f.InitGCState \notin {"DIRTY", "PREPARE"} => f.IntrJob = "IDLE"
    BY InitFacts
  <1>2. CASE f.IntrJob = "IDLE"
    BY <1>2 DEF InitGCResult
  <1>3. CASE f.IntrJob # "IDLE" /\ f.InitGCState = "DIRTY"
    BY <1>3, FaultRepairResult
  <1>4. CASE f.IntrJob # "IDLE" /\ f.InitGCState = "PREPARE"
    BY <1>4, FaultPrepResult
  <1> QED
    BY <1>1, <1>2, <1>3, <1>4

\* A job of the initialisation is started.
LEMMA FaultInitJob ==
  ASSUME NEW f, FaultInv(flash, f, NoJob), f.MainJob = "INITGC", f.IntrJob = "IDLE",
         NEW g, FaultTypes(g), NEW j, IntrRuns(j),
         NEW X, Same(f, g, X), X \subseteq {"StateCount", "StatePageAddr", "NextFreeWL", "InitGCState"},
         g.InitGCState \in {"PREPARE", "DIRTY"}, f.InitGCState # "COMPLETE",
         PrepFault(flash, g, j), RepairFault(flash, g, j), StartFault(flash, g, j)
  PROVE  FaultInv(flash, g, j)
  <1>1. ~f.CacheUpdated /\ f.GcState = "IDLE"
    BY InitFacts
  <1>2. \A x \in Fields \ {"StateCount", "StatePageAddr", "NextFreeWL", "InitGCState"} : g[x] = f[x]
    BY DEF Same
  <1>3. /\ g.MainJob = "INITGC" /\ ~g.CacheUpdated /\ g.Req = f.Req /\ g.UserJob = f.UserJob
        /\ g.IntrJob = "IDLE" /\ g.GcState = "IDLE"
    BY <1>1, <1>2 DEF Fields
  <1>4. GcFault(flash, g, j)
    BY DEF GcFault
  <1> QED
    BY <1>3, <1>4, FaultStartUp

\* A new state page is one.
LEMMA NewPage ==
  ASSUME NEW f, FaultTypes(f), f.StateCount > 0 \/ f.IntrJobFailCount = 0, NEW st \in {"VALID", "ERASED"}
  PROVE  /\ IsPage(StatePage(st, NextCount(f), "none"), "none")
         /\ NextCount(f) \in Nat /\ NextCount(f) > 0
  <1>1. f.StateCount \in Nat /\ f.IntrJobFailCount \in {0, 1}
    BY FieldFacts
  <1>2. NextCount(f) \in Nat \ {0}
    BY <1>1 DEF NextCount
  <1> QED
    BY <1>2 DEF IsPage, Pages, StatePage

\* Fee_lIPrepDFlashSM keeps the invariant: the last attempt still has a
\* wordline to go to.
LEMMA FaultPrepJob ==
  ASSUME WLs >= 6, NEW f, FaultInv(flash, f, NoJob), f.MainJob = "INITGC", f.IntrJob = "IDLE",
         f.InitGCState \in {"EMPTY", "PREPARE"},
         NEW h, Same(f, h, {"InitGCState"}), h.InitGCState = "PREPARE", PrepJob(h)
  PROVE  FaultInv(flash, fee', job')
  <1> DEFINE k == f.PrepStep
             d == f.PrepDest
             s == PrepSector[k]
  <1>1. /\ InOrder(flash) /\ FaultTypes(f) /\ ~f.CacheUpdated /\ f.GcState = "IDLE"
        /\ PrepFault(flash, f, NoJob) /\ StartFault(flash, f, NoJob) /\ DOMAIN f = Fields
        /\ ~IntrRuns(NoJob)
    BY InitFacts
  <1>2. /\ Cur(f) = 0 /\ k \in 1 .. 6 /\ f.GcDest = 0 /\ IsWLBeginning(d)
        /\ d + (IF f.IntrJobFailCount = 0 THEN 2 * PerWL ELSE 0) <= PrepEnd(k)
        /\ k <= 4 => BlankFrom(flash[1], 0)
        /\ k >= 5 => Unread(flash[0], f.NextFreeWL[0])
        /\ f.InitGCState = "EMPTY" => k = 1 /\ f.IntrJobFailCount = 0
        /\ f.InitGCState = "PREPARE" => f.StateCount > 0
    BY <1>1 DEF PrepFault, StartFault
  <1>3. /\ k \in {1, 2, 3, 4, 5, 6} /\ (k % 2 = 1 <=> k \in {1, 3, 5})
        /\ s \in Sectors /\ PrepState[k] \in {"VALID", "ERASED"}
        /\ d \in Nat /\ f.StateCount \in Nat /\ f.IntrJobFailCount \in {0, 1}
    <2>1. d \in Nat /\ f.StateCount \in Nat /\ f.IntrJobFailCount \in {0, 1}
      BY <1>1, FieldFacts
    <2>2. s \in Sectors /\ PrepState[k] \in {"VALID", "ERASED"}
      BY <1>2, PrepSteps, SlotFacts
    <2> QED
      BY <1>2, <2>1, <2>2, PrepSteps
  <1>4. d \in Slots
    <2>1. PerWL \in Nat /\ PerWL > 0 /\ WLs \in Nat /\ Slots = 0 .. WLs * PerWL - 1
      BY SlotFacts
    <2>2. d <= 5 * PerWL
      BY <1>2, <1>3, <2>1 DEF PrepEnd
    <2>3. 6 * PerWL <= WLs * PerWL /\ WLs * PerWL \in Nat
      BY <2>1
    <2> QED
      BY <1>3, <2>1, <2>2, <2>3
  <1>5. /\ k \in {1, 3, 5} => OpenWL(flash[s], d)
        /\ k \in {2, 4, 6} => BlankFrom(flash[s], d + 1) /\ IsPage(flash[s][d], "none")
    <2>1. /\ ~PageRuns(flash, NoJob, s, d) /\ ~MarkerRuns(flash, NoJob, s, d)
          /\ ~PageEnded(flash, f.IntrJob, s, d) /\ ~MarkerEnded(flash, f.IntrJob, s, d)
      BY DEF PageRuns, MarkerRuns, Marks, IsJob, PageEnded, MarkerEnded
    <2>2. CASE k \in {1, 3, 5}
      BY <1>1, <1>2, <1>3, <2>1, <2>2 DEF PrepFault
    <2>3. CASE k \in {2, 4, 6}
      BY <1>1, <1>2, <1>3, <2>1, <2>3 DEF PrepFault
    <2> QED
      BY <2>2, <2>3
  <1>6. h.InitGCState = "PREPARE" /\ Same(f, h, {"InitGCState"})
    OBVIOUS
  <1> HIDE DEF k, d, s
  <1>7. /\ h.PrepStep = k /\ h.PrepDest = d /\ h.StateCount = f.StateCount
        /\ h.IntrJobFailCount = f.IntrJobFailCount /\ NextCount(h) = NextCount(f) /\ DOMAIN h = Fields
    BY <1>6 DEF Same, Fields, NextCount, k, d
  <1>8. FaultTypes(h)
    <2> DEFINE X == {"InitGCState"}
    <2>1. \A x \in Fields \ X : h[x] = f[x]
      BY <1>6 DEF Same
    <2>2. \A x \in X : x \in DOMAIN FieldTypes => h[x] \in FieldTypes[x]
      BY <1>6 DEF FieldTypes
    <2> HIDE DEF X
    <2> QED
      BY <1>1, <1>7, <2>1, <2>2, TypesKept
  <1>9. CASE k \in {1, 3, 5}
    <2> DEFINE g == [h EXCEPT !.StateCount = NextCount(h)]
               c == StatePage(PrepState[k], NextCount(h), "none")
               j == ProgramCell(s, d, c, "intr")
    <2>1. fee' = g /\ job' = j
      <3>1. h.PrepStep % 2 = 1 /\ PrepSector[h.PrepStep] = s
        BY <1>3, <1>7, <1>9 DEF s
      <3>2. PrepJob(h)
        OBVIOUS
      <3> QED
        BY <1>7, <3>1, <3>2 DEF PrepJob, Start
    <2>2. IsPage(c, "none") /\ NextCount(f) \in Nat /\ NextCount(f) > 0
      BY <1>1, <1>2, <1>3, <1>7, NewPage
    <2>3. g.StateCount = NextCount(f) /\ g.InitGCState = "PREPARE"
          /\ Same(f, g, {"StateCount", "InitGCState"})
      BY <1>6, <1>7 DEF Same, Fields
    <2> HIDE DEF g, c
    <2>4. /\ j.op = "program" /\ j.owner = "intr" /\ j.sector = s /\ j.addr = d /\ j.cell = c
      BY DEF ProgramCell
    <2>5. j # NoJob
      <3>1. j \in Jobs
        BY <1>3, <1>4, <2>2 DEF Jobs, ProgramCell, IsPage, Cells
      <3> QED
        BY <3>1, FeeNulls
    <2> HIDE DEF j
    <2>6. IntrRuns(j) /\ PageRuns(flash, j, s, d)
      BY <1>4, <1>5, <1>9, <2>2, <2>4, <2>5 DEF IntrRuns, PageRuns, IsJob
    <2>7. FaultTypes(g)
      <3> DEFINE X == {"StateCount", "InitGCState"}
      <3>1. \A x \in Fields \ X : g[x] = f[x]
        BY <2>3 DEF Same
      <3>2. \A x \in X : x \in DOMAIN FieldTypes => g[x] \in FieldTypes[x]
        BY <2>2, <2>3 DEF FieldTypes
      <3>3. DOMAIN g = Fields
        BY <2>3 DEF Same
      <3> HIDE DEF X
      <3> QED
        BY <1>1, <3>1, <3>2, <3>3, TypesKept
    <2>8. /\ g.PrepStep = k /\ g.PrepDest = d /\ g.IntrJob = "IDLE" /\ Cur(g) = 0 /\ g.GcDest = 0
          /\ g.IntrJobFailCount = f.IntrJobFailCount /\ g.NextFreeWL = f.NextFreeWL
      BY <1>2, <2>3 DEF Same, Fields, Cur, k, d
    <2>9. PrepFault(flash, g, j)
      BY <1>2, <1>3, <1>9, <2>3, <2>6, <2>8 DEF PrepFault, s
    <2>10. RepairFault(flash, g, j) /\ StartFault(flash, g, j)
      BY <2>2, <2>3 DEF RepairFault, StartFault
    <2>11. FaultInv(flash, g, j)
      BY <2>3, <2>6, <2>7, <2>9, <2>10, FaultInitJob
    <2> QED
      BY <2>1, <2>11
  <1>10. CASE k \in {2, 4, 6}
    <2> DEFINE j == ProgramMarker(s, d)
    <2>1. fee' = h /\ job' = j
      <3>1. ~(h.PrepStep % 2 = 1) /\ PrepSector[h.PrepStep] = s
        BY <1>3, <1>7, <1>10 DEF s
      <3>2. PrepJob(h)
        OBVIOUS
      <3> QED
        BY <1>7, <3>1, <3>2 DEF PrepJob, Start
    <2>2. flash[s][d] \in Pages /\ [flash[s][d] EXCEPT !.mark = "ok"] \in Cells
      BY <1>5, <1>10 DEF IsPage, Pages, Cells
    <2>4. /\ j.op = "marker" /\ j.owner = "intr" /\ j.sector = s /\ j.addr = d
          /\ j.cell = [flash[s][d] EXCEPT !.mark = "ok"]
      BY DEF ProgramMarker
    <2>5. j # NoJob
      <3>1. j \in Jobs
        BY <1>3, <1>4, <2>2 DEF Jobs, ProgramMarker
      <3> QED
        BY <3>1, FeeNulls
    <2> HIDE DEF j
    <2>6. IntrRuns(j) /\ MarkerRuns(flash, j, s, d)
      BY <1>2, <1>4, <1>5, <1>10, <2>4, <2>5 DEF IntrRuns, MarkerRuns, Marks, IsJob
    <2>8. /\ h.IntrJob = "IDLE" /\ Cur(h) = 0 /\ h.GcDest = 0 /\ h.NextFreeWL = f.NextFreeWL
      BY <1>2, <1>6 DEF Same, Fields, Cur
    <2>9. PrepFault(flash, h, j)
      BY <1>2, <1>3, <1>6, <1>7, <1>10, <2>6, <2>8 DEF PrepFault, s
    <2>10. RepairFault(flash, h, j) /\ StartFault(flash, h, j)
      BY <1>2, <1>6, <1>7, <1>10 DEF RepairFault, StartFault
    <2>11. FaultInv(flash, h, j)
      BY <1>6, <1>8, <2>6, <2>9, <2>10, FaultInitJob
    <2> QED
      BY <2>1, <2>11
  <1> QED
    BY <1>3, <1>9, <1>10

\* Fee_lIDSM keeps the invariant: a page whose marker cannot be repaired is
\* programmed again in the next wordline.
LEMMA FaultRepairJob ==
  ASSUME NEW f, FaultInv(flash, f, NoJob), f.MainJob = "INITGC", f.IntrJob = "IDLE",
         f.InitGCState = "DIRTY", RepairJob(f)
  PROVE  FaultInv(flash, fee', job')
  <1> DEFINE s == DirtySector(f)
             old == f.StatePageAddr[s]
             new == f.NextFreeWL[s]
  <1>1. /\ InOrder(flash) /\ FaultTypes(f) /\ ~f.CacheUpdated /\ f.GcState = "IDLE"
        /\ RepairFault(flash, f, NoJob) /\ StartFault(flash, f, NoJob) /\ DOMAIN f = Fields
        /\ ~IntrRuns(NoJob)
    BY InitFacts
  <1>2. /\ s \in Sectors /\ Cur(f) \in Sectors /\ f.Dirty \in [Sectors -> BOOLEAN]
        /\ f.NextFreeWL \in [Sectors -> Nat] /\ f.StatePageAddr \in [Sectors -> Nat]
        /\ f.RepairStep \in {"MARKER", "PAGE"} /\ \A t \in Sectors : t = Cur(f) \/ t = Other(Cur(f))
    BY <1>1, FieldFacts, SlotFacts
  <1>3. /\ \E t \in Sectors : f.Dirty[t]
        /\ \A t \in Sectors : f.Dirty[t] => f.StatePageAddr[t] \in Slots
        /\ \A t \in Sectors : f.Dirty[t] /\ (t # s \/ f.RepairStep = "MARKER") =>
             flash[t][f.StatePageAddr[t]].kind = "state"
        /\ f.RepairStep = "PAGE" => new \in Slots /\ flash[s][old].kind = "state"
    <2>1. ~PageRuns(flash, NoJob, s, old) /\ ~PageEnded(flash, f.IntrJob, s, old)
      BY DEF PageRuns, IsJob, PageEnded
    <2> QED
      BY <1>1, <2>1 DEF RepairFault
  <1>4. f.Dirty[s]
    BY <1>2, <1>3 DEF DirtySector, Cur
  <1>5. /\ f.StateCount > 0 /\ \A t \in Sectors : OpenWL(flash[t], f.NextFreeWL[t])
        /\ f.GcDest = 0
        /\ \/ Unread(flash[Cur(f)], f.NextFreeWL[Cur(f)])
           \/ f.RepairStep = "PAGE" /\ s = Cur(f)
    BY <1>1 DEF StartFault
  <1>6. old \in Slots /\ flash[s][old].kind = "state" /\ flash[s][old] \in Pages
    <2>1. old \in Slots /\ flash[s][old].kind = "state"
      BY <1>2, <1>3, <1>4
    <2>2. flash[s][old] \in Cells
      BY <1>1, <1>2, <2>1, OrderFacts
    <2> QED
      BY <2>1, <2>2 DEF Cells, Copies, Blank, Torn
  <1> HIDE DEF s, old, new
  <1>7. CASE f.RepairStep = "MARKER"
    <2> DEFINE j == ProgramMarker(s, old)
    <2>1. fee' = f /\ job' = j
      BY <1>7 DEF RepairJob, Start, s, old
    <2>2. [flash[s][old] EXCEPT !.mark = "ok"] \in Cells
      BY <1>6 DEF Pages, Cells
    <2>3. /\ j.op = "marker" /\ j.owner = "intr" /\ j.sector = s /\ j.addr = old
          /\ j.cell = [flash[s][old] EXCEPT !.mark = "ok"]
      BY DEF ProgramMarker
    <2>4. j # NoJob
      <3>1. j \in Jobs
        BY <1>2, <1>6, <2>2 DEF Jobs, ProgramMarker
      <3> QED
        BY <3>1, FeeNulls
    <2> HIDE DEF j
    <2>5. IntrRuns(j) /\ Marks(flash, j, s, old)
      BY <2>3, <2>4 DEF IntrRuns, Marks, IsJob
    <2>6. RepairFault(flash, f, j)
      BY <1>3, <1>7, <2>5 DEF RepairFault, s, old
    <2>7. StartFault(flash, f, j) /\ PrepFault(flash, f, j)
      BY <1>5, <1>7 DEF StartFault, PrepFault, s
    <2>8. Same(f, f, {})
      BY <1>1 DEF Same
    <2>9. FaultInv(flash, f, j)
      BY <1>1, <2>5, <2>6, <2>7, <2>8, FaultInitJob
    <2> QED
      BY <2>1, <2>9
  <1>8. CASE f.RepairStep = "PAGE"
    <2> DEFINE c == [flash[s][old] EXCEPT !.mark = "none"]
               j == ProgramCell(s, new, c, "intr")
               g == [f EXCEPT !.StatePageAddr[s] = new, !.NextFreeWL[s] = NextWL(new)]
    <2>1. fee' = g /\ job' = j
      BY <1>8 DEF RepairJob, Start, s, old, new
    <2>2. IsPage(c, "none") /\ c \in Cells
      BY <1>6 DEF Pages, Cells, IsPage
    <2>3. /\ j.op = "program" /\ j.owner = "intr" /\ j.sector = s /\ j.addr = new /\ j.cell = c
      BY DEF ProgramCell
    <2>0. new \in Slots /\ new \in Nat /\ OpenWL(flash[s], new)
      BY <1>2, <1>3, <1>5, <1>8 DEF new
    <2>4. j # NoJob
      <3>1. j \in Jobs
        BY <1>2, <2>0, <2>2 DEF Jobs, ProgramCell
      <3> QED
        BY <3>1, FeeNulls
    <2>5. NextWL(new) = new + PerWL /\ OpenWL(flash[s], NextWL(new)) /\ NextWL(new) \in Nat
      <3>1. BlankFrom(flash[s], new + 1) /\ IsWLBeginning(new)
        BY <2>0, BlankLater DEF OpenWL
      <3> QED
        BY <2>0, <3>1, OpenAfter
    <2>6. /\ Same(f, g, {"StatePageAddr", "NextFreeWL"})
          /\ g.StatePageAddr = [f.StatePageAddr EXCEPT ![s] = new]
          /\ g.NextFreeWL = [f.NextFreeWL EXCEPT ![s] = NextWL(new)]
      BY <1>1 DEF Same, Fields
    <2>7. /\ g.StatePageAddr \in [Sectors -> Nat] /\ g.NextFreeWL \in [Sectors -> Nat]
          /\ g.StatePageAddr[s] = new /\ g.NextFreeWL[s] = NextWL(new)
          /\ \A t \in Sectors : t # s => /\ g.StatePageAddr[t] = f.StatePageAddr[t]
                                        /\ g.NextFreeWL[t] = f.NextFreeWL[t]
      BY <1>2, <2>0, <2>5, <2>6
    <2> HIDE DEF j, g, c
    <2>8. IntrRuns(j) /\ PageRuns(flash, j, s, new)
      BY <2>0, <2>2, <2>3, <2>4 DEF IntrRuns, PageRuns, IsJob
    <2>9. FaultTypes(g)
      <3> DEFINE X == {"StatePageAddr", "NextFreeWL"}
      <3>1. \A x \in Fields \ X : g[x] = f[x]
        BY <2>6 DEF Same
      <3>2. \A x \in X : x \in DOMAIN FieldTypes => g[x] \in FieldTypes[x]
        BY <2>7 DEF FieldTypes
      <3>3. DOMAIN g = Fields
        BY <2>6 DEF Same
      <3> HIDE DEF X
      <3> QED
        BY <1>1, <3>1, <3>2, <3>3, TypesKept
    <2>10. /\ g.InitGCState = "DIRTY" /\ g.RepairStep = "PAGE" /\ g.Dirty = f.Dirty
           /\ g.IntrJob = "IDLE" /\ Cur(g) = Cur(f) /\ DirtySector(g) = s /\ g.GcDest = 0
           /\ g.StateCount = f.StateCount
      BY <1>5, <1>8, <2>6 DEF Same, Fields, Cur, DirtySector, s
    <2>11. RepairFault(flash, g, j)
      BY <1>2, <1>3, <2>0, <2>5, <2>7, <2>8, <2>10 DEF RepairFault
    <2>12. StartFault(flash, g, j) /\ PrepFault(flash, g, j)
      BY <1>2, <1>5, <2>5, <2>7, <2>10 DEF StartFault, PrepFault
    <2>13. FaultInv(flash, g, j)
      BY <2>6, <2>8, <2>9, <2>10, <2>11, <2>12, FaultInitJob
    <2> QED
      BY <2>1, <2>13
  <1> QED
    BY <1>2, <1>7, <1>8

\* Fee_lINSM keeps the invariant.
LEMMA FaultResume ==
  ASSUME NEW f, FaultInv(flash, f, NoJob), f.MainJob = "INITGC", f.IntrJob = "IDLE",
         f.InitGCState = "NORMAL"
  PROVE  FaultInv(flash, Resume(f), NoJob)
  <1> DEFINE g == Resume(f)
             X == {"InitGCState", "GcState", "GcInit"}
  <1>1. /\ InOrder(flash) /\ FaultTypes(f) /\ ~f.CacheUpdated /\ f.GcState = "IDLE"
        /\ StartFault(flash, f, NoJob) /\ DOMAIN f = Fields /\ ~IntrRuns(NoJob)
    BY InitFacts
  <1>2. /\ f.StateCount > 0 /\ \A t \in Sectors : OpenWL(flash[t], f.NextFreeWL[t])
        /\ f.GcDest = 0 /\ Unread(flash[Cur(f)], f.NextFreeWL[Cur(f)])
        /\ Cur(f) \in Sectors /\ Oth(f) \in Sectors
    BY <1>1, FieldFacts DEF StartFault
  <1>3. /\ g.InitGCState = "COMPLETE" /\ g.GcState \in {"IDLE", "ERASE"}
        /\ g.GcInit \in BOOLEAN /\ Same(f, g, X)
    BY <1>1 DEF Same, Fields, Resume
  <1> HIDE DEF g
  <1>4. FaultTypes(g)
    <2>1. \A x \in Fields \ X : g[x] = f[x]
      BY <1>3 DEF Same
    <2>2. \A x \in X : x \in DOMAIN FieldTypes => g[x] \in FieldTypes[x]
      BY <1>3 DEF FieldTypes
    <2>3. DOMAIN g = Fields
      BY <1>3 DEF Same
    <2> HIDE DEF X
    <2> QED
      BY <1>1, <2>1, <2>2, <2>3, TypesKept
  <1>5. /\ g.MainJob = "INITGC" /\ ~g.CacheUpdated /\ g.Req = f.Req /\ g.UserJob = f.UserJob
        /\ g.IntrJob = "IDLE" /\ Cur(g) = Cur(f) /\ Oth(g) = Oth(f) /\ g.StateCount = f.StateCount
        /\ g.NextFreeWL = f.NextFreeWL /\ g.GcDest = 0
    BY <1>1, <1>2, <1>3 DEF Same, Fields, Cur, Oth
  <1>6. Quiet(g, NoJob)
    BY <1>1, <1>5 DEF Quiet
  <1>7. PrepFault(flash, g, NoJob) /\ RepairFault(flash, g, NoJob)
    BY <1>3 DEF PrepFault, RepairFault
  <1>8. StartFault(flash, g, NoJob)
    BY <1>2, <1>3, <1>5 DEF StartFault
  <1>9. GcFault(flash, g, NoJob)
    BY <1>1, <1>2, <1>3, <1>5, <1>6 DEF GcFault, Busy
  <1>10. FaultInv(flash, g, NoJob)
    BY <1>3, <1>4, <1>5, <1>6, <1>7, <1>8, <1>9, FaultStartUp
  <1> QED
    BY <1>10 DEF g

\* Fee_lInitGC keeps the invariant.
LEMMA FaultInitGC ==
  ASSUME WLs >= 6, NEW f, FaultInv(flash, f, NoJob), job = NoJob, InitGC(f)
  PROVE  FaultInv(flash, fee', job')
  <1> DEFINE g == InitGCResult(f)
  <1>1. /\ FaultInv(flash, g, NoJob) /\ g.MainJob = "INITGC" /\ g.IntrJob = "IDLE"
    BY FaultInitResult DEF InitGC
  <1>2. \/ g.InitGCState = "INVALID" /\ Continue(InitGCFail(g))
        \/ g.InitGCState = "EMPTY" /\ PrepJob([g EXCEPT !.InitGCState = "PREPARE"])
        \/ g.InitGCState = "PREPARE" /\ PrepJob(g)
        \/ g.InitGCState = "DIRTY" /\ RepairJob(g)
        \/ g.InitGCState = "NORMAL" /\ Continue(Resume(g))
        \/ g.InitGCState \in {"COMPLETE", "FAIL"} /\ Continue(g)
    BY DEF InitGC
  <1> HIDE DEF g
  <1>3. DOMAIN g = Fields
    BY <1>1, InitFacts
  <1>4. CASE g.InitGCState = "INVALID" /\ Continue(InitGCFail(g))
    <2> DEFINE h == InitGCFail(g)
    <2>1. Same(g, h, {"IntrJob", "InitGCState"}) /\ h.IntrJob = "IDLE" /\ h.InitGCState = "FAIL"
      BY <1>1, <1>3 DEF InitGCFail, Same, Fields
    <2> HIDE DEF h
    <2>2. FaultInv(flash, h, NoJob)
      BY <1>1, <1>4, <2>1, FaultGivenUp
    <2> QED
      BY <1>4, <2>2 DEF Continue, h
  <1>5. CASE g.InitGCState = "EMPTY" /\ PrepJob([g EXCEPT !.InitGCState = "PREPARE"])
    <2> DEFINE h == [g EXCEPT !.InitGCState = "PREPARE"]
    <2>1. Same(g, h, {"InitGCState"}) /\ h.InitGCState = "PREPARE"
      BY <1>3 DEF Same, Fields
    <2>2. PrepJob(h)
      BY <1>5
    <2> HIDE DEF h
    <2> QED
      BY <1>1, <1>5, <2>1, <2>2, FaultPrepJob
  <1>6. CASE g.InitGCState = "PREPARE" /\ PrepJob(g)
    <2>1. Same(g, g, {"InitGCState"})
      BY <1>3 DEF Same
    <2> QED
      BY <1>1, <1>6, <2>1, FaultPrepJob
  <1>7. CASE g.InitGCState = "DIRTY" /\ RepairJob(g)
    BY <1>1, <1>7, FaultRepairJob
  <1>8. CASE g.InitGCState = "NORMAL" /\ Continue(Resume(g))
    BY <1>1, <1>8, FaultResume DEF Continue
  <1>9. CASE g.InitGCState \in {"COMPLETE", "FAIL"} /\ Continue(g)
    BY <1>1, <1>9 DEF Continue
  <1> QED
    BY <1>2, <1>4, <1>5, <1>6, <1>7, <1>8, <1>9

-----------------------------------------------------------------------------
(* The cache. *)

\* The cache is built once.
LEMMA FaultCacheBuiltOnce ==
  ASSUME NEW f, FaultInv(flash, f, job), DecideMainJob(f).MainJob = "CACHEUPDATE"
  PROVE  ~f.CacheUpdated
  <1>1. FaultTypes(f) /\ MainInv(f, job)
    BY DEF FaultInv
  <1>2. SUFFICES ASSUME f.CacheUpdated PROVE FALSE
    OBVIOUS
  <1>3. f.MainJob # "INITGC"
    BY <1>1, <1>2 DEF MainInv
  <1> DEFINE g == DecideMainJob(f)
  <1>4. /\ FaultTypes(g) /\ g.MainJob = "CACHEUPDATE"
    BY FaultDecide DEF FaultInv
  <1>5. CASE f.MainJob = "CACHEUPDATE"
    <2> DEFINE m == CASE ReadRequested(f) -> "READ" [] Requested(f) -> "WRITE"
                      [] OTHER -> AfterJob(f)
    <2>1. g = [f EXCEPT !.MainJob = m]
      BY <1>2, <1>5 DEF DecideMainJob
    <2>2. m # "CACHEUPDATE"
      <3>1. ReadRequested(f) => ~Requested(f)
        BY DEF ReadRequested, Requested
      <3> QED
        BY <3>1 DEF AfterJob
    <2> HIDE DEF m, g
    <2>3. g.MainJob = m
      BY <1>1, <2>1 DEF FaultTypes, Fields
    <2> QED
      BY <1>4, <2>2, <2>3
  <1>6. CASE f.MainJob \in {"READ", "WRITE", "GC", "NONE"}
    <2>1. AskGC(f).MainJob # "CACHEUPDATE"
      BY <1>1, <1>6 DEF AskGC, CurrBlkCheck, FaultTypes, Fields
    <2>2. g.MainJob # "CACHEUPDATE"
      <3>1. \A m : [f EXCEPT !.MainJob = m].MainJob = m
        BY <1>1 DEF FaultTypes, Fields
      <3>2. ReadRequested(f) => ~Requested(f) /\ f.Req # NoReq
        BY DEF ReadRequested, Requested
      <3>3. AfterJob(f) # "CACHEUPDATE" /\ (Requested(f) => f.Req # NoReq)
        BY DEF AfterJob, Requested
      <3> HIDE DEF g
      <3>4. \/ g = f \/ g = AskGC(f)
            \/ \E m \in {"READ", "WRITE", "GC", "NONE", AfterJob(f)} : g = [f EXCEPT !.MainJob = m]
        BY <1>3, <1>6, <3>2, <3>3 DEF DecideMainJob, g
      <3> QED
        BY <1>6, <2>1, <3>1, <3>3, <3>4
    <2> QED
      BY <1>4, <2>2
  <1> QED
    BY <1>1, <1>3, <1>5, <1>6, FieldFacts

\* The cache Fee_lUpdateCacheTable builds leads to the latest copies.
LEMMA FaultCacheOf ==
  ASSUME InOrder(flash), NEW s \in Sectors
  PROVE  /\ CacheOf(flash, s) \in [Blocks -> Addresses \cup {NoAddr}]
         /\ \A b \in Blocks :
              LET x == CacheOf(flash, s)[b]
              IN /\ x = NoAddr <=> CopiesOf(flash[s], b) = {}
                 /\ x # NoAddr => x.sector = s /\ LatestIs(flash[s], b, x.slot)
  <1>1. ASSUME NEW b \in Blocks
        PROVE  LET x == CacheOf(flash, s)[b]
               IN /\ x = NoAddr <=> CopiesOf(flash[s], b) = {}
                  /\ x # NoAddr => x.sector = s /\ LatestIs(flash[s], b, x.slot)
                  /\ x \in Addresses \cup {NoAddr}
    <2> DEFINE C == CopiesOf(flash[s], b)
               x == CacheOf(flash, s)[b]
    <2>1. x = IF C = {} THEN NoAddr ELSE At(s, Max(C))
      BY DEF CacheOf
    <2>2. C \subseteq Slots /\ (C # {} => LatestIs(flash[s], b, Max(C)))
      BY LatestOf, OrderFacts
    <2>3. C # {} => Max(C) \in Slots
      BY <2>2, GreatestElement
    <2> HIDE DEF C, x
    <2>4. CASE C = {}
      BY <2>1, <2>4 DEF C, x
    <2>5. CASE C # {}
      <3>1. x = At(s, Max(C)) /\ Max(C) \in Slots
        BY <2>1, <2>3, <2>5
      <3>2. x \in Addresses /\ x # NoAddr /\ x.sector = s /\ x.slot = Max(C)
        BY <3>1, AddressFacts
      <3>3. LatestIs(flash[s], b, x.slot)
        BY <2>2, <2>5, <3>2
      <3> QED
        BY <2>5, <3>2, <3>3 DEF C, x
    <2> QED
      BY <2>4, <2>5
  <1>2. CacheOf(flash, s) \in [Blocks -> Addresses \cup {NoAddr}]
    <2> DEFINE e(b) == IF CopiesOf(flash[s], b) = {} THEN NoAddr
                       ELSE At(s, Max(CopiesOf(flash[s], b)))
    <2>1. CacheOf(flash, s) = [b \in Blocks |-> e(b)]
      BY DEF CacheOf
    <2>2. \A b \in Blocks : CacheOf(flash, s)[b] \in Addresses \cup {NoAddr}
      BY <1>1
    <2> HIDE DEF e
    <2>3. \A b \in Blocks : e(b) \in Addresses \cup {NoAddr}
      BY <2>1, <2>2
    <2> QED
      BY <2>1, <2>3
  <1> QED
    BY <1>1, <1>2

\* Where the first free page is, in a wordline that is read or skipped.
LEMMA FaultFirstPage ==
  ASSUME InOrder(flash), NEW s \in Sectors, NEW free \in Nat, Unread(flash[s], free), NEW a,
         \/ a = free
         \/ a = Max({p \in free - PerWL .. free - 1 : flash[s][p] # Blank}) + 1
  PROVE  a \in Nat /\ Open(flash[s], a)
  <1> DEFINE cells == flash[s]
             w == free - PerWL
  <1>1. /\ free >= PerWL /\ w \in Slots /\ OpenWL(cells, free) /\ cells[w] # Blank
        /\ IsWLBeginning(free) /\ BlankFrom(cells, free)
    BY DEF Unread, OpenWL
  <1>2. PerWL \in Nat /\ PerWL > 0 /\ w \in Nat /\ Slots \subseteq Nat
        /\ Slots = 0 .. WLs * PerWL - 1 /\ WLs * PerWL \in Nat
    BY <1>1, SlotFacts
  <1>3. free = w + PerWL /\ free <= WLs * PerWL
    <2>1. free = w + PerWL
      BY <1>2
    <2> SUFFICES ASSUME free > WLs * PerWL PROVE FALSE
      BY <1>2, <2>1
    <2>2. NextWL(WLs * PerWL) <= free
      BY <1>1, <1>2, WordlinesApart
    <2>3. NextWL(WLs * PerWL) = WLs * PerWL + PerWL
      BY <1>2, WordlineSlots, WordlineFacts
    <2> QED
      BY <1>1, <1>2, <2>1, <2>2, <2>3
  <1>4. CASE a = free
    BY <1>1, <1>4, OpenWordline
  <1>5. CASE a = Max({p \in w .. free - 1 : cells[p] # Blank}) + 1
    <2> DEFINE S == {p \in w .. free - 1 : cells[p] # Blank}
               l == Max(S)
    <2>1. w .. free - 1 \subseteq Slots
      BY <1>1, <1>2, <1>3
    <2>2. S \subseteq Slots /\ w \in S
      BY <1>1, <1>2, <1>3, <2>1
    <2>3. a = l + 1
      BY <1>5
    <2> HIDE DEF S
    <2>4. l \in S /\ \A y \in S : y <= l
      BY <2>2, GreatestElement
    <2> HIDE DEF l
    <2>5. l \in w .. free - 1 /\ cells[l] # Blank /\ l \in Slots /\ l \in Nat
      BY <1>2, <2>2, <2>4 DEF S
    <2>6. BlankFrom(cells, l + 1)
      <3> SUFFICES ASSUME NEW p \in Slots, p >= l + 1, cells[p] # Blank PROVE FALSE
        BY DEF BlankFrom
      <3>1. p < free
        BY <1>1, <1>2 DEF BlankFrom
      <3>2. p \in S
        BY <1>2, <1>3, <2>5, <3>1 DEF S
      <3> QED
        BY <1>2, <2>4, <2>5, <3>2
    <2>7. Open(cells, l + 1)
      BY <2>5, <2>6, OpenBehind
    <2> QED
      BY <2>3, <2>5, <2>7
  <1> QED
    BY <1>4, <1>5

\* Fee_lUpdateCache keeps the invariant.
LEMMA FaultUpdateCache ==
  ASSUME NEW f, FaultInv(flash, f, NoJob), ~f.CacheUpdated, job = NoJob, UpdateCache(f)
  PROVE  FaultInv(flash, fee', job')
  <1> DEFINE s == f.CurrSector
             free == f.NextFreeWL[s]
  <1>1. /\ InOrder(flash) /\ FaultTypes(f) /\ MainInv(f, NoJob) /\ UserFault(flash, f, NoJob)
        /\ StartFault(flash, f, NoJob) /\ GcFault(flash, f, NoJob) /\ f.MainJob = "CACHEUPDATE"
        /\ ~IntrRuns(NoJob)
    BY DEF FaultInv, UpdateCache, IntrRuns
  <1>2. /\ f.InitGCState = "COMPLETE" /\ Quiet(f, NoJob) /\ f.GcState \in {"IDLE", "ERASE"}
        /\ Unread(flash[s], free) /\ f.StateCount > 0
    BY <1>1, FieldFacts DEF MainInv, StartFault, Cur
  <1>3. /\ s \in Sectors /\ Other(s) \in Sectors /\ Other(s) # s /\ free \in Nat
        /\ DOMAIN f = Fields
    BY <1>1, FieldFacts, SlotFacts
  <1>4. PICK a : /\ \/ a = free
                    \/ a = Max({p \in free - PerWL .. free - 1 : flash[s][p] # Blank}) + 1
                 /\ fee' = [f EXCEPT !.CacheUpdated = TRUE, !.NextFreePage = a,
                                     !.Cache = CacheOf(flash, s)]
                 /\ job' = NoJob
    BY DEF UpdateCache, Continue
  <1> DEFINE g == [f EXCEPT !.CacheUpdated = TRUE, !.NextFreePage = a,
                            !.Cache = CacheOf(flash, s)]
             X == {"CacheUpdated", "NextFreePage", "Cache"}
  <1>5. a \in Nat /\ Open(flash[s], a)
    <2> HIDE DEF s, free
    <2> QED
      BY <1>1, <1>2, <1>3, <1>4, FaultFirstPage
  <1>6. /\ CacheOf(flash, s) \in [Blocks -> Addresses \cup {NoAddr}]
        /\ \A b \in Blocks :
             LET x == CacheOf(flash, s)[b]
             IN /\ x = NoAddr <=> CopiesOf(flash[s], b) = {}
                /\ x # NoAddr => x.sector = s /\ LatestIs(flash[s], b, x.slot)
    BY <1>1, <1>3, FaultCacheOf
  <1>7. /\ g.CacheUpdated = TRUE /\ g.NextFreePage = a /\ g.Cache = CacheOf(flash, s)
        /\ Same(f, g, X)
    BY <1>3 DEF Same, Fields
  <1> HIDE DEF g
  <1>8. FaultTypes(g)
    <2>1. \A x \in Fields \ X : g[x] = f[x]
      BY <1>7 DEF Same
    <2>4. /\ FieldTypes["CacheUpdated"] = BOOLEAN /\ FieldTypes["NextFreePage"] = Nat
          /\ FieldTypes["Cache"] = [Blocks -> Addresses \cup {NoAddr}]
      BY DEF FieldTypes
    <2>5. g["CacheUpdated"] = TRUE /\ g["NextFreePage"] \in Nat
          /\ g["Cache"] \in [Blocks -> Addresses \cup {NoAddr}]
      BY <1>5, <1>6, <1>7
    <2>2. \A x \in X : x \in DOMAIN FieldTypes => g[x] \in FieldTypes[x]
      BY <2>4, <2>5
    <2>3. DOMAIN g = Fields
      BY <1>7 DEF Same
    <2> HIDE DEF X
    <2> QED
      BY <1>1, <2>1, <2>2, <2>3, TypesKept
  <1>9. /\ Cur(g) = s /\ Oth(g) = Other(s) /\ g.MainJob = "CACHEUPDATE"
        /\ g.Req = f.Req /\ g.UserJob = f.UserJob /\ g.IntrJob = f.IntrJob
        /\ g.GcState = f.GcState /\ g.InitGCState = "COMPLETE" /\ g.GcDest = f.GcDest
        /\ g.NextFreeWL = f.NextFreeWL /\ g.StateCount = f.StateCount
        /\ \A st : Stage(g, st) <=> Stage(f, st)
    BY <1>1, <1>2, <1>7 DEF Same, Fields, Cur, Oth, Stage
  <1>10. ~Answering(f) /\ ~Stage(f, "reading")
    BY <1>1, StagesMain
  <1>11. UserFault(flash, g, NoJob)
    BY <1>1, <1>5, <1>7, <1>9, <1>10 DEF UserFault, UserWrites, Answering
  <1>12. MainInv(g, NoJob)
    BY <1>1, <1>2, <1>7, <1>9 DEF MainInv
  <1>13. Quiet(g, NoJob)
    BY <1>2, <1>9 DEF Quiet
  <1>14. GcFault(flash, g, NoJob)
    BY <1>1, <1>2, <1>9, <1>13 DEF GcFault, Busy, Quiet, Oth
  <1>15. PrepFault(flash, g, NoJob) /\ RepairFault(flash, g, NoJob) /\ StartFault(flash, g, NoJob)
    BY <1>2, <1>7, <1>9, StartedFault
  <1>17. CacheFault(flash, g)
    <2>1. g.GcState \notin {"START_COPY", "COPY_WRITE", "V_SP", "V_M", "FAIL"}
      BY <1>2, <1>9
    <2>2. ASSUME NEW b \in Blocks, g.Cache[b] # NoAddr
          PROVE  /\ g.Cache[b].sector = s
                 /\ flash[s][g.Cache[b].slot].kind = "copy" /\ flash[s][g.Cache[b].slot].blk = b
                 /\ g.Cache[b].slot < g.NextFreePage
      <3> DEFINE p == g.Cache[b].slot
      <3>1. g.Cache[b].sector = s /\ p \in CopiesOf(flash[s], b)
        BY <1>6, <1>7, <2>2 DEF LatestIs
      <3>2. p \in Slots /\ flash[s][p].kind = "copy" /\ flash[s][p].blk = b /\ p \in Nat
        BY <3>1, SlotFacts DEF CopiesOf
      <3>3. ~(p >= a)
        BY <1>5, <3>2, BuiltCells DEF Open, BlankFrom
      <3> QED
        BY <1>5, <1>7, <3>1, <3>2, <3>3
    <2> QED
      BY <1>3, <1>9, <2>1, <2>2 DEF CacheFault, Copying
  <1>18. FaultInv(flash, g, NoJob)
    BY <1>1, <1>8, <1>11, <1>12, <1>14, <1>15, <1>17 DEF FaultInv
  <1> QED
    BY <1>4, <1>18 DEF g

-----------------------------------------------------------------------------
(* Requests of the user and their jobs. *)

\* A page further on is as good for the copies the cache leads to.
LEMMA LaterPage ==
  ASSUME NEW fl, NEW f, NEW g, FaultTypes(f), FaultTypes(g), CacheFault(fl, f),
         f.NextFreePage <= g.NextFreePage,
         g.CacheUpdated = f.CacheUpdated, g.Cache = f.Cache, g.Copied = f.Copied,
         g.GcState = f.GcState, g.BlkModified = f.BlkModified,
         g.GcCopyIndex = f.GcCopyIndex, g.CurrSector = f.CurrSector,
         g.GcDest = f.GcDest, g.GcSrcAddr = f.GcSrcAddr
  PROVE  CacheFault(fl, g)
  <1>1. Cur(g) = Cur(f) /\ Oth(g) = Oth(f) /\ f.NextFreePage \in Nat /\ g.NextFreePage \in Nat
        /\ f.Cache \in [Blocks -> Addresses \cup {NoAddr}] /\ f.GcSrcAddr \in Seq(Addresses)
    BY FieldFacts DEF Cur, Oth
  <1>2. \A at \in Addresses : at.slot \in Nat
    BY AddressFacts, SlotFacts
  <1>3. \A at \in Addresses : at.slot < f.NextFreePage => at.slot < g.NextFreePage
    BY <1>1, <1>2
  <1>4. \A i \in DOMAIN f.GcSrcAddr : f.GcSrcAddr[i] \in Addresses
    BY <1>1
  <1>5. \A b \in Blocks : f.Cache[b] # NoAddr => f.Cache[b] \in Addresses
    BY <1>1
  <1> QED
    BY <1>1, <1>3, <1>4, <1>5 DEF CacheFault

\* A state that differs in what belongs to a request, and in a job of the user.
LEMMA FaultRequestFrame ==
  ASSUME NEW fl, NEW f, NEW g, NEW j, NEW k, FaultInv(fl, f, j), FaultTypes(g),
         NEW X, Same(f, g, X),
         X \subseteq {"Req", "Affected", "UserJob", "NextFreePage", "UserJobFailCount"},
         f.NextFreePage <= g.NextFreePage,
         IntrRuns(j) \/ IntrRuns(k) => k = j,
         ~f.CacheUpdated => k = j,
         g.UserJob = f.UserJob \/ ~IntrRuns(j),
         UserFault(fl, g, k)
  PROVE  FaultInv(fl, g, k)
  <1>1. /\ InOrder(fl) /\ FaultTypes(f) /\ PrepFault(fl, f, j) /\ MainInv(f, j)
        /\ RepairFault(fl, f, j) /\ StartFault(fl, f, j) /\ GcFault(fl, f, j) /\ CacheFault(fl, f)
    BY DEF FaultInv
  <1>2. \A x \in Fields \ {"Req", "Affected", "UserJob", "NextFreePage", "UserJobFailCount"} :
          g[x] = f[x]
    BY DEF Same
  <1>3. /\ Cur(g) = Cur(f) /\ Oth(g) = Oth(f) /\ DirtySector(g) = DirtySector(f)
        /\ g.CacheUpdated = f.CacheUpdated /\ g.InitGCState = f.InitGCState
        /\ g.StateCount = f.StateCount
    BY <1>2 DEF Fields, Cur, Oth, DirtySector
  <1>4. /\ g.GcState = f.GcState /\ g.IntrJob = f.IntrJob
        /\ g.CurrSector = f.CurrSector /\ g.NextFreeWL = f.NextFreeWL /\ g.GcDest = f.GcDest
        /\ g.GcCopyIndex = f.GcCopyIndex /\ g.GcBlock = f.GcBlock /\ g.Cache = f.Cache
        /\ g.Copied = f.Copied /\ g.GcSrcAddr = f.GcSrcAddr /\ g.BlkModified = f.BlkModified
        /\ g.MainJob = f.MainJob
    BY <1>2 DEF Fields
  <1>5. (IntrRuns(k) <=> IntrRuns(j)) /\ (Quiet(g, k) <=> Quiet(f, j))
    BY <1>4 DEF Quiet
  <1>6. MainInv(g, k)
    BY <1>1, <1>3, <1>4, <1>5 DEF MainInv
  <1>7. PrepFault(fl, g, k) /\ RepairFault(fl, g, k) /\ StartFault(fl, g, k)
    <2>1. CASE f.CacheUpdated
      <3>1. g.InitGCState = "COMPLETE" /\ g.CacheUpdated /\ g.StateCount > 0
        BY <1>1, <1>3, <2>1 DEF MainInv, StartFault
      <3> QED
        BY <3>1, StartedFault
    <2>2. CASE ~f.CacheUpdated
      <3>1. k = j
        BY <2>2
      <3>2. PrepFault(fl, g, j)
        BY <1>1, <1>2, <1>3, <1>4, <1>5, <3>1 DEF Fields, PrepFault
      <3>3. RepairFault(fl, g, j)
        BY <1>1, <1>2, <1>3, <1>4, <1>5, <3>1 DEF Fields, RepairFault
      <3>4. StartFault(fl, g, j)
        BY <1>1, <1>2, <1>3, <1>4, <1>5, <3>1 DEF Fields, StartFault
      <3> QED
        BY <3>1, <3>2, <3>3, <3>4
    <2> QED
      BY <2>1, <2>2
  <1>8. GcFault(fl, g, k)
    BY <1>1, <1>3, <1>4, GcFaultFrame
  <1>9. CacheFault(fl, g)
    BY <1>1, <1>3, <1>4, LaterPage
  <1> QED
    BY <1>1, <1>6, <1>7, <1>8, <1>9 DEF FaultInv

\* What changes with the request only keeps its types.
LEMMA RequestTypes ==
  ASSUME NEW f, FaultTypes(f), NEW g, Same(f, g, {"Req"}), g.Req \in Requests \cup {NoReq}
  PROVE  FaultTypes(g)
  <1> DEFINE X == {"Req"}
  <1>1. \A x \in Fields \ X : g[x] = f[x]
    BY DEF Same
  <1>2. \A x \in X : x \in DOMAIN FieldTypes => g[x] \in FieldTypes[x]
    BY DEF FieldTypes
  <1>3. DOMAIN g = Fields
    BY DEF Same
  <1> HIDE DEF X
  <1> QED
    BY <1>1, <1>2, <1>3, TypesKept

\* The request is dropped: refused or cancelled.
LEMMA FaultDropped ==
  ASSUME NEW fl, NEW f, NEW g, NEW j, FaultInv(fl, f, j), Same(f, g, {"Req"}), g.Req = NoReq,
         ~Answering(f), ~Stage(f, "reading")
  PROVE  FaultInv(fl, g, j)
  <1>1. UserFault(fl, f, j) /\ FaultTypes(f)
    BY DEF FaultInv
  <1>2. FaultTypes(g)
    BY <1>1, RequestTypes
  <1>3. /\ \A st : ~Stage(g, st)
        /\ g.UserJob = f.UserJob /\ g.CacheUpdated = f.CacheUpdated
        /\ g.NextFreePage = f.NextFreePage /\ Cur(g) = Cur(f)
    BY DEF Stage, Same, Fields, Cur
  <1>4. UserFault(fl, g, j)
    BY <1>1, <1>3 DEF UserFault, UserWrites, Answering
  <1>5. f.NextFreePage <= g.NextFreePage
    BY <1>1, <1>3, FieldFacts
  <1> QED
    BY <1>2, <1>3, <1>4, <1>5, FaultRequestFrame

\* A request is accepted.
LEMMA FaultAccepted ==
  ASSUME NEW fl, NEW f, NEW g, NEW j, FaultInv(fl, f, j), Same(f, g, {"Req"}),
         g.Req \in Requests, f.Req = NoReq, g.Req.stage \in {"request", "toRead"}
  PROVE  FaultInv(fl, g, j)
  <1>1. UserFault(fl, f, j) /\ FaultTypes(f)
    BY DEF FaultInv
  <1>2. FaultTypes(g)
    BY <1>1, RequestTypes
  <1>3. /\ \A st : ~Stage(f, st)
        /\ \A st : Stage(g, st) => st \in {"request", "toRead"}
        /\ g.UserJob = f.UserJob /\ g.CacheUpdated = f.CacheUpdated
        /\ g.NextFreePage = f.NextFreePage /\ Cur(g) = Cur(f)
    BY DEF Stage, Same, Fields, Cur
  <1>4. UserFault(fl, g, j)
    BY <1>1, <1>3 DEF UserFault, UserWrites
  <1>5. f.NextFreePage <= g.NextFreePage
    BY <1>1, <1>3, FieldFacts
  <1> QED
    BY <1>2, <1>3, <1>4, <1>5, FaultRequestFrame

\* A read that is refused or starts keeps the invariant.
LEMMA FaultLocalRead ==
  ASSUME NEW f, FaultInv(flash, f, NoJob), Stage(f, "toRead"), job = NoJob, LocalRead(f)
  PROVE  FaultInv(flash, fee', job')
  <1> DEFINE at == f.Cache[f.Req.blk]
  <1>1. /\ InOrder(flash) /\ FaultTypes(f) /\ MainInv(f, NoJob) /\ UserFault(flash, f, NoJob)
        /\ f.MainJob = "READ" /\ f.CacheUpdated
    BY DEF FaultInv, MainInv, LocalRead
  <1>2. f.Req # NoReq /\ f.Req \in Requests /\ f.Req.stage = "toRead" /\ DOMAIN f = Fields
        /\ f.Cache \in [Blocks -> Addresses \cup {NoAddr}] /\ f.NextFreePage \in Nat
    BY <1>1, FieldFacts DEF Stage
  <1>3. ~Answering(f) /\ ~Stage(f, "reading") /\ ~Stage(f, "stuck")
    BY <1>2 DEF Stage, Answering, UserWrites
  <1>4. CASE Content(at) = NoValue /\ Continue([f EXCEPT !.Req = NoReq])
    <2> DEFINE g == [f EXCEPT !.Req = NoReq]
    <2>1. fee' = g /\ job' = NoJob
      BY <1>4 DEF Continue
    <2>2. Same(f, g, {"Req"}) /\ g.Req = NoReq
      BY <1>2 DEF Same, Fields
    <2> HIDE DEF g
    <2>3. FaultInv(flash, g, NoJob)
      BY <1>3, <2>2, FaultDropped
    <2> QED
      BY <2>1, <2>3
  <1>5. CASE Content(at) # NoValue /\ Start([f EXCEPT !.Req.stage = "reading"], ReadCell(at))
    <2> DEFINE r == [f.Req EXCEPT !.stage = "reading"]
               g == [f EXCEPT !.Req = r]
               j == ReadCell(at)
    <2>1. fee' = g /\ job' = j
      BY <1>5 DEF Start
    <2>2. r \in Requests /\ r.stage = "reading" /\ r.blk = f.Req.blk /\ f.Req.blk \in Blocks
          /\ r # NoReq
      BY <1>2, RequestFacts
    <2> HIDE DEF r
    <2>3. Same(f, g, {"Req"}) /\ g.Req = r
      BY <1>2 DEF Same, Fields
    <2> HIDE DEF g
    <2>4. at # NoAddr /\ at \in Addresses
      BY <1>2, <1>5, <2>2 DEF Content
    <2>5. at.sector \in Sectors /\ at.slot \in Slots /\ at = At(at.sector, at.slot)
          /\ flash[at.sector][at.slot] \in Cells
      BY <1>1, <2>4, AddressFacts, OrderFacts
    <2>6. Reads(flash, j, at)
      <3> HIDE DEF j, at
      <3>1. Reads(flash, ReadCell(At(at.sector, at.slot)), At(at.sector, at.slot))
        BY <2>5, BuiltJobs
      <3> QED
        BY <2>5, <3>1 DEF j
    <2> HIDE DEF j, at
    <2>7. ~IntrRuns(j) /\ ~IntrRuns(NoJob)
      BY <2>6 DEF Reads, IsJob, IntrRuns
    <2>8. /\ Stage(g, "reading") /\ ~UserWrites(g) /\ ~Stage(g, "fail") /\ ~Stage(g, "stuck")
          /\ g.MainJob = "READ" /\ g.UserJob = f.UserJob /\ g.CacheUpdated
          /\ g.NextFreePage = f.NextFreePage /\ Cur(g) = Cur(f)
      BY <1>1, <2>2, <2>3 DEF Stage, Same, Fields, Cur, UserWrites
    <2>9. UserFault(flash, g, j)
      BY <1>1, <1>3, <2>4, <2>6, <2>8 DEF UserFault, UserWrites, Answering
    <2>10. FaultTypes(g)
      BY <1>1, <2>2, <2>3, RequestTypes
    <2>11. f.NextFreePage <= g.NextFreePage
      BY <1>2, <2>8
    <2>12. FaultInv(flash, g, j)
      BY <1>1, <2>3, <2>7, <2>8, <2>9, <2>10, <2>11, FaultRequestFrame
    <2> QED
      BY <2>1, <2>12
  <1> QED
    BY <1>4, <1>5 DEF LocalRead

-----------------------------------------------------------------------------
(* Writes. *)

\* A job that programs a cell is one of the jobs.
LEMMA NewProgramming ==
  ASSUME NEW s \in Sectors, NEW a \in Slots, NEW c \in Cells, NEW o \in {"user", "intr"},
         Open(flash[s], a)
  PROVE  /\ Programming(flash, ProgramCell(s, a, c, o), o, s, a, c)
         /\ IntrRuns(ProgramCell(s, a, c, o)) <=> o = "intr"
  <1>1. Programs(ProgramCell(s, a, c, o), o, s, a, c)
    BY BuiltJobs
  <1> QED
    BY <1>1 DEF Programming, Programs, IsJob, IntrRuns

\* The copy of the user's block is handed to the flash driver, where there is
\* room to try again.
LEMMA FaultWriteCopy ==
  ASSUME NEW f, FaultInv(flash, f, NoJob), Stage(f, "request"), f.MainJob = "WRITE",
         f.CacheUpdated, job = NoJob, WriteCopy(f)
  PROVE  FaultInv(flash, fee', job')
  <1> DEFINE h == CurrBlkCheck(f)
  <1>1. /\ FaultTypes(f) /\ f.Req # NoReq /\ f.Req \in Requests /\ f.Req.stage = "request"
    BY FieldFacts DEF FaultInv, Stage
  <1>2. ~Answering(f) /\ f.NextFreePage \in Nat
    BY <1>1, FieldFacts DEF Stage, Answering, UserWrites
  <1>3. /\ FaultInv(flash, h, NoJob) /\ h.NextFreePage = CheckedPage(f)
        /\ IsWLBeginning(CheckedPage(f)) \/ RetryBase(CheckedPage(f)) \in Slots
        /\ \A x \in Fields \ {"NextFreePage", "GcState"} : h[x] = f[x]
    BY <1>2, FaultPageChecked
  <1> HIDE DEF h
  <1>4. /\ InOrder(flash) /\ FaultTypes(h) /\ UserFault(flash, h, NoJob) /\ MainInv(h, NoJob)
        /\ h.MainJob = "WRITE" /\ h.CacheUpdated /\ h.Req = f.Req /\ h.CurrSector = f.CurrSector
    BY <1>3 DEF FaultInv, Fields
  <1>5. CASE ~BlkWritable(f)
    <2>1. fee' = h /\ job' = NoJob
      BY <1>5 DEF WriteCopy, Continue, h
    <2> QED
      BY <1>3, <2>1
  <1>6. CASE BlkWritable(f)
    <2> DEFINE r == [f.Req EXCEPT !.stage = "compare"]
               g == [h EXCEPT !.Req = r]
               d == h.NextFreePage
               s == f.CurrSector
               c == BlockCopy(f.Req.blk, f.Req.val)
               j == ProgramCell(s, d, c, "user")
    <2>1. fee' = g /\ job' = j
      <3>1. [h EXCEPT !.Req.stage = "compare"] = g
        BY <1>4
      <3>2. [h EXCEPT !.Req.stage = "compare"].NextFreePage = d
        BY <1>4 DEF FaultTypes, Fields
      <3>3. Start([h EXCEPT !.Req.stage = "compare"],
                  ProgramCell(f.CurrSector, [h EXCEPT !.Req.stage = "compare"].NextFreePage,
                              c, "user"))
        BY <1>6 DEF WriteCopy, h
      <3> QED
        BY <3>1, <3>2, <3>3 DEF Start
    <2>2. r \in Requests /\ r.stage = "compare" /\ r.blk = f.Req.blk /\ r.val = f.Req.val
          /\ r # NoReq /\ f.Req.blk \in Blocks /\ f.Req.val \in Values \cup {NoValue}
      BY <1>1, RequestFacts
    <2> HIDE DEF r
    <2>3. Same(h, g, {"Req"}) /\ g.Req = r
      BY <1>4 DEF FaultTypes, Same, Fields
    <2> HIDE DEF g
    <2>4. d \in Nat
      BY <1>4, FieldFacts
    <2>5. d \in Slots
      BY <1>3, <1>6, <2>4, FreeFacts DEF BlkWritable
    <2>6. ~UserWrites(h) /\ ~Stage(h, "reading") /\ ~Stage(h, "fail") /\ ~Stage(h, "stuck")
      BY <1>1, <1>4 DEF UserWrites, Stage
    <2>7. s \in Sectors /\ Cur(h) = s /\ Cur(g) = s /\ Open(flash[s], d) /\ c \in Cells
      BY <1>1, <1>4, <2>2, <2>3, <2>6, FieldFacts, BuiltCells DEF Same, Fields, Cur, UserFault
    <2>8. Programming(flash, j, "user", s, d, c) /\ ~IntrRuns(j) /\ ~IntrRuns(NoJob)
      BY <2>5, <2>7, NewProgramming DEF IntrRuns
    <2> HIDE DEF j
    <2>9. /\ Stage(g, "compare") /\ ~Stage(g, "recopy") /\ ~Stage(g, "reading")
          /\ ~Stage(g, "fail") /\ ~Stage(g, "stuck")
      BY <2>2, <2>3 DEF Stage
    <2>10. /\ g.MainJob = "WRITE" /\ g.CacheUpdated /\ g.UserJob = h.UserJob
           /\ h.UserJob = "IDLE" /\ g.NextFreePage = d
      BY <1>4, <2>3, <2>6 DEF Same, Fields, UserFault
    <2>11. c = BlockCopy(g.Req.blk, g.Req.val)
      BY <2>2, <2>3
    <2>12. UserFault(flash, g, j)
      <3> HIDE DEF c, s, d
      <3> QED
        BY <1>3, <2>5, <2>7, <2>8, <2>9, <2>10, <2>11 DEF UserFault, UserWrites, d
    <2>13. FaultTypes(g)
      BY <1>4, <2>2, <2>3, RequestTypes
    <2>14. FaultInv(flash, g, j)
      <3>1. h.NextFreePage <= g.NextFreePage
        BY <2>4, <2>10
      <3> QED
        BY <1>3, <1>4, <2>3, <2>8, <2>10, <2>12, <2>13, <3>1, FaultRequestFrame
    <2> QED
      BY <2>1, <2>14
  <1> QED
    BY <1>5, <1>6

\* The cache is led to the copy at the next page.
LEMMA CacheLed ==
  ASSUME NEW f, FaultTypes(f), InOrder(flash), CacheFault(flash, f), f.CacheUpdated,
         f.GcState \in {"IDLE", "REQUESTED", "START_COPY", "ERASE"},
         f.NextFreePage \in Slots, NEW b \in Blocks,
         flash[Cur(f)][f.NextFreePage].kind = "copy", flash[Cur(f)][f.NextFreePage].blk = b,
         NEW g, FaultTypes(g), g.CacheUpdated, g.GcState = f.GcState, g.CurrSector = f.CurrSector,
         g.GcDest = f.GcDest, g.GcCopyIndex = f.GcCopyIndex, g.GcSrcAddr = f.GcSrcAddr,
         g.NextFreePage = f.NextFreePage + 1,
         g.Cache = [f.Cache EXCEPT ![b] = At(Cur(f), f.NextFreePage)],
         \/ g.Copied = f.Copied /\ g.BlkModified = f.BlkModified
              /\ \/ f.GcState \notin Copying
                 \/ f.Cache[b] # NoAddr /\ f.Cache[b].sector = Cur(f)
         \/ g.Copied = [f.Copied EXCEPT ![b] = FALSE] /\ g.BlkModified = TRUE
  PROVE  CacheFault(flash, g)
  <1> DEFINE s == Cur(f)
             d == f.NextFreePage
  <1>1. /\ s \in Sectors /\ Oth(f) # s /\ Cur(g) = s /\ Oth(g) = Oth(f) /\ d \in Nat
        /\ f.Cache \in [Blocks -> Addresses \cup {NoAddr}] /\ f.GcSrcAddr \in Seq(Addresses)
        /\ f.Copied \in [Blocks -> BOOLEAN]
    BY FieldFacts, SlotFacts DEF Cur, Oth
  <1>2. g.Cache[b] # NoAddr /\ g.Cache[b].sector = s /\ g.Cache[b].slot = d
    BY <1>1, AddressFacts
  <1>3. \A x \in Blocks : x # b => g.Cache[x] = f.Cache[x] /\ g.Copied[x] = f.Copied[x]
    BY <1>1
  <1>4. \A x \in Blocks : g.Copied[x] => f.Copied[x]
    BY <1>1
  <1>5. \A at \in Addresses : at.slot < d => at.slot < d + 1
    BY <1>1, AddressFacts, SlotFacts
  <1>6. g.GcState \in Copying => ~g.Copied[b]
    <2>1. CASE g.Copied = [f.Copied EXCEPT ![b] = FALSE]
      BY <1>1, <2>1
    <2>2. CASE g.Copied = f.Copied /\ f.Cache[b] # NoAddr /\ f.Cache[b].sector = Cur(f)
      BY <1>1, <2>2 DEF CacheFault
    <2> QED
      BY <2>1, <2>2
  <1>7. g.GcState \in {"START_COPY", "COPY_WRITE"} /\ ~g.BlkModified =>
          /\ ~f.BlkModified /\ b >= f.GcCopyIndex
    <2> SUFFICES ASSUME g.GcState \in {"START_COPY", "COPY_WRITE"}, ~g.BlkModified
                 PROVE  ~f.BlkModified /\ b >= f.GcCopyIndex
      OBVIOUS
    <2>1. g.BlkModified = f.BlkModified /\ f.Cache[b] # NoAddr /\ f.Cache[b].sector = s
      BY DEF Copying
    <2>2. ~(b < f.GcCopyIndex)
      BY <1>1, <2>1 DEF CacheFault
    <2>3. b \in Nat /\ f.GcCopyIndex \in Nat
      BY FieldFacts, SlotFacts
    <2> QED
      BY <2>1, <2>2, <2>3
  <1>8. ASSUME NEW x \in Blocks, g.Cache[x] # NoAddr
        PROVE  LET at == g.Cache[x]
               IN /\ flash[at.sector][at.slot].kind = "copy" /\ flash[at.sector][at.slot].blk = x
                  /\ at.sector = s => at.slot < d + 1
                  /\ at.sector = Oth(f) => g.GcState \in Copying \cup {"FAIL"}
                  /\ at.sector = Oth(f) /\ g.GcState \in Copying => g.Copied[x] /\ at.slot < f.GcDest
                  /\ g.GcState \in Copying /\ g.Copied[x] => at.sector = Oth(f)
                  /\ g.GcState \in {"V_SP", "V_M"} => at.sector = Oth(f)
                  /\ g.GcState \in {"START_COPY", "COPY_WRITE"} /\ ~g.BlkModified
                       /\ x < f.GcCopyIndex => at.sector = Oth(f)
    <2>1. CASE x = b
      <3>1. g.GcState \notin {"V_SP", "V_M"} /\ d < d + 1
        BY <1>1
      <3>2. ~(b >= f.GcCopyIndex /\ b < f.GcCopyIndex)
        <4>1. b \in Nat /\ f.GcCopyIndex \in Nat
          BY FieldFacts, SlotFacts
        <4> QED
          BY <4>1
      <3> HIDE DEF s, d
      <3> QED
        BY <1>1, <1>2, <1>6, <1>7, <2>1, <3>1, <3>2 DEF s, d
    <2>2. CASE x # b
      <3>1. g.Cache[x] = f.Cache[x] /\ g.Copied[x] = f.Copied[x] /\ f.Cache[x] \in Addresses
        BY <1>1, <1>3, <1>8, <2>2
      <3>2. ~g.BlkModified => ~f.BlkModified \/ g.GcState \notin {"START_COPY", "COPY_WRITE"}
        BY <1>7
      <3>3. CachedCopy(flash, f, x)
        BY <1>8, <3>1, CacheFaultGives
      <3>4. g.Cache[x].sector = s => g.Cache[x].slot < d + 1
        BY <1>5, <3>1, <3>3 DEF CachedCopy
      <3> QED
        BY <3>1, <3>2, <3>3, <3>4 DEF CachedCopy
    <2> QED
      BY <2>1, <2>2
  <1>9. g.GcState \in {"START_COPY", "COPY_WRITE"} =>
          \A i \in DOMAIN f.GcSrcAddr :
            LET at == f.GcSrcAddr[i]
            IN at.sector = s /\ flash[s][at.slot].kind = "copy" /\ at.slot < d + 1
    <2>1. \A i \in DOMAIN f.GcSrcAddr : f.GcSrcAddr[i] \in Addresses
      BY <1>1
    <2> QED
      BY <1>5, <2>1 DEF CacheFault
  <1>10. s = Cur(g) /\ Oth(f) = Oth(g) /\ d + 1 = g.NextFreePage /\ f.GcDest = g.GcDest
         /\ f.GcCopyIndex = g.GcCopyIndex /\ f.GcSrcAddr = g.GcSrcAddr
    BY <1>1
  <1> HIDE DEF s, d
  <1>11. ASSUME NEW x \in Blocks, g.Cache[x] # NoAddr PROVE CachedCopy(flash, g, x)
    <2> DEFINE at == g.Cache[x]
    <2>1. /\ flash[at.sector][at.slot].kind = "copy" /\ flash[at.sector][at.slot].blk = x
          /\ at.sector = s => at.slot < d + 1
          /\ at.sector = Oth(f) => g.GcState \in Copying \cup {"FAIL"}
          /\ at.sector = Oth(f) /\ g.GcState \in Copying => g.Copied[x] /\ at.slot < f.GcDest
          /\ g.GcState \in Copying /\ g.Copied[x] => at.sector = Oth(f)
          /\ g.GcState \in {"V_SP", "V_M"} => at.sector = Oth(f)
          /\ g.GcState \in {"START_COPY", "COPY_WRITE"} /\ ~g.BlkModified
               /\ x < f.GcCopyIndex => at.sector = Oth(f)
      BY <1>8, <1>11
    <2> QED
      BY <1>10, <2>1, Zenon DEF CachedCopy
  <1>12. g.GcState \in {"START_COPY", "COPY_WRITE"} =>
           \A i \in DOMAIN g.GcSrcAddr : CopiedFrom(flash, g, g.GcSrcAddr[i])
    BY <1>9, <1>10 DEF CopiedFrom
  <1> QED
    BY <1>11, <1>12, CacheFaultParts

\* A state that differs in what a write changes.
LEMMA FaultWriteFrame ==
  ASSUME NEW f, FaultInv(flash, f, NoJob), f.MainJob = "WRITE", NEW g, FaultTypes(g),
         NEW X, Same(f, g, X),
         X \subseteq {"Req", "Affected", "UserJob", "NextFreePage", "UserJobFailCount",
                      "Cache", "Copied", "BlkModified", "MainJob"},
         g.MainJob = "WRITE" \/ (g.MainJob = "GC" /\ f.GcState = "REQUESTED"),
         NEW k, ~IntrRuns(k), UserFault(flash, g, k), CacheFault(flash, g)
  PROVE  FaultInv(flash, g, k)
  <1>1. /\ InOrder(flash) /\ FaultTypes(f) /\ MainInv(f, NoJob) /\ GcFault(flash, f, NoJob)
        /\ StartFault(flash, f, NoJob)
    BY DEF FaultInv
  <1>2. \A x \in Fields \ {"Req", "Affected", "UserJob", "NextFreePage", "UserJobFailCount",
                           "Cache", "Copied", "BlkModified", "MainJob"} : g[x] = f[x]
    BY DEF Same
  <1>3. /\ Cur(g) = Cur(f) /\ Oth(g) = Oth(f) /\ g.CacheUpdated = f.CacheUpdated
        /\ g.InitGCState = f.InitGCState /\ g.StateCount = f.StateCount
        /\ g.GcState = f.GcState /\ g.IntrJob = f.IntrJob /\ g.NextFreeWL = f.NextFreeWL
        /\ g.GcDest = f.GcDest
    BY <1>2 DEF Fields, Cur, Oth
  <1>4. /\ f.CacheUpdated /\ f.InitGCState = "COMPLETE"
        /\ f.GcState \in {"IDLE", "REQUESTED", "START_COPY", "ERASE"}
    BY <1>1, FieldFacts DEF MainInv
  <1>5. ~IntrRuns(NoJob) /\ (Quiet(g, k) <=> Quiet(f, NoJob))
    BY <1>3 DEF IntrRuns, Quiet
  <1>6. MainInv(g, k)
    BY <1>1, <1>3, <1>4, <1>5 DEF MainInv
  <1>7. PrepFault(flash, g, k) /\ RepairFault(flash, g, k) /\ StartFault(flash, g, k)
    <2>1. g.StateCount > 0
      BY <1>1, <1>3, <1>4 DEF StartFault
    <2> QED
      BY <1>3, <1>4, <2>1, StartedFault
  <1>8. GcFault(flash, g, k)
    BY <1>1, <1>3, <1>4, <1>5 DEF GcFault, Busy
  <1> QED
    BY <1>1, <1>6, <1>7, <1>8 DEF FaultInv

\* The copies that are written again lie in the wordline of the one that failed.
LEMMA LatestInFacts ==
  ASSUME NEW f, FaultTypes(f), NEW a \in Slots, NEW from \in Nat, WLBeginning(a) <= from,
         LatestIn(f, a, from) # {}
  PROVE  LET p == Min(LatestIn(f, a, from))
         IN /\ p \in Slots /\ from <= p /\ WLBeginning(p) = WLBeginning(a)
            /\ NextWL(p) = NextWL(a) /\ RetryBase(p) = RetryBase(a)
            /\ \E b \in Blocks : f.Cache[b] = At(Cur(f), p)
  <1> DEFINE S == LatestIn(f, a, from)
             p == Min(S)
  <1>1. PerWL \in Nat /\ PerWL > 0 /\ Slots \subseteq Nat /\ Slots = 0 .. WLs * PerWL - 1
        /\ WLs * PerWL \in Nat
    BY SlotFacts
  <1>2. /\ a \in Nat /\ WLBeginning(a) \in Nat /\ NextWL(a) = WLBeginning(a) + PerWL
        /\ IsWLBeginning(WLBeginning(a)) /\ IsWLBeginning(NextWL(a)) /\ NextWL(a) <= WLs * PerWL
        /\ NextWL(a) \in Nat
    BY <1>1, WordlineFacts, WordlineSlots
  <1>3. S \subseteq Slots
    BY <1>1, <1>2 DEF LatestIn
  <1>4. p \in S
    <2> HIDE DEF S
    <2> QED
      BY <1>1, <1>3, LeastElement DEF S, Min
  <1>5. /\ p \in from .. NextWL(a) - 1 /\ \E b \in Blocks : f.Cache[b] = At(f.CurrSector, p)
        /\ p \in Slots
    BY <1>3, <1>4 DEF LatestIn
  <1> HIDE DEF p, S
  <1>6. p \in Nat /\ WLBeginning(a) <= p /\ p < NextWL(a) /\ from <= p
    BY <1>1, <1>2, <1>5
  <1>7. WLBeginning(a) <= WLBeginning(p) /\ NextWL(p) <= NextWL(a)
    BY <1>2, <1>6, WordlinesApart
  <1>9. NextWL(p) = WLBeginning(p) + PerWL /\ WLBeginning(p) \in Nat
    BY <1>6, WordlineFacts
  <1>8. WLBeginning(p) = WLBeginning(a) /\ NextWL(p) = NextWL(a)
    BY <1>1, <1>2, <1>7, <1>9
  <1> QED
    BY <1>5, <1>6, <1>8 DEF p, S, RetryBase, Cur

\* The copies that share the wordline of a failed one are written again, behind
\* it and with room for all of them; then the user's copy is tried anew.
LEMMA FaultRecopyFrom ==
  ASSUME NEW f, FaultInv(flash, f, NoJob), f.MainJob = "WRITE", job = NoJob,
         f.Req \in Requests, NEW m, FaultTypes(m), CacheFault(flash, m),
         NEW X, Same(f, m, X), X \subseteq {"Affected", "UserJob", "NextFreePage",
                                            "UserJobFailCount", "Cache"},
         m.UserJob = "IDLE", NEW a \in Slots, NEW from \in Nat, WLBeginning(a) <= from,
         LatestIn(m, a, from) # {} =>
           /\ RetryBase(a) \in Slots /\ m.NextFreePage >= RetryBase(a)
           /\ m.NextFreePage - RetryBase(a) <= from - WLBeginning(a),
         Open(flash[Cur(m)], m.NextFreePage),
         RecopyFrom(m, a, from)
  PROVE  FaultInv(flash, fee', job')
  <1> DEFINE s == Cur(m)
             d == m.NextFreePage
  <1>1. /\ InOrder(flash) /\ FaultTypes(f) /\ MainInv(f, NoJob) /\ m.Req = f.Req
        /\ m.MainJob = "WRITE" /\ m.CacheUpdated /\ f.CacheUpdated
    BY DEF FaultInv, MainInv, Same, Fields
  <1>2. /\ s \in Sectors /\ d \in Nat /\ DOMAIN m = Fields /\ m.Req # NoReq
        /\ m.Cache \in [Blocks -> Addresses \cup {NoAddr}] /\ m.CurrSector = s
    BY <1>1, FieldFacts, RequestFacts DEF Cur
  <1>3. /\ WLs * PerWL \in Nat /\ PerWL \in Nat /\ PerWL > 0 /\ Slots = 0 .. WLs * PerWL - 1
        /\ Slots \subseteq Nat
    BY SlotFacts
  <1>4. CASE LatestIn(m, a, from) = {}
    <2> DEFINE r == [m.Req EXCEPT !.stage = "request"]
               g == [m EXCEPT !.Req = r]
    <2>1. fee' = g /\ job' = NoJob
      BY <1>4 DEF RecopyFrom, Continue
    <2>2. r \in Requests /\ r.stage = "request" /\ r # NoReq
      <3>1. m.Req \in Requests
        BY <1>1
      <3> QED
        BY <3>1, RequestFacts
    <2> HIDE DEF r
    <2>3. Same(m, g, {"Req"}) /\ g.Req = r
      BY <1>2 DEF Same, Fields
    <2> HIDE DEF g
    <2>4. FaultTypes(g)
      BY <2>2, <2>3, RequestTypes
    <2>5. /\ ~UserWrites(g) /\ ~Stage(g, "reading") /\ ~Stage(g, "fail") /\ ~Stage(g, "stuck")
          /\ ~Stage(g, "compare") /\ ~Stage(g, "recopy")
      BY <2>2, <2>3 DEF UserWrites, Stage
    <2>6. /\ g.UserJob = "IDLE" /\ Cur(g) = s /\ g.NextFreePage = d /\ g.MainJob = "WRITE"
          /\ g.CacheUpdated = m.CacheUpdated /\ g.Cache = m.Cache /\ g.Copied = m.Copied
          /\ g.GcState = m.GcState /\ g.BlkModified = m.BlkModified
          /\ g.GcCopyIndex = m.GcCopyIndex /\ g.CurrSector = m.CurrSector
          /\ g.GcDest = m.GcDest /\ g.GcSrcAddr = m.GcSrcAddr
      BY <1>1, <2>3 DEF Same, Fields, Cur
    <2>7. UserFault(flash, g, NoJob) /\ ~IntrRuns(NoJob)
      BY <2>5, <2>6 DEF UserFault, IntrRuns
    <2>8. CacheFault(flash, g)
      <3>1. m.NextFreePage <= g.NextFreePage
        BY <1>2, <2>6
      <3> QED
        BY <2>4, <2>6, <3>1, LaterPage
    <2>9. Same(f, g, X \cup {"Req"})
      BY <2>3 DEF Same
    <2>10. FaultInv(flash, g, NoJob)
      <3> DEFINE Y == X \cup {"Req"}
      <3>1. Y \subseteq {"Req", "Affected", "UserJob", "NextFreePage", "UserJobFailCount",
                         "Cache", "Copied", "BlkModified", "MainJob"}
        OBVIOUS
      <3>2. Same(f, g, Y)
        BY <2>9
      <3> HIDE DEF Y
      <3> QED
        BY <2>4, <2>6, <2>7, <2>8, <3>1, <3>2, FaultWriteFrame
    <2> QED
      BY <2>1, <2>10
  <1>5. CASE LatestIn(m, a, from) # {}
    <2> DEFINE p == Min(LatestIn(m, a, from))
               r == [m.Req EXCEPT !.stage = "recopy"]
               g == [m EXCEPT !.Affected = p, !.Req = r]
               c == flash[s][p]
               j == ProgramCell(s, d, c, "user")
    <2>1. fee' = g /\ job' = j
      <3> HIDE DEF p
      <3>1. Recopy(m, p)
        BY <1>5 DEF RecopyFrom, p
      <3>2. [m EXCEPT !.Affected = p, !.Req.stage = "recopy"] = g
        <4>1. [m EXCEPT !.Affected = p].Req = m.Req
          BY <1>2 DEF Fields
        <4> QED
          BY <4>1
      <3> QED
        BY <1>2, <3>1, <3>2 DEF Recopy, Start
    <2>2. /\ p \in Slots /\ from <= p /\ WLBeginning(p) = WLBeginning(a)
          /\ RetryBase(p) = RetryBase(a)
          /\ \E b \in Blocks : m.Cache[b] = At(s, p)
      BY <1>5, LatestInFacts
    <2> HIDE DEF p
    <2>3. r \in Requests /\ r.stage = "recopy" /\ r # NoReq
      BY <1>1, RequestFacts
    <2> HIDE DEF r
    <2>4. Same(m, g, {"Affected", "Req"}) /\ g.Req = r /\ g.Affected = p
      BY <1>2 DEF Same, Fields
    <2> HIDE DEF g
    <2>5. FaultTypes(g)
      <3> DEFINE Z == {"Affected", "Req"}
      <3>1. \A x \in Fields \ Z : g[x] = m[x]
        BY <2>4 DEF Same
      <3>2. \A x \in Z : x \in DOMAIN FieldTypes => g[x] \in FieldTypes[x]
        <4>1. "Affected" \notin DOMAIN FieldTypes
          BY TypedFields
        <4>2. g["Req"] \in FieldTypes["Req"]
          BY <2>3, <2>4 DEF FieldTypes
        <4> QED
          BY <4>1, <4>2
      <3>3. DOMAIN g = Fields
        BY <2>4 DEF Same
      <3> HIDE DEF Z
      <3> QED
        BY <3>1, <3>2, <3>3, TypesKept
    <2>6. /\ Stage(g, "recopy") /\ UserWrites(g) /\ ~Stage(g, "reading") /\ ~Stage(g, "fail")
          /\ ~Stage(g, "stuck") /\ ~Stage(g, "compare")
      BY <2>3, <2>4 DEF UserWrites, Stage
    <2>7. /\ g.UserJob = "IDLE" /\ Cur(g) = s /\ g.NextFreePage = d /\ g.MainJob = "WRITE"
          /\ g.CacheUpdated = m.CacheUpdated /\ g.Cache = m.Cache /\ g.Copied = m.Copied
          /\ g.GcState = m.GcState /\ g.BlkModified = m.BlkModified
          /\ g.GcCopyIndex = m.GcCopyIndex /\ g.CurrSector = m.CurrSector
          /\ g.GcDest = m.GcDest /\ g.GcSrcAddr = m.GcSrcAddr
      BY <1>1, <2>4 DEF Same, Fields, Cur
    <2>8. c \in Cells /\ c.kind = "copy" /\ m.Cache[c.blk] = At(s, p)
      <3>1. PICK b \in Blocks : m.Cache[b] = At(s, p)
        BY <2>2
      <3>2. At(s, p) # NoAddr /\ At(s, p).sector = s /\ At(s, p).slot = p
        BY <1>2, <2>2, AddressFacts
      <3>3. c.kind = "copy" /\ c.blk = b
        BY <1>1, <3>1, <3>2 DEF CacheFault
      <3>4. c \in Cells
        BY <1>1, <1>2, <2>2, OrderFacts
      <3> QED
        BY <3>1, <3>3, <3>4
    <2>9. /\ RetryBase(p) \in Slots /\ d >= RetryBase(p)
          /\ d - RetryBase(p) <= p - WLBeginning(p)
      <3>1. /\ RetryBase(a) \in Slots /\ d >= RetryBase(a)
            /\ d - RetryBase(a) <= from - WLBeginning(a)
        BY <1>5
      <3>2. WLBeginning(a) \in Nat /\ p \in Nat /\ RetryBase(a) \in Nat
        BY <1>3, <2>2, <3>1, WordlineFacts
      <3> HIDE DEF d
      <3> QED
        BY <1>2, <2>2, <3>1, <3>2
    <2>10. d \in Slots
      <3>1. /\ p \in Nat /\ WLBeginning(p) \in Nat /\ p < WLBeginning(p) + PerWL
            /\ RetryBase(p) \in Nat
        <4>1. p \in Nat /\ RetryBase(p) \in Nat
          BY <1>3, <2>2, <2>9
        <4>2. p < NextWL(p) /\ NextWL(p) = WLBeginning(p) + PerWL /\ WLBeginning(p) \in Nat
          BY <4>1, WordlineFacts
        <4> QED
          BY <4>1, <4>2
      <3>2. d < RetryBase(p) + PerWL
        BY <1>2, <1>3, <2>9, <3>1
      <3>3. RetryBase(p) + PerWL <= WLs * PerWL
        <4>1. IsWLBeginning(RetryBase(p))
          <5>1. RetryBase(p) = NextWL(NextWL(p)) /\ NextWL(p) \in Nat
            <6>1. p \in Nat /\ NextWL(p) \in Nat /\ IsWLBeginning(NextWL(p))
              BY <3>1, WordlineFacts
            <6>2. WLBeginning(NextWL(p)) = NextWL(p)
                  /\ NextWL(NextWL(p)) = WLBeginning(NextWL(p)) + PerWL
              BY <6>1, WordlineFacts
            <6> QED
              BY <6>1, <6>2 DEF RetryBase
          <5> QED
            BY <5>1, WordlineFacts
        <4>2. NextWL(RetryBase(p)) <= WLs * PerWL
          BY <2>9, WordlineSlots
        <4>3. NextWL(RetryBase(p)) = RetryBase(p) + PerWL
          BY <3>1, <4>1, WordlineFacts
        <4> QED
          BY <4>2, <4>3
      <3> HIDE DEF d
      <3> QED
        BY <1>2, <1>3, <3>1, <3>2, <3>3
    <2>11. Programming(flash, j, "user", s, d, c) /\ ~IntrRuns(j)
      <3> HIDE DEF s, d, c
      <3> QED
        BY <1>2, <2>8, <2>10, NewProgramming DEF s, d
    <2> HIDE DEF j
    <2>12. UserFault(flash, g, j)
      <3> HIDE DEF s, d
      <3>1. flash[Cur(g)][g.Affected] = c
        BY <2>4, <2>7
      <3> HIDE DEF c
      <3> QED
        BY <1>1, <2>2, <2>4, <2>6, <2>7, <2>8, <2>9, <2>11, <3>1 DEF UserFault
    <2>13. CacheFault(flash, g)
      <3>1. m.NextFreePage <= g.NextFreePage
        BY <1>2, <2>7
      <3> QED
        BY <2>5, <2>7, <3>1, LaterPage
    <2>14. FaultInv(flash, g, j)
      <3> DEFINE Y == X \cup {"Affected", "Req"}
      <3>1. Y \subseteq {"Req", "Affected", "UserJob", "NextFreePage", "UserJobFailCount",
                         "Cache", "Copied", "BlkModified", "MainJob"}
        OBVIOUS
      <3>2. Same(f, g, Y)
        BY <2>4 DEF Same
      <3> HIDE DEF Y
      <3> QED
        BY <2>5, <2>7, <2>11, <2>12, <2>13, <3>1, <3>2, FaultWriteFrame
    <2> QED
      BY <2>1, <2>14
  <1> QED
    BY <1>4, <1>5

\* What the acknowledgement of a write changes.
LEMMA FaultDoneFields ==
  ASSUME NEW f, FaultTypes(f), f.Req # NoReq, f.NextFreePage \in Slots
  PROVE  LET g == WriteDone(f)
             b == f.Req.blk
         IN /\ FaultTypes(g) /\ g.Req = NoReq /\ g.NextFreePage = f.NextFreePage + 1
            /\ g.Cache = [f.Cache EXCEPT ![b] = At(Cur(f), f.NextFreePage)]
            /\ g.MainJob = (IF f.GcState = "REQUESTED" THEN "GC" ELSE f.MainJob)
            /\ f.GcState \in {"IDLE", "ERASE"} =>
                 g.Copied = f.Copied /\ g.BlkModified = f.BlkModified
            /\ f.GcState \notin {"IDLE", "ERASE"} =>
                 g.Copied = [f.Copied EXCEPT ![b] = FALSE] /\ g.BlkModified = TRUE
            /\ Same(f, g, {"Req", "NextFreePage", "Cache", "MainJob", "Copied",
                           "BlkModified", "UserJobFailCount"})
  <1> DEFINE b == f.Req.blk
             at == At(f.CurrSector, f.NextFreePage)
             m == IF f.GcState = "REQUESTED" THEN "GC" ELSE f.MainJob
             cache == [f.Cache EXCEPT ![b] = at]
             copied == [f.Copied EXCEPT ![b] = FALSE]
             h == [f EXCEPT !.Cache = cache, !.NextFreePage = f.NextFreePage + 1,
                            !.Req = NoReq, !.UserJobFailCount = 0, !.MainJob = m]
             g == WriteDone(f)
             quiet == f.GcState \in {"IDLE", "ERASE"}
             X == {"Req", "NextFreePage", "Cache", "MainJob", "Copied", "BlkModified",
                   "UserJobFailCount"}
  <1>1. /\ f.NextFreePage + 1 \in Nat /\ b \in Blocks /\ at \in Addresses
        /\ f.CurrSector \in Sectors /\ DOMAIN f = Fields /\ f.BlkModified \in BOOLEAN
        /\ f.Cache \in [Blocks -> Addresses \cup {NoAddr}] /\ f.Copied \in [Blocks -> BOOLEAN]
    <2> HIDE DEF h, g, m, cache, copied
    <2>1. /\ f.Req \in Requests /\ f.CurrSector \in Sectors /\ f.NextFreePage \in Nat
          /\ DOMAIN f = Fields /\ f.BlkModified \in BOOLEAN
          /\ f.Cache \in [Blocks -> Addresses \cup {NoAddr}] /\ f.Copied \in [Blocks -> BOOLEAN]
      BY FieldFacts
    <2>2. b \in Blocks
      BY <2>1, RequestFacts
    <2> QED
      BY <2>1, <2>2, AddressFacts
  <1>2. g = IF quiet THEN h ELSE [h EXCEPT !.Copied = copied, !.BlkModified = TRUE]
    <2>1. [Cached(f, b) EXCEPT !.Req = NoReq, !.UserJobFailCount = 0,
              !.MainJob = IF f.GcState = "REQUESTED" THEN "GC" ELSE @] = h
      BY <1>1 DEF Cached, Fields
    <2>2. h.Copied = f.Copied
      BY <1>1 DEF Fields
    <2> HIDE DEF h
    <2> QED
      BY <2>1, <2>2 DEF WriteDone
  <1>3. cache \in [Blocks -> Addresses \cup {NoAddr}] /\ copied \in [Blocks -> BOOLEAN]
    BY <1>1
  <1>4. m \in {"INITGC", "CACHEUPDATE", "READ", "WRITE", "GC", "NONE"}
    BY FieldFacts
  <1>5. /\ DOMAIN h = Fields /\ h.Cache = cache /\ h.NextFreePage = f.NextFreePage + 1
        /\ h.Req = NoReq /\ h.MainJob = m /\ h.UserJobFailCount = 0
        /\ \A x \in Fields \ {"Req", "NextFreePage", "Cache", "MainJob", "UserJobFailCount"} :
             h[x] = f[x]
    BY <1>1 DEF Fields
  <1> HIDE DEF h, cache, copied, m, g
  <1>6. /\ DOMAIN g = Fields /\ g.Cache = cache /\ g.NextFreePage = f.NextFreePage + 1
        /\ g.Req = NoReq /\ g.MainJob = m /\ g.UserJobFailCount = 0
        /\ g.Copied = (IF quiet THEN f.Copied ELSE copied)
        /\ g.BlkModified = (IF quiet THEN f.BlkModified ELSE TRUE)
        /\ \A x \in Fields \ X : g[x] = f[x]
    <2>1. CASE quiet
      <3>1. g = h
        BY <1>2, <2>1
      <3> HIDE DEF quiet
      <3> QED
        BY <1>5, <2>1, <3>1 DEF Fields
    <2>2. CASE ~quiet
      <3>1. g = [h EXCEPT !.Copied = copied, !.BlkModified = TRUE]
        BY <1>2, <2>2
      <3>2. /\ DOMAIN g = Fields /\ g.Copied = copied /\ g.BlkModified = TRUE
            /\ \A x \in Fields \ {"Copied", "BlkModified"} : g[x] = h[x]
        BY <1>5, <3>1 DEF Fields
      <3> HIDE DEF quiet
      <3> QED
        BY <1>5, <2>2, <3>2 DEF Fields
    <2> QED
      BY <2>1, <2>2
  <1>7. FaultTypes(g)
    <2>1. /\ g["Req"] \in FieldTypes["Req"] /\ g["NextFreePage"] \in FieldTypes["NextFreePage"]
          /\ g["Cache"] \in FieldTypes["Cache"] /\ g["MainJob"] \in FieldTypes["MainJob"]
          /\ g["UserJobFailCount"] \in FieldTypes["UserJobFailCount"]
      BY <1>1, <1>3, <1>4, <1>6 DEF FieldTypes
    <2>2. FieldTypes["Copied"] = [Blocks -> BOOLEAN] /\ FieldTypes["BlkModified"] = BOOLEAN
      BY DEF FieldTypes
    <2>3. g["Copied"] \in [Blocks -> BOOLEAN] /\ g["BlkModified"] \in BOOLEAN
      BY <1>1, <1>3, <1>6
    <2>4. \A x \in X : x \in DOMAIN FieldTypes => g[x] \in FieldTypes[x]
      BY <2>1, <2>2, <2>3
    <2> HIDE DEF X
    <2> QED
      BY <1>6, <2>4, TypesKept
  <1>8. Same(f, g, X)
    BY <1>6 DEF Same
  <1> QED
    BY <1>6, <1>7, <1>8 DEF g, m, cache, copied, Cur

\* An acknowledged write keeps the invariant.
LEMMA FaultWriteDone ==
  ASSUME NEW f, FaultInv(flash, f, NoJob), Stage(f, "compare"), f.UserJob = "PASS",
         NEW h, Same(f, h, {"UserJob"}), h.UserJob = "IDLE"
  PROVE  FaultInv(flash, WriteDone(h), NoJob)
  <1> DEFINE b == f.Req.blk
             d == f.NextFreePage
             s == Cur(f)
             g == WriteDone(h)
  <1>1. /\ InOrder(flash) /\ FaultTypes(f) /\ UserFault(flash, f, NoJob) /\ MainInv(f, NoJob)
        /\ CacheFault(flash, f) /\ f.Req # NoReq
    BY DEF FaultInv, Stage
  <1>2. /\ f.MainJob = "WRITE" /\ f.CacheUpdated /\ d \in Slots /\ s \in Sectors
        /\ f.Req \in Requests /\ ~IntrRuns(NoJob)
    BY <1>1, FieldFacts DEF UserFault, IntrRuns
  <1>3. /\ flash[s][d] = BlockCopy(b, f.Req.val) /\ BlankFrom(flash[s], d + 1)
        /\ b \in Blocks /\ f.Req.val \in Values \cup {NoValue}
    <2>1. ~(f.UserJob = "IDLE")
      OBVIOUS
    <2> QED
      BY <1>1, <1>2, <2>1, RequestFacts DEF UserFault, Ended
  <1>4. flash[s][d].kind = "copy" /\ flash[s][d].blk = b
    BY <1>3, BuiltCells
  <1>5. Open(flash[s], d + 1)
    <2>1. flash[s][d] # Blank
      BY <1>4, BuiltCells
    <2> QED
      BY <1>1, <1>2, <1>3, <2>1, OpenBehind
  <1>6. f.GcState \in {"IDLE", "REQUESTED", "START_COPY", "ERASE"}
    BY <1>1, <1>2, FieldFacts DEF MainInv
  <1>7. FaultTypes(h)
    <2> DEFINE Z == {"UserJob"}
    <2>1. \A x \in Fields \ Z : h[x] = f[x]
      BY DEF Same
    <2>2. \A x \in Z : x \in DOMAIN FieldTypes => h[x] \in FieldTypes[x]
      BY DEF FieldTypes
    <2>3. DOMAIN h = Fields
      BY DEF Same
    <2> HIDE DEF Z
    <2> QED
      BY <1>1, <2>1, <2>2, <2>3, TypesKept
  <1>8. /\ h.Req = f.Req /\ h.NextFreePage = d /\ h.Cache = f.Cache /\ h.MainJob = "WRITE"
        /\ h.GcState = f.GcState /\ h.Copied = f.Copied /\ h.BlkModified = f.BlkModified
        /\ h.CurrSector = f.CurrSector /\ Cur(h) = s /\ h.CacheUpdated
        /\ h.GcDest = f.GcDest /\ h.GcCopyIndex = f.GcCopyIndex /\ h.GcSrcAddr = f.GcSrcAddr
    BY <1>2 DEF Same, Fields, Cur
  <1>9. /\ FaultTypes(g) /\ g.Req = NoReq /\ g.NextFreePage = d + 1
        /\ g.Cache = [f.Cache EXCEPT ![b] = At(s, d)]
        /\ g.MainJob = (IF f.GcState = "REQUESTED" THEN "GC" ELSE "WRITE")
        /\ f.GcState \in {"IDLE", "ERASE"} =>
             g.Copied = f.Copied /\ g.BlkModified = f.BlkModified
        /\ f.GcState \notin {"IDLE", "ERASE"} =>
             g.Copied = [f.Copied EXCEPT ![b] = FALSE] /\ g.BlkModified = TRUE
        /\ Same(h, g, {"Req", "NextFreePage", "Cache", "MainJob", "Copied",
                       "BlkModified", "UserJobFailCount"})
    <2>1. h.Req # NoReq /\ h.NextFreePage \in Slots
      BY <1>1, <1>2, <1>8
    <2>2. /\ FaultTypes(g) /\ g.Req = NoReq /\ g.NextFreePage = h.NextFreePage + 1
          /\ g.Cache = [h.Cache EXCEPT ![h.Req.blk] = At(Cur(h), h.NextFreePage)]
          /\ g.MainJob = (IF h.GcState = "REQUESTED" THEN "GC" ELSE h.MainJob)
          /\ h.GcState \in {"IDLE", "ERASE"} =>
               g.Copied = h.Copied /\ g.BlkModified = h.BlkModified
          /\ h.GcState \notin {"IDLE", "ERASE"} =>
               g.Copied = [h.Copied EXCEPT ![h.Req.blk] = FALSE] /\ g.BlkModified = TRUE
          /\ Same(h, g, {"Req", "NextFreePage", "Cache", "MainJob", "Copied",
                         "BlkModified", "UserJobFailCount"})
      BY <1>7, <2>1, FaultDoneFields
    <2> HIDE DEF g, d, s
    <2> QED
      BY <1>8, <2>2
  <1> HIDE DEF g
  <1>10. /\ g.CacheUpdated /\ g.GcState = f.GcState /\ g.CurrSector = f.CurrSector /\ Cur(g) = s
         /\ g.GcDest = f.GcDest /\ g.GcCopyIndex = f.GcCopyIndex /\ g.GcSrcAddr = f.GcSrcAddr
         /\ g.UserJob = "IDLE" /\ \A st : ~Stage(g, st)
    BY <1>8, <1>9 DEF Same, Fields, Cur, Stage
  <1>11. UserFault(flash, g, NoJob)
    BY <1>5, <1>9, <1>10 DEF UserFault, UserWrites
  <1>12. CacheFault(flash, g)
    <2>1. \/ /\ g.Copied = f.Copied /\ g.BlkModified = f.BlkModified
             /\ f.GcState \notin Copying
          \/ g.Copied = [f.Copied EXCEPT ![b] = FALSE] /\ g.BlkModified = TRUE
      BY <1>6, <1>9 DEF Copying
    <2> HIDE DEF b, d, s
    <2> QED
      BY <1>1, <1>2, <1>3, <1>4, <1>6, <1>9, <1>10, <2>1, CacheLed DEF d, s
  <1>13. FaultInv(flash, g, NoJob)
    <2> DEFINE X == {"UserJob", "Req", "NextFreePage", "Cache", "MainJob", "Copied",
                     "BlkModified", "UserJobFailCount"}
    <2>1. Same(f, g, X)
      BY <1>9 DEF Same
    <2>2. X \subseteq {"Req", "Affected", "UserJob", "NextFreePage", "UserJobFailCount",
                       "Cache", "Copied", "BlkModified", "MainJob"}
      OBVIOUS
    <2>3. g.MainJob = "WRITE" \/ (g.MainJob = "GC" /\ f.GcState = "REQUESTED")
      BY <1>9
    <2> HIDE DEF X
    <2> QED
      BY <1>2, <1>9, <1>11, <1>12, <2>1, <2>2, <2>3, FaultWriteFrame
  <1> QED
    BY <1>13 DEF g

\* A copy that failed: the driver skips to the next wordline but one.
LEMMA FaultWriteFailed ==
  ASSUME NEW f, FaultInv(flash, f, NoJob), Stage(f, "compare"), f.UserJob # "PASS", job = NoJob,
         NEW h, Same(f, h, {"UserJob"}), h.UserJob = "IDLE", WriteCompare(h, FALSE)
  PROVE  FaultInv(flash, fee', job')
  <1> DEFINE d == f.NextFreePage
             s == Cur(f)
             moved == [h EXCEPT !.NextFreePage = NextWL(d) + PerWL]
  <1>1. /\ InOrder(flash) /\ FaultTypes(f) /\ UserFault(flash, f, NoJob) /\ MainInv(f, NoJob)
        /\ CacheFault(flash, f) /\ f.Req # NoReq
    BY DEF FaultInv, Stage
  <1>2. /\ f.MainJob = "WRITE" /\ f.CacheUpdated /\ d \in Slots /\ s \in Sectors
        /\ IsWLBeginning(d) \/ RetryBase(d) \in Slots
        /\ f.Req \in Requests /\ ~IntrRuns(NoJob) /\ d \in Nat
        /\ f.Cache \in [Blocks -> Addresses \cup {NoAddr}]
    BY <1>1, FieldFacts DEF UserFault, IntrRuns
  <1>3. BlankFrom(flash[s], d + 1)
    <2>1. \A c : ~Programming(flash, NoJob, "user", s, d, c)
      BY DEF Programming, Programs, IsJob
    <2> QED
      BY <1>1, <2>1 DEF UserFault, Ended
  <1>4. /\ NextWL(d) + PerWL \in Nat /\ d < NextWL(d) + PerWL
        /\ RetryBase(d) = NextWL(d) + PerWL /\ Open(flash[s], NextWL(d) + PerWL)
    <2>1. OpenWL(flash[s], RetryBase(d)) /\ RetryBase(d) \in Nat /\ d < RetryBase(d)
          /\ RetryBase(d) = NextWL(d) + PerWL
      BY <1>2, <1>3, OpenAfter
    <2> QED
      BY <2>1, OpenWordline
  <1>5. /\ DOMAIN h = Fields /\ h.NextFreePage = d /\ h.Req = f.Req
        /\ \A x \in Fields \ {"UserJob"} : h[x] = f[x]
    BY DEF Same, Fields
  <1>6. DOMAIN moved = Fields /\ moved.NextFreePage = NextWL(d) + PerWL
        /\ \A x \in Fields \ {"NextFreePage"} : moved[x] = h[x]
    BY <1>5 DEF Fields
  <1>7. /\ h.UserJobFailCount = 0 =>
             RecopyFrom([moved EXCEPT !.UserJobFailCount = 1], d, WLBeginning(d))
        /\ h.UserJobFailCount # 0 =>
             Continue([moved EXCEPT !.Req = NoReq, !.UserJobFailCount = 0])
    BY <1>5 DEF WriteCompare
  <1> HIDE DEF moved
  <1>8. CASE h.UserJobFailCount = 0
    <2> DEFINE m == [moved EXCEPT !.UserJobFailCount = 1]
               X == {"UserJob", "NextFreePage", "UserJobFailCount"}
    <2>1. RecopyFrom(m, d, WLBeginning(d))
      BY <1>7, <1>8
    <2>2. /\ DOMAIN m = Fields /\ m.NextFreePage = NextWL(d) + PerWL /\ m.UserJobFailCount = 1
          /\ m.UserJob = "IDLE" /\ \A x \in Fields \ X : m[x] = f[x]
      BY <1>5, <1>6 DEF Fields
    <2> HIDE DEF m
    <2>3. FaultTypes(m)
      <3>1. \A x \in X : x \in DOMAIN FieldTypes => m[x] \in FieldTypes[x]
        BY <1>4, <2>2 DEF FieldTypes
      <3> HIDE DEF X
      <3> QED
        BY <1>1, <2>2, <3>1, TypesKept
    <2>4. /\ m.CacheUpdated = f.CacheUpdated /\ m.Cache = f.Cache /\ m.Copied = f.Copied
          /\ m.GcState = f.GcState /\ m.BlkModified = f.BlkModified
          /\ m.GcCopyIndex = f.GcCopyIndex /\ m.CurrSector = f.CurrSector
          /\ m.GcDest = f.GcDest /\ m.GcSrcAddr = f.GcSrcAddr /\ Cur(m) = s
      BY <2>2 DEF Fields, Cur
    <2>5. CacheFault(flash, m)
      <3>1. f.NextFreePage <= m.NextFreePage
        BY <1>2, <1>4, <2>2
      <3> QED
        BY <1>1, <2>3, <2>4, <3>1, LaterPage
    <2>6. LatestIn(m, d, WLBeginning(d)) # {} => ~IsWLBeginning(d)
      <3> SUFFICES ASSUME LatestIn(m, d, WLBeginning(d)) # {}, IsWLBeginning(d) PROVE FALSE
        OBVIOUS
      <3>0. WLBeginning(d) = d
        BY <1>2, WordlineFacts
      <3>1. PICK p \in d .. NextWL(d) - 1 : \E b \in Blocks : f.Cache[b] = At(s, p)
        BY <2>4, <3>0 DEF LatestIn, Cur
      <3>2. p >= d /\ p \in Slots /\ p \in Nat
        <4>1. NextWL(d) <= WLs * PerWL /\ NextWL(d) \in Nat
          BY <1>2, WordlineSlots, WordlineFacts
        <4> QED
          BY <1>2, <3>1, <4>1, SlotFacts
      <3>3. At(s, p) # NoAddr /\ At(s, p).sector = s /\ At(s, p).slot = p
        BY <1>2, <3>2, AddressFacts
      <3>4. p < d
        BY <1>1, <1>2, <3>1, <3>3 DEF CacheFault
      <3> QED
        BY <1>2, <3>2, <3>4
    <2>7. LatestIn(m, d, WLBeginning(d)) # {} =>
            /\ RetryBase(d) \in Slots /\ m.NextFreePage >= RetryBase(d)
            /\ m.NextFreePage - RetryBase(d) <= WLBeginning(d) - WLBeginning(d)
      <3>1. WLBeginning(d) \in Nat
        BY <1>2, WordlineFacts
      <3> QED
        BY <1>2, <1>4, <2>2, <2>6, <3>1
    <2>8. Open(flash[Cur(m)], m.NextFreePage)
      BY <1>4, <2>2, <2>4
    <2>9. Same(f, m, X) /\ X \subseteq {"Affected", "UserJob", "NextFreePage",
                                        "UserJobFailCount", "Cache"}
      BY <2>2 DEF Same
    <2>10. WLBeginning(d) \in Nat /\ WLBeginning(d) <= WLBeginning(d)
      BY <1>2, WordlineFacts
    <2> HIDE DEF X, d
    <2> QED
      BY <1>2, <2>1, <2>2, <2>3, <2>5, <2>7, <2>8, <2>9, <2>10, FaultRecopyFrom
  <1>9. CASE h.UserJobFailCount # 0
    <2> DEFINE g == [moved EXCEPT !.Req = NoReq, !.UserJobFailCount = 0]
               X == {"UserJob", "NextFreePage", "UserJobFailCount", "Req"}
    <2>1. fee' = g /\ job' = NoJob
      BY <1>7, <1>9 DEF Continue
    <2>2. /\ DOMAIN g = Fields /\ g.NextFreePage = NextWL(d) + PerWL /\ g.UserJobFailCount = 0
          /\ g.Req = NoReq /\ g.UserJob = "IDLE" /\ \A x \in Fields \ X : g[x] = f[x]
      BY <1>5, <1>6 DEF Fields
    <2> HIDE DEF g
    <2>3. FaultTypes(g)
      <3>1. \A x \in X : x \in DOMAIN FieldTypes => g[x] \in FieldTypes[x]
        BY <1>4, <2>2 DEF FieldTypes
      <3> HIDE DEF X
      <3> QED
        BY <1>1, <2>2, <3>1, TypesKept
    <2>4. Cur(g) = s /\ \A st : ~Stage(g, st)
      BY <2>2 DEF Fields, Cur, Stage
    <2>5. UserFault(flash, g, NoJob)
      BY <1>4, <2>2, <2>4 DEF UserFault, UserWrites
    <2>6. Same(f, g, X) /\ X \subseteq {"Req", "Affected", "UserJob", "NextFreePage", "UserJobFailCount"}
      BY <2>2 DEF Same
    <2>7. f.NextFreePage <= g.NextFreePage
      BY <1>2, <1>4, <2>2
    <2> HIDE DEF X
    <2>8. FaultInv(flash, g, NoJob)
      BY <1>2, <2>3, <2>5, <2>6, <2>7, FaultRequestFrame
    <2> QED
      BY <2>1, <2>8
  <1> QED
    BY <1>8, <1>9, <1>1, FieldFacts

\* A copy that was written again: the cache is led to it and the next one
\* follows; after a failure the driver stays where it is.
LEMMA FaultRecopied ==
  ASSUME NEW f, FaultInv(flash, f, NoJob), Stage(f, "recopy"), job = NoJob,
         NEW h, Same(f, h, {"UserJob"}), h.UserJob = "IDLE",
         RecopyCompare(h, f.UserJob = "PASS")
  PROVE  FaultInv(flash, fee', job')
  <1> DEFINE d == f.NextFreePage
             s == Cur(f)
             a == f.Affected
             c == flash[s][a]
  <1>1. /\ InOrder(flash) /\ FaultTypes(f) /\ UserFault(flash, f, NoJob) /\ MainInv(f, NoJob)
        /\ CacheFault(flash, f) /\ f.Req # NoReq
    BY DEF FaultInv, Stage
  <1>2. /\ f.MainJob = "WRITE" /\ f.CacheUpdated /\ s \in Sectors
        /\ f.Req \in Requests /\ ~IntrRuns(NoJob) /\ d \in Nat
        /\ f.Cache \in [Blocks -> Addresses \cup {NoAddr}]
        /\ a \in Slots /\ RetryBase(a) \in Slots
        /\ d >= RetryBase(a) /\ d - RetryBase(a) <= a - WLBeginning(a)
        /\ c.kind = "copy" /\ f.Cache[c.blk] = At(s, a)
    BY <1>1, FieldFacts DEF UserFault, IntrRuns
  <1>3. Ended(flash, f.UserJob, s, d, c)
    <2>1. \A x : ~Programming(flash, NoJob, "user", s, d, x)
      BY DEF Programming, Programs, IsJob
    <2> QED
      BY <1>1, <2>1 DEF UserFault
  <1>4. d \in Slots /\ BlankFrom(flash[s], d + 1) /\ c \in Cells
    BY <1>1, <1>2, <1>3, OrderFacts DEF Ended
  <1>5. /\ h.NextFreePage = d /\ h.Req = f.Req /\ h.Affected = a /\ h.CurrSector = s
        /\ h.Cache = f.Cache /\ DOMAIN h = Fields
        /\ \A x \in Fields \ {"UserJob"} : h[x] = f[x]
    BY DEF Same, Fields, Cur
  <1>6. CASE f.UserJob = "PASS"
    <2> DEFINE b == c.blk
               m == Cached(h, b)
               X == {"UserJob", "NextFreePage", "Cache"}
    <2>1. RecopyFrom(m, a, a + 1)
      BY <1>5, <1>6 DEF RecopyCompare
    <2>2. b \in Blocks /\ flash[s][d] = c
      BY <1>2, <1>3, <1>4, <1>6, CellFacts DEF Ended
    <2>3. /\ DOMAIN m = Fields /\ m.NextFreePage = d + 1 /\ m.UserJob = "IDLE"
          /\ m.Cache = [f.Cache EXCEPT ![b] = At(s, d)] /\ \A x \in Fields \ X : m[x] = f[x]
      BY <1>5 DEF Cached, Fields
    <2> HIDE DEF m
    <2>4. m.Cache \in [Blocks -> Addresses \cup {NoAddr}]
      <3>1. At(s, d) \in Addresses
        BY <1>2, <1>4, AddressFacts
      <3> HIDE DEF b, s, d
      <3> QED
        BY <1>2, <2>3, <3>1
    <2>5. FaultTypes(m)
      <3>1. \A x \in X : x \in DOMAIN FieldTypes => m[x] \in FieldTypes[x]
        BY <1>2, <2>3, <2>4 DEF FieldTypes
      <3> HIDE DEF X
      <3> QED
        BY <1>1, <2>3, <3>1, TypesKept
    <2>6. /\ m.CacheUpdated = f.CacheUpdated /\ m.Copied = f.Copied
          /\ m.GcState = f.GcState /\ m.BlkModified = f.BlkModified
          /\ m.GcCopyIndex = f.GcCopyIndex /\ m.CurrSector = f.CurrSector
          /\ m.GcDest = f.GcDest /\ m.GcSrcAddr = f.GcSrcAddr /\ Cur(m) = s
      BY <2>3 DEF Fields, Cur
    <2>7. CacheFault(flash, m)
      <3>1. f.GcState \in {"IDLE", "REQUESTED", "START_COPY", "ERASE"}
        BY <1>1, <1>2, FieldFacts DEF MainInv
      <3>2. f.Cache[b] # NoAddr /\ f.Cache[b].sector = Cur(f)
        BY <1>2, AddressFacts
      <3>3. flash[Cur(f)][f.NextFreePage].kind = "copy" /\ flash[Cur(f)][f.NextFreePage].blk = b
        BY <1>2, <2>2
      <3>4. m.NextFreePage = f.NextFreePage + 1
            /\ m.Cache = [f.Cache EXCEPT ![b] = At(Cur(f), f.NextFreePage)]
            /\ f.NextFreePage \in Slots /\ m.CacheUpdated
        BY <1>2, <1>4, <2>3, <2>6
      <3> HIDE DEF b, c, d, s
      <3> QED
        BY <1>1, <1>2, <2>2, <2>5, <2>6, <3>1, <3>2, <3>3, <3>4, CacheLed
    <2>8. Open(flash[Cur(m)], m.NextFreePage)
      <3>1. flash[s][d] # Blank
        BY <1>2, <1>4, <2>2, CellFacts
      <3>2. Open(flash[s], d + 1)
        BY <1>1, <1>2, <1>4, <3>1, OpenBehind
      <3> QED
        BY <2>3, <2>6, <3>2
    <2>9. /\ a + 1 \in Nat /\ WLBeginning(a) <= a + 1 /\ m.NextFreePage >= RetryBase(a)
          /\ m.NextFreePage - RetryBase(a) <= (a + 1) - WLBeginning(a)
      <3>1. a \in Nat /\ RetryBase(a) \in Nat
        BY <1>2, SlotFacts
      <3>2. WLBeginning(a) \in Nat /\ WLBeginning(a) <= a
        BY <3>1, WordlineFacts
      <3> HIDE DEF a, d
      <3> QED
        BY <1>2, <2>3, <3>1, <3>2
    <2>10. Same(f, m, X) /\ X \subseteq {"Affected", "UserJob", "NextFreePage",
                                         "UserJobFailCount", "Cache"}
      BY <2>3 DEF Same
    <2> DEFINE n == a + 1
    <2>11. RecopyFrom(m, a, n) /\ n \in Nat /\ WLBeginning(a) <= n
      BY <2>1, <2>9
    <2>12. LatestIn(m, a, n) # {} =>
             /\ RetryBase(a) \in Slots /\ m.NextFreePage >= RetryBase(a)
             /\ m.NextFreePage - RetryBase(a) <= n - WLBeginning(a)
      BY <1>2, <2>9
    <2>13. a \in Slots
      BY <1>2
    <2> HIDE DEF X, n, a, d, s, c, b
    <2> QED
      BY <1>2, <2>3, <2>5, <2>7, <2>8, <2>10, <2>11, <2>12, <2>13, FaultRecopyFrom
  <1>7. CASE f.UserJob # "PASS"
    <2> DEFINE r == [h.Req EXCEPT !.stage = "fail"]
               g == [h EXCEPT !.Req = r]
               X == {"UserJob", "Req"}
    <2>1. fee' = g /\ job' = NoJob
      BY <1>7 DEF RecopyCompare, Continue
    <2>2. r \in Requests /\ r.stage = "fail" /\ r # NoReq
      <3>1. h.Req \in Requests
        BY <1>2, <1>5
      <3> QED
        BY <3>1, RequestFacts
    <2> HIDE DEF r
    <2>3. DOMAIN g = Fields /\ g.Req = r /\ g.UserJob = "IDLE" /\ \A x \in Fields \ X : g[x] = f[x]
      BY <1>5 DEF Fields
    <2> HIDE DEF g
    <2>4. FaultTypes(g)
      <3>1. \A x \in X : x \in DOMAIN FieldTypes => g[x] \in FieldTypes[x]
        BY <2>2, <2>3 DEF FieldTypes
      <3> HIDE DEF X
      <3> QED
        BY <1>1, <2>3, <3>1, TypesKept
    <2>5. /\ ~UserWrites(g) /\ ~Stage(g, "reading") /\ Stage(g, "fail") /\ ~Stage(g, "stuck")
          /\ ~Stage(g, "compare") /\ ~Stage(g, "recopy")
      BY <2>2, <2>3 DEF UserWrites, Stage
    <2>6. g.MainJob = "WRITE" /\ g.NextFreePage = d
      BY <1>2, <2>3 DEF Fields
    <2>7. UserFault(flash, g, NoJob)
      BY <2>3, <2>5, <2>6 DEF UserFault
    <2>8. Same(f, g, X) /\ X \subseteq {"Req", "Affected", "UserJob", "NextFreePage", "UserJobFailCount"}
      BY <2>3 DEF Same
    <2>9. f.NextFreePage <= g.NextFreePage
      BY <1>2, <2>6
    <2> HIDE DEF X
    <2>10. FaultInv(flash, g, NoJob)
      BY <1>2, <2>4, <2>7, <2>8, <2>9, FaultRequestFrame
    <2> QED
      BY <2>1, <2>10
  <1> QED
    BY <1>6, <1>7

\* The steps of a write or of an invalidation keep the invariant.
LEMMA FaultLocalWrite ==
  ASSUME NEW f, FaultInv(flash, f, NoJob), f.Req # NoReq, job = NoJob, LocalWrite(f)
  PROVE  FaultInv(flash, fee', job')
  <1> DEFINE h == [f EXCEPT !.UserJob = "IDLE"]
             passed == f.UserJob = "PASS"
  <1>1. /\ FaultTypes(f) /\ MainInv(f, NoJob) /\ UserFault(flash, f, NoJob)
        /\ f.MainJob = "WRITE" /\ f.CacheUpdated /\ DOMAIN f = Fields /\ ~IntrRuns(NoJob)
    BY FieldFacts DEF FaultInv, MainInv, LocalWrite, IntrRuns
  <1>2. /\ f.Req.stage = "request" => WriteCopy(h)
        /\ f.Req.stage = "compare" => WriteCompare(h, passed)
        /\ f.Req.stage = "recopy" => RecopyCompare(h, passed)
        /\ f.Req.stage \notin {"request", "compare", "recopy"} => Continue(h)
    BY DEF LocalWrite
  <1>3. Same(f, h, {"UserJob"}) /\ h.UserJob = "IDLE"
    BY <1>1 DEF Same, Fields
  <1> HIDE DEF h
  <1>4. CASE f.Req.stage = "compare"
    <2>1. Stage(f, "compare")
      BY <1>4 DEF Stage
    <2>2. CASE passed
      <3>1. Continue(WriteDone(h))
        BY <1>2, <1>4, <2>2 DEF WriteCompare
      <3>2. FaultInv(flash, WriteDone(h), NoJob)
        BY <1>3, <2>1, <2>2, FaultWriteDone
      <3> QED
        BY <3>1, <3>2 DEF Continue
    <2>3. CASE ~passed
      <3>1. WriteCompare(h, FALSE)
        <4>1. passed = FALSE
          BY <2>3
        <4> HIDE DEF passed
        <4> QED
          BY <1>2, <1>4, <4>1
      <3> QED
        BY <1>3, <2>1, <2>3, <3>1, FaultWriteFailed
    <2> QED
      BY <2>2, <2>3
  <1>5. CASE f.Req.stage = "recopy"
    <2>1. Stage(f, "recopy")
      BY <1>5 DEF Stage
    <2> QED
      BY <1>2, <1>3, <1>5, <2>1, FaultRecopied
  <1>6. CASE f.Req.stage \notin {"compare", "recopy"}
    <2>1. ~UserWrites(f) /\ f.UserJob = "IDLE"
      BY <1>1, <1>6 DEF UserWrites, Stage, UserFault
    <2>2. FaultInv(flash, h, NoJob)
      <3>1. /\ \A x \in Fields : h[x] = f[x]
            /\ \A st : Stage(h, st) <=> Stage(f, st)
        BY <1>3, <2>1 DEF Same, Fields, Stage
      <3>2. Same(f, h, {"Req"})
        BY <1>3, <3>1 DEF Same
      <3>3. FaultTypes(h)
        <4>1. h.Req \in Requests \cup {NoReq}
          BY <1>1, <3>1, FieldFacts DEF Fields
        <4> QED
          BY <1>1, <3>2, <4>1, RequestTypes
      <3>4. UserFault(flash, h, NoJob)
        BY <1>1, <3>1 DEF UserFault, UserWrites, Fields, Cur
      <3>5. f.NextFreePage <= h.NextFreePage
        BY <1>1, <3>1, FieldFacts DEF Fields
      <3> QED
        BY <1>1, <3>2, <3>3, <3>4, <3>5, FaultRequestFrame
    <2>3. CASE f.Req.stage = "request"
      <3>1. Stage(h, "request") /\ h.MainJob = "WRITE" /\ h.CacheUpdated
        BY <1>1, <1>3, <2>3 DEF Same, Fields, Stage
      <3> QED
        BY <1>2, <2>2, <2>3, <3>1, FaultWriteCopy
    <2>4. CASE f.Req.stage # "request"
      <3>1. Continue(h)
        BY <1>2, <1>6, <2>4
      <3> QED
        BY <2>2, <3>1 DEF Continue
    <2> QED
      BY <2>3, <2>4
  <1> QED
    BY <1>4, <1>5, <1>6

-----------------------------------------------------------------------------
(* The garbage collection.                                                  *)

\* What a step of the collection starts from: nothing runs.
LEMMA FaultGcFacts ==
  ASSUME NEW f, FaultInv(flash, f, NoJob), f.MainJob = "GC"
  PROVE  /\ InOrder(flash) /\ FaultTypes(f) /\ DOMAIN f = Fields
         /\ GcFault(flash, f, NoJob) /\ CacheFault(flash, f)
         /\ f.CacheUpdated /\ f.InitGCState = "COMPLETE" /\ f.StateCount > 0
         /\ ~UserWrites(f) /\ ~Stage(f, "fail") /\ ~Stage(f, "reading") /\ f.UserJob = "IDLE"
         /\ Stage(f, "stuck") => f.GcState = "FAIL"
         /\ Open(flash[Cur(f)], f.NextFreePage) /\ f.NextFreePage \in Nat
         /\ Cur(f) \in Sectors /\ Oth(f) \in Sectors /\ Oth(f) # Cur(f)
         /\ Oth(f) = Other(f.CurrSector) /\ Cur(f) = f.CurrSector /\ ~IntrRuns(NoJob)
  <1>1. /\ InOrder(flash) /\ FaultTypes(f) /\ GcFault(flash, f, NoJob) /\ CacheFault(flash, f)
        /\ UserFault(flash, f, NoJob) /\ MainInv(f, NoJob) /\ StartFault(flash, f, NoJob)
        /\ ~IntrRuns(NoJob)
    BY DEF FaultInv, IntrRuns
  <1>2. f.CacheUpdated /\ f.InitGCState = "COMPLETE" /\ f.StateCount > 0
    BY <1>1 DEF MainInv, StartFault
  <1>3. ~UserWrites(f) /\ ~Stage(f, "fail") /\ ~Stage(f, "reading")
    BY <1>1, StagesMain DEF Answering
  <1>4. /\ f.UserJob = "IDLE" /\ Open(flash[Cur(f)], f.NextFreePage)
        /\ Stage(f, "stuck") => f.GcState = "FAIL"
    BY <1>1, <1>2, <1>3 DEF UserFault
  <1> QED
    BY <1>1, <1>2, <1>3, <1>4, FieldFacts DEF Oth, Cur

\* What a step of the collection has to show.
LEMMA FaultGcStep ==
  ASSUME NEW f, FaultInv(flash, f, NoJob), f.MainJob = "GC",
         NEW g, FaultTypes(g), NEW j,
         g.MainJob = "GC", g.CacheUpdated, g.InitGCState = "COMPLETE", g.StateCount > 0,
         g.UserJob = f.UserJob,
         g.Req = f.Req \/ g.Req = NoReq \/ Stage(g, "stuck"),
         Stage(g, "stuck") => g.GcState = "FAIL",
         Open(flash[Cur(g)], g.NextFreePage),
         j = NoJob \/ (IntrRuns(j) /\ g.IntrJob = "IDLE"),
         GcFault(flash, g, j), CacheFault(flash, g)
  PROVE  FaultInv(flash, g, j)
  <1>1. /\ InOrder(flash) /\ ~UserWrites(f) /\ ~Stage(f, "fail") /\ ~Stage(f, "reading")
        /\ f.UserJob = "IDLE"
    BY FaultGcFacts
  <1>2. ~UserWrites(g) /\ ~Stage(g, "fail") /\ ~Stage(g, "reading")
        /\ ~Stage(g, "compare") /\ ~Stage(g, "recopy")
    BY <1>1 DEF Stage, UserWrites
  <1>3. UserFault(flash, g, j)
    BY <1>1, <1>2 DEF UserFault
  <1>4. MainInv(g, j)
    BY <1>1 DEF MainInv, IntrRuns
  <1>5. PrepFault(flash, g, j) /\ RepairFault(flash, g, j) /\ StartFault(flash, g, j)
    BY StartedFault
  <1> QED
    BY <1>1, <1>3, <1>4, <1>5 DEF FaultInv

\* What only the collection's own fields change.
GcFields ==
  {"GcState", "GcInit", "GcDest", "GcCopyIndex", "GcBlock", "GcPrevBlock", "GcFirstBlkInWL",
   "GcSrcAddr", "BlkModified", "Copied", "Cache", "IntrJob", "IntrJobFailCount", "StateCount"}

\* What a step that changes no other field has to show.
LEMMA FaultGcFields ==
  ASSUME NEW f, FaultInv(flash, f, NoJob), f.MainJob = "GC",
         NEW g, FaultTypes(g), NEW X, Same(f, g, X), X \subseteq GcFields, NEW j,
         g.StateCount > 0, f.GcState = "FAIL" => g.GcState = "FAIL",
         j = NoJob \/ (IntrRuns(j) /\ g.IntrJob = "IDLE"),
         GcFault(flash, g, j), CacheFault(flash, g)
  PROVE  FaultInv(flash, g, j)
  <1>1. \A x \in Fields \ GcFields : g[x] = f[x]
    BY DEF Same
  <1>2. /\ g.MainJob = f.MainJob /\ g.CacheUpdated = f.CacheUpdated /\ g.Req = f.Req
        /\ g.InitGCState = f.InitGCState /\ g.UserJob = f.UserJob
        /\ g.NextFreePage = f.NextFreePage /\ g.CurrSector = f.CurrSector
    BY <1>1 DEF Fields, GcFields
  <1>3. Cur(g) = Cur(f) /\ (Stage(g, "stuck") => Stage(f, "stuck"))
    BY <1>2 DEF Cur, Stage
  <1>4. /\ f.CacheUpdated /\ f.InitGCState = "COMPLETE" /\ Open(flash[Cur(f)], f.NextFreePage)
        /\ Stage(f, "stuck") => f.GcState = "FAIL"
    BY FaultGcFacts
  <1> QED
    BY <1>2, <1>3, <1>4, FaultGcStep

\* The collection gives up.
LEMMA FaultGcFail ==
  ASSUME NEW f, FaultInv(flash, f, NoJob), f.MainJob = "GC",
         NEW g, FaultTypes(g), NEW X, Same(f, g, X), X \subseteq GcFields \ {"Cache", "Copied"},
         g.StateCount > 0, g.GcState = "FAIL", g.IntrJob = "IDLE"
  PROVE  FaultInv(flash, g, NoJob)
  <1>1. CacheFault(flash, f) /\ ~IntrRuns(NoJob) /\ f.CacheUpdated
    BY FaultGcFacts
  <1>2. \A x \in Fields \ (GcFields \ {"Cache", "Copied"}) : g[x] = f[x]
    BY DEF Same
  <1>3. /\ g.Cache = f.Cache /\ g.NextFreePage = f.NextFreePage /\ g.CurrSector = f.CurrSector
        /\ g.CacheUpdated
    BY <1>1, <1>2 DEF Fields, GcFields
  <1>4. Cur(g) = Cur(f) /\ Oth(g) = Oth(f)
    BY <1>3 DEF Cur, Oth
  <1>5. GcFault(flash, g, NoJob)
    BY <1>1 DEF GcFault, Quiet, Busy
  <1>6. CacheFault(flash, g)
    BY <1>1, <1>3, <1>4 DEF CacheFault, Copying
  <1>7. X \subseteq GcFields
    OBVIOUS
  <1> QED
    BY <1>5, <1>6, <1>7, FaultGcFields

\* The next state page of the other sector is handed to the flash driver.
LEMMA FaultGcStatePage ==
  ASSUME NEW f, FaultInv(flash, f, NoJob), f.MainJob = "GC", job = NoJob,
         f.GcState \in {"V_SP", "E_SP"}, f.IntrJob = "IDLE", GcStatePage(f)
  PROVE  FaultInv(flash, fee', job')
  <1> DEFINE s == Oth(f)
             d == f.GcDest
  <1>1. /\ InOrder(flash) /\ FaultTypes(f) /\ DOMAIN f = Fields /\ GcFault(flash, f, NoJob)
        /\ CacheFault(flash, f) /\ f.StateCount > 0 /\ f.InitGCState = "COMPLETE"
        /\ s \in Sectors /\ s = Other(f.CurrSector) /\ ~IntrRuns(NoJob) /\ d \in Nat
    BY FaultGcFacts, FieldFacts
  <1>2. OpenWL(flash[s], d)
    <2>1. ~PageRuns(flash, NoJob, s, d) /\ ~PageEnded(flash, f.IntrJob, s, d)
      BY DEF PageRuns, IsJob, PageEnded
    <2> QED
      BY <1>1, <2>1 DEF GcFault
  <1>3. CASE Free(d) < PerWL
    <2> DEFINE g == GcFail(f)
    <2>1. fee' = g /\ job' = NoJob
      BY <1>3 DEF GcStatePage, Continue
    <2>2. Same(f, g, {"GcState"}) /\ g.GcState = "FAIL" /\ g.IntrJob = "IDLE"
          /\ g.StateCount = f.StateCount
      BY <1>1 DEF Same, Fields, GcFail
    <2> HIDE DEF g
    <2>3. FaultTypes(g)
      <3> DEFINE X == {"GcState"}
      <3>1. \A x \in X : x \in DOMAIN FieldTypes => g[x] \in FieldTypes[x]
        BY <2>2 DEF FieldTypes
      <3>2. DOMAIN g = Fields /\ \A x \in Fields \ X : g[x] = f[x]
        BY <2>2 DEF Same
      <3> HIDE DEF X
      <3> QED
        BY <1>1, <3>1, <3>2, TypesKept
    <2>4. {"GcState"} \subseteq GcFields \ {"Cache", "Copied"}
      BY DEF GcFields
    <2> QED
      BY <1>1, <2>1, <2>2, <2>3, <2>4, FaultGcFail
  <1>4. CASE ~(Free(d) < PerWL)
    <2> DEFINE st == IF f.GcState = "V_SP" THEN "VALID" ELSE "ERASED"
               g == [f EXCEPT !.StateCount = NextCount(f)]
               c == StatePage(st, NextCount(f), "none")
               j == ProgramCell(s, d, c, "intr")
    <2>1. fee' = g /\ job' = j
      BY <1>1, <1>4 DEF GcStatePage, Start
    <2>2. d \in Slots
      <3>1. Free(d) \in Nat /\ PerWL \in Nat
        BY <1>1, FreeFacts, WordlineSize
      <3>2. Free(d) >= PerWL
        BY <1>4, <3>1
      <3> QED
        BY <1>1, <3>2, FreeFacts
    <2>3. IsPage(c, "none") /\ NextCount(f) \in Nat /\ NextCount(f) > 0
      <3>1. st \in {"VALID", "ERASED"}
        OBVIOUS
      <3> HIDE DEF st
      <3> QED
        BY <1>1, <3>1, NewPage
    <2>4. Same(f, g, {"StateCount"}) /\ g.StateCount = NextCount(f)
      BY <1>1 DEF Same, Fields
    <2> HIDE DEF g, c, st
    <2>5. /\ j.op = "program" /\ j.owner = "intr" /\ j.sector = s /\ j.addr = d /\ j.cell = c
      BY DEF ProgramCell
    <2>6. j # NoJob
      <3>1. j \in Jobs
        BY <1>1, <2>2, <2>3 DEF Jobs, ProgramCell, IsPage, Cells
      <3> QED
        BY <3>1, FeeNulls
    <2> HIDE DEF j
    <2>7. IntrRuns(j) /\ PageRuns(flash, j, s, d)
      BY <1>2, <2>2, <2>3, <2>5, <2>6 DEF IntrRuns, PageRuns, IsJob
    <2>8. FaultTypes(g)
      <3> DEFINE X == {"StateCount"}
      <3>1. \A x \in X : x \in DOMAIN FieldTypes => g[x] \in FieldTypes[x]
        BY <2>3, <2>4 DEF FieldTypes
      <3>2. DOMAIN g = Fields /\ \A x \in Fields \ X : g[x] = f[x]
        BY <2>4 DEF Same
      <3> HIDE DEF X
      <3> QED
        BY <1>1, <3>1, <3>2, TypesKept
    <2>9. /\ g.GcState = f.GcState /\ g.IntrJob = "IDLE" /\ g.GcDest = d
          /\ g.CacheUpdated = f.CacheUpdated /\ g.Cache = f.Cache /\ g.Copied = f.Copied
          /\ g.BlkModified = f.BlkModified /\ g.GcCopyIndex = f.GcCopyIndex
          /\ g.CurrSector = f.CurrSector /\ g.NextFreePage = f.NextFreePage
          /\ g.GcSrcAddr = f.GcSrcAddr
      BY <2>4 DEF Same, Fields
    <2>10. Oth(g) = s
      BY <2>9 DEF Oth
    <2>11. GcFault(flash, g, j)
      BY <2>7, <2>9, <2>10 DEF GcFault, Busy
    <2>12. CacheFault(flash, g)
      BY <1>1, <2>9, CacheFaultFrame
    <2>13. {"StateCount"} \subseteq GcFields
      BY DEF GcFields
    <2> QED
      BY <2>1, <2>3, <2>4, <2>7, <2>8, <2>9, <2>11, <2>12, <2>13, FaultGcFields
  <1> QED
    BY <1>3, <1>4

\* The page is in the flash: its marker is handed to the flash driver.
LEMMA FaultGcMarker ==
  ASSUME NEW f, FaultInv(flash, f, NoJob), f.MainJob = "GC", f.IntrJob = "PASS",
         NEW m, <<f.GcState, m>> \in {<<"V_SP", "V_M">>, <<"E_SP", "E_M">>},
         NEW g, Same(f, g, {"GcState", "IntrJob"}), g.GcState = m, g.IntrJob = "IDLE",
         fee' = g, job' = ProgramMarker(Oth(f), f.GcDest)
  PROVE  FaultInv(flash, fee', job')
  <1> DEFINE s == Oth(f)
             d == f.GcDest
             j == ProgramMarker(s, d)
  <1>1. /\ InOrder(flash) /\ FaultTypes(f) /\ GcFault(flash, f, NoJob)
        /\ CacheFault(flash, f) /\ f.StateCount > 0 /\ f.InitGCState = "COMPLETE"
        /\ s \in Sectors /\ s = Other(f.CurrSector) /\ d \in Nat /\ f.CacheUpdated
    BY FaultGcFacts, FieldFacts
  <1>2. f.GcState \in {"V_SP", "E_SP"} /\ m \in {"V_M", "E_M"} /\ (m = "V_M" <=> f.GcState = "V_SP")
    OBVIOUS
  <1>3. PageEnded(flash, "PASS", s, d)
    BY <1>1, <1>2 DEF GcFault, Quiet
  <1>4. d \in Slots /\ IsWLBeginning(d) /\ BlankFrom(flash[s], d + 1) /\ IsPage(flash[s][d], "none")
    BY <1>3 DEF PageEnded
  <1>5. flash[s][d] \in Pages /\ [flash[s][d] EXCEPT !.mark = "ok"] \in Cells
    BY <1>4 DEF IsPage, Pages, Cells
  <1>6. /\ j.op = "marker" /\ j.owner = "intr" /\ j.sector = s /\ j.addr = d
        /\ j.cell = [flash[s][d] EXCEPT !.mark = "ok"]
    BY DEF ProgramMarker
  <1>7. j # NoJob
    <2>1. j \in Jobs
      BY <1>1, <1>4, <1>5 DEF Jobs, ProgramMarker
    <2> QED
      BY <2>1, FeeNulls
  <1> HIDE DEF j
  <1>8. IntrRuns(j) /\ MarkerRuns(flash, j, s, d)
    BY <1>4, <1>6, <1>7 DEF IntrRuns, MarkerRuns, Marks, IsJob
  <1>9. FaultTypes(g)
    <2> DEFINE X == {"GcState", "IntrJob"}
    <2>1. \A x \in X : x \in DOMAIN FieldTypes => g[x] \in FieldTypes[x]
      BY <1>2 DEF FieldTypes
    <2>2. DOMAIN g = Fields /\ \A x \in Fields \ X : g[x] = f[x]
      BY DEF Same
    <2> HIDE DEF X
    <2> QED
      BY <1>1, <2>1, <2>2, TypesKept
  <1>10. /\ g.GcDest = d /\ g.StateCount = f.StateCount
         /\ g.CacheUpdated = f.CacheUpdated /\ g.Cache = f.Cache /\ g.Copied = f.Copied
         /\ g.CurrSector = f.CurrSector /\ g.NextFreePage = f.NextFreePage
    BY DEF Same, Fields
  <1>11. Oth(g) = s /\ Cur(g) = Cur(f)
    BY <1>10 DEF Oth, Cur
  <1>12. GcFault(flash, g, j)
    BY <1>2, <1>8, <1>10, <1>11 DEF GcFault, Busy
  <1>13. CacheFault(flash, g)
    <2>1. ASSUME NEW b \in Blocks, g.Cache[b] # NoAddr PROVE CachedCopy(flash, g, b)
      <3>1. CachedCopy(flash, f, b)
        BY <1>1, <1>10, <2>1, CacheFaultGives
      <3> QED
        BY <1>2, <1>10, <1>11, <3>1 DEF CachedCopy, Copying
    <2>2. g.GcState \notin {"START_COPY", "COPY_WRITE"}
      BY <1>2
    <2> QED
      BY <2>1, <2>2, CacheFaultParts
  <1>14. {"GcState", "IntrJob"} \subseteq GcFields
    BY DEF GcFields
  <1>15. FaultInv(flash, g, j)
    BY <1>1, <1>2, <1>8, <1>9, <1>10, <1>12, <1>13, <1>14, FaultGcFields
  <1> QED
    BY <1>15 DEF j

\* The erasure of the other sector is handed to the flash driver.
LEMMA FaultGcErase ==
  ASSUME NEW f, FaultInv(flash, f, NoJob), f.MainJob = "GC", f.GcState = "ERASE",
         f.IntrJob = "IDLE"
  PROVE  FaultInv(flash, f, EraseSector(Oth(f)))
  <1> DEFINE j == EraseSector(Oth(f))
  <1>1. /\ FaultTypes(f) /\ GcFault(flash, f, NoJob) /\ DOMAIN f = Fields
        /\ CacheFault(flash, f) /\ f.StateCount > 0 /\ f.InitGCState = "COMPLETE"
        /\ Oth(f) \in Sectors
    BY FaultGcFacts
  <1>2. j \in Jobs
    BY <1>1 DEF Jobs, EraseSector
  <1>3. j # NoJob /\ j.op = "erase" /\ j.owner = "intr" /\ j.sector = Oth(f)
    BY <1>2, FeeNulls DEF EraseSector
  <1> HIDE DEF j
  <1>4. IntrRuns(j) /\ Erases(j, Oth(f))
    BY <1>3 DEF IntrRuns, Erases, IsJob
  <1>5. GcFault(flash, f, j)
    BY <1>1, <1>4 DEF GcFault, Busy
  <1>6. Same(f, f, {}) /\ {} \subseteq GcFields
    BY <1>1 DEF Same
  <1>7. FaultInv(flash, f, j)
    BY <1>1, <1>4, <1>5, <1>6, FaultGcFields
  <1> QED
    BY <1>7 DEF j

\* A collection begins.
LEMMA FaultGcRequested ==
  ASSUME NEW f, FaultInv(flash, f, NoJob), f.MainJob = "GC", f.GcState = "REQUESTED"
  PROVE  LET g == GcRequested(f)
         IN FaultInv(flash, g, NoJob) /\ g.MainJob = "GC" /\ g.GcState = "START_COPY"
  <1> DEFINE g == GcRequested(f)
             o == Oth(f)
             none == [b \in Blocks |-> FALSE]
             X == {"GcState", "GcDest", "GcCopyIndex", "Copied", "BlkModified", "GcSrcAddr"}
  <1>1. /\ InOrder(flash) /\ FaultTypes(f) /\ DOMAIN f = Fields /\ GcFault(flash, f, NoJob)
        /\ CacheFault(flash, f) /\ f.StateCount > 0 /\ f.InitGCState = "COMPLETE" /\ f.CacheUpdated
        /\ o \in Sectors /\ o # Cur(f) /\ o = Other(f.CurrSector) /\ ~IntrRuns(NoJob)
        /\ f.NextFreeWL \in [Sectors -> Nat]
        /\ f.Cache \in [Blocks -> Addresses \cup {NoAddr}]
    BY FaultGcFacts, FieldFacts
  <1>2. OpenWL(flash[o], f.NextFreeWL[o]) /\ f.IntrJob = "IDLE" /\ f.NextFreeWL[o] \in Nat
    BY <1>1 DEF GcFault, Busy, Quiet
  <1>3. /\ g.GcState = "START_COPY" /\ g.GcDest = f.NextFreeWL[o] /\ g.GcCopyIndex = 0
        /\ g.Copied = none /\ g.BlkModified = FALSE /\ g.GcSrcAddr = <<>> /\ Same(f, g, X)
    BY <1>1 DEF GcRequested, Fields, Same
  <1>4. none \in [Blocks -> BOOLEAN] /\ \A b \in Blocks : ~none[b]
    OBVIOUS
  <1> HIDE DEF g, none
  <1>5. FaultTypes(g)
    <2>1. /\ g["GcState"] \in FieldTypes["GcState"] /\ g["GcDest"] \in FieldTypes["GcDest"]
          /\ g["GcCopyIndex"] \in FieldTypes["GcCopyIndex"]
      BY <1>2, <1>3 DEF FieldTypes
    <2>2. /\ FieldTypes["Copied"] = [Blocks -> BOOLEAN] /\ FieldTypes["BlkModified"] = BOOLEAN
          /\ FieldTypes["GcSrcAddr"] = Seq(Addresses)
      BY DEF FieldTypes
    <2>3. g["Copied"] \in [Blocks -> BOOLEAN] /\ g["BlkModified"] \in BOOLEAN
          /\ g["GcSrcAddr"] \in Seq(Addresses)
      <3>1. <<>> \in Seq(Addresses)
        OBVIOUS
      <3>2. g.GcSrcAddr = <<>> /\ g.Copied = none /\ g.BlkModified = FALSE
        BY <1>3
      <3> HIDE DEF X
      <3> QED
        BY <1>4, <3>1, <3>2
    <2>4. \A x \in X : x \in DOMAIN FieldTypes => g[x] \in FieldTypes[x]
      BY <2>1, <2>2, <2>3
    <2>5. DOMAIN g = Fields /\ \A x \in Fields \ X : g[x] = f[x]
      BY <1>3 DEF Same
    <2> HIDE DEF X
    <2> QED
      BY <1>1, <2>4, <2>5, TypesKept
  <1>6. /\ g.MainJob = "GC" /\ g.CurrSector = f.CurrSector /\ g.Cache = f.Cache
        /\ g.NextFreePage = f.NextFreePage /\ g.StateCount = f.StateCount
        /\ g.IntrJob = "IDLE" /\ g.CacheUpdated /\ g.InitGCState = "COMPLETE"
    BY <1>1, <1>2, <1>3 DEF Same, Fields
  <1>7. Cur(g) = Cur(f) /\ Oth(g) = o
    BY <1>6 DEF Cur, Oth
  <1>8. GcFault(flash, g, NoJob)
    <2>1. Open(flash[o], g.GcDest)
      BY <1>2, <1>3, OpenWordline
    <2> QED
      BY <1>1, <1>3, <1>6, <1>7, <2>1 DEF GcFault, Busy, Quiet
  <1>9. CacheFault(flash, g)
    <2>1. ASSUME NEW b \in Blocks, f.Cache[b] # NoAddr
          PROVE  /\ flash[f.Cache[b].sector][f.Cache[b].slot].kind = "copy"
                 /\ flash[f.Cache[b].sector][f.Cache[b].slot].blk = b
                 /\ f.Cache[b].sector = Cur(f) => f.Cache[b].slot < f.NextFreePage
                 /\ f.Cache[b].sector # o /\ ~(b < g.GcCopyIndex) /\ ~g.Copied[b]
      <3>1. f.Cache[b].sector # o
        BY <1>1, <2>1 DEF CacheFault, Copying
      <3>2. ~(b < 0)
        BY SlotFacts
      <3> QED
        BY <1>1, <1>3, <1>4, <2>1, <3>1, <3>2 DEF CacheFault
    <2>2. DOMAIN g.GcSrcAddr = {}
      BY <1>3
    <2> QED
      BY <1>3, <1>6, <1>7, <2>1, <2>2 DEF CacheFault
  <1>10. X \subseteq GcFields
    BY DEF GcFields
  <1> HIDE DEF X
  <1>11. FaultInv(flash, g, NoJob)
    BY <1>1, <1>3, <1>5, <1>6, <1>8, <1>9, <1>10, FaultGcFields
  <1> QED
    BY <1>3, <1>6, <1>11 DEF g

\* A block's copy is handed to the flash driver.
LEMMA FaultGcCopyWrite ==
  ASSUME NEW f, FaultInv(flash, f, NoJob), f.MainJob = "GC", f.GcState = "START_COPY", job = NoJob,
         NEW h, Same(f, h, {"BlkModified"}), h.BlkModified \in BOOLEAN,
         NEW b \in Blocks, f.Cache[b] # NoAddr, ~f.Copied[b],
         ~h.BlkModified =>
           \A x \in Blocks : x < b /\ f.Cache[x] # NoAddr => f.Cache[x].sector = Oth(f),
         GcCopyWrite(h, b)
  PROVE  FaultInv(flash, fee', job')
  <1> DEFINE o == Oth(f)
             a == f.GcDest
             at == f.Cache[b]
             c == flash[at.sector][at.slot]
  <1>1. /\ InOrder(flash) /\ FaultTypes(f) /\ DOMAIN f = Fields /\ GcFault(flash, f, NoJob)
        /\ CacheFault(flash, f) /\ f.StateCount > 0 /\ f.InitGCState = "COMPLETE" /\ f.CacheUpdated
        /\ o \in Sectors /\ o # Cur(f) /\ Cur(f) \in Sectors
        /\ o = Other(f.CurrSector) /\ ~IntrRuns(NoJob) /\ a \in Nat
        /\ f.Cache \in [Blocks -> Addresses \cup {NoAddr}]
    BY FaultGcFacts, FieldFacts
  <1>2. Open(flash[o], a) /\ f.IntrJob = "IDLE"
    BY <1>1 DEF GcFault, Busy, Quiet
  <1>3. /\ at \in Addresses /\ at.slot \in Slots /\ at.sector = Cur(f)
        /\ c.kind = "copy" /\ c.blk = b /\ c \in Cells
    <2>1. at \in Addresses /\ at.slot \in Slots /\ at.sector \in Sectors
      BY <1>1, AddressFacts
    <2>2. at.sector = o => f.Copied[b]
      BY <1>1 DEF CacheFault, Copying
    <2>3. at.sector = Cur(f)
      BY <1>1, <2>1, <2>2, SlotFacts
    <2>4. c.kind = "copy" /\ c.blk = b
      BY <1>1 DEF CacheFault
    <2> QED
      BY <1>1, <2>1, <2>3, <2>4, OrderFacts
  <1>4. /\ h.GcDest = a /\ h.Cache = f.Cache /\ h.CurrSector = f.CurrSector /\ DOMAIN h = Fields
        /\ h.GcSrcAddr = f.GcSrcAddr /\ h.GcState = "START_COPY" /\ h.Copied = f.Copied
        /\ h.StateCount = f.StateCount /\ h.IntrJob = "IDLE"
    BY <1>2 DEF Same, Fields
  <1>5. FaultTypes(h)
    <2> DEFINE X == {"BlkModified"}
    <2>1. FieldTypes["BlkModified"] = BOOLEAN /\ h["BlkModified"] \in BOOLEAN
      BY DEF FieldTypes
    <2>2. \A x \in X : x \in DOMAIN FieldTypes => h[x] \in FieldTypes[x]
      BY <2>1
    <2>3. DOMAIN h = Fields /\ \A x \in Fields \ X : h[x] = f[x]
      BY DEF Same
    <2> HIDE DEF X
    <2> QED
      BY <1>1, <2>2, <2>3, TypesKept
  <1>6. CASE ThresholdCrossed(Free(a), 1)
    <2> DEFINE g == GcFail(h)
               X == {"GcState", "BlkModified"}
    <2>1. fee' = g /\ job' = NoJob
      BY <1>4, <1>6 DEF GcCopyWrite, Continue
    <2>2. g.GcState = "FAIL" /\ DOMAIN g = Fields /\ \A x \in Fields \ {"GcState"} : g[x] = h[x]
      BY <1>4 DEF GcFail, Fields
    <2> HIDE DEF g
    <2>3. FaultTypes(g)
      <3> DEFINE Z == {"GcState"}
      <3>1. \A x \in Z : x \in DOMAIN FieldTypes => g[x] \in FieldTypes[x]
        BY <2>2 DEF FieldTypes
      <3>2. \A x \in Fields \ Z : g[x] = h[x]
        BY <2>2
      <3> HIDE DEF Z
      <3> QED
        BY <1>5, <2>2, <3>1, <3>2, TypesKept
    <2>4. Same(f, g, X) /\ X \subseteq GcFields \ {"Cache", "Copied"}
          /\ g.StateCount = f.StateCount /\ g.IntrJob = "IDLE"
      BY <1>4, <2>2 DEF Same, GcFields, Fields
    <2> HIDE DEF X
    <2> QED
      BY <1>1, <2>1, <2>2, <2>3, <2>4, FaultGcFail
  <1>7. CASE ~ThresholdCrossed(Free(a), 1)
    <2> DEFINE k == [h EXCEPT !.GcState = "COPY_WRITE", !.GcCopyIndex = b, !.GcBlock = c.blk]
               g == IF IsWLBeginning(a)
                    THEN [k EXCEPT !.GcFirstBlkInWL = c.blk, !.GcSrcAddr = <<>>] ELSE k
               j == ProgramCell(o, a, c, "intr")
               X == {"GcState", "BlkModified", "GcCopyIndex", "GcBlock", "GcFirstBlkInWL", "GcSrcAddr"}
    <2>1. fee' = g /\ job' = j
      <3>1. h.GcDest = a /\ flash[h.Cache[b].sector][h.Cache[b].slot] = c
            /\ Other(h.CurrSector) = o
        BY <1>1, <1>4
      <3> HIDE DEF a, c, o
      <3> QED
        BY <1>7, <3>1 DEF GcCopyWrite, Start
    <2>2. a \in Slots
      BY <1>1, <1>7, FreeFacts
    <2>3. Programming(flash, j, "intr", o, a, c) /\ IntrRuns(j)
      <3> HIDE DEF c, a, o, j
      <3> QED
        BY <1>1, <1>2, <1>3, <2>2, NewProgramming DEF j, a, o
    <2> HIDE DEF c, j
    <2>4. /\ DOMAIN k = Fields /\ k.GcState = "COPY_WRITE" /\ k.GcCopyIndex = b /\ k.GcBlock = b
          /\ \A x \in Fields \ {"GcState", "GcCopyIndex", "GcBlock"} : k[x] = h[x]
      BY <1>3, <1>4 DEF Fields
    <2> HIDE DEF k
    <2>5. /\ DOMAIN g = Fields /\ g.GcState = "COPY_WRITE" /\ g.GcCopyIndex = b /\ g.GcBlock = b
          /\ IsWLBeginning(a) => g.GcSrcAddr = <<>> /\ g.GcFirstBlkInWL = b
          /\ ~IsWLBeginning(a) => g.GcSrcAddr = h.GcSrcAddr /\ g.GcFirstBlkInWL = h.GcFirstBlkInWL
          /\ \A x \in Fields \ {"GcState", "GcCopyIndex", "GcBlock", "GcFirstBlkInWL", "GcSrcAddr"} :
               g[x] = h[x]
      <3> HIDE DEF a
      <3>1. CASE IsWLBeginning(a)
        <4>1. g = [k EXCEPT !.GcFirstBlkInWL = b, !.GcSrcAddr = <<>>]
          BY <1>3, <3>1
        <4> HIDE DEF g
        <4> QED
          BY <2>4, <3>1, <4>1 DEF Fields
      <3>2. CASE ~IsWLBeginning(a)
        BY <2>4, <3>2 DEF Fields
      <3> QED
        BY <3>1, <3>2
    <2> HIDE DEF g
    <2>6. /\ \A x \in Fields \ X : g[x] = f[x]
          /\ g.BlkModified = h.BlkModified
      BY <2>5 DEF Same, Fields
    <2>7. FaultTypes(g)
      <3>1. h.GcFirstBlkInWL \in Nat /\ h.GcSrcAddr \in Seq(Addresses) /\ b \in Nat
        BY <1>5, FieldFacts, SlotFacts
      <3>6. <<>> \in Seq(Addresses)
        OBVIOUS
      <3>2. g.GcFirstBlkInWL \in Nat /\ g.GcSrcAddr \in Seq(Addresses)
        <4> HIDE DEF X, a
        <4> QED
          BY <2>5, <3>1, <3>6
      <3>3. /\ g["GcState"] \in FieldTypes["GcState"] /\ g["GcCopyIndex"] \in FieldTypes["GcCopyIndex"]
            /\ g["GcFirstBlkInWL"] \in FieldTypes["GcFirstBlkInWL"]
        BY <2>5, <3>1, <3>2 DEF FieldTypes
      <3>4. /\ FieldTypes["BlkModified"] = BOOLEAN /\ FieldTypes["GcSrcAddr"] = Seq(Addresses)
            /\ "GcBlock" \notin DOMAIN FieldTypes
        BY DEF FieldTypes
      <3>5. \A x \in X : x \in DOMAIN FieldTypes => g[x] \in FieldTypes[x]
        BY <2>6, <3>2, <3>3, <3>4
      <3> HIDE DEF X
      <3> QED
        BY <1>1, <2>5, <2>6, <3>5, TypesKept
    <2>8. /\ g.GcDest = a /\ g.Cache = f.Cache /\ g.Copied = f.Copied /\ g.IntrJob = "IDLE"
          /\ g.CurrSector = f.CurrSector /\ g.NextFreePage = f.NextFreePage
          /\ g.StateCount = f.StateCount /\ g.CacheUpdated
          /\ IsWLBeginning(a) => g.GcSrcAddr = <<>>
          /\ ~IsWLBeginning(a) => g.GcSrcAddr = f.GcSrcAddr
      BY <1>1, <1>2, <1>4, <2>5, <2>6 DEF Fields
    <2>9. Cur(g) = Cur(f) /\ Oth(g) = o
      BY <2>8 DEF Cur, Oth
    <2>10. GcFault(flash, g, j)
      <3>1. c = flash[Cur(g)][g.Cache[b].slot]
        BY <1>3, <2>8, <2>9 DEF c
      <3> HIDE DEF a, o, at
      <3> QED
        BY <1>3, <2>3, <2>5, <2>8, <2>9, <3>1 DEF GcFault, Busy, at
    <2>11. CacheFault(flash, g)
      <3>1. ASSUME NEW x \in Blocks, f.Cache[x] # NoAddr
            PROVE  /\ flash[f.Cache[x].sector][f.Cache[x].slot].kind = "copy"
                   /\ flash[f.Cache[x].sector][f.Cache[x].slot].blk = x
                   /\ f.Cache[x].sector = Cur(f) => f.Cache[x].slot < f.NextFreePage
                   /\ f.Cache[x].sector = o => f.Copied[x] /\ f.Cache[x].slot < a
                   /\ f.Copied[x] => f.Cache[x].sector = o
        BY <1>1, <3>1 DEF CacheFault, Copying
      <3>2. \A i \in DOMAIN g.GcSrcAddr :
              /\ g.GcSrcAddr[i].sector = Cur(f)
              /\ flash[Cur(f)][g.GcSrcAddr[i].slot].kind = "copy"
              /\ g.GcSrcAddr[i].slot < f.NextFreePage
        <4>1. CASE IsWLBeginning(a)
          BY <2>8, <4>1
        <4>2. CASE ~IsWLBeginning(a)
          BY <1>1, <2>8, <4>2 DEF CacheFault
        <4> QED
          BY <4>1, <4>2
      <3>3. ~g.BlkModified =>
              \A x \in Blocks : x < b /\ f.Cache[x] # NoAddr => f.Cache[x].sector = o
        BY <2>6
      <3> HIDE DEF a, o, at
      <3>4. \A x \in Blocks : g.Cache[x] # NoAddr =>
              /\ flash[g.Cache[x].sector][g.Cache[x].slot].kind = "copy"
              /\ flash[g.Cache[x].sector][g.Cache[x].slot].blk = x
              /\ g.Cache[x].sector = Cur(g) => g.Cache[x].slot < g.NextFreePage
              /\ g.Cache[x].sector = Oth(g) => g.Copied[x] /\ g.Cache[x].slot < g.GcDest
              /\ g.Copied[x] => g.Cache[x].sector = Oth(g)
              /\ ~g.BlkModified /\ x < g.GcCopyIndex => g.Cache[x].sector = Oth(g)
        BY <2>5, <2>8, <2>9, <3>1, <3>3
      <3>5. \A i \in DOMAIN g.GcSrcAddr :
              /\ g.GcSrcAddr[i].sector = Cur(g)
              /\ flash[Cur(g)][g.GcSrcAddr[i].slot].kind = "copy"
              /\ g.GcSrcAddr[i].slot < g.NextFreePage
        BY <2>8, <2>9, <3>2
      <3> QED
        BY <2>5, <3>4, <3>5 DEF CacheFault, Copying
    <2>12. Same(f, g, X) /\ X \subseteq GcFields
      BY <2>5, <2>6 DEF Same, GcFields
    <2> HIDE DEF X
    <2> QED
      BY <1>1, <2>1, <2>3, <2>7, <2>8, <2>10, <2>11, <2>12, FaultGcFields
  <1> QED
    BY <1>6, <1>7

\* The next copy, or when none is left the state page.
LEMMA FaultGcStartCopy ==
  ASSUME NEW f, FaultInv(flash, f, NoJob), f.MainJob = "GC", f.GcState = "START_COPY", job = NoJob,
         GcStartCopy(f)
  PROVE  FaultInv(flash, fee', job')
  <1> DEFINE o == Oth(f)
             again == ToCopy(f, f.GcCopyIndex) = {} /\ f.BlkModified
             left == ToCopy(f, IF again THEN 0 ELSE f.GcCopyIndex)
             g == IF again THEN [f EXCEPT !.BlkModified = FALSE] ELSE f
  <1>1. /\ InOrder(flash) /\ FaultTypes(f) /\ DOMAIN f = Fields /\ GcFault(flash, f, NoJob)
        /\ CacheFault(flash, f) /\ f.StateCount > 0 /\ f.InitGCState = "COMPLETE" /\ f.CacheUpdated
        /\ o \in Sectors /\ o # Cur(f) /\ ~IntrRuns(NoJob) /\ f.GcDest \in Nat
        /\ f.GcCopyIndex \in Nat /\ f.BlkModified \in BOOLEAN
        /\ f.Cache \in [Blocks -> Addresses \cup {NoAddr}]
    BY FaultGcFacts, FieldFacts
  <1>2. Open(flash[o], f.GcDest) /\ f.IntrJob = "IDLE"
    BY <1>1 DEF GcFault, Busy, Quiet
  <1>3. Same(f, g, {"BlkModified"}) /\ g.BlkModified \in BOOLEAN
        /\ (again => ~g.BlkModified) /\ (~again => g.BlkModified = f.BlkModified)
    BY <1>1 DEF Same, Fields
  <1>4. left \subseteq Blocks /\ \A b \in left : f.Cache[b] # NoAddr /\ ~f.Copied[b]
    BY DEF ToCopy
  <1>5. ASSUME ~g.BlkModified, NEW x \in Blocks, f.Cache[x] # NoAddr, x \notin left
        PROVE  f.Cache[x].sector = o
    <2>1. CASE f.Copied[x]
      BY <1>1, <1>5, <2>1 DEF CacheFault, Copying
    <2>2. CASE ~f.Copied[x]
      <3>1. ~again
        BY <1>5, <2>2, SlotFacts DEF ToCopy
      <3>2. x < f.GcCopyIndex
        BY <1>1, <1>5, <2>2, <3>1, SlotFacts DEF ToCopy
      <3>3. ~f.BlkModified
        BY <1>3, <1>5, <3>1
      <3> QED
        BY <1>1, <1>5, <3>2, <3>3 DEF CacheFault
    <2> QED
      BY <2>1, <2>2
  <1>6. IF left # {} THEN GcCopyWrite(g, Min(left))
        ELSE GcStatePage([g EXCEPT !.GcState = "V_SP", !.IntrJobFailCount = 0,
                                   !.GcCopyIndex = NBlocks,
                                   !.GcDest = IF IsWLBeginning(@) THEN @ ELSE NextWL(@)])
    BY DEF GcStartCopy
  <1> HIDE DEF g, again, left
  <1>7. CASE left # {}
    <2> DEFINE b == Min(left)
    <2>1. \E n \in left : \A m \in left : n <= m
      BY <1>4, <1>7, SlotFacts, LeastElement
    <2>2. b \in left /\ \A m \in left : b <= m
      BY <2>1 DEF Min
    <2> HIDE DEF b
    <2>3. b \in Blocks /\ f.Cache[b] # NoAddr /\ ~f.Copied[b]
      BY <1>4, <2>2
    <2>4. ~g.BlkModified =>
            \A x \in Blocks : x < b /\ f.Cache[x] # NoAddr => f.Cache[x].sector = o
      <3> SUFFICES ASSUME ~g.BlkModified, NEW x \in Blocks, x < b, f.Cache[x] # NoAddr
                   PROVE  f.Cache[x].sector = o
        OBVIOUS
      <3>1. x \notin left
        BY <2>2, <2>3, SlotFacts
      <3> QED
        BY <1>5, <3>1
    <2>5. GcCopyWrite(g, b)
      BY <1>6, <1>7 DEF b
    <2> QED
      BY <1>3, <2>3, <2>4, <2>5, FaultGcCopyWrite
  <1>8. CASE left = {}
    <2> DEFINE d == IF IsWLBeginning(f.GcDest) THEN f.GcDest ELSE NextWL(f.GcDest)
               h == [g EXCEPT !.GcState = "V_SP", !.IntrJobFailCount = 0,
                              !.GcCopyIndex = NBlocks, !.GcDest = d]
               X == {"BlkModified", "GcState", "IntrJobFailCount", "GcCopyIndex", "GcDest"}
    <2>1. g.GcDest = f.GcDest /\ DOMAIN g = Fields
      BY <1>3 DEF Same, Fields
    <2>2. GcStatePage(h)
      BY <1>6, <1>8, <2>1
    <2>3. d \in Nat /\ f.GcDest <= d /\ OpenWL(flash[o], d)
      <3>1. CASE IsWLBeginning(f.GcDest)
        BY <1>1, <1>2, <3>1 DEF OpenWL, Open
      <3>2. CASE ~IsWLBeginning(f.GcDest)
        <4>1. d = NextWL(f.GcDest) /\ d \in Nat /\ f.GcDest < d /\ IsWLBeginning(d)
          BY <1>1, <3>2, WordlineFacts
        <4>2. BlankFrom(flash[o], d)
          <5>1. f.GcDest \in Nat /\ f.GcDest <= d /\ BlankFrom(flash[o], f.GcDest)
            BY <1>1, <1>2, <4>1 DEF Open
          <5> HIDE DEF d
          <5> QED
            BY <4>1, <5>1, BlankLater
        <4> QED
          BY <1>1, <4>1, <4>2 DEF OpenWL
      <3> QED
        BY <3>1, <3>2
    <2> HIDE DEF d
    <2>4. /\ DOMAIN h = Fields /\ h.GcState = "V_SP" /\ h.IntrJobFailCount = 0
          /\ h.GcCopyIndex = NBlocks /\ h.GcDest = d /\ h.BlkModified = g.BlkModified
          /\ \A x \in Fields \ X : h[x] = f[x]
      BY <1>3, <2>1 DEF Same, Fields
    <2> HIDE DEF h
    <2>5. FaultTypes(h)
      <3>1. NBlocks \in Nat
        BY FeeConstants
      <3>2. /\ h["GcState"] \in FieldTypes["GcState"] /\ h["GcDest"] \in FieldTypes["GcDest"]
            /\ h["GcCopyIndex"] \in FieldTypes["GcCopyIndex"]
            /\ h["IntrJobFailCount"] \in FieldTypes["IntrJobFailCount"]
        BY <2>3, <2>4, <3>1 DEF FieldTypes
      <3>3. FieldTypes["BlkModified"] = BOOLEAN /\ h["BlkModified"] \in BOOLEAN
        BY <1>3, <2>4 DEF FieldTypes
      <3>4. \A x \in X : x \in DOMAIN FieldTypes => h[x] \in FieldTypes[x]
        BY <3>2, <3>3
      <3> HIDE DEF X
      <3> QED
        BY <1>1, <2>4, <3>4, TypesKept
    <2>6. /\ h.Cache = f.Cache /\ h.Copied = f.Copied /\ h.IntrJob = "IDLE" /\ h.MainJob = "GC"
          /\ h.CurrSector = f.CurrSector /\ h.NextFreePage = f.NextFreePage
          /\ h.StateCount = f.StateCount /\ h.CacheUpdated
      BY <1>1, <1>2, <2>4 DEF Fields
    <2>7. Cur(h) = Cur(f) /\ Oth(h) = o
      BY <2>6 DEF Cur, Oth
    <2>8. GcFault(flash, h, NoJob)
      BY <1>1, <2>3, <2>4, <2>6, <2>7 DEF GcFault, Busy, Quiet
    <2>9. ~g.BlkModified
      BY <1>1, <1>3, <1>8 DEF again, left
    <2>10. CacheFault(flash, h)
      <3>1. ASSUME NEW x \in Blocks, f.Cache[x] # NoAddr
            PROVE  /\ flash[f.Cache[x].sector][f.Cache[x].slot].kind = "copy"
                   /\ flash[f.Cache[x].sector][f.Cache[x].slot].blk = x
                   /\ f.Cache[x].sector = o /\ f.Copied[x] /\ f.Cache[x].slot < d
        <4>1. f.Cache[x].sector = o
          BY <1>5, <1>8, <2>9, <3>1
        <4>2. /\ flash[f.Cache[x].sector][f.Cache[x].slot].kind = "copy"
              /\ flash[f.Cache[x].sector][f.Cache[x].slot].blk = x
              /\ f.Copied[x] /\ f.Cache[x].slot < f.GcDest
          BY <1>1, <3>1, <4>1 DEF CacheFault, Copying
        <4>3. f.Cache[x].slot \in Nat
          BY <1>1, <3>1, AddressFacts, SlotFacts
        <4> QED
          BY <1>1, <2>3, <4>1, <4>2, <4>3
      <3>2. ASSUME NEW x \in Blocks, h.Cache[x] # NoAddr PROVE CachedCopy(flash, h, x)
        BY <1>1, <2>4, <2>6, <2>7, <3>1, <3>2 DEF CachedCopy, Copying
      <3> QED
        BY <2>4, <3>2, CacheFaultParts
    <2>11. Same(f, h, X) /\ X \subseteq GcFields
      BY <2>4 DEF Same, GcFields
    <2> HIDE DEF X
    <2>12. FaultInv(flash, h, NoJob)
      BY <1>1, <2>5, <2>6, <2>8, <2>10, <2>11, FaultGcFields
    <2> QED
      BY <2>2, <2>4, <2>6, <2>12, FaultGcStatePage
  <1> QED
    BY <1>7, <1>8

\* What the end of a collection's job leaves.
LEMMA FaultGcEnded ==
  ASSUME NEW f, FaultInv(flash, f, NoJob), f.MainJob = "GC", f.IntrJob # "IDLE"
  PROVE  /\ f.GcState \in Busy /\ f.IntrJob \in {"PASS", "FAIL"}
         /\ f.GcState = "COPY_WRITE" =>
              LET b == f.GcCopyIndex
                  c == flash[Cur(f)][f.Cache[b].slot]
              IN /\ b \in Blocks /\ f.GcBlock = b
                 /\ f.Cache[b] # NoAddr /\ f.Cache[b].sector = Cur(f) /\ ~f.Copied[b]
                 /\ Ended(flash, f.IntrJob, Oth(f), f.GcDest, c)
         /\ f.GcState \in {"V_SP", "E_SP", "V_M", "E_M"} =>
              /\ f.GcDest \in Slots /\ IsWLBeginning(f.GcDest)
              /\ BlankFrom(flash[Oth(f)], f.GcDest + 1)
         /\ f.GcState = "ERASE" =>
              f.GcDest = 0 /\ (f.IntrJob = "PASS" => BlankFrom(flash[Oth(f)], 0))
  <1>1. /\ FaultTypes(f) /\ GcFault(flash, f, NoJob) /\ f.InitGCState = "COMPLETE"
        /\ ~IntrRuns(NoJob) /\ f.IntrJob \in {"IDLE", "PASS", "FAIL"}
    BY FaultGcFacts, FieldFacts
  <1>2. f.GcState \in Busy
    BY <1>1 DEF GcFault, Quiet
  <1>3. CASE f.GcState = "COPY_WRITE"
    BY <1>1, <1>2, <1>3 DEF GcFault
  <1>4. CASE f.GcState \in {"V_SP", "E_SP", "V_M", "E_M"}
    <2>1. PageEnded(flash, f.IntrJob, Oth(f), f.GcDest)
          \/ MarkerEnded(flash, f.IntrJob, Oth(f), f.GcDest)
      BY <1>1, <1>4 DEF GcFault, Quiet
    <2>2. f.GcState # "COPY_WRITE" /\ f.GcState # "ERASE"
      BY <1>4
    <2> QED
      BY <1>1, <1>2, <2>1, <2>2 DEF PageEnded, MarkerEnded
  <1>5. CASE f.GcState = "ERASE"
    BY <1>1, <1>2, <1>5 DEF GcFault
  <1> QED
    BY <1>2, <1>3, <1>4, <1>5 DEF Busy

\* A state that differs in these fields of simple types.
LEMMA GcTypes ==
  ASSUME NEW f, FaultTypes(f), NEW g, NEW X, Same(f, g, X),
         X \subseteq {"GcState", "IntrJob", "IntrJobFailCount", "GcDest", "StateCount"},
         g.GcState \in FieldTypes.GcState, g.IntrJob \in FieldTypes.IntrJob,
         g.IntrJobFailCount \in {0, 1}, g.GcDest \in Nat, g.StateCount \in Nat
  PROVE  FaultTypes(g)
  <1>1. \A x \in X : x \in DOMAIN FieldTypes => g[x] \in FieldTypes[x]
    BY DEF FieldTypes
  <1>2. DOMAIN g = Fields /\ \A x \in Fields \ X : g[x] = f[x]
    BY DEF Same
  <1> QED
    BY <1>1, <1>2, TypesKept

\* A job of the collection has failed for the second time.
LEMMA FaultGcGivesUp ==
  ASSUME NEW f, FaultInv(flash, f, NoJob), f.MainJob = "GC",
         NEW h, Same(f, h, {"IntrJob"}), h.IntrJob = "IDLE"
  PROVE  FaultInv(flash, GcFail(h), NoJob)
  <1> DEFINE g == GcFail(h)
             X == {"GcState", "IntrJob"}
  <1>1. FaultTypes(f) /\ f.StateCount > 0
    BY FaultGcFacts
  <1>2. Same(f, g, X) /\ g.GcState = "FAIL" /\ g.IntrJob = "IDLE"
    BY DEF Same, Fields, GcFail
  <1>3. /\ g.IntrJobFailCount = f.IntrJobFailCount /\ g.GcDest = f.GcDest
        /\ g.StateCount = f.StateCount
    BY <1>2 DEF Same, Fields
  <1> HIDE DEF g
  <1>4. FaultTypes(g)
    <2>1. g.GcState \in FieldTypes.GcState /\ g.IntrJob \in FieldTypes.IntrJob
      BY <1>2 DEF FieldTypes
    <2>2. g.IntrJobFailCount \in {0, 1} /\ g.GcDest \in Nat /\ g.StateCount \in Nat
      BY <1>1, <1>3, FieldFacts
    <2>3. X \subseteq {"GcState", "IntrJob", "IntrJobFailCount", "GcDest", "StateCount"}
      OBVIOUS
    <2> HIDE DEF X
    <2> QED
      BY <1>1, <1>2, <2>1, <2>2, <2>3, GcTypes
  <1>5. X \subseteq GcFields \ {"Cache", "Copied"}
    BY DEF GcFields
  <1> HIDE DEF X
  <1>6. FaultInv(flash, g, NoJob)
    BY <1>1, <1>2, <1>3, <1>4, <1>5, FaultGcFail
  <1> QED
    BY <1>6 DEF g

\* A state page or its marker could not be programmed: the page is tried again
\* in the next wordline but one.
LEMMA FaultPageFailed ==
  ASSUME NEW f, FaultInv(flash, f, NoJob), f.MainJob = "GC", f.IntrJob # "IDLE",
         NEW page, \/ page = "V_SP" /\ f.GcState \in {"V_SP", "V_M"}
                   \/ page = "E_SP" /\ f.GcState \in {"E_SP", "E_M"},
         NEW h, Same(f, h, {"IntrJob"}), h.IntrJob = "IDLE"
  PROVE  FaultInv(flash, PageFailed(h, page), NoJob)
  <1> DEFINE d == f.GcDest
             g == [h EXCEPT !.GcState = page, !.IntrJobFailCount = 1,
                            !.GcDest = NextWL(h.GcDest) + PerWL]
             X == {"IntrJob", "GcState", "IntrJobFailCount", "GcDest"}
  <1>1. /\ InOrder(flash) /\ FaultTypes(f) /\ CacheFault(flash, f) /\ f.StateCount > 0
        /\ f.CacheUpdated /\ f.InitGCState = "COMPLETE" /\ ~IntrRuns(NoJob)
        /\ Oth(f) \in Sectors /\ f.StateCount \in Nat
        /\ f.Cache \in [Blocks -> Addresses \cup {NoAddr}]
    BY FaultGcFacts, FieldFacts
  <1>2. d \in Slots /\ d \in Nat /\ IsWLBeginning(d) /\ BlankFrom(flash[Oth(f)], d + 1)
    <2>1. f.GcState \in {"V_SP", "E_SP", "V_M", "E_M"}
      OBVIOUS
    <2> QED
      BY <2>1, FaultGcEnded, SlotFacts
  <1>3. h.IntrJobFailCount = f.IntrJobFailCount /\ h.GcDest = d /\ DOMAIN h = Fields
    BY DEF Same, Fields
  <1>4. CASE h.IntrJobFailCount # 0
    BY <1>4, FaultGcGivesUp DEF PageFailed
  <1>5. CASE h.IntrJobFailCount = 0
    <2>1. PageFailed(h, page) = g
      BY <1>5 DEF PageFailed
    <2>2. /\ OpenWL(flash[Oth(f)], RetryBase(d)) /\ RetryBase(d) \in Nat /\ d < RetryBase(d)
          /\ RetryBase(d) = NextWL(d) + PerWL
      BY <1>2, OpenAfter
    <2>3. /\ g.GcState = page /\ g.IntrJobFailCount = 1 /\ g.GcDest = RetryBase(d)
          /\ g.IntrJob = "IDLE" /\ DOMAIN g = Fields /\ \A x \in Fields \ X : g[x] = f[x]
      BY <1>3, <2>2 DEF Same, Fields
    <2> HIDE DEF g
    <2>4. Same(f, g, X)
      BY <2>3 DEF Same
    <2>5. g.StateCount = f.StateCount /\ g.Cache = f.Cache /\ g.Copied = f.Copied
          /\ g.CurrSector = f.CurrSector /\ g.NextFreePage = f.NextFreePage
          /\ g.CacheUpdated = f.CacheUpdated
      BY <2>3 DEF Fields
    <2>6. FaultTypes(g)
      <3>1. g.GcState \in FieldTypes.GcState /\ g.IntrJob \in FieldTypes.IntrJob
        BY <2>3 DEF FieldTypes
      <3>2. g.IntrJobFailCount \in {0, 1} /\ g.GcDest \in Nat /\ g.StateCount \in Nat
        BY <1>1, <2>2, <2>3, <2>5
      <3>3. X \subseteq {"GcState", "IntrJob", "IntrJobFailCount", "GcDest", "StateCount"}
        OBVIOUS
      <3> HIDE DEF X
      <3> QED
        BY <1>1, <2>4, <3>1, <3>2, <3>3, GcTypes
    <2>7. Cur(g) = Cur(f) /\ Oth(g) = Oth(f)
      BY <2>5 DEF Cur, Oth
    <2>8. GcFault(flash, g, NoJob)
      BY <1>1, <2>2, <2>3, <2>7 DEF GcFault, Busy, Quiet
    <2>9. CacheFault(flash, g)
      <3>1. \A b \in Blocks : f.Cache[b] # NoAddr => f.Cache[b].slot \in Nat
        BY <1>1, AddressFacts, SlotFacts
      <3>2. \A b \in Blocks : f.Cache[b] # NoAddr =>
              /\ flash[f.Cache[b].sector][f.Cache[b].slot].kind = "copy"
              /\ flash[f.Cache[b].sector][f.Cache[b].slot].blk = b
              /\ f.Cache[b].sector = Cur(f) => f.Cache[b].slot < f.NextFreePage
              /\ f.Cache[b].sector = Oth(f) =>
                   page = "V_SP" /\ f.Copied[b] /\ f.Cache[b].slot < d
              /\ page = "V_SP" => f.Cache[b].sector = Oth(f)
        BY <1>1 DEF CacheFault, Copying
      <3>3. \A b \in Blocks : f.Cache[b] # NoAddr /\ f.Cache[b].sector = Oth(f) =>
              f.Cache[b].slot < RetryBase(d)
        BY <1>2, <2>2, <3>1, <3>2
      <3> HIDE DEF d
      <3>4. ASSUME NEW b \in Blocks, g.Cache[b] # NoAddr PROVE CachedCopy(flash, g, b)
        BY <2>3, <2>5, <2>7, <3>2, <3>3, <3>4 DEF CachedCopy, Copying
      <3>5. g.GcState \notin {"START_COPY", "COPY_WRITE"}
        BY <2>3
      <3> QED
        BY <3>4, <3>5, CacheFaultParts
    <2>10. X \subseteq GcFields /\ f.GcState # "FAIL"
      BY DEF GcFields
    <2> HIDE DEF X
    <2>11. FaultInv(flash, g, NoJob)
      BY <1>1, <2>4, <2>5, <2>6, <2>8, <2>9, <2>10, FaultGcFields
    <2> QED
      BY <2>1, <2>11
  <1> QED
    BY <1>4, <1>5

\* The other sector is erased.
LEMMA FaultEraseDone ==
  ASSUME NEW f, FaultInv(flash, f, NoJob), f.MainJob = "GC", f.IntrJob = "PASS",
         f.GcState = "ERASE", NEW h, Same(f, h, {"IntrJob"}), h.IntrJob = "IDLE"
  PROVE  LET g == EraseDone(h)
         IN /\ FaultInv(flash, g, NoJob) /\ g.GcState = "E_SP" /\ g.IntrJob = "IDLE"
            /\ g.MainJob = "GC"
  <1> DEFINE n == IF h.GcInit THEN h.StateCount + 1 ELSE h.StateCount
             g == EraseDone(h)
             X == {"IntrJob", "GcState", "IntrJobFailCount", "StateCount"}
  <1>1. /\ FaultTypes(f) /\ CacheFault(flash, f) /\ f.StateCount > 0
        /\ f.CacheUpdated /\ f.InitGCState = "COMPLETE" /\ ~IntrRuns(NoJob)
        /\ f.StateCount \in Nat
    BY FaultGcFacts, FieldFacts
  <1>2. f.GcDest = 0 /\ BlankFrom(flash[Oth(f)], 0) /\ IsWLBeginning(0)
    BY FaultGcEnded, WordlineSlots
  <1>3. h.StateCount = f.StateCount /\ DOMAIN h = Fields
    BY DEF Same, Fields
  <1>4. n \in Nat /\ n > 0
    BY <1>1, <1>3
  <1>5. /\ g.GcState = "E_SP" /\ g.IntrJobFailCount = 0 /\ g.StateCount = n
        /\ g.IntrJob = "IDLE" /\ DOMAIN g = Fields /\ \A x \in Fields \ X : g[x] = f[x]
    BY <1>3 DEF Same, Fields, EraseDone
  <1> HIDE DEF g, n
  <1>6. Same(f, g, X)
    BY <1>5 DEF Same
  <1>7. /\ g.GcDest = 0 /\ g.Cache = f.Cache /\ g.Copied = f.Copied
        /\ g.CurrSector = f.CurrSector /\ g.NextFreePage = f.NextFreePage
        /\ g.CacheUpdated = f.CacheUpdated /\ g.MainJob = "GC"
    BY <1>2, <1>5 DEF Fields
  <1>8. FaultTypes(g)
    <2>1. g.GcState \in FieldTypes.GcState /\ g.IntrJob \in FieldTypes.IntrJob
      BY <1>5 DEF FieldTypes
    <2>2. g.IntrJobFailCount \in {0, 1} /\ g.GcDest \in Nat /\ g.StateCount \in Nat
      BY <1>4, <1>5, <1>7
    <2>3. X \subseteq {"GcState", "IntrJob", "IntrJobFailCount", "GcDest", "StateCount"}
      OBVIOUS
    <2> HIDE DEF X
    <2> QED
      BY <1>1, <1>6, <2>1, <2>2, <2>3, GcTypes
  <1>9. Cur(g) = Cur(f) /\ Oth(g) = Oth(f)
    BY <1>7 DEF Cur, Oth
  <1>10. GcFault(flash, g, NoJob)
    BY <1>1, <1>2, <1>5, <1>7, <1>9 DEF GcFault, Busy, Quiet, OpenWL
  <1>11. CacheFault(flash, g)
    BY <1>1, <1>5, <1>7, <1>9 DEF CacheFault, Copying
  <1>12. X \subseteq GcFields
    BY DEF GcFields
  <1> HIDE DEF X
  <1>13. FaultInv(flash, g, NoJob)
    BY <1>4, <1>5, <1>6, <1>8, <1>10, <1>11, <1>12, FaultGcFields
  <1> QED
    BY <1>5, <1>7, <1>13 DEF g

\* It could not be erased.
LEMMA FaultEraseFailed ==
  ASSUME NEW f, FaultInv(flash, f, NoJob), f.MainJob = "GC", f.IntrJob # "IDLE",
         f.GcState = "ERASE", NEW h, Same(f, h, {"IntrJob"}), h.IntrJob = "IDLE"
  PROVE  FaultInv(flash, EraseFailed(h), NoJob)
  <1> DEFINE g == [h EXCEPT !.IntrJobFailCount = 1]
             X == {"IntrJob", "IntrJobFailCount"}
  <1>1. /\ FaultTypes(f) /\ CacheFault(flash, f) /\ f.StateCount > 0
        /\ f.CacheUpdated /\ f.InitGCState = "COMPLETE" /\ ~IntrRuns(NoJob)
        /\ f.StateCount \in Nat
    BY FaultGcFacts, FieldFacts
  <1>2. f.GcDest = 0
    BY FaultGcEnded
  <1>3. CASE h.IntrJobFailCount # 0
    BY <1>3, FaultGcGivesUp DEF EraseFailed
  <1>4. CASE h.IntrJobFailCount = 0
    <2>1. EraseFailed(h) = g
      BY <1>4 DEF EraseFailed
    <2>2. /\ g.IntrJobFailCount = 1 /\ g.IntrJob = "IDLE"
          /\ DOMAIN g = Fields /\ \A x \in Fields \ X : g[x] = f[x]
      BY DEF Same, Fields
    <2> HIDE DEF g
    <2>3. Same(f, g, X)
      BY <2>2 DEF Same
    <2>4. /\ g.GcDest = 0 /\ g.Cache = f.Cache /\ g.Copied = f.Copied /\ g.GcState = "ERASE"
          /\ g.CurrSector = f.CurrSector /\ g.NextFreePage = f.NextFreePage
          /\ g.CacheUpdated = f.CacheUpdated /\ g.StateCount = f.StateCount
      BY <1>2, <2>2 DEF Fields
    <2>5. FaultTypes(g)
      <3>1. g.GcState \in FieldTypes.GcState /\ g.IntrJob \in FieldTypes.IntrJob
        BY <2>2, <2>4 DEF FieldTypes
      <3>2. g.IntrJobFailCount \in {0, 1} /\ g.GcDest \in Nat /\ g.StateCount \in Nat
        BY <1>1, <2>2, <2>4
      <3>3. X \subseteq {"GcState", "IntrJob", "IntrJobFailCount", "GcDest", "StateCount"}
        OBVIOUS
      <3> HIDE DEF X
      <3> QED
        BY <1>1, <2>3, <3>1, <3>2, <3>3, GcTypes
    <2>6. Cur(g) = Cur(f) /\ Oth(g) = Oth(f)
      BY <2>4 DEF Cur, Oth
    <2>7. GcFault(flash, g, NoJob)
      BY <1>1, <2>2, <2>4, <2>6 DEF GcFault, Busy
    <2>8. CacheFault(flash, g)
      BY <1>1, <2>2, <2>4, <2>6 DEF CacheFault, Copying
    <2>9. X \subseteq GcFields
      BY DEF GcFields
    <2> HIDE DEF X
    <2>10. FaultInv(flash, g, NoJob)
      BY <1>1, <2>2, <2>3, <2>4, <2>5, <2>7, <2>8, <2>9, FaultGcFields
    <2> QED
      BY <2>1, <2>10
  <1> QED
    BY <1>3, <1>4

\* The erased sector has its state page: the collection has ended, or starts
\* anew where a reset had cut it off.
LEMMA FaultOldSector ==
  ASSUME NEW f, FaultInv(flash, f, NoJob), f.MainJob = "GC", f.IntrJob = "PASS",
         f.GcState = "E_M", NEW h, Same(f, h, {"IntrJob"}), h.IntrJob = "IDLE"
  PROVE  FaultInv(flash, OldSectorErased(h), NoJob)
  <1> DEFINE o == Oth(f)
             d == f.GcDest
             g == OldSectorErased(h)
             X == {"IntrJob", "IntrJobFailCount", "StatePageAddr", "NextFreeWL", "GcState", "GcInit"}
  <1>1. /\ FaultTypes(f) /\ CacheFault(flash, f) /\ f.StateCount > 0
        /\ f.CacheUpdated /\ f.InitGCState = "COMPLETE" /\ ~IntrRuns(NoJob)
        /\ o \in Sectors /\ o = Other(f.CurrSector) /\ f.UserJob = "IDLE"
        /\ Open(flash[Cur(f)], f.NextFreePage) /\ ~Stage(f, "stuck")
        /\ f.StatePageAddr \in [Sectors -> Nat] /\ f.NextFreeWL \in [Sectors -> Nat]
    BY FaultGcFacts, FieldFacts
  <1>2. d \in Slots /\ d \in Nat /\ BlankFrom(flash[o], d + 1)
    BY FaultGcEnded, SlotFacts
  <1>3. OpenWL(flash[o], NextWL(d)) /\ NextWL(d) \in Nat
    BY <1>2, OpenAfter
  <1>4. /\ h.GcDest = d /\ h.CurrSector = f.CurrSector /\ DOMAIN h = Fields
        /\ h.StatePageAddr = f.StatePageAddr /\ h.NextFreeWL = f.NextFreeWL
    BY DEF Same, Fields
  <1>5. /\ g.GcState \in {"REQUESTED", "IDLE"} /\ g.IntrJobFailCount = 0 /\ g.GcInit = FALSE
        /\ g.StatePageAddr = [f.StatePageAddr EXCEPT ![o] = d]
        /\ g.NextFreeWL = [f.NextFreeWL EXCEPT ![o] = NextWL(d)]
        /\ g.IntrJob = "IDLE" /\ DOMAIN g = Fields /\ \A x \in Fields \ X : g[x] = f[x]
    BY <1>1, <1>4 DEF Same, Fields, OldSectorErased
  <1> HIDE DEF g
  <1>6. g.StatePageAddr \in [Sectors -> Nat] /\ g.NextFreeWL \in [Sectors -> Nat]
        /\ g.NextFreeWL[o] = NextWL(d)
    BY <1>1, <1>2, <1>3, <1>5
  <1>7. FaultTypes(g)
    <2>1. /\ g["GcState"] \in FieldTypes["GcState"] /\ g["IntrJob"] \in FieldTypes["IntrJob"]
          /\ g["IntrJobFailCount"] \in FieldTypes["IntrJobFailCount"]
      BY <1>5 DEF FieldTypes
    <2>2. /\ FieldTypes["StatePageAddr"] = [Sectors -> Nat] /\ FieldTypes["GcInit"] = BOOLEAN
          /\ FieldTypes["NextFreeWL"] = [Sectors -> Nat]
      BY DEF FieldTypes
    <2>3. \A x \in X : x \in DOMAIN FieldTypes => g[x] \in FieldTypes[x]
      BY <1>5, <1>6, <2>1, <2>2
    <2> HIDE DEF X
    <2> QED
      BY <1>1, <1>5, <2>3, TypesKept
  <1>8. /\ g.MainJob = "GC" /\ g.Req = f.Req /\ g.InitGCState = f.InitGCState
        /\ g.UserJob = f.UserJob /\ g.Cache = f.Cache /\ g.Copied = f.Copied
        /\ g.CurrSector = f.CurrSector /\ g.NextFreePage = f.NextFreePage
        /\ g.CacheUpdated = f.CacheUpdated /\ g.StateCount = f.StateCount
    BY <1>5 DEF Fields
  <1>9. Cur(g) = Cur(f) /\ Oth(g) = o /\ ~Stage(g, "stuck")
    BY <1>1, <1>8 DEF Cur, Oth, Stage
  <1>10. GcFault(flash, g, NoJob)
    BY <1>1, <1>3, <1>5, <1>6, <1>8, <1>9 DEF GcFault, Busy, Quiet
  <1>11. CacheFault(flash, g)
    <2>1. \A b \in Blocks : f.Cache[b] # NoAddr =>
            /\ flash[f.Cache[b].sector][f.Cache[b].slot].kind = "copy"
            /\ flash[f.Cache[b].sector][f.Cache[b].slot].blk = b
            /\ f.Cache[b].sector = Cur(f) => f.Cache[b].slot < f.NextFreePage
            /\ f.Cache[b].sector # o
      BY <1>1 DEF CacheFault, Copying
    <2>2. ASSUME NEW b \in Blocks, g.Cache[b] # NoAddr PROVE CachedCopy(flash, g, b)
      BY <1>5, <1>8, <1>9, <2>1, <2>2 DEF CachedCopy, Copying
    <2>3. g.GcState \notin {"START_COPY", "COPY_WRITE"}
      BY <1>5
    <2> QED
      BY <2>2, <2>3, CacheFaultParts
  <1>12. FaultInv(flash, g, NoJob)
    BY <1>1, <1>7, <1>8, <1>9, <1>10, <1>11, FaultGcStep
  <1> QED
    BY <1>12 DEF g

\* A block has been copied.
LEMMA FaultCopyDone ==
  ASSUME NEW f, FaultInv(flash, f, NoJob), f.MainJob = "GC", f.IntrJob = "PASS",
         f.GcState = "COPY_WRITE", NEW h, Same(f, h, {"IntrJob"}), h.IntrJob = "IDLE"
  PROVE  FaultInv(flash, CopyDone(h), NoJob)
  <1> DEFINE o == Oth(f)
             d == f.GcDest
             b == f.GcCopyIndex
             at == f.Cache[b]
             c == flash[Cur(f)][at.slot]
             g == CopyDone(h)
             n == IF h.GcBlock # h.GcPrevBlock THEN 0 ELSE h.IntrJobFailCount
             copied == [f.Copied EXCEPT ![b] = TRUE]
             src == Append(f.GcSrcAddr, at)
             cache == [f.Cache EXCEPT ![b] = At(o, d)]
             X == {"IntrJob", "GcState", "IntrJobFailCount", "Copied", "GcSrcAddr", "Cache",
                   "GcCopyIndex", "GcDest", "GcPrevBlock"}
  <1>1. /\ InOrder(flash) /\ FaultTypes(f) /\ CacheFault(flash, f) /\ f.StateCount > 0
        /\ f.CacheUpdated /\ f.InitGCState = "COMPLETE" /\ ~IntrRuns(NoJob)
        /\ o \in Sectors /\ Cur(f) \in Sectors /\ o # Cur(f) /\ o = Other(f.CurrSector)
        /\ f.Cache \in [Blocks -> Addresses \cup {NoAddr}] /\ f.Copied \in [Blocks -> BOOLEAN]
        /\ f.GcSrcAddr \in Seq(Addresses) /\ f.IntrJobFailCount \in {0, 1}
        /\ f.GcCopyIndex \in Nat /\ d \in Nat
    BY FaultGcFacts, FieldFacts
  <1>2. /\ b \in Blocks /\ f.GcBlock = b /\ at # NoAddr /\ at.sector = Cur(f)
        /\ d \in Slots /\ BlankFrom(flash[o], d + 1) /\ flash[o][d] = c
    BY FaultGcEnded DEF Ended
  <1>3. /\ at \in Addresses /\ at.slot \in Slots
        /\ c.kind = "copy" /\ c.blk = b /\ at.slot < f.NextFreePage
    <2>1. at \in Addresses /\ at.slot \in Slots
      BY <1>1, <1>2, AddressFacts
    <2>2. CachedCopy(flash, f, b)
      BY <1>1, <1>2, CacheFaultGives
    <2> QED
      BY <1>2, <2>1, <2>2 DEF CachedCopy
  <1>4. /\ At(o, d) \in Addresses /\ At(o, d) # NoAddr
        /\ At(o, d).sector = o /\ At(o, d).slot = d
    BY <1>1, <1>2, AddressFacts
  <1>5. Open(flash[o], d + 1)
    <2>1. flash[o][d] # Blank
      BY <1>2, <1>3, BuiltCells
    <2> HIDE DEF d, o
    <2> QED
      BY <1>1, <1>2, <2>1, OpenBehind
  <1>6. /\ h.GcBlock = b /\ h.Cache = f.Cache /\ h.Copied = f.Copied /\ h.GcDest = d
        /\ h.GcSrcAddr = f.GcSrcAddr /\ h.GcCopyIndex = b /\ h.CurrSector = f.CurrSector
        /\ h.IntrJobFailCount = f.IntrJobFailCount /\ DOMAIN h = Fields
    BY <1>2 DEF Same, Fields
  <1>7. /\ g.GcState = "START_COPY" /\ g.IntrJobFailCount = n /\ g.Copied = copied
        /\ g.GcSrcAddr = src /\ g.Cache = cache /\ g.GcCopyIndex = b + 1 /\ g.GcDest = d + 1
        /\ g.IntrJob = "IDLE" /\ DOMAIN g = Fields /\ \A x \in Fields \ X : g[x] = f[x]
    <2>1. At(Other(h.CurrSector), h.GcDest) = At(o, d)
      BY <1>1, <1>6
    <2>2. /\ h.Cache \in [Blocks -> Addresses \cup {NoAddr}] /\ h.Copied \in [Blocks -> BOOLEAN]
          /\ h.GcSrcAddr \in Seq(Addresses) /\ h.GcCopyIndex \in Nat /\ h.GcDest \in Nat
      BY <1>1, <1>6
    <2> DEFINE w == [h EXCEPT !.GcState = "START_COPY", !.IntrJobFailCount = n,
                              !.Copied = [h.Copied EXCEPT ![b] = TRUE],
                              !.GcSrcAddr = Append(h.GcSrcAddr, h.Cache[b]),
                              !.Cache = [h.Cache EXCEPT ![b] = At(o, d)],
                              !.GcCopyIndex = h.GcCopyIndex + 1, !.GcDest = h.GcDest + 1,
                              !.GcPrevBlock = b]
    <2>3. g = w
      <3> HIDE DEF o, d, b
      <3> QED
        BY <1>6, <2>1 DEF CopyDone
    <2> HIDE DEF g, n
    <2>4. /\ w.GcState = "START_COPY" /\ w.IntrJobFailCount = n
          /\ w.Copied = [h.Copied EXCEPT ![b] = TRUE]
          /\ w.GcSrcAddr = Append(h.GcSrcAddr, h.Cache[b])
          /\ w.Cache = [h.Cache EXCEPT ![b] = At(o, d)]
          /\ w.GcCopyIndex = h.GcCopyIndex + 1 /\ w.GcDest = h.GcDest + 1
          /\ DOMAIN w = Fields /\ \A x \in Fields \ (X \ {"IntrJob"}) : w[x] = h[x]
      <3> HIDE DEF o, d, b
      <3> QED
        BY <1>6 DEF Fields
    <2> HIDE DEF w
    <2>5. w.IntrJob = "IDLE" /\ \A x \in Fields \ X : w[x] = f[x]
      <3>1. "IntrJob" \in Fields \ (X \ {"IntrJob"})
        BY DEF Fields
      <3>2. \A x \in Fields \ X : w[x] = h[x] /\ h[x] = f[x]
        BY <2>4 DEF Same
      <3> HIDE DEF X
      <3> QED
        BY <2>4, <3>1, <3>2
    <2> HIDE DEF X
    <2> QED
      BY <1>6, <2>3, <2>4, <2>5
  <1>8. /\ n \in {0, 1} /\ copied \in [Blocks -> BOOLEAN]
        /\ cache \in [Blocks -> Addresses \cup {NoAddr}]
    BY <1>1, <1>4, <1>6
  <1>9. src \in Seq(Addresses)
    <2> HIDE DEF at
    <2> QED
      BY <1>1, <1>3
  <1>10. \A x \in Blocks : /\ cache[x] = (IF x = b THEN At(o, d) ELSE f.Cache[x])
                           /\ copied[x] = (IF x = b THEN TRUE ELSE f.Copied[x])
    BY <1>1
  <1>11. \A i \in DOMAIN src : src[i] = at \/ (i \in DOMAIN f.GcSrcAddr /\ src[i] = f.GcSrcAddr[i])
    <2> HIDE DEF at
    <2> QED
      BY <1>1, <1>3
  <1> HIDE DEF g, n, copied, src, cache
  <1>12. FaultTypes(g)
    <2>1. /\ g["GcState"] \in FieldTypes["GcState"] /\ g["IntrJob"] \in FieldTypes["IntrJob"]
          /\ g["IntrJobFailCount"] \in FieldTypes["IntrJobFailCount"]
          /\ g["GcCopyIndex"] \in FieldTypes["GcCopyIndex"] /\ g["GcDest"] \in FieldTypes["GcDest"]
      BY <1>1, <1>7, <1>8 DEF FieldTypes
    <2>2. /\ FieldTypes["Copied"] = [Blocks -> BOOLEAN]
          /\ FieldTypes["Cache"] = [Blocks -> Addresses \cup {NoAddr}]
          /\ FieldTypes["GcSrcAddr"] = Seq(Addresses) /\ "GcPrevBlock" \notin DOMAIN FieldTypes
      BY DEF FieldTypes
    <2>3. \A x \in X : x \in DOMAIN FieldTypes => g[x] \in FieldTypes[x]
      BY <1>7, <1>8, <1>9, <2>1, <2>2
    <2>4. FaultTypes(f) /\ DOMAIN g = Fields /\ \A x \in Fields \ X : g[x] = f[x]
      BY <1>1, <1>7
    <2> HIDE DEF X
    <2> QED
      BY <2>3, <2>4, TypesKept
  <1>13. /\ g.CurrSector = f.CurrSector /\ g.NextFreePage = f.NextFreePage
         /\ g.CacheUpdated = f.CacheUpdated /\ g.StateCount = f.StateCount
         /\ g.BlkModified = f.BlkModified
    BY <1>7 DEF Fields
  <1>14. Cur(g) = Cur(f) /\ Oth(g) = o
    BY <1>13 DEF Cur, Oth
  <1>15. GcFault(flash, g, NoJob)
    BY <1>1, <1>5, <1>7, <1>14 DEF GcFault, Busy, Quiet
  <1>16. CacheFault(flash, g)
    <2>1. ASSUME NEW x \in Blocks, g.Cache[x] # NoAddr
          PROVE  /\ flash[g.Cache[x].sector][g.Cache[x].slot].kind = "copy"
                 /\ flash[g.Cache[x].sector][g.Cache[x].slot].blk = x
                 /\ g.Cache[x].sector = Cur(g) => g.Cache[x].slot < g.NextFreePage
                 /\ g.Cache[x].sector = Oth(g) => g.Copied[x] /\ g.Cache[x].slot < g.GcDest
                 /\ g.Copied[x] => g.Cache[x].sector = Oth(g)
                 /\ ~g.BlkModified /\ x < g.GcCopyIndex => g.Cache[x].sector = Oth(g)
      <3>1. CASE x = b
        <4>1. g.Cache[x] = At(o, d) /\ g.Copied[x]
          BY <1>2, <1>7, <1>10, <3>1
        <4>2. d < d + 1
          BY <1>1
        <4> HIDE DEF d, o, b, at, c
        <4> QED
          BY <1>1, <1>2, <1>3, <1>4, <1>7, <1>14, <3>1, <4>1, <4>2
      <3>2. CASE x # b
        <4>1. g.Cache[x] = f.Cache[x] /\ g.Copied[x] = f.Copied[x] /\ f.Cache[x] # NoAddr
          BY <1>7, <1>10, <2>1, <3>2
        <4>2. /\ flash[f.Cache[x].sector][f.Cache[x].slot].kind = "copy"
              /\ flash[f.Cache[x].sector][f.Cache[x].slot].blk = x
              /\ f.Cache[x].sector = Cur(f) => f.Cache[x].slot < f.NextFreePage
              /\ f.Cache[x].sector = o => f.Copied[x] /\ f.Cache[x].slot < d
              /\ f.Copied[x] => f.Cache[x].sector = o
              /\ ~f.BlkModified /\ x < b => f.Cache[x].sector = o
          BY <1>1, <4>1 DEF CacheFault, Copying
        <4>3. f.Cache[x].slot \in Nat /\ x \in Nat /\ b \in Nat
          BY <1>1, <1>2, <4>1, AddressFacts, SlotFacts
        <4>4. (x < b + 1 => x < b) /\ (f.Cache[x].slot < d => f.Cache[x].slot < d + 1)
          BY <1>1, <3>2, <4>3
        <4> HIDE DEF d, o, b, at, c
        <4> QED
          BY <1>7, <1>13, <1>14, <4>1, <4>2, <4>4
      <3> QED
        BY <3>1, <3>2
    <2>2. \A i \in DOMAIN g.GcSrcAddr :
            /\ g.GcSrcAddr[i].sector = Cur(g)
            /\ flash[Cur(g)][g.GcSrcAddr[i].slot].kind = "copy"
            /\ g.GcSrcAddr[i].slot < g.NextFreePage
      <3>1. \A i \in DOMAIN f.GcSrcAddr :
              /\ f.GcSrcAddr[i].sector = Cur(f)
              /\ flash[Cur(f)][f.GcSrcAddr[i].slot].kind = "copy"
              /\ f.GcSrcAddr[i].slot < f.NextFreePage
        BY <1>1 DEF CacheFault
      <3> QED
        BY <1>2, <1>3, <1>7, <1>11, <1>13, <1>14, <3>1
    <2> QED
      BY <1>7, <2>1, <2>2 DEF CacheFault, Copying
  <1>17. X \subseteq GcFields
    BY DEF GcFields
  <1>18. Same(f, g, X)
    BY <1>7 DEF Same
  <1> HIDE DEF X
  <1>19. FaultInv(flash, g, NoJob)
    BY <1>1, <1>7, <1>12, <1>13, <1>15, <1>16, <1>17, <1>18, FaultGcFields
  <1> QED
    BY <1>19 DEF g

\* A copy could not be programmed: the copies of its wordline are undone, and
\* the next one goes to the next wordline but one.
LEMMA FaultCopyFailed ==
  ASSUME NEW f, FaultInv(flash, f, NoJob), f.MainJob = "GC", f.IntrJob = "FAIL",
         f.GcState = "COPY_WRITE", UndoExactOf(flash, f),
         NEW h, Same(f, h, {"IntrJob"}), h.IntrJob = "IDLE"
  PROVE  FaultInv(flash, CopyFailed(h), NoJob)
  <1> DEFINE o == Oth(f)
             d == f.GcDest
             e == RetryBase(d)
             g == [h EXCEPT !.GcState = "START_COPY", !.IntrJobFailCount = 1,
                            !.GcDest = NextWL(NextWL(h.GcDest))]
             X == {"IntrJob", "GcState", "IntrJobFailCount", "GcDest"}
  <1>1. /\ InOrder(flash) /\ FaultTypes(f) /\ CacheFault(flash, f) /\ f.StateCount > 0
        /\ f.CacheUpdated /\ f.InitGCState = "COMPLETE" /\ ~IntrRuns(NoJob)
        /\ o \in Sectors /\ Cur(f) \in Sectors /\ o # Cur(f) /\ f.StateCount \in Nat
        /\ f.Cache \in [Blocks -> Addresses \cup {NoAddr}] /\ f.Copied \in [Blocks -> BOOLEAN]
        /\ f.GcSrcAddr \in Seq(Addresses) /\ f.GcFirstBlkInWL \in Nat /\ f.GcCopyIndex \in Nat
    BY FaultGcFacts, FieldFacts
  <1>2. d \in Slots /\ d \in Nat /\ BlankFrom(flash[o], d + 1)
    BY FaultGcEnded, SlotFacts DEF Ended
  <1>3. /\ e \in Nat /\ d < e /\ e = NextWL(NextWL(d)) /\ Open(flash[o], e)
    <2>1. e \in Nat /\ d < e /\ e = NextWL(NextWL(d)) /\ OpenWL(flash[o], e)
      BY <1>2, OpenAfter
    <2> HIDE DEF e
    <2> QED
      BY <2>1, OpenWordline
  <1>4. /\ h.GcDest = d /\ h.IntrJobFailCount = f.IntrJobFailCount /\ h.GcSrcAddr = f.GcSrcAddr
        /\ DOMAIN h = Fields
    BY DEF Same, Fields
  <1>5. /\ g.GcState = "START_COPY" /\ g.IntrJobFailCount = 1 /\ g.GcDest = e
        /\ g.IntrJob = "IDLE" /\ DOMAIN g = Fields /\ \A x \in Fields \ X : g[x] = f[x]
    BY <1>3, <1>4 DEF Same, Fields
  <1>6. /\ h.IntrJobFailCount # 0 => CopyFailed(h) = GcFail(h)
        /\ h.IntrJobFailCount = 0 /\ h.GcSrcAddr # <<>> => CopyFailed(h) = UndoWL(g)
        /\ h.IntrJobFailCount = 0 /\ h.GcSrcAddr = <<>> => CopyFailed(h) = g
    BY DEF CopyFailed
  <1> HIDE DEF g, e
  <1>7. Same(f, g, X) /\ FaultTypes(g)
    <2>1. Same(f, g, X)
      BY <1>5 DEF Same
    <2>2. g.GcState \in FieldTypes.GcState /\ g.IntrJob \in FieldTypes.IntrJob
      BY <1>5 DEF FieldTypes
    <2>3. g.IntrJobFailCount \in {0, 1} /\ g.GcDest \in Nat /\ g.StateCount \in Nat
      BY <1>1, <1>3, <1>5 DEF Fields
    <2>4. X \subseteq {"GcState", "IntrJob", "IntrJobFailCount", "GcDest", "StateCount"}
      OBVIOUS
    <2> HIDE DEF X
    <2> QED
      BY <1>1, <2>1, <2>2, <2>3, <2>4, GcTypes
  <1>8. /\ g.Cache = f.Cache /\ g.Copied = f.Copied /\ g.GcSrcAddr = f.GcSrcAddr
        /\ g.GcFirstBlkInWL = f.GcFirstBlkInWL /\ g.GcCopyIndex = f.GcCopyIndex
        /\ g.CurrSector = f.CurrSector /\ g.NextFreePage = f.NextFreePage
        /\ g.CacheUpdated = f.CacheUpdated /\ g.StateCount = f.StateCount
        /\ g.BlkModified = f.BlkModified
    BY <1>5 DEF Fields
  <1>9. \A x \in Blocks : f.Cache[x] # NoAddr =>
          /\ flash[f.Cache[x].sector][f.Cache[x].slot].kind = "copy"
          /\ flash[f.Cache[x].sector][f.Cache[x].slot].blk = x
          /\ f.Cache[x].sector = Cur(f) => f.Cache[x].slot < f.NextFreePage
          /\ f.Cache[x].sector = o => f.Copied[x] /\ f.Cache[x].slot < e
          /\ f.Copied[x] => f.Cache[x].sector = o
          /\ ~f.BlkModified /\ x < f.GcCopyIndex => f.Cache[x].sector = o
    <2> SUFFICES ASSUME NEW x \in Blocks, f.Cache[x] # NoAddr
                 PROVE  /\ flash[f.Cache[x].sector][f.Cache[x].slot].kind = "copy"
                        /\ flash[f.Cache[x].sector][f.Cache[x].slot].blk = x
                        /\ f.Cache[x].sector = Cur(f) => f.Cache[x].slot < f.NextFreePage
                        /\ f.Cache[x].sector = o => f.Copied[x] /\ f.Cache[x].slot < e
                        /\ f.Copied[x] => f.Cache[x].sector = o
                        /\ ~f.BlkModified /\ x < f.GcCopyIndex => f.Cache[x].sector = o
      OBVIOUS
    <2>1. /\ flash[f.Cache[x].sector][f.Cache[x].slot].kind = "copy"
          /\ flash[f.Cache[x].sector][f.Cache[x].slot].blk = x
          /\ f.Cache[x].sector = Cur(f) => f.Cache[x].slot < f.NextFreePage
          /\ f.Cache[x].sector = o => f.Copied[x] /\ f.Cache[x].slot < d
          /\ f.Copied[x] => f.Cache[x].sector = o
          /\ ~f.BlkModified /\ x < f.GcCopyIndex => f.Cache[x].sector = o
      BY <1>1 DEF CacheFault, Copying
    <2>2. f.Cache[x].slot \in Nat
      BY <1>1, AddressFacts, SlotFacts
    <2>3. f.Cache[x].slot < d => f.Cache[x].slot < e
      BY <1>2, <1>3, <2>2
    <2> QED
      BY <2>1, <2>3
  <1>10. CASE h.IntrJobFailCount # 0
    BY <1>6, <1>10, FaultGcGivesUp
  <1>11. CASE h.IntrJobFailCount = 0 /\ h.GcSrcAddr = <<>>
    <2>1. Cur(g) = Cur(f) /\ Oth(g) = o
      BY <1>8 DEF Cur, Oth
    <2>2. GcFault(flash, g, NoJob)
      BY <1>1, <1>3, <1>5, <2>1 DEF GcFault, Busy, Quiet
    <2>3. DOMAIN g.GcSrcAddr = {}
      BY <1>4, <1>8, <1>11
    <2>4. CacheFault(flash, g)
      <3>1. ASSUME NEW x \in Blocks, g.Cache[x] # NoAddr PROVE CachedCopy(flash, g, x)
        BY <1>5, <1>8, <1>9, <2>1, <3>1 DEF CachedCopy, Copying
      <3> QED
        BY <2>3, <3>1, CacheFaultParts
    <2>5. X \subseteq GcFields
      BY DEF GcFields
    <2> HIDE DEF X
    <2>6. FaultInv(flash, g, NoJob)
      BY <1>1, <1>5, <1>7, <1>8, <2>2, <2>4, <2>5, FaultGcFields
    <2> QED
      BY <1>6, <1>11, <2>6
  <1>12. CASE h.IntrJobFailCount = 0 /\ h.GcSrcAddr # <<>>
    <2> DEFINE first == f.GcFirstBlkInWL
               src == f.GcSrcAddr
               undone == {x \in Blocks : x >= first /\ x < first + Len(src) /\ f.Copied[x]}
               copied == [x \in Blocks |-> f.Copied[x] /\ x \notin undone]
               cache == [x \in Blocks |-> IF x \in undone THEN src[(x - first) + 1] ELSE f.Cache[x]]
               k == UndoWL(g)
               Z == {"IntrJob", "GcState", "IntrJobFailCount", "GcDest", "Copied", "Cache",
                     "GcCopyIndex", "GcSrcAddr"}
    <2>1. /\ k.Copied = copied /\ k.Cache = cache /\ k.GcCopyIndex = first /\ k.GcSrcAddr = <<>>
          /\ DOMAIN k = Fields
          /\ \A x \in Fields \ {"Copied", "Cache", "GcCopyIndex", "GcSrcAddr"} : k[x] = g[x]
      <3> DEFINE m == [g EXCEPT !.Copied = copied, !.Cache = cache, !.GcCopyIndex = first,
                                !.GcSrcAddr = <<>>]
      <3>1. k = m
        <4>1. undone = {x \in Blocks : /\ x >= g.GcFirstBlkInWL
                                       /\ x < g.GcFirstBlkInWL + Len(g.GcSrcAddr) /\ g.Copied[x]}
          BY <1>8
        <4>2. \A x \in Blocks : (x - first) + 1 = x - first + 1
          BY <1>1, SlotFacts
        <4> HIDE DEF undone
        <4> QED
          BY <1>5, <1>8, <4>1, <4>2 DEF UndoWL, Fields
      <3> HIDE DEF copied, cache, k
      <3>2. /\ m.Copied = copied /\ m.Cache = cache /\ m.GcCopyIndex = first /\ m.GcSrcAddr = <<>>
            /\ DOMAIN m = Fields
            /\ \A x \in Fields \ {"Copied", "Cache", "GcCopyIndex", "GcSrcAddr"} : m[x] = g[x]
        BY <1>5 DEF Fields
      <3> QED
        BY <3>1, <3>2
    <2> HIDE DEF k
    <2>2. /\ k.GcState = "START_COPY" /\ k.IntrJobFailCount = 1 /\ k.GcDest = e /\ k.IntrJob = "IDLE"
          /\ k.CurrSector = f.CurrSector /\ k.NextFreePage = f.NextFreePage
          /\ k.CacheUpdated = f.CacheUpdated /\ k.StateCount = f.StateCount
          /\ k.BlkModified = f.BlkModified /\ \A x \in Fields \ Z : k[x] = f[x]
      BY <1>5, <1>8, <2>1 DEF Fields
    <2>13. DOMAIN k = Fields /\ \A x \in Fields \ Z : k[x] = f[x]
      BY <2>1, <2>2
    <2>3. ASSUME NEW x \in undone
          PROVE  LET a == src[(x - first) + 1]
                 IN /\ a \in Addresses /\ a.sector = Cur(f)
                    /\ flash[Cur(f)][a.slot].kind = "copy" /\ flash[Cur(f)][a.slot].blk = x
                    /\ a.slot < f.NextFreePage
      <3> DEFINE i == (x - first) + 1
      <3>1. x \in Nat /\ first \in Nat /\ Len(src) \in Nat
        BY <1>1, SlotFacts
      <3>2. i \in 1 .. Len(src) /\ (first + i) - 1 = x
        BY <3>1
      <3>3. i \in DOMAIN src /\ src[i] \in Addresses
        BY <1>1, <3>2
      <3>4. src[i].sector = Cur(f) /\ flash[Cur(f)][src[i].slot].kind = "copy"
            /\ src[i].slot < f.NextFreePage
        BY <1>1, <3>3 DEF CacheFault
      <3>5. flash[src[i].sector][src[i].slot].blk = first + i - 1
        BY <1>4, <1>12, <3>3 DEF UndoExactOf
      <3>6. first + i - 1 = x
        BY <3>1, <3>2
      <3> HIDE DEF i, src, first
      <3> QED
        BY <3>3, <3>4, <3>5, <3>6 DEF i
    <2>4. first <= f.GcCopyIndex
      <3>1. 1 \in DOMAIN src
        BY <1>1, <1>4, <1>12
      <3> QED
        BY <1>4, <1>12, <3>1 DEF UndoExactOf
    <2>5. /\ copied \in [Blocks -> BOOLEAN]
          /\ \A x \in Blocks : copied[x] <=> f.Copied[x] /\ x \notin undone
          /\ cache \in [Blocks -> Addresses \cup {NoAddr}]
          /\ \A x \in undone : cache[x] = src[(x - first) + 1]
          /\ \A x \in Blocks : x \notin undone => cache[x] = f.Cache[x]
      <3>1. undone \subseteq Blocks
        OBVIOUS
      <3> HIDE DEF undone, first, src
      <3> QED
        BY <1>1, <2>3, <3>1
    <2>6. \A x \in Blocks : x < first => x \notin undone
      BY <1>1, SlotFacts
    <2> HIDE DEF copied, cache, undone
    <2>7. FaultTypes(k)
      <3>1. /\ k["GcState"] \in FieldTypes["GcState"] /\ k["IntrJob"] \in FieldTypes["IntrJob"]
            /\ k["IntrJobFailCount"] \in FieldTypes["IntrJobFailCount"]
            /\ k["GcCopyIndex"] \in FieldTypes["GcCopyIndex"] /\ k["GcDest"] \in FieldTypes["GcDest"]
        BY <1>1, <1>3, <2>1, <2>2 DEF FieldTypes
      <3>2. /\ FieldTypes["Copied"] = [Blocks -> BOOLEAN]
            /\ FieldTypes["Cache"] = [Blocks -> Addresses \cup {NoAddr}]
            /\ FieldTypes["GcSrcAddr"] = Seq(Addresses)
        BY DEF FieldTypes
      <3>3. <<>> \in Seq(Addresses)
        OBVIOUS
      <3>4. k["GcSrcAddr"] \in Seq(Addresses)
        <4> HIDE DEF Z, X
        <4> QED
          BY <2>1, <3>3
      <3>5. \A x \in Z : x \in DOMAIN FieldTypes => k[x] \in FieldTypes[x]
        BY <2>1, <2>5, <3>1, <3>2, <3>4
      <3>6. DOMAIN k = Fields /\ \A x \in Fields \ Z : k[x] = f[x]
        BY <2>13
      <3> HIDE DEF Z, X
      <3> QED
        BY <1>1, <3>5, <3>6, TypesKept
    <2>8. Cur(k) = Cur(f) /\ Oth(k) = o
      BY <2>2 DEF Cur, Oth
    <2>9. GcFault(flash, k, NoJob)
      BY <1>1, <1>3, <2>2, <2>8 DEF GcFault, Busy, Quiet
    <2>10. CacheFault(flash, k)
      <3>1. ASSUME NEW x \in Blocks, k.Cache[x] # NoAddr
            PROVE  /\ flash[k.Cache[x].sector][k.Cache[x].slot].kind = "copy"
                   /\ flash[k.Cache[x].sector][k.Cache[x].slot].blk = x
                   /\ k.Cache[x].sector = Cur(k) => k.Cache[x].slot < k.NextFreePage
                   /\ k.Cache[x].sector = Oth(k) => k.Copied[x] /\ k.Cache[x].slot < k.GcDest
                   /\ k.Copied[x] => k.Cache[x].sector = Oth(k)
                   /\ ~k.BlkModified /\ x < k.GcCopyIndex => k.Cache[x].sector = Oth(k)
        <4>1. CASE x \in undone
          <5>1. k.Cache[x] = src[(x - first) + 1] /\ ~k.Copied[x]
            BY <2>1, <2>5, <4>1
          <5>2. ~(x < k.GcCopyIndex)
            BY <2>1, <2>6, <4>1
          <5>3. /\ k.Cache[x].sector = Cur(f) /\ flash[Cur(f)][k.Cache[x].slot].kind = "copy"
                /\ flash[Cur(f)][k.Cache[x].slot].blk = x /\ k.Cache[x].slot < f.NextFreePage
            BY <2>3, <4>1, <5>1
          <5> HIDE DEF src, first
          <5> QED
            BY <1>1, <2>2, <2>8, <5>1, <5>2, <5>3
        <4>2. CASE x \notin undone
          <5>1. k.Cache[x] = f.Cache[x] /\ (k.Copied[x] <=> f.Copied[x])
            BY <2>1, <2>5, <4>2
          <5>2. x < first => x < f.GcCopyIndex
            BY <1>1, <2>4, SlotFacts
          <5> QED
            BY <1>9, <2>1, <2>2, <2>8, <3>1, <5>1, <5>2
        <4> QED
          BY <4>1, <4>2
      <3>2. DOMAIN k.GcSrcAddr = {}
        BY <2>1
      <3> QED
        BY <2>2, <3>1, <3>2 DEF CacheFault, Copying
    <2>11. Same(f, k, Z) /\ Z \subseteq GcFields
      BY <2>1, <2>2 DEF Same, GcFields
    <2> HIDE DEF Z
    <2>12. FaultInv(flash, k, NoJob)
      BY <1>1, <2>2, <2>7, <2>9, <2>10, <2>11, FaultGcFields
    <2> QED
      BY <1>6, <1>12, <2>12 DEF k
  <1> QED
    BY <1>10, <1>11, <1>12

\* The sectors have changed their roles: every cached copy is in the new one.
LEMMA FaultHandedOver ==
  ASSUME NEW f, FaultInv(flash, f, NoJob), f.MainJob = "GC", f.GcState = "V_M",
         f.IntrJob # "IDLE", NEW g, FaultTypes(g), g.CurrSector = Oth(f), g.IntrJob = "IDLE",
         g.GcState = "FAIL" \/ (g.GcState = "ERASE" /\ g.GcDest = 0),
         g.MainJob = "GC", g.CacheUpdated, g.InitGCState = "COMPLETE", g.UserJob = f.UserJob,
         g.Cache = f.Cache, g.StateCount = f.StateCount,
         g.Req = f.Req \/ g.Req = NoReq \/ Stage(g, "stuck"),
         Stage(g, "stuck") => g.GcState = "FAIL",
         Open(flash[Oth(f)], g.NextFreePage), f.GcDest < g.NextFreePage
  PROVE  FaultInv(flash, g, NoJob)
  <1> DEFINE o == Oth(f)
  <1>1. /\ FaultTypes(f) /\ CacheFault(flash, f) /\ f.StateCount > 0 /\ f.CacheUpdated
        /\ ~IntrRuns(NoJob) /\ o \in Sectors /\ Cur(f) \in Sectors /\ o # Cur(f)
        /\ f.Cache \in [Blocks -> Addresses \cup {NoAddr}] /\ f.GcDest \in Nat
        /\ g.NextFreePage \in Nat
    BY FaultGcFacts, FieldFacts
  <1>2. Cur(g) = o /\ Oth(g) = Cur(f)
    BY <1>1, SlotFacts DEF Cur, Oth
  <1>3. GcFault(flash, g, NoJob)
    BY <1>1, <1>2 DEF GcFault, Quiet, Busy
  <1>4. CacheFault(flash, g)
    <2>1. ASSUME NEW b \in Blocks, f.Cache[b] # NoAddr
          PROVE  /\ flash[f.Cache[b].sector][f.Cache[b].slot].kind = "copy"
                 /\ flash[f.Cache[b].sector][f.Cache[b].slot].blk = b
                 /\ f.Cache[b].sector = o /\ f.Cache[b].slot < g.NextFreePage
      <3>1. /\ flash[f.Cache[b].sector][f.Cache[b].slot].kind = "copy"
            /\ flash[f.Cache[b].sector][f.Cache[b].slot].blk = b
            /\ f.Cache[b].sector = o /\ f.Cache[b].slot < f.GcDest
        BY <1>1, <2>1 DEF CacheFault, Copying
      <3>2. f.Cache[b].slot \in Nat
        BY <1>1, <2>1, AddressFacts, SlotFacts
      <3> QED
        BY <1>1, <3>1, <3>2
    <2>2. g.GcState \notin Copying /\ g.GcState \notin {"START_COPY", "COPY_WRITE", "V_SP", "V_M"}
      BY DEF Copying
    <2> HIDE DEF o
    <2>3. ASSUME NEW b \in Blocks, g.Cache[b] # NoAddr PROVE CachedCopy(flash, g, b)
      BY <1>1, <1>2, <2>1, <2>2, <2>3 DEF CachedCopy
    <2> QED
      BY <2>2, <2>3, CacheFaultParts
  <1> QED
    BY <1>1, <1>2, <1>3, <1>4, FaultGcStep

\* The VALID page of the other sector has its marker.
LEMMA FaultNewSector ==
  ASSUME NEW f, FaultInv(flash, f, NoJob), f.MainJob = "GC", f.IntrJob = "PASS",
         f.GcState = "V_M", NEW h, Same(f, h, {"IntrJob"}), h.IntrJob = "IDLE"
  PROVE  FaultInv(flash, NewSectorValid(h), NoJob)
  <1> DEFINE o == Oth(f)
             d == f.GcDest
             n == [h EXCEPT !.IntrJobFailCount = 0, !.CurrSector = o, !.StatePageAddr[o] = d,
                            !.NextFreeWL[o] = NextWL(d), !.NextFreePage = NextWL(d)]
             checked == IF Requested(n) THEN CurrBlkCheck(n) ELSE n
             X == {"IntrJob", "IntrJobFailCount", "CurrSector", "StatePageAddr", "NextFreeWL",
                   "NextFreePage"}
             Y == {"GcState", "Req", "NextFreePage", "GcDest", "GcInit"}
  <1>1. /\ FaultTypes(f) /\ f.CacheUpdated /\ f.InitGCState = "COMPLETE"
        /\ Stage(f, "stuck") => f.GcState = "FAIL"
        /\ o \in Sectors /\ o = Other(f.CurrSector)
        /\ f.StatePageAddr \in [Sectors -> Nat] /\ f.NextFreeWL \in [Sectors -> Nat]
        /\ f.Req \in Requests \cup {NoReq}
    BY FaultGcFacts, FieldFacts
  <1>2. d \in Nat /\ BlankFrom(flash[o], d + 1)
    BY FaultGcEnded, SlotFacts
  <1>3. NextWL(d) \in Nat /\ d < NextWL(d) /\ Open(flash[o], NextWL(d))
    <2>1. OpenWL(flash[o], NextWL(d)) /\ NextWL(d) \in Nat /\ d < NextWL(d)
      BY <1>2, OpenAfter
    <2> HIDE DEF d, o
    <2> QED
      BY <2>1, OpenWordline
  <1>4. /\ h.GcDest = d /\ h.CurrSector = f.CurrSector /\ DOMAIN h = Fields
        /\ h.StatePageAddr = f.StatePageAddr /\ h.NextFreeWL = f.NextFreeWL
    BY DEF Same, Fields
  <1>5. NewSectorValid(h) =
          CASE ThresholdCrossed(Free(n.NextFreePage), PerWL) ->
                 [GcFail(n) EXCEPT !.Req = StuckReq]
            [] /\ ~ThresholdCrossed(Free(n.NextFreePage), PerWL)
               /\ Requested(n) /\ ~BlkWritable(n) -> [GcFail(checked) EXCEPT !.Req = NoReq]
            [] OTHER -> [checked EXCEPT !.GcDest = 0, !.GcState = "ERASE", !.GcInit = FALSE]
    <2>1. Other(h.CurrSector) = o /\ h.GcDest = d
      BY <1>1, <1>4
    <2> HIDE DEF o, d
    <2> QED
      BY <2>1 DEF NewSectorValid
  <1>6. /\ n.IntrJobFailCount = 0 /\ n.CurrSector = o /\ n.NextFreePage = NextWL(d)
        /\ n.StatePageAddr \in [Sectors -> Nat] /\ n.NextFreeWL \in [Sectors -> Nat]
        /\ n.IntrJob = "IDLE" /\ DOMAIN n = Fields
        /\ \A x \in Fields \ X : n[x] = f[x]
    BY <1>1, <1>2, <1>3, <1>4 DEF Same, Fields
  <1> HIDE DEF n
  <1>7. /\ n.MainJob = "GC" /\ n.CacheUpdated /\ n.InitGCState = "COMPLETE"
        /\ n.UserJob = f.UserJob /\ n.Req = f.Req /\ n.Cache = f.Cache
        /\ n.StateCount = f.StateCount /\ n.GcState = "V_M"
    BY <1>1, <1>6 DEF Fields
  <1>8. FaultTypes(n)
    <2>1. /\ n["IntrJob"] \in FieldTypes["IntrJob"]
          /\ n["IntrJobFailCount"] \in FieldTypes["IntrJobFailCount"]
          /\ n["CurrSector"] \in FieldTypes["CurrSector"]
          /\ n["NextFreePage"] \in FieldTypes["NextFreePage"]
      BY <1>1, <1>3, <1>6 DEF FieldTypes
    <2>2. /\ FieldTypes["StatePageAddr"] = [Sectors -> Nat]
          /\ FieldTypes["NextFreeWL"] = [Sectors -> Nat]
      BY DEF FieldTypes
    <2>3. \A x \in X : x \in DOMAIN FieldTypes => n[x] \in FieldTypes[x]
      BY <1>6, <2>1, <2>2
    <2> HIDE DEF X
    <2> QED
      BY <1>1, <1>6, <2>3, TypesKept
  <1>9. /\ checked.NextFreePage \in Nat /\ Open(flash[o], checked.NextFreePage)
        /\ NextWL(d) <= checked.NextFreePage /\ DOMAIN checked = Fields
        /\ \A x \in Fields \ {"NextFreePage"} : checked[x] = n[x]
    <2>1. CASE Requested(n)
      <3>1. /\ CheckedPage(n) \in Nat /\ Open(flash[o], CheckedPage(n))
            /\ n.NextFreePage <= CheckedPage(n)
        BY <1>3, <1>6, CheckedOpen
      <3>2. checked = CurrBlkCheck(n)
        BY <2>1
      <3>3. /\ CurrBlkCheck(n).NextFreePage = CheckedPage(n) /\ DOMAIN CurrBlkCheck(n) = Fields
            /\ \A x \in Fields \ {"NextFreePage"} : CurrBlkCheck(n)[x] = n[x]
        BY <1>6, <1>7 DEF CurrBlkCheck, Fields
      <3> QED
        BY <1>6, <3>1, <3>2, <3>3
    <2>2. CASE ~Requested(n)
      BY <1>3, <1>6, <2>2
    <2> QED
      BY <2>1, <2>2
  <1> HIDE DEF checked
  <1>10. ASSUME NEW p, p = n \/ p = checked, NEW g, DOMAIN g = Fields,
                \A x \in Fields \ {"GcState", "Req", "GcDest", "GcInit"} : g[x] = p[x],
                g.Req \in Requests \cup {NoReq}, g.GcInit \in BOOLEAN, g.GcDest \in Nat,
                g.GcState = "FAIL" \/ (g.GcState = "ERASE" /\ g.GcDest = 0),
                g.Req = f.Req \/ g.Req = NoReq \/ Stage(g, "stuck"),
                Stage(g, "stuck") => g.GcState = "FAIL"
         PROVE  FaultInv(flash, g, NoJob)
    <2>1. /\ p.NextFreePage \in Nat /\ Open(flash[o], p.NextFreePage) /\ d < p.NextFreePage
          /\ \A x \in Fields \ {"NextFreePage"} : p[x] = n[x]
      BY <1>2, <1>3, <1>6, <1>9, <1>10
    <2>2. \A x \in Fields \ Y : g[x] = n[x]
      BY <1>10, <2>1
    <2>3. g.NextFreePage = p.NextFreePage
      BY <1>10 DEF Fields
    <2>4. FaultTypes(g)
      <3>1. /\ g["GcState"] \in FieldTypes["GcState"] /\ g["Req"] \in FieldTypes["Req"]
            /\ g["NextFreePage"] \in FieldTypes["NextFreePage"]
            /\ g["GcDest"] \in FieldTypes["GcDest"]
        BY <1>10, <2>1, <2>3 DEF FieldTypes
      <3>2. FieldTypes["GcInit"] = BOOLEAN
        BY DEF FieldTypes
      <3>3. \A x \in Y : x \in DOMAIN FieldTypes => g[x] \in FieldTypes[x]
        BY <1>10, <3>1, <3>2
      <3> HIDE DEF Y
      <3> QED
        BY <1>8, <1>10, <2>2, <3>3, TypesKept
    <2>5. /\ g.MainJob = "GC" /\ g.CacheUpdated /\ g.InitGCState = "COMPLETE"
          /\ g.UserJob = f.UserJob /\ g.Cache = f.Cache /\ g.IntrJob = "IDLE"
          /\ g.StateCount = f.StateCount /\ g.CurrSector = o
      BY <1>6, <1>7, <2>2 DEF Fields
    <2> HIDE DEF X, Y
    <2> QED
      BY <1>10, <2>1, <2>3, <2>4, <2>5, FaultHandedOver
  <1>11. CASE ThresholdCrossed(Free(n.NextFreePage), PerWL)
    <2> DEFINE g == [GcFail(n) EXCEPT !.Req = StuckReq]
    <2>1. StuckReq \in Requests /\ StuckReq.stage = "stuck" /\ StuckReq # NoReq
      <3>1. StuckReq \in Requests /\ StuckReq.stage = "stuck"
        BY SlotFacts DEF StuckReq, Requests
      <3> QED
        BY <3>1, FeeNulls
    <2>2. /\ g.GcState = "FAIL" /\ g.Req = StuckReq /\ DOMAIN g = Fields
          /\ \A x \in Fields \ {"GcState", "Req"} : g[x] = n[x]
      BY <1>6 DEF GcFail, Fields
    <2>3. NewSectorValid(h) = g
      BY <1>5, <1>11
    <2> HIDE DEF g
    <2>4. g.GcInit \in BOOLEAN /\ g.GcDest \in Nat
      <3>1. g.GcInit = n.GcInit /\ g.GcDest = n.GcDest
        BY <2>2 DEF Fields
      <3>2. n.GcInit \in BOOLEAN /\ n.GcDest \in Nat
        BY <1>8, FieldFacts
      <3> QED
        BY <3>1, <3>2
    <2>5. Stage(g, "stuck")
      BY <2>1, <2>2 DEF Stage
    <2>6. FaultInv(flash, g, NoJob)
      BY <1>10, <2>1, <2>2, <2>4, <2>5
    <2> QED
      BY <2>3, <2>6
  <1>12. CASE /\ ~ThresholdCrossed(Free(n.NextFreePage), PerWL)
              /\ Requested(n) /\ ~BlkWritable(n)
    <2> DEFINE g == [GcFail(checked) EXCEPT !.Req = NoReq]
    <2>1. /\ g.GcState = "FAIL" /\ g.Req = NoReq /\ DOMAIN g = Fields
          /\ \A x \in Fields \ {"GcState", "Req"} : g[x] = checked[x]
      BY <1>9 DEF GcFail, Fields
    <2>2. NewSectorValid(h) = g
      BY <1>5, <1>12
    <2> HIDE DEF g
    <2>3. g.GcInit \in BOOLEAN /\ g.GcDest \in Nat
      <3>1. g.GcInit = n.GcInit /\ g.GcDest = n.GcDest
        BY <1>9, <2>1 DEF Fields
      <3>2. n.GcInit \in BOOLEAN /\ n.GcDest \in Nat
        BY <1>8, FieldFacts
      <3> QED
        BY <3>1, <3>2
    <2>4. FaultInv(flash, g, NoJob)
      BY <1>10, <2>1, <2>3
    <2> QED
      BY <2>2, <2>4
  <1>13. CASE /\ ~ThresholdCrossed(Free(n.NextFreePage), PerWL)
              /\ ~(Requested(n) /\ ~BlkWritable(n))
    <2> DEFINE g == [checked EXCEPT !.GcDest = 0, !.GcState = "ERASE", !.GcInit = FALSE]
    <2>1. /\ g.GcState = "ERASE" /\ g.GcDest = 0 /\ g.GcInit = FALSE /\ DOMAIN g = Fields
          /\ \A x \in Fields \ {"GcState", "GcDest", "GcInit"} : g[x] = checked[x]
      BY <1>9 DEF Fields
    <2>2. NewSectorValid(h) = g
      BY <1>5, <1>13
    <2> HIDE DEF g
    <2>3. g.Req = f.Req
      BY <1>7, <1>9, <2>1 DEF Fields
    <2>4. ~Stage(g, "stuck")
      BY <1>1, <2>3 DEF Stage
    <2>5. /\ g.Req \in Requests \cup {NoReq} /\ g.GcInit \in BOOLEAN /\ g.GcDest \in Nat
          /\ \A x \in Fields \ {"GcState", "Req", "GcDest", "GcInit"} : g[x] = checked[x]
      <3>1. g.Req \in Requests \cup {NoReq}
        BY <1>1, <2>3
      <3>2. FALSE \in BOOLEAN /\ 0 \in Nat
        OBVIOUS
      <3>3. g.GcInit \in BOOLEAN /\ g.GcDest \in Nat
        BY <2>1, <3>2
      <3>4. \A x \in Fields \ {"GcState", "Req", "GcDest", "GcInit"} : g[x] = checked[x]
        BY <2>1
      <3> QED
        BY <3>1, <3>3, <3>4
    <2>6. FaultInv(flash, g, NoJob)
      BY <1>10, <2>1, <2>3, <2>4, <2>5
    <2> QED
      BY <2>2, <2>6
  <1> QED
    BY <1>11, <1>12, <1>13

\* The job that the state of the collection asks for.
LEMMA FaultGcStart ==
  ASSUME NEW f, FaultInv(flash, f, NoJob), f.MainJob = "GC", f.IntrJob = "IDLE", job = NoJob,
         GcStart(f)
  PROVE  FaultInv(flash, fee', job')
  <1>1. /\ GcFault(flash, f, NoJob) /\ f.InitGCState = "COMPLETE" /\ Oth(f) = Other(f.CurrSector)
    BY FaultGcFacts
  <1>2. CASE f.GcState = "REQUESTED"
    <2> DEFINE g == GcRequested(f)
    <2>1. FaultInv(flash, g, NoJob) /\ g.MainJob = "GC" /\ g.GcState = "START_COPY"
      BY <1>2, FaultGcRequested
    <2>2. GcStartCopy(g)
      BY <1>2 DEF GcStart
    <2> HIDE DEF g
    <2> QED
      BY <2>1, <2>2, FaultGcStartCopy
  <1>3. CASE f.GcState = "START_COPY"
    <2>1. GcStartCopy(f)
      BY <1>3 DEF GcStart
    <2> QED
      BY <1>3, <2>1, FaultGcStartCopy
  <1>4. CASE f.GcState \in {"V_SP", "E_SP"}
    <2>1. GcStatePage(f)
      BY <1>4 DEF GcStart
    <2> QED
      BY <1>4, <2>1, FaultGcStatePage
  <1>5. CASE f.GcState \in {"V_M", "E_M"}
    <2>1. ~MarkerRuns(flash, NoJob, Oth(f), f.GcDest)
      BY DEF MarkerRuns, Marks, IsJob
    <2>2. ~MarkerEnded(flash, f.IntrJob, Oth(f), f.GcDest)
      BY DEF MarkerEnded
    <2> QED
      BY <1>1, <1>5, <2>1, <2>2 DEF GcFault
  <1>6. CASE f.GcState = "ERASE"
    <2>1. fee' = f /\ job' = EraseSector(Oth(f))
      BY <1>1, <1>6 DEF GcStart, Start
    <2> QED
      BY <1>6, <2>1, FaultGcErase
  <1>7. CASE f.GcState \notin {"REQUESTED", "START_COPY", "V_SP", "E_SP", "V_M", "E_M", "ERASE"}
    <2>1. fee' = f /\ job' = NoJob
      BY <1>7 DEF GcStart, Continue
    <2> QED
      BY <2>1
  <1> QED
    BY <1>2, <1>3, <1>4, <1>5, <1>6, <1>7

\* The result of the job that has ended, and the job that it may start at once.
LEMMA FaultGcResult ==
  ASSUME NEW f, FaultInv(flash, f, NoJob), f.MainJob = "GC", f.IntrJob # "IDLE", job = NoJob,
         UndoExactOf(flash, f),
         NEW g, g = GcResult([f EXCEPT !.IntrJob = "IDLE"], f.IntrJob = "PASS"),
         \/ <<f.GcState, g.GcState>> \in GoesOn /\ GcStart(g)
         \/ <<f.GcState, g.GcState>> \notin GoesOn /\ Continue(g)
  PROVE  FaultInv(flash, fee', job')
  <1> DEFINE h == [f EXCEPT !.IntrJob = "IDLE"]
             passed == f.IntrJob = "PASS"
  <1>1. /\ FaultTypes(f) /\ DOMAIN f = Fields /\ Oth(f) = Other(f.CurrSector)
        /\ f.IntrJob \in {"PASS", "FAIL"} /\ f.GcState \in Busy
    BY FaultGcFacts, FaultGcEnded
  <1>2. Same(f, h, {"IntrJob"}) /\ h.IntrJob = "IDLE" /\ h.GcState = f.GcState
        /\ h.CurrSector = f.CurrSector /\ h.GcDest = f.GcDest /\ DOMAIN h = Fields
    BY <1>1 DEF Same, Fields
  <1>3. g = GcResult(h, passed)
    OBVIOUS
  <1> HIDE DEF h
  <1>4. ASSUME FaultInv(flash, g, NoJob), <<f.GcState, g.GcState>> \notin GoesOn
        PROVE  FaultInv(flash, fee', job')
    <2>1. fee' = g /\ job' = NoJob
      BY <1>4 DEF Continue
    <2> QED
      BY <1>4, <2>1
  <1>5. CASE f.GcState = "COPY_WRITE"
    <2>1. <<f.GcState, g.GcState>> \notin GoesOn
      BY <1>5 DEF GoesOn
    <2>2. CASE f.IntrJob = "PASS"
      <3>1. g = CopyDone(h)
        BY <1>2, <1>3, <1>5, <2>2 DEF GcResult
      <3>2. FaultInv(flash, CopyDone(h), NoJob)
        BY <1>2, <1>5, <2>2, FaultCopyDone
      <3> QED
        BY <1>4, <2>1, <3>1, <3>2
    <2>3. CASE f.IntrJob = "FAIL"
      <3>1. g = CopyFailed(h)
        BY <1>2, <1>3, <1>5, <2>3 DEF GcResult
      <3>2. FaultInv(flash, CopyFailed(h), NoJob)
        BY <1>2, <1>5, <2>3, FaultCopyFailed
      <3> QED
        BY <1>4, <2>1, <3>1, <3>2
    <2> QED
      BY <1>1, <2>2, <2>3
  <1>6. ASSUME NEW p, NEW m, <<p, m>> \in {<<"V_SP", "V_M">>, <<"E_SP", "E_M">>}, f.GcState = p
        PROVE  FaultInv(flash, fee', job')
    <2>1. CASE f.IntrJob = "PASS"
      <3>1. g = [h EXCEPT !.GcState = m]
        BY <1>2, <1>3, <1>6, <2>1 DEF GcResult
      <3>2. /\ g.GcState = m /\ g.IntrJob = "IDLE" /\ g.CurrSector = f.CurrSector
            /\ g.GcDest = f.GcDest /\ Same(f, g, {"GcState", "IntrJob"})
        BY <1>2, <3>1 DEF Same, Fields
      <3>3. GcStart(g) /\ m \in {"V_M", "E_M"}
        BY <1>6, <3>2 DEF GoesOn
      <3>4. fee' = g /\ job' = ProgramMarker(Oth(f), f.GcDest)
        BY <1>1, <3>2, <3>3 DEF GcStart, Start
      <3> QED
        BY <1>6, <2>1, <3>2, <3>4, FaultGcMarker
    <2>2. CASE f.IntrJob = "FAIL"
      <3>1. g = PageFailed(h, p)
        BY <1>2, <1>3, <1>6, <2>2 DEF GcResult
      <3>2. FaultInv(flash, g, NoJob)
        BY <1>2, <1>6, <3>1, FaultPageFailed
      <3>3. g.GcState \in {p, "FAIL"}
        BY <1>2, <3>1 DEF PageFailed, GcFail, Fields
      <3>4. <<f.GcState, g.GcState>> \notin GoesOn
        BY <1>6, <3>3 DEF GoesOn
      <3> QED
        BY <1>4, <3>2, <3>4
    <2> QED
      BY <1>1, <2>1, <2>2
  <1>7. CASE f.GcState = "V_M"
    <2>1. <<f.GcState, g.GcState>> \notin GoesOn
      BY <1>7 DEF GoesOn
    <2>2. CASE f.IntrJob = "PASS"
      <3>1. g = NewSectorValid(h)
        BY <1>2, <1>3, <1>7, <2>2 DEF GcResult
      <3>2. FaultInv(flash, NewSectorValid(h), NoJob)
        BY <1>2, <1>7, <2>2, FaultNewSector
      <3> QED
        BY <1>4, <2>1, <3>1, <3>2
    <2>3. CASE f.IntrJob = "FAIL"
      <3>1. g = PageFailed(h, "V_SP")
        BY <1>2, <1>3, <1>7, <2>3 DEF GcResult
      <3>2. FaultInv(flash, g, NoJob)
        BY <1>2, <1>7, <3>1, FaultPageFailed
      <3> QED
        BY <1>4, <2>1, <3>2
    <2> QED
      BY <1>1, <2>2, <2>3
  <1>8. CASE f.GcState = "E_M"
    <2>1. <<f.GcState, g.GcState>> \notin GoesOn
      BY <1>8 DEF GoesOn
    <2>2. CASE f.IntrJob = "PASS"
      <3>1. g = OldSectorErased(h)
        BY <1>2, <1>3, <1>8, <2>2 DEF GcResult
      <3>2. FaultInv(flash, OldSectorErased(h), NoJob)
        BY <1>2, <1>8, <2>2, FaultOldSector
      <3> QED
        BY <1>4, <2>1, <3>1, <3>2
    <2>3. CASE f.IntrJob = "FAIL"
      <3>1. g = PageFailed(h, "E_SP")
        BY <1>2, <1>3, <1>8, <2>3 DEF GcResult
      <3>2. FaultInv(flash, g, NoJob)
        BY <1>2, <1>8, <3>1, FaultPageFailed
      <3> QED
        BY <1>4, <2>1, <3>2
    <2> QED
      BY <1>1, <2>2, <2>3
  <1>9. CASE f.GcState = "ERASE"
    <2>1. CASE f.IntrJob = "PASS"
      <3>1. g = EraseDone(h)
        BY <1>2, <1>3, <1>9, <2>1 DEF GcResult
      <3>2. FaultInv(flash, g, NoJob) /\ g.GcState = "E_SP" /\ g.IntrJob = "IDLE" /\ g.MainJob = "GC"
        BY <1>2, <1>9, <2>1, <3>1, FaultEraseDone
      <3>3. GcStart(g)
        BY <1>9, <3>2 DEF GoesOn
      <3> QED
        BY <3>2, <3>3, FaultGcStart
    <2>2. CASE f.IntrJob = "FAIL"
      <3>1. g = EraseFailed(h)
        BY <1>2, <1>3, <1>9, <2>2 DEF GcResult
      <3>2. FaultInv(flash, g, NoJob)
        BY <1>2, <1>9, <3>1, FaultEraseFailed
      <3>3. g.GcState \in {"ERASE", "FAIL"}
        BY <1>2, <1>9, <3>1 DEF EraseFailed, GcFail, Fields
      <3>4. <<f.GcState, g.GcState>> \notin GoesOn
        BY <1>9, <3>3 DEF GoesOn
      <3> QED
        BY <1>4, <3>2, <3>4
    <2> QED
      BY <1>1, <2>1, <2>2
  <1>10. /\ <<"V_SP", "V_M">> \in {<<"V_SP", "V_M">>, <<"E_SP", "E_M">>}
         /\ <<"E_SP", "E_M">> \in {<<"V_SP", "V_M">>, <<"E_SP", "E_M">>}
    OBVIOUS
  <1>11. f.GcState \in {"V_SP", "E_SP"} => FaultInv(flash, fee', job')
    BY <1>6, <1>10
  <1> QED
    BY <1>1, <1>5, <1>7, <1>8, <1>9, <1>11 DEF Busy

\* A step of the collection.
LEMMA FaultGarbageCollection ==
  ASSUME NEW f, FaultInv(flash, f, NoJob), job = NoJob, UndoExactOf(flash, f),
         GarbageCollection(f)
  PROVE  FaultInv(flash, fee', job')
  <1>1. f.MainJob = "GC"
    BY DEF GarbageCollection
  <1>2. CASE f.IntrJob = "IDLE"
    BY <1>1, <1>2, FaultGcStart DEF GarbageCollection
  <1>3. CASE f.IntrJob # "IDLE"
    <2> DEFINE g == GcResult([f EXCEPT !.IntrJob = "IDLE"], f.IntrJob = "PASS")
    <2>1. \/ <<f.GcState, g.GcState>> \in GoesOn /\ GcStart(g)
          \/ <<f.GcState, g.GcState>> \notin GoesOn /\ Continue(g)
      BY <1>3 DEF GarbageCollection
    <2>2. g = GcResult([f EXCEPT !.IntrJob = "IDLE"], f.IntrJob = "PASS")
      OBVIOUS
    <2> HIDE DEF g
    <2> QED
      BY <1>1, <1>3, <2>1, <2>2, FaultGcResult
  <1> QED
    BY <1>2, <1>3

-----------------------------------------------------------------------------
(* Every step keeps the invariant.                                          *)

\* A call of the main function keeps it.
LEMMA FaultMainFunction ==
  ASSUME WLs >= 6, FaultInv(flash, fee, job), UndoExact, MainFunction
  PROVE  FaultInv(flash', fee', job')
  <1> DEFINE f == DecideMainJob(fee)
  <1>1. flash' = flash
    BY DEF MainFunction
  <1>2. /\ FaultInv(flash, f, job)
        /\ \A x \in Fields \ {"MainJob", "NextFreePage"} : f[x] = fee[x]
        /\ f.MainJob \in {"READ", "WRITE"} => f.Req # NoReq
        /\ f.MainJob = "READ" /\ job = NoJob => Stage(f, "toRead")
    BY FaultDecide
  <1>3. f.MainJob = "CACHEUPDATE" => ~fee.CacheUpdated
    BY FaultCacheBuiltOnce
  <1>4. \/ Continue(f)
        \/ job = NoJob /\ (InitGC(f) \/ UpdateCache(f) \/ LocalRead(f) \/ LocalWrite(f)
                           \/ GarbageCollection(f))
    BY DEF MainFunction
  <1> HIDE DEF f
  <1>5. /\ f.CacheUpdated = fee.CacheUpdated /\ f.GcState = fee.GcState /\ f.IntrJob = fee.IntrJob
        /\ f.IntrJobFailCount = fee.IntrJobFailCount /\ f.GcSrcAddr = fee.GcSrcAddr
        /\ f.GcFirstBlkInWL = fee.GcFirstBlkInWL /\ f.GcCopyIndex = fee.GcCopyIndex
    BY <1>2 DEF Fields
  <1>6. UndoExactOf(flash, f)
    BY <1>5 DEF UndoExact, UndoExactOf
  <1>7. CASE Continue(f)
    <2>1. fee' = f /\ job' = job
      BY <1>7 DEF Continue
    <2> QED
      BY <1>1, <1>2, <2>1
  <1>8. CASE job = NoJob /\ InitGC(f)
    <2>1. FaultInv(flash, f, NoJob)
      BY <1>2, <1>8
    <2>2. FaultInv(flash, fee', job')
      BY <1>8, <2>1, FaultInitGC
    <2> QED
      BY <1>1, <2>2
  <1>9. CASE job = NoJob /\ UpdateCache(f)
    <2>1. FaultInv(flash, f, NoJob) /\ ~f.CacheUpdated
      BY <1>2, <1>3, <1>5, <1>9 DEF UpdateCache
    <2>2. FaultInv(flash, fee', job')
      BY <1>9, <2>1, FaultUpdateCache
    <2> QED
      BY <1>1, <2>2
  <1>10. CASE job = NoJob /\ LocalRead(f)
    <2>1. FaultInv(flash, f, NoJob) /\ Stage(f, "toRead")
      BY <1>2, <1>10 DEF LocalRead
    <2>2. FaultInv(flash, fee', job')
      BY <1>10, <2>1, FaultLocalRead
    <2> QED
      BY <1>1, <2>2
  <1>11. CASE job = NoJob /\ LocalWrite(f)
    <2>1. FaultInv(flash, f, NoJob) /\ f.Req # NoReq
      BY <1>2, <1>11 DEF LocalWrite
    <2>2. FaultInv(flash, fee', job')
      BY <1>11, <2>1, FaultLocalWrite
    <2> QED
      BY <1>1, <2>2
  <1>12. CASE job = NoJob /\ GarbageCollection(f)
    <2>1. FaultInv(flash, f, NoJob)
      BY <1>2, <1>12
    <2>2. FaultInv(flash, fee', job')
      BY <1>6, <1>12, <2>1, FaultGarbageCollection
    <2> QED
      BY <1>1, <2>2
  <1> QED
    BY <1>4, <1>7, <1>8, <1>9, <1>10, <1>11, <1>12

\* A new request keeps it.
LEMMA FaultNewRequest ==
  ASSUME FaultInv(flash, fee, job), NEW r \in Requests, r.stage \in {"request", "toRead"},
         fee.Req = NoReq, fee' = [fee EXCEPT !.Req = r], UNCHANGED <<flash, job>>
  PROVE  FaultInv(flash', fee', job')
  <1> DEFINE g == [fee EXCEPT !.Req = r]
  <1>1. DOMAIN fee = Fields
    BY DEF FaultInv, FaultTypes
  <1>2. Same(fee, g, {"Req"}) /\ g.Req = r
    BY <1>1 DEF Same, Fields
  <1> HIDE DEF g
  <1>3. FaultInv(flash, g, job)
    BY <1>2, FaultAccepted
  <1>4. fee' = g
    BY DEF g
  <1> QED
    BY <1>3, <1>4

\* Fee_Read, Fee_Write and Fee_InvalidateBlock keep it.
LEMMA FaultRequestStep ==
  ASSUME FaultInv(flash, fee, job), writes \in Nat, NEW b \in Blocks,
         Read(b) \/ Write(b) \/ InvalidateBlock(b)
  PROVE  FaultInv(flash', fee', job') /\ writes' \in Nat
  <1>1. ASSUME NEW v \in Values \cup {NoValue}, NEW i \in BOOLEAN, NewRequest(b, v, i),
               fee.Req = NoReq, UNCHANGED <<flash, job>>
        PROVE  FaultInv(flash', fee', job')
    <2> DEFINE r == [blk |-> b, val |-> v, invalidate |-> i, stage |-> "request"]
    <2>1. r \in Requests /\ r.stage = "request"
      BY DEF Requests
    <2>2. fee' = [fee EXCEPT !.Req = r]
      BY <1>1 DEF NewRequest
    <2> HIDE DEF r
    <2> QED
      BY <1>1, <2>1, <2>2, FaultNewRequest
  <1>2. CASE Read(b)
    <2> DEFINE r == [blk |-> b, val |-> NoValue, invalidate |-> FALSE, stage |-> "toRead"]
    <2>1. r \in Requests /\ r.stage = "toRead"
      BY DEF Requests
    <2>2. fee.Req = NoReq /\ fee' = [fee EXCEPT !.Req = r] /\ UNCHANGED <<flash, job, writes>>
      BY <1>2 DEF Read
    <2> HIDE DEF r
    <2> QED
      BY <2>1, <2>2, FaultNewRequest
  <1>3. CASE Write(b)
    <2>1. writes < MaxWrites /\ writes' = writes + 1 /\ MaxWrites \in Nat
      BY <1>3, FeeConstants DEF Write
    <2>2. writes + 1 \in Values
      BY <2>1 DEF Values
    <2>3. NewRequest(b, writes + 1, FALSE) /\ fee.Req = NoReq /\ UNCHANGED <<flash, job>>
      BY <1>3 DEF Write
    <2>6. writes' \in Nat
      BY <2>1
    <2>4. writes + 1 \in Values \cup {NoValue} /\ FALSE \in BOOLEAN
      BY <2>2
    <2>5. FaultInv(flash', fee', job')
      BY <1>1, <2>3, <2>4
    <2> QED
      BY <2>5, <2>6
  <1>4. CASE InvalidateBlock(b)
    <2>1. NewRequest(b, NoValue, TRUE) /\ fee.Req = NoReq /\ UNCHANGED <<flash, job>>
      BY <1>4 DEF InvalidateBlock
    <2>4. writes' \in Nat
      BY <1>4 DEF InvalidateBlock
    <2>2. NoValue \in Values \cup {NoValue} /\ TRUE \in BOOLEAN
      OBVIOUS
    <2>3. FaultInv(flash', fee', job')
      BY <1>1, <2>1, <2>2
    <2> QED
      BY <2>3, <2>4
  <1> QED
    BY <1>2, <1>3, <1>4

\* Fee_Cancel keeps it.
LEMMA FaultCancelStep ==
  ASSUME FaultInv(flash, fee, job), Cancel
  PROVE  FaultInv(flash', fee', job')
  <1> DEFINE g == [fee EXCEPT !.Req = NoReq, !.UserJobFailCount = 0]
             k == IF Stage(fee, "reading") THEN NoJob ELSE job
             X == {"Req", "UserJobFailCount"}
  <1>1. /\ FaultTypes(fee) /\ DOMAIN fee = Fields /\ UserFault(flash, fee, job) /\ MainInv(fee, job)
        /\ fee.NextFreePage \in Nat
    BY FieldFacts DEF FaultInv
  <1>2. /\ fee' = g /\ job' = k /\ flash' = flash
        /\ ~UserWrites(fee) /\ ~Stage(fee, "fail")
    BY DEF Cancel, Stage, UserWrites
  <1>3. Same(fee, g, X) /\ g.Req = NoReq /\ g.UserJobFailCount = 0
    BY <1>1 DEF Same, Fields
  <1> HIDE DEF g
  <1>4. /\ g.NextFreePage = fee.NextFreePage /\ g.UserJob = fee.UserJob
        /\ g.CacheUpdated = fee.CacheUpdated /\ g.CurrSector = fee.CurrSector
    BY <1>3 DEF Same, Fields
  <1>5. FaultTypes(g)
    <2>1. \A x \in X : x \in DOMAIN FieldTypes => g[x] \in FieldTypes[x]
      BY <1>3 DEF FieldTypes
    <2>2. DOMAIN g = Fields /\ \A x \in Fields \ X : g[x] = fee[x]
      BY <1>3 DEF Same
    <2> HIDE DEF X
    <2> QED
      BY <1>1, <2>1, <2>2, TypesKept
  <1>6. ~IntrRuns(NoJob) /\ (Stage(fee, "reading") => ~IntrRuns(job) /\ fee.CacheUpdated)
    <2>1. Stage(fee, "reading") => ~IntrRuns(job)
      BY <1>1, StagesMain
    <2> QED
      BY <1>1, <2>1 DEF UserFault, IntrRuns
  <1>7. k = NoJob \/ IntrRuns(k)
    BY <1>1, <1>2, StagesMain
  <1>8. \A st : ~Stage(g, st)
    BY <1>3 DEF Stage
  <1>9. UserFault(flash, g, k)
    <2>1. fee.UserJob = "IDLE" /\ (fee.CacheUpdated => Open(flash[Cur(fee)], fee.NextFreePage))
      BY <1>1, <1>2 DEF UserFault
    <2>2. Cur(g) = Cur(fee)
      BY <1>4 DEF Cur
    <2> HIDE DEF k
    <2> QED
      BY <1>4, <1>7, <1>8, <2>1, <2>2 DEF UserFault, UserWrites
  <1>10. /\ IntrRuns(job) \/ IntrRuns(k) => k = job
         /\ ~fee.CacheUpdated => k = job
         /\ fee.NextFreePage <= g.NextFreePage
    BY <1>1, <1>4, <1>6
  <1>11. X \subseteq {"Req", "Affected", "UserJob", "NextFreePage", "UserJobFailCount"}
    OBVIOUS
  <1> HIDE DEF k, X
  <1>12. FaultInv(flash, g, k)
    BY <1>3, <1>4, <1>5, <1>9, <1>10, <1>11, FaultRequestFrame
  <1> QED
    BY <1>2, <1>12

\* The inductive invariant; writes, the number of requests, is part of it for
\* the values they carry.
FaultyInv == FaultInv(flash, fee, job) /\ writes \in Nat

\* Every step from a state where the undo would be exact keeps it.
LEMMA FaultStep ==
  ASSUME WLs >= 6, FaultyInv, UndoExact, [Next]_vars
  PROVE  FaultyInv'
  <1>1. FaultInv(flash, fee, job) /\ writes \in Nat
    BY DEF FaultyInv
  <1>2. SUFFICES FaultInv(flash', fee', job') /\ writes' \in Nat
    BY DEF FaultyInv
  <1>3. CASE MainFunction
    BY <1>1, <1>3, FaultMainFunction DEF MainFunction
  <1>4. CASE JobEndNotification \/ JobFails
    <2>1. writes' = writes
      BY <1>4 DEF JobEndNotification, JobFails, JobEnd
    <2> QED
      BY <1>1, <1>4, <2>1, FaultJobStep
  <1>5. CASE \E b \in Blocks : Read(b) \/ Write(b) \/ InvalidateBlock(b)
    BY <1>1, <1>5, FaultRequestStep
  <1>6. CASE Cancel
    <2>1. writes' = writes
      BY <1>6 DEF Cancel
    <2> QED
      BY <1>1, <1>6, <2>1, FaultCancelStep
  <1>7. CASE Reset
    <2>1. writes' = writes
      BY <1>7 DEF Reset
    <2> QED
      BY <1>1, <1>7, <2>1, FaultResetStep
  <1>8. CASE UNCHANGED vars
    <2>1. UNCHANGED <<flash, fee, job, writes>>
      BY <1>8 DEF vars
    <2> QED
      BY <1>1, <2>1
  <1> QED
    BY <1>3, <1>4, <1>5, <1>6, <1>7, <1>8 DEF Next

\* It says that no page is programmed twice.
LEMMA FaultBlankFlash ==
  ASSUME FaultInv(flash, fee, job)
  PROVE  ProgramsBlankFlash
  <1>1. /\ InOrder(flash) /\ FaultTypes(fee) /\ UserFault(flash, fee, job)
        /\ GcFault(flash, fee, job) /\ CacheFault(flash, fee) /\ RepairFault(flash, fee, job)
    BY DEF FaultInv
  <1>2. SUFFICES ASSUME job # NoJob PROVE ProgramsBlankFlash
    BY DEF ProgramsBlankFlash
  <1>3. ASSUME NEW owner, NEW s, NEW a, NEW c, Programming(flash, job, owner, s, a, c),
               c.kind = "copy"
        PROVE  ProgramsBlankFlash
    <2>1. /\ job.op = "program" /\ job.sector = s /\ job.addr = a /\ job.cell = c
          /\ a \in Slots /\ BlankFrom(flash[s], a)
      BY <1>3 DEF Programming, Programs, IsJob, Open
    <2>2. flash[s][a] = Blank
      BY <2>1, SlotFacts DEF BlankFrom
    <2> QED
      BY <1>3, <2>1, <2>2 DEF ProgramsBlankFlash
  <1>4. ASSUME NEW s, NEW a, PageRuns(flash, job, s, a)
        PROVE  ProgramsBlankFlash
    <2>1. /\ job.op = "program" /\ job.sector = s /\ job.addr = a
          /\ a \in Slots /\ BlankFrom(flash[s], a) /\ IsWLBeginning(a)
      BY <1>4 DEF PageRuns, IsJob, OpenWL
    <2>2. /\ WLBeginning(a) = a /\ NextWL(a) <= WLs * PerWL /\ a \in Nat /\ NextWL(a) \in Nat
      BY <2>1, WordlineFacts, WordlineSlots, SlotFacts
    <2>3. \A p \in a .. NextWL(a) - 1 : flash[s][p] = Blank
      <3>1. \A p \in a .. NextWL(a) - 1 : p \in Slots /\ p >= a
        BY <2>2, SlotFacts
      <3> QED
        BY <2>1, <3>1 DEF BlankFrom
    <2>4. flash[s][a] = Blank
      BY <2>1, SlotFacts DEF BlankFrom
    <2> QED
      BY <2>1, <2>2, <2>3, <2>4 DEF ProgramsBlankFlash
  <1>5. ASSUME NEW s, NEW a, MarkerRuns(flash, job, s, a)
        PROVE  ProgramsBlankFlash
    <2>1. /\ job.op = "marker" /\ job.sector = s /\ job.addr = a
          /\ flash[s][a] \in Pages /\ flash[s][a].mark = "none"
      BY <1>5 DEF MarkerRuns, Marks, IsJob, IsPage
    <2>2. flash[s][a].kind = "state"
      BY <2>1 DEF Pages
    <2> QED
      BY <2>1, <2>2 DEF ProgramsBlankFlash
  <1>6. ASSUME fee.InitGCState = "DIRTY", fee.RepairStep = "MARKER", IntrRuns(job),
               Marks(flash, job, DirtySector(fee), fee.StatePageAddr[DirtySector(fee)])
        PROVE  ProgramsBlankFlash
    <2> DEFINE s == DirtySector(fee)
    <2>1. fee.Dirty[s] /\ s \in Sectors
      <3>1. PICK t \in Sectors : fee.Dirty[t]
        BY <1>1, <1>6 DEF RepairFault
      <3>2. Cur(fee) \in Sectors /\ s \in Sectors /\ Oth(fee) \in Sectors
        BY <1>1, FieldFacts
      <3> QED
        BY <3>1, <3>2, SlotFacts DEF DirtySector, Cur, Other
    <2>2. flash[s][fee.StatePageAddr[s]].kind = "state"
      BY <1>1, <1>6, <2>1 DEF RepairFault
    <2>3. job.op = "marker" /\ job.sector = s /\ job.addr = fee.StatePageAddr[s]
      BY <1>6 DEF Marks, IsJob
    <2> HIDE DEF s
    <2> QED
      BY <1>6, <2>2, <2>3 DEF ProgramsBlankFlash
  <1>7. ASSUME job.op \in {"read", "erase"} PROVE ProgramsBlankFlash
    BY <1>7 DEF ProgramsBlankFlash
  <1>8. UserWrites(fee) /\ fee.CacheUpdated => UserCell(flash, fee).kind = "copy"
    BY <1>1 DEF UserFault, UserWrites, UserCell, BlockCopy
  <1>9. fee.InitGCState = "COMPLETE" /\ fee.GcState = "COPY_WRITE"
          => GcCopyOf(flash, fee).kind = "copy"
    <2>1. SUFFICES ASSUME fee.InitGCState = "COMPLETE", fee.GcState = "COPY_WRITE"
                   PROVE  GcCopyOf(flash, fee).kind = "copy"
      OBVIOUS
    <2>2. fee.CacheUpdated
      BY <2>1 DEF FaultInv, MainInv
    <2>3. LET b == fee.GcCopyIndex
          IN b \in Blocks /\ fee.Cache[b] # NoAddr /\ fee.Cache[b].sector = Cur(fee)
      BY <1>1, <2>1 DEF GcFault
    <2> QED
      BY <1>1, <2>2, <2>3 DEF CacheFault, GcCopyOf
  <1>10. \A s, c : Erases(job, s) => job.op = "erase"
    BY DEF Erases, IsJob
  <1>11. \A at : Reads(flash, job, at) => job.op = "read"
    BY DEF Reads, IsJob
  <1>12. \/ /\ UserWrites(fee) /\ fee.CacheUpdated
            /\ Programming(flash, job, "user", Cur(fee), fee.NextFreePage, UserCell(flash, fee))
         \/ \E at \in Addresses : Reads(flash, job, at)
         \/ \E s, a : PageRuns(flash, job, s, a) \/ MarkerRuns(flash, job, s, a)
         \/ /\ fee.InitGCState = "DIRTY" /\ fee.RepairStep = "MARKER" /\ IntrRuns(job)
            /\ Marks(flash, job, DirtySector(fee), fee.StatePageAddr[DirtySector(fee)])
         \/ /\ fee.InitGCState = "COMPLETE" /\ fee.GcState = "COPY_WRITE"
            /\ Programming(flash, job, "intr", Oth(fee), fee.GcDest, GcCopyOf(flash, fee))
         \/ Erases(job, Oth(fee))
    <2> QED
      BY <1>2, FaultForms DEF Busy
  <1> QED
    BY <1>3, <1>4, <1>5, <1>6, <1>7, <1>8, <1>9, <1>10, <1>11, <1>12

-----------------------------------------------------------------------------

\* However many jobs fail no page is programmed twice between two erasures, as
\* long as no copy of a collection fails in a wordline whose copies
\* Fee_lHandleConfigGcCopyError would take back wrongly.
THEOREM FaultFlashCorrect ==
  ASSUME WLs >= 6 PROVE Spec /\ []UndoExact => []ProgramsBlankFlash
  <1>1. Init => FaultyInv
    BY FaultStart DEF Init, FaultyInv
  <1>2. FaultyInv /\ UndoExact /\ [Next]_vars => FaultyInv'
    BY FaultStep
  <1>3. FaultyInv => ProgramsBlankFlash
    BY FaultBlankFlash DEF FaultyInv
  <1> QED
    BY <1>1, <1>2, <1>3, PTL DEF Spec

\* With one copy per wordline there is nothing to take back.
LEMMA OneCopyUndo ==
  ASSUME PerWL = 1, FaultyInv PROVE UndoExact
  <1>1. SUFFICES ASSUME fee.GcState = "COPY_WRITE", fee.IntrJob = "FAIL"
                 PROVE  DOMAIN fee.GcSrcAddr = {}
    BY DEF UndoExact, UndoExactOf
  <1>2. /\ fee.InitGCState = "COMPLETE" /\ GcFault(flash, fee, job) /\ FaultTypes(fee)
    BY <1>1 DEF FaultyInv, FaultInv, MainInv
  <1>3. fee.GcDest \in Nat
    BY <1>2, FieldFacts
  <1>4. IsWLBeginning(fee.GcDest)
    BY <1>3 DEF IsWLBeginning
  <1>5. fee.GcSrcAddr = <<>>
    BY <1>1, <1>2, <1>4 DEF GcFault
  <1> QED
    BY <1>5

\* Then no page is programmed twice, however many jobs fail.
THEOREM FaultFlashOneCopy ==
  ASSUME WLs >= 6, PerWL = 1 PROVE Spec => []ProgramsBlankFlash
  <1>1. Init => FaultyInv
    BY FaultStart DEF Init, FaultyInv
  <1>2. FaultyInv /\ [Next]_vars => FaultyInv'
    BY OneCopyUndo, FaultStep
  <1>3. FaultyInv => ProgramsBlankFlash
    BY FaultBlankFlash DEF FaultyInv
  <1> QED
    BY <1>1, <1>2, <1>3, PTL DEF Spec
=============================================================================
