----------------------------- MODULE EchoProofs -----------------------------
(***************************************************************************)
(* Theorems about Echo for every size of storage and all segments lwIP     *)
(* may deliver: the callbacks lwIP may make and the session they are made  *)
(* with come and go together and the heap is accounted for, no byte is     *)
(* lost between callbacks, and echoUnpack loops for ever only with an      *)
(* overfull storage.                                                       *)
(***************************************************************************)
EXTENDS Echo, SequenceLemmas

\* A session always has a state: what a callback writes into it keeps its
\* fields.
SessionInv ==
  /\ "state" \in DOMAIN es
  /\ callbacks \in BOOLEAN /\ conn \in BOOLEAN
  /\ heap \in 0 .. HeapSessions /\ unclaimed \in 0 .. HeapSessions
  /\ SessionMatchesConnection

\* What becomes of a session in echoUnpack and echoSend.
LEMMA StateIsKept ==
  ASSUME NEW session, "state" \in DOMAIN session, NEW wr
  PROVE  /\ "state" \in DOMAIN Unpacked(session)
         /\ Unpacked(session).state = session.state
         /\ "state" \in DOMAIN Sent(Unpacked(session), wr)
         /\ Sent(Unpacked(session), wr).state = session.state
  <1>1. /\ "state" \in DOMAIN Unpacked(session)
        /\ Unpacked(session).state = session.state
    BY DEF Unpacked
  <1>2. ASSUME NEW s, "state" \in DOMAIN s
        PROVE  /\ "state" \in DOMAIN [s EXCEPT !.pos = 0]
               /\ [s EXCEPT !.pos = 0].state = s.state
    BY <1>2
  <1>3. ASSUME NEW s, "state" \in DOMAIN s
        PROVE  /\ "state" \in DOMAIN Sent(s, wr)
               /\ Sent(s, wr).state = s.state
    <2>1. Sent(s, wr) = s \/ Sent(s, wr) = [s EXCEPT !.pos = 0]
      BY DEF Sent
    <2> QED
      BY <1>2, <1>3, <2>1
  <1> QED
    BY <1>1, <1>3

\* A callback that unpacks leaves a session in the state it gave it.
LEMMA UnpackKeepsSession ==
  ASSUME SessionInv, Called, NEW session, NEW wr,
         "state" \in DOMAIN session, session.state /= "ES_NONE",
         UnpackAndSend(session, wr)
  PROVE  SessionInv'
  <1>1. es' = Unpacked(session) \/ es' = Sent(Unpacked(session), wr)
    BY DEF UnpackAndSend
  <1>2. "state" \in DOMAIN es' /\ es'.state /= "ES_NONE"
    BY <1>1, StateIsKept
  <1>3. UNCHANGED <<callbacks, conn, heap, unclaimed>>
    BY DEF UnpackAndSend, sessions
  <1>4. callbacks /\ conn
    BY DEF Called
  <1> QED
    BY <1>2, <1>3, <1>4 DEF SessionInv, SessionMatchesConnection

\* A callback that ends the connection frees one session.
LEMMA FreeingKeepsSession ==
  ASSUME SessionInv, Called, es' = NoSession, callbacks' = FALSE, conn' = FALSE,
         heap' = heap - 1, unclaimed' = unclaimed
  PROVE  SessionInv'
  <1>1. /\ "state" \in DOMAIN es' /\ es'.state = "ES_NONE"
    BY DEF NoSession
  <1>2. heap = unclaimed + 1
    BY DEF SessionInv, SessionMatchesConnection, Called
  <1>3. /\ heap \in 0 .. HeapSessions /\ unclaimed \in 0 .. HeapSessions
        /\ HeapSessions \in Nat
    BY EchoConstants DEF SessionInv
  <1>4. heap' = unclaimed' /\ heap' \in 0 .. HeapSessions
    BY <1>2, <1>3
  <1>5. heap' = unclaimed' + IF conn' THEN 1 ELSE 0
    BY <1>3, <1>4
  <1> QED
    BY <1>1, <1>3, <1>4, <1>5 DEF SessionInv, SessionMatchesConnection

LEMMA SessionInvInit == Init => SessionInv
  <1> SUFFICES ASSUME Init PROVE SessionInv
    OBVIOUS
  <1>1. /\ es = NoSession /\ callbacks = FALSE /\ conn = FALSE
        /\ heap = 0 /\ unclaimed = 0
    BY DEF Init
  <1>2. "state" \in DOMAIN es /\ es.state = "ES_NONE"
    BY <1>1 DEF NoSession
  <1>3. 0 \in 0 .. HeapSessions
    BY EchoConstants
  <1>4. heap = unclaimed + IF conn THEN 1 ELSE 0
    BY <1>1
  <1>5. SessionMatchesConnection
    BY <1>1, <1>2, <1>4, Zenon DEF SessionMatchesConnection
  <1> QED
    BY <1>1, <1>2, <1>3, <1>5 DEF SessionInv

LEMMA SessionInvStep == SessionInv /\ [Next]_vars => SessionInv'
  <1> SUFFICES ASSUME SessionInv, [Next]_vars PROVE SessionInv'
    OBVIOUS
  <1>f. /\ heap \in 0 .. HeapSessions /\ unclaimed \in 0 .. HeapSessions
        /\ HeapSessions \in Nat
        /\ heap = unclaimed + IF conn THEN 1 ELSE 0
    BY EchoConstants DEF SessionInv, SessionMatchesConnection
  <1>0. CASE Over \/ UNCHANGED vars
    BY <1>0 DEF Over, vars, sessions, SessionInv, SessionMatchesConnection
  <1>1. CASE echoAccept
    <2>1. CASE UNCHANGED vars
      BY <1>0, <2>1
    <2>2. CASE ~UNCHANGED vars
      <3>1. /\ ~conn /\ heap < HeapSessions /\ heap' = heap + 1
            /\ es' = NewSession /\ callbacks' = TRUE /\ conn' = TRUE
            /\ unclaimed' = unclaimed
        BY <1>1, <2>2 DEF echoAccept
      <3>2. "state" \in DOMAIN es' /\ es'.state = "ES_ACCEPTED"
        BY <3>1 DEF NewSession, NoSession
      <3>3. heap = unclaimed
        BY <1>f, <3>1
      <3>4. heap' = unclaimed' + 1 /\ heap' \in 0 .. HeapSessions
        BY <1>f, <3>1, <3>3
      <3> QED
        BY <1>f, <3>1, <3>2, <3>4 DEF SessionInv, SessionMatchesConnection
    <2> QED
      BY <2>1, <2>2
  <1>2. CASE echoError
    BY <1>2, FreeingKeepsSession DEF echoError
  <1>3. CASE echoAcceptNull
    <2>1. /\ heap < HeapSessions /\ heap' = heap + 1 /\ unclaimed' = unclaimed + 1
          /\ UNCHANGED <<es, callbacks, conn>>
      BY <1>3 DEF echoAcceptNull
    <2>2. unclaimed <= heap
      BY <1>f
    <2>3. heap' \in 0 .. HeapSessions /\ unclaimed' \in 0 .. HeapSessions
      BY <1>f, <2>1, <2>2
    <2>4. heap' = unclaimed' + IF conn' THEN 1 ELSE 0
      BY <1>f, <2>1
    <2> QED
      BY <2>1, <2>3, <2>4 DEF SessionInv, SessionMatchesConnection
  <1>4. ASSUME NEW wr \in WriteResults, echoPoll(wr) PROVE SessionInv'
    <2>1. Called /\ UnpackAndSend(es, wr)
      BY <1>4 DEF echoPoll
    <2>2. es.state /= "ES_NONE" /\ "state" \in DOMAIN es
      BY <2>1 DEF Called, SessionInv, SessionMatchesConnection
    <2> QED
      BY <2>1, <2>2, UnpackKeepsSession
  <1>5. ASSUME NEW wr \in WriteResults, echoRecvNull(wr) PROVE SessionInv'
    <2>1. CASE es.p = <<>>
      BY <1>5, <2>1, FreeingKeepsSession DEF echoRecvNull, echoClose
    <2>2. CASE es.p /= <<>>
      <3> DEFINE session == [es EXCEPT !.state = "ES_CLOSING"]
      <3>1. Called /\ UnpackAndSend(session, wr)
        BY <1>5, <2>2 DEF echoRecvNull
      <3>2. "state" \in DOMAIN session /\ session.state = "ES_CLOSING"
        BY DEF SessionInv
      <3> HIDE DEF session
      <3> QED
        BY <3>1, <3>2, UnpackKeepsSession
    <2> QED
      BY <2>1, <2>2
  <1>6. ASSUME NEW wr \in WriteResults, NEW p \in Segments, echoRecv(p, wr)
        PROVE  SessionInv'
    <2>1. CASE es.p = <<>> \/ es.state = "ES_ACCEPTED"
      <3> DEFINE session == [es EXCEPT !.state = "ES_RECEIVING", !.p = p]
      <3>1. Called /\ UnpackAndSend(session, wr)
        BY <1>6, <2>1 DEF echoRecv
      <3>2. "state" \in DOMAIN session /\ session.state = "ES_RECEIVING"
        BY DEF SessionInv
      <3> HIDE DEF session
      <3> QED
        BY <3>1, <3>2, UnpackKeepsSession
    <2>2. CASE ~(es.p = <<>> \/ es.state = "ES_ACCEPTED")
      <3>1. /\ es' = [es EXCEPT !.p = @ \o p]
            /\ UNCHANGED <<callbacks, conn, heap, unclaimed>>
        BY <1>6, <2>2 DEF echoRecv, sessions
      <3>2. "state" \in DOMAIN es' /\ es'.state = es.state
        BY <3>1 DEF SessionInv
      <3> QED
        BY <3>1, <3>2 DEF SessionInv, SessionMatchesConnection
    <2> QED
      BY <2>1, <2>2
  <1> QED
    BY <1>0, <1>1, <1>2, <1>3, <1>4, <1>5, <1>6 DEF Next

LEMMA SessionInvCorrect == Spec => []SessionInv
  BY SessionInvInit, SessionInvStep, PTL DEF Spec

\* However accept, recv, poll and error follow each other, for any number of
\* connections and any heap (echoAccept, echoClose and echoError in Echo.c): a
\* callback that lwIP may still make finds a session, the session of every
\* connection that ended was freed once, and the heap holds, besides the session
\* of the client, exactly those allocated by calls of echoAccept without a pcb.
THEOREM SessionCorrect == Spec => []SessionMatchesConnection
  <1>1. SessionInv => SessionMatchesConnection
    BY DEF SessionInv
  <1> QED
    BY <1>1, SessionInvCorrect, PTL

-----------------------------------------------------------------------------
(* The bytes of a chain of packets. *)

Pbuf  == [len : Nat \ {0}, line : BOOLEAN]
Chain == Seq(Pbuf)

Lens(p) == [k \in DOMAIN p |-> p[k].len]

LEMMA LensOfChain ==
  ASSUME NEW p \in Chain
  PROVE  /\ Lens(p) \in Seq(Nat) /\ Len(Lens(p)) = Len(p) /\ DOMAIN p = 1 .. Len(p)
         /\ \A k \in 1 .. Len(p) : Lens(p)[k] = p[k].len /\ p[k].len \in Nat \ {0}
  <1>1. \A k \in 1 .. Len(p) : p[k].len \in Nat \ {0}
    <2>1. \A k \in 1 .. Len(p) : p[k] \in Pbuf
      BY DEF Chain
    <2>2. \A r \in Pbuf : r.len \in Nat \ {0}
      BY DEF Pbuf
    <2> QED
      BY <2>1, <2>2
  <1>2. DOMAIN p = 1 .. Len(p) /\ Len(p) \in Nat
    BY DEF Chain
  <1>3. Lens(p) \in [1 .. Len(p) -> Nat]
    BY <1>1, <1>2 DEF Lens
  <1>4. Lens(p) \in Seq(Nat) /\ Len(Lens(p)) = Len(p)
    BY <1>2, <1>3
  <1> QED
    BY <1>1, <1>2, <1>4 DEF Lens

LEMMA BytesIsTotal ==
  ASSUME NEW p \in Chain
  PROVE  Bytes(p) = Total(Lens(p)) /\ Bytes(p) \in Nat
  <1> DEFINE n == Len(p)
             w == Lens(p)
             g == CHOOSE f : f = [s \in SUBSET DOMAIN p |->
                                    IF s = {} THEN 0 ELSE f[s \ {Max(s)}] + p[Max(s)].len]
  <1>1. /\ n \in Nat /\ DOMAIN p = 1 .. n /\ w \in Seq(Nat) /\ Len(w) = n
        /\ \A k \in 1 .. n : w[k] = p[k].len
    BY LensOfChain DEF Chain
  <1>2. Bytes(p) = g[DOMAIN p]
    BY Zenon DEF Bytes, FoldLeft, MapThenFoldSet
  <1> HIDE DEF n, w
  <1>3. ASSUME NEW f
        PROVE  SumIter(f, n, w)
                 <=> f = [s \in SUBSET (1 .. n) |->
                            IF s = {} THEN 0 ELSE f[s \ {Max(s)}] + p[Max(s)].len]
    <2>1. ASSUME NEW s \in SUBSET (1 .. n), s /= {} PROVE w[Max(s)] = p[Max(s)].len
      <3>1. s \in SUBSET (1 .. n + 1)
        BY <1>1
      <3>2. Max(s) \in s
        BY <1>1, <2>1, <3>1, LastIsMax
      <3> QED
        BY <1>1, <3>2
    <2>2. [s \in SUBSET (1 .. n) |->
             IF s = {} THEN 0 ELSE f[s \ {Max(s)}] + w[Max(s)]]
          = [s \in SUBSET (1 .. n) |->
               IF s = {} THEN 0 ELSE f[s \ {Max(s)}] + p[Max(s)].len]
      BY <2>1
    <2> QED
      BY <2>2, Zenon DEF SumIter
  <1>4. SumIter(g, n, w)
    <2>3. \E f : SumIter(f, n, w)
      BY <1>1, IterIsTotal
    <2>1. \E f : f = [s \in SUBSET DOMAIN p |->
                        IF s = {} THEN 0 ELSE f[s \ {Max(s)}] + p[Max(s)].len]
      <3>1. PICK f : SumIter(f, n, w)
        BY <2>3
      <3>2. f = [s \in SUBSET (1 .. n) |->
                   IF s = {} THEN 0 ELSE f[s \ {Max(s)}] + p[Max(s)].len]
        BY <1>3, <3>1, Zenon
      <3>3. DOMAIN p = 1 .. n
        BY <1>1
      <3> WITNESS f
      <3> QED
        BY <3>2, <3>3, Zenon
    <2>2. g = [s \in SUBSET DOMAIN p |->
                 IF s = {} THEN 0 ELSE g[s \ {Max(s)}] + p[Max(s)].len]
      BY <2>1, Zenon
    <2> QED
      BY <1>1, <1>3, <2>2, Zenon
  <1> HIDE DEF g
  <1> QED
    BY <1>1, <1>2, <1>4, IterIsTotal, TotalIsRunningSum DEF w

LEMMA BytesOfEmpty == <<>> \in Chain /\ Bytes(<<>>) = 0
  <1>1. <<>> \in Chain
    BY DEF Chain
  <1>2. Lens(<<>>) = <<>>
    BY DEF Lens
  <1> QED
    BY <1>1, <1>2, BytesIsTotal, TotalOfOne

\* What echoUnpack copies, one packet less stays.
LEMMA BytesOfTail ==
  ASSUME NEW p \in Chain, p /= <<>>
  PROVE  /\ p[1] \in Pbuf /\ p[1].len \in Nat \ {0} /\ p[1].line \in BOOLEAN
         /\ Tail(p) \in Chain /\ Len(Tail(p)) = Len(p) - 1
         /\ Bytes(p) = p[1].len + Bytes(Tail(p))
  <1>1. /\ p[1] \in Pbuf /\ Tail(p) \in Chain /\ Len(Tail(p)) = Len(p) - 1
        /\ \A k \in 1 .. Len(p) - 1 : Tail(p)[k] = p[k + 1]
        /\ Len(p) \in Nat \ {0}
    BY DEF Chain
  <1>2. p[1].len \in Nat \ {0} /\ p[1].line \in BOOLEAN
    BY <1>1 DEF Pbuf
  <1>3. Lens(Tail(p)) = Tail(Lens(p))
    <2> DEFINE a == Lens(Tail(p))
               b == Tail(Lens(p))
    <2>1. /\ Lens(p) \in Seq(Nat) /\ Lens(p) /= <<>> /\ Len(Lens(p)) = Len(p)
          /\ \A k \in 1 .. Len(p) : Lens(p)[k] = p[k].len
      BY <1>1, LensOfChain
    <2>2. /\ b \in Seq(Nat) /\ Len(b) = Len(p) - 1
          /\ \A k \in 1 .. Len(p) - 1 : b[k] = Lens(p)[k + 1]
      BY <2>1
    <2>3. /\ a \in Seq(Nat) /\ Len(a) = Len(p) - 1
          /\ \A k \in 1 .. Len(p) - 1 : a[k] = Tail(p)[k].len
      BY <1>1, LensOfChain
    <2> HIDE DEF a, b
    <2>4. ASSUME NEW k \in 1 .. Len(p) - 1 PROVE a[k] = b[k]
      <3>1. k + 1 \in 1 .. Len(p)
        BY <1>1
      <3> QED
        BY <1>1, <2>1, <2>2, <2>3, <3>1
    <2> QED
      BY <2>2, <2>3, <2>4, SeqEqual DEF a, b
  <1>4. /\ Lens(p) \in Seq(Nat) /\ Lens(p) /= <<>> /\ Lens(p)[1] = p[1].len
    BY <1>1, LensOfChain
  <1>5. Total(Lens(p)) = Lens(p)[1] + Total(Tail(Lens(p)))
    BY <1>4, TotalOfTail
  <1> QED
    BY <1>1, <1>2, <1>3, <1>4, <1>5, BytesIsTotal

-----------------------------------------------------------------------------
(* The loop of echoUnpack. *)

Session ==
  [state : {"ES_NONE", "ES_ACCEPTED", "ES_RECEIVING", "ES_CLOSING"},
   p : Chain, pos : 0 .. StorageSize, line : BOOLEAN]

\* One turn of it.
Turn(v) == IF Fits(v.pos, v.p[1]) THEN Store(v, v.p[1]) ELSE v

\* The recursion the fold of Unpacked is defined by.
UnpackIter(f, n, session) ==
  f = [s \in SUBSET (1 .. n) |-> IF s = {} THEN session ELSE Turn(f[s \ {Max(s)}])]

LEMMA UnpackIterExists ==
  ASSUME NEW n \in Nat, NEW session
  PROVE  \E f : UnpackIter(f, n, session)
  <1> DEFINE Iter(f, k) ==
               /\ DOMAIN f = SUBSET (1 .. k) /\ f = [s \in DOMAIN f |-> f[s]]
               /\ \A s \in SUBSET (1 .. k) :
                    f[s] = IF s = {} THEN session ELSE Turn(f[s \ {Max(s)}])
             Exists(k) == \E f : Iter(f, k)
             S == {k \in Nat : Exists(k)}
  <1>1. 0 \in S
    <2> DEFINE g == [s \in SUBSET (1 .. 0) |-> session]
    <2>1. \A s \in SUBSET (1 .. 0) : s = {}
      OBVIOUS
    <2> QED
      BY <2>1, Iter(g, 0)
  <1>2. ASSUME NEW k \in S PROVE k + 1 \in S
    <2>1. PICK f : Iter(f, k)
      BY Zenon
    <2> DEFINE g == [s \in SUBSET (1 .. k + 1) |->
                       IF k + 1 \in s THEN Turn(f[s \ {Max(s)}]) ELSE f[s]]
    <2>2. ASSUME NEW s \in SUBSET (1 .. k + 1)
          PROVE  g[s] = IF s = {} THEN session ELSE Turn(g[s \ {Max(s)}])
      <3>1. CASE k + 1 \in s
        <4>1. /\ s \ {Max(s)} \in SUBSET (1 .. k)
              /\ k + 1 \notin s \ {Max(s)} /\ s \ {Max(s)} \in SUBSET (1 .. k + 1)
          BY <3>1, LastIsMax
        <4>2. g[s \ {Max(s)}] = f[s \ {Max(s)}]
          BY <4>1
        <4> QED
          BY <3>1, <4>1, <4>2
      <3>2. CASE k + 1 \notin s
        <4>1. s \in SUBSET (1 .. k) /\ g[s] = f[s]
          BY <3>2, LastIsMax
        <4>2. s /= {} => s \ {Max(s)} \in SUBSET (1 .. k) /\ s \ {Max(s)} \in SUBSET (1 .. k + 1)
          BY <3>2, LastIsMax
        <4>3. s /= {} => g[s \ {Max(s)}] = f[s \ {Max(s)}]
          BY <3>2, <4>2
        <4> HIDE DEF g
        <4> QED
          BY <4>1, <4>3, <2>1
      <3> QED
        BY <3>1, <3>2
    <2>3. DOMAIN g = SUBSET (1 .. k + 1) /\ g = [s \in DOMAIN g |-> g[s]]
      OBVIOUS
    <2> HIDE DEF g
    <2>4. Iter(g, k + 1)
      BY <2>2, <2>3
    <2> HIDE DEF Iter
    <2> QED
      BY <2>4
  <1> HIDE DEF S
  <1>3. S = Nat
    BY <1>1, <1>2, SetInduction, S \in SUBSET Nat DEF S
  <1>4. Exists(n)
    <2> HIDE DEF Exists
    <2> QED
      BY <1>3, n \in S DEF S
  <1>5. PICK f : Iter(f, n)
    BY <1>4, Zenon
  <1>6. UnpackIter(f, n, session)
    BY <1>5 DEF UnpackIter
  <1> QED
    BY <1>6

\* Where the loop stands after k turns: the packets it has not copied are at
\* least those it has not looked at, and if they are more, the first one did
\* not fit.
Halfway(v, session, k) ==
  /\ v \in Session
  /\ v.state = session.state
  /\ v.pos >= session.pos
  /\ v.pos + Bytes(v.p) = session.pos + Bytes(session.p)
  /\ Len(v.p) >= Len(session.p) - k
  /\ Len(v.p) > Len(session.p) - k => ~Fits(v.pos, v.p[1])

LEMMA TurnKeepsHalfway ==
  ASSUME NEW session \in Session, NEW k \in Nat, k < Len(session.p),
         NEW v, Halfway(v, session, k)
  PROVE  Halfway(Turn(v), session, k + 1)
  <1>1. /\ v \in Session /\ v.p \in Chain /\ v.pos \in 0 .. StorageSize
        /\ session.pos \in 0 .. StorageSize /\ session.p \in Chain
        /\ Len(v.p) \in Nat /\ Len(session.p) \in Nat /\ StorageSize \in Nat
    BY EchoConstants DEF Halfway, Session, Chain
  <1>2. v.p /= <<>>
    BY <1>1 DEF Halfway
  <1>3. /\ v.p[1].len \in Nat \ {0} /\ v.p[1].line \in BOOLEAN
        /\ Tail(v.p) \in Chain /\ Len(Tail(v.p)) = Len(v.p) - 1
        /\ Bytes(v.p) = v.p[1].len + Bytes(Tail(v.p)) /\ Bytes(Tail(v.p)) \in Nat
    BY <1>1, <1>2, BytesOfTail, BytesIsTotal
  <1>4. CASE Fits(v.pos, v.p[1])
    <2> DEFINE u == Store(v, v.p[1])
    <2>1. /\ u \in Session /\ u.state = v.state /\ u.p = Tail(v.p)
          /\ u.pos = v.pos + v.p[1].len
      <3> DEFINE pos == v.pos + v.p[1].len
      <3>1. pos \in 0 .. StorageSize
        BY <1>1, <1>3, <1>4 DEF Fits
      <3>2. u = [v EXCEPT !.p = Tail(v.p), !.pos = pos, !.line = v.p[1].line]
        BY <1>1 DEF Store, Session
      <3> HIDE DEF u, pos
      <3>3. u \in Session /\ u.state = v.state /\ u.p = Tail(v.p) /\ u.pos = pos
        BY <1>1, <1>3, <3>1, <3>2 DEF Session
      <3> QED
        BY <3>3 DEF pos
    <2>2. Turn(v) = u
      BY <1>4 DEF Turn
    <2>3. Len(v.p) = Len(session.p) - k
      BY <1>1, <1>4 DEF Halfway
    <2> HIDE DEF u
    <2>4. Len(u.p) = Len(session.p) - (k + 1)
      BY <1>1, <1>3, <2>1, <2>3
    <2>5. /\ v.state = session.state /\ v.pos >= session.pos
          /\ v.pos + Bytes(v.p) = session.pos + Bytes(session.p)
      BY DEF Halfway
    <2>6. u.pos >= session.pos /\ u.pos + Bytes(u.p) = session.pos + Bytes(session.p)
      BY <1>1, <1>3, <2>1, <2>5
    <2>7. ~(Len(u.p) > Len(session.p) - (k + 1)) /\ Len(u.p) >= Len(session.p) - (k + 1)
      BY <1>1, <2>4
    <2> QED
      BY <2>1, <2>2, <2>5, <2>6, <2>7 DEF Halfway
  <1>5. CASE ~Fits(v.pos, v.p[1])
    <2>1. Turn(v) = v
      BY <1>5 DEF Turn
    <2>2. Len(v.p) >= Len(session.p) - (k + 1)
      BY <1>1 DEF Halfway
    <2> QED
      BY <1>5, <2>1, <2>2 DEF Halfway
  <1> QED
    BY <1>4, <1>5

\* What echoUnpack does to a session: nothing is lost, nothing is copied twice,
\* the storage does not overflow, and what is left over does not fit.
LEMMA UnpackedSession ==
  ASSUME NEW session \in Session
  PROVE  LET u == Unpacked(session)
         IN  /\ u \in Session /\ u.state = session.state
             /\ u.pos >= session.pos
             /\ u.pos + Bytes(u.p) = session.pos + Bytes(session.p)
             /\ u.p /= <<>> => ~Fits(u.pos, u.p[1])
  <1> DEFINE n == Len(session.p)
             g == CHOOSE f : f = [s \in SUBSET DOMAIN session.p |->
                                    IF s = {} THEN session ELSE Turn(f[s \ {Max(s)}])]
             left == g[DOMAIN session.p]
  <1>1. /\ n \in Nat /\ DOMAIN session.p = 1 .. n /\ session.p \in Chain
        /\ session.pos \in 0 .. StorageSize /\ StorageSize \in Nat
    BY EchoConstants DEF Session, Chain
  <1>2. Unpacked(session) = [session EXCEPT !.p = left.p, !.pos = left.pos, !.line = left.line]
    BY Zenon DEF Unpacked, FoldLeft, MapThenFoldSet, Turn
  <1> HIDE DEF n
  <1>3. UnpackIter(g, n, session)
    <2>1. \E f : UnpackIter(f, n, session)
      BY <1>1, UnpackIterExists
    <2>2. \E f : f = [s \in SUBSET DOMAIN session.p |->
                        IF s = {} THEN session ELSE Turn(f[s \ {Max(s)}])]
      BY <1>1, <2>1, Zenon DEF UnpackIter
    <2>3. g = [s \in SUBSET DOMAIN session.p |->
                 IF s = {} THEN session ELSE Turn(g[s \ {Max(s)}])]
      BY <2>2, Zenon
    <2> QED
      BY <1>1, <2>3, Zenon DEF UnpackIter
  <1> HIDE DEF g
  <1>4. g[1 .. 0] = session
    <2>1. 1 .. 0 = {} /\ {} \in SUBSET (1 .. n)
      OBVIOUS
    <2> QED
      BY <1>3, <2>1 DEF UnpackIter
  <1>5. ASSUME NEW k \in Nat, k + 1 <= n PROVE g[1 .. k + 1] = Turn(g[1 .. k])
    <2>1. 1 .. k + 1 \in SUBSET (1 .. n) /\ 1 .. k + 1 \in SUBSET (1 .. k + 1)
          /\ k + 1 \in 1 .. k + 1 /\ 1 .. k + 1 /= {}
      BY <1>1, <1>5
    <2>2. Max(1 .. k + 1) = k + 1
      BY <2>1, LastIsMax
    <2>3. (1 .. k + 1) \ {k + 1} = 1 .. k
      OBVIOUS
    <2> QED
      BY <1>3, <2>1, <2>2, <2>3 DEF UnpackIter
  <1> DEFINE S == {k \in Nat : k <= n => Halfway(g[1 .. k], session, k)}
  <1>6. 0 \in S
    <2>1. Halfway(session, session, 0)
      BY <1>1 DEF Halfway, n
    <2> QED
      BY <1>4, <2>1
  <1>7. ASSUME NEW k \in S PROVE k + 1 \in S
    <2> SUFFICES ASSUME k + 1 <= n PROVE Halfway(g[1 .. k + 1], session, k + 1)
      OBVIOUS
    <2>1. k \in Nat /\ k < n /\ Halfway(g[1 .. k], session, k)
      BY <1>1
    <2> HIDE DEF S
    <2> QED
      BY <1>5, <2>1, TurnKeepsHalfway DEF n
  <1> HIDE DEF S
  <1>8. S = Nat
    BY <1>6, <1>7, SetInduction, S \in SUBSET Nat DEF S
  <1>9. Halfway(left, session, n)
    BY <1>1, <1>8, n \in S DEF S
  <1> HIDE DEF left
  <1>10. /\ left \in Session /\ left.state = session.state
         /\ left.pos >= session.pos
         /\ left.pos + Bytes(left.p) = session.pos + Bytes(session.p)
         /\ left.p /= <<>> => ~Fits(left.pos, left.p[1])
    <2>1. left.p \in Chain /\ (left.p /= <<>> => Len(left.p) > 0)
      BY <1>9 DEF Halfway, Session, Chain
    <2> QED
      BY <1>1, <1>9, <2>1 DEF Halfway, n
  <1>11. Unpacked(session) = left
    <2>1. /\ session \in Session /\ left \in Session /\ left.state = session.state
          /\ Unpacked(session) = [session EXCEPT !.p = left.p, !.pos = left.pos,
                                                 !.line = left.line]
      BY <1>2, <1>10
    <2>2. ASSUME NEW u \in Session, NEW v \in Session, v.state = u.state
          PROVE  [u EXCEPT !.p = v.p, !.pos = v.pos, !.line = v.line] = v
      BY <2>2 DEF Session
    <2> QED
      BY <2>1, <2>2
  <1> QED
    BY <1>10, <1>11, Zenon

-----------------------------------------------------------------------------
(* The session. *)

\* Between two callbacks nothing waits to be copied, unless one of them hangs
\* with a packet that does not fit; and what the peer sent is in the storage or
\* was queued.
EchoInv ==
  /\ es \in Session
  /\ callbacks \in BOOLEAN /\ hung \in BOOLEAN
  /\ conn \in BOOLEAN
  /\ segments \in 0 .. MaxSegments
  /\ given \in Nat /\ recved \in Nat /\ echoed \in Nat /\ repeated \in Nat
  /\ ~hung => es.p = <<>>
  /\ hung => es.p /= <<>> /\ ~Fits(es.pos, es.p[1])
  /\ EchoIsComplete

LEMMA NoSessionFacts ==
  /\ NoSession \in Session /\ NoSession.p = <<>> /\ NoSession.pos = 0
  /\ NewSession \in Session /\ NewSession.p = <<>> /\ NewSession.pos = 0
  <1>1. <<>> \in Chain /\ 0 \in 0 .. StorageSize
    BY EchoConstants, BytesOfEmpty
  <1>2. /\ NoSession \in Session /\ NoSession.p = <<>> /\ NoSession.pos = 0
    BY <1>1 DEF NoSession, Session
  <1> HIDE DEF NoSession
  <1>3. NewSession \in Session /\ NewSession.p = NoSession.p /\ NewSession.pos = NoSession.pos
    BY <1>2 DEF NewSession, Session
  <1> QED
    BY <1>2, <1>3

\* A callback that unpacks what it was given and sends what it can.
LEMMA UnpackKeepsEchoInv ==
  ASSUME EchoInv, Called, NEW session \in Session, NEW wr \in WriteResults,
         UnpackAndSend(session, wr),
         session.pos = es.pos, given' = given + Bytes(session.p),
         segments' \in 0 .. MaxSegments
  PROVE  EchoInv'
  <1> DEFINE u == Unpacked(session)
             sum == Bytes(session.p)
             rest == Bytes(u.p)
  <1>1. /\ u \in Session /\ u.pos >= session.pos
        /\ u.pos + rest = session.pos + sum
        /\ u.p /= <<>> => ~Fits(u.pos, u.p[1])
    BY UnpackedSession
  <1>2. /\ sum \in Nat /\ rest \in Nat
        /\ u.p \in Chain /\ u.pos \in Nat /\ session.pos \in Nat
        /\ u.line \in BOOLEAN /\ StorageSize \in Nat \ {0}
    <2>1. session.p \in Chain /\ u.p \in Chain
      BY <1>1 DEF Session
    <2>2. u.pos \in Nat /\ session.pos \in Nat /\ u.line \in BOOLEAN /\ StorageSize \in Nat \ {0}
      BY <1>1, EchoConstants DEF Session
    <2> QED
      BY <2>1, <2>2, BytesIsTotal
  <1>3. /\ callbacks \in BOOLEAN /\ conn = TRUE /\ hung = FALSE
        /\ given \in Nat /\ recved \in Nat /\ echoed \in Nat /\ repeated \in Nat
        /\ given + repeated = echoed + session.pos /\ recved = given
    BY DEF EchoInv, Called, EchoIsComplete
  <1>4. /\ recved' = recved + sum - rest
        /\ given' = given + sum /\ given' \in Nat
        /\ callbacks' = callbacks /\ conn' = conn
    BY <1>2, <1>3 DEF UnpackAndSend
  <1>5. recved' \in Nat
    <2>1. rest <= sum
      <3> HIDE DEF u, sum, rest
      <3> QED
        BY <1>1, <1>2
    <2> HIDE DEF sum, rest
    <2> QED
      BY <1>2, <1>3, <1>4, <2>1
  <1>6. CASE u.p /= <<>>
    <2>1. hung' = TRUE /\ es' = u /\ echoed' = echoed /\ repeated' = repeated
      BY <1>6 DEF UnpackAndSend, Stuck, sent
    <2> QED
      BY <1>1, <1>3, <1>4, <1>5, <1>6, <2>1 DEF EchoInv, EchoIsComplete
  <1>7. CASE u.p = <<>>
    <2>1. /\ hung' = FALSE /\ es' = Sent(u, wr)
          /\ echoed' = echoed + Echoed(u, wr)
          /\ repeated' = IF wr.preamble THEN repeated ELSE repeated + Echoed(u, wr)
      BY <1>3, <1>7 DEF UnpackAndSend, Stuck
    <2>2. rest = 0
      BY <1>7, BytesOfEmpty
    <2>3. wr.preamble \in BOOLEAN /\ wr.text \in BOOLEAN
      BY DEF WriteResults
    <2> HIDE DEF u, sum, rest
    <2>4. /\ es' \in Session /\ es'.p = <<>> /\ es'.line = u.line
          /\ es'.pos = IF ToSend(u) /\ wr.preamble /\ wr.text THEN 0 ELSE u.pos
      <3>1. CASE ToSend(u) /\ wr.preamble /\ wr.text
        <4>1. es' = [u EXCEPT !.pos = 0]
          BY <2>1, <3>1 DEF Sent
        <4> QED
          BY <1>1, <1>2, <1>7, <3>1, <4>1 DEF Session
      <3>2. CASE ~(ToSend(u) /\ wr.preamble /\ wr.text)
        <4>1. es' = u
          BY <2>1, <3>2 DEF Sent
        <4> QED
          BY <1>1, <1>7, <3>2, <4>1
      <3> QED
        BY <3>1, <3>2
    <2>5. Echoed(u, wr) = IF ToSend(u) /\ wr.text THEN u.pos ELSE 0
      BY DEF Echoed
    <2>6. echoed' \in Nat /\ repeated' \in Nat /\ recved' = given'
      BY <1>2, <1>3, <1>4, <2>1, <2>2, <2>5
    <2>7. u.pos = session.pos + sum
      BY <1>1, <1>2, <2>2
    <2>8. given' + repeated' = echoed' + es'.pos
      <3> DEFINE now == es'.pos
      <3>1. /\ sum \in Nat /\ u.pos \in Nat /\ given \in Nat /\ repeated \in Nat
            /\ echoed \in Nat
            /\ given' = given + sum /\ given + repeated + sum = echoed + u.pos
        BY <1>2, <1>3, <1>4, <2>7
      <3>2. CASE ~(ToSend(u) /\ wr.text)
        <4>1. echoed' = echoed + 0 /\ now = u.pos /\ (repeated' = repeated \/ repeated' = repeated + 0)
          BY <2>1, <2>4, <2>5, <3>2
        <4> HIDE DEF now
        <4>2. given' + repeated' = echoed' + now
          BY <3>1, <4>1
        <4> QED
          BY <4>2 DEF now
      <3>3. CASE ToSend(u) /\ wr.text /\ wr.preamble
        <4>1. echoed' = echoed + u.pos /\ now = 0 /\ repeated' = repeated
          BY <2>1, <2>4, <2>5, <3>3
        <4> HIDE DEF now
        <4>2. given' + repeated' = echoed' + now
          BY <3>1, <4>1
        <4> QED
          BY <4>2 DEF now
      <3>4. CASE ToSend(u) /\ wr.text /\ ~wr.preamble
        <4>1. echoed' = echoed + u.pos /\ now = u.pos /\ repeated' = repeated + u.pos
          BY <2>1, <2>4, <2>5, <3>4
        <4> HIDE DEF now
        <4>2. given' + repeated' = echoed' + now
          BY <3>1, <4>1
        <4> QED
          BY <4>2 DEF now
      <3> QED
        BY <3>2, <3>3, <3>4
    <2> QED
      BY <1>3, <1>4, <1>5, <2>1, <2>4, <2>6, <2>8 DEF EchoInv, EchoIsComplete
  <1> QED
    BY <1>6, <1>7

LEMMA EchoInvInit == Init => EchoInv
  <1>1. MaxSegments \in Nat /\ 0 \in 0 .. MaxSegments
    BY EchoConstants
  <1> SUFFICES ASSUME Init PROVE EchoInv
    OBVIOUS
  <1>2. /\ es = NoSession /\ callbacks = FALSE /\ conn = FALSE /\ hung = FALSE
        /\ segments = 0 /\ given = 0 /\ recved = 0 /\ echoed = 0 /\ repeated = 0
    BY DEF Init
  <1>3. EchoIsComplete
    BY <1>2 DEF EchoIsComplete
  <1> QED
    BY <1>1, <1>2, <1>3, NoSessionFacts DEF EchoInv

LEMMA EchoInvStep == EchoInv /\ [Next]_vars => EchoInv'
  <1> SUFFICES ASSUME EchoInv, [Next]_vars PROVE EchoInv'
    OBVIOUS
  <1>1. /\ es \in Session /\ echoed \in Nat /\ given \in Nat
        /\ segments \in 0 .. MaxSegments /\ MaxSegments \in Nat
    BY EchoConstants DEF EchoInv
  <1>2. CASE Over \/ UNCHANGED vars
    BY <1>2 DEF Over, EchoInv, EchoIsComplete, vars, history, sent
  <1>3. CASE echoAccept
    <2>1. CASE UNCHANGED vars
      BY <1>2, <2>1
    <2>2. CASE ~UNCHANGED vars
      <3>1. /\ es' = NewSession /\ callbacks' = TRUE /\ conn' = TRUE
            /\ given' = 0 /\ recved' = 0 /\ echoed' = 0 /\ repeated' = 0
            /\ ~hung /\ UNCHANGED <<hung, segments>>
        BY <1>3, <2>2 DEF echoAccept
      <3>2. EchoIsComplete'
        BY <3>1, NoSessionFacts DEF EchoIsComplete
      <3> QED
        BY <3>1, <3>2, NoSessionFacts DEF EchoInv
    <2> QED
      BY <2>1, <2>2
  <1>4. CASE echoError
    BY <1>4, NoSessionFacts
       DEF echoError, EchoInv, EchoIsComplete, Called, history, sent
  <1>5. CASE echoAcceptNull
    BY <1>5 DEF echoAcceptNull, EchoInv, EchoIsComplete, history, sent
  <1>6. ASSUME NEW wr \in WriteResults, echoPoll(wr) PROVE EchoInv'
    <2>1. Called /\ UnpackAndSend(es, wr) /\ segments' = segments /\ given' = given
      BY <1>6 DEF echoPoll, history
    <2>2. Bytes(es.p) = 0
      BY <2>1, BytesOfEmpty DEF Called, EchoInv
    <2> QED
      BY <1>1, <2>1, <2>2, UnpackKeepsEchoInv
  <1>7. ASSUME NEW wr \in WriteResults, echoRecvNull(wr) PROVE EchoInv'
    <2>1. echoClose /\ UNCHANGED history
      BY <1>7 DEF echoRecvNull, Called, EchoInv
    <2> QED
      BY <1>7, <2>1, NoSessionFacts
         DEF echoRecvNull, echoClose, EchoInv, EchoIsComplete, Called, history, sent
  <1>8. ASSUME NEW wr \in WriteResults, NEW p \in Segments, echoRecv(p, wr)
        PROVE  EchoInv'
    <2> DEFINE session == [es EXCEPT !.state = "ES_RECEIVING", !.p = p]
    <2>1. Called /\ es.p = <<>>
      BY <1>8 DEF echoRecv, Called, EchoInv
    <2>2. /\ UnpackAndSend(session, wr)
          /\ segments' = segments + 1 /\ segments < MaxSegments /\ given' = given + Bytes(p)
      BY <1>8, <2>1 DEF echoRecv
    <2>3. p \in Chain
      BY EchoConstants DEF Chain, Pbuf
    <2>4. session \in Session /\ session.p = p /\ session.pos = es.pos
      BY <1>1, <2>3 DEF Session
    <2> HIDE DEF session
    <2>5. segments' \in 0 .. MaxSegments
      BY <1>1, <2>2
    <2> QED
      BY <2>1, <2>2, <2>4, <2>5, UnpackKeepsEchoInv
  <1> QED
    BY <1>2, <1>3, <1>4, <1>5, <1>6, <1>7, <1>8 DEF Next

LEMMA EchoInvCorrect == Spec => []EchoInv
  BY EchoInvInit, EchoInvStep, PTL DEF Spec

\* For every size of storage and all segments: the variables keep their types;
\* the storage is never written beyond its end, and the number of bytes
\* acknowledged with tcp_recved never passes below zero.
THEOREM TypeCorrect == Spec => []TypeOK
  <1>1. SessionInv /\ EchoInv => TypeOK
    <2>1. Pbuf \subseteq [len : Nat, line : BOOLEAN]
      BY DEF Pbuf
    <2>2. Chain \subseteq Seq([len : Nat, line : BOOLEAN])
      BY <2>1, SeqMonotonic DEF Chain
    <2> QED
      BY <2>2 DEF SessionInv, EchoInv, TypeOK, Session
  <1> QED
    BY <1>1, SessionInvCorrect, EchoInvCorrect, PTL

\* However the text is cut into segments and whatever tcp_write answers:
\* nothing the peer sent is lost or made up while the session lasts.
THEOREM EchoCorrect == Spec => []EchoIsComplete
  <1>1. EchoInv => EchoIsComplete
    BY DEF EchoInv
  <1> QED
    BY <1>1, EchoInvCorrect, PTL

\* The loop of echoUnpack ends for every input the storage has room for.
THEOREM HangsCorrect == Spec => []HangsOnlyIfOverfull
  <1>1. EchoInv => HangsOnlyIfOverfull
    <2> SUFFICES ASSUME EchoInv, hung PROVE es.pos + Bytes(es.p) > StorageSize
      BY DEF HangsOnlyIfOverfull
    <2>1. /\ es.p \in Chain /\ es.p /= <<>> /\ ~Fits(es.pos, es.p[1])
          /\ es.pos \in Nat /\ StorageSize \in Nat
      BY EchoConstants DEF EchoInv, Session
    <2>2. /\ es.p[1].len \in Nat /\ Bytes(Tail(es.p)) \in Nat
          /\ Bytes(es.p) = es.p[1].len + Bytes(Tail(es.p))
      BY <2>1, BytesOfTail, BytesIsTotal
    <2>3. es.pos + es.p[1].len > StorageSize
      BY <2>1, <2>2 DEF Fits
    <2> QED
      BY <2>1, <2>2, <2>3
  <1> QED
    BY <1>1, EchoInvCorrect, PTL
=============================================================================
