-------------------------------- MODULE Echo --------------------------------
(***************************************************************************)
(* The echo server: the callbacks Echo.c registers with lwIP, each of      *)
(* which runs to its end in the main loop, for connections one after the   *)
(* other.  Received packet buffers are unpacked into a storage of fixed    *)
(* size; the storage is sent back, with a preamble, once it holds a        *)
(* complete line or is full.  Sessions live in lwIP's heap.                *)
(*                                                                         *)
(* lwIP is modelled by the calls it makes of the callbacks and by the      *)
(* answers it gives to tcp_write and mem_malloc.                           *)
(***************************************************************************)
EXTENDS Integers, Sequences, SequencesExt

CONSTANTS
  StorageSize,    \* STORAGE_SIZE_BYTES
  Segments,       \* pbuf chains lwIP may deliver: sequences of [len, line]
  HeapSessions,   \* sessions lwIP's heap has room for
  MaxSegments,    \* bound: segments the peers send
  MaxRepeated     \* bound: no text is queued a second time beyond it

ASSUME EchoConstants ==
  /\ StorageSize \in Nat \ {0}
  /\ Segments \subseteq Seq([len : Nat \ {0}, line : BOOLEAN]) \ {<<>>}
  /\ HeapSessions \in Nat /\ MaxSegments \in Nat /\ MaxRepeated \in Nat

VARIABLES
  es,         \* the session's record, or NoSession
  callbacks,  \* the pcb calls back with es as its argument
  conn,       \* a client is connected
  hung,       \* a callback does not return
  heap,       \* sessions allocated and not freed
  unclaimed,  \* history: those of them allocated although there was no pcb
  echoed,     \* history, of this connection: bytes of text queued for the peer
  repeated,   \* history: those of them queued although the preamble was refused
  segments,   \* history: segments delivered, of all connections
  given,      \* history, of this connection: bytes delivered to echoRecv
  recved      \* history, of this connection: bytes acknowledged with tcp_recved

history  == <<segments, given>>
sent     == <<echoed, repeated>>
sessions == <<heap, unclaimed>>
vars     == <<es, callbacks, conn, hung, sessions, sent, history, recved>>

NoSession == [state |-> "ES_NONE", p |-> <<>>, pos |-> 0, line |-> FALSE]

\* line: the byte before nextFreeStoragePos is a newline.
NewSession == [NoSession EXCEPT !.state = "ES_ACCEPTED"]

TypeOK ==
  /\ es.state \in {"ES_NONE", "ES_ACCEPTED", "ES_RECEIVING", "ES_CLOSING"}
  /\ es.p \in Seq([len : Nat, line : BOOLEAN])
  /\ es.pos \in 0 .. StorageSize /\ es.line \in BOOLEAN
  /\ callbacks \in BOOLEAN /\ hung \in BOOLEAN
  /\ conn \in BOOLEAN
  /\ heap \in 0 .. HeapSessions /\ unclaimed \in 0 .. HeapSessions
  /\ segments \in 0 .. MaxSegments
  /\ given \in Nat /\ recved \in Nat /\ echoed \in Nat /\ repeated \in Nat

Init ==
  /\ es = NoSession /\ callbacks = FALSE /\ conn = FALSE /\ hung = FALSE
  /\ heap = 0 /\ unclaimed = 0
  /\ segments = 0 /\ given = 0 /\ recved = 0 /\ echoed = 0 /\ repeated = 0

Bytes(p) == FoldLeft(LAMBDA sum, pbuf : sum + pbuf.len, 0, p)

-----------------------------------------------------------------------------
(* echoUnpack, echoSend and echoClose. *)

\* Mutant: a packet that fills the storage does not fit.
Fits_Strict(pos, pbuf) == pos + pbuf.len < StorageSize

Fits(pos, pbuf) == pos + pbuf.len <= StorageSize

\* Mutant: the length of the packet is added once more.
Store_CountsTwice(session, pbuf) ==
  [session EXCEPT !.p = Tail(@), !.pos = @ + 2 * pbuf.len, !.line = pbuf.line]

\* One packet is copied and leaves the chain.
Store(session, pbuf) ==
  [session EXCEPT !.p = Tail(@), !.pos = @ + pbuf.len, !.line = pbuf.line]

\* The loop of echoUnpack.  A packet that does not fit stays in front, and the
\* loop never ends.  Whatever it does, the session keeps its state.
Unpacked(session) ==
  LET left == FoldLeft(LAMBDA s, pbuf : IF Fits(s.pos, s.p[1]) THEN Store(s, s.p[1]) ELSE s,
                       session, session.p)
  IN [session EXCEPT !.p = left.p, !.pos = left.pos, !.line = left.line]

Stuck(session) == Unpacked(session).p /= <<>>



\* A line is complete or the storage is full.
ToSend(session) == session.pos /= 0 /\ (session.line \/ session.pos = StorageSize)

\* The answers lwIP may give to the two calls of tcp_write, each on its own.
WriteResults ==
  {r \in [preamble : BOOLEAN, text : BOOLEAN] :
     repeated < MaxRepeated \/ r.preamble \/ ~r.text}

\* Mutant: the storage is emptied if either call worked.
Sent_IfEither(session, wr) ==
  IF ToSend(session) /\ (wr.preamble \/ wr.text) THEN [session EXCEPT !.pos = 0] ELSE session

\* The storage is emptied if both calls worked.
Sent(session, wr) ==
  IF ToSend(session) /\ wr.preamble /\ wr.text THEN [session EXCEPT !.pos = 0] ELSE session

Echoed(session, wr) == IF ToSend(session) /\ wr.text THEN session.pos ELSE 0

\* echoUnpack followed by echoSend, for the session as it is before them.
UnpackAndSend(session, wr) ==
  /\ recved' = recved + Bytes(session.p) - Bytes(Unpacked(session).p)
  /\ IF Stuck(session)
     THEN /\ hung' = TRUE
          /\ es' = Unpacked(session)
          /\ UNCHANGED sent
     ELSE /\ es' = Sent(Unpacked(session), wr)
          /\ echoed' = echoed + Echoed(Unpacked(session), wr)
          /\ repeated' = IF wr.preamble THEN repeated
                         ELSE repeated + Echoed(Unpacked(session), wr)
          /\ UNCHANGED hung
  /\ UNCHANGED <<callbacks, conn, sessions>>

echoClose ==
  /\ callbacks' = FALSE /\ es' = NoSession /\ conn' = FALSE
  /\ heap' = heap - 1
  /\ UNCHANGED <<unclaimed, hung, sent, recved>>

-----------------------------------------------------------------------------
(* The callbacks. *)

Called == callbacks /\ conn /\ ~hung

\* A client connects: its session is allocated, or there is no memory and lwIP
\* aborts the connection.
echoAccept ==
  /\ ~conn /\ ~hung
  /\ \/ /\ heap < HeapSessions /\ heap' = heap + 1
        /\ es' = NewSession /\ callbacks' = TRUE /\ conn' = TRUE
        /\ given' = 0 /\ recved' = 0 /\ echoed' = 0 /\ repeated' = 0
        /\ UNCHANGED <<unclaimed, hung, segments>>
     \/ UNCHANGED vars

\* A client asks for a connection and lwIP has no pcb left: the callback is
\* called with NULL and ERR_MEM, looks at neither, allocates a session and
\* registers it with no pcb.  What it returns is not looked at.
echoAcceptNull ==
  /\ ~hung
  /\ heap < HeapSessions /\ heap' = heap + 1
  /\ unclaimed' = unclaimed + 1
  /\ UNCHANGED <<es, callbacks, conn, hung, sent, history, recved>>

\* Data arrives.
echoRecv(p, wr) ==
  /\ Called /\ segments < MaxSegments
  /\ segments' = segments + 1 /\ given' = given + Bytes(p)
  /\ IF es.p = <<>> \/ es.state = "ES_ACCEPTED"
     THEN UnpackAndSend([es EXCEPT !.state = "ES_RECEIVING", !.p = p], wr)
     ELSE /\ es' = [es EXCEPT !.p = @ \o p]
          /\ UNCHANGED <<callbacks, conn, hung, sessions, sent, recved>>

\* The peer closed its side.
echoRecvNull(wr) ==
  /\ Called
  /\ IF es.p = <<>> THEN echoClose
     ELSE UnpackAndSend([es EXCEPT !.state = "ES_CLOSING"], wr)
  /\ UNCHANGED history

\* Mutant: the poll looks for packets only.
echoPoll_PacketsOnly(wr) ==
  /\ Called
  /\ es.p /= <<>>
  /\ UnpackAndSend(es, wr)
  /\ UNCHANGED history

\* Called twice a second.
echoPoll(wr) ==
  /\ Called
  /\ es.p /= <<>> \/ es.pos /= 0
  /\ UnpackAndSend(es, wr)
  /\ UNCHANGED history

\* Mutant: the session is not freed.
echoError_KeepsSession ==
  /\ Called
  /\ es' = NoSession /\ callbacks' = FALSE /\ conn' = FALSE
  /\ UNCHANGED <<heap, unclaimed, hung, sent, history, recved>>

\* A fatal error: lwIP has freed the pcb already.
echoError ==
  /\ Called
  /\ es' = NoSession /\ callbacks' = FALSE /\ conn' = FALSE
  /\ heap' = heap - 1
  /\ UNCHANGED <<unclaimed, hung, sent, history, recved>>

\* The board no longer runs: nothing more happens.
Over == hung /\ UNCHANGED vars

Next ==
  \/ echoAccept \/ echoAcceptNull \/ echoError \/ Over
  \/ \E wr \in WriteResults :
       \/ echoPoll(wr) \/ echoRecvNull(wr)
       \/ \E p \in Segments : echoRecv(p, wr)

Spec == Init /\ [][Next]_vars

\* lwIP polls again and again, and has room for the answer again and again.
FairSpec ==
  Spec /\ SF_vars(echoPoll([preamble |-> TRUE, text |-> TRUE]))

-----------------------------------------------------------------------------
(* Properties. *)

\* However connections come and go: a callback that lwIP may still make finds a
\* session, and whichever callback ends a connection frees its session, once.
\* What is in the heap besides it was allocated by calls of echoAccept without
\* a pcb, and by nothing else.
SessionMatchesConnection ==
  /\ callbacks <=> es.state /= "ES_NONE"
  /\ callbacks <=> conn
  /\ heap = unclaimed + IF conn THEN 1 ELSE 0

\* Nothing the peer sent is lost while the session lasts: what was delivered is
\* in the storage or was queued, and every byte copied was acknowledged.  Text
\* is queued again only where tcp_write took it and refused the preamble.
EchoIsComplete ==
  conn /\ ~hung => given + repeated = echoed + es.pos /\ recved = given

\* A callback that does not return was given more than the storage has room for.
HangsOnlyIfOverfull == hung => es.pos + Bytes(es.p) > StorageSize

\* "Wait for the string to be echoed to terminate or the storage to completely
\* fill": every callback returns to lwIP, which can then deliver the rest.
CallbacksReturn == ~hung

\* The storage holds text that is neither a complete line nor fills it.
Unfinished == es.pos /= 0 /\ ~ToSend(es)

\* When a complete line, or a full storage, waits for room to be sent, all n
\* bytes delivered so far are queued sooner or later, unless the connection ends
\* or a callback does not return.  There is one exception: text that arrives
\* meanwhile is appended, and if the peer stops in the middle of a line, the
\* complete line before it is held back, too.
CompleteLineEchoed ==
  \A n \in 1 .. MaxSegments * StorageSize :
    [](ToSend(es) /\ given = n =>
         \/ <>(echoed - repeated >= n \/ ~conn \/ hung)
         \/ <>[](Unfinished /\ given > n))
=============================================================================
