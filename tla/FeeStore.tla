------------------------------ MODULE FeeStore ------------------------------
(***************************************************************************)
(* What the flash EEPROM emulation promises its user (NvM): a store of     *)
(* blocks in which a write takes effect at once or not at all, whatever    *)
(* the moment of a reset, and in which an acknowledged value stays until   *)
(* the next write.  A value that reached the store without being           *)
(* acknowledged is in doubt: it and its predecessor may both be read,      *)
(* until a write is acknowledged or a reset settles the matter.            *)
(***************************************************************************)
CONSTANTS Blocks, Values, NoValue, NoReq

VARIABLES
    store,      \* the value a start-up would find, for each block
    request,    \* the user's pending request, or NoReq
    doubt       \* the values that may surface without a further write

vars == <<store, request, doubt>>

\* A request to write a value or to read one, or the answer to a read.
Requests == [kind : {"write", "read", "answer"}, blk : Blocks,
             val : Values \cup {NoValue}]

TypeOK ==
    /\ store \in [Blocks -> Values \cup {NoValue}]
    /\ request \in Requests \cup {NoReq}
    /\ doubt \in [Blocks -> SUBSET (Values \cup {NoValue})]

Init ==
    /\ store \in [Blocks -> Values \cup {NoValue}]
    /\ request = NoReq
    /\ doubt = [b \in Blocks |-> {}]

Pending(kind) == request # NoReq /\ request.kind = kind

Accept(b, v) ==
    /\ request = NoReq
    /\ request' \in {[kind |-> "write", blk |-> b, val |-> v],
                    [kind |-> "read", blk |-> b, val |-> NoValue]}
    /\ UNCHANGED <<store, doubt>>

\* The value is in the store before its write is acknowledged.
Commit ==
    /\ Pending("write")
    /\ store' = [store EXCEPT ![request.blk] = request.val]
    /\ doubt' = [doubt EXCEPT ![request.blk] = @ \cup {store[request.blk], request.val}]
    /\ UNCHANGED request

Acknowledge ==
    /\ Pending("write")
    /\ store[request.blk] = request.val
    /\ request' = NoReq
    /\ doubt' = [doubt EXCEPT ![request.blk] = {}]
    /\ UNCHANGED store

\* A read finds the latest value, or one that is in doubt.
Fetch ==
    /\ Pending("read")
    /\ \E v \in ({store[request.blk]} \cup doubt[request.blk]) \ {NoValue} :
          request' = [request EXCEPT !.kind = "answer", !.val = v]
    /\ UNCHANGED <<store, doubt>>

\* A read is answered or refused; the write failed; the user cancelled either.
Drop ==
    /\ request # NoReq
    /\ request' = NoReq
    /\ UNCHANGED <<store, doubt>>

Waver ==
    /\ store' \in [Blocks -> Values \cup {NoValue}]
    /\ \A b \in Blocks : store'[b] \in {store[b]} \cup doubt[b]
    /\ UNCHANGED <<request, doubt>>

\* A reset takes the request and settles every doubt.
Crash ==
    /\ request' = NoReq
    /\ doubt' = [b \in Blocks |-> {}]
    /\ store' \in [Blocks -> Values \cup {NoValue}]
    /\ \A b \in Blocks :
          \/ store'[b] \in {store[b]} \cup doubt[b]
          \/ Pending("write") /\ request.blk = b /\ store'[b] = request.val

Next ==
    \/ \E b \in Blocks, v \in Values \cup {NoValue} : Accept(b, v)
    \/ Commit \/ Acknowledge \/ Fetch \/ Drop \/ Waver \/ Crash

Spec == Init /\ [][Next]_vars
=============================================================================
