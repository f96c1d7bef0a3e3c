----------------------------- MODULE EthTxQueue -----------------------------
(***************************************************************************)
(* What the transmit half of the Ethernet driver promises its caller: a    *)
(* bounded queue of frames.  Buffers are granted at the tail, filled and   *)
(* handed over in any order, sent strictly in the order they were granted, *)
(* and given back from the head once sent.                                 *)
(***************************************************************************)
EXTENDS Naturals, Sequences

CONSTANT Capacity  \* buffers of the ring

VARIABLE ring  \* phases of the buffers in use, the oldest first

Phase == {"held", "queued", "sent"}

Init == ring = <<>>

Grant ==
  \/ Len(ring) < Capacity /\ ring' = Append(ring, "held")
  \/ /\ Len(ring) = Capacity /\ Head(ring) = "sent"
     /\ ring' = Append(Tail(ring), "held")

HandOver(j) == ring[j] = "held" /\ ring' = [ring EXCEPT ![j] = "queued"]

Send(j) ==
  /\ ring[j] = "queued"
  /\ \A older \in 1 .. j - 1 : ring[older] = "sent"
  /\ ring' = [ring EXCEPT ![j] = "sent"]

GiveBack == ring /= <<>> /\ Head(ring) = "sent" /\ ring' = Tail(ring)

Restart == ring' = <<>>

Next ==
  \/ Grant \/ GiveBack \/ Restart
  \/ \E j \in DOMAIN ring : HandOver(j) \/ Send(j)

Spec == Init /\ [][Next]_ring
=============================================================================
