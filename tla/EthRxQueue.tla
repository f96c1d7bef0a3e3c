----------------------------- MODULE EthRxQueue -----------------------------
(***************************************************************************)
(* What the receive half of the Ethernet driver promises the upper layer:  *)
(* frames are indicated one at a time, in the order of arrival, each once, *)
(* and a frame does not change while its indication runs.                  *)
(***************************************************************************)
EXTENDS Naturals, Sequences

CONSTANTS
  Frames,    \* frames that may arrive
  Capacity,  \* buffers of the ring
  None       \* no frame

VARIABLES
  waiting,   \* frames stored and not yet indicated, the oldest first
  indicated  \* the frame whose EthIf_RxIndication runs, or None

InUse == Len(waiting) + (IF indicated = None THEN 0 ELSE 1)

Init == waiting = <<>> /\ indicated = None

Arrive ==
  /\ InUse < Capacity
  /\ \E frame \in Frames : waiting' = Append(waiting, frame)
  /\ UNCHANGED indicated

Indicate ==
  /\ indicated = None
  /\ waiting /= <<>>
  /\ indicated' = Head(waiting)
  /\ waiting' = Tail(waiting)

Return == indicated' = None /\ UNCHANGED waiting

Restart == waiting' = <<>> /\ indicated' = None

Next == Arrive \/ Indicate \/ Return \/ Restart

Spec == Init /\ [][Next]_<<waiting, indicated>>
=============================================================================
