------------------------------ MODULE MCNetifRx ------------------------------
(* NetifRx over a ring of three buffers.                                    *)
EXTENDS NetifRx

MCMaxLoopCnt == 0
=============================================================================
