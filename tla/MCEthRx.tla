------------------------------ MODULE MCEthRx ------------------------------
(* Instances of EthRx for TLC: a ring of three buffers and two frames the   *)
(* properties can tell apart.                                               *)
EXTENDS EthRx

\* The configured number of loops, 5, made small.
MCMaxLoopCnt == 1
=============================================================================
