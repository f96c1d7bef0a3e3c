------------------------------ MODULE MCEthTx ------------------------------
(* Instances of EthTx for TLC: a small ring of buffers, a payload length    *)
(* that fits and one that does not.                                         *)
EXTENDS EthTx

MCLengths == {1, 2}
=============================================================================
