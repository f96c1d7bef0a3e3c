----------------------------- MODULE MCNetifTx -----------------------------
(* NetifTx on a ring of three buffers with the configured buffer length:    *)
(* EthCtrlTxBufLenByte = 1522 leaves 1504 bytes; a short frame and one that *)
(* fills the maximum transfer unit.                                         *)
EXTENDS NetifTx

MCFrameLengths == {60, 1514}
MCShortFrames  == {60}
=============================================================================
