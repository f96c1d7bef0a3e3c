------------------------------- MODULE MCEcho -------------------------------
(* Echo with a storage of three bytes: segments of one or two packets that  *)
(* end in a newline or not.                                                 *)
EXTENDS Echo

Packet(len, line) == [len |-> len, line |-> line]

MCSegments ==
  {<<Packet(1, FALSE)>>, <<Packet(1, TRUE)>>, <<Packet(2, FALSE)>>,
   <<Packet(1, FALSE), Packet(1, TRUE)>>, <<Packet(1, TRUE), Packet(2, FALSE)>>}
=============================================================================
