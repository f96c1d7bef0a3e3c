----------------------------- MODULE MCMainLoop -----------------------------
(* MainLoop with small periods in place of 10 and 1000 ms and of the 100 to *)
(* 1000 ms of the lwIP timers.                                              *)
EXTENDS MainLoop

MCTaskPeriods == {2, 3}
MCTimers      == {"ARP", "TCP_FAST", "TCP_SLOW", "LINK"}
MCPeriod      == [t \in MCTimers |->
  CASE t = "ARP" -> 4 [] t = "TCP_FAST" -> 1 [] t = "TCP_SLOW" -> 2 [] t = "LINK" -> 3]
=============================================================================
