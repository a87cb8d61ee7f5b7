--------------------------- MODULE MCMonitorInbox ---------------------------
(* MonitorInbox with two connections that carry one or two messages of one  *)
(* or two reports.  The queue holds fewer pieces, so that message() has to  *)
(* wait and the ring wraps around.                                          *)
EXTENDS MonitorInbox

CONSTANTS c1, c2

Ranks(ns) == [kind |-> "REPORT", reports |-> [i \in DOMAIN ns |-> [n |-> ns[i]]]]

MCHistories ==
  [Conns -> {<<Ranks(<<1, 2>>)>>, <<Ranks(<<1>>), Ranks(<<2, 3>>)>>}]
=============================================================================
