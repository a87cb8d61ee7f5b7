--------------------------- MODULE MCTargetStatus ---------------------------
(* TargetStatus with two JVMs, of which one may end.                       *)
EXTENDS TargetStatus
=============================================================================
