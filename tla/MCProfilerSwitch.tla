-------------------------- MODULE MCProfilerSwitch --------------------------
(* ProfilerSwitch with a class that has a signal and one that has none, and *)
(* one application thread besides reload_monitor: the two meet in the hook. *)
EXTENDS ProfilerSwitch

CONSTANTS c1, c2, t1
=============================================================================
