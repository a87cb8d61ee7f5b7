---------------------------- MODULE MCClassWatch ----------------------------
(* ClassWatch with one class that has a signal, loaded by one application  *)
(* thread, and every command the monitor has.                              *)
EXTENDS ClassWatch

CONSTANTS c1, t1
=============================================================================
