-------------------------- MODULE MCHooksHandshake --------------------------
(* HooksHandshake with two JVMs and an Editor that may hold a valid and an *)
(* invalid text.                                                           *)
EXTENDS HooksHandshake

CONSTANTS j1, j2, good, bad
=============================================================================
