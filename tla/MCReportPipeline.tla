-------------------------- MODULE MCReportPipeline --------------------------
(* ReportPipeline with one agent: agents share nothing on their side.  A   *)
(* batch of two stands for the nine of the code; with reports of one and   *)
(* three units, a separator of one and messages of at most four units, a   *)
(* full batch is sent whole or split, and the fourth report leaves room    *)
(* for two batches and for incomplete ones before, between and after.  The *)
(* queue of the monitor holds one piece, so that message() has to wait.    *)
EXTENDS ReportPipeline

CONSTANTS a1
=============================================================================
