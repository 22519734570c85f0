--------------------------- MODULE MCWorkflowRuns ---------------------------
(* Small instances of WorkflowRuns for TLC.  Its run checks liveness, so   *)
(* calls and pods are not identified by symmetry.                          *)
EXTENDS WorkflowRuns, TLC
=============================================================================
