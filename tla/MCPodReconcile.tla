--------------------------- MODULE MCPodReconcile ---------------------------
(* One pod of each kind, one at a time: pods do not share state.           *)
EXTENDS PodReconcile, TLC
CONSTANT p1
=============================================================================
