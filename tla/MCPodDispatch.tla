--------------------------- MODULE MCPodDispatch ---------------------------
(***************************************************************************)
(* PodDispatch on small instances.  Replicas are interchangeable, so the   *)
(* safety runs may identify states that differ by a permutation of them.   *)
(***************************************************************************)
EXTENDS PodDispatch, TLC

ReplicaSymmetry == Permutations(Replicas)
=============================================================================
