---------------------------- MODULE MCRelayLease ----------------------------
(* Small instances of RelayLease for TLC.  Its runs check action and       *)
(* liveness properties, so subscribers are not identified by symmetry.     *)
EXTENDS RelayLease, TLC
=============================================================================
