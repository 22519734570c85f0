-------------------------- MODULE MCRelayPublisher --------------------------
(* Small instances of RelayPublisher for TLC.  Its run checks liveness, so
   connections are not identified by symmetry. *)
EXTENDS RelayPublisher, TLC
=============================================================================
