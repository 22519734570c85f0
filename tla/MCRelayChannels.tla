--------------------------- MODULE MCRelayChannels ---------------------------
(* Small instances of RelayChannels for TLC.  Its run checks liveness, so
   connections are not identified by symmetry. *)
EXTENDS RelayChannels, TLC
==============================================================================
