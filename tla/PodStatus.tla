----------------------------- MODULE PodStatus -----------------------------
(***************************************************************************)
(* The status column of a pod record and the status sets the services      *)
(* compare it with (backend/internal/domain/agentpod/pod_status.gen.go).   *)
(***************************************************************************)

\* A pod key whose record has not been inserted yet.
NoRecord == "no_record"

ActiveStatuses ==
  {"queued", "initializing", "running", "paused", "disconnected"}

FinishedStatuses == {"completed", "terminated", "orphaned", "error"}

Statuses == ActiveStatuses \cup FinishedStatuses

=============================================================================
