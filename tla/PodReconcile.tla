---------------------------- MODULE PodReconcile ----------------------------
(***************************************************************************)
(* What the backend believes about the pods of one runner, and how it is   *)
(* brought in line with the pods the runner has.                           *)
(*                                                                         *)
(* The messages of a stream are handled one after the other.  A heartbeat  *)
(* takes several database statements; users who terminate pods, the        *)
(* callback of a lost stream, which may run while the next stream is being *)
(* served, and the job for stale pods come in between.                     *)
(***************************************************************************)
EXTENDS RunnerPods, FiniteSets

CONSTANTS
  OrphanMissThreshold, InitRecoverThreshold,  \* the constants of the code
  MaxUpsets   \* bound of the model

ASSUME ReconcileAssumption ==
  /\ OrphanMissThreshold \in Nat \ {0} /\ InitRecoverThreshold \in Nat \ {0}
  /\ MaxUpsets \in Nat

VARIABLES
  record,       \* status in the pods table, "none" once the row is deleted
  miss,         \* podMissCount
  initReports,  \* initReportCount
  cooling,      \* pods terminateSentCache still holds back
  hb,           \* the heartbeat being handled
  disc,         \* the callback of a lost stream
  terminating,  \* pods a TerminatePod call has sent a command for
  upsets  \* what users, jobs, streams and crashes have done so far

counters == <<miss, initReports, cooling>>
vars == <<runnerVars, record, counters, hb, disc, terminating, upsets>>

Active == {"initializing", "running", "disconnected"}
Ended == {"completed", "terminated"}
Status == Active \cup Ended \cup {"orphaned", "error", "none"}

Quiet == [step |-> "idle"]
SetRecord(p, s) == record' = [record EXCEPT ![p] = s]
Set(p, from, s) == SetRecord(p, IF record[p] \in from THEN s ELSE record[p])

\* Every pod has been dispatched (module PodDispatch); its command is on its
\* way.
Init ==
  /\ RunnerInit
  /\ record = [p \in Pods |-> "initializing"]
  /\ miss = [p \in Pods |-> 0] /\ initReports = [p \in Pods |-> 0]
  /\ cooling = {} /\ hb = Quiet /\ disc = Quiet /\ terminating = {}
  /\ upsets = 0

-----------------------------------------------------------------------------
(* Events.                                                                 *)

Receive(e) ==
  /\ connected /\ hb = Quiet /\ out # <<>> /\ Head(out) = e
  /\ out' = Tail(out)
  /\ UNCHANGED <<kind, podVars, commands, connected, held, disc, cooling,
                 terminating, upsets>>

HandlePodCreated(p) ==
  /\ Receive([type |-> "created", pod |-> p])
  /\ Set(p, Status \ {"none"}, "running")
  /\ initReports' = [initReports EXCEPT ![p] = 0]
  /\ UNCHANGED <<miss, hb>>

HandlePodTerminated(p) ==
  /\ \E s \in ExitStatus :
       /\ Receive([type |-> "terminated", pod |-> p, status |-> s])
       /\ Set(p, Active, s)
  /\ miss' = [miss EXCEPT ![p] = 0]
  /\ UNCHANGED <<initReports, hb>>

HandlePodError(p) ==
  /\ Receive([type |-> "error", pod |-> p])
  /\ Set(p, {"initializing"}, "error")
  /\ UNCHANGED <<miss, initReports, hb>>

\* isTerminalRuntimeError.
HandleSessionLost(p) ==
  /\ Receive([type |-> "session_lost", pod |-> p])
  /\ Set(p, Active, "error")
  /\ miss' = IF record[p] \in Active \ {"initializing"}
             THEN [miss EXCEPT ![p] = 0] ELSE miss
  /\ UNCHANGED <<initReports, hb>>

HandleHeartbeat ==
  /\ \E S \in SUBSET Pods :
       /\ Receive([type |-> "heartbeat", pods |-> S])
       /\ hb' = [step |-> "reported", reported |-> S, todo |-> S]
  /\ UNCHANGED <<record, miss, initReports>>

-----------------------------------------------------------------------------
(* The reported pods.                                                      *)

\* GetByKeyAndRunner; the status is looked at afterwards.
ReadReported(p) ==
  /\ hb.step = "reported" /\ p \in hb.todo
  /\ hb' = [step |-> "read", reported |-> hb.reported, todo |-> hb.todo \ {p},
            pod |-> p, status |-> record[p]]
  /\ UNCHANGED <<runnerVars, record, counters, disc, terminating, upsets>>

ReportedDone ==
  hb' = [step |-> "reported", reported |-> hb.reported, todo |-> hb.todo]

\* SendTerminatePod, unless one was sent in the last five minutes.
SendTerminate(p) ==
  /\ cooling' = cooling \cup {p}
  /\ IF p \in cooling THEN UNCHANGED commands ELSE Send(p, "terminate_pod")

Read(status) == hb.step = "read" /\ hb.status = status
readUnchanged == <<kind, podVars, connected, out, held, disc, terminating,
                   upsets>>

ReportedUnknown ==
  LET p == hb.pod IN
  /\ Read("none") /\ ReportedDone
  /\ IF miss[p] + 1 < OrphanMissThreshold
     THEN /\ miss' = [miss EXCEPT ![p] = @ + 1]
          /\ UNCHANGED <<commands, cooling>>
     ELSE miss' = [miss EXCEPT ![p] = 0] /\ SendTerminate(p)
  /\ UNCHANGED <<readUnchanged, record, initReports>>

\* Mutant: only a completed pod is stopped.
StopCompleted ==
  /\ \E s \in Ended : Read(s)
  /\ ReportedDone
  /\ IF Read("completed") THEN SendTerminate(hb.pod)
     ELSE UNCHANGED <<commands, cooling>>
  /\ UNCHANGED <<readUnchanged, record, miss, initReports>>

ReportedEnded ==
  /\ \E s \in Ended : Read(s)
  /\ ReportedDone /\ SendTerminate(hb.pod)
  /\ UNCHANGED <<readUnchanged, record, miss, initReports>>

\* Mutant: the status is not compared again.
RecoverUnguarded(p, from) == SetRecord(p, "running")

RecoverPodStatus(p, from) == Set(p, {from}, "running")

ReportedLost ==
  /\ \E s \in {"orphaned", "disconnected"} :
       Read(s) /\ RecoverPodStatus(hb.pod, s)
  /\ ReportedDone
  /\ UNCHANGED <<readUnchanged, commands, counters>>

\* Mutant: the reports that are counted stop one short.
StartsNeverEnough ==
  LET p == hb.pod IN
  /\ Read("initializing") /\ ReportedDone
  /\ initReports' = [initReports EXCEPT ![p] = 0]
  /\ UNCHANGED <<readUnchanged, record, commands, miss, cooling>>

ReportedInitializing ==
  LET p == hb.pod IN
  /\ Read("initializing") /\ ReportedDone
  /\ IF initReports[p] + 1 < InitRecoverThreshold
     THEN /\ initReports' = [initReports EXCEPT ![p] = @ + 1]
          /\ UNCHANGED record
     ELSE /\ initReports' = [initReports EXCEPT ![p] = 0]
          /\ RecoverPodStatus(p, "initializing")
  /\ UNCHANGED <<readUnchanged, commands, miss, cooling>>

\* Running, or failed: nothing is done.
ReportedOther ==
  /\ \E s \in {"running", "error"} : Read(s)
  /\ ReportedDone
  /\ UNCHANGED <<readUnchanged, record, commands, counters>>

-----------------------------------------------------------------------------
(* The pods that are missing.                                              *)

Look(todo) ==
  hb' = IF todo = {} THEN Quiet
        ELSE [step |-> "missing", reported |-> hb.reported, todo |-> todo]

\* Mutant: a disconnected pod is not looked for.
ListConnected ==
  /\ hb.step = "reported" /\ hb.todo = {}
  /\ Look({p \in Pods : record[p] \in Active \ {"disconnected"}})
  /\ UNCHANGED <<runnerVars, record, counters, disc, terminating, upsets>>

ListActiveByRunner ==
  /\ hb.step = "reported" /\ hb.todo = {}
  /\ Look({p \in Pods : record[p] \in Active})
  /\ UNCHANGED <<runnerVars, record, counters, disc, terminating, upsets>>

Looked(p) ==
  /\ hb.step = "missing" /\ p \in hb.todo
  /\ Look(hb.todo \ {p})
  /\ UNCHANGED <<runnerVars, initReports, cooling, disc, terminating, upsets>>

FoundReported(p) ==
  /\ Looked(p) /\ p \in hb.reported
  /\ miss' = [miss EXCEPT ![p] = 0]
  /\ UNCHANGED record

FoundMissing(p) ==
  /\ Looked(p) /\ p \notin hb.reported /\ miss[p] + 1 < OrphanMissThreshold
  /\ miss' = [miss EXCEPT ![p] = @ + 1]
  /\ UNCHANGED record

\* An ACP session is failed if it is still active; MarkOrphaned asks nothing.
GiveUpMissing(p) ==
  /\ Looked(p) /\ p \notin hb.reported /\ miss[p] + 1 >= OrphanMissThreshold
  /\ miss' = [miss EXCEPT ![p] = 0]
  /\ IF kind[p] = "acp" THEN Set(p, Active, "error")
     ELSE Set(p, Status \ {"none"}, "orphaned")

Handle ==
  \/ \E p \in Pods : \/ HandlePodCreated(p) \/ HandlePodTerminated(p)
                     \/ HandlePodError(p) \/ HandleSessionLost(p)
                     \/ ReadReported(p)
                     \/ FoundReported(p) \/ FoundMissing(p) \/ GiveUpMissing(p)
  \/ HandleHeartbeat \/ ReportedUnknown \/ ReportedEnded \/ ReportedLost
  \/ ReportedInitializing \/ ReportedOther
  \/ ListActiveByRunner

-----------------------------------------------------------------------------
(* Streams, users and jobs.                                                *)

Upset == upsets < MaxUpsets /\ upsets' = upsets + 1

\* The receive loop ends between two messages; its callback comes after it,
\* unless the connection has been replaced already.
Disconnect ==
  /\ hb = Quiet /\ disc = Quiet /\ Upset /\ LoseStream
  /\ disc' \in {Quiet, [step |-> "list"]}
  /\ UNCHANGED <<record, counters, hb, terminating>>

Fail(todo) ==
  disc' = IF todo = {} THEN Quiet ELSE [step |-> "fail", todo |-> todo]

\* clearMissCountsForRunner and ListInitializingByRunner.
ListInitializing ==
  /\ disc.step = "list"
  /\ miss' = [p \in Pods |-> 0]
  /\ Fail({p \in Pods : record[p] = "initializing"})
  /\ UNCHANGED <<runnerVars, record, initReports, cooling, hb, terminating,
                 upsets>>

FailInitializing(p) ==
  /\ disc.step = "fail" /\ p \in disc.todo
  /\ Set(p, {"initializing"}, "error")
  /\ Fail(disc.todo \ {p})
  /\ UNCHANGED <<runnerVars, counters, hb, terminating, upsets>>

\* The process of the backend: everything in memory is gone.
Crash ==
  /\ Upset /\ LoseStream
  /\ miss' = [p \in Pods |-> 0] /\ initReports' = [p \in Pods |-> 0]
  /\ cooling' = {} /\ hb' = Quiet /\ disc' = Quiet /\ terminating' = {}
  /\ UNCHANGED record

\* terminatePod looks at the record, sends, and writes if it is still active.
TerminatePod(p) ==
  /\ p \notin terminating /\ record[p] \in Active /\ Upset
  /\ Send(p, "terminate_pod")
  /\ terminating' = terminating \cup {p} 
  /\ UNCHANGED <<kind, podVars, connected, out, held, record, counters, hb,
                 disc>>

CompleteTerminated(p) ==
  /\ p \in terminating /\ terminating' = terminating \ {p}
  /\ Set(p, Active, "completed")
  /\ UNCHANGED <<runnerVars, counters, hb, disc, upsets>>

\* last_activity is refreshed by every report; it is empty before the first.
OutOfSight(p) == ~connected \/ p \notin store

MarkStaleAsDisconnected(p) ==
  /\ record[p] \in {"initializing", "running"}
  /\ OutOfSight(p) \/ (record[p] = "initializing" /\ initReports[p] = 0)
  /\ Upset /\ SetRecord(p, "disconnected")
  /\ UNCHANGED <<runnerVars, counters, hb, disc, terminating>>

CleanupStale(p) ==
  /\ record[p] \in {"disconnected", "orphaned"} /\ OutOfSight(p)
  /\ Upset /\ SetRecord(p, "terminated")
  /\ UNCHANGED <<runnerVars, counters, hb, disc, terminating>>

DeleteTerminalPod(p) ==
  /\ record[p] \in {"terminated", "orphaned", "error"}
  /\ Upset /\ SetRecord(p, "none")
  /\ UNCHANGED <<runnerVars, counters, hb, disc, terminating>>

\* Five minutes outlast the commands that are on their way.
CooldownEnds(p) ==
  /\ p \in cooling /\ commands[p] = <<>>
  /\ cooling' = cooling \ {p}
  /\ UNCHANGED <<runnerVars, record, miss, initReports, hb, disc, terminating,
                 upsets>>

Callback == ListInitializing \/ \E p \in Pods : FailInitializing(p)
Stream(A) == A /\ UNCHANGED <<record, counters, hb, disc, terminating, upsets>>
PodEnds(p) ==
  /\ ProcessExits(p) \/ FailACPPod(p)
  /\ Upset /\ UNCHANGED <<record, counters, hb, disc, terminating>>

\* One heartbeat at a time on its way or being handled, a bound of the model.
Heartbeat == hb = Quiet /\ Stream(SendHeartbeat)

Next ==
  \/ Stream(\E p \in Pods : RunnerStep(p))
  \/ Stream(Reconnect) \/ Heartbeat
  \/ Handle \/ Disconnect \/ Callback \/ Crash
  \/ \E p \in Pods : \/ PodEnds(p) \/ TerminatePod(p) \/ CompleteTerminated(p)
                     \/ MarkStaleAsDisconnected(p) \/ CleanupStale(p)
                     \/ DeleteTerminalPod(p) \/ CooldownEnds(p)

Spec == Init /\ [][Next]_vars

(* Goroutines go on, heartbeats keep coming, a runner comes back.  Nobody  *)
(* is obliged to terminate a pod, and no job has to find a stale one.      *)
Fairness ==
  /\ \A p \in Pods : /\ WF_vars(Stream(Work(p))) /\ WF_vars(Stream(HandleExit(p)))
                     /\ WF_vars(Stream(FlushPendingPodTerminations(p)))
                     /\ WF_vars(CompleteTerminated(p))
                     /\ WF_vars(CooldownEnds(p))
  /\ WF_vars(Heartbeat) /\ WF_vars(Stream(Reconnect))
  /\ WF_vars(Handle) /\ WF_vars(Callback)
FairSpec == Spec /\ Fairness

-----------------------------------------------------------------------------
(* Properties.                                                             *)

HeartbeatSteps ==
  {Quiet} \cup [step : {"reported", "missing"}, reported : SUBSET Pods,
                todo : SUBSET Pods]
    \cup [step : {"read"}, reported : SUBSET Pods, todo : SUBSET Pods,
          pod : Pods, status : Status]

\* Every variable keeps its type; the counters of reports and misses stay
\* below the number at which the code acts and clears them.
TypeOK ==
  /\ kind \in [Pods -> Kinds]
  /\ commands \in [Pods -> Seq({"create_pod", "terminate_pod"})]
  /\ worker \in [Pods -> {"idle", "building", "starting", "stopping"}]
  /\ exiting \in [Pods -> {"none", "exited", "taken_out", "restarting",
                           "rebuilding"}]
  /\ store \subseteq Pods /\ ready \subseteq Pods
  /\ starts \in [Pods -> 0..MaxStarts]
  /\ live \in [Pods -> SUBSET (1..MaxStarts)] /\ io \in [Pods -> 0..MaxStarts]
  /\ connected \in BOOLEAN /\ out \in Seq(Event)
  /\ held \in [Pods -> ExitStatus \cup {"none"}]
  /\ record \in [Pods -> Status]
  /\ miss \in [Pods -> 0..(OrphanMissThreshold - 1)]
  /\ initReports \in [Pods -> 0..(InitRecoverThreshold - 1)]
  /\ cooling \subseteq Pods /\ terminating \subseteq Pods
  /\ hb \in HeartbeatSteps
  /\ disc \in {Quiet, [step |-> "list"]}
             \cup [step : {"fail"}, todo : SUBSET Pods]
  /\ upsets \in 0..MaxUpsets

\* A process the runner no longer lists is about to be stopped by whoever took
\* its pod out: no agent runs on unseen (handler_events.go cleanupPodExit).
Seen(p) ==
  \A n \in live[p] : p \in store \/ (worker[p] = "stopping" /\ io[p] = n)

\* It holds of pods that are not restarted in place.
OthersAreSeen == \A p \in Pods : kind[p] # "perpetual" => Seen(p)

\* And is meant to hold of those that are: they are put back "so the pod
\* remains visible during restart" (handler_events.go:69).
RestartedAreSeen ==
  \A p \in Pods : kind[p] = "perpetual" /\ exiting[p] = "none" => Seen(p)

\* A heartbeat acts on a status it read earlier, and still never brings a pod
\* back that was given up meanwhile (pod_reconcile_service.go
\* recoverPodStatus); only a created report may.
HeartbeatNeverRevives ==
  [][hb # Quiet =>
       \A p \in Pods : record[p] \in Ended \cup {"error", "none"}
                         => record'[p] # "running"]_vars

\* A pod the runner still has although its record has ended, or is gone, is
\* terminated in the end, whatever commands and heartbeats were lost.
EndedPodsAreStopped ==
  \A p \in Pods : (record[p] \in Ended \cup {"none"} /\ p \in store)
                    ~> (p \notin store \/ record[p] \notin Ended \cup {"none"})

\* A record does not stay active for ever without a pod: a lost command or a
\* lost termination is noticed.
LostPodsAreNoticed ==
  \A p \in Pods : (record[p] \in Active /\ p \notin store)
                    ~> (record[p] \notin Active \/ p \in store)

\* A pod that is there is taken for running again after a loss of sight, also
\* when its created report was lost.
LivePodsRecover ==
  \A p \in Pods : (record[p] \in {"initializing", "disconnected", "orphaned"}
                     /\ p \in store)
                    ~> (record[p] \in {"running", "error", "none"} \cup Ended
                        \/ p \notin store)
=============================================================================
