---------------------------- MODULE WorkflowRuns ----------------------------
(***************************************************************************)
(* The runs of one workflow.  A trigger inserts a run in a transaction; a  *)
(* goroutine of its own creates a pod and binds it to the run; the run is  *)
(* finished by whoever sees its end first: the event of the pod or of its  *)
(* autopilot, the timeout and idle checks, the cleanup of runs that never  *)
(* got a pod, a cancel, or a start that fails.  All of them read, decide   *)
(* and write with statements that compare finished_at.                     *)
(*                                                                         *)
(* A worker is one such call; a step is one database statement or one call *)
(* to the pod services.  A list the monitor read is a row it still holds.  *)
(***************************************************************************)
EXTENDS Naturals, FiniteSets, PodStatus

CONSTANTS
  Workers,            \* calls in progress at once
  Pods,
  MaxRuns,            \* bound of the model: runs are numbered 1, 2, ...
  MaxConcurrentRuns,  \* workflow.MaxConcurrentRuns
  MaxRetainedRuns,    \* manifest.MaxRetainedRuns, 0 for no limit
  ExecutionModes,     \* modes a run may have been pinned to
  PodEnds, AutopilotEnds,  \* how a pod and its autopilot may end
  MaxRecoveries, MaxLosses  \* bounds of the model

ASSUME WorkflowRunsAssumption ==
  /\ MaxRuns \in Nat /\ MaxConcurrentRuns \in Nat \ {0}
  /\ MaxRetainedRuns \in Nat
  /\ ExecutionModes \subseteq {"direct", "autopilot"}
  /\ PodEnds \subseteq {"completed", "terminated", "error"}
  /\ AutopilotEnds \subseteq
       {"completed", "failed", "stopped", "max_iterations"}
  /\ MaxRecoveries \in Nat /\ MaxLosses \in Nat

NoPod == "no_pod"
ASSUME NoPodAssumption == NoPod \notin Pods

VARIABLES
  run,        \* rows of workflow_runs
  podStatus,  \* pods.status, "none" before the pod exists
  phase,      \* phase of the autopilot of each pod, "none" without one
  podEvents,  \* pod events on their way to HandlePodTerminated
  autopilotEvents,  \* autopilot events on their way to their handler
  counted,    \* how often each run was added to workflow.total_runs
  work,       \* what each worker is about to do
  recovered,  \* orphaned pods that came back
  losses      \* restarts, and starts whose context ended

podVars == <<podStatus, phase, podEvents, autopilotEvents, recovered>>
vars == <<run, podVars, counted, work, losses>>

Runs == 1 .. MaxRuns
Idle == [step |-> "idle"]
Go(w, next) == work' = [work EXCEPT ![w] = next]
At(w, step) == work[w].step = step

Absent == {"none", "deleted"}
Finished(r) == run[r].status \notin Absent \cup {"pending"}
Unfinished(r) == run[r].status = "pending"
Bound(r) == run[r].pod # NoPod

\* The runs TriggerRunAtomic counts.
Active(r) ==
  \/ Unfinished(r) /\ ~Bound(r)
  \/ run[r].status \notin Absent /\ Bound(r)
     /\ podStatus[run[r].pod] \in ActiveStatuses
ActiveRuns == {r \in Runs : Active(r)}

\* Terminal phases of an autopilot, and DeriveRunStatus.
TerminalPhases == {"completed", "failed", "stopped", "max_iterations"}
DeriveRunStatus(status, ph) ==
  CASE ph \in {"completed", "max_iterations"} -> "completed"
    [] ph = "failed" -> "failed"
    [] ph = "stopped" -> "cancelled"
    [] OTHER -> CASE status = "completed" -> "completed"
                  [] status = "terminated" -> "cancelled"
                  [] status = "error" -> "failed"
                  [] OTHER -> "running"

\* The phase a run knows of.
PhaseOf(r) == IF run[r].autopilot THEN phase[run[r].pod] ELSE "none"

Init ==
  /\ run = [r \in Runs |-> [status |-> "none", pod |-> NoPod,
                            autopilot |-> FALSE, mode |-> "direct"]]
  /\ podStatus = [p \in Pods |-> "none"]
  /\ phase = [p \in Pods |-> "none"]
  /\ podEvents = {} /\ autopilotEvents = {}
  /\ counted = [r \in Runs |-> 0]
  /\ work = [w \in Workers |-> Idle]
  /\ recovered = {} /\ losses = 0

-----------------------------------------------------------------------------
(* TriggerRun and StartRun.                                                *)

\* Mutant: only runs without a pod are counted.
CountPending == Cardinality({r \in Runs : Unfinished(r) /\ ~Bound(r)})

CountActive == Cardinality(ActiveRuns)

TriggerRun(w) ==
  /\ At(w, "idle")
  /\ \E r \in Runs, mode \in ExecutionModes :
       /\ run[r].status = "none"
       /\ \A s \in 1 .. r - 1 : run[s].status # "none"
       /\ IF CountActive >= MaxConcurrentRuns
          THEN /\ run' = [run EXCEPT ![r].status = "skipped", ![r].mode = mode]
               /\ Go(w, [step |-> "stats", run |-> r, by |-> "trigger",
                         pod |-> NoPod])
          ELSE /\ run' = [run EXCEPT ![r].status = "pending", ![r].mode = mode]
               /\ Go(w, [step |-> "start", run |-> r])
  /\ UNCHANGED <<podVars, counted, losses>>

\* StartRun looks at the run once before it creates the pod.
StartRun(w) ==
  /\ At(w, "start")
  /\ Go(w, IF Unfinished(work[w].run) THEN [work[w] EXCEPT !.step = "create"]
           ELSE Idle)
  /\ UNCHANGED <<run, podVars, counted, losses>>

MarkFailed(r) == [step |-> "finish", run |-> r, status |-> "failed",
                  by |-> "mark", pod |-> NoPod]

CreatePod(w) ==
  /\ At(w, "create")
  /\ \/ \E p \in Pods, s \in {"queued", "running"} :
          /\ podStatus[p] = "none"
          /\ podStatus' = [podStatus EXCEPT ![p] = s]
          /\ Go(w, [step |-> "bind", run |-> work[w].run, pod |-> p])
     \/ Go(w, MarkFailed(work[w].run)) /\ UNCHANGED podStatus
  /\ UNCHANGED <<run, phase, podEvents, autopilotEvents, recovered, counted,
                 losses>>

Bindable(r) == Unfinished(r) /\ ~Bound(r)

\* A statement of the start failed, after it had a pod.
GiveUp(w) == Go(w, [step |-> "terminate", pod |-> work[w].pod,
                    next |-> MarkFailed(work[w].run)])

\* Mutant: a start that lost its run returns.
BindPodOrForget(w) ==
  /\ At(w, "bind")
  /\ LET r == work[w].run IN
     \/ /\ Bindable(r)
        /\ run' = [run EXCEPT ![r].pod = work[w].pod]
        /\ Go(w, IF run[r].mode = "autopilot"
                 THEN [work[w] EXCEPT !.step = "autopilot"] ELSE Idle)
     \/ ~Bindable(r) /\ Go(w, Idle) /\ UNCHANGED run
  /\ UNCHANGED <<podVars, counted, losses>>

BindPod(w) ==
  /\ At(w, "bind")
  /\ LET r == work[w].run IN
     \/ /\ Bindable(r)
        /\ run' = [run EXCEPT ![r].pod = work[w].pod]
        /\ Go(w, IF run[r].mode = "autopilot"
                 THEN [work[w] EXCEPT !.step = "autopilot"] ELSE Idle)
     \/ /\ ~Bindable(r)
        /\ Go(w, [step |-> "terminate", pod |-> work[w].pod, next |-> Idle])
        /\ UNCHANGED run
     \/ GiveUp(w) /\ UNCHANGED run
  /\ UNCHANGED <<podVars, counted, losses>>

StartAutopilot(w) ==
  /\ At(w, "autopilot")
  /\ \/ /\ phase' = [phase EXCEPT ![work[w].pod] = "running"]
        /\ Go(w, [work[w] EXCEPT !.step = "key"])
     \/ GiveUp(w) /\ UNCHANGED phase
  /\ UNCHANGED <<run, podStatus, podEvents, autopilotEvents, recovered,
                 counted, losses>>

\* UpdateStatus, with no condition.
SetAutopilotKey(w) ==
  /\ At(w, "key")
  /\ \/ /\ run' = IF run[work[w].run].status \in Absent THEN run
                  ELSE [run EXCEPT ![work[w].run].autopilot = TRUE]
        /\ Go(w, Idle)
     \/ GiveUp(w) /\ UNCHANGED run
  /\ UNCHANGED <<podVars, counted, losses>>

\* The context of a start ends: what is left of it fails, its undo included.
StartExpires(w) ==
  /\ losses < MaxLosses
  /\ losses' = losses + 1
  /\ work[w].step \in {"start", "create", "bind", "autopilot", "key"}
  /\ Go(w, Idle)
  /\ UNCHANGED <<run, podVars, counted>>

-----------------------------------------------------------------------------
(* The end of a run.                                                       *)

\* Mutant: FinishRun does not look at finished_at.
Finishable(r) == run[r].status \notin Absent

FinishGuard(r) == Unfinished(r)

\* Mutant: the monitor leaves the pod to the runner.
NothingAfter(pod) == Idle

AfterEffects(pod) ==
  IF pod = NoPod THEN Idle
  ELSE [step |-> "terminate", pod |-> pod, next |-> Idle]

\* FinishRun; what is left of the call does not happen when it missed, except
\* that the monitor terminates the pod of its list either way.
FinishRun(w) ==
  /\ At(w, "finish")
  /\ LET c == work[w] IN
     IF FinishGuard(c.run)
     THEN /\ run' = [run EXCEPT ![c.run].status = c.status]
          /\ Go(w, [step |-> "stats", run |-> c.run, by |-> c.by,
                    pod |-> c.pod])
     ELSE Go(w, AfterEffects(c.pod)) /\ UNCHANGED run
  /\ UNCHANGED <<podVars, counted, losses>>

\* UpdateRunStats; markRunTerminal reads the run again before it.
UpdateRunStats(w) ==
  /\ At(w, "stats")
  /\ LET c == work[w] IN
     /\ counted' = IF c.by = "mark" /\ run[c.run].status = "deleted" THEN counted
                   ELSE [counted EXCEPT ![c.run] = @ + 1]
     /\ Go(w, IF c.by = "complete" /\ MaxRetainedRuns > 0
              THEN [step |-> "trim", pod |-> c.pod]
              ELSE AfterEffects(c.pod))
  /\ UNCHANGED <<run, podVars, losses>>

\* DeleteOldFinishedRuns keeps the newest finished rows.
DeleteOldFinishedRuns(w) ==
  /\ At(w, "trim")
  /\ run' = [r \in Runs |->
       IF Finished(r) /\ Cardinality({s \in Runs : s > r /\ Finished(s)})
                           >= MaxRetainedRuns
       THEN [run[r] EXCEPT !.status = "deleted"] ELSE run[r]]
  /\ Go(w, AfterEffects(work[w].pod))
  /\ UNCHANGED <<podVars, counted, losses>>

TerminatePod(w) ==
  /\ At(w, "terminate")
  /\ LET p == work[w].pod IN
     IF podStatus[p] \in ActiveStatuses
     THEN /\ podStatus' = [podStatus EXCEPT ![p] = "completed"]
          /\ podEvents' = podEvents \cup {[pod |-> p, status |-> "completed"]}
     ELSE UNCHANGED <<podStatus, podEvents>>
  /\ Go(w, work[w].next)
  /\ UNCHANGED <<run, phase, autopilotEvents, recovered, counted, losses>>

-----------------------------------------------------------------------------
(* Calls that read a run and decide to end it.                             *)

Decide(w, next) ==
  /\ At(w, "idle")
  /\ Go(w, next)
  /\ UNCHANGED <<run, podStatus, phase, recovered, counted, losses>>

\* HandleRunCompleted, and the pod the monitor terminates after it.
Complete(r, status, pod) ==
  [step |-> "finish", run |-> r, status |-> status, by |-> "complete",
   pod |-> pod]

\* The run, if there is one, whose key this is and that is not finished.
HandlePodTerminated(w, e) ==
  /\ podEvents' = podEvents \ {e}
  /\ UNCHANGED autopilotEvents
  /\ \/ \E r \in Runs :
          /\ Unfinished(r) /\ run[r].pod = e.pod
          /\ Decide(w, LET s == DeriveRunStatus(e.status, PhaseOf(r)) IN
                       IF s = "running" THEN Idle ELSE Complete(r, s, NoPod))
     \/ /\ \A r \in Runs : ~(Unfinished(r) /\ run[r].pod = e.pod)
        /\ Decide(w, Idle)

\* The subscription leaves max_iterations out.
HandleAutopilotTerminated(w, e) ==
  /\ autopilotEvents' = autopilotEvents \ {e}
  /\ UNCHANGED podEvents
  /\ \/ \E r \in Runs :
          /\ Unfinished(r) /\ run[r].pod = e.pod /\ run[r].autopilot
          /\ Decide(w, IF e.phase \in TerminalPhases \ {"max_iterations"}
                       THEN Complete(r, DeriveRunStatus("none", e.phase), NoPod)
                       ELSE Idle)
     \/ /\ \A r \in Runs : ~(/\ Unfinished(r) /\ run[r].pod = e.pod
                             /\ run[r].autopilot)
        /\ Decide(w, Idle)

\* Any time may be too long.
CheckTimeoutRuns(w, r) ==
  /\ Unfinished(r) /\ Bound(r) /\ podStatus[run[r].pod] = "running"
  /\ Decide(w, Complete(r, "timeout", run[r].pod))
  /\ UNCHANGED <<podEvents, autopilotEvents>>

CheckIdleLoopPods(w, r) ==
  /\ Unfinished(r) /\ Bound(r) /\ podStatus[run[r].pod] = "running"
  /\ Decide(w, Complete(r, "completed", run[r].pod))
  /\ UNCHANGED <<podEvents, autopilotEvents>>

\* Mutant: runs whose pod has gone are looked for.
OrphanWithPod(r) == Unfinished(r) /\ Bound(r)

OrphanPending(r) == Unfinished(r) /\ ~Bound(r)

CleanupOrphanPendingRuns(w, r) ==
  /\ OrphanPending(r)
  /\ Decide(w, MarkFailed(r))
  /\ UNCHANGED <<podEvents, autopilotEvents>>

\* The handlers of REST and Connect: what a reader sees of the run decides.
CancelRun(w, r) ==
  /\ Unfinished(r)
  /\ Bound(r) => DeriveRunStatus(podStatus[run[r].pod], PhaseOf(r)) = "running"
  /\ Decide(w, IF Bound(r)
               THEN [step |-> "terminate", pod |-> run[r].pod, next |-> Idle]
               ELSE [MarkFailed(r) EXCEPT !.status = "cancelled"])
  /\ UNCHANGED <<podEvents, autopilotEvents>>

-----------------------------------------------------------------------------
(* The environment.                                                        *)

\* The pod starts, ends, is given up for lost or comes back.
PodChanges(p) ==
  /\ \/ /\ podStatus[p] = "queued"
        /\ podStatus' = [podStatus EXCEPT ![p] = "running"]
        /\ UNCHANGED <<podEvents, recovered>>
     \/ /\ podStatus[p] \in {"queued", "running"}
        /\ \E s \in PodEnds :
             /\ podStatus' = [podStatus EXCEPT ![p] = s]
             /\ podEvents' = podEvents \cup {[pod |-> p, status |-> s]}
        /\ UNCHANGED recovered
     \/ /\ podStatus[p] = "running"
        /\ podStatus' = [podStatus EXCEPT ![p] = "orphaned"]
        /\ UNCHANGED <<podEvents, recovered>>
     \/ /\ podStatus[p] = "orphaned"
        /\ p \notin recovered /\ Cardinality(recovered) < MaxRecoveries
        /\ podStatus' = [podStatus EXCEPT ![p] = "running"]
        /\ recovered' = recovered \cup {p}
        /\ UNCHANGED podEvents
  /\ UNCHANGED <<run, phase, autopilotEvents, counted, work, losses>>

AutopilotFinishes(p) ==
  /\ podStatus[p] = "running" /\ phase[p] = "running"
  /\ \E ph \in AutopilotEnds :
       /\ phase' = [phase EXCEPT ![p] = ph]
       /\ autopilotEvents' = autopilotEvents \cup {[pod |-> p, phase |-> ph]}
  /\ UNCHANGED <<run, podStatus, podEvents, recovered, counted, work, losses>>

\* Calls in progress and events of the bus are lost.
Crash ==
  /\ losses < MaxLosses
  /\ losses' = losses + 1
  /\ work' = [w \in Workers |-> Idle]
  /\ podEvents' = {} /\ autopilotEvents' = {}
  /\ UNCHANGED <<run, podStatus, phase, recovered, counted>>

-----------------------------------------------------------------------------
Call(w) ==
  \/ TriggerRun(w)
  \/ \E e \in podEvents : HandlePodTerminated(w, e)
  \/ \E e \in autopilotEvents : HandleAutopilotTerminated(w, e)
  \/ \E r \in Runs :
       \/ CheckTimeoutRuns(w, r) \/ CheckIdleLoopPods(w, r)
       \/ CleanupOrphanPendingRuns(w, r) \/ CancelRun(w, r)

Continue(w) ==
  \/ StartRun(w) \/ CreatePod(w) \/ BindPod(w)
  \/ StartAutopilot(w) \/ SetAutopilotKey(w) \/ StartExpires(w)
  \/ FinishRun(w) \/ UpdateRunStats(w) \/ DeleteOldFinishedRuns(w)
  \/ TerminatePod(w)

Next ==
  \/ \E w \in Workers : Call(w) \/ Continue(w)
  \/ \E p \in Pods : PodChanges(p) \/ AutopilotFinishes(p)
  \/ Crash

Spec == Init /\ [][Next]_vars

\* Every call returns, as in GoalLoop.
FairSpec == Spec /\ \A w \in Workers : []<>At(w, "idle")

-----------------------------------------------------------------------------
(* Properties.                                                             *)

WorkerSteps ==
  [step : {"idle"}]
  \cup [step : {"start", "create"}, run : Runs]
  \cup [step : {"bind", "autopilot", "key"}, run : Runs, pod : Pods]
  \cup [step : {"finish"}, run : Runs, pod : Pods \cup {NoPod},
        status : {"completed", "failed", "cancelled", "timeout"},
        by : {"mark", "complete"}]
  \cup [step : {"stats"}, run : Runs, pod : Pods \cup {NoPod},
        by : {"trigger", "mark", "complete"}]
  \cup [step : {"trim"}, pod : Pods \cup {NoPod}]
  \cup [step : {"terminate"}, pod : Pods,
        next : {Idle} \cup {MarkFailed(r) : r \in Runs}]

\* Rows, pods and calls in progress have the shapes the code gives them, and a
\* call that holds a pod holds one that exists.
TypeOK ==
  /\ run \in [Runs -> [status : Absent \cup {"pending", "completed", "failed",
                         "cancelled", "timeout", "skipped"},
                       pod : Pods \cup {NoPod}, autopilot : BOOLEAN,
                       mode : {"direct", "autopilot"}]]
  /\ \A r \in Runs : run[r].autopilot => Bound(r)
  /\ podStatus \in [Pods -> {"none"} \cup Statuses]
  /\ phase \in [Pods -> {"none", "running"} \cup TerminalPhases]
  /\ podEvents \subseteq [pod : Pods, status : FinishedStatuses]
  /\ autopilotEvents \subseteq [pod : Pods, phase : TerminalPhases]
  /\ counted \in [Runs -> Nat]
  /\ work \in [Workers -> WorkerSteps]
  /\ \A w \in Workers, p \in Pods :
       work[w].step \notin {"idle", "start", "create"} /\ work[w].pod = p
         => podStatus[p] # "none"
  /\ recovered \subseteq Pods
  /\ losses \in 0 .. MaxLosses

\* Each run keeps the promises of WorkflowRunLife whatever races to end it: it
\* ends once, is counted at most once, and never gets a pod after its end or a
\* pod that is another run's.
Life == INSTANCE WorkflowRunLife
          WITH status <- [r \in Runs |-> run[r].status],
               pod <- [r \in Runs |-> run[r].pod]
ImplementsLife == Life!Spec

\* The workflow does not run more than MaxConcurrentRuns at a time, although a
\* run that was given up may still get a pod.  Only pods that were given up
\* for lost and came back go beyond it.
WithinConcurrency ==
  Cardinality({r \in ActiveRuns : run[r].pod \notin recovered})
    <= MaxConcurrentRuns

Holds(w, p) ==
  work[w].step \in {"bind", "finish", "stats", "trim", "terminate"}
    /\ work[w].pod = p

\* A pod that a start created is the run's, or a start still has it and will
\* bind or terminate it: none is left behind by a cancel, the cleanup or a
\* second start that came first.  (TerminatePod refuses a pod that was given up
\* for lost, which may then come back.)
StartedPodIsHeld ==
  losses = 0 =>
    \A p \in Pods \ recovered : podStatus[p] \in ActiveStatuses =>
      (\E r \in Runs : run[r].pod = p) \/ (\E w \in Workers : Holds(w, p))

\* The pod of a run that timed out does not go on: it ended, was given up for
\* lost, or the monitor is on its way to terminate it.
TimedOutPodStops ==
  losses = 0 =>
    \A r \in Runs : run[r].status = "timeout" =>
      \/ podStatus[run[r].pod] \in FinishedStatuses
      \/ run[r].pod \in recovered
      \/ \E w \in Workers : Holds(w, run[r].pod)

PodIsOver(r) ==
  Bound(r) /\ podStatus[run[r].pod] \in FinishedStatuses \cup {"queued"}

\* As long as the monitor looks, no run waits for ever for a pod that a crash
\* or an expired start lost, and none goes on for ever.  (One whose pod ended
\* while nobody was listening stays unfinished.)
RunEnds ==
  SF_vars(\E w \in Workers, r \in Runs : CleanupOrphanPendingRuns(w, r))
  /\ SF_vars(\E w \in Workers, r \in Runs : CheckTimeoutRuns(w, r)) =>
    \A r \in Runs :
      (Unfinished(r) ~> ~Unfinished(r) \/ PodIsOver(r))

\* What the cancel handlers say and do not keep: "SSOT: cancel by terminating
\* the Pod", answered with "Run cancelled".
CancelledRunStops ==
  \A r \in Runs : run[r].status = "cancelled" /\ Bound(r) =>
    \/ podStatus[run[r].pod] \notin ActiveStatuses
    \/ \E w \in Workers : Holds(w, run[r].pod)

-----------------------------------------------------------------------------
(* The inductive invariant behind TypeOK and ImplementsLife.               *)

\* A run that has not ended is not counted, and a bound pod exists and is
\* the pod of one run.
RowInv ==
  /\ \A r \in Runs : run[r].status \in {"none", "pending"} => counted[r] = 0
  /\ \A r \in Runs : run[r].status = "none" => run[r].pod = NoPod
  /\ \A r \in Runs : Bound(r) => podStatus[run[r].pod] # "none"
  /\ \A r, s \in Runs : Bound(r) /\ run[r].pod = run[s].pod => r = s

\* A call about to count a run is the one that ended it, a start about to bind
\* a pod is the only one that knows it, and a start that bound one and a timeout
\* have the pod of their run.
CallInv(c) ==
  /\ c.step = "stats" =>
       run[c.run].status \notin {"none", "pending"} /\ counted[c.run] = 0
  /\ c.step = "bind" => \A r \in Runs : run[r].pod # c.pod
  /\ c.step \in {"autopilot", "key"} => Bound(c.run) /\ c.pod = run[c.run].pod
  /\ c.step = "finish" /\ c.status = "timeout" =>
       Bound(c.run) /\ c.pod = run[c.run].pod

Apart(c, d) ==
  /\ c.step = "stats" /\ d.step = "stats" => c.run # d.run
  /\ c.step = "bind" /\ d.step = "bind" => c.pod # d.pod

RunsInv ==
  /\ TypeOK /\ RowInv
  /\ \A w \in Workers : CallInv(work[w])
  /\ \A v, w \in Workers : v # w => Apart(work[v], work[w])
=============================================================================
