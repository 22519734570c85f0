------------------------ MODULE WorkflowRuns_proofs ------------------------
(***************************************************************************)
(* Proofs about WorkflowRuns for any number of runs, pods, calls, losses   *)
(* and limits: the types, that every run keeps the promises of             *)
(* WorkflowRunLife, the limit on concurrent runs, and that no pod is left  *)
(* without a run.  RunStep is what a call in progress may rely on while    *)
(* another one takes a step.                                               *)
(***************************************************************************)
EXTENDS WorkflowRuns, FiniteSetTheorems, TLAPS

LifeStep == [Life!Next]_(Life!lifeVars)

\* What a step of worker w leaves to the calls of the others.
RunStep(w) ==
  /\ \A p \in Pods : podStatus[p] # "none" => podStatus'[p] # "none"
  /\ \A r \in Runs :
       /\ run[r].status \notin {"none", "pending"} =>
            run'[r].status \notin {"none", "pending"}
       /\ Bound(r) => run'[r].pod = run[r].pod
       /\ \/ counted'[r] = counted[r]
          \/ work[w].step = "stats" /\ work[w].run = r
       /\ \/ run'[r].pod = run[r].pod
          \/ work[w].step = "bind" /\ run'[r].pod = work[w].pod

\* The shapes TypeOK gives to everything but the calls.
DataOK ==
  /\ run \in [Runs -> [status : Absent \cup {"pending", "completed", "failed",
                         "cancelled", "timeout", "skipped"},
                       pod : Pods \cup {NoPod}, autopilot : BOOLEAN,
                       mode : {"direct", "autopilot"}]]
  /\ \A r \in Runs : run[r].autopilot => Bound(r)
  /\ podStatus \in [Pods -> {"none"} \cup Statuses]
  /\ phase \in [Pods -> {"none", "running"} \cup TerminalPhases]
  /\ podEvents \subseteq [pod : Pods, status : FinishedStatuses]
  /\ autopilotEvents \subseteq [pod : Pods, phase : TerminalPhases]
  /\ counted \in [Runs -> Nat]
  /\ recovered \subseteq Pods
  /\ losses \in 0 .. MaxLosses

\* The pod a call holds has been created.
HeldPod(c) ==
  c.step \notin {"idle", "start", "create"} =>
    \A p \in Pods : c.pod = p => podStatus[p] # "none"

LEMMA TypeParts ==
  TypeOK <=> /\ DataOK /\ work \in [Workers -> WorkerSteps]
             /\ \A w \in Workers : HeldPod(work[w])
  BY DEF TypeOK, DataOK, HeldPod

\* The initial state.
LEMMA InitRunsInv == Init => RunsInv
  BY NoPodAssumption, WorkflowRunsAssumption
  DEF Init, RunsInv, TypeOK, RowInv, CallInv, Apart, Idle, WorkerSteps, Absent,
      Bound, Runs

\* A step of a worker: it is enough to look at the row and at its own call.
LEMMA WorkerStepKeeps ==
  ASSUME RunsInv, NEW w \in Workers, NEW next \in WorkerSteps, Go(w, next),
         DataOK', RowInv', RunStep(w), CallInv(next)', HeldPod(next)',
         \A v \in Workers \ {w} :
           Apart(next, work[v]) /\ Apart(work[v], next)
  PROVE  RunsInv'
<1>1. /\ work' \in [Workers -> WorkerSteps] /\ work'[w] = next
      /\ \A v \in Workers \ {w} : work'[v] = work[v]
  BY DEF RunsInv, TypeOK, Go
<1>2. ASSUME NEW v \in Workers PROVE CallInv(work[v])' /\ HeldPod(work[v])'
  <2>1. CASE v = w
    BY <1>1, <2>1 DEF CallInv, HeldPod, Bound
  <2>2. CASE v # w
    <3>1. /\ work'[v] = work[v] /\ work[v] \in WorkerSteps
          /\ CallInv(work[v]) /\ HeldPod(work[v]) /\ Apart(work[v], work[w])
      BY <1>1, <2>2, TypeParts DEF RunsInv
    <3>2. HeldPod(work[v])'
      BY <3>1 DEF HeldPod, RunStep
    <3>3. work[v].step \in {"stats", "finish", "autopilot", "key"} => work[v].run \in Runs
      BY <3>1 DEF WorkerSteps
    <3>4. work[v].step = "stats" =>
            /\ run'[work[v].run].status \notin {"none", "pending"}
            /\ counted'[work[v].run] = 0
      BY <3>1, <3>3 DEF CallInv, Apart, RunStep
    <3>5. work[v].step = "bind" => \A r \in Runs : run'[r].pod # work[v].pod
      BY <3>1 DEF CallInv, Apart, RunStep
    <3>6. \/ work[v].step = "finish" /\ work[v].status = "timeout"
          \/ work[v].step \in {"autopilot", "key"}
          => /\ run'[work[v].run].pod # NoPod
             /\ work[v].pod = run'[work[v].run].pod
      BY <3>1, <3>3 DEF CallInv, RunStep, Bound
    <3> QED BY <3>1, <3>2, <3>4, <3>5, <3>6 DEF CallInv, Bound
  <2> QED BY <2>1, <2>2
<1>3. \A u, v \in Workers : u # v => Apart(work[u], work[v])'
  BY <1>1 DEF RunsInv, Apart
<1>4. TypeOK'
  BY <1>1, <1>2, TypeParts DEF TypeOK, DataOK, HeldPod
<1> QED BY <1>2, <1>3, <1>4 DEF RunsInv

\* The same for a step that leaves the runs and the pods alone.
LEMMA QuietStepKeeps ==
  ASSUME RunsInv, NEW w \in Workers, NEW next \in WorkerSteps, Go(w, next),
         UNCHANGED <<run, podStatus, phase, counted, recovered>>,
         podEvents' \subseteq podEvents,
         autopilotEvents' \subseteq autopilotEvents,
         losses' \in 0 .. MaxLosses,
         CallInv(next), HeldPod(next), next.step \notin {"stats", "bind"}
  PROVE  RunsInv' /\ LifeStep
<1>1. DataOK' /\ RowInv' /\ RunStep(w)
  BY TypeParts DEF RunsInv, DataOK, RowInv, RunStep, Bound
<1>2. CallInv(next)' /\ HeldPod(next)'
  BY DEF CallInv, HeldPod, Bound
<1>3. \A v \in Workers \ {w} : Apart(next, work[v]) /\ Apart(work[v], next)
  BY DEF Apart
<1>4. LifeStep
  BY DEF LifeStep, Life!lifeVars
<1> QED BY <1>1, <1>2, <1>3, <1>4, WorkerStepKeeps

\* What each step has in hand.
LEMMA CallShape ==
  ASSUME RunsInv, NEW w \in Workers
  PROVE  /\ work[w] \in WorkerSteps /\ CallInv(work[w]) /\ HeldPod(work[w])
         /\ work[w].step \in {"start", "create"} =>
              work[w] \in [step : {"start", "create"}, run : Runs]
         /\ work[w].step \in {"bind", "autopilot", "key"} =>
              work[w] \in [step : {"bind", "autopilot", "key"}, run : Runs,
                           pod : Pods]
         /\ work[w].step = "finish" =>
              work[w] \in [step : {"finish"}, run : Runs,
                pod : Pods \cup {NoPod},
                status : {"completed", "failed", "cancelled", "timeout"},
                by : {"mark", "complete"}]
         /\ work[w].step = "stats" =>
              work[w] \in [step : {"stats"}, run : Runs,
                pod : Pods \cup {NoPod}, by : {"trigger", "mark", "complete"}]
         /\ work[w].step = "trim" =>
              work[w] \in [step : {"trim"}, pod : Pods \cup {NoPod}]
         /\ work[w].step = "terminate" =>
              work[w] \in [step : {"terminate"}, pod : Pods,
                next : {Idle} \cup {MarkFailed(r) : r \in Runs}]
<1>1. work[w] \in WorkerSteps /\ CallInv(work[w]) /\ HeldPod(work[w])
  BY TypeParts DEF RunsInv
<1> QED BY <1>1 DEF WorkerSteps, Idle

\* Calls that hold nothing anybody else may have.
LEMMA PlainCalls ==
  ASSUME RunsInv
  PROVE  /\ Idle \in WorkerSteps /\ CallInv(Idle) /\ HeldPod(Idle)
         /\ Idle.step \notin {"stats", "bind"}
         /\ \A r \in Runs :
              /\ MarkFailed(r) \in WorkerSteps /\ CallInv(MarkFailed(r))
              /\ HeldPod(MarkFailed(r)) /\ MarkFailed(r).step = "finish"
         /\ \A p \in Pods \cup {NoPod} :
              /\ p \in Pods => podStatus[p] # "none"
              => /\ AfterEffects(p) \in WorkerSteps /\ CallInv(AfterEffects(p))
                 /\ HeldPod(AfterEffects(p))
                 /\ AfterEffects(p).step \notin {"stats", "bind"}
<1>1. /\ Idle \in WorkerSteps /\ CallInv(Idle) /\ HeldPod(Idle)
      /\ Idle.step \notin {"stats", "bind"}
  BY DEF Idle, WorkerSteps, CallInv, HeldPod
<1>2. ASSUME NEW r \in Runs
      PROVE  /\ MarkFailed(r) \in WorkerSteps /\ CallInv(MarkFailed(r))
             /\ HeldPod(MarkFailed(r)) /\ MarkFailed(r).step = "finish"
  <2>1. MarkFailed(r) \in WorkerSteps
    BY DEF MarkFailed, WorkerSteps
  <2> QED BY <2>1, NoPodAssumption DEF MarkFailed, CallInv, HeldPod
<1>3. ASSUME NEW p \in Pods \cup {NoPod}, p \in Pods => podStatus[p] # "none"
      PROVE  /\ AfterEffects(p) \in WorkerSteps /\ CallInv(AfterEffects(p))
             /\ HeldPod(AfterEffects(p))
             /\ AfterEffects(p).step \notin {"stats", "bind"}
  <2>1. CASE p = NoPod
    BY <1>1, <2>1 DEF AfterEffects
  <2>2. CASE p # NoPod
    <3>1. AfterEffects(p) \in WorkerSteps
      BY <2>2 DEF AfterEffects, WorkerSteps
    <3> QED BY <1>3, <2>2, <3>1 DEF AfterEffects, CallInv, HeldPod
  <2> QED BY <2>1, <2>2
<1> QED BY <1>1, <1>2, <1>3

LEMMA DerivedStatus ==
  ASSUME NEW s, NEW ph
  PROVE  DeriveRunStatus(s, ph) \in {"completed", "failed", "cancelled", "running"}
<1> DEFINE d == CASE s = "completed" -> "completed"
                  [] s = "terminated" -> "cancelled"
                  [] s = "error" -> "failed"
                  [] OTHER -> "running"
<1>1. d \in {"completed", "failed", "cancelled", "running"}
  OBVIOUS
<1>2. DeriveRunStatus(s, ph) =
        CASE ph \in {"completed", "max_iterations"} -> "completed"
          [] ph = "failed" -> "failed"
          [] ph = "stopped" -> "cancelled"
          [] OTHER -> d
  BY DEF DeriveRunStatus
<1> HIDE DEF d
<1> QED BY <1>1, <1>2

\* A call that ends a run on its own decision.
LEMMA CompleteShape ==
  ASSUME RunsInv, NEW r \in Runs, NEW p \in Pods \cup {NoPod},
         NEW s \in {"completed", "failed", "cancelled", "timeout"},
         p \in Pods => podStatus[p] # "none",
         s = "timeout" => Bound(r) /\ p = run[r].pod
  PROVE  /\ Complete(r, s, p) \in WorkerSteps /\ CallInv(Complete(r, s, p))
         /\ HeldPod(Complete(r, s, p)) /\ Complete(r, s, p).step = "finish"
<1>1. Complete(r, s, p) \in WorkerSteps
  BY DEF Complete, WorkerSteps
<1> QED BY <1>1 DEF Complete, CallInv, HeldPod

LEMMA DecideKeeps ==
  ASSUME RunsInv, NEW w \in Workers, NEW next \in WorkerSteps, Decide(w, next),
         podEvents' \subseteq podEvents,
         autopilotEvents' \subseteq autopilotEvents,
         CallInv(next), HeldPod(next), next.step \notin {"stats", "bind"}
  PROVE  RunsInv' /\ LifeStep
  BY QuietStepKeeps, TypeParts DEF Decide, RunsInv, DataOK

\* The pod of a row exists.
LEMMA BoundPod ==
  ASSUME RunsInv, NEW r \in Runs, Bound(r)
  PROVE  run[r].pod \in Pods /\ podStatus[run[r].pod] # "none"
  BY DEF RunsInv, TypeOK, RowInv, Bound

\* Calls that read a run and decide to end it.
LEMMA CallsKeepInv ==
  ASSUME RunsInv, NEW w \in Workers,
         \/ \E e \in podEvents : HandlePodTerminated(w, e)
         \/ \E e \in autopilotEvents : HandleAutopilotTerminated(w, e)
         \/ \E r \in Runs :
              \/ CheckTimeoutRuns(w, r) \/ CheckIdleLoopPods(w, r)
              \/ CleanupOrphanPendingRuns(w, r) \/ CancelRun(w, r)
  PROVE  RunsInv' /\ LifeStep
<1> USE PlainCalls
<1>1. ASSUME NEW e \in podEvents, HandlePodTerminated(w, e)
      PROVE  RunsInv' /\ LifeStep
  <2>1. PICK next : Decide(w, next) /\
          \/ next = Idle
          \/ \E r \in Runs, s \in {"completed", "failed", "cancelled"} :
               next = Complete(r, s, NoPod)
    <3>1. CASE \A r \in Runs : ~(Unfinished(r) /\ run[r].pod = e.pod)
      BY <1>1, <3>1 DEF HandlePodTerminated
    <3>2. ASSUME NEW r \in Runs,
                 Decide(w, LET s == DeriveRunStatus(e.status, PhaseOf(r)) IN
                           IF s = "running" THEN Idle
                           ELSE Complete(r, s, NoPod))
          PROVE \E next : Decide(w, next) /\
                  \/ next = Idle
                  \/ \E q \in Runs, s \in {"completed", "failed", "cancelled"} :
                       next = Complete(q, s, NoPod)
      BY <3>2, DerivedStatus
    <3> QED BY <1>1, <3>1, <3>2 DEF HandlePodTerminated
  <2>2. next \in WorkerSteps /\ CallInv(next) /\ HeldPod(next)
        /\ next.step \notin {"stats", "bind"}
    BY <2>1, CompleteShape, NoPodAssumption
  <2> QED BY <1>1, <2>1, <2>2, DecideKeeps DEF HandlePodTerminated
<1>2. ASSUME NEW e \in autopilotEvents, HandleAutopilotTerminated(w, e)
      PROVE  RunsInv' /\ LifeStep
  <2>1. PICK next : Decide(w, next) /\
          \/ next = Idle
          \/ \E r \in Runs :
               /\ e.phase \in TerminalPhases
               /\ next = Complete(r, DeriveRunStatus("none", e.phase), NoPod)
    BY <1>2 DEF HandleAutopilotTerminated
  <2>2. e.phase \in TerminalPhases =>
          DeriveRunStatus("none", e.phase) \in {"completed", "failed", "cancelled"}
    BY DEF DeriveRunStatus, TerminalPhases
  <2>3. next \in WorkerSteps /\ CallInv(next) /\ HeldPod(next)
        /\ next.step \notin {"stats", "bind"}
    BY <2>1, <2>2, CompleteShape, NoPodAssumption
  <2> QED BY <1>2, <2>1, <2>3, DecideKeeps DEF HandleAutopilotTerminated
<1>3. ASSUME NEW r \in Runs, CheckTimeoutRuns(w, r) \/ CheckIdleLoopPods(w, r)
      PROVE  RunsInv' /\ LifeStep
  <2>1. Bound(r) /\ run[r].pod \in Pods /\ podStatus[run[r].pod] # "none"
    BY <1>3, BoundPod DEF CheckTimeoutRuns, CheckIdleLoopPods
  <2>2. PICK s \in {"completed", "timeout"} :
          Decide(w, Complete(r, s, run[r].pod))
          /\ UNCHANGED <<podEvents, autopilotEvents>>
    BY <1>3 DEF CheckTimeoutRuns, CheckIdleLoopPods
  <2> DEFINE next == Complete(r, s, run[r].pod)
  <2>3. next \in WorkerSteps /\ CallInv(next) /\ HeldPod(next)
        /\ next.step \notin {"stats", "bind"}
    BY <2>1, CompleteShape
  <2> HIDE DEF next
  <2>4. Decide(w, next)
    BY <2>2 DEF next
  <2> QED BY <2>2, <2>3, <2>4, DecideKeeps
<1>4. ASSUME NEW r \in Runs, CleanupOrphanPendingRuns(w, r)
      PROVE  RunsInv' /\ LifeStep
  BY <1>4, DecideKeeps DEF CleanupOrphanPendingRuns
<1>5. ASSUME NEW r \in Runs, CancelRun(w, r) PROVE RunsInv' /\ LifeStep
  <2>1. PICK next :
          /\ Decide(w, next)
          /\ \/ Bound(r) /\ next = [step |-> "terminate", pod |-> run[r].pod,
                                    next |-> Idle]
             \/ next = [MarkFailed(r) EXCEPT !.status = "cancelled"]
    BY <1>5 DEF CancelRun
  <2>2. next \in WorkerSteps
    BY <2>1, BoundPod DEF WorkerSteps, MarkFailed
  <2>3. CallInv(next) /\ HeldPod(next) /\ next.step \notin {"stats", "bind"}
    BY <2>1, BoundPod, NoPodAssumption DEF CallInv, HeldPod, MarkFailed
  <2> QED BY <1>5, <2>1, <2>2, <2>3, DecideKeeps DEF CancelRun
<1> QED BY <1>1, <1>2, <1>3, <1>4, <1>5

\* How a step shows in the promises of the run.
LEMMA LifeQuiet ==
  ASSUME counted' = counted,
         \A r \in Runs : run'[r].status = run[r].status
                         /\ run'[r].pod = run[r].pod
  PROVE  LifeStep
  BY DEF LifeStep, Life!lifeVars

LEMMA TriggerKeeps ==
  ASSUME RunsInv, NEW w \in Workers, TriggerRun(w)
  PROVE  RunsInv' /\ LifeStep
<1> USE DEF RunsInv
<1>0. PICK r \in Runs, mode \in ExecutionModes, s \in {"pending", "skipped"} :
        \E next :
          /\ run[r].status = "none"
          /\ run' = [run EXCEPT ![r].status = s, ![r].mode = mode]
          /\ Go(w, next)
          /\ \/ /\ s = "skipped"
                /\ next = [step |-> "stats", run |-> r, by |-> "trigger",
                           pod |-> NoPod]
             \/ s = "pending" /\ next = [step |-> "start", run |-> r]
  BY DEF TriggerRun
<1>1. PICK next :
        /\ run[r].status = "none"
        /\ run' = [run EXCEPT ![r].status = s, ![r].mode = mode]
        /\ Go(w, next)
        /\ \/ /\ s = "skipped"
              /\ next = [step |-> "stats", run |-> r, by |-> "trigger",
                         pod |-> NoPod]
           \/ s = "pending" /\ next = [step |-> "start", run |-> r]
  BY <1>0
<1>2. UNCHANGED <<podVars, counted, losses>>
  BY DEF TriggerRun
<1>3. mode \in {"direct", "autopilot"}
  BY WorkflowRunsAssumption
<1>4. run \in [Runs -> [status : Absent \cup {"pending", "completed", "failed",
                         "cancelled", "timeout", "skipped"},
                       pod : Pods \cup {NoPod}, autopilot : BOOLEAN,
                       mode : {"direct", "autopilot"}]]
  BY TypeParts DEF DataOK
<1>5. /\ run'[r] = [run[r] EXCEPT !.status = s, !.mode = mode]
      /\ \A q \in Runs : q # r => run'[q] = run[q]
      /\ \A q \in Runs : run'[q].pod = run[q].pod
                         /\ run'[q].autopilot = run[q].autopilot
  BY <1>1, <1>4
<1>6. run' \in [Runs -> [status : Absent \cup {"pending", "completed", "failed",
                         "cancelled", "timeout", "skipped"},
                       pod : Pods \cup {NoPod}, autopilot : BOOLEAN,
                       mode : {"direct", "autopilot"}]]
  BY <1>1, <1>3, <1>4
<1>7. DataOK'
  BY <1>2, <1>5, <1>6, TypeParts DEF DataOK, Bound, podVars
<1>8. run'[r].status = s /\ counted[r] = 0
  BY <1>1, <1>4, <1>5 DEF RowInv
<1>9. RowInv'
  <2>1. \A q \in Runs : Bound(q) => podStatus[run[q].pod] # "none"
    BY DEF RowInv
  <2>2. \A q \in Runs : run'[q].status \in {"none", "pending"} => counted'[q] = 0
    BY <1>1, <1>2, <1>5, <1>8 DEF RowInv
  <2>3. \A q \in Runs : run'[q].status = "none" => run'[q].pod = NoPod
    <3>1. \A q \in Runs : run[q].status = "none" => run[q].pod = NoPod
      BY DEF RowInv
    <3>2. run'[r].status # "none" /\ \A q \in Runs : q # r => run'[q] = run[q]
      BY <1>1, <1>5, <1>8
    <3> QED BY <3>1, <3>2
  <2>4. \A q, t \in Runs :
          run'[q].pod # NoPod /\ run'[q].pod = run'[t].pod => q = t
    BY <1>5 DEF RowInv, Bound
  <2>5. \A q \in Runs : run'[q].pod # NoPod => podStatus'[run'[q].pod] # "none"
    BY <1>2, <1>5, <2>1 DEF Bound, podVars
  <2> QED BY <2>2, <2>3, <2>4, <2>5 DEF RowInv, Bound
<1>10. RunStep(w)
  BY <1>1, <1>2, <1>5, <1>8 DEF RunStep, podVars
<1>11. next \in WorkerSteps
  BY <1>1 DEF WorkerSteps
<1>12. CallInv(next)' /\ HeldPod(next)'
  <2>1. next.step \in {"start", "stats"}
    BY <1>1
  <2>2. next.step = "stats" => next.run = r /\ next.pod = NoPod /\ s = "skipped"
    BY <1>1
  <2>3. CallInv(next)'
    BY <1>2, <1>8, <2>1, <2>2 DEF CallInv
  <2> QED BY <2>1, <2>2, <2>3, NoPodAssumption DEF HeldPod
<1>13. \A v \in Workers \ {w} : Apart(next, work[v]) /\ Apart(work[v], next)
  BY <1>1 DEF Apart, CallInv
<1>14. LifeStep
  <2>1. [q \in Runs |-> run'[q].status]
          = [[q \in Runs |-> run[q].status] EXCEPT ![r] = s]
    BY <1>5, <1>8
  <2>2. [q \in Runs |-> run'[q].pod] = [q \in Runs |-> run[q].pod]
    BY <1>5
  <2>3. Life!Trigger(r)
    BY <1>1, <1>2, <2>1, <2>2 DEF Life!Trigger
  <2> QED BY <2>3 DEF LifeStep, Life!Next
<1> QED BY <1>1, <1>7, <1>9, <1>10, <1>11, <1>12, <1>13, <1>14, WorkerStepKeeps

LEMMA StartKeeps ==
  ASSUME RunsInv, NEW w \in Workers, StartRun(w) \/ StartExpires(w)
  PROVE  RunsInv' /\ LifeStep
<1>1. losses' \in 0 .. MaxLosses
  BY WorkflowRunsAssumption DEF StartRun, StartExpires, RunsInv, TypeOK
<1>2. PICK next :
        /\ Go(w, next)
        /\ \/ next = Idle
           \/ /\ work[w] \in [step : {"start", "create"}, run : Runs]
              /\ next = [work[w] EXCEPT !.step = "create"]
  BY CallShape DEF StartRun, StartExpires, At
<1>3. next \in WorkerSteps
  BY <1>2, PlainCalls DEF WorkerSteps
<1>4. CallInv(next) /\ HeldPod(next) /\ next.step \notin {"stats", "bind"}
  BY <1>2, PlainCalls DEF CallInv, HeldPod
<1> QED BY <1>1, <1>2, <1>3, <1>4, QuietStepKeeps DEF StartRun, StartExpires, podVars

\* A new pod is known to nobody but the start that created it.
LEMMA CreateKeeps ==
  ASSUME RunsInv, NEW w \in Workers, CreatePod(w)
  PROVE  RunsInv' /\ LifeStep
<1>1. /\ At(w, "create") /\ work[w].run \in Runs
      /\ UNCHANGED <<run, phase, podEvents, autopilotEvents, recovered, counted,
                     losses>>
  BY CallShape DEF CreatePod, At
<1>2. LifeStep
  BY <1>1, LifeQuiet
<1>3. CASE Go(w, MarkFailed(work[w].run)) /\ UNCHANGED podStatus
  <2>1. losses' \in 0 .. MaxLosses
    BY <1>1 DEF RunsInv, TypeOK
  <2> QED BY <1>1, <1>3, <2>1, PlainCalls, QuietStepKeeps
<1>4. ASSUME NEW p \in Pods, NEW s \in {"queued", "running"},
             podStatus[p] = "none",
             podStatus' = [podStatus EXCEPT ![p] = s],
             Go(w, [step |-> "bind", run |-> work[w].run, pod |-> p])
      PROVE  RunsInv'
  <2>0. PICK next : /\ next = [step |-> "bind", run |-> work[w].run, pod |-> p]
                    /\ Go(w, next)
    BY <1>4
  <2>1. next \in WorkerSteps
    BY <1>1, <2>0 DEF WorkerSteps
  <2>2. podStatus \in [Pods -> {"none"} \cup Statuses]
    BY DEF RunsInv, TypeOK
  <2>3. podStatus' \in [Pods -> {"none"} \cup Statuses]
    BY <1>4, <2>2 DEF Statuses, ActiveStatuses
  <2>4. podStatus'[p] # "none" /\ \A q \in Pods \ {p} : podStatus'[q] = podStatus[q]
    BY <1>4, <2>2
  <2>5. DataOK'
    BY <1>1, <2>3, TypeParts DEF RunsInv, DataOK, Bound
  <2>6. \A r \in Runs : run[r].pod # p
    BY <1>4, NoPodAssumption DEF RunsInv, RowInv, Bound
  <2>7. \A r \in Runs : Bound(r) => run[r].pod \in Pods
    BY BoundPod
  <2>8. RowInv'
    BY <1>1, <2>4, <2>6, <2>7 DEF RunsInv, RowInv, Bound
  <2>9. RunStep(w)
    BY <1>1, <2>4 DEF RunStep, Bound
  <2>10. CallInv(next)' /\ HeldPod(next)'
    BY <1>1, <2>0, <2>4, <2>6 DEF CallInv, HeldPod
  <2>11. \A v \in Workers \ {w} : Apart(next, work[v]) /\ Apart(work[v], next)
    <3>1. ASSUME NEW v \in Workers, work[v].step = "bind" PROVE work[v].pod # p
      BY <1>4, <3>1, CallShape DEF HeldPod
    <3> QED BY <2>0, <3>1 DEF Apart
  <2> QED BY <2>0, <2>1, <2>5, <2>8, <2>9, <2>10, <2>11, WorkerStepKeeps
<1> QED BY <1>2, <1>3, <1>4 DEF CreatePod

RunRows ==
  [Runs -> [status : Absent \cup {"pending", "completed", "failed",
                       "cancelled", "timeout", "skipped"},
            pod : Pods \cup {NoPod}, autopilot : BOOLEAN,
            mode : {"direct", "autopilot"}]]

\* A change to one row.
LEMMA RowChange ==
  ASSUME run \in RunRows, NEW r \in Runs
  PROVE  /\ \A q \in Pods : run' = [run EXCEPT ![r].pod = q] =>
              /\ run' \in RunRows /\ run'[r].pod = q
              /\ run'[r].autopilot = run[r].autopilot
              /\ \A t \in Runs : /\ run'[t].status = run[t].status
                                 /\ t # r => run'[t] = run[t]
         /\ run' = [run EXCEPT ![r].autopilot = TRUE] =>
              /\ run' \in RunRows
              /\ \A t \in Runs : /\ run'[t].status = run[t].status
                                 /\ run'[t].pod = run[t].pod
                                 /\ t # r => run'[t] = run[t]
         /\ \A s \in {"completed", "failed", "cancelled", "timeout"} :
              run' = [run EXCEPT ![r].status = s] =>
              /\ run' \in RunRows /\ run'[r].status = s
              /\ \A t \in Runs : /\ run'[t].pod = run[t].pod
                                 /\ run'[t].autopilot = run[t].autopilot
                                 /\ t # r => run'[t] = run[t]
<1>1. ASSUME NEW q \in Pods, run' = [run EXCEPT ![r].pod = q]
      PROVE  /\ run' \in RunRows /\ run'[r].pod = q
             /\ run'[r].autopilot = run[r].autopilot
             /\ \A t \in Runs : /\ run'[t].status = run[t].status
                                /\ t # r => run'[t] = run[t]
  BY <1>1 DEF RunRows
<1>2. ASSUME run' = [run EXCEPT ![r].autopilot = TRUE]
      PROVE  /\ run' \in RunRows
             /\ \A t \in Runs : /\ run'[t].status = run[t].status
                                /\ run'[t].pod = run[t].pod
                                /\ t # r => run'[t] = run[t]
  BY <1>2 DEF RunRows
<1>3. ASSUME NEW s \in {"completed", "failed", "cancelled", "timeout"},
             run' = [run EXCEPT ![r].status = s]
      PROVE  /\ run' \in RunRows /\ run'[r].status = s
             /\ \A t \in Runs : /\ run'[t].pod = run[t].pod
                                /\ run'[t].autopilot = run[t].autopilot
                                /\ t # r => run'[t] = run[t]
  BY <1>3 DEF RunRows
<1> QED BY <1>1, <1>2, <1>3

LEMMA TypedRows == RunsInv => run \in RunRows
  BY DEF RunsInv, TypeOK, RunRows

LEMMA BindKeeps ==
  ASSUME RunsInv, NEW w \in Workers, BindPod(w)
  PROVE  RunsInv' /\ LifeStep
<1>1. /\ work[w] \in [step : {"bind", "autopilot", "key"}, run : Runs, pod : Pods]
      /\ work[w].step = "bind" /\ UNCHANGED <<podVars, counted, losses>>
      /\ HeldPod(work[w]) /\ CallInv(work[w])
  BY CallShape DEF BindPod, At
<1>2. PICK r \in Runs, p \in Pods : r = work[w].run /\ p = work[w].pod
  BY <1>1
<1>3. podStatus[p] # "none" /\ \A q \in Runs : run[q].pod # p
  BY <1>1, <1>2 DEF HeldPod, CallInv
<1>4. CASE UNCHANGED run
  <2>0. p # NoPod
    BY NoPodAssumption
  <2>1. PICK next : /\ Go(w, next)
                    /\ \E c \in {Idle, MarkFailed(r)} :
                         next = [step |-> "terminate", pod |-> p, next |-> c]
    BY <1>2, <1>4, <2>0, RowChange, TypedRows DEF BindPod, GiveUp, Bindable, Bound
  <2>2. next \in WorkerSteps
    BY <2>1 DEF WorkerSteps
  <2>3. CallInv(next) /\ HeldPod(next)
    BY <1>3, <2>1 DEF CallInv, HeldPod
  <2>4. losses' \in 0 .. MaxLosses
    BY <1>1 DEF RunsInv, TypeOK
  <2> QED BY <1>1, <1>4, <2>1, <2>2, <2>3, <2>4, QuietStepKeeps DEF podVars
<1>5. CASE Bindable(r) /\ run' # run
  <2>1. PICK next :
          /\ run' = [run EXCEPT ![r].pod = p]
          /\ Go(w, next)
          /\ \/ next = Idle
             \/ next = [work[w] EXCEPT !.step = "autopilot"]
    BY <1>2, <1>5 DEF BindPod
  <2>2. /\ run \in RunRows /\ run' \in RunRows /\ run'[r].pod = p
        /\ run'[r].autopilot = run[r].autopilot
        /\ \A t \in Runs : /\ run'[t].status = run[t].status
                           /\ t # r => run'[t] = run[t]
    BY <2>1, RowChange, TypedRows
  <2>3. run[r].status = "pending" /\ run[r].pod = NoPod /\ p # NoPod
    BY <1>5, NoPodAssumption DEF Bindable, Unfinished, Bound
  <2>4. DataOK'
    BY <1>1, <2>2, <2>3, TypeParts DEF RunsInv, DataOK, RunRows, Bound, podVars
  <2>5. RowInv'
    <3>1. RowInv
      BY DEF RunsInv
    <3>2. \A q \in Runs : run'[q].status \in {"none", "pending"} => counted'[q] = 0
      BY <1>1, <2>2, <3>1 DEF RowInv
    <3>3. \A q \in Runs : run'[q].status = "none" => run'[q].pod = NoPod
      BY <2>2, <2>3, <3>1 DEF RowInv
    <3>4. \A q, t \in Runs :
            run'[q].pod # NoPod /\ run'[q].pod = run'[t].pod => q = t
      BY <1>3, <2>2, <3>1 DEF RowInv, Bound
    <3>5. \A q \in Runs : run'[q].pod # NoPod => podStatus'[run'[q].pod] # "none"
      BY <1>1, <1>3, <2>2, <3>1 DEF RowInv, Bound, podVars
    <3> QED BY <3>2, <3>3, <3>4, <3>5 DEF RowInv, Bound
  <2>6. RunStep(w)
    BY <1>1, <1>2, <2>2, <2>3 DEF RunStep, Bound, podVars
  <2>7. next \in WorkerSteps
    BY <1>1, <2>1, PlainCalls DEF WorkerSteps
  <2>8. CallInv(next)' /\ HeldPod(next)'
    BY <1>1, <1>2, <1>3, <2>1, <2>2, <2>3
    DEF CallInv, HeldPod, Idle, Bound, podVars
  <2>9. \A v \in Workers \ {w} : Apart(next, work[v]) /\ Apart(work[v], next)
    BY <1>1, <2>1 DEF Apart, Idle
  <2>10. LifeStep
    <3>1. [q \in Runs |-> run'[q].pod]
            = [[q \in Runs |-> run[q].pod] EXCEPT ![r] = p]
      BY <2>2
    <3>2. [q \in Runs |-> run'[q].status] = [q \in Runs |-> run[q].status]
      BY <2>2
    <3>3. Life!Bind(r)
      BY <1>1, <1>3, <2>3, <3>1, <3>2 DEF Life!Bind
    <3> QED BY <3>3 DEF LifeStep, Life!Next
  <2> QED BY <2>1, <2>4, <2>5, <2>6, <2>7, <2>8, <2>9, <2>10, WorkerStepKeeps
<1> QED BY <1>2, <1>4, <1>5 DEF BindPod

LEMMA AutopilotKeeps ==
  ASSUME RunsInv, NEW w \in Workers, StartAutopilot(w) \/ SetAutopilotKey(w)
  PROVE  RunsInv' /\ LifeStep
<1>1. /\ work[w] \in [step : {"bind", "autopilot", "key"}, run : Runs, pod : Pods]
      /\ work[w].step \in {"autopilot", "key"}
      /\ HeldPod(work[w]) /\ CallInv(work[w])
      /\ UNCHANGED <<podStatus, podEvents, autopilotEvents, recovered, counted,
                     losses>>
  BY CallShape DEF StartAutopilot, SetAutopilotKey, At, podVars
<1>2. PICK r \in Runs, p \in Pods :
        /\ r = work[w].run /\ p = work[w].pod
        /\ podStatus[p] # "none" /\ run[r].pod = p /\ p # NoPod
  BY <1>1 DEF HeldPod, CallInv, Bound
<1>3. PICK next :
        /\ Go(w, next)
        /\ \/ next = Idle
           \/ next = [work[w] EXCEPT !.step = "key"]
           \/ next = [step |-> "terminate", pod |-> p, next |-> MarkFailed(r)]
  BY <1>2 DEF StartAutopilot, SetAutopilotKey, GiveUp
<1>4. next \in WorkerSteps
  BY <1>1, <1>3, PlainCalls DEF WorkerSteps
<1>5. /\ run \in RunRows /\ run' \in RunRows
      /\ \A q \in Runs : /\ run'[q].status = run[q].status
                         /\ run'[q].pod = run[q].pod
                         /\ run'[q].autopilot => run[q].autopilot \/ q = r
  <2>1. CASE UNCHANGED run
    BY <2>1, TypedRows
  <2>2. CASE run' = [run EXCEPT ![r].autopilot = TRUE]
    BY <2>2, RowChange, TypedRows
  <2> QED BY <1>2, <2>1, <2>2 DEF StartAutopilot, SetAutopilotKey
<1>6. phase' \in [Pods -> {"none", "running"} \cup TerminalPhases]
  BY DEF StartAutopilot, SetAutopilotKey, RunsInv, TypeOK, podVars
<1>7. DataOK'
  BY <1>1, <1>2, <1>5, <1>6, TypeParts DEF RunsInv, DataOK, RunRows, Bound
<1>8. RowInv'
  <2>1. \A q \in Runs : run'[q].pod # NoPod => podStatus'[run'[q].pod] # "none"
    BY <1>1, <1>5 DEF RunsInv, RowInv, Bound
  <2> QED BY <1>1, <1>5, <2>1 DEF RunsInv, RowInv, Bound
<1>9. RunStep(w)
  BY <1>1, <1>5 DEF RunStep, Bound
<1>10. next.step \in {"idle", "key", "terminate"}
       /\ (next.step # "idle" => next.pod = p)
       /\ (next.step = "key" => next.run = r)
  BY <1>1, <1>2, <1>3 DEF Idle
<1>11. CallInv(next)' /\ HeldPod(next)'
  BY <1>1, <1>2, <1>5, <1>10 DEF CallInv, HeldPod, Bound
<1>12. \A v \in Workers \ {w} : Apart(next, work[v]) /\ Apart(work[v], next)
  BY <1>10 DEF Apart
<1>13. LifeStep
  BY <1>1, <1>5, LifeQuiet
<1> QED BY <1>3, <1>4, <1>7, <1>8, <1>9, <1>11, <1>12, <1>13, WorkerStepKeeps

LEMMA FinishKeeps ==
  ASSUME RunsInv, NEW w \in Workers, FinishRun(w)
  PROVE  RunsInv' /\ LifeStep
<1>1. /\ work[w] \in [step : {"finish"}, run : Runs, pod : Pods \cup {NoPod},
           status : {"completed", "failed", "cancelled", "timeout"},
           by : {"mark", "complete"}]
      /\ HeldPod(work[w]) /\ UNCHANGED <<podVars, counted, losses>>
  BY CallShape DEF FinishRun, At
<1>2. PICK r \in Runs, p \in Pods \cup {NoPod},
           s \in {"completed", "failed", "cancelled", "timeout"} :
        r = work[w].run /\ p = work[w].pod /\ s = work[w].status
  BY <1>1
<1>3. p \in Pods => podStatus[p] # "none"
  BY <1>1, <1>2 DEF HeldPod
<1>4. CASE ~FinishGuard(r)
  <2>1. Go(w, AfterEffects(p)) /\ UNCHANGED run
    BY <1>2, <1>4 DEF FinishRun
  <2>2. losses' \in 0 .. MaxLosses
    BY <1>1 DEF RunsInv, TypeOK
  <2> QED BY <1>1, <1>3, <2>1, <2>2, PlainCalls, QuietStepKeeps DEF podVars
<1>5. CASE FinishGuard(r)
  <2>1. PICK next :
          /\ run' = [run EXCEPT ![r].status = s]
          /\ Go(w, next)
          /\ next = [step |-> "stats", run |-> r, by |-> work[w].by, pod |-> p]
    BY <1>2, <1>5 DEF FinishRun
  <2>2. /\ run \in RunRows /\ run' \in RunRows /\ run'[r].status = s
        /\ \A t \in Runs : /\ run'[t].pod = run[t].pod
                           /\ run'[t].autopilot = run[t].autopilot
                           /\ t # r => run'[t] = run[t]
    BY <2>1, RowChange, TypedRows
  <2>3. run[r].status = "pending" /\ counted[r] = 0 /\ s \notin {"none", "pending"}
    BY <1>5 DEF FinishGuard, Unfinished, RunsInv, RowInv
  <2>4. DataOK'
    BY <1>1, <2>2, TypeParts DEF RunsInv, DataOK, RunRows, Bound, podVars
  <2>5. RowInv'
    <3>1. \A q \in Runs : run'[q].status \in {"none", "pending"} =>
            run'[q].status = run[q].status
      BY <2>2, <2>3
    <3> QED BY <1>1, <2>2, <3>1 DEF RunsInv, RowInv, Bound, podVars
  <2>6. RunStep(w)
    BY <1>1, <2>2, <2>3 DEF RunStep, podVars
  <2>7. next \in WorkerSteps
    BY <1>1, <2>1 DEF WorkerSteps
  <2>8. CallInv(next)' /\ HeldPod(next)'
    BY <1>1, <1>3, <2>1, <2>2, <2>3 DEF CallInv, HeldPod, podVars
  <2>9. \A v \in Workers \ {w} : Apart(next, work[v]) /\ Apart(work[v], next)
    <3>1. ASSUME NEW v \in Workers, work[v].step = "stats" PROVE work[v].run # r
      BY <2>3, <3>1, CallShape DEF CallInv
    <3> QED BY <2>1, <3>1 DEF Apart
  <2>10. LifeStep
    <3>1. [q \in Runs |-> run'[q].status]
            = [[q \in Runs |-> run[q].status] EXCEPT ![r] = s]
      BY <2>2
    <3>2. [q \in Runs |-> run'[q].pod] = [q \in Runs |-> run[q].pod]
      BY <2>2
    <3>3. Life!Finish(r)
      BY <1>1, <2>3, <3>1, <3>2 DEF Life!Finish, Life!Ends
    <3> QED BY <3>3 DEF LifeStep, Life!Next
  <2> QED BY <2>1, <2>4, <2>5, <2>6, <2>7, <2>8, <2>9, <2>10, WorkerStepKeeps
<1> QED BY <1>4, <1>5

\* Nobody else is about to count the run.
LEMMA StatsKeeps ==
  ASSUME RunsInv, NEW w \in Workers, UpdateRunStats(w)
  PROVE  RunsInv' /\ LifeStep
<1>1. /\ work[w] \in [step : {"stats"}, run : Runs, pod : Pods \cup {NoPod},
                      by : {"trigger", "mark", "complete"}]
      /\ HeldPod(work[w]) /\ CallInv(work[w])
      /\ UNCHANGED <<run, podVars, losses>>
  BY CallShape DEF UpdateRunStats, At
<1>2. PICK r \in Runs, p \in Pods \cup {NoPod} :
        /\ r = work[w].run /\ p = work[w].pod
        /\ run[r].status \notin {"none", "pending"} /\ counted[r] = 0
        /\ p \in Pods => podStatus[p] # "none"
  BY <1>1 DEF HeldPod, CallInv
<1>3. PICK next :
        /\ Go(w, next)
        /\ next = [step |-> "trim", pod |-> p] \/ next = AfterEffects(p)
  BY <1>2 DEF UpdateRunStats
<1>4. counted \in [Runs -> Nat] /\ run \in RunRows
  BY TypedRows DEF RunsInv, TypeOK
<1>5. UNCHANGED counted \/ counted' = [counted EXCEPT ![r] = 1]
  BY <1>2, <1>4 DEF UpdateRunStats
<1>6. counted' \in [Runs -> Nat] /\ \A q \in Runs \ {r} : counted'[q] = counted[q]
  BY <1>4, <1>5
<1>7. DataOK'
  BY <1>1, <1>6, TypeParts DEF RunsInv, DataOK, Bound, podVars
<1>8. RowInv'
  BY <1>1, <1>2, <1>6 DEF RunsInv, RowInv, Bound, podVars
<1>9. RunStep(w)
  BY <1>1, <1>2, <1>6 DEF RunStep, podVars
<1>10. next \in WorkerSteps /\ next.step \notin {"stats", "bind"}
       /\ CallInv(next) /\ HeldPod(next)
  <2>1. CASE next = AfterEffects(p)
    BY <1>2, <2>1, PlainCalls
  <2>2. CASE next = [step |-> "trim", pod |-> p]
    BY <1>2, <2>2 DEF WorkerSteps, CallInv, HeldPod
  <2> QED BY <1>3, <2>1, <2>2
<1>11. CallInv(next)' /\ HeldPod(next)'
  BY <1>1, <1>10 DEF CallInv, HeldPod, Bound, podVars
<1>12. \A v \in Workers \ {w} : Apart(next, work[v]) /\ Apart(work[v], next)
  BY <1>10 DEF Apart
<1>13. LifeStep
  <2>1. CASE UNCHANGED counted
    BY <1>1, <2>1, LifeQuiet
  <2>2. CASE counted' = [counted EXCEPT ![r] = 1]
    <3>1. run[r].status \in Life!Ends \cup {"deleted"}
      BY <1>2, <1>4 DEF RunRows, Life!Ends, Absent
    <3>2. Life!Count(r)
      BY <1>1, <1>2, <2>2, <3>1 DEF Life!Count
    <3> QED BY <3>2 DEF LifeStep, Life!Next
  <2> QED BY <1>5, <2>1, <2>2
<1> QED BY <1>3, <1>7, <1>8, <1>9, <1>10, <1>11, <1>12, <1>13, WorkerStepKeeps

LEMMA TrimKeeps ==
  ASSUME RunsInv, NEW w \in Workers, DeleteOldFinishedRuns(w)
  PROVE  RunsInv' /\ LifeStep
<1>1. /\ work[w] \in [step : {"trim"}, pod : Pods \cup {NoPod}]
      /\ HeldPod(work[w]) /\ UNCHANGED <<podVars, counted, losses>>
  BY CallShape DEF DeleteOldFinishedRuns, At
<1>2. PICK p \in Pods \cup {NoPod} :
        p = work[w].pod /\ (p \in Pods => podStatus[p] # "none")
  BY <1>1 DEF HeldPod
<1>3. PICK next : next = AfterEffects(p) /\ Go(w, next)
  BY <1>2 DEF DeleteOldFinishedRuns
<1>4. next \in WorkerSteps /\ CallInv(next) /\ HeldPod(next)
      /\ next.step \notin {"stats", "bind"}
  BY <1>2, <1>3, PlainCalls
<1> DEFINE Old(r) == Finished(r) /\ Cardinality({s \in Runs : s > r /\ Finished(s)})
                                      >= MaxRetainedRuns
<1>5. PICK D \in SUBSET {r \in Runs : Finished(r)} :
        run' = [r \in Runs |-> IF r \in D THEN [run[r] EXCEPT !.status = "deleted"]
                               ELSE run[r]]
  <2>1. {r \in Runs : Old(r)} \in SUBSET {r \in Runs : Finished(r)}
    OBVIOUS
  <2>2. run' = [r \in Runs |-> IF r \in {q \in Runs : Old(q)}
                               THEN [run[r] EXCEPT !.status = "deleted"]
                               ELSE run[r]]
    BY DEF DeleteOldFinishedRuns
  <2> HIDE DEF Old
  <2> QED BY <2>1, <2>2
<1>6. run \in RunRows
  BY TypedRows
<1>7. /\ run' \in RunRows
      /\ \A r \in Runs : /\ run'[r].pod = run[r].pod
                         /\ run'[r].autopilot = run[r].autopilot
                         /\ r \in D => run'[r].status = "deleted"
                         /\ r \notin D => run'[r] = run[r]
  BY <1>5, <1>6 DEF RunRows, Absent
<1>8. \A r \in D : run[r].status \notin {"none", "pending"}
  BY DEF Finished, Absent
<1>9. DataOK'
  BY <1>1, <1>7, TypeParts DEF RunsInv, DataOK, RunRows, Bound, podVars
<1>10. RowInv'
  <2>1. \A r \in Runs : run'[r].status \in {"none", "pending"} =>
          run'[r].status = run[r].status
    BY <1>7
  <2> QED BY <1>1, <1>7, <2>1 DEF RunsInv, RowInv, Bound, podVars
<1>11. RunStep(w)
  BY <1>1, <1>7 DEF RunStep, podVars
<1>12. CallInv(next)' /\ HeldPod(next)'
  <2>1. next.step \in {"idle", "terminate"}
    BY <1>3 DEF AfterEffects, Idle
  <2> QED BY <1>1, <1>4, <2>1 DEF CallInv, HeldPod, podVars
<1>13. \A v \in Workers \ {w} : Apart(next, work[v]) /\ Apart(work[v], next)
  BY <1>4 DEF Apart
<1>14. LifeStep
  <2> DEFINE st == [r \in Runs |-> run[r].status]
  <2>1. D \in SUBSET {r \in Runs : st[r] \in Life!Ends}
    BY <1>6 DEF Finished, Absent, RunRows, Life!Ends
  <2>2. [r \in Runs |-> run'[r].status]
          = [r \in Runs |-> IF r \in D THEN "deleted" ELSE st[r]]
    BY <1>7
  <2>3. [r \in Runs |-> run'[r].pod] = [r \in Runs |-> run[r].pod]
    BY <1>7
  <2>4. Life!Trim
    BY <1>1, <2>1, <2>2, <2>3 DEF Life!Trim
  <2> QED BY <2>4 DEF LifeStep, Life!Next
<1> QED BY <1>3, <1>4, <1>9, <1>10, <1>11, <1>12, <1>13, <1>14, WorkerStepKeeps

LEMMA TerminateKeeps ==
  ASSUME RunsInv, NEW w \in Workers, TerminatePod(w)
  PROVE  RunsInv' /\ LifeStep
<1>1. /\ work[w] \in [step : {"terminate"}, pod : Pods,
                      next : {Idle} \cup {MarkFailed(r) : r \in Runs}]
      /\ UNCHANGED <<run, phase, autopilotEvents, recovered, counted, losses>>
  BY CallShape DEF TerminatePod, At
<1>0. PICK p \in Pods : p = work[w].pod
  BY <1>1
<1>2. PICK next :
        /\ p = work[w].pod /\ Go(w, next) /\ next = work[w].next
        /\ next = Idle \/ (\E r \in Runs : next = MarkFailed(r))
  BY <1>1, <1>0 DEF TerminatePod
<1>3. next \in WorkerSteps /\ CallInv(next) /\ HeldPod(next)
      /\ next.step \notin {"stats", "bind"}
      /\ (next.step # "idle" => next.pod = NoPod)
  <2>1. CASE next = Idle
    BY <2>1, PlainCalls DEF Idle
  <2>2. ASSUME NEW r \in Runs, next = MarkFailed(r)
        PROVE  /\ next \in WorkerSteps /\ CallInv(next) /\ HeldPod(next)
               /\ next.step = "finish" /\ next.pod = NoPod
    <3>1. MarkFailed(r).pod = NoPod
      BY DEF MarkFailed
    <3> QED BY <2>2, <3>1, PlainCalls
  <2> QED BY <1>2, <2>1, <2>2
<1>4. podStatus \in [Pods -> {"none"} \cup Statuses]
      /\ podEvents \subseteq [pod : Pods, status : FinishedStatuses]
  BY DEF RunsInv, TypeOK
<1>5. /\ podStatus' \in [Pods -> {"none"} \cup Statuses]
      /\ \A q \in Pods : podStatus[q] # "none" => podStatus'[q] # "none"
      /\ podEvents' \subseteq [pod : Pods, status : FinishedStatuses]
  <2>1. CASE podStatus[p] \in ActiveStatuses
    <3>1. /\ podStatus' = [podStatus EXCEPT ![p] = "completed"]
          /\ podEvents' = podEvents \cup {[pod |-> p, status |-> "completed"]}
      BY <1>2, <2>1 DEF TerminatePod
    <3> QED BY <1>4, <3>1 DEF Statuses, FinishedStatuses
  <2>2. CASE podStatus[p] \notin ActiveStatuses
    BY <1>2, <1>4, <2>2 DEF TerminatePod
  <2> QED BY <2>1, <2>2
<1>6. DataOK'
  BY <1>1, <1>5, TypeParts DEF RunsInv, DataOK, Bound
<1>7. RowInv'
  BY <1>1, <1>5, BoundPod DEF RunsInv, RowInv, Bound
<1>8. RunStep(w)
  BY <1>1, <1>5 DEF RunStep
<1>9. CallInv(next)' /\ HeldPod(next)'
  BY <1>1, <1>3, NoPodAssumption DEF CallInv, HeldPod, Bound
<1>10. \A v \in Workers \ {w} : Apart(next, work[v]) /\ Apart(work[v], next)
  BY <1>3 DEF Apart
<1>11. LifeStep
  BY <1>1, LifeQuiet
<1> QED BY <1>2, <1>3, <1>6, <1>7, <1>8, <1>9, <1>10, <1>11, WorkerStepKeeps

\* Steps of the pods and of their autopilots, and the loss of all calls.
LEMMA EnvironmentKeeps ==
  ASSUME RunsInv,
         Crash \/ \E p \in Pods : PodChanges(p) \/ AutopilotFinishes(p)
  PROVE  RunsInv' /\ LifeStep
<1>1. UNCHANGED <<run, counted>>
  BY DEF Crash, PodChanges, AutopilotFinishes
<1>2. \/ UNCHANGED work
      \/ work' = [w \in Workers |-> Idle]
  BY DEF Crash, PodChanges, AutopilotFinishes
<1>3. /\ podStatus' \in [Pods -> {"none"} \cup Statuses]
      /\ \A q \in Pods : podStatus[q] # "none" => podStatus'[q] # "none"
      /\ podEvents' \subseteq [pod : Pods, status : FinishedStatuses]
      /\ recovered' \subseteq Pods
  <2>1. /\ podStatus \in [Pods -> {"none"} \cup Statuses]
        /\ podEvents \subseteq [pod : Pods, status : FinishedStatuses]
        /\ recovered \subseteq Pods
    BY DEF RunsInv, TypeOK
  <2>2. ASSUME NEW p \in Pods, PodChanges(p)
        PROVE  /\ \E s \in Statuses : podStatus' = [podStatus EXCEPT ![p] = s]
               /\ podEvents' \subseteq [pod : Pods, status : FinishedStatuses]
               /\ recovered' \subseteq Pods
    BY <2>1, <2>2, WorkflowRunsAssumption
    DEF PodChanges, Statuses, ActiveStatuses, FinishedStatuses
  <2>3. ASSUME NEW p \in Pods, NEW s \in Statuses,
               podStatus' = [podStatus EXCEPT ![p] = s]
        PROVE  /\ podStatus' \in [Pods -> {"none"} \cup Statuses]
               /\ \A q \in Pods : podStatus[q] # "none" => podStatus'[q] # "none"
    BY <2>1, <2>3 DEF Statuses, ActiveStatuses, FinishedStatuses
  <2>4. CASE UNCHANGED podStatus
    BY <2>1, <2>2, <2>4 DEF Crash, AutopilotFinishes
  <2> QED BY <2>1, <2>2, <2>3, <2>4 DEF Crash, AutopilotFinishes
<1>4. /\ phase' \in [Pods -> {"none", "running"} \cup TerminalPhases]
      /\ autopilotEvents' \subseteq [pod : Pods, phase : TerminalPhases]
      /\ losses' \in 0 .. MaxLosses
  <2>1. /\ phase \in [Pods -> {"none", "running"} \cup TerminalPhases]
        /\ autopilotEvents \subseteq [pod : Pods, phase : TerminalPhases]
        /\ losses \in 0 .. MaxLosses /\ AutopilotEnds \subseteq TerminalPhases
    BY WorkflowRunsAssumption DEF RunsInv, TypeOK, TerminalPhases
  <2> QED BY <2>1, WorkflowRunsAssumption DEF Crash, PodChanges, AutopilotFinishes
<1>5. DataOK'
  BY <1>1, <1>3, <1>4, TypeParts DEF RunsInv, DataOK, Bound
<1>6. RowInv'
  BY <1>1, <1>3, BoundPod DEF RunsInv, RowInv, Bound
<1>7. /\ work' \in [Workers -> WorkerSteps]
      /\ \A w \in Workers : CallInv(work[w])' /\ HeldPod(work[w])'
      /\ \A v, w \in Workers : v # w => Apart(work[v], work[w])'
  <2>1. CASE UNCHANGED work
    BY <1>1, <1>3, <2>1, TypeParts DEF RunsInv, CallInv, HeldPod, Apart, Bound
  <2>2. CASE work' = [w \in Workers |-> Idle]
    <3>1. \A w \in Workers : work'[w] = Idle /\ Idle.step = "idle"
      BY <2>2 DEF Idle
    <3>2. work' \in [Workers -> WorkerSteps]
      BY <2>2, PlainCalls
    <3> QED BY <3>1, <3>2 DEF CallInv, HeldPod, Apart
  <2> QED BY <1>2, <2>1, <2>2
<1>8. TypeOK'
  BY <1>5, <1>7 DEF TypeOK, DataOK, HeldPod
<1>9. LifeStep
  BY <1>1, LifeQuiet
<1> QED BY <1>6, <1>7, <1>8, <1>9 DEF RunsInv

LEMMA NextKeepsInv == RunsInv /\ [Next]_vars => RunsInv' /\ LifeStep
<1> SUFFICES ASSUME RunsInv, [Next]_vars PROVE RunsInv' /\ LifeStep
  OBVIOUS
<1>1. ASSUME NEW w \in Workers, Call(w) PROVE RunsInv' /\ LifeStep
  BY <1>1, TriggerKeeps, CallsKeepInv DEF Call
<1>2. ASSUME NEW w \in Workers, Continue(w) PROVE RunsInv' /\ LifeStep
  BY <1>2, StartKeeps, CreateKeeps, BindKeeps, AutopilotKeeps, FinishKeeps,
     StatsKeeps, TrimKeeps, TerminateKeeps DEF Continue
<1>3. CASE UNCHANGED vars
  <2>1. LifeStep
    BY <1>3, LifeQuiet DEF vars
  <2> QED BY <1>3, <2>1
      DEF vars, podVars, RunsInv, TypeOK, RowInv, CallInv, Apart, Bound
<1> QED BY <1>1, <1>2, <1>3, EnvironmentKeeps DEF Next

\* Every run, pod and call in progress keeps the shape the code gives it, and
\* what calls in progress know of a run stays true of it.
THEOREM RunTypes == Spec => []TypeOK
<1>1. RunsInv => TypeOK
  BY DEF RunsInv
<1> QED BY <1>1, InitRunsInv, NextKeepsInv, PTL DEF Spec

\* However many calls race to end a run, and whatever is lost on the way, it
\* keeps the promises of WorkflowRunLife: one end, one count, one pod of its
\* own, none after the end.
THEOREM RunsImplementLife == Spec => ImplementsLife
<1>1. Init => Life!Init
  BY DEF Init, Life!Init
<1> QED BY <1>1, InitRunsInv, NextKeepsInv, PTL
    DEF Spec, ImplementsLife, Life!Spec, LifeStep

-----------------------------------------------------------------------------
(* The limit on concurrent runs.                                           *)

Counted == {r \in ActiveRuns : run[r].pod \notin recovered}

LEMMA CountedIsFinite == IsFiniteSet(ActiveRuns) /\ IsFiniteSet(Counted)
<1>1. IsFiniteSet(Runs)
  BY FS_Interval, WorkflowRunsAssumption DEF Runs
<1> QED BY <1>1, FS_Subset DEF ActiveRuns, Counted

\* A step that adds nothing to the active runs keeps within the limit.
LEMMA NoMoreRuns ==
  ASSUME RunsInv, WithinConcurrency, Counted' \subseteq Counted
  PROVE  WithinConcurrency'
<1>1. IsFiniteSet(Counted)
  BY CountedIsFinite
<1>2. Cardinality(Counted') <= Cardinality(Counted)
      /\ Cardinality(Counted') \in Nat /\ Cardinality(Counted) \in Nat
  BY <1>1, FS_Subset, FS_CardinalityType
<1> QED BY <1>2, WorkflowRunsAssumption DEF WithinConcurrency, Counted

\* Only a trigger adds a run, when it counted fewer than the limit.
LEMMA TriggerWithin ==
  ASSUME RunsInv, WithinConcurrency, NEW w \in Workers, TriggerRun(w)
  PROVE  WithinConcurrency'
<1>1. PICK r \in Runs, mode \in ExecutionModes, s \in {"pending", "skipped"} :
        /\ run[r].status = "none"
        /\ run' = [run EXCEPT ![r].status = s, ![r].mode = mode]
        /\ s = "pending" => ~(CountActive >= MaxConcurrentRuns)
        /\ UNCHANGED <<podStatus, recovered>>
  BY DEF TriggerRun, podVars
<1>2. run \in RunRows
  BY TypedRows
<1>3. /\ \A q \in Runs : q # r => run'[q] = run[q]
      /\ run'[r].status = s /\ run'[r].pod = NoPod
  BY <1>1, <1>2 DEF RunRows, RunsInv, RowInv
<1>4. Counted' \subseteq Counted \cup {r}
  <2>1. \A q \in Runs : q # r /\ Active(q)' => Active(q)
    BY <1>1, <1>3 DEF Active, Unfinished, Bound
  <2>2. \A q \in Counted' : q # r => q \in Counted
    BY <1>1, <1>3, <2>1 DEF Counted, ActiveRuns
  <2> QED BY <2>2
<1>5. CASE s = "skipped"
  <2>1. ~Active(r)'
    BY <1>3, <1>5 DEF Active, Unfinished, Bound
  <2>2. Counted' \subseteq Counted
    BY <1>4, <2>1 DEF Counted, ActiveRuns
  <2> QED BY <2>2, NoMoreRuns
<1>6. CASE s = "pending"
  <2>1. /\ IsFiniteSet(ActiveRuns) /\ IsFiniteSet(Counted)
        /\ Counted \subseteq ActiveRuns
    BY CountedIsFinite DEF Counted
  <2>2. Cardinality(Counted) <= Cardinality(ActiveRuns)
        /\ Cardinality(Counted) \in Nat /\ Cardinality(ActiveRuns) \in Nat
    BY <2>1, FS_Subset, FS_CardinalityType
  <2>3. Cardinality(Counted) + 1 <= MaxConcurrentRuns
    BY <1>1, <1>6, <2>2, WorkflowRunsAssumption DEF CountActive
  <2>4. IsFiniteSet(Counted \cup {r})
        /\ Cardinality(Counted \cup {r}) <= Cardinality(Counted) + 1
    <3>1. Cardinality(Counted \cup {r}) =
            IF r \in Counted THEN Cardinality(Counted)
            ELSE Cardinality(Counted) + 1
      BY <2>1, FS_AddElement
    <3>2. IsFiniteSet(Counted \cup {r})
      BY <2>1, FS_AddElement
    <3> QED BY <2>2, <3>1, <3>2
  <2>5. Cardinality(Counted') <= Cardinality(Counted \cup {r})
        /\ Cardinality(Counted') \in Nat /\ Cardinality(Counted \cup {r}) \in Nat
    BY <1>4, <2>4, FS_Subset, FS_CardinalityType
  <2> QED BY <2>2, <2>3, <2>4, <2>5, WorkflowRunsAssumption
      DEF WithinConcurrency, Counted
<1> QED BY <1>5, <1>6

LEMMA NothingAdded ==
  ASSUME RunsInv, recovered \subseteq recovered',
         \A r \in Runs :
           /\ Active(r)' /\ run'[r].pod \notin recovered' => Active(r)
           /\ run'[r].pod = run[r].pod \/ run[r].pod = NoPod
  PROVE  Counted' \subseteq Counted
<1>1. NoPod \notin recovered
  BY NoPodAssumption DEF RunsInv, TypeOK
<1> QED BY <1>1 DEF Counted, ActiveRuns

LEMMA ContinueWithin ==
  ASSUME RunsInv, WithinConcurrency, NEW w \in Workers, Continue(w)
  PROVE  WithinConcurrency'
<1> USE NoMoreRuns, NothingAdded, CallShape, TypedRows
    DEF At, Active, Unfinished, Bound, podVars
<1>0. ASSUME UNCHANGED <<run, podStatus, recovered>> PROVE WithinConcurrency'
  BY <1>0
<1>1. CASE StartRun(w) \/ StartExpires(w) \/ UpdateRunStats(w)
           \/ StartAutopilot(w)
  BY <1>0, <1>1 DEF StartRun, StartExpires, UpdateRunStats, StartAutopilot
<1>2. CASE CreatePod(w)
  <2>1. \A r \in Runs : run[r].pod # NoPod => podStatus'[run[r].pod]
                                                = podStatus[run[r].pod]
    BY <1>2, BoundPod DEF CreatePod, RunsInv, TypeOK
  <2> QED BY <1>2, <2>1 DEF CreatePod
<1>3. CASE BindPod(w)
  <2>1. CASE UNCHANGED run
    BY <1>0, <1>3, <2>1 DEF BindPod
  <2>2. CASE Bindable(work[w].run)
    BY <1>3, <2>2, RowChange DEF BindPod, Bindable
  <2> QED BY <1>3, <2>1, <2>2 DEF BindPod
<1>4. CASE SetAutopilotKey(w)
  <2>1. \A r \in Runs : run'[r].status = run[r].status /\ run'[r].pod = run[r].pod
    <3>1. work[w].run \in Runs
      BY <1>4 DEF SetAutopilotKey
    <3>2. UNCHANGED run \/ run' = [run EXCEPT ![work[w].run].autopilot = TRUE]
      BY <1>4 DEF SetAutopilotKey
    <3> QED BY <3>1, <3>2, RowChange
  <2> QED BY <1>4, <2>1 DEF SetAutopilotKey
<1>5. CASE FinishRun(w)
  <2>1. CASE UNCHANGED run
    BY <1>0, <1>5, <2>1 DEF FinishRun
  <2>2. CASE FinishGuard(work[w].run)
    BY <1>5, <2>2, RowChange DEF FinishRun, FinishGuard, Absent
  <2> QED BY <1>5, <2>1, <2>2 DEF FinishRun
<1>6. CASE DeleteOldFinishedRuns(w)
  <2>1. \A r \in Runs :
          /\ run'[r].pod = run[r].pod
          /\ run'[r].status = run[r].status \/ run'[r].status = "deleted"
    BY <1>6 DEF DeleteOldFinishedRuns, RunRows
  <2> QED BY <1>6, <2>1 DEF DeleteOldFinishedRuns, Absent
<1>7. CASE TerminatePod(w)
  <2>1. \A p \in Pods : podStatus'[p] \in ActiveStatuses =>
          podStatus[p] \in ActiveStatuses
    BY <1>7 DEF TerminatePod, RunsInv, TypeOK, ActiveStatuses
  <2> QED BY <1>7, <2>1, BoundPod DEF TerminatePod
<1> QED BY <1>1, <1>2, <1>3, <1>4, <1>5, <1>6, <1>7 DEF Continue

LEMMA OthersWithin ==
  ASSUME RunsInv, WithinConcurrency,
         \/ \E w \in Workers :
              \/ \E e \in podEvents : HandlePodTerminated(w, e)
              \/ \E e \in autopilotEvents : HandleAutopilotTerminated(w, e)
              \/ \E r \in Runs :
                   \/ CheckTimeoutRuns(w, r) \/ CheckIdleLoopPods(w, r)
                   \/ CleanupOrphanPendingRuns(w, r) \/ CancelRun(w, r)
         \/ Crash
         \/ \E p \in Pods : PodChanges(p) \/ AutopilotFinishes(p)
         \/ UNCHANGED vars
  PROVE  WithinConcurrency'
<1> USE NoMoreRuns, NothingAdded DEF Active, Unfinished, Bound
<1>1. CASE UNCHANGED <<run, podStatus, recovered>>
  BY <1>1
<1>2. ASSUME NEW p \in Pods, PodChanges(p) PROVE WithinConcurrency'
  <2>1. recovered \subseteq recovered' /\ UNCHANGED run
    BY <1>2 DEF PodChanges
  <2>2. \A q \in Pods : podStatus'[q] \in ActiveStatuses /\ q \notin recovered' =>
          podStatus[q] \in ActiveStatuses
    BY <1>2 DEF PodChanges, RunsInv, TypeOK, ActiveStatuses
  <2> QED BY <2>1, <2>2, BoundPod
<1> QED
  BY <1>1, <1>2
  DEF HandlePodTerminated, HandleAutopilotTerminated, CheckTimeoutRuns,
      CheckIdleLoopPods, CleanupOrphanPendingRuns, CancelRun, Decide, Crash,
      AutopilotFinishes, vars, podVars

\* Whatever is triggered, bound or finished in between, and whatever is lost, a
\* workflow has at most max_concurrent_runs active runs whose pods were never
\* given up for lost.
THEOREM ConcurrencyHolds == Spec => []WithinConcurrency
<1>1. Init => WithinConcurrency
  <2> SUFFICES ASSUME Init PROVE WithinConcurrency
    OBVIOUS
  <2>1. Counted = {}
    BY DEF Init, Counted, ActiveRuns, Active, Unfinished, Absent
  <2> QED BY <2>1, FS_EmptySet, WorkflowRunsAssumption
      DEF WithinConcurrency, Counted
<1>2. RunsInv /\ WithinConcurrency /\ [Next]_vars => WithinConcurrency'
  BY TriggerWithin, ContinueWithin, OthersWithin DEF Next, Call
<1> QED BY <1>1, <1>2, InitRunsInv, NextKeepsInv, PTL DEF Spec

-----------------------------------------------------------------------------
(* Pods that nobody would stop.                                            *)

Owned(p) ==
  (\E r \in Runs : run[r].pod = p) \/ (\E w \in Workers : Holds(w, p))

LEMMA RunsKeepPods ==
  ASSUME RunsInv, [Next]_vars, NEW r \in Runs, Bound(r)
  PROVE  run'[r].pod = run[r].pod
<1> DEFINE pd == [q \in Runs |-> run[q].pod]
<1>1. LifeStep
  BY NextKeepsInv
<1>2. \/ pd' = pd
      \/ \E q \in Runs : \E p : pd[q] = NoPod /\ pd' = [pd EXCEPT ![q] = p]
  BY <1>1 DEF LifeStep, Life!Next, Life!lifeVars, Life!Trigger, Life!Bind,
              Life!Finish, Life!Count, Life!Trim
<1>3. pd[r] = run[r].pod /\ pd'[r] = run'[r].pod /\ DOMAIN pd = Runs
  OBVIOUS
<1>4. pd[r] # NoPod
  BY <1>3 DEF Bound
<1> HIDE DEF pd
<1> QED BY <1>2, <1>3, <1>4

\* A call lets go of a pod only for a run that has it, or after its end.
LEMMA CallLetsGo ==
  ASSUME RunsInv, NEW w \in Workers, Continue(w), UNCHANGED losses,
         NEW p \in Pods, Holds(w, p)
  PROVE  \/ Holds(w, p)' \/ podStatus'[p] \notin ActiveStatuses
         \/ At(w, "bind") /\ \E r \in Runs : run'[r].pod = p
<1>1. /\ work \in [Workers -> WorkerSteps]
      /\ podStatus \in [Pods -> {"none"} \cup Statuses] /\ p # NoPod
  BY NoPodAssumption DEF RunsInv, TypeOK
<1>2. \A next : Go(w, next) => work'[w] = next
  BY <1>1 DEF Go
<1>3. work[w].pod = p
  BY DEF Holds
<1>4. AfterEffects(p).step = "terminate" /\ AfterEffects(p).pod = p
  BY <1>1 DEF AfterEffects
<1>5. CASE BindPod(w)
  <2>1. work[w].run \in Runs
    BY <1>5, CallShape DEF BindPod, At
  <2>2. CASE run' = [run EXCEPT ![work[w].run].pod = p]
    <3>1. run'[work[w].run].pod = p
      BY <2>1, <2>2, RowChange, TypedRows
    <3> QED BY <1>5, <2>1, <3>1 DEF BindPod
  <2>3. CASE Go(w, [step |-> "terminate", pod |-> p, next |-> Idle]) \/ GiveUp(w)
    BY <1>2, <1>3, <1>5, <2>3 DEF GiveUp, Holds
  <2> QED BY <1>3, <1>5, <2>2, <2>3 DEF BindPod
<1>6. CASE FinishRun(w)
  BY <1>2, <1>3, <1>4, <1>6 DEF FinishRun, Holds
<1>7. CASE UpdateRunStats(w)
  BY <1>2, <1>3, <1>4, <1>7 DEF UpdateRunStats, Holds
<1>8. CASE DeleteOldFinishedRuns(w)
  BY <1>2, <1>3, <1>4, <1>8 DEF DeleteOldFinishedRuns, Holds
<1>9. CASE TerminatePod(w)
  BY <1>1, <1>3, <1>9 DEF TerminatePod, ActiveStatuses
<1>10. CASE StartExpires(w)
  <2>1. losses \in Nat
    BY WorkflowRunsAssumption DEF RunsInv, TypeOK
  <2> QED BY <1>10, <2>1 DEF StartExpires
<1> QED BY <1>5, <1>6, <1>7, <1>8, <1>9, <1>10
    DEF Continue, Holds, At, StartRun, CreatePod, StartAutopilot, SetAutopilotKey

LEMMA StaysHeld ==
  ASSUME RunsInv, [Next]_vars, UNCHANGED losses, NEW p \in Pods,
         NEW w \in Workers, Holds(w, p)
  PROVE  \/ Holds(w, p)' \/ podStatus'[p] \notin ActiveStatuses
         \/ At(w, "bind") /\ \E r \in Runs : run'[r].pod = p
<1>1. work \in [Workers -> WorkerSteps]
  BY DEF RunsInv, TypeOK
<1>2. CASE work'[w] = work[w]
  BY <1>2 DEF Holds
<1>3. CASE Continue(w)
  BY <1>3, CallLetsGo
<1>4. ASSUME NEW v \in Workers, Call(v) PROVE work'[w] = work[w]
  <2>1. At(v, "idle") /\ \E next : Go(v, next)
    BY <1>4 DEF Call, TriggerRun, HandlePodTerminated,
                HandleAutopilotTerminated, CheckTimeoutRuns,
                CheckIdleLoopPods, CleanupOrphanPendingRuns, CancelRun, Decide
  <2> QED BY <1>1, <2>1 DEF At, Holds, Go
<1>5. ASSUME NEW v \in Workers, v # w, Continue(v) PROVE work'[w] = work[w]
  <2>1. \E next : Go(v, next)
    BY <1>5 DEF Continue, StartRun, CreatePod, BindPod, StartAutopilot,
                SetAutopilotKey, StartExpires, FinishRun, UpdateRunStats,
                DeleteOldFinishedRuns, TerminatePod, GiveUp
  <2> QED BY <1>1, <1>5, <2>1 DEF Go
<1>6. ~Crash
  BY WorkflowRunsAssumption DEF Crash, RunsInv, TypeOK
<1> QED BY <1>2, <1>3, <1>4, <1>5, <1>6
    DEF Next, PodChanges, AutopilotFinishes, vars

LEMMA StaysOwned ==
  ASSUME RunsInv, [Next]_vars, UNCHANGED losses, NEW p \in Pods, Owned(p)
  PROVE  Owned(p)' \/ podStatus'[p] \notin ActiveStatuses
<1>1. ASSUME NEW r \in Runs, run[r].pod = p PROVE Owned(p)'
  BY <1>1, RunsKeepPods, NoPodAssumption DEF Bound, Owned
<1>2. ASSUME NEW w \in Workers, Holds(w, p)
      PROVE  Owned(p)' \/ podStatus'[p] \notin ActiveStatuses
  BY <1>2, StaysHeld DEF Owned
<1> QED BY <1>1, <1>2 DEF Owned

\* A pod that becomes active is a new one, which its start holds, one that was
\* active before, or one that was given up for lost.
LEMMA BecomesActive ==
  ASSUME RunsInv, [Next]_vars, NEW p \in Pods \ recovered',
         podStatus'[p] \in ActiveStatuses
  PROVE  /\ p \notin recovered
         /\ podStatus[p] \in ActiveStatuses \/ Owned(p)'
<1>1. /\ podStatus \in [Pods -> {"none"} \cup Statuses]
      /\ work \in [Workers -> WorkerSteps]
  BY DEF RunsInv, TypeOK
<1>2. CASE UNCHANGED <<podStatus, recovered>>
  BY <1>2
<1>3. ASSUME NEW w \in Workers, CreatePod(w), podStatus' # podStatus
      PROVE  /\ p \notin recovered
             /\ podStatus[p] \in ActiveStatuses \/ Owned(p)'
  <2>1. PICK q \in Pods, s \in {"queued", "running"} :
          /\ podStatus' = [podStatus EXCEPT ![q] = s] /\ UNCHANGED recovered
          /\ Go(w, [step |-> "bind", run |-> work[w].run, pod |-> q])
    BY <1>3 DEF CreatePod
  <2>2. CASE p = q
    <3>1. work'[w] = [step |-> "bind", run |-> work[w].run, pod |-> p]
      BY <1>1, <2>1, <2>2 DEF Go
    <3> QED BY <2>1, <3>1 DEF Owned, Holds
  <2>3. CASE p # q
    BY <1>1, <2>1, <2>3
  <2> QED BY <2>2, <2>3
<1>4. ASSUME NEW w \in Workers, TerminatePod(w)
      PROVE  p \notin recovered /\ podStatus[p] \in ActiveStatuses
  BY <1>1, <1>4 DEF TerminatePod, ActiveStatuses
<1>5. ASSUME NEW q \in Pods, PodChanges(q)
      PROVE  p \notin recovered /\ podStatus[p] \in ActiveStatuses
  BY <1>1, <1>5 DEF PodChanges, ActiveStatuses
<1>6. ASSUME NEW w \in Workers, CreatePod(w) PROVE UNCHANGED recovered
  BY <1>6 DEF CreatePod
<1> QED BY <1>2, <1>3, <1>4, <1>5, <1>6
    DEF Next, Call, Continue, vars, podVars, TriggerRun, HandlePodTerminated,
        HandleAutopilotTerminated, CheckTimeoutRuns, CheckIdleLoopPods,
        CleanupOrphanPendingRuns, CancelRun, Decide, StartRun, BindPod,
        StartAutopilot, SetAutopilotKey, StartExpires, FinishRun,
        UpdateRunStats, DeleteOldFinishedRuns, AutopilotFinishes, Crash

LEMMA LossesGrow ==
  ASSUME RunsInv, [Next]_vars, losses' = 0
  PROVE  losses = 0
<1>1. losses \in Nat
  BY WorkflowRunsAssumption DEF RunsInv, TypeOK
<1>2. losses' = losses \/ losses' = losses + 1
  BY DEF Next, Call, Continue, vars, TriggerRun, HandlePodTerminated,
         HandleAutopilotTerminated, CheckTimeoutRuns, CheckIdleLoopPods,
         CleanupOrphanPendingRuns, CancelRun, Decide, StartRun, CreatePod,
         BindPod, StartAutopilot, SetAutopilotKey, StartExpires, FinishRun,
         UpdateRunStats, DeleteOldFinishedRuns, TerminatePod, PodChanges,
         AutopilotFinishes, Crash
<1> QED BY <1>1, <1>2

\* Whatever finishes a run while its pod is being created, the pod is bound or
\* the start still has it to terminate.
THEOREM StartedPodsAreHeld == Spec => []StartedPodIsHeld
<1>1. Init => StartedPodIsHeld
  BY DEF Init, StartedPodIsHeld, ActiveStatuses
<1>2. RunsInv /\ StartedPodIsHeld /\ [Next]_vars => StartedPodIsHeld'
  <2> SUFFICES ASSUME RunsInv, StartedPodIsHeld, [Next]_vars, losses' = 0,
                      NEW p \in Pods \ recovered',
                      podStatus'[p] \in ActiveStatuses
               PROVE  Owned(p)'
    BY DEF StartedPodIsHeld, Owned
  <2>1. losses = 0 /\ UNCHANGED losses
    BY LossesGrow
  <2>2. p \notin recovered /\ (podStatus[p] \in ActiveStatuses => Owned(p))
    BY <2>1, BecomesActive DEF StartedPodIsHeld, Owned
  <2> QED BY <2>1, <2>2, BecomesActive, StaysOwned
<1> QED BY <1>1, <1>2, InitRunsInv, NextKeepsInv, PTL DEF Spec

\* The monitor that times out a run holds the pod of that run.
LEMMA TimesOut ==
  ASSUME RunsInv, [Next]_vars, NEW r \in Runs, run'[r].status = "timeout",
         run[r].status # "timeout"
  PROVE  \E p \in Pods, w \in Workers : run'[r].pod = p /\ Holds(w, p)'
<1>1. run \in RunRows /\ work \in [Workers -> WorkerSteps]
  BY TypedRows DEF RunsInv, TypeOK
<1>2. PICK w \in Workers : FinishRun(w) /\ run' # run
  <2>1. ASSUME NEW w \in Workers, TriggerRun(w) PROVE FALSE
    BY <1>1, <2>1 DEF TriggerRun, RunRows
  <2>2. ASSUME NEW w \in Workers, BindPod(w) PROVE FALSE
    BY <1>1, <2>2 DEF BindPod, RunRows
  <2>3. ASSUME NEW w \in Workers, SetAutopilotKey(w) PROVE FALSE
    BY <1>1, <2>3 DEF SetAutopilotKey, RunRows
  <2>4. ASSUME NEW w \in Workers, DeleteOldFinishedRuns(w) PROVE FALSE
    BY <1>1, <2>4 DEF DeleteOldFinishedRuns, RunRows
  <2> QED BY <2>1, <2>2, <2>3, <2>4
      DEF Next, Call, Continue, vars, HandlePodTerminated,
          HandleAutopilotTerminated, CheckTimeoutRuns, CheckIdleLoopPods,
          CleanupOrphanPendingRuns, CancelRun, Decide, StartRun, CreatePod,
          StartAutopilot, StartExpires, UpdateRunStats, TerminatePod,
          PodChanges, AutopilotFinishes, Crash
<1>3. /\ work[w].step = "finish" /\ work[w].run \in Runs
      /\ work[w].status \in {"completed", "failed", "cancelled", "timeout"}
      /\ CallInv(work[w])
  BY <1>2, CallShape DEF FinishRun, At
<1>4. /\ run' = [run EXCEPT ![work[w].run].status = work[w].status]
      /\ Go(w, [step |-> "stats", run |-> work[w].run, by |-> work[w].by,
                pod |-> work[w].pod])
  BY <1>2 DEF FinishRun
<1>5. r = work[w].run /\ work[w].status = "timeout" /\ run'[r].pod = run[r].pod
  BY <1>1, <1>3, <1>4, RowChange
<1>6. Bound(r) /\ work[w].pod = run[r].pod
  BY <1>3, <1>5 DEF CallInv
<1>7. work'[w].step = "stats" /\ work'[w].pod = work[w].pod
  BY <1>1, <1>4 DEF Go
<1> QED BY <1>5, <1>6, <1>7, BoundPod DEF Holds

\* A pod that is over stays so, unless it comes back.
LEMMA StaysOver ==
  ASSUME RunsInv, [Next]_vars, NEW p \in Pods
  PROVE  /\ recovered \subseteq recovered'
         /\ podStatus[p] \in FinishedStatuses =>
              podStatus'[p] \in FinishedStatuses \/ p \in recovered'
<1>1. podStatus \in [Pods -> {"none"} \cup Statuses]
  BY DEF RunsInv, TypeOK
<1>2. CASE UNCHANGED <<podStatus, recovered>>
  BY <1>2
<1>3. ASSUME NEW w \in Workers, CreatePod(w) \/ TerminatePod(w)
      PROVE  /\ UNCHANGED recovered
             /\ podStatus[p] \in FinishedStatuses => podStatus'[p] = podStatus[p]
  BY <1>1, <1>3 DEF CreatePod, TerminatePod, FinishedStatuses, ActiveStatuses
<1>4. ASSUME NEW q \in Pods, PodChanges(q)
      PROVE  /\ recovered \subseteq recovered'
             /\ podStatus[p] \in FinishedStatuses =>
                  podStatus'[p] \in FinishedStatuses \/ p \in recovered'
  BY <1>1, <1>4 DEF PodChanges, FinishedStatuses
<1> QED BY <1>2, <1>3, <1>4
    DEF Next, Call, Continue, vars, podVars, TriggerRun, HandlePodTerminated,
        HandleAutopilotTerminated, CheckTimeoutRuns, CheckIdleLoopPods,
        CleanupOrphanPendingRuns, CancelRun, Decide, StartRun, BindPod,
        StartAutopilot, SetAutopilotKey, StartExpires, FinishRun,
        UpdateRunStats, DeleteOldFinishedRuns, AutopilotFinishes, Crash

\* The pod of a run that timed out is over, given up for lost, or about to be
\* terminated, whatever ended the run and the pod first.
THEOREM TimedOutPodsStop == Spec => []TimedOutPodStops
<1> DEFINE Stops(r) == \/ podStatus[run[r].pod] \in FinishedStatuses
                       \/ run[r].pod \in recovered
                       \/ \E w \in Workers : Holds(w, run[r].pod)
           Inv == losses = 0 => \A r \in Runs : run[r].status = "timeout" =>
                    run[r].pod \in Pods /\ Stops(r)
<1>1. Init => Inv
  BY DEF Init
<1>2. RunsInv /\ Inv /\ [Next]_vars => Inv'
  <2> SUFFICES ASSUME RunsInv, Inv, [Next]_vars, losses' = 0, NEW r \in Runs,
                      run'[r].status = "timeout"
               PROVE  run'[r].pod \in Pods /\ Stops(r)'
    OBVIOUS
  <2>1. losses = 0 /\ UNCHANGED losses
    BY LossesGrow
  <2>2. CASE run[r].status # "timeout"
    <3>1. PICK p \in Pods, w \in Workers : run'[r].pod = p /\ Holds(w, p)'
      BY <2>2, TimesOut
    <3> QED BY <3>1 DEF Holds
  <2>3. CASE run[r].status = "timeout"
    <3>1. PICK p \in Pods : p = run[r].pod /\ Stops(r)
      BY <2>1, <2>3
    <3>2. run'[r].pod = p
      BY <3>1, RunsKeepPods, NoPodAssumption DEF Bound
    <3>3. podStatus'[p] \in ActiveStatuses \cup FinishedStatuses
      <4>1. RunsInv'
        BY NextKeepsInv
      <4> QED BY <3>1, <3>2, <4>1, NoPodAssumption
          DEF RunsInv, TypeOK, RowInv, Bound, Statuses
    <3>4. ASSUME NEW w \in Workers, Holds(w, p)
          PROVE  Holds(w, p)' \/ podStatus'[p] \notin ActiveStatuses
      <4>1. ~At(w, "bind")
        BY <3>1, <3>4, CallShape DEF At, Holds, CallInv
      <4> QED BY <2>1, <3>4, <4>1, StaysHeld
    <3> QED BY <3>1, <3>2, <3>3, <3>4, StaysOver
  <2> QED BY <2>2, <2>3
<1>3. Inv => TimedOutPodStops
  BY DEF TimedOutPodStops
<1> QED BY <1>1, <1>2, <1>3, InitRunsInv, NextKeepsInv, PTL DEF Spec
=============================================================================
