-------------------------- MODULE GoalLoop_proofs --------------------------
(***************************************************************************)
(* Proofs about GoalLoop for any number of calls in progress, pods, rounds *)
(* and crashes: the types, and that the loop keeps the promises of         *)
(* GoalLoopLife when it is started over only after the calls from before   *)
(* have returned.  A step is followed through the row (RowStep): what it   *)
(* leaves of the row is what the other calls in progress rely on.          *)
(* At the end, what the calls in progress know of the pod and of the event *)
(* they work on (CallsFit): a round begins with the work of the last one,  *)
(* and with a single start the loop knows the pod it has started.          *)
(***************************************************************************)
EXTENDS GoalLoop, TLAPS

\* What every step but StartClaim leaves of the row.
RowStep ==
  /\ loop.pod # NoPod => loop'.pod # NoPod
  /\ lastRequest' \in Nat /\ lastRequest <= lastRequest'
  /\ loop.evidence = "pass" => loop'.evidence = "pass"
  /\ \/ loop'.request = loop.request /\ loop'.iteration = loop.iteration
     \/ loop'.request = 0
     \/ loop'.request > lastRequest

LEMMA NoRoundYet == 0 \in Rounds
  BY GoalLoopAssumption DEF Rounds

LEMMA CallKept ==
  ASSUME NEW c, CallInv(c), RowStep, lastRequest \in Nat,
         c.step \in {"consume", "dispatch"} => c.request \in Nat
  PROVE  CallInv(c)'
  BY DEF CallInv, RowStep

\* The initial state.
LEMMA InitLoopInv == Init => LoopInv
  BY GoalLoopAssumption, NoPodAssumption
  DEF Init, LoopInv, TypeOK, Row, RowInv, CallInv, Idle, WorkerSteps, Status,
      Terminal, Unfinished, Rounds

\* A step of a worker: what it does to the row, to its own call and to the
\* variables that only have a type.
LEMMA WorkerStepKeeps ==
  ASSUME LoopInv, NEW w \in Workers, NEW next \in WorkerSteps,
         Go(w, next), RowStep, loop' \in Row, RowInv', CallInv(next)',
         podStatus' \in [Pods -> {"none", "running", "completed", "error"}],
         podEvents' \subseteq Pods, agentEvents' \subseteq agentEvents,
         UNCHANGED agentVars,
         asked' \subseteq [pod : Pods, request : Nat],
         queued' \subseteq Pods \X Rounds, clock' \in Nat,
         crashes' = crashes
  PROVE  LoopInv'
<1>1. TypeOK'
  BY DEF LoopInv, TypeOK, Go, agentVars, RowStep
<1>2. ASSUME NEW v \in Workers PROVE CallInv(work[v])'
  <2>1. CASE v = w
    <3>1. work'[v] = next
      BY <2>1 DEF Go, LoopInv, TypeOK
    <3> QED
      BY <3>1 DEF CallInv
  <2>2. CASE v # w
    <3>1. work'[v] = work[v] /\ work[v] \in WorkerSteps /\ CallInv(work[v])
      BY <2>2 DEF Go, LoopInv, TypeOK
    <3>2. work[v].step \in {"consume", "dispatch"} => work[v].request \in Nat
      BY <3>1 DEF CallInv
    <3>3. ASSUME NEW c, c = work[v], c = work'[v] PROVE CallInv(c)'
      BY <3>1, <3>2, <3>3, CallKept DEF LoopInv, TypeOK
    <3> QED
      BY <3>1, <3>3 DEF CallInv
  <2> QED BY <2>1, <2>2
<1> QED BY <1>1, <1>2 DEF LoopInv

\* The same for a step that leaves the row alone.
LEMMA QuietStepKeeps ==
  ASSUME LoopInv, NEW w \in Workers, NEW next \in WorkerSteps,
         Go(w, next), CallInv(next), UNCHANGED <<loop, lastRequest>>,
         podStatus' \in [Pods -> {"none", "running", "completed", "error"}],
         podEvents' \subseteq Pods, agentEvents' \subseteq agentEvents,
         UNCHANGED agentVars,
         asked' \subseteq [pod : Pods, request : Nat],
         \A r \in asked' : r.request # 0,
         queued' \subseteq Pods \X Rounds, UNCHANGED <<clock, crashes>>
  PROVE  LoopInv'
<1>1. RowStep /\ loop' \in Row /\ RowInv' /\ clock' \in Nat
  BY DEF LoopInv, TypeOK, RowInv, RowStep
<1>2. CallInv(next)'
  BY DEF CallInv
<1> QED BY <1>1, <1>2, WorkerStepKeeps

\* What each step has in hand.
LEMMA CallShape ==
  ASSUME LoopInv, NEW w \in Workers
  PROVE  /\ work[w] \in WorkerSteps /\ CallInv(work[w])
         /\ work[w].step \in {"persist", "begin", "reread"} =>
              work[w] \in [step : {"persist", "begin", "reread"}, pod : Pods]
         /\ work[w].step \in {"stop", "settle"} =>
              work[w] \in [step : {"stop", "settle"}, pod : Pods \cup {NoPod},
                          end : Ends]
         /\ work[w].step \in {"terminate", "mark"} =>
              work[w] \in [step : {"terminate", "mark"}, pod : Pods, end : Ends]
         /\ work[w].step = "dispatch" =>
              work[w] \in [step : {"dispatch"}, pod : Pods, request : Nat]
         /\ work[w].step = "consume" =>
              work[w] \in [step : {"consume"}, pod : Pods, request : Nat,
                          outcome : Outcomes, iteration : Rounds]
         /\ work[w].step = "queue" =>
              work[w] \in [step : {"queue"}, pod : Pods, retry : Rounds]
         /\ work[w].step = "activate" =>
              work[w] \in [step : {"activate"}, retry : Rounds]
<1>1. work[w] \in WorkerSteps /\ CallInv(work[w])
  BY DEF LoopInv, TypeOK
<1> QED BY <1>1 DEF WorkerSteps

\* Calls that read the row and decide.
LEMMA DecideKeeps ==
  ASSUME LoopInv, NEW w \in Workers, NEW next \in WorkerSteps,
         Decide(w, next), CallInv(next),
         podEvents' \subseteq podEvents, agentEvents' \subseteq agentEvents
  PROVE  LoopInv'
  BY QuietStepKeeps DEF Decide, LoopInv, TypeOK, RowInv, agentVars

LEMMA DecisionsAreCalls ==
  ASSUME LoopInv
  PROVE  /\ Idle \in WorkerSteps /\ CallInv(Idle)
         /\ Escalate \in WorkerSteps /\ CallInv(Escalate)
         /\ StopFor("cancel", "cancelled") \in WorkerSteps
         /\ CallInv(StopFor("cancel", "cancelled"))
         /\ CleanupPending => Cleanup \in WorkerSteps /\ CallInv(Cleanup)
         /\ loop.evidence = "pass" => Complete \in WorkerSteps /\ CallInv(Complete)
         /\ loop.pod # NoPod => Begin \in WorkerSteps /\ CallInv(Begin)
         /\ loop.retry # 0 => QueueRetry \in WorkerSteps /\ CallInv(QueueRetry)
         /\ loop.request # 0 => Dispatch \in WorkerSteps /\ CallInv(Dispatch)
         /\ loop.retry # 0 =>
              /\ [step |-> "activate", retry |-> loop.retry] \in WorkerSteps
              /\ CallInv([step |-> "activate", retry |-> loop.retry])
<1> USE GoalLoopAssumption
    DEF LoopInv, TypeOK, Row, Ends, WorkerSteps, CallInv, RowInv
<1>1. Idle \in WorkerSteps /\ CallInv(Idle)
  BY DEF Idle
<1>2. /\ Escalate \in WorkerSteps /\ CallInv(Escalate)
      /\ StopFor("cancel", "cancelled") \in WorkerSteps
      /\ CallInv(StopFor("cancel", "cancelled"))
  BY DEF Escalate, StopFor
<1>3. CleanupPending => Cleanup \in WorkerSteps /\ CallInv(Cleanup)
  BY DEF CleanupPending, Cleanup, StopFor
<1>4. loop.evidence = "pass" => Complete \in WorkerSteps /\ CallInv(Complete)
  BY DEF Complete, StopFor
<1>5. loop.pod # NoPod => Begin \in WorkerSteps /\ CallInv(Begin)
  BY DEF Begin
<1>6. loop.retry # 0 => QueueRetry \in WorkerSteps /\ CallInv(QueueRetry)
  BY DEF QueueRetry
<1>7. loop.request # 0 => Dispatch \in WorkerSteps /\ CallInv(Dispatch)
  BY DEF Dispatch
<1>8. loop.retry # 0 =>
        /\ [step |-> "activate", retry |-> loop.retry] \in WorkerSteps
        /\ CallInv([step |-> "activate", retry |-> loop.retry])
  OBVIOUS
<1> QED BY <1>1, <1>2, <1>3, <1>4, <1>5, <1>6, <1>7, <1>8

LEMMA CallsKeepInv ==
  ASSUME LoopInv, NEW w \in Workers,
         \/ Cancel(w) \/ Verify(w)
         \/ \E p \in Pods : HandlePodStatus(w, p)
         \/ \E e \in agentEvents : HandlePodAgentStatus(w, e)
         \/ \E r \in asked : HandleVerificationResult(w, r)
         \/ Expire(w) \/ RecoverPendingVerifications(w)
         \/ RecoverPendingRetryPrompts(w)
  PROVE  LoopInv' /\ UNCHANGED loop
<1> USE DecisionsAreCalls, DecideKeeps
<1>0. \A next : Decide(w, next) => UNCHANGED loop
  BY DEF Decide
<1>1. CASE Cancel(w)
  BY <1>0, <1>1 DEF Cancel, eventVars
<1>2. CASE Verify(w)
  <2> DEFINE n == CASE CleanupPending -> Cleanup
                    [] loop.retry # 0 -> QueueRetry
                    [] loop.status = "verifying" /\ loop.evidence = "pass" ->
                         Complete
                    [] loop.status = "verifying" /\ loop.evidence = "fail" ->
                         Escalate
                    [] loop.status = "verifying" /\ loop.request # 0 -> Dispatch
                    [] OTHER -> IF loop.status = "active" /\ loop.pod # NoPod
                                THEN Begin ELSE Idle
  <2>1. n \in WorkerSteps /\ CallInv(n)
    <3> HIDE DEF WorkerSteps, CallInv
    <3> QED OBVIOUS
  <2>2. Decide(w, n) /\ UNCHANGED eventVars
    BY <1>2 DEF Verify
  <2> HIDE DEF n
  <2> QED BY <1>0, <2>1, <2>2 DEF eventVars
<1>3. ASSUME NEW p \in Pods, HandlePodStatus(w, p) PROVE LoopInv' /\ UNCHANGED loop
  <2>1. p # NoPod
    BY NoPodAssumption
  <2> QED BY <1>0, <1>3, <2>1 DEF HandlePodStatus
<1>4. ASSUME NEW e \in agentEvents, HandlePodAgentStatus(w, e)
      PROVE LoopInv' /\ UNCHANGED loop
  <2>1. e.pod # NoPod
    BY NoPodAssumption DEF LoopInv, TypeOK
  <2> QED BY <1>0, <1>4, <2>1 DEF HandlePodAgentStatus
<1>5. ASSUME NEW r \in asked, HandleVerificationResult(w, r)
      PROVE LoopInv' /\ UNCHANGED loop
  <2>1. PICK o \in Outcomes :
          Decide(w, [step |-> "consume", pod |-> r.pod, request |-> r.request,
                     outcome |-> o, iteration |-> loop.iteration])
    BY <1>5 DEF HandleVerificationResult
  <2> DEFINE n == [step |-> "consume", pod |-> r.pod, request |-> r.request,
                   outcome |-> o, iteration |-> loop.iteration]
  <2>2. n \in WorkerSteps
    BY DEF WorkerSteps, LoopInv, TypeOK, Row
  <2>3. CallInv(n)
    BY <1>5 DEF HandleVerificationResult, LoopInv, TypeOK, Row, RowInv, CallInv
  <2> HIDE DEF n
  <2> QED BY <1>0, <1>5, <2>1, <2>2, <2>3 DEF HandleVerificationResult, eventVars, n
<1>6. CASE Expire(w)
  BY <1>0, <1>6 DEF Expire, eventVars
<1>7. CASE RecoverPendingVerifications(w)
  BY <1>0, <1>7 DEF RecoverPendingVerifications, eventVars
<1>8. CASE RecoverPendingRetryPrompts(w)
  BY <1>0, <1>8 DEF RecoverPendingRetryPrompts, eventVars
<1> QED BY <1>1, <1>2, <1>3, <1>4, <1>5, <1>6, <1>7, <1>8

\* Steps of calls that touch pods, requests and prompts but not the row.
LEMMA QuietContinueKeepsInv ==
  ASSUME LoopInv, NEW w \in Workers,
         \/ CreatePod(w) \/ LookAtPod(w) \/ TerminatePod(w)
         \/ DispatchVerification(w) \/ RereadAndQueue(w)
         \/ QueueRetryPrompt(w)
  PROVE  LoopInv' /\ UNCHANGED loop
<1> USE CallShape DEF At, eventVars, agentVars
<1>0. /\ TypeOK /\ RowInv
      /\ \A r \in asked : r.request # 0
      /\ Idle \in WorkerSteps /\ CallInv(Idle)
  BY DecisionsAreCalls DEF LoopInv, RowInv
<1>1. CASE CreatePod(w)
  <2>1. PICK next :
          /\ Go(w, next)
          /\ \/ next = [step |-> "fail_start"]
             \/ \E p \in Pods : next = [step |-> "persist", pod |-> p]
    BY <1>1 DEF CreatePod
  <2>2. next \in WorkerSteps /\ CallInv(next)
    BY <2>1 DEF WorkerSteps, CallInv
  <2> QED BY <1>0, <1>1, <2>1, <2>2, QuietStepKeeps DEF CreatePod, TypeOK
<1>2. CASE LookAtPod(w)
  <2>1. PICK next :
          /\ Go(w, next)
          /\ \/ next = [work[w] EXCEPT !.step = "settle"]
             \/ /\ next = [work[w] EXCEPT !.step = "terminate"]
                /\ work[w].pod # NoPod
    BY <1>2 DEF LookAtPod
  <2>2. next \in WorkerSteps /\ CallInv(next)
    BY <1>2, <2>1 DEF LookAtPod, WorkerSteps, CallInv
  <2> QED BY <1>0, <1>2, <2>1, <2>2, QuietStepKeeps DEF LookAtPod, TypeOK
<1>3. CASE TerminatePod(w)
  <2>1. PICK next :
          /\ Go(w, next)
          /\ next \in {Idle, [work[w] EXCEPT !.step = "settle"],
                       [work[w] EXCEPT !.step = "mark"]}
    BY <1>3 DEF TerminatePod
  <2>2. next \in WorkerSteps /\ CallInv(next)
    BY <1>0, <1>3, <2>1 DEF TerminatePod, WorkerSteps, CallInv
  <2>3. work[w].pod \in Pods
    BY <1>3 DEF TerminatePod
  <2> QED BY <1>0, <1>3, <2>1, <2>2, <2>3, QuietStepKeeps DEF TerminatePod, TypeOK
<1>4. CASE DispatchVerification(w)
  <2>1. /\ work[w] \in [step : {"dispatch"}, pod : Pods, request : Nat]
        /\ work[w].request # 0
    BY <1>4 DEF DispatchVerification, CallInv
  <2>2. /\ asked' \subseteq [pod : Pods, request : Nat]
        /\ \A r \in asked' : r.request # 0
    BY <1>0, <1>4, <2>1 DEF DispatchVerification, TypeOK
  <2> QED BY <1>0, <1>4, <2>2, QuietStepKeeps DEF DispatchVerification, TypeOK
<1>5. CASE RereadAndQueue(w)
  <2>1. work[w].pod \in Pods
    BY <1>5 DEF RereadAndQueue
  <2> QED BY <1>0, <1>5, <2>1, QuietStepKeeps DEF RereadAndQueue, TypeOK, Row
<1>6. CASE QueueRetryPrompt(w)
  <2>1. work[w].pod \in Pods /\ work[w].retry \in Rounds
    BY <1>6 DEF QueueRetryPrompt
  <2> QED BY <1>0, <1>6, <2>1, QuietStepKeeps DEF QueueRetryPrompt, TypeOK
<1> QED BY <1>1, <1>2, <1>3, <1>4, <1>5, <1>6

LifeStep == [Life!Next]_(Life!lifeVars)

\* Start: every other call has returned, so none holds anything of the row.
LEMMA StartClaimKeeps ==
  ASSUME LoopInv, ~OverlappingStart, NEW w \in Workers, StartClaim(w)
  PROVE  LoopInv' /\ LifeStep
<1>1. loop' \in Row /\ RowInv'
  BY GoalLoopAssumption
  DEF StartClaim, LoopInv, TypeOK, Row, RowInv, Status, Unfinished, Terminal, Rounds
<1>2. \A v \in Workers : work'[v] \in {Idle, [step |-> "create"]}
  <2>1. ASSUME NEW v \in Workers PROVE work[v] = Idle
    BY <2>1, CallShape DEF StartClaim, At, Idle, WorkerSteps
  <2> QED BY <2>1 DEF StartClaim, Go, LoopInv, TypeOK
<1>3. \A v \in Workers : CallInv(work[v])'
  BY <1>2 DEF CallInv, Idle
<1>4. TypeOK'
  BY <1>1, <1>2 DEF StartClaim, Go, LoopInv, TypeOK, WorkerSteps, eventVars,
     agentVars, Idle
<1>5. LifeStep
  BY DEF StartClaim, LifeStep, Life!Next, Life!Start
<1> QED BY <1>1, <1>3, <1>4, <1>5 DEF LoopInv

\* Steps of calls that write the row.
LEMMA FailStartKeeps ==
  ASSUME LoopInv, NEW w \in Workers, FailStart(w)
  PROVE  LoopInv' /\ LifeStep
<1>1. RowStep /\ loop' \in Row /\ RowInv' /\ CallInv(Idle)'
  <2>1. RowStep
    BY DEF FailStart, LoopInv, TypeOK, Row, RowStep
  <2>2. loop' \in Row
    BY DEF FailStart, LoopInv, TypeOK, Row, RowInv, Status, Terminal, Unfinished
  <2>3. RowInv'
    BY DEF FailStart, LoopInv, TypeOK, Row, RowInv, Status, Terminal, Unfinished
  <2>4. CallInv(Idle)'
    BY DEF FailStart, LoopInv, TypeOK, Row, RowInv, CallInv, Idle
  <2> QED BY <2>1, <2>2, <2>3, <2>4
<1>2. LifeStep
  BY DEF FailStart, LifeStep, Life!Next, Life!End, Life!Unfinished, Life!lifeVars,
     LoopInv, TypeOK, Row
<1> QED BY <1>1, <1>2, WorkerStepKeeps, DecisionsAreCalls
  DEF FailStart, eventVars, LoopInv, TypeOK

LEMMA PersistKeyKeeps ==
  ASSUME LoopInv, NEW w \in Workers, PersistKey(w)
  PROVE  LoopInv' /\ LifeStep
<1>0. work[w].pod \in Pods /\ work[w].pod # NoPod
  BY CallShape, NoPodAssumption DEF PersistKey, At
<1>1. PICK next :
        /\ Go(w, next)
        /\ \/ next = Idle
           \/ next = [step |-> "terminate", pod |-> work[w].pod,
                      end |-> [kind |-> "abort", to |-> "cancelled"]]
  BY DEF PersistKey
<1>2. next \in WorkerSteps
  BY <1>0, <1>1, DecisionsAreCalls DEF WorkerSteps, Ends
<1>3. RowStep /\ loop' \in Row /\ RowInv' /\ CallInv(next)'
  BY <1>0, <1>1 DEF PersistKey, LoopInv, TypeOK, Row, RowInv, RowStep, CallInv, Idle
<1>4. LifeStep
  BY DEF PersistKey, LifeStep, Life!lifeVars, LoopInv, TypeOK, Row
<1> QED BY <1>1, <1>2, <1>3, <1>4, WorkerStepKeeps
  DEF PersistKey, eventVars, LoopInv, TypeOK

LEMMA MarkForCleanupKeeps ==
  ASSUME LoopInv, NEW w \in Workers, MarkForCleanup(w)
  PROVE  LoopInv' /\ LifeStep
<1>0. /\ work[w].pod \in Pods /\ work[w].pod # NoPod
      /\ work[w].end \in Ends
      /\ work[w].end.to = "completed" => loop.evidence = "pass"
  BY CallShape, NoPodAssumption DEF MarkForCleanup, At, CallInv
<1>1. RowStep /\ loop' \in Row /\ RowInv' /\ CallInv(Idle)'
  <2>1. RowStep
    BY <1>0 DEF MarkForCleanup, LoopInv, TypeOK, Row, RowStep
  <2>2. loop' \in Row
    BY <1>0 DEF MarkForCleanup, LoopInv, TypeOK, Row, RowInv, Ends
  <2>3. RowInv'
    BY <1>0 DEF MarkForCleanup, LoopInv, TypeOK, Row, RowInv, Ends
  <2>4. CallInv(Idle)'
    BY <1>0 DEF MarkForCleanup, LoopInv, TypeOK, Row, RowInv, CallInv, Idle
  <2> QED BY <2>1, <2>2, <2>3, <2>4
<1>2. LifeStep
  BY DEF MarkForCleanup, LifeStep, Life!lifeVars, LoopInv, TypeOK, Row
<1> QED BY <1>1, <1>2, WorkerStepKeeps, DecisionsAreCalls
  DEF MarkForCleanup, eventVars, LoopInv, TypeOK

LEMMA SettleKeeps ==
  ASSUME LoopInv, NEW w \in Workers, Settle(w)
  PROVE  LoopInv' /\ LifeStep
<1> DEFINE end == work[w].end
<1>0. /\ end \in Ends
      /\ end.to = "completed" => loop.evidence = "pass"
  BY CallShape DEF Settle, At, CallInv
<1>1. \/ loop' = loop
      \/ loop' = [loop EXCEPT !.marker = "none"]
      \/ /\ loop.status \in Unfinished
         /\ loop' = [loop EXCEPT !.status = "cancelled", !.request = 0,
                                 !.retry = 0]
      \/ /\ loop.status \in Unfinished
         /\ loop' = [loop EXCEPT !.status = end.to, !.marker = "none"]
  <2>1. From(end.kind) \subseteq Unfinished
    BY DEF From, Unfinished
  <2> QED BY <2>1 DEF Settle
<1> HIDE DEF end
<1>2. RowStep /\ loop' \in Row /\ RowInv' /\ CallInv(Idle)'
  <2>1. RowStep
    <3>1. /\ loop'.pod = loop.pod /\ loop'.evidence = loop.evidence
          /\ \/ loop'.request = 0
             \/ loop'.request = loop.request /\ loop'.iteration = loop.iteration
      BY <1>1 DEF LoopInv, TypeOK, Row
    <3> QED BY <3>1 DEF Settle, LoopInv, TypeOK, RowStep
  <2>2. loop' \in Row
    <3>1. "cancelled" \in Status /\ end.to \in Status
      BY <1>0 DEF Ends, Status, Terminal, Unfinished
    <3>2. loop \in Row
      BY DEF LoopInv, TypeOK
    <3>3. CASE loop' = [loop EXCEPT !.status = "cancelled", !.request = 0,
                                    !.retry = 0]
      BY <3>1, <3>2, <3>3, NoRoundYet DEF Row
    <3>4. CASE loop' = [loop EXCEPT !.status = end.to, !.marker = "none"]
      BY <3>1, <3>2, <3>4 DEF Row
    <3> QED BY <1>1, <3>2, <3>3, <3>4 DEF Row
  <2>3. RowInv'
    <3>1. CASE loop' = loop \/ loop' = [loop EXCEPT !.marker = "none"]
      BY <3>1 DEF Settle, LoopInv, TypeOK, Row, RowInv
    <3>2. CASE loop' = [loop EXCEPT !.status = "cancelled", !.request = 0,
                                    !.retry = 0]
      BY <3>2, GoalLoopAssumption
      DEF Settle, LoopInv, TypeOK, Row, RowInv, Status, Terminal, Rounds
    <3>3. CASE loop' = [loop EXCEPT !.status = end.to, !.marker = "none"]
      BY <1>0, <3>3
      DEF Settle, LoopInv, TypeOK, Row, RowInv, Ends, Status, Terminal,
          Unfinished
    <3> QED BY <1>1, <3>1, <3>2, <3>3
  <2>4. CallInv(Idle)'
    BY <1>0, <1>1 DEF Settle, LoopInv, TypeOK, Row, RowInv, CallInv, Idle
  <2> QED BY <2>1, <2>2, <2>3, <2>4
<1>3. LifeStep
  BY <1>0, <1>1 DEF LifeStep, Life!Next, Life!End, Life!Complete,
     Life!Unfinished, Life!lifeVars, LoopInv, TypeOK, Row, Unfinished, Ends
<1> QED BY <1>2, <1>3, WorkerStepKeeps, DecisionsAreCalls
  DEF Settle, eventVars, LoopInv, TypeOK

LEMMA BeginVerificationKeeps ==
  ASSUME LoopInv, NEW w \in Workers, BeginVerification(w)
  PROVE  LoopInv' /\ LifeStep
<1>0. /\ work[w].pod \in Pods /\ loop.pod # NoPod
  BY CallShape DEF BeginVerification, At, CallInv
<1>1. CASE loop.status = "active"
  <2>0. PICK next : next = [step |-> "dispatch", pod |-> work[w].pod,
                            request |-> lastRequest + 1]
    OBVIOUS
  <2>1. /\ lastRequest' = lastRequest + 1
        /\ loop' = [loop EXCEPT !.status = "verifying",
                      !.request = lastRequest + 1, !.evidence = "none",
                      !.marker = "none"]
        /\ Go(w, next)
    BY <1>1, <2>0 DEF BeginVerification
  <2>2. lastRequest + 1 \in Nat /\ next \in WorkerSteps
    BY <1>0, <2>0 DEF WorkerSteps, LoopInv, TypeOK
  <2>3. loop' \in Row
    BY <2>1, <2>2 DEF LoopInv, TypeOK, Row, Status, Unfinished
  <2>4. RowStep
    BY <1>1, <2>1 DEF LoopInv, TypeOK, Row, RowInv, RowStep
  <2>6. RowInv'
    BY <1>0, <1>1, <2>1 DEF BeginVerification, LoopInv, TypeOK, Row, RowInv
  <2>7. CallInv(next)'
    <3>1. /\ loop'.pod # NoPod /\ next.request = lastRequest'
          /\ lastRequest' \in Nat \ {0} /\ next.step = "dispatch"
      BY <1>0, <2>0, <2>1 DEF LoopInv, TypeOK, Row
    <3> QED BY <3>1 DEF CallInv
  <2>5. LifeStep
    BY <1>1, <2>1 DEF LifeStep, Life!Next, Life!Verify, LoopInv, TypeOK, Row
  <2>8. /\ UNCHANGED <<podStatus, podEvents, agentEvents, asked, queued>>
        /\ UNCHANGED agentVars /\ UNCHANGED <<clock, crashes>>
    BY DEF BeginVerification, eventVars
  <2>9. /\ podStatus' \in [Pods -> {"none", "running", "completed", "error"}]
        /\ podEvents' \subseteq Pods /\ agentEvents' \subseteq agentEvents
        /\ asked' \subseteq [pod : Pods, request : Nat]
        /\ queued' \subseteq Pods \X Rounds /\ clock' \in Nat
        /\ crashes' = crashes
    BY <2>8 DEF LoopInv, TypeOK
  <2>10. LoopInv'
    BY <2>1, <2>2, <2>3, <2>4, <2>6, <2>7, <2>8, <2>9, WorkerStepKeeps
  <2> QED BY <2>5, <2>10
<1>2. CASE loop.status # "active"
  <2>1. Go(w, Idle) /\ UNCHANGED <<loop, lastRequest>>
    BY <1>2 DEF BeginVerification
  <2>2. LifeStep
    BY <2>1 DEF LifeStep, Life!lifeVars
  <2> QED BY <2>1, <2>2, QuietStepKeeps, DecisionsAreCalls
    DEF BeginVerification, eventVars, LoopInv, TypeOK, RowInv
<1> QED BY <1>1, <1>2

LEMMA ConsumeResultKeeps ==
  ASSUME LoopInv, NEW w \in Workers, ConsumeResult(w)
  PROVE  LoopInv' /\ LifeStep
<1> DEFINE c == work[w]
<1>0. /\ c \in [step : {"consume"}, pod : Pods, request : Nat,
                outcome : Outcomes, iteration : Rounds]
      /\ c.request # 0 /\ loop.pod # NoPod
      /\ loop.request = c.request =>
           /\ c.iteration = loop.iteration /\ loop.iteration < MaxIterations
           /\ loop.evidence = "none" /\ loop.retry = 0
  BY CallShape DEF ConsumeResult, At, CallInv, LoopInv, TypeOK, Row, RowInv
<1>1. CASE StillAsked(c)
  <2>0. loop.status = "verifying" /\ loop.request = c.request
    BY <1>1 DEF StillAsked
  <2>1. PICK evidence \in {"pass", "fail"}, retry \in {0, c.iteration + 2},
             retryAt \in Nat :
          /\ loop' = [loop EXCEPT !.iteration = c.iteration + 1, !.request = 0,
                        !.evidence = evidence, !.marker = "none",
                        !.retry = retry, !.retryAt = retryAt]
          /\ retry # 0 => c.iteration + 1 < MaxIterations /\ evidence = "fail"
          /\ (evidence = "pass" <=> c.outcome = "pass")
    <3> DEFINE again == c.outcome = "fail" /\ c.iteration + 1 < MaxIterations
    <3>1. CASE again
      <4>1. loop' = [loop EXCEPT !.iteration = c.iteration + 1, !.request = 0,
                       !.evidence = "fail", !.marker = "none",
                       !.retry = c.iteration + 2, !.retryAt = clock + 1]
        BY <1>1, <3>1 DEF ConsumeResult
      <4>2. clock + 1 \in Nat
        BY DEF LoopInv, TypeOK
      <4> QED BY <3>1, <4>1, <4>2
    <3>2. CASE ~again
      BY <1>0, <1>1, <3>2 DEF ConsumeResult, LoopInv, TypeOK
    <3> QED BY <3>1, <3>2
  <2>2. PICK next :
          /\ Go(w, next)
          /\ \/ next = [step |-> "reread", pod |-> c.pod]
             \/ /\ c.outcome = "pass"
                /\ next = [step |-> "stop", pod |-> c.pod,
                           end |-> [kind |-> "complete", to |-> "completed"]]
             \/ next = [step |-> "stop", pod |-> c.pod,
                        end |-> [kind |-> "escalate", to |-> EscalationPolicy]]
    BY <1>1 DEF ConsumeResult
  <2> HIDE DEF c
  <2>3. next \in WorkerSteps
    BY <1>0, <2>2, GoalLoopAssumption DEF WorkerSteps, Ends
  <2>4. loop' \in Row
    <3>1. c.iteration + 1 \in Rounds /\ retry \in Rounds
      BY <1>0, <2>0, <2>1, GoalLoopAssumption DEF Rounds
    <3> QED BY <2>1, <3>1 DEF LoopInv, TypeOK, Row
  <2>5. RowStep
    BY <1>0, <2>0, <2>1 DEF ConsumeResult, LoopInv, TypeOK, Row, RowStep
  <2>6. RowInv'
    BY <1>0, <2>0, <2>1, GoalLoopAssumption
    DEF ConsumeResult, LoopInv, TypeOK, Row, RowInv, Rounds
  <2>7. CallInv(next)'
    BY <1>0, <2>0, <2>1, <2>2, GoalLoopAssumption DEF LoopInv, TypeOK, Row, CallInv
  <2>8. LifeStep
    BY <1>0, <2>0, <2>1 DEF LifeStep, Life!Next, Life!Judge, LoopInv, TypeOK, Row
  <2>9. clock' \in Nat
    BY DEF ConsumeResult, LoopInv, TypeOK
  <2> QED BY <2>2, <2>3, <2>4, <2>5, <2>6, <2>7, <2>8, <2>9, WorkerStepKeeps
    DEF ConsumeResult, eventVars, LoopInv, TypeOK
<1>2. CASE ~StillAsked(c)
  <2>1. Go(w, Idle) /\ UNCHANGED <<loop, lastRequest, clock>>
    BY <1>2 DEF ConsumeResult
  <2>2. LifeStep
    BY <2>1 DEF LifeStep, Life!lifeVars
  <2> QED BY <2>1, <2>2, QuietStepKeeps, DecisionsAreCalls
    DEF ConsumeResult, eventVars, LoopInv, TypeOK, RowInv
<1> QED BY <1>1, <1>2

LEMMA ActivateKeeps ==
  ASSUME LoopInv, NEW w \in Workers, ActivateRetryWorker(w)
  PROVE  LoopInv' /\ LifeStep
<1>0. work[w].retry # 0
  BY CallShape DEF ActivateRetryWorker, At, CallInv
<1>1. RowStep /\ loop' \in Row /\ RowInv' /\ CallInv(Idle)'
  <2>1. RowStep
    BY <1>0 DEF ActivateRetryWorker, LoopInv, TypeOK, Row, RowStep
  <2>2. loop' \in Row
    BY <1>0, NoRoundYet DEF ActivateRetryWorker, LoopInv, TypeOK, Row, Status,
       Unfinished
  <2>3. RowInv'
    BY <1>0, GoalLoopAssumption DEF ActivateRetryWorker, LoopInv, TypeOK, Row, RowInv,
       Status, Unfinished, Rounds
  <2>4. CallInv(Idle)'
    BY <1>0, GoalLoopAssumption DEF ActivateRetryWorker, LoopInv, TypeOK, Row, RowInv, CallInv, Idle
  <2> QED BY <2>1, <2>2, <2>3, <2>4
<1>2. LifeStep
  BY <1>0 DEF ActivateRetryWorker, LifeStep, Life!Next, Life!NextRound,
     Life!lifeVars, LoopInv, TypeOK, Row, RowInv
<1> QED BY <1>1, <1>2, WorkerStepKeeps, DecisionsAreCalls
  DEF ActivateRetryWorker, eventVars, LoopInv, TypeOK

\* The agent, the pods and a crash leave the row alone.
LEMMA EnvironmentKeeps ==
  ASSUME LoopInv,
         (\E p \in Pods : AgentTurns(p) \/ PodEnds(p)) \/ Crash \/ UNCHANGED vars
  PROVE  LoopInv' /\ LifeStep
<1>1. ASSUME UNCHANGED <<loop, work, lastRequest, asked>>, TypeOK'
      PROVE  LoopInv' /\ LifeStep
  BY <1>1 DEF LoopInv, RowInv, CallInv, LifeStep, Life!lifeVars
<1>2. ASSUME NEW p \in Pods, AgentTurns(p) PROVE LoopInv' /\ LifeStep
  <2>1. TypeOK'
    BY <1>2, GoalLoopAssumption DEF AgentTurns, LoopInv, TypeOK
  <2> QED BY <1>1, <1>2, <2>1 DEF AgentTurns
<1>3. ASSUME NEW p \in Pods, PodEnds(p) PROVE LoopInv' /\ LifeStep
  <2>1. TypeOK'
    BY <1>3 DEF PodEnds, LoopInv, TypeOK, agentVars
  <2> QED BY <1>1, <1>3, <2>1 DEF PodEnds
<1>4. CASE Crash
  <2>1. TypeOK'
    BY <1>4, GoalLoopAssumption, DecisionsAreCalls
    DEF Crash, LoopInv, TypeOK, agentVars
  <2>2. \A w \in Workers : CallInv(work[w])'
    BY <1>4 DEF Crash, CallInv, Idle
  <2>3. RowInv' /\ LifeStep
    BY <1>4 DEF Crash, LoopInv, RowInv, LifeStep, Life!lifeVars
  <2> QED BY <2>1, <2>2, <2>3 DEF LoopInv
<1>5. CASE UNCHANGED vars
  <2>1. TypeOK'
    BY <1>5 DEF vars, LoopInv, TypeOK, eventVars, agentVars
  <2> QED BY <1>1, <1>5, <2>1 DEF vars
<1> QED BY <1>2, <1>3, <1>4, <1>5

LEMMA NextKeeps ==
  ASSUME LoopInv, ~OverlappingStart, [Next]_vars
  PROVE  LoopInv' /\ LifeStep
<1>0. UNCHANGED loop => LifeStep
  BY DEF LifeStep, Life!lifeVars
<1>1. ASSUME NEW w \in Workers, Call(w) PROVE LoopInv' /\ LifeStep
  BY <1>0, <1>1, StartClaimKeeps, CallsKeepInv DEF Call
<1>2. ASSUME NEW w \in Workers, Continue(w) PROVE LoopInv' /\ LifeStep
  BY <1>0, <1>2, QuietContinueKeepsInv, FailStartKeeps, PersistKeyKeeps,
     MarkForCleanupKeeps, SettleKeeps, BeginVerificationKeeps,
     ConsumeResultKeeps, ActivateKeeps
  DEF Continue, Finish
<1> QED BY <1>1, <1>2, EnvironmentKeeps DEF Next

\* Rows, calls, pods and messages keep their types: no round beyond the limit
\* is counted, and every call works on a pod that exists.
THEOREM LoopTypes == ASSUME ~OverlappingStart PROVE Spec => []TypeOK
<1>1. LoopInv /\ [Next]_vars => LoopInv'
  BY NextKeeps
<1>2. LoopInv => TypeOK
  BY DEF LoopInv
<1> QED BY <1>1, <1>2, InitLoopInv, PTL DEF Spec

\* A goal loop keeps the promises of GoalLoopLife, for any number of events,
\* results, retries, tickers and crashes: each round is verified once, there
\* are at most MaxIterations, and only a verification that passed completes it.
THEOREM LoopImplementsLife == ASSUME ~OverlappingStart PROVE Spec => ImplementsLife
<1>1. Init => Life!Init
  BY DEF Init, Life!Init
<1>2. LoopInv /\ [Next]_vars => LoopInv' /\ [Life!Next]_(Life!lifeVars)
  BY NextKeeps DEF LifeStep
<1> QED BY <1>1, <1>2, InitLoopInv, PTL DEF Spec, ImplementsLife, Life!Spec

\* Within a run of a loop, only a verification that passed completes it.
THEOREM CompletionIsVerified ==
  ASSUME ~OverlappingStart PROVE Spec => []CompletedIsVerified
<1>1. LoopInv /\ [Next]_vars => LoopInv'
  BY NextKeeps
<1>2. LoopInv => CompletedIsVerified
  BY DEF LoopInv, RowInv, CompletedIsVerified
<1> QED BY <1>1, <1>2, InitLoopInv, PTL DEF Spec

-----------------------------------------------------------------------------
(* Which pod the calls in progress work on.  A call that ends the loop has *)
(* read the pod of the row, and the row does not change it for another     *)
(* while the loop runs; a start that has yet to write its pod is alone,    *)
(* and the row has none.                                                   *)

Ending(c) ==
  \/ c.step = "consume"
  \/ c.step \in {"stop", "terminate", "mark", "settle"} /\ c.end.kind # "abort"

Starting(c) ==
  \/ c.step \in {"create", "fail_start", "persist"}
  \/ c.step \in {"stop", "terminate", "mark"} /\ c.end.kind = "abort"

PodInv ==
  /\ \A w \in Workers :
       Ending(work[w]) /\ work[w].pod # NoPod => work[w].pod = loop.pod
  /\ \A w \in Workers : Starting(work[w]) =>
       /\ loop.pod = NoPod
       /\ \A v \in Workers : Starting(work[v]) => v = w

-----------------------------------------------------------------------------
(* Which round an executing event belongs to.  The number of the next      *)
(* round tells a late call that it is late: it was used in no earlier      *)
(* round.                                                                  *)

EventInv ==
  /\ \A p \in Pods : workedAt[p] <= clock
  /\ \A e \in agentEvents :
       e.at <= clock /\ (e.status = "executing" => e.at <= workedAt[e.pod])

RoundInv ==
  /\ loop.retry # 0 => loop.retry = loop.iteration + 1
  /\ \A w \in Workers : work[w].step = "activate" =>
       /\ work[w].retry <= loop.iteration + 1
       /\ work[w].retry = loop.retry => loop.retryAt <= workedAt[loop.pod]

LEMMA StartIsAlone ==
  ASSUME LoopInv, ~OverlappingStart, NEW w \in Workers, StartClaim(w)
  PROVE  /\ \A v \in Workers :
              work[v].step = "idle" /\ work'[v] = IF v = w
                                                  THEN [step |-> "create"]
                                                  ELSE work[v]
         /\ loop'.pod = NoPod /\ loop'.retry = 0
BY DEF StartClaim, At, Go, LoopInv, TypeOK

\* A call goes on and the others stay where they are.
LEMMA OneCallMoves ==
  ASSUME LoopInv, NEW w \in Workers, NEW next, Go(w, next)
  PROVE  /\ work'[w] = next
         /\ \A v \in Workers : v # w => work'[v] = work[v]
BY DEF Go, LoopInv, TypeOK

LEMMA SamePodKeeps ==
  ASSUME LoopInv, PodInv, NEW w \in Workers, NEW next, Go(w, next),
         loop'.pod = loop.pod,
         Ending(next) /\ next.pod # NoPod => next.pod = loop.pod,
         Starting(next) => Starting(work[w])
  PROVE  PodInv'
<1>1. /\ work'[w] = next
      /\ \A v \in Workers : v # w => work'[v] = work[v]
  BY OneCallMoves
<1>2. \A v \in Workers : Starting(work'[v]) => Starting(work[v])
  BY <1>1
<1>3. ASSUME NEW v \in Workers, Ending(work'[v]), work'[v].pod # NoPod
      PROVE  work'[v].pod = loop'.pod
  <2>1. CASE v = w
    BY <1>1, <1>3, <2>1
  <2>2. CASE v # w
    <3>1. Ending(work[v]) /\ work[v].pod # NoPod
      BY <1>1, <1>3, <2>2
    <3> QED
      BY <1>1, <2>2, <3>1 DEF PodInv
  <2> QED
    BY <2>1, <2>2
<1>4. ASSUME NEW v \in Workers, Starting(work'[v])
      PROVE  /\ loop'.pod = NoPod
             /\ \A u \in Workers : Starting(work'[u]) => u = v
  BY <1>2, <1>4 DEF PodInv
<1>5. ASSUME NEW c PROVE Ending(c)' = Ending(c) /\ Starting(c)' = Starting(c)
  OBVIOUS
<1> QED
  BY <1>3, <1>4 DEF PodInv, Ending, Starting

\* The calls that read the row and decide.
Reads(w) ==
  \/ Cancel(w) \/ Verify(w)
  \/ \E p \in Pods : HandlePodStatus(w, p)
  \/ \E e \in agentEvents : HandlePodAgentStatus(w, e)
  \/ \E r \in asked : HandleVerificationResult(w, r)
  \/ Expire(w) \/ RecoverPendingVerifications(w)
  \/ RecoverPendingRetryPrompts(w)

\* What they decide names the pod of the row, and a round is begun for the
\* retry of the row and an executing event no older than its prompt.
DecidedOn(next) ==
  /\ ~Starting(next)
  /\ Ending(next) => next.pod = loop.pod
  /\ next.step = "activate" =>
       /\ next.retry = loop.retry /\ loop.retry # 0
       /\ \E e \in agentEvents :
            /\ e.pod = loop.pod /\ e.status = "executing"
            /\ loop.retryAt <= e.at

LEMMA DecisionsFitRow ==
  /\ DecidedOn(Idle) /\ DecidedOn(Escalate) /\ DecidedOn(Complete)
  /\ DecidedOn(Cleanup) /\ DecidedOn(StopFor("cancel", "cancelled"))
  /\ DecidedOn(QueueRetry) /\ DecidedOn(Dispatch) /\ DecidedOn(Begin)
BY DEF DecidedOn, Starting, Ending, Idle, Escalate, Complete, Cleanup, StopFor,
   QueueRetry, Dispatch, Begin

LEMMA ReadersDecide ==
  ASSUME LoopInv, NEW w \in Workers, Reads(w)
  PROVE  \E next : Decide(w, next) /\ DecidedOn(next)
<1> USE DecisionsFitRow
<1>1. CASE Cancel(w)
  BY <1>1 DEF Cancel
<1>2. CASE Verify(w)
  <2> DEFINE n == CASE CleanupPending -> Cleanup
                    [] loop.retry # 0 -> QueueRetry
                    [] loop.status = "verifying" /\ loop.evidence = "pass" ->
                         Complete
                    [] loop.status = "verifying" /\ loop.evidence = "fail" ->
                         Escalate
                    [] loop.status = "verifying" /\ loop.request # 0 -> Dispatch
                    [] OTHER -> IF loop.status = "active" /\ loop.pod # NoPod
                                THEN Begin ELSE Idle
  <2>1. DecidedOn(n)
    <3> HIDE DEF DecidedOn
    <3> QED OBVIOUS
  <2>2. Decide(w, n)
    BY <1>2 DEF Verify
  <2> HIDE DEF n
  <2> QED BY <2>1, <2>2
<1>3. ASSUME NEW p \in Pods, HandlePodStatus(w, p)
      PROVE  \E next : Decide(w, next) /\ DecidedOn(next)
  BY <1>3 DEF HandlePodStatus
<1>4. ASSUME NEW e \in agentEvents, HandlePodAgentStatus(w, e)
      PROVE  \E next : Decide(w, next) /\ DecidedOn(next)
  <2>1. CASE \E next \in {Idle, QueueRetry, Begin} : Decide(w, next)
    BY <2>1
  <2>2. CASE /\ loop.retry # 0 /\ e.status # "waiting" /\ NotOlderThanPrompt(e)
             /\ loop.pod = e.pod
             /\ Decide(w, [step |-> "activate", retry |-> loop.retry])
    <3>1. e.status = "executing" /\ loop.retryAt <= e.at
      BY <2>2 DEF NotOlderThanPrompt, LoopInv, TypeOK, Row
    <3>2. DecidedOn([step |-> "activate", retry |-> loop.retry])
      BY <2>2, <3>1 DEF DecidedOn, Starting, Ending
    <3> QED BY <2>2, <3>2
  <2> QED BY <1>4, <2>1, <2>2 DEF HandlePodAgentStatus
<1>5. ASSUME NEW r \in asked, HandleVerificationResult(w, r)
      PROVE  \E next : Decide(w, next) /\ DecidedOn(next)
  <2>1. PICK o \in Outcomes :
          Decide(w, [step |-> "consume", pod |-> r.pod, request |-> r.request,
                     outcome |-> o, iteration |-> loop.iteration])
    BY <1>5 DEF HandleVerificationResult
  <2>2. DecidedOn([step |-> "consume", pod |-> r.pod, request |-> r.request,
                   outcome |-> o, iteration |-> loop.iteration])
    BY <1>5 DEF HandleVerificationResult, DecidedOn, Starting, Ending
  <2> QED BY <2>1, <2>2
<1>6. CASE Expire(w)
  BY <1>6 DEF Expire
<1>7. CASE RecoverPendingVerifications(w)
  BY <1>7 DEF RecoverPendingVerifications
<1>8. CASE RecoverPendingRetryPrompts(w)
  BY <1>8 DEF RecoverPendingRetryPrompts
<1> QED
  BY <1>1, <1>2, <1>3, <1>4, <1>5, <1>6, <1>7, <1>8 DEF Reads

LEMMA CallKeepsPods ==
  ASSUME LoopInv, PodInv, ~OverlappingStart, NEW w \in Workers, Call(w)
  PROVE  PodInv'
<1>1. CASE StartClaim(w)
  BY <1>1, StartIsAlone DEF PodInv, Ending, Starting
<1>2. CASE Reads(w)
  <2>1. PICK next : Decide(w, next) /\ DecidedOn(next)
    BY <1>2, ReadersDecide
  <2> QED
    BY <2>1, SamePodKeeps DEF Decide, DecidedOn
<1> QED
  BY <1>1, <1>2 DEF Call, Reads

\* A start comes to its end.
LEMMA StartEnds ==
  ASSUME LoopInv, PodInv, NEW w \in Workers, Starting(work[w]), Go(w, Idle)
  PROVE  PodInv'
<1>1. ASSUME NEW v \in Workers
      PROVE  ~Starting(work'[v]) /\ (Ending(work'[v]) => work'[v].pod = NoPod)
  <2>1. CASE v = w
    BY <2>1, OneCallMoves DEF Ending, Starting, Idle
  <2>2. CASE v # w
    <3>1. work'[v] = work[v]
      BY <2>2, OneCallMoves
    <3> QED
      BY <2>2, <3>1 DEF PodInv
  <2> QED
    BY <2>1, <2>2
<1> QED
  BY <1>1 DEF PodInv, Ending, Starting

LEMMA ContinueKeepsPods ==
  ASSUME LoopInv, PodInv, NEW w \in Workers, Continue(w)
  PROVE  PodInv'
<1> DEFINE c == work[w]
<1>0. loop \in Row
  BY DEF LoopInv, TypeOK
<1>1. CASE CreatePod(w)
  <2>1. PICK next : /\ Go(w, next) /\ next.step \in {"persist", "fail_start"}
                    /\ loop' = loop /\ Starting(c)
    BY <1>1 DEF CreatePod, At, Starting
  <2> QED
    BY <2>1, SamePodKeeps DEF Ending
<1>2. CASE \/ FailStart(w) \/ ActivateRetryWorker(w) \/ Settle(w)
           \/ DispatchVerification(w) \/ RereadAndQueue(w)
           \/ QueueRetryPrompt(w)
  <2>1. Go(w, Idle) /\ loop'.pod = loop.pod
    BY <1>0, <1>2
    DEF FailStart, ActivateRetryWorker, Settle, DispatchVerification,
        RereadAndQueue, QueueRetryPrompt, Row
  <2> QED
    BY <2>1, SamePodKeeps DEF Ending, Starting, Idle
<1>3. CASE PersistKey(w)
  <2>1. Starting(c)
    BY <1>3 DEF PersistKey, At, Starting
  <2>2. CASE loop.status = "active"
    BY <1>3, <2>1, <2>2, StartEnds DEF PersistKey
  <2>3. CASE loop.status # "active"
    <3>1. PICK next : /\ Go(w, next) /\ next.step = "terminate"
                      /\ next.end.kind = "abort" /\ loop' = loop
      BY <1>3, <2>3 DEF PersistKey
    <3> QED
      BY <2>1, <3>1, SamePodKeeps DEF Ending
  <2> QED
    BY <2>2, <2>3
<1>4. CASE LookAtPod(w) \/ TerminatePod(w)
  <2>1. /\ c.step \in {"stop", "terminate"} /\ loop' = loop
        /\ \/ c \in [step : {"stop", "settle"}, pod : Pods \cup {NoPod},
                     end : Ends]
           \/ c \in [step : {"terminate", "mark"}, pod : Pods, end : Ends]
    BY <1>4, CallShape DEF LookAtPod, TerminatePod, At
  <2>2. PICK next :
          /\ Go(w, next)
          /\ \/ next = Idle
             \/ /\ next \in {[c EXCEPT !.step = "settle"],
                             [c EXCEPT !.step = "terminate"],
                             [c EXCEPT !.step = "mark"]}
    BY <1>4 DEF LookAtPod, TerminatePod, At
  <2>3. /\ Starting(next) => Starting(c)
        /\ Ending(next) => Ending(c) /\ next.pod = c.pod
    BY <2>1, <2>2 DEF Starting, Ending, Idle
  <2> QED
    BY <2>1, <2>2, <2>3, SamePodKeeps DEF PodInv
<1>5. CASE MarkForCleanup(w)
  <2>1. c.step = "mark" /\ c.pod \in Pods /\ c.pod # NoPod /\ Go(w, Idle)
    BY <1>5, CallShape, NoPodAssumption DEF MarkForCleanup, At
  <2>2. CASE c.end.kind = "abort"
    BY <2>1, <2>2, StartEnds DEF Starting
  <2>3. CASE c.end.kind # "abort"
    <3>1. c.pod = loop.pod
      BY <2>1, <2>3 DEF PodInv, Ending
    <3>2. loop'.pod = loop.pod
      BY <1>0, <1>5, <3>1 DEF MarkForCleanup, Row
    <3> QED
      BY <2>1, <3>2, SamePodKeeps DEF Ending, Starting, Idle
  <2> QED
    BY <2>2, <2>3
<1>6. CASE BeginVerification(w)
  <2>1. PICK next : Go(w, next) /\ next.step \in {"dispatch", "idle"}
    BY <1>6 DEF BeginVerification, Idle
  <2>2. loop'.pod = loop.pod
    BY <1>0, <1>6 DEF BeginVerification, Row
  <2> QED
    BY <2>1, <2>2, SamePodKeeps DEF Ending, Starting
<1>7. CASE ConsumeResult(w)
  <2>1. PICK next : /\ Go(w, next)
                    /\ \/ next.step \in {"reread", "idle"}
                       \/ /\ next.step = "stop" /\ next.pod = c.pod
                          /\ next.end.kind \in {"complete", "escalate"}
    BY <1>7 DEF ConsumeResult, Idle
  <2>2. loop'.pod = loop.pod /\ Ending(c)
    BY <1>0, <1>7 DEF ConsumeResult, Row, Ending, At
  <2> QED
    BY <2>1, <2>2, SamePodKeeps DEF Ending, Starting, PodInv
<1> QED
  BY <1>1, <1>2, <1>3, <1>4, <1>5, <1>6, <1>7 DEF Continue, Finish

LEMMA NextKeepsPods ==
  ASSUME LoopInv, PodInv, ~OverlappingStart, [Next]_vars
  PROVE  PodInv'
<1>1. CASE \/ \E p \in Pods : AgentTurns(p) \/ PodEnds(p)
           \/ UNCHANGED vars
  <2>1. UNCHANGED <<loop, work>>
    BY <1>1 DEF AgentTurns, PodEnds, vars
  <2> QED
    BY <2>1 DEF PodInv, Ending, Starting
<1>2. CASE Crash
  <2>1. \A w \in Workers : work'[w] = Idle
    BY <1>2 DEF Crash
  <2> QED
    BY <2>1 DEF PodInv, Ending, Starting, Idle
<1> QED
  BY <1>1, <1>2, CallKeepsPods, ContinueKeepsPods DEF Next

-----------------------------------------------------------------------------
\* What a step may do to the round of the row.
RoundStep ==
  \/ /\ loop'.retry = 0 /\ loop'.iteration = loop.iteration
  \/ /\ loop'.retry = loop.retry /\ loop'.iteration = loop.iteration
     /\ loop.retry # 0 =>
          loop'.retryAt = loop.retryAt /\ loop'.pod = loop.pod
  \/ /\ loop'.iteration = loop.iteration + 1
     /\ loop'.retry \in {0, loop'.iteration + 1}

LEMMA ContinueIsRoundStep ==
  ASSUME LoopInv, PodInv, NEW w \in Workers, Continue(w)
  PROVE  RoundStep
<1> USE DEF RoundStep
<1>0. loop \in Row
  BY DEF LoopInv, TypeOK
<1>1. CASE loop' = loop
  BY <1>1
<1>2. CASE FailStart(w) \/ BeginVerification(w) \/ ActivateRetryWorker(w)
  BY <1>0, <1>2 DEF FailStart, BeginVerification, ActivateRetryWorker, Row
<1>3. CASE Settle(w)
  BY <1>0, <1>3 DEF Settle, Row
<1>4. CASE PersistKey(w)
  BY <1>0, <1>4 DEF PersistKey, Row, LoopInv, RowInv
<1>5. CASE MarkForCleanup(w)
  <2>1. work[w].step = "mark" /\ work[w].pod \in Pods /\ work[w].pod # NoPod
    BY <1>5, CallShape, NoPodAssumption DEF MarkForCleanup, At
  <2>2. loop.retry # 0 => work[w].pod = loop.pod
    BY <2>1 DEF LoopInv, RowInv, PodInv, Starting, Ending
  <2> QED
    BY <1>0, <1>5, <2>2 DEF MarkForCleanup, Row
<1>6. CASE ConsumeResult(w)
  <2>1. CASE StillAsked(work[w])
    <3>1. work[w].iteration = loop.iteration
      BY <1>6, <2>1 DEF ConsumeResult, At, StillAsked, LoopInv, CallInv
    <3>2. loop.iteration \in Nat
      BY <1>0, GoalLoopAssumption DEF Row, Rounds
    <3>3. /\ loop'.iteration = loop.iteration + 1
          /\ loop'.retry \in {0, loop.iteration + 2}
      <4> DEFINE c == work[w]
                 again == c.outcome = "fail" /\ c.iteration + 1 < MaxIterations
      <4>1. CASE again
        <5>1. loop' = [loop EXCEPT !.iteration = c.iteration + 1, !.request = 0,
                         !.evidence = "fail", !.marker = "none",
                         !.retry = c.iteration + 2, !.retryAt = clock + 1]
          BY <1>6, <2>1, <4>1 DEF ConsumeResult
        <5> QED BY <1>0, <3>1, <5>1 DEF Row
      <4>2. CASE ~again
        <5>1. PICK evidence : loop' =
                [loop EXCEPT !.iteration = c.iteration + 1, !.request = 0,
                   !.evidence = evidence, !.marker = "none", !.retry = 0,
                   !.retryAt = 0]
          BY <1>6, <2>1, <4>2 DEF ConsumeResult
        <5> QED BY <1>0, <3>1, <5>1 DEF Row
      <4> QED BY <4>1, <4>2
    <3> QED
      BY <3>2, <3>3
  <2>2. CASE ~StillAsked(work[w])
    BY <1>6, <2>2 DEF ConsumeResult
  <2> QED
    BY <2>1, <2>2
<1> QED
  BY <1>1, <1>2, <1>3, <1>4, <1>5, <1>6
  DEF Continue, Finish, CreatePod, LookAtPod, TerminatePod,
      DispatchVerification, RereadAndQueue, QueueRetryPrompt

\* A call that was going to begin a round still fits the row, or is late.
LEMMA RoundStepKeeps ==
  ASSUME LoopInv, EventInv, RoundInv, RoundStep, UNCHANGED workedAt,
         NEW w \in Workers, NEW next, Go(w, next),
         next.step = "activate" =>
           /\ loop' = loop /\ next.retry = loop.retry
           /\ loop.retryAt <= workedAt[loop.pod] /\ loop.retry # 0
  PROVE  RoundInv'
<1>1. /\ work'[w] = next
      /\ \A v \in Workers : v # w => work'[v] = work[v]
  BY OneCallMoves
<1>2. loop.iteration \in Nat /\ loop.retry \in Nat
  BY GoalLoopAssumption DEF LoopInv, TypeOK, Row, Rounds
<1>3. loop'.retry # 0 => loop'.retry = loop'.iteration + 1
  BY <1>2 DEF RoundStep, RoundInv
<1>4. ASSUME NEW v \in Workers, work'[v].step = "activate"
      PROVE  /\ work'[v].retry <= loop'.iteration + 1
             /\ work'[v].retry = loop'.retry =>
                  loop'.retryAt <= workedAt'[loop'.pod]
  <2>1. CASE v = w
    BY <1>1, <1>2, <1>4, <2>1 DEF RoundInv
  <2>2. CASE v # w
    <3>1. work[v].step = "activate" /\ work'[v] = work[v]
      BY <1>1, <1>4, <2>2
    <3>2. work[v].retry \in Nat /\ work[v].retry # 0
      BY <3>1, CallShape, GoalLoopAssumption DEF CallInv, Rounds
    <3>3. /\ work[v].retry <= loop.iteration + 1
          /\ work[v].retry = loop.retry => loop.retryAt <= workedAt[loop.pod]
      BY <3>1 DEF RoundInv
    <3> QED
      BY <1>2, <3>1, <3>2, <3>3 DEF RoundStep
  <2> QED
    BY <2>1, <2>2
<1> QED
  BY <1>3, <1>4 DEF RoundInv

LEMMA CallKeepsRounds ==
  ASSUME LoopInv, EventInv, RoundInv, ~OverlappingStart,
         NEW w \in Workers, Call(w)
  PROVE  RoundInv'
<1>1. CASE StartClaim(w)
  BY <1>1, StartIsAlone DEF RoundInv
<1>2. CASE Reads(w)
  <2>1. PICK next : Decide(w, next) /\ DecidedOn(next)
    BY <1>2, ReadersDecide
  <2>2. Go(w, next) /\ loop' = loop /\ UNCHANGED workedAt
    BY <2>1 DEF Decide, agentVars
  <2>3. ASSUME next.step = "activate"
        PROVE  /\ next.retry = loop.retry /\ loop.retry # 0
               /\ loop.retryAt <= workedAt[loop.pod]
    <3>1. PICK e \in agentEvents :
            e.pod = loop.pod /\ e.status = "executing" /\ loop.retryAt <= e.at
      BY <2>1, <2>3 DEF DecidedOn
    <3>2. /\ e.at \in Nat /\ loop.retryAt \in Nat /\ e.pod \in Pods
          /\ workedAt[e.pod] \in Nat /\ e.at <= workedAt[e.pod]
      BY <3>1 DEF EventInv, LoopInv, TypeOK, Row
    <3> QED
      BY <2>1, <2>3, <3>1, <3>2 DEF DecidedOn
  <2> QED
    BY <2>2, <2>3, RoundStepKeeps DEF RoundStep
<1> QED
  BY <1>1, <1>2 DEF Call, Reads

LEMMA ContinueKeepsRounds ==
  ASSUME LoopInv, PodInv, EventInv, RoundInv, NEW w \in Workers, Continue(w)
  PROVE  RoundInv'
<1>1. PICK next : Go(w, next) /\ next.step # "activate"
  <2>1. CASE \/ FailStart(w) \/ DispatchVerification(w) \/ RereadAndQueue(w)
             \/ QueueRetryPrompt(w) \/ ActivateRetryWorker(w)
             \/ MarkForCleanup(w) \/ Settle(w)
    <3>1. Go(w, Idle)
      BY <2>1
      DEF FailStart, DispatchVerification, RereadAndQueue, QueueRetryPrompt,
          ActivateRetryWorker, MarkForCleanup, Settle
    <3> QED BY <3>1 DEF Idle
  <2>4. CASE CreatePod(w)
    <3>1. PICK next : Go(w, next) /\ next.step \in {"persist", "fail_start"}
      <4>1. CASE Go(w, [step |-> "fail_start"])
        BY <4>1
      <4>2. ASSUME NEW p \in Pods, Go(w, [step |-> "persist", pod |-> p])
            PROVE  \E next : Go(w, next) /\ next.step \in {"persist", "fail_start"}
        BY <4>2
      <4> QED BY <2>4, <4>1, <4>2 DEF CreatePod
    <3> QED BY <3>1
  <2>5. CASE PersistKey(w)
    <3>1. CASE loop.status = "active"
      BY <2>5, <3>1 DEF PersistKey, Idle
    <3>2. CASE loop.status # "active"
      <4>1. Go(w, [step |-> "terminate", pod |-> work[w].pod,
                   end |-> [kind |-> "abort", to |-> "cancelled"]])
        BY <2>5, <3>2 DEF PersistKey
      <4> QED BY <4>1
    <3> QED BY <3>1, <3>2
  <2>2. CASE LookAtPod(w) \/ TerminatePod(w)
    <3>1. \/ work[w] \in [step : {"stop", "settle"}, pod : Pods \cup {NoPod},
                          end : Ends]
          \/ work[w] \in [step : {"terminate", "mark"}, pod : Pods, end : Ends]
      BY <2>2, CallShape DEF LookAtPod, TerminatePod, At
    <3> QED
      BY <2>2, <3>1 DEF LookAtPod, TerminatePod, Idle
  <2>3. CASE BeginVerification(w) \/ ConsumeResult(w)
    BY <2>3 DEF BeginVerification, ConsumeResult, Idle
  <2> QED
    BY <2>1, <2>2, <2>3, <2>4, <2>5 DEF Continue, Finish
<1>2. UNCHANGED workedAt
  BY DEF Continue, Finish, CreatePod, FailStart, PersistKey, LookAtPod,
     TerminatePod, MarkForCleanup, Settle, BeginVerification,
     DispatchVerification, ConsumeResult, RereadAndQueue, QueueRetryPrompt,
     ActivateRetryWorker, agentVars
<1> QED
  BY <1>1, <1>2, ContinueIsRoundStep, RoundStepKeeps

LEMMA NextKeepsEvents ==
  ASSUME LoopInv, EventInv, [Next]_vars
  PROVE  EventInv'
<1> USE DEF EventInv
<1>0. /\ clock \in Nat /\ workedAt \in [Pods -> Nat]
      /\ agentEvents \subseteq [pod : Pods, status : {"executing", "waiting"},
                                at : Nat]
  BY DEF LoopInv, TypeOK
<1>1. ASSUME UNCHANGED workedAt, agentEvents' \subseteq agentEvents,
             clock' \in Nat, clock <= clock'
      PROVE  EventInv'
  BY <1>0, <1>1
<1>2. ASSUME NEW w \in Workers, Call(w) PROVE EventInv'
  <2>1. /\ UNCHANGED workedAt /\ agentEvents' \subseteq agentEvents
        /\ clock' = clock
    BY <1>2
    DEF Call, StartClaim, Cancel, Verify, HandlePodStatus,
        HandlePodAgentStatus, HandleVerificationResult, Expire,
        RecoverPendingVerifications, RecoverPendingRetryPrompts, Decide,
        agentVars, eventVars
  <2> QED
    BY <1>0, <1>1, <2>1
<1>3. ASSUME NEW w \in Workers, Continue(w) PROVE EventInv'
  <2>1. UNCHANGED workedAt /\ agentEvents' = agentEvents
    BY <1>3
    DEF Continue, Finish, CreatePod, FailStart, PersistKey, LookAtPod,
        TerminatePod, MarkForCleanup, Settle, BeginVerification,
        DispatchVerification, ConsumeResult, RereadAndQueue, QueueRetryPrompt,
        ActivateRetryWorker, agentVars, eventVars
  <2>2. clock' = clock \/ clock' = clock + 1
    BY <1>3
    DEF Continue, Finish, CreatePod, FailStart, PersistKey, LookAtPod,
        TerminatePod, MarkForCleanup, Settle, BeginVerification,
        DispatchVerification, ConsumeResult, RereadAndQueue, QueueRetryPrompt,
        ActivateRetryWorker
  <2> QED
    BY <1>0, <1>1, <2>1, <2>2
<1>4. ASSUME NEW p \in Pods, AgentTurns(p) PROVE EventInv'
  <2>1. PICK s \in {"executing", "waiting"} :
          /\ agentEvents' =
               agentEvents \cup {[pod |-> p, status |-> s, at |-> clock]}
          /\ workedAt' = IF s = "executing"
                         THEN [workedAt EXCEPT ![p] = clock] ELSE workedAt
          /\ clock' = clock
    BY <1>4 DEF AgentTurns
  <2>2. \A q \in Pods : workedAt[q] <= workedAt'[q] /\ workedAt'[q] <= clock
    BY <1>0, <2>1
  <2>3. workedAt' \in [Pods -> Nat]
    BY <1>0, <2>1
  <2>4. ASSUME NEW e \in agentEvents'
        PROVE  e.at <= clock /\ (e.status = "executing" =>
                                   e.at <= workedAt'[e.pod])
    <3>1. CASE e \in agentEvents
      BY <1>0, <2>2, <2>3, <3>1
    <3>2. CASE e = [pod |-> p, status |-> s, at |-> clock]
      BY <1>0, <2>1, <3>2
    <3> QED
      BY <2>1, <3>1, <3>2
  <2> QED
    BY <2>1, <2>2, <2>4
<1>5. CASE (\E p \in Pods : PodEnds(p)) \/ Crash \/ UNCHANGED vars
  <2>1. /\ UNCHANGED workedAt /\ agentEvents' \subseteq agentEvents
        /\ clock' = clock
    BY <1>5 DEF PodEnds, Crash, vars, agentVars, eventVars
  <2> QED
    BY <1>0, <1>1, <2>1
<1> QED
  BY <1>2, <1>3, <1>4, <1>5 DEF Next

LEMMA NextKeepsRounds ==
  ASSUME LoopInv, PodInv, EventInv, RoundInv, ~OverlappingStart, [Next]_vars
  PROVE  RoundInv'
<1>1. ASSUME NEW p \in Pods, AgentTurns(p) PROVE RoundInv'
  <2>1. \A q \in Pods : workedAt[q] <= workedAt'[q] /\ workedAt'[q] \in Nat
    BY <1>1 DEF AgentTurns, EventInv, LoopInv, TypeOK
  <2>2. UNCHANGED <<loop, work>>
    BY <1>1 DEF AgentTurns
  <2>3. ASSUME NEW w \in Workers, work[w].step = "activate",
               work[w].retry = loop.retry
        PROVE  loop.retryAt <= workedAt'[loop.pod]
    <3>1. loop.retry # 0
      BY <2>3, CallShape DEF CallInv
    <3>2. /\ loop.pod \in Pods /\ loop.retryAt \in Nat
          /\ workedAt[loop.pod] \in Nat
      BY <3>1 DEF LoopInv, TypeOK, Row, RowInv
    <3>3. loop.retryAt <= workedAt[loop.pod]
      BY <2>3 DEF RoundInv
    <3> QED
      BY <2>1, <3>2, <3>3
  <2> QED
    BY <2>2, <2>3 DEF RoundInv
<1>2. CASE (\E p \in Pods : PodEnds(p)) \/ UNCHANGED vars
  BY <1>2 DEF PodEnds, vars, agentVars, RoundInv
<1>3. CASE Crash
  BY <1>3 DEF Crash, Idle, RoundInv
<1> QED
  BY <1>1, <1>2, <1>3, CallKeepsRounds, ContinueKeepsRounds DEF Next

CallsFit == LoopInv /\ PodInv /\ EventInv /\ RoundInv

LEMMA CallsFitInvariant ==
  ASSUME ~OverlappingStart PROVE Spec => []CallsFit
<1>1. Init => CallsFit
  <2>1. Init => PodInv /\ EventInv /\ RoundInv
    BY DEF Init, PodInv, EventInv, RoundInv, Ending, Starting, Idle
  <2> QED BY <2>1, InitLoopInv DEF CallsFit
<1>2. CallsFit /\ [Next]_vars => CallsFit'
  BY NextKeeps, NextKeepsPods, NextKeepsEvents, NextKeepsRounds DEF CallsFit
<1> QED
  BY <1>1, <1>2, PTL DEF Spec

\* A loop goes from verifying back to active only for an agent that went to
\* work after the prompt of the new round was made: HandlePodAgentStatus
\* compares times, and ActivateRetryWorker the number of the round, so no
\* event or call from before the prompt does it.
THEOREM RoundsBeginWithWork ==
  ASSUME ~OverlappingStart PROVE Spec => NextRoundIsWorked
<1>1. ASSUME CallsFit, Next, loop.status = "verifying",
             loop'.status = "active"
      PROVE  workedAt[loop.pod] >= loop.retryAt
  <2>0. loop \in Row
    BY <1>1 DEF CallsFit, LoopInv, TypeOK
  <2>1. PICK w \in Workers : ActivateRetryWorker(w)
    <3>1. ASSUME NEW w \in Workers, Call(w) PROVE FALSE
      <4>1. loop' # loop => StartClaim(w)
        BY <3>1
        DEF Call, Cancel, Verify, HandlePodStatus, HandlePodAgentStatus,
            HandleVerificationResult, Expire, RecoverPendingVerifications,
            RecoverPendingRetryPrompts, Decide
      <4> QED
        BY <1>1, <4>1 DEF StartClaim
    <3>2. ASSUME NEW w \in Workers, Continue(w), ~ActivateRetryWorker(w)
          PROVE  FALSE
      <4>1. CASE Settle(w)
        <5>1. work[w].end.to # "active"
          BY <1>1, <4>1, CallShape DEF Settle, At, Ends, CallsFit
        <5> QED
          BY <1>1, <2>0, <4>1, <5>1 DEF Settle, Row
      <4>2. CASE ConsumeResult(w) \/ MarkForCleanup(w)
        BY <1>1, <2>0, <4>2 DEF ConsumeResult, MarkForCleanup, Row
      <4> QED
        BY <1>1, <3>2, <4>1, <4>2
        DEF Continue, Finish, CreatePod, FailStart, PersistKey, LookAtPod,
            TerminatePod, BeginVerification, DispatchVerification,
            RereadAndQueue, QueueRetryPrompt
    <3>3. \A p \in Pods : ~AgentTurns(p) /\ ~PodEnds(p)
      BY <1>1 DEF AgentTurns, PodEnds
    <3>4. ~Crash
      BY <1>1 DEF Crash
    <3> QED
      BY <1>1, <3>1, <3>2, <3>3, <3>4 DEF Next
  <2>2. work[w].step = "activate" /\ work[w].retry = loop.retry
    BY <1>1, <2>1 DEF ActivateRetryWorker, At
  <2>3. loop.retry # 0
    BY <1>1, <2>2, CallShape DEF CallsFit, CallInv
  <2>4. loop.pod \in Pods
    BY <1>1, <2>0, <2>3 DEF CallsFit, LoopInv, RowInv, Row
  <2> QED
    BY <1>1, <2>0, <2>2, <2>4 DEF CallsFit, RoundInv, LoopInv, TypeOK, Row
<1>2. CallsFit /\ [Next]_vars =>
        [loop.status = "verifying" /\ loop'.status = "active"
           => workedAt[loop.pod] >= loop.retryAt]_vars
  BY <1>1
<1> QED
  BY <1>2, CallsFitInvariant, PTL DEF Spec, NextRoundIsWorked

-----------------------------------------------------------------------------
(* The pod of one start.  Started over, the row forgets the pod it had, so *)
(* this is about a loop that is started once: one pod is all there is.     *)

LEMMA CallsHoldPods ==
  ASSUME CallsFit, ~OverlappingStart, \A p, q \in Pods : p = q,
         StartedPodIsHeld, NEW w \in Workers, Call(w)
  PROVE  StartedPodIsHeld'
<1>1. CASE StartClaim(w)
  <2>1. \A p \in Pods : podStatus'[p] = "none"
    BY <1>1 DEF StartClaim
  <2> QED
    BY <2>1 DEF StartedPodIsHeld
<1>2. CASE Reads(w)
  <2>1. PICK next : Decide(w, next)
    BY <1>2, ReadersDecide DEF CallsFit
  <2>2. work[w].step = "idle" /\ UNCHANGED <<loop, podStatus, crashes>>
    BY <2>1 DEF Decide, At
  <2>3. \A v \in Workers : work[v].step # "idle" => work'[v] = work[v]
    BY <2>1, <2>2, OneCallMoves DEF Decide, CallsFit
  <2> QED
    BY <2>2, <2>3 DEF StartedPodIsHeld
<1> QED
  BY <1>1, <1>2 DEF Call, Reads

LEMMA ContinueHoldsPods ==
  ASSUME CallsFit, StartedPodIsHeld, NEW w \in Workers, Continue(w)
  PROVE  StartedPodIsHeld'
<1> DEFINE c == work[w]
<1>0. LoopInv /\ PodInv /\ loop \in Row
  BY DEF CallsFit, LoopInv, TypeOK
<1>1. crashes' = crashes
  BY DEF Continue, Finish, CreatePod, FailStart, PersistKey, LookAtPod,
     TerminatePod, MarkForCleanup, Settle, BeginVerification,
     DispatchVerification, ConsumeResult, RereadAndQueue, QueueRetryPrompt,
     ActivateRetryWorker
\* The pods in the row and in the hands of the other calls.
<1>2. \A v \in Workers : v # w => work'[v] = work[v]
  <2>1. \E next : Go(w, next)
    BY DEF Continue, Finish, CreatePod, FailStart, PersistKey, LookAtPod,
       TerminatePod, MarkForCleanup, Settle, BeginVerification,
       DispatchVerification, ConsumeResult, RereadAndQueue, QueueRetryPrompt,
       ActivateRetryWorker, Go
  <2> QED
    BY <1>0, <2>1, OneCallMoves
<1>3. ASSUME podStatus' = podStatus, loop'.pod = loop.pod,
             c.step \notin {"persist", "terminate"}
      PROVE  StartedPodIsHeld'
  BY <1>1, <1>2, <1>3 DEF StartedPodIsHeld
<1>4. CASE CreatePod(w)
  <2>1. c.step = "create" /\ loop' = loop
    BY <1>4 DEF CreatePod, At
  <2>2. CASE UNCHANGED podStatus
    BY <1>3, <2>1, <2>2
  <2>3. ASSUME NEW p \in Pods, Go(w, [step |-> "persist", pod |-> p]),
               podStatus' = [podStatus EXCEPT ![p] = "running"]
        PROVE  StartedPodIsHeld'
    <3>1. work'[w].step = "persist" /\ work'[w].pod = p
      BY <1>0, <2>3, OneCallMoves
    <3>2. \A q \in Pods : q # p => podStatus'[q] = podStatus[q]
      BY <1>0, <2>3 DEF LoopInv, TypeOK
    <3> QED
      BY <1>1, <1>2, <2>1, <3>1, <3>2 DEF StartedPodIsHeld
  <2> QED
    BY <1>4, <2>2, <2>3 DEF CreatePod
<1>5. CASE PersistKey(w)
  <2>1. Starting(c) /\ podStatus' = podStatus
    BY <1>5 DEF PersistKey, At, Starting
  <2>2. loop.pod = NoPod
    BY <1>0, <2>1 DEF PodInv
  <2>3. \/ loop'.pod = c.pod
        \/ /\ loop' = loop
           /\ work'[w].step = "terminate" /\ work'[w].pod = c.pod
    <3>1. CASE loop.status = "active"
      BY <1>0, <1>5, <3>1 DEF PersistKey, Row
    <3>2. CASE loop.status # "active"
      BY <1>0, <1>5, <3>2, OneCallMoves DEF PersistKey
    <3> QED
      BY <3>1, <3>2
  <2> QED
    BY <1>1, <1>2, <2>1, <2>2, <2>3, NoPodAssumption DEF StartedPodIsHeld
<1>6. CASE LookAtPod(w)
  BY <1>3, <1>6 DEF LookAtPod, At
<1>7. CASE TerminatePod(w)
  <2>1. \A p \in Pods : podStatus'[p] = "running" =>
          podStatus[p] = "running" /\ p # c.pod
    BY <1>0, <1>7 DEF TerminatePod, LoopInv, TypeOK
  <2>2. loop' = loop
    BY <1>7 DEF TerminatePod
  <2> QED
    BY <1>1, <1>2, <2>1, <2>2 DEF StartedPodIsHeld
<1>8. CASE MarkForCleanup(w)
  <2>1. c.step = "mark" /\ c.pod \in Pods /\ podStatus' = podStatus
    BY <1>0, <1>8, CallShape DEF MarkForCleanup, At
  <2>2. loop.pod = NoPod \/ loop'.pod = loop.pod
    BY <1>0, <1>8, <2>1, NoPodAssumption
    DEF MarkForCleanup, PodInv, Starting, Ending, Row
  <2> QED
    BY <1>1, <1>2, <2>1, <2>2, NoPodAssumption DEF StartedPodIsHeld
<1>9. CASE FailStart(w) \/ ActivateRetryWorker(w) \/ Settle(w)
  BY <1>0, <1>3, <1>9 DEF FailStart, ActivateRetryWorker, Settle, At, Row
<1>10. CASE \/ BeginVerification(w) \/ ConsumeResult(w)
            \/ DispatchVerification(w) \/ RereadAndQueue(w)
            \/ QueueRetryPrompt(w)
  <2>1. /\ podStatus' = podStatus /\ loop'.pod = loop.pod
        /\ c.step \notin {"persist", "terminate"}
    BY <1>0, <1>10
    DEF BeginVerification, ConsumeResult, DispatchVerification,
        RereadAndQueue, QueueRetryPrompt, At, Row
  <2> QED
    BY <1>3, <2>1
<1> QED
  BY <1>4, <1>5, <1>6, <1>7, <1>8, <1>9, <1>10 DEF Continue, Finish

\* The pod of a start is in the row or in a call that will record or stop it:
\* Cancel, Expire and the handlers end a loop while Start is still creating
\* the pod, and persistStartKey and abortCancelledStart see to it.
THEOREM StartedPodsAreKnown ==
  ASSUME ~OverlappingStart, \A p, q \in Pods : p = q
  PROVE  Spec => []StartedPodIsHeld
<1>1. Init => StartedPodIsHeld
  BY DEF Init, StartedPodIsHeld
<1>2. CallsFit /\ StartedPodIsHeld /\ [Next]_vars => StartedPodIsHeld'
  <2> SUFFICES ASSUME CallsFit, StartedPodIsHeld, [Next]_vars
               PROVE  StartedPodIsHeld'
    OBVIOUS
  <2>1. ASSUME NEW p \in Pods, AgentTurns(p) PROVE StartedPodIsHeld'
    BY <2>1 DEF AgentTurns, StartedPodIsHeld
  <2>2. ASSUME NEW p \in Pods, PodEnds(p) PROVE StartedPodIsHeld'
    BY <2>2 DEF PodEnds, StartedPodIsHeld, CallsFit, LoopInv, TypeOK
  <2>3. CASE Crash
    BY <2>3 DEF Crash, StartedPodIsHeld, CallsFit, LoopInv, TypeOK
  <2>4. CASE UNCHANGED vars
    BY <2>4 DEF vars, StartedPodIsHeld
  <2> QED
    BY <2>1, <2>2, <2>3, <2>4, CallsHoldPods, ContinueHoldsPods DEF Next
<1> QED
  BY <1>1, <1>2, CallsFitInvariant, PTL DEF Spec

=============================================================================
