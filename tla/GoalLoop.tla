------------------------------ MODULE GoalLoop ------------------------------
(***************************************************************************)
(* One goal loop of the backend: an agent works in a pod, a command run by *)
(* the runner verifies the result, and the agent is prompted again until   *)
(* the command succeeds or a limit is reached.                             *)
(*                                                                         *)
(* Requests of users, events of the bus (each in a goroutine of its own),  *)
(* asked of runners and the minute ticker all read the row, act on what  *)
(* they read, and write it back with a statement that compares the status. *)
(* A worker is one such call; a step is one database statement, or one     *)
(* call to the pod coordinator or the command sender.                      *)
(***************************************************************************)
EXTENDS Naturals, FiniteSets

CONSTANTS
  Workers,           \* calls in progress at once
  Pods,              \* pods, one per successful start
  EscalationPolicy,  \* loop.EscalationPolicy: "paused" or "failed"
  MaxIterations,     \* loop.MaxIterations
  OverlappingStart,  \* may a loop be started over while calls from before
                     \* are still in progress?
  MaxTurns, MaxCrashes  \* bounds of the model

ASSUME GoalLoopAssumption ==
  /\ EscalationPolicy \in {"paused", "failed"}
  /\ MaxIterations \in Nat \ {0}
  /\ OverlappingStart \in BOOLEAN
  /\ MaxTurns \in Nat /\ MaxCrashes \in Nat

NoPod == "no_pod"
ASSUME NoPodAssumption == NoPod \notin Pods

VARIABLES
  loop,         \* the row of goal_loops
  podStatus,    \* status of each pod, "none" before it exists
  podEvents,    \* finished pods whose event is on its way to a handler
  agent,        \* agent_status of each pod
  agentEvents,  \* agent status events on their way
  workedAt,     \* clock when the agent last began to execute
  asked,        \* verification requests that reached a runner
  queued,       \* retry prompts that reached the pending command queue
  work,         \* what each worker is about to do
  clock,        \* number of retry prompts created: the time events compare
  lastRequest,  \* number of request ids drawn
  turns, crashes

eventVars == <<podEvents, agentEvents>>
agentVars == <<agent, workedAt, turns>>
vars == <<loop, podStatus, eventVars, agentVars, asked, queued,
          work, clock, lastRequest, crashes>>

Terminal == {"completed", "failed", "cancelled"}
Unfinished == {"draft", "active", "paused", "verifying"}
Status == Terminal \cup Unfinished

Idle == [step |-> "idle"]
Go(w, next) == work' = [work EXCEPT ![w] = next]
At(w, step) == work[w].step = step

\* loop.PendingPodCleanup: the marker in verification_error, with a pod key.
CleanupPending == loop.marker # "none" /\ loop.pod # NoPod

Init ==
  /\ loop = [status |-> "draft", pod |-> NoPod, iteration |-> 0, request |-> 0,
             evidence |-> "none", retry |-> 0, retryAt |-> 0,
             marker |-> "none"]
  /\ podStatus = [p \in Pods |-> "none"]
  /\ podEvents = {} /\ agentEvents = {}
  /\ agent = [p \in Pods |-> "executing"]
  /\ workedAt = [p \in Pods |-> 0]
  /\ asked = {} /\ queued = {}
  /\ work = [w \in Workers |-> Idle]
  /\ clock = 0 /\ lastRequest = 0 /\ turns = 0 /\ crashes = 0

-----------------------------------------------------------------------------
(* Start.                                                                  *)

StartClaim(w) ==
  /\ At(w, "idle") /\ loop.status \in {"draft", "paused"}
  /\ \E p \in Pods : podStatus[p] = "none"
  /\ OverlappingStart \/ \A v \in Workers : At(v, "idle")
  /\ loop' = [status |-> "active", pod |-> NoPod, iteration |-> 0,
              request |-> 0, evidence |-> "none", retry |-> 0, retryAt |-> 0,
              marker |-> "none"]
  /\ Go(w, [step |-> "create"])
  /\ UNCHANGED <<podStatus, eventVars, agentVars, asked, queued, clock,
                 lastRequest, crashes>>

CreatePod(w) ==
  /\ At(w, "create")
  /\ \/ \E p \in Pods :
          /\ podStatus[p] = "none"
          /\ podStatus' = [podStatus EXCEPT ![p] = "running"]
          /\ Go(w, [step |-> "persist", pod |-> p])
     \/ Go(w, [step |-> "fail_start"]) /\ UNCHANGED podStatus
  /\ UNCHANGED <<loop, eventVars, agentVars, asked, queued, clock,
                 lastRequest, crashes>>

FailStart(w) ==
  /\ At(w, "fail_start")
  /\ loop' = IF loop.status = "active"
             THEN [loop EXCEPT !.status = "failed", !.marker = "none"]
             ELSE loop
  /\ Go(w, Idle)
  /\ UNCHANGED <<podStatus, eventVars, agentVars, asked, queued,
                 clock, lastRequest, crashes>>

\* Mutant: a start whose loop is no longer active just returns.
PersistKeyOrForget(w) ==
  /\ At(w, "persist")
  /\ loop' = IF loop.status = "active" THEN [loop EXCEPT !.pod = work[w].pod]
                                      ELSE loop
  /\ Go(w, Idle)
  /\ UNCHANGED <<podStatus, eventVars, agentVars, asked, queued, clock,
                 lastRequest, crashes>>

\* persistStartKey; abortCancelledStart when the loop is no longer active.
PersistKey(w) ==
  /\ At(w, "persist")
  /\ IF loop.status = "active"
     THEN loop' = [loop EXCEPT !.pod = work[w].pod] /\ Go(w, Idle)
     ELSE /\ Go(w, [step |-> "terminate", pod |-> work[w].pod,
                    end |-> [kind |-> "abort", to |-> "cancelled"]])
          /\ UNCHANGED loop
  /\ UNCHANGED <<podStatus, eventVars, agentVars, asked, queued,
                 clock, lastRequest, crashes>>

-----------------------------------------------------------------------------
(* The ends of a loop: stop the pod of the row as it was read, then write. *)

StopFor(kind, to) ==
  [step |-> "stop", pod |-> loop.pod, end |-> [kind |-> kind, to |-> to]]
Escalate == StopFor("escalate", EscalationPolicy)
Complete == StopFor("complete", "completed")
Cleanup == StopFor(IF loop.status \in Terminal THEN "clear" ELSE "cleanup",
                   loop.marker)

\* stopPod looks whether the pod is active.
LookAtPod(w) ==
  /\ At(w, "stop")
  /\ Go(w, [work[w] EXCEPT
              !.step = IF work[w].pod = NoPod THEN "settle"
                       ELSE IF podStatus[work[w].pod] # "running"
                       THEN "settle" ELSE "terminate"])
  /\ UNCHANGED <<loop, podStatus, eventVars, agentVars, asked,
                 queued, clock, lastRequest, crashes>>

\* TerminatePod: it fails for a pod that has just finished.
TerminatePod(w) ==
  /\ At(w, "terminate")
  /\ LET p == work[w].pod IN
     IF podStatus[p] = "running"
     THEN /\ podStatus' = [podStatus EXCEPT ![p] = "completed"]
          /\ podEvents' = podEvents \cup {p}
          /\ Go(w, IF work[w].end.kind = "abort" THEN Idle
                   ELSE [work[w] EXCEPT !.step = "settle"])
     ELSE /\ Go(w, [work[w] EXCEPT !.step = "mark"])
          /\ UNCHANGED <<podStatus, podEvents>>
  /\ UNCHANGED <<loop, agentEvents, agentVars, asked, queued,
                 clock, lastRequest, crashes>>

\* recordStopFailure and persistPendingPodCleanup: no condition on the row.
MarkForCleanup(w) ==
  /\ At(w, "mark")
  /\ loop' = [loop EXCEPT
                !.marker = work[w].end.to,
                !.pod = IF work[w].end.kind \in {"escalate", "complete"}
                        THEN @ ELSE work[w].pod]
  /\ Go(w, Idle)
  /\ UNCHANGED <<podStatus, eventVars, agentVars, asked, queued,
                 clock, lastRequest, crashes>>

\* The statuses the last statement of each end accepts.
From(kind) ==
  CASE kind = "escalate" -> {"active", "verifying"}
    [] kind = "complete" -> {"verifying"}
    [] OTHER -> Unfinished

Settle(w) ==
  /\ At(w, "settle")
  /\ LET end == work[w].end
         accepted == loop.status \in From(end.kind)
     IN
     \/ end.kind = "clear" /\ loop' = [loop EXCEPT !.marker = "none"]
     \/ end.kind # "clear" /\ ~accepted /\ loop' = loop
     \/ /\ end.kind = "cancel" /\ accepted
        /\ loop' = [loop EXCEPT !.status = "cancelled", !.request = 0,
                                !.retry = 0]
     \/ /\ end.kind \notin {"clear", "cancel"} /\ accepted
        /\ loop' = [loop EXCEPT !.status = end.to, !.marker = "none"]
  /\ Go(w, Idle)
  /\ UNCHANGED <<podStatus, eventVars, agentVars, asked, queued, clock,
                 lastRequest, crashes>>

Finish(w) == LookAtPod(w) \/ TerminatePod(w) \/ MarkForCleanup(w) \/ Settle(w)

-----------------------------------------------------------------------------
(* Calls that read the row and decide.                                     *)

Decide(w, next) ==
  /\ At(w, "idle")
  /\ Go(w, next)
  /\ UNCHANGED <<loop, podStatus, agentVars, asked, queued, clock,
                 lastRequest, crashes>>

\* A result: "hopeless" is an error of the verifier, or a failure that repeats
\* itself as often as SameErrorLimit or NoProgressLimit allows.
Outcomes == {"pass", "fail", "hopeless"}

QueueRetry == [step |-> "queue", pod |-> loop.pod, retry |-> loop.retry]
Dispatch == [step |-> "dispatch", pod |-> loop.pod, request |-> loop.request]
Begin == [step |-> "begin", pod |-> loop.pod]

Cancel(w) ==
  /\ UNCHANGED eventVars
  /\ \/ loop.status \notin Terminal /\ Decide(w, StopFor("cancel", "cancelled"))
     \/ loop.status \in Terminal /\ CleanupPending /\ Decide(w, Cleanup)

\* Verify, called by a user, takes a loop up wherever it stands.
Verify(w) ==
  /\ loop.status \in {"active", "verifying"}
  /\ Decide(w, CASE CleanupPending -> Cleanup
                 [] loop.retry # 0 -> QueueRetry
                 [] loop.status = "verifying" /\ loop.evidence = "pass" ->
                      Complete
                 [] loop.status = "verifying" /\ loop.evidence = "fail" ->
                      Escalate
                 [] loop.status = "verifying" /\ loop.request # 0 -> Dispatch
                 [] OTHER -> IF loop.status = "active" /\ loop.pod # NoPod
                             THEN Begin ELSE Idle)
  /\ UNCHANGED eventVars

HandlePodStatus(w, p) ==
  /\ p \in podEvents
  /\ podEvents' = podEvents \ {p}
  /\ UNCHANGED agentEvents
  /\ Decide(w, IF loop.pod # p \/ loop.status \in Terminal \cup {"paused"}
               THEN Idle
               ELSE IF podStatus[p] = "error" THEN Escalate
               ELSE IF loop.status = "active" THEN Begin ELSE Idle)

\* Mutant: the time of the event is not compared.
AnyAge(e) == TRUE

NotOlderThanPrompt(e) == e.at >= loop.retryAt

\* The status must still be the pod's, and an executing event not be older
\* than the retry prompt.
HandlePodAgentStatus(w, e) ==
  /\ e \in agentEvents
  /\ agentEvents' = agentEvents \ {e}
  /\ UNCHANGED podEvents
  /\ Decide(w, IF \/ loop.pod # e.pod
                  \/ loop.status \in Terminal \cup {"paused"}
                  \/ agent[e.pod] # e.status
               THEN Idle
               ELSE IF loop.retry # 0
               THEN IF e.status = "waiting" THEN QueueRetry
                    ELSE IF NotOlderThanPrompt(e)
                    THEN [step |-> "activate", retry |-> loop.retry]
                    ELSE Idle
               ELSE IF e.status = "waiting" /\ loop.status = "active"
               THEN Begin ELSE Idle)

\* The runner answers, and answers again when it is asked again.
HandleVerificationResult(w, r) ==
  /\ r \in asked
  /\ loop.request = r.request /\ loop.status = "verifying" /\ loop.pod = r.pod
  /\ \E o \in Outcomes :
       Decide(w, [step |-> "consume", pod |-> r.pod, request |-> r.request,
                  outcome |-> o, iteration |-> loop.iteration])
  /\ UNCHANGED eventVars

\* Mutant: the ticker lists active loops only.
ExpireActive(w) ==
  /\ CleanupPending \/ loop.status = "active"
  /\ Decide(w, IF CleanupPending THEN Cleanup ELSE Escalate)
  /\ UNCHANGED eventVars

\* ExpireTimedOut, for a row of ListTimedOut.  The time a loop may take has
\* no model: it may be over at any time.
Expire(w) ==
  /\ \/ CleanupPending
     \/ loop.status \in {"active", "verifying"}
  /\ Decide(w, IF CleanupPending THEN Cleanup
               ELSE IF loop.status = "verifying" /\ loop.evidence = "pass"
               THEN Complete ELSE Escalate)
  /\ UNCHANGED eventVars

RecoverPendingVerifications(w) ==
  /\ loop.status = "verifying" /\ loop.request # 0
  /\ loop.evidence = "none" /\ loop.retry = 0
  /\ Decide(w, Dispatch)
  /\ UNCHANGED eventVars

\* Mutant: a retry is looked for among the active loops.
RecoverActiveRetryPrompts(w) ==
  /\ loop.status = "active" /\ loop.retry # 0
  /\ Decide(w, QueueRetry)
  /\ UNCHANGED eventVars

RecoverPendingRetryPrompts(w) ==
  /\ loop.status = "verifying" /\ loop.retry # 0
  /\ Decide(w, QueueRetry)
  /\ UNCHANGED eventVars

-----------------------------------------------------------------------------
(* Verification and the next round.                                        *)

BeginVerification(w) ==
  /\ At(w, "begin")
  /\ IF loop.status = "active"
     THEN /\ lastRequest' = lastRequest + 1
          /\ loop' = [loop EXCEPT !.status = "verifying",
                        !.request = lastRequest + 1, !.evidence = "none",
                        !.marker = "none"]
          /\ Go(w, [step |-> "dispatch", pod |-> work[w].pod,
                    request |-> lastRequest + 1])
     ELSE Go(w, Idle) /\ UNCHANGED <<lastRequest, loop>>
  /\ UNCHANGED <<podStatus, eventVars, agentVars, asked, queued,
                 clock, crashes>>

\* A runner that is not there is asked again by the next recovery.
DispatchVerification(w) ==
  /\ At(w, "dispatch")
  /\ \/ UNCHANGED asked
     \/ asked' = asked \cup {[pod |-> work[w].pod, request |-> work[w].request]}
  /\ Go(w, Idle)
  /\ UNCHANGED <<loop, podStatus, eventVars, agentVars, queued, clock,
                 lastRequest, crashes>>

\* Mutant: the result is taken for whatever request is open.
AnyRequest(c) == loop.status = "verifying"

\* The condition of ConsumeVerificationResult.
StillAsked(c) == loop.status = "verifying" /\ loop.request = c.request

\* ConsumeVerificationResult, with what continueAfterVerificationFailure
\* decides about the next round.
ConsumeResult(w) ==
  /\ At(w, "consume")
  /\ LET c == work[w]
         again == c.outcome = "fail" /\ c.iteration + 1 < MaxIterations
     IN
     IF StillAsked(c)
     THEN /\ loop' = [loop EXCEPT !.iteration = c.iteration + 1, !.request = 0,
                        !.evidence = IF c.outcome = "pass" THEN "pass"
                                                           ELSE "fail",
                        !.marker = "none",
                        !.retry = IF again THEN c.iteration + 2 ELSE 0,
                        !.retryAt = IF again THEN clock + 1 ELSE 0]
          /\ clock' = IF again THEN clock + 1 ELSE clock
          /\ Go(w, IF again THEN [step |-> "reread", pod |-> c.pod]
                   ELSE [step |-> "stop", pod |-> c.pod,
                         end |-> IF c.outcome = "pass"
                                 THEN [kind |-> "complete", to |-> "completed"]
                                 ELSE [kind |-> "escalate",
                                       to |-> EscalationPolicy]])
     ELSE Go(w, Idle) /\ UNCHANGED <<loop, clock>>
  /\ UNCHANGED <<podStatus, eventVars, agentVars, asked, queued,
                 lastRequest, crashes>>

\* The row is read again after the result was written.
RereadAndQueue(w) ==
  /\ At(w, "reread")
  /\ queued' = IF loop.pod = work[w].pod /\ loop.retry # 0
               THEN queued \cup {<<loop.pod, loop.retry>>} ELSE queued
  /\ Go(w, Idle)
  /\ UNCHANGED <<loop, podStatus, eventVars, agentVars, asked, clock,
                 lastRequest, crashes>>

QueueRetryPrompt(w) ==
  /\ At(w, "queue")
  /\ queued' = queued \cup {<<work[w].pod, work[w].retry>>}
  /\ Go(w, Idle)
  /\ UNCHANGED <<loop, podStatus, eventVars, agentVars, asked,
                 clock, lastRequest, crashes>>

ActivateRetryWorker(w) ==
  /\ At(w, "activate")
  /\ loop' = IF loop.status = "verifying" /\ loop.retry = work[w].retry
             THEN [loop EXCEPT !.status = "active", !.retry = 0, !.retryAt = 0]
             ELSE loop
  /\ Go(w, Idle)
  /\ UNCHANGED <<podStatus, eventVars, agentVars, asked, queued,
                 clock, lastRequest, crashes>>

-----------------------------------------------------------------------------
(* The environment: the agent, the pod, time, a crash.                     *)

AgentTurns(p) ==
  /\ podStatus[p] = "running" /\ turns < MaxTurns
  /\ LET s == IF agent[p] = "executing" THEN "waiting" ELSE "executing" IN
     /\ agent' = [agent EXCEPT ![p] = s]
     /\ agentEvents' = agentEvents \cup {[pod |-> p, status |-> s, at |-> clock]}
     /\ workedAt' = IF s = "executing" THEN [workedAt EXCEPT ![p] = clock]
                                       ELSE workedAt
  /\ turns' = turns + 1
  /\ UNCHANGED <<loop, podStatus, podEvents, asked, queued, work,
                 clock, lastRequest, crashes>>

PodEnds(p) ==
  /\ podStatus[p] = "running"
  /\ \E s \in {"completed", "error"} : podStatus' = [podStatus EXCEPT ![p] = s]
  /\ podEvents' = podEvents \cup {p}
  /\ UNCHANGED <<loop, agentEvents, agentVars, asked, queued, work,
                 clock, lastRequest, crashes>>

\* Calls in progress and events of the bus are lost.
Crash ==
  /\ crashes < MaxCrashes
  /\ crashes' = crashes + 1
  /\ work' = [w \in Workers |-> Idle]
  /\ podEvents' = {} /\ agentEvents' = {}
  /\ UNCHANGED <<loop, podStatus, agentVars, asked, queued, clock,
                 lastRequest>>

-----------------------------------------------------------------------------
Call(w) ==
  \/ StartClaim(w) \/ Cancel(w) \/ Verify(w)
  \/ \E p \in Pods : HandlePodStatus(w, p)
  \/ \E e \in agentEvents : HandlePodAgentStatus(w, e)
  \/ \E r \in asked : HandleVerificationResult(w, r)
  \/ Expire(w) \/ RecoverPendingVerifications(w)
  \/ RecoverPendingRetryPrompts(w)

Continue(w) ==
  \/ CreatePod(w) \/ FailStart(w) \/ PersistKey(w) \/ Finish(w)
  \/ BeginVerification(w) \/ DispatchVerification(w) \/ ConsumeResult(w)
  \/ RereadAndQueue(w) \/ QueueRetryPrompt(w) \/ ActivateRetryWorker(w)

Next ==
  \/ \E w \in Workers : Call(w) \/ Continue(w)
  \/ \E p \in Pods : AgentTurns(p) \/ PodEnds(p)
  \/ Crash

Spec == Init /\ [][Next]_vars

\* Every call returns: there is always a next step and no call has more than
\* a few, so this is weak fairness of Continue(w), in the form that TLC checks
\* fastest.  The ticker is assumed by the properties that need it.
FairSpec == Spec /\ \A w \in Workers : []<>At(w, "idle")

-----------------------------------------------------------------------------
(* Properties.                                                             *)

Rounds == 0 .. MaxIterations
Ends == [kind : {"escalate", "complete", "cancel", "cleanup", "clear", "abort"},
         to : {"paused", "completed", "failed", "cancelled"}]
WorkerSteps ==
  [step : {"idle", "create", "fail_start"}]
  \cup [step : {"persist", "begin", "reread"}, pod : Pods]
  \cup [step : {"stop", "settle"}, pod : Pods \cup {NoPod}, end : Ends]
  \cup [step : {"terminate", "mark"}, pod : Pods, end : Ends]
  \cup [step : {"dispatch"}, pod : Pods, request : Nat]
  \cup [step : {"consume"}, pod : Pods, request : Nat, outcome : Outcomes,
        iteration : Rounds]
  \cup [step : {"queue"}, pod : Pods, retry : Rounds]
  \cup [step : {"activate"}, retry : Rounds]

Row == [status : Status, pod : Pods \cup {NoPod}, iteration : Rounds,
        request : Nat, evidence : {"none", "pass", "fail"}, retry : Rounds,
        retryAt : Nat,
        marker : {"none", "paused", "completed", "failed", "cancelled"}]

\* Every loop has a status the domain knows and counters within its limits,
\* and every call in progress works on a pod that exists.
TypeOK ==
  /\ loop \in Row
  /\ podStatus \in [Pods -> {"none", "running", "completed", "error"}]
  /\ podEvents \subseteq Pods
  /\ agent \in [Pods -> {"executing", "waiting"}]
  /\ agentEvents \subseteq [pod : Pods, status : {"executing", "waiting"},
                           at : Nat]
  /\ workedAt \in [Pods -> Nat]
  /\ asked \subseteq [pod : Pods, request : Nat]
  /\ queued \subseteq Pods \X Rounds
  /\ work \in [Workers -> WorkerSteps]
  /\ clock \in Nat /\ lastRequest \in Nat
  /\ turns \in 0 .. MaxTurns /\ crashes \in 0 .. MaxCrashes

\* The loop keeps the promises of GoalLoopLife: events, results, retries and
\* the ticker, each acting on a row it read before, verify a round once, and
\* what is consumed twice, late or after the end changes nothing.
Life == INSTANCE GoalLoopLife
          WITH status <- loop.status, iteration <- loop.iteration,
               evidence <- loop.evidence
ImplementsLife == Life!Spec

\* The next round begins because the agent went to work after it was prompted
\* for it: an executing event from before the prompt does not start it.
NextRoundIsWorked ==
  [][loop.status = "verifying" /\ loop'.status = "active"
       => workedAt[loop.pod] >= loop.retryAt]_vars

\* The pod of a start is recorded in the row or in the hands of a call that
\* will record or stop it, also when the loop is cancelled or expires before
\* the start gets to write its key.  (Started over, the row forgets the pod.)
StartedPodIsHeld ==
  crashes = 0 =>
    \A p \in Pods : podStatus[p] = "running" =>
      \/ loop.pod = p
      \/ \E w \in Workers : work[w].step \in {"persist", "terminate"}
                           /\ work[w].pod = p

\* As long as the ticker runs, no loop stays in progress, whatever event,
\* result or prompt was lost and wherever the backend stopped.
LoopEnds ==
  SF_vars(\E w \in Workers : Expire(w)) =>
    (loop.status \in {"active", "verifying"}
       ~> loop.status \notin {"active", "verifying"})

\* The prompt of the next round reaches the command queue although the backend
\* stops between writing the result and queueing the prompt.
RetryIsQueued ==
  SF_vars(\E w \in Workers : RecoverPendingRetryPrompts(w)) =>
    (loop.status = "verifying" /\ loop.retry # 0
       ~> loop.status # "verifying" \/ <<loop.pod, loop.retry>> \in queued)

\* A statement of the worker's prompt that the code does not keep when a loop
\* is started over while a call from before is in progress.

\* "an external verification command will decide the result".
CompletedIsVerified ==
  loop.status = "completed" => loop.evidence = "pass"

-----------------------------------------------------------------------------
(* The inductive invariant behind TypeOK and ImplementsLife, as long as a  *)
(* loop is started over only when the calls from before have returned.     *)

\* What the fields of the row say about one another.
RowInv ==
  /\ loop.request \in 0 .. lastRequest
  /\ loop.request # 0 => loop.evidence = "none" /\ loop.iteration < MaxIterations
  /\ loop.retry # 0 => loop.evidence = "fail" /\ loop.iteration < MaxIterations
  /\ loop.request # 0 \/ loop.retry # 0 => loop.pod # NoPod
  /\ loop.status = "active" =>
       loop.iteration < MaxIterations /\ loop.retry = 0 /\ loop.evidence # "pass"
  /\ loop.status = "completed" \/ loop.marker = "completed"
       => loop.evidence = "pass"
  /\ \A r \in asked : r.request # 0

\* What a call has read and still holds when it comes to write.
CallInv(c) ==
  /\ c.step \in {"begin", "consume", "reread", "queue", "dispatch"}
       => loop.pod # NoPod
  /\ c.step \in {"consume", "dispatch"} => c.request \in 1 .. lastRequest
  /\ c.step = "consume" /\ loop.request = c.request
       => c.iteration = loop.iteration
  /\ c.step \in {"stop", "terminate", "mark", "settle"}
       /\ c.end.to = "completed" => loop.evidence = "pass"
  /\ c.step = "activate" => c.retry # 0

LoopInv == TypeOK /\ RowInv /\ \A w \in Workers : CallInv(work[w])

=============================================================================
