# AgentCloud in TLA+

Models, checks and proofs of the concurrent core of AgentCloud: the path of a
`create_pod` command from a request to a runner, how the backend's records and
the runner's pods are kept in step, the goal loops and workflow runs that use
pods, the relay channel that joins a runner's terminal with the browsers that
watch it, and the tunnel through which a browser reaches an application in a
pod. Paths are relative to the repository, which is `src/` in `PROJECT.json`;
that file also maps every definition to the lines it translates.

## 1. The system

A **backend** runs as several replicas over one PostgreSQL database. **Runners**
(daemons on users' machines) hold one gRPC stream to one replica. A **pod** is
an agent session on a runner; its record, the runner's `current_pods` counter
and the table `pending_runner_commands` are the shared state. For terminals a
runner and the browsers each open a WebSocket to a **relay**, a separate
process that pairs them by pod key, forwards frames, and lets one browser at a
time write. For previews a runner holds one more WebSocket to a relay, over
which many HTTP requests are multiplexed.

| part | state it keeps | operations | talks to | hard behaviour |
|---|---|---|---|---|
| pod creation (`backend/internal/service/agentpod/pod_orchestrator_*`, `service/runner/pod_coordinator*`) | pod record, `current_pods` | create now, create or queue, create deferred, terminate, mark failed | database, streams, pending queue | reads that are stale when used, updates without a guard, a crash between two statements |
| pending queue (`service/runner/pending_*`, `infra/pending_command_repo.go`) | rows, expiry times, one in-flight flag per runner and replica | enqueue, drain, sweep, cancel | database, streams, pod records | two replicas drain one runner; send, claim and delete are separate steps |
| runner reports, disconnects (`service/runner/pod_lifecycle_handler.go`, `pod_disconnect_*.go`) | pod records, counter | created, terminated, error; fail what was starting or queued | database | callbacks that come late, after a reconnect |
| heartbeats and reconciliation (`service/runner/pod_reconcile_service.go`, `pod_coordinator_counters.go`, `pod_coordinator_stale.go`) | miss and report counts, terminate cooldown | compare what a runner lists with the records, recover, give up, terminate | database, streams | lost reports and commands, statuses read earlier, a restart that forgets the counts |
| runner daemon (`runner/internal/runner`, `client`) | pod store, processes, command queues, held terminations | create, terminate, exit, restart in place, reconcile dead processes | backend, processes | goroutines that share the store, events lost with the stream |
| goal loops (`service/goalloop`) | loop row bound to a pod | start, verify, judge, retry, complete, expire, clean up | pods, runners, ticker | start over two aggregates, late results, a crash between writing and prompting |
| workflow runs (`service/workflow`, `infra/workflow_run_repo*.go`) | run rows bound to pods, totals | trigger, start, complete, time out, cancel, trim | pods, autopilots, monitor | several parties end a run at once, a start that outlives its run |
| relay channel manager (`relay/internal/channel/channel_manager*.go`) | channels and waiting connections by pod key | runner connects, browser connects, clean up | channels | pairing races, limits, closing |
| relay channel (`channel.go`, `channel_io.go`, `channel_events.go`, `channel_lifecycle.go`) | publisher, subscribers, reconnect and keep-alive timers | set publisher, add, remove, close | sockets | five mutexes, timers that fire while being stopped, waits with a lock held |
| control lease (`control_lease*.go`) | owner, lease, epoch, timer | acquire, force, renew, release, write | subscribers, publisher | time read before the lock, messages sent after it |
| preview tunnel (`relay/internal/tunnel`, `relay/internal/proxy`, `runner/internal/tunnel`) | stream tables at both ends, credit windows, body pipes | open, dispatch, acquire, credit, cancel, close, reconnect | HTTP clients, applications | blocking delivery, lost wake-ups, stream numbers used again |
| everything else | rows behind request handlers, documents, user interfaces | see `components` in `PROJECT.json` | | mostly sequential |

`PROJECT.json` lists them all; of a component that is not modelled it names the
files one would begin with, not all it has.

What makes each of these correct:

- a `create_pod` reaches a runner at most once; a pod that was given up is not
  started; a runner gets no more pods than it accepts; a parked command leaves
  the table; commands keep their order;
- whatever was lost, records and pods agree in the end: an ended record's pod
  is terminated, a lost pod is noticed, a pod that is there is recovered; a
  heartbeat never revives an ended record; no process runs on that the runner
  does not list;
- a loop completes only on a verification that passed, a run ends once and is
  counted at most once; the pod of either is never forgotten; neither waits for
  ever for something a crash lost;
- whoever writes to a terminal owns the lease and a write accepted is complete
  before control changes hands; a lease ends in time and not early;
- a channel reads from one runner connection, the newest; browsers end up
  knowing whether the runner is there; a closed channel holds nothing;
- runner and browser of a pod find each other; nobody waits in vain or for
  ever; no socket stays open without an owner;
- a request is handed its own frames only; no credit is lost or made; nobody
  sleeps on a window that will never be credited.

## 2. Modules

| module | what it is |
|---|---|
| `PodStatus` | the status vocabulary of `domain/agentpod/pod_status.gen.go` |
| `PodDispatch` | creation, queueing, draining, expiry, termination, reports and disconnects for one runner |
| `RunnerPods` | the pod store, processes and stream of a runner daemon |
| `PodReconcile` | the backend's records of those pods, composed with `RunnerPods` by `EXTENDS` |
| `GoalLoop`, `GoalLoopLife` | one goal loop statement by statement, and what it promises |
| `WorkflowRuns`, `WorkflowRunLife` | the runs of a workflow, and what each promises |
| `RelayLease` | the control lease of one channel |
| `RelayPublisher` | the runner side of one channel |
| `RelayChannels` | the channel manager and the browser side, for one pod |
| `CreditWindows` | the flow-control windows, the same code at both ends of a tunnel |
| `PreviewTunnel` | the tunnel between gateway and runner, over `CreditWindows` |
| `*_proofs` | theorems and proofs of the module they extend |
| `MC*` | the module with what its instances need |

Definitions named `...Unguarded`, `...Anyway` and the like, each marked
`Mutant` or introduced as one, are plausible mistakes. No specification uses
them; they stand next to the definition they would replace and show that the
properties notice.

### PodDispatch

One step is one statement on the database or one send on a stream, so every
window the code leaves between two statements is there, and a crash
(`Crash`) may fall into it. A worker is a drainer or a sweeper of a replica,
with the row it is at (`cur`), the rows of its batch it has not finished
(`batch`) and a program counter:

| code | actions |
|---|---|
| `PodOrchestrator.CreatePod`, `initialPodStatus` | `InsertPod` |
| `DispatchDeferredPod` | `DispatchDeferredPod` |
| `PodCoordinator.CreatePodOrQueue`, `CreatePod` | `CreatePodOrQueue`, `CreatorIncrementPods`, `CreatorSend`, `CreatorDecrementPods`, `EnqueueCreatePod` |
| `dispatchCreatedPod`, `MarkDispatchFailed` | `AlignInitializing`, `AlignQueued`, `MarkDispatchFailed` |
| `drainRunner` | `DrainRunner`, `ListBatch`, `TakeRow`, `EndBatch` |
| `dispatchCreatePod`, `revertClaim` | `ReadCapacity`, `Claim`, `DrainerIncrementPods`, `DrainerSend`, `DrainerDecrementPods`, `RevertClaim`, `DeleteRow` |
| `dispatchSendPrompt` | `ReadPromptPod`, `SendPrompt`, `DeleteRow` |
| `sweepExpired`, `handleExpired` | `SweepExpired`, `TakeRow`, `ExpireDelete`, `MarkQueueExpired` |
| `TerminatePod` | `TerminatePod`, `CancelPending`, `TerminateQueued`, `TerminateActive`, `TerminateAborted`, `DecrementPods` |
| reports of the runner | `HandlePodCreated`, `HandlePodTerminated`, `HandlePodError` |
| `AddConnection`, `RemoveConnection`, `handleRunnerDisconnect` | `RunnerConnects`, `StreamLost`, `ListPodsToFail`, `FailInitializing`, `FailQueued` |

`drained`, `cancelled` and `sends` are history. `CompareAndSet` is the
conditional update whose rows-affected count tells who won.

### RunnerPods and PodReconcile

A worker per pod takes commands in order; the exit handler, the reconciler of
dead processes and the watchdog of an ACP pod are goroutines of their own.
Processes are numbered, so that "the process of this pod" can be stale. Events
wait in `out`, which is `controlCh` and the wire; a lost stream keeps any part
of it. The backend takes events one at a time (`Handle`); a heartbeat is a
number of statements over `hb.todo`, with the status it read in `hb`.

| code | actions |
|---|---|
| `OnCreatePod`, `wireAndStartPTYPod`, `wireAndStartACPPod`, `abortACPPodStartup` | `OnCreatePod`, `BuildFails`, `StartIO`, `AbortStartup`, `SendPodCreated` |
| `OnTerminatePod`, `StopIO` | `OnTerminatePod`, `StopIO` |
| `createExitHandler`, `cleanupPodExit` | `ProcessExits`, `CleanupPodExit`, `TakeOutPerpetual`, `PutBack` |
| `restartPerpetualPod` | `CreateSession`, `RebuildPTYIO`, `RestartFails` |
| `PodReconciler.reconcile`, `failACPPod` | `ReconcileDeadProcess`, `FailACPPod` |
| `SendPodTerminated`, `flushPendingPodTerminations` | `SayTerminated`, `FlushPendingPodTerminations` |
| `handlePodCreated`, `handlePodTerminated`, `handlePodError` | the same names, and `HandleSessionLost` |
| `reconcile`, `recoverPodStatus` | `ReadReported`, `ReportedUnknown`, `ReportedEnded`, `ReportedLost`, `ReportedInitializing`, `ReportedOther` |
| `reconcileMissingPods`, `incrementMissCount` | `Look`, `FoundReported`, `FoundMissing`, `GiveUpMissing` |
| `RemoveConnection`, `handleRunnerDisconnect` | `Disconnect`, `ListInitializing`, `FailInitializing` |
| `terminatePod`, stale jobs, `DeleteTerminalPod` | `TerminatePod`, `CompleteTerminated`, `MarkStaleAsDisconnected`, `CleanupStale`, `DeleteTerminalPod` |

### GoalLoop and WorkflowRuns

A worker is one call: a request, an event in a goroutine of its own, a tick.
It reads the row, decides, and goes through the steps in `work[w]` (`Call`
begins one, `Continue` goes on), each one statement that compares the status,
or one call to the pod coordinator or command sender. A row that a list
contains is held by the worker as it was read. `Crash` ends every call.

| code | actions |
|---|---|
| `Start`, `failStart` | `StartClaim`, `CreatePod`, `PersistKey`, `FailStart` |
| `Cancel`, `Verify`, `HandlePodStatus`, `HandlePodAgentStatus`, `HandleVerificationResult`, `ExpireTimedOut`, `RecoverPending...` | the same names (`Expire` for `ExpireTimedOut`) |
| `beginVerification`, `dispatchVerification` | `BeginVerification`, `DispatchVerification` |
| `continueAfterVerificationFailure`, `queueRetryPrompt`, `activateRetryWorker` | `ConsumeResult`, `RereadAndQueue`, `QueueRetryPrompt`, `ActivateRetryWorker` |
| `escalate`, `completeVerifiedLoop`, `retryPendingPodCleanup`, `stopPod` | `StopFor`, `LookAtPod`, `TerminatePod`, `MarkForCleanup`, `Settle` |
| `TriggerRunAtomic`, `StartRun`, `startAutopilot`, the undo of a start | `TriggerRun`, `StartRun`, `CreatePod`, `BindPod`, `GiveUp`, `StartAutopilot`, `SetAutopilotKey`, `StartExpires` |
| `HandlePodTerminated`, `HandleAutopilotTerminated`, `CheckTimeoutRuns`, `CheckIdleLoopPods`, `CleanupOrphanPendingRuns`, `CancelRun` | the same names |
| `HandleRunCompleted`, `markRunTerminal`, `applyRunCompletionEffects` | `FinishRun`, `UpdateRunStats`, `DeleteOldFinishedRuns`, `TerminatePod` |

`GoalLoopLife` and `WorkflowRunLife` see three variables each: status, round
and evidence of a loop; status, pod and count of each run. The detailed modules
have `ImplementsLife == Life!Spec` with a refinement mapping that reads these
off the rows.

### CreditWindows and PreviewTunnel

A window is its credits, whether it is closed, and what its one acquirer is
doing: nothing, `"asleep"`, `"woken"`, or `"deaf"`. The goroutine that watches
the context broadcasts without the mutex, and may do so between the look at the
context and the wait; the sleeper is then deaf. `over` has the contexts that
are done. At the gateway a context may be done before `pumpResponse` sees it
(`Expire`), which matters only to a sleeper; at the runner whoever cancels a
context closes the window in the same breath. The channel of a request that has
returned is kept as long as a read loop waits for room in it (`WaitingFor`).

At the gateway `req` is the goroutine in `ProxyHTTP`, `sender` the one in
`sendRequestBody`, `gwLoop` the read loop of each tunnel; at the runner `loop`
reads and `local` serves. `gen` numbers the connections; each has its own
tunnel at the gateway, with stream numbers that begin again. A frame carries a
number and, as history, whose data it is (`of`).

| code | actions |
|---|---|
| `ProxyHTTP`, `OpenStream`, `CloseStream` | `OpenStream`, `Return` |
| `pumpResponse` | `TakeFrame`, `Flush`, `Expire`, `TimeOut` |
| `sendRequestBody` | `SendBody`, `CancelBody`, `EndBody` |
| `Tunnel.dispatch`, `Close`; `Registry.Unregister` | `Dispatch`, `Deliver`, `CloseTunnel`, `Unregister` |
| `localDispatcher.Dispatch`, `handleReqStart`, `cancelStream`, `remove`, `Close` | `HandleReqStart`, `HandleReqBody`, `Fed`, `HandleReqEnd`, `HandleCredit`, `CancelStream`, `Remove`, `Abandon` |
| `serveLocalHTTP` | `RefuseTarget`, `Respond`, `SendResponse`, `DropResponse`, `EndResponse`, `Fail` |
| `disconnect`, `connectOnce`, `Registry.Register` | `Reconnect`, then `CloseTunnel` of the old one |

### RelayLease

Each browser has a handler that reads one message, for some requests reads the
clock (`ReadMessage`), and later takes `controlMu` (`Acquire`, `ForceAcquire`,
`Renew`, `Release`, `BeginWrite`). A write keeps `controlMu` until it ends
(`EndWrite`). What is sent after the unlock waits in `out`, one queue per
goroutine. A timer callback first fires (`TimerFires`) and then takes the lock
(`ExpireControlLease`), with its epoch as the only proof that it is still
meant. `RemoveSubscriber` and `Close` are two and more steps each.

### RelayPublisher

A step is a critical section of `publisherMu` or one message. `SetPublisher`
is `LockReplace`, `InstallPublisher` or `RefuseWhenClosed`, `CloseOld`,
`WaitForReader` and `Announce`; the forwarding goroutine is `StartReading`,
`ReadFails`, `LosePublisher` or `WasReplaced`, `TellDisconnected`; the timer is
`TimerFires` and `ReconnectTimeout`, which waits for `publisherReplaceMu` in
between. Late subscribers join (`Join`) by the three steps of
`addSubscriberInternal`.

### RelayChannels

A step is a critical section of the manager's `mu` or of a channel's
`subscribersMu`. `call[x]` is what the connecting goroutine of `x` has yet to
do: `HandlePublisherConnect` and `HandleSubscriberConnect` decide under `mu`,
then `CallSetPublisher`, `AddSubscriber` or `AddSubscriberWithLimit` run on the
channel. Closing is `ReconnectTimeout`, `CloseSubscribers`, `OnChannelClosed`.
The races inside `SetPublisher` are in `RelayPublisher`; here it is one step.

## 3. What the runs check

| run | instance | shows |
|---|---|---|
| `dispatch_pods` | 2 pods, 1 replica, 1 slot, 1 row, all request kinds, one pod may be terminated | `TypeOK`; `WithinLimits`: the reservation holds although capacity was read before, the row limit holds |
| `dispatch_replicas` | 1 pod, 2 replicas, 1 crash, termination | `NoDoubleDispatch`, `CancelOrDispatch` |
| `dispatch_one` | 1 pod with a prompt, 1 replica, 1 lost stream | `SentInRowOrder` within one replica, `EveryRowLeaves` while the late disconnect handler gives pods up |
| `reconcile` | 1 pod of each kind in turn, 2 processes, 2 upsets, thresholds of 2 | `OthersAreSeen`, `HeartbeatNeverRevives`, `EndedPodsAreStopped`, `LostPodsAreNoticed`, `LivePodsRecover` |
| `goal_loop` | 1 loop, 2 calls at once, 2 rounds, 2 turns of the agent, 1 crash | `CompletedIsVerified`, `StartedPodIsHeld`, `ImplementsLife`, `NextRoundIsWorked`, `LoopEnds`, `RetryIsQueued` |
| `workflow` | 2 runs, limit 1, 1 retained, 2 calls at once, 1 pod, 1 recovery, 1 restart or expired start | `WithinConcurrency`, `StartedPodIsHeld`, `TimedOutPodStops`, `ImplementsLife`, `RunEnds` |
| `lease` | 2 browsers, 3 messages, a clock of 0 and 1, lease of 1 | `WriterIsOwner`, `NoLeaseAfterClose`, `LeaseNotCutShort`, `LeaseEnds` |
| `publisher` | 3 runner connections, one early and one late browser | `OneReader`, `NewestStaysPublisher`, `ClosedHoldsNothing`, `EarlyAreToldTheTruth`, `TimeoutSparesConnected`, `CallsReturn` |
| `channels` | 2 runner and 3 browser connections, limit 1, 2 channels in turn | `NobodyWaitsInVain`, `NoSocketLeaks`, `KeepAliveOnlyWhenEmpty`, `OneOverTheLimit`, `WaitingEnds` |
| `tunnel` | an upload and a download of 2 chunks each, window 1, channel capacity 1, 1 lost connection | `CreditsConserved`, `OwnFrames`, `NoSleeperIsForgotten` |
| `reconcile_restart`, `tunnel_wait` | the smallest instances that do | the findings of section 4 |

All runs but those of `PodReconcile` say `CHECK_DEADLOCK FALSE`: the system may
rest, with every request answered or every connection gone and its bound used
up. That calls return, rows leave and loops end is stated as liveness instead.
Heartbeats never rest.

**Bounds.** The hazards of the queue need two parties at one pod or one slot.
Two pods are enough for the slot and the row limit; a race for one pod needs
two workers, and two replicas bring four (a drainer and a sweeper each) with a
canceller and a creator. One crash puts a worker into every intermediate
state once; a second adds another abandoned claim, which the proof covers.
Pods of a runner share no state but the stream and the heartbeat, so one pod
suffices; two upsets are the least that let one fault hit the repair of
another; a threshold of 2 tells "counted" from "acted". A loop of two rounds
has a first and a last round and a stale result of the first; one of two calls
at once is stale when the other writes. Two runs with a limit of one meet at
the count; with one retained the trim takes a run whose end is being counted.
Three runner connections give a connection that is replaced while the one
before is still reporting. Two channels in turn let a channel close late while
its successor exists; three browsers with a limit of one let the pairing
browser, one that joins and one that returns meet. The lease run lets a lease
pass its end once with two epochs of timers. A window and a channel of one
chunk are full after one; two chunks make each side wait for the other; one
lost connection gives two streams with the same number. `MaxCrashes`,
`MaxDisconnects`, `MaxRequests`, `MaxClock`, `MaxChannels`, `MaxUpsets`,
`MaxStarts`, `MaxTurns`, `MaxRuns`, `MaxRecoveries` and `MaxLosses` bound
counters and nothing else; `TerminablePods`, `PromptPods`, `Requests`,
`ExecutionModes`, `PodEnds` and `AutopilotEnds` select what an instance
exercises. The workflow run has autopilot mode, of which direct mode is the
same without the last two steps; the proofs cover both.

**Symmetry.** Replicas are interchangeable in `dispatch_replicas`. No run with
a temporal property uses symmetry.

**Fairness.** `PodDispatch`: a worker that has begun goes on (goroutines are
scheduled), a sweeper with expired rows sweeps (its ticker is unconditional)
and time passes; nothing is assumed of streams, users or the runner, so rows
leave even if it never connects. `PodReconcile`: goroutines of runner and
backend go on, heartbeats keep coming (a ticker), a runner reconnects (an
endless loop), a cooldown ends; nobody is obliged to terminate a pod and no
job has to find a stale one. `GoalLoop`, `WorkflowRuns`: every call returns
(`[]<>At(w, "idle")`: each has finitely many steps and database calls have
deadlines); the ticker and the monitor are assumed, as strong fairness because
they compete for the workers of the model, only inside the properties that need
them. `RelayLease`: the clock, the timer, its callback and an accepted write
(it has a write deadline) progress. `RelayPublisher`: a call that has the mutex
goes on, a goroutine of the reader goes on, a socket the relay has closed fails
to read, the timer fires. The timer's callback needs *strong* fairness: it
competes for `publisherReplaceMu` with new calls, and a Go mutex hands itself
to a waiter that has waited longer than a millisecond. `RelayChannels`: calls,
cleanup ticker and timers. `PreviewTunnel` has safety only.

## 4. Where code and documentation differ

Two runs that TLC refutes; the trace is the evidence.

1. **A process nobody lists** (`reconcile_restart`). `cleanupPodExit` puts a
   perpetual pod back before its new process exists
   (`runner/internal/runner/handler_events.go:71`, "so the pod remains visible
   during restart") and `restartPerpetualPod` does not look at the store again.
   A terminate, or the reconciler that finds the dead process, takes the pod
   out meanwhile and stops the old process; the new one runs on unlisted.
   `OthersAreSeen` says this needs a restart in place.
2. **One request stops the tunnel** (`tunnel_wait`). `Tunnel.dispatch` looks up
   a stream and waits for room in its channel or the end of the tunnel
   (`relay/internal/tunnel/tunnel.go:152`). If that request times out
   meanwhile, nobody takes from the channel again and `CloseStream` does not
   wake the loop. Every stream of the runner stands still, pongs included,
   until the heartbeat closes the tunnel. `proxy/http.go:52` says that a
   timeout never touches the shared tunnel. The channel holds 64 frames and the
   window counts bytes, so an application that answers in small pieces fills it.

Seen while modelling, without a run of its own. Where a definition is named,
TLC refutes it on the instance given:

- *PodDispatch.* A row is deleted though nothing was sent: `pending_drain.go:135`
  takes a missed claim for a cancel, but after a crash between claim and send
  the claim was the drainer's own (`DeletedAfterDrain`, one pod, one crash;
  `RFC-006:72` promises otherwise). A queued pod is left without a row when the
  row expires while its send fails and `revertClaim` (`pending_drain.go:161`)
  comes last (`QueuedIsParked`; `RFC-006:84`). With two replicas a prompt
  overtakes its `create_pod` (`SentInRowOrder` with two replicas; `RFC-006:567`).
- *PodReconcile.* A record in `error` beside a live pod is neither recovered
  nor terminated. `MarkOrphaned` compares nothing and may orphan a completed
  record, which a later report revives. A process that ends before its created
  report leaves a running record until it is missed. Stale rows without
  `last_activity` are never cleaned.
- *GoalLoop.* A cancel or expiry that reads the loop before the start has
  written its pod key leaves a running pod on a loop that is over. A loop that
  is started over forgets a pod that still runs. A loop started over while a
  call from before is in progress can complete unverified
  (`CompletedIsVerified` with `OverlappingStart = TRUE`;
  `goal_loop_verification_completion.go:71`). A lost or late executing event
  after a retry prompt leaves the round to the timeout.
- *WorkflowRuns.* `CancelRun` decides by the pod key it read
  (`workflow_handler_runs.go:152`); a start that binds a pod in between leaves
  it running under a cancelled run (`CancelledRunStops`). The context of a
  start also governs its undo, so an expired start can leave a pod unbound.
  `TerminatePod` refuses an orphaned pod that may come back, and such pods go
  beyond `max_concurrent_runs`. A pod that ends before it is bound, or whose
  event is lost, leaves its run unfinished; a run with an orphaned pod never
  times out. A crash between the end of a timed-out run and the termination
  leaves the pod running. `eventbus_workflow.go:52` does not forward
  `max_iterations`, which `DeriveRunStatus` knows. A run that is trimmed before
  it is counted is not counted. An autopilot that finishes leaves its pod
  running.
- *RelayLease.* A lease can be taken by a browser that is already gone:
  `Acquire` is handled after `releaseControlLeaseForSubscriber`
  (`docs/superpowers/specs/mobile-worker-access-b/05-backend-relay-runner.md:173`);
  `LeaseEnds` bounds the time nobody can write. Granted, released and expired
  messages are sent after the unlock and may reach a browser in another order
  than the lease changed; writes are judged by the lease all the same.
- *RelayPublisher.* `channel_lifecycle.go:52` reads the publisher's state and
  writes it to a new browser with no lock, so it may come after the broadcast
  of the reconnect (`ToldIsTrue`). The reconnect timer asks whether the runner
  is away now: a callback that waits through a reconnect and a second loss
  closes the channel early (`channel_events.go:32`).
- *RelayChannels.* The browser a channel is made for is added without the limit
  (`channel_manager_connect.go:76`, against the comment at line 107), so there
  is one too many (`WithinSubscriberLimit`). `OneOverTheLimit` shows that it is
  at most one.
- *PreviewTunnel.* The runner never sends credit for request bodies, so an
  upload larger than the window waits for its deadline (against the comment at
  `proxy/http.go:84`). The runner's read loop blocks in `bodyW.Write`
  (`dispatcher.go:72`) while an application does not read, and for ever when
  the target was refused, which leaves the pipe open. `remove` deletes by
  number: a goroutine of an old connection takes out, and closes the window of,
  a new stream with the same number. `Close` drops its error frame when the
  channel is full. A browser that does not read keeps `pumpResponse` in `Write`
  past the deadline of the request.

## 5. What is proved

For every value of the constants, without bounds, from the named assumptions
of the modules, which say that pods and connections are finite sets, limits and
thresholds are natural numbers (some positive) and place-holders are no
members. Three hypotheses go beyond that. In `GoalLoop_proofs` all theorems
assume `~OverlappingStart`, because a loop that is started over too early can
complete unverified (section 4), and `StartedPodsAreKnown` also that there is
one pod, so that the loop is started once: a loop that is started over forgets
a pod that still runs. `OneReplicaKeepsOrder` assumes one replica: with two a
prompt overtakes its `create_pod`. The last two are false without.

**PodDispatch.** `NoDoubleDispatch` and `CancelOrDispatch` are not inductive:
nothing in them says why a pod that was sent cannot be claimed again.
`DispatchInv` adds who holds a claim. `ClaimExclusive`: at most one worker is
between a won claim and its send or its reverse, and while it is the pod is
not `queued`, was not sent and was not cancelled. `CreatorExclusive`: the
creating request parks a pod or sends it, and the unguarded writes of
`dispatchCreatedPod` cannot make a sent or a claimed pod `queued` again; this
is the part of the argument the code does not show in one place.
`DecidedStays`: after a send or a cancel a pod is never `queued`.
`RowsHaveIds` and `CurFitsStep` connect workers to rows. Every action either is
*quiet* (it changes no claim, no decision and makes no pod `queued`), which one
lemma settles, or is one of the creator's steps, `Claim`, `DrainerSend` and
`RevertClaim`, proved one by one. `LimitsHold` is inductive together with
`TypeOK`, and needs the finiteness of the table. For `SentInRowOrder` there is
`OrderInv`: a worker has the row of its step in its batch or in hand
(`HandInv`); what is in front of a row of a drainer's batch is in that batch
too, or it is over (`AheadInv`); and what is in front of a prompt that was sent
is over (`PassedInv`), which the only drainer has seen to. A new row has an
identifier above all others because identifiers count the rows inserted.

**PodReconcile.** `PodInv` says of each pod what makes the runner's goroutines
safe to run side by side: a pod is created once, before any other command for
it; `pod.IO` is a process that was started; and unless the pod is perpetual
there is one process, which is listed or in the hands of the worker that took
it out (`OneProcess`). Each action changes one pod, so one lemma
(`OnePodMoves`) leaves the others. With the types of the backend this gives
`ReconcileTypes` (above all that no counter passes its threshold),
`NoUnseenAgents` and, for every step a heartbeat can take, `NothingIsRevived`.

**GoalLoop.** `LoopInv` relates the fields of the row (`RowInv`: an open request
has no evidence, a pending retry has failed evidence) and what a call still
holds to the row it will write (`CallInv`). Every action maps to one of
`GoalLoopLife` or a stutter, which is `LoopImplementsLife`; the abstract loop
then has `CompletionIsVerified`. `CallsFit` adds what calls know of the pod and
of the event they work on: a call that ends the loop read the pod the row has,
and there is one start at a time (`PodInv`); an event is no later than the
clock, and an executing one no later than the work of its pod (`EventInv`); a
late `activate` bears the number of another round than the pending one, or its
pod has worked since the prompt (`RoundInv`). The last is why comparing numbers is enough for
`RoundsBeginWithWork`. `StartedPodsAreKnown` follows the pod of a start from
the creating call to the row or to the call that will stop it.

**WorkflowRuns.** `RunsInv`: a call that is about to count a run is the one
that ended it, a start about to bind a pod is the only one that knows it
(`Apart`). `RunsImplementLife` is the refinement; `ConcurrencyHolds` needs the
cardinalities of the active runs; `StartedPodsAreHeld` and `TimedOutPodsStop`
follow a pod from hand to hand.

**RelayLease.** `HandoffInv`: who writes has the lock, who has the lock owns
the lease, a stopped lease stays stopped. Gives `WriterIsOwner` and
`NoLeaseAfterClose` for any number of browsers and any time. `TimerInv`: a timer
bears the epoch of its lease and is due no earlier than the lease ends, since
both times come from one clock read in that order; so a callback with the
current epoch started past the expiry, and any other does nothing
(`OldTimersAreHarmless`).

**RelayPublisher.** `PublisherInv`: `publisherReplaceMu` excludes
(`LockExcludes`), what a call has installed stays until it ends
(`CallInProgress`), goroutines start in turn (`ReadersInTurn`), and an open
connection is the publisher's or about to be closed (`OpenIsAccountedFor`).
Gives `OneReader`, `NewestStaysPublisher`, `ClosedHoldsNothing`. `AwayInv`: a
runner marked as away is not the publisher, and the timeout looks at the mark
under `publisherReplaceMu` (`TimeoutClosesOnlyAbandoned`). `NewsInv`: whatever a
browser was told last, if it is not the state now then the broadcast that will
tell it is still to come, in an order `publisherReplaceMu` and the readers
waiting for each other enforce (`EarlyKnowTheTruth`).

**RelayChannels.** `ManagerInv`: calls name channels that exist, a channel is
in the map until its own callback takes it out (`ChannelIsListed`), so a
callback that deletes by pod key deletes itself. Gives `NobodyWaitsInVain`,
`LiveChannelIsListed`, `KeepAliveOnlyWhenEmpty`. `SocketInv`: a socket that is
held has an owner - a pending entry, a channel that is not closed, or a call at
a step that places or closes it (`Owned`) - and a channel that closes lets go
of all of its own (`ClosedLetsGo`); gives `SocketsAreFound`. `LimitInv`: one call
at most may add to a channel without the limit, and until it has done so the
channel is within the limit (`AtMostOneOver`).

**PreviewTunnel.** `RequestInv`: a number is given once per connection, and a
request keeps its connection and number. `WireInv`: what is on the wire carries
numbers of this connection, because a frame is only written while its
connection is up. `TableInv`: the runner's table has streams of this connection
only. So whoever is found by number is the one the frame is for (`FoundStream`)
and `HandsInv` holds: `FramesAreOwn`. For `SleepersAreWoken`, `SleepInv`:
whatever ends a stream at one end - its table, a refused start, a cancel - has
closed its window there; a closed window has nobody asleep. `PumpInv`: a
request that is over has left its table. `CreditsAreConserved` is about a count
over three queues and needs to know that no frame falls away and none is
counted twice. `TunnelInv`: while the connection is up its tunnel is open and
lists every request that is pumped, so `Dispatch` and `Deliver` drop nothing of
theirs. `FreshInv`: a stream is served once, from its only start frame on
(`Down`), and before that it has no chunk (`Up`), no credit under way and its
full window. `LiveStreams` is the case analysis: a stream comes to have both
ends by its start frame and in no other way; every other step moves a credit
between two of the four places or moves none. The lemmas `CountAppend` and
`CountTail` say what a write and a read do to a count.

**Model-checked only.** All liveness (`EveryRowLeaves`, `EndedPodsAreStopped`,
`LostPodsAreNoticed`, `LivePodsRecover`, `LoopEnds`, `RetryIsQueued`,
`RunEnds`, `LeaseEnds`, `CallsReturn`, `WaitingEnds`): the prover has no
fairness and no ENABLED. Every invariant and every action property that a
passing run checks is stated by a theorem, some under the hypotheses above.
There are no recursive definitions. `LiveChannelIsListed` is proved and no
longer checked by a run.
Where a `TypeOK` is not checked by a run, the inductive invariant above it has
the types the proofs need.

## 6. What is left out, and the plan

`PodDispatch`: a second runner and other organizations; database errors other
than a crash; commands that cannot be decoded; heartbeats, which also rewrite
`current_pods`, so `WithinLimits` speaks of reservations and not of what a
heartbeat stores; a disconnect handler still busy when its replica loses the
same runner again. `PodReconcile`: a second `create_pod` (proved away in
`PodDispatch`), a termination while a pod is built, restart of the runner with
recovery of its daemon sessions, updates of a pod, restart counters and
breaker, a full control queue, handlers of a replaced stream, `current_pods`,
relay connections. `last_activity` is abstracted (`OutOfSight`: any pod without
a stream may be called stale), a cooldown outlasts the commands on their way,
the handshake is part of `Reconnect`. `GoalLoop`: creation,
`HandleAutopilotStatus`, notifications; time (a loop may expire at any moment),
and two events of one millisecond. `WorkflowRuns`: persistent runtime state,
webhooks, comments, approvals, the cron claim, validation. Relay: browsers that
leave in `RelayPublisher`; `SetPublisher` called again with the same connection
(it returns at once); a keep-alive callback that is late by itself;
`CloseChannel` and `Close` of the manager. `PreviewTunnel`: WebSocket previews
and their reauthorization, limits per pod, pings (a missing pong is a lost
connection), back-pressure of TCP, headers and sizes (a chunk is one credit),
liveness of requests. Timers may fire at any moment after they were set:
durations are not compared. Connections are used once.

Not modelled, with the reason in `PROJECT.json`: mainly request handlers that
touch one row, document pipelines, providers and user interfaces, which are
most of the code by far and hold little protocol.

Plan, in order:

1. `RunnerConnection`: generations, replacement of a stream, callbacks outside
   the shard lock; the pod counter, composed with `PodDispatch` and
   `PodReconcile`; `PodLife`, an abstract life of a record both implement as far
   as the unguarded updates let them.
2. Recovery of daemon sessions after a restart of the runner; WebSocket
   previews in `PreviewTunnel`, and liveness of requests.
3. `RelayChannelSpec`, an abstract channel (one reader, one writer) that
   `RelayPublisher` and `RelayLease` implement by refinement mappings; manager
   shutdown.
4. Task claims (`service/tasks`, `service/coordinator`) and the block store's
   operation log.
5. Theorems: `OthersAreSeen` and its kin for what steps 1 to 3 add, and
   `StartedPodIsHeld` for a loop that is started over, once the terms are found
   under which it is true.

## 7. Running

In this directory, with TLC and the TLA+ proof system on the path:

    tlc -config PodDispatch_replicas.cfg MCPodDispatch.tla
    tlapm PodDispatch_proofs.tla

With two workers the dispatch runs, `reconcile` and `tunnel` (2.5 million
states) take one to four minutes, the others less. The proofs take a few
minutes each from nothing.
