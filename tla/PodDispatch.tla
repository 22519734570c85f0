---------------------------- MODULE PodDispatch ----------------------------
(***************************************************************************)
(* How a create_pod command reaches a runner.                              *)
(*                                                                         *)
(* A request handler inserts the pod record and either sends the command   *)
(* at once or parks it in the pending_runner_commands table (the creator   *)
(* steps below).  A drainer goroutine, at most one per backend replica,    *)
(* claims parked commands in row order and sends them.  A sweeper expires  *)
(* rows.  Users terminate pods, the runner's stream drops, the runner      *)
(* reports what became of a pod, and a replica may crash between any two   *)
(* database statements.  One step of the model is one statement on the     *)
(* shared database or one send on a replica's stream.                      *)
(*                                                                         *)
(* The model has one runner; queues and counters are per runner.           *)
(* Heartbeats, which also rewrite the pod counter, are not in it.          *)
(***************************************************************************)
EXTENDS Naturals, FiniteSets, PodStatus

CONSTANTS
  Pods,               \* pod keys
  Replicas,           \* backend processes
  Requests,           \* kinds of create request: subset of RequestKinds
  PromptPods,         \* pods that may be sent a prompt while offline
  TerminablePods,     \* pods somebody may call TerminatePod for
  MaxConcurrentPods,  \* runners.max_concurrent_pods
  MaxPerRunner,       \* PENDING_QUEUE max rows per runner
  BatchSize,          \* rows fetched by one ListByRunnerFIFO
  MaxCrashes,         \* bound on replica crashes
  MaxDisconnects      \* bound on stream losses

RequestKinds == {"immediate", "queue_if_unavailable", "deferred"}

ASSUME DispatchAssumption ==
  /\ IsFiniteSet(Pods)
  /\ PromptPods \subseteq Pods
  /\ TerminablePods \subseteq Pods
  /\ Requests \subseteq RequestKinds
  /\ MaxConcurrentPods \in Nat
  /\ MaxPerRunner \in Nat
  /\ BatchSize \in Nat \ {0}
  /\ MaxCrashes \in Nat
  /\ MaxDisconnects \in Nat

VARIABLES
  \* ---- database
  status,       \* pods.status, NoRecord before the insert
  table,        \* rows present in pending_runner_commands
  rowId,        \* id a row got when inserted, 0 before
  expired,      \* rows whose expires_at has passed
  currentPods,  \* runners.current_pods
  \* ---- replicas
  conn,         \* does the replica's connection manager hold a stream
  worker,       \* program counter of each drainer and sweeper
  batch,        \* rows a worker has listed and not finished
  cur,          \* row a worker is handling
  closing,      \* program counter of a replica's disconnect handler
  toFail,       \* pods that handler has listed and not finished
  owed,         \* DecrementPods calls a replica's handlers still have to make
  \* ---- requests
  creator,      \* program counter of the request creating a pod
  request,      \* kind of that request
  home,         \* replica that serves it
  local,        \* the status it holds in memory
  canceller,    \* program counter of a TerminatePod call for a pod
  \* ---- the runner, and history
  onRunner,     \* what the runner did with a pod it was told to create
  sends,        \* how often a command was handed to a stream
  drained,      \* pods whose create_pod a drainer sent
  cancelled,    \* pods a cancel, an expiry or a disconnect took out of the
                \* queue
  crashes, disconnects

dbVars == <<status, table, rowId, expired, currentPods>>
workerVars == <<worker, batch, cur>>
closeVars == <<closing, toFail>>
creatorVars == <<creator, request, home, local>>
histVars == <<sends, drained, cancelled>>
budgetVars == <<crashes, disconnects>>

vars == <<dbVars, conn, workerVars, closeVars, owed, creatorVars, canceller,
          onRunner, histVars, budgetVars>>

-----------------------------------------------------------------------------
CreateRow(p) == <<"create_pod", p>>
PromptRow(p) == <<"send_prompt", p>>
Rows == {"create_pod", "send_prompt"} \X Pods
RowsOf(p) == {CreateRow(p), PromptRow(p)}
NoRow == <<"no_row">>

Drainer(r) == <<"drain", r>>
Sweeper(r) == <<"sweep", r>>
Workers == {"drain", "sweep"} \X Replicas

WorkerSteps == {"idle", "list", "row", "capacity", "claim", "increment",
                "send", "undo", "revert", "delete", "prompt", "prompt_send",
                "expire_delete", "expire_mark"}
CreatorSteps == {"new", "deferred", "check", "increment", "send", "undo",
                 "enqueue", "align_initializing", "align_queued",
                 "fail_initializing", "fail_queued", "done", "dead"}
CancellerSteps == {"idle", "rows_queued", "cas_queued", "rows_active",
                   "cas_active"}
RunnerSteps == {"unknown", "creating", "running", "exiting", "failing", "gone"}
ClosingSteps == {"idle", "list_initializing", "initializing", "list_queued",
                 "queued_rows", "queued_cas"}

\* UpdateByKeyAndStatusCounted, UpdateByKeyAndActiveStatus: one conditional
\* UPDATE; the rows-affected count is 1 exactly when the guard held.
CompareAndSet(p, from, to) ==
  status' = IF status[p] \in from THEN [status EXCEPT ![p] = to] ELSE status

\* The same guarded on queued, by those who give a parked pod up; the mutant
\* has no guard.
TakeOutUnguarded(p, to) ==
  /\ status' = [status EXCEPT ![p] = to]
  /\ cancelled' = cancelled \cup {p}

TakeOutOfQueue(p, to) ==
  /\ CompareAndSet(p, {"queued"}, to)
  /\ cancelled' = IF status[p] = "queued" THEN cancelled \cup {p}
                                          ELSE cancelled

\* A read of the runner record.
HasCapacity == currentPods < MaxConcurrentPods

\* IncrementPods: UPDATE ... WHERE current_pods < max_concurrent_pods.
\* The mutant trusts the capacity read that came before.
ReserveUnchecked == TRUE
CanReserve == currentPods < MaxConcurrentPods

\* DecrementPods: GREATEST(current_pods - 1, 0); the mutant has no floor.
DecrementedBelowZero(n) == n - 1
Decremented(n) == IF n > 0 THEN n - 1 ELSE 0

ShouldDispatchNow(r) == conn[r] /\ HasCapacity

\* ListByRunnerFIFO: ORDER BY id ASC LIMIT BatchSize.
Before(x) == {y \in table : rowId[y] < rowId[x]}
ListByRunnerFIFO == {x \in table : Cardinality(Before(x)) < BatchSize}
IsFirst(x, rows) == x \in rows /\ \A y \in rows : rowId[x] <= rowId[y]

\* EnqueueWithinCapacity: duplicate check, count and insert in one
\* transaction under the runner's advisory lock.
QueueFull == Cardinality(table) >= MaxPerRunner
Insert(x) ==
  /\ table' = table \cup {x}
  /\ rowId' = [rowId EXCEPT ![x] =
                 1 + Cardinality({y \in Rows : rowId[y] # 0})]

-----------------------------------------------------------------------------
Init ==
  /\ status = [p \in Pods |-> NoRecord]
  /\ table = {}
  /\ rowId = [x \in Rows |-> 0]
  /\ expired = {}
  /\ currentPods = 0
  /\ conn = [r \in Replicas |-> FALSE]
  /\ worker = [w \in Workers |-> "idle"]
  /\ batch = [w \in Workers |-> {}]
  /\ cur = [w \in Workers |-> NoRow]
  /\ closing = [r \in Replicas |-> "idle"]
  /\ toFail = [r \in Replicas |-> {}]
  /\ owed = [r \in Replicas |-> 0]
  /\ creator = [p \in Pods |-> "new"]
  /\ request \in [Pods -> Requests]
  /\ home \in [Pods -> Replicas]
  /\ local = [p \in Pods |-> NoRecord]
  /\ canceller = [p \in Pods |-> "idle"]
  /\ onRunner = [p \in Pods |-> "unknown"]
  /\ sends = [x \in Rows |-> 0]
  /\ drained = {}
  /\ cancelled = {}
  /\ crashes = 0
  /\ disconnects = 0

-----------------------------------------------------------------------------
(* The request that creates a pod: PodOrchestrator and PodCoordinator.     *)

CreatorAt(p, step) == creator[p] = step
CreatorGoto(p, step) == creator' = [creator EXCEPT ![p] = step]

\* initialPodStatus: the status the record is inserted with.
InitialPodStatus(p) ==
  IF \/ request[p] = "deferred"
     \/ request[p] = "queue_if_unavailable" /\ ~ShouldDispatchNow(home[p])
  THEN "queued" ELSE "initializing"

\* The record is inserted; a deferred request is answered without dispatch.
InsertPod(p) ==
  /\ CreatorAt(p, "new")
  /\ status' = [status EXCEPT ![p] = InitialPodStatus(p)]
  /\ local' = [local EXCEPT ![p] = InitialPodStatus(p)]
  /\ CreatorGoto(p, IF request[p] = "deferred" THEN "deferred" ELSE "check")
  /\ UNCHANGED <<table, rowId, expired, currentPods, conn, workerVars,
                 closeVars, owed, request, home, canceller, onRunner,
                 histVars, budgetVars>>

\* DispatchDeferredPod: the transition queued -> initializing must win.
DispatchDeferredPod(p) ==
  /\ CreatorAt(p, "deferred")
  /\ CompareAndSet(p, {"queued"}, "initializing")
  /\ IF status[p] = "queued"
     THEN /\ local' = [local EXCEPT ![p] = "initializing"]
          /\ CreatorGoto(p, "check")
     ELSE /\ CreatorGoto(p, "done")
          /\ UNCHANGED local
  /\ UNCHANGED <<table, rowId, expired, currentPods, conn, workerVars,
                 closeVars, owed, request, home, canceller, onRunner,
                 histVars, budgetVars>>

\* CreatePodOrQueue: dispatch now, park, or ErrRunnerNotConnected.
CreatePodOrQueue(p) ==
  /\ CreatorAt(p, "check")
  /\ CreatorGoto(p, CASE ShouldDispatchNow(home[p]) -> "increment"
                      [] ~ShouldDispatchNow(home[p])
                           /\ request[p] = "queue_if_unavailable" -> "enqueue"
                      [] OTHER -> "fail_initializing")
  /\ UNCHANGED <<dbVars, conn, workerVars, closeVars, owed, request, home,
                 local, canceller, onRunner, histVars, budgetVars>>

\* CreatePod, first half: reserve a slot or ErrRunnerCapacityUnavailable.
CreatorIncrementPods(p) ==
  /\ CreatorAt(p, "increment")
  /\ IF CanReserve
     THEN currentPods' = currentPods + 1 /\ CreatorGoto(p, "send")
     ELSE CreatorGoto(p, "fail_initializing") /\ UNCHANGED currentPods
  /\ UNCHANGED <<status, table, rowId, expired, conn, workerVars, closeVars,
                 owed, request, home, local, canceller, onRunner, histVars,
                 budgetVars>>

\* The runner gets a command put on its stream now or never: a stream may
\* be gone by the time the buffered message is written.
Delivered(p) == onRunner' = [onRunner EXCEPT ![p] = "creating"]

CreatorSend(p) ==
  /\ CreatorAt(p, "send")
  /\ \/ /\ conn[home[p]]
        /\ sends' = [sends EXCEPT ![CreateRow(p)] = @ + 1]
        /\ Delivered(p) \/ UNCHANGED onRunner
        /\ CreatorGoto(p, "align_initializing")
     \/ /\ CreatorGoto(p, "undo")
        /\ UNCHANGED <<sends, onRunner>>
  /\ UNCHANGED <<dbVars, conn, workerVars, closeVars, owed, request, home,
                 local, canceller, drained, cancelled, budgetVars>>

CreatorDecrementPods(p) ==
  /\ CreatorAt(p, "undo")
  /\ currentPods' = Decremented(currentPods)
  /\ CreatorGoto(p, "fail_initializing")
  /\ UNCHANGED <<status, table, rowId, expired, conn, workerVars, closeVars,
                 owed, request, home, local, canceller, onRunner, histVars,
                 budgetVars>>

\* EnqueueCreatePod: ErrQueueFull, or the row is inserted.
EnqueueCreatePod(p) ==
  /\ CreatorAt(p, "enqueue")
  /\ IF QueueFull
     THEN CreatorGoto(p, "fail_initializing") /\ UNCHANGED <<table, rowId>>
     ELSE Insert(CreateRow(p)) /\ CreatorGoto(p, "align_queued")
  /\ UNCHANGED <<status, expired, currentPods, conn, workerVars, closeVars,
                 owed, request, home, local, canceller, onRunner, histVars,
                 budgetVars>>

\* dispatchCreatedPod after a send, then after an enqueue: UpdatePodStatus
\* writes without a guard, and only when the status in memory differs.
Align(p, step, value) ==
  /\ CreatorAt(p, step)
  /\ status' = IF local[p] # value THEN [status EXCEPT ![p] = value]
                                   ELSE status
  /\ local' = [local EXCEPT ![p] = value]
  /\ CreatorGoto(p, "done")
  /\ UNCHANGED <<table, rowId, expired, currentPods, conn, workerVars,
                 closeVars, owed, request, home, canceller, onRunner,
                 histVars, budgetVars>>

AlignInitializing(p) == Align(p, "align_initializing", "initializing")
AlignQueued(p) == Align(p, "align_queued", "queued")

\* MarkDispatchFailed: initializing -> error, else queued -> error.
MarkFailed(p, step, from, next) ==
  /\ CreatorAt(p, step)
  /\ CompareAndSet(p, {from}, "error")
  /\ CreatorGoto(p, IF status[p] = from THEN "done" ELSE next)
  /\ UNCHANGED <<table, rowId, expired, currentPods, conn, workerVars,
                 closeVars, owed, request, home, local, canceller, onRunner,
                 histVars, budgetVars>>

MarkDispatchFailed(p) ==
  \/ MarkFailed(p, "fail_initializing", "initializing", "fail_queued")
  \/ MarkFailed(p, "fail_queued", "queued", "done")

CreatorStep(p) ==
  \/ InsertPod(p) \/ DispatchDeferredPod(p) \/ CreatePodOrQueue(p)
  \/ CreatorIncrementPods(p) \/ CreatorSend(p) \/ CreatorDecrementPods(p)
  \/ EnqueueCreatePod(p) \/ AlignInitializing(p) \/ AlignQueued(p)
  \/ MarkDispatchFailed(p)

\* A prompt for a pod whose runner is offline is parked, once in the model.
EnqueueSendPrompt(p) ==
  /\ p \in PromptPods
  /\ rowId[PromptRow(p)] = 0
  /\ status[p] # NoRecord
  /\ ~QueueFull
  /\ Insert(PromptRow(p))
  /\ UNCHANGED <<status, expired, currentPods, conn, workerVars, closeVars,
                 owed, creatorVars, canceller, onRunner, histVars,
                 budgetVars>>

-----------------------------------------------------------------------------
(* Drainers and sweepers: PendingCommandDrainer.                           *)

WorkerAt(w, step) == worker[w] = step
WorkerGoto(w, step) == worker' = [worker EXCEPT ![w] = step]
WorkerStop(w) ==
  /\ WorkerGoto(w, "idle")
  /\ batch' = [batch EXCEPT ![w] = {}]
  /\ cur' = [cur EXCEPT ![w] = NoRow]
WorkerNextRow(w) ==
  /\ WorkerGoto(w, "row")
  /\ batch' = [batch EXCEPT ![w] = @ \ {cur[w]}]
  /\ cur' = [cur EXCEPT ![w] = NoRow]

PodOf(w) == cur[w][2]
StreamOf(w) == conn[w[2]]

\* DrainRunner: dropped when this replica is already draining the runner.
DrainRunner(r) ==
  /\ WorkerAt(Drainer(r), "idle")
  /\ conn[r] /\ table # {}
  /\ WorkerGoto(Drainer(r), "list")
  /\ UNCHANGED <<dbVars, conn, batch, cur, closeVars, owed, creatorVars,
                 canceller, onRunner, histVars, budgetVars>>

\* Mutant: the sweeper skips a runner that is offline.
SweepExpiredOnline(r) ==
  /\ WorkerAt(Sweeper(r), "idle")
  /\ conn[r] /\ table \cap expired # {}
  /\ batch' = [batch EXCEPT ![Sweeper(r)] = table \cap expired]
  /\ WorkerGoto(Sweeper(r), "row")
  /\ UNCHANGED <<dbVars, conn, cur, closeVars, owed, creatorVars, canceller,
                 onRunner, histVars, budgetVars>>

\* sweepExpired: list the expired rows, then handle each.
SweepExpired(r) ==
  /\ WorkerAt(Sweeper(r), "idle")
  /\ table \cap expired # {}
  /\ batch' = [batch EXCEPT ![Sweeper(r)] = table \cap expired]
  /\ WorkerGoto(Sweeper(r), "row")
  /\ UNCHANGED <<dbVars, conn, cur, closeVars, owed, creatorVars, canceller,
                 onRunner, histVars, budgetVars>>

\* drainRunner, outer loop: connected and something to do, or return.
ListBatch(w) ==
  /\ WorkerAt(w, "list")
  /\ IF StreamOf(w) /\ table # {}
     THEN /\ batch' = [batch EXCEPT ![w] = ListByRunnerFIFO]
          /\ WorkerGoto(w, "row")
          /\ UNCHANGED cur
     ELSE WorkerStop(w)
  /\ UNCHANGED <<dbVars, conn, closeVars, owed, creatorVars, canceller,
                 onRunner, histVars, budgetVars>>

\* The batch is used up: a drainer lists again, a sweeper is done.
EndBatch(w) ==
  /\ WorkerAt(w, "row")
  /\ batch[w] = {}
  /\ IF w[1] = "drain" THEN WorkerGoto(w, "list") /\ UNCHANGED <<batch, cur>>
                       ELSE WorkerStop(w)
  /\ UNCHANGED <<dbVars, conn, closeVars, owed, creatorVars, canceller,
                 onRunner, histVars, budgetVars>>

\* drainRunner, inner loop, and the loop of sweepExpired: the next row is
\* expired, or dispatched if the stream is still there.
TakeRow(w) ==
  /\ WorkerAt(w, "row")
  /\ \E x \in batch[w] :
       /\ IsFirst(x, batch[w])
       /\ \/ /\ x \in expired
             /\ WorkerGoto(w, "expire_delete")
             /\ cur' = [cur EXCEPT ![w] = x]
             /\ UNCHANGED batch
          \/ /\ x \notin expired /\ StreamOf(w)
             /\ WorkerGoto(w, IF x[1] = "create_pod" THEN "capacity"
                                                     ELSE "prompt")
             /\ cur' = [cur EXCEPT ![w] = x]
             /\ UNCHANGED batch
          \/ /\ x \notin expired /\ ~StreamOf(w)
             /\ WorkerStop(w)
  /\ UNCHANGED <<dbVars, conn, closeVars, owed, creatorVars, canceller,
                 onRunner, histVars, budgetVars>>

\* dispatchCreatePod: the capacity read, which may be stale when used.
ReadCapacity(w) ==
  /\ WorkerAt(w, "capacity")
  /\ IF HasCapacity THEN WorkerGoto(w, "claim") /\ UNCHANGED <<batch, cur>>
                    ELSE WorkerStop(w)
  /\ UNCHANGED <<dbVars, conn, closeVars, owed, creatorVars, canceller,
                 onRunner, histVars, budgetVars>>

\* Mutant: the claim is a plain UPDATE of the status.
ClaimUnguarded(w) ==
  /\ WorkerAt(w, "claim")
  /\ status' = [status EXCEPT ![PodOf(w)] = "initializing"]
  /\ WorkerGoto(w, "increment")
  /\ UNCHANGED <<table, rowId, expired, currentPods, conn, batch, cur,
                 closeVars, owed, creatorVars, canceller, onRunner,
                 histVars, budgetVars>>

\* dispatchCreatePod: the claim; a lost claim drops the row.
Claim(w) ==
  /\ WorkerAt(w, "claim")
  /\ CompareAndSet(PodOf(w), {"queued"}, "initializing")
  /\ WorkerGoto(w, IF status[PodOf(w)] = "queued" THEN "increment"
                                                  ELSE "delete")
  /\ UNCHANGED <<table, rowId, expired, currentPods, conn, batch, cur,
                 closeVars, owed, creatorVars, canceller, onRunner,
                 histVars, budgetVars>>

DrainerIncrementPods(w) ==
  /\ WorkerAt(w, "increment")
  /\ IF CanReserve
     THEN currentPods' = currentPods + 1 /\ WorkerGoto(w, "send")
     ELSE WorkerGoto(w, "revert") /\ UNCHANGED currentPods
  /\ UNCHANGED <<status, table, rowId, expired, conn, batch, cur, closeVars,
                 owed, creatorVars, canceller, onRunner, histVars,
                 budgetVars>>

DrainerSend(w) ==
  /\ WorkerAt(w, "send")
  /\ \/ /\ StreamOf(w)
        /\ sends' = [sends EXCEPT ![cur[w]] = @ + 1]
        /\ drained' = drained \cup {PodOf(w)}
        /\ Delivered(PodOf(w)) \/ UNCHANGED onRunner
        /\ WorkerGoto(w, "delete")
     \/ /\ WorkerGoto(w, "undo")
        /\ UNCHANGED <<sends, drained, onRunner>>
  /\ UNCHANGED <<dbVars, conn, batch, cur, closeVars, owed, creatorVars,
                 canceller, cancelled, budgetVars>>

DrainerDecrementPods(w) ==
  /\ WorkerAt(w, "undo")
  /\ currentPods' = Decremented(currentPods)
  /\ WorkerGoto(w, "revert")
  /\ UNCHANGED <<status, table, rowId, expired, conn, batch, cur, closeVars,
                 owed, creatorVars, canceller, onRunner, histVars,
                 budgetVars>>

\* Mutant: the drain goes on with the next row after a failed send.
RevertClaimAndGoOn(w) ==
  /\ WorkerAt(w, "revert")
  /\ CompareAndSet(PodOf(w), {"initializing"}, "queued")
  /\ WorkerNextRow(w)
  /\ UNCHANGED <<table, rowId, expired, currentPods, conn, closeVars, owed,
                 creatorVars, canceller, onRunner, histVars, budgetVars>>

\* revertClaim, and the drain stops at this row.
RevertClaim(w) ==
  /\ WorkerAt(w, "revert")
  /\ CompareAndSet(PodOf(w), {"initializing"}, "queued")
  /\ WorkerStop(w)
  /\ UNCHANGED <<table, rowId, expired, currentPods, conn, closeVars, owed,
                 creatorVars, canceller, onRunner, histVars, budgetVars>>

\* dispatchSendPrompt: only while the pod is active.
ReadPromptPod(w) ==
  /\ WorkerAt(w, "prompt")
  /\ WorkerGoto(w, IF status[PodOf(w)] \in ActiveStatuses THEN "prompt_send"
                                                          ELSE "delete")
  /\ UNCHANGED <<dbVars, conn, batch, cur, closeVars, owed, creatorVars,
                 canceller, onRunner, histVars, budgetVars>>

\* A failed send leaves the row for the next drain.
SendPrompt(w) ==
  /\ WorkerAt(w, "prompt_send")
  /\ \/ /\ StreamOf(w)
        /\ sends' = [sends EXCEPT ![cur[w]] = @ + 1]
        /\ WorkerGoto(w, "delete")
        /\ UNCHANGED <<batch, cur>>
     \/ /\ WorkerStop(w)
        /\ UNCHANGED sends
  /\ UNCHANGED <<dbVars, conn, closeVars, owed, creatorVars, canceller,
                 onRunner, drained, cancelled, budgetVars>>

DeleteRow(w) ==
  /\ WorkerAt(w, "delete")
  /\ table' = table \ {cur[w]}
  /\ WorkerNextRow(w)
  /\ UNCHANGED <<status, rowId, expired, currentPods, conn, closeVars, owed,
                 creatorVars, canceller, onRunner, histVars, budgetVars>>

\* handleExpired: delete the row, then fail the pod if it is still queued.
ExpireDelete(w) ==
  /\ WorkerAt(w, "expire_delete")
  /\ table' = table \ {cur[w]}
  /\ IF cur[w][1] = "create_pod"
     THEN WorkerGoto(w, "expire_mark") /\ UNCHANGED <<batch, cur>>
     ELSE WorkerNextRow(w)
  /\ UNCHANGED <<status, rowId, expired, currentPods, conn, closeVars, owed,
                 creatorVars, canceller, onRunner, histVars, budgetVars>>

MarkQueueExpired(w) ==
  /\ WorkerAt(w, "expire_mark")
  /\ TakeOutOfQueue(PodOf(w), "error")
  /\ WorkerNextRow(w)
  /\ UNCHANGED <<table, rowId, expired, currentPods, conn, closeVars, owed,
                 creatorVars, canceller, onRunner, sends, drained,
                 budgetVars>>

WorkerStep(w) ==
  \/ ListBatch(w) \/ EndBatch(w) \/ TakeRow(w) \/ ReadCapacity(w)
  \/ Claim(w)
  \/ DrainerIncrementPods(w) \/ DrainerSend(w) \/ DrainerDecrementPods(w)
  \/ RevertClaim(w) \/ ReadPromptPod(w) \/ SendPrompt(w) \/ DeleteRow(w)
  \/ ExpireDelete(w) \/ MarkQueueExpired(w)

\* Time passes expires_at of a row somebody may still act on.
Expire(x) ==
  /\ x \notin expired
  /\ x \in table \/ \E w \in Workers : x \in batch[w]
  /\ expired' = expired \cup {x}
  /\ UNCHANGED <<status, table, rowId, currentPods, conn, workerVars,
                 closeVars, owed, creatorVars, canceller, onRunner, histVars,
                 budgetVars>>

-----------------------------------------------------------------------------
(* TerminatePod, called by a user or a service for one pod.                *)

Cancelling(p, step) == canceller[p] = step
CancellerGoto(p, step) == canceller' = [canceller EXCEPT ![p] = step]

\* The status read decides which path the call takes.
TerminatePod(p) ==
  /\ p \in TerminablePods
  /\ Cancelling(p, "idle")
  /\ status[p] \in ActiveStatuses
  /\ CancellerGoto(p, IF status[p] = "queued" THEN "rows_queued"
                                              ELSE "rows_active")
  /\ UNCHANGED <<dbVars, conn, workerVars, closeVars, owed, creatorVars,
                 onRunner, histVars, budgetVars>>

\* cancelPendingForPod.
CancelPending(p) ==
  /\ \/ Cancelling(p, "rows_queued") /\ CancellerGoto(p, "cas_queued")
     \/ Cancelling(p, "rows_active") /\ CancellerGoto(p, "cas_active")
  /\ table' = table \ RowsOf(p)
  /\ UNCHANGED <<status, rowId, expired, currentPods, conn, workerVars,
                 closeVars, owed, creatorVars, onRunner, histVars,
                 budgetVars>>

TerminateQueued(p) ==
  /\ Cancelling(p, "cas_queued")
  /\ TakeOutOfQueue(p, "completed")
  /\ CancellerGoto(p, "idle")
  /\ UNCHANGED <<table, rowId, expired, currentPods, conn, workerVars,
                 closeVars, owed, creatorVars, onRunner, sends, drained,
                 budgetVars>>

\* A status change that releases a slot leaves a DecrementPods call to make.
Release(p, from, to, r) ==
  /\ CompareAndSet(p, from, to)
  /\ owed' = IF status[p] \in from THEN [owed EXCEPT ![r] = @ + 1] ELSE owed

\* terminatePod: active -> completed, after the terminate command was tried.
TerminateActive(p) ==
  /\ Cancelling(p, "cas_active")
  /\ \E r \in Replicas : Release(p, ActiveStatuses, "completed", r)
  /\ CancellerGoto(p, "idle")
  /\ UNCHANGED <<table, rowId, expired, currentPods, conn, workerVars,
                 closeVars, creatorVars, onRunner, histVars, budgetVars>>

\* The caller's context is cancelled, or its replica dies, in between.
TerminateAborted(p) ==
  /\ ~Cancelling(p, "idle")
  /\ CancellerGoto(p, "idle")
  /\ UNCHANGED <<dbVars, conn, workerVars, closeVars, owed, creatorVars,
                 onRunner, histVars, budgetVars>>

DecrementPods(r) ==
  /\ owed[r] > 0
  /\ owed' = [owed EXCEPT ![r] = @ - 1]
  /\ currentPods' = Decremented(currentPods)
  /\ UNCHANGED <<status, table, rowId, expired, conn, workerVars, closeVars,
                 creatorVars, canceller, onRunner, histVars, budgetVars>>

-----------------------------------------------------------------------------
(* What the runner reports about a pod it was told to create.              *)

RunnerAt(p, step) == onRunner[p] = step
RunnerGoto(p, step) == onRunner' = [onRunner EXCEPT ![p] = step]

\* handlePodCreated writes running whatever the status was.
HandlePodCreated(p) ==
  /\ RunnerAt(p, "creating")
  /\ status' = [status EXCEPT ![p] = "running"]
  /\ RunnerGoto(p, "running")
  /\ UNCHANGED <<table, rowId, expired, currentPods, conn, workerVars,
                 closeVars, owed, creatorVars, canceller, histVars,
                 budgetVars>>

\* handlePodTerminated: drop the pod's rows, then active -> finished.
HandlePodTerminated(p) ==
  \/ /\ RunnerAt(p, "running")
     /\ table' = table \ RowsOf(p)
     /\ RunnerGoto(p, "exiting")
     /\ UNCHANGED <<status, rowId, expired, currentPods, conn, workerVars,
                    closeVars, owed, creatorVars, canceller, histVars,
                    budgetVars>>
  \/ /\ RunnerAt(p, "exiting")
     /\ \E r \in Replicas, to \in {"completed", "error"} :
           Release(p, ActiveStatuses, to, r)
     /\ RunnerGoto(p, "gone")
     /\ UNCHANGED <<table, rowId, expired, currentPods, conn, workerVars,
                    closeVars, creatorVars, canceller, histVars, budgetVars>>

\* handlePodError: initializing -> error; a terminal runtime code then also
\* fails a pod in any other active status.
HandlePodError(p) ==
  /\ \/ /\ RunnerAt(p, "creating")
        /\ \E r \in Replicas : Release(p, {"initializing"}, "error", r)
        /\ RunnerGoto(p, IF status[p] = "initializing" THEN "gone"
                                                       ELSE "failing")
     \/ /\ RunnerAt(p, "failing")
        /\ \/ \E r \in Replicas : Release(p, ActiveStatuses, "error", r)
           \/ UNCHANGED <<status, owed>>
        /\ RunnerGoto(p, "gone")
  /\ UNCHANGED <<table, rowId, expired, currentPods, conn, workerVars,
                 closeVars, creatorVars, canceller, histVars, budgetVars>>

-----------------------------------------------------------------------------
(* Streams and replicas.                                                   *)

ClosingAt(r, step) == closing[r] = step
ClosingGoto(r, step) == closing' = [closing EXCEPT ![r] = step]

RunnerConnects(r) ==
  /\ ~conn[r]
  /\ conn' = [conn EXCEPT ![r] = TRUE]
  /\ UNCHANGED <<dbVars, workerVars, closeVars, owed, creatorVars, canceller,
                 onRunner, histVars, budgetVars>>

\* RemoveConnection, then handleRunnerDisconnect outside its lock: the
\* runner may be connected again before the handler's first statement.
StreamLost(r) ==
  /\ conn[r] /\ disconnects < MaxDisconnects
  /\ ClosingAt(r, "idle")
  /\ conn' = [conn EXCEPT ![r] = FALSE]
  /\ ClosingGoto(r, "list_initializing")
  /\ disconnects' = disconnects + 1
  /\ UNCHANGED <<dbVars, workerVars, toFail, owed, creatorVars, canceller,
                 onRunner, histVars, crashes>>

PodsWith(s) == {p \in Pods : status[p] = s}

\* failInitializingPodsForRunner and failQueuedPodsForRunner: the lists.
ListPodsToFail(r) ==
  /\ \/ /\ ClosingAt(r, "list_initializing")
        /\ toFail' = [toFail EXCEPT ![r] = PodsWith("initializing")]
        /\ ClosingGoto(r, "initializing")
     \/ /\ ClosingAt(r, "list_queued")
        /\ toFail' = [toFail EXCEPT ![r] = PodsWith("queued")]
        /\ ClosingGoto(r, "queued_rows")
  /\ UNCHANGED <<dbVars, conn, workerVars, owed, creatorVars, canceller,
                 onRunner, histVars, budgetVars>>

FailInitializing(r) ==
  /\ ClosingAt(r, "initializing")
  /\ \/ \E p \in toFail[r] :
           /\ Release(p, {"initializing"}, "error", r)
           /\ toFail' = [toFail EXCEPT ![r] = @ \ {p}]
           /\ UNCHANGED closing
     \/ /\ toFail[r] = {}
        /\ ClosingGoto(r, "list_queued")
        /\ UNCHANGED <<status, owed, toFail>>
  /\ UNCHANGED <<table, rowId, expired, currentPods, conn, workerVars,
                 creatorVars, canceller, onRunner, histVars, budgetVars>>

\* The pod a replica's handler is at; any fixed order will do.
AnyOf(ps) == CHOOSE p \in ps : TRUE

FailQueued(r) ==
  /\ \/ /\ ClosingAt(r, "queued_rows")
        /\ toFail[r] # {}
        /\ table' = table \ RowsOf(AnyOf(toFail[r]))
        /\ ClosingGoto(r, "queued_cas")
        /\ UNCHANGED <<status, toFail, cancelled>>
     \/ /\ ClosingAt(r, "queued_cas")
        /\ toFail[r] # {}
        /\ TakeOutOfQueue(AnyOf(toFail[r]), "error")
        /\ toFail' = [toFail EXCEPT ![r] = @ \ {AnyOf(toFail[r])}]
        /\ ClosingGoto(r, "queued_rows")
        /\ UNCHANGED table
     \/ /\ ClosingAt(r, "queued_rows")
        /\ toFail[r] = {}
        /\ ClosingGoto(r, "idle")
        /\ UNCHANGED <<status, table, toFail, cancelled>>
  /\ UNCHANGED <<rowId, expired, currentPods, conn, workerVars, owed,
                 creatorVars, canceller, onRunner, sends, drained,
                 budgetVars>>

\* A backend process dies: streams, goroutines and requests are gone, the
\* database stays.  It restarts with empty memory.
Crash(r) ==
  /\ crashes < MaxCrashes
  /\ crashes' = crashes + 1
  /\ conn' = [conn EXCEPT ![r] = FALSE]
  /\ worker' = [w \in Workers |-> IF w[2] = r THEN "idle" ELSE worker[w]]
  /\ batch' = [w \in Workers |-> IF w[2] = r THEN {} ELSE batch[w]]
  /\ cur' = [w \in Workers |-> IF w[2] = r THEN NoRow ELSE cur[w]]
  /\ closing' = [closing EXCEPT ![r] = "idle"]
  /\ toFail' = [toFail EXCEPT ![r] = {}]
  /\ owed' = [owed EXCEPT ![r] = 0]
  /\ creator' = [p \in Pods |->
                   IF home[p] = r /\ creator[p] \notin {"new", "done"}
                   THEN "dead" ELSE creator[p]]
  /\ UNCHANGED <<dbVars, request, home, local, canceller, onRunner, histVars,
                 disconnects>>

-----------------------------------------------------------------------------
PodStep(p) ==
  \/ CreatorStep(p) \/ EnqueueSendPrompt(p)
  \/ TerminatePod(p) \/ CancelPending(p) \/ TerminateQueued(p)
  \/ TerminateActive(p) \/ TerminateAborted(p)
  \/ HandlePodCreated(p) \/ HandlePodTerminated(p) \/ HandlePodError(p)

ReplicaStep(r) ==
  \/ DrainRunner(r) \/ SweepExpired(r) \/ DecrementPods(r)
  \/ RunnerConnects(r) \/ StreamLost(r) \/ ListPodsToFail(r)
  \/ FailInitializing(r) \/ FailQueued(r) \/ Crash(r)

Next ==
  \/ \E p \in Pods : PodStep(p)
  \/ \E w \in Workers : WorkerStep(w)
  \/ \E r \in Replicas : ReplicaStep(r)
  \/ \E x \in Rows : Expire(x)

Spec == Init /\ [][Next]_vars

\* Goroutines are scheduled, the sweeper's ticker fires and time passes.
\* Users, streams and the runner owe nothing.
Fairness ==
  /\ \A w \in Workers : WF_vars(WorkerStep(w))
  /\ \A r \in Replicas : WF_vars(SweepExpired(r))
  /\ \A x \in Rows : WF_vars(Expire(x))

FairSpec == Spec /\ Fairness

-----------------------------------------------------------------------------
(* Properties.                                                             *)

TypeOK ==
  /\ status \in [Pods -> Statuses \cup {NoRecord}]
  /\ table \subseteq Rows
  /\ rowId \in [Rows -> Nat]
  /\ expired \subseteq Rows
  /\ currentPods \in Nat
  /\ conn \in [Replicas -> BOOLEAN]
  /\ worker \in [Workers -> WorkerSteps]
  /\ batch \in [Workers -> SUBSET Rows]
  /\ cur \in [Workers -> Rows \cup {NoRow}]
  /\ closing \in [Replicas -> ClosingSteps]
  /\ toFail \in [Replicas -> SUBSET Pods]
  /\ owed \in [Replicas -> Nat]
  /\ creator \in [Pods -> CreatorSteps]
  /\ request \in [Pods -> RequestKinds]
  /\ home \in [Pods -> Replicas]
  /\ local \in [Pods -> {NoRecord, "queued", "initializing"}]
  /\ canceller \in [Pods -> CancellerSteps]
  /\ onRunner \in [Pods -> RunnerSteps]
  /\ sends \in [Rows -> Nat]
  /\ drained \subseteq Pods
  /\ cancelled \subseteq Pods
  /\ crashes \in 0 .. MaxCrashes
  /\ disconnects \in 0 .. MaxDisconnects

\* However many replicas drain the table, crash, retry after a failed send or
\* race with cancels and expiry, create_pod goes out at most once per pod:
\* the claim in dispatchCreatePod is what makes a replayed row harmless.
NoDoubleDispatch == \A p \in Pods : sends[CreateRow(p)] <= 1

\* "exactly one transition wins": a pod that a cancel, the expiry of its row
\* or the loss of the runner's stream took out of the queue is never created
\* by a drainer, before or after.
CancelOrDispatch == drained \cap cancelled = {}

\* The counter a drainer reads before it claims may be stale, but the
\* reservation itself never overshoots what the runner accepts, and the
\* table never outgrows the limit checked inside the insert's transaction.
WithinLimits ==
  /\ currentPods <= MaxConcurrentPods
  /\ Cardinality(table) <= MaxPerRunner

\* A command leaves the table: sent, dropped or expired.
EveryRowLeaves == \A x \in Rows : x \in table ~> x \notin table

\* Statements of the documentation that the code does not keep.

\* "rows are deleted only after a successful drain": once the request that
\* parked a pod is over, its unexpired row goes away only after the command
\* was sent or the pod had finished.
DeletedAfterDrain ==
  [][\A p \in Pods :
       LET x == CreateRow(p) IN
       (x \in table \ table' /\ creator[p] = "done" /\ x \notin expired)
         => sends[x] > 0 \/ status[p] \in FinishedStatuses]_vars

\* A queued pod waits in the table, or some process is still busy with it.
QueuedIsParked ==
  \A p \in Pods : status[p] = "queued" =>
    \/ CreateRow(p) \in table
    \/ creator[p] \notin {"done", "dead"}
    \/ canceller[p] # "idle"
    \/ \E w \in Workers : CreateRow(p) \in batch[w]
    \/ \E r \in Replicas : p \in toFail[r]

\* Where one replica drains, rows go out in id order: a prompt parked behind a
\* pod's create_pod is not sent while a drainer has yet to send that create_pod,
\* whatever is cancelled, expires or crashes.  (With two replicas it may be.)
SentInRowOrder ==
  \A p \in Pods, w \in Workers :
    LET c == CreateRow(p)
        m == PromptRow(p)
    IN ~ /\ 0 < rowId[c] /\ rowId[c] < rowId[m] /\ c \notin expired
         /\ sends[m] > 0
         /\ cur[w] = c /\ WorkerAt(w, "send") /\ StreamOf(w)

-----------------------------------------------------------------------------
(* Why the claim is enough: an inductive invariant.                        *)

\* Creator steps before the command went anywhere.
Undecided == {"new", "deferred", "check", "increment", "send", "undo",
              "enqueue"}

Parked(p) == rowId[CreateRow(p)] # 0

\* A worker that won the claim of p and has not given it back or sent.
Holds(w, p) ==
  /\ cur[w] = CreateRow(p)
  /\ worker[w] \in {"increment", "send", "undo", "revert"}

Held(p) == \E w \in Workers : Holds(w, p)

\* Rows in the table or in a worker's hands have been inserted.
RowsHaveIds ==
  /\ \A x \in table : rowId[x] # 0
  /\ \A w \in Workers : \A x \in batch[w] : rowId[x] # 0
  /\ \A w \in Workers : cur[w] # NoRow => rowId[cur[w]] # 0

\* What a worker is handling fits the step it is at.
CurFitsStep ==
  \A w \in Workers :
    /\ worker[w] \in {"capacity", "claim", "increment", "send", "undo",
                      "revert", "expire_mark"}
         => \E p \in Pods : cur[w] = CreateRow(p)
    /\ worker[w] \in {"prompt", "prompt_send"}
         => \E p \in Pods : cur[w] = PromptRow(p)
    /\ worker[w] \in {"delete", "expire_delete"} => cur[w] \in Rows

\* Until its creator decides, a pod has no row and was not sent; a creator
\* that will still overwrite the status with queued has nobody to disturb.
CreatorExclusive ==
  \A p \in Pods :
    /\ creator[p] = "new" => status[p] = NoRecord /\ p \notin cancelled
    /\ creator[p] \in Undecided => ~Parked(p) /\ sends[CreateRow(p)] = 0
    /\ creator[p] = "align_initializing" => ~Parked(p)
    /\ (creator[p] \in Undecided \cup {"align_queued"}
        /\ local[p] = "initializing")
         => status[p] # "queued" /\ p \notin cancelled
    /\ (creator[p] = "align_queued" /\ local[p] = "initializing")
         => sends[CreateRow(p)] = 0 /\ ~Held(p)
    /\ creator[p] # "new" => local[p] # NoRecord

\* One worker at a time holds a pod, and holding excludes everybody else.
ClaimExclusive ==
  /\ \A p \in Pods : Held(p) =>
       /\ status[p] # "queued"
       /\ sends[CreateRow(p)] = 0
       /\ p \notin cancelled
  /\ \A p \in Pods : \A v, w \in Workers :
       Holds(v, p) /\ Holds(w, p) => v = w

\* A decided pod never becomes claimable again.
DecidedStays ==
  \A p \in Pods :
    /\ Parked(p) /\ sends[CreateRow(p)] # 0 => status[p] # "queued"
    /\ p \in cancelled => status[p] # "queued"
    /\ p \in drained =>
         p \notin cancelled /\ Parked(p) /\ sends[CreateRow(p)] # 0
    /\ onRunner[p] # "unknown" => sends[CreateRow(p)] # 0

DispatchInv ==
  /\ TypeOK /\ RowsHaveIds /\ CurFitsStep /\ CreatorExclusive
  /\ ClaimExclusive /\ DecidedStays /\ NoDoubleDispatch

=============================================================================
