------------------------- MODULE PodDispatch_proofs -------------------------
(***************************************************************************)
(* Proofs about PodDispatch for any pods, replicas and limits; the order   *)
(* of the rows, at the end, is that of a single replica.                   *)
(***************************************************************************)
EXTENDS PodDispatch, FiniteSetTheorems, TLAPS

\* Pods are not strings, sequences or sets the model uses for something else:
\* all the proofs need is that a row is not the placeholder NoRow.
LEMMA RowFacts ==
  /\ NoRow \notin Rows
  /\ \A p \in Pods : CreateRow(p) \in Rows /\ PromptRow(p) \in Rows
  /\ \A p, q \in Pods : CreateRow(p) = CreateRow(q) => p = q
  /\ \A p, q \in Pods : CreateRow(p) # PromptRow(q)
  /\ \A x \in Rows : \E p \in Pods :
        x = CreateRow(p) \/ x = PromptRow(p)
  /\ \A p \in Pods : CreateRow(p)[1] = "create_pod" /\ CreateRow(p)[2] = p
  /\ \A p \in Pods : PromptRow(p)[1] = "send_prompt" /\ PromptRow(p)[2] = p
<1>1. NoRow \notin Rows
  BY DEF NoRow, Rows
<1>2. \A p \in Pods : CreateRow(p) \in Rows /\ PromptRow(p) \in Rows
  BY DEF CreateRow, PromptRow, Rows
<1>3. \A p, q \in Pods : CreateRow(p) = CreateRow(q) => p = q
  BY DEF CreateRow
<1>4. \A p, q \in Pods : CreateRow(p) # PromptRow(q)
  BY DEF CreateRow, PromptRow
<1>5. \A x \in Rows : \E p \in Pods : x = CreateRow(p) \/ x = PromptRow(p)
  BY DEF CreateRow, PromptRow, Rows
<1>6. \A p \in Pods : CreateRow(p)[1] = "create_pod" /\ CreateRow(p)[2] = p
  BY DEF CreateRow
<1>7. \A p \in Pods : PromptRow(p)[1] = "send_prompt" /\ PromptRow(p)[2] = p
  BY DEF PromptRow
<1> QED BY <1>1, <1>2, <1>3, <1>4, <1>5, <1>6, <1>7

LEMMA RowsFinite == IsFiniteSet(Rows)
<1>1. IsFiniteSet({"create_pod"})
  BY FS_Singleton
<1>2. IsFiniteSet({"create_pod"} \cup {"send_prompt"})
  BY <1>1, FS_AddElement
<1>3. {"create_pod"} \cup {"send_prompt"} = {"create_pod", "send_prompt"}
  OBVIOUS
<1>4. IsFiniteSet({"create_pod", "send_prompt"})
  BY <1>2, <1>3
<1> QED
  BY <1>4, FS_Product, DispatchAssumption DEF Rows, DispatchAssumption

\* Inserting a row gives it an id above 0 and changes no other row's id.
LEMMA InsertFacts ==
  ASSUME TypeOK, NEW x \in Rows, Insert(x)
  PROVE  /\ table' \subseteq Rows /\ table' = table \cup {x}
         /\ rowId' \in [Rows -> Nat] /\ rowId'[x] # 0
         /\ \A y \in Rows : y # x => rowId'[y] = rowId[y]
<1> DEFINE used == {y \in Rows : rowId[y] # 0}
<1>1. Cardinality(used) \in Nat
  BY RowsFinite, FS_Subset, FS_CardinalityType
<1> QED
  BY <1>1 DEF Insert, TypeOK

\* A worker about to send a prompt has a prompt row in hand.
LEMMA PromptInHand ==
  ASSUME CurFitsStep, NEW w \in Workers,
         worker[w] \in {"prompt", "prompt_send"}
  PROVE  cur[w] \in Rows
<1>1. PICK p \in Pods : cur[w] = PromptRow(p)
  BY DEF CurFitsStep
<1>2. PromptRow(p) \in Rows
  BY RowFacts
<1> QED
  BY <1>1, <1>2

LEMMA InitTypeOK == Init => TypeOK
<1> SUFFICES ASSUME Init PROVE TypeOK
  OBVIOUS
<1> USE DEF Init
<1>1. status \in [Pods -> Statuses \cup {NoRecord}]
  BY DEF Statuses
<1>2. worker \in [Workers -> WorkerSteps]
  BY DEF WorkerSteps
<1>3. closing \in [Replicas -> ClosingSteps]
  BY DEF ClosingSteps
<1>4. creator \in [Pods -> CreatorSteps]
  BY DEF CreatorSteps
<1>5. request \in [Pods -> RequestKinds]
  BY DispatchAssumption DEF DispatchAssumption
<1>6. canceller \in [Pods -> CancellerSteps]
  BY DEF CancellerSteps
<1>7. onRunner \in [Pods -> RunnerSteps]
  BY DEF RunnerSteps
<1>8. cur \in [Workers -> Rows \cup {NoRow}]
  OBVIOUS
<1>9. crashes \in 0 .. MaxCrashes /\ disconnects \in 0 .. MaxDisconnects
  BY DispatchAssumption DEF DispatchAssumption
<1> QED
  BY <1>1, <1>2, <1>3, <1>4, <1>5, <1>6, <1>7, <1>8, <1>9 DEF TypeOK

LEMMA CreatorTypeOK ==
  ASSUME TypeOK, NEW p \in Pods, CreatorStep(p)
  PROVE  TypeOK'
<1> USE DEF TypeOK, CreatorAt, CreatorGoto, CompareAndSet, dbVars, workerVars,
            closeVars, creatorVars, histVars, budgetVars
<1>1. CASE InsertPod(p)
  BY <1>1 DEF InsertPod, InitialPodStatus, CreatorSteps, Statuses,
     ActiveStatuses
<1>2. CASE DispatchDeferredPod(p)
  BY <1>2 DEF DispatchDeferredPod, CreatorSteps, Statuses, ActiveStatuses
<1>3. CASE CreatePodOrQueue(p)
  BY <1>3 DEF CreatePodOrQueue, CreatorSteps
<1>4. CASE CreatorIncrementPods(p)
  BY <1>4 DEF CreatorIncrementPods, CreatorSteps
<1>5. CASE CreatorSend(p)
  <2>1. CreateRow(p) \in Rows
    BY RowFacts
  <2>2. sends' \in [Rows -> Nat]
    BY <1>5, <2>1 DEF CreatorSend
  <2>3. onRunner' \in [Pods -> RunnerSteps]
    BY <1>5 DEF CreatorSend, Delivered, RunnerSteps
  <2>4. creator' \in [Pods -> CreatorSteps]
    BY <1>5 DEF CreatorSend, CreatorSteps
  <2> QED
    BY <1>5, <2>2, <2>3, <2>4 DEF CreatorSend
<1>6. CASE CreatorDecrementPods(p)
  BY <1>6 DEF CreatorDecrementPods, Decremented, CreatorSteps
<1>7. CASE EnqueueCreatePod(p)
  <2>1. CreateRow(p) \in Rows
    BY RowFacts
  <2>2. table' \subseteq Rows /\ rowId' \in [Rows -> Nat]
    <3>1. CASE Insert(CreateRow(p))
      BY <2>1, <3>1, InsertFacts
    <3>2. CASE UNCHANGED <<table, rowId>>
      BY <3>2
    <3> QED
      BY <1>7, <3>1, <3>2 DEF EnqueueCreatePod
  <2> QED
    BY <1>7, <2>2 DEF EnqueueCreatePod, CreatorSteps
<1>8. CASE AlignInitializing(p) \/ AlignQueued(p)
  BY <1>8, SMTT(40) DEF AlignInitializing, AlignQueued, Align, CreatorSteps,
     Statuses,
     ActiveStatuses
<1>9. CASE MarkDispatchFailed(p)
  BY <1>9, SMTT(40) DEF MarkDispatchFailed, MarkFailed, CreatorSteps, Statuses,
     FinishedStatuses
<1> QED
  BY <1>1, <1>2, <1>3, <1>4, <1>5, <1>6, <1>7, <1>8, <1>9 DEF CreatorStep

LEMMA ReleaseTypeOK ==
  ASSUME TypeOK, NEW p \in Pods, NEW from, NEW to \in Statuses,
         NEW r \in Replicas,
         Release(p, from, to, r)
  PROVE  status' \in [Pods -> Statuses \cup {NoRecord}]
         /\ owed' \in [Replicas -> Nat]
<1>1. CASE status[p] \in from
  BY <1>1 DEF TypeOK, Release, CompareAndSet
<1>2. CASE status[p] \notin from
  BY <1>2 DEF TypeOK, Release, CompareAndSet
<1> QED
  BY <1>1, <1>2

LEMMA PodTypeOK ==
  ASSUME TypeOK, NEW p \in Pods, PodStep(p)
  PROVE  TypeOK'
<1> USE DEF TypeOK, CompareAndSet, dbVars, workerVars, closeVars, creatorVars,
            histVars, budgetVars
<1>1. CASE CreatorStep(p)
  BY <1>1, CreatorTypeOK
<1>2. CASE EnqueueSendPrompt(p)
  <2>1. PromptRow(p) \in Rows
    BY RowFacts
  <2>2. table' \subseteq Rows /\ rowId' \in [Rows -> Nat]
    BY <1>2, <2>1, InsertFacts DEF EnqueueSendPrompt
  <2> QED
    BY <1>2, <2>2 DEF EnqueueSendPrompt
<1>3. CASE TerminatePod(p)
  BY <1>3 DEF TerminatePod, CancellerGoto, CancellerSteps
<1>4. CASE CancelPending(p)
  BY <1>4 DEF CancelPending, CancellerGoto, CancellerSteps
<1>5. CASE TerminateQueued(p)
  BY <1>5 DEF TerminateQueued, TakeOutOfQueue, CancellerGoto,
     CancellerSteps, Statuses, FinishedStatuses
<1>6. CASE TerminateActive(p)
  BY <1>6 DEF TerminateActive, Release, CancellerGoto, CancellerSteps,
     Statuses, FinishedStatuses
<1>7. CASE TerminateAborted(p)
  BY <1>7 DEF TerminateAborted, CancellerGoto, CancellerSteps
<1>8. CASE HandlePodCreated(p)
  BY <1>8 DEF HandlePodCreated, RunnerGoto, RunnerSteps, Statuses,
     ActiveStatuses
<1>9. CASE HandlePodTerminated(p)
  BY <1>9 DEF HandlePodTerminated, Release, RunnerGoto, RunnerSteps, Statuses,
     FinishedStatuses
<1>10. CASE HandlePodError(p)
  <2>1. "error" \in Statuses
    BY DEF Statuses, FinishedStatuses
  <2>2. status' \in [Pods -> Statuses \cup {NoRecord}]
        /\ owed' \in [Replicas -> Nat]
    BY <1>10, <2>1, ReleaseTypeOK DEF HandlePodError
  <2>3. onRunner' \in [Pods -> RunnerSteps]
    BY <1>10 DEF HandlePodError, RunnerGoto, RunnerSteps
  <2> QED
    BY <1>10, <2>2, <2>3 DEF HandlePodError
<1> QED
  BY <1>1, <1>2, <1>3, <1>4, <1>5, <1>6, <1>7, <1>8, <1>9, <1>10 DEF PodStep

LEMMA WorkerTypeOK ==
  ASSUME TypeOK, CurFitsStep, NEW w \in Workers, WorkerStep(w)
  PROVE  TypeOK'
<1> USE DEF TypeOK, CompareAndSet, WorkerAt, WorkerGoto, dbVars, closeVars,
            creatorVars, histVars, budgetVars
<1>1. CASE ListBatch(w)
  BY <1>1 DEF ListBatch, ListByRunnerFIFO, WorkerStop, WorkerSteps
<1>2. CASE EndBatch(w)
  BY <1>2, SMTT(40) DEF EndBatch, WorkerStop, WorkerSteps
<1>3. CASE TakeRow(w)
  BY <1>3, SMTT(40) DEF TakeRow, WorkerStop, WorkerSteps
<1>4. CASE ReadCapacity(w)
  BY <1>4 DEF ReadCapacity, WorkerStop, WorkerSteps
<1>5. CASE Claim(w)
  BY <1>5 DEF Claim, WorkerSteps, Statuses, ActiveStatuses
<1>6. CASE DrainerIncrementPods(w)
  BY <1>6 DEF DrainerIncrementPods, WorkerSteps
<1>7. CASE DrainerSend(w)
  <2>1. PICK p \in Pods : cur[w] = CreateRow(p)
    BY <1>7 DEF DrainerSend, CurFitsStep
  <2>2. cur[w] \in Rows /\ PodOf(w) = p
    BY <2>1, RowFacts DEF PodOf
  <2> QED
    BY <1>7, <2>2 DEF DrainerSend, Delivered, WorkerSteps, RunnerSteps
<1>8. CASE DrainerDecrementPods(w)
  BY <1>8 DEF DrainerDecrementPods, Decremented, WorkerSteps
<1>9. CASE RevertClaim(w)
  BY <1>9 DEF RevertClaim, WorkerStop, WorkerSteps, Statuses, ActiveStatuses
<1>10. CASE ReadPromptPod(w)
  BY <1>10 DEF ReadPromptPod, WorkerSteps
<1>11. CASE SendPrompt(w)
  <2>1. cur[w] \in Rows
    BY <1>11, PromptInHand DEF SendPrompt
  <2> QED
    BY <1>11, <2>1 DEF SendPrompt, WorkerStop, WorkerSteps
<1>12. CASE DeleteRow(w)
  BY <1>12 DEF DeleteRow, WorkerNextRow, WorkerSteps
<1>13. CASE ExpireDelete(w)
  BY <1>13, SMTT(40) DEF ExpireDelete, WorkerNextRow, WorkerSteps
<1>14. CASE MarkQueueExpired(w)
  <2>1. PICK p \in Pods : PodOf(w) = p
    BY <1>14, RowFacts DEF MarkQueueExpired, CurFitsStep, PodOf
  <2> QED
    BY <1>14, <2>1 DEF MarkQueueExpired, TakeOutOfQueue, WorkerNextRow,
       WorkerSteps, Statuses, FinishedStatuses
<1> QED
  BY <1>1, <1>2, <1>3, <1>4, <1>5, <1>6, <1>7, <1>8, <1>9, <1>10, <1>11,
     <1>12, <1>13, <1>14 DEF WorkerStep

LEMMA AnyOfIsMember == \A S : S # {} => AnyOf(S) \in S
  BY DEF AnyOf

LEMMA ReplicaTypeOK ==
  ASSUME TypeOK, NEW r \in Replicas, ReplicaStep(r)
  PROVE  TypeOK'
<1> USE DEF TypeOK, CompareAndSet, dbVars, workerVars, closeVars, creatorVars,
            histVars, budgetVars
<1>0. Drainer(r) \in Workers /\ Sweeper(r) \in Workers
  BY DEF Drainer, Sweeper, Workers
<1>1. CASE DrainRunner(r)
  BY <1>0, <1>1 DEF DrainRunner, WorkerGoto, WorkerSteps
<1>2. CASE SweepExpired(r)
  BY <1>0, <1>2 DEF SweepExpired, WorkerGoto, WorkerSteps
<1>3. CASE DecrementPods(r)
  BY <1>3 DEF DecrementPods, Decremented
<1>4. CASE RunnerConnects(r)
  BY <1>4 DEF RunnerConnects
<1>5. CASE StreamLost(r)
  BY <1>5, DispatchAssumption DEF StreamLost, ClosingGoto, ClosingSteps,
     DispatchAssumption
<1>6. CASE ListPodsToFail(r)
  BY <1>6 DEF ListPodsToFail, PodsWith, ClosingGoto, ClosingSteps
<1>7. CASE FailInitializing(r)
  <2>1. "error" \in Statuses
    BY DEF Statuses, FinishedStatuses
  <2>2. status' \in [Pods -> Statuses \cup {NoRecord}]
        /\ owed' \in [Replicas -> Nat]
    BY <1>7, <2>1, ReleaseTypeOK DEF FailInitializing
  <2>3. closing' \in [Replicas -> ClosingSteps]
        /\ toFail' \in [Replicas -> SUBSET Pods]
    BY <1>7 DEF FailInitializing, ClosingGoto, ClosingSteps
  <2> QED
    BY <1>7, <2>2, <2>3 DEF FailInitializing
<1>8. CASE FailQueued(r)
  <2>1. toFail[r] # {} => AnyOf(toFail[r]) \in Pods
    BY AnyOfIsMember
  <2>2. status' \in [Pods -> Statuses \cup {NoRecord}]
        /\ cancelled' \subseteq Pods
    BY <1>8, <2>1 DEF FailQueued, TakeOutOfQueue, Statuses, FinishedStatuses
  <2>3. table' \subseteq Rows /\ toFail' \in [Replicas -> SUBSET Pods]
        /\ closing' \in [Replicas -> ClosingSteps]
    BY <1>8 DEF FailQueued, ClosingGoto, ClosingSteps
  <2> QED
    BY <1>8, <2>2, <2>3 DEF FailQueued
<1>9. CASE Crash(r)
  BY <1>9, DispatchAssumption DEF Crash, WorkerSteps, ClosingSteps,
     CreatorSteps, DispatchAssumption
<1> QED
  BY <1>1, <1>2, <1>3, <1>4, <1>5, <1>6, <1>7, <1>8, <1>9 DEF ReplicaStep

-----------------------------------------------------------------------------
(* Bookkeeping: rows in hand have ids, and fit the step.                   *)

\* No step but an insert adds to the table or touches an id.
LEMMA InsertKeepsBooks ==
  ASSUME TypeOK, RowsHaveIds, CurFitsStep, NEW x \in Rows, Insert(x),
         UNCHANGED workerVars
  PROVE  RowsHaveIds' /\ CurFitsStep'
<1>1. /\ table' = table \cup {x}
      /\ rowId'[x] # 0
      /\ \A y \in Rows : y # x => rowId'[y] = rowId[y]
  BY InsertFacts
<1>2. RowsHaveIds'
  BY <1>1 DEF RowsHaveIds, TypeOK, workerVars
<1>3. CurFitsStep'
  BY DEF CurFitsStep, workerVars
<1> QED
  BY <1>2, <1>3

\* A step that leaves the workers alone and inserts nothing.
LEMMA IdleKeepsBooks ==
  ASSUME RowsHaveIds, CurFitsStep, table' \subseteq table,
         UNCHANGED <<rowId, workerVars>>
  PROVE  RowsHaveIds' /\ CurFitsStep'
  BY DEF RowsHaveIds, CurFitsStep, workerVars

LEMMA WorkerKeepsBooks ==
  ASSUME TypeOK, RowsHaveIds, CurFitsStep, NEW w \in Workers, WorkerStep(w)
  PROVE  RowsHaveIds' /\ CurFitsStep'
<1> USE DEF TypeOK, WorkerAt, WorkerGoto, dbVars
<1>1. CASE ListBatch(w)
  BY <1>1, SMTT(40) DEF ListBatch, ListByRunnerFIFO, WorkerStop, RowsHaveIds,
     CurFitsStep
<1>2. CASE EndBatch(w)
  BY <1>2, SMTT(40) DEF EndBatch, WorkerStop, RowsHaveIds, CurFitsStep
<1>3. CASE TakeRow(w)
  <2>1. PICK x \in batch[w] :
          \/ /\ WorkerGoto(w, "expire_delete")
             /\ cur' = [cur EXCEPT ![w] = x]
             /\ UNCHANGED batch
          \/ /\ WorkerGoto(w, IF x[1] = "create_pod" THEN "capacity"
                                                     ELSE "prompt")
             /\ cur' = [cur EXCEPT ![w] = x]
             /\ UNCHANGED batch
          \/ WorkerStop(w)
    BY <1>3 DEF TakeRow
  <2>2. x \in Rows /\ rowId[x] # 0 /\ UNCHANGED <<table, rowId>>
    BY <1>3 DEF TakeRow, RowsHaveIds
  <2>3. PICK p \in Pods : \/ x = CreateRow(p) /\ x[1] = "create_pod"
                          \/ x = PromptRow(p) /\ x[1] = "send_prompt"
    BY <2>2, RowFacts
  <2>4. CASE WorkerStop(w)
    BY <2>2, <2>4 DEF WorkerStop, RowsHaveIds, CurFitsStep
  <2>5. CASE WorkerGoto(w, "expire_delete")
             /\ cur' = [cur EXCEPT ![w] = x] /\ UNCHANGED batch
    BY <2>2, <2>5 DEF RowsHaveIds, CurFitsStep
  <2>6. CASE /\ WorkerGoto(w, IF x[1] = "create_pod" THEN "capacity"
                                                     ELSE "prompt")
             /\ cur' = [cur EXCEPT ![w] = x] /\ UNCHANGED batch
    <3>1. RowsHaveIds'
      BY <2>2, <2>6 DEF RowsHaveIds
    <3>2. CurFitsStep'
      BY <2>2, <2>3, <2>6 DEF CurFitsStep
    <3> QED
      BY <3>1, <3>2
  <2> QED
    BY <2>1, <2>4, <2>5, <2>6
<1>4. CASE ReadCapacity(w)
  BY <1>4 DEF ReadCapacity, WorkerStop, RowsHaveIds, CurFitsStep
<1>5. CASE Claim(w)
  BY <1>5, RowFacts DEF Claim, RowsHaveIds, CurFitsStep
<1>6. CASE DrainerIncrementPods(w)
  BY <1>6 DEF DrainerIncrementPods, RowsHaveIds, CurFitsStep
<1>7. CASE DrainerSend(w)
  BY <1>7, RowFacts DEF DrainerSend, RowsHaveIds, CurFitsStep
<1>8. CASE DrainerDecrementPods(w)
  BY <1>8 DEF DrainerDecrementPods, RowsHaveIds, CurFitsStep
<1>9. CASE RevertClaim(w)
  BY <1>9 DEF RevertClaim, WorkerStop, RowsHaveIds, CurFitsStep
<1>10. CASE ReadPromptPod(w)
  BY <1>10, RowFacts DEF ReadPromptPod, RowsHaveIds, CurFitsStep
<1>11. CASE SendPrompt(w)
  <2>1. cur[w] \in Rows
    BY <1>11, PromptInHand DEF SendPrompt
  <2>2. CASE WorkerStop(w)
    BY <1>11, <2>2 DEF SendPrompt, WorkerStop, RowsHaveIds, CurFitsStep
  <2>3. CASE WorkerGoto(w, "delete") /\ UNCHANGED <<batch, cur>>
    BY <1>11, <2>1, <2>3 DEF SendPrompt, RowsHaveIds, CurFitsStep
  <2> QED
    BY <1>11, <2>2, <2>3 DEF SendPrompt
<1>12. CASE DeleteRow(w)
  BY <1>12 DEF DeleteRow, WorkerNextRow, RowsHaveIds, CurFitsStep
<1>13. CASE ExpireDelete(w)
  <2>1. PICK p \in Pods : \/ cur[w] = CreateRow(p)
                          \/ cur[w] = PromptRow(p) /\ cur[w][1] = "send_prompt"
    BY <1>13, RowFacts DEF ExpireDelete, CurFitsStep
  <2> QED
    BY <1>13, <2>1, SMTT(40) DEF ExpireDelete, WorkerNextRow, RowsHaveIds,
       CurFitsStep
<1>14. CASE MarkQueueExpired(w)
  BY <1>14 DEF MarkQueueExpired, WorkerNextRow, RowsHaveIds, CurFitsStep
<1> QED
  BY <1>1, <1>2, <1>3, <1>4, <1>5, <1>6, <1>7, <1>8, <1>9, <1>10, <1>11,
     <1>12, <1>13, <1>14 DEF WorkerStep

-----------------------------------------------------------------------------
(* Steps that decide nothing.                                              *)

\* A pod is given up only by the step that takes it out of the queue.
CancelledFromQueue(p) ==
  p \in cancelled' \ cancelled => status[p] = "queued" /\ status'[p] # "queued"

\* A step is quiet when it makes no pod claimable, sends nothing, cancels only
\* out of the queue and moves no creator back.
Quiet ==
  /\ \A p \in Pods :
       /\ status'[p] = "queued" => status[p] = "queued"
       /\ creator[p] = "new" => status'[p] = status[p]
       /\ sends'[CreateRow(p)] = sends[CreateRow(p)]
       /\ rowId'[CreateRow(p)] = rowId[CreateRow(p)]
       /\ onRunner'[p] # "unknown" => onRunner[p] # "unknown"
       /\ creator'[p] \in Undecided => creator[p] \in Undecided
       /\ creator'[p] = "new" <=> creator[p] = "new"
       /\ creator'[p] = "align_queued" => creator[p] = "align_queued"
       /\ creator'[p] = "align_initializing"
            => creator[p] = "align_initializing"
       /\ \A w \in Workers : Holds(w, p)' => Holds(w, p)
       /\ CancelledFromQueue(p)
  /\ UNCHANGED <<local, drained>>

LEMMA QuietStep ==
  ASSUME DispatchInv, TypeOK', RowsHaveIds', CurFitsStep', Quiet
  PROVE  DispatchInv'
<1> USE DEF DispatchInv, Quiet, CancelledFromQueue
<1>1. \A p \in Pods : Held(p)' => Held(p)
  BY DEF Held
<1>2. CreatorExclusive'
  BY <1>1 DEF CreatorExclusive, Parked
<1>3. ClaimExclusive'
  BY <1>1 DEF ClaimExclusive
<1>4. DecidedStays'
  BY DEF DecidedStays, Parked
<1>5. NoDoubleDispatch'
  BY DEF NoDoubleDispatch
<1> QED
  BY <1>2, <1>3, <1>4, <1>5

\* A pod the runner was told about has a creator past its decision.
LEMMA ReportedIsNotNew ==
  ASSUME DispatchInv, NEW p \in Pods, onRunner[p] # "unknown"
  PROVE  creator[p] # "new"
  BY DEF DispatchInv, DecidedStays, CreatorExclusive, Undecided

\* A compare-and-set never moves a pod that has no record.
LEMMA CasIsQuiet ==
  ASSUME DispatchInv, NEW p \in Pods, NEW from, NEW to,
         CompareAndSet(p, from, to), to # "queued", NoRecord \notin from
  PROVE  \A q \in Pods : /\ status'[q] = "queued" => status[q] = "queued"
                         /\ creator[q] = "new" => status'[q] = status[q]
<1>1. CASE status[p] \in from
  BY <1>1 DEF CompareAndSet, DispatchInv, TypeOK, CreatorExclusive
<1>2. CASE status[p] \notin from
  BY <1>2 DEF CompareAndSet
<1> QED
  BY <1>1, <1>2

\* Nor does giving a parked pod up.
LEMMA TakeIsQuiet ==
  ASSUME DispatchInv, NEW p \in Pods, NEW to, to # "queued",
         TakeOutOfQueue(p, to)
  PROVE  \A q \in Pods : /\ status'[q] = "queued" => status[q] = "queued"
                         /\ creator[q] = "new" => status'[q] = status[q]
                         /\ CancelledFromQueue(q)
<1>1. \A q \in Pods : /\ status'[q] = "queued" => status[q] = "queued"
                      /\ creator[q] = "new" => status'[q] = status[q]
  BY CasIsQuiet DEF TakeOutOfQueue, NoRecord
<1>2. ASSUME NEW q \in Pods
      PROVE  CancelledFromQueue(q)
  BY DEF TakeOutOfQueue, CompareAndSet, CancelledFromQueue, DispatchInv,
     TypeOK
<1> QED
  BY <1>1, <1>2

LEMMA NoRecordIsNoStatus == NoRecord \notin Statuses /\ "queued" # NoRecord
  BY DEF NoRecord, Statuses, ActiveStatuses, FinishedStatuses

-----------------------------------------------------------------------------
(* Every step preserves the invariant: the request that creates a pod.     *)

LEMMA UnparkedNotHeld ==
  ASSUME DispatchInv, NEW p \in Pods, ~Parked(p)
  PROVE  ~Held(p)
<1>1. CreateRow(p) # NoRow
  BY RowFacts
<1> QED
  BY <1>1 DEF Held, Holds, Parked, DispatchInv, RowsHaveIds

LEMMA CreatorPreserves ==
  ASSUME DispatchInv, NEW p \in Pods, CreatorStep(p)
  PROVE  DispatchInv'
<1>0. TypeOK /\ TypeOK'
  BY CreatorTypeOK DEF DispatchInv
<1>a. CreateRow(p) \in Rows
      /\ \A q \in Pods : q # p => CreateRow(q) # CreateRow(p)
  BY RowFacts
<1>b. CASE UNCHANGED <<table, rowId, workerVars>> /\ ~EnqueueCreatePod(p)
  <2>1. RowsHaveIds' /\ CurFitsStep'
    BY <1>b, IdleKeepsBooks DEF DispatchInv
  <2>2. \A q \in Pods : \A w \in Workers : Holds(w, q)' <=> Holds(w, q)
    BY <1>b DEF Holds, workerVars
  <2>3. \A q \in Pods : Held(q)' <=> Held(q)
    BY <2>2 DEF Held
  <2> USE <1>0, <2>1, <2>2, <2>3
  <2>4. CASE CreatePodOrQueue(p)
    <3>1. Quiet
      BY <1>b, <2>4 DEF CreatePodOrQueue, CreatorAt, CreatorGoto, Quiet,
         CancelledFromQueue, Undecided, TypeOK, dbVars, histVars
    <3> QED
      BY <3>1, QuietStep
  <2>5. CASE CreatorIncrementPods(p)
    <3>1. Quiet
      BY <1>b, <2>5 DEF CreatorIncrementPods, CreatorAt, CreatorGoto, Quiet,
         CancelledFromQueue, Undecided, TypeOK, histVars
    <3> QED
      BY <3>1, QuietStep
  <2>6. CASE CreatorDecrementPods(p)
    <3>1. Quiet
      BY <1>b, <2>6 DEF CreatorDecrementPods, CreatorAt, CreatorGoto, Quiet,
         CancelledFromQueue, Undecided, TypeOK, histVars
    <3> QED
      BY <3>1, QuietStep
  <2>7. CASE MarkDispatchFailed(p)
    <3>1. PICK from \in {"initializing", "queued"} :
            CompareAndSet(p, {from}, "error")
      BY <2>7 DEF MarkDispatchFailed, MarkFailed
    <3>2. NoRecord \notin {from}
      BY DEF NoRecord
    <3>3. \A q \in Pods : /\ status'[q] = "queued" => status[q] = "queued"
                          /\ creator[q] = "new" => status'[q] = status[q]
      BY <3>1, <3>2, CasIsQuiet
    <3>4. Quiet
      BY <1>b, <2>7, <3>3 DEF MarkDispatchFailed, MarkFailed, CreatorAt,
         CreatorGoto, Quiet, CancelledFromQueue, Undecided, TypeOK, histVars
    <3> QED
      BY <3>4, QuietStep
  <2>8. CASE InsertPod(p)
    <3> USE <2>8 DEF InsertPod, CreatorAt, CreatorGoto, DispatchInv, TypeOK,
            histVars, InitialPodStatus
    <3>1. sends[CreateRow(p)] = 0 /\ ~Parked(p) /\ p \notin cancelled
      BY DEF CreatorExclusive, Undecided
    <3>2. ~Held(p)
      BY <3>1, UnparkedNotHeld
    <3>3. CreatorExclusive'
      BY <3>1, <3>2, NoRecordIsNoStatus DEF CreatorExclusive, Undecided,
         Parked, NoRecord
    <3>4. ClaimExclusive'
      BY <3>2 DEF ClaimExclusive
    <3>5. DecidedStays'
      BY <3>1 DEF DecidedStays, Parked
    <3>6. NoDoubleDispatch'
      BY DEF NoDoubleDispatch
    <3> QED
      BY <3>3, <3>4, <3>5, <3>6
  <2>9. CASE DispatchDeferredPod(p)
    <3> USE <2>9 DEF DispatchDeferredPod, CompareAndSet, CreatorAt,
            CreatorGoto, DispatchInv, TypeOK, histVars
    <3>1. CreatorExclusive'
      BY DEF CreatorExclusive, Undecided, Parked, DecidedStays, NoRecord
    <3>2. ClaimExclusive'
      BY DEF ClaimExclusive
    <3>3. DecidedStays'
      BY DEF DecidedStays, Parked
    <3>4. NoDoubleDispatch'
      BY DEF NoDoubleDispatch
    <3> QED
      BY <3>1, <3>2, <3>3, <3>4
  <2>10. CASE CreatorSend(p)
    <3> USE <1>b, <2>10 DEF CreatorAt, CreatorGoto, DispatchInv
    <3>1. sends[CreateRow(p)] = 0 /\ ~Parked(p)
      BY DEF CreatorSend, CreatorExclusive, Undecided
    <3>2. ~Held(p)
      BY <3>1, UnparkedNotHeld
    <3>3. /\ UNCHANGED <<status, local, drained, cancelled>>
          /\ \A q \in Pods : q # p =>
               /\ sends'[CreateRow(q)] = sends[CreateRow(q)]
               /\ creator'[q] = creator[q]
               /\ onRunner'[q] = onRunner[q]
          /\ \/ /\ sends'[CreateRow(p)] = 1
                /\ creator'[p] = "align_initializing"
             \/ /\ sends'[CreateRow(p)] = 0
                /\ creator'[p] = "undo"
                /\ onRunner'[p] = onRunner[p]
      <4>1. UNCHANGED <<status, local, drained, cancelled>>
        BY DEF CreatorSend, dbVars
      <4>2. CASE /\ sends' = [sends EXCEPT ![CreateRow(p)] = @ + 1]
                 /\ Delivered(p) \/ UNCHANGED onRunner
                 /\ creator' = [creator EXCEPT ![p] = "align_initializing"]
        BY <1>a, <3>1, <4>1, <4>2, RowFacts DEF Delivered, TypeOK
      <4>3. CASE /\ creator' = [creator EXCEPT ![p] = "undo"]
                 /\ UNCHANGED <<sends, onRunner>>
        BY <3>1, <4>1, <4>3 DEF TypeOK
      <4> QED
        BY <4>2, <4>3 DEF CreatorSend
    <3>4. CreatorExclusive'
      BY <3>1, <3>2, <3>3 DEF CreatorExclusive, Undecided, Parked, CreatorSend
    <3>5. ClaimExclusive'
      BY <3>2, <3>3 DEF ClaimExclusive
    <3>6. DecidedStays'
      BY <3>1, <3>3 DEF DecidedStays, Parked
    <3>7. NoDoubleDispatch'
      BY <3>1, <3>3 DEF NoDoubleDispatch
    <3> QED
      BY <3>4, <3>5, <3>6, <3>7
  <2>11. CASE AlignInitializing(p) \/ AlignQueued(p)
    <3> USE <2>11 DEF AlignInitializing, AlignQueued, Align, CreatorAt,
            CreatorGoto, DispatchInv, TypeOK, histVars
    <3>1. CreatorExclusive'
      BY DEF CreatorExclusive, Undecided, Parked, NoRecord
    <3>2. ClaimExclusive'
      BY DEF ClaimExclusive, CreatorExclusive, NoRecord
    <3>3. DecidedStays'
      BY DEF DecidedStays, Parked, CreatorExclusive, NoRecord
    <3>4. NoDoubleDispatch'
      BY DEF NoDoubleDispatch
    <3> QED
      BY <3>1, <3>2, <3>3, <3>4
  <2> QED
    BY <1>b, <2>4, <2>5, <2>6, <2>7, <2>8, <2>9, <2>10, <2>11
    DEF CreatorStep
<1>c. CASE EnqueueCreatePod(p)
  <2>1. CASE Insert(CreateRow(p)) /\ CreatorGoto(p, "align_queued")
    <3> USE <1>c, <2>1 DEF EnqueueCreatePod, CreatorAt, CreatorGoto,
            DispatchInv, TypeOK, histVars
    <3>1. sends[CreateRow(p)] = 0 /\ ~Parked(p)
      BY DEF CreatorExclusive, Undecided
    <3>2. ~Held(p)
      BY <3>1, UnparkedNotHeld
    <3>3. \A q \in Pods : \A w \in Workers : Holds(w, q)' <=> Holds(w, q)
      BY DEF Holds, workerVars
    <3>4. \A q \in Pods : Held(q)' <=> Held(q)
      BY <3>3 DEF Held
    <3>5. \A q \in Pods : q # p => Parked(q)' = Parked(q)
      BY <1>0, <1>a, RowFacts, InsertFacts DEF Parked
    <3>6. RowsHaveIds' /\ CurFitsStep'
      BY <1>0, <1>a, InsertKeepsBooks
    <3>7. CreatorExclusive'
      BY <3>1, <3>2, <3>4, <3>5 DEF CreatorExclusive, Undecided
    <3>8. ClaimExclusive'
      BY <3>3, <3>4 DEF ClaimExclusive
    <3>9. DecidedStays'
      BY <3>1, <3>5 DEF DecidedStays
    <3>10. NoDoubleDispatch'
      BY DEF NoDoubleDispatch
    <3> QED
      BY <1>0, <3>6, <3>7, <3>8, <3>9, <3>10
  <2>2. CASE CreatorGoto(p, "fail_initializing") /\ UNCHANGED <<table, rowId>>
    <3>1. RowsHaveIds' /\ CurFitsStep'
      BY <1>c, <2>2, IdleKeepsBooks DEF DispatchInv, EnqueueCreatePod
    <3>2. Quiet
      BY <1>c, <2>2 DEF EnqueueCreatePod, CreatorAt, CreatorGoto, Quiet,
         CancelledFromQueue, Undecided, Holds, workerVars, histVars,
         DispatchInv, TypeOK
    <3> QED
      BY <1>0, <3>1, <3>2, QuietStep
  <2> QED
    BY <1>c, <2>1, <2>2 DEF EnqueueCreatePod
<1>e. CASE CreatorStep(p) /\ ~EnqueueCreatePod(p)
  <2>1. UNCHANGED <<table, rowId, workerVars>>
    BY <1>e DEF CreatorStep, InsertPod, DispatchDeferredPod,
       CreatePodOrQueue, CreatorIncrementPods, CreatorSend,
       CreatorDecrementPods, AlignInitializing, AlignQueued, Align,
       MarkDispatchFailed, MarkFailed, dbVars
  <2> QED
    BY <1>b, <1>e, <2>1
<1> QED
  BY <1>c, <1>e

-----------------------------------------------------------------------------
(* Prompts, TerminatePod and the runner's reports.                         *)

\* A step that moves only statuses away from what they were and touches
\* neither creators, workers, row ids nor what was sent is quiet.
LEMMA OutsideIsQuiet ==
  ASSUME \A q \in Pods :
           /\ status'[q] = "queued" => status[q] = "queued"
           /\ creator[q] = "new" => status'[q] = status[q]
           /\ onRunner'[q] # "unknown" => onRunner[q] # "unknown"
           /\ CancelledFromQueue(q),
         UNCHANGED <<rowId, workerVars, creatorVars, sends, drained>>
  PROVE  Quiet
  BY DEF Quiet, Holds, workerVars, creatorVars

LEMMA PodPreserves ==
  ASSUME DispatchInv, NEW p \in Pods, PodStep(p)
  PROVE  DispatchInv'
<1>0. TypeOK /\ TypeOK'
  BY PodTypeOK DEF DispatchInv
<1>1. CASE CreatorStep(p)
  BY <1>1, CreatorPreserves
<1>2. CASE EnqueueSendPrompt(p)
  <2>1. PromptRow(p) \in Rows
        /\ \A q \in Pods : CreateRow(q) \in Rows /\ CreateRow(q) # PromptRow(p)
    BY RowFacts
  <2>2. RowsHaveIds' /\ CurFitsStep'
    BY <1>0, <1>2, <2>1, InsertKeepsBooks DEF EnqueueSendPrompt, DispatchInv
  <2>3. \A q \in Pods : rowId'[CreateRow(q)] = rowId[CreateRow(q)]
    BY <1>0, <1>2, <2>1, InsertFacts DEF EnqueueSendPrompt
  <2>4. Quiet
    BY <1>2, <2>3 DEF EnqueueSendPrompt, Quiet, CancelledFromQueue, Holds,
       workerVars, creatorVars, histVars
  <2> QED
    BY <1>0, <2>2, <2>4, QuietStep
<1>3. CASE TerminateQueued(p)
  <2> USE <1>3 DEF TerminateQueued
  <2>1. \A q \in Pods : /\ status'[q] = "queued" => status[q] = "queued"
                        /\ creator[q] = "new" => status'[q] = status[q]
                        /\ CancelledFromQueue(q)
    BY TakeIsQuiet
  <2>2. Quiet
    BY <2>1, OutsideIsQuiet
  <2>3. RowsHaveIds' /\ CurFitsStep'
    BY IdleKeepsBooks DEF DispatchInv
  <2> QED
    BY <1>0, <2>2, <2>3, QuietStep
<1>4. CASE \/ TerminatePod(p) \/ CancelPending(p) \/ TerminateActive(p)
           \/ TerminateAborted(p) \/ HandlePodCreated(p)
           \/ HandlePodTerminated(p) \/ HandlePodError(p)
  <2>1. UNCHANGED <<rowId, workerVars, creatorVars, histVars>>
        /\ table' \subseteq table
    BY <1>4 DEF TerminatePod, CancelPending, TerminateActive,
       TerminateAborted, HandlePodCreated, HandlePodTerminated,
       HandlePodError, dbVars
  <2>2. \A q \in Pods : onRunner'[q] # "unknown" => onRunner[q] # "unknown"
    BY <1>0, <1>4 DEF TerminatePod, CancelPending, TerminateActive,
       TerminateAborted, HandlePodCreated, HandlePodTerminated,
       HandlePodError, RunnerAt, RunnerGoto, TypeOK
  <2>3. \A q \in Pods : /\ status'[q] = "queued" => status[q] = "queued"
                        /\ creator[q] = "new" => status'[q] = status[q]
    <3>1. NoRecord \notin ActiveStatuses /\ NoRecord \notin {"initializing"}
      BY DEF NoRecord, ActiveStatuses
    <3>2. CASE HandlePodCreated(p)
      <4>1. creator[p] # "new"
        BY <3>2, ReportedIsNotNew DEF HandlePodCreated, RunnerAt
      <4> QED
        BY <1>0, <3>2, <4>1 DEF HandlePodCreated, TypeOK
    <3>3. CASE TerminateActive(p) \/ HandlePodTerminated(p)
      <4>1. CASE UNCHANGED status
        BY <4>1
      <4>2. CASE \E to \in {"completed", "error"} :
                   CompareAndSet(p, ActiveStatuses, to)
        BY <3>1, <4>2, CasIsQuiet
      <4> QED
        BY <3>3, <4>1, <4>2 DEF TerminateActive, HandlePodTerminated, Release
    <3>4. CASE HandlePodError(p)
      <4>1. CASE UNCHANGED status
        BY <4>1
      <4>2. CASE CompareAndSet(p, ActiveStatuses, "error")
        BY <3>1, <4>2, CasIsQuiet
      <4>3. CASE CompareAndSet(p, {"initializing"}, "error")
        BY <3>1, <4>3, CasIsQuiet
      <4> QED
        BY <3>4, <4>1, <4>2, <4>3 DEF HandlePodError, Release
    <3>5. CASE TerminatePod(p) \/ CancelPending(p) \/ TerminateAborted(p)
      BY <3>5 DEF TerminatePod, CancelPending, TerminateAborted, dbVars
    <3> QED
      BY <1>4, <3>2, <3>3, <3>4, <3>5
  <2>4. Quiet
    BY <2>1, <2>2, <2>3, OutsideIsQuiet DEF histVars, CancelledFromQueue
  <2>5. RowsHaveIds' /\ CurFitsStep'
    BY <2>1, IdleKeepsBooks DEF DispatchInv
  <2> QED
    BY <1>0, <2>4, <2>5, QuietStep
<1> QED
  BY <1>1, <1>2, <1>3, <1>4 DEF PodStep

-----------------------------------------------------------------------------
(* Drainers and sweepers.                                                  *)

\* What worker steps never do.
LEMMA WorkerLeaves ==
  ASSUME NEW w \in Workers, WorkerStep(w)
  PROVE  UNCHANGED <<rowId, creatorVars>>
  BY DEF WorkerStep, ListBatch, EndBatch, TakeRow, ReadCapacity, Claim,
     DrainerIncrementPods, DrainerSend, DrainerDecrementPods, RevertClaim,
     ReadPromptPod, SendPrompt, DeleteRow, ExpireDelete, MarkQueueExpired,
     dbVars, histVars

HoldingSteps == {"increment", "send", "undo", "revert"}

\* The steps of a worker at which its row is not held, or stays held.
WorkerQuietStep(w) ==
  \/ ListBatch(w) \/ EndBatch(w) \/ TakeRow(w) \/ ReadCapacity(w)
  \/ DrainerIncrementPods(w) \/ DrainerDecrementPods(w)
  \/ ReadPromptPod(w) \/ SendPrompt(w) \/ DeleteRow(w)
  \/ ExpireDelete(w) \/ MarkQueueExpired(w)

LEMMA WorkerTakesNoHold ==
  ASSUME TypeOK, NEW w \in Workers, WorkerQuietStep(w),
         NEW v \in Workers, NEW p \in Pods, Holds(v, p)'
  PROVE  Holds(v, p)
<1> USE DEF Holds, WorkerAt, WorkerGoto, WorkerStop, WorkerNextRow, TypeOK
<1>1. CASE v # w
  BY <1>1 DEF WorkerQuietStep, ListBatch, EndBatch, TakeRow, ReadCapacity,
     DrainerIncrementPods, DrainerDecrementPods, ReadPromptPod, SendPrompt,
     DeleteRow, ExpireDelete, MarkQueueExpired
<1>2. CASE v = w
  BY <1>2 DEF WorkerQuietStep, ListBatch, EndBatch, TakeRow, ReadCapacity,
     DrainerIncrementPods, DrainerDecrementPods, ReadPromptPod, SendPrompt,
     DeleteRow, ExpireDelete, MarkQueueExpired
<1> QED
  BY <1>1, <1>2

LEMMA WorkerQuiet ==
  ASSUME DispatchInv, NEW w \in Workers, WorkerQuietStep(w)
  PROVE  Quiet
<1>1. UNCHANGED <<rowId, creatorVars>>
  BY WorkerLeaves DEF WorkerQuietStep, WorkerStep
<1>2. \A p \in Pods : \A v \in Workers : Holds(v, p)' => Holds(v, p)
  BY WorkerTakesNoHold DEF DispatchInv
<1>3. UNCHANGED <<onRunner, drained>>
  BY DEF WorkerQuietStep, ListBatch, EndBatch, TakeRow, ReadCapacity,
     DrainerIncrementPods, DrainerDecrementPods, ReadPromptPod, SendPrompt,
     DeleteRow, ExpireDelete, MarkQueueExpired, histVars
<1>4. \A p \in Pods : /\ status'[p] = "queued" => status[p] = "queued"
                      /\ creator[p] = "new" => status'[p] = status[p]
                      /\ CancelledFromQueue(p)
  <2>1. CASE MarkQueueExpired(w)
    <3>1. PICK p \in Pods : PodOf(w) = p
      BY <2>1, RowFacts DEF MarkQueueExpired, WorkerAt, PodOf, DispatchInv,
         CurFitsStep
    <3>2. TakeOutOfQueue(p, "error")
      BY <2>1, <3>1 DEF MarkQueueExpired
    <3> QED
      BY <3>2, TakeIsQuiet
  <2>2. CASE ~MarkQueueExpired(w)
    BY <2>2 DEF WorkerQuietStep, ListBatch, EndBatch, TakeRow, ReadCapacity,
       DrainerIncrementPods, DrainerDecrementPods, ReadPromptPod, SendPrompt,
       DeleteRow, ExpireDelete, dbVars, histVars, CancelledFromQueue
  <2> QED
    BY <2>1, <2>2
<1>5. \A p \in Pods : sends'[CreateRow(p)] = sends[CreateRow(p)]
  <2>1. CASE SendPrompt(w)
    <3>1. PICK q \in Pods : cur[w] = PromptRow(q)
      BY <2>1 DEF SendPrompt, WorkerAt, DispatchInv, CurFitsStep
    <3> QED
      BY <2>1, <3>1, RowFacts DEF SendPrompt, DispatchInv, TypeOK
  <2>2. CASE ~SendPrompt(w)
    BY <2>2 DEF WorkerQuietStep, ListBatch, EndBatch, TakeRow, ReadCapacity,
       DrainerIncrementPods, DrainerDecrementPods, ReadPromptPod,
       MarkQueueExpired, DeleteRow, ExpireDelete, histVars
  <2> QED
    BY <2>1, <2>2
<1> QED
  BY <1>1, <1>2, <1>3, <1>4, <1>5 DEF Quiet, creatorVars

\* The row of a claim has an id, and its pod's creator has decided.
LEMMA ClaimedRow ==
  ASSUME DispatchInv, NEW w \in Workers,
         worker[w] \in {"claim", "increment", "send", "undo", "revert"}
  PROVE  \E p \in Pods : /\ PodOf(w) = p /\ cur[w] = CreateRow(p)
                         /\ Parked(p) /\ creator[p] \notin Undecided
<1>1. PICK p \in Pods : cur[w] = CreateRow(p)
  BY DEF DispatchInv, CurFitsStep
<1>2. PodOf(w) = p /\ cur[w] # NoRow
  BY <1>1, RowFacts DEF PodOf
<1> QED
  BY <1>1, <1>2 DEF DispatchInv, RowsHaveIds, Parked, CreatorExclusive

LEMMA ClaimPreserves ==
  ASSUME DispatchInv, TypeOK', RowsHaveIds', CurFitsStep',
         NEW w \in Workers, Claim(w)
  PROVE  DispatchInv'
<1> USE DEF Claim, WorkerAt, WorkerGoto, DispatchInv, TypeOK, CompareAndSet,
        creatorVars, histVars
<1>1. PICK p \in Pods : /\ PodOf(w) = p /\ cur[w] = CreateRow(p)
                        /\ Parked(p) /\ creator[p] \notin Undecided
  BY ClaimedRow
<1>2. \A v \in Workers, q \in Pods :
         Holds(v, q)' => \/ Holds(v, q)
                         \/ v = w /\ q = p /\ status[p] = "queued"
  BY <1>1, RowFacts DEF Holds
<1>3. \A q \in Pods :
         Held(q)' => Held(q) \/ (q = p /\ status[p] = "queued")
  BY <1>2 DEF Held
<1>4. CASE status[p] # "queued"
  <2>1. Quiet
    BY <1>1, <1>2, <1>4 DEF Quiet, CancelledFromQueue
  <2> QED
    BY <2>1, QuietStep
<1>5. CASE status[p] = "queued"
  <2>1. CreatorExclusive'
    <3>1. /\ UNCHANGED <<creator, local, sends, cancelled, rowId>>
          /\ status'[p] = "initializing"
          /\ \A q \in Pods : q # p => status'[q] = status[q]
      BY <1>1, <1>5
    <3>2. /\ creator[p] \notin Undecided \cup {"new"}
          /\ creator[p] = "align_queued" => local[p] # "initializing"
      BY <1>1, <1>5 DEF CreatorExclusive, Undecided
    <3> QED
      BY <1>1, <1>3, <3>1, <3>2 DEF CreatorExclusive, Parked
  <2>2. sends[CreateRow(p)] = 0 /\ p \notin cancelled /\ ~Held(p)
    <3>1. ~Held(p)
      BY <1>1, <1>5 DEF ClaimExclusive
    <3>2. ~(sends[CreateRow(p)] # 0) /\ p \notin cancelled
      BY <1>1, <1>5 DEF DecidedStays
    <3> QED
      BY <3>1, <3>2
  <2>3. ClaimExclusive'
    <3>1. \A v \in Workers : ~Holds(v, p)
      BY <2>2 DEF Held
    <3>2. \A q \in Pods : \A u, v \in Workers :
             (Holds(u, q) /\ Holds(v, q) => u = v)'
      BY <1>2, <3>1, SMTT(40) DEF ClaimExclusive
    <3>3. \A q \in Pods : (Held(q) => /\ status[q] # "queued"
                                      /\ sends[CreateRow(q)] = 0
                                      /\ q \notin cancelled)'
      BY <1>1, <1>3, <1>5, <2>2 DEF ClaimExclusive
    <3> QED
      BY <3>2, <3>3 DEF ClaimExclusive
  <2>4. DecidedStays'
    BY <1>1, <1>5 DEF DecidedStays, Parked
  <2>5. NoDoubleDispatch'
    BY DEF NoDoubleDispatch
  <2> QED
    BY <2>1, <2>3, <2>4, <2>5
<1> QED
  BY <1>4, <1>5

LEMMA DrainerSendPreserves ==
  ASSUME DispatchInv, TypeOK', RowsHaveIds', CurFitsStep',
         NEW w \in Workers, DrainerSend(w)
  PROVE  DispatchInv'
<1> USE DEF DrainerSend, WorkerAt, WorkerGoto, DispatchInv, TypeOK,
        creatorVars, dbVars, Delivered
<1>1. PICK p \in Pods : /\ PodOf(w) = p /\ cur[w] = CreateRow(p)
                        /\ Parked(p) /\ creator[p] \notin Undecided
  BY ClaimedRow
<1>2. Holds(w, p) /\ Held(p)
  BY <1>1 DEF Holds, Held
<1>3. \A v \in Workers, q \in Pods : Holds(v, q)' => Holds(v, q)
  BY DEF Holds
<1>4. \A q \in Pods : Held(q)' => Held(q)
  BY <1>3 DEF Held
<1>5. CASE UNCHANGED <<sends, drained, onRunner>>
  <2>1. Quiet
    BY <1>3, <1>5 DEF Quiet, CancelledFromQueue
  <2> QED
    BY <2>1, QuietStep
<1>6. CASE /\ sends' = [sends EXCEPT ![cur[w]] = @ + 1]
           /\ drained' = drained \cup {PodOf(w)}
           /\ Delivered(PodOf(w)) \/ UNCHANGED onRunner
           /\ WorkerGoto(w, "delete")
  <2>1. /\ status[p] # "queued" /\ sends[CreateRow(p)] = 0
        /\ p \notin cancelled
    BY <1>2 DEF ClaimExclusive
  <2>2. /\ sends'[CreateRow(p)] = 1
        /\ \A q \in Pods : q # p => sends'[CreateRow(q)] = sends[CreateRow(q)]
    BY <1>1, <1>6, <2>1, RowFacts
  <2>3. \A v \in Workers : ~Holds(v, p)'
    BY <1>2, <1>3, <1>6 DEF ClaimExclusive, Holds
  <2>4. ~Held(p)'
    BY <2>3 DEF Held
  <2>5. CreatorExclusive'
    BY <1>1, <1>2, <1>4, <2>2, <2>4 DEF CreatorExclusive, Parked, Undecided
  <2>6. ClaimExclusive'
    <3>1. \A q \in Pods : \A u, v \in Workers :
             (Holds(u, q) /\ Holds(v, q) => u = v)'
      BY <1>3 DEF ClaimExclusive
    <3>2. \A q \in Pods : (Held(q) => /\ status[q] # "queued"
                                      /\ sends[CreateRow(q)] = 0
                                      /\ q \notin cancelled)'
      BY <1>4, <2>2, <2>4 DEF ClaimExclusive
    <3> QED
      BY <3>1, <3>2 DEF ClaimExclusive
  <2>7. DecidedStays'
    BY <1>1, <1>6, <2>1, <2>2 DEF DecidedStays, Parked
  <2>8. NoDoubleDispatch'
    BY <2>2 DEF NoDoubleDispatch
  <2> QED
    BY <2>5, <2>6, <2>7, <2>8
<1> QED
  BY <1>5, <1>6

LEMMA RevertClaimPreserves ==
  ASSUME DispatchInv, TypeOK', RowsHaveIds', CurFitsStep',
         NEW w \in Workers, RevertClaim(w)
  PROVE  DispatchInv'
<1> USE DEF RevertClaim, WorkerAt, WorkerGoto, WorkerStop, DispatchInv,
        TypeOK, CompareAndSet, creatorVars, histVars
<1>1. PICK p \in Pods : /\ PodOf(w) = p /\ cur[w] = CreateRow(p)
                        /\ Parked(p) /\ creator[p] \notin Undecided
  BY ClaimedRow
<1>2. Holds(w, p) /\ Held(p)
  BY <1>1 DEF Holds, Held
<1>3. \A v \in Workers, q \in Pods : Holds(v, q)' => Holds(v, q) /\ v # w
  BY DEF Holds
<1>4. \A q \in Pods : Held(q)' => Held(q) /\ q # p
  BY <1>2, <1>3 DEF Held, ClaimExclusive
<1>5. \A q \in Pods : q # p => status'[q] = status[q]
  BY <1>1
<1>6. /\ sends[CreateRow(p)] = 0 /\ p \notin cancelled
  BY <1>2 DEF ClaimExclusive
<1>7. CreatorExclusive'
  BY <1>1, <1>2, <1>4, <1>5, <1>6 DEF CreatorExclusive, Parked, Undecided
<1>8. ClaimExclusive'
  <2>1. \A q \in Pods : \A u, v \in Workers :
           (Holds(u, q) /\ Holds(v, q) => u = v)'
    BY <1>3 DEF ClaimExclusive
  <2>2. \A q \in Pods : (Held(q) => /\ status[q] # "queued"
                                    /\ sends[CreateRow(q)] = 0
                                    /\ q \notin cancelled)'
    BY <1>4, <1>5 DEF ClaimExclusive
  <2> QED
    BY <2>1, <2>2 DEF ClaimExclusive
<1>9. DecidedStays'
  BY <1>1, <1>5, <1>6 DEF DecidedStays, Parked
<1>10. NoDoubleDispatch'
  BY DEF NoDoubleDispatch
<1> QED
  BY <1>7, <1>8, <1>9, <1>10

LEMMA WorkerPreserves ==
  ASSUME DispatchInv, NEW w \in Workers, WorkerStep(w)
  PROVE  DispatchInv'
<1>1. TypeOK' /\ RowsHaveIds' /\ CurFitsStep'
  BY WorkerTypeOK, WorkerKeepsBooks DEF DispatchInv
<1>2. CASE WorkerQuietStep(w)
  BY <1>1, <1>2, WorkerQuiet, QuietStep
<1>3. CASE Claim(w)
  BY <1>1, <1>3, ClaimPreserves
<1>4. CASE DrainerSend(w)
  BY <1>1, <1>4, DrainerSendPreserves
<1>5. CASE RevertClaim(w)
  BY <1>1, <1>5, RevertClaimPreserves
<1> QED
  BY <1>2, <1>3, <1>4, <1>5 DEF WorkerStep, WorkerQuietStep

-----------------------------------------------------------------------------
(* Streams, crashes, deferred releases and time.                           *)

\* The disconnect handler takes the pods it lists out of a status, never
\* into the queue, and never a pod that has no record yet.
LEMMA DisconnectMovesAway ==
  ASSUME DispatchInv, NEW r \in Replicas,
         FailInitializing(r) \/ FailQueued(r)
  PROVE  \A q \in Pods : /\ status'[q] = "queued" => status[q] = "queued"
                         /\ creator[q] = "new" => status'[q] = status[q]
                         /\ CancelledFromQueue(q)
<1> USE DEF CancelledFromQueue, histVars
<1>1. CASE UNCHANGED <<status, cancelled>>
  BY <1>1
<1>2. CASE /\ \E p \in Pods : CompareAndSet(p, {"initializing"}, "error")
           /\ UNCHANGED cancelled
  BY <1>2, CasIsQuiet DEF NoRecord
<1>3. CASE /\ \E p \in toFail[r] : CompareAndSet(p, {"initializing"}, "error")
           /\ UNCHANGED cancelled
  BY <1>2, <1>3 DEF DispatchInv, TypeOK
<1>4. CASE toFail[r] # {} /\ TakeOutOfQueue(AnyOf(toFail[r]), "error")
  <2>1. AnyOf(toFail[r]) \in Pods
    BY <1>4, AnyOfIsMember DEF DispatchInv, TypeOK
  <2> QED
    BY <1>4, <2>1, TakeIsQuiet
<1> QED
  BY <1>1, <1>3, <1>4 DEF FailInitializing, FailQueued, Release

\* A crash drops what the replica's workers hold and stops its requests.
LEMMA CrashIsQuiet ==
  ASSUME DispatchInv, NEW r \in Replicas, Crash(r)
  PROVE  Quiet /\ RowsHaveIds' /\ CurFitsStep'
<1>1. RowsHaveIds' /\ CurFitsStep'
  BY DEF Crash, DispatchInv, RowsHaveIds, CurFitsStep, dbVars
<1>2. \A v \in Workers, q \in Pods : Holds(v, q)' => Holds(v, q)
  BY RowFacts DEF Crash, Holds
<1>3. Quiet
  BY <1>2 DEF Crash, Quiet, CancelledFromQueue, Undecided, DispatchInv,
     TypeOK, dbVars, histVars
<1> QED
  BY <1>1, <1>3

LEMMA ReplicaPreserves ==
  ASSUME DispatchInv, NEW r \in Replicas, ReplicaStep(r)
  PROVE  DispatchInv'
<1>0. TypeOK /\ TypeOK'
  BY ReplicaTypeOK DEF DispatchInv
<1>1. CASE DrainRunner(r) \/ SweepExpired(r)
  <2> USE <1>1 DEF DrainRunner, SweepExpired, WorkerAt, WorkerGoto
  <2>1. \A v \in Workers, q \in Pods : Holds(v, q)' => Holds(v, q)
    BY <1>0 DEF Holds, TypeOK
  <2>2. Quiet
    BY <2>1 DEF Quiet, CancelledFromQueue, dbVars, creatorVars, histVars
  <2>3. /\ UNCHANGED <<rowId, table, cur>>
        /\ \A v \in Workers : /\ batch'[v] \subseteq batch[v] \cup table
                              /\ worker'[v] \in {worker[v], "list", "row"}
    BY <1>0 DEF TypeOK, dbVars
  <2>4. RowsHaveIds'
    BY <2>3 DEF DispatchInv, RowsHaveIds
  <2>5. CurFitsStep'
    BY <2>3 DEF DispatchInv, CurFitsStep
  <2> QED
    BY <1>0, <2>2, <2>4, <2>5, QuietStep
<1>2. CASE \/ DecrementPods(r) \/ RunnerConnects(r) \/ StreamLost(r)
           \/ ListPodsToFail(r) \/ FailInitializing(r) \/ FailQueued(r)
  <2> USE DEF DecrementPods, RunnerConnects, StreamLost, ListPodsToFail,
          FailInitializing, FailQueued, dbVars
  <2>1. UNCHANGED <<rowId, workerVars, creatorVars, sends, drained, onRunner>>
        /\ table' \subseteq table
    BY <1>2 DEF histVars
  <2>2. \A q \in Pods : /\ status'[q] = "queued" => status[q] = "queued"
                        /\ creator[q] = "new" => status'[q] = status[q]
                        /\ CancelledFromQueue(q)
    BY <1>2, DisconnectMovesAway DEF histVars, CancelledFromQueue
  <2>3. Quiet
    BY <2>1, <2>2, OutsideIsQuiet
  <2>4. RowsHaveIds' /\ CurFitsStep'
    BY <2>1, IdleKeepsBooks DEF DispatchInv
  <2> QED
    BY <1>0, <2>3, <2>4, QuietStep
<1>3. CASE Crash(r)
  BY <1>0, <1>3, CrashIsQuiet, QuietStep
<1> QED
  BY <1>1, <1>2, <1>3 DEF ReplicaStep

LEMMA ExpirePreserves ==
  ASSUME DispatchInv, NEW x \in Rows, Expire(x)
  PROVE  DispatchInv'
<1>1. TypeOK' /\ RowsHaveIds' /\ CurFitsStep'
  BY IdleKeepsBooks DEF Expire, DispatchInv, TypeOK, workerVars, closeVars,
     creatorVars, histVars, budgetVars
<1>2. Quiet
  BY OutsideIsQuiet DEF Expire, histVars, CancelledFromQueue
<1> QED
  BY <1>1, <1>2, QuietStep

LEMMA StutterPreserves == DispatchInv /\ UNCHANGED vars => DispatchInv'
<1> SUFFICES ASSUME DispatchInv, UNCHANGED vars PROVE DispatchInv'
  OBVIOUS
<1>1. TypeOK' /\ RowsHaveIds' /\ CurFitsStep'
  BY IdleKeepsBooks DEF vars, DispatchInv, TypeOK, dbVars, workerVars,
     closeVars, creatorVars, histVars, budgetVars
<1>2. Quiet
  BY OutsideIsQuiet DEF vars, dbVars, histVars, CancelledFromQueue
<1> QED
  BY <1>1, <1>2, QuietStep

LEMMA InitInv == Init => DispatchInv
<1> SUFFICES ASSUME Init PROVE DispatchInv
  OBVIOUS
<1> USE DEF Init
<1>1. RowsHaveIds /\ CurFitsStep
  BY DEF RowsHaveIds, CurFitsStep
<1>2. \A p \in Pods : ~Held(p)
  BY DEF Held, Holds
<1>3. CreatorExclusive /\ DecidedStays /\ NoDoubleDispatch
  BY <1>2, RowFacts DEF CreatorExclusive, DecidedStays, NoDoubleDispatch,
     Undecided, Parked, NoRecord
<1>4. ClaimExclusive
  BY <1>2 DEF ClaimExclusive, Holds
<1> QED
  BY <1>1, <1>3, <1>4, InitTypeOK DEF DispatchInv

LEMMA NextPreserves == DispatchInv /\ [Next]_vars => DispatchInv'
  BY PodPreserves, WorkerPreserves, ReplicaPreserves, ExpirePreserves,
     StutterPreserves DEF Next

-----------------------------------------------------------------------------
(* The theorems.                                                           *)

\* The invariant behind the results below: a claimed row belongs to one
\* drainer, and a pod that was sent, claimed or cancelled cannot be claimed.
THEOREM DispatchInvariant == Spec => []DispatchInv
  BY InitInv, NextPreserves, PTL DEF Spec

\* Every column, map and program counter stays within its type, the pod
\* counter at or above zero included (GREATEST in DecrementPods).
THEOREM TypeCorrect == Spec => []TypeOK
<1>1. DispatchInv => TypeOK
  BY DEF DispatchInv
<1> QED
  BY <1>1, DispatchInvariant, PTL

\* However many replicas drain, crash and retry, create_pod reaches a stream
\* at most once per pod: the claim in dispatchCreatePod suffices.
THEOREM CreateSentAtMostOnce == Spec => []NoDoubleDispatch
<1>1. DispatchInv => NoDoubleDispatch
  BY DEF DispatchInv
<1> QED
  BY <1>1, DispatchInvariant, PTL

\* A pod terminateQueuedPod took out of the queue is never sent by a drainer,
\* and one a drainer sent is never taken out of the queue.
THEOREM CancelExcludesDispatch == Spec => []CancelOrDispatch
<1>1. DispatchInv => CancelOrDispatch
  BY DEF DispatchInv, DecidedStays, CancelOrDispatch, TypeOK
<1> QED
  BY <1>1, DispatchInvariant, PTL

-----------------------------------------------------------------------------
(* The limits.                                                             *)

\* What one step may do to the counter and to the table.
CounterStep ==
  \/ UNCHANGED currentPods
  \/ currentPods' = Decremented(currentPods)
  \/ CanReserve /\ currentPods' = currentPods + 1

TableStep ==
  \/ table' \subseteq table
  \/ \E x \in Rows : ~QueueFull /\ table' = table \cup {x}

LEMMA PodStepLimits ==
  ASSUME NEW p \in Pods, PodStep(p)
  PROVE  CounterStep /\ TableStep
<1> USE DEF CounterStep, TableStep, dbVars
<1>1. CASE EnqueueSendPrompt(p) \/ EnqueueCreatePod(p)
  BY <1>1, RowFacts DEF EnqueueSendPrompt, EnqueueCreatePod, Insert
<1>2. CASE CreatorStep(p) /\ ~EnqueueCreatePod(p)
  BY <1>2 DEF CreatorStep, InsertPod, DispatchDeferredPod, CreatePodOrQueue,
     CreatorIncrementPods, CreatorSend, CreatorDecrementPods,
     AlignInitializing, AlignQueued, Align, MarkDispatchFailed, MarkFailed
<1>3. CASE \/ TerminatePod(p) \/ CancelPending(p) \/ TerminateQueued(p)
           \/ TerminateActive(p) \/ TerminateAborted(p)
           \/ HandlePodCreated(p) \/ HandlePodTerminated(p)
           \/ HandlePodError(p)
  BY <1>3 DEF TerminatePod, CancelPending, TerminateQueued, TerminateActive,
     TerminateAborted, HandlePodCreated, HandlePodTerminated, HandlePodError
<1> QED
  BY <1>1, <1>2, <1>3 DEF PodStep

LEMMA WorkerStepLimits ==
  ASSUME NEW w \in Workers, WorkerStep(w)
  PROVE  CounterStep /\ TableStep
  BY DEF WorkerStep, ListBatch, EndBatch, TakeRow, ReadCapacity, Claim,
     DrainerIncrementPods, DrainerSend, DrainerDecrementPods, RevertClaim,
     ReadPromptPod, SendPrompt, DeleteRow, ExpireDelete, MarkQueueExpired,
     CounterStep, TableStep, dbVars

LEMMA OtherStepLimits ==
  ASSUME \/ \E r \in Replicas : ReplicaStep(r)
         \/ \E x \in Rows : Expire(x)
         \/ UNCHANGED vars
  PROVE  CounterStep /\ TableStep
  BY DEF ReplicaStep, DrainRunner, SweepExpired, DecrementPods,
     RunnerConnects, StreamLost, ListPodsToFail, FailInitializing, FailQueued,
     Crash, Expire, vars, CounterStep, TableStep, dbVars

LEMMA LimitsKept ==
  ASSUME TypeOK, WithinLimits, CounterStep, TableStep
  PROVE  WithinLimits'
<1>1. currentPods' <= MaxConcurrentPods
  BY DispatchAssumption DEF CounterStep, Decremented, CanReserve, TypeOK,
     WithinLimits, DispatchAssumption
<1>2. IsFiniteSet(table)
  BY RowsFinite, FS_Subset DEF TypeOK
<1>3. CASE table' \subseteq table
  <2>1. Cardinality(table') <= Cardinality(table)
        /\ Cardinality(table') \in Nat /\ Cardinality(table) \in Nat
    BY <1>2, <1>3, FS_Subset, FS_CardinalityType
  <2> QED
    BY <1>1, <2>1, DispatchAssumption DEF WithinLimits, DispatchAssumption
<1>4. CASE \E x \in Rows : ~QueueFull /\ table' = table \cup {x}
  <2>1. Cardinality(table') \in {Cardinality(table), Cardinality(table) + 1}
        /\ Cardinality(table) \in Nat
    BY <1>2, <1>4, FS_AddElement, FS_CardinalityType
  <2>2. Cardinality(table) < MaxPerRunner
    BY <1>4, <2>1, DispatchAssumption DEF QueueFull, DispatchAssumption
  <2>3. Cardinality(table') <= MaxPerRunner
    BY <2>1, <2>2, DispatchAssumption DEF DispatchAssumption
  <2> QED
    BY <1>1, <2>3 DEF WithinLimits
<1> QED
  BY <1>3, <1>4 DEF TableStep

\* The reserved slots never exceed max_concurrent_pods, although capacity is
\* read long before it is reserved, and the table never exceeds the limit
\* EnqueueWithinCapacity checks.
THEOREM LimitsHold == Spec => []WithinLimits
<1>1. Init => WithinLimits
  BY FS_EmptySet, DispatchAssumption DEF Init, WithinLimits,
     DispatchAssumption
<1>2. TypeOK /\ WithinLimits /\ [Next]_vars => WithinLimits'
  BY PodStepLimits, WorkerStepLimits, OtherStepLimits, LimitsKept DEF Next
<1> QED
  BY <1>1, <1>2, TypeCorrect, PTL DEF Spec

-----------------------------------------------------------------------------
(* Row order, with one replica.                                            *)

Inserted == {y \in Rows : rowId[y] # 0}

\* What a worker has in hand is the first row of its batch; the sweeper only
\* takes rows that have expired.
Hand(w) ==
  /\ worker[w] \notin {"idle", "list", "row"} => IsFirst(cur[w], batch[w])
  /\ worker[w] \in {"expire_delete", "expire_mark"} => cur[w] \in expired
  /\ w[1] = "sweep" =>
       /\ batch[w] \subseteq expired
       /\ worker[w] \in {"idle", "row", "expire_delete", "expire_mark"}
HandInv == \A w \in Workers : Hand(w)

\* No row is in front of those a drainer has yet to handle: it is in the batch
\* too, or it is over.
AheadInv ==
  \A w \in Workers : w[1] = "drain" =>
    \A x \in batch[w], y \in Rows :
      0 < rowId[y] /\ rowId[y] < rowId[x]
        => y \in batch[w] \/ y \notin table \/ y \in expired

\* When a prompt has been sent, the rows in front of it are over.
PassedInv ==
  \A p \in Pods :
    LET c == CreateRow(p)
        m == PromptRow(p)
    IN /\ 0 < rowId[c] /\ rowId[c] < rowId[m]
       /\ c \notin expired /\ sends[m] > 0
       => /\ c \notin table
          /\ \A w \in Workers : w[1] = "drain" => c \notin batch[w]

OrderInv ==
  /\ \A y \in Rows : rowId[y] <= Cardinality(Inserted)
  /\ HandInv /\ AheadInv /\ PassedInv


LEMMA WorkerFacts ==
  /\ \A w \in Workers : w[1] \in {"drain", "sweep"} /\ w[2] \in Replicas
  /\ \A v, w \in Workers : v[1] = w[1] /\ v[2] = w[2] => v = w
  /\ \A r \in Replicas : /\ Drainer(r) \in Workers /\ Drainer(r)[1] = "drain"
                         /\ Sweeper(r) \in Workers /\ Sweeper(r)[1] = "sweep"
  BY DEF Workers, Drainer, Sweeper

\* What the rest of the system may do.
SamePrompts == \A p \in Pods : sends'[PromptRow(p)] = sends[PromptRow(p)]

LEMMA RestKeepsOrder ==
  ASSUME OrderInv, UNCHANGED <<workerVars, rowId>>, SamePrompts,
         table' \subseteq table, expired \subseteq expired'
  PROVE  OrderInv'
<1>1. (\A y \in Rows : rowId[y] <= Cardinality(Inserted))'
  BY DEF OrderInv, Inserted
<1>2. HandInv'
  BY DEF OrderInv, HandInv, Hand, IsFirst, workerVars
<1>3. AheadInv'
  BY DEF OrderInv, AheadInv, workerVars
<1>4. PassedInv'
  BY DEF OrderInv, PassedInv, SamePrompts, workerVars
<1>. QED  BY <1>1, <1>2, <1>3, <1>4 DEF OrderInv

LEMMA WorkerKeepsOrder ==
  ASSUME OrderInv, NEW w \in Workers, UNCHANGED <<rowId, expired>>,
         SamePrompts, table' \subseteq table,
         \A v \in Workers \ {w} : /\ worker'[v] = worker[v]
                                  /\ batch'[v] = batch[v] /\ cur'[v] = cur[v],
         Hand(w)', batch'[w] \subseteq batch[w],
         \/ batch'[w] = {}
         \/ \A x \in batch[w] \ batch'[w] : x \notin table' \/ x \in expired
  PROVE  OrderInv'
<1>1. (\A y \in Rows : rowId[y] <= Cardinality(Inserted))'
  BY DEF OrderInv, Inserted
<1>2. HandInv'
  BY DEF OrderInv, HandInv, Hand, IsFirst
<1>3. AheadInv'
  <2>. SUFFICES ASSUME NEW v \in Workers, v[1] = "drain", NEW x \in batch'[v],
                       NEW y \in Rows, 0 < rowId[y], rowId[y] < rowId[x]
                PROVE  y \in batch'[v] \/ y \notin table' \/ y \in expired
    BY DEF AheadInv
  <2>1. y \in batch[v] \/ y \notin table \/ y \in expired
    BY DEF OrderInv, AheadInv
  <2>. QED  BY <2>1
<1>4. PassedInv'
  <2>1. \A v \in Workers : batch'[v] \subseteq batch[v]
    OBVIOUS
  <2>. QED  BY <2>1 DEF OrderInv, PassedInv, SamePrompts
<1>. QED  BY <1>1, <1>2, <1>3, <1>4 DEF OrderInv

\* A new row goes behind all there are.
LEMMA InsertKeepsOrder ==
  ASSUME TypeOK, RowsHaveIds, OrderInv, NEW x \in Rows, Insert(x),
         rowId[x] = 0, UNCHANGED <<workerVars, expired, sends>>,
         \A p \in Pods : sends[PromptRow(p)] > 0 => rowId[PromptRow(p)] # 0
  PROVE  OrderInv'
<1>. DEFINE n == Cardinality(Inserted)
<1>1. /\ n \in Nat /\ IsFiniteSet(Inserted)
      /\ rowId' = [rowId EXCEPT ![x] = 1 + n] /\ table' = table \cup {x}
  BY RowsFinite, FS_Subset, FS_CardinalityType DEF Insert, Inserted
<1>2. /\ \A y \in Rows : rowId[y] \in Nat /\ rowId[y] <= n
      /\ rowId'[x] = 1 + n /\ \A y \in Rows \ {x} : rowId'[y] = rowId[y]
  BY <1>1 DEF TypeOK, OrderInv
<1>3. Cardinality(Inserted)' = n + 1
  <2>. HIDE DEF n
  <2>1. 1 + n # 0
    BY <1>1
  <2>2. x \notin Inserted
    BY DEF Inserted
  <2>3. Inserted' = Inserted \cup {x}
    BY <1>2, <2>1 DEF Inserted
  <2>4. Cardinality(Inserted \cup {x}) = Cardinality(Inserted) + 1
    BY <1>1, <2>2, FS_AddElement
  <2>. QED  BY <2>3, <2>4 DEF n
<1>. HIDE DEF n
<1>4. (\A y \in Rows : rowId[y] <= Cardinality(Inserted))'
  BY <1>1, <1>2, <1>3
<1>5. \A w \in Workers : batch[w] \subseteq Rows \ {x}
  BY DEF RowsHaveIds, TypeOK
<1>6. HandInv'
  BY <1>2, <1>5 DEF OrderInv, HandInv, Hand, IsFirst, workerVars
<1>7. AheadInv'
  <2>. SUFFICES ASSUME NEW w \in Workers, w[1] = "drain", NEW z \in batch[w],
                       NEW y \in Rows, 0 < rowId'[y], rowId'[y] < rowId'[z]
                PROVE  y \in batch[w] \/ y \notin table' \/ y \in expired
    BY DEF AheadInv, workerVars
  <2>1. rowId'[z] = rowId[z] /\ z \in Rows /\ rowId[z] <= n
    BY <1>2, <1>5
  <2>2. y # x
    BY <1>1, <1>2, <2>1
  <2>. QED  BY <1>1, <1>2, <2>1, <2>2 DEF OrderInv, AheadInv
<1>8. PassedInv'
  <2>. SUFFICES ASSUME NEW p \in Pods,
                       0 < rowId'[CreateRow(p)],
                       rowId'[CreateRow(p)] < rowId'[PromptRow(p)],
                       CreateRow(p) \notin expired, sends[PromptRow(p)] > 0
                PROVE  /\ CreateRow(p) \notin table'
                       /\ \A w \in Workers :
                            w[1] = "drain" => CreateRow(p) \notin batch[w]
    BY DEF PassedInv, workerVars
  <2>1. CreateRow(p) \in Rows /\ PromptRow(p) \in Rows
    BY RowFacts
  <2>2. PromptRow(p) # x /\ rowId'[PromptRow(p)] <= n
    BY <1>2, <2>1
  <2>3. CreateRow(p) # x
    BY <1>1, <1>2, <2>1, <2>2
  <2>. QED  BY <1>1, <1>2, <2>1, <2>2, <2>3 DEF OrderInv, PassedInv
<1>. QED  BY <1>4, <1>6, <1>7, <1>8 DEF OrderInv

\* The rows before a row that is listed are listed too.
LEMMA ListIsClosed ==
  ASSUME TypeOK, NEW x \in ListByRunnerFIFO, NEW y \in table, rowId[y] < rowId[x]
  PROVE  y \in ListByRunnerFIFO
<1>1. IsFiniteSet(Before(x)) /\ Before(y) \subseteq Before(x)
  <2>1. IsFiniteSet(Before(x))
    BY RowsFinite, FS_Subset DEF TypeOK, Before
  <2>2. \A z \in table : rowId[z] \in Nat
    BY DEF TypeOK
  <2>3. x \in table
    BY DEF ListByRunnerFIFO
  <2>. QED  BY <2>1, <2>2, <2>3 DEF Before
<1>2. /\ Cardinality(Before(y)) <= Cardinality(Before(x))
      /\ Cardinality(Before(y)) \in Nat /\ Cardinality(Before(x)) \in Nat
  BY <1>1, FS_Subset, FS_CardinalityType
<1>3. Cardinality(Before(x)) < BatchSize
  BY DEF ListByRunnerFIFO
<1>. QED  BY <1>2, <1>3, DispatchAssumption DEF ListByRunnerFIFO, DispatchAssumption

LEMMA ListBatchKeepsOrder ==
  ASSUME TypeOK, OrderInv, NEW w \in Workers, ListBatch(w)
  PROVE  OrderInv'
<1>. DEFINE new == batch'[w]
<1>1. w[1] = "drain"
  BY WorkerFacts DEF ListBatch, WorkerAt, OrderInv, HandInv, Hand
<1>2. /\ UNCHANGED <<table, rowId, expired, sends>>
      /\ \A v \in Workers \ {w} : /\ worker'[v] = worker[v]
                                  /\ batch'[v] = batch[v] /\ cur'[v] = cur[v]
      /\ new \in {{}, ListByRunnerFIFO} /\ worker'[w] \in {"row", "idle"}
  BY DEF ListBatch, WorkerStop, WorkerGoto, TypeOK, dbVars, histVars
<1>3. new \subseteq table
  BY <1>2 DEF ListByRunnerFIFO
<1>. HIDE DEF new
<1>4. (\A y \in Rows : rowId[y] <= Cardinality(Inserted))'
  BY <1>2 DEF OrderInv, Inserted
<1>5. HandInv'
  BY <1>1, <1>2 DEF OrderInv, HandInv, Hand, IsFirst
<1>6. AheadInv'
  <2>. SUFFICES ASSUME NEW v \in Workers, v[1] = "drain", NEW x \in batch'[v],
                       NEW y \in Rows, 0 < rowId[y], rowId[y] < rowId[x]
                PROVE  y \in batch'[v] \/ y \notin table \/ y \in expired
    BY <1>2 DEF AheadInv
  <2>1. CASE v # w
    BY <1>2, <2>1 DEF OrderInv, AheadInv
  <2>2. CASE v = w
    BY <1>2, <2>2, ListIsClosed DEF new
  <2>. QED  BY <2>1, <2>2
<1>7. PassedInv'
  <2>1. \A v \in Workers, x \in Rows :
          x \notin table /\ x \notin batch[v] => x \notin batch'[v]
    BY <1>2, <1>3 DEF new
  <2>2. \A p \in Pods : CreateRow(p) \in Rows
    BY RowFacts
  <2>. QED  BY <1>2, <2>1, <2>2 DEF OrderInv, PassedInv
<1>. QED  BY <1>4, <1>5, <1>6, <1>7 DEF OrderInv

\* The prompt a drainer sends is the first row of its batch: what was in front
\* of it is over, and no other drainer has it either.
LEMMA SendPromptKeepsOrder ==
  ASSUME \A r, s \in Replicas : r = s,
         TypeOK, CurFitsStep, OrderInv, NEW w \in Workers, SendPrompt(w)
  PROVE  OrderInv'
<1>1. PICK q \in Pods : cur[w] = PromptRow(q)
  BY DEF SendPrompt, CurFitsStep, WorkerAt
<1>2. /\ w[1] = "drain" /\ IsFirst(cur[w], batch[w])
      /\ UNCHANGED <<table, rowId, expired>>
      /\ \A v \in Workers \ {w} : /\ worker'[v] = worker[v]
                                  /\ batch'[v] = batch[v] /\ cur'[v] = cur[v]
      /\ batch'[w] \in {{}, batch[w]}
      /\ \/ worker'[w] = "idle"
         \/ worker'[w] = "delete" /\ UNCHANGED <<batch, cur>>
  <2>1. w[1] = "drain" /\ IsFirst(cur[w], batch[w])
    <3>1. worker[w] = "prompt_send" /\ Hand(w)
      BY DEF SendPrompt, WorkerAt, OrderInv, HandInv
    <3>2. worker[w] \notin {"idle", "list", "row", "expire_delete", "expire_mark"}
      BY <3>1
    <3>. QED  BY <3>1, <3>2, WorkerFacts DEF Hand
  <2>2. UNCHANGED <<table, rowId, expired>>
    BY SMTT(30) DEF SendPrompt, dbVars
  <2>3. ASSUME WorkerStop(w)
        PROVE  /\ worker' = [worker EXCEPT ![w] = "idle"]
               /\ batch' = [batch EXCEPT ![w] = {}]
               /\ cur' = [cur EXCEPT ![w] = NoRow]
    BY <2>3 DEF WorkerStop, WorkerGoto
  <2>4. CASE WorkerStop(w)
    <3>1. /\ worker'[w] = "idle" /\ batch'[w] = {}
          /\ \A v \in Workers \ {w} : /\ worker'[v] = worker[v]
                                      /\ batch'[v] = batch[v] /\ cur'[v] = cur[v]
      BY <2>3, <2>4 DEF TypeOK
    <3>. QED  BY <2>1, <2>2, <3>1
  <2>5. CASE WorkerGoto(w, "delete") /\ UNCHANGED <<batch, cur>>
    <3>1. /\ worker'[w] = "delete"
          /\ \A v \in Workers \ {w} : worker'[v] = worker[v]
      BY <2>5 DEF WorkerGoto, TypeOK
    <3>. QED  BY <2>1, <2>2, <2>5, <3>1
  <2>. QED  BY <2>4, <2>5 DEF SendPrompt
<1>3. Hand(w)'
  BY <1>2 DEF Hand, IsFirst
<1>4. CASE SamePrompts
  BY <1>2, <1>3, <1>4, WorkerKeepsOrder
<1>5. CASE sends' = [sends EXCEPT ![PromptRow(q)] = @ + 1] /\ UNCHANGED <<batch, cur>>
  <2>1. (\A y \in Rows : rowId[y] <= Cardinality(Inserted))'
    BY <1>2 DEF OrderInv, Inserted
  <2>2. HandInv'
    BY <1>2, <1>3 DEF OrderInv, HandInv, Hand, IsFirst
  <2>3. AheadInv'
    BY <1>2, <1>5 DEF OrderInv, AheadInv
  <2>4. \A p \in Pods : p # q => sends'[PromptRow(p)] = sends[PromptRow(p)]
    <3>1. \A p \in Pods : PromptRow(p) \in Rows /\ (p # q => PromptRow(p) # PromptRow(q))
      BY RowFacts
    <3>. QED  BY <1>5, <3>1 DEF TypeOK
  <2>5. ASSUME 0 < rowId[CreateRow(q)], rowId[CreateRow(q)] < rowId[PromptRow(q)],
               CreateRow(q) \notin expired
        PROVE  /\ CreateRow(q) \notin table
               /\ \A v \in Workers : v[1] = "drain" => CreateRow(q) \notin batch[v]
    <3>1. /\ CreateRow(q) \in Rows /\ PromptRow(q) \in batch[w]
          /\ rowId[CreateRow(q)] \in Nat /\ rowId[PromptRow(q)] \in Nat
      BY <1>1, <1>2, RowFacts DEF IsFirst, TypeOK
    <3>2. CreateRow(q) \notin batch[w]
      BY <1>1, <1>2, <2>5, <3>1 DEF IsFirst
    <3>3. CreateRow(q) \notin table
      BY <1>2, <2>5, <3>1, <3>2 DEF OrderInv, AheadInv
    <3>4. \A v \in Workers : v[1] = "drain" => v = w
      BY <1>2, WorkerFacts
    <3>. QED  BY <3>2, <3>3, <3>4
  <2>6. PassedInv'
    BY <1>2, <1>5, <2>4, <2>5 DEF OrderInv, PassedInv
  <2>. QED  BY <2>1, <2>2, <2>3, <2>6 DEF OrderInv
<1>6. SamePrompts \/ (sends' = [sends EXCEPT ![PromptRow(q)] = @ + 1] /\ UNCHANGED <<batch, cur>>)
  BY <1>1 DEF SendPrompt, SamePrompts
<1>. QED  BY <1>4, <1>5, <1>6

LEMMA WorkerStepKeepsOrder ==
  ASSUME \A r, s \in Replicas : r = s,
         TypeOK, CurFitsStep, OrderInv, NEW w \in Workers, WorkerStep(w)
  PROVE  OrderInv'
<1>. USE DEF WorkerAt, WorkerGoto, TypeOK, dbVars, histVars
<1>1. Hand(w)
  BY DEF OrderInv, HandInv
<1>2. CASE ListBatch(w)
  BY <1>2, ListBatchKeepsOrder
<1>3. CASE SendPrompt(w)
  BY <1>3, SendPromptKeepsOrder
<1>4. CASE EndBatch(w)
  <2>1. Hand(w)' /\ batch'[w] = {} /\ SamePrompts
    BY <1>1, <1>4, WorkerFacts DEF EndBatch, WorkerStop, Hand, SamePrompts
  <2>. QED  BY <1>4, <2>1, WorkerKeepsOrder DEF EndBatch, WorkerStop
<1>5. CASE TakeRow(w)
  <2>1. Hand(w)' /\ batch'[w] \in {{}, batch[w]} /\ SamePrompts
    BY <1>1, <1>5, WorkerFacts DEF TakeRow, WorkerStop, Hand, SamePrompts, IsFirst
  <2>. QED  BY <1>5, <2>1, WorkerKeepsOrder DEF TakeRow, WorkerStop
<1>6. CASE ReadCapacity(w)
  <2>1. Hand(w)' /\ batch'[w] \in {{}, batch[w]} /\ SamePrompts
    BY <1>1, <1>6 DEF ReadCapacity, WorkerStop, Hand, SamePrompts, IsFirst
  <2>. QED  BY <1>6, <2>1, WorkerKeepsOrder DEF ReadCapacity, WorkerStop
<1>7. CASE Claim(w) \/ DrainerIncrementPods(w) \/ DrainerDecrementPods(w) \/ ReadPromptPod(w)
  <2>1. Hand(w)' /\ UNCHANGED <<batch, cur, table, rowId, expired, sends>>
    BY <1>1, <1>7 DEF Claim, DrainerIncrementPods, DrainerDecrementPods,
                      ReadPromptPod, Hand, IsFirst
  <2>. QED  BY <1>7, <2>1, WorkerKeepsOrder
            DEF Claim, DrainerIncrementPods, DrainerDecrementPods, ReadPromptPod,
                SamePrompts
<1>8. CASE DrainerSend(w)
  <2>1. Hand(w)' /\ UNCHANGED <<batch, cur, table, rowId, expired>>
    BY <1>1, <1>8 DEF DrainerSend, Hand, IsFirst
  <2>2. PICK p \in Pods : cur[w] = CreateRow(p)
    BY <1>8 DEF DrainerSend, CurFitsStep
  <2>3. SamePrompts
    BY <1>8, <2>2, RowFacts DEF DrainerSend, SamePrompts
  <2>. QED  BY <1>8, <2>1, <2>3, WorkerKeepsOrder DEF DrainerSend
<1>9. CASE RevertClaim(w)
  <2>1. Hand(w)' /\ batch'[w] = {} /\ SamePrompts
    BY <1>1, <1>9 DEF RevertClaim, WorkerStop, Hand, SamePrompts
  <2>. QED  BY <1>9, <2>1, WorkerKeepsOrder DEF RevertClaim, WorkerStop
<1>10. CASE DeleteRow(w)
  <2>1. Hand(w)' /\ batch'[w] = batch[w] \ {cur[w]} /\ SamePrompts
    BY <1>1, <1>10 DEF DeleteRow, WorkerNextRow, Hand, SamePrompts
  <2>. QED  BY <1>10, <2>1, WorkerKeepsOrder DEF DeleteRow, WorkerNextRow
<1>11. CASE ExpireDelete(w)
  <2>1. /\ Hand(w)' /\ batch'[w] \in {batch[w], batch[w] \ {cur[w]}} /\ SamePrompts
        /\ table' = table \ {cur[w]} /\ UNCHANGED <<rowId, expired>>
    BY <1>1, <1>11 DEF ExpireDelete, WorkerNextRow, Hand, SamePrompts, IsFirst
  <2>2. \A v \in Workers \ {w} : /\ worker'[v] = worker[v]
                                 /\ batch'[v] = batch[v] /\ cur'[v] = cur[v]
    BY <1>11 DEF ExpireDelete, WorkerNextRow
  <2>. QED  BY <2>1, <2>2, WorkerKeepsOrder
<1>12. CASE MarkQueueExpired(w)
  <2>1. /\ Hand(w)' /\ batch'[w] = batch[w] \ {cur[w]} /\ SamePrompts
        /\ cur[w] \in expired /\ UNCHANGED <<table, rowId, expired>>
    BY <1>1, <1>12 DEF MarkQueueExpired, WorkerNextRow, Hand, SamePrompts
  <2>2. \A v \in Workers \ {w} : /\ worker'[v] = worker[v]
                                 /\ batch'[v] = batch[v] /\ cur'[v] = cur[v]
    BY <1>12 DEF MarkQueueExpired, WorkerNextRow
  <2>. QED  BY <2>1, <2>2, WorkerKeepsOrder
<1>. QED  BY <1>2, <1>3, <1>4, <1>5, <1>6, <1>7, <1>8, <1>9, <1>10, <1>11, <1>12
          DEF WorkerStep

\* Only an insert, the two loops of the backend and a crash touch what the
\* order of the rows depends on.
LEMMA PodStepKeepsOrder ==
  ASSUME DispatchInv, OrderInv, NEW p \in Pods, PodStep(p),
         \A q \in Pods : sends[PromptRow(q)] > 0 => rowId[PromptRow(q)] # 0
  PROVE  OrderInv'
<1>1. CASE EnqueueSendPrompt(p)
  BY <1>1, RowFacts, InsertKeepsOrder
  DEF EnqueueSendPrompt, DispatchInv, histVars
<1>2. CASE EnqueueCreatePod(p)
  <2>1. CASE Insert(CreateRow(p))
    <3>1. rowId[CreateRow(p)] = 0
      BY <1>2 DEF EnqueueCreatePod, CreatorAt, DispatchInv, CreatorExclusive,
                  Undecided, Parked
    <3>. QED  BY <1>2, <2>1, <3>1, RowFacts, InsertKeepsOrder
              DEF EnqueueCreatePod, DispatchInv, histVars
  <2>2. CASE UNCHANGED <<table, rowId>>
    BY <1>2, <2>2, RestKeepsOrder DEF EnqueueCreatePod, SamePrompts, histVars
  <2>. QED  BY <1>2, <2>1, <2>2 DEF EnqueueCreatePod
<1>3. CASE CreatorSend(p)
  <2>1. SamePrompts
    BY <1>3, RowFacts DEF CreatorSend, SamePrompts, DispatchInv, TypeOK
  <2>. QED  BY <1>3, <2>1, RestKeepsOrder DEF CreatorSend, dbVars
<1>4. CASE CreatorStep(p) /\ ~EnqueueCreatePod(p) /\ ~CreatorSend(p)
  <2>1. UNCHANGED <<table, rowId, expired, workerVars, sends>>
    BY <1>4 DEF CreatorStep, InsertPod, DispatchDeferredPod, CreatePodOrQueue,
       CreatorIncrementPods, CreatorDecrementPods, AlignInitializing, AlignQueued,
       Align, MarkDispatchFailed, MarkFailed, dbVars, histVars
  <2>. QED  BY <2>1, RestKeepsOrder DEF SamePrompts
<1>5. CASE \/ TerminatePod(p) \/ CancelPending(p) \/ TerminateQueued(p)
           \/ TerminateActive(p) \/ TerminateAborted(p)
           \/ HandlePodCreated(p) \/ HandlePodTerminated(p)
           \/ HandlePodError(p)
  <2>1. UNCHANGED <<rowId, expired, workerVars, sends>> /\ table' \subseteq table
    BY <1>5 DEF TerminatePod, CancelPending, TerminateQueued, TerminateActive,
       TerminateAborted, HandlePodCreated, HandlePodTerminated, HandlePodError,
       dbVars, histVars
  <2>. QED  BY <2>1, RestKeepsOrder DEF SamePrompts
<1>. QED  BY <1>1, <1>2, <1>3, <1>4, <1>5 DEF PodStep

LEMMA ReplicaStepKeepsOrder ==
  ASSUME TypeOK, OrderInv, NEW r \in Replicas, ReplicaStep(r)
  PROVE  OrderInv'
<1>. USE DEF TypeOK, dbVars, histVars
<1>1. CASE DrainRunner(r)
  <2>. DEFINE w == Drainer(r)
  <2>1. w \in Workers /\ w[1] = "drain"
    BY WorkerFacts
  <2>. HIDE DEF w
  <2>2. /\ worker' = [worker EXCEPT ![w] = "list"]
        /\ UNCHANGED <<batch, cur, table, rowId, expired, sends>>
    BY <1>1 DEF DrainRunner, WorkerGoto, w
  <2>3. Hand(w)'
    BY <2>1, <2>2 DEF Hand
  <2>. QED  BY <2>1, <2>2, <2>3, WorkerKeepsOrder DEF SamePrompts
<1>2. CASE SweepExpired(r)
  <2>. DEFINE w == Sweeper(r)
  <2>1. w \in Workers /\ w[1] = "sweep"
    BY WorkerFacts
  <2>. HIDE DEF w
  <2>2. /\ worker' = [worker EXCEPT ![w] = "row"]
        /\ batch' = [batch EXCEPT ![w] = table \cap expired]
        /\ UNCHANGED <<cur, table, rowId, expired, sends>>
    BY <1>2 DEF SweepExpired, WorkerGoto, w
  <2>3. \A v \in Workers : v[1] = "drain" => batch'[v] = batch[v]
    BY <2>1, <2>2
  <2>4. (\A y \in Rows : rowId[y] <= Cardinality(Inserted))'
    BY <2>2 DEF OrderInv, Inserted
  <2>5. HandInv'
    BY <2>1, <2>2 DEF OrderInv, HandInv, Hand, IsFirst
  <2>6. AheadInv'
    BY <2>2, <2>3 DEF OrderInv, AheadInv
  <2>7. PassedInv'
    BY <2>2, <2>3 DEF OrderInv, PassedInv
  <2>. QED  BY <2>4, <2>5, <2>6, <2>7 DEF OrderInv
<1>3. CASE Crash(r)
  <2>1. /\ UNCHANGED <<table, rowId, expired, sends>>
        /\ \A w \in Workers :
             \/ worker'[w] = "idle" /\ batch'[w] = {}
             \/ /\ worker'[w] = worker[w] /\ batch'[w] = batch[w]
                /\ cur'[w] = cur[w]
    BY <1>3 DEF Crash
  <2>2. (\A y \in Rows : rowId[y] <= Cardinality(Inserted))'
    BY <2>1 DEF OrderInv, Inserted
  <2>3. HandInv'
    BY <2>1 DEF OrderInv, HandInv, Hand, IsFirst
  <2>4. AheadInv'
    BY <2>1 DEF OrderInv, AheadInv
  <2>5. PassedInv'
    BY <2>1 DEF OrderInv, PassedInv
  <2>. QED  BY <2>2, <2>3, <2>4, <2>5 DEF OrderInv
<1>4. CASE \/ DecrementPods(r) \/ RunnerConnects(r) \/ StreamLost(r)
           \/ ListPodsToFail(r) \/ FailInitializing(r) \/ FailQueued(r)
  <2>1. UNCHANGED <<rowId, expired, workerVars, sends>> /\ table' \subseteq table
    BY <1>4 DEF DecrementPods, RunnerConnects, StreamLost, ListPodsToFail,
       FailInitializing, FailQueued
  <2>. QED  BY <2>1, RestKeepsOrder DEF SamePrompts
<1>. QED  BY <1>1, <1>2, <1>3, <1>4 DEF ReplicaStep

\* A prompt that was sent had been parked.
SentWasParked == \A p \in Pods : sends[PromptRow(p)] > 0 => rowId[PromptRow(p)] # 0

LEMMA SentStaysParked ==
  ASSUME DispatchInv, SentWasParked, [Next]_vars
  PROVE  SentWasParked'
<1>. USE DEF DispatchInv
<1>1. \A x \in Rows : rowId[x] # 0 => rowId'[x] # 0
  <2>1. CASE \E x \in Rows : Insert(x)
    BY <2>1, InsertFacts
  <2>2. CASE UNCHANGED rowId
    BY <2>2
  <2>3. UNCHANGED rowId \/ \E x \in Rows : Insert(x)
    <3>1. ASSUME NEW p \in Pods, PodStep(p)
          PROVE  UNCHANGED rowId \/ \E x \in Rows : Insert(x)
      BY <3>1, RowFacts
      DEF PodStep, CreatorStep, InsertPod, DispatchDeferredPod, CreatePodOrQueue,
       CreatorIncrementPods, CreatorSend, CreatorDecrementPods, EnqueueCreatePod,
       AlignInitializing, AlignQueued, Align, MarkDispatchFailed, MarkFailed,
       EnqueueSendPrompt, TerminatePod, CancelPending, TerminateQueued,
       TerminateActive, TerminateAborted, HandlePodCreated, HandlePodTerminated,
       HandlePodError, dbVars
    <3>2. ASSUME NEW w \in Workers, WorkerStep(w)
          PROVE  UNCHANGED rowId
      BY <3>2
      DEF WorkerStep, ListBatch, EndBatch, TakeRow, ReadCapacity, Claim,
       DrainerIncrementPods, DrainerSend, DrainerDecrementPods, RevertClaim,
       ReadPromptPod, SendPrompt, DeleteRow, ExpireDelete, MarkQueueExpired, dbVars
    <3>3. ASSUME NEW r \in Replicas, ReplicaStep(r)
          PROVE  UNCHANGED rowId
      BY <3>3
      DEF ReplicaStep, DrainRunner, SweepExpired, DecrementPods, RunnerConnects,
       StreamLost, ListPodsToFail, FailInitializing, FailQueued, Crash, dbVars
    <3>. QED  BY <3>1, <3>2, <3>3 DEF Next, Expire, vars, dbVars
  <2>. QED  BY <2>1, <2>2, <2>3
<1>2. ASSUME NEW p \in Pods, sends'[PromptRow(p)] # sends[PromptRow(p)]
      PROVE  rowId[PromptRow(p)] # 0
  <2>1. PICK w \in Workers : SendPrompt(w)
    <3>1. ASSUME NEW q \in Pods, PodStep(q)
          PROVE  SamePrompts
      <4>1. UNCHANGED sends \/ CreatorSend(q)
        BY <3>1
        DEF PodStep, CreatorStep, InsertPod, DispatchDeferredPod, CreatePodOrQueue,
         CreatorIncrementPods, CreatorDecrementPods, EnqueueCreatePod,
         AlignInitializing, AlignQueued, Align, MarkDispatchFailed, MarkFailed,
         EnqueueSendPrompt, TerminatePod, CancelPending, TerminateQueued,
         TerminateActive, TerminateAborted, HandlePodCreated, HandlePodTerminated,
         HandlePodError, histVars
      <4>2. CASE CreatorSend(q)
        BY <4>2, RowFacts DEF CreatorSend, SamePrompts, TypeOK
      <4>. QED  BY <4>1, <4>2 DEF SamePrompts
    <3>2. ASSUME NEW w \in Workers, WorkerStep(w), ~SendPrompt(w)
          PROVE  SamePrompts
      <4>1. CASE DrainerSend(w)
        <5>1. PICK q \in Pods : cur[w] = CreateRow(q)
          BY <4>1 DEF DrainerSend, CurFitsStep, WorkerAt
        <5>. QED  BY <4>1, <5>1, RowFacts DEF DrainerSend, SamePrompts, TypeOK
      <4>2. CASE UNCHANGED sends
        BY <4>2 DEF SamePrompts
      <4>3. UNCHANGED sends \/ DrainerSend(w)
        BY <3>2
        DEF WorkerStep, ListBatch, EndBatch, TakeRow, ReadCapacity, Claim,
         DrainerIncrementPods, DrainerDecrementPods, RevertClaim,
         ReadPromptPod, DeleteRow, ExpireDelete, MarkQueueExpired, histVars
      <4>. QED  BY <4>1, <4>2, <4>3
    <3>3. ASSUME NEW r \in Replicas, ReplicaStep(r)
          PROVE  SamePrompts
      BY <3>3
      DEF ReplicaStep, DrainRunner, SweepExpired, DecrementPods, RunnerConnects,
       StreamLost, ListPodsToFail, FailInitializing, FailQueued, Crash, histVars,
       SamePrompts
    <3>4. ASSUME NEW x \in Rows, Expire(x) PROVE SamePrompts
      BY <3>4 DEF Expire, histVars, SamePrompts
    <3>5. ~SamePrompts
      BY <1>2 DEF SamePrompts
    <3>6. CASE UNCHANGED vars
      BY <3>5, <3>6 DEF vars, histVars, SamePrompts
    <3>. QED  BY <3>1, <3>2, <3>3, <3>4, <3>5, <3>6 DEF Next
  <2>2. PICK q \in Pods : cur[w] = PromptRow(q)
    BY <2>1 DEF SendPrompt, CurFitsStep, WorkerAt
  <2>3. rowId[PromptRow(q)] # 0
    BY <2>2, RowFacts DEF RowsHaveIds
  <2>4. p = q
    BY <1>2, <2>1, <2>2, RowFacts DEF SendPrompt, TypeOK
  <2>. QED  BY <2>3, <2>4
<1>. QED  BY <1>1, <1>2, RowFacts DEF SentWasParked

LEMMA InitOrder == Init => OrderInv /\ SentWasParked
<1>. SUFFICES ASSUME Init PROVE OrderInv /\ SentWasParked
  OBVIOUS
<1>1. Inserted = {} /\ Cardinality(Inserted) = 0
  BY FS_EmptySet DEF Init, Inserted
<1>2. \A p \in Pods : sends[PromptRow(p)] = 0
  BY RowFacts DEF Init
<1>. QED  BY <1>1, <1>2 DEF Init, OrderInv, HandInv, Hand, AheadInv, PassedInv, SentWasParked

\* A prompt parked behind the create_pod of its pod is not sent before it, for
\* any number of pods, rows, batch sizes, cancels and crashes, where one process
\* drains (drainRunner).  A second one that loses the claim deletes the row and
\* sends the prompt while the first has yet to send the create_pod.
THEOREM OneReplicaKeepsOrder ==
  ASSUME \A r, s \in Replicas : r = s
  PROVE  Spec => []SentInRowOrder
<1>1. Init => OrderInv /\ SentWasParked
  BY InitOrder
<1>2. DispatchInv /\ OrderInv /\ SentWasParked /\ [Next]_vars
        => OrderInv' /\ SentWasParked'
  <2>. SUFFICES ASSUME DispatchInv, OrderInv, SentWasParked, [Next]_vars
                PROVE  OrderInv'
    BY SentStaysParked
  <2>1. ASSUME NEW x \in Rows, Expire(x) PROVE OrderInv'
    BY <2>1, RestKeepsOrder DEF Expire, histVars, SamePrompts
  <2>2. CASE UNCHANGED vars
    BY <2>2, RestKeepsOrder DEF vars, dbVars, histVars, SamePrompts
  <2>. QED  BY <2>1, <2>2, PodStepKeepsOrder, WorkerStepKeepsOrder,
               ReplicaStepKeepsOrder DEF Next, DispatchInv, SentWasParked
<1>3. DispatchInv /\ OrderInv => SentInRowOrder
  <2>. SUFFICES ASSUME DispatchInv, OrderInv, NEW p \in Pods, NEW w \in Workers,
                       0 < rowId[CreateRow(p)],
                       rowId[CreateRow(p)] < rowId[PromptRow(p)],
                       CreateRow(p) \notin expired, sends[PromptRow(p)] > 0,
                       cur[w] = CreateRow(p), worker[w] = "send"
                PROVE  FALSE
    BY DEF SentInRowOrder, WorkerAt
  <2>1. w[1] = "drain" /\ CreateRow(p) \in batch[w]
    BY WorkerFacts DEF OrderInv, HandInv, Hand, IsFirst
  <2>. QED  BY <2>1 DEF OrderInv, PassedInv
<1>. QED  BY <1>1, <1>2, <1>3, DispatchInvariant, PTL DEF Spec

=============================================================================
