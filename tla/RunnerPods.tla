----------------------------- MODULE RunnerPods -----------------------------
(***************************************************************************)
(* The pods of one runner daemon, and its stream to the backend.           *)
(*                                                                         *)
(* Commands for a pod run one after the other in the worker of its queue   *)
(* (PodCommandQueue).  The exit handler of a process, the ticker of the    *)
(* PodReconciler and the watchdog of an ACP pod are goroutines of their    *)
(* own; they share the pod store with the worker.  Events for the backend  *)
(* wait in controlCh, which outlives a stream; a termination that cannot   *)
(* be queued is held until the next stream is initialised.                 *)
(***************************************************************************)
EXTENDS Naturals, Sequences

CONSTANTS
  Pods,
  MaxStarts   \* bound of the model: processes ever started for a pod

ASSUME RunnerAssumption == MaxStarts \in Nat \ {0}

VARIABLES
  kind,       \* of each pod: an ACP session, or a terminal, maybe perpetual
  commands,   \* sent to the runner for each pod, and not begun yet
  worker,     \* what the worker of each pod is doing
  exiting,    \* what the exit handler of each pod is doing
  store,      \* the keys in podStore
  ready,      \* pods whose object says PodStatusRunning
  starts,     \* processes started for each pod; they are numbered
  live,       \* the processes that run
  io,         \* the process pod.IO belongs to, 0 before the first
  connected,  \* is there an initialised stream?
  out,        \* controlCh and what is on the wire
  held        \* pendingPodTerminations: a status for each pod, or "none"

podVars == <<worker, exiting, store, ready, starts, live, io>>
streamVars == <<commands, connected, out, held>>
runnerVars == <<kind, podVars, streamVars>>

Kinds == {"acp", "terminal", "perpetual"}
ExitStatus == {"completed", "error"}
Event == [type : {"created", "error", "session_lost"}, pod : Pods]
           \cup [type : {"terminated"}, pod : Pods, status : ExitStatus]
           \cup [type : {"heartbeat"}, pods : SUBSET Pods]

RunnerInit ==
  /\ kind \in [Pods -> Kinds]
  /\ commands = [p \in Pods |-> <<"create_pod">>]
  /\ worker = [p \in Pods |-> "idle"] /\ exiting = [p \in Pods |-> "none"]
  /\ store = {} /\ ready = {}
  /\ starts = [p \in Pods |-> 0] /\ live = [p \in Pods |-> {}]
  /\ io = [p \in Pods |-> 0]
  /\ connected = TRUE /\ out = <<>> /\ held = [p \in Pods |-> "none"]

-----------------------------------------------------------------------------
(* The stream.                                                             *)

\* sendControl fails without a stream, and nobody repeats the event.
Say(events) == out' = IF connected THEN out \o events ELSE out

SayTerminated(p, status) ==
  /\ Say(<<[type |-> "terminated", pod |-> p, status |-> status]>>)
  /\ held' = IF connected THEN held ELSE [held EXCEPT ![p] = status]

FlushPendingPodTerminations(p) ==
  /\ connected /\ held[p] # "none"
  /\ Say(<<[type |-> "terminated", pod |-> p, status |-> held[p]]>>)
  /\ held' = [held EXCEPT ![p] = "none"]
  /\ UNCHANGED <<kind, podVars, commands, connected>>

SendHeartbeat ==
  /\ connected /\ \A i \in DOMAIN out : out[i].type # "heartbeat"
  /\ Say(<<[type |-> "heartbeat", pods |-> store]>>)
  /\ UNCHANGED <<kind, podVars, commands, connected, held>>

\* What the runner had not received, and what was on the wire to the backend,
\* is lost; the rest of controlCh goes out on the next stream.
Prefixes(s) == {SubSeq(s, 1, n) : n \in 0..Len(s)}
LoseStream ==
  /\ connected /\ connected' = FALSE
  /\ \E n \in 0..Len(out) : out' = SubSeq(out, n + 1, Len(out))
  /\ \E kept \in [Pods -> UNION {Prefixes(commands[p]) : p \in Pods}] :
       /\ \A p \in Pods : kept[p] \in Prefixes(commands[p])
       /\ commands' = kept
  /\ UNCHANGED <<kind, podVars, held>>

Reconnect ==
  /\ ~connected /\ connected' = TRUE
  /\ UNCHANGED <<kind, podVars, commands, out, held>>

\* What the backend sends reaches the runner only on a stream.
Send(p, command) ==
  commands' = IF connected
              THEN [commands EXCEPT ![p] = Append(@, command)] ELSE commands

-----------------------------------------------------------------------------
(* The worker of a pod.                                                    *)

Take(p, command) ==
  /\ worker[p] = "idle" /\ commands[p] # <<>> /\ Head(commands[p]) = command
  /\ commands' = [commands EXCEPT ![p] = Tail(@)]

GoOn(p, step) == worker' = [worker EXCEPT ![p] = step]
Forget(p) == store' = store \ {p} /\ ready' = ready \ {p}
Start(p) ==
  /\ starts[p] < MaxStarts
  /\ starts' = [starts EXCEPT ![p] = @ + 1]
  /\ live' = [live EXCEPT ![p] = @ \cup {starts[p] + 1}]

OnCreatePod(p) ==
  /\ Take(p, "create_pod") /\ p \notin store
  /\ store' = store \cup {p}
  /\ GoOn(p, "building")
  /\ UNCHANGED <<kind, exiting, ready, starts, live, io, connected, out, held>>

BuildFails(p) ==
  /\ worker[p] = "building" /\ Forget(p)
  /\ Say(<<[type |-> "error", pod |-> p]>>)
  /\ GoOn(p, "idle")
  /\ UNCHANGED <<kind, exiting, starts, live, io, commands, connected, held>>

\* The process runs before the pod is reported, and may be gone by then.
StartIO(p) ==
  /\ worker[p] = "building" /\ Start(p)
  /\ io' = [io EXCEPT ![p] = starts[p] + 1]
  /\ GoOn(p, "starting")
  /\ UNCHANGED <<kind, exiting, store, ready, streamVars>>

\* NewSession of an ACP pod fails: abortACPPodStartup.
AbortStartup(p) ==
  /\ worker[p] = "starting" /\ kind[p] = "acp" /\ Forget(p)
  /\ live' = [live EXCEPT ![p] = @ \ {io[p]}]
  /\ Say(<<[type |-> "error", pod |-> p]>>)
  /\ GoOn(p, "idle")
  /\ UNCHANGED <<kind, exiting, starts, io, commands, connected, held>>

SendPodCreated(p) ==
  /\ worker[p] = "starting"
  /\ ready' = IF p \in store THEN ready \cup {p} ELSE ready
  /\ Say(<<[type |-> "created", pod |-> p]>>)
  /\ GoOn(p, "idle")
  /\ UNCHANGED <<kind, exiting, store, starts, live, io, commands, connected,
                 held>>

OnTerminatePod(p) ==
  /\ Take(p, "terminate_pod")
  /\ Forget(p)
  /\ GoOn(p, IF p \in store THEN "stopping" ELSE "idle")
  /\ UNCHANGED <<kind, exiting, starts, live, io, connected, out, held>>

StopIO(p) ==
  /\ worker[p] = "stopping"
  /\ live' = [live EXCEPT ![p] = @ \ {io[p]}]
  /\ SayTerminated(p, "completed")
  /\ GoOn(p, "idle")
  /\ UNCHANGED <<kind, exiting, store, ready, starts, io, commands, connected>>

-----------------------------------------------------------------------------
(* The other goroutines.                                                   *)

Exiting(p, step) == exiting' = [exiting EXCEPT ![p] = step]

\* A process ends by itself.  One exit of a pod is handled at a time, a bound
\* of the model.
ProcessExits(p) ==
  /\ exiting[p] = "none"
  /\ \E n \in live[p] : live' = [live EXCEPT ![p] = @ \ {n}]
  /\ Exiting(p, "exited")
  /\ UNCHANGED <<kind, worker, store, ready, starts, io, streamVars>>

\* cleanupPodExit finds the pod gone, or takes it out for good.
CleanupPodExit(p) ==
  /\ exiting[p] = "exited" /\ Exiting(p, "none")
  /\ Forget(p)
  /\ IF p \in store
     THEN \E s \in ExitStatus :
            (kind[p] = "perpetual" => s = "error") /\ SayTerminated(p, s)
     ELSE UNCHANGED <<out, held>>
  /\ UNCHANGED <<kind, worker, starts, live, io, commands, connected>>

\* Mutant: every pod that exits cleanly is started again.
TakeOutAny(p) ==
  /\ exiting[p] = "exited" /\ p \in store
  /\ store' = store \ {p} /\ Exiting(p, "taken_out")
  /\ UNCHANGED <<kind, worker, ready, starts, live, io, streamVars>>

\* A perpetual pod that exits cleanly is taken out, put back and restarted.
TakeOutPerpetual(p) ==
  /\ exiting[p] = "exited" /\ p \in store /\ kind[p] = "perpetual"
  /\ store' = store \ {p} /\ Exiting(p, "taken_out")
  /\ UNCHANGED <<kind, worker, ready, starts, live, io, streamVars>>

PutBack(p) ==
  /\ exiting[p] = "taken_out"
  /\ store' = store \cup {p} /\ Exiting(p, "restarting")
  /\ UNCHANGED <<kind, worker, ready, starts, live, io, streamVars>>

CreateSession(p) ==
  /\ exiting[p] = "restarting" /\ Start(p) /\ Exiting(p, "rebuilding")
  /\ UNCHANGED <<kind, worker, store, ready, io, streamVars>>

\* cleanupPodExitFinal, whoever else has taken the pod out meanwhile.
RestartFails(p) ==
  /\ exiting[p] = "restarting" /\ Exiting(p, "none")
  /\ Forget(p) /\ SayTerminated(p, "completed")
  /\ UNCHANGED <<kind, worker, starts, live, io, commands, connected>>

RebuildPTYIO(p) ==
  /\ exiting[p] = "rebuilding" /\ Exiting(p, "none")
  /\ io' = [io EXCEPT ![p] = starts[p]]
  /\ ready' = IF p \in store THEN ready \cup {p} ELSE ready
  /\ UNCHANGED <<kind, worker, store, starts, live, streamVars>>

\* The PodReconciler finds a dead process before its exit handler has run,
\* or while the pod is being restarted.
ReconcileDeadProcess(p) ==
  /\ p \in store \cap ready /\ kind[p] # "acp" /\ io[p] \notin live[p]
  /\ Forget(p) /\ SayTerminated(p, "completed")
  /\ UNCHANGED <<kind, worker, exiting, starts, live, io, commands, connected>>

\* A prompt fails or a turn stalls: the error goes out, then the cleanup.
FailACPPod(p) ==
  /\ kind[p] = "acp" /\ p \in store /\ io[p] # 0
  /\ Forget(p)
  /\ live' = [live EXCEPT ![p] = @ \ {io[p]}]
  /\ Say(<<[type |-> "session_lost", pod |-> p],
           [type |-> "terminated", pod |-> p, status |-> "error"]>>)
  /\ held' = IF connected THEN held ELSE [held EXCEPT ![p] = "error"]
  /\ UNCHANGED <<kind, worker, exiting, starts, io, commands, connected>>

HandleExit(p) ==
  \/ CleanupPodExit(p) \/ TakeOutPerpetual(p) \/ PutBack(p)
  \/ CreateSession(p) \/ RestartFails(p) \/ RebuildPTYIO(p)
Work(p) ==
  \/ OnCreatePod(p) \/ BuildFails(p) \/ StartIO(p) \/ AbortStartup(p)
  \/ SendPodCreated(p) \/ OnTerminatePod(p) \/ StopIO(p)
RunnerStep(p) ==
  \/ Work(p) \/ HandleExit(p) \/ ReconcileDeadProcess(p)
  \/ FlushPendingPodTerminations(p)
=============================================================================
