------------------------ MODULE PodReconcile_proofs ------------------------
(***************************************************************************)
(* Proofs about PodReconcile and RunnerPods: types, that no process runs   *)
(* on behind the runner's list, and what a heartbeat may not do.           *)
(***************************************************************************)
EXTENDS PodReconcile, SequenceTheorems, TLAPS

Commands == {"create_pod", "terminate_pod"}

\* The part of TypeOK that is the runner's.
RunnerTypes ==
  /\ kind \in [Pods -> Kinds]
  /\ commands \in [Pods -> Seq(Commands)]
  /\ worker \in [Pods -> {"idle", "building", "starting", "stopping"}]
  /\ exiting \in [Pods -> {"none", "exited", "taken_out", "restarting",
                           "rebuilding"}]
  /\ store \subseteq Pods /\ ready \subseteq Pods
  /\ starts \in [Pods -> 0..MaxStarts]
  /\ live \in [Pods -> SUBSET (1..MaxStarts)] /\ io \in [Pods -> 0..MaxStarts]
  /\ connected \in BOOLEAN /\ out \in Seq(Event)
  /\ held \in [Pods -> ExitStatus \cup {"none"}]

\* A pod is created at most once, before any other command for it.
CreateComesFirst(p) ==
  \A i \in 1..Len(commands[p]) :
    commands[p][i] = "create_pod" => i = 1 /\ worker[p] = "idle" /\ starts[p] = 0

\* Only a perpetual pod ever has a second process.
OneProcess(p) ==
  /\ exiting[p] \in {"none", "exited"} /\ live[p] \subseteq {io[p]}
  /\ exiting[p] = "exited" => live[p] = {}
  /\ Seen(p)

PodInv(p) ==
  /\ live[p] \subseteq 1..starts[p] /\ io[p] <= starts[p]
  /\ CreateComesFirst(p)
  /\ worker[p] = "building" => starts[p] = 0 /\ p \in store
  /\ worker[p] = "starting" => starts[p] # 0
  /\ starts[p] = 0 => p \notin ready /\ exiting[p] = "none"
  /\ kind[p] # "perpetual" => OneProcess(p)

RunnerInv == RunnerTypes /\ \A p \in Pods : PodInv(p)

-----------------------------------------------------------------------------
(* A step for one pod leaves the others alone.                             *)

SamePod(p) ==
  /\ kind'[p] = kind[p] /\ commands'[p] = commands[p]
  /\ worker'[p] = worker[p] /\ exiting'[p] = exiting[p]
  /\ (p \in store' <=> p \in store) /\ (p \in ready' <=> p \in ready)
  /\ starts'[p] = starts[p] /\ live'[p] = live[p] /\ io'[p] = io[p]

LEMMA SamePodKeeps ==
  ASSUME NEW p \in Pods, PodInv(p), SamePod(p)
  PROVE  PodInv(p)'
  BY DEF PodInv, SamePod, CreateComesFirst, OneProcess, Seen

LEMMA OnePodMoves ==
  ASSUME RunnerInv, NEW q \in Pods, RunnerTypes', PodInv(q)',
         \A p \in Pods \ {q} : SamePod(p)
  PROVE  RunnerInv'
  BY SamePodKeeps DEF RunnerInv

LEMMA SayTypes ==
  ASSUME RunnerTypes, NEW events \in Seq(Event), Say(events)
  PROVE  out' \in Seq(Event)
<1>1. out \o events \in Seq(Event)
  BY ConcatProperties DEF RunnerTypes
<1> QED BY <1>1 DEF Say, RunnerTypes

LEMMA SayTerminatedTypes ==
  ASSUME RunnerTypes, NEW p \in Pods, NEW status \in ExitStatus,
         SayTerminated(p, status)
  PROVE  /\ out' \in Seq(Event)
         /\ held' \in [Pods -> ExitStatus \cup {"none"}]
<1>1. <<[type |-> "terminated", pod |-> p, status |-> status]>> \in Seq(Event)
  BY DEF Event
<1>2. out' \in Seq(Event)
  BY <1>1, SayTypes DEF SayTerminated
<1> QED BY <1>2 DEF SayTerminated, RunnerTypes

\* A worker takes the first command of its queue.
LEMMA TakeTypes ==
  ASSUME RunnerInv, NEW p \in Pods, NEW command \in Commands, Take(p, command)
  PROVE  /\ commands' \in [Pods -> Seq(Commands)]
         /\ \A q \in Pods \ {p} : commands'[q] = commands[q]
         /\ \A i \in 1..Len(commands'[p]) : commands'[p][i] # "create_pod"
         /\ command = "create_pod" => starts[p] = 0
<1> DEFINE s == commands[p]
<1>1. s \in Seq(Commands) /\ s # <<>> /\ Head(s) = command
      /\ commands' = [commands EXCEPT ![p] = Tail(s)]
  BY DEF RunnerInv, RunnerTypes, Take
<1>2. /\ Tail(s) \in Seq(Commands) /\ Len(Tail(s)) = Len(s) - 1
      /\ \A i \in 1..Len(Tail(s)) : Tail(s)[i] = s[i + 1]
      /\ Len(s) \in Nat /\ Head(s) = s[1]
  BY <1>1, HeadTailProperties, LenProperties
<1>3. Len(s) # 0
  BY <1>1, <1>2, EmptySeq
<1>4. commands'[p] = Tail(s)
      /\ \A q \in Pods \ {p} : commands'[q] = commands[q]
  BY <1>1 DEF RunnerInv, RunnerTypes
<1>5. \A i \in 1..Len(s) : s[i] = "create_pod" => i = 1 /\ starts[p] = 0
  BY DEF RunnerInv, PodInv, CreateComesFirst
<1>6. commands' \in [Pods -> Seq(Commands)]
  BY <1>1, <1>2 DEF RunnerInv, RunnerTypes
<1> HIDE DEF s
<1>7. \A i \in 1..Len(Tail(s)) : i + 1 \in 1..Len(s) /\ i + 1 # 1
  BY <1>2
<1>8. \A i \in 1..Len(Tail(s)) : Tail(s)[i] # "create_pod"
  BY <1>2, <1>5, <1>7
<1>9. command = "create_pod" => starts[p] = 0
  BY <1>1, <1>2, <1>3, <1>5
<1> QED BY <1>4, <1>6, <1>8, <1>9

-----------------------------------------------------------------------------
(* The worker of a pod.                                                    *)

LEMMA CreateKeeps ==
  ASSUME RunnerInv, NEW q \in Pods, OnCreatePod(q)
  PROVE  RunnerInv'
<1>1. /\ commands' \in [Pods -> Seq(Commands)]
      /\ \A p \in Pods \ {q} : commands'[p] = commands[p]
      /\ \A i \in 1..Len(commands'[q]) : commands'[q][i] # "create_pod"
      /\ starts[q] = 0
  BY TakeTypes DEF OnCreatePod, Commands
<1>2. RunnerTypes' /\ \A p \in Pods \ {q} : SamePod(p)
  BY <1>1 DEF OnCreatePod, GoOn, RunnerInv, RunnerTypes, SamePod
<1>3. PodInv(q)'
  BY <1>1 DEF OnCreatePod, Take, GoOn, RunnerInv, RunnerTypes, PodInv,
              CreateComesFirst, OneProcess, Seen
<1> QED BY <1>2, <1>3, OnePodMoves

LEMMA TerminateKeeps ==
  ASSUME RunnerInv, NEW q \in Pods, OnTerminatePod(q)
  PROVE  RunnerInv'
<1>1. /\ commands' \in [Pods -> Seq(Commands)]
      /\ \A p \in Pods \ {q} : commands'[p] = commands[p]
      /\ \A i \in 1..Len(commands'[q]) : commands'[q][i] # "create_pod"
  BY TakeTypes DEF OnTerminatePod, Commands
<1>2. RunnerTypes' /\ \A p \in Pods \ {q} : SamePod(p)
  BY <1>1 DEF OnTerminatePod, GoOn, Forget, RunnerInv, RunnerTypes, SamePod
<1>3. PodInv(q)'
  BY <1>1 DEF OnTerminatePod, Take, GoOn, Forget, RunnerInv, RunnerTypes,
              PodInv, CreateComesFirst, OneProcess, Seen
<1> QED BY <1>2, <1>3, OnePodMoves

LEMMA BuildKeeps ==
  ASSUME RunnerInv, NEW q \in Pods, BuildFails(q) \/ StartIO(q)
  PROVE  RunnerInv'
<1> USE RunnerAssumption
<1>1. CASE BuildFails(q)
  <2>1. <<[type |-> "error", pod |-> q]>> \in Seq(Event)
    BY DEF Event
  <2>2. out' \in Seq(Event)
    BY <1>1, <2>1, SayTypes DEF RunnerInv, BuildFails
  <2>3. RunnerTypes' /\ \A p \in Pods \ {q} : SamePod(p)
    BY <1>1, <2>2 DEF BuildFails, GoOn, Forget, RunnerInv, RunnerTypes, SamePod
  <2>4. PodInv(q)'
    BY <1>1 DEF BuildFails, GoOn, Forget, RunnerInv, RunnerTypes,
                PodInv, CreateComesFirst, OneProcess, Seen
  <2> QED BY <2>3, <2>4, OnePodMoves
<1>2. CASE StartIO(q)
  <2>1. RunnerTypes' /\ \A p \in Pods \ {q} : SamePod(p)
    BY <1>2 DEF StartIO, GoOn, Start, RunnerInv, RunnerTypes, SamePod, streamVars
  <2>2. PodInv(q)'
    BY <1>2 DEF StartIO, GoOn, Start, RunnerInv, RunnerTypes, streamVars,
                PodInv, CreateComesFirst, OneProcess, Seen
  <2> QED BY <2>1, <2>2, OnePodMoves
<1> QED BY <1>1, <1>2

LEMMA StartupKeeps ==
  ASSUME RunnerInv, NEW q \in Pods, AbortStartup(q) \/ SendPodCreated(q)
  PROVE  RunnerInv'
<1>1. CASE AbortStartup(q)
  <2>1. <<[type |-> "error", pod |-> q]>> \in Seq(Event)
    BY DEF Event
  <2>2. out' \in Seq(Event)
    BY <1>1, <2>1, SayTypes DEF RunnerInv, AbortStartup
  <2>3. RunnerTypes' /\ \A p \in Pods \ {q} : SamePod(p)
    BY <1>1, <2>2 DEF AbortStartup, GoOn, Forget, RunnerInv, RunnerTypes, SamePod
  <2>4. PodInv(q)'
    BY <1>1 DEF AbortStartup, GoOn, Forget, RunnerInv, RunnerTypes,
                PodInv, CreateComesFirst, OneProcess, Seen
  <2> QED BY <2>3, <2>4, OnePodMoves
<1>2. CASE SendPodCreated(q)
  <2>1. <<[type |-> "created", pod |-> q]>> \in Seq(Event)
    BY DEF Event
  <2>2. out' \in Seq(Event)
    BY <1>2, <2>1, SayTypes DEF RunnerInv, SendPodCreated
  <2>3. RunnerTypes' /\ \A p \in Pods \ {q} : SamePod(p)
    BY <1>2, <2>2 DEF SendPodCreated, GoOn, RunnerInv, RunnerTypes, SamePod
  <2>4. PodInv(q)'
    BY <1>2 DEF SendPodCreated, GoOn, RunnerInv, RunnerTypes,
                PodInv, CreateComesFirst, OneProcess, Seen
  <2> QED BY <2>3, <2>4, OnePodMoves
<1> QED BY <1>1, <1>2

LEMMA StopKeeps ==
  ASSUME RunnerInv, NEW q \in Pods, StopIO(q)
  PROVE  RunnerInv'
<1>1. /\ out' \in Seq(Event)
      /\ held' \in [Pods -> ExitStatus \cup {"none"}]
  BY SayTerminatedTypes DEF RunnerInv, StopIO, ExitStatus
<1>2. RunnerTypes' /\ \A p \in Pods \ {q} : SamePod(p)
  BY <1>1 DEF StopIO, GoOn, RunnerInv, RunnerTypes, SamePod
<1>3. PodInv(q)'
  BY DEF StopIO, GoOn, RunnerInv, RunnerTypes,
         PodInv, CreateComesFirst, OneProcess, Seen
<1> QED BY <1>2, <1>3, OnePodMoves

-----------------------------------------------------------------------------
(* The other goroutines.                                                   *)

LEMMA ExitKeeps ==
  ASSUME RunnerInv, NEW q \in Pods, HandleExit(q) \/ ReconcileDeadProcess(q)
  PROVE  RunnerInv'
<1> USE RunnerAssumption DEF RunnerInv, RunnerTypes
<1> USE DEF Exiting, Forget
<1>1. CASE CleanupPodExit(q)
  <2>1. /\ out' \in Seq(Event)
        /\ held' \in [Pods -> ExitStatus \cup {"none"}]
    BY <1>1, SayTerminatedTypes DEF CleanupPodExit
  <2>2. RunnerTypes' /\ \A p \in Pods \ {q} : SamePod(p)
    BY <1>1, <2>1 DEF CleanupPodExit, SamePod
  <2>3. PodInv(q)'
    BY <1>1 DEF CleanupPodExit, PodInv, CreateComesFirst, OneProcess, Seen
  <2> QED BY <2>2, <2>3, OnePodMoves
<1>2. CASE TakeOutPerpetual(q) \/ PutBack(q)
  <2>1. RunnerTypes' /\ \A p \in Pods \ {q} : SamePod(p)
    BY <1>2 DEF TakeOutPerpetual, PutBack, SamePod, streamVars
  <2>2. PodInv(q)'
    BY <1>2 DEF TakeOutPerpetual, PutBack, streamVars,
                PodInv, CreateComesFirst, OneProcess
  <2> QED BY <2>1, <2>2, OnePodMoves
<1>3. CASE CreateSession(q)
  <2>1. RunnerTypes' /\ \A p \in Pods \ {q} : SamePod(p)
    BY <1>3 DEF CreateSession, Start, SamePod, streamVars
  <2>2. PodInv(q)'
    BY <1>3 DEF CreateSession, Start, streamVars,
                PodInv, CreateComesFirst, OneProcess
  <2> QED BY <2>1, <2>2, OnePodMoves
<1>4. CASE RestartFails(q)
  <2>1. /\ out' \in Seq(Event)
        /\ held' \in [Pods -> ExitStatus \cup {"none"}]
    BY <1>4, SayTerminatedTypes DEF RestartFails, ExitStatus
  <2>2. RunnerTypes' /\ \A p \in Pods \ {q} : SamePod(p)
    BY <1>4, <2>1 DEF RestartFails, SamePod
  <2>3. PodInv(q)'
    BY <1>4 DEF RestartFails, PodInv, CreateComesFirst, OneProcess, Seen
  <2> QED BY <2>2, <2>3, OnePodMoves
<1>5. CASE RebuildPTYIO(q)
  <2>1. RunnerTypes' /\ \A p \in Pods \ {q} : SamePod(p)
    BY <1>5 DEF RebuildPTYIO, SamePod, streamVars
  <2>2. PodInv(q)'
    BY <1>5 DEF RebuildPTYIO, streamVars, PodInv, CreateComesFirst, OneProcess
  <2> QED BY <2>1, <2>2, OnePodMoves
<1>6. CASE ReconcileDeadProcess(q)
  <2>1. /\ out' \in Seq(Event)
        /\ held' \in [Pods -> ExitStatus \cup {"none"}]
    BY <1>6, SayTerminatedTypes DEF ReconcileDeadProcess, ExitStatus
  <2>2. RunnerTypes' /\ \A p \in Pods \ {q} : SamePod(p)
    BY <1>6, <2>1 DEF ReconcileDeadProcess, SamePod
  <2>3. PodInv(q)'
    BY <1>6 DEF ReconcileDeadProcess, PodInv, CreateComesFirst, OneProcess, Seen
  <2> QED BY <2>2, <2>3, OnePodMoves
<1> QED BY <1>1, <1>2, <1>3, <1>4, <1>5, <1>6 DEF HandleExit

LEMMA EndKeeps ==
  ASSUME RunnerInv, NEW q \in Pods, ProcessExits(q) \/ FailACPPod(q)
  PROVE  RunnerInv'
<1> USE DEF RunnerInv, RunnerTypes
<1>1. CASE ProcessExits(q)
  <2>1. RunnerTypes' /\ \A p \in Pods \ {q} : SamePod(p)
    BY <1>1 DEF ProcessExits, Exiting, SamePod, streamVars
  <2>2. PodInv(q)'
    BY <1>1 DEF ProcessExits, Exiting, streamVars,
                PodInv, CreateComesFirst, OneProcess, Seen
  <2> QED BY <2>1, <2>2, OnePodMoves
<1>2. CASE FailACPPod(q)
  <2>1. <<[type |-> "session_lost", pod |-> q],
          [type |-> "terminated", pod |-> q, status |-> "error"]>>
          \in Seq(Event)
    BY DEF Event, ExitStatus
  <2>2. out' \in Seq(Event)
    BY <1>2, <2>1, SayTypes DEF FailACPPod
  <2>3. RunnerTypes' /\ \A p \in Pods \ {q} : SamePod(p)
    BY <1>2, <2>2 DEF FailACPPod, Forget, SamePod, ExitStatus
  <2>4. starts[q] # 0 /\ live'[q] = {}
    BY <1>2 DEF FailACPPod, PodInv, OneProcess, Kinds
  <2>5. OneProcess(q)'
    BY <1>2, <2>4 DEF FailACPPod, PodInv, OneProcess, Seen
  <2>6. PodInv(q)'
    BY <1>2, <2>4, <2>5 DEF FailACPPod, Forget, PodInv, CreateComesFirst
  <2> QED BY <2>3, <2>6, OnePodMoves
<1> QED BY <1>1, <1>2

-----------------------------------------------------------------------------
(* The stream.                                                             *)

LEMMA QuietStepKeeps ==
  ASSUME RunnerInv, UNCHANGED <<kind, podVars, commands>>,
         connected' \in BOOLEAN, out' \in Seq(Event),
         held' \in [Pods -> ExitStatus \cup {"none"}]
  PROVE  RunnerInv'
<1>1. RunnerTypes' /\ \A p \in Pods : SamePod(p)
  BY DEF RunnerInv, RunnerTypes, podVars, SamePod
<1> QED BY <1>1, SamePodKeeps DEF RunnerInv

LEMMA FlushKeeps ==
  ASSUME RunnerInv, NEW p \in Pods, FlushPendingPodTerminations(p)
  PROVE  RunnerInv'
<1>1. held[p] \in ExitStatus
  BY DEF FlushPendingPodTerminations, RunnerInv, RunnerTypes
<1>2. <<[type |-> "terminated", pod |-> p, status |-> held[p]]>> \in Seq(Event)
  BY <1>1 DEF Event
<1>3. out' \in Seq(Event)
  BY <1>2, SayTypes DEF RunnerInv, FlushPendingPodTerminations
<1>4. held' \in [Pods -> ExitStatus \cup {"none"}] /\ connected' \in BOOLEAN
      /\ UNCHANGED <<kind, podVars, commands>>
  BY DEF FlushPendingPodTerminations, RunnerInv, RunnerTypes
<1> QED BY <1>3, <1>4, QuietStepKeeps

LEMMA HeartbeatKeeps ==
  ASSUME RunnerInv, SendHeartbeat
  PROVE  RunnerInv'
<1>1. <<[type |-> "heartbeat", pods |-> store]>> \in Seq(Event)
  BY DEF RunnerInv, RunnerTypes, Event
<1>2. out' \in Seq(Event)
  BY <1>1, SayTypes DEF RunnerInv, SendHeartbeat
<1>3. held' \in [Pods -> ExitStatus \cup {"none"}] /\ connected' \in BOOLEAN
      /\ UNCHANGED <<kind, podVars, commands>>
  BY DEF SendHeartbeat, RunnerInv, RunnerTypes
<1> QED BY <1>2, <1>3, QuietStepKeeps

LEMMA ReconnectKeeps ==
  ASSUME RunnerInv, Reconnect
  PROVE  RunnerInv'
  BY QuietStepKeeps DEF Reconnect, RunnerInv, RunnerTypes

LEMMA ReceiveKeeps ==
  ASSUME RunnerInv, NEW e, Receive(e)
  PROVE  RunnerInv'
<1>1. Tail(out) \in Seq(Event)
  BY HeadTailProperties DEF Receive, RunnerInv, RunnerTypes
<1> QED BY <1>1, QuietStepKeeps DEF Receive, RunnerInv, RunnerTypes

\* A prefix of the commands creates no other way.
LEMMA PrefixTypes ==
  ASSUME NEW s \in Seq(Commands), NEW t \in Prefixes(s)
  PROVE  /\ t \in Seq(Commands)
         /\ \A i \in 1..Len(t) : i \in 1..Len(s) /\ t[i] = s[i]
<1>1. PICK n \in 0..Len(s) : t = SubSeq(s, 1, n)
  BY DEF Prefixes
<1>2. Len(s) \in Nat /\ \A i \in 1..Len(s) : s[i] \in Commands
  BY LenProperties, ElementOfSeq
<1>3. n \in Int /\ 1 \in Int /\ n <= Len(s) /\ 1..n \subseteq 1..Len(s)
  BY <1>2
<1>4. \A i \in 1..n : s[i] \in Commands
  BY <1>2, <1>3
<1>5. /\ t \in Seq(Commands) /\ Len(t) = IF 1 <= n THEN n - 1 + 1 ELSE 0
      /\ \A i \in 1..(n - 1 + 1) : t[i] = s[1 + i - 1]
  BY ONLY <1>1, <1>3, <1>4, SubSeqProperties
<1>6. Len(t) = n
  BY <1>2, <1>5
<1> QED BY <1>3, <1>5, <1>6

LEMMA LoseStreamKeeps ==
  ASSUME RunnerInv, LoseStream
  PROVE  RunnerInv'
<1>1. out' \in Seq(Event)
  <2>1. PICK n \in 0..Len(out) : out' = SubSeq(out, n + 1, Len(out))
    BY DEF LoseStream
  <2>2. out \in Seq(Event)
    BY DEF RunnerInv, RunnerTypes
  <2>3. Len(out) \in Int /\ n + 1 \in Int
        /\ \A i \in n + 1 .. Len(out) : out[i] \in Event
    BY <2>2, LenProperties, ElementOfSeq
  <2> QED BY ONLY <2>1, <2>3, SubSeqProperties
<1>2. /\ \A p \in Pods : commands'[p] \in Prefixes(commands[p])
      /\ \E S : commands' \in [Pods -> S]
  BY DEF LoseStream
<1>3. \A p \in Pods :
        /\ commands'[p] \in Seq(Commands)
        /\ \A i \in 1..Len(commands'[p]) :
             i \in 1..Len(commands[p]) /\ commands'[p][i] = commands[p][i]
  BY <1>2, PrefixTypes DEF RunnerInv, RunnerTypes
<1>4. commands' \in [Pods -> Seq(Commands)]
  BY <1>2, <1>3
<1>5. RunnerTypes'
  BY <1>1, <1>4 DEF LoseStream, RunnerInv, RunnerTypes, podVars
<1>6. ASSUME NEW p \in Pods PROVE PodInv(p)'
  <2>1. CreateComesFirst(p)'
    BY <1>3 DEF LoseStream, RunnerInv, PodInv, CreateComesFirst, podVars
  <2> QED BY <2>1 DEF LoseStream, RunnerInv, PodInv, OneProcess, Seen, podVars
<1> QED BY <1>5, <1>6 DEF RunnerInv

\* The backend only ever sends a command to stop.
LEMMA SendKeeps ==
  ASSUME RunnerInv, NEW q \in Pods, Send(q, "terminate_pod"),
         UNCHANGED <<kind, podVars, connected, out, held>>
  PROVE  RunnerInv'
<1> DEFINE s == Append(commands[q], "terminate_pod")
<1>1. commands[q] \in Seq(Commands) /\ "terminate_pod" \in Commands
  BY DEF RunnerInv, RunnerTypes, Commands
<1>2. /\ s \in Seq(Commands) /\ Len(s) = Len(commands[q]) + 1
      /\ \A i \in 1..Len(commands[q]) : s[i] = commands[q][i]
      /\ s[Len(commands[q]) + 1] = "terminate_pod"
      /\ Len(commands[q]) \in Nat
  BY <1>1, AppendProperties, LenProperties
<1>3. commands' = [commands EXCEPT ![q] = s] \/ commands' = commands
  BY DEF Send
<1> HIDE DEF s
<1>4. RunnerTypes' /\ \A p \in Pods \ {q} : SamePod(p)
  BY <1>2, <1>3 DEF RunnerInv, RunnerTypes, podVars, SamePod
<1>5. \A i \in 1..Len(s) : s[i] = "create_pod" => i \in 1..Len(commands[q])
                                                  /\ commands[q][i] = "create_pod"
  BY <1>2
<1>6. PodInv(q)'
  <2>1. commands'[q] = s \/ commands'[q] = commands[q]
    BY <1>3 DEF RunnerInv, RunnerTypes
  <2>2. CreateComesFirst(q)'
    BY <1>5, <2>1 DEF RunnerInv, PodInv, CreateComesFirst, podVars
  <2> QED BY <2>2 DEF RunnerInv, PodInv, OneProcess, Seen, podVars
<1> QED BY <1>4, <1>6, OnePodMoves

-----------------------------------------------------------------------------
(* The backend.                                                            *)

BackendTypes ==
  /\ record \in [Pods -> Status]
  /\ miss \in [Pods -> 0..(OrphanMissThreshold - 1)]
  /\ initReports \in [Pods -> 0..(InitRecoverThreshold - 1)]
  /\ cooling \subseteq Pods /\ terminating \subseteq Pods
  /\ hb \in HeartbeatSteps
  /\ disc \in {Quiet, [step |-> "list"]}
             \cup [step : {"fail"}, todo : SUBSET Pods]
  /\ upsets \in 0..MaxUpsets

ReconcileInv == RunnerInv /\ BackendTypes

LEMMA SetTypes ==
  ASSUME BackendTypes, NEW p \in Pods, NEW s \in Status, NEW from,
         Set(p, from, s)
  PROVE  /\ record' \in [Pods -> Status]
         /\ \A q \in Pods :
              \/ record'[q] = record[q]
              \/ q = p /\ record[q] \in from /\ record'[q] = s
<1> DEFINE to == IF record[p] \in from THEN s ELSE record[p]
<1>1. record \in [Pods -> Status] /\ record' = [record EXCEPT ![p] = to]
  BY DEF BackendTypes, Set, SetRecord
<1>2. to \in Status
  BY <1>1
<1> QED BY <1>1, <1>2

LEMMA HeartbeatShapes ==
  ASSUME BackendTypes
  PROVE  /\ hb.step = "read" =>
              hb.pod \in Pods /\ hb.reported \subseteq Pods /\ hb.todo \subseteq Pods
         /\ hb.step \in {"reported", "missing"} =>
              hb.reported \subseteq Pods /\ hb.todo \subseteq Pods
         /\ \A S, T \in SUBSET Pods : \A step \in {"reported", "missing"} :
              [step |-> step, reported |-> S, todo |-> T] \in HeartbeatSteps
         /\ \A S, T \in SUBSET Pods : \A p \in Pods : \A status \in Status :
              [step |-> "read", reported |-> S, todo |-> T, pod |-> p,
               status |-> status] \in HeartbeatSteps
         /\ Quiet \in HeartbeatSteps
<1>1. hb \in HeartbeatSteps
  BY DEF BackendTypes
<1>2. Quiet.step = "idle"
  BY DEF Quiet
<1> QED BY <1>1, <1>2 DEF HeartbeatSteps

\* The events of the runner, and the heartbeat when it arrives.
LEMMA EventKeeps ==
  ASSUME ReconcileInv, NEW p \in Pods,
         \/ HandlePodCreated(p) \/ HandlePodTerminated(p)
         \/ HandlePodError(p) \/ HandleSessionLost(p) \/ HandleHeartbeat
  PROVE  ReconcileInv'
<1> USE DEF ReconcileInv
<1>0. 0 \in 0..(OrphanMissThreshold - 1) /\ 0 \in 0..(InitRecoverThreshold - 1)
  BY ReconcileAssumption
<1>1. RunnerInv'
  BY ReceiveKeeps DEF HandlePodCreated, HandlePodTerminated, HandlePodError,
                      HandleSessionLost, HandleHeartbeat
<1>2. UNCHANGED <<disc, cooling, terminating, upsets>>
  BY DEF HandlePodCreated, HandlePodTerminated, HandlePodError,
         HandleSessionLost, HandleHeartbeat, Receive
<1>3. CASE HandlePodCreated(p)
  <2>1. record' \in [Pods -> Status]
    BY <1>3, SetTypes DEF HandlePodCreated, Status, Active
  <2> QED BY <1>0, <1>1, <1>2, <1>3, <2>1 DEF HandlePodCreated, BackendTypes
<1>4. CASE HandlePodTerminated(p)
  <2>1. PICK s \in ExitStatus : Set(p, Active, s)
    BY <1>4 DEF HandlePodTerminated
  <2>2. record' \in [Pods -> Status]
    BY <2>1, SetTypes DEF Status, Active, Ended, ExitStatus
  <2> QED BY <1>0, <1>1, <1>2, <1>4, <2>2 DEF HandlePodTerminated, BackendTypes
<1>5. CASE HandlePodError(p)
  <2>1. record' \in [Pods -> Status]
    BY <1>5, SetTypes DEF HandlePodError, Status, Active
  <2> QED BY <1>1, <1>2, <1>5, <2>1 DEF HandlePodError, BackendTypes
<1>6. CASE HandleSessionLost(p)
  <2>1. record' \in [Pods -> Status]
    BY <1>6, SetTypes DEF HandleSessionLost, Status, Active
  <2> QED BY <1>0, <1>1, <1>2, <1>6, <2>1 DEF HandleSessionLost, BackendTypes
<1>7. CASE HandleHeartbeat
  <2>1. hb' \in HeartbeatSteps
    BY <1>7, HeartbeatShapes DEF HandleHeartbeat
  <2> QED BY <1>1, <1>2, <1>7, <2>1 DEF HandleHeartbeat, BackendTypes
<1> QED BY <1>3, <1>4, <1>5, <1>6, <1>7

LEMMA SendTerminateKeeps ==
  ASSUME ReconcileInv, NEW p \in Pods,
         SendTerminate(p) \/ UNCHANGED <<commands, cooling>>,
         UNCHANGED <<kind, podVars, connected, out, held>>
  PROVE  RunnerInv' /\ cooling' \subseteq Pods
<1>1. RunnerInv'
  BY SendKeeps, QuietStepKeeps
  DEF SendTerminate, ReconcileInv, RunnerInv, RunnerTypes
<1> QED BY <1>1 DEF SendTerminate, ReconcileInv, BackendTypes

\* What a heartbeat reports.
LEMMA ReportedKeeps ==
  ASSUME ReconcileInv,
         \/ \E p \in Pods : ReadReported(p)
         \/ ReportedUnknown \/ ReportedEnded \/ ReportedLost
         \/ ReportedInitializing \/ ReportedOther
  PROVE  ReconcileInv'
<1> USE ReconcileAssumption DEF ReconcileInv
<1> DEFINE p == hb.pod
<1>1. ASSUME NEW q \in Pods, ReadReported(q) PROVE ReconcileInv'
  <2>1. hb' \in HeartbeatSteps
    BY <1>1, HeartbeatShapes DEF ReadReported, BackendTypes
  <2>2. RunnerInv'
    BY <1>1, QuietStepKeeps
    DEF ReadReported, RunnerInv, RunnerTypes, runnerVars, streamVars
  <2> QED BY <1>1, <2>1, <2>2 DEF ReadReported, BackendTypes, counters
<1>2. ASSUME ReportedDone, \E s \in Status : Read(s)
      PROVE  p \in Pods /\ hb' \in HeartbeatSteps
  BY <1>2, HeartbeatShapes DEF ReportedDone, Read
<1>3. CASE ReportedUnknown
  <2>1. p \in Pods /\ hb' \in HeartbeatSteps
    BY <1>2, <1>3 DEF ReportedUnknown, Status
  <2>2. RunnerInv' /\ cooling' \subseteq Pods
    BY <1>3, <2>1, SendTerminateKeeps DEF ReportedUnknown, readUnchanged
  <2>3. miss' \in [Pods -> 0..(OrphanMissThreshold - 1)]
    BY <1>3, <2>1 DEF ReportedUnknown, BackendTypes
  <2> QED BY <1>3, <2>1, <2>2, <2>3
          DEF ReportedUnknown, readUnchanged, BackendTypes
<1>4. CASE ReportedEnded
  <2>1. p \in Pods /\ hb' \in HeartbeatSteps
    BY <1>2, <1>4 DEF ReportedEnded, Status
  <2>2. RunnerInv' /\ cooling' \subseteq Pods
    BY <1>4, <2>1, SendTerminateKeeps DEF ReportedEnded, readUnchanged
  <2> QED BY <1>4, <2>1, <2>2 DEF ReportedEnded, readUnchanged, BackendTypes
<1>5. CASE ReportedLost
  <2>1. p \in Pods /\ hb' \in HeartbeatSteps
    BY <1>2, <1>5 DEF ReportedLost, Status, Active
  <2>2. record' \in [Pods -> Status]
    BY <1>5, <2>1, SetTypes DEF ReportedLost, RecoverPodStatus, Status, Active
  <2>3. RunnerInv'
    BY <1>5, QuietStepKeeps DEF ReportedLost, readUnchanged, RunnerInv, RunnerTypes
  <2> QED BY <1>5, <2>1, <2>2, <2>3
          DEF ReportedLost, readUnchanged, BackendTypes, counters
<1>6. CASE ReportedInitializing
  <2>1. p \in Pods /\ hb' \in HeartbeatSteps
    BY <1>2, <1>6 DEF ReportedInitializing, Status, Active
  <2>2. record' \in [Pods -> Status]
    BY <1>6, <2>1, SetTypes
    DEF ReportedInitializing, RecoverPodStatus, Status, Active, BackendTypes
  <2>3. RunnerInv'
    BY <1>6, QuietStepKeeps
    DEF ReportedInitializing, readUnchanged, RunnerInv, RunnerTypes
  <2>4. initReports' \in [Pods -> 0..(InitRecoverThreshold - 1)]
    BY <1>6, <2>1 DEF ReportedInitializing, BackendTypes
  <2> QED BY <1>6, <2>1, <2>2, <2>3, <2>4
          DEF ReportedInitializing, readUnchanged, BackendTypes
<1>7. CASE ReportedOther
  <2>1. p \in Pods /\ hb' \in HeartbeatSteps
    BY <1>2, <1>7 DEF ReportedOther, Status, Active
  <2>2. RunnerInv'
    BY <1>7, QuietStepKeeps DEF ReportedOther, readUnchanged, RunnerInv, RunnerTypes
  <2> QED BY <1>7, <2>1, <2>2
          DEF ReportedOther, readUnchanged, BackendTypes, counters
<1> QED BY <1>1, <1>3, <1>4, <1>5, <1>6, <1>7

\* The pods a heartbeat misses.
LEMMA MissingKeeps ==
  ASSUME ReconcileInv,
         \/ ListActiveByRunner
         \/ \E p \in Pods : FoundReported(p) \/ FoundMissing(p) \/ GiveUpMissing(p)
  PROVE  ReconcileInv'
<1> USE DEF ReconcileInv
<1>0. 0 \in 0..(OrphanMissThreshold - 1)
  BY ReconcileAssumption
<1>1. ASSUME NEW T \in SUBSET Pods, Look(T), hb.step \in {"reported", "missing"}
      PROVE  hb' \in HeartbeatSteps
  BY <1>1, HeartbeatShapes DEF Look
<1>2. CASE ListActiveByRunner
  <2>1. hb' \in HeartbeatSteps
    BY <1>1, <1>2 DEF ListActiveByRunner
  <2>2. RunnerInv'
    BY <1>2, QuietStepKeeps
    DEF ListActiveByRunner, RunnerInv, RunnerTypes, runnerVars, streamVars
  <2> QED BY <1>2, <2>1, <2>2 DEF ListActiveByRunner, BackendTypes, counters
<1>3. ASSUME NEW p \in Pods, Looked(p)
      PROVE  /\ hb' \in HeartbeatSteps /\ RunnerInv'
             /\ UNCHANGED <<initReports, cooling, disc, terminating, upsets>>
  <2>1. hb' \in HeartbeatSteps
    BY <1>1, <1>3, HeartbeatShapes DEF Looked
  <2>2. RunnerInv'
    BY <1>3, QuietStepKeeps
    DEF Looked, RunnerInv, RunnerTypes, runnerVars, streamVars
  <2> QED BY <1>3, <2>1, <2>2 DEF Looked
<1>4. ASSUME NEW p \in Pods, FoundReported(p) PROVE ReconcileInv'
  BY <1>0, <1>3, <1>4 DEF FoundReported, BackendTypes
<1>5. ASSUME NEW p \in Pods, FoundMissing(p) PROVE ReconcileInv'
  <2>1. miss' \in [Pods -> 0..(OrphanMissThreshold - 1)]
    BY <1>5, ReconcileAssumption DEF FoundMissing, BackendTypes
  <2> QED BY <1>3, <1>5, <2>1 DEF FoundMissing, BackendTypes
<1>6. ASSUME NEW p \in Pods, GiveUpMissing(p) PROVE ReconcileInv'
  <2>1. record' \in [Pods -> Status]
    BY <1>6, SetTypes DEF GiveUpMissing, Status, Active
  <2> QED BY <1>0, <1>3, <1>6, <2>1 DEF GiveUpMissing, BackendTypes
<1> QED BY <1>2, <1>4, <1>5, <1>6

LEMMA HandleKeeps ==
  ASSUME ReconcileInv, Handle
  PROVE  ReconcileInv'
<1>1. ASSUME HandleHeartbeat PROVE ReconcileInv'
  <2>1. RunnerInv' /\ UNCHANGED <<record, counters, disc, terminating, upsets>>
    BY <1>1, ReceiveKeeps
    DEF HandleHeartbeat, Receive, ReconcileInv, counters
  <2>2. hb' \in HeartbeatSteps
    BY <1>1, HeartbeatShapes DEF HandleHeartbeat, ReconcileInv
  <2> QED BY <2>1, <2>2 DEF ReconcileInv, BackendTypes, counters
<1> QED BY <1>1, EventKeeps, ReportedKeeps, MissingKeeps DEF Handle

\* Streams, crashes and the callback of a lost stream.
LEMMA StreamKeeps ==
  ASSUME ReconcileInv, Disconnect \/ Callback \/ Crash
  PROVE  ReconcileInv'
<1> USE DEF ReconcileInv
<1>0. 0 \in 0..(OrphanMissThreshold - 1) /\ 0 \in 0..(InitRecoverThreshold - 1)
  BY ReconcileAssumption
<1>1. ASSUME Upset PROVE upsets' \in 0..MaxUpsets
  BY <1>1, ReconcileAssumption DEF Upset, BackendTypes
<1>2. CASE Disconnect
  BY <1>1, <1>2, LoseStreamKeeps DEF Disconnect, BackendTypes, counters
<1>3. CASE Crash
  BY <1>0, <1>1, <1>3, LoseStreamKeeps, HeartbeatShapes DEF Crash, BackendTypes
<1>4. ASSUME NEW T \in SUBSET Pods, Fail(T)
      PROVE  disc' \in {Quiet, [step |-> "list"]}
                        \cup [step : {"fail"}, todo : SUBSET Pods]
  BY <1>4 DEF Fail
<1>5. ASSUME UNCHANGED runnerVars PROVE RunnerInv'
  BY <1>5, QuietStepKeeps DEF RunnerInv, RunnerTypes, runnerVars, streamVars
<1>6. CASE ListInitializing
  BY <1>0, <1>4, <1>5, <1>6 DEF ListInitializing, BackendTypes
<1>7. ASSUME NEW p \in Pods, FailInitializing(p) PROVE ReconcileInv'
  <2>1. record' \in [Pods -> Status]
    BY <1>7, SetTypes DEF FailInitializing, Status
  <2>2. disc.todo \ {p} \subseteq Pods
    BY <1>7 DEF FailInitializing, BackendTypes, Quiet
  <2> QED BY <1>4, <1>5, <1>7, <2>1, <2>2
          DEF FailInitializing, BackendTypes, counters
<1> QED BY <1>2, <1>3, <1>6, <1>7 DEF Callback

\* Users and jobs.
LEMMA OthersKeep ==
  ASSUME ReconcileInv, NEW p \in Pods,
         \/ PodEnds(p) \/ TerminatePod(p) \/ CompleteTerminated(p)
         \/ MarkStaleAsDisconnected(p) \/ CleanupStale(p)
         \/ DeleteTerminalPod(p) \/ CooldownEnds(p)
  PROVE  ReconcileInv'
<1> USE DEF ReconcileInv
<1>1. ASSUME Upset PROVE upsets' \in 0..MaxUpsets
  BY <1>1, ReconcileAssumption DEF Upset, BackendTypes
<1>2. ASSUME UNCHANGED runnerVars PROVE RunnerInv'
  BY <1>2, QuietStepKeeps DEF RunnerInv, RunnerTypes, runnerVars, streamVars
<1>3. CASE PodEnds(p)
  BY <1>1, <1>3, EndKeeps DEF PodEnds, BackendTypes, counters
<1>4. CASE TerminatePod(p)
  BY <1>1, <1>4, SendKeeps DEF TerminatePod, BackendTypes, counters
<1>5. CASE CompleteTerminated(p)
  <2>1. record' \in [Pods -> Status]
    BY <1>5, SetTypes DEF CompleteTerminated, Status, Ended
  <2> QED BY <1>2, <1>5, <2>1 DEF CompleteTerminated, BackendTypes, counters
<1>6. CASE \/ MarkStaleAsDisconnected(p) \/ CleanupStale(p)
           \/ DeleteTerminalPod(p)
  <2>1. PICK s \in Status : SetRecord(p, s)
    BY <1>6 DEF MarkStaleAsDisconnected, CleanupStale, DeleteTerminalPod,
                Status, Active, Ended
  <2>2. record' \in [Pods -> Status]
    BY <2>1 DEF SetRecord, BackendTypes
  <2> QED BY <1>1, <1>2, <1>6, <2>2
          DEF MarkStaleAsDisconnected, CleanupStale, DeleteTerminalPod,
              BackendTypes, counters
<1>7. CASE CooldownEnds(p)
  BY <1>2, <1>7 DEF CooldownEnds, BackendTypes
<1> QED BY <1>3, <1>4, <1>5, <1>6, <1>7

LEMMA RunnerStepKeeps ==
  ASSUME RunnerInv, NEW p \in Pods, RunnerStep(p)
  PROVE  RunnerInv'
  BY CreateKeeps, TerminateKeeps, BuildKeeps, StartupKeeps, StopKeeps,
     ExitKeeps, FlushKeeps
  DEF RunnerStep, Work

LEMMA NextKeepsInv == ReconcileInv /\ [Next]_vars => ReconcileInv'
<1> SUFFICES ASSUME ReconcileInv, [Next]_vars PROVE ReconcileInv'
  OBVIOUS
<1>1. ASSUME UNCHANGED <<record, counters, hb, disc, terminating, upsets>>,
             RunnerInv'
      PROVE  ReconcileInv'
  BY <1>1 DEF ReconcileInv, BackendTypes, counters
<1>2. CASE Stream(\E p \in Pods : RunnerStep(p))
  BY <1>1, <1>2, RunnerStepKeeps DEF Stream, ReconcileInv
<1>3. CASE Stream(Reconnect) \/ Heartbeat
  BY <1>1, <1>3, ReconnectKeeps, HeartbeatKeeps
  DEF Heartbeat, Stream, ReconcileInv
<1>4. CASE UNCHANGED vars
  BY <1>1, <1>4, QuietStepKeeps
  DEF vars, runnerVars, streamVars, ReconcileInv, RunnerInv, RunnerTypes
<1> QED BY <1>2, <1>3, <1>4, HandleKeeps, StreamKeeps, OthersKeep DEF Next

LEMMA InitInv == Init => ReconcileInv
<1> SUFFICES ASSUME Init PROVE ReconcileInv
  OBVIOUS
<1> USE RunnerAssumption, ReconcileAssumption DEF Init, RunnerInit
<1>1. <<"create_pod">> \in Seq(Commands) /\ <<>> \in Seq(Event)
  BY DEF Commands
<1>2. RunnerTypes
  BY <1>1 DEF RunnerTypes
<1>3. ASSUME NEW p \in Pods PROVE PodInv(p)
  BY DEF PodInv, CreateComesFirst, OneProcess, Seen
<1>4. BackendTypes
  BY DEF BackendTypes, HeartbeatSteps, Status, Active
<1> QED BY <1>2, <1>3, <1>4 DEF ReconcileInv, RunnerInv

-----------------------------------------------------------------------------
(* The theorems.                                                           *)

LEMMA SpecInv == Spec => []ReconcileInv
  BY InitInv, NextKeepsInv, PTL DEF Spec

\* Every variable keeps its type, for any number of pods, thresholds and
\* upsets: above all the counters of a heartbeat never pass the number at which
\* the code acts and clears them (pod_reconcile_service.go).
THEOREM ReconcileTypes == Spec => []TypeOK
<1>1. ReconcileInv => TypeOK
  BY DEF ReconcileInv, RunnerInv, RunnerTypes, Commands, BackendTypes, TypeOK
<1> QED BY <1>1, SpecInv, PTL

\* No agent of a pod that is not restarted in place runs on behind the
\* runner's list (handler_events.go cleanupPodExit and OnTerminatePod).
THEOREM NoUnseenAgents == Spec => []OthersAreSeen
<1>1. ReconcileInv => OthersAreSeen
  BY DEF ReconcileInv, RunnerInv, PodInv, OneProcess, OthersAreSeen
<1> QED BY <1>1, SpecInv, PTL

\* The status a heartbeat acts on was read earlier, and is compared again when
\* it is written (pod_reconcile_service.go recoverPodStatus): a pod that was
\* given up or ended meanwhile is not brought back.
THEOREM NothingIsRevived == Spec => HeartbeatNeverRevives
<1> DEFINE Gone(p) == record[p] \in Ended \cup {"error", "none"}
<1>1. ASSUME ReconcileInv, Next, hb # Quiet, NEW p \in Pods, Gone(p)
      PROVE  record'[p] # "running"
  <2> USE <1>1 DEF ReconcileInv
  <2>1. record[p] \notin {"running", "orphaned"} \cup Active
    BY DEF Ended, Active
  <2>2. ASSUME NEW q \in Pods, NEW from \in {"orphaned", "disconnected", "initializing"},
               RecoverPodStatus(q, from)
        PROVE  record'[p] # "running"
    BY <2>1, <2>2, SetTypes DEF RecoverPodStatus, Status, Active
  <2>3. CASE UNCHANGED record
    BY <2>1, <2>3
  <2>4. ASSUME NEW q \in Pods, NEW s \in Status \ {"running"}, NEW from,
               Set(q, from, s)
        PROVE  record'[p] # "running"
    BY <2>1, <2>4, SetTypes
  <2>5. ASSUME NEW q \in Pods, NEW s \in Status \ {"running"}, SetRecord(q, s)
        PROVE  record'[p] # "running"
    BY <2>1, <2>5 DEF SetRecord, BackendTypes
  <2>6. CASE Handle
    <3>1. CASE ReportedLost
      <4>1. hb.pod \in Pods
        BY <3>1, HeartbeatShapes DEF ReportedLost, Read
      <4> QED BY <2>2, <3>1, <4>1 DEF ReportedLost
    <3>2. CASE ReportedInitializing
      <4>1. hb.pod \in Pods
        BY <3>2, HeartbeatShapes DEF ReportedInitializing, Read
      <4>2. RecoverPodStatus(hb.pod, "initializing") \/ UNCHANGED record
        BY <3>2 DEF ReportedInitializing
      <4> QED BY <2>2, <2>3, <4>1, <4>2
    <3>3. ASSUME NEW q \in Pods, GiveUpMissing(q) PROVE record'[p] # "running"
      BY <2>4, <3>3 DEF GiveUpMissing, Status, Active
    <3>4. \/ ReportedLost \/ ReportedInitializing
          \/ \E q \in Pods : GiveUpMissing(q)
          \/ UNCHANGED record
      BY <2>6 DEF Handle, HandlePodCreated, HandlePodTerminated, HandlePodError,
           HandleSessionLost, HandleHeartbeat, Receive, ReadReported,
           FoundReported, FoundMissing, ReportedUnknown, ReportedEnded,
           ReportedOther, ListActiveByRunner
    <3> QED BY <2>3, <3>1, <3>2, <3>3, <3>4
  <2>7. ASSUME NEW q \in Pods,
               \/ PodEnds(q) \/ TerminatePod(q) \/ CompleteTerminated(q)
               \/ MarkStaleAsDisconnected(q) \/ CleanupStale(q)
               \/ DeleteTerminalPod(q) \/ CooldownEnds(q)
        PROVE  record'[p] # "running"
    <3>1. \/ UNCHANGED record \/ Set(q, Active, "completed")
          \/ \E s \in {"disconnected", "terminated", "none"} : SetRecord(q, s)
      BY <2>7 DEF PodEnds, TerminatePod, CompleteTerminated,
           MarkStaleAsDisconnected, CleanupStale, DeleteTerminalPod, CooldownEnds
    <3> QED BY <2>3, <2>4, <2>5, <3>1 DEF Status, Active, Ended
  <2>8. CASE Disconnect \/ Crash \/ ListInitializing \/ Heartbeat
             \/ Stream(Reconnect) \/ Stream(\E q \in Pods : RunnerStep(q))
    BY <2>3, <2>8 DEF Disconnect, Crash, ListInitializing, Heartbeat, Stream
  <2>9. ASSUME NEW q \in Pods, FailInitializing(q) PROVE record'[p] # "running"
    BY <2>4, <2>9 DEF FailInitializing, Status
  <2> QED BY <2>6, <2>7, <2>8, <2>9 DEF Next, Callback
<1>2. ReconcileInv /\ [Next]_vars
        => [hb # Quiet =>
              \A p \in Pods : Gone(p) => record'[p] # "running"]_vars
  BY <1>1
<1> QED BY <1>2, SpecInv, PTL DEF Spec, HeartbeatNeverRevives
=============================================================================
