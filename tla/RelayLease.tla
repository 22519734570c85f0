----------------------------- MODULE RelayLease -----------------------------
(***************************************************************************)
(* The control lease of one relay channel.                                 *)
(*                                                                         *)
(* Every subscriber (browser) of a channel sees the terminal; the one that *)
(* holds the lease may write to it.  Each subscriber has a goroutine that  *)
(* handles one message at a time.  The lease is guarded by controlMu, but  *)
(* the clock is read before the lock is taken, and every status message is *)
(* sent after it is released, so time, removals, timer callbacks and the   *)
(* messages of other goroutines come in between.                           *)
(***************************************************************************)
EXTENDS Integers, Sequences

CONSTANTS
  Subs,           \* subscriber ids, each used for one connection
  Duration,       \* ControlLeaseDuration
  MaxClock,       \* bound on time
  MaxRequests     \* bound on messages handled

ASSUME LeaseAssumption ==
  /\ Duration \in Nat \ {0}
  /\ MaxClock \in Nat
  /\ MaxRequests \in Nat

NoOne == "no_one"
ASSUME NobodyAssumption == NoOne \notin Subs

VARIABLES
  clock,
  subs,           \* c.subscribers: connections that are open
  left,           \* subscribers that were removed
  closing,        \* progress of closeInternal
  controlOwner, controlLeaseID, controlExpiresAt, controlEpoch,
  armed,          \* epoch the control timer was set for, 0 if stopped
  due,            \* when it fires
  fired,          \* epochs whose callback has started
  mutex,          \* who keeps controlMu locked across a write
  pc, now, arg,   \* a subscriber's goroutine: step, time.Now(), lease id sent
  removing,       \* subscribers whose RemoveSubscriber has yet to release
  out,            \* messages a goroutine has yet to send, in order
  seen,           \* lease id a browser was last told it holds, 0 if none
  requests

leaseVars == <<controlOwner, controlLeaseID, controlExpiresAt, controlEpoch,
               armed, due>>
procVars == <<pc, now, arg>>
vars == <<clock, subs, left, closing, leaseVars, fired, mutex, procVars,
          removing, out, seen, requests>>

-----------------------------------------------------------------------------
\* A request adds at most two epochs and its lease's end one more.
Epochs == 1 .. 3 * MaxRequests + 1
Times == 0 .. MaxClock

Handler(s) == <<"handler", s>>
Remover(s) == <<"remover", s>>
Timer(e) == <<"timer", e>>
Procs == {"handler", "remover"} \X Subs \cup {"timer"} \X Epochs

Actions == {"acquire", "force_acquire", "renew", "release", "input"}
ReadClockFirst == {"acquire", "force_acquire", "renew"}
NameLease == {"renew", "release"}

\* A Broadcast takes its snapshot of the subscribers when it starts.
Message(status, lease, to) == [status |-> status, lease |-> lease, to |-> to]
Broadcast(status) == Message(status, 0, Subs)
Status(s, status, lease) == Message(status, lease, {s})

Closed == closing # "open"
Unlocked == mutex = NoOne

-----------------------------------------------------------------------------
Init ==
  /\ clock = 0
  /\ subs = {}
  /\ left = {}
  /\ closing = "open"
  /\ controlOwner = NoOne
  /\ controlLeaseID = 0
  /\ controlExpiresAt = 0
  /\ controlEpoch = 0
  /\ armed = 0
  /\ due = 0
  /\ fired = {}
  /\ mutex = NoOne
  /\ pc = [s \in Subs |-> "idle"]
  /\ now = [s \in Subs |-> 0]
  /\ arg = [s \in Subs |-> 0]
  /\ removing = {}
  /\ out = [g \in Procs |-> <<>>]
  /\ seen = [s \in Subs |-> 0]
  /\ requests = 0

-----------------------------------------------------------------------------
(* setControlLeaseLocked and clearControlLeaseLocked.  Stopping a timer    *)
(* does not call back a callback that has started.                         *)

\* Mutant: the lease is set without a new timer.
SetLeaseWithoutTimer(s, lease, at, epoch) ==
  /\ controlOwner' = s
  /\ controlLeaseID' = lease
  /\ controlExpiresAt' = at + Duration
  /\ controlEpoch' = epoch
  /\ armed' = 0
  /\ due' = 0

SetLease(s, lease, at, epoch) ==
  /\ controlOwner' = s
  /\ controlLeaseID' = lease
  /\ controlExpiresAt' = at + Duration
  /\ controlEpoch' = epoch
  /\ armed' = epoch
  /\ due' = clock + Duration

ClearLease ==
  /\ controlOwner' = NoOne
  /\ controlLeaseID' = 0
  /\ controlExpiresAt' = 0
  /\ controlEpoch' = controlEpoch + 1
  /\ armed' = 0
  /\ due' = 0

\* The goroutine of s leaves the critical section with messages to send and
\* forgets its locals.
Reply(s, messages) ==
  /\ out' = [out EXCEPT ![Handler(s)] = messages]
  /\ pc' = [pc EXCEPT ![s] = "idle"]
  /\ now' = [now EXCEPT ![s] = 0]
  /\ arg' = [arg EXCEPT ![s] = 0]

InForce(at) == controlOwner # NoOne /\ at < controlExpiresAt

-----------------------------------------------------------------------------
(* The goroutine of a subscriber: forwardSubscriberToPublisher.            *)

\* It takes the next message once the last one is answered.
ReadMessage(s) ==
  /\ s \in subs /\ pc[s] = "idle" /\ out[Handler(s)] = <<>>
  /\ requests < MaxRequests
  /\ requests' = requests + 1
  /\ \E a \in Actions :
       /\ pc' = [pc EXCEPT ![s] = a]
       /\ now' = [now EXCEPT ![s] = IF a \in ReadClockFirst THEN clock ELSE 0]
       /\ \E l \in IF a \in NameLease THEN {seen[s], controlLeaseID} ELSE {0} :
            arg' = [arg EXCEPT ![s] = l]
  /\ UNCHANGED <<clock, subs, left, closing, leaseVars, fired, mutex,
                 removing, out, seen>>

AtStep(s, step) == pc[s] = step /\ Unlocked

\* Mutant: no look at the closed flag under the lock.
AcquireAnyway(s) ==
  /\ AtStep(s, "acquire")
  /\ ~InForce(now[s])
  /\ SetLease(s, controlEpoch + 1, now[s], controlEpoch + 1)
  /\ Reply(s, <<Status(s, "granted", controlEpoch + 1)>>)
  /\ UNCHANGED <<clock, subs, left, closing, fired, mutex, removing, seen,
                 requests>>

\* acquireControlLease: a free or lapsed lease is taken.
Acquire(s) ==
  /\ AtStep(s, "acquire")
  /\ ~Closed /\ ~InForce(now[s])
  /\ SetLease(s, controlEpoch + 1, now[s], controlEpoch + 1)
  /\ Reply(s, <<Status(s, "granted", controlEpoch + 1)>>)
  /\ UNCHANGED <<clock, subs, left, closing, fired, mutex, removing, seen,
                 requests>>

\* forceAcquireControlLease: a lease of somebody else is cleared first.
ForceAcquire(s) ==
  /\ AtStep(s, "force_acquire")
  /\ ~Closed
  /\ ~(controlOwner = s /\ now[s] < controlExpiresAt)
  /\ LET e == IF InForce(now[s]) THEN controlEpoch + 2 ELSE controlEpoch + 1
         granted == Status(s, "granted", e)
     IN /\ SetLease(s, e, now[s], e)
        /\ Reply(s, IF InForce(now[s]) THEN <<Broadcast("released"), granted>>
                                       ELSE <<granted>>)
  /\ UNCHANGED <<clock, subs, left, closing, fired, mutex, removing, seen,
                 requests>>

\* Both answer without a change when the lease in force is the caller's own,
\* when acquire finds it taken, and say nothing once the channel is closed.
AcquireChangesNothing(s) ==
  /\ AtStep(s, "acquire") \/ AtStep(s, "force_acquire")
  /\ \/ /\ Closed
        /\ Reply(s, <<>>)
     \/ /\ ~Closed
        /\ controlOwner = s /\ now[s] < controlExpiresAt
        /\ Reply(s, <<Status(s, "granted", controlLeaseID)>>)
     \/ /\ ~Closed
        /\ pc[s] = "acquire" /\ InForce(now[s]) /\ controlOwner # s
        /\ Reply(s, <<Status(s, "busy", 0)>>)
  /\ UNCHANGED <<clock, subs, left, closing, leaseVars, fired, mutex,
                 removing, seen, requests>>

\* renewControlLease: same owner, same id, still in force.
Renew(s) ==
  /\ AtStep(s, "renew")
  /\ IF /\ ~Closed /\ controlOwner = s
        /\ controlLeaseID = arg[s] /\ now[s] < controlExpiresAt
     THEN /\ SetLease(s, arg[s], now[s], controlEpoch + 1)
          /\ Reply(s, <<Status(s, "granted", arg[s])>>)
     ELSE /\ Reply(s, <<Status(s, "required", 0)>>)
          /\ UNCHANGED leaseVars
  /\ UNCHANGED <<clock, subs, left, closing, fired, mutex, removing, seen,
                 requests>>

\* releaseControlLease.
Release(s) ==
  /\ AtStep(s, "release")
  /\ IF controlOwner = s /\ controlLeaseID = arg[s]
     THEN ClearLease /\ Reply(s, <<Broadcast("released")>>)
     ELSE UNCHANGED leaseVars /\ Reply(s, <<Status(s, "required", 0)>>)
  /\ UNCHANGED <<clock, subs, left, closing, fired, mutex, removing, seen,
                 requests>>

\* Mutant: the lock is given up before the write.
BeginWriteUnlocked(s) ==
  /\ AtStep(s, "input")
  /\ controlOwner = s /\ clock < controlExpiresAt
  /\ pc' = [pc EXCEPT ![s] = "writing"]
  /\ UNCHANGED <<clock, subs, left, closing, leaseVars, fired, mutex, now,
                 arg, removing, out, seen, requests>>

\* writeToPublisherWithControlLease: the owner writes with the lock held.
BeginWrite(s) ==
  /\ AtStep(s, "input")
  /\ controlOwner = s /\ clock < controlExpiresAt
  /\ mutex' = s
  /\ pc' = [pc EXCEPT ![s] = "writing"]
  /\ UNCHANGED <<clock, subs, left, closing, leaseVars, fired, now, arg,
                 removing, out, seen, requests>>

EndWrite(s) ==
  /\ pc[s] = "writing"
  /\ mutex' = NoOne
  /\ pc' = [pc EXCEPT ![s] = "idle"]
  /\ UNCHANGED <<clock, subs, left, closing, leaseVars, fired, now, arg,
                 removing, out, seen, requests>>

\* Anybody else's input is refused; a lapsed lease is cleared on the way.
RefuseWrite(s) ==
  /\ AtStep(s, "input")
  /\ ~(controlOwner = s /\ clock < controlExpiresAt)
  /\ IF controlOwner # NoOne /\ clock >= controlExpiresAt
     THEN /\ ClearLease
          /\ Reply(s, <<Broadcast("expired"), Status(s, "required", 0)>>)
     ELSE /\ UNCHANGED leaseVars
          /\ Reply(s, <<Status(s, "required", 0)>>)
  /\ UNCHANGED <<clock, subs, left, closing, fired, mutex, removing, seen,
                 requests>>

\* Broadcast and sendControlStatus reach connections that are still open.
Send(g) ==
  /\ out[g] # <<>>
  /\ LET m == Head(out[g])
         to == m.to \cap subs
     IN \/ /\ to # {}
           /\ \E t \in to :
                /\ seen' = [seen EXCEPT ![t] = IF m.status = "granted"
                                               THEN m.lease ELSE 0]
                /\ out' = [out EXCEPT
                             ![g] = IF to = {t} THEN Tail(@)
                                    ELSE <<[m EXCEPT !.to = to \ {t}]>>
                                         \o Tail(@)]
        \/ /\ to = {}
           /\ out' = [out EXCEPT ![g] = Tail(@)]
           /\ UNCHANGED seen
  /\ UNCHANGED <<clock, subs, left, closing, leaseVars, fired, mutex,
                 procVars, removing, requests>>

-----------------------------------------------------------------------------
(* Subscribers come and go, the timer fires, the channel closes.           *)

AddSubscriber(s) ==
  /\ s \notin subs \cup left /\ ~Closed
  /\ subs' = subs \cup {s}
  /\ UNCHANGED <<clock, left, closing, leaseVars, fired, mutex, procVars,
                 removing, out, seen, requests>>

\* RemoveSubscriber, by the subscriber's own goroutine after a read error or
\* by any goroutine whose write to it failed; the lease is released after
\* subscribersMu.
RemoveSubscriber(s) ==
  /\ s \in subs
  /\ subs' = subs \ {s}
  /\ left' = left \cup {s}
  /\ removing' = removing \cup {s}
  /\ UNCHANGED <<clock, closing, leaseVars, fired, mutex, procVars, out, seen,
                 requests>>

ReleaseForSubscriber(s) ==
  /\ s \in removing /\ Unlocked
  /\ removing' = removing \ {s}
  /\ IF controlOwner = s
     THEN ClearLease
          /\ out' = [out EXCEPT ![Remover(s)] = <<Broadcast("released")>>]
     ELSE UNCHANGED <<leaseVars, out>>
  /\ UNCHANGED <<clock, subs, left, closing, fired, mutex, procVars, seen,
                 requests>>

Tick ==
  /\ clock < MaxClock
  /\ clock' = clock + 1
  /\ UNCHANGED <<subs, left, closing, leaseVars, fired, mutex, procVars,
                 removing, out, seen, requests>>

TimerFires ==
  /\ armed # 0 /\ clock >= due
  /\ fired' = fired \cup {armed}
  /\ armed' = 0
  /\ due' = 0
  /\ UNCHANGED <<clock, subs, left, closing, controlOwner, controlLeaseID,
                 controlExpiresAt, controlEpoch, mutex, procVars, removing,
                 out, seen, requests>>

\* Mutant: the callback clears whatever lease it finds.
ExpireAnyLease(e) ==
  /\ e \in fired /\ Unlocked
  /\ fired' = fired \ {e}
  /\ IF controlOwner # NoOne THEN ClearLease ELSE UNCHANGED leaseVars
  /\ UNCHANGED <<clock, subs, left, closing, mutex, procVars, removing, out,
                 seen, requests>>

\* expireControlLease: nothing if the lease was renewed, replaced or cleared.
ExpireControlLease(e) ==
  /\ e \in fired /\ Unlocked
  /\ fired' = fired \ {e}
  /\ IF controlOwner # NoOne /\ controlEpoch = e
     THEN /\ ClearLease
          /\ out' = [out EXCEPT ![Timer(e)] =
                       IF Closed THEN <<>> ELSE <<Broadcast("expired")>>]
     ELSE UNCHANGED <<leaseVars, out>>
  /\ UNCHANGED <<clock, subs, left, closing, mutex, procVars, removing, seen,
                 requests>>

\* closeInternal: the flag, stopControlLease, and last the connections.
CloseInternal ==
  \/ /\ closing = "open"
     /\ closing' = "flagged"
     /\ UNCHANGED <<leaseVars, subs, left>>
  \/ /\ closing = "flagged" /\ Unlocked
     /\ closing' = "stopped"
     /\ ClearLease
     /\ UNCHANGED <<subs, left>>
  \/ /\ closing = "stopped"
     /\ closing' = "done"
     /\ subs' = {}
     /\ left' = left \cup subs
     /\ UNCHANGED leaseVars

Close ==
  /\ CloseInternal
  /\ UNCHANGED <<clock, fired, mutex, procVars, removing, out, seen,
                 requests>>

-----------------------------------------------------------------------------
Handle(s) ==
  \/ Acquire(s) \/ ForceAcquire(s) \/ AcquireChangesNothing(s) \/ Renew(s)
  \/ Release(s) \/ BeginWrite(s) \/ EndWrite(s) \/ RefuseWrite(s)

SubStep(s) ==
  \/ ReadMessage(s) \/ Handle(s)
  \/ AddSubscriber(s) \/ RemoveSubscriber(s) \/ ReleaseForSubscriber(s)

Next ==
  \/ \E s \in Subs : SubStep(s)
  \/ \E g \in Procs : Send(g)
  \/ \E e \in Epochs : ExpireControlLease(e)
  \/ Tick \/ TimerFires \/ Close

Spec == Init /\ [][Next]_vars

\* Time passes, timers fire and goroutines run; browsers owe nothing, and a
\* write to the publisher ends by its deadline.
Fairness ==
  /\ WF_vars(Tick) /\ WF_vars(TimerFires)
  /\ \A s \in Subs : WF_vars(EndWrite(s))
  /\ \A e \in Epochs : WF_vars(ExpireControlLease(e))

FairSpec == Spec /\ Fairness

-----------------------------------------------------------------------------
(* Properties.                                                             *)

Steps == Actions \cup {"idle", "writing"}

TypeOK ==
  /\ clock \in Times
  /\ subs \subseteq Subs /\ left \subseteq Subs /\ removing \subseteq left
  /\ subs \cap left = {}
  /\ closing \in {"open", "flagged", "stopped", "done"}
  /\ controlOwner \in Subs \cup {NoOne}
  /\ controlOwner = NoOne =>
       controlLeaseID = 0 /\ controlExpiresAt = 0 /\ armed = 0
  /\ controlLeaseID \in 0 .. controlEpoch
  /\ controlEpoch \in {0} \cup Epochs
  /\ armed \in {0, controlEpoch}
  /\ controlExpiresAt \in 0 .. MaxClock + Duration
  /\ due \in 0 .. MaxClock + Duration
  /\ fired \subseteq Epochs
  /\ mutex \in Subs \cup {NoOne}
  /\ pc \in [Subs -> Steps]
  /\ now \in [Subs -> Times]
  /\ arg \in [Subs -> {0} \cup Epochs]
  /\ seen \in [Subs -> {0} \cup Epochs]
  /\ requests \in 0 .. MaxRequests

\* An input that was accepted reaches the runner before control changes
\* hands, whatever releases, steals, expires or closes the lease meanwhile
\* (TestChannel_ControlHandoffWaitsForAcceptedInputWrite).
WriterIsOwner == \A s \in Subs : pc[s] = "writing" => controlOwner = s

\* The callback of a timer that fired while its lease was being renewed,
\* released or stolen never ends the lease that came after it.
LeaseNotCutShort ==
  [][\A e \in Epochs :
       e \in fired /\ ExpireControlLease(e) /\ controlOwner' # controlOwner
         => clock >= controlExpiresAt]_vars

\* Once closeInternal has stopped the lease nobody gets it again, though
\* requests read before the close are still being handled.
NoLeaseAfterClose ==
  closing \in {"stopped", "done"} => controlOwner = NoOne

\* A lease ends, with or without its owner's help, unless it is extended past
\* the bound on time.
LeaseInTime ==
  controlOwner # NoOne /\ controlExpiresAt <= MaxClock /\ due <= MaxClock

LeaseEnds == LeaseInTime ~> ~LeaseInTime

-----------------------------------------------------------------------------
\* Why the handoff is safe: whoever writes has the lock, whoever has the lock
\* owns the lease, and every change of owner takes the lock.
HandoffInv ==
  /\ pc \in [Subs -> Steps]
  /\ mutex \in Subs \cup {NoOne}
  /\ \A s \in Subs : pc[s] = "writing" => mutex = s
  /\ mutex # NoOne => controlOwner = mutex
  /\ NoLeaseAfterClose

=============================================================================
