------------------------- MODULE RelayLease_proofs -------------------------
(* Proofs about RelayLease for any subscribers, durations and bounds: who  *)
(* holds which lock (HandoffInv), and what timers know (TimerInv).         *)
EXTENDS RelayLease, TLAPS

LEMMA SubscriberHandlingKeepsHandoff ==
  ASSUME HandoffInv, NEW s \in Subs, ReadMessage(s) \/ Handle(s)
  PROVE  HandoffInv'
<1> s # NoOne
  BY NobodyAssumption
<1> USE DEF HandoffInv, NoLeaseAfterClose, Steps, Actions, Closed, Unlocked,
        AtStep, Reply, leaseVars
<1>1. CASE ReadMessage(s)
  BY <1>1 DEF ReadMessage
<1>2. CASE Acquire(s)
  BY <1>2 DEF Acquire, SetLease
<1>3. CASE ForceAcquire(s)
  BY <1>3 DEF ForceAcquire, SetLease
<1>4. CASE AcquireChangesNothing(s)
  BY <1>4 DEF AcquireChangesNothing
<1>5. CASE Renew(s)
  BY <1>5 DEF Renew, SetLease
<1>6. CASE Release(s)
  BY <1>6 DEF Release, ClearLease
<1>7. CASE BeginWrite(s)
  BY <1>7, NobodyAssumption DEF BeginWrite
<1>8. CASE EndWrite(s)
  BY <1>8 DEF EndWrite
<1>9. CASE RefuseWrite(s)
  BY <1>9 DEF RefuseWrite, ClearLease
<1> QED
  BY <1>1, <1>2, <1>3, <1>4, <1>5, <1>6, <1>7, <1>8, <1>9 DEF Handle

LEMMA OthersKeepHandoff ==
  ASSUME HandoffInv,
         \/ \E s \in Subs : \/ AddSubscriber(s) \/ RemoveSubscriber(s)
                            \/ ReleaseForSubscriber(s)
         \/ \E g \in Procs : Send(g)
         \/ \E e \in Epochs : ExpireControlLease(e)
         \/ Tick \/ TimerFires \/ Close \/ UNCHANGED vars
  PROVE  HandoffInv'
<1> USE DEF HandoffInv, NoLeaseAfterClose, Unlocked, leaseVars, procVars
<1>1. CASE \E s \in Subs : AddSubscriber(s) \/ RemoveSubscriber(s)
  BY <1>1 DEF AddSubscriber, RemoveSubscriber
<1>2. CASE \E s \in Subs : ReleaseForSubscriber(s)
  BY <1>2 DEF ReleaseForSubscriber, ClearLease
<1>3. CASE \E g \in Procs : Send(g)
  BY <1>3 DEF Send
<1>4. CASE \E e \in Epochs : ExpireControlLease(e)
  BY <1>4 DEF ExpireControlLease, ClearLease
<1>5. CASE Tick \/ TimerFires \/ UNCHANGED vars
  BY <1>5 DEF Tick, TimerFires, vars
<1>6. CASE Close
  BY <1>6 DEF Close, CloseInternal, ClearLease
<1> QED
  BY <1>1, <1>2, <1>3, <1>4, <1>5, <1>6

LEMMA HandoffInvariant == Spec => []HandoffInv
<1>1. Init => HandoffInv
  BY NobodyAssumption DEF Init, HandoffInv, NoLeaseAfterClose, Steps, Actions
<1>2. HandoffInv /\ [Next]_vars => HandoffInv'
  BY SubscriberHandlingKeepsHandoff, OthersKeepHandoff DEF Next, SubStep
<1> QED
  BY <1>1, <1>2, PTL DEF Spec

\* An accepted input is written while its sender still owns the lease, for
\* any number of subscribers: writeToPublisherWithControlLease keeps the lock.
THEOREM HandoffWaitsForWrite == Spec => []WriterIsOwner
<1>1. HandoffInv => WriterIsOwner
  BY NobodyAssumption DEF HandoffInv, WriterIsOwner
<1> QED
  BY <1>1, HandoffInvariant, PTL

\* After stopControlLease no request still being handled takes the lease: the
\* closed flag is read under controlMu.
THEOREM ClosedChannelHasNoLease == Spec => []NoLeaseAfterClose
<1>1. HandoffInv => NoLeaseAfterClose
  BY DEF HandoffInv
<1> QED
  BY <1>1, HandoffInvariant, PTL

-----------------------------------------------------------------------------
(* The timer of a lease.  A callback only compares epochs, so a lease is   *)
(* safe from old callbacks when the one that bears its own epoch starts    *)
(* after its expiry: the timer is set from a clock read no earlier than    *)
(* the one the expiry is computed from, and a new lease has a new epoch.   *)

TimerInv ==
  /\ clock \in Nat
  /\ now \in [Subs -> Nat]
  /\ \A s \in Subs : now[s] <= clock
  /\ controlEpoch \in Nat /\ controlExpiresAt \in Nat /\ due \in Nat
  /\ armed \in {0, controlEpoch}
  /\ armed # 0 => controlExpiresAt <= due
  /\ fired \subseteq 0 .. controlEpoch
  /\ controlEpoch \in fired => controlExpiresAt <= clock

LEMMA NewEpochKeepsTimer ==
  ASSUME TimerInv, NEW epoch \in Nat, epoch > controlEpoch,
         controlEpoch' = epoch, armed' \in {0, epoch},
         controlExpiresAt' \in Nat, due' \in Nat, controlExpiresAt' <= due',
         UNCHANGED <<clock, fired>>,
         now' \in [Subs -> Nat], \A s \in Subs : now'[s] <= clock
  PROVE  TimerInv'
BY DEF TimerInv

LEMMA ReplyKeepsNow ==
  ASSUME TimerInv, NEW s \in Subs, NEW messages, Reply(s, messages)
  PROVE  now' \in [Subs -> Nat] /\ \A t \in Subs : now'[t] <= clock
BY DEF TimerInv, Reply

LEMMA SetLeaseKeepsTimer ==
  ASSUME TimerInv, NEW s \in Subs, NEW lease, NEW messages, NEW epoch \in Nat,
         epoch > controlEpoch, SetLease(s, lease, now[s], epoch),
         Reply(s, messages), UNCHANGED <<clock, fired>>
  PROVE  TimerInv'
<1>1. /\ controlExpiresAt' \in Nat /\ due' \in Nat
      /\ controlExpiresAt' <= due'
  BY LeaseAssumption DEF SetLease, TimerInv
<1> QED
  BY <1>1, ReplyKeepsNow, NewEpochKeepsTimer DEF SetLease

LEMMA ClearLeaseKeepsTimer ==
  ASSUME TimerInv, ClearLease, clock' = clock, fired' \subseteq fired,
         now' \in [Subs -> Nat], \A s \in Subs : now'[s] <= clock
  PROVE  TimerInv'
BY DEF TimerInv, ClearLease

LEMMA SubscriberHandlingKeepsTimer ==
  ASSUME TimerInv, NEW s \in Subs, ReadMessage(s) \/ Handle(s)
  PROVE  TimerInv'
<1>1. CASE ReadMessage(s)
  BY <1>1 DEF ReadMessage, TimerInv, leaseVars
<1>2. CASE Acquire(s)
  <2> controlEpoch + 1 \in Nat /\ controlEpoch + 1 > controlEpoch
    BY DEF TimerInv
  <2> QED
    BY <1>2, SetLeaseKeepsTimer DEF Acquire
<1>3. CASE ForceAcquire(s)
  <2>1. PICK e, messages : /\ e \in {controlEpoch + 1, controlEpoch + 2}
                           /\ SetLease(s, e, now[s], e) /\ Reply(s, messages)
    BY <1>3 DEF ForceAcquire
  <2>2. e \in Nat /\ e > controlEpoch
    BY <2>1 DEF TimerInv
  <2> QED
    BY <1>3, <2>1, <2>2, SetLeaseKeepsTimer DEF ForceAcquire
<1>4. CASE AcquireChangesNothing(s)
  <2>1. PICK messages : Reply(s, messages)
    BY <1>4 DEF AcquireChangesNothing
  <2> QED
    BY <1>4, <2>1, ReplyKeepsNow DEF AcquireChangesNothing, TimerInv, leaseVars
<1>5. CASE Renew(s)
  <2>1. PICK messages : Reply(s, messages)
    BY <1>5 DEF Renew
  <2>2. CASE UNCHANGED leaseVars
    BY <1>5, <2>1, <2>2, ReplyKeepsNow DEF Renew, TimerInv, leaseVars
  <2>3. CASE SetLease(s, arg[s], now[s], controlEpoch + 1)
    <3> controlEpoch + 1 \in Nat /\ controlEpoch + 1 > controlEpoch
      BY DEF TimerInv
    <3> QED
      BY <1>5, <2>1, <2>3, SetLeaseKeepsTimer DEF Renew
  <2> QED
    BY <1>5, <2>2, <2>3 DEF Renew
<1>6. CASE Release(s) \/ RefuseWrite(s)
  <2>1. PICK messages : Reply(s, messages)
    BY <1>6 DEF Release, RefuseWrite
  <2>2. CASE UNCHANGED leaseVars
    BY <1>6, <2>1, <2>2, ReplyKeepsNow
       DEF Release, RefuseWrite, TimerInv, leaseVars
  <2>3. CASE ClearLease
    BY <1>6, <2>1, <2>3, ReplyKeepsNow, ClearLeaseKeepsTimer
       DEF Release, RefuseWrite
  <2> QED
    BY <1>6, <2>2, <2>3 DEF Release, RefuseWrite
<1>7. CASE BeginWrite(s) \/ EndWrite(s)
  BY <1>7 DEF BeginWrite, EndWrite, TimerInv, leaseVars
<1> QED
  BY <1>1, <1>2, <1>3, <1>4, <1>5, <1>6, <1>7 DEF Handle

LEMMA OthersKeepTimer ==
  ASSUME TimerInv,
         \/ \E s \in Subs : \/ AddSubscriber(s) \/ RemoveSubscriber(s)
                            \/ ReleaseForSubscriber(s)
         \/ \E g \in Procs : Send(g)
         \/ \E e \in Epochs : ExpireControlLease(e)
         \/ Tick \/ TimerFires \/ Close \/ UNCHANGED vars
  PROVE  TimerInv'
<1> USE DEF leaseVars, procVars
<1>1. CASE \E s \in Subs : AddSubscriber(s) \/ RemoveSubscriber(s)
  BY <1>1 DEF AddSubscriber, RemoveSubscriber, TimerInv
<1>2. CASE \E s \in Subs : ReleaseForSubscriber(s)
  <2>1. CASE ClearLease
    BY <1>2, <2>1, ClearLeaseKeepsTimer DEF ReleaseForSubscriber, TimerInv
  <2>2. CASE UNCHANGED leaseVars
    BY <1>2, <2>2 DEF ReleaseForSubscriber, TimerInv
  <2> QED
    BY <1>2, <2>1, <2>2 DEF ReleaseForSubscriber
<1>3. CASE \E g \in Procs : Send(g)
  BY <1>3 DEF Send, TimerInv
<1>4. CASE \E e \in Epochs : ExpireControlLease(e)
  <2>1. CASE ClearLease
    BY <1>4, <2>1, ClearLeaseKeepsTimer DEF ExpireControlLease, TimerInv
  <2>2. CASE UNCHANGED leaseVars
    BY <1>4, <2>2 DEF ExpireControlLease, TimerInv
  <2> QED
    BY <1>4, <2>1, <2>2 DEF ExpireControlLease
<1>5. CASE Tick \/ UNCHANGED vars
  <2>1. /\ clock' \in Nat /\ clock <= clock'
        /\ UNCHANGED <<leaseVars, fired, now>>
    BY <1>5 DEF Tick, vars, TimerInv
  <2>2. \A s \in Subs : now'[s] <= clock'
    BY <2>1 DEF TimerInv
  <2> QED
    BY <2>1, <2>2 DEF TimerInv
<1>6. CASE TimerFires
  BY <1>6 DEF TimerFires, TimerInv
<1>7. CASE Close
  <2>1. CASE ClearLease
    BY <1>7, <2>1, ClearLeaseKeepsTimer DEF Close, TimerInv
  <2>2. CASE UNCHANGED leaseVars
    BY <1>7, <2>2 DEF Close, TimerInv
  <2> QED
    BY <1>7, <2>1, <2>2 DEF Close, CloseInternal
<1> QED
  BY <1>1, <1>2, <1>3, <1>4, <1>5, <1>6, <1>7

LEMMA TimerInvariant == Spec => []TimerInv
<1>1. Init => TimerInv
  BY DEF Init, TimerInv
<1>2. TimerInv /\ [Next]_vars => TimerInv'
  BY SubscriberHandlingKeepsTimer, OthersKeepTimer DEF Next, SubStep
<1> QED
  BY <1>1, <1>2, PTL DEF Spec

\* A callback ends only the lease it was set for and only past its expiry,
\* whatever renewals, releases and takeovers happened between the timer's
\* firing and expireControlLease taking controlMu.
THEOREM OldTimersAreHarmless == Spec => LeaseNotCutShort
<1>1. ASSUME TimerInv, NEW e \in Epochs, e \in fired, ExpireControlLease(e),
             controlOwner' # controlOwner
      PROVE  clock >= controlExpiresAt
  BY <1>1 DEF ExpireControlLease, leaseVars, TimerInv
<1>2. TimerInv /\ [Next]_vars =>
        [\A e \in Epochs :
           e \in fired /\ ExpireControlLease(e) /\ controlOwner' # controlOwner
             => clock >= controlExpiresAt]_vars
  BY <1>1
<1> QED
  BY <1>2, TimerInvariant, PTL DEF Spec, LeaseNotCutShort

=============================================================================
