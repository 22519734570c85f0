--------------------------- MODULE RelayPublisher ---------------------------
(***************************************************************************)
(* The publisher (runner) side of one relay channel.                       *)
(*                                                                         *)
(* Each runner connection comes with a SetPublisher call and, once that is *)
(* through, a goroutine that forwards what it reads.  SetPublisher, the    *)
(* reconnect timer's callback and Close exclude one another by             *)
(* publisherReplaceMu; the forwarding goroutine does not take it, and      *)
(* SetPublisher and Close wait for it on publisherWg.  A step is one       *)
(* critical section of publisherMu or one message.                         *)
(***************************************************************************)
EXTENDS Naturals, FiniteSets

CONSTANTS
  Conns,     \* runner connections, in the order of their names or any other
  Subs,      \* subscribers
  LateSubs   \* those that join during the run

ASSUME PublisherAssumption == IsFiniteSet(Conns) /\ LateSubs \subseteq Subs

NoConn == "no_conn"
Nobody == "nobody"
ASSUME NoConnAssumption == Conns \cap {NoConn, Nobody, "closer"} = {}

VARIABLES
  publisher, publisherDisconnected, publisherEpoch,
  isOpen,      \* connections whose socket the relay holds open
  replaceMu,   \* who holds publisherReplaceMu
  armed,       \* outage the reconnect timer was set for, 0 if stopped
  fired,       \* outages whose timer callback waits for publisherReplaceMu
  outages,     \* how often the publisher was lost
  setter,      \* progress of a connection's SetPublisher call
  reader,      \* progress of its forwarding goroutine
  epochOf,     \* epoch given to that goroutine
  oldConn, wasDisconnected,   \* locals of the SetPublisher call
  telling,     \* subscribers a connection's Broadcast has yet to reach
  closing,     \* progress of closeInternal
  subs,        \* c.subscribers
  joining,     \* progress of a late subscriber
  told         \* publisher state a subscriber was last told

pubVars == <<publisher, publisherDisconnected, publisherEpoch>>
timerVars == <<armed, fired, outages>>
setterVars == <<setter, epochOf, oldConn, wasDisconnected>>
subVars == <<subs, joining, told>>
vars == <<pubVars, isOpen, replaceMu, timerVars, setterVars, reader, telling,
          closing, subVars>>

Closed == closing # "open"
Running == {c \in Conns : reader[c] \notin {"none", "ended"}}  \* publisherWg

-----------------------------------------------------------------------------
Init ==
  /\ publisher = NoConn
  /\ publisherDisconnected = FALSE
  /\ publisherEpoch = 0
  /\ isOpen = Conns
  /\ replaceMu = Nobody
  /\ armed = 0
  /\ fired = {}
  /\ outages = 0
  /\ setter = [c \in Conns |-> "new"]
  /\ reader = [c \in Conns |-> "none"]
  /\ epochOf = [c \in Conns |-> 0]
  /\ oldConn = [c \in Conns |-> NoConn]
  /\ wasDisconnected = [c \in Conns |-> FALSE]
  /\ telling = [c \in Conns |-> {}]
  /\ closing = "open"
  /\ subs = Subs \ LateSubs
  /\ joining = [s \in LateSubs |-> "outside"]
  /\ told = [s \in Subs |-> "connected"]

-----------------------------------------------------------------------------
(* SetPublisher.                                                           *)

SetterAt(c, step) == setter[c] = step
SetterGoto(c, step) == setter' = [setter EXCEPT ![c] = step]

LockReplace(c) ==
  /\ SetterAt(c, "new") /\ replaceMu = Nobody
  /\ replaceMu' = c
  /\ SetterGoto(c, "install")
  /\ UNCHANGED <<pubVars, isOpen, timerVars, reader, epochOf, oldConn,
                 wasDisconnected, telling, closing, subVars>>

\* Mutant: the channel's closed flag is not looked at.
InstallWhateverHappens(c) ==
  /\ SetterAt(c, "install")
  /\ publisher' = c
  /\ publisherDisconnected' = FALSE
  /\ publisherEpoch' = publisherEpoch + 1
  /\ epochOf' = [epochOf EXCEPT ![c] = publisherEpoch + 1]
  /\ oldConn' = [oldConn EXCEPT ![c] = publisher]
  /\ wasDisconnected' = [wasDisconnected EXCEPT ![c] = publisherDisconnected]
  /\ armed' = 0
  /\ SetterGoto(c, "close_old")
  /\ UNCHANGED <<isOpen, replaceMu, fired, outages, reader, telling, closing,
                 subVars>>

\* The critical section of publisherMu; a timer that has fired stays fired.
InstallPublisher(c) ==
  /\ SetterAt(c, "install") /\ ~Closed
  /\ publisher' = c
  /\ publisherDisconnected' = FALSE
  /\ publisherEpoch' = publisherEpoch + 1
  /\ epochOf' = [epochOf EXCEPT ![c] = publisherEpoch + 1]
  /\ oldConn' = [oldConn EXCEPT ![c] = publisher]
  /\ wasDisconnected' = [wasDisconnected EXCEPT ![c] = publisherDisconnected]
  /\ armed' = 0
  /\ SetterGoto(c, "close_old")
  /\ UNCHANGED <<isOpen, replaceMu, fired, outages, reader, telling, closing,
                 subVars>>

RefuseWhenClosed(c) ==
  /\ SetterAt(c, "install") /\ Closed
  /\ isOpen' = isOpen \ {c}
  /\ replaceMu' = Nobody
  /\ SetterGoto(c, "done")
  /\ UNCHANGED <<pubVars, timerVars, epochOf, oldConn, wasDisconnected,
                 reader, telling, closing, subVars>>

CloseOld(c) ==
  /\ SetterAt(c, "close_old")
  /\ isOpen' = isOpen \ {oldConn[c]}
  /\ SetterGoto(c, "wait")
  /\ UNCHANGED <<pubVars, replaceMu, timerVars, epochOf, oldConn,
                 wasDisconnected, reader, telling, closing, subVars>>

\* Mutant: the flag is read again, when InstallPublisher has reset it.
AnnounceIfStillLost(c) ==
  /\ telling' = [telling EXCEPT ![c] = IF publisherDisconnected THEN subs
                                                                ELSE {}]
  /\ SetterGoto(c, "announce")

\* A Broadcast takes its snapshot of the subscribers when it starts.
StartAnnouncing(c) ==
  /\ telling' = [telling EXCEPT ![c] = IF wasDisconnected[c] THEN subs ELSE {}]
  /\ SetterGoto(c, "announce")

\* Mutant: no wait for the goroutine of the connection before.
AnnounceAtOnce(c) ==
  /\ SetterAt(c, "wait")
  /\ StartAnnouncing(c)
  /\ UNCHANGED <<pubVars, isOpen, replaceMu, timerVars, epochOf, oldConn,
                 wasDisconnected, reader, closing, subVars>>

\* publisherWg.Wait().
WaitForReader(c) ==
  /\ SetterAt(c, "wait") /\ Running = {}
  /\ StartAnnouncing(c)
  /\ UNCHANGED <<pubVars, isOpen, replaceMu, timerVars, epochOf, oldConn,
                 wasDisconnected, reader, closing, subVars>>

\* Broadcast(RunnerReconnected) and, last, Broadcast(RunnerDisconnected).
Tell(c, state) ==
  \E s \in telling[c] :
    /\ told' = [told EXCEPT ![s] = IF s \in subs THEN state ELSE @]
    /\ telling' = [telling EXCEPT ![c] = @ \ {s}]

Announce(c) ==
  /\ SetterAt(c, "announce")
  /\ \/ /\ Tell(c, "connected")
        /\ UNCHANGED <<setter, reader, replaceMu>>
     \/ /\ telling[c] = {}
        /\ reader' = [reader EXCEPT ![c] = "starting"]
        /\ SetterGoto(c, "done")
        /\ replaceMu' = Nobody
        /\ UNCHANGED <<told, telling>>
  /\ UNCHANGED <<pubVars, isOpen, timerVars, epochOf, oldConn,
                 wasDisconnected, closing, subs, joining>>

SetPublisher(c) ==
  \/ LockReplace(c) \/ InstallPublisher(c) \/ RefuseWhenClosed(c)
  \/ CloseOld(c) \/ WaitForReader(c) \/ Announce(c)

-----------------------------------------------------------------------------
(* forwardPublisherToSubscribers and handlePublisherDisconnect.            *)

ReaderAt(c, step) == reader[c] = step
ReaderGoto(c, step) == reader' = [reader EXCEPT ![c] = step]

\* The goroutine reads the publisher again and gives up if it was replaced.
StartReading(c) ==
  /\ ReaderAt(c, "starting")
  /\ ReaderGoto(c, IF publisher = NoConn \/ publisherEpoch # epochOf[c]
                   THEN "ended" ELSE "reading")
  /\ UNCHANGED <<pubVars, isOpen, replaceMu, timerVars, setterVars, telling,
                 closing, subVars>>

\* ReadMessage fails: the runner is gone, or the relay closed the socket.
ReadFails(c) ==
  /\ ReaderAt(c, "reading")
  /\ ReaderGoto(c, "failed")
  /\ UNCHANGED <<pubVars, isOpen, replaceMu, timerVars, setterVars, telling,
                 closing, subVars>>

StillPublisher(c) == publisher = c /\ publisherEpoch = epochOf[c]

\* Mutant: a goroutine whose connection was replaced reports it lost.
LosePublisherAlways(c) ==
  /\ ReaderAt(c, "failed")
  /\ publisher' = NoConn
  /\ publisherDisconnected' = TRUE
  /\ outages' = outages + 1
  /\ armed' = outages + 1
  /\ ReaderGoto(c, "closing")
  /\ UNCHANGED <<publisherEpoch, isOpen, replaceMu, fired, setterVars,
                 telling, closing, subVars>>

\* Mutant: nobody starts the reconnect timer.
LoseWithoutTimer(c) ==
  /\ ReaderAt(c, "failed") /\ StillPublisher(c)
  /\ publisher' = NoConn
  /\ publisherDisconnected' = TRUE
  /\ outages' = outages + 1
  /\ armed' = 0
  /\ ReaderGoto(c, "closing")
  /\ UNCHANGED <<publisherEpoch, isOpen, replaceMu, fired, setterVars,
                 telling, closing, subVars>>

LosePublisher(c) ==
  /\ ReaderAt(c, "failed") /\ StillPublisher(c)
  /\ publisher' = NoConn
  /\ publisherDisconnected' = TRUE
  /\ outages' = outages + 1
  /\ armed' = outages + 1
  /\ ReaderGoto(c, "closing")
  /\ UNCHANGED <<publisherEpoch, isOpen, replaceMu, fired, setterVars,
                 telling, closing, subVars>>

WasReplaced(c) ==
  /\ ReaderAt(c, "failed") /\ ~StillPublisher(c)
  /\ ReaderGoto(c, "ended")
  /\ UNCHANGED <<pubVars, isOpen, replaceMu, timerVars, setterVars, telling,
                 closing, subVars>>

TellDisconnected(c) ==
  \/ /\ ReaderAt(c, "closing")
     /\ isOpen' = isOpen \ {c}
     /\ telling' = [telling EXCEPT ![c] = subs]
     /\ ReaderGoto(c, "telling")
     /\ UNCHANGED <<pubVars, replaceMu, timerVars, setterVars, closing,
                    subVars>>
  \/ /\ ReaderAt(c, "telling")
     /\ \/ Tell(c, "disconnected") /\ UNCHANGED reader
        \/ telling[c] = {} /\ ReaderGoto(c, "ended")
           /\ UNCHANGED <<told, telling>>
     /\ UNCHANGED <<pubVars, isOpen, replaceMu, timerVars, setterVars,
                    closing, subs, joining>>

ForwardPublisher(c) ==
  \/ StartReading(c) \/ ReadFails(c) \/ LosePublisher(c) \/ WasReplaced(c)
  \/ TellDisconnected(c)

-----------------------------------------------------------------------------
(* The reconnect timer and Close.                                          *)

TimerFires ==
  /\ armed # 0
  /\ fired' = fired \cup {armed}
  /\ armed' = 0
  /\ UNCHANGED <<pubVars, isOpen, replaceMu, outages, setterVars, reader,
                 telling, closing, subVars>>

\* Mutant: the callback closes without looking again.
CloseOnTimeout(e) ==
  /\ e \in fired /\ replaceMu = Nobody
  /\ fired' = fired \ {e}
  /\ IF ~Closed
     THEN replaceMu' = "closer" /\ closing' = "flagged"
     ELSE UNCHANGED <<replaceMu, closing>>
  /\ UNCHANGED <<pubVars, isOpen, armed, outages, setterVars, reader,
                 telling, subVars>>

\* The callback looks again once it holds publisherReplaceMu, and keeps it
\* through closeInternal.
ReconnectTimeout(e) ==
  /\ e \in fired /\ replaceMu = Nobody
  /\ fired' = fired \ {e}
  /\ IF publisherDisconnected /\ ~Closed
     THEN replaceMu' = "closer" /\ closing' = "flagged"
     ELSE UNCHANGED <<replaceMu, closing>>
  /\ UNCHANGED <<pubVars, isOpen, armed, outages, setterVars, reader,
                 telling, subVars>>

Close ==
  /\ replaceMu = Nobody /\ ~Closed
  /\ replaceMu' = "closer"
  /\ closing' = "flagged"
  /\ UNCHANGED <<pubVars, isOpen, timerVars, setterVars, reader, telling,
                 subVars>>

\* closeInternal: the publisher, the wait, the subscribers.
CloseInternal ==
  \/ /\ closing = "flagged"
     /\ closing' = "waiting"
     /\ armed' = 0
     /\ isOpen' = isOpen \ {publisher}
     /\ publisher' = NoConn
     /\ UNCHANGED <<publisherDisconnected, publisherEpoch, replaceMu, fired,
                    outages, setterVars, reader, telling, subVars>>
  \/ /\ closing = "waiting" /\ Running = {}
     /\ closing' = "done"
     /\ subs' = {}
     /\ replaceMu' = Nobody
     /\ UNCHANGED <<pubVars, isOpen, timerVars, setterVars, reader, telling,
                    joining, told>>

-----------------------------------------------------------------------------
(* addSubscriberInternal: into the map, then the publisher's state, then a *)
(* message; no lock is held from one to the next.                          *)
Join(s) ==
  /\ \/ /\ joining[s] = "outside" /\ ~Closed
        /\ subs' = subs \cup {s}
        /\ joining' = [joining EXCEPT ![s] = "check"]
        /\ UNCHANGED told
     \/ /\ joining[s] = "check"
        /\ joining' = [joining EXCEPT ![s] = IF publisherDisconnected
                                             THEN "write" ELSE "inside"]
        /\ UNCHANGED <<subs, told>>
     \/ /\ joining[s] = "write"
        /\ told' = [told EXCEPT ![s] = IF s \in subs THEN "disconnected"
                                                     ELSE @]
        /\ joining' = [joining EXCEPT ![s] = "inside"]
        /\ UNCHANGED subs
  /\ UNCHANGED <<pubVars, isOpen, replaceMu, timerVars, setterVars, reader,
                 telling, closing>>

-----------------------------------------------------------------------------
Next ==
  \/ \E c \in Conns : SetPublisher(c) \/ ForwardPublisher(c)
  \/ \E e \in 1 .. Cardinality(Conns) : ReconnectTimeout(e)
  \/ \E s \in LateSubs : Join(s)
  \/ TimerFires \/ Close \/ CloseInternal

Spec == Init /\ [][Next]_vars

\* Goroutines run, the timer goes off, a read from a socket the relay has
\* closed fails, and each write to a subscriber ends by its deadline.  A call
\* that has taken publisherReplaceMu goes on; none is owed the lock.
Fairness ==
  /\ \A c \in Conns :
       /\ WF_vars(InstallPublisher(c) \/ RefuseWhenClosed(c) \/ CloseOld(c)
                  \/ WaitForReader(c) \/ Announce(c))
       /\ WF_vars(c \notin isOpen /\ ReadFails(c))
       /\ WF_vars(StartReading(c) \/ LosePublisher(c) \/ WasReplaced(c)
                  \/ TellDisconnected(c))
  /\ WF_vars(TimerFires)
  /\ \A e \in 1 .. Cardinality(Conns) : SF_vars(ReconnectTimeout(e))
  /\ WF_vars(CloseInternal)

FairSpec == Spec /\ Fairness

-----------------------------------------------------------------------------
(* Properties.                                                             *)

SetterSteps == {"new", "install", "close_old", "wait", "announce", "done"}
ReaderSteps == {"none", "starting", "reading", "failed", "closing", "telling",
                "ended"}

\* Holding publisherReplaceMu and being between Lock and Unlock is the same.
TypeOK ==
  /\ publisher \in Conns \cup {NoConn}
  /\ publisherDisconnected \in BOOLEAN
  /\ publisherEpoch \in 0 .. Cardinality(Conns)
  /\ isOpen \subseteq Conns
  /\ outages \in 0 .. Cardinality(Conns)
  /\ armed \in 0 .. outages /\ fired \subseteq 1 .. outages
  /\ setter \in [Conns -> SetterSteps]
  /\ reader \in [Conns -> ReaderSteps]
  /\ epochOf \in [Conns -> 0 .. Cardinality(Conns)]
  /\ oldConn \in [Conns -> Conns \cup {NoConn}]
  /\ wasDisconnected \in [Conns -> BOOLEAN]
  /\ telling \in [Conns -> SUBSET Subs]
  /\ closing \in {"open", "flagged", "waiting", "done"}
  /\ subs \subseteq Subs
  /\ joining \in [LateSubs -> {"outside", "check", "write", "inside"}]
  /\ told \in [Subs -> {"connected", "disconnected"}]
  /\ replaceMu \in Conns \cup {Nobody, "closer"}
  /\ \A c \in Conns : replaceMu = c <=> setter[c] \notin {"new", "done"}
  /\ replaceMu = "closer" <=> closing \in {"flagged", "waiting"}

\* However fast the runner reconnects, one goroutine reads for a channel:
\* SetPublisher waits for the old one before it starts its own.
OneReader ==
  \A c, d \in Conns :
    reader[c] \in {"reading", "failed"} /\ reader[d] \in {"reading", "failed"}
      => c = d

\* The connection installed last stays the publisher until its own goroutine
\* fails: that of a replaced connection, however late it reports, does not
\* pass the pointer and epoch check of handlePublisherDisconnect.
NewestStaysPublisher ==
  closing = "open" =>
    \A c \in Conns :
      reader[c] \in {"starting", "reading", "failed"}
        /\ epochOf[c] = publisherEpoch
      => publisher = c /\ ~publisherDisconnected

\* The reconnect timeout closes a channel only while its runner is away.
TimeoutSparesConnected ==
  [][(\E e \in fired : ReconnectTimeout(e)) /\ closing' # closing
       => publisher = NoConn]_vars

\* Once a channel is closed and the calls in progress are over, the relay
\* holds no runner connection it was given and no subscriber, whichever call
\* came first.
ClosedHoldsNothing ==
  closing = "done" =>
    /\ publisher = NoConn /\ subs = {}
    /\ \A c \in Conns : setter[c] = "done" => c \notin isOpen

\* Nothing under way: no call, no goroutine between a failure and its end.
Settled ==
  /\ \A c \in Conns : /\ setter[c] \in {"new", "done"}
                      /\ reader[c] \in {"none", "reading", "ended"}
  /\ \A s \in LateSubs : joining[s] \in {"outside", "inside"}
  /\ ~Closed

\* A browser that was there from the start knows whether the runner is: the
\* two broadcasts of an outage never reach it in the wrong order.
IsToldTheTruth(s) == told[s] = "disconnected" <=> publisherDisconnected
EarlyAreToldTheTruth ==
  Settled => \A s \in subs \ LateSubs : IsToldTheTruth(s)

\* SetPublisher and Close end although both wait for the reading goroutine
\* with publisherReplaceMu held, and a runner that stays away closes the
\* channel.
CallsReturn ==
  /\ \A c \in Conns : setter[c] = "install" ~> setter[c] = "done"
  /\ closing = "flagged" ~> closing = "done"
  /\ publisherDisconnected ~> ~publisherDisconnected \/ closing = "done"

\* A statement of the client that the relay does not keep.

\* "assume the runner is up until a RunnerDisconnected frame says otherwise":
\* so does a browser that joins during an outage.
ToldIsTrue == Settled => \A s \in subs : IsToldTheTruth(s)

-----------------------------------------------------------------------------
(* The inductive invariant behind OneReader, NewestStaysPublisher and      *)
(* ClosedHoldsNothing.                                                     *)

\* What the steps below read has a type.
StateShape ==
  /\ setter \in [Conns -> SetterSteps]
  /\ reader \in [Conns -> ReaderSteps]
  /\ epochOf \in [Conns -> Nat]
  /\ oldConn \in [Conns -> Conns \cup {NoConn}]
  /\ publisher \in Conns \cup {NoConn}
  /\ publisherEpoch \in Nat
  /\ isOpen \subseteq Conns
  /\ closing \in {"open", "flagged", "waiting", "done"}

\* publisherReplaceMu excludes: one call or one closer at a time.
LockExcludes ==
  /\ \A c \in Conns : setter[c] \notin {"new", "done"} => replaceMu = c
  /\ closing \in {"flagged", "waiting"} => replaceMu = "closer"

\* What a call has installed stays until the call ends.
CallInProgress ==
  \A c \in Conns : setter[c] \in {"close_old", "wait", "announce"} =>
    /\ publisher = c /\ ~publisherDisconnected
    /\ epochOf[c] = publisherEpoch
    /\ closing = "open"
    /\ setter[c] = "announce" => Running = {}

\* A goroutine starts when its call ends, and the next when it has ended.
ReadersInTurn ==
  /\ \A c \in Conns : reader[c] # "none" => setter[c] = "done"
  /\ \A c \in Conns : epochOf[c] <= publisherEpoch
  /\ \A c, d \in Running : c = d
  /\ closing = "done" => Running = {}

\* An open connection whose call is over is the publisher's, or someone is
\* about to close it.
OpenIsAccountedFor ==
  /\ closing \in {"waiting", "done"} => publisher = NoConn
  /\ closing = "done" => subs = {}
  /\ \A c \in isOpen : setter[c] = "done" =>
       \/ publisher = c
       \/ reader[c] = "closing"
       \/ \E d \in Conns : setter[d] = "close_old" /\ oldConn[d] = c

PublisherInv ==
  /\ StateShape /\ LockExcludes /\ CallInProgress /\ ReadersInTurn
  /\ NewestStaysPublisher /\ OpenIsAccountedFor

=============================================================================
