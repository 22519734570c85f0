--------------------------- MODULE RelayChannels ---------------------------
(***************************************************************************)
(* The relay's channel manager for one pod: runner and browser connections *)
(* that wait for each other, the channel made when they meet, who is on    *)
(* it, and its end.                                                        *)
(*                                                                         *)
(* A step is one critical section of the manager's mu or of a channel's    *)
(* subscribersMu.  SetPublisher and the reconnect timer, whose own races   *)
(* are in RelayPublisher, are one step each here.                          *)
(***************************************************************************)
EXTENDS Naturals, FiniteSets

CONSTANTS
  Conns,                  \* runner connections
  Subs,                   \* browser connections
  MaxSubscribersPerPod,
  MaxChannels             \* bound: channels made in a run

None == "none"
ASSUME ChannelsAssumption ==
  /\ Conns \cap Subs = {} /\ None \notin Conns \cup Subs
  /\ MaxSubscribersPerPod \in Nat \ {0} /\ MaxChannels \in Nat

Channels == 1 .. MaxChannels

VARIABLES
  current,             \* channels[podKey], 0 if there is none
  pendingPublisher, pendingSubscriber,
  made,                \* channels made so far
  publisher, lost,     \* per channel: publisher, publisherDisconnected
  subscribers,         \* per channel
  keepAlive,           \* per channel: keepAliveTimer runs
  notified,            \* per channel: onAllSubscribersGone was called since
                       \* the last subscriber came (history)
  state,               \* per channel: progress of closeInternal
  held,                \* sockets the relay holds open
  call                 \* per connection: the call that brought it, or that
                       \* takes it away

pendingVars == <<pendingPublisher, pendingSubscriber>>
channelVars == <<publisher, lost, subscribers, keepAlive, notified, state>>
vars == <<current, pendingVars, made, channelVars, held, call>>

\* A call: its step, the channel it works on and, when it pairs, the
\* connection that was waiting.
At(step, ch, other) == [step |-> step, ch |-> ch, other |-> other]
Idle(step) == At(step, 0, None)
CallIs(x, step) == call[x].step = step
Goto(x, c) == call' = [call EXCEPT ![x] = c]

Closed(ch) == state[ch] # "open"

-----------------------------------------------------------------------------
Init ==
  /\ current = 0 /\ made = 0
  /\ pendingPublisher = None /\ pendingSubscriber = None
  /\ publisher = [ch \in Channels |-> None]
  /\ lost = [ch \in Channels |-> FALSE]
  /\ subscribers = [ch \in Channels |-> {}]
  /\ keepAlive = [ch \in Channels |-> FALSE]
  /\ notified = [ch \in Channels |-> FALSE]
  /\ state = [ch \in Channels |-> "open"]
  /\ held = {}
  /\ call = [x \in Conns \cup Subs |-> Idle("outside")]

-----------------------------------------------------------------------------
(* HandlePublisherConnect and HandleSubscriberConnect: the section of mu.  *)

\* The channel is in the map before mu is released.
CreateChannel(x, other) ==
  /\ made < MaxChannels
  /\ made' = made + 1
  /\ current' = made + 1
  /\ Goto(x, At("set_publisher", made + 1, other))

\* Mutant: nobody looks whether a browser waits.
WaitForAnySubscriber(c) ==
  /\ current = 0
  /\ held' = (held \ {pendingPublisher}) \cup {c}
  /\ pendingPublisher' = c
  /\ Goto(c, Idle("done"))
  /\ UNCHANGED <<current, made, pendingSubscriber>>

\* No channel and no browser: wait, in place of a runner that did.
WaitForSubscriber(c) ==
  /\ current = 0 /\ pendingSubscriber = None
  /\ held' = (held \ {pendingPublisher}) \cup {c}
  /\ pendingPublisher' = c
  /\ Goto(c, Idle("done"))
  /\ UNCHANGED <<current, made, pendingSubscriber>>

ReplacePublisher(c) ==
  /\ current # 0
  /\ held' = held \cup {c}
  /\ Goto(c, At("set_publisher", current, None))
  /\ UNCHANGED <<current, made, pendingVars>>

MeetSubscriber(c) ==
  /\ current = 0 /\ pendingSubscriber # None
  /\ held' = held \cup {c}
  /\ CreateChannel(c, pendingSubscriber)
  /\ pendingSubscriber' = None
  /\ UNCHANGED pendingPublisher

HandlePublisherConnect(c) ==
  /\ CallIs(c, "outside")
  /\ ReplacePublisher(c) \/ MeetSubscriber(c) \/ WaitForSubscriber(c)
  /\ UNCHANGED channelVars

JoinChannel(s) ==
  /\ current # 0
  /\ held' = held \cup {s}
  /\ Goto(s, At("add_with_limit", current, None))
  /\ UNCHANGED <<current, made, pendingVars>>

MeetPublisher(s) ==
  /\ current = 0 /\ pendingPublisher # None
  /\ held' = held \cup {s}
  /\ CreateChannel(s, pendingPublisher)
  /\ pendingPublisher' = None
  /\ UNCHANGED pendingSubscriber

WaitForPublisher(s) ==
  /\ current = 0 /\ pendingPublisher = None
  /\ held' = (held \ {pendingSubscriber}) \cup {s}
  /\ pendingSubscriber' = s
  /\ Goto(s, Idle("done"))
  /\ UNCHANGED <<current, made, pendingPublisher>>

HandleSubscriberConnect(s) ==
  /\ CallIs(s, "outside")
  /\ JoinChannel(s) \/ MeetPublisher(s) \/ WaitForPublisher(s)
  /\ UNCHANGED channelVars

\* Mutant: waiting browsers are forgotten.
CleanupPublishers ==
  /\ pendingPublisher # None
  /\ held' = held \ {pendingPublisher}
  /\ pendingPublisher' = None
  /\ UNCHANGED <<current, pendingSubscriber, made, channelVars, call>>

\* Mutant: the timer is stopped by whoever leaves last.
StopKeepAlive(s) ==
  LET ch == call[s].ch IN
  /\ CallIs(s, "last_gone")
  /\ keepAlive' = [keepAlive EXCEPT ![ch] = FALSE]
  /\ Goto(s, Idle("left"))
  /\ UNCHANGED <<current, pendingVars, made, publisher, lost, subscribers,
                 notified, state, held>>

\* cleanupPendingConnections: one that has waited too long is closed.
CleanupPendingConnections ==
  /\ \/ /\ pendingPublisher # None
        /\ held' = held \ {pendingPublisher}
        /\ pendingPublisher' = None
        /\ UNCHANGED pendingSubscriber
     \/ /\ pendingSubscriber # None
        /\ held' = held \ {pendingSubscriber}
        /\ pendingSubscriber' = None
        /\ UNCHANGED pendingPublisher
  /\ UNCHANGED <<current, made, channelVars, call>>

-----------------------------------------------------------------------------
(* The rest of those calls, on the channel.                                *)

\* The two connections of a pairing call: one made it, one was waiting.
ConnOf(x) == IF x \in Conns THEN x ELSE call[x].other
SubOf(x) == IF x \in Subs THEN x ELSE call[x].other

\* Mutant: a closed channel takes the connection and keeps it.
SetPublisherAnyway(x, ch) ==
  /\ publisher' = [publisher EXCEPT ![ch] = ConnOf(x)]
  /\ lost' = [lost EXCEPT ![ch] = FALSE]
  /\ held' = held \ {publisher[ch]}

SetPublisher(x, ch) ==
  IF Closed(ch)
  THEN held' = held \ {ConnOf(x)} /\ UNCHANGED <<publisher, lost>>
  ELSE /\ publisher' = [publisher EXCEPT ![ch] = ConnOf(x)]
       /\ lost' = [lost EXCEPT ![ch] = FALSE]
       /\ held' = held \ {publisher[ch]}

CallSetPublisher(x) ==
  LET ch == call[x].ch IN
  /\ CallIs(x, "set_publisher")
  /\ SetPublisher(x, ch)
  /\ Goto(x, IF SubOf(x) = None THEN Idle("done")
             ELSE At("add", ch, call[x].other))
  /\ UNCHANGED <<current, pendingVars, made, subscribers, keepAlive, notified,
                 state>>

AddSubscriberInternal(s, ch) ==
  /\ subscribers' = [subscribers EXCEPT ![ch] = @ \cup {s}]
  /\ keepAlive' = [keepAlive EXCEPT ![ch] = FALSE]
  /\ notified' = [notified EXCEPT ![ch] = FALSE]

\* addSubscriberInternal without a limit, for the subscriber that waited or
\* met a waiting runner.
AddSubscriber(x) ==
  LET ch == call[x].ch IN
  /\ CallIs(x, "add")
  /\ IF Closed(ch)
     THEN /\ held' = held \ {SubOf(x)}
          /\ UNCHANGED <<subscribers, keepAlive, notified>>
     ELSE AddSubscriberInternal(SubOf(x), ch) /\ UNCHANGED held
  /\ Goto(x, Idle("done"))
  /\ UNCHANGED <<current, pendingVars, made, publisher, lost, state>>

\* Mutant: one too many.
FullBeyond(ch) == Cardinality(subscribers[ch]) > MaxSubscribersPerPod

Full(ch) == Cardinality(subscribers[ch]) >= MaxSubscribersPerPod

\* For one that joins an existing channel; a refused one is closed, by the
\* channel or by HandleBrowserWS.
AddSubscriberWithLimit(s) ==
  LET ch == call[s].ch IN
  /\ CallIs(s, "add_with_limit")
  /\ IF Closed(ch) \/ Full(ch)
     THEN /\ held' = held \ {s}
          /\ UNCHANGED <<subscribers, keepAlive, notified>>
     ELSE AddSubscriberInternal(s, ch) /\ UNCHANGED held
  /\ Goto(s, Idle("done"))
  /\ UNCHANGED <<current, pendingVars, made, publisher, lost, state>>

-----------------------------------------------------------------------------
(* A browser leaves: RemoveSubscriber, then handleLastSubscriberGone.      *)

RemoveSubscriber(s, ch) ==
  /\ s \in subscribers[ch] /\ CallIs(s, "done")
  /\ subscribers' = [subscribers EXCEPT ![ch] = @ \ {s}]
  /\ held' = held \ {s}
  /\ Goto(s, IF subscribers[ch] = {s} THEN At("last_gone", ch, None)
             ELSE Idle("left"))
  /\ UNCHANGED <<current, pendingVars, made, publisher, lost, keepAlive,
                 notified, state>>

\* Mutant: what RemoveSubscriber counted is taken to be still so.
ArmWithoutLooking(s) ==
  LET ch == call[s].ch IN
  /\ CallIs(s, "last_gone")
  /\ keepAlive' = [keepAlive EXCEPT ![ch] = TRUE]
  /\ Goto(s, Idle("left"))
  /\ UNCHANGED <<current, pendingVars, made, publisher, lost, subscribers,
                 notified, state, held>>

HandleLastSubscriberGone(s) ==
  LET ch == call[s].ch IN
  /\ CallIs(s, "last_gone")
  /\ keepAlive' = [keepAlive EXCEPT ![ch] = @ \/ subscribers[ch] = {}]
  /\ Goto(s, Idle("left"))
  /\ UNCHANGED <<current, pendingVars, made, publisher, lost, subscribers,
                 notified, state, held>>

KeepAliveTimeout(ch) ==
  /\ keepAlive[ch]
  /\ keepAlive' = [keepAlive EXCEPT ![ch] = FALSE]
  /\ notified' = [notified EXCEPT
                    ![ch] = @ \/ (~Closed(ch) /\ subscribers[ch] = {})]
  /\ UNCHANGED <<current, pendingVars, made, publisher, lost, subscribers,
                 state, held, call>>

-----------------------------------------------------------------------------
(* The runner goes away, and the channel with it unless it comes back.     *)

HandlePublisherDisconnect(ch) ==
  /\ publisher[ch] # None
  /\ held' = held \ {publisher[ch]}
  /\ publisher' = [publisher EXCEPT ![ch] = None]
  /\ lost' = [lost EXCEPT ![ch] = TRUE]
  /\ UNCHANGED <<current, pendingVars, made, subscribers, keepAlive, notified,
                 state, call>>

\* The reconnect timer: closeInternal up to the wait for the publisher.
ReconnectTimeout(ch) ==
  /\ lost[ch] /\ ~Closed(ch)
  /\ state' = [state EXCEPT ![ch] = "closing"]
  /\ keepAlive' = [keepAlive EXCEPT ![ch] = FALSE]
  /\ UNCHANGED <<current, pendingVars, made, publisher, lost, subscribers,
                 notified, held, call>>

CloseSubscribers(ch) ==
  /\ state[ch] = "closing"
  /\ state' = [state EXCEPT ![ch] = "emptied"]
  /\ held' = held \ subscribers[ch]
  /\ subscribers' = [subscribers EXCEPT ![ch] = {}]
  /\ UNCHANGED <<current, pendingVars, made, publisher, lost, keepAlive,
                 notified, call>>

\* The manager's callback deletes by pod key.
OnChannelClosed(ch) ==
  /\ state[ch] = "emptied"
  /\ state' = [state EXCEPT ![ch] = "removed"]
  /\ current' = 0
  /\ UNCHANGED <<pendingVars, made, publisher, lost, subscribers, keepAlive,
                 notified, held, call>>

-----------------------------------------------------------------------------
Next ==
  \/ \E c \in Conns : HandlePublisherConnect(c)
  \/ \E s \in Subs :
       \/ HandleSubscriberConnect(s)
       \/ AddSubscriberWithLimit(s)
       \/ HandleLastSubscriberGone(s)
  \/ \E x \in Conns \cup Subs : CallSetPublisher(x) \/ AddSubscriber(x)
  \/ CleanupPendingConnections
  \/ \E ch \in Channels :
       \/ \E s \in Subs : RemoveSubscriber(s, ch)
       \/ KeepAliveTimeout(ch)
       \/ HandlePublisherDisconnect(ch)
       \/ ReconnectTimeout(ch) \/ CloseSubscribers(ch) \/ OnChannelClosed(ch)

Spec == Init /\ [][Next]_vars

\* Calls go on, the cleanup ticker ticks and timers go off.  Nothing makes a
\* connection arrive, leave or fail.
Fairness ==
  /\ \A x \in Conns \cup Subs :
       WF_vars(CallSetPublisher(x) \/ AddSubscriber(x))
  /\ \A s \in Subs :
       WF_vars(AddSubscriberWithLimit(s) \/ HandleLastSubscriberGone(s))
  /\ WF_vars(CleanupPendingConnections)
  /\ \A ch \in Channels :
       /\ WF_vars(KeepAliveTimeout(ch))
       /\ WF_vars(ReconnectTimeout(ch) \/ CloseSubscribers(ch)
                  \/ OnChannelClosed(ch))

FairSpec == Spec /\ Fairness

-----------------------------------------------------------------------------
(* Properties.                                                             *)

CallSteps == {"outside", "set_publisher", "add", "add_with_limit", "done",
              "last_gone", "left"}

TypeOK ==
  /\ made \in 0 .. MaxChannels /\ current \in 0 .. made
  /\ pendingPublisher \in Conns \cup {None}
  /\ pendingSubscriber \in Subs \cup {None}
  /\ publisher \in [Channels -> Conns \cup {None}]
  /\ lost \in [Channels -> BOOLEAN]
  /\ \A ch \in Channels : lost[ch] => publisher[ch] = None
  /\ subscribers \in [Channels -> SUBSET Subs]
  /\ keepAlive \in [Channels -> BOOLEAN]
  /\ notified \in [Channels -> BOOLEAN]
  /\ state \in [Channels -> {"open", "closing", "emptied", "removed"}]
  /\ held \subseteq Conns \cup Subs
  /\ call \in [Conns \cup Subs ->
                 [step : CallSteps, ch : 0 .. made,
                  other : Conns \cup Subs \cup {None}]]
  /\ \A x \in Conns \cup Subs :
       call[x].step \in {"set_publisher", "add", "add_with_limit", "last_gone"}
         => call[x].ch # 0

\* A runner and a browser never wait for each other, and nobody waits while
\* the pod has a channel: the look-up and what follows are one section of mu.
NobodyWaitsInVain ==
  /\ pendingPublisher = None \/ pendingSubscriber = None
  /\ current # 0 => pendingPublisher = None /\ pendingSubscriber = None

\* A pod has one live channel and the manager finds it; onChannelClosed,
\* which deletes by pod key, never takes a successor out of the map.
LiveChannelIsListed ==
  \A ch \in 1 .. made : ~Closed(ch) => current = ch

\* Whatever refuses, replaces or closes, no socket stays open that nobody
\* will find: it waits, is on a channel that is not gone, or in a call.
InHands(x) ==
  \/ x \in {pendingPublisher, pendingSubscriber}
  \/ \E ch \in Channels : /\ state[ch] # "removed"
                          /\ x = publisher[ch] \/ x \in subscribers[ch]
  \/ \E y \in Conns \cup Subs :
       /\ call[y].step \in {"set_publisher", "add", "add_with_limit"}
       /\ x = y \/ x = call[y].other

NoSocketLeaks == \A x \in held : InHands(x)

\* The keep-alive timer runs only while nobody watches, although the last
\* one leaving and the next one coming take the lock one after the other.
KeepAliveOnlyWhenEmpty ==
  \A ch \in Channels : keepAlive[ch] => subscribers[ch] = {}

\* "maximum subscribers per pod".
WithinSubscriberLimit ==
  \A ch \in Channels : Cardinality(subscribers[ch]) <= MaxSubscribersPerPod

\* The one subscriber a channel is made for comes in without a limit, and
\* only that one.
OneOverTheLimit ==
  \A ch \in Channels : Cardinality(subscribers[ch]) <= MaxSubscribersPerPod + 1

\* Who waits is paired, replaced or closed.
WaitingEnds ==
  /\ \A c \in Conns : pendingPublisher = c ~> pendingPublisher # c
  /\ \A s \in Subs : pendingSubscriber = s ~> pendingSubscriber # s

-----------------------------------------------------------------------------
(* The inductive invariant behind NobodyWaitsInVain, LiveChannelIsListed   *)
(* and KeepAliveOnlyWhenEmpty.                                             *)

\* What the steps read has a type.
ManagerShape ==
  /\ made \in Nat /\ made <= MaxChannels /\ current \in 0 .. made
  /\ state \in [Channels -> {"open", "closing", "emptied", "removed"}]
  /\ publisher \in [Channels -> Conns \cup Subs \cup {None}]
  /\ lost \in [Channels -> BOOLEAN]
  /\ subscribers \in [Channels -> SUBSET (Conns \cup Subs \cup {None})]
  /\ keepAlive \in [Channels -> BOOLEAN]
  /\ pendingPublisher \in Conns \cup {None}
  /\ pendingSubscriber \in Subs \cup {None}

\* A step of a call, the channel it works on, the connection that waited.
Calls == [step : CallSteps, ch : Nat, other : Conns \cup Subs \cup {None}]
CallShape == call \in [Conns \cup Subs -> Calls]

\* No call works on a channel before it is made, so nothing happens to it.
UnmadeIsUntouched ==
  /\ \A ch \in Channels : ch > made =>
       /\ publisher[ch] = None /\ ~lost[ch]
       /\ subscribers[ch] = {} /\ state[ch] = "open"
  /\ \A x \in Conns \cup Subs : call[x].ch <= made

\* LiveChannelIsListed, up to the callback that takes the channel out.
ChannelIsListed ==
  \A ch \in 1 .. made : state[ch] # "removed" => current = ch

ManagerInv ==
  /\ ManagerShape /\ CallShape /\ UnmadeIsUntouched /\ ChannelIsListed
  /\ NobodyWaitsInVain /\ KeepAliveOnlyWhenEmpty

=============================================================================
