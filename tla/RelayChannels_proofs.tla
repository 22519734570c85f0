----------------------- MODULE RelayChannels_proofs -----------------------
(***************************************************************************)
(* Proofs about RelayChannels: nobody waits in vain, the manager lists the *)
(* live channel, the keep-alive timer runs for an empty channel only, no   *)
(* socket is left where nobody finds it, and one browser at most is beyond *)
(* the limit.                                                              *)
(***************************************************************************)
EXTENDS RelayChannels, FiniteSetTheorems, TLAPS

\* No channel exists before the first runner and browser have come.
LEMMA InitManagerInv == Init => ManagerInv
  BY ChannelsAssumption
  DEF Init, ManagerInv, ManagerShape, CallShape, UnmadeIsUntouched,
      ChannelIsListed, NobodyWaitsInVain, KeepAliveOnlyWhenEmpty, Channels,
      Calls, CallSteps, At, Idle

\* A call goes on to a step on a channel already made.
LEMMA CallMoves ==
  ASSUME NEW x \in Conns \cup Subs, NEW step \in CallSteps,
         NEW ch \in 0 .. made', NEW other \in Conns \cup Subs \cup {None},
         CallShape, made \in Nat, made' \in Nat, made <= made',
         \A y \in Conns \cup Subs : call[y].ch <= made,
         Goto(x, At(step, ch, other))
  PROVE  CallShape' /\ \A y \in Conns \cup Subs : call'[y].ch <= made'
<1>1. call' = [call EXCEPT ![x] = At(step, ch, other)]
  BY DEF Goto
<1>2. At(step, ch, other) \in Calls /\ At(step, ch, other).ch = ch
  BY DEF At, Calls
<1>3. CallShape'
  BY <1>1, <1>2 DEF CallShape
<1>4. ASSUME NEW y \in Conns \cup Subs PROVE call'[y].ch <= made'
  <2>1. call'[y] = IF y = x THEN At(step, ch, other) ELSE call[y]
    BY <1>1 DEF CallShape
  <2>2. call[y].ch \in Nat /\ call[y].ch <= made
    BY DEF CallShape, Calls
  <2> QED
    BY <1>2, <2>1, <2>2
<1> QED
  BY <1>3, <1>4

\* HandlePublisherConnect and HandleSubscriberConnect.
LEMMA ConnectKeepsInv ==
  ASSUME ManagerInv, NEW x \in Conns \cup Subs,
         \/ x \in Conns /\ HandlePublisherConnect(x)
         \/ x \in Subs /\ HandleSubscriberConnect(x)
  PROVE  ManagerInv'
<1> USE ChannelsAssumption DEF ManagerInv
<1>1. UNCHANGED channelVars
  BY DEF HandlePublisherConnect, HandleSubscriberConnect
<1>2. CASE \/ x \in Conns /\ ReplacePublisher(x)
           \/ x \in Subs /\ JoinChannel(x)
  <2>1. /\ UNCHANGED <<current, made, pendingVars>>
        /\ \/ Goto(x, At("set_publisher", current, None))
           \/ Goto(x, At("add_with_limit", current, None))
    BY <1>2 DEF ReplacePublisher, JoinChannel
  <2>2. CallShape' /\ \A y \in Conns \cup Subs : call'[y].ch <= made'
    BY <2>1, CallMoves DEF ManagerShape, UnmadeIsUntouched, CallSteps
  <2> QED
    BY <1>1, <2>1, <2>2
    DEF ManagerShape, UnmadeIsUntouched, ChannelIsListed, NobodyWaitsInVain,
        KeepAliveOnlyWhenEmpty, channelVars, pendingVars
<1>3. CASE \/ x \in Conns /\ MeetSubscriber(x)
           \/ x \in Subs /\ MeetPublisher(x)
  <2>1. PICK other \in Conns \cup Subs : CreateChannel(x, other)
    BY <1>3 DEF MeetSubscriber, MeetPublisher, ManagerShape
  <2>2. /\ current = 0 /\ made < MaxChannels
        /\ made' = made + 1 /\ current' = made + 1
        /\ Goto(x, At("set_publisher", made + 1, other))
    BY <1>3, <2>1 DEF MeetSubscriber, MeetPublisher, CreateChannel
  <2>3. pendingPublisher' = None /\ pendingSubscriber' = None
    BY <1>3 DEF MeetSubscriber, MeetPublisher, NobodyWaitsInVain
  <2>4. CallShape' /\ \A y \in Conns \cup Subs : call'[y].ch <= made'
    BY <2>2, CallMoves DEF ManagerShape, UnmadeIsUntouched, CallSteps
  <2>5. ManagerShape' /\ UnmadeIsUntouched'
    BY <1>1, <2>2, <2>3, <2>4
    DEF ManagerShape, UnmadeIsUntouched, channelVars, Channels
  <2>6. ChannelIsListed'
    <3>1. \A ch \in 1 .. made : state[ch] = "removed"
      BY <2>2 DEF ChannelIsListed
    <3> QED
      BY <1>1, <2>2, <3>1 DEF ManagerShape, ChannelIsListed, channelVars
  <2> QED
    BY <1>1, <2>3, <2>4, <2>5, <2>6
    DEF NobodyWaitsInVain, KeepAliveOnlyWhenEmpty, channelVars
<1>4. CASE \/ x \in Conns /\ WaitForSubscriber(x)
           \/ x \in Subs /\ WaitForPublisher(x)
  <2>1. /\ UNCHANGED <<current, made>> /\ current = 0
        /\ Goto(x, At("done", 0, None))
    BY <1>4 DEF WaitForSubscriber, WaitForPublisher, Idle
  <2>2. CallShape' /\ \A y \in Conns \cup Subs : call'[y].ch <= made'
    BY <2>1, CallMoves DEF ManagerShape, UnmadeIsUntouched, CallSteps
  <2>3. /\ pendingPublisher' \in Conns \cup {None}
        /\ pendingSubscriber' \in Subs \cup {None}
        /\ pendingPublisher' = None \/ pendingSubscriber' = None
    BY <1>4 DEF WaitForSubscriber, WaitForPublisher, ManagerShape
  <2> QED
    BY <1>1, <2>1, <2>2, <2>3
    DEF ManagerShape, UnmadeIsUntouched, ChannelIsListed, NobodyWaitsInVain,
        KeepAliveOnlyWhenEmpty, channelVars
<1> QED
  BY <1>2, <1>3, <1>4 DEF HandlePublisherConnect, HandleSubscriberConnect

\* The rest of those calls: SetPublisher and the two ways to add a subscriber.
LEMMA CallKeepsInv ==
  ASSUME ManagerInv, NEW x \in Conns \cup Subs,
         \/ CallSetPublisher(x)
         \/ AddSubscriber(x)
         \/ x \in Subs /\ AddSubscriberWithLimit(x)
  PROVE  ManagerInv'
<1> USE ChannelsAssumption DEF ManagerInv
<1> DEFINE ch == call[x].ch
<1>1. /\ ch \in Nat /\ ch <= made
      /\ ConnOf(x) \in Conns \cup Subs \cup {None}
      /\ SubOf(x) \in Conns \cup Subs \cup {None}
      /\ call[x].other \in Conns \cup Subs \cup {None}
  BY DEF CallShape, Calls, UnmadeIsUntouched, ConnOf, SubOf
<1>2. UNCHANGED <<current, pendingVars, made, state>>
  BY DEF CallSetPublisher, AddSubscriber, AddSubscriberWithLimit
<1>3. CallShape' /\ \A y \in Conns \cup Subs : call'[y].ch <= made'
  <2>1. \/ Goto(x, At("add", ch, call[x].other))
        \/ Goto(x, At("done", 0, None))
    BY DEF CallSetPublisher, AddSubscriber, AddSubscriberWithLimit, Idle
  <2> QED
    BY <1>1, <1>2, <2>1, CallMoves
    DEF ManagerShape, UnmadeIsUntouched, CallSteps
<1>4. CASE CallSetPublisher(x)
  <2>1. UNCHANGED <<subscribers, keepAlive>>
    BY <1>4 DEF CallSetPublisher
  <2>2. \/ UNCHANGED <<publisher, lost>>
        \/ /\ publisher' = [publisher EXCEPT ![ch] = ConnOf(x)]
           /\ lost' = [lost EXCEPT ![ch] = FALSE]
    BY <1>4 DEF CallSetPublisher, SetPublisher
  <2>3. ManagerShape'
    <3>1. publisher' \in [Channels -> Conns \cup Subs \cup {None}]
      BY <1>1, <2>2 DEF ManagerShape
    <3>2. lost' \in [Channels -> BOOLEAN]
      BY <2>2 DEF ManagerShape
    <3> QED
      BY <1>2, <2>1, <3>1, <3>2 DEF ManagerShape, pendingVars
  <2>4. UnmadeIsUntouched'
    <3>1. ASSUME NEW k \in Channels, k > made'
          PROVE  /\ publisher'[k] = None /\ ~lost'[k]
                 /\ subscribers'[k] = {} /\ state'[k] = "open"
      <4>1. k > made /\ k # ch
        BY <1>1, <1>2, <3>1 DEF ManagerShape, Channels
      <4>2. publisher'[k] = publisher[k] /\ lost'[k] = lost[k]
        BY <2>2, <4>1 DEF ManagerShape
      <4> QED
        BY <1>2, <2>1, <4>1, <4>2 DEF UnmadeIsUntouched
    <3> QED
      BY <1>3, <3>1 DEF UnmadeIsUntouched
  <2> QED
    BY <1>2, <1>3, <2>1, <2>3, <2>4
    DEF ChannelIsListed, NobodyWaitsInVain, KeepAliveOnlyWhenEmpty,
        pendingVars
<1>5. CASE \/ AddSubscriber(x)
           \/ x \in Subs /\ AddSubscriberWithLimit(x)
  <2>1. UNCHANGED <<publisher, lost>>
    BY <1>5 DEF AddSubscriber, AddSubscriberWithLimit
  <2>2. \/ UNCHANGED <<subscribers, keepAlive>>
        \/ \E s \in {x, SubOf(x)} :
             /\ subscribers' = [subscribers EXCEPT ![ch] = @ \cup {s}]
             /\ keepAlive' = [keepAlive EXCEPT ![ch] = FALSE]
    BY <1>5 DEF AddSubscriber, AddSubscriberWithLimit, AddSubscriberInternal
  <2> DEFINE TypedAndQuiet ==
        /\ subscribers' \in [Channels -> SUBSET (Conns \cup Subs \cup {None})]
        /\ keepAlive' \in [Channels -> BOOLEAN]
        /\ KeepAliveOnlyWhenEmpty'
        /\ \A k \in Channels : k # ch => subscribers'[k] = subscribers[k]
  <2>3. TypedAndQuiet
    <3>1. CASE UNCHANGED <<subscribers, keepAlive>>
      BY <3>1 DEF ManagerShape, KeepAliveOnlyWhenEmpty
    <3>2. ASSUME NEW s \in {x, SubOf(x)},
                 subscribers' = [subscribers EXCEPT ![ch] = @ \cup {s}],
                 keepAlive' = [keepAlive EXCEPT ![ch] = FALSE]
          PROVE  TypedAndQuiet
      <4>1. s \in Conns \cup Subs \cup {None}
        BY <1>1
      <4> QED
        BY <3>2, <4>1 DEF ManagerShape, KeepAliveOnlyWhenEmpty
    <3> QED
      BY <2>2, <3>1, <3>2
  <2>4. ManagerShape'
    BY <1>2, <2>1, <2>3 DEF ManagerShape, pendingVars
  <2>5. UnmadeIsUntouched'
    <3>1. ASSUME NEW k \in Channels, k > made'
          PROVE  /\ publisher'[k] = None /\ ~lost'[k]
                 /\ subscribers'[k] = {} /\ state'[k] = "open"
      <4>1. k > made /\ k # ch
        BY <1>1, <1>2, <3>1 DEF ManagerShape, Channels
      <4> QED
        BY <1>2, <2>1, <2>3, <4>1 DEF UnmadeIsUntouched
    <3> QED
      BY <1>3, <3>1 DEF UnmadeIsUntouched
  <2> QED
    BY <1>2, <1>3, <2>3, <2>4, <2>5
    DEF ChannelIsListed, NobodyWaitsInVain, pendingVars
<1> QED
  BY <1>4, <1>5

\* RemoveSubscriber and handleLastSubscriberGone.
LEMMA LeaveKeepsInv ==
  ASSUME ManagerInv, NEW s \in Subs,
         \/ \E ch \in Channels : RemoveSubscriber(s, ch)
         \/ HandleLastSubscriberGone(s)
  PROVE  ManagerInv'
<1> USE ChannelsAssumption DEF ManagerInv
<1>1. UNCHANGED <<current, pendingVars, made, publisher, lost, state>>
  BY DEF RemoveSubscriber, HandleLastSubscriberGone
<1>2. ASSUME NEW ch \in Channels, RemoveSubscriber(s, ch)
      PROVE  ManagerInv'
  <2>1. /\ UNCHANGED keepAlive
        /\ subscribers' = [subscribers EXCEPT ![ch] = @ \ {s}]
        /\ s \in subscribers[ch]
        /\ \/ Goto(s, At("last_gone", ch, None))
           \/ Goto(s, At("left", 0, None))
    BY <1>2 DEF RemoveSubscriber, Idle
  <2>2. ch \in 1 .. made
    BY <2>1 DEF UnmadeIsUntouched, ManagerShape, Channels
  <2>3. CallShape' /\ \A y \in Conns \cup Subs : call'[y].ch <= made'
    BY <1>1, <2>1, <2>2, CallMoves
    DEF ManagerShape, UnmadeIsUntouched, CallSteps
  <2> QED
    BY <1>1, <2>1, <2>3
    DEF ManagerShape, UnmadeIsUntouched, ChannelIsListed, NobodyWaitsInVain,
        KeepAliveOnlyWhenEmpty, pendingVars
<1>3. CASE HandleLastSubscriberGone(s)
  <2> DEFINE gone == call[s].ch
  <2>1. /\ UNCHANGED subscribers
        /\ keepAlive' =
             [keepAlive EXCEPT ![gone] = @ \/ subscribers[gone] = {}]
        /\ Goto(s, At("left", 0, None))
    BY <1>3 DEF HandleLastSubscriberGone, Idle
  <2>2. CallShape' /\ \A y \in Conns \cup Subs : call'[y].ch <= made'
    BY <1>1, <2>1, CallMoves DEF ManagerShape, UnmadeIsUntouched, CallSteps
  <2>3. keepAlive' \in [Channels -> BOOLEAN] /\ KeepAliveOnlyWhenEmpty'
    BY <2>1 DEF ManagerShape, KeepAliveOnlyWhenEmpty
  <2> QED
    BY <1>1, <2>1, <2>2, <2>3
    DEF ManagerShape, UnmadeIsUntouched, ChannelIsListed, NobodyWaitsInVain,
        pendingVars
<1> QED
  BY <1>2, <1>3

\* Timers, the cleanup ticker, a runner that goes away and closeInternal.
LEMMA BackgroundKeepsInv ==
  ASSUME ManagerInv,
         \/ CleanupPendingConnections
         \/ \E ch \in Channels :
              \/ KeepAliveTimeout(ch) \/ HandlePublisherDisconnect(ch)
              \/ ReconnectTimeout(ch) \/ CloseSubscribers(ch)
              \/ OnChannelClosed(ch)
  PROVE  ManagerInv'
<1> USE ChannelsAssumption DEF ManagerInv
<1>1. UNCHANGED <<made, call>>
  BY DEF CleanupPendingConnections, KeepAliveTimeout,
         HandlePublisherDisconnect, ReconnectTimeout, CloseSubscribers,
         OnChannelClosed
<1>2. CallShape'
  BY <1>1 DEF CallShape
<1>3. CASE CleanupPendingConnections
  BY <1>2, <1>3
  DEF CleanupPendingConnections, ManagerShape, UnmadeIsUntouched,
      ChannelIsListed, NobodyWaitsInVain, KeepAliveOnlyWhenEmpty, channelVars
<1>4. ASSUME NEW ch \in Channels, KeepAliveTimeout(ch)
      PROVE  ManagerInv'
  BY <1>2, <1>4
  DEF KeepAliveTimeout, ManagerShape, UnmadeIsUntouched, ChannelIsListed,
      NobodyWaitsInVain, KeepAliveOnlyWhenEmpty, pendingVars
<1>5. ASSUME NEW ch \in Channels, HandlePublisherDisconnect(ch)
      PROVE  ManagerInv'
  BY <1>2, <1>5
  DEF HandlePublisherDisconnect, ManagerShape, UnmadeIsUntouched,
      ChannelIsListed, NobodyWaitsInVain, KeepAliveOnlyWhenEmpty, pendingVars
<1>6. ASSUME NEW ch \in Channels, ReconnectTimeout(ch)
      PROVE  ManagerInv'
  BY <1>2, <1>6
  DEF ReconnectTimeout, Closed, ManagerShape, UnmadeIsUntouched,
      ChannelIsListed, NobodyWaitsInVain, KeepAliveOnlyWhenEmpty, pendingVars,
      Channels
<1>7. ASSUME NEW ch \in Channels, CloseSubscribers(ch)
      PROVE  ManagerInv'
  BY <1>2, <1>7
  DEF CloseSubscribers, ManagerShape, UnmadeIsUntouched, ChannelIsListed,
      NobodyWaitsInVain, KeepAliveOnlyWhenEmpty, pendingVars, Channels
<1>8. ASSUME NEW ch \in Channels, OnChannelClosed(ch)
      PROVE  ManagerInv'
  <2>1. /\ state[ch] = "emptied"
        /\ state' = [state EXCEPT ![ch] = "removed"]
        /\ current' = 0
        /\ UNCHANGED <<pendingVars, made, publisher, lost, subscribers,
                       keepAlive, call>>
    BY <1>8 DEF OnChannelClosed
  <2>2. ch \in 1 .. made
    BY <2>1 DEF ManagerShape, UnmadeIsUntouched, Channels
  <2>3. current = ch
    BY <2>1, <2>2 DEF ChannelIsListed
  <2>4. ChannelIsListed'
    BY <2>1, <2>3 DEF ManagerShape, ChannelIsListed, Channels
  <2>5. ManagerShape' /\ UnmadeIsUntouched'
    BY <2>1, <2>2 DEF ManagerShape, UnmadeIsUntouched, pendingVars, Channels
  <2> QED
    BY <1>2, <2>1, <2>4, <2>5
    DEF NobodyWaitsInVain, KeepAliveOnlyWhenEmpty, pendingVars
<1> QED
  BY <1>3, <1>4, <1>5, <1>6, <1>7, <1>8

\* ManagerInv holds whatever connections come and go.
THEOREM ManagerInvariant == Spec => []ManagerInv
<1>1. ManagerInv /\ [Next]_vars => ManagerInv'
  <2> SUFFICES ASSUME ManagerInv, [Next]_vars PROVE ManagerInv'
    OBVIOUS
  <2>1. CASE \E c \in Conns : HandlePublisherConnect(c)
    BY <2>1, ConnectKeepsInv
  <2>2. CASE \E s \in Subs : HandleSubscriberConnect(s)
    BY <2>2, ConnectKeepsInv
  <2>3. CASE \/ \E s \in Subs : AddSubscriberWithLimit(s)
             \/ \E x \in Conns \cup Subs :
                  CallSetPublisher(x) \/ AddSubscriber(x)
    BY <2>3, CallKeepsInv
  <2>4. CASE \E ch \in Channels : \E s \in Subs : RemoveSubscriber(s, ch)
    BY <2>4, LeaveKeepsInv
  <2>5. CASE \E s \in Subs : HandleLastSubscriberGone(s)
    BY <2>5, LeaveKeepsInv
  <2>6. CASE CleanupPendingConnections
    BY <2>6, BackgroundKeepsInv
  <2>7. CASE \E ch \in Channels :
               \/ KeepAliveTimeout(ch) \/ HandlePublisherDisconnect(ch)
               \/ ReconnectTimeout(ch) \/ CloseSubscribers(ch)
               \/ OnChannelClosed(ch)
    BY <2>7, BackgroundKeepsInv
  <2>8. CASE UNCHANGED vars
    BY <2>8
    DEF vars, ManagerInv, ManagerShape, CallShape, UnmadeIsUntouched,
        ChannelIsListed, NobodyWaitsInVain, KeepAliveOnlyWhenEmpty,
        pendingVars, channelVars
  <2> QED
    BY <2>1, <2>2, <2>3, <2>4, <2>5, <2>6, <2>7, <2>8 DEF Next
<1> QED
  BY <1>1, InitManagerInv, PTL DEF Spec

\* HandlePublisherConnect and HandleSubscriberConnect never leave a runner
\* and a browser waiting side by side.
THEOREM NoOneWaitsInVain == Spec => []NobodyWaitsInVain
<1>1. ManagerInv => NobodyWaitsInVain
  BY DEF ManagerInv
<1> QED
  BY <1>1, ManagerInvariant, PTL

\* onChannelClosed deletes by pod key and still takes out only its own channel.
THEOREM LiveChannelInMap == Spec => []LiveChannelIsListed
<1>1. ManagerInv => LiveChannelIsListed
  BY DEF ManagerInv, ChannelIsListed, LiveChannelIsListed, Closed
<1> QED
  BY <1>1, ManagerInvariant, PTL

\* handleLastSubscriberGone and addSubscriberInternal agree on the timer.
THEOREM KeepAliveMeansEmpty == Spec => []KeepAliveOnlyWhenEmpty
<1>1. ManagerInv => KeepAliveOnlyWhenEmpty
  BY DEF ManagerInv
<1> QED
  BY <1>1, ManagerInvariant, PTL

-----------------------------------------------------------------------------
(* Where the sockets are.  InHands lets a pairing call hold both of its    *)
(* connections to its end; here each is held for as long as it has to be,  *)
(* so that the step that lets it go is the one that passes it on.          *)

Pending(x) == x \in {pendingPublisher, pendingSubscriber}
OnChannel(x) == \E ch \in Channels : x = publisher[ch] \/ x \in subscribers[ch]
InCall(x, y) ==
  \/ call[y].step = "set_publisher" /\ (x = y \/ x = call[y].other)
  \/ call[y].step = "add" /\ x = SubOf(y)
  \/ call[y].step = "add_with_limit" /\ x = y

Owned(x) == Pending(x) \/ OnChannel(x) \/ \E y \in Conns \cup Subs : InCall(x, y)

Working == {"set_publisher", "add", "add_with_limit"}

\* A channel that closes has lost its publisher before, and is taken out of
\* the map after its subscribers: what closeInternal leaves behind is empty.
ClosedLetsGo ==
  \A ch \in Channels :
    /\ lost[ch] \/ Closed(ch) => publisher[ch] = None
    /\ state[ch] \in {"emptied", "removed"} => subscribers[ch] = {}

SocketInv ==
  /\ held \subseteq Conns \cup Subs
  /\ ClosedLetsGo
  /\ \A x \in Conns \cup Subs :
       call[x].step \in Working => call[x].ch \in Channels
  /\ \A x \in held : Owned(x)

LEMMA GotoMeans ==
  ASSUME CallShape, NEW x \in Conns \cup Subs, NEW step, NEW ch, NEW other,
         Goto(x, At(step, ch, other))
  PROVE  /\ call'[x].step = step /\ call'[x].ch = ch /\ call'[x].other = other
         /\ \A y \in Conns \cup Subs : y # x => call'[y] = call[y]
BY DEF Goto, At, CallShape

\* A call that holds nothing passes on nothing.
LEMMA OwnersStay ==
  ASSUME CallShape, NEW x \in Conns \cup Subs, call[x].step \notin Working,
         \A y \in Conns \cup Subs : y # x => call'[y] = call[y],
         NEW z, NEW y \in Conns \cup Subs, InCall(z, y)
  PROVE  InCall(z, y)'
<1>1. y # x
  BY DEF InCall, Working
<1> QED
  BY <1>1 DEF InCall, SubOf

LEMMA ConnectKeepsSockets ==
  ASSUME ManagerInv, SocketInv, NEW x \in Conns \cup Subs,
         \/ x \in Conns /\ HandlePublisherConnect(x)
         \/ x \in Subs /\ HandleSubscriberConnect(x)
  PROVE  SocketInv'
<1> USE ChannelsAssumption DEF SocketInv, ManagerInv
<1>1. UNCHANGED channelVars /\ call[x].step = "outside"
  BY DEF HandlePublisherConnect, HandleSubscriberConnect, CallIs
<1>2. ClosedLetsGo' /\ \A z : OnChannel(z) => OnChannel(z)'
  BY <1>1 DEF ClosedLetsGo, Closed, OnChannel, channelVars
<1> SUFFICES /\ held' \subseteq Conns \cup Subs
             /\ \A y \in Conns \cup Subs :
                  call'[y].step \in Working => call'[y].ch \in Channels
             /\ \A z \in held' : Owned(z)'
  BY <1>2
<1>3. CASE \/ x \in Conns /\ ReplacePublisher(x)
           \/ x \in Subs /\ JoinChannel(x)
  <2>1. /\ UNCHANGED pendingVars /\ held' = held \cup {x}
        /\ \/ Goto(x, At("set_publisher", current, None))
           \/ Goto(x, At("add_with_limit", current, None))
    BY <1>3 DEF ReplacePublisher, JoinChannel
  <2>2. current \in Channels
    BY <1>3 DEF ReplacePublisher, JoinChannel, ManagerShape, Channels
  <2>3. /\ call'[x].step \in {"set_publisher", "add_with_limit"}
        /\ call'[x].ch = current
        /\ \A y \in Conns \cup Subs : y # x => call'[y] = call[y]
    BY <2>1, GotoMeans
  <2>4. \A z, y : y \in Conns \cup Subs /\ InCall(z, y) => InCall(z, y)'
    BY <1>1, <2>3, OwnersStay DEF Working
  <2>5. InCall(x, x)'
    BY <2>3 DEF InCall
  <2> QED
    BY <1>2, <2>1, <2>2, <2>3, <2>4, <2>5 DEF Owned, Pending, pendingVars
<1>4. CASE \/ x \in Conns /\ MeetSubscriber(x)
           \/ x \in Subs /\ MeetPublisher(x)
  <2>1. PICK other \in Conns \cup Subs :
          /\ CreateChannel(x, other)
          /\ other \in {pendingPublisher, pendingSubscriber}
          /\ \A z \in Conns \cup Subs : Pending(z) => z = other \/ Pending(z)'
    BY <1>4 DEF MeetSubscriber, MeetPublisher, ManagerShape, Pending
  <2>2. /\ held' = held \cup {x} /\ made' = made + 1 /\ made + 1 \in Channels
        /\ Goto(x, At("set_publisher", made + 1, other))
    BY <1>4, <2>1
    DEF MeetSubscriber, MeetPublisher, CreateChannel, ManagerShape, Channels
  <2>3. /\ call'[x].step = "set_publisher" /\ call'[x].ch = made + 1
        /\ call'[x].other = other
        /\ \A y \in Conns \cup Subs : y # x => call'[y] = call[y]
    BY <2>2, GotoMeans
  <2>4. \A z, y : y \in Conns \cup Subs /\ InCall(z, y) => InCall(z, y)'
    BY <1>1, <2>3, OwnersStay DEF Working
  <2>5. InCall(x, x)' /\ InCall(other, x)'
    BY <2>3 DEF InCall
  <2> QED
    BY <1>2, <2>1, <2>2, <2>3, <2>4, <2>5 DEF Owned
<1>5. CASE \/ x \in Conns /\ WaitForSubscriber(x)
           \/ x \in Subs /\ WaitForPublisher(x)
  <2>1. /\ Goto(x, At("done", 0, None))
        /\ held' \subseteq held \cup {x}
        /\ \A z \in held' : Pending(z) => Pending(z)'
        /\ Pending(x)'
    BY <1>5 DEF WaitForSubscriber, WaitForPublisher, Idle, Pending
  <2>2. /\ call'[x].step = "done"
        /\ \A y \in Conns \cup Subs : y # x => call'[y] = call[y]
    BY <2>1, GotoMeans
  <2>3. \A z, y : y \in Conns \cup Subs /\ InCall(z, y) => InCall(z, y)'
    BY <1>1, <2>2, OwnersStay DEF Working
  <2> QED
    BY <1>2, <2>1, <2>2, <2>3 DEF Owned, Working
<1> QED
  BY <1>3, <1>4, <1>5 DEF HandlePublisherConnect, HandleSubscriberConnect

LEMMA SetPublisherKeepsSockets ==
  ASSUME ManagerInv, SocketInv, NEW x \in Conns \cup Subs, CallSetPublisher(x)
  PROVE  SocketInv'
<1> USE ChannelsAssumption DEF SocketInv, ManagerInv
<1> DEFINE ch == call[x].ch
<1>1. /\ UNCHANGED <<pendingVars, subscribers, state>>
      /\ call[x].step = "set_publisher" /\ ch \in Channels
  BY DEF CallSetPublisher, CallIs, Working
<1>2. /\ \/ SubOf(x) = None /\ call'[x].step = "done"
         \/ /\ call'[x].step = "add" /\ call'[x].ch = ch
            /\ call'[x].other = call[x].other
      /\ \A y \in Conns \cup Subs : y # x => call'[y] = call[y]
  BY GotoMeans DEF CallSetPublisher, Idle
<1>3. \/ /\ Closed(ch) /\ UNCHANGED <<publisher, lost>>
         /\ held' = held \ {ConnOf(x)}
      \/ /\ ~Closed(ch)
         /\ publisher' = [publisher EXCEPT ![ch] = ConnOf(x)]
         /\ lost' = [lost EXCEPT ![ch] = FALSE]
         /\ held' = held \ {publisher[ch]}
  BY DEF CallSetPublisher, SetPublisher
<1>4. held' \subseteq held
  BY <1>3
<1>5. ClosedLetsGo'
  BY <1>1, <1>3 DEF ClosedLetsGo, Closed, ManagerShape
<1>6. ASSUME NEW z \in held', OnChannel(z) PROVE OnChannel(z)'
  BY <1>1, <1>3, <1>6 DEF OnChannel, ManagerShape
<1>7. ASSUME NEW z \in held', z = ConnOf(x) PROVE OnChannel(z)'
  BY <1>1, <1>3, <1>7 DEF OnChannel, ManagerShape
<1>8. ASSUME NEW z \in held', NEW y \in Conns \cup Subs, InCall(z, y)
      PROVE  Owned(z)'
  <2>1. CASE y # x
    BY <1>2, <1>8, <2>1 DEF Owned, InCall, SubOf
  <2>2. CASE y = x
    <3>1. z = x \/ z = call[x].other
      BY <1>1, <1>8, <2>2 DEF InCall
    <3>2. z = ConnOf(x) \/ z = SubOf(x)
      BY <3>1 DEF ConnOf, SubOf
    <3>3. CASE z = SubOf(x) /\ z # ConnOf(x)
      <4>1. z # None
        BY <1>4
      <4>2. z = SubOf(x)' /\ call'[x].step = "add"
        BY <1>2, <3>3, <4>1 DEF SubOf
      <4> QED
        BY <4>2 DEF Owned, InCall
    <3> QED
      BY <1>7, <3>2, <3>3 DEF Owned
  <2> QED
    BY <2>1, <2>2
<1>9. \A z \in held' : Owned(z)'
  BY <1>1, <1>4, <1>6, <1>8 DEF Owned, Pending, pendingVars
<1> QED
  BY <1>1, <1>2, <1>4, <1>5, <1>9 DEF Working

LEMMA AddKeepsSockets ==
  ASSUME ManagerInv, SocketInv, NEW x \in Conns \cup Subs,
         AddSubscriber(x) \/ (x \in Subs /\ AddSubscriberWithLimit(x))
  PROVE  SocketInv'
<1> USE ChannelsAssumption DEF SocketInv, ManagerInv
<1> DEFINE ch == call[x].ch
           added == IF CallIs(x, "add") THEN SubOf(x) ELSE x
<1>1. /\ UNCHANGED <<pendingVars, publisher, lost, state>>
      /\ call[x].step \in {"add", "add_with_limit"} /\ ch \in Channels
  BY DEF AddSubscriber, AddSubscriberWithLimit, CallIs, Working
<1>2. /\ call'[x].step = "done"
      /\ \A y \in Conns \cup Subs : y # x => call'[y] = call[y]
  BY GotoMeans DEF AddSubscriber, AddSubscriberWithLimit, Idle
<1>3. \/ UNCHANGED subscribers /\ held' = held \ {added}
      \/ /\ ~Closed(ch) /\ held' = held
         /\ subscribers' = [subscribers EXCEPT ![ch] = @ \cup {added}]
  BY DEF AddSubscriber, AddSubscriberWithLimit, AddSubscriberInternal, CallIs
<1>4. ClosedLetsGo'
  BY <1>1, <1>3 DEF ClosedLetsGo, Closed, ManagerShape
<1>5. ASSUME NEW z \in held', OnChannel(z) PROVE OnChannel(z)'
  BY <1>1, <1>3, <1>5 DEF OnChannel, ManagerShape
<1>6. ASSUME NEW z \in held', z = added PROVE OnChannel(z)'
  BY <1>1, <1>3, <1>6 DEF OnChannel, ManagerShape
<1>7. ASSUME NEW z \in held', NEW y \in Conns \cup Subs, InCall(z, y)
      PROVE  Owned(z)'
  <2>1. CASE y # x
    BY <1>2, <1>7, <2>1 DEF Owned, InCall, SubOf
  <2>2. CASE y = x
    <3>1. z = added
      BY <1>1, <1>7, <2>2 DEF InCall, CallIs
    <3> QED
      BY <1>6, <3>1 DEF Owned
  <2> QED
    BY <2>1, <2>2
<1>8. held' \subseteq held
  BY <1>3
<1>9. \A z \in held' : Owned(z)'
  BY <1>1, <1>5, <1>7, <1>8 DEF Owned, Pending, pendingVars
<1> QED
  BY <1>1, <1>2, <1>4, <1>8, <1>9 DEF Working

LEMMA LeaveKeepsSockets ==
  ASSUME ManagerInv, SocketInv, NEW s \in Subs,
         \/ \E ch \in Channels : RemoveSubscriber(s, ch)
         \/ HandleLastSubscriberGone(s)
  PROVE  SocketInv'
<1> USE ChannelsAssumption DEF SocketInv, ManagerInv
<1>1. /\ UNCHANGED <<pendingVars, publisher, lost, state>>
      /\ call[s].step \notin Working
  BY DEF RemoveSubscriber, HandleLastSubscriberGone, CallIs, Working
<1>2. /\ call'[s].step \notin Working
      /\ \A y \in Conns \cup Subs : y # s => call'[y] = call[y]
  BY GotoMeans DEF RemoveSubscriber, HandleLastSubscriberGone, Idle, Working
<1>3. held' \subseteq held /\ \A ch \in Channels :
        subscribers'[ch] \subseteq subscribers[ch]
  BY DEF RemoveSubscriber, HandleLastSubscriberGone, ManagerShape
<1>4. ASSUME NEW z \in held', OnChannel(z) PROVE OnChannel(z)'
  <2>1. \A ch \in Channels : z \in subscribers[ch] => z \in subscribers'[ch]
    BY DEF RemoveSubscriber, HandleLastSubscriberGone, ManagerShape
  <2> QED
    BY <1>1, <1>4, <2>1 DEF OnChannel
<1>5. \A z, y : y \in Conns \cup Subs /\ InCall(z, y) => InCall(z, y)'
  BY <1>1, <1>2, OwnersStay
<1> QED
  BY <1>1, <1>2, <1>3, <1>4, <1>5
  DEF ClosedLetsGo, Closed, Owned, Pending, pendingVars

LEMMA BackgroundKeepsSockets ==
  ASSUME ManagerInv, SocketInv,
         \/ CleanupPendingConnections
         \/ \E ch \in Channels :
              \/ KeepAliveTimeout(ch) \/ HandlePublisherDisconnect(ch)
              \/ ReconnectTimeout(ch) \/ CloseSubscribers(ch)
              \/ OnChannelClosed(ch)
  PROVE  SocketInv'
<1> USE ChannelsAssumption DEF SocketInv, ManagerInv
<1>1. call' = call /\ held' \subseteq held
  BY DEF CleanupPendingConnections, KeepAliveTimeout,
         HandlePublisherDisconnect, ReconnectTimeout, CloseSubscribers,
         OnChannelClosed
<1>2. \A z, y : InCall(z, y) => InCall(z, y)'
  BY <1>1 DEF InCall, SubOf
<1>3. ClosedLetsGo'
  BY DEF CleanupPendingConnections, KeepAliveTimeout, channelVars,
         HandlePublisherDisconnect, ReconnectTimeout, CloseSubscribers,
         OnChannelClosed, ClosedLetsGo, Closed, ManagerShape
<1>4. \A z \in held' : Pending(z) => Pending(z)'
  BY DEF CleanupPendingConnections, KeepAliveTimeout, pendingVars,
         HandlePublisherDisconnect, ReconnectTimeout, CloseSubscribers,
         OnChannelClosed, Pending
<1>5. ASSUME NEW z \in held', OnChannel(z) PROVE OnChannel(z)'
  BY <1>5
  DEF CleanupPendingConnections, KeepAliveTimeout, channelVars,
      HandlePublisherDisconnect, ReconnectTimeout, CloseSubscribers,
      OnChannelClosed, OnChannel, ManagerShape
<1> QED
  BY <1>1, <1>2, <1>3, <1>4, <1>5 DEF Owned

LEMMA SocketInvariant == Spec => []SocketInv
<1>1. Init => SocketInv
  BY DEF Init, SocketInv, ClosedLetsGo, Closed, Idle, At, Working
<1>2. ManagerInv /\ SocketInv /\ [Next]_vars => SocketInv'
  <2> SUFFICES ASSUME ManagerInv, SocketInv, [Next]_vars PROVE SocketInv'
    OBVIOUS
  <2>1. CASE UNCHANGED vars
    BY <2>1
    DEF vars, SocketInv, ClosedLetsGo, Closed, Owned, Pending, OnChannel,
        InCall, SubOf, pendingVars, channelVars
  <2> QED
    BY <2>1, ConnectKeepsSockets, SetPublisherKeepsSockets, AddKeepsSockets,
       LeaveKeepsSockets, BackgroundKeepsSockets
    DEF Next
<1> QED
  BY <1>1, <1>2, ManagerInvariant, PTL DEF Spec

\* Every socket the relay holds is waiting, on a channel the manager still
\* has, or in a call that has yet to place it: HandlePublisherConnect,
\* SetPublisher, addSubscriberInternal and closeInternal pass each one on or
\* close it, in any order.
THEOREM SocketsAreFound == Spec => []NoSocketLeaks
<1>1. SocketInv => NoSocketLeaks
  <2> SUFFICES ASSUME SocketInv, NEW x \in held PROVE InHands(x)
    BY DEF NoSocketLeaks
  <2> USE ChannelsAssumption DEF SocketInv
  <2>1. CASE Pending(x)
    BY <2>1 DEF Pending, InHands
  <2>2. CASE OnChannel(x)
    BY <2>2 DEF OnChannel, ClosedLetsGo, Closed, InHands
  <2>3. ASSUME NEW y \in Conns \cup Subs, InCall(x, y) PROVE InHands(x)
    BY <2>3 DEF InCall, SubOf, InHands
  <2> QED
    BY <2>1, <2>2, <2>3 DEF Owned
<1> QED
  BY <1>1, SocketInvariant, PTL

-----------------------------------------------------------------------------
(* How many browsers a channel has.  The only call that adds one without   *)
(* looking at the limit is the pairing call that made the channel, so a    *)
(* channel has one such call at most, and none any more once it is full    *)
(* beyond the limit.                                                       *)

AddsUnlimited(x, ch) ==
  /\ call[x].ch = ch
  /\ \/ call[x].step = "add"
     \/ call[x].step = "set_publisher" /\ SubOf(x) # None

LimitInv ==
  \A ch \in Channels :
    /\ IsFiniteSet(subscribers[ch])
    /\ Cardinality(subscribers[ch]) <= MaxSubscribersPerPod + 1
    /\ \A x \in Conns \cup Subs : AddsUnlimited(x, ch) =>
         /\ Cardinality(subscribers[ch]) <= MaxSubscribersPerPod
         /\ \A y \in Conns \cup Subs : AddsUnlimited(y, ch) => y = x

LEMMA OneMoreSubscriber ==
  ASSUME NEW S, IsFiniteSet(S), NEW s
  PROVE  /\ IsFiniteSet(S \cup {s})
         /\ Cardinality(S) \in Nat /\ Cardinality(S \cup {s}) \in Nat
         /\ Cardinality(S \cup {s}) <= Cardinality(S) + 1
BY FS_AddElement, FS_CardinalityType

LEMMA FewerSubscribers ==
  ASSUME NEW S, IsFiniteSet(S), NEW T, T \subseteq S
  PROVE  /\ IsFiniteSet(T)
         /\ Cardinality(S) \in Nat /\ Cardinality(T) \in Nat
         /\ Cardinality(T) <= Cardinality(S)
BY FS_Subset, FS_CardinalityType

\* A step that adds nobody and starts no unlimited call.
LEMMA NobodyAdded ==
  ASSUME LimitInv,
         \A ch \in Channels : subscribers'[ch] \subseteq subscribers[ch],
         \A ch \in Channels : \A x \in Conns \cup Subs :
           AddsUnlimited(x, ch)' => AddsUnlimited(x, ch)
  PROVE  LimitInv'
<1> SUFFICES ASSUME NEW ch \in Channels
             PROVE  /\ IsFiniteSet(subscribers'[ch])
                    /\ Cardinality(subscribers'[ch])
                         <= MaxSubscribersPerPod + 1
                    /\ \A x \in Conns \cup Subs : AddsUnlimited(x, ch)' =>
                         /\ Cardinality(subscribers'[ch])
                              <= MaxSubscribersPerPod
                         /\ \A y \in Conns \cup Subs :
                              AddsUnlimited(y, ch)' => y = x
  BY DEF LimitInv
<1>1. /\ IsFiniteSet(subscribers'[ch])
      /\ Cardinality(subscribers'[ch]) \in Nat
      /\ Cardinality(subscribers[ch]) \in Nat
      /\ Cardinality(subscribers'[ch]) <= Cardinality(subscribers[ch])
  BY FewerSubscribers DEF LimitInv
<1> QED
  BY <1>1, ChannelsAssumption DEF LimitInv

LEMMA ConnectKeepsLimit ==
  ASSUME ManagerInv, LimitInv, NEW x \in Conns \cup Subs,
         \/ x \in Conns /\ HandlePublisherConnect(x)
         \/ x \in Subs /\ HandleSubscriberConnect(x)
  PROVE  LimitInv'
<1> USE ChannelsAssumption DEF ManagerInv
<1>1. UNCHANGED subscribers
  BY DEF HandlePublisherConnect, HandleSubscriberConnect, channelVars
<1>2. CASE \/ x \in Conns /\ (ReplacePublisher(x) \/ WaitForSubscriber(x))
           \/ x \in Subs /\ (JoinChannel(x) \/ WaitForPublisher(x))
  <2>1. \/ call'[x].step \in {"add_with_limit", "done"}
        \/ /\ x \in Conns /\ call'[x].step = "set_publisher"
           /\ call'[x].other = None
    BY <1>2, GotoMeans
    DEF ReplacePublisher, WaitForSubscriber, JoinChannel, WaitForPublisher,
        Idle
  <2>2. \A y \in Conns \cup Subs : y # x => call'[y] = call[y]
    BY <1>2, GotoMeans
    DEF ReplacePublisher, WaitForSubscriber, JoinChannel, WaitForPublisher,
        Idle
  <2>3. \A ch : ~AddsUnlimited(x, ch)'
    BY <2>1 DEF AddsUnlimited, SubOf
  <2> QED
    BY <1>1, <2>2, <2>3, NobodyAdded DEF AddsUnlimited, SubOf
<1>3. CASE \/ x \in Conns /\ MeetSubscriber(x)
           \/ x \in Subs /\ MeetPublisher(x)
  <2>1. PICK other \in Conns \cup Subs : CreateChannel(x, other)
    BY <1>3 DEF MeetSubscriber, MeetPublisher, ManagerShape
  <2>2. /\ call'[x].ch = made + 1
        /\ \A y \in Conns \cup Subs : y # x => call'[y] = call[y]
    BY <2>1, GotoMeans DEF CreateChannel
  <2>3. \A y \in Conns \cup Subs : call[y].ch \in Nat /\ call[y].ch <= made
    BY DEF CallShape, Calls, UnmadeIsUntouched
  <2> SUFFICES ASSUME NEW ch \in Channels
               PROVE  /\ IsFiniteSet(subscribers[ch])
                      /\ Cardinality(subscribers[ch])
                           <= MaxSubscribersPerPod + 1
                      /\ \A y \in Conns \cup Subs : AddsUnlimited(y, ch)' =>
                           /\ Cardinality(subscribers[ch])
                                <= MaxSubscribersPerPod
                           /\ \A z \in Conns \cup Subs :
                                AddsUnlimited(z, ch)' => z = y
    BY <1>1 DEF LimitInv
  <2>4. CASE ch = made + 1
    <3>1. subscribers[ch] = {}
      BY <2>4 DEF UnmadeIsUntouched, ManagerShape, Channels
    <3>2. \A y \in Conns \cup Subs : AddsUnlimited(y, ch)' => y = x
      BY <2>2, <2>3, <2>4 DEF AddsUnlimited, ManagerShape
    <3> QED
      BY <3>1, <3>2, FS_EmptySet
  <2>5. CASE ch # made + 1
    <3>1. ASSUME NEW y \in Conns \cup Subs, AddsUnlimited(y, ch)'
          PROVE  AddsUnlimited(y, ch)
      <4>1. y # x
        BY <2>2, <2>5, <3>1 DEF AddsUnlimited
      <4> QED
        BY <2>2, <3>1, <4>1 DEF AddsUnlimited, SubOf
    <3> QED
      BY <3>1 DEF LimitInv
  <2> QED
    BY <2>4, <2>5
<1> QED
  BY <1>2, <1>3 DEF HandlePublisherConnect, HandleSubscriberConnect

LEMMA SetPublisherKeepsLimit ==
  ASSUME ManagerInv, LimitInv, NEW x \in Conns \cup Subs, CallSetPublisher(x)
  PROVE  LimitInv'
<1> USE DEF ManagerInv
<1>1. call[x].step = "set_publisher" /\ subscribers' = subscribers
  BY DEF CallSetPublisher, CallIs
<1>2. /\ \/ call'[x].step = "done"
         \/ SubOf(x) # None /\ call'[x].ch = call[x].ch
      /\ \A y \in Conns \cup Subs : y # x => call'[y] = call[y]
  BY GotoMeans DEF CallSetPublisher, Idle
<1>3. \A ch \in Channels : AddsUnlimited(x, ch)' => AddsUnlimited(x, ch)
  BY <1>1, <1>2 DEF AddsUnlimited
<1> QED
  BY <1>1, <1>2, <1>3, NobodyAdded DEF AddsUnlimited, SubOf

LEMMA AddKeepsLimit ==
  ASSUME ManagerInv, LimitInv, NEW x \in Conns \cup Subs,
         AddSubscriber(x) \/ (x \in Subs /\ AddSubscriberWithLimit(x))
  PROVE  LimitInv'
<1> USE ChannelsAssumption DEF ManagerInv
<1>1. /\ call'[x].step = "done"
      /\ \A y \in Conns \cup Subs : y # x => call'[y] = call[y]
  BY GotoMeans DEF AddSubscriber, AddSubscriberWithLimit, Idle
<1>2. \A ch \in Channels : \A y \in Conns \cup Subs :
        AddsUnlimited(y, ch)' => AddsUnlimited(y, ch) /\ y # x
  BY <1>1 DEF AddsUnlimited, SubOf
<1>3. CASE UNCHANGED subscribers
  BY <1>2, <1>3, NobodyAdded
<1>4. ASSUME NEW s, subscribers' = [subscribers EXCEPT ![call[x].ch] =
                                                          @ \cup {s}],
             CallIs(x, "add") \/ ~Full(call[x].ch)
      PROVE  LimitInv'
  <2> SUFFICES ASSUME NEW ch \in Channels
               PROVE  /\ IsFiniteSet(subscribers'[ch])
                      /\ Cardinality(subscribers'[ch])
                           <= MaxSubscribersPerPod + 1
                      /\ \A y \in Conns \cup Subs : AddsUnlimited(y, ch)' =>
                           /\ Cardinality(subscribers'[ch])
                                <= MaxSubscribersPerPod
                           /\ \A z \in Conns \cup Subs :
                                AddsUnlimited(z, ch)' => z = y
    BY DEF LimitInv
  <2>1. CASE ch # call[x].ch
    BY <1>2, <1>4, <2>1 DEF LimitInv, ManagerShape
  <2>2. CASE ch = call[x].ch
    <3>1. subscribers'[ch] = subscribers[ch] \cup {s}
      BY <1>4, <2>2 DEF ManagerShape
    <3>2. /\ IsFiniteSet(subscribers'[ch])
          /\ Cardinality(subscribers[ch]) \in Nat
          /\ Cardinality(subscribers'[ch]) \in Nat
          /\ Cardinality(subscribers'[ch]) <= Cardinality(subscribers[ch]) + 1
      <4>1. IsFiniteSet(subscribers[ch])
        BY DEF LimitInv
      <4>2. /\ IsFiniteSet(subscribers[ch] \cup {s})
            /\ Cardinality(subscribers[ch]) \in Nat
            /\ Cardinality(subscribers[ch] \cup {s}) \in Nat
            /\ Cardinality(subscribers[ch] \cup {s})
                 <= Cardinality(subscribers[ch]) + 1
        BY ONLY <4>1, OneMoreSubscriber
      <4> QED
        BY <3>1, <4>2
    <3>3. CASE CallIs(x, "add")
      <4>1. AddsUnlimited(x, ch)
        BY <2>2, <3>3 DEF AddsUnlimited, CallIs
      <4>2. Cardinality(subscribers[ch]) <= MaxSubscribersPerPod
        BY <4>1 DEF LimitInv
      <4>3. \A y \in Conns \cup Subs : ~AddsUnlimited(y, ch)'
        BY <1>2, <4>1 DEF LimitInv
      <4> QED
        BY <3>2, <4>2, <4>3
    <3>4. CASE ~Full(ch)
      <4>1. Cardinality(subscribers'[ch]) <= MaxSubscribersPerPod
        BY <3>2, <3>4 DEF Full
      <4>2. \A y, z \in Conns \cup Subs :
              AddsUnlimited(y, ch)' /\ AddsUnlimited(z, ch)' => z = y
        BY <1>2 DEF LimitInv
      <4> QED
        BY <3>2, <4>1, <4>2
    <3> QED
      BY <1>4, <2>2, <3>3, <3>4
  <2> QED
    BY <2>1, <2>2
<1> QED
  BY <1>3, <1>4 DEF AddSubscriber, AddSubscriberWithLimit,
     AddSubscriberInternal

LEMMA OthersKeepLimit ==
  ASSUME ManagerInv, LimitInv,
         \/ \E s \in Subs : \/ \E ch \in Channels : RemoveSubscriber(s, ch)
                            \/ HandleLastSubscriberGone(s)
         \/ CleanupPendingConnections
         \/ \E ch \in Channels :
              \/ KeepAliveTimeout(ch) \/ HandlePublisherDisconnect(ch)
              \/ ReconnectTimeout(ch) \/ CloseSubscribers(ch)
              \/ OnChannelClosed(ch)
         \/ UNCHANGED vars
  PROVE  LimitInv'
<1> USE DEF ManagerInv
<1>1. \A ch \in Channels : subscribers'[ch] \subseteq subscribers[ch]
  BY DEF RemoveSubscriber, HandleLastSubscriberGone, ManagerShape, vars,
         CleanupPendingConnections, KeepAliveTimeout, channelVars,
         HandlePublisherDisconnect, ReconnectTimeout, CloseSubscribers,
         OnChannelClosed
<1>2. \A x \in Conns \cup Subs :
        call'[x] = call[x] \/ call'[x].step \in {"last_gone", "left"}
  <2>1. CASE \E s \in Subs : \/ \E ch \in Channels : RemoveSubscriber(s, ch)
                             \/ HandleLastSubscriberGone(s)
    BY <2>1, GotoMeans DEF RemoveSubscriber, HandleLastSubscriberGone, Idle
  <2> QED
    BY <2>1 DEF vars, CleanupPendingConnections, KeepAliveTimeout,
       HandlePublisherDisconnect, ReconnectTimeout, CloseSubscribers,
       OnChannelClosed
<1>3. \A ch \in Channels : \A x \in Conns \cup Subs :
        AddsUnlimited(x, ch)' => AddsUnlimited(x, ch)
  BY <1>2 DEF AddsUnlimited, SubOf
<1> QED
  BY <1>1, <1>3, NobodyAdded

LEMMA LimitInvariant == Spec => []LimitInv
<1>1. Init => LimitInv
  BY FS_EmptySet, ChannelsAssumption
  DEF Init, LimitInv, AddsUnlimited, Idle, At
<1>2. ManagerInv /\ LimitInv /\ [Next]_vars => LimitInv'
  BY ConnectKeepsLimit, SetPublisherKeepsLimit, AddKeepsLimit, OthersKeepLimit
  DEF Next
<1> QED
  BY <1>1, <1>2, ManagerInvariant, PTL DEF Spec

\* A channel exceeds the limit by one at most: addSubscriberInternal looks at
\* the limit under subscribersMu except for the browser its channel was made
\* for.
THEOREM AtMostOneOver == Spec => []OneOverTheLimit
<1>1. LimitInv => OneOverTheLimit
  BY DEF LimitInv, OneOverTheLimit
<1> QED
  BY <1>1, LimitInvariant, PTL

=============================================================================
