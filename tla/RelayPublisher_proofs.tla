----------------------- MODULE RelayPublisher_proofs -----------------------
(***************************************************************************)
(* Proofs about RelayPublisher: one goroutine reads at a time, the newest  *)
(* connection is the publisher, and a closed channel holds no connection;  *)
(* these follow from PublisherInvariant.  Then what the reconnect timeout  *)
(* may close (AwayInv), and what browsers are told (NewsInv).              *)
(***************************************************************************)
EXTENDS RelayPublisher, TLAPS

\* The initial state has no call under way.
LEMMA InitPublisherInv == Init => PublisherInv
  BY NoConnAssumption
  DEF Init, PublisherInv, StateShape, LockExcludes, CallInProgress,
      ReadersInTurn, NewestStaysPublisher, OpenIsAccountedFor, SetterSteps,
      ReaderSteps, Running, Nobody, NoConn, Closed

\* Every step of SetPublisher, of the forwarding goroutine, of the timer and
\* of Close keeps the invariant.
LEMMA NextPublisherInv == PublisherInv /\ [Next]_vars => PublisherInv'
  <2> SUFFICES ASSUME PublisherInv, [Next]_vars PROVE PublisherInv'
    OBVIOUS
  <2> USE NoConnAssumption DEF PublisherInv
  <2>1. ASSUME NEW c \in Conns, LockReplace(c)
       PROVE  PublisherInv'
    BY <2>1 DEF LockReplace, pubVars, subVars, SetterAt, SetterGoto,
       SetterSteps, Running, Nobody, StateShape, LockExcludes,
       CallInProgress, ReadersInTurn, NewestStaysPublisher,
       OpenIsAccountedFor
  <2>2. ASSUME NEW c \in Conns, InstallPublisher(c)
       PROVE  PublisherInv'
    <3>1. StateShape'
      BY <2>2 DEF InstallPublisher, SetterGoto, SetterSteps, Running,
         StateShape
    <3>2. LockExcludes'
      BY <2>2 DEF InstallPublisher, SetterAt, SetterGoto, SetterSteps,
         LockExcludes
    <3>3. CallInProgress'
      BY <2>2 DEF InstallPublisher, SetterAt, SetterGoto, Closed, StateShape,
         LockExcludes, CallInProgress
    <3>4. ReadersInTurn'
      BY <2>2 DEF InstallPublisher, SetterAt, SetterGoto, Running, Closed,
         StateShape, LockExcludes, ReadersInTurn
    <3>5. NewestStaysPublisher'
      BY <2>2 DEF InstallPublisher, Running, StateShape, ReadersInTurn,
         NewestStaysPublisher
    <3>6. OpenIsAccountedFor'
      BY <2>2 DEF InstallPublisher, SetterAt, SetterGoto, Closed, StateShape,
         ReadersInTurn, OpenIsAccountedFor
    <3> QED BY <3>1, <3>2, <3>3, <3>4, <3>5, <3>6
  <2>3. ASSUME NEW c \in Conns, RefuseWhenClosed(c)
       PROVE  PublisherInv'
    BY <2>3 DEF RefuseWhenClosed, pubVars, subVars, SetterAt, SetterGoto,
       SetterSteps, Running, Closed, StateShape, LockExcludes,
       CallInProgress, ReadersInTurn, NewestStaysPublisher,
       OpenIsAccountedFor
  <2>4. ASSUME NEW c \in Conns, CloseOld(c)
       PROVE  PublisherInv'
    BY <2>4 DEF CloseOld, pubVars, SetterAt, SetterGoto, SetterSteps,
       Running, StateShape, LockExcludes, CallInProgress, ReadersInTurn,
       NewestStaysPublisher, OpenIsAccountedFor
  <2>5. ASSUME NEW c \in Conns, WaitForReader(c)
       PROVE  PublisherInv'
    BY <2>5 DEF WaitForReader, pubVars, SetterAt, SetterGoto,
       StartAnnouncing, SetterSteps, Running, StateShape, LockExcludes,
       CallInProgress, ReadersInTurn, NewestStaysPublisher,
       OpenIsAccountedFor
  <2>6. ASSUME NEW c \in Conns, Announce(c)
       PROVE  PublisherInv'
    <3>1. StateShape'
      BY <2>6 DEF Announce, pubVars, SetterGoto, SetterSteps, ReaderSteps,
         Running, StateShape
    <3>2. LockExcludes'
      BY <2>6 DEF Announce, SetterAt, SetterGoto, SetterSteps, ReaderSteps,
         StateShape, LockExcludes
    <3>3. CallInProgress'
      BY <2>6 DEF Announce, pubVars, SetterAt, SetterGoto, Running,
         StateShape, CallInProgress
    <3>4. ReadersInTurn'
      BY <2>6 DEF Announce, pubVars, SetterAt, SetterGoto, Running,
         StateShape, CallInProgress, ReadersInTurn
    <3>5. NewestStaysPublisher'
      BY <2>6 DEF Announce, pubVars, SetterAt, Running, StateShape,
         CallInProgress, NewestStaysPublisher
    <3>6. OpenIsAccountedFor'
      BY <2>6 DEF Announce, pubVars, SetterAt, SetterGoto, StateShape,
         CallInProgress, OpenIsAccountedFor
    <3> QED BY <3>1, <3>2, <3>3, <3>4, <3>5, <3>6
  <2>7. ASSUME NEW c \in Conns, StartReading(c)
       PROVE  PublisherInv'
    BY <2>7 DEF StartReading, pubVars, setterVars, ReaderAt, ReaderGoto,
       ReaderSteps, Running, StateShape, LockExcludes, CallInProgress,
       ReadersInTurn, NewestStaysPublisher, OpenIsAccountedFor
  <2>8. ASSUME NEW c \in Conns, ReadFails(c)
       PROVE  PublisherInv'
    BY <2>8 DEF ReadFails, pubVars, setterVars, ReaderAt, ReaderGoto,
       ReaderSteps, Running, StateShape, LockExcludes, CallInProgress,
       ReadersInTurn, NewestStaysPublisher, OpenIsAccountedFor
  <2>9. ASSUME NEW c \in Conns, LosePublisher(c)
       PROVE  PublisherInv'
    <3>1. StateShape'
      BY <2>9 DEF LosePublisher, setterVars, ReaderGoto, ReaderSteps, Running,
         StateShape
    <3>2. LockExcludes'
      BY <2>9 DEF LosePublisher, setterVars, ReaderSteps, LockExcludes
    <3>3. CallInProgress'
      BY <2>9 DEF LosePublisher, setterVars, ReaderAt, StillPublisher,
         CallInProgress, ReadersInTurn
    <3>4. ReadersInTurn'
      BY <2>9 DEF LosePublisher, setterVars, ReaderAt, ReaderGoto, Running,
         ReadersInTurn
    <3>5. NewestStaysPublisher'
      BY <2>9 DEF LosePublisher, ReaderAt, ReaderGoto, Running, StateShape,
         ReadersInTurn, NewestStaysPublisher
    <3>6. OpenIsAccountedFor'
      BY <2>9 DEF LosePublisher, setterVars, ReaderGoto, StillPublisher,
         Running, StateShape, ReadersInTurn, OpenIsAccountedFor
    <3> QED BY <3>1, <3>2, <3>3, <3>4, <3>5, <3>6
  <2>10. ASSUME NEW c \in Conns, WasReplaced(c)
       PROVE  PublisherInv'
    BY <2>10 DEF WasReplaced, pubVars, setterVars, ReaderAt, ReaderGoto,
       ReaderSteps, Running, StateShape, LockExcludes, CallInProgress,
       ReadersInTurn, NewestStaysPublisher, OpenIsAccountedFor
  <2>11. ASSUME NEW c \in Conns, TellDisconnected(c)
       PROVE  PublisherInv'
    BY <2>11 DEF TellDisconnected, pubVars, setterVars, ReaderAt,
       ReaderGoto, ReaderSteps, Running, StateShape, LockExcludes,
       CallInProgress, ReadersInTurn, NewestStaysPublisher,
       OpenIsAccountedFor
  <2>12. ASSUME NEW e \in 1 .. Cardinality(Conns), ReconnectTimeout(e)
       PROVE  PublisherInv'
    BY <2>12 DEF ReconnectTimeout, pubVars, setterVars, subVars,
       ReaderSteps, Running, StateShape, LockExcludes, CallInProgress,
       ReadersInTurn, NewestStaysPublisher, OpenIsAccountedFor
  <2>13. ASSUME NEW s \in LateSubs, Join(s)
       PROVE  PublisherInv'
    BY <2>13 DEF Join, pubVars, setterVars, Running, Closed, StateShape,
       LockExcludes, CallInProgress, ReadersInTurn, NewestStaysPublisher,
       OpenIsAccountedFor
  <2>14. CASE TimerFires
    BY <2>14 DEF TimerFires, pubVars, setterVars, subVars, Running, Closed,
       StateShape, LockExcludes, CallInProgress, ReadersInTurn,
       NewestStaysPublisher, OpenIsAccountedFor
  <2>15. CASE Close
    BY <2>15 DEF Close, pubVars, setterVars, Running, StateShape,
       LockExcludes, CallInProgress, ReadersInTurn, NewestStaysPublisher,
       OpenIsAccountedFor
  <2>16. CASE CloseInternal
    <3>1. StateShape'
      BY <2>16 DEF CloseInternal, pubVars, setterVars, Running, StateShape
    <3>2. LockExcludes'
      BY <2>16 DEF CloseInternal, setterVars, LockExcludes
    <3>3. CallInProgress'
      BY <2>16 DEF CloseInternal, setterVars, CallInProgress
    <3>4. ReadersInTurn'
      BY <2>16 DEF CloseInternal, pubVars, setterVars, Running, ReadersInTurn
    <3>5. NewestStaysPublisher'
      BY <2>16 DEF CloseInternal, Running, NewestStaysPublisher
    <3>6. OpenIsAccountedFor'
      BY <2>16 DEF CloseInternal, pubVars, setterVars, OpenIsAccountedFor
    <3> QED BY <3>1, <3>2, <3>3, <3>4, <3>5, <3>6
  <2>17. CASE UNCHANGED vars
    BY <2>17 DEF vars, pubVars, timerVars, setterVars, subVars, Running,
       StateShape, LockExcludes, CallInProgress, ReadersInTurn,
       NewestStaysPublisher, OpenIsAccountedFor
  <2> QED
    BY <2>1, <2>2, <2>3, <2>4, <2>5, <2>6, <2>7, <2>8, <2>9, <2>10, <2>11,
       <2>12, <2>13, <2>14, <2>15, <2>16, <2>17
    DEF Next, SetPublisher, ForwardPublisher

\* The invariant of SetPublisher, handlePublisherDisconnect and closeInternal
\* holds in every reachable state.
THEOREM PublisherInvariant == Spec => []PublisherInv
  BY InitPublisherInv, NextPublisherInv, PTL DEF Spec

\* However many runner connections race through SetPublisher, at most one
\* forwarding goroutine reads.
THEOREM OneReaderAtATime == Spec => []OneReader
<1>1. PublisherInv => OneReader
  BY DEF PublisherInv, ReadersInTurn, Running, OneReader
<1> QED
  BY <1>1, PublisherInvariant, PTL

\* handlePublisherDisconnect of a replaced connection never takes the newer
\* one away.
THEOREM NewestIsPublisher == Spec => []NewestStaysPublisher
<1>1. PublisherInv => NewestStaysPublisher
  BY DEF PublisherInv
<1> QED
  BY <1>1, PublisherInvariant, PTL

\* Whatever order Close, SetPublisher and addSubscriberInternal come in, the
\* closed channel keeps no connection.
THEOREM ClosedChannelIsEmpty == Spec => []ClosedHoldsNothing
<1>1. PublisherInv => ClosedHoldsNothing
  <2> SUFFICES ASSUME PublisherInv, closing = "done"
               PROVE  /\ publisher = NoConn /\ subs = {}
                      /\ \A c \in Conns : setter[c] = "done" => c \notin isOpen
    BY DEF ClosedHoldsNothing
  <2>1. publisher = NoConn /\ subs = {}
    BY DEF PublisherInv, OpenIsAccountedFor
  <2>2. ASSUME NEW c \in Conns, setter[c] = "done", c \in isOpen
        PROVE  FALSE
    <3>1. publisher # c
      BY <2>1, NoConnAssumption
    <3>2. reader[c] # "closing"
      BY DEF PublisherInv, ReadersInTurn, Running
    <3>3. \A d \in Conns : setter[d] # "close_old"
      BY DEF PublisherInv, CallInProgress
    <3> QED
      BY <2>2, <3>1, <3>2, <3>3 DEF PublisherInv, OpenIsAccountedFor
  <2> QED
    BY <2>1, <2>2
<1> QED
  BY <1>1, PublisherInvariant, PTL

-----------------------------------------------------------------------------
\* A runner that is away is not the publisher.
AwayInv == publisherDisconnected => publisher = NoConn

LEMMA AwayInvariant == Spec => []AwayInv
<1>1. Init => AwayInv
  BY DEF Init, AwayInv
<1>2. AwayInv /\ [Next]_vars => AwayInv'
  BY DEF AwayInv, Next, vars, pubVars, SetPublisher, LockReplace,
     InstallPublisher, RefuseWhenClosed, CloseOld, WaitForReader, Announce,
     ForwardPublisher, StartReading, ReadFails, LosePublisher, WasReplaced,
     TellDisconnected, ReconnectTimeout, Join, TimerFires, Close,
     CloseInternal
<1> QED
  BY <1>1, <1>2, PTL DEF Spec

\* handleReconnectTimeout looks at publisherDisconnected again once it holds
\* publisherReplaceMu, so a timer that fired before the runner was back does
\* not close the channel under it.
THEOREM TimeoutClosesOnlyAbandoned == Spec => TimeoutSparesConnected
<1>1. ASSUME AwayInv, NEW e, ReconnectTimeout(e), closing' # closing
      PROVE  publisher = NoConn
  BY <1>1 DEF AwayInv, ReconnectTimeout
<1>2. AwayInv /\ [Next]_vars =>
        [(\E e \in fired : ReconnectTimeout(e)) /\ closing' # closing
           => publisher = NoConn]_vars
  BY <1>1
<1> QED
  BY <1>2, AwayInvariant, PTL DEF Spec, TimeoutSparesConnected

-----------------------------------------------------------------------------
(* What the browsers that were there from the start are told.  One outage  *)
(* has two broadcasts, by two goroutines: the one that lost the runner     *)
(* tells of the loss, the call that brought it back tells of the return.   *)
(* They come in order since the call waits for the goroutine before it     *)
(* takes its snapshot of the subscribers.                                  *)

\* Subscriber s has yet to be told of a loss, of a return.
ToldOfLoss(s) ==
  \E c \in Conns : \/ reader[c] = "closing"
                   \/ reader[c] = "telling" /\ s \in telling[c]

ToldOfReturn(s) ==
  \E c \in Conns :
    \/ setter[c] \in {"close_old", "wait"} /\ wasDisconnected[c]
    \/ setter[c] = "announce" /\ s \in telling[c]

NewsShape ==
  /\ told \in [Subs -> {"connected", "disconnected"}]
  /\ telling \in [Conns -> SUBSET Subs]
  /\ wasDisconnected \in [Conns -> BOOLEAN]
  /\ publisherDisconnected \in BOOLEAN
  /\ subs \subseteq Subs

\* During an outage a subscriber knows or is about to be told; outside one,
\* whoever has heard of a loss or is about to will be told of the return.
NewsInOrder ==
  \A s \in subs \ LateSubs :
    /\ publisherDisconnected => told[s] = "disconnected" \/ ToldOfLoss(s)
    /\ ~publisherDisconnected /\ (told[s] = "disconnected" \/ ToldOfLoss(s))
         => ToldOfReturn(s)

NewsInv == NewsShape /\ NewsInOrder

LEMMA SetPublisherKeepsNewsShape ==
  ASSUME NewsShape, NEW c \in Conns, SetPublisher(c)
  PROVE  NewsShape'
<1> USE DEF NewsShape, pubVars, subVars
<1>1. CASE LockReplace(c) \/ RefuseWhenClosed(c) \/ CloseOld(c)
  BY <1>1 DEF LockReplace, RefuseWhenClosed, CloseOld
<1>2. CASE InstallPublisher(c)
  BY <1>2 DEF InstallPublisher
<1>3. CASE WaitForReader(c)
  BY <1>3 DEF WaitForReader, StartAnnouncing
<1>4. CASE Announce(c)
  BY <1>4 DEF Announce, Tell
<1> QED
  BY <1>1, <1>2, <1>3, <1>4 DEF SetPublisher

LEMMA OthersKeepNewsShape ==
  ASSUME NewsShape,
         \/ \E c \in Conns : ForwardPublisher(c)
         \/ \E e \in 1 .. Cardinality(Conns) : ReconnectTimeout(e)
         \/ \E s \in LateSubs : Join(s)
         \/ TimerFires \/ Close \/ CloseInternal \/ UNCHANGED vars
  PROVE  NewsShape'
<1> USE DEF NewsShape, pubVars, setterVars, subVars
<1>1. CASE \E c \in Conns : ForwardPublisher(c)
  <2> PICK c \in Conns : ForwardPublisher(c)
    BY <1>1
  <2>1. CASE TellDisconnected(c)
    BY <2>1 DEF TellDisconnected, Tell
  <2>2. CASE LosePublisher(c)
    BY <2>2 DEF LosePublisher
  <2> QED
    BY <2>1, <2>2 DEF ForwardPublisher, StartReading, ReadFails, WasReplaced
<1>2. CASE \E s \in LateSubs : Join(s)
  BY <1>2, PublisherAssumption DEF Join
<1>3. CASE \/ \E e \in 1 .. Cardinality(Conns) : ReconnectTimeout(e)
           \/ TimerFires \/ Close \/ CloseInternal \/ UNCHANGED vars
  BY <1>3 DEF ReconnectTimeout, TimerFires, Close, CloseInternal, vars
<1> QED
  BY <1>1, <1>2, <1>3

LEMMA SetPublisherKeepsNewsInOrder ==
  ASSUME PublisherInv, NewsInv, NEW c \in Conns, SetPublisher(c)
  PROVE  NewsInOrder'
<1> USE DEF NewsInv, PublisherInv
<1> SUFFICES ASSUME NEW s \in subs' \ LateSubs
             PROVE  /\ publisherDisconnected'
                         => told'[s] = "disconnected" \/ ToldOfLoss(s)'
                    /\ /\ ~publisherDisconnected'
                       /\ told'[s] = "disconnected" \/ ToldOfLoss(s)'
                       => ToldOfReturn(s)'
  BY DEF NewsInOrder
<1>1. CASE LockReplace(c)
  BY <1>1 DEF LockReplace, pubVars, subVars, SetterAt, SetterGoto, NewsInOrder,
     NewsShape, StateShape, ToldOfLoss, ToldOfReturn
<1>2. CASE InstallPublisher(c)
  <2>1. ~ToldOfReturn(s)
    BY <1>2 DEF InstallPublisher, SetterAt, LockExcludes, ToldOfReturn
  <2>2. publisherDisconnected => ToldOfReturn(s)'
    BY <1>2 DEF InstallPublisher, SetterGoto, StateShape, NewsShape,
       ToldOfReturn
  <2>3. ToldOfLoss(s)' = ToldOfLoss(s) /\ told' = told /\ subs' = subs
    BY <1>2 DEF InstallPublisher, ToldOfLoss, subVars
  <2>4. ~publisherDisconnected'
    BY <1>2 DEF InstallPublisher
  <2> QED
    BY <2>1, <2>2, <2>3, <2>4 DEF NewsInOrder
<1>3. CASE RefuseWhenClosed(c)
  BY <1>3 DEF RefuseWhenClosed, pubVars, subVars, SetterAt, SetterGoto,
     NewsInOrder, NewsShape, StateShape, ToldOfLoss, ToldOfReturn
<1>4. CASE CloseOld(c)
  <2>1. UNCHANGED <<publisherDisconnected, told, subs, reader, telling>>
    BY <1>4 DEF CloseOld, pubVars, subVars
  <2>2. ToldOfReturn(s) => ToldOfReturn(s)'
    BY <1>4 DEF CloseOld, SetterAt, SetterGoto, StateShape, ToldOfReturn
  <2> QED
    BY <2>1, <2>2 DEF NewsInOrder, ToldOfLoss
<1>5. CASE WaitForReader(c)
  <2>1. UNCHANGED <<publisherDisconnected, told, subs, reader>>
    BY <1>5 DEF WaitForReader, pubVars, subVars
  <2>2. ~ToldOfLoss(s) /\ ~ToldOfLoss(s)'
    BY <1>5, <2>1 DEF WaitForReader, Running, ToldOfLoss
  <2>3. ToldOfReturn(s) => ToldOfReturn(s)'
    <3>1. ASSUME NEW d \in Conns,
                 setter[d] \in {"close_old", "wait", "announce"}
          PROVE  d = c
      BY <1>5, <3>1 DEF WaitForReader, SetterAt, LockExcludes
    <3>2. ToldOfReturn(s) => wasDisconnected[c]
      BY <1>5, <3>1 DEF ToldOfReturn, WaitForReader, SetterAt
    <3> QED
      BY <1>5, <2>1, <3>2 DEF WaitForReader, StartAnnouncing, SetterGoto,
         StateShape, NewsShape, ToldOfReturn
  <2> QED
    BY <2>1, <2>2, <2>3 DEF NewsInOrder
<1>6. CASE Announce(c)
  <2>1. ~publisherDisconnected' /\ subs' = subs
    BY <1>6 DEF Announce, SetterAt, CallInProgress, pubVars
  <2>2. ~ToldOfLoss(s) /\ ~ToldOfLoss(s)'
    BY <1>6 DEF Announce, SetterAt, CallInProgress, Running, ToldOfLoss,
       ReaderGoto, StateShape
  <2>3. told'[s] = "disconnected" =>
          told[s] = "disconnected" /\ (s \in telling[c] => s \in telling'[c])
    BY <1>6, <2>1 DEF Announce, Tell, NewsShape
  <2>4. ASSUME told'[s] = "disconnected"
        PROVE  ToldOfReturn(s)'
    <3>1. ASSUME NEW d \in Conns,
                 setter[d] \in {"close_old", "wait", "announce"}
          PROVE  d = c
      BY <1>6, <3>1 DEF Announce, SetterAt, LockExcludes
    <3>2. s \in telling[c]
      BY <1>6, <2>1, <2>3, <2>4, <3>1
         DEF NewsInOrder, ToldOfReturn, Announce, SetterAt, pubVars
    <3>3. setter'[c] = "announce"
      BY <1>6, <3>2 DEF Announce, SetterAt
    <3> QED
      BY <2>3, <2>4, <3>2, <3>3 DEF ToldOfReturn
  <2> QED
    BY <2>1, <2>2, <2>4
<1> QED
  BY <1>1, <1>2, <1>3, <1>4, <1>5, <1>6 DEF SetPublisher

LEMMA ForwardPublisherKeepsNewsInOrder ==
  ASSUME PublisherInv, NewsInv, NEW c \in Conns, ForwardPublisher(c)
  PROVE  NewsInOrder'
<1> USE DEF NewsInv, PublisherInv
<1> SUFFICES ASSUME NEW s \in subs' \ LateSubs
             PROVE  /\ publisherDisconnected'
                         => told'[s] = "disconnected" \/ ToldOfLoss(s)'
                    /\ /\ ~publisherDisconnected'
                       /\ told'[s] = "disconnected" \/ ToldOfLoss(s)'
                       => ToldOfReturn(s)'
  BY DEF NewsInOrder
<1>0. subs' = subs /\ UNCHANGED <<setter, wasDisconnected>>
  BY DEF ForwardPublisher, StartReading, ReadFails, LosePublisher, WasReplaced,
     TellDisconnected, setterVars, subVars
<1>1. CASE StartReading(c) \/ ReadFails(c) \/ WasReplaced(c)
  <2>1. UNCHANGED <<publisherDisconnected, told, telling>>
    BY <1>1 DEF StartReading, ReadFails, WasReplaced, pubVars, subVars
  <2>2. /\ reader[c] \notin {"closing", "telling"}
        /\ reader'[c] \notin {"closing", "telling"}
        /\ \A d \in Conns \ {c} : reader'[d] = reader[d]
    BY <1>1 DEF StartReading, ReadFails, WasReplaced, ReaderAt, ReaderGoto,
       StateShape
  <2>3. ToldOfLoss(s)' <=> ToldOfLoss(s)
    BY <2>1, <2>2 DEF ToldOfLoss
  <2> QED
    BY <1>0, <2>1, <2>3 DEF NewsInOrder, ToldOfReturn
<1>2. CASE LosePublisher(c)
  BY <1>2 DEF LosePublisher, ReaderGoto, StateShape, ToldOfLoss
<1>3. CASE TellDisconnected(c)
  <2>1. /\ publisherDisconnected' = publisherDisconnected
        /\ reader[c] \in {"closing", "telling"}
        /\ \A d \in Conns \ {c} :
             reader'[d] = reader[d] /\ telling'[d] = telling[d]
    BY <1>3 DEF TellDisconnected, Tell, ReaderAt, ReaderGoto, pubVars,
       StateShape, NewsShape
  <2>2. setter[c] # "announce"
    BY <2>1 DEF ReadersInTurn
  <2>3. ToldOfReturn(s) => ToldOfReturn(s)'
    BY <1>0, <2>1, <2>2 DEF ToldOfReturn
  <2>4. ToldOfLoss(s) <=> reader[c] = "closing" \/ s \in telling[c]
    BY <2>1 DEF ToldOfLoss, ReadersInTurn, Running
  <2>5. ToldOfLoss(s)' \/ told'[s] = "disconnected"
          => ToldOfLoss(s) \/ told[s] = "disconnected"
    <3>1. CASE ReaderAt(c, "closing")
      BY <3>1, <2>4 DEF ReaderAt
    <3>2. CASE ReaderAt(c, "telling")
      <4>1. telling'[c] \subseteq telling[c] /\ reader'[c] # "closing"
        BY <1>3, <3>2 DEF TellDisconnected, Tell, ReaderAt, ReaderGoto,
           NewsShape, StateShape
      <4>2. told'[s] = told[s] \/ s \in telling[c]
        BY <1>3, <3>2 DEF TellDisconnected, Tell, ReaderAt, NewsShape
      <4>3. ToldOfLoss(s)' => ToldOfLoss(s)
        BY <2>1, <4>1, <3>2 DEF ToldOfLoss, ReaderAt
      <4> QED
        BY <4>2, <4>3, <2>4
    <3> QED
      BY <1>3, <3>1, <3>2 DEF TellDisconnected
  <2>6. ToldOfLoss(s) \/ told[s] = "disconnected"
          => ToldOfLoss(s)' \/ told'[s] = "disconnected"
    <3>1. CASE ReaderAt(c, "closing")
      <4>1. reader'[c] = "telling" /\ s \in telling'[c]
        BY <1>0, <1>3, <3>1 DEF TellDisconnected, ReaderAt, ReaderGoto,
           StateShape, NewsShape
      <4> QED
        BY <4>1 DEF ToldOfLoss
    <3>2. CASE ReaderAt(c, "telling")
      <4>1. told[s] = "disconnected" => told'[s] = "disconnected"
        BY <1>3, <3>2 DEF TellDisconnected, Tell, ReaderAt, NewsShape
      <4>2. s \in telling[c] =>
              \/ told'[s] = "disconnected"
              \/ reader'[c] = "telling" /\ s \in telling'[c]
        BY <1>0, <1>3, <3>2 DEF TellDisconnected, Tell, ReaderAt, NewsShape
      <4> QED
        BY <2>4, <3>2, <4>1, <4>2 DEF ToldOfLoss, ReaderAt
    <3> QED
      BY <1>3, <3>1, <3>2 DEF TellDisconnected
  <2> QED
    BY <1>0, <2>1, <2>3, <2>5, <2>6 DEF NewsInOrder
<1> QED
  BY <1>1, <1>2, <1>3 DEF ForwardPublisher

LEMMA OthersKeepNewsInOrder ==
  ASSUME NewsInv,
         \/ \E e \in 1 .. Cardinality(Conns) : ReconnectTimeout(e)
         \/ \E s \in LateSubs : Join(s)
         \/ TimerFires \/ Close \/ CloseInternal \/ UNCHANGED vars
  PROVE  NewsInOrder'
<1>1. UNCHANGED <<publisherDisconnected, setter, reader, wasDisconnected,
                  telling>>
  BY DEF ReconnectTimeout, Join, TimerFires, Close, CloseInternal, vars,
     pubVars, setterVars
<1>2. \A s \in subs' \ LateSubs : s \in subs /\ told'[s] = told[s]
  BY DEF ReconnectTimeout, Join, TimerFires, Close, CloseInternal, vars,
     subVars, NewsInv, NewsShape
<1> QED
  BY <1>1, <1>2 DEF NewsInv, NewsInOrder, ToldOfLoss, ToldOfReturn

LEMMA NewsInvariant == Spec => []NewsInv
<1>1. Init => NewsInv
  BY DEF Init, NewsInv, NewsShape, NewsInOrder, ToldOfLoss
<1>2. PublisherInv /\ NewsInv /\ [Next]_vars => NewsInv'
  BY SetPublisherKeepsNewsShape, OthersKeepNewsShape,
     SetPublisherKeepsNewsInOrder, ForwardPublisherKeepsNewsInOrder,
     OthersKeepNewsInOrder
     DEF Next, NewsInv
<1> QED
  BY <1>1, <1>2, PublisherInvariant, PTL DEF Spec

\* When nothing is under way, a browser that was there from the start knows
\* whether its runner is away, however the outages, the returns and their
\* broadcasts interleaved.
THEOREM EarlyKnowTheTruth == Spec => []EarlyAreToldTheTruth
<1>1. NewsInv => EarlyAreToldTheTruth
  BY DEF NewsInv, NewsShape, NewsInOrder, EarlyAreToldTheTruth, Settled,
     IsToldTheTruth, ToldOfLoss, ToldOfReturn
<1> QED
  BY <1>1, NewsInvariant, PTL

=============================================================================
