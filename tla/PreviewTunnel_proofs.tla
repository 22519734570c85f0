------------------------ MODULE PreviewTunnel_proofs ------------------------
(***************************************************************************)
(* Proofs about PreviewTunnel: frames reach the request they are for,      *)
(* nobody sleeps on a window that will never be credited, and no credit of *)
(* a response is lost or made while its stream has both its ends.          *)
(***************************************************************************)
EXTENDS PreviewTunnel, SequenceTheorems, FiniteSetTheorems, FunctionTheorems, TLAPS

Types == {"start", "body", "end", "error", "cancel", "credit"}
Frames == [type : Types, id : Nat, of : Streams]
Requests ==
  [step : {"new", "pump", "done"}, gen : Nat, id : Nat, started : BOOLEAN]
Started(r) == req[r].step # "new"

\* The streams of a tunnel have numbers of their own.
RequestInv ==
  /\ gen \in Gens /\ open \in BOOLEAN /\ (~open => gen <= MaxLosses)
  /\ registry \in Gens \cup {0} /\ nextID \in [Gens -> Nat]
  /\ req \in [Streams -> Requests]
  /\ \A r \in Streams :
       Started(r) => req[r].gen \in Gens /\ req[r].id <= nextID[req[r].gen]
  /\ \A r, s \in Streams :
       /\ Started(r) /\ Started(s)
       /\ req[r].gen = req[s].gen /\ req[r].id = req[s].id
       => r = s

\* What is on the wire has the numbers of this connection.
Carries(f) == Started(f.of) /\ req[f.of].gen = gen /\ req[f.of].id = f.id
Wire(q) ==
  /\ q \in Seq(Frames) /\ (~open => q = <<>>)
  /\ \A i \in DOMAIN q : Carries(q[i])
WireInv == Wire(toRunner) /\ Wire(toGateway)

TableInv ==
  /\ listed \subseteq Streams /\ table \subseteq Streams
  /\ sender \in [Streams -> {"none", "read", "ended"}]
  /\ local \in [Streams -> {"none", "request", "refused", "response", "done"}]
  /\ \A r \in Streams :
       /\ r \in listed \/ sender[r] # "none" \/ local[r] # "none" => Started(r)
       /\ r \in table => Started(r) /\ req[r].gen = gen

\* What has been taken off the wire is in the right hands.
Hands(step) == {Reading} \cup {Holding(step, f.of, f) : f \in Frames}
HandsInv ==
  /\ respCh \in [Streams -> Seq(Frames)]
  /\ \A r \in Streams : \A i \in DOMAIN respCh[r] : respCh[r][i].of = r
  /\ gwLoop \in [Gens -> Hands("waiting")] /\ loop \in Hands("feeding")

-----------------------------------------------------------------------------
(* Windows: a closed one has nobody asleep on it, and stays closed.        *)

WindowState == [avail : Nat, closed : BOOLEAN,
                waiter : {"none", "woken", "asleep", "deaf"}]
Quiet(w) == w.closed => w.waiter \in {"none", "woken"}
WindowsOK ==
  /\ win \in [Directions -> [Streams -> WindowState]]
  /\ \A d \in Directions, s \in Streams : Quiet(win[d][s])
StayClosed ==
  \A d \in Directions, s \in Streams : win[d][s].closed => win'[d][s].closed

LEMMA WindowReplaced ==
  ASSUME WindowsOK, NEW d \in Directions, NEW s \in Streams,
         NEW w \in WindowState, win' = [win EXCEPT ![d][s] = w], Quiet(w),
         win[d][s].closed => w.closed
  PROVE  WindowsOK' /\ StayClosed
  BY DEF WindowsOK, StayClosed

LEMMA WokenIsQuiet ==
  ASSUME NEW w \in WindowState
  PROVE  /\ Woken(w) \in WindowState /\ Woken(w).waiter \in {"none", "woken"}
         /\ Woken(w).closed = w.closed
  BY DEF Woken, WindowState

LEMMA ChangedWindows ==
  ASSUME NEW w \in WindowState
  PROVE  /\ Shut(w) \in WindowState /\ Shut(w).closed
         /\ w.avail >= 1 =>
              /\ [w EXCEPT !.avail = w.avail - 1, !.waiter = "none"] \in WindowState
              /\ Quiet([w EXCEPT !.avail = w.avail - 1, !.waiter = "none"])
<1>1. Shut(w) \in WindowState /\ Shut(w).closed
  BY DEF Shut, WindowState
<1>2. ASSUME w.avail >= 1
      PROVE  /\ [w EXCEPT !.avail = w.avail - 1, !.waiter = "none"] \in WindowState
             /\ Quiet([w EXCEPT !.avail = w.avail - 1, !.waiter = "none"])
  <2>. PICK n \in Nat : w.avail - 1 = n
    BY <1>2 DEF WindowState
  <2>. QED  BY DEF WindowState, Quiet
<1>. QED  BY <1>1, <1>2

LEMMA WindowsUsed ==
  ASSUME WindowsOK, NEW d \in Directions, NEW s \in Streams,
         \/ Acquire(d, s) \/ RefuseAcquire(d, s) \/ Sleep(d, s)
         \/ EndContext(d, s) \/ AddCredit(d, s)
  PROVE  WindowsOK' /\ StayClosed
<1>. DEFINE w == win[d][s]
<1>. w \in WindowState /\ Quiet(w)
  BY DEF WindowsOK
<1>1. CASE Acquire(d, s)
  <2>. DEFINE v == [w EXCEPT !.avail = w.avail - 1, !.waiter = "none"]
  <2>1. v \in WindowState /\ v.closed = w.closed /\ Quiet(v)
    <3>1. w.avail >= 1
      BY <1>1 DEF Acquire
    <3>. HIDE DEF w
    <3>2. v.closed = w.closed
      BY DEF WindowState
    <3>. QED  BY <3>1, <3>2, ChangedWindows
  <2>2. win' = [win EXCEPT ![d][s] = v]
    BY <1>1 DEF Acquire
  <2>. HIDE DEF v
  <2>. QED  BY <2>1, <2>2, WindowReplaced
<1>2. CASE RefuseAcquire(d, s)
  BY <1>2 DEF RefuseAcquire, Waiter, WindowsOK, WindowState, Quiet, StayClosed
<1>3. CASE Sleep(d, s)
  BY <1>3 DEF Sleep, Waiter, WindowsOK, WindowState, Quiet, StayClosed
<1>4. CASE EndContext(d, s)
  <2>1. PICK step \in {"woken", "deaf"} :
          win' = [win EXCEPT ![d][s].waiter = step]
    BY <1>4 DEF EndContext, Waiter
  <2>2. win' = [win EXCEPT ![d][s] = [w EXCEPT !.waiter = step]]
    BY <2>1
  <2>3. ~w.closed
    BY <1>4 DEF EndContext, Quiet
  <2>. QED  BY <2>2, <2>3, WindowReplaced DEF Quiet, WindowState
<1>5. CASE AddCredit(d, s)
  <2>. DEFINE v == [w EXCEPT !.avail = w.avail + 1]
  <2>1. v \in WindowState /\ v.closed = w.closed
    BY DEF WindowState
  <2>2. win' = [win EXCEPT ![d][s] = Woken(v)]
    BY <1>5 DEF AddCredit
  <2>. HIDE DEF v
  <2>. QED  BY <2>1, <2>2, WindowReplaced, WokenIsQuiet DEF Quiet
<1>. QED  BY <1>1, <1>2, <1>3, <1>4, <1>5

LEMMA WindowsClosed ==
  ASSUME WindowsOK, NEW d \in Directions, NEW S \in SUBSET Streams,
         CloseWindows(d, S)
  PROVE  /\ WindowsOK' /\ StayClosed
         /\ \A s \in S : win'[d][s].closed
<1>1. \A s \in Streams : Shut(win[d][s]) \in WindowState /\ Shut(win[d][s]).closed
  BY ChangedWindows DEF WindowsOK
<1>2. \A s \in Streams : /\ Woken(Shut(win[d][s])) \in WindowState
                         /\ Quiet(Woken(Shut(win[d][s])))
                         /\ Woken(Shut(win[d][s])).closed
  BY <1>1, WokenIsQuiet DEF Quiet
<1>3. \A s \in Streams :
        win'[d][s] = IF s \in S THEN Woken(Shut(win[d][s])) ELSE win[d][s]
  BY DEF CloseWindows, WindowsOK
<1>4. win' \in [Directions -> [Streams -> WindowState]]
  BY <1>2 DEF CloseWindows, WindowsOK
<1>5. \A e \in Directions \ {d} : win'[e] = win[e]
  BY DEF CloseWindows, WindowsOK
<1>6. \A e \in Directions, s \in Streams :
        Quiet(win'[e][s]) /\ (win[e][s].closed => win'[e][s].closed)
  BY <1>2, <1>3, <1>5 DEF WindowsOK
<1>7. \A s \in S : win'[d][s].closed
  BY <1>2, <1>3
<1>. QED  BY <1>4, <1>6, <1>7 DEF WindowsOK, StayClosed

-----------------------------------------------------------------------------
(* Requests keep their numbers.                                            *)

Kept ==
  \A r \in Streams :
    Started(r) => Started(r)' /\ req'[r].gen = req[r].gen /\ req'[r].id = req[r].id

LEMMA FrameFacts ==
  /\ \A type \in Types, id \in Nat, r \in Streams :
       LET f == Frame(type, id, r) IN f \in Frames /\ f.of = r /\ f.id = id
  /\ \A f \in Frames : f.of \in Streams /\ f.id \in Nat
  BY DEF Frame, Frames

\* A request is opened, goes on or returns.
LEMMA RequestsKept ==
  ASSUME RequestInv, Next
  PROVE  RequestInv' /\ Kept
<1>. USE TunnelAssumption DEF Gens
<1>1. ASSUME NEW r \in Streams, NEW v \in Requests, Started(r), v.step # "new",
             v.gen = req[r].gen, v.id = req[r].id, req' = [req EXCEPT ![r] = v],
             UNCHANGED <<gen, open, registry, nextID>>
      PROVE  RequestInv' /\ Kept
  BY <1>1 DEF RequestInv, Kept, Started
<1>2. ASSUME NEW r \in Streams, OpenStream(r)
      PROVE  RequestInv' /\ Kept
  <2>. DEFINE g == registry
              id == nextID[g] + 1
  <2>1. g \in Gens /\ ~Started(r) /\ UNCHANGED <<gen, open, registry>>
    BY <1>2 DEF OpenStream, RequestInv, Started
  <2>2. nextID' = [nextID EXCEPT ![g] = id] /\ id \in Nat
    BY <1>2, <2>1 DEF OpenStream, RequestInv
  <2>3. PICK v \in Requests : /\ req' = [req EXCEPT ![r] = v]
                              /\ v.step # "new" /\ v.gen = g /\ v.id = id
    <3>1. PICK step \in {"pump", "done"} :
            req' = [req EXCEPT ![r] = [[req[r] EXCEPT !.gen = g, !.id = id]
                                       EXCEPT !.step = step]]
      BY <1>2 DEF OpenStream
    <3>. DEFINE v == [[req[r] EXCEPT !.gen = g, !.id = id] EXCEPT !.step = step]
    <3>2. req[r] \in Requests /\ g \in Nat
      BY <2>1 DEF RequestInv
    <3>. HIDE DEF g, id
    <3>3. v \in Requests /\ v.step # "new" /\ v.gen = g /\ v.id = id
      BY <2>2, <3>2 DEF Requests
    <3>. QED  BY <3>1, <3>3
  <2>4. /\ req'[r] = v /\ \A s \in Streams \ {r} : req'[s] = req[s]
        /\ req' \in [Streams -> Requests]
    BY <2>3 DEF RequestInv
  <2>5. /\ nextID' \in [Gens -> Nat] /\ nextID'[g] = id /\ nextID[g] < id
        /\ \A h \in Gens \ {g} : nextID'[h] = nextID[h]
    BY <2>1, <2>2 DEF RequestInv
  <2>. HIDE DEF g, id
  <2>6. \A s \in Streams : Started(s)' <=> Started(s) \/ s = r
    BY <2>3, <2>4 DEF Started
  <2>7. \A s \in Streams : s # r /\ Started(s) /\ req[s].gen = g => req[s].id < id
    <3>. SUFFICES ASSUME NEW s \in Streams, Started(s), req[s].gen = g
                  PROVE  req[s].id < id
      OBVIOUS
    <3>1. req[s].id \in Nat /\ req[s].id <= nextID[g] /\ nextID[g] \in Nat
      BY <2>1 DEF RequestInv, Requests
    <3>. QED  BY <2>2, <2>5, <3>1
  <2>8. \A s \in Streams :
          Started(s)' => req'[s].gen \in Gens /\ req'[s].id <= nextID'[req'[s].gen]
    <3>. SUFFICES ASSUME NEW s \in Streams, Started(s)'
                  PROVE  req'[s].gen \in Gens /\ req'[s].id <= nextID'[req'[s].gen]
      OBVIOUS
    <3>1. CASE s = r
      BY <2>1, <2>2, <2>3, <2>4, <2>5, <3>1
    <3>2. CASE s # r
      <4>1. Started(s) /\ req'[s] = req[s] /\ req[s].gen \in Gens
            /\ req[s].id <= nextID[req[s].gen]
        BY <2>4, <2>6, <3>2 DEF RequestInv
      <4>2. CASE req[s].gen = g
        <5>1. req[s].id < id
          BY <2>7, <3>2, <4>1, <4>2
        <5>2. req[s].id \in Nat
          BY DEF RequestInv, Requests
        <5>. QED  BY <2>2, <2>5, <4>1, <4>2, <5>1, <5>2
      <4>3. CASE req[s].gen # g
        BY <2>5, <4>1, <4>3
      <4>. QED  BY <4>2, <4>3
    <3>. QED  BY <3>1, <3>2
  <2>9. \A s, t \in Streams :
          /\ Started(s)' /\ Started(t)'
          /\ req'[s].gen = req'[t].gen /\ req'[s].id = req'[t].id
          => s = t
    <3>1. \A s \in Streams :
            s # r /\ Started(s) => ~(req'[s].gen = g /\ req'[s].id = id)
      <4>1. \A s \in Streams : req[s].id \in Nat
        BY DEF RequestInv, Requests
      <4>. QED  BY <2>2, <2>4, <2>7, <4>1
    <3>. QED  BY <2>3, <2>4, <2>6, <3>1 DEF RequestInv
  <2>10. Kept
    BY <2>1, <2>4, <2>6 DEF Kept
  <2>. QED  BY <2>1, <2>4, <2>5, <2>8, <2>9, <2>10 DEF RequestInv
<1>3. ASSUME NEW r \in Streams, TakeFrame(r) \/ TimeOut(r)
      PROVE  RequestInv' /\ Kept
  <2>1. PICK v \in Requests : /\ req' = [req EXCEPT ![r] = v] /\ v.step # "new"
                              /\ v.gen = req[r].gen /\ v.id = req[r].id
    <3>. req[r] \in Requests /\ req[r].step = "pump"
      BY <1>3 DEF TakeFrame, TimeOut, RequestInv
    <3>1. CASE req' = req
      BY <3>1 DEF RequestInv
    <3>2. CASE req' = [req EXCEPT ![r].started = TRUE]
      <4>. DEFINE v == [req[r] EXCEPT !.started = TRUE]
      <4>1. v \in Requests /\ v.step # "new" /\ v.gen = req[r].gen /\ v.id = req[r].id
        BY DEF Requests
      <4>. QED  BY <3>2, <4>1
    <3>3. CASE \E left : Return(r, left)
      <4>. DEFINE v == [req[r] EXCEPT !.step = "done", !.started = FALSE]
      <4>1. v \in Requests /\ v.step # "new" /\ v.gen = req[r].gen /\ v.id = req[r].id
        BY DEF Requests
      <4>. QED  BY <3>3, <4>1 DEF Return
    <3>. QED  BY <1>3, <3>1, <3>2, <3>3 DEF TakeFrame, TimeOut, Flush
  <2>2. Started(r) /\ UNCHANGED <<gen, open, registry, nextID>>
    BY <1>3 DEF TakeFrame, TimeOut, Started, tunnelVars
  <2>. QED  BY <1>1, <2>1, <2>2
<1>4. ASSUME UNCHANGED <<req, nextID>>, gen' \in Gens, open' \in BOOLEAN,
             ~open' => gen' <= MaxLosses, registry' \in Gens \cup {0}
      PROVE  RequestInv' /\ Kept
  BY <1>4 DEF RequestInv, Kept, Started
<1>5. CASE \E g \in Gens : CloseTunnel(g) \/ Unregister(g)
  BY <1>4, <1>5 DEF CloseTunnel, Unregister, connVars, requestVars, RequestInv
<1>6. CASE Reconnect \/ LoseConnection
  <2>1. CASE Reconnect
    <3>1. gen' = gen + 1 /\ registry' = gen + 1 /\ open' /\ UNCHANGED <<req, nextID>>
      BY <2>1 DEF Reconnect, requestVars
    <3>2. gen <= MaxLosses /\ gen \in 1..(MaxLosses + 1) /\ MaxLosses \in Nat
      BY <2>1 DEF Reconnect, RequestInv, TunnelAssumption
    <3>. QED  BY <1>4, <2>1, <3>1, <3>2 DEF Reconnect
  <2>2. CASE LoseConnection
    BY <1>4, <2>2 DEF LoseConnection, gatewayVars, tunnelVars, requestVars, RequestInv
  <2>. QED  BY <1>6, <2>1, <2>2
<1>7. CASE UNCHANGED <<req, nextID, gen, open, registry>>
  BY <1>4, <1>7 DEF RequestInv
<1>8. \/ \E r \in Streams : OpenStream(r) \/ TakeFrame(r) \/ TimeOut(r)
      \/ \E g \in Gens : CloseTunnel(g) \/ Unregister(g)
      \/ Reconnect \/ LoseConnection
      \/ UNCHANGED <<req, nextID, gen, open, registry>>
  <2>1. ASSUME NEW r \in Streams, Expire(r) \/ Send(r) \/ Serve(r)
        PROVE  UNCHANGED <<req, nextID, gen, open, registry>>
    BY <2>1 DEF Expire, Send, SendBody, CancelBody, EndBody, Serve, RefuseTarget,
                Respond, Fail, SendResponse, DropResponse, EndResponse, Remove,
                senderUnchanged, localUnchanged, connVars, gatewayVars, tunnelVars,
                requestVars
  <2>2. ASSUME Dispatch \/ \E g \in Gens : Deliver(g)
        PROVE  UNCHANGED <<req, nextID, gen, open, registry>>
    BY <2>2 DEF Dispatch, Deliver, connVars
  <2>3. ASSUME \/ HandleReqStart \/ HandleReqBody \/ HandleReqEnd
               \/ HandleCredit \/ CancelStream \/ Fed
        PROVE  UNCHANGED <<req, nextID, gen, open, registry>>
    BY <2>3 DEF HandleReqStart, HandleReqBody, HandleReqEnd, HandleCredit,
                CancelStream, Fed, readUnchanged, connVars, gatewayVars, tunnelVars,
                requestVars
  <2>. QED  BY <2>1, <2>2, <2>3 DEF Next, Proxy, Gateway, Runner
<1>. QED  BY <1>2, <1>3, <1>5, <1>6, <1>7, <1>8

-----------------------------------------------------------------------------
(* What is written carries the numbers of the connection it is written to. *)

LEMMA StillCarries ==
  ASSUME RequestInv, Kept, gen' = gen, NEW f \in Frames, Carries(f)
  PROVE  Carries(f)'
  BY FrameFacts DEF Carries, Kept, Started

LEMMA WireMoves ==
  ASSUME RequestInv, Kept, NEW q, NEW p, Wire(q),
         \/ p = <<>>
         \/ /\ gen' = gen /\ open' = open
            /\ \/ p = q
               \/ q # <<>> /\ p = Tail(q)
               \/ open /\ \E f \in Frames : Carries(f)' /\ p = Append(q, f)
  PROVE  Wire(p)'
<1>1. CASE p = <<>>
  BY <1>1 DEF Wire
<1>2. CASE gen' = gen /\ open' = open /\ p = q
  BY <1>2, StillCarries, ElementOfSeq DEF Wire
<1>3. CASE gen' = gen /\ open' = open /\ q # <<>> /\ p = Tail(q)
  <2>1. /\ p \in Seq(Frames) /\ q \in Seq(Frames)
        /\ \A i \in DOMAIN p : i + 1 \in DOMAIN q /\ p[i] = q[i + 1]
    BY <1>3, HeadTailProperties DEF Wire
  <2>2. \A i \in DOMAIN p : p[i] \in Frames /\ Carries(p[i])
    BY <2>1, ElementOfSeq DEF Wire
  <2>3. \A i \in DOMAIN p : Carries(p[i])'
    BY <1>3, <2>2, StillCarries
  <2>. QED  BY <1>3, <2>1, <2>3 DEF Wire
<1>4. ASSUME gen' = gen, open' = open, open,
             NEW f \in Frames, Carries(f)', p = Append(q, f)
      PROVE  Wire(p)'
  <2>1. \A i \in DOMAIN q : q[i] \in Frames /\ Carries(q[i])
    BY ElementOfSeq DEF Wire
  <2>2. \A i \in DOMAIN q : Carries(q[i])'
    BY <1>4, <2>1, StillCarries
  <2>3. /\ p \in Seq(Frames)
        /\ \A i \in DOMAIN p : (i \in DOMAIN q /\ p[i] = q[i]) \/ p[i] = f
    BY <1>4, AppendProperties DEF Wire
  <2>. QED  BY <1>4, <2>2, <2>3 DEF Wire
<1>. QED  BY <1>1, <1>2, <1>3, <1>4

\* A write for a stream, or none.
LEMMA WireWritten ==
  ASSUME RequestInv, Kept, NEW q, NEW p, Wire(q), UNCHANGED <<gen, open>>,
         NEW r \in Streams, Started(r), NEW type \in Types,
         p = IF OnWire(r) THEN Append(q, Frame(type, req[r].id, r)) ELSE q
  PROVE  Wire(p)'
<1>. PICK f \in Frames : f = Frame(type, req[r].id, r)
  BY FrameFacts DEF RequestInv, Requests
<1>1. f.of = r /\ f.id = req[r].id
  BY FrameFacts DEF RequestInv, Requests
<1>2. OnWire(r) => Carries(f)
  BY <1>1 DEF OnWire, Carries
<1>3. OnWire(r) => Carries(f)'
  BY <1>1, <1>2, StillCarries
<1>. QED  BY <1>1, <1>3, WireMoves DEF OnWire

LEMMA WiresKept ==
  ASSUME RequestInv, TableInv, WireInv, RequestInv', Kept, Next
  PROVE  WireInv'
<1>1. PICK down : down = toRunner /\ Wire(down)
  BY DEF WireInv
<1>2. PICK up : up = toGateway /\ Wire(up)
  BY DEF WireInv
<1>3. PICK down2 : down2 = toRunner'
  OBVIOUS
<1>4. PICK up2 : up2 = toGateway'
  OBVIOUS
<1>. SUFFICES Wire(down2)' /\ Wire(up2)'
  BY <1>3, <1>4 DEF WireInv
<1>5. ASSUME UNCHANGED <<gen, open, toRunner>> PROVE Wire(down2)'
  BY <1>1, <1>3, <1>5, WireMoves
<1>6. ASSUME UNCHANGED <<gen, open, toGateway>> PROVE Wire(up2)'
  BY <1>2, <1>4, <1>6, WireMoves
<1>7. ASSUME NEW r \in Streams, Started(r), NEW type \in Types,
             UNCHANGED <<gen, open, toGateway>>, Put(r, type)
      PROVE  Wire(down2)' /\ Wire(up2)'
  BY <1>1, <1>3, <1>6, <1>7, WireWritten DEF Put
<1>8. ASSUME NEW r \in Streams, Started(r), NEW type \in Types,
             UNCHANGED <<gen, open, toRunner>>, Say(r, type)
      PROVE  Wire(down2)' /\ Wire(up2)'
  BY <1>2, <1>4, <1>5, <1>8, WireWritten DEF Say
<1>9. ASSUME NEW type, Read(type), UNCHANGED <<gen, open, toGateway>>
      PROVE  Wire(down2)' /\ Wire(up2)'
  BY <1>1, <1>3, <1>6, <1>9, WireMoves DEF Read
<1>. USE DEF Types
<1>10. ASSUME NEW r \in Streams, OpenStream(r)
       PROVE  Wire(down2)' /\ Wire(up2)'
  <2>1. UNCHANGED <<gen, open, toGateway>>
    BY <1>10 DEF OpenStream
  <2>2. CASE UNCHANGED toRunner
    BY <1>5, <1>6, <2>1, <2>2
  <2>3. CASE toRunner' # toRunner
    <3>. PICK id \in Nat : id = nextID[registry] + 1
      BY <1>10 DEF OpenStream, RequestInv
    <3>. PICK f \in Frames : f = Frame("start", id, r) /\ f.of = r /\ f.id = id
      BY FrameFacts
    <3>1. open /\ registry = gen /\ toRunner' = Append(toRunner, f)
      BY <1>10, <2>3 DEF OpenStream
    <3>2. req'[r].step = "pump" /\ req'[r].gen = gen /\ req'[r].id = id
      <4>1. req' = [req EXCEPT ![r] = [[req[r] EXCEPT !.gen = registry, !.id = id]
                                       EXCEPT !.step = "pump"]]
        BY <1>10, <2>3 DEF OpenStream
      <4>2. req[r] \in Requests /\ req'[r] = [[req[r] EXCEPT !.gen = registry, !.id = id]
                                             EXCEPT !.step = "pump"]
        BY <4>1 DEF RequestInv
      <4>. QED  BY <3>1, <4>2 DEF Requests
    <3>3. Carries(f)'
      BY <2>1, <3>2 DEF Carries, Started
    <3>. QED  BY <1>1, <1>3, <1>6, <2>1, <3>1, <3>3, WireMoves
  <2>. QED  BY <2>2, <2>3
<1>11. ASSUME NEW r \in Streams, TakeFrame(r) \/ TimeOut(r)
       PROVE  Wire(down2)' /\ Wire(up2)'
  <2>1. Started(r) /\ UNCHANGED <<gen, open, toGateway>>
    BY <1>11 DEF TakeFrame, TimeOut, Started
  <2>2. UNCHANGED toRunner \/ Put(r, "credit") \/ Put(r, "cancel")
    BY <1>11 DEF TakeFrame, TimeOut, Flush
  <2>. QED  BY <1>5, <1>6, <1>7, <2>1, <2>2
<1>12. ASSUME NEW r \in Streams, Send(r)
       PROVE  Wire(down2)' /\ Wire(up2)'
  <2>1. Started(r) /\ UNCHANGED <<gen, open, toGateway>>
    BY <1>12 DEF Send, SendBody, CancelBody, EndBody, senderUnchanged, TableInv
  <2>2. UNCHANGED toRunner \/ Put(r, "body") \/ Put(r, "cancel") \/ Put(r, "end")
    BY <1>12 DEF Send, SendBody, CancelBody, EndBody
  <2>. QED  BY <1>5, <1>6, <1>7, <2>1, <2>2
<1>13. ASSUME NEW r \in Streams, Serve(r)
       PROVE  Wire(down2)' /\ Wire(up2)'
  <2>1. Started(r) /\ UNCHANGED <<gen, open, toRunner>>
    BY <1>13 DEF Serve, RefuseTarget, Respond, Fail, SendResponse, DropResponse,
                 EndResponse, Remove, localUnchanged, TableInv
  <2>2. \/ UNCHANGED toGateway
        \/ \E type \in {"start", "body", "end", "error"} : Say(r, type)
    BY <1>13 DEF Serve, RefuseTarget, Respond, Fail, SendResponse, DropResponse,
                 EndResponse
  <2>. QED  BY <1>5, <1>6, <1>8, <2>1, <2>2
<1>14. CASE (\E r \in Streams : Expire(r)) \/ \E g \in Gens : Gateway(g)
  BY <1>5, <1>6, <1>14 DEF Expire, Gateway, Deliver, CloseTunnel, Unregister, connVars
<1>15. CASE Dispatch
  BY <1>2, <1>4, <1>5, <1>15, WireMoves DEF Dispatch
<1>16. CASE \/ HandleReqStart \/ HandleReqBody \/ HandleReqEnd
            \/ HandleCredit \/ CancelStream
  BY <1>9, <1>16 DEF HandleReqStart, HandleReqBody, HandleReqEnd, HandleCredit,
                     CancelStream, readUnchanged
<1>17. CASE Fed
  BY <1>5, <1>6, <1>17 DEF Fed, connVars
<1>18. CASE Reconnect
  <2>1. down2 = <<>> /\ up2 = <<>>
    BY <1>1, <1>2, <1>3, <1>4, <1>18 DEF Reconnect, Wire
  <2>. QED  BY <1>1, <1>2, <2>1, WireMoves
<1>19. CASE LoseConnection
  BY <1>1, <1>2, <1>3, <1>4, <1>19, WireMoves DEF LoseConnection
<1>. QED  BY <1>10, <1>11, <1>12, <1>13, <1>14, <1>15, <1>16, <1>17, <1>18, <1>19
          DEF Next, Proxy, Runner

-----------------------------------------------------------------------------
(* The tables hold streams that were opened, the runner's those of this    *)
(* connection.                                                             *)

LEMMA NextFrame ==
  ASSUME NEW q, Wire(q), q # <<>>
  PROVE  Head(q) \in Frames /\ Head(q).of \in Streams /\ Carries(Head(q))
<1>1. q \in Seq(Frames) /\ 1 \in DOMAIN q /\ Head(q) = q[1] /\ q[1] \in Frames
  BY HeadTailProperties, ElementOfSeq, EmptySeq DEF Wire
<1>. QED  BY <1>1, FrameFacts DEF Wire

LEMMA TablesKept ==
  ASSUME RequestInv, TableInv, WireInv, RequestInv', Kept, Next
  PROVE  TableInv'
<1>1. ASSUME UNCHANGED <<listed, sender, local, table, gen>> PROVE TableInv'
  BY <1>1 DEF TableInv, Kept
<1>2. ASSUME NEW r \in Streams, OpenStream(r) PROVE TableInv'
  <2>1. Started(r)' /\ ~Started(r)
    <3>1. req[r] \in Requests /\ req[r].step = "new"
      BY <1>2 DEF OpenStream, RequestInv
    <3>. PICK v : v = [req[r] EXCEPT !.gen = registry, !.id = nextID[registry] + 1]
      OBVIOUS
    <3>2. PICK step \in {"pump", "done"} : req' = [req EXCEPT ![r] = [v EXCEPT !.step = step]]
      BY <1>2 DEF OpenStream
    <3>3. "step" \in DOMAIN v
      BY <3>1 DEF Requests
    <3>. QED  BY <3>1, <3>2, <3>3 DEF Started, RequestInv
  <2>2. /\ UNCHANGED <<gen, table, local>>
        /\ listed' \in SUBSET (listed \cup {r})
        /\ sender' \in [Streams -> {"none", "read", "ended"}]
        /\ \A s \in Streams \ {r} : sender'[s] = sender[s]
    BY <1>2 DEF OpenStream, runnerVars, localVars, TableInv
  <2>. QED  BY <2>1, <2>2 DEF TableInv, Kept
<1>3. ASSUME NEW r \in Streams, TakeFrame(r) \/ TimeOut(r) PROVE TableInv'
  <2>1. listed' \subseteq listed /\ UNCHANGED <<gen, table, local, sender>>
    BY <1>3 DEF TakeFrame, TimeOut, Flush, Return, runnerVars, localVars
  <2>. QED  BY <2>1 DEF TableInv, Kept
<1>4. ASSUME NEW r \in Streams, Send(r) PROVE TableInv'
  <2>1. /\ UNCHANGED <<gen, listed, table, local>> /\ sender[r] = "read"
        /\ sender' \in [Streams -> {"none", "read", "ended"}]
        /\ \A s \in Streams \ {r} : sender'[s] = sender[s]
    BY <1>4 DEF Send, SendBody, CancelBody, EndBody, GoHome, senderUnchanged,
                runnerVars, localVars, TableInv
  <2>. QED  BY <2>1 DEF TableInv, Kept
<1>5. ASSUME NEW r \in Streams, Serve(r) PROVE TableInv'
  <2>1. /\ UNCHANGED <<gen, listed, sender>> /\ local[r] # "none"
        /\ table' \subseteq table
        /\ local' \in [Streams -> {"none", "request", "refused", "response", "done"}]
        /\ \A s \in Streams \ {r} : local'[s] = local[s]
    BY <1>5 DEF Serve, RefuseTarget, Respond, Fail, SendResponse, DropResponse,
                EndResponse, Remove, localUnchanged, gatewayVars, requestVars,
                TableInv
  <2>. QED  BY <2>1 DEF TableInv, Kept
<1>6. CASE (\E g \in Gens : Gateway(g)) \/ Dispatch
  <2>1. listed' \subseteq listed /\ UNCHANGED <<gen, table, local, sender>>
    BY <1>6 DEF Gateway, Deliver, CloseTunnel, Unregister, Dispatch, connVars,
                requestVars, runnerVars, localVars
  <2>. QED  BY <2>1 DEF TableInv, Kept
<1>7. CASE HandleReqStart
  <2>. PICK s \in Streams : s = Head(toRunner).of /\ Started(s) /\ req[s].gen = gen
    BY <1>7, NextFrame DEF HandleReqStart, Read, WireInv, Carries
  <2>1. /\ UNCHANGED <<gen, listed, sender>> /\ table' \subseteq table \cup {s}
        /\ local' \in [Streams -> {"none", "request", "refused", "response", "done"}]
        /\ \A r \in Streams \ {s} : local'[r] = local[r]
    BY <1>7 DEF HandleReqStart, readUnchanged, gatewayVars, requestVars, TableInv
  <2>. QED  BY <2>1 DEF TableInv, Kept
<1>8. CASE HandleReqBody \/ HandleReqEnd \/ HandleCredit \/ CancelStream \/ Fed
  <2>1. table' \subseteq table /\ UNCHANGED <<gen, listed, sender, local>>
    BY <1>8 DEF HandleReqBody, HandleReqEnd, HandleCredit, CancelStream, Fed,
                readUnchanged, connVars, gatewayVars, requestVars, localVars
  <2>. QED  BY <2>1 DEF TableInv, Kept
<1>9. CASE Reconnect
  BY <1>9 DEF Reconnect, requestVars, TableInv, Kept
<1>10. CASE LoseConnection \/ \E r \in Streams : Expire(r)
  BY <1>1, <1>10 DEF LoseConnection, Expire, connVars, gatewayVars, requestVars,
                     runnerVars, localVars
<1>. QED  BY <1>2, <1>3, <1>4, <1>5, <1>6, <1>7, <1>8, <1>9, <1>10
          DEF Next, Proxy, Runner

-----------------------------------------------------------------------------
(* Frames are handed to the stream they are for.                           *)

LEMMA HandFacts ==
  ASSUME NEW step \in {"waiting", "feeding"}
  PROVE  /\ Reading \in Hands(step) /\ Reading.step # step
         /\ \A f \in Frames : Holding(step, f.of, f) \in Hands(step)
         /\ \A l \in Hands(step) : l.step = step => l.frame \in Frames /\ l.to = l.frame.of
  BY DEF Hands, Holding, Reading

LEMMA OneMoreFrame ==
  ASSUME HandsInv, NEW r \in Streams, NEW f \in Frames, f.of = r,
         respCh' = [respCh EXCEPT ![r] = Append(@, f)]
  PROVE  /\ respCh' \in [Streams -> Seq(Frames)]
         /\ \A s \in Streams : \A i \in DOMAIN respCh'[s] : respCh'[s][i].of = s
<1>1. /\ Append(respCh[r], f) \in Seq(Frames)
      /\ \A i \in DOMAIN Append(respCh[r], f) : Append(respCh[r], f)[i].of = r
  BY AppendProperties DEF HandsInv
<1>. QED  BY <1>1 DEF HandsInv

\* A stream found by its number is the one the frame is for.
LEMMA FoundStream ==
  ASSUME RequestInv, TableInv, NEW f \in Frames, Carries(f)
  PROVE  Stream(f.id) \subseteq {f.of} /\ At(f.id) \subseteq {f.of}
  BY FrameFacts DEF RequestInv, TableInv, Carries, Stream, At

LEMMA HandsKept ==
  ASSUME RequestInv, TableInv, WireInv, HandsInv, Next
  PROVE  HandsInv'
<1>1. ASSUME UNCHANGED <<respCh, gwLoop, loop>> PROVE HandsInv'
  BY <1>1 DEF HandsInv
<1>2. ASSUME NEW r \in Streams, TakeFrame(r) \/ TimeOut(r) PROVE HandsInv'
  <2>1. ASSUME NEW q \in {respCh[r], Tail(respCh[r]), <<>>}, q # <<>> => respCh[r] # <<>>,
               respCh' = [respCh EXCEPT ![r] = q], UNCHANGED <<gwLoop, loop>>
        PROVE  HandsInv'
    <3>1. q \in Seq(Frames) /\ \A i \in DOMAIN q : q[i].of = r
      <4>1. CASE q = <<>>
        BY <4>1, EmptySeq
      <4>2. CASE q = respCh[r]
        BY <4>2 DEF HandsInv
      <4>3. CASE q = Tail(respCh[r]) /\ respCh[r] # <<>>
        BY <4>3, HeadTailProperties DEF HandsInv
      <4>. QED  BY <2>1, <4>1, <4>2, <4>3
    <3>. QED  BY <2>1, <3>1 DEF HandsInv
  <2>2. UNCHANGED <<gwLoop, loop>>
    BY <1>2 DEF TakeFrame, TimeOut, tunnelVars, runnerVars
  <2>3. CASE TakeFrame(r)
    <3>1. respCh[r] # <<>>
      BY <2>3 DEF TakeFrame
    <3>2. \/ respCh' = [respCh EXCEPT ![r] = Tail(respCh[r])]
          \/ respCh' = [respCh EXCEPT ![r] = <<>>]
      BY <2>3 DEF TakeFrame, Return
    <3>. QED  BY <2>1, <2>2, <3>1, <3>2
  <2>4. CASE TimeOut(r)
    <3>1. \/ respCh' = [respCh EXCEPT ![r] = respCh[r]]
          \/ respCh' = [respCh EXCEPT ![r] = <<>>]
      BY <2>4 DEF TimeOut, Return
    <3>. QED  BY <2>1, <2>2, <3>1
  <2>. QED  BY <1>2, <2>3, <2>4
<1>3. ASSUME NEW g \in Gens, Deliver(g) PROVE HandsInv'
  <2>. DEFINE l == gwLoop[g]
  <2>1. l.frame \in Frames /\ l.to = l.frame.of /\ l.frame.of \in Streams
    BY <1>3, HandFacts, FrameFacts DEF Deliver, HandsInv
  <2>2. /\ respCh' \in [Streams -> Seq(Frames)]
        /\ \A s \in Streams : \A i \in DOMAIN respCh'[s] : respCh'[s][i].of = s
    BY <1>3, <2>1, OneMoreFrame DEF Deliver, HandsInv
  <2>3. gwLoop' \in [Gens -> Hands("waiting")] /\ UNCHANGED loop
    BY <1>3, HandFacts DEF Deliver, HandsInv, runnerVars
  <2>. QED  BY <2>2, <2>3 DEF HandsInv
<1>4. ASSUME NEW g \in Gens, CloseTunnel(g) PROVE HandsInv'
  <2>1. ASSUME NEW r \in Streams
        PROVE  /\ Frame("error", req[r].id, r) \in Frames
               /\ Frame("error", req[r].id, r).of = r
    <3>1. req[r].id \in Nat
      BY DEF RequestInv, Requests
    <3>. QED  BY <3>1 DEF Frame, Frames, Types
  <2>2. PICK e \in [Streams -> Frames] :
          \A r \in Streams : e[r] = Frame("error", req[r].id, r)
    <3>. DEFINE e == [r \in Streams |-> Frame("error", req[r].id, r)]
    <3>1. e \in [Streams -> Frames]
      BY <2>1
    <3>. QED  BY <3>1
  <2>3. ASSUME NEW r \in Streams
        PROVE  /\ Append(respCh[r], e[r]) \in Seq(Frames)
               /\ \A i \in DOMAIN Append(respCh[r], e[r]) :
                    Append(respCh[r], e[r])[i].of = r
    <3>1. e[r] \in Frames /\ e[r].of = r
      BY <2>1, <2>2
    <3>. QED  BY <3>1, AppendProperties DEF HandsInv
  <2>4. respCh' = [r \in Streams |-> IF r \in listed /\ req[r].gen = g /\ Room(r)
                                    THEN Append(respCh[r], e[r]) ELSE respCh[r]]
    BY <1>4, <2>2 DEF CloseTunnel, TableInv
  <2>5. UNCHANGED <<gwLoop, loop>>
    BY <1>4 DEF CloseTunnel, runnerVars
  <2>. QED  BY <2>3, <2>4, <2>5 DEF HandsInv
<1>5. CASE Dispatch
  <2>. DEFINE f == Head(toGateway)
  <2>1. f \in Frames /\ f.of \in Streams /\ Stream(f.id) \subseteq {f.of}
    BY <1>5, NextFrame, FoundStream DEF Dispatch, WireInv
  <2>2. UNCHANGED loop /\ gen \in Gens
    BY <1>5 DEF Dispatch, runnerVars, RequestInv
  <2>3. CASE UNCHANGED <<respCh, gwLoop>>
    BY <1>1, <2>2, <2>3
  <2>4. CASE /\ respCh' = [respCh EXCEPT ![f.of] = Append(@, f)]
             /\ UNCHANGED gwLoop
    BY <2>1, <2>2, <2>4, OneMoreFrame DEF HandsInv
  <2>5. CASE /\ gwLoop' = [gwLoop EXCEPT ![gen] = Holding("waiting", f.of, f)]
             /\ UNCHANGED respCh
    BY <2>1, <2>2, <2>5, HandFacts DEF HandsInv
  <2>. QED  BY <1>5, <2>1, <2>3, <2>4, <2>5 DEF Dispatch
<1>6. CASE HandleReqBody
  <2>. DEFINE f == Head(toRunner)
  <2>1. f \in Frames /\ At(f.id) \subseteq {f.of}
    BY <1>6, NextFrame, FoundStream DEF HandleReqBody, Read, WireInv
  <2>2. UNCHANGED <<respCh, gwLoop>>
    BY <1>6 DEF HandleReqBody, readUnchanged, gatewayVars, tunnelVars, requestVars
  <2>3. loop' = loop \/ loop' = Holding("feeding", f.of, f)
    BY <1>6, <2>1 DEF HandleReqBody, Target
  <2>. QED  BY <2>1, <2>2, <2>3, HandFacts DEF HandsInv
<1>7. CASE Fed
  BY <1>7, HandFacts DEF Fed, gatewayVars, tunnelVars, requestVars, HandsInv
<1>8. ASSUME NEW r \in Streams, OpenStream(r) \/ Expire(r) \/ Send(r)
      PROVE  UNCHANGED <<respCh, gwLoop, loop>>
  BY <1>8 DEF OpenStream, Expire, Send, SendBody, CancelBody, EndBody,
              senderUnchanged, runnerVars, gatewayVars, tunnelVars, requestVars
<1>9. ASSUME NEW r \in Streams, Serve(r)
      PROVE  UNCHANGED <<respCh, gwLoop, loop>>
  BY <1>9 DEF Serve, RefuseTarget, Respond, Fail, SendResponse, DropResponse,
              EndResponse, Remove, localUnchanged, runnerVars, gatewayVars, tunnelVars,
              requestVars
<1>10. CASE \/ \E g \in Gens : Unregister(g)
            \/ HandleReqStart \/ HandleReqEnd \/ HandleCredit \/ CancelStream
            \/ Reconnect \/ LoseConnection
  <2>1. UNCHANGED <<respCh, gwLoop, loop>>
    BY <1>10 DEF Unregister, HandleReqStart, HandleReqEnd, HandleCredit, CancelStream,
                Reconnect, LoseConnection, readUnchanged, runnerVars, gatewayVars,
                tunnelVars, requestVars
  <2>. QED  BY <1>1, <2>1
<1>. QED  BY <1>1, <1>2, <1>3, <1>4, <1>5, <1>6, <1>7, <1>8, <1>9, <1>10
          DEF Next, Proxy, Gateway, Runner

-----------------------------------------------------------------------------
(* The window of a stream that is over at either end is closed.            *)

Ended(d, r) ==
  \/ d = "req" /\ Started(r) /\ r \notin listed
  \/ /\ d = "resp"
     /\ \/ Done("resp", r)
        \/ local[r] \in {"request", "refused", "response"} /\ r \notin table
SleepInv ==
  WindowsOK /\ \A d \in Directions, r \in Streams : Ended(d, r) => win[d][r].closed

LEMMA StillClosed ==
  ASSUME SleepInv, WindowsOK', StayClosed,
         \A d \in Directions, r \in Streams :
           Ended(d, r)' => Ended(d, r) \/ win'[d][r].closed
  PROVE  SleepInv'
  BY DEF SleepInv, StayClosed

LEMMA NothingClosed ==
  ASSUME SleepInv, UNCHANGED win,
         \A d \in Directions, r \in Streams : Ended(d, r)' => Ended(d, r)
  PROVE  SleepInv'
  BY DEF SleepInv, WindowsOK, Quiet

LEMMA SleepKept ==
  ASSUME RequestInv, TableInv, WireInv, SleepInv, Next
  PROVE  SleepInv'
<1>1. WindowsOK
  BY DEF SleepInv
<1>2. ASSUME UNCHANGED <<over, req, listed, local, table>>
      PROVE  \A d \in Directions, r \in Streams : Ended(d, r)' => Ended(d, r)
  BY <1>2 DEF Ended, Done, Started
<1>3. ASSUME UNCHANGED <<win, over, req, listed, local, table>>
      PROVE  SleepInv'
  BY <1>2, <1>3, NothingClosed
<1>4. ASSUME UNCHANGED <<over, req, listed, local, table>>,
             NEW d \in Directions, NEW s \in Streams,
             \/ Acquire(d, s) \/ RefuseAcquire(d, s) \/ Sleep(d, s)
             \/ AddCredit(d, s)
      PROVE  SleepInv'
  BY <1>1, <1>2, <1>4, WindowsUsed, StillClosed
<1>5. ASSUME NEW d \in Directions, NEW S \in SUBSET Streams, CloseWindows(d, S),
             \A e \in Directions, r \in Streams :
               Ended(e, r)' => Ended(e, r) \/ (e = d /\ r \in S)
      PROVE  SleepInv'
  BY <1>1, <1>5, WindowsClosed, StillClosed
<1>. "req" \in Directions /\ "resp" \in Directions
  BY DEF Directions
<1>6. ASSUME NEW r \in Streams, OpenStream(r) PROVE SleepInv'
  <2>1. /\ UNCHANGED <<local, table>>
        /\ \A s \in Streams \ {r} : Started(s)' => Started(s)
    BY <1>6 DEF OpenStream, Started, RequestInv, runnerVars, localVars
  <2>2. CASE UNCHANGED <<win, over>> /\ listed' = listed \cup {r}
    BY <2>1, <2>2, NothingClosed DEF Ended, Done
  <2>3. CASE /\ UNCHANGED listed /\ over' = over \cup {<<"req", r>>}
             /\ CloseWindows("req", {r})
    <3>1. \A e \in Directions, s \in Streams :
            Ended(e, s)' => Ended(e, s) \/ (e = "req" /\ s \in {r})
      BY <2>1, <2>3 DEF Ended, Done
    <3>. QED  BY <1>5, <2>3, <3>1
  <2>. QED  BY <1>6, <2>2, <2>3 DEF OpenStream
<1>7. ASSUME NEW r \in Streams, TakeFrame(r) \/ TimeOut(r) PROVE SleepInv'
  <2>1. /\ UNCHANGED <<local, table>> /\ Started(r)
        /\ \A s \in Streams : Started(s)' => Started(s)
    BY <1>7 DEF TakeFrame, TimeOut, Flush, Return, Started, RequestInv, runnerVars,
                localVars
  <2>2. CASE UNCHANGED <<win, over, listed>>
    BY <2>1, <2>2, NothingClosed DEF Ended, Done
  <2>3. CASE \E left : Return(r, left)
    <3>1. \A e \in Directions, s \in Streams :
            Ended(e, s)' => Ended(e, s) \/ (e = "req" /\ s = r)
      BY <2>1, <2>3 DEF Ended, Done, Return
    <3>2. CASE r \in listed
      BY <1>5, <2>3, <3>1, <3>2 DEF Return
    <3>3. CASE r \notin listed
      <4>1. Ended("req", r) /\ UNCHANGED win
        BY <2>1, <2>3, <3>3 DEF Ended, Return
      <4>. QED  BY <3>1, <4>1, NothingClosed
    <3>. QED  BY <3>2, <3>3
  <2>. QED  BY <1>7, <2>2, <2>3 DEF TakeFrame, TimeOut, Flush, windowVars
<1>8. ASSUME NEW r \in Streams, Expire(r) \/ Send(r) PROVE SleepInv'
  <2>1. CASE Expire(r)
    <3>1. UNCHANGED <<req, listed, local, table>> /\ EndContext("req", r)
      BY <2>1 DEF Expire, gatewayVars, requestVars, runnerVars, localVars
    <3>2. \A d \in Directions, s \in Streams : Ended(d, s)' => Ended(d, s)
      BY <3>1 DEF EndContext, Ended, Done, Started
    <3>. QED  BY <1>1, <3>1, <3>2, WindowsUsed, StillClosed
  <2>2. CASE Send(r)
    <3>1. UNCHANGED <<over, req, listed, local, table>>
      BY <2>2 DEF Send, SendBody, CancelBody, EndBody, senderUnchanged,
                  gatewayVars, requestVars, runnerVars, localVars
    <3>2. \/ UNCHANGED win \/ Acquire("req", r) \/ RefuseAcquire("req", r)
          \/ Sleep("req", r)
      BY <2>2 DEF Send, SendBody, CancelBody, EndBody
    <3>. QED  BY <1>3, <1>4, <3>1, <3>2
  <2>. QED  BY <1>8, <2>1, <2>2
<1>9. ASSUME NEW r \in Streams, Remove(r),
             local[r] \in {"request", "refused", "response"}
      PROVE  SleepInv'
  <2>1. /\ UNCHANGED <<req, listed>> /\ CloseWindows("resp", At(req[r].id))
        /\ At(req[r].id) \in SUBSET Streams
    BY <1>9 DEF Remove, localUnchanged, gatewayVars, requestVars, At, TableInv
  <2>2. \A e \in Directions, s \in Streams :
          Ended(e, s)' => Ended(e, s) \/ (e = "resp" /\ s \in At(req[r].id))
    BY <1>9, <2>1 DEF Ended, Done, Started, Remove, At, TableInv
  <2>. QED  BY <1>5, <2>1, <2>2
<1>10. ASSUME NEW r \in Streams, Serve(r) PROVE SleepInv'
  <2>1. CASE RefuseTarget(r) \/ Fail(r) \/ DropResponse(r) \/ EndResponse(r)
    BY <1>9, <2>1 DEF RefuseTarget, Fail, DropResponse, EndResponse
  <2>2. CASE Respond(r)
    BY <2>2, NothingClosed DEF Respond, localUnchanged, gatewayVars, requestVars,
       windowVars, Ended, Done, Started, TableInv
  <2>3. CASE SendResponse(r)
    <3>1. UNCHANGED <<over, req, listed, local, table>>
      BY <2>3 DEF SendResponse, localUnchanged, gatewayVars, requestVars
    <3>2. Acquire("resp", r) \/ Sleep("resp", r)
      BY <2>3 DEF SendResponse
    <3>. QED  BY <1>4, <3>1, <3>2
  <2>. QED  BY <1>10, <2>1, <2>2, <2>3 DEF Serve
<1>11. ASSUME NEW g \in Gens, CloseTunnel(g) PROVE SleepInv'
  <2>. PICK S \in SUBSET Streams : S = {r \in listed : req[r].gen = g}
    BY DEF TableInv
  <2>1. /\ UNCHANGED <<over, req, local, table>> /\ listed' = listed \ S
        /\ CloseWindows("req", S)
    BY <1>11 DEF CloseTunnel, runnerVars, localVars
  <2>2. \A e \in Directions, s \in Streams :
          Ended(e, s)' => Ended(e, s) \/ (e = "req" /\ s \in S)
    BY <2>1 DEF Ended, Done, Started
  <2>. QED  BY <1>5, <2>1, <2>2
<1>12. ASSUME NEW S \in SUBSET Streams, Abandon(S), table' = table \ S,
              UNCHANGED <<req, listed, local>>
       PROVE  SleepInv'
  <2>1. \A e \in Directions, s \in Streams :
          Ended(e, s)' => Ended(e, s) \/ (e = "resp" /\ s \in S)
    BY <1>12 DEF Ended, Done, Started, Abandon
  <2>. QED  BY <1>5, <1>12, <2>1 DEF Abandon
<1>13. CASE CancelStream
  <2>1. Target \in SUBSET Streams /\ UNCHANGED <<req, listed, local>>
    BY <1>13 DEF CancelStream, readUnchanged, gatewayVars, requestVars, Target, At,
                 TableInv
  <2>. QED  BY <1>12, <1>13, <2>1 DEF CancelStream
<1>14. CASE Reconnect
  <2>1. table' = table \ table /\ Abandon(table) /\ UNCHANGED <<req, listed, local>>
    BY <1>14 DEF Reconnect, requestVars
  <2>. QED  BY <1>12, <2>1 DEF TableInv
<1>15. CASE HandleReqStart
  <2>. PICK f \in Frames : /\ f = Head(toRunner) /\ f.of \in Streams
                           /\ At(f.id) \subseteq {f.of}
    BY <1>15, NextFrame, FoundStream DEF HandleReqStart, Read, WireInv
  <2>1. /\ UNCHANGED <<win, over, req, listed>> /\ table \cup {f.of} \subseteq table'
        /\ \A s \in Streams \ {f.of} : local'[s] = local[s]
    BY <1>15 DEF HandleReqStart, readUnchanged, gatewayVars, requestVars, windowVars,
                 TableInv
  <2>. QED  BY <2>1, NothingClosed DEF Ended, Done, Started
<1>16. CASE HandleCredit
  <2>1. UNCHANGED <<over, req, listed, local, table>>
    BY <1>16 DEF HandleCredit, readUnchanged, gatewayVars, requestVars
  <2>2. UNCHANGED win \/ \E r \in Streams : AddCredit("resp", r)
    BY <1>16 DEF HandleCredit, Target, At, TableInv
  <2>. QED  BY <1>3, <1>4, <2>1, <2>2
<1>17. CASE \/ \E g \in Gens : Deliver(g) \/ Unregister(g)
            \/ Dispatch \/ HandleReqBody \/ HandleReqEnd \/ Fed \/ LoseConnection
  <2>1. UNCHANGED <<win, over, req, listed, local, table>>
    BY <1>17 DEF Deliver, Unregister, Dispatch, HandleReqBody, HandleReqEnd, Fed,
                 LoseConnection, readUnchanged, windowVars, connVars, gatewayVars,
                 requestVars, runnerVars, localVars
  <2>. QED  BY <1>3, <2>1
<1>. QED  BY <1>6, <1>7, <1>8, <1>10, <1>11, <1>13, <1>14, <1>15, <1>16, <1>17
          DEF Next, Proxy, Gateway, Runner

-----------------------------------------------------------------------------
(* A request that is over has left its table.                              *)

PumpInv == \A r \in Streams : r \in listed => req[r].step = "pump"

LEMMA PumpsKept ==
  ASSUME RequestInv, TableInv, PumpInv, Next
  PROVE  PumpInv'
<1>1. ASSUME UNCHANGED req, listed' \subseteq listed PROVE PumpInv'
  BY <1>1 DEF PumpInv
<1>2. ASSUME NEW r \in Streams, OpenStream(r) PROVE PumpInv'
  <2>. PICK v : v = [req[r] EXCEPT !.gen = registry, !.id = nextID[registry] + 1]
    OBVIOUS
  <2>1. CASE /\ req' = [req EXCEPT ![r] = [v EXCEPT !.step = "pump"]]
             /\ listed' = listed \cup {r}
    <3>1. "step" \in DOMAIN v
      BY DEF RequestInv, Requests
    <3>. QED  BY <2>1, <3>1 DEF PumpInv, RequestInv
  <2>2. CASE /\ req' = [req EXCEPT ![r] = [v EXCEPT !.step = "done"]]
             /\ UNCHANGED listed
    <3>1. r \notin listed
      BY <1>2 DEF OpenStream, PumpInv
    <3>. QED  BY <2>2, <3>1 DEF PumpInv, RequestInv
  <2>. QED  BY <1>2, <2>1, <2>2 DEF OpenStream
<1>3. ASSUME NEW r \in Streams, TakeFrame(r) \/ TimeOut(r) PROVE PumpInv'
  <2>1. CASE \E left : Return(r, left)
    BY <2>1 DEF Return, PumpInv, RequestInv
  <2>2. CASE UNCHANGED <<req, listed>>
    BY <1>1, <2>2
  <2>3. CASE req' = [req EXCEPT ![r].started = TRUE] /\ UNCHANGED listed
    BY <2>3 DEF PumpInv, RequestInv, Requests
  <2>. QED  BY <1>3, <2>1, <2>2, <2>3 DEF TakeFrame, TimeOut, Flush
<1>4. ASSUME NEW r \in Streams, Expire(r) \/ Send(r) \/ Serve(r) PROVE PumpInv'
  <2>1. UNCHANGED <<req, listed>>
    BY <1>4 DEF Expire, Send, SendBody, CancelBody, EndBody, senderUnchanged,
                Serve, RefuseTarget, Respond, Fail, SendResponse, DropResponse,
                EndResponse, Remove, localUnchanged, gatewayVars, requestVars
  <2>. QED  BY <1>1, <2>1
<1>5. CASE (\E g \in Gens : Gateway(g)) \/ Dispatch \/ Runner \/ LoseConnection
  <2>1. UNCHANGED req /\ listed' \subseteq listed
    BY <1>5 DEF Gateway, Deliver, CloseTunnel, Unregister, Dispatch, Runner,
                HandleReqStart, HandleReqBody, HandleReqEnd, HandleCredit, CancelStream,
                Fed, Reconnect, LoseConnection, readUnchanged, gatewayVars, requestVars
  <2>. QED  BY <1>1, <2>1
<1>. QED  BY <1>2, <1>3, <1>4, <1>5 DEF Next, Proxy

-----------------------------------------------------------------------------

IInv == RequestInv /\ WireInv /\ TableInv /\ HandsInv /\ SleepInv /\ PumpInv

LEMMA InitIInv == Init => IInv
<1>. SUFFICES ASSUME Init PROVE IInv
  OBVIOUS
<1>. USE TunnelAssumption, WindowAssumption DEF TunnelAssumption, WindowAssumption, Init
<1>1. RequestInv
  <2>1. gen \in Gens /\ registry \in Gens
    BY DEF Gens
  <2>2. req \in [Streams -> Requests] /\ \A r \in Streams : ~Started(r)
    BY DEF Requests, Started
  <2>3. nextID \in [Gens -> Nat]
    OBVIOUS
  <2>4. open \in BOOLEAN /\ (~open => gen <= MaxLosses)
    OBVIOUS
  <2>. HIDE DEF Init
  <2>. QED  BY <2>1, <2>2, <2>3, <2>4 DEF RequestInv
<1>2. WireInv
  BY EmptySeq DEF WireInv, Wire
<1>3. TableInv
  BY DEF TableInv
<1>4. HandsInv
  BY EmptySeq DEF HandsInv, Hands
<1>5. SleepInv
  BY DEF WindowsInit, SleepInv, WindowsOK, WindowState, Quiet, Ended, Done, Started
<1>6. PumpInv
  BY DEF PumpInv
<1>. QED  BY <1>1, <1>2, <1>3, <1>4, <1>5, <1>6 DEF IInv

LEMMA NextIInv == IInv /\ [Next]_vars => IInv'
<1>. SUFFICES ASSUME IInv, [Next]_vars PROVE IInv'
  OBVIOUS
<1>. USE DEF IInv
<1>1. CASE Next
  <2>1. RequestInv' /\ Kept
    BY <1>1, RequestsKept
  <2>. QED  BY <1>1, <2>1, WiresKept, TablesKept, HandsKept, SleepKept, PumpsKept
<1>2. CASE UNCHANGED vars
  <2>1. UNCHANGED windowVars /\ UNCHANGED connVars /\ UNCHANGED gatewayVars
        /\ UNCHANGED runnerVars
    BY <1>2 DEF vars
  <2>. USE <2>1 DEF windowVars, connVars, gatewayVars, tunnelVars, requestVars,
                    runnerVars, localVars
  <2>2. RequestInv'
    BY DEF RequestInv, Started
  <2>3. WireInv'
    BY DEF WireInv, Wire, Carries, Started
  <2>4. TableInv'
    BY DEF TableInv, Started
  <2>5. HandsInv'
    BY DEF HandsInv
  <2>6. SleepInv'
    BY DEF SleepInv, WindowsOK, Quiet, Ended, Done, Started
  <2>7. PumpInv'
    BY DEF PumpInv
  <2>. QED  BY <2>2, <2>3, <2>4, <2>5, <2>6, <2>7
<1>. QED  BY <1>1, <1>2

\* No request is ever handed frames of another, over any number of connections
\* (client.go sendOnConnection, dispatcher.go Close): a number is given once on
\* a connection, and what is on the wire carries the numbers of this one.
THEOREM FramesAreOwn == Spec => []OwnFrames
<1>1. IInv => OwnFrames
  <2>. SUFFICES ASSUME IInv PROVE OwnFrames
    OBVIOUS
  <2>1. loop.step = "feeding" => loop.frame.of = loop.to
    BY HandFacts DEF IInv, HandsInv
  <2>. QED  BY <2>1 DEF IInv, HandsInv, OwnFrames
<1>. QED  BY <1>1, InitIInv, NextIInv, PTL DEF Spec

\* A goroutine that has missed the broadcast of its context is woken all the
\* same (stream.go:31): whatever ends a stream also closes its window.
THEOREM SleepersAreWoken == Spec => []NoSleeperIsForgotten
<1>1. IInv => NoSleeperIsForgotten
  <2>. SUFFICES ASSUME IInv, NEW r \in Streams
                PROVE  /\ req[r].step = "done" => win["req"][r].waiter \in {"none", "woken"}
                       /\ Done("resp", r) => win["resp"][r].waiter \in {"none", "woken"}
    BY DEF NoSleeperIsForgotten
  <2>. "req" \in Directions /\ "resp" \in Directions
    BY DEF Directions
  <2>1. ASSUME req[r].step = "done" PROVE win["req"][r].waiter \in {"none", "woken"}
    <3>1. Ended("req", r)
      BY <2>1 DEF IInv, PumpInv, Ended, Started
    <3>. QED  BY <3>1 DEF IInv, SleepInv, WindowsOK, Quiet
  <2>2. ASSUME Done("resp", r) PROVE win["resp"][r].waiter \in {"none", "woken"}
    BY <2>2 DEF IInv, SleepInv, WindowsOK, Quiet, Ended
  <2>. QED  BY <2>1, <2>2
<1>. QED  BY <1>1, InitIInv, NextIInv, PTL DEF Spec

-----------------------------------------------------------------------------
(* How many frames of a kind a sequence holds.                             *)

Hits(s, type, r) == {i \in DOMAIN s : s[i].type = type /\ s[i].of = r}
Hit(f, type, r) == One(f.type = type /\ f.of = r)

LEMMA HitsAreFinite ==
  ASSUME NEW s \in Seq(Frames), NEW type, NEW r
  PROVE  /\ IsFiniteSet(Hits(s, type, r))
         /\ Count(s, type, r) = Cardinality(Hits(s, type, r))
         /\ Count(s, type, r) \in Nat
<1>1. DOMAIN s = 1..Len(s) /\ Len(s) \in Nat
  BY LenProperties
<1>2. IsFiniteSet(1..Len(s))
  BY <1>1, FS_Interval
<1>3. IsFiniteSet(Hits(s, type, r))
  BY <1>1, <1>2, FS_Subset DEF Hits
<1>. QED  BY <1>3, FS_CardinalityType DEF Count, Hits

LEMMA CountEmpty ==
  ASSUME NEW type, NEW r
  PROVE  Count(<<>>, type, r) = 0
<1>1. {i \in DOMAIN <<>> : <<>>[i].type = type /\ <<>>[i].of = r} = {}
  OBVIOUS
<1>. QED  BY <1>1, FS_EmptySet DEF Count

LEMMA CountAppend ==
  ASSUME NEW s \in Seq(Frames), NEW f \in Frames, NEW type, NEW r
  PROVE  Count(Append(s, f), type, r) = Count(s, type, r) + Hit(f, type, r)
<1>. DEFINE n == Len(s)
            t == Append(s, f)
<1>1. /\ n \in Nat /\ DOMAIN s = 1..n /\ DOMAIN t = 1..(n + 1) /\ t[n + 1] = f
      /\ \A i \in 1..n : t[i] = s[i]
  BY LenProperties, AppendProperties
<1>2. t \in Seq(Frames)
  BY AppendProperties
<1>. HIDE DEF n, t
<1>3. CASE f.type = type /\ f.of = r
  <2>1. Hits(t, type, r) = Hits(s, type, r) \cup {n + 1} /\ n + 1 \notin Hits(s, type, r)
    BY <1>1, <1>3 DEF Hits
  <2>2. Cardinality(Hits(t, type, r)) = Cardinality(Hits(s, type, r)) + 1
    BY <2>1, HitsAreFinite, FS_AddElement
  <2>3. Count(t, type, r) = Count(s, type, r) + 1
    BY <1>2, <2>2, HitsAreFinite
  <2>. QED  BY <1>3, <2>3 DEF Hit, One, t
<1>4. CASE ~(f.type = type /\ f.of = r)
  <2>1. Hits(t, type, r) = Hits(s, type, r)
    BY <1>1, <1>4 DEF Hits
  <2>2. Count(t, type, r) = Count(s, type, r) /\ Count(s, type, r) \in Nat
    BY <1>2, <2>1, HitsAreFinite
  <2>. QED  BY <1>4, <2>2 DEF Hit, One, t
<1>. QED  BY <1>3, <1>4

LEMMA CountTail ==
  ASSUME NEW s \in Seq(Frames), s # <<>>, NEW type, NEW r
  PROVE  Count(s, type, r) = Count(Tail(s), type, r) + Hit(Head(s), type, r)
<1>. DEFINE n == Len(s)
            t == Tail(s)
            A == Hits(s, type, r)
            B == Hits(t, type, r)
            f == [i \in B |-> i + 1]
<1>1. /\ n \in Nat \ {0} /\ DOMAIN s = 1..n /\ DOMAIN t = 1..(n - 1) /\ Head(s) = s[1]
      /\ \A i \in 1..(n - 1) : t[i] = s[i + 1]
  BY LenProperties, HeadTailProperties, EmptySeq
<1>2. t \in Seq(Frames)
  BY HeadTailProperties
<1>. HIDE DEF n, t
<1>3. A \subseteq 1..n /\ B \subseteq 1..(n - 1)
  BY <1>1 DEF Hits
<1>4. \A i \in 1..(n - 1) : i + 1 \in 1..n /\ i + 1 # 1 /\ (i \in B <=> i + 1 \in A)
  BY <1>1 DEF Hits
<1>5. ASSUME NEW j \in A \ {1} PROVE \E i \in B : i + 1 = j
  <2>1. j - 1 \in 1..(n - 1) /\ (j - 1) + 1 = j
    BY <1>1, <1>3, <1>5
  <2>. QED  BY <1>4, <1>5, <2>1
<1>6. f \in Bijection(B, A \ {1})
  <2>. HIDE DEF A, B
  <2>1. \A i \in B : i + 1 \in A \ {1}
    BY <1>3, <1>4
  <2>2. f \in [B -> A \ {1}]
    BY <2>1
  <2>3. \A i, j \in B : f[i] = f[j] => i = j
    BY <1>1, <1>3
  <2>4. \A j \in A \ {1} : \E i \in B : f[i] = j
    BY <1>5
  <2>. HIDE DEF f
  <2>. QED  BY <2>2, <2>3, <2>4, Fun_IsBij
<1>7. Cardinality(A \ {1}) = Cardinality(B)
  <2>1. IsFiniteSet(B)
    BY <1>2, HitsAreFinite
  <2>2. ExistsBijection(B, A \ {1})
    BY <1>6 DEF ExistsBijection
  <2>. QED  BY <2>1, <2>2, FS_Bijection
<1>8. Cardinality(A \ {1}) = IF 1 \in A THEN Cardinality(A) - 1 ELSE Cardinality(A)
  BY HitsAreFinite, FS_RemoveElement
<1>9. 1 \in A <=> Head(s).type = type /\ Head(s).of = r
  BY <1>1 DEF Hits
<1>10. /\ Count(s, type, r) = Cardinality(A) /\ Count(s, type, r) \in Nat
       /\ Count(t, type, r) = Cardinality(B) /\ Count(t, type, r) \in Nat
  BY <1>2, HitsAreFinite
<1>. HIDE DEF A, B
<1>. QED  BY <1>7, <1>8, <1>9, <1>10 DEF Hit, One, t

-----------------------------------------------------------------------------
(* Credits: where the chunks of a response and the credits for them are.   *)

Serves(r) == local[r] # "none"
HeldUp(g) == gwLoop[g].step = "waiting"

\* The tunnel of the connection is open, and what is read from it is for
\* streams it has listed; no request is of a connection to come.
TunnelInv ==
  /\ open => tun[gen] = "open"
  /\ tun \in [Gens -> {"none", "open", "closed", "gone"}]
  /\ registry <= gen
  /\ \A r \in Streams :
       /\ Started(r) => req[r].gen <= gen
       /\ req[r].step = "pump" /\ tun[req[r].gen] = "open" => r \in listed
  /\ \A g \in Gens :
       HeldUp(g) => Started(gwLoop[g].to) /\ req[gwLoop[g].to].gen = g


LEMMA HeldUpFacts ==
  ASSUME HandsInv, NEW g \in Gens, HeldUp(g)
  PROVE  /\ gwLoop[g].frame \in Frames /\ gwLoop[g].to = gwLoop[g].frame.of
         /\ gwLoop[g].to \in Streams
  BY HandFacts, FrameFacts DEF HandsInv, HeldUp

LEMMA NotHeldUp ==
  /\ Reading.step # "waiting"
  /\ \A r, f : /\ Holding("waiting", r, f).step = "waiting"
               /\ Holding("waiting", r, f).to = r
               /\ Holding("waiting", r, f).frame = f
  BY DEF Reading, Holding

\* What ProxyHTTP does to its request.
LEMMA RequestMoves ==
  ASSUME RequestInv, NEW r \in Streams, OpenStream(r) \/ TakeFrame(r) \/ TimeOut(r)
  PROVE  /\ \A s \in Streams \ {r} : req'[s] = req[s]
         /\ listed \ {r} \subseteq listed' /\ UNCHANGED <<gen, open, tun, registry, gwLoop>>
         /\ \/ /\ req'[r].step = "pump" /\ r \in listed' /\ ~Started(r)
               /\ req'[r].gen = registry /\ registry # 0
            \/ req'[r].step = "done" /\ ~Started(r) /\ req'[r].gen = registry
            \/ req'[r].step = "done" /\ Started(r) /\ req'[r].gen = req[r].gen
            \/ /\ req'[r].step = "pump" /\ req[r].step = "pump"
               /\ req'[r].gen = req[r].gen /\ UNCHANGED listed
<1>1. req[r] \in Requests
  BY DEF RequestInv
<1>2. CASE OpenStream(r)
  <2>1. PICK v : v = [req[r] EXCEPT !.gen = registry, !.id = nextID[registry] + 1]
    OBVIOUS
  <2>2. "step" \in DOMAIN v /\ "gen" \in DOMAIN v /\ v.gen = registry
    BY <1>1, <2>1 DEF Requests
  <2>3. PICK step \in {"pump", "done"} :
          /\ req' = [req EXCEPT ![r] = [v EXCEPT !.step = step]]
          /\ listed' = IF step = "pump" THEN listed \cup {r} ELSE listed
    BY <1>2, <2>1 DEF OpenStream
  <2>4. req'[r].step = step /\ req'[r].gen = registry
    BY <2>2, <2>3 DEF RequestInv
  <2>5. /\ ~Started(r) /\ registry # 0 /\ UNCHANGED <<gen, open, tun, registry, gwLoop>>
        /\ \A s \in Streams \ {r} : req'[s] = req[s]
    BY <1>2, <2>3 DEF OpenStream, Started, RequestInv
  <2>. QED  BY <2>3, <2>4, <2>5
<1>3. CASE TakeFrame(r) \/ TimeOut(r)
  <2>1. req[r].step = "pump" /\ Started(r) /\ UNCHANGED <<gen, open, tun, registry, gwLoop>>
    BY <1>3 DEF TakeFrame, TimeOut, tunnelVars, Started
  <2>2. CASE \E left : Return(r, left)
    <3>1. /\ req' = [req EXCEPT ![r] = [req[r] EXCEPT !.step = "done", !.started = FALSE]]
          /\ listed' = listed \ {r}
      BY <2>2 DEF Return
    <3>2. req'[r].step = "done" /\ req'[r].gen = req[r].gen
      BY <1>1, <3>1 DEF RequestInv, Requests
    <3>. QED  BY <2>1, <3>1, <3>2 DEF RequestInv
  <2>3. CASE UNCHANGED <<req, listed>>
    BY <2>1, <2>3
  <2>4. CASE req' = [req EXCEPT ![r].started = TRUE] /\ UNCHANGED listed
    <3>1. req'[r].step = "pump" /\ req'[r].gen = req[r].gen
      BY <1>1, <2>1, <2>4 DEF RequestInv, Requests
    <3>. QED  BY <2>1, <2>4, <3>1 DEF RequestInv
  <2>. QED  BY <1>3, <2>2, <2>3, <2>4 DEF TakeFrame, TimeOut, Flush
<1>. QED  BY <1>2, <1>3

LEMMA TunnelKept ==
  ASSUME IInv, TunnelInv, RequestInv', Kept, Next
  PROVE  TunnelInv'
<1>. USE DEF IInv
<1>1. ASSUME UNCHANGED <<gen, tun, registry, req, gwLoop>>, open' => open,
             listed \subseteq listed'
      PROVE  TunnelInv'
  BY <1>1 DEF TunnelInv, Started, HeldUp
<1>0. gen \in Nat /\ registry \in Nat /\ \A r \in Streams : req[r].gen \in Nat
  BY TunnelAssumption DEF RequestInv, Requests, Gens, TunnelAssumption
<1>2. ASSUME NEW r \in Streams, OpenStream(r) \/ TakeFrame(r) \/ TimeOut(r)
      PROVE  TunnelInv'
  <2>1. \A s \in Streams : Started(s)' => req'[s].gen <= gen
    BY <1>0, <1>2, RequestMoves DEF TunnelInv, Started
  <2>2. \A s \in Streams :
          req'[s].step = "pump" /\ tun[req'[s].gen] = "open" => s \in listed'
    BY <1>2, RequestMoves DEF TunnelInv
  <2>3. UNCHANGED <<gen, open, tun, registry, gwLoop>>
    BY <1>2, RequestMoves
  <2>4. \A g \in Gens :
          HeldUp(g) => Started(gwLoop[g].to)' /\ req'[gwLoop[g].to].gen = g
    BY <2>3, HeldUpFacts DEF TunnelInv, Kept
  <2>. QED  BY <2>1, <2>2, <2>3, <2>4 DEF TunnelInv, HeldUp
<1>3. ASSUME NEW r \in Streams, Expire(r) \/ Send(r) \/ Serve(r)
      PROVE  TunnelInv'
  <2>1. UNCHANGED <<gen, open, tun, registry, req, gwLoop, listed>>
    BY <1>3 DEF Expire, Send, SendBody, CancelBody, EndBody, senderUnchanged, Serve,
       RefuseTarget, Respond, Fail, SendResponse, DropResponse, EndResponse, Remove,
       localUnchanged, connVars, gatewayVars, tunnelVars, requestVars
  <2>. QED  BY <1>1, <2>1
<1>4. CASE \/ HandleReqStart \/ HandleReqBody \/ HandleReqEnd \/ HandleCredit
           \/ CancelStream \/ Fed \/ LoseConnection
  <2>1. UNCHANGED <<gen, tun, registry, req, gwLoop, listed>> /\ (open' => open)
    BY <1>4 DEF HandleReqStart, HandleReqBody, HandleReqEnd, HandleCredit, CancelStream,
       Fed, LoseConnection, readUnchanged, connVars, gatewayVars, tunnelVars, requestVars
  <2>. QED  BY <1>1, <2>1
<1>5. CASE Dispatch
  <2>1. UNCHANGED <<gen, open, tun, registry, req, listed>> /\ gen \in Gens
    BY <1>5 DEF Dispatch, RequestInv
  <2>2. \/ UNCHANGED gwLoop
        \/ \E r \in Stream(Head(toGateway).id) :
             gwLoop' = [gwLoop EXCEPT ![gen] = Holding("waiting", r, Head(toGateway))]
    BY <1>5 DEF Dispatch
  <2>3. ASSUME NEW r \in Stream(Head(toGateway).id),
               gwLoop' = [gwLoop EXCEPT ![gen] = Holding("waiting", r, Head(toGateway))]
        PROVE  TunnelInv'
    <3>1. Started(r) /\ req[r].gen = gen
      BY DEF Stream, TableInv
    <3>2. \A g \in Gens : HeldUp(g)' => Started(gwLoop'[g].to) /\ req[gwLoop'[g].to].gen = g
      BY <2>1, <2>3, <3>1, NotHeldUp DEF HeldUp, TunnelInv, HandsInv
    <3>. QED  BY <2>1, <3>2 DEF TunnelInv, Started
  <2>. QED  BY <1>1, <2>1, <2>2, <2>3
<1>6. ASSUME NEW g \in Gens, Deliver(g) PROVE TunnelInv'
  <2>1. /\ UNCHANGED <<gen, open, tun, registry, req, listed>>
        /\ gwLoop' = [gwLoop EXCEPT ![g] = Reading]
    BY <1>6 DEF Deliver, connVars
  <2>2. \A h \in Gens : HeldUp(h)' => HeldUp(h) /\ gwLoop'[h] = gwLoop[h]
    BY <2>1, NotHeldUp DEF HeldUp, HandsInv
  <2>. QED  BY <2>1, <2>2 DEF TunnelInv, Started
<1>7. ASSUME NEW g \in Gens, CloseTunnel(g) PROVE TunnelInv'
  <2>1. /\ UNCHANGED <<gen, open, registry, req, gwLoop>> /\ (open => g # gen)
        /\ tun' = [tun EXCEPT ![g] = "closed"]
        /\ listed' = listed \ {r \in listed : req[r].gen = g}
    BY <1>0, <1>7 DEF CloseTunnel, connVars
  <2>2. \A h \in Gens : tun'[h] = "open" => tun[h] = "open" /\ h # g
    BY <2>1 DEF TunnelInv
  <2>3. open => tun'[gen] = "open"
    BY <2>1 DEF TunnelInv, RequestInv
  <2>4. \A r \in Streams : req[r].step = "pump" /\ tun'[req[r].gen] = "open" => r \in listed'
    BY <2>1, <2>2 DEF TunnelInv, RequestInv, Started
  <2>. QED  BY <2>1, <2>3, <2>4 DEF TunnelInv, Started, HeldUp
<1>8. ASSUME NEW g \in Gens, Unregister(g) PROVE TunnelInv'
  <2>1. /\ UNCHANGED <<gen, open, req, gwLoop, listed>> /\ tun[g] # "open"
        /\ tun' = [tun EXCEPT ![g] = "gone"] /\ registry' \in {registry, 0}
    BY <1>8 DEF Unregister, connVars, requestVars
  <2>2. \A h \in Gens : tun'[h] = "open" <=> tun[h] = "open"
    BY <2>1 DEF TunnelInv
  <2>3. \A r \in Streams : req[r].step = "pump" /\ tun'[req[r].gen] = "open" => r \in listed
    BY <2>2 DEF TunnelInv, RequestInv, Started
  <2>. QED  BY <1>0, <2>1, <2>2, <2>3 DEF TunnelInv, Started, HeldUp, RequestInv
<1>9. CASE Reconnect
  <2>1. /\ UNCHANGED <<req, gwLoop, listed>> /\ gen' = gen + 1 /\ registry' = gen + 1
        /\ tun' = [tun EXCEPT ![gen + 1] = "open"] /\ gen' \in Gens
    BY <1>9 DEF Reconnect, requestVars, RequestInv
  <2>2. tun'[gen'] = "open" /\ \A h \in Gens \ {gen + 1} : tun'[h] = tun[h]
    BY <2>1 DEF TunnelInv
  <2>3. \A r \in Streams : Started(r) => req[r].gen <= gen + 1 /\ req[r].gen # gen + 1
    BY <1>0 DEF TunnelInv
  <2>4. \A r \in Streams : req[r].step = "pump" /\ tun'[req[r].gen] = "open" => r \in listed
    BY <2>2, <2>3 DEF TunnelInv, RequestInv, Started
  <2>. QED  BY <1>0, <2>1, <2>2, <2>3, <2>4 DEF TunnelInv, Started, HeldUp
<1>. QED  BY <1>2, <1>3, <1>4, <1>5, <1>6, <1>7, <1>8, <1>9
          DEF Next, Proxy, Gateway, Runner

\* What is on its way to the runner.
Down(q) ==
  /\ \A i \in DOMAIN q : /\ q[i].type = "start" => ~Serves(q[i].of)
                         /\ q[i].type = "credit" => Serves(q[i].of)
  /\ \A i, j \in DOMAIN q :
       q[i].type = "start" /\ q[j].type = "start" /\ q[i].of = q[j].of => i = j

LEMMA DownAppended ==
  ASSUME NEW q \in Seq(Frames), NEW f \in Frames, Down(q), UNCHANGED local,
         f.type = "credit" => Serves(f.of),
         f.type = "start" => ~Serves(f.of) /\ \A i \in DOMAIN q : q[i].of # f.of
  PROVE  Down(Append(q, f))'
<1>. DEFINE n == Len(q)
            t == Append(q, f)
<1>1. /\ n \in Nat /\ DOMAIN q = 1..n /\ DOMAIN t = 1..(n + 1) /\ t[n + 1] = f
      /\ \A i \in 1..n : t[i] = q[i]
  BY LenProperties, AppendProperties
<1>. HIDE DEF n, t
<1>2. \A i \in DOMAIN t : (i \in DOMAIN q /\ t[i] = q[i]) \/ (i = n + 1 /\ t[i] = f)
  BY <1>1
<1>3. Down(t)'
  BY <1>2 DEF Down, Serves
<1>. QED  BY <1>3 DEF t

\* The frame that is taken off may be the start of a stream's service.
LEMMA DownTaken ==
  ASSUME NEW q \in Seq(Frames), q # <<>>, Down(q),
         \A r \in Streams : Serves(r) => Serves(r)',
         \A r \in Streams :
           Serves(r)' => Serves(r) \/ (Head(q).type = "start" /\ Head(q).of = r)
  PROVE  Down(Tail(q))'
<1>. DEFINE n == Len(q)
            t == Tail(q)
<1>1. /\ n \in Nat \ {0} /\ DOMAIN q = 1..n /\ DOMAIN t = 1..(n - 1) /\ Head(q) = q[1]
      /\ \A i \in 1..(n - 1) : t[i] = q[i + 1]
  BY LenProperties, HeadTailProperties, EmptySeq
<1>2. \A i \in DOMAIN q : q[i].of \in Streams
  BY ElementOfSeq, LenProperties, FrameFacts
<1>. HIDE DEF n, t
<1>3. \A i \in DOMAIN t : /\ i + 1 \in DOMAIN q /\ i + 1 # 1 /\ 1 \in DOMAIN q
                          /\ t[i] = q[i + 1] /\ i \in Nat
  BY <1>1
<1>4. ASSUME NEW i \in DOMAIN t, t[i].type = "start" PROVE ~Serves(t[i].of)'
  <2>1. ~Serves(q[i + 1].of) /\ q[i + 1].type = "start"
    BY <1>3, <1>4 DEF Down
  <2>2. ~(q[1].type = "start" /\ q[1].of = q[i + 1].of)
    BY <1>3, <2>1 DEF Down
  <2>. QED  BY <1>1, <1>2, <1>3, <2>1, <2>2
<1>5. ASSUME NEW i \in DOMAIN t, t[i].type = "credit" PROVE Serves(t[i].of)'
  BY <1>2, <1>3, <1>5 DEF Down
<1>6. ASSUME NEW i \in DOMAIN t, NEW j \in DOMAIN t, t[i].type = "start",
             t[j].type = "start", t[i].of = t[j].of
      PROVE  i = j
  <2>1. i + 1 = j + 1
    BY <1>3, <1>6 DEF Down
  <2>. QED  BY <1>3, <2>1
<1>7. Down(t)'
  BY <1>4, <1>5, <1>6 DEF Down
<1>. QED  BY <1>7 DEF t

\* What is on its way to the gateway is of streams that are or were served.
Up(q) == \A i \in DOMAIN q : Serves(q[i].of)

LEMMA UpMoves ==
  ASSUME NEW q \in Seq(Frames), NEW p, Up(q),
         \A r \in Streams : Serves(r) => Serves(r)',
         \/ p = <<>> \/ p = q
         \/ q # <<>> /\ p = Tail(q)
         \/ \E f \in Frames : Serves(f.of)' /\ p = Append(q, f)
  PROVE  Up(p)'
<1>1. \A i \in DOMAIN q : q[i].of \in Streams
  BY ElementOfSeq, LenProperties, FrameFacts
<1>2. CASE p = <<>> \/ p = q
  BY <1>1, <1>2 DEF Up
<1>3. CASE q # <<>> /\ p = Tail(q)
  <2>1. \A i \in DOMAIN p : i + 1 \in DOMAIN q /\ p[i] = q[i + 1]
    BY <1>3, LenProperties, HeadTailProperties
  <2>. QED  BY <1>1, <2>1 DEF Up
<1>4. CASE \E f \in Frames : Serves(f.of)' /\ p = Append(q, f)
  <2>. PICK f \in Frames : Serves(f.of)' /\ p = Append(q, f)
    BY <1>4
  <2>1. \A i \in DOMAIN p : (i \in DOMAIN q /\ p[i] = q[i]) \/ p[i] = f
    BY LenProperties, AppendProperties
  <2>. QED  BY <1>1, <2>1 DEF Up
<1>. QED  BY <1>2, <1>3, <1>4

\* A stream is served once, from its start frame on; before that it has no
\* frames and all its credits.
ForServed(g) == HeldUp(g) => Serves(gwLoop[g].to)
FreshInv ==
  /\ Down(toRunner) /\ Up(toGateway)
  /\ \A g \in Gens : ForServed(g)
  /\ \A r \in Streams :
       /\ r \in table => Serves(r)
       /\ \A i \in DOMAIN respCh[r] : respCh[r][i].type = "body" => Serves(r)
       /\ ~Serves(r) => win["resp"][r].avail = Window

\* Nothing but its start frame makes the runner serve a stream.
ServiceKept ==
  /\ \A r \in Streams : Serves(r) => Serves(r)'
  /\ \A r \in Streams : r \in table' => r \in table \/ Serves(r)'

LEMMA FreshParts ==
  ASSUME FreshInv, ServiceKept, Down(toRunner)', Up(toGateway)',
         \A g \in Gens :
           ForServed(g)' \/ (gwLoop'[g] = gwLoop[g] /\ (HeldUp(g) => gwLoop[g].to \in Streams)),
         \A r \in Streams : \A i \in DOMAIN respCh'[r] :
           respCh'[r][i].type = "body" =>
             Serves(r)' \/ \E j \in DOMAIN respCh[r] : respCh[r][j].type = "body",
         \A r \in Streams :
           ~Serves(r)' => win'["resp"][r].avail = win["resp"][r].avail
  PROVE  FreshInv'
<1>1. ASSUME NEW g \in Gens PROVE ForServed(g)'
  <2>1. CASE gwLoop'[g] = gwLoop[g] /\ (HeldUp(g) => gwLoop[g].to \in Streams)
    BY <2>1 DEF FreshInv, ServiceKept, ForServed, HeldUp, Serves
  <2>. QED  BY <2>1
<1>2. ASSUME NEW r \in Streams
      PROVE  /\ r \in table' => Serves(r)'
             /\ \A i \in DOMAIN respCh'[r] : respCh'[r][i].type = "body" => Serves(r)'
             /\ ~Serves(r)' => win'["resp"][r].avail = Window
  <2>1. r \in table' => Serves(r)'
    BY DEF FreshInv, ServiceKept
  <2>2. ASSUME NEW i \in DOMAIN respCh'[r], respCh'[r][i].type = "body"
        PROVE  Serves(r)'
    BY <2>2 DEF FreshInv, ServiceKept
  <2>3. ~Serves(r)' => win'["resp"][r].avail = Window
    BY DEF FreshInv, ServiceKept
  <2>. QED  BY <2>1, <2>2, <2>3
<1>. QED  BY <1>1, <1>2 DEF FreshInv

LEMMA ServicesKept ==
  ASSUME IInv, Next
  PROVE  /\ ServiceKept
         /\ \/ UNCHANGED local
            \/ \A r \in Streams : Serves(r)' <=> Serves(r)
            \/ HandleReqStart
<1>. USE DEF IInv
<1>1. ASSUME UNCHANGED local, table' \subseteq table
      PROVE  ServiceKept
  BY <1>1 DEF ServiceKept, Serves
<1>2. ASSUME NEW r \in Streams, Serve(r)
      PROVE  ServiceKept /\ \A s \in Streams : Serves(s)' <=> Serves(s)
  <2>1. PICK step \in {local[r], "response", "done"} :
          local' = [local EXCEPT ![r] = step] /\ local[r] # "none"
    BY <1>2 DEF Serve, RefuseTarget, Respond, Fail, SendResponse, DropResponse,
       EndResponse, Remove, TableInv
  <2>2. table' \subseteq table
    BY <1>2 DEF Serve, RefuseTarget, Respond, Fail, SendResponse, DropResponse,
       EndResponse, Remove
  <2>. QED  BY <2>1, <2>2 DEF ServiceKept, Serves, TableInv
<1>3. CASE HandleReqStart
  <2>1. PICK s \in Streams : s = Head(toRunner).of
    BY <1>3, NextFrame DEF HandleReqStart, Read, WireInv
  <2>2. PICK step \in {"request", "refused"} : local' = [local EXCEPT ![s] = step]
    BY <1>3, <2>1 DEF HandleReqStart
  <2>3. table' \subseteq table \cup {s}
    BY <1>3, <2>1 DEF HandleReqStart
  <2>. QED  BY <1>3, <2>2, <2>3 DEF ServiceKept, Serves, TableInv
<1>4. ASSUME ~HandleReqStart, ~(\E r \in Streams : Serve(r))
      PROVE  UNCHANGED local /\ table' \subseteq table
  <2>1. ASSUME NEW r \in Streams, Proxy(r) \/ Send(r)
        PROVE  UNCHANGED <<local, table>>
    BY <2>1 DEF Proxy, OpenStream, TakeFrame, Expire, TimeOut, Send, SendBody, CancelBody,
       EndBody, senderUnchanged, runnerVars, localVars
  <2>2. ASSUME Dispatch \/ LoseConnection \/ \E g \in Gens : Gateway(g)
        PROVE  UNCHANGED <<local, table>>
    BY <2>2 DEF Dispatch, LoseConnection, Gateway, Deliver, CloseTunnel, Unregister,
       runnerVars, localVars
  <2>3. ASSUME Runner PROVE UNCHANGED local /\ table' \subseteq table
    BY <1>4, <2>3 DEF Runner, HandleReqBody, HandleReqEnd, HandleCredit, CancelStream,
       Fed, Reconnect, localVars
  <2>. QED  BY <1>4, <2>1, <2>2, <2>3 DEF Next
<1>. QED  BY <1>1, <1>2, <1>3, <1>4

\* What the steps write to the wire, and what they leave of what they hand on.
LEMMA FreshKept ==
  ASSUME IInv, FreshInv, RequestInv', Kept, Next
  PROVE  FreshInv'
<1>. USE DEF IInv
<1>0. /\ ServiceKept
      /\ \/ UNCHANGED local
         \/ \A r \in Streams : Serves(r)' <=> Serves(r)
         \/ HandleReqStart
      /\ toRunner \in Seq(Frames) /\ toGateway \in Seq(Frames)
  BY ServicesKept DEF WireInv, Wire
<1>1. /\ Down(toRunner) /\ Up(toGateway) /\ \A g \in Gens : ForServed(g)
      /\ \A r \in Streams : /\ r \in table => Serves(r)
                            /\ \A i \in DOMAIN respCh[r] : respCh[r][i].type = "body" => Serves(r)
      /\ \A r \in Streams : Serves(r) => Serves(r)'
  BY <1>0 DEF FreshInv, ServiceKept
\* Parts that most steps leave alone.
<1>2. UNCHANGED toGateway => Up(toGateway)'
  BY <1>0, <1>1, UpMoves
<1>3. UNCHANGED <<toRunner, local>> => Down(toRunner)'
  BY <1>1 DEF Down, Serves
<1>4. ASSUME NEW r \in Streams, NEW type \in Types \ {"start"}, Put(r, type),
             type = "credit" => Serves(r), UNCHANGED local
      PROVE  Down(toRunner)'
  <2>1. req[r].id \in Nat
    BY DEF RequestInv, Requests
  <2>. PICK f \in Frames : f = Frame(type, req[r].id, r) /\ f.of = r /\ f.type = type
    BY <2>1, FrameFacts DEF Frame
  <2>2. UNCHANGED toRunner \/ toRunner' = Append(toRunner, f)
    BY <1>4 DEF Put
  <2>. QED  BY <1>0, <1>1, <1>3, <1>4, <2>2, DownAppended
<1>5. ASSUME NEW r \in Streams, NEW type \in Types, Say(r, type), Serves(r)
      PROVE  Up(toGateway)'
  <2>1. req[r].id \in Nat
    BY DEF RequestInv, Requests
  <2>. PICK f \in Frames : f = Frame(type, req[r].id, r) /\ f.of = r
    BY <2>1, FrameFacts
  <2>2. UNCHANGED toGateway \/ toGateway' = Append(toGateway, f)
    BY <1>5 DEF Say
  <2>. QED  BY <1>0, <1>1, <1>5, <2>2, UpMoves
<1>6. ASSUME NEW type, Read(type), UNCHANGED local
      PROVE  Down(toRunner)'
  BY <1>0, <1>1, <1>6, DownTaken DEF Read, Serves
<1>7. UNCHANGED gwLoop =>
        \A g \in Gens : gwLoop'[g] = gwLoop[g] /\ (HeldUp(g) => gwLoop[g].to \in Streams)
  BY HeldUpFacts
<1>. DEFINE Chunks == \A r \in Streams : \A i \in DOMAIN respCh'[r] :
                        respCh'[r][i].type = "body" =>
                          Serves(r)' \/ \E j \in DOMAIN respCh[r] : respCh[r][j].type = "body"
            Credits == \A r \in Streams :
                         ~Serves(r)' => win'["resp"][r].avail = win["resp"][r].avail
<1>8. UNCHANGED respCh => Chunks
  OBVIOUS
<1>9. UNCHANGED win => Credits
  OBVIOUS
<1>10. ASSUME NEW d \in Directions, NEW S \in SUBSET Streams, CloseWindows(d, S),
              d = "req" \/ S \subseteq table
       PROVE  Credits
  BY <1>0, <1>1, <1>10 DEF CloseWindows, SleepInv, WindowsOK, Directions, ServiceKept
<1>. HIDE DEF Chunks, Credits
<1>. USE DEF Types
<1>11. ASSUME NEW r \in Streams, OpenStream(r) PROVE FreshInv'
  <2>1. UNCHANGED <<toGateway, gwLoop, respCh, local, table>>
    BY <1>11 DEF OpenStream, runnerVars, localVars
  <2>2. Credits
    BY <1>9, <1>10, <1>11 DEF OpenStream, Directions
  <2>3. Down(toRunner)'
    <3>. PICK id \in Nat : id = nextID[registry] + 1
      BY <1>11 DEF OpenStream, RequestInv
    <3>. PICK f : f = Frame("start", id, r)
      OBVIOUS
    <3>0. f \in Frames /\ f.of = r /\ f.type = "start"
      BY DEF Frame, Frames
    <3>1. UNCHANGED toRunner \/ toRunner' = Append(toRunner, f)
      BY <1>11 DEF OpenStream
    <3>2. ~Serves(r) /\ \A i \in DOMAIN toRunner : toRunner[i].of # r
      <4>1. ~Started(r)
        BY <1>11 DEF OpenStream, Started
      <4>. QED  BY <4>1 DEF TableInv, WireInv, Wire, Carries, Serves
    <3>. QED  BY <1>0, <1>1, <1>3, <2>1, <3>0, <3>1, <3>2, DownAppended
  <2>. QED  BY <1>0, <1>2, <1>7, <1>8, <2>1, <2>2, <2>3, FreshParts DEF Chunks, Credits
<1>12. ASSUME NEW r \in Streams, TakeFrame(r) \/ TimeOut(r) PROVE FreshInv'
  <2>1. UNCHANGED <<toGateway, gwLoop, local, table>>
    BY <1>12 DEF TakeFrame, TimeOut, tunnelVars, runnerVars, localVars
  <2>2. Credits
    <3>1. UNCHANGED win \/ CloseWindows("req", {r})
      BY <1>12 DEF TakeFrame, TimeOut, Flush, Return, windowVars
    <3>. QED  BY <1>9, <1>10, <3>1 DEF Directions
  <2>3. PICK q \in {respCh[r], Tail(respCh[r]), <<>>} :
          /\ respCh' = [respCh EXCEPT ![r] = q]
          /\ q # <<>> => respCh[r] # <<>>
    <3>1. CASE TakeFrame(r)
      <4>1. \/ respCh' = [respCh EXCEPT ![r] = Tail(respCh[r])]
            \/ respCh' = [respCh EXCEPT ![r] = <<>>]
        BY <3>1 DEF TakeFrame, Return
      <4>. QED  BY <3>1, <4>1 DEF TakeFrame
    <3>2. CASE TimeOut(r)
      BY <3>2 DEF TimeOut, Return
    <3>. QED  BY <1>12, <3>1, <3>2
  <2>4. \A i \in DOMAIN q : \E j \in DOMAIN respCh[r] : q[i] = respCh[r][j]
    <3>1. CASE q = <<>> \/ q = respCh[r]
      BY <3>1
    <3>2. CASE respCh[r] # <<>> /\ q = Tail(respCh[r])
      BY <3>2, HeadTailProperties, LenProperties DEF HandsInv
    <3>. QED  BY <2>3, <3>1, <3>2
  <2>5. Chunks
    BY <2>3, <2>4 DEF Chunks, HandsInv
  <2>6. Down(toRunner)'
    <3>1. CASE UNCHANGED toRunner \/ Put(r, "cancel")
      BY <1>3, <1>4, <2>1, <3>1
    <3>2. CASE TakeFrame(r) /\ Head(respCh[r]).type = "body" /\ Put(r, "credit")
      <4>1. 1 \in DOMAIN respCh[r] /\ Head(respCh[r]) = respCh[r][1]
        BY <3>2, EmptySeq, LenProperties DEF TakeFrame, HandsInv
      <4>2. Serves(r)
        BY <1>1, <3>2, <4>1
      <4>. QED  BY <1>4, <2>1, <3>2, <4>2
    <3>. QED  BY <1>12, <3>1, <3>2 DEF TakeFrame, TimeOut, Flush
  <2>. QED  BY <1>0, <1>2, <1>7, <2>1, <2>2, <2>5, <2>6, FreshParts DEF Chunks, Credits
<1>13. ASSUME NEW r \in Streams, Expire(r) \/ Send(r) PROVE FreshInv'
  <2>1. UNCHANGED <<toGateway, gwLoop, respCh, local, table>>
    BY <1>13 DEF Expire, Send, SendBody, CancelBody, EndBody, senderUnchanged, connVars,
       gatewayVars, tunnelVars, requestVars, runnerVars, localVars
  <2>2. win'["resp"] = win["resp"]
    BY <1>13 DEF Expire, Send, SendBody, CancelBody, EndBody, EndContext, Waiter, Acquire,
       RefuseAcquire, Sleep, SleepInv, WindowsOK, Directions
  <2>3. UNCHANGED toRunner \/ Put(r, "body") \/ Put(r, "cancel") \/ Put(r, "end")
    BY <1>13 DEF Expire, Send, SendBody, CancelBody, EndBody, connVars
  <2>4. Down(toRunner)'
    BY <1>3, <1>4, <2>1, <2>3
  <2>. QED  BY <1>0, <1>2, <1>7, <1>8, <2>1, <2>2, <2>4, FreshParts DEF Chunks
<1>14. ASSUME NEW r \in Streams, Serve(r) PROVE FreshInv'
  <2>1. UNCHANGED <<toRunner, gwLoop, respCh>> /\ Serves(r)
    BY <1>14 DEF Serve, RefuseTarget, Respond, Fail, SendResponse, DropResponse, EndResponse,
       Remove, localUnchanged, gatewayVars, tunnelVars, requestVars, Serves
  <2>2. Down(toRunner)'
    <3>1. \A s \in Streams : Serves(s)' <=> Serves(s)
      <4>1. ~HandleReqStart
        BY <1>14 DEF Serve, RefuseTarget, Respond, Fail, SendResponse, DropResponse,
           EndResponse, Remove, localUnchanged, HandleReqStart, Read, WireInv, Wire
      <4>. QED  BY <1>0, <4>1 DEF Serves
    <3>2. \A i \in DOMAIN toRunner : toRunner[i].of \in Streams
      BY <1>0, ElementOfSeq, LenProperties, FrameFacts
    <3>. QED  BY <1>1, <2>1, <3>1, <3>2 DEF Down
  <2>3. Up(toGateway)'
    <3>1. \/ UNCHANGED toGateway
          \/ \E type \in {"start", "body", "end", "error"} : Say(r, type)
      BY <1>14 DEF Serve, RefuseTarget, Respond, Fail, SendResponse, DropResponse, EndResponse
    <3>. QED  BY <1>2, <1>5, <2>1, <3>1
  <2>4. Credits
    <3>1. CASE CloseWindows("resp", At(req[r].id))
      <4>1. At(req[r].id) \in SUBSET Streams /\ At(req[r].id) \subseteq table
        BY DEF At, TableInv
      <4>. QED  BY <1>10, <3>1, <4>1 DEF Directions
    <3>2. CASE Acquire("resp", r) \/ Sleep("resp", r) \/ UNCHANGED win
      <4>1. \A s \in Streams \ {r} : win'["resp"][s] = win["resp"][s]
        BY <3>2 DEF Acquire, Sleep, Waiter, SleepInv, WindowsOK, Directions
      <4>. QED  BY <1>1, <2>1, <4>1 DEF Credits
    <3>. QED  BY <1>14, <3>1, <3>2 DEF Serve, RefuseTarget, Respond, Fail, SendResponse,
                  DropResponse, EndResponse, Remove, windowVars
  <2>. QED  BY <1>0, <1>7, <1>8, <2>1, <2>2, <2>3, <2>4, FreshParts DEF Chunks, Credits
<1>15. CASE Dispatch
  <2>. DEFINE f == Head(toGateway)
  <2>1. /\ UNCHANGED <<gen, toRunner, local, table, win>> /\ gen \in Gens
        /\ toGateway # <<>> /\ toGateway' = Tail(toGateway)
    BY <1>15 DEF Dispatch, runnerVars, localVars, windowVars, RequestInv
  <2>2. f \in Frames /\ f.of \in Streams /\ Stream(f.id) \subseteq {f.of}
    BY <2>1, NextFrame, FoundStream DEF WireInv
  <2>3. Serves(f.of)
    <3>1. 1 \in DOMAIN toGateway /\ f = toGateway[1]
      BY <1>0, <2>1, EmptySeq, LenProperties
    <3>. QED  BY <1>1, <3>1 DEF Up
  <2>4. Up(toGateway)'
    BY <1>0, <1>1, <2>1, UpMoves
  <2>5. CASE UNCHANGED gwLoop
    <3>1. Chunks
      <4>1. CASE UNCHANGED respCh
        BY <1>8, <4>1
      <4>2. CASE respCh' = [respCh EXCEPT ![f.of] = Append(@, f)]
        BY <1>1, <2>2, <2>3, <4>2 DEF Chunks, HandsInv
      <4>. QED  BY <1>15, <2>2, <2>5, <4>1, <4>2 DEF Dispatch
    <3>. QED  BY <1>0, <1>3, <1>7, <1>9, <2>1, <2>4, <2>5, <3>1, FreshParts DEF Chunks, Credits
  <2>6. CASE /\ gwLoop' = [gwLoop EXCEPT ![gen] = Holding("waiting", f.of, f)]
             /\ UNCHANGED respCh
    <3>. PICK l : l = Holding("waiting", f.of, f)
      OBVIOUS
    <3>0. /\ gwLoop'[gen] = l /\ l.to = f.of
          /\ \A g \in Gens \ {gen} : gwLoop'[g] = gwLoop[g]
      BY <2>1, <2>6, NotHeldUp DEF HandsInv
    <3>1. ForServed(gen)'
      BY <2>1, <2>3, <3>0 DEF ForServed, Serves
    <3>2. \A g \in Gens \ {gen} :
            gwLoop'[g] = gwLoop[g] /\ (HeldUp(g) => gwLoop[g].to \in Streams)
      BY <3>0, HeldUpFacts
    <3>. QED  BY <1>0, <1>3, <1>8, <1>9, <2>1, <2>4, <2>6, <3>1, <3>2, FreshParts
              DEF Chunks, Credits
  <2>. QED  BY <1>15, <2>2, <2>5, <2>6 DEF Dispatch
<1>16. ASSUME NEW g \in Gens, Deliver(g) PROVE FreshInv'
  <2>1. /\ UNCHANGED <<toRunner, toGateway, local, table, win>> /\ HeldUp(g)
        /\ gwLoop' = [gwLoop EXCEPT ![g] = Reading]
    BY <1>16 DEF Deliver, connVars, runnerVars, localVars, windowVars, HeldUp
  <2>2. gwLoop[g].to \in Streams /\ Serves(gwLoop[g].to)
    BY <1>1, <2>1, HeldUpFacts DEF ForServed
  <2>3. Chunks
    <3>1. \/ UNCHANGED respCh
          \/ respCh' = [respCh EXCEPT ![gwLoop[g].to] = Append(@, gwLoop[g].frame)]
      BY <1>16 DEF Deliver
    <3>. QED  BY <1>1, <2>2, <3>1 DEF Chunks, HandsInv
  <2>4. \A h \in Gens : \/ ForServed(h)'
                        \/ /\ gwLoop'[h] = gwLoop[h]
                           /\ HeldUp(h) => gwLoop[h].to \in Streams
    BY <2>1, NotHeldUp, HeldUpFacts DEF ForServed, HeldUp, HandsInv
  <2>. QED  BY <1>0, <1>2, <1>3, <1>9, <2>1, <2>3, <2>4, FreshParts DEF Chunks, Credits
<1>17. ASSUME NEW g \in Gens, CloseTunnel(g) PROVE FreshInv'
  <2>1. UNCHANGED <<toRunner, toGateway, gwLoop, local, table>>
    BY <1>17 DEF CloseTunnel, connVars, runnerVars, localVars
  <2>2. Credits
    <3>. PICK S \in SUBSET Streams : S = {r \in listed : req[r].gen = g}
      BY DEF TableInv
    <3>1. CloseWindows("req", S)
      BY <1>17 DEF CloseTunnel
    <3>. QED  BY <1>10, <3>1 DEF Directions
  <2>3. Chunks
    <3>. SUFFICES ASSUME NEW r \in Streams, NEW i \in DOMAIN respCh'[r],
                         respCh'[r][i].type = "body"
                  PROVE  \E j \in DOMAIN respCh[r] : respCh[r][j].type = "body"
      BY DEF Chunks
    <3>1. req[r].id \in Nat
      BY DEF RequestInv, Requests
    <3>. PICK f : f = Frame("error", req[r].id, r)
      OBVIOUS
    <3>0. f \in Frames /\ f.type = "error"
      BY <3>1 DEF Frame, Frames
    <3>2. respCh'[r] = respCh[r] \/ respCh'[r] = Append(respCh[r], f)
      BY <1>17 DEF CloseTunnel
    <3>3. respCh'[r] = Append(respCh[r], f) =>
            \/ i \in DOMAIN respCh[r] /\ respCh'[r][i] = respCh[r][i]
            \/ respCh'[r][i] = f
      BY <3>0, AppendProperties, LenProperties DEF HandsInv
    <3>. QED  BY <3>0, <3>2, <3>3
  <2>. QED  BY <1>0, <1>2, <1>3, <1>7, <2>1, <2>2, <2>3, FreshParts DEF Chunks, Credits
<1>18. CASE (\E g \in Gens : Unregister(g)) \/ Fed
  <2>1. UNCHANGED <<toRunner, toGateway, local, table, win, respCh, gwLoop>>
    BY <1>18 DEF Unregister, Fed, windowVars, connVars, gatewayVars, tunnelVars,
       requestVars, runnerVars, localVars
  <2>. QED  BY <1>0, <1>2, <1>3, <1>7, <1>8, <1>9, <2>1, FreshParts DEF Chunks, Credits
<1>19. CASE HandleReqStart
  <2>1. UNCHANGED <<toGateway, win, respCh, gwLoop>>
    BY <1>19 DEF HandleReqStart, readUnchanged, windowVars, gatewayVars, tunnelVars,
       requestVars
  <2>. PICK s \in Streams : s = Head(toRunner).of
    BY <1>19, NextFrame DEF HandleReqStart, Read, WireInv
  <2>2. \A r \in Streams : Serves(r)' => Serves(r) \/ r = s
    BY <1>19 DEF HandleReqStart, Serves, TableInv
  <2>3. Down(toRunner)'
    BY <1>0, <1>1, <1>19, <2>2, DownTaken DEF HandleReqStart, Read
  <2>. QED  BY <1>0, <1>2, <1>7, <1>8, <1>9, <2>1, <2>3, FreshParts DEF Chunks, Credits
<1>20. CASE HandleReqBody \/ HandleReqEnd \/ HandleCredit \/ CancelStream
  <2>1. UNCHANGED <<toGateway, respCh, gwLoop, local>>
    BY <1>20 DEF HandleReqBody, HandleReqEnd, HandleCredit, CancelStream, readUnchanged,
       gatewayVars, tunnelVars, requestVars
  <2>2. Down(toRunner)'
    BY <1>6, <1>20, <2>1 DEF HandleReqBody, HandleReqEnd, HandleCredit, CancelStream
  <2>3. Target \in SUBSET Streams /\ Target \subseteq table
    BY DEF Target, At, TableInv
  <2>4. Credits
    <3>1. CASE UNCHANGED win
      BY <1>9, <3>1
    <3>2. CASE HandleCredit /\ \E r \in Target : AddCredit("resp", r)
      <4>. PICK r \in Target : AddCredit("resp", r)
        BY <3>2
      <4>1. \A q \in Streams \ {r} : win'["resp"][q] = win["resp"][q]
        BY DEF AddCredit, SleepInv, WindowsOK, Directions
      <4>. QED  BY <1>1, <2>1, <2>3, <4>1 DEF Credits, Serves
    <3>3. CASE CloseWindows("resp", Target)
      BY <1>10, <2>3, <3>3 DEF Directions
    <3>. QED  BY <1>20, <3>1, <3>2, <3>3 DEF HandleReqBody, HandleReqEnd, HandleCredit,
                  CancelStream, Abandon, windowVars
  <2>. QED  BY <1>0, <1>2, <1>7, <1>8, <2>1, <2>2, <2>4, FreshParts DEF Chunks, Credits
<1>21. CASE Reconnect \/ LoseConnection
  <2>1. UNCHANGED <<respCh, gwLoop, local>>
    BY <1>21 DEF Reconnect, LoseConnection, gatewayVars, tunnelVars, requestVars,
       runnerVars, localVars
  <2>2. /\ toRunner' = toRunner \/ toRunner' = <<>>
        /\ toGateway' = toGateway \/ toGateway' = <<>>
    BY <1>21 DEF Reconnect, LoseConnection
  <2>3. Down(toRunner)' /\ Up(toGateway)'
    BY <1>0, <1>1, <2>1, <2>2, UpMoves DEF Down, Serves
  <2>4. Credits
    <3>1. UNCHANGED win \/ CloseWindows("resp", table)
      BY <1>21 DEF Reconnect, LoseConnection, Abandon, windowVars
    <3>. QED  BY <1>9, <1>10, <3>1 DEF TableInv, Directions
  <2>. QED  BY <1>0, <1>7, <1>8, <2>1, <2>3, <2>4, FreshParts DEF Chunks, Credits
<1>. QED  BY <1>11, <1>12, <1>13, <1>14, <1>15, <1>16, <1>17, <1>18, <1>19, <1>20, <1>21
          DEF Next, Proxy, Gateway, Runner

-----------------------------------------------------------------------------
(* A credit is at one of four places: left in the window, on the wire as a *)
(* chunk, with the gateway, or on its way back.                            *)

Live(r) ==
  /\ OnWire(r) /\ req[r].step = "pump"
  /\ local[r] \in {"request", "response"} /\ r \in table
Avail(r) == win["resp"][r].avail
Held(r) == One(/\ gwLoop[gen].step = "waiting"
               /\ gwLoop[gen].frame.of = r /\ gwLoop[gen].frame.type = "body")
Returning(r) == Count(toRunner, "credit", r)
Balance(r) == Avail(r) + Underway(r) + Returning(r)

LEMMA CreditTypes ==
  ASSUME IInv, NEW r \in Streams
  PROVE  /\ Avail(r) \in Nat /\ Returning(r) \in Nat /\ Held(r) \in Nat
         /\ Count(toGateway, "body", r) \in Nat /\ Count(respCh[r], "body", r) \in Nat
         /\ Underway(r) = Count(toGateway, "body", r) + Count(respCh[r], "body", r) + Held(r)
         /\ Underway(r) \in Nat
         /\ toRunner \in Seq(Frames) /\ toGateway \in Seq(Frames) /\ respCh[r] \in Seq(Frames)
<1>. USE DEF IInv
<1>1. toRunner \in Seq(Frames) /\ toGateway \in Seq(Frames) /\ respCh[r] \in Seq(Frames)
  BY DEF WireInv, Wire, HandsInv
<1>2. Avail(r) \in Nat
  BY DEF SleepInv, WindowsOK, Directions, WindowState, Avail
<1>3. Held(r) \in Nat /\ Returning(r) \in Nat
      /\ Count(toGateway, "body", r) \in Nat /\ Count(respCh[r], "body", r) \in Nat
  BY <1>1, HitsAreFinite DEF Returning, Held, One
<1>4. Underway(r) = Count(toGateway, "body", r) + Count(respCh[r], "body", r) + Held(r)
  BY DEF Underway, Held
<1>5. Underway(r) \in Nat
  BY <1>3, <1>4
<1>. QED  BY <1>1, <1>2, <1>3, <1>4, <1>5

LEMMA CountNone ==
  ASSUME NEW s, NEW type, NEW r, \A i \in DOMAIN s : ~(s[i].type = type /\ s[i].of = r)
  PROVE  Count(s, type, r) = 0
<1>1. {i \in DOMAIN s : s[i].type = type /\ s[i].of = r} = {}
  OBVIOUS
<1>. QED  BY <1>1, FS_EmptySet DEF Count

\* What the steps on windows do to the credits of a stream.
LEMMA AvailMoves ==
  ASSUME WindowsOK, NEW r \in Streams
  PROVE  /\ \A S : CloseWindows("req", S) => Avail(r)' = Avail(r)
         /\ \A S : CloseWindows("resp", S) /\ r \notin S => Avail(r)' = Avail(r)
         /\ \A q \in Streams :
              /\ Sleep("resp", q) => Avail(r)' = Avail(r)
              /\ q # r /\ (Acquire("resp", q) \/ AddCredit("resp", q)) => Avail(r)' = Avail(r)
         /\ Acquire("resp", r) => Avail(r)' = Avail(r) - 1
         /\ AddCredit("resp", r) => Avail(r)' = Avail(r) + 1
<1>. "req" \in Directions /\ "resp" \in Directions
  BY DEF Directions
<1>1. \A S : CloseWindows("req", S) => Avail(r)' = Avail(r)
  BY DEF CloseWindows, WindowsOK, Avail
<1>2. \A S : CloseWindows("resp", S) /\ r \notin S => Avail(r)' = Avail(r)
  BY DEF CloseWindows, WindowsOK, Avail
<1>3. ASSUME NEW q \in Streams, Sleep("resp", q) PROVE Avail(r)' = Avail(r)
  BY <1>3 DEF Sleep, Waiter, WindowsOK, WindowState, Avail
<1>4. ASSUME NEW q \in Streams, q # r, Acquire("resp", q) \/ AddCredit("resp", q)
      PROVE  Avail(r)' = Avail(r)
  BY <1>4 DEF Acquire, AddCredit, WindowsOK, Avail
<1>5. Acquire("resp", r) => Avail(r)' = Avail(r) - 1
  BY DEF Acquire, WindowsOK, WindowState, Avail
<1>6. ASSUME AddCredit("resp", r) PROVE Avail(r)' = Avail(r) + 1
  <2>. PICK w \in WindowState : w = win["resp"][r]
    BY DEF WindowsOK
  <2>1. [w EXCEPT !.avail = w.avail + 1] \in WindowState
        /\ [w EXCEPT !.avail = w.avail + 1].avail = w.avail + 1
    BY DEF WindowState
  <2>2. \A v \in WindowState : Woken(v).avail = v.avail
    BY DEF Woken, WindowState
  <2>3. win'["resp"][r] = Woken([w EXCEPT !.avail = w.avail + 1])
    BY <1>6 DEF AddCredit, WindowsOK
  <2>. QED  BY <2>1, <2>2, <2>3 DEF Avail
<1>. QED  BY <1>1, <1>2, <1>3, <1>4, <1>5, <1>6

\* A stream comes to be served at both ends by its start frame only.
LEMMA LiveStreams ==
  ASSUME IInv, FreshInv, Kept, Next, NEW r \in Streams, Live(r)'
  PROVE  \/ Live(r) /\ UNCHANGED <<gen, open>>
         \/ HandleReqStart /\ Head(toRunner).of = r
<1>. USE DEF IInv
<1>1. ASSUME UNCHANGED <<req, gen, open>>, r \in table' => r \in table,
             local'[r] \in {"request", "response"} => local[r] \in {"request", "response"}
      PROVE  Live(r) /\ UNCHANGED <<gen, open>>
  BY <1>1 DEF Live, OnWire
<1>2. ASSUME NEW q \in Streams, OpenStream(q) \/ TakeFrame(q) \/ TimeOut(q)
      PROVE  Live(r) /\ UNCHANGED <<gen, open>>
  <2>1. UNCHANGED <<gen, open, local, table>>
    BY <1>2 DEF OpenStream, TakeFrame, TimeOut, runnerVars, localVars
  <2>2. Started(r)
    BY <2>1 DEF Live, TableInv
  <2>3. req[r].step = "pump"
    BY <1>2, <2>2, RequestMoves DEF Live, Started
  <2>. QED  BY <2>1, <2>2, <2>3 DEF Live, OnWire, Kept
<1>3. ASSUME NEW q \in Streams, Expire(q) \/ Send(q)
      PROVE  UNCHANGED <<req, gen, open, table, local>>
  BY <1>3 DEF Expire, Send, SendBody, CancelBody, EndBody, senderUnchanged, connVars,
     gatewayVars, requestVars, runnerVars, localVars
<1>4. ASSUME NEW q \in Streams, Serve(q)
      PROVE  Live(r) /\ UNCHANGED <<gen, open>>
  <2>1. UNCHANGED <<req, gen, open>> /\ table' \subseteq table
    BY <1>4 DEF Serve, RefuseTarget, Respond, Fail, SendResponse, DropResponse, EndResponse,
       Remove, localUnchanged, gatewayVars, requestVars
  <2>2. \/ UNCHANGED local \/ local' = [local EXCEPT ![q] = "done"]
        \/ local[q] = "request" /\ local' = [local EXCEPT ![q] = "response"]
    BY <1>4 DEF Serve, RefuseTarget, Respond, Fail, SendResponse, DropResponse, EndResponse,
       Remove
  <2>. QED  BY <1>1, <2>1, <2>2 DEF TableInv
<1>5. CASE \/ \E g \in Gens : Gateway(g)
           \/ Dispatch \/ HandleReqBody \/ HandleReqEnd \/ HandleCredit \/ CancelStream \/ Fed
  <2>1. UNCHANGED <<req, gen, open, local>> /\ table' \subseteq table
    BY <1>5 DEF Gateway, Deliver, CloseTunnel, Unregister, Dispatch, HandleReqBody,
       HandleReqEnd, HandleCredit, CancelStream, Fed, readUnchanged, connVars, gatewayVars,
       requestVars, runnerVars, localVars
  <2>. QED  BY <1>1, <2>1
<1>6. CASE HandleReqStart
  <2>. PICK s : s = Head(toRunner).of
    OBVIOUS
  <2>1. UNCHANGED <<req, gen, open>> /\ table' \subseteq table \cup {s}
    BY <1>6 DEF HandleReqStart, readUnchanged, gatewayVars, requestVars
  <2>2. r # s => local'[r] = local[r]
    BY <1>6 DEF HandleReqStart, TableInv
  <2>. QED  BY <1>1, <1>6, <2>1, <2>2
<1>7. CASE Reconnect \/ LoseConnection
  BY <1>7 DEF Reconnect, LoseConnection, Live, OnWire
<1>. QED  BY <1>1, <1>2, <1>3, <1>4, <1>5, <1>6, <1>7 DEF Next, Proxy, Runner

LEMMA HitFacts ==
  ASSUME NEW f, NEW type, NEW r
  PROVE  /\ Hit(f, type, r) \in Nat
         /\ f.type = type /\ f.of = r => Hit(f, type, r) = 1
         /\ f.type # type \/ f.of # r => Hit(f, type, r) = 0
  BY DEF Hit, One

\* What a write and a read do to the credits on their way back.
LEMMA ReturningMoves ==
  ASSUME IInv, NEW r \in Streams
  PROVE  /\ UNCHANGED toRunner => Returning(r)' = Returning(r)
         /\ \A f \in Frames : toRunner' = Append(toRunner, f) /\ f.type # "credit"
              => Returning(r)' = Returning(r)
         /\ \A q \in Streams, type \in Types :
              Put(q, type) /\ (q # r \/ type # "credit") => Returning(r)' = Returning(r)
         /\ Put(r, "credit") /\ OnWire(r) => Returning(r)' = Returning(r) + 1
         /\ \A type : Read(type) =>
              /\ Returning(r) = Returning(r)' + Hit(Head(toRunner), "credit", r)
              /\ Returning(r)' \in Nat
<1>0. toRunner \in Seq(Frames) /\ Returning(r) \in Nat
  BY CreditTypes
<1>. PICK p : p = toRunner' /\ Returning(r)' = Count(p, "credit", r)
  BY DEF Returning, Count
<1>1. UNCHANGED toRunner => Returning(r)' = Returning(r)
  BY DEF Returning
<1>2. ASSUME NEW q \in Streams, NEW type \in Types, Put(q, type)
      PROVE  /\ q # r \/ type # "credit" => Returning(r)' = Returning(r)
             /\ q = r /\ type = "credit" /\ OnWire(r) => Returning(r)' = Returning(r) + 1
  <2>. PICK f : f = Frame(type, req[q].id, q)
    OBVIOUS
  <2>1. f \in Frames /\ f.of = q /\ f.type = type
    BY DEF IInv, RequestInv, Requests, Frame, Frames
  <2>2. Count(Append(toRunner, f), "credit", r) = Returning(r) + Hit(f, "credit", r)
    BY <1>0, <2>1, CountAppend DEF Returning
  <2>3. UNCHANGED toRunner \/ p = Append(toRunner, f)
    BY <1>2 DEF Put
  <2>4. OnWire(q) => p = Append(toRunner, f)
    BY <1>2 DEF Put
  <2>. PICK hit \in {0, 1} :
          hit = Hit(f, "credit", r) /\ (hit = 1 <=> q = r /\ type = "credit")
    BY <2>1 DEF Hit, One
  <2>5. p = Append(toRunner, f) => Returning(r)' = Returning(r) + hit
    BY <2>2
  <2>. QED  BY <1>0, <1>1, <2>3, <2>4, <2>5
<1>3. ASSUME NEW type, Read(type)
      PROVE  /\ Returning(r) = Returning(r)' + Hit(Head(toRunner), "credit", r)
             /\ Returning(r)' \in Nat
  <2>1. p = Tail(toRunner) /\ toRunner # <<>> /\ p \in Seq(Frames)
    BY <1>0, <1>3, HeadTailProperties DEF Read
  <2>2. Count(toRunner, "credit", r) = Count(p, "credit", r) + Hit(Head(toRunner), "credit", r)
    BY <1>0, <2>1, CountTail
  <2>3. Returning(r) = Count(toRunner, "credit", r) /\ Count(p, "credit", r) \in Nat
    BY <2>1, HitsAreFinite DEF Returning
  <2>. QED  BY <2>2, <2>3
<1>4. ASSUME NEW f \in Frames, toRunner' = Append(toRunner, f), f.type # "credit"
      PROVE  Returning(r)' = Returning(r)
  <2>1. Count(Append(toRunner, f), "credit", r) = Returning(r) + 0
    BY <1>0, <1>4, CountAppend, HitFacts DEF Returning
  <2>. QED  BY <1>0, <1>4, <2>1
<1>. QED  BY <1>1, <1>2, <1>3, <1>4 DEF Types

\* What the gateway and the runner do to the chunks that are under way.
LEMMA UnderwayNow ==
  ASSUME NEW r, NEW p, NEW q, p = toGateway', q = respCh'[r]
  PROVE  /\ Underway(r)' = Count(p, "body", r) + Count(q, "body", r) + Held(r)'
         /\ Held(r)' \in Nat
  BY DEF Underway, Held, Count, One

LEMMA UnderwayKept ==
  ASSUME IInv, NEW r \in Streams, UNCHANGED <<toGateway, gen, gwLoop>>, respCh'[r] = respCh[r]
  PROVE  Underway(r)' = Underway(r)
  BY DEF Underway, Count, One

LEMMA UnderwaySaid ==
  ASSUME IInv, NEW r \in Streams, UNCHANGED <<gen, gwLoop, respCh>>,
         NEW q \in Streams, NEW type \in Types, Say(q, type)
  PROVE  /\ q # r \/ type # "body" => Underway(r)' = Underway(r)
         /\ q = r /\ type = "body" /\ OnWire(r) => Underway(r)' = Underway(r) + 1
<1>. PICK f : f = Frame(type, req[q].id, q)
  OBVIOUS
<1>1. f \in Frames /\ f.of = q /\ f.type = type
  BY DEF IInv, RequestInv, Requests, Frame, Frames
<1>2. Count(Append(toGateway, f), "body", r) = Count(toGateway, "body", r) + Hit(f, "body", r)
  BY <1>1, CountAppend, CreditTypes
<1>. PICK p : p = toGateway' /\ Count(toGateway, "body", r)' = Count(p, "body", r)
  BY DEF Count
<1>3. Underway(r)' = Count(p, "body", r) + Count(respCh[r], "body", r) + Held(r)
  BY DEF Underway, Held, Count, One
<1>4. UNCHANGED toGateway \/ p = Append(toGateway, f)
  BY DEF Say
<1>5. OnWire(q) => p = Append(toGateway, f)
  BY DEF Say
<1>6. UNCHANGED toGateway => Underway(r)' = Underway(r)
  BY UnderwayKept
<1>7. p = Append(toGateway, f) => Underway(r)' = Underway(r) + Hit(f, "body", r)
  <2>1. /\ Count(toGateway, "body", r) \in Nat /\ Count(respCh[r], "body", r) \in Nat
        /\ Held(r) \in Nat /\ Hit(f, "body", r) \in Nat
        /\ Underway(r) = Count(toGateway, "body", r) + Count(respCh[r], "body", r) + Held(r)
    BY CreditTypes, HitFacts
  <2>. QED  BY <1>2, <1>3, <2>1
<1>. PICK hit \in {0, 1} :
       hit = Hit(f, "body", r) /\ (hit = 1 <=> q = r /\ type = "body")
  BY <1>1 DEF Hit, One
<1>8. p = Append(toGateway, f) => Underway(r)' = Underway(r) + hit
  BY <1>7
<1>9. Underway(r) \in Nat
  BY CreditTypes
<1>. QED  BY <1>4, <1>5, <1>6, <1>8, <1>9

LEMMA CreditsKept ==
  ASSUME IInv, TunnelInv, FreshInv, CreditsConserved, Kept, Next
  PROVE  CreditsConserved'
<1>. SUFFICES ASSUME NEW r \in Streams, Live(r)' PROVE Balance(r)' = Window
  BY DEF CreditsConserved, Live, Balance, Avail, Returning
<1>1. CASE HandleReqStart /\ Head(toRunner).of = r
  <2>1. 1 \in DOMAIN toRunner /\ Head(toRunner) = toRunner[1]
    BY <1>1, CreditTypes, EmptySeq, LenProperties DEF HandleReqStart, Read
  <2>2. ~Serves(r)
    BY <1>1, <2>1 DEF FreshInv, Down, HandleReqStart, Read
  <2>3. Avail(r)' = Window
    BY <1>1, <2>2 DEF HandleReqStart, windowVars, FreshInv, Avail
  <2>4. Underway(r)' = 0
    <3>1. Count(toGateway, "body", r) = 0
      BY <2>2, CountNone DEF FreshInv, Up
    <3>2. Count(respCh[r], "body", r) = 0
      BY <2>2, CountNone DEF FreshInv
    <3>3. Held(r) = 0
      BY <2>2, HeldUpFacts DEF IInv, RequestInv, FreshInv, ForServed, Held, HeldUp, One
    <3>4. Underway(r) = 0
      BY <3>1, <3>2, <3>3, CreditTypes
    <3>. QED  BY <1>1, <3>4, UnderwayKept DEF HandleReqStart, readUnchanged, gatewayVars,
              tunnelVars, requestVars
  <2>5. Returning(r)' = 0
    <3>1. Returning(r) = 0
      BY <2>2, CountNone DEF FreshInv, Down, Returning
    <3>2. Hit(Head(toRunner), "credit", r) = 0
      BY <1>1, HitFacts DEF HandleReqStart, Read
    <3>. QED  BY <1>1, <3>1, <3>2, ReturningMoves DEF HandleReqStart, Returning
  <2>. QED  BY <2>3, <2>4, <2>5, WindowAssumption DEF Balance, WindowAssumption
<1>. SUFFICES ASSUME ~(HandleReqStart /\ Head(toRunner).of = r)
              PROVE  Balance(r)' = Window
  BY <1>1
<1>2. Live(r) /\ UNCHANGED <<gen, open>>
  BY LiveStreams
<1>3. Avail(r) + Underway(r) + Returning(r) = Window
  BY <1>2 DEF CreditsConserved, Live, Avail, Returning
<1>4. Avail(r) \in Nat /\ Underway(r) \in Nat /\ Returning(r) \in Nat /\ WindowsOK
  BY CreditTypes DEF IInv, SleepInv
<1>5. /\ open /\ gen \in Gens /\ tun[gen] = "open" /\ r \in listed
      /\ req[r].gen = gen /\ req[r].step = "pump"
  BY <1>2 DEF Live, OnWire, TunnelInv, IInv, RequestInv
<1>6. ASSUME Avail(r)' = Avail(r), Underway(r)' = Underway(r), Returning(r)' = Returning(r)
      PROVE  Balance(r)' = Window
  BY <1>3, <1>6 DEF Balance
<1>. USE DEF Types
<1>7. ASSUME NEW q \in Streams, OpenStream(q) PROVE Balance(r)' = Window
  <2>1. UNCHANGED <<toGateway, gen, gwLoop, respCh>>
    BY <1>7 DEF OpenStream
  <2>2. Avail(r)' = Avail(r)
    BY <1>4, <1>7, AvailMoves DEF OpenStream, Avail
  <2>3. Returning(r)' = Returning(r)
    <3>. PICK f : f = Frame("start", nextID[registry] + 1, q)
      OBVIOUS
    <3>1. f \in Frames /\ f.type = "start"
      BY <1>7 DEF IInv, RequestInv, OpenStream, Frame, Frames
    <3>2. UNCHANGED toRunner \/ toRunner' = Append(toRunner, f)
      BY <1>7 DEF OpenStream
    <3>. QED  BY <3>1, <3>2, ReturningMoves
  <2>. QED  BY <1>6, <2>1, <2>2, <2>3, UnderwayKept
<1>8. ASSUME NEW q \in Streams, TakeFrame(q) \/ TimeOut(q) PROVE Balance(r)' = Window
  <2>1. UNCHANGED <<toGateway, gen, gwLoop>>
    BY <1>8 DEF TakeFrame, TimeOut, tunnelVars
  <2>2. Avail(r)' = Avail(r)
    BY <1>4, <1>8, AvailMoves DEF TakeFrame, TimeOut, Flush, Return, windowVars, Avail
  <2>3. CASE q # r
    <3>1. respCh'[r] = respCh[r]
      BY <1>8, <2>3 DEF TakeFrame, TimeOut, Return, IInv, HandsInv
    <3>2. UNCHANGED toRunner \/ Put(q, "credit") \/ Put(q, "cancel")
      BY <1>8 DEF TakeFrame, TimeOut, Flush
    <3>. QED  BY <1>6, <2>1, <2>2, <2>3, <3>1, <3>2, UnderwayKept, ReturningMoves
  <2>4. CASE q = r
    <3>1. ASSUME NEW left, Return(r, left) PROVE FALSE
      <4>1. req[r] \in Requests
        BY DEF IInv, RequestInv
      <4>2. req'[r] = [req[r] EXCEPT !.step = "done", !.started = FALSE]
        BY <3>1 DEF Return, IInv, RequestInv
      <4>. QED  BY <4>1, <4>2 DEF Live, Requests
    <3>2. /\ respCh[r] # <<>> /\ respCh'[r] = Tail(respCh[r])
          /\ \/ Head(respCh[r]).type = "start" /\ UNCHANGED toRunner
             \/ Head(respCh[r]).type = "body" /\ Put(r, "credit")
      BY <1>8, <2>4, <3>1 DEF TakeFrame, TimeOut, Flush, IInv, HandsInv
    <3>3. Head(respCh[r]).of = r
      BY <3>2, EmptySeq, LenProperties DEF IInv, HandsInv
    <3>4. /\ Underway(r) = Underway(r)' + Hit(Head(respCh[r]), "body", r)
          /\ Underway(r)' \in Nat
      <4>. PICK t : t = Tail(respCh[r]) /\ t \in Seq(Frames)
        BY <3>2, CreditTypes, HeadTailProperties
      <4>. PICK a \in Nat, h \in Nat, n \in Nat :
             /\ a = Count(toGateway, "body", r) /\ h = Held(r)
             /\ n = Hit(Head(respCh[r]), "body", r)
        BY CreditTypes, HitFacts
      <4>. PICK m \in Nat : m = Count(t, "body", r)
        BY HitsAreFinite
      <4>1. Count(respCh[r], "body", r) = m + n
        <5>1. respCh[r] \in Seq(Frames)
          BY CreditTypes
        <5>. QED  BY <3>2, <5>1, CountTail
      <4>2. Underway(r)' = a + m + h
        <5>1. Held(r)' = h
          BY <2>1 DEF Held, One
        <5>. QED  BY <2>1, <3>2, <5>1, UnderwayNow
      <4>3. Underway(r) = a + (m + n) + h
        BY <4>1, CreditTypes
      <4>4. \A i, j, k, l \in Nat : i + (j + k) + l = (i + j + l) + k /\ i + j + l \in Nat
        OBVIOUS
      <4>5. Underway(r) = Underway(r)' + n
        BY <4>2, <4>3, <4>4
      <4>6. Underway(r)' \in Nat
        BY <4>2, <4>4
      <4>. QED  BY <4>5, <4>6
    <3>5. OnWire(r)
      BY <1>2 DEF Live
    <3>6. CASE Head(respCh[r]).type = "start" /\ UNCHANGED toRunner
      <4>1. Hit(Head(respCh[r]), "body", r) = 0
        BY <3>6, HitFacts
      <4>. QED  BY <1>6, <2>2, <3>4, <3>6, <4>1, ReturningMoves
    <3>7. CASE Head(respCh[r]).type = "body" /\ Put(r, "credit")
      <4>1. Underway(r) = Underway(r)' + 1
        BY <3>3, <3>4, <3>7, HitFacts
      <4>2. Returning(r)' = Returning(r) + 1
        BY <3>5, <3>7, ReturningMoves
      <4>. QED  BY <1>3, <1>4, <2>2, <3>4, <4>1, <4>2 DEF Balance
    <3>. QED  BY <3>2, <3>6, <3>7
  <2>. QED  BY <2>3, <2>4
<1>9. ASSUME NEW q \in Streams, Expire(q) \/ Send(q) PROVE Balance(r)' = Window
  <2>1. UNCHANGED <<toGateway, gen, gwLoop, respCh>>
    BY <1>9 DEF Expire, Send, SendBody, CancelBody, EndBody, senderUnchanged, connVars,
       gatewayVars, tunnelVars, requestVars
  <2>2. Avail(r)' = Avail(r)
    BY <1>4, <1>9 DEF Expire, Send, SendBody, CancelBody, EndBody, EndContext, Waiter,
       Acquire, RefuseAcquire, Sleep, WindowsOK, Directions, Avail
  <2>3. UNCHANGED toRunner \/ Put(q, "body") \/ Put(q, "cancel") \/ Put(q, "end")
    BY <1>9 DEF Expire, Send, SendBody, CancelBody, EndBody, connVars
  <2>4. Returning(r)' = Returning(r)
    BY <2>3, ReturningMoves
  <2>. QED  BY <1>6, <2>1, <2>2, <2>4, UnderwayKept
<1>10. ASSUME NEW q \in Streams, Serve(q) PROVE Balance(r)' = Window
  <2>1. UNCHANGED <<toRunner, gen, gwLoop, respCh>>
    BY <1>10 DEF Serve, RefuseTarget, Respond, Fail, SendResponse, DropResponse, EndResponse,
       Remove, localUnchanged, gatewayVars, tunnelVars, requestVars
  <2>2. Returning(r)' = Returning(r)
    BY <2>1, ReturningMoves
  <2>3. CASE SendResponse(q) /\ q = r
    <3>1. CASE Sleep("resp", r) /\ UNCHANGED toGateway
      BY <1>4, <1>6, <2>1, <2>2, <3>1, AvailMoves, UnderwayKept
    <3>2. CASE Acquire("resp", r) /\ OnWire(r) /\ Say(r, "body")
      <4>1. Avail(r)' = Avail(r) - 1 /\ Underway(r)' = Underway(r) + 1
        BY <1>4, <2>1, <3>2, AvailMoves, UnderwaySaid
      <4>. QED  BY <1>3, <1>4, <2>2, <4>1 DEF Balance
    <3>. QED  BY <2>3, <3>1, <3>2 DEF SendResponse
  <2>4. CASE SendResponse(q) /\ q # r
    <3>1. Avail(r)' = Avail(r)
      BY <1>4, <2>4, AvailMoves DEF SendResponse
    <3>2. UNCHANGED toGateway \/ Say(q, "body")
      BY <2>4 DEF SendResponse
    <3>. QED  BY <1>6, <2>1, <2>2, <2>4, <3>1, <3>2, UnderwayKept, UnderwaySaid
  <2>5. CASE ~SendResponse(q)
    <3>1. UNCHANGED win \/ \E S : CloseWindows("resp", S) /\ table' = table \ S
      BY <1>10, <2>5 DEF Serve, RefuseTarget, Respond, Fail, DropResponse, EndResponse,
         Remove, windowVars
    <3>2. Avail(r)' = Avail(r)
      BY <1>4, <3>1, AvailMoves DEF Avail, Live
    <3>3. \/ UNCHANGED toGateway
          \/ \E type \in {"start", "end", "error"} : Say(q, type)
      BY <1>10, <2>5 DEF Serve, RefuseTarget, Respond, Fail, DropResponse, EndResponse
    <3>. QED  BY <1>6, <2>1, <2>2, <3>2, <3>3, UnderwayKept, UnderwaySaid
  <2>. QED  BY <2>3, <2>4, <2>5
<1>11. CASE Dispatch
  <2>. DEFINE f == Head(toGateway)
  <2>1. /\ UNCHANGED <<toRunner, win, gen>> /\ gwLoop[gen] = Reading
        /\ toGateway # <<>> /\ toGateway' = Tail(toGateway)
    BY <1>11 DEF Dispatch, windowVars
  <2>2. f \in Frames /\ Carries(f) /\ Stream(f.id) \subseteq {f.of}
    BY <2>1, NextFrame, FoundStream DEF IInv, WireInv
  <2>3. Avail(r)' = Avail(r) /\ Returning(r)' = Returning(r)
    BY <2>1, ReturningMoves DEF Avail
  <2>. PICK p \in Seq(Frames) : p = toGateway'
    BY <2>1, CreditTypes, HeadTailProperties
  <2>. PICK a \in Nat, b \in Nat, n \in Nat :
         /\ a = Count(p, "body", r) /\ b = Count(respCh[r], "body", r)
         /\ n = Hit(f, "body", r)
    BY CreditTypes, HitsAreFinite, HitFacts
  <2>4. Underway(r) = (a + n) + b
    <3>1. Count(toGateway, "body", r) = a + n
      <4>1. toGateway \in Seq(Frames)
        BY CreditTypes
      <4>. QED  BY <2>1, <4>1, CountTail
    <3>2. Held(r) = 0
      BY <2>1, NotHeldUp DEF Held, One
    <3>3. Underway(r) = Count(toGateway, "body", r) + b + Held(r)
      BY CreditTypes
    <3>. QED  BY <3>1, <3>2, <3>3
  <2>5. CASE Stream(f.id) = {} /\ UNCHANGED <<respCh, gwLoop>>
    <3>1. f.of # r
      BY <1>5, <2>2, <2>5 DEF Carries, Stream
    <3>2. n = 0
      BY <3>1, HitFacts
    <3>3. Held(r)' = 0
      BY <2>1, <2>5, NotHeldUp DEF Held, One
    <3>4. Underway(r)' = a + b
      BY <2>5, <3>3, UnderwayNow
    <3>. QED  BY <1>6, <2>3, <2>4, <3>2, <3>4
  <2>6. CASE f.of \in Stream(f.id) /\ UNCHANGED gwLoop
             /\ respCh' = [respCh EXCEPT ![f.of] = Append(@, f)]
    <3>1. Held(r)' = 0
      BY <2>1, <2>6, NotHeldUp DEF Held, One
    <3>. PICK q : q = respCh'[r]
      OBVIOUS
    <3>2. Count(q, "body", r) = b + n
      <4>1. CASE f.of = r
        <5>1. q = Append(respCh[r], f) /\ respCh[r] \in Seq(Frames)
          BY <2>6, <4>1 DEF IInv, HandsInv
        <5>. QED  BY <2>2, <5>1, CountAppend
      <4>2. CASE f.of # r
        <5>1. q = respCh[r] /\ n = 0
          BY <2>6, <4>2, HitFacts DEF IInv, HandsInv
        <5>. QED  BY <5>1
      <4>. QED  BY <4>1, <4>2
    <3>3. Underway(r)' = a + (b + n)
      BY <3>1, <3>2, UnderwayNow
    <3>. QED  BY <1>6, <2>3, <2>4, <3>3
  <2>7. CASE f.of \in Stream(f.id) /\ UNCHANGED respCh
             /\ gwLoop' = [gwLoop EXCEPT ![gen] = Holding("waiting", f.of, f)]
    <3>1. Held(r)' = n
      <4>. PICK l : l = Holding("waiting", f.of, f)
        OBVIOUS
      <4>1. gwLoop'[gen] = l /\ l.step = "waiting" /\ l.frame = f
        BY <1>5, <2>7, NotHeldUp DEF IInv, HandsInv
      <4>. QED  BY <2>1, <4>1 DEF Held, Hit, One
    <3>2. Underway(r)' = a + b + n
      BY <2>7, <3>1, UnderwayNow
    <3>. QED  BY <1>6, <2>3, <2>4, <3>2
  <2>. QED  BY <1>11, <2>2, <2>5, <2>6, <2>7 DEF Dispatch
<1>12. ASSUME NEW g \in Gens, Deliver(g) PROVE Balance(r)' = Window
  <2>. DEFINE to == gwLoop[g].to
              f == gwLoop[g].frame
  <2>1. /\ UNCHANGED <<toRunner, toGateway, win, gen>> /\ HeldUp(g)
        /\ gwLoop' = [gwLoop EXCEPT ![g] = Reading]
    BY <1>12 DEF Deliver, connVars, windowVars, HeldUp
  <2>2. f \in Frames /\ to = f.of /\ req[to].gen = g
    BY <2>1, HeldUpFacts DEF IInv, TunnelInv
  <2>3. Avail(r)' = Avail(r) /\ Returning(r)' = Returning(r)
    BY <2>1, ReturningMoves DEF Avail
  <2>4. CASE g # gen
    <3>1. to # r
      BY <1>5, <2>2, <2>4
    <3>2. respCh'[r] = respCh[r] /\ gwLoop'[gen] = gwLoop[gen]
      BY <1>5, <1>12, <2>1, <2>4, <3>1 DEF Deliver, IInv, HandsInv
    <3>3. Underway(r)' = Underway(r)
      BY <2>1, <3>2 DEF Underway, Count, One
    <3>. QED  BY <1>6, <2>3, <3>3
  <2>5. CASE g = gen
    <3>. PICK a \in Nat, b \in Nat, n \in Nat :
           /\ a = Count(toGateway, "body", r) /\ b = Count(respCh[r], "body", r)
           /\ n = Hit(f, "body", r)
      BY CreditTypes, HitFacts
    <3>1. respCh' = [respCh EXCEPT ![to] = Append(@, f)]
      BY <1>5, <1>12, <2>5 DEF Deliver
    <3>2. Held(r) = n
      BY <2>1, <2>5 DEF Held, HeldUp, Hit, One
    <3>3. Held(r)' = 0
      BY <1>5, <2>1, <2>5, NotHeldUp DEF Held, One, IInv, HandsInv
    <3>. PICK q : q = respCh'[r]
      OBVIOUS
    <3>4. Count(q, "body", r) = b + n
      <4>1. CASE to = r
        <5>1. q = Append(respCh[r], f) /\ respCh[r] \in Seq(Frames)
          BY <3>1, <4>1 DEF IInv, HandsInv
        <5>. QED  BY <2>2, <5>1, CountAppend
      <4>2. CASE to # r
        <5>1. q = respCh[r] /\ n = 0
          BY <2>2, <3>1, <4>2, HitFacts DEF IInv, HandsInv
        <5>. QED  BY <5>1
      <4>. QED  BY <4>1, <4>2
    <3>5. Underway(r) = a + b + n
      BY <3>2, CreditTypes
    <3>6. Underway(r)' = a + (b + n)
      BY <2>1, <3>3, <3>4, UnderwayNow
    <3>. QED  BY <1>6, <2>3, <3>5, <3>6
  <2>. QED  BY <2>4, <2>5
<1>13. ASSUME NEW g \in Gens, CloseTunnel(g) PROVE Balance(r)' = Window
  <2>1. UNCHANGED <<toRunner, toGateway, gen, gwLoop>> /\ (\E S : CloseWindows("req", S))
    BY <1>13 DEF CloseTunnel, connVars
  <2>2. Avail(r)' = Avail(r) /\ Returning(r)' = Returning(r)
    BY <1>4, <2>1, AvailMoves, ReturningMoves
  <2>3. g # gen
    <3>1. gen \in Nat
      BY <1>5, TunnelAssumption DEF Gens, TunnelAssumption
    <3>. QED  BY <1>5, <1>13, <3>1 DEF CloseTunnel
  <2>4. respCh'[r] = respCh[r]
    BY <1>5, <1>13, <2>3 DEF CloseTunnel
  <2>. QED  BY <1>6, <2>1, <2>2, <2>4, UnderwayKept
<1>14. CASE (\E g \in Gens : Unregister(g)) \/ Fed
  <2>1. UNCHANGED <<toRunner, toGateway, win, gen, gwLoop, respCh>>
    BY <1>14 DEF Unregister, Fed, windowVars, connVars, gatewayVars, tunnelVars, requestVars
  <2>2. Avail(r)' = Avail(r)
    BY <2>1 DEF Avail
  <2>. QED  BY <1>6, <2>1, <2>2, UnderwayKept, ReturningMoves
<1>15. CASE HandleReqStart \/ HandleReqBody \/ HandleReqEnd \/ HandleCredit \/ CancelStream
  <2>1. UNCHANGED <<toGateway, gen, gwLoop, respCh>>
    BY <1>15 DEF HandleReqStart, HandleReqBody, HandleReqEnd, HandleCredit, CancelStream,
       readUnchanged, gatewayVars, tunnelVars, requestVars
  <2>. PICK f : f = Head(toRunner)
    OBVIOUS
  <2>. PICK n \in Nat : n = Hit(f, "credit", r)
    BY HitFacts
  <2>2. Returning(r) = Returning(r)' + n /\ Returning(r)' \in Nat
    BY <1>15, ReturningMoves DEF HandleReqStart, HandleReqBody, HandleReqEnd, HandleCredit,
       CancelStream
  <2>3. CASE HandleReqStart \/ HandleReqBody \/ HandleReqEnd
    <3>1. n = 0
      BY <2>3, HitFacts DEF HandleReqStart, HandleReqBody, HandleReqEnd, Read
    <3>2. Avail(r)' = Avail(r)
      BY <2>3 DEF HandleReqStart, HandleReqBody, HandleReqEnd, windowVars, Avail
    <3>. QED  BY <1>6, <2>1, <2>2, <3>1, <3>2, UnderwayKept
  <2>4. CASE HandleCredit
    <3>1. f \in Frames /\ Carries(f) /\ Target \subseteq {f.of} /\ f.type = "credit"
      BY <2>4, NextFrame, FoundStream DEF HandleCredit, Read, Target, IInv, WireInv
    <3>2. CASE f.of = r
      <4>1. r \in Target
        BY <1>2, <3>1, <3>2 DEF Target, At, Live, Carries
      <4>2. AddCredit("resp", r)
        BY <2>4, <3>1, <3>2, <4>1 DEF HandleCredit
      <4>3. Avail(r)' = Avail(r) + 1 /\ n = 1
        BY <1>4, <3>1, <3>2, <4>2, AvailMoves, HitFacts
      <4>4. Underway(r)' = Underway(r)
        BY <2>1, UnderwayKept
      <4>. QED  BY <1>3, <1>4, <2>2, <4>3, <4>4 DEF Balance
    <3>3. CASE f.of # r
      <4>1. UNCHANGED win \/ \E q \in Streams \ {r} : AddCredit("resp", q)
        BY <2>4, <3>1, <3>3, FrameFacts DEF HandleCredit
      <4>2. Avail(r)' = Avail(r) /\ n = 0
        BY <1>4, <3>3, <4>1, AvailMoves, HitFacts DEF Avail
      <4>. QED  BY <1>6, <2>1, <2>2, <4>2, UnderwayKept
    <3>. QED  BY <3>2, <3>3
  <2>5. CASE CancelStream
    <3>1. n = 0
      BY <2>5, HitFacts DEF CancelStream, Read
    <3>2. r \notin Target /\ CloseWindows("resp", Target)
      BY <2>5 DEF CancelStream, Abandon, Live
    <3>3. Avail(r)' = Avail(r)
      BY <1>4, <3>2, AvailMoves
    <3>. QED  BY <1>6, <2>1, <2>2, <3>1, <3>3, UnderwayKept
  <2>. QED  BY <1>15, <2>3, <2>4, <2>5
<1>16. CASE Reconnect \/ LoseConnection
  BY <1>16 DEF Reconnect, LoseConnection, Live, OnWire
<1>. QED  BY <1>7, <1>8, <1>9, <1>10, <1>11, <1>12, <1>13, <1>14, <1>15, <1>16
          DEF Next, Proxy, Gateway, Runner

-----------------------------------------------------------------------------

CreditInv == IInv /\ TunnelInv /\ FreshInv /\ CreditsConserved

LEMMA InitCreditInv == Init => CreditInv
<1>. SUFFICES ASSUME Init PROVE CreditInv
  OBVIOUS
<1>1. IInv
  BY InitIInv
<1>. USE TunnelAssumption, WindowAssumption DEF TunnelAssumption, WindowAssumption, Init
<1>2. TunnelInv
  <2>1. \A g \in Gens : ~HeldUp(g)
    BY NotHeldUp DEF HeldUp
  <2>. QED  BY <2>1 DEF TunnelInv, Gens, Started
<1>3. FreshInv
  <2>1. \A g \in Gens : ForServed(g)
    BY NotHeldUp DEF ForServed, HeldUp
  <2>2. Down(<<>>) /\ Up(<<>>)
    BY DEF Down, Up
  <2>. QED  BY <2>1, <2>2 DEF FreshInv, WindowsInit, Directions
<1>4. CreditsConserved
  BY DEF CreditsConserved
<1>. QED  BY <1>1, <1>2, <1>3, <1>4 DEF CreditInv

LEMMA NextCreditInv == CreditInv /\ [Next]_vars => CreditInv'
<1>. SUFFICES ASSUME CreditInv, [Next]_vars PROVE CreditInv'
  OBVIOUS
<1>1. IInv'
  BY NextIInv DEF CreditInv
<1>2. CASE Next
  <2>1. RequestInv' /\ Kept
    BY <1>2, RequestsKept DEF CreditInv, IInv
  <2>. QED  BY <1>1, <1>2, <2>1, TunnelKept, FreshKept, CreditsKept DEF CreditInv
<1>3. CASE UNCHANGED vars
  <2>1. UNCHANGED windowVars /\ UNCHANGED connVars /\ UNCHANGED gatewayVars
        /\ UNCHANGED runnerVars
    BY <1>3 DEF vars
  <2>. USE <2>1 DEF windowVars, connVars, gatewayVars, tunnelVars, requestVars,
                    runnerVars, localVars
  <2>2. TunnelInv'
    BY DEF CreditInv, TunnelInv, Started, HeldUp
  <2>3. FreshInv'
    BY DEF CreditInv, FreshInv, Down, Up, ForServed, HeldUp, Serves
  <2>4. CreditsConserved'
    BY DEF CreditInv, CreditsConserved, OnWire, Underway, Count, One
  <2>. QED  BY <1>1, <2>2, <2>3, <2>4 DEF CreditInv
<1>. QED  BY <1>2, <1>3

\* No credit is lost or made between two live ends, over any number of
\* connections (response.go pumpResponse, dispatcher.go, credit.go): a frame
\* that is read from an open tunnel is for a stream it has listed, so that no
\* chunk falls away, and a stream is served once, with all its credits.
THEOREM CreditsAreConserved == Spec => []CreditsConserved
<1>1. CreditInv => CreditsConserved
  BY DEF CreditInv
<1>. QED  BY <1>1, InitCreditInv, NextCreditInv, PTL DEF Spec

=============================================================================
