---------------------------- MODULE PreviewTunnel ----------------------------
(***************************************************************************)
(* Preview requests through the tunnel between a gateway and one runner.   *)
(*                                                                         *)
(* At the gateway each request has a goroutine that writes the response to *)
(* the browser and one that sends the body; the read loop of the tunnel    *)
(* hands frames to the streams.  At the runner one read loop hands frames  *)
(* to the goroutines that call the applications in the pods.  A lost       *)
(* connection is replaced by a new one with a tunnel of its own, whose     *)
(* stream numbers start again.                                             *)
(***************************************************************************)
EXTENDS CreditWindows, Sequences, FiniteSets

CONSTANTS
  ReqChunks,              \* at most so many chunks in the body of a request,
  RespChunks,             \* and so many in its response
  ChanCap,                \* capacity of respCh
  MaxLosses               \* bound of the model: lost connections

ASSUME TunnelAssumption ==
  /\ ReqChunks \in [Streams -> Nat] /\ RespChunks \in [Streams -> Nat]
  /\ ChanCap \in Nat \ {0} /\ MaxLosses \in Nat

VARIABLES
  \* the connection
  gen, open,           \* its number, is it up?
  toRunner, toGateway, \* frames on the wire
  \* the gateway
  tun, registry, nextID, gwLoop,  \* tunnels, the registered one, read loops
  req, listed, respCh,            \* requests, stream tables, channels
  sender, sent,                   \* the goroutines that send the bodies
  \* the runner
  loop, table,                    \* read loop, localStreams
  local, made, pipe               \* goroutines, chunks they sent, body pipes

connVars == <<gen, open, toRunner, toGateway>>
tunnelVars == <<tun, registry, nextID, gwLoop>>
requestVars == <<req, listed, respCh, sender, sent>>
gatewayVars == <<tunnelVars, requestVars>>
localVars == <<table, local, made, pipe>>
runnerVars == <<loop, localVars>>
vars == <<windowVars, connVars, gatewayVars, runnerVars>>

Gens == 1..(MaxLosses + 1)

\* A read loop reads, or is held up with a frame for a stream.
Reading == [step |-> "reading"]
Holding(step, r, f) == [step |-> step, to |-> r, frame |-> f]

Init ==
  /\ WindowsInit
  /\ gen = 1 /\ open = TRUE /\ toRunner = <<>> /\ toGateway = <<>>
  /\ tun = [g \in Gens |-> IF g = 1 THEN "open" ELSE "none"]
  /\ registry = 1 /\ nextID = [g \in Gens |-> 0]
  /\ gwLoop = [g \in Gens |-> Reading]
  /\ req = [r \in Streams |-> [step |-> "new", gen |-> 0, id |-> 0,
              started |-> FALSE]]
  /\ listed = {} /\ respCh = [r \in Streams |-> <<>>]
  /\ sender = [r \in Streams |-> "none"] /\ sent = [r \in Streams |-> 0]
  /\ loop = Reading /\ table = {}
  /\ local = [r \in Streams |-> "none"] /\ made = [r \in Streams |-> 0]
  /\ pipe = [r \in Streams |-> "none"]

\* A frame has a number for its stream; "of" is whose data it carries.
Frame(type, id, r) == [type |-> type, id |-> id, of |-> r]
OnWire(r) == open /\ req[r].gen = gen
Put(r, type) ==
  toRunner' = IF OnWire(r) THEN Append(toRunner, Frame(type, req[r].id, r)) ELSE toRunner

\* A connection that broke takes what is written until that is noticed.
MayWrite(r) == tun[req[r].gen] = "open"
MayFail(r) == ~OnWire(r)

WaitingFor(r) == {g \in Gens : gwLoop[g].step = "waiting" /\ gwLoop[g].to = r}

-----------------------------------------------------------------------------
(* ProxyHTTP and pumpResponse.                                             *)

\* The request goes to the tunnel that is registered.  A request without a
\* body has no goroutine to send it here: its REQ_END changes nothing.
OpenStream(r) ==
  LET g == registry
      id == nextID[g] + 1
      stream == [req[r] EXCEPT !.gen = g, !.id = id] IN
  /\ req[r].step = "new" /\ g # 0
  /\ nextID' = [nextID EXCEPT ![g] = id]
  /\ \/ /\ tun[g] = "open"
        /\ req' = [req EXCEPT ![r] = [stream EXCEPT !.step = "pump"]]
        /\ listed' = listed \cup {r}
        /\ sender' = [sender EXCEPT ![r] = IF ReqChunks[r] > 0 THEN "read" ELSE "ended"]
        /\ toRunner' = IF open /\ g = gen
                       THEN Append(toRunner, Frame("start", id, r))
                       ELSE toRunner
        /\ UNCHANGED <<win, over>>
     \/ /\ ~(open /\ g = gen)
        /\ req' = [req EXCEPT ![r] = [stream EXCEPT !.step = "done"]]
        /\ sender' = [sender EXCEPT ![r] = "ended"]
        /\ over' = over \cup {<<"req", r>>} /\ CloseWindows("req", {r})
        /\ UNCHANGED <<listed, toRunner>>
  /\ UNCHANGED <<gen, open, toGateway, tun, registry, gwLoop, respCh, sent,
                 runnerVars>>

\* With the deferred CloseStream and cancel of the context.  The channel and
\* what is left in it go when no read loop waits for room in it.
Return(r, left) ==
  /\ req' = [req EXCEPT ![r] = [req[r] EXCEPT !.step = "done", !.started = FALSE]]
  /\ IF r \in listed THEN CloseWindows("req", {r}) ELSE UNCHANGED win
  /\ listed' = listed \ {r}
  /\ over' = over \cup {<<"req", r>>}
  /\ \/ WaitingFor(r) # {} /\ respCh' = [respCh EXCEPT ![r] = left]
     \/ WaitingFor(r) = {} /\ respCh' = [respCh EXCEPT ![r] = <<>>]

\* Mutant: the runner gets no credit for the chunk.
FlushUncredited(r) == UNCHANGED <<windowVars, req, listed, toRunner>>

\* A chunk the browser has taken is a credit for the runner.
Flush(r) ==
  /\ Put(r, "credit") /\ UNCHANGED <<windowVars, req, listed>>

TakeFrame(r) ==
  LET f == Head(respCh[r])
      rest == Tail(respCh[r])
      kept == respCh' = [respCh EXCEPT ![r] = rest] IN
  /\ req[r].step = "pump" /\ respCh[r] # <<>>
  /\ \/ /\ f.type = "start" /\ req' = [req EXCEPT ![r].started = TRUE] /\ kept
        /\ UNCHANGED <<windowVars, listed, toRunner>>
     \/ /\ f.type = "body"
        /\ \/ req[r].started /\ Flush(r) /\ kept
           \/ /\ Return(r, rest)
              /\ IF req[r].started THEN Put(r, "cancel") ELSE UNCHANGED toRunner
     \/ f.type \in {"end", "error"} /\ Return(r, rest) /\ UNCHANGED toRunner
  /\ UNCHANGED <<gen, open, toGateway, tunnelVars, sender, sent, runnerVars>>

\* The time is up, or the browser has gone, and pumpResponse has not seen it
\* yet: only a goroutine that sleeps can tell.
Expire(r) ==
  /\ req[r].step = "pump" /\ EndContext("req", r)
  /\ UNCHANGED <<connVars, gatewayVars, runnerVars>>

TimeOut(r) ==
  /\ req[r].step = "pump" /\ Return(r, respCh[r]) /\ Put(r, "cancel")
  /\ UNCHANGED <<gen, open, toGateway, tunnelVars, sender, sent, runnerVars>>

-----------------------------------------------------------------------------
(* sendRequestBody.                                                        *)

GoHome(r) == sender' = [sender EXCEPT ![r] = "ended"] /\ sent' = [sent EXCEPT ![r] = 0]
senderUnchanged == <<over, gen, open, toGateway, tunnelVars, req, listed, respCh,
                     runnerVars>>

SendBody(r) ==
  /\ sender[r] = "read" /\ sent[r] < ReqChunks[r]
  /\ \/ /\ Acquire("req", r)
        /\ \/ /\ MayWrite(r) /\ Put(r, "body") /\ UNCHANGED sender
              /\ sent' = [sent EXCEPT ![r] = @ + 1]
           \/ MayFail(r) /\ GoHome(r) /\ UNCHANGED toRunner
     \/ Sleep("req", r) /\ UNCHANGED <<toRunner, sender, sent>>
  /\ UNCHANGED senderUnchanged

\* The window is closed, or the browser breaks off the body.
CancelBody(r) ==
  /\ sender[r] = "read" /\ GoHome(r) /\ Put(r, "cancel")
  /\ \/ RefuseAcquire("req", r)
     \/ win["req"][r].waiter = "none" /\ UNCHANGED win
  /\ UNCHANGED senderUnchanged

EndBody(r) ==
  /\ sender[r] = "read" /\ win["req"][r].waiter = "none" /\ GoHome(r)
  /\ Put(r, "end")
  /\ UNCHANGED <<win, senderUnchanged>>

-----------------------------------------------------------------------------
(* Tunnel and Registry.                                                    *)

Room(r) == Len(respCh[r]) < ChanCap

\* The stream that has the number in this tunnel, if any.
Stream(id) == {r \in listed : req[r].gen = gen /\ req[r].id = id}

\* The read loop waits for a stream whose channel is full.
Dispatch ==
  LET f == Head(toGateway) IN
  /\ open /\ tun[gen] = "open" /\ gwLoop[gen] = Reading /\ toGateway # <<>>
  /\ toGateway' = Tail(toGateway)
  /\ \/ Stream(f.id) = {} /\ UNCHANGED <<respCh, gwLoop>>
     \/ \E r \in Stream(f.id) :
          /\ Room(r) /\ respCh' = [respCh EXCEPT ![r] = Append(@, f)]
          /\ UNCHANGED gwLoop
     \/ \E r \in Stream(f.id) :
          /\ ~Room(r) /\ gwLoop' = [gwLoop EXCEPT ![gen] = Holding("waiting", r, f)]
          /\ UNCHANGED respCh
  /\ UNCHANGED <<windowVars, gen, open, toRunner, tun, registry, nextID,
                 req, listed, sender, sent, runnerVars>>

Deliver(g) ==
  /\ gwLoop[g].step = "waiting"
  /\ \/ /\ Room(gwLoop[g].to)
        /\ respCh' = [respCh EXCEPT ![gwLoop[g].to] = Append(@, gwLoop[g].frame)]
     \/ tun[g] # "open" /\ UNCHANGED respCh
  /\ gwLoop' = [gwLoop EXCEPT ![g] = Reading]
  /\ UNCHANGED <<windowVars, connVars, tun, registry, nextID, req, listed,
                 sender, sent, runnerVars>>

\* The read loop fails, no pong comes, or Register has replaced the tunnel:
\* every stream is told, if its channel has room.
CloseTunnel(g) ==
  LET S == {r \in listed : req[r].gen = g} IN
  /\ tun[g] = "open" /\ (g < gen \/ ~open)
  /\ tun' = [tun EXCEPT ![g] = "closed"]
  /\ listed' = listed \ S
  /\ respCh' = [r \in Streams |-> IF r \in S /\ Room(r)
                                  THEN Append(respCh[r], Frame("error", req[r].id, r))
                                  ELSE respCh[r]]
  /\ CloseWindows("req", S)
  /\ UNCHANGED <<over, connVars, registry, nextID, gwLoop, req, sender, sent,
                 runnerVars>>

\* When the read loop has ended.
Unregister(g) ==
  /\ tun[g] = "closed" /\ gwLoop[g] = Reading
  /\ tun' = [tun EXCEPT ![g] = "gone"]
  /\ registry' = IF registry = g THEN 0 ELSE registry
  /\ UNCHANGED <<windowVars, connVars, nextID, gwLoop, requestVars, runnerVars>>

-----------------------------------------------------------------------------
(* The connection, and the read loop of the runner.                        *)

LoseConnection ==
  /\ open /\ gen <= MaxLosses /\ open' = FALSE
  /\ toRunner' = <<>> /\ toGateway' = <<>>
  /\ UNCHANGED <<windowVars, gen, gatewayVars, runnerVars>>

ClosePipes(S) ==
  pipe' = [r \in Streams |-> IF r \in S /\ pipe[r] = "open" THEN "closed" ELSE pipe[r]]

\* What cancelStream and Close do to a localStream.
Abandon(S) ==
  /\ over' = over \cup ({"resp"} \X S)
  /\ CloseWindows("resp", S) /\ ClosePipes(S)

\* disconnect and Close of the dispatcher, connectOnce, and the handler that
\* registers a tunnel for the new connection.
Reconnect ==
  /\ loop = Reading /\ ~open
  /\ gen' = gen + 1 /\ open' = TRUE
  /\ table' = {} /\ Abandon(table)
  /\ tun' = [tun EXCEPT ![gen + 1] = "open"] /\ registry' = gen + 1
  /\ UNCHANGED <<toRunner, toGateway, nextID, gwLoop, requestVars, loop, local,
                 made>>

Read(type) ==
  /\ open /\ loop = Reading /\ toRunner # <<>> /\ Head(toRunner).type = type
  /\ toRunner' = Tail(toRunner)
\* The localStream that has the number now, if any.
At(id) == {r \in table : req[r].id = id}
Target == At(Head(toRunner).id)
readUnchanged == <<gen, open, toGateway, gatewayVars, made>>

\* A target may be refused, and that leaves the pipe as it is.
HandleReqStart ==
  LET f == Head(toRunner) IN
  /\ Read("start")
  /\ table' = (table \ At(f.id)) \cup {f.of}
  /\ \/ local' = [local EXCEPT ![f.of] = "request"]
     \/ ReqChunks[f.of] > 0 /\ local' = [local EXCEPT ![f.of] = "refused"]
  /\ pipe' = [pipe EXCEPT ![f.of] = IF ReqChunks[f.of] > 0 THEN "open" ELSE "none"]
  /\ UNCHANGED <<windowVars, loop, readUnchanged>>

\* The loop writes to the pipe until somebody reads, or either end is closed.
HandleReqBody ==
  /\ Read("body")
  /\ \/ Target = {} /\ UNCHANGED loop
     \/ \E r \in Target :
          loop' = Holding("feeding", r, Head(toRunner))
  /\ UNCHANGED <<windowVars, table, local, pipe, readUnchanged>>

HandleReqEnd ==
  /\ Read("end")
  /\ ClosePipes(Target)
  /\ UNCHANGED <<windowVars, loop, table, local, readUnchanged>>

HandleCredit ==
  /\ Read("credit")
  /\ \/ Target = {} /\ UNCHANGED win
     \/ \E r \in Target : AddCredit("resp", r)
  /\ UNCHANGED <<over, loop, table, local, pipe, readUnchanged>>

CancelStream ==
  /\ Read("cancel")
  /\ table' = table \ Target /\ Abandon(Target)
  /\ UNCHANGED <<loop, local, readUnchanged>>

\* client.Do reads the body until the response is over.
Fed ==
  /\ loop.step = "feeding"
  /\ pipe[loop.to] = "closed" \/ local[loop.to] \in {"request", "response"}
  /\ loop' = Reading
  /\ UNCHANGED <<windowVars, connVars, gatewayVars, localVars>>

-----------------------------------------------------------------------------
(* serveLocalHTTP.                                                         *)

\* Mutant: frames are sent on whichever connection is current.
SayAnywhere(r, type) ==
  toGateway' = IF open THEN Append(toGateway, Frame(type, req[r].id, r)) ELSE toGateway

\* sendOnConnection: on the connection the request came from.
Say(r, type) ==
  toGateway' = IF OnWire(r) THEN Append(toGateway, Frame(type, req[r].id, r)) ELSE toGateway

localUnchanged == <<gen, open, toRunner, gatewayVars, loop>>

\* The deferred remove takes out whatever has the number now, and closes its
\* window.
Remove(r) ==
  LET S == At(req[r].id) IN
  /\ local' = [local EXCEPT ![r] = "done"] /\ made' = [made EXCEPT ![r] = 0]
  /\ table' = table \ S
  /\ CloseWindows("resp", S) /\ over' = over \cup {<<"resp", r>>}
  /\ UNCHANGED localUnchanged

RefuseTarget(r) == local[r] = "refused" /\ Say(r, "error") /\ UNCHANGED pipe /\ Remove(r)

Respond(r) ==
  /\ local[r] = "request" /\ local' = [local EXCEPT ![r] = "response"]
  /\ Say(r, "start")
  /\ UNCHANGED <<windowVars, table, made, pipe, localUnchanged>>

Fail(r) ==
  /\ local[r] \in {"request", "response"} /\ win["resp"][r].waiter = "none"
  /\ Say(r, "error") /\ ClosePipes({r}) /\ Remove(r)

SendResponse(r) ==
  /\ local[r] = "response" /\ made[r] < RespChunks[r]
  /\ \/ /\ Acquire("resp", r) /\ OnWire(r) /\ Say(r, "body")
        /\ made' = [made EXCEPT ![r] = @ + 1]
     \/ Sleep("resp", r) /\ UNCHANGED <<toGateway, made>>
  /\ UNCHANGED <<over, table, local, pipe, localUnchanged>>

\* No credit, or no connection.
DropResponse(r) ==
  /\ local[r] = "response" /\ made[r] < RespChunks[r]
  /\ win["resp"][r].waiter \in {"none", "woken"}
  /\ \/ win["resp"][r].closed
     \/ win["resp"][r].avail >= 1 /\ ~OnWire(r)
  /\ UNCHANGED toGateway /\ ClosePipes({r}) /\ Remove(r)

EndResponse(r) ==
  /\ local[r] = "response" /\ made[r] = RespChunks[r]
  /\ Say(r, "end") /\ ClosePipes({r}) /\ Remove(r)

-----------------------------------------------------------------------------

Proxy(r) == OpenStream(r) \/ TakeFrame(r) \/ Expire(r) \/ TimeOut(r)
Send(r) == SendBody(r) \/ CancelBody(r) \/ EndBody(r)
Serve(r) ==
  \/ RefuseTarget(r) \/ Respond(r) \/ Fail(r) \/ SendResponse(r)
  \/ DropResponse(r) \/ EndResponse(r)
Gateway(g) == Deliver(g) \/ CloseTunnel(g) \/ Unregister(g)
Runner ==
  \/ HandleReqStart \/ HandleReqBody \/ HandleReqEnd \/ HandleCredit
  \/ CancelStream \/ Fed \/ Reconnect

Next ==
  \/ \E r \in Streams : Proxy(r) \/ Send(r) \/ Serve(r)
  \/ \E g \in Gens : Gateway(g)
  \/ Dispatch \/ Runner \/ LoseConnection

Spec == Init /\ [][Next]_vars

-----------------------------------------------------------------------------
(* Properties.                                                             *)

Count(s, type, r) ==
  Cardinality({i \in DOMAIN s : s[i].type = type /\ s[i].of = r})
One(b) == IF b THEN 1 ELSE 0

\* The chunks of a response that are between the two ends.
Underway(r) ==
  Count(toGateway, "body", r) + Count(respCh[r], "body", r)
    + One(/\ gwLoop[gen].step = "waiting"
          /\ gwLoop[gen].frame.of = r /\ gwLoop[gen].frame.type = "body")

\* While a stream is served at both ends no credit is lost or made: what the
\* runner may still send, what it has sent and the browser has not taken, and
\* the credits on their way back, are one window (response.go pumpResponse,
\* dispatcher.go, credit.go).  This bounds what the gateway must hold.
CreditsConserved ==
  \A r \in Streams :
    /\ OnWire(r) /\ req[r].step = "pump"
    /\ local[r] \in {"request", "response"} /\ r \in table
    => win["resp"][r].avail + Underway(r) + Count(toRunner, "credit", r) = Window

\* Stream numbers start again with each connection while what is left of the
\* streams before is still being unwound: no request is ever handed frames of
\* another, neither at the gateway nor at the runner (client.go
\* sendOnConnection, dispatcher.go Close).
OwnFrames ==
  /\ \A r \in Streams : \A i \in DOMAIN respCh[r] : respCh[r][i].of = r
  /\ loop.step = "feeding" => loop.frame.of = loop.to

\* Nobody sleeps for credits that no one will grant: whoever ends a request or
\* cancels a stream closes its window too, which wakes the waiter that the
\* broadcast of its context has missed (stream.go:31, closeStream, cancelStream).
NoSleeperIsForgotten ==
  \A r \in Streams :
    /\ req[r].step = "done" => win["req"][r].waiter \in {"none", "woken"}
    /\ Done("resp", r) => win["resp"][r].waiter \in {"none", "woken"}

\* "a timeout cancels only this stream (via STREAM_CANCEL), never the shared
\* tunnel" (http.go:52): the read loop does not wait for a request that is over.
NobodyWaitsForTheDead ==
  \A g \in Gens :
    tun[g] = "open" /\ gwLoop[g].step = "waiting"
      => req[gwLoop[g].to].step # "done" \/ Room(gwLoop[g].to)
=============================================================================
