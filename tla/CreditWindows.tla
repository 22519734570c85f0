---------------------------- MODULE CreditWindows ----------------------------
(***************************************************************************)
(* The flow-control window of each stream and direction: at the gateway    *)
(* for request bodies, at the runner for responses (creditWindow, the same *)
(* code on both sides).  One goroutine acquires from a window.             *)
(***************************************************************************)
EXTENDS Naturals

CONSTANTS
  Streams,
  Window   \* initial credits of a window

ASSUME WindowAssumption == Window \in Nat

Directions == {"req", "resp"}

VARIABLES
  win,     \* window of each direction and stream
  over     \* the contexts that are done: pairs of a direction and a stream

windowVars == <<win, over>>

WindowsInit ==
  /\ win = [d \in Directions |-> [s \in Streams |->
              [avail |-> Window, closed |-> FALSE, waiter |-> "none"]]]
  /\ over = {}

Done(d, s) == <<d, s>> \in over
Waiter(d, s, step) == win' = [win EXCEPT ![d][s].waiter = step]

\* A waiter that is woken looks at its context first.
Acquire(d, s) ==
  LET w == win[d][s] IN
  /\ \/ w.waiter = "none"
     \/ w.waiter = "woken" /\ ~Done(d, s)
  /\ w.avail >= 1 /\ ~w.closed
  /\ win' = [win EXCEPT ![d][s] = [w EXCEPT !.avail = w.avail - 1, !.waiter = "none"]]

RefuseAcquire(d, s) ==
  LET w == win[d][s] IN
  /\ \/ win[d][s].waiter \in {"none", "woken"} /\ win[d][s].closed
     \/ win[d][s].waiter = "none" /\ win[d][s].avail = 0 /\ Done(d, s)
     \/ win[d][s].waiter = "woken" /\ Done(d, s)
  /\ Waiter(d, s, "none")

Sleep(d, s) ==
  /\ win[d][s].waiter \in {"none", "woken"} /\ ~Done(d, s)
  /\ win[d][s].avail = 0 /\ ~win[d][s].closed
  /\ Waiter(d, s, "asleep")

\* The context is looked at under the mutex, and the goroutine that watches it
\* broadcasts without: "deaf" if that comes between the look and the wait.
EndContext(d, s) ==
  /\ win[d][s].waiter = "asleep" /\ over' = over \cup {<<d, s>>}
  /\ Waiter(d, s, "woken") \/ Waiter(d, s, "deaf")

Woken(w) ==
  IF w.waiter \in {"asleep", "deaf"} THEN [w EXCEPT !.waiter = "woken"] ELSE w

AddCredit(d, s) ==
  LET w == win[d][s] IN
  win' = [win EXCEPT ![d][s] = Woken([w EXCEPT !.avail = w.avail + 1])]

\* The credits of a closed window are worth nothing.
Shut(w) == [w EXCEPT !.closed = TRUE, !.avail = 0]

\* Mutant: nobody is woken.
CloseQuietly(d, S) ==
  win' = [win EXCEPT ![d] =
            [s \in Streams |-> IF s \in S THEN Shut(win[d][s]) ELSE win[d][s]]]

CloseWindows(d, S) ==
  win' = [win EXCEPT ![d] =
            [s \in Streams |-> IF s \in S THEN Woken(Shut(win[d][s])) ELSE win[d][s]]]
=============================================================================
