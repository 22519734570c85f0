-------------------------- MODULE WorkflowRunLife --------------------------
(* What a workflow promises of each of its runs: it waits until it has a   *)
(* pod of its own or is given up, it ends once and for ever, nothing is    *)
(* bound to it after that, and it counts at most once.                     *)
EXTENDS Naturals

CONSTANTS Runs, Pods, NoPod
VARIABLES status, pod, counted
lifeVars == <<status, pod, counted>>

Ends == {"completed", "failed", "cancelled", "timeout", "skipped"}

Init ==
  /\ status = [r \in Runs |-> "none"]
  /\ pod = [r \in Runs |-> NoPod]
  /\ counted = [r \in Runs |-> 0]

Trigger(r) ==
  /\ status[r] = "none"
  /\ \E s \in {"pending", "skipped"} : status' = [status EXCEPT ![r] = s]
  /\ UNCHANGED <<pod, counted>>

Bind(r) ==
  /\ status[r] = "pending" /\ pod[r] = NoPod
  /\ \E p \in Pods : /\ \A s \in Runs : pod[s] # p
                     /\ pod' = [pod EXCEPT ![r] = p]
  /\ UNCHANGED <<status, counted>>

Finish(r) ==
  /\ status[r] = "pending"
  /\ \E s \in Ends \ {"skipped"} : status' = [status EXCEPT ![r] = s]
  /\ UNCHANGED <<pod, counted>>

Count(r) ==
  /\ status[r] \in Ends \cup {"deleted"} /\ counted[r] = 0
  /\ counted' = [counted EXCEPT ![r] = 1]
  /\ UNCHANGED <<status, pod>>

Trim ==
  /\ \E R \in SUBSET {r \in Runs : status[r] \in Ends} :
       status' = [r \in Runs |-> IF r \in R THEN "deleted" ELSE status[r]]
  /\ UNCHANGED <<pod, counted>>

Next ==
  \/ \E r \in Runs : Trigger(r) \/ Bind(r) \/ Finish(r) \/ Count(r)
  \/ Trim

Spec == Init /\ [][Next]_lifeVars
=============================================================================
