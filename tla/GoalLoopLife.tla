---------------------------- MODULE GoalLoopLife ----------------------------
(* What a goal loop promises, whoever calls it and in whatever order: a    *)
(* round is verified once, an unverified round is never followed by the    *)
(* next, there are at most MaxIterations rounds, a loop completes only on  *)
(* a verification that passed since it was started, and a loop that is     *)
(* over stays as it ended.                                                 *)
EXTENDS Naturals

CONSTANT MaxIterations

VARIABLES status, iteration, evidence
lifeVars == <<status, iteration, evidence>>

Init == status = "draft" /\ iteration = 0 /\ evidence = "none"

Unfinished == {"draft", "active", "paused", "verifying"}

Start ==
  /\ status \in {"draft", "paused"}
  /\ status' = "active" /\ iteration' = 0 /\ evidence' = "none"

Verify ==
  /\ status = "active"
  /\ status' = "verifying" /\ evidence' = "none"
  /\ UNCHANGED iteration

Judge ==
  /\ status = "verifying" /\ evidence = "none" /\ iteration < MaxIterations
  /\ evidence' \in {"pass", "fail"}
  /\ iteration' = iteration + 1
  /\ UNCHANGED status

NextRound ==
  /\ status = "verifying" /\ evidence = "fail" /\ iteration < MaxIterations
  /\ status' = "active"
  /\ UNCHANGED <<iteration, evidence>>

Complete ==
  /\ status \in Unfinished /\ evidence = "pass"
  /\ status' = "completed"
  /\ UNCHANGED <<iteration, evidence>>

End ==
  /\ status \in Unfinished
  /\ status' \in {"paused", "failed", "cancelled"}
  /\ UNCHANGED <<iteration, evidence>>

Next == Start \/ Verify \/ Judge \/ NextRound \/ Complete \/ End
Spec == Init /\ [][Next]_lifeVars
=============================================================================
