----------------------------- MODULE MCGoalLoop -----------------------------
(* Small instances of GoalLoop for TLC.  Its run checks liveness, so calls *)
(* are not identified by symmetry.                                         *)
EXTENDS GoalLoop, TLC
=============================================================================
