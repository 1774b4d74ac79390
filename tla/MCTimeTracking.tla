--------------------------- MODULE MCTimeTracking ---------------------------
(* The instance of the time tracking model that TLC checks.                *)
EXTENDS TimeTracking, TLC

CONSTANTS ann, bob, design, build, e1, e2, e3

(* Two entries of ann on two tasks; bob's is on the first of them.         *)
TheUsers == e1 :> ann @@ e2 :> ann @@ e3 :> bob
TheTasks == e1 :> design @@ e2 :> build @@ e3 :> design
=============================================================================
