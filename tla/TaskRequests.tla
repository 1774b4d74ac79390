----------------------------- MODULE TaskRequests -----------------------------
(***************************************************************************)
(* What the modules about the rows of a project's tasks share.             *)
(***************************************************************************)

CONSTANTS
  Tasks,     \* rows of tasks of one project, none of them a subtask
  Requests,  \* HTTP requests, each used once
  MayFail,   \* whether requests may die between two steps
  None       \* no row, no request, NULL

ASSUME RequestsAssumption == MayFail \in BOOLEAN
=============================================================================
