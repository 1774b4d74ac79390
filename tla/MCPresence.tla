----------------------------- MODULE MCPresence -----------------------------
(* Three connections: two of one user and one of another; two projects.    *)
(* One page of each user shows the roadmap when the run starts.            *)
EXTENDS Presence, TLC

CONSTANTS ann, ben, a1, a2, b1, roadmap, backlog

Owners == (a1 :> ann) @@ (a2 :> ann) @@ (b1 :> ben)
Watched == (a1 :> None) @@ (a2 :> roadmap) @@ (b1 :> roadmap)

(* The invariants ask of the races only these two things, and no action    *)
(* reads them.                                                             *)
Shown ==
  <<server, jobs, access, client, "hurried" \in races, races \subseteq {"hurried"}>>
=============================================================================
