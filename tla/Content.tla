------------------------------- MODULE Content -------------------------------
(***************************************************************************)
(* The process that serves files and comments, and may die.  The two       *)
(* services have nothing in common but the process: a behaviour is about   *)
(* the one or about the other.                                             *)
(***************************************************************************)
EXTENDS StoredFiles, Discussion

CONSTANT Talkers  \* the requests a behaviour about the discussion has

VARIABLE subject  \* what the behaviour is about

vars == <<pc, disk, row, avatar, used, file, old, owner, leaked, torn,
          comment, author, parent, edited, mentions, assignees, likes, notes,
          by, on, list, people, todo, bad, liked, tally, told, subject>>

(* The types of both services, and the steps their handlers may be at.     *)
TypeOK ==
  /\ FilesTypeOK /\ DiscussionTypeOK
  /\ pc \in [Requests -> FilePlaces \union DiscussionPlaces \union Ended \union {"new"}]

Init ==
  /\ subject \in {"files", "discussion"}
  /\ FilesInit /\ DiscussionInit
  /\ pc = [r \in Requests |-> IF subject = "files" \/ r \in Talkers THEN "new" ELSE "ok"]

(* The process dies with every handler it runs.                            *)
Crash ==
  /\ Running # {}
  /\ pc' = [r \in Requests |-> IF r \in Running THEN "dead" ELSE pc[r]]
  /\ FilesCrash /\ DiscussionCrash
  /\ UNCHANGED subject

Next ==
  \/ subject = "files" /\ FilesNext /\ UNCHANGED <<discussionVars, subject>>
  \/ subject = "discussion" /\ DiscussionNext /\ UNCHANGED <<filesVars, subject>>
  \/ Crash

Spec == Init /\ [][Next]_vars
=============================================================================
