----------------------------- MODULE RequestPool -----------------------------
(***************************************************************************)
(* The requests the API process has under way.  A request is a handler     *)
(* that runs to its next await, and is named by what it does then.  Each   *)
(* is used once.  A handler ends by answering ("ok"), by an error          *)
(* ("error"), or with the process ("dead").                                *)
(***************************************************************************)
EXTENDS Naturals

CONSTANTS
  Requests,  \* requests, each made once
  None

VARIABLES pc  \* pc[r]: what request r does next

Ended == {"ok", "error", "dead"}
Running == {r \in Requests : pc[r] \notin Ended \union {"new"}}

(* The request that comes next; which one is taken does not matter.        *)
Arrives(r) == pc[r] = "new" /\ r = CHOOSE q \in Requests : pc[q] = "new"

Goto(r, place) == pc' = [pc EXCEPT ![r] = place]
=============================================================================
