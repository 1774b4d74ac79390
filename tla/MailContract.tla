---------------------------- MODULE MailContract ----------------------------
(***************************************************************************)
(* What the transactional outbox promises to the code that enqueues mail,  *)
(* with no workers, leases or clocks: a mail is tried a bounded number of  *)
(* times, each try hands the provider at most one copy, a mail is reported *)
(* done only after a copy went out and given up only when every try is     *)
(* used, and both verdicts are final.  A try that was started may still    *)
(* send its copy after the verdict: that is what "at least once" costs.    *)
(***************************************************************************)
EXTENDS Naturals

CONSTANTS
  Events,      \* the mails
  MaxAttempts  \* tries a mail gets (outbox_events.maxAttempts)

VARIABLES
  verdict,  \* verdict[e]: what the producer can learn about e
  tries,    \* tries[e]: tries started so far
  copies    \* copies[e]: the tries whose copy the provider accepted

contractVars == <<verdict, tries, copies>>

Verdicts == {"none", "open", "done", "givenUp"}

Init ==
  /\ verdict = [e \in Events |-> "none"]
  /\ tries = [e \in Events |-> 0]
  /\ copies = [e \in Events |-> {}]

(* The mail is accepted, in the transaction of the change it reports.      *)
Submit(e) ==
  /\ verdict[e] = "none"
  /\ verdict' = [verdict EXCEPT ![e] = "open"]
  /\ UNCHANGED <<tries, copies>>

(* One poll gives up on some mails and starts a new try for others.        *)
Poll(dead, chosen) ==
  /\ \A e \in dead : verdict[e] = "open" /\ tries[e] = MaxAttempts
  /\ \A e \in chosen : verdict[e] = "open" /\ tries[e] < MaxAttempts
  /\ verdict' = [e \in Events |-> IF e \in dead THEN "givenUp" ELSE verdict[e]]
  /\ tries' = [e \in Events |-> IF e \in chosen THEN tries[e] + 1 ELSE tries[e]]
  /\ UNCHANGED copies

(* The provider accepts the copy of a try that has not sent one yet.       *)
Deliver(e, n) ==
  /\ n \in 1 .. tries[e]
  /\ n \notin copies[e]
  /\ copies' = [copies EXCEPT ![e] = @ \union {n}]
  /\ UNCHANGED <<verdict, tries>>

Complete(e) ==
  /\ verdict[e] = "open"
  /\ copies[e] # {}
  /\ verdict' = [verdict EXCEPT ![e] = "done"]
  /\ UNCHANGED <<tries, copies>>

GiveUp(e) ==
  /\ verdict[e] = "open"
  /\ tries[e] = MaxAttempts
  /\ verdict' = [verdict EXCEPT ![e] = "givenUp"]
  /\ UNCHANGED <<tries, copies>>

Next ==
  \/ \E e \in Events : Submit(e) \/ Complete(e) \/ GiveUp(e)
  \/ \E e \in Events, n \in 1 .. MaxAttempts : Deliver(e, n)
  \/ \E dead, chosen \in SUBSET Events : Poll(dead, chosen)

Spec == Init /\ [][Next]_contractVars
=============================================================================
