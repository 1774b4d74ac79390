------------------------------- MODULE Outbox -------------------------------
(***************************************************************************)
(* The encrypted transactional outbox of the API: the outbox_events table, *)
(* the worker processes that poll it, and the mail provider they call.     *)
(*                                                                         *)
(* Every element of Workers is ONE worker process, with the random         *)
(* workerId it draws at start: a process that dies or stops never comes    *)
(* back, its replacement is another element.  A process claims a batch in  *)
(* one SQL statement and then handles the events of the batch              *)
(* concurrently; between any two steps of an event anything else may       *)
(* happen, including the expiry of the lease of a process that is slow.    *)
(*                                                                         *)
(* Time is reduced to two flags a row gains as time passes: due (its       *)
(* availableAt has been reached) and stale (its lockedAt is older than the *)
(* lease, by the clock of whoever polls).                                  *)
(***************************************************************************)
EXTENDS Naturals, FiniteSets

CONSTANTS
  Events,       \* rows of outbox_events
  Workers,      \* worker processes, past, present and future
  MaxAttempts,  \* outbox_events.maxAttempts (OUTBOX_MAX_ATTEMPTS)
  BatchSize,    \* OUTBOX_BATCH_SIZE
  Faults,       \* which of the faults below the environment may show
  Nobody        \* lockedBy of a row nobody holds (NULL)

(* "crash": a process dies.  "slow": a lease runs out while its holder     *)
(* lives.  "reply": the answer of the provider or the database is lost.    *)
FaultKinds == {"crash", "slow", "reply"}

ASSUME OutboxAssumption ==
  /\ MaxAttempts \in Nat \ {0}
  /\ BatchSize \in Nat \ {0}
  /\ Faults \subseteq FaultKinds
  /\ Nobody \notin Workers

VARIABLES
  status,    \* status[e]: column status; "absent" before the insert
  attempts,  \* attempts[e]: column attempts
  lockedBy,  \* lockedBy[e]: column lockedBy
  due,       \* due[e]: availableAt <= now
  stale,     \* stale[e]: lockedAt < now - lease
  proc,      \* proc[w]: life of the worker process w
  job,       \* job[w][e]: where w is in the handling of e
  held,      \* held[w][e]: attempts in the copy of the row that w holds
  copies,    \* copies[e]: attempts whose mail the provider accepted
  mishaps    \* events some fault has touched, for the properties

rowVars == <<status, attempts, lockedBy, due, stale>>
vars == <<status, attempts, lockedBy, due, stale, proc, job, held, copies, mishaps>>

Statuses == {"absent", "PENDING", "PROCESSING", "COMPLETED", "FAILED"}
Lives == {"new", "up", "gone"}
Steps == {"none", "claimed", "sent", "failed"}

TypeOK ==
  /\ status \in [Events -> Statuses]
  /\ attempts \in [Events -> 0 .. MaxAttempts]
  /\ lockedBy \in [Events -> Workers \union {Nobody}]
  /\ due \in [Events -> BOOLEAN]
  /\ stale \in [Events -> BOOLEAN]
  /\ proc \in [Workers -> Lives]
  /\ job \in [Workers -> [Events -> Steps]]
  /\ held \in [Workers -> [Events -> 0 .. MaxAttempts]]
  /\ copies \in [Events -> SUBSET (1 .. MaxAttempts)]
  /\ mishaps \subseteq Events

Init ==
  /\ status = [e \in Events |-> "absent"]
  /\ attempts = [e \in Events |-> 0]
  /\ lockedBy = [e \in Events |-> Nobody]
  /\ due = [e \in Events |-> FALSE]
  /\ stale = [e \in Events |-> FALSE]
  /\ proc = [w \in Workers |-> "new"]
  /\ job = [w \in Workers |-> [e \in Events |-> "none"]]
  /\ held = [w \in Workers |-> [e \in Events |-> 0]]
  /\ copies = [e \in Events |-> {}]
  /\ mishaps = {}

-----------------------------------------------------------------------------
(* Producers and time.                                                     *)

(* A request inserts the event in the transaction of its domain change.    *)
Enqueue(e) ==
  /\ status[e] = "absent"
  /\ status' = [status EXCEPT ![e] = "PENDING"]
  /\ due' = [due EXCEPT ![e] = TRUE]
  /\ UNCHANGED <<attempts, lockedBy, stale, proc, job, held, copies, mishaps>>

(* The back-off of a failed attempt runs out.                              *)
BecomeDue(e) ==
  /\ status[e] = "PENDING"
  /\ ~due[e]
  /\ due' = [due EXCEPT ![e] = TRUE]
  /\ UNCHANGED <<status, attempts, lockedBy, stale, proc, job, held, copies, mishaps>>

(* The lease of a claimed row runs out.                                    *)
LeaseExpires(e) ==
  /\ status[e] = "PROCESSING"
  /\ ~stale[e]
  /\ proc[lockedBy[e]] = "up" => "slow" \in Faults
  /\ stale' = [stale EXCEPT ![e] = TRUE]
  /\ mishaps' = IF proc[lockedBy[e]] = "up" THEN mishaps \union {e} ELSE mishaps
  /\ UNCHANGED <<status, attempts, lockedBy, due, proc, job, held, copies>>

-----------------------------------------------------------------------------
(* Worker processes.                                                       *)

Start(w) ==
  /\ proc[w] = "new"
  /\ proc' = [proc EXCEPT ![w] = "up"]
  /\ UNCHANGED <<rowVars, job, held, copies, mishaps>>

Idle(w) == \A e \in Events : job[w][e] = "none"

(* SIGTERM: the loop ends between two batches.                             *)
Stop(w) ==
  /\ proc[w] = "up"
  /\ Idle(w)
  /\ proc' = [proc EXCEPT ![w] = "gone"]
  /\ UNCHANGED <<rowVars, job, held, copies, mishaps>>

(* The process dies, or exits because a database call of the loop threw.   *)
Crash(w) ==
  /\ "crash" \in Faults
  /\ proc[w] = "up"
  /\ proc' = [proc EXCEPT ![w] = "gone"]
  /\ job' = [job EXCEPT ![w] = [e \in Events |-> "none"]]
  /\ mishaps' = mishaps \union {e \in Events : job[w][e] # "none"}
  /\ UNCHANGED <<rowVars, held, copies>>

(* The two row sets of the claim statement.                                *)
Exhausted ==
  {e \in Events : status[e] = "PROCESSING" /\ stale[e] /\ attempts[e] >= MaxAttempts}

(* Mutant: rows of dead processes are never taken back.                    *)
CandidatesNoRecovery ==
  {e \in Events : attempts[e] < MaxAttempts /\ status[e] = "PENDING" /\ due[e]}

(* Mutant: the lease of a claimed row is ignored.                          *)
CandidatesNoLease ==
  {e \in Events : /\ attempts[e] < MaxAttempts
                  /\ \/ status[e] = "PENDING" /\ due[e]
                     \/ status[e] = "PROCESSING"}

Candidates ==
  {e \in Events : /\ attempts[e] < MaxAttempts
                  /\ \/ status[e] = "PENDING" /\ due[e]
                     \/ status[e] = "PROCESSING" /\ stale[e]}

(* LIMIT: a full batch, or all there is.  Which candidates come first is   *)
(* left open: the order by availableAt is not modelled.                    *)
Batch(S) ==
  /\ S \subseteq Candidates
  /\ S = Candidates \/ Cardinality(S) = BatchSize
  /\ Cardinality(S) <= BatchSize

(* RETURNING event.*: the copy the worker gets is the updated row.         *)
CopyOfAttempts(e) == attempts[e] + 1

ClaimBatch(w, S) ==
  /\ proc[w] = "up"
  /\ Idle(w)
  /\ Batch(S)
  /\ S \union Exhausted # {}
  /\ status' = [e \in Events |-> IF e \in S THEN "PROCESSING"
                                 ELSE IF e \in Exhausted THEN "FAILED" ELSE status[e]]
  /\ lockedBy' = [e \in Events |-> IF e \in S THEN w
                                   ELSE IF e \in Exhausted THEN Nobody ELSE lockedBy[e]]
  /\ attempts' = [e \in Events |-> IF e \in S THEN attempts[e] + 1 ELSE attempts[e]]
  /\ stale' = [e \in Events |-> stale[e] /\ e \notin S \union Exhausted]
  /\ job' = [job EXCEPT ![w] = [e \in Events |-> IF e \in S THEN "claimed" ELSE "none"]]
  /\ held' = [held EXCEPT ![w] = [e \in Events |-> IF e \in S THEN CopyOfAttempts(e) ELSE @[e]]]
  /\ UNCHANGED <<due, proc, copies, mishaps>>

(* What was done looks like a failure to the worker.                       *)
LoseAnswer(w, e) ==
  /\ "reply" \in Faults
  /\ job' = [job EXCEPT ![w][e] = "failed"]
  /\ mishaps' = mishaps \union {e}

(* decodeEmail and sendMail: the provider accepts the mail or not, and its *)
(* answer may be lost, so that an accepted mail looks like a failure.      *)
SendMail(w, e) ==
  /\ job[w][e] = "claimed"
  /\ \/ /\ copies' = [copies EXCEPT ![e] = @ \union {held[w][e]}]
        /\ \/ job' = [job EXCEPT ![w][e] = "sent"] /\ UNCHANGED mishaps
           \/ LoseAnswer(w, e)
     \/ /\ job' = [job EXCEPT ![w][e] = "failed"]
        /\ UNCHANGED <<copies, mishaps>>
  /\ UNCHANGED <<rowVars, proc, held>>

(* Mutant: any process may mark a row that is being processed.             *)
OwnsAny(w, e) == status[e] = "PROCESSING"

(* The row is still the one this process claimed.                          *)
Owns(w, e) == status[e] = "PROCESSING" /\ lockedBy[e] = w

SetStatus(e, s) ==
  /\ status' = [status EXCEPT ![e] = s]
  /\ lockedBy' = [lockedBy EXCEPT ![e] = Nobody]
  /\ stale' = [stale EXCEPT ![e] = FALSE]

(* A completion that finds the row taken over is not noticed.  When the    *)
(* update or its answer is lost the code goes on to markDeliveryFailed.    *)
MarkCompleted(w, e) ==
  /\ job[w][e] = "sent"
  /\ \/ /\ IF Owns(w, e) THEN SetStatus(e, "COMPLETED")
                       ELSE UNCHANGED <<status, lockedBy, stale>>
        /\ \/ job' = [job EXCEPT ![w][e] = "none"] /\ UNCHANGED mishaps
           \/ LoseAnswer(w, e)
     \/ /\ LoseAnswer(w, e)
        /\ UNCHANGED <<status, lockedBy, stale>>
  /\ UNCHANGED <<attempts, due, proc, held, copies>>

(* Mutant: one attempt too few.                                            *)
TerminalEarly(w, e) == held[w][e] + 1 >= MaxAttempts

(* const terminal = input.event.attempts >= input.event.maxAttempts        *)
Terminal(w, e) == held[w][e] >= MaxAttempts

(* Its own error is not caught: the process exits, which is Crash.         *)
MarkDeliveryFailed(w, e) ==
  /\ job[w][e] = "failed"
  /\ IF Owns(w, e)
       THEN /\ SetStatus(e, IF Terminal(w, e) THEN "FAILED" ELSE "PENDING")
            /\ due' = [due EXCEPT ![e] = FALSE]
       ELSE UNCHANGED <<status, lockedBy, stale, due>>
  /\ job' = [job EXCEPT ![w][e] = "none"]
  /\ UNCHANGED <<attempts, proc, held, copies, mishaps>>

Handle(w, e) == SendMail(w, e) \/ MarkCompleted(w, e) \/ MarkDeliveryFailed(w, e)

Next ==
  \/ \E e \in Events : Enqueue(e) \/ BecomeDue(e) \/ LeaseExpires(e)
  \/ \E w \in Workers : Start(w) \/ Stop(w) \/ Crash(w)
  \/ \E w \in Workers, S \in SUBSET Events : ClaimBatch(w, S)
  \/ \E w \in Workers, e \in Events : Handle(w, e)

Spec == Init /\ [][Next]_vars

(* Time passes; a process that is up polls and drives its jobs on.  No     *)
(* fairness for producers, starts, stops and crashes.                      *)
Fairness ==
  /\ \A e \in Events : WF_vars(BecomeDue(e)) /\ WF_vars(LeaseExpires(e))
  /\ \A w \in Workers : WF_vars(\E S \in SUBSET Events : ClaimBatch(w, S))
  /\ \A w \in Workers, e \in Events : WF_vars(Handle(w, e))

FairSpec == Spec /\ Fairness

-----------------------------------------------------------------------------
(* Properties.                                                             *)

(* No event waits for a poll that can never take it: the claim statement   *)
(* only looks at rows with attempts left, so a failed delivery must leave  *)
(* a PENDING row with at least one.                                        *)
NoStrandedEvent ==
  \A e \in Events : status[e] = "PENDING" => attempts[e] < MaxAttempts

(* A row is locked exactly while it is being processed, by a process that  *)
(* was started; a live owner is handling the row and knows how many        *)
(* attempts the row counts.                                                *)
Leases ==
  \A e \in Events :
    /\ status[e] = "PROCESSING" <=> lockedBy[e] \in Workers
    /\ status[e] = "PROCESSING" => attempts[e] > 0
    /\ \A w \in Workers :
         /\ lockedBy[e] = w => proc[w] # "new"
         /\ lockedBy[e] = w /\ proc[w] = "up" =>
              job[w][e] # "none" /\ held[w][e] = attempts[e]

(* Processes that handle the same event at the same time do it on          *)
(* different attempts of it, none of them later than the row's.            *)
Attempts ==
  /\ \A w \in Workers, e \in Events :
       job[w][e] # "none" =>
         proc[w] = "up" /\ held[w][e] \in 1 .. attempts[e]
  /\ \A v, w \in Workers, e \in Events :
       v # w /\ job[v][e] # "none" /\ job[w][e] # "none" => held[v][e] # held[w][e]

(* What was handed to the provider agrees with what the rows and the       *)
(* processes say of it.                                                    *)
Deliveries ==
  /\ \A e \in Events : copies[e] \subseteq 1 .. attempts[e]
  /\ \A e \in Events : status[e] = "COMPLETED" => copies[e] # {}
  /\ \A w \in Workers, e \in Events :
       /\ job[w][e] = "claimed" => held[w][e] \notin copies[e]
       /\ job[w][e] = "sent" => held[w][e] \in copies[e]

(* A FAILED event has used every attempt, one not yet inserted none.       *)
Spent ==
  \A e \in Events :
    /\ status[e] = "FAILED" => attempts[e] = MaxAttempts
    /\ status[e] = "absent" => attempts[e] = 0

(* The inductive invariant of the outbox.                                  *)
OutboxInv == NoStrandedEvent /\ Leases /\ Attempts /\ Deliveries /\ Spent

(* A process that lost its lease no longer touches the row: whatever it    *)
(* does for an event that another process owns or that is settled, the row *)
(* stays as it is.                                                         *)
LateWorkerHarmless ==
  [][\A w \in Workers, e \in Events :
       job[w][e] # "none" /\ job'[w][e] # job[w][e] /\ lockedBy[e] # w =>
         UNCHANGED <<status[e], attempts[e], lockedBy[e], due[e], stale[e]>>]_vars

(* The outbox keeps the contract of MailContract.                          *)
Verdict(e) ==
  CASE status[e] = "absent"    -> "none"
    [] status[e] = "COMPLETED" -> "done"
    [] status[e] = "FAILED"    -> "givenUp"
    [] OTHER                   -> "open"

Contract == INSTANCE MailContract WITH
  verdict <- [e \in Events |-> Verdict(e)], tries <- attempts, copies <- copies

(* Every step of the outbox is a step its contract allows, or none: a mail *)
(* is COMPLETED only after a copy of it went out, FAILED only when every   *)
(* attempt is used, and stays so.                                          *)
KeepsContract == Contract!Spec

(* No mail goes out twice unless a process died while it handled the mail, *)
(* outlived its lease, or lost an answer: a delivery that merely fails and *)
(* is tried again by whichever process polls first is no reason.           *)
NoDuplicate == \A e \in Events \ mishaps : Cardinality(copies[e]) <= 1

(* As long as some process keeps running, every event that was enqueued is *)
(* in the end COMPLETED or FAILED, whatever crashes left behind.           *)
EventuallySettled ==
  <>[](\E w \in Workers : proc[w] = "up") =>
    \A e \in Events : status[e] = "PENDING" ~> status[e] \in {"COMPLETED", "FAILED"}
=============================================================================
