---------------------------- MODULE OutboxProofs ----------------------------
(***************************************************************************)
(* Proofs about the outbox, for any sets of events and processes, any      *)
(* number of attempts and any combination of faults.                       *)
(***************************************************************************)
EXTENDS Outbox, FiniteSetTheorems, TLAPS

IInv == TypeOK /\ OutboxInv

(* The table starts empty, with no process running.                        *)
LEMMA InitIInv == Init => IInv
<1> SUFFICES ASSUME Init PROVE IInv
  OBVIOUS
<1> USE OutboxAssumption DEF Init
<1>1. TypeOK
  BY DEF TypeOK, Statuses, Lives, Steps
<1>2. NoStrandedEvent /\ Spent
  BY DEF NoStrandedEvent, Spent
<1>3. Leases
  BY DEF Leases
<1>4. Attempts /\ Deliveries
  BY DEF Attempts, Deliveries
<1> QED
  BY <1>1, <1>2, <1>3, <1>4 DEF IInv, OutboxInv

(* What one more step of the handling of one event does to all jobs.       *)
LEMMA JobStep ==
  ASSUME TypeOK, NEW w \in Workers, NEW e \in Events, NEW s \in Steps,
         job' = [job EXCEPT ![w][e] = s]
  PROVE  /\ job' \in [Workers -> [Events -> Steps]]
         /\ \A v \in Workers, f \in Events :
              job'[v][f] = IF v = w /\ f = e THEN s ELSE job[v][f]
  BY DEF TypeOK

(* Inserting a row, and the passing of time, keep the invariant.           *)
LEMMA TimeKeepsIInv ==
  ASSUME IInv, NEW e \in Events, Enqueue(e) \/ BecomeDue(e) \/ LeaseExpires(e)
  PROVE  IInv'
<1> USE OutboxAssumption DEF IInv, OutboxInv, Enqueue, BecomeDue, LeaseExpires
<1>1. TypeOK'
  BY DEF TypeOK, Statuses
<1>2. NoStrandedEvent' /\ Spent'
  BY DEF TypeOK, NoStrandedEvent, Spent
<1>3. Leases'
  BY DEF TypeOK, Leases
<1>4. Attempts'
  BY DEF TypeOK, Attempts
<1>5. Deliveries'
  BY DEF TypeOK, Deliveries
<1> QED
  BY <1>1, <1>2, <1>3, <1>4, <1>5

(* The start and the end of a process keep the invariant: a crash leaves   *)
(* rows locked by a process that is gone.                                  *)
LEMMA LifeKeepsIInv ==
  ASSUME IInv, NEW w \in Workers, Start(w) \/ Stop(w) \/ Crash(w)
  PROVE  IInv'
<1> USE OutboxAssumption DEF IInv, OutboxInv
<1>1. /\ UNCHANGED <<status, attempts, lockedBy, due, stale, held, copies>>
      /\ proc' \in [Workers -> Lives]
      /\ \A v \in Workers : v # w => proc'[v] = proc[v]
      /\ proc'[w] # "new"
      /\ mishaps' \subseteq Events
  BY DEF TypeOK, Lives, Start, Stop, Crash, rowVars
<1>2. /\ job' \in [Workers -> [Events -> Steps]]
      /\ \A v \in Workers, f \in Events : job'[v][f] \in {job[v][f], "none"}
      /\ \A v \in Workers, f \in Events : proc'[v] = "up" => job'[v][f] = job[v][f]
      /\ proc'[w] = "up" => proc[w] = "new"
  <2>1. CASE Start(w) \/ Stop(w)
    BY <2>1 DEF TypeOK, Start, Stop
  <2>2. CASE Crash(w)
    BY <2>2 DEF TypeOK, Crash, Steps, Lives
  <2> QED
    BY <2>1, <2>2
<1>3. TypeOK'
  BY <1>1, <1>2 DEF TypeOK
<1>4. NoStrandedEvent' /\ Spent'
  BY <1>1 DEF NoStrandedEvent, Spent
<1>5. Leases'
  BY <1>1, <1>2 DEF TypeOK, Leases
<1>6. \A f \in Events : job'[w][f] # "none" => proc'[w] = "up"
  <2>1. CASE Start(w)
    BY <2>1 DEF TypeOK, Start
  <2>2. CASE Stop(w)
    BY <2>2 DEF TypeOK, Stop, Idle
  <2>3. CASE Crash(w)
    BY <2>3 DEF TypeOK, Crash
  <2> QED
    BY <2>1, <2>2, <2>3
<1>7. Attempts'
  BY <1>1, <1>2, <1>6 DEF TypeOK, Attempts
<1>8. Deliveries'
  BY <1>1, <1>2 DEF TypeOK, Deliveries
<1> QED
  BY <1>3, <1>4, <1>5, <1>7, <1>8

(* Claiming a batch keeps the invariant: each claimed row counts one more  *)
(* attempt, which no other process holds.                                  *)
LEMMA ClaimKeepsIInv ==
  ASSUME IInv, NEW w \in Workers, NEW S \in SUBSET Events, ClaimBatch(w, S)
  PROVE  IInv'
<1> USE OutboxAssumption DEF IInv, OutboxInv
<1> DEFINE X == Exhausted
<1>1. /\ proc[w] = "up"
      /\ UNCHANGED <<due, proc, copies, mishaps>>
      /\ \A f \in Events : job[w][f] = "none"
  BY DEF ClaimBatch, Idle
<1>2. \A f \in S :
        /\ f \in Events /\ attempts[f] < MaxAttempts /\ f \notin X
        /\ status[f] \in {"PENDING", "PROCESSING"}
  BY DEF ClaimBatch, Batch, Candidates, Exhausted, TypeOK
<1>3. \A f \in X : f \in Events /\ status[f] = "PROCESSING" /\ attempts[f] = MaxAttempts
  <2> SUFFICES ASSUME NEW f \in X
               PROVE  f \in Events /\ status[f] = "PROCESSING" /\ attempts[f] = MaxAttempts
    OBVIOUS
  <2>1. f \in Events /\ status[f] = "PROCESSING" /\ attempts[f] >= MaxAttempts
    BY DEF Exhausted
  <2>2. attempts[f] \in 0 .. MaxAttempts /\ MaxAttempts \in Nat
    BY <2>1 DEF TypeOK
  <2> QED
    BY <2>1, <2>2
<1> HIDE DEF X
<1>4. \A f \in Events :
        /\ status'[f] = IF f \in S THEN "PROCESSING" ELSE IF f \in X THEN "FAILED" ELSE status[f]
        /\ lockedBy'[f] = IF f \in S THEN w ELSE IF f \in X THEN Nobody ELSE lockedBy[f]
        /\ attempts'[f] = IF f \in S THEN attempts[f] + 1 ELSE attempts[f]
  BY DEF ClaimBatch, X
<1>5. \A v \in Workers, f \in Events :
        /\ job'[v][f] = IF v # w THEN job[v][f] ELSE IF f \in S THEN "claimed" ELSE "none"
        /\ held'[v][f] = IF v = w /\ f \in S THEN attempts[f] + 1 ELSE held[v][f]
  BY DEF ClaimBatch, CopyOfAttempts, TypeOK
<1>6. TypeOK'
  <2>1. status' \in [Events -> Statuses] /\ lockedBy' \in [Events -> Workers \union {Nobody}]
    BY DEF ClaimBatch, TypeOK, Statuses
  <2>2. attempts' \in [Events -> 0 .. MaxAttempts]
    BY <1>2 DEF ClaimBatch, TypeOK
  <2>3. stale' \in [Events -> BOOLEAN]
    BY DEF ClaimBatch, TypeOK
  <2>4. job' \in [Workers -> [Events -> Steps]]
    BY DEF ClaimBatch, TypeOK, Steps
  <2>5. held' \in [Workers -> [Events -> 0 .. MaxAttempts]]
    <3>1. [f \in Events |-> IF f \in S THEN attempts[f] + 1 ELSE held[w][f]]
            \in [Events -> 0 .. MaxAttempts]
      BY <1>2 DEF TypeOK
    <3> QED
      BY <3>1 DEF ClaimBatch, CopyOfAttempts, TypeOK
  <2> QED
    BY <1>1, <2>1, <2>2, <2>3, <2>4, <2>5 DEF TypeOK
<1>7. NoStrandedEvent' /\ Spent'
  BY <1>2, <1>3, <1>4 DEF TypeOK, NoStrandedEvent, Spent
<1>8. Leases'
  <2> SUFFICES ASSUME NEW f \in Events
               PROVE  /\ status'[f] = "PROCESSING" <=> lockedBy'[f] \in Workers
                      /\ status'[f] = "PROCESSING" => attempts'[f] > 0
                      /\ \A v \in Workers :
                           /\ lockedBy'[f] = v => proc'[v] # "new"
                           /\ lockedBy'[f] = v /\ proc'[v] = "up" =>
                                job'[v][f] # "none" /\ held'[v][f] = attempts'[f]
    BY DEF Leases
  <2>1. CASE f \in S
    BY <2>1, <1>1, <1>4, <1>5 DEF TypeOK
  <2>2. CASE f \notin S /\ f \in X
    BY <2>2, <1>4
  <2>3. CASE f \notin S /\ f \notin X
    BY <2>3, <1>1, <1>4, <1>5 DEF TypeOK, Leases
  <2> QED
    BY <2>1, <2>2, <2>3
<1>9. Attempts'
  <2>1. \A v \in Workers, f \in Events :
          job'[v][f] # "none" => proc'[v] = "up" /\ held'[v][f] \in 1 .. attempts'[f]
    <3> SUFFICES ASSUME NEW v \in Workers, NEW f \in Events, job'[v][f] # "none"
                 PROVE  proc'[v] = "up" /\ held'[v][f] \in 1 .. attempts'[f]
      OBVIOUS
    <3>1. attempts[f] \in Nat /\ attempts'[f] \in {attempts[f], attempts[f] + 1}
      BY <1>4 DEF TypeOK
    <3>2. CASE v = w
      BY <3>1, <3>2, <1>1, <1>4, <1>5
    <3>3. CASE v # w
      <4>1. job[v][f] # "none" /\ held'[v][f] = held[v][f]
        BY <3>3, <1>5
      <4>2. proc[v] = "up" /\ held[v][f] \in 1 .. attempts[f]
        BY <4>1 DEF Attempts
      <4> QED
        BY <3>1, <4>1, <4>2, <1>1
    <3> QED
      BY <3>2, <3>3
  <2>2. \A u, v \in Workers, f \in Events :
          u # v /\ job'[u][f] # "none" /\ job'[v][f] # "none" => held'[u][f] # held'[v][f]
    <3> SUFFICES ASSUME NEW u \in Workers, NEW v \in Workers, NEW f \in Events, u # v,
                        job'[u][f] # "none", job'[v][f] # "none"
                 PROVE  held'[u][f] # held'[v][f]
      OBVIOUS
    <3>1. \A x \in Workers : x # w /\ job'[x][f] # "none" =>
            held'[x][f] = held[x][f] /\ held[x][f] \in 1 .. attempts[f] /\ job[x][f] # "none"
      BY <1>5 DEF Attempts
    <3>2. job'[w][f] # "none" => held'[w][f] = attempts[f] + 1
      BY <1>5
    <3>3. attempts[f] \in Nat
      BY DEF TypeOK
    <3>4. CASE u = w
      <4>1. held'[v][f] \in 1 .. attempts[f] /\ held'[u][f] = attempts[f] + 1
        BY <3>1, <3>2, <3>4
      <4> QED
        BY <4>1, <3>3
    <3>5. CASE v = w
      <4>1. held'[u][f] \in 1 .. attempts[f] /\ held'[v][f] = attempts[f] + 1
        BY <3>1, <3>2, <3>5
      <4> QED
        BY <4>1, <3>3
    <3>6. CASE u # w /\ v # w
      BY <3>1, <3>6 DEF Attempts
    <3> QED
      BY <3>4, <3>5, <3>6
  <2> QED
    BY <2>1, <2>2 DEF Attempts
<1>10. Deliveries'
  <2>1. ASSUME NEW f \in Events
        PROVE  /\ copies[f] \subseteq 1 .. attempts[f]
               /\ attempts[f] \in Nat
               /\ attempts'[f] \in {attempts[f], attempts[f] + 1}
    BY <1>4 DEF TypeOK, Deliveries
  <2>2. \A f \in Events : copies'[f] \subseteq 1 .. attempts'[f]
    BY <2>1, <1>1
  <2>3. \A f \in Events : status'[f] = "COMPLETED" => copies'[f] # {}
    BY <1>1, <1>4 DEF Deliveries
  <2>4. \A f \in S : held'[w][f] \notin copies'[f]
    BY <2>1, <1>1, <1>2, <1>5
  <2>5. \A v \in Workers, f \in Events : job'[v][f] = "claimed" => held'[v][f] \notin copies'[f]
    BY <2>4, <1>1, <1>5 DEF Deliveries
  <2>6. \A v \in Workers, f \in Events : job'[v][f] = "sent" => held'[v][f] \in copies'[f]
    BY <1>1, <1>5 DEF Deliveries
  <2> QED
    BY <2>2, <2>3, <2>5, <2>6 DEF Deliveries
<1> QED
  BY <1>6, <1>7, <1>8, <1>9, <1>10

(* Sending keeps the invariant: the copy is that of the attempt held.      *)
LEMMA SendKeepsIInv ==
  ASSUME IInv, NEW w \in Workers, NEW e \in Events, SendMail(w, e)
  PROVE  IInv'
<1> USE OutboxAssumption DEF IInv, OutboxInv
<1>1. /\ UNCHANGED <<status, attempts, lockedBy, due, stale, proc, held>>
      /\ job[w][e] = "claimed"
      /\ mishaps' \subseteq Events
  BY DEF SendMail, LoseAnswer, rowVars, TypeOK
<1>2. held[w][e] \in 1 .. attempts[e] /\ attempts[e] \in 0 .. MaxAttempts
  BY <1>1 DEF TypeOK, Attempts
<1>3. PICK s \in {"sent", "failed"} :
        /\ job' = [job EXCEPT ![w][e] = s]
        /\ \/ copies' = [copies EXCEPT ![e] = @ \union {held[w][e]}]
           \/ copies' = copies /\ s = "failed"
  BY DEF SendMail, LoseAnswer
<1>4. /\ job' \in [Workers -> [Events -> Steps]]
      /\ \A v \in Workers, f \in Events :
           job'[v][f] = IF v = w /\ f = e THEN s ELSE job[v][f]
  <2>1. s \in Steps /\ TypeOK
    BY DEF Steps
  <2> QED
    BY <2>1, <1>3, JobStep
<1>5. /\ copies' \in [Events -> SUBSET (1 .. MaxAttempts)]
      /\ \A f \in Events : copies[f] \subseteq copies'[f]
      /\ \A f \in Events : copies'[f] \subseteq copies[f] \union {held[w][e]}
      /\ \A f \in Events : f # e => copies'[f] = copies[f]
      /\ s = "sent" => held[w][e] \in copies'[e]
  <2>1. held[w][e] \in 1 .. MaxAttempts
    BY <1>2
  <2>2. CASE copies' = [copies EXCEPT ![e] = @ \union {held[w][e]}]
    BY <2>1, <2>2 DEF TypeOK
  <2>3. CASE copies' = copies /\ s = "failed"
    BY <2>3 DEF TypeOK
  <2> QED
    BY <1>3, <2>2, <2>3
<1>6. TypeOK'
  BY <1>1, <1>4, <1>5 DEF TypeOK
<1>7. NoStrandedEvent' /\ Spent'
  BY <1>1 DEF NoStrandedEvent, Spent
<1>8. Leases'
  BY <1>1, <1>3, <1>4 DEF Leases
<1>9. Attempts'
  BY <1>1, <1>4 DEF Attempts
<1>10. Deliveries'
  <2>1. \A f \in Events : copies'[f] \subseteq 1 .. attempts'[f]
    BY <1>1, <1>2, <1>5 DEF Deliveries
  <2>2. \A f \in Events : status'[f] = "COMPLETED" => copies'[f] # {}
    BY <1>1, <1>5 DEF Deliveries
  <2>3. ASSUME NEW v \in Workers, NEW f \in Events, job'[v][f] = "claimed"
        PROVE  held'[v][f] \notin copies'[f]
    <3>1. ~(v = w /\ f = e) /\ job[v][f] = "claimed"
      BY <2>3, <1>3, <1>4
    <3>2. f = e => held[v][f] # held[w][e]
      BY <3>1, <1>1 DEF Attempts
    <3> QED
      BY <3>1, <3>2, <1>1, <1>5 DEF Deliveries
  <2>4. ASSUME NEW v \in Workers, NEW f \in Events, job'[v][f] = "sent"
        PROVE  held'[v][f] \in copies'[f]
    BY <2>4, <1>1, <1>4, <1>5 DEF Deliveries
  <2> QED
    BY <2>1, <2>2, <2>3, <2>4 DEF Deliveries
<1> QED
  BY <1>6, <1>7, <1>8, <1>9, <1>10

(* A mark changes at most the row it is about, and only for its owner.     *)
LEMMA MarkStep ==
  ASSUME TypeOK, NEW e \in Events, NEW s \in Statuses, SetStatus(e, s)
  PROVE  /\ status' \in [Events -> Statuses]
         /\ lockedBy' \in [Events -> Workers \union {Nobody}]
         /\ stale' \in [Events -> BOOLEAN]
         /\ \A f \in Events : status'[f] = IF f = e THEN s ELSE status[f]
         /\ \A f \in Events : lockedBy'[f] = IF f = e THEN Nobody ELSE lockedBy[f]
  BY DEF TypeOK, SetStatus

(* A completion keeps the invariant: the row becomes COMPLETED only when   *)
(* this process still owns it, and then its copy went out.                 *)
LEMMA CompleteKeepsIInv ==
  ASSUME IInv, NEW w \in Workers, NEW e \in Events, MarkCompleted(w, e)
  PROVE  IInv'
<1> USE OutboxAssumption DEF IInv, OutboxInv
<1>1. /\ job[w][e] = "sent" /\ UNCHANGED <<attempts, due, proc, held, copies>>
      /\ mishaps' \subseteq Events
  BY DEF MarkCompleted, LoseAnswer, TypeOK
<1>2. PICK s \in {"none", "failed"} :
        /\ job' = [job EXCEPT ![w][e] = s]
        /\ \/ Owns(w, e) /\ SetStatus(e, "COMPLETED")
           \/ UNCHANGED <<status, lockedBy, stale>> /\ (Owns(w, e) => s = "failed")
  BY DEF MarkCompleted, LoseAnswer
<1>3. /\ job' \in [Workers -> [Events -> Steps]]
      /\ \A v \in Workers, f \in Events :
           job'[v][f] = IF v = w /\ f = e THEN s ELSE job[v][f]
  <2>1. s \in Steps /\ TypeOK
    BY DEF Steps
  <2> QED
    BY <2>1, <1>2, JobStep
<1>4. CASE Owns(w, e) /\ SetStatus(e, "COMPLETED")
  <2>1. /\ status' \in [Events -> Statuses]
        /\ lockedBy' \in [Events -> Workers \union {Nobody}]
        /\ stale' \in [Events -> BOOLEAN]
        /\ \A f \in Events : status'[f] = IF f = e THEN "COMPLETED" ELSE status[f]
        /\ \A f \in Events : lockedBy'[f] = IF f = e THEN Nobody ELSE lockedBy[f]
    BY <1>4, MarkStep DEF Statuses
  <2>2. TypeOK'
    BY <2>1, <1>1, <1>3 DEF TypeOK
  <2>3. NoStrandedEvent' /\ Spent'
    BY <2>1, <1>1 DEF NoStrandedEvent, Spent
  <2>4. Leases'
    BY <2>1, <1>1, <1>3 DEF Leases
  <2>5. Attempts'
    BY <1>1, <1>3 DEF Attempts
  <2>6. Deliveries'
    <3>1. copies[e] # {}
      BY <1>1 DEF Deliveries
    <3> QED
      BY <3>1, <2>1, <1>1, <1>2, <1>3 DEF Deliveries
  <2> QED
    BY <2>2, <2>3, <2>4, <2>5, <2>6
<1>5. CASE UNCHANGED <<status, lockedBy, stale>> /\ (Owns(w, e) => s = "failed")
  <2>1. TypeOK'
    BY <1>5, <1>1, <1>3 DEF TypeOK
  <2>2. NoStrandedEvent' /\ Spent'
    BY <1>5, <1>1 DEF NoStrandedEvent, Spent
  <2>3. Leases'
    BY <1>5, <1>1, <1>3 DEF Leases, Owns
  <2>4. Attempts'
    BY <1>1, <1>3 DEF Attempts
  <2>5. Deliveries'
    BY <1>5, <1>1, <1>3 DEF Deliveries
  <2> QED
    BY <2>1, <2>2, <2>3, <2>4, <2>5
<1> QED
  BY <1>2, <1>4, <1>5

(* A failed delivery keeps the invariant: the attempt the process holds is *)
(* the row's when it owns the row, so the verdict is taken on the row's    *)
(* own count.                                                              *)
LEMMA FailKeepsIInv ==
  ASSUME IInv, NEW w \in Workers, NEW e \in Events, MarkDeliveryFailed(w, e)
  PROVE  IInv'
<1> USE OutboxAssumption DEF IInv, OutboxInv
<1>1. /\ job[w][e] = "failed"
      /\ job' = [job EXCEPT ![w][e] = "none"]
      /\ UNCHANGED <<attempts, proc, held, copies, mishaps>>
  BY DEF MarkDeliveryFailed
<1>2. /\ job' \in [Workers -> [Events -> Steps]]
      /\ \A v \in Workers, f \in Events :
           job'[v][f] = IF v = w /\ f = e THEN "none" ELSE job[v][f]
  <2>1. "none" \in Steps /\ TypeOK
    BY DEF Steps
  <2> QED
    BY <2>1, <1>1, JobStep
<1>3. CASE Owns(w, e)
  <2> DEFINE s == IF Terminal(w, e) THEN "FAILED" ELSE "PENDING"
  <2>1. held[w][e] = attempts[e] /\ attempts[e] \in 1 .. MaxAttempts
    BY <1>1, <1>3 DEF Owns, Leases, Attempts, TypeOK
  <2>2. SetStatus(e, s) /\ s \in Statuses /\ due' \in [Events -> BOOLEAN]
    BY <1>3 DEF MarkDeliveryFailed, Statuses, TypeOK
  <2>3. /\ s = "FAILED" => attempts[e] = MaxAttempts
        /\ s = "PENDING" => attempts[e] < MaxAttempts
        /\ s \in {"PENDING", "FAILED"}
    BY <2>1 DEF Terminal
  <2> HIDE DEF s
  <2>4. /\ status' \in [Events -> Statuses]
        /\ lockedBy' \in [Events -> Workers \union {Nobody}]
        /\ stale' \in [Events -> BOOLEAN]
        /\ \A f \in Events : status'[f] = IF f = e THEN s ELSE status[f]
        /\ \A f \in Events : lockedBy'[f] = IF f = e THEN Nobody ELSE lockedBy[f]
    BY <2>2, MarkStep
  <2>5. TypeOK'
    BY <2>2, <2>4, <1>1, <1>2 DEF TypeOK
  <2>6. NoStrandedEvent' /\ Spent'
    BY <2>3, <2>4, <1>1 DEF NoStrandedEvent, Spent
  <2>7. Leases'
    BY <2>3, <2>4, <1>1, <1>2 DEF Leases
  <2>8. Attempts'
    BY <1>1, <1>2 DEF Attempts
  <2>9. Deliveries'
    BY <2>3, <2>4, <1>1, <1>2 DEF Deliveries
  <2> QED
    BY <2>5, <2>6, <2>7, <2>8, <2>9
<1>4. CASE ~Owns(w, e)
  <2>1. UNCHANGED <<status, lockedBy, stale, due>>
    BY <1>4 DEF MarkDeliveryFailed
  <2>2. TypeOK'
    BY <2>1, <1>1, <1>2 DEF TypeOK
  <2>3. NoStrandedEvent' /\ Spent'
    BY <2>1, <1>1 DEF NoStrandedEvent, Spent
  <2>4. Leases'
    BY <2>1, <1>1, <1>2, <1>4 DEF Leases, Owns
  <2>5. Attempts'
    BY <1>1, <1>2 DEF Attempts
  <2>6. Deliveries'
    BY <2>1, <1>1, <1>2 DEF Deliveries
  <2> QED
    BY <2>2, <2>3, <2>4, <2>5, <2>6
<1> QED
  BY <1>3, <1>4

(* Every step keeps the invariant.                                         *)
LEMMA StepKeepsIInv == IInv /\ [Next]_vars => IInv'
<1> SUFFICES ASSUME IInv, [Next]_vars PROVE IInv'
  OBVIOUS
<1>1. ASSUME NEW e \in Events, Enqueue(e) \/ BecomeDue(e) \/ LeaseExpires(e) PROVE IInv'
  BY <1>1, TimeKeepsIInv
<1>2. ASSUME NEW w \in Workers, Start(w) \/ Stop(w) \/ Crash(w) PROVE IInv'
  BY <1>2, LifeKeepsIInv
<1>3. ASSUME NEW w \in Workers, NEW S \in SUBSET Events, ClaimBatch(w, S) PROVE IInv'
  BY <1>3, ClaimKeepsIInv
<1>4. ASSUME NEW w \in Workers, NEW e \in Events, Handle(w, e) PROVE IInv'
  BY <1>4, SendKeepsIInv, CompleteKeepsIInv, FailKeepsIInv DEF Handle
<1>5. CASE UNCHANGED vars
  BY <1>5 DEF vars, IInv, TypeOK, OutboxInv, NoStrandedEvent, Spent, Leases, Attempts, Deliveries
<1> QED
  BY <1>1, <1>2, <1>3, <1>4, <1>5 DEF Next

(* The outbox keeps its inductive invariant.                               *)
THEOREM Invariance == Spec => []IInv
<1> QED
  BY InitIInv, StepKeepsIInv, PTL DEF Spec

-----------------------------------------------------------------------------
(* An event no fault has touched: its lease is alive, whoever handles it   *)
(* owns its row, and its one copy is out only when the row says so or its  *)
(* owner is about to say so.                                               *)
Held(e) ==
  /\ ~stale[e]
  /\ \A w \in Workers : lockedBy[e] = w => proc[w] = "up"
  /\ \A w \in Workers : job[w][e] # "none" => Owns(w, e)

OneCopy(e) ==
  \/ copies[e] = {}
  \/ /\ \E n : copies[e] = {n}
     /\ status[e] = "COMPLETED" \/ \E w \in Workers : lockedBy[e] = w /\ job[w][e] = "sent"

Clean == \A e \in Events \ mishaps : Held(e) /\ OneCopy(e)

(* A producer or the passing of time keeps untouched events clean.         *)
LEMMA TimeKeepsClean ==
  ASSUME IInv, Clean, NEW e \in Events, Enqueue(e) \/ BecomeDue(e) \/ LeaseExpires(e)
  PROVE  Clean'
<1> SUFFICES ASSUME NEW f \in Events \ mishaps' PROVE Held(f)' /\ OneCopy(f)'
  BY DEF Clean
<1> USE OutboxAssumption DEF IInv, OutboxInv
<1>1. Held(f) /\ OneCopy(f) /\ f \in Events \ mishaps
  BY DEF Clean, Enqueue, BecomeDue, LeaseExpires
<1>2. CASE Enqueue(e)
  BY <1>1, <1>2 DEF Enqueue, Held, OneCopy, Owns, Leases, TypeOK
<1>3. CASE BecomeDue(e)
  BY <1>1, <1>3 DEF BecomeDue, Held, OneCopy, Owns
<1>4. CASE LeaseExpires(e)
  <2>1. lockedBy[e] \in Workers
    BY <1>4 DEF LeaseExpires, Leases
  <2>2. f # e
    BY <1>1, <1>4, <2>1 DEF LeaseExpires, Held
  <2> QED
    BY <1>1, <1>4, <2>2 DEF LeaseExpires, Held, OneCopy, Owns, TypeOK
<1> QED
  BY <1>2, <1>3, <1>4

(* A process that ends in an orderly way holds nothing; what a crash       *)
(* leaves behind is touched by a fault.                                    *)
LEMMA LifeKeepsClean ==
  ASSUME IInv, Clean, NEW w \in Workers, Start(w) \/ Stop(w) \/ Crash(w)
  PROVE  Clean'
<1> SUFFICES ASSUME NEW f \in Events \ mishaps' PROVE Held(f)' /\ OneCopy(f)'
  BY DEF Clean
<1> USE OutboxAssumption DEF IInv, OutboxInv
<1>1. Held(f) /\ OneCopy(f) /\ f \in Events \ mishaps
  BY DEF Clean, Start, Stop, Crash
<1>2. CASE Start(w)
  BY <1>1, <1>2 DEF Start, Held, OneCopy, Owns, rowVars, TypeOK
<1>3. CASE Stop(w)
  <2>1. lockedBy[f] # w
    BY <1>3 DEF Stop, Idle, Leases
  <2> QED
    BY <1>1, <1>3, <2>1 DEF Stop, Held, OneCopy, Owns, rowVars, TypeOK
<1>4. CASE Crash(w)
  <2>1. job[w][f] = "none"
    BY <1>4 DEF Crash
  <2>2. lockedBy[f] # w
    BY <1>4, <2>1 DEF Crash, Leases
  <2>3. \A v \in Workers : job'[v][f] = job[v][f]
    BY <1>4, <2>1 DEF Crash, TypeOK
  <2> QED
    BY <1>1, <1>4, <2>2, <2>3 DEF Crash, Held, OneCopy, Owns, rowVars, TypeOK
<1> QED
  BY <1>2, <1>3, <1>4

(* Only an event without a copy is claimed while it is untouched.          *)
LEMMA ClaimKeepsClean ==
  ASSUME IInv, Clean, NEW w \in Workers, NEW S \in SUBSET Events, ClaimBatch(w, S)
  PROVE  Clean'
<1> SUFFICES ASSUME NEW f \in Events \ mishaps' PROVE Held(f)' /\ OneCopy(f)'
  BY DEF Clean
<1> USE OutboxAssumption DEF IInv, OutboxInv
<1>1. Held(f) /\ OneCopy(f) /\ proc[w] = "up" /\ job[w][f] = "none"
  BY DEF Clean, ClaimBatch, Idle
<1>2. f \notin Exhausted /\ copies' = copies /\ proc' = proc
  BY <1>1 DEF Exhausted, Held, ClaimBatch
<1>3. CASE f \in S
  <2>1. status[f] = "PENDING"
    BY <1>1, <1>3 DEF ClaimBatch, Batch, Candidates, Held
  <2>2. \A v \in Workers : job[v][f] = "none"
    BY <1>1, <2>1 DEF Held, Owns
  <2>3. copies[f] = {}
    BY <1>1, <2>1, <2>2 DEF OneCopy
  <2>4. status'[f] = "PROCESSING" /\ lockedBy'[f] = w /\ stale'[f] = FALSE
    BY <1>3 DEF ClaimBatch
  <2>5. \A v \in Workers : v # w => job'[v][f] = job[v][f]
    BY DEF ClaimBatch, TypeOK
  <2> QED
    BY <1>1, <1>2, <2>2, <2>3, <2>4, <2>5 DEF Held, OneCopy, Owns
<1>4. CASE f \notin S
  <2>1. status'[f] = status[f] /\ lockedBy'[f] = lockedBy[f] /\ stale'[f] = FALSE
    BY <1>1, <1>2, <1>4 DEF ClaimBatch, Held
  <2>2. \A v \in Workers : job'[v][f] = job[v][f]
    BY <1>1, <1>4 DEF ClaimBatch, TypeOK
  <2> QED
    BY <1>1, <1>2, <2>1, <2>2 DEF Held, OneCopy, Owns
<1> QED
  BY <1>3, <1>4

(* The handling of an event that stays untouched: the first copy goes out  *)
(* for the owner, and the owner reports it.                                *)
LEMMA HandleKeepsClean ==
  ASSUME IInv, Clean, NEW w \in Workers, NEW e \in Events, Handle(w, e)
  PROVE  Clean'
<1> SUFFICES ASSUME NEW f \in Events \ mishaps' PROVE Held(f)' /\ OneCopy(f)'
  BY DEF Clean
<1> USE OutboxAssumption DEF IInv, OutboxInv
<1>1. Held(f) /\ OneCopy(f) /\ proc' = proc
  BY DEF Clean, Handle, SendMail, MarkCompleted, MarkDeliveryFailed, LoseAnswer
<1>2. job[w][e] # "none"
  BY DEF Handle, SendMail, MarkCompleted, MarkDeliveryFailed
<1>3. \A v \in Workers : v # w => job'[v][f] = job[v][f]
  BY DEF Handle, SendMail, MarkCompleted, MarkDeliveryFailed, LoseAnswer, TypeOK
<1>4. CASE f # e
  <2>1. /\ status'[f] = status[f] /\ lockedBy'[f] = lockedBy[f] /\ stale'[f] = stale[f]
        /\ copies'[f] = copies[f]
    BY <1>4 DEF Handle, SendMail, MarkCompleted, MarkDeliveryFailed, SetStatus, rowVars, TypeOK
  <2>2. \A v \in Workers : job'[v][f] = job[v][f]
    BY <1>3, <1>4 DEF Handle, SendMail, MarkCompleted, MarkDeliveryFailed, LoseAnswer, TypeOK
  <2> QED
    BY <1>1, <2>1, <2>2 DEF Held, OneCopy, Owns
<1>5. CASE f = e
  <2>1. Owns(w, f) /\ \A v \in Workers : v # w => job[v][f] = "none" /\ lockedBy[f] # v
    BY <1>1, <1>2, <1>5 DEF Held, Owns
  <2>2. job[w][f] # "sent" => copies[f] = {}
    BY <1>1, <2>1 DEF OneCopy, Owns
  <2>3. CASE SendMail(w, e)
    <3>1. /\ job'[w][f] \in {"sent", "failed"}
          /\ \/ job'[w][f] = "sent" /\ copies'[f] = copies[f] \union {held[w][f]}
             \/ job'[w][f] = "failed" /\ copies'[f] = copies[f]
      BY <1>5, <2>3 DEF SendMail, LoseAnswer, TypeOK
    <3>2. UNCHANGED <<status, lockedBy, stale>> /\ copies[f] = {}
      BY <1>5, <2>2, <2>3 DEF SendMail, rowVars
    <3> QED
      BY <1>1, <1>3, <2>1, <3>1, <3>2 DEF Held, OneCopy, Owns
  <2>4. CASE MarkCompleted(w, e)
    <3>1. /\ job'[w][f] = "none" /\ status'[f] = "COMPLETED" /\ lockedBy'[f] = Nobody
          /\ stale'[f] = FALSE /\ copies' = copies
      BY <1>5, <2>1, <2>4 DEF MarkCompleted, LoseAnswer, SetStatus, TypeOK
    <3> QED
      BY <1>1, <1>3, <2>1, <3>1 DEF Held, OneCopy, Owns
  <2>5. CASE MarkDeliveryFailed(w, e)
    <3>1. /\ job'[w][f] = "none" /\ lockedBy'[f] = Nobody /\ stale'[f] = FALSE
          /\ copies' = copies /\ copies[f] = {}
      BY <1>5, <2>1, <2>2, <2>5 DEF MarkDeliveryFailed, SetStatus, TypeOK
    <3> QED
      BY <1>3, <2>1, <3>1 DEF Held, OneCopy, Owns
  <2> QED
    BY <2>3, <2>4, <2>5 DEF Handle
<1> QED
  BY <1>4, <1>5

(* No second copy of a mail goes out unless a fault touched its event.     *)
THEOREM OnceUnlessFault == Spec => []NoDuplicate
<1>1. Init => Clean
  BY OutboxAssumption DEF Init, Clean, Held, OneCopy, Owns
<1>2. IInv /\ Clean /\ [Next]_vars => Clean'
  <2> SUFFICES ASSUME IInv, Clean, [Next]_vars PROVE Clean'
    OBVIOUS
  <2>1. ASSUME NEW e \in Events, Enqueue(e) \/ BecomeDue(e) \/ LeaseExpires(e) PROVE Clean'
    BY <2>1, TimeKeepsClean
  <2>2. ASSUME NEW w \in Workers, Start(w) \/ Stop(w) \/ Crash(w) PROVE Clean'
    BY <2>2, LifeKeepsClean
  <2>3. ASSUME NEW w \in Workers, NEW S \in SUBSET Events, ClaimBatch(w, S) PROVE Clean'
    BY <2>3, ClaimKeepsClean
  <2>4. ASSUME NEW w \in Workers, NEW e \in Events, Handle(w, e) PROVE Clean'
    BY <2>4, HandleKeepsClean
  <2>5. CASE UNCHANGED vars
    <3> SUFFICES ASSUME NEW f \in Events \ mishaps PROVE Held(f)' /\ OneCopy(f)'
      BY <2>5 DEF Clean, vars
    <3>1. Held(f) /\ OneCopy(f)
      BY DEF Clean
    <3> QED
      BY <2>5, <3>1 DEF vars, Held, OneCopy, Owns
  <2> QED
    BY <2>1, <2>2, <2>3, <2>4, <2>5 DEF Next
<1>3. Clean => NoDuplicate
  <2> SUFFICES ASSUME Clean, NEW e \in Events \ mishaps PROVE Cardinality(copies[e]) <= 1
    BY DEF NoDuplicate
  <2>1. copies[e] = {} \/ \E n : copies[e] = {n}
    BY DEF Clean, OneCopy
  <2>2. CASE copies[e] = {}
    <3>1. Cardinality(copies[e]) = 0
      BY <2>2, FS_EmptySet, Zenon
    <3> QED
      BY <3>1
  <2>3. ASSUME NEW n, copies[e] = {n} PROVE Cardinality(copies[e]) <= 1
    <3>1. Cardinality(copies[e]) = 1
      BY <2>3, FS_Singleton, Zenon
    <3> QED
      BY <3>1
  <2> QED
    BY <2>1, <2>2, <2>3
<1> QED
  BY <1>1, <1>2, <1>3, Invariance, PTL DEF Spec

-----------------------------------------------------------------------------
(* A process that lost its lease cannot touch the row any more: the only   *)
(* steps that handle an event for it leave the row of the event alone.     *)
THEOREM LateWorkers == Spec => LateWorkerHarmless
<1> DEFINE Harmless == \A w \in Workers, e \in Events :
             job[w][e] # "none" /\ job'[w][e] # job[w][e] /\ lockedBy[e] # w =>
               UNCHANGED <<status[e], attempts[e], lockedBy[e], due[e], stale[e]>>
<1>1. IInv /\ [Next]_vars => [Harmless]_vars
  <2> SUFFICES ASSUME IInv, Next,
                      NEW w \in Workers, NEW e \in Events,
                      job[w][e] # "none", job'[w][e] # job[w][e], lockedBy[e] # w
               PROVE  UNCHANGED <<status[e], attempts[e], lockedBy[e], due[e], stale[e]>>
    OBVIOUS
  <2>1. ASSUME NEW f \in Events, Enqueue(f) \/ BecomeDue(f) \/ LeaseExpires(f) PROVE FALSE
    BY <2>1 DEF Enqueue, BecomeDue, LeaseExpires
  <2>2. CASE \E v \in Workers : Start(v) \/ Stop(v) \/ Crash(v)
    BY <2>2 DEF Start, Stop, Crash, rowVars
  <2>3. ASSUME NEW v \in Workers, NEW S \in SUBSET Events, ClaimBatch(v, S) PROVE FALSE
    <3>1. CASE v = w
      BY <2>3, <3>1 DEF ClaimBatch, Idle
    <3>2. CASE v # w
      BY <2>3, <3>2 DEF ClaimBatch, IInv, TypeOK
    <3> QED
      BY <3>1, <3>2
  <2>4. ASSUME NEW v \in Workers, NEW f \in Events, Handle(v, f)
        PROVE  UNCHANGED <<status[e], attempts[e], lockedBy[e], due[e], stale[e]>>
    <3>1. v = w /\ f = e
      <4>1. PICK s \in Steps : job' = [job EXCEPT ![v][f] = s]
        BY <2>4 DEF Handle, SendMail, MarkCompleted, MarkDeliveryFailed, LoseAnswer, Steps
      <4>2. job'[w][e] = IF w = v /\ e = f THEN s ELSE job[w][e]
        <5>1. TypeOK
          BY DEF IInv
        <5> QED
          BY <5>1, <4>1, JobStep
      <4> QED
        BY <4>2
    <3>2. CASE SendMail(v, f)
      BY <3>2 DEF SendMail, rowVars
    <3>3. CASE MarkCompleted(v, f)
      BY <3>1, <3>3 DEF MarkCompleted, Owns
    <3>4. CASE MarkDeliveryFailed(v, f)
      BY <3>1, <3>4 DEF MarkDeliveryFailed, Owns
    <3> QED
      BY <2>4, <3>2, <3>3, <3>4 DEF Handle
  <2> QED
    BY <2>1, <2>2, <2>3, <2>4 DEF Next
<1> QED
  BY <1>1, Invariance, PTL DEF Spec, LateWorkerHarmless

-----------------------------------------------------------------------------
(* The refinement: the verdict the producer can learn moves only as the    *)
(* contract allows.                                                        *)
LEMMA VerdictValues ==
  ASSUME NEW e \in Events
  PROVE  /\ status[e] = "absent" => Verdict(e) = "none"
         /\ status[e] \in {"PENDING", "PROCESSING"} => Verdict(e) = "open"
         /\ status[e] = "COMPLETED" => Verdict(e) = "done"
         /\ status[e] = "FAILED" => Verdict(e) = "givenUp"
  BY DEF Verdict

(* An empty outbox is an empty contract.                                   *)
LEMMA InitRefines == Init => Contract!Init
  BY VerdictValues DEF Init, Contract!Init

(* Steps that touch none of what the contract sees are stutters of it.     *)
LEMMA Stutter ==
  ASSUME UNCHANGED <<status, attempts, copies>>
  PROVE  UNCHANGED Contract!contractVars
  BY DEF Contract!contractVars, Verdict

(* A row inserted is a mail promised.                                      *)
LEMMA EnqueueRefines ==
  ASSUME IInv, NEW e \in Events, Enqueue(e)
  PROVE  Contract!Next
<1>1. status[e] = "absent" /\ status' = [status EXCEPT ![e] = "PENDING"] /\ status'[e] = "PENDING"
  BY DEF Enqueue, IInv, TypeOK
<1>2. \A f \in Events : f # e => status'[f] = status[f]
  BY <1>1 DEF IInv, TypeOK
<1>3. \A f \in Events : Verdict(f)' = IF f = e THEN "open" ELSE Verdict(f)
  BY <1>1, <1>2 DEF Verdict
<1>4. Verdict(e) = "none"
  BY <1>1, VerdictValues
<1>5. [f \in Events |-> Verdict(f)]' = [[f \in Events |-> Verdict(f)] EXCEPT ![e] = "open"]
  BY <1>3
<1>6. Contract!Submit(e)
  BY <1>4, <1>5 DEF Contract!Submit, Enqueue
<1> QED
  BY <1>6 DEF Contract!Next

(* A claim starts tries and gives up on exhausted mails.                   *)
LEMMA ClaimRefines ==
  ASSUME IInv, NEW w \in Workers, NEW S \in SUBSET Events, ClaimBatch(w, S)
  PROVE  Contract!Next
<1> DEFINE X == Exhausted
<1>1. X \in SUBSET Events
  BY DEF Exhausted
<1>2. \A f \in X : status[f] = "PROCESSING" /\ attempts[f] = MaxAttempts
  <2> SUFFICES ASSUME NEW f \in X
               PROVE  status[f] = "PROCESSING" /\ attempts[f] = MaxAttempts
    OBVIOUS
  <2>1. f \in Events /\ status[f] = "PROCESSING" /\ attempts[f] >= MaxAttempts
    BY DEF Exhausted
  <2>2. attempts[f] \in 0 .. MaxAttempts /\ MaxAttempts \in Nat
    BY <2>1, OutboxAssumption DEF IInv, TypeOK
  <2> QED
    BY <2>1, <2>2
<1>3. \A f \in S : status[f] \in {"PENDING", "PROCESSING"} /\ attempts[f] < MaxAttempts
  BY DEF ClaimBatch, Batch, Candidates
<1>4. /\ \A f \in Events : status'[f] = IF f \in S THEN "PROCESSING"
                                       ELSE IF f \in X THEN "FAILED" ELSE status[f]
      /\ attempts' = [f \in Events |-> IF f \in S THEN attempts[f] + 1 ELSE attempts[f]]
      /\ UNCHANGED copies
  BY DEF ClaimBatch
<1> HIDE DEF X
<1>5. \A f \in Events : f \in S \union X => Verdict(f) = "open"
  BY <1>2, <1>3, VerdictValues
<1>6. \A f \in Events : Verdict(f)' = IF f \in X THEN "givenUp" ELSE Verdict(f)
  <2> SUFFICES ASSUME NEW f \in Events
               PROVE  Verdict(f)' = IF f \in X THEN "givenUp" ELSE Verdict(f)
    OBVIOUS
  <2>1. CASE f \in S
    <3>1. f \notin X
      BY <2>1, <1>2, <1>3, OutboxAssumption
    <3>2. Verdict(f)' = "open"
      BY <2>1, <1>4 DEF Verdict
    <3> QED
      BY <3>1, <3>2, <2>1, <1>5
  <2>2. CASE f \notin S
    BY <2>2, <1>4 DEF Verdict
  <2> QED
    BY <2>1, <2>2
<1>7. [f \in Events |-> Verdict(f)]'
        = [f \in Events |-> IF f \in X THEN "givenUp" ELSE [g \in Events |-> Verdict(g)][f]]
  BY <1>6
<1>8. Contract!Poll(X, S)
  BY <1>1, <1>2, <1>3, <1>4, <1>5, <1>7 DEF Contract!Poll
<1> QED
  BY <1>1, <1>8 DEF Contract!Next

(* The provider takes a copy, or the step does not show.                   *)
LEMMA SendRefines ==
  ASSUME IInv, NEW w \in Workers, NEW e \in Events, SendMail(w, e)
  PROVE  Contract!Next \/ UNCHANGED Contract!contractVars
<1>1. UNCHANGED <<status, attempts>> /\ job[w][e] = "claimed"
  BY DEF SendMail, rowVars
<1>2. CASE UNCHANGED copies
  BY <1>1, <1>2, Stutter
<1>3. CASE copies' = [copies EXCEPT ![e] = @ \union {held[w][e]}]
  <2>1. held[w][e] \in 1 .. attempts[e] /\ held[w][e] \notin copies[e]
    BY <1>1 DEF IInv, OutboxInv, Attempts, Deliveries
  <2>2. attempts[e] \in 0 .. MaxAttempts /\ MaxAttempts \in Nat
    BY OutboxAssumption DEF IInv, TypeOK
  <2>3. held[w][e] \in 1 .. MaxAttempts
    BY <2>1, <2>2
  <2>4. UNCHANGED [f \in Events |-> Verdict(f)]
    BY <1>1 DEF Verdict
  <2>5. Contract!Deliver(e, held[w][e])
    BY <1>1, <1>3, <2>1, <2>4 DEF Contract!Deliver
  <2> QED
    BY <2>3, <2>5 DEF Contract!Next
<1> QED
  BY <1>2, <1>3 DEF SendMail

(* A completion settles the mail, or does not show.                        *)
LEMMA CompleteRefines ==
  ASSUME IInv, NEW w \in Workers, NEW e \in Events, MarkCompleted(w, e)
  PROVE  Contract!Next \/ UNCHANGED Contract!contractVars
<1>1. UNCHANGED <<attempts, copies>> /\ job[w][e] = "sent"
  BY DEF MarkCompleted
<1>2. CASE UNCHANGED status
  BY <1>1, <1>2, Stutter
<1>3. CASE Owns(w, e) /\ SetStatus(e, "COMPLETED")
  <2>1. status[e] = "PROCESSING" /\ copies[e] # {}
    BY <1>1, <1>3 DEF Owns, IInv, OutboxInv, Deliveries
  <2>2. \A f \in Events : status'[f] = IF f = e THEN "COMPLETED" ELSE status[f]
    BY <1>3 DEF SetStatus, IInv, TypeOK
  <2>3. \A f \in Events : Verdict(f)' = IF f = e THEN "done" ELSE Verdict(f)
    BY <2>2 DEF Verdict
  <2>4. [f \in Events |-> Verdict(f)]' = [[f \in Events |-> Verdict(f)] EXCEPT ![e] = "done"]
    BY <2>3
  <2>5. Contract!Complete(e)
    BY <1>1, <2>1, <2>4, VerdictValues DEF Contract!Complete
  <2> QED
    BY <2>5 DEF Contract!Next
<1> QED
  BY <1>2, <1>3 DEF MarkCompleted

(* A failure gives the mail up, or does not show.                          *)
LEMMA FailRefines ==
  ASSUME IInv, NEW w \in Workers, NEW e \in Events, MarkDeliveryFailed(w, e)
  PROVE  Contract!Next \/ UNCHANGED Contract!contractVars
<1>1. UNCHANGED <<attempts, copies>> /\ job[w][e] = "failed"
  BY DEF MarkDeliveryFailed
<1>2. CASE ~Owns(w, e)
  BY <1>1, <1>2, Stutter DEF MarkDeliveryFailed
<1>3. CASE Owns(w, e)
  <2>1. status[e] = "PROCESSING" /\ held[w][e] = attempts[e] /\ attempts[e] \in 0 .. MaxAttempts
    BY <1>1, <1>3 DEF Owns, IInv, OutboxInv, Leases, Attempts, TypeOK
  <2>2. CASE Terminal(w, e)
    <3>1. attempts[e] = MaxAttempts
      BY <2>1, <2>2, OutboxAssumption DEF Terminal
    <3>2. \A f \in Events : status'[f] = IF f = e THEN "FAILED" ELSE status[f]
      BY <1>3, <2>2 DEF MarkDeliveryFailed, SetStatus, IInv, TypeOK
    <3>3. \A f \in Events : Verdict(f)' = IF f = e THEN "givenUp" ELSE Verdict(f)
      BY <3>2 DEF Verdict
    <3>4. [f \in Events |-> Verdict(f)]' = [[f \in Events |-> Verdict(f)] EXCEPT ![e] = "givenUp"]
      BY <3>3
    <3>5. Contract!GiveUp(e)
      BY <1>1, <2>1, <3>1, <3>4, VerdictValues DEF Contract!GiveUp
    <3> QED
      BY <3>5 DEF Contract!Next
  <2>3. CASE ~Terminal(w, e)
    <3>1. \A f \in Events : status'[f] = IF f = e THEN "PENDING" ELSE status[f]
      BY <1>3, <2>3 DEF MarkDeliveryFailed, SetStatus, IInv, TypeOK
    <3>2. \A f \in Events : Verdict(f)' = Verdict(f)
      BY <2>1, <3>1 DEF Verdict
    <3> QED
      BY <1>1, <3>2 DEF Contract!contractVars
  <2> QED
    BY <2>2, <2>3
<1> QED
  BY <1>2, <1>3

(* The outbox implements its contract: a mail is reported COMPLETED only   *)
(* after a copy of it went out, FAILED only after MaxAttempts attempts,    *)
(* each attempt sends at most one copy, and a verdict is never revised.    *)
THEOREM Refinement == Spec => KeepsContract
<1>1. IInv /\ [Next]_vars => [Contract!Next]_(Contract!contractVars)
  <2> SUFFICES ASSUME IInv, [Next]_vars
               PROVE  Contract!Next \/ UNCHANGED Contract!contractVars
    OBVIOUS
  <2>1. ASSUME NEW e \in Events, Enqueue(e)
        PROVE  Contract!Next
    BY <2>1, EnqueueRefines
  <2>2. CASE \/ \E e \in Events : BecomeDue(e) \/ LeaseExpires(e)
             \/ \E w \in Workers : Start(w) \/ Stop(w) \/ Crash(w)
             \/ UNCHANGED vars
    <3>1. UNCHANGED <<status, attempts, copies>>
      BY <2>2 DEF BecomeDue, LeaseExpires, Start, Stop, Crash, rowVars, vars
    <3> QED
      BY <3>1, Stutter
  <2>3. ASSUME NEW w \in Workers, NEW S \in SUBSET Events, ClaimBatch(w, S)
        PROVE  Contract!Next
    BY <2>3, ClaimRefines
  <2>4. ASSUME NEW w \in Workers, NEW e \in Events, Handle(w, e)
        PROVE  Contract!Next \/ UNCHANGED Contract!contractVars
    BY <2>4, SendRefines, CompleteRefines, FailRefines DEF Handle
  <2> QED
    BY <2>1, <2>2, <2>3, <2>4 DEF Next
<1> QED
  BY <1>1, InitRefines, Invariance, PTL DEF Spec, KeepsContract, Contract!Spec

(* Rows and workers stay within their types.                               *)
THEOREM Typing == Spec => []TypeOK
<1>1. IInv => TypeOK
  BY DEF IInv
<1> QED
  BY <1>1, Invariance, PTL

(* Leases, attempts and copies of a mail agree with the state of its row,  *)
(* whatever workers do.                                                    *)
THEOREM Leasing == Spec => []OutboxInv
<1>1. IInv => OutboxInv
  BY DEF IInv
<1> QED
  BY <1>1, Invariance, PTL
=============================================================================
