---------------------------- MODULE TimeTracking ----------------------------
(***************************************************************************)
(* Time entries and timers of tasks (task-time.service.ts over             *)
(* task-time.repository.ts).  Every element of Requests is one HTTP        *)
(* request; it first reads, outside any transaction, and then changes rows *)
(* in a transaction: it locks its entry (SELECT ... FOR UPDATE), writes    *)
(* it, locks the row of the entry's task by incrementing its total, and    *)
(* commits.  Each of these is a step, what it wrote is a draft until the   *)
(* commit, and the database holds its locks until then.  An inserted entry *)
(* only shares the key of its task, which the increment does not change,   *)
(* so inserts wait for nobody's increment.                                 *)
(*                                                                         *)
(* An element of Entries is the id of a row: whose it is and which task it *)
(* counts for never change, so both are constants.                         *)
(***************************************************************************)
EXTENDS TaskRequests, Integers, FiniteSetsExt

CONSTANTS
  Users, Entries,
  EntryUser,  \* EntryUser[e]: time_entries.userId
  EntryTask,  \* EntryTask[e]: time_entries.taskId
  Durations   \* lengths an entry can get, in seconds

ASSUME TimeAssumption ==
  /\ EntryUser \in [Entries -> Users]
  /\ EntryTask \in [Entries -> Tasks]
  /\ Durations \subseteq Nat \ {0}
  /\ Entries \intersect Tasks = {}
  /\ None \notin Requests \union Entries

VARIABLES
  phase,    \* phase[e]: "running" while endedAt is null, then "done"
  seconds,  \* seconds[e]: durationSeconds
  tracked,  \* tracked[t]: tasks.trackedSeconds
  counted,  \* counted[e]: what e contributed to tracked, for the properties
  lock,     \* lock[x]: the request whose transaction locks row x
  stage,    \* stage[r]: what request r does next, or how it ended
  wish,     \* wish[r]: the operation r asks for
  entry,    \* entry[r]: the entry r works on
  found,    \* found[r]: the row as r read it under its lock
  draft     \* draft[r]: the entry as r's transaction leaves it, not committed,
            \* and what it adds to the task's total

sums == <<tracked, counted>>
wishes == <<wish, entry>>
copies == <<found, draft>>
timeVars == <<phase, seconds, tracked, counted, lock, stage, wish, entry, found, draft>>

Phases == {"absent", "running", "done", "deleted"}
Stages == {"idle", "insert", "lock", "locked", "counting", "written",
           "granted", "refused", "lost"}
TimeOperations == {"none", "log", "start", "stop", "update", "remove"}
Rows == [phase : Phases, seconds : Durations \union {0}]
TimeDrafts == [phase : Phases, seconds : Durations \union {0}, delta : Int]

TimeTypeOK ==
  /\ phase \in [Entries -> Phases]
  /\ seconds \in [Entries -> Durations \union {0}]
  /\ tracked \in [Tasks -> Int]
  /\ counted \in [Entries -> Int]
  /\ lock \in [Entries \union Tasks -> Requests \union {None}]
  /\ stage \in [Requests -> Stages]
  /\ wish \in [Requests -> TimeOperations]
  /\ entry \in [Requests -> Entries \union {None}]
  /\ found \in [Requests -> Rows]
  /\ draft \in [Requests -> TimeDrafts]

TimeInit ==
  /\ phase = [e \in Entries |-> "absent"]
  /\ seconds = [e \in Entries |-> 0]
  /\ tracked = [t \in Tasks |-> 0]
  /\ counted = [e \in Entries |-> 0]
  /\ lock = [x \in Entries \union Tasks |-> None]
  /\ stage = [r \in Requests |-> "idle"]
  /\ wish = [r \in Requests |-> "none"]
  /\ entry = [r \in Requests |-> None]
  /\ found = [r \in Requests |-> [phase |-> "absent", seconds |-> 0]]
  /\ draft = [r \in Requests |-> [phase |-> "absent", seconds |-> 0, delta |-> 0]]

(* The request that comes next; which one is taken does not matter.        *)
Comes(r) == stage[r] = "idle" /\ r = CHOOSE q \in Requests : stage[q] = "idle"

Reach(r, place) == stage' = [stage EXCEPT ![r] = place]

(* A fresh id: no row has it and no request is about to insert it.         *)
FreshEntry(e) == phase[e] = "absent" /\ \A q \in Requests : entry[q] # e

Running(u) == {e \in Entries : EntryUser[e] = u /\ phase[e] = "running"}

Free(x) == lock[x] = None

(* A transaction ends, and the database lets go of what it locked.         *)
Release(r) == lock' = [x \in Entries \union Tasks |-> IF lock[x] = r THEN None ELSE lock[x]]

(* The entry is written, not committed: now the total of its task, if it   *)
(* changes.                                                                *)
Write(r, p, d, n) ==
  /\ draft' = [draft EXCEPT ![r] = [phase |-> p, seconds |-> d, delta |-> n]]
  /\ Reach(r, IF n = 0 THEN "written" ELSE "counting")

(* trackedSeconds: { increment }                                           *)
AddSeconds(e, n) ==
  /\ tracked' = [tracked EXCEPT ![EntryTask[e]] = @ + n]
  /\ counted' = [counted EXCEPT ![e] = @ + n]

-----------------------------------------------------------------------------
(* New entries.                                                            *)

(* The entry and the total of its task change in one transaction.          *)
LogTime(r, e, d) ==
  /\ Comes(r)
  /\ FreshEntry(e)
  /\ wish' = [wish EXCEPT ![r] = "log"]
  /\ entry' = [entry EXCEPT ![r] = e]
  /\ Write(r, "done", d, d)
  /\ UNCHANGED <<phase, seconds, sums, lock, found>>

StartRead(r, e) ==
  /\ Comes(r)
  /\ FreshEntry(e)
  /\ wish' = [wish EXCEPT ![r] = "start"]
  /\ entry' = [entry EXCEPT ![r] = e]
  /\ Reach(r, IF Running(EntryUser[e]) = {} THEN "insert" ELSE "refused")
  /\ UNCHANGED <<phase, seconds, sums, lock, copies>>

(* Mutant: no unique index on running entries.                             *)
TimerIndexAbsent(u) == FALSE

(* The partial unique index: one row per user whose endedAt is null.       *)
TimerIndexRefuses(u) == Running(u) # {}

(* The index waits for a transaction that has stopped or deleted the       *)
(* running entry and not committed.                                        *)
StartTimer(r) ==
  /\ stage[r] = "insert"
  /\ \A q \in Requests :
       stage[q] \in {"counting", "written"} => entry[q] \notin Running(EntryUser[entry[r]])
  /\ IF TimerIndexRefuses(EntryUser[entry[r]])
       THEN Reach(r, "refused") /\ UNCHANGED phase
       ELSE Reach(r, "granted") /\ phase' = [phase EXCEPT ![entry[r]] = "running"]
  /\ UNCHANGED <<seconds, sums, lock, wishes, copies>>

-----------------------------------------------------------------------------
(* Entries that exist: the check before the transaction.                   *)

Look(r, e, o) ==
  /\ Comes(r)
  /\ wish' = [wish EXCEPT ![r] = o]
  /\ entry' = [entry EXCEPT ![r] = e]
  /\ Reach(r, "lock")
  /\ UNCHANGED <<phase, seconds, sums, lock, copies>>

StopRead(r, e) == phase[e] = "running" /\ Look(r, e, "stop")
UpdateRead(r, e) == phase[e] = "done" /\ Look(r, e, "update")
RemoveRead(r, e) == phase[e] \in {"running", "done"} /\ Look(r, e, "remove")

Copied(e) == [phase |-> phase[e], seconds |-> seconds[e]]

(* Mutant: the row is read without FOR UPDATE.                             *)
ReadEntry(r) ==
  /\ stage[r] = "lock"
  /\ Reach(r, IF phase[entry[r]] = "deleted" THEN "refused" ELSE "locked")
  /\ found' = [found EXCEPT ![r] = Copied(entry[r])]
  /\ UNCHANGED <<phase, seconds, sums, lock, wishes, draft>>

(* Mutant: a removal takes its task's seconds back before it locks the     *)
(* entry.                                                                  *)
TaskRowFirst(r) ==
  LET e == entry[r] IN
  /\ stage[r] = "lock"
  /\ IF wish[r] = "remove" /\ lock[EntryTask[e]] # r
       THEN /\ Free(EntryTask[e])
            /\ lock' = [lock EXCEPT ![EntryTask[e]] = r]
            /\ UNCHANGED <<stage, found>>
       ELSE /\ Free(e)
            /\ found' = [found EXCEPT ![r] = Copied(e)]
            /\ IF phase[e] = "deleted"
                 THEN Reach(r, "refused") /\ Release(r)
                 ELSE Reach(r, "locked") /\ lock' = [lock EXCEPT ![e] = r]
  /\ UNCHANGED <<phase, seconds, sums, wishes, draft>>

(* A row that is gone is not locked, and the operation is refused.         *)
LockEntry(r) ==
  /\ stage[r] = "lock"
  /\ LET e == entry[r] IN
     /\ Free(e)
     /\ IF phase[e] = "deleted"
          THEN Reach(r, "refused") /\ UNCHANGED <<lock, found>>
          ELSE /\ Reach(r, "locked")
               /\ lock' = [lock EXCEPT ![e] = r]
               /\ found' = [found EXCEPT ![r] = Copied(e)]
  /\ UNCHANGED <<phase, seconds, sums, wishes, draft>>

(* The transaction returns null and commits without a change.              *)
TurnDown(r) == Reach(r, "refused") /\ Release(r) /\ UNCHANGED draft

(* Mutant: a timer that was stopped already is stopped again.              *)
StopTimerAgain(r, d) ==
  /\ stage[r] = "locked" /\ wish[r] = "stop"
  /\ Write(r, "done", d, d)
  /\ UNCHANGED <<phase, seconds, sums, lock, wishes, found>>

(* Math.max(1, ...): no timer counts zero seconds.                         *)
StopTimer(r, d) ==
  /\ stage[r] = "locked" /\ wish[r] = "stop"
  /\ IF found[r].phase = "running"
       THEN Write(r, "done", d, d) /\ UNCHANGED lock
       ELSE TurnDown(r)
  /\ UNCHANGED <<phase, seconds, sums, wishes, found>>

(* Without a duration in the request the entry keeps the one it has.       *)
UpdateEntry(r, d) ==
  /\ stage[r] = "locked" /\ wish[r] = "update"
  /\ IF found[r].phase = "done"
       THEN /\ \E n \in {d, found[r].seconds} : Write(r, "done", n, n - found[r].seconds)
            /\ UNCHANGED lock
       ELSE TurnDown(r)
  /\ UNCHANGED <<phase, seconds, sums, wishes, found>>

RemoveEntry(r) ==
  /\ stage[r] = "locked" /\ wish[r] = "remove"
  /\ Write(r, "deleted", 0, IF found[r].phase = "done" THEN 0 - found[r].seconds ELSE 0)
  /\ UNCHANGED <<phase, seconds, sums, lock, wishes, found>>

(* The increment locks the row of the task, which may take waiting.        *)
Count(r) ==
  /\ stage[r] = "counting"
  /\ LET t == EntryTask[entry[r]] IN
     /\ Free(t) \/ lock[t] = r
     /\ lock' = [lock EXCEPT ![t] = r]
  /\ Reach(r, "written")
  /\ UNCHANGED <<phase, seconds, sums, wishes, copies>>

Commit(r) ==
  /\ stage[r] = "written"
  /\ phase' = [phase EXCEPT ![entry[r]] = draft[r].phase]
  /\ seconds' = [seconds EXCEPT ![entry[r]] = draft[r].seconds]
  /\ AddSeconds(entry[r], draft[r].delta)
  /\ Reach(r, "granted")
  /\ Release(r)
  /\ UNCHANGED <<wishes, copies>>

(* The server dies or a statement fails: the transaction is rolled back.   *)
RollBack(r) ==
  /\ MayFail
  /\ stage[r] \in {"insert", "lock", "locked", "counting", "written"}
  /\ Reach(r, "lost")
  /\ Release(r)
  /\ UNCHANGED <<phase, seconds, sums, wishes, copies>>

Proceed(r) ==
  \/ StartTimer(r) \/ LockEntry(r) \/ RemoveEntry(r) \/ Count(r) \/ Commit(r)
  \/ \E d \in Durations : StopTimer(r, d) \/ UpdateEntry(r, d)

TimeNext ==
  \/ \E r \in Requests, e \in Entries :
       StartRead(r, e) \/ StopRead(r, e) \/ UpdateRead(r, e) \/ RemoveRead(r, e)
  \/ \E r \in Requests, e \in Entries, d \in Durations : LogTime(r, e, d)
  \/ \E r \in Requests : Proceed(r) \/ RollBack(r)

TimeSpec == TimeInit /\ [][TimeNext]_timeVars

(* A request in progress goes on.                                          *)
FairTimeSpec == TimeSpec /\ \A r \in Requests : WF_timeVars(Proceed(r))

-----------------------------------------------------------------------------
(* Properties.                                                             *)

(* A user has one running timer at most, also when two tabs start one at   *)
(* the same time and both saw none running.                                *)
OneRunningTimer ==
  \A e, f \in Entries :
    phase[e] = "running" /\ phase[f] = "running" /\ EntryUser[e] = EntryUser[f] => e = f

(* However stops, edits and deletions of an entry race, it contributed to  *)
(* the total of its task exactly the length it shows, and nothing while it *)
(* runs or once it is gone.                                                *)
CountedOnce ==
  \A e \in Entries : counted[e] = IF phase[e] = "done" THEN seconds[e] ELSE 0

(* The total of a task is the sum of its completed entries.                *)
TrackedIsSum ==
  \A t \in Tasks :
    tracked[t] = MapThenSumSet(LAMBDA e : seconds[e],
                               {e \in Entries : EntryTask[e] = t /\ phase[e] = "done"})

(* Transactions that wait for one another's rows never form a circle: each *)
(* gets its entry, then its task, and is answered, and the database has no *)
(* transaction to break.                                                   *)
Answered ==
  \A r \in Requests : stage[r] # "idle" ~> stage[r] \in {"granted", "refused", "lost"}
=============================================================================
