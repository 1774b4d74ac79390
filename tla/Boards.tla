------------------------------- MODULE Boards -------------------------------
(***************************************************************************)
(* Columns of boards and tasks on them: where a task is and in which order *)
(* columns and tasks are shown (boards.service.ts and tasks.service.ts     *)
(* over their repositories).  Every element of Requests is one HTTP        *)
(* request; a step is one read, or a transaction's writes.  A request that *)
(* its first read refuses changes nothing and is left out.                 *)
(*                                                                         *)
(* The row updates of one transaction are a single step, its commit: the   *)
(* row locks they take order the transactions that share a row by their    *)
(* commits, and a transaction the database sacrifices to break a deadlock  *)
(* is one that fails.  Its reads are earlier steps: at the isolation level *)
(* READ COMMITTED nothing keeps what they saw from changing.               *)
(*                                                                         *)
(* Board, status and id of a column never change, so they are constants;   *)
(* a task without a column and a board is in the backlog of its project.   *)
(***************************************************************************)
EXTENDS TaskRequests, Naturals, SequencesExt

CONSTANTS
  Columns,       \* rows of columns
  Boards,
  Statuses,      \* rows of task_statuses of the organization
  ColumnBoard,   \* ColumnBoard[c]: columns.boardId
  ColumnStatus   \* ColumnStatus[c]: columns.statusId

ASSUME BoardsAssumption ==
  /\ ColumnBoard \in [Columns -> Boards]
  /\ ColumnStatus \in [Columns -> Statuses]
  /\ IsFiniteSet(Columns) /\ IsFiniteSet(Tasks) /\ Statuses # {}
  /\ None \notin Boards \union Columns
  /\ Columns \intersect Statuses = {} /\ "stay" \notin Columns \union Statuses
  /\ Columns \intersect Tasks = {}

VARIABLES
  columns,   \* the columns that exist
  retired,   \* the columns that were deleted
  first,     \* the columns there were at first, for the properties
  tasks,     \* the tasks that exist
  hidden,    \* tasks that are archived or deleted
  deleted,   \* tasks with deletedAt set
  place,     \* place[t]: boardId, columnId and statusId of task t
  pos,       \* pos[x]: position of the column or task x
  pc,        \* pc[r]: what request r does next, or how it ended
  op,        \* op[r]: the operation r asks for
  item,      \* item[r]: the column or task it is about
  dest,      \* dest[r]: what the request says of where the task goes
  copy,      \* copy[r]: the place r is about to write
  count,     \* count[r]: how many rows r counted, the position of its new row
  order      \* order[r]: the rows r is about to number, as it read them

rows == <<columns, retired, first, tasks, hidden, deleted, place, pos>>
request == <<op, item, dest, copy, count, order>>
vars == <<columns, retired, first, tasks, hidden, deleted, place, pos,
          pc, op, item, dest, copy, count, order>>

Places == [board : Boards \union {None}, column : Columns \union {None}, status : Statuses]
Points == {"idle", "count", "row", "siblings", "write", "granted", "refused", "lost"}
Operations == {"none", "createColumn", "deleteColumn", "moveColumn",
               "createTask", "moveTask", "archive", "restore", "deleteTask"}
Stay == "stay"

TypeOK ==
  /\ columns \subseteq Columns /\ first \subseteq Columns /\ retired \subseteq Columns \ columns
  /\ deleted \subseteq tasks /\ hidden \subseteq tasks /\ tasks \subseteq Tasks
  /\ place \in [Tasks -> Places]
  /\ pos \in [Columns \union Tasks -> Nat]
  /\ pc \in [Requests -> Points]
  /\ op \in [Requests -> Operations]
  /\ item \in [Requests -> Columns \union Tasks \union {None}]
  /\ dest \in [Requests -> Columns \union Statuses \union {Stay}]
  /\ copy \in [Requests -> Places]
  /\ count \in [Requests -> Nat]
  /\ order \in [Requests -> Seq(Columns \union Tasks)]

(* Where a request that says d puts a task that is at p.                   *)
Backlog(s) == [board |-> None, column |-> None, status |-> s]
Nowhere == Backlog(CHOOSE s \in Statuses : TRUE)
OnColumn(c) == [board |-> ColumnBoard[c], column |-> c, status |-> ColumnStatus[c]]

Target(p, d) ==
  CASE d \in Columns -> OnColumn(d)
    [] d \in Statuses -> Backlog(d)
    [] OTHER -> p

Listed == tasks \ (hidden \union deleted)
OfBoard(b) == {c \in columns : ColumnBoard[c] = b}
At(p) == {t \in Listed : place[t].board = p.board /\ place[t].column = p.column}

(* Positions 0, 1, 2 ... in some order.                                    *)
Numbered(S) == {pos[x] : x \in S} = 0 .. Cardinality(S) - 1

(* Columns and tasks that are there at first, in any order.                *)
Init ==
  /\ columns \in {S \in SUBSET Columns : \A c, d \in S : ColumnBoard[c] = ColumnBoard[d]
                                            /\ ColumnStatus[c] = ColumnStatus[d] => c = d}
  /\ first = columns
  /\ retired = {} /\ hidden = {} /\ deleted = {}
  /\ tasks \in SUBSET Tasks
  /\ place \in {f \in [Tasks -> {OnColumn(c) : c \in columns} \union {Backlog(s) : s \in Statuses}] :
                  \A t \in Tasks \ tasks : f[t] = Nowhere}
  /\ pos \in [Columns \union Tasks -> 0 .. Cardinality(columns \union tasks)]
  /\ \A x \in (Columns \union Tasks) \ (columns \union tasks) : pos[x] = 0
  /\ \A b \in Boards : Numbered(OfBoard(b))
  /\ \A t \in tasks : Numbered(At(place[t]))
  /\ pc = [r \in Requests |-> "idle"]
  /\ op = [r \in Requests |-> "none"]
  /\ item = [r \in Requests |-> None]
  /\ dest = [r \in Requests |-> Stay]
  /\ copy = [r \in Requests |-> Nowhere]
  /\ count = [r \in Requests |-> 0]
  /\ order = [r \in Requests |-> <<>>]

Goto(r, point) == pc' = [pc EXCEPT ![r] = point]
Doing(r, o, point) == op[r] = o /\ pc[r] = point

(* The request is over and what it read is forgotten.                      *)
Answer(r, outcome) ==
  /\ Goto(r, outcome)
  /\ op' = [op EXCEPT ![r] = "none"]
  /\ item' = [item EXCEPT ![r] = None]
  /\ dest' = [dest EXCEPT ![r] = Stay]
  /\ copy' = [copy EXCEPT ![r] = Nowhere]
  /\ count' = [count EXCEPT ![r] = 0]
  /\ order' = [order EXCEPT ![r] = <<>>]

Refuse(r) == Answer(r, "refused") /\ UNCHANGED rows

Begin(r, o, x) ==
  /\ pc[r] = "idle"
  /\ op' = [op EXCEPT ![r] = o]
  /\ item' = [item EXCEPT ![r] = x]

(* A new row has an id no row has and no request is about to use.          *)
Fresh(x) == x \notin columns \union retired \union tasks /\ \A r \in Requests : item[r] # x

-----------------------------------------------------------------------------
(* Columns.                                                                *)

Taken(c) == \E d \in OfBoard(ColumnBoard[c]) : ColumnStatus[d] = ColumnStatus[c]

CreateColumnRead(r, c) ==
  /\ Fresh(c) /\ ~Taken(c)
  /\ Begin(r, "createColumn", c)
  /\ count' = [count EXCEPT ![r] = Cardinality(OfBoard(ColumnBoard[c]))]
  /\ Goto(r, "write")
  /\ UNCHANGED <<rows, dest, copy, order>>

(* Mutant: no unique index on boardId and statusId.                        *)
IndexAbsent(c) == FALSE

(* @@unique([boardId, statusId])                                           *)
IndexRefuses(c) == Taken(c)

CreateColumn(r) ==
  /\ Doing(r, "createColumn", "write")
  /\ IF IndexRefuses(item[r])
       THEN Refuse(r)
       ELSE /\ columns' = columns \union {item[r]}
            /\ pos' = [pos EXCEPT ![item[r]] = count[r]]
            /\ Answer(r, "granted")
            /\ UNCHANGED <<retired, first, tasks, hidden, deleted, place>>

FindColumn(r, c, o) ==
  /\ o \in {"deleteColumn", "moveColumn"}
  /\ c \in columns
  /\ Begin(r, o, c)
  /\ Goto(r, IF o = "moveColumn" THEN "row" ELSE "write")
  /\ UNCHANGED <<rows, dest, copy, count, order>>

(* ON DELETE SET NULL: the tasks of a column lose it, and nothing else.    *)
WithoutColumn(c) ==
  [t \in Tasks |-> IF place[t].column = c THEN [place[t] EXCEPT !.column = None] ELSE place[t]]

DeleteColumn(r) ==
  /\ Doing(r, "deleteColumn", "write")
  /\ IF item[r] \notin columns
       THEN Refuse(r)
       ELSE /\ columns' = columns \ {item[r]}
            /\ retired' = retired \union {item[r]}
            /\ place' = WithoutColumn(item[r])
            /\ Answer(r, "granted")
            /\ UNCHANGED <<first, tasks, hidden, deleted, pos>>

(* The transaction finds nothing to move and ends without an error.        *)
ReadColumn(r) ==
  /\ Doing(r, "moveColumn", "row")
  /\ \/ /\ item[r] \in columns
        /\ Goto(r, "siblings")
        /\ UNCHANGED request
     \/ item[r] \notin columns /\ Answer(r, "granted")
  /\ UNCHANGED rows

-----------------------------------------------------------------------------
(* The order of siblings, for columns and tasks alike.                     *)

(* The rows of S by position; rows with the same one in any order.         *)
Sorted(S) ==
  {s \in SetToSeqs(S) : \A i, j \in DOMAIN s : i < j => pos[s[i]] <= pos[s[j]]}

(* Mutant: the row that moves is not left out of its own siblings.         *)
SiblingsAndSelf(r) ==
  IF op[r] = "moveColumn" THEN OfBoard(ColumnBoard[item[r]]) ELSE At(copy[r])

Siblings(r) ==
  (IF op[r] = "moveColumn" THEN OfBoard(ColumnBoard[item[r]]) ELSE At(copy[r])) \ {item[r]}

(* The place among the siblings is any the clamped toPosition can be.      *)
OrderSiblings(r) ==
  /\ pc[r] = "siblings"
  /\ \E s \in Sorted(Siblings(r)) : \E k \in 1 .. Len(s) + 1 :
       order' = [order EXCEPT ![r] = InsertAt(s, k, item[r])]
  /\ Goto(r, "write")
  /\ UNCHANGED <<rows, op, item, dest, copy, count>>

(* One update per row of the list.                                         *)
Renumbered(s) ==
  [x \in DOMAIN pos |->
     IF x \in ToSet(s) THEN (CHOOSE i \in DOMAIN s : s[i] = x) - 1 ELSE pos[x]]

(* An update of a row that is gone fails, and with it the transaction.     *)
MoveColumn(r) ==
  /\ Doing(r, "moveColumn", "write")
  /\ IF ToSet(order[r]) \subseteq columns
       THEN /\ pos' = Renumbered(order[r])
            /\ Answer(r, "granted")
            /\ UNCHANGED <<columns, retired, first, tasks, hidden, deleted, place>>
       ELSE Refuse(r)

-----------------------------------------------------------------------------
(* Tasks.                                                                  *)

(* Mutant: no foreign key on columnId.                                     *)
RefersAlways(p) == TRUE

(* The foreign key on columnId.                                            *)
Refers(p) == p.column \in columns \union {None}

(* resolvePlacement, without a column or a status: the default status.     *)
ResolvePlacement(r, t, d) ==
  /\ Fresh(t)
  /\ d \in columns \union Statuses
  /\ Begin(r, "createTask", t)
  /\ copy' = [copy EXCEPT ![r] = Target(@, d)]
  /\ Goto(r, "count")
  /\ UNCHANGED <<rows, dest, count, order>>

CountTasks(r) ==
  /\ Doing(r, "createTask", "count")
  /\ count' = [count EXCEPT ![r] = Cardinality(At(copy[r]))]
  /\ Goto(r, "write")
  /\ UNCHANGED <<rows, op, item, dest, copy, order>>

CreateTask(r) ==
  /\ Doing(r, "createTask", "write")
  /\ IF Refers(copy[r])
       THEN /\ tasks' = tasks \union {item[r]}
            /\ place' = [place EXCEPT ![item[r]] = copy[r]]
            /\ pos' = [pos EXCEPT ![item[r]] = count[r]]
            /\ Answer(r, "granted")
            /\ UNCHANGED <<columns, retired, first, hidden, deleted>>
       ELSE Refuse(r)

FindTask(r, t, o, d) ==
  /\ o \in {"moveTask", "archive", "restore", "deleteTask"}
  /\ t \in tasks \ deleted
  /\ d \in IF o = "moveTask" THEN columns \union Statuses \union {Stay} ELSE {Stay}
  /\ Begin(r, o, t)
  /\ dest' = [dest EXCEPT ![r] = d]
  /\ Goto(r, IF o = "moveTask" THEN "row" ELSE "write")
  /\ UNCHANGED <<rows, copy, count, order>>

(* What the request does not say the transaction takes from the row it     *)
(* reads, without a lock, and writes back.                                 *)
ReadTask(r) ==
  /\ Doing(r, "moveTask", "row")
  /\ copy' = [copy EXCEPT ![r] = Target(place[item[r]], dest[r])]
  /\ Goto(r, "siblings")
  /\ UNCHANGED <<rows, op, item, dest, count, order>>

MoveTask(r) ==
  /\ Doing(r, "moveTask", "write")
  /\ IF Refers(copy[r])
       THEN /\ pos' = Renumbered(order[r])
            /\ place' = [place EXCEPT ![item[r]] = copy[r]]
            /\ Answer(r, "granted")
            /\ UNCHANGED <<columns, retired, first, tasks, hidden, deleted>>
       ELSE Refuse(r)

(* setArchived and deleteTask: one update each.                            *)
ChangeTask(r) ==
  /\ pc[r] = "write" /\ op[r] \in {"archive", "restore", "deleteTask"}
  /\ hidden' = IF op[r] = "restore" THEN hidden \ {item[r]} ELSE hidden \union {item[r]}
  /\ deleted' = IF op[r] = "deleteTask" THEN deleted \union {item[r]} ELSE deleted
  /\ Answer(r, "granted")
  /\ UNCHANGED <<columns, retired, first, tasks, place, pos>>

(* The server dies, a statement fails, or the database breaks a deadlock:  *)
(* the transaction is rolled back.                                         *)
Fail(r) ==
  /\ MayFail
  /\ pc[r] \notin {"idle", "granted", "refused", "lost"}
  /\ Answer(r, "lost")
  /\ UNCHANGED rows

Advance(r) ==
  \/ CreateColumn(r) \/ DeleteColumn(r) \/ ReadColumn(r) \/ MoveColumn(r)
  \/ OrderSiblings(r)
  \/ CountTasks(r) \/ CreateTask(r) \/ ReadTask(r) \/ MoveTask(r) \/ ChangeTask(r)

Next ==
  \/ \E r \in Requests, c \in Columns, o \in Operations : FindColumn(r, c, o)
  \/ \E r \in Requests, c \in Columns : CreateColumnRead(r, c)
  \/ \E r \in Requests, t \in Tasks, d \in Columns \union Statuses : ResolvePlacement(r, t, d)
  \/ \E r \in Requests, t \in Tasks, o \in Operations,
       d \in Columns \union Statuses \union {Stay} : FindTask(r, t, o, d)
  \/ \E r \in Requests : Advance(r) \/ Fail(r)

Spec == Init /\ [][Next]_vars

-----------------------------------------------------------------------------
(* Properties that hold.                                                   *)

(* A task shown in a column has the board and the status of that column,   *)
(* and the column exists, however moves, creations and the deletion of the *)
(* column race; a task with a board and no column lost a deleted one.      *)
Placed ==
  \A t \in tasks :
    LET p == place[t] IN
    /\ p.column # None => p.column \in columns /\ p = OnColumn(p.column)
    /\ p.column = None /\ p.board # None =>
         \E c \in retired : p = [OnColumn(c) EXCEPT !.column = None]

(* A board has one column per status: two requests that both found none    *)
(* do not both create one.                                                 *)
OneColumnPerStatus ==
  \A c, d \in columns :
    ColumnBoard[c] = ColumnBoard[d] /\ ColumnStatus[c] = ColumnStatus[d] => c = d

(* While a board keeps its columns, concurrent moves of them leave their   *)
(* positions numbered from 0 without gaps or ties: each numbers them all.  *)
(* A column created or deleted meanwhile would be missed by a stale move.  *)
MovesKeepNumbers ==
  columns = first /\ retired = {} => \A b \in Boards : Numbered(OfBoard(b))
=============================================================================
