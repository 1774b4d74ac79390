------------------------------ MODULE TaskPage ------------------------------
(***************************************************************************)
(* A page of the web client over the data of a project: the queries it     *)
(* keeps (react-query), the mutations of its components, and the events    *)
(* that tell it of what others do (use-project-realtime.ts), with the      *)
(* server's side of a mutation: write, record, emit, read back, answer,    *)
(* each a step of its own, after any of which the request may fail.        *)
(*                                                                         *)
(* The data is abstracted to the changes it is made of: what a query has   *)
(* on the server is the set of changes behind it.  The checklists of a     *)
(* task are a list of rows, since their component edits the cached list    *)
(* itself instead of asking again.  A row is named by the change that      *)
(* created it.                                                             *)
(*                                                                         *)
(* react-query is external: an invalidated query is fetched again, the     *)
(* fetch under way being cancelled unless the query has no data yet; data  *)
(* written into the cache leaves a fetch alone.  A fetch whose retry       *)
(* succeeds is one that is read late.                                      *)
(***************************************************************************)
EXTENDS Naturals, Sequences

CONSTANTS
  Changes,  \* changes of the data, each made once
  Early,    \* those that made the rows the list had before the page was opened
  Kinds,    \* kinds of change that are made, by anyone
  Own,      \* those of them this page can make
  Shown,    \* queries of the page
  Nil

RowKinds == {"add", "edit", "drop"}
Keys == {"task", "subtasks", "activity", "checklists", "entries", "attachments",
         "comments", "labels", "board", "columns", "boards", "cards"}
AllKinds == RowKinds \union {"task", "tag", "subtask", "time", "comment", "label", "column"}

ASSUME TaskPageAssumption ==
  /\ Own \subseteq Kinds /\ Kinds \subseteq AllKinds /\ Shown \subseteq Keys
  /\ Kinds \intersect RowKinds # {} => "checklists" \in Shown  \* rows are told apart where they are shown
  /\ Nil \notin Changes
  /\ Early \subseteq Changes /\ (Early # {} => "add" \in Kinds)

VARIABLES
  content,    \* content[k]: what query k has on the server
  rowOf,      \* rowOf[c]: the row change c is about, Nil before it is made
  kindOf,     \* kindOf[c]: its kind
  stage,      \* stage[c]: how far its request has come
  subscribed, \* whether the socket is subscribed to the project
  events,     \* events on their way to the page, as the queries they name
  loaded,     \* queries that have data
  at, got,    \* the fetch of each query: where it is, what it has read
  shown,      \* shown[k]: what the page shows
  twice,      \* rows that are in the cached list twice
  mine,       \* the mutation this page waits for
  doubt       \* queries hit by one of the known races since they were last read (history)

stored == <<content, rowOf, kindOf, stage>>
fetch == <<at, got>>
pageVars == <<content, rowOf, kindOf, stage, subscribed, events, loaded, at, got, shown, twice, mine, doubt>>

Idle == [at |-> "none", change |-> Nil, dto |-> {}, alone |-> {}, raced |-> FALSE]

PageTypeOK ==
  /\ content \in [Shown -> SUBSET Changes]
  /\ rowOf \in [Changes -> Changes \union {Nil}]
  /\ kindOf \in [Changes -> Kinds \union {Nil}]
  /\ stage \in [Changes -> {"new", "written", "recorded", "announced", "failed"}]
  /\ subscribed \in BOOLEAN
  /\ events \in Seq(SUBSET Shown)
  /\ loaded \subseteq Shown
  /\ at \in [Shown -> {"idle", "asked", "read"}]
  /\ got \in [Shown -> SUBSET Changes]
  /\ shown \in [Shown -> SUBSET Changes]
  /\ twice \subseteq Changes
  /\ mine \in [at : {"none", "working", "answer"}, change : Changes \union {Nil},
               dto : SUBSET Changes, alone : SUBSET Shown, raced : BOOLEAN]
  /\ doubt \subseteq Shown

(* The page has just been opened: every query is being fetched.            *)
PageInit ==
  /\ content = [k \in Shown |-> IF k \in {"checklists", "activity"} THEN Early ELSE {}]
  /\ rowOf = [c \in Changes |-> IF c \in Early THEN c ELSE Nil]
  /\ kindOf = [c \in Changes |-> IF c \in Early THEN "add" ELSE Nil]
  /\ stage = [c \in Changes |-> IF c \in Early THEN "announced" ELSE "new"]
  /\ subscribed = FALSE /\ events = <<>>
  /\ loaded = {}
  /\ at = [k \in Shown |-> "asked"]
  /\ got = [k \in Shown |-> {}]
  /\ shown = [k \in Shown |-> {}]
  /\ twice = {}
  /\ mine = Idle
  /\ doubt = {}

-----------------------------------------------------------------------------
(* Who changes what, and who is told.                                      *)

(* The queries whose data a change of each kind changes.                   *)
Touched(kind) ==
  CASE kind \in RowKinds -> {"checklists", "activity"}
    [] kind = "task"     -> {"task", "activity", "cards"}
    [] kind = "tag"      -> {"task", "activity", "cards", "labels"}
    [] kind = "subtask"  -> {"subtasks", "activity", "task", "cards"}
    [] kind = "time"     -> {"entries", "activity", "task", "cards"}
    [] kind = "comment"  -> {"comments"}
    [] kind = "label"    -> {"labels"}
    [] kind = "column"   -> {"columns"}

TaskEvent == {"cards", "task", "subtasks", "activity", "checklists", "entries", "attachments"}

(* The queries a page fetches again when it hears of a change.  The event  *)
(* of a new subtask names the subtask, not the task it belongs to.         *)
Announced(kind) ==
  CASE kind \in RowKinds \union {"task", "tag", "time"} -> TaskEvent
    [] kind = "subtask" -> {"cards"}
    [] kind = "comment" -> {"comments", "activity"}
    [] kind = "label"   -> {}
    [] kind = "column"  -> {"board", "columns", "boards"}

(* The queries the components fetch again after a mutation of their own.   *)
TaskDetail(kind) == IF kind = "label" THEN {"labels"} ELSE {"task", "activity", "cards", "labels"}
Subtasks == {"subtasks", "task", "cards"}
TimeTracking == {"entries", "task", "activity", "cards"}
Comments == {"comments"}
Checklists(kind) == IF kind = "add" THEN {} ELSE {"activity"}
BoardDetail == {"board", "columns", "cards"}

Refreshed(kind) ==
  CASE kind \in {"task", "tag", "label"} -> TaskDetail(kind)
    [] kind = "subtask" -> Subtasks
    [] kind = "time"    -> TimeTracking
    [] kind = "comment" -> Comments
    [] kind \in RowKinds -> Checklists(kind)
    [] kind = "column"  -> BoardDetail

-----------------------------------------------------------------------------
(* The server.                                                             *)

RowsIn(changes) == {rowOf[c] : c \in changes}
Row(r, changes) == {c \in changes : rowOf[c] = r}

(* What of change c is on the server: its activity is recorded after it.   *)
Written(c) == IF stage[c] = "written" THEN Touched(kindOf[c]) \ {"activity"} ELSE Touched(kindOf[c])
UnderWay(c) == stage[c] \in {"written", "recorded"}

Heard(kind) == IF subscribed THEN Announced(kind) \intersect Shown ELSE {}

(* The page has, or its fetch has read, what the server has of query k.    *)
Current(k) ==
  /\ at[k] = "read" => got[k] = content[k]
  /\ at[k] = "idle" => shown[k] = content[k] /\ (k = "checklists" => twice = {})

(* The answer the page waits for will be patched into the list it shows.   *)
Patching(k) ==
  /\ k = "checklists" /\ at[k] = "idle"
  /\ mine.at # "none" /\ kindOf[mine.change] \in RowKinds /\ ~mine.raced

(* Of these queries, those that miss what the page is not told of now.     *)
Missed(ks) == {k \in ks \intersect Shown : ~Current(k) \/ Patching(k)}

(* The queries of which the page is not told as the code stands: another's *)
(* change while it is not subscribed; the parent of a new subtask; labels; *)
(* the activity its own components do not ask for again; its own change of *)
(* the list while a fetch of the list was or is on its way.                *)
Untold(kind, own) ==
  CASE ~own /\ ~subscribed -> Touched(kind)
    [] ~own /\ subscribed /\ kind = "subtask" -> {"subtasks", "task", "activity"}
    [] ~own /\ subscribed /\ kind \in {"tag", "label"} -> {"labels"}
    [] own /\ kind = "subtask" -> {"activity"}
    [] own /\ ~subscribed /\ kind \in RowKinds ->
         (IF kind = "add" THEN {"activity"} ELSE {})
         \union (IF Patching("checklists") THEN {} ELSE {"checklists"})
    [] OTHER -> {}

(* A request writes its change; a row that is gone cannot be changed.      *)
Write(c, kind, r, own) ==
  /\ stage[c] = "new"
  /\ own => kind \in Own /\ mine = Idle
  /\ IF kind \in {"edit", "drop"} THEN r \in RowsIn(content["checklists"]) ELSE r = c
  /\ rowOf' = [rowOf EXCEPT ![c] = r]
  /\ kindOf' = [kindOf EXCEPT ![c] = kind]
  /\ stage' = [stage EXCEPT ![c] = "written"]
  /\ content' = [k \in Shown |->
                   IF k \notin Touched(kind) \ {"activity"} THEN content[k]
                   ELSE IF k = "checklists" /\ kind = "drop" THEN content[k] \ Row(r, content[k])
                   ELSE content[k] \union {c}]
  /\ mine' = IF own THEN [Idle EXCEPT !.at = "working", !.change = c] ELSE mine
  /\ UNCHANGED <<subscribed, events, loaded, fetch, shown, twice, doubt>>

(* recordTaskActivity, where the service calls it                          *)
Record(c) ==
  /\ stage[c] = "written" /\ "activity" \in Touched(kindOf[c])
  /\ stage' = [stage EXCEPT ![c] = "recorded"]
  /\ content' = [k \in Shown |-> IF k = "activity" THEN content[k] \union {c} ELSE content[k]]
  /\ UNCHANGED <<rowOf, kindOf, subscribed, events, loaded, fetch, shown, twice, mine, doubt>>

(* emitToProject: the page hears of it if it is subscribed.                *)
Announce(c) ==
  LET kind == kindOf[c]
      own == mine.change = c
  IN /\ UnderWay(c) /\ Written(c) = Touched(kind)
     /\ stage' = [stage EXCEPT ![c] = "announced"]
     /\ events' = IF Heard(kind) = {} THEN events ELSE Append(events, Heard(kind))
     /\ mine' = IF own THEN [mine EXCEPT !.alone = (Touched(kind) \intersect Shown) \ Heard(kind)]
                ELSE mine
     /\ doubt' = doubt \union Missed(Untold(kind, own))
     /\ UNCHANGED <<content, rowOf, kindOf, subscribed, loaded, fetch, shown, twice>>

(* It fails, or its process dies, after it has written and before anyone   *)
(* is told; the component of the page shows an error.                      *)
Fail(c) ==
  /\ UnderWay(c)
  /\ stage' = [stage EXCEPT ![c] = "failed"]
  /\ mine' = IF mine.change = c THEN Idle ELSE mine
  /\ doubt' = doubt \union Missed(Written(c))
  /\ UNCHANGED <<content, rowOf, kindOf, subscribed, events, loaded, fetch, shown, twice>>

(* requireChecklist: the answer carries the row as it is by now.           *)
Answer ==
  /\ mine.at = "working" /\ stage[mine.change] = "announced"
  /\ LET r == rowOf[mine.change]
         now == content["checklists"]
     IN IF kindOf[mine.change] \in {"add", "edit"}
          THEN r \in RowsIn(now) /\ mine' = [mine EXCEPT !.at = "answer", !.dto = Row(r, now)]
          ELSE mine' = [mine EXCEPT !.at = "answer"]
  /\ UNCHANGED <<stored, subscribed, events, loaded, fetch, shown, twice, doubt>>

-----------------------------------------------------------------------------
(* The queries of the page.                                                *)

Asks(k, ks) == k \in ks /\ (at[k] = "idle" \/ k \in loaded)

(* invalidateQueries on the queries ks.  A first fetch that is under way   *)
(* is not begun again, even if it has read what is no longer so.           *)
Invalidate(ks) ==
  /\ at' = [k \in Shown |-> IF Asks(k, ks) THEN "asked" ELSE at[k]]
  /\ got' = [k \in Shown |-> IF Asks(k, ks) THEN {} ELSE got[k]]

Joined(ks) == {k \in ks \ loaded : at[k] = "read" /\ got[k] # content[k]}

(* onTaskEvent, onCommentEvent, onBoardEvent                               *)
Deliver ==
  /\ events # <<>>
  /\ events' = Tail(events)
  /\ Invalidate(Head(events))
  /\ doubt' = doubt \union Joined(Head(events))
  /\ UNCHANGED <<stored, subscribed, loaded, shown, twice, mine>>

FetchRead(k) ==
  /\ at[k] = "asked"
  /\ at' = [at EXCEPT ![k] = "read"]
  /\ got' = [got EXCEPT ![k] = content[k]]
  /\ doubt' = doubt \ {k}
  /\ UNCHANGED <<stored, subscribed, events, loaded, shown, twice, mine>>

FetchArrives(k) ==
  /\ at[k] = "read"
  /\ at' = [at EXCEPT ![k] = "idle"]
  /\ got' = [got EXCEPT ![k] = {}]
  /\ shown' = [shown EXCEPT ![k] = got[k]]
  /\ loaded' = loaded \union {k}
  /\ twice' = IF k = "checklists" THEN {} ELSE twice
  /\ mine' = [mine EXCEPT !.raced = @ \/ (k = "checklists" /\ mine # Idle)]
  /\ UNCHANGED <<stored, subscribed, events, doubt>>

(* Mutant: a failed fetch is remembered, and nothing begins it again.      *)
FetchGivesUp(k) ==
  /\ at[k] # "idle"
  /\ at' = [at EXCEPT ![k] = "failed"]
  /\ got' = [got EXCEPT ![k] = {}]
  /\ doubt' = doubt \union {k}
  /\ UNCHANGED <<stored, subscribed, events, loaded, shown, twice, mine>>

(* The fetch and its retry both failed: the old data stays.                *)
FetchFails(k) ==
  /\ at[k] # "idle"
  /\ at' = [at EXCEPT ![k] = "idle"]
  /\ got' = [got EXCEPT ![k] = {}]
  /\ doubt' = doubt \union {k}
  /\ UNCHANGED <<stored, subscribed, events, loaded, shown, twice, mine>>

(* refetchOnWindowFocus: a fetch under way is left alone.                  *)
Focus ==
  /\ \E k \in Shown : at[k] = "idle"
  /\ at' = [k \in Shown |-> IF at[k] = "idle" THEN "asked" ELSE at[k]]
  /\ UNCHANGED <<stored, subscribed, events, loaded, got, shown, twice, mine, doubt>>

-----------------------------------------------------------------------------
(* The answer to a mutation.                                               *)

(* The cached list after onSuccess: created rows are appended, changed     *)
(* rows replaced by the one in the answer, deleted ones filtered out.      *)
Patched(m) ==
  LET old == shown["checklists"]
      r == rowOf[m.change]
  IN  CASE kindOf[m.change] = "add"  -> old \union m.dto
        [] kindOf[m.change] = "edit" -> IF r \in RowsIn(old) THEN (old \ Row(r, old)) \union m.dto ELSE old
        [] kindOf[m.change] = "drop" -> old \ Row(r, old)

PatchedTwice(m) ==
  LET r == rowOf[m.change]
  IN  CASE kindOf[m.change] = "add"  -> IF r \in RowsIn(shown["checklists"]) THEN twice \union {r} ELSE twice
        [] kindOf[m.change] = "edit" -> twice
        [] kindOf[m.change] = "drop" -> twice \ {r}

(* Mutant: the page takes the answer for the whole truth and asks nothing. *)
ReceiveQuietly ==
  /\ mine.at = "answer"
  /\ IF kindOf[mine.change] \in RowKinds
       THEN /\ shown' = [shown EXCEPT !["checklists"] = Patched(mine)]
            /\ twice' = PatchedTwice(mine)
            /\ loaded' = loaded \union {"checklists"}
       ELSE UNCHANGED <<shown, twice, loaded>>
  /\ UNCHANGED fetch
  /\ doubt' = IF kindOf[mine.change] \in RowKinds /\ mine.raced THEN doubt \union {"checklists"} ELSE doubt
  /\ mine' = Idle
  /\ UNCHANGED <<stored, subscribed, events>>

(* onSuccess.  An answer that was overtaken by a fetch of the list may add *)
(* a row a second time, or bring back what has changed since.              *)
Receive ==
  /\ mine.at = "answer"
  /\ IF kindOf[mine.change] \in RowKinds
       THEN /\ shown' = [shown EXCEPT !["checklists"] = Patched(mine)]
            /\ twice' = PatchedTwice(mine)
            /\ loaded' = loaded \union {"checklists"}
       ELSE UNCHANGED <<shown, twice, loaded>>
  /\ Invalidate(Refreshed(kindOf[mine.change]))
  /\ doubt' = (doubt \union Joined(Refreshed(kindOf[mine.change]) \intersect Shown))
              \union (IF kindOf[mine.change] \in RowKinds /\ mine.raced THEN {"checklists"} ELSE {})
  /\ mine' = Idle
  /\ UNCHANGED <<stored, subscribed, events>>

(* The answer is lost, or is an error, such as that the row is gone: the   *)
(* component shows an error and changes nothing.                           *)
AnswerLost ==
  /\ mine # Idle
  /\ mine' = Idle
  /\ doubt' = doubt \union Missed(mine.alone)
  /\ UNCHANGED <<stored, subscribed, events, loaded, fetch, shown, twice>>

(* The socket connects and subscribes; what the page holds is not fetched  *)
(* again.                                                                  *)
Attach == ~subscribed /\ subscribed' = TRUE /\ UNCHANGED <<stored, events, loaded, fetch, shown, twice, mine, doubt>>

(* It loses the connection, or closes it because the token was renewed.    *)
Detach ==
  /\ subscribed
  /\ subscribed' = FALSE /\ events' = <<>>
  /\ doubt' = doubt \union UNION {events[i] : i \in 1..Len(events)}
  /\ UNCHANGED <<stored, loaded, fetch, shown, twice, mine>>

PageNext ==
  \/ \E c, r \in Changes, kind \in Kinds, own \in BOOLEAN : Write(c, kind, r, own)
  \/ \E c \in Changes : Record(c) \/ Announce(c) \/ Fail(c)
  \/ Answer \/ Deliver \/ Focus \/ Receive \/ AnswerLost \/ Attach \/ Detach
  \/ \E k \in Shown : FetchRead(k) \/ FetchArrives(k) \/ FetchFails(k)

PageSpec == PageInit /\ [][PageNext]_pageVars

-----------------------------------------------------------------------------

(* Nothing about query k is on its way to the page.                        *)
Settled(k) ==
  /\ at[k] = "idle" /\ events = <<>> /\ mine = Idle
  /\ \A c \in Changes : UnderWay(c) => k \notin Written(c)

(* Once nothing is under way, what the page shows of a query is what the   *)
(* server has, no row twice, unless one of these happened since the query  *)
(* was last read: a change nobody told the page of (Untold), a request     *)
(* that wrote and failed before it told anyone, an invalidation that       *)
(* joined the first fetch, an answer overtaken by a fetch of the list, a   *)
(* lost answer or a failed fetch.                                          *)
Converges ==
  \A k \in Shown \ doubt :
    Settled(k) => /\ shown[k] = content[k]
                  /\ k = "checklists" => twice = {}
=============================================================================
