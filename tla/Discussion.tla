----------------------------- MODULE Discussion -----------------------------
(***************************************************************************)
(* The comments of a task, their reactions, and the notifications they     *)
(* cause (comments.service.ts, notifications.service.ts).  Creating a      *)
(* comment is one request of many steps without a transaction: the task    *)
(* is read, the parent and the people mentioned are checked, the comment   *)
(* is written and read back, and then everyone concerned is notified, all  *)
(* at once; each of these may fail, be overtaken, or be the last.          *)
(*                                                                         *)
(* A body is not modelled, a task has one emoji, and who may call a        *)
(* handler at all was checked before it runs.                              *)
(***************************************************************************)
EXTENDS RequestPool, FiniteSets, Sequences, SequencesExt

CONSTANTS
  People,       \* users
  Creator,      \* who created the task
  Assignable,   \* who may be assigned to it
  Mentioned,    \* lists of users a comment may mention
  Members,      \* active members of the organization
  Moderators,   \* members who may delete comments
  Actors,       \* users who make requests
  Comments,
  First,        \* the comment there is at first, by the creator of the task
  Liking        \* users who reacted to it

ASSUME DiscussionAssumption ==
  /\ Creator \in People /\ Assignable \subseteq People /\ Moderators \subseteq People
  /\ Members \subseteq People /\ Actors \subseteq People /\ First \in Comments /\ Liking \subseteq People
  /\ Mentioned \subseteq Seq(People)
  /\ None \notin People \union Comments

VARIABLES
  comment,    \* comment[c]: "none", "live" or "deleted"
  author, parent,
  edited,     \* comments with editedAt
  mentions,   \* mentions[c]: who the comment mentions, as rows
  assignees,
  likes,      \* rows of reactions, as pairs of a comment and a user
  notes,      \* notes[c][u]: kinds of notification u has of comment c
  by, on,     \* by[r], on[r]: the user and the comment of request r
  list,       \* list[r]: mentionIds of the request
  people,     \* people[r]: createdById and the assignees, as the request read them
  todo,       \* todo[r]: who is still to be notified in this stage
  bad,        \* bad[r]: a notification of the request failed
  liked,      \* liked[r]: whether the reaction was there when request r looked
  tally,      \* tally[p]: times toggleReaction returned true less times it returned false (history)
  told        \* told[c]: who had to be told, once the creation was answered (history)

rows == <<comment, author, parent, edited, mentions>>
locals == <<by, on, list, people, todo, bad, liked>>
discussionVars == <<comment, author, parent, edited, mentions, assignees, likes, notes,
                    by, on, list, people, todo, bad, liked, tally, told>>

Pairs == Comments \X People
Creating == {"task", "parent", "check", "insert", "reload"}
Changing == {"findToEdit", "findToDelete", "findToReact", "edit", "reloadEdited", "drop", "look", "flip"}
Notifying == {"mention", "inform"}
DiscussionPlaces == Creating \union Changing \union Notifying

DiscussionTypeOK ==
  /\ comment \in [Comments -> {"none", "live", "deleted"}]
  /\ author \in [Comments -> People \union {None}]
  /\ parent \in [Comments -> Comments \union {None}]
  /\ edited \subseteq Comments
  /\ mentions \in [Comments -> SUBSET People]
  /\ assignees \subseteq Assignable
  /\ likes \subseteq Pairs
  /\ notes \in [Comments -> [People -> SUBSET {"mentioned", "commented"}]]
  /\ by \in [Requests -> People \union {None}]
  /\ on \in [Requests -> Comments \union {None}]
  /\ list \in [Requests -> Mentioned \union {<<>>}]
  /\ people \in [Requests -> SUBSET People]
  /\ todo \in [Requests -> SUBSET People]
  /\ bad \subseteq Requests /\ liked \subseteq Requests
  /\ tally \in [Pairs -> {-1, 0, 1, 2}]
  /\ told \in [Comments -> (SUBSET People) \union {None}]

DiscussionInit ==
  /\ comment = [c \in Comments |-> IF c = First THEN "live" ELSE "none"]
  /\ author = [c \in Comments |-> IF c = First THEN Creator ELSE None]
  /\ parent = [c \in Comments |-> None]
  /\ edited = {}
  /\ mentions = [c \in Comments |-> {}]
  /\ assignees = {}
  /\ likes = {First} \X Liking
  /\ notes = [c \in Comments |-> [u \in People |-> {}]]
  /\ by = [r \in Requests |-> None]
  /\ on = [r \in Requests |-> None]
  /\ list = [r \in Requests |-> <<>>]
  /\ people = [r \in Requests |-> {}]
  /\ todo = [r \in Requests |-> {}]
  /\ bad = {} /\ liked = {}
  /\ tally = [p \in Pairs |-> IF p \in {First} \X Liking THEN 1 ELSE 0]
  /\ told = [c \in Comments |-> None]

-----------------------------------------------------------------------------

Ask(r, place, u, c, ms) ==
  /\ Arrives(r)
  /\ Goto(r, place)
  /\ by' = [by EXCEPT ![r] = u]
  /\ on' = [on EXCEPT ![r] = c]
  /\ list' = [list EXCEPT ![r] = ms]
  /\ UNCHANGED <<people, todo, bad, liked>>

Close(r, outcome) ==
  /\ Goto(r, outcome)
  /\ by' = [by EXCEPT ![r] = None]
  /\ on' = [on EXCEPT ![r] = None]
  /\ list' = [list EXCEPT ![r] = <<>>]
  /\ people' = [people EXCEPT ![r] = {}]
  /\ todo' = [todo EXCEPT ![r] = {}]
  /\ bad' = bad \ {r} /\ liked' = liked \ {r}

Step(r, place) == Goto(r, place) /\ UNCHANGED locals

(* A query fails where nothing was done yet in this step.                  *)
QueryFails(r) ==
  /\ pc[r] \in Creating \union Changing
  /\ Close(r, "error")
  /\ UNCHANGED <<rows, assignees, likes, notes, tally, told>>

-----------------------------------------------------------------------------
(* createComment                                                           *)

CreateComment(r, u, p, ms) ==
  /\ p # None => comment[p] # "none"
  /\ Ask(r, "task", u, p, ms)
  /\ UNCHANGED <<rows, assignees, likes, notes, tally, told>>

(* findTask: who is concerned is settled here.                             *)
FindTask(r) ==
  /\ pc[r] = "task"
  /\ people' = [people EXCEPT ![r] = {Creator} \union assignees]
  /\ Goto(r, IF on[r] = None THEN "check" ELSE "parent")
  /\ UNCHANGED <<by, on, list, todo, bad, liked, rows, assignees, likes, notes, tally, told>>

FindParent(r) ==
  /\ pc[r] = "parent"
  /\ IF comment[on[r]] = "live" /\ parent[on[r]] = None THEN Step(r, "check") ELSE Close(r, "error")
  /\ UNCHANGED <<rows, assignees, likes, notes, tally, told>>

(* verifyOrgMembers                                                        *)
Check(r) ==
  /\ pc[r] = "check"
  /\ IF ToSet(list[r]) \subseteq Members THEN Step(r, "insert") ELSE Close(r, "error")
  /\ UNCHANGED <<rows, assignees, likes, notes, tally, told>>

(* The comment and its mentions, in one transaction: a user mentioned      *)
(* twice breaks the key of the mentions, and the comment is not made.      *)
Insert(r, c) ==
  /\ pc[r] = "insert"
  /\ comment[c] = "none" /\ c = CHOOSE d \in Comments : comment[d] = "none"
  /\ IF Cardinality(ToSet(list[r])) = Len(list[r])
       THEN /\ comment' = [comment EXCEPT ![c] = "live"]
            /\ author' = [author EXCEPT ![c] = by[r]]
            /\ parent' = [parent EXCEPT ![c] = on[r]]
            /\ mentions' = [mentions EXCEPT ![c] = ToSet(list[r])]
            /\ on' = [on EXCEPT ![r] = c]
            /\ Goto(r, "reload")
            /\ UNCHANGED <<edited, by, list, people, todo, bad, liked>>
       ELSE Close(r, "error") /\ UNCHANGED rows
  /\ UNCHANGED <<assignees, likes, notes, tally, told>>

(* The comment is read back; one that was deleted by now notifies nobody.  *)
Reload(r) ==
  /\ pc[r] = "reload"
  /\ IF comment[on[r]] = "live"
       THEN /\ todo' = [todo EXCEPT ![r] = ToSet(list[r])]
            /\ Goto(r, "mention")
            /\ UNCHANGED <<by, on, list, people, bad, liked>>
       ELSE Close(r, "error")
  /\ UNCHANGED <<rows, assignees, likes, notes, tally, told>>

(* One notification of the many under way: the row, the count of what is   *)
(* unread, the event.  It may fail before the row is written or after it.  *)
Notify(r, u) ==
  /\ pc[r] \in Notifying /\ u \in todo[r]
  /\ todo' = [todo EXCEPT ![r] = @ \ {u}]
  /\ \E written, failed \in BOOLEAN :
       /\ written \/ failed
       /\ notes' = IF written
                     THEN [notes EXCEPT ![on[r]][u] = @ \union {IF pc[r] = "mention" THEN "mentioned" ELSE "commented"}]
                     ELSE notes
       /\ bad' = IF failed THEN bad \union {r} ELSE bad
  /\ UNCHANGED <<pc, by, on, list, people, liked, rows, assignees, likes, tally, told>>

(* Mutant: a notification that fails is passed over.                       *)
NotifiedAnyway(r) ==
  /\ pc[r] \in Notifying /\ todo[r] = {}
  /\ IF pc[r] = "mention"
       THEN /\ todo' = [todo EXCEPT ![r] = people[r] \ ({by[r]} \union ToSet(list[r]))]
            /\ Goto(r, "inform")
            /\ UNCHANGED <<by, on, list, people, bad, liked, told>>
       ELSE told' = [told EXCEPT ![on[r]] = people[r]] /\ Close(r, "ok")
  /\ UNCHANGED <<rows, assignees, likes, notes, tally>>

(* Promise.all: the next stage begins, or the answer is given, once all    *)
(* are done, unless one of them failed.                                    *)
Notified(r) ==
  /\ pc[r] \in Notifying /\ todo[r] = {}
  /\ IF r \in bad THEN Close(r, "error") /\ UNCHANGED told
     ELSE IF pc[r] = "mention"
       THEN /\ todo' = [todo EXCEPT ![r] = people[r] \ ({by[r]} \union ToSet(list[r]))]
            /\ Goto(r, "inform")
            /\ UNCHANGED <<by, on, list, people, bad, liked, told>>
       ELSE told' = [told EXCEPT ![on[r]] = people[r]] /\ Close(r, "ok")
  /\ UNCHANGED <<rows, assignees, likes, notes, tally>>

-----------------------------------------------------------------------------
(* updateComment, deleteComment, toggleReaction                            *)

(* The route lets only moderators delete, their own comments too.          *)
Change(r, place, u, c) ==
  /\ place \in {"findToEdit", "findToDelete", "findToReact"}
  /\ place = "findToDelete" => u \in Moderators
  /\ comment[c] # "none"
  /\ Ask(r, place, u, c, <<>>)
  /\ UNCHANGED <<rows, assignees, likes, notes, tally, told>>

Allowed(r) ==
  /\ comment[on[r]] = "live"
  /\ pc[r] = "findToEdit" => author[on[r]] = by[r]
  /\ pc[r] = "findToDelete" => by[r] \in {author[on[r]]} \union Moderators

FindComment(r) ==
  /\ pc[r] \in {"findToEdit", "findToDelete", "findToReact"}
  /\ IF Allowed(r)
       THEN Step(r, CASE pc[r] = "findToEdit" -> "edit" [] pc[r] = "findToDelete" -> "drop"
                      [] pc[r] = "findToReact" -> "look")
       ELSE Close(r, "error")
  /\ UNCHANGED <<rows, assignees, likes, notes, tally, told>>

(* The row is written by its id, deleted by now or not.                    *)
Edit(r) ==
  /\ pc[r] = "edit"
  /\ edited' = edited \union {on[r]}
  /\ Step(r, "reloadEdited")
  /\ UNCHANGED <<comment, author, parent, mentions, assignees, likes, notes, tally, told>>

ReloadEdited(r) ==
  /\ pc[r] = "reloadEdited"
  /\ Close(r, IF comment[on[r]] = "live" THEN "ok" ELSE "error")
  /\ UNCHANGED <<rows, assignees, likes, notes, tally, told>>

(* softDeleteComment: the replies stay.  What follows only reads, and may  *)
(* fail.                                                                   *)
Drop(r) ==
  /\ pc[r] = "drop"
  /\ comment' = [comment EXCEPT ![on[r]] = "deleted"]
  /\ \E outcome \in {"ok", "error"} : Close(r, outcome)
  /\ UNCHANGED <<author, parent, edited, mentions, assignees, likes, notes, tally, told>>

Pair(r) == <<on[r], by[r]>>

Look(r) ==
  /\ pc[r] = "look"
  /\ liked' = IF Pair(r) \in likes THEN liked \union {r} ELSE liked
  /\ Goto(r, "flip")
  /\ UNCHANGED <<by, on, list, people, todo, bad, rows, assignees, likes, notes, tally, told>>

(* Mutant: the reaction is added whether it is there by now or not.        *)
FlipUpsert(r) ==
  /\ pc[r] = "flip"
  /\ IF r \in liked
       THEN likes' = likes \ {Pair(r)} /\ tally' = [tally EXCEPT ![Pair(r)] = @ - 1]
       ELSE likes' = likes \union {Pair(r)} /\ tally' = [tally EXCEPT ![Pair(r)] = @ + 1]
  /\ Close(r, "ok")
  /\ UNCHANGED <<rows, assignees, notes, told>>

(* The row that was there is deleted, or one is created; when another      *)
(* request was quicker the query fails, as QueryFails has it.  What        *)
(* follows only reads, and may fail too.                                   *)
Flip(r) ==
  /\ pc[r] = "flip"
  /\ IF r \in liked
       THEN /\ Pair(r) \in likes
            /\ likes' = likes \ {Pair(r)} /\ tally' = [tally EXCEPT ![Pair(r)] = @ - 1]
       ELSE /\ Pair(r) \notin likes
            /\ likes' = likes \union {Pair(r)} /\ tally' = [tally EXCEPT ![Pair(r)] = @ + 1]
  /\ \E outcome \in {"ok", "error"} : Close(r, outcome)
  /\ UNCHANGED <<rows, assignees, notes, told>>

-----------------------------------------------------------------------------
(* What others do meanwhile.                                               *)

Assign(u) ==
  /\ assignees' = IF u \in assignees THEN assignees \ {u} ELSE assignees \union {u}
  /\ UNCHANGED <<pc, locals, rows, likes, notes, tally, told>>

DiscussionCrash ==
  /\ by' = [r \in Requests |-> None]
  /\ on' = [r \in Requests |-> None]
  /\ list' = [r \in Requests |-> <<>>]
  /\ people' = [r \in Requests |-> {}]
  /\ todo' = [r \in Requests |-> {}]
  /\ bad' = {} /\ liked' = {}
  /\ UNCHANGED <<rows, assignees, likes, notes, tally, told>>

DiscussionNext ==
  \/ \E r \in Requests :
       \/ \E u \in Actors, p \in Comments \union {None}, ms \in Mentioned : CreateComment(r, u, p, ms)
       \/ \E u \in Actors, c \in Comments, place \in Changing : Change(r, place, u, c)
       \/ QueryFails(r) \/ FindTask(r) \/ FindParent(r) \/ Check(r) \/ Reload(r) \/ Notified(r)
       \/ \E c \in Comments : Insert(r, c)
       \/ \E u \in People : Notify(r, u)
       \/ FindComment(r) \/ Edit(r) \/ ReloadEdited(r) \/ Drop(r) \/ Look(r) \/ Flip(r)
  \/ \E u \in Assignable : Assign(u)

-----------------------------------------------------------------------------

(* Everyone a comment concerns has exactly one notification of it once its *)
(* creation is answered with success: those it mentions as mentioned, the  *)
(* others who created the task or were assigned to it as commented, and    *)
(* nobody else; whatever failed, was deleted or reassigned meanwhile.      *)
AnsweredMeansNotified ==
  \A c \in Comments, u \in People :
    told[c] # None =>
      notes[c][u] = IF u \in mentions[c] THEN {"mentioned"}
                    ELSE IF u \in told[c] \ {author[c]} THEN {"commented"}
                    ELSE {}

(* What toggleReaction returned to the requests of a user adds up to the   *)
(* reaction there is: however they interleave, none takes the reaction for *)
(* added, or removed, by itself that another one had added or removed.     *)
TogglesAddUp == \A p \in Pairs : tally[p] = IF p \in likes THEN 1 ELSE 0
=============================================================================
