------------------------------ MODULE Presence ------------------------------
(***************************************************************************)
(* Project rooms and presence (realtime.service.ts) and the page that      *)
(* shows who is online (use-project-realtime.ts).  Every element of Jobs   *)
(* is one run of a handler: subscribe, unsubscribe, or the cleanup of one  *)
(* project after a disconnection.  A step is what a handler does between   *)
(* two awaits; the users online are read in one step and used in a later   *)
(* one, since the adapter answers over Redis.                              *)
(*                                                                         *)
(* Socket.IO is external: join and leave take effect at once, join on a    *)
(* socket that is gone does nothing, a message to a room goes to those who *)
(* are in it, in order.  A page takes a message when it is sent: a later   *)
(* subscription's answer overrides whatever came before it anyway.         *)
(***************************************************************************)
EXTENDS Naturals, FiniteSets

CONSTANTS
  Users,
  Sockets,    \* connections, each used once, with the page behind it
  Removable,  \* users who may be removed from the organization
  Opened,     \* Opened[s]: the project the page of s has been showing, or None
  UserOf,     \* UserOf[s]: the user socket s authenticated as
  Projects,   \* all of one organization
  Jobs,       \* runs of handlers
  MaxSubscriptions,  \* MAX_PROJECT_SUBSCRIPTIONS_PER_SOCKET
  None

ASSUME PresenceAssumption ==
  /\ UserOf \in [Sockets -> Users] /\ Removable \subseteq Users
  /\ Opened \in [Sockets -> Projects \union {None}]
  /\ MaxSubscriptions \in Nat \ {0}
  /\ None \notin Sockets \union Projects

VARIABLES
  conn,     \* conn[s]: "new", "on" or "gone"
  rooms,    \* rooms[p]: the sockets in the room of p
  subs,     \* subs[s]: projectSubscriptions
  pc,       \* pc[j]: what job j does next
  skt, prj, \* skt[j], prj[j]: the socket and the project of job j
  seen,     \* seen[j]: the users online, as last read by job j
  members,  \* users who may view the projects
  evict,    \* users removed, for whom disconnectUser is still to be called
  doomed,   \* sockets that were told to disconnect
  todo,     \* todo[s]: projects the cleanup of socket s has to look at
  page,     \* page[s]: the project the page of socket s shows
  view,     \* view[s]: onlineUserIds of that page
  races     \* kinds of race that happened (history)

server == <<conn, rooms, subs>>
jobs == <<pc, skt, prj, seen>>
access == <<members, evict, doomed, todo>>
client == <<page, view>>
vars == <<conn, rooms, subs, pc, skt, prj, seen, members, evict, doomed, todo, page, view, races>>

Subscribing == {"authorize", "lookup", "join", "list", "ack"}
Sweeping == {"sweep", "swept"}
States == {"new", "done", "check", "offline"} \union Subscribing \union Sweeping
Races == {"snapshot", "gone", "hurried", "late", "failed"}

TypeOK ==
  /\ conn \in [Sockets -> {"new", "on", "gone"}]
  /\ rooms \in [Projects -> SUBSET Sockets]
  /\ subs \in [Sockets -> SUBSET Projects]
  /\ pc \in [Jobs -> States]
  /\ skt \in [Jobs -> Sockets \union {None}]
  /\ prj \in [Jobs -> Projects \union {None}]
  /\ seen \in [Jobs -> SUBSET Users]
  /\ members \subseteq Users /\ evict \subseteq Users /\ doomed \subseteq Sockets
  /\ todo \in [Sockets -> SUBSET Projects]
  /\ page \in [Sockets -> Projects \union {None}]
  /\ view \in [Sockets -> SUBSET Users]
  /\ races \subseteq Races

(* Some pages are subscribed already, with nothing under way.              *)
Init ==
  /\ conn = [s \in Sockets |-> IF Opened[s] = None THEN "new" ELSE "on"]
  /\ rooms = [p \in Projects |-> {s \in Sockets : Opened[s] = p}]
  /\ subs = [s \in Sockets |-> Projects \intersect {Opened[s]}]
  /\ pc = [j \in Jobs |-> "new"]
  /\ skt = [j \in Jobs |-> None]
  /\ prj = [j \in Jobs |-> None]
  /\ seen = [j \in Jobs |-> {}]
  /\ members = Users /\ evict = {} /\ doomed = {}
  /\ todo = [s \in Sockets |-> {}]
  /\ page = Opened
  /\ view = [s \in Sockets |-> {UserOf[r] : r \in {q \in Sockets : Opened[q] = Opened[s] /\ Opened[q] # None}}]
  /\ races = {}

-----------------------------------------------------------------------------

(* onlineUsers *)
Online(p) == {UserOf[s] : s \in rooms[p]}

(* publishPresence to the sockets ss: onPresence in the pages that show p. *)
Publish(ss, p, u, state) ==
  view' = [s \in Sockets |->
             IF s \notin ss \/ page[s] # p THEN view[s]
             ELSE IF state = "online" THEN view[s] \union {u} ELSE view[s] \ {u}]

(* The jobs still to run; which one is taken does not matter.              *)
IsNext(j) == pc[j] = "new" /\ j = CHOOSE i \in Jobs : pc[i] = "new"

(* Mutant: the socket and the project are taken one for the other.         *)
StartSwapped(j, s, p, place) ==
  /\ IsNext(j)
  /\ pc' = [pc EXCEPT ![j] = place]
  /\ skt' = [skt EXCEPT ![j] = p]
  /\ prj' = [prj EXCEPT ![j] = s]
  /\ UNCHANGED seen

Start(j, s, p, place) ==
  /\ IsNext(j)
  /\ pc' = [pc EXCEPT ![j] = place]
  /\ skt' = [skt EXCEPT ![j] = s]
  /\ prj' = [prj EXCEPT ![j] = p]
  /\ UNCHANGED seen

Finish(j) ==
  /\ pc' = [pc EXCEPT ![j] = "done"]
  /\ skt' = [skt EXCEPT ![j] = None]
  /\ prj' = [prj EXCEPT ![j] = None]
  /\ seen' = [seen EXCEPT ![j] = {}]

Goto(j, place) == pc' = [pc EXCEPT ![j] = place] /\ UNCHANGED <<skt, prj, seen>>

(* Job i has read the room of p and not yet used what it read.             *)
Holds(i, p) == prj[i] = p /\ pc[i] \in {"join", "ack", "offline", "swept"}

(* The room of p changes while another job holds what it read of it.       *)
Overtakes(j, p) == \E i \in Jobs \ {j} : Holds(i, p)

Note(race, happened) == races' = IF happened THEN races \union {race} ELSE races

-----------------------------------------------------------------------------
(* The page.                                                               *)

Full(s, p) == p \notin subs[s] /\ Cardinality(subs[s]) >= MaxSubscriptions

(* The page opens, connects if it has to, and subscribes; the limit is     *)
(* looked at once, here.                                                   *)
Subscribe(j, s, p) ==
  /\ conn[s] # "gone" /\ page[s] = None
  /\ conn' = [conn EXCEPT ![s] = "on"]
  /\ page' = [page EXCEPT ![s] = p]
  /\ IF Full(s, p) THEN UNCHANGED jobs ELSE Start(j, s, p, "authorize")
  /\ UNCHANGED <<rooms, subs, access, view, races>>

(* Mutant: the socket stays in the room.                                   *)
UnsubscribeStays(j, s, p) ==
  /\ conn[s] = "on" /\ page[s] = p
  /\ page' = [page EXCEPT ![s] = None]
  /\ view' = [view EXCEPT ![s] = {}]
  /\ subs' = [subs EXCEPT ![s] = @ \ {p}]
  /\ UNCHANGED <<conn, rooms, jobs, access, races>>

(* The page closes.  A project that is not subscribed yet is left as it is.*)
Unsubscribe(j, s, p) ==
  /\ conn[s] = "on" /\ page[s] = p
  /\ page' = [page EXCEPT ![s] = None]
  /\ view' = [view EXCEPT ![s] = {}]
  /\ IF p \in subs[s]
       THEN /\ subs' = [subs EXCEPT ![s] = @ \ {p}]
            /\ rooms' = [rooms EXCEPT ![p] = @ \ {s}]
            /\ Start(j, s, p, "check")
            /\ Note("snapshot", Overtakes(j, p))
       ELSE /\ UNCHANGED <<subs, rooms>>
            /\ UNCHANGED jobs
            /\ Note("hurried", \E i \in Jobs : skt[i] = s /\ prj[i] = p /\ pc[i] \in Subscribing)
  /\ UNCHANGED <<conn, access>>

-----------------------------------------------------------------------------
(* The subscribe handler, after its first await.                           *)

Authorize(j) ==
  /\ pc[j] = "authorize"
  /\ IF UserOf[skt[j]] \in members THEN Goto(j, "lookup") ELSE Finish(j)
  /\ UNCHANGED <<server, access, client, races>>

Read(j, from, to) ==
  /\ pc[j] = from
  /\ pc' = [pc EXCEPT ![j] = to]
  /\ seen' = [seen EXCEPT ![j] = Online(prj[j])]
  /\ UNCHANGED <<skt, prj, server, access, client, races>>

(* The cleanup of socket s is still going through the projects.            *)
Cleaning(s) == todo[s] # {} \/ \E i \in Jobs : skt[i] = s /\ pc[i] \in Sweeping

(* Mutant: nobody is told.                                                 *)
JoinSilently(j) ==
  /\ pc[j] = "join"
  /\ LET s == skt[j]
         p == prj[j] IN
       /\ rooms' = IF conn[s] = "on" THEN [rooms EXCEPT ![p] = @ \union {s}] ELSE rooms
       /\ subs' = [subs EXCEPT ![s] = @ \union {p}]
       /\ Note("snapshot", s \notin rooms[p] /\ Overtakes(j, p))
  /\ Goto(j, "list")
  /\ UNCHANGED <<conn, access, client>>

Join(j) ==
  /\ pc[j] = "join"
  /\ LET s == skt[j]
         p == prj[j]
         inside == IF conn[s] = "on" THEN rooms[p] \union {s} ELSE rooms[p] IN
       /\ rooms' = [rooms EXCEPT ![p] = inside]
       /\ subs' = [subs EXCEPT ![s] = @ \union {p}]
       /\ IF p \notin subs[s] /\ UserOf[s] \notin seen[j]
            THEN Publish(inside, p, UserOf[s], "online")
            ELSE UNCHANGED view
       /\ Note("snapshot", inside # rooms[p] /\ Overtakes(j, p))
       /\ todo' = [todo EXCEPT ![s] = IF p \notin subs[s] /\ Cleaning(s) THEN @ \union {p} ELSE @]
  /\ pc' = [pc EXCEPT ![j] = "list"]
  /\ seen' = [seen EXCEPT ![j] = {}]
  /\ UNCHANGED <<skt, prj, conn, members, evict, doomed, page>>

Acknowledge(j) ==
  /\ pc[j] = "ack"
  /\ IF page[skt[j]] # None
       THEN view' = [view EXCEPT ![skt[j]] = seen[j]]
       ELSE UNCHANGED view
  /\ Note("late", page[skt[j]] \notin {prj[j], None})
  /\ Finish(j)
  /\ UNCHANGED <<server, access, page>>

(* publishOfflineWhenAbsent, and the end of the cleanup it may be part of. *)
PublishOffline(j) ==
  /\ pc[j] \in {"offline", "swept"}
  /\ IF UserOf[skt[j]] \notin seen[j]
       THEN Publish(rooms[prj[j]], prj[j], UserOf[skt[j]], "offline")
       ELSE UNCHANGED view
  /\ subs' = IF pc[j] = "swept" /\ todo[skt[j]] = {} THEN [subs EXCEPT ![skt[j]] = {}] ELSE subs
  /\ Finish(j)
  /\ UNCHANGED <<conn, rooms, access, page, races>>

(* An await rejects.  A subscription answers an error, whether or not its  *)
(* socket is in the room by then; a cleanup leaves what it had still to    *)
(* look at.                                                                *)
Throws(j) ==
  /\ pc[j] \in {"authorize", "lookup", "join", "list", "sweep"}
  /\ todo' = IF pc[j] = "sweep" THEN [todo EXCEPT ![skt[j]] = {}] ELSE todo
  /\ Note("failed", pc[j] = "sweep" \/ prj[j] \in subs[skt[j]])
  /\ Finish(j)
  /\ UNCHANGED <<server, members, evict, doomed, client>>

Advance(j) ==
  \/ Throws(j)
  \/ Authorize(j) \/ Join(j) \/ Acknowledge(j) \/ PublishOffline(j)
  \/ Read(j, "lookup", "join") \/ Read(j, "list", "ack") \/ Read(j, "check", "offline")
  \/ Read(j, "sweep", "swept")

-----------------------------------------------------------------------------
(* Disconnections: the page goes, the access token expires, or the user is *)
(* put out of the organization.                                            *)

(* The socket leaves every room.  The handler goes through the projects of *)
(* projectSubscriptions one by one, those added meanwhile included.        *)
Disconnect(s) ==
  /\ conn[s] = "on"
  /\ conn' = [conn EXCEPT ![s] = "gone"]
  /\ rooms' = [p \in Projects |-> rooms[p] \ {s}]
  /\ todo' = [todo EXCEPT ![s] = subs[s]]
  /\ doomed' = doomed \ {s}
  /\ page' = [page EXCEPT ![s] = None]
  /\ view' = [view EXCEPT ![s] = {}]
  /\ races' = races
       \union {r \in {"snapshot"} : \E i \in Jobs, p \in Projects : s \in rooms[p] /\ Holds(i, p)}
       \union {r \in {"gone"} : \E i \in Jobs : skt[i] = s /\ pc[i] \in Subscribing}
  /\ UNCHANGED <<subs, jobs, members, evict>>

Sweep(j, s) ==
  /\ conn[s] = "gone"
  /\ \A i \in Jobs : skt[i] = s => pc[i] \notin Sweeping
  /\ \E p \in todo[s] :
       /\ todo' = [todo EXCEPT ![s] = @ \ {p}]
       /\ Start(j, s, p, "sweep")
  /\ UNCHANGED <<server, members, evict, doomed, client, races>>

(* The organization removes the member, and then has its sockets           *)
(* disconnected.                                                           *)
RemoveMember(u) ==
  /\ u \in members \intersect Removable
  /\ members' = members \ {u}
  /\ evict' = evict \union {u}
  /\ UNCHANGED <<doomed, todo, server, jobs, client, races>>

(* Mutant: only the sockets found in a project room are disconnected.      *)
DisconnectRooms(u) ==
  /\ u \in evict
  /\ evict' = evict \ {u}
  /\ doomed' = doomed \union {s \in Sockets : UserOf[s] = u /\ \E p \in Projects : s \in rooms[p]}
  /\ UNCHANGED <<members, todo, server, jobs, client, races>>

DisconnectUser(u) ==
  /\ u \in evict
  /\ evict' = evict \ {u}
  /\ doomed' = doomed \union {s \in Sockets : UserOf[s] = u /\ conn[s] = "on"}
  /\ UNCHANGED <<members, todo, server, jobs, client, races>>

Next ==
  \/ \E s \in Sockets : Disconnect(s)
  \/ \E j \in Jobs, s \in Sockets : Sweep(j, s)
  \/ \E j \in Jobs, s \in Sockets, p \in Projects : Subscribe(j, s, p) \/ Unsubscribe(j, s, p)
  \/ \E j \in Jobs : Advance(j)
  \/ \E u \in Users : RemoveMember(u) \/ DisconnectUser(u)

Spec == Init /\ [][Next]_vars

-----------------------------------------------------------------------------
(* Properties.                                                             *)

(* Nothing is under way.                                                   *)
Quiet ==
  /\ \A j \in Jobs : pc[j] \in {"new", "done"}
  /\ \A s \in Sockets : todo[s] = {}
  /\ evict = {} /\ doomed = {}

(* Once everything is quiet, a page that is subscribed shows exactly who   *)
(* has a socket in the room, unless the room changed between a look at it  *)
(* and the use of what was seen, a socket went while it subscribed, a page *)
(* that went on to another project got the answer for the last one, or a   *)
(* subscription that had joined, or a cleanup, failed in the middle.       *)
ViewsConverge ==
  Quiet /\ races \subseteq {"hurried"} =>
    \A s \in Sockets : page[s] # None /\ page[s] \in subs[s] => view[s] = Online(page[s])

(* A socket is in the rooms of the project its page shows and of no other, *)
(* unless a page was left before its subscription had gone through.        *)
NoneLeftBehind ==
  Quiet /\ "hurried" \notin races =>
    \A s \in Sockets, p \in Projects : s \in rooms[p] => page[s] = p

(* Who is put out of the organization is out of its rooms too, or about to *)
(* be, also when a subscription was authorized just before.                *)
NoEavesdropper ==
  \A p \in Projects : \A s \in rooms[p] :
    UserOf[s] \in members \union evict \/ s \in doomed
=============================================================================
