--------------------------- MODULE RealtimeProofs ---------------------------
(***************************************************************************)
(* Proofs about what the realtime connection is for: the rooms and the     *)
(* presence of Presence, and then a page of TaskPage over its queries.     *)
(***************************************************************************)
EXTENDS Presence, TaskPage, SequenceTheorems, TLAPS

(* The places of a job: at work at all, before the socket is in the room,  *)
(* and after somebody left it.                                             *)
Working(j) == pc[j] \notin {"new", "done"}
Entering == {"authorize", "lookup", "join"}
Parting == {"check", "offline"} \union Sweeping

(* Jobs have a socket and a project; who is in a room is connected; and a  *)
(* connected socket is in the rooms it is subscribed to.                   *)
Placed == \A j \in Jobs : Working(j) => skt[j] \in Sockets /\ prj[j] \in Projects
Connected ==
  /\ \A s \in Sockets, p \in Projects : s \in rooms[p] => conn[s] = "on"
  /\ \A s \in Sockets, p \in Projects : conn[s] = "on" => (p \in subs[s] <=> s \in rooms[p])
  /\ \A s \in Sockets : conn[s] = "new" => subs[s] = {}
  /\ \A s \in Sockets : page[s] # None => conn[s] = "on"
  /\ \A j \in Jobs : pc[j] \in Subscribing => conn[skt[j]] # "new"
  /\ \A j \in Jobs : pc[j] \in Sweeping => conn[skt[j]] = "gone"
  /\ \A s \in Sockets : todo[s] # {} => conn[s] = "gone"

(* Whose sockets may be in a room: members, and who is about to be put     *)
(* out. A subscription past its check has such a socket.                   *)
Rightful(s) == UserOf[s] \in members \union evict \/ s \in doomed
Authorized ==
  \A j \in Jobs : pc[j] \in {"lookup", "join"} /\ conn[skt[j]] = "on" => Rightful(skt[j])

(* A page that waits for its subscriptions has one under way.              *)
Enters(j) == pc[j] \in Entering /\ conn[skt[j]] = "on"
InOrder ==
  /\ \A s \in Sockets, p \in Projects : s \in rooms[p] => page[s] = p
  /\ \A j \in Jobs : Enters(j) => page[skt[j]] = prj[j] /\ skt[j] \notin rooms[prj[j]]
  /\ \A i, j \in Jobs : Enters(i) /\ Enters(j) /\ skt[i] = skt[j] => i = j
Orderly == "hurried" \notin races => InOrder

(* Somebody is still going to look whether user u has left the project p.  *)
Leaves(u, p) ==
  \/ \E j \in Jobs : pc[j] \in Parting /\ prj[j] = p /\ UserOf[skt[j]] = u
  \/ \E s \in Sockets : p \in todo[s] /\ UserOf[s] = u
(* Why the page of s may show something else than who is in the room of p: *)
(* its subscription is under way, its user is being put out, or the users  *)
(* it shows too many are about to be reported offline. It never shows too  *)
(* few.                                                                    *)
Counted(s, p) ==
  \/ \E j \in Jobs : pc[j] \in Subscribing /\ skt[j] = s /\ prj[j] = p
  \/ UserOf[s] \notin members
  \/ /\ Online(p) \subseteq view[s]
     /\ \A u \in view[s] \ Online(p) : Leaves(u, p)

Base == TypeOK /\ Placed /\ Connected

(* The first pages are subscribed, with nothing under way.                 *)
LEMMA InitBase == Init => Base
<1> SUFFICES ASSUME Init PROVE Base
  OBVIOUS
<1> USE PresenceAssumption DEF Init
<1>1. TypeOK
  BY DEF TypeOK, States, Races
<1>2. Placed
  BY DEF Placed, Working
<1>3. Connected
  BY DEF Connected, Subscribing, Sweeping
<1> QED
  BY <1>1, <1>2, <1>3 DEF Base

(* What is written of one job.                                             *)
JobTypes ==
  /\ pc \in [Jobs -> States]
  /\ skt \in [Jobs -> Sockets \union {None}]
  /\ prj \in [Jobs -> Projects \union {None}]
  /\ seen \in [Jobs -> SUBSET Users]

(* A job that starts has a socket and a project; the others keep theirs.   *)
LEMMA StartTypes ==
  ASSUME JobTypes, Placed, NEW j \in Jobs, NEW s \in Sockets, NEW p \in Projects, NEW place \in States,
         Start(j, s, p, place)
  PROVE  /\ JobTypes' /\ Placed'
         /\ pc[j] = "new" /\ pc'[j] = place /\ skt'[j] = s /\ prj'[j] = p
         /\ \A i \in Jobs \ {j} : pc'[i] = pc[i] /\ skt'[i] = skt[i] /\ prj'[i] = prj[i]
         /\ seen' = seen
  BY DEF JobTypes, Placed, Working, Start, IsNext

(* A job that ends is at work no more; the others go on.                   *)
LEMMA FinishTypes ==
  ASSUME JobTypes, Placed, NEW j \in Jobs, Finish(j)
  PROVE  /\ JobTypes' /\ Placed'
         /\ pc'[j] = "done"
         /\ \A i \in Jobs \ {j} :
              pc'[i] = pc[i] /\ skt'[i] = skt[i] /\ prj'[i] = prj[i] /\ seen'[i] = seen[i]
  BY DEF JobTypes, Placed, Working, Finish, States

(* The users in a room are users.                                          *)
LEMMA OnlineTypes ==
  ASSUME TypeOK, NEW p \in Projects
  PROVE  Online(p) \in SUBSET Users
  BY PresenceAssumption DEF TypeOK, Online

(* Only the views of pages that show p change.                             *)
LEMMA PublishTypes ==
  ASSUME view \in [Sockets -> SUBSET Users], NEW ss, NEW p, NEW u \in Users, NEW state, Publish(ss, p, u, state)
  PROVE  view' \in [Sockets -> SUBSET Users]
  BY DEF Publish

(* Every handler keeps the types, and keeps rooms, subscriptions and       *)
(* connections in step.                                                    *)
LEMMA StepKeepsBase ==
  ASSUME Base, [Next]_vars
  PROVE  Base'
<1> USE PresenceAssumption DEF Base, TypeOK
<1>0. JobTypes
  BY DEF JobTypes
<1>1. CASE UNCHANGED vars
  BY <1>1 DEF vars, Placed, Working, Connected
<1>2. ASSUME NEW s \in Sockets, Disconnect(s)
      PROVE  Base'
  <2>1. TypeOK'
    BY <1>2 DEF Disconnect, jobs, Races
  <2>2. Placed'
    BY <1>2 DEF Disconnect, jobs, Placed, Working
  <2>3. Connected'
    BY <1>2 DEF Disconnect, jobs, Connected
  <2> QED
    BY <2>1, <2>2, <2>3
<1>3. ASSUME NEW j \in Jobs, NEW s \in Sockets, Sweep(j, s)
      PROVE  Base'
  <2>1. PICK p \in todo[s] : todo' = [todo EXCEPT ![s] = @ \ {p}] /\ Start(j, s, p, "sweep")
    BY <1>3 DEF Sweep
  <2>2. p \in Projects /\ "sweep" \in States
    BY <2>1 DEF States, Sweeping
  <2>3. /\ JobTypes' /\ Placed'
        /\ pc[j] = "new" /\ pc'[j] = "sweep" /\ skt'[j] = s
        /\ \A i \in Jobs \ {j} : pc'[i] = pc[i] /\ skt'[i] = skt[i]
    BY <1>0, <2>1, <2>2, StartTypes
  <2>4. TypeOK'
    BY <1>3, <2>1, <2>3 DEF Sweep, server, client, JobTypes
  <2>5. Connected'
    BY <1>3, <2>3 DEF Sweep, server, client, Connected, Subscribing, Sweeping
  <2> QED
    BY <2>3, <2>4, <2>5
<1>4. ASSUME NEW j \in Jobs, NEW s \in Sockets, NEW p \in Projects, Subscribe(j, s, p)
      PROVE  Base'
  <2>1. CASE UNCHANGED jobs
    <3>1. TypeOK'
      BY <1>4, <2>1 DEF Subscribe, jobs, access
    <3>2. Placed'
      BY <2>1 DEF jobs, Placed, Working
    <3>3. Connected'
      BY <1>4, <2>1 DEF Subscribe, jobs, access, Connected
    <3> QED
      BY <3>1, <3>2, <3>3
  <2>2. CASE Start(j, s, p, "authorize")
    <3>1. /\ JobTypes' /\ Placed'
          /\ pc[j] = "new" /\ pc'[j] = "authorize" /\ skt'[j] = s
          /\ \A i \in Jobs \ {j} : pc'[i] = pc[i] /\ skt'[i] = skt[i]
      <4>1. "authorize" \in States
        BY DEF States, Subscribing
      <4> QED
        BY <1>0, <2>2, <4>1, StartTypes
    <3>2. TypeOK'
      BY <1>4, <3>1 DEF Subscribe, access, JobTypes
    <3>3. Connected'
      BY <1>4, <3>1 DEF Subscribe, access, Connected, Subscribing, Sweeping
    <3> QED
      BY <3>1, <3>2, <3>3
  <2> QED
    BY <1>4, <2>1, <2>2 DEF Subscribe
<1>5. ASSUME NEW j \in Jobs, NEW s \in Sockets, NEW p \in Projects, Unsubscribe(j, s, p)
      PROVE  Base'
  <2>1. CASE p \notin subs[s]
    <3>1. TypeOK'
      BY <1>5, <2>1 DEF Unsubscribe, jobs, access, Note, Races
    <3>2. Placed'
      BY <1>5, <2>1 DEF Unsubscribe, jobs, Placed, Working
    <3>3. Connected'
      BY <1>5, <2>1 DEF Unsubscribe, jobs, access, Connected
    <3> QED
      BY <3>1, <3>2, <3>3
  <2>2. CASE p \in subs[s]
    <3>1. /\ JobTypes' /\ Placed'
          /\ pc[j] = "new" /\ pc'[j] = "check" /\ skt'[j] = s
          /\ \A i \in Jobs \ {j} : pc'[i] = pc[i] /\ skt'[i] = skt[i]
      <4>1. "check" \in States /\ Start(j, s, p, "check")
        BY <1>5, <2>2 DEF Unsubscribe, States
      <4> QED
        BY <1>0, <4>1, StartTypes
    <3>2. /\ page' = [page EXCEPT ![s] = None] /\ view' = [view EXCEPT ![s] = {}]
          /\ subs' = [subs EXCEPT ![s] = @ \ {p}] /\ rooms' = [rooms EXCEPT ![p] = @ \ {s}]
          /\ races' \in {races, races \union {"snapshot"}}
          /\ UNCHANGED <<conn, members, evict, doomed, todo>>
      BY <1>5, <2>2 DEF Unsubscribe, access, Note
    <3>3. TypeOK'
      BY <3>1, <3>2 DEF JobTypes, Races
    <3>4. Connected'
      BY <3>1, <3>2 DEF Connected, Subscribing, Sweeping
    <3> QED
      BY <3>1, <3>3, <3>4
  <2> QED
    BY <2>1, <2>2
<1>6. ASSUME NEW j \in Jobs, Authorize(j)
      PROVE  Base'
  <2>1. UNCHANGED <<server, access, client, races>>
    BY <1>6 DEF Authorize
  <2>2. CASE Goto(j, "lookup")
    <3>1. TypeOK'
      BY <2>1, <2>2 DEF Goto, server, access, client, States, Subscribing
    <3>2. Placed'
      BY <1>6, <2>2 DEF Authorize, Goto, Placed, Working
    <3>3. Connected'
      BY <1>6, <2>1, <2>2 DEF Authorize, Goto, server, access, client, Connected, Subscribing, Sweeping
    <3> QED
      BY <3>1, <3>2, <3>3
  <2>3. CASE Finish(j)
    <3>1. /\ JobTypes' /\ Placed' /\ pc'[j] = "done"
          /\ \A i \in Jobs \ {j} : pc'[i] = pc[i] /\ skt'[i] = skt[i]
      BY <1>0, <2>3, FinishTypes
    <3>2. TypeOK'
      BY <2>1, <3>1 DEF server, access, client, JobTypes
    <3>3. Connected'
      BY <2>1, <3>1 DEF server, access, client, Connected, Subscribing, Sweeping
    <3> QED
      BY <3>1, <3>2, <3>3
  <2> QED
    BY <1>6, <2>2, <2>3 DEF Authorize
<1>7. ASSUME NEW j \in Jobs, NEW from \in Subscribing \union Sweeping \union {"check"}, NEW to \in States,
             Read(j, from, to), from \in Sweeping <=> to \in Sweeping,
             from \in Subscribing <=> to \in Subscribing
      PROVE  Base'
  <2>1. /\ pc[j] = from /\ pc' = [pc EXCEPT ![j] = to] /\ seen' = [seen EXCEPT ![j] = Online(prj[j])]
        /\ UNCHANGED <<skt, prj, server, access, client, races>>
    BY <1>7 DEF Read
  <2>2. prj[j] \in Projects
    BY <2>1 DEF Placed, Working, Subscribing, Sweeping
  <2>3. TypeOK'
    BY <2>1, <2>2, OnlineTypes DEF server, access, client
  <2>4. Placed'
    BY <2>1 DEF Placed, Working, Subscribing, Sweeping
  <2>5. Connected'
    BY <1>7, <2>1 DEF Connected, server, access, client
  <2> QED
    BY <2>3, <2>4, <2>5
<1>8. ASSUME NEW j \in Jobs, Join(j)
      PROVE  Base'
  <2> DEFINE s == skt[j]
             p == prj[j]
             inside == IF conn[s] = "on" THEN rooms[p] \union {s} ELSE rooms[p]
  <2>1. s \in Sockets /\ p \in Projects /\ pc[j] = "join"
    BY <1>8 DEF Join, Placed, Working
  <2>2. /\ rooms' = [rooms EXCEPT ![p] = inside]
        /\ subs' = [subs EXCEPT ![s] = @ \union {p}]
        /\ races' \in {races, races \union {"snapshot"}}
        /\ todo' \in [Sockets -> SUBSET Projects]
        /\ pc' = [pc EXCEPT ![j] = "list"]
        /\ seen' = [seen EXCEPT ![j] = {}]
        /\ UNCHANGED <<skt, prj, conn, members, evict, doomed, page>>
    BY <1>8, <2>1 DEF Join, Note
  <2>3. view' \in [Sockets -> SUBSET Users]
    BY <1>8, <2>1, PublishTypes DEF Join
  <2>4. TypeOK'
    BY <2>1, <2>2, <2>3 DEF States, Subscribing, Races
  <2>5. Placed'
    BY <2>1, <2>2 DEF Placed, Working
  <2>6. \A r \in Sockets : todo'[r] # {} => conn[r] = "gone"
    <3>1. Cleaning(s) => conn[s] = "gone"
      BY <2>1 DEF Cleaning, Connected
    <3>2. todo' \in {todo, [todo EXCEPT ![s] = @ \union {p}]} /\ (Cleaning(s) \/ todo' = todo)
      BY <1>8 DEF Join
    <3> QED
      BY <2>1, <3>1, <3>2 DEF Connected
  <2>7. Connected'
    BY <2>1, <2>2, <2>6 DEF Connected, Subscribing, Sweeping
  <2> QED
    BY <2>4, <2>5, <2>7
<1>9. ASSUME NEW j \in Jobs, Acknowledge(j) \/ PublishOffline(j)
      PROVE  Base'
  <2>1. Finish(j) /\ UNCHANGED <<conn, rooms, access, page>> /\ Working(j)
    BY <1>9 DEF Acknowledge, PublishOffline, server, Working
  <2>2. /\ JobTypes' /\ Placed' /\ pc'[j] = "done" /\ skt[j] \in Sockets
        /\ \A i \in Jobs \ {j} : pc'[i] = pc[i] /\ skt'[i] = skt[i]
    BY <1>0, <2>1, FinishTypes DEF Placed
  <2>3. view' \in [Sockets -> SUBSET Users] /\ races' \subseteq Races
    <3>1. CASE Acknowledge(j)
      BY <2>2, <3>1 DEF Acknowledge, Note, Races
    <3>2. CASE PublishOffline(j)
      <4>1. UserOf[skt[j]] \in Users
        BY <2>2
      <4> QED
        BY <3>2, <4>1, PublishTypes DEF PublishOffline
    <3> QED
      BY <1>9, <3>1, <3>2
  <2>4. \/ subs' = subs
        \/ pc[j] = "swept" /\ subs' = [subs EXCEPT ![skt[j]] = {}]
    BY <1>9 DEF Acknowledge, PublishOffline, server
  <2>5. TypeOK'
    BY <2>1, <2>2, <2>3, <2>4 DEF access, JobTypes
  <2>6. Connected'
    BY <2>1, <2>2, <2>4 DEF access, Connected, Subscribing, Sweeping
  <2> QED
    BY <2>2, <2>5, <2>6
<1>10. ASSUME NEW u \in Users, RemoveMember(u) \/ DisconnectUser(u)
       PROVE  Base'
  <2>1. UNCHANGED <<server, jobs, client, races, todo>>
    BY <1>10 DEF RemoveMember, DisconnectUser
  <2>2. members' \subseteq Users /\ evict' \subseteq Users /\ doomed' \subseteq Sockets
    BY <1>10 DEF RemoveMember, DisconnectUser
  <2>3. TypeOK'
    BY <2>1, <2>2 DEF server, jobs, client
  <2>4. Placed' /\ Connected'
    BY <2>1 DEF server, jobs, client, Placed, Working, Connected
  <2> QED
    BY <2>3, <2>4
<1>11. ASSUME NEW j \in Jobs, Throws(j)
       PROVE  Base'
  <2>1. /\ Finish(j) /\ UNCHANGED <<server, members, evict, doomed, client>> /\ Working(j)
        /\ todo' = IF pc[j] = "sweep" THEN [todo EXCEPT ![skt[j]] = {}] ELSE todo
        /\ races' \in {races, races \union {"failed"}}
    BY <1>11 DEF Throws, Working, Note
  <2>2. /\ JobTypes' /\ Placed' /\ pc'[j] = "done" /\ skt[j] \in Sockets
        /\ \A i \in Jobs \ {j} : pc'[i] = pc[i] /\ skt'[i] = skt[i]
    BY <1>0, <2>1, FinishTypes DEF Placed
  <2>3. TypeOK'
    BY <2>1, <2>2 DEF server, client, JobTypes, Races
  <2>4. Connected'
    BY <2>1, <2>2 DEF server, client, Connected, Subscribing, Sweeping
  <2> QED
    BY <2>2, <2>3, <2>4
<1>12. ASSUME NEW j \in Jobs, Advance(j)
       PROVE  Base'
  <2>1. ASSUME Read(j, "lookup", "join") \/ Read(j, "list", "ack") \/ Read(j, "check", "offline")
                 \/ Read(j, "sweep", "swept")
        PROVE  Base'
    BY <1>7, <2>1 DEF Subscribing, Sweeping, States
  <2> QED
    BY <1>6, <1>8, <1>9, <1>11, <1>12, <2>1 DEF Advance
<1> QED
  BY <1>1, <1>2, <1>3, <1>4, <1>5, <1>10, <1>12 DEF Next

(* Only somebody who may view the projects gets into a room, and whoever   *)
(* is removed is told to go before the removal is over.                    *)
LEMMA StepKeepsRights ==
  ASSUME Base, NoEavesdropper, Authorized, [Next]_vars
  PROVE  NoEavesdropper' /\ Authorized'
<1> USE PresenceAssumption DEF Base, TypeOK
<1>0. JobTypes
  BY DEF JobTypes
<1>1. ASSUME UNCHANGED <<UserOf, members, evict, doomed>>,
             \A p \in Projects : rooms'[p] \subseteq rooms[p],
             \A i \in Jobs : pc'[i] \in {"lookup", "join"} /\ conn'[skt'[i]] = "on" =>
                /\ skt'[i] = skt[i]
                /\ \/ pc[i] \in {"lookup", "join"} /\ conn[skt[i]] = "on"
                   \/ UserOf[skt[i]] \in members
      PROVE  NoEavesdropper' /\ Authorized'
  BY <1>1 DEF NoEavesdropper, Authorized, Rightful
<1>2. CASE UNCHANGED vars
  BY <1>1, <1>2 DEF vars
<1>3. ASSUME NEW s \in Sockets, Disconnect(s)
      PROVE  NoEavesdropper' /\ Authorized'
  BY <1>3 DEF Disconnect, jobs, NoEavesdropper, Authorized, Rightful
<1>4. ASSUME NEW j \in Jobs, NEW s \in Sockets, Sweep(j, s)
      PROVE  NoEavesdropper' /\ Authorized'
  <2>1. PICK p \in todo[s] : Start(j, s, p, "sweep")
    BY <1>4 DEF Sweep
  <2>2. pc'[j] = "sweep" /\ \A i \in Jobs \ {j} : pc'[i] = pc[i] /\ skt'[i] = skt[i]
    BY <2>1 DEF Start
  <2> QED
    BY <1>1, <1>4, <2>2 DEF Sweep, server
<1>5. ASSUME NEW j \in Jobs, NEW s \in Sockets, NEW p \in Projects, Subscribe(j, s, p)
      PROVE  NoEavesdropper' /\ Authorized'
  <2>1. \A i \in Jobs : pc'[i] \in {"lookup", "join"} => pc'[i] = pc[i] /\ skt'[i] = skt[i]
    BY <1>5 DEF Subscribe, Start, jobs
  <2>2. \A i \in Jobs : pc[i] \in {"lookup", "join"} => conn'[skt[i]] = conn[skt[i]]
    BY <1>5 DEF Subscribe, Connected, Subscribing, Placed, Working
  <2> QED
    BY <1>1, <1>5, <2>1, <2>2 DEF Subscribe, access
<1>6. ASSUME NEW j \in Jobs, NEW s \in Sockets, NEW p \in Projects, Unsubscribe(j, s, p)
      PROVE  NoEavesdropper' /\ Authorized'
  <2>1. \A i \in Jobs : pc'[i] \in {"lookup", "join"} => pc'[i] = pc[i] /\ skt'[i] = skt[i]
    BY <1>6 DEF Unsubscribe, Start, jobs
  <2>2. rooms' \in {rooms, [rooms EXCEPT ![p] = @ \ {s}]} /\ UNCHANGED <<conn, members, evict, doomed>>
    BY <1>6 DEF Unsubscribe, access
  <2>3. \A q \in Projects : rooms'[q] \subseteq rooms[q]
    BY <2>2
  <2> QED
    BY <1>1, <2>1, <2>2, <2>3
<1>7. ASSUME NEW j \in Jobs, Authorize(j)
      PROVE  NoEavesdropper' /\ Authorized'
  <2>1. \A i \in Jobs : pc'[i] \in {"lookup", "join"} =>
          /\ skt'[i] = skt[i]
          /\ pc[i] = pc'[i] \/ UserOf[skt[i]] \in members
    BY <1>7 DEF Authorize, Goto, Finish
  <2> QED
    BY <1>1, <1>7, <2>1 DEF Authorize, server, access
<1>8. ASSUME NEW j \in Jobs, NEW from, NEW to, Read(j, from, to),
             from = "lookup" \/ to \notin {"lookup", "join"}
      PROVE  NoEavesdropper' /\ Authorized'
  BY <1>1, <1>8 DEF Read, server, access
<1>9. ASSUME NEW j \in Jobs, Join(j)
      PROVE  NoEavesdropper' /\ Authorized'
  <2>1. skt[j] \in Sockets /\ prj[j] \in Projects /\ pc[j] = "join"
    BY <1>9 DEF Join, Placed, Working
  <2>2. /\ rooms' = [rooms EXCEPT ![prj[j]] =
                       IF conn[skt[j]] = "on" THEN rooms[prj[j]] \union {skt[j]} ELSE rooms[prj[j]]]
        /\ pc' = [pc EXCEPT ![j] = "list"]
        /\ UNCHANGED <<skt, prj, conn, members, evict, doomed>>
    BY <1>9 DEF Join
  <2>3. conn[skt[j]] = "on" => Rightful(skt[j])
    BY <2>1 DEF Authorized
  <2> QED
    BY <2>1, <2>2, <2>3 DEF NoEavesdropper, Authorized, Rightful
<1>10. ASSUME NEW j \in Jobs, Acknowledge(j) \/ PublishOffline(j)
       PROVE  NoEavesdropper' /\ Authorized'
  <2>1. Finish(j) /\ UNCHANGED <<conn, rooms, access>>
    BY <1>10 DEF Acknowledge, PublishOffline, server
  <2>2. \A i \in Jobs : pc'[i] \in {"lookup", "join"} => pc'[i] = pc[i] /\ skt'[i] = skt[i]
    BY <2>1 DEF Finish
  <2> QED
    BY <1>1, <2>1, <2>2 DEF access
<1>11. ASSUME NEW u \in Users, RemoveMember(u)
       PROVE  NoEavesdropper' /\ Authorized'
  BY <1>11 DEF RemoveMember, server, jobs, NoEavesdropper, Authorized, Rightful
<1>12. ASSUME NEW u \in Users, DisconnectUser(u)
       PROVE  NoEavesdropper' /\ Authorized'
  <2>1. \A s \in Sockets : Rightful(s) /\ conn[s] = "on" => Rightful(s)'
    BY <1>12 DEF DisconnectUser, server, Rightful
  <2>2. \A p \in Projects : \A s \in rooms[p] : s \in Sockets /\ conn[s] = "on"
    BY DEF Connected
  <2>3. NoEavesdropper'
    BY <1>12, <2>1, <2>2 DEF DisconnectUser, server, NoEavesdropper, Rightful
  <2>4. Authorized'
    BY <1>12, <2>1 DEF DisconnectUser, server, jobs, Authorized, Placed, Working
  <2> QED
    BY <2>3, <2>4
<1>13. ASSUME NEW j \in Jobs, Throws(j)
       PROVE  NoEavesdropper' /\ Authorized'
  <2>1. Finish(j) /\ UNCHANGED <<server, members, evict, doomed>>
    BY <1>13 DEF Throws
  <2>2. \A i \in Jobs : pc'[i] \in {"lookup", "join"} => pc'[i] = pc[i] /\ skt'[i] = skt[i]
    BY <2>1 DEF Finish
  <2> QED
    BY <1>1, <2>1, <2>2 DEF server
<1> QED
  BY <1>2, <1>3, <1>4, <1>5, <1>6, <1>7, <1>8, <1>9, <1>10, <1>11, <1>12, <1>13
  DEF Next, Advance

(* A race that happened stays noted.                                       *)
LEMMA RacesGrow ==
  ASSUME [Next]_vars
  PROVE  races \subseteq races'
<1>1. CASE UNCHANGED vars
  BY <1>1 DEF vars
<1>2. ASSUME NEW s \in Sockets, Disconnect(s)
      PROVE  races \subseteq races'
  BY <1>2 DEF Disconnect
<1>3. ASSUME NEW j \in Jobs, NEW s \in Sockets, Sweep(j, s)
      PROVE  races \subseteq races'
  BY <1>3 DEF Sweep
<1>4. ASSUME NEW j \in Jobs, NEW s \in Sockets, NEW p \in Projects, Subscribe(j, s, p) \/ Unsubscribe(j, s, p)
      PROVE  races \subseteq races'
  <2>1. CASE Subscribe(j, s, p)
    BY <2>1 DEF Subscribe
  <2>2. CASE Unsubscribe(j, s, p)
    BY <2>2 DEF Unsubscribe, Note
  <2> QED
    BY <1>4, <2>1, <2>2
<1>5. ASSUME NEW j \in Jobs, Advance(j)
      PROVE  races \subseteq races'
  <2>1. ASSUME Authorize(j) \/ PublishOffline(j) \/ Acknowledge(j)
        PROVE  races \subseteq races'
    BY <2>1 DEF Authorize, PublishOffline, Acknowledge, Note
  <2>2. ASSUME Join(j) \/ Throws(j)
        PROVE  races \subseteq races'
    BY <2>2 DEF Join, Throws, Note
  <2>3. ASSUME NEW from, NEW to, Read(j, from, to)
        PROVE  races \subseteq races'
    BY <2>3 DEF Read
  <2> QED
    BY <1>5, <2>1, <2>2, <2>3 DEF Advance
<1>6. ASSUME NEW u \in Users, RemoveMember(u) \/ DisconnectUser(u)
      PROVE  races \subseteq races'
  BY <1>6 DEF RemoveMember, DisconnectUser
<1> QED
  BY <1>1, <1>2, <1>3, <1>4, <1>5, <1>6 DEF Next

(* A page that is left has no subscription under way and is in no other    *)
(* room, unless it was left in a hurry.                                    *)
LEMMA StepKeepsOrder ==
  ASSUME Base, Orderly, [Next]_vars
  PROVE  Orderly'
<1> SUFFICES ASSUME "hurried" \notin races'
             PROVE  InOrder'
  BY DEF Orderly
<1>0. InOrder
  BY RacesGrow DEF Orderly
<1> USE PresenceAssumption, <1>0 DEF Base, TypeOK
<1>1. ASSUME UNCHANGED page,
             \A p \in Projects : rooms'[p] \subseteq rooms[p],
             \A i \in Jobs : Enters(i)' => Enters(i) /\ skt'[i] = skt[i] /\ prj'[i] = prj[i],
             Placed'
      PROVE  InOrder'
  BY <1>1 DEF InOrder, Placed, Enters, Working, Entering
<1>2. Placed'
  BY StepKeepsBase
<1>3. CASE UNCHANGED vars
  BY <1>1, <1>2, <1>3 DEF vars, Enters
<1>4. ASSUME NEW s \in Sockets, Disconnect(s)
      PROVE  InOrder'
  <2>1. /\ conn' = [conn EXCEPT ![s] = "gone"] /\ page' = [page EXCEPT ![s] = None]
        /\ rooms' = [q \in Projects |-> rooms[q] \ {s}]
        /\ UNCHANGED <<pc, skt, prj>>
    BY <1>4 DEF Disconnect, jobs
  <2>2. \A i \in Jobs : Enters(i)' =>
          Enters(i) /\ skt[i] # s /\ skt[i] \in Sockets /\ prj[i] \in Projects
    BY <2>1 DEF Enters, Placed, Working, Entering
  <2>3. \A q \in Projects : rooms'[q] = rooms[q] \ {s}
    BY <2>1
  <2> QED
    BY <2>1, <2>2, <2>3 DEF InOrder
<1>5. ASSUME NEW j \in Jobs, NEW s \in Sockets, Sweep(j, s)
      PROVE  InOrder'
  <2>1. PICK p \in todo[s] : Start(j, s, p, "sweep")
    BY <1>5 DEF Sweep
  <2>2. pc'[j] = "sweep" /\ \A i \in Jobs \ {j} : pc'[i] = pc[i] /\ skt'[i] = skt[i] /\ prj'[i] = prj[i]
    BY <2>1 DEF Start
  <2> QED
    BY <1>1, <1>2, <1>5, <2>2 DEF Sweep, server, client, Enters, Entering
<1>6. ASSUME NEW j \in Jobs, NEW s \in Sockets, NEW p \in Projects, Subscribe(j, s, p)
      PROVE  InOrder'
  <2>1. /\ \A q \in Projects : s \notin rooms[q]
        /\ \A i \in Jobs : Enters(i) => skt[i] # s
    BY <1>6 DEF Subscribe, InOrder, Placed, Enters, Entering, Working
  <2>2. \A i \in Jobs : pc[i] \in Entering => conn[skt[i]] # "new"
    BY DEF Connected, Entering, Subscribing
  <2>3. /\ conn' = [conn EXCEPT ![s] = "on"] /\ page' = [page EXCEPT ![s] = p]
        /\ conn[s] # "gone" /\ rooms' = rooms
    BY <1>6 DEF Subscribe
  <2>4. \A i \in Jobs : pc[i] \in Entering => skt[i] # s
    BY <2>1, <2>2, <2>3 DEF Enters
  <2>5. CASE UNCHANGED jobs
    BY <2>1, <2>3, <2>4, <2>5 DEF jobs, InOrder, Enters, Placed, Working, Entering
  <2>6. CASE Start(j, s, p, "authorize")
    <3>1. /\ pc'[j] = "authorize" /\ skt'[j] = s /\ prj'[j] = p
          /\ \A i \in Jobs \ {j} : pc'[i] = pc[i] /\ skt'[i] = skt[i] /\ prj'[i] = prj[i]
      BY <2>6 DEF Start
    <3>2. \A i \in Jobs \ {j} : Enters(i)' =>
            Enters(i) /\ skt[i] # s /\ skt[i] \in Sockets /\ prj[i] \in Projects
      BY <2>3, <2>4, <3>1 DEF Enters, Placed, Working, Entering
    <3> QED
      BY <2>1, <2>3, <3>1, <3>2 DEF InOrder
  <2> QED
    BY <1>6, <2>5, <2>6 DEF Subscribe
<1>7. ASSUME NEW j \in Jobs, NEW s \in Sockets, NEW p \in Projects, Unsubscribe(j, s, p)
      PROVE  InOrder'
  <2>1. conn[s] = "on" /\ page[s] = p /\ conn' = conn /\ page' = [page EXCEPT ![s] = None]
    BY <1>7 DEF Unsubscribe
  <2>2. \A i \in Jobs : Enters(i)' => Enters(i) /\ skt'[i] = skt[i] /\ prj'[i] = prj[i]
    BY <1>7 DEF Unsubscribe, Start, jobs, Enters, Entering
  <2>3. p \in subs[s] <=> s \in rooms[p]
    BY <2>1 DEF Connected
  <2>4. \A i \in Jobs : Enters(i) => skt[i] # s
    <3> SUFFICES ASSUME NEW i \in Jobs, Enters(i), skt[i] = s
                 PROVE  FALSE
      OBVIOUS
    <3>1. prj[i] = p /\ s \notin rooms[p]
      BY <2>1 DEF InOrder
    <3>2. "hurried" \in races'
      BY <1>7, <2>3, <3>1 DEF Unsubscribe, Note, Enters, Entering, Subscribing
    <3> QED
      BY <3>2
  <2>5. \A q \in Projects : rooms'[q] \subseteq rooms[q] /\ s \notin rooms'[q]
    <3>1. \A q \in Projects : s \in rooms[q] => q = p
      BY <2>1 DEF InOrder
    <3>2. IF s \in rooms[p] THEN rooms' = [rooms EXCEPT ![p] = @ \ {s}] ELSE rooms' = rooms
      BY <1>7, <2>3 DEF Unsubscribe
    <3> QED
      BY <3>1, <3>2
  <2>6. \A i \in Jobs : Enters(i) => skt[i] \in Sockets /\ prj[i] \in Projects
    BY DEF Enters, Placed, Working, Entering
  <2> QED
    BY <2>1, <2>2, <2>4, <2>5, <2>6 DEF InOrder
<1>8. ASSUME NEW j \in Jobs, Join(j)
      PROVE  InOrder'
  <2>1. skt[j] \in Sockets /\ prj[j] \in Projects /\ pc[j] = "join"
    BY <1>8 DEF Join, Placed, Working
  <2>2. /\ rooms' = [rooms EXCEPT ![prj[j]] =
                       IF conn[skt[j]] = "on" THEN rooms[prj[j]] \union {skt[j]} ELSE rooms[prj[j]]]
        /\ pc' = [pc EXCEPT ![j] = "list"]
        /\ UNCHANGED <<skt, prj, conn, page>>
    BY <1>8 DEF Join
  <2>3. conn[skt[j]] = "on" => Enters(j)
    BY <2>1 DEF Enters, Entering
  <2>4. \A i \in Jobs : Enters(i)' => i # j /\ Enters(i)
    BY <2>2 DEF Enters, Entering
  <2>5. \A i \in Jobs : Enters(i) => skt[i] \in Sockets /\ prj[i] \in Projects
    BY DEF Enters, Placed, Working, Entering
  <2> QED
    BY <2>1, <2>2, <2>3, <2>4, <2>5 DEF InOrder
<1>9. ASSUME NEW j \in Jobs, Advance(j)
      PROVE  InOrder'
  <2>1. ASSUME NEW from, NEW to, Read(j, from, to), to \in Entering => from \in Entering
        PROVE  InOrder'
    BY <1>1, <1>2, <2>1 DEF Read, server, client, Enters
  <2>2. ASSUME Authorize(j)
        PROVE  InOrder'
    <3>1. \A i \in Jobs : pc'[i] \in Entering => pc[i] \in Entering /\ skt'[i] = skt[i] /\ prj'[i] = prj[i]
      BY <2>2 DEF Authorize, Goto, Finish, Entering
    <3> QED
      BY <1>1, <1>2, <2>2, <3>1 DEF Authorize, server, client, Enters
  <2>3. ASSUME Acknowledge(j) \/ PublishOffline(j)
        PROVE  InOrder'
    <3>1. UNCHANGED <<conn, rooms, page>> /\ Finish(j)
      BY <2>3 DEF Acknowledge, PublishOffline, server
    <3>2. \A i \in Jobs : pc'[i] \in Entering => pc[i] \in Entering /\ skt'[i] = skt[i] /\ prj'[i] = prj[i]
      BY <3>1 DEF Finish, Entering
    <3> QED
      BY <1>1, <1>2, <3>1, <3>2 DEF Enters
  <2>4. ASSUME Throws(j)
        PROVE  InOrder'
    <3>1. UNCHANGED <<conn, rooms, page>> /\ Finish(j)
      BY <2>4 DEF Throws, server, client
    <3>2. \A i \in Jobs : pc'[i] \in Entering => pc[i] \in Entering /\ skt'[i] = skt[i] /\ prj'[i] = prj[i]
      BY <3>1 DEF Finish, Entering
    <3> QED
      BY <1>1, <1>2, <3>1, <3>2 DEF Enters
  <2> QED
    BY <1>8, <1>9, <2>1, <2>2, <2>3, <2>4 DEF Advance, Entering
<1>10. ASSUME NEW u \in Users, RemoveMember(u) \/ DisconnectUser(u)
       PROVE  InOrder'
  <2>1. UNCHANGED <<server, jobs, client>>
    BY <1>10 DEF RemoveMember, DisconnectUser
  <2> QED
    BY <1>1, <1>2, <2>1 DEF server, jobs, client, Enters
<1> QED
  BY <1>3, <1>4, <1>5, <1>6, <1>7, <1>9, <1>10 DEF Next

(* What a handler has read of a room stays true while it holds it, and a   *)
(* socket that subscribes stays connected, unless a race is noted.         *)
Snapshots == \A j \in Jobs, p \in Projects : Holds(j, p) => seen[j] = Online(p)
StillThere == \A j \in Jobs : pc[j] \in Subscribing => conn[skt[j]] = "on"
AllCounted == \A s \in Sockets, p \in Projects : page[s] = p /\ p \in subs[s] => Counted(s, p)
Undisturbed == races \subseteq {"hurried"} => Snapshots /\ StillThere /\ AllCounted

(* What a handler has read of a room is what the room is when it is used.  *)
LEMMA StepKeepsSnapshots ==
  ASSUME Base, Snapshots, [Next]_vars, races' \subseteq {"hurried"}
  PROVE  Snapshots'
<1> USE PresenceAssumption DEF Base, TypeOK
<1>1. ASSUME UNCHANGED rooms,
             \A i \in Jobs, p \in Projects : Holds(i, p)' => Holds(i, p) /\ seen'[i] = seen[i]
      PROVE  Snapshots'
  BY <1>1 DEF Snapshots, Online
<1>2. CASE UNCHANGED vars
  BY <1>1, <1>2 DEF vars, Holds
<1>3. ASSUME NEW s \in Sockets, Disconnect(s)
      PROVE  Snapshots'
  <2>1. UNCHANGED <<pc, skt, prj, seen>> /\ rooms' = [q \in Projects |-> rooms[q] \ {s}]
    BY <1>3 DEF Disconnect, jobs
  <2>2. \A i \in Jobs, p \in Projects : Holds(i, p) => s \notin rooms[p]
    BY <1>3 DEF Disconnect
  <2>3. \A i \in Jobs, p \in Projects : Holds(i, p) => rooms'[p] = rooms[p]
    BY <2>1, <2>2
  <2> QED
    BY <2>1, <2>3 DEF Snapshots, Online, Holds
<1>4. ASSUME NEW j \in Jobs, NEW s \in Sockets, Sweep(j, s)
      PROVE  Snapshots'
  <2>1. PICK p \in todo[s] : Start(j, s, p, "sweep")
    BY <1>4 DEF Sweep
  <2>2. /\ pc'[j] = "sweep" /\ UNCHANGED seen
        /\ \A i \in Jobs \ {j} : pc'[i] = pc[i] /\ prj'[i] = prj[i]
    BY <2>1 DEF Start
  <2> QED
    BY <1>1, <1>4, <2>2 DEF Sweep, server, Holds
<1>5. ASSUME NEW j \in Jobs, NEW s \in Sockets, NEW p \in Projects, Subscribe(j, s, p)
      PROVE  Snapshots'
  <2>1. \A i \in Jobs, q \in Projects : Holds(i, q)' => Holds(i, q) /\ seen'[i] = seen[i]
    BY <1>5 DEF Subscribe, Start, jobs, Holds
  <2> QED
    BY <1>1, <1>5, <2>1 DEF Subscribe
<1>6. ASSUME NEW j \in Jobs, NEW s \in Sockets, NEW p \in Projects, Unsubscribe(j, s, p)
      PROVE  Snapshots'
  <2>1. \A i \in Jobs, q \in Projects : Holds(i, q)' =>
          Holds(i, q) /\ seen'[i] = seen[i] /\ (i # j \/ p \notin subs[s])
    BY <1>6 DEF Unsubscribe, Start, jobs, Holds
  <2>2. CASE p \notin subs[s]
    BY <1>1, <1>6, <2>1, <2>2 DEF Unsubscribe
  <2>3. CASE p \in subs[s]
    <3>1. rooms' = [rooms EXCEPT ![p] = @ \ {s}] /\ ~Overtakes(j, p)
      BY <1>6, <2>3 DEF Unsubscribe, Note
    <3>2. \A i \in Jobs, q \in Projects : Holds(i, q)' => rooms'[q] = rooms[q]
      BY <2>1, <2>3, <3>1 DEF Overtakes
    <3> QED
      BY <2>1, <3>2 DEF Snapshots, Online
  <2> QED
    BY <2>2, <2>3
<1>7. ASSUME NEW j \in Jobs, NEW from, NEW to, Read(j, from, to)
      PROVE  Snapshots'
  <2>1. /\ seen' = [seen EXCEPT ![j] = Online(prj[j])] /\ UNCHANGED <<rooms, prj>>
        /\ \A i \in Jobs \ {j} : pc'[i] = pc[i]
    BY <1>7 DEF Read, server
  <2> QED
    BY <2>1 DEF Snapshots, Online, Holds
<1>8. ASSUME NEW j \in Jobs, Join(j)
      PROVE  Snapshots'
  <2> DEFINE p == prj[j]
             inside == IF conn[skt[j]] = "on" THEN rooms[p] \union {skt[j]} ELSE rooms[p]
  <2>1. p \in Projects
    BY <1>8 DEF Join, Placed, Working
  <2>2. /\ rooms' = [rooms EXCEPT ![p] = inside] /\ UNCHANGED prj
        /\ pc' = [pc EXCEPT ![j] = "list"] /\ seen' = [seen EXCEPT ![j] = {}]
        /\ inside = rooms[p] \/ ~Overtakes(j, p)
    BY <1>8 DEF Join, Note
  <2>3. \A i \in Jobs, q \in Projects :
          Holds(i, q)' => i # j /\ Holds(i, q) /\ seen'[i] = seen[i]
    BY <2>2 DEF Holds
  <2>4. \A i \in Jobs, q \in Projects : Holds(i, q)' => rooms'[q] = rooms[q]
    BY <2>1, <2>2, <2>3 DEF Overtakes
  <2> QED
    BY <2>3, <2>4 DEF Snapshots, Online
<1>9. ASSUME NEW j \in Jobs, Finish(j), UNCHANGED rooms
      PROVE  Snapshots'
  <2>1. \A i \in Jobs, q \in Projects : Holds(i, q)' => Holds(i, q) /\ seen'[i] = seen[i]
    BY <1>9 DEF Finish, Holds
  <2> QED
    BY <1>1, <1>9, <2>1
<1>10. ASSUME NEW j \in Jobs, Authorize(j)
       PROVE  Snapshots'
  <2>1. CASE Goto(j, "lookup")
    <3>1. \A i \in Jobs, q \in Projects : Holds(i, q)' => Holds(i, q) /\ seen'[i] = seen[i]
      BY <2>1 DEF Goto, Holds
    <3> QED
      BY <1>1, <1>10, <3>1 DEF Authorize, server
  <2> QED
    BY <1>9, <1>10, <2>1 DEF Authorize, server
<1>11. ASSUME NEW u \in Users, RemoveMember(u) \/ DisconnectUser(u)
       PROVE  Snapshots'
  <2>1. UNCHANGED <<server, jobs>>
    BY <1>11 DEF RemoveMember, DisconnectUser
  <2> QED
    BY <1>1, <2>1 DEF server, jobs, Holds
<1>12. ASSUME NEW j \in Jobs, Acknowledge(j) \/ PublishOffline(j) \/ Throws(j)
       PROVE  Snapshots'
  BY <1>9, <1>12 DEF Acknowledge, PublishOffline, Throws, server
<1> QED
  BY <1>2, <1>3, <1>4, <1>5, <1>6, <1>7, <1>8, <1>10, <1>11, <1>12 DEF Next, Advance

(* A socket that subscribes does not go meanwhile.                         *)
LEMMA StepKeepsThere ==
  ASSUME Base, StillThere, [Next]_vars, races' \subseteq {"hurried"}
  PROVE  StillThere'
<1> USE PresenceAssumption DEF Base, TypeOK
<1>1. ASSUME \A i \in Jobs : pc'[i] \in Subscribing =>
               \/ pc[i] \in Subscribing /\ skt'[i] = skt[i] /\ conn'[skt[i]] = conn[skt[i]]
               \/ conn'[skt'[i]] = "on"
      PROVE  StillThere'
  BY <1>1 DEF StillThere
<1>2. CASE UNCHANGED vars
  BY <1>1, <1>2 DEF vars
<1>3. ASSUME NEW s \in Sockets, Disconnect(s)
      PROVE  StillThere'
  <2>1. \A i \in Jobs : ~(skt[i] = s /\ pc[i] \in Subscribing)
    BY <1>3 DEF Disconnect
  <2>2. UNCHANGED <<pc, skt>> /\ conn' = [conn EXCEPT ![s] = "gone"]
    BY <1>3 DEF Disconnect, jobs
  <2>3. \A i \in Jobs : pc[i] \in Subscribing => skt[i] \in Sockets
    BY DEF Placed, Working, Subscribing
  <2> QED
    BY <1>1, <2>1, <2>2, <2>3
<1>4. ASSUME NEW j \in Jobs, NEW s \in Sockets, Sweep(j, s)
      PROVE  StillThere'
  <2>1. PICK p \in todo[s] : Start(j, s, p, "sweep")
    BY <1>4 DEF Sweep
  <2>2. pc'[j] = "sweep" /\ \A i \in Jobs \ {j} : pc'[i] = pc[i] /\ skt'[i] = skt[i]
    BY <2>1 DEF Start
  <2> QED
    BY <1>1, <1>4, <2>2 DEF Sweep, server, Subscribing
<1>5. ASSUME NEW j \in Jobs, NEW s \in Sockets, NEW p \in Projects, Subscribe(j, s, p)
      PROVE  StillThere'
  <2>1. /\ conn' = [conn EXCEPT ![s] = "on"]
        /\ \A i \in Jobs : (pc'[i] = pc[i] /\ skt'[i] = skt[i]) \/ skt'[i] = s
    BY <1>5 DEF Subscribe, Start, jobs
  <2>2. \A i \in Jobs : pc[i] \in Subscribing => conn[skt[i]] = "on" /\ skt[i] \in Sockets
    BY DEF StillThere, Placed, Working, Subscribing
  <2> QED
    BY <1>1, <2>1, <2>2
<1>6. ASSUME NEW j \in Jobs, NEW s \in Sockets, NEW p \in Projects, Unsubscribe(j, s, p)
      PROVE  StillThere'
  <2>1. /\ conn' = conn
        /\ \A i \in Jobs : pc'[i] \in Subscribing => pc'[i] = pc[i] /\ skt'[i] = skt[i]
    BY <1>6 DEF Unsubscribe, Start, jobs, Subscribing
  <2> QED
    BY <1>1, <2>1
<1>7. ASSUME NEW j \in Jobs, Advance(j)
      PROVE  StillThere'
  <2>1. ASSUME NEW from, NEW to, Read(j, from, to), to \in Subscribing => from \in Subscribing
        PROVE  StillThere'
    BY <1>1, <2>1 DEF Read, server
  <2>2. ASSUME Authorize(j) \/ Acknowledge(j) \/ PublishOffline(j) \/ Throws(j)
        PROVE  StillThere'
    <3>1. conn' = conn
      BY <2>2 DEF Authorize, Acknowledge, PublishOffline, Throws, server
    <3>2. \A i \in Jobs : pc'[i] \in Subscribing => pc[i] \in Subscribing /\ skt'[i] = skt[i]
      BY <2>2 DEF Authorize, Acknowledge, PublishOffline, Throws, Goto, Finish, Subscribing
    <3> QED
      BY <1>1, <3>1, <3>2
  <2>3. ASSUME Join(j)
        PROVE  StillThere'
    BY <1>1, <2>3 DEF Join, Subscribing
  <2> QED
    BY <1>7, <2>1, <2>2, <2>3 DEF Advance, Subscribing
<1>8. ASSUME NEW u \in Users, RemoveMember(u) \/ DisconnectUser(u)
      PROVE  StillThere'
  <2>1. UNCHANGED <<server, jobs>>
    BY <1>8 DEF RemoveMember, DisconnectUser
  <2> QED
    BY <1>1, <2>1 DEF server, jobs
<1> QED
  BY <1>2, <1>3, <1>4, <1>5, <1>6, <1>7, <1>8 DEF Next

(* Why a page is still counted: its subscription goes on, or the view was  *)
(* right and what changed is either shown or announced.                    *)
Subscribed(i, s, p) == pc[i] \in Subscribing /\ skt[i] = s /\ prj[i] = p
Departs(i, u, p) == pc[i] \in Parting /\ prj[i] = p /\ UserOf[skt[i]] = u

(* A view that was right stays right when its subscription goes on, it     *)
(* loses nobody who is there, and who is shown too many is being reported. *)
LEMMA StaysCounted ==
  ASSUME NEW s \in Sockets, NEW p \in Projects, Counted(s, p), members' \subseteq members,
         \A i \in Jobs : Subscribed(i, s, p) => Subscribed(i, s, p)' \/ UserOf[s] \notin members',
         Online(p) \subseteq view[s] => Online(p)' \subseteq view'[s],
         \A u \in view'[s] \ Online(p)' : Leaves(u, p) \/ u \notin view[s] \ Online(p) => Leaves(u, p)'
  PROVE  Counted(s, p)'
  BY DEF Counted, Subscribed

(* A report of a user who left is not forgotten.                           *)
LEMMA StillLeaves ==
  ASSUME NEW u, NEW p \in Projects, Leaves(u, p),
         \A i \in Jobs : Departs(i, u, p) => Departs(i, u, p)',
         \A s \in Sockets : p \in todo[s] =>
           p \in todo'[s] \/ UserOf[s] # u \/ \E j \in Jobs : Departs(j, u, p)'
  PROVE  Leaves(u, p)'
  BY DEF Leaves, Departs

(* Nothing a page depends on goes.                                         *)
LEMMA GoesOn ==
  ASSUME AllCounted, members' \subseteq members, UNCHANGED <<rooms, view>>,
         \A s \in Sockets, p \in Projects :
           page'[s] = p /\ p \in subs'[s] => page[s] = p /\ p \in subs[s],
         \A i \in Jobs, s \in Sockets, p \in Projects :
           Subscribed(i, s, p) => Subscribed(i, s, p)' \/ UserOf[s] \notin members',
         \A u, p : p \in Projects /\ Leaves(u, p) => Leaves(u, p)'
  PROVE  AllCounted'
<1> SUFFICES ASSUME NEW s \in Sockets, NEW p \in Projects, page'[s] = p, p \in subs'[s]
             PROVE  Counted(s, p)'
  BY DEF AllCounted
<1>1. Counted(s, p)
  BY DEF AllCounted
<1>2. Online(p)' = Online(p)
  BY DEF Online
<1> QED
  BY <1>1, <1>2, StaysCounted

(* Who goes by a disconnection is in the cleanup's projects, so every room *)
(* he was in will look for him.                                            *)
LEMMA DisconnectKeepsCounted ==
  ASSUME Base, AllCounted, NEW s \in Sockets, Disconnect(s)
  PROVE  AllCounted'
<1> USE PresenceAssumption DEF Base, TypeOK
<1> SUFFICES ASSUME NEW r \in Sockets, NEW p \in Projects, page'[r] = p, p \in subs'[r]
             PROVE  Counted(r, p)'
  BY DEF AllCounted
<1>1. /\ conn[s] = "on" /\ rooms' = [q \in Projects |-> rooms[q] \ {s}]
      /\ todo' = [todo EXCEPT ![s] = subs[s]]
      /\ page' = [page EXCEPT ![s] = None] /\ view' = [view EXCEPT ![s] = {}]
      /\ UNCHANGED <<subs, pc, skt, prj, members>>
  BY DEF Disconnect, jobs
<1>2. r # s /\ Counted(r, p)
  BY <1>1 DEF AllCounted
<1>3. todo[s] = {}
  BY <1>1 DEF Connected
<1>4. \A u : Leaves(u, p) => Leaves(u, p)'
  BY <1>1, <1>3 DEF Leaves
<1>5. \A u \in Online(p) \ Online(p)' : Leaves(u, p)'
  <2> SUFFICES ASSUME NEW q \in rooms[p], UserOf[q] \notin Online(p)'
               PROVE  Leaves(UserOf[q], p)'
    BY DEF Online
  <2>1. q = s
    BY <1>1 DEF Online
  <2>2. p \in subs[s]
    BY <1>1, <2>1 DEF Connected
  <2> QED
    BY <1>1, <2>1, <2>2 DEF Leaves
<1>6. Online(p)' \subseteq Online(p)
  BY <1>1 DEF Online
<1>7. \A i \in Jobs : Subscribed(i, r, p) => Subscribed(i, r, p)'
  BY <1>1 DEF Subscribed
<1> QED
  BY <1>1, <1>2, <1>4, <1>5, <1>6, <1>7, StaysCounted

(* Who leaves a room has a job that will look for him there.               *)
LEMMA UnsubscribeKeepsCounted ==
  ASSUME Base, AllCounted, NEW j \in Jobs, NEW s \in Sockets, NEW p \in Projects, Unsubscribe(j, s, p)
  PROVE  AllCounted'
<1> USE PresenceAssumption DEF Base, TypeOK
<1> SUFFICES ASSUME NEW r \in Sockets, NEW q \in Projects, page'[r] = q, q \in subs'[r]
             PROVE  Counted(r, q)'
  BY DEF AllCounted
<1>1. page' = [page EXCEPT ![s] = None] /\ view' = [view EXCEPT ![s] = {}] /\ UNCHANGED <<members, todo>>
  BY DEF Unsubscribe, access
<1>2. r # s /\ page[r] = q /\ q \in subs[r] /\ view'[r] = view[r]
  BY <1>1 DEF Unsubscribe
<1>3. Counted(r, q)
  BY <1>2 DEF AllCounted
<1>4. CASE p \notin subs[s]
  <2>1. UNCHANGED <<rooms, pc, skt, prj>>
    BY <1>4 DEF Unsubscribe, jobs
  <2> QED
    BY <1>1, <1>2, <1>3, <2>1 DEF Counted, Online, Leaves
<1>5. CASE p \in subs[s]
  <2>1. /\ rooms' = [rooms EXCEPT ![p] = @ \ {s}]
        /\ pc[j] = "new" /\ pc'[j] = "check" /\ skt'[j] = s /\ prj'[j] = p
        /\ \A i \in Jobs \ {j} : pc'[i] = pc[i] /\ skt'[i] = skt[i] /\ prj'[i] = prj[i]
    BY <1>5 DEF Unsubscribe, Start, IsNext
  <2>2. \A i \in Jobs : Subscribed(i, r, q) => Subscribed(i, r, q)'
    BY <2>1 DEF Subscribed, Subscribing
  <2>3. \A u : Leaves(u, q) => Leaves(u, q)'
    BY <1>1, <2>1 DEF Leaves, Parting, Sweeping
  <2>4. Online(q)' \subseteq Online(q)
    BY <2>1 DEF Online
  <2>5. \A u \in Online(q) \ Online(q)' : Leaves(u, q)'
    <3> SUFFICES ASSUME NEW o \in rooms[q], UserOf[o] \notin Online(q)'
                 PROVE  Leaves(UserOf[o], q)'
      BY DEF Online
    <3>1. q = p /\ o = s
      BY <2>1 DEF Online
    <3> QED
      BY <2>1, <3>1 DEF Leaves, Parting
  <2> QED
    BY <1>1, <1>2, <1>3, <2>2, <2>3, <2>4, <2>5, StaysCounted
<1> QED
  BY <1>4, <1>5

(* Who joins is shown to all in the room, or was online there already, by  *)
(* the snapshot taken before.                                              *)
LEMMA JoinKeepsCounted ==
  ASSUME Base, Snapshots, StillThere, AllCounted, NEW j \in Jobs, Join(j)
  PROVE  AllCounted'
<1> USE PresenceAssumption DEF Base, TypeOK
<1> DEFINE s == skt[j]
           p == prj[j]
<1>1. s \in Sockets /\ p \in Projects /\ pc[j] = "join" /\ conn[s] = "on" /\ seen[j] = Online(p)
  BY DEF Join, Placed, Working, StillThere, Subscribing, Snapshots, Holds
<1>2. /\ rooms' = [rooms EXCEPT ![p] = @ \union {s}]
      /\ subs' = [subs EXCEPT ![s] = @ \union {p}]
      /\ pc' = [pc EXCEPT ![j] = "list"] /\ UNCHANGED <<skt, prj, members, page>>
      /\ \A r \in Sockets : todo[r] \subseteq todo'[r]
  BY <1>1 DEF Join
<1>3. IF p \notin subs[s] /\ UserOf[s] \notin Online(p)
        THEN Publish(rooms[p] \union {s}, p, UserOf[s], "online")
        ELSE UNCHANGED view
  BY <1>1 DEF Join
<1>4. \A i \in Jobs, r \in Sockets, q \in Projects : Subscribed(i, r, q) => Subscribed(i, r, q)'
  BY <1>2 DEF Subscribed, Subscribing
<1>5. \A u : \A q \in Projects : Leaves(u, q) => Leaves(u, q)'
  BY <1>1, <1>2 DEF Leaves, Parting, Sweeping
<1> SUFFICES ASSUME NEW r \in Sockets, NEW q \in Projects, page'[r] = q, q \in subs'[r]
             PROVE  Counted(r, q)'
  BY DEF AllCounted
<1>6. CASE q # p
  <2>1. Online(q)' = Online(q) /\ view'[r] = view[r]
    BY <1>2, <1>3, <1>6 DEF Online, Publish
  <2>2. Counted(r, q)
    BY <1>1, <1>2, <1>6 DEF AllCounted
  <2> QED
    BY <1>2, <1>4, <1>5, <2>1, <2>2, StaysCounted
<1>7. CASE q = p /\ r = s
  BY <1>1, <1>2, <1>7 DEF Counted, Subscribing
<1>8. CASE q = p /\ r # s
  <2>1. page[r] = p /\ p \in subs[r]
    BY <1>1, <1>2, <1>8
  <2>2. Counted(r, p) /\ r \in rooms[p]
    BY <1>1, <2>1 DEF AllCounted, Connected
  <2>3. Online(p)' = Online(p) \union {UserOf[s]}
    BY <1>1, <1>2 DEF Online
  <2>4. \/ view'[r] = view[r] /\ UserOf[s] \in Online(p)
        \/ view'[r] = view[r] \union {UserOf[s]}
    <3>1. CASE p \notin subs[s] /\ UserOf[s] \notin Online(p)
      BY <1>3, <2>1, <2>2, <3>1 DEF Publish
    <3>2. CASE p \in subs[s]
      <4>1. s \in rooms[p]
        BY <1>1, <3>2 DEF Connected
      <4> QED
        BY <1>3, <3>2, <4>1 DEF Online
    <3>3. CASE UserOf[s] \in Online(p)
      BY <1>3, <3>3
    <3> QED
      BY <3>1, <3>2, <3>3
  <2> QED
    BY <1>1, <1>2, <1>4, <1>5, <1>8, <2>2, <2>3, <2>4, StaysCounted
<1> QED
  BY <1>6, <1>7, <1>8

(* The answer to a subscription shows the room as it is, to a page that    *)
(* still shows that project.                                               *)
LEMMA AcknowledgeKeepsCounted ==
  ASSUME Base, Snapshots, AllCounted, NEW j \in Jobs, Acknowledge(j), "late" \notin races'
  PROVE  AllCounted'
<1> USE PresenceAssumption DEF Base, TypeOK
<1> DEFINE s == skt[j]
           p == prj[j]
<1>1. s \in Sockets /\ p \in Projects /\ pc[j] = "ack" /\ seen[j] = Online(p)
  BY DEF Acknowledge, Placed, Working, Snapshots, Holds
<1>2. /\ UNCHANGED <<rooms, subs, page, members, todo>>
      /\ view' = IF page[s] # None THEN [view EXCEPT ![s] = Online(p)] ELSE view
      /\ page[s] \in {p, None}
  BY <1>1 DEF Acknowledge, Note, server, access
<1>3. \A i \in Jobs \ {j} : pc'[i] = pc[i] /\ skt'[i] = skt[i] /\ prj'[i] = prj[i]
  BY DEF Acknowledge, Finish
<1> SUFFICES ASSUME NEW r \in Sockets, NEW q \in Projects, page'[r] = q, q \in subs'[r]
             PROVE  Counted(r, q)'
  BY DEF AllCounted
<1>4. Online(q)' = Online(q)
  BY <1>2 DEF Online
<1>5. CASE r = s
  <2>1. q = p /\ view'[r] = Online(q)
    BY <1>1, <1>2, <1>5
  <2> QED
    BY <1>4, <2>1 DEF Counted
<1>6. CASE r # s
  <2>1. Counted(r, q) /\ view'[r] = view[r]
    BY <1>2, <1>6 DEF AllCounted
  <2>2. \A i \in Jobs : Subscribed(i, r, q) => Subscribed(i, r, q)'
    BY <1>3, <1>6 DEF Subscribed
  <2>3. \A u : Leaves(u, q) => Leaves(u, q)'
    BY <1>1, <1>2, <1>3 DEF Leaves, Parting, Sweeping
  <2> QED
    BY <1>2, <1>4, <2>1, <2>2, <2>3, StaysCounted
<1> QED
  BY <1>5, <1>6

(* Who is reported offline has no other socket in the room.                *)
LEMMA PublishOfflineKeepsCounted ==
  ASSUME Base, Snapshots, AllCounted, NEW j \in Jobs, PublishOffline(j)
  PROVE  AllCounted'
<1> USE PresenceAssumption DEF Base, TypeOK
<1> DEFINE u == UserOf[skt[j]]
           p == prj[j]
<1>1. skt[j] \in Sockets /\ p \in Projects /\ pc[j] \in {"offline", "swept"} /\ seen[j] = Online(p)
  BY DEF PublishOffline, Placed, Working, Snapshots, Holds
<1>2. /\ UNCHANGED <<rooms, page, members, todo>>
      /\ IF u \notin Online(p) THEN Publish(rooms[p], p, u, "offline") ELSE UNCHANGED view
      /\ subs' \in {subs, [subs EXCEPT ![skt[j]] = {}]}
  BY <1>1 DEF PublishOffline, access
<1>3. \A i \in Jobs \ {j} : pc'[i] = pc[i] /\ skt'[i] = skt[i] /\ prj'[i] = prj[i]
  BY DEF PublishOffline, Finish
<1> SUFFICES ASSUME NEW r \in Sockets, NEW q \in Projects, page'[r] = q, q \in subs'[r]
             PROVE  Counted(r, q)'
  BY DEF AllCounted
<1>4. page[r] = q /\ q \in subs[r]
  BY <1>1, <1>2
<1>5. Counted(r, q) /\ r \in rooms[q]
  BY <1>4 DEF AllCounted, Connected
<1>6. Online(q)' = Online(q)
  BY <1>2 DEF Online
<1>7. \A i \in Jobs : Subscribed(i, r, q) => Subscribed(i, r, q)'
  BY <1>1, <1>3 DEF Subscribed, Subscribing
<1>8. \A v : Leaves(v, q) /\ (v # u \/ q # p) => Leaves(v, q)'
  <2> SUFFICES ASSUME NEW v, Leaves(v, q), v # u \/ q # p
               PROVE  Leaves(v, q)'
    OBVIOUS
  <2>1. \A i \in Jobs : Departs(i, v, q) => Departs(i, v, q)'
    BY <1>3 DEF Departs
  <2> QED
    BY <1>2, <2>1, StillLeaves
<1>9. view'[r] \in {view[r], view[r] \ {u}}
  BY <1>2 DEF Publish
<1>10. q = p => u \notin view'[r] \ Online(q)
  BY <1>2, <1>4, <1>5 DEF Publish
<1>11. Online(q) \subseteq view[r] => Online(q) \subseteq view'[r]
  BY <1>2, <1>4 DEF Publish
<1>12. \A v \in view'[r] \ Online(q)' : Leaves(v, q) \/ v \notin view[r] \ Online(q) => Leaves(v, q)'
  BY <1>6, <1>8, <1>9, <1>10
<1> QED
  BY <1>2, <1>5, <1>6, <1>7, <1>11, <1>12, StaysCounted

(* The cleanup of a project becomes a job of its own.                      *)
LEMMA SweepKeepsCounted ==
  ASSUME Base, AllCounted, NEW j \in Jobs, NEW s \in Sockets, Sweep(j, s)
  PROVE  AllCounted'
<1> USE PresenceAssumption DEF Base, TypeOK
<1>1. PICK p \in todo[s] : todo' = [todo EXCEPT ![s] = @ \ {p}] /\ Start(j, s, p, "sweep")
  BY DEF Sweep
<1>2. /\ pc[j] = "new" /\ pc'[j] = "sweep" /\ skt'[j] = s /\ prj'[j] = p
      /\ \A i \in Jobs \ {j} : pc'[i] = pc[i] /\ skt'[i] = skt[i] /\ prj'[i] = prj[i]
  BY <1>1 DEF Start, IsNext
<1>3. UNCHANGED <<rooms, subs, page, view, members>>
  BY DEF Sweep, server, client
<1>4. \A i \in Jobs, r \in Sockets, q \in Projects : Subscribed(i, r, q) => Subscribed(i, r, q)'
  BY <1>2 DEF Subscribed, Subscribing
<1>5. ASSUME NEW u, NEW q \in Projects, Leaves(u, q)
      PROVE  Leaves(u, q)'
  <2>1. \A i \in Jobs : Departs(i, u, q) => Departs(i, u, q)'
    BY <1>2 DEF Departs, Parting, Sweeping
  <2>2. q = p /\ UserOf[s] = u => Departs(j, u, q)'
    BY <1>2 DEF Departs, Parting, Sweeping
  <2> QED
    BY <1>1, <1>5, <2>1, <2>2, StillLeaves
<1> QED
  BY <1>3, <1>4, <1>5, GoesOn

(* A page that opens is not subscribed to anything yet.                    *)
LEMMA SubscribeKeepsCounted ==
  ASSUME Base, AllCounted, NEW j \in Jobs, NEW s \in Sockets, NEW p \in Projects, Subscribe(j, s, p)
  PROVE  AllCounted'
<1> USE PresenceAssumption DEF Base, TypeOK
<1>1. page' = [page EXCEPT ![s] = p] /\ UNCHANGED <<rooms, subs, view, members, todo>>
  BY DEF Subscribe, access
<1>2. \A i \in Jobs : pc[i] # "new" => pc'[i] = pc[i] /\ skt'[i] = skt[i] /\ prj'[i] = prj[i]
  BY DEF Subscribe, Start, IsNext, jobs
<1> SUFFICES ASSUME NEW r \in Sockets, NEW q \in Projects, page'[r] = q, q \in subs'[r]
             PROVE  Counted(r, q)'
  BY DEF AllCounted
<1>3. CASE r = s
  <2>1. q = p /\ ~Full(s, p)
    BY <1>1, <1>3 DEF Full
  <2>2. pc'[j] = "authorize" /\ skt'[j] = s /\ prj'[j] = p
    BY <2>1 DEF Subscribe, Start
  <2> QED
    BY <1>3, <2>1, <2>2 DEF Counted, Subscribing
<1>4. CASE r # s
  <2>1. Counted(r, q)
    BY <1>1, <1>4 DEF AllCounted
  <2>2. \A i \in Jobs : Subscribed(i, r, q) => Subscribed(i, r, q)'
    BY <1>2 DEF Subscribed, Subscribing
  <2>3. \A u : Leaves(u, q) => Leaves(u, q)'
    BY <1>1, <1>2 DEF Leaves, Parting, Sweeping
  <2>4. Online(q)' = Online(q)
    BY <1>1 DEF Online
  <2> QED
    BY <1>1, <2>1, <2>2, <2>3, <2>4, StaysCounted
<1> QED
  BY <1>3, <1>4

(* A subscription that fails is one of a project that was not subscribed   *)
(* before, or the failure is noted.                                        *)
LEMMA ThrowsKeepsCounted ==
  ASSUME Base, AllCounted, NEW j \in Jobs, Throws(j), races' \subseteq {"hurried"}
  PROVE  AllCounted'
<1> USE DEF Base, TypeOK
<1>1. /\ pc[j] \in Entering \union {"list"} /\ prj[j] \notin subs[skt[j]] /\ Finish(j)
      /\ UNCHANGED <<rooms, subs, page, view, members, todo>>
  BY DEF Throws, Note, Entering, server, client
<1>2. \A i \in Jobs \ {j} : pc'[i] = pc[i] /\ skt'[i] = skt[i] /\ prj'[i] = prj[i]
  BY <1>1 DEF Finish
<1> SUFFICES ASSUME NEW r \in Sockets, NEW q \in Projects, page'[r] = q, q \in subs'[r]
             PROVE  Counted(r, q)'
  BY DEF AllCounted
<1>3. Counted(r, q)
  BY <1>1 DEF AllCounted
<1>4. \A i \in Jobs : Subscribed(i, r, q) => Subscribed(i, r, q)'
  BY <1>1, <1>2 DEF Subscribed
<1>5. \A u : Leaves(u, q) => Leaves(u, q)'
  BY <1>1, <1>2 DEF Leaves, Entering, Parting, Sweeping
<1>6. Online(q)' = Online(q)
  BY <1>1 DEF Online
<1> QED
  BY <1>1, <1>3, <1>4, <1>5, <1>6, StaysCounted

(* Whoever a page does not show yet is about to be announced to it, and    *)
(* whoever it still shows is about to be announced as gone.                *)
LEMMA StepKeepsCounted ==
  ASSUME Base, Snapshots, StillThere, AllCounted, [Next]_vars, races' \subseteq {"hurried"}
  PROVE  AllCounted'
<1> USE DEF Base, TypeOK
<1>1. ASSUME members' \subseteq members, UNCHANGED <<rooms, subs, page, view, todo>>,
             \A i \in Jobs :
               \/ /\ UNCHANGED <<skt[i], prj[i]>>
                  /\ pc[i] \in Subscribing => pc'[i] \in Subscribing
                  /\ pc[i] \in Parting => pc'[i] \in Parting
               \/ pc[i] \notin Parting /\ UserOf[skt[i]] \notin members'
      PROVE  AllCounted'
  <2>1. \A i \in Jobs, s \in Sockets, p \in Projects :
          Subscribed(i, s, p) => Subscribed(i, s, p)' \/ UserOf[s] \notin members'
    BY <1>1 DEF Subscribed
  <2>2. \A u, p : p \in Projects /\ Leaves(u, p) => Leaves(u, p)'
    BY <1>1 DEF Leaves
  <2> QED
    BY <1>1, <2>1, <2>2, GoesOn
<1>2. CASE UNCHANGED vars
  BY <1>1, <1>2 DEF vars
<1>3. ASSUME NEW j \in Jobs, Authorize(j)
      PROVE  AllCounted'
  <2>1. UNCHANGED <<rooms, subs, page, view, todo, members>> /\ pc[j] = "authorize"
    BY <1>3 DEF Authorize, server, client, access
  <2>2. CASE Goto(j, "lookup")
    BY <1>1, <2>1, <2>2 DEF Goto, Subscribing, Parting, Sweeping
  <2>3. CASE Finish(j) /\ UserOf[skt[j]] \notin members
    BY <1>1, <2>1, <2>3 DEF Finish, Parting, Sweeping
  <2> QED
    BY <1>3, <2>2, <2>3 DEF Authorize
<1>4. ASSUME NEW j \in Jobs, NEW from, NEW to, Read(j, from, to),
             from \in Subscribing <=> to \in Subscribing, from \in Parting <=> to \in Parting
      PROVE  AllCounted'
  BY <1>1, <1>4 DEF Read, server, client, access
<1>5. ASSUME NEW j \in Jobs, Advance(j)
      PROVE  AllCounted'
  <2>1. ASSUME Read(j, "lookup", "join") \/ Read(j, "list", "ack")
                 \/ Read(j, "check", "offline") \/ Read(j, "sweep", "swept")
        PROVE  AllCounted'
    BY <1>4, <2>1 DEF Subscribing, Parting, Sweeping
  <2> QED
    BY <1>3, <1>5, <2>1, JoinKeepsCounted, AcknowledgeKeepsCounted, PublishOfflineKeepsCounted,
       ThrowsKeepsCounted DEF Advance
<1>6. ASSUME NEW u \in Users, RemoveMember(u) \/ DisconnectUser(u)
      PROVE  AllCounted'
  <2>1. members' \subseteq members /\ UNCHANGED <<server, jobs, client, todo>>
    BY <1>6 DEF RemoveMember, DisconnectUser
  <2> QED
    BY <1>1, <2>1 DEF server, jobs, client
<1> QED
  BY <1>2, <1>5, <1>6, DisconnectKeepsCounted, UnsubscribeKeepsCounted, SweepKeepsCounted,
      SubscribeKeepsCounted DEF Next

(* Up to the first race every view is counted.                             *)
LEMMA StepKeepsUndisturbed ==
  ASSUME Base, Undisturbed, [Next]_vars
  PROVE  Undisturbed'
<1> SUFFICES ASSUME races' \subseteq {"hurried"}
             PROVE  (Snapshots /\ StillThere /\ AllCounted)'
  BY DEF Undisturbed
<1>1. Snapshots /\ StillThere /\ AllCounted
  BY RacesGrow DEF Undisturbed
<1> QED
  BY <1>1, StepKeepsSnapshots, StepKeepsThere, StepKeepsCounted

-----------------------------------------------------------------------------

(* The inductive invariant. Only its last two parts are about races: what  *)
(* is said of pages that hurry is said until one does, what is said of     *)
(* views until a room changes under a handler.                             *)
PInv == Base /\ NoEavesdropper /\ Authorized /\ Orderly /\ Undisturbed

(* The pages shown at first are subscribed and show who is there.          *)
LEMMA InitPInv == Init => PInv
<1> SUFFICES ASSUME Init PROVE PInv
  OBVIOUS
<1> USE PresenceAssumption DEF Init
<1>1. Base
  BY InitBase
<1>2. NoEavesdropper /\ Authorized
  BY DEF NoEavesdropper, Authorized
<1>3. Orderly
  BY DEF Orderly, InOrder, Enters, Entering
<1>4. Snapshots /\ StillThere
  BY DEF Snapshots, StillThere, Holds, Subscribing
<1>5. AllCounted
  <2> SUFFICES ASSUME NEW s \in Sockets, NEW p \in Projects, page[s] = p
               PROVE  Counted(s, p)
    BY DEF AllCounted
  <2>1. view[s] = Online(p)
    BY DEF Online
  <2> QED
    BY <2>1 DEF Counted
<1> QED
  BY <1>1, <1>2, <1>3, <1>4, <1>5 DEF PInv, Undisturbed

(* Every step keeps the invariant.                                         *)
LEMMA StepPInv == PInv /\ [Next]_vars => PInv'
  BY StepKeepsBase, StepKeepsRights, StepKeepsOrder, StepKeepsUndisturbed DEF PInv

(* Every handler of the rooms, and every disconnection, keeps the          *)
(* invariant.                                                              *)
THEOREM RoomInvariance == Spec => []PInv
  BY InitPInv, StepPInv, PTL DEF Spec

(* The rooms, the jobs and the pages keep their types.                     *)
THEOREM RoomTyping == Spec => []TypeOK
<1>1. PInv => TypeOK
  BY DEF PInv, Base
<1> QED
  BY <1>1, RoomInvariance, PTL

(* Who has been removed from the organization has no socket in a room of   *)
(* its projects, or disconnectUser is still to come or has told the socket *)
(* to go; also when the subscription was authorized before the removal and *)
(* joins after it (subscribeToProject against disconnectUser).             *)
THEOREM NobodyListensIn == Spec => []NoEavesdropper
<1>1. PInv => NoEavesdropper
  BY DEF PInv
<1> QED
  BY <1>1, RoomInvariance, PTL

(* When nothing is under way, a socket is in no room but the one of the    *)
(* project its page shows, however subscriptions, page changes,            *)
(* disconnections and removals interleaved; unless a page was left before  *)
(* its subscription had gone through.                                      *)
THEOREM RoomsAreLeft == Spec => []NoneLeftBehind
<1>1. PInv => NoneLeftBehind
  BY DEF PInv, Orderly, InOrder, NoneLeftBehind
<1> QED
  BY <1>1, RoomInvariance, PTL

(* When nothing is under way, a subscribed page shows exactly who has a    *)
(* socket in the room (onlineUserIds against the room), with any number of *)
(* users, tabs and projects, unless a race that the model names happened:  *)
(* a room that changed between a look and its use, a socket that went      *)
(* while it subscribed, a late answer for another project, a subscription  *)
(* or a cleanup that failed in the middle.                                 *)
THEOREM ViewsComeRight == Spec => []ViewsConverge
<1>1. ASSUME PInv, Quiet, races \subseteq {"hurried"},
             NEW s \in Sockets, page[s] # None, page[s] \in subs[s]
      PROVE  view[s] = Online(page[s])
  <2>1. page[s] \in Projects /\ s \in rooms[page[s]]
    BY <1>1 DEF PInv, Base, TypeOK, Connected
  <2>2. UserOf[s] \in members
    BY <1>1, <2>1 DEF PInv, NoEavesdropper, Quiet
  <2>3. Counted(s, page[s])
    BY <1>1, <2>1 DEF PInv, Undisturbed, AllCounted
  <2>4. \A u : ~Leaves(u, page[s])
    BY <1>1 DEF Quiet, Leaves, Parting, Sweeping
  <2>5. Online(page[s]) \subseteq view[s] /\ \A u \in view[s] \ Online(page[s]) : Leaves(u, page[s])
    BY <1>1, <2>2, <2>3 DEF Counted, Quiet, Subscribing
  <2> QED
    BY <2>4, <2>5
<1>2. PInv => ViewsConverge
  BY <1>1 DEF ViewsConverge
<1> QED
  BY <1>2, RoomInvariance, PTL

-----------------------------------------------------------------------------
(* The page over its queries.                                              *)

(* The page waits for the answer of a mutation: what it does, to which row;*)
(* one that edits a row of the checklists.                                 *)
Busy == mine.at # "none"
Doing == kindOf[mine.change]
Target == rowOf[mine.change]
Rowing == Busy /\ Doing \in RowKinds

(* An event on its way names query k.                                      *)
Told(k) == \E i \in 1..Len(events) : k \in events[i]

(* The answer the page waits for makes it ask again for k, or brings what  *)
(* is missing in the list, of which nobody else told it.                   *)
Awaited(k) == Busy /\ k \in mine.alone \intersect Refreshed(Doing)
Fitting(k) == Patching(k) /\ k \in mine.alone

(* A change of query k is written and not announced yet; one that is not   *)
(* the page's own.                                                         *)
Coming(k) == \E c \in Changes : UnderWay(c) /\ k \in Written(c)
Another(k) == \E c \in Changes \ {mine.change} : UnderWay(c) /\ k \in Written(c)

(* Whatever a query has on the server is shown, read, announced or about   *)
(* to be, or brought by the answer the page waits for.                     *)
Reached ==
  \A k \in Shown \ doubt : Told(k) \/ Current(k) \/ Awaited(k) \/ Fitting(k) \/ Coming(k)

(* A list that is to be patched differs from the server's only in the row  *)
(* of the mutation, and the answer carries that row as it is.              *)
Behind ==
  LET cached == shown["checklists"]
      now == content["checklists"]
      r == Target
  IN /\ twice = {}
     /\ now \ Row(r, now) = cached \ Row(r, cached)
     /\ Doing \in {"add", "edit"} <=> r \in RowsIn(now)
     /\ Doing = "add" => r \notin RowsIn(cached)
     /\ Doing = "edit" => r \in RowsIn(cached)
     /\ mine.at = "answer" /\ Doing \in {"add", "edit"} => mine.dto = Row(r, now)

PatchFits ==
  /\ Patching("checklists") /\ "checklists" \notin doubt
  /\ ~Told("checklists") /\ ~Another("checklists")
  => Behind

(* A row is named by the change that created it, which is about itself; no *)
(* query has a change that was not made.                                   *)
Made == {c \in Changes : stage[c] # "new"}

Rows ==
  /\ \A k \in Shown : content[k] \union shown[k] \union got[k] \subseteq Made
  /\ \A c \in Made : kindOf[c] \in Kinds /\ rowOf[c] \in Made /\ rowOf[rowOf[c]] = rowOf[c]
  /\ mine.dto \subseteq Made

(* What the page waits for is a mutation of its own that was made; only an *)
(* announced one is answered.                                              *)
Waiting ==
  /\ ~Busy => mine = Idle
  /\ Busy => /\ mine.change \in Made
             /\ mine.at = "answer" => stage[mine.change] = "announced"
             /\ UnderWay(mine.change) => mine.alone = {}

(* Every change is heard of, doubted, or asked for again or patched in by  *)
(* the page that made it.                                                  *)
LEMMA EveryChangeReaches ==
  ASSUME NEW kind \in AllKinds, NEW own \in BOOLEAN, NEW k \in Touched(kind) \intersect Shown,
         subscribed \in BOOLEAN
  PROVE  \/ k \in Heard(kind)
         \/ k \in Untold(kind, own)
         \/ own /\ k \in Refreshed(kind)
         \/ own /\ kind \in RowKinds /\ k = "checklists" /\ Patching(k)
<1> USE DEF Heard, Untold, TaskEvent, RowKinds
<1>1. CASE ~own /\ ~subscribed
  BY <1>1
<1>2. CASE ~own /\ subscribed
  <2>1. CASE kind \in RowKinds
    BY <1>2, <2>1 DEF Touched, Announced
  <2>2. CASE kind \in {"task", "time"}
    BY <1>2, <2>2 DEF Touched, Announced
  <2>3. CASE kind = "tag"
    BY <1>2, <2>3 DEF Touched, Announced
  <2>4. CASE kind = "subtask"
    BY <1>2, <2>4 DEF Touched, Announced
  <2>5. CASE kind \in {"comment", "label", "column"}
    BY <1>2, <2>5 DEF Touched, Announced
  <2> QED
    BY <2>1, <2>2, <2>3, <2>4, <2>5 DEF AllKinds
<1>3. CASE own
  <2>1. CASE kind \in RowKinds /\ subscribed
    BY <1>3, <2>1 DEF Touched, Announced
  <2>2. CASE kind \in RowKinds /\ ~subscribed
    BY <1>3, <2>2 DEF Touched, Refreshed, Checklists
  <2>3. CASE kind \in {"task", "tag", "label"}
    BY <1>3, <2>3 DEF Touched, Refreshed, TaskDetail
  <2>4. CASE kind = "time"
    BY <1>3, <2>4 DEF Touched, Refreshed, TimeTracking
  <2>5. CASE kind = "subtask"
    BY <1>3, <2>5 DEF Touched, Refreshed, Subtasks
  <2>6. CASE kind \in {"comment", "column"}
    BY <1>3, <2>6 DEF Touched, Refreshed, Comments, BoardDetail
  <2> QED
    BY <2>1, <2>2, <2>3, <2>4, <2>5, <2>6 DEF AllKinds
<1> QED
  BY <1>1, <1>2, <1>3

-----------------------------------------------------------------------------
(* The queries that an event or a mutation asks for again.                 *)

(* A query that is asked for again forgets what a fetch had read; any      *)
(* other is left alone.                                                    *)
LEMMA InvalidateTypes ==
  ASSUME at \in [Shown -> {"idle", "asked", "read"}], got \in [Shown -> SUBSET Changes], NEW ks,
         Invalidate(ks)
  PROVE  /\ at' \in [Shown -> {"idle", "asked", "read"}] /\ got' \in [Shown -> SUBSET Changes]
         /\ \A k \in Shown : got'[k] \subseteq got[k]
         /\ \A k \in Shown : IF Asks(k, ks) THEN at'[k] = "asked" ELSE at'[k] = at[k] /\ got'[k] = got[k]
<1>1. \A k \in Shown : IF Asks(k, ks) THEN at'[k] = "asked" /\ got'[k] = {}
                                              ELSE at'[k] = at[k] /\ got'[k] = got[k]
  BY DEF Invalidate
<1>2. at' \in [Shown -> {"idle", "asked", "read"}]
  BY DEF Invalidate
<1>3. got' \in [Shown -> SUBSET Changes]
  BY DEF Invalidate
<1> QED
  BY <1>1, <1>2, <1>3

(* What the page waits for.                                                *)
LEMMA IdleTypes ==
  /\ Idle \in [at : {"none", "working", "answer"}, change : Changes \union {Nil},
              dto : SUBSET Changes, alone : SUBSET Shown, raced : BOOLEAN]
  /\ Idle.at = "none" /\ Idle.dto = {} /\ Idle.alone = {}
BY DEF Idle

(* What a mutation that was just sent waits for.                           *)
LEMMA BusyTypes ==
  ASSUME NEW c, NEW m, m = [Idle EXCEPT !.at = "working", !.change = c]
  PROVE  m = [at |-> "working", change |-> c, dto |-> {}, alone |-> {}, raced |-> FALSE]
BY DEF Idle

(* The types, and what a row is.                                           *)
Sound == PageTypeOK /\ Rows /\ Waiting

(* A page that has just been opened.                                       *)
LEMMA PageInitSound ==
  ASSUME PageInit
  PROVE  Sound
<1> USE TaskPageAssumption DEF PageInit
<1>1. PageTypeOK
  <2>1. mine \in [at : {"none", "working", "answer"}, change : Changes \union {Nil},
                 dto : SUBSET Changes, alone : SUBSET Shown, raced : BOOLEAN]
    BY IdleTypes
  <2>2. events \in Seq(SUBSET Shown)
    BY EmptySeq
  <2> QED
    BY <2>1, <2>2 DEF PageTypeOK
<1>2. Rows
  <2>1. Made = Early
    BY DEF Made
  <2>2. mine.dto = {}
    BY DEF Idle
  <2> QED
    BY <2>1, <2>2 DEF Rows
<1>3. Waiting
  BY DEF Waiting, Busy, Idle
<1> QED
  BY <1>1, <1>2, <1>3 DEF Sound

(* A change gives a row to itself, or to a row the list has.               *)
LEMMA WriteKeepsSound ==
  ASSUME Sound,
         NEW c \in Changes, NEW r \in Changes, NEW kind \in Kinds, NEW own \in BOOLEAN,
         Write(c, kind, r, own)
  PROVE  Sound'
<1> USE TaskPageAssumption DEF Sound, PageTypeOK
<1>1. /\ stage[c] = "new" /\ stage' = [stage EXCEPT ![c] = "written"]
      /\ rowOf' = [rowOf EXCEPT ![c] = r] /\ kindOf' = [kindOf EXCEPT ![c] = kind]
      /\ UNCHANGED <<subscribed, events, loaded, at, got, shown, twice, doubt>>
  BY DEF Write, fetch
<1>2. /\ r # c => r \in Made /\ rowOf[r] = r
      /\ Made' = Made \union {c} /\ c \notin Made
  <2>1. CASE kind \in {"edit", "drop"}
    <3>1. r \in RowsIn(content["checklists"]) /\ "checklists" \in Shown
      BY <2>1 DEF Write, RowKinds
    <3>2. PICK d \in content["checklists"] : rowOf[d] = r
      BY <3>1 DEF RowsIn
    <3> QED
      BY <1>1, <3>1, <3>2 DEF Rows, Made
  <2>2. CASE kind \notin {"edit", "drop"}
    BY <1>1, <2>2 DEF Write, Made
  <2> QED
    BY <2>1, <2>2
<1>3. \A k \in Shown : content'[k] \subseteq content[k] \union {c}
  BY DEF Write
<1>4. content' \in [Shown -> SUBSET Changes]
  BY DEF Write
<1>5. /\ own => mine = Idle
      /\ mine' = IF own THEN [at |-> "working", change |-> c, dto |-> {}, alone |-> {}, raced |-> FALSE]
                        ELSE mine
  BY BusyTypes DEF Write
<1>6. PageTypeOK'
  BY <1>1, <1>4, <1>5
<1>7. Rows'
  <2>1. \A k \in Shown : (content[k] \union shown[k] \union got[k] \subseteq Made)'
    BY <1>1, <1>2, <1>3, <1>6 DEF Rows
  <2>2. \A d \in Made' : kindOf'[d] \in Kinds /\ rowOf'[d] \in Made' /\ rowOf'[rowOf'[d]] = rowOf'[d]
    BY <1>1, <1>2 DEF Rows, Made
  <2>3. mine'.dto \subseteq Made'
    BY <1>2, <1>5 DEF Rows
  <2> QED
    BY <2>1, <2>2, <2>3 DEF Rows
<1>8. Waiting'
  <2>1. CASE own
    BY <1>1, <1>2, <1>5, <2>1 DEF Waiting, Busy
  <2>2. CASE ~own
    <3>1. mine' = mine
      BY <1>5, <2>2
    <3>2. Busy => stage'[mine.change] = stage[mine.change]
      BY <1>1, <1>2 DEF Waiting, Made
    <3> QED
      BY <1>2, <3>1, <3>2 DEF Waiting, Busy, UnderWay
  <2> QED
    BY <2>1, <2>2
<1> QED
  BY <1>6, <1>7, <1>8

(* A request under way takes a step: it makes no new row.                  *)
LEMMA RequestKeepsSound ==
  ASSUME Sound, NEW c \in Changes, Record(c) \/ Announce(c) \/ Fail(c)
  PROVE  Sound'
<1> USE DEF Sound, PageTypeOK
<1>1. /\ UnderWay(c) /\ UNCHANGED <<rowOf, kindOf, subscribed, loaded, at, got, shown, twice>>
      /\ \E where \in {"recorded", "announced", "failed"} :
           stage' = [stage EXCEPT ![c] = where] /\ (where = "recorded" => mine' = mine)
  BY DEF Record, Announce, Fail, UnderWay, fetch
<1>2. Made' = Made /\ c \in Made /\ stage' \in [Changes -> {"new", "written", "recorded", "announced", "failed"}]
  BY <1>1 DEF Made, UnderWay
<1>3. content' \in [Shown -> SUBSET Changes] /\ \A k \in Shown : content'[k] \subseteq content[k] \union {c}
  BY DEF Record, Announce, Fail
<1>4. /\ mine' \in [at : {"none", "working", "answer"}, change : Changes \union {Nil},
                     dto : SUBSET Changes, alone : SUBSET Shown, raced : BOOLEAN]
      /\ mine'.dto \subseteq mine.dto
      /\ mine' = Idle \/ (mine'.at = mine.at /\ mine'.change = mine.change)
      /\ mine' = Idle \/ mine' = mine \/ (mine.change = c /\ stage'[c] = "announced")
  <2>1. CASE mine' = Idle
    BY <2>1, IdleTypes
  <2>2. CASE mine' = mine
    BY <2>2
  <2>3. CASE mine' # Idle /\ mine' # mine
    <3>1. /\ mine.change = c /\ stage' = [stage EXCEPT ![c] = "announced"]
          /\ mine' = [mine EXCEPT !.alone = (Touched(kindOf[c]) \intersect Shown) \ Heard(kindOf[c])]
      BY <2>3 DEF Record, Announce, Fail
    <3> QED
      BY <3>1
  <2> QED
    BY <2>1, <2>2, <2>3
<1>5. events' \in Seq(SUBSET Shown) /\ doubt' \subseteq Shown
  <2>1. CASE Announce(c)
    <3>1. Heard(kindOf[c]) \in SUBSET Shown
      BY DEF Heard
    <3> QED
      BY <2>1, <3>1 DEF Announce, Missed
  <2>2. CASE Record(c) \/ Fail(c)
    BY <2>2 DEF Record, Fail, Missed
  <2> QED
    BY <2>1, <2>2
<1>6. PageTypeOK'
  BY <1>1, <1>2, <1>3, <1>4, <1>5
<1>7. Rows'
  BY <1>1, <1>2, <1>3, <1>4 DEF Rows
<1>8. Waiting'
  <2>1. CASE mine' = Idle
    BY <2>1, IdleTypes DEF Waiting, Busy
  <2>2. CASE mine' # Idle /\ mine' = mine
    <3>1. mine.change = c => stage'[c] \in {"recorded", "announced"} /\ (mine.alone = {} \/ ~Busy)
      BY <1>1, <2>2, IdleTypes DEF Waiting, Record, Announce, Fail
    <3>2. Busy => mine.at # "answer" \/ mine.change # c
      BY <1>1 DEF Waiting, UnderWay
    <3> QED
      BY <1>1, <1>2, <2>2, <3>1, <3>2 DEF Waiting, Busy, UnderWay
  <2>3. CASE mine' # Idle /\ mine' # mine
    <3>1. mine.change = c /\ stage'[c] = "announced" /\ mine'.at = mine.at /\ mine'.change = c
      BY <1>4, <2>3
    <3>2. mine # Idle
      BY <3>1, TaskPageAssumption DEF Idle
    <3> QED
      BY <1>2, <3>1, <3>2 DEF Waiting, Busy, UnderWay
  <2> QED
    BY <2>1, <2>2, <2>3
<1> QED
  BY <1>6, <1>7, <1>8

(* What the cached list becomes is made of rows.                           *)
LEMMA PatchedTypes ==
  ASSUME Sound, mine.at = "answer", Doing \in RowKinds
  PROVE  /\ "checklists" \in Shown
         /\ Patched(mine) \in SUBSET Changes /\ Patched(mine) \subseteq Made
         /\ PatchedTwice(mine) \in SUBSET Changes
<1> USE TaskPageAssumption DEF Sound, PageTypeOK, Doing, Target
<1>1. "checklists" \in Shown /\ Target \in Changes
  BY DEF Waiting, Busy, Rows, Made
<1>2. /\ shown["checklists"] \subseteq Changes /\ shown["checklists"] \subseteq Made
      /\ mine.dto \subseteq Changes /\ mine.dto \subseteq Made
  BY <1>1 DEF Rows
<1>3. Patched(mine) \in SUBSET Changes /\ Patched(mine) \subseteq Made
  BY <1>2 DEF Patched, RowKinds, Row
<1>4. PatchedTwice(mine) \in SUBSET Changes
  BY <1>1 DEF PatchedTwice, RowKinds
<1> QED
  BY <1>1, <1>3, <1>4

(* Every step keeps the types and the rows.                                *)
LEMMA StepKeepsSound ==
  ASSUME Sound, [PageNext]_pageVars
  PROVE  Sound'
<1> USE DEF Sound, PageTypeOK
<1>1. ASSUME UNCHANGED <<content, rowOf, kindOf, stage, mine>>,
             \A k \in Shown : /\ got'[k] \subseteq got[k] \union content[k]
                              /\ shown'[k] \subseteq shown[k] \union got[k]
      PROVE  Rows' /\ Waiting'
  <2>1. Rows'
    BY <1>1 DEF Rows, Made
  <2>2. Waiting'
    BY <1>1 DEF Waiting, Busy, Made, UnderWay
  <2> QED
    BY <2>1, <2>2
<1>2. CASE UNCHANGED pageVars
  BY <1>1, <1>2 DEF pageVars, fetch, stored
<1>3. CASE Answer
  <2>1. /\ UNCHANGED <<content, rowOf, kindOf, stage, subscribed, events, loaded, at, got, shown, twice, doubt>>
        /\ mine.at = "working" /\ stage[mine.change] = "announced"
    BY <1>3 DEF Answer, stored, fetch
  <2>2. PICK d : /\ d \in {mine.dto, Row(Target, content["checklists"])}
                 /\ Doing \notin {"add", "edit"} => d = mine.dto
                 /\ mine' = [mine EXCEPT !.at = "answer", !.dto = d]
    <3>1. mine = [mine EXCEPT !.dto = mine.dto]
      OBVIOUS
    <3>2. CASE Doing \in {"add", "edit"}
      BY <1>3, <3>2 DEF Answer, Doing, Target
    <3>3. CASE Doing \notin {"add", "edit"}
      <4>1. mine' = [mine EXCEPT !.at = "answer"]
        BY <1>3, <3>3 DEF Answer, Doing
      <4>2. mine' = [mine EXCEPT !.at = "answer", !.dto = mine.dto]
        BY <4>1
      <4> QED
        BY <3>3, <4>2
    <3> QED
      BY <3>2, <3>3
  <2>3. d \subseteq Changes /\ d \subseteq Made
    <3>1. CASE Doing \in {"add", "edit"}
      <4>1. "checklists" \in Shown
        BY TaskPageAssumption, <2>1, <3>1 DEF Waiting, Busy, RowKinds, Rows, Doing
      <4> QED
        BY <2>2, <4>1 DEF Rows, Row, Made
    <3>2. CASE Doing \notin {"add", "edit"}
      BY <2>2, <3>2 DEF Rows
    <3> QED
      BY <3>1, <3>2
  <2>4. /\ mine'.at = "answer" /\ mine'.change = mine.change /\ mine'.dto = d /\ mine'.alone = mine.alone
        /\ mine' \in [at : {"none", "working", "answer"}, change : Changes \union {Nil},
                       dto : SUBSET Changes, alone : SUBSET Shown, raced : BOOLEAN]
    BY <2>2, <2>3
  <2>5. PageTypeOK'
    BY <2>1, <2>4
  <2>6. Rows' /\ Waiting'
    BY <2>1, <2>3, <2>4 DEF Rows, Made, Waiting, Busy, UnderWay
  <2> QED
    BY <2>5, <2>6
<1>4. CASE Deliver
  <2>1. /\ UNCHANGED <<content, rowOf, kindOf, stage, subscribed, loaded, shown, twice, mine>> /\ Invalidate(Head(events))
        /\ events # <<>> /\ events' = Tail(events)
        /\ doubt' = doubt \union Joined(Head(events))
    BY <1>4 DEF Deliver, stored
  <2>2. events' \in Seq(SUBSET Shown) /\ Head(events) \subseteq Shown
    BY <2>1, HeadTailProperties
  <2>3. doubt' \subseteq Shown
    BY <2>1, <2>2 DEF Joined
  <2>4. /\ at' \in [Shown -> {"idle", "asked", "read"}] /\ got' \in [Shown -> SUBSET Changes]
        /\ \A k \in Shown : got'[k] \subseteq got[k]
    BY <2>1, InvalidateTypes
  <2> QED
    BY <1>1, <2>1, <2>2, <2>3, <2>4
<1>5. ASSUME NEW k \in Shown, FetchRead(k)
      PROVE  Sound'
  <2>1. /\ UNCHANGED <<content, rowOf, kindOf, stage, subscribed, events, loaded, shown, twice, mine>>
        /\ at' = [at EXCEPT ![k] = "read"] /\ got' = [got EXCEPT ![k] = content[k]] /\ doubt' = doubt \ {k}
    BY <1>5 DEF FetchRead, stored
  <2>2. PageTypeOK'
    BY <2>1
  <2> QED
    BY <1>1, <2>1, <2>2
<1>6. ASSUME NEW k \in Shown, FetchArrives(k)
      PROVE  Sound'
  <2>1. /\ UNCHANGED <<content, rowOf, kindOf, stage, subscribed, events, doubt>>
        /\ at' = [at EXCEPT ![k] = "idle"] /\ got' = [got EXCEPT ![k] = {}]
        /\ shown' = [shown EXCEPT ![k] = got[k]] /\ loaded' = loaded \union {k} /\ twice' \in {{}, twice}
    BY <1>6 DEF FetchArrives, stored
  <2>2. mine' = [mine EXCEPT !.raced = @ \/ (k = "checklists" /\ mine # Idle)]
    BY <1>6 DEF FetchArrives
  <2>3. /\ mine' \in [at : {"none", "working", "answer"}, change : Changes \union {Nil},
                       dto : SUBSET Changes, alone : SUBSET Shown, raced : BOOLEAN]
        /\ mine'.at = mine.at /\ mine'.change = mine.change /\ mine'.dto = mine.dto /\ mine'.alone = mine.alone
    BY <2>2
  <2>4. mine = Idle => mine' = Idle
    <3> SUFFICES ASSUME mine = Idle
                 PROVE  mine' = Idle
      OBVIOUS
    <3>1. mine' = [Idle EXCEPT !.raced = FALSE]
      BY <2>2 DEF Idle
    <3> QED
      BY <3>1 DEF Idle
  <2>5. PageTypeOK'
    BY <2>1, <2>3
  <2>6. Rows' /\ Waiting'
    BY <2>1, <2>3, <2>4 DEF Rows, Made, Waiting, Busy, UnderWay
  <2> QED
    BY <2>5, <2>6
<1>7. ASSUME NEW k \in Shown, FetchFails(k)
      PROVE  Sound'
  <2>1. /\ UNCHANGED <<content, rowOf, kindOf, stage, subscribed, events, loaded, shown, twice, mine>>
        /\ at' = [at EXCEPT ![k] = "idle"] /\ got' = [got EXCEPT ![k] = {}] /\ doubt' = doubt \union {k}
    BY <1>7 DEF FetchFails, stored
  <2>2. PageTypeOK'
    BY <2>1
  <2> QED
    BY <1>1, <2>1, <2>2
<1>8. CASE Focus
  <2>1. /\ UNCHANGED <<content, rowOf, kindOf, stage, subscribed, events, loaded, got, shown, twice, mine, doubt>>
        /\ at' = [k \in Shown |-> IF at[k] = "idle" THEN "asked" ELSE at[k]]
    BY <1>8 DEF Focus, stored
  <2>2. PageTypeOK'
    BY <2>1
  <2> QED
    BY <1>1, <2>1, <2>2
<1>9. CASE Receive
  <2>1. /\ UNCHANGED <<content, rowOf, kindOf, stage, subscribed, events>> /\ mine.at = "answer" /\ mine' = Idle
        /\ Invalidate(Refreshed(Doing))
        /\ doubt' \subseteq doubt \union Joined(Refreshed(Doing) \intersect Shown) \union
                           (IF Doing \in RowKinds THEN {"checklists"} ELSE {})
    BY <1>9 DEF Receive, stored, Doing
  <2>2. /\ at' \in [Shown -> {"idle", "asked", "read"}] /\ got' \in [Shown -> SUBSET Changes]
        /\ \A k \in Shown : got'[k] \subseteq got[k]
    BY <2>1, InvalidateTypes
  <2>3. /\ shown' \in [Shown -> SUBSET Changes] /\ twice' \subseteq Changes /\ loaded' \subseteq Shown
        /\ \A k \in Shown : shown'[k] \subseteq Made
    <3>1. CASE Doing \in RowKinds
      <4>1. /\ shown' = [shown EXCEPT !["checklists"] = Patched(mine)] /\ twice' = PatchedTwice(mine)
            /\ loaded' = loaded \union {"checklists"}
        BY <1>9, <3>1 DEF Receive, Doing
      <4> QED
        BY <2>1, <3>1, <4>1, PatchedTypes DEF Rows
    <3>2. CASE Doing \notin RowKinds
      BY <1>9, <3>2 DEF Receive, Rows, Doing
    <3> QED
      BY <3>1, <3>2
  <2>4. doubt' \subseteq Shown
    BY <2>1, PatchedTypes DEF Joined
  <2>5. PageTypeOK'
    BY <2>1, <2>2, <2>3, <2>4, IdleTypes
  <2>6. Rows' /\ Waiting'
    BY <2>1, <2>2, <2>3, IdleTypes DEF Rows, Made, Waiting, Busy, UnderWay
  <2> QED
    BY <2>5, <2>6
<1>10. CASE AnswerLost
  <2>1. /\ UNCHANGED <<content, rowOf, kindOf, stage, subscribed, events, loaded, at, got, shown, twice>>
        /\ mine' = Idle /\ doubt' = doubt \union Missed(mine.alone)
    BY <1>10 DEF AnswerLost, stored, fetch
  <2>2. PageTypeOK'
    BY <2>1, IdleTypes DEF Missed
  <2>3. Rows' /\ Waiting'
    BY <2>1, IdleTypes DEF Rows, Made, Waiting, Busy, UnderWay
  <2> QED
    BY <2>2, <2>3
<1>11. CASE Attach
  BY <1>1, <1>11 DEF Attach, stored, fetch
<1>12. CASE Detach
  <2>1. /\ UNCHANGED <<content, rowOf, kindOf, stage, loaded, at, got, shown, twice, mine>>
        /\ subscribed' = FALSE /\ events' = <<>>
        /\ doubt' = doubt \union UNION {events[i] : i \in 1..Len(events)}
    BY <1>12 DEF Detach, stored, fetch
  <2>2. \A i \in 1..Len(events) : events[i] \subseteq Shown
    BY ElementOfSeq
  <2>3. doubt' \subseteq Shown /\ events' \in Seq(SUBSET Shown)
    BY <2>1, <2>2, EmptySeq
  <2>4. PageTypeOK'
    BY <2>1, <2>3
  <2> QED
    BY <1>1, <2>1, <2>4
<1> QED
  BY <1>2, <1>3, <1>4, <1>5, <1>6, <1>7, <1>8, <1>9, <1>10, <1>11, <1>12, WriteKeepsSound, RequestKeepsSound
  DEF PageNext

-----------------------------------------------------------------------------
(* Whatever a page does not show yet is on its way to it.                  *)

(* An event appended hides none of the others.                             *)
LEMMA ToldOfMore ==
  ASSUME Sound, NEW e \in SUBSET Shown, events' = Append(events, e), NEW k
  PROVE  (Told(k) \/ k \in e) => Told(k)'
<1>1. /\ events' \in Seq(SUBSET Shown) /\ Len(events') = Len(events) + 1 /\ Len(events) \in Nat
      /\ \A i \in 1..Len(events) : events'[i] = events[i]
      /\ events'[Len(events) + 1] = e
  BY AppendProperties, LenProperties DEF Sound, PageTypeOK
<1> QED
  BY <1>1 DEF Told

(* An event delivered takes nothing with it but what it names.             *)
LEMMA ToldOfLess ==
  ASSUME Sound, events # <<>>, events' = Tail(events), NEW k, Told(k)
  PROVE  k \in Head(events) \/ Told(k)'
<1>1. /\ Len(events) \in Nat /\ Head(events) = events[1] /\ Len(events') = Len(events) - 1
      /\ \A i \in 1..Len(events') : events'[i] = events[i + 1]
  BY HeadTailProperties, LenProperties DEF Sound, PageTypeOK
<1>2. PICK i \in 1..Len(events) : k \in events[i]
  BY DEF Told
<1>3. CASE i = 1
  BY <1>1, <1>2, <1>3
<1>4. CASE i # 1
  <2>1. i - 1 \in 1..Len(events') /\ events'[i - 1] = events[i]
    BY <1>1, <1>4
  <2> QED
    BY <1>2, <2>1 DEF Told
<1> QED
  BY <1>3, <1>4

(* Changes of rows, and no others, change the list.                        *)
LEMMA RowTouch ==
  ASSUME NEW kind \in AllKinds
  PROVE  "checklists" \in Touched(kind) <=> kind \in RowKinds
<1>1. CASE kind \in RowKinds
  BY <1>1 DEF Touched, RowKinds
<1>2. CASE kind \notin RowKinds
  BY <1>2 DEF Touched, AllKinds
<1> QED
  BY <1>1, <1>2

(* A request that took no step is where it was.                            *)
LEMMA SameRequest ==
  ASSUME NEW d, stage'[d] = stage[d], kindOf'[d] = kindOf[d]
  PROVE  (UnderWay(d) <=> UnderWay(d)') /\ Written(d)' = Written(d)
BY DEF UnderWay, Written, Touched

(* The list is what it was, and so are its rows.                           *)
LEMMA SameBehind ==
  ASSUME Sound, Behind, "checklists" \in Shown, Doing' = Doing, Target' = Target,
         content'["checklists"] = content["checklists"], UNCHANGED <<shown, twice>>,
         mine'.at = mine.at, mine'.dto = mine.dto,
         \A d \in Made : rowOf'[d] = rowOf[d]
  PROVE  Behind'
<1> DEFINE cached == shown["checklists"]
           now == content["checklists"]
<1>1. \A d \in now \union cached : rowOf'[d] = rowOf[d]
  BY DEF Sound, Rows
<1>2. Row(Target, now)' = Row(Target, now) /\ Row(Target, cached)' = Row(Target, cached)
  BY <1>1 DEF Row
<1>3. RowsIn(now)' = RowsIn(now) /\ RowsIn(cached)' = RowsIn(cached)
  BY <1>1 DEF RowsIn
<1> QED
  BY <1>2, <1>3 DEF Behind

(* What is written is announced later.                                     *)
LEMMA WriteKeepsReached ==
  ASSUME Sound, Reached,
         NEW c \in Changes, NEW r \in Changes, NEW kind \in Kinds, NEW own \in BOOLEAN,
         Write(c, kind, r, own)
  PROVE  Reached'
<1> USE DEF Sound, PageTypeOK
<1> SUFFICES ASSUME NEW k \in Shown, k \notin doubt
             PROVE  (Told(k) \/ Current(k) \/ Awaited(k) \/ Fitting(k) \/ Coming(k))'
  BY DEF Reached, Write
<1>1. /\ stage[c] = "new" /\ stage' = [stage EXCEPT ![c] = "written"]
      /\ kindOf' = [kindOf EXCEPT ![c] = kind]
      /\ UNCHANGED <<subscribed, events, at, got, shown, twice, doubt>>
      /\ mine' = mine \/ mine = Idle
  BY DEF Write, fetch
<1>2. \A d \in Changes \ {c} : (UnderWay(d) <=> UnderWay(d)') /\ Written(d)' = Written(d)
  BY <1>1, SameRequest
<1>3. ~UnderWay(c) /\ UnderWay(c)' /\ Written(c)' = Touched(kind) \ {"activity"}
  BY <1>1 DEF UnderWay, Written, Touched
<1>4. k \in Touched(kind) \ {"activity"} \/ content'[k] = content[k]
  BY DEF Write
<1>5. CASE k \in Touched(kind) \ {"activity"}
  BY <1>3, <1>5 DEF Coming
<1>6. CASE content'[k] = content[k]
  <2>1. Coming(k) => Coming(k)'
    BY <1>2, <1>3 DEF Coming
  <2>2. Told(k) \/ Current(k) => (Told(k) \/ Current(k))'
    BY <1>1, <1>6 DEF Told, Current
  <2>3. CASE Awaited(k) \/ Fitting(k)
    <3>1. Busy /\ mine' = mine
      BY <1>1, <2>3, IdleTypes DEF Awaited, Fitting, Patching, Busy
    <3>2. kindOf'[mine.change] = kindOf[mine.change]
      BY <1>1, <3>1 DEF Waiting, Made
    <3> QED
      BY <1>1, <2>3, <3>1, <3>2 DEF Awaited, Fitting, Patching, Busy, Doing
  <2> QED
    BY <2>1, <2>2, <2>3 DEF Reached
<1> QED
  BY <1>4, <1>5, <1>6

(* The row of activity is announced with the rest.                         *)
LEMMA RecordKeepsReached ==
  ASSUME Sound, Reached, NEW c \in Changes, Record(c)
  PROVE  Reached'
<1> USE DEF Sound, PageTypeOK
<1> SUFFICES ASSUME NEW k \in Shown, k \notin doubt
             PROVE  (Told(k) \/ Current(k) \/ Awaited(k) \/ Fitting(k) \/ Coming(k))'
  BY DEF Reached, Record
<1>1. /\ stage[c] = "written" /\ stage' = [stage EXCEPT ![c] = "recorded"]
      /\ "activity" \in Touched(kindOf[c])
      /\ UNCHANGED <<rowOf, kindOf, subscribed, events, at, got, shown, twice, mine, doubt>>
  BY DEF Record, fetch
<1>2. \A d \in Changes : UnderWay(d) => UnderWay(d)' /\ Written(d) \subseteq Written(d)'
  BY <1>1 DEF UnderWay, Written, Touched
<1>3. CASE k = "activity"
  <2>1. UnderWay(c)' /\ k \in Written(c)'
    BY <1>1, <1>3 DEF UnderWay, Written, Touched
  <2> QED
    BY <2>1 DEF Coming
<1>4. CASE k # "activity"
  <2>1. content'[k] = content[k]
    BY <1>4 DEF Record
  <2> QED
    BY <1>1, <1>2, <2>1 DEF Reached, Told, Current, Awaited, Fitting, Patching, Busy, Doing, Coming
<1> QED
  BY <1>3, <1>4

(* A request that is over: what it did not touch is as far as it was.      *)
LEMMA OthersGoOn ==
  ASSUME Sound, Reached, NEW c \in Changes, UnderWay(c), NEW where \in {"announced", "failed"},
         stage' = [stage EXCEPT ![c] = where],
         UNCHANGED <<content, kindOf, at, got, shown, twice>>,
         mine.change # c => mine' = mine,
         NEW k \in Shown, k \notin doubt, k \notin Written(c), Told(k) => Told(k)',
         Doing \in RowKinds /\ k = "checklists" => mine.change # c
  PROVE  (Told(k) \/ Current(k) \/ Awaited(k) \/ Fitting(k) \/ Coming(k))'
<1> USE DEF Sound, PageTypeOK
<1>1. Told(k) \/ Current(k) \/ Awaited(k) \/ Fitting(k) \/ Coming(k)
  BY DEF Reached
<1>2. CASE Told(k) \/ Current(k)
  BY <1>2 DEF Current
<1>3. CASE Coming(k)
  <2>1. PICK d \in Changes : UnderWay(d) /\ k \in Written(d)
    BY <1>3 DEF Coming
  <2>2. d # c /\ UnderWay(d)' /\ Written(d)' = Written(d)
    BY <2>1, SameRequest
  <2> QED
    BY <2>1, <2>2 DEF Coming
<1>4. CASE Awaited(k) \/ Fitting(k)
  <2>1. mine.change # c
    BY <1>4 DEF Awaited, Fitting, Waiting, Patching, Busy
  <2> QED
    BY <1>4, <2>1 DEF Awaited, Fitting, Patching, Busy, Doing
<1> QED
  BY <1>1, <1>2, <1>3, <1>4

(* A change that is announced reaches the page one way or another          *)
(* (EveryChangeReaches).                                                   *)
LEMMA AnnounceKeepsReached ==
  ASSUME Sound, Reached, NEW c \in Changes, Announce(c)
  PROVE  Reached'
<1> USE TaskPageAssumption DEF Sound, PageTypeOK
<1> SUFFICES ASSUME NEW k \in Shown, k \notin doubt'
             PROVE  (Told(k) \/ Current(k) \/ Awaited(k) \/ Fitting(k) \/ Coming(k))'
  BY DEF Reached
<1> DEFINE kind == kindOf[c]
           own == mine.change = c
<1>1. /\ UnderWay(c) /\ Written(c) = Touched(kind) /\ stage' = [stage EXCEPT ![c] = "announced"]
      /\ UNCHANGED <<content, rowOf, kindOf, subscribed, at, got, shown, twice>>
      /\ k \notin doubt /\ k \notin Missed(Untold(kind, own))
      /\ ~own => mine' = mine
  BY DEF Announce, fetch
<1>2. kind \in AllKinds
  BY <1>1 DEF Rows, Made, UnderWay
<1>3. own => /\ mine'.at = mine.at /\ mine'.change = c /\ mine'.raced = mine.raced
             /\ mine'.alone = (Touched(kind) \intersect Shown) \ Heard(kind)
             /\ Busy
  <2> SUFFICES ASSUME own
               PROVE  /\ mine'.at = mine.at /\ mine'.change = c /\ mine'.raced = mine.raced
                      /\ mine'.alone = (Touched(kind) \intersect Shown) \ Heard(kind)
                      /\ Busy
    OBVIOUS
  <2>1. mine' = [mine EXCEPT !.alone = (Touched(kind) \intersect Shown) \ Heard(kind)]
    BY DEF Announce
  <2>2. Busy
    BY DEF Waiting, Idle
  <2> QED
    BY <2>1, <2>2
<1>4. Told(k) \/ k \in Heard(kind) => Told(k)'
  <2>1. CASE Heard(kind) = {}
    BY <2>1 DEF Announce, Told
  <2>2. CASE Heard(kind) # {}
    <3>1. events' = Append(events, Heard(kind)) /\ Heard(kind) \in SUBSET Shown
      BY <2>2 DEF Announce, Heard
    <3> QED
      BY <3>1, ToldOfMore
  <2> QED
    BY <2>1, <2>2
<1> HIDE DEF kind
<1>5. CASE k \in Heard(kind)
  BY <1>4, <1>5
<1>6. CASE k \in Untold(kind, own)
  BY <1>1, <1>6 DEF Missed, Current
<1>7. CASE k \in Touched(kind) /\ own /\ k \notin Heard(kind) /\ k \in Refreshed(kind)
  BY <1>1, <1>3, <1>7 DEF Awaited, Busy, Doing, kind
<1>8. CASE k \in Touched(kind) /\ own /\ k \notin Heard(kind) /\ Patching(k)
  BY <1>1, <1>3, <1>8 DEF Fitting, Patching
<1>9. CASE k \notin Touched(kind)
  <2>1. Doing \in RowKinds /\ k = "checklists" => ~own
    BY <1>2, <1>9, RowTouch DEF Doing, kind
  <2>2. /\ stage' = [stage EXCEPT ![c] = "announced"] /\ UNCHANGED <<content, kindOf, at, got, shown, twice>>
        /\ k \notin doubt /\ k \notin Written(c) /\ UnderWay(c)
        /\ mine.change # c => mine' = mine
    BY <1>1, <1>9
  <2> HIDE DEF Sound, PageTypeOK, own
  <2> QED
    BY <1>4, <2>1, <2>2, OthersGoOn DEF own
<1> QED
  BY <1>2, <1>5, <1>6, <1>7, <1>8, <1>9, EveryChangeReaches

(* One that failed leaves in doubt whatever misses it.                     *)
LEMMA FailKeepsReached ==
  ASSUME Sound, Reached, NEW c \in Changes, Fail(c)
  PROVE  Reached'
<1> USE TaskPageAssumption DEF Sound, PageTypeOK
<1> SUFFICES ASSUME NEW k \in Shown, k \notin doubt'
             PROVE  (Told(k) \/ Current(k) \/ Awaited(k) \/ Fitting(k) \/ Coming(k))'
  BY DEF Reached
<1>1. /\ UnderWay(c) /\ stage' = [stage EXCEPT ![c] = "failed"]
      /\ UNCHANGED <<content, rowOf, kindOf, subscribed, events, at, got, shown, twice>>
      /\ k \notin doubt /\ k \notin Missed(Written(c))
      /\ mine.change # c => mine' = mine
  BY DEF Fail, fetch
<1>2. CASE k \in Written(c)
  BY <1>1, <1>2 DEF Missed, Current
<1>3. CASE k \notin Written(c)
  <2>1. Told(k) => Told(k)'
    BY <1>1 DEF Told
  <2>2. Doing \in RowKinds /\ k = "checklists" => mine.change # c
    <3>1. kindOf[c] \in AllKinds
      BY <1>1 DEF Rows, Made, UnderWay
    <3> QED
      BY <1>3, <3>1, RowTouch DEF Doing, Written
  <2> QED
    BY <1>1, <1>3, <2>1, <2>2, OthersGoOn
<1> QED
  BY <1>2, <1>3

(* The list before a change of its own, and the list the answer will make  *)
(* of it.                                                                  *)
LEMMA WriteKeepsFit ==
  ASSUME Sound, Reached, PatchFits,
         NEW c \in Changes, NEW r \in Changes, NEW kind \in Kinds, NEW own \in BOOLEAN,
         Write(c, kind, r, own)
  PROVE  PatchFits'
<1> USE TaskPageAssumption
<1> SUFFICES ASSUME Patching("checklists")', "checklists" \notin doubt', ~Told("checklists")',
                    ~Another("checklists")'
             PROVE  Behind'
  BY DEF PatchFits
<1> DEFINE cached == shown["checklists"]
           now == content["checklists"]
<1>1. /\ stage[c] = "new" /\ stage' = [stage EXCEPT ![c] = "written"]
      /\ kindOf' = [kindOf EXCEPT ![c] = kind] /\ rowOf' = [rowOf EXCEPT ![c] = r]
      /\ UNCHANGED <<subscribed, events, at, got, shown, twice, doubt>>
  BY DEF Write, fetch
<1>2. /\ "checklists" \notin doubt /\ ~Told("checklists") /\ at["checklists"] = "idle"
  BY <1>1 DEF Told, Patching
<1>3. c \notin Made /\ kind \in AllKinds /\ kindOf'[c] = kind /\ rowOf'[c] = r
  BY <1>1 DEF Made, Sound, PageTypeOK
<1>4. \A d \in Made : rowOf'[d] = rowOf[d] /\ kindOf'[d] = kindOf[d]
                      /\ (UnderWay(d) <=> UnderWay(d)') /\ Written(d)' = Written(d)
  <2>1. \A d \in Made : rowOf'[d] = rowOf[d] /\ kindOf'[d] = kindOf[d] /\ stage'[d] = stage[d]
    BY <1>1, <1>3 DEF Made, Sound, PageTypeOK
  <2> QED
    BY <2>1, SameRequest
<1>5. UnderWay(c)' /\ (kind \in RowKinds => "checklists" \in Written(c)')
  BY <1>1, <1>3, RowTouch DEF UnderWay, Written, Sound, PageTypeOK, Touched
<1>6. \A d \in Changes : UnderWay(d) => d \in Made
  BY DEF UnderWay, Made
<1>7. CASE ~own
  <2>1. mine' = mine /\ Busy /\ mine.change \in Made
    <3>1. mine' = mine
      BY <1>7 DEF Write
    <3> QED
      BY <3>1 DEF Patching, Busy, Sound, Waiting
  <2>2. kind \notin RowKinds
    BY <1>3, <1>5, <2>1 DEF Another
  <2>3. kindOf[mine.change] \in RowKinds /\ "checklists" \in Shown
    BY <1>4, <2>1 DEF Patching, Sound, Rows
  <2>4. content'["checklists"] = now
    BY <1>3, <2>2, <2>3, RowTouch DEF Write
  <2>5. ~Another("checklists")
    BY <1>4, <1>6, <2>1 DEF Another
  <2>6. Behind
    BY <1>1, <1>2, <1>4, <2>1, <2>5 DEF PatchFits, Patching, Busy
  <2>7. Doing' = Doing /\ Target' = Target
    BY <1>4, <2>1 DEF Doing, Target
  <2> QED
    BY <1>1, <1>4, <2>1, <2>3, <2>4, <2>6, <2>7, SameBehind
<1>8. CASE own
  <2>1. /\ mine = Idle
        /\ mine' = [at |-> "working", change |-> c, dto |-> {}, alone |-> {}, raced |-> FALSE]
    BY <1>8, BusyTypes DEF Write
  <2>2. kind \in RowKinds /\ Doing' = kind /\ Target' = r /\ "checklists" \in Shown
    BY <1>3, <2>1 DEF Patching, Doing, Target
  <2>3. cached = now /\ twice = {}
    <3>1. ~Coming("checklists")
      BY <1>3, <1>4, <1>6, <2>1 DEF Another, Coming
    <3>2. Current("checklists")
      BY <1>2, <2>1, <2>2, <3>1, IdleTypes DEF Reached, Awaited, Fitting, Patching, Busy
    <3> QED
      BY <1>2, <3>2 DEF Current
  <2>4. now \subseteq Made /\ now \subseteq Changes /\ c \notin now /\ \A d \in now : rowOf'[d] = rowOf[d]
    BY <1>3, <1>4, <2>2 DEF Sound, PageTypeOK, Rows
  <2>5. "checklists" \in Touched(kind) \ {"activity"}
    BY <1>3, <2>2, RowTouch
  <2> HIDE DEF cached
  <2>6. CASE kind = "add"
    <3>1. r = c /\ content'["checklists"] = now \union {c}
      BY <2>2, <2>5, <2>6 DEF Write
    <3>2. \A d \in now : rowOf[d] # c
      BY <1>3, <2>4 DEF Sound, Rows
    <3>3. r \notin RowsIn(cached)' /\ r \in RowsIn(now)'
      BY <1>1, <1>3, <2>3, <2>4, <3>1, <3>2 DEF RowsIn, cached
    <3>4. (now \ Row(r, now) = cached \ Row(r, cached))'
      BY <1>1, <1>3, <2>3, <2>4, <3>1 DEF Row, cached
    <3> QED
      BY <1>1, <2>1, <2>2, <2>3, <2>6, <3>3, <3>4 DEF Behind, cached
  <2>7. CASE kind = "edit"
    <3>1. r \in RowsIn(now) /\ content'["checklists"] = now \union {c}
      BY <2>2, <2>5, <2>7 DEF Write
    <3>2. r \in RowsIn(cached)' /\ r \in RowsIn(now)'
      BY <1>1, <1>3, <2>3, <2>4, <3>1 DEF RowsIn, cached
    <3>3. (now \ Row(r, now) = cached \ Row(r, cached))'
      BY <1>1, <1>3, <2>3, <2>4, <3>1 DEF Row, cached
    <3> QED
      BY <1>1, <2>1, <2>2, <2>3, <2>7, <3>2, <3>3 DEF Behind, cached
  <2>8. CASE kind = "drop"
    <3>1. content'["checklists"] = now \ Row(r, now)
      BY <2>2, <2>5, <2>8 DEF Write
    <3>2. r \notin RowsIn(now)'
      BY <2>4, <3>1 DEF RowsIn, Row
    <3>3. (now \ Row(r, now) = cached \ Row(r, cached))'
      BY <1>1, <2>3, <2>4, <3>1 DEF Row, cached
    <3> QED
      BY <1>1, <2>1, <2>2, <2>3, <2>8, <3>2, <3>3 DEF Behind, cached
  <2> QED
    BY <2>2, <2>6, <2>7, <2>8 DEF RowKinds
<1> QED
  BY <1>7, <1>8

(* A request that is announced or fails takes nothing from the list; what  *)
(* the page misses of another's is in doubt.                               *)
LEMMA RequestKeepsFit ==
  ASSUME Sound, PatchFits, NEW c \in Changes, Record(c) \/ Announce(c) \/ Fail(c)
  PROVE  PatchFits'
<1> USE TaskPageAssumption DEF Sound, PageTypeOK
<1> SUFFICES ASSUME Patching("checklists")', "checklists" \notin doubt', ~Told("checklists")',
                    ~Another("checklists")'
             PROVE  Behind'
  BY DEF PatchFits
<1>1. /\ UnderWay(c) /\ UNCHANGED <<rowOf, kindOf, subscribed, at, got, shown, twice>>
      /\ doubt \subseteq doubt'
      /\ \E where \in {"recorded", "announced", "failed"} : stage' = [stage EXCEPT ![c] = where]
  BY DEF Record, Announce, Fail, UnderWay, fetch
<1>2. /\ Busy /\ Rowing /\ Patching("checklists")
      /\ mine'.at = mine.at /\ mine'.change = mine.change /\ mine'.dto = mine.dto
  <2>1. mine' # Idle
    BY IdleTypes DEF Patching
  <2>2. /\ mine'.at = mine.at /\ mine'.change = mine.change /\ mine'.dto = mine.dto
        /\ mine'.raced = mine.raced
    <3>1. mine' = mine \/ \E x : mine' = [mine EXCEPT !.alone = x]
      BY <2>1 DEF Record, Announce, Fail
    <3> QED
      BY <3>1
  <2> QED
    BY <1>1, <2>2 DEF Patching, Busy, Rowing, Doing
<1>3. "checklists" \in Shown /\ kindOf[c] \in AllKinds
  BY <1>1, <1>2 DEF Waiting, Rows, Made, UnderWay, Rowing, Doing
<1>4. content'["checklists"] = content["checklists"]
  BY <1>3 DEF Record, Announce, Fail
<1>5. ~Told("checklists")
  <2>1. Told("checklists") => Told("checklists")'
    <3>1. CASE events' = events
      BY <3>1 DEF Told
    <3>2. CASE events' # events
      <4>1. events' = Append(events, Heard(kindOf[c])) /\ Heard(kindOf[c]) \in SUBSET Shown
        BY <3>2 DEF Record, Announce, Fail, Heard
      <4> QED
        BY <4>1, ToldOfMore
    <3> QED
      BY <3>1, <3>2
  <2> QED
    BY <2>1
<1>6. ~Another("checklists")
  <2> SUFFICES ASSUME NEW d \in Changes \ {mine.change}, UnderWay(d), "checklists" \in Written(d)
               PROVE  FALSE
    BY DEF Another
  <2>1. CASE d # c
    <3>1. UnderWay(d)' /\ Written(d)' = Written(d)
      BY <1>1, <2>1, SameRequest
    <3> QED
      BY <1>2, <3>1 DEF Another
  <2>2. CASE d = c
    <3>1. CASE Record(c)
      <4>1. UnderWay(c)' /\ "checklists" \in Written(c)'
        BY <2>2, <3>1 DEF Record, UnderWay, Written, Touched
      <4> QED
        BY <1>2, <2>2, <4>1 DEF Another
    <3>2. CASE Fail(c)
      BY <1>2, <1>3, <2>2, <3>2 DEF Fail, Missed
    <3>3. CASE Announce(c)
      <4>1. kindOf[c] \in RowKinds
        BY <1>3, <2>2, RowTouch DEF Written
      <4>2. CASE subscribed
        <5>1. "checklists" \in Heard(kindOf[c]) /\ Heard(kindOf[c]) \in SUBSET Shown
          BY <1>3, <4>1, <4>2 DEF Heard, Announced, TaskEvent, RowKinds
        <5>2. events' = Append(events, Heard(kindOf[c]))
          BY <3>3, <5>1 DEF Announce
        <5> QED
          BY <5>1, <5>2, ToldOfMore
      <4>3. CASE ~subscribed
        <5>1. "checklists" \in Untold(kindOf[c], FALSE)
          BY <2>2, <4>3 DEF Untold, Written
        <5>2. doubt' = doubt \union Missed(Untold(kindOf[c], mine.change = c)) /\ (mine.change = c) = FALSE
          BY <2>2, <3>3 DEF Announce
        <5> QED
          BY <1>2, <1>3, <5>1, <5>2 DEF Missed
      <4> QED
        BY <4>2, <4>3
    <3> QED
      BY <3>1, <3>2, <3>3
  <2> QED
    BY <2>1, <2>2
<1>7. Behind
  BY <1>1, <1>2, <1>5, <1>6 DEF PatchFits
<1>8. Doing' = Doing /\ Target' = Target
  BY <1>1, <1>2 DEF Doing, Target
<1> HIDE DEF Sound, PageTypeOK
<1> QED
  BY <1>1, <1>2, <1>3, <1>4, <1>7, <1>8, SameBehind

(* The answer to a change of the list makes the cached list what the       *)
(* server has.                                                             *)
LEMMA PatchIsExact ==
  ASSUME Sound, Behind, Rowing, mine.at = "answer"
  PROVE  Patched(mine) = content["checklists"] /\ PatchedTwice(mine) = {}
<1> USE DEF Doing, Target
<1> DEFINE r == Target
           now == content["checklists"]
           cached == shown["checklists"]
<1>1. now \ Row(r, now) = cached \ Row(r, cached) /\ Row(r, now) \subseteq now
  BY DEF Behind, Row
<1>2. CASE Doing = "add"
  <2>1. Row(r, cached) = {} /\ mine.dto = Row(r, now)
    BY <1>2 DEF Behind, Row, RowsIn
  <2> QED
    BY <1>1, <1>2, <2>1 DEF Patched, PatchedTwice, Behind
<1>3. CASE Doing = "edit"
  <2>1. r \in RowsIn(cached) /\ mine.dto = Row(r, now)
    BY <1>3 DEF Behind
  <2> QED
    BY <1>1, <1>3, <2>1 DEF Patched, PatchedTwice, Behind
<1>4. CASE Doing = "drop"
  <2>1. Row(r, now) = {}
    BY <1>4 DEF Behind, Row, RowsIn
  <2> QED
    BY <1>1, <1>4, <2>1 DEF Patched, PatchedTwice, Behind
<1> QED
  BY <1>2, <1>3, <1>4 DEF Rowing, RowKinds

(* What is asked for again comes, and the rest stays as it was.            *)
LEMMA InvalidateReaches ==
  ASSUME Sound, NEW ks, Invalidate(ks), UNCHANGED content,
         NEW k \in Shown, k \notin Joined(ks),
         k \in ks \/ Current(k),
         at'[k] = "idle" => shown'[k] = shown[k] /\ (k = "checklists" => twice' = twice)
  PROVE  Current(k)'
<1> USE DEF Sound, PageTypeOK
<1>1. IF Asks(k, ks) THEN at'[k] = "asked" ELSE at'[k] = at[k] /\ got'[k] = got[k]
  BY InvalidateTypes
<1>2. CASE Asks(k, ks)
  BY <1>1, <1>2 DEF Current
<1>3. CASE ~Asks(k, ks) /\ k \in ks
  BY <1>1, <1>3 DEF Asks, Joined, Current
<1>4. CASE ~Asks(k, ks) /\ Current(k)
  BY <1>1, <1>4 DEF Current
<1> QED
  BY <1>2, <1>3, <1>4

(* onSuccess: what the page waited for is asked for again or patched in.   *)
LEMMA ReceiveReaches ==
  ASSUME Sound, Reached, PatchFits, Receive
  PROVE  Reached'
<1> USE DEF Sound, PageTypeOK
<1> SUFFICES ASSUME NEW k \in Shown, k \notin doubt'
             PROVE  Told(k)' \/ Current(k)' \/ Coming(k)'
  BY DEF Reached
<1> DEFINE ks == Refreshed(Doing)
<1>1. /\ mine.at = "answer" /\ UNCHANGED <<content, rowOf, kindOf, stage, events>> /\ Invalidate(ks)
      /\ k \notin doubt /\ k \notin Joined(ks \intersect Shown)
      /\ ~(k = "checklists" /\ Doing \in RowKinds /\ mine.raced)
      /\ IF Doing \in RowKinds
           THEN shown' = [shown EXCEPT !["checklists"] = Patched(mine)] /\ twice' = PatchedTwice(mine)
           ELSE UNCHANGED <<shown, twice>>
  BY DEF Receive, stored, Doing
<1> HIDE DEF ks
<1>2. (Told(k)' <=> Told(k)) /\ (Coming(k)' <=> Coming(k))
  BY <1>1 DEF Told, Coming, UnderWay, Written, Touched
<1>3. k \notin Joined(ks)
  BY <1>1 DEF Joined
<1>4. Told(k) \/ Current(k) \/ Awaited(k) \/ Fitting(k) \/ Coming(k)
  BY <1>1 DEF Reached
<1>5. CASE ~(k = "checklists" /\ Doing \in RowKinds)
  <2>1. shown'[k] = shown[k] /\ (k = "checklists" => twice' = twice)
    BY <1>1, <1>5
  <2>2. Current(k) \/ k \in ks \/ Told(k) \/ Coming(k)
    BY <1>4, <1>5 DEF Awaited, Fitting, Patching, Doing, ks
  <2> QED
    BY <1>1, <1>2, <1>3, <2>1, <2>2, InvalidateReaches
<1>6. CASE k = "checklists" /\ Doing \in RowKinds
  <2>1. k \notin ks
    BY <1>6 DEF ks, Refreshed, Checklists, RowKinds
  <2>2. at'[k] = at[k] /\ got'[k] = got[k]
    BY <1>1, <2>1, InvalidateTypes DEF Asks
  <2>3. CASE at[k] = "idle" /\ ~Told(k) /\ ~Coming(k)
    <3>1. Patching("checklists") /\ Rowing
      BY <1>1, <1>6, <2>3 DEF Patching, Rowing, Busy, Doing
    <3>2. ~Another("checklists")
      BY <1>6, <2>3 DEF Another, Coming
    <3>3. Behind
      BY <1>1, <1>6, <2>3, <3>1, <3>2 DEF PatchFits
    <3>4. Patched(mine) = content["checklists"] /\ PatchedTwice(mine) = {}
      BY <1>1, <3>1, <3>3, PatchIsExact
    <3>5. shown'[k] = content[k] /\ twice' = {}
      BY <1>1, <1>6, <3>4
    <3> QED
      BY <1>1, <2>2, <2>3, <3>5 DEF Current
  <2>4. CASE at[k] # "idle" /\ ~Told(k) /\ ~Coming(k)
    <3>1. Current(k)
      BY <1>4, <1>6, <2>1, <2>4 DEF Awaited, Fitting, Patching, ks
    <3> QED
      BY <1>1, <2>2, <2>4, <3>1 DEF Current
  <2> QED
    BY <1>2, <2>3, <2>4
<1> QED
  BY <1>5, <1>6

(* No handler of the page loses what was on its way.                       *)
LEMMA StepKeepsReached ==
  ASSUME Sound, Reached, PatchFits, [PageNext]_pageVars
  PROVE  Reached'
<1> USE DEF Sound, PageTypeOK
<1>1. ASSUME UNCHANGED <<kindOf, stage>>
      PROVE  \A k \in Shown : Coming(k) => Coming(k)'
  BY <1>1 DEF Coming, UnderWay, Written, Touched
<1>2. ASSUME UNCHANGED <<content, kindOf, stage>>,
             mine'.at = mine.at \/ (mine.at = "working" /\ mine'.at = "answer"),
             mine'.change = mine.change, mine'.alone = mine.alone
      PROVE  \A k \in Shown :
               /\ at'[k] = at[k] /\ got'[k] = got[k] /\ shown'[k] = shown[k]
                    /\ (k = "checklists" => twice' = twice) /\ Current(k) => Current(k)'
               /\ Awaited(k) => Awaited(k)'
               /\ at'[k] = at[k] /\ (k = "checklists" => mine'.raced = mine.raced) /\ Fitting(k) => Fitting(k)'
  BY <1>2 DEF Current, Awaited, Fitting, Patching, Busy, Doing
<1>3. CASE UNCHANGED pageVars
  <2>1. UNCHANGED <<content, kindOf, stage, events, at, got, shown, twice, mine, doubt>>
    BY <1>3 DEF pageVars, stored, fetch
  <2> QED
    BY <1>1, <1>2, <2>1 DEF Reached, Told
<1>4. CASE Answer
  <2>1. UNCHANGED <<content, kindOf, stage, events, at, got, shown, twice, doubt>> /\ mine.at = "working"
    BY <1>4 DEF Answer, stored, fetch
  <2>2. /\ mine'.at = "answer" /\ mine'.change = mine.change
        /\ mine'.alone = mine.alone /\ mine'.raced = mine.raced
    <3>1. mine' = [mine EXCEPT !.at = "answer"] \/ \E d : mine' = [mine EXCEPT !.at = "answer", !.dto = d]
      BY <1>4 DEF Answer
    <3> QED
      BY <3>1
  <2> QED
    BY <1>1, <1>2, <2>1, <2>2 DEF Reached, Told
<1>5. CASE Deliver
  <2>1. /\ UNCHANGED <<content, kindOf, stage, shown, twice, mine>> /\ Invalidate(Head(events))
        /\ events # <<>> /\ events' = Tail(events)
        /\ doubt' = doubt \union Joined(Head(events))
    BY <1>5 DEF Deliver, stored
  <2> SUFFICES ASSUME NEW k \in Shown, k \notin doubt'
               PROVE  (Told(k) \/ Current(k) \/ Awaited(k) \/ Fitting(k) \/ Coming(k))'
    BY DEF Reached
  <2>2. Told(k) \/ Current(k) \/ Awaited(k) \/ Fitting(k) \/ Coming(k)
    BY <2>1 DEF Reached
  <2>3. CASE k \in Head(events) \/ Current(k)
    BY <2>1, <2>3, InvalidateReaches
  <2>4. CASE Told(k) /\ k \notin Head(events)
    BY <2>1, <2>4, ToldOfLess
  <2>5. CASE Awaited(k) \/ Coming(k)
    BY <1>1, <1>2, <2>1, <2>5
  <2>6. CASE Fitting(k) /\ k \notin Head(events)
    <3>1. at'[k] = at[k]
      BY <2>1, <2>6, InvalidateTypes DEF Asks
    <3> QED
      BY <1>2, <2>1, <2>6, <3>1
  <2> QED
    BY <2>2, <2>3, <2>4, <2>5, <2>6
<1>6. CASE Focus
  <2>1. /\ UNCHANGED <<content, kindOf, stage, events, got, shown, twice, mine, doubt>>
        /\ at' = [k \in Shown |-> IF at[k] = "idle" THEN "asked" ELSE at[k]]
    BY <1>6 DEF Focus, stored
  <2>2. \A k \in Shown : /\ Told(k) => Told(k)'
                         /\ Current(k) => Current(k)'
                         /\ Fitting(k) => Current(k)'
    BY <2>1 DEF Told, Current, Fitting, Patching
  <2> QED
    BY <1>1, <1>2, <2>1, <2>2 DEF Reached
<1>7. CASE AnswerLost
  <2>1. /\ UNCHANGED <<content, kindOf, stage, events, at, got, shown, twice>>
        /\ mine' = Idle /\ doubt' = doubt \union Missed(mine.alone)
    BY <1>7 DEF AnswerLost, stored, fetch
  <2>2. \A k \in Shown : /\ Told(k) => Told(k)'
                         /\ Current(k) => Current(k)'
                         /\ Awaited(k) \/ Fitting(k) => k \in doubt' \/ Current(k)
    BY <2>1 DEF Told, Current, Awaited, Fitting, Missed
  <2> QED
    BY <1>1, <2>1, <2>2 DEF Reached
<1>8. CASE Attach
  <2>1. UNCHANGED <<content, kindOf, stage, events, at, got, shown, twice, mine, doubt>>
    BY <1>8 DEF Attach, stored, fetch
  <2> QED
    BY <1>1, <1>2, <2>1 DEF Reached, Told
<1>9. CASE Detach
  <2>1. /\ UNCHANGED <<content, kindOf, stage, at, got, shown, twice, mine>>
        /\ doubt' = doubt \union UNION {events[i] : i \in 1..Len(events)}
    BY <1>9 DEF Detach, stored, fetch
  <2>2. \A k \in Shown : Told(k) => k \in doubt'
    BY <2>1 DEF Told
  <2> QED
    BY <1>1, <1>2, <2>1, <2>2 DEF Reached
<1>10. ASSUME NEW q \in Shown, FetchRead(q) \/ FetchFails(q)
       PROVE  Reached'
  <2>1. UNCHANGED <<content, kindOf, stage, events, shown, twice, mine>>
    BY <1>10 DEF FetchRead, FetchFails, stored
  <2>2. /\ \A k \in Shown \ {q} : at'[k] = at[k] /\ got'[k] = got[k] /\ (k \in doubt => k \in doubt')
        /\ q \in doubt' \/ (at'[q] = "read" /\ got'[q] = content[q])
    BY <1>10 DEF FetchRead, FetchFails
  <2>3. \A k \in Shown : Told(k) => Told(k)'
    BY <2>1 DEF Told
  <2>4. q \in doubt' \/ Current(q)'
    BY <2>1, <2>2 DEF Current
  <2> QED
    BY <1>1, <1>2, <2>1, <2>2, <2>3, <2>4 DEF Reached
<1>11. ASSUME NEW q \in Shown, FetchArrives(q)
       PROVE  Reached'
  <2>1. /\ UNCHANGED <<content, kindOf, stage, events, doubt>>
        /\ at[q] = "read" /\ at'[q] = "idle" /\ shown'[q] = got[q]
        /\ q = "checklists" => twice' = {}
        /\ \A k \in Shown \ {q} : /\ at'[k] = at[k] /\ got'[k] = got[k] /\ shown'[k] = shown[k]
                                  /\ k = "checklists" => twice' = twice
    BY <1>11 DEF FetchArrives, stored
  <2>2. /\ mine'.at = mine.at /\ mine'.change = mine.change /\ mine'.alone = mine.alone
        /\ q # "checklists" => mine'.raced = mine.raced
    <3>1. mine' = [mine EXCEPT !.raced = @ \/ (q = "checklists" /\ mine # Idle)]
      BY <1>11 DEF FetchArrives
    <3> QED
      BY <3>1
  <2>3. \A k \in Shown : Told(k) => Told(k)'
    BY <2>1 DEF Told
  <2>4. ~Fitting(q) /\ (Current(q) => Current(q)')
    BY <2>1 DEF Current, Fitting, Patching
  <2>5. \A k \in Shown : Fitting(k) => k = "checklists"
    BY DEF Fitting, Patching
  <2> QED
    BY <1>1, <1>2, <2>1, <2>2, <2>3, <2>4, <2>5 DEF Reached
<1> QED
  BY <1>3, <1>4, <1>5, <1>6, <1>7, <1>8, <1>9, <1>10, <1>11, ReceiveReaches, WriteKeepsReached,
     RecordKeepsReached, AnnounceKeepsReached, FailKeepsReached DEF PageNext

(* The list the page keeps while it waits for the answer.                  *)
LEMMA FitCarries ==
  ASSUME PatchFits, UNCHANGED <<content, rowOf, kindOf, stage, shown>>,
         Patching("checklists")' => /\ Patching("checklists") /\ twice' = twice
                                   /\ mine'.change = mine.change /\ mine'.dto = mine.dto /\ mine'.at = mine.at,
         Patching("checklists")' /\ "checklists" \notin doubt' /\ ~Told("checklists")' =>
           "checklists" \notin doubt /\ ~Told("checklists")
  PROVE  PatchFits'
<1> SUFFICES ASSUME Patching("checklists")', "checklists" \notin doubt', ~Told("checklists")',
                    ~Another("checklists")'
             PROVE  Behind'
  BY DEF PatchFits
<1>1. mine'.change = mine.change /\ ~Another("checklists")
  BY DEF Another, UnderWay, Written, Touched
<1>2. Behind /\ UNCHANGED <<content, rowOf, kindOf, shown, twice>>
      /\ mine'.change = mine.change /\ mine'.dto = mine.dto /\ mine'.at = mine.at
  BY <1>1 DEF PatchFits
<1> QED
  BY <1>2 DEF Behind, Row, RowsIn, Doing, Target

(* Until its answer is there, a list that waits to be patched lacks        *)
(* nothing else.                                                           *)
LEMMA StepKeepsFit ==
  ASSUME Sound, Reached, PatchFits, [PageNext]_pageVars
  PROVE  PatchFits'
<1> USE DEF Sound, PageTypeOK
<1>1. ASSUME UNCHANGED <<content, rowOf, kindOf, stage, shown, twice, mine>>,
             at'["checklists"] = "idle" /\ Rowing => at["checklists"] = "idle",
             at'["checklists"] = "idle" /\ Rowing /\ "checklists" \notin doubt' /\ ~Told("checklists")' =>
               "checklists" \notin doubt /\ ~Told("checklists")
      PROVE  PatchFits'
  <2>1. Patching("checklists")' => Rowing /\ at'["checklists"] = "idle"
    BY <1>1 DEF Patching, Rowing, Busy, Doing
  <2>2. Patching("checklists")' => Patching("checklists")
    BY <1>1, <2>1 DEF Patching
  <2> QED
    BY <1>1, <2>1, <2>2, FitCarries
<1>2. CASE UNCHANGED pageVars
  BY <1>1, <1>2 DEF pageVars, stored, fetch, Told
<1>3. ASSUME mine' = Idle
      PROVE  PatchFits'
  BY <1>3, IdleTypes DEF PatchFits, Patching
<1>4. Rowing => "checklists" \in Shown
  BY TaskPageAssumption DEF Rowing, Busy, Waiting, Doing, Rows
<1>5. CASE Answer
  <2>1. UNCHANGED <<content, rowOf, kindOf, stage, events, at, got, shown, twice, doubt>>
    BY <1>5 DEF Answer, stored, fetch
  <2>2. /\ mine'.at = "answer" /\ mine.at = "working" /\ mine'.change = mine.change /\ mine'.raced = mine.raced
        /\ Doing \in {"add", "edit"} => mine'.dto = Row(Target, content["checklists"])
    <3>1. CASE Doing \in {"add", "edit"}
      <4>1. mine' = [mine EXCEPT !.at = "answer", !.dto = Row(Target, content["checklists"])]
        BY <1>5, <3>1 DEF Answer, Doing, Target
      <4> QED
        BY <1>5, <4>1 DEF Answer
    <3>2. CASE Doing \notin {"add", "edit"}
      <4>1. mine' = [mine EXCEPT !.at = "answer"]
        BY <1>5, <3>2 DEF Answer, Doing
      <4> QED
        BY <1>5, <3>2, <4>1 DEF Answer
    <3> QED
      BY <3>1, <3>2
  <2> SUFFICES ASSUME Patching("checklists")', "checklists" \notin doubt', ~Told("checklists")',
                      ~Another("checklists")'
               PROVE  Behind'
    BY DEF PatchFits
  <2>3. Behind
    BY <2>1, <2>2 DEF PatchFits, Patching, Told, Another, UnderWay, Written, Touched
  <2> QED
    BY <2>1, <2>2, <2>3 DEF Behind, Row, RowsIn, Doing, Target
<1>6. CASE Deliver
  <2>1. /\ UNCHANGED <<content, rowOf, kindOf, stage, shown, twice, mine>> /\ Invalidate(Head(events))
        /\ events # <<>> /\ events' = Tail(events)
        /\ doubt' = doubt \union Joined(Head(events))
    BY <1>6 DEF Deliver, stored
  <2>2. Rowing /\ at'["checklists"] = "idle" => at["checklists"] = "idle" /\ "checklists" \notin Head(events)
    BY <1>4, <2>1, InvalidateTypes DEF Asks
  <2> QED
    BY <1>1, <2>1, <2>2, ToldOfLess
<1>7. ASSUME NEW q \in Shown, FetchRead(q) \/ FetchFails(q)
      PROVE  PatchFits'
  <2>1. UNCHANGED <<content, rowOf, kindOf, stage, events, shown, twice, mine>>
    BY <1>7 DEF FetchRead, FetchFails, stored
  <2>2. CASE q = "checklists"
    <3>1. at'[q] = "read" \/ q \in doubt'
      BY <1>7 DEF FetchRead, FetchFails
    <3>2. CASE q \in doubt'
      BY <2>2, <3>2 DEF PatchFits
    <3>3. CASE at'[q] = "read"
      BY <2>2, <3>3 DEF PatchFits, Patching
    <3> QED
      BY <3>1, <3>2, <3>3
  <2>3. CASE q # "checklists"
    <3>1. Rowing => at'["checklists"] = at["checklists"]
      BY <1>4, <1>7, <2>3 DEF FetchRead, FetchFails
    <3>2. "checklists" \in doubt => "checklists" \in doubt'
      BY <1>7, <2>3 DEF FetchRead, FetchFails
    <3> QED
      BY <1>1, <2>1, <3>1, <3>2 DEF Told
  <2> QED
    BY <2>2, <2>3
<1>8. ASSUME NEW q \in Shown, FetchArrives(q)
      PROVE  PatchFits'
  <2>1. /\ mine' = [mine EXCEPT !.raced = @ \/ (q = "checklists" /\ mine # Idle)]
        /\ UNCHANGED <<content, rowOf, kindOf, stage, events, doubt>>
    BY <1>8 DEF FetchArrives, stored
  <2>2. CASE q = "checklists"
    <3>1. mine # Idle => mine'.raced
      BY <2>1, <2>2
    <3>2. mine = Idle => mine'.at = "none"
      BY <2>1, IdleTypes
    <3> QED
      BY <3>1, <3>2 DEF PatchFits, Patching
  <2>3. CASE q # "checklists"
    <3>1. /\ mine'.at = mine.at /\ mine'.change = mine.change
          /\ mine'.dto = mine.dto /\ mine'.raced = mine.raced
      BY <2>1, <2>3
    <3> SUFFICES ASSUME Patching("checklists")', "checklists" \notin doubt', ~Told("checklists")',
                        ~Another("checklists")'
                 PROVE  Behind'
      BY DEF PatchFits
    <3>2. "checklists" \in Shown
      BY <1>4, <2>1, <3>1 DEF Patching, Rowing, Busy, Doing
    <3>3. UNCHANGED twice /\ at'["checklists"] = at["checklists"] /\ shown'["checklists"] = shown["checklists"]
      BY <1>8, <2>3, <3>2 DEF FetchArrives
    <3>4. Behind
      BY <2>1, <3>1, <3>3 DEF PatchFits, Patching, Told, Another, UnderWay, Written, Touched
    <3> QED
      BY <2>1, <3>1, <3>3, <3>4 DEF Behind, Row, RowsIn, Doing, Target
  <2> QED
    BY <2>2, <2>3
<1>9. CASE Focus
  <2>1. /\ UNCHANGED <<content, rowOf, kindOf, stage, events, shown, twice, mine, doubt>>
        /\ at' = [k \in Shown |-> IF at[k] = "idle" THEN "asked" ELSE at[k]]
    BY <1>9 DEF Focus, stored
  <2>2. Rowing => at'["checklists"] # "idle"
    BY <1>4, <2>1
  <2> QED
    BY <1>1, <2>1, <2>2
<1>10. CASE Receive \/ AnswerLost
  BY <1>3, <1>10 DEF Receive, AnswerLost
<1>11. CASE Attach
  BY <1>1, <1>11 DEF Attach, stored, fetch, Told
<1>12. CASE Detach
  <2>1. /\ UNCHANGED <<content, rowOf, kindOf, stage, at, shown, twice, mine>>
        /\ doubt' = doubt \union UNION {events[i] : i \in 1..Len(events)}
    BY <1>12 DEF Detach, stored, fetch
  <2>2. "checklists" \notin doubt' => "checklists" \notin doubt /\ ~Told("checklists")
    BY <2>1 DEF Told
  <2> QED
    BY <1>1, <2>1, <2>2
<1> QED
  BY <1>2, <1>5, <1>6, <1>7, <1>8, <1>9, <1>10, <1>11, <1>12, WriteKeepsFit, RequestKeepsFit DEF PageNext

-----------------------------------------------------------------------------

(* The inductive invariant.                                                *)
PageInv == Sound /\ Reached /\ PatchFits

(* The page has just been opened: every query is being fetched.            *)
LEMMA InitPageInv ==
  ASSUME PageInit
  PROVE  PageInv
<1>1. Reached
  BY DEF PageInit, Reached, Current
<1>2. PatchFits
  BY IdleTypes DEF PageInit, PatchFits, Patching
<1> QED
  BY <1>1, <1>2, PageInitSound DEF PageInv

(* Every step of the page and of the server keeps the invariant.           *)
THEOREM PageInvariance == PageSpec => []PageInv
<1>1. PageInit => PageInv
  BY InitPageInv
<1>2. PageInv /\ [PageNext]_pageVars => PageInv'
  BY StepKeepsSound, StepKeepsReached, StepKeepsFit DEF PageInv
<1> QED
  BY <1>1, <1>2, PTL DEF PageSpec

(* The queries, the events and the mutation keep their types.              *)
THEOREM PageTyping == PageSpec => []PageTypeOK
<1>1. PageInv => PageTypeOK
  BY DEF PageInv, Sound
<1> QED
  BY <1>1, PageInvariance, PTL

(* Once no fetch, event or answer is under way, the page shows what the    *)
(* server has and no checklist twice, for every set of queries, any kinds  *)
(* of change and any number of them; unless the query is in doubt, that    *)
(* is, one of the races the model names hit it since it was last read.     *)
THEOREM PageConverges == PageSpec => []Converges
<1>1. PageInv => Converges
  <2> SUFFICES ASSUME PageInv, NEW k \in Shown \ doubt, Settled(k)
               PROVE  shown[k] = content[k] /\ (k = "checklists" => twice = {})
    BY DEF Converges
  <2>1. ~Busy
    BY IdleTypes DEF Settled, Busy
  <2>2. ~Told(k)
    BY EmptySeq DEF Settled, Told
  <2>3. Current(k)
    BY <2>1, <2>2 DEF PageInv, Reached, Awaited, Fitting, Patching, Busy, Settled, Coming
  <2> QED
    BY <2>3 DEF Current, Settled
<1> QED
  BY <1>1, PageInvariance, PTL
=============================================================================
