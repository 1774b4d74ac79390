------------------------- MODULE AuthSessionsProofs -------------------------
(***************************************************************************)
(* Proofs about sessions and token rotation, for any numbers of sessions,  *)
(* tokens and requests, with and without requests that die half-way.       *)
(***************************************************************************)
EXTENDS AuthSessions, TLAPS

(* Where a refresh that found its token dead can still be.                 *)
Refusing == {"successor", "killTokens", "killSession", "mark", "refused", "ended", "lost"}

(* Where a request works on the token it presented.                        *)
Presenting == {"successor", "issue", "create", "retire", "killTokens", "killSession", "mark"}

(* What the rows say of one another.                                       *)
Rows ==
  /\ \A t \in Tokens : Exists(t) => sess[t] \in sessions
  /\ \A t \in Tokens : parent[t] # None => Exists(t) /\ Exists(parent[t])
  /\ \A t, u \in Tokens : parent[t] # None /\ parent[t] = parent[u] => t = u
  /\ \A t \in delivered : Exists(t)

(* A session has at most one token without a successor.                    *)
OneLeaf ==
  \A t, u \in Tokens :
    /\ Exists(t) /\ ~HasSuccessor(t)
    /\ Exists(u) /\ ~HasSuccessor(u)
    /\ sess[t] = sess[u]
    => t = u

(* A login that has not inserted its token yet owns its session alone.     *)
Logins ==
  /\ \A r \in Requests :
       pc[r] = "firstToken" =>
         /\ target[r] \in sessions
         /\ tok[r] = None /\ made[r] = None
         /\ \A t \in Tokens : sess[t] # target[r]
  /\ \A q, r \in Requests :
       pc[q] = "firstToken" /\ pc[r] = "firstToken" /\ target[q] = target[r] => q = r

(* What a request knows of the token it presented and the one it created.  *)
Handles ==
  \A r \in Requests :
    /\ pc[r] = "idle" => tok[r] = None /\ made[r] = None
    /\ pc[r] \in Presenting => tok[r] # None
    /\ pc[r] \in {"successor", "issue", "create"} => made[r] = None
    /\ pc[r] \in {"retire", "reply"} => made[r] # None
    /\ tok[r] # None => Exists(tok[r]) /\ sess[tok[r]] = target[r]
    /\ made[r] # None => Exists(made[r]) /\ parent[made[r]] = tok[r]

(* No token was created by two requests.                                   *)
Creators == \A q, r \in Requests : made[q] # None /\ made[q] = made[r] => q = r

Late ==
  \A r \in late : made[r] = None /\ dead[r] /\ pc[r] \in Refusing

IInv == TypeOK /\ Rows /\ OneLeaf /\ Logins /\ Handles /\ Creators /\ Late

(* The empty tables satisfy the invariant.                                 *)
LEMMA InitIInv == Init => IInv
<1> SUFFICES ASSUME Init PROVE IInv
  OBVIOUS
<1>1. TypeOK
  BY DEF Init, TypeOK, Places, Modes
<1>2. Rows /\ OneLeaf
  BY DEF Init, Rows, OneLeaf, Exists
<1>3. Logins /\ Handles /\ Creators /\ Late
  BY DEF Init, Logins, Handles, Creators, Late, Presenting
<1> QED
  BY <1>1, <1>2, <1>3 DEF IInv

(* Most steps neither add rows nor change what a request holds: for them   *)
(* it is enough to look at where the request goes.  Only a request that    *)
(* has ended may have a new target.                                        *)
LEMMA QuietStep ==
  ASSUME IInv, TypeOK', UNCHANGED <<links, tok, made, dead, late>>,
         \A t \in delivered' : Exists(t),
         \A r \in Requests : target'[r] # target[r] => tok[r] = None /\ pc'[r] = "ended",
         \A r \in Requests :
           /\ pc'[r] = "firstToken" => pc[r] = "firstToken"
           /\ pc'[r] = "idle" => pc[r] = "idle"
           /\ pc'[r] \in Presenting => tok[r] # None
           /\ pc'[r] \in {"successor", "issue", "create"} => made[r] = None
           /\ pc'[r] \in {"retire", "reply"} => made[r] # None
           /\ r \in late => pc'[r] \in Refusing
  PROVE  IInv'
<1> USE DEF IInv, links
<1>1. Rows' /\ OneLeaf'
  BY DEF Rows, OneLeaf, Exists, HasSuccessor
<1>2. Logins'
  BY DEF Logins
<1>3. Handles' /\ Creators'
  BY DEF Handles, Creators, Exists
<1>4. Late'
  BY DEF Late, TypeOK
<1> QED
  BY <1>1, <1>2, <1>3, <1>4

(* A step of request r that only moves it on, and may revoke or mark rows. *)
LEMMA MoveStep ==
  ASSUME IInv, NEW r \in Requests, NEW place \in Places, Goto(r, place),
         UNCHANGED <<links, world, tok, late, made, dead>>,
         target' \in [Requests -> Sessions \union {None}],
         \A q \in Requests : target'[q] # target[q] => q = r /\ tok[q] = None /\ place = "ended",
         revoked' \subseteq Sessions \union Tokens, reused' \subseteq Tokens,
         mode' \in [Requests -> Modes],
         place \notin {"firstToken", "idle"},
         place \in Presenting => tok[r] # None,
         place \in {"successor", "issue", "create"} => made[r] = None,
         place \in {"retire", "reply"} => made[r] # None,
         r \in late => place \in Refusing
  PROVE  IInv'
<1>1. pc' \in [Requests -> Places] /\ \A q \in Requests : pc'[q] = IF q = r THEN place ELSE pc[q]
  BY DEF IInv, TypeOK, Goto
<1>2. TypeOK'
  BY <1>1 DEF IInv, TypeOK, links, world
<1>3. \A t \in delivered' : Exists(t)
  BY DEF IInv, Rows, world
<1>4. \A q \in Requests :
        /\ pc'[q] = "firstToken" => pc[q] = "firstToken"
        /\ pc'[q] = "idle" => pc[q] = "idle"
        /\ pc'[q] \in Presenting => tok[q] # None
        /\ pc'[q] \in {"successor", "issue", "create"} => made[q] = None
        /\ pc'[q] \in {"retire", "reply"} => made[q] # None
        /\ q \in late => pc'[q] \in Refusing
  BY <1>1 DEF IInv, Handles, Late
<1>5. \A q \in Requests : target'[q] # target[q] => tok[q] = None /\ pc'[q] = "ended"
  BY <1>1
<1> QED
  BY <1>2, <1>3, <1>4, <1>5, QuietStep

(* Steps that create no token: revocations, retirements, failures, checks. *)
LEMMA MovesKeepIInv ==
  ASSUME IInv, NEW r \in Requests,
         \/ FindSuccessor(r) \/ IssueSession(r) \/ RetireToken(r) \/ KillTokens(r)
         \/ KillSession(r) \/ MarkReused(r) \/ ResetSessions(r) \/ Fail(r)
         \/ \E s \in Sessions : LogoutAll(r, s)
  PROVE  IInv'
<1> USE DEF rows, links, world, request
<1>0. /\ revoked \subseteq Sessions \union Tokens /\ reused \subseteq Tokens
      /\ mode \in [Requests -> Modes] /\ sessions \subseteq Sessions
      /\ target \in [Requests -> Sessions \union {None}]
      /\ tok[r] \in Tokens \union {None} /\ target[r] \in Sessions \union {None}
      /\ r \in late => dead[r] /\ made[r] = None /\ pc[r] \in Refusing
      /\ pc[r] \in Presenting => tok[r] \in Tokens /\ tok[r] # None /\ target[r] \in Sessions
      /\ pc[r] \in {"successor", "issue", "create"} => made[r] = None
      /\ pc[r] \in {"retire", "reply"} => made[r] # None
  BY AuthAssumption DEF IInv, TypeOK, Late, Handles, Exists
<1>1. CASE FindSuccessor(r)
  <2>1. PICK place \in {"killTokens", "refused", "issue"} :
          Goto(r, place) /\ (place = "issue" => ~dead[r])
    BY <1>1 DEF FindSuccessor
  <2>2. mode' \in [Requests -> Modes]
    BY <1>0, <1>1 DEF FindSuccessor, Modes
  <2>3. place \in Places /\ (r \in late => place \in Refusing)
    BY <2>1, <1>0 DEF Places, Refusing
  <2>4. pc[r] = "successor" /\ UNCHANGED <<rows, world, tok, target, dead, late, made>>
    BY <1>1 DEF FindSuccessor
  <2> QED
    BY <1>0, <2>1, <2>2, <2>3, <2>4, MoveStep DEF Presenting
<1>2. CASE IssueSession(r)
  <2>1. PICK place \in {"refused", "create"} : Goto(r, place)
    BY <1>2 DEF IssueSession
  <2>2. pc[r] = "issue" /\ place \in Places /\ r \notin late
    BY <2>1, <1>0, <1>2 DEF IssueSession, Places, Refusing
  <2> QED
    BY <1>0, <1>2, <2>1, <2>2, MoveStep DEF IssueSession, Presenting
<1>3. CASE RetireToken(r)
  <2>1. pc[r] = "retire" /\ tok[r] # None /\ made[r] # None /\ r \notin late
    BY <1>0, <1>3 DEF RetireToken, Presenting, Refusing
  <2>2. revoked' \subseteq Sessions \union Tokens /\ "reply" \in Places
    BY <2>1, <1>0, <1>3 DEF RetireToken, Places
  <2> QED
    BY <1>0, <1>3, <2>1, <2>2, MoveStep DEF RetireToken, Presenting
<1>4. CASE KillTokens(r)
  <2>1. revoked' \subseteq Sessions \union Tokens /\ "killSession" \in Places
    BY <1>0, <1>4 DEF KillTokens, Places
  <2> QED
    BY <1>0, <1>4, <2>1, MoveStep DEF KillTokens, Refusing, Presenting
<1>5. CASE KillSession(r)
  <2>1. PICK place \in {"mark", "ended", "refused"} : Goto(r, place)
    BY <1>5 DEF KillSession
  <2>2. place \in Places /\ place \in Refusing
    BY <2>1 DEF Places, Refusing
  <2>3. revoked' \subseteq Sessions \union Tokens
    BY <1>0, <1>5 DEF KillSession, Presenting
  <2> QED
    BY <1>0, <1>5, <2>1, <2>2, <2>3, MoveStep DEF KillSession, Presenting
<1>6. CASE MarkReused(r)
  <2>1. reused' \subseteq Tokens /\ "refused" \in Places
    BY <1>0, <1>6 DEF MarkReused, Places, Presenting
  <2> QED
    BY <1>0, <1>6, <2>1, MoveStep DEF MarkReused, Refusing, Presenting
<1>7. CASE ResetSessions(r)
  <2>1. revoked' \subseteq Sessions \union Tokens /\ "ended" \in Places
    BY <1>0, <1>7 DEF ResetSessions, RevokeAllSessions, Places
  <2> QED
    BY <1>0, <1>7, <2>1, MoveStep DEF ResetSessions, RevokeAllSessions, Refusing, Presenting
<1>8. CASE Fail(r)
  BY <1>0, <1>8, MoveStep DEF Fail, Places, Refusing, Presenting
<1>9. CASE \E s \in Sessions : LogoutAll(r, s)
  <2>1. PICK s \in Sessions : LogoutAll(r, s)
    BY <1>9
  <2>2. /\ revoked' \subseteq Sessions \union Tokens /\ "ended" \in Places
        /\ mode' \in [Requests -> Modes]
    BY <1>0, <2>1 DEF LogoutAll, RevokeAllSessions, Places, Modes
  <2>3. /\ target' \in [Requests -> Sessions \union {None}]
        /\ \A q \in Requests : target'[q] # target[q] => q = r
        /\ tok[r] = None
    BY <2>1 DEF LogoutAll, RevokeAllSessions, IInv, TypeOK, Handles
  <2> QED
    BY <1>0, <2>1, <2>2, <2>3, MoveStep DEF LogoutAll, RevokeAllSessions, Refusing, Presenting
<1> QED
  BY <1>1, <1>2, <1>3, <1>4, <1>5, <1>6, <1>7, <1>8, <1>9

(* Time passes: a token or a session expires.                              *)
LEMMA ExpiryKeepsIInv ==
  ASSUME IInv, NEW x \in Sessions \union Tokens, Expires(x)
  PROVE  IInv'
<1>1. UNCHANGED <<rows, delivered, pc, request>> /\ expired' = expired \union {x}
  BY DEF Expires
<1>2. TypeOK'
  BY <1>1 DEF IInv, TypeOK, rows, request
<1>3. \A t \in delivered' : Exists(t)
  BY <1>1 DEF IInv, Rows
<1>4. \A r \in Requests :
        /\ pc'[r] \in Presenting => tok[r] # None
        /\ pc'[r] \in {"successor", "issue", "create"} => made[r] = None
        /\ pc'[r] \in {"retire", "reply"} => made[r] # None
        /\ r \in late => pc'[r] \in Refusing
  BY <1>1 DEF IInv, Handles, Late
<1> QED
  BY <1>1, <1>2, <1>3, <1>4, QuietStep DEF rows, links, request

(* The answer is sent.                                                     *)
LEMMA ReplyKeepsIInv ==
  ASSUME IInv, NEW r \in Requests, Reply(r)
  PROVE  IInv'
<1>1. /\ pc[r] = "reply" /\ made[r] \in Tokens /\ Exists(made[r])
      /\ r \notin late
  BY AuthAssumption DEF Reply, IInv, TypeOK, Handles, Late, Refusing
<1>2. UNCHANGED <<rows, expired, request>> /\ delivered' \in {delivered, delivered \union {made[r]}}
  BY DEF Reply
<1>3. /\ pc' \in [Requests -> Places]
      /\ \A q \in Requests : pc'[q] = IF q = r THEN "granted" ELSE pc[q]
  BY DEF Reply, Goto, IInv, TypeOK, Places
<1>4. TypeOK'
  BY <1>1, <1>2, <1>3 DEF IInv, TypeOK, rows, request
<1>5. \A t \in delivered' : Exists(t)
  BY <1>1, <1>2 DEF IInv, Rows
<1>6. \A q \in Requests :
        /\ pc'[q] = "firstToken" => pc[q] = "firstToken"
        /\ pc'[q] = "idle" => pc[q] = "idle"
        /\ pc'[q] \in Presenting => tok[q] # None
        /\ pc'[q] \in {"successor", "issue", "create"} => made[q] = None
        /\ pc'[q] \in {"retire", "reply"} => made[q] # None
        /\ q \in late => pc'[q] \in Refusing
  BY <1>1, <1>3 DEF IInv, Handles, Late, Presenting
<1> QED
  BY <1>2, <1>4, <1>5, <1>6, QuietStep DEF rows, links, request

(* A login opens a session.                                                *)
LEMMA LoginKeepsIInv ==
  ASSUME IInv, NEW r \in Requests, NEW s \in Sessions, Login(r, s)
  PROVE  IInv'
<1> USE DEF IInv
<1>1. /\ pc[r] = "idle" /\ s \notin sessions /\ sessions' = sessions \union {s}
      /\ UNCHANGED <<sess, parent, revoked, reused, world, tok, dead, late, made, mode>>
  BY DEF Login
<1>2. /\ pc' \in [Requests -> Places] /\ target' \in [Requests -> Sessions \union {None}]
      /\ \A q \in Requests : pc'[q] = IF q = r THEN "firstToken" ELSE pc[q]
      /\ \A q \in Requests : target'[q] = IF q = r THEN s ELSE target[q]
  BY DEF Login, Goto, TypeOK, Places
<1>3. TypeOK'
  BY <1>1, <1>2 DEF TypeOK, world
<1>4. Rows' /\ OneLeaf'
  BY <1>1 DEF Rows, OneLeaf, Exists, HasSuccessor, world
<1>5. tok[r] = None /\ made[r] = None /\ r \notin late
  BY <1>1 DEF Handles, Late, Refusing
<1>6. \A t \in Tokens : sess[t] # s
  BY <1>1, AuthAssumption DEF Rows, Exists
<1>7. Logins'
  BY <1>1, <1>2, <1>5, <1>6 DEF Logins
<1>8. Handles' /\ Creators'
  BY <1>1, <1>2, <1>5 DEF Handles, Creators, Exists, Presenting
<1>9. Late'
  <2>1. \A q \in late' : q # r /\ q \in late /\ q \in Requests
    BY <1>1, <1>5 DEF TypeOK
  <2> QED
    BY <2>1, <1>1, <1>2 DEF Late
<1> QED
  BY <1>3, <1>4, <1>7, <1>8, <1>9

(* A request that only read a token: where it goes decides the rest.       *)
LEMMA ReadStep ==
  ASSUME IInv, NEW r \in Requests, NEW t \in delivered,
         NEW place \in {"killTokens", "refused", "successor"},
         pc[r] = "idle", Goto(r, place),
         tok' = [tok EXCEPT ![r] = t], target' = [target EXCEPT ![r] = sess[t]],
         UNCHANGED <<rows, world, made>>,
         dead' \in [Requests -> BOOLEAN], mode' \in [Requests -> Modes],
         \A q \in Requests : q # r => dead'[q] = dead[q],
         late' \in {late, late \union {r}},
         r \in late' => dead'[r]
  PROVE  IInv'
<1> USE DEF IInv
<1>1. /\ t \in Tokens /\ Exists(t) /\ t # None /\ sess[t] \in Sessions
      /\ made[r] = None /\ tok[r] = None /\ r \notin late
  BY AuthAssumption DEF Rows, Handles, Late, Refusing, TypeOK, Exists
<1>2. /\ pc' \in [Requests -> Places] /\ target' \in [Requests -> Sessions \union {None}]
      /\ tok' \in [Requests -> Tokens \union {None}]
      /\ \A q \in Requests : pc'[q] = IF q = r THEN place ELSE pc[q]
      /\ \A q \in Requests : target'[q] = IF q = r THEN sess[t] ELSE target[q]
      /\ \A q \in Requests : tok'[q] = IF q = r THEN t ELSE tok[q]
  BY <1>1 DEF Goto, TypeOK, Places
<1>3. TypeOK'
  BY <1>1, <1>2 DEF TypeOK, world, rows
<1>4. Rows' /\ OneLeaf'
  BY DEF Rows, OneLeaf, Exists, HasSuccessor, world, rows
<1>5. Logins'
  BY <1>2 DEF Logins, rows
<1>6. Handles' /\ Creators'
  BY <1>1, <1>2 DEF Handles, Creators, Exists, rows
<1>7. Late'
  <2>1. place \in Refusing
    BY DEF Refusing
  <2>2. \A q \in late' : q = r \/ (q # r /\ q \in late)
    OBVIOUS
  <2>3. late' \subseteq Requests /\ made' = made
    BY DEF TypeOK
  <2> QED
    BY <2>1, <2>2, <2>3, <1>1, <1>2 DEF Late
<1> QED
  BY <1>3, <1>4, <1>5, <1>6, <1>7

(* A refresh or a logout reads the token it was given.                     *)
LEMMA ReadsKeepIInv ==
  ASSUME IInv, NEW r \in Requests, NEW t \in Tokens, RefreshRead(r, t) \/ LogoutRead(r, t)
  PROVE  IInv'
<1>0. /\ dead \in [Requests -> BOOLEAN] /\ mode \in [Requests -> Modes]
      /\ r \in late => dead[r] /\ pc[r] \in Refusing
  BY DEF IInv, TypeOK, Late
<1>1. CASE RefreshRead(r, t)
  <2>1. PICK place \in {"killTokens", "refused", "successor"} : Goto(r, place)
    BY <1>1 DEF RefreshRead
  <2>2. LooksDead(t) \in BOOLEAN
    BY DEF LooksDead, TokenExpired
  <2>3. /\ dead' \in [Requests -> BOOLEAN]
        /\ \A q \in Requests : q # r => dead'[q] = dead[q]
        /\ r \in late' => dead'[r]
    BY <1>0, <1>1, <2>2 DEF RefreshRead, Refusing, LooksDead
  <2>4. mode' \in [Requests -> Modes]
    BY <1>0, <1>1 DEF RefreshRead, Modes
  <2>5. /\ pc[r] = "idle" /\ t \in delivered
        /\ tok' = [tok EXCEPT ![r] = t] /\ target' = [target EXCEPT ![r] = sess[t]]
        /\ UNCHANGED <<rows, world, made>>
        /\ late' \in {late, late \union {r}}
    BY <1>1 DEF RefreshRead
  <2> QED
    BY <2>1, <2>3, <2>4, <2>5, ReadStep
<1>2. CASE LogoutRead(r, t)
  <2>1. r \notin late
    BY <1>0, <1>2 DEF LogoutRead, Refusing
  <2>2. mode' \in [Requests -> Modes]
    BY <1>0, <1>2 DEF LogoutRead, Modes
  <2> QED
    BY <1>0, <1>2, <2>1, <2>2, ReadStep DEF LogoutRead
<1> QED
  BY <1>1, <1>2

(* A new token becomes the only leaf of its session: it starts the chain   *)
(* of a new session or takes over from the leaf it succeeds.               *)
LEMMA InsertStep ==
  ASSUME IInv, NEW r \in Requests, NEW t \in Tokens, NEW from \in Tokens \union {None},
         NEW place \in {"reply", "retire"},
         InsertToken(r, t, from), Goto(r, place), from = tok[r], made[r] = None, r \notin late,
         target[r] \in sessions, place = "retire" => from # None,
         pc[r] # "firstToken" => from # None,
         \A u \in Tokens :
           Exists(u) /\ ~HasSuccessor(u) /\ sess[u] = target[r] => u = from,
         from # None => ~HasSuccessor(from) /\ pc[r] # "firstToken",
         UNCHANGED <<sessions, revoked, reused, world, tok, target, dead, late, mode>>
  PROVE  IInv'
<1> USE DEF IInv
<1>1. /\ target[r] \in Sessions /\ target[r] # None /\ t # None /\ ~Exists(t)
      /\ \A u \in Tokens : parent[u] # t
  BY AuthAssumption DEF TypeOK, Rows, InsertToken
<1>2. /\ sess' \in [Tokens -> Sessions \union {None}] /\ parent' \in [Tokens -> Tokens \union {None}]
      /\ made' \in [Requests -> Tokens \union {None}] /\ pc' \in [Requests -> Places]
      /\ \A u \in Tokens : sess'[u] = IF u = t THEN target[r] ELSE sess[u]
      /\ \A u \in Tokens : parent'[u] = IF u = t THEN from ELSE parent[u]
      /\ \A q \in Requests : made'[q] = IF q = r THEN t ELSE made[q]
      /\ \A q \in Requests : pc'[q] = IF q = r THEN place ELSE pc[q]
  BY <1>1 DEF InsertToken, Goto, TypeOK, Places
<1>3. TypeOK'
  BY <1>2 DEF TypeOK, world
<1>4. /\ \A u \in Tokens : Exists(u)' <=> Exists(u) \/ u = t
      /\ from # None => Exists(from) /\ from # t /\ sess[from] = target[r]
  BY <1>1, <1>2 DEF Exists, Handles
<1>5. \A u \in Tokens : HasSuccessor(u)' <=> HasSuccessor(u) \/ u = from
  <2>1. parent[t] = None
    BY <1>1 DEF Rows
  <2>2. parent'[t] = from /\ \A v \in Tokens : v # t => parent'[v] = parent[v]
    BY <1>2
  <2>3. \A u \in Tokens : HasSuccessor(u)' <=> \E v \in Tokens : parent'[v] = u
    BY DEF HasSuccessor
  <2>4. ASSUME NEW u \in Tokens, HasSuccessor(u)' PROVE HasSuccessor(u) \/ u = from
    BY <2>2, <2>3, <2>4 DEF HasSuccessor
  <2>5. ASSUME NEW u \in Tokens, u = from PROVE HasSuccessor(u)'
    BY <2>2, <2>3, <2>5
  <2>6. ASSUME NEW u \in Tokens, HasSuccessor(u) PROVE HasSuccessor(u)'
    <3>1. PICK v \in Tokens : parent[v] = u
      BY <2>6 DEF HasSuccessor
    <3>2. v # t
      BY <3>1, <2>1, AuthAssumption
    <3> QED
      BY <3>1, <3>2, <2>2, <2>3
  <2> QED
    BY <2>4, <2>5, <2>6
<1>6. Rows'
  <2>1. \A u \in Tokens : Exists(u)' => sess'[u] \in sessions'
    BY <1>2, <1>4 DEF Rows
  <2>2. \A u \in Tokens : parent'[u] # None => Exists(u)' /\ Exists(parent[u])'
    BY <1>1, <1>2, <1>4 DEF Rows, Exists
  <2>3. \A u, v \in Tokens : parent'[u] # None /\ parent'[u] = parent'[v] => u = v
    BY <1>1, <1>2 DEF Rows, HasSuccessor
  <2>4. \A u \in delivered' : Exists(u)'
    BY <1>4 DEF Rows, world, TypeOK
  <2> QED
    BY <2>1, <2>2, <2>3, <2>4 DEF Rows
<1>7. OneLeaf'
  <2> SUFFICES ASSUME NEW u \in Tokens, NEW v \in Tokens,
                      Exists(u)', ~HasSuccessor(u)', Exists(v)', ~HasSuccessor(v)', sess'[u] = sess'[v]
               PROVE  u = v
    BY DEF OneLeaf
  <2>1. CASE u # t /\ v # t
    BY <2>1, <1>2, <1>4, <1>5 DEF OneLeaf
  <2>2. CASE u = t /\ v # t
    BY <2>2, <1>2, <1>4, <1>5
  <2>3. CASE u # t /\ v = t
    BY <2>3, <1>2, <1>4, <1>5
  <2> QED
    BY <2>1, <2>2, <2>3
<1>8. Logins'
  <2>1. \A q \in Requests : pc'[q] = "firstToken" => q # r /\ pc[q] = "firstToken"
    BY <1>2
  <2>2. \A q \in Requests : pc'[q] = "firstToken" => target[q] # target[r]
    <3> SUFFICES ASSUME NEW q \in Requests, pc'[q] = "firstToken", target[q] = target[r]
                 PROVE  FALSE
      OBVIOUS
    <3>1. CASE pc[r] = "firstToken"
      BY <2>1, <3>1 DEF Logins
    <3>2. CASE from # None
      BY <2>1, <3>2, <1>4 DEF Logins
    <3> QED
      BY <3>1, <3>2
  <2> QED
    BY <2>1, <2>2, <1>2 DEF Logins
<1>9. Handles'
  <2> SUFFICES ASSUME NEW q \in Requests
               PROVE  /\ pc'[q] = "idle" => tok[q] = None /\ made'[q] = None
                      /\ pc'[q] \in Presenting => tok[q] # None
                      /\ pc'[q] \in {"successor", "issue", "create"} => made'[q] = None
                      /\ pc'[q] \in {"retire", "reply"} => made'[q] # None
                      /\ tok[q] # None => Exists(tok[q])' /\ sess'[tok[q]] = target[q]
                      /\ made'[q] # None => Exists(made[q])' /\ parent'[made'[q]] = tok[q]
    BY DEF Handles, Exists
  <2>1. tok[q] # None => Exists(tok[q])' /\ sess'[tok[q]] = target[q]
    <3> SUFFICES ASSUME tok[q] # None PROVE Exists(tok[q])' /\ sess'[tok[q]] = target[q]
      OBVIOUS
    <3>1. tok[q] \in Tokens /\ sess[tok[q]] # None /\ sess[tok[q]] = target[q] /\ sess[t] = None
      BY <1>1 DEF Handles, TypeOK, Exists
    <3>2. tok[q] # t /\ sess'[tok[q]] = sess[tok[q]]
      BY <3>1, <1>2
    <3> QED
      BY <3>1, <3>2 DEF Exists
  <2>2. CASE q = r
    <3>1. made'[q] = t /\ pc'[q] = place /\ parent'[t] = from /\ sess'[t] # None
      BY <2>2, <1>1, <1>2
    <3>2. Exists(made[q])' /\ parent'[made'[q]] = tok[q]
      BY <2>2, <3>1 DEF Exists
    <3>3. pc'[q] \in Presenting => tok[q] # None
      BY <2>2, <3>1 DEF Presenting
    <3> QED
      BY <2>1, <3>1, <3>2, <3>3, <1>1
  <2>3. CASE q # r
    <3>1. made'[q] = made[q] /\ pc'[q] = pc[q]
      BY <2>3, <1>2
    <3>2. ASSUME made[q] # None PROVE Exists(made[q])' /\ parent'[made'[q]] = tok[q]
      <4>1. made[q] \in Tokens /\ sess[made[q]] # None /\ parent[made[q]] = tok[q] /\ sess[t] = None
        BY <3>2, <1>1 DEF Handles, TypeOK, Exists
      <4>2. /\ sess'[made[q]] = sess[made[q]] /\ parent'[made[q]] = parent[made[q]]
        BY <4>1, <1>2
      <4> QED
        BY <4>1, <4>2, <3>1 DEF Exists
    <3> QED
      BY <2>1, <3>1, <3>2 DEF Handles
  <2> QED
    BY <2>2, <2>3
<1>10. Creators'
  <2>1. \A q \in Requests : made[q] # t
    BY <1>1 DEF Handles
  <2> QED
    BY <2>1, <1>2 DEF Creators
<1>11. Late'
  <2>1. late' = late /\ dead' = dead /\ \A q \in late : q # r /\ q \in Requests
    BY DEF TypeOK
  <2> QED
    BY <2>1, <1>2 DEF Late
<1> QED
  BY <1>3, <1>6, <1>7, <1>8, <1>9, <1>10, <1>11

(* The first token of a session is inserted.                               *)
LEMMA FirstTokenKeepsIInv ==
  ASSUME IInv, NEW r \in Requests, NEW t \in Tokens, FirstToken(r, t)
  PROVE  IInv'
<1>1. /\ pc[r] = "firstToken" /\ target[r] \in sessions /\ tok[r] = None /\ made[r] = None
      /\ \A u \in Tokens : sess[u] # target[r]
      /\ r \notin late
  BY DEF FirstToken, IInv, Logins, Late, Refusing
<1> QED
  BY <1>1, InsertStep DEF FirstToken

(* A successor is inserted, or the unique index refuses it.                *)
LEMMA SuccessorKeepsIInv ==
  ASSUME IInv, NEW r \in Requests, NEW t \in Tokens, CreateSuccessor(r, t)
  PROVE  IInv'
<1>1. /\ pc[r] = "create" /\ tok[r] \in Tokens /\ tok[r] # None /\ made[r] = None
      /\ Exists(tok[r]) /\ sess[tok[r]] = target[r] /\ target[r] \in sessions
      /\ r \notin late
  BY DEF CreateSuccessor, IInv, Handles, Presenting, Late, Refusing, Rows, TypeOK
<1>2. CASE HasSuccessor(tok[r])
  <2>1. /\ Goto(r, "killTokens") /\ mode' \in [Requests -> Modes] /\ "killTokens" \in Places
        /\ UNCHANGED <<sess, parent, made>>
    BY <1>2 DEF CreateSuccessor, IndexRefuses, IInv, TypeOK, Modes, Places
  <2>2. /\ revoked \subseteq Sessions \union Tokens /\ reused \subseteq Tokens
        /\ target \in [Requests -> Sessions \union {None}]
    BY DEF IInv, TypeOK
  <2> QED
    BY <1>1, <2>1, <2>2, MoveStep DEF CreateSuccessor, links
<1>3. CASE ~HasSuccessor(tok[r])
  <2>1. InsertToken(r, t, tok[r]) /\ Goto(r, "retire") /\ UNCHANGED mode
    BY <1>3 DEF CreateSuccessor, IndexRefuses
  <2>2. \A u \in Tokens : Exists(u) /\ ~HasSuccessor(u) /\ sess[u] = target[r] => u = tok[r]
    BY <1>1, <1>3 DEF IInv, OneLeaf
  <2> QED
    BY <1>1, <1>3, <2>1, <2>2, InsertStep DEF CreateSuccessor
<1> QED
  BY <1>2, <1>3

(* Every step keeps the invariant.                                         *)
LEMMA StepKeepsIInv == IInv /\ [Next]_vars => IInv'
<1> SUFFICES ASSUME IInv, [Next]_vars PROVE IInv'
  OBVIOUS
<1>1. ASSUME NEW x \in Sessions \union Tokens, Expires(x) PROVE IInv'
  BY <1>1, ExpiryKeepsIInv
<1>2. ASSUME NEW r \in Requests, NEW s \in Sessions, Login(r, s) PROVE IInv'
  BY <1>2, LoginKeepsIInv
<1>6. ASSUME NEW r \in Requests, NEW s \in Sessions, LogoutAll(r, s) PROVE IInv'
  BY <1>6, MovesKeepIInv
<1>3. ASSUME NEW r \in Requests, NEW t \in Tokens, RefreshRead(r, t) \/ LogoutRead(r, t)
      PROVE  IInv'
  BY <1>3, ReadsKeepIInv
<1>4. ASSUME NEW r \in Requests, ResetSessions(r) \/ Advance(r) \/ Fail(r) PROVE IInv'
  BY <1>4, MovesKeepIInv, ReplyKeepsIInv, FirstTokenKeepsIInv, SuccessorKeepsIInv DEF Advance
<1>5. CASE UNCHANGED vars
  BY <1>5 DEF vars, IInv, TypeOK, Rows, OneLeaf, Logins, Handles, Creators, Late, Exists, HasSuccessor
<1> QED
  BY <1>1, <1>2, <1>3, <1>4, <1>5, <1>6 DEF Next

(* The inductive invariant holds in every reachable state.                 *)
THEOREM Invariance == Spec => []IInv
<1> QED
  BY InitIInv, StepKeepsIInv, PTL DEF Spec

-----------------------------------------------------------------------------
(* Two further properties need to know where successors and revocations    *)
(* come from.                                                              *)

(* A successor was made by a request that still names it.                  *)
Rotators == \A u \in Tokens : parent[u] # None => \E q \in Requests : made[q] = u

(* A session with tokens has one without a successor.                      *)
SomeLeaf ==
  \A s \in Sessions : (\E t \in Tokens : sess[t] = s) =>
    \E t \in Tokens : sess[t] = s /\ ~HasSuccessor(t)

Killing(s) ==
  \E r \in Requests : target[r] = s /\ mode[r] # "none" /\ pc[r] \in {"killSession", "lost"}

(* The last token of a session is only revoked on the way to revoking the  *)
(* session; all others were rotated.                                       *)
Revocations ==
  /\ \A r \in Requests : pc[r] \in {"killTokens", "killSession"} => mode[r] # "none"
  /\ \A t \in Tokens \intersect revoked :
       Exists(t) /\ (HasSuccessor(t) \/ sess[t] \in revoked \/ Killing(sess[t]))

Alarms == \A r \in Requests : mode[r] \in {"reuse", "race"} => tok[r] # None

JInv == Rotators /\ SomeLeaf /\ Revocations /\ Alarms /\ NoFalseAlarm

LEMMA InitJInv == Init => JInv
  BY AuthAssumption DEF Init, JInv, Rotators, SomeLeaf, Alarms, Revocations, NoFalseAlarm

(* Steps that insert no token: links and creators stay, a token that is    *)
(* newly revoked has a reason, whoever was revoking a session goes on, and *)
(* an alarm that is raised has a second request behind it.                 *)
LEMMA QuietJStep ==
  ASSUME IInv, JInv, UNCHANGED <<sess, parent, made>>,
         revoked \subseteq revoked',
         \A q \in Requests : tok'[q] # tok[q] => tok[q] = None,
         \A q \in Requests : pc'[q] \in {"killTokens", "killSession"} => mode'[q] # "none",
         \A t \in Tokens \intersect (revoked' \ revoked) :
           Exists(t) /\ (HasSuccessor(t) \/ sess[t] \in revoked' \/ Killing(sess[t])'),
         \A q \in Requests :
           mode[q] # "none" /\ pc[q] \in {"killSession", "lost"} =>
             \/ target[q] \in revoked'
             \/ /\ target'[q] = target[q] /\ mode'[q] # "none"
                /\ pc'[q] \in {"killSession", "lost"},
         \A q \in Requests : mode'[q] \in {"reuse", "race"} =>
           \/ mode[q] = mode'[q] /\ tok'[q] = tok[q]
           \/ tok'[q] = tok[q] /\ tok[q] # None /\ HasSuccessor(tok[q]) /\ made[q] = None
  PROVE  JInv'
<1>1. Rotators' /\ SomeLeaf'
  BY DEF JInv, Rotators, SomeLeaf, HasSuccessor
<1>2. Revocations'
  <2>1. ASSUME NEW s, Killing(s) PROVE s \in revoked' \/ Killing(s)'
    BY <2>1 DEF Killing
  <2>2. ASSUME NEW t \in Tokens \intersect revoked'
        PROVE  Exists(t)' /\ (HasSuccessor(t)' \/ sess'[t] \in revoked' \/ Killing(sess[t])')
    <3>1. CASE t \in revoked
      BY <2>1, <3>1 DEF JInv, Revocations, Exists, HasSuccessor
    <3>2. CASE t \notin revoked
      BY <3>2 DEF Exists, HasSuccessor
    <3> QED
      BY <3>1, <3>2
  <2> QED
    BY <2>2 DEF Revocations, Killing
<1>3. Alarms'
  BY DEF JInv, Alarms
<1>4. NoFalseAlarm'
  <2> SUFFICES ASSUME NEW r \in Requests, mode'[r] \in {"reuse", "race"}
               PROVE  \E q \in Requests \ {r} : tok'[q] = tok'[r]
    BY DEF NoFalseAlarm
  <2>1. CASE mode[r] = mode'[r] /\ tok'[r] = tok[r]
    <3>1. PICK q \in Requests \ {r} : tok[q] = tok[r]
      BY <2>1 DEF JInv, NoFalseAlarm
    <3>2. tok[r] # None
      BY <2>1 DEF JInv, Alarms
    <3> QED
      BY <2>1, <3>1, <3>2
  <2>2. CASE tok'[r] = tok[r] /\ tok[r] # None /\ HasSuccessor(tok[r]) /\ made[r] = None
    <3>1. PICK u \in Tokens : parent[u] = tok[r]
      BY <2>2 DEF HasSuccessor
    <3>2. PICK q \in Requests : made[q] = u
      BY <2>2, <3>1 DEF JInv, Rotators
    <3>3. u # None /\ tok[q] = tok[r] /\ q # r
      BY <2>2, <3>1, <3>2, AuthAssumption DEF IInv, Handles
    <3> QED
      BY <2>2, <3>3
  <2> QED
    BY <2>1, <2>2
<1> QED
  BY <1>1, <1>2, <1>3, <1>4 DEF JInv

(* Steps that neither insert a token nor change a reason.                  *)
LEMMA MovesKeepJInv ==
  ASSUME IInv, JInv, NEW r \in Requests,
         \/ FindSuccessor(r) \/ IssueSession(r) \/ RetireToken(r) \/ KillTokens(r)
         \/ KillSession(r) \/ MarkReused(r) \/ ResetSessions(r) \/ Fail(r) \/ Reply(r)
         \/ \E s \in Sessions : LogoutAll(r, s)
         \/ \E t \in Tokens : RefreshRead(r, t) \/ LogoutRead(r, t)
  PROVE  JInv'
<1> USE DEF links, rows, world, request
<1>0. /\ TypeOK /\ Handles /\ Rows
      /\ pc[r] = "idle" => tok[r] = None /\ made[r] = None
      /\ pc[r] \in {"killTokens", "killSession"} => mode[r] # "none"
      /\ \A q \in Requests : pc[q] \in {"killTokens", "killSession"} => mode[q] # "none"
      /\ AuthAssumption
  BY AuthAssumption DEF IInv, JInv, Revocations, Handles
<1>1. CASE FindSuccessor(r)
  BY <1>0, <1>1, QuietJStep DEF FindSuccessor, Goto, TypeOK, Handles, Presenting
<1>2. CASE IssueSession(r)
  BY <1>0, <1>2, QuietJStep DEF IssueSession, Goto, TypeOK
<1>3. CASE RetireToken(r)
  <2>1. HasSuccessor(tok[r]) /\ tok[r] \in Tokens /\ Exists(tok[r])
    BY <1>0, <1>3 DEF RetireToken, Handles, Presenting, HasSuccessor, TypeOK
  <2> QED
    BY <1>0, <1>3, <2>1, QuietJStep DEF RetireToken, Goto, TypeOK
<1>4. CASE KillTokens(r)
  <2>1. /\ target[r] # None /\ pc' = [pc EXCEPT ![r] = "killSession"] /\ pc[r] = "killTokens"
        /\ UNCHANGED <<sess, parent, made, tok, target, mode>>
        /\ revoked' = revoked \union {t \in Tokens : sess[t] = target[r]}
    BY <1>0, <1>4 DEF KillTokens, Goto, Handles, Presenting, Exists
  <2>2. \A t \in Tokens \intersect (revoked' \ revoked) : Exists(t) /\ Killing(sess[t])'
    BY <1>0, <2>1 DEF Killing, Exists, TypeOK
  <2> QED
    BY <1>0, <2>1, <2>2, QuietJStep DEF TypeOK
<1>5. CASE KillSession(r)
  <2>1. target[r] \in Sessions
    BY <1>0, <1>5 DEF KillSession, Handles, Presenting, Exists, TypeOK
  <2> QED
    BY <1>0, <1>5, <2>1, QuietJStep DEF KillSession, Goto, TypeOK
<1>6. CASE MarkReused(r)
  BY <1>0, <1>6, QuietJStep DEF MarkReused, Goto, TypeOK
<1>7. CASE ResetSessions(r)
  BY <1>0, <1>7, QuietJStep DEF ResetSessions, RevokeAllSessions, Goto, TypeOK
<1>8. CASE Fail(r)
  BY <1>0, <1>8, QuietJStep DEF Fail, Goto, TypeOK
<1>9. CASE Reply(r)
  BY <1>0, <1>9, QuietJStep DEF Reply, Goto, TypeOK
<1>10. CASE \E s \in Sessions : LogoutAll(r, s)
  BY <1>0, <1>10, QuietJStep DEF LogoutAll, RevokeAllSessions, Goto, TypeOK
<1>11. CASE \E t \in Tokens : RefreshRead(r, t)
  <2>1. PICK t \in Tokens, place \in {"killTokens", "refused", "successor"} :
          RefreshRead(r, t) /\ Goto(r, place)
    BY <1>11 DEF RefreshRead
  <2>2. /\ pc[r] = "idle" /\ tok' = [tok EXCEPT ![r] = t] /\ target' = [target EXCEPT ![r] = sess[t]]
        /\ UNCHANGED <<rows, made>>
    BY <2>1 DEF RefreshRead
  <2>3. /\ \A q \in Requests \ {r} : mode'[q] = mode[q]
        /\ mode'[r] = "expired" \/ (mode'[r] = mode[r] /\ place # "killTokens")
    BY <1>0, <2>1 DEF RefreshRead, Goto, TypeOK
  <2>4. mode[r] \notin {"reuse", "race"}
    BY <1>0, <2>2 DEF JInv, Alarms
  <2> QED
    BY <1>0, <2>1, <2>2, <2>3, <2>4, QuietJStep DEF Goto, TypeOK
<1>12. CASE \E t \in Tokens : LogoutRead(r, t)
  BY <1>0, <1>12, QuietJStep DEF LogoutRead, Goto, TypeOK
<1> QED
  BY <1>1, <1>2, <1>3, <1>4, <1>5, <1>6, <1>7, <1>8, <1>9, <1>10, <1>11, <1>12

(* A new token is a leaf, and the only one of its session.                 *)
LEMMA InsertJStep ==
  ASSUME IInv, JInv, NEW r \in Requests, NEW t \in Tokens, NEW from \in Tokens \union {None},
         InsertToken(r, t, from), made[r] = None, target[r] \in Sessions,
         from # None => Exists(from) /\ sess[from] = target[r],
         pc[r] \notin {"killSession", "lost"},
         NEW place \in {"reply", "retire"}, Goto(r, place),
         UNCHANGED <<revoked, tok, target, mode>>
  PROVE  JInv'
<1>1. /\ ~Exists(t) /\ t # None /\ from # t
      /\ \A u \in Tokens : parent[u] # t
      /\ t \notin revoked
  BY AuthAssumption DEF IInv, JInv, Rows, Revocations, InsertToken
<1>2. /\ \A u \in Tokens : sess'[u] = IF u = t THEN target[r] ELSE sess[u]
      /\ \A u \in Tokens : parent'[u] = IF u = t THEN from ELSE parent[u]
      /\ \A q \in Requests : made'[q] = IF q = r THEN t ELSE made[q]
      /\ \A q \in Requests : pc'[q] = IF q = r THEN place ELSE pc[q]
  BY DEF InsertToken, Goto, IInv, TypeOK
<1>3. Rotators'
  <2> SUFFICES ASSUME NEW u \in Tokens, parent'[u] # None
               PROVE  \E q \in Requests : made'[q] = u
    BY DEF Rotators
  <2>1. CASE u = t
    BY <1>2, <2>1
  <2>2. CASE u # t
    <3>1. PICK q \in Requests : made[q] = u
      BY <1>2, <2>2 DEF JInv, Rotators
    <3>2. q # r
      BY <3>1, AuthAssumption
    <3> QED
      BY <1>2, <3>1, <3>2
  <2> QED
    BY <2>1, <2>2
<1>4. SomeLeaf'
  <2> SUFFICES ASSUME NEW s \in Sessions, NEW v \in Tokens, sess'[v] = s
               PROVE  \E u \in Tokens : sess'[u] = s /\ \A w \in Tokens : parent'[w] # u
    BY DEF SomeLeaf, HasSuccessor
  <2>1. CASE s = target[r]
    <3>1. sess'[t] = s /\ \A w \in Tokens : parent'[w] # t
      BY <1>1, <1>2, <2>1
    <3> QED
      BY <3>1
  <2>2. CASE s # target[r]
    <3>1. PICK u \in Tokens : sess[u] = s /\ ~HasSuccessor(u)
      BY <1>2, <2>2 DEF JInv, SomeLeaf
    <3>2. u # t /\ u # from
      BY <1>1, <2>2, <3>1, AuthAssumption DEF Exists
    <3>3. sess'[u] = s /\ \A w \in Tokens : parent'[w] # u
      BY <1>2, <3>1, <3>2 DEF HasSuccessor
    <3> QED
      BY <3>3
  <2> QED
    BY <2>1, <2>2
<1>5. Revocations'
  <2>1. ASSUME NEW s, Killing(s) PROVE Killing(s)'
    BY <1>2, <2>1 DEF Killing
  <2>2. ASSUME NEW u \in Tokens \intersect revoked, HasSuccessor(u) PROVE HasSuccessor(u)'
    <3>1. PICK w \in Tokens : parent[w] = u
      BY <2>2 DEF HasSuccessor
    <3>2. w # t
      BY <1>1, <2>2, <3>1, AuthAssumption DEF IInv, Rows
    <3> QED
      BY <1>2, <3>1, <3>2 DEF HasSuccessor
  <2>3. ASSUME NEW u \in Tokens \intersect revoked
        PROVE  Exists(u)' /\ (HasSuccessor(u)' \/ sess'[u] \in revoked' \/ Killing(sess[u])')
    <3>1. u # t /\ Exists(u) /\ sess'[u] = sess[u]
      BY <1>1, <1>2 DEF JInv, Revocations
    <3>2. HasSuccessor(u) \/ sess[u] \in revoked \/ Killing(sess[u])
      BY DEF JInv, Revocations
    <3>3. Killing(sess[u]) => Killing(sess[u])'
      BY <1>2, <3>1 DEF Killing
    <3> QED
      BY <2>2, <3>1, <3>2, <3>3 DEF Exists
  <2>4. \A q \in Requests : pc'[q] \in {"killTokens", "killSession"} => mode'[q] # "none"
    BY <1>2 DEF JInv, Revocations
  <2> QED
    BY <2>3, <2>4 DEF Revocations
<1>6. Alarms' /\ NoFalseAlarm'
  BY DEF JInv, Alarms, NoFalseAlarm
<1> QED
  BY <1>3, <1>4, <1>5, <1>6 DEF JInv

(* A login's first token, and a rotation that succeeds or loses its race.  *)
LEMMA InsertKeepsJInv ==
  ASSUME IInv, JInv, NEW r \in Requests, NEW t \in Tokens, FirstToken(r, t) \/ CreateSuccessor(r, t)
  PROVE  JInv'
<1>1. CASE FirstToken(r, t)
  <2>1. made[r] = None /\ target[r] \in Sessions
    BY <1>1 DEF FirstToken, IInv, Logins, TypeOK
  <2> QED
    BY <1>1, <2>1, InsertJStep DEF FirstToken
<1>2. CASE CreateSuccessor(r, t)
  <2>1. /\ tok[r] \in Tokens /\ tok[r] # None /\ made[r] = None /\ pc[r] = "create"
        /\ Exists(tok[r]) /\ sess[tok[r]] = target[r] /\ target[r] \in Sessions
    BY <1>2, AuthAssumption DEF CreateSuccessor, IInv, Handles, Presenting, TypeOK, Exists
  <2>2. CASE HasSuccessor(tok[r])
    BY <1>2, <2>1, <2>2, QuietJStep
       DEF CreateSuccessor, IndexRefuses, Goto, IInv, TypeOK, JInv, Revocations
  <2>3. CASE ~HasSuccessor(tok[r])
    BY <1>2, <2>1, <2>3, InsertJStep DEF CreateSuccessor, IndexRefuses
  <2> QED
    BY <2>2, <2>3
<1> QED
  BY <1>1, <1>2

LEMMA StepKeepsJInv == IInv /\ JInv /\ [Next]_vars => JInv'
<1> SUFFICES ASSUME IInv, JInv, [Next]_vars PROVE JInv'
  OBVIOUS
<1>1. ASSUME NEW x \in Sessions \union Tokens, Expires(x) PROVE JInv'
  BY <1>1, QuietJStep DEF Expires, rows, request, JInv, Revocations
<1>2. ASSUME NEW r \in Requests, NEW s \in Sessions, Login(r, s) PROVE JInv'
  BY <1>2, QuietJStep DEF Login, Goto, IInv, TypeOK, JInv, Revocations
<1>3. ASSUME NEW r \in Requests, NEW t \in Tokens, FirstToken(r, t) \/ CreateSuccessor(r, t)
      PROVE  JInv'
  BY <1>3, InsertKeepsJInv
<1>4. ASSUME NEW r \in Requests,
             \/ ResetSessions(r) \/ Fail(r) \/ Advance(r)
             \/ \E s \in Sessions : LogoutAll(r, s)
             \/ \E t \in Tokens : RefreshRead(r, t) \/ LogoutRead(r, t)
      PROVE  JInv'
  BY <1>3, <1>4, MovesKeepJInv DEF Advance
<1>5. CASE UNCHANGED vars
  BY <1>5, QuietJStep DEF vars, JInv, Revocations
<1> QED
  BY <1>1, <1>2, <1>3, <1>4, <1>5 DEF Next

(* Both invariants hold in every reachable state.                          *)
THEOREM Reasons == Spec => [](IInv /\ JInv)
<1> QED
  BY InitIInv, InitJInv, StepKeepsIInv, StepKeepsJInv, PTL DEF Spec

(* A session is only revoked for a replay if two requests presented one    *)
(* token (the reuse and the race branch of refresh).                       *)
THEOREM AlarmsAreReal == Spec => []NoFalseAlarm
<1>1. JInv => NoFalseAlarm
  BY DEF JInv
<1> QED
  BY <1>1, Reasons, PTL

(* A session whose tokens are all revoked is revoked, or about to be, or   *)
(* the request that was about to revoke it died.                           *)
THEOREM RevocationFollows == Spec => []NoHalfRevocation
<1>1. ASSUME IInv, JInv, NEW s \in sessions \ revoked,
             \E t \in Tokens : sess[t] = s,
             \A t \in Tokens : sess[t] = s => t \in revoked
      PROVE  Killing(s)
  <2>1. PICK t \in Tokens : sess[t] = s /\ ~HasSuccessor(t)
    BY <1>1 DEF JInv, SomeLeaf, IInv, TypeOK
  <2> QED
    BY <1>1, <2>1 DEF JInv, Revocations
<1>2. IInv /\ JInv => NoHalfRevocation
  BY <1>1 DEF NoHalfRevocation, Killing
<1> QED
  BY <1>2, Reasons, PTL

-----------------------------------------------------------------------------
(* A session never has two tokens a refresh would accept.                  *)
THEOREM SingleUsableToken == Spec => []OneUsableToken
<1>1. IInv => OneUsableToken
  BY DEF IInv, OneLeaf, OneUsableToken, Usable
<1> QED
  BY <1>1, Invariance, PTL

(* At most one of the requests that present a token gets a successor.      *)
THEOREM SingleWinner == Spec => []OneWinner
<1>1. IInv => OneWinner
  BY DEF IInv, Handles, Creators, Rows, OneWinner, TypeOK
<1> QED
  BY <1>1, Invariance, PTL

(* A refresh that begins after its session was revoked creates no token.   *)
THEOREM RevocationHolds == Spec => []LateNeverGranted
<1>1. IInv => LateNeverGranted
  BY DEF IInv, Late, LateNeverGranted
<1> QED
  BY <1>1, Invariance, PTL

(* Sessions, tokens and requests stay within their types.                  *)
THEOREM Typing == Spec => []TypeOK
<1>1. IInv => TypeOK
  BY DEF IInv
<1> QED
  BY <1>1, Invariance, PTL
=============================================================================
