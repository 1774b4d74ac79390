---------------------------- MODULE AuthSessions ----------------------------
(***************************************************************************)
(* Sessions and rotating refresh tokens of one user (auth.service.ts over  *)
(* auth.repository.ts).  Every element of Requests is one HTTP request; a  *)
(* step is one statement sent to the database together with the code up to *)
(* the next one, so requests interleave between any two statements and     *)
(* act on rows they read earlier.  A refresh rotates a token: it inserts a *)
(* successor, which a unique index on rotatedFromId allows once per token, *)
(* and then revokes the token.                                             *)
(*                                                                         *)
(* Whoever calls presents a token that some response delivered, as often   *)
(* and as concurrently as it likes: two tabs, a retry after a lost answer. *)
(***************************************************************************)
EXTENDS Naturals, FiniteSets

CONSTANTS
  Sessions,   \* rows of sessions, all of one user
  Tokens,     \* rows of refresh_tokens
  Requests,   \* HTTP requests, each used once
  MayFail,    \* whether requests may die between two statements
  None        \* no token, no session

ASSUME AuthAssumption ==
  /\ MayFail \in BOOLEAN
  /\ None \notin Sessions \union Tokens
  /\ Sessions \intersect Tokens = {}

VARIABLES
  sessions,  \* the sessions that exist
  sess,      \* sess[t]: sessionId of token t, None if t does not exist
  parent,    \* parent[t]: rotatedFromId
  revoked,   \* sessions and tokens with revokedAt set
  reused,    \* tokens with reusedAt set
  expired,   \* sessions and tokens whose own expiresAt has passed
  delivered, \* tokens some client received
  pc,        \* pc[r]: what request r does next, or how it ended
  tok,       \* tok[r]: the token r presents
  target,    \* target[r]: the session r works on
  dead,      \* dead[r]: r read its token as revoked, expired or of a revoked session
  late,      \* requests that began after their session was revoked
  made,      \* made[r]: the token r created
  mode       \* mode[r]: why r revokes its session

links == <<sessions, sess, parent>>
rows == <<sessions, sess, parent, revoked, reused>>
world == <<expired, delivered>>
request == <<tok, target, dead, late, made, mode>>
vars == <<sessions, sess, parent, revoked, reused, expired, delivered,
          pc, tok, target, dead, late, made, mode>>

Places == {"idle", "firstToken", "successor", "issue", "create", "retire", "reply",
           "killTokens", "killSession", "mark", "granted", "refused", "ended", "lost"}
Modes == {"none", "expired", "reuse", "race", "logout", "logoutAll"}

TypeOK ==
  /\ sessions \subseteq Sessions
  /\ sess \in [Tokens -> Sessions \union {None}]
  /\ parent \in [Tokens -> Tokens \union {None}]
  /\ revoked \subseteq Sessions \union Tokens
  /\ reused \subseteq Tokens
  /\ expired \subseteq Sessions \union Tokens
  /\ delivered \subseteq Tokens
  /\ pc \in [Requests -> Places]
  /\ tok \in [Requests -> Tokens \union {None}]
  /\ target \in [Requests -> Sessions \union {None}]
  /\ dead \in [Requests -> BOOLEAN]
  /\ late \subseteq Requests
  /\ made \in [Requests -> Tokens \union {None}]
  /\ mode \in [Requests -> Modes]

Init ==
  /\ sessions = {}
  /\ sess = [t \in Tokens |-> None]
  /\ parent = [t \in Tokens |-> None]
  /\ revoked = {} /\ reused = {} /\ expired = {} /\ delivered = {} /\ late = {}
  /\ pc = [r \in Requests |-> "idle"]
  /\ tok = [r \in Requests |-> None]
  /\ target = [r \in Requests |-> None]
  /\ dead = [r \in Requests |-> FALSE]
  /\ made = [r \in Requests |-> None]
  /\ mode = [r \in Requests |-> "none"]

Goto(r, place) == pc' = [pc EXCEPT ![r] = place]

Exists(t) == sess[t] # None

(* A token never outlives its session.                                     *)
TokenExpired(t) == t \in expired \/ sess[t] \in expired

(* Mutant: any rotation of the session counts as a successor.              *)
HasSuccessorInSession(t) == \E u \in Tokens : parent[u] # None /\ sess[u] = sess[t]

HasSuccessor(t) == \E u \in Tokens : parent[u] = t

-----------------------------------------------------------------------------
(* Time.                                                                   *)

Expires(x) ==
  /\ x \in sessions \/ (x \in Tokens /\ Exists(x))
  /\ x \notin expired
  /\ expired' = expired \union {x}
  /\ UNCHANGED <<rows, delivered, pc, request>>

-----------------------------------------------------------------------------
(* Login: a session, then its first token.                                 *)

Login(r, s) ==
  /\ pc[r] = "idle"
  /\ s \notin sessions
  /\ sessions' = sessions \union {s}
  /\ target' = [target EXCEPT ![r] = s]
  /\ Goto(r, "firstToken")
  /\ UNCHANGED <<sess, parent, revoked, reused, world, tok, dead, late, made, mode>>

(* Mutant: the link to the rotated token is not stored.                    *)
InsertUnlinkedToken(r, t, from) ==
  /\ ~Exists(t)
  /\ sess' = [sess EXCEPT ![t] = target[r]]
  /\ UNCHANGED parent
  /\ made' = [made EXCEPT ![r] = t]

(* createRefreshToken                                                      *)
InsertToken(r, t, from) ==
  /\ ~Exists(t)
  /\ sess' = [sess EXCEPT ![t] = target[r]]
  /\ parent' = [parent EXCEPT ![t] = from]
  /\ made' = [made EXCEPT ![r] = t]

FirstToken(r, t) ==
  /\ pc[r] = "firstToken"
  /\ InsertToken(r, t, None)
  /\ Goto(r, "reply")
  /\ UNCHANGED <<sessions, revoked, reused, world, tok, target, dead, late, mode>>

(* The response sets the cookie, or is lost on the way.                    *)
Reply(r) ==
  /\ pc[r] = "reply"
  /\ delivered' \in {delivered, delivered \union {made[r]}}
  /\ Goto(r, "granted")
  /\ UNCHANGED <<rows, expired, request>>

-----------------------------------------------------------------------------
(* Refresh.                                                                *)

(* Mutant: the revocation of the session is not looked at.                 *)
LooksDeadAlone(t) == t \in revoked \/ TokenExpired(t)

(* What a token and its session, read together, say against a refresh.     *)
LooksDead(t) == t \in revoked \/ TokenExpired(t) \/ sess[t] \in revoked

RefreshRead(r, t) ==
  /\ pc[r] = "idle"
  /\ t \in delivered
  /\ tok' = [tok EXCEPT ![r] = t]
  /\ target' = [target EXCEPT ![r] = sess[t]]
  /\ dead' = [dead EXCEPT ![r] = LooksDead(t)]
  /\ late' = IF sess[t] \in revoked THEN late \union {r} ELSE late
  /\ \/ /\ sess[t] \in expired
        /\ mode' = [mode EXCEPT ![r] = "expired"]
        /\ Goto(r, "killTokens")
     \/ /\ sess[t] \notin expired
        /\ Goto(r, IF t \in reused THEN "refused" ELSE "successor")
        /\ UNCHANGED mode
  /\ UNCHANGED <<rows, world, made>>

FindSuccessor(r) ==
  /\ pc[r] = "successor"
  /\ \/ /\ dead[r] /\ HasSuccessor(tok[r])
        /\ mode' = [mode EXCEPT ![r] = "reuse"]
        /\ Goto(r, "killTokens")
     \/ /\ dead[r] /\ ~HasSuccessor(tok[r])
        /\ Goto(r, "refused")
        /\ UNCHANGED mode
     \/ /\ ~dead[r]
        /\ Goto(r, "issue")
        /\ UNCHANGED mode
  /\ UNCHANGED <<rows, world, tok, target, dead, late, made>>

(* issueSession computes the new expiry from the session it was given.     *)
IssueSession(r) ==
  /\ pc[r] = "issue"
  /\ Goto(r, IF target[r] \in expired THEN "refused" ELSE "create")
  /\ UNCHANGED <<rows, world, request>>

(* The unique index on rotatedFromId.                                      *)
IndexRefuses(t) == HasSuccessor(t)

(* Mutant: losing the race to rotate only refuses the request.             *)
CreateSuccessorLenient(r, t) ==
  /\ pc[r] = "create"
  /\ IF IndexRefuses(tok[r])
       THEN Goto(r, "refused") /\ UNCHANGED <<sess, parent, made>>
       ELSE InsertToken(r, t, tok[r]) /\ Goto(r, "retire")
  /\ UNCHANGED <<sessions, revoked, reused, world, tok, target, dead, late, mode>>

(* The unique index refuses a second successor: the session is revoked in  *)
(* the background while the request is already refused.                    *)
CreateSuccessor(r, t) ==
  /\ pc[r] = "create"
  /\ IF IndexRefuses(tok[r])
       THEN /\ mode' = [mode EXCEPT ![r] = "race"]
            /\ Goto(r, "killTokens")
            /\ UNCHANGED <<sess, parent, made>>
       ELSE /\ InsertToken(r, t, tok[r])
            /\ Goto(r, "retire")
            /\ UNCHANGED mode
  /\ UNCHANGED <<sessions, revoked, reused, world, tok, target, dead, late>>

RetireToken(r) ==
  /\ pc[r] = "retire"
  /\ revoked' = revoked \union {tok[r]}
  /\ Goto(r, "reply")
  /\ UNCHANGED <<links, reused, world, request>>

-----------------------------------------------------------------------------
(* Revocation: the tokens, then the session (revokeSessionTokens).         *)

LogoutRead(r, t) ==
  /\ pc[r] = "idle"
  /\ t \in delivered
  /\ tok' = [tok EXCEPT ![r] = t]
  /\ target' = [target EXCEPT ![r] = sess[t]]
  /\ mode' = [mode EXCEPT ![r] = "logout"]
  /\ Goto(r, "killTokens")
  /\ UNCHANGED <<rows, world, dead, late, made>>

(* Mutant: the session itself is only revoked by a logout.                 *)
KillTokensOnly(r) ==
  /\ pc[r] = "killTokens"
  /\ revoked' = revoked \union {t \in Tokens : sess[t] = target[r]}
  /\ Goto(r, IF mode[r] = "logout" THEN "killSession" ELSE "refused")
  /\ UNCHANGED <<links, reused, world, request>>

KillTokens(r) ==
  /\ pc[r] = "killTokens"
  /\ revoked' = revoked \union {t \in Tokens : sess[t] = target[r]}
  /\ Goto(r, "killSession")
  /\ UNCHANGED <<links, reused, world, request>>

KillSession(r) ==
  /\ pc[r] = "killSession"
  /\ revoked' = revoked \union {target[r]}
  /\ Goto(r, CASE mode[r] = "reuse" -> "mark"
               [] mode[r] = "logout" -> "ended"
               [] OTHER -> "refused")
  /\ UNCHANGED <<links, reused, world, request>>

MarkReused(r) ==
  /\ pc[r] = "mark"
  /\ reused' = reused \union {tok[r]}
  /\ Goto(r, "refused")
  /\ UNCHANGED <<links, revoked, world, request>>

(* One statement for the sessions there are, which leaves their tokens as  *)
(* they are.                                                               *)
RevokeAllSessions(r) ==
  /\ pc[r] = "idle"
  /\ revoked' = revoked \union sessions
  /\ Goto(r, "ended")

(* logoutAll by a caller whose session s was active when the middleware    *)
(* looked at it.                                                           *)
LogoutAll(r, s) ==
  /\ s \in sessions
  /\ RevokeAllSessions(r)
  /\ target' = [target EXCEPT ![r] = s]
  /\ mode' = [mode EXCEPT ![r] = "logoutAll"]
  /\ UNCHANGED <<links, reused, world, tok, dead, late, made>>

(* What a password reset (module Accounts) does to the sessions.           *)
ResetSessions(r) ==
  /\ RevokeAllSessions(r)
  /\ UNCHANGED <<links, reused, world, request>>

(* The server dies, or a statement of the request fails.                   *)
Fail(r) ==
  /\ MayFail
  /\ pc[r] \notin {"idle", "granted", "refused", "ended", "lost"}
  /\ Goto(r, "lost")
  /\ UNCHANGED <<rows, world, request>>

Advance(r) ==
  \/ FindSuccessor(r) \/ IssueSession(r) \/ RetireToken(r) \/ Reply(r)
  \/ KillTokens(r) \/ KillSession(r) \/ MarkReused(r)
  \/ \E t \in Tokens : FirstToken(r, t) \/ CreateSuccessor(r, t)

Next ==
  \/ \E x \in Sessions \union Tokens : Expires(x)
  \/ \E r \in Requests, s \in Sessions : Login(r, s) \/ LogoutAll(r, s)
  \/ \E r \in Requests, t \in Tokens : RefreshRead(r, t) \/ LogoutRead(r, t)
  \/ \E r \in Requests : ResetSessions(r) \/ Advance(r) \/ Fail(r)

Spec == Init /\ [][Next]_vars

(* A request in progress goes on; nothing else has to happen.              *)
FairSpec == Spec /\ \A r \in Requests : WF_vars(Advance(r))

-----------------------------------------------------------------------------
(* Properties.                                                             *)

Usable(t) == Exists(t) /\ t \notin revoked /\ ~HasSuccessor(t)

(* The tokens of a session form one chain: however refreshes, logouts and  *)
(* failures interleave, a session never has two tokens a refresh would     *)
(* still accept.                                                           *)
OneUsableToken ==
  \A t, u \in Tokens : Usable(t) /\ Usable(u) /\ sess[t] = sess[u] => t = u

(* Of all the requests that present one token, one at most gets a new one. *)
OneWinner ==
  \A q, r \in Requests :
    tok[q] = tok[r] /\ tok[q] # None /\ made[q] # None /\ made[r] # None => q = r

(* A refresh that begins after its session was revoked, by a logout, a     *)
(* logout of all sessions, a password reset or a replay, creates nothing.  *)
LateNeverGranted == \A r \in late : made[r] = None

(* A session is revoked for a replay only when two requests did present    *)
(* the same token.                                                         *)
NoFalseAlarm ==
  \A r \in Requests :
    mode[r] \in {"reuse", "race"} => \E q \in Requests \ {r} : tok[q] = tok[r]

(* A session does not stay open to access tokens with every refresh token  *)
(* of it revoked: whoever revoked the last one is about to revoke the      *)
(* session, or died before it could.                                       *)
NoHalfRevocation ==
  \A s \in sessions \ revoked :
    /\ \E t \in Tokens : sess[t] = s
    /\ \A t \in Tokens : sess[t] = s => t \in revoked
    => \E r \in Requests : /\ target[r] = s /\ mode[r] # "none"
                          /\ pc[r] \in {"killSession", "lost"}

(* A token that already has a successor and is presented again ends its    *)
(* session, also when the replay races the rotation itself, unless the     *)
(* request that presents it dies.                                          *)
ReplayEndsSession ==
  \A r \in Requests :
    pc[r] = "successor" /\ HasSuccessor(tok[r])
      ~> target[r] \in revoked \union expired \/ pc[r] = "lost"
=============================================================================
