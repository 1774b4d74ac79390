------------------------------ MODULE Browser ------------------------------
(***************************************************************************)
(* The web client's session: the transport (lib/api.ts) and the auth store *)
(* of every tab, over the server of module AuthSessions, which this module *)
(* instantiates and drives.  Tabs of one browser share its cookies, the    *)
(* refresh token and the CSRF token; the access token, the CSRF token to   *)
(* send and the refresh in flight are variables of each page.              *)
(*                                                                         *)
(* A request is sent and first read by the server in one step; the answer  *)
(* sets or clears cookies when it arrives, which may be never.             *)
(***************************************************************************)
EXTENDS Naturals, FiniteSets

CONSTANTS
  Tabs,       \* pages of one browser that may be open
  Home,       \* the one that is open at first
  Sessions,   \* as in AuthSessions
  Tokens,     \* as in AuthSessions
  Requests,   \* POST requests to /auth, each used once
  MayFail,    \* as in AuthSessions
  None

ASSUME BrowserAssumption ==
  /\ Home \in Tabs /\ MayFail \in BOOLEAN
  /\ None \notin Tabs \union Requests \union Sessions \union Tokens
  /\ Sessions \intersect Tokens = {}

VARIABLES
  sessions, sess, parent, revoked, reused, expired, delivered,
  pc, tok, target, dead, late, made, mode,   \* the server: see AuthSessions
  jar,      \* the refresh cookie
  csrfOf,   \* the tab whose CSRF token the CSRF cookie holds
  status,   \* status[t]: that of the auth store, or "closed": no page
  access,   \* access[t]: the session of the access token in memory
  armed,    \* tabs with the refresh timer running
  csrf,     \* tabs with a CSRF token in memory (csrfToken)
  flight,   \* flight[t]: refreshPromise
  call,     \* call[t]: the user's call the tab has under way
  waits,    \* waits[t]: the request that call awaits
  owner,    \* owner[r]: the tab that awaits request r
  place,    \* place[r]: where request r is
  purpose,  \* purpose[r]: what r asks for
  mishaps,  \* kinds of accident so far (history)
  left      \* sessions that some page signed out of (history)

Srv == INSTANCE AuthSessions

server == <<sessions, sess, parent, revoked, reused, expired, delivered,
            pc, tok, target, dead, late, made, mode>>
cookies == <<jar, csrfOf>>
store == <<status, access, armed>>
transport == <<csrf, flight>>
calls == <<call, waits>>
requests == <<owner, place, purpose>>
history == <<mishaps, left>>
page == <<store, transport, calls>>
vars == <<server, cookies, page, requests, history>>

Statuses == {"closed", "booting", "authenticated", "anonymous"}
Calls == {"none", "data", "login", "badLogin", "logout", "logoutAgain"}

(* "raced": two tabs refreshed with one token, a page was left during a    *)
(* request, an answer was lost; "cut": a page signed out during a refresh; *)
(* "mixed": a tab took over the CSRF cookie or the session cookie of       *)
(* another, cleared the cookie of a later session, or went over to another *)
(* session while it signed out; "garbled": an answer arrived, and with it  *)
(* its cookie, but its body could not be read.                             *)
Mishaps == {"raced", "cut", "mixed", "garbled"}

TypeOK ==
  /\ Srv!TypeOK
  /\ jar \in Tokens \union {None}
  /\ csrfOf \in Tabs \union {None}
  /\ status \in [Tabs -> Statuses]
  /\ access \in [Tabs -> Sessions \union {None}]
  /\ armed \subseteq Tabs /\ csrf \subseteq Tabs
  /\ flight \in [Tabs -> Requests \union {None}]
  /\ call \in [Tabs -> Calls]
  /\ waits \in [Tabs -> Requests \union {None}]
  /\ owner \in [Requests -> Tabs \union {None}]
  /\ place \in [Requests -> {"new", "csrf", "sent", "forbidden", "unauthorized", "served", "closed"}]
  /\ purpose \in [Requests -> {"refresh", "login", "logout"}]
  /\ mishaps \subseteq Mishaps
  /\ left \subseteq Sessions

(* One page, that has found no session: the browser has no cookie.         *)
Init ==
  /\ Srv!Init
  /\ jar = None /\ csrfOf = None
  /\ status = [t \in Tabs |-> IF t = Home THEN "anonymous" ELSE "closed"]
  /\ access = [t \in Tabs |-> None]
  /\ armed = {} /\ csrf = {}
  /\ flight = [t \in Tabs |-> None]
  /\ call = [t \in Tabs |-> "none"]
  /\ waits = [t \in Tabs |-> None]
  /\ owner = [r \in Requests |-> None]
  /\ place = [r \in Requests |-> "new"]
  /\ purpose = [r \in Requests |-> "refresh"]
  /\ mishaps = {} /\ left = {}

-----------------------------------------------------------------------------
(* Requests and their answers.                                             *)

Refreshes(r) == purpose[r] = "refresh" /\ place[r] \notin {"new", "closed"}

(* What requireAuth may say of the access token of tab t: its time can be  *)
(* up whenever it is used, but not so soon as in a retry after a refresh.  *)
Accepted(t) == access[t] # None /\ access[t] \notin revoked
Rejected(t) == access[t] \in revoked \/ call[t] # "logoutAgain"

(* The answer to r is on its way or has come; the revocation that a lost   *)
(* race to rotate starts goes on behind it.                                *)
Answered(r) ==
  \/ place[r] \in {"forbidden", "unauthorized", "served"}
  \/ /\ place[r] = "sent"
     /\ pc[r] \in {"granted", "refused", "ended", "lost"} \/ mode[r] = "race"

Succeeded(r) ==
  \/ place[r] = "served"
  \/ place[r] = "sent" /\ pc[r] = "granted" /\ made[r] \in delivered
  \/ place[r] = "sent" /\ pc[r] = "ended"

(* The next unused request, the next unused row; which one does not matter.*)
IsNext(r) == place[r] = "new" /\ r = CHOOSE q \in Requests : place[q] = "new"
NextToken == CHOOSE t \in Tokens : sess[t] = None \/ \A u \in Tokens : sess[u] # None
NextSession == CHOOSE s \in Sessions : s \notin sessions \/ sessions = Sessions

(* A request of tab t takes the first step of execute: it needs a CSRF     *)
(* token.                                                                  *)
Begin(t, r, what) ==
  /\ IsNext(r)
  /\ place' = [place EXCEPT ![r] = "csrf"]
  /\ owner' = [owner EXCEPT ![r] = t]
  /\ purpose' = [purpose EXCEPT ![r] = what]

(* Mutant: every caller starts a refresh of its own.                       *)
RefreshSessionEach(t, r) ==
  /\ Begin(t, r, "refresh")
  /\ flight' = [flight EXCEPT ![t] = r]

(* refreshSession: r is the refresh in flight, a new one if there is none. *)
RefreshSession(t, r) ==
  \/ flight[t] = r /\ UNCHANGED <<requests, flight>>
  \/ /\ flight[t] = None
     /\ Begin(t, r, "refresh")
     /\ flight' = [flight EXCEPT ![t] = r]

(* Mutant: no timer for a session that a refresh brought.                  *)
SetSessionUntimed(t, s) ==
  /\ status' = [status EXCEPT ![t] = "authenticated"]
  /\ access' = [access EXCEPT ![t] = s]
  /\ armed' = armed \ {t}

SetSession(t, s) ==
  /\ status' = [status EXCEPT ![t] = "authenticated"]
  /\ access' = [access EXCEPT ![t] = s]
  /\ armed' = armed \union {t}

ClearSession(t) ==
  /\ status' = [status EXCEPT ![t] = "anonymous"]
  /\ access' = [access EXCEPT ![t] = None]
  /\ armed' = armed \ {t}

EndCall(t) ==
  /\ call' = [call EXCEPT ![t] = "none"]
  /\ waits' = [waits EXCEPT ![t] = None]

-----------------------------------------------------------------------------
(* Pages.                                                                  *)

(* A page loads, or reloads: bootstrapSession.                             *)
Open(t, r) ==
  /\ status[t] = "closed"
  /\ status' = [status EXCEPT ![t] = "booting"]
  /\ RefreshSession(t, r)
  /\ UNCHANGED <<server, cookies, access, armed, csrf, calls, history>>

(* The page goes, with what it had in memory and the requests it awaited.  *)
Close(t) ==
  /\ status[t] # "closed"
  /\ status' = [status EXCEPT ![t] = "closed"]
  /\ access' = [access EXCEPT ![t] = None]
  /\ armed' = armed \ {t} /\ csrf' = csrf \ {t}
  /\ flight' = [flight EXCEPT ![t] = None]
  /\ EndCall(t)
  /\ owner' = [r \in Requests |-> IF owner[r] = t THEN None ELSE owner[r]]
  /\ place' = [r \in Requests |->
                 IF owner[r] = t /\ place[r] # "sent" THEN "closed" ELSE place[r]]
  /\ mishaps' = IF \E r \in Requests : owner[r] = t /\ place[r] = "sent"
                  THEN mishaps \union {"raced"} ELSE mishaps
  /\ UNCHANGED <<server, cookies, purpose, left>>

(* fetchCsrfToken, for a request of the page that needs the token.         *)
FetchCsrf(t) ==
  /\ t \notin csrf
  /\ \E r \in Requests : owner[r] = t /\ place[r] = "csrf"
  /\ csrf' = csrf \union {t}
  /\ csrfOf' = t
  /\ UNCHANGED <<server, jar, store, flight, calls, requests, history>>

TimerFires(t, r) ==
  /\ t \in armed
  /\ armed' = armed \ {t}
  /\ RefreshSession(t, r)
  /\ UNCHANGED <<server, cookies, status, access, csrf, calls, history>>

(* apiRequest, apiBlobRequest: a call that is answered 401 awaits the      *)
(* refresh.  One that is accepted changes nothing here.                    *)
Unauthorized(t, r) ==
  /\ call[t] = "none"
  /\ \/ /\ status[t] = "authenticated" /\ Rejected(t)
        /\ call' = [call EXCEPT ![t] = "data"]
     \/ /\ status[t] = "anonymous" /\ t \in csrf /\ csrfOf = t
        /\ call' = [call EXCEPT ![t] = "badLogin"]
  /\ waits' = [waits EXCEPT ![t] = r]
  /\ RefreshSession(t, r)
  /\ UNCHANGED <<server, cookies, store, csrf, history>>

(* The user signs in or out: the page sends a request of its own.          *)
Ask(t, r) ==
  /\ call[t] = "none"
  /\ \/ /\ status[t] = "anonymous"
        /\ Begin(t, r, "login")
        /\ call' = [call EXCEPT ![t] = "login"]
     \/ /\ status[t] = "authenticated"
        /\ Begin(t, r, "logout")
        /\ call' = [call EXCEPT ![t] = "logout"]
  /\ waits' = [waits EXCEPT ![t] = r]
  /\ UNCHANGED <<server, cookies, store, transport, history>>

-----------------------------------------------------------------------------
(* A request reaches the server: requireCsrf, requireAuth, the handler.    *)

Arrive(r, where) == place' = [place EXCEPT ![r] = where]

Forbid(r) ==
  /\ csrfOf # owner[r]
  /\ Arrive(r, "forbidden")
  /\ mishaps' = mishaps \union {"mixed"}
  /\ UNCHANGED server

SendRefresh(r) ==
  /\ purpose[r] = "refresh" /\ csrfOf = owner[r]
  /\ \/ jar = None /\ Arrive(r, "unauthorized") /\ UNCHANGED <<server, mishaps>>
     \/ /\ jar # None
        /\ Srv!RefreshRead(r, jar)
        /\ Arrive(r, "sent")
        /\ mishaps' = IF \E q \in Requests \ {r} :
                            /\ place[q] = "sent" /\ purpose[q] = "refresh"
                            /\ owner[q] \notin {owner[r], None} /\ tok[q] = jar
                        THEN mishaps \union {"raced"} ELSE mishaps

SendLogin(r) ==
  /\ purpose[r] = "login" /\ csrfOf = owner[r]
  /\ \E s \in Sessions : s = NextSession /\ Srv!Login(r, s)
  /\ Arrive(r, "sent")
  /\ UNCHANGED mishaps

SendLogout(r) ==
  /\ purpose[r] = "logout" /\ csrfOf = owner[r]
  /\ \/ Rejected(owner[r]) /\ Arrive(r, "unauthorized") /\ UNCHANGED server
     \/ Accepted(owner[r]) /\ jar = None /\ Arrive(r, "served") /\ UNCHANGED server
     \/ /\ Accepted(owner[r]) /\ jar # None
        /\ Srv!LogoutRead(r, jar)
        /\ Arrive(r, "sent")
  /\ UNCHANGED mishaps

Send(r) ==
  /\ place[r] = "csrf" /\ owner[r] \in csrf
  /\ Forbid(r) \/ SendRefresh(r) \/ SendLogin(r) \/ SendLogout(r)
  /\ UNCHANGED <<cookies, page, owner, purpose, left>>

(* The handler of r goes on.                                               *)
Serve(r) ==
  /\ \/ Srv!FindSuccessor(r) \/ Srv!IssueSession(r) \/ Srv!RetireToken(r)
     \/ Srv!KillTokens(r) \/ Srv!KillSession(r) \/ Srv!MarkReused(r)
     \/ \E t \in Tokens : t = NextToken /\ (Srv!FirstToken(r, t) \/ Srv!CreateSuccessor(r, t))
  /\ UNCHANGED <<cookies, page, requests, history>>

(* Mutant: the answer to a refresh leaves the old cookie in place.         *)
DeliverTokenOnly(r) ==
  /\ Srv!Reply(r)
  /\ jar' = IF made[r] \in delivered' /\ purpose[r] = "login" THEN made[r] ELSE jar
  /\ mishaps' = IF made[r] \in delivered' THEN mishaps ELSE mishaps \union {"raced"}
  /\ UNCHANGED <<csrfOf, page, requests, left>>

(* The answer of a login or a refresh arrives, with its cookie, or not.    *)
Deliver(r) ==
  /\ Srv!Reply(r)
  /\ IF made[r] \in delivered'
       THEN /\ jar' = made[r]
            /\ mishaps' = IF jar # None /\ sess[jar] # target[r]
                            THEN mishaps \union {"mixed"} ELSE mishaps
       ELSE mishaps' = mishaps \union {"raced"} /\ UNCHANGED jar
  /\ UNCHANGED <<csrfOf, page, requests, left>>

Fail(r) ==
  /\ Srv!Fail(r)
  /\ mishaps' = mishaps \union {"raced"}
  /\ UNCHANGED <<cookies, page, requests, left>>

(* Another device ends every session of the user.                          *)
ResetElsewhere(r) ==
  /\ IsNext(r)
  /\ Srv!ResetSessions(r)
  /\ Arrive(r, "closed")
  /\ UNCHANGED <<cookies, page, owner, purpose, history>>

-----------------------------------------------------------------------------
(* The page takes the answer.                                              *)

Finish(r) ==
  /\ place' = [place EXCEPT ![r] = "closed"]
  /\ owner' = [owner EXCEPT ![r] = None]
  /\ UNCHANGED purpose

(* hardLogout, after the logout request whatever came of it; a refresh of  *)
(* the page that goes on was cut.                                          *)
HardLogout(t, accident) ==
  /\ csrf' = csrf \ {t}
  /\ flight' = [flight EXCEPT ![t] = None]
  /\ ClearSession(t)
  /\ EndCall(t)
  /\ left' = left \union ({access[t]} \ {None})
  /\ mishaps' = mishaps \union accident
       \union {m \in {"cut"} : \E q \in Requests : owner'[q] = t /\ Refreshes(q)}

(* The refresh brought a session; the calls that await it are retried.     *)
Refreshed(r, t) ==
  /\ SetSession(t, target[r])
  /\ flight' = [flight EXCEPT ![t] = None]
  /\ mishaps' = IF waits[t] # r /\ call[t] \in {"logout", "logoutAgain"} /\ access[t] # target[r]
                  THEN mishaps \union {"mixed"} ELSE mishaps
  /\ UNCHANGED <<csrf, left>>
  /\ \/ /\ waits[t] = r /\ call[t] = "logout"
        /\ \E q \in Requests :
             /\ IsNext(q)
             /\ place' = [place EXCEPT ![q] = "csrf", ![r] = "closed"]
             /\ owner' = [owner EXCEPT ![q] = t, ![r] = None]
             /\ purpose' = [purpose EXCEPT ![q] = "logout"]
             /\ waits' = [waits EXCEPT ![t] = q]
        /\ call' = [call EXCEPT ![t] = "logoutAgain"]
     \/ /\ waits[t] = r /\ call[t] # "logout"
        /\ EndCall(t) /\ Finish(r)
     \/ waits[t] # r /\ UNCHANGED calls /\ Finish(r)

(* Mutant: an error only ends a session that was there.                    *)
ExpiredSession(r, t) ==
  /\ Finish(r)
  /\ \/ waits[t] = r /\ call[t] = "logout" /\ HardLogout(t, {})
     \/ /\ waits[t] # r \/ call[t] # "logout"
        /\ IF access[t] # None THEN ClearSession(t) ELSE UNCHANGED store
        /\ flight' = [flight EXCEPT ![t] = None]
        /\ UNCHANGED <<csrf, history>>
        /\ IF waits[t] = r THEN EndCall(t) ELSE UNCHANGED calls

(* It brought an error: onSessionExpired; the calls that await it fail.    *)
Expired(r, t) ==
  /\ Finish(r)
  /\ \/ waits[t] = r /\ call[t] = "logout" /\ HardLogout(t, {})
     \/ /\ waits[t] # r \/ call[t] # "logout"
        /\ ClearSession(t)
        /\ flight' = [flight EXCEPT ![t] = None]
        /\ UNCHANGED <<csrf, history>>
        /\ IF waits[t] = r THEN EndCall(t) ELSE UNCHANGED calls

(* parseEnvelope throws, which is no ApiClientError: the refresh failed,   *)
(* but the store is not told (isApiClientError), except by the boot, which *)
(* gives up its session itself.                                            *)
Unreadable(r, t) ==
  /\ Finish(r)
  /\ \/ waits[t] = r /\ call[t] = "logout" /\ HardLogout(t, {"garbled"})
     \/ /\ waits[t] # r \/ call[t] # "logout"
        /\ IF status[t] = "booting" THEN ClearSession(t) ELSE UNCHANGED store
        /\ flight' = [flight EXCEPT ![t] = None]
        /\ mishaps' = mishaps \union {"garbled"}
        /\ UNCHANGED <<csrf, left>>
        /\ IF waits[t] = r THEN EndCall(t) ELSE UNCHANGED calls

ReceiveRefresh(r) ==
  /\ Refreshes(r) /\ owner[r] # None /\ Answered(r)
  /\ \/ Succeeded(r) /\ Refreshed(r, owner[r])
     \/ ~Succeeded(r) /\ Expired(r, owner[r])
     \/ Unreadable(r, owner[r])
  /\ UNCHANGED <<server, cookies>>

ReceiveLogin(r) ==
  /\ purpose[r] = "login" /\ owner[r] # None /\ Answered(r)
  /\ Finish(r)
  /\ EndCall(owner[r])
  /\ \/ Succeeded(r) /\ SetSession(owner[r], target[r]) /\ UNCHANGED mishaps
     \/ ~Succeeded(r) /\ UNCHANGED <<store, mishaps>>
     \/ mishaps' = mishaps \union {"garbled"} /\ UNCHANGED store
  /\ UNCHANGED <<server, cookies, transport, left>>

(* The answer to logout r clears the cookie of another session.            *)
Outdated(r) == jar # None /\ jar' = None /\ sess[jar] # target[r]

(* Mutant: a logout that is answered 401 is not retried.                   *)
ReceiveLogoutOnce(r) ==
  /\ purpose[r] = "logout" /\ owner[r] # None /\ Answered(r)
  /\ IF Succeeded(r) THEN jar' \in {jar, None} ELSE UNCHANGED jar
  /\ Finish(r)
  /\ HardLogout(owner[r], {m \in {"mixed"} : Outdated(r)})
  /\ UNCHANGED <<server, csrfOf>>

(* The answer to a logout clears the cookie, if it arrives.  A 401 that    *)
(* cannot be read is like any other error.                                 *)
ReceiveLogout(r) ==
  /\ purpose[r] = "logout" /\ owner[r] # None /\ Answered(r)
  /\ IF Succeeded(r) THEN jar' \in {jar, None} ELSE UNCHANGED jar
  /\ \/ /\ place[r] = "unauthorized" /\ call[owner[r]] = "logout"
        /\ \E q \in Requests \ {r} :
             /\ flight[owner[r]] \in {q, None}
             /\ flight[owner[r]] = None => IsNext(q)
             /\ place' = [place EXCEPT ![r] = "closed",
                            ![q] = IF flight[owner[r]] = q THEN place[q] ELSE "csrf"]
             /\ owner' = [owner EXCEPT ![r] = None, ![q] = owner[r]]
             /\ flight' = [flight EXCEPT ![owner[r]] = q]
             /\ waits' = [waits EXCEPT ![owner[r]] = q]
        /\ UNCHANGED <<store, csrf, call, purpose, history>>
     \/ /\ Finish(r)
        /\ HardLogout(owner[r],
             IF place[r] = "unauthorized" /\ call[owner[r]] = "logout" THEN {"garbled"}
             ELSE {m \in {"mixed"} : Outdated(r)})
  /\ UNCHANGED <<server, csrfOf>>

(* No page awaits the answer any more; a logout may still clear the cookie.*)
ReceiveNone(r) ==
  /\ place[r] = "sent" /\ owner[r] = None /\ Answered(r)
  /\ IF pc[r] = "ended" THEN jar' \in {jar, None} ELSE UNCHANGED jar
  /\ Finish(r)
  /\ UNCHANGED <<server, csrfOf, page, history>>

Receive(r) == ReceiveRefresh(r) \/ ReceiveLogin(r) \/ ReceiveLogout(r) \/ ReceiveNone(r)

Next ==
  \/ \E t \in Tabs : Close(t) \/ FetchCsrf(t)
  \/ \E t \in Tabs, r \in Requests :
       Open(t, r) \/ TimerFires(t, r) \/ Unauthorized(t, r) \/ Ask(t, r)
  \/ \E r \in Requests :
       Send(r) \/ Serve(r) \/ Deliver(r) \/ Fail(r) \/ ResetElsewhere(r) \/ Receive(r)

Spec == Init /\ [][Next]_vars

(* Servers answer, networks deliver or fail, timers fire, promises settle. *)
FairSpec ==
  /\ Spec
  /\ \A t \in Tabs : WF_vars(FetchCsrf(t)) /\ WF_vars(\E r \in Requests : TimerFires(t, r))
  /\ \A r \in Requests : WF_vars(Send(r) \/ Serve(r) \/ Deliver(r) \/ Receive(r))

-----------------------------------------------------------------------------
(* Properties.                                                             *)

(* A browser does not trip the alarm for replayed tokens by itself, unless *)
(* two tabs refreshed together, a page was left or signed out while it     *)
(* refreshed, or an answer was lost.  One that arrived but could not be    *)
(* read does no harm: its cookie is there.                                 *)
NoSelfReplay ==
  mishaps \subseteq {"mixed", "garbled"} =>
    \A r \in Requests : mode[r] \notin {"reuse", "race"}

(* A page has one refresh under way, unless it signed out during one.      *)
OneFlightPerTab ==
  "cut" \notin mishaps =>
    \A q, r \in Requests :
      Refreshes(q) /\ Refreshes(r) /\ owner[q] = owner[r] /\ owner[q] # None => q = r

(* A session that a page signed out of is revoked, or just about to be,    *)
(* unless there was an accident.                                           *)
LogoutRevokes ==
  mishaps = {} =>
    \A s \in left : s \in revoked \/ \E r \in Requests : pc[r] = "killSession" /\ target[r] = s

(* A page never stays booting.                                             *)
BootEnds == \A t \in Tabs : status[t] = "booting" ~> status[t] # "booting"

(* A page does not stay signed in to a session that was revoked, unless it *)
(* could not read an answer: then its timer may be used up.                *)
RevocationNoticed ==
  \A t \in Tabs :
    access[t] \in revoked
      ~> \/ access[t] \notin revoked \/ "garbled" \in mishaps
         \/ \A r \in Requests : place[r] # "new"
=============================================================================
