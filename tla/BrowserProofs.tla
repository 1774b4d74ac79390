--------------------------- MODULE BrowserProofs ---------------------------
(***************************************************************************)
(* Proofs about the browser: a page has one refresh in flight; without an  *)
(* accident worse than cookies that tabs mix and answers that cannot be    *)
(* read no page trips the alarm for replayed tokens; and without any       *)
(* accident every page that signs out ends its session.  Every step of the *)
(* browser is one of module AuthSessions or leaves the server alone.       *)
(***************************************************************************)
EXTENDS Browser, TLAPS

(* What requests under way hold on the server.                             *)
ServerInv ==
  /\ Srv!TypeOK
  /\ \A t \in delivered : sess[t] \in Sessions
  /\ \A r \in Requests :
       /\ made[r] # None => sess[made[r]] \in Sessions
       /\ pc[r] \in {"retire", "reply"} => made[r] \in Tokens
       /\ pc[r] \in {"firstToken", "successor", "issue", "create", "retire", "killTokens", "killSession"}
            => target[r] \in Sessions
       /\ pc[r] \in {"successor", "issue", "create", "retire", "mark"} \/ mode[r] = "reuse"
            => tok[r] \in Tokens

(* The parts of a page stay within their types.                            *)
PageTypes ==
  /\ jar \in Tokens \union {None}
  /\ csrfOf \in Tabs \union {None}
  /\ status \in [Tabs -> Statuses]
  /\ access \in [Tabs -> Sessions \union {None}]
  /\ armed \subseteq Tabs /\ csrf \subseteq Tabs
  /\ flight \in [Tabs -> Requests \union {None}]
  /\ call \in [Tabs -> Calls]
  /\ waits \in [Tabs -> Requests \union {None}]
  /\ owner \in [Requests -> Tabs \union {None}]
  /\ place \in [Requests -> {"new", "csrf", "sent", "forbidden", "unauthorized", "served", "closed"}]
  /\ purpose \in [Requests -> {"refresh", "login", "logout"}]
  /\ mishaps \subseteq Mishaps
  /\ left \subseteq Sessions

(* The refresh in flight is a refresh of the page, and as long as no page  *)
(* signed out during one, every refresh of a page is the one in flight.    *)
Fresh == \A r \in Requests : place[r] = "new" => purpose[r] = "refresh" /\ owner[r] = None
FlightKept ==
  \A t \in Tabs : flight[t] # None => owner[flight[t]] = t /\ Refreshes(flight[t])
AllInFlight ==
  "cut" \notin mishaps =>
    \A r \in Requests : Refreshes(r) /\ owner[r] # None => flight[owner[r]] = r

Page == PageTypes /\ Fresh /\ FlightKept /\ AllInFlight

IInv == ServerInv /\ Page

(* What requests hold of tokens: who presents one has it from a client,    *)
(* who made one has it alone, and every rotation has its request.          *)
Holding ==
  \A r \in Requests :
    /\ pc[r] = "idle" => tok[r] = None
    /\ tok[r] # None => tok[r] \in delivered /\ sess[tok[r]] = target[r]
    /\ made[r] # None => pc[r] \in {"retire", "reply", "granted", "lost"} /\ sess[made[r]] = target[r]
    /\ pc[r] \in {"retire", "reply"} => made[r] \notin delivered
Makers ==
  /\ \A q, r \in Requests : made[q] # None /\ made[q] = made[r] => q = r
  /\ \A k \in Tokens : parent[k] # None => \E r \in Requests : made[r] = k /\ tok[r] = parent[k]

Chain ==
  /\ Holding /\ Makers
  /\ \A k \in Tokens \intersect revoked : sess[k] \in Sessions

(* A page waits for its own login or logout, and for nothing else then.    *)
Waiting ==
  \A r \in Requests : purpose[r] # "refresh" /\ owner[r] # None =>
    /\ waits[owner[r]] = r
    /\ purpose[r] = "login" => call[owner[r]] = "login"
    /\ purpose[r] = "logout" => call[owner[r]] \in {"logout", "logoutAgain"}

(* A page without a session refreshes only for a call that was refused,    *)
(* and so not while somebody signs in.                                     *)
SigningIn ==
  "cut" \notin mishaps => \A t \in Tabs :
    /\ t \in armed => status[t] = "authenticated"
    /\ call[t] = "login" => status[t] = "anonymous"
    /\ status[t] = "closed" => flight[t] = None /\ call[t] = "none"
    /\ status[t] = "anonymous" /\ call[t] \in {"none", "login"} => flight[t] = None

(* As long as nothing worse happened than tabs that mix their cookies and  *)
(* answers that cannot be read.                                            *)
Calm == mishaps \subseteq {"mixed", "garbled"}

Before == {"new", "csrf", "forbidden", "unauthorized", "served"}
Presents(r) == place[r] = "sent" /\ purpose[r] = "refresh"

(* Where the handler of a request can be, and why it would revoke.         *)
Handlers ==
  \A r \in Requests :
    /\ mode[r] \in {"none", "logout"}
    /\ place[r] \in Before => pc[r] = "idle" /\ mode[r] = "none"
    /\ place[r] = "closed" => pc[r] \in {"idle", "granted", "refused", "ended"}
    /\ place[r] = "sent" => owner[r] # None
    /\ place[r] = "sent" /\ purpose[r] = "login" =>
         mode[r] = "none" /\ tok[r] = None /\ pc[r] \in {"firstToken", "reply", "granted"}
    /\ Presents(r) =>
         /\ mode[r] = "none" /\ tok[r] # None
         /\ pc[r] \in {"successor", "issue", "create", "retire", "reply", "granted", "refused"}
    /\ place[r] = "sent" /\ purpose[r] = "logout" =>
         mode[r] = "logout" /\ pc[r] \in {"killTokens", "killSession", "ended"}

(* A token is presented by one refresh at a time, and never again once it  *)
(* was rotated: the answer to the rotation replaced it in the cookie.      *)
Once ==
  /\ reused = {}
  /\ \A q, r \in Requests : Presents(q) /\ Presents(r) /\ tok[q] = tok[r] => q = r
  /\ \A r \in Requests : made[r] # None /\ tok[r] # None =>
       /\ pc[r] = "granted" => jar # tok[r]
       /\ \A q \in Requests \ {r} : Presents(q) => tok[q] # tok[r]
  /\ \A r \in Requests :
       /\ pc[r] = "granted" => made[r] \in delivered
       /\ Presents(r) /\ pc[r] = "refused" => dead[r]

CalmInv == Calm => Handlers /\ Once

(* A session that is revoked, or whose revocation is one statement away.   *)
Doomed(s) == s \in revoked \/ \E r \in Requests : pc[r] = "killSession" /\ target[r] = s
Safe(t) == access[t] = None \/ Doomed(access[t])
Rotated(k) == \E r \in Requests : tok[r] = k /\ made[r] # None

(* The cookie is of the one session that is alive, and pages are in none   *)
(* but those the browser had a cookie of.                                  *)
Cookie ==
  /\ \A k \in delivered : sess[k] \notin revoked => jar # None /\ sess[jar] = sess[k]
  /\ \A t \in Tabs : access[t] # None => \E k \in delivered : sess[k] = access[t]

(* A token that is revoked was rotated, or its session goes too.           *)
Deaths ==
  /\ \A k \in Tokens \intersect revoked : Rotated(k) \/ Doomed(sess[k])
  /\ \A r \in Requests : Presents(r) /\ dead[r] => Rotated(tok[r]) \/ Doomed(target[r])
  /\ \A r \in Requests : place[r] = "sent" /\ pc[r] = "ended" => target[r] \in revoked

(* A request is about the session its page is in, and where the server     *)
(* says no, that session is gone.                                          *)
Answers ==
  \A r \in Requests :
    /\ place[r] \notin {"served", "forbidden"}
    /\ owner[r] # None /\ place[r] = "sent" /\ purpose[r] # "login" =>
         access[owner[r]] = target[r] \/ Safe(owner[r])
    /\ owner[r] # None /\ place[r] = "unauthorized" =>
         ((purpose[r] = "refresh" \/ call[owner[r]] = "logoutAgain") => Safe(owner[r]))

PeaceInv == mishaps = {} => Cookie /\ Deaths /\ Answers /\ \A s \in left : Doomed(s)

-----------------------------------------------------------------------------
(* The server.                                                             *)

(* Every step of the browser is a step of the server, or leaves it alone.  *)
LEMMA StepServes ==
  ASSUME jar \in Tokens \union {None}, [Next]_vars
  PROVE  Srv!Next \/ UNCHANGED server
<1>1. CASE UNCHANGED vars
  BY <1>1 DEF vars
<1>2. ASSUME NEW t \in Tabs, Close(t) \/ FetchCsrf(t)
      PROVE  UNCHANGED server
  BY <1>2 DEF Close, FetchCsrf
<1>3. ASSUME NEW t \in Tabs, NEW r \in Requests,
             Open(t, r) \/ TimerFires(t, r) \/ Unauthorized(t, r) \/ Ask(t, r)
      PROVE  UNCHANGED server
  BY <1>3 DEF Open, TimerFires, Unauthorized, Ask
<1>4. ASSUME NEW r \in Requests, Send(r)
      PROVE  Srv!Next \/ UNCHANGED server
  <2>1. CASE Forbid(r)
    BY <2>1 DEF Forbid
  <2>2. CASE SendRefresh(r)
    BY <2>2 DEF SendRefresh, Srv!Next
  <2>3. CASE SendLogin(r)
    BY <2>3 DEF SendLogin, Srv!Next
  <2>4. CASE SendLogout(r)
    BY <2>4 DEF SendLogout, Srv!Next
  <2> QED
    BY <1>4, <2>1, <2>2, <2>3, <2>4 DEF Send
<1>5. ASSUME NEW r \in Requests, Serve(r) \/ Deliver(r) \/ Fail(r) \/ ResetElsewhere(r)
      PROVE  Srv!Next
  BY <1>5 DEF Serve, Deliver, Fail, ResetElsewhere, Srv!Next, Srv!Advance
<1>6. ASSUME NEW r \in Requests, Receive(r)
      PROVE  UNCHANGED server
  BY <1>6 DEF Receive, ReceiveRefresh, ReceiveLogin, ReceiveLogout, ReceiveNone
<1> QED
  BY <1>1, <1>2, <1>3, <1>4, <1>5, <1>6 DEF Next

(* The server keeps its invariant.                                         *)
LEMMA ServerKeeps ==
  ASSUME ServerInv, Srv!Next \/ UNCHANGED server
  PROVE  ServerInv'
<1> USE BrowserAssumption DEF ServerInv, Srv!TypeOK, Srv!Places, Srv!Modes
<1>1. CASE UNCHANGED server
  BY <1>1 DEF server
<1>2. ASSUME NEW x \in Sessions \union Tokens, Srv!Expires(x)
      PROVE  ServerInv'
  BY <1>2 DEF Srv!Expires, Srv!rows, Srv!request
<1>3. ASSUME NEW r \in Requests, NEW s \in Sessions, Srv!Login(r, s) \/ Srv!LogoutAll(r, s)
      PROVE  ServerInv'
  BY <1>3 DEF Srv!Login, Srv!LogoutAll, Srv!RevokeAllSessions, Srv!Goto, Srv!world, Srv!links
<1>4. ASSUME NEW r \in Requests, NEW t \in Tokens, Srv!RefreshRead(r, t) \/ Srv!LogoutRead(r, t)
      PROVE  ServerInv'
  <2>1. CASE Srv!LogoutRead(r, t)
    BY <2>1 DEF Srv!LogoutRead, Srv!Goto, Srv!rows, Srv!world
  <2>2. CASE Srv!RefreshRead(r, t)
    <3>1. PICK seen \in BOOLEAN : dead' = [dead EXCEPT ![r] = seen]
      BY <2>2 DEF Srv!RefreshRead, Srv!LooksDead
    <3>2. dead' \in [Requests -> BOOLEAN]
      BY <3>1
    <3>3. /\ t \in delivered /\ pc[r] = "idle"
          /\ tok' = [tok EXCEPT ![r] = t]
          /\ target' = [target EXCEPT ![r] = sess[t]]
          /\ late' \in {late, late \union {r}}
          /\ \/ mode' = [mode EXCEPT ![r] = "expired"] /\ pc' = [pc EXCEPT ![r] = "killTokens"]
             \/ pc' = [pc EXCEPT ![r] = "refused"] /\ UNCHANGED mode
             \/ pc' = [pc EXCEPT ![r] = "successor"] /\ UNCHANGED mode
          /\ UNCHANGED <<sessions, sess, parent, revoked, reused, expired, delivered, made>>
      BY <2>2 DEF Srv!RefreshRead, Srv!Goto, Srv!rows, Srv!world
    <3> QED
      BY <3>2, <3>3
  <2> QED
    BY <1>4, <2>1, <2>2
<1>5. ASSUME NEW r \in Requests, Srv!ResetSessions(r) \/ Srv!Fail(r)
      PROVE  ServerInv'
  BY <1>5 DEF Srv!ResetSessions, Srv!Fail, Srv!RevokeAllSessions, Srv!Goto, Srv!rows, Srv!world, Srv!links, Srv!request
<1>6. ASSUME NEW r \in Requests, Srv!Advance(r)
      PROVE  ServerInv'
  <2>1. CASE Srv!FindSuccessor(r) \/ Srv!IssueSession(r)
    BY <2>1 DEF Srv!FindSuccessor, Srv!IssueSession, Srv!Goto, Srv!rows, Srv!world, Srv!request
  <2>2. CASE Srv!RetireToken(r) \/ Srv!KillTokens(r) \/ Srv!MarkReused(r)
    BY <2>2 DEF Srv!RetireToken, Srv!KillTokens, Srv!MarkReused, Srv!Goto, Srv!links, Srv!world, Srv!request
  <2>3. CASE Srv!KillSession(r)
    <3>1. PICK next \in {"mark", "ended", "refused"} :
            pc' = [pc EXCEPT ![r] = next] /\ (next = "mark" => mode[r] = "reuse")
      <4>1. CASE mode[r] = "reuse"
        BY <2>3, <4>1 DEF Srv!KillSession, Srv!Goto
      <4>2. CASE mode[r] = "logout"
        BY <2>3, <4>2 DEF Srv!KillSession, Srv!Goto
      <4>3. CASE mode[r] # "reuse" /\ mode[r] # "logout"
        BY <2>3, <4>3 DEF Srv!KillSession, Srv!Goto
      <4> QED
        BY <4>1, <4>2, <4>3
    <3>2. pc[r] = "killSession" /\ revoked' = revoked \union {target[r]}
          /\ UNCHANGED <<Srv!links, reused, Srv!world, Srv!request>>
      BY <2>3 DEF Srv!KillSession
    <3> QED
      BY <3>1, <3>2 DEF Srv!links, Srv!world, Srv!request
  <2>4. CASE Srv!Reply(r)
    BY <2>4 DEF Srv!Reply, Srv!Goto, Srv!rows, Srv!request
  <2>5. ASSUME NEW t \in Tokens, Srv!FirstToken(r, t)
        PROVE  ServerInv'
    BY <2>5 DEF Srv!FirstToken, Srv!InsertToken, Srv!Exists, Srv!Goto, Srv!world
  <2>6. ASSUME NEW t \in Tokens, Srv!CreateSuccessor(r, t)
        PROVE  ServerInv'
    BY <2>6 DEF Srv!CreateSuccessor, Srv!InsertToken, Srv!Exists, Srv!Goto, Srv!world
  <2> QED
    BY <1>6, <2>1, <2>2, <2>3, <2>4, <2>5, <2>6 DEF Srv!Advance
<1> QED
  BY <1>1, <1>2, <1>3, <1>4, <1>5, <1>6 DEF Srv!Next

(* The server keeps track of who presented and who made a token.           *)
LEMMA ChainKeeps ==
  ASSUME ServerInv, ServerInv', Chain, Srv!Next \/ UNCHANGED server
  PROVE  Chain'
<1> USE BrowserAssumption DEF ServerInv, Srv!TypeOK, Chain, Holding, Makers
<1>1. CASE UNCHANGED server
  BY <1>1 DEF server
<1>2. ASSUME NEW x \in Sessions \union Tokens, Srv!Expires(x)
      PROVE  Chain'
  BY <1>2 DEF Srv!Expires, Srv!rows, Srv!request
<1>3. ASSUME NEW r \in Requests, NEW s \in Sessions, Srv!Login(r, s) \/ Srv!LogoutAll(r, s)
      PROVE  Chain'
  BY <1>3 DEF Srv!Login, Srv!LogoutAll, Srv!RevokeAllSessions, Srv!Goto, Srv!world, Srv!links
<1>4. ASSUME NEW r \in Requests, NEW t \in Tokens, Srv!RefreshRead(r, t) \/ Srv!LogoutRead(r, t)
      PROVE  Chain'
  <2>1. PICK next \in {"killTokens", "refused", "successor"} : pc' = [pc EXCEPT ![r] = next]
    BY <1>4 DEF Srv!RefreshRead, Srv!LogoutRead, Srv!Goto
  <2>2. /\ pc[r] = "idle" /\ t \in delivered
        /\ tok' = [tok EXCEPT ![r] = t] /\ target' = [target EXCEPT ![r] = sess[t]]
        /\ UNCHANGED <<sess, parent, revoked, delivered, made>>
    BY <1>4 DEF Srv!RefreshRead, Srv!LogoutRead, Srv!rows, Srv!world
  <2> QED
    BY <2>1, <2>2
<1>5. ASSUME NEW r \in Requests, Srv!ResetSessions(r) \/ Srv!Fail(r)
      PROVE  Chain'
  BY <1>5 DEF Srv!ResetSessions, Srv!Fail, Srv!RevokeAllSessions, Srv!Goto, Srv!rows, Srv!world, Srv!links, Srv!request
<1>6. ASSUME NEW r \in Requests, Srv!Advance(r)
      PROVE  Chain'
  <2>1. CASE Srv!FindSuccessor(r) \/ Srv!IssueSession(r)
    BY <2>1 DEF Srv!FindSuccessor, Srv!IssueSession, Srv!Goto, Srv!rows, Srv!world, Srv!request
  <2>2. CASE Srv!RetireToken(r) \/ Srv!KillTokens(r) \/ Srv!MarkReused(r)
    BY <2>2 DEF Srv!RetireToken, Srv!KillTokens, Srv!MarkReused, Srv!Goto, Srv!links, Srv!world, Srv!request
  <2>3. CASE Srv!KillSession(r)
    <3>1. PICK next \in {"mark", "ended", "refused"} : pc' = [pc EXCEPT ![r] = next]
      BY <2>3 DEF Srv!KillSession, Srv!Goto
    <3>2. pc[r] = "killSession" /\ revoked' = revoked \union {target[r]}
          /\ UNCHANGED <<sess, parent, delivered, tok, target, made>>
      BY <2>3 DEF Srv!KillSession, Srv!links, Srv!world, Srv!request
    <3> QED
      BY <3>1, <3>2
  <2>4. CASE Srv!Reply(r)
    BY <2>4 DEF Srv!Reply, Srv!Goto, Srv!rows, Srv!request
  <2>5. ASSUME NEW t \in Tokens, Srv!FirstToken(r, t)
        PROVE  Chain'
    BY <2>5 DEF Srv!FirstToken, Srv!InsertToken, Srv!Exists, Srv!Goto, Srv!world
  <2>6. ASSUME NEW t \in Tokens, Srv!CreateSuccessor(r, t)
        PROVE  Chain'
    BY <2>6 DEF Srv!CreateSuccessor, Srv!InsertToken, Srv!Exists, Srv!Goto, Srv!world
  <2> QED
    BY <1>6, <2>1, <2>2, <2>3, <2>4, <2>5, <2>6 DEF Srv!Advance
<1> QED
  BY <1>1, <1>2, <1>3, <1>4, <1>5, <1>6 DEF Srv!Next

-----------------------------------------------------------------------------
(* Pages.                                                                  *)

(* What the server does on its own leaves pages and requests as they are.  *)
LEMMA PageRests ==
  ASSUME Page, UNCHANGED <<page, requests, csrfOf, left>>,
         jar' \in Tokens \union {None}, mishaps' \in {mishaps, mishaps \union {"raced"}, mishaps \union {"mixed"}}
  PROVE  Page'
<1> USE DEF page, requests, store, transport, calls
<1>1. PageTypes'
  BY DEF Page, PageTypes, Mishaps
<1>2. Fresh' /\ FlightKept' /\ AllInFlight'
  BY DEF Page, Fresh, FlightKept, AllInFlight, Refreshes
<1> QED
  BY <1>1, <1>2 DEF Page

(* A page that asks for a refresh joins the one in flight, or begins one   *)
(* when there is none.                                                     *)
LEMMA AskingKeeps ==
  ASSUME Page, NEW t \in Tabs, NEW r \in Requests, RefreshSession(t, r),
         UNCHANGED <<jar, csrfOf, csrf, history>>,
         status' \in [Tabs -> Statuses], access' \in [Tabs -> Sessions \union {None}], armed' \subseteq Tabs,
         call' \in [Tabs -> Calls], waits' \in [Tabs -> Requests \union {None}]
  PROVE  Page'
<1> USE BrowserAssumption DEF history
<1>1. CASE flight[t] = r /\ UNCHANGED <<requests, flight>>
  <2>1. PageTypes'
    BY <1>1 DEF Page, PageTypes, requests
  <2>2. Fresh' /\ FlightKept' /\ AllInFlight'
    BY <1>1 DEF Page, Fresh, FlightKept, AllInFlight, Refreshes, requests
  <2> QED
    BY <2>1, <2>2 DEF Page
<1>2. CASE flight[t] = None /\ Begin(t, r, "refresh") /\ flight' = [flight EXCEPT ![t] = r]
  <2>1. place[r] = "new" /\ owner[r] = None
    BY <1>2 DEF Begin, IsNext, Page, Fresh
  <2>2. PageTypes'
    BY <1>2 DEF Page, PageTypes, Begin
  <2>3. Fresh'
    BY <1>2 DEF Page, PageTypes, Fresh, Begin
  <2>4. /\ \A q \in Requests \ {r} : owner'[q] = owner[q] /\ (Refreshes(q)' <=> Refreshes(q))
        /\ owner'[r] = t /\ Refreshes(r)'
        /\ \A u \in Tabs \ {t} : flight'[u] = flight[u]
        /\ flight'[t] = r
    BY <1>2 DEF Page, PageTypes, Begin, Refreshes
  <2>5. \A u \in Tabs : flight[u] # r
    BY <2>1 DEF Page, FlightKept, Refreshes
  <2>6. FlightKept'
    BY <2>4, <2>5 DEF Page, PageTypes, FlightKept
  <2>7. AllInFlight'
    BY <1>2, <2>4 DEF Page, PageTypes, AllInFlight
  <2> QED
    BY <2>2, <2>3, <2>6, <2>7 DEF Page
<1> QED
  BY <1>1, <1>2 DEF RefreshSession

(* A request is sent.                                                      *)
LEMMA SendKeeps ==
  ASSUME Page, NEW r \in Requests, Send(r)
  PROVE  Page'
<1>1. PICK where \in {"forbidden", "unauthorized", "sent", "served"} :
        place' = [place EXCEPT ![r] = where]
  BY DEF Send, Forbid, SendRefresh, SendLogin, SendLogout, Arrive
<1>2. mishaps' \in {mishaps, mishaps \union {"mixed"}, mishaps \union {"raced"}}
  BY DEF Send, Forbid, SendRefresh, SendLogin, SendLogout
<1>3. place[r] = "csrf" /\ UNCHANGED <<cookies, page, owner, purpose, left>>
  BY DEF Send
<1> USE DEF cookies, page, store, transport, calls
<1>4. PageTypes'
  BY <1>1, <1>2, <1>3 DEF Page, PageTypes, Mishaps
<1>5. \A q \in Requests : (Refreshes(q)' <=> Refreshes(q)) /\ (place'[q] = "new" => place[q] = "new")
  BY <1>1, <1>3 DEF Page, PageTypes, Refreshes
<1>6. Fresh' /\ FlightKept' /\ AllInFlight'
  BY <1>2, <1>3, <1>5 DEF Page, PageTypes, Fresh, FlightKept, AllInFlight
<1> QED
  BY <1>4, <1>6 DEF Page

(* The user signs in or out.                                               *)
LEMMA AskKeeps ==
  ASSUME Page, NEW t \in Tabs, NEW r \in Requests, Ask(t, r)
  PROVE  Page'
<1>1. PICK what \in {"login", "logout"} : Begin(t, r, what) /\ call' = [call EXCEPT ![t] = what]
  BY DEF Ask
<1>2. waits' = [waits EXCEPT ![t] = r] /\ UNCHANGED <<cookies, store, transport, history>>
  BY DEF Ask
<1> USE DEF cookies, store, transport, history
<1>3. place[r] = "new"
  BY <1>1 DEF Begin, IsNext
<1>4. PageTypes'
  BY <1>1, <1>2 DEF Page, PageTypes, Begin, Calls
<1>5. Fresh'
  BY <1>1 DEF Page, PageTypes, Fresh, Begin
<1>6. /\ ~Refreshes(r) /\ ~Refreshes(r)'
      /\ \A q \in Requests \ {r} : owner'[q] = owner[q] /\ (Refreshes(q)' <=> Refreshes(q))
  BY <1>1, <1>3 DEF Page, PageTypes, Begin, Refreshes
<1>7. FlightKept' /\ AllInFlight'
  BY <1>2, <1>6 DEF Page, PageTypes, FlightKept, AllInFlight
<1> QED
  BY <1>4, <1>5, <1>7 DEF Page

(* A page goes.                                                            *)
LEMMA CloseKeeps ==
  ASSUME Page, NEW t \in Tabs, Close(t)
  PROVE  Page'
<1> USE BrowserAssumption DEF cookies
<1>1. PageTypes'
  BY DEF Page, PageTypes, Close, EndCall, Statuses, Calls, Mishaps
<1>2. \A q \in Requests :
        /\ place'[q] = "new" => place[q] = "new"
        /\ owner[q] = t => owner'[q] = None
        /\ owner[q] # t => owner'[q] = owner[q] /\ (Refreshes(q)' <=> Refreshes(q))
  BY DEF Page, PageTypes, Close, Refreshes
<1>3. /\ \A u \in Tabs \ {t} : flight'[u] = flight[u]
      /\ flight'[t] = None
      /\ "cut" \in mishaps => "cut" \in mishaps'
      /\ UNCHANGED purpose
  BY DEF Page, PageTypes, Close
<1>4. Fresh'
  BY <1>2, <1>3 DEF Page, PageTypes, Fresh
<1>5. FlightKept'
  BY <1>2, <1>3 DEF Page, PageTypes, FlightKept
<1>6. AllInFlight'
  BY <1>2, <1>3 DEF Page, PageTypes, AllInFlight
<1> QED
  BY <1>1, <1>4, <1>5, <1>6 DEF Page

-----------------------------------------------------------------------------
(* Answers.                                                                *)

(* A page is done with a request that it does not keep as its refresh.     *)
LEMMA FinishKeeps ==
  ASSUME Page, PageTypes', NEW r \in Requests, NEW t \in Tabs, Finish(r),
         flight' \in {flight, [flight EXCEPT ![t] = None]},
         \A u \in Tabs : flight'[u] # r,
         "cut" \in mishaps => "cut" \in mishaps',
         \/ flight' = flight
         \/ "cut" \in mishaps'
         \/ \A q \in Requests \ {r} : owner[q] = t => ~Refreshes(q)
  PROVE  Page'
<1> USE BrowserAssumption
<1>1. /\ owner'[r] = None
      /\ ~Refreshes(r)'
      /\ \A q \in Requests \ {r} :
           /\ owner'[q] = owner[q] /\ (Refreshes(q)' <=> Refreshes(q))
           /\ place'[q] = place[q]
      /\ place'[r] = "closed" /\ UNCHANGED purpose
  BY DEF Page, PageTypes, Finish, Refreshes
<1>2. \A u \in Tabs : flight'[u] \in {flight[u], None} /\ (u # t => flight'[u] = flight[u])
  BY DEF Page, PageTypes
<1>3. Fresh'
  BY <1>1 DEF Page, Fresh
<1>4. FlightKept'
  BY <1>1, <1>2 DEF Page, PageTypes, FlightKept
<1>5. AllInFlight'
  <2> SUFFICES ASSUME "cut" \notin mishaps', NEW q \in Requests, Refreshes(q)', owner'[q] # None
               PROVE  flight'[owner'[q]] = q
    BY DEF AllInFlight
  <2>1. q # r /\ Refreshes(q) /\ owner'[q] = owner[q] /\ owner[q] \in Tabs
    BY <1>1 DEF Page, PageTypes
  <2>2. flight[owner[q]] = q
    BY <2>1 DEF Page, AllInFlight
  <2> QED
    BY <1>2, <2>1, <2>2
<1> QED
  BY <1>3, <1>4, <1>5 DEF Page

(* The request r of page t is over, and so is its refresh.                 *)
LEMMA HardLogoutKeeps ==
  ASSUME Page, NEW r \in Requests, NEW t \in Tabs, owner[r] = t,
         NEW accident \in SUBSET Mishaps, Finish(r), HardLogout(t, accident), jar' \in Tokens \union {None},
         UNCHANGED csrfOf
  PROVE  Page'
<1> USE BrowserAssumption
<1>1. PageTypes'
  <2>1. left' \subseteq Sessions
    BY DEF Page, PageTypes, HardLogout
  <2>2. mishaps' \subseteq mishaps \union accident \union {"cut"}
    BY DEF HardLogout
  <2>3. mishaps' \subseteq Mishaps
    BY <2>2 DEF Page, PageTypes, Mishaps
  <2> QED
    BY <2>1, <2>3 DEF Page, PageTypes, Finish, HardLogout, ClearSession, EndCall, Statuses, Calls
<1>2. flight' = [flight EXCEPT ![t] = None] /\ "cut" \in mishaps => "cut" \in mishaps'
  BY DEF HardLogout
<1>3. \A u \in Tabs : flight'[u] # r
  BY DEF HardLogout, Page, PageTypes, FlightKept
<1>4. "cut" \in mishaps' \/ \A q \in Requests \ {r} : owner[q] = t => ~Refreshes(q)
  BY DEF HardLogout, Finish, Page, PageTypes
<1> QED
  BY <1>1, <1>2, <1>3, <1>4, FinishKeeps DEF HardLogout

(* A refresh is answered.                                                  *)
LEMMA ReceiveRefreshKeeps ==
  ASSUME Srv!TypeOK, Page, NEW r \in Requests, ReceiveRefresh(r)
  PROVE  Page'
<1> USE BrowserAssumption DEF cookies, calls, history, store
<1> DEFINE t == owner[r]
<1>1. /\ t \in Tabs /\ Refreshes(r) /\ UNCHANGED <<jar, csrfOf>>
      /\ target[r] \in Sessions \union {None}
      /\ purpose[r] = "refresh" /\ place[r] # "new"
  BY DEF ReceiveRefresh, Page, PageTypes, Srv!TypeOK, Refreshes
<1>2. \A q \in Requests \ {r} : "cut" \notin mishaps => ~(owner[q] = t /\ Refreshes(q))
  BY <1>1 DEF Page, AllInFlight
<1>3. \A u \in Tabs \ {t} : flight[u] # r
  BY <1>1 DEF Page, FlightKept
<1>4. CASE Refreshed(r, t)
  <2>1. /\ SetSession(t, target[r])
        /\ flight' = [flight EXCEPT ![t] = None]
        /\ mishaps' \in {mishaps, mishaps \union {"mixed"}} /\ UNCHANGED <<csrf, left>>
    BY <1>4 DEF Refreshed
  <2>2. \A u \in Tabs : flight'[u] # r
    BY <1>3, <2>1 DEF Page, PageTypes
  <2>3. CASE Finish(r) /\ (EndCall(t) \/ UNCHANGED <<call, waits>>)
    <3>1. call' \in [Tabs -> Calls] /\ waits' \in [Tabs -> Requests \union {None}]
      BY <2>3 DEF EndCall, Page, PageTypes, Calls
    <3>2. PageTypes'
      BY <1>1, <2>1, <2>3, <3>1 DEF Finish, SetSession, Page, PageTypes, Statuses, Mishaps
    <3> QED
      BY <1>1, <1>2, <2>1, <2>2, <2>3, <3>2, FinishKeeps
  <2>4. CASE waits[t] = r /\ call[t] = "logout"
    <3>1. PICK q \in Requests :
            /\ IsNext(q)
            /\ place' = [place EXCEPT ![q] = "csrf", ![r] = "closed"]
            /\ owner' = [owner EXCEPT ![q] = t, ![r] = None]
            /\ purpose' = [purpose EXCEPT ![q] = "logout"]
            /\ waits' = [waits EXCEPT ![t] = q]
            /\ call' = [call EXCEPT ![t] = "logoutAgain"]
      BY <1>4, <2>4 DEF Refreshed
    <3>2. PageTypes'
      BY <1>1, <2>1, <3>1 DEF SetSession, Page, PageTypes, Statuses, Calls, Mishaps
    <3>3. place[q] = "new" /\ q # r
      BY <1>1, <3>1 DEF IsNext
    <3>4. /\ ~Refreshes(q) /\ ~Refreshes(q)' /\ ~Refreshes(r)'
          /\ \A x \in Requests \ {q, r} :
               owner'[x] = owner[x] /\ (Refreshes(x)' <=> Refreshes(x)) /\ place'[x] = place[x]
                                    /\ purpose'[x] = purpose[x]
          /\ place'[q] = "csrf" /\ place'[r] = "closed"
      BY <3>1, <3>3 DEF Page, PageTypes, Refreshes
    <3>5. Fresh'
      BY <3>4 DEF Page, Fresh
    <3>6. FlightKept'
      BY <2>1, <2>2, <3>4 DEF Page, PageTypes, FlightKept
    <3>7. AllInFlight'
      BY <1>2, <2>1, <3>4 DEF Page, PageTypes, AllInFlight
    <3> QED
      BY <3>2, <3>5, <3>6, <3>7 DEF Page
  <2> QED
    BY <1>4, <2>3, <2>4 DEF Refreshed
<1>5. CASE Expired(r, t)
  <2>1. CASE HardLogout(t, {})
    BY <1>1, <1>5, <2>1, HardLogoutKeeps DEF Expired, Page, PageTypes
  <2>2. CASE /\ ClearSession(t)
             /\ flight' = [flight EXCEPT ![t] = None]
             /\ UNCHANGED <<csrf, mishaps, left>>
             /\ IF waits[t] = r THEN EndCall(t) ELSE UNCHANGED <<call, waits>>
    <3>1. Finish(r)
      BY <1>5 DEF Expired
    <3>2. call' \in [Tabs -> Calls] /\ waits' \in [Tabs -> Requests \union {None}]
      BY <2>2 DEF EndCall, Page, PageTypes, Calls
    <3>3. PageTypes'
      BY <1>1, <2>2, <3>1, <3>2 DEF Finish, ClearSession, Page, PageTypes, Statuses
    <3>4. \A u \in Tabs : flight'[u] # r
      BY <1>3, <2>2 DEF Page, PageTypes
    <3> QED
      BY <1>1, <1>2, <2>2, <3>1, <3>3, <3>4, FinishKeeps
  <2> QED
    BY <1>5, <2>1, <2>2 DEF Expired
<1>6. CASE Unreadable(r, t)
  <2>1. CASE HardLogout(t, {"garbled"})
    <3>1. {"garbled"} \in SUBSET Mishaps
      BY DEF Mishaps
    <3> QED
      BY <1>1, <1>6, <2>1, <3>1, HardLogoutKeeps DEF Unreadable, Page, PageTypes
  <2>2. CASE /\ ClearSession(t) \/ UNCHANGED <<status, access, armed>>
             /\ flight' = [flight EXCEPT ![t] = None]
             /\ mishaps' = mishaps \union {"garbled"}
             /\ UNCHANGED <<csrf, left>>
             /\ IF waits[t] = r THEN EndCall(t) ELSE UNCHANGED <<call, waits>>
    <3>1. Finish(r)
      BY <1>6 DEF Unreadable
    <3>2. call' \in [Tabs -> Calls] /\ waits' \in [Tabs -> Requests \union {None}]
      BY <2>2 DEF EndCall, Page, PageTypes, Calls
    <3>3. PageTypes'
      BY <1>1, <2>2, <3>1, <3>2 DEF Finish, ClearSession, Page, PageTypes, Statuses, Mishaps
    <3>4. \A u \in Tabs : flight'[u] # r
      BY <1>3, <2>2 DEF Page, PageTypes
    <3> QED
      BY <1>1, <1>2, <2>2, <3>1, <3>3, <3>4, FinishKeeps
  <2> QED
    BY <1>6, <2>1, <2>2 DEF Unreadable
<1> QED
  BY <1>4, <1>5, <1>6 DEF ReceiveRefresh

(* A logout is answered: it is retried after a refresh, or over.           *)
LEMMA ReceiveLogoutKeeps ==
  ASSUME Page, NEW r \in Requests, ReceiveLogout(r)
  PROVE  Page'
<1> USE BrowserAssumption
<1> DEFINE t == owner[r]
<1>1. /\ t \in Tabs /\ ~Refreshes(r) /\ jar' \in Tokens \union {None} /\ UNCHANGED csrfOf
      /\ place[r] # "new"
  BY DEF ReceiveLogout, Page, PageTypes, Refreshes, Fresh
<1>2. ASSUME NEW accident \in {{"garbled"}, {m \in {"mixed"} : Outdated(r)}},
             Finish(r), HardLogout(t, accident)
      PROVE  Page'
  <2>1. accident \in SUBSET Mishaps
    BY DEF Mishaps
  <2> QED
    BY <1>1, <1>2, <2>1, HardLogoutKeeps
<1>3. ASSUME NEW q \in Requests \ {r},
             flight[t] \in {q, None},
             flight[t] = None => IsNext(q),
             place' = [place EXCEPT ![r] = "closed", ![q] = IF flight[t] = q THEN place[q] ELSE "csrf"],
             owner' = [owner EXCEPT ![r] = None, ![q] = t],
             flight' = [flight EXCEPT ![t] = q],
             waits' = [waits EXCEPT ![t] = q],
             UNCHANGED <<status, access, armed, csrf, call, purpose, mishaps, left>>
      PROVE  Page'
  <2>1. PageTypes'
    BY <1>1, <1>3 DEF Page, PageTypes
  <2>2. /\ Refreshes(q)' /\ owner'[q] = t /\ place'[q] # "new"
        /\ flight[t] = None => place[q] = "new"
    <3>1. CASE flight[t] = q
      <4>1. Refreshes(q)
        BY <1>1, <3>1 DEF Page, FlightKept
      <4> QED
        BY <1>3, <3>1, <4>1 DEF Page, PageTypes, Refreshes
    <3>2. CASE flight[t] = None
      <4>1. place[q] = "new" /\ purpose[q] = "refresh"
        BY <1>3, <3>2 DEF IsNext, Page, Fresh
      <4> QED
        BY <1>3, <3>2, <4>1 DEF Page, PageTypes, Refreshes
    <3> QED
      BY <1>3, <3>1, <3>2
  <2>3. /\ owner'[r] = None /\ place'[r] = "closed" /\ ~Refreshes(r)'
        /\ \A x \in Requests \ {q, r} :
             owner'[x] = owner[x] /\ (Refreshes(x)' <=> Refreshes(x)) /\ place'[x] = place[x]
    BY <1>3 DEF Page, PageTypes, Refreshes
  <2>4. Fresh'
    BY <1>3, <2>2, <2>3 DEF Page, Fresh
  <2>5. \A u \in Tabs \ {t} : flight'[u] = flight[u] /\ flight[u] # q /\ flight[u] # r
    BY <1>1, <1>3, <2>2 DEF Page, PageTypes, FlightKept, Refreshes
  <2>6. FlightKept'
    BY <1>1, <1>3, <2>2, <2>3, <2>5 DEF Page, PageTypes, FlightKept
  <2>7. AllInFlight'
    <3> SUFFICES ASSUME "cut" \notin mishaps', NEW x \in Requests, Refreshes(x)', owner'[x] # None
                 PROVE  flight'[owner'[x]] = x
      BY DEF AllInFlight
    <3>1. CASE x = q
      BY <1>1, <1>3, <2>2, <3>1 DEF Page, PageTypes
    <3>2. CASE x # q
      <4>1. x # r /\ Refreshes(x) /\ owner'[x] = owner[x] /\ "cut" \notin mishaps
        BY <1>3, <2>3, <3>2
      <4>2. flight[owner[x]] = x
        BY <4>1 DEF Page, AllInFlight
      <4>3. owner[x] # t
        BY <1>3, <3>2, <4>2, BrowserAssumption
      <4> QED
        BY <2>5, <4>1, <4>2, <4>3 DEF Page, PageTypes
    <3> QED
      BY <3>1, <3>2
  <2> QED
    BY <2>1, <2>4, <2>6, <2>7 DEF Page
<1> QED
  BY <1>2, <1>3 DEF ReceiveLogout, store, history

(* A login is answered.                                                    *)
LEMMA ReceiveLoginKeeps ==
  ASSUME Srv!TypeOK, Page, NEW r \in Requests, ReceiveLogin(r)
  PROVE  Page'
<1> USE BrowserAssumption DEF cookies, transport, history
<1>1. /\ owner[r] \in Tabs /\ ~Refreshes(r) /\ target[r] \in Sessions \union {None}
      /\ Finish(r) /\ EndCall(owner[r]) /\ UNCHANGED <<jar, csrfOf, csrf, flight, left>>
      /\ mishaps' \in {mishaps, mishaps \union {"garbled"}}
      /\ SetSession(owner[r], target[r]) \/ UNCHANGED <<status, access, armed>>
  BY DEF ReceiveLogin, Page, PageTypes, Srv!TypeOK, Refreshes, store
<1>2. PageTypes'
  BY <1>1 DEF Finish, EndCall, SetSession, Page, PageTypes, Statuses, Calls, Mishaps
<1>3. \A u \in Tabs : flight'[u] # r
  BY <1>1 DEF Page, FlightKept
<1> QED
  BY <1>1, <1>2, <1>3, FinishKeeps

(* An answer that no page awaits.                                          *)
LEMMA ReceiveNoneKeeps ==
  ASSUME Page, NEW r \in Requests, ReceiveNone(r)
  PROVE  Page'
<1> USE BrowserAssumption DEF page, store, transport, calls, history
<1>1. PageTypes'
  BY DEF ReceiveNone, Finish, Page, PageTypes
<1>2. /\ Finish(r) /\ owner[r] = None /\ UNCHANGED <<flight, mishaps>>
  BY DEF ReceiveNone
<1>3. \A u \in Tabs : flight'[u] # r
  BY <1>2 DEF Page, FlightKept
<1> QED
  BY <1>1, <1>2, <1>3, FinishKeeps

(* A page waits for one thing at a time, whatever is answered.             *)
LEMMA WaitingKeeps ==
  ASSUME Page, Page', Waiting, SigningIn, [Next]_vars
  PROVE  Waiting' /\ SigningIn'
<1> USE BrowserAssumption DEF Page, PageTypes, Waiting, SigningIn, Calls, Statuses
<1>1. CASE UNCHANGED <<owner, purpose, waits, call, status, armed, flight>> /\ ("cut" \in mishaps => "cut" \in mishaps')
  BY <1>1
<1>2. ASSUME NEW t \in Tabs, Close(t)
      PROVE  Waiting' /\ SigningIn'
  BY <1>2 DEF Close, EndCall
<1>3. ASSUME NEW t \in Tabs, NEW r \in Requests, Open(t, r) \/ TimerFires(t, r) \/ Unauthorized(t, r)
      PROVE  Waiting' /\ SigningIn'
  <2>1. \A q \in Requests : purpose'[q] # "refresh" /\ owner'[q] # None =>
          purpose[q] = purpose'[q] /\ owner[q] = owner'[q]
    BY <1>3 DEF Open, TimerFires, Unauthorized, RefreshSession, Begin, requests
  <2>2. flight' \in {flight, [flight EXCEPT ![t] = r]} /\ UNCHANGED mishaps
    BY <1>3 DEF Open, TimerFires, Unauthorized, RefreshSession, history
  <2>3. CASE Open(t, r)
    BY <2>1, <2>2, <2>3 DEF Open, calls
  <2>4. CASE TimerFires(t, r)
    BY <2>1, <2>2, <2>4 DEF TimerFires, calls
  <2>5. CASE Unauthorized(t, r)
    BY <2>1, <2>2, <2>5 DEF Unauthorized, store
  <2> QED
    BY <1>3, <2>3, <2>4, <2>5
<1>4. ASSUME NEW t \in Tabs, NEW r \in Requests, Ask(t, r)
      PROVE  Waiting' /\ SigningIn'
  <2>1. \A q \in Requests : purpose[q] # "refresh" => owner[q] # t
    BY <1>4 DEF Ask
  <2> QED
    BY <1>4, <2>1 DEF Ask, Begin, store, transport, history
<1>5. ASSUME NEW r \in Requests, ReceiveLogin(r) \/ ReceiveNone(r)
      PROVE  Waiting' /\ SigningIn'
  <2>1. CASE ReceiveLogin(r)
    BY <2>1 DEF ReceiveLogin, Finish, EndCall, SetSession, store, transport, history
  <2>2. CASE ReceiveNone(r)
    BY <2>2 DEF ReceiveNone, Finish, page, store, transport, calls, history
  <2> QED
    BY <1>5, <2>1, <2>2
<1>6. ASSUME NEW r \in Requests, NEW t \in Tabs, NEW accident \in SUBSET Mishaps,
             waits[t] = r, Finish(r), HardLogout(t, accident)
      PROVE  Waiting' /\ SigningIn'
  BY <1>6 DEF Finish, HardLogout, ClearSession, EndCall
<1>7. ASSUME NEW r \in Requests, ReceiveRefresh(r)
      PROVE  Waiting' /\ SigningIn'
  <2> DEFINE t == owner[r]
  <2>1. t \in Tabs /\ purpose[r] = "refresh" /\ place[r] # "new"
    BY <1>7 DEF ReceiveRefresh, Refreshes
  <2>2. "cut" \notin mishaps => flight[t] = r
    BY <1>7, <2>1 DEF ReceiveRefresh, AllInFlight
  <2>3. CASE Refreshed(r, t)
    <3>1. /\ SetSession(t, target[r]) /\ flight' = [flight EXCEPT ![t] = None]
          /\ "cut" \in mishaps => "cut" \in mishaps'
      BY <2>3 DEF Refreshed
    <3>2. CASE waits[t] = r /\ call[t] = "logout"
      <4>1. PICK q \in Requests :
              /\ IsNext(q)
              /\ owner' = [owner EXCEPT ![q] = t, ![r] = None]
              /\ purpose' = [purpose EXCEPT ![q] = "logout"]
              /\ waits' = [waits EXCEPT ![t] = q]
              /\ call' = [call EXCEPT ![t] = "logoutAgain"]
        BY <2>3, <3>2 DEF Refreshed
      <4>2. \A x \in Requests : purpose[x] # "refresh" => owner[x] # t
        BY <2>1, <3>2
      <4>3. q # r
        BY <2>1, <4>1 DEF IsNext
      <4> QED
        BY <2>1, <3>1, <3>2, <4>1, <4>2, <4>3 DEF SetSession
    <3>3. CASE waits[t] = r /\ EndCall(t) /\ Finish(r)
      BY <2>1, <3>1, <3>3 DEF EndCall, Finish, SetSession
    <3>4. CASE waits[t] # r /\ UNCHANGED calls /\ Finish(r)
      BY <2>1, <2>2, <3>1, <3>4 DEF Finish, SetSession, calls
    <3> QED
      BY <2>3, <3>2, <3>3, <3>4 DEF Refreshed
  <2>4. CASE Expired(r, t)
    <3>1. CASE HardLogout(t, {}) /\ waits[t] = r
      BY <1>6, <2>1, <2>4, <3>1 DEF Expired
    <3>2. CASE /\ ClearSession(t) /\ flight' = [flight EXCEPT ![t] = None] /\ UNCHANGED mishaps
               /\ IF waits[t] = r THEN EndCall(t) ELSE UNCHANGED calls
      BY <2>1, <2>2, <2>4, <3>2 DEF Expired, Finish, ClearSession, EndCall, calls
    <3> QED
      BY <2>4, <3>1, <3>2 DEF Expired, history
  <2>5. CASE Unreadable(r, t)
    <3>1. CASE HardLogout(t, {"garbled"}) /\ waits[t] = r
      <4>1. {"garbled"} \in SUBSET Mishaps
        BY DEF Mishaps
      <4> QED
        BY <1>6, <2>1, <2>5, <3>1, <4>1 DEF Unreadable
    <3>2. CASE /\ ClearSession(t) \/ UNCHANGED store
               /\ status[t] = "booting" => ClearSession(t)
               /\ flight' = [flight EXCEPT ![t] = None] /\ mishaps' = mishaps \union {"garbled"}
               /\ IF waits[t] = r THEN EndCall(t) ELSE UNCHANGED calls
      BY <2>1, <2>2, <2>5, <3>2 DEF Unreadable, Finish, ClearSession, EndCall, calls, store
    <3> QED
      BY <2>5, <3>1, <3>2 DEF Unreadable
  <2> QED
    BY <1>7, <2>3, <2>4, <2>5 DEF ReceiveRefresh
<1>8. ASSUME NEW r \in Requests, ReceiveLogout(r)
      PROVE  Waiting' /\ SigningIn'
  <2> DEFINE t == owner[r]
  <2>1. t \in Tabs /\ purpose[r] = "logout" /\ waits[t] = r
    BY <1>8 DEF ReceiveLogout
  <2>2. ASSUME NEW accident \in {{"garbled"}, {m \in {"mixed"} : Outdated(r)}},
               Finish(r), HardLogout(t, accident)
        PROVE  Waiting' /\ SigningIn'
    <3>1. accident \in SUBSET Mishaps
      BY DEF Mishaps
    <3> QED
      BY <1>6, <2>1, <2>2, <3>1
  <2>3. ASSUME NEW q \in Requests \ {r}, call[t] = "logout", flight[t] \in {q, None},
               flight[t] = None => IsNext(q),
               owner' = [owner EXCEPT ![r] = None, ![q] = t],
               flight' = [flight EXCEPT ![t] = q], waits' = [waits EXCEPT ![t] = q],
               UNCHANGED <<status, armed, call, purpose, mishaps>>
        PROVE  Waiting' /\ SigningIn'
    <3>1. purpose[q] = "refresh"
      BY <2>3 DEF Fresh, FlightKept, IsNext, Refreshes
    <3> QED
      BY <2>1, <2>3, <3>1
  <2> QED
    BY <1>8, <2>2, <2>3 DEF ReceiveLogout, store, history
<1>9. ASSUME \/ UNCHANGED vars
             \/ \E t \in Tabs : FetchCsrf(t)
             \/ \E r \in Requests : Send(r) \/ Serve(r) \/ Deliver(r) \/ Fail(r) \/ ResetElsewhere(r)
      PROVE  /\ UNCHANGED <<owner, purpose, waits, call, status, armed, flight>>
             /\ "cut" \in mishaps => "cut" \in mishaps'
  BY <1>9 DEF vars, FetchCsrf, Send, Forbid, SendRefresh, SendLogin, SendLogout, Serve, Deliver, Fail,
     ResetElsewhere, page, store, transport, calls, requests, history, cookies
<1> QED
  BY <1>1, <1>2, <1>3, <1>4, <1>5, <1>7, <1>8, <1>9 DEF Next, Receive

-----------------------------------------------------------------------------
(* Replays.                                                                *)

(* The token a refresh is working on has no successor yet.                 *)
LEMMA NotRotated ==
  ASSUME ServerInv, Chain, PageTypes, Handlers, Once, NEW r \in Requests,
         pc[r] \in {"successor", "create"}
  PROVE  Presents(r) /\ ~Srv!HasSuccessor(tok[r])
<1> USE BrowserAssumption
<1>1. Presents(r) /\ tok[r] \in Tokens /\ made[r] = None
  BY DEF ServerInv, Srv!TypeOK, Chain, Holding, Handlers, Presents, Before, PageTypes
<1>2. ASSUME NEW k \in Tokens, parent[k] = tok[r] PROVE FALSE
  <2>1. PICK q \in Requests : made[q] = k /\ tok[q] = tok[r]
    BY <1>1, <1>2 DEF Chain, Makers
  <2> QED
    BY <1>1, <2>1 DEF Once
<1> QED
  BY <1>1, <1>2 DEF Srv!HasSuccessor

(* What pages do with their requests leaves both as they are.              *)
LEMMA PagesKeepCalm ==
  ASSUME ServerInv, PageTypes, Handlers, Once, UNCHANGED server, jar' \in {jar, None},
         \A r \in Requests :
           \/ place'[r] = place[r] /\ purpose'[r] = purpose[r] /\ (place[r] = "sent" => owner'[r] # None)
           \/ place[r] \in Before /\ place'[r] \in Before \union {"closed"}
           \/ Answered(r) /\ place'[r] = "closed"
  PROVE  Handlers' /\ Once'
<1> USE DEF Before
<1>1. /\ UNCHANGED <<pc, mode, tok, made, dead, delivered, reused>>
      /\ \A r \in Requests : Answered(r) /\ mode[r] # "race" =>
           pc[r] \in {"idle", "granted", "refused", "ended", "lost"} \/ place[r] \in Before
  BY DEF server, Answered
<1>2. \A r \in Requests : place'[r] = "sent" => place[r] = "sent" /\ purpose'[r] = purpose[r] /\ owner'[r] # None
  OBVIOUS
<1>3. \A r \in Requests : Presents(r)' => Presents(r)
  BY <1>2 DEF Presents
<1>4. Handlers'
  <2> SUFFICES ASSUME NEW r \in Requests
               PROVE  /\ mode[r] \in {"none", "logout"}
                      /\ place'[r] \in Before => pc[r] = "idle" /\ mode[r] = "none"
                      /\ place'[r] = "closed" => pc[r] \in {"idle", "granted", "refused", "ended"}
                      /\ place'[r] = "sent" => owner'[r] # None
                      /\ place'[r] = "sent" /\ purpose'[r] = "login" =>
                           mode[r] = "none" /\ tok[r] = None /\ pc[r] \in {"firstToken", "reply", "granted"}
                      /\ Presents(r)' =>
                           /\ mode[r] = "none" /\ tok[r] # None
                           /\ pc[r] \in {"successor", "issue", "create", "retire", "reply", "granted", "refused"}
                      /\ place'[r] = "sent" /\ purpose'[r] = "logout" =>
                           mode[r] = "logout" /\ pc[r] \in {"killTokens", "killSession", "ended"}
    BY <1>1 DEF Handlers
  <2>1. place[r] = "sent" => pc[r] # "lost" /\ pc[r] # "idle"
    BY DEF Handlers, Presents, PageTypes
  <2> QED
    BY <1>1, <1>2, <1>3, <2>1 DEF Handlers, PageTypes
<1>5. Once'
  BY <1>1, <1>3 DEF Once
<1> QED
  BY <1>4, <1>5

(* The handlers go on.                                                     *)
LEMMA ServeKeepsCalm ==
  ASSUME ServerInv, Chain, PageTypes, expired = {}, Handlers, Once, NEW r \in Requests, Serve(r)
  PROVE  Handlers' /\ Once'
<1> USE BrowserAssumption DEF Before, Presents, ServerInv, Srv!TypeOK
<1>1. /\ UNCHANGED <<jar, place, purpose, owner>>
      /\ pc[r] \notin {"idle", "granted", "refused", "ended", "lost", "mark"} => place[r] = "sent"
  BY DEF Serve, cookies, requests, Handlers, PageTypes
<1>2. CASE Srv!FindSuccessor(r)
  <2>1. Presents(r) /\ ~Srv!HasSuccessor(tok[r])
    BY <1>2, NotRotated DEF Srv!FindSuccessor
  <2>2. PICK next \in {"refused", "issue"} : pc' = [pc EXCEPT ![r] = next] /\ (next = "refused" => dead[r])
    BY <1>2, <2>1 DEF Srv!FindSuccessor, Srv!Goto
  <2>3. UNCHANGED <<mode, tok, made, dead, delivered, reused>> /\ made[r] = None
    BY <1>2, <2>1 DEF Srv!FindSuccessor, Srv!rows, Srv!world, Chain, Holding
  <2>4. Handlers'
    BY <1>1, <2>1, <2>2, <2>3 DEF Handlers
  <2>5. Once'
    BY <1>1, <2>1, <2>2, <2>3 DEF Once
  <2> QED
    BY <2>4, <2>5
<1>3. CASE Srv!IssueSession(r) \/ Srv!RetireToken(r)
  <2>1. PICK next \in {"create", "reply"} : pc' = [pc EXCEPT ![r] = next]
    BY <1>3 DEF Srv!IssueSession, Srv!RetireToken, Srv!Goto
  <2>2. pc[r] \in {"issue", "retire"} /\ UNCHANGED <<mode, tok, made, dead, delivered, reused>>
    BY <1>3 DEF Srv!IssueSession, Srv!RetireToken, Srv!rows, Srv!world, Srv!request
  <2>3. Presents(r)
    BY <1>1, <2>2 DEF Handlers, PageTypes
  <2>4. Handlers'
    BY <1>1, <2>1, <2>2, <2>3 DEF Handlers
  <2>5. Once'
    BY <1>1, <2>1, <2>2, <2>3 DEF Once
  <2> QED
    BY <2>4, <2>5
<1>4. CASE Srv!KillTokens(r) \/ Srv!KillSession(r)
  <2>1. place[r] = "sent" /\ purpose[r] = "logout" /\ mode[r] = "logout"
    BY <1>1, <1>4 DEF Srv!KillTokens, Srv!KillSession, Handlers, PageTypes
  <2>2. PICK next \in {"killSession", "ended"} : pc' = [pc EXCEPT ![r] = next]
    BY <1>4, <2>1 DEF Srv!KillTokens, Srv!KillSession, Srv!Goto
  <2>3. UNCHANGED <<mode, tok, made, dead, delivered, reused>>
    BY <1>4 DEF Srv!KillTokens, Srv!KillSession, Srv!world, Srv!request
  <2>4. Handlers'
    BY <1>1, <2>1, <2>2, <2>3 DEF Handlers
  <2>5. Once'
    BY <1>1, <2>1, <2>2, <2>3 DEF Once
  <2> QED
    BY <2>4, <2>5
<1>5. CASE Srv!MarkReused(r)
  BY <1>5 DEF Srv!MarkReused, Handlers, PageTypes
<1>6. ASSUME NEW k \in Tokens, Srv!FirstToken(r, k)
      PROVE  Handlers' /\ Once'
  <2>1. /\ pc[r] = "firstToken" /\ pc' = [pc EXCEPT ![r] = "reply"] /\ made' = [made EXCEPT ![r] = k]
        /\ UNCHANGED <<mode, tok, dead, delivered, reused>>
    BY <1>6 DEF Srv!FirstToken, Srv!InsertToken, Srv!Goto, Srv!world
  <2>2. place[r] = "sent" /\ purpose[r] = "login" /\ tok[r] = None
    BY <1>1, <2>1 DEF Handlers, PageTypes
  <2>3. Handlers'
    BY <1>1, <2>1, <2>2 DEF Handlers
  <2>4. Once'
    BY <1>1, <2>1, <2>2 DEF Once
  <2> QED
    BY <2>3, <2>4
<1>7. ASSUME NEW k \in Tokens, Srv!CreateSuccessor(r, k)
      PROVE  Handlers' /\ Once'
  <2>1. Presents(r) /\ ~Srv!HasSuccessor(tok[r]) /\ pc[r] = "create"
    BY <1>7, NotRotated DEF Srv!CreateSuccessor
  <2>2. /\ pc' = [pc EXCEPT ![r] = "retire"] /\ made' = [made EXCEPT ![r] = k]
        /\ UNCHANGED <<mode, tok, dead, delivered, reused>>
    BY <1>7, <2>1 DEF Srv!CreateSuccessor, Srv!IndexRefuses, Srv!InsertToken, Srv!Goto, Srv!world
  <2>3. Handlers'
    BY <1>1, <2>1, <2>2 DEF Handlers
  <2>4. Once'
    BY <1>1, <2>1, <2>2 DEF Once
  <2> QED
    BY <2>3, <2>4
<1> QED
  BY <1>2, <1>3, <1>4, <1>5, <1>6, <1>7 DEF Serve

(* A request reaches its handler: a refresh presents the cookie, which no  *)
(* other request has rotated or is about to.                               *)
LEMMA SendKeepsCalm ==
  ASSUME ServerInv, Chain, Page, expired = {}, Handlers, Once, NEW r \in Requests, Send(r), Calm'
  PROVE  Handlers' /\ Once'
<1> USE BrowserAssumption DEF Before, Presents, ServerInv, Srv!TypeOK, Page, PageTypes
<1>1. /\ UNCHANGED <<jar, purpose, owner>> /\ place[r] = "csrf" /\ pc[r] = "idle" /\ mode[r] = "none"
      /\ owner[r] \in Tabs /\ tok[r] = None /\ made[r] = None
  BY DEF Send, cookies, Handlers, Chain, Holding
<1>2. CASE UNCHANGED server /\ \E where \in {"forbidden", "unauthorized", "served"} : Arrive(r, where)
  <2>1. \A q \in Requests : \/ place'[q] = place[q]
                            \/ place[q] \in Before /\ place'[q] \in Before
    BY <1>1, <1>2 DEF Arrive
  <2>2. \A q \in Requests : place[q] = "sent" => owner'[q] # None
    BY <1>1 DEF Handlers
  <2> QED
    BY <1>1, <1>2, <2>1, <2>2, PagesKeepCalm
<1>3. CASE purpose[r] = "login" /\ Arrive(r, "sent") /\ \E s \in Sessions : Srv!Login(r, s)
  <2>1. /\ place' = [place EXCEPT ![r] = "sent"] /\ pc' = [pc EXCEPT ![r] = "firstToken"]
        /\ UNCHANGED <<mode, tok, made, dead, delivered, reused>>
    BY <1>3 DEF Arrive, Srv!Login, Srv!Goto, Srv!world
  <2>2. Handlers'
    BY <1>1, <1>3, <2>1 DEF Handlers
  <2>3. Once'
    BY <1>1, <1>3, <2>1 DEF Once
  <2> QED
    BY <2>2, <2>3
<1>4. CASE purpose[r] = "logout" /\ Arrive(r, "sent") /\ jar # None /\ Srv!LogoutRead(r, jar)
  <2>1. /\ place' = [place EXCEPT ![r] = "sent"] /\ pc' = [pc EXCEPT ![r] = "killTokens"]
        /\ mode' = [mode EXCEPT ![r] = "logout"] /\ tok' = [tok EXCEPT ![r] = jar]
        /\ UNCHANGED <<made, dead, delivered, reused>>
    BY <1>4 DEF Arrive, Srv!LogoutRead, Srv!Goto, Srv!rows, Srv!world
  <2>2. Handlers'
    BY <1>1, <1>4, <2>1 DEF Handlers
  <2>3. Once'
    BY <1>1, <1>4, <2>1 DEF Once
  <2> QED
    BY <2>2, <2>3
<1>5. CASE SendRefresh(r) /\ jar # None
  <2>1. /\ purpose[r] = "refresh" /\ Srv!RefreshRead(r, jar) /\ Arrive(r, "sent")
        /\ \A q \in Requests \ {r} : Presents(q) /\ owner[q] # owner[r] => tok[q] # jar
    <3>1. /\ purpose[r] = "refresh" /\ Srv!RefreshRead(r, jar) /\ Arrive(r, "sent")
          /\ mishaps' = IF \E q \in Requests \ {r} :
                             /\ place[q] = "sent" /\ purpose[q] = "refresh"
                             /\ owner[q] \notin {owner[r], None} /\ tok[q] = jar
                         THEN mishaps \union {"raced"} ELSE mishaps
      BY <1>5 DEF SendRefresh
    <3>2. "raced" \notin mishaps'
      BY DEF Calm
    <3>3. \A q \in Requests : Presents(q) => owner[q] # None
      BY DEF Handlers
    <3> QED
      BY <3>1, <3>2, <3>3
  <2>2. /\ place' = [place EXCEPT ![r] = "sent"] /\ pc' = [pc EXCEPT ![r] = "successor"]
        /\ tok' = [tok EXCEPT ![r] = jar]
        /\ UNCHANGED <<mode, made, delivered, reused>>
        /\ \A q \in Requests \ {r} : dead'[q] = dead[q]
    BY <2>1 DEF Arrive, Srv!RefreshRead, Srv!Goto, Srv!rows, Srv!world, Once
  <2>3. \A q \in Requests \ {r} : Presents(q) => tok[q] # jar
    <3> SUFFICES ASSUME NEW q \in Requests \ {r}, Presents(q), owner[q] = owner[r] PROVE FALSE
      BY <2>1
    <3>1. Refreshes(q) /\ Refreshes(r)
      BY <1>1, <2>1 DEF Refreshes
    <3>2. "cut" \notin mishaps
      BY <1>5 DEF Calm, SendRefresh
    <3> QED
      BY <1>1, <3>1, <3>2 DEF AllInFlight
  <2>4. ASSUME NEW q \in Requests, made[q] # None, tok[q] # None PROVE tok[q] # jar
    <3>1. q # r
      BY <1>1, <2>4
    <3>2. CASE pc[q] = "granted"
      BY <2>4, <3>2 DEF Once
    <3>3. CASE pc[q] # "granted"
      <4>1. pc[q] \in {"retire", "reply", "lost"}
        BY <2>4, <3>3 DEF Chain, Holding
      <4>2. Presents(q)
        BY <2>4, <4>1 DEF Handlers
      <4> QED
        BY <2>3, <3>1, <4>2
    <3> QED
      BY <3>2, <3>3
  <2>5. Handlers'
    BY <1>1, <1>5, <2>1, <2>2 DEF Handlers
  <2>6. Once'
    <3>1. \A q \in Requests : Presents(q)' <=> Presents(q) \/ q = r
      BY <1>1, <2>1, <2>2
    <3>2. \A q \in Requests : tok'[q] = IF q = r THEN jar ELSE tok[q]
      BY <2>2
    <3>3. \A q \in Requests : pc'[q] = IF q = r THEN "successor" ELSE pc[q]
      BY <2>2
    <3> HIDE DEF Presents
    <3> QED
      BY <1>1, <2>2, <2>3, <2>4, <3>1, <3>2, <3>3 DEF Once
  <2> QED
    BY <2>5, <2>6
<1>6. CASE Forbid(r)
  BY <1>2, <1>6 DEF Forbid
<1>7. CASE SendRefresh(r) /\ jar = None
  <2>1. Arrive(r, "unauthorized") /\ UNCHANGED server
    BY <1>7 DEF SendRefresh
  <2> QED
    BY <1>2, <2>1
<1>8. CASE SendLogin(r)
  BY <1>3, <1>8 DEF SendLogin
<1>9. CASE SendLogout(r)
  BY <1>2, <1>4, <1>9 DEF SendLogout
<1> QED
  BY <1>5, <1>6, <1>7, <1>8, <1>9 DEF Send

(* The answer of a login or a refresh arrives, with a new cookie.          *)
LEMMA DeliverKeepsCalm ==
  ASSUME ServerInv, Chain, PageTypes, Handlers, Once, NEW r \in Requests, Deliver(r), Calm'
  PROVE  Handlers' /\ Once'
<1> USE BrowserAssumption DEF Before, Presents, ServerInv, Srv!TypeOK
<1>1. /\ pc[r] = "reply" /\ pc' = [pc EXCEPT ![r] = "granted"]
      /\ delivered' \in {delivered, delivered \union {made[r]}}
      /\ UNCHANGED <<mode, tok, made, dead, reused, place, purpose, owner>>
  BY DEF Deliver, Srv!Reply, Srv!Goto, Srv!rows, Srv!request, requests
<1>2. made[r] \in delivered' /\ jar' = made[r]
  BY DEF Deliver, Calm
<1>3. made[r] \in Tokens /\ made[r] \notin delivered
  BY <1>1 DEF Chain, Holding
<1>4. Handlers'
  BY <1>1 DEF Handlers, PageTypes
<1>5. Once'
  <2>1. \A q \in Requests : tok[q] # None => tok[q] # made[r]
    BY <1>3 DEF Chain, Holding
  <2> QED
    BY <1>1, <1>2, <1>3, <2>1 DEF Once
<1> QED
  BY <1>4, <1>5

(* Pages come and go, ask, and take answers.                               *)
LEMMA PageStepsKeepCalm ==
  ASSUME ServerInv, Page, Waiting, Handlers, Once, Calm',
         \/ \E t \in Tabs : Close(t) \/ FetchCsrf(t)
         \/ \E t \in Tabs, r \in Requests : Open(t, r) \/ TimerFires(t, r) \/ Unauthorized(t, r) \/ Ask(t, r)
         \/ \E r \in Requests : Receive(r)
  PROVE  Handlers' /\ Once'
<1> USE BrowserAssumption DEF Before, Page, PageTypes
<1>0. \A r \in Requests : place[r] = "sent" => owner[r] # None
  BY DEF Handlers
<1>1. ASSUME NEW t \in Tabs, Close(t)
      PROVE  Handlers' /\ Once'
  <2>1. \A r \in Requests : owner[r] = t => place[r] # "sent"
    BY <1>1 DEF Close, Calm
  <2>2. UNCHANGED <<server, jar, purpose>>
    BY <1>1 DEF Close, cookies
  <2>3. \A r \in Requests : \/ place'[r] = place[r] /\ (place[r] = "sent" => owner'[r] # None)
                            \/ place[r] \in Before /\ place'[r] = "closed"
    <3> SUFFICES ASSUME NEW r \in Requests
                 PROVE  \/ place'[r] = place[r] /\ (place[r] = "sent" => owner'[r] # None)
                        \/ place[r] \in Before /\ place'[r] = "closed"
      OBVIOUS
    <3>1. /\ place'[r] = IF owner[r] = t /\ place[r] # "sent" THEN "closed" ELSE place[r]
          /\ owner'[r] = IF owner[r] = t THEN None ELSE owner[r]
      BY <1>1 DEF Close
    <3> QED
      BY <1>0, <2>1, <3>1
  <2> QED
    BY <2>2, <2>3, PagesKeepCalm
<1>2. ASSUME NEW t \in Tabs, FetchCsrf(t)
      PROVE  Handlers' /\ Once'
  <2>1. UNCHANGED <<server, jar, place, purpose, owner>>
    BY <1>2 DEF FetchCsrf, requests
  <2> QED
    BY <1>0, <2>1, PagesKeepCalm
<1>3. ASSUME NEW t \in Tabs, NEW r \in Requests, Open(t, r) \/ TimerFires(t, r) \/ Unauthorized(t, r) \/ Ask(t, r)
      PROVE  Handlers' /\ Once'
  <2>1. UNCHANGED <<server, jar>>
    BY <1>3 DEF Open, TimerFires, Unauthorized, Ask, cookies
  <2>2. UNCHANGED requests \/ \E what \in {"refresh", "login", "logout"} : Begin(t, r, what)
    BY <1>3 DEF Open, TimerFires, Unauthorized, Ask, RefreshSession
  <2>3. \A q \in Requests : \/ place'[q] = place[q] /\ purpose'[q] = purpose[q] /\ owner'[q] = owner[q]
                            \/ place[q] = "new" /\ place'[q] = "csrf"
    BY <2>2 DEF requests, Begin, IsNext
  <2> QED
    BY <1>0, <2>1, <2>3, PagesKeepCalm
<1>4. ASSUME NEW r \in Requests, Receive(r)
      PROVE  Handlers' /\ Once'
  <2>1. /\ Answered(r) /\ UNCHANGED server /\ jar' \in {jar, None} /\ place'[r] = "closed"
        /\ \A q \in Requests \ {r} :
             \/ place'[q] = place[q] /\ purpose'[q] = purpose[q] /\ owner'[q] = owner[q]
             \/ place[q] = "new" /\ place'[q] = "csrf"
    <3>1. CASE Finish(r) /\ Answered(r) /\ UNCHANGED server /\ jar' \in {jar, None}
      BY <3>1 DEF Finish
    <3>2. CASE ReceiveRefresh(r)
      <4>1. Answered(r) /\ UNCHANGED <<server, jar>>
        BY <3>2 DEF ReceiveRefresh, cookies
      <4>2. ASSUME NEW q \in Requests, IsNext(q), 
                   place' = [place EXCEPT ![q] = "csrf", ![r] = "closed"],
                   owner' = [owner EXCEPT ![q] = owner[r], ![r] = None],
                   purpose' = [purpose EXCEPT ![q] = "logout"]
            PROVE  <2>1
        BY <4>1, <4>2 DEF IsNext
      <4> QED
        BY <3>1, <3>2, <4>1, <4>2 DEF ReceiveRefresh, Refreshed, Expired, Unreadable
    <3>3. CASE ReceiveLogin(r) \/ ReceiveNone(r)
      BY <3>1, <3>3 DEF ReceiveLogin, ReceiveNone, cookies
    <3>4. CASE ReceiveLogout(r)
      <4>1. Answered(r) /\ UNCHANGED server /\ jar' \in {jar, None} /\ owner[r] \in Tabs /\ purpose[r] = "logout"
        BY <3>4 DEF ReceiveLogout
      <4>2. ASSUME NEW q \in Requests \ {r}, flight[owner[r]] \in {q, None},
                   flight[owner[r]] = None => IsNext(q),
                   place' = [place EXCEPT ![r] = "closed",
                              ![q] = IF flight[owner[r]] = q THEN place[q] ELSE "csrf"],
                   owner' = [owner EXCEPT ![r] = None, ![q] = owner[r]],
                   UNCHANGED purpose
            PROVE  <2>1
        <5>1. flight[owner[r]] = q => owner[q] = owner[r]
          BY <4>1, <4>2 DEF FlightKept
        <5> QED
          BY <4>1, <4>2, <5>1 DEF IsNext
      <4> QED
        BY <3>1, <3>4, <4>1, <4>2 DEF ReceiveLogout
    <3> QED
      BY <1>4, <3>2, <3>3, <3>4 DEF Receive
  <2>2. \A q \in Requests :
           \/ place'[q] = place[q] /\ purpose'[q] = purpose[q] /\ (place[q] = "sent" => owner'[q] # None)
           \/ place[q] \in Before /\ place'[q] \in Before \union {"closed"}
           \/ Answered(q) /\ place'[q] = "closed"
    BY <1>0, <2>1
  <2> QED
    BY <2>1, <2>2, PagesKeepCalm
<1> QED
  BY <1>1, <1>2, <1>3, <1>4

(* An accident is remembered.                                              *)
LEMMA MishapsStay ==
  ASSUME [Next]_vars
  PROVE  mishaps \subseteq mishaps'
<1> USE DEF history
<1>1. CASE UNCHANGED vars
  BY <1>1 DEF vars
<1>2. ASSUME NEW t \in Tabs, Close(t) \/ FetchCsrf(t)
      PROVE  mishaps \subseteq mishaps'
  BY <1>2 DEF Close, FetchCsrf
<1>3. ASSUME NEW t \in Tabs, NEW r \in Requests, Open(t, r) \/ TimerFires(t, r) \/ Unauthorized(t, r) \/ Ask(t, r)
      PROVE  mishaps \subseteq mishaps'
  BY <1>3 DEF Open, TimerFires, Unauthorized, Ask
<1>4. ASSUME NEW r \in Requests, Send(r) \/ Serve(r) \/ Deliver(r) \/ Fail(r) \/ ResetElsewhere(r)
      PROVE  mishaps \subseteq mishaps'
  BY <1>4 DEF Send, Forbid, SendRefresh, SendLogin, SendLogout, Serve, Deliver, Fail, ResetElsewhere
<1>5. ASSUME NEW r \in Requests, Receive(r)
      PROVE  mishaps \subseteq mishaps'
  BY <1>5 DEF Receive, ReceiveRefresh, Refreshed, Expired, Unreadable, ReceiveLogin, ReceiveLogout, ReceiveNone,
     HardLogout, page
<1> QED
  BY <1>1, <1>2, <1>3, <1>4, <1>5 DEF Next

(* Every step keeps track of the tokens presented, until an accident.      *)
LEMMA StepKeepsCalm ==
  ASSUME ServerInv, Chain, Page, Waiting, expired = {}, CalmInv, [Next]_vars
  PROVE  CalmInv'
<1> SUFFICES ASSUME Calm' PROVE Handlers' /\ Once'
  BY DEF CalmInv
<1>1. Calm
  <2>1. mishaps \subseteq mishaps'
    BY MishapsStay
  <2> QED
    BY <2>1 DEF Calm
<1>2. Handlers /\ Once
  BY <1>1 DEF CalmInv
<1> USE DEF Page
<1>3. CASE UNCHANGED vars
  BY <1>2, <1>3 DEF vars, server, cookies, requests, Handlers, Once, Presents
<1>4. ASSUME NEW r \in Requests, ResetElsewhere(r)
      PROVE  Handlers' /\ Once'
  <2>1. /\ place[r] = "new" /\ place' = [place EXCEPT ![r] = "closed"] /\ pc' = [pc EXCEPT ![r] = "ended"]
        /\ UNCHANGED <<jar, purpose, owner, mode, tok, made, dead, delivered, reused>>
    BY <1>4 DEF ResetElsewhere, IsNext, Arrive, Srv!ResetSessions, Srv!RevokeAllSessions, Srv!Goto,
       cookies, Srv!links, Srv!world, Srv!request
  <2>2. Handlers'
    BY <1>2, <2>1 DEF Handlers, Presents, Before, PageTypes, ServerInv, Srv!TypeOK
  <2>3. Once'
    BY <1>2, <2>1 DEF Once, Presents, PageTypes, ServerInv, Srv!TypeOK
  <2> QED
    BY <2>2, <2>3
<1>5. ASSUME NEW r \in Requests, Fail(r)
      PROVE  FALSE
  BY <1>5 DEF Fail, Calm
<1> QED
  BY <1>2, <1>3, <1>4, <1>5, ServeKeepsCalm, SendKeepsCalm, DeliverKeepsCalm, PageStepsKeepCalm DEF Next

-----------------------------------------------------------------------------
(* Logouts.                                                                *)

(* What stays so on the server as long as no request dies.                 *)
LEMMA ServerGrows ==
  ASSUME ServerInv, Chain, Srv!Next \/ UNCHANGED server, \A r \in Requests : pc'[r] # "lost"
  PROVE  /\ revoked \subseteq revoked'
         /\ \A s : Doomed(s) => Doomed(s)'
         /\ \A r \in Requests : made[r] # None => made'[r] = made[r]
         /\ \A r \in Requests : pc[r] # "idle" => target'[r] = target[r] /\ tok'[r] = tok[r] /\ dead'[r] = dead[r]
         /\ \A k \in Tokens : sess[k] # None => sess'[k] = sess[k]
<1> DEFINE Goal == /\ revoked \subseteq revoked'
                   /\ \A r \in Requests : pc[r] = "killSession" => pc'[r] = "killSession" \/ target[r] \in revoked'
                   /\ \A r \in Requests : made[r] # None => made'[r] = made[r]
                   /\ \A r \in Requests : pc[r] # "idle" =>
                        target'[r] = target[r] /\ tok'[r] = tok[r] /\ dead'[r] = dead[r]
                   /\ \A k \in Tokens : sess[k] # None => sess'[k] = sess[k]
<1> USE BrowserAssumption DEF ServerInv, Srv!TypeOK
<1>1. ASSUME UNCHANGED server
      PROVE  Goal
  BY <1>1 DEF server
<1>2. ASSUME NEW x \in Sessions \union Tokens, Srv!Expires(x)
      PROVE  Goal
  BY <1>2 DEF Srv!Expires, Srv!rows, Srv!request
<1>3. ASSUME NEW r \in Requests, NEW s \in Sessions, Srv!Login(r, s) \/ Srv!LogoutAll(r, s)
      PROVE  Goal
  BY <1>3 DEF Srv!Login, Srv!LogoutAll, Srv!RevokeAllSessions, Srv!Goto, Srv!links
<1>4. ASSUME NEW r \in Requests, NEW t \in Tokens, Srv!RefreshRead(r, t) \/ Srv!LogoutRead(r, t)
      PROVE  Goal
  <2>1. /\ pc[r] = "idle" /\ UNCHANGED <<sess, revoked, made>>
        /\ tok' = [tok EXCEPT ![r] = t] /\ target' = [target EXCEPT ![r] = sess[t]]
        /\ \A q \in Requests \ {r} : pc'[q] = pc[q] /\ dead'[q] = dead[q]
    BY <1>4 DEF Srv!RefreshRead, Srv!LogoutRead, Srv!Goto, Srv!rows
  <2> QED
    BY <2>1
<1>5. ASSUME NEW r \in Requests, Srv!ResetSessions(r)
      PROVE  Goal
  BY <1>5 DEF Srv!ResetSessions, Srv!RevokeAllSessions, Srv!Goto, Srv!links, Srv!request
<1>6. ASSUME NEW r \in Requests, Srv!Advance(r)
      PROVE  Goal
  <2>1. CASE Srv!FindSuccessor(r) \/ Srv!IssueSession(r) \/ Srv!Reply(r)
    BY <2>1 DEF Srv!FindSuccessor, Srv!IssueSession, Srv!Reply, Srv!Goto, Srv!rows, Srv!request
  <2>2. CASE Srv!RetireToken(r) \/ Srv!KillTokens(r) \/ Srv!MarkReused(r)
    BY <2>2 DEF Srv!RetireToken, Srv!KillTokens, Srv!MarkReused, Srv!Goto, Srv!links, Srv!request
  <2>3. CASE Srv!KillSession(r)
    <3>1. /\ revoked' = revoked \union {target[r]} /\ UNCHANGED <<sess, tok, target, dead, made>>
          /\ \A q \in Requests \ {r} : pc'[q] = pc[q]
      BY <2>3 DEF Srv!KillSession, Srv!Goto, Srv!links, Srv!request
    <3> QED
      BY <3>1
  <2>4. ASSUME NEW t \in Tokens, Srv!FirstToken(r, t) \/ Srv!CreateSuccessor(r, t)
        PROVE  Goal
    <3>1. made[r] = None
      BY <2>4 DEF Srv!FirstToken, Srv!CreateSuccessor, Chain, Holding
    <3> QED
      BY <2>4, <3>1 DEF Srv!FirstToken, Srv!CreateSuccessor, Srv!InsertToken, Srv!Exists, Srv!Goto
  <2> QED
    BY <1>6, <2>1, <2>2, <2>3, <2>4 DEF Srv!Advance
<1>7. ASSUME NEW r \in Requests, Srv!Fail(r)
      PROVE  FALSE
  BY <1>7 DEF Srv!Fail, Srv!Goto
<1>8. Goal
  <2> HIDE DEF Goal
  <2> QED
    BY <1>1, <1>2, <1>3, <1>4, <1>5, <1>6, <1>7 DEF Srv!Next
<1> QED
  BY <1>8 DEF Doomed

(* A token that was rotated stays so.                                      *)
LEMMA PeaceGrows ==
  ASSUME ServerInv, Chain, Srv!Next \/ UNCHANGED server, \A r \in Requests : pc'[r] # "lost"
  PROVE  /\ \A k : Rotated(k) => Rotated(k)'
         /\ \A k \in delivered : sess'[k] = sess[k]
         /\ \A k \in Tokens \intersect revoked : sess'[k] = sess[k]
         /\ \A k \in Tokens \intersect revoked : Rotated(k) \/ Doomed(sess[k])
              => (Rotated(k) \/ Doomed(sess[k]))'
<1> USE BrowserAssumption
<1>1. /\ \A s : Doomed(s) => Doomed(s)'
      /\ \A r \in Requests : made[r] # None => made'[r] = made[r]
      /\ \A r \in Requests : pc[r] # "idle" => tok'[r] = tok[r]
      /\ \A k \in Tokens : sess[k] # None => sess'[k] = sess[k]
  BY ServerGrows
<1>2. \A r \in Requests : made[r] # None => pc[r] # "idle"
  BY DEF Chain, Holding
<1>3. \A k : Rotated(k) => Rotated(k)'
  BY <1>1, <1>2 DEF Rotated
<1>4. \A k \in delivered : sess'[k] = sess[k]
  BY <1>1 DEF ServerInv, Srv!TypeOK
<1>5. \A k \in Tokens \intersect revoked : sess'[k] = sess[k]
  BY <1>1 DEF Chain
<1> QED
  BY <1>1, <1>3, <1>4, <1>5

(* The handlers go on: a token is revoked when it was rotated, or by a     *)
(* request that revokes its session next.                                  *)
LEMMA ServeKeepsPeace ==
  ASSUME ServerInv, Chain, PageTypes, Handlers, Handlers', Cookie, Deaths, Answers,
         \A s \in left : Doomed(s), NEW r \in Requests, Serve(r)
  PROVE  Cookie' /\ Deaths' /\ Answers' /\ \A s \in left' : Doomed(s)'
<1> USE BrowserAssumption
<1>1. UNCHANGED <<jar, csrfOf, page, owner, place, purpose, mishaps, left, delivered>> /\ Srv!Advance(r)
  <2>1. UNCHANGED <<cookies, page, requests, history>>
    BY DEF Serve
  <2>2. UNCHANGED delivered
    BY DEF Serve, Srv!FindSuccessor, Srv!IssueSession, Srv!RetireToken, Srv!KillTokens, Srv!KillSession,
       Srv!MarkReused, Srv!FirstToken, Srv!CreateSuccessor, Srv!world
  <2> QED
    BY <2>1, <2>2 DEF Serve, Srv!Advance, cookies, requests, history
<1>2. UNCHANGED <<access, call>>
  BY <1>1 DEF page, store, calls
<1>3. Srv!Next /\ \A q \in Requests : pc'[q] # "lost"
  BY <1>1 DEF Srv!Next, Handlers, PageTypes, Before, Presents
<1>4. /\ revoked \subseteq revoked'
      /\ \A s : Doomed(s) => Doomed(s)'
      /\ \A q \in Requests : pc[q] # "idle" => target'[q] = target[q] /\ tok'[q] = tok[q] /\ dead'[q] = dead[q]
  BY <1>3, ServerGrows
<1>5. /\ \A k : Rotated(k) => Rotated(k)'
      /\ \A k \in delivered : sess'[k] = sess[k]
      /\ \A k \in Tokens \intersect revoked : Rotated(k) \/ Doomed(sess[k])
           => (Rotated(k) \/ Doomed(sess[k]))'
  BY <1>3, PeaceGrows
<1>6. \A q \in Requests : place[q] = "sent" => pc[q] # "idle"
  BY DEF Handlers, PageTypes, Presents
<1>7. Cookie'
  <2>1. ASSUME NEW k \in delivered, sess'[k] \notin revoked'
        PROVE  jar # None /\ sess'[jar] = sess'[k]
    <3>1. sess'[k] = sess[k] /\ sess[k] \notin revoked /\ sess[k] # None
      BY <1>4, <1>5, <2>1 DEF ServerInv
    <3>2. jar \in Tokens /\ sess[jar] = sess[k]
      BY <3>1 DEF Cookie, PageTypes
    <3>3. sess'[jar] = sess[jar]
      BY <1>3, <3>1, <3>2, ServerGrows
    <3> QED
      BY <3>1, <3>2, <3>3
  <2>2. \A t \in Tabs : access'[t] # None => \E k \in delivered' : sess'[k] = access'[t]
    BY <1>1, <1>2, <1>5 DEF Cookie
  <2> QED
    BY <1>1, <2>1, <2>2 DEF Cookie
<1>8. \A k \in (Tokens \intersect revoked') \ revoked : (Rotated(k) \/ Doomed(sess[k]))'
  <2> SUFFICES ASSUME NEW k \in Tokens, k \in revoked', k \notin revoked
               PROVE  (Rotated(k) \/ Doomed(sess[k]))'
    OBVIOUS
  <2>1. CASE Srv!RetireToken(r)
    <3>1. k = tok[r] /\ made[r] # None /\ UNCHANGED <<tok, made>>
      BY <2>1 DEF Srv!RetireToken, Srv!request, ServerInv
    <3> QED
      BY <3>1 DEF Rotated
  <2>2. CASE Srv!KillTokens(r)
    <3>1. sess'[k] = target'[r] /\ pc'[r] = "killSession"
      BY <2>2 DEF Srv!KillTokens, Srv!request, Srv!links, Srv!Goto, ServerInv, Srv!TypeOK
    <3> QED
      BY <3>1 DEF Doomed
  <2>3. CASE Srv!KillSession(r)
    <3>1. k = target[r] /\ target[r] \in Sessions
      BY <2>3 DEF Srv!KillSession, ServerInv
    <3> QED
      BY <3>1
  <2>4. CASE UNCHANGED revoked
    BY <2>4
  <2> QED
    BY <2>1, <2>2, <2>3, <2>4 DEF Serve, Srv!FindSuccessor, Srv!IssueSession, Srv!MarkReused,
       Srv!FirstToken, Srv!CreateSuccessor, Srv!rows
<1>9. \A q \in Requests : place[q] = "sent" /\ pc'[q] = "ended" => target'[q] \in revoked'
  <2> SUFFICES ASSUME NEW q \in Requests, place[q] = "sent", pc'[q] = "ended"
               PROVE  target'[q] \in revoked'
    OBVIOUS
  <2>1. CASE pc[q] = "ended"
    BY <1>4, <2>1 DEF Deaths
  <2>2. CASE pc[q] # "ended"
    <3>1. Srv!KillSession(r) /\ q = r
      BY <2>2 DEF Serve, Srv!FindSuccessor, Srv!IssueSession, Srv!RetireToken, Srv!KillTokens, Srv!KillSession,
         Srv!MarkReused, Srv!FirstToken, Srv!CreateSuccessor, Srv!Goto, ServerInv, Srv!TypeOK
    <3> QED
      BY <3>1 DEF Srv!KillSession, Srv!request
  <2> QED
    BY <2>1, <2>2
<1>10. Deaths'
  <2>1. \A q \in Requests : Presents(q)' /\ dead'[q] => (Rotated(tok[q]) \/ Doomed(target[q]))'
    BY <1>1, <1>4, <1>5, <1>6 DEF Deaths, Presents
  <2>2. \A k \in Tokens \intersect revoked' : (Rotated(k) \/ Doomed(sess[k]))'
    BY <1>5, <1>8 DEF Deaths
  <2> QED
    BY <1>1, <1>9, <2>1, <2>2 DEF Deaths
<1>11. Answers'
  BY <1>1, <1>2, <1>4, <1>6 DEF Answers, Safe
<1> QED
  BY <1>1, <1>4, <1>7, <1>10, <1>11

(* The answer of a login or a refresh arrives: its token is the cookie, of *)
(* the same session as the one before.                                     *)
LEMMA DeliverKeepsPeace ==
  ASSUME ServerInv, Chain, PageTypes, Handlers, Cookie, Deaths, Answers,
         \A s \in left : Doomed(s), NEW r \in Requests, Deliver(r), mishaps' = {}
  PROVE  Cookie' /\ Deaths' /\ Answers' /\ \A s \in left' : Doomed(s)'
<1> USE BrowserAssumption
<1>1. /\ pc[r] = "reply" /\ pc' = [pc EXCEPT ![r] = "granted"]
      /\ UNCHANGED <<sess, revoked, tok, target, dead, made, access, call, owner, place, purpose, left>>
  BY DEF Deliver, Srv!Reply, Srv!Goto, Srv!rows, Srv!request, page, store, calls, requests
<1>2. /\ jar' = made[r] /\ delivered' = delivered \union {made[r]}
      /\ jar # None => sess[jar] = target[r]
  BY DEF Deliver, Srv!Reply
<1>3. made[r] # None /\ sess[made[r]] = target[r]
  BY <1>1 DEF ServerInv, Chain, Holding
<1>4. Cookie'
  BY <1>1, <1>2, <1>3 DEF Cookie
<1>5. /\ \A s : Doomed(s) => Doomed(s)'
      /\ \A k : Rotated(k) => Rotated(k)'
  BY <1>1 DEF Doomed, Rotated, ServerInv, Srv!TypeOK
<1>6. Deaths'
  BY <1>1, <1>5 DEF Deaths, Presents, ServerInv, Srv!TypeOK
<1>7. Answers'
  BY <1>1, <1>5 DEF Answers, Safe
<1> QED
  BY <1>1, <1>4, <1>5, <1>6, <1>7

(* Another device ends every session.                                      *)
LEMMA ResetKeepsPeace ==
  ASSUME ServerInv, PageTypes, Cookie, Deaths, Answers,
         \A s \in left : Doomed(s), NEW r \in Requests, ResetElsewhere(r)
  PROVE  Cookie' /\ Deaths' /\ Answers' /\ \A s \in left' : Doomed(s)'
<1> USE BrowserAssumption
<1>1. /\ place[r] = "new" /\ place' = [place EXCEPT ![r] = "closed"]
      /\ pc[r] = "idle" /\ pc' = [pc EXCEPT ![r] = "ended"] /\ revoked' = revoked \union sessions
      /\ UNCHANGED <<jar, sess, delivered, tok, target, dead, made, access, call, owner, purpose, left>>
  BY DEF ResetElsewhere, IsNext, Arrive, Srv!ResetSessions, Srv!RevokeAllSessions, Srv!Goto, Srv!links,
     Srv!world, Srv!request, cookies, page, store, calls, history
<1>2. Cookie'
  BY <1>1 DEF Cookie
<1>3. /\ \A s : Doomed(s) => Doomed(s)'
      /\ \A k : Rotated(k) => Rotated(k)'
  BY <1>1 DEF Doomed, Rotated, ServerInv, Srv!TypeOK
<1>4. Tokens \intersect revoked' = Tokens \intersect revoked
  BY <1>1 DEF ServerInv, Srv!TypeOK
<1>5. Deaths'
  <2>1. \A q \in Requests : place'[q] = "sent" => place[q] = "sent" /\ pc'[q] = pc[q]
    BY <1>1 DEF ServerInv, Srv!TypeOK, PageTypes
  <2> QED
    BY <1>1, <1>3, <1>4, <2>1 DEF Deaths, Presents
<1>6. Answers'
  <2>1. \A q \in Requests : place'[q] \in {"sent", "unauthorized", "served", "forbidden"} => place'[q] = place[q]
    BY <1>1 DEF PageTypes
  <2> QED
    BY <1>1, <1>3, <2>1 DEF Answers, Safe
<1> QED
  BY <1>1, <1>2, <1>3, <1>5, <1>6

(* A request reaches its handler: what the server makes of the cookie it   *)
(* makes of the session of the page, unless that is revoked.               *)
LEMMA SendKeepsPeace ==
  ASSUME ServerInv, Chain, PageTypes, expired = {}, Handlers, Cookie, Deaths, Answers,
         \A s \in left : Doomed(s), NEW r \in Requests, Send(r), mishaps' = {}
  PROVE  Cookie' /\ Deaths' /\ Answers' /\ \A s \in left' : Doomed(s)'
<1> USE BrowserAssumption
<1> DEFINE t == owner[r]
<1>1. /\ place[r] = "csrf" /\ pc[r] = "idle" /\ t \in Tabs /\ made[r] = None
      /\ UNCHANGED <<jar, access, call, owner, purpose, left>>
  <2>1. place[r] = "csrf" /\ t \in Tabs /\ UNCHANGED <<jar, access, call, owner, purpose, left>>
    BY DEF Send, cookies, page, store, calls, PageTypes
  <2>2. pc[r] = "idle"
    BY <2>1 DEF Handlers, Before
  <2> QED
    BY <2>1, <2>2 DEF Chain, Holding
<1>2. access[t] # None => \E k \in delivered : sess[k] = access[t]
  BY <1>1 DEF Cookie
<1>3. access[t] # None => Doomed(access[t]) \/ (jar # None /\ sess[jar] = access[t])
  <2>1. ASSUME NEW k \in delivered, sess[k] = access[t], access[t] \notin revoked
        PROVE  jar # None /\ sess[jar] = access[t]
    BY <2>1 DEF Cookie
  <2>2. access[t] \in revoked => Doomed(access[t])
    BY DEF Doomed
  <2> QED
    BY <1>2, <2>1, <2>2
<1>4. ASSUME NEW where \in {"sent", "unauthorized"}, Arrive(r, where),
             UNCHANGED <<sess, revoked, delivered, made>>,
             \A q \in Requests \ {r} : /\ pc'[q] = pc[q] /\ tok'[q] = tok[q]
                                       /\ target'[q] = target[q] /\ dead'[q] = dead[q],
             pc'[r] \notin {"killSession", "ended"},
             where = "sent" => purpose[r] = "login" \/ Safe(t) \/ access[t] = target'[r],
             where = "unauthorized" => (purpose[r] = "refresh" \/ call[t] = "logoutAgain" => Safe(t)),
             where = "sent" /\ purpose[r] = "refresh" /\ dead'[r] => Rotated(tok'[r]) \/ Doomed(target'[r])
      PROVE  Cookie' /\ Deaths' /\ Answers' /\ \A s \in left' : Doomed(s)'
  <2>1. place' = [place EXCEPT ![r] = where]
    BY <1>4 DEF Arrive
  <2>2. /\ \A s : Doomed(s) => Doomed(s)'
        /\ \A k : Rotated(k) => Rotated(k)'
    BY <1>1, <1>4 DEF Doomed, Rotated
  <2>3. Cookie'
    BY <1>1, <1>4 DEF Cookie
  <2>4. Deaths'
    <3>1. \A k \in Tokens \intersect revoked' : (Rotated(k) \/ Doomed(sess[k]))'
      BY <1>4, <2>2 DEF Deaths
    <3>2. \A q \in Requests : Presents(q)' /\ dead'[q] => (Rotated(tok[q]) \/ Doomed(target[q]))'
      BY <1>1, <1>4, <2>1, <2>2 DEF Deaths, Presents, PageTypes
    <3>3. \A q \in Requests : place'[q] = "sent" /\ pc'[q] = "ended" => target'[q] \in revoked'
      BY <1>1, <1>4, <2>1 DEF Deaths, PageTypes
    <3> QED
      BY <3>1, <3>2, <3>3 DEF Deaths
  <2>5. Safe(t) => Safe(t)'
    BY <1>1, <2>2 DEF Safe
  <2>6. Answers'
    BY <1>1, <1>4, <2>1, <2>2, <2>5 DEF Answers, Safe, PageTypes
  <2> QED
    BY <1>1, <2>2, <2>3, <2>4, <2>6
<1>5. CASE Forbid(r)
  BY <1>5 DEF Forbid
<1>6. CASE SendRefresh(r)
  <2>1. CASE jar = None
    <3>1. UNCHANGED server /\ Arrive(r, "unauthorized")
      BY <1>6, <2>1 DEF SendRefresh
    <3>2. Safe(t)
      BY <1>3, <2>1 DEF Safe
    <3> QED
      BY <1>1, <1>4, <3>1, <3>2 DEF server
  <2>2. CASE jar # None
    <3>1. purpose[r] = "refresh" /\ Arrive(r, "sent") /\ Srv!RefreshRead(r, jar) /\ jar \in Tokens
      BY <1>6, <2>2 DEF SendRefresh, PageTypes
    <3>2. /\ tok' = [tok EXCEPT ![r] = jar] /\ target' = [target EXCEPT ![r] = sess[jar]]
          /\ dead' = [dead EXCEPT ![r] = jar \in revoked \/ sess[jar] \in revoked]
          /\ pc'[r] \notin {"killSession", "ended"} /\ \A q \in Requests \ {r} : pc'[q] = pc[q]
          /\ UNCHANGED <<sess, revoked, delivered, made>>
      BY <3>1 DEF Srv!RefreshRead, Srv!LooksDead, Srv!TokenExpired, Srv!Goto, Srv!rows, Srv!world, ServerInv, Srv!TypeOK
    <3>3. tok'[r] = jar /\ target'[r] = sess[jar] /\ (dead'[r] => jar \in revoked \/ sess[jar] \in revoked)
      BY <3>2 DEF ServerInv, Srv!TypeOK
    <3>4. dead'[r] => Rotated(tok'[r]) \/ Doomed(target'[r])
      BY <3>1, <3>3 DEF Deaths, Doomed
    <3>5. Safe(t) \/ access[t] = target'[r]
      BY <1>3, <3>3 DEF Safe
    <3> QED
      BY <1>4, <3>1, <3>2, <3>4, <3>5 DEF ServerInv, Srv!TypeOK
  <2> QED
    BY <2>1, <2>2
<1>7. CASE SendLogin(r)
  <2>1. PICK s \in Sessions : Srv!Login(r, s)
    BY <1>7 DEF SendLogin
  <2>2. purpose[r] = "login" /\ Arrive(r, "sent")
    BY <1>7 DEF SendLogin
  <2>3. /\ pc' = [pc EXCEPT ![r] = "firstToken"] /\ target' = [target EXCEPT ![r] = s]
        /\ UNCHANGED <<sess, revoked, delivered, tok, dead, made>>
    BY <2>1 DEF Srv!Login, Srv!Goto, Srv!world
  <2> QED
    BY <1>4, <2>2, <2>3 DEF ServerInv, Srv!TypeOK
<1>8. CASE SendLogout(r)
  <2>1. purpose[r] = "logout"
    BY <1>8 DEF SendLogout
  <2>2. CASE Rejected(t) /\ Arrive(r, "unauthorized") /\ UNCHANGED server
    <3>1. call[t] = "logoutAgain" => Safe(t)
      BY <2>2 DEF Rejected, Safe, Doomed
    <3> QED
      BY <1>1, <1>4, <2>1, <2>2, <3>1 DEF server
  <2>3. CASE Accepted(t) /\ jar = None
    BY <1>2, <2>3 DEF Accepted, Cookie
  <2>4. CASE Accepted(t) /\ jar # None /\ Srv!LogoutRead(r, jar) /\ Arrive(r, "sent")
    <3>1. sess[jar] = access[t]
      BY <1>2, <2>4 DEF Accepted, Cookie
    <3>2. /\ tok' = [tok EXCEPT ![r] = jar] /\ target' = [target EXCEPT ![r] = sess[jar]]
          /\ pc' = [pc EXCEPT ![r] = "killTokens"]
          /\ UNCHANGED <<sess, revoked, delivered, dead, made>>
      BY <2>4 DEF Srv!LogoutRead, Srv!Goto, Srv!rows, Srv!world
    <3> QED
      BY <1>4, <2>1, <2>4, <3>1, <3>2 DEF ServerInv, Srv!TypeOK
  <2> QED
    BY <1>8, <2>2, <2>3, <2>4 DEF SendLogout
<1> QED
  BY <1>5, <1>6, <1>7, <1>8 DEF Send

(* What pages do keeps it, when they go over to sessions they have the     *)
(* cookie of, sign out of sessions that end, and ask for the rest alone.   *)
LEMMA PagesKeepPeace ==
  ASSUME ServerInv, PageTypes, Cookie, Deaths, Answers, \A s \in left : Doomed(s),
         UNCHANGED server,
         jar' = jar \/ (jar' = None /\ (jar # None => sess[jar] \in revoked)),
         \A t \in Tabs : \/ access'[t] \in {access[t], None}
                         \/ \E k \in delivered : sess[k] = access'[t],
         \A s \in left' : s \in left \/ Doomed(s),
         \A r \in Requests : \/ place'[r] = place[r] /\ purpose'[r] = purpose[r]
                             \/ place'[r] \in {"csrf", "closed"},
         \A r \in Requests : place'[r] \in {"sent", "unauthorized"} /\ owner'[r] # None =>
           /\ owner'[r] = owner[r]
           /\ purpose'[r] # "login" => access'[owner[r]] \in {access[owner[r]], None}
           /\ purpose'[r] = "login" => call'[owner[r]] # "logoutAgain"
           /\ purpose'[r] = "logout" => call'[owner[r]] = call[owner[r]]
  PROVE  Cookie' /\ Deaths' /\ Answers' /\ \A s \in left' : Doomed(s)'
<1> USE BrowserAssumption
<1>1. UNCHANGED <<sess, revoked, delivered, pc, tok, target, dead, made>>
  BY DEF server
<1>2. /\ \A s : Doomed(s) <=> Doomed(s)'
      /\ \A k : Rotated(k) <=> Rotated(k)'
  BY <1>1 DEF Doomed, Rotated
<1>3. Cookie'
  BY <1>1 DEF Cookie
<1>4. Deaths'
  BY <1>1, <1>2 DEF Deaths, Presents
<1>5. Answers'
  <2> SUFFICES ASSUME NEW r \in Requests
               PROVE  /\ place'[r] \notin {"served", "forbidden"}
                      /\ owner'[r] # None /\ place'[r] = "sent" /\ purpose'[r] # "login" =>
                           access'[owner'[r]] = target[r] \/ Safe(owner[r])'
                      /\ owner'[r] # None /\ place'[r] = "unauthorized" =>
                           ((purpose'[r] = "refresh" \/ call'[owner'[r]] = "logoutAgain") => Safe(owner[r])')
    BY <1>1 DEF Answers
  <2>1. place'[r] \notin {"served", "forbidden"}
    BY DEF Answers
  <2>2. CASE place'[r] \in {"sent", "unauthorized"} /\ owner'[r] # None
    <3>1. /\ owner'[r] = owner[r] /\ place'[r] = place[r] /\ purpose'[r] = purpose[r]
          /\ purpose[r] \in {"refresh", "login", "logout"}
      BY <2>2 DEF PageTypes
    <3>2. purpose[r] # "login" /\ Safe(owner[r]) => Safe(owner[r])'
      BY <1>2, <2>2, <3>1 DEF Safe
    <3>3. purpose[r] # "login" => access'[owner[r]] \in {access[owner[r]], None}
      BY <2>2, <3>1
    <3>4. CASE purpose[r] = "login"
      BY <2>1, <2>2, <3>1, <3>4
    <3>5. CASE purpose[r] # "login" /\ place[r] = "sent"
      <4>1. access[owner[r]] = target[r] \/ Safe(owner[r])
        BY <2>2, <3>1, <3>5 DEF Answers
      <4>2. access'[owner[r]] = target[r] \/ Safe(owner[r])'
        BY <1>2, <3>1, <3>2, <3>3, <3>5, <4>1 DEF Safe
      <4> QED
        BY <2>1, <3>1, <3>5, <4>2
    <3>6. CASE purpose[r] # "login" /\ place[r] = "unauthorized"
      <4>1. purpose[r] = "logout" => call'[owner[r]] = call[owner[r]]
        BY <2>2, <3>1
      <4>2. purpose[r] = "refresh" \/ call[owner[r]] = "logoutAgain" => Safe(owner[r])
        BY <2>2, <3>1, <3>6 DEF Answers
      <4> QED
        BY <2>1, <3>1, <3>2, <3>6, <4>1, <4>2
    <3> QED
      BY <2>2, <3>1, <3>4, <3>5, <3>6
  <2>3. CASE ~(place'[r] \in {"sent", "unauthorized"} /\ owner'[r] # None)
    BY <2>1, <2>3
  <2> QED
    BY <2>2, <2>3
<1> QED
  BY <1>2, <1>3, <1>4, <1>5

(* A page that awaits the answer to a refresh or a logout that succeeded   *)
(* or failed: whatever it was signed in to, is gone, or it is the session  *)
(* of that request.                                                        *)
LEMMA FailedRefresh ==
  ASSUME ServerInv, Chain, Page, Handlers, Once, Deaths, Answers, NEW r \in Requests,
         Refreshes(r), owner[r] # None, Answered(r), ~Succeeded(r)
  PROVE  Safe(owner[r])
<1> USE BrowserAssumption DEF Page, PageTypes
<1>1. CASE place[r] = "unauthorized"
  BY <1>1 DEF Answers, Refreshes
<1>2. CASE place[r] = "sent"
  <2>1. Presents(r)
    BY <1>2 DEF Presents, Refreshes
  <2>2. pc[r] \in {"granted", "refused"}
    BY <1>2, <2>1 DEF Handlers, Answered
  <2>3. pc[r] = "refused"
    BY <1>2, <2>2 DEF Once, Succeeded
  <2>4. Rotated(tok[r]) \/ Doomed(target[r])
    BY <2>1, <2>3 DEF Once, Deaths
  <2>5. ~Rotated(tok[r])
    <3>1. made[r] = None
      BY <2>3 DEF Chain, Holding
    <3>2. tok[r] # None
      BY <2>1 DEF Handlers
    <3> QED
      BY <2>1, <3>1, <3>2 DEF Once, Rotated
  <2>6. access[owner[r]] = target[r] \/ Safe(owner[r])
    BY <1>2 DEF Answers, Refreshes
  <2> QED
    BY <2>4, <2>5, <2>6 DEF Safe
<1>3. place[r] \in {"unauthorized", "sent"}
  BY DEF Answered, Answers, Refreshes
<1> QED
  BY <1>1, <1>2, <1>3

(* A login or a refresh that succeeded is of a session the browser got the *)
(* cookie of.                                                              *)
LEMMA SucceededDelivers ==
  ASSUME ServerInv, Chain, PageTypes, Handlers, Answers, NEW r \in Requests,
         purpose[r] # "logout", Succeeded(r)
  PROVE  \E k \in delivered : sess[k] = target[r]
<1> USE BrowserAssumption DEF PageTypes
<1>1. place[r] = "sent" /\ ((pc[r] = "granted" /\ made[r] \in delivered) \/ pc[r] = "ended")
  BY DEF Succeeded, Answers
<1>2. pc[r] # "ended"
  BY <1>1 DEF Handlers, Presents
<1>3. made[r] # None
  BY <1>1, <1>2 DEF ServerInv, Srv!TypeOK
<1> QED
  BY <1>1, <1>2, <1>3 DEF Chain, Holding

(* A page that takes the answer to its logout and does not try again was   *)
(* signed in to a session that is gone, and so is that of the cookie the   *)
(* answer clears.                                                          *)
LEMMA LogoutAnswered ==
  ASSUME ServerInv, Page, Handlers, Deaths, Answers, NEW r \in Requests,
         purpose[r] = "logout", owner[r] # None, Answered(r)
  PROVE  /\ place[r] # "unauthorized" \/ call[owner[r]] = "logoutAgain" => Safe(owner[r])
         /\ Succeeded(r) => target[r] \in revoked
<1> USE BrowserAssumption DEF Page, PageTypes
<1>1. place[r] \in {"unauthorized", "sent"}
  BY DEF Answered, Answers
<1>2. CASE place[r] = "unauthorized"
  BY <1>2 DEF Answers, Succeeded
<1>3. CASE place[r] = "sent"
  <2>1. pc[r] = "ended"
    BY <1>3 DEF Handlers, Answered
  <2>2. target[r] \in revoked
    BY <1>3, <2>1 DEF Deaths
  <2>3. access[owner[r]] = target[r] \/ Safe(owner[r])
    BY <1>3 DEF Answers
  <2> QED
    BY <2>2, <2>3 DEF Safe, Doomed
<1> QED
  BY <1>1, <1>2, <1>3

(* Requests of a page other than the refresh that is answered: its own     *)
(* login or logout, for which it waits.                                    *)
LEMMA OthersWait ==
  ASSUME Page, Waiting, "cut" \notin mishaps, NEW r \in Requests, Refreshes(r), owner[r] # None,
         NEW q \in Requests \ {r}, owner[q] = owner[r], place[q] \in {"sent", "unauthorized"}
  PROVE  /\ purpose[q] # "refresh" /\ waits[owner[r]] = q
         /\ purpose[q] = "login" => call[owner[r]] = "login"
         /\ purpose[q] = "logout" => call[owner[r]] \in {"logout", "logoutAgain"}
  BY DEF Page, PageTypes, AllInFlight, Refreshes, Waiting

(* A refresh is answered.                                                  *)
LEMMA ReceiveRefreshKeepsPeace ==
  ASSUME ServerInv, Chain, Page, Waiting, Handlers, Once, Cookie, Deaths, Answers,
         \A s \in left : Doomed(s), mishaps = {}, mishaps' = {},
         NEW r \in Requests, ReceiveRefresh(r)
  PROVE  Cookie' /\ Deaths' /\ Answers' /\ \A s \in left' : Doomed(s)'
<1> USE BrowserAssumption DEF PageTypes
<1> DEFINE t == owner[r]
<1>0. PageTypes
  BY DEF Page
<1>1. t \in Tabs /\ Refreshes(r) /\ Answered(r) /\ UNCHANGED <<server, jar>>
  BY <1>0 DEF ReceiveRefresh, cookies
<1>2. CASE Succeeded(r) /\ Refreshed(r, t)
  <2>1. Refreshed(r, t)
    BY <1>2
  <2>2. access' = [access EXCEPT ![t] = target[r]] /\ UNCHANGED left
    BY <2>1 DEF Refreshed, SetSession
  <2>3. \E k \in delivered : sess[k] = target[r]
    BY <1>0, <1>1, <1>2, SucceededDelivers DEF Refreshes
  <2>4. waits[t] # r /\ call[t] \in {"logout", "logoutAgain"} => access[t] = target[r]
    BY <2>1 DEF Refreshed
  <2>5. CASE waits[t] = r /\ call[t] = "logout"
    <3>1. PICK p \in Requests :
            /\ IsNext(p)
            /\ place' = [place EXCEPT ![p] = "csrf", ![r] = "closed"]
            /\ owner' = [owner EXCEPT ![p] = t, ![r] = None]
            /\ purpose' = [purpose EXCEPT ![p] = "logout"]
      BY <2>1, <2>5 DEF Refreshed
    <3>2. call' = [call EXCEPT ![t] = "logoutAgain"]
      BY <2>1, <2>5 DEF Refreshed
    <3>3. \A q \in Requests \ {r} : owner[q] = t => place[q] \notin {"sent", "unauthorized"}
      BY <1>1, <2>5, OthersWait
    <3>4. p # r
      BY <1>1, <3>1 DEF IsNext, Refreshes
    <3>5. \A q \in Requests : \/ place'[q] = place[q] /\ purpose'[q] = purpose[q] /\ owner'[q] = owner[q]
                              \/ place'[q] \in {"csrf", "closed"}
      BY <1>0, <3>1, <3>4
    <3>6. ASSUME NEW q \in Requests, place'[q] \in {"sent", "unauthorized"}, owner'[q] # None
          PROVE  owner'[q] = owner[q] /\ owner[q] # t /\ owner[q] \in Tabs
      <4>1. q # r /\ owner'[q] = owner[q] /\ place'[q] = place[q]
        BY <1>0, <3>1, <3>5, <3>6
      <4> QED
        BY <1>0, <3>3, <3>6, <4>1
    <3>7. \A q \in Requests : place'[q] \in {"sent", "unauthorized"} /\ owner'[q] # None =>
            /\ owner'[q] = owner[q]
            /\ access'[owner[q]] = access[owner[q]] /\ call'[owner[q]] = call[owner[q]]
      BY <1>0, <2>2, <3>2, <3>6
    <3>8. \A q \in Requests : place'[q] \in {"sent", "unauthorized"} /\ purpose'[q] = "login" /\ owner'[q] # None =>
            call'[owner[q]] # "logoutAgain"
      BY <3>5, <3>7 DEF Waiting
    <3> QED
      BY <1>0, <1>1, <2>2, <2>3, <3>5, <3>7, <3>8, PagesKeepPeace
  <2>6. CASE Finish(r) /\ IF waits[t] = r THEN EndCall(t) ELSE UNCHANGED calls
    <3>1. \A q \in Requests : \/ place'[q] = place[q] /\ purpose'[q] = purpose[q] /\ owner'[q] = owner[q]
                              \/ place'[q] = "closed"
      BY <1>0, <2>6 DEF Finish
    <3>2. ASSUME NEW q \in Requests, place'[q] \in {"sent", "unauthorized"}, owner'[q] # None
          PROVE  /\ owner'[q] = owner[q] /\ call'[owner[q]] = call[owner[q]]
                 /\ purpose[q] = "login" => call[owner[q]] = "login"
                 /\ purpose[q] = "logout" => access'[owner[q]] = access[owner[q]]
                 /\ purpose[q] = "refresh" => access'[owner[q]] = access[owner[q]]
      <4>1. q # r /\ owner'[q] = owner[q] /\ place'[q] = place[q] /\ owner[q] \in Tabs
        BY <1>0, <2>6, <3>1, <3>2 DEF Finish
      <4>2. CASE owner[q] # t
        BY <1>0, <2>2, <2>6, <4>1, <4>2 DEF EndCall, calls, Waiting
      <4>3. CASE owner[q] = t
        <5>1. /\ purpose[q] # "refresh" /\ waits[t] = q
              /\ purpose[q] = "login" => call[t] = "login"
              /\ purpose[q] = "logout" => call[t] \in {"logout", "logoutAgain"}
          BY <1>1, <3>2, <4>1, <4>3, OthersWait
        <5>2. call' = call
          BY <2>6, <4>1, <5>1 DEF calls
        <5> QED
          BY <1>0, <2>2, <2>4, <4>1, <4>3, <5>1, <5>2
      <4> QED
        BY <4>2, <4>3
    <3>3. \A q \in Requests : place'[q] \in {"sent", "unauthorized"} /\ owner'[q] # None =>
            /\ owner'[q] = owner[q]
            /\ purpose'[q] # "login" => access'[owner[q]] \in {access[owner[q]], None}
            /\ purpose'[q] = "login" => call'[owner[q]] # "logoutAgain"
            /\ purpose'[q] = "logout" => call'[owner[q]] = call[owner[q]]
      BY <1>0, <3>1, <3>2
    <3> QED
      BY <1>0, <1>1, <2>2, <2>3, <3>1, <3>3, PagesKeepPeace
  <2> QED
    BY <2>1, <2>5, <2>6 DEF Refreshed
<1>3. CASE ~Succeeded(r) /\ Expired(r, t)
  <2>1. Expired(r, t) /\ Finish(r)
    BY <1>3 DEF Expired
  <2>2. /\ access' = [access EXCEPT ![t] = None] /\ left' \subseteq left \union ({access[t]} \ {None})
        /\ call' \in {call, [call EXCEPT ![t] = "none"]}
        /\ waits[t] # r => call' = call
    BY <2>1 DEF Expired, HardLogout, ClearSession, EndCall, calls, history
  <2>3. Safe(t)
    BY <1>1, <1>3, FailedRefresh
  <2>4. \A s \in left' : s \in left \/ Doomed(s)
    BY <2>2, <2>3 DEF Safe
  <2>5. \A q \in Requests : \/ place'[q] = place[q] /\ purpose'[q] = purpose[q] /\ owner'[q] = owner[q]
                            \/ place'[q] = "closed"
    BY <1>0, <2>1 DEF Finish
  <2>6. ASSUME NEW q \in Requests, place'[q] \in {"sent", "unauthorized"}, owner'[q] # None
        PROVE  /\ owner'[q] = owner[q] /\ access'[owner[q]] \in {access[owner[q]], None}
               /\ purpose'[q] = "login" => call'[owner[q]] # "logoutAgain"
               /\ purpose'[q] = "logout" => call'[owner[q]] = call[owner[q]]
    <3>1. q # r /\ owner'[q] = owner[q] /\ place'[q] = place[q] /\ purpose'[q] = purpose[q] /\ owner[q] \in Tabs
      BY <1>0, <2>1, <2>5, <2>6 DEF Finish
    <3>2. CASE owner[q] # t
      BY <1>0, <2>2, <3>1, <3>2 DEF Waiting
    <3>3. CASE owner[q] = t
      <4>1. /\ purpose[q] # "refresh" /\ waits[t] = q
            /\ purpose[q] = "login" => call[t] = "login"
        BY <1>1, <2>6, <3>1, <3>3, OthersWait
      <4>2. call' = call
        BY <2>2, <3>1, <4>1
      <4> QED
        BY <1>0, <2>2, <3>1, <3>3, <4>1, <4>2
    <3> QED
      BY <3>2, <3>3
  <2>7. \A u \in Tabs : access'[u] \in {access[u], None}
    BY <1>0, <2>2
  <2> QED
    BY <1>0, <1>1, <2>4, <2>5, <2>6, <2>7, PagesKeepPeace
<1>4. ~Unreadable(r, t)
  BY DEF Unreadable, HardLogout
<1> QED
  BY <1>2, <1>3, <1>4 DEF ReceiveRefresh

(* A login is answered: nothing else of the page is under way.             *)
LEMMA ReceiveLoginKeepsPeace ==
  ASSUME ServerInv, Chain, Page, Waiting, SigningIn, Handlers, Cookie, Deaths, Answers,
         \A s \in left : Doomed(s), mishaps' = {}, NEW r \in Requests, ReceiveLogin(r)
  PROVE  Cookie' /\ Deaths' /\ Answers' /\ \A s \in left' : Doomed(s)'
<1> USE BrowserAssumption DEF PageTypes
<1> DEFINE t == owner[r]
<1>0. PageTypes
  BY DEF Page
<1>1. /\ t \in Tabs /\ purpose[r] = "login" /\ Finish(r) /\ EndCall(t) /\ UNCHANGED <<server, jar, left>>
      /\ access' = IF Succeeded(r) THEN [access EXCEPT ![t] = target[r]] ELSE access
  BY <1>0 DEF ReceiveLogin, cookies, history, store, SetSession
<1>2. Succeeded(r) => \E k \in delivered : sess[k] = target[r]
  BY <1>0, <1>1, SucceededDelivers
<1>3. \A q \in Requests : \/ place'[q] = place[q] /\ purpose'[q] = purpose[q] /\ owner'[q] = owner[q]
                          \/ place'[q] = "closed"
  BY <1>0, <1>1 DEF Finish
<1>4. \A q \in Requests \ {r} : owner[q] = t => place[q] \notin {"sent", "unauthorized"}
  <2>1. waits[t] = r /\ call[t] = "login"
    BY <1>1 DEF Waiting
  <2>2. flight[t] = None /\ "cut" \notin mishaps
    BY <1>1, <2>1 DEF SigningIn, ReceiveLogin
  <2> QED
    BY <1>0, <1>1, <2>1, <2>2 DEF Page, Waiting, AllInFlight, Refreshes
<1>5. ASSUME NEW q \in Requests, place'[q] \in {"sent", "unauthorized"}, owner'[q] # None
      PROVE  /\ owner'[q] = owner[q] /\ purpose'[q] = purpose[q] /\ access'[owner[q]] = access[owner[q]]
             /\ call'[owner[q]] = call[owner[q]]
             /\ purpose[q] = "login" => call[owner[q]] = "login"
  <2>1. q # r /\ owner'[q] = owner[q] /\ place'[q] = place[q] /\ purpose'[q] = purpose[q] /\ owner[q] \in Tabs
    BY <1>0, <1>1, <1>3, <1>5 DEF Finish
  <2> QED
    BY <1>0, <1>1, <1>4, <1>5, <2>1 DEF EndCall, Waiting
<1>6. \A u \in Tabs : access'[u] \in {access[u], None} \/ \E k \in delivered : sess[k] = access'[u]
  BY <1>0, <1>1, <1>2
<1> QED
  BY <1>0, <1>1, <1>3, <1>5, <1>6, PagesKeepPeace

(* A logout is answered: it waits for a refresh, or the page is out.       *)
LEMMA ReceiveLogoutKeepsPeace ==
  ASSUME ServerInv, Chain, Page, Waiting, Handlers, Cookie, Deaths, Answers,
         \A s \in left : Doomed(s), mishaps' = {}, NEW r \in Requests, ReceiveLogout(r)
  PROVE  Cookie' /\ Deaths' /\ Answers' /\ \A s \in left' : Doomed(s)'
<1> USE BrowserAssumption DEF PageTypes
<1> DEFINE t == owner[r]
<1>0. PageTypes
  BY DEF Page
<1>1. /\ t \in Tabs /\ purpose[r] = "logout" /\ Answered(r) /\ UNCHANGED server
      /\ IF Succeeded(r) THEN jar' \in {jar, None} ELSE UNCHANGED jar
  BY <1>0 DEF ReceiveLogout
<1>2. /\ place[r] # "unauthorized" \/ call[t] = "logoutAgain" => Safe(t)
      /\ Succeeded(r) => target[r] \in revoked
  BY <1>1, LogoutAnswered
<1>3. waits[t] = r
  BY <1>1 DEF Waiting
<1>4. ASSUME NEW p \in Requests \ {r}, place[r] = "unauthorized",
             flight[t] \in {p, None}, flight[t] = None => IsNext(p),
             place' = [place EXCEPT ![r] = "closed", ![p] = IF flight[t] = p THEN place[p] ELSE "csrf"],
             owner' = [owner EXCEPT ![r] = None, ![p] = t],
             UNCHANGED <<access, call, purpose, left>>
      PROVE  Cookie' /\ Deaths' /\ Answers' /\ \A s \in left' : Doomed(s)'
  <2>1. jar' = jar
    BY <1>1, <1>4 DEF Succeeded
  <2>2. flight[t] = p => owner[p] = t
    BY <1>0, <1>1 DEF Page, FlightKept
  <2>3. \A q \in Requests : \/ place'[q] = place[q] /\ purpose'[q] = purpose[q]
                            \/ place'[q] \in {"csrf", "closed"}
    BY <1>0, <1>4
  <2>4. ASSUME NEW q \in Requests, place'[q] \in {"sent", "unauthorized"}, owner'[q] # None
        PROVE  owner'[q] = owner[q] /\ (purpose'[q] = "login" => call'[owner[q]] # "logoutAgain")
    <3>1. q # r /\ owner'[q] = owner[q] /\ purpose'[q] = purpose[q]
      BY <1>0, <1>4, <2>2, <2>4
    <3> QED
      BY <1>0, <1>4, <2>4, <3>1 DEF Waiting
  <2> QED
    BY <1>0, <1>1, <1>4, <2>1, <2>3, <2>4, PagesKeepPeace
<1>5. ASSUME place[r] # "unauthorized" \/ call[t] # "logout", Finish(r),
             HardLogout(t, {m \in {"mixed"} : Outdated(r)})
      PROVE  Cookie' /\ Deaths' /\ Answers' /\ \A s \in left' : Doomed(s)'
  <2>1. /\ access' = [access EXCEPT ![t] = None] /\ call' = [call EXCEPT ![t] = "none"]
        /\ left' = left \union ({access[t]} \ {None})
        /\ ~Outdated(r)
    BY <1>5 DEF HardLogout, ClearSession, EndCall
  <2>2. \A s \in left' : s \in left \/ Doomed(s)
    BY <1>1, <1>2, <1>5, <2>1 DEF Safe, Waiting
  <2>3. jar' = jar \/ (jar' = None /\ (jar # None => sess[jar] \in revoked))
    BY <1>1, <1>2, <2>1 DEF Outdated
  <2>4. \A q \in Requests : \/ place'[q] = place[q] /\ purpose'[q] = purpose[q] /\ owner'[q] = owner[q]
                            \/ place'[q] = "closed"
    BY <1>0, <1>5 DEF Finish
  <2>5. ASSUME NEW q \in Requests, place'[q] \in {"sent", "unauthorized"}, owner'[q] # None
        PROVE  /\ owner'[q] = owner[q] /\ access'[owner[q]] \in {access[owner[q]], None}
               /\ purpose'[q] = "login" => call'[owner[q]] # "logoutAgain"
               /\ purpose'[q] = "logout" => call'[owner[q]] = call[owner[q]]
    <3>1. q # r /\ owner'[q] = owner[q] /\ purpose'[q] = purpose[q] /\ owner[q] \in Tabs
      BY <1>0, <1>5, <2>4, <2>5 DEF Finish
    <3> QED
      BY <1>0, <1>1, <1>3, <2>1, <2>5, <3>1 DEF Waiting
  <2>6. \A u \in Tabs : access'[u] \in {access[u], None}
    BY <1>0, <2>1
  <2> QED
    BY <1>0, <1>1, <2>2, <2>3, <2>4, <2>5, <2>6, PagesKeepPeace
<1>6. ~HardLogout(t, {"garbled"})
  BY DEF HardLogout
<1> QED
  BY <1>4, <1>5, <1>6 DEF ReceiveLogout, store, history

(* Pages come and go, and ask.                                             *)
LEMMA AskingKeepsPeace ==
  ASSUME ServerInv, Page, Waiting, Handlers, Cookie, Deaths, Answers, \A s \in left : Doomed(s),
         NEW t \in Tabs,
         \/ Close(t) \/ FetchCsrf(t)
         \/ \E r \in Requests : Open(t, r) \/ TimerFires(t, r) \/ Unauthorized(t, r) \/ Ask(t, r)
  PROVE  Cookie' /\ Deaths' /\ Answers' /\ \A s \in left' : Doomed(s)'
<1> USE BrowserAssumption DEF PageTypes
<1>0. PageTypes
  BY DEF Page
<1>1. ASSUME Close(t)
      PROVE  Cookie' /\ Deaths' /\ Answers' /\ \A s \in left' : Doomed(s)'
  <2>1. /\ access' = [access EXCEPT ![t] = None] /\ call' = [call EXCEPT ![t] = "none"]
        /\ UNCHANGED <<server, jar, purpose, left>>
    BY <1>1 DEF Close, EndCall, cookies
  <2>2. \A q \in Requests : /\ owner'[q] = IF owner[q] = t THEN None ELSE owner[q]
                            /\ place'[q] \in {place[q], "closed"}
    BY <1>1 DEF Close
  <2>3. ASSUME NEW q \in Requests, place'[q] \in {"sent", "unauthorized"}, owner'[q] # None
        PROVE  /\ owner'[q] = owner[q] /\ access'[owner[q]] = access[owner[q]]
               /\ call'[owner[q]] = call[owner[q]]
               /\ purpose[q] = "login" => call[owner[q]] = "login"
    BY <1>0, <2>1, <2>2, <2>3 DEF Waiting
  <2>4. \A u \in Tabs : access'[u] \in {access[u], None}
    BY <1>0, <2>1
  <2> QED
    BY <1>0, <2>1, <2>2, <2>3, <2>4, PagesKeepPeace
<1>2. ASSUME FetchCsrf(t)
      PROVE  Cookie' /\ Deaths' /\ Answers' /\ \A s \in left' : Doomed(s)'
  <2>1. UNCHANGED <<server, jar, access, call, place, owner, purpose, left>>
    BY <1>2 DEF FetchCsrf, store, calls, requests, history
  <2> QED
    BY <1>0, <2>1, PagesKeepPeace DEF Waiting
<1>3. ASSUME NEW r \in Requests, Open(t, r) \/ TimerFires(t, r) \/ Unauthorized(t, r) \/ Ask(t, r)
      PROVE  Cookie' /\ Deaths' /\ Answers' /\ \A s \in left' : Doomed(s)'
  <2>1. /\ UNCHANGED <<server, jar, access, left>>
        /\ UNCHANGED requests \/ \E what \in {"refresh", "login", "logout"} : Begin(t, r, what)
        /\ call' = call \/ (call[t] = "none" /\ \E c \in Calls : call' = [call EXCEPT ![t] = c])
    BY <1>3 DEF Open, TimerFires, Unauthorized, Ask, RefreshSession, cookies, store, calls, history, Calls
  <2>2. \A q \in Requests : \/ place'[q] = place[q] /\ purpose'[q] = purpose[q] /\ owner'[q] = owner[q]
                            \/ place'[q] = "csrf"
    BY <1>0, <2>1 DEF requests, Begin
  <2>3. ASSUME NEW q \in Requests, place'[q] \in {"sent", "unauthorized"}, owner'[q] # None
        PROVE  /\ owner'[q] = owner[q]
               /\ purpose[q] # "refresh" => call'[owner[q]] = call[owner[q]]
               /\ purpose[q] = "login" => call[owner[q]] = "login"
    <3>1. /\ purpose[q] = "login" /\ owner[q] # None => call[owner[q]] = "login"
          /\ purpose[q] = "logout" /\ owner[q] # None => call[owner[q]] \in {"logout", "logoutAgain"}
      BY DEF Waiting
    <3> QED
      BY <1>0, <2>1, <2>2, <2>3, <3>1
  <2> QED
    BY <1>0, <2>1, <2>2, <2>3, PagesKeepPeace
<1> QED
  BY <1>1, <1>2, <1>3

(* Every step keeps it, until an accident.                                 *)
LEMMA StepKeepsPeace ==
  ASSUME ServerInv, Chain, Page, Waiting, SigningIn, expired = {}, CalmInv, CalmInv', PeaceInv, [Next]_vars
  PROVE  PeaceInv'
<1> SUFFICES ASSUME mishaps' = {} PROVE Cookie' /\ Deaths' /\ Answers' /\ \A s \in left' : Doomed(s)'
  BY DEF PeaceInv
<1>1. mishaps = {}
  BY MishapsStay
<1>2. /\ Handlers /\ Once /\ Handlers' /\ PageTypes
      /\ Cookie /\ Deaths /\ Answers /\ \A s \in left : Doomed(s)
  BY <1>1 DEF CalmInv, Calm, PeaceInv, Page
<1>3. CASE UNCHANGED vars
  BY <1>2, <1>3 DEF vars, server, cookies, page, store, calls, requests, history, Cookie, Deaths, Answers,
     Doomed, Safe, Rotated, Presents
<1>4. ASSUME NEW r \in Requests, Fail(r) \/ ReceiveNone(r)
      PROVE  FALSE
  BY <1>2, <1>4 DEF Fail, ReceiveNone, Handlers
<1> QED
  BY <1>1, <1>2, <1>3, <1>4, ServeKeepsPeace, DeliverKeepsPeace, ResetKeepsPeace, SendKeepsPeace,
     ReceiveRefreshKeepsPeace, ReceiveLoginKeepsPeace, ReceiveLogoutKeepsPeace, AskingKeepsPeace
     DEF Next, Receive

-----------------------------------------------------------------------------
(* The invariant, and what follows from it.                                *)

(* The first page, without a cookie, satisfies the invariant.              *)
LEMMA InitIInv == Init => IInv
<1> SUFFICES ASSUME Init PROVE IInv
  OBVIOUS
<1> USE BrowserAssumption DEF Init
<1>1. ServerInv
  BY DEF ServerInv, Srv!Init, Srv!TypeOK, Srv!Places, Srv!Modes
<1>2. PageTypes
  BY DEF PageTypes, Statuses, Calls, Mishaps
<1>3. Fresh /\ FlightKept /\ AllInFlight
  BY DEF Fresh, FlightKept, AllInFlight, Refreshes
<1> QED
  BY <1>1, <1>2, <1>3 DEF IInv, Page

(* Every step keeps what is known of pages and requests.                   *)
LEMMA StepKeepsPage ==
  ASSUME IInv, [Next]_vars
  PROVE  Page'
<1> USE DEF IInv
<1> USE DEF page, store, transport, calls, cookies, history, requests
<1>1. CASE UNCHANGED vars
  <2>1. UNCHANGED <<page, requests, csrfOf, left, jar, mishaps>>
    BY <1>1 DEF vars
  <2>2. jar' \in Tokens \union {None}
    BY <2>1 DEF Page, PageTypes
  <2> QED
    BY <2>1, <2>2, PageRests
<1>2. ASSUME NEW t \in Tabs, Close(t)
      PROVE  Page'
  BY <1>2, CloseKeeps
<1>3. ASSUME NEW t \in Tabs, FetchCsrf(t)
      PROVE  Page'
  <2>1. PageTypes'
    BY <1>3 DEF FetchCsrf, Page, PageTypes
  <2>2. Fresh' /\ FlightKept' /\ AllInFlight'
    BY <1>3 DEF FetchCsrf, Page, Fresh, FlightKept, AllInFlight, Refreshes
  <2> QED
    BY <2>1, <2>2 DEF Page
<1>4. ASSUME NEW t \in Tabs, NEW r \in Requests, Open(t, r) \/ TimerFires(t, r) \/ Unauthorized(t, r)
      PROVE  Page'
  <2>1. /\ RefreshSession(t, r) /\ UNCHANGED <<jar, csrfOf, csrf, history>>
        /\ access' = access
    BY <1>4 DEF Open, TimerFires, Unauthorized
  <2>2. /\ status' \in [Tabs -> Statuses] /\ armed' \subseteq Tabs
        /\ call' \in [Tabs -> Calls] /\ waits' \in [Tabs -> Requests \union {None}]
    BY <1>4 DEF Open, TimerFires, Unauthorized, Page, PageTypes, Statuses, Calls
  <2>3. access' \in [Tabs -> Sessions \union {None}]
    BY <2>1 DEF Page, PageTypes
  <2> QED
    BY <2>1, <2>2, <2>3, AskingKeeps
<1>5. ASSUME NEW t \in Tabs, NEW r \in Requests, Ask(t, r)
      PROVE  Page'
  BY <1>5, AskKeeps
<1>6. ASSUME NEW r \in Requests, Send(r)
      PROVE  Page'
  BY <1>6, SendKeeps
<1>7. ASSUME NEW r \in Requests, Serve(r) \/ Fail(r)
      PROVE  Page'
  <2>1. /\ UNCHANGED <<page, requests, csrfOf, left, jar>>
        /\ mishaps' \in {mishaps, mishaps \union {"raced"}}
    BY <1>7 DEF Serve, Fail
  <2>2. jar' \in Tokens \union {None}
    BY <2>1 DEF Page, PageTypes
  <2> QED
    BY <2>1, <2>2, PageRests
<1>8. ASSUME NEW r \in Requests, Deliver(r)
      PROVE  Page'
  <2>1. /\ UNCHANGED <<page, requests, csrfOf, left>>
        /\ mishaps' \in {mishaps, mishaps \union {"raced"}, mishaps \union {"mixed"}}
        /\ jar' \in {jar, made[r]}
    BY <1>8 DEF Deliver
  <2>2. jar' \in Tokens \union {None}
    BY <2>1 DEF Page, PageTypes, ServerInv, Srv!TypeOK
  <2> QED
    BY <2>1, <2>2, PageRests
<1>9. ASSUME NEW r \in Requests, ResetElsewhere(r)
       PROVE  Page'
  <2>1. /\ place[r] = "new" /\ place' = [place EXCEPT ![r] = "closed"]
        /\ UNCHANGED <<cookies, page, owner, purpose, history>>
    BY <1>9 DEF ResetElsewhere, IsNext, Arrive
  <2>2. PageTypes'
    BY <2>1 DEF Page, PageTypes
  <2>3. Fresh' /\ FlightKept' /\ AllInFlight'
    BY <2>1 DEF Page, PageTypes, Fresh, FlightKept, AllInFlight, Refreshes
  <2> QED
    BY <2>2, <2>3 DEF Page
<1>10. ASSUME NEW r \in Requests, Receive(r)
       PROVE  Page'
  BY <1>10, ReceiveRefreshKeeps, ReceiveLoginKeeps, ReceiveLogoutKeeps, ReceiveNoneKeeps DEF Receive, ServerInv
<1> QED
  BY <1>1, <1>2, <1>3, <1>4, <1>5, <1>6, <1>7, <1>8, <1>9, <1>10 DEF Next

(* The inductive invariant of the pages, their requests and the server.    *)
THEOREM Invariance == Spec => []IInv
<1>1. IInv /\ [Next]_vars => IInv'
  <2> SUFFICES ASSUME IInv, [Next]_vars PROVE IInv'
    OBVIOUS
  <2>1. Srv!Next \/ UNCHANGED server
    BY StepServes DEF IInv, Page, PageTypes
  <2>2. ServerInv'
    BY <2>1, ServerKeeps DEF IInv
  <2> QED
    BY <2>2, StepKeepsPage DEF IInv
<1> QED
  BY <1>1, InitIInv, PTL DEF Spec

(* Pages, cookies and requests stay within their types.                    *)
THEOREM Typing == Spec => []TypeOK
<1>1. IInv => TypeOK
  BY DEF IInv, ServerInv, Page, PageTypes, TypeOK
<1> QED
  BY <1>1, Invariance, PTL

(* A page that did not sign out during a refresh has one at a time, for    *)
(* any number of pages and calls that are answered 401.                    *)
THEOREM OneFlight == Spec => []OneFlightPerTab
<1>1. IInv => OneFlightPerTab
  BY DEF IInv, Page, AllInFlight, OneFlightPerTab
<1> QED
  BY <1>1, Invariance, PTL

(* What is known of cookies, tokens and sessions, as long as no accident   *)
(* happened; no step of the browser's model lets a session run out.        *)
Harmony == Chain /\ Waiting /\ SigningIn /\ expired = {} /\ CalmInv /\ PeaceInv

LEMMA InitHarmony == Init => Harmony
<1> SUFFICES ASSUME Init PROVE Harmony
  OBVIOUS
<1> USE BrowserAssumption DEF Init, Srv!Init
<1>1. Chain
  BY DEF Chain, Holding, Makers
<1>2. Waiting /\ SigningIn
  BY DEF Waiting, SigningIn
<1>3. CalmInv
  BY DEF CalmInv, Handlers, Once, Presents, Before
<1>4. PeaceInv
  BY DEF PeaceInv, Cookie, Deaths, Answers, Presents
<1> QED
  BY <1>1, <1>2, <1>3, <1>4 DEF Harmony

(* No step of a browser makes anything expire.                             *)
LEMMA NothingExpires ==
  ASSUME [Next]_vars
  PROVE  UNCHANGED expired
<1> USE DEF server
<1>1. CASE UNCHANGED vars
  BY <1>1 DEF vars
<1>2. ASSUME NEW t \in Tabs, Close(t) \/ FetchCsrf(t)
      PROVE  UNCHANGED expired
  BY <1>2 DEF Close, FetchCsrf
<1>3. ASSUME NEW t \in Tabs, NEW r \in Requests,
             Open(t, r) \/ TimerFires(t, r) \/ Unauthorized(t, r) \/ Ask(t, r)
      PROVE  UNCHANGED expired
  BY <1>3 DEF Open, TimerFires, Unauthorized, Ask
<1>4. ASSUME NEW r \in Requests, Send(r)
      PROVE  UNCHANGED expired
  BY <1>4 DEF Send, Forbid, SendRefresh, SendLogin, SendLogout, Srv!RefreshRead, Srv!Login, Srv!LogoutRead, Srv!world
<1>5. ASSUME NEW r \in Requests, Serve(r)
      PROVE  UNCHANGED expired
  BY <1>5 DEF Serve, Srv!FindSuccessor, Srv!IssueSession, Srv!RetireToken, Srv!KillTokens, Srv!KillSession,
     Srv!MarkReused, Srv!FirstToken, Srv!CreateSuccessor, Srv!world
<1>6. ASSUME NEW r \in Requests, Deliver(r) \/ Fail(r) \/ ResetElsewhere(r)
      PROVE  UNCHANGED expired
  BY <1>6 DEF Deliver, Fail, ResetElsewhere, Srv!Reply, Srv!Fail, Srv!ResetSessions, Srv!world
<1>7. ASSUME NEW r \in Requests, Receive(r)
      PROVE  UNCHANGED expired
  BY <1>7 DEF Receive, ReceiveRefresh, ReceiveLogin, ReceiveLogout, ReceiveNone
<1> QED
  BY <1>1, <1>2, <1>3, <1>4, <1>5, <1>6, <1>7 DEF Next

(* The inductive invariant of the server's alarms and revocations.         *)
THEOREM Harmonious == Spec => []Harmony
<1>1. IInv /\ IInv' /\ Harmony /\ [Next]_vars => Harmony'
  <2> SUFFICES ASSUME IInv, IInv', Harmony, [Next]_vars PROVE Harmony'
    OBVIOUS
  <2> USE DEF IInv, Harmony
  <2>1. Chain'
    BY StepServes, ChainKeeps DEF Page, PageTypes
  <2>2. Waiting' /\ SigningIn'
    BY WaitingKeeps
  <2>3. expired' = {}
    BY NothingExpires
  <2>4. CalmInv'
    BY StepKeepsCalm
  <2>5. PeaceInv'
    BY <2>4, StepKeepsPeace
  <2> QED
    BY <2>1, <2>2, <2>3, <2>4, <2>5
<1> QED
  BY <1>1, InitHarmony, Invariance, PTL DEF Spec

(* The server never takes a browser for a thief, for any number of pages   *)
(* and requests, as long as no two pages present one token, no page is     *)
(* left or signed out while it refreshes, and no answer is lost: a page    *)
(* keeps to the last cookie, and the last cookie was never presented.      *)
THEOREM NoReplay == Spec => []NoSelfReplay
<1>1. Harmony => NoSelfReplay
  BY DEF Harmony, CalmInv, Calm, Handlers, NoSelfReplay
<1> QED
  BY <1>1, Harmonious, PTL

(* Without an accident a page that signs out ends its session, whatever    *)
(* the other pages do and whether it had to refresh first.                 *)
THEOREM LogoutHolds == Spec => []LogoutRevokes
<1>1. Harmony => LogoutRevokes
  BY DEF Harmony, PeaceInv, Doomed, LogoutRevokes
<1> QED
  BY <1>1, Harmonious, PTL
=============================================================================
