------------------------------ MODULE Accounts ------------------------------
(***************************************************************************)
(* Accounts and the links mailed to their owners (auth.service.ts over     *)
(* auth.repository.ts): registration, verification of the address, a new   *)
(* verification link, a forgotten password and its reset.  A step is one   *)
(* statement or transaction of a request; requests interleave between any  *)
(* two.  The mail of a link enters the outbox in the transaction of the    *)
(* link (module Outbox says what becomes of it), and sessions are those of *)
(* module AuthSessions: issuing one is here only a step that may fail, and *)
(* a reset revokes them in its own transaction (ResetSessions there).      *)
(***************************************************************************)
EXTENDS Naturals, FiniteSets

CONSTANTS
  Users,        \* rows of users
  Emails,       \* addresses, in lower case
  Names,        \* the part of an address before the @, and organization names
  NameOf,       \* NameOf[e]: that part of address e
  VerifyLinks,  \* rows of email_verification_tokens
  ResetLinks,   \* rows of password_reset_tokens
  Requests,     \* HTTP requests, each used once
  MayFail,      \* whether requests may die between two statements
  None          \* no user, address, request or link

Links == VerifyLinks \union ResetLinks

ASSUME AccountsAssumption ==
  /\ NameOf \in [Emails -> Names]
  /\ MayFail \in BOOLEAN
  /\ VerifyLinks \intersect ResetLinks = {}
  /\ None \notin Users \union Emails \union Links \union Requests

VARIABLES
  email,      \* email[u]: the address of user u, None if u does not exist
  creator,    \* creator[u]: the request that inserted u
  password,   \* password[u]: the request whose password u has
  verified,   \* users with isEmailVerified
  slugs,      \* names n with an organization of slug n-personal
  owner,      \* owner[l]: userId of link l, None if l does not exist
  used,       \* links with usedAt set
  expired,    \* links whose expiresAt has passed
  delivered,  \* links whose mail has arrived
  pc,         \* pc[r]: what request r does next, or how it ended
  address,    \* address[r]: the address r was sent
  who,        \* who[r]: the user r works on
  link,       \* link[r]: the link r created or presented
  doomed,     \* doomed[r]: links r has marked used and not yet committed
  before      \* before[r]: the user's verification links when r began

accounts == <<email, creator, password, verified, slugs>>
links == <<owner, used>>
world == <<expired, delivered>>
request == <<address, who, link, doomed, before>>
vars == <<email, creator, password, verified, slugs, owner, used,
          expired, delivered, pc, address, who, link, doomed, before>>

Working == {"create", "session", "mail", "supersede", "renew", "forgot"}
Outcomes == {"registered", "conflict", "error", "sent", "ignored", "claimed", "refused", "lost"}
Places == {"idle"} \union Working \union Outcomes

TypeOK ==
  /\ email \in [Users -> Emails \union {None}]
  /\ creator \in [Users -> Requests \union {None}]
  /\ password \in [Users -> Requests \union {None}]
  /\ verified \subseteq Users
  /\ slugs \subseteq Names
  /\ owner \in [Links -> Users \union {None}]
  /\ used \subseteq Links
  /\ expired \subseteq Links
  /\ delivered \subseteq Links
  /\ pc \in [Requests -> Places]
  /\ address \in [Requests -> Emails \union {None}]
  /\ who \in [Requests -> Users \union {None}]
  /\ link \in [Requests -> Links \union {None}]
  /\ doomed \in [Requests -> SUBSET VerifyLinks]
  /\ before \in [Requests -> SUBSET VerifyLinks]

Init ==
  /\ email = [u \in Users |-> None]
  /\ creator = [u \in Users |-> None]
  /\ password = [u \in Users |-> None]
  /\ verified = {} /\ slugs = {} /\ used = {} /\ expired = {} /\ delivered = {}
  /\ owner = [l \in Links |-> None]
  /\ pc = [r \in Requests |-> "idle"]
  /\ address = [r \in Requests |-> None]
  /\ who = [r \in Requests |-> None]
  /\ link = [r \in Requests |-> None]
  /\ doomed = [r \in Requests |-> {}]
  /\ before = [r \in Requests |-> {}]

Goto(r, place) == pc' = [pc EXCEPT ![r] = place]

(* findByEmail                                                             *)
Account(e) == {u \in Users : email[u] = e}

LinksOf(u) == {l \in VerifyLinks : owner[l] = u}

-----------------------------------------------------------------------------
(* The world around: time, mail, and organizations that are given a name.  *)

Expires(l) ==
  /\ owner[l] # None /\ l \notin expired
  /\ expired' = expired \union {l}
  /\ UNCHANGED <<accounts, links, delivered, pc, request>>

Arrives(l) ==
  /\ owner[l] # None /\ l \notin delivered
  /\ delivered' = delivered \union {l}
  /\ UNCHANGED <<accounts, links, expired, pc, request>>

(* createOrganization: an organization called "<n> personal" takes the     *)
(* slug n-personal unless somebody has it; slugs are never given back.     *)
NameOrganization(n) ==
  /\ n \notin slugs
  /\ slugs' = slugs \union {n}
  /\ UNCHANGED <<email, creator, password, verified, links, world, pc, request>>

-----------------------------------------------------------------------------
(* Registration: the account with its personal organization, a session, a  *)
(* verification link.                                                      *)

Register(r, e) ==
  /\ pc[r] = "idle"
  /\ address' = [address EXCEPT ![r] = e]
  /\ Goto(r, IF Account(e) # {} THEN "conflict" ELSE "create")
  /\ UNCHANGED <<accounts, links, world, who, link, doomed, before>>

(* The unique indexes on users.email and organizations.slug.               *)
IndexesRefuse(e) == Account(e) # {} \/ NameOf[e] \in slugs

(* Mutant: an upsert, which gives an existing account the new password.    *)
UpsertAccount(r, u) ==
  /\ pc[r] = "create"
  /\ IF Account(address[r]) # {}
       THEN /\ u \in Account(address[r])
            /\ UNCHANGED <<email, creator, slugs>>
       ELSE /\ email[u] = None
            /\ email' = [email EXCEPT ![u] = address[r]]
            /\ creator' = [creator EXCEPT ![u] = r]
            /\ slugs' = slugs \union {NameOf[address[r]]}
  /\ password' = [password EXCEPT ![u] = r]
  /\ who' = [who EXCEPT ![r] = u]
  /\ Goto(r, "session")
  /\ UNCHANGED <<verified, links, world, address, link, doomed, before>>

(* createUserWithPersonalOrg: one transaction; a refused insert undoes it  *)
(* and nobody turns the error into an answer.                              *)
CreateAccount(r, u) ==
  /\ pc[r] = "create"
  /\ email[u] = None
  /\ IF IndexesRefuse(address[r])
       THEN /\ Goto(r, "error")
            /\ UNCHANGED <<accounts, who>>
       ELSE /\ email' = [email EXCEPT ![u] = address[r]]
            /\ creator' = [creator EXCEPT ![u] = r]
            /\ password' = [password EXCEPT ![u] = r]
            /\ slugs' = slugs \union {NameOf[address[r]]}
            /\ who' = [who EXCEPT ![r] = u]
            /\ Goto(r, "session")
            /\ UNCHANGED verified
  /\ UNCHANGED <<links, world, address, link, doomed, before>>

IssueSession(r) ==
  /\ pc[r] = "session"
  /\ Goto(r, "mail")
  /\ UNCHANGED <<accounts, links, world, request>>

InsertLink(r, l) ==
  /\ owner[l] = None
  /\ owner' = [owner EXCEPT ![l] = who[r]]
  /\ link' = [link EXCEPT ![r] = l]

(* createEmailVerificationToken without invalidateExisting                 *)
SendVerification(r, l) ==
  /\ pc[r] = "mail" /\ l \in VerifyLinks
  /\ InsertLink(r, l)
  /\ Goto(r, "registered")
  /\ UNCHANGED <<accounts, used, world, address, who, doomed, before>>

-----------------------------------------------------------------------------
(* A new verification link: the unused ones are marked used and the new    *)
(* one inserted in one transaction.  The first statement sees what was     *)
(* committed when it began; rows another transaction holds make it wait,   *)
(* which ends in one of the orders of commits the model has.               *)

ResendVerification(r, e) ==
  /\ pc[r] = "idle"
  /\ address' = [address EXCEPT ![r] = e]
  /\ \/ /\ Account(e) \ verified = {}
        /\ Goto(r, "ignored")
        /\ UNCHANGED <<who, before>>
     \/ \E u \in Account(e) \ verified :
          /\ who' = [who EXCEPT ![r] = u]
          /\ before' = [before EXCEPT ![r] = LinksOf(u)]
          /\ Goto(r, "supersede")
  /\ UNCHANGED <<accounts, links, world, link, doomed>>

(* Mutant: the old links are marked in a transaction of its own.           *)
SupersedeAtOnce(r) ==
  /\ pc[r] = "supersede"
  /\ used' = used \union LinksOf(who[r])
  /\ Goto(r, "renew")
  /\ UNCHANGED <<accounts, owner, world, request>>

(* Mutant: the old links stay valid.                                       *)
SupersedeNothing(r) ==
  /\ pc[r] = "supersede"
  /\ Goto(r, "renew")
  /\ UNCHANGED <<accounts, links, world, request>>

Supersede(r) ==
  /\ pc[r] = "supersede"
  /\ doomed' = [doomed EXCEPT ![r] = LinksOf(who[r]) \ used]
  /\ Goto(r, "renew")
  /\ UNCHANGED <<accounts, links, world, address, who, link, before>>

Renew(r, l) ==
  /\ pc[r] = "renew" /\ l \in VerifyLinks
  /\ InsertLink(r, l)
  /\ used' = used \union doomed[r]
  /\ Goto(r, "sent")
  /\ UNCHANGED <<accounts, world, address, who, doomed, before>>

-----------------------------------------------------------------------------
(* A forgotten password: a link that leaves earlier ones valid.            *)

ForgotPassword(r, e) ==
  /\ pc[r] = "idle"
  /\ address' = [address EXCEPT ![r] = e]
  /\ \/ /\ Account(e) = {}
        /\ Goto(r, "ignored")
        /\ UNCHANGED who
     \/ \E u \in Account(e) :
          /\ who' = [who EXCEPT ![r] = u]
          /\ Goto(r, "forgot")
  /\ UNCHANGED <<accounts, links, world, link, doomed, before>>

SendReset(r, l) ==
  /\ pc[r] = "forgot" /\ l \in ResetLinks
  /\ InsertLink(r, l)
  /\ Goto(r, "sent")
  /\ UNCHANGED <<accounts, used, world, address, who, doomed, before>>

-----------------------------------------------------------------------------
(* Claims.  The row a link names is read first; its owner never changes,   *)
(* so the model reads and claims in one step.                              *)

(* Mutant: usedAt is not part of the condition.                            *)
UnexpiredLink(l) == l \notin expired

Claimable(l) == l \notin used \union expired

ResetPassword(r, l) ==
  /\ pc[r] = "idle"
  /\ l \in delivered \intersect ResetLinks
  /\ link' = [link EXCEPT ![r] = l]
  /\ IF Claimable(l)
       THEN /\ used' = used \union {l}
            /\ password' = [password EXCEPT ![owner[l]] = r]
            /\ Goto(r, "claimed")
       ELSE Goto(r, "refused") /\ UNCHANGED <<used, password>>
  /\ UNCHANGED <<email, creator, verified, slugs, owner, world, address, who, doomed, before>>

VerifyEmail(r, l) ==
  /\ pc[r] = "idle"
  /\ l \in delivered \intersect VerifyLinks
  /\ link' = [link EXCEPT ![r] = l]
  /\ IF Claimable(l)
       THEN /\ used' = used \union {l}
            /\ verified' = verified \union {owner[l]}
            /\ Goto(r, "claimed")
       ELSE Goto(r, "refused") /\ UNCHANGED <<used, verified>>
  /\ UNCHANGED <<email, creator, password, slugs, owner, world, address, who, doomed, before>>

(* The process dies or a statement fails: an open transaction is undone.   *)
Fail(r) ==
  /\ MayFail
  /\ pc[r] \in Working
  /\ doomed' = [doomed EXCEPT ![r] = {}]
  /\ Goto(r, "lost")
  /\ UNCHANGED <<accounts, links, world, address, who, link, before>>

Next ==
  \/ \E n \in Names : NameOrganization(n)
  \/ \E l \in Links : Expires(l) \/ Arrives(l)
  \/ \E r \in Requests, e \in Emails :
       Register(r, e) \/ ResendVerification(r, e) \/ ForgotPassword(r, e)
  \/ \E r \in Requests, u \in Users : CreateAccount(r, u)
  \/ \E r \in Requests, l \in Links :
       \/ SendVerification(r, l) \/ Renew(r, l) \/ SendReset(r, l)
       \/ VerifyEmail(r, l) \/ ResetPassword(r, l)
  \/ \E r \in Requests : IssueSession(r) \/ Supersede(r) \/ Fail(r)

Spec == Init /\ [][Next]_vars

-----------------------------------------------------------------------------
(* Properties.                                                             *)

(* Registrations that both found an address free leave one account for it. *)
OneAccountPerAddress ==
  \A u, v \in Users : email[u] = email[v] /\ email[u] # None => u = v

(* Of all the requests that present a link, one at most is told it worked. *)
ClaimedOnce ==
  \A q, r \in Requests :
    pc[q] = "claimed" /\ pc[r] = "claimed" /\ link[q] = link[r] => q = r

(* An address counts as verified exactly if a verification link of its     *)
(* account was claimed, so never by a superseded or an expired one.        *)
VerifiedByLink ==
  \A u \in Users :
    u \in verified <=> \E r \in Requests : /\ pc[r] = "claimed"
                                           /\ link[r] \in LinksOf(u)

(* The password of an account is the one it was registered with or one     *)
(* that came with a reset link of that account: who loses a registration   *)
(* race changes nothing.                                                   *)
PasswordOrigin ==
  \A u \in Users : email[u] # None /\ password[u] # creator[u] =>
    LET r == password[u]
    IN  pc[r] = "claimed" /\ link[r] \in ResetLinks /\ owner[link[r]] = u

(* When a request for a new link is done, no verification link that        *)
(* existed before it began works any more, also if others ran meanwhile.   *)
SupersededStayDead ==
  \A r \in Requests : pc[r] = "sent" => before[r] \subseteq used

(* An account that waits for verification is never stranded by a resend    *)
(* that died: it has an unused link, unless its registration has not sent  *)
(* the first one or died before it could.                                  *)
NeverStranded ==
  \A u \in Users : email[u] # None /\ u \notin verified =>
    IF LinksOf(u) = {}
      THEN pc[creator[u]] \in {"session", "mail", "lost"}
      ELSE LinksOf(u) \ used # {}
=============================================================================
