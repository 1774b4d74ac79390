--------------------------- MODULE AccountsProofs ---------------------------
(***************************************************************************)
(* Proofs about accounts and their links, for any numbers of users,        *)
(* addresses, links and requests, with and without requests that die.      *)
(***************************************************************************)
EXTENDS Accounts, TLAPS

(* Whatever is marked, mailed or late was inserted for a user that exists. *)
Rows ==
  /\ \A l \in Links : owner[l] # None => email[owner[l]] # None
  /\ \A l \in used \union expired \union delivered : owner[l] # None

(* The request that registered a user is past the insert, and about them.  *)
Creators ==
  \A u \in Users : email[u] # None =>
    /\ creator[u] \in Requests /\ password[u] \in Requests
    /\ who[creator[u]] = u
    /\ pc[creator[u]] \in {"session", "mail", "registered", "lost"}

(* What a request knows of the user it works for and of the user's links:  *)
(* a resend holds marked every link it began with that is not used yet.    *)
Holds(r) ==
  /\ pc[r] \in {"session", "mail", "supersede", "renew", "forgot"} =>
       who[r] \in Users /\ email[who[r]] # None
  /\ pc[r] \in {"supersede", "renew"} => before[r] \subseteq LinksOf(who[r])
  /\ pc[r] = "renew" => /\ doomed[r] \subseteq LinksOf(who[r])
                        /\ before[r] \subseteq used \union doomed[r]
  /\ pc[r] \in {"idle", "forgot"} => before[r] = {}
  /\ pc[r] = "claimed" => link[r] \in used

Holders == \A r \in Requests : Holds(r)

IInv ==
  /\ TypeOK /\ Rows /\ Creators /\ Holders
  /\ OneAccountPerAddress /\ ClaimedOnce /\ VerifiedByLink /\ PasswordOrigin
  /\ SupersededStayDead /\ NeverStranded

(* The empty tables satisfy the invariant.                                 *)
LEMMA InitIInv == Init => IInv
<1> SUFFICES ASSUME Init PROVE IInv
  OBVIOUS
<1>1. TypeOK
  BY DEF Init, TypeOK, Places
<1>2. Rows /\ Creators /\ Holders
  BY DEF Init, Rows, Creators, Holders, Holds
<1>3. OneAccountPerAddress /\ ClaimedOnce /\ VerifiedByLink /\ PasswordOrigin
  BY DEF Init, OneAccountPerAddress, ClaimedOnce, VerifiedByLink, PasswordOrigin
<1>4. SupersededStayDead /\ NeverStranded
  BY DEF Init, SupersededStayDead, NeverStranded
<1> QED
  BY <1>1, <1>2, <1>3, <1>4 DEF IInv

(* A step that inserts no row, claims nothing and finishes no resend: it   *)
(* is enough that every request still holds what its place asks for, and   *)
(* that no registration loses its way.                                     *)
LEMMA QuietStep ==
  ASSUME IInv, TypeOK', UNCHANGED <<email, creator, password, verified, links, link>>,
         \A l \in expired' \union delivered' : owner[l] # None,
         \A r \in Requests :
           /\ Holds(r)'
           /\ pc'[r] = "claimed" <=> pc[r] = "claimed"
           /\ pc'[r] = "sent" => pc[r] = "sent" /\ before'[r] = before[r]
           /\ pc[r] \in {"session", "mail", "registered", "lost"} => who'[r] = who[r]
           /\ pc[r] \in {"session", "mail", "lost"} => pc'[r] \in {"session", "mail", "lost"}
           /\ pc[r] = "registered" => pc'[r] = "registered"
  PROVE  IInv'
<1> USE DEF IInv, links
<1>1. Rows'
  BY DEF Rows, TypeOK
<1>2. Creators'
  BY DEF Creators
<1>3. Holders'
  BY DEF Holders
<1>4. OneAccountPerAddress' /\ ClaimedOnce'
  BY DEF OneAccountPerAddress, ClaimedOnce
<1>5. VerifiedByLink'
  BY DEF VerifiedByLink, LinksOf
<1>6. PasswordOrigin'
  <2> SUFFICES ASSUME NEW u \in Users, email[u] # None, password[u] # creator[u]
               PROVE  pc'[password[u]] = "claimed" /\ link[password[u]] \in ResetLinks
                      /\ owner[link[password[u]]] = u
    BY DEF PasswordOrigin
  <2>1. pc[password[u]] = "claimed" /\ link[password[u]] \in ResetLinks
        /\ owner[link[password[u]]] = u
    BY DEF PasswordOrigin
  <2>2. password[u] \in Requests
    BY DEF Creators
  <2> QED
    BY <2>1, <2>2
<1>7. SupersededStayDead'
  BY DEF SupersededStayDead
<1>8. NeverStranded'
  BY DEF NeverStranded, LinksOf, Creators
<1> QED
  BY <1>1, <1>2, <1>3, <1>4, <1>5, <1>6, <1>7, <1>8

(* A step of request r that only moves it on.                              *)
LEMMA MoveStep ==
  ASSUME IInv, NEW r \in Requests, NEW place \in Places, Goto(r, place),
         UNCHANGED <<accounts, links, world, link>>,
         address' \in [Requests -> Emails \union {None}],
         who' \in [Requests -> Users \union {None}],
         doomed' \in [Requests -> SUBSET VerifyLinks],
         before' \in [Requests -> SUBSET VerifyLinks],
         \A q \in Requests \ {r} :
           who'[q] = who[q] /\ doomed'[q] = doomed[q] /\ before'[q] = before[q],
         pc[r] \in {"idle"} \union Working,
         place \notin {"claimed", "sent", "registered"},
         pc[r] \in {"session", "mail"} => who'[r] = who[r] /\ place \in {"session", "mail", "lost"},
         Holds(r)'
  PROVE  IInv'
<1> USE DEF IInv, links, world, accounts
<1>1. pc' \in [Requests -> Places] /\ \A q \in Requests : pc'[q] = IF q = r THEN place ELSE pc[q]
  BY DEF TypeOK, Goto
<1>2. TypeOK'
  BY <1>1 DEF TypeOK
<1>3. \A l \in expired' \union delivered' : owner[l] # None
  BY DEF Rows
<1>4. ASSUME NEW q \in Requests \ {r}
      PROVE  Holds(q)'
  BY <1>1, <1>4 DEF Holders, Holds, LinksOf
<1>5. \A q \in Requests :
        /\ Holds(q)'
        /\ pc'[q] = "claimed" <=> pc[q] = "claimed"
        /\ pc'[q] = "sent" => pc[q] = "sent" /\ before'[q] = before[q]
        /\ pc[q] \in {"session", "mail", "registered", "lost"} => who'[q] = who[q]
        /\ pc[q] \in {"session", "mail", "lost"} => pc'[q] \in {"session", "mail", "lost"}
        /\ pc[q] = "registered" => pc'[q] = "registered"
  BY <1>1, <1>4 DEF Working
<1> QED
  BY <1>2, <1>3, <1>5, QuietStep

(* Steps that insert no row and claim nothing.                             *)
LEMMA MovesKeepIInv ==
  ASSUME IInv, NEW r \in Requests,
         \/ IssueSession(r) \/ Supersede(r) \/ Fail(r)
         \/ \E e \in Emails : Register(r, e)
         \/ \E e \in Emails : ResendVerification(r, e)
         \/ \E e \in Emails : ForgotPassword(r, e)
  PROVE  IInv'
<1> USE DEF accounts, links, world, request
<1>0. /\ who \in [Requests -> Users \union {None}]
      /\ address \in [Requests -> Emails \union {None}]
      /\ doomed \in [Requests -> SUBSET VerifyLinks]
      /\ before \in [Requests -> SUBSET VerifyLinks]
      /\ pc \in [Requests -> Places]
      /\ Holds(r)
  BY DEF IInv, TypeOK, Holders
<1> DEFINE Typed == /\ address' \in [Requests -> Emails \union {None}]
                   /\ who' \in [Requests -> Users \union {None}]
                   /\ doomed' \in [Requests -> SUBSET VerifyLinks]
                   /\ before' \in [Requests -> SUBSET VerifyLinks]
                   /\ \A q \in Requests \ {r} :
                        who'[q] = who[q] /\ doomed'[q] = doomed[q] /\ before'[q] = before[q]
<1>1. CASE IssueSession(r)
  <2>1. Typed /\ Goto(r, "mail") /\ pc'[r] = "mail"
    BY <1>0, <1>1 DEF IssueSession, Goto
  <2>2. Holds(r)'
    BY <1>0, <1>1, <2>1 DEF IssueSession, Holds
  <2> QED
    BY <1>1, <2>1, <2>2, MoveStep DEF IssueSession, Places, Working
<1>2. CASE Supersede(r)
  <2>1. Typed /\ Goto(r, "renew") /\ pc'[r] = "renew" /\ doomed'[r] = LinksOf(who[r]) \ used
    BY <1>0, <1>2 DEF Supersede, Goto, LinksOf
  <2>2. Holds(r)'
    BY <1>0, <1>2, <2>1 DEF Supersede, Holds, LinksOf
  <2> QED
    BY <1>2, <2>1, <2>2, MoveStep DEF Supersede, Places, Working
<1>3. CASE Fail(r)
  <2>1. Typed /\ Goto(r, "lost") /\ pc'[r] = "lost"
    BY <1>0, <1>3 DEF Fail, Goto
  <2>2. Holds(r)'
    BY <1>0, <1>3, <2>1 DEF Fail, Holds
  <2> QED
    BY <1>3, <2>1, <2>2, MoveStep DEF Fail, Places, Working, Outcomes
<1>4. CASE \E e \in Emails : Register(r, e)
  <2>1. PICK e \in Emails, place \in {"conflict", "create"} :
          Register(r, e) /\ Goto(r, place)
    BY <1>4 DEF Register
  <2>2. Typed /\ pc'[r] = place
    BY <1>0, <2>1 DEF Register, Goto
  <2>3. Holds(r)'
    BY <1>0, <2>1, <2>2 DEF Register, Holds
  <2> QED
    BY <2>1, <2>2, <2>3, MoveStep DEF Register, Places, Working, Outcomes
<1>5. CASE \E e \in Emails : ResendVerification(r, e)
  <2>1. PICK e \in Emails, place \in {"ignored", "supersede"} :
          ResendVerification(r, e) /\ Goto(r, place)
    BY <1>5 DEF ResendVerification
  <2>2. Typed /\ pc'[r] = place
    BY <1>0, <2>1 DEF ResendVerification, Goto, LinksOf, Account
  <2>3. Holds(r)'
    BY <1>0, <2>1, <2>2, AccountsAssumption DEF ResendVerification, Holds, Account, LinksOf, Goto
  <2> QED
    BY <2>1, <2>2, <2>3, MoveStep DEF ResendVerification, Places, Working, Outcomes
<1>6. CASE \E e \in Emails : ForgotPassword(r, e)
  <2>1. PICK e \in Emails, place \in {"ignored", "forgot"} :
          ForgotPassword(r, e) /\ Goto(r, place)
    BY <1>6 DEF ForgotPassword
  <2>2. Typed /\ pc'[r] = place
    BY <1>0, <2>1 DEF ForgotPassword, Goto, Account
  <2>3. Holds(r)'
    BY <1>0, <2>1, <2>2, AccountsAssumption DEF ForgotPassword, Holds, Account, Goto
  <2> QED
    BY <2>1, <2>2, <2>3, MoveStep DEF ForgotPassword, Places, Working, Outcomes
<1> QED
  BY <1>1, <1>2, <1>3, <1>4, <1>5, <1>6

(* Steps of the world: time, mail, organizations.                          *)
LEMMA WorldKeepsIInv ==
  ASSUME IInv,
         \/ \E n \in Names : NameOrganization(n)
         \/ \E l \in Links : Expires(l) \/ Arrives(l)
         \/ UNCHANGED vars
  PROVE  IInv'
<1> USE DEF accounts, links, world, request
<1>1. TypeOK'
  BY DEF IInv, TypeOK, NameOrganization, Expires, Arrives, vars
<1>2. \A l \in expired' \union delivered' : owner[l] # None
  BY DEF IInv, Rows, NameOrganization, Expires, Arrives, vars
<1>3. /\ UNCHANGED <<email, creator, password, verified, links, link>>
      /\ UNCHANGED <<pc, who, doomed, before>>
  BY DEF NameOrganization, Expires, Arrives, vars
<1>4. \A r \in Requests : Holds(r)'
  BY <1>3 DEF IInv, Holders, Holds, LinksOf
<1> QED
  BY <1>1, <1>2, <1>3, <1>4, QuietStep

(* The insert of an account, unless an index refuses it.                   *)
LEMMA CreateAccountKeepsIInv ==
  ASSUME IInv, NEW r \in Requests, NEW u \in Users, CreateAccount(r, u)
  PROVE  IInv'
<1> USE DEF accounts, links, world
<1>0. /\ pc[r] = "create" /\ email[u] = None /\ address[r] \in Emails \union {None}
      /\ Holds(r) /\ TypeOK
  BY DEF IInv, TypeOK, Holders, CreateAccount
<1>1. CASE IndexesRefuse(address[r])
  <2>1. Goto(r, "error") /\ pc'[r] = "error" /\ UNCHANGED <<accounts, links, world, request>>
    BY <1>0, <1>1 DEF CreateAccount, Goto, TypeOK, request
  <2>2. Holds(r)'
    BY <1>0, <2>1 DEF Holds, request
  <2> QED
    BY <1>0, <2>1, <2>2, MoveStep DEF Places, Working, Outcomes, request, TypeOK
<1>2. CASE ~IndexesRefuse(address[r])
  <2>1. /\ email' = [email EXCEPT ![u] = address[r]]
        /\ creator' = [creator EXCEPT ![u] = r]
        /\ password' = [password EXCEPT ![u] = r]
        /\ slugs' = slugs \union {NameOf[address[r]]}
        /\ who' = [who EXCEPT ![r] = u]
        /\ pc' = [pc EXCEPT ![r] = "session"]
        /\ UNCHANGED <<verified, owner, used, expired, delivered, address, link, doomed, before>>
    BY <1>2 DEF CreateAccount, Goto
  <2>2. Account(address[r]) = {}
    BY <1>2 DEF IndexesRefuse
  <2>3. address[r] \in Emails
    BY <1>0, <2>2 DEF Account
  <2>4. \A l \in Links : owner[l] # u
    BY <1>0, AccountsAssumption DEF IInv, Rows
  <2>5. TypeOK'
    BY <1>0, <2>1, <2>3, AccountsAssumption DEF TypeOK, Places, Working
  <2>6. Rows'
    BY <1>0, <2>1, <2>3, AccountsAssumption DEF IInv, Rows, TypeOK
  <2>7. Creators'
    BY <1>0, <2>1, <2>3, AccountsAssumption DEF IInv, Creators, TypeOK
  <2>8. Holders'
    BY <1>0, <2>1, <2>3, AccountsAssumption DEF IInv, Holders, Holds, TypeOK, LinksOf
  <2>9. OneAccountPerAddress'
    BY <1>0, <2>1, <2>2 DEF IInv, OneAccountPerAddress, TypeOK, Account
  <2>10. ClaimedOnce' /\ SupersededStayDead'
    BY <1>0, <2>1 DEF IInv, ClaimedOnce, SupersededStayDead, TypeOK
  <2>11. VerifiedByLink'
    BY <1>0, <2>1 DEF IInv, VerifiedByLink, LinksOf, TypeOK
  <2>12. PasswordOrigin'
    BY <1>0, <2>1 DEF IInv, PasswordOrigin, Creators, TypeOK
  <2>13. NeverStranded'
    BY <1>0, <2>1, <2>4 DEF IInv, NeverStranded, LinksOf, Creators, TypeOK
  <2> QED
    BY <2>5, <2>6, <2>7, <2>8, <2>9, <2>10, <2>11, <2>12, <2>13 DEF IInv
<1> QED
  BY <1>1, <1>2

(* A link for the user the request works for; a renewal commits the links  *)
(* it holds marked at the same time.                                       *)
LEMMA InsertKeepsIInv ==
  ASSUME IInv, NEW r \in Requests, NEW l \in Links,
         SendVerification(r, l) \/ Renew(r, l) \/ SendReset(r, l)
  PROVE  IInv'
<1> USE DEF accounts, world
<1>0. /\ pc[r] \in {"mail", "renew", "forgot"} /\ Holds(r) /\ TypeOK
      /\ owner[l] = None /\ l \notin used \union expired \union delivered
      /\ who[r] \in Users /\ who[r] # None /\ email[who[r]] # None
  BY AccountsAssumption DEF IInv, Rows, Holders, Holds, SendVerification, Renew, SendReset, InsertLink
<1>1. /\ owner' = [owner EXCEPT ![l] = who[r]]
      /\ link' = [link EXCEPT ![r] = l]
      /\ pc' = [pc EXCEPT ![r] = IF pc[r] = "mail" THEN "registered" ELSE "sent"]
      /\ used' = IF pc[r] = "renew" THEN used \union doomed[r] ELSE used
      /\ pc[r] # "forgot" => l \in VerifyLinks
      /\ UNCHANGED <<email, creator, password, verified, slugs,
                     expired, delivered, address, who, doomed, before>>
  BY DEF SendVerification, Renew, SendReset, InsertLink, Goto
<1>2. l \notin used' /\ \A m \in used' : owner[m] # None
  BY <1>0, <1>1 DEF IInv, Rows, Holds, LinksOf
<1>3. TypeOK'
  BY <1>0, <1>1 DEF TypeOK, Places, Outcomes, Links
<1>4. Rows'
  BY <1>0, <1>1, <1>2 DEF IInv, Rows, TypeOK
<1>5. Creators'
  BY <1>0, <1>1 DEF IInv, Creators, TypeOK
<1>6. Holders'
  <2>1. ASSUME NEW q \in Requests \ {r}
        PROVE  Holds(q)'
    <3>1. Holds(q) /\ pc'[q] = pc[q]
      BY <1>0, <1>1 DEF IInv, Holders, TypeOK
    <3>2. LinksOf(who[q]) \subseteq LinksOf(who[q])' \/ who[q] = None
      BY <1>0, <1>1, <2>1 DEF LinksOf, TypeOK, Links
    <3>3. who[q] \in Users => who[q] # None
      BY AccountsAssumption
    <3> QED
      BY <1>1, <3>1, <3>2, <3>3 DEF Holds, LinksOf
  <2>2. Holds(r)'
    BY <1>0, <1>1 DEF Holds, TypeOK
  <2> QED
    BY <2>1, <2>2 DEF Holders
<1>7. OneAccountPerAddress'
  BY <1>1 DEF IInv, OneAccountPerAddress
<1>8. ClaimedOnce'
  BY <1>0, <1>1 DEF IInv, ClaimedOnce, TypeOK
<1>9. VerifiedByLink'
  <2>1. ASSUME NEW q \in Requests
        PROVE  /\ pc'[q] = "claimed" <=> pc[q] = "claimed"
               /\ pc[q] = "claimed" => link'[q] = link[q] /\ link[q] # l
    BY <1>0, <1>1 DEF IInv, Holders, Holds, TypeOK
  <2>2. \A m \in Links \ {l} : owner'[m] = owner[m]
    BY <1>0, <1>1 DEF TypeOK
  <2> QED
    BY <1>1, <2>1, <2>2 DEF IInv, VerifiedByLink, LinksOf, Links
<1>10. PasswordOrigin'
  <2> SUFFICES ASSUME NEW u \in Users, email[u] # None, password[u] # creator[u]
               PROVE  /\ pc'[password[u]] = "claimed" /\ link'[password[u]] \in ResetLinks
                      /\ owner'[link'[password[u]]] = u
    BY <1>1 DEF PasswordOrigin
  <2>1. /\ pc[password[u]] = "claimed" /\ link[password[u]] \in ResetLinks
        /\ owner[link[password[u]]] = u /\ password[u] \in Requests
    BY DEF IInv, PasswordOrigin, Creators
  <2> QED
    BY <1>0, <1>1, <2>1, AccountsAssumption DEF TypeOK, Links
<1>11. SupersededStayDead'
  BY <1>0, <1>1 DEF IInv, SupersededStayDead, Holds, TypeOK
<1>12. NeverStranded'
  <2> SUFFICES ASSUME NEW u \in Users, email[u] # None, u \notin verified
               PROVE  IF LinksOf(u)' = {}
                        THEN pc'[creator[u]] \in {"session", "mail", "lost"}
                        ELSE LinksOf(u)' \ used' # {}
    BY <1>1 DEF NeverStranded
  <2>1. CASE u = who[r] /\ l \in VerifyLinks
    <3>1. l \in LinksOf(u)' \ used'
      BY <1>0, <1>1, <1>2, <2>1 DEF LinksOf, TypeOK
    <3> QED
      BY <3>1
  <2>2. CASE ~(u = who[r] /\ l \in VerifyLinks)
    <3>1. LinksOf(u)' = LinksOf(u)
      BY <1>0, <1>1, <2>2, AccountsAssumption DEF LinksOf, TypeOK, Links
    <3>2. LinksOf(u) \ used' = LinksOf(u) \ used
      BY <1>0, <1>1, <2>2 DEF Holds, LinksOf
    <3>3. creator[u] \in Requests /\ (pc[r] = "mail" /\ creator[u] = r => u = who[r])
          /\ pc[creator[u]] \in {"session", "mail", "registered", "lost"}
      BY DEF IInv, Creators
    <3>4. pc[creator[u]] \in {"session", "mail", "lost"} =>
            pc'[creator[u]] \in {"session", "mail", "lost"}
      BY <1>0, <1>1, <2>2, <3>3 DEF TypeOK
    <3> QED
      BY <3>1, <3>2, <3>4 DEF IInv, NeverStranded
  <2> QED
    BY <2>1, <2>2
<1> QED
  BY <1>3, <1>4, <1>5, <1>6, <1>7, <1>8, <1>9, <1>10, <1>11, <1>12 DEF IInv

(* A claim of a link that arrived, granted or refused.                     *)
LEMMA ClaimKeepsIInv ==
  ASSUME IInv, NEW r \in Requests, NEW l \in Links,
         VerifyEmail(r, l) \/ ResetPassword(r, l)
  PROVE  IInv'
<1> USE DEF accounts, world
<1> DEFINE Granted == Claimable(l)
           Place == IF Granted THEN "claimed" ELSE "refused"
<1>0. /\ pc[r] = "idle" /\ Holds(r) /\ TypeOK /\ l \in delivered
      /\ owner[l] \in Users /\ owner[l] # None /\ email[owner[l]] # None
  BY AccountsAssumption DEF IInv, Rows, Holders, TypeOK, VerifyEmail, ResetPassword
<1>1. /\ link' = [link EXCEPT ![r] = l]
      /\ pc' = [pc EXCEPT ![r] = Place]
      /\ used' = IF Granted THEN used \union {l} ELSE used
      /\ UNCHANGED <<email, creator, slugs, owner, expired, delivered,
                     address, who, doomed, before>>
  BY DEF VerifyEmail, ResetPassword, Goto
<1>2. /\ verified' = IF Granted /\ l \in VerifyLinks
                       THEN verified \union {owner[l]} ELSE verified
      /\ password' = IF Granted /\ l \in ResetLinks
                       THEN [password EXCEPT ![owner[l]] = r] ELSE password
      /\ l \in VerifyLinks <=> l \notin ResetLinks
  BY AccountsAssumption DEF VerifyEmail, ResetPassword, Links
<1>3. Granted => l \notin used
  BY DEF Claimable
<1> HIDE DEF Granted
<1>4. TypeOK'
  BY <1>0, <1>1, <1>2 DEF TypeOK, Places, Outcomes
<1>5. Rows'
  BY <1>0, <1>1 DEF IInv, Rows
<1>6. \A u \in Users : email[u] # None => creator[u] \in Requests /\ creator[u] # r
  BY <1>0 DEF IInv, Creators
<1>7. Creators'
  BY <1>0, <1>1, <1>2, <1>6 DEF IInv, Creators, TypeOK
<1>8. Holders'
  BY <1>0, <1>1 DEF IInv, Holders, Holds, TypeOK, LinksOf
<1>9. OneAccountPerAddress' /\ SupersededStayDead'
  BY <1>0, <1>1 DEF IInv, OneAccountPerAddress, SupersededStayDead, TypeOK
<1>10. ClaimedOnce'
  BY <1>0, <1>1, <1>3 DEF IInv, ClaimedOnce, Holders, Holds, TypeOK
<1>11. VerifiedByLink'
  <2> SUFFICES ASSUME NEW u \in Users
               PROVE  u \in verified' <=>
                        \E q \in Requests : pc'[q] = "claimed" /\ link'[q] \in LinksOf(u)
    BY <1>1 DEF VerifiedByLink, LinksOf
  <2>1. u \in verified <=> \E q \in Requests : pc[q] = "claimed" /\ link[q] \in LinksOf(u)
    BY DEF IInv, VerifiedByLink
  <2>2. \A q \in Requests \ {r} : pc'[q] = pc[q] /\ link'[q] = link[q]
    BY <1>0, <1>1 DEF TypeOK
  <2>3. pc[r] # "claimed" /\ (pc'[r] = "claimed" <=> Granted) /\ link'[r] = l
    BY <1>0, <1>1 DEF TypeOK
  <2>4. l \in LinksOf(u) <=> l \in VerifyLinks /\ owner[l] = u
    BY DEF LinksOf
  <2> QED
    BY <1>2, <2>1, <2>2, <2>3, <2>4
<1>12. PasswordOrigin'
  <2> SUFFICES ASSUME NEW u \in Users, email[u] # None, password'[u] # creator[u]
               PROVE  /\ pc'[password'[u]] = "claimed" /\ link'[password'[u]] \in ResetLinks
                      /\ owner[link'[password'[u]]] = u
    BY <1>1 DEF PasswordOrigin
  <2>1. CASE Granted /\ l \in ResetLinks /\ u = owner[l]
    BY <1>0, <1>1, <1>2, <2>1 DEF TypeOK
  <2>2. CASE ~(Granted /\ l \in ResetLinks /\ u = owner[l])
    <3>1. password'[u] = password[u]
      BY <1>0, <1>2, <2>2 DEF TypeOK
    <3>2. /\ pc[password[u]] = "claimed" /\ link[password[u]] \in ResetLinks
          /\ owner[link[password[u]]] = u /\ password[u] \in Requests
      BY <3>1 DEF IInv, PasswordOrigin, Creators
    <3> QED
      BY <1>0, <1>1, <3>1, <3>2 DEF TypeOK
  <2> QED
    BY <2>1, <2>2
<1>13. NeverStranded'
  <2> SUFFICES ASSUME NEW u \in Users, email[u] # None, u \notin verified'
               PROVE  IF LinksOf(u) = {}
                        THEN pc'[creator[u]] \in {"session", "mail", "lost"}
                        ELSE LinksOf(u) \ used' # {}
    BY <1>1 DEF NeverStranded, LinksOf
  <2>1. u \notin verified /\ LinksOf(u) \ used' = LinksOf(u) \ used
    BY <1>1, <1>2 DEF LinksOf
  <2>2. pc'[creator[u]] = pc[creator[u]]
    BY <1>0, <1>1, <1>6 DEF TypeOK
  <2> QED
    BY <2>1, <2>2 DEF IInv, NeverStranded
<1> QED
  BY <1>4, <1>5, <1>7, <1>8, <1>9, <1>10, <1>11, <1>12, <1>13 DEF IInv

(* Every step of the service and of the world keeps the invariant.         *)
LEMMA StepKeepsIInv == IInv /\ [Next]_vars => IInv'
<1> SUFFICES ASSUME IInv, [Next]_vars PROVE IInv'
  OBVIOUS
<1>1. ASSUME NEW r \in Requests, NEW u \in Users, CreateAccount(r, u) PROVE IInv'
  BY <1>1, CreateAccountKeepsIInv
<1>2. ASSUME NEW r \in Requests, NEW l \in Links,
             SendVerification(r, l) \/ Renew(r, l) \/ SendReset(r, l)
      PROVE  IInv'
  BY <1>2, InsertKeepsIInv
<1>3. ASSUME NEW r \in Requests, NEW l \in Links, VerifyEmail(r, l) \/ ResetPassword(r, l)
      PROVE  IInv'
  BY <1>3, ClaimKeepsIInv
<1>4. ASSUME NEW r \in Requests, NEW e \in Emails,
             Register(r, e) \/ ResendVerification(r, e) \/ ForgotPassword(r, e)
      PROVE  IInv'
  BY <1>4, MovesKeepIInv
<1>5. ASSUME NEW r \in Requests, IssueSession(r) \/ Supersede(r) \/ Fail(r) PROVE IInv'
  BY <1>5, MovesKeepIInv
<1>6. ASSUME \/ \E n \in Names : NameOrganization(n)
             \/ \E l \in Links : Expires(l) \/ Arrives(l)
             \/ UNCHANGED vars
      PROVE  IInv'
  BY <1>6, WorldKeepsIInv
<1> QED
  BY <1>1, <1>2, <1>3, <1>4, <1>5, <1>6 DEF Next

(* The inductive invariant holds in every reachable state, for any users,  *)
(* addresses, links and requests.                                          *)
THEOREM Invariance == Spec => []IInv
<1> QED
  BY InitIInv, StepKeepsIInv, PTL DEF Spec

(* However many requests present a link at once, one claims it (the        *)
(* conditional updates of the consume transactions).                       *)
THEOREM SingleUse == Spec => []ClaimedOnce
<1>1. IInv => ClaimedOnce
  BY DEF IInv
<1> QED
  BY <1>1, Invariance, PTL

(* A finished resend has ended every link it found, however many resends,  *)
(* claims and failures ran beside it.                                      *)
THEOREM Superseded == Spec => []SupersededStayDead
<1>1. IInv => SupersededStayDead
  BY DEF IInv
<1> QED
  BY <1>1, Invariance, PTL

(* No failure half-way leaves an unverified account that was sent a link   *)
(* without an unused one.                                                  *)
THEOREM NoStrandedAccount == Spec => []NeverStranded
<1>1. IInv => NeverStranded
  BY DEF IInv
<1> QED
  BY <1>1, Invariance, PTL

(* One account per address, however registrations race.                    *)
THEOREM OneAccount == Spec => []OneAccountPerAddress
<1>1. IInv => OneAccountPerAddress
  BY DEF IInv
<1> QED
  BY <1>1, Invariance, PTL

(* An account is verified only by a link that was mailed to it.            *)
THEOREM Verification == Spec => []VerifiedByLink
<1>1. IInv => VerifiedByLink
  BY DEF IInv
<1> QED
  BY <1>1, Invariance, PTL

(* A password is set only by the registration of its account or by its     *)
(* reset links.                                                            *)
THEOREM OwnPassword == Spec => []PasswordOrigin
<1>1. IInv => PasswordOrigin
  BY DEF IInv
<1> QED
  BY <1>1, Invariance, PTL

(* Accounts, links and requests stay within their types.                   *)
THEOREM Typing == Spec => []TypeOK
<1>1. IInv => TypeOK
  BY DEF IInv
<1> QED
  BY <1>1, Invariance, PTL
=============================================================================
