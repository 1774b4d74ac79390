------------------------ MODULE OrganizationsProofs -------------------------
(***************************************************************************)
(* Proofs about ownership and invitations of an organization, for any      *)
(* users, invitations, seats and concurrent requests.                      *)
(***************************************************************************)
EXTENDS Organizations, FiniteSetTheorems, TLAPS

(* A request that is under way names the people and the invitation it is   *)
(* about.                                                                  *)
Named ==
  \A r \in Requests :
    /\ op[r] \in {"setRole", "remove", "transfer", "invite", "accept"} => target[r] \in Users
    /\ op[r] \in {"transfer"} => actor[r] \in Users
    /\ op[r] \in {"invite", "revoke", "accept"} => letter[r] \in Invitations
    /\ pc[r] = "idle" => op[r] = "none"

(* The invitations still to be inserted are different ones, and not there. *)
Drafts ==
  /\ \A r \in Requests :
       op[r] = "invite" /\ pc[r] \notin {"granted", "refused"} => invite[letter[r]] = "absent"
  /\ \A q, r \in Requests : op[q] = "invite" /\ op[r] = "invite" /\ letter[q] = letter[r] => q = r

(* An open invitation has let nobody in.                                   *)
Open ==
  \A i \in Invitations :
    /\ joins[i] <= 1
    /\ invite[i] \in {"absent", "PENDING"} => joins[i] = 0

(* A request that found an invitation is not about one still to be made.   *)
Found == \A r \in Requests : op[r] \in {"revoke", "accept"} => invite[letter[r]] # "absent"

(* The inductive invariant.                                                *)
IInv == TypeOK /\ Named /\ Drafts /\ Open /\ Found /\ OnlyOwnerRules

(* The first states satisfy the invariant.                                 *)
LEMMA InitIInv == Init => IInv
<1> SUFFICES ASSUME Init PROVE IInv
  OBVIOUS
<1>1. owner \in Users /\ role \in [Users -> Roles \union {"none"}] /\ active \subseteq Users
  BY OrgAssumption DEF Init
<1>2. \A u \in Users : /\ u = Founder => role[u] = "OWNER"
                       /\ u \in active \ {Founder} => role[u] \in Assignable
                       /\ u \notin active => role[u] = "none"
  BY OrgAssumption DEF Init
<1>3. active \subseteq {u \in Users : role[u] # "none"}
  BY <1>1, <1>2 DEF Assignable
<1>4. invite \in [Invitations -> Statuses]
  BY DEF Init, Statuses
<1>5. TypeOK
  BY <1>1, <1>3, <1>4 DEF Init, TypeOK, Places, Operations
<1>6. OnlyOwnerRules
  BY <1>1, <1>2 DEF OnlyOwnerRules, Init, Assignable
<1>7. Named /\ Drafts /\ Open /\ Found
  BY DEF Init, Named, Drafts, Open, Found
<1> QED
  BY <1>5, <1>6, <1>7 DEF IInv

(* A request that only goes on or ends.                                    *)
LEMMA QuietStep ==
  ASSUME IInv, NEW r \in Requests, NEW place \in Places \ {"idle"}, Goto(r, place),
         pc[r] \notin {"idle", "granted", "refused"},
         intime' \in [Requests -> BOOLEAN],
         UNCHANGED <<org, members, letters, request>>
  PROVE  IInv'
<1> USE DEF IInv, org, members, letters, request
<1>1. /\ pc' \in [Requests -> Places]
      /\ \A q \in Requests : pc'[q] = IF q = r THEN place ELSE pc[q]
  BY DEF Goto, TypeOK
<1>2. TypeOK'
  BY <1>1 DEF TypeOK
<1>3. Named' /\ Drafts' /\ Found'
  BY <1>1 DEF Named, Drafts, Found
<1>4. Open' /\ OnlyOwnerRules'
  BY DEF Open, OnlyOwnerRules
<1> QED
  BY <1>2, <1>3, <1>4

(* Checks decide where a request goes and change nothing else.             *)
LEMMA ChecksKeepIInv ==
  ASSUME IInv, NEW r \in Requests,
         \/ FindMember(r) \/ FindOwner(r) \/ InviteChecks(r) \/ OrgChecks(r)
         \/ FindInvitation(r) \/ AcceptMember(r)
  PROVE  IInv'
<1>1. intime \in [Requests -> BOOLEAN]
  BY DEF IInv, TypeOK
<1>2. PICK place \in Places \ {"idle"} : Goto(r, place)
  BY DEF FindMember, FindOwner, InviteChecks, OrgChecks, FindInvitation, AcceptMember,
         Proceed, Refuse, Places
<1>3. pc[r] \notin {"idle", "granted", "refused"}
  BY DEF FindMember, FindOwner, InviteChecks, OrgChecks, FindInvitation, AcceptMember, At
<1>4. intime' \in [Requests -> BOOLEAN]
  BY <1>1 DEF FindMember, FindOwner, InviteChecks, OrgChecks, FindInvitation, AcceptMember,
              Proceed, Refuse
<1>5. UNCHANGED <<org, members, letters, request>>
  BY DEF FindMember, FindOwner, InviteChecks, OrgChecks, FindInvitation, AcceptMember,
         Proceed, Refuse
<1> QED
  BY <1>2, <1>3, <1>4, <1>5, QuietStep

(* A request that begins.                                                  *)
LEMMA AskKeepsIInv ==
  ASSUME IInv, NEW r \in Requests, NEW u \in Users, NEW o \in Operations,
         NEW t \in Users \union {None}, NEW i \in Invitations \union {None},
         NEW place \in Places \ {"idle"}, Ask(r, u, o, t, i), Goto(r, place),
         o \in {"setRole", "remove", "transfer", "invite", "accept"} => t \in Users,
         o \in {"invite", "revoke", "accept"} => i \in Invitations,
         o \in {"revoke", "accept"} => invite[i] # "absent",
         o = "invite" => invite[i] = "absent" /\ \A q \in Requests : op[q] = "invite" => letter[q] # i
  PROVE  IInv'
<1> USE DEF IInv
<1>1. /\ pc' \in [Requests -> Places] /\ op' \in [Requests -> Operations]
      /\ actor' \in [Requests -> Users \union {None}] /\ target' \in [Requests -> Users \union {None}]
      /\ letter' \in [Requests -> Invitations \union {None}]
      /\ \A q \in Requests : pc'[q] = IF q = r THEN place ELSE pc[q]
      /\ \A q \in Requests : op'[q] = IF q = r THEN o ELSE op[q]
      /\ \A q \in Requests : actor'[q] = IF q = r THEN u ELSE actor[q]
      /\ \A q \in Requests : target'[q] = IF q = r THEN t ELSE target[q]
      /\ \A q \in Requests : letter'[q] = IF q = r THEN i ELSE letter[q]
      /\ UNCHANGED <<owner, deleted, overtaken, role, active, invite, lapsed, joins, intime>>
  BY DEF Ask, Goto, TypeOK, org, members, letters
<1>2. TypeOK'
  BY <1>1 DEF TypeOK
<1>3. Named'
  BY <1>1 DEF Named
<1>4. Drafts'
  BY <1>1 DEF Drafts
<1>5. Open' /\ OnlyOwnerRules'
  BY <1>1 DEF Open, OnlyOwnerRules
<1>6. Found'
  BY <1>1 DEF Found
<1> QED
  BY <1>2, <1>3, <1>4, <1>5, <1>6

(* A request is authorized and begins.                                     *)
LEMMA BeginningsKeepIInv ==
  ASSUME IInv, NEW r \in Requests, NEW u \in Users, NEW t \in Users, NEW o \in Operations,
         NEW i \in Invitations,
         Authorize(r, u, o, t) \/ AuthorizeLetter(r, u, o, i) \/ AcceptRead(r, i)
  PROVE  IInv'
<1>1. Invitee[i] \in Users
  BY OrgAssumption
<1>2. CASE Authorize(r, u, o, t)
  <2>1. "find" \in Places \ {"idle"} /\ None \in Invitations \union {None}
    BY DEF Places
  <2> QED
    BY <1>2, <2>1, AskKeepsIInv DEF Authorize
<1>3. CASE AuthorizeLetter(r, u, o, i)
  <2>1. "find" \in Places \ {"idle"}
    BY DEF Places
  <2> QED
    BY <1>1, <1>3, <2>1, AskKeepsIInv DEF AuthorizeLetter, Addressed
<1>4. CASE AcceptRead(r, i)
  <2>1. PICK place \in Places \ {"idle"} : Goto(r, place)
    BY <1>4 DEF AcceptRead, Places
  <2>2. "accept" \in Operations
    BY DEF Operations
  <2> QED
    BY <1>1, <1>4, <2>1, <2>2, AskKeepsIInv DEF AcceptRead
<1> QED
  BY <1>2, <1>3, <1>4

(* The organization is deleted.                                            *)
LEMMA DeleteKeepsIInv ==
  ASSUME IInv, NEW r \in Requests, NEW u \in Users, DeleteOrganization(r, u)
  PROVE  IInv'
<1>1. CASE Ask(r, u, "delete", None, None) /\ Goto(r, "write")
  <2>1. "write" \in Places \ {"idle"} /\ "delete" \in Operations
    BY DEF Places, Operations
  <2> QED
    BY <1>1, <2>1, AskKeepsIInv
<1>2. CASE /\ At(r, "delete", "write") /\ deleted' = TRUE /\ Goto(r, "granted")
           /\ UNCHANGED <<owner, overtaken, members, letters, request, intime>>
  <2> USE <1>2 DEF IInv, members, letters, request
  <2>1. /\ pc' \in [Requests -> Places]
        /\ \A q \in Requests : pc'[q] = IF q = r THEN "granted" ELSE pc[q]
    BY DEF Goto, TypeOK, Places
  <2>2. TypeOK'
    BY <2>1 DEF TypeOK
  <2>3. Named' /\ Drafts' /\ Found' /\ Open' /\ OnlyOwnerRules'
    BY <2>1 DEF Named, Drafts, Found, Open, OnlyOwnerRules
  <2> QED
    BY <2>2, <2>3
<1> QED
  BY <1>1, <1>2 DEF DeleteOrganization

(* Changes of members alone: the role OWNER is neither given nor taken.    *)
LEMMA MembersKeepIInv ==
  ASSUME IInv, NEW r \in Requests,
         RemoveMember(r) \/ \E ro \in Assigned : UpdateMemberRole(r, ro)
  PROVE  IInv'
<1> USE DEF IInv
<1>1. /\ pc' \in [Requests -> Places]
      /\ \A q \in Requests : pc'[q] = IF q = r THEN "granted" ELSE pc[q]
      /\ UNCHANGED <<org, letters, request, intime>>
  BY DEF RemoveMember, UpdateMemberRole, Goto, TypeOK, Places
<1>2. target[r] \in Users
  BY DEF RemoveMember, UpdateMemberRole, At, Named
<1>3. /\ role' \in [Users -> Roles \union {"none"}]
      /\ active' \subseteq active
      /\ \A u \in Users : role'[u] = role[u] \/ role'[u] \in Assignable
  BY <1>2 DEF RemoveMember, UpdateMemberRole, TypeOK, Assigned, Roles
<1>4. TypeOK'
  BY <1>1, <1>3 DEF TypeOK, org, letters, request, Assignable
<1>5. OnlyOwnerRules'
  BY <1>1, <1>3 DEF OnlyOwnerRules, org, Assignable
<1>6. Named' /\ Drafts' /\ Found' /\ Open'
  BY <1>1 DEF Named, Drafts, Found, Open, letters, request
<1> QED
  BY <1>4, <1>5, <1>6

(* The organization is handed over.                                        *)
LEMMA TransferKeepsIInv ==
  ASSUME IInv, NEW r \in Requests, TransferOwnership(r)
  PROVE  IInv'
<1> USE DEF IInv
<1>1. pc[r] = "write" /\ target[r] \in Users /\ actor[r] \in Users
  BY DEF TransferOwnership, At, Named
<1>2. CASE Refuse(r)
  BY <1>1, <1>2, QuietStep DEF Refuse, Places, TypeOK
<1>3. CASE /\ StillOwned(r) /\ owner' = target[r] /\ overtaken' = AboutToChange(target[r]) /\ role' = HandedOver(r) /\ Goto(r, "granted")
           /\ UNCHANGED <<deleted, active, letters, request, intime>>
  <2>1. /\ pc' \in [Requests -> Places]
        /\ \A q \in Requests : pc'[q] = IF q = r THEN "granted" ELSE pc[q]
    BY <1>3 DEF Goto, TypeOK, Places
  <2>2. /\ role' \in [Users -> Roles \union {"none"}]
        /\ \A u \in Users : role'[u] = "OWNER" => u = target[r]
        /\ \A u \in Users : role[u] # "none" => role'[u] # "none"
    BY <1>1, <1>3 DEF HandedOver, TypeOK, Roles, Assignable
  <2>3. TypeOK'
    BY <1>1, <1>3, <2>1, <2>2 DEF TypeOK, AboutToChange, letters, request
  <2>4. OnlyOwnerRules'
    BY <1>3, <2>2 DEF OnlyOwnerRules
  <2>5. Named' /\ Drafts' /\ Found' /\ Open'
    BY <1>3, <2>1 DEF Named, Drafts, Found, Open, letters, request
  <2> QED
    BY <2>3, <2>4, <2>5
<1> QED
  BY <1>2, <1>3 DEF TransferOwnership

(* A statement that sets the status of one invitation.                     *)
LEMMA StatusStep ==
  ASSUME IInv, NEW r \in Requests, NEW place \in {"granted", "refused"},
         NEW s \in {"PENDING", "REVOKED", "EXPIRED"},
         pc[r] \notin {"idle", "granted", "refused"}, letter[r] \in Invitations, Goto(r, place),
         invite' = [invite EXCEPT ![letter[r]] = s],
         s = "PENDING" => op[r] = "invite",
         s # "PENDING" => op[r] \in {"revoke", "accept"},
         UNCHANGED <<org, members, lapsed, joins, request, intime>>
  PROVE  IInv'
<1> USE DEF IInv, org, members, request
<1>1. /\ pc' \in [Requests -> Places] /\ invite' \in [Invitations -> Statuses]
      /\ \A q \in Requests : pc'[q] = IF q = r THEN place ELSE pc[q]
      /\ \A i \in Invitations : invite'[i] = IF i = letter[r] THEN s ELSE invite[i]
  BY DEF Goto, TypeOK, Places, Statuses
<1>2. TypeOK'
  BY <1>1 DEF TypeOK
<1>3. Named' /\ OnlyOwnerRules'
  BY <1>1 DEF Named, OnlyOwnerRules
<1>4. Drafts'
  <2> SUFFICES ASSUME NEW q \in Requests, op[q] = "invite", pc'[q] \notin {"granted", "refused"}
               PROVE  invite'[letter[q]] = "absent"
    BY <1>1 DEF Drafts
  <2>1. q # r /\ invite[letter[q]] = "absent" /\ letter[q] \in Invitations
    BY <1>1 DEF Drafts, Named
  <2>2. letter[q] # letter[r]
    BY <2>1 DEF Drafts, Found
  <2> QED
    BY <1>1, <2>1, <2>2
<1>5. Open'
  <2>1. s = "PENDING" => joins[letter[r]] = 0
    BY DEF Open, Drafts
  <2> QED
    BY <1>1, <2>1 DEF Open
<1>6. Found'
  BY <1>1 DEF Found, Named
<1> QED
  BY <1>2, <1>3, <1>4, <1>5, <1>6

(* Invitations are created, revoked and found expired.                     *)
LEMMA LettersKeepIInv ==
  ASSUME IInv, NEW r \in Requests,
         CreateInvitation(r) \/ RevokeInvitation(r) \/ ExpireInvitation(r)
  PROVE  IInv'
<1>1. letter[r] \in Invitations
  BY DEF CreateInvitation, RevokeInvitation, ExpireInvitation, At, IInv, Named
<1>2. CASE CreateInvitation(r)
  BY <1>1, <1>2, StatusStep DEF CreateInvitation, At
<1>3. CASE RevokeInvitation(r)
  BY <1>1, <1>3, StatusStep DEF RevokeInvitation, At
<1>4. CASE ExpireInvitation(r)
  BY <1>1, <1>4, StatusStep DEF ExpireInvitation, At
<1> QED
  BY <1>2, <1>3, <1>4

(* An invitation is claimed and its person enrolled.                       *)
LEMMA AcceptKeepsIInv ==
  ASSUME IInv, NEW r \in Requests, AcceptInvitation(r)
  PROVE  IInv'
<1> USE DEF IInv
<1>1. /\ pc[r] = "write" /\ target[r] \in Users /\ letter[r] \in Invitations
      /\ InviteRole[letter[r]] \in Assignable
  BY OrgAssumption DEF AcceptInvitation, At, Named
<1>2. CASE Refuse(r)
  BY <1>1, <1>2, QuietStep DEF Refuse, Places, TypeOK
<1>3. CASE /\ Claimable(r) /\ Goto(r, "granted")
           /\ invite' = [invite EXCEPT ![letter[r]] = "ACCEPTED"]
           /\ joins' = [joins EXCEPT ![letter[r]] = @ + 1]
           /\ Enroll(target[r], InviteRole[letter[r]])
           /\ UNCHANGED <<org, lapsed, request, intime>>
  <2>1. joins[letter[r]] = 0 /\ invite[letter[r]] = "PENDING"
    BY <1>1, <1>3 DEF Claimable, Open
  <2>2. /\ pc' \in [Requests -> Places] /\ invite' \in [Invitations -> Statuses]
        /\ joins' \in [Invitations -> Nat]
        /\ role' \in [Users -> Roles \union {"none"}] /\ active' = active \union {target[r]}
        /\ \A q \in Requests : pc'[q] = IF q = r THEN "granted" ELSE pc[q]
        /\ \A i \in Invitations : invite'[i] = IF i = letter[r] THEN "ACCEPTED" ELSE invite[i]
        /\ \A i \in Invitations : joins'[i] = IF i = letter[r] THEN 1 ELSE joins[i]
        /\ \A u \in Users : role'[u] = IF u = target[r] THEN InviteRole[letter[r]] ELSE role[u]
    BY <1>1, <1>3, <2>1 DEF Goto, Enroll, TypeOK, Places, Statuses, Roles
  <2>3. TypeOK'
    BY <1>1, <1>3, <2>2 DEF TypeOK, org, request, Assignable
  <2>4. OnlyOwnerRules'
    BY <1>1, <1>3, <2>2 DEF OnlyOwnerRules, org, Assignable
  <2>5. Named' /\ Open'
    BY <1>3, <2>2 DEF Named, Open, request
  <2>6. Drafts' /\ Found'
    BY <1>3, <2>1, <2>2 DEF Drafts, Found, Named, request
  <2> QED
    BY <2>3, <2>4, <2>5, <2>6
<1> QED
  BY <1>2, <1>3 DEF AcceptInvitation

(* An invitation expires.                                                  *)
LEMMA LapseKeepsIInv ==
  ASSUME IInv, NEW i \in Invitations, Lapse(i)
  PROVE  IInv'
BY DEF Lapse, IInv, TypeOK, Named, Drafts, Found, Open, OnlyOwnerRules, org, members, request

(* Every step keeps the invariant.                                         *)
LEMMA StepKeepsIInv == IInv /\ [Next]_vars => IInv'
<1> SUFFICES ASSUME IInv, [Next]_vars PROVE IInv'
  OBVIOUS
<1>1. ASSUME NEW r \in Requests, NEW u \in Users, NEW t \in Users, NEW o \in Operations,
             Authorize(r, u, o, t)
      PROVE  IInv'
  <2>1. "find" \in Places \ {"idle"} /\ None \in Invitations \union {None}
    BY DEF Places
  <2> QED
    BY <1>1, <2>1, AskKeepsIInv DEF Authorize
<1>2. ASSUME NEW r \in Requests, NEW u \in Users, NEW o \in Operations, NEW i \in Invitations,
             AuthorizeLetter(r, u, o, i)
      PROVE  IInv'
  BY <1>2, BeginningsKeepIInv
<1>3. ASSUME NEW r \in Requests, NEW i \in Invitations, AcceptRead(r, i) PROVE IInv'
  <2>1. Founder \in Users /\ "none" \in Operations
    BY OrgAssumption DEF Operations
  <2> QED
    BY <1>3, <2>1, BeginningsKeepIInv
<1>4. ASSUME NEW r \in Requests, NEW u \in Users, DeleteOrganization(r, u) PROVE IInv'
  BY <1>4, DeleteKeepsIInv
<1>5. ASSUME NEW r \in Requests, Advance(r) PROVE IInv'
  BY <1>5, ChecksKeepIInv, MembersKeepIInv, TransferKeepsIInv, LettersKeepIInv, AcceptKeepsIInv
     DEF Advance
<1>6. ASSUME NEW i \in Invitations, Lapse(i) PROVE IInv'
  BY <1>6, LapseKeepsIInv
<1>7. CASE UNCHANGED vars
  BY <1>7 DEF vars, IInv, TypeOK, Named, Drafts, Found, Open, OnlyOwnerRules
<1> QED
  BY <1>1, <1>2, <1>3, <1>4, <1>5, <1>6, <1>7 DEF Next

(* The inductive invariant of members, invitations and requests.           *)
THEOREM Invariance == Spec => []IInv
<1> QED
  BY InitIInv, StepKeepsIInv, PTL DEF Spec

(* Nobody but the recorded owner ever has the role OWNER.                  *)
THEOREM Ownership == Spec => []OnlyOwnerRules
<1>1. IInv => OnlyOwnerRules
  BY DEF IInv
<1> QED
  BY <1>1, Invariance, PTL

(* An invitation lets one person in, once.                                 *)
THEOREM Admission == Spec => []AdmittedOnce
<1>1. IInv => AdmittedOnce
  BY DEF IInv, Open, AdmittedOnce
<1> QED
  BY <1>1, Invariance, PTL

(* The owner has its rank and its place unless it was overtaken, and who   *)
(* is about to change its row looked before it was the owner.              *)
OwnerSafe ==
  \/ \E q \in overtaken : pc[q] = "granted"
  \/ /\ owner \in active /\ role[owner] = "OWNER"
     /\ AboutToChange(owner) \subseteq overtaken

(* A request that goes on from its checks or ends, one that begins, and    *)
(* one that ends with a change of other rows.                              *)
LEMMA OwnerUntouched ==
  ASSUME IInv, OwnerSafe, NEW r \in Requests, NEW place, Goto(r, place),
         pc[r] # "granted", UNCHANGED <<owner, overtaken>>,
         owner \in active => owner \in active',
         role[owner] = "OWNER" => role'[owner] = "OWNER",
         \A q \in Requests : q # r => op'[q] = op[q] /\ target'[q] = target[q],
         place = "write" /\ op'[r] \in {"setRole", "remove", "accept"} /\ target'[r] = owner
           => ~(owner \in active /\ role[owner] = "OWNER")
  PROVE  OwnerSafe'
<1>1. \A q \in Requests : pc'[q] = IF q = r THEN place ELSE pc[q]
  BY DEF IInv, TypeOK, Goto
<1>2. overtaken \subseteq Requests
  BY DEF IInv, TypeOK
<1>3. CASE \E q \in overtaken : pc[q] = "granted"
  BY <1>1, <1>2, <1>3 DEF OwnerSafe
<1>4. CASE /\ owner \in active /\ role[owner] = "OWNER"
           /\ AboutToChange(owner) \subseteq overtaken
  <2>1. AboutToChange(owner)' \subseteq AboutToChange(owner)
    BY <1>1, <1>4 DEF AboutToChange
  <2> QED
    BY <1>4, <2>1 DEF OwnerSafe
<1> QED
  BY <1>3, <1>4 DEF OwnerSafe

(* A change of a member's row by a request whose checks came before: when  *)
(* the member is the owner, the request has overtaken the transfer.        *)
LEMMA MemberChanged ==
  ASSUME IInv, OwnerSafe, NEW r \in Requests, pc[r] = "write",
         op[r] \in {"setRole", "remove", "accept"}, Goto(r, "granted"),
         UNCHANGED <<owner, overtaken, op, target>>,
         \A u \in Users : u # target[r] => /\ role'[u] = role[u]
                                           /\ u \in active => u \in active'
  PROVE  OwnerSafe'
<1>1. /\ \A q \in Requests : pc'[q] = IF q = r THEN "granted" ELSE pc[q]
      /\ owner \in Users /\ overtaken \subseteq Requests
  BY DEF IInv, TypeOK, Goto
<1>2. CASE target[r] # owner
  BY <1>1, <1>2, OwnerUntouched
<1>3. CASE target[r] = owner
  <2>1. CASE \E q \in overtaken : pc[q] = "granted"
    BY <1>1, <2>1 DEF OwnerSafe
  <2>2. CASE AboutToChange(owner) \subseteq overtaken
    <3>1. r \in overtaken
      BY <1>3, <2>2 DEF AboutToChange
    <3> QED
      BY <1>1, <3>1 DEF OwnerSafe
  <2> QED
    BY <2>1, <2>2 DEF OwnerSafe
<1> QED
  BY <1>2, <1>3

(* Every step keeps the owner safe.                                        *)
LEMMA StepKeepsOwner ==
  ASSUME IInv, OwnerSafe, [Next]_vars
  PROVE  OwnerSafe'
<1> USE DEF org, members, letters, request
<1>1. ASSUME NEW r \in Requests, NEW u \in Users, NEW o \in Operations,
             NEW t \in Users \union {None}, NEW i \in Invitations \union {None}, NEW place,
             Ask(r, u, o, t, i), Goto(r, place),
             place # "write" \/ o = "delete"
      PROVE  OwnerSafe'
  <2>1. /\ pc[r] = "idle" /\ UNCHANGED <<owner, overtaken, active, role>>
        /\ op'[r] = o
        /\ \A q \in Requests : q # r => op'[q] = op[q] /\ target'[q] = target[q]
    BY <1>1 DEF Ask, IInv, TypeOK
  <2> QED
    BY <1>1, <2>1, OwnerUntouched
<1>2. ASSUME NEW r \in Requests, NEW u \in Users, NEW t \in Users, NEW o \in Operations,
             NEW i \in Invitations,
             Authorize(r, u, o, t) \/ AuthorizeLetter(r, u, o, i) \/ AcceptRead(r, i)
      PROVE  OwnerSafe'
  <2>1. Invitee[i] \in Users /\ "accept" \in Operations
    BY OrgAssumption DEF Operations
  <2>2. CASE Authorize(r, u, o, t)
    BY <1>1, <2>2 DEF Authorize
  <2>3. CASE AuthorizeLetter(r, u, o, i)
    BY <1>1, <2>1, <2>3 DEF AuthorizeLetter
  <2>4. CASE AcceptRead(r, i)
    <3>1. PICK place \in {"refused", "expire", "living"} : Goto(r, place)
      BY <2>4 DEF AcceptRead
    <3> QED
      BY <1>1, <2>1, <2>4, <3>1 DEF AcceptRead
  <2> QED
    BY <1>2, <2>2, <2>3, <2>4
<1>3. ASSUME NEW r \in Requests, NEW u \in Users, DeleteOrganization(r, u)
      PROVE  OwnerSafe'
  <2>1. CASE Ask(r, u, "delete", None, None) /\ Goto(r, "write")
    <3>1. "delete" \in Operations
      BY DEF Operations
    <3> QED
      BY <1>1, <2>1, <3>1
  <2>2. CASE /\ At(r, "delete", "write") /\ Goto(r, "granted")
             /\ UNCHANGED <<owner, overtaken, members, letters, request, intime>>
    BY <2>2, OwnerUntouched DEF At
  <2> QED
    BY <1>3, <2>1, <2>2 DEF DeleteOrganization
<1>4. ASSUME NEW r \in Requests,
             \/ InviteChecks(r) \/ OrgChecks(r) \/ FindInvitation(r) \/ FindOwner(r)
             \/ CreateInvitation(r) \/ RevokeInvitation(r) \/ ExpireInvitation(r)
      PROVE  OwnerSafe'
  <2>1. PICK place : Goto(r, place) /\ (place = "write" => op[r] \notin {"setRole", "remove", "accept"})
    BY <1>4 DEF InviteChecks, OrgChecks, FindInvitation, FindOwner, CreateInvitation, RevokeInvitation,
                ExpireInvitation, Refuse, Proceed, At
  <2>2. pc[r] # "granted" /\ UNCHANGED <<owner, overtaken, role, active, op, target>>
    BY <1>4 DEF InviteChecks, OrgChecks, FindInvitation, FindOwner, CreateInvitation, RevokeInvitation,
                ExpireInvitation, Refuse, Proceed, At
  <2> QED
    BY <2>1, <2>2, OwnerUntouched
<1>5. ASSUME NEW r \in Requests, FindMember(r) \/ AcceptMember(r)
      PROVE  OwnerSafe'
  <2>1. PICK place : /\ Goto(r, place)
                     /\ place = "write" => ~(target[r] \in active /\ role[target[r]] = "OWNER")
    BY <1>5 DEF FindMember, AcceptMember, Refuse, Proceed
  <2>2. pc[r] # "granted" /\ UNCHANGED <<owner, overtaken, role, active, op, target>>
    BY <1>5 DEF FindMember, AcceptMember, Refuse, Proceed, At
  <2> QED
    BY <2>1, <2>2, OwnerUntouched
<1>6. ASSUME NEW r \in Requests, RemoveMember(r) \/ \E ro \in Assigned : UpdateMemberRole(r, ro)
      PROVE  OwnerSafe'
  BY <1>6, MemberChanged DEF RemoveMember, UpdateMemberRole, At, IInv, TypeOK
<1>7. ASSUME NEW r \in Requests, AcceptInvitation(r)
      PROVE  OwnerSafe'
  <2>1. CASE Refuse(r)
    BY <1>7, <2>1, OwnerUntouched DEF AcceptInvitation, Refuse, At
  <2>2. CASE /\ Enroll(target[r], InviteRole[letter[r]]) /\ Goto(r, "granted")
             /\ UNCHANGED <<org, lapsed, request, intime>>
    BY <1>7, <2>2, MemberChanged DEF AcceptInvitation, Enroll, At, IInv, TypeOK
  <2> QED
    BY <1>7, <2>1, <2>2 DEF AcceptInvitation
<1>8. ASSUME NEW r \in Requests, TransferOwnership(r)
      PROVE  OwnerSafe'
  <2>1. At(r, "transfer", "write") /\ target[r] \in Users
    BY <1>8 DEF TransferOwnership, At, IInv, Named
  <2>2. CASE Refuse(r)
    BY <2>1, <2>2, OwnerUntouched DEF Refuse, At
  <2>3. CASE /\ StillOwned(r) /\ owner' = target[r] /\ overtaken' = AboutToChange(target[r])
             /\ role' = HandedOver(r) /\ Goto(r, "granted")
             /\ UNCHANGED <<deleted, active, letters, request, intime>>
    <3>1. owner' \in active' /\ role'[owner'] = "OWNER"
      BY <2>1, <2>3 DEF StillOwned, HandedOver
    <3>2. \A q \in Requests : pc'[q] = IF q = r THEN "granted" ELSE pc[q]
      BY <2>3 DEF Goto, IInv, TypeOK
    <3>3. AboutToChange(owner)' \subseteq overtaken'
      BY <2>3, <3>2 DEF AboutToChange
    <3> QED
      BY <3>1, <3>3 DEF OwnerSafe
  <2> QED
    BY <1>8, <2>2, <2>3 DEF TransferOwnership
<1>9. CASE UNCHANGED <<owner, overtaken, active, role, pc, op, target>>
  BY <1>9 DEF OwnerSafe, AboutToChange
<1>10. ASSUME NEW r \in Requests, Advance(r) PROVE OwnerSafe'
  BY <1>4, <1>5, <1>6, <1>7, <1>8, <1>10 DEF Advance
<1>11. ASSUME NEW r \in Requests, NEW i \in Invitations, AcceptRead(r, i) PROVE OwnerSafe'
  <2>1. Founder \in Users /\ "none" \in Operations
    BY OrgAssumption DEF Operations
  <2> QED
    BY <1>2, <1>11, <2>1
<1>12. ASSUME NEW r \in Requests, NEW u \in Users, NEW o \in Operations, NEW i \in Invitations,
             AuthorizeLetter(r, u, o, i)
      PROVE  OwnerSafe'
  BY <1>2, <1>12
<1>13. ASSUME NEW r \in Requests, NEW u \in Users, NEW t \in Users, NEW o \in Operations,
             Authorize(r, u, o, t)
      PROVE  OwnerSafe'
  BY <1>1, <1>13 DEF Authorize
<1> QED
  BY <1>3, <1>9, <1>10, <1>11, <1>12, <1>13 DEF Next, vars, Lapse

(* Whoever owns the organization is an active member with the role OWNER,  *)
(* unless a change checked before the transfer was made after it.          *)
THEOREM OwnerStays == Spec => []OwnerKept
<1>1. Init => OwnerSafe
  BY OrgAssumption DEF Init, OwnerSafe, AboutToChange
<1>2. OwnerSafe => OwnerKept
  BY DEF OwnerSafe, OwnerKept
<1> QED
  BY <1>1, <1>2, StepKeepsOwner, Invariance, PTL DEF Spec

(* So many transfers were granted, each from the owner of that moment.     *)
Trail ==
  /\ \A u \in Users : IsFiniteSet(Handed(actor, u)) /\ IsFiniteSet(Handed(target, u))
  /\ Succession

(* A step that grants no transfer.                                         *)
LEMMA TrailUntouched ==
  ASSUME IInv, Trail, NEW r \in Requests, NEW place, Goto(r, place), pc[r] # "granted",
         place = "granted" => op'[r] # "transfer", owner' = owner,
         \A q \in Requests : q # r => op'[q] = op[q] /\ actor'[q] = actor[q] /\ target'[q] = target[q]
  PROVE  Trail'
<1>1. \A q \in Requests : pc'[q] = IF q = r THEN place ELSE pc[q]
  BY DEF IInv, TypeOK, Goto
<1>2. \A u \in Users : Handed(actor, u)' = Handed(actor, u) /\ Handed(target, u)' = Handed(target, u)
  BY <1>1 DEF Handed, At
<1> QED
  BY <1>2 DEF Trail, Succession

(* One that is granted leaves the owner and arrives at the next.           *)
LEMMA TrailGoesOn ==
  ASSUME IInv, Trail, NEW r \in Requests, At(r, "transfer", "write"), Goto(r, "granted"),
         owner = actor[r], owner' = target[r], UNCHANGED <<op, actor, target>>
  PROVE  Trail'
<1>1. \A q \in Requests : pc'[q] = IF q = r THEN "granted" ELSE pc[q]
  BY DEF IInv, TypeOK, Goto
<1>2. ASSUME NEW by, by' = by, NEW u \in Users, IsFiniteSet(Handed(by, u))
      PROVE  /\ IsFiniteSet(Handed(by, u)') /\ Cardinality(Handed(by, u)) \in Nat
             /\ Cardinality(Handed(by, u)')
                  = Cardinality(Handed(by, u)) + (IF by[r] = u THEN 1 ELSE 0)
  <2>1. r \notin Handed(by, u) /\ Cardinality(Handed(by, u)) \in Nat
    BY <1>2, FS_CardinalityType DEF Handed, At
  <2>2. Handed(by, u)' = IF by[r] = u THEN Handed(by, u) \union {r} ELSE Handed(by, u)
    BY <1>1, <1>2 DEF Handed, At
  <2> QED
    BY <1>2, <2>1, <2>2, FS_AddElement
<1>3. ASSUME NEW u \in Users
      PROVE  /\ IsFiniteSet(Handed(actor, u)') /\ IsFiniteSet(Handed(target, u)')
             /\ Cardinality(Handed(actor, u)') + (IF u = owner' THEN 1 ELSE 0)
                  = Cardinality(Handed(target, u)') + (IF u = Founder THEN 1 ELSE 0)
  <2>1. /\ IsFiniteSet(Handed(actor, u)') /\ Cardinality(Handed(actor, u)) \in Nat
        /\ Cardinality(Handed(actor, u)')
             = Cardinality(Handed(actor, u)) + (IF actor[r] = u THEN 1 ELSE 0)
    BY <1>2 DEF Trail
  <2>2. /\ IsFiniteSet(Handed(target, u)') /\ Cardinality(Handed(target, u)) \in Nat
        /\ Cardinality(Handed(target, u)')
             = Cardinality(Handed(target, u)) + (IF target[r] = u THEN 1 ELSE 0)
    BY <1>2 DEF Trail
  <2>3. Cardinality(Handed(actor, u)) + (IF u = owner THEN 1 ELSE 0)
          = Cardinality(Handed(target, u)) + (IF u = Founder THEN 1 ELSE 0)
    BY DEF Trail, Succession
  <2> QED
    BY <2>1, <2>2, <2>3
<1> QED
  BY <1>3 DEF Trail, Succession

(* Every step keeps the trail.                                             *)
LEMMA StepKeepsTrail ==
  ASSUME IInv, Trail, [Next]_vars
  PROVE  Trail'
<1> USE DEF org, members, letters, request
<1>1. ASSUME NEW r \in Requests, NEW u, NEW o, NEW t, NEW i, NEW place,
             Ask(r, u, o, t, i), Goto(r, place), place # "granted"
      PROVE  Trail'
  <2>1. /\ pc[r] = "idle" /\ owner' = owner
        /\ \A q \in Requests : q # r => op'[q] = op[q] /\ actor'[q] = actor[q] /\ target'[q] = target[q]
    BY <1>1 DEF Ask, IInv, TypeOK
  <2> QED
    BY <1>1, <2>1, TrailUntouched
<1>2. ASSUME NEW r \in Requests, NEW u \in Users, NEW t \in Users, NEW o \in Operations,
             NEW i \in Invitations,
             Authorize(r, u, o, t) \/ AuthorizeLetter(r, u, o, i) \/ AcceptRead(r, i)
      PROVE  Trail'
  <2>1. CASE Authorize(r, u, o, t)
    BY <1>1, <2>1 DEF Authorize
  <2>2. CASE AuthorizeLetter(r, u, o, i)
    BY <1>1, <2>2 DEF AuthorizeLetter
  <2>3. CASE AcceptRead(r, i)
    <3>1. PICK place \in {"refused", "expire", "living"} : Goto(r, place)
      BY <2>3 DEF AcceptRead
    <3> QED
      BY <1>1, <2>3, <3>1 DEF AcceptRead
  <2> QED
    BY <1>2, <2>1, <2>2, <2>3
<1>3. ASSUME NEW r \in Requests, NEW u \in Users, DeleteOrganization(r, u)
      PROVE  Trail'
  <2>1. CASE Ask(r, u, "delete", None, None) /\ Goto(r, "write")
    BY <1>1, <2>1
  <2>2. CASE /\ At(r, "delete", "write") /\ Goto(r, "granted")
             /\ UNCHANGED <<owner, overtaken, members, letters, request, intime>>
    BY <2>2, TrailUntouched DEF At
  <2> QED
    BY <1>3, <2>1, <2>2 DEF DeleteOrganization
<1>4. ASSUME NEW r \in Requests, Advance(r), ~TransferOwnership(r)
      PROVE  Trail'
  <2>1. PICK place : Goto(r, place) /\ (place = "granted" => op[r] # "transfer")
    BY <1>4 DEF Advance, FindMember, FindOwner, RemoveMember, UpdateMemberRole, InviteChecks, OrgChecks,
                CreateInvitation, FindInvitation, RevokeInvitation, ExpireInvitation, AcceptMember,
                AcceptInvitation, Refuse, Proceed, At
  <2>2. pc[r] # "granted" /\ UNCHANGED <<owner, op, actor, target>>
    BY <1>4 DEF Advance, FindMember, FindOwner, RemoveMember, UpdateMemberRole, InviteChecks, OrgChecks,
                CreateInvitation, FindInvitation, RevokeInvitation, ExpireInvitation, AcceptMember,
                AcceptInvitation, Refuse, Proceed, At
  <2> QED
    BY <2>1, <2>2, TrailUntouched
<1>5. ASSUME NEW r \in Requests, TransferOwnership(r)
      PROVE  Trail'
  <2>1. CASE Refuse(r)
    BY <1>5, <2>1, TrailUntouched DEF TransferOwnership, Refuse, At
  <2>2. CASE StillOwned(r) /\ owner' = target[r] /\ Goto(r, "granted") /\ UNCHANGED request
    BY <1>5, <2>2, TrailGoesOn DEF TransferOwnership, StillOwned
  <2> QED
    BY <1>5, <2>1, <2>2 DEF TransferOwnership
<1>6. CASE UNCHANGED <<owner, pc, op, actor, target>>
  BY <1>6 DEF Trail, Succession, Handed, At
<1>7. ASSUME NEW r \in Requests, NEW i \in Invitations, AcceptRead(r, i) PROVE Trail'
  <2>1. Founder \in Users /\ "none" \in Operations
    BY OrgAssumption DEF Operations
  <2> QED
    BY <1>2, <1>7, <2>1
<1>8. ASSUME NEW r \in Requests, NEW u \in Users, NEW o \in Operations, NEW i \in Invitations,
             AuthorizeLetter(r, u, o, i)
      PROVE  Trail'
  BY <1>2, <1>8
<1>9. ASSUME NEW r \in Requests, NEW u \in Users, NEW t \in Users, NEW o \in Operations,
             Authorize(r, u, o, t)
      PROVE  Trail'
  BY <1>1, <1>9 DEF Authorize
<1> QED
  BY <1>3, <1>4, <1>5, <1>6, <1>7, <1>8, <1>9 DEF Next, vars, Lapse

(* Granted transfers form one trail from the founder to the owner: no two  *)
(* that race both take the organization from the same ownership.           *)
THEOREM OneTrail == Spec => []Succession
<1>1. ASSUME Init PROVE Trail
  <2>1. \A u \in Users : Handed(actor, u) = {} /\ Handed(target, u) = {}
    BY <1>1 DEF Init, Handed, At
  <2>2. IsFiniteSet({}) /\ owner = Founder
    BY <1>1, FS_EmptySet DEF Init
  <2> QED
    BY <2>1, <2>2 DEF Trail, Succession
<1>2. Trail => Succession
  BY DEF Trail
<1> QED
  BY <1>1, <1>2, StepKeepsTrail, Invariance, PTL DEF Spec

(* Members, invitations and requests stay within their types.              *)
THEOREM Typing == Spec => []TypeOK
<1>1. IInv => TypeOK
  BY DEF IInv
<1> QED
  BY <1>1, Invariance, PTL
=============================================================================
