--------------------------- MODULE Organizations ----------------------------
(***************************************************************************)
(* One organization: who owns it, who is a member in which role, and the   *)
(* invitations that let people in (organizations.service.ts over           *)
(* organizations.repository.ts, with the seat limit of billing.service.ts).*)
(* Every element of Requests is one HTTP request.  Its checks are reads    *)
(* outside any transaction, one step each; its change is one statement or  *)
(* one transaction, the last step, and may meet rows that are not any more *)
(* what the checks saw.                                                    *)
(***************************************************************************)
EXTENDS Naturals, FiniteSets

CONSTANTS
  Users,
  Founder,      \* who created the organization
  Invitations,  \* rows of invitations
  Invitee,      \* Invitee[i]: the user with the email address of i
  InviteRole,   \* InviteRole[i]: the role i offers
  MaxMembers,   \* seats of the plan
  Requests,     \* HTTP requests, each used once
  None          \* no user, no invitation

(* ADMIN may manage members and invitations, MEMBER may not; the OWNER may *)
(* also delete the organization and hand it over.                          *)
Assignable == {"ADMIN", "MEMBER"}
Roles == Assignable \union {"OWNER"}

ASSUME OrgAssumption ==
  /\ Founder \in Users
  /\ Invitee \in [Invitations -> Users]
  /\ InviteRole \in [Invitations -> Assignable]
  /\ MaxMembers \in Nat
  /\ None \notin Users \union Invitations

VARIABLES
  owner,    \* organizations.ownerId
  deleted,  \* organizations.deletedAt is set
  overtaken,  \* changes of the owner's row whose checks came before the
              \* owner did, for the properties
  role,     \* role[u]: role in the row of organization_members, "none" without a row
  active,   \* users whose row has isActive
  invite,   \* invite[i]: column status
  lapsed,   \* invitations whose expiresAt has passed
  joins,    \* joins[i]: memberships granted through i, for the properties
  pc,       \* pc[r]: what request r does next, or how it ended
  op,       \* op[r]: the operation r asks for
  actor,    \* actor[r]: who asks
  target,   \* target[r]: the member it is about
  letter,   \* letter[r]: the invitation it is about
  intime    \* intime[r]: acceptedAt was taken before the invitation expired

org == <<owner, deleted, overtaken>>
members == <<role, active>>
letters == <<invite, lapsed, joins>>
request == <<op, actor, target, letter>>
vars == <<owner, deleted, overtaken, role, active, invite, lapsed, joins,
          pc, op, actor, target, letter, intime>>

Statuses == {"absent", "PENDING", "ACCEPTED", "EXPIRED", "REVOKED"}
Places == {"idle", "find", "pending", "living", "seats", "member", "write", "expire",
           "granted", "refused"}
Operations == {"none", "setRole", "remove", "transfer", "delete", "invite", "revoke", "accept"}

TypeOK ==
  /\ owner \in Users /\ deleted \in BOOLEAN /\ overtaken \subseteq Requests
  /\ role \in [Users -> Roles \union {"none"}]
  /\ active \subseteq {u \in Users : role[u] # "none"}
  /\ invite \in [Invitations -> Statuses]
  /\ lapsed \subseteq Invitations
  /\ joins \in [Invitations -> Nat]
  /\ pc \in [Requests -> Places]
  /\ op \in [Requests -> Operations]
  /\ actor \in [Requests -> Users \union {None}]
  /\ target \in [Requests -> Users \union {None}]
  /\ letter \in [Requests -> Invitations \union {None}]
  /\ intime \in [Requests -> BOOLEAN]

(* An organization that has had a life: its founder owns it, others joined *)
(* and some invitations, one per person, are pending.                      *)
Init ==
  /\ owner = Founder /\ deleted = FALSE /\ overtaken = {}
  /\ active \in {S \in SUBSET Users : Founder \in S /\ Cardinality(S) <= MaxMembers}
  /\ role \in {f \in [Users -> Roles \union {"none"}] :
                 \A u \in Users : CASE u = Founder -> f[u] = "OWNER"
                                    [] u \in active \ {Founder} -> f[u] \in Assignable
                                    [] OTHER -> f[u] = "none"}
  /\ invite \in {f \in [Invitations -> {"absent", "PENDING"}] :
                   \A i, j \in Invitations : f[i] = "PENDING" =>
                     /\ Invitee[i] \notin active
                     /\ f[j] = "PENDING" /\ Invitee[i] = Invitee[j] => i = j}
  /\ lapsed = {}
  /\ joins = [i \in Invitations |-> 0]
  /\ pc = [r \in Requests |-> "idle"]
  /\ op = [r \in Requests |-> "none"]
  /\ actor = [r \in Requests |-> None]
  /\ target = [r \in Requests |-> None]
  /\ letter = [r \in Requests |-> None]
  /\ intime = [r \in Requests |-> FALSE]

Goto(r, place) == pc' = [pc EXCEPT ![r] = place]
At(r, o, place) == op[r] = o /\ pc[r] = place

Refuse(r) == Goto(r, "refused") /\ UNCHANGED <<org, members, letters, request, intime>>
Proceed(r, place) == Goto(r, place) /\ UNCHANGED <<org, members, letters, request, intime>>

-----------------------------------------------------------------------------
(* Who may ask for what (requireOrgMember, requireOrgPermission).          *)

Holds(u, roles) == u \in active /\ role[u] \in roles /\ (role[u] = "OWNER" => owner = u)

Allowed(u, o) ==
  ~deleted /\ CASE o \in {"setRole", "remove", "invite", "revoke"} -> Holds(u, {"OWNER", "ADMIN"})
                [] o = "delete" -> Holds(u, {"OWNER"})
                [] o = "transfer" -> Holds(u, Roles)
                [] OTHER -> FALSE

Ask(r, u, o, t, i) ==
  /\ pc[r] = "idle"
  /\ op' = [op EXCEPT ![r] = o]
  /\ actor' = [actor EXCEPT ![r] = u]
  /\ target' = [target EXCEPT ![r] = t]
  /\ letter' = [letter EXCEPT ![r] = i]
  /\ UNCHANGED <<org, members, letters, intime>>

Authorize(r, u, o, t) ==
  /\ o \in {"setRole", "remove", "transfer"}
  /\ Allowed(u, o)
  /\ Ask(r, u, o, t, None)
  /\ Goto(r, "find")

(* A new invitation has an id nobody else is about to use.                 *)
Addressed(i, o) ==
  \/ /\ o = "invite" /\ invite[i] = "absent"
     /\ \A q \in Requests : op[q] = "invite" => letter[q] # i
  \/ o = "revoke" /\ invite[i] # "absent"

AuthorizeLetter(r, u, o, i) ==
  /\ Addressed(i, o)
  /\ Allowed(u, o)
  /\ Ask(r, u, o, Invitee[i], i)
  /\ Goto(r, "find")

DeleteOrganization(r, u) ==
  \/ /\ Allowed(u, "delete")
     /\ Ask(r, u, "delete", None, None)
     /\ Goto(r, "write")
  \/ /\ At(r, "delete", "write") /\ u = actor[r]
     /\ deleted' = TRUE
     /\ Goto(r, "granted")
     /\ UNCHANGED <<owner, overtaken, members, letters, request, intime>>

-----------------------------------------------------------------------------
(* Members.                                                                *)

(* updateMemberRole and removeMember look at the member first.             *)
FindMember(r) ==
  /\ pc[r] = "find" /\ op[r] \in {"setRole", "remove"}
  /\ IF target[r] \in active /\ role[target[r]] # "OWNER" THEN Proceed(r, "write") ELSE Refuse(r)

(* updateMemberRole refuses to hand out the role of the owner.             *)
Assigned == Assignable

(* ... and change the row by its id, whatever it holds by now.             *)
UpdateMemberRole(r, ro) ==
  /\ At(r, "setRole", "write")
  /\ role' = [role EXCEPT ![target[r]] = ro]
  /\ Goto(r, "granted")
  /\ UNCHANGED <<org, active, letters, request, intime>>

RemoveMember(r) ==
  /\ At(r, "remove", "write")
  /\ active' = active \ {target[r]}
  /\ Goto(r, "granted")
  /\ UNCHANGED <<org, role, letters, request, intime>>

(* The reads of transferOwnership, all repeated by its transaction.        *)
FindOwner(r) ==
  /\ At(r, "transfer", "find")
  /\ IF ~deleted /\ owner = actor[r] /\ target[r] # actor[r] /\ target[r] \in active
       THEN Proceed(r, "write")
       ELSE Refuse(r)

(* Mutant: the previous owner keeps its role.                              *)
HandedOverKept(r) == [role EXCEPT ![target[r]] = "OWNER"]

(* Roles after a transfer: nobody but the new owner is an OWNER.           *)
HandedOver(r) ==
  [u \in Users |-> IF u = target[r] THEN "OWNER"
                   ELSE IF u = actor[r] \/ role[u] = "OWNER" THEN "ADMIN" ELSE role[u]]

(* Mutant: the transaction trusts the owner and the deletion read before.  *)
StillOwnedTrusted(r) == {actor[r], target[r]} \subseteq active

(* Mutant: the transaction trusts the membership read before.              *)
StillActiveTrusted(r) == owner = actor[r] /\ ~deleted /\ actor[r] \in active

(* What the transaction finds, or else rolls back.                         *)
StillOwned(r) == owner = actor[r] /\ ~deleted /\ {actor[r], target[r]} \subseteq active

(* Requests that have looked at u and change its row next.                 *)
AboutToChange(u) ==
  {q \in Requests : pc[q] = "write" /\ op[q] \in {"setRole", "remove", "accept"} /\ target[q] = u}

TransferOwnership(r) ==
  /\ At(r, "transfer", "write")
  /\ IF StillOwned(r)
       THEN /\ owner' = target[r]
            /\ overtaken' = AboutToChange(target[r])
            /\ role' = HandedOver(r)
            /\ Goto(r, "granted")
            /\ UNCHANGED <<deleted, active, letters, request, intime>>
       ELSE Refuse(r)

-----------------------------------------------------------------------------
(* Invitations.                                                            *)

Lapse(i) ==
  /\ invite[i] # "absent" /\ i \notin lapsed
  /\ lapsed' = lapsed \union {i}
  /\ UNCHANGED <<org, members, invite, joins, pc, request, intime>>

Pending(u) == \E i \in Invitations : invite[i] = "PENDING" /\ Invitee[i] = u

(* inviteMember: member, pending invitation, organization, seats, insert.  *)
InviteChecks(r) ==
  \/ /\ At(r, "invite", "find")
     /\ IF target[r] \in active THEN Refuse(r) ELSE Proceed(r, "pending")
  \/ /\ At(r, "invite", "pending")
     /\ IF Pending(target[r]) THEN Refuse(r) ELSE Proceed(r, "living")

(* Also of acceptInvitation: the organization, then its seats.             *)
OrgChecks(r) ==
  \/ /\ pc[r] = "living" /\ op[r] \in {"invite", "accept"}
     /\ IF deleted THEN Refuse(r) ELSE Proceed(r, "seats")
  \/ /\ pc[r] = "seats" /\ op[r] \in {"invite", "accept"}
     /\ IF Cardinality(active) >= MaxMembers THEN Refuse(r)
        ELSE Proceed(r, IF op[r] = "invite" THEN "write" ELSE "member")

CreateInvitation(r) ==
  /\ At(r, "invite", "write")
  /\ invite' = [invite EXCEPT ![letter[r]] = "PENDING"]
  /\ Goto(r, "granted")
  /\ UNCHANGED <<org, members, lapsed, joins, request, intime>>

(* revokeInvitation looks at the status and then sets it, whatever it is.  *)
FindInvitation(r) ==
  /\ At(r, "revoke", "find")
  /\ IF invite[letter[r]] = "PENDING" THEN Proceed(r, "write") ELSE Refuse(r)

RevokeInvitation(r) ==
  /\ At(r, "revoke", "write")
  /\ invite' = [invite EXCEPT ![letter[r]] = "REVOKED"]
  /\ Goto(r, "granted")
  /\ UNCHANGED <<org, members, lapsed, joins, request, intime>>

(* The person an invitation was mailed to presents it, perhaps twice.      *)
AcceptRead(r, i) ==
  /\ invite[i] # "absent"
  /\ Ask(r, Invitee[i], "accept", Invitee[i], i)
  /\ Goto(r, IF invite[i] # "PENDING" THEN "refused"
             ELSE IF i \in lapsed THEN "expire" ELSE "living")

(* Like a revocation, this sets the status whatever it is by now.          *)
ExpireInvitation(r) ==
  /\ At(r, "accept", "expire")
  /\ invite' = [invite EXCEPT ![letter[r]] = "EXPIRED"]
  /\ Goto(r, "refused")
  /\ UNCHANGED <<org, members, lapsed, joins, request, intime>>

(* The last check; acceptedAt is taken after it and before the claim.      *)
AcceptMember(r) ==
  /\ At(r, "accept", "member")
  /\ IF target[r] \in active
       THEN Goto(r, "refused") /\ UNCHANGED intime
       ELSE Goto(r, "write") /\ intime' = [intime EXCEPT ![r] = letter[r] \notin lapsed]
  /\ UNCHANGED <<org, members, letters, request>>

(* Mutant: the claim does not ask for the status again.                    *)
ClaimableAgain(r) == intime[r]

(* The claim of the transaction; when the invitation expires meanwhile,    *)
(* the moment acceptedAt was taken decides.                                *)
Claimable(r) == invite[letter[r]] = "PENDING" /\ intime[r]

(* The upsert of the membership.                                           *)
Enroll(u, ro) ==
  /\ role' = [role EXCEPT ![u] = ro]
  /\ active' = active \union {u}

AcceptInvitation(r) ==
  /\ At(r, "accept", "write")
  /\ \/ /\ Claimable(r)
        /\ invite' = [invite EXCEPT ![letter[r]] = "ACCEPTED"]
        /\ joins' = [joins EXCEPT ![letter[r]] = @ + 1]
        /\ Enroll(target[r], InviteRole[letter[r]])
        /\ Goto(r, "granted")
        /\ UNCHANGED <<org, lapsed, request, intime>>
     \/ /\ ~Claimable(r) \/ letter[r] \in lapsed
        /\ Refuse(r)

Advance(r) ==
  \/ FindMember(r) \/ RemoveMember(r) \/ FindOwner(r) \/ TransferOwnership(r)
  \/ InviteChecks(r) \/ OrgChecks(r) \/ CreateInvitation(r)
  \/ FindInvitation(r) \/ RevokeInvitation(r)
  \/ ExpireInvitation(r) \/ AcceptMember(r) \/ AcceptInvitation(r)
  \/ \E ro \in Assigned : UpdateMemberRole(r, ro)

Next ==
  \/ \E r \in Requests, u, t \in Users, o \in Operations : Authorize(r, u, o, t)
  \/ \E r \in Requests, u \in Users, o \in Operations, i \in Invitations :
       AuthorizeLetter(r, u, o, i)
  \/ \E r \in Requests, u \in Users : DeleteOrganization(r, u)
  \/ \E r \in Requests, i \in Invitations : AcceptRead(r, i)
  \/ \E i \in Invitations : Lapse(i)
  \/ \E r \in Requests : Advance(r)

Spec == Init /\ [][Next]_vars

-----------------------------------------------------------------------------
(* Properties that hold.                                                   *)

(* Whatever transfers, role changes, removals and acceptances interleave,  *)
(* nobody but the recorded owner has the role OWNER, not even in a row     *)
(* that is inactive and may be activated again.                            *)
OnlyOwnerRules == \A u \in Users : role[u] = "OWNER" => u = owner

(* An invitation lets one person in, once, also when it is presented twice *)
(* at the same time, revoked while it is accepted, or expires.             *)
AdmittedOnce == \A i \in Invitations : joins[i] <= 1

(* Whoever owns the organization is an active member with the role OWNER,  *)
(* however transfers, role changes, removals and acceptances interleave -  *)
(* unless a change of that member that was checked before the transfer has *)
(* been made after it (updateMemberRole, removeMember and the upsert of    *)
(* acceptInvitation change the row by its id).                             *)
OwnerKept ==
  \/ owner \in active /\ role[owner] = "OWNER"
  \/ \E q \in overtaken : pc[q] = "granted"

(* Of transfers that race, each one that is granted takes the organization *)
(* from its owner: they form one trail from the founder to the owner,      *)
(* which leaves everybody on it as often as it arrives.                    *)
Handed(by, u) == {r \in Requests : At(r, "transfer", "granted") /\ by[r] = u}

Succession ==
  \A u \in Users :
    Cardinality(Handed(actor, u)) + (IF u = owner THEN 1 ELSE 0)
      = Cardinality(Handed(target, u)) + (IF u = Founder THEN 1 ELSE 0)

-----------------------------------------------------------------------------
(* What the code says of itself and concurrent requests refute.            *)

(* "protects the owner from role changes and removal": whoever owns the    *)
(* organization is an active member with the role OWNER.                   *)
OwnerProtected == owner \in active /\ role[owner] = "OWNER"
=============================================================================
