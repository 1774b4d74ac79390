-------------------------- MODULE MCOrganizations ---------------------------
(* Instances of the organization model for TLC.                            *)
EXTENDS Organizations, TLC

CONSTANTS ann, bob, cid, i1, i2

(* Two invitations of the same person.                                     *)
SamePerson == i1 :> cid @@ i2 :> cid

(* The invitations offer different roles.                                  *)
TheRoles == i1 :> "MEMBER" @@ i2 :> "ADMIN"

Symmetric == Permutations(Requests)
=============================================================================
