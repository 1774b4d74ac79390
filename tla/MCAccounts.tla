----------------------------- MODULE MCAccounts -----------------------------
(* Instances of the accounts model for TLC.                                *)
EXTENDS Accounts, TLC

(* Two addresses with different names.                                     *)
OwnNames == [e \in Emails |-> e]

Symmetric ==
  Permutations(Users) \union Permutations(VerifyLinks) \union Permutations(Requests)
=============================================================================
