----------------------------- MODULE MCAccounts -----------------------------
(***************************************************************************)
(* A small instance of Accounts: two users, addresses and Google subjects, *)
(* so that two requests can want the same one or different ones.           *)
(***************************************************************************)
EXTENDS Accounts, TLC

Symmetry == Permutations(Requests) \union Permutations(Users)
              \union Permutations(Emails) \union Permutations(Passwords)
              \union Permutations(Subjects) \union Permutations(Attempts)
=============================================================================
