----------------------------- MODULE MCAccounts -----------------------------
(* Small instances of Accounts for TLC. *)
EXTENDS Accounts, TLC

\* Ids of rows and of requests, and passwords, are interchangeable.
Symmetric == Permutations(Users) \union Permutations(Sessions)
             \union Permutations(Requests) \union Permutations(Passwords)
=============================================================================
