----------------------------- MODULE MCRecords -----------------------------
(* Small instances of Records for TLC. *)
EXTENDS Records, TLC

\* Ids of rows and of requests, and addresses, are interchangeable.
Symmetric == Permutations(Rows) \union Permutations(Requests)
             \union Permutations(Addresses)
=============================================================================
