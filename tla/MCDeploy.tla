------------------------------ MODULE MCDeploy ------------------------------
(* Small instances of Deploy for TLC. *)
EXTENDS Deploy, TLC

\* Starts are interchangeable.
Symmetric == Permutations(Boots)
=============================================================================
