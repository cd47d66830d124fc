----------------------------- MODULE MCAccruals -----------------------------
(***************************************************************************)
(* Instances of Accruals for TLC.                                          *)
(***************************************************************************)
EXTENDS Accruals, TLC

\* Returns that pay at least one unit a day, and a plan without any.
SomeTerms == {[days |-> 1, return |-> 2], [days |-> 2, return |-> 2],
              [days |-> 1, return |-> 0]}
=============================================================================
