------------------------------ MODULE MCLedger ------------------------------
(* Small instances of Ledger for TLC. *)
EXTENDS Ledger, TLC, FiniteSetsExt

\* One plan offer whose return is half the principal, on the next day.
OneOffer == {[days |-> 1, yield |-> 50]}

\* Offers an administrator may switch between while investments run.
TwoOffers == {[days |-> 1, yield |-> 50], [days |-> 2, yield |-> 100]}

\* Users, rows and requests are interchangeable.
Symmetric == Permutations(Users) \union Permutations(DepositIds)
             \union Permutations(InvestmentIds) \union Permutations(WithdrawalIds)
             \union Permutations(Requests)

\* Total is the usual sum.
ASSUME \A f \in [{"a", "b", "c"} -> 0 .. 2], S \in SUBSET {"a", "b", "c"} :
          Total(S, f) = MapThenSumSet(LAMBDA x : f[x], S)
=============================================================================
