-------------------------------- MODULE Money --------------------------------
(***************************************************************************)
(* Amounts of money are natural numbers of the smallest unit (one cent).   *)
(* The code computes them as JavaScript numbers and cuts them with         *)
(* toFixed(2) or a Decimal(18, 2) column; here a quotient is exact and     *)
(* rounds half up.                                                         *)
(***************************************************************************)
EXTENDS Naturals

Rounded(num, den) == (2 * num + den) \div (2 * den)

\* expectedReturnForPlan: yield is the average of the plan's two estimated
\* yields, in per cent.
ExpectedReturn(principal, terms) == Rounded(principal * terms.yield, 100)

\* dailyAccrualUsd of computeAccrualSnapshot.
DailyAccrual(return, days) == Rounded(return, days)
=============================================================================
