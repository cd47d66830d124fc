---------------------------- MODULE LedgerProofs ----------------------------
(***************************************************************************)
(* Proofs about Ledger: its inductive invariant, and that only the causes  *)
(* listed by OverdraftCause take an account below zero.                    *)
(***************************************************************************)
EXTENDS Ledger, TotalsTheorems

USE LedgerAssumption

\* Rounding of natural amounts (toFixed(2)) gives a natural amount.
LEMMA RoundedType ==
    ASSUME NEW num \in Nat, NEW den \in Nat \ {0}
    PROVE  Rounded(num, den) \in Nat
<1> DEFINE a == 2 * num + den
           b == 2 * den
<1>1. a \in Nat /\ b \in Nat /\ b > 0
  OBVIOUS
<1> HIDE DEF a, b
<1>2. a \div b \in Nat
  BY <1>1
<1> QED
  BY <1>2 DEF Rounded, a, b

\* expectedReturnForPlan is a natural amount whatever the plan offers.
LEMMA ExpectedReturnType ==
    ASSUME NEW principal \in Nat, NEW terms \in PlanTerms
    PROVE  ExpectedReturn(principal, terms) \in Nat
<1>1. principal * terms.yield \in Nat
  OBVIOUS
<1> QED
  BY <1>1, RoundedType DEF ExpectedReturn

\* The accrued profit that POST /withdrawals reads is a natural amount: every
\* ACTIVE investment has a plan, and it started on some earlier day.
LEMMA AccruedProfitType ==
    ASSUME TypeOK, InvestmentHasPlan, PlanHasTerms, StartedInPast, NEW u
    PROVE  AccruedProfit(u) \in Nat
<1> DEFINE active == {i \in InvestmentIds : /\ investments[i].user = u
                                            /\ investments[i].status = "ACTIVE"}
           accrued == [i \in active |-> Accrued(i)]
<1>1. ASSUME NEW i \in active
      PROVE  Accrued(i) \in Nat
  <2> DEFINE days == plans[investments[i].plan].terms.days
             gone == today - investments[i].start
             elapsed == IF gone < days THEN gone ELSE days
  <2>1. investments[i] \in InvestmentRow /\ investments[i].status # "none"
    BY DEF TypeOK
  <2>2. plans[investments[i].plan].terms \in PlanTerms
    BY <2>1 DEF InvestmentHasPlan, PlanHasTerms
  <2>3. days \in Nat \ {0}
    BY <2>2
  <2>4. investments[i].return \in Nat /\ gone \in Nat
    BY <2>1 DEF TypeOK, InvestmentRow, StartedInPast
  <2>5. elapsed \in Nat
    BY <2>3, <2>4
  <2> HIDE DEF days, gone, elapsed
  <2>6. investments[i].return * elapsed \in Nat
    BY <2>4, <2>5
  <2>7. Rounded(investments[i].return * elapsed, days) \in Nat
    BY <2>3, <2>6, RoundedType
  <2> QED
    BY <2>7 DEF Accrued, days, gone, elapsed
<1>2. IsFiniteSet(active)
  BY FS_Subset
<1>3. Total(active, accrued) \in Nat
  BY <1>1, <1>2, TotalType
<1> QED
  BY <1>3 DEF AccruedProfit

-----------------------------------------------------------------------------
\* Each of the four queries of getUserBalance returns a natural amount.
LEMMA QueryType ==
    ASSUME TypeOK, NEW q \in Aggregates, NEW u
    PROVE  Query(q, u) \in Nat
<1>1. DepositedUsd(u) \in Nat
  <2> DEFINE S == {d \in DepositIds : /\ deposits[d].user = u
                                      /\ deposits[d].status \in {"CONFIRMED", "APPROVED"}}
             f == [d \in DepositIds |-> deposits[d].amount]
  <2>1. IsFiniteSet(S)
    BY FS_Subset
  <2>2. \A d \in S : f[d] \in Nat
    BY DEF TypeOK, DepositRow
  <2>3. Total(S, f) \in Nat
    BY <2>1, <2>2, TotalType
  <2> QED
    BY <2>3 DEF DepositedUsd
<1>2. ActivePrincipalUsd(u) \in Nat
  <2> DEFINE S == {i \in InvestmentIds : /\ investments[i].user = u
                                         /\ investments[i].status = "ACTIVE"}
             f == [i \in InvestmentIds |-> investments[i].principal]
  <2>1. IsFiniteSet(S)
    BY FS_Subset
  <2>2. \A i \in S : f[i] \in Nat
    BY DEF TypeOK, InvestmentRow
  <2>3. Total(S, f) \in Nat
    BY <2>1, <2>2, TotalType
  <2> QED
    BY <2>3 DEF ActivePrincipalUsd
<1>3. CompletedReturnUsd(u) \in Nat
  <2> DEFINE S == {i \in InvestmentIds : /\ investments[i].user = u
                                         /\ investments[i].status = "COMPLETED"}
             f == [i \in InvestmentIds |-> investments[i].return]
  <2>1. IsFiniteSet(S)
    BY FS_Subset
  <2>2. \A i \in S : f[i] \in Nat
    BY DEF TypeOK, InvestmentRow
  <2>3. Total(S, f) \in Nat
    BY <2>1, <2>2, TotalType
  <2> QED
    BY <2>3 DEF CompletedReturnUsd
<1>4. LockedUsd(u) \in Nat
  <2> DEFINE S == {w \in WithdrawalIds : /\ withdrawals[w].user = u
                                         /\ withdrawals[w].status \in {"APPROVED", "PAID"}}
             f == [w \in WithdrawalIds |-> withdrawals[w].amount]
  <2>1. IsFiniteSet(S)
    BY FS_Subset
  <2>2. \A w \in S : f[w] \in Nat
    BY DEF TypeOK, WithdrawalRow
  <2>3. Total(S, f) \in Nat
    BY <2>1, <2>2, TotalType
  <2> QED
    BY <2>3 DEF LockedUsd
<1> QED
  BY <1>1, <1>2, <1>3, <1>4 DEF Query, Aggregates

\* The same, as a fact of every state.
LEMMA QueryTypes == TypeOK => \A q \in Aggregates : \A u : Query(q, u) \in Nat
BY QueryType

\* A step that leaves the three money tables alone leaves every query alone.
LEMMA SameQueries ==
    ASSUME UNCHANGED <<deposits, investments, withdrawals>>
    PROVE  \A u, q : Query(q, u)' = Query(q, u)
BY DEF Query, DepositedUsd, ActivePrincipalUsd, CompletedReturnUsd, LockedUsd

\* The history variable keeps its type.
LEMMA TrackType == Track => dirty' \in [Requests -> BOOLEAN]
BY DEF Track

\* A handler that has not started is in Request.
LEMMA IdleType == Idle \in Request
BY DEF Idle, Request, Aggregates
-----------------------------------------------------------------------------
\* The table a handler starts from or writes keeps its type: a step of any
\* handler of the routes leaves every row and every handler well formed.
LEMMA TypeStep == IndInv /\ [Next]_vars => TypeOK'
<1> SUFFICES ASSUME IndInv, [Next]_vars PROVE TypeOK'
  OBVIOUS
<1> USE DEF TypeOK
<1>0. TypeOK /\ Idle \in Request
  BY IdleType DEF IndInv
<1>1. ASSUME NEW u \in Users, NEW a \in Amounts, RequestDeposit(u, a)
      PROVE  TypeOK'
  <2>1. PICK d \in DepositIds : deposits' = [deposits EXCEPT
                                 ![d] = [user |-> u, amount |-> a, status |-> "PENDING"]]
    BY <1>1 DEF RequestDeposit
  <2>2. [user |-> u, amount |-> a, status |-> "PENDING"] \in DepositRow
    BY DEF DepositRow
  <2>3. deposits' \in [DepositIds -> DepositRow]
    BY <1>0, <2>1, <2>2
  <2> QED
    BY <1>0, <1>1, <2>3, TrackType DEF RequestDeposit
<1>2. ASSUME NEW d \in DepositIds, NEW s \in {"CONFIRMED", "REJECTED"}, DecideDeposit(d, s)
      PROVE  TypeOK'
  BY <1>0, <1>2, TrackType DEF DecideDeposit, DepositRow
<1>3. ASSUME NEW p \in PlanIds, NEW s \in {"active", "inactive"}, NEW t \in PlanTerms,
             CreatePlan(p, s, t) \/ PatchPlan(p, s, t)
      PROVE  TypeOK'
  BY <1>0, <1>3, TrackType DEF CreatePlan, PatchPlan, PlanRow
<1>4. ASSUME NEW p \in PlanIds, CheckPlanDelete(p)
      PROVE  TypeOK'
  BY <1>0, <1>4, TrackType DEF CheckPlanDelete, rows
<1>5. ASSUME NEW p \in PlanIds, DeletePlan(p)
      PROVE  TypeOK'
  <2>1. NoInvestment \in InvestmentRow
    BY DEF NoInvestment, InvestmentRow
  <2>2. investments' \in [InvestmentIds -> InvestmentRow]
    BY <1>0, <1>5, <2>1 DEF DeletePlan
  <2> QED
    BY <1>0, <1>5, <2>2, TrackType DEF DeletePlan, PlanRow
<1>6. ASSUME NEW p \in PlanIds, DeletePlanFails(p)
      PROVE  TypeOK'
  BY <1>0, <1>6, TrackType DEF DeletePlanFails, ProcessDies, rows
<1>7. ASSUME NEW r \in Requests, NEW u \in Users, NEW a \in Amounts, BeginWithdraw(r, u, a)
      PROVE  TypeOK'
  BY <1>0, <1>7, TrackType DEF BeginWithdraw, Becomes, rows, Request
<1>8. ASSUME NEW r \in Requests, NEW u \in Users, NEW a \in Amounts, NEW p \in PlanIds,
             BeginInvest(r, u, p, a)
      PROVE  TypeOK'
  <2>1. plans[p].terms \in PlanTerms \union {None}
    BY <1>0 DEF PlanRow
  <2> QED
    BY <1>0, <1>8, <2>1, TrackType DEF BeginInvest, Becomes, rows, Request
<1>9. ASSUME NEW r \in Requests, NEW w \in WithdrawalIds, BeginApprove(r, w)
      PROVE  TypeOK'
  <2>1. withdrawals[w].user \in Users \union {None} /\ withdrawals[w].amount \in Nat
    BY <1>0 DEF WithdrawalRow
  <2> QED
    BY <1>0, <1>9, <2>1, TrackType DEF BeginApprove, Becomes, rows, Request
<1>10. ASSUME NEW r \in Requests, NEW q \in Aggregates, ReadAggregate(r, q)
       PROVE  TypeOK'
  <2>1. Answer(r, q) \in Nat
    BY <1>0, QueryType DEF Answer
  <2> DEFINE next == [requests[r] EXCEPT !.got = @ \union {q},
                                         !.snap = [@ EXCEPT ![q] = Answer(r, q)]]
  <2>2. [requests[r].snap EXCEPT ![q] = Answer(r, q)] \in [Aggregates -> Nat]
    BY <1>0, <2>1 DEF Request
  <2>3. next \in Request
    BY <1>0, <2>2 DEF Request
  <2> QED
    BY <1>0, <1>10, <2>3, TrackType DEF ReadAggregate, Becomes, rows
<1>11. ASSUME NEW r \in Requests, ReadProfit(r)
       PROVE  TypeOK'
  <2>1. AccruedProfit(requests[r].user) \in Nat
    BY AccruedProfitType DEF IndInv
  <2>2. [requests[r] EXCEPT !.got = @ \union {"profit"},
                            !.profit = AccruedProfit(requests[r].user)] \in Request
    BY <1>0, <2>1 DEF Request
  <2> QED
    BY <1>0, <1>11, <2>2, TrackType DEF ReadProfit, Becomes, rows
<1>12. ASSUME NEW r \in Requests, CommitInvest(r)
       PROVE  TypeOK'
  <2>1. requests[r].target \in PlanIds /\ requests[r].terms \in PlanTerms
    BY <1>12 DEF IndInv, RequestConsistent, CommitInvest, Answered
  <2>2. requests[r] \in Request /\ requests[r].terms.days \in Nat
    BY <1>0, <2>1
  <2>3. ExpectedReturn(requests[r].amount, requests[r].terms) \in Nat
    BY <2>1, <2>2, ExpectedReturnType DEF Request
  <2> DEFINE row == [user |-> requests[r].user, plan |-> requests[r].target,
                     principal |-> requests[r].amount,
                     return |-> ExpectedReturn(requests[r].amount, requests[r].terms),
                     start |-> today, matures |-> today + requests[r].terms.days,
                     status |-> "ACTIVE"]
  <2>4. row \in InvestmentRow
    BY <1>0, <2>1, <2>2, <2>3 DEF InvestmentRow, Request
  <2>5. PICK i \in InvestmentIds : investments' = [investments EXCEPT ![i] = row]
    BY <1>12 DEF CommitInvest
  <2>6. investments' \in [InvestmentIds -> InvestmentRow]
    BY <1>0, <2>4, <2>5
  <2> QED
    BY <1>0, <1>12, <2>6, TrackType DEF CommitInvest, Becomes
<1>13. ASSUME NEW r \in Requests, RefuseInvest(r)
       PROVE  TypeOK'
  BY <1>0, <1>13, TrackType DEF RefuseInvest, ProcessDies, rows
<1>14. ASSUME NEW r \in Requests, CommitWithdraw(r)
       PROVE  TypeOK'
  <2> DEFINE row == [user |-> requests[r].user, amount |-> requests[r].amount,
                     status |-> "PENDING"]
  <2>1. row \in WithdrawalRow
    BY <1>0 DEF WithdrawalRow, Request
  <2>2. PICK w \in WithdrawalIds : withdrawals' = [withdrawals EXCEPT ![w] = row]
    BY <1>14 DEF CommitWithdraw
  <2>3. withdrawals' \in [WithdrawalIds -> WithdrawalRow]
    BY <1>0, <2>1, <2>2
  <2> QED
    BY <1>0, <1>14, <2>3, TrackType DEF CommitWithdraw, Becomes
<1>15. ASSUME NEW r \in Requests, CommitApprove(r)
       PROVE  TypeOK'
  <2>1. withdrawals' \in [WithdrawalIds -> WithdrawalRow]
    BY <1>0, <1>15 DEF CommitApprove, WithdrawalRow
  <2> QED
    BY <1>0, <1>15, <2>1, TrackType DEF CommitApprove, Becomes
<1>16. ASSUME NEW r \in Requests, Refuse(r)
       PROVE  TypeOK'
  BY <1>0, <1>16, TrackType DEF Refuse, Becomes, rows
<1>17. ASSUME NEW w \in WithdrawalIds, NEW s \in {"REJECTED", "PAID"}, DecideWithdrawal(w, s)
       PROVE  TypeOK'
  BY <1>0, <1>17, TrackType DEF DecideWithdrawal, WithdrawalRow
<1>18. ASSUME NEW i \in InvestmentIds, CompleteInvestment(i)
       PROVE  TypeOK'
  BY <1>0, <1>18, TrackType DEF CompleteInvestment, InvestmentRow
<1>19. CASE NextDay
  BY <1>0, <1>19, TrackType DEF NextDay, rows
<1>20. CASE Restart
  BY <1>0, <1>20, TrackType DEF Restart, ProcessDies, rows
<1>21. CASE UNCHANGED vars
  BY <1>0, <1>21 DEF vars
<1> QED
  BY <1>1, <1>2, <1>3, <1>4, <1>5, <1>6, <1>7, <1>8, <1>9, <1>10, <1>11, <1>12, <1>13,
     <1>14, <1>15, <1>16, <1>17, <1>18, <1>19, <1>20, <1>21 DEF Next

\* Every investment keeps its plan, and every plan its terms: the foreign key
\* that stops DELETE /admin/plans/:id from leaving an orphan, the plan row that
\* POST /investments needs, and the clock that only moves on.
LEMMA PlanStep ==
    IndInv /\ [Next]_vars => InvestmentHasPlan' /\ PlanHasTerms' /\ StartedInPast'
<1> DEFINE Goal == InvestmentHasPlan /\ PlanHasTerms /\ StartedInPast
<1> SUFFICES ASSUME IndInv, [Next]_vars PROVE Goal'
  OBVIOUS
<1>0. TypeOK /\ Goal /\ RequestConsistent
  BY DEF IndInv
<1>1. ASSUME UNCHANGED <<investments, plans, today>>
      PROVE  Goal'
  BY <1>0, <1>1 DEF InvestmentHasPlan, PlanHasTerms, StartedInPast, Live
<1>2. ASSUME NEW p \in PlanIds, NEW s \in {"active", "inactive"}, NEW t \in PlanTerms,
             CreatePlan(p, s, t) \/ PatchPlan(p, s, t)
      PROVE  Goal'
  BY <1>0, <1>2 DEF CreatePlan, PatchPlan, TypeOK, InvestmentHasPlan, PlanHasTerms,
                    StartedInPast, Live
<1>3. ASSUME NEW p \in PlanIds, DeletePlan(p)
      PROVE  Goal'
  <2>1. ASSUME NEW i \in InvestmentIds, investments'[i].status # "none"
        PROVE  investments'[i] = investments[i] /\ investments'[i].plan # p
    BY <1>0, <1>3, <2>1 DEF DeletePlan, TypeOK, NoInvestment
  <2>2. /\ plans' = [plans EXCEPT ![p] = [state |-> "deleted", terms |-> None]]
        /\ today' = today
    BY <1>3 DEF DeletePlan
  <2> QED
    BY <1>0, <2>1, <2>2 DEF TypeOK, InvestmentHasPlan, PlanHasTerms, StartedInPast, Live
<1>4. ASSUME NEW r \in Requests, CommitInvest(r)
      PROVE  Goal'
  <2>1. requests[r].target \in PlanIds /\ Live(requests[r].target)
    BY <1>0, <1>4 DEF CommitInvest, Answered, PlanRowExists, RequestConsistent
  <2>2. plans' = plans /\ today' = today /\ today \in Nat
    BY <1>0, <1>4 DEF CommitInvest, TypeOK
  <2>3. \A i \in InvestmentIds :
           \/ investments'[i] = investments[i]
           \/ investments'[i].plan = requests[r].target /\ investments'[i].start = today
    BY <1>0, <1>4 DEF CommitInvest, TypeOK
  <2> QED
    BY <1>0, <2>1, <2>2, <2>3 DEF InvestmentHasPlan, PlanHasTerms, StartedInPast, Live
<1>5. ASSUME NEW j \in InvestmentIds, CompleteInvestment(j)
      PROVE  Goal'
  <2>1. \A i \in InvestmentIds : /\ investments'[i].plan = investments[i].plan
                                 /\ investments'[i].start = investments[i].start
                                 /\ investments'[i].status # "none" =>
                                       investments[i].status # "none"
    BY <1>0, <1>5 DEF CompleteInvestment, TypeOK, InvestmentRow
  <2>2. plans' = plans /\ today' = today
    BY <1>5 DEF CompleteInvestment
  <2> QED
    BY <1>0, <2>1, <2>2 DEF InvestmentHasPlan, PlanHasTerms, StartedInPast, Live
<1>6. CASE NextDay
  <2>1. \A i \in InvestmentIds : investments[i].start \in Nat
    BY <1>0 DEF TypeOK, InvestmentRow
  <2> QED
    BY <1>0, <1>6, <2>1 DEF NextDay, rows, TypeOK, InvestmentHasPlan, PlanHasTerms,
                            StartedInPast, Live
<1>7. ASSUME NEW r \in Requests,
             \/ \E u \in Users, a \in Amounts :
                   BeginWithdraw(r, u, a) \/ \E p \in PlanIds : BeginInvest(r, u, p, a)
             \/ \E w \in WithdrawalIds : BeginApprove(r, w)
             \/ \E q \in Aggregates : ReadAggregate(r, q)
             \/ ReadProfit(r) \/ RefuseInvest(r) \/ CommitWithdraw(r) \/ CommitApprove(r)
             \/ Refuse(r)
      PROVE  Goal'
  <2>1. UNCHANGED <<investments, plans, today>>
    BY <1>7 DEF BeginWithdraw, BeginInvest, BeginApprove, ReadAggregate, ReadProfit,
                RefuseInvest, CommitWithdraw, CommitApprove, Refuse, rows
  <2> QED
    BY <1>1, <2>1
<1>8. ASSUME \/ \E u \in Users, a \in Amounts : RequestDeposit(u, a)
             \/ \E d \in DepositIds, s \in {"CONFIRMED", "REJECTED"} : DecideDeposit(d, s)
             \/ \E w \in WithdrawalIds, s \in {"REJECTED", "PAID"} : DecideWithdrawal(w, s)
             \/ \E p \in PlanIds : CheckPlanDelete(p) \/ DeletePlanFails(p)
             \/ Restart
             \/ UNCHANGED vars
      PROVE  Goal'
  <2>1. UNCHANGED <<investments, plans, today>>
    BY <1>8 DEF RequestDeposit, DecideDeposit, DecideWithdrawal, CheckPlanDelete,
                DeletePlanFails, Restart, rows, vars
  <2> QED
    BY <1>1, <2>1
<1> HIDE DEF Goal
<1> QED
  BY <1>2, <1>3, <1>4, <1>5, <1>6, <1>7, <1>8 DEF Next

\* A withdrawal's row is never removed, and its user and amount never change.
LEMMA WithdrawalKept ==
    ASSUME TypeOK, [Next]_vars, NEW w \in WithdrawalIds, withdrawals[w].status # "none"
    PROVE  /\ withdrawals'[w].user = withdrawals[w].user
           /\ withdrawals'[w].amount = withdrawals[w].amount
           /\ withdrawals'[w].status # "none"
<1>1. CASE withdrawals' = withdrawals
  BY <1>1
<1>2. ASSUME NEW r \in Requests, CommitWithdraw(r)
      PROVE  withdrawals'[w] = withdrawals[w]
  BY <1>2 DEF CommitWithdraw, TypeOK
<1>3. ASSUME NEW r \in Requests, CommitApprove(r)
      PROVE  /\ withdrawals'[w].user = withdrawals[w].user
             /\ withdrawals'[w].amount = withdrawals[w].amount
             /\ withdrawals'[w].status # "none"
  BY <1>3 DEF CommitApprove, TypeOK, WithdrawalRow
<1>4. ASSUME NEW v \in WithdrawalIds, NEW s \in {"REJECTED", "PAID"}, DecideWithdrawal(v, s)
      PROVE  /\ withdrawals'[w].user = withdrawals[w].user
             /\ withdrawals'[w].amount = withdrawals[w].amount
             /\ withdrawals'[w].status # "none"
  BY <1>4 DEF DecideWithdrawal, TypeOK, WithdrawalRow
<1> QED
  BY <1>1, <1>2, <1>3, <1>4
  DEF Next, RequestDeposit, DecideDeposit, CreatePlan, PatchPlan, CheckPlanDelete,
      DeletePlan, DeletePlanFails, BeginWithdraw, BeginInvest, BeginApprove,
      ReadAggregate, ReadProfit, CommitInvest, RefuseInvest, Refuse,
      CompleteInvestment, NextDay, Restart, rows, vars

\* What a handler holds stays true of the tables while other handlers run.
LEMMA RequestStep == IndInv /\ [Next]_vars => RequestConsistent'
<1> SUFFICES ASSUME IndInv, [Next]_vars PROVE RequestConsistent'
  OBVIOUS
<1> DEFINE
      Same(x, r) == /\ x.op = requests[r].op /\ x.user = requests[r].user
                    /\ x.amount = requests[r].amount /\ x.target = requests[r].target
                    /\ x.terms = requests[r].terms
                    /\ x.profit = requests[r].profit \/ x.op = "withdraw"
      Consistent(x) ==
          /\ x.op = "invest" => x.target \in PlanIds /\ x.terms \in PlanTerms
          /\ x.op = "approve" =>
                /\ x.target \in WithdrawalIds
                /\ withdrawals[x.target].user = x.user
                /\ withdrawals[x.target].amount = x.amount
                /\ withdrawals[x.target].status # "none"
          /\ x.op # "withdraw" => x.profit = 0
<1>0. TypeOK /\ PlanHasTerms /\ \A r \in Requests : Consistent(requests[r])
  BY DEF IndInv, RequestConsistent
<1>1. ASSUME NEW r \in Requests, NEW x, x.op = "none" \/ Same(x, r), x.op = "none" => x.profit = 0
      PROVE  Consistent(x)'
  <2>1. Consistent(requests[r])
    BY <1>0
  <2> QED
    BY <1>0, <1>1, <2>1, WithdrawalKept
<1>2. Idle.op = "none" /\ Idle.profit = 0
  BY DEF Idle
<1>3. ASSUME requests' = requests PROVE \A r \in Requests : Consistent(requests[r])'
  BY <1>0, <1>3, WithdrawalKept
<1>4. ASSUME requests' = [r \in Requests |-> Idle]
      PROVE  \A r \in Requests : Consistent(requests[r])'
  BY <1>4, <1>2
<1>5. ASSUME NEW r \in Requests, NEW x, Becomes(r, x), Consistent(x)'
      PROVE  \A y \in Requests : Consistent(requests[y])'
  <2>1. ASSUME NEW y \in Requests, y # r PROVE requests'[y] = requests[y]
    BY <1>0, <1>5, <2>1 DEF Becomes, TypeOK
  <2>2. requests'[r] = x
    BY <1>0, <1>5 DEF Becomes, TypeOK
  <2>3. ASSUME NEW y \in Requests, y # r PROVE Consistent(requests[y])'
    BY <1>0, <2>1, <2>3, WithdrawalKept
  <2> QED
    BY <1>5, <2>2, <2>3
<1>6. ASSUME NEW r \in Requests, Becomes(r, Idle)
      PROVE  \A y \in Requests : Consistent(requests[y])'
  BY <1>6, <1>5, <1>2
<1>7. ASSUME NEW r \in Requests, NEW u \in Users, NEW a \in Amounts, BeginWithdraw(r, u, a)
      PROVE  \A y \in Requests : Consistent(requests[y])'
  <2> DEFINE x == [Idle EXCEPT !.op = "withdraw", !.user = u, !.amount = a]
  <2>1. x.op = "withdraw"
    BY DEF Idle
  <2> HIDE DEF x
  <2>2. Becomes(r, x)
    BY <1>7 DEF BeginWithdraw, x
  <2> QED
    BY <2>1, <2>2, <1>5
<1>8. ASSUME NEW r \in Requests, NEW u \in Users, NEW a \in Amounts, NEW p \in PlanIds,
             BeginInvest(r, u, p, a)
      PROVE  \A y \in Requests : Consistent(requests[y])'
  <2> DEFINE x == [Idle EXCEPT !.op = "invest", !.user = u, !.amount = a,
                               !.target = p, !.terms = plans[p].terms]
  <2>1. x.op = "invest" /\ x.target = p /\ x.terms = plans[p].terms /\ x.profit = 0
    BY DEF Idle
  <2>2. plans[p].terms \in PlanTerms
    BY <1>0, <1>8 DEF BeginInvest, PlanHasTerms, Live
  <2> HIDE DEF x
  <2>3. Becomes(r, x)
    BY <1>8 DEF BeginInvest, x
  <2> QED
    BY <2>1, <2>2, <2>3, <1>5
<1>9. ASSUME NEW r \in Requests, NEW w \in WithdrawalIds, BeginApprove(r, w)
      PROVE  \A y \in Requests : Consistent(requests[y])'
  <2> DEFINE x == [Idle EXCEPT !.op = "approve", !.user = withdrawals[w].user,
                               !.amount = withdrawals[w].amount, !.target = w]
  <2>1. /\ x.op = "approve" /\ x.target = w /\ x.profit = 0
        /\ x.user = withdrawals[w].user /\ x.amount = withdrawals[w].amount
    BY DEF Idle
  <2>2. withdrawals' = withdrawals /\ withdrawals[w].status # "none"
    BY <1>9 DEF BeginApprove, rows
  <2> HIDE DEF x
  <2>3. Becomes(r, x)
    BY <1>9 DEF BeginApprove, x
  <2> QED
    BY <2>1, <2>2, <2>3, <1>5
<1>10. ASSUME NEW r \in Requests, NEW q \in Aggregates, ReadAggregate(r, q)
       PROVE  \A y \in Requests : Consistent(requests[y])'
  <2>0. PICK x : x = [requests[r] EXCEPT !.got = @ \union {q},
                                      !.snap = [@ EXCEPT ![q] = Answer(r, q)]]
    OBVIOUS
  <2>1. Same(x, r) /\ x.op # "none"
    BY <1>0, <1>10, <2>0 DEF ReadAggregate, TypeOK, Request
  <2>2. Becomes(r, x)
    BY <1>10, <2>0 DEF ReadAggregate
  <2>3. Consistent(x)'
    BY <2>1, <1>1
  <2> QED
    BY <2>2, <2>3, <1>5
<1>11. ASSUME NEW r \in Requests, ReadProfit(r)
       PROVE  \A y \in Requests : Consistent(requests[y])'
  <2>0. PICK x : x = [requests[r] EXCEPT !.got = @ \union {"profit"},
                                      !.profit = AccruedProfit(requests[r].user)]
    OBVIOUS
  <2>1. Same(x, r) /\ x.op # "none"
    BY <1>0, <1>11, <2>0 DEF ReadProfit, TypeOK, Request
  <2>2. Becomes(r, x)
    BY <1>11, <2>0 DEF ReadProfit
  <2>3. Consistent(x)'
    BY <2>1, <1>1
  <2> QED
    BY <2>2, <2>3, <1>5
<1>12. ASSUME NEW r \in Requests,
              \/ CommitInvest(r) \/ CommitWithdraw(r) \/ CommitApprove(r) \/ Refuse(r)
       PROVE  \A y \in Requests : Consistent(requests[y])'
  <2>1. Becomes(r, Idle)
    BY <1>12 DEF CommitInvest, CommitWithdraw, CommitApprove, Refuse
  <2> QED
    BY <2>1, <1>6
<1> HIDE DEF Same, Consistent
<1>13. \A r \in Requests : Consistent(requests[r])'
  <2>1. CASE Next
    <3>1. CASE requests' = requests
      BY <3>1, <1>3
    <3>2. CASE requests' = [r \in Requests |-> Idle]
      BY <3>2, <1>4
    <3> QED
      BY <2>1, <3>1, <3>2, <1>7, <1>8, <1>9, <1>10, <1>11, <1>12
      DEF Next, RequestDeposit, DecideDeposit, CreatePlan, PatchPlan, CheckPlanDelete,
          DeletePlan, DeletePlanFails, RefuseInvest, DecideWithdrawal,
          CompleteInvestment, NextDay, Restart, ProcessDies
  <2>2. CASE UNCHANGED vars
    BY <2>2, <1>3 DEF vars
  <2> QED
    BY <2>1, <2>2
<1> QED
  BY <1>13 DEF Consistent, RequestConsistent

\* What a step does to one handler: nothing, one more query answered, or a
\* start or an end, which hold no answer.
LEMMA HandlerMoves ==
    ASSUME TypeOK, Next, NEW r \in Requests
    PROVE  /\ Track
           /\ \/ requests'[r] = requests[r]
              \/ requests'[r].op = "none"
              \/ requests'[r].got = {}
              \/ ReadProfit(r)
              \/ \E q \in Aggregates : ReadAggregate(r, q)
<1> DEFINE Moves == \/ requests'[r] = requests[r]
                    \/ requests'[r].op = "none"
                    \/ requests'[r].got = {}
                    \/ ReadProfit(r)
                    \/ \E q \in Aggregates : ReadAggregate(r, q)
<1>1. ASSUME NEW y \in Requests, NEW x, Becomes(y, x)
      PROVE  requests'[r] = IF r = y THEN x ELSE requests[r]
  BY <1>1 DEF Becomes, TypeOK
<1>2. Idle.op = "none" /\ Idle.got = {}
  BY DEF Idle
<1>3. ASSUME requests' = requests \/ ProcessDies
      PROVE  Moves
  BY <1>2, <1>3 DEF ProcessDies
<1>4. ASSUME NEW y \in Requests, NEW u \in Users, NEW a \in Amounts,
             BeginWithdraw(y, u, a) \/ \E p \in PlanIds : BeginInvest(y, u, p, a)
      PROVE  Track /\ Moves
  <2>1. ASSUME NEW p \in PlanIds, BeginInvest(y, u, p, a)
        PROVE  Moves
    <3>1. PICK x : x = [Idle EXCEPT !.op = "invest", !.user = u, !.amount = a,
                                    !.target = p, !.terms = plans[p].terms]
      OBVIOUS
    <3>2. Becomes(y, x) /\ x.got = {}
      BY <2>1, <3>1 DEF BeginInvest, Idle
    <3> QED
      BY <3>2, <1>1
  <2>2. ASSUME BeginWithdraw(y, u, a)
        PROVE  Moves
    <3>1. PICK x : x = [Idle EXCEPT !.op = "withdraw", !.user = u, !.amount = a]
      OBVIOUS
    <3>2. Becomes(y, x) /\ x.got = {}
      BY <2>2, <3>1 DEF BeginWithdraw, Idle
    <3> QED
      BY <3>2, <1>1
  <2> QED
    BY <1>4, <2>1, <2>2 DEF BeginInvest, BeginWithdraw
<1>5. ASSUME NEW y \in Requests, NEW w \in WithdrawalIds, BeginApprove(y, w)
      PROVE  Track /\ Moves
  <2>1. PICK x : x = [Idle EXCEPT !.op = "approve", !.user = withdrawals[w].user,
                                  !.amount = withdrawals[w].amount, !.target = w]
    OBVIOUS
  <2>2. Becomes(y, x) /\ x.got = {}
    BY <1>5, <2>1 DEF BeginApprove, Idle
  <2> QED
    BY <1>5, <2>2, <1>1 DEF BeginApprove
<1>6. ASSUME NEW y \in Requests, NEW q \in Aggregates, ReadAggregate(y, q)
      PROVE  Track /\ Moves
  <2>1. CASE y = r
    BY <1>6, <2>1 DEF ReadAggregate
  <2>2. CASE y # r
    <3>1. requests'[r] = requests[r]
      BY <1>6, <2>2 DEF ReadAggregate, Becomes, TypeOK
    <3> QED
      BY <1>6, <3>1 DEF ReadAggregate
  <2> QED
    BY <2>1, <2>2
<1>7. ASSUME NEW y \in Requests, ReadProfit(y)
      PROVE  Track /\ Moves
  <2>1. CASE y = r
    BY <1>7, <2>1 DEF ReadProfit
  <2>2. CASE y # r
    <3>1. requests'[r] = requests[r]
      BY <1>7, <2>2 DEF ReadProfit, Becomes, TypeOK
    <3> QED
      BY <1>7, <3>1 DEF ReadProfit
  <2> QED
    BY <2>1, <2>2
<1>8. ASSUME NEW y \in Requests,
             \/ CommitInvest(y) \/ CommitWithdraw(y) \/ CommitApprove(y) \/ Refuse(y)
      PROVE  Track /\ Moves
  <2>1. Track /\ Becomes(y, Idle)
    BY <1>8 DEF CommitInvest, CommitWithdraw, CommitApprove, Refuse
  <2> QED
    BY <2>1, <1>1, <1>2
<1>9. ASSUME \/ \E u \in Users, a \in Amounts : RequestDeposit(u, a)
             \/ \E d \in DepositIds, s \in {"CONFIRMED", "REJECTED"} : DecideDeposit(d, s)
             \/ \E p \in PlanIds, s \in {"active", "inactive"}, t \in PlanTerms :
                   CreatePlan(p, s, t) \/ PatchPlan(p, s, t)
             \/ \E p \in PlanIds : CheckPlanDelete(p) \/ DeletePlan(p) \/ DeletePlanFails(p)
             \/ \E y \in Requests : RefuseInvest(y)
             \/ \E w \in WithdrawalIds, s \in {"REJECTED", "PAID"} : DecideWithdrawal(w, s)
             \/ \E i \in InvestmentIds : CompleteInvestment(i)
             \/ NextDay
             \/ Restart
      PROVE  Track /\ Moves
  <2>1. Track /\ (requests' = requests \/ ProcessDies)
    BY <1>9 DEF RequestDeposit, DecideDeposit, CreatePlan, PatchPlan, CheckPlanDelete,
                DeletePlan, DeletePlanFails, RefuseInvest, DecideWithdrawal,
                CompleteInvestment, NextDay, Restart
  <2> QED
    BY <2>1, <1>3
<1> HIDE DEF Moves
<1>10. Track /\ Moves
  BY <1>4, <1>5, <1>6, <1>7, <1>8, <1>9 DEF Next
<1> QED
  BY <1>10 DEF Moves

\* A request under which the user's balance has not changed since its first
\* query holds the balance of now, for every query that has answered.
LEMMA CleanStep == IndInv /\ [Next]_vars => CleanSnapshot'
<1> SUFFICES ASSUME IndInv, [Next]_vars,
                    NEW r \in Requests, requests'[r].op # "none", ~dirty'[r],
                    NEW q \in requests'[r].got \intersect Aggregates
             PROVE  requests'[r].snap[q] = Query(q, requests[r].user)'
  BY DEF CleanSnapshot
<1>0. TypeOK /\ CleanSnapshot
  BY DEF IndInv
<1>1. CASE UNCHANGED vars
  BY <1>0, <1>1, SameQueries DEF vars, CleanSnapshot
<1>2. CASE Next
  <2>1. Track
    BY <1>0, <1>2, HandlerMoves
  <2>2. PICK u : u = requests[r].user
    OBVIOUS
  <2>3. ASSUME requests[r].op # "none", requests[r].got # {}
        PROVE  /\ ~dirty[r]
               /\ \A g \in Aggregates : Query(g, u)' = Query(g, u)
    BY <2>1, <2>2, <2>3 DEF Track, Reading
  <2>4. CASE requests'[r] = requests[r]
    <3>1. requests[r].snap[q] = Query(q, u)
      BY <1>0, <2>2, <2>3, <2>4 DEF CleanSnapshot
    <3>2. Query(q, requests[r].user)' = Query(q, u)'
      BY <2>2, <2>4
    <3> QED
      BY <2>3, <2>4, <3>1, <3>2
  <2>5. ASSUME NEW g \in Aggregates, ReadAggregate(r, g)
        PROVE  requests'[r].snap[q] = Query(q, requests[r].user)'
    <3>1. /\ requests[r].op # "none"
          /\ requests'[r].user = requests[r].user
          /\ requests'[r].got = requests[r].got \union {g}
          /\ requests'[r].snap = [requests[r].snap EXCEPT ![g] = Answer(r, g)]
      BY <1>0, <2>5 DEF ReadAggregate, Becomes, TypeOK, Request
    <3>2. requests[r].snap \in [Aggregates -> Nat]
      BY <1>0 DEF TypeOK, Request
    <3>3. Query(q, u)' = Query(q, u)
      BY <2>5, SameQueries DEF ReadAggregate, rows
    <3>4. Query(q, requests[r].user)' = Query(q, u)'
      BY <2>2, <3>1
    <3>5. CASE q = g
      <4>1. requests'[r].snap[q] = Answer(r, g)
        BY <3>1, <3>2, <3>5
      <4> QED
        BY <2>2, <3>3, <3>4, <3>5, <4>1 DEF Answer
    <3>6. CASE q # g
      <4>1. q \in requests[r].got
        BY <3>1, <3>6
      <4>2. requests[r].snap[q] = Query(q, u)
        BY <1>0, <2>2, <2>3, <3>1, <4>1 DEF CleanSnapshot
      <4> QED
        BY <3>1, <3>2, <3>3, <3>4, <3>6, <4>2
    <3> QED
      BY <3>5, <3>6
  <2>6. CASE ReadProfit(r)
    <3>1. /\ requests[r].op # "none"
          /\ requests'[r].user = requests[r].user
          /\ requests[r].got = Aggregates
          /\ requests'[r].snap = requests[r].snap
      BY <1>0, <2>6 DEF ReadProfit, Becomes, TypeOK, Request
    <3>2. requests[r].snap[q] = Query(q, u)
      BY <1>0, <2>2, <2>3, <3>1 DEF CleanSnapshot
    <3>3. Query(q, u)' = Query(q, u)
      BY <2>6, SameQueries DEF ReadProfit, rows
    <3>4. Query(q, requests[r].user)' = Query(q, u)'
      BY <2>2, <3>1
    <3> QED
      BY <3>1, <3>2, <3>3, <3>4
  <2> QED
    BY <1>0, <1>2, <2>4, <2>5, <2>6, HandlerMoves
<1> QED
  BY <1>1, <1>2

-----------------------------------------------------------------------------
\* The tables start empty and every handler idle.
LEMMA InitInv == Init => IndInv
<1> SUFFICES ASSUME Init PROVE IndInv
  OBVIOUS
<1>1. TypeOK
  BY IdleType DEF Init, TypeOK, NoDeposit, NoInvestment, NoWithdrawal, DepositRow,
                  InvestmentRow, WithdrawalRow, PlanRow
<1>2. InvestmentHasPlan /\ StartedInPast
  BY DEF Init, InvestmentHasPlan, StartedInPast, NoInvestment
<1>3. PlanHasTerms
  BY DEF Init, PlanHasTerms, Live
<1>4. RequestConsistent /\ CleanSnapshot
  BY DEF Init, RequestConsistent, CleanSnapshot, Idle
<1> QED
  BY <1>1, <1>2, <1>3, <1>4 DEF IndInv

\* Every reachable state of the ledger is well formed, every investment has a
\* plan, and a request under which its user's balance has not changed holds the
\* current balance (getUserBalance), for any number of users, rows and requests.
THEOREM Invariant == Spec => []IndInv
<1>1. IndInv /\ [Next]_vars => IndInv'
  BY TypeStep, PlanStep, RequestStep, CleanStep DEF IndInv
<1> QED
  BY InitInv, <1>1, PTL DEF Spec

\* Rows, handlers and the clock keep their types.
THEOREM TypeCorrect == Spec => []TypeOK
<1>1. IndInv => TypeOK
  BY DEF IndInv
<1> QED
  BY Invariant, <1>1, PTL

\* No investment is ever left without its plan: DELETE /admin/plans/:id and
\* POST /investments may interleave in any way.
THEOREM NoOrphanInvestment == Spec => []InvestmentHasPlan
<1>1. IndInv => InvestmentHasPlan
  BY DEF IndInv
<1> QED
  BY Invariant, <1>1, PTL

-----------------------------------------------------------------------------
\* A step moves an investment from ACTIVE to COMPLETED or leaves it ACTIVE.
LEMMA RunningStep ==
    ASSUME TypeOK, [Next]_vars, NEW i \in InvestmentIds, investments[i].status = "ACTIVE"
    PROVE  investments'[i].status \in {"ACTIVE", "COMPLETED"}
<1>1. CASE investments' = investments
  BY <1>1
<1>2. ASSUME NEW p \in PlanIds, DeletePlan(p)
      PROVE  investments'[i] = investments[i]
  BY <1>2 DEF DeletePlan, DeletedWithPlan, TypeOK
<1>3. ASSUME NEW r \in Requests, CommitInvest(r)
      PROVE  investments'[i] = investments[i]
  BY <1>3 DEF CommitInvest, TypeOK
<1>4. ASSUME NEW j \in InvestmentIds, CompleteInvestment(j)
      PROVE  investments'[i].status \in {"ACTIVE", "COMPLETED"}
  BY <1>4 DEF CompleteInvestment, TypeOK, InvestmentRow
<1> QED
  BY <1>1, <1>2, <1>3, <1>4
  DEF Next, RequestDeposit, DecideDeposit, CreatePlan, PatchPlan, CheckPlanDelete,
      DeletePlanFails, BeginWithdraw, BeginInvest, BeginApprove, ReadAggregate,
      ReadProfit, CommitWithdraw, CommitApprove, RefuseInvest, Refuse,
      DecideWithdrawal, NextDay, Restart, rows, vars

\* DELETE /admin/plans/:id never loses an investment that is running, although
\* it checks for running investments before its transaction.
THEOREM RunningKept == Spec => RunningInvestmentKept
<1>1. IndInv /\ [Next]_vars =>
        \A i \in InvestmentIds : investments[i].status = "ACTIVE"
            => investments'[i].status \in {"ACTIVE", "COMPLETED"}
  BY RunningStep DEF IndInv
<1> QED
  BY Invariant, <1>1, PTL DEF Spec, RunningInvestmentKept
-----------------------------------------------------------------------------
\* Funds, written from the rows, is what getUserBalance adds up before it clamps.
LEMMA FundsIsBalance ==
    TypeOK => \A u : Funds(u) = Query("deposited", u) - Query("active", u)
                                + Query("completed", u) - Query("locked", u)
<1> SUFFICES ASSUME TypeOK, NEW u
             PROVE  Funds(u) = Query("deposited", u) - Query("active", u)
                               + Query("completed", u) - Query("locked", u)
  OBVIOUS
<1> DEFINE credited == {d \in DepositIds : deposits[d].user = u
                                           /\ deposits[d].status = "CONFIRMED"}
           mine == {i \in InvestmentIds : investments[i].user = u}
           working == {i \in mine : investments[i].status = "ACTIVE"}
           done == {i \in mine : investments[i].status = "COMPLETED"}
           held == {w \in WithdrawalIds : /\ withdrawals[w].user = u
                                          /\ withdrawals[w].status \in {"APPROVED", "PAID"}}
<1>1. Amount(deposits, credited) = DepositedUsd(u)
  <2> DEFINE S == {d \in DepositIds : /\ deposits[d].user = u
                                      /\ deposits[d].status \in {"CONFIRMED", "APPROVED"}}
             f == [x \in credited |-> deposits[x].amount]
             g == [d \in DepositIds |-> deposits[d].amount]
  <2>1. credited = S
    BY DEF TypeOK, DepositRow
  <2>2. \A d \in credited : f[d] = g[d]
    OBVIOUS
  <2> HIDE DEF f, g
  <2>3. Total(credited, f) = Total(credited, g)
    BY <2>2, TotalSame
  <2> QED
    BY <2>1, <2>3 DEF Amount, DepositedUsd, f, g
<1>2. Total(working, [i \in working |-> investments[i].principal]) = ActivePrincipalUsd(u)
  <2> DEFINE S == {i \in InvestmentIds : /\ investments[i].user = u
                                         /\ investments[i].status = "ACTIVE"}
             f == [i \in working |-> investments[i].principal]
             g == [i \in InvestmentIds |-> investments[i].principal]
  <2>1. working = S
    OBVIOUS
  <2>2. \A i \in working : f[i] = g[i]
    OBVIOUS
  <2> HIDE DEF f, g
  <2>3. Total(working, f) = Total(working, g)
    BY <2>2, TotalSame
  <2> QED
    BY <2>1, <2>3 DEF ActivePrincipalUsd, f, g
<1>3. Total(done, [i \in done |-> investments[i].return]) = CompletedReturnUsd(u)
  <2> DEFINE S == {i \in InvestmentIds : /\ investments[i].user = u
                                         /\ investments[i].status = "COMPLETED"}
             f == [i \in done |-> investments[i].return]
             g == [i \in InvestmentIds |-> investments[i].return]
  <2>1. done = S
    OBVIOUS
  <2>2. \A i \in done : f[i] = g[i]
    OBVIOUS
  <2> HIDE DEF f, g
  <2>3. Total(done, f) = Total(done, g)
    BY <2>2, TotalSame
  <2> QED
    BY <2>1, <2>3 DEF CompletedReturnUsd, f, g
<1>4. Amount(withdrawals, held) = LockedUsd(u)
  <2> DEFINE f == [x \in held |-> withdrawals[x].amount]
             g == [w \in WithdrawalIds |-> withdrawals[w].amount]
  <2>1. \A w \in held : f[w] = g[w]
    OBVIOUS
  <2>2. Total(held, f) = Total(held, g)
    BY <2>1, TotalSame
  <2> QED
    BY <2>2 DEF Amount, LockedUsd
<1>5. /\ Query("deposited", u) = DepositedUsd(u)
      /\ Query("active", u) = ActivePrincipalUsd(u)
      /\ Query("completed", u) = CompletedReturnUsd(u)
      /\ Query("locked", u) = LockedUsd(u)
  BY DEF Query
<1> HIDE DEF credited, working, done, held
<1>6. Funds(u) = Amount(deposits, credited)
                 - Total(working, [i \in working |-> investments[i].principal])
                 + Total(done, [i \in done |-> investments[i].return])
                 - Amount(withdrawals, held)
  BY DEF Funds, credited, working, done, held
<1> QED
  BY <1>1, <1>2, <1>3, <1>4, <1>5, <1>6

\* The credited deposits of a user that stay as they are still count.
LEMMA DepositedKept ==
    ASSUME TypeOK, TypeOK', NEW u,
           \A d \in DepositIds : deposits[d].user = u /\ deposits[d].status = "CONFIRMED"
              => /\ deposits'[d].user = u /\ deposits'[d].status = "CONFIRMED"
                 /\ deposits'[d].amount = deposits[d].amount
    PROVE  Query("deposited", u)' >= Query("deposited", u)
<1> DEFINE S == {d \in DepositIds : /\ deposits[d].user = u
                                    /\ deposits[d].status \in {"CONFIRMED", "APPROVED"}}
           f == [d \in DepositIds |-> deposits[d].amount]
<1>1. S \subseteq S'
  BY DEF TypeOK, DepositRow
<1>2. IsFiniteSet(S')
  BY FS_Subset
<1>3. (\A d \in S : f[d] = f'[d]) /\ (\A d \in S' : f'[d] \in Nat)
  BY DEF TypeOK, DepositRow
<1>4. DepositedUsd(u) = Total(S, f) /\ DepositedUsd(u)' = Total(S', f')
  BY DEF DepositedUsd
<1> HIDE DEF S, f
<1>5. Total(S, f) <= Total(S', f')
  BY <1>1, <1>2, <1>3, TotalGrows
<1> QED
  BY <1>4, <1>5 DEF Query

\* The completed investments of a user that stay as they are still count.
LEMMA CompletedKept ==
    ASSUME TypeOK, TypeOK', NEW u,
           \A i \in InvestmentIds :
              investments[i].user = u /\ investments[i].status = "COMPLETED"
              => /\ investments'[i].user = u /\ investments'[i].status = "COMPLETED"
                 /\ investments'[i].return = investments[i].return
    PROVE  Query("completed", u)' >= Query("completed", u)
<1> DEFINE S == {i \in InvestmentIds : /\ investments[i].user = u
                                       /\ investments[i].status = "COMPLETED"}
           f == [i \in InvestmentIds |-> investments[i].return]
<1>1. S \subseteq S'
  OBVIOUS
<1>2. IsFiniteSet(S')
  BY FS_Subset
<1>3. (\A i \in S : f[i] = f'[i]) /\ (\A i \in S' : f'[i] \in Nat)
  BY DEF TypeOK, InvestmentRow
<1>4. CompletedReturnUsd(u) = Total(S, f) /\ CompletedReturnUsd(u)' = Total(S', f')
  BY DEF CompletedReturnUsd
<1> HIDE DEF S, f
<1>5. Total(S, f) <= Total(S', f')
  BY <1>1, <1>2, <1>3, TotalGrows
<1> QED
  BY <1>4, <1>5 DEF Query

\* A user whose running investments were all running before has no more
\* principal at work.
LEMMA ActiveKept ==
    ASSUME TypeOK, TypeOK', NEW u,
           \A i \in InvestmentIds :
              investments'[i].user = u /\ investments'[i].status = "ACTIVE"
              => /\ investments[i].user = u /\ investments[i].status = "ACTIVE"
                 /\ investments'[i].principal = investments[i].principal
    PROVE  Query("active", u)' <= Query("active", u)
<1> DEFINE S == {i \in InvestmentIds : /\ investments[i].user = u
                                       /\ investments[i].status = "ACTIVE"}
           f == [i \in InvestmentIds |-> investments[i].principal]
<1>1. S' \subseteq S
  OBVIOUS
<1>2. IsFiniteSet(S)
  BY FS_Subset
<1>3. (\A i \in S' : f'[i] = f[i]) /\ (\A i \in S : f[i] \in Nat)
  BY DEF TypeOK, InvestmentRow
<1>4. ActivePrincipalUsd(u) = Total(S, f) /\ ActivePrincipalUsd(u)' = Total(S', f')
  BY DEF ActivePrincipalUsd
<1> HIDE DEF S, f
<1>5. Total(S', f') <= Total(S, f)
  BY <1>1, <1>2, <1>3, TotalGrows
<1> QED
  BY <1>4, <1>5 DEF Query

\* A user whose promised and paid withdrawals all were so before has no more
\* money locked.
LEMMA LockedKept ==
    ASSUME TypeOK, TypeOK', NEW u,
           \A w \in WithdrawalIds :
              withdrawals'[w].user = u /\ withdrawals'[w].status \in {"APPROVED", "PAID"}
              => /\ withdrawals[w].user = u /\ withdrawals[w].status \in {"APPROVED", "PAID"}
                 /\ withdrawals'[w].amount = withdrawals[w].amount
    PROVE  Query("locked", u)' <= Query("locked", u)
<1> DEFINE S == {w \in WithdrawalIds : /\ withdrawals[w].user = u
                                       /\ withdrawals[w].status \in {"APPROVED", "PAID"}}
           f == [w \in WithdrawalIds |-> withdrawals[w].amount]
<1>1. S' \subseteq S
  OBVIOUS
<1>2. IsFiniteSet(S)
  BY FS_Subset
<1>3. (\A w \in S' : f'[w] = f[w]) /\ (\A w \in S : f[w] \in Nat)
  BY DEF TypeOK, WithdrawalRow
<1>4. LockedUsd(u) = Total(S, f) /\ LockedUsd(u)' = Total(S', f')
  BY DEF LockedUsd
<1> HIDE DEF S, f
<1>5. Total(S', f') <= Total(S, f)
  BY <1>1, <1>2, <1>3, TotalGrows
<1> QED
  BY <1>4, <1>5 DEF Query

\* A new investment puts its principal to work, and nothing more.
LEMMA ActiveGains ==
    ASSUME TypeOK, TypeOK', NEW u, NEW j \in InvestmentIds,
           investments[j].status # "ACTIVE",
           investments'[j].user = u, investments'[j].status = "ACTIVE",
           \A i \in InvestmentIds \ {j} : investments'[i] = investments[i]
    PROVE  Query("active", u)' = Query("active", u) + investments'[j].principal
<1> DEFINE S == {i \in InvestmentIds : /\ investments[i].user = u
                                       /\ investments[i].status = "ACTIVE"}
           f == [i \in InvestmentIds |-> investments[i].principal]
<1>1. S' = S \union {j} /\ j \notin S
  OBVIOUS
<1>2. IsFiniteSet(S)
  BY FS_Subset
<1>3. (\A i \in S : f[i] = f'[i]) /\ (\A i \in S' : f'[i] \in Nat)
  BY DEF TypeOK, InvestmentRow
<1>4. ActivePrincipalUsd(u) = Total(S, f) /\ ActivePrincipalUsd(u)' = Total(S', f')
  BY DEF ActivePrincipalUsd
<1>5. f'[j] = investments'[j].principal
  OBVIOUS
<1> HIDE DEF S, f
<1>6. IsFiniteSet(S') /\ j \in S' /\ S = S' \ {j}
  BY <1>1, <1>2, FS_AddElement
<1>7. Total(S', f') = Total(S' \ {j}, f') + f'[j]
  BY <1>3, <1>6, TotalSplit
<1>8. Total(S, f) = Total(S, f')
  BY <1>3, TotalSame
<1> QED
  BY <1>4, <1>5, <1>6, <1>7, <1>8 DEF Query

\* An approval locks the amount of its withdrawal, unless it was locked already.
LEMMA LockedGains ==
    ASSUME TypeOK, TypeOK', NEW u, NEW v \in WithdrawalIds,
           withdrawals[v].status \notin {"APPROVED", "PAID"},
           withdrawals'[v].user = u, withdrawals'[v].status = "APPROVED",
           \A w \in WithdrawalIds \ {v} : withdrawals'[w] = withdrawals[w]
    PROVE  Query("locked", u)' = Query("locked", u) + withdrawals'[v].amount
<1> DEFINE S == {w \in WithdrawalIds : /\ withdrawals[w].user = u
                                       /\ withdrawals[w].status \in {"APPROVED", "PAID"}}
           f == [w \in WithdrawalIds |-> withdrawals[w].amount]
<1>1. S' = S \union {v} /\ v \notin S
  OBVIOUS
<1>2. IsFiniteSet(S)
  BY FS_Subset
<1>3. (\A w \in S : f[w] = f'[w]) /\ (\A w \in S' : f'[w] \in Nat)
  BY DEF TypeOK, WithdrawalRow
<1>4. LockedUsd(u) = Total(S, f) /\ LockedUsd(u)' = Total(S', f')
  BY DEF LockedUsd
<1>5. f'[v] = withdrawals'[v].amount
  OBVIOUS
<1> HIDE DEF S, f
<1>6. IsFiniteSet(S') /\ v \in S' /\ S = S' \ {v}
  BY <1>1, <1>2, FS_AddElement
<1>7. Total(S', f') = Total(S' \ {v}, f') + f'[v]
  BY <1>3, <1>6, TotalSplit
<1>8. Total(S, f) = Total(S, f')
  BY <1>3, TotalSame
<1> QED
  BY <1>4, <1>5, <1>6, <1>7, <1>8 DEF Query

\* A clean decision that passes its check asks for no more than the funds.
LEMMA CleanCheck ==
    ASSUME IndInv, NEW r \in Requests, NEW op \in {"invest", "approve"},
           Answered(r, op), Covered(r), ~dirty[r], NEW u, requests[r].user = u,
           Funds(u) >= 0
    PROVE  requests[r].amount <= Funds(u)
<1>1. TypeOK /\ CleanSnapshot /\ RequestConsistent
  BY DEF IndInv
<1>2. requests[r].op = op /\ requests[r].got = Aggregates /\ requests[r].profit = 0
  BY <1>1 DEF Answered, Needed, RequestConsistent
<1>3. \A q \in Aggregates : requests[r].snap[q] = Query(q, u)
  BY <1>1, <1>2 DEF CleanSnapshot
<1>4. Unclamped(requests[r].snap) = Funds(u)
  BY <1>1, <1>3, FundsIsBalance DEF Unclamped, Aggregates
<1>5. AvailableUsd(requests[r].snap) = Funds(u)
  <2>1. \A q \in Aggregates : Query(q, u) \in Nat
    BY <1>1, QueryType
  <2>2. Funds(u) \in Int
    BY <1>1, <2>1, FundsIsBalance DEF Aggregates
  <2> QED
    BY <1>4, <2>2 DEF AvailableUsd
<1>6. requests[r].amount \in Nat /\ Funds(u) \in Int
  <2>1. \A q \in Aggregates : Query(q, u) \in Nat
    BY <1>1, QueryType
  <2> QED
    BY <1>1, <2>1, FundsIsBalance DEF Aggregates, TypeOK, Request
<1> QED
  BY <1>2, <1>5, <1>6 DEF Covered

\* One step, one user: the funds stay covered unless a listed cause happened.
LEMMA OverdraftStep ==
    ASSUME IndInv, TypeOK', Next, NEW u \in Users, Funds(u) >= 0, ~OverdraftCause(u),
           NEW D \in Nat, NEW A \in Nat, NEW C \in Nat, NEW L \in Nat,
           NEW D1 \in Nat, NEW A1 \in Nat, NEW C1 \in Nat, NEW L1 \in Nat,
           D = Query("deposited", u), A = Query("active", u),
           C = Query("completed", u), L = Query("locked", u),
           D1 = Query("deposited", u)', A1 = Query("active", u)',
           C1 = Query("completed", u)', L1 = Query("locked", u)'
    PROVE  D1 - A1 + C1 - L1 >= 0
<1>0. TypeOK /\ RequestConsistent /\ Funds(u) = D - A + C - L
  BY FundsIsBalance DEF IndInv
<1> DEFINE Safe == D1 >= D /\ A1 <= A /\ C1 >= C /\ L1 <= L
<1>a. ASSUME Safe PROVE D1 - A1 + C1 - L1 >= 0
  BY <1>0, <1>a
<1>b. ASSUME deposits' = deposits PROVE D1 >= D
  BY <1>0, <1>b, DepositedKept
<1>c. ASSUME investments' = investments PROVE A1 <= A /\ C1 >= C
  BY <1>0, <1>c, ActiveKept, CompletedKept
<1>d. ASSUME withdrawals' = withdrawals PROVE L1 <= L
  BY <1>0, <1>d, LockedKept
<1>1. ASSUME NEW v \in Users, NEW a \in Amounts, RequestDeposit(v, a)
      PROVE  Safe
  <2>1. UNCHANGED <<investments, withdrawals>>
    BY <1>1 DEF RequestDeposit
  <2>2. \A d \in DepositIds : deposits[d].status = "CONFIRMED" => deposits'[d] = deposits[d]
    BY <1>0, <1>1 DEF RequestDeposit, TypeOK
  <2>3. D1 >= D
    BY <1>0, <2>2, DepositedKept
  <2> QED
    BY <2>1, <2>3, <1>c, <1>d
<1>2. ASSUME NEW d \in DepositIds, NEW s \in {"CONFIRMED", "REJECTED"}, DecideDeposit(d, s)
      PROVE  Safe
  <2>1. UNCHANGED <<investments, withdrawals>>
    BY <1>2 DEF DecideDeposit
  <2>2. deposits' = [deposits EXCEPT ![d].status = s]
    BY <1>2 DEF DecideDeposit
  <2>3. ASSUME NEW e \in DepositIds, deposits[e].user = u, deposits[e].status = "CONFIRMED"
        PROVE  /\ deposits'[e].user = u /\ deposits'[e].status = "CONFIRMED"
               /\ deposits'[e].amount = deposits[e].amount
    <3>1. deposits'[e].status # "REJECTED"
      BY <2>3 DEF OverdraftCause, DepositReversed
    <3> QED
      BY <1>0, <2>2, <2>3, <3>1 DEF TypeOK, DepositRow
  <2>4. D1 >= D
    BY <1>0, <2>3, DepositedKept
  <2> QED
    BY <2>1, <2>4, <1>c, <1>d
<1>3. ASSUME NEW p \in PlanIds, DeletePlan(p)
      PROVE  Safe
  <2>1. UNCHANGED <<deposits, withdrawals>>
    BY <1>3 DEF DeletePlan
  <2>2. \A i \in InvestmentIds :
           investments'[i] = investments[i] \/ investments'[i] = NoInvestment
    BY <1>0, <1>3 DEF DeletePlan, TypeOK
  <2>3. NoInvestment.status = "none"
    BY DEF NoInvestment
  <2>4. A1 <= A
    BY <1>0, <2>2, <2>3, ActiveKept
  <2>5. ASSUME NEW i \in InvestmentIds, investments[i].user = u,
               investments[i].status = "COMPLETED"
        PROVE  investments'[i] = investments[i]
    BY <2>2, <2>3, <2>5 DEF OverdraftCause, ReturnDeleted
  <2>6. C1 >= C
    BY <1>0, <2>5, CompletedKept
  <2> QED
    BY <2>1, <2>4, <2>6, <1>b, <1>d
<1>4. ASSUME NEW r \in Requests, CommitInvest(r)
      PROVE  D1 - A1 + C1 - L1 >= 0
  <2>1. UNCHANGED <<deposits, withdrawals>>
    BY <1>4 DEF CommitInvest
  <2>2. PICK j \in InvestmentIds :
           /\ investments[j].status = "none"
           /\ investments'[j].user = requests[r].user
           /\ investments'[j].principal = requests[r].amount
           /\ investments'[j].status = "ACTIVE"
           /\ \A i \in InvestmentIds \ {j} : investments'[i] = investments[i]
    BY <1>0, <1>4 DEF CommitInvest, TypeOK
  <2>3. C1 >= C
    BY <1>0, <2>2, CompletedKept
  <2>4. CASE requests[r].user = u
    <3>1. A1 = A + requests[r].amount
      BY <1>0, <2>2, <2>4, ActiveGains
    <3>2. ~dirty[r]
      <4>1. requests[r].op = "invest" /\ requests'[r].op = "none"
        BY <1>0, <1>4 DEF CommitInvest, Answered, Becomes, Idle, TypeOK
      <4> QED
        BY <2>4, <4>1 DEF OverdraftCause, DirtyDecision
    <3>3. requests[r].amount <= D - A + C - L
      BY <1>0, <1>4, <2>4, <3>2, CleanCheck DEF CommitInvest
    <3>4. requests[r].amount \in Nat
      BY <1>0 DEF TypeOK, Request
    <3>5. D1 >= D /\ L1 <= L
      BY <2>1, <1>b, <1>d
    <3> QED
      BY <2>3, <3>1, <3>3, <3>4, <3>5
  <2>5. CASE requests[r].user # u
    <3>1. A1 <= A
      BY <1>0, <2>2, <2>5, ActiveKept
    <3> QED
      BY <2>1, <2>3, <3>1, <1>a, <1>b, <1>d
  <2> QED
    BY <2>4, <2>5
<1>5. ASSUME NEW r \in Requests, CommitWithdraw(r)
      PROVE  Safe
  <2>1. UNCHANGED <<deposits, investments>>
    BY <1>5 DEF CommitWithdraw
  <2>2. \A w \in WithdrawalIds :
           withdrawals'[w] = withdrawals[w] \/ withdrawals'[w].status = "PENDING"
    BY <1>0, <1>5 DEF CommitWithdraw, TypeOK
  <2>3. L1 <= L
    BY <1>0, <2>2, LockedKept
  <2> QED
    BY <2>1, <2>3, <1>b, <1>c
<1>6. ASSUME NEW r \in Requests, CommitApprove(r)
      PROVE  D1 - A1 + C1 - L1 >= 0
  <2> DEFINE v == requests[r].target
  <2>1. UNCHANGED <<deposits, investments>>
    BY <1>6 DEF CommitApprove
  <2>2. /\ requests[r].target \in WithdrawalIds
        /\ withdrawals[v].user = requests[r].user
        /\ withdrawals[v].amount = requests[r].amount
    BY <1>0, <1>6 DEF CommitApprove, Answered, RequestConsistent
  <2>3. /\ withdrawals'[v].user = requests[r].user
        /\ withdrawals'[v].amount = requests[r].amount
        /\ withdrawals'[v].status = "APPROVED"
        /\ \A w \in WithdrawalIds \ {v} : withdrawals'[w] = withdrawals[w]
    BY <1>0, <1>6, <2>2 DEF CommitApprove, TypeOK, WithdrawalRow
  <2>4. CASE requests[r].user # u \/ withdrawals[v].status \in {"APPROVED", "PAID"}
    <3>1. L1 <= L
      BY <1>0, <2>2, <2>3, <2>4, LockedKept
    <3> QED
      BY <2>1, <3>1, <1>a, <1>b, <1>c
  <2>5. CASE requests[r].user = u /\ withdrawals[v].status \notin {"APPROVED", "PAID"}
    <3>1. L1 = L + requests[r].amount
      BY <1>0, <2>2, <2>3, <2>5, LockedGains
    <3>2. ~dirty[r]
      <4>1. requests[r].op = "approve" /\ requests'[r].op = "none"
        BY <1>0, <1>6 DEF CommitApprove, Answered, Becomes, Idle, TypeOK
      <4> QED
        BY <2>5, <4>1 DEF OverdraftCause, DirtyDecision
    <3>3. requests[r].amount <= D - A + C - L
      BY <1>0, <1>6, <2>5, <3>2, CleanCheck DEF CommitApprove
    <3>4. requests[r].amount \in Nat
      BY <1>0 DEF TypeOK, Request
    <3>5. D1 >= D /\ A1 <= A /\ C1 >= C
      BY <2>1, <1>b, <1>c
    <3> QED
      BY <3>1, <3>3, <3>4, <3>5
  <2> QED
    BY <2>4, <2>5
<1>7. ASSUME NEW v \in WithdrawalIds, NEW s \in {"REJECTED", "PAID"}, DecideWithdrawal(v, s)
      PROVE  Safe
  <2>1. UNCHANGED <<deposits, investments>>
    BY <1>7 DEF DecideWithdrawal
  <2>2. withdrawals' = [withdrawals EXCEPT ![v].status = s] /\ withdrawals[v].status # "none"
    BY <1>7 DEF DecideWithdrawal
  <2>3. ASSUME NEW w \in WithdrawalIds,
               withdrawals'[w].user = u, withdrawals'[w].status \in {"APPROVED", "PAID"}
        PROVE  /\ withdrawals[w].user = u /\ withdrawals[w].status \in {"APPROVED", "PAID"}
               /\ withdrawals'[w].amount = withdrawals[w].amount
    <3>1. /\ withdrawals[w].user = u
          /\ withdrawals'[w].amount = withdrawals[w].amount
          /\ \/ withdrawals'[w].status = withdrawals[w].status
             \/ w = v /\ withdrawals'[w].status = s
      BY <1>0, <2>2, <2>3 DEF TypeOK, WithdrawalRow
    <3>2. withdrawals[w].status \in {"PENDING", "REJECTED"} => withdrawals'[w].status # "PAID"
      BY <3>1 DEF OverdraftCause, PaidUnapproved
    <3>3. withdrawals[w].status \in {"none", "PENDING", "APPROVED", "REJECTED", "PAID"}
      BY <1>0 DEF TypeOK, WithdrawalRow
    <3> QED
      BY <2>2, <2>3, <3>1, <3>2, <3>3
  <2>4. L1 <= L
    BY <1>0, <2>3, LockedKept
  <2> QED
    BY <2>1, <2>4, <1>b, <1>c
<1>8. ASSUME NEW j \in InvestmentIds, CompleteInvestment(j)
      PROVE  Safe
  <2>1. UNCHANGED <<deposits, withdrawals>>
    BY <1>8 DEF CompleteInvestment
  <2>2. /\ \A i \in InvestmentIds \ {j} : investments'[i] = investments[i]
        /\ investments[j].status = "ACTIVE" /\ investments'[j].status = "COMPLETED"
    BY <1>0, <1>8 DEF CompleteInvestment, TypeOK, InvestmentRow
  <2>3. A1 <= A
    BY <1>0, <2>2, ActiveKept
  <2>4. C1 >= C
    BY <1>0, <2>2, CompletedKept
  <2> QED
    BY <2>1, <2>3, <2>4, <1>b, <1>d
<1>9. ASSUME UNCHANGED <<deposits, investments, withdrawals>>
      PROVE  Safe
  BY <1>9, <1>b, <1>c, <1>d
<1> HIDE DEF Safe
<1> QED
  BY <1>a, <1>1, <1>2, <1>3, <1>4, <1>5, <1>6, <1>7, <1>8, <1>9
  DEF Next, CreatePlan, PatchPlan, CheckPlanDelete, DeletePlanFails, BeginWithdraw,
      BeginInvest, BeginApprove, ReadAggregate, ReadProfit, RefuseInvest, Refuse,
      NextDay, Restart, rows

\* Only the listed causes overdraw an account: a decision on a balance that
\* changed while getUserBalance and its handler were at work, a credited deposit
\* rejected, a completed investment deleted with its plan, a withdrawal paid
\* without approval.  For any number of users, rows, requests and amounts.
THEOREM OverdraftOnlyByCause == Spec => OverdraftHasCause
<1>1. (TypeOK => \A u : Funds(u) = Query("deposited", u) - Query("active", u)
                                   + Query("completed", u) - Query("locked", u))'
  BY FundsIsBalance, PTL
<1>2. (TypeOK => \A q \in Aggregates : \A u : Query(q, u) \in Nat)'
  BY QueryTypes, PTL
<1>3. ASSUME IndInv, TypeOK', [Next]_vars, NEW u \in Users, Funds(u) >= 0, Funds(u)' < 0
      PROVE  OverdraftCause(u)
  <2>1. /\ Query("deposited", u) \in Nat /\ Query("active", u) \in Nat
        /\ Query("completed", u) \in Nat /\ Query("locked", u) \in Nat
    BY <1>3, QueryTypes DEF IndInv, Aggregates
  <2>2. /\ Query("deposited", u)' \in Nat /\ Query("active", u)' \in Nat
        /\ Query("completed", u)' \in Nat /\ Query("locked", u)' \in Nat
    BY <1>2, <1>3 DEF Aggregates
  <2>3. Funds(u)' = Query("deposited", u)' - Query("active", u)'
                    + Query("completed", u)' - Query("locked", u)'
    BY <1>1, <1>3
  <2>4. CASE UNCHANGED vars
    <3>1. Funds(u)' = Funds(u)
      BY <2>4 DEF vars, Funds, Amount
    <3>2. Funds(u) \in Int
      BY <1>3, <2>1, FundsIsBalance DEF IndInv
    <3> QED
      BY <1>3, <3>1, <3>2
  <2>5. CASE Next /\ ~OverdraftCause(u)
    <3>1. PICK D \in Nat, A \in Nat, C \in Nat, L \in Nat :
             /\ D = Query("deposited", u) /\ A = Query("active", u)
             /\ C = Query("completed", u) /\ L = Query("locked", u)
      BY <2>1
    <3>2. PICK D1 \in Nat, A1 \in Nat, C1 \in Nat, L1 \in Nat :
             /\ D1 = Query("deposited", u)' /\ A1 = Query("active", u)'
             /\ C1 = Query("completed", u)' /\ L1 = Query("locked", u)'
      BY <2>2
    <3>3. D1 - A1 + C1 - L1 >= 0
      BY <1>3, <2>5, <3>1, <3>2, OverdraftStep
    <3>4. Funds(u)' = D1 - A1 + C1 - L1
      BY <2>3, <3>2
    <3> QED
      BY <1>3, <3>3, <3>4
  <2> QED
    BY <1>3, <2>4, <2>5
<1>4. IndInv /\ IndInv' /\ [Next]_vars =>
        [\A u \in Users : Funds(u) >= 0 /\ Funds(u)' < 0 => OverdraftCause(u)]_vars
  BY <1>3 DEF IndInv
<1> QED
  BY Invariant, <1>4, PTL DEF Spec, OverdraftHasCause

\* Every step of Ledger is a step of Maturity or leaves its variables alone.
THEOREM KeepsPromise == Spec => MaturityKept
<1>1. ASSUME Init PROVE Promise!Init
  BY <1>1 DEF Init, NoInvestment, Promise!Init
<1> DEFINE st == [i \in InvestmentIds |-> investments[i].status]
           mt == [i \in InvestmentIds |-> investments[i].matures]
<1>2. ASSUME IndInv, [Next]_vars
      PROVE  Promise!Next \/ UNCHANGED <<st, mt, today>>
  <2>0. TypeOK /\ RequestConsistent /\ today \in Nat
    BY <1>2 DEF IndInv, TypeOK
  <2>1. CASE UNCHANGED <<investments, today>>
    BY <2>1
  <2>2. ASSUME NEW r \in Requests, CommitInvest(r)
        PROVE  Promise!Next
    <3>1. PICK i \in InvestmentIds :
             /\ investments[i].status = "none"
             /\ investments'[i].status = "ACTIVE"
             /\ investments'[i].matures = today + requests[r].terms.days
             /\ \A j \in InvestmentIds \ {i} : investments'[j] = investments[j]
      BY <2>0, <2>2 DEF CommitInvest, TypeOK
    <3>2. requests[r].terms.days \in Nat \ {0} /\ today' = today
      BY <2>0, <2>2 DEF CommitInvest, Answered, RequestConsistent
    <3>3. /\ st[i] = "none" /\ st' = [st EXCEPT ![i] = "ACTIVE"]
          /\ mt'[i] > today /\ mt' = [mt EXCEPT ![i] = mt'[i]]
      <4>1. today + requests[r].terms.days > today
        BY <2>0, <3>2
      <4>2. mt'[i] > today /\ \A j \in InvestmentIds \ {i} : mt'[j] = mt[j]
        BY <3>1, <4>1
      <4>3. mt' = [mt EXCEPT ![i] = mt'[i]]
        BY <4>2
      <4>4. st[i] = "none" /\ st' = [st EXCEPT ![i] = "ACTIVE"]
        BY <3>1
      <4> QED
        BY <4>2, <4>3, <4>4
    <3>4. Promise!Begin(i)
      BY <3>2, <3>3 DEF Promise!Begin
    <3> QED
      BY <3>4 DEF Promise!Next
  <2>3. ASSUME NEW i \in InvestmentIds, CompleteInvestment(i)
        PROVE  Promise!Next
    <3>1. /\ investments[i].status = "ACTIVE" /\ investments[i].matures <= today
          /\ investments' = [investments EXCEPT ![i].status = "COMPLETED"]
          /\ today' = today
      BY <2>3 DEF CompleteInvestment
    <3>2. st[i] = "ACTIVE" /\ st' = [st EXCEPT ![i] = "COMPLETED"] /\ mt' = mt
      BY <2>0, <3>1 DEF TypeOK, InvestmentRow
    <3>3. Promise!Complete(i)
      BY <3>1, <3>2 DEF Promise!Complete
    <3> QED
      BY <3>3 DEF Promise!Next
  <2>4. ASSUME NEW p \in PlanIds, DeletePlan(p)
        PROVE  Promise!Next
    <3>1. /\ today' = today
          /\ \A i \in InvestmentIds : \/ investments'[i] = investments[i]
                                      \/ investments'[i] = NoInvestment
      BY <2>0, <2>4 DEF DeletePlan, TypeOK
    <3>2. Promise!Remove
      BY <3>1 DEF Promise!Remove, NoInvestment
    <3> QED
      BY <3>2 DEF Promise!Next
  <2>5. CASE NextDay
    <3>1. today' \in Nat /\ today' > today /\ investments' = investments
      BY <2>0, <2>5 DEF NextDay, rows
    <3>2. Promise!Tick
      BY <3>1 DEF Promise!Tick
    <3> QED
      BY <3>2 DEF Promise!Next
  <2> HIDE DEF st, mt
  <2> QED
    BY <1>2, <2>1, <2>2, <2>3, <2>4, <2>5
    DEF Next, vars, rows, RequestDeposit, DecideDeposit, CreatePlan, PatchPlan,
        CheckPlanDelete, DeletePlanFails, BeginWithdraw, BeginInvest, BeginApprove,
        ReadAggregate, ReadProfit, RefuseInvest, CommitWithdraw, CommitApprove, Refuse,
        DecideWithdrawal, Restart
<1> QED
  BY <1>1, <1>2, Invariant, PTL DEF Spec, MaturityKept, Promise!Spec
=============================================================================
