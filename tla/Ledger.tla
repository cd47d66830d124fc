------------------------------- MODULE Ledger -------------------------------
(***************************************************************************)
(* The money of the platform: deposits, investments, withdrawals and plans *)
(* (tables of apps/api/prisma/schema.prisma), and the request handlers     *)
(* that move it.                                                           *)
(*                                                                         *)
(* No balance is stored.  getUserBalance (lib/balances.ts) recomputes it   *)
(* with four independent queries, and three handlers compare an amount     *)
(* with it before they write: POST /investments, POST /withdrawals and     *)
(* PATCH /admin/withdrawals/:id/decision with status APPROVED.  Nothing    *)
(* locks a row between the queries and the write, in a transaction or out  *)
(* of one (PostgreSQL's default isolation is READ COMMITTED: every query   *)
(* sees what has committed when it runs), so such a handler is a sequence  *)
(* of steps here, one per query and one for the decision.  Every other     *)
(* handler is one transaction, hence one step.                             *)
(***************************************************************************)
EXTENDS Totals, Money

CONSTANTS
    Users,          \* accounts
    DepositIds,     \* rows of Deposit that may be created
    InvestmentIds,  \* rows of Investment
    WithdrawalIds,  \* rows of Withdrawal
    PlanIds,        \* rows of InvestmentPlan
    Requests,       \* balance-checking requests that may be in flight together
    Amounts,        \* amounts a caller may ask for, in the smallest unit
    PlanTerms,      \* [days, yield]: what an administrator may give a plan
    MaxDay,         \* bound on the clock
    None            \* no user, no plan, no terms

(***************************************************************************)
(* Amounts pass z.number().positive(); the plan limits and the supported   *)
(* assets of a plan are the choice of Amounts.  durationDays is a positive *)
(* integer, and yield is the average of the two estimated yields in per    *)
(* cent, nonnegative.                                                      *)
(***************************************************************************)
ASSUME LedgerAssumption ==
    /\ IsFiniteSet(DepositIds) /\ IsFiniteSet(InvestmentIds)
    /\ IsFiniteSet(WithdrawalIds)
    /\ Amounts \subseteq Nat \ {0}
    /\ PlanTerms \subseteq [days : Nat \ {0}, yield : Nat]
    /\ MaxDay \in Nat
    /\ None \notin Users /\ None \notin PlanTerms
    /\ None \notin PlanIds /\ None \notin WithdrawalIds

VARIABLES
    deposits,     \* DepositIds -> row
    investments,  \* InvestmentIds -> row
    withdrawals,  \* WithdrawalIds -> row
    plans,        \* PlanIds -> row
    deleting,     \* plans whose delete handler has passed its check
    requests,     \* Requests -> local state of the handler
    today,        \* the day, for maturity and accrual
    dirty         \* history: see Track

rows == <<deposits, investments, withdrawals, plans>>
vars == <<deposits, investments, withdrawals, plans, deleting, requests,
          today, dirty>>
-----------------------------------------------------------------------------
Aggregates == {"deposited", "active", "completed", "locked"}

\* A row that does not exist has status "none".
NoDeposit == [user |-> None, amount |-> 0, status |-> "none"]
NoWithdrawal == [user |-> None, amount |-> 0, status |-> "none"]
NoInvestment == [user |-> None, plan |-> None, principal |-> 0, return |-> 0,
                 start |-> 0, matures |-> 0, status |-> "none"]

DepositRow ==
    [user : Users \union {None}, amount : Nat,
     status : {"none", "PENDING", "CONFIRMED", "REJECTED"}]
WithdrawalRow ==
    [user : Users \union {None}, amount : Nat,
     status : {"none", "PENDING", "APPROVED", "REJECTED", "PAID"}]
InvestmentRow ==
    [user : Users \union {None}, plan : PlanIds \union {None},
     principal : Nat, return : Nat, start : Nat, matures : Nat,
     status : {"none", "ACTIVE", "COMPLETED"}]
PlanRow ==
    [state : {"unused", "active", "inactive", "deleted"},
     terms : PlanTerms \union {None}]

\* The local variables of a balance-checking handler: what it was asked,
\* which queries have answered, and with what.
Idle == [op |-> "none", user |-> None, amount |-> 0, target |-> None,
         terms |-> None, got |-> {}, snap |-> [q \in Aggregates |-> 0],
         profit |-> 0]
Request ==
    [op : {"none", "invest", "withdraw", "approve"},
     user : Users \union {None}, amount : Nat,
     target : PlanIds \union WithdrawalIds \union {None},
     terms : PlanTerms \union {None},
     got : SUBSET (Aggregates \union {"profit"}),
     snap : [Aggregates -> Nat], profit : Nat]

TypeOK ==
    /\ deposits \in [DepositIds -> DepositRow]
    /\ investments \in [InvestmentIds -> InvestmentRow]
    /\ withdrawals \in [WithdrawalIds -> WithdrawalRow]
    /\ plans \in [PlanIds -> PlanRow]
    /\ deleting \subseteq PlanIds
    /\ requests \in [Requests -> Request]
    /\ today \in 0 .. MaxDay
    /\ dirty \in [Requests -> BOOLEAN]
-----------------------------------------------------------------------------
(***************************************************************************)
(* getUserBalance: the four aggregates, one query each.                    *)
(***************************************************************************)
DepositedUsd(u) ==
    Total({d \in DepositIds : /\ deposits[d].user = u
                              /\ deposits[d].status \in {"CONFIRMED", "APPROVED"}},
          [d \in DepositIds |-> deposits[d].amount])

ActivePrincipalUsd(u) ==
    Total({i \in InvestmentIds : /\ investments[i].user = u
                                 /\ investments[i].status = "ACTIVE"},
          [i \in InvestmentIds |-> investments[i].principal])

CompletedReturnUsd(u) ==
    Total({i \in InvestmentIds : /\ investments[i].user = u
                                 /\ investments[i].status = "COMPLETED"},
          [i \in InvestmentIds |-> investments[i].return])

LockedUsdBug(u) ==
    Total({w \in WithdrawalIds : /\ withdrawals[w].user = u
                                 /\ withdrawals[w].status = "APPROVED"},
          [w \in WithdrawalIds |-> withdrawals[w].amount])
LockedUsd(u) ==
    Total({w \in WithdrawalIds : /\ withdrawals[w].user = u
                                 /\ withdrawals[w].status \in {"APPROVED", "PAID"}},
          [w \in WithdrawalIds |-> withdrawals[w].amount])

Query(q, u) ==
    CASE q = "deposited" -> DepositedUsd(u)
      [] q = "active"    -> ActivePrincipalUsd(u)
      [] q = "completed" -> CompletedReturnUsd(u)
      [] q = "locked"    -> LockedUsd(u)

Balance(u) == [q \in Aggregates |-> Query(q, u)]

\* availableUsd, before Math.max(0, _) and after it.
Unclamped(b) == b["deposited"] - b["active"] + b["completed"] - b["locked"]
AvailableUsd(b) == IF Unclamped(b) < 0 THEN 0 ELSE Unclamped(b)

(***************************************************************************)
(* The accrued interest of computeAccrualSnapshot at the current day.      *)
(***************************************************************************)
Accrued(i) ==
    LET inv == investments[i]
        days == plans[inv.plan].terms.days
        elapsed == IF today - inv.start < days THEN today - inv.start ELSE days
    IN  Rounded(inv.return * elapsed, days)

AccruedProfit(u) ==
    LET active == {i \in InvestmentIds : /\ investments[i].user = u
                                         /\ investments[i].status = "ACTIVE"}
    IN  Total(active, [i \in active |-> Accrued(i)])
-----------------------------------------------------------------------------
Init ==
    /\ deposits = [d \in DepositIds |-> NoDeposit]
    /\ investments = [i \in InvestmentIds |-> NoInvestment]
    /\ withdrawals = [w \in WithdrawalIds |-> NoWithdrawal]
    /\ plans = [p \in PlanIds |-> [state |-> "unused", terms |-> None]]
    /\ deleting = {}
    /\ requests = [r \in Requests |-> Idle]
    /\ today = 0
    /\ dirty = [r \in Requests |-> FALSE]

(***************************************************************************)
(* History, no part of the code: dirty[r] says that the user's balance has *)
(* changed under request r since the first of its queries answered.  A     *)
(* request that is clean when it decides ran as if it were alone.          *)
(***************************************************************************)
Reading(r) == requests[r].op # "none" /\ requests[r].got # {}
Track ==
    dirty' = [r \in Requests |->
                /\ Reading(r)
                /\ requests'[r].op # "none"
                /\ \/ dirty[r]
                   \/ \E u \in {requests[r].user}, q \in Aggregates :
                         Query(q, u)' # Query(q, u)]

\* A handler starts, or moves on, with its new local state.
Becomes(r, state) == requests' = [requests EXCEPT ![r] = state]

(***************************************************************************)
(* The process dies: Express 4 does not catch what an async handler        *)
(* throws, server.ts installs no unhandledRejection listener, and Node     *)
(* ends the process.  The database keeps what has committed; what every    *)
(* handler had read is lost.                                               *)
(***************************************************************************)
ProcessDies ==
    /\ requests' = [r \in Requests |-> Idle]
    /\ deleting' = {}

\* A restart: a deployment, or any other uncaught exception (a txHash that is
\* already recorded, a row that is gone).
Restart ==
    /\ \/ deleting # {}
       \/ \E r \in Requests : requests[r].op # "none"
    /\ ProcessDies
    /\ UNCHANGED <<rows, today>>
    /\ Track
-----------------------------------------------------------------------------
(***************************************************************************)
(* Deposits.                                                               *)
(***************************************************************************)
\* POST /payments/deposits/manual: the transaction that creates the row.
RequestDeposit(u, a) ==
    /\ \E d \in DepositIds :
          /\ deposits[d].status = "none"
          /\ deposits' = [deposits EXCEPT
                            ![d] = [user |-> u, amount |-> a, status |-> "PENDING"]]
    /\ UNCHANGED <<investments, withdrawals, plans, deleting, requests, today>>
    /\ Track

\* PATCH /admin/deposits/:id/decision: the update has no condition on the
\* status it replaces.
DecideDeposit(d, s) ==
    /\ deposits[d].status # "none"
    /\ deposits' = [deposits EXCEPT ![d].status = s]
    /\ UNCHANGED <<investments, withdrawals, plans, deleting, requests, today>>
    /\ Track
-----------------------------------------------------------------------------
(***************************************************************************)
(* Plans.                                                                  *)
(***************************************************************************)
Live(p) == plans[p].state \in {"active", "inactive"}

\* POST /admin/plans.
CreatePlan(p, s, t) ==
    /\ plans[p].state = "unused"
    /\ plans' = [plans EXCEPT ![p] = [state |-> s, terms |-> t]]
    /\ UNCHANGED <<deposits, investments, withdrawals, deleting, requests, today>>
    /\ Track

\* PATCH /admin/plans/:id: also while investments on the plan are running.
PatchPlan(p, s, t) ==
    /\ Live(p)
    /\ plans' = [plans EXCEPT ![p] = [state |-> s, terms |-> t]]
    /\ plans' # plans
    /\ UNCHANGED <<deposits, investments, withdrawals, deleting, requests, today>>
    /\ Track

\* DELETE /admin/plans/:id, up to its check: no investment of the plan is
\* ACTIVE in what the query before the transaction returned.
CheckPlanDelete(p) ==
    /\ Live(p)
    /\ p \notin deleting
    /\ \A i \in InvestmentIds :
          ~(investments[i].plan = p /\ investments[i].status = "ACTIVE")
    /\ deleting' = deleting \union {p}
    /\ UNCHANGED <<rows, requests, today>>
    /\ Track

\* Taking the investments that are still running as well.
DeletedWithPlanBug(p) == {i \in InvestmentIds : investments[i].plan = p}

\* DELETE /admin/plans/:id, its transaction: delete the plan's investments
\* that are not ACTIVE, then the plan.
DeletedWithPlan(p) ==
    {i \in InvestmentIds : investments[i].plan = p /\ investments[i].status # "ACTIVE"}

DeletePlan(p) ==
    /\ p \in deleting
    /\ Live(p)
    /\ investments' = [i \in InvestmentIds |->
                         IF i \in DeletedWithPlan(p) THEN NoInvestment
                                                     ELSE investments[i]]
    /\ \A i \in InvestmentIds : investments'[i].plan # p
    /\ plans' = [plans EXCEPT ![p] = [state |-> "deleted", terms |-> None]]
    /\ deleting' = deleting \ {p}
    /\ UNCHANGED <<deposits, withdrawals, requests, today>>
    /\ Track

\* The same transaction, rolled back: an investment made since the check
\* still refers to the plan (onDelete: Restrict), or the plan is gone.
DeletePlanFails(p) ==
    /\ p \in deleting
    /\ \/ ~Live(p)
       \/ \E i \in InvestmentIds :
             investments[i].plan = p /\ i \notin DeletedWithPlan(p)
    /\ ProcessDies
    /\ UNCHANGED <<rows, today>>
    /\ Track
-----------------------------------------------------------------------------
(***************************************************************************)
(* The balance-checking handlers: their first step and their queries.      *)
(***************************************************************************)
\* Bound of the model: a request that would create a row starts only while one
\* is left to create.
RowLeft(table) == \E x \in DOMAIN table : table[x].status = "none"

\* POST /investments, up to the transaction: the plan is read here and the
\* row is created from what it said.
BeginInvest(r, u, p, a) ==
    /\ requests[r].op = "none"
    /\ RowLeft(investments)
    /\ plans[p].state = "active"
    /\ Becomes(r, [Idle EXCEPT !.op = "invest", !.user = u, !.amount = a,
                               !.target = p, !.terms = plans[p].terms])
    /\ UNCHANGED <<rows, deleting, today>>
    /\ Track

\* POST /withdrawals, with a valid body.
BeginWithdraw(r, u, a) ==
    /\ requests[r].op = "none"
    /\ RowLeft(withdrawals)
    /\ Becomes(r, [Idle EXCEPT !.op = "withdraw", !.user = u, !.amount = a])
    /\ UNCHANGED <<rows, deleting, today>>
    /\ Track

\* PATCH /admin/withdrawals/:id/decision with APPROVED: findUniqueOrThrow.
BeginApprove(r, w) ==
    /\ requests[r].op = "none"
    /\ withdrawals[w].status # "none"
    /\ Becomes(r, [Idle EXCEPT !.op = "approve", !.user = withdrawals[w].user,
                               !.amount = withdrawals[w].amount, !.target = w])
    /\ UNCHANGED <<rows, deleting, today>>
    /\ Track

\* What the query for aggregate q returns to request r.
AnswerBug(r, q) ==
    Query(CASE q = "active" -> "completed" [] q = "completed" -> "active" [] OTHER -> q,
          requests[r].user)
Answer(r, q) == Query(q, requests[r].user)

\* One of the four queries of Promise.all answers, in any order.
ReadAggregate(r, q) ==
    /\ requests[r].op # "none"
    /\ q \notin requests[r].got
    /\ Becomes(r, [requests[r] EXCEPT !.got = @ \union {q},
                                      !.snap = [@ EXCEPT ![q] = Answer(r, q)]])
    /\ UNCHANGED <<rows, deleting, today>>
    /\ Track

\* POST /withdrawals then sums what the ACTIVE investments have accrued.
ReadProfit(r) ==
    /\ requests[r].op = "withdraw"
    /\ requests[r].got = Aggregates
    /\ Becomes(r, [requests[r] EXCEPT !.got = @ \union {"profit"},
                                      !.profit = AccruedProfit(requests[r].user)])
    /\ UNCHANGED <<rows, deleting, today>>
    /\ Track

Needed(r) == IF requests[r].op = "withdraw" THEN Aggregates \union {"profit"}
                                            ELSE Aggregates
Answered(r, op) == requests[r].op = op /\ requests[r].got = Needed(r)

\* The check: principalUsd > availableUsd and its two likes refuse.
Covered(r) ==
    requests[r].amount <= AvailableUsd(requests[r].snap) + requests[r].profit

\* Investment.planId references a row that exists when the insert runs.
PlanRowExistsBug(r) == TRUE
PlanRowExists(r) == Live(requests[r].target)
-----------------------------------------------------------------------------
(***************************************************************************)
(* Their decisions.                                                        *)
(***************************************************************************)
\* POST /investments, the rest of the transaction.  The insert needs the plan
\* row (foreign key), whatever has become of isActive and the terms.
CommitInvest(r) ==
    LET req == requests[r]
    IN  /\ Answered(r, "invest")
        /\ Covered(r)
        /\ PlanRowExists(r)
        /\ \E i \in InvestmentIds :
              /\ investments[i].status = "none"
              /\ investments' = [investments EXCEPT ![i] =
                    [user |-> req.user, plan |-> req.target,
                     principal |-> req.amount,
                     return |-> ExpectedReturn(req.amount, req.terms),
                     start |-> today, matures |-> today + req.terms.days,
                     status |-> "ACTIVE"]]
        /\ Becomes(r, Idle)
        /\ UNCHANGED <<deposits, withdrawals, plans, deleting, today>>
        /\ Track

\* The transaction throws, for want of money or of the plan, outside any try.
RefuseInvest(r) ==
    /\ Answered(r, "invest")
    /\ ~Covered(r) \/ ~PlanRowExists(r)
    /\ ProcessDies
    /\ UNCHANGED <<rows, today>>
    /\ Track

\* POST /withdrawals: a PENDING row.  Nothing is set aside for it: only
\* APPROVED and PAID withdrawals are in the balance.
CommitWithdraw(r) ==
    /\ Answered(r, "withdraw")
    /\ Covered(r)
    /\ \E w \in WithdrawalIds :
          /\ withdrawals[w].status = "none"
          /\ withdrawals' = [withdrawals EXCEPT ![w] =
                [user |-> requests[r].user, amount |-> requests[r].amount,
                 status |-> "PENDING"]]
    /\ Becomes(r, Idle)
    /\ UNCHANGED <<deposits, investments, plans, deleting, today>>
    /\ Track

\* PATCH /admin/withdrawals/:id/decision, APPROVED: the update does not look
\* at the status again, nor at the balance.
CommitApprove(r) ==
    /\ Answered(r, "approve")
    /\ Covered(r)
    /\ withdrawals' = [withdrawals EXCEPT ![requests[r].target].status = "APPROVED"]
    /\ Becomes(r, Idle)
    /\ UNCHANGED <<deposits, investments, plans, deleting, today>>
    /\ Track

\* The 400 answers of the two withdrawal handlers.
Refuse(r) ==
    /\ Answered(r, "withdraw") \/ Answered(r, "approve")
    /\ ~Covered(r)
    /\ Becomes(r, Idle)
    /\ UNCHANGED <<rows, deleting, today>>
    /\ Track
-----------------------------------------------------------------------------
(***************************************************************************)
(* The decisions on a withdrawal that check nothing, and time.             *)
(***************************************************************************)
\* PATCH /admin/withdrawals/:id/decision with REJECTED or PAID.
DecideWithdrawal(w, s) ==
    /\ withdrawals[w].status # "none"
    /\ withdrawals' = [withdrawals EXCEPT ![w].status = s]
    /\ UNCHANGED <<deposits, investments, plans, deleting, requests, today>>
    /\ Track

\* runDailyAccruals completes an investment that has matured.  Its other steps
\* leave these tables alone: module Accruals has them, and Maturity is what the
\* two have in common.
CompleteInvestmentBug(i) ==
    /\ investments[i].status = "ACTIVE"
    /\ investments' = [investments EXCEPT ![i].status = "COMPLETED"]
    /\ UNCHANGED <<deposits, withdrawals, plans, deleting, requests, today>>
    /\ Track
CompleteInvestment(i) ==
    /\ investments[i].status = "ACTIVE"
    /\ investments[i].matures <= today
    /\ investments' = [investments EXCEPT ![i].status = "COMPLETED"]
    /\ UNCHANGED <<deposits, withdrawals, plans, deleting, requests, today>>
    /\ Track

NextDay ==
    /\ today < MaxDay
    /\ today' = today + 1
    /\ UNCHANGED <<rows, deleting, requests>>
    /\ Track

Next ==
    \/ \E u \in Users, a \in Amounts : RequestDeposit(u, a)
    \/ \E d \in DepositIds, s \in {"CONFIRMED", "REJECTED"} : DecideDeposit(d, s)
    \/ \E p \in PlanIds, s \in {"active", "inactive"}, t \in PlanTerms :
          CreatePlan(p, s, t) \/ PatchPlan(p, s, t)
    \/ \E p \in PlanIds : CheckPlanDelete(p) \/ DeletePlan(p) \/ DeletePlanFails(p)
    \/ \E r \in Requests, u \in Users, a \in Amounts :
          BeginWithdraw(r, u, a) \/ \E p \in PlanIds : BeginInvest(r, u, p, a)
    \/ \E r \in Requests, w \in WithdrawalIds : BeginApprove(r, w)
    \/ \E r \in Requests, q \in Aggregates : ReadAggregate(r, q)
    \/ \E r \in Requests :
          \/ ReadProfit(r)
          \/ CommitInvest(r)
          \/ RefuseInvest(r)
          \/ CommitWithdraw(r)
          \/ CommitApprove(r)
          \/ Refuse(r)
    \/ \E w \in WithdrawalIds, s \in {"REJECTED", "PAID"} : DecideWithdrawal(w, s)
    \/ \E i \in InvestmentIds : CompleteInvestment(i)
    \/ NextDay
    \/ Restart

Spec == Init /\ [][Next]_vars
-----------------------------------------------------------------------------
(***************************************************************************)
(* Properties.  The balance is written out again here, from the rows, so   *)
(* that they do not depend on what getUserBalance adds up.                 *)
(***************************************************************************)
Amount(table, S) == Total(S, [x \in S |-> table[x].amount])

\* What the rows say user u has: credited deposits, minus money at work in
\* investments, plus earned returns, minus money promised or paid out.
Funds(u) ==
    LET mine == {i \in InvestmentIds : investments[i].user = u}
        working == {i \in mine : investments[i].status = "ACTIVE"}
        done == {i \in mine : investments[i].status = "COMPLETED"}
    IN  Amount(deposits, {d \in DepositIds : deposits[d].user = u
                                             /\ deposits[d].status = "CONFIRMED"})
        - Total(working, [i \in working |-> investments[i].principal])
        + Total(done, [i \in done |-> investments[i].return])
        - Amount(withdrawals, {w \in WithdrawalIds :
                                 /\ withdrawals[w].user = u
                                 /\ withdrawals[w].status \in {"APPROVED", "PAID"}})

\* The four ways a step can take user u's funds below zero.
DirtyDecision(u) ==
    \E r \in Requests :
        /\ requests[r].user = u
        /\ requests[r].op \in {"invest", "approve"}
        /\ requests'[r].op = "none"
        /\ dirty[r]
DepositReversed(u) ==
    \E d \in DepositIds : /\ deposits[d].user = u
                          /\ deposits[d].status = "CONFIRMED"
                          /\ deposits'[d].status = "REJECTED"
ReturnDeleted(u) ==
    \E i \in InvestmentIds : /\ investments[i].user = u
                             /\ investments[i].status = "COMPLETED"
                             /\ investments'[i].status = "none"
PaidUnapproved(u) ==
    \E w \in WithdrawalIds : /\ withdrawals[w].user = u
                             /\ withdrawals[w].status \in {"PENDING", "REJECTED"}
                             /\ withdrawals'[w].status = "PAID"

OverdraftCause(u) ==
    DirtyDecision(u) \/ DepositReversed(u) \/ ReturnDeleted(u) \/ PaidUnapproved(u)

\* A user's funds go below zero only when a decision was taken on a balance
\* that changed while it was being read, when a credited deposit is rejected,
\* when a completed investment is deleted with its plan, or when a withdrawal
\* is paid without approval: no order of the other requests, torn reads,
\* crashes, maturities and plan edits overdraws an account.
OverdraftHasCause ==
    [][\A u \in Users : Funds(u) >= 0 /\ Funds(u)' < 0 => OverdraftCause(u)]_vars

\* A running investment is never lost: its row leaves ACTIVE only for
\* COMPLETED, although plans are deleted with their investments and the check
\* that none is ACTIVE is made before the transaction that deletes.
RunningInvestmentKept ==
    [][\A i \in InvestmentIds : investments[i].status = "ACTIVE"
          => investments'[i].status \in {"ACTIVE", "COMPLETED"}]_vars

\* Every investment belongs to a plan that exists: a request that read the plan
\* before it was deleted does not leave an orphan, which no later query that
\* includes the plan could read.
InvestmentHasPlan ==
    \A i \in InvestmentIds :
        investments[i].status # "none" =>
            investments[i].plan \in PlanIds /\ Live(investments[i].plan)

\* Investments keep the promise of module Maturity: the requests, the plans'
\* edits and the deletions around them never complete one early, move its
\* maturity or start it again.
Promise == INSTANCE Maturity WITH
    Investments <- InvestmentIds,
    status <- [i \in InvestmentIds |-> investments[i].status],
    matures <- [i \in InvestmentIds |-> investments[i].matures],
    clock <- today
MaturityKept == Promise!Spec

\* What a clean request has read is what the user's balance is now, each of the
\* four queries, in whatever order they answered.
CleanSnapshot ==
    \A r \in Requests : requests[r].op # "none" /\ ~dirty[r] =>
        \A q \in requests[r].got \intersect Aggregates :
            requests[r].snap[q] = Query(q, requests[r].user)

\* What a handler holds is what it was begun with: an investment still has the
\* terms its plan had, an approval still speaks of its withdrawal's row.
RequestConsistent ==
    \A r \in Requests :
        /\ requests[r].op = "invest" =>
              requests[r].target \in PlanIds /\ requests[r].terms \in PlanTerms
        /\ requests[r].op = "approve" =>
              /\ requests[r].target \in WithdrawalIds
              /\ withdrawals[requests[r].target].user = requests[r].user
              /\ withdrawals[requests[r].target].amount = requests[r].amount
              /\ withdrawals[requests[r].target].status # "none"
        /\ requests[r].op # "withdraw" => requests[r].profit = 0

PlanHasTerms == \A p \in PlanIds : Live(p) => plans[p].terms \in PlanTerms
StartedInPast ==
    \A i \in InvestmentIds : investments[i].status # "none" => investments[i].start <= today

\* The inductive invariant: with it, every step explains its own overdraft.
IndInv ==
    /\ TypeOK
    /\ InvestmentHasPlan
    /\ PlanHasTerms
    /\ StartedInPast
    /\ RequestConsistent
    /\ CleanSnapshot
-----------------------------------------------------------------------------
(***************************************************************************)
(* What the texts of the repository say and the code does not do.          *)
(***************************************************************************)
\* "Before maturity: only accrued PROFIT is withdrawable": an approval that is
\* refused, with nothing concurrent, asks for more than balance and profit.
ProfitWithdrawable ==
    [][\A r \in Requests :
          (requests[r].op = "approve" /\ ~dirty[r] /\ Refuse(r))
          => requests[r].amount > AvailableUsd(Balance(requests[r].user))
                                  + AccruedProfit(requests[r].user)]_vars
=============================================================================
