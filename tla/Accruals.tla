------------------------------ MODULE Accruals ------------------------------
(***************************************************************************)
(* runDailyAccruals (apps/api/src/lib/accruals.ts): the job that pays the  *)
(* daily interest into table Accrual and completes the investments that    *)
(* have matured.  POST /admin/run-accruals runs it inside the API process, *)
(* scripts/daily-accrual.ts in one of its own; nothing keeps two runs      *)
(* apart, and each works from the list of ACTIVE investments it read when  *)
(* it began.  For every investment a run makes three separate round trips: *)
(* SELECT, INSERT, and the transaction that completes.                     *)
(***************************************************************************)
EXTENDS Money

CONSTANTS
    Investments,  \* rows of Investment
    Runs,         \* runs of the job that may be under way together
    Terms,        \* [days, return]: what an investment may be opened with
    Patches,      \* durationDays an administrator may give a plan later
    TicksPerDay,  \* instants told apart within a day
    MaxTime,      \* bound on the clock
    LastCrash,    \* bound: no process dies after it
    InsertWorks   \* FALSE: table Accrual is as the repository leaves it

(***************************************************************************)
(* InsertWorks.  No migration under prisma/migrations creates Accrual, and *)
(* where Prisma itself creates it, column id has no default in the         *)
(* database while accruals.ts:33 inserts without an id: every INSERT (or   *)
(* the SELECT before it) throws.  TRUE is a database repaired by hand.     *)
(***************************************************************************)
ASSUME AccrualsAssumption ==
    /\ Terms \subseteq [days : Nat \ {0}, return : Nat]
    /\ Patches \subseteq Nat \ {0}
    /\ TicksPerDay \in Nat \ {0}
    /\ MaxTime \in Nat /\ LastCrash \in Nat
    /\ InsertWorks \in BOOLEAN

VARIABLES
    investments,  \* Investments -> row
    accruals,     \* Investments -> day -> rows of Accrual for that day
    notices,      \* Investments -> day -> "Investment completed" sent by a
                  \*                       run of that day
    runs,         \* Runs -> local state of the job
    now           \* the time, in ticks

vars == <<investments, accruals, notices, runs, now>>

Day(t) == t \div TicksPerDay
Days == 0 .. MaxTime
-----------------------------------------------------------------------------
NoInvestment == [status |-> "none", return |-> 0, days |-> 1, matures |-> 0]

\* days is durationDays of the investment's plan, as it is now.
InvestmentRow ==
    [status : {"none", "ACTIVE", "COMPLETED", "gone"},
     return : Nat, days : Nat \ {0}, matures : Nat]

\* A run: its date, the investments still to do, those of them whose daily
\* accrual it computed as more than 0.00, and the one it is working on.
Held == {{}} \union {{i} : i \in Investments}
IdleRun == [pc |-> "idle", date |-> 0, todo |-> {}, paying |-> {}, at |-> {}]
Run == [pc : {"idle", "loop", "insert", "complete"}, date : 0 .. MaxTime,
        todo : SUBSET Investments, paying : SUBSET Investments,
        at : Held]

TypeOK ==
    /\ investments \in [Investments -> InvestmentRow]
    /\ accruals \in [Investments -> [Days -> Nat]]
    /\ notices \in [Investments -> [Days -> Nat]]
    /\ runs \in [Runs -> Run]
    /\ now \in 0 .. MaxTime

Init ==
    /\ investments = [i \in Investments |-> NoInvestment]
    /\ accruals = [i \in Investments |-> [d \in Days |-> 0]]
    /\ notices = [i \in Investments |-> [d \in Days |-> 0]]
    /\ runs = [r \in Runs |-> IdleRun]
    /\ now = 0
-----------------------------------------------------------------------------
(***************************************************************************)
(* The job.                                                                *)
(***************************************************************************)
\* The run takes the date, reads the ACTIVE investments with their plans, and
\* has from here on what computeAccrualSnapshot makes of them.
Start(r) ==
    LET active == {i \in Investments : investments[i].status = "ACTIVE"}
    IN  /\ runs[r].pc = "idle"
        /\ runs' = [runs EXCEPT ![r] =
              [pc |-> "loop", date |-> now, todo |-> active,
               paying |-> {i \in active :
                  DailyAccrual(investments[i].return, investments[i].days) > 0},
               at |-> {}]]
        /\ UNCHANGED <<investments, accruals, notices, now>>

\* The run is done with investment i and goes on with the next.
Pass(r, i) == runs' = [runs EXCEPT ![r].pc = "loop", ![r].at = {},
                                   ![r].todo = @ \ {i}]

\* One turn of the loop begins: no accrual for a daily amount of 0.00, none
\* where the SELECT finds a row of that day.
Examine(r, i) ==
    /\ runs[r].pc = "loop" /\ i \in runs[r].todo
    /\ IF i \in runs[r].paying /\ accruals[i][Day(runs[r].date)] = 0
         THEN runs' = [runs EXCEPT ![r].pc = "insert", ![r].at = {i}]
         ELSE Pass(r, i)
    /\ UNCHANGED <<investments, accruals, notices, now>>

\* What the database accepts: the investment is still there, and the unique
\* index on (investmentId, date) has no such row.
InsertableBug(i, d) == InsertWorks /\ investments[i].status # "gone"
Insertable(i, d) ==
    InsertWorks /\ investments[i].status # "gone" /\ accruals[i][d] = 0

\* maturesAt <= date
MaturedBug(i, date) == Day(investments[i].matures) = Day(date)
Matured(i, date) == investments[i].matures <= date

\* INSERT: on success the run goes on to complete what has matured.  What the
\* statement throws is caught, and the run goes on with the next investment.
Insert(r, i) ==
    LET d == Day(runs[r].date)
    IN  /\ runs[r].pc = "insert" /\ i \in runs[r].at
        /\ IF Insertable(i, d)
             THEN accruals' = [accruals EXCEPT ![i][d] = @ + 1]
             ELSE UNCHANGED accruals
        /\ IF Insertable(i, d) /\ Matured(i, runs[r].date)
             THEN runs' = [runs EXCEPT ![r].pc = "complete"]
             ELSE Pass(r, i)
        /\ UNCHANGED <<investments, notices, now>>

\* The transaction: status, audit log, notification.  It updates by id, also
\* when another run has completed the investment; it throws when the row is
\* gone, and that is caught.
Complete(r, i) ==
    /\ runs[r].pc = "complete" /\ i \in runs[r].at
    /\ IF investments[i].status # "gone"
         THEN /\ investments' = [investments EXCEPT ![i].status = "COMPLETED"]
              /\ notices' = [notices EXCEPT ![i][Day(runs[r].date)] = @ + 1]
         ELSE UNCHANGED <<investments, notices>>
    /\ Pass(r, i)
    /\ UNCHANGED <<accruals, now>>

\* The list is exhausted.
Finish(r) ==
    /\ runs[r].pc = "loop" /\ runs[r].todo = {}
    /\ runs' = [runs EXCEPT ![r] = IdleRun]
    /\ UNCHANGED <<investments, accruals, notices, now>>

\* The process of the run dies, between any two of its statements.
Crash(r) ==
    /\ runs[r].pc # "idle"
    /\ now <= LastCrash
    /\ runs' = [runs EXCEPT ![r] = IdleRun]
    /\ UNCHANGED <<investments, accruals, notices, now>>
-----------------------------------------------------------------------------
(***************************************************************************)
(* What happens to investments meanwhile.                                  *)
(***************************************************************************)
\* POST /investments.  Bound: it matures before the last day of the model.
Invest(i, t) ==
    LET matures == now + t.days * TicksPerDay
    IN  /\ investments[i].status = "none"
        /\ Day(matures) < Day(MaxTime)
        /\ investments' = [investments EXCEPT ![i] =
              [status |-> "ACTIVE", return |-> t.return, days |-> t.days,
               matures |-> matures]]
        /\ UNCHANGED <<accruals, notices, runs, now>>

\* PATCH /admin/plans/:id: durationDays changes, maturesAt of the investments
\* on the plan does not.
PatchPlan(i, days) ==
    /\ investments[i].status = "ACTIVE"
    /\ investments[i].days # days
    /\ investments' = [investments EXCEPT ![i].days = days]
    /\ UNCHANGED <<accruals, notices, runs, now>>

\* The row is deleted: with its user in any status, with its plan when it is
\* not ACTIVE.  Its accruals go with it (onDelete: Cascade).
Delete(i) ==
    /\ investments[i].status \in {"ACTIVE", "COMPLETED"}
    /\ investments' = [investments EXCEPT ![i].status = "gone"]
    /\ accruals' = [accruals EXCEPT ![i] = [d \in Days |-> 0]]
    /\ UNCHANGED <<notices, runs, now>>

Tick ==
    /\ now < MaxTime
    /\ now' = now + 1
    /\ UNCHANGED <<investments, accruals, notices, runs>>

Work(r) ==
    \/ \E i \in Investments : Examine(r, i) \/ Insert(r, i) \/ Complete(r, i)
    \/ Finish(r)

Next ==
    \/ \E r \in Runs : Start(r) \/ Work(r) \/ Crash(r)
    \/ \E i \in Investments :
          \/ \E t \in Terms : Invest(i, t)
          \/ \E days \in Patches : PatchPlan(i, days)
          \/ Delete(i)
    \/ Tick

Spec == Init /\ [][Next]_vars

\* A run that is under way goes on, as an event loop does; some run of the job
\* is started again and again, by a scheduler or by the administrator (the
\* repository has no schedule of its own: this is what it asks of operations);
\* time passes.
FairSpec ==
    /\ Spec
    /\ WF_vars(\E r \in Runs : Start(r))
    /\ \A r \in Runs : WF_vars(Work(r))
    /\ WF_vars(Tick)
-----------------------------------------------------------------------------
(***************************************************************************)
(* Properties.                                                             *)
(***************************************************************************)
\* On any one day an investment is paid one accrual and completed once, with
\* one audit entry and one notification, however many runs overlap and however
\* stale their lists are: completing does not look at the status it replaces.
OncePerDay ==
    \A i \in Investments, d \in Days : accruals[i][d] <= 1 /\ notices[i][d] <= 1

\* A completed investment has matured, and was paid an accrual on the day it
\* matured or later: none is completed by a run whose list, or whose date, is
\* of another time.
CompletedIsEarned ==
    \A i \in Investments :
        investments[i].status = "COMPLETED" =>
            /\ investments[i].matures <= now
            /\ \E d \in Days : d >= Day(investments[i].matures) /\ accruals[i][d] > 0

\* Two runs never hold the same investment of the same day for completion, and
\* what they hold has matured and has not been completed that day.
CompletionIsOwned ==
    \A r \in Runs : \A i \in runs[r].at : runs[r].pc = "complete" =>
        LET d == Day(runs[r].date)
        IN  /\ investments[i].matures <= runs[r].date
            /\ investments[i].status # "gone" => accruals[i][d] = 1
            /\ notices[i][d] = 0
            /\ \A s \in Runs \ {r} :
                  ~(runs[s].pc = "complete" /\ i \in runs[s].at
                    /\ Day(runs[s].date) = d)

\* A completion is on record: with the accrual of its day, while the row lives.
NoticeHasAccrual ==
    \A i \in Investments, d \in Days :
        notices[i][d] > 0 /\ investments[i].status # "gone" => accruals[i][d] = 1

\* A list names no row that was not there, and a run never has a later date.
RunsAreRecent ==
    \A r \in Runs :
        /\ runs[r].date <= now
        /\ \A i \in runs[r].todo \union runs[r].at : investments[i].status # "none"

IndInv ==
    /\ TypeOK
    /\ OncePerDay
    /\ CompletedIsEarned
    /\ CompletionIsOwned
    /\ NoticeHasAccrual
    /\ RunsAreRecent

\* The job keeps the promise of module Maturity: stale lists, overlapping runs
\* and crashes never complete an investment early, twice or for a while only.
Promise == INSTANCE Maturity WITH
    status <- [i \in Investments |->
                 IF investments[i].status = "gone" THEN "none" ELSE investments[i].status],
    matures <- [i \in Investments |-> investments[i].matures],
    clock <- now
MaturityKept == Promise!Spec

\* "After maturity: principal + profit are both withdrawable": an investment
\* that has matured is completed in the end, however runs overlap and crash,
\* unless what it earns in a day rounds to 0.00 (accruals.ts:24, :32, :37).
MaturedIsCompleted ==
    \A i \in Investments :
        (investments[i].status = "ACTIVE" /\ investments[i].matures <= now)
            ~> \/ investments[i].status # "ACTIVE"
               \/ DailyAccrual(investments[i].return, investments[i].days) = 0
=============================================================================
