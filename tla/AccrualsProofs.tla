--------------------------- MODULE AccrualsProofs ---------------------------
(***************************************************************************)
(* Theorems about the daily accruals: for any number of investments and    *)
(* of overlapping runs, whatever dies in between.                          *)
(***************************************************************************)
EXTENDS Accruals, TLAPS

USE AccrualsAssumption

\* The day of an instant of the model is a day of its tables.
LEMMA DayType == \A t \in 0 .. MaxTime : Day(t) \in Days
<1>1. ASSUME NEW t \in 0 .. MaxTime
      PROVE  t \div TicksPerDay \in 0 .. MaxTime
  BY <1>1
<1> QED
  BY <1>1 DEF Day, Days

\* Later instants are on the same day or a later one.
LEMMA DayMonotone == \A s \in Nat, t \in Nat : s <= t => Day(s) <= Day(t)
<1>1. ASSUME NEW s \in Nat, NEW t \in Nat, s <= t, NEW k \in Nat \ {0}
      PROVE  s \div k <= t \div k
  BY <1>1, Z3
<1> QED
  BY <1>1 DEF Day

\* A run holds no investment or one.
LEMMA HeldType ==
    /\ {} \in Held
    /\ \A i \in Investments : {i} \in Held
BY DEF Held

LEMMA HeldOne == \A h \in Held : \A i, j \in h : i \in Investments /\ i = j
BY DEF Held

\* What a run becomes in the loop is a run.
LEMMA RunType ==
    ASSUME NEW run \in Run, NEW pc \in {"idle", "loop", "insert", "complete"},
           NEW at \in Held, NEW i
    PROVE  /\ [run EXCEPT !.pc = pc, !.at = at] \in Run
           /\ [run EXCEPT !.pc = pc, !.at = at, !.todo = @ \ {i}] \in Run
BY DEF Run

\* Going on with the next investment keeps the types of the runs.
LEMMA PassType ==
    ASSUME runs \in [Runs -> Run], NEW r \in Runs, NEW i, Pass(r, i)
    PROVE  runs' \in [Runs -> Run]
<1>1. [runs[r] EXCEPT !.pc = "loop", !.at = {}, !.todo = @ \ {i}] \in Run
  BY HeldType, RunType
<1>2. runs' = [runs EXCEPT ![r] = [runs[r] EXCEPT !.pc = "loop", !.at = {},
                                                  !.todo = @ \ {i}]]
  BY DEF Pass, Run
<1> QED
  BY <1>1, <1>2

\* Every step keeps the types.
LEMMA TypeStep == TypeOK /\ [Next]_vars => TypeOK'
<1> SUFFICES ASSUME TypeOK, [Next]_vars PROVE TypeOK'
  OBVIOUS
<1>0. \A r \in Runs : Day(runs[r].date) \in Days
  BY DayType DEF TypeOK, Run
<1>1. CASE UNCHANGED vars
  BY <1>1 DEF TypeOK, vars
<1>2. ASSUME NEW r \in Runs, Start(r) PROVE TypeOK'
  BY <1>2, HeldType DEF TypeOK, Start, Run
<1>3. ASSUME NEW r \in Runs, NEW i \in Investments, Examine(r, i) PROVE TypeOK'
  <2>1. runs' \in [Runs -> Run]
    <3>1. CASE Pass(r, i)
      BY <3>1, PassType DEF TypeOK
    <3>2. CASE runs' = [runs EXCEPT ![r].pc = "insert", ![r].at = {i}]
      <4>1. [runs[r] EXCEPT !.pc = "insert", !.at = {i}] \in Run
        BY HeldType, RunType DEF TypeOK
      <4>2. runs' = [runs EXCEPT ![r] = [runs[r] EXCEPT !.pc = "insert", !.at = {i}]]
        BY <3>2 DEF TypeOK, Run
      <4> QED
        BY <4>1, <4>2 DEF TypeOK
    <3> QED
      BY <1>3, <3>1, <3>2 DEF Examine
  <2> QED
    BY <1>3, <2>1 DEF TypeOK, Examine
<1>4. ASSUME NEW r \in Runs, NEW i \in Investments, Insert(r, i) PROVE TypeOK'
  <2>1. runs' \in [Runs -> Run]
    <3>1. CASE Pass(r, i)
      BY <3>1, PassType DEF TypeOK
    <3>2. CASE runs' = [runs EXCEPT ![r].pc = "complete"]
      BY <3>2 DEF TypeOK, Run
    <3> QED
      BY <1>4, <3>1, <3>2 DEF Insert
  <2>2. accruals' \in [Investments -> [Days -> Nat]]
    <3>1. PICK d \in Days : d = Day(runs[r].date)
      BY <1>0
    <3>2. \/ accruals' = accruals
          \/ accruals' = [accruals EXCEPT ![i] = [accruals[i] EXCEPT ![d] = @ + 1]]
      BY <1>4, <3>1 DEF TypeOK, Insert
    <3>3. [accruals[i] EXCEPT ![d] = @ + 1] \in [Days -> Nat]
      BY DEF TypeOK
    <3> QED
      BY <3>2, <3>3 DEF TypeOK
  <2> QED
    BY <1>4, <2>1, <2>2 DEF TypeOK, Insert
<1>5. ASSUME NEW r \in Runs, NEW i \in Investments, Complete(r, i) PROVE TypeOK'
  <2>1. runs' \in [Runs -> Run]
    BY <1>5, PassType DEF TypeOK, Complete
  <2>2. investments' \in [Investments -> InvestmentRow]
    <3>1. [investments[i] EXCEPT !.status = "COMPLETED"] \in InvestmentRow
      BY DEF TypeOK, InvestmentRow
    <3>2. \/ investments' = investments
          \/ investments' = [investments EXCEPT
                               ![i] = [investments[i] EXCEPT !.status = "COMPLETED"]]
      BY <1>5 DEF TypeOK, Complete
    <3> QED
      BY <3>1, <3>2 DEF TypeOK
  <2>3. notices' \in [Investments -> [Days -> Nat]]
    <3>1. PICK d \in Days : d = Day(runs[r].date)
      BY <1>0
    <3>2. \/ notices' = notices
          \/ notices' = [notices EXCEPT ![i] = [notices[i] EXCEPT ![d] = @ + 1]]
      BY <1>5, <3>1 DEF TypeOK, Complete
    <3>3. [notices[i] EXCEPT ![d] = @ + 1] \in [Days -> Nat]
      BY DEF TypeOK
    <3> QED
      BY <3>2, <3>3 DEF TypeOK
  <2> QED
    BY <1>5, <2>1, <2>2, <2>3 DEF TypeOK, Complete
<1>6. ASSUME NEW r \in Runs, Finish(r) \/ Crash(r) PROVE TypeOK'
  <2>1. IdleRun \in Run
    BY HeldType DEF IdleRun, Run
  <2> QED
    BY <1>6, <2>1 DEF TypeOK, Finish, Crash
<1>7. ASSUME NEW i \in Investments, NEW t \in Terms, Invest(i, t) PROVE TypeOK'
  <2>1. now + t.days * TicksPerDay \in Nat /\ t.return \in Nat /\ t.days \in Nat \ {0}
    <3>1. ASSUME NEW n \in Nat, NEW k \in Nat
          PROVE  n + k * TicksPerDay \in Nat
      OBVIOUS
    <3>2. now \in Nat
      BY DEF TypeOK
    <3>3. t.return \in Nat /\ t.days \in Nat \ {0}
      OBVIOUS
    <3>4. now + t.days * TicksPerDay \in Nat
      BY <3>1, <3>2, <3>3
    <3> QED
      BY <3>3, <3>4
  <2> QED
    BY <1>7, <2>1 DEF TypeOK, Invest, InvestmentRow
<1>8. ASSUME NEW i \in Investments, NEW days \in Patches, PatchPlan(i, days) PROVE TypeOK'
  BY <1>8 DEF TypeOK, PatchPlan, InvestmentRow
<1>9. ASSUME NEW i \in Investments, Delete(i) PROVE TypeOK'
  BY <1>9 DEF TypeOK, Delete, InvestmentRow
<1>10. CASE Tick
  BY <1>10 DEF TypeOK, Tick
<1> QED
  BY <1>1, <1>2, <1>3, <1>4, <1>5, <1>6, <1>7, <1>8, <1>9, <1>10 DEF Next, Work

\* A step in which no table changes and no run comes to hold a completion.
LEMMA LocalStep ==
    ASSUME IndInv, TypeOK', RunsAreRecent',
           UNCHANGED <<investments, accruals, notices>>, now <= now',
           \A s \in Runs : runs'[s].pc = "complete" => runs'[s] = runs[s]
    PROVE  IndInv'
<1>1. OncePerDay' /\ NoticeHasAccrual'
  BY DEF IndInv, OncePerDay, NoticeHasAccrual
<1>2. CompletedIsEarned'
  <2>1. ASSUME NEW i \in Investments, investments[i].matures <= now
        PROVE  investments[i].matures <= now'
    BY <2>1 DEF IndInv, TypeOK, InvestmentRow
  <2> QED
    BY <2>1 DEF IndInv, CompletedIsEarned
<1>3. CompletionIsOwned'
  BY DEF IndInv, CompletionIsOwned
<1> QED
  BY <1>1, <1>2, <1>3 DEF IndInv

\* What Pass leaves of the runs.
LEMMA PassRuns ==
    ASSUME TypeOK, NEW r \in Runs, NEW i, Pass(r, i)
    PROVE  /\ \A s \in Runs : runs'[s].pc = "complete" => runs'[s] = runs[s] /\ s # r
           /\ \A s \in Runs : /\ runs'[s].date = runs[s].date
                              /\ runs'[s].todo \subseteq runs[s].todo
                              /\ runs'[s].at \subseteq runs[s].at
<1>1. \A s \in Runs \ {r} : runs'[s] = runs[s]
  BY DEF TypeOK, Pass
<1>2. /\ runs'[r].pc = "loop" /\ runs'[r].at = {} /\ runs'[r].date = runs[r].date
      /\ runs'[r].todo \subseteq runs[r].todo
  BY DEF TypeOK, Pass, Run
<1> QED
  BY <1>1, <1>2

\* The runs stay recent when they go on with what they have.
LEMMA RecentStep ==
    ASSUME TypeOK, TypeOK', RunsAreRecent, now <= now',
           \A i \in Investments : investments'[i].status = "none" => investments[i].status = "none",
           \A s \in Runs : /\ runs'[s].date = runs[s].date \/ runs'[s].date = 0
                           /\ runs'[s].todo \union runs'[s].at
                                 \subseteq runs[s].todo \union runs[s].at
    PROVE  RunsAreRecent'
<1>1. ASSUME NEW s \in Runs PROVE runs'[s].date <= now'
  <2>1. runs[s].date \in Nat /\ now \in Nat /\ now' \in Nat /\ runs[s].date <= now
    BY DEF TypeOK, Run, RunsAreRecent
  <2> QED
    BY <2>1
<1>2. ASSUME NEW s \in Runs, NEW i \in runs'[s].todo \union runs'[s].at
      PROVE  investments'[i].status # "none"
  <2>1. i \in Investments
    BY HeldOne DEF TypeOK, Run
  <2>2. investments[i].status # "none"
    BY DEF RunsAreRecent
  <2> QED
    BY <2>1, <2>2
<1> QED
  BY <1>1, <1>2 DEF RunsAreRecent

\* The insert: the database's unique index makes the run that succeeds the
\* only one to hold the completion of that investment on that day.
LEMMA InsertStep ==
    ASSUME IndInv, TypeOK', NEW r \in Runs, NEW i \in Investments, Insert(r, i)
    PROVE  IndInv'
<1>0. TypeOK /\ Day(runs[r].date) \in Days /\ runs[r].pc = "insert" /\ i \in runs[r].at
  BY DayType DEF IndInv, Insert, TypeOK, Run
<1>1. PICK d \in Days : d = Day(runs[r].date)
  BY <1>0
<1>2. UNCHANGED <<investments, notices, now>>
  BY DEF Insert
<1>3. now <= now'
  BY <1>0, <1>2 DEF TypeOK
<1>4. CASE UNCHANGED accruals /\ Pass(r, i)
  <2>1. \A s \in Runs : runs'[s].pc = "complete" => runs'[s] = runs[s]
    BY <1>0, <1>4, PassRuns
  <2>2. RunsAreRecent'
    BY <1>0, <1>2, <1>3, <1>4, PassRuns, RecentStep DEF IndInv
  <2> QED
    BY <1>2, <1>3, <1>4, <2>1, <2>2, LocalStep
<1>5. CASE Insertable(i, d)
  <2>1. accruals[i][d] = 0 /\ investments[i].status # "gone"
    BY <1>5 DEF Insertable
  <2>2. /\ accruals'[i][d] = 1
        /\ \A j \in Investments, e \in Days :
              j # i \/ e # d => accruals'[j][e] = accruals[j][e]
    BY <1>0, <1>1, <1>5, <2>1 DEF Insert, TypeOK
  <2>3. OncePerDay'
    BY <1>2, <2>2 DEF IndInv, OncePerDay
  <2>4. CompletedIsEarned'
    <3>1. ASSUME NEW j \in Investments, NEW e \in Days, accruals[j][e] > 0
          PROVE  accruals'[j][e] > 0
      BY <2>2, <3>1
    <3> QED
      BY <1>2, <3>1 DEF IndInv, CompletedIsEarned
  <2>5. NoticeHasAccrual'
    BY <1>2, <2>2 DEF IndInv, NoticeHasAccrual
  <2>6. CASE Pass(r, i)
    <3>1. \A s \in Runs : runs'[s].pc = "complete" => runs'[s] = runs[s]
      BY <1>0, <2>6, PassRuns
    <3>2. RunsAreRecent'
      BY <1>0, <1>2, <1>3, <2>6, PassRuns, RecentStep DEF IndInv
    <3>3. CompletionIsOwned'
      <4>1. ASSUME NEW s \in Runs, NEW j \in runs[s].at, runs[s].pc = "complete",
                   investments[j].status # "gone"
            PROVE  accruals'[j][Day(runs[s].date)] = 1
        <5>1. j \in Investments /\ Day(runs[s].date) \in Days
          BY <1>0, HeldOne, DayType DEF TypeOK, Run
        <5>2. accruals[j][Day(runs[s].date)] = 1
          BY <4>1 DEF IndInv, CompletionIsOwned
        <5> QED
          BY <2>1, <2>2, <5>1, <5>2
      <4> QED
        BY <1>2, <3>1, <4>1 DEF IndInv, CompletionIsOwned
    <3> QED
      BY <2>3, <2>4, <2>5, <3>2, <3>3 DEF IndInv
  <2>7. CASE Matured(i, runs[r].date) /\ runs' = [runs EXCEPT ![r].pc = "complete"]
    <3>1. /\ runs'[r].pc = "complete" /\ runs'[r].date = runs[r].date
          /\ runs'[r].at = runs[r].at /\ runs'[r].todo = runs[r].todo
          /\ \A s \in Runs \ {r} : runs'[s] = runs[s]
      BY <1>0, <2>7 DEF TypeOK, Run
    <3>2. RunsAreRecent'
      BY <1>0, <1>2, <1>3, <3>1, RecentStep DEF IndInv
    <3>3. \A j \in runs[r].at : j = i
      BY <1>0, HeldOne DEF TypeOK, Run
    <3>4. notices[i][d] = 0
      BY <1>0, <2>1 DEF IndInv, TypeOK, NoticeHasAccrual
    <3>5. ASSUME NEW s \in Runs \ {r}, NEW j \in runs[s].at, runs[s].pc = "complete"
          PROVE  /\ j # i \/ Day(runs[s].date) # d
                 /\ j \in Investments /\ Day(runs[s].date) \in Days
      <4>1. j \in Investments /\ Day(runs[s].date) \in Days
        BY <1>0, HeldOne, DayType DEF TypeOK, Run
      <4>2. investments[j].status # "gone" => accruals[j][Day(runs[s].date)] = 1
        BY <3>5 DEF IndInv, CompletionIsOwned
      <4> QED
        BY <2>1, <4>1, <4>2
    <3>6. ASSUME NEW s \in Runs, NEW j \in runs'[s].at, runs'[s].pc = "complete"
          PROVE  LET e == Day(runs'[s].date)
                 IN  /\ investments[j].matures <= runs'[s].date
                     /\ investments[j].status # "gone" => accruals'[j][e] = 1
                     /\ notices[j][e] = 0
                     /\ \A t \in Runs \ {s} :
                           ~(runs'[t].pc = "complete" /\ j \in runs'[t].at
                             /\ Day(runs'[t].date) = e)
      <4>1. CASE s = r
        BY <1>1, <2>2, <2>7, <3>1, <3>3, <3>4, <3>5, <3>6, <4>1 DEF Matured
      <4>2. CASE s # r
        <5>1. runs'[s] = runs[s] /\ s \in Runs \ {r} /\ j \in runs[s].at
              /\ runs[s].pc = "complete"
          BY <3>1, <3>6, <4>2
        <5>2. LET e == Day(runs[s].date)
              IN  /\ investments[j].matures <= runs[s].date
                  /\ investments[j].status # "gone" => accruals[j][e] = 1
                  /\ notices[j][e] = 0
                  /\ \A t \in Runs \ {s} :
                        ~(runs[t].pc = "complete" /\ j \in runs[t].at
                          /\ Day(runs[t].date) = e)
          BY <5>1 DEF IndInv, CompletionIsOwned
        <5>3. /\ j # i \/ Day(runs[s].date) # d
              /\ j \in Investments /\ Day(runs[s].date) \in Days
          BY <3>5, <5>1
        <5>4. accruals'[j][Day(runs[s].date)] = accruals[j][Day(runs[s].date)]
          BY <2>2, <5>3
        <5>5. \A t \in Runs \ {s} :
                 ~(runs'[t].pc = "complete" /\ j \in runs'[t].at
                   /\ Day(runs'[t].date) = Day(runs[s].date))
          BY <1>1, <3>1, <3>3, <5>2, <5>3
        <5> QED
          BY <5>1, <5>2, <5>4, <5>5
      <4> QED
        BY <4>1, <4>2
    <3>7. CompletionIsOwned'
      BY <1>2, <3>6 DEF CompletionIsOwned
    <3> QED
      BY <2>3, <2>4, <2>5, <3>2, <3>7 DEF IndInv
  <2> QED
    BY <1>1, <1>5, <2>6, <2>7 DEF Insert
<1> QED
  BY <1>1, <1>4, <1>5 DEF Insert

\* The completion: only the run that holds it sends the notice of its day.
LEMMA CompleteStep ==
    ASSUME IndInv, TypeOK', NEW r \in Runs, NEW i \in Investments, Complete(r, i)
    PROVE  IndInv'
<1>0. TypeOK /\ Day(runs[r].date) \in Days /\ runs[r].pc = "complete" /\ i \in runs[r].at
  BY DayType DEF IndInv, Complete, TypeOK, Run
<1>1. PICK d \in Days : d = Day(runs[r].date)
  BY <1>0
<1>2. UNCHANGED <<accruals, now>> /\ Pass(r, i)
  BY DEF Complete
<1>3. now <= now'
  BY <1>0, <1>2 DEF TypeOK
<1>4. \A s \in Runs : runs'[s].pc = "complete" => runs'[s] = runs[s] /\ s # r
  BY <1>0, <1>2, PassRuns
<1>5. /\ \A j \in Investments : \/ investments'[j] = investments[j]
                                \/ /\ j = i /\ investments[i].status # "gone"
                                   /\ investments'[j].status = "COMPLETED"
                                   /\ investments'[j].matures = investments[j].matures
      /\ investments[i].status # "gone" => notices'[i][d] = notices[i][d] + 1
      /\ \A j \in Investments, e \in Days :
            j # i \/ e # d \/ investments[i].status = "gone" => notices'[j][e] = notices[j][e]
  BY <1>0, <1>1 DEF Complete, TypeOK, InvestmentRow
<1>6. RunsAreRecent'
  BY <1>0, <1>2, <1>3, <1>5, PassRuns, RecentStep DEF IndInv
<1>7. /\ investments[i].matures <= runs[r].date
      /\ investments[i].status # "gone" => accruals[i][d] = 1
      /\ notices[i][d] = 0
      /\ \A s \in Runs \ {r} : ~(runs[s].pc = "complete" /\ i \in runs[s].at
                                 /\ Day(runs[s].date) = d)
  BY <1>0, <1>1 DEF IndInv, CompletionIsOwned
<1>8. OncePerDay'
  BY <1>0, <1>2, <1>5, <1>7 DEF IndInv, OncePerDay
<1>9. CompletedIsEarned'
  <2>1. investments[i].matures <= now
    BY <1>0, <1>7 DEF IndInv, RunsAreRecent, TypeOK, Run, InvestmentRow
  <2>2. d >= Day(investments[i].matures)
    BY <1>0, <1>1, <1>7, DayMonotone DEF TypeOK, Run, InvestmentRow
  <2>3. investments[i].status # "gone" => accruals[i][d] > 0
    BY <1>7
  <2> QED
    BY <1>2, <1>5, <2>1, <2>2, <2>3 DEF IndInv, CompletedIsEarned
<1>10. NoticeHasAccrual'
  BY <1>2, <1>5, <1>7 DEF IndInv, NoticeHasAccrual
<1>11. CompletionIsOwned'
  <2>1. ASSUME NEW s \in Runs, NEW j \in runs[s].at, runs[s].pc = "complete", s # r
        PROVE  notices'[j][Day(runs[s].date)] = 0
               /\ investments'[j].matures = investments[j].matures
               /\ (investments'[j].status # "gone" => investments[j].status # "gone")
    <3>1. j \in Investments /\ Day(runs[s].date) \in Days
      BY <1>0, HeldOne, DayType DEF TypeOK, Run
    <3>2. notices[j][Day(runs[s].date)] = 0
      BY <2>1 DEF IndInv, CompletionIsOwned
    <3>3. j # i \/ Day(runs[s].date) # d
      BY <1>7, <2>1
    <3> QED
      BY <1>5, <3>1, <3>2, <3>3
  <2>2. ASSUME NEW s \in Runs, NEW j \in runs'[s].at, runs'[s].pc = "complete"
        PROVE  LET e == Day(runs'[s].date)
               IN  /\ investments'[j].matures <= runs'[s].date
                   /\ investments'[j].status # "gone" => accruals'[j][e] = 1
                   /\ notices'[j][e] = 0
                   /\ \A t \in Runs \ {s} :
                         ~(runs'[t].pc = "complete" /\ j \in runs'[t].at
                           /\ Day(runs'[t].date) = e)
    <3>1. runs'[s] = runs[s] /\ s # r
      BY <1>4, <2>2
    <3>2. LET e == Day(runs[s].date)
          IN  /\ investments[j].matures <= runs[s].date
              /\ investments[j].status # "gone" => accruals[j][e] = 1
              /\ \A t \in Runs \ {s} :
                    ~(runs[t].pc = "complete" /\ j \in runs[t].at
                      /\ Day(runs[t].date) = e)
      BY <2>2, <3>1 DEF IndInv, CompletionIsOwned
    <3> QED
      BY <1>2, <1>4, <2>1, <2>2, <3>1, <3>2
  <2> QED
    BY <2>2 DEF CompletionIsOwned
<1> QED
  BY <1>6, <1>8, <1>9, <1>10, <1>11 DEF IndInv

\* The steps of the administrator and of the users.
LEMMA OutsideStep ==
    ASSUME IndInv, TypeOK', UNCHANGED <<notices, runs, now>>, NEW i \in Investments,
           \/ \E t \in Terms : Invest(i, t)
           \/ \E days \in Patches : PatchPlan(i, days)
           \/ Delete(i)
    PROVE  IndInv'
<1>0. TypeOK
  BY DEF IndInv
<1>1. \A r \in Runs : Day(runs[r].date) \in Days
  BY <1>0, DayType DEF TypeOK, Run
<1>2. CASE \E t \in Terms : Invest(i, t)
  <2>1. /\ investments[i].status = "none" /\ investments'[i].status = "ACTIVE"
        /\ \A j \in Investments \ {i} : investments'[j] = investments[j]
        /\ accruals' = accruals
    BY <1>0, <1>2 DEF Invest, TypeOK
  <2>2. OncePerDay' /\ NoticeHasAccrual'
    BY <2>1 DEF IndInv, OncePerDay, NoticeHasAccrual
  <2>3. CompletedIsEarned'
    BY <2>1 DEF IndInv, CompletedIsEarned
  <2>4. \A r \in Runs : i \notin runs[r].at /\ i \notin runs[r].todo
    BY <2>1 DEF IndInv, RunsAreRecent
  <2>5. \A r \in Runs : \A j \in runs[r].todo \union runs[r].at : investments'[j] = investments[j]
    <3>1. \A r \in Runs : runs[r].todo \union runs[r].at \subseteq Investments
      BY <1>0, HeldOne DEF TypeOK, Run
    <3> QED
      BY <2>1, <2>4, <3>1
  <2>6. CompletionIsOwned'
    BY <2>1, <2>5 DEF IndInv, CompletionIsOwned
  <2>7. RunsAreRecent'
    BY <2>5 DEF IndInv, RunsAreRecent
  <2> QED
    BY <2>2, <2>3, <2>6, <2>7 DEF IndInv
<1>3. CASE \E days \in Patches : PatchPlan(i, days)
  <2>1. /\ \A j \in Investments : /\ investments'[j].status = investments[j].status
                                  /\ investments'[j].matures = investments[j].matures
        /\ accruals' = accruals
    BY <1>0, <1>3 DEF PatchPlan, TypeOK, InvestmentRow
  <2>2. OncePerDay' /\ NoticeHasAccrual' /\ CompletedIsEarned'
    BY <2>1 DEF IndInv, OncePerDay, NoticeHasAccrual, CompletedIsEarned
  <2>3. \A r \in Runs : runs[r].todo \union runs[r].at \subseteq Investments
    BY <1>0, HeldOne DEF TypeOK, Run
  <2>4. RunsAreRecent'
    BY <2>1, <2>3 DEF IndInv, RunsAreRecent
  <2>5. CompletionIsOwned'
    BY <2>1, <2>3 DEF IndInv, CompletionIsOwned
  <2> QED
    BY <2>2, <2>4, <2>5 DEF IndInv
<1>4. CASE Delete(i)
  <2>1. /\ investments'[i].status = "gone"
        /\ \A j \in Investments : investments'[j].matures = investments[j].matures
        /\ \A j \in Investments \ {i} : investments'[j] = investments[j]
        /\ \A d \in Days : accruals'[i][d] = 0
        /\ \A j \in Investments \ {i} : accruals'[j] = accruals[j]
    BY <1>0, <1>4 DEF Delete, TypeOK, InvestmentRow
  <2>2. OncePerDay'
    BY <2>1 DEF IndInv, OncePerDay
  <2>3. NoticeHasAccrual'
    BY <2>1 DEF IndInv, NoticeHasAccrual
  <2>4. CompletedIsEarned'
    BY <2>1 DEF IndInv, CompletedIsEarned
  <2>5. \A r \in Runs : runs[r].todo \union runs[r].at \subseteq Investments
    BY <1>0, HeldOne DEF TypeOK, Run
  <2>6. RunsAreRecent'
    BY <2>1, <2>5 DEF IndInv, RunsAreRecent
  <2>7. CompletionIsOwned'
    BY <1>1, <2>1, <2>5 DEF IndInv, CompletionIsOwned
  <2> QED
    BY <2>2, <2>3, <2>4, <2>6, <2>7 DEF IndInv
<1> QED
  BY <1>2, <1>3, <1>4

\* The other steps of the job, and of time.
LEMMA QuietStep ==
    ASSUME IndInv, TypeOK',
           (\E r \in Runs : \/ Start(r) \/ Finish(r) \/ Crash(r)
                            \/ \E i \in Investments : Examine(r, i))
           \/ Tick
    PROVE  IndInv'
<1>0. TypeOK /\ now \in Nat
  BY DEF IndInv, TypeOK
<1>1. ASSUME NEW r \in Runs, Start(r)
      PROVE  IndInv'
  <2>1. /\ runs'[r].pc = "loop" /\ runs'[r].date = now /\ runs'[r].at = {}
        /\ runs'[r].todo = {i \in Investments : investments[i].status = "ACTIVE"}
        /\ \A s \in Runs \ {r} : runs'[s] = runs[s]
        /\ UNCHANGED <<investments, accruals, notices, now>>
    BY <1>0, <1>1 DEF Start, TypeOK
  <2>2. RunsAreRecent'
    BY <1>0, <2>1 DEF IndInv, RunsAreRecent
  <2> QED
    BY <1>0, <2>1, <2>2, LocalStep
<1>2. ASSUME NEW r \in Runs, Finish(r) \/ Crash(r)
      PROVE  IndInv'
  <2>1. /\ runs'[r] = IdleRun
        /\ \A s \in Runs \ {r} : runs'[s] = runs[s]
        /\ UNCHANGED <<investments, accruals, notices, now>>
    BY <1>0, <1>2 DEF Finish, Crash, TypeOK
  <2>2. RunsAreRecent'
    BY <1>0, <2>1, RecentStep DEF IndInv, IdleRun
  <2> QED
    BY <1>0, <2>1, <2>2, LocalStep DEF IdleRun
<1>3. ASSUME NEW r \in Runs, NEW i \in Investments, Examine(r, i)
      PROVE  IndInv'
  <2>1. UNCHANGED <<investments, accruals, notices, now>> /\ i \in runs[r].todo
    BY <1>3 DEF Examine
  <2>2. CASE Pass(r, i)
    <3>1. RunsAreRecent'
      BY <1>0, <2>1, <2>2, PassRuns, RecentStep DEF IndInv
    <3> QED
      BY <1>0, <2>1, <2>2, <3>1, PassRuns, LocalStep
  <2>3. CASE runs' = [runs EXCEPT ![r].pc = "insert", ![r].at = {i}]
    <3>1. /\ runs'[r].pc = "insert" /\ runs'[r].at = {i} /\ runs'[r].date = runs[r].date
          /\ runs'[r].todo = runs[r].todo
          /\ \A s \in Runs \ {r} : runs'[s] = runs[s]
      BY <1>0, <2>3 DEF TypeOK, Run
    <3>2. RunsAreRecent'
      BY <1>0, <2>1, <3>1, RecentStep DEF IndInv
    <3> QED
      BY <1>0, <2>1, <3>1, <3>2, LocalStep
  <2> QED
    BY <1>3, <2>2, <2>3 DEF Examine
<1>4. CASE Tick
  <2>1. now <= now' /\ UNCHANGED <<investments, accruals, notices, runs>>
    BY <1>0, <1>4 DEF Tick
  <2>2. RunsAreRecent'
    BY <1>0, <2>1, RecentStep DEF IndInv
  <2> QED
    BY <2>1, <2>2, LocalStep
<1> QED
  BY <1>1, <1>2, <1>3, <1>4

\* The inductive invariant: in every reachable state.
THEOREM Invariant == Spec => []IndInv
<1>1. Init => IndInv
  <2>1. ASSUME Init PROVE TypeOK
    BY <2>1, HeldType DEF Init, TypeOK, NoInvestment, InvestmentRow, IdleRun, Run
  <2>2. ASSUME Init PROVE OncePerDay /\ NoticeHasAccrual
    BY <2>2 DEF Init, OncePerDay, NoticeHasAccrual
  <2>3. ASSUME Init PROVE CompletedIsEarned /\ CompletionIsOwned /\ RunsAreRecent
    BY <2>3 DEF Init, NoInvestment, IdleRun, CompletedIsEarned, CompletionIsOwned, RunsAreRecent
  <2> QED
    BY <2>1, <2>2, <2>3 DEF IndInv
<1>2. IndInv /\ [Next]_vars => IndInv'
  <2> SUFFICES ASSUME IndInv, [Next]_vars PROVE IndInv'
    OBVIOUS
  <2>1. TypeOK'
    BY TypeStep DEF IndInv
  <2>2. CASE UNCHANGED vars
    BY <2>2 DEF vars, IndInv, TypeOK, OncePerDay, CompletedIsEarned, CompletionIsOwned,
                NoticeHasAccrual, RunsAreRecent
  <2>3. ASSUME NEW r \in Runs, NEW i \in Investments, Insert(r, i) \/ Complete(r, i)
        PROVE  IndInv'
    BY <2>1, <2>3, InsertStep, CompleteStep
  <2>4. ASSUME NEW i \in Investments,
               \/ \E t \in Terms : Invest(i, t)
               \/ \E days \in Patches : PatchPlan(i, days)
               \/ Delete(i)
        PROVE  IndInv'
    <3>1. UNCHANGED <<notices, runs, now>>
      BY <2>4 DEF Invest, PatchPlan, Delete
    <3> QED
      BY <2>1, <2>4, <3>1, OutsideStep
  <2>5. ASSUME (\E r \in Runs : \/ Start(r) \/ Finish(r) \/ Crash(r)
                                \/ \E i \in Investments : Examine(r, i))
               \/ Tick
        PROVE  IndInv'
    BY <2>1, <2>5, QuietStep
  <2> QED
    BY <2>2, <2>3, <2>4, <2>5 DEF Next, Work
<1> QED
  BY <1>1, <1>2, PTL DEF Spec

\* On a day an investment is paid and completed at most once.
THEOREM PaidOncePerDay == Spec => []OncePerDay
BY Invariant, PTL DEF IndInv

\* What is completed has matured and was paid its accrual.
THEOREM CompletionEarned == Spec => []CompletedIsEarned
BY Invariant, PTL DEF IndInv

\* The job keeps the promise of Maturity: every step of it is a step of that
\* specification or leaves its variables alone.
THEOREM KeepsPromise == Spec => MaturityKept
<1>1. Init => Promise!Init
  <2>1. ASSUME Init PROVE Promise!Init
    BY <2>1 DEF Init, NoInvestment, Promise!Init
  <2> QED
    BY <2>1
<1> DEFINE st == [i \in Investments |-> IF investments[i].status = "gone"
                                          THEN "none" ELSE investments[i].status]
           mt == [i \in Investments |-> investments[i].matures]
<1>2. ASSUME IndInv, [Next]_vars
      PROVE  Promise!Next \/ UNCHANGED <<st, mt, now>>
  <2>0. TypeOK /\ now \in Nat
    BY <1>2 DEF IndInv, TypeOK
  <2>1. CASE UNCHANGED <<investments, now>>
    BY <2>1
  <2>2. ASSUME NEW r \in Runs, NEW i \in Investments, Complete(r, i)
        PROVE  Promise!Next \/ UNCHANGED <<st, mt, now>>
    <3>1. CASE investments[i].status \in {"gone", "COMPLETED"}
      <4>1. UNCHANGED <<investments, now>>
        BY <2>0, <2>2, <3>1 DEF Complete, TypeOK, InvestmentRow
      <4> QED
        BY <4>1
    <3>2. CASE investments[i].status = "ACTIVE"
      <4>1. investments' = [investments EXCEPT ![i].status = "COMPLETED"] /\ now' = now
        BY <2>2, <3>2 DEF Complete
      <4>2. investments[i].matures <= now
        <5>1. investments[i].matures <= runs[r].date /\ runs[r].date <= now
          BY <1>2, <2>2 DEF Complete, IndInv, CompletionIsOwned, RunsAreRecent
        <5> QED
          BY <2>0, <5>1 DEF TypeOK, Run, InvestmentRow
      <4>3. st[i] = "ACTIVE" /\ st' = [st EXCEPT ![i] = "COMPLETED"] /\ mt' = mt
        BY <2>0, <3>2, <4>1 DEF TypeOK, InvestmentRow
      <4>4. Promise!Complete(i)
        BY <4>1, <4>2, <4>3 DEF Promise!Complete
      <4> QED
        BY <4>4 DEF Promise!Next
    <3>3. investments[i].status # "none"
      BY <1>2, <2>2 DEF Complete, IndInv, RunsAreRecent
    <3> QED
      BY <2>0, <3>1, <3>2, <3>3 DEF TypeOK, InvestmentRow
  <2>3. ASSUME NEW i \in Investments, NEW t \in Terms, Invest(i, t)
        PROVE  Promise!Next
    <3>1. now + t.days * TicksPerDay > now /\ now + t.days * TicksPerDay \in Nat
      <4>1. \A k \in Nat \ {0} : k * TicksPerDay \in Nat \ {0}
        OBVIOUS
      <4>2. t.days * TicksPerDay \in Nat \ {0}
        BY <4>1
      <4> QED
        BY <2>0, <4>2
    <3>2. /\ investments[i].status = "none" /\ now' = now
          /\ investments'[i].status = "ACTIVE"
          /\ investments'[i].matures = now + t.days * TicksPerDay
          /\ \A j \in Investments \ {i} : investments'[j] = investments[j]
      BY <2>0, <2>3 DEF Invest, TypeOK
    <3>3. /\ st[i] = "none" /\ st' = [st EXCEPT ![i] = "ACTIVE"]
          /\ mt'[i] > now /\ mt' = [mt EXCEPT ![i] = mt'[i]]
      BY <3>1, <3>2
    <3>4. Promise!Begin(i)
      BY <3>2, <3>3 DEF Promise!Begin
    <3> QED
      BY <3>4 DEF Promise!Next
  <2>4. ASSUME NEW i \in Investments, NEW days \in Patches, PatchPlan(i, days)
        PROVE  UNCHANGED <<st, mt, now>>
    <3>1. /\ now' = now
          /\ \A j \in Investments : /\ investments'[j].status = investments[j].status
                                    /\ investments'[j].matures = investments[j].matures
      BY <2>0, <2>4 DEF PatchPlan, TypeOK, InvestmentRow
    <3> QED
      BY <3>1
  <2>5. ASSUME NEW i \in Investments, Delete(i)
        PROVE  Promise!Next
    <3>1. /\ now' = now
          /\ \A j \in Investments : /\ investments'[j].status \in {investments[j].status, "gone"}
                                    /\ investments'[j].matures = investments[j].matures
      BY <2>0, <2>5 DEF Delete, TypeOK, InvestmentRow
    <3>2. Promise!Remove
      BY <3>1 DEF Promise!Remove
    <3> QED
      BY <3>2 DEF Promise!Next
  <2>6. CASE Tick
    <3>1. now' \in Nat /\ now' > now /\ investments' = investments
      BY <2>0, <2>6 DEF Tick
    <3>2. Promise!Tick
      BY <3>1 DEF Promise!Tick
    <3> QED
      BY <3>2 DEF Promise!Next
  <2>7. ASSUME NEW r \in Runs,
               \/ Start(r) \/ Finish(r) \/ Crash(r)
               \/ \E i \in Investments : Examine(r, i) \/ Insert(r, i)
        PROVE  UNCHANGED <<investments, now>>
    BY <2>7 DEF Start, Finish, Crash, Examine, Insert
  <2> HIDE DEF st, mt
  <2> QED
    BY <1>2, <2>1, <2>2, <2>3, <2>4, <2>5, <2>6, <2>7 DEF Next, Work, vars
<1> QED
  BY <1>1, <1>2, Invariant, PTL DEF Spec, MaturityKept, Promise!Spec
=============================================================================
