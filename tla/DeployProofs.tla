---------------------------- MODULE DeployProofs ----------------------------
(***************************************************************************)
(* Theorems about the deployment script: for any number of migrations and  *)
(* of overlapping starts, whichever of them are killed.                    *)
(***************************************************************************)
EXTENDS Deploy, TLAPS

USE DeployAssumption

\* init is a migration, and the baseline begins with it.
LEMMA InitIsFirst == 1 \in Migrations /\ 1 \in 1 .. Baseline /\ Baseline <= Last
BY DEF Migrations

\* A start that is down has a state of the script's.
LEMMA DownType == Down \in Boot
BY InitIsFirst DEF Down, Boot, Migrations

\* What a start becomes in a step has the type of a start.
LEMMA BootType ==
    ASSUME NEW x \in Boot, NEW pc \in {"down", "deploy", "migrating", "recover", "mark", "api"}
    PROVE  /\ [x EXCEPT !.pc = pc] \in Boot
           /\ [x EXCEPT !.pc = pc, !.timedOut = TRUE] \in Boot
           /\ [x EXCEPT !.pc = pc, !.try = 2] \in Boot
BY DEF Boot

\* Every step keeps the types.
LEMMA TypeStep == TypeOK /\ [Next]_vars => TypeOK'
<1> SUFFICES ASSUME TypeOK, [Next]_vars PROVE TypeOK'
  OBVIOUS
<1> USE DEF TypeOK, Become
<1>0. ASSUME NEW b \in Boots PROVE [Down EXCEPT !.pc = "deploy"] \in Boot
  BY DownType, BootType
<1>a. ASSUME NEW b \in Boots, NEW x \in Boot, Become(b, x)
      PROVE  boots' \in [Boots -> Boot]
  BY <1>a
<1>b. ASSUME NEW b \in Boots, BaselineConflict(b)
      PROVE  boots' \in [Boots -> Boot] /\ lock' \in Boots \union {None}
  BY <1>b, DownType, BootType DEF BaselineConflict
<1>1. CASE UNCHANGED vars
  BY <1>1 DEF vars
<1>2. ASSUME NEW b \in Boots, Start(b) PROVE TypeOK'
  BY <1>2, <1>0 DEF Start
<1>3. ASSUME NEW b \in Boots, LockTimeout(b) PROVE TypeOK'
  BY <1>3, BootType DEF LockTimeout
<1>4. ASSUME NEW b \in Boots, TakeLock(b) PROVE TypeOK'
  BY <1>4, BootType DEF TakeLock
<1>5. ASSUME NEW b \in Boots, NEW m \in Migrations, Migrate(b, m) PROVE TypeOK'
  BY <1>5 DEF Migrate
<1>6. ASSUME NEW b \in Boots, NEW m \in Migrations, MigrationFails(b, m) PROVE TypeOK'
  BY <1>6, <1>b DEF MigrationFails
<1>7. ASSUME NEW b \in Boots, NEW m \in Migrations, DieMigrating(b, m) PROVE TypeOK'
  BY <1>7, DownType DEF DieMigrating
<1>8. ASSUME NEW b \in Boots, HistoryRefused(b) PROVE TypeOK'
  BY <1>8, <1>b DEF HistoryRefused
<1>9. ASSUME NEW b \in Boots, DeploySucceeds(b) PROVE TypeOK'
  BY <1>9, BootType DEF DeploySucceeds
<1>10. ASSUME NEW b \in Boots, OtherError(b) PROVE TypeOK'
  BY <1>10, DownType DEF OtherError
<1>11. ASSUME NEW b \in Boots, NEW done \in BOOLEAN, ClearInit(b, done) PROVE TypeOK'
  BY <1>11, BootType, InitIsFirst DEF ClearInit
<1>12. ASSUME NEW b \in Boots, MarkApplied(b) PROVE TypeOK'
  <2>1. boots[b].mark \in Migrations /\ boots[b].mark + 1 \in 1 .. Last + 1
    BY <1>12 DEF MarkApplied, Listed, Boot, Migrations
  <2>2. [boots[b] EXCEPT !.mark = boots[b].mark + 1] \in Boot
    BY <2>1 DEF Boot
  <2> QED
    BY <1>12, <2>1, <2>2 DEF MarkApplied
<1>13. ASSUME NEW b \in Boots, MarkRefused(b) PROVE TypeOK'
  BY <1>13, DownType DEF MarkRefused
<1>14. ASSUME NEW b \in Boots, Retry(b) PROVE TypeOK'
  BY <1>14, BootType DEF Retry
<1>15. ASSUME NEW b \in Boots, Die(b) PROVE TypeOK'
  BY <1>15, DownType DEF Die
<1>16. CASE LockExpires
  BY <1>16 DEF LockExpires
<1> QED
  BY <1>1, <1>2, <1>3, <1>4, <1>5, <1>6, <1>7, <1>8, <1>9, <1>10, <1>11, <1>12,
     <1>13, <1>14, <1>15, <1>16 DEF Next

\* Nothing that is recorded as applied is ever recorded as something else: a
\* script runs only if it is not recorded, and only a failed init is cleared.
LEMMA AppliedStays ==
    ASSUME TypeOK, [Next]_vars
    PROVE  \A m \in Migrations : record[m] = "applied" => record'[m] = "applied"
<1> USE DEF TypeOK
<1>1. CASE UNCHANGED record
  BY <1>1
<1>2. ASSUME NEW m \in Migrations, IsNext(m),
             NEW s, record' = [record EXCEPT ![m] = s]
      PROVE  \A k \in Migrations : record[k] = "applied" => record'[k] = "applied"
  BY <1>2 DEF IsNext
<1>3. ASSUME NEW b \in Boots, NEW done \in BOOLEAN, ClearInit(b, done)
      PROVE  \A k \in Migrations : record[k] = "applied" => record'[k] = "applied"
  BY <1>3 DEF ClearInit, Cleared
<1>4. ASSUME NEW b \in Boots, MarkApplied(b)
      PROVE  \A k \in Migrations : record[k] = "applied" => record'[k] = "applied"
  BY <1>4 DEF MarkApplied
<1> QED
  BY <1>1, <1>2, <1>3, <1>4 DEF Next, vars, Start, LockTimeout, TakeLock, Migrate,
     MigrationFails, DieMigrating, HistoryRefused, DeploySucceeds, OtherError,
     MarkRefused, Retry, Die, LockExpires

\* init works unless its objects are there already.
LEMMA InitWorks == Works(1) <=> 1 \notin schema
BY InitIsFirst DEF Works

\* A migration that is not init runs only when init is recorded as applied.
LEMMA AfterInit ==
    ASSUME TypeOK, NEW m \in Migrations, m # 1, Failed = {}, IsNext(m)
    PROVE  record[1] = "applied"
<1>1. 1 \in 1 .. m - 1
  BY DEF Migrations
<1>2. record[1] # "none" /\ record[1] # "failed"
  BY <1>1, InitIsFirst DEF IsNext, Failed
<1> QED
  BY <1>2, InitIsFirst DEF TypeOK

\* A step that leaves the tables alone keeps what they say: a start ends, or goes
\* on from where it was; it begins to recover only from a state that allows it.
LEMMA QuietStep ==
    ASSUME IndInv, TypeOK', UNCHANGED <<schema, record, forged, interrupted>>,
           NEW b \in Boots, NEW x, Become(b, x), x.mark \in {1, boots[b].mark},
           ~interrupted => (x.pc \in {"recover", "mark"} =>
                                BaselineThere \/ record[1] = "applied")
    PROVE  RecordTrue' /\ BaselineKnown' /\ ForgedHasCause'
<1> USE DEF IndInv, TypeOK, Become
<1>1. \A c \in Boots : boots'[c] = IF c = b THEN x ELSE boots[c]
  OBVIOUS
<1>2. RecordTrue'
  BY <1>1 DEF RecordTrue
<1>3. BaselineKnown'
  BY <1>1 DEF BaselineKnown, Recovering, BaselineThere
<1>4. ForgedHasCause'
  BY DEF ForgedHasCause
<1> QED
  BY <1>2, <1>3, <1>4

\* A refused history may be recovered: what failed is init, with its baseline in
\* the schema, or init is applied.
LEMMA MayRecover ==
    ASSUME IndInv, ~interrupted, NEW m \in Migrations, record[m] = "failed"
    PROVE  BaselineThere \/ record[1] = "applied"
<1>1. CASE m = 1
  BY <1>1 DEF IndInv, BaselineKnown
<1>2. CASE m # 1
  BY <1>2 DEF IndInv, RecordTrue
<1> QED
  BY <1>1, <1>2

\* An API without a lock timeout was started on a complete record, which stays
\* complete; and one start migrates at a time.
LEMMA BootStep == IndInv /\ [Next]_vars => BootConsistent'
<1> SUFFICES ASSUME IndInv, [Next]_vars PROVE BootConsistent'
  OBVIOUS
<1> USE DEF IndInv, TypeOK, Become
<1>1. Deployed => Deployed'
  BY AppliedStays DEF Deployed
<1>2. ASSUME NEW b \in Boots, NEW x, Become(b, x),
             x.pc = "api" /\ ~x.timedOut => Deployed,
             x.pc = "migrating" => lock' = b,
             lock' # lock => lock = None \/ lock = b
      PROVE  BootConsistent'
  <2>1. \A c \in Boots : boots'[c] = IF c = b THEN x ELSE boots[c]
    BY <1>2
  <2>2. ASSUME NEW c \in Boots, boots'[c].pc = "migrating" PROVE lock' = c
    BY <1>2, <2>1, <2>2 DEF BootConsistent, At
  <2>3. ASSUME NEW c \in Boots, boots'[c].pc = "api", ~boots'[c].timedOut PROVE Deployed'
    BY <1>1, <1>2, <2>1, <2>3 DEF BootConsistent, At
  <2> QED
    BY <2>2, <2>3 DEF BootConsistent, At
<1>3. CASE UNCHANGED vars
  BY <1>1, <1>3 DEF vars, BootConsistent, At
<1>4. ASSUME NEW b \in Boots, Start(b) PROVE BootConsistent'
  BY <1>2, <1>4 DEF Start, Down
<1>5. ASSUME NEW b \in Boots, LockTimeout(b) PROVE BootConsistent'
  <2>1. [boots[b] EXCEPT !.pc = "api", !.timedOut = TRUE].timedOut
    BY DEF Boot
  <2>2. [boots[b] EXCEPT !.pc = "api", !.timedOut = TRUE].pc = "api"
    BY DEF Boot
  <2> QED
    BY <1>2, <1>5, <2>1, <2>2 DEF LockTimeout
<1>6. ASSUME NEW b \in Boots, TakeLock(b) PROVE BootConsistent'
  <2>1. [boots[b] EXCEPT !.pc = "migrating"].pc = "migrating"
    BY DEF Boot
  <2> QED
    BY <1>2, <1>6, <2>1 DEF TakeLock
<1>7. ASSUME NEW b \in Boots, At(b, "migrating"), BaselineConflict(b) PROVE BootConsistent'
  <2>1. lock = b
    BY <1>7 DEF BootConsistent
  <2>2. /\ Down.pc = "down"
        /\ [boots[b] EXCEPT !.pc = "recover"].pc = "recover"
    BY DEF Boot, Down
  <2>3. CASE boots[b].try = 1
    BY <1>2, <1>7, <2>1, <2>2, <2>3 DEF BaselineConflict
  <2>4. CASE boots[b].try # 1
    BY <1>2, <1>7, <2>1, <2>2, <2>4 DEF BaselineConflict
  <2> QED
    BY <2>3, <2>4
<1>8. ASSUME NEW b \in Boots, DeploySucceeds(b) PROVE BootConsistent'
  <2>1. [boots[b] EXCEPT !.pc = "api"].pc = "api"
    BY DEF Boot
  <2> QED
    BY <1>2, <1>8, <2>1 DEF DeploySucceeds, BootConsistent
<1>9. ASSUME NEW b \in Boots, Become(b, Down), lock' = lock \/ lock = b
      PROVE  BootConsistent'
  BY <1>2, <1>9 DEF Down
<1>10. ASSUME NEW b \in Boots, NEW done \in BOOLEAN, ClearInit(b, done)
       PROVE  BootConsistent'
  <2>1. [boots[b] EXCEPT !.pc = "mark"].pc = "mark"
    BY DEF Boot
  <2> QED
    BY <1>2, <1>10, <2>1 DEF ClearInit
<1>11. ASSUME NEW b \in Boots, MarkApplied(b) PROVE BootConsistent'
  <2>1. [boots[b] EXCEPT !.mark = boots[b].mark + 1].pc = "mark"
    BY <1>11 DEF MarkApplied, At, Boot
  <2> QED
    BY <1>2, <1>11, <2>1 DEF MarkApplied
<1>12. ASSUME NEW b \in Boots, Retry(b) PROVE BootConsistent'
  <2>1. [boots[b] EXCEPT !.pc = "deploy", !.try = 2].pc = "deploy"
    BY DEF Boot
  <2> QED
    BY <1>2, <1>12, <2>1 DEF Retry
<1>13. ASSUME UNCHANGED boots, lock' = lock \/ ~At(lock, "migrating")
       PROVE  BootConsistent'
  BY <1>1, <1>13 DEF BootConsistent, At
<1> QED
  BY <1>3, <1>4, <1>5, <1>6, <1>7, <1>8, <1>9, <1>10, <1>11, <1>12, <1>13
     DEF Next, Migrate, MigrationFails, DieMigrating, HistoryRefused, OtherError,
         MarkRefused, Die, LockExpires

\* The tables go on saying the truth: init is recorded before any other, what is
\* marked without being there is marked only after a start died in init.
LEMMA TableStep ==
    IndInv /\ TypeOK' /\ [Next]_vars => RecordTrue' /\ BaselineKnown' /\ ForgedHasCause'
<1> DEFINE Goal == RecordTrue /\ BaselineKnown /\ ForgedHasCause
<1> SUFFICES ASSUME IndInv, TypeOK', [Next]_vars PROVE Goal'
  OBVIOUS
<1> USE DEF IndInv, TypeOK, Become
<1>1. ASSUME UNCHANGED <<schema, record, boots, forged, interrupted>> PROVE Goal'
  BY <1>1 DEF RecordTrue, BaselineKnown, ForgedHasCause, Recovering, BaselineThere
<1>2. ASSUME NEW b \in Boots, Become(b, Down),
             UNCHANGED <<schema, record, forged, interrupted>>
      PROVE  Goal'
  BY <1>2, QuietStep DEF Down
<1>3. ASSUME NEW b \in Boots, Start(b) PROVE Goal'
  BY <1>3, QuietStep DEF Start, Down
<1>4. ASSUME NEW b \in Boots,
             NEW pc \in {"deploy", "migrating", "api"}, NEW try, NEW late,
             Become(b, [boots[b] EXCEPT !.pc = pc, !.try = try, !.timedOut = late]),
             UNCHANGED <<schema, record, forged, interrupted>>
      PROVE  Goal'
  <2>1. /\ [boots[b] EXCEPT !.pc = pc, !.try = try, !.timedOut = late].pc = pc
        /\ [boots[b] EXCEPT !.pc = pc, !.try = try, !.timedOut = late].mark = boots[b].mark
    BY DEF Boot
  <2> QED
    BY <1>4, <2>1, QuietStep
<1>5. ASSUME NEW b \in Boots, LockTimeout(b) \/ TakeLock(b) \/ DeploySucceeds(b) \/ Retry(b)
      PROVE  Goal'
  <2>1. CASE LockTimeout(b)
    <3>1. [boots[b] EXCEPT !.pc = "api", !.timedOut = TRUE]
            = [boots[b] EXCEPT !.pc = "api", !.try = boots[b].try, !.timedOut = TRUE]
      BY DEF Boot
    <3> QED
      BY <1>4, <2>1, <3>1 DEF LockTimeout
  <2>2. CASE TakeLock(b)
    <3>1. [boots[b] EXCEPT !.pc = "migrating"]
            = [boots[b] EXCEPT !.pc = "migrating", !.try = boots[b].try,
                               !.timedOut = boots[b].timedOut]
      BY DEF Boot
    <3> QED
      BY <1>4, <2>2, <3>1 DEF TakeLock
  <2>3. CASE DeploySucceeds(b)
    <3>1. [boots[b] EXCEPT !.pc = "api"]
            = [boots[b] EXCEPT !.pc = "api", !.try = boots[b].try,
                               !.timedOut = boots[b].timedOut]
      BY DEF Boot
    <3> QED
      BY <1>4, <2>3, <3>1 DEF DeploySucceeds
  <2>4. CASE Retry(b)
    <3>1. [boots[b] EXCEPT !.pc = "deploy", !.try = 2]
            = [boots[b] EXCEPT !.pc = "deploy", !.try = 2, !.timedOut = boots[b].timedOut]
      BY DEF Boot
    <3> QED
      BY <1>4, <2>4, <3>1 DEF Retry
  <2> QED
    BY <1>5, <2>1, <2>2, <2>3, <2>4
<1>6. ASSUME NEW b \in Boots, NEW m \in Migrations, Migrate(b, m) PROVE Goal'
  <2>1. m # 1 => record[1] = "applied"
    BY <1>6, AfterInit DEF Migrate
  <2>2. record'[1] = "applied"
    BY <1>6, <2>1, InitIsFirst DEF Migrate
  <2>3. RecordTrue'
    BY <1>6, <2>2 DEF RecordTrue, Migrate
  <2>4. BaselineKnown'
    BY <1>6, <2>2 DEF BaselineKnown, Recovering, BaselineThere, Migrate
  <2> QED
    BY <1>6, <2>3, <2>4 DEF ForgedHasCause, Migrate
<1>7. ASSUME NEW b \in Boots, BaselineConflict(b),
             UNCHANGED <<schema, record, forged, interrupted>>,
             ~interrupted => BaselineThere \/ record[1] = "applied"
      PROVE  Goal'
  <2>1. /\ [boots[b] EXCEPT !.pc = "recover"].pc = "recover"
        /\ [boots[b] EXCEPT !.pc = "recover"].mark = boots[b].mark
    BY DEF Boot
  <2>2. CASE boots[b].try = 1
    BY <1>7, <2>1, <2>2, QuietStep DEF BaselineConflict
  <2>3. CASE boots[b].try # 1
    BY <1>2, <1>7, <2>3 DEF BaselineConflict
  <2> QED
    BY <2>2, <2>3
<1>8. ASSUME NEW b \in Boots, HistoryRefused(b) PROVE Goal'
  BY <1>7, <1>8, MayRecover DEF HistoryRefused, Failed
<1>9. ASSUME NEW b \in Boots, NEW done \in BOOLEAN, ClearInit(b, done) PROVE Goal'
  <2> DEFINE x == [boots[b] EXCEPT !.pc = "mark"]
  <2>1. x.pc = "mark" /\ x.mark = boots[b].mark
    BY DEF Boot
  <2>2. \A c \in Boots : boots'[c] = IF c = b THEN x ELSE boots[c]
    BY <1>9 DEF ClearInit
  <2>3. CASE record' = record
    BY <1>9, <2>1, <2>3, QuietStep DEF ClearInit, BaselineKnown, Recovering, At
  <2>4. CASE record[1] = "failed" /\ record' = [record EXCEPT ![1] = "none"]
    <3>1. RecordTrue'
      BY <1>9, <2>1, <2>2, <2>4, InitIsFirst DEF RecordTrue, ClearInit
    <3>2. BaselineKnown'
      BY <1>9, <2>1, <2>2, <2>4, InitIsFirst
         DEF BaselineKnown, Recovering, BaselineThere, ClearInit
    <3> QED
      BY <1>9, <3>1, <3>2 DEF ForgedHasCause, ClearInit
  <2> QED
    BY <1>9, <2>3, <2>4 DEF ClearInit, Cleared
<1>10. ASSUME NEW b \in Boots, MarkApplied(b) PROVE Goal'
  <2> DEFINE m == boots[b].mark
             x == [boots[b] EXCEPT !.mark = m + 1]
  <2>1. m \in Migrations /\ m \in 1 .. Baseline /\ (m = 1 \/ m > 1)
    BY <1>10 DEF MarkApplied, Listed, Boot, Migrations
  <2>2. x.pc = "mark" /\ x.mark = m + 1
    BY <1>10 DEF MarkApplied, At, Boot
  <2>3. \A c \in Boots : boots'[c] = IF c = b THEN x ELSE boots[c]
    BY <1>10 DEF MarkApplied
  <2>4. /\ \A k \in Migrations : record'[k] = IF k = m THEN "applied" ELSE record[k]
        /\ schema' = schema /\ forged' = forged \union ({m} \ schema)
        /\ interrupted' = interrupted
    BY <1>10 DEF MarkApplied
  <2>5. record'[1] = "applied"
    BY <2>1, <2>4, InitIsFirst DEF RecordTrue
  <2>6. RecordTrue'
    <3>1. \A k \in Migrations : record'[k] = "applied" => k \in schema' \union forged'
      BY <2>1, <2>4 DEF RecordTrue
    <3> QED
      BY <2>5, <3>1 DEF RecordTrue
  <2>7. ~interrupted => BaselineThere
    BY <1>10, <2>1 DEF MarkApplied, Markable, BaselineKnown, Recovering, At
  <2>8. BaselineKnown'
    BY <2>4, <2>5, <2>7 DEF BaselineKnown, BaselineThere
  <2>9. ForgedHasCause'
    BY <2>1, <2>4, <2>7 DEF ForgedHasCause, BaselineThere
  <2> QED
    BY <2>6, <2>8, <2>9
<1>11. ASSUME NEW b \in Boots, NEW m \in Migrations, MigrationFails(b, m) PROVE Goal'
  <2>1. CASE m = 1
    <3>1. /\ record[1] = "none" /\ record'[1] = "failed"
          /\ \A k \in Migrations \ {1} : record'[k] = record[k]
      BY <1>11, <2>1, InitIsFirst DEF MigrationFails, IsNext
    <3>2. 1 \in schema
      BY <1>11, <2>1, InitWorks DEF MigrationFails
    <3>3. ~interrupted => BaselineThere
      BY <3>1, <3>2 DEF BaselineKnown
    <3>4. \A c \in Boots : boots'[c].mark \in {1, boots[c].mark}
      BY <1>11 DEF MigrationFails, BaselineConflict, Down, Boot
    <3>5. \A c \in Boots : boots[c].mark > 1 => FALSE
      BY <3>1 DEF RecordTrue
    <3>6. RecordTrue'
      BY <1>11, <3>1, <3>4, <3>5 DEF RecordTrue, MigrationFails
    <3>7. BaselineKnown'
      BY <1>11, <3>3, <3>4 DEF BaselineKnown, BaselineThere, MigrationFails
    <3> QED
      BY <1>11, <3>6, <3>7 DEF ForgedHasCause, MigrationFails
  <2>2. CASE m # 1
    <3>1. record[1] = "applied" /\ record'[1] = "applied"
      BY <1>11, <2>2, AfterInit, InitIsFirst DEF MigrationFails
    <3>2. \A c \in Boots : boots'[c].mark \in {1, boots[c].mark}
      BY <1>11 DEF MigrationFails, BaselineConflict, Down, Boot
    <3>3. RecordTrue'
      BY <1>11, <3>1 DEF RecordTrue, MigrationFails
    <3>4. BaselineKnown'
      BY <1>11, <3>1, <3>2 DEF BaselineKnown, BaselineThere, MigrationFails
    <3> QED
      BY <1>11, <3>3, <3>4 DEF ForgedHasCause, MigrationFails
  <2> QED
    BY <2>1, <2>2
<1>12. ASSUME NEW b \in Boots, NEW m \in Migrations, DieMigrating(b, m) PROVE Goal'
  <2>1. /\ \A c \in Boots : boots'[c] = IF c = b THEN Down ELSE boots[c]
        /\ schema \subseteq schema' /\ forged' = forged
        /\ record' = [record EXCEPT ![m] = "failed"]
        /\ interrupted' = (interrupted \/ m = 1)
    BY <1>12 DEF DieMigrating
  <2>2. CASE m = 1
    <3>1. \A c \in Boots : boots[c].mark > 1 => FALSE
      BY <1>12, <2>2, InitIsFirst DEF RecordTrue, DieMigrating, IsNext
    <3>2. RecordTrue'
      BY <1>12, <2>1, <2>2, <3>1, InitIsFirst DEF RecordTrue, Down, DieMigrating, IsNext
    <3> QED
      BY <2>1, <2>2, <3>2 DEF BaselineKnown, ForgedHasCause
  <2>3. CASE m # 1
    <3>1. record[1] = "applied" /\ record'[1] = "applied"
      BY <1>12, <2>1, <2>3, AfterInit, InitIsFirst DEF DieMigrating
    <3>2. RecordTrue'
      BY <2>1, <3>1 DEF RecordTrue
    <3>3. BaselineKnown'
      BY <2>1, <2>3, <3>1 DEF BaselineKnown, BaselineThere, Down
    <3> QED
      BY <2>1, <2>3, <3>2, <3>3 DEF ForgedHasCause
  <2> QED
    BY <2>2, <2>3
<1> QED
  BY <1>1, <1>2, <1>3, <1>5, <1>6, <1>8, <1>9, <1>10, <1>11, <1>12 DEF Next, vars,
     OtherError, MarkRefused, Die, LockExpires
-----------------------------------------------------------------------------
\* The inductive invariant of the deployment (prisma-safe-deploy.mjs:71): the
\* record says what is there or forged, and a database that can be recovered
\* has the baseline, unless a start was killed in init.
THEOREM Invariant == Spec => []IndInv
<1>1. Init => IndInv
  <2> SUFFICES ASSUME Init PROVE IndInv
    OBVIOUS
  <2>1. TypeOK
    <3>1. schema \subseteq Migrations /\ record \in [Migrations -> {"none", "failed", "applied"}]
      <4>1. ASSUME NEW k \in 0 .. Last, schema = 1 .. k,
                   record = [m \in Migrations |-> IF m <= k THEN "applied" ELSE "none"]
            PROVE  schema \subseteq Migrations
                   /\ record \in [Migrations -> {"none", "failed", "applied"}]
        BY <4>1 DEF Migrations
      <4>2. ASSUME schema = 1 .. Baseline,
                   record = [m \in Migrations |-> IF m = 1 THEN "failed" ELSE "none"]
            PROVE  schema \subseteq Migrations
                   /\ record \in [Migrations -> {"none", "failed", "applied"}]
        BY <4>2 DEF Migrations
      <4> QED
        BY <4>1, <4>2 DEF Init
    <3>2. boots \in [Boots -> Boot]
      BY DownType DEF Init
    <3> QED
      BY <3>1, <3>2 DEF Init, TypeOK
  <2>2. RecordTrue
    BY InitIsFirst DEF Init, RecordTrue, Down, Migrations
  <2>3. BaselineKnown
    BY InitIsFirst DEF Init, BaselineKnown, BaselineThere, Recovering, Down, Migrations
  <2>4. BootConsistent /\ ApiHasSchema
    BY DEF Init, BootConsistent, ApiHasSchema, At, Down
  <2> QED
    BY <2>1, <2>2, <2>3, <2>4 DEF Init, IndInv, ForgedHasCause
<1>2. IndInv /\ [Next]_vars => IndInv'
  <2> SUFFICES ASSUME IndInv, [Next]_vars PROVE IndInv'
    OBVIOUS
  <2>1. TypeOK'
    BY TypeStep DEF IndInv
  <2>2. RecordTrue' /\ BaselineKnown' /\ ForgedHasCause'
    BY <2>1, TableStep
  <2>3. BootConsistent'
    BY BootStep
  <2>4. ApiHasSchema'
    BY <2>1, <2>2, <2>3 DEF TypeOK, RecordTrue, BootConsistent, ApiHasSchema, Deployed
  <2> QED
    BY <2>1, <2>2, <2>3, <2>4 DEF IndInv
<1> QED
  BY <1>1, <1>2, PTL DEF Spec

\* "The baseline recovery only marks known existing migrations as applied", but
\* for a database on which a start was killed in init (prisma-safe-deploy.mjs:116).
THEOREM MarksExisting == Spec => []ForgedHasCause
<1>1. IndInv => ForgedHasCause
  BY DEF IndInv
<1> QED
  BY <1>1, Invariant, PTL

\* An API that no lock timeout let through has its whole schema, but for what
\* was forged (prisma-safe-deploy.mjs:82, render-start.mjs).
THEOREM ApiServesSchema == Spec => []ApiHasSchema
<1>1. IndInv => ApiHasSchema
  BY DEF IndInv
<1> QED
  BY <1>1, Invariant, PTL

\* No start takes back what is recorded as applied (prisma-safe-deploy.mjs:111).
THEOREM HistoryNeverLost == Spec => HistoryKept
<1>1. IndInv /\ [Next]_vars =>
          [\A m \in Migrations : record[m] = "applied" => record'[m] = "applied"]_vars
  BY AppliedStays DEF IndInv
<1> QED
  BY <1>1, Invariant, PTL DEF Spec, HistoryKept
=============================================================================
