------------------------------- MODULE Deploy -------------------------------
(***************************************************************************)
(* Starting the API: prisma-safe-deploy.mjs brings the schema up to date,  *)
(* repairs the migration history of a database that was imported, and lets *)
(* the API start (render-start.mjs).  Old and new instances may start at   *)
(* the same time, and any of them may be killed.                           *)
(*                                                                         *)
(* The Prisma CLI is external.  What it does here: `migrate deploy` and    *)
(* `migrate resolve` hold an advisory lock while they run; deploy refuses  *)
(* a history with a failed migration (P3009), else runs what is not        *)
(* recorded, in order, and records a script that fails as failed (P3018);  *)
(* resolve refuses a migration that is recorded as applied (P3008).        *)
(***************************************************************************)
EXTENDS Naturals

CONSTANTS
    Boots,     \* starts of the API that may overlap
    Last,      \* the migrations are 1 .. Last in order, 1 is init
    Baseline,  \* 1 .. Baseline are the script's baselineMigrations
    None

ASSUME DeployAssumption ==
    Last \in Nat /\ Baseline \in 1 .. Last /\ None \notin Boots

Migrations == 1 .. Last

VARIABLES
    schema,       \* migrations whose effect is in the database
    record,       \* table _prisma_migrations
    lock,         \* who holds, or died with, the advisory lock
    boots,        \* the script's state in each start
    forged,       \* history: recorded as applied while not in the schema
    interrupted   \* history: a start was killed while init was running

vars == <<schema, record, lock, boots, forged, interrupted>>

\* try: which of the two `migrate deploy`; mark: the next migration to resolve;
\* timedOut: the API was started although the lock was not obtained.
Boot == [pc : {"down", "deploy", "migrating", "recover", "mark", "api"},
         try : {1, 2}, mark : 1 .. Last + 1, timedOut : BOOLEAN]
Down == [pc |-> "down", try |-> 1, mark |-> 1, timedOut |-> FALSE]

TypeOK ==
    /\ schema \subseteq Migrations
    /\ record \in [Migrations -> {"none", "failed", "applied"}]
    /\ lock \in Boots \union {None}
    /\ boots \in [Boots -> Boot]
    /\ forged \subseteq Migrations
    /\ interrupted \in BOOLEAN

\* A new database; one that earlier deployments have migrated; or the imported
\* one, whose objects were there when init was recorded as failed.
Init ==
    /\ \/ \E k \in 0 .. Last :
             /\ schema = 1 .. k
             /\ record = [m \in Migrations |-> IF m <= k THEN "applied" ELSE "none"]
       \/ /\ schema = 1 .. Baseline
          /\ record = [m \in Migrations |-> IF m = 1 THEN "failed" ELSE "none"]
    /\ lock = None
    /\ boots = [b \in Boots |-> Down]
    /\ forged = {}
    /\ interrupted = FALSE
-----------------------------------------------------------------------------
At(b, pc) == boots[b].pc = pc
Become(b, x) == boots' = [boots EXCEPT ![b] = x]

Failed == {m \in Migrations : record[m] = "failed"}
IsNext(m) == record[m] = "none" /\ \A k \in 1 .. m - 1 : record[k] # "none"

\* All but the first alter what init creates; the baseline's statements do not
\* stand being repeated, later ones do (IF NOT EXISTS).
Works(m) == (m # 1 => 1 \in schema) /\ (m \in schema => m > Baseline)

Start(b) ==
    /\ At(b, "down")
    /\ Become(b, [Down EXCEPT !.pc = "deploy"])
    /\ UNCHANGED <<schema, record, lock, forged, interrupted>>

\* P1002 and nothing else: warn, and start the API.
LockTimeout(b) ==
    /\ At(b, "deploy") /\ lock # None
    /\ Become(b, [boots[b] EXCEPT !.pc = "api", !.timedOut = TRUE])
    /\ UNCHANGED <<schema, record, lock, forged, interrupted>>

TakeLock(b) ==
    /\ At(b, "deploy") /\ lock = None
    /\ lock' = b
    /\ Become(b, [boots[b] EXCEPT !.pc = "migrating"])
    /\ UNCHANGED <<schema, record, forged, interrupted>>

Migrate(b, m) ==
    /\ At(b, "migrating")
    /\ Failed = {} /\ IsNext(m) /\ Works(m)
    /\ schema' = schema \union {m}
    /\ record' = [record EXCEPT ![m] = "applied"]
    /\ UNCHANGED <<lock, boots, forged, interrupted>>

\* The status of the second deploy is not looked at.
BaselineConflictBug(b) ==
    /\ Become(b, [boots[b] EXCEPT !.pc = IF boots[b].try = 1 THEN "recover" ELSE "api"])
    /\ lock' = None

\* P3009, P3018, "UserRole" already exists: recover after the first deploy, give
\* up after the second.
BaselineConflict(b) ==
    /\ Become(b, IF boots[b].try = 1 THEN [boots[b] EXCEPT !.pc = "recover"] ELSE Down)
    /\ lock' = None

MigrationFails(b, m) ==
    /\ At(b, "migrating")
    /\ Failed = {} /\ IsNext(m) /\ ~Works(m)
    /\ record' = [record EXCEPT ![m] = "failed"]
    /\ BaselineConflict(b)
    /\ UNCHANGED <<schema, forged, interrupted>>

HistoryRefused(b) ==
    /\ At(b, "migrating")
    /\ Failed # {}
    /\ BaselineConflict(b)
    /\ UNCHANGED <<schema, record, forged, interrupted>>

Deployed == \A m \in Migrations : record[m] = "applied"

\* Status 0: the API starts.
DeploySucceeds(b) ==
    /\ At(b, "migrating")
    /\ Deployed
    /\ lock' = None
    /\ Become(b, [boots[b] EXCEPT !.pc = "api"])
    /\ UNCHANGED <<schema, record, forged, interrupted>>

\* Any other error: the script exits, and with it the start.
OtherError(b) ==
    /\ boots[b].pc \in {"deploy", "migrating", "mark"}
    /\ Become(b, Down)
    /\ lock' = IF lock = b THEN None ELSE lock
    /\ UNCHANGED <<schema, record, forged, interrupted>>
-----------------------------------------------------------------------------
(***************************************************************************)
(* recoverBaselineHistory.                                                 *)
(***************************************************************************)
\* Whatever its state.
ClearedBug(m) == TRUE
Cleared(m) == record[m] = "failed"

\* resolve --rolled-back init; that it fails is ignored.
ClearInit(b, done) ==
    /\ At(b, "recover")
    /\ done => lock = None
    /\ record' = IF done /\ Cleared(1) THEN [record EXCEPT ![1] = "none"] ELSE record
    /\ Become(b, [boots[b] EXCEPT !.pc = "mark"])
    /\ UNCHANGED <<schema, lock, forged, interrupted>>

\* Every migration of the directory.
ListedBug(m) == m <= Last
Listed(m) == m <= Baseline

Markable(m) == record[m] # "applied"

\* resolve --applied for each of the baseline; that one fails ends the script.
MarkApplied(b) ==
    LET m == boots[b].mark IN
    /\ At(b, "mark") /\ Listed(m)
    /\ lock = None
    /\ Markable(m)
    /\ record' = [record EXCEPT ![m] = "applied"]
    /\ forged' = forged \union ({m} \ schema)
    /\ Become(b, [boots[b] EXCEPT !.mark = m + 1])
    /\ UNCHANGED <<schema, lock, interrupted>>

MarkRefused(b) ==
    /\ At(b, "mark") /\ Listed(boots[b].mark)
    /\ ~Markable(boots[b].mark)
    /\ Become(b, Down)
    /\ UNCHANGED <<schema, record, lock, forged, interrupted>>

Retry(b) ==
    /\ At(b, "mark") /\ ~Listed(boots[b].mark)
    /\ Become(b, [boots[b] EXCEPT !.pc = "deploy", !.try = 2])
    /\ UNCHANGED <<schema, record, lock, forged, interrupted>>
-----------------------------------------------------------------------------
\* The process is killed; the database keeps its lock for a while.
Die(b) ==
    /\ ~At(b, "down")
    /\ Become(b, Down)
    /\ UNCHANGED <<schema, record, lock, forged, interrupted>>

\* Killed while migration m runs: a row without an end is a failed one, and
\* the script may have been committed.
DieMigrating(b, m) ==
    /\ At(b, "migrating")
    /\ Failed = {} /\ IsNext(m)
    /\ record' = [record EXCEPT ![m] = "failed"]
    /\ \/ schema' = schema
       \/ Works(m) /\ schema' = schema \union {m}
    /\ interrupted' = (interrupted \/ m = 1)
    /\ Become(b, Down)
    /\ UNCHANGED <<lock, forged>>

LockExpires ==
    /\ lock # None /\ ~At(lock, "migrating")
    /\ lock' = None
    /\ UNCHANGED <<schema, record, boots, forged, interrupted>>

Next ==
    \/ \E b \in Boots :
          \/ Start(b) \/ LockTimeout(b) \/ TakeLock(b)
          \/ \E m \in Migrations : Migrate(b, m) \/ MigrationFails(b, m) \/ DieMigrating(b, m)
          \/ HistoryRefused(b) \/ DeploySucceeds(b) \/ OtherError(b)
          \/ \E done \in BOOLEAN : ClearInit(b, done)
          \/ MarkApplied(b) \/ MarkRefused(b) \/ Retry(b) \/ Die(b)
    \/ LockExpires

Spec == Init /\ [][Next]_vars
-----------------------------------------------------------------------------
(***************************************************************************)
(* Properties.                                                             *)
(***************************************************************************)
\* "The baseline recovery only marks known existing migrations as applied"
\* (MIGRATION_STARTUP_FIX.md:19).  It marks what is not there only on a database
\* on which a start was killed while it ran init; neither overlapping starts
\* nor recoveries that are cut short lead there (prisma-safe-deploy.mjs:116).
ForgedHasCause == forged # {} => interrupted

\* "Non-lock schema errors still fail startup" (MIGRATION_STARTUP_FIX.md:13): an
\* API that was not let through by a lock timeout has its whole schema, but
\* for what a recovery has forged.
ApiHasSchema ==
    \A b \in Boots : At(b, "api") /\ ~boots[b].timedOut =>
        Migrations \ schema \subseteq forged

\* No start takes back what is recorded as applied (MIGRATION_STARTUP_FIX.md:19:
\* it does not "delete migration history"), whichever of them recover, deploy
\* and die in between (prisma-safe-deploy.mjs:111).
HistoryKept ==
    [][\A m \in Migrations : record[m] = "applied" => record'[m] = "applied"]_vars

\* What is recorded is there, or forged; nothing is recorded before init.
RecordTrue ==
    /\ \A m \in Migrations : record[m] = "applied" => m \in schema \union forged
    /\ record[1] # "applied" => \A m \in Migrations \ {1} : record[m] = "none"
    /\ \A b \in Boots : boots[b].mark > 1 => record[1] = "applied"

\* While no start was killed in init, a database that holds what init creates
\* without its record has the whole baseline, and so has one that is recovered.
Recovering(b) == boots[b].pc \in {"recover", "mark"}
BaselineThere == 1 .. Baseline \subseteq schema

BaselineKnown ==
    ~interrupted =>
        /\ record[1] = "failed" \/ (record[1] = "none" /\ 1 \in schema) => BaselineThere
        /\ \A b \in Boots : Recovering(b) => BaselineThere \/ record[1] = "applied"
        /\ \A b \in Boots : boots[b].mark > 1 => BaselineThere

BootConsistent ==
    /\ \A b \in Boots : At(b, "api") /\ ~boots[b].timedOut => Deployed
    /\ \A b \in Boots : At(b, "migrating") => lock = b

IndInv ==
    /\ TypeOK
    /\ RecordTrue
    /\ BaselineKnown
    /\ BootConsistent
    /\ ForgedHasCause
    /\ ApiHasSchema
=============================================================================
