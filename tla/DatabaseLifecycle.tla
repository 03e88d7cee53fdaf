-------------------------- MODULE DatabaseLifecycle --------------------------
(***************************************************************************)
(* The lifecycle scripts of a generated database runtime: db-bootstrap.sh, *)
(* db-migrate.sh and db-bootstrap-or-migrate.sh, which keep a snapshot of  *)
(* what they believe the database to be, beside `topogram generate`, which *)
(* replaces the directory the scripts and, by default, the snapshot are in.*)
(*                                                                         *)
(* A script compares the names of the live tables with its snapshot and    *)
(* nothing more.  psql commits statement by statement.                     *)
(***************************************************************************)
EXTENDS SchemaMigration

CONSTANTS
    Version, Wanted,   \* Wanted[v]: the schema of version v of the workspace
    InitVersion,
    StatePath,         \* "bundle": beside the scripts; "app", "project": configured,
                       \* inside or outside the generated application
    MaxEdits,          \* bound: how often humans change the workspace or the database
    MaxFaults          \* bound: kills, and reads of an unreachable database

ASSUME LifecycleAssumption ==
    /\ Wanted \in [Version -> Schema] /\ InitVersion \in Version
    /\ StatePath \in {"bundle", "app", "project"}
    /\ MaxEdits \in Nat /\ MaxFaults \in Nat
    /\ Absent \notin Version \cup Schema

VARIABLES
    want,      \* the version of the workspace
    bundle,    \* the version the scripts and their Prisma schema were generated from
    live,      \* the schema of the database
    current,   \* current.snapshot.json
    run,       \* the command that is running
    edits, faults,
    suspect    \* history: the snapshot was guessed from table names, or a Prisma
               \* schema of another version was pushed, and nothing has settled it since

vars == <<want, bundle, live, current, run, edits, faults, suspect>>

Idle == [script |-> "none", pc |-> "idle", from |-> NoTables, to |-> NoTables, v |-> InitVersion,
         todo |-> {}, guess |-> FALSE, fresh |-> FALSE, start |-> NoTables]
At(pc) == run.pc = pc

\* The scripts of the runtime look for the snapshot beside them; db-common.sh
\* looks where it is configured.
WrapperSeesState == StatePath = "bundle"
GenerateRemovesState == StatePath # "project"
-----------------------------------------------------------------------------
(* The scripts *)

\* A start script that sees the snapshot becomes db-migrate.sh.
Begin(script) ==
    /\ At("idle") /\ bundle # Absent
    /\ script = "bootstrap" => current = Absent
    /\ script = "migrate" => current # Absent
    /\ LET migrates == \/ script = "migrate"
                       \/ script = "bootstrap-or-migrate" /\ WrapperSeesState /\ current # Absent
       IN run' = [Idle EXCEPT !.start = live,
                              !.script = IF migrates THEN "migrate" ELSE script,
                              !.pc = IF migrates THEN "migrate" ELSE "reconcile"]
    /\ UNCHANGED <<want, bundle, live, current, edits, faults, suspect>>

\* list_live_tables_json; what it fails to read is an empty list to its callers.
Look(seen) ==
    \/ seen = Tables(live) /\ UNCHANGED faults
    \/ seen = {} /\ Tables(live) # {} /\ faults < MaxFaults /\ faults' = faults + 1

\* reconcile_existing_database_snapshot: the names of the tables match.
RecordUnseen ==
    /\ At("reconcile")
    /\ \E seen \in SUBSET Table :
          /\ Look(seen) /\ seen # {} /\ seen = Tables(Wanted[want])
    /\ run' = [run EXCEPT !.pc = "push", !.to = Wanted[want], !.v = want, !.guess = TRUE]
    /\ suspect' = TRUE
    /\ UNCHANGED <<want, bundle, live, current, edits>>

\* Some other tables are there: they are read again for a guess.
Unmatched ==
    /\ At("reconcile")
    /\ \E seen \in SUBSET Table : Look(seen) /\ seen # {} /\ seen # Tables(Wanted[want])
    /\ run' = [run EXCEPT !.pc = "infer"]
    /\ UNCHANGED <<want, bundle, live, current, edits, suspect>>

\* Mutant: the statements are those of the schema the bundle was generated from.
GreenfieldOfBundle ==
    /\ At("reconcile")
    /\ Look({})
    /\ run' = IF run.script = "bootstrap-or-migrate"
                THEN IF current = Absent THEN [run EXCEPT !.script = "bootstrap"] ELSE Idle
                ELSE [run EXCEPT !.pc = "sql", !.from = NoTables, !.to = Wanted[want], !.v = want,
                                 !.todo = Operations(NoTables, Wanted[bundle])]
    /\ UNCHANGED <<want, bundle, live, current, edits, suspect>>

\* No tables: db-bootstrap.sh looks again and sets the database up from nothing.
Greenfield ==
    /\ At("reconcile")
    /\ Look({})
    /\ run' = IF run.script = "bootstrap-or-migrate"
                THEN IF current = Absent THEN [run EXCEPT !.script = "bootstrap"] ELSE Idle
                ELSE [run EXCEPT !.pc = "sql", !.from = NoTables, !.to = Wanted[want], !.v = want,
                                 !.todo = Operations(NoTables, Wanted[want])]
    /\ UNCHANGED <<want, bundle, live, current, edits, suspect>>

\* Mutant: a database that is not what the snapshot says is left alone.
CompareRefusing ==
    /\ At("migrate")
    /\ \E seen \in SUBSET Table :
          Look(seen) /\ run' = IF seen = Tables(current) THEN [run EXCEPT !.pc = "plan"] ELSE Idle
    /\ UNCHANGED <<want, bundle, live, current, edits, suspect>>

\* Mutant: tables the snapshot does not know are overlooked.
CompareContained ==
    /\ At("migrate")
    /\ \E seen \in SUBSET Table :
          Look(seen) /\ run' = [run EXCEPT !.pc = IF Tables(current) \subseteq seen THEN "plan" ELSE "infer"]
    /\ UNCHANGED <<want, bundle, live, current, edits, suspect>>

\* current_snapshot_matches_live_database.
Compare ==
    /\ At("migrate")
    /\ \E seen \in SUBSET Table :
          Look(seen) /\ run' = [run EXCEPT !.pc = IF seen = Tables(current) THEN "plan" ELSE "infer"]
    /\ UNCHANGED <<want, bundle, live, current, edits, suspect>>

\* Mutant: no tables are a subset too.
InferableEmpty(seen) == seen \subseteq Tables(Wanted[want])

Inferable(seen) == seen # {} /\ seen \subseteq Tables(Wanted[want])

Inferred(seen) == [Wanted[want] EXCEPT !.tables =
    [t \in Table |-> IF t \in seen THEN Wanted[want].tables[t] ELSE Absent]]

\* infer_current_snapshot_from_live_tables: the tables are read a second time,
\* and the desired schema of what is there replaces the snapshot.  The start
\* scripts become db-migrate.sh.
Infer ==
    /\ At("infer")
    /\ \E seen \in SUBSET Table :
          /\ Look(seen)
          /\ \/ /\ Inferable(seen)
                /\ current' = Inferred(seen) /\ suspect' = TRUE
                /\ run' = [run EXCEPT !.script = "migrate",
                                      !.pc = IF run.script = "migrate" THEN "plan" ELSE "migrate"]
             \/ ~Inferable(seen) /\ run' = Idle /\ UNCHANGED <<current, suspect>>
    /\ UNCHANGED <<want, bundle, live, edits>>

\* Mutant: the snapshot is recorded when the plan is drawn up.
PlanAndRecord ==
    /\ At("plan")
    /\ IF ~Supported(current, Wanted[want]) THEN run' = Idle /\ UNCHANGED current
       ELSE /\ run' = [run EXCEPT !.pc = "sql", !.from = current, !.to = Wanted[want], !.v = want,
                               !.guess = suspect, !.todo = Operations(current, Wanted[want])]
            /\ current' = Wanted[want]
    /\ UNCHANGED <<want, bundle, live, edits, faults, suspect>>

\* generate_migration_plan, ensure_supported_plan, generate_sql_migration.
Plan ==
    /\ At("plan")
    /\ run' = IF ~Supported(current, Wanted[want]) THEN Idle
              ELSE [run EXCEPT !.pc = "sql", !.from = current, !.to = Wanted[want], !.v = want,
                               !.guess = suspect, !.todo = Operations(current, Wanted[want])]
    /\ UNCHANGED <<want, bundle, live, current, edits, faults, suspect>>

\* apply_sql: the next statement; the script ends at the first that fails.
Apply ==
    /\ At("sql") /\ run.todo # {}
    /\ \E op \in run.todo :
          /\ \A other \in run.todo : Rank(run.from, op) <= Rank(run.from, other)
          /\ IF Fails(live, op) THEN run' = Idle /\ UNCHANGED live
             ELSE live' = After(live, op, run.to) /\ run' = [run EXCEPT !.todo = @ \ {op}]
    /\ UNCHANGED <<want, bundle, current, edits, faults, suspect>>

Applied ==
    /\ At("sql") /\ run.todo = {}
    /\ run' = [run EXCEPT !.pc = "push"]
    /\ UNCHANGED <<want, bundle, live, current, edits, faults, suspect>>

\* TOPOGRAM_SKIP_RUNTIME_CLIENT_REFRESH.
SkipPush ==
    /\ At("push")
    /\ run' = [run EXCEPT !.pc = "record"]
    /\ UNCHANGED <<want, bundle, live, current, edits, faults, suspect>>

\* The schema `prisma db push` makes of the bundle's schema.prisma, which has
\* no unique indexes; missing enum values are appended.
Prisma(v) == [t \in Table |-> IF Wanted[v].tables[t] = Absent THEN Absent ELSE
    [p \in Part |-> IF PartKind[p] = "uniqueIndex" THEN Absent ELSE Wanted[v].tables[t][p]]]

PushedEnum(v) ==
    LET next == Wanted[v].enum IN
        IF Values(live.enum) \subseteq Values(next)
          THEN live.enum \o Kept(next, {n \in 1..Len(next) : next[n] \notin Values(live.enum)})
          ELSE next

\* refresh_runtime_clients: everything the bundle does not know is dropped
\* where it holds no data.
Push ==
    /\ At("push")
    /\ live' = [tables |-> Prisma(bundle), enum |-> PushedEnum(bundle)]
    /\ run' = [run EXCEPT !.pc = "record", !.fresh = (bundle = run.v)]
    /\ suspect' = (suspect \/ bundle # run.v)
    /\ UNCHANGED <<want, bundle, current, edits, faults>>

\* What it would drop or change holds data: Prisma refuses.
KnownToBundle(t, p) == Prisma(bundle)[t] # Absent /\ Prisma(bundle)[t][p] = live.tables[t][p]

PushRefused ==
    /\ At("push")
    /\ ~ /\ \A t \in Table, p \in Part : Has(live, t, p) => KnownToBundle(t, p)
         /\ Values(live.enum) \subseteq Values(Wanted[bundle].enum)
    /\ run' = Idle
    /\ UNCHANGED <<want, bundle, live, current, edits, faults, suspect>>

\* cp desired current, the last write of every script.
Record ==
    /\ At("record")
    /\ current' = run.to
    /\ suspect' = IF run.fresh THEN FALSE ELSE suspect \/ run.guess
    /\ run' = Idle
    /\ UNCHANGED <<want, bundle, live, edits, faults>>
-----------------------------------------------------------------------------
(* topogram generate, humans, faults *)

\* runGenerateAppCommand removes the application ...
Wipe ==
    /\ At("idle")
    /\ bundle' = Absent
    /\ IF GenerateRemovesState THEN current' = Absent /\ suspect' = FALSE ELSE UNCHANGED <<current, suspect>>
    /\ run' = [Idle EXCEPT !.script = "generate", !.pc = "write", !.v = want]
    /\ UNCHANGED <<want, live, edits, faults>>

\* ... and writes it again.
WriteBundle ==
    /\ At("write")
    /\ bundle' = run.v
    /\ run' = Idle
    /\ UNCHANGED <<want, live, current, edits, faults, suspect>>

Change(v) ==
    /\ At("idle") /\ edits < MaxEdits /\ v # want
    /\ want' = v /\ edits' = edits + 1
    /\ UNCHANGED <<bundle, live, current, run, faults, suspect>>

\* What a plan asks for by hand is done, and the snapshot brought up to date.
MigrateByHand ==
    /\ At("idle") /\ edits < MaxEdits
    /\ current # Absent /\ ~Supported(current, Wanted[want])
    /\ live' = Wanted[want] /\ current' = Wanted[want] /\ suspect' = FALSE
    /\ edits' = edits + 1
    /\ UNCHANGED <<want, bundle, run, faults>>

\* The command is killed, or the data refuses a statement; what is done stays.
Kill ==
    /\ ~At("idle") /\ faults < MaxFaults
    /\ run' = Idle /\ faults' = faults + 1
    /\ UNCHANGED <<want, bundle, live, current, edits, suspect>>
-----------------------------------------------------------------------------
Init ==
    /\ want = InitVersion /\ bundle = InitVersion
    /\ live = NoTables /\ current = Absent
    /\ run = Idle /\ edits = 0 /\ faults = 0 /\ suspect = FALSE

Scripts == {"bootstrap", "migrate", "bootstrap-or-migrate"}

\* The command goes on.
Step ==
    \/ RecordUnseen \/ Unmatched \/ Greenfield \/ Compare \/ Infer \/ Plan \/ Apply \/ Applied
    \/ SkipPush \/ Push \/ PushRefused \/ Record \/ WriteBundle

Next ==
    \/ Step \/ Kill \/ Wipe \/ MigrateByHand
    \/ \E script \in Scripts : Begin(script)
    \/ \E v \in Version : Change(v)

Spec == Init /\ [][Next]_vars

\* A command that is not killed runs on, and the application is started again
\* (its start script calls db-bootstrap-or-migrate.sh).
FairSpec == Spec /\ WF_vars(Step) /\ SF_vars(Begin("bootstrap-or-migrate"))
-----------------------------------------------------------------------------
(* Properties *)

\* Every variable has its type.
TypeOK ==
    /\ want \in Version /\ bundle \in Version \cup {Absent}
    /\ live \in Schema /\ current \in Schema \cup {Absent}
    /\ run.from \in Schema /\ run.to \in Schema /\ run.v \in Version
    /\ run.todo \subseteq Operations(run.from, run.to)
    /\ suspect \in BOOLEAN
    /\ At("plan") => current # Absent

\* The snapshot claims no column, key, index or relation the database does
\* not have, wherever the scripts are killed, unless it was guessed from table names
\* or the Prisma schema of another version was pushed.
SnapshotBehind ==
    current # Absent /\ ~suspect =>
        \A t \in Table, p \in Part :
            PartKind[p] \in Added /\ Has(current, t, p)
                => live.tables[t] # Absent /\ live.tables[t][p] = current.tables[t][p]

\* An enum as Postgres has it: no value twice.
Once(q) == \A m, n \in 1..Len(q) : q[m] = q[n] => m = n

\* What the database has beyond the previous schema came in the order of the
\* next one: an earlier attempt at it was killed, or there was none.
Resumed(prev, found, next) ==
    /\ prev = <<>> <=> found = <<>>
    /\ OnlyInserted(prev, found) /\ OnlyInserted(found, next)
    /\ \A m, n \in 1..Len(next) :
          m < n /\ next[m] \notin Values(found) => next[n] \in Values(prev) \/ next[n] \notin Values(found)

\* When the statements of a plan are through, a value the schema has before one
\* of the previous values stands where the schema has it: the values before it
\* are before it in the database, whatever a killed attempt at the same schema
\* left there.  (What an attempt at another schema left may be on the wrong side
\* of a value; values behind the last previous one come out in reverse.)
EnumInOrder ==
    [][ LET next == run.to.enum IN
        /\ At("sql") /\ run'.pc = "push"
        /\ Once(next) /\ Resumed(run.from.enum, run.start.enum, next)
        => \A m, n \in 1..Len(next) :
              /\ m < n
              /\ run.from.enum = <<>> \/ \E k \in n..Len(next) : next[k] \in Values(run.from.enum)
              => Position(live.enum, next[m]) < Position(live.enum, next[n])]_vars

\* Once workspace, scripts, snapshot and database agree, no script run, fault
\* or kill takes them apart: the guess that replaces the snapshot after a look
\* at a database that did not answer is then the snapshot that was there.
Settled ==
    /\ current = Wanted[want] /\ bundle = want
    /\ Prisma(want) = [t \in Table |-> IF live.tables[t] = Absent THEN Absent ELSE
          [p \in Part |-> IF PartKind[p] = "uniqueIndex" THEN Absent ELSE live.tables[t][p]]]
SettledStays == [][Settled /\ want' = want /\ bundle' = bundle => Settled']_vars

\* Whatever killed scripts, pushes of another version and looks at a database
\* that did not answer have left behind: no table that a migration is still to
\* create is there already, and every table it is still to extend is there or
\* still to be created.
MigrationsFit ==
    At("sql") /\ current # Absent => \A t \in Table :
        /\ CreateTable(t) \in run.todo => live.tables[t] = Absent
        /\ \A p \in Part : AddPart(t, p) \in run.todo => live.tables[t] # Absent \/ CreateTable(t) \in run.todo

\* When the workspace only gained tables, they arrive and are recorded, however
\* often the scripts are killed, unless someone changes or generates something.
OnlyTables(s) == Supported(s, Wanted[want]) /\ \A t \in Tables(s) : s.tables[t] = Wanted[want].tables[t]
TablesLand ==
    \A v \in Version :
        At("idle") /\ want = v /\ bundle = v /\ current # Absent
                /\ OnlyTables(current) /\ OnlyTables(live)
            ~> \/ want # v \/ bundle # v
               \/ current # Absent /\ Tables(current) = Tables(live) /\ Tables(live) = Tables(Wanted[v])

\* Destructive or ambiguous migration plans stop for manual review: what a
\* script records at its end is reached by additions from the snapshot it then
\* replaces.  (docs/start/database-migrations.md says so; it does not hold where
\* the start script does not find the snapshot.)
StopsForReview ==
    [][At("record") /\ current # Absent /\ current' # current => Supported(current, current')]_vars
=============================================================================
