# Topogram, specified

TLA+ models of Topogram (`engine/src`, the `@topogram/cli` package), checked with
TLC and proved about with TLAPS. Paths below are relative to `engine/src` unless
they start with `docs/`.

Topogram is a Node CLI over a folder of text. A *workspace* (`topo/`) holds `.tg`
statements; every command is a process of its own that parses the whole workspace,
validates it, resolves it into a graph, and then prints, generates or rewrites
files. There is no daemon and no lock: all state is files (and, for what it generates and
rolls out, a database and git repositories), and the processes of several agents and
humans share them. What is hard about it is therefore not message passing but (1) long
sequences of legal commands and hand edits that leave files contradicting each other,
(2) commands killed between two writes, or failing after some of them, and run again, and
(3) commands and people that overlap.

## Inventory

| Component | State it keeps | Operations that change it | What makes it correct |
|---|---|---|---|
| SDLC lifecycle tables (`sdlc/transitions`, `sdlc/dod`, `archive/schema.js`) | none; per-kind legal moves, Definitions of Done, archivable and reopen statuses | - | the Definition of Done is at least as strict as the validator; no path through a table avoids an obligation |
| SDLC commands (`sdlc/transition.js`, `start.js`, `complete.js`, `link.js`, `plan.js`, `scaffold.js`, `history.js`) | the `.tg` sources; the sidecar `.topogram-sdlc-history.json` | transition, start, complete, link, plan create, plan step, new | sources and sidecar agree; blockers come first; a claim is respected; one command never invalidates the workspace |
| SDLC archive (`archive/archive.js`, `unarchive.js`, `jsonl.js`) | one JSONL file per kind and year | archive, batch archive, unarchive | a record is never lost; only finished work is frozen; a killed archive can be asked for again |
| SDLC release (`sdlc/release.js`) | - (stamps documents, then archives) | release | it drains what is archivable |
| SDLC check, views, gate, policy, prep, explain | - (queries; a policy file) | - | verdicts agree with the lifecycle |
| Parser, validator, resolver | - (pure functions of the sources) | - | every reference resolves; back-links are complete |
| Brownfield extraction (`import/`, `workflows/import-app`, `cli/commands/import`) | raw candidates and the provenance record with the hashes of the source | extract, refresh | what is trusted was extracted |
| Adoption plan and reconcile (`adoption/`, `workflows/reconcile`, `reconcile/`) | the saved plan of candidate items with their statuses; the candidate model; receipts; canonical files | reconcile, adopt with a selector, reviews | reviewed items only are written; a saved status is true of what is there; a killed adoption can be run again |
| Templates (`new-project/`, `cli/commands/template`), template trust (`template-trust/`) | the baseline manifest, the policy, the trust record | copy, update (apply, accept, delete), trust, detach | an update never overwrites a local edit; what is executed is what was trusted; a killed update can be run again |
| Generated databases (`generator/surfaces/databases`) | the database; the snapshot of what it is believed to be; the generated scripts | generate, bootstrap, migrate, bootstrap-or-migrate | the snapshot claims nothing the database lacks; migrations fit the database; destructive changes stop for a human; retries land |
| Release rollout and status (`cli/commands/release-rollout.js`, `release-shared.js`, `release-status.js`, `package/`) | checkouts of consumer repositories, their remotes and workflow runs | roll-consumers | success means pushed, and watched means green; only the pins are committed; an interrupted rollout can be run again |
| Generator, realization (`generator/`, `realization/`) | the output tree and its ownership marker | generate, emit | deterministic; only owned files are replaced |
| Catalog, package adapters, remote access | a local copy with provenance | copy, fetch | limits and provenance hold |
| Agent queries, review boundaries, UI taxonomies, project configuration, CLI | - | - | pure decisions |

How they interact: the CLI dispatches to one command; every SDLC command calls
parser, validator and resolver first (`resolveWorkspace`) and refuses when any
record is invalid, so *one* bad record stops all of them. The resolver merges the
archive into the graph for look-ups by id (`archive/resolver-bridge.js`), but the
validator's registry and the back-links see live statements only. The sidecar is
read back by `sdlc check` alone (drift). Release calls the batch archive; `start`
calls the transition twice; `complete` calls link and then the transition.
Adoption reads the same graph through `tryLoadResolvedGraph`, which turns a workspace that
does not validate into *no* graph. Refresh ends in a reconcile; adopt is a
reconcile with a selector. `generate` imports a template's implementation only after
looking at its trust record, and replaces the scripts and the snapshot of the database they
migrate; those scripts call the CLI back for snapshots, plans and SQL. A rollout drives
`git`, `npm` and `gh` as child processes, one consumer after the other.

`PROJECT.json` lists every component with its status, and the hazards, each at the
line where it bites.

## Modules

| Module | What it is |
|---|---|
| `SdlcLifecycle` | the transition tables, status sets, archivable and reopen statuses, as constant operators. Both SDLC models use it. |
| `SdlcWorkspace` | the whole SDLC half of a workspace, one atomic action per command, plus what humans do to the text in between. |
| `SdlcFiles` | the task commands opened up into their separate file reads and writes, run by several processes that may be killed. |
| `SdlcLedger` | the abstract specification of what the task commands promise: an atomic move with its entry, retire, revive, and what a kill may forget. |
| `AdoptionPlan` | extracted candidates, the adoption plan, canonical records, provenance and receipts, each command write by write. |
| `TemplateProject` | a project copied from a template: its files, the baseline, the trust record, each command write by write. |
| `Filtering` | the elements of a sequence at some of its positions, which the archive's rewrite and the comparison of enums share. |
| `SchemaMigration` | the migration between two database schemas as operators: plan, statements, their order and their effect. |
| `DatabaseLifecycle` | the lifecycle scripts of a generated database, over `SchemaMigration`, statement by statement, beside `generate`. |
| `ReleaseRollout` | the rollout of a version over consumer repositories, with their histories, remotes and workflow runs. |
| `SdlcWorkspaceProofs`, `SdlcFinishedProofs`, `SdlcFilesProofs`, `FilteringProofs`, `AdoptionPlanProofs`, `TemplateProjectProofs`, `DatabaseLifecycleProofs`, `ReleaseRolloutProofs` | theorems and their proofs. |
| `MCSdlcTasks`, `MCSdlcDelivery`, `MCSdlcShaping` | instances of `SdlcWorkspace`. |
| `MCSdlcFiles`, `MCAdoption`, `MCTemplateProject`, `MCDatabase`, `MCReleaseRollout` | instances of the others. |

### SdlcWorkspace

`src[id][file name]` is the text of a record, abstracted to what validation and the
Definitions of Done tell apart: its status, its references by field, which optional
sections are filled in, the step statuses of a plan, and whether symbol fields are
written as quoted strings (what `unarchive` renders). One id can come to own two
files, because `sdlc new` names a file after the slug and `unarchive` after the id.
`last` and `stepLast` are the sidecar as drift detection reads it: the `to` of the
newest entry of a record, and of a plan step. `archive[id]` is the sequence of JSONL
entries of an id; `pending` is what a running release has left to archive.
`handEdited` and `restarted` are history variables: whose status token a human
edited, and who began a second life (unarchived, or scaffolded over an older life).

Every command but `sdlc new` and `unarchive` starts with `Valid`, as the code starts
with `resolveWorkspace`; a refused command changes nothing and is not a step. `Complete`
is one action with two outcomes, because a refused transition leaves the link behind.
`Start` takes the path to in-progress in one step (both transitions write the sidecar;
only the last `to` is visible to drift). A release is not atomic: `BeginRelease` lists
the candidates, `ReleaseStep` archives the next one or passes it over, `Interrupt` ends it
early. Humans `Draft` (write the declarative fields of a record that has not
started), `Repair` (do what a validation error asks for) and `EditStatus`.

### SdlcFiles and SdlcLedger

Tasks only, since every hazard of interleaved file access shows on them. A process
holds a program counter and what the code holds in memory: the parse, the text it
read a second time, the whole sidecar, the whole archive. Each read of the
workspace and each write of a file is a step:

* `transition`: `Resolve` (parse, validate, Definition of Done), `Reread`, `Write` (the
  status is spliced in at the offsets of the parse), `Log`, `LogWrite`.
* `start`: `Packet`, `Claim`, `Reread`, `ClaimWrite`, and then the two transitions with a
  look at the task (`AfterClaim`) before the second.
* `archive`: `Check`, `AppendEntry`, `Reread`, `CutWrite`.
* `unarchive`: `Find`, `Restore`, `Strip` (rewrites the archive from what `Find` read).

`Respliced` and `Cut` model the conversion by what it does: offsets fit a text read
later only if the two have the same layout (number of inserted claim lines, length of
the status token, quoting); otherwise other bytes are replaced and the file is
`Mangled`, which makes every later parse or validation fail. `Crash` kills a process
between any two steps.

`SdlcLedger` is the promise: the status moves along a legal edge and the entry
appears in the same instant. The refinement mapping counts an entry as made from the
moment the status is written (`Entering`); a kill in that window is the ledger's
`Forget`.

### TemplateProject

`disk`, `manifest` and `trust` describe the same files three times; hashes are modelled
by the contents they stand for. `Apply` is `applyTemplateUpdate` up to its first write
(plan, conflicts against the baseline, refusals); then one `ApplyFile` per planned file,
in `localeCompare` order, in which `topogram.project.json` comes last, then `WriteManifest`
(of whatever lies on the owned paths, as the code does) and `WriteTrust`. Copy, the
single-file commands, trust and detach have their steps likewise; `Generate` looks at the
trust record and `Import` loads the module. `Kill` stops a command between any two of
them. History variables: what a human accepted as baseline (`accepted`), reviewed
(`reviewed`), wrote last (`handmade`), and the release whose killed update nothing has
followed (`unsettled`).

An emptied `implementation/` counts as a missing one, and the configuration keeps only the
template it is attached to and whether it configures an implementation. Humans edit
while no command runs, and there is one CLI process at a time.

### AdoptionPlan

`canon[i]` is the canonical file of item `i`: of which version of the source, written by a
human, or adopted and then edited. `Sight` is what a reconcile sees; without a valid
workspace (`Loads`) nothing blocks, as `tryLoadResolvedGraph` has it. `Merged`, `Derived`,
`Selected` and `Adopted` are the pure functions of `adoption/plan`; `Adopt` evaluates them
and the steps then write in the code's order: drafts, canonical files, plan, agent plan,
receipt. `Extract` and the steps behind it are `extract refresh`, which deletes candidates
and plan (approvals included) before it writes new ones, and hashes the source last.
`Reconcile` is the command without a selector.

Items are capabilities, entities and shapes; the several `needs_*_review` statuses are
one. `forced` stands for `--force` and is used exactly when the source differs from the
trusted one. The raw candidates are written in one step. The first extraction is `Init`.
`reconcile adopt` (the legacy command), patches of canonical files and human edits of plan
or candidates are left out. An adopted file needs what the candidate's
text references: a capability its entity and its shapes, which are in its bundle because the bundle is named
after that entity (`ReferencesAssumption`); `Found` may leave the entity out.

### SchemaMigration and DatabaseLifecycle

A table is a function from parts (columns, keys, indexes, relations) to definitions, an
enum a sequence of values. `Operations` is `buildDbMigrationPlan`, `Supported` its
verdict, `After` what a statement does, `Fails` when Postgres refuses it. As in the code,
unique indexes are compared but never created, and the primary key of an existing table is
not compared.

`DatabaseLifecycle` runs the three generated scripts: `Begin`, then reconciling or
comparing the *names* of the live tables, `Plan`, one `Apply` per statement (psql commits
each), `Push` (`prisma db push` of the schema the scripts were generated with, external;
skipped when `TOPOGRAM_SKIP_RUNTIME_CLIENT_REFRESH` is set), `Record`. The tables are read
twice before a guess: once to compare (`Compare`, `Unmatched`) and once more to `Infer` the
snapshot that replaces the one on disk, each look able to fail by itself. A database that
cannot be read looks empty, because a failing command inside a shell condition does not end the
script. `Wipe` and `WriteBundle` are `generate`, which removes the scripts and a snapshot
beside them. `Kill` also stands for a statement that existing data refuses.
`StatePath` is where the migration strategy puts the snapshot (`TOPOGRAM_DB_STATE_DIR`
unset). `suspect` remembers that a snapshot was guessed from table names or another
version's Prisma schema was pushed. The Postgres rendering is modelled; the scripts of
maintained (proposal-only) databases are not. Humans change workspace and database only
while no script runs.

### ReleaseRollout

A history is the sequence of what its commits contain, so that a head is known by all of
the history behind it. Per consumer: the checked-out branch (`local`), the working tree, the
remote's main, how much of it the tracking ref knows, the newest workflow run. `Roll` begins
the command; then, for each consumer, `Inspect` (clean worktree), `Sanitize`, `Install`
(npm resolves `^v` to the latest version), `Pin`, `Check`, `Stage`, `Commit`, `Push` or
`Ahead` (nothing staged: recover an unpushed commit), `Watch` and `InspectStrictly`; an error
ends the work on one consumer (`LeaveFailed`), and `Report` says who failed. `Fail` lets
any child process fail, `Kill` kills the command, a push on its way arriving or not.
Around it humans edit (at any time), commit and reset (between commands), others push,
versions are published, workflows start late and succeed or fail.

`git push origin main` from another branch pushes nothing and succeeds; a checkout without
an upstream gets a warning and no push. Both are modelled, and the properties say for
whom they hold. The index is derived where it is used (nobody else stages); a missing
repository or `package.json` is one of the ways to `Fail`; `topogram-cli.version` is there.

## Runs

| Run | Instance | Shows |
|---|---|---|
| `tasks` | two tasks, one blocked by the other, with requirement, criterion and verification; every command, release and unarchive | `TypeOK`, `DriftExplained`, `BlockersFinished`, `ProofStaysLive`, `TransitionKeepsValid` |
| `delivery` | a task, its plan and the bug it fixes, which point at each other, up to their release | `DriftExplained`, `ArchivedWorkFinished`, `ReleaseDrains` |
| `shaping` | a pitch, requirement and criterion from an empty workspace, the criterion's status edited by hand | `DriftExplained` |
| `killed` | one process, two tasks, every command, one kill anywhere, weakly fair | `TypeOK`, `RecordKept`, `ImplementsLedger`, and the liveness property `ArchiveFinishes` |
| `overlap` | two processes of two actors on one task, every interleaving, one of them killed anywhere | `RecordKept`, `WorkClaimed` |
| `templates` | two releases of a template, every command, one edit, one kill anywhere | `TypeOK`, `LoadedIsWhole`, `DriftExplained`, `ResumeNotRefused`, `DetachKeepsTrust`, and the liveness property `UpdateLands` |
| `adoption` | two bundles of five items in two versions of a source, three projections, one edit, one kill anywhere | `TypeOK`, `AppliedIsWritten`, `ReviewedFirst`, `AdoptKeepsLoading`, `TrustedCandidates`, `Receipted`, `HumanFilesKept`, and the liveness property `KilledAdoptionLands` |
| `database` | four versions of a schema of three tables, snapshot beside the scripts, two edits, two kills or unreadable databases | `TypeOK`, `SnapshotBehind`, `MigrationsFit`, `EnumInOrder`, `SettledStays`, and the liveness property `TablesLand` |
| `rollout` | two consumers, two versions, one edit, one failure or kill anywhere | `TypeOK`, `OkMeansPushed`, `WatchedMeansGreen`, `PinsOnly`, and the liveness property `UnpushedLands` |

Three runs are expected to be violated; each refutes one sentence of the project's
own documentation or comments, quoted in the findings of `PROJECT.json`:

| Run | What TLC finds |
|---|---|
| `unreviewed` (`ReviewedAlways`) | An adoption killed between two canonical files leaves a workspace that does not validate; without a graph no projection holds anything back, every item is pending again, and the same command run again writes a capability two projections should have held back. |
| `local_work` (`LocalWorkKept`) | An update records whatever lies on the template's paths as the baseline, a local edit of a file its release does not ship included; the next release that ships the file finds no conflict and overwrites the edit. |
| `review_skipped` (`StopsForReview`) | The start script looks for the snapshot beside the scripts whatever path is configured. With a configured path it never finds it, compares table names only, and replaces the snapshot by the desired one without a plan: a change that needs a migration by hand passes for applied. |

Every property of a passing run has a mutant in `PROJECT.json` (a dropped guard, a
missing write, a replaced append...) that breaks it under the run's own configuration.

### What the properties mean

* `SdlcWorkspace.DriftExplained`: `sdlc check` raises no false alarm: whatever commands run, a
  live record differs from the last move recorded for it only if a human edited its status
  or it began a second life.
* `BlockersFinished`: work in progress or done has blockers that are done, live or
  archived, and they stay so. It relates two records over their whole lives: the
  blocker is looked at once, when work starts.
* `ProofStaysLive`: what proves a done task is never archived away.
* `TransitionKeepsValid`: a transition that is accepted does not make the workspace one
  that every command refuses (pitches excepted, see below).
* `ArchivedWorkFinished`, `ReleaseDrains`: what is frozen was proved and finished; a
  release that ends in a valid workspace left nothing archivable, although each archived
  record may have been named by the candidates behind it.
* `RecordKept`, `WorkClaimed`: a file that is gone has its archive line; no rewrite at
  stale offsets disowns claimed work. Mangled files and lost history do occur.
* `ImplementsLedger`: without overlap, the read-and-write steps look atomic, kills included.
* `ArchiveFinishes`: a done task ends up out of the live records, however often the
  archive was killed after it wrote its line.
* `LoadedIsWhole`: `generate` imports what a human reviewed or every file of one release;
  never what a killed update has half written.
* `TemplateProject.DriftExplained`: without a kill, what `source status` reports as a local
  change is one.
* `ResumeNotRefused`, `UpdateLands`: a killed update is not refused when it is run again,
  although its own files differ from the old baseline, and it brings the whole release.
* `DetachKeepsTrust`: no step of detach makes a trusted implementation untrusted.
* `AppliedIsWritten`: what the plan calls applied is there, wherever commands were killed, unless a human
  deleted it or a canonical shape with the same fields stands for it.
* `ReviewedFirst`: where the workspace validates, no capability is written before every
  projection that covers it was reviewed, statuses saved long before included.
* `AdoptKeepsLoading`: adopting a bundle or the plan, where the workspace validates, leaves no adopted
  file that references a missing record, unless the record is not among the candidates, a human
  deleted it, or a shape with the same fields stands for it.
* `TrustedCandidates`, `Receipted`, `HumanFilesKept`: what is written without `--force` comes
  from the source that is trusted; every adopted file has its receipt; no command touches what a human wrote from scratch.
* `KilledAdoptionLands`: a killed adoption, run again, ends with every file it was to write.
* `SnapshotBehind`: the snapshot claims no part the database lacks, kills included; if it
  did, later plans would leave the part out for good.
* `EnumInOrder`: an inserted value stands where the schema has it, also when killed attempts at the
  same schema had left some of the values there.
* `MigrationsFit`: no table a migration is still to create is there, and every table it extends
  is there or still to be created, although the scripts look at names only, are killed between statements,
  push other versions' schemas and may look at a database that does not answer.
* `SettledStays`: once workspace, scripts, snapshot and database agree, no script, kill or
  database that does not answer, at one look or at both, takes them apart. The snapshot may be
  replaced by a guess all the same; the guess is then the snapshot that was there.
* `TablesLand`: new tables arrive and are recorded however often the scripts are killed.
* `OkMeansPushed`, `WatchedMeansGreen`: a rollout that reports no error has left the version
  on the remote main of every consumer that tracks it (not only in a checkout, or in a commit the
  tracking ref believes pushed), and with `--watch` a workflow has succeeded on a commit of the
  remote main that pins it.
* `PinsOnly`: whatever humans edit while the consumer's checks run, only the pins are committed.
* `UnpushedLands`: a commit an earlier rollout left behind is pushed by a rerun.

### What the models show besides

Behaviours met while modelling that are no run of their own: a property excepts them, or the
model shows them.

* Archiving a record that a live one names makes the workspace invalid
  (`validator/common.js:513` sees live statements only), and with it every later command refused.
* The text `unarchive` writes has quoted `priority` and `work_type`, which validation
  refuses until someone repairs it by hand.
* The Definition of Done of a shaped pitch (`sdlc/dod/pitch.js`) asks for other sections than the
  validator does, so an accepted transition can lock the workspace.
* Two overlapping starts of different tasks lose a history entry (the sidecar is read and
  rewritten whole); two of one task splice at the offsets of an older text and mangle it.
* `adopt capabilities` before its entities leaves dangling references, and so does a shape
  skipped as a duplicate: its capability goes on naming it. A capability whose entity no extractor
  found names one after its path (`inferCapabilityEntityId`), and dangles once adopted.
* Two enum values behind the last previous one come out in reverse. A migration to one schema that is
  killed and followed by one to another can leave a value on the wrong side of one the first had put
  there, since values are placed relative to the snapshot and not to the database. And `add column` has no
  `if not exists`, so a migration killed after it cannot be retried (`SchemaMigration.Fails`).
* A guess goes past review with the snapshot beside the scripts as well. When the workspace has changed a
  column and only the first look of `db-migrate.sh` fails, the new schema replaces a good snapshot, the
  plan is empty and the change counts as made. The same happens without any failure when an older
  bundle's Prisma schema was pushed and dropped the new tables: the names differ, and what is left is inferable.
  `SnapshotBehind` excepts both (`suspect`), and `generate`, which removes the snapshot, opens the same way.
* A rollout interrupted between npm install and commit leaves a dirty worktree, and the same
  command then refuses the consumer, where `docs/maintainers/releasing.md:37` says to rerun
  it. Interrupted there, the new pin is only in the working tree while the workflow of the
  old head is green, and that is what `release status --strict` reads.
* A rollout on a checkout of another branch commits there, runs `git push origin main`, which
  succeeds and does not push that commit.

### Bounds

SDLC: `Busy` names the ids commands act on (the others are context that only gets referred
to); `MaxSnapshots` bounds archive entries per id to one, since a second entry of an id
needs a second life; `MayRestart` and `MayEdit` name who gets a second life or a hand
edit, because each exempts the record from the safety properties: one such record among
others is what could disturb the others. One plan step is enough: steps are
independent and completion asks about all of them. In `SdlcFiles`, `MaxTrail` bounds the
history length at which no further move is begun: five entries let a task go to
done, be archived, revived and done again; `MaxLines` lets a killed archive be retried;
two processes and one task give every pair of commands, and both tasks are there where
one command can affect another record.

The others bound what humans do (`MaxEdits`) and what goes wrong (`MaxKills`, `MaxFaults`),
never how often commands run. One kill anywhere is enough to meet every half-written
state of one command and any command behind it. Templates: the second release changes both
implementation files and ships a file the first does not, so that every order of "old, new,
half" occurs. Adoption: one bundle whose capability brings an entity and a shape, one whose capability is held
back by projections and whose shape has the same fields as the first; the second version of the source has lost
the second capability with its shape, and the entity the first capability is about. Database: the versions add tables with all kinds of parts, add
parts to a table, and change a column; the enum gets values before, between and behind the
previous ones, two of them at one neighbour. Two edits allow "away and back"; two faults a kill and an unreadable
database. Rollout: the first consumer is on a main that tracks, the second is not, and
comes second, so that the first one's outcome must survive it; rollouts go forward.

`CHECK_DEADLOCK FALSE` is set everywhere: a workspace where all work is archived, or a
command line nobody uses any more within the bounds, has no next step, which is no fault.

### Fairness

In every fair specification a command that is not killed executes its next
statement (weak fairness of its steps), and kills are bounded, so nothing is killed for
ever. What is assumed of the people:

* `killed`: strong fairness of beginning an archive of a task: `topogram release`, and the
  batch archive, ask for every eligible record on every run, and nothing else orders
  commands. Weak fairness of `Unquote`: someone repairs the text `unarchive` has left. The
  code does not do it; without that assumption `ArchiveFinishes` fails, because a revived
  record makes every command refuse until a human edits it.
* `templates`, `adoption`: a killed update or adoption is run again if it stays possible
  (weak fairness); the properties allow that something else is done first.
* `database`: the application is started again (strong fairness): its start script calls
  `db-bootstrap-or-migrate.sh`.
* `rollout`: the maintainer runs the rollout again, with a push (strong fairness).

## Proofs

All hold for every value of the constants under the named assumptions of the modules
(`ConstantsAssumption`, `ItemsAssumption`, `PathsAssumption`, `RolloutAssumption`...), which
TLC evaluates in each run: any ids, files, releases, items, tables, consumers, and any
number of edits, kills and faults.

SDLC workspace (`SdlcWorkspaceProofs`):

* `TypeCorrect`: `Spec => []TypeOK`. Inductive as it stands; the work is that every
  rewritten record is a record of its id's kind (`LinkedRecord`, `RestoredRecord`, ...).
* `DriftIsExplained`: `Spec => []DriftExplained`. Needs `SecondFileRestarted` (an id with
  two files was restarted: otherwise a write to one file would leave the other's status
  behind) and `UnknownUntouched` (the sidecar knows no id that was never known, or was
  restarted: otherwise `sdlc new` would meet an old entry); `DriftInv` is their conjunction.
  The steps are grouped by what they do to the sources: rewrite one record (with or without
  an entry), move a record to the archive, put a file in place.
* `BlockersAreFinished`: `Spec => []BlockersFinished`, from `BlockInv` = `DriftInv` and the
  property. The key lemma is `DoneIsFinal`: the task table has no way out of done, so a blocker
  can only leave it through a hand edit or a second life, and archiving keeps what `ById` finds.

SDLC, finished work (`SdlcFinishedProofs`), on top of the same invariant:

* `FinishedTasksStayProved`: `Spec => []ProofStaysLive`. `ProofInv` adds that only archivable
  kinds are ever archived (so a criterion or a verification stays) and that the references of a
  done task lead to live records; `DoneIsProved` shows the Definition of Done gives just that.
* `ArchiveHoldsFinishedWork`: `Spec => []ArchivedWorkFinished`. What can be archived has an archivable
  status in a valid workspace, and is proved if it is a done task (`EligibleIsFinished`).
* `TransitionsKeepWorkspacesValid`: `Spec => TransitionKeepsValid`: for every kind but a pitch, the
  Definition of Done covers what the validator asks of the record in its new status
  (`DoDCoversValidity`), and the other records keep what their references lead to (`ValidAfterWrite`).
* `ReleasesDrain`: `Spec => ReleaseDrains`. While a release runs in a valid workspace, its remaining
  candidates are all that can be archived (`CandidatesCover`).

SDLC files (`SdlcFilesProofs`), for any number of processes, tasks and actors, any number of
kills and any interleaving, unarchive included:

* `FilesTypeCorrect`: `Spec => []TypeOK`.
* `WorkStaysClaimed`: `Spec => []WorkClaimed`. The invariant (`FilesInv`) adds what each process
  holds: a move allowed for the *parsed* text, and only finished, claimed work in the archive it
  read; `SameLayout` carries the claim over to the text that is rewritten.
* `RecordsAreKept`: `Spec => []RecordKept`, when no process unarchives or there is one process
  (`Careful`). `Records` adds that a process about to cut a file has its line in the archive and that
  one about to strip a line has its file. The hypothesis is needed: an archive that overlaps an
  unarchive of the same task can remove the revived file after its line was stripped.
* `CommandsKeepTheLedger`: `Spec => ImplementsLedger`, when there is one process (`Alone`): every
  step of a read or a write is a step of the ledger or leaves it alone. `Fresh` adds that what the
  process holds is what is on disk at each program counter, so that no splice mangles. With two
  processes it is false: they lose history entries.

What a rewrite of the archive keeps is recursive over its lines. `Filtering` states it
as a recursive function by positions, and `FilteringProofs` proves what it returns (`KeptPicks`: the elements at
those positions, each of them, in order) by induction over the length. The library's
induction theorems are parameterised by a predicate, which no installed prover instantiates; the induction
is done with sets instead, from `WFMin` (`LeastMember`, `SetInduction`).

Templates (`TemplateProjectProofs`): `ProjectTypeCorrect`, `KilledUpdateResumes`,
`ImportsAreWhole`, `DriftIsHandmade`, `DetachKeepsTrusted`, from one invariant: which
command is at which step (`StepOK`), what a copy has carried over (`CopyOK`), that at every step
of an update what is left of it could be run again (`ApplyOK`: `Applicable` is itself
kept, and what is still planned is still to do), and that the record of an implementation nobody reviewed is
that of a whole one (`TrustOK`).

Adoption (`AdoptionPlanProofs`): `AdoptionTypeCorrect`, `AppliedItemsAreWritten`,
`ReviewsComeFirst`, `CandidatesAreTrusted`, `AdoptionsHaveReceipts`, `AdoptionsLoad`, `HumanFilesStay`. The
invariant says of the plan on disk *and* of the plan in memory that what they call applied is
there or still to be written (`Written`), that what they call approved was reviewed
(`Reviewed`), and of which version candidates and model are at every step of a refresh (`Trust`).
`AdoptionsLoad` adds that what a plan skips is accounted for (`Skipped`) and that, while a bundle or the
plan is adopted, what adopted files reference is there, accounted for or still to be written (`Supported`);
its key lemma, `OutputsSupported`, goes through the statuses a referenced record can have in the merged plan.

Database (`DatabaseLifecycleProofs`):

* `LifecycleTypeCorrect`: `Spec => []TypeOK`; the work is the effect of each statement.
* `SnapshotStaysBehind`, from `Following`: while statements run, every part of the desired schema is in
  the database or in a statement still to come (`Coming`).
* `MigrationsFitTheDatabase`, for schemas that have tables: a plan begins with a snapshot that has
  the tables of the database (`Fit`), because an empty answer neither matches it nor is inferable from.
  A schema without tables could not be told from a database that does not answer.
* `SettledDatabasesStay`, wherever the snapshot lies: a guess at a settled database is its snapshot
  (`SettledGuess`), and the plan from there is empty (`NothingToDo`).
* `EnumsComeInOrder`: `Spec => EnumInOrder`, for enums of any length. `EnumGrows` says of every
  state between two statements that the values so far are in order (`Ordered`), that none came before one
  that stands ahead of it in the schema (`InTurn`), and that the rest is still to be added (`Adds`); `Grows` is
  the step, one insertion before the next previous value. The proof is what showed that the attempt
  killed before must have been at the same schema (`Resumed`).

Rollout (`ReleaseRolloutProofs`): `RolloutTypeCorrect`, `RolloutLands`, `WatchedRolloutIsGreen`,
`RolloutCommitsPins`. The invariant adds what each stage has prepared in the working tree,
that the consumers behind the current one are pushed or failed (`PushedSoFar`), and green or
failed (`GreenSoFar`), and that a successful run is in the history of greens (`CiTrue`); the key
lemma `Grown` is that remote histories are only ever appended to, so that what was
pushed and green stays so.

Only model-checked: the liveness properties (`ArchiveFinishes`, `UpdateLands`,
`KilledAdoptionLands`, `TablesLand`, `UnpushedLands`), which are out of the prover's reach
under fairness. Every invariant and action property a passing run checks has a theorem;
`RecordKept`, `ImplementsLedger` and `MigrationsFit` under the hypotheses above, which
are those of their runs.

## Not modelled

Within the modelled parts:

* Writes of one file are atomic: no torn JSONL line, no truncated sidecar or archive; an
  unreadable sidecar.
* The layout of fields over several lines (`sdlc/link.js:108`).
* Actors nobody declared: `sdlc start` writes a claim of any name it is given (`start.js:106`), and the
  workspace then fails validation (`common.js:487`); `Actor` stands for declared ones.
* Documents (statuses in front matter, release stamps), due dates, priorities.
* The year in the archive's file names: one archive per kind.
* Two snapshots of one id in `SdlcWorkspace` (they occur in `SdlcFiles`).
* A process in `SdlcFiles` validates tasks only, and actors' names have one length, so that
  replacing one claim line by another moves no offset.
* Template packages, policies and catalogs as such (`Refused` stands for their verdict).
* Widgets, decisions, workflows, docs and screens in the adoption plan: they go through the same statuses.
* SQLite, Drizzle and the rendering of SQL beyond the effect of a statement.
* `release status`, a read-only report.

Whole components (`not_modelled` in `PROJECT.json`, each with its reason): most of
the code by lines renders text (generators, realization, views), guesses at foreign sources
(extractors), or answers queries (agent packets, context slices). It keeps no state
and has no order of events; a model of it would repeat it line by line.

## Plan

1. Done: lifecycle tables, the workspace, the file level, the ledger; adoption, templates with
   trust, generated databases, release rollout; theorems about each.
2. `SdlcFiles` with writes that can be torn: truncated sidecar and archive, glued lines.
3. `SdlcGate` as a pure decision against a reference definition.
4. Adoption: the legacy `reconcile adopt`, patches of canonical files.
5. Proofs: the safety part of the liveness arguments (a killed archive, adoption, update or
   migration stays runnable until it is run again, as `KilledUpdateResumes` has it for updates);
   `RecordKept` for several processes when none unarchives a task another archives.
