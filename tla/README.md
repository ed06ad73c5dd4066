# TLA+ verification of osm-polygon-description-tag

The program turns regional OpenStreetMap extracts (PBF) into one Parquet table
each, keeps one canonical row per OSM object over all tables, publishes tables,
manifests and a generated card to one Hugging Face dataset, and adds language
annotations that are computed elsewhere. It runs for days, is killed and
repeated, and talks to a Hub, to the `hf` tool and to a batch scheduler that
may answer late or not at all. This directory holds TLA+ models of its control
flow, TLC configurations that check them on small instances, and proofs that
TLAPS checks.

All paths below are relative to `src/osm_polygon_description_tag/` unless they
start with `docs/`.

## 1. Inventory

| Component | State it keeps | Operations | What makes it hard | What makes it correct |
|---|---|---|---|---|
| Regional build and resume: `workflow/orchestrator.py`, `source_runner.py`, `build.py`, `finalization.py`, `dataset/manifest.py` | `data/*.parquet`, `manifests/*.json` | discover, reuse or rebuild, completeness check | a kill between two files of a pair; extracts replaced, added, removed at any time | a reused pair really belongs to the extract; nothing incomplete goes on |
| Global deduplication: `dataset/deduplication.py`, `deduplication_state.py`, `canonical_rows.py` | `.work/dedup-state.json`, `.work/dedup/<token>/` | stage, record, sweep orphans, drift check, promote, complete, unstage | kills between any two moves; inputs that drift; state write that fails | one row per object; the canonical one; counts; recoverable stage |
| run-and-publish uploads: `publication/upload.py`, `planning.py`, `verification.py`, `state.py` | `publication-state.json`, the Hub | plan, send with retries, verify, record, delete stale files, metadata | several commits per plan, timeouts after success, a tool that reports too much, extracts replaced during an upload, other writers | the Hub equals the local dataset; nothing is recorded that is not there |
| Statistics release: `publication/release.py`, `dataset/docs.py` | local card and statistics | pin a revision, compute, commit with parent, verify | minutes between reading and writing; concurrent commits | statistics describe the data of their revision; no lost update |
| Language publication: `publication/language_upload.py`, `language_hub.py`, `language_card.py` | `language-publication.json` | intent, one commit with parent, verify, resume | unknown outcome of a commit, a re-export in between, a Viewer that lags | sent once, never on top of an unseen revision, never forgotten |
| Language export: `publication/language.py` | export root: data files, statistics, sealed manifest, a lock | export shard by shard, seal, plan, commit | interrupted re-export, planning without a lock | what reaches the Hub is one export of one complete run |
| Language worker: `dataset/languages/worker.py`, `checkpoint.py` | parts, receipts, checkpoint, lock | resume, commit batch, finish | three files per batch, budget, kills | each row annotated exactly once |
| Frozen input: `dataset/languages/snapshot.py`, `workflow/grid_operator/stage.py`, `payload.py` | snapshot manifest, sealed payload, copies at the site | freeze, stage, transfer, verify before running | source and project replaced between any two checks, and between a check and the import or opening of what was checked | every annotation is made of the frozen source by the frozen code |
| Grid'5000 operator: `workflow/grid_operator/`, `grid_scheduler.py` | prepared bundle, intent, ledger, checkpoint | prepare, stage, submit, reconcile, collect, acknowledge | `oarsub` with unknown outcome, name lookups that match older jobs | at most one live job; state only ever extended |
| Submission policy: `grid_policy.py` | none | judge evidence | evidence that is stale, missing or unreadable; day boundaries | a granted job is within the usage policy |
| Grid'5000 driver: `grid_driver.py` | none but that of the operator | loop over shards: stage, send, submit, wait, collect | killed and restarted anywhere, while jobs go on | all shards come home, one at a time, nothing lost |
| Text and schema migration: `dataset/migration.py`, `text_migration.py` | tables and manifests | rewrite, repair manifest, heal | kill between two files; beside a staged deduplication and rebuilds | pairs agree again, counts are exact, a second repair writes nothing |
| Canonical order: `dataset/canonical_rows.py`, `unique_rows.py` | none | rank rows | ties, unparsable versions | a total order |
| Row transform and text contract: `dataset/transform.py`, `text.py` | none | reject or keep a feature, trim its texts | the same contract written three times (Python, DuckDB, GeoParquet) | the three agree on every row |
| Language detection, sentence splitting | none | gates, ranking, fallback, validation | ties, mixed texts, rounding above 1.0 | a worker never refuses its own rows |
| Schema, statistics, geography | none | pure functions | numerics | tested by example |
| Preflight, configuration, CLI, logging, Trackio | logs | checks and dispatch | none that state depends on | |

How they interact. `run-and-publish` is one process that runs the first three
components in sequence and hands files from one to the next through the data
root; whatever a killed process leaves on disk is the input of the next one.
`release-stats`, `language publish` and a second `run-and-publish` share no
lock with it: they meet in the data root and at the Hub, where only the
`parent_commit` of a commit orders them. The language worker runs on other
machines; its state comes back through the operator's collect step. The driver
runs the operator's commands in its own process, some of them at the site over
ssh, and outlives none of the jobs it submits. `language export` takes the run
directory that the driver fills and leaves files that `language publish` takes.

`PROJECT.json` lists every component with its status, and every hazard at its
line.

## 2. Modules

| Module | Models | Composes |
|---|---|---|
| `RegionalTables` | abstract specification: tables as functions from objects to ranks, rebuilt, relieved of duplicates, announced | |
| `LocalDataset` | the local half of run-and-publish, file operation by file operation | refines `RegionalTables` |
| `MCLocalDataset` | constants for TLC | extends `LocalDataset` |
| `LocalDataset_proofs` | theorems about `LocalDataset` | extends `LocalDataset` |
| `Publication` | the publishing half of run-and-publish and the Hub | takes the pairs that `LocalDataset` hands over |
| `Publication_proofs` | theorems about `Publication` | extends `Publication` |
| `SharedHub` | the three writers of one Hub dataset | run-and-publish reduced to its commits |
| `SharedHub_proofs` | theorems about `SharedHub` | extends `SharedHub` |
| `ExactlyOnceAnnotation` | abstract specification: rows consumed in order, each described row annotated in one part | |
| `LanguageWorker` | one shard of a language run: worker, prepare and stage | refines `ExactlyOnceAnnotation` |
| `LanguageWorker_proofs` | theorems about `LanguageWorker` | extends `LanguageWorker` |
| `GridSubmission` | submit, status and collect of the jobs of one run directory, against the scheduler | takes a worker as a job that commits batches |
| `MCGridSubmission` | symmetry for TLC | extends `GridSubmission` |
| `GridSubmission_proofs` | theorems about `GridSubmission` | extends `GridSubmission` |
| `SubmissionIntents` | what an intent says and permits | extended by `GridSubmission` and `GridDriver` |
| `GridDriver` | the driver loop over the shards of a share, in three places, with the jobs it submits | the worker reduced to its commits |
| `MCGridDriver` | shards for TLC | extends `GridDriver` |
| `GridDriver_proofs` | theorems about `GridDriver` and the run that is exported from it | extends `LanguageRun` |
| `LanguageExport` | export, seal, plan and commit of a run | |
| `LanguageRun` | a run that is filled and exported at the same time | composes `GridDriver` with an instance of `LanguageExport` |
| `MCLanguageRun` | shards for TLC | extends `LanguageRun` |
| `DescribedRows` | operators: rejection reasons, texts, the three text predicates, canonical rows of a relation | |
| `Migrations` | migrate-schema, migrate-text and the local half of run-and-publish over artifacts of earlier releases | uses `DescribedRows` |
| `MCMigrations` | features for TLC | extends `Migrations` |
| `Migrations_proofs` | theorems about `Migrations` and `DescribedRows` | extends `Migrations` |
| `Detection` | operators: language of a text, sentences, validation of a row | |
| `GridPolicy` | operators: the verdict on the evidence for a submission | |
| `FrozenInput` | freeze, stage, transfer, submit, run and collect one shard while its inputs are replaced | composes `Detection` and `GridPolicy` |
| `MCFrozenInput` | texts and requests for TLC | extends `FrozenInput` |
| `FrozenInput_proofs` | theorems about `FrozenInput`, `Detection` and `GridPolicy` | extends `FrozenInput` |

### LocalDataset and RegionalTables

State: one variable per kind of file (`pbf`, `parquet`, `manifest`, `dedup`,
`stage`), the program counter `pc` and the memory of the running process
(`sources`, `todo`, `seen`, `plan`). A file is its content, so two identities
are equal iff the files are. A table maps the objects it holds to a rank; the
rank stands for version and timestamp, and ties between extracts go to the
smaller name, as `canonical_row_order_sql` orders them. `form` tells a Parquet
in export order from one rewritten in canonical order: they differ in bytes
even when no row was dropped.

One action is one file operation with the decisions before it:

* `Start`, `Reuse`, `BuildParquet`, `WriteManifest`, `SourceVanished`,
  `BuildDone`: the loop over discovered extracts in name order. The two
  replacements of a build are two actions because a kill may fall between.
* `Verify`, `VerifyFails`: `verify_final_completeness`, before (`verify`) and
  after (`reverify`) deduplication.
* `Sweep`: orphaned stage entries, each of which may resist deletion.
* `SkipDedup`, `StageChanges`, `RecordState`, `RecordFails`: a fresh pass. A
  pass that changes nothing records a complete state at once.
* `DriftCheck`, `DriftRefused`, `PromoteParquet`, `PromotionFails`,
  `PromoteManifest`, `WriteComplete`, `RemoveStage`: a new or resumed staged
  pass. Promotion moves a file or finds it moved, as `_promote_artifact` does.
* `HandOver`; `ChangePbf` and `Crash` for the operator.

`RegionalTables` knows only extracts and tables: an extract is replaced, its
table is made anew of the rows it holds now, a table loses rows that stay in
another one as the better rows, tables without duplicates are announced. There
is no other way for a row to enter a table: an old stage never comes back.
`ImplementsTables` says that `LocalDataset` implements it under the mapping at the end of `LocalDataset`.

### Publication

State: the extracts as they are now (`extract`), local pairs (`local`),
generated documents (`docs`), the Hub's head (`hubData`, `hubManifests`,
`hubDocs`), the two parts of `publication-state.json` (`published`,
`metadata`), and the process. A pair is the hash of the extract it was built
from, the hash of the Parquet and a stamp for the rest of the manifest; the
state file remembers the two hashes only. The five documents
are one file, because one function writes them from the same tables and one
plan carries them.

`Send` commits any non-empty part of what is left of a plan; `Sent` is exit 0,
with a budgeted fault in which a file was left behind; `Retry` starts a plan
again whatever has landed; `Fail` is a kill or a refused call anywhere.
`ListRemote` and `DeleteStale` are the reconciliation, `SkipMetadata`,
`BeginMetadata` and `RecordMetadata` the final documents. `EditCard` is another
writer.

`ReplaceExtract` puts another PBF in the place of one at any moment, with new
contents or contents seen before (`restore`). The code hashes the PBF each time
it asks for it: when it decides whether a pair may be reused (`UpToDate`,
`Rebuild`), whether to skip it (`AlreadyPublished`), and again when the upload
is recorded (`NewEntry`). So a PBF replaced during its own upload is recorded
with a hash that its table was not built from; the history variable `outrun`
names the extracts of which that is so. `ChangeLocal` is what the local half
does to the pair of an unchanged extract between two runs, and `Withdraw` the
operator who takes an extract away.

### SharedHub

State: the sequence of commits (`hub`), so that a revision is a position in it
and `parent_commit` is a comparison with its length; for `release-stats` its
data root and what it has read; for `language publish` the export on disk, the
state file, the baseline revision the operator planned on, and which exports
were once verified (`confirmed`, a history variable). `run-and-publish` commits
data and card in either order and without a parent, as `hf upload-large-folder`
does, and its card comes from the template, without a language section.

The steps between network calls are actions: pin (`ReleasePrepares`), compute,
compare the inventory, ask whether the Hub already has the plan, commit, verify;
and intent (`PublishBegins`), commit, verify for the language publisher. A
commit whose answer is lost is `ReleaseCommitFails` and the first disjunct of
`LanguageCommitFails`. Dataset Viewer readiness is a free choice.
`LocalDataChanges` only goes forward: a rebuilt manifest holds new times, so
`data/` with `manifests/` does not return to an earlier content.

### LanguageWorker and ExactlyOnceAnnotation

State: `parts/`, `receipts/` and `checkpoint.json` of one shard (`part`,
`receipt`, `checkpoint`), what stage moved aside (`quarantined`), which
directories exist (`made`) and which hold an abandoned temporary file
(`debris`); in memory the batch size asked for, the committed rows, the listed
parts and the offset of the next batch. A part is the set of rows it annotates;
its hash is the part. Row numbers are kept as numbers, because the batch grid
and the row-group boundary at which a stream resumes are arithmetic:
`StartGroup` is `_starting_row_groups`, `FirstBatch` is `_iter_input_batches`.
That a batch of Arrow's `iter_batches` may span row groups is taken from the
comment in `_starting_row_groups`.

`WritePart`, `WriteReceipt` and `WriteCheckpoint` are the three writes of
`_commit_batch`, `WriteFinal` the one after the loop, `StopReading` a spent
budget, before or after inference, or the end of the input. `Resume`,
`ResumeComplete` and `ResumeRefused` are `_resume_state` with its checks of the
listed parts. `QuarantineBegins`, `MoveOrphan` and their refusals are the first
step of stage, `Initialize` the last one of prepare; stage makes no use of a
worker's memory, so all commands share one process slot, as they share the
worker lock. A `Kill` falls between two writes or into one, where it may leave
the directory made and the temporary file behind.

`ExactlyOnceAnnotation` has two variables: how many rows are consumed, and
which parts annotate each row. The mapping reads both off the checkpoint and
the parts it lists; only `WriteCheckpoint` moves them.

### GridSubmission

State: the intent of each shard as it is on disk (`intent`), what has been
collected of it (`local`), the scheduler's jobs (`job`), what jobs have
committed (`committed`), the run-wide submission lock, and the commands that
run at the moment with what each remembers (`proc`). The job of an attempt is
the number of the attempt; all jobs of a shard have the same name, as in the
code, so a lookup by name does not know attempts.

`Capture` is the policy evidence taken before the lock, of any age later on:
its freshness limit only removes behaviours. `WriteIntent`, `Oarsub` and
`Record` are `submit_job` with its three points on disk and at the scheduler;
`Answers` lists what `oarsub` may say and which job there then is: a refusal
without a job number is taken at its word, everything else that is not an exact
answer is ambiguous. `StopInOarsub` and `Register` are the killed command whose
job appears late. `Listings` are the answers of `oarstat -u -J`: the jobs that
live and any of those that are over, because the site decides how long it
retains them. `Resolved` is the only job of that name in such a listing, whatever
its state, as the code takes it; so `Resolve` may settle an attempt with a job
of an earlier one, and the history variable `misbound` names the attempts to
which that happened. `Reconcile`, `Resolve` and `RecordTerminal` are `status
--apply`, `Retrieve`, `Import` and `Acknowledge` are `collect --apply`; between
any two of these steps other commands may run or the command may `Stop`. The
lock does not wait: whoever finds it held gives up. A retrieved copy may be of
any age, which is why `ForwardProgress` matters.

All commands work on one run directory, so there is nothing to adopt: an intent
is missing only if there is none anywhere, and then it raises (`Stop`). Submit
at the site and collect elsewhere, with `adopt_retrieved_intent`, are the
subject of `GridDriver`.

### GridDriver

State: `checkpoint`, `files` and `intent` in each of three places: the run
directory that owns a shard, the copy at the site that jobs work on, and the
copy retrieved from there; the files that stage moved aside; the jobs; the
command at the site (`frontend`), which goes on when the driver is killed; and
the driver itself, with its position in the share and what it remembers of the
import it is in the middle of. A checkpoint is a number of batches:
`LanguageWorker` shows that they are the first ones.

`RunStarts`, `Visit` and `RunEnds` are the loop of `_drive`, which skips a
shard that validates as complete and collects one whose results are known to
wait (`AwaitingCollection`). The question to the site is an ssh that nobody
checks: if it is not answered, nothing waits (`VisitUnanswered`). `Stage` and `StageRefused` are
`prepare_grid_state` and the stage commands, `Send` and `Sent` two transfers
that may be interrupted. `Submit`, `Reply` and the actions of `frontend` are
`submit_job` again, split between two machines: the answer may never reach the
driver (`AnswersNobody`), and the command at the site may go on when its driver
is killed (`DriverKilled`), while the next driver asks and stages. The field
`blind` of the driver is history: it stages although it was not answered, or
although a submission was under way when it asked. `Poll`, `TimesOut` and `Retrieve` wait for the job;
`Import`, `CommitPart`, `Validate`, `Adopt` and `Acknowledge` are `collect`,
one file replacement at a time with the checkpoint last. Whatever raises sends
the driver to `Halted`: it stops at the first thing it does not understand.
Jobs write part and checkpoint in two steps and may be killed between them.
`LocalWorks` is a `language run` in the owner's directory meanwhile.

### LanguageExport and LanguageRun

`ExportBegins` to `ExportSeals` write `language/` file by file after the
manifest was replaced by one that says in progress; `ExportKilled` may fall
between any two. `PlanBegins`, `PlanHashes` and `PlanEnds` read the files of a
plan one after another, without the lock and beside an export that writes them;
`PublishBegins` takes the lock and compares the plan with what lies there now,
`PublishCommits` sends it. A data file is the run and the number of batches it
was written from. In `LanguageRun` that number is the checkpoint of
`GridDriver`'s run directory at the moment the file is written, and an export
begins only if the run validates as complete (`_require_complete_run`). An
earlier run, of fewer shards, lies exported in the same root.

### Migrations and DescribedRows

State: the features of each extract (`raw`), the Parquet with its rows and
their schema, the manifest with its hashes and counts, the state of a
deduplication, and the one command that runs, with its pool. The artifacts of
`Init` are those earlier releases wrote: Arrow maps or lists, texts as they
were in OSM, blank texts kept or not. `SchemaParquet`, `SchemaManifest` and
`SchemaRefused` are `migrate-schema`; `RepairParquet`, `RepairManifest`,
`Heal` and `HealRefused` are `migrate-text`, one artifact after another or in
any order of a pool; `BuildParquet` to `CompletePass` are the local half of
run-and-publish with counts instead of ranks, because what a heal may get wrong
are counts. `Kill` falls between any two replacements.

Localized texts are a function of their keys, and `NoPass`, with no files, stands
for no staged deduplication.

`DescribedRows` holds the contract as it is written three times:
`Successful` (Python), `SqlSuccessful` (DuckDB, with its three-valued logic
resolved) and `ValidText` (the validation of a GeoParquet), and the two
selections of canonical rows: `CanonicalWithText` (the text-aware view) and
`OnePassView` (one pass that flags its rows).

### FrozenInput, Detection and GridPolicy

State: the versions of the source file and of the project's files on the
operator's machine, the snapshot, the parts committed in both places, the
payloads by the state they are named after, the staging in progress, the copy at
the site, and a worker in each place. A file is its version, its identity and
its hash. Two files stand for the project: `detector`, which a command imports
when it starts, like nearly all of the package, and `glotlid`, which
`build_language_detector` imports later. They are replaced one at a time, and
fingerprints and copies read them one at a time.

`FingerprintProject`, `InspectSource` and `PrepareSnapshot` freeze;
`VerifyStageInputs` to `StageEnds` are `stage.py` with its checks in their order,
and `Sends` may end anywhere; `Submit` asks `EvaluatePolicy`. A worker imports
its modules (`Starts`), then compares the project on disk with the snapshot
(`VerifyProjectIdentity`), builds the detector, which imports `glotlid`
(`BuildDetector`), verifies the source (`VerifySource`), opens it by name
(`OpenSource`), and annotates and commits batches. `Collect` imports what extends
the local parts. `ReplaceSource` and `UpdateProject` fall between any two.

Three inputs, three gaps: what was imported first is checked later, on disk;
`glotlid` and the source are used after their check. `raced` is history: the
inputs of the worker at home that were replaced in their own gap (`InGap`). A
part keeps it, and the property leaves out exactly those inputs of that part.
Without the exception TLC finds a part with an unfrozen `detector`, `glotlid`
and source. That the package a command imports is the one under its
`--project-root` is an assumption: the job script runs it there.

`Detection` is the cascade with its gates; the two models and the splitter are
external and given as tables per text, with scores as far as the code accepts
them (`IsText`; an answer beyond raises, and the worker stops). `GridPolicy` is the verdict in the order
of the code, blocked before unknown before allowed.

## 3. Runs

| Run | Expect | Shows |
|---|---|---|
| `local_dataset` | pass | `OneRowPerObject`, `RowsAccountedFor`, `StagedWorkIsRecoverable`, `CompleteStateTruthful`, `UnchangedKeepsCanonicalRow`, `ImplementsTables`, `KeepsHandingOver` with two replaced extracts and a kill or a failed write at any point |
| `interrupted_promotion` | violation | a kill between the two moves of one entry makes every later run stop (docs/operations.md:75 promises that the next run finishes) |
| `replaced_extract` | violation | a reused table lacks a row that became canonical (docs/dataset-contract.md:99) |
| `publication` | pass | `CompletedRunIsPublished`, `CompletedRunSettles`, `OnlyPublishedIsRecorded`, `KeepsCompleting`, with extracts replaced at any moment |
| `restored_extract` | violation | an extract withdrawn and restored is skipped although its table is gone (workflow/orchestrator.py:22) |
| `shared_hub` | pass | `ReleasedStatsDescribeData`, `NoLostUpdate`, `UnverifiedUploadIsKnown`, `SentOnceOnBaseline` |
| `language_worker` | pass | `PausedEqualsUninterrupted`, `NeverUnusable`, `QuarantineSuffices`, `ImplementsExactlyOnce`, `CompletesInTheEnd` |
| `grid_submission` | pass | `AtMostOneLiveJob`, `LiveJobIsReserved`, `IntentsReadable`, `CompleteIsFinal` with two commands at a time and two shards, whatever jobs that are over the account listing shows; attempts settled with an older job of the same name are excepted by name |
| `grid_driver` | pass | `CollectedIsWhole`, `CollectedOnlyExtends`, `OneJobInFlight`, `SubmittedWorkSurvives`, `ShareCompletesOrStrands` of the driver; `PublishedIsOneExport`, `PublishedIsComplete` of the run that is exported meanwhile |
| `second_job` | violation | with no fault at all, a shard that needs a second job never gets it: the site's intent is never acknowledged, so every later run collects the same results again (docs/language-detection.md:438) |
| `migrations` | pass | `CountsAreExact`, `RepairedIsRebuilt`, `ViewsAgree`, `RepairIsIdempotent`, `RepairSettles` with two kills and one replaced extract |
| `frozen_input` | pass | `AnnotatesFrozenInput`, `StagedIsFrozen`, `GrantedWithinPolicy`, `RowsAreJustified`; 2.6 million states, the largest run |

The four violations are findings in `PROJECT.json`, each with the quoted
promise and the course of the counterexample. The type invariants of the nine
state machines are theorems for all constants and are not evaluated again by a
run.

### Bounds, and why they are enough

* Two extracts and two objects: a duplicate needs two tables, a table that
  loses one row and keeps another needs two objects, and first and second
  position in a sorted loop are different cases. Two ranks give newer, older
  and tie. `MCExtracts` names five row sets: empty, one object old or new, the
  other object, both.
* Two stage names: a fresh stage beside an orphan that cannot be deleted. The
  code draws a random name; `Sweep` always leaves one name free.
* `MaxChanges` 2 and `MaxFaults` 1 in `local_dataset`: replaced while staged,
  then replaced again, and one kill, failed write or resisting file.
* `publication`: one retry, two changes (an extract replaced during its upload
  and again before the next run, or two extracts), two faults (an upload that
  fails after landing, followed by a kill of the next run), one edit.
* `shared_hub`: three commits after the first, so that one writer's read and
  write enclose one foreign commit and a second one follows; one re-export; one
  fault.
* `language_worker`: four rows with row groups at 0, 1 and 3 and batch sizes 1,
  2 and 3: a boundary on the grid and off it, a batch that spans two groups, a
  short last batch, and a batch without a described row (row 2). Two kills, so
  that a resumed worker or an operator's command is killed once more.
* `grid_submission`: two shards, because a run is reserved for one of them; two
  commands at a time; two attempts of a shard, so that a second one can be
  confused with the first; one batch, so that a copy is either current or old.
  `MaxAttempts` is also an option of the code (`max_attempts`).
* `grid_driver`: a shard of two batches and one of one batch, because a part
  may be torn from its checkpoint only where there is one before it, and because
  one shard must be waiting while the other is in flight; one fault and one kill
  of the exporter or publisher. `OneJobSuffices` says that a job is not paused
  by its budget: where it is, `second_job` shows what happens. `MaxShards` 0 is
  the code's "no limit".
* `migrations`: two artifacts, since a duplicate needs two; three objects, so
  that one feature is rejected, one is dropped as a duplicate and one stays; the
  three feature tables hold every kind of text, alone and among localized ones.
  Two kills: one command is killed and the one that heals is killed too.
* `frozen_input`: two versions, two changes (away and back again, so that a
  check that compares with the wrong moment can be fooled; or one of each
  module, so that a fingerprint or a copy mixes two states), two stages, two
  batches. Days have eight ticks; the instants asked for lie on both sides of
  each boundary and at the end of a Friday.
* `MaxRetries` is the code's limit (default 5 in `publication/upload.py`), not
  a bound of the model; the runs set it to 1.

The extract may change at every point of a run except between the two writes of
one build (`ChangePoints`, `AllButManifest`): the manifest's source hash is
taken after extraction, so a PBF replaced while it is being read is recorded
under the new hash. No document promises otherwise and the program cannot see
it; the hazard is listed without a property.

`KeepsHandingOver` excepts the two ways in which a run stops for good: a missing
staged artifact, which is the finding of `interrupted_promotion`, and, once an
extract was replaced or withdrawn, the refusals of a staged pass whose inputs
drifted and of an artifact without its extract, which the code asks an operator
to clear.
`publication` excludes restored contents because they are the finding of
`restored_extract`.

### Fairness

`FairSpec` in `LocalDataset` and `Publication` is weak fairness of `RunStep`,
the steps of a running process together with the start of the next one. The
code has one thread per run whose every step returns or raises, and the operator
repeats the command; kills, failed writes, retries and changes are not in
`RunStep` and are bounded. In `Publication` this also says that `hf
upload-large-folder` keeps making progress until it ends, which the timeout of
`_run_subprocess` enforces by killing it. `SharedHub` claims no liveness: a
publisher that is refused stays refused until the operator plans again.
Neither does `GridSubmission`: an attempt whose job nobody finds blocks the run
until the operator decides.

`FairSpec` of `LanguageWorker` is weak fairness of the steps of a command and
strong fairness of `WritePart` and of starting the worker with each batch size:
the operator goes on running it, the batch size of the checkpoint is among
those tried, and not every budget is too short for one batch. Without the last
one a worker may pause forever without progress, as the code allows.

`FairSpec` of `GridDriver` is weak fairness of the driver, which the operator
starts again whenever it has ended, of the command at the site and of each job:
processes that run on their own machines. No kill, timeout or lost answer is
fair. `FairSpec` of `Migrations` is weak fairness of the steps of a running
command and strong fairness of starting `migrate-text` and run-and-publish: the
operator goes on using both, and the slot is free again and again because every
command ends. `FrozenInput` and `LanguageExport` claim no liveness: staging, an
import or a plan that was refused stays refused until someone acts.

Deadlock is checked in every run.

## 4. Proofs

| Theorem | States | Rests on |
|---|---|---|
| `LocalDataset_proofs!TypeCorrect` | `[]TypeOK` | `TypeOK` strengthened by what memory holds at each point |
| `LocalDataset_proofs!StageKept` | `[]StagedWorkIsRecoverable` | while a state says staged, `plan` agrees with it and the stage shrinks from the front, Parquet before manifest |
| `LocalDataset_proofs!Deduplication` | `[]OneRowPerObject` | the files of a plan are the canonical tables of its inputs, and promoted files equal them |
| `LocalDataset_proofs!HashesTruthful` | `[]CompleteStateTruthful` | `seen` equals `parquet` outside the promoted extracts |
| `LocalDataset_proofs!Refinement` | `Spec => ImplementsTables` | a promoted Parquet drops only rows that another current table keeps |
| `LocalDataset_proofs!CanonicalKept` | `[]UnchangedKeepsCanonicalRow` | while no extract was replaced, every table and plan holds what its extract holds, but for rows a better table keeps (`Faithful`) |
| `LocalDataset_proofs!RowsCounted` | `[]RowsAccountedFor`, if no extract is replaced within one build | every manifest on disk, in a state and in a stage adds up to its own extract (`Accounted`) |
| `Publication_proofs!TypeCorrect` | `[]TypeOK` | the extract being uploaded has a pair |
| `Publication_proofs!Publishes` | `[]CompletedRunIsPublished`, if no contents are restored | what a run skips is on the Hub (`SkipInv`), which needs that an extract not built yet has contents that nothing local or recorded has (`FreshInv`) |
| `Publication_proofs!Settles` | `[]CompletedRunSettles`, if no contents are restored | visited extracts have a matching entry, or one that names an extract replaced since (`Settled`) |
| `Publication_proofs!RecordsVerified` | `OnlyPublishedIsRecorded` | at `record` the verified files are still there |
| `SharedHub_proofs!TypeCorrect` | `[]TypeOK` | history never grows beyond `MaxCommits` |
| `SharedHub_proofs!ReleaseTruthful` | `[]ReleasedStatsDescribeData` | the statistics lie between the pinned inventory and the local data and equal both once the inventory is seen unchanged |
| `SharedHub_proofs!CardKept` | `[](NoLostUpdate /\ ReleaseCommitsNews)` | a parent equal to the head means that the pinned card is the card of the head |
| `SharedHub_proofs!UploadsKnown` | `[]UnverifiedUploadIsKnown` | the intent on disk names the export before any commit is sent |
| `SharedHub_proofs!SentOnce` | `[]SentOnceOnBaseline` | an unverified export is not on the head when the commit is about to be sent |
| `LanguageWorker_proofs!TypeCorrect` | `[]TypeOK` | a part that a receipt hashes is there |
| `LanguageWorker_proofs!AlwaysUsable` | `[]NeverUnusable` | memory equals the checkpoint but for the files of one batch beyond it |
| `LanguageWorker_proofs!QuarantineValidates` | `[]QuarantineSuffices` | nothing runs between the last move and the report |
| `LanguageWorker_proofs!Uninterrupted` | `[]PausedEqualsUninterrupted` | listed parts are those of the grid, by division with remainder |
| `LanguageWorker_proofs!Refinement` | `Spec => ImplementsExactlyOnce` | batches of one grid are disjoint and adjacent |
| `GridSubmission_proofs!TypeCorrect` | `[]TypeOK` | fields of intents and commands |
| `GridSubmission_proofs!Reserved` | `[]LiveJobIsReserved` | an intent is `Truthful` about all jobs of its shard but the misbound ones |
| `GridSubmission_proofs!OneJob` | `[]AtMostOneLiveJob` | at most one intent of the run is active |
| `GridSubmission_proofs!Readability` | `[]IntentsReadable` | who records an answer finds the intent as it was written; a name lookup gives a refused attempt only jobs of other attempts |
| `GridSubmission_proofs!Completeness` | `[]CompleteIsFinal` | what was imported stays in the run directory |
| `GridSubmission_proofs!CompletionKept` | `CompleteStaysComplete` | what an acknowledgement needs is `Ordered` in every intent, readable or not |
| `FrozenInput_proofs!TypeCorrect` | `[]TypeOK` | nothing is staged, run or sealed before the snapshot |
| `FrozenInput_proofs!Annotates` | `[]AnnotatesFrozenInput` | at each step of a worker, each input that is not `raced` is frozen where it is needed next, in memory or on disk (`WorkerKnows`) |
| `FrozenInput_proofs!Stages` | `[]StagedIsFrozen` | a payload is sealed once under its name and verified before it is sent |
| `FrozenInput_proofs!Granted` | `[]GrantedWithinPolicy` | a job is shorter than daytime and than the rest of a day |
| `FrozenInput_proofs!Justifies` | `[]RowsAreJustified` | a row is the annotation of a text with scores in range; ties, merging and clamping in lemmas |
| `GridDriver_proofs!TypeCorrect` | `[]TypeOK` | what the driver remembers at each point of its loop (`Orderly`) |
| `GridDriver_proofs!Whole` | `[]CollectedIsWhole` | while an import commits, what is not here yet is still to be moved, the checkpoint last |
| `GridDriver_proofs!Extends` | `CollectedOnlyExtends` | an import was prepared against the checkpoint that is here, and the worker lock keeps it so |
| `GridDriver_proofs!OneJob` | `[]OneJobInFlight` | nothing begins at a shard before the driver has left all earlier ones (`InTurn`) |
| `GridDriver_proofs!Survives` | `SubmittedWorkSurvives` | a driver that stages and is not blind meets no submission of the shard, known or under way (`Kept`) |
| `GridDriver_proofs!ExportTypes` | `RunSpec => []Export!TypeOK` | |
| `GridDriver_proofs!OnePublished` | `RunSpec => []PublishedIsOneExport` | who holds the lock works under it, and what is committed is what was sealed (`Exporting`) |
| `GridDriver_proofs!CompletePublished` | `RunSpec => []PublishedIsComplete` | a complete shard stays complete |
| `Migrations_proofs!MigrationTypes` | `[]TypeOK` | |
| `Migrations_proofs!CountsStayExact` | `[]CountsAreExact` | every pair on disk and in a stage is `Sound` |
| `Migrations_proofs!RepairedIsWhatABuildWrites` | `[]RepairedIsRebuilt` | a stored text that is valid is the canonical one |
| `Migrations_proofs!ViewsAlwaysAgree` | `[]ViewsAgree` | one row of an object is ahead of all others (`Winner`) |
| `Migrations_proofs!SecondRepairWritesNothing` | `RepairIsIdempotent` | repaired pairs agree and stay so until a build (`StaysRepaired`) |

They hold for any finite number of extracts, objects, ranks and faults, under
the `ASSUME`s of the modules: extracts are numbers, which gives the name order;
ranks have a highest element, because versions and timestamps are 64-bit
columns; the marker `NoFile` is none of the contents. Features are finitely many
per extract, with any texts and shapes; `Nothing` is no number. The gates of the
detector are in the range `LanguagePolicy` enforces. `Publishes` and `Settles`
assume in addition that `"restore"` is not among `ChangeKinds`, and
`restored_extract` shows what happens otherwise. The theorems about
`GridSubmission`, `GridDriver` and `FrozenInput` have no hypothesis. `RowsCounted` assumes that `"manifest"` is not among
`ChangePoints`, as the runs do: a PBF replaced while it is being read is recorded
under the new hash, and its manifest counts rows of another file.

Why the invariants have to be strengthened. `OneRowPerObject` speaks of the
moment before publication only. It holds there because `SkipDedup` compares the
outputs of a completed state with the tables, and such a state was written with
duplicate-free outputs; so the invariant must carry, for every state file and
every plan in memory, that its recorded outputs are duplicate free, that its
files are the canonical ones of its inputs, and, while it promotes, that each
table is either the recorded input, already promoted, or untouched since the
drift check. `CompletedRunIsPublished` similarly needs that an entry of the
state file implies the bytes on the Hub; that is not true in general (it is
the finding of `restored_extract`) and is maintained only because a replaced
pair never has the contents recorded for its extract. An extract may also be
replaced while its table is on the way: then its entry names contents that no
pair was built from, and `Stands` says what is left of it. The table on the Hub
is the local one, and when the pair is built again with the same bytes it is
still the right one; only the manifest there may name the older extract.

In `GridSubmission` the invariant ties intents to jobs (`Truthful`: apart from
misbound attempts only the last one may have a live job, a terminal intent's job
is over, a rejected one has none) and commands to both (`Submitting`): from the
moment the lock is held nothing else writes an intent, although jobs go on
changing. A misbound attempt that is not the last one may have a live job that no
intent speaks of; the last one may have one that its intent calls over. That is
all a confused name can do: no other attempt loses its reservation by it.

In `LanguageWorker` the invariant says that checkpoint and memory list exactly
the parts an uninterrupted worker writes (`PartOf`), and that the files of the
batch at the cursor are the only ones a running worker adds. The arithmetic is
in lemmas: the latest aligned row group exists (`Greatest`, by the
well-foundedness of the naturals), a stream that starts on the grid stays on it
(`GridDistance`), and two offsets of a grid are a batch apart (`GridStep`).

In `FrozenInput` everything hangs on two facts: the snapshot never changes once
it is written, and a payload is written once under its name. So a payload that
was verified when its transfer began is still the verified one at its last
item, however often source and project were replaced since. At the site nothing
else is ever put in the place of an input, so whatever a job imports or opens is
frozen, checked or not. At home the invariant follows each input through its
gap: `detector` is on disk what was imported until it is checked, `glotlid` is
on disk what was checked until it is imported, the source until it is opened,
or the input is in `raced`. `Granted` is the
arithmetic that the code leaves implicit: `_walltime_blocks` compares the two
ends of a window, and that is enough for every instant between them because a
job is shorter than daytime and than the rest of a day (`PolicyAssumption`;
the code has ten hours and thirty minutes).

In `GridDriver`, `Orderly` says what the driver may rely on where it stands: an
import was prepared against the checkpoint that is still here, what is not
moved yet is still on its list, and the checkpoint is on the list until the
end. `OneJobInFlight` needs more, since a driver may be killed and restarted
between any two steps: `InTurn` says that the driver leaves a shard only when
the shard is complete at home or its submitted job is over, that nothing has
begun at a later shard before, and that a shard left behind never gets another
job. `Survives` needs what a driver knew when it left the question behind: only
the driver itself can begin a submission, so one that was answered and met none
under way meets none until it has sent its payload. The export's theorems use `InTurn` as it is:
each export reads shards that were validated as complete, and no step of
the driver takes that back. They assume that the free lock is neither of its
holders (`NothingAssumption`).

In `Migrations` a pair may be torn, healed, refreshed, deduplicated and rebuilt in
any order, so the counts cannot be tied to the Parquet on disk. `Migrating` ties
them to the extract the manifest records instead: `Booked` (every feature of
that extract is counted once, each reason but the missing text and the
duplicates exactly), `Derived` (rows come from its features, as stored or
canonical) and `DuplicatesBooked`. That duplicates are booked exactly needs that
rows are missing only from a pair which the next build reuses as it is; a pair
that a build would replace holds all of them, and that is so because
run-and-publish stages a deduplication only of pairs that passed the strict
validation. Pairs in the stage carry the same facts about their inputs
(`PassSound`), `Stamps` says that a replaced extract is one no manifest has
seen, and `Memory` is what a command relies on between its two writes. All of
them are predicates of values, so a step that leaves a pair alone leaves them
alone. The theorem about the three views needs no history at all but the types:
versions have a highest one, hence the rows of one object have one that is ahead
of all others, and both views and the Python order select it.

`Justifies` says for every text what the run compares on a few. The highest
score exists because scores are bounded (`Greatest`, from the well-foundedness
of the naturals); it is settled exactly when its margin over the best of the
others is no tie (`Ranked`); clamping every GlotLID score before taking the best
of a code equals clamping the best (`BestClamped`). From these follows what each
detector answers (`DetectorAnswers`), then the cascade, then the row.

`ReleaseCommitsNews` and `CompleteStaysComplete` are proved and no run repeats
them; `CanonicalRowKept` is the violated property of `replaced_extract`.

Every invariant and every action property that a passing run checks is a theorem.
Left to TLC is liveness (`KeepsHandingOver`, `KeepsCompleting`,
`CompletesInTheEnd`, `ShareCompletesOrStrands`, `RepairSettles`): TLAPS proves
nothing under fairness and nothing about ENABLED. Induction over data is out of
its provers' reach, too; where a minimum or a maximum is needed the proofs take
it from the well-foundedness of the naturals, and `Migrations` adds up the seven
reasons by name (`Total`) instead of folding over them.

## 5. Plan

Done: every module of section 2, model-checked; theorems about all state
machines. What would add most next, in this order:

1. `RowsCounted` without its hypothesis, for the artifacts whose extract was not
   replaced during their build.
2. An abstract specification of the publication (a dataset that only moves to
   pairs that were local), with the refinement step by step.
3. The safety parts of the liveness properties: whatever a kill leaves, some
   step of the next run is possible.
4. Row groups that are not aligned with batches in `FrozenInput`, as
   `LanguageWorker` has them.

### Observed while modelling

Each of these is the code's behaviour on a path that the models take, leave out
or except by name. None is a run of its own; where one departs from a sentence
of a document or a comment, that sentence is named.

Publication and submission:

* The card of a failed upload stays on the Hub as long as the metadata upload is
  skipped (compare docs/operations.md:50).
* The manifest of a table may stay on the Hub with the hash of an older PBF. The
  PBF is replaced during its own upload; the record hashes the new one
  (`workflow/orchestrator.py:351`); the next run builds the table from the new
  PBF, and when it has the same bytes its entry matches, so it is skipped as
  already published. docs/operations.md:31 says that the state file records only
  verified transitions: the hash of that PBF was not part of any. The bytes of
  the table on the Hub are right all the same, which is what the run checks.
* If the account listing still shows a job that is over, as
  `grid_operator/reconciliation.py:95` says it may and
  `tests/test_grid_scheduler.py` tests, a lookup by name settles a later attempt
  with it. The reservation is gone although the job of that attempt lives or is
  yet to appear, so two jobs may run (compare docs/language-detection.md:593,
  `grid_policy.py:306`). A `status --apply` of a rejected later attempt writes an
  intent that is rejected and names a job, which `read_intent` refuses: the run
  is closed to submissions. The properties of `grid_submission` except such
  attempts by name (`Misbound`).
* A worker killed inside `atomic_write_via` leaves its temporary file beside
  the parts; `stage` then refuses the shard as holding an unknown artifact
  until someone deletes it (`debris` in `LanguageWorker`).
* A job leaves `run/.worker.lock` in the bundle directory, the transfer of a
  second stage does not delete it, and `_verify_stage_file_names` refuses a
  payload with a file that the manifest does not list. The same holds for a
  project file that no longer exists at home: the transfer deletes nothing.

Driver and export:

* A job killed between part and checkpoint leaves an orphan at the site. Stage
  quarantines orphans of the run directory only, so every import of that shard
  is refused from then on (`Stranded`). A local orphan beyond the incoming
  checkpoint makes the validation of an import fail after it was committed.
* `awaiting_collection` does not look at the exit code of its ssh. Without a
  connection nothing seems to wait for collection, and once there is one again
  the driver stages an older checkpoint over what the submitted job has
  committed (`VisitUnanswered`). The same happens when a submission outlives its
  driver and is still under way when the next one asks. `SubmittedWorkSurvives`
  excepts the transfer of a driver in either case (`blind`).
* After an `oarsub` of unknown outcome the driver halts; its next run stages
  again and may put an older checkpoint over one that a job wrote meanwhile,
  which is why `SubmittedWorkSurvives` speaks of submissions that are known.
* A job that registers late may start beside the next shard's job if its own
  shard was finished locally; `OneJobInFlight` leaves out shards that are
  complete at home.
* An export only adds files: those of an earlier run with other shards stay on
  the Hub, uncounted.

Frozen input:

* `grid submit` at the site renders the job again without the payload's
  location, so the job script it submits does not verify the payload. The worker
  itself still checks project, detector configuration and source file.
* Between the verification of the source file and its opening by name a
  replacement goes unnoticed (`raced`). So does one of a module between its
  import and `verify_project_identity` (`workflow/language_workflow.py:124`), and
  one of `glotlid.py` between that check and its import
  (`dataset/languages/detector.py:461`): the check looks at the disk, not at the
  code that runs. All three need a replacement on the operator's machine while a
  worker starts there.
* `fingerprint_project_source` reads file after file; an update in between freezes
  a mix of two states, which only a checkout with that mix satisfies.
* `inspect_source_file` reads metadata and hash one after the other; a file
  replaced in between gives a snapshot no file can satisfy.
* A payload sealed with the wrong source under a resume fingerprint is refused
  whenever it is found again, and never removed.

Migrations:

* `migrate-schema` validates with the contract for texts, so an artifact with
  Arrow maps and an untrimmed text is refused and can only be rebuilt.
* `migrate-text` beside an interrupted promotion books the dropped duplicates as
  rows without text until the pass is resumed (`CountsAreExact` leaves those
  files out).
* An identity that `migrate-schema` refreshes over a killed repair keeps a stale
  `included_rows`; run-and-publish reuses the pair and deduplication refuses it
  until `migrate-text` heals it.
* Language records are extracted from raw tags, not from the trimmed columns, so
  blank texts get annotations, too.

## 6. Not modelled, and why

* Geodesic areas, coordinates, statistics, pictures and rendering are arithmetic
  and layout; the models take their results as given (a shape is what the area
  makes of it, the documents are what the tables determine).
* The language models and the sentence splitter are third-party; `Detection`
  takes their answers as tables. The text cache changes no answer. Errors of a
  provider end the worker, as a kill between two writes does.
* The contents of logs and of Trackio decide nothing. Preflight reads only. The
  command line is parsing and dispatch.
* Two `run-and-publish` processes in one data root are outside the contract:
  there is no lock, and no document says that they may run together.
* `migrate-text` over Arrow maps is excluded by docs/cli.md:67-68, and pool
  workers that survive a killed parent are left out. The checksum of the area
  policy is taken as unchanged.
* In `FrozenInput` row groups are aligned (`LanguageWorker` has the others), the
  serialization of snapshot and payload is abstracted, and a `language run` on
  the operator's machine between two steps of a staging is one of the two
  workers. The re-use of a staged job by a submission on the operator's machine
  and the time between capturing evidence and `oarsub` are left out; for the
  latter see `Capture` of `GridSubmission`.
