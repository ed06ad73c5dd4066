---------------------------- MODULE LocalDataset ----------------------------
(***************************************************************************)
(* The local half of run-and-publish: discover the PBF extracts, build or  *)
(* reuse one Parquet and one manifest per extract, check completeness,     *)
(* deduplicate globally through a staged and resumable pass, and check     *)
(* again before anything is published.  A run may be killed between any    *)
(* two of its file operations, and extracts may be replaced.               *)
(*                                                                         *)
(* Abstractions.  A file is its content, so two files have the same sha256 *)
(* iff they are equal here.  A row is its object and its rank; a built     *)
(* file lists rows in export order and a staged one in canonical order,    *)
(* which is its form.  One extract holds one row per object.  The schema,  *)
(* policy and algorithm versions that is_resumable also compares do not    *)
(* change while the program runs.                                          *)
(***************************************************************************)
EXTENDS Naturals, FiniteSets, Functions

CONSTANTS
    Sources,        \* extracts; the order of the numbers is the order of names
    Objects,        \* OSM objects, one per (osm_type, osm_id)
    Ranks,          \* (version, timestamp) of a row, missing values lowest
    Extracts,       \* the row sets an extract may hold
    Tokens,         \* names of staging directories
    NoFile,         \* a path where nothing is
    MaxChanges,     \* bound: how often an extract is replaced or removed
    MaxFaults,      \* bound: how often a run is killed or a state write fails
    ChangePoints,   \* program points at which an extract may change
    CrashPoints     \* program points at which a run may be killed

Rows == UNION {[D -> Ranks] : D \in SUBSET Objects}
Artifact == [rows : Rows, form : {"built", "canonical"}]
PbfFile == [rows : Extracts, stamp : Nat]
Manifest == [source : PbfFile, output : Artifact, duplicates : Nat]
Entry == [parquet : Artifact, manifest : Manifest]
StageFile == [parquet : Artifact \cup {NoFile},
              manifest : Manifest \cup {NoFile}]
Tables == [Sources -> Artifact \cup {NoFile}]
DedupState == [status : {"staged", "complete"},
               inputs : Tables,
               outputs : Tables,
               files : [Sources -> Entry \cup {NoFile}],
               stage : Tokens \cup {NoFile}]

ASSUME SourcesAssumption == Sources \subseteq Nat
ASSUME ObjectsAssumption == IsFiniteSet(Objects)
\* Versions and timestamps are 64-bit columns: there is a highest rank.
ASSUME RanksAssumption ==
    Ranks \subseteq Nat /\ \E top \in Ranks : \A r \in Ranks : r <= top
ASSUME ExtractsAssumption == Extracts \subseteq Rows
ASSUME TokensAssumption == IsFiniteSet(Tokens) /\ NoFile \notin Tokens
ASSUME BoundsAssumption == MaxChanges \in Nat /\ MaxFaults \in Nat
ASSUME NoFileAssumption ==
    /\ NoFile \notin Rows
    /\ NoFile \notin PbfFile
    /\ NoFile \notin Artifact
    /\ NoFile \notin Manifest
    /\ NoFile \notin Entry
    /\ NoFile \notin DedupState
    /\ NoFile \notin [Sources -> StageFile]

VARIABLES
    pbf,        \* source_root: per extract its file
    parquet,    \* data/: per extract its Parquet
    manifest,   \* manifests/: per extract its manifest
    dedup,      \* .work/dedup-state.json
    stage,      \* .work/dedup/<token>: staged files per extract
    pc,         \* where the running process is; "idle": no process
    sources,    \* memory: what discover_sources found
    todo,       \* memory: what the current loop still has to visit
    seen,       \* memory: the input hashes read by the drift check
    plan,       \* memory: the deduplication state this run works on
    failure,    \* why the last run stopped
    changes,    \* how often an extract changed
    faults      \* how often a run was killed or a write failed

disk == <<parquet, manifest, dedup, stage>>
memory == <<sources, todo, seen, plan>>
world == <<pbf, changes, faults>>
vars == <<disk, memory, world, pc, failure>>

Points == {"idle", "build", "manifest", "verify", "sweep", "dedup", "record",
           "drift", "promote", "pair", "complete", "unstage", "reverify",
           "ready"}
Failures == {"none", "no source", "incomplete", "drift", "state write",
             "missing staged artifact"}

ASSUME PointsAssumption ==
    ChangePoints \subseteq Points /\ CrashPoints \subseteq Points \ {"idle"}

NoTables == [s \in Sources |-> NoFile]

-----------------------------------------------------------------------------
(* Canonical rows *)

Holds(tables, s, o) == tables[s] # NoFile /\ o \in DOMAIN tables[s].rows

\* Mutants: ties forgotten; the oldest row first.
Beats_NoTieBreak(tables, s, t, o) == tables[s].rows[o] > tables[t].rows[o]
Beats_Ascending(tables, s, t, o) ==
    \/ tables[s].rows[o] < tables[t].rows[o]
    \/ tables[s].rows[o] = tables[t].rows[o] /\ s < t

\* Of two rows for o the one of s is kept: higher rank, then smaller name.
Beats(tables, s, t, o) ==
    \/ tables[s].rows[o] > tables[t].rows[o]
    \/ tables[s].rows[o] = tables[t].rows[o] /\ s < t

\* The objects whose canonical row is the one of s.
Keeps(tables, s) ==
    {o \in DOMAIN tables[s].rows :
        \A t \in Sources \ {s} :
            Holds(tables, t, o) => Beats(tables, s, t, o)}

\* _stage_source stages nothing for an extract that loses no row.
Shrinks(tables, s) ==
    tables[s] # NoFile /\ Keeps(tables, s) # DOMAIN tables[s].rows

Canonical(tables, s) ==
    [rows |-> Restrict(tables[s].rows, Keeps(tables, s)), form |-> "canonical"]

\* Mutants: the earlier drops are forgotten; the count runs the wrong way.
Rewritten_Forgets(m, tables, s) ==
    [m EXCEPT !.output = Canonical(tables, s),
              !.duplicates = Cardinality(DOMAIN tables[s].rows
                                         \ Keeps(tables, s))]
Rewritten_Negative(m, tables, s) ==
    [m EXCEPT !.output = Canonical(tables, s),
              !.duplicates = @ - Cardinality(DOMAIN tables[s].rows
                                             \ Keeps(tables, s))]

\* The rewritten manifest adds the dropped rows to those dropped before.
Rewritten(m, tables, s) ==
    [m EXCEPT !.output = Canonical(tables, s),
              !.duplicates = @ + Cardinality(DOMAIN tables[s].rows
                                             \ Keeps(tables, s))]

StagedEntries(tables) ==
    [s \in Sources |->
        IF Shrinks(tables, s)
        THEN [parquet |-> Canonical(tables, s),
              manifest |-> Rewritten(manifest[s], tables, s)]
        ELSE NoFile]

\* The extracts a deduplication state rewrites.
Affected(state) == {s \in Sources : state.files[s] # NoFile}

\* A staging directory with all its files.
StageOf(files) ==
    [s \in Sources |-> IF files[s] = NoFile
                       THEN [parquet |-> NoFile, manifest |-> NoFile]
                       ELSE files[s]]

-----------------------------------------------------------------------------
(* Artifacts on disk *)

Present == {s \in Sources : parquet[s] # NoFile}

\* local_artifact_is_complete and is_resumable.
Resumable(s) ==
    /\ parquet[s] # NoFile
    /\ manifest[s] # NoFile
    /\ manifest[s].source = pbf[s]
    /\ manifest[s].output = parquet[s]

Complete ==
    /\ \A s \in sources : Resumable(s)
    /\ Present \subseteq sources

\* validate_finalized_artifacts.  It never raises here, straight after Verify.
Validated ==
    \A s \in Present : manifest[s] # NoFile /\ manifest[s].output = parquet[s]

CompletedStateMatches ==
    dedup # NoFile /\ dedup.status = "complete" /\ dedup.outputs = parquet

\* The head of a loop over sorted names.
First(s) == s \in todo /\ \A t \in todo : s <= t

\* An exception or a kill: the process and its memory are gone.
Stop(reason) ==
    /\ pc' = "idle"
    /\ failure' = reason
    /\ sources' = {}
    /\ todo' = {}
    /\ seen' = NoTables
    /\ plan' = NoFile

-----------------------------------------------------------------------------
Init ==
    /\ pbf \in [Sources -> {NoFile} \cup {[rows |-> e, stamp |-> 0] : e \in Extracts}]
    /\ parquet = [s \in Sources |-> NoFile]
    /\ manifest = [s \in Sources |-> NoFile]
    /\ dedup = NoFile
    /\ stage = [t \in Tokens |-> NoFile]
    /\ pc = "idle"
    /\ sources = {}
    /\ todo = {}
    /\ seen = NoTables
    /\ plan = NoFile
    /\ failure = "none"
    /\ changes = 0
    /\ faults = 0

\* _discover_run: the extracts present now are the extracts of this run.
Start ==
    /\ pc = "idle"
    /\ pc' = "build"
    /\ sources' = {s \in Sources : pbf[s] # NoFile}
    /\ todo' = sources'
    /\ failure' = "none"
    /\ UNCHANGED <<disk, world, seen, plan>>

\* process_one finds a complete artifact and leaves it alone.
Reuse(s) ==
    /\ pc = "build"
    /\ First(s)
    /\ pbf[s] # NoFile
    /\ Resumable(s)
    /\ todo' = todo \ {s}
    /\ UNCHANGED <<disk, world, pc, failure, sources, seen, plan>>

\* _build_fresh, first half: the writer replaces the Parquet.
BuildParquet(s) ==
    /\ pc = "build"
    /\ First(s)
    /\ pbf[s] # NoFile
    /\ ~Resumable(s)
    /\ parquet' = [parquet EXCEPT ![s] = [rows |-> pbf[s].rows, form |-> "built"]]
    /\ pc' = "manifest"
    /\ UNCHANGED <<manifest, dedup, stage, world, memory, failure>>

\* _build_fresh, second half: both identities are read now, after extraction.
WriteManifest(s) ==
    /\ pc = "manifest"
    /\ First(s)
    /\ pbf[s] # NoFile
    /\ manifest' = [manifest EXCEPT
            ![s] = [source |-> pbf[s], output |-> parquet[s], duplicates |-> 0]]
    /\ todo' = todo \ {s}
    /\ pc' = "build"
    /\ UNCHANGED <<parquet, dedup, stage, world, sources, seen, plan, failure>>

\* source_identity_for raises when the extract has vanished since discovery.
SourceVanished(s) ==
    /\ pc \in {"build", "manifest"}
    /\ First(s)
    /\ pbf[s] = NoFile
    /\ Stop("no source")
    /\ UNCHANGED <<disk, world>>

BuildDone ==
    /\ pc = "build"
    /\ todo = {}
    /\ pc' = "verify"
    /\ UNCHANGED <<disk, world, memory, failure>>

\* verify_final_completeness, before and after deduplication.
Verify ==
    /\ pc \in {"verify", "reverify"}
    /\ Complete
    /\ pc' = IF pc = "verify" THEN "sweep" ELSE "ready"
    /\ UNCHANGED <<disk, world, memory, failure>>

VerifyFails ==
    /\ pc \in {"verify", "reverify"}
    /\ ~Complete
    /\ Stop("incomplete")
    /\ UNCHANGED <<disk, world>>

\* The entries of .work/dedup that no staged state names.
StateIsStaged == dedup # NoFile /\ dedup.status = "staged"

\* Mutant: the entry the state names is swept as well.
Orphans_All == {t \in Tokens : stage[t] # NoFile}

Orphans ==
    {t \in Tokens : stage[t] # NoFile /\ ~(StateIsStaged /\ dedup.stage = t)}

\* _sweep_orphan_stage_entries; an entry it cannot delete may survive.  One
\* name always stays free for the next stage.
Sweep ==
    /\ pc = "sweep"
    /\ \E kept \in SUBSET Orphans \ {Tokens} :
            stage' = [t \in Tokens |->
                        IF t \in Orphans \ kept THEN NoFile ELSE stage[t]]
    /\ pc' = IF StateIsStaged THEN "drift" ELSE "dedup"
    /\ plan' = IF StateIsStaged THEN dedup ELSE NoFile
    /\ UNCHANGED <<parquet, manifest, dedup, world, sources, todo, seen, failure>>

\* _prepare_context: nothing to do, or the completed state still matches.
SkipDedup ==
    /\ pc = "dedup"
    /\ Validated
    /\ \/ Present = {}
       \/ CompletedStateMatches
    /\ pc' = "reverify"
    /\ UNCHANGED <<disk, world, memory, failure>>

\* _stage_changes into a fresh directory, then _state_payload in memory.
StageChanges ==
    /\ pc = "dedup"
    /\ Present # {}
    /\ Validated
    /\ ~CompletedStateMatches
    /\ LET files == StagedEntries(parquet)
       IN  \/ /\ \A s \in Sources : files[s] = NoFile
              /\ plan' = [status |-> "complete", inputs |-> parquet,
                          outputs |-> parquet, files |-> files, stage |-> NoFile]
              /\ UNCHANGED stage
           \/ /\ \E s \in Sources : files[s] # NoFile
              /\ \E t \in Tokens :
                    /\ stage[t] = NoFile
                    /\ stage' = [stage EXCEPT ![t] = StageOf(files)]
                    /\ plan' = [status |-> "staged", inputs |-> parquet,
                                outputs |-> NoTables, files |-> files, stage |-> t]
    /\ pc' = "record"
    /\ UNCHANGED <<parquet, manifest, dedup, world, sources, todo, seen, failure>>

\* write_state, atomically: staged, or complete when nothing changes.
RecordState ==
    /\ pc = "record"
    /\ dedup' = plan
    /\ pc' = IF plan.status = "staged" THEN "drift" ELSE "reverify"
    /\ UNCHANGED <<parquet, manifest, stage, world, memory, failure>>

\* _record_staged_state when write_state raises, before or after the rename:
\* the stage goes unless the state on disk names it.
RecordFails ==
    /\ pc = "record"
    /\ faults < MaxFaults
    /\ \/ dedup' = dedup
       \/ dedup' = plan
    /\ stage' = IF plan.status = "staged" /\ dedup' # plan
                THEN [stage EXCEPT ![plan.stage] = NoFile]
                ELSE stage
    /\ faults' = faults + 1
    /\ Stop("state write")
    /\ UNCHANGED <<parquet, manifest, pbf, changes>>

\* Mutants: no drift check; the hashes of promoted files are not accepted.
Drifted_Never == {}
Drifted_OnlyOld == {s \in Sources : parquet[s] # plan.inputs[s]}

\* staged_input_drift_names: names added, removed or neither old nor new.
Drifted ==
    {s \in Sources :
        /\ parquet[s] # plan.inputs[s]
        /\ ~(s \in Affected(plan) /\ parquet[s] = plan.files[s].parquet)}

\* _verify_staged_inputs, and the stage check that opens _promote_staged.
DriftCheck ==
    /\ pc = "drift"
    /\ Drifted = {}
    /\ stage[plan.stage] # NoFile
    /\ seen' = parquet
    /\ todo' = Affected(plan)
    /\ pc' = "promote"
    /\ UNCHANGED <<disk, world, sources, plan, failure>>

DriftRefused ==
    /\ pc = "drift"
    /\ Drifted # {}
    /\ Stop("drift")
    /\ UNCHANGED <<disk, world>>

\* _promote_artifact for the Parquet of an entry: move it, or find it moved.
PromoteParquet(s) ==
    /\ pc = "promote"
    /\ First(s)
    /\ LET staged == stage[plan.stage][s].parquet
       IN  \/ /\ staged # NoFile
              /\ parquet' = [parquet EXCEPT ![s] = staged]
              /\ stage' = [stage EXCEPT ![plan.stage][s].parquet = NoFile]
           \/ /\ staged = NoFile
              /\ parquet[s] = plan.files[s].parquet
              /\ UNCHANGED <<parquet, stage>>
    /\ pc' = "pair"
    /\ UNCHANGED <<manifest, dedup, world, memory, failure>>

\* Neither staged nor promoted: DeduplicationError("missing staged artifact").
PromotionFails(s) ==
    /\ pc = "promote"
    /\ First(s)
    /\ stage[plan.stage][s].parquet = NoFile
    /\ parquet[s] # plan.files[s].parquet
    /\ Stop("missing staged artifact")
    /\ UNCHANGED <<disk, world>>

\* _promote_artifact for the manifest of the same entry.
PromoteManifest(s) ==
    /\ pc = "pair"
    /\ First(s)
    /\ LET staged == stage[plan.stage][s].manifest
       IN  \/ /\ staged # NoFile
              /\ manifest' = [manifest EXCEPT ![s] = staged]
              /\ stage' = [stage EXCEPT ![plan.stage][s].manifest = NoFile]
           \/ /\ staged = NoFile
              /\ manifest[s] = plan.files[s].manifest
              /\ UNCHANGED <<manifest, stage>>
    /\ todo' = todo \ {s}
    /\ pc' = "promote"
    /\ UNCHANGED <<parquet, dedup, world, sources, seen, plan, failure>>

\* Mutant: the hashes read before the promotion are recorded.
PromotedOutputs_Stale == seen

\* _promoted_output_hashes: known hashes stand in for reading the files again.
PromotedOutputs ==
    [s \in Sources |->
        IF s \in Affected(plan) THEN plan.files[s].parquet ELSE seen[s]]

WriteComplete ==
    /\ pc = "promote"
    /\ todo = {}
    /\ dedup' = [plan EXCEPT !.status = "complete",
                             !.outputs = PromotedOutputs,
                             !.stage = NoFile]
    /\ pc' = "unstage"
    /\ UNCHANGED <<parquet, manifest, stage, world, memory, failure>>

RemoveStage ==
    /\ pc = "unstage"
    /\ stage' = [stage EXCEPT ![plan.stage] = NoFile]
    /\ pc' = "reverify"
    /\ UNCHANGED <<parquet, manifest, dedup, world, memory, failure>>

\* The run goes on to publication, which leaves these files alone, and ends.
HandOver ==
    /\ pc = "ready"
    /\ Stop("none")
    /\ UNCHANGED <<disk, world>>

-----------------------------------------------------------------------------
(* The world around the run *)

\* An operator downloads a newer extract, adds one or removes one.
ChangePbf(s) ==
    /\ pc \in ChangePoints
    /\ changes < MaxChanges
    /\ \/ \E e \in Extracts :
            pbf' = [pbf EXCEPT ![s] = [rows |-> e, stamp |-> changes + 1]]
       \/ pbf[s] # NoFile /\ pbf' = [pbf EXCEPT ![s] = NoFile]
    /\ changes' = changes + 1
    /\ UNCHANGED <<disk, memory, pc, failure, faults>>

Crash ==
    /\ pc \in CrashPoints
    /\ faults < MaxFaults
    /\ faults' = faults + 1
    /\ Stop("none")
    /\ UNCHANGED <<disk, pbf, changes>>

BuildStep(s) == Reuse(s) \/ BuildParquet(s) \/ WriteManifest(s) \/ SourceVanished(s)
PromoteStep(s) == PromoteParquet(s) \/ PromotionFails(s) \/ PromoteManifest(s)

RunStep ==
    \/ Start
    \/ \E s \in Sources : BuildStep(s) \/ PromoteStep(s)
    \/ BuildDone
    \/ Verify
    \/ VerifyFails
    \/ Sweep
    \/ SkipDedup
    \/ StageChanges
    \/ RecordState
    \/ DriftCheck
    \/ DriftRefused
    \/ WriteComplete
    \/ RemoveStage
    \/ HandOver

Next ==
    \/ RunStep
    \/ RecordFails
    \/ Crash
    \/ \E s \in Sources : ChangePbf(s)

Spec == Init /\ [][Next]_vars

\* The operator runs the command again after a stop, and a run goes on.
FairSpec == Spec /\ WF_vars(RunStep)
-----------------------------------------------------------------------------
(* Properties *)

\* Type invariant of files, state file, program counter and memory.
TypeOK ==
    /\ pbf \in [Sources -> PbfFile \cup {NoFile}]
    /\ parquet \in Tables
    /\ manifest \in [Sources -> Manifest \cup {NoFile}]
    /\ dedup \in DedupState \cup {NoFile}
    /\ stage \in [Tokens -> [Sources -> StageFile] \cup {NoFile}]
    /\ pc \in Points
    /\ sources \subseteq Sources
    /\ todo \subseteq Sources
    /\ seen \in Tables
    /\ plan \in DedupState \cup {NoFile}
    /\ failure \in Failures
    /\ changes \in 0..MaxChanges
    /\ faults \in 0..MaxFaults

DuplicateFree(tables) ==
    \A s, t \in Sources, o \in Objects :
        Holds(tables, s, o) /\ Holds(tables, t, o) => s = t

\* When a run goes on to publication no object has a row in two Parquets,
\* however many runs were killed in the staged pass and whatever extracts
\* were replaced in between (deduplicate_dataset, _verify_staged_inputs).
OneRowPerObject == pc = "ready" => DuplicateFree(parquet)

\* The rows of a Parquet and the duplicates its manifest counts add up to
\* the rows of the extract, also when one file loses rows to several passes
\* (_stage_source, RunCounts).
RowsAccountedFor ==
    pc = "ready" =>
        \A s \in Present :
            Cardinality(DOMAIN parquet[s].rows) + manifest[s].duplicates
                = Cardinality(DOMAIN manifest[s].source.rows)

\* A state file that says staged names a directory that exists, and whatever
\* is still in it is what the state says, no Parquet behind its manifest
\* (_record_staged_state, _sweep_orphan_stage_entries, _remove_stage_dir).
StagedWorkIsRecoverable ==
    StateIsStaged =>
        /\ stage[dedup.stage] # NoFile
        /\ \A s \in Affected(dedup) :
            LET staged == stage[dedup.stage][s]
            IN  /\ staged.parquet \in {dedup.files[s].parquet, NoFile}
                /\ staged.manifest \in {dedup.files[s].manifest, NoFile}
                /\ staged.manifest = NoFile => staged.parquet = NoFile

\* The output hashes of a freshly completed state, recorded without reading
\* a file again, are the hashes of the files (_promoted_output_hashes).
CompleteStateTruthful ==
    pc \in {"unstage", "ready"} /\ Present # {} => CompletedStateMatches

\* Before publication each object of the current extracts has its canonical
\* row, in the table of the extract that holds the best one: the highest
\* rank, of equal ranks the one of the smallest name
\* (canonical_rows_sql; docs/dataset-contract.md:99).
CanonicalRowKept ==
    pc = "ready" =>
        \A s \in sources : \A o \in DOMAIN pbf[s].rows :
            (\A t \in sources \ {s} :
                o \in DOMAIN pbf[t].rows =>
                    \/ pbf[t].rows[o] < pbf[s].rows[o]
                    \/ pbf[t].rows[o] = pbf[s].rows[o] /\ s < t)
            => /\ o \in DOMAIN parquet[s].rows
               /\ parquet[s].rows[o] = pbf[s].rows[o]

\* An interrupted promotion is finished by the next run as long as no input
\* changes (docs/operations.md:75).
InterruptedPromotionFinishes == failure # "missing staged artifact"

\* While no extract is replaced, no sequence of kills and failed state writes
\* costs the current extracts a canonical row (_verify_staged_inputs,
\* _promote_artifact; replaced extracts: CanonicalRowKept itself).
UnchangedKeepsCanonicalRow == changes = 0 => CanonicalRowKept

\* Runs started again and again hand a dataset over again and again, whatever
\* they were killed at before.  A run stops for ever only where the code says
\* so: at a staged artifact that is neither staged nor promoted or, after an
\* extract was replaced or withdrawn, at drifted inputs or at an artifact
\* without its extract (_verify_staged_inputs, verify_final_completeness).
KeepsHandingOver ==
    []<>(\/ pc = "ready"
         \/ failure = "missing staged artifact"
         \/ failure \in {"drift", "incomplete"} /\ changes > 0)

\* Refinement: the tables of RegionalTables are the rows on disk.
Regional == INSTANCE RegionalTables WITH
    extracts <- [s \in Sources |->
                    IF pbf[s] = NoFile THEN NoFile ELSE pbf[s].rows],
    tables <- [s \in Sources |->
                IF parquet[s] = NoFile THEN NoFile ELSE parquet[s].rows],
    announced <- pc = "ready"

\* Each step changes an extract, makes a table anew of its extract, drops
\* duplicates of rows that stay elsewhere, or announces tables without
\* duplicates; rows of an old stage never come back over a newer table
\* (_verify_staged_inputs, _promote_artifact).
ImplementsTables == Regional!Spec
=============================================================================
