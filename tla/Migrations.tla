------------------------------ MODULE Migrations ------------------------------
(***************************************************************************)
(* The commands that rewrite finished artifacts in place: migrate-schema,  *)
(* migrate-text (one by one or in a pool of workers), and the local half   *)
(* of run-and-publish, which rebuilds what it cannot reuse and then        *)
(* deduplicates through a stage.  Each replaces a Parquet before its       *)
(* manifest and may be killed in between; the next command, which need not *)
(* be the same one, finds what is left.                                    *)
(*                                                                         *)
(* The artifacts are those of earlier releases: Arrow maps or lists, texts *)
(* as they were in OSM, blank texts kept or not.  Commands run one at a    *)
(* time.  migrate-text is run once no map is left (docs/cli.md:67-68).     *)
(***************************************************************************)
EXTENDS DescribedRows, Functions

CONSTANTS
    Artifacts,      \* pairs of Parquet and manifest, in the order of names
    FeatureTables,  \* what the extracts may hold: features by object
    MaxKills,       \* bound: how often a command is killed
    MaxChanges,     \* bound: how often an extract is replaced
    Nothing         \* no work in memory

\* Versions of the extracts' features; 0 is a missing one.
Versions == UNION {{f[o].version : o \in DOMAIN f} : f \in FeatureTables}

IsFeature(f) ==
    /\ f.id \in Int /\ f.base \in Texts /\ f.shape \in Shapes
    /\ f.localized \in [DOMAIN f.localized -> Texts]

ASSUME FeaturesAssumption ==
    \A f \in FeatureTables :
        /\ f = [o \in DOMAIN f |-> f[o]] /\ IsFiniteSet(DOMAIN f)
        /\ \A o \in DOMAIN f : IsFeature(f[o])
\* The version is a 64-bit column: there is a highest one.
ASSUME VersionsAssumption ==
    Versions \subseteq Nat /\ \E top \in Versions \cup {0} : \A v \in Versions : v <= top
ASSUME ArtifactsAssumption == Artifacts \subseteq Nat

ASSUME NothingAssumption == Nothing \notin Int
ASSUME MigrationBoundsAssumption == MaxKills \in Nat /\ MaxChanges \in Nat

VARIABLES
    raw,        \* source_root: per artifact its extract
    parquet,    \* data/
    manifest,   \* manifests/
    dedup,      \* the staged deduplication pass, or NoPass
    cmd,        \* the running command and its phase; "idle": none
    pool,       \* migrate-text runs its workers in a pool
    todo,       \* memory: artifacts the command still has to visit
    work,       \* memory: per artifact what its worker promoted, or Nothing
    failed,     \* memory: a worker raised
    repaired,   \* history: nothing was written since migrate-text succeeded
    kills, changes

disk == <<parquet, manifest, dedup>>
memory == <<pool, todo, work, failed>>
bounds == <<kills, changes>>
vars == <<raw, disk, cmd, memory, repaired, bounds>>

NoWork == [a \in Artifacts |-> Nothing]
NoPass == [inputs |-> NoWork, files |-> [a \in {} |-> Nothing], left |-> {}]

First(a) == a \in todo /\ \A b \in todo : a <= b

\* The workers of a pool are independent; a plain run goes name by name.
Turn(a) == IF pool THEN a \in todo ELSE First(a)

Size(table) == Cardinality(DOMAIN table.rows)

\* The rows a build of an earlier release kept, texts as they were.
LegacyRows(features, blank) ==
    LET kept == {o \in DOMAIN features :
                    \/ Outcome(features[o]) = "none"
                    \/ blank /\ Outcome(features[o]) = "no_nonempty_description"}
    IN  [o \in kept |-> Stored(features[o])]

\* RunCounts of a finished build of these rows.
CountsOf(features, rows) ==
    [r \in Reasons |->
        IF r = "no_nonempty_description"
        THEN Cardinality({o \in DOMAIN features \ DOMAIN rows : Outcome(features[o]) = r})
        ELSE Rejected(features, r)]

ManifestOf(source, table, schema) ==
    [source |-> source, output |-> table, schema |-> schema,
     emitted |-> Cardinality(DOMAIN source.features), included |-> Size(table),
     rejected |-> CountsOf(source.features, table.rows)]

Init ==
    /\ raw \in [Artifacts -> [features : FeatureTables, stamp : {0}]]
    /\ \E schema \in [Artifacts -> {"map", "list"}],
          version \in {"old", "current"}, blank \in BOOLEAN :
        /\ parquet = [a \in Artifacts |->
                [schema |-> schema[a], rows |-> LegacyRows(raw[a].features, blank)]]
        /\ manifest = [a \in Artifacts |->
                ManifestOf(raw[a], parquet[a],
                           IF schema[a] = "map" THEN "old" ELSE version)]
    /\ dedup = NoPass
    /\ cmd = "idle"
    /\ pool = FALSE
    /\ todo = {}
    /\ work = NoWork
    /\ failed = FALSE
    /\ repaired = FALSE
    /\ kills = 0
    /\ changes = 0

Begin(command) ==
    /\ cmd = "idle"
    /\ cmd' = command
    /\ todo' = Artifacts
    /\ failed' = FALSE
    /\ UNCHANGED <<raw, disk, work, repaired, bounds>>

Visited(a) == todo' = todo \ {a}

\* A pool lets the other workers finish, a plain run stops at the exception.
Raise(a) ==
    /\ todo' = IF pool THEN todo \ {a} ELSE {}
    /\ failed' = TRUE

Finish(success) ==
    /\ cmd' = "idle"
    /\ pool' = FALSE
    /\ todo' = {}
    /\ work' = NoWork
    /\ failed' = FALSE
    /\ repaired' = success

-----------------------------------------------------------------------------
(* migrate-schema *)

StartSchema == Begin("schema") /\ UNCHANGED pool

\* _migrate_parquet: rewritten as lists, validated with the text contract,
\* and promoted.
SchemaParquet(a) ==
    /\ cmd = "schema"
    /\ First(a)
    /\ parquet[a].schema = "map"
    /\ \A o \in DOMAIN parquet[a].rows : ValidText(parquet[a].rows[o])
    /\ parquet' = [parquet EXCEPT ![a].schema = "list"]
    /\ work' = [work EXCEPT ![a] = 0]
    /\ repaired' = FALSE
    /\ UNCHANGED <<raw, manifest, dedup, cmd, pool, todo, failed, bounds>>

\* The temporary file does not validate: MigrationError.
SchemaRefused(a) ==
    /\ cmd = "schema"
    /\ First(a)
    /\ parquet[a].schema = "map"
    /\ \E o \in DOMAIN parquet[a].rows : ~ValidText(parquet[a].rows[o])
    /\ Raise(a)
    /\ UNCHANGED <<raw, disk, cmd, pool, work, repaired, bounds>>

\* _migrate_one_artifact: versions and identity, the counts as they are.
Versioned(m, table) == [m EXCEPT !.schema = "current", !.output = table]

\* The manifest follows when the Parquet changed or an earlier run was killed
\* before it.
SchemaManifest(a) ==
    /\ cmd = "schema"
    /\ First(a)
    /\ parquet[a].schema = "list"
    /\ \/ /\ work[a] # Nothing \/ manifest[a].schema = "old"
          /\ manifest' = [manifest EXCEPT ![a] = Versioned(@, parquet[a])]
          /\ repaired' = FALSE
       \/ /\ work[a] = Nothing /\ manifest[a].schema = "current"
          /\ UNCHANGED <<manifest, repaired>>
    /\ work' = [work EXCEPT ![a] = Nothing]
    /\ Visited(a)
    /\ UNCHANGED <<raw, parquet, dedup, cmd, pool, failed, bounds>>

-----------------------------------------------------------------------------
(* migrate-text *)

StartText ==
    /\ \A a \in Artifacts : parquet[a].schema = "list"
    /\ Begin("text")
    /\ pool' \in BOOLEAN

RepairedRows(rows) ==
    LET canonical == [o \in DOMAIN rows |-> CanonicalText(rows[o])]
    IN  Restrict(canonical, {o \in DOMAIN rows : Successful(canonical[o])})

\* Mutant: blank localized entries alone are no reason to rewrite a file.
RequiresRepair_Trim(rows) ==
    \E o \in DOMAIN rows : rows[o].base \in {"padded", "blank", "empty"}

\* _requires_text_migration: a row would be dropped or changed.
RequiresRepair(rows) ==
    \E o \in DOMAIN rows :
        ~Successful(CanonicalText(rows[o])) \/ CanonicalText(rows[o]) # rows[o]

\* Mutants: the drop is left out of the rejections; out of the included rows.
Repaired_Uncounted(m, table, dropped) ==
    [m EXCEPT !.output = table, !.included = @ - dropped]
Repaired_StillIncluded(m, table, dropped) ==
    [m EXCEPT !.output = table, !.rejected["no_nonempty_description"] = @ + dropped]

\* _repaired_manifest
Repaired(m, table, dropped) ==
    [m EXCEPT !.output = table, !.included = @ - dropped,
              !.rejected["no_nonempty_description"] = @ + dropped]

\* _migrate_parquet_text: rewrite, validate, promote; remember the drop.
RepairParquet(a) ==
    /\ cmd = "text"
    /\ Turn(a)
    /\ work[a] = Nothing
    /\ RequiresRepair(parquet[a].rows)
    /\ LET rows == RepairedRows(parquet[a].rows)
       IN  /\ \A o \in DOMAIN rows : ValidText(rows[o])
           /\ parquet' = [parquet EXCEPT ![a].rows = rows]
           /\ work' = [work EXCEPT
                ![a] = Cardinality(DOMAIN parquet[a].rows \ DOMAIN rows)]
    /\ repaired' = FALSE
    /\ UNCHANGED <<raw, manifest, dedup, cmd, pool, todo, failed, bounds>>

RepairManifest(a) ==
    /\ cmd = "text"
    /\ Turn(a)
    /\ work[a] # Nothing
    /\ manifest' = [manifest EXCEPT ![a] = Repaired(@, parquet[a], work[a])]
    /\ work' = [work EXCEPT ![a] = Nothing]
    /\ Visited(a)
    /\ UNCHANGED <<raw, parquet, dedup, cmd, pool, failed, repaired, bounds>>

Agrees(a) == manifest[a].output = parquet[a] /\ manifest[a].included = Size(parquet[a])

\* Mutant: the identity alone is brought up to date.
Healed_IdentityOnly(m, table) == [m EXCEPT !.output = table]

\* The rows an interrupted repair dropped are the gap between the counts.
Healed(m, table) == Repaired(m, table, m.included - Size(table))

\* _heal_interrupted_repair of a Parquet whose text is canonical.
Heal(a) ==
    /\ cmd = "text"
    /\ Turn(a)
    /\ work[a] = Nothing
    /\ ~RequiresRepair(parquet[a].rows)
    /\ \/ Agrees(a) /\ UNCHANGED <<manifest, repaired>>
       \/ /\ ~Agrees(a)
          /\ Size(parquet[a]) <= manifest[a].included
          /\ manifest' = [manifest EXCEPT ![a] = Healed(@, parquet[a])]
          /\ repaired' = FALSE
    /\ Visited(a)
    /\ UNCHANGED <<raw, parquet, dedup, cmd, pool, work, failed, bounds>>

\* More rows than recorded cannot be a drop: TextMigrationError.
HealRefused(a) ==
    /\ cmd = "text"
    /\ Turn(a)
    /\ work[a] = Nothing
    /\ ~RequiresRepair(parquet[a].rows)
    /\ Size(parquet[a]) > manifest[a].included
    /\ Raise(a)
    /\ UNCHANGED <<raw, disk, cmd, pool, work, repaired, bounds>>

EndMigration ==
    /\ cmd \in {"schema", "text"}
    /\ todo = {}
    /\ Finish(IF cmd = "text" /\ ~failed THEN TRUE ELSE repaired)
    /\ UNCHANGED <<raw, disk, bounds>>

-----------------------------------------------------------------------------
(* The local half of run-and-publish *)

StartBuild == Begin("build") /\ UNCHANGED pool

\* is_resumable and _valid_output; a map column passes the schema check.
Reusable(a) ==
    /\ manifest[a].schema = "current"
    /\ manifest[a].source = raw[a]
    /\ manifest[a].output = parquet[a]
    /\ \A o \in DOMAIN parquet[a].rows : ValidText(parquet[a].rows[o])

Reuse(a) ==
    /\ cmd = "build"
    /\ First(a)
    /\ work[a] = Nothing
    /\ Reusable(a)
    /\ Visited(a)
    /\ UNCHANGED <<raw, disk, cmd, pool, work, failed, repaired, bounds>>

\* _build_fresh, the writer's half.
BuildParquet(a) ==
    /\ cmd = "build"
    /\ First(a)
    /\ work[a] = Nothing
    /\ ~Reusable(a)
    /\ parquet' = [parquet EXCEPT
            ![a] = [schema |-> "list", rows |-> BuiltRows(raw[a].features)]]
    /\ work' = [work EXCEPT ![a] = 0]
    /\ repaired' = FALSE
    /\ UNCHANGED <<raw, manifest, dedup, cmd, pool, todo, failed, bounds>>

BuildManifest(a) ==
    /\ cmd = "build"
    /\ First(a)
    /\ work[a] # Nothing
    /\ manifest' = [manifest EXCEPT ![a] = ManifestOf(raw[a], parquet[a], "current")]
    /\ work' = [work EXCEPT ![a] = Nothing]
    /\ Visited(a)
    /\ UNCHANGED <<raw, parquet, dedup, cmd, pool, failed, repaired, bounds>>

\* All rows on disk, as the reporting views read them.
Relation ==
    UNION {{[at |-> a, object |-> o, row |-> parquet[a].rows[o]] :
                o \in DOMAIN parquet[a].rows} : a \in Artifacts}

Kept(a) == {x.object : x \in {y \in FirstOf(Relation) : y.at = a}}

\* The pair with these rows left; the others are booked as duplicates.
Deduplicated(t, m, kept) ==
    LET table == [t EXCEPT !.rows = Restrict(@, kept)]
        lost == Size(t) - Size(table)
    IN  [parquet |-> table,
         manifest |-> [m EXCEPT !.output = table, !.included = @ - lost,
                                !.rejected["duplicate"] = @ + lost]]

StagedEntry(a) == Deduplicated(parquet[a], manifest[a], Kept(a))

Shrunk == {a \in Artifacts : Kept(a) # DOMAIN parquet[a].rows}

\* validate_finalized_artifacts and validate_geoparquet, for one pair.
Finalized(a) ==
    /\ Agrees(a)
    /\ \A o \in DOMAIN parquet[a].rows : ValidText(parquet[a].rows[o])

\* deduplicate_dataset without a staged pass: nothing to do, or a new stage.
StageDuplicates ==
    /\ cmd = "build"
    /\ todo = {}
    /\ dedup = NoPass
    /\ \A a \in Artifacts : Finalized(a)
    /\ \/ /\ Shrunk = {}
          /\ Finish(repaired)
          /\ UNCHANGED dedup
       \/ /\ Shrunk # {}
          /\ dedup' = [inputs |-> parquet,
                       files |-> [a \in Shrunk |-> StagedEntry(a)],
                       left |-> Shrunk \X {"parquet", "manifest"}]
          /\ cmd' = "promote"
          /\ todo' = Shrunk
          /\ UNCHANGED <<pool, work, failed, repaired>>
    /\ UNCHANGED <<raw, parquet, manifest, bounds>>

\* A reused pair whose row count is stale: StorageError, the run ends.
DeduplicationRefused ==
    /\ cmd = "build"
    /\ todo = {}
    /\ dedup = NoPass
    /\ \E a \in Artifacts : ~Finalized(a)
    /\ Finish(repaired)
    /\ UNCHANGED <<raw, disk, bounds>>

Drifted ==
    {a \in Artifacts :
        /\ parquet[a] # dedup.inputs[a]
        /\ ~(a \in DOMAIN dedup.files /\ parquet[a] = dedup.files[a].parquet)}

\* A staged pass an earlier run left behind is resumed, or refused when an
\* input is neither what was staged nor what was promoted.
ResumeStaged ==
    /\ cmd = "build"
    /\ todo = {}
    /\ dedup # NoPass
    /\ \/ /\ Drifted = {}
          /\ cmd' = "promote"
          /\ todo' = DOMAIN dedup.files
          /\ UNCHANGED <<pool, work, failed, repaired>>
       \/ /\ Drifted # {}
          /\ Finish(repaired)
    /\ UNCHANGED <<raw, disk, bounds>>

\* _promote_artifact: a staged file, or one that is already in place.
InPlace(a, kind) ==
    \/ <<a, kind>> \in dedup.left
    \/ kind = "parquet" /\ parquet[a] = dedup.files[a].parquet
    \/ kind = "manifest" /\ manifest[a] = dedup.files[a].manifest

PromoteParquet(a) ==
    /\ cmd = "promote"
    /\ First(a)
    /\ work[a] = Nothing
    /\ InPlace(a, "parquet")
    /\ parquet' = [parquet EXCEPT ![a] = dedup.files[a].parquet]
    /\ dedup' = [dedup EXCEPT !.left = @ \ {<<a, "parquet">>}]
    /\ work' = [work EXCEPT ![a] = 0]
    /\ repaired' = FALSE
    /\ UNCHANGED <<raw, manifest, cmd, pool, todo, failed, bounds>>

PromoteManifest(a) ==
    /\ cmd = "promote"
    /\ First(a)
    /\ work[a] # Nothing
    /\ InPlace(a, "manifest")
    /\ manifest' = [manifest EXCEPT ![a] = dedup.files[a].manifest]
    /\ dedup' = [dedup EXCEPT !.left = @ \ {<<a, "manifest">>}]
    /\ work' = [work EXCEPT ![a] = Nothing]
    /\ Visited(a)
    /\ UNCHANGED <<raw, parquet, cmd, pool, failed, repaired, bounds>>

\* DeduplicationError("missing staged artifact")
PromotionFails(a) ==
    /\ cmd = "promote"
    /\ First(a)
    /\ ~InPlace(a, IF work[a] = Nothing THEN "parquet" ELSE "manifest")
    /\ Finish(repaired)
    /\ UNCHANGED <<raw, disk, bounds>>

CompletePass ==
    /\ cmd = "promote"
    /\ todo = {}
    /\ dedup' = NoPass
    /\ Finish(repaired)
    /\ UNCHANGED <<raw, parquet, manifest, bounds>>

-----------------------------------------------------------------------------
(* The world around the commands *)

ChangeExtract(a) ==
    /\ cmd = "idle"
    /\ changes < MaxChanges
    /\ \E features \in FeatureTables :
        raw' = [raw EXCEPT ![a] = [features |-> features, stamp |-> changes + 1]]
    /\ changes' = changes + 1
    /\ UNCHANGED <<disk, cmd, memory, repaired, kills>>

Kill ==
    /\ cmd # "idle"
    /\ kills < MaxKills
    /\ kills' = kills + 1
    /\ Finish(repaired)
    /\ UNCHANGED <<raw, disk, changes>>

SchemaStep == \E a \in Artifacts : SchemaParquet(a) \/ SchemaRefused(a) \/ SchemaManifest(a)
TextStep ==
    \E a \in Artifacts :
        RepairParquet(a) \/ RepairManifest(a) \/ Heal(a) \/ HealRefused(a)
BuildStep ==
    \/ \E a \in Artifacts :
        \/ Reuse(a)
        \/ BuildParquet(a)
        \/ BuildManifest(a)
        \/ PromoteParquet(a)
        \/ PromoteManifest(a)
        \/ PromotionFails(a)
    \/ StageDuplicates
    \/ DeduplicationRefused
    \/ ResumeStaged
    \/ CompletePass

CommandStep == SchemaStep \/ TextStep \/ EndMigration \/ BuildStep

Next ==
    \/ StartSchema
    \/ StartText
    \/ StartBuild
    \/ CommandStep
    \/ Kill
    \/ \E a \in Artifacts : ChangeExtract(a)

Spec == Init /\ [][Next]_vars

\* The operator keeps using both commands, and a command that runs goes on.
FairSpec ==
    /\ Spec
    /\ WF_vars(CommandStep)
    /\ SF_vars(StartText)
    /\ SF_vars(StartBuild)

-----------------------------------------------------------------------------
(* Properties *)

IsRow(r) ==
    r \in [base : Texts, localized : [DOMAIN r.localized -> Texts], version : Versions]

IsTable(t) ==
    /\ t \in [schema : {"map", "list"}, rows : {t.rows}]
    /\ t.rows = [o \in DOMAIN t.rows |-> t.rows[o]] /\ IsFiniteSet(DOMAIN t.rows)
    /\ \A o \in DOMAIN t.rows : IsRow(t.rows[o])

IsManifest(m) ==
    /\ m \in [source : {m.source}, output : {m.output}, schema : {"old", "current"},
              emitted : Nat, included : Int, rejected : [Reasons -> Int]]
    /\ m.source \in [features : FeatureTables, stamp : 0..MaxChanges]
    /\ IsTable(m.output)

IsPass(d) ==
    /\ d \in [inputs : {d.inputs}, files : {d.files},
              left : SUBSET (Artifacts \X {"parquet", "manifest"})]
    /\ d.files \in [DOMAIN d.files -> [parquet : {d.files[a].parquet : a \in DOMAIN d.files},
                                      manifest : {d.files[a].manifest : a \in DOMAIN d.files}]]
    /\ DOMAIN d.files \subseteq Artifacts
    /\ \A a \in DOMAIN d.files :
        IsTable(d.inputs[a]) /\ IsTable(d.files[a].parquet) /\ IsManifest(d.files[a].manifest)

\* Type invariant of the files, the staged pass and the commands' memory.
TypeOK ==
    /\ raw \in [Artifacts -> [features : FeatureTables, stamp : 0..MaxChanges]]
    /\ parquet = [a \in Artifacts |-> parquet[a]] /\ \A a \in Artifacts : IsTable(parquet[a])
    /\ manifest = [a \in Artifacts |-> manifest[a]] /\ \A a \in Artifacts : IsManifest(manifest[a])
    /\ IsPass(dedup)
    /\ cmd \in {"idle", "schema", "text", "build", "promote"}
    /\ pool \in BOOLEAN /\ failed \in BOOLEAN /\ repaired \in BOOLEAN
    /\ todo \subseteq Artifacts
    /\ work \in [Artifacts -> Int \cup {Nothing}]
    /\ kills \in 0..MaxKills /\ changes \in 0..MaxChanges

Staged(a) == a \in DOMAIN dedup.files

\* Whatever was killed and healed in between, a manifest that vouches for its
\* Parquet counts each feature of its extract once, under the reason it is
\* missing for.  A file of a staged pass is left out: there a heal books the
\* dropped duplicates as rows without text until the pass is resumed
\* (_repaired_manifest, _heal_interrupted_repair, RunCounts).
CountsAreExact ==
    \A a \in Artifacts :
        manifest[a].output = parquet[a] /\ manifest[a].source = raw[a] /\ ~Staged(a)
            /\ manifest[a].included = Size(parquet[a]) =>
        LET features == raw[a].features
            missing == DOMAIN features \ DOMAIN parquet[a].rows
            Missing(reason) ==
                Cardinality({o \in missing : Outcome(features[o]) = reason})
        IN  \A r \in Reasons :
                manifest[a].rejected[r] = Missing(IF r = "duplicate" THEN "none" ELSE r)

\* sum(rejections.values())
Total(rejected) ==
    rejected["unsupported_osm_type"] + rejected["invalid_osm_id"]
        + rejected["no_nonempty_description"] + rejected["invalid_geometry"]
        + rejected["non_polygon_geometry"] + rejected["nonpositive_area"]
        + rejected["duplicate"]

\* _validate_artifact_pair of the command validate: the finalized pair, and
\* every emitted feature is counted once.
ValidatesAlone(a) ==
    /\ Finalized(a)
    /\ manifest[a].emitted = manifest[a].included + Total(manifest[a].rejected)

\* A dataset that migrate-text left repaired holds the rows a build of the
\* same extracts would write, apart from deduplicated ones, and each pair
\* passes the command validate (text_migration.py:9-12).
RepairedIsRebuilt ==
    repaired => \A a \in Artifacts :
        /\ ValidatesAlone(a)
        /\ manifest[a].source = raw[a] =>
            parquet[a].rows = Restrict(BuiltRows(raw[a].features),
                                       DOMAIN parquet[a].rows)

\* The three implementations of the text contract agree on every stored row,
\* and the one-pass view of a relation flags the rows that the text-aware
\* view returns, the ones select_canonical_row picks, also while rows of
\* earlier releases lie beside repaired ones
\* (successful_description_text_sql, canonical_rows_with_text_flag_sql).
ViewsAgree ==
    /\ \A x \in Relation :
        /\ Successful(x.row) <=> SqlSuccessful(x.row)
        /\ Successful(x.row) <=> ValidText(x.row)
    /\ LET flagged == {v.entry : v \in {w \in OnePassView(Relation) : w.text}}
           good == {x \in Relation : Successful(x.row)}
       IN  /\ flagged = CanonicalWithText(Relation)
           /\ flagged = {Selected({y \in good : y.object = x.object}) : x \in good}

\* A second migrate-text writes nothing (docs/operations.md:106-107).
RepairIsIdempotent ==
    [][repaired /\ cmd = "text" => UNCHANGED <<parquet, manifest>>]_vars

\* However often commands were killed, artifacts of earlier releases end as
\* pairs that agree, and stay so.
RepairSettles ==
    <>[](\A a \in Artifacts : Agrees(a) /\ ~RequiresRepair(parquet[a].rows))
=============================================================================
