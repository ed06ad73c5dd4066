----------------------------- MODULE Publication -----------------------------
(***************************************************************************)
(* The publishing half of run-and-publish: one upload plan per extract,    *)
(* sent by the hf tool, verified against the Hub and then recorded in      *)
(* publication-state.json; the removal of managed files that no local      *)
(* artifact stands behind; and the final metadata upload.  LocalDataset    *)
(* hands over the local artifacts; another writer may edit the card, and   *)
(* whoever downloads extracts may replace one at any moment: its hash is   *)
(* taken anew each time the code asks for it, also after a long upload.    *)
(*                                                                         *)
(* Abstractions.  A content hash is a number.  The five documents (card,   *)
(* stats.json, three assets) are one file, the tables they describe.  A    *)
(* verification reads one revision, so it is one step on the Hub's head.   *)
(* An extract that is gone when it is to be hashed ends the run, as Fail.  *)
(***************************************************************************)
EXTENDS Naturals

CONSTANTS
    Sources,        \* extracts; the order of the numbers is the order of names
    NoFile,         \* nothing at that path, nothing recorded
    Edited,         \* a card another writer has changed
    ChangeKinds,    \* what may happen to an extract
    MaxRetries,     \* DEFAULT_MAX_RETRIES
    MaxChanges,     \* bound: changes of extracts and of their pairs
    MaxFaults,      \* bound: failed or killed uploads, refused calls, kills
    MaxEdits        \* bound: edits of the card by another writer

\* A finalized Parquet with its manifest.  The manifest also holds times and
\* versions, which are its stamp: every rebuild writes another manifest.
Pair == [source : Nat, output : Nat, stamp : Nat]
Hashes(pair) == [source |-> pair.source, output |-> pair.output]
Entry == [source : Nat, output : Nat]
Docs == [Sources -> Nat \cup {NoFile}]
Kinds == {"replace", "rewrite", "restore", "withdraw"}

ASSUME SourcesAssumption == Sources \subseteq Nat
ASSUME BoundsAssumption ==
    {MaxRetries, MaxChanges, MaxFaults, MaxEdits} \subseteq Nat
ASSUME KindsAssumption == ChangeKinds \subseteq Kinds
ASSUME NoFileAssumption ==
    /\ NoFile \notin Nat \cup Sources
    /\ NoFile \notin Pair
    /\ NoFile \notin Entry
    /\ NoFile \notin Docs
    /\ Edited \notin Docs \cup {NoFile}

VARIABLES
    extract,        \* the source root: per extract the hash of the PBF there now
    local,          \* data/ and manifests/: per extract its pair
    docs,           \* README.md, stats.json and assets/: the tables described
    hubData,        \* the Hub's head: data/
    hubManifests,   \* the Hub's head: manifests/
    hubDocs,        \* the Hub's head: README.md, stats.json and assets/
    published,      \* publication-state.json: per extract what was published
    metadata,       \* publication-state.json: the documents published last
    pc,             \* where the running process is; "idle": no process
    todo,           \* memory: extracts still to visit
    job,            \* memory: the extract being uploaded; NoFile: the documents
    unsent,         \* the plan's files the hf tool has not committed yet
    attempts,       \* retries of this upload
    stale,          \* memory: managed remote files to delete
    outrun,         \* history: extracts last recorded with the hash of a PBF
                    \* that their table was not built from
    changes, faults, edits

artifacts == <<local, docs>>
hub == <<hubData, hubManifests, hubDocs>>
state == <<published, metadata, outrun>>
upload == <<job, unsent, attempts>>
world == <<changes, faults, edits>>
vars == <<extract, artifacts, hub, state, pc, todo, upload, stale, world>>

Points == {"idle", "publish", "send", "verify", "record", "delete",
           "metadata", "done"}
Files == {"data", "manifest", "docs"}
Nothing == [s \in Sources |-> NoFile]

Present == {s \in Sources : local[s] # NoFile}

\* generate_dataset_docs: the documents are a function of the tables.
Described ==
    [s \in Sources |-> IF local[s] = NoFile THEN NoFile ELSE local[s].output]

\* Mutant: the four files of the docstring, without stats and assets.
PlanFiles_Narrow(j) == IF j = NoFile THEN {"docs"} ELSE {"data", "manifest"}

\* build_per_pbf_upload_plan and build_metadata_only_upload_plan.
PlanFiles(j) == IF j = NoFile THEN {"docs"} ELSE Files

\* The extract of s is still the one that its pair was built from.
UpToDate(s) == local[s] # NoFile /\ local[s].source = extract[s]

\* published_state_matches: the entry and the manifest agree with the PBF and
\* the table, both hashed now.
AlreadyPublished(s) == UpToDate(s) /\ published[s] = Hashes(local[s])

\* Mutant: what the tool reports is believed.
Verified_Trusting == TRUE

\* _verify_files_at_revision: every planned file is on the Hub as it is here.
Verified ==
    /\ hubDocs = docs
    /\ job # NoFile =>
        hubData[job] = local[job].output /\ hubManifests[job] = local[job]

\* Mutant: only tables are cleaned up, never manifests.
StaleFiles_DataOnly ==
    {<<"data", s>> : s \in {t \in Sources \ Present : hubData[t] # NoFile}}

\* _reconcile_managed_files: remote data/ and manifests/ files not in the plan.
StaleFiles ==
    {<<"data", s>> : s \in {t \in Sources \ Present : hubData[t] # NoFile}}
    \cup {<<"manifest", s>> :
            s \in {t \in Sources \ Present : hubManifests[t] # NoFile}}

First(s) == s \in todo /\ \A t \in todo : s <= t

\* An exception or a kill: the process and its memory are gone.
Stop ==
    /\ pc' = "idle"
    /\ todo' = {}
    /\ job' = NoFile
    /\ unsent' = {}
    /\ attempts' = 0
    /\ stale' = {}

-----------------------------------------------------------------------------
Init ==
    /\ extract \in [Sources -> {NoFile, 0}]
    /\ extract # Nothing
    /\ local = Nothing
    /\ docs = NoFile
    /\ hubData = Nothing
    /\ hubManifests = Nothing
    /\ hubDocs = NoFile
    /\ published = Nothing
    /\ metadata = NoFile
    /\ outrun = {}
    /\ pc = "idle"
    /\ todo = {}
    /\ job = NoFile
    /\ unsent = {}
    /\ attempts = 0
    /\ stale = {}
    /\ changes = 0
    /\ faults = 0
    /\ edits = 0

\* The local half builds the pair of an extract that has none or another one;
\* the table may come out with the bytes that it had before.
Rebuild(s) ==
    /\ pc = "idle"
    /\ extract[s] # NoFile
    /\ ~UpToDate(s)
    /\ \E output \in {extract[s]} \cup {local[t].output : t \in {s} \cap Present} :
        local' = [local EXCEPT ![s] = [source |-> extract[s],
                                       output |-> output,
                                       stamp |-> changes]]
    /\ UNCHANGED <<extract, docs, hub, state, pc, todo, upload, stale, world>>

\* The local half is done: artifacts final, documents regenerated.
Start ==
    /\ pc = "idle"
    /\ \A s \in Sources : extract[s] # NoFile => UpToDate(s)
    /\ docs' = Described
    /\ todo' = Present
    /\ pc' = "publish"
    /\ UNCHANGED <<extract, local, hub, state, upload, stale, world>>

\* _publish_source_if_needed: "already published; nothing to do".
Skip(s) ==
    /\ pc = "publish"
    /\ First(s)
    /\ AlreadyPublished(s)
    /\ todo' = todo \ {s}
    /\ UNCHANGED <<extract, artifacts, hub, state, pc, upload, stale, world>>

\* _execute_publication: the plan is built and the whole tree revalidated.
BeginUpload(s) ==
    /\ pc = "publish"
    /\ First(s)
    /\ ~AlreadyPublished(s)
    /\ job' = s
    /\ unsent' = PlanFiles(s)
    /\ attempts' = 0
    /\ pc' = "send"
    /\ UNCHANGED <<extract, artifacts, hub, state, todo, stale, world>>

\* hf upload-large-folder commits some of the plan's files.
Send ==
    /\ pc = "send"
    /\ \E chunk \in SUBSET unsent \ {{}} :
        /\ unsent' = unsent \ chunk
        /\ hubData' = IF "data" \in chunk
                      THEN [hubData EXCEPT ![job] = local[job].output]
                      ELSE hubData
        /\ hubManifests' = IF "manifest" \in chunk
                           THEN [hubManifests EXCEPT ![job] = local[job]]
                           ELSE hubManifests
        /\ hubDocs' = IF "docs" \in chunk THEN docs ELSE hubDocs
    /\ UNCHANGED <<extract, artifacts, state, pc, todo, job, attempts, stale, world>>

\* The tool exits with 0, as a fault even with a file left behind.
Sent ==
    /\ pc = "send"
    /\ \/ unsent = {} /\ UNCHANGED faults
       \/ unsent # {} /\ faults < MaxFaults /\ faults' = faults + 1
    /\ pc' = "verify"
    /\ unsent' = {}
    /\ UNCHANGED <<extract, artifacts, hub, state, todo, job, attempts, stale, changes, edits>>

\* Mutant: one retry more than the limit.
MayRetry_OneMore == attempts <= MaxRetries

MayRetry == attempts < MaxRetries

\* _run_with_retry: a retryable exit code or a timeout, whatever has landed.
Retry ==
    /\ pc = "send"
    /\ faults < MaxFaults
    /\ MayRetry
    /\ attempts' = attempts + 1
    /\ unsent' = PlanFiles(job)
    /\ faults' = faults + 1
    /\ UNCHANGED <<extract, artifacts, hub, state, pc, todo, job, stale, changes, edits>>

VerifySucceeds ==
    /\ pc = "verify"
    /\ Verified
    /\ pc' = "record"
    /\ UNCHANGED <<extract, artifacts, hub, state, todo, upload, stale, world>>

VerifyRefuses ==
    /\ pc = "verify"
    /\ ~Verified
    /\ Stop
    /\ UNCHANGED <<extract, artifacts, hub, state, world>>

\* What write_publication_state is given: both files hashed at that moment.
NewEntry(s) == [source |-> extract[s], output |-> local[s].output]

\* Mutant: the state file is rebuilt from the current extract alone.
Record_Forgets(s) == [Nothing EXCEPT ![s] = NewEntry(s)]

\* write_publication_state: read, change one entry, write atomically.
Record(s) == [published EXCEPT ![s] = NewEntry(s)]

RecordSource ==
    /\ pc = "record"
    /\ job # NoFile
    /\ published' = Record(job)
    /\ outrun' = IF UpToDate(job) THEN outrun \ {job} ELSE outrun \cup {job}
    /\ todo' = todo \ {job}
    /\ job' = NoFile
    /\ pc' = "publish"
    /\ UNCHANGED <<extract, artifacts, hub, metadata, unsent, attempts, stale, world>>

\* _reconcile_remote, first half: list the Hub's files.
ListRemote ==
    /\ pc = "publish"
    /\ todo = {}
    /\ stale' = StaleFiles
    /\ pc' = IF stale' = {} THEN "metadata" ELSE "delete"
    /\ UNCHANGED <<extract, artifacts, hub, state, todo, upload, world>>

\* _reconcile_remote, second half: delete them in one commit.
DeleteStale ==
    /\ pc = "delete"
    /\ hubData' =
        [s \in Sources |-> IF <<"data", s>> \in stale THEN NoFile ELSE hubData[s]]
    /\ hubManifests' =
        [s \in Sources |->
            IF <<"manifest", s>> \in stale THEN NoFile ELSE hubManifests[s]]
    /\ stale' = {}
    /\ pc' = "metadata"
    /\ UNCHANGED <<extract, artifacts, hubDocs, state, todo, upload, world>>

\* metadata_state_matches: the documents were published before.
SkipMetadata ==
    /\ pc = "metadata"
    /\ metadata = docs
    /\ pc' = "done"
    /\ UNCHANGED <<extract, artifacts, hub, state, todo, upload, stale, world>>

BeginMetadata ==
    /\ pc = "metadata"
    /\ metadata # docs
    /\ unsent' = PlanFiles(NoFile)
    /\ attempts' = 0
    /\ pc' = "send"
    /\ UNCHANGED <<extract, artifacts, hub, state, todo, job, stale, world>>

\* write_metadata_state.
RecordMetadata ==
    /\ pc = "record"
    /\ job = NoFile
    /\ metadata' = docs
    /\ pc' = "done"
    /\ UNCHANGED <<extract, artifacts, hub, published, outrun, todo, upload,
                   stale, world>>

Finish ==
    /\ pc = "done"
    /\ Stop
    /\ UNCHANGED <<extract, artifacts, hub, state, world>>

\* A kill, a refused network call, an upload that may not be retried.
Fail ==
    /\ pc # "idle"
    /\ faults < MaxFaults
    /\ faults' = faults + 1
    /\ Stop
    /\ UNCHANGED <<extract, artifacts, hub, state, changes, edits>>

-----------------------------------------------------------------------------
(* The world around the run *)

\* Someone puts another PBF in the place of s, whatever the run is doing: with
\* contents never seen before, or with contents seen before.
ReplaceExtract(s) ==
    /\ changes < MaxChanges
    /\ changes' = changes + 1
    /\ \/ "replace" \in ChangeKinds /\ extract' = [extract EXCEPT ![s] = changes']
       \/ /\ "restore" \in ChangeKinds
          /\ \E k \in 0..changes : extract' = [extract EXCEPT ![s] = k]
    /\ UNCHANGED <<artifacts, hub, state, pc, todo, upload, stale, faults, edits>>

\* Between two runs LocalDataset rewrites the pair of an unchanged extract: a
\* deduplicated table, or one rebuilt for another version or file time, when
\* only the manifest may differ.
ChangeLocal(s) ==
    /\ pc = "idle"
    /\ UpToDate(s)
    /\ changes < MaxChanges
    /\ changes' = changes + 1
    /\ "rewrite" \in ChangeKinds
    /\ \E output \in {local[s].output, changes'} :
        local' = [local EXCEPT ![s].output = output, ![s].stamp = changes']
    /\ UNCHANGED <<extract, docs, hub, state, pc, todo, upload, stale, faults, edits>>

\* Between two runs the operator takes away an extract with its pair.  The last
\* one stays: preflight refuses a run without any.
Withdraw(s) ==
    /\ pc = "idle"
    /\ "withdraw" \in ChangeKinds
    /\ changes < MaxChanges
    /\ changes' = changes + 1
    /\ \E t \in Sources \ {s} : extract[t] # NoFile
    /\ extract[s] # NoFile
    /\ extract' = [extract EXCEPT ![s] = NoFile]
    /\ local' = [local EXCEPT ![s] = NoFile]
    /\ UNCHANGED <<docs, hub, state, pc, todo, upload, stale, faults, edits>>

\* A language publication or a statistics release commits to the card.
EditCard ==
    /\ edits < MaxEdits
    /\ hubDocs # NoFile
    /\ hubDocs' = Edited
    /\ edits' = edits + 1
    /\ UNCHANGED <<extract, artifacts, hubData, hubManifests, state, pc, todo, upload,
                   stale, changes, faults>>

RunStep ==
    \/ Start
    \/ \E s \in Sources : Rebuild(s) \/ Skip(s) \/ BeginUpload(s)
    \/ Send
    \/ Sent
    \/ VerifySucceeds
    \/ VerifyRefuses
    \/ RecordSource
    \/ ListRemote
    \/ DeleteStale
    \/ SkipMetadata
    \/ BeginMetadata
    \/ RecordMetadata
    \/ Finish

Next ==
    \/ RunStep
    \/ Retry
    \/ Fail
    \/ \E s \in Sources : ReplaceExtract(s) \/ ChangeLocal(s) \/ Withdraw(s)
    \/ EditCard

Spec == Init /\ [][Next]_vars

\* The operator runs the command again, a run goes on, the tool makes progress.
FairSpec == Spec /\ WF_vars(RunStep)
-----------------------------------------------------------------------------
(* Properties *)

\* Type invariant.
TypeOK ==
    /\ extract \in [Sources -> Nat \cup {NoFile}]
    /\ local \in [Sources -> Pair \cup {NoFile}]
    /\ docs \in Docs \cup {NoFile}
    /\ hubData \in [Sources -> Nat \cup {NoFile}]
    /\ hubManifests \in [Sources -> Pair \cup {NoFile}]
    /\ hubDocs \in Docs \cup {NoFile, Edited}
    /\ published \in [Sources -> Entry \cup {NoFile}]
    /\ metadata \in Docs \cup {NoFile}
    /\ outrun \subseteq Sources
    /\ pc \in Points
    /\ todo \subseteq Sources
    /\ job \in Sources \cup {NoFile}
    /\ unsent \subseteq Files
    /\ attempts \in 0..MaxRetries
    /\ stale \subseteq {"data", "manifest"} \X Sources
    /\ changes \in 0..MaxChanges
    /\ faults \in 0..MaxFaults
    /\ edits \in 0..MaxEdits

\* A completed run leaves on the Hub exactly the local tables, each beside a
\* manifest that describes it, whatever earlier runs were killed at and
\* whenever an extract is replaced (_publish_sources, _reconcile_remote;
\* workflow/orchestrator.py:22).  That manifest also names the extract the
\* table was built from, unless the PBF was replaced between build and record.
CompletedRunIsPublished ==
    pc = "done" =>
        /\ hubData = Described
        /\ \A s \in Sources \ Present : hubManifests[s] = NoFile
        /\ \A s \in Present :
            /\ hubManifests[s] # NoFile
            /\ hubManifests[s].output = local[s].output
            /\ s \notin outrun => hubManifests[s].source = local[s].source

\* The tables alone: what is skipped as already published is on the Hub
\* (published_state_matches; workflow/orchestrator.py:24).
CompletedRunHasTables == pc = "done" => hubData = Described

\* After a completed run the next one has nothing to send for an extract that
\* is still the one its table was built from: its entry matches, and so does
\* the metadata identity (docs/operations.md:133).
CompletedRunSettles ==
    pc = "done" =>
        /\ \A s \in Present : UpToDate(s) => AlreadyPublished(s)
        /\ metadata = docs

\* The state file never gains an entry for bytes the Hub does not hold, also
\* when the tool reports a success that left a file behind
\* (_verify_source_plan before write_publication_state).
OnlyPublishedIsRecorded ==
    [][/\ \A s \in Sources :
            published'[s] # published[s] =>
                /\ hubData[s] = published'[s].output
                /\ hubManifests[s] = local[s]
       /\ metadata' # metadata => hubDocs \in {metadata', Edited}]_vars

\* Runs started again and again complete again and again.
KeepsCompleting == []<>(pc = "done")
=============================================================================
