------------------------------ MODULE FrozenInput ------------------------------
(***************************************************************************)
(* From the snapshot that freezes a run's inputs to the annotations made   *)
(* of them.  language prepare freezes the source file of a shard and the   *)
(* project's code; grid stage seals both, with the state to resume from,   *)
(* in a payload named after that state and transfers it; grid submit asks  *)
(* the policy; a worker, on the operator's machine or at the site, checks  *)
(* code and source, opens the source and commits annotated batches; grid   *)
(* collect imports what extends the local state.                           *)
(*                                                                         *)
(* Meanwhile data/ may be replaced, by rename, and the project updated,    *)
(* file after file, at every step.  One shard; a file is its version; a    *)
(* part is the versions it was made from.  Two files stand for the         *)
(* project: detector.py, imported when a command starts like most of it,   *)
(* and glotlid.py, imported when the detector is built.                    *)
(* Submission intents and job control are module GridDriver.               *)
(***************************************************************************)
EXTENDS Detection, GridPolicy, Sequences, SequencesExt

CONSTANTS
    Versions,           \* contents the source and a project file may have
    Batches,            \* batches of the shard
    TextsOf(_, _),      \* texts of a batch, by version of the file
    Requests,           \* what a submission may ask with, evidence included
    MaxChanges,         \* bound: replacements of the source or the project
    MaxStages           \* bound: payloads ever materialized

Places == {"home", "site"}

\* The files of the project, and what a run is made of.
Modules == {"detector", "glotlid"}
Inputs == Modules \cup {"source"}

\* What a copy may be, the files read so far, and a committed part.
Copies == Versions \cup {Nothing}
Readings == UNION {[read -> Versions] : read \in SUBSET Modules}
Parts == [source : Copies, code : [Modules -> Versions], raced : SUBSET Inputs]

ASSUME FrozenInputAssumption ==
    0 \in Versions /\ Batches \in Nat /\ MaxChanges \in Nat /\ MaxStages \in Nat

ASSUME TextsAssumption ==
    \A version \in Versions, batch \in 1..Batches : \A t \in TextsOf(version, batch) : IsText(t)

ASSUME RequestsAssumption ==
    \A r \in Requests :
        /\ r.moment \in Nat /\ r.walltime \in Nat /\ r.allowDaytime \in BOOLEAN
        /\ {r.captured, r.jobs} \subseteq Nat \cup {Absent}
        /\ r.quota = Absent \/ \A l \in r.quota : l.home =>
            \A u \in {l.blocks, l.files} : {u.used, u.soft, u.hard} \subseteq Nat

VARIABLES
    source, project,\* source_root and project_root as they are now
    snapshot,       \* snapshot.json, or Nothing
    draft,          \* memory of language prepare: what it has read, or Nothing
    parts,          \* committed parts of the run directory, by place
    payloads,       \* sealed payloads, by the state to resume from
    stage,          \* memory of grid stage, or Nothing
    remote,         \* project/ and source/ at the site, or Nothing
    granted,        \* the request a waiting job was allowed on, or Nothing
    worker,         \* memory of the worker of a place, or Nothing
    changes,        \* bound
    raced           \* history: inputs of the worker at home that were replaced
                    \* between their verification and their use

inputs == <<source, project, changes>>
vars == <<inputs, snapshot, draft, parts, payloads, stage, remote, granted, worker, raced>>

NoFiles == [project |-> Nothing, source |-> Nothing]

Init ==
    /\ source = 0
    /\ project = [m \in Modules |-> 0]
    /\ snapshot = Nothing
    /\ draft = Nothing
    /\ parts = [p \in Places |-> <<>>]
    /\ payloads = <<>>
    /\ stage = Nothing
    /\ remote = NoFiles
    /\ granted = Nothing
    /\ worker = [p \in Places |-> Nothing]
    /\ changes = 0
    /\ raced = {}

\* What a worker of a place finds in its source root and project root.
SourceAt(place) == IF place = "home" THEN source ELSE remote.source
ProjectAt(place) == IF place = "home" THEN project ELSE remote.project

\* One more file of the project, after those that were read.
ReadAlso(readings, m) ==
    [k \in DOMAIN readings \cup {m} |-> IF k = m THEN project[m] ELSE readings[k]]

\* The file as frozen: its metadata and its hash, read one after the other.
SourceFileSnapshot(rows, bytes) == [rows |-> rows, bytes |-> bytes]

\* candidate_manifest: the code's fingerprint and the file's identity.
SnapshotManifest(code, file) == [code |-> code, file |-> file]

\* verify_source_file: metadata and hash as frozen.
VerifiedSource(file) == SourceFileSnapshot(file, file) = snapshot.file

\* Fingerprints and copies go through the files in the order of their paths.
Unread(read) == IF "detector" \in read THEN Modules \ read ELSE {"detector"}

-----------------------------------------------------------------------------
(* language prepare *)

\* fingerprint_project_source, file after file.
FingerprintProject ==
    /\ snapshot = Nothing
    /\ LET read == IF draft = Nothing THEN <<>> ELSE draft.code
       IN  \E m \in Unread(DOMAIN read) :
            draft' = [code |-> ReadAlso(read, m), rows |-> Nothing]
    /\ UNCHANGED <<inputs, snapshot, parts, payloads, stage, remote, granted, worker, raced>>

\* Then the metadata of the source is read.
InspectSource ==
    /\ draft # Nothing
    /\ DOMAIN draft.code = Modules
    /\ draft.rows = Nothing
    /\ draft' = [code |-> draft.code, rows |-> source]
    /\ UNCHANGED <<inputs, snapshot, parts, payloads, stage, remote, granted, worker, raced>>

\* inspect_source_file reads the file again for its hash; the snapshot is
\* written once and for all.
PrepareSnapshot ==
    /\ draft # Nothing
    /\ draft.rows # Nothing
    /\ snapshot' = SnapshotManifest(draft.code, SourceFileSnapshot(draft.rows, source))
    /\ draft' = Nothing
    /\ UNCHANGED <<inputs, parts, payloads, stage, remote, granted, worker, raced>>

-----------------------------------------------------------------------------
(* grid stage *)

\* _verify_stage_inputs, under the submission lock: a first look, at one
\* instant here, of which nothing is kept; the copies are verified again.
VerifyStageInputs ==
    /\ snapshot # Nothing
    /\ stage = Nothing
    /\ project = snapshot.code
    /\ VerifiedSource(source)
    /\ stage' = [step |-> "verified"]
    /\ UNCHANGED <<inputs, snapshot, draft, parts, payloads, remote, granted, worker, raced>>

\* verify_prepared_bundle: files, code, source and resume state as bound.
VerifiedPayload(resume) ==
    /\ payloads[resume].project = snapshot.code
    /\ VerifiedSource(payloads[resume].source)
    /\ payloads[resume].resume = resume

\* resume_state_fingerprint, then _select_payload_root: the payload sealed for
\* this very state is used again if it still verifies.
SelectPayload ==
    /\ stage # Nothing
    /\ stage.step = "verified"
    /\ LET resume == parts["home"]
       IN  \/ /\ resume \in DOMAIN payloads
              /\ VerifiedPayload(resume)
              /\ stage' = [step |-> "sealed", resume |-> resume]
           \/ /\ resume \in DOMAIN payloads
              /\ ~VerifiedPayload(resume)
              /\ stage' = Nothing
           \/ /\ resume \notin DOMAIN payloads
              /\ Cardinality(DOMAIN payloads) < MaxStages
              /\ stage' = [step |-> "copying", resume |-> resume, project |-> <<>>]
    /\ UNCHANGED <<inputs, snapshot, draft, parts, payloads, remote, granted, worker, raced>>

\* _copy_payload_inputs, file after file.
CopyProject ==
    /\ stage # Nothing
    /\ stage.step = "copying"
    /\ \E m \in Unread(DOMAIN stage.project) :
            stage' = [step |-> "copying", resume |-> stage.resume,
                      project |-> ReadAlso(stage.project, m)]
    /\ UNCHANGED <<inputs, snapshot, draft, parts, payloads, remote, granted, worker, raced>>

CopySource ==
    /\ stage # Nothing
    /\ stage.step = "copying"
    /\ DOMAIN stage.project = Modules
    /\ stage' = [step |-> "source", resume |-> stage.resume, project |-> stage.project,
                  source |-> source]
    /\ UNCHANGED <<inputs, snapshot, draft, parts, payloads, remote, granted, worker, raced>>

\* _copy_resume_state, the stage manifest and the rename.  Only the
\* submission lock is held: a local worker may have committed since.
SealPayload ==
    /\ stage # Nothing
    /\ stage.step = "source"
    /\ payloads' = [r \in DOMAIN payloads \cup {stage.resume} |->
            IF r \in DOMAIN payloads THEN payloads[r]
            ELSE [project |-> stage.project, source |-> stage.source, resume |-> parts["home"]]]
    /\ stage' = [step |-> "sealed", resume |-> stage.resume]
    /\ UNCHANGED <<inputs, snapshot, draft, parts, remote, granted, worker, raced>>

\* Mutant: what was sealed is sent.
VerifyTransfer_Unverified ==
    /\ stage # Nothing
    /\ stage.step = "sealed"
    /\ stage' = [step |-> "sending", resume |-> stage.resume]
    /\ UNCHANGED <<inputs, snapshot, draft, parts, payloads, remote, granted, worker, raced>>

\* build_bundle_transfer_argv verifies the payload before rsync may run.
VerifyTransfer ==
    /\ stage # Nothing
    /\ stage.step = "sealed"
    /\ stage' = IF VerifiedPayload(stage.resume)
                THEN [step |-> "sending", resume |-> stage.resume] ELSE Nothing
    /\ UNCHANGED <<inputs, snapshot, draft, parts, payloads, remote, granted, worker, raced>>

\* rsync, item by item; it removes nothing and may be cut off (StageEnds).
Sends ==
    /\ stage # Nothing
    /\ stage.step = "sending"
    /\ LET payload == payloads[stage.resume]
       IN  \/ remote' = [remote EXCEPT !.project = payload.project] /\ UNCHANGED parts
           \/ remote' = [remote EXCEPT !.source = payload.source] /\ UNCHANGED parts
           \/ parts' = [parts EXCEPT !["site"] = payload.resume] /\ UNCHANGED remote
    /\ UNCHANGED <<inputs, snapshot, draft, payloads, stage, granted, worker, raced>>

\* The command ends, refuses or is killed; an unsealed copy is a temporary
\* directory.
StageEnds ==
    /\ stage # Nothing
    /\ stage' = Nothing
    /\ UNCHANGED <<inputs, snapshot, draft, parts, payloads, remote, granted, worker, raced>>

-----------------------------------------------------------------------------
(* grid submit *)

Allowed == {r \in Requests : EvaluatePolicy(r) = "allowed"}

Submit ==
    /\ Nothing \notin {remote.project, remote.source}
    /\ granted = Nothing
    /\ worker["site"] = Nothing
    /\ granted' \in Allowed
    /\ UNCHANGED <<inputs, snapshot, draft, parts, payloads, stage, remote, worker, raced>>

-----------------------------------------------------------------------------
(* language run *)

\* The command imports its modules.  At the site it is the job's.
Starts(place) ==
    /\ worker[place] = Nothing
    /\ place = "site" => granted # Nothing
    /\ granted' = IF place = "site" THEN Nothing ELSE granted
    /\ worker' = [worker EXCEPT ![place] =
            [step |-> "imported", checked |-> {},
             code |-> [m \in {"detector"} |-> ProjectAt(place)[m]]]]
    /\ UNCHANGED <<inputs, snapshot, draft, parts, payloads, stage, remote, raced>>

\* handle_run reads the snapshot and takes the worker lock;
\* verify_project_identity goes through the files as they are on disk, whatever
\* was imported.  One that is not the frozen one ends the command (Stops).
VerifyProjectIdentity(place) ==
    /\ worker[place] # Nothing
    /\ worker[place].step = "imported"
    /\ snapshot # Nothing
    /\ \E m \in Unread(worker[place].checked) :
            /\ ProjectAt(place)[m] = snapshot.code[m]
            /\ worker' = [worker EXCEPT ![place] =
                    [step |-> "imported", checked |-> @.checked \cup {m}, code |-> @.code]]
    /\ UNCHANGED <<inputs, snapshot, draft, parts, payloads, stage, remote, granted, raced>>

\* _build_detector_for_snapshot imports glotlid.py.
BuildDetector(place) ==
    /\ worker[place] # Nothing
    /\ worker[place].step = "imported"
    /\ worker[place].checked = Modules
    /\ worker' = [worker EXCEPT ![place] =
            [step |-> "identified",
             code |-> [m \in Modules |-> IF m = "glotlid" THEN ProjectAt(place)[m] ELSE @.code[m]]]]
    /\ UNCHANGED <<inputs, snapshot, draft, parts, payloads, stage, remote, granted, raced>>

\* Mutant: the source is looked up, not verified.
VerifySource_Listed(place) ==
    /\ worker[place] # Nothing
    /\ worker[place].step = "identified"
    /\ SourceAt(place) # Nothing
    /\ worker' = [worker EXCEPT ![place] = [step |-> "verified", code |-> @.code,
                                             done |-> parts[place]]]
    /\ UNCHANGED <<inputs, snapshot, draft, parts, payloads, stage, remote, granted, raced>>

\* process_shard: the source must be the frozen one; the parts committed so
\* far are kept in memory.
VerifySource(place) ==
    /\ worker[place] # Nothing
    /\ worker[place].step = "identified"
    /\ VerifiedSource(SourceAt(place))
    /\ worker' = [worker EXCEPT ![place] = [step |-> "verified", code |-> @.code,
                                             done |-> parts[place]]]
    /\ UNCHANGED <<inputs, snapshot, draft, parts, payloads, stage, remote, granted, raced>>

\* _run_batches opens the path again.
OpenSource(place) ==
    /\ worker[place] # Nothing
    /\ worker[place].step = "verified"
    /\ worker' = [worker EXCEPT ![place] = [step |-> "reading", code |-> @.code,
                                             done |-> @.done, file |-> SourceAt(place)]]
    /\ UNCHANGED <<inputs, snapshot, draft, parts, payloads, stage, remote, granted, raced>>

\* _batch_annotations, of every batch a worker may read.
Annotations ==
    [version \in Versions |-> [batch \in 1..Batches |->
        {Annotation(t) : t \in TextsOf(version, batch)}]]

AnnotateBatch(place) ==
    /\ worker[place] # Nothing
    /\ worker[place].step = "reading"
    /\ Len(worker[place].done) < Batches
    /\ worker' = [worker EXCEPT ![place] =
            [step |-> "annotated", code |-> @.code, done |-> @.done, file |-> @.file,
             rows |-> Annotations[@.file][Len(@.done) + 1]]]
    /\ UNCHANGED <<inputs, snapshot, draft, parts, payloads, stage, remote, granted, raced>>

\* Nothing is replaced at the site but by a verified payload.
RacedAt(place) == IF place = "home" THEN raced ELSE {}

Part(place) ==
    [source |-> worker[place].file, code |-> worker[place].code, raced |-> RacedAt(place)]

\* _commit_batch: only rows that validate become a part.
CommitBatch(place) ==
    /\ worker[place] # Nothing
    /\ worker[place].step = "annotated"
    /\ \A row \in worker[place].rows : RowIsValid(row)
    /\ parts' = [parts EXCEPT ![place] = Append(worker[place].done, Part(place))]
    /\ worker' = [worker EXCEPT ![place] = [step |-> "reading", code |-> @.code,
                                             done |-> Append(@.done, Part(place)),
                                             file |-> @.file]]
    /\ UNCHANGED <<inputs, snapshot, draft, payloads, stage, remote, granted, raced>>

\* The shard is done, the budget is spent, a check refuses, or a kill.
Stops(place) ==
    /\ worker[place] # Nothing
    /\ worker' = [worker EXCEPT ![place] = Nothing]
    /\ raced' = IF place = "home" THEN {} ELSE raced
    /\ UNCHANGED <<inputs, snapshot, draft, parts, payloads, stage, remote, granted>>

-----------------------------------------------------------------------------
(* grid collect, and what happens outside *)

\* import_retrieved_results, under both locks.
Collect ==
    /\ stage = Nothing
    /\ worker["home"] # Nothing =>
            worker["home"].step = "imported" /\ worker["home"].checked = {}
    /\ IsPrefix(parts["home"], parts["site"])
    /\ parts' = [parts EXCEPT !["home"] = parts["site"]]
    /\ UNCHANGED <<inputs, snapshot, draft, payloads, stage, remote, granted, worker, raced>>

\* Where the worker at home is between the verification of an input and its
\* use, in either order.
InGap(input) ==
    /\ worker["home"] # Nothing
    /\ \/ input = "source" /\ worker["home"].step = "verified"
       \/ /\ input \in Modules
          /\ worker["home"].step = "imported"
          /\ input = "glotlid" <=> input \in worker["home"].checked

\* A build or a download replaces the artifact.
ReplaceSource ==
    /\ changes < MaxChanges
    /\ source' \in Versions \ {source}
    /\ changes' = changes + 1
    /\ raced' = IF InGap("source") THEN raced \cup {"source"} ELSE raced
    /\ UNCHANGED <<project, snapshot, draft, parts, payloads, stage, remote, granted, worker>>

\* An update replaces file after file.
UpdateProject ==
    /\ changes < MaxChanges
    /\ changes' = changes + 1
    /\ \E m \in Modules, version \in Versions :
            /\ project[m] # version
            /\ project' = [project EXCEPT ![m] = version]
            /\ raced' = IF InGap(m) THEN raced \cup {m} ELSE raced
    /\ UNCHANGED <<source, snapshot, draft, parts, payloads, stage, remote, granted, worker>>

Staging ==
    \/ VerifyStageInputs \/ SelectPayload \/ CopyProject \/ CopySource
    \/ SealPayload \/ VerifyTransfer \/ Sends \/ StageEnds

Run(place) ==
    \/ Starts(place) \/ VerifyProjectIdentity(place)
    \/ BuildDetector(place) \/ VerifySource(place) \/ OpenSource(place)
    \/ AnnotateBatch(place) \/ CommitBatch(place) \/ Stops(place)

Next ==
    \/ FingerprintProject
    \/ InspectSource
    \/ PrepareSnapshot
    \/ Staging
    \/ Submit
    \/ \E place \in Places : Run(place)
    \/ Collect
    \/ ReplaceSource
    \/ UpdateProject

Spec == Init /\ [][Next]_vars

-----------------------------------------------------------------------------
(* Properties *)

\* Type invariant of the files and of what was read from them.
TypeOK ==
    /\ source \in Versions /\ project \in [Modules -> Versions]
    /\ snapshot = Nothing
        \/ snapshot \in [code : [Modules -> Versions], file : [rows : Versions, bytes : Versions]]
    /\ draft = Nothing \/ draft \in [code : Readings, rows : Copies]
    /\ parts \in [Places -> Seq(Parts)]
    /\ \A r \in DOMAIN payloads : payloads[r].resume \in Seq(Parts)
    /\ remote \in [project : [Modules -> Versions] \cup {Nothing}, source : Copies]
    /\ granted \in Requests \cup {Nothing}
    /\ DOMAIN worker = Places
    /\ changes \in 0..MaxChanges
    /\ raced \subseteq Inputs

\* What was made of the frozen input, but for what was replaced in its gap.
IsFrozen(part) ==
    /\ \A m \in Modules \ part.raced : part.code[m] = snapshot.code[m]
    /\ "source" \in part.raced \/ VerifiedSource(part.source)

\* Whatever was replaced, staged, collected or run in between, every part of a
\* run was made by the frozen code from the frozen source: at the site always,
\* and at home but for an input that was replaced in the one gap its check
\* leaves.  A module imported when the command starts is checked afterwards, on
\* disk; glotlid.py is imported after its check; and the source is opened after
\* its own (verify_project_identity, build_language_detector, _run_batches).
AnnotatesFrozenInput ==
    \A place \in Places : \A i \in DOMAIN parts[place] : IsFrozen(parts[place][i])

\* What is on its way to the site, or has arrived there, is the frozen code and
\* source, and the state to resume from is one the run directory had when the
\* payload was named after it (build_bundle_transfer_argv).
StagedIsFrozen ==
    /\ stage # Nothing /\ stage.step = "sending" =>
            payloads[stage.resume].resume = stage.resume
    /\ remote.project # Nothing => remote.project = snapshot.code
    /\ remote.source # Nothing => VerifiedSource(remote.source)

\* A job is only submitted on one core for a window that lies on one side of
\* the day boundaries at each of its instants, at night unless asked
\* otherwise, and on evidence that is no older than five minutes, that names no
\* active job, and shows every home quota below its limits (evaluate_policy).
GrantedWithinPolicy ==
    granted # Nothing =>
        LET window == granted.moment..(granted.moment + granted.walltime - 1)
            Below(usage) == \A limit \in {usage.soft, usage.hard} \ {0} : usage.used < limit
        IN  /\ window # {} /\ granted.walltime <= MaxWalltime
            /\ \/ \A t \in window : ~IsWeekdayDaytime(t)
               \/ granted.allowDaytime /\ \A t \in window : IsWeekdayDaytime(t)
            /\ granted.moment - MaxEvidenceAge <= granted.captured
            /\ granted.captured <= granted.moment
            /\ granted.jobs = 0
            /\ \E l \in granted.quota : l.home
            /\ \A l \in granted.quota : l.home => Below(l.blocks) /\ Below(l.files)

\* The codes a model settles on: ahead of every other by more than a tie.
Settled(scores) ==
    {c \in DOMAIN scores : \A d \in DOMAIN scores \ {c} : scores[c] - scores[d] > TieEpsilon}

\* A worker is never stopped by the validation of its own rows, and a row
\* names a language exactly when Lingua settles on it for a long enough text
\* that is not mixed, or else GlotLID does; sentences only where the splitter
\* knows that language (_validate_annotation_row, FallbackLanguageDetector,
\* GatedSentenceSplitter).
RowsAreJustified ==
    \A place \in Places :
        worker[place] # Nothing /\ worker[place].step = "annotated" =>
        \A row \in worker[place].rows :
            LET text == row.text
                long == ~text.blank /\ text.letters >= MinAlphabeticChars
                glotlid == [c \in {l.code : l \in text.glotlid} |->
                    Min({One} \cup {Max({l.score : l \in {k \in text.glotlid : k.code = c}})})]
                lingua == IF HasMixedEvidence(text, text.mixed) THEN {} ELSE Settled(text.lingua)
                codes == IF ~long THEN {} ELSE IF lingua # {} THEN lingua ELSE Settled(glotlid)
            IN  /\ RowIsValid(row)
                /\ {row.language.code} \ {Nothing} = codes
                /\ row.split.sentences =
                        IF codes # {} /\ codes \subseteq SplitterLanguages THEN text.sentences ELSE 0
=============================================================================
