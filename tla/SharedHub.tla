------------------------------ MODULE SharedHub ------------------------------
(***************************************************************************)
(* Three writers of one Hub dataset without a common lock: run-and-publish *)
(* (here on another machine), release-stats, which recomputes the          *)
(* statistics in the published card, and language publish, which adds the  *)
(* language export and its section of the card.  The last two read one     *)
(* revision and commit on top of exactly that revision.                    *)
(*                                                                         *)
(* Abstractions.  The dataset is the sequence of its commits, a revision   *)
(* is a position in it.  data/ with manifests/ is one version number; the  *)
(* statistics of a card, its assets included, are the version they         *)
(* describe; the language section, its configuration included, is the      *)
(* export it lists.  All exports list the same file names.                 *)
(***************************************************************************)
EXTENDS Naturals, Sequences

CONSTANTS
    Versions,       \* versions of data/ and manifests/
    Exports,        \* language exports, one upload plan each
    NoExport,       \* no language files, no section, no record
    MaxCommits,     \* bound: commits to the dataset
    MaxExports,     \* bound: how often the language export is written anew
    MaxFaults       \* bound: kills and failed commits

Writers == {"run", "release", "language"}
Card == [stats : Versions, section : Exports \cup {NoExport}]
Snapshot == [data : Versions, card : Card,
             language : Exports \cup {NoExport}, by : Writers]
Statuses == {"drifted", "ambiguous", "verified", "unverified"}
Outcome == [status : Statuses, plan : Exports]

ASSUME VersionsAssumption == Versions \subseteq Nat
ASSUME NoExportAssumption == NoExport \notin Exports /\ NoExport \notin Outcome
ASSUME BoundsAssumption ==
    MaxCommits \in Nat \ {0} /\ MaxExports \in Nat /\ MaxFaults \in Nat

VARIABLES
    hub,            \* the commits of the dataset, the last one is its head
    localData,      \* release: data/ and manifests/ of its data root
    releasePc,      \* release: where it is
    parent,         \* release: the revision its inventory check pinned
    inventory,      \* release: data/ and manifests/ as that check read them
    readme,         \* release: README.md and stats.json of its data root
    revision,       \* release: the revision it reports
    export,         \* language: the export on disk
    record,         \* language: language-publication.json
    baseline,       \* language: --baseline-revision, seen by the operator
    languagePc,     \* language: where it is
    current,        \* language: the head read at its start
    confirmed,      \* history: exports that were once verified on the Hub
    exports, faults

release == <<localData, releasePc, parent, inventory, readme, revision>>
language == <<export, record, baseline, languagePc, current, confirmed, exports>>
vars == <<hub, release, language, faults>>

ReleasePoints == {"idle", "synced", "computed", "match", "commit", "verify",
                  "done"}
LanguagePoints == {"idle", "commit", "verify"}

Latest == hub[Len(hub)]

\* create_dataset_commit: one commit, files not named stay as they are.
CanCommit == Len(hub) < MaxCommits
Commit(snapshot) == hub' = Append(hub, snapshot)

\* Mutant: commits without parent_commit.
Unmoved_Unguarded(rev) == TRUE

\* The parent_commit guard of the Hub.
Unmoved(rev) == rev = Len(hub)

-----------------------------------------------------------------------------
Init ==
    /\ \E d \in Versions :
        hub = <<[data |-> d, card |-> [stats |-> d, section |-> NoExport],
                 language |-> NoExport, by |-> "run"]>>
    /\ localData \in Versions
    /\ releasePc = "idle"
    /\ parent = 1
    /\ inventory = localData
    /\ readme = [stats |-> localData, section |-> NoExport]
    /\ revision = 1
    /\ export \in Exports
    /\ record = NoExport
    /\ baseline = 1
    /\ languagePc = "idle"
    /\ current = 1
    /\ confirmed = {}
    /\ exports = 0
    /\ faults = 0

-----------------------------------------------------------------------------
(* run-and-publish elsewhere: data first or card first, from the template *)

RunUploadsData ==
    /\ CanCommit
    /\ \E d \in Versions : Commit([Latest EXCEPT !.data = d, !.by = "run"])
    /\ UNCHANGED <<release, language, faults>>

RunUploadsCard ==
    /\ CanCommit
    /\ \E d \in Versions :
        Commit([Latest EXCEPT !.card = [stats |-> d, section |-> NoExport],
                              !.by = "run"])
    /\ UNCHANGED <<release, language, faults>>

\* build or migrate-text rewrites data/ and manifests/, to something newer.
LocalDataChanges ==
    /\ \E d \in Versions : d > localData /\ localData' = d
    /\ UNCHANGED <<hub, releasePc, parent, inventory, readme, revision,
                   language, faults>>

-----------------------------------------------------------------------------
(* release-stats --apply *)

\* Mutants: the inventory is not compared; the plan is never compared.
InventoryMatches_Unchecked(rev, items) == TRUE
MetadataMatches_Never(rev) == FALSE

\* verify_inventory at one revision.
InventoryMatches(rev, items) == hub[rev].data = items

\* Every file of the metadata plan is on the Hub at that revision.
MetadataMatches(rev) == hub[rev].card = readme

ReleaseStops ==
    /\ releasePc' = "idle"
    /\ UNCHANGED <<hub, localData, parent, inventory, readme, revision, language>>

\* _sync_remote_card: the card of the pinned revision replaces the local one.
RemoteCard == Latest.card

\* _prepare_remote_release: pin the head if its data is the local data.
ReleasePrepares ==
    /\ releasePc = "idle"
    /\ InventoryMatches(Len(hub), localData)
    /\ parent' = Len(hub)
    /\ inventory' = localData
    /\ readme' = RemoteCard
    /\ releasePc' = "synced"
    /\ UNCHANGED <<hub, localData, revision, language, faults>>

\* generate_dataset_docs, preserve_existing: only the statistics are new.
ReleaseComputes ==
    /\ releasePc = "synced"
    /\ readme' = [readme EXCEPT !.stats = localData]
    /\ releasePc' = "computed"
    /\ UNCHANGED <<hub, localData, parent, inventory, revision, language, faults>>

\* "local data/manifest inventory changed during stats generation".
ReleaseChecks ==
    /\ releasePc = "computed"
    /\ inventory = localData
    /\ releasePc' = "match"
    /\ UNCHANGED <<hub, localData, parent, inventory, readme, revision,
                   language, faults>>

ReleaseRefusesChange ==
    /\ releasePc = "computed"
    /\ inventory # localData
    /\ ReleaseStops
    /\ UNCHANGED faults

\* _matching_metadata_revision: nothing to commit, if the data is there too.
ReleaseMatches ==
    /\ releasePc = "match"
    /\ MetadataMatches(Len(hub))
    /\ InventoryMatches(Len(hub), inventory)
    /\ revision' = Len(hub)
    /\ releasePc' = "done"
    /\ UNCHANGED <<hub, localData, parent, inventory, readme, language, faults>>

ReleaseDiffers ==
    /\ releasePc = "match"
    /\ ~MetadataMatches(Len(hub))
    /\ releasePc' = "commit"
    /\ UNCHANGED <<hub, localData, parent, inventory, readme, revision,
                   language, faults>>

\* _run_parented_metadata_commit.
ReleaseCommits ==
    /\ releasePc = "commit"
    /\ Unmoved(parent)
    /\ CanCommit
    /\ Commit([Latest EXCEPT !.card = readme, !.by = "release"])
    /\ releasePc' = "verify"
    /\ UNCHANGED <<localData, parent, inventory, readme, revision, language, faults>>

\* The commit lands, the answer does not.
ReleaseCommitFails ==
    /\ releasePc = "commit"
    /\ Unmoved(parent)
    /\ CanCommit
    /\ faults < MaxFaults
    /\ Commit([Latest EXCEPT !.card = readme, !.by = "release"])
    /\ releasePc' = "idle"
    /\ faults' = faults + 1
    /\ UNCHANGED <<localData, parent, inventory, readme, revision, language>>

ReleaseRefusesParent ==
    /\ releasePc = "commit"
    /\ ~Unmoved(parent)
    /\ ReleaseStops
    /\ UNCHANGED faults

\* _verify_metadata_revision at the head, whoever committed it.
ReleaseVerifies ==
    /\ releasePc = "verify"
    /\ MetadataMatches(Len(hub))
    /\ InventoryMatches(Len(hub), inventory)
    /\ revision' = Len(hub)
    /\ releasePc' = "done"
    /\ UNCHANGED <<hub, localData, parent, inventory, readme, language, faults>>

\* A mismatch found by either comparison.
ReleaseRefusesRemote ==
    /\ \/ /\ releasePc = "match"
          /\ MetadataMatches(Len(hub))
          /\ ~InventoryMatches(Len(hub), inventory)
       \/ /\ releasePc = "verify"
          /\ ~(MetadataMatches(Len(hub)) /\ InventoryMatches(Len(hub), inventory))
    /\ ReleaseStops
    /\ UNCHANGED faults

ReleaseReports ==
    /\ releasePc = "done"
    /\ ReleaseStops
    /\ UNCHANGED faults

ReleaseKilled ==
    /\ releasePc # "idle"
    /\ faults < MaxFaults
    /\ faults' = faults + 1
    /\ ReleaseStops

-----------------------------------------------------------------------------
(* language publish --apply *)

ExportAgain ==
    /\ languagePc = "idle"
    /\ exports < MaxExports
    /\ exports' = exports + 1
    /\ export' \in Exports \ {export}
    /\ UNCHANGED <<hub, release, record, baseline, languagePc, current,
                   confirmed, faults>>

\* The operator plans: language publish without --apply prints the head.
Plan ==
    /\ baseline' = Len(hub)
    /\ UNCHANGED <<hub, release, export, record, languagePc, current, confirmed,
                   exports, faults>>

Unresolved == record # NoExport /\ record.status \in {"ambiguous", "unverified"}

\* Mutant: an upload of unknown outcome counts as no upload.
Resumed_OnlyVerified ==
    record # NoExport /\ record.plan = export /\ record.status = "verified"

\* _resumed_outcome: a record of exactly this plan.
Resumed ==
    /\ record # NoExport
    /\ record.plan = export
    /\ record.status # "drifted"

\* "an unresolved publication belongs to another plan" refuses the rest.
MayPublish == languagePc = "idle" /\ ~(Unresolved /\ record.plan # export)

PublishResumes ==
    /\ MayPublish
    /\ Resumed
    /\ languagePc' = "verify"
    /\ UNCHANGED <<hub, release, export, record, baseline, current, confirmed,
                   exports, faults>>

\* Mutant: no drift check.
Drifted_Never == FALSE

Drifted == Len(hub) # baseline

PublishDrifted ==
    /\ MayPublish
    /\ ~Resumed
    /\ Drifted
    /\ record' = [status |-> "drifted", plan |-> export]
    /\ UNCHANGED <<hub, release, export, baseline, languagePc, current,
                   confirmed, exports, faults>>

\* Mutants: nothing is written before the upload; a plan is written.
Intent_Missing == record
Intent_Planned == [status |-> "planned", plan |-> export]

\* _ambiguous: the intent is written before anything is sent.
Intent == [status |-> "ambiguous", plan |-> export]

PublishBegins ==
    /\ MayPublish
    /\ ~Resumed
    /\ ~Drifted
    /\ record' = Intent
    /\ current' = Len(hub)
    /\ languagePc' = "commit"
    /\ UNCHANGED <<hub, release, export, baseline, confirmed, exports, faults>>

\* HuggingFaceLanguageHub.upload: files and card section in one commit, on
\* the card of the revision read at the start.
WithExport(card) ==
    [Latest EXCEPT !.language = export,
                   !.card = [card EXCEPT !.section = export],
                   !.by = "language"]

LanguageCommits ==
    /\ languagePc = "commit"
    /\ Unmoved(current)
    /\ CanCommit
    /\ Commit(WithExport(hub[current].card))
    /\ languagePc' = "verify"
    /\ UNCHANGED <<release, export, record, baseline, current, confirmed,
                   exports, faults>>

\* _upload returns an error: the commit landed, or it did not.
LanguageCommitFails ==
    /\ languagePc = "commit"
    /\ \/ /\ Unmoved(current)
          /\ CanCommit
          /\ faults < MaxFaults
          /\ Commit(WithExport(hub[current].card))
          /\ faults' = faults + 1
       \/ ~Unmoved(current) /\ UNCHANGED <<hub, faults>>
       \/ faults < MaxFaults /\ faults' = faults + 1 /\ UNCHANGED hub
    /\ record' = [status |-> "ambiguous", plan |-> export]
    /\ languagePc' = "idle"
    /\ UNCHANGED <<release, export, baseline, current, confirmed, exports>>

\* verify_language_publication: every planned file is at the head.
ExportOnHub == Latest.language = export

\* dataset_configs: the Viewer lists the configuration once it has indexed the
\* head, whatever the card says, and nothing when the head has moved on.
ViewerLists == BOOLEAN

\* _verified_outcome
LanguageVerifies ==
    /\ languagePc = "verify"
    /\ \E listed \in ViewerLists :
        \/ /\ ExportOnHub /\ listed
           /\ record' = [status |-> "verified", plan |-> export]
           /\ confirmed' = confirmed \cup {export}
        \/ /\ ~(ExportOnHub /\ listed)
           /\ record' = [status |-> "unverified", plan |-> export]
           /\ UNCHANGED confirmed
    /\ languagePc' = "idle"
    /\ UNCHANGED <<hub, release, export, baseline, current, exports, faults>>

LanguageKilled ==
    /\ languagePc # "idle"
    /\ faults < MaxFaults
    /\ faults' = faults + 1
    /\ languagePc' = "idle"
    /\ UNCHANGED <<hub, release, export, record, baseline, current, confirmed,
                   exports>>

-----------------------------------------------------------------------------
Next ==
    \/ RunUploadsData
    \/ RunUploadsCard
    \/ LocalDataChanges
    \/ ReleasePrepares
    \/ ReleaseComputes
    \/ ReleaseChecks
    \/ ReleaseRefusesChange
    \/ ReleaseMatches
    \/ ReleaseDiffers
    \/ ReleaseCommits
    \/ ReleaseCommitFails
    \/ ReleaseRefusesParent
    \/ ReleaseVerifies
    \/ ReleaseRefusesRemote
    \/ ReleaseReports
    \/ ReleaseKilled
    \/ ExportAgain
    \/ Plan
    \/ PublishResumes
    \/ PublishDrifted
    \/ PublishBegins
    \/ LanguageCommits
    \/ LanguageCommitFails
    \/ LanguageVerifies
    \/ LanguageKilled

Spec == Init /\ [][Next]_vars
-----------------------------------------------------------------------------
(* Properties *)

\* Type invariant.
TypeOK ==
    /\ hub \in Seq(Snapshot)
    /\ Len(hub) \in 1..MaxCommits
    /\ localData \in Versions
    /\ releasePc \in ReleasePoints
    /\ parent \in 1..Len(hub)
    /\ inventory \in Versions
    /\ readme \in Card
    /\ revision \in 1..Len(hub)
    /\ export \in Exports
    /\ record \in Outcome \cup {NoExport}
    /\ baseline \in 1..Len(hub)
    /\ languagePc \in LanguagePoints
    /\ current \in 1..Len(hub)
    /\ confirmed \subseteq Exports
    /\ exports \in 0..MaxExports
    /\ faults \in 0..MaxFaults

\* The statistics of a revision that a release reports describe the data of
\* that same revision, whatever others committed meanwhile (_publish,
\* _verify_metadata_revision; docs/cli.md:125).
ReleasedStatsDescribeData ==
    releasePc = "done" => hub[revision].card.stats = hub[revision].data

\* A release keeps the language section and a language publication keeps the
\* statistics that the commit before them had, also when both work at the
\* same time (_run_parented_metadata_commit, HuggingFaceLanguageHub.upload).
NoLostUpdate ==
    \A i \in 2..Len(hub) :
        /\ hub[i].by = "release" =>
            hub[i].card.section = hub[i - 1].card.section
        /\ hub[i].by = "language" =>
            hub[i].card.stats = hub[i - 1].card.stats

\* A release never commits the card that is already there: repeated on
\* unchanged artifacts it commits nothing (docs/cli.md:142).
ReleaseCommitsNews ==
    \A i \in 2..Len(hub) : hub[i].by = "release" => hub[i].card # hub[i - 1].card

\* Language files on the Hub that were never verified are known to the state
\* file as unresolved, whenever the publisher was killed
\* (_apply_publication; docs/language-detection.md:650).
UnverifiedUploadIsKnown ==
    Latest.language \notin confirmed \cup {NoExport} =>
        Unresolved /\ record.plan = Latest.language

\* Files that may have landed in an earlier attempt are not sent again, and
\* nothing is sent on top of a revision the operator has not planned on
\* (_resumed_outcome, _drifted; docs/language-detection.md:648).
SentOnceOnBaseline ==
    [][Len(hub') > Len(hub) /\ hub'[Len(hub')].by = "language" =>
        /\ Len(hub) = baseline
        /\ Latest.language \notin {export} \ confirmed]_vars
=============================================================================
