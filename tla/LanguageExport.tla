---------------------------- MODULE LanguageExport ----------------------------
(***************************************************************************)
(* `language export` writes the annotations of a complete run as one file  *)
(* per shard, a statistics file and a manifest that seals them;            *)
(* `language publish` plans, checks and commits what lies there.  Both may *)
(* be killed anywhere, several exports of different runs share one export  *)
(* root, and planning takes no lock.                                       *)
(*                                                                         *)
(* Abstractions.  A data file is the run and the number of batches it was  *)
(* written from, and its hash is the file.  Statistics are what was seen   *)
(* while the files were written.  Every shard has a file name of its own.  *)
(* What else may happen to a commit is the subject of SharedHub.           *)
(***************************************************************************)
EXTENDS Naturals, Sequences, Functions

CONSTANTS
    Sources,    \* per run: the shards of its snapshot, in order
    MaxKills,   \* bound: exports and publications killed
    Nothing     \* no file, no plan, nobody

Runs == DOMAIN Sources
ShardsOf(r) == {Sources[r][i] : i \in DOMAIN Sources[r]}
Names == UNION {ShardsOf(r) : r \in Runs}

VARIABLES
    listed,     \* run directories: what the checkpoint of a shard lists
    data,       \* language-v1/data: per shard its file
    stats,      \* language-v1/stats.json
    manifest,   \* language-v1/export-manifest.json
    lock,       \* who holds the lock of language-v1
    exporter,   \* the export command and what it has seen
    plan,       \* publish: the upload plan, complete or not
    publisher,  \* publish: where it is
    hub,        \* language-v1 as the Hub has it
    kills

disk == <<data, stats, manifest>>
vars == <<listed, disk, lock, exporter, plan, publisher, hub, kills>>

InProgress == [sealed |-> FALSE, items |-> Nothing]
Seal(items) == [sealed |-> TRUE, items |-> items]

\* _export_seal: the files the statistics name, as they are now.
Current == [data |-> Restrict(data, DOMAIN stats), stats |-> stats]

\* Mutant: any manifest will do.
ValidSeal_Any == stats # Nothing

\* read_language_export with _validate_export_seal.
ValidSeal == stats # Nothing /\ manifest.sealed /\ manifest.items = Current

\* A run that was exported before: its files lie there, sealed.
Init(r) ==
    /\ data = [n \in Names |-> IF n \in ShardsOf(r) THEN [run |-> r, upto |-> listed[r][n]]
                                ELSE Nothing]
    /\ stats = Restrict(data, ShardsOf(r))
    /\ manifest = Seal(Current)
    /\ lock = Nothing
    /\ exporter = [at |-> "idle", run |-> Nothing, next |-> 1]
    /\ plan = Nothing
    /\ publisher = "idle"
    /\ hub = [data |-> [n \in Names |-> Nothing], stats |-> Nothing]
    /\ kills = 0

\* Mutant: nobody is kept out.
Acquire_Shared(who) == lock' = who

\* exclusive_worker_lock: whoever finds it held gives up.
Acquire(who) == lock = Nothing /\ lock' = who

-----------------------------------------------------------------------------
(* export; ready: the run validates as complete *)

ExportBegins(r, ready) ==
    /\ exporter.at = "idle"
    /\ ready
    /\ Acquire("exporter")
    /\ manifest' = InProgress
    /\ exporter' = [at |-> "write", run |-> r, next |-> 1]
    /\ UNCHANGED <<data, stats, plan, publisher, hub, kills>>

\* _write_shard_export of the next shard, as far as its checkpoint lists it.
ExportShard ==
    /\ exporter.at = "write"
    /\ exporter.next <= Len(Sources[exporter.run])
    /\ LET s == Sources[exporter.run][exporter.next]
       IN  data' = [data EXCEPT ![s] = [run |-> exporter.run, upto |-> listed[exporter.run][s]]]
    /\ exporter' = [exporter EXCEPT !.next = @ + 1]
    /\ UNCHANGED <<stats, manifest, lock, plan, publisher, hub, kills>>

\* The statistics of the files just written, which nobody else writes.
ExportStats ==
    /\ exporter.at = "write"
    /\ exporter.next > Len(Sources[exporter.run])
    /\ stats' = Restrict(data, ShardsOf(exporter.run))
    /\ exporter' = [exporter EXCEPT !.at = "seal"]
    /\ UNCHANGED <<data, manifest, lock, plan, publisher, hub, kills>>

ExportSeals ==
    /\ exporter.at = "seal"
    /\ manifest' = Seal(Current)
    /\ exporter' = [at |-> "idle", run |-> Nothing, next |-> 1]
    /\ lock' = Nothing
    /\ UNCHANGED <<data, stats, plan, publisher, hub, kills>>

ExportKilled ==
    /\ exporter.at # "idle"
    /\ kills < MaxKills
    /\ kills' = kills + 1
    /\ exporter' = [at |-> "idle", run |-> Nothing, next |-> 1]
    /\ lock' = Nothing
    /\ UNCHANGED <<disk, plan, publisher, hub>>

-----------------------------------------------------------------------------
(* publish *)

\* build_language_upload_plan checks the seal first ...
PlanBegins ==
    /\ publisher = "idle"
    /\ ValidSeal
    /\ plan' = [data |-> [n \in {} |-> Nothing], stats |-> stats]
    /\ publisher' = "hash"
    /\ UNCHANGED <<disk, lock, exporter, hub, kills>>

\* ... and hashes the files one by one afterwards.
PlanHashes(n) ==
    /\ publisher = "hash"
    /\ n \in DOMAIN plan.stats \ DOMAIN plan.data
    /\ plan' = [plan EXCEPT !.data =
                    [m \in DOMAIN @ \cup {n} |-> IF m = n THEN data[n] ELSE @[m]]]
    /\ UNCHANGED <<disk, lock, exporter, publisher, hub, kills>>

PlanEnds ==
    /\ publisher = "hash"
    /\ DOMAIN plan.data = DOMAIN plan.stats
    /\ publisher' = "planned"
    /\ UNCHANGED <<disk, lock, exporter, plan, hub, kills>>

\* Mutant: the plan is used as it is.
PlanIsCurrent_Unchecked == TRUE

\* _require_current_plan
PlanIsCurrent == ValidSeal /\ plan = Current

Idle == publisher' = "idle" /\ plan' = Nothing

\* publish_language_export --apply
PublishBegins ==
    /\ publisher = "planned"
    /\ Acquire("publisher")
    /\ PlanIsCurrent
    /\ publisher' = "commit"
    /\ UNCHANGED <<disk, exporter, plan, hub, kills>>

PublishRefused ==
    /\ publisher = "planned"
    /\ lock # Nothing \/ ~PlanIsCurrent
    /\ Idle
    /\ UNCHANGED <<disk, lock, exporter, hub, kills>>

\* HuggingFaceLanguageHub.upload: one commit of the planned files, as they are.
PublishCommits ==
    /\ publisher = "commit"
    /\ hub' = [data |-> [n \in Names |-> IF n \in DOMAIN plan.stats THEN data[n] ELSE hub.data[n]],
               stats |-> stats]
    /\ Idle
    /\ lock' = Nothing
    /\ UNCHANGED <<disk, exporter, kills>>

PublishKilled ==
    /\ publisher # "idle"
    /\ kills < MaxKills
    /\ kills' = kills + 1
    /\ lock' = IF publisher = "commit" THEN Nothing ELSE lock
    /\ Idle
    /\ UNCHANGED <<disk, exporter, hub>>

Publish ==
    \/ PlanBegins \/ PlanEnds \/ PublishBegins \/ PublishRefused \/ PublishCommits
    \/ \E n \in Names : PlanHashes(n)

-----------------------------------------------------------------------------
(* Properties *)

\* Type invariant of the export root and of the Hub.
TypeOK ==
    /\ DOMAIN data = Names
    /\ stats # Nothing => DOMAIN stats \subseteq Names
    /\ lock \in {Nothing, "exporter", "publisher"}
    /\ exporter.at \in {"idle", "write", "seal"}
    /\ publisher \in {"idle", "hash", "planned", "commit"}
    /\ kills \in 0..MaxKills

\* The files on the Hub that the published statistics count are the files that
\* were counted, all of one run, although exports are interrupted, repeated and
\* planned from while they run (_validate_export_seal, publish_language_export).
PublishedIsOneExport ==
    hub.stats # Nothing =>
        /\ Restrict(hub.data, DOMAIN hub.stats) = hub.stats
        /\ \E r \in Runs :
            DOMAIN hub.stats = ShardsOf(r) /\ \A n \in ShardsOf(r) : hub.stats[n].run = r
=============================================================================
