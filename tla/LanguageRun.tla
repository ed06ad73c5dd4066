----------------------------- MODULE LanguageRun -----------------------------
(***************************************************************************)
(* The driver of GridDriver and the export of LanguageExport around one    *)
(* run directory: the driver fills it, the export takes it once it is      *)
(* complete.  An earlier run has been exported to the same export root.    *)
(***************************************************************************)
EXTENDS GridDriver

CONSTANTS
    Earlier,    \* the shards of the earlier run
    MaxKills,   \* bound: exports and publications killed
    Nothing     \* no file, no plan, nobody

ASSUME NothingAssumption == Nothing \notin {"exporter", "publisher"}
ASSUME KillsAssumption == MaxKills \in Nat

VARIABLES data, stats, manifest, lock, exporter, plan, publisher, hub, kills

exported == <<data, stats, manifest, lock, exporter, plan, publisher, hub, kills>>
runVars == <<vars, exported>>

\* What the checkpoints of the shards list; the earlier run is whole.
Collected == [earlier |-> Size, current |-> checkpoint["local"]]

Export == INSTANCE LanguageExport
            WITH Sources <- [earlier |-> Earlier, current |-> Share], listed <- Collected

\* Mutant: what is there will do.
RunIsComplete_Any == TRUE

\* _require_complete_run: every shard of the snapshot validates as complete.
RunIsComplete == \A s \in Shards : Complete(s)

RunInit == Init /\ Export!Init("earlier")

ExportStep ==
    \/ Export!ExportBegins("current", RunIsComplete)
    \/ Export!ExportShard
    \/ Export!ExportStats \/ Export!ExportSeals \/ Export!ExportKilled
    \/ Export!Publish \/ Export!PublishKilled

RunNext ==
    \/ Next /\ UNCHANGED exported
    \/ ExportStep /\ UNCHANGED vars

RunSpec == RunInit /\ [][RunNext]_runVars /\ Fairness

-----------------------------------------------------------------------------
(* Properties *)

\* What the published statistics count is one export of one run.
PublishedIsOneExport == Export!PublishedIsOneExport

\* And every shard of it is there to its last row: neither a driver that was
\* killed in the middle nor a paused job gets part of a shard published
\* (_require_complete_run, _import_retrieved_results).
PublishedIsComplete ==
    hub.stats # Nothing => \A s \in DOMAIN hub.stats : hub.stats[s].upto = Size[s]
=============================================================================
