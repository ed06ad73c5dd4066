------------------------ MODULE LocalDataset_proofs ------------------------
(* Theorems about LocalDataset, for any extracts, objects and bounds. *)
EXTENDS LocalDataset, FiniteSetTheorems, WellFoundedInduction, TLAPS

-----------------------------------------------------------------------------
(* The inductive invariant.  TypeOK alone is not inductive: that a promoted *)
(* file exists, for instance, is what the state file and the stage say.     *)

\* The tables after the pass: what a file loses is staged, the rest stays.
Deduplicated(tables) ==
    [s \in Sources |->
        IF Shrinks(tables, s) THEN Canonical(tables, s) ELSE tables[s]]

\* A deduplication state says what the pass makes of its inputs.
Derived(d) ==
    /\ Affected(d) = {s \in Sources : Shrinks(d.inputs, s)}
    /\ \A s \in Affected(d) : d.files[s].parquet = Canonical(d.inputs, s)
    /\ d.status = "complete" => DuplicateFree(d.outputs)
    /\ d.status = "staged" => d.stage \in Tokens

\* Whatever is still in the stage of d is what d says.
Intact(d) ==
    /\ stage[d.stage] # NoFile
    /\ \A s \in Affected(d) :
        LET staged == stage[d.stage][s]
        IN  /\ staged.parquet \in {d.files[s].parquet, NoFile}
            /\ staged.manifest \in {d.files[s].manifest, NoFile}
            /\ staged.manifest = NoFile => staged.parquet = NoFile

BuildInv == pc = "manifest" => \A s \in Sources : First(s) => parquet[s] # NoFile

StateInv ==
    /\ dedup # NoFile => Derived(dedup)
    /\ StateIsStaged => Intact(dedup)
    /\ pc \in {"dedup", "record", "unstage"} => ~StateIsStaged

PlanInv ==
    /\ pc \in {"record", "drift", "promote", "pair", "unstage"} =>
            plan # NoFile /\ Derived(plan)
    /\ pc = "record" =>
            /\ plan.inputs = parquet
            /\ plan.status = "complete" => plan.outputs = parquet
            /\ plan.status = "staged" => Intact(plan)
    /\ pc \in {"drift", "promote", "pair"} => dedup = plan /\ plan.status = "staged"
    /\ pc = "unstage" => plan.stage \in Tokens

PromoteInv ==
    pc \in {"promote", "pair"} =>
        /\ Drifted = {}
        /\ todo \subseteq Affected(plan)
        /\ \A s \in Sources \ Affected(plan) : parquet[s] = seen[s]
        /\ \A s \in Affected(plan) :
            s \notin todo \/ (pc = "pair" /\ First(s)) =>
                parquet[s] = plan.files[s].parquet
        /\ pc = "pair" =>
            \A s \in todo : First(s) => stage[plan.stage][s].parquet = NoFile

DoneInv ==
    pc \in {"unstage", "reverify", "ready"} =>
        /\ DuplicateFree(parquet)
        /\ Present = {} \/ CompletedStateMatches

IInv == TypeOK /\ BuildInv /\ StateInv /\ PlanInv /\ PromoteInv /\ DoneInv

-----------------------------------------------------------------------------
(* Types *)

\* Dropping rows of an artifact leaves an artifact.
LEMMA CanonicalType ==
    ASSUME NEW tables \in Tables, NEW s \in Sources, tables[s] # NoFile
    PROVE  /\ Keeps(tables, s) \subseteq DOMAIN tables[s].rows
           /\ DOMAIN tables[s].rows \subseteq Objects
           /\ Canonical(tables, s) \in Artifact
<1>1. tables[s] \in Artifact
  BY DEF Tables
<1>2. PICK D \in SUBSET Objects : tables[s].rows \in [D -> Ranks]
  BY <1>1 DEF Artifact, Rows
<1>3. Keeps(tables, s) \subseteq D
  BY <1>2 DEF Keeps
<1>4. Restrict(tables[s].rows, Keeps(tables, s)) \in [Keeps(tables, s) -> Ranks]
  BY <1>2, <1>3 DEF Restrict
<1>5. Restrict(tables[s].rows, Keeps(tables, s)) \in Rows
  BY <1>2, <1>3, <1>4 DEF Rows
<1> QED
  BY <1>2, <1>3, <1>5 DEF Canonical, Artifact

\* The rewritten manifest of a staged file is a manifest.
LEMMA RewrittenType ==
    ASSUME NEW tables \in Tables, NEW s \in Sources, tables[s] # NoFile,
           NEW m \in Manifest
    PROVE  Rewritten(m, tables, s) \in Manifest
<1> DEFINE dropped == DOMAIN tables[s].rows \ Keeps(tables, s)
<1>1. Canonical(tables, s) \in Artifact /\ dropped \subseteq Objects
  BY CanonicalType
<1>2. Cardinality(dropped) \in Nat
  BY <1>1, ObjectsAssumption, FS_Subset, FS_CardinalityType
<1> HIDE DEF dropped
<1>3. m.duplicates + Cardinality(dropped) \in Nat
  BY <1>2 DEF Manifest
<1>4. Rewritten(m, tables, s) =
        [m EXCEPT !.output = Canonical(tables, s),
                  !.duplicates = m.duplicates + Cardinality(dropped)]
  BY DEF Rewritten, dropped, Manifest
<1> QED
  BY <1>1, <1>3, <1>4 DEF Manifest

\* What _stage_changes stages, and how it lies in the staging directory.
LEMMA StagedType ==
    ASSUME TypeOK, Validated
    PROVE  /\ StagedEntries(parquet) \in [Sources -> Entry \cup {NoFile}]
           /\ \A s \in Sources :
                Shrinks(parquet, s) => StagedEntries(parquet)[s] \in Entry
           /\ StageOf(StagedEntries(parquet)) \in [Sources -> StageFile]
<1> DEFINE files == StagedEntries(parquet)
<1>1. /\ files \in [Sources -> Entry \cup {NoFile}]
      /\ \A s \in Sources : Shrinks(parquet, s) => files[s] \in Entry
  <2> SUFFICES ASSUME NEW s \in Sources, Shrinks(parquet, s)
               PROVE  [parquet |-> Canonical(parquet, s),
                       manifest |-> Rewritten(manifest[s], parquet, s)] \in Entry
    BY DEF StagedEntries
  <2>1. parquet \in Tables /\ parquet[s] # NoFile
    BY DEF TypeOK, Shrinks
  <2>2. manifest[s] \in Manifest
    BY <2>1 DEF TypeOK, Present, Validated
  <2>3. Canonical(parquet, s) \in Artifact
    BY <2>1, CanonicalType
  <2>4. Rewritten(manifest[s], parquet, s) \in Manifest
    BY <2>1, <2>2, RewrittenType
  <2> QED
    BY <2>3, <2>4 DEF Entry
<1> HIDE DEF files
<1>2. StageOf(files) \in [Sources -> StageFile]
  BY <1>1 DEF StageOf, StageFile, Entry
<1> QED
  BY <1>1, <1>2 DEF files
-----------------------------------------------------------------------------
(* Deduplication leaves no duplicates *)

\* A row that is kept is one that was there, unchanged in rank.
LEMMA DeduplicatedRows ==
    ASSUME NEW tables \in Tables, NEW s \in Sources, NEW o
    PROVE  Holds(Deduplicated(tables), s, o) <=>
                tables[s] # NoFile /\ o \in Keeps(tables, s)
<1>1. CASE Shrinks(tables, s)
  <2>1. Deduplicated(tables)[s] = Canonical(tables, s)
    BY <1>1 DEF Deduplicated
  <2>2. tables[s] # NoFile
    BY <1>1 DEF Shrinks
  <2>3. Canonical(tables, s) # NoFile
    BY <2>2, CanonicalType, NoFileAssumption
  <2>4. DOMAIN Canonical(tables, s).rows = Keeps(tables, s)
    BY DEF Canonical, Restrict
  <2> QED
    BY <2>1, <2>2, <2>3, <2>4 DEF Holds
<1>2. CASE ~Shrinks(tables, s)
  BY <1>2 DEF Deduplicated, Shrinks, Holds
<1> QED
  BY <1>1, <1>2

LEMMA RankType ==
    ASSUME NEW tables \in Tables, NEW s \in Sources, NEW o, Holds(tables, s, o)
    PROVE  tables[s].rows[o] \in Ranks /\ tables[s].rows[o] \in Nat
<1>1. tables[s].rows \in Rows
  BY DEF Holds, Tables, Artifact
<1>2. PICK D \in SUBSET Objects : tables[s].rows \in [D -> Ranks]
  BY <1>1 DEF Rows
<1>3. tables[s].rows[o] \in Ranks
  BY <1>2 DEF Holds
<1> QED
  BY <1>3, RanksAssumption

\* No object keeps its row in two tables: the order of rows is strict.
LEMMA DeduplicatedFree ==
    ASSUME NEW tables \in Tables
    PROVE  DuplicateFree(Deduplicated(tables))
<1> SUFFICES ASSUME NEW s \in Sources, NEW t \in Sources, NEW o \in Objects,
                    Holds(Deduplicated(tables), s, o),
                    Holds(Deduplicated(tables), t, o),
                    s # t
             PROVE  FALSE
  BY DEF DuplicateFree
<1>1. o \in Keeps(tables, s) /\ o \in Keeps(tables, t)
  BY DeduplicatedRows
<1>2. Holds(tables, s, o) /\ Holds(tables, t, o)
  BY <1>1, DeduplicatedRows DEF Holds, Keeps
<1>3. Beats(tables, s, t, o) /\ Beats(tables, t, s, o)
  BY <1>1, <1>2 DEF Keeps
<1>4. tables[s].rows[o] \in Nat /\ tables[t].rows[o] \in Nat
  BY <1>2, RankType
<1>5. s \in Nat /\ t \in Nat
  BY SourcesAssumption
<1> QED
  BY <1>3, <1>4, <1>5 DEF Beats

\* The files on disk after the pass are the deduplicated inputs.
LEMMA PassLeaves ==
    ASSUME TypeOK, plan \in DedupState, Derived(plan), Drifted = {},
           \A s \in Affected(plan) : parquet[s] = plan.files[s].parquet
    PROVE  parquet = Deduplicated(plan.inputs)
<1>1. ASSUME NEW s \in Sources PROVE parquet[s] = Deduplicated(plan.inputs)[s]
  BY <1>1 DEF Derived, Deduplicated, Affected, Drifted
<1> QED
  BY <1>1 DEF TypeOK, Tables, Deduplicated

-----------------------------------------------------------------------------
LEMMA TypeInit == Init => TypeOK
<1> SUFFICES ASSUME Init PROVE TypeOK
  OBVIOUS
<1>1. pbf \in [Sources -> PbfFile \cup {NoFile}]
  BY DEF Init, PbfFile
<1>2. changes \in 0..MaxChanges /\ faults \in 0..MaxFaults
  BY BoundsAssumption DEF Init
<1> QED
  BY <1>1, <1>2 DEF Init, TypeOK, Tables, NoTables, Points, Failures

\* Every action keeps the types.
LEMMA TypeNext == IInv /\ [Next]_vars => TypeOK'
<1> SUFFICES ASSUME IInv, [Next]_vars PROVE TypeOK'
  OBVIOUS
<1>0. TypeOK /\ BuildInv /\ StateInv /\ PlanInv /\ PromoteInv
  BY DEF IInv
<1> USE <1>0 DEF disk, memory, world
<1>stop. ASSUME NEW r \in Failures, Stop(r), UNCHANGED <<disk, world>>
         PROVE  TypeOK'
  BY <1>stop DEF Stop, TypeOK, Tables, NoTables, Points
<1>1. CASE Start
  BY <1>1 DEF Start, TypeOK, Points, Failures
<1>2. ASSUME NEW s \in Sources, Reuse(s) PROVE TypeOK'
  BY <1>2 DEF Reuse, TypeOK
<1>3. ASSUME NEW s \in Sources, BuildParquet(s) PROVE TypeOK'
  <2>1. [rows |-> pbf[s].rows, form |-> "built"] \in Artifact
    BY <1>3, ExtractsAssumption DEF BuildParquet, TypeOK, PbfFile, Artifact
  <2> QED
    BY <1>3, <2>1 DEF BuildParquet, TypeOK, Tables, Points
<1>4. ASSUME NEW s \in Sources, WriteManifest(s) PROVE TypeOK'
  <2>1. parquet[s] \in Artifact /\ pbf[s] \in PbfFile
    BY <1>4 DEF WriteManifest, BuildInv, TypeOK, Tables
  <2>2. [source |-> pbf[s], output |-> parquet[s], duplicates |-> 0] \in Manifest
    BY <2>1 DEF Manifest
  <2> QED
    BY <1>4, <2>2 DEF WriteManifest, TypeOK, Points
<1>5. ASSUME NEW s \in Sources, SourceVanished(s) PROVE TypeOK'
  BY <1>5, <1>stop DEF SourceVanished, Failures
<1>6. CASE BuildDone
  BY <1>6 DEF BuildDone, TypeOK, Points
<1>7. CASE Verify
  BY <1>7 DEF Verify, TypeOK, Points
<1>8. CASE VerifyFails
  BY <1>8, <1>stop DEF VerifyFails, Failures
<1>9. CASE Sweep
  BY <1>9 DEF Sweep, TypeOK, Points, StateIsStaged
<1>10. CASE SkipDedup
  BY <1>10 DEF SkipDedup, TypeOK, Points
<1>11. CASE StageChanges
  <2> DEFINE files == StagedEntries(parquet)
  <2>1. files \in [Sources -> Entry \cup {NoFile}] /\ StageOf(files) \in [Sources -> StageFile]
    BY <1>11, StagedType DEF StageChanges
  <2> HIDE DEF files
  <2>2. NoTables \in Tables
    BY DEF NoTables, Tables
  <2>3. plan' \in DedupState \cup {NoFile}
    BY <1>11, <2>1, <2>2 DEF StageChanges, files, DedupState, TypeOK
  <2>4. stage' \in [Tokens -> [Sources -> StageFile] \cup {NoFile}]
    BY <1>11, <2>1 DEF StageChanges, files, TypeOK
  <2> QED
    BY <1>11, <2>3, <2>4 DEF StageChanges, TypeOK, Points
<1>12. CASE RecordState
  BY <1>12 DEF RecordState, TypeOK, Points
<1>13. CASE RecordFails
  <2>1. faults' = faults + 1 /\ faults < MaxFaults
    BY <1>13 DEF RecordFails
  <2>2. faults' \in 0..MaxFaults
    BY <2>1, BoundsAssumption DEF TypeOK
  <2>3. dedup' \in DedupState \cup {NoFile}
    BY <1>13 DEF RecordFails, TypeOK
  <2>4. stage' \in [Tokens -> [Sources -> StageFile] \cup {NoFile}]
    BY <1>13 DEF RecordFails, TypeOK
  <2> QED
    BY <1>13, <2>2, <2>3, <2>4
       DEF RecordFails, Stop, TypeOK, Tables, NoTables, Points, Failures
<1>14. CASE DriftCheck
  BY <1>14 DEF DriftCheck, TypeOK, Points, Affected
<1>15. CASE DriftRefused
  BY <1>15, <1>stop DEF DriftRefused, Failures
<1>p. ASSUME pc \in {"promote", "pair"}
      PROVE  /\ plan \in DedupState
             /\ plan.stage \in Tokens
             /\ stage[plan.stage] \in [Sources -> StageFile]
             /\ \A s \in todo : plan.files[s] \in Entry
  <2>1. plan \in DedupState /\ plan.stage \in Tokens
    BY <1>p DEF PlanInv, TypeOK, Derived
  <2>2. stage[plan.stage] # NoFile
    BY <1>p DEF PlanInv, StateInv, StateIsStaged, Intact
  <2> QED
    BY <1>p, <2>1, <2>2 DEF PromoteInv, Affected, TypeOK, DedupState
<1>16. ASSUME NEW s \in Sources, PromoteParquet(s) PROVE TypeOK'
  <2>1. stage[plan.stage] \in [Sources -> StageFile] /\ plan.stage \in Tokens
    BY <1>16, <1>p DEF PromoteParquet
  <2>2. parquet' \in Tables
    BY <1>16, <2>1 DEF PromoteParquet, TypeOK, Tables, StageFile
  <2>3. stage' \in [Tokens -> [Sources -> StageFile] \cup {NoFile}]
    BY SMTT(30), <1>16, <2>1 DEF PromoteParquet, TypeOK, StageFile
  <2> QED
    BY <1>16, <2>2, <2>3 DEF PromoteParquet, TypeOK, Points
<1>17. ASSUME NEW s \in Sources, PromotionFails(s) PROVE TypeOK'
  BY <1>17, <1>stop DEF PromotionFails, Failures
<1>18. ASSUME NEW s \in Sources, PromoteManifest(s) PROVE TypeOK'
  <2>1. stage[plan.stage] \in [Sources -> StageFile] /\ plan.stage \in Tokens
    BY <1>18, <1>p DEF PromoteManifest
  <2>2. manifest' \in [Sources -> Manifest \cup {NoFile}]
    BY <1>18, <2>1 DEF PromoteManifest, TypeOK, StageFile
  <2>3. stage' \in [Tokens -> [Sources -> StageFile] \cup {NoFile}]
    <3>1. \/ stage' = stage
          \/ stage' = [stage EXCEPT ![plan.stage][s].manifest = NoFile]
      BY <1>18 DEF PromoteManifest
    <3>2. [stage[plan.stage] EXCEPT ![s].manifest = NoFile] \in [Sources -> StageFile]
      BY <2>1 DEF StageFile
    <3> QED
      BY <3>1, <3>2, <2>1 DEF TypeOK
  <2> QED
    BY <1>18, <2>2, <2>3 DEF PromoteManifest, TypeOK, Points
<1>19. CASE WriteComplete
  <2>1. plan \in DedupState
    BY <1>19, <1>p DEF WriteComplete
  <2>2. PromotedOutputs \in Tables
    BY <2>1 DEF PromotedOutputs, Affected, TypeOK, Tables, DedupState, Entry
  <2>3. dedup' \in DedupState
    BY <1>19, <2>1, <2>2 DEF WriteComplete, DedupState
  <2> QED
    BY <1>19, <2>3 DEF WriteComplete, TypeOK, Points
<1>20. CASE RemoveStage
  BY <1>20 DEF RemoveStage, TypeOK, Points
<1>21. CASE HandOver
  BY <1>21, <1>stop DEF HandOver, Failures
<1>22. ASSUME NEW s \in Sources, ChangePbf(s) PROVE TypeOK'
  <2>1. changes' \in 0..MaxChanges
    BY <1>22, BoundsAssumption DEF ChangePbf, TypeOK
  <2>2. pbf' \in [Sources -> PbfFile \cup {NoFile}]
    BY <1>22 DEF ChangePbf, TypeOK, PbfFile
  <2> QED
    BY <1>22, <2>1, <2>2 DEF ChangePbf, TypeOK
<1>23. CASE Crash
  <2>1. faults' \in 0..MaxFaults
    BY <1>23, BoundsAssumption DEF Crash, TypeOK
  <2> QED
    BY <1>23, <2>1 DEF Crash, Stop, TypeOK, Tables, NoTables, Points, Failures
<1>24. CASE UNCHANGED vars
  BY <1>24 DEF vars, TypeOK
<1> QED
  BY <1>1, <1>2, <1>3, <1>4, <1>5, <1>6, <1>7, <1>8, <1>9, <1>10, <1>11, <1>12,
     <1>13, <1>14, <1>15, <1>16, <1>17, <1>18, <1>19, <1>20, <1>21, <1>22,
     <1>23, <1>24
     DEF Next, RunStep, BuildStep, PromoteStep
-----------------------------------------------------------------------------
(* Every step keeps the rest of the invariant *)

LEMMA BuildNext == IInv /\ [Next]_vars => BuildInv'
<1> SUFFICES ASSUME IInv, [Next]_vars, pc' = "manifest",
                    NEW s \in Sources, First(s)'
             PROVE  parquet'[s] # NoFile
  BY DEF BuildInv
<1>0. TypeOK /\ BuildInv
  BY DEF IInv
<1> USE DEF disk, memory, world, First
<1>1. ASSUME NEW t \in Sources, BuildParquet(t) PROVE parquet'[s] # NoFile
  <2>1. s = t
    BY <1>1, SourcesAssumption, <1>0 DEF BuildParquet, TypeOK
  <2>2. [rows |-> pbf[s].rows, form |-> "built"] \in Artifact
    BY <1>1, <2>1, <1>0, ExtractsAssumption DEF BuildParquet, TypeOK, PbfFile, Artifact
  <2> QED
    BY <1>1, <2>1, <2>2, <1>0, NoFileAssumption DEF BuildParquet, TypeOK, Tables
<1>2. CASE UNCHANGED <<pc, todo, parquet>>
  BY <1>2, <1>0 DEF BuildInv
<1> QED
  BY <1>1, <1>2
     DEF Next, RunStep, BuildStep, PromoteStep, Start, Reuse, WriteManifest,
         SourceVanished, BuildDone, Verify, VerifyFails, Sweep, SkipDedup,
         StageChanges, RecordState, RecordFails, DriftCheck, DriftRefused,
         PromoteParquet, PromotionFails, PromoteManifest, WriteComplete,
         RemoveStage, HandOver, ChangePbf, Crash, Stop, vars

\* What _stage_changes has in memory follows from the files it read.
LEMMA StagedDerived ==
    ASSUME IInv, StageChanges
    PROVE  /\ plan' # NoFile
           /\ Derived(plan')
           /\ plan'.inputs = parquet
           /\ plan'.status = "complete" => plan'.outputs = parquet
           /\ plan'.status = "staged" => Intact(plan)'
<1> DEFINE files == StagedEntries(parquet)
<1>0. TypeOK
  BY DEF IInv
<1>1. /\ files \in [Sources -> Entry \cup {NoFile}]
      /\ StageOf(files) \in [Sources -> StageFile]
      /\ \A s \in Sources : Shrinks(parquet, s) => files[s] \in Entry
  BY <1>0, StagedType DEF StageChanges
<1>2. {s \in Sources : files[s] # NoFile} = {s \in Sources : Shrinks(parquet, s)}
  <2> SUFFICES ASSUME NEW s \in Sources, Shrinks(parquet, s) PROVE files[s] # NoFile
    BY DEF StagedEntries
  <2> QED
    BY <1>1, NoFileAssumption
<1>3. \A s \in Sources : files[s] # NoFile => files[s].parquet = Canonical(parquet, s)
  BY DEF StagedEntries
<1>4. \A s \in Sources : files[s] # NoFile => StageOf(files)[s] = files[s]
  BY DEF StageOf
<1>5. StageOf(files) # NoFile
  BY <1>1, NoFileAssumption
<1>6. (\A s \in Sources : files[s] = NoFile) => Deduplicated(parquet) = parquet
  BY <1>2, <1>0 DEF Deduplicated, TypeOK, Tables
<1>7. DuplicateFree(Deduplicated(parquet))
  BY <1>0, DeduplicatedFree DEF TypeOK
<1> HIDE DEF files
<1>8. CASE \A s \in Sources : files[s] = NoFile
  <2>1. plan' = [status |-> "complete", inputs |-> parquet,
                 outputs |-> parquet, files |-> files, stage |-> NoFile]
    BY <1>8 DEF StageChanges, files
  <2>2. plan' # NoFile
    BY <2>1, <1>1, <1>0, NoFileAssumption DEF TypeOK, DedupState
  <2> QED
    BY <2>1, <2>2, <1>2, <1>3, <1>6, <1>7, <1>8 DEF Derived, Affected
<1>9. CASE \E s \in Sources : files[s] # NoFile
  <2>1. PICK t \in Tokens :
            /\ stage[t] = NoFile
            /\ stage' = [stage EXCEPT ![t] = StageOf(files)]
            /\ plan' = [status |-> "staged", inputs |-> parquet,
                        outputs |-> NoTables, files |-> files, stage |-> t]
    BY <1>9 DEF StageChanges, files
  <2>2. plan' # NoFile
    BY <2>1, <1>1, <1>0, NoFileAssumption DEF TypeOK, DedupState, Tables, NoTables
  <2>3. Derived(plan')
    BY <2>1, <1>2, <1>3 DEF Derived, Affected
  <2>4. stage'[t] = StageOf(files)
    BY <2>1, <1>0 DEF TypeOK
  <2>5. Intact(plan)'
    BY <2>1, <2>4, <1>4, <1>5, <1>1, NoFileAssumption DEF Intact, Affected, Entry
  <2> QED
    BY <2>1, <2>2, <2>3, <2>5
<1> QED
  BY <1>8, <1>9

\* When the last file is promoted, the hashes recorded are those on disk.
LEMMA PromotionDone ==
    ASSUME IInv, WriteComplete
    PROVE  PromotedOutputs = parquet /\ DuplicateFree(parquet)
<1>0. TypeOK /\ PlanInv /\ PromoteInv
  BY DEF IInv
<1>1. plan \in DedupState /\ Derived(plan)
  BY <1>0 DEF WriteComplete, PlanInv, TypeOK
<1>2. /\ Drifted = {}
      /\ \A s \in Affected(plan) : parquet[s] = plan.files[s].parquet
      /\ \A s \in Sources \ Affected(plan) : parquet[s] = seen[s]
  BY <1>0 DEF WriteComplete, PromoteInv
<1>3. PromotedOutputs = parquet
  BY <1>0, <1>2 DEF PromotedOutputs, TypeOK, Tables
<1>4. parquet = Deduplicated(plan.inputs) /\ plan.inputs \in Tables
  BY <1>0, <1>1, <1>2, PassLeaves DEF DedupState
<1> QED
  BY <1>3, <1>4, DeduplicatedFree

\* A promotion step takes from the stage what the plan says, or nothing.
LEMMA PromotedIntact ==
    ASSUME IInv, NEW s \in Sources, PromoteParquet(s) \/ PromoteManifest(s)
    PROVE  /\ StateIsStaged
           /\ dedup' = dedup
           /\ s \in Affected(plan)
           /\ Intact(dedup)'
           /\ PromoteParquet(s) => parquet' = [parquet EXCEPT ![s] = plan.files[s].parquet]
<1>0. TypeOK /\ PlanInv /\ PromoteInv /\ StateInv
  BY DEF IInv
<1>1. /\ dedup = plan /\ plan \in DedupState /\ plan.status = "staged"
      /\ plan.stage \in Tokens
      /\ Drifted = {} /\ s \in Affected(plan)
  BY <1>0 DEF PromoteParquet, PromoteManifest, PlanInv, PromoteInv, Derived,
              TypeOK, First
<1>2. StateIsStaged /\ Intact(dedup)
  BY <1>0, <1>1, NoFileAssumption DEF StateInv, StateIsStaged
<1>3. stage[plan.stage] \in [Sources -> StageFile]
  BY <1>0, <1>1, <1>2 DEF TypeOK, Intact
<1>4. plan.files[s] \in Entry
  BY <1>1 DEF Affected, DedupState
<1>5. CASE PromoteParquet(s)
  <2>1. parquet' = [parquet EXCEPT ![s] = plan.files[s].parquet]
    BY <1>5, <1>0, <1>1, <1>2 DEF PromoteParquet, Intact, TypeOK, Tables
  <2>2. \/ stage' = stage
        \/ /\ stage' = [stage EXCEPT ![plan.stage][s].parquet = NoFile]
           /\ stage[plan.stage][s].parquet # NoFile
    BY <1>5 DEF PromoteParquet
  <2>3. dedup' = dedup
    BY <1>5 DEF PromoteParquet
  <2>4. Intact(dedup)'
    <3>1. CASE stage' = stage
      BY <1>2, <2>3, <3>1 DEF Intact, Affected
    <3>2. CASE stage' = [stage EXCEPT ![plan.stage][s].parquet = NoFile]
      <4>1. stage'[plan.stage] = [stage[plan.stage] EXCEPT ![s].parquet = NoFile]
        BY <3>2, <1>0, <1>1 DEF TypeOK
      <4>2. [stage[plan.stage] EXCEPT ![s].parquet = NoFile] \in [Sources -> StageFile]
        BY <1>3 DEF StageFile
      <4>3. stage'[dedup.stage] # NoFile
        BY <4>1, <4>2, <1>1, NoFileAssumption
      <4>4. ASSUME NEW t \in Affected(dedup)
            PROVE  /\ stage'[dedup.stage][t].parquet \in {dedup.files[t].parquet, NoFile}
                   /\ stage'[dedup.stage][t].manifest \in {dedup.files[t].manifest, NoFile}
                   /\ stage'[dedup.stage][t].manifest = NoFile
                        => stage'[dedup.stage][t].parquet = NoFile
        BY <4>1, <1>1, <1>2, <1>3 DEF Intact, StageFile, Affected
      <4> QED
        BY <4>3, <4>4, <2>3 DEF Intact, Affected
    <3> QED
      BY <2>2, <3>1, <3>2
  <2> QED
    BY <1>1, <1>2, <2>1, <2>3, <2>4
<1>6. CASE PromoteManifest(s)
  <2>0. pc = "pair" /\ First(s)
    BY <1>6 DEF PromoteManifest
  <2>1. stage[plan.stage][s].parquet = NoFile
    BY <1>0, <2>0 DEF PromoteInv, First
  <2>2. \/ stage' = stage
        \/ stage' = [stage EXCEPT ![plan.stage][s].manifest = NoFile]
    BY <1>6 DEF PromoteManifest
  <2>3. dedup' = dedup
    BY <1>6 DEF PromoteManifest
  <2>4. Intact(dedup)'
    <3>1. CASE stage' = stage
      BY <1>2, <2>3, <3>1 DEF Intact, Affected
    <3>2. CASE stage' = [stage EXCEPT ![plan.stage][s].manifest = NoFile]
      <4>1. stage'[plan.stage] = [stage[plan.stage] EXCEPT ![s].manifest = NoFile]
        BY <3>2, <1>0, <1>1 DEF TypeOK
      <4>2. [stage[plan.stage] EXCEPT ![s].manifest = NoFile] \in [Sources -> StageFile]
        BY <1>3 DEF StageFile
      <4>3. stage'[dedup.stage] # NoFile
        BY <4>1, <4>2, <1>1, NoFileAssumption
      <4>4. ASSUME NEW t \in Affected(dedup)
            PROVE  /\ stage'[dedup.stage][t].parquet \in {dedup.files[t].parquet, NoFile}
                   /\ stage'[dedup.stage][t].manifest \in {dedup.files[t].manifest, NoFile}
                   /\ stage'[dedup.stage][t].manifest = NoFile
                        => stage'[dedup.stage][t].parquet = NoFile
        BY <4>1, <1>1, <1>2, <1>3, <2>1 DEF Intact, StageFile, Affected
      <4> QED
        BY <4>3, <4>4, <2>3 DEF Intact, Affected
    <3> QED
      BY <2>2, <3>1, <3>2
  <2>5. ~PromoteParquet(s)
    BY <2>0 DEF PromoteParquet
  <2> QED
    BY <1>1, <1>2, <2>3, <2>4, <2>5
<1> QED
  BY <1>5, <1>6

\* A step that writes neither the state file nor the stage.
LEMMA StateKept ==
    ASSUME IInv, UNCHANGED <<dedup, stage>>,
           pc' \in {"dedup", "record", "unstage"} => pc' = pc
    PROVE  StateInv'
BY DEF IInv, StateInv, StateIsStaged, Intact, Affected

LEMMA StateNext == IInv /\ [Next]_vars => StateInv'
<1> SUFFICES ASSUME IInv, [Next]_vars PROVE StateInv'
  OBVIOUS
<1>0. TypeOK /\ StateInv /\ PlanInv /\ PromoteInv
  BY DEF IInv
<1> USE DEF disk, memory, world
<1>1. CASE Sweep
  <2>1. \A t \in Tokens : t \notin Orphans => stage'[t] = stage[t]
    BY <1>1 DEF Sweep
  <2>2. StateIsStaged => dedup.stage \in Tokens /\ dedup.stage \notin Orphans
    BY <1>0 DEF StateInv, StateIsStaged, Derived, Orphans
  <2>3. dedup' = dedup /\ (pc' = "dedup" => ~StateIsStaged) /\ pc' \in {"drift", "dedup"}
    BY <1>1 DEF Sweep
  <2>4. StateIsStaged => Intact(dedup)'
    BY <2>1, <2>2, <2>3, <1>0 DEF StateInv, Intact, Affected
  <2> QED
    BY <2>3, <2>4, <1>0 DEF StateInv, StateIsStaged
<1>2. CASE StageChanges
  BY <1>2, <1>0 DEF StageChanges, StateInv, StateIsStaged
<1>3. CASE RecordState
  BY <1>3, <1>0 DEF RecordState, StateInv, PlanInv, StateIsStaged, Intact, Affected
<1>4. CASE RecordFails
  <2>1. plan # NoFile /\ Derived(plan) /\ (plan.status = "staged" => Intact(plan)) /\ ~StateIsStaged
    BY <1>4, <1>0 DEF RecordFails, PlanInv, StateInv
  <2>2. CASE dedup' = plan
    BY <1>4, <2>1, <2>2 DEF RecordFails, Stop, StateInv, StateIsStaged, Intact, Affected
  <2>3. CASE dedup' = dedup
    BY <1>4, <2>1, <2>3, <1>0 DEF RecordFails, Stop, StateInv, StateIsStaged
  <2> QED
    BY <1>4, <2>2, <2>3 DEF RecordFails
<1>5. ASSUME NEW s \in Sources, PromoteParquet(s) \/ PromoteManifest(s)
      PROVE  StateInv'
  <2>1. StateIsStaged /\ dedup' = dedup /\ Intact(dedup)'
    BY <1>5, PromotedIntact
  <2>2. pc' \in {"promote", "pair"}
    BY <1>5 DEF PromoteParquet, PromoteManifest
  <2> QED
    BY <2>1, <2>2, <1>0 DEF StateInv, StateIsStaged
<1>6. CASE WriteComplete
  <2>1. PromotedOutputs = parquet /\ DuplicateFree(parquet)
    BY <1>6, PromotionDone
  <2>2. plan \in DedupState /\ Derived(plan)
    BY <1>6, <1>0 DEF WriteComplete, PlanInv, TypeOK
  <2>3. dedup' = [plan EXCEPT !.status = "complete", !.outputs = parquet, !.stage = NoFile]
    BY <1>6, <2>1 DEF WriteComplete
  <2>4. /\ dedup'.status = "complete" /\ dedup'.outputs = parquet
        /\ dedup'.inputs = plan.inputs /\ dedup'.files = plan.files
    BY <2>2, <2>3 DEF DedupState
  <2>5. Derived(dedup')
    BY <2>1, <2>2, <2>4 DEF Derived, Affected
  <2> QED
    BY <1>6, <2>4, <2>5 DEF WriteComplete, StateInv, StateIsStaged
<1>7. CASE RemoveStage
  BY <1>7, <1>0 DEF RemoveStage, StateInv, StateIsStaged
<1>8. CASE UNCHANGED <<dedup, stage>> /\ (pc' \in {"dedup", "record", "unstage"} => pc' = pc)
  BY <1>8, StateKept
<1> QED
  BY <1>1, <1>2, <1>3, <1>4, <1>5, <1>6, <1>7, <1>8
     DEF Next, RunStep, BuildStep, PromoteStep, Start, Reuse, BuildParquet,
         WriteManifest, SourceVanished, BuildDone, Verify, VerifyFails,
         SkipDedup, DriftCheck, DriftRefused, PromotionFails, HandOver,
         ChangePbf, Crash, Stop, vars

LEMMA PlanNext == IInv /\ [Next]_vars => PlanInv'
<1> SUFFICES ASSUME IInv, [Next]_vars PROVE PlanInv'
  OBVIOUS
<1>0. TypeOK /\ StateInv /\ PlanInv
  BY DEF IInv
<1> USE DEF disk, memory, world
<1>1. CASE Sweep
  BY <1>1, <1>0 DEF Sweep, PlanInv, StateInv, StateIsStaged
<1>2. CASE StageChanges
  BY <1>2, StagedDerived DEF StageChanges, PlanInv
<1>3. CASE RecordState
  BY <1>3, <1>0 DEF RecordState, PlanInv
<1>4. CASE DriftCheck
  BY <1>4, <1>0 DEF DriftCheck, PlanInv
<1>5. ASSUME NEW s \in Sources, PromoteParquet(s) \/ PromoteManifest(s)
      PROVE  PlanInv'
  BY <1>5, <1>0 DEF PromoteParquet, PromoteManifest, PlanInv
<1>6. CASE WriteComplete
  BY <1>6, <1>0 DEF WriteComplete, PlanInv, Derived
<1>7. CASE UNCHANGED <<pc, plan, parquet, dedup, stage>>
  BY <1>7, <1>0 DEF PlanInv, Intact
<1>8. CASE pc' \in {"idle", "build", "manifest", "verify", "sweep", "dedup", "reverify", "ready"}
  BY <1>8 DEF PlanInv
<1> QED
  BY <1>1, <1>2, <1>3, <1>4, <1>5, <1>6, <1>7, <1>8
     DEF Next, RunStep, BuildStep, PromoteStep, Start, Reuse, BuildParquet,
         WriteManifest, SourceVanished, BuildDone, Verify, VerifyFails,
         SkipDedup, RecordFails, DriftRefused, PromotionFails, RemoveStage,
         HandOver, ChangePbf, Crash, Stop, vars

LEMMA PromoteNext == IInv /\ [Next]_vars => PromoteInv'
<1> SUFFICES ASSUME IInv, [Next]_vars PROVE PromoteInv'
  OBVIOUS
<1>0. TypeOK /\ PlanInv /\ PromoteInv
  BY DEF IInv
<1> USE DEF disk, memory, world
<1>1. CASE DriftCheck
  <2>1. Drifted' = {}
    BY <1>1 DEF DriftCheck, Drifted, Affected
  <2> QED
    BY <1>1, <2>1, <1>0 DEF DriftCheck, PromoteInv, Affected
<1>2. ASSUME NEW s \in Sources, PromoteParquet(s) PROVE PromoteInv'
  <2>1. parquet' = [parquet EXCEPT ![s] = plan.files[s].parquet] /\ s \in Affected(plan)
    BY <1>2, PromotedIntact
  <2>2. pc = "promote" /\ pc' = "pair" /\ First(s) /\ UNCHANGED <<plan, todo, seen>>
    BY <1>2 DEF PromoteParquet
  <2>3. parquet'[s] = plan.files[s].parquet /\ \A t \in Sources \ {s} : parquet'[t] = parquet[t]
    BY <2>1, <1>0 DEF TypeOK, Tables
  <2>4. Drifted' = {}
    BY <2>1, <2>2, <2>3, <1>0 DEF PromoteInv, Drifted, Affected
  <2>5. \A t \in todo : First(t) => t = s
    BY <2>2, <1>0, SourcesAssumption DEF First, TypeOK
  <2>6. stage'[plan.stage][s].parquet = NoFile
    <3>1. plan.stage \in Tokens /\ stage[plan.stage] # NoFile
      BY <2>2, <1>0 DEF PlanInv, Derived, IInv, StateInv, StateIsStaged, Intact
    <3>2. stage[plan.stage] \in [Sources -> StageFile]
      BY <3>1, <1>0 DEF TypeOK
    <3> QED
      BY <1>2, <3>1, <3>2, <1>0 DEF PromoteParquet, TypeOK, StageFile
  <2> QED
    BY <2>1, <2>2, <2>3, <2>4, <2>5, <2>6, <1>0 DEF PromoteInv, First, Affected
<1>3. ASSUME NEW s \in Sources, PromoteManifest(s) PROVE PromoteInv'
  <2>1. /\ pc = "pair" /\ pc' = "promote" /\ First(s)
        /\ todo' = todo \ {s} /\ UNCHANGED <<plan, seen, parquet>>
    BY <1>3 DEF PromoteManifest
  <2> QED
    BY <2>1, <1>0 DEF PromoteInv, Drifted, Affected, First
<1>4. CASE UNCHANGED <<pc, plan, parquet, todo, seen, stage>>
  BY <1>4, <1>0 DEF PromoteInv, Drifted, Affected, First
<1>5. CASE pc' \notin {"promote", "pair"}
  BY <1>5 DEF PromoteInv
<1> QED
  BY <1>1, <1>2, <1>3, <1>4, <1>5
     DEF Next, RunStep, BuildStep, PromoteStep, Start, Reuse, BuildParquet,
         WriteManifest, SourceVanished, BuildDone, Verify, VerifyFails, Sweep,
         SkipDedup, StageChanges, RecordState, RecordFails, DriftRefused,
         PromotionFails, WriteComplete, RemoveStage, HandOver, ChangePbf,
         Crash, Stop, vars

LEMMA DoneNext == IInv /\ [Next]_vars => DoneInv'
<1> SUFFICES ASSUME IInv, [Next]_vars PROVE DoneInv'
  OBVIOUS
<1>0. TypeOK /\ StateInv /\ PlanInv /\ DoneInv
  BY DEF IInv
<1> USE DEF disk, memory, world
<1>1. CASE SkipDedup
  <2>1. Present = {} => DuplicateFree(parquet)
    BY DEF Present, DuplicateFree, Holds
  <2>2. CompletedStateMatches => DuplicateFree(parquet)
    BY <1>0 DEF CompletedStateMatches, StateInv, Derived
  <2> QED
    BY <1>1, <2>1, <2>2
       DEF SkipDedup, DoneInv, DuplicateFree, Holds, Present, CompletedStateMatches
<1>2. CASE RecordState
  <2>1. plan # NoFile /\ Derived(plan) /\ plan \in DedupState
        /\ (plan.status = "complete" => plan.outputs = parquet)
    BY <1>2, <1>0 DEF RecordState, PlanInv, TypeOK
  <2>2. CASE plan.status = "staged"
    BY <1>2, <2>2 DEF RecordState, DoneInv
  <2>3. CASE plan.status = "complete"
    BY <1>2, <2>1, <2>3
       DEF RecordState, DoneInv, Derived, DuplicateFree, Holds, CompletedStateMatches
  <2> QED
    BY <2>1, <2>2, <2>3 DEF DedupState
<1>3. CASE WriteComplete
  <2>1. PromotedOutputs = parquet /\ DuplicateFree(parquet)
    BY <1>3, PromotionDone
  <2>2. plan \in DedupState
    BY <1>3, <1>0 DEF WriteComplete, PlanInv, TypeOK
  <2>3. dedup' \in DedupState /\ dedup'.status = "complete" /\ dedup'.outputs = parquet
    BY <1>3, <2>1, <2>2, <1>0 DEF WriteComplete, DedupState, TypeOK
  <2>4. dedup' # NoFile
    BY <2>3, NoFileAssumption
  <2> QED
    BY <1>3, <2>1, <2>3, <2>4
       DEF WriteComplete, DoneInv, DuplicateFree, Holds, CompletedStateMatches
<1>4. CASE pc \in {"unstage", "reverify", "ready"} /\ UNCHANGED <<parquet, dedup>>
  BY <1>4, <1>0 DEF DoneInv, DuplicateFree, Holds, Present, CompletedStateMatches
<1>5. CASE pc' \notin {"unstage", "reverify", "ready"}
  BY <1>5 DEF DoneInv
<1> QED
  BY <1>1, <1>2, <1>3, <1>4, <1>5
     DEF Next, RunStep, BuildStep, PromoteStep, Start, Reuse, BuildParquet,
         WriteManifest, SourceVanished, BuildDone, Verify, VerifyFails, Sweep,
         StageChanges, RecordFails, DriftCheck, DriftRefused, PromoteParquet,
         PromotionFails, PromoteManifest, RemoveStage, HandOver, ChangePbf,
         Crash, Stop, vars

-----------------------------------------------------------------------------
(* Theorems *)

LEMMA Inductive == Spec => []IInv
<1>1. Init => IInv
  BY TypeInit DEF Init, IInv, BuildInv, StateInv, StateIsStaged, PlanInv,
                  PromoteInv, DoneInv
<1>2. IInv /\ [Next]_vars => IInv'
  BY TypeNext, BuildNext, StateNext, PlanNext, PromoteNext, DoneNext DEF IInv
<1> QED
  BY <1>1, <1>2, PTL DEF Spec

\* Files, state file and memory keep their types under every interleaving of
\* runs, kills and replaced extracts.
THEOREM TypeCorrect == Spec => []TypeOK
BY Inductive, PTL DEF IInv

\* Whatever was killed or replaced before, tables that go on to publication
\* hold at most one row of each object.
THEOREM Deduplication == Spec => []OneRowPerObject
<1>1. IInv => OneRowPerObject
  BY DEF IInv, DoneInv, OneRowPerObject
<1> QED
  BY <1>1, Inductive, PTL

\* A staged state never outlives its stage, and what is left in the stage is
\* what the state recorded.
THEOREM StageKept == Spec => []StagedWorkIsRecoverable
<1>1. IInv => StagedWorkIsRecoverable
  BY DEF IInv, StateInv, Intact, StagedWorkIsRecoverable
<1> QED
  BY <1>1, Inductive, PTL

\* The output hashes of a completed state are those of the files.
THEOREM HashesTruthful == Spec => []CompleteStateTruthful
<1>1. IInv => CompleteStateTruthful
  BY DEF IInv, DoneInv, CompleteStateTruthful
<1> QED
  BY <1>1, Inductive, PTL

-----------------------------------------------------------------------------
(* Refinement *)

LEMMA Smallest ==
    ASSUME NEW S \in SUBSET Nat, S # {}
    PROVE  \E n \in S : \A m \in S : n <= m
<1> DEFINE below == {ss \in Nat \X Nat : ss[1] < ss[2]}
<1>1. IsWellFoundedOn(below, Nat)
  BY NatLessThanWellFounded DEF OpToRel
<1> HIDE DEF below
<1>2. \E n \in S : \A m \in S : ~(<<m, n>> \in below)
  BY <1>1, WFMin
<1>3. PICK n \in S : \A m \in S : ~(<<m, n>> \in below)
  BY <1>2
<1>4. ASSUME NEW m \in S PROVE n <= m
  <2>1. m \in Nat /\ n \in Nat
    OBVIOUS
  <2>2. ~(m < n)
    BY <1>3, <2>1 DEF below
  <2> QED
    BY <2>1, <2>2
<1> QED
  BY <1>4

\* Among the rows of an object one beats all the others: the highest rank
\* exists because ranks are bounded, and of those the smallest name.
LEMMA BestRow ==
    ASSUME NEW tables \in Tables, NEW s \in Sources, NEW o,
           Holds(tables, s, o)
    PROVE  \E b \in Sources : /\ Holds(tables, b, o)
                              /\ o \in Keeps(tables, b)
                              /\ b = s \/ Beats(tables, b, s, o)
<1> DEFINE holders == {t \in Sources : Holds(tables, t, o)}
<1>1. PICK top \in Ranks : \A r \in Ranks : r <= top
  BY RanksAssumption
<1>2. \A t \in holders : /\ tables[t].rows[o] \in Nat
                         /\ tables[t].rows[o] <= top
  <2> SUFFICES ASSUME NEW t \in Sources, Holds(tables, t, o)
               PROVE  tables[t].rows[o] \in Ranks
    BY <1>1, RanksAssumption
  <2> QED
    BY RankType
<1>3. top \in Nat
  BY <1>1, RanksAssumption
<1> DEFINE gaps == {top - tables[t].rows[o] : t \in holders}
<1>4. gaps \in SUBSET Nat /\ gaps # {}
  BY <1>2, <1>3
<1>5. PICK gap \in gaps : \A g \in gaps : gap <= g
  BY <1>4, Smallest
<1> DEFINE highest == {t \in holders : top - tables[t].rows[o] = gap}
<1>6. highest \in SUBSET Nat /\ highest # {}
  BY <1>5, SourcesAssumption
<1>7. PICK b \in highest : \A t \in highest : b <= t
  BY <1>6, Smallest
<1>8. ASSUME NEW t \in holders, t # b PROVE Beats(tables, b, t, o)
  <2>1. gap <= top - tables[t].rows[o] /\ gap = top - tables[b].rows[o]
    BY <1>5, <1>7
  <2>2. t \in highest => b < t
    BY <1>7, <1>8, SourcesAssumption
  <2>3. top - tables[t].rows[o] = gap => b < t
    BY <2>2
  <2> HIDE DEF gaps, highest
  <2> QED
    BY <2>1, <2>3, <1>2, <1>3, <1>7 DEF Beats, highest
<1>9. o \in Keeps(tables, b)
  BY <1>7, <1>8 DEF Keeps, Holds
<1> QED
  BY <1>7, <1>8, <1>9

\* The rows a table keeps are those of its first version, unchanged.
LEMMA CanonicalRows ==
    ASSUME NEW tables \in Tables, NEW s \in Sources, tables[s] # NoFile
    PROVE  /\ Canonical(tables, s) # NoFile
           /\ DOMAIN Canonical(tables, s).rows = Keeps(tables, s)
           /\ Keeps(tables, s) \subseteq DOMAIN tables[s].rows
           /\ \A o \in Keeps(tables, s) :
                Canonical(tables, s).rows[o] = tables[s].rows[o]
           /\ Canonical(tables, s).rows = [o \in Keeps(tables, s) |-> tables[s].rows[o]]
BY CanonicalType, NoFileAssumption DEF Canonical, Restrict

\* While a pass is being promoted, every table is its input or what the pass
\* makes of it, so the row that beats a dropped one is still on disk.
LEMMA PromotionKeepsBest ==
    ASSUME IInv, NEW s \in Sources, PromoteParquet(s), parquet' # parquet
    PROVE  /\ parquet[s] # NoFile
           /\ parquet' = [parquet EXCEPT ![s] = Canonical(plan.inputs, s)]
           /\ Canonical(plan.inputs, s) # NoFile
           /\ \E kept \in SUBSET DOMAIN parquet[s].rows :
                /\ Canonical(plan.inputs, s).rows = [o \in kept |-> parquet[s].rows[o]]
                /\ \A o \in DOMAIN parquet[s].rows \ kept :
                    \E b \in Sources : Holds(parquet, b, o) /\ Beats(parquet, b, s, o)
<1> DEFINE T == plan.inputs
<1>0. TypeOK /\ PlanInv /\ PromoteInv
  BY DEF IInv
<1>1. plan \in DedupState /\ Derived(plan) /\ Drifted = {}
  BY <1>0 DEF PromoteParquet, PlanInv, PromoteInv, TypeOK
<1>2. T \in Tables
  BY <1>1 DEF DedupState
<1>3. s \in Affected(plan) /\ parquet' = [parquet EXCEPT ![s] = Canonical(T, s)]
  BY <1>1, PromotedIntact DEF Derived
<1>4. \A t \in Sources : \/ parquet[t] = T[t]
                         \/ T[t] # NoFile /\ parquet[t] = Canonical(T, t)
  BY <1>1 DEF Derived, Drifted, Shrinks
<1>5. T[s] # NoFile
  BY <1>1, <1>3 DEF Derived, Shrinks
<1>6. parquet[s] = T[s]
  BY <1>3, <1>4, <1>0 DEF TypeOK, Tables
<1> DEFINE kept == Keeps(T, s)
<1>7. /\ kept \subseteq DOMAIN parquet[s].rows
      /\ Canonical(T, s) # NoFile
      /\ Canonical(T, s).rows = [o \in kept |-> parquet[s].rows[o]]
  BY <1>2, <1>5, <1>6, CanonicalRows
<1>8. ASSUME NEW o \in DOMAIN parquet[s].rows \ kept
      PROVE  \E b \in Sources : Holds(parquet, b, o) /\ Beats(parquet, b, s, o)
  <2>1. Holds(T, s, o)
    BY <1>5, <1>6 DEF Holds
  <2>2. PICK b \in Sources : /\ Holds(T, b, o) /\ o \in Keeps(T, b)
                             /\ b = s \/ Beats(T, b, s, o)
    BY <2>1, <1>2, BestRow
  <2>3. Beats(T, b, s, o)
    BY <2>2, <1>8
  <2>4. /\ Canonical(T, b) # NoFile
        /\ o \in DOMAIN Canonical(T, b).rows
        /\ Canonical(T, b).rows[o] = T[b].rows[o]
    BY <2>2, <1>2, CanonicalRows DEF Holds
  <2>5. Holds(parquet, b, o) /\ parquet[b].rows[o] = T[b].rows[o]
    BY <2>2, <2>4, <1>4 DEF Holds
  <2> QED
    BY <2>3, <2>5, <1>6 DEF Beats
<1> QED
  BY <1>3, <1>5, <1>6, <1>7, <1>8

\* The extracts and the rows on disk as RegionalTables sees them.
RowsOf(files) == [s \in Sources |-> IF files[s] = NoFile THEN NoFile ELSE files[s].rows]

LEMMA RefinesInit == Init => Regional!Init
<1> SUFFICES ASSUME Init PROVE Regional!Init
  OBVIOUS
<1>1. ASSUME NEW s \in Sources, pbf[s] # NoFile PROVE pbf[s].rows \in Regional!Rows
  BY <1>1, ExtractsAssumption DEF Init, Rows, Regional!Rows
<1> QED
  BY <1>1 DEF Init, Regional!Init

\* Every step rebuilds, drops, announces or leaves the tables as they are.
LEMMA RefinesNext ==
    ASSUME IInv, [Next]_vars
    PROVE  [Regional!Next]_<<RowsOf(pbf), RowsOf(parquet), pc = "ready">>
<1> USE DEF disk, memory, world
<1>0. TypeOK /\ DoneInv /\ TypeOK'
  BY TypeNext DEF IInv
<1>same. ASSUME parquet' = parquet PROVE RowsOf(parquet)' = RowsOf(parquet)
  BY <1>same DEF RowsOf
<1>kept. ASSUME pbf' = pbf PROVE RowsOf(pbf)' = RowsOf(pbf)
  BY <1>kept DEF RowsOf
<1>rows. ASSUME NEW t \in Sources, parquet[t] # NoFile
         PROVE  RowsOf(parquet)[t] = parquet[t].rows /\ parquet[t].rows # NoFile
  BY <1>rows, <1>0, NoFileAssumption DEF RowsOf, TypeOK, Tables, Artifact
<1>1. ASSUME NEW s \in Sources, BuildParquet(s) PROVE Regional!Rebuild(s)
  <2>1. pbf[s].rows \in Rows
    BY <1>1, <1>0, ExtractsAssumption DEF BuildParquet, TypeOK, PbfFile
  <2>2. parquet'[s] # NoFile /\ parquet'[s].rows = pbf[s].rows
    BY <1>1, <1>0, <2>1, NoFileAssumption DEF BuildParquet, TypeOK, Tables, Artifact
  <2>3. RowsOf(parquet') = [RowsOf(parquet) EXCEPT ![s] = pbf[s].rows]
    BY <1>1, <1>0, <2>2 DEF BuildParquet, RowsOf, TypeOK, Tables
  <2>4. pc' # "ready" /\ pbf[s] # NoFile /\ pbf' = pbf
    BY <1>1 DEF BuildParquet
  <2>5. RowsOf(pbf)[s] = pbf[s].rows /\ pbf[s].rows # NoFile
    BY <2>1, <2>4, NoFileAssumption DEF RowsOf
  <2> QED
    BY <2>3, <2>4, <2>5, <1>kept DEF Regional!Rebuild, RowsOf
<1>2. ASSUME NEW s \in Sources, PromoteParquet(s), parquet' # parquet
      PROVE  Regional!DropDuplicates(s)
  <2>1. PICK kept \in SUBSET DOMAIN parquet[s].rows :
            /\ parquet[s] # NoFile
            /\ parquet' = [parquet EXCEPT ![s] = Canonical(plan.inputs, s)]
            /\ Canonical(plan.inputs, s) # NoFile
            /\ Canonical(plan.inputs, s).rows = [o \in kept |-> parquet[s].rows[o]]
            /\ \A o \in DOMAIN parquet[s].rows \ kept :
                \E b \in Sources : Holds(parquet, b, o) /\ Beats(parquet, b, s, o)
    BY <1>2, PromotionKeepsBest
  <2>2. RowsOf(parquet)[s] = parquet[s].rows
    BY <2>1 DEF RowsOf
  <2>3. parquet[s].rows # NoFile
    BY <2>1, <1>rows
  <2>4. RowsOf(parquet') = [RowsOf(parquet) EXCEPT ![s] = [o \in kept |-> parquet[s].rows[o]]]
    BY <2>1, <1>0 DEF RowsOf, TypeOK, Tables
  <2>5. \A o \in DOMAIN parquet[s].rows \ kept :
            \E b \in Sources : Regional!Has(b, o) /\ Regional!Beats(b, s, o)
    <3> SUFFICES ASSUME NEW o \in DOMAIN parquet[s].rows \ kept,
                        NEW b \in Sources,
                        Holds(parquet, b, o), Beats(parquet, b, s, o)
                 PROVE  Regional!Has(b, o) /\ Regional!Beats(b, s, o)
      BY <2>1
    <3>1. parquet[b] # NoFile /\ o \in DOMAIN parquet[b].rows
      BY DEF Holds
    <3>2. RowsOf(parquet)[b] = parquet[b].rows /\ parquet[b].rows # NoFile
      BY <3>1, <1>rows
    <3> QED
      BY <3>1, <3>2, <2>2 DEF Beats, Regional!Has, Regional!Beats, RowsOf
  <2>6. pc' # "ready" /\ pbf' = pbf
    BY <1>2 DEF PromoteParquet
  <2> QED
    <3>1. RowsOf(pbf)' = RowsOf(pbf)
      BY <2>6, <1>kept
    <3>2. RowsOf(parquet)[s] # NoFile
      BY <2>2, <2>3
    <3>3. /\ kept \in SUBSET DOMAIN RowsOf(parquet)[s]
          /\ RowsOf(parquet)' =
                [RowsOf(parquet) EXCEPT ![s] = [o \in kept |-> RowsOf(parquet)[s][o]]]
          /\ \A o \in DOMAIN RowsOf(parquet)[s] \ kept :
                \E b \in Sources : Regional!Has(b, o) /\ Regional!Beats(b, s, o)
      <4>1. RowsOf(parquet)' = RowsOf(parquet')
        BY DEF RowsOf
      <4> QED
        BY <2>2, <2>4, <2>5, <4>1
    <3> QED
      BY <2>6, <3>1, <3>2, <3>3 DEF Regional!DropDuplicates, RowsOf
<1>3. CASE Verify /\ pc = "reverify"
  <2>1. DuplicateFree(parquet)
    BY <1>3, <1>0 DEF DoneInv
  <2>2. ASSUME NEW s \in Sources, NEW o \in Objects, Regional!Has(s, o)
        PROVE  Holds(parquet, s, o)
    BY <2>2, <1>rows DEF Regional!Has, Holds, RowsOf
  <2>3. Regional!Unique
    BY <2>1, <2>2 DEF DuplicateFree, Regional!Unique
  <2>4. pc' = "ready" /\ parquet' = parquet /\ pbf' = pbf
    BY <1>3 DEF Verify
  <2> QED
    BY <2>3, <2>4, <1>same, <1>kept
       DEF Regional!Next, Regional!Announce, RowsOf
<1>4. CASE pc = "ready" /\ pc' # "ready" /\ parquet' = parquet /\ pbf' = pbf
  BY <1>4, <1>same, <1>kept
     DEF Regional!Next, Regional!Withdraw, RowsOf
<1>5. CASE parquet' = parquet /\ pbf' = pbf /\ (pc = "ready" <=> pc' = "ready")
  BY <1>5, <1>same, <1>kept
<1>6. ASSUME NEW s \in Sources, ChangePbf(s) PROVE Regional!Replace(s)
  <2>1. parquet' = parquet /\ pc' = pc
    BY <1>6 DEF ChangePbf
  <2>2. PICK f : /\ pbf' = [pbf EXCEPT ![s] = f]
                 /\ f = NoFile \/ (f # NoFile /\ f.rows \in Rows)
    <3>1. ASSUME NEW e \in Extracts
          PROVE  LET f == [rows |-> e, stamp |-> changes + 1]
                 IN  f # NoFile /\ f.rows \in Rows
      <4>1. changes + 1 \in Nat /\ e \in Rows
        BY <1>0, ExtractsAssumption, BoundsAssumption DEF TypeOK
      <4> QED
        BY <4>1, NoFileAssumption DEF PbfFile
    <3> QED
      BY <1>6, <3>1 DEF ChangePbf
  <2>3. RowsOf(pbf') =
            [RowsOf(pbf) EXCEPT ![s] = IF f = NoFile THEN NoFile ELSE f.rows]
    BY <2>2, <1>0 DEF RowsOf, TypeOK
  <2> QED
    BY <2>1, <2>2, <2>3, <1>same
       DEF Regional!Replace, Rows, Regional!Rows, RowsOf
<1> QED
  BY <1>1, <1>2, <1>3, <1>4, <1>5, <1>6
     DEF Next, RunStep, BuildStep, PromoteStep, Start, Reuse, WriteManifest,
         SourceVanished, BuildDone, Verify, VerifyFails, Sweep, SkipDedup,
         StageChanges, RecordState, RecordFails, DriftCheck, DriftRefused,
         PromoteParquet, PromotionFails, PromoteManifest, WriteComplete,
         RemoveStage, HandOver, ChangePbf, Crash, Stop, vars, Regional!Next

\* The staged, resumable, interruptible pass over files does what the
\* abstract tables do: rows leave only as duplicates of better rows that
\* stay, and what is announced holds no object twice.
THEOREM Refinement == Spec => ImplementsTables
<1>1. IInv /\ [Next]_vars => 
        [Regional!Next]_<<RowsOf(pbf), RowsOf(parquet), pc = "ready">>
  BY RefinesNext
<1> QED
  BY <1>1, RefinesInit, Inductive, PTL DEF Spec, ImplementsTables, Regional!Spec, RowsOf

-----------------------------------------------------------------------------
(* Canonical rows of extracts that stay as they are.  Keeps and Holds apply *)
(* to extracts as well as to tables: Keeps(pbf, s) are the objects whose    *)
(* canonical row is in the extract of s.                                    *)

\* Every table is its extract without rows that are better elsewhere.
FromExtracts(extracts, tables) ==
    \A s \in Sources : tables[s] # NoFile =>
        /\ extracts[s] # NoFile
        /\ DOMAIN tables[s].rows \subseteq DOMAIN extracts[s].rows
        /\ Keeps(extracts, s) \subseteq DOMAIN tables[s].rows
        /\ \A o \in DOMAIN tables[s].rows : tables[s].rows[o] = extracts[s].rows[o]

\* What holds as long as no extract was replaced.
Faithful ==
    /\ FromExtracts(pbf, parquet)
    /\ dedup # NoFile => FromExtracts(pbf, dedup.inputs)
    /\ plan # NoFile => FromExtracts(pbf, plan.inputs)
    /\ pc # "idle" => sources = {s \in Sources : pbf[s] # NoFile}
    /\ pc = "ready" => \A s \in sources : parquet[s] # NoFile

\* A pass over such tables keeps them so: what beats a row in a table beats
\* it in the extracts.
LEMMA CanonicalFromExtracts ==
    ASSUME NEW extracts, NEW tables \in Tables, FromExtracts(extracts, tables),
           NEW s \in Sources, tables[s] # NoFile
    PROVE  /\ extracts[s] # NoFile
           /\ DOMAIN Canonical(tables, s).rows \subseteq DOMAIN extracts[s].rows
           /\ Keeps(extracts, s) \subseteq DOMAIN Canonical(tables, s).rows
           /\ \A o \in DOMAIN Canonical(tables, s).rows :
                Canonical(tables, s).rows[o] = extracts[s].rows[o]
<1>1. /\ DOMAIN Canonical(tables, s).rows = Keeps(tables, s)
      /\ Keeps(tables, s) \subseteq DOMAIN tables[s].rows
      /\ \A o \in Keeps(tables, s) : Canonical(tables, s).rows[o] = tables[s].rows[o]
  BY CanonicalRows
<1>2. ASSUME NEW o \in Keeps(extracts, s) PROVE o \in Keeps(tables, s)
  <2>1. o \in DOMAIN tables[s].rows /\ tables[s].rows[o] = extracts[s].rows[o]
    BY DEF FromExtracts
  <2>2. ASSUME NEW t \in Sources \ {s}, Holds(tables, t, o)
        PROVE  Beats(tables, s, t, o)
    <3>1. Holds(extracts, t, o) /\ tables[t].rows[o] = extracts[t].rows[o]
      BY <2>2 DEF FromExtracts, Holds
    <3>2. Beats(extracts, s, t, o)
      BY <3>1 DEF Keeps
    <3> QED
      BY <2>1, <3>1, <3>2 DEF Beats
  <2> QED
    BY <2>1, <2>2 DEF Keeps
<1> QED
  BY <1>1, <1>2 DEF FromExtracts

\* Every step but the replacement of an extract keeps the tables faithful.
LEMMA FaithfulNext ==
    ASSUME IInv, Faithful, [Next]_vars, UNCHANGED pbf
    PROVE  Faithful'
<1> USE DEF disk, memory, world
<1>0. TypeOK /\ PlanInv
  BY DEF IInv
<1>3. CASE Start
  BY <1>3 DEF Start, Faithful
<1>4. ASSUME NEW s \in Sources, BuildParquet(s) PROVE Faithful'
  <2>1. pbf[s] # NoFile /\ parquet' = [parquet EXCEPT ![s] = [rows |-> pbf[s].rows, form |-> "built"]]
    BY <1>4 DEF BuildParquet
  <2>2. Keeps(pbf, s) \subseteq DOMAIN pbf[s].rows
    BY DEF Keeps
  <2>3. FromExtracts(pbf, parquet')
    BY <2>1, <2>2, <1>0 DEF Faithful, FromExtracts, TypeOK, Tables
  <2> QED
    BY <2>3, <1>4 DEF BuildParquet, Faithful
<1>5. CASE Verify
  <2>1. \A s \in sources : parquet[s] # NoFile
    BY <1>5 DEF Verify, Complete, Resumable
  <2> QED
    BY <2>1, <1>5 DEF Verify, Faithful
<1>6. CASE Sweep
  BY <1>6 DEF Sweep, StateIsStaged, Faithful
<1>7. CASE StageChanges
  <2>1. plan'.inputs = parquet
    BY <1>7, StagedDerived
  <2> QED
    BY <2>1, <1>7 DEF StageChanges, Faithful
<1>8. CASE RecordState
  BY <1>0, <1>8 DEF RecordState, Faithful, PlanInv
<1>9. CASE RecordFails
  <2>1. /\ UNCHANGED parquet /\ pc' = "idle" /\ plan' = NoFile
        /\ dedup' \in {dedup, plan} /\ pc = "record"
    BY <1>9 DEF RecordFails, Stop
  <2> QED
    BY <1>0, <2>1 DEF Faithful, PlanInv
<1>10. ASSUME NEW s \in Sources, PromoteParquet(s) PROVE Faithful'
  <2>1. /\ pc = "promote" /\ plan \in DedupState /\ plan # NoFile /\ Derived(plan)
        /\ s \in Affected(plan) /\ parquet' = [parquet EXCEPT ![s] = plan.files[s].parquet]
    BY <1>0, <1>10, PromotedIntact DEF PromoteParquet, PlanInv, TypeOK
  <2>2. /\ plan.inputs \in Tables /\ plan.inputs[s] # NoFile
        /\ plan.files[s].parquet = Canonical(plan.inputs, s)
    BY <2>1 DEF DedupState, Derived, Shrinks
  <2>3. FromExtracts(pbf, plan.inputs)
    BY <2>1 DEF Faithful
  <2>4. FromExtracts(pbf, parquet')
    <3> DEFINE moved == Canonical(plan.inputs, s)
    <3>1. /\ pbf[s] # NoFile
          /\ DOMAIN moved.rows \subseteq DOMAIN pbf[s].rows
          /\ Keeps(pbf, s) \subseteq DOMAIN moved.rows
          /\ \A o \in DOMAIN moved.rows : moved.rows[o] = pbf[s].rows[o]
      BY <2>2, <2>3, CanonicalFromExtracts
    <3>2. parquet'[s] = moved /\ \A t \in Sources \ {s} : parquet'[t] = parquet[t]
      BY <2>1, <2>2, <1>0 DEF TypeOK, Tables
    <3>3. FromExtracts(pbf, parquet)
      BY DEF Faithful
    <3> HIDE DEF moved
    <3> SUFFICES ASSUME NEW t \in Sources, parquet'[t] # NoFile
                 PROVE  /\ pbf[t] # NoFile
                        /\ DOMAIN parquet'[t].rows \subseteq DOMAIN pbf[t].rows
                        /\ Keeps(pbf, t) \subseteq DOMAIN parquet'[t].rows
                        /\ \A o \in DOMAIN parquet'[t].rows :
                              parquet'[t].rows[o] = pbf[t].rows[o]
      BY DEF FromExtracts
    <3>4. CASE t = s
      BY <3>1, <3>2, <3>4
    <3>5. CASE t # s
      BY <3>2, <3>3, <3>5 DEF FromExtracts
    <3> QED BY <3>4, <3>5
  <2> QED
    BY <2>4, <1>10 DEF PromoteParquet, Faithful
<1>11. CASE WriteComplete
  <2>1. plan # NoFile /\ plan \in DedupState
    BY <1>0, <1>11 DEF WriteComplete, PlanInv, TypeOK
  <2>2. dedup'.inputs = plan.inputs
    BY <2>1, <1>11 DEF WriteComplete, DedupState
  <2> QED
    BY <2>1, <2>2, <1>11 DEF WriteComplete, Faithful
<1>12. CASE /\ UNCHANGED <<parquet, dedup>>
            /\ plan' \in {plan, NoFile}
            /\ pc' = "idle" \/ (pc # "idle" /\ sources' = sources)
            /\ pc' = "ready" => pc = "ready"
  BY <1>12 DEF Faithful
<1> QED
  BY <1>3, <1>4, <1>5, <1>6, <1>7, <1>8, <1>9, <1>10, <1>11, <1>12
     DEF Next, RunStep, BuildStep, PromoteStep, Reuse, WriteManifest,
         SourceVanished, BuildDone, VerifyFails, SkipDedup, DriftCheck,
         DriftRefused, PromotionFails, PromoteManifest, RemoveStage, HandOver,
         ChangePbf, Crash, Stop, vars

LEMMA ExtractsReplaced ==
    ASSUME TypeOK, [Next]_vars
    PROVE  UNCHANGED <<pbf, changes>> \/ changes' # 0
<1>1. ASSUME NEW s \in Sources, ChangePbf(s) PROVE changes' # 0
  BY <1>1, BoundsAssumption DEF ChangePbf, TypeOK
<1>2. RecordFails => UNCHANGED <<pbf, changes>>
  BY DEF RecordFails
<1> QED
  BY <1>1, <1>2
     DEF Next, RunStep, BuildStep, PromoteStep, Start, Reuse, BuildParquet,
         WriteManifest, SourceVanished, BuildDone, Verify, VerifyFails, Sweep,
         SkipDedup, StageChanges, RecordState, DriftCheck,
         DriftRefused, PromoteParquet, PromotionFails, PromoteManifest,
         WriteComplete, RemoveStage, HandOver, Crash, vars, disk, world

\* Kills and failed state writes alone never cost a canonical row: each
\* object of extracts that stay as they are is published from the extract
\* that holds its best row.
THEOREM CanonicalKept == Spec => []UnchangedKeepsCanonicalRow
<1>1. Init => Faithful
  BY DEF Init, Faithful, FromExtracts
<1>2. TypeOK /\ (changes = 0 => Faithful) => UnchangedKeepsCanonicalRow
  <2> SUFFICES ASSUME TypeOK, Faithful, pc = "ready",
                      NEW s \in sources, NEW o \in DOMAIN pbf[s].rows,
                      \A t \in sources \ {s} :
                        o \in DOMAIN pbf[t].rows =>
                            \/ pbf[t].rows[o] < pbf[s].rows[o]
                            \/ pbf[t].rows[o] = pbf[s].rows[o] /\ s < t
               PROVE  /\ o \in DOMAIN parquet[s].rows
                      /\ parquet[s].rows[o] = pbf[s].rows[o]
    BY DEF UnchangedKeepsCanonicalRow, CanonicalRowKept
  <2>1. /\ FromExtracts(pbf, parquet)
        /\ sources = {t \in Sources : pbf[t] # NoFile}
        /\ s \in Sources /\ parquet[s] # NoFile
    BY DEF Faithful
  <2>2. ASSUME NEW t \in Sources \ {s}, Holds(pbf, t, o) PROVE Beats(pbf, s, t, o)
    <3>1. t \in sources /\ s \in sources /\ o \in DOMAIN pbf[t].rows
      BY <2>1, <2>2 DEF Holds
    <3>2. pbf[t].rows[o] \in Nat /\ pbf[s].rows[o] \in Nat
      <4>1. ASSUME NEW u \in sources, o \in DOMAIN pbf[u].rows PROVE pbf[u].rows[o] \in Nat
        <5>1. pbf[u].rows \in Rows
          BY <2>1, ExtractsAssumption DEF TypeOK, PbfFile
        <5>2. PICK D \in SUBSET Objects : pbf[u].rows \in [D -> Ranks]
          BY <5>1 DEF Rows
        <5> QED
          BY <4>1, <5>2, RanksAssumption
      <4> QED
        BY <3>1, <4>1
    <3> QED
      BY <3>1, <3>2 DEF Beats
  <2>3. o \in Keeps(pbf, s)
    BY <2>2 DEF Keeps
  <2> QED
    BY <2>1, <2>3 DEF FromExtracts
<1>3. IInv => TypeOK
  BY DEF IInv
<1>4. IInv /\ (changes = 0 => Faithful) /\ [Next]_vars => (changes = 0 => Faithful)'
  BY <1>3, FaithfulNext, ExtractsReplaced
<1> QED
  BY <1>1, <1>2, <1>3, <1>4, Inductive, PTL DEF Spec

-----------------------------------------------------------------------------
(* Counts *)

\* The rows of a pair and the duplicates it counts are the rows of its extract.
Accounted(m) ==
    Cardinality(DOMAIN m.output.rows) + m.duplicates = Cardinality(DOMAIN m.source.rows)

\* Promoted or still to be promoted, every manifest accounts for its rows.
CountInv ==
    /\ \A s \in Sources : manifest[s] # NoFile => Accounted(manifest[s])
    /\ dedup # NoFile => \A s \in Affected(dedup) : Accounted(dedup.files[s].manifest)
    /\ plan # NoFile => \A s \in Affected(plan) : Accounted(plan.files[s].manifest)
    /\ pc = "manifest" =>
        \A s \in Sources : First(s) /\ pbf[s] # NoFile => parquet[s].rows = pbf[s].rows
    /\ pc = "ready" =>
        \A s \in Present : manifest[s] # NoFile /\ manifest[s].output = parquet[s]

\* The rows a pass drops are the rows it adds to the duplicates.
LEMMA RewrittenAccounted ==
    ASSUME NEW tables \in Tables, NEW s \in Sources, tables[s] # NoFile,
           NEW m \in Manifest, m.output = tables[s], Accounted(m)
    PROVE  Accounted(Rewritten(m, tables, s))
<1> DEFINE all == DOMAIN tables[s].rows
           dropped == all \ Keeps(tables, s)
<1>1. /\ Keeps(tables, s) \subseteq all /\ all \subseteq Objects
      /\ DOMAIN Canonical(tables, s).rows = Keeps(tables, s)
  BY CanonicalType, CanonicalRows
<1>2. IsFiniteSet(all) /\ IsFiniteSet(Keeps(tables, s)) /\ Cardinality(all) \in Nat
      /\ Cardinality(Keeps(tables, s)) \in Nat
  BY <1>1, ObjectsAssumption, FS_Subset, FS_CardinalityType
<1>3. Cardinality(dropped) = Cardinality(all) - Cardinality(Keeps(tables, s))
  <2>1. all \cap Keeps(tables, s) = Keeps(tables, s)
    BY <1>1
  <2> QED
    BY <1>2, <2>1, FS_Difference
<1> HIDE DEF all, dropped
<1>4. /\ Rewritten(m, tables, s).output = Canonical(tables, s)
      /\ Rewritten(m, tables, s).duplicates = m.duplicates + Cardinality(dropped)
      /\ Rewritten(m, tables, s).source = m.source
  BY DEF Rewritten, Manifest, dropped, all
<1>5. Cardinality(all) + m.duplicates = Cardinality(DOMAIN m.source.rows)
  BY DEF Accounted, all
<1>6. m.duplicates \in Nat
  BY DEF Manifest
<1> QED
  BY <1>1, <1>2, <1>3, <1>4, <1>5, <1>6 DEF Accounted

LEMMA StagedAccounted ==
    ASSUME IInv, CountInv, StageChanges
    PROVE  \A s \in Affected(plan') : Accounted(plan'.files[s].manifest)
<1>0. TypeOK
  BY DEF IInv
<1>1. plan'.files = StagedEntries(parquet)
  BY DEF StageChanges
<1> SUFFICES ASSUME NEW s \in Sources, StagedEntries(parquet)[s] # NoFile
             PROVE  Accounted(StagedEntries(parquet)[s].manifest)
  BY <1>1 DEF Affected
<1>2. /\ Shrinks(parquet, s)
      /\ StagedEntries(parquet)[s].manifest = Rewritten(manifest[s], parquet, s)
  BY DEF StagedEntries
<1>3. /\ parquet[s] # NoFile /\ manifest[s] # NoFile
      /\ manifest[s].output = parquet[s]
  BY <1>2 DEF Shrinks, StageChanges, Validated, Present
<1>4. parquet \in Tables /\ manifest[s] \in Manifest /\ Accounted(manifest[s])
  BY <1>0, <1>3 DEF TypeOK, CountInv
<1> QED
  BY <1>2, <1>3, <1>4, RewrittenAccounted

LEMMA CountNext ==
    ASSUME IInv, CountInv, [Next]_vars, "manifest" \notin ChangePoints
    PROVE  CountInv'
<1> USE DEF disk, memory, world
<1>0. TypeOK /\ StateInv /\ PlanInv /\ PromoteInv
  BY DEF IInv
<1>1. ASSUME NEW s \in Sources, BuildParquet(s) PROVE CountInv'
  <2>1. \A t \in Sources : First(t) => t = s
    BY <1>1, <1>0, SourcesAssumption DEF BuildParquet, First, TypeOK
  <2>2. parquet'[s].rows = pbf[s].rows
    BY <1>1, <1>0 DEF BuildParquet, TypeOK, Tables
  <2> QED
    BY <1>1, <2>1, <2>2 DEF BuildParquet, CountInv, Affected, First
<1>2. ASSUME NEW s \in Sources, WriteManifest(s) PROVE CountInv'
  <2> DEFINE m == [source |-> pbf[s], output |-> parquet[s], duplicates |-> 0]
  <2>1. parquet[s].rows = pbf[s].rows /\ pbf[s] \in PbfFile
    BY <1>2, <1>0 DEF WriteManifest, CountInv, TypeOK
  <2>2. DOMAIN pbf[s].rows \subseteq Objects
    <3>1. pbf[s].rows \in Rows
      BY <2>1, ExtractsAssumption DEF PbfFile
    <3> QED
      BY <3>1 DEF Rows
  <2>3. Cardinality(DOMAIN pbf[s].rows) \in Nat
    BY <2>2, ObjectsAssumption, FS_Subset, FS_CardinalityType
  <2>4. Accounted(m)
    BY <2>1, <2>3 DEF Accounted
  <2> HIDE DEF m
  <2>5. manifest' = [manifest EXCEPT ![s] = m] /\ pc' = "build"
    BY <1>2 DEF WriteManifest, m
  <2>6. \A t \in Sources : manifest'[t] # NoFile => Accounted(manifest'[t])
    BY <2>4, <2>5, <1>0 DEF CountInv, TypeOK
  <2> QED
    BY <1>2, <2>5, <2>6 DEF WriteManifest, CountInv, Affected
<1>3. CASE Verify
  <2>1. \A s \in Present : Resumable(s)
    BY <1>3 DEF Verify, Complete
  <2> QED
    BY <1>3, <2>1 DEF Verify, CountInv, Affected, Present, Resumable
<1>4. CASE Sweep
  BY <1>4 DEF Sweep, CountInv, StateIsStaged, Affected
<1>5. CASE StageChanges
  <2>1. \A s \in Affected(plan)' : Accounted(plan'.files[s].manifest)
    BY <1>5, StagedAccounted DEF Affected
  <2> QED
    BY <1>5, <2>1 DEF StageChanges, CountInv, Affected
<1>6. CASE RecordState
  BY <1>0, <1>6 DEF RecordState, CountInv, PlanInv, Affected
<1>7. CASE RecordFails
  <2>1. /\ UNCHANGED <<manifest, parquet>> /\ pc' = "idle" /\ plan' = NoFile
        /\ dedup' \in {dedup, plan} /\ pc = "record"
    BY <1>7 DEF RecordFails, Stop
  <2> QED
    BY <1>0, <2>1 DEF CountInv, PlanInv, Affected
<1>8. ASSUME NEW s \in Sources, PromoteParquet(s) PROVE CountInv'
  BY <1>8 DEF PromoteParquet, CountInv, Affected
<1>9. ASSUME NEW s \in Sources, PromoteManifest(s) PROVE CountInv'
  <2>1. /\ dedup = plan /\ plan # NoFile /\ plan \in DedupState /\ Intact(dedup)
        /\ s \in Affected(plan)
    BY <1>0, <1>9, PromotedIntact DEF PromoteManifest, PlanInv, StateInv, TypeOK
  <2>2. stage[plan.stage][s].manifest \in {plan.files[s].manifest, NoFile}
    BY <2>1 DEF Intact
  <2>3. manifest' = manifest \/ manifest' = [manifest EXCEPT ![s] = plan.files[s].manifest]
    BY <1>9, <2>2 DEF PromoteManifest
  <2>4. Accounted(plan.files[s].manifest)
    BY <2>1 DEF CountInv
  <2>5. \A t \in Sources : manifest'[t] # NoFile => Accounted(manifest'[t])
    BY <2>3, <2>4, <1>0 DEF CountInv, TypeOK
  <2> QED
    BY <1>9, <2>5 DEF PromoteManifest, CountInv, Affected
<1>10. CASE WriteComplete
  <2>1. plan # NoFile /\ plan \in DedupState
    BY <1>0, <1>10 DEF WriteComplete, PlanInv, TypeOK
  <2>2. dedup'.files = plan.files
    BY <2>1, <1>10 DEF WriteComplete, DedupState
  <2> QED
    BY <2>1, <2>2, <1>10 DEF WriteComplete, CountInv, Affected
<1>11. CASE /\ UNCHANGED <<parquet, manifest, dedup>>
            /\ plan' \in {plan, NoFile}
            /\ pc' # "manifest"
            /\ pc' = "ready" => pc = "ready"
  BY <1>11 DEF CountInv, Affected, Present
<1>12. ASSUME NEW s \in Sources, ChangePbf(s) PROVE CountInv'
  BY <1>12 DEF ChangePbf, CountInv, Affected, Present
<1>13. CASE UNCHANGED vars
  BY <1>13 DEF vars, CountInv, Affected, Present, First
<1>14. CASE BuildDone
  BY <1>14 DEF BuildDone, CountInv, Affected, Present
<1> QED
  BY <1>1, <1>2, <1>3, <1>4, <1>5, <1>6, <1>7, <1>8, <1>9, <1>10, <1>11, <1>12,
     <1>13, <1>14
     DEF Next, RunStep, BuildStep, PromoteStep, Start, Reuse, SourceVanished,
         VerifyFails, SkipDedup, DriftCheck, DriftRefused, PromotionFails,
         RemoveStage, HandOver, Crash, Stop

\* If an extract is not replaced between the two halves of its build, what a
\* pair lacks of its extract it counts as duplicates, over any number of
\* passes, resumed promotions and rebuilds.
THEOREM RowsCounted ==
    ASSUME "manifest" \notin ChangePoints
    PROVE  Spec => []RowsAccountedFor
<1>1. Init => CountInv
  BY DEF Init, CountInv
<1>2. CountInv => RowsAccountedFor
  BY DEF CountInv, RowsAccountedFor, Accounted, Present
<1>3. IInv /\ CountInv /\ [Next]_vars => CountInv'
  BY CountNext
<1> QED
  BY <1>1, <1>2, <1>3, Inductive, PTL DEF Spec
=============================================================================
