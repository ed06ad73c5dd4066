--------------------------- MODULE LanguageWorker ---------------------------
(***************************************************************************)
(* One shard of a language run in one run directory: `language run` reads  *)
(* the shard's Parquet batch by batch and commits each batch as a part, a  *)
(* receipt and a checkpoint; `language grid prepare` and `stage` write the *)
(* first checkpoint and move what no checkpoint lists to quarantine/.  Any *)
(* of them may be killed between two writes or in the middle of one.       *)
(*                                                                         *)
(* Abstractions.  A part is the set of rows it annotates, and its sha256   *)
(* is the part; a row carries one description or none.  Row counts of      *)
(* parts and checkpoints follow from the sets.  Snapshot, detector and     *)
(* shard name never differ: only batch sizes do.  All commands hold the    *)
(* worker lock of the run directory while they touch it, so one process is *)
(* modelled; a second one is refused and changes nothing.                  *)
(***************************************************************************)
EXTENDS Naturals, FiniteSets

CONSTANTS
    Rows,       \* how many input rows the shard has
    Boundaries, \* offsets at which its row groups begin
    Described,  \* the rows that carry a description
    BatchSizes, \* batch sizes an operator may ask for
    NoFile,     \* a path where nothing is
    MaxFaults   \* bound: how often a process is killed

Offsets == {r \in 0..Rows : r < Rows}
Part == [rows : SUBSET Described]
Receipt == [start : Offsets, end : 0..Rows, sha : Part]
Checkpoint == [batch : BatchSizes, cursor : 0..Rows, parts : SUBSET Offsets]
Kinds == {"parts", "receipts"}

ASSUME RowsAssumption == Rows \in Nat
ASSUME BoundariesAssumption ==
    Boundaries \subseteq 0..Rows /\ (Rows > 0 => 0 \in Boundaries)
ASSUME DescribedAssumption == Described \subseteq Offsets
ASSUME BatchSizesAssumption == BatchSizes \subseteq Nat \ {0}
ASSUME FaultsAssumption == MaxFaults \in Nat
ASSUME NoFileAssumption ==
    NoFile \notin Part /\ NoFile \notin Receipt /\ NoFile \notin Checkpoint

VARIABLES
    part,           \* parts/: per offset the part of that name
    receipt,        \* receipts/: per offset the receipt of that part
    checkpoint,     \* checkpoint.json
    quarantined,    \* quarantine/parts and quarantine/receipts: offsets
    made,           \* which of the directories parts/ and receipts/ exist
    debris,         \* directories that hold an abandoned temporary file
    pc,             \* where the process that holds the lock is
    batch,          \* memory: the batch size asked for
    cursor,         \* memory: rows committed
    listed,         \* memory: completed_parts
    position,       \* memory: offset of the next batch of the stream
    result,         \* how the last command ended
    faults          \* how often a process was killed

disk == <<part, receipt, checkpoint, quarantined, made, debris>>
memory == <<batch, cursor, listed, position>>
vars == <<disk, memory, pc, result, faults>>

Points == {"idle", "resume", "batch", "receipt", "checkpoint", "final",
           "quarantine", "move", "initialize"}
Results == {"none", "paused", "complete", "quarantined", "initialized",
            "another batch size", "unusable", "orphans refused", "no checkpoint"}

-----------------------------------------------------------------------------
(* Batches *)

\* Offsets of the batches of size b in a stream that begins at `from`.
Grid(b, from) == {from + i * b : i \in 0..Rows}

\* Mutants: any row group will do; committed batches are read again.
StartGroup_Unaligned(start, b) ==
    CHOOSE o \in {g \in Boundaries : g <= start} :
        \A g \in Boundaries : g <= start => g <= o

\* _starting_row_groups: the last row group before `start` on the batch grid.
StartGroup(start, b) ==
    CHOOSE o \in {g \in Boundaries : g <= start /\ g \in Grid(b, 0)} :
        \A g \in Boundaries : g <= start /\ g \in Grid(b, 0) => g <= o

\* Mutant: batches before the cursor are not skipped.
FirstBatch_Rereads(start, b) ==
    IF start >= Rows THEN Rows ELSE StartGroup(start, b)

\* _iter_input_batches: the first batch of that stream at or after `start`.
FirstBatch(start, b) ==
    IF start >= Rows
    THEN Rows
    ELSE LET grid == Grid(b, StartGroup(start, b))
         IN  CHOOSE o \in grid :
                o >= start /\ \A p \in grid : p >= start => o <= p

\* Mutant: the last batch is not shorter than the others.
BatchEnd_Uncapped(start, b) == start + b

BatchEnd(start, b) == IF start + b < Rows THEN start + b ELSE Rows

\* _batch_annotations: the described rows of a batch.
Annotations(start, end) == [rows |-> {r \in Described : start <= r /\ r < end}]

-----------------------------------------------------------------------------
(* State on disk *)

\* ShardCheckpoint.__post_init__, on every write and every read.
ValidCheckpoint(c) ==
    /\ c.cursor < Rows => c.cursor \in Grid(c.batch, 0)
    /\ c.parts = {o \in Grid(c.batch, 0) : o < c.cursor}

\* validate_receipt_chain: a receipt per part, contiguous up to the cursor.
ReceiptChain(c) ==
    \A o \in c.parts :
        /\ receipt[o] # NoFile
        /\ receipt[o].start = o
        /\ receipt[o].end = IF o + c.batch < c.cursor THEN o + c.batch ELSE c.cursor

\* _committed_annotation_identities: parts as their receipts say, no row
\* annotated twice.
Trusted(c) ==
    /\ ReceiptChain(c)
    /\ \A o \in c.parts : part[o] # NoFile /\ receipt[o].sha = part[o]
    /\ \A o, p \in c.parts : o # p => part[o].rows \cap part[p].rows = {}

IsComplete(c) == c.cursor = Rows

\* Mutant: receipts are forgotten.
Orphans_PartsOnly(kind) ==
    {o \in Offsets : kind = "parts" /\ part[o] # NoFile /\ o \notin checkpoint.parts}

\* _orphan_artifacts: generated names that the checkpoint does not list.
Orphans(kind) ==
    {o \in Offsets :
        /\ o \notin checkpoint.parts
        /\ IF kind = "parts" THEN part[o] # NoFile ELSE receipt[o] # NoFile}

\* _unlisted: files of a directory that the checkpoint does not account for.
Unlisted(files) == {o \in Offsets : files[o] # NoFile} \ checkpoint.parts

\* validate_run on this shard: the report has no issue.
Validates ==
    /\ checkpoint # NoFile
    /\ ValidCheckpoint(checkpoint)
    /\ Trusted(checkpoint)
    /\ Unlisted(part) = {} /\ Unlisted(receipt) = {}
    /\ debris \cap Kinds = {}

\* Asked before there is a checkpoint: nothing is in quarantine/ then.
RootHasChildren == made # {} \/ debris # {}

\* The process ends and gives up the lock.
End(how) ==
    /\ pc' = "idle"
    /\ result' = how

-----------------------------------------------------------------------------
Init ==
    /\ part = [o \in Offsets |-> NoFile]
    /\ receipt = [o \in Offsets |-> NoFile]
    /\ checkpoint = NoFile
    /\ quarantined = [kind \in Kinds |-> {}]
    /\ made = {}
    /\ debris = {}
    /\ pc = "idle"
    /\ batch \in BatchSizes
    /\ cursor = 0
    /\ listed = {}
    /\ position = 0
    /\ result = "none"
    /\ faults = 0

\* A command starts and takes the lock: handle_run, quarantine_orphan_artifacts
\* or initialize_shard_checkpoint.
Begin(b, entry) ==
    /\ pc = "idle"
    /\ pc' = entry
    /\ batch' = b
    /\ result' = "none"
    /\ UNCHANGED <<disk, cursor, listed, position, faults>>

\* _resume_state of a shard without a checkpoint.
ResumeFresh ==
    /\ pc = "resume"
    /\ checkpoint = NoFile
    /\ cursor' = 0
    /\ listed' = {}
    /\ position' = FirstBatch(0, batch)
    /\ pc' = "batch"
    /\ UNCHANGED <<disk, batch, result, faults>>

\* Mutant: any batch size will do.
SameGrid_Any == TRUE

\* The batch size is fixed once a part is committed.
SameGrid == checkpoint.parts # {} => checkpoint.batch = batch

Resume ==
    /\ pc = "resume"
    /\ checkpoint # NoFile
    /\ ValidCheckpoint(checkpoint) /\ SameGrid /\ Trusted(checkpoint)
    /\ ~IsComplete(checkpoint)
    /\ cursor' = checkpoint.cursor
    /\ listed' = checkpoint.parts
    /\ position' = FirstBatch(checkpoint.cursor, batch)
    /\ pc' = "batch"
    /\ UNCHANGED <<disk, batch, result, faults>>

ResumeComplete ==
    /\ pc = "resume"
    /\ checkpoint # NoFile
    /\ ValidCheckpoint(checkpoint) /\ SameGrid /\ Trusted(checkpoint)
    /\ IsComplete(checkpoint)
    /\ End("complete")
    /\ UNCHANGED <<disk, memory, faults>>

ResumeRefused ==
    /\ pc = "resume"
    /\ checkpoint # NoFile
    /\ \/ ValidCheckpoint(checkpoint) /\ ~SameGrid /\ End("another batch size")
       \/ ~ValidCheckpoint(checkpoint) /\ End("unusable")
       \/ /\ ValidCheckpoint(checkpoint) /\ SameGrid /\ ~Trusted(checkpoint)
          /\ End("unusable")
    /\ UNCHANGED <<disk, memory, faults>>

Batch == Annotations(position, BatchEnd(position, batch))

Seen == UNION {part[o].rows : o \in listed}

\* The batch is spent or the budget is, before or after inference: what was
\* computed is dropped.
StopReading ==
    /\ pc = "batch"
    /\ pc' = "final"
    /\ UNCHANGED <<disk, memory, result, faults>>

\* Mutant: a part that is already there is adopted.
NewPart_Adopts == IF part[position] # NoFile THEN part[position] ELSE Batch

\* write_annotation_part replaces what has the name.
NewPart == Batch

Refuse ==
    /\ End("unusable")
    /\ UNCHANGED <<disk, memory, faults>>

\* _commit_batch, first write, unless a row was annotated before.  The name
\* comes from the row offset.
WritePart ==
    /\ pc = "batch"
    /\ position < Rows
    /\ \/ /\ Batch.rows \cap Seen = {}
          /\ part' = [part EXCEPT ![position] = NewPart]
          /\ made' = made \cup {"parts"}
          /\ pc' = "receipt"
          /\ UNCHANGED <<receipt, checkpoint, quarantined, debris, memory, result,
                         faults>>
       \/ Batch.rows \cap Seen # {} /\ Refuse

\* _commit_batch, second write: the hash is read back from the part.
WriteReceipt ==
    /\ pc = "receipt"
    /\ receipt' = [receipt EXCEPT ![position] =
                    [start |-> position, end |-> BatchEnd(position, batch),
                     sha |-> part[position]]]
    /\ made' = made \cup {"receipts"}
    /\ pc' = "checkpoint"
    /\ UNCHANGED <<part, checkpoint, quarantined, debris, memory, result, faults>>

\* What _checkpoint_for makes of memory.
NewCheckpoint(upto, parts) == [batch |-> batch, cursor |-> upto, parts |-> parts]

\* _commit_batch, third write, and the end of one turn of the loop.
WriteCheckpoint ==
    /\ pc = "checkpoint"
    /\ LET end == BatchEnd(position, batch)
           next == NewCheckpoint(end, listed \cup {position})
       IN  \/ /\ ValidCheckpoint(next)
              /\ checkpoint' = next
              /\ cursor' = end
              /\ listed' = next.parts
              /\ position' = end
              /\ pc' = "batch"
              /\ UNCHANGED <<part, receipt, quarantined, made, debris, batch, result,
                             faults>>
           \/ ~ValidCheckpoint(next) /\ Refuse

\* The last statement of _run_batches.
WriteFinal ==
    /\ pc = "final"
    /\ LET last == NewCheckpoint(cursor, listed)
       IN  \/ /\ ValidCheckpoint(last)
              /\ checkpoint' = last
              /\ End(IF IsComplete(last) THEN "complete" ELSE "paused")
              /\ UNCHANGED <<part, receipt, quarantined, made, debris, memory, faults>>
           \/ ~ValidCheckpoint(last) /\ Refuse

-----------------------------------------------------------------------------
(* prepare and stage *)

\* _quarantined_orphans: nothing to do, or nothing it dares to touch.
QuarantineNothing ==
    /\ pc = "quarantine"
    /\ checkpoint = NoFile
    /\ End(IF RootHasChildren THEN "no checkpoint" ELSE "quarantined")
    /\ UNCHANGED <<disk, memory, faults>>

\* validate_resume_layout and _require_generated_artifact.
QuarantineRefused ==
    /\ pc = "quarantine"
    /\ checkpoint # NoFile
    /\ debris # {}
    /\ End("orphans refused")
    /\ UNCHANGED <<disk, memory, faults>>

QuarantineBegins ==
    /\ pc = "quarantine"
    /\ checkpoint # NoFile
    /\ debris = {}
    /\ pc' = "move"
    /\ UNCHANGED <<disk, memory, result, faults>>

\* Parts in order of their names, then receipts.
NextOrphan(kind, o) ==
    /\ o \in Orphans(kind)
    /\ \A p \in Orphans(kind) : o <= p
    /\ kind = "receipts" => Orphans("parts") = {}

\* _quarantine_artifact
MoveOrphan(kind, o) ==
    /\ pc = "move"
    /\ NextOrphan(kind, o)
    /\ o \notin quarantined[kind]
    /\ quarantined' = [quarantined EXCEPT ![kind] = @ \cup {o}]
    /\ part' = IF kind = "parts" THEN [part EXCEPT ![o] = NoFile] ELSE part
    /\ receipt' = IF kind = "receipts" THEN [receipt EXCEPT ![o] = NoFile] ELSE receipt
    /\ UNCHANGED <<checkpoint, made, debris, memory, pc, result, faults>>

\* "quarantine already holds an artifact": nothing there is overwritten.
MoveRefused(kind, o) ==
    /\ pc = "move"
    /\ NextOrphan(kind, o)
    /\ o \in quarantined[kind]
    /\ End("orphans refused")
    /\ UNCHANGED <<disk, memory, faults>>

QuarantineEnds ==
    /\ pc = "move"
    /\ \A kind \in Kinds : Orphans(kind) = {}
    /\ End("quarantined")
    /\ UNCHANGED <<disk, memory, faults>>

\* _initialized_checkpoint: an existing checkpoint is never rewritten.
Initialize ==
    /\ pc = "initialize"
    /\ \/ checkpoint # NoFile /\ UNCHANGED checkpoint
       \/ /\ checkpoint = NoFile /\ ~RootHasChildren
          /\ checkpoint' = NewCheckpoint(0, {})
    /\ End("initialized")
    /\ UNCHANGED <<part, receipt, quarantined, made, debris, memory, faults>>

InitializeRefused ==
    /\ pc = "initialize"
    /\ checkpoint = NoFile /\ RootHasChildren
    /\ End("no checkpoint")
    /\ UNCHANGED <<disk, memory, faults>>

-----------------------------------------------------------------------------
(* Kills *)

\* The directory in which the next write would leave its temporary file.
Writing ==
    CASE pc = "batch" -> IF position < Rows THEN {"parts"} ELSE {}
      [] pc = "receipt" -> {"receipts"}
      [] pc \in {"checkpoint", "final"} -> {"root"}
      [] pc = "initialize" -> IF checkpoint = NoFile THEN {"root"} ELSE {}
      [] OTHER -> {}

\* atomic_write_via makes the directory, then the temporary file, and removes
\* the file again, but not when it is killed.
Kill ==
    /\ pc # "idle"
    /\ faults < MaxFaults
    /\ faults' = faults + 1
    /\ \E entered \in SUBSET Writing : \E left \in SUBSET entered :
        /\ made' = made \cup (entered \cap Kinds)
        /\ debris' = debris \cup left
    /\ End("none")
    /\ UNCHANGED <<part, receipt, checkpoint, quarantined, memory>>

Run(b) == Begin(b, "resume")

WorkerStep ==
    \/ ResumeFresh
    \/ Resume
    \/ ResumeComplete
    \/ ResumeRefused
    \/ StopReading
    \/ WritePart
    \/ WriteReceipt
    \/ WriteCheckpoint
    \/ WriteFinal

OperatorStep ==
    \/ QuarantineNothing
    \/ QuarantineRefused
    \/ QuarantineBegins
    \/ \E kind \in Kinds, o \in Offsets : MoveOrphan(kind, o) \/ MoveRefused(kind, o)
    \/ QuarantineEnds
    \/ Initialize
    \/ InitializeRefused

Next ==
    \/ \E b \in BatchSizes : Run(b) \/ Begin(b, "initialize")
    \/ Begin(batch, "quarantine")
    \/ WorkerStep
    \/ OperatorStep
    \/ Kill

Spec == Init /\ [][Next]_vars

\* Commands end by themselves; an operator goes on running the worker, with
\* the batch size of the checkpoint among those asked for, and not every
\* budget is too short for one batch.
FairSpec ==
    /\ Spec
    /\ WF_vars(WorkerStep)
    /\ WF_vars(OperatorStep)
    /\ SF_vars(WritePart)
    /\ \A b \in BatchSizes : SF_vars(Run(b))
-----------------------------------------------------------------------------
(* Properties *)

\* Type invariant of files, memory and program counter.
TypeOK ==
    /\ part \in [Offsets -> Part \cup {NoFile}]
    /\ receipt \in [Offsets -> Receipt \cup {NoFile}]
    /\ checkpoint \in Checkpoint \cup {NoFile}
    /\ quarantined \in [Kinds -> SUBSET Offsets]
    /\ made \subseteq Kinds
    /\ debris \subseteq Kinds \cup {"root"}
    /\ pc \in Points
    /\ batch \in BatchSizes
    /\ cursor \in 0..Rows
    /\ listed \subseteq Offsets
    /\ position \in 0..Rows
    /\ result \in Results
    /\ faults \in 0..MaxFaults

\* However often it was killed and resumed, and wherever its row groups begin,
\* the worker has committed the parts an uninterrupted run would have
\* committed up to that row (_iter_input_batches, _commit_batch).
PausedEqualsUninterrupted ==
    checkpoint # NoFile =>
        /\ checkpoint.parts =
                {o \in Offsets : o < checkpoint.cursor /\ o % checkpoint.batch = 0}
        /\ \A o \in checkpoint.parts :
                part[o].rows = {r \in Described : r \div checkpoint.batch
                                                = o \div checkpoint.batch}

\* No kill, at whatever write, leaves a state that a later command finds
\* unusable: what a checkpoint lists can always be read back, and no row is
\* met twice (_resume_state, ShardCheckpoint, _commit_batch).
NeverUnusable == result # "unusable"

\* When quarantine reports success the state passes the collection check that
\* staging makes of it next (quarantine_orphan_artifacts, validate_run).
QuarantineSuffices ==
    result = "quarantined" /\ checkpoint # NoFile => Validates

\* A shard that is run again and again is completed (process_shard).
CompletesInTheEnd == <>(checkpoint # NoFile /\ IsComplete(checkpoint))

\* Refinement: what the checkpoint lists is what is done.
Shard == INSTANCE ExactlyOnceAnnotation WITH
    consumed <- IF checkpoint = NoFile THEN 0 ELSE checkpoint.cursor,
    holders <- [r \in Described |->
                    IF checkpoint = NoFile THEN {}
                    ELSE {o \in checkpoint.parts : part[o] # NoFile /\ r \in part[o].rows}]

\* Each described row is annotated in one part, for good, and the rows done
\* only grow, from the first one on, whatever is killed when.
ImplementsExactlyOnce == Shard!Spec
=============================================================================
