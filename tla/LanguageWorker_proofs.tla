----------------------- MODULE LanguageWorker_proofs -----------------------
(* Theorems about LanguageWorker, for any shard, batch sizes and bounds.   *)
EXTENDS LanguageWorker, WellFoundedInduction, TLAPS

-----------------------------------------------------------------------------
(* The inductive invariant *)

\* What an uninterrupted worker writes for the batch at offset o.
PartOf(o, b) == Annotations(o, BatchEnd(o, b))
ReceiptOf(o, b) == [start |-> o, end |-> BatchEnd(o, b), sha |-> PartOf(o, b)]

Committed(parts, b) ==
    \A o \in parts : part[o] = PartOf(o, b) /\ receipt[o] = ReceiptOf(o, b)

\* What a checkpoint lists is what an uninterrupted worker writes.
CheckpointInv ==
    checkpoint # NoFile =>
        /\ ValidCheckpoint(checkpoint)
        /\ Committed(checkpoint.parts, checkpoint.batch)

\* A running worker holds in memory what the checkpoint says, and has written
\* beyond it the files of the next batch only.
MemoryInv ==
    pc \in {"batch", "receipt", "checkpoint", "final"} =>
        /\ ValidCheckpoint(NewCheckpoint(cursor, listed))
        /\ Committed(listed, batch)
        /\ checkpoint = NoFile => cursor = 0 /\ listed = {}
        /\ checkpoint # NoFile =>
            /\ checkpoint.cursor = cursor
            /\ checkpoint.parts = listed
            /\ listed # {} => checkpoint.batch = batch
        /\ position = cursor
        /\ pc \in {"receipt", "checkpoint"} =>
            position < Rows /\ part[position] = PartOf(position, batch)
        /\ pc = "checkpoint" => receipt[position] = ReceiptOf(position, batch)

\* Success is reported of a clean shard, and nothing runs after it.
QuarantineInv ==
    /\ pc = "move" => checkpoint # NoFile /\ debris = {}
    /\ result = "quarantined" =>
        /\ pc = "idle"
        /\ checkpoint # NoFile =>
            debris = {} /\ \A kind \in Kinds : Orphans(kind) = {}

IInv ==
    /\ TypeOK
    /\ CheckpointInv
    /\ MemoryInv
    /\ QuarantineInv
    /\ NeverUnusable

-----------------------------------------------------------------------------
(* The batch grid *)

\* A bounded set of numbers has a greatest element.
Below == {p \in Nat \X Nat : p[1] < p[2]}

LEMMA Greatest ==
  ASSUME NEW n \in Nat, NEW S \in SUBSET (0..n), S # {}
  PROVE  \E o \in S : \A g \in S : g <= o
<1> DEFINE T == {n - g : g \in S}
<1>1. \A g \in S : g \in 0..n
  OBVIOUS
<1>2. T \subseteq Nat
  BY <1>1
<1>3. T # {}
  OBVIOUS
<1>4. IsWellFoundedOn(Below, Nat)
  BY NatLessThanWellFounded DEF OpToRel, Below, IsWellFoundedOn
<1>5. PICK t \in T : \A u \in T : <<u, t>> \notin Below
  <2> HIDE DEF T
  <2> QED
    BY <1>2, <1>3, <1>4, WFMin
<1>6. PICK o \in S : t = n - o
  OBVIOUS
<1>7. ASSUME NEW g \in S PROVE g <= o
  <2>1. n - g \in T
    OBVIOUS
  <2>2. <<n - g, t>> \notin Below
    BY <2>1, <1>5
  <2>3. ~(n - g < t)
    BY <2>1, <2>2, <1>2 DEF Below
  <2> QED
    BY <2>3, <1>1, <1>6
<1> QED
  BY <1>7

LEMMA GridFacts ==
  ASSUME NEW b \in BatchSizes, NEW o \in Grid(b, 0)
  PROVE  o \in Nat /\ \E i \in 0..Rows : o = i * b
BY RowsAssumption, BatchSizesAssumption DEF Grid

LEMMA ZeroOnGrid ==
  ASSUME NEW b \in BatchSizes
  PROVE  0 \in Grid(b, 0)
BY RowsAssumption, BatchSizesAssumption DEF Grid

\* The stream starts on the grid, no later than asked for.
LEMMA StartGroupOnGrid ==
  ASSUME NEW b \in BatchSizes, NEW start \in Offsets
  PROVE  StartGroup(start, b) \in Grid(b, 0) /\ StartGroup(start, b) <= start
<1> DEFINE S == {g \in Boundaries : g <= start /\ g \in Grid(b, 0)}
<1>1. start \in Nat /\ Rows > 0
  BY RowsAssumption DEF Offsets
<1>2. S \in SUBSET (0..start) /\ S # {}
  <2>1. 0 \in S
    BY <1>1, ZeroOnGrid, BoundariesAssumption
  <2>2. \A g \in Boundaries : g \in Nat
    BY BoundariesAssumption, RowsAssumption
  <2> QED
    BY <2>1, <2>2, <1>1
<1>3. \E o \in S : \A g \in S : g <= o
  <2> HIDE DEF S
  <2> QED
    BY <1>1, <1>2, Greatest
<1> QED
  BY <1>3 DEF StartGroup

\* Two offsets on the grid differ by batches.
LEMMA GridDistance ==
  ASSUME NEW b \in BatchSizes, NEW a \in Grid(b, 0), NEW o \in Grid(b, 0), a <= o
  PROVE  o \in Grid(b, a)
<1>1. PICK k \in 0..Rows : a = k * b
  BY GridFacts
<1>2. PICK i \in 0..Rows : o = i * b
  BY GridFacts
<1>3. b \in Nat /\ b > 0 /\ i \in Int /\ k \in Int
  BY BatchSizesAssumption, RowsAssumption
<1>4. k <= i
  <2>1. SUFFICES ASSUME i < k PROVE FALSE
    BY <1>3
  <2>2. (k - i) * b > 0
    BY <1>3, <2>1
  <2>3. (k - i) * b = k * b - i * b
    BY <1>3
  <2> QED
    BY <2>2, <2>3, <1>1, <1>2, <1>3
<1>5. o = a + (i - k) * b
  BY <1>1, <1>2, <1>3
<1>6. i - k \in 0..Rows
  BY <1>4, <1>3, RowsAssumption
<1> QED
  BY <1>5, <1>6 DEF Grid

\* An offset below another on the grid is at least a batch below it.
LEMMA GridStep ==
  ASSUME NEW b \in BatchSizes, NEW a \in Grid(b, 0), NEW o \in Grid(b, 0), a < o
  PROVE  a + b <= o
<1>1. PICK k \in 0..Rows : a = k * b
  BY GridFacts
<1>2. PICK i \in 0..Rows : o = i * b
  BY GridFacts
<1>3. b \in Nat /\ b > 0 /\ i \in Int /\ k \in Int
  BY BatchSizesAssumption, RowsAssumption
<1>4. k + 1 <= i
  <2>1. SUFFICES ASSUME i <= k PROVE FALSE
    BY <1>3
  <2>2. (k - i) * b >= 0
    BY <1>3, <2>1
  <2>3. (k - i) * b = k * b - i * b
    BY <1>3
  <2> QED
    BY <2>2, <2>3, <1>1, <1>2, <1>3
<1>5. (i - k - 1) * b >= 0
  BY <1>3, <1>4
<1>6. (i - k - 1) * b = i * b - k * b - b
  BY <1>3
<1> QED
  BY <1>1, <1>2, <1>3, <1>5, <1>6

\* Where a stream resumes that was committed up to an offset of the grid.
LEMMA FirstBatchFacts ==
  ASSUME NEW b \in BatchSizes, NEW start \in 0..Rows,
         start < Rows => start \in Grid(b, 0)
  PROVE  FirstBatch(start, b) = start
<1>1. CASE start >= Rows
  BY <1>1, RowsAssumption DEF FirstBatch
<1>2. CASE start < Rows
  <2> DEFINE grid == Grid(b, StartGroup(start, b))
  <2>1. start \in Offsets /\ start \in Nat /\ start \in Grid(b, 0)
    BY <1>2, RowsAssumption DEF Offsets
  <2>2. start \in grid
    BY <2>1, StartGroupOnGrid, GridDistance
  <2>3. grid \subseteq Nat
    BY <2>1, StartGroupOnGrid, GridFacts, BatchSizesAssumption, RowsAssumption DEF Grid
  <2>4. ~(start >= Rows)
    BY <1>2, <2>1, RowsAssumption
  <2>5. FirstBatch(start, b) = CHOOSE o \in grid :
                o >= start /\ \A p \in grid : p >= start => o <= p
    BY <2>4 DEF FirstBatch
  <2> HIDE DEF grid
  <2>6. ASSUME NEW o \in grid, o >= start, \A p \in grid : p >= start => o <= p
        PROVE  o = start
    BY <2>6, <2>1, <2>2, <2>3
  <2>7. start >= start /\ \A p \in grid : p >= start => start <= p
    BY <2>1, <2>3
  <2> QED
    BY <2>2, <2>5, <2>6, <2>7
<1> QED
  BY <1>1, <1>2, RowsAssumption

LEMMA BatchEndFacts ==
  ASSUME NEW b \in BatchSizes, NEW o \in Offsets
  PROVE  /\ BatchEnd(o, b) \in 0..Rows
         /\ o < BatchEnd(o, b)
         /\ BatchEnd(o, b) < Rows => BatchEnd(o, b) = o + b
         /\ o + b < Rows => BatchEnd(o, b) = o + b
         /\ o + b >= Rows => BatchEnd(o, b) = Rows
BY RowsAssumption, BatchSizesAssumption DEF BatchEnd, Offsets

LEMMA PartType ==
  ASSUME NEW start, NEW end
  PROVE  Annotations(start, end) \in Part
BY DEF Annotations, Part

\* The next batch begins where this one ends.
LEMMA NextOnGrid ==
  ASSUME NEW b \in BatchSizes, NEW o \in Grid(b, 0), o + b < Rows
  PROVE  o + b \in Grid(b, 0)
<1>1. PICK i \in 0..Rows : o = i * b
  BY GridFacts
<1>2. b \in Nat /\ b > 0 /\ i \in Nat /\ Rows \in Nat
  BY BatchSizesAssumption, RowsAssumption
<1>3. o + b = (i + 1) * b /\ o + b \in Nat
  BY <1>1, <1>2
<1>4. (i + 1) * b >= i + 1
  <2>1. (i + 1) * (b - 1) >= 0
    BY <1>2
  <2>2. (i + 1) * (b - 1) = (i + 1) * b - (i + 1)
    BY <1>2
  <2> QED
    BY <2>1, <2>2, <1>2
<1>5. i + 1 \in 0..Rows
  BY <1>2, <1>3, <1>4
<1>6. o + b = 0 + (i + 1) * b
  BY <1>3, <1>2
<1> QED
  BY <1>5, <1>6 DEF Grid

\* Committing one more batch keeps a checkpoint valid.
LEMMA NextValid ==
  ASSUME NEW b \in BatchSizes, NEW o \in Grid(b, 0), o < Rows
  PROVE  /\ BatchEnd(o, b) < Rows => BatchEnd(o, b) \in Grid(b, 0)
         /\ {p \in Grid(b, 0) : p < BatchEnd(o, b)}
                = {p \in Grid(b, 0) : p < o} \cup {o}
<1>1. o \in Offsets /\ o \in Nat /\ Rows \in Nat /\ b \in Nat
  BY GridFacts, RowsAssumption, BatchSizesAssumption DEF Offsets
<1>2. BatchEnd(o, b) < Rows => BatchEnd(o, b) \in Grid(b, 0)
  BY <1>1, BatchEndFacts, NextOnGrid
<1>3. ASSUME NEW p \in Grid(b, 0)
      PROVE  p < BatchEnd(o, b) <=> p < o \/ p = o
  <2>1. p \in Nat
    BY GridFacts
  <2>2. o < p => o + b <= p
    BY GridStep
  <2>3. BatchEnd(o, b) \in 0..Rows /\ o < BatchEnd(o, b) /\ BatchEnd(o, b) <= o + b
    BY <1>1, BatchEndFacts
  <2> QED
    BY <2>1, <2>2, <2>3, <1>1
<1> QED
  BY <1>2, <1>3

\* Two batches of one grid share no row.
LEMMA BatchesDisjoint ==
  ASSUME NEW b \in BatchSizes, NEW o \in Grid(b, 0), NEW p \in Grid(b, 0), o < p, p < Rows
  PROVE  /\ BatchEnd(o, b) <= p
         /\ PartOf(o, b).rows \cap PartOf(p, b).rows = {}
<1>1. o \in Offsets /\ o \in Nat /\ p \in Nat /\ Rows \in Nat /\ b \in Nat
  BY GridFacts, RowsAssumption, BatchSizesAssumption DEF Offsets
<1>2. BatchEnd(o, b) <= p /\ BatchEnd(o, b) \in Nat
  BY <1>1, GridStep, BatchEndFacts
<1>3. \A r \in Described : r \in Nat
  BY DescribedAssumption, RowsAssumption DEF Offsets
<1> QED
  BY <1>1, <1>2, <1>3 DEF PartOf, Annotations

\* A receipt ends where the chain of receipts has it end.
LEMMA ReceiptEnd ==
  ASSUME NEW c \in Checkpoint, ValidCheckpoint(c), NEW o \in c.parts
  PROVE  /\ o \in Grid(c.batch, 0) /\ o < c.cursor /\ o \in Offsets
         /\ BatchEnd(o, c.batch)
                = IF o + c.batch < c.cursor THEN o + c.batch ELSE c.cursor
<1>1. c.batch \in BatchSizes /\ c.cursor \in 0..Rows /\ c.batch \in Nat /\ Rows \in Nat
  BY RowsAssumption, BatchSizesAssumption DEF Checkpoint
<1>2. o \in Grid(c.batch, 0) /\ o < c.cursor /\ o \in Nat /\ o \in Offsets
  BY <1>1, GridFacts DEF ValidCheckpoint, Checkpoint
<1>3. c.cursor < Rows => o + c.batch <= c.cursor
  BY <1>1, <1>2, GridStep DEF ValidCheckpoint
<1> QED
  BY <1>1, <1>2, <1>3, BatchEndFacts

-----------------------------------------------------------------------------
(* Reading back what was committed *)

\* Resumption and validation accept every checkpoint the worker writes.
LEMMA CommittedIsTrusted ==
  ASSUME TypeOK, CheckpointInv, checkpoint # NoFile
  PROVE  Trusted(checkpoint)
<1> DEFINE c == checkpoint
<1>1. c \in Checkpoint /\ ValidCheckpoint(c) /\ Committed(c.parts, c.batch)
  BY DEF TypeOK, CheckpointInv
<1>2. c.batch \in BatchSizes
  BY <1>1 DEF Checkpoint
<1>3. ASSUME NEW o \in c.parts
      PROVE  /\ part[o] # NoFile
             /\ receipt[o] # NoFile
             /\ receipt[o].sha = part[o]
             /\ receipt[o].start = o
             /\ receipt[o].end = IF o + c.batch < c.cursor THEN o + c.batch ELSE c.cursor
  <2>1. part[o] = PartOf(o, c.batch) /\ receipt[o] = ReceiptOf(o, c.batch)
    BY <1>1 DEF Committed
  <2>2. PartOf(o, c.batch) \in Part
    BY PartType DEF PartOf
  <2>3. o \in Offsets /\ BatchEnd(o, c.batch)
                = IF o + c.batch < c.cursor THEN o + c.batch ELSE c.cursor
    BY <1>1, ReceiptEnd
  <2>4. BatchEnd(o, c.batch) \in 0..Rows
    BY <2>3, <1>2, BatchEndFacts
  <2>5. ReceiptOf(o, c.batch) \in Receipt
    BY <2>2, <2>3, <2>4 DEF ReceiptOf, Receipt
  <2> QED
    BY <2>1, <2>2, <2>3, <2>5, NoFileAssumption DEF ReceiptOf
<1>4. ASSUME NEW o \in c.parts, NEW p \in c.parts, o # p
      PROVE  part[o].rows \cap part[p].rows = {}
  <2>1. /\ o \in Grid(c.batch, 0) /\ o \in Offsets
        /\ p \in Grid(c.batch, 0) /\ p \in Offsets
    BY <1>1, ReceiptEnd
  <2>2. o < p \/ p < o
    BY <2>1, RowsAssumption, <1>4 DEF Offsets
  <2>3. o < Rows /\ p < Rows
    BY <2>1 DEF Offsets
  <2>4. PartOf(o, c.batch).rows \cap PartOf(p, c.batch).rows = {}
    <3>1. CASE o < p
      BY <3>1, <2>1, <2>3, <1>2, BatchesDisjoint
    <3>2. CASE p < o
      BY <3>2, <2>1, <2>3, <1>2, BatchesDisjoint
    <3> QED
      BY <3>1, <3>2, <2>2
  <2> QED
    BY <2>4, <1>1 DEF Committed
<1> QED
  BY <1>3, <1>4 DEF Trusted, ReceiptChain

\* Nothing in memory was annotated twice, so the next batch is new.
LEMMA NextBatchIsNew ==
  ASSUME TypeOK, MemoryInv, pc = "batch", position < Rows
  PROVE  Batch.rows \cap Seen = {}
<1>1. /\ ValidCheckpoint(NewCheckpoint(cursor, listed))
      /\ Committed(listed, batch)
      /\ position = cursor
  BY DEF MemoryInv
<1>2. batch \in BatchSizes /\ cursor \in 0..Rows
  BY DEF TypeOK
<1>3. position \in Grid(batch, 0) /\ listed = {o \in Grid(batch, 0) : o < cursor}
  BY <1>1 DEF ValidCheckpoint, NewCheckpoint
<1>4. ASSUME NEW o \in listed
      PROVE  part[o].rows \cap Batch.rows = {}
  <2>1. o \in Grid(batch, 0) /\ o < position
    BY <1>3, <1>1
  <2>2. PartOf(o, batch).rows \cap PartOf(position, batch).rows = {}
    BY <2>1, <1>3, <1>2, BatchesDisjoint
  <2> QED
    BY <2>2, <1>1 DEF Committed, Batch, PartOf
<1> QED
  BY <1>4 DEF Seen

\* The checkpoint at which a batch ends, and the one at which a run ends.
LEMMA MemoryValid ==
  ASSUME TypeOK, MemoryInv
  PROVE  /\ pc = "final" => ValidCheckpoint(NewCheckpoint(cursor, listed))
         /\ pc = "checkpoint" =>
                ValidCheckpoint(NewCheckpoint(BatchEnd(position, batch),
                                              listed \cup {position}))
<1>1. ASSUME pc = "checkpoint"
      PROVE  ValidCheckpoint(NewCheckpoint(BatchEnd(position, batch),
                                           listed \cup {position}))
  <2>1. /\ ValidCheckpoint(NewCheckpoint(cursor, listed))
        /\ position = cursor /\ position < Rows /\ batch \in BatchSizes
    BY <1>1 DEF MemoryInv, TypeOK
  <2>2. position \in Grid(batch, 0) /\ listed = {o \in Grid(batch, 0) : o < position}
    BY <2>1 DEF ValidCheckpoint, NewCheckpoint
  <2> QED
    BY <2>1, <2>2, NextValid DEF ValidCheckpoint, NewCheckpoint
<1> QED
  BY <1>1 DEF MemoryInv

-----------------------------------------------------------------------------
(* Every action preserves the inductive invariant *)

\* Commands that write nothing, and whose process goes on.
LEMMA DiskKept ==
  ASSUME CheckpointInv, UNCHANGED disk
  PROVE  CheckpointInv'
BY DEF CheckpointInv, Committed, ReceiptOf, disk

\* A process that ends with nothing written, or is killed.
LEMMA EndKeeps ==
  ASSUME IInv, pc' = "idle", UNCHANGED <<part, receipt, checkpoint>>,
         TypeOK', NeverUnusable', QuarantineInv'
  PROVE  IInv'
BY DEF IInv, CheckpointInv, MemoryInv, Committed, ReceiptOf

LEMMA InitInv ==
  ASSUME Init
  PROVE  IInv
<1>1. TypeOK
  BY RowsAssumption, FaultsAssumption
  DEF Init, TypeOK, Points, Results, Kinds
<1> QED
  BY <1>1 DEF Init, IInv, CheckpointInv, MemoryInv, QuarantineInv, NeverUnusable

LEMMA BeginInv ==
  ASSUME IInv, NEW b \in BatchSizes,
         NEW entry \in {"resume", "initialize", "quarantine"}, Begin(b, entry)
  PROVE  IInv'
<1>1. TypeOK'
  BY DEF IInv, Begin, TypeOK, disk, Points, Results
<1>2. CheckpointInv'
  BY DiskKept DEF IInv, Begin
<1> QED
  BY <1>1, <1>2 DEF Begin, IInv, MemoryInv, QuarantineInv, NeverUnusable

LEMMA ResumeFreshInv ==
  ASSUME IInv, ResumeFresh
  PROVE  IInv'
<1>1. batch \in BatchSizes /\ 0 \in 0..Rows /\ 0 \in Grid(batch, 0)
  BY RowsAssumption, ZeroOnGrid DEF IInv, TypeOK
<1>2. position' = 0
  BY <1>1, FirstBatchFacts DEF ResumeFresh
<1>3. TypeOK'
  BY <1>1, <1>2 DEF IInv, TypeOK, ResumeFresh, disk, Points
<1>4. CheckpointInv'
  BY DiskKept DEF IInv, ResumeFresh
<1>5. ValidCheckpoint(NewCheckpoint(cursor, listed))'
  <2>1. \A o \in Grid(batch, 0) : ~(o < 0)
    BY <1>1, GridFacts
  <2>2. cursor' = 0 /\ listed' = {} /\ batch' = batch
    BY DEF ResumeFresh
  <2>3. {o \in Grid(batch, 0) : o < 0} = {}
    BY <2>1
  <2> QED
    BY <2>2, <2>3, <1>1 DEF ValidCheckpoint, NewCheckpoint
<1>6. MemoryInv'
  BY <1>2, <1>5 DEF MemoryInv, ResumeFresh, disk, Committed
<1> QED
  BY <1>3, <1>4, <1>6
  DEF ResumeFresh, IInv, QuarantineInv, NeverUnusable, disk

\* A checkpoint without parts is one of no rows.
LEMMA EmptyCheckpoint ==
  ASSUME NEW c \in Checkpoint, ValidCheckpoint(c), c.parts = {}
  PROVE  c.cursor = 0
<1>1. c.batch \in BatchSizes /\ c.cursor \in Nat
  BY RowsAssumption DEF Checkpoint
<1>2. 0 \in Grid(c.batch, 0)
  BY <1>1, ZeroOnGrid
<1>3. ~(0 < c.cursor)
  BY <1>2 DEF ValidCheckpoint
<1> QED
  BY <1>1, <1>3

LEMMA ResumeInv ==
  ASSUME IInv, Resume
  PROVE  IInv'
<1> DEFINE c == checkpoint
<1>1. /\ c \in Checkpoint /\ ValidCheckpoint(c) /\ Committed(c.parts, c.batch)
      /\ c.parts # {} => c.batch = batch
      /\ batch \in BatchSizes
  BY DEF IInv, TypeOK, CheckpointInv, Resume, SameGrid
<1>2. c.cursor \in 0..Rows /\ c.parts \subseteq Offsets /\ c.batch \in BatchSizes
  BY <1>1 DEF Checkpoint
<1>3. ValidCheckpoint(NewCheckpoint(c.cursor, c.parts))
  <2>1. CASE c.parts # {}
    BY <2>1, <1>1 DEF ValidCheckpoint, NewCheckpoint
  <2>2. CASE c.parts = {}
    <3>1. c.cursor = 0
      BY <2>2, <1>1, EmptyCheckpoint
    <3>2. 0 \in Grid(batch, 0)
      BY <1>1, ZeroOnGrid
    <3>3. \A o \in Grid(batch, 0) : ~(o < 0)
      BY <1>1, GridFacts
    <3>4. {o \in Grid(batch, 0) : o < 0} = {}
      BY <3>3
    <3> QED
      BY <2>2, <3>1, <3>2, <3>4 DEF ValidCheckpoint, NewCheckpoint
  <2> QED
    BY <2>1, <2>2
<1>4. position' = c.cursor
  <2>1. c.cursor < Rows => c.cursor \in Grid(batch, 0)
    BY <1>3 DEF ValidCheckpoint, NewCheckpoint
  <2> QED
    BY <2>1, <1>1, <1>2, FirstBatchFacts DEF Resume
<1>5. TypeOK'
  BY <1>2, <1>4 DEF IInv, TypeOK, Resume, disk, Points
<1>6. CheckpointInv'
  BY DiskKept DEF IInv, Resume
<1>7. Committed(c.parts, batch)
  BY <1>1 DEF Committed
<1>8. MemoryInv'
  BY <1>1, <1>3, <1>4, <1>7
  DEF MemoryInv, Resume, disk, Committed, ReceiptOf, ValidCheckpoint, NewCheckpoint
<1> QED
  BY <1>5, <1>6, <1>8
  DEF Resume, IInv, QuarantineInv, NeverUnusable, disk

LEMMA ResumeCompleteInv ==
  ASSUME IInv, ResumeComplete
  PROVE  IInv'
<1>1. TypeOK'
  BY DEF IInv, TypeOK, ResumeComplete, End, disk, memory, Points, Results
<1> QED
  BY <1>1, EndKeeps
  DEF IInv, ResumeComplete, End, disk, QuarantineInv, NeverUnusable

LEMMA ResumeRefusedInv ==
  ASSUME IInv, ResumeRefused
  PROVE  IInv'
<1>1. checkpoint # NoFile /\ ValidCheckpoint(checkpoint) /\ Trusted(checkpoint)
  BY CommittedIsTrusted DEF IInv, CheckpointInv, ResumeRefused
<1>2. End("another batch size") /\ UNCHANGED <<disk, memory, faults>>
  BY <1>1 DEF ResumeRefused
<1>3. TypeOK'
  BY <1>2 DEF IInv, TypeOK, End, disk, memory, Points, Results
<1> QED
  BY <1>2, <1>3, EndKeeps
  DEF IInv, End, disk, QuarantineInv, NeverUnusable

LEMMA StopReadingInv ==
  ASSUME IInv, StopReading
  PROVE  IInv'
<1>1. TypeOK'
  BY DEF IInv, TypeOK, StopReading, disk, memory, Points
<1>2. CheckpointInv'
  BY DiskKept DEF IInv, StopReading
<1>3. MemoryInv'
  BY DEF IInv, MemoryInv, StopReading, disk, memory, Committed, ReceiptOf,
         ValidCheckpoint, NewCheckpoint
<1> QED
  BY <1>1, <1>2, <1>3
  DEF IInv, StopReading, disk, QuarantineInv, NeverUnusable

\* The files of the next batch are none of those that are listed.
LEMMA BeyondListed ==
  ASSUME IInv, pc \in {"batch", "receipt", "checkpoint"}, position < Rows
  PROVE  /\ position \in Offsets /\ position \in Grid(batch, 0)
         /\ position = cursor
         /\ listed = {o \in Grid(batch, 0) : o < position}
         /\ position \notin listed
         /\ checkpoint # NoFile => position \notin checkpoint.parts
<1>1. /\ ValidCheckpoint(NewCheckpoint(cursor, listed))
      /\ position = cursor /\ position \in 0..Rows /\ batch \in BatchSizes
      /\ checkpoint # NoFile => checkpoint.parts = listed
  BY DEF IInv, MemoryInv, TypeOK
<1>2. listed = {o \in Grid(batch, 0) : o < position} /\ position \in Grid(batch, 0)
  BY <1>1 DEF ValidCheckpoint, NewCheckpoint
<1>3. ~(position < position)
  BY <1>1, RowsAssumption
<1> QED
  BY <1>1, <1>2, <1>3 DEF Offsets

LEMMA WritePartInv ==
  ASSUME IInv, WritePart
  PROVE  IInv'
<1>1. Batch.rows \cap Seen = {}
  BY NextBatchIsNew DEF IInv, WritePart
<1>2. /\ part' = [part EXCEPT ![position] = Batch]
      /\ made' = made \cup {"parts"}
      /\ pc' = "receipt"
      /\ UNCHANGED <<receipt, checkpoint, quarantined, debris, memory, result, faults>>
  BY <1>1 DEF WritePart, NewPart
<1>3. /\ position \in Offsets /\ position \notin listed
      /\ checkpoint # NoFile => position \notin checkpoint.parts
  BY BeyondListed DEF WritePart
<1>4. Batch = PartOf(position, batch) /\ Batch \in Part
  BY PartType DEF Batch, PartOf
<1>5. TypeOK'
  BY <1>2, <1>3, <1>4 DEF IInv, TypeOK, memory, Points, Kinds
<1>6. part'[position] = PartOf(position, batch)
      /\ \A o \in Offsets : o # position => part'[o] = part[o]
  BY <1>2, <1>3, <1>4 DEF IInv, TypeOK
<1>7. CheckpointInv'
  <2>1. ASSUME checkpoint # NoFile
        PROVE  ValidCheckpoint(checkpoint) /\ Committed(checkpoint.parts, checkpoint.batch)'
    <3>1. checkpoint.parts \subseteq Offsets
      BY <2>1 DEF IInv, TypeOK, Checkpoint
    <3>2. \A o \in checkpoint.parts : part'[o] = part[o] /\ receipt'[o] = receipt[o]
      BY <3>1, <1>2, <1>3, <1>6, <2>1
    <3> QED
      BY <3>2, <1>2, <2>1 DEF IInv, CheckpointInv, Committed, ReceiptOf
  <2> QED
    BY <2>1, <1>2 DEF CheckpointInv, Committed, ReceiptOf, ValidCheckpoint
<1>8. Committed(listed, batch)'
  <2>1. \A o \in listed : part'[o] = part[o] /\ receipt'[o] = receipt[o]
    BY <1>2, <1>3, <1>6 DEF IInv, TypeOK
  <2> QED
    BY <2>1, <1>2 DEF IInv, MemoryInv, WritePart, Committed, ReceiptOf, memory
<1>9. MemoryInv'
  BY <1>2, <1>6, <1>8
  DEF IInv, MemoryInv, WritePart, memory, ValidCheckpoint, NewCheckpoint
<1> QED
  BY <1>2, <1>5, <1>7, <1>9
  DEF IInv, WritePart, QuarantineInv, NeverUnusable

LEMMA WriteReceiptInv ==
  ASSUME IInv, WriteReceipt
  PROVE  IInv'
<1>1. /\ position < Rows /\ part[position] = PartOf(position, batch)
      /\ batch \in BatchSizes
  BY DEF IInv, MemoryInv, TypeOK, WriteReceipt
<1>2. /\ position \in Offsets /\ position \notin listed
      /\ checkpoint # NoFile => position \notin checkpoint.parts
  BY <1>1, BeyondListed DEF WriteReceipt
<1>3. receipt' = [receipt EXCEPT ![position] = ReceiptOf(position, batch)]
  BY <1>1 DEF WriteReceipt, ReceiptOf
<1>4. ReceiptOf(position, batch) \in Receipt
  BY <1>1, <1>2, BatchEndFacts, PartType DEF ReceiptOf, Receipt, PartOf
<1>5. TypeOK'
  BY <1>3, <1>4 DEF IInv, TypeOK, WriteReceipt, memory, Points, Kinds
<1>6. receipt'[position] = ReceiptOf(position, batch)
      /\ \A o \in Offsets : o # position => receipt'[o] = receipt[o]
  BY <1>2, <1>3 DEF IInv, TypeOK
<1>7. CheckpointInv'
  <2>1. ASSUME checkpoint # NoFile
        PROVE  ValidCheckpoint(checkpoint) /\ Committed(checkpoint.parts, checkpoint.batch)'
    <3>1. checkpoint.parts \subseteq Offsets
      BY <2>1 DEF IInv, TypeOK, Checkpoint
    <3>2. \A o \in checkpoint.parts : part'[o] = part[o] /\ receipt'[o] = receipt[o]
      BY <3>1, <1>2, <1>6, <2>1 DEF WriteReceipt
    <3> QED
      BY <3>2, <2>1 DEF IInv, CheckpointInv, Committed, ReceiptOf, WriteReceipt
  <2> QED
    BY <2>1 DEF CheckpointInv, Committed, ReceiptOf, ValidCheckpoint, WriteReceipt
<1>8. Committed(listed, batch)'
  <2>1. \A o \in listed : part'[o] = part[o] /\ receipt'[o] = receipt[o]
    BY <1>2, <1>6 DEF IInv, TypeOK, WriteReceipt
  <2> QED
    BY <2>1 DEF IInv, MemoryInv, WriteReceipt, Committed, ReceiptOf, memory
<1>9. MemoryInv'
  BY <1>1, <1>6, <1>8
  DEF IInv, MemoryInv, WriteReceipt, memory, ValidCheckpoint, NewCheckpoint, ReceiptOf
<1> QED
  BY <1>5, <1>7, <1>9
  DEF IInv, WriteReceipt, QuarantineInv, NeverUnusable

LEMMA WriteCheckpointInv ==
  ASSUME IInv, WriteCheckpoint
  PROVE  IInv'
<1> DEFINE end == BatchEnd(position, batch)
           next == NewCheckpoint(end, listed \cup {position})
<1>1. ValidCheckpoint(next)
  BY MemoryValid DEF IInv, WriteCheckpoint
<1>2. /\ checkpoint' = next /\ cursor' = end /\ listed' = next.parts
      /\ position' = end /\ pc' = "batch"
      /\ UNCHANGED <<part, receipt, quarantined, made, debris, batch, result, faults>>
  BY <1>1 DEF WriteCheckpoint
<1>3. /\ position < Rows /\ part[position] = PartOf(position, batch)
      /\ receipt[position] = ReceiptOf(position, batch)
      /\ Committed(listed, batch)
      /\ batch \in BatchSizes /\ listed \subseteq Offsets
  BY DEF IInv, MemoryInv, TypeOK, WriteCheckpoint
<1>4. position \in Offsets
  BY <1>3, BeyondListed DEF WriteCheckpoint
<1>5. end \in 0..Rows
  BY <1>3, <1>4, BatchEndFacts
<1>6. next \in Checkpoint /\ next.parts = listed \cup {position}
      /\ next.cursor = end /\ next.batch = batch /\ next # NoFile
  <2>1. next \in Checkpoint
    BY <1>3, <1>4, <1>5 DEF NewCheckpoint, Checkpoint
  <2> QED
    BY <2>1, NoFileAssumption DEF NewCheckpoint
<1>7. Committed(listed \cup {position}, batch)
  BY <1>3 DEF Committed
<1> HIDE DEF end, next
<1>8. TypeOK'
  BY <1>2, <1>3, <1>4, <1>5, <1>6 DEF IInv, TypeOK, Points
<1>9. CheckpointInv'
  BY <1>1, <1>2, <1>6, <1>7
  DEF CheckpointInv, Committed, ReceiptOf, ValidCheckpoint
<1>10. MemoryInv'
  BY <1>1, <1>2, <1>6, <1>7
  DEF MemoryInv, Committed, ReceiptOf, ValidCheckpoint, NewCheckpoint
<1> QED
  BY <1>2, <1>8, <1>9, <1>10
  DEF IInv, WriteCheckpoint, QuarantineInv, NeverUnusable

LEMMA WriteFinalInv ==
  ASSUME IInv, WriteFinal
  PROVE  IInv'
<1> DEFINE last == NewCheckpoint(cursor, listed)
<1>1. ValidCheckpoint(last)
  BY MemoryValid DEF IInv, WriteFinal
<1>2. /\ checkpoint' = last /\ pc' = "idle" /\ result' \in {"complete", "paused"}
      /\ UNCHANGED <<part, receipt, quarantined, made, debris, memory, faults>>
  BY <1>1 DEF WriteFinal, End
<1>3. /\ last \in Checkpoint /\ last.parts = listed /\ last.batch = batch
      /\ Committed(listed, batch)
  BY DEF IInv, MemoryInv, TypeOK, WriteFinal, NewCheckpoint, Checkpoint
<1> HIDE DEF last
<1>4. TypeOK'
  BY <1>2, <1>3 DEF IInv, TypeOK, memory, Points, Results
<1>5. CheckpointInv'
  BY <1>1, <1>2, <1>3 DEF CheckpointInv, Committed, ReceiptOf, ValidCheckpoint
<1> QED
  BY <1>2, <1>4, <1>5 DEF IInv, MemoryInv, QuarantineInv, NeverUnusable

LEMMA QuarantineNothingInv ==
  ASSUME IInv, QuarantineNothing
  PROVE  IInv'
<1>1. TypeOK'
  BY DEF IInv, TypeOK, QuarantineNothing, End, disk, memory, Points, Results
<1> QED
  BY <1>1, EndKeeps
  DEF IInv, QuarantineNothing, End, disk, QuarantineInv, NeverUnusable

LEMMA QuarantineRefusedInv ==
  ASSUME IInv, QuarantineRefused
  PROVE  IInv'
<1>1. TypeOK'
  BY DEF IInv, TypeOK, QuarantineRefused, End, disk, memory, Points, Results
<1> QED
  BY <1>1, EndKeeps
  DEF IInv, QuarantineRefused, End, disk, QuarantineInv, NeverUnusable

LEMMA QuarantineBeginsInv ==
  ASSUME IInv, QuarantineBegins
  PROVE  IInv'
<1>1. TypeOK'
  BY DEF IInv, TypeOK, QuarantineBegins, disk, memory, Points
<1>2. CheckpointInv'
  BY DiskKept DEF IInv, QuarantineBegins
<1> QED
  BY <1>1, <1>2
  DEF IInv, QuarantineBegins, disk, MemoryInv, QuarantineInv, NeverUnusable

LEMMA MoveOrphanInv ==
  ASSUME IInv, NEW kind \in Kinds, NEW o \in Offsets, MoveOrphan(kind, o)
  PROVE  IInv'
<1>1. checkpoint # NoFile /\ debris = {} /\ o \notin checkpoint.parts
  BY DEF IInv, QuarantineInv, MoveOrphan, NextOrphan, Orphans
<1>2. /\ part' \in [Offsets -> Part \cup {NoFile}]
      /\ receipt' \in [Offsets -> Receipt \cup {NoFile}]
      /\ quarantined' \in [Kinds -> SUBSET Offsets]
  BY DEF IInv, TypeOK, MoveOrphan
<1>3. TypeOK'
  BY <1>2 DEF IInv, TypeOK, MoveOrphan, memory
<1>4. \A p \in checkpoint.parts : part'[p] = part[p] /\ receipt'[p] = receipt[p]
  <2>1. checkpoint.parts \subseteq Offsets
    BY <1>1 DEF IInv, TypeOK, Checkpoint
  <2> QED
    BY <2>1, <1>1 DEF IInv, TypeOK, MoveOrphan
<1>5. CheckpointInv'
  BY <1>1, <1>4
  DEF IInv, CheckpointInv, Committed, ReceiptOf, ValidCheckpoint, MoveOrphan
<1> QED
  BY <1>1, <1>3, <1>5
  DEF IInv, MoveOrphan, MemoryInv, QuarantineInv, NeverUnusable

LEMMA MoveRefusedInv ==
  ASSUME IInv, NEW kind \in Kinds, NEW o \in Offsets, MoveRefused(kind, o)
  PROVE  IInv'
<1>1. TypeOK'
  BY DEF IInv, TypeOK, MoveRefused, End, disk, memory, Points, Results
<1> QED
  BY <1>1, EndKeeps
  DEF IInv, MoveRefused, End, disk, QuarantineInv, NeverUnusable

LEMMA QuarantineEndsInv ==
  ASSUME IInv, QuarantineEnds
  PROVE  IInv'
<1>1. TypeOK'
  BY DEF IInv, TypeOK, QuarantineEnds, End, disk, memory, Points, Results
<1>2. QuarantineInv'
  BY DEF IInv, QuarantineInv, QuarantineEnds, End, disk, Orphans
<1> QED
  BY <1>1, <1>2, EndKeeps DEF IInv, QuarantineEnds, End, disk, NeverUnusable

LEMMA InitializeInv ==
  ASSUME IInv, Initialize
  PROVE  IInv'
<1>1. CASE checkpoint # NoFile
  <2>1. TypeOK'
    BY <1>1 DEF IInv, TypeOK, Initialize, End, memory, Points, Results
  <2> QED
    BY <1>1, <2>1, EndKeeps
    DEF IInv, Initialize, End, QuarantineInv, NeverUnusable
<1>2. CASE checkpoint = NoFile
  <2> DEFINE first == NewCheckpoint(0, {})
  <2>1. /\ checkpoint' = first /\ pc' = "idle" /\ result' = "initialized"
        /\ UNCHANGED <<part, receipt, quarantined, made, debris, memory, faults>>
    BY <1>2 DEF Initialize, End
  <2>2. batch \in BatchSizes /\ 0 \in 0..Rows
    BY RowsAssumption DEF IInv, TypeOK
  <2>3. first \in Checkpoint /\ first.parts = {}
    BY <2>2 DEF NewCheckpoint, Checkpoint
  <2>4. ValidCheckpoint(first)
    <3>1. 0 \in Grid(batch, 0)
      BY <2>2, ZeroOnGrid
    <3>2. \A o \in Grid(batch, 0) : ~(o < 0)
      BY <2>2, GridFacts
    <3>3. {o \in Grid(batch, 0) : o < 0} = {}
      BY <3>2
    <3> QED
      BY <3>1, <3>3 DEF ValidCheckpoint, NewCheckpoint
  <2> HIDE DEF first
  <2>5. TypeOK'
    BY <2>1, <2>3 DEF IInv, TypeOK, memory, Points, Results
  <2>6. CheckpointInv'
    BY <2>1, <2>3, <2>4 DEF CheckpointInv, Committed, ValidCheckpoint
  <2> QED
    BY <2>1, <2>5, <2>6 DEF IInv, MemoryInv, QuarantineInv, NeverUnusable
<1> QED
  BY <1>1, <1>2

LEMMA InitializeRefusedInv ==
  ASSUME IInv, InitializeRefused
  PROVE  IInv'
<1>1. TypeOK'
  BY DEF IInv, TypeOK, InitializeRefused, End, disk, memory, Points, Results
<1> QED
  BY <1>1, EndKeeps
  DEF IInv, InitializeRefused, End, disk, QuarantineInv, NeverUnusable

LEMMA KillInv ==
  ASSUME IInv, Kill
  PROVE  IInv'
<1>1. Writing \subseteq Kinds \cup {"root"}
  BY DEF Writing, Kinds
<1>2. made' \subseteq Kinds /\ debris' \subseteq Kinds \cup {"root"}
  BY <1>1 DEF IInv, TypeOK, Kill
<1>3. faults' \in 0..MaxFaults
  BY FaultsAssumption DEF IInv, TypeOK, Kill
<1>4. TypeOK'
  BY <1>2, <1>3 DEF IInv, TypeOK, Kill, End, memory, Points, Results
<1> QED
  BY <1>4, EndKeeps DEF IInv, Kill, End, QuarantineInv, NeverUnusable

LEMMA StutterInv ==
  ASSUME IInv, UNCHANGED vars
  PROVE  IInv'
<1>1. TypeOK' /\ CheckpointInv'
  BY DiskKept DEF IInv, TypeOK, vars, disk, memory
<1> QED
  BY <1>1
  DEF IInv, MemoryInv, QuarantineInv, NeverUnusable, vars, disk, memory, Orphans,
      Committed, ReceiptOf, ValidCheckpoint, NewCheckpoint

LEMMA NextInv ==
  ASSUME IInv, [Next]_vars
  PROVE  IInv'
<1>1. CASE \E b \in BatchSizes : Run(b) \/ Begin(b, "initialize")
  BY <1>1, BeginInv DEF Run
<1>2. CASE Begin(batch, "quarantine")
  <2>1. batch \in BatchSizes
    BY DEF IInv, TypeOK
  <2> QED
    BY <1>2, <2>1, BeginInv
<1>3. CASE WorkerStep
  BY <1>3, ResumeFreshInv, ResumeInv, ResumeCompleteInv, ResumeRefusedInv,
     StopReadingInv, WritePartInv, WriteReceiptInv, WriteCheckpointInv, WriteFinalInv
  DEF WorkerStep
<1>4. CASE OperatorStep
  BY <1>4, QuarantineNothingInv, QuarantineRefusedInv, QuarantineBeginsInv,
     MoveOrphanInv, MoveRefusedInv, QuarantineEndsInv, InitializeInv,
     InitializeRefusedInv
  DEF OperatorStep
<1>5. CASE Kill
  BY <1>5, KillInv
<1>6. CASE UNCHANGED vars
  BY <1>6, StutterInv
<1> QED
  BY <1>1, <1>2, <1>3, <1>4, <1>5, <1>6 DEF Next

\* Files, memory and program counter keep their types.
THEOREM TypeCorrect == Spec => []TypeOK
<1>1. Init => IInv
  BY InitInv
<1>2. IInv /\ [Next]_vars => IInv'
  BY NextInv
<1>3. IInv => TypeOK
  BY DEF IInv
<1> QED
  BY <1>1, <1>2, <1>3, PTL DEF Spec

\* No state a killed worker leaves is unusable: every check of a later command
\* on what the checkpoint lists succeeds.
THEOREM AlwaysUsable == Spec => []NeverUnusable
<1>1. Init => IInv
  BY InitInv
<1>2. IInv /\ [Next]_vars => IInv'
  BY NextInv
<1>3. IInv => NeverUnusable
  BY DEF IInv
<1> QED
  BY <1>1, <1>2, <1>3, PTL DEF Spec

\* A quarantine that reports success leaves a shard that validates.
THEOREM QuarantineValidates == Spec => []QuarantineSuffices
<1>1. Init => IInv
  BY InitInv
<1>2. IInv /\ [Next]_vars => IInv'
  BY NextInv
<1>3. IInv => QuarantineSuffices
  <2>1. ASSUME IInv, result = "quarantined", checkpoint # NoFile
        PROVE  Validates
    <3>1. debris = {} /\ \A kind \in Kinds : Orphans(kind) = {}
      BY <2>1 DEF IInv, QuarantineInv
    <3>2. Unlisted(part) = {} /\ Unlisted(receipt) = {}
      BY <3>1 DEF Orphans, Unlisted, Kinds
    <3>3. Trusted(checkpoint) /\ ValidCheckpoint(checkpoint)
      BY <2>1, CommittedIsTrusted DEF IInv, CheckpointInv
    <3> QED
      BY <2>1, <3>1, <3>2, <3>3 DEF Validates
  <2> QED
    BY <2>1 DEF QuarantineSuffices
<1> QED
  BY <1>1, <1>2, <1>3, PTL DEF Spec

-----------------------------------------------------------------------------
(* Batches by division *)

LEMMA DivMod ==
  ASSUME NEW n \in Nat, NEW b \in Nat \ {0}
  PROVE  n \div b \in Nat /\ n % b \in 0..b-1 /\ n = (n \div b) * b + (n % b)
<1>1. n \div b \in Nat
  OBVIOUS
<1>2. n % b \in 0..b-1
  OBVIOUS
<1>3. n = (n \div b) * b + (n % b)
  OBVIOUS
<1> QED
  BY <1>1, <1>2, <1>3

LEMMA DivUnique ==
  ASSUME NEW b \in Nat \ {0}, NEW q \in Int, NEW i \in Int,
         NEW m \in 0..b-1, NEW k \in 0..b-1, q * b + m = i * b + k
  PROVE  q = i /\ m = k
<1>1. (q - i) * b = k - m
  OBVIOUS
<1>2. CASE q - i >= 1
  <2>1. (q - i - 1) * b >= 0
    BY <1>2
  <2>2. (q - i - 1) * b = (q - i) * b - b
    OBVIOUS
  <2> QED
    BY <2>1, <2>2, <1>1
<1>3. CASE i - q >= 1
  <2>1. (i - q - 1) * b >= 0
    BY <1>3
  <2>2. (i - q - 1) * b = 0 - (q - i) * b - b
    OBVIOUS
  <2> QED
    BY <2>1, <2>2, <1>1
<1> QED
  BY <1>1, <1>2, <1>3

\* The rows of a part are those between the ends of its batch.
LEMMA PartRows ==
  ASSUME NEW o, NEW b, NEW r \in Described
  PROVE  r \in PartOf(o, b).rows <=> o <= r /\ r < BatchEnd(o, b)
<1> DEFINE end == BatchEnd(o, b)
<1> HIDE DEF end
<1>1. PartOf(o, b).rows = {q \in Described : o <= q /\ q < end}
  BY DEF PartOf, Annotations, end
<1> QED
  BY <1>1 DEF end

\* The offsets of the grid are the multiples of the batch size, and the batch
\* of an offset holds the rows with the same quotient.
LEMMA GridByDivision ==
  ASSUME NEW b \in BatchSizes, NEW o \in Offsets
  PROVE  /\ o \in Grid(b, 0) <=> o % b = 0
         /\ o \in Grid(b, 0) =>
                \A r \in Described :
                    o <= r /\ r < BatchEnd(o, b) <=> r \div b = o \div b
<1>1. b \in Nat \ {0} /\ o \in Nat /\ o < Rows /\ Rows \in Nat
  BY BatchSizesAssumption, RowsAssumption DEF Offsets
<1>2. ASSUME o \in Grid(b, 0) PROVE o % b = 0 /\ o = (o \div b) * b
  <2>1. PICK i \in 0..Rows : o = i * b
    BY <1>2, GridFacts
  <2>2. o \div b \in Nat /\ o % b \in 0..b-1 /\ o = (o \div b) * b + (o % b)
    BY <1>1, DivMod
  <2> DEFINE none == 0
  <2>3. i \in Int /\ none \in 0..b-1 /\ (o \div b) * b + (o % b) = i * b + none
    BY <1>1, <2>1, <2>2
  <2>4. o % b = 0
    <3>1. o \div b \in Int
      BY <2>2
    <3> HIDE DEF none
    <3>2. o % b = none
      BY <1>1, <2>2, <2>3, <3>1, DivUnique
    <3> QED
      BY <3>2 DEF none
  <2> QED
    BY <2>2, <2>4, <1>1
<1>3. ASSUME o % b = 0 PROVE o \in Grid(b, 0)
  <2>1. o \div b \in Nat /\ o = (o \div b) * b + (o % b)
    BY <1>1, DivMod
  <2>2. o = 0 + (o \div b) * b
    BY <1>1, <2>1, <1>3
  <2>3. o \div b <= o
    <3>1. (o \div b) * (b - 1) >= 0
      BY <1>1, <2>1
    <3>2. (o \div b) * (b - 1) = (o \div b) * b - (o \div b)
      BY <1>1, <2>1
    <3> QED
      BY <1>1, <2>1, <2>2, <3>1, <3>2
  <2>4. o \div b \in 0..Rows
    BY <1>1, <2>1, <2>3
  <2> QED
    BY <2>2, <2>4 DEF Grid
<1>4. ASSUME o \in Grid(b, 0), NEW r \in Described
      PROVE  o <= r /\ r < BatchEnd(o, b) <=> r \div b = o \div b
  <2>1. r \in Nat /\ r < Rows
    BY DescribedAssumption, RowsAssumption DEF Offsets
  <2>2. o <= r /\ r < BatchEnd(o, b) <=> o <= r /\ r < o + b
    BY <1>1, <2>1, BatchEndFacts
  <2>3. r \div b \in Nat /\ r % b \in 0..b-1 /\ r = (r \div b) * b + (r % b)
    BY <1>1, <2>1, DivMod
  <2>4. o \div b \in Nat /\ o = (o \div b) * b
    BY <1>1, <1>2, <1>4, DivMod
  <2>5. ASSUME o <= r, r < o + b PROVE r \div b = o \div b
    <3>1. r - o \in 0..b-1 /\ (r \div b) * b + (r % b) = (o \div b) * b + (r - o)
      BY <1>1, <2>1, <2>3, <2>4, <2>5
    <3>2. r \div b \in Int /\ o \div b \in Int
      BY <2>3, <2>4
    <3> QED
      BY <3>1, <3>2, <2>3, <1>1, DivUnique
  <2>6. ASSUME r \div b = o \div b PROVE o <= r /\ r < o + b
    BY <2>6, <2>3, <2>4, <1>1, <2>1
  <2> QED
    BY <2>2, <2>5, <2>6
<1> QED
  BY <1>2, <1>3, <1>4

\* The committed parts are those an uninterrupted run would have committed.
THEOREM Uninterrupted == Spec => []PausedEqualsUninterrupted
<1>1. Init => IInv
  BY InitInv
<1>2. IInv /\ [Next]_vars => IInv'
  BY NextInv
<1>3. IInv => PausedEqualsUninterrupted
  <2> DEFINE c == checkpoint
  <2> SUFFICES ASSUME IInv, c # NoFile
               PROVE  /\ c.parts = {o \in Offsets : o < c.cursor /\ o % c.batch = 0}
                      /\ \A o \in c.parts : part[o].rows =
                            {r \in Described : r \div c.batch = o \div c.batch}
    BY DEF PausedEqualsUninterrupted
  <2>1. /\ c \in Checkpoint /\ ValidCheckpoint(c) /\ c.batch \in BatchSizes
        /\ \A o \in c.parts : part[o] = PartOf(o, c.batch)
    BY DEF IInv, TypeOK, CheckpointInv, Committed, Checkpoint
  <2>2. \A o \in c.parts : o \in Offsets /\ o \in Grid(c.batch, 0)
    BY <2>1, ReceiptEnd
  <2>3. c.parts = {o \in Grid(c.batch, 0) : o < c.cursor}
    BY <2>1 DEF ValidCheckpoint
  <2>4. \A o \in Offsets : o \in Grid(c.batch, 0) <=> o % c.batch = 0
    BY <2>1, GridByDivision
  <2>5. c.parts = {o \in Offsets : o < c.cursor /\ o % c.batch = 0}
    BY <2>2, <2>3, <2>4
  <2>6. ASSUME NEW o \in c.parts
        PROVE  part[o].rows = {r \in Described : r \div c.batch = o \div c.batch}
    <3>1. \A r \in Described : r \in PartOf(o, c.batch).rows
                                <=> r \div c.batch = o \div c.batch
      BY <2>1, <2>2, GridByDivision, PartRows
    <3>2. PartOf(o, c.batch).rows \subseteq Described
      BY DEF PartOf, Annotations
    <3> QED
      BY <3>1, <3>2, <2>1
  <2> QED
    BY <2>5, <2>6
<1> QED
  BY <1>1, <1>2, <1>3, PTL DEF Spec

-----------------------------------------------------------------------------
(* The refinement *)

Consumed == IF checkpoint = NoFile THEN 0 ELSE checkpoint.cursor

HoldersOf(r) ==
    IF checkpoint = NoFile THEN {}
    ELSE {o \in checkpoint.parts : part[o] # NoFile /\ r \in part[o].rows}

Holders == [r \in Described |-> HoldersOf(r)]

\* Who holds a row depends on the files that are listed.
LEMMA HoldersByRange ==
  ASSUME TypeOK, CheckpointInv, checkpoint # NoFile, NEW r \in Described
  PROVE  HoldersOf(r) = {o \in checkpoint.parts : o <= r /\ r < BatchEnd(o, checkpoint.batch)}
<1>1. \A o \in checkpoint.parts : part[o] = PartOf(o, checkpoint.batch)
  BY DEF CheckpointInv, Committed
<1>2. \A o \in checkpoint.parts : part[o] # NoFile
  BY <1>1, PartType, NoFileAssumption DEF PartOf
<1>3. \A o \in checkpoint.parts :
        r \in part[o].rows <=> o <= r /\ r < BatchEnd(o, checkpoint.batch)
  BY <1>1, PartRows
<1> QED
  BY <1>2, <1>3 DEF HoldersOf

\* The commit of a batch consumes it.
LEMMA CommitConsumes ==
  ASSUME IInv, WriteCheckpoint
  PROVE  /\ BatchEnd(position, batch) \in 0..Rows
         /\ Consumed < BatchEnd(position, batch)
         /\ Consumed' = BatchEnd(position, batch)
         /\ Holders' = [r \in Described |->
                IF Consumed <= r /\ r < BatchEnd(position, batch)
                THEN {Consumed} ELSE Holders[r]]
<1> DEFINE end == BatchEnd(position, batch)
           next == NewCheckpoint(end, listed \cup {position})
<1>1. ValidCheckpoint(next)
  BY MemoryValid DEF IInv, WriteCheckpoint
<1>2. checkpoint' = next /\ UNCHANGED <<part, batch>>
  BY <1>1 DEF WriteCheckpoint
<1>3. /\ position < Rows /\ position \in Offsets /\ position \in Grid(batch, 0)
      /\ position = cursor /\ batch \in BatchSizes /\ listed \subseteq Offsets
      /\ listed = {o \in Grid(batch, 0) : o < position}
  BY BeyondListed DEF IInv, MemoryInv, TypeOK, WriteCheckpoint
<1>4. end \in 0..Rows /\ position < end
  BY <1>3, BatchEndFacts
<1>5. next # NoFile /\ next.cursor = end /\ next.parts = listed \cup {position}
      /\ next.batch = batch
  BY <1>3, <1>4, NoFileAssumption DEF NewCheckpoint, Checkpoint
<1>6. Consumed = position
  BY <1>3 DEF IInv, MemoryInv, WriteCheckpoint, Consumed
<1>7. Consumed' = end
  BY <1>2, <1>5 DEF Consumed
<1>8. ASSUME NEW r \in Described
      PROVE  HoldersOf(r)' = IF position <= r /\ r < end
                             THEN {position} ELSE HoldersOf(r)
  <2>1. HoldersOf(r)' = {o \in listed \cup {position} : o <= r /\ r < BatchEnd(o, batch)}
    <3>1. TypeOK' /\ CheckpointInv' /\ checkpoint' # NoFile
      BY <1>2, <1>5, WriteCheckpointInv DEF IInv
    <3>2. \A o \in listed \cup {position} : part'[o] = PartOf(o, batch)
      BY <3>1, <1>2, <1>5 DEF CheckpointInv, Committed, PartOf, Annotations, BatchEnd
    <3>3. \A o \in listed \cup {position} : part'[o] # NoFile
      BY <3>2, PartType, NoFileAssumption DEF PartOf
    <3>4. \A o \in listed \cup {position} :
            r \in part'[o].rows <=> o <= r /\ r < BatchEnd(o, batch)
      BY <3>2, PartRows
    <3>5. checkpoint' # NoFile /\ checkpoint'.parts = listed \cup {position}
      BY <1>2, <1>5
    <3> HIDE DEF next, end
    <3> QED
      BY <3>3, <3>4, <3>5 DEF HoldersOf
  <2>2. HoldersOf(r) = {o \in listed : o <= r /\ r < BatchEnd(o, batch)}
    <3>1. CASE checkpoint = NoFile
      BY <3>1 DEF IInv, MemoryInv, WriteCheckpoint, HoldersOf
    <3>2. CASE checkpoint # NoFile
      <4>1. checkpoint.parts = listed /\ (listed # {} => checkpoint.batch = batch)
        BY <3>2 DEF IInv, MemoryInv, WriteCheckpoint
      <4> QED
        BY <3>2, <4>1, HoldersByRange DEF IInv
    <3> QED
      BY <3>1, <3>2
  <2>3. \A o \in listed : o \in Nat /\ BatchEnd(o, batch) \in 0..Rows
                         /\ BatchEnd(o, batch) <= position
    BY <1>3, BatchesDisjoint, BatchEndFacts, GridFacts
  <2>4. \A o \in listed : o < position
    BY <1>3
  <2>5. r \in Nat /\ position \in Nat /\ Rows \in Nat
    BY RowsAssumption, DescribedAssumption, <1>3 DEF Offsets
  <2>6. CASE position <= r /\ r < end
    BY <2>1, <2>3, <2>5, <2>6, <1>4
  <2>7. CASE ~(position <= r /\ r < end)
    BY <2>1, <2>2, <2>5, <2>7, <1>4
  <2> QED
    BY <2>6, <2>7
<1> QED
  BY <1>4, <1>6, <1>7, <1>8 DEF Holders

\* Every other step leaves what is done as it is.
LEMMA OthersKeep ==
  ASSUME IInv, [Next]_vars, ~WriteCheckpoint
  PROVE  Consumed' = Consumed /\ Holders' = Holders
<1>1. CASE UNCHANGED <<part, checkpoint>>
  BY <1>1 DEF Consumed, Holders, HoldersOf
<1>2. CASE WritePart
  <2>1. checkpoint # NoFile => position \notin checkpoint.parts
    BY <1>2, BeyondListed DEF WritePart
  <2>2. checkpoint' = checkpoint
    BY <1>2 DEF WritePart, Refuse, disk
  <2>3. \A o \in Offsets : o # position => part'[o] = part[o]
    BY <1>2 DEF IInv, TypeOK, WritePart, Refuse, disk
  <2>4. checkpoint # NoFile => checkpoint.parts \subseteq Offsets
    BY DEF IInv, TypeOK, Checkpoint
  <2>5. \A r \in Described : HoldersOf(r)' = HoldersOf(r)
    BY <2>1, <2>2, <2>3, <2>4 DEF HoldersOf
  <2> QED
    BY <2>2, <2>5 DEF Consumed, Holders
<1>3. CASE \E kind \in Kinds, o \in Offsets : MoveOrphan(kind, o)
  <2>1. PICK kind \in Kinds, o \in Offsets : MoveOrphan(kind, o)
    BY <1>3
  <2>2. checkpoint' = checkpoint /\ o \notin checkpoint.parts
    BY <2>1 DEF MoveOrphan, NextOrphan, Orphans
  <2>3. \A p \in Offsets : p # o => part'[p] = part[p]
    BY <2>1 DEF IInv, TypeOK, MoveOrphan
  <2>4. checkpoint # NoFile => checkpoint.parts \subseteq Offsets
    BY DEF IInv, TypeOK, Checkpoint
  <2>5. \A r \in Described : HoldersOf(r)' = HoldersOf(r)
    BY <2>2, <2>3, <2>4 DEF HoldersOf
  <2> QED
    BY <2>2, <2>5 DEF Consumed, Holders
<1>4. ASSUME part' = part, checkpoint' # NoFile,
             checkpoint # NoFile =>
                checkpoint'.cursor = checkpoint.cursor /\ checkpoint'.parts = checkpoint.parts,
             checkpoint = NoFile => checkpoint'.cursor = 0 /\ checkpoint'.parts = {}
      PROVE  Consumed' = Consumed /\ Holders' = Holders
  <2>1. \A r \in Described : HoldersOf(r)' = HoldersOf(r)
    BY <1>4 DEF HoldersOf
  <2> QED
    BY <1>4, <2>1 DEF Consumed, Holders
<1>5. CASE WriteFinal
  <2> DEFINE last == NewCheckpoint(cursor, listed)
  <2>1. ValidCheckpoint(last)
    BY <1>5, MemoryValid DEF IInv, WriteFinal
  <2>2. checkpoint' = last /\ part' = part
    BY <1>5, <2>1 DEF WriteFinal
  <2>3. last \in Checkpoint /\ last # NoFile /\ last.cursor = cursor /\ last.parts = listed
    BY NoFileAssumption DEF IInv, TypeOK, NewCheckpoint, Checkpoint
  <2> QED
    BY <1>4, <1>5, <2>2, <2>3 DEF IInv, MemoryInv, WriteFinal
<1>6. CASE Initialize
  <2>1. CASE checkpoint # NoFile
    BY <1>1, <1>6, <2>1 DEF Initialize
  <2>2. CASE checkpoint = NoFile
    <3>1. NewCheckpoint(0, {}) \in Checkpoint
      BY RowsAssumption DEF IInv, TypeOK, NewCheckpoint, Checkpoint
    <3>2. /\ NewCheckpoint(0, {}) # NoFile
          /\ NewCheckpoint(0, {}).cursor = 0 /\ NewCheckpoint(0, {}).parts = {}
      BY <3>1, NoFileAssumption DEF NewCheckpoint
    <3> QED
      BY <1>4, <1>6, <2>2, <3>2 DEF Initialize
  <2> QED
    BY <2>1, <2>2
<1>7. UNCHANGED <<part, checkpoint>> \/ WritePart \/ WriteFinal \/ Initialize
      \/ \E kind \in Kinds, o \in Offsets : MoveOrphan(kind, o)
  BY DEF Next, Run, Begin, WorkerStep, OperatorStep, Kill, ResumeFresh, Resume,
         ResumeComplete, ResumeRefused, StopReading, WriteReceipt,
         QuarantineNothing, QuarantineRefused, QuarantineBegins, MoveRefused,
         QuarantineEnds, InitializeRefused, vars, disk, memory
<1> QED
  BY <1>1, <1>2, <1>3, <1>5, <1>6, <1>7

\* The worker implements exactly-once annotation: what the checkpoint lists is
\* done, in order, each described row in the one part named after its batch.
THEOREM Refinement == Spec => ImplementsExactlyOnce
<1> USE DEF Consumed, Holders, HoldersOf
<1>1. Init => IInv
  BY InitInv
<1>2. IInv /\ [Next]_vars => IInv'
  BY NextInv
<1>3. Init => Shard!Init
  BY DEF Init, Shard!Init
<1>4. ASSUME IInv, [Next]_vars
      PROVE  [Shard!Next]_<<Consumed, Holders>>
  <2>1. CASE WriteCheckpoint
    <3>1. Shard!Consume(BatchEnd(position, batch))
      BY <1>4, <2>1, CommitConsumes DEF Shard!Consume
    <3>2. BatchEnd(position, batch) \in 0..Rows
      BY <1>4, <2>1, CommitConsumes
    <3>3. Shard!Next
      BY <3>1, <3>2 DEF Shard!Next, Shard!Consume
    <3> QED
      BY <3>3
  <2>2. CASE ~WriteCheckpoint
    BY <1>4, <2>2, OthersKeep
  <2> QED
    BY <2>1, <2>2
<1> QED
  BY <1>1, <1>2, <1>3, <1>4, PTL DEF Spec, ImplementsExactlyOnce, Shard!Spec

=============================================================================
