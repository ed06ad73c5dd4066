------------------------ MODULE Publication_proofs -------------------------
(* Theorems about Publication, for any number of extracts and any bounds.  *)
EXTENDS Publication, TLAPS

-----------------------------------------------------------------------------
(* The inductive invariant.  TypeOK needs to know that the extract being   *)
(* uploaded has a pair; the properties of a completed run need what each   *)
(* point of the run has already established.                               *)

\* The Hub holds the local pair of s.
OnHub(s) == hubData[s] = local[s].output /\ hubManifests[s] = local[s]

\* The run has listed and removed what no local pair stands behind.
Cleaned ==
    \/ pc \in {"metadata", "done"}
    \/ pc \in {"send", "verify", "record"} /\ job = NoFile

JobInv ==
    /\ pc = "idle" => todo = {}
    /\ pc \in {"idle", "publish", "delete", "metadata", "done"} => job = NoFile
    /\ todo \subseteq Present
    /\ \A s \in Present : extract[s] # NoFile
    /\ job # NoFile => job \in Present
    /\ unsent \subseteq PlanFiles(job)
    /\ pc # "send" => unsent = {}
    /\ Cleaned \/ pc = "delete" => todo = {}

RecordInv ==
    pc = "record" =>
        /\ job # NoFile => OnHub(job)
        /\ hubDocs \in {docs, Edited}

\* An entry made for a table in this run is about that table; it may name
\* another extract only when the extract is another one by now.
Settled(s) ==
    \/ published[s] = Hashes(local[s])
    \/ /\ s \in outrun
       /\ ~UpToDate(s)
       /\ published[s] # NoFile
       /\ published[s].output = local[s].output

VisitedInv ==
    /\ pc # "idle" => \A s \in Present \ todo : Settled(s)
    /\ pc = "done" => metadata = docs

CleanInv ==
    /\ pc = "delete" => stale = StaleFiles
    /\ Cleaned => \A s \in Sources \ Present :
                    hubData[s] = NoFile /\ hubManifests[s] = NoFile

\* No content is younger than the last change.
AgeInv ==
    /\ \A s \in Sources : extract[s] # NoFile => extract[s] <= changes
    /\ \A s \in Present : local[s].source <= changes /\ local[s].output <= changes
    /\ \A s \in Sources : published[s] # NoFile =>
            published[s].source <= changes /\ published[s].output <= changes

\* What local[s] and published[s] hold is older than an extract not built yet.
Older(s) ==
    /\ s \in Present => local[s].source < extract[s] /\ local[s].output < extract[s]
    /\ published[s] # NoFile =>
        /\ published[s].output < extract[s]
        /\ s \in outrun \/ published[s].source < extract[s]

FreshInv == \A s \in Sources : extract[s] # NoFile /\ ~UpToDate(s) => Older(s)

IInv == TypeOK /\ JobInv /\ RecordInv /\ CleanInv /\ AgeInv

\* A manifest on the Hub stands for the local one: it describes the same table
\* and, when the entry is not of another extract, names the same extract.
Stands(s) ==
    /\ hubData[s] = local[s].output
    /\ hubManifests[s] # NoFile
    /\ hubManifests[s].output = local[s].output
    /\ s \notin outrun /\ published[s].source = local[s].source =>
            hubManifests[s].source = local[s].source

\* What a run may skip is on the Hub.
SkipInv ==
    \A s \in Present :
        published[s] # NoFile /\ published[s].output = local[s].output => Stands(s)

FInv == IInv /\ FreshInv /\ VisitedInv /\ SkipInv

USE DEF Points, Files
-----------------------------------------------------------------------------
LEMMA InitInv == Init => FInv
<1> SUFFICES ASSUME Init PROVE FInv
  OBVIOUS
<1>0. Present = {}
  BY DEF Init, Nothing, Present
<1>1. TypeOK
  BY BoundsAssumption DEF Init, TypeOK, Nothing
<1>2. JobInv /\ RecordInv /\ VisitedInv /\ CleanInv
  BY <1>0 DEF Init, JobInv, RecordInv, VisitedInv, CleanInv, Cleaned
<1>3. AgeInv /\ FreshInv /\ SkipInv
  BY <1>0 DEF Init, AgeInv, FreshInv, Older, SkipInv, Nothing
<1> QED
  BY <1>1, <1>2, <1>3 DEF FInv, IInv

-----------------------------------------------------------------------------
(* Each conjunct is kept by every step *)

LEMMA DescribedType == TypeOK => Described \in Docs
<1> SUFFICES ASSUME TypeOK, NEW s \in Sources
             PROVE  (IF local[s] = NoFile THEN NoFile ELSE local[s].output)
                        \in Nat \cup {NoFile}
  BY DEF Described, Docs
<1> QED
  BY DEF TypeOK, Pair

LEMMA TypeStep == IInv /\ [Next]_vars => TypeOK'
<1> SUFFICES ASSUME IInv, [Next]_vars PROVE TypeOK'
  OBVIOUS
<1> USE DEF IInv
<1>b. MaxRetries \in Nat /\ MaxChanges \in Nat /\ MaxFaults \in Nat /\ MaxEdits \in Nat
  BY BoundsAssumption
<1>p. \A s \in Present : local[s] \in Pair /\ NewEntry(s) \in Entry
  <2> SUFFICES ASSUME NEW s \in Present PROVE local[s] \in Pair /\ NewEntry(s) \in Entry
    OBVIOUS
  <2>1. local[s] \in Pair /\ extract[s] \in Nat
    BY DEF TypeOK, Present, JobInv
  <2> QED
    BY <2>1 DEF Pair, NewEntry, Entry
<1>1. CASE Start
  BY <1>1, DescribedType DEF Start, TypeOK, Present, artifacts, hub, state, upload, world
<1>2. CASE Send
  <2>1. PICK chunk \in SUBSET unsent \ {{}} :
        /\ unsent' = unsent \ chunk
        /\ hubData' = IF "data" \in chunk
                      THEN [hubData EXCEPT ![job] = local[job].output]
                      ELSE hubData
        /\ hubManifests' = IF "manifest" \in chunk
                           THEN [hubManifests EXCEPT ![job] = local[job]]
                           ELSE hubManifests
        /\ hubDocs' = IF "docs" \in chunk THEN docs ELSE hubDocs
    BY <1>2 DEF Send
  <2>2. "data" \in chunk \/ "manifest" \in chunk => job \in Present
    BY <2>1 DEF JobInv, PlanFiles
  <2>3. hubData' \in [Sources -> Nat \cup {NoFile}]
    BY <2>1, <2>2, <1>p DEF TypeOK, Pair
  <2>4. hubManifests' \in [Sources -> Pair \cup {NoFile}]
    BY <2>1, <2>2, <1>p DEF TypeOK
  <2> QED
    BY <1>2, <2>1, <2>3, <2>4
       DEF Send, TypeOK, artifacts, state, world
<1>3. CASE Sent \/ Retry
  BY <1>3, <1>b
     DEF Sent, Retry, MayRetry, PlanFiles, TypeOK, artifacts, hub, state
<1>4. CASE RecordSource
  <2>1. job \in Present
    BY <1>4 DEF RecordSource, JobInv
  <2>2. published' \in [Sources -> Entry \cup {NoFile}]
    BY <1>4, <2>1, <1>p DEF RecordSource, Record, TypeOK
  <2> QED
    BY <1>4, <2>1, <2>2 DEF RecordSource, Present, TypeOK, artifacts, hub, world
<1>5. CASE DeleteStale
  BY <1>5 DEF DeleteStale, TypeOK, artifacts, state, upload, world
<1>6. CASE ListRemote
  <2>1. StaleFiles \subseteq {"data", "manifest"} \X Sources
    BY DEF StaleFiles, Present
  <2> QED
    BY <1>6, <2>1 DEF ListRemote, TypeOK, artifacts, hub, state, upload, world
<1>7. ASSUME NEW s \in Sources, ChangeLocal(s)
      PROVE  TypeOK'
  <2>1. changes' \in 0..MaxChanges /\ changes' \in Nat
    BY <1>7, <1>b DEF ChangeLocal, TypeOK
  <2>2. local[s] \in Pair
    BY <1>7 DEF ChangeLocal, UpToDate, TypeOK
  <2>3. PICK output \in {local[s].output, changes'} :
            local' = [local EXCEPT ![s].output = output, ![s].stamp = changes']
    BY <1>7 DEF ChangeLocal
  <2>4. local'[s] = [source |-> local[s].source, output |-> output, stamp |-> changes']
    BY <2>2, <2>3 DEF TypeOK, Pair
  <2>5. local'[s] \in Pair
    BY <2>1, <2>2, <2>3, <2>4 DEF Pair
  <2>6. local' \in [Sources -> Pair \cup {NoFile}]
    BY <2>3, <2>5 DEF TypeOK
  <2> QED
    BY <1>7, <2>1, <2>6 DEF ChangeLocal, TypeOK, hub, state, upload
<1>16. ASSUME NEW s \in Sources, Rebuild(s)
       PROVE  TypeOK'
  <2>1. PICK output \in {extract[s]} \cup {local[t].output : t \in {s} \cap Present} :
            local' = [local EXCEPT ![s] = [source |-> extract[s],
                                           output |-> output, stamp |-> changes]]
    BY <1>16 DEF Rebuild
  <2>2. extract[s] \in Nat /\ changes \in Nat
    BY <1>16 DEF Rebuild, TypeOK
  <2>3. output \in Nat
    BY <2>1, <2>2, <1>p DEF Pair
  <2>4. [source |-> extract[s], output |-> output, stamp |-> changes] \in Pair
    BY <2>2, <2>3 DEF Pair
  <2> QED
    BY <1>16, <2>1, <2>4 DEF Rebuild, TypeOK, hub, state, upload, world
<1>17. ASSUME NEW s \in Sources, ReplaceExtract(s)
       PROVE  TypeOK'
  <2>1. changes' \in 0..MaxChanges /\ changes' \in Nat
    BY <1>17, <1>b DEF ReplaceExtract, TypeOK
  <2>2. extract' \in [Sources -> Nat \cup {NoFile}]
    BY <1>17, <2>1 DEF ReplaceExtract, TypeOK
  <2> QED
    BY <1>17, <2>1, <2>2 DEF ReplaceExtract, TypeOK, artifacts, hub, state, upload
<1>18. ASSUME NEW s \in Sources, Withdraw(s)
       PROVE  TypeOK'
  BY <1>18, <1>b DEF Withdraw, TypeOK, hub, state, upload
<1>8. CASE Fail
  BY <1>8, <1>b DEF Fail, Stop, TypeOK, artifacts, hub, state
<1>9. CASE EditCard
  BY <1>9, <1>b DEF EditCard, TypeOK, artifacts, state, upload
<1>10. ASSUME NEW s \in Sources, BeginUpload(s)
       PROVE  TypeOK'
  BY <1>10, <1>b DEF BeginUpload, PlanFiles, TypeOK, artifacts, hub, state, world
<1>11. ASSUME NEW s \in Sources, Skip(s)
       PROVE  TypeOK'
  BY <1>11 DEF Skip, TypeOK, artifacts, hub, state, upload, world
<1>12. CASE VerifyRefuses \/ Finish
  BY <1>12, <1>b
     DEF VerifyRefuses, Finish, Stop, TypeOK, artifacts, hub, state, world
<1>13. CASE BeginMetadata
  BY <1>13, <1>b
     DEF BeginMetadata, PlanFiles, TypeOK, artifacts, hub, state, world
<1>14. CASE VerifySucceeds \/ SkipMetadata \/ RecordMetadata
  BY <1>14
     DEF VerifySucceeds, SkipMetadata, RecordMetadata, TypeOK,
         artifacts, hub, state, upload, world
<1>15. CASE UNCHANGED vars
  BY <1>15 DEF vars, TypeOK, artifacts, hub, state, upload, world
<1> QED
  BY <1>1, <1>2, <1>3, <1>4, <1>5, <1>6, <1>7, <1>8, <1>9, <1>10, <1>11,
     <1>12, <1>13, <1>14, <1>15, <1>16, <1>17, <1>18 DEF Next, RunStep

LEMMA JobStep == IInv /\ [Next]_vars => JobInv'
<1> SUFFICES ASSUME IInv, [Next]_vars PROVE JobInv'
  OBVIOUS
<1> USE DEF IInv, JobInv, Cleaned, PlanFiles
<1>1. CASE Start
  BY <1>1 DEF Start, Present, upload
<1>2. ASSUME NEW s \in Sources, Skip(s) \/ BeginUpload(s)
      PROVE  JobInv'
  BY <1>2, NoFileAssumption DEF Skip, BeginUpload, First, Present, artifacts, upload
<1>3. CASE Send
  BY <1>3 DEF Send, Present, artifacts
<1>4. CASE Sent \/ Retry
  BY <1>4 DEF Sent, Retry, Present, artifacts
<1>5. CASE VerifySucceeds \/ RecordSource
  BY <1>5 DEF VerifySucceeds, RecordSource, Present, artifacts, upload
<1>6. CASE VerifyRefuses \/ Finish \/ Fail
  BY <1>6 DEF VerifyRefuses, Finish, Fail, Stop, Present, artifacts
<1>7. CASE ListRemote \/ DeleteStale
  BY <1>7 DEF ListRemote, DeleteStale, Present, artifacts, upload
<1>8. CASE SkipMetadata \/ BeginMetadata \/ RecordMetadata
  BY <1>8 DEF SkipMetadata, BeginMetadata, RecordMetadata, Present, artifacts, upload
<1>9. ASSUME NEW s \in Sources, ChangeLocal(s) \/ Rebuild(s) \/ Withdraw(s)
      PROVE  JobInv'
  <2>1. Present' \subseteq Present \cup {s}
    BY <1>9 DEF ChangeLocal, Rebuild, Withdraw, Present, TypeOK
  <2>2. ASSUME NEW t \in Present' PROVE extract'[t] # NoFile
    BY <1>9, <2>1 DEF ChangeLocal, Rebuild, Withdraw, UpToDate, Present, TypeOK
  <2> QED
    BY <1>9, <2>2 DEF ChangeLocal, Rebuild, Withdraw, upload
<1>11. ASSUME NEW s \in Sources, ReplaceExtract(s)
       PROVE  JobInv'
  <2>1. \A t \in Present : extract'[t] # NoFile
    BY <1>11, NoFileAssumption DEF ReplaceExtract, Present, TypeOK
  <2> QED
    BY <1>11, <2>1 DEF ReplaceExtract, Present, artifacts, upload
<1>10. CASE EditCard \/ UNCHANGED vars
  BY <1>10 DEF EditCard, vars, Present, artifacts, upload
<1> QED
  BY <1>1, <1>2, <1>3, <1>4, <1>5, <1>6, <1>7, <1>8, <1>9, <1>10, <1>11
     DEF Next, RunStep

LEMMA RecordStep == IInv /\ [Next]_vars => RecordInv'
<1> SUFFICES ASSUME IInv, [Next]_vars, pc' = "record"
             PROVE  RecordInv'
  BY DEF RecordInv
<1>1. CASE VerifySucceeds
  BY <1>1 DEF VerifySucceeds, Verified, RecordInv, OnHub, artifacts, hub, upload
<1>2. CASE EditCard \/ UNCHANGED vars
  BY <1>2 DEF EditCard, vars, IInv, RecordInv, OnHub, artifacts, hub, upload
<1>3. \A s \in Sources : /\ ~Skip(s) /\ ~BeginUpload(s) /\ ~ChangeLocal(s)
                         /\ ~Rebuild(s) /\ ~Withdraw(s)
  BY DEF Skip, BeginUpload, ChangeLocal, Rebuild, Withdraw
<1>4. ASSUME NEW s \in Sources, ReplaceExtract(s)
      PROVE  RecordInv'
  BY <1>4 DEF ReplaceExtract, IInv, RecordInv, OnHub, artifacts, hub, upload
<1> QED
  BY <1>1, <1>2, <1>3, <1>4
     DEF Next, RunStep, Start, Send, Sent, Retry, VerifyRefuses, RecordSource,
         ListRemote, DeleteStale, SkipMetadata, BeginMetadata, RecordMetadata,
         Finish, Fail, Stop

LEMMA CleanStep == IInv /\ [Next]_vars => CleanInv'
<1> SUFFICES ASSUME IInv, [Next]_vars PROVE CleanInv'
  OBVIOUS
<1> USE DEF IInv, CleanInv, Cleaned
<1>1. CASE ListRemote
  <2>1. pc' = "metadata" => \A s \in Sources \ Present :
                                hubData[s] = NoFile /\ hubManifests[s] = NoFile
    BY <1>1 DEF ListRemote, StaleFiles
  <2> QED
    BY <1>1, <2>1 DEF ListRemote, StaleFiles, Present, artifacts, hub
<1>2. CASE DeleteStale
  <2>1. \A s \in Sources \ Present :
            hubData'[s] = NoFile /\ hubManifests'[s] = NoFile
    BY <1>2 DEF DeleteStale, StaleFiles
  <2> QED
    BY <1>2, <2>1 DEF DeleteStale, Present, artifacts
<1>3. CASE Send
  <2>1. Cleaned' => hubData' = hubData /\ hubManifests' = hubManifests
    BY <1>3 DEF Send, JobInv, PlanFiles
  <2> QED
    BY <1>3, <2>1 DEF Send, Present, artifacts
<1>4. CASE SkipMetadata \/ BeginMetadata \/ RecordMetadata \/ Sent \/ Retry
           \/ VerifySucceeds
  BY <1>4 DEF SkipMetadata, BeginMetadata, RecordMetadata, Sent, Retry,
              VerifySucceeds, Present, artifacts, hub, upload
<1>5. CASE EditCard \/ UNCHANGED vars
  BY <1>5 DEF EditCard, vars, StaleFiles, Present, artifacts, hub, upload
<1>6. ASSUME NEW s \in Sources, BeginUpload(s)
      PROVE  CleanInv'
  BY <1>6, NoFileAssumption DEF BeginUpload
<1>7. ASSUME pc' \in {"idle", "publish"}
      PROVE  CleanInv'
  BY <1>7
<1>8. ASSUME NEW s \in Sources,
             Skip(s) \/ ChangeLocal(s) \/ Rebuild(s) \/ Withdraw(s)
      PROVE  CleanInv'
  BY <1>8 DEF Skip, ChangeLocal, Rebuild, Withdraw
<1>9. ASSUME NEW s \in Sources, ReplaceExtract(s)
      PROVE  CleanInv'
  BY <1>9 DEF ReplaceExtract, StaleFiles, Present, artifacts, hub, upload
<1> QED
  BY <1>1, <1>2, <1>3, <1>4, <1>5, <1>6, <1>7, <1>8, <1>9
     DEF Next, RunStep, Start, RecordSource, VerifyRefuses, Finish, Fail, Stop

-----------------------------------------------------------------------------
(* What a change of a pair or of an extract leaves *)

LEMMA RebuiltPair ==
  ASSUME IInv, NEW s \in Sources, Rebuild(s)
  PROVE  /\ local'[s] \in Pair
         /\ local'[s].source = extract[s]
         /\ \/ local'[s].output = extract[s]
            \/ s \in Present /\ local'[s].output = local[s].output
         /\ \A t \in Sources \ {s} : local'[t] = local[t]
         /\ Present' = Present \cup {s}
<1>1. PICK output \in {extract[s]} \cup {local[t].output : t \in {s} \cap Present} :
          local' = [local EXCEPT ![s] = [source |-> extract[s],
                                         output |-> output, stamp |-> changes]]
  BY DEF Rebuild
<1>2. extract[s] \in Nat /\ changes \in Nat
  BY DEF Rebuild, IInv, TypeOK
<1>3. output \in Nat
  BY <1>1, <1>2 DEF IInv, TypeOK, Present, Pair
<1>4. local'[s] = [source |-> extract[s], output |-> output, stamp |-> changes]
  BY <1>1 DEF IInv, TypeOK
<1>5. local'[s] \in Pair /\ local'[s].source = extract[s] /\ local'[s].output = output
  BY <1>2, <1>3, <1>4 DEF Pair
<1>6. \A t \in Sources \ {s} : local'[t] = local[t]
  BY <1>1 DEF IInv, TypeOK
<1>7. Present' = Present \cup {s}
  BY <1>5, <1>6, NoFileAssumption DEF Present
<1> QED
  BY <1>1, <1>5, <1>6, <1>7

LEMMA ChangedPair ==
  ASSUME IInv, NEW s \in Sources, ChangeLocal(s)
  PROVE  /\ local'[s] \in Pair
         /\ local'[s].source = local[s].source
         /\ local'[s].output \in {local[s].output, changes + 1}
         /\ \A t \in Sources \ {s} : local'[t] = local[t]
         /\ Present' = Present
         /\ changes' = changes + 1
<1>1. PICK output \in {local[s].output, changes'} :
          local' = [local EXCEPT ![s].output = output, ![s].stamp = changes']
  BY DEF ChangeLocal
<1>2. local[s] \in Pair /\ changes' = changes + 1 /\ changes \in Nat
  BY DEF ChangeLocal, UpToDate, IInv, TypeOK
<1>3. local'[s] = [source |-> local[s].source, output |-> output, stamp |-> changes']
  BY <1>1, <1>2 DEF IInv, TypeOK, Pair
<1>4. local'[s] \in Pair /\ local'[s].source = local[s].source /\ local'[s].output = output
  BY <1>1, <1>2, <1>3 DEF Pair
<1>5. \A t \in Sources \ {s} : local'[t] = local[t]
  BY <1>1 DEF IInv, TypeOK
<1>6. Present' = Present
  BY <1>2, <1>4, <1>5, NoFileAssumption DEF Present
<1> QED
  BY <1>1, <1>2, <1>4, <1>5, <1>6

LEMMA RecordedEntry ==
  ASSUME IInv, RecordSource
  PROVE  /\ job \in Present
         /\ OnHub(job)
         /\ published'[job] \in Entry
         /\ published'[job].source = extract[job]
         /\ published'[job].output = local[job].output
         /\ \A s \in Sources \ {job} : published'[s] = published[s]
         /\ outrun' = IF UpToDate(job) THEN outrun \ {job} ELSE outrun \cup {job}
         /\ UNCHANGED <<extract, local, hubData, hubManifests, changes, metadata>>
<1>1. job \in Present /\ OnHub(job)
  BY DEF RecordSource, IInv, JobInv, RecordInv
<1>2. published'[job] = NewEntry(job)
  BY <1>1 DEF RecordSource, Record, IInv, TypeOK, Present
<1>3. extract[job] \in Nat /\ local[job].output \in Nat
  BY <1>1 DEF IInv, JobInv, TypeOK, Present, Pair
<1>4. \A s \in Sources \ {job} : published'[s] = published[s]
  BY DEF RecordSource, Record, IInv, TypeOK
<1> QED
  BY <1>1, <1>2, <1>3, <1>4 DEF RecordSource, NewEntry, Entry, artifacts, hub, world

LEMMA AgeStep == IInv /\ [Next]_vars => AgeInv'
<1> SUFFICES ASSUME IInv, [Next]_vars PROVE AgeInv'
  OBVIOUS
<1> USE DEF AgeInv
<1>0. changes \in Nat
  BY DEF IInv, TypeOK
<1>t. /\ \A s \in Sources : extract[s] # NoFile => extract[s] \in Nat
      /\ \A s \in Present : local[s].source \in Nat /\ local[s].output \in Nat
      /\ \A s \in Sources : published[s] # NoFile =>
            published[s].source \in Nat /\ published[s].output \in Nat
  BY DEF IInv, TypeOK, Present, Pair, Entry
<1>a. AgeInv
  BY DEF IInv
<1>1. CASE RecordSource
  <2>1. extract[job] <= changes /\ local[job].output <= changes
    BY <1>1, <1>a, RecordedEntry DEF IInv, JobInv, Present
  <2>2. UNCHANGED Present
    BY <1>1, RecordedEntry DEF Present
  <2> QED
    BY <1>1, <1>a, <2>1, <2>2, RecordedEntry
<1>2. ASSUME NEW s \in Sources, ChangeLocal(s)
      PROVE  AgeInv'
  <2>1. UNCHANGED <<extract, published>>
    BY <1>2 DEF ChangeLocal, state
  <2>2. s \in Present
    BY <1>2 DEF ChangeLocal, UpToDate, Present
  <2>3. \A t \in Present' : local'[t].source <= changes + 1 /\ local'[t].output <= changes + 1
    BY <1>0, <1>t, <1>a, <1>2, <2>2, ChangedPair DEF Present
  <2> QED
    BY <1>0, <1>t, <1>a, <1>2, <2>1, <2>3, ChangedPair
<1>3. ASSUME NEW s \in Sources, Rebuild(s)
      PROVE  AgeInv'
  <2>1. UNCHANGED <<extract, published, changes>>
    BY <1>3 DEF Rebuild, state, world
  <2>2. extract[s] <= changes
    BY <1>3, <1>a DEF Rebuild
  <2>3. \A t \in Present' : local'[t].source <= changes /\ local'[t].output <= changes
    BY <1>a, <1>3, <2>2, RebuiltPair DEF Present
  <2> QED
    BY <1>a, <2>1, <2>3
<1>4. ASSUME NEW s \in Sources, ReplaceExtract(s)
      PROVE  AgeInv'
  <2>1. UNCHANGED <<local, published, Present>> /\ changes' = changes + 1
    BY <1>4 DEF ReplaceExtract, artifacts, state, Present
  <2>2. /\ extract'[s] \in 0..(changes + 1)
        /\ \A t \in Sources \ {s} : extract'[t] = extract[t]
    BY <1>0, <1>4, <2>1 DEF ReplaceExtract, IInv, TypeOK
  <2> QED
    BY <1>0, <1>t, <1>a, <2>1, <2>2
<1>5. ASSUME NEW s \in Sources, Withdraw(s)
      PROVE  AgeInv'
  <2>1. /\ \A t \in Sources : extract'[t] \in {NoFile, extract[t]}
        /\ \A t \in Present' : t \in Present /\ local'[t] = local[t]
    BY <1>5 DEF Withdraw, IInv, TypeOK, Present
  <2>2. published' = published /\ changes' = changes + 1
    BY <1>5 DEF Withdraw, state
  <2> QED
    BY <1>0, <1>t, <1>a, <2>1, <2>2
<1>6. CASE UNCHANGED <<extract, local, published, changes>>
  BY <1>a, <1>6 DEF Present
<1>7. ASSUME NEW s \in Sources, Skip(s) \/ BeginUpload(s)
      PROVE  UNCHANGED <<extract, local, published, changes>>
  BY <1>7 DEF Skip, BeginUpload, artifacts, state, world
<1> QED
  BY <1>1, <1>2, <1>3, <1>4, <1>5, <1>6, <1>7
     DEF Next, RunStep, Start, Send, Sent, Retry, VerifySucceeds, VerifyRefuses,
         ListRemote, DeleteStale, SkipMetadata, BeginMetadata, RecordMetadata,
         Finish, Fail, EditCard, artifacts, state, world, vars

-----------------------------------------------------------------------------
(* Without restored extracts contents never come back *)

\* The steps that touch neither a pair, nor an extract, nor an entry.
LEMMA QuietSteps ==
  ASSUME [Next]_vars, ~RecordSource,
         \A s \in Sources : /\ ~ChangeLocal(s) /\ ~Rebuild(s)
                            /\ ~ReplaceExtract(s) /\ ~Withdraw(s)
  PROVE  UNCHANGED <<extract, local, published, outrun, changes>>
<1>1. ASSUME NEW s \in Sources, Skip(s) \/ BeginUpload(s)
      PROVE  UNCHANGED <<extract, local, published, outrun, changes>>
  BY <1>1 DEF Skip, BeginUpload, artifacts, state, world
<1> QED
  BY <1>1
     DEF Next, RunStep, Start, Send, Sent, Retry, VerifySucceeds, VerifyRefuses,
         ListRemote, DeleteStale, SkipMetadata, BeginMetadata, RecordMetadata,
         Finish, Fail, EditCard, artifacts, state, world, vars

LEMMA ReplacedExtract ==
  ASSUME "restore" \notin ChangeKinds, IInv, NEW s \in Sources, ReplaceExtract(s)
  PROVE  /\ extract'[s] = changes + 1
         /\ \A t \in Sources \ {s} : extract'[t] = extract[t]
         /\ changes' = changes + 1 /\ changes \in Nat
         /\ UNCHANGED <<local, docs, hubData, hubManifests, published, outrun,
                        metadata, pc, todo, Present>>
BY DEF ReplaceExtract, IInv, TypeOK, artifacts, hub, state, Present

LEMMA FreshStep ==
  ASSUME "restore" \notin ChangeKinds, IInv, FreshInv, [Next]_vars
  PROVE  FreshInv'
<1> USE DEF FreshInv, Older
<1>0. changes \in Nat /\ \A s \in Present : local[s] \in Pair
  BY DEF IInv, TypeOK, Present
<1>t. /\ \A s \in Sources : extract[s] # NoFile => extract[s] \in Nat
      /\ \A s \in Present : local[s].source \in Nat /\ local[s].output \in Nat
      /\ \A s \in Sources : published[s] # NoFile =>
            published[s].source \in Nat /\ published[s].output \in Nat
  BY DEF IInv, TypeOK, Present, Pair, Entry
<1>1. CASE RecordSource
  <2>1. ASSUME NEW s \in Sources, extract'[s] # NoFile, ~UpToDate(s)'
        PROVE  Older(s)'
    <3>1. Older(s) /\ ~UpToDate(s) /\ UNCHANGED Present
      BY <1>1, <2>1, RecordedEntry DEF UpToDate, Present
    <3> QED
      BY <1>1, <3>1, RecordedEntry
  <2> QED
    BY <2>1
<1>2. ASSUME NEW s \in Sources, ChangeLocal(s)
      PROVE  FreshInv'
  <2>1. UNCHANGED <<extract, published, outrun>> /\ UpToDate(s)
    BY <1>2 DEF ChangeLocal, state
  <2>2. UpToDate(s)'
    BY <1>2, <2>1, ChangedPair, NoFileAssumption DEF UpToDate
  <2> QED
    BY <1>2, <2>1, <2>2, ChangedPair DEF UpToDate
<1>3. ASSUME NEW s \in Sources, Rebuild(s)
      PROVE  FreshInv'
  <2>1. UNCHANGED <<extract, published, outrun>>
    BY <1>3 DEF Rebuild, state
  <2>2. UpToDate(s)'
    BY <1>3, <2>1, RebuiltPair, NoFileAssumption DEF UpToDate
  <2> QED
    BY <1>3, <2>1, <2>2, RebuiltPair DEF UpToDate
<1>4. ASSUME NEW s \in Sources, ReplaceExtract(s)
      PROVE  FreshInv'
  <2>1. ASSUME NEW t \in Sources, t # s, extract'[t] # NoFile, ~UpToDate(t)'
        PROVE  Older(t)'
    BY <1>4, <2>1, ReplacedExtract DEF UpToDate
  <2>2. Older(s)'
    <3>1. s \in Present => local[s].source < changes + 1 /\ local[s].output < changes + 1
      BY <1>0, <1>t DEF IInv, AgeInv
    <3>2. published[s] # NoFile =>
            published[s].source < changes + 1 /\ published[s].output < changes + 1
      BY <1>0, <1>t DEF IInv, AgeInv
    <3> QED
      BY <1>4, <3>1, <3>2, ReplacedExtract
  <2> QED
    BY <2>1, <2>2
<1>5. ASSUME NEW s \in Sources, Withdraw(s)
      PROVE  FreshInv'
  <2>1. UNCHANGED <<published, outrun>> /\ extract'[s] = NoFile
    BY <1>5 DEF Withdraw, state, IInv, TypeOK
  <2>2. \A t \in Sources \ {s} : /\ extract'[t] = extract[t] /\ local'[t] = local[t]
                                 /\ t \in Present' <=> t \in Present
    BY <1>5 DEF Withdraw, IInv, TypeOK, Present
  <2> QED
    BY <2>1, <2>2 DEF UpToDate
<1>6. CASE UNCHANGED <<extract, local, published, outrun, changes>>
  BY <1>6 DEF UpToDate, Present
<1> QED
  BY <1>1, <1>2, <1>3, <1>4, <1>5, <1>6, QuietSteps

LEMMA VisitedStep ==
  ASSUME "restore" \notin ChangeKinds, IInv, VisitedInv, [Next]_vars
  PROVE  VisitedInv'
<1> USE DEF VisitedInv
<1>1. CASE Start
  BY <1>1 DEF Start, Present
<1>2. ASSUME NEW s \in Sources, Skip(s)
      PROVE  VisitedInv'
  BY <1>2 DEF Skip, Present, AlreadyPublished, Settled, UpToDate, artifacts, state
<1>3. ASSUME NEW s \in Sources, BeginUpload(s)
      PROVE  VisitedInv'
  BY <1>3 DEF BeginUpload, Present, Settled, UpToDate, artifacts, state
<1>4. CASE RecordSource
  <2>1. pc' = "publish" /\ pc = "record" /\ todo' = todo \ {job}
    BY <1>4 DEF RecordSource
  <2>2. ASSUME NEW s \in Present, s = job
        PROVE  Settled(s)'
    <3>1. CASE UpToDate(s)
      <4>1. published'[s] = Hashes(local[s])
        BY <1>4, <2>2, <3>1 DEF RecordSource, Record, NewEntry, Hashes, UpToDate, IInv, TypeOK
      <4> QED
        BY <1>4, <4>1, RecordedEntry DEF Settled, Hashes
    <3>2. CASE ~UpToDate(s)
      <4>1. published'[s] # NoFile /\ published'[s].output = local[s].output
        BY <1>4, <2>2, RecordedEntry, NoFileAssumption
      <4>2. s \in outrun' /\ ~UpToDate(s)'
        BY <1>4, <2>2, <3>2, RecordedEntry DEF UpToDate
      <4> QED
        BY <1>4, <4>1, <4>2, RecordedEntry DEF Settled
    <3> QED
      BY <3>1, <3>2
  <2>3. ASSUME NEW s \in Present, s # job, Settled(s)
        PROVE  Settled(s)'
    <3>1. /\ published'[s] = published[s]
          /\ s \in outrun => s \in outrun'
          /\ UNCHANGED <<extract, local>>
      BY <1>4, <2>3, RecordedEntry DEF Present
    <3> QED
      BY <2>3, <3>1 DEF Settled, UpToDate, Hashes
  <2>4. UNCHANGED Present
    BY <1>4, RecordedEntry DEF Present
  <2> QED
    BY <2>1, <2>2, <2>3, <2>4
<1>5. CASE RecordMetadata \/ SkipMetadata
  BY <1>5 DEF RecordMetadata, SkipMetadata, Present, Settled, UpToDate, artifacts, state
<1>6. CASE VerifyRefuses \/ Finish \/ Fail
  BY <1>6 DEF VerifyRefuses, Finish, Fail, Stop
<1>7. ASSUME NEW s \in Sources, ChangeLocal(s) \/ Rebuild(s) \/ Withdraw(s)
      PROVE  VisitedInv'
  BY <1>7 DEF ChangeLocal, Rebuild, Withdraw
<1>8. CASE Send \/ Sent \/ Retry \/ VerifySucceeds \/ ListRemote
           \/ DeleteStale \/ BeginMetadata
  BY <1>8 DEF Send, Sent, Retry, VerifySucceeds, ListRemote, DeleteStale,
              BeginMetadata, Present, Settled, UpToDate, artifacts, state
<1>9. CASE EditCard \/ UNCHANGED vars
  BY <1>9 DEF EditCard, vars, Present, Settled, UpToDate, artifacts, state
<1>10. ASSUME NEW s \in Sources, ReplaceExtract(s)
       PROVE  VisitedInv'
  <2>1. s \in Present => local[s].source # changes + 1
    <3>1. s \in Present => local[s].source \in Nat /\ local[s].source <= changes
      BY DEF IInv, TypeOK, AgeInv, Present, Pair
    <3> QED
      BY <1>10, <3>1, ReplacedExtract
  <2>2. \A t \in Present : Settled(t) => Settled(t)'
    BY <1>10, <2>1, ReplacedExtract DEF Settled, UpToDate, Hashes, Present
  <2> QED
    BY <1>10, <2>2, ReplacedExtract
<1> QED
  BY <1>1, <1>2, <1>3, <1>4, <1>5, <1>6, <1>7, <1>8, <1>9, <1>10 DEF Next, RunStep

LEMMA SkipStep ==
  ASSUME "restore" \notin ChangeKinds, IInv, FreshInv, SkipInv, [Next]_vars
  PROVE  SkipInv'
<1> USE DEF SkipInv, Stands
<1>t. /\ changes \in Nat
      /\ \A s \in Present : local[s] \in Pair
      /\ \A s \in Sources : published[s] # NoFile =>
            /\ published[s].source \in Nat /\ published[s].source <= changes
            /\ published[s].output \in Nat /\ published[s].output <= changes
  BY DEF IInv, TypeOK, AgeInv, Present, Entry
<1>1. CASE RecordSource
  <2>0. /\ OnHub(job)
        /\ \A s \in Sources \ {job} : published'[s] = published[s] /\ (s \in outrun' <=> s \in outrun)
        /\ UNCHANGED <<local, hubData, hubManifests>>
    BY <1>1, RecordedEntry
  <2>1. ASSUME NEW s \in Present, s = job
        PROVE  Stands(s)'
    BY <1>t, <2>0, <2>1, NoFileAssumption DEF OnHub
  <2>2. UNCHANGED Present
    BY <2>0 DEF Present
  <2> QED
    BY <2>0, <2>1, <2>2 DEF Present
<1>2. CASE Send
  <2>1. \A s \in Present : /\ hubData'[s] \in {hubData[s], local[s].output}
                           /\ hubManifests'[s] \in {hubManifests[s], local[s]}
    BY <1>2 DEF Send, IInv, TypeOK, Present
  <2>2. UNCHANGED <<local, published, outrun, Present>>
    BY <1>2 DEF Send, Present, artifacts, state
  <2> QED
    BY <1>t, <2>1, <2>2, NoFileAssumption
<1>3. CASE DeleteStale
  <2>1. \A s \in Present : hubData'[s] = hubData[s] /\ hubManifests'[s] = hubManifests[s]
    BY <1>3 DEF DeleteStale, IInv, CleanInv, TypeOK, StaleFiles, Present
  <2>2. UNCHANGED <<local, published, outrun, Present>>
    BY <1>3 DEF DeleteStale, Present, artifacts, state
  <2> QED
    BY <2>1, <2>2
<1>4. ASSUME NEW s \in Sources, ChangeLocal(s)
      PROVE  SkipInv'
  <2>1. UNCHANGED <<hubData, hubManifests, published, outrun>> /\ s \in Present
    BY <1>4 DEF ChangeLocal, UpToDate, Present, hub, state
  <2>2. published[s] # NoFile => published[s].output # changes + 1
    BY <1>t, <1>4
  <2>3. published[s] # NoFile /\ published[s].output = local'[s].output => Stands(s)'
    BY <1>4, <2>1, <2>2, ChangedPair
  <2>4. \A t \in Present' \ {s} : t \in Present /\ local'[t] = local[t]
    BY <1>4, ChangedPair DEF Present
  <2> QED
    BY <2>1, <2>3, <2>4
<1>5. ASSUME NEW s \in Sources, Rebuild(s)
      PROVE  SkipInv'
  <2>1. UNCHANGED <<hubData, hubManifests, published, outrun>>
    BY <1>5 DEF Rebuild, hub, state
  <2>2. extract[s] \in Nat /\ Older(s)
    BY <1>5 DEF Rebuild, FreshInv, IInv, TypeOK
  <2>3. published[s] # NoFile =>
            /\ published[s].output # extract[s]
            /\ s \in outrun \/ published[s].source # extract[s]
    BY <1>t, <2>2 DEF Older
  <2>4. published[s] # NoFile /\ published[s].output = local'[s].output => Stands(s)'
    BY <1>5, <2>1, <2>3, RebuiltPair
  <2>5. \A t \in Present' \ {s} : t \in Present /\ local'[t] = local[t]
    BY <1>5, RebuiltPair DEF Present
  <2> QED
    BY <2>1, <2>4, <2>5
<1>6. ASSUME NEW s \in Sources, Withdraw(s)
      PROVE  SkipInv'
  <2>1. UNCHANGED <<hubData, hubManifests, published, outrun>>
    BY <1>6 DEF Withdraw, hub, state
  <2>2. \A t \in Present' : t \in Present /\ local'[t] = local[t]
    BY <1>6 DEF Withdraw, IInv, TypeOK, Present
  <2> QED
    BY <2>1, <2>2
<1>7. ASSUME NEW s \in Sources, ReplaceExtract(s)
      PROVE  SkipInv'
  BY <1>7, ReplacedExtract
<1>8. CASE UNCHANGED <<local, published, outrun, hubData, hubManifests>>
  BY <1>8 DEF Present
<1>9. ASSUME NEW s \in Sources, Skip(s) \/ BeginUpload(s)
      PROVE  UNCHANGED <<local, published, outrun, hubData, hubManifests>>
  BY <1>9 DEF Skip, BeginUpload, artifacts, hub, state
<1> QED
  BY <1>1, <1>2, <1>3, <1>4, <1>5, <1>6, <1>7, <1>8, <1>9
     DEF Next, RunStep, Start, Sent, Retry, VerifySucceeds, VerifyRefuses,
         ListRemote, SkipMetadata, BeginMetadata, RecordMetadata,
         Finish, Fail, EditCard, artifacts, hub, state, vars

-----------------------------------------------------------------------------
(* Theorems *)

LEMMA Inductive == Spec => []IInv
<1>1. Init => IInv
  BY InitInv DEF FInv
<1>2. IInv /\ [Next]_vars => IInv'
  BY TypeStep, JobStep, RecordStep, CleanStep, AgeStep DEF IInv
<1> QED
  BY <1>1, <1>2, PTL DEF Spec

LEMMA FreshInductive ==
  ASSUME "restore" \notin ChangeKinds
  PROVE  Spec => []FInv
<1>1. Init => FInv
  BY InitInv
<1>2. FInv /\ [Next]_vars => FInv'
  <2> SUFFICES ASSUME FInv, [Next]_vars PROVE FInv'
    OBVIOUS
  <2>1. IInv'
    BY TypeStep, JobStep, RecordStep, CleanStep, AgeStep DEF FInv, IInv
  <2>2. FreshInv' /\ VisitedInv' /\ SkipInv'
    BY FreshStep, VisitedStep, SkipStep DEF FInv
  <2> QED
    BY <2>1, <2>2 DEF FInv
<1> QED
  BY <1>1, <1>2, PTL DEF Spec

\* Every variable keeps its type.
THEOREM TypeCorrect == Spec => []TypeOK
<1>1. IInv => TypeOK
  BY DEF IInv
<1> QED
  BY <1>1, Inductive, PTL

\* Unless contents seen before come back, the state file after a completed run
\* matches every pair whose extract is still there, whatever was killed,
\* retried, edited or replaced before.
THEOREM Settles ==
  ASSUME "restore" \notin ChangeKinds
  PROVE  Spec => []CompletedRunSettles
<1>1. FInv => CompletedRunSettles
  <2> SUFFICES ASSUME FInv, pc = "done" PROVE CompletedRunSettles
    BY DEF CompletedRunSettles
  <2>1. \A s \in Present : Settled(s)
    BY DEF FInv, IInv, JobInv, VisitedInv, Cleaned
  <2> QED
    BY <2>1 DEF FInv, VisitedInv, CompletedRunSettles, Settled, AlreadyPublished
<1> QED
  BY <1>1, FreshInductive, PTL

\* The state file gains only entries for what the Hub holds.
THEOREM RecordsVerified == Spec => OnlyPublishedIsRecorded
<1> DEFINE Gain ==
        /\ \A s \in Sources :
                published'[s] # published[s] =>
                    /\ hubData[s] = published'[s].output
                    /\ hubManifests[s] = local[s]
        /\ metadata' # metadata => hubDocs \in {metadata', Edited}
<1>1. IInv /\ [Next]_vars => Gain
  <2> SUFFICES ASSUME IInv, [Next]_vars PROVE Gain
    OBVIOUS
  <2>1. CASE RecordSource
    BY <2>1, RecordedEntry DEF OnHub
  <2>2. CASE RecordMetadata
    BY <2>2 DEF RecordMetadata, IInv, RecordInv
  <2>3. CASE UNCHANGED state
    BY <2>3 DEF state
  <2>4. ASSUME NEW s \in Sources,
               \/ Skip(s) \/ BeginUpload(s) \/ ChangeLocal(s)
               \/ Rebuild(s) \/ ReplaceExtract(s) \/ Withdraw(s)
        PROVE  UNCHANGED state
    BY <2>4 DEF Skip, BeginUpload, ChangeLocal, Rebuild, ReplaceExtract, Withdraw
  <2> QED
    BY <2>1, <2>2, <2>3, <2>4
       DEF Next, RunStep, Start, Send, Sent, Retry, VerifySucceeds,
           VerifyRefuses, ListRemote, DeleteStale, SkipMetadata, BeginMetadata,
           Finish, Fail, EditCard, state, vars
<1> QED
  BY <1>1, Inductive, PTL DEF Spec, OnlyPublishedIsRecorded, Gain

\* Unless contents seen before come back, a completed run leaves on the Hub
\* exactly the local tables, each beside a manifest that describes it.
THEOREM Publishes ==
  ASSUME "restore" \notin ChangeKinds
  PROVE  Spec => []CompletedRunIsPublished
<1>1. FInv => CompletedRunIsPublished
  <2> SUFFICES ASSUME FInv, pc = "done" PROVE CompletedRunIsPublished
    BY DEF CompletedRunIsPublished
  <2>1. ASSUME NEW s \in Present
        PROVE  /\ Stands(s)
               /\ s \notin outrun => hubManifests[s].source = local[s].source
    <3>1. Settled(s)
      BY DEF FInv, IInv, JobInv, VisitedInv, Cleaned
    <3>2. CASE published[s] = Hashes(local[s])
      <4>1. /\ published[s].output = local[s].output
            /\ published[s].source = local[s].source
        BY <3>2 DEF Hashes
      <4>2. published[s] # NoFile
        BY <3>2, NoFileAssumption DEF Hashes, FInv, IInv, TypeOK, Present, Pair, Entry
      <4> QED
        BY <4>1, <4>2 DEF FInv, SkipInv, Stands
    <3>3. CASE s \in outrun /\ published[s] # NoFile /\ published[s].output = local[s].output
      BY <3>3 DEF FInv, SkipInv
    <3> QED
      BY <3>1, <3>2, <3>3 DEF Settled
  <2>2. \A s \in Sources \ Present : hubData[s] = NoFile /\ hubManifests[s] = NoFile
    BY DEF FInv, IInv, CleanInv, Cleaned
  <2>3. \A s \in Sources : hubData[s] = Described[s]
    BY <2>1, <2>2 DEF Stands, Described, Present
  <2>4. hubData = Described
    BY <2>3 DEF FInv, IInv, TypeOK, Described
  <2> QED
    BY <2>1, <2>2, <2>4 DEF CompletedRunIsPublished, Stands
<1> QED
  BY <1>1, FreshInductive, PTL
=============================================================================
