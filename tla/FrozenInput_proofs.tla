------------------------- MODULE FrozenInput_proofs -------------------------
(* Theorems about FrozenInput: types, what everything was made of, on      *)
(* which evidence a job was submitted, and what a text is labelled with.   *)
EXTENDS FrozenInput, FiniteSetTheorems, WellFoundedInduction, TLAPS

USE FrozenInputAssumption

\* Committed parts that were made of the frozen input, but for the gaps.
Good(sequence) ==
    /\ sequence \in Seq(Parts)
    /\ \A i \in DOMAIN sequence : IsFrozen(sequence[i])

\* Before the snapshot there is nothing that it could have to do with, and the
\* code is frozen file after file before anything else.
NothingBefore ==
    /\ draft # Nothing =>
        /\ snapshot = Nothing
        /\ draft.rows # Nothing => draft.code \in [Modules -> Versions]
    /\ snapshot = Nothing =>
        /\ stage = Nothing
        /\ granted = Nothing
        /\ worker["site"] = Nothing
        /\ worker["home"] # Nothing =>
                worker["home"].step = "imported" /\ worker["home"].checked = {}
        /\ \A place \in Places : parts[place] = <<>>
        /\ DOMAIN payloads = {}
        /\ remote = NoFiles

\* A payload is sealed once under its name, and sent after it was verified.
StageKnows ==
    stage # Nothing =>
        /\ stage.step \in {"copying", "source"} =>
                stage.resume \notin DOMAIN payloads
        /\ stage.step \in {"sealed", "sending"} => stage.resume \in DOMAIN payloads
        /\ stage.step = "sending" => VerifiedPayload(stage.resume)

RemoteIsFrozen ==
    /\ remote.project # Nothing => remote.project = snapshot.code
    /\ remote.source # Nothing => VerifiedSource(remote.source)
    /\ granted # Nothing \/ worker["site"] # Nothing => remote.project # Nothing

\* A module a worker has imported before its check: what is on disk, until the
\* check, and the frozen one from then on; and glotlid.py, to be imported yet.
Imports(place) ==
    LET w == worker[place]
    IN  /\ w.code \in [{"detector"} -> Versions]
        /\ w.checked \subseteq Modules
        /\ \/ "detector" \in RacedAt(place)
           \/ "detector" \in w.checked /\ w.code["detector"] = snapshot.code["detector"]
           \/ "detector" \notin w.checked /\ w.code["detector"] = ProjectAt(place)["detector"]
        /\ "glotlid" \in w.checked =>
                \/ "glotlid" \in RacedAt(place)
                \/ ProjectAt(place)["glotlid"] = snapshot.code["glotlid"]

\* The code that runs once everything is imported.
Runs(place, code) ==
    /\ code \in [Modules -> Versions]
    /\ \A m \in Modules \ RacedAt(place) : code[m] = snapshot.code[m]

\* The file a worker has read, or is about to open.
Reads(place, file) == "source" \in RacedAt(place) \/ VerifiedSource(file)

WorkerKnows(place) ==
    worker[place] # Nothing =>
        /\ worker[place].step = "imported" => Imports(place)
        /\ worker[place].step # "imported" => Runs(place, worker[place].code)
        /\ worker[place].step \in {"verified", "reading", "annotated"} =>
                Good(worker[place].done)
        /\ worker[place].step = "verified" => Reads(place, SourceAt(place))
        /\ worker[place].step \in {"reading", "annotated"} =>
                Reads(place, worker[place].file) /\ worker[place].file \in Versions

\* The inductive invariant.
Frozen ==
    /\ TypeOK
    /\ NothingBefore
    /\ StageKnows
    /\ \A r \in DOMAIN payloads : Good(payloads[r].resume)
    /\ RemoteIsFrozen
    /\ \A place \in Places : Good(parts[place]) /\ WorkerKnows(place)

-----------------------------------------------------------------------------
(* Lemmas *)

\* What was good stays good while the snapshot stays.
LEMMA GoodStays ==
    ASSUME NEW sequence, snapshot' = snapshot, Good(sequence)
    PROVE  Good(sequence)'
  BY DEF Good, IsFrozen, VerifiedSource, SourceFileSnapshot

\* Each part of the invariant survives a step that leaves alone what it is about.
LEMMA PartsStay ==
    ASSUME \A place \in Places : Good(parts[place]), UNCHANGED <<snapshot, parts>>
    PROVE  (\A place \in Places : Good(parts[place]))'
  <1> SUFFICES ASSUME NEW place \in Places PROVE Good(parts[place])'
    OBVIOUS
  <1>1. PICK sequence : sequence = parts[place]
    OBVIOUS
  <1>2. Good(sequence)'
    BY <1>1, GoodStays
  <1> QED BY <1>1, <1>2

LEMMA PayloadsStay ==
    ASSUME \A r \in DOMAIN payloads : Good(payloads[r].resume), UNCHANGED <<snapshot, payloads>>
    PROVE  (\A r \in DOMAIN payloads : Good(payloads[r].resume))'
  <1> SUFFICES ASSUME NEW r \in DOMAIN payloads PROVE Good(payloads[r].resume)'
    OBVIOUS
  <1>1. PICK resume : resume = payloads[r].resume
    OBVIOUS
  <1>2. Good(resume)'
    BY <1>1, GoodStays
  <1> QED BY <1>1, <1>2

LEMMA StageStays ==
    ASSUME StageKnows, UNCHANGED <<snapshot, payloads, stage>>
    PROVE  StageKnows'
  BY DEF StageKnows, VerifiedPayload, VerifiedSource, SourceFileSnapshot

LEMMA RemoteStays ==
    ASSUME RemoteIsFrozen, UNCHANGED <<snapshot, remote, granted>>, worker'["site"] = worker["site"]
    PROVE  RemoteIsFrozen'
  BY DEF RemoteIsFrozen, VerifiedSource, SourceFileSnapshot

LEMMA WorkerKept ==
    ASSUME NEW place \in Places, WorkerKnows(place), snapshot' = snapshot,
           worker'[place] = worker[place], SourceAt(place)' = SourceAt(place),
           ProjectAt(place)' = ProjectAt(place), RacedAt(place)' = RacedAt(place)
    PROVE  WorkerKnows(place)'
  <1>2. Imports(place)' <=> Imports(place)
    BY DEF Imports
  <1>3. Runs(place, worker[place].code)' <=> Runs(place, worker[place].code)
    BY DEF Runs
  <1>4. Good(worker[place].done) => Good(worker[place].done)'
    <2>1. PICK done : done = worker[place].done
      OBVIOUS
    <2>2. Good(done) => Good(done)'
      BY GoodStays
    <2> QED BY <2>1, <2>2
  <1>5. /\ Reads(place, SourceAt(place))' <=> Reads(place, SourceAt(place))
        /\ Reads(place, worker[place].file)' <=> Reads(place, worker[place].file)
    BY DEF Reads, VerifiedSource, SourceFileSnapshot
  <1> QED BY <1>2, <1>3, <1>4, <1>5 DEF WorkerKnows

LEMMA WorkerStays ==
    ASSUME NEW place \in Places, WorkerKnows(place),
           UNCHANGED <<snapshot, source, project, remote, raced>>, worker'[place] = worker[place]
    PROVE  WorkerKnows(place)'
  <1>1. /\ SourceAt(place)' = SourceAt(place) /\ ProjectAt(place)' = ProjectAt(place)
        /\ RacedAt(place)' = RacedAt(place)
    BY DEF SourceAt, ProjectAt, RacedAt
  <1> QED BY <1>1, WorkerKept

\* A batch that was read from the frozen file may be committed.
LEMMA GoodGrows ==
    ASSUME NEW sequence, NEW part \in Parts, Good(sequence), IsFrozen(part)
    PROVE  Good(Append(sequence, part))
  <1>1. Append(sequence, part) \in Seq(Parts)
    BY DEF Good
  <1>2. ASSUME NEW i \in DOMAIN Append(sequence, part)
        PROVE  IsFrozen(Append(sequence, part)[i])
    <2>1. CASE i = Len(sequence) + 1
      BY <2>1 DEF Good
    <2>2. CASE i # Len(sequence) + 1
      <3>1. i \in DOMAIN sequence /\ Append(sequence, part)[i] = sequence[i]
        BY <2>2 DEF Good
      <3> QED BY <3>1 DEF Good
    <2> QED BY <2>1, <2>2
  <1> QED BY <1>1, <1>2 DEF Good

\* One more file that was read.
LEMMA ReadingsGrow ==
    ASSUME NEW read, read \in Readings \/ read = <<>>, NEW m \in Modules,
           project \in [Modules -> Versions]
    PROVE  ReadAlso(read, m) \in Readings
  <1>1. PICK S \in SUBSET Modules : DOMAIN read = S /\ \A k \in S : read[k] \in Versions
    <2>1. CASE read = <<>>
      <3>1. DOMAIN read = {}
        BY <2>1
      <3> QED BY <3>1
    <2>2. CASE read \in Readings
      BY <2>2 DEF Readings
    <2> QED BY <2>1, <2>2
  <1>2. S \cup {m} \in SUBSET Modules
    BY <1>1
  <1>3. ReadAlso(read, m) \in [S \cup {m} -> Versions]
    BY <1>1 DEF ReadAlso
  <1> QED BY <1>2, <1>3 DEF Readings
-----------------------------------------------------------------------------
(* language prepare and grid stage *)

\* Reading the inputs makes nothing of them.
LEMMA FingerprintProjectKeeps ==
    ASSUME Frozen, FingerprintProject
    PROVE  Frozen'
  <1>1. TypeOK'
    <2> DEFINE read == IF draft = Nothing THEN <<>> ELSE draft.code
    <2>1. PICK m \in Unread(DOMAIN read) : draft' = [code |-> ReadAlso(read, m), rows |-> Nothing]
      BY DEF FingerprintProject
    <2>2. m \in Modules
      BY DEF Unread, Modules
    <2>3. read \in Readings \/ read = <<>>
      BY DEF Frozen, TypeOK
    <2>4. project \in [Modules -> Versions]
      BY DEF Frozen, TypeOK
    <2> HIDE DEF read
    <2>5. ReadAlso(read, m) \in Readings
      BY <2>2, <2>3, <2>4, ReadingsGrow
    <2>6. draft' \in [code : Readings, rows : Copies]
      BY <2>1, <2>5 DEF Copies
    <2> QED BY <2>6 DEF Frozen, TypeOK, FingerprintProject, inputs
  <1>2. NothingBefore'
    BY DEF Frozen, NothingBefore, FingerprintProject, inputs
  <1>3. StageKnows'
    BY StageStays DEF Frozen, FingerprintProject, inputs
  <1>4. (\A r \in DOMAIN payloads : Good(payloads[r].resume))'
    BY PayloadsStay DEF Frozen, FingerprintProject, inputs
  <1>5. RemoteIsFrozen'
    BY RemoteStays DEF Frozen, FingerprintProject, inputs
  <1>6. (\A place \in Places : Good(parts[place]))'
    BY PartsStay DEF Frozen, FingerprintProject, inputs
  <1>7. (\A place \in Places : WorkerKnows(place))'
    BY WorkerStays DEF Frozen, FingerprintProject, inputs
  <1> QED BY <1>1, <1>2, <1>3, <1>4, <1>5, <1>6, <1>7 DEF Frozen

LEMMA InspectSourceKeeps ==
    ASSUME Frozen, InspectSource
    PROVE  Frozen'
  <1>1. TypeOK'
    BY DEF Frozen, TypeOK, Copies, InspectSource, inputs
  <1>2. NothingBefore'
    <2>1. draft.code \in [Modules -> Versions]
      BY DEF Frozen, TypeOK, Readings, InspectSource
    <2> QED BY <2>1 DEF Frozen, NothingBefore, InspectSource, inputs
  <1>3. StageKnows'
    BY StageStays DEF Frozen, InspectSource, inputs
  <1>4. (\A r \in DOMAIN payloads : Good(payloads[r].resume))'
    BY PayloadsStay DEF Frozen, InspectSource, inputs
  <1>5. RemoteIsFrozen'
    BY RemoteStays DEF Frozen, InspectSource, inputs
  <1>6. (\A place \in Places : Good(parts[place]))'
    BY PartsStay DEF Frozen, InspectSource, inputs
  <1>7. (\A place \in Places : WorkerKnows(place))'
    BY WorkerStays DEF Frozen, InspectSource, inputs
  <1> QED BY <1>1, <1>2, <1>3, <1>4, <1>5, <1>6, <1>7 DEF Frozen

\* The snapshot is written while there is nothing else.
LEMMA PrepareSnapshotKeeps ==
    ASSUME Frozen, PrepareSnapshot
    PROVE  Frozen'
  <1>1. TypeOK'
    <2>1. draft.code \in [Modules -> Versions] /\ draft.rows \in Versions /\ source \in Versions
      BY DEF Frozen, TypeOK, Copies, NothingBefore, PrepareSnapshot
    <2>2. snapshot' \in [code : [Modules -> Versions], file : [rows : Versions, bytes : Versions]]
      BY <2>1 DEF PrepareSnapshot, SnapshotManifest, SourceFileSnapshot
    <2> QED BY <2>2 DEF Frozen, TypeOK, PrepareSnapshot, inputs
  <1>2. NothingBefore'
    BY DEF Frozen, NothingBefore, PrepareSnapshot, inputs
  <1>3. StageKnows'
    BY DEF Frozen, StageKnows, NothingBefore, PrepareSnapshot
  <1>4. (\A r \in DOMAIN payloads : Good(payloads[r].resume))'
    BY DEF Frozen, NothingBefore, PrepareSnapshot
  <1>5. RemoteIsFrozen'
    BY DEF Frozen, RemoteIsFrozen, NothingBefore, PrepareSnapshot, NoFiles
  <1>6. (\A place \in Places : Good(parts[place]))'
    BY DEF Frozen, NothingBefore, PrepareSnapshot, Good
  <1>7. (\A place \in Places : WorkerKnows(place))'
    <2> SUFFICES ASSUME NEW p \in Places PROVE WorkerKnows(p)'
      OBVIOUS
    <2>1. /\ WorkerKnows(p) /\ snapshot = Nothing /\ worker' = worker
          /\ UNCHANGED <<project, remote, raced>>
      BY DEF Frozen, NothingBefore, PrepareSnapshot, inputs
    <2>2. worker[p] # Nothing => worker[p].step = "imported" /\ worker[p].checked = {}
      BY <2>1 DEF Frozen, NothingBefore, Places
    <2>3. ASSUME worker[p] # Nothing PROVE Imports(p)'
      BY <2>1, <2>2, <2>3 DEF WorkerKnows, Imports, RacedAt, ProjectAt
    <2> QED BY <2>1, <2>2, <2>3 DEF WorkerKnows
  <1> QED BY <1>1, <1>2, <1>3, <1>4, <1>5, <1>6, <1>7 DEF Frozen

\* A staging starts without a payload.
LEMMA VerifyStageInputsKeeps ==
    ASSUME Frozen, VerifyStageInputs
    PROVE  Frozen'
  <1>1. TypeOK'
    BY DEF Frozen, TypeOK, VerifyStageInputs, inputs
  <1>2. NothingBefore'
    BY DEF Frozen, NothingBefore, VerifyStageInputs, inputs
  <1>3. StageKnows'
    BY DEF Frozen, StageKnows, VerifyStageInputs
  <1>4. (\A r \in DOMAIN payloads : Good(payloads[r].resume))'
    BY PayloadsStay DEF Frozen, VerifyStageInputs, inputs
  <1>5. RemoteIsFrozen'
    BY RemoteStays DEF Frozen, VerifyStageInputs, inputs
  <1>6. (\A place \in Places : Good(parts[place]))'
    BY PartsStay DEF Frozen, VerifyStageInputs, inputs
  <1>7. (\A place \in Places : WorkerKnows(place))'
    BY WorkerStays DEF Frozen, VerifyStageInputs, inputs
  <1> QED BY <1>1, <1>2, <1>3, <1>4, <1>5, <1>6, <1>7 DEF Frozen

\* A payload that exists is never copied again.
LEMMA SelectPayloadKeeps ==
    ASSUME Frozen, SelectPayload
    PROVE  Frozen'
  <1>1. TypeOK'
    BY DEF Frozen, TypeOK, SelectPayload, inputs
  <1>2. NothingBefore'
    BY DEF Frozen, NothingBefore, SelectPayload, inputs
  <1>3. StageKnows'
    BY DEF Frozen, StageKnows, SelectPayload
  <1>4. (\A r \in DOMAIN payloads : Good(payloads[r].resume))'
    BY PayloadsStay DEF Frozen, SelectPayload, inputs
  <1>5. RemoteIsFrozen'
    BY RemoteStays DEF Frozen, SelectPayload, inputs
  <1>6. (\A place \in Places : Good(parts[place]))'
    BY PartsStay DEF Frozen, SelectPayload, inputs
  <1>7. (\A place \in Places : WorkerKnows(place))'
    BY WorkerStays DEF Frozen, SelectPayload, inputs
  <1> QED BY <1>1, <1>2, <1>3, <1>4, <1>5, <1>6, <1>7 DEF Frozen

LEMMA CopyProjectKeeps ==
    ASSUME Frozen, CopyProject
    PROVE  Frozen'
  <1>1. TypeOK'
    BY DEF Frozen, TypeOK, CopyProject, inputs
  <1>2. NothingBefore'
    BY DEF Frozen, NothingBefore, CopyProject, inputs
  <1>3. StageKnows'
    BY DEF Frozen, StageKnows, CopyProject
  <1>4. (\A r \in DOMAIN payloads : Good(payloads[r].resume))'
    BY PayloadsStay DEF Frozen, CopyProject, inputs
  <1>5. RemoteIsFrozen'
    BY RemoteStays DEF Frozen, CopyProject, inputs
  <1>6. (\A place \in Places : Good(parts[place]))'
    BY PartsStay DEF Frozen, CopyProject, inputs
  <1>7. (\A place \in Places : WorkerKnows(place))'
    BY WorkerStays DEF Frozen, CopyProject, inputs
  <1> QED BY <1>1, <1>2, <1>3, <1>4, <1>5, <1>6, <1>7 DEF Frozen

LEMMA CopySourceKeeps ==
    ASSUME Frozen, CopySource
    PROVE  Frozen'
  <1>1. TypeOK'
    BY DEF Frozen, TypeOK, CopySource, inputs
  <1>2. NothingBefore'
    BY DEF Frozen, NothingBefore, CopySource, inputs
  <1>3. StageKnows'
    BY DEF Frozen, StageKnows, CopySource
  <1>4. (\A r \in DOMAIN payloads : Good(payloads[r].resume))'
    BY PayloadsStay DEF Frozen, CopySource, inputs
  <1>5. RemoteIsFrozen'
    BY RemoteStays DEF Frozen, CopySource, inputs
  <1>6. (\A place \in Places : Good(parts[place]))'
    BY PartsStay DEF Frozen, CopySource, inputs
  <1>7. (\A place \in Places : WorkerKnows(place))'
    BY WorkerStays DEF Frozen, CopySource, inputs
  <1> QED BY <1>1, <1>2, <1>3, <1>4, <1>5, <1>6, <1>7 DEF Frozen

\* What is sealed is the state of the run directory, and no payload is replaced.
LEMMA SealPayloadKeeps ==
    ASSUME Frozen, SealPayload
    PROVE  Frozen'
  <1>b. ASSUME NEW r \in DOMAIN payloads'
        PROVE  /\ r \in DOMAIN payloads => payloads'[r] = payloads[r]
               /\ r \notin DOMAIN payloads => payloads'[r].resume = parts["home"]
    BY <1>b DEF SealPayload
  <1>a. DOMAIN payloads' = DOMAIN payloads \cup {stage.resume}
    BY DEF SealPayload
  <1>1. TypeOK'
    <2>1. TypeOK /\ "home" \in Places
      BY DEF Frozen, Places
    <2>2. \A r \in DOMAIN payloads' : payloads'[r].resume \in Seq(Parts)
      BY <1>b, <2>1 DEF TypeOK
    <2> QED BY <2>1, <2>2 DEF TypeOK, SealPayload, inputs
  <1>2. NothingBefore'
    BY DEF Frozen, NothingBefore, SealPayload, inputs
  <1>3. StageKnows'
    BY <1>a DEF Frozen, StageKnows, SealPayload
  <1>4. (\A r \in DOMAIN payloads : Good(payloads[r].resume))'
    <2> SUFFICES ASSUME NEW r \in DOMAIN payloads' PROVE Good(payloads[r].resume)'
      OBVIOUS
    <2>1. CASE r \in DOMAIN payloads
      BY <1>b, <2>1 DEF Frozen, SealPayload, Good, IsFrozen, VerifiedSource, SourceFileSnapshot
    <2>2. CASE r \notin DOMAIN payloads
      <3>1. PICK home : home = parts["home"]
        OBVIOUS
      <3>2. Good(home)'
        BY <3>1, GoodStays DEF Frozen, Places, SealPayload
      <3> QED BY <1>b, <2>2, <3>1, <3>2
    <2> QED BY <2>1, <2>2
  <1>5. RemoteIsFrozen'
    BY RemoteStays DEF Frozen, SealPayload, inputs
  <1>6. (\A place \in Places : Good(parts[place]))'
    BY PartsStay DEF Frozen, SealPayload, inputs
  <1>7. (\A place \in Places : WorkerKnows(place))'
    BY WorkerStays DEF Frozen, SealPayload, inputs
  <1> QED BY <1>1, <1>2, <1>3, <1>4, <1>5, <1>6, <1>7 DEF Frozen

\* Nothing is sent that was not verified in the same step.
LEMMA VerifyTransferKeeps ==
    ASSUME Frozen, VerifyTransfer
    PROVE  Frozen'
  <1>1. TypeOK'
    BY DEF Frozen, TypeOK, VerifyTransfer, inputs
  <1>2. NothingBefore'
    BY DEF Frozen, NothingBefore, VerifyTransfer, inputs
  <1>3. StageKnows'
    BY DEF Frozen, StageKnows, VerifyTransfer, VerifiedPayload, VerifiedSource, SourceFileSnapshot
  <1>4. (\A r \in DOMAIN payloads : Good(payloads[r].resume))'
    BY PayloadsStay DEF Frozen, VerifyTransfer, inputs
  <1>5. RemoteIsFrozen'
    BY RemoteStays DEF Frozen, VerifyTransfer, inputs
  <1>6. (\A place \in Places : Good(parts[place]))'
    BY PartsStay DEF Frozen, VerifyTransfer, inputs
  <1>7. (\A place \in Places : WorkerKnows(place))'
    BY WorkerStays DEF Frozen, VerifyTransfer, inputs
  <1> QED BY <1>1, <1>2, <1>3, <1>4, <1>5, <1>6, <1>7 DEF Frozen

\* What arrives at the site is a verified payload.
LEMMA SendsKeeps ==
    ASSUME Frozen, Sends
    PROVE  Frozen'
  <1> DEFINE payload == payloads[stage.resume]
  <1>a. /\ stage.resume \in DOMAIN payloads
        /\ snapshot # Nothing
        /\ payload.project = snapshot.code
        /\ VerifiedSource(payload.source)
        /\ Good(payload.resume)
    BY DEF Frozen, NothingBefore, StageKnows, Sends, VerifiedPayload
  <1>b. payload.project \in [Modules -> Versions] /\ payload.source \in Copies
    BY <1>a DEF Frozen, TypeOK, Copies, VerifiedSource, SourceFileSnapshot
  <1>c. /\ remote'.project \in {remote.project, payload.project}
        /\ remote'.source \in {remote.source, payload.source}
        /\ remote' \in [project : [Modules -> Versions] \cup {Nothing}, source : Copies]
    BY <1>b DEF Frozen, TypeOK, Sends
  <1>d. /\ parts' \in [Places -> Seq(Parts)]
        /\ \A place \in Places : parts'[place] \in {parts[place], payload.resume}
    BY <1>a DEF Frozen, TypeOK, Places, Sends, Good
  <1>1. TypeOK'
    BY <1>c, <1>d DEF Frozen, TypeOK, Sends, inputs
  <1>2. NothingBefore'
    BY <1>a DEF Frozen, NothingBefore, Sends
  <1>3. StageKnows'
    BY StageStays DEF Frozen, Sends
  <1>4. (\A r \in DOMAIN payloads : Good(payloads[r].resume))'
    BY PayloadsStay DEF Frozen, Sends
  <1>5. RemoteIsFrozen'
    BY <1>a, <1>c DEF Frozen, RemoteIsFrozen, Sends, VerifiedSource, SourceFileSnapshot
  <1>6. (\A place \in Places : Good(parts[place]))'
    <2> SUFFICES ASSUME NEW p \in Places PROVE Good(parts[p])'
      OBVIOUS
    <2>1. Good(parts[p]) /\ snapshot' = snapshot
      BY DEF Frozen, Sends
    <2>2. PICK sequence : sequence = parts'[p]
      OBVIOUS
    <2>3. Good(sequence)
      BY <1>a, <1>d, <2>1, <2>2
    <2>4. Good(sequence)'
      BY <2>1, <2>3, GoodStays
    <2> QED BY <2>2, <2>4
  <1>7. (\A place \in Places : WorkerKnows(place))'
    <2> SUFFICES ASSUME NEW p \in Places PROVE WorkerKnows(p)'
      OBVIOUS
    <2>1. WorkerKnows(p) /\ UNCHANGED <<snapshot, source, project, raced, worker>>
      BY DEF Frozen, Sends, inputs
    <2>2. CASE p = "home"
      BY <2>1, <2>2, WorkerKept DEF SourceAt, ProjectAt, RacedAt
    <2>3. CASE p = "site" /\ worker[p] # Nothing
      <3>1. remote'.project = remote.project
        BY <1>a, <1>c, <2>3 DEF Frozen, RemoteIsFrozen
      <3>2. ProjectAt(p)' = ProjectAt(p) /\ RacedAt(p)' = RacedAt(p)
        BY <2>3, <3>1 DEF ProjectAt, RacedAt
      <3>3. CASE SourceAt(p)' = SourceAt(p)
        BY <2>1, <3>2, <3>3, WorkerKept
      <3>4. CASE SourceAt(p)' # SourceAt(p)
        <4>1. VerifiedSource(SourceAt(p))'
          BY <1>a, <1>c, <2>1, <2>3, <3>4 DEF SourceAt, VerifiedSource, SourceFileSnapshot
        <4>2. Imports(p)' <=> Imports(p)
          BY <2>1, <3>2 DEF Imports
        <4>3. Runs(p, worker[p].code)' <=> Runs(p, worker[p].code)
          BY <2>1, <3>2 DEF Runs
        <4>4. Good(worker[p].done)' <=> Good(worker[p].done)
          BY <2>1 DEF Good, IsFrozen, VerifiedSource, SourceFileSnapshot
        <4>5. Reads(p, worker[p].file)' <=> Reads(p, worker[p].file)
          BY <2>1, <3>2 DEF Reads, VerifiedSource, SourceFileSnapshot
        <4>6. Reads(p, SourceAt(p))'
          BY <4>1 DEF Reads
        <4> QED BY <2>1, <4>2, <4>3, <4>4, <4>5, <4>6 DEF WorkerKnows
      <3> QED BY <3>3, <3>4
    <2>4. CASE p = "site" /\ worker[p] = Nothing
      BY <2>1, <2>4 DEF WorkerKnows
    <2> QED BY <2>2, <2>3, <2>4 DEF Places
  <1> QED BY <1>1, <1>2, <1>3, <1>4, <1>5, <1>6, <1>7 DEF Frozen

LEMMA StageEndsKeeps ==
    ASSUME Frozen, StageEnds
    PROVE  Frozen'
  <1>1. TypeOK'
    BY DEF Frozen, TypeOK, StageEnds, inputs
  <1>2. NothingBefore'
    BY DEF Frozen, NothingBefore, StageEnds, inputs
  <1>3. StageKnows'
    BY DEF Frozen, StageKnows, StageEnds
  <1>4. (\A r \in DOMAIN payloads : Good(payloads[r].resume))'
    BY PayloadsStay DEF Frozen, StageEnds, inputs
  <1>5. RemoteIsFrozen'
    BY RemoteStays DEF Frozen, StageEnds, inputs
  <1>6. (\A place \in Places : Good(parts[place]))'
    BY PartsStay DEF Frozen, StageEnds, inputs
  <1>7. (\A place \in Places : WorkerKnows(place))'
    BY WorkerStays DEF Frozen, StageEnds, inputs
  <1> QED BY <1>1, <1>2, <1>3, <1>4, <1>5, <1>6, <1>7 DEF Frozen

-----------------------------------------------------------------------------
(* grid submit and language run *)

LEMMA SubmitKeeps ==
    ASSUME Frozen, Submit
    PROVE  Frozen'
  <1>1. TypeOK'
    BY DEF Frozen, TypeOK, Submit, inputs, Allowed
  <1>2. NothingBefore'
    BY DEF Frozen, NothingBefore, NoFiles, Submit, inputs
  <1>3. StageKnows'
    BY StageStays DEF Frozen, Submit, inputs
  <1>4. (\A r \in DOMAIN payloads : Good(payloads[r].resume))'
    BY PayloadsStay DEF Frozen, Submit, inputs
  <1>5. RemoteIsFrozen'
    BY DEF Frozen, RemoteIsFrozen, Submit, VerifiedSource, SourceFileSnapshot
  <1>6. (\A place \in Places : Good(parts[place]))'
    BY PartsStay DEF Frozen, Submit, inputs
  <1>7. (\A place \in Places : WorkerKnows(place))'
    BY WorkerStays DEF Frozen, Submit, inputs
  <1> QED BY <1>1, <1>2, <1>3, <1>4, <1>5, <1>6, <1>7 DEF Frozen

\* What a worker imports first is what is on disk.
LEMMA StartsKeeps ==
    ASSUME Frozen, NEW place \in Places, Starts(place)
    PROVE  Frozen'
  <1>1. TypeOK'
    BY DEF Frozen, TypeOK, Starts, inputs
  <1>2. NothingBefore'
    BY DEF Frozen, NothingBefore, Places, Starts, inputs
  <1>3. StageKnows'
    BY StageStays DEF Frozen, Starts, inputs
  <1>4. (\A r \in DOMAIN payloads : Good(payloads[r].resume))'
    BY PayloadsStay DEF Frozen, Starts, inputs
  <1>5. RemoteIsFrozen'
    BY DEF Frozen, TypeOK, Places, RemoteIsFrozen, VerifiedSource, SourceFileSnapshot, Starts, inputs
  <1>6. (\A p \in Places : Good(parts[p]))'
    BY PartsStay DEF Frozen, Starts, inputs
  <1>7. (\A p \in Places : WorkerKnows(p))'
    <2> SUFFICES ASSUME NEW p \in Places PROVE WorkerKnows(p)'
      OBVIOUS
    <2>1. WorkerKnows(p) /\ DOMAIN worker = Places /\ Good(parts[p])
      BY DEF Frozen, TypeOK
    <2>2. CASE p # place
      BY <2>1, <2>2, WorkerStays DEF Starts, inputs
    <2>3. CASE p = place
      <3>1. /\ WorkerKnows(p) /\ snapshot' = snapshot
            /\ RacedAt(p)' = RacedAt(p) /\ SourceAt(p)' = SourceAt(p) /\ ProjectAt(p)' = ProjectAt(p)
        BY <2>1 DEF RacedAt, SourceAt, ProjectAt, Starts, inputs
      <3>2. worker'[p] = [step |-> "imported", checked |-> {},
                          code |-> [m \in {"detector"} |-> ProjectAt(p)[m]]]
        BY <2>1, <2>3 DEF Starts
      <3>3. ProjectAt(p) \in [Modules -> Versions]
        BY <2>3 DEF Frozen, TypeOK, RemoteIsFrozen, Starts, ProjectAt, Places
      <3>4. Imports(p)'
        <4>1. [m \in {"detector"} |-> ProjectAt(p)[m]] \in [{"detector"} -> Versions]
          BY <3>3 DEF Modules
        <4> QED BY <3>1, <3>2, <4>1 DEF Imports
      <3> QED BY <3>2, <3>4 DEF WorkerKnows
    <2> QED BY <2>2, <2>3
  <1> QED BY <1>1, <1>2, <1>3, <1>4, <1>5, <1>6, <1>7 DEF Frozen

\* Once its file on disk was the frozen one, so was what was imported.
LEMMA VerifyProjectIdentityKeeps ==
    ASSUME Frozen, NEW place \in Places, VerifyProjectIdentity(place)
    PROVE  Frozen'
  <1>1. TypeOK'
    BY DEF Frozen, TypeOK, VerifyProjectIdentity, inputs
  <1>2. NothingBefore'
    BY DEF Frozen, NothingBefore, Places, VerifyProjectIdentity, inputs
  <1>3. StageKnows'
    BY StageStays DEF Frozen, VerifyProjectIdentity, inputs
  <1>4. (\A r \in DOMAIN payloads : Good(payloads[r].resume))'
    BY PayloadsStay DEF Frozen, VerifyProjectIdentity, inputs
  <1>5. RemoteIsFrozen'
    BY DEF Frozen, TypeOK, Places, RemoteIsFrozen, VerifiedSource, SourceFileSnapshot, VerifyProjectIdentity, inputs
  <1>6. (\A p \in Places : Good(parts[p]))'
    BY PartsStay DEF Frozen, VerifyProjectIdentity, inputs
  <1>7. (\A p \in Places : WorkerKnows(p))'
    <2> SUFFICES ASSUME NEW p \in Places PROVE WorkerKnows(p)'
      OBVIOUS
    <2>1. WorkerKnows(p) /\ DOMAIN worker = Places /\ Good(parts[p])
      BY DEF Frozen, TypeOK
    <2>2. CASE p # place
      BY <2>1, <2>2, WorkerStays DEF VerifyProjectIdentity, inputs
    <2>3. CASE p = place
      <3>1. /\ WorkerKnows(p) /\ snapshot' = snapshot
            /\ RacedAt(p)' = RacedAt(p) /\ SourceAt(p)' = SourceAt(p) /\ ProjectAt(p)' = ProjectAt(p)
        BY <2>1 DEF RacedAt, SourceAt, ProjectAt, VerifyProjectIdentity, inputs
      <3>2. PICK m \in Unread(worker[p].checked) :
                /\ ProjectAt(p)[m] = snapshot.code[m]
                /\ worker'[p] = [step |-> "imported", checked |-> worker[p].checked \cup {m},
                                 code |-> worker[p].code]
        BY <2>1, <2>3 DEF VerifyProjectIdentity
      <3>3. m \in Modules
        BY <3>2 DEF Unread, Modules
      <3>4. Imports(p)
        BY <2>1, <2>3 DEF WorkerKnows, VerifyProjectIdentity
      <3>5. Imports(p)'
        BY <3>1, <3>2, <3>3, <3>4 DEF Imports, Modules
      <3> QED BY <3>2, <3>5 DEF WorkerKnows
    <2> QED BY <2>2, <2>3
  <1> QED BY <1>1, <1>2, <1>3, <1>4, <1>5, <1>6, <1>7 DEF Frozen

\* Then glotlid.py is imported, and the code is complete.
LEMMA BuildDetectorKeeps ==
    ASSUME Frozen, NEW place \in Places, BuildDetector(place)
    PROVE  Frozen'
  <1>1. TypeOK'
    BY DEF Frozen, TypeOK, BuildDetector, inputs
  <1>2. NothingBefore'
    BY DEF Frozen, NothingBefore, Places, Modules, BuildDetector, inputs
  <1>3. StageKnows'
    BY StageStays DEF Frozen, BuildDetector, inputs
  <1>4. (\A r \in DOMAIN payloads : Good(payloads[r].resume))'
    BY PayloadsStay DEF Frozen, BuildDetector, inputs
  <1>5. RemoteIsFrozen'
    BY DEF Frozen, TypeOK, Places, RemoteIsFrozen, VerifiedSource, SourceFileSnapshot, BuildDetector, inputs
  <1>6. (\A p \in Places : Good(parts[p]))'
    BY PartsStay DEF Frozen, BuildDetector, inputs
  <1>7. (\A p \in Places : WorkerKnows(p))'
    <2> SUFFICES ASSUME NEW p \in Places PROVE WorkerKnows(p)'
      OBVIOUS
    <2>1. WorkerKnows(p) /\ DOMAIN worker = Places /\ Good(parts[p])
      BY DEF Frozen, TypeOK
    <2>2. CASE p # place
      BY <2>1, <2>2, WorkerStays DEF BuildDetector, inputs
    <2>3. CASE p = place
      <3>1. /\ WorkerKnows(p) /\ snapshot' = snapshot
            /\ RacedAt(p)' = RacedAt(p) /\ SourceAt(p)' = SourceAt(p) /\ ProjectAt(p)' = ProjectAt(p)
        BY <2>1 DEF RacedAt, SourceAt, ProjectAt, BuildDetector, inputs
      <3>2. worker'[p] = [step |-> "identified",
                          code |-> [m \in Modules |-> IF m = "glotlid" THEN ProjectAt(p)[m]
                                                       ELSE worker[p].code[m]]]
        BY <2>1, <2>3 DEF BuildDetector
      <3>3. ProjectAt(p) \in [Modules -> Versions]
        BY <2>3 DEF Frozen, TypeOK, RemoteIsFrozen, BuildDetector, ProjectAt, Places
      <3>4. Imports(p) /\ worker[p].checked = Modules
        BY <2>1, <2>3 DEF WorkerKnows, BuildDetector
      <3>5. PICK code : code = [m \in Modules |-> IF m = "glotlid" THEN ProjectAt(p)[m]
                                                   ELSE worker[p].code[m]]
        OBVIOUS
      <3>6. code \in [Modules -> Versions] /\ code["glotlid"] = ProjectAt(p)["glotlid"]
            /\ code["detector"] = worker[p].code["detector"]
        BY <3>3, <3>4, <3>5 DEF Imports, Modules
      <3>7. Runs(p, code)'
        BY <3>1, <3>4, <3>6 DEF Imports, Runs, Modules
      <3> QED BY <3>2, <3>5, <3>7 DEF WorkerKnows
    <2> QED BY <2>2, <2>3
  <1> QED BY <1>1, <1>2, <1>3, <1>4, <1>5, <1>6, <1>7 DEF Frozen

\* What it keeps in memory was good on disk.
LEMMA VerifySourceKeeps ==
    ASSUME Frozen, NEW place \in Places, VerifySource(place)
    PROVE  Frozen'
  <1>1. TypeOK'
    BY DEF Frozen, TypeOK, VerifySource, inputs
  <1>2. NothingBefore'
    BY DEF Frozen, NothingBefore, Places, VerifySource, inputs
  <1>3. StageKnows'
    BY StageStays DEF Frozen, VerifySource, inputs
  <1>4. (\A r \in DOMAIN payloads : Good(payloads[r].resume))'
    BY PayloadsStay DEF Frozen, VerifySource, inputs
  <1>5. RemoteIsFrozen'
    BY DEF Frozen, TypeOK, Places, RemoteIsFrozen, VerifiedSource, SourceFileSnapshot, VerifySource, inputs
  <1>6. (\A p \in Places : Good(parts[p]))'
    BY PartsStay DEF Frozen, VerifySource, inputs
  <1>7. (\A p \in Places : WorkerKnows(p))'
    <2> SUFFICES ASSUME NEW p \in Places PROVE WorkerKnows(p)'
      OBVIOUS
    <2>1. WorkerKnows(p) /\ DOMAIN worker = Places /\ Good(parts[p])
      BY DEF Frozen, TypeOK
    <2>2. CASE p # place
      BY <2>1, <2>2, WorkerStays DEF VerifySource, inputs
    <2>3. CASE p = place
      <3>1. /\ WorkerKnows(p) /\ snapshot' = snapshot
            /\ RacedAt(p)' = RacedAt(p) /\ SourceAt(p)' = SourceAt(p) /\ ProjectAt(p)' = ProjectAt(p)
        BY <2>1 DEF RacedAt, SourceAt, ProjectAt, VerifySource, inputs
      <3>2. PICK code : code = worker[p].code
        OBVIOUS
      <3>3. Runs(p, code)'
        <4>1. Runs(p, code)
          BY <2>1, <2>3, <3>2 DEF WorkerKnows, VerifySource
        <4> QED BY <3>1, <4>1 DEF Runs
      <3>4. worker'[p] = [step |-> "verified", code |-> code, done |-> parts[p]]
        BY <2>1, <2>3, <3>2 DEF VerifySource
      <3>5. PICK done : done = parts[p]
        OBVIOUS
      <3>6. Good(done)'
        BY <2>1, <3>1, <3>5, GoodStays
      <3>7. Reads(p, SourceAt(p))'
        BY <2>3, <3>1 DEF VerifySource, Reads, VerifiedSource, SourceFileSnapshot
      <3> QED BY <3>3, <3>4, <3>5, <3>6, <3>7 DEF WorkerKnows
    <2> QED BY <2>2, <2>3
  <1> QED BY <1>1, <1>2, <1>3, <1>4, <1>5, <1>6, <1>7 DEF Frozen

\* It opens the verified file, or one that came by a replacement.
LEMMA OpenSourceKeeps ==
    ASSUME Frozen, NEW place \in Places, OpenSource(place)
    PROVE  Frozen'
  <1>1. TypeOK'
    BY DEF Frozen, TypeOK, OpenSource, inputs
  <1>2. NothingBefore'
    BY DEF Frozen, NothingBefore, Places, OpenSource, inputs
  <1>3. StageKnows'
    BY StageStays DEF Frozen, OpenSource, inputs
  <1>4. (\A r \in DOMAIN payloads : Good(payloads[r].resume))'
    BY PayloadsStay DEF Frozen, OpenSource, inputs
  <1>5. RemoteIsFrozen'
    BY DEF Frozen, TypeOK, Places, RemoteIsFrozen, VerifiedSource, SourceFileSnapshot, OpenSource, inputs
  <1>6. (\A p \in Places : Good(parts[p]))'
    BY PartsStay DEF Frozen, OpenSource, inputs
  <1>7. (\A p \in Places : WorkerKnows(p))'
    <2> SUFFICES ASSUME NEW p \in Places PROVE WorkerKnows(p)'
      OBVIOUS
    <2>1. WorkerKnows(p) /\ DOMAIN worker = Places /\ Good(parts[p])
      BY DEF Frozen, TypeOK
    <2>2. CASE p # place
      BY <2>1, <2>2, WorkerStays DEF OpenSource, inputs
    <2>3. CASE p = place
      <3>1. /\ WorkerKnows(p) /\ snapshot' = snapshot
            /\ RacedAt(p)' = RacedAt(p) /\ SourceAt(p)' = SourceAt(p) /\ ProjectAt(p)' = ProjectAt(p)
        BY <2>1 DEF RacedAt, SourceAt, ProjectAt, OpenSource, inputs
      <3>2. PICK code : code = worker[p].code
        OBVIOUS
      <3>3. Runs(p, code)'
        <4>1. Runs(p, code)
          BY <2>1, <2>3, <3>2 DEF WorkerKnows, OpenSource
        <4> QED BY <3>1, <4>1 DEF Runs
      <3>4. PICK done, file : done = worker[p].done /\ file = SourceAt(p)
        OBVIOUS
      <3>5. worker'[p] = [step |-> "reading", code |-> code, done |-> done, file |-> file]
        BY <2>1, <2>3, <3>2, <3>4 DEF OpenSource
      <3>6. Good(done) /\ Reads(p, file)
        BY <2>1, <2>3, <3>4 DEF OpenSource, WorkerKnows
      <3>7. file \in Versions
        BY <2>3, <3>4, <3>6 DEF Frozen, TypeOK, NothingBefore, OpenSource, Reads, SourceAt,
           RacedAt, VerifiedSource, SourceFileSnapshot, Places
      <3>8. Good(done)'
        BY <3>1, <3>6, GoodStays
      <3>9. Reads(p, file)'
        BY <3>1, <3>6 DEF Reads, VerifiedSource, SourceFileSnapshot
      <3> QED BY <3>3, <3>5, <3>7, <3>8, <3>9 DEF WorkerKnows
    <2> QED BY <2>2, <2>3
  <1> QED BY <1>1, <1>2, <1>3, <1>4, <1>5, <1>6, <1>7 DEF Frozen

LEMMA AnnotateBatchKeeps ==
    ASSUME Frozen, NEW place \in Places, AnnotateBatch(place)
    PROVE  Frozen'
  <1>1. TypeOK'
    BY DEF Frozen, TypeOK, AnnotateBatch, inputs
  <1>2. NothingBefore'
    BY DEF Frozen, NothingBefore, Places, AnnotateBatch, inputs
  <1>3. StageKnows'
    BY StageStays DEF Frozen, AnnotateBatch, inputs
  <1>4. (\A r \in DOMAIN payloads : Good(payloads[r].resume))'
    BY PayloadsStay DEF Frozen, AnnotateBatch, inputs
  <1>5. RemoteIsFrozen'
    BY DEF Frozen, TypeOK, Places, RemoteIsFrozen, VerifiedSource, SourceFileSnapshot, AnnotateBatch, inputs
  <1>6. (\A p \in Places : Good(parts[p]))'
    BY PartsStay DEF Frozen, AnnotateBatch, inputs
  <1>7. (\A p \in Places : WorkerKnows(p))'
    <2> SUFFICES ASSUME NEW p \in Places PROVE WorkerKnows(p)'
      OBVIOUS
    <2>1. WorkerKnows(p) /\ DOMAIN worker = Places /\ Good(parts[p])
      BY DEF Frozen, TypeOK
    <2>2. CASE p # place
      BY <2>1, <2>2, WorkerStays DEF AnnotateBatch, inputs
    <2>3. CASE p = place
      <3>1. /\ WorkerKnows(p) /\ snapshot' = snapshot
            /\ RacedAt(p)' = RacedAt(p) /\ SourceAt(p)' = SourceAt(p) /\ ProjectAt(p)' = ProjectAt(p)
        BY <2>1 DEF RacedAt, SourceAt, ProjectAt, AnnotateBatch, inputs
      <3>2. PICK code : code = worker[p].code
        OBVIOUS
      <3>3. Runs(p, code)'
        <4>1. Runs(p, code)
          BY <2>1, <2>3, <3>2 DEF WorkerKnows, AnnotateBatch
        <4> QED BY <3>1, <4>1 DEF Runs
      <3>4. PICK done, file : done = worker[p].done /\ file = worker[p].file
        OBVIOUS
      <3>5. worker'[p] = [step |-> "annotated", code |-> code, done |-> done, file |-> file,
                          rows |-> Annotations[file][Len(done) + 1]]
        BY <2>1, <2>3, <3>2, <3>4 DEF AnnotateBatch
      <3>6. Good(done) /\ Reads(p, file) /\ file \in Versions
        BY <2>1, <2>3, <3>4 DEF AnnotateBatch, WorkerKnows
      <3>7. Good(done)'
        BY <3>1, <3>6, GoodStays
      <3>8. Reads(p, file)'
        BY <3>1, <3>6 DEF Reads, VerifiedSource, SourceFileSnapshot
      <3> QED BY <3>3, <3>5, <3>6, <3>7, <3>8 DEF WorkerKnows
    <2> QED BY <2>2, <2>3
  <1> QED BY <1>1, <1>2, <1>3, <1>4, <1>5, <1>6, <1>7 DEF Frozen

\* A committed batch was made of what the worker read.
LEMMA CommitBatchKeeps ==
    ASSUME Frozen, NEW place \in Places, CommitBatch(place)
    PROVE  Frozen'
  <1>0. Good(Append(worker[place].done, Part(place)))
    <2>1. WorkerKnows(place) /\ TypeOK
      BY DEF Frozen
    <2>2. Runs(place, worker[place].code) /\ Reads(place, worker[place].file)
          /\ worker[place].file \in Versions /\ Good(worker[place].done)
      BY <2>1 DEF CommitBatch, WorkerKnows
    <2>3. RacedAt(place) \in SUBSET Inputs
      BY <2>1 DEF TypeOK, RacedAt
    <2>4. Part(place) \in Parts
      BY <2>2, <2>3 DEF Part, Parts, Runs, Copies
    <2>5. IsFrozen(Part(place))
      BY <2>2 DEF Part, IsFrozen, Runs, Reads
    <2> QED BY <2>2, <2>4, <2>5, GoodGrows
  <1>1. TypeOK'
    BY <1>0 DEF Frozen, TypeOK, CommitBatch, inputs, Good
  <1>2. NothingBefore'
    BY DEF Frozen, NothingBefore, Places, CommitBatch, inputs
  <1>3. StageKnows'
    BY StageStays DEF Frozen, CommitBatch, inputs
  <1>4. (\A r \in DOMAIN payloads : Good(payloads[r].resume))'
    BY PayloadsStay DEF Frozen, CommitBatch, inputs
  <1>5. RemoteIsFrozen'
    BY DEF Frozen, TypeOK, Places, RemoteIsFrozen, VerifiedSource, SourceFileSnapshot, CommitBatch, inputs
  <1>6. (\A p \in Places : Good(parts[p]))'
    BY <1>0 DEF Frozen, TypeOK, CommitBatch, Good, IsFrozen, VerifiedSource, SourceFileSnapshot
  <1>7. (\A p \in Places : WorkerKnows(p))'
    <2> SUFFICES ASSUME NEW p \in Places PROVE WorkerKnows(p)'
      OBVIOUS
    <2>1. WorkerKnows(p) /\ DOMAIN worker = Places /\ Good(parts[p])
      BY DEF Frozen, TypeOK
    <2>2. CASE p # place
      BY <2>1, <2>2, WorkerStays DEF CommitBatch, inputs
    <2>3. CASE p = place
      <3>1. /\ WorkerKnows(p) /\ snapshot' = snapshot
            /\ RacedAt(p)' = RacedAt(p) /\ SourceAt(p)' = SourceAt(p) /\ ProjectAt(p)' = ProjectAt(p)
        BY <2>1 DEF RacedAt, SourceAt, ProjectAt, CommitBatch, inputs
      <3>2. PICK code : code = worker[p].code
        OBVIOUS
      <3>3. Runs(p, code)'
        <4>1. Runs(p, code)
          BY <2>1, <2>3, <3>2 DEF WorkerKnows, CommitBatch
        <4> QED BY <3>1, <4>1 DEF Runs
      <3>4. PICK done, file : done = Append(worker[p].done, Part(p)) /\ file = worker[p].file
        OBVIOUS
      <3>5. worker'[p] = [step |-> "reading", code |-> code, done |-> done, file |-> file]
        BY <2>1, <2>3, <3>2, <3>4 DEF CommitBatch
      <3>6. Reads(p, file) /\ file \in Versions
        BY <2>1, <2>3, <3>4 DEF CommitBatch, WorkerKnows
      <3>7. Good(done)'
        BY <1>0, <2>3, <3>1, <3>4, GoodStays
      <3>8. Reads(p, file)'
        BY <3>1, <3>6 DEF Reads, VerifiedSource, SourceFileSnapshot
      <3> QED BY <3>3, <3>5, <3>6, <3>7, <3>8 DEF WorkerKnows
    <2> QED BY <2>2, <2>3
  <1> QED BY <1>1, <1>2, <1>3, <1>4, <1>5, <1>6, <1>7 DEF Frozen

LEMMA StopsKeeps ==
    ASSUME Frozen, NEW place \in Places, Stops(place)
    PROVE  Frozen'
  <1>1. TypeOK'
    BY DEF Frozen, TypeOK, Stops, inputs
  <1>2. NothingBefore'
    BY DEF Frozen, NothingBefore, Places, Stops, inputs
  <1>3. StageKnows'
    BY StageStays DEF Frozen, Stops, inputs
  <1>4. (\A r \in DOMAIN payloads : Good(payloads[r].resume))'
    BY PayloadsStay DEF Frozen, Stops, inputs
  <1>5. RemoteIsFrozen'
    BY DEF Frozen, TypeOK, Places, RemoteIsFrozen, VerifiedSource, SourceFileSnapshot, Stops, inputs
  <1>6. (\A p \in Places : Good(parts[p]))'
    BY PartsStay DEF Frozen, Stops, inputs
  <1>7. (\A p \in Places : WorkerKnows(p))'
    <2> SUFFICES ASSUME NEW p \in Places PROVE WorkerKnows(p)'
      OBVIOUS
    <2>1. WorkerKnows(p) /\ DOMAIN worker = Places /\ Good(parts[p])
      BY DEF Frozen, TypeOK
    <2>2. CASE p # place
      <3>1. /\ worker'[p] = worker[p] /\ snapshot' = snapshot
            /\ SourceAt(p)' = SourceAt(p) /\ ProjectAt(p)' = ProjectAt(p)
        BY <2>1, <2>2 DEF Stops, SourceAt, ProjectAt, inputs
      <3>2. RacedAt(p)' = RacedAt(p)
        BY <2>2 DEF Stops, RacedAt, Places
      <3> QED BY <2>1, <3>1, <3>2, WorkerKept
    <2>3. CASE p = place
      BY <2>1, <2>3 DEF Stops, WorkerKnows
    <2> QED BY <2>2, <2>3
  <1> QED BY <1>1, <1>2, <1>3, <1>4, <1>5, <1>6, <1>7 DEF Frozen

-----------------------------------------------------------------------------
(* grid collect, and what happens outside *)

LEMMA CollectKeeps ==
    ASSUME Frozen, Collect
    PROVE  Frozen'
  <1>1. TypeOK'
    BY DEF Frozen, TypeOK, Places, Collect, inputs
  <1>2. NothingBefore'
    BY DEF Frozen, NothingBefore, TypeOK, Places, Collect, inputs
  <1>3. StageKnows'
    BY StageStays DEF Frozen, Collect, inputs
  <1>4. (\A r \in DOMAIN payloads : Good(payloads[r].resume))'
    BY PayloadsStay DEF Frozen, Collect, inputs
  <1>5. RemoteIsFrozen'
    BY RemoteStays DEF Frozen, Collect, inputs
  <1>6. (\A place \in Places : Good(parts[place]))'
    BY DEF Frozen, TypeOK, Places, Collect, inputs, Good, IsFrozen, VerifiedSource, SourceFileSnapshot
  <1>7. (\A place \in Places : WorkerKnows(place))'
    BY WorkerStays DEF Frozen, Collect, inputs
  <1> QED BY <1>1, <1>2, <1>3, <1>4, <1>5, <1>6, <1>7 DEF Frozen

\* A replacement between verification and opening is recorded as such.
LEMMA ReplaceSourceKeeps ==
    ASSUME Frozen, ReplaceSource
    PROVE  Frozen'
  <1>1. TypeOK'
    BY DEF Frozen, TypeOK, Inputs, ReplaceSource, inputs
  <1>2. NothingBefore'
    BY DEF Frozen, NothingBefore, ReplaceSource, inputs
  <1>3. StageKnows'
    BY StageStays DEF Frozen, ReplaceSource, inputs
  <1>4. (\A r \in DOMAIN payloads : Good(payloads[r].resume))'
    BY PayloadsStay DEF Frozen, ReplaceSource, inputs
  <1>5. RemoteIsFrozen'
    BY RemoteStays DEF Frozen, ReplaceSource, inputs
  <1>6. (\A place \in Places : Good(parts[place]))'
    BY PartsStay DEF Frozen, ReplaceSource, inputs
  <1>7. (\A place \in Places : WorkerKnows(place))'
    <2> SUFFICES ASSUME NEW p \in Places PROVE WorkerKnows(p)'
      OBVIOUS
    <2>1. /\ WorkerKnows(p) /\ worker' = worker /\ raced \subseteq raced'
          /\ UNCHANGED <<snapshot, project, remote>>
      BY DEF Frozen, ReplaceSource
    <2>2. CASE p = "site"
      BY <2>1, <2>2, WorkerKept DEF SourceAt, ProjectAt, RacedAt
    <2>3. CASE p = "home"
      <3>1. ProjectAt(p)' = ProjectAt(p) /\ RacedAt(p) \subseteq RacedAt(p)'
        BY <2>1, <2>3 DEF ProjectAt, RacedAt
      <3>2. worker[p] # Nothing /\ worker[p].step = "verified" => "source" \in RacedAt(p)'
        BY <2>1, <2>3 DEF ReplaceSource, InGap, RacedAt
      <3>3. Imports(p) => Imports(p)'
        BY <2>1, <3>1 DEF Imports
      <3>4. Runs(p, worker[p].code) => Runs(p, worker[p].code)'
        BY <2>1, <3>1 DEF Runs
      <3>5. Good(worker[p].done)' <=> Good(worker[p].done)
        BY <2>1 DEF Good, IsFrozen, VerifiedSource, SourceFileSnapshot
      <3>6. Reads(p, worker[p].file) => Reads(p, worker[p].file)'
        BY <2>1, <3>1 DEF Reads, VerifiedSource, SourceFileSnapshot
      <3>7. worker[p] # Nothing /\ worker[p].step = "verified" => Reads(p, SourceAt(p))'
        BY <3>2 DEF Reads
      <3> QED BY <2>1, <3>3, <3>4, <3>5, <3>6, <3>7 DEF WorkerKnows
    <2> QED BY <2>2, <2>3 DEF Places
  <1> QED BY <1>1, <1>2, <1>3, <1>4, <1>5, <1>6, <1>7 DEF Frozen

\* So is an update of a module between its import and its check, in either order.
LEMMA UpdateProjectKeeps ==
    ASSUME Frozen, UpdateProject
    PROVE  Frozen'
  <1>a. PICK m \in Modules, version \in Versions :
            /\ project' = [project EXCEPT ![m] = version]
            /\ raced' = IF InGap(m) THEN raced \cup {m} ELSE raced
    BY DEF UpdateProject
  <1>1. TypeOK'
    <2>1. project' \in [Modules -> Versions] /\ raced' \subseteq Inputs
      BY <1>a DEF Frozen, TypeOK, Inputs
    <2> QED BY <2>1 DEF Frozen, TypeOK, UpdateProject, inputs
  <1>2. NothingBefore'
    BY DEF Frozen, NothingBefore, UpdateProject, inputs
  <1>3. StageKnows'
    BY StageStays DEF Frozen, UpdateProject, inputs
  <1>4. (\A r \in DOMAIN payloads : Good(payloads[r].resume))'
    BY PayloadsStay DEF Frozen, UpdateProject, inputs
  <1>5. RemoteIsFrozen'
    BY RemoteStays DEF Frozen, UpdateProject, inputs
  <1>6. (\A place \in Places : Good(parts[place]))'
    BY PartsStay DEF Frozen, UpdateProject, inputs
  <1>7. (\A place \in Places : WorkerKnows(place))'
    <2> SUFFICES ASSUME NEW p \in Places PROVE WorkerKnows(p)'
      OBVIOUS
    <2>1. /\ WorkerKnows(p) /\ worker' = worker /\ raced \subseteq raced'
          /\ UNCHANGED <<snapshot, source, remote>>
      BY <1>a DEF Frozen, UpdateProject
    <2>2. CASE p = "site"
      BY <2>1, <2>2, WorkerKept DEF SourceAt, ProjectAt, RacedAt
    <2>3. CASE p = "home"
      <3>1. SourceAt(p)' = SourceAt(p) /\ RacedAt(p) \subseteq RacedAt(p)'
        BY <2>1, <2>3 DEF SourceAt, RacedAt
      <3>2. ASSUME worker[p] # Nothing, worker[p].step = "imported", Imports(p)
            PROVE  Imports(p)'
        <4>1. /\ m # "detector" => ProjectAt(p)'["detector"] = ProjectAt(p)["detector"]
              /\ m # "glotlid" => ProjectAt(p)'["glotlid"] = ProjectAt(p)["glotlid"]
          BY <1>a, <2>3 DEF ProjectAt, Frozen, TypeOK, Modules
        <4>2. InGap(m) => m \in RacedAt(p)'
          BY <1>a, <2>3 DEF RacedAt
        <4>3. InGap(m) <=> (m = "glotlid" <=> m \in worker[p].checked)
          BY <2>3, <3>2 DEF InGap, Modules
        <4>4. CASE m = "detector"
          BY <2>1, <3>1, <3>2, <4>1, <4>2, <4>3, <4>4 DEF Imports
        <4>5. CASE m = "glotlid"
          BY <2>1, <3>1, <3>2, <4>1, <4>2, <4>3, <4>5 DEF Imports
        <4> QED BY <4>4, <4>5 DEF Modules
      <3>3. Runs(p, worker[p].code) => Runs(p, worker[p].code)'
        BY <2>1, <3>1 DEF Runs
      <3>4. Good(worker[p].done)' <=> Good(worker[p].done)
        BY <2>1 DEF Good, IsFrozen, VerifiedSource, SourceFileSnapshot
      <3>5. /\ Reads(p, worker[p].file) => Reads(p, worker[p].file)'
            /\ Reads(p, SourceAt(p)) => Reads(p, SourceAt(p))'
        BY <2>1, <3>1 DEF Reads, VerifiedSource, SourceFileSnapshot
      <3> QED BY <2>1, <3>2, <3>3, <3>4, <3>5 DEF WorkerKnows
    <2> QED BY <2>2, <2>3 DEF Places
  <1> QED BY <1>1, <1>2, <1>3, <1>4, <1>5, <1>6, <1>7 DEF Frozen

-----------------------------------------------------------------------------
(* The invariant and the theorems *)

LEMMA InitFrozen == Init => Frozen
  <1> SUFFICES ASSUME Init PROVE Frozen
    OBVIOUS
  <1>1. <<>> \in Seq(Parts) /\ Good(<<>>)
    BY DEF Good
  <1>2. parts \in [Places -> Seq(Parts)] /\ \A place \in Places : Good(parts[place])
    BY <1>1 DEF Init
  <1>3. TypeOK
    BY <1>2 DEF Init, TypeOK, NoFiles, Copies
  <1>4. NothingBefore
    BY DEF Init, NothingBefore, Places
  <1>5. StageKnows /\ RemoteIsFrozen
    BY DEF Init, StageKnows, RemoteIsFrozen, NoFiles, Places
  <1>6. \A place \in Places : WorkerKnows(place)
    BY DEF Init, WorkerKnows
  <1> QED BY <1>2, <1>3, <1>4, <1>5, <1>6 DEF Init, Frozen

LEMMA StepKeepsFrozen == Frozen /\ [Next]_vars => Frozen'
  <1> SUFFICES ASSUME Frozen, [Next]_vars PROVE Frozen'
    OBVIOUS
  <1>0. CASE FingerprintProject
    BY <1>0, FingerprintProjectKeeps
  <1>1. CASE InspectSource
    BY <1>1, InspectSourceKeeps
  <1>2. CASE PrepareSnapshot
    BY <1>2, PrepareSnapshotKeeps
  <1>3. CASE Staging
    BY <1>3, VerifyStageInputsKeeps, SelectPayloadKeeps, CopyProjectKeeps, CopySourceKeeps,
       SealPayloadKeeps, VerifyTransferKeeps, SendsKeeps, StageEndsKeeps DEF Staging
  <1>4. CASE Submit
    BY <1>4, SubmitKeeps
  <1>5. ASSUME NEW place \in Places, Run(place) PROVE Frozen'
    BY <1>5, StartsKeeps, VerifyProjectIdentityKeeps, BuildDetectorKeeps, VerifySourceKeeps,
       OpenSourceKeeps, AnnotateBatchKeeps, CommitBatchKeeps, StopsKeeps DEF Run
  <1>6. CASE Collect
    BY <1>6, CollectKeeps
  <1>7. CASE ReplaceSource
    BY <1>7, ReplaceSourceKeeps
  <1>8. CASE UpdateProject
    BY <1>8, UpdateProjectKeeps
  <1>9. CASE UNCHANGED vars
    <2>1. snapshot' = snapshot /\ parts' = parts /\ payloads' = payloads /\ stage' = stage
      BY <1>9 DEF vars
    <2>2. /\ source' = source /\ project' = project /\ remote' = remote /\ raced' = raced
          /\ worker' = worker /\ granted' = granted
      BY <1>9 DEF vars, inputs
    <2>3. TypeOK'
      BY <1>9 DEF Frozen, TypeOK, vars, inputs
    <2>4. NothingBefore'
      BY <1>9 DEF Frozen, NothingBefore, vars
    <2>5. (\A place \in Places : WorkerKnows(place))'
      BY <2>1, <2>2, WorkerStays DEF Frozen
    <2> QED BY <2>1, <2>2, <2>3, <2>4, <2>5, PartsStay, PayloadsStay, StageStays, RemoteStays DEF Frozen
  <1> QED BY <1>0, <1>1, <1>2, <1>3, <1>4, <1>5, <1>6, <1>7, <1>8, <1>9 DEF Next

LEMMA AlwaysFrozen == Spec => []Frozen
  BY InitFrozen, StepKeepsFrozen, PTL DEF Spec

\* Files, parts and memory are what their types say, whatever the policy, the
\* texts and the number of replacements and stagings.
THEOREM TypeCorrect == Spec => []TypeOK
  <1>1. Frozen => TypeOK
    BY DEF Frozen
  <1> QED BY <1>1, AlwaysFrozen, PTL

\* Every part is made by the frozen code from the frozen source, but for an
\* input that was replaced in the gap between its check and its use, however
\* many stagings, collections and updates fall between two steps of a worker
\* (verify_project_identity, build_language_detector, verify_source_file,
\* verify_prepared_bundle, _run_batches).
THEOREM Annotates == Spec => []AnnotatesFrozenInput
  <1>1. Frozen => AnnotatesFrozenInput
    BY DEF Frozen, Good, AnnotatesFrozenInput
  <1> QED BY <1>1, AlwaysFrozen, PTL

\* What is sent to the site, and what arrives there, is the frozen code and
\* source and the state the payload is named after
\* (build_bundle_transfer_argv, _select_payload_root).
THEOREM Stages == Spec => []StagedIsFrozen
  <1>1. Frozen => StagedIsFrozen
    BY DEF Frozen, StageKnows, RemoteIsFrozen, VerifiedPayload, StagedIsFrozen
  <1> QED BY <1>1, AlwaysFrozen, PTL

-----------------------------------------------------------------------------
(* What a waiting job was allowed on *)

\* A request is granted by EvaluatePolicy alone.
GrantedByPolicy == granted # Nothing => granted \in Allowed

LEMMA AlwaysGrantedByPolicy == Spec => []GrantedByPolicy
  <1>1. Init => GrantedByPolicy
    BY DEF Init, GrantedByPolicy
  <1>2. GrantedByPolicy /\ [Next]_vars => GrantedByPolicy'
    <2> SUFFICES ASSUME GrantedByPolicy, [Next]_vars PROVE GrantedByPolicy'
      OBVIOUS
    <2>1. Allowed' = Allowed
      BY DEF Allowed
    <2>2. granted' = granted \/ granted' \in Allowed \/ granted' = Nothing
      BY DEF Next, vars, FingerprintProject, InspectSource, PrepareSnapshot, Staging, VerifyStageInputs,
         SelectPayload, CopyProject, CopySource, SealPayload, VerifyTransfer, Sends, StageEnds,
         Submit, Run, Starts, VerifyProjectIdentity, BuildDetector, VerifySource, OpenSource, AnnotateBatch, CommitBatch, Stops,
         Collect, ReplaceSource, UpdateProject
    <2> QED BY <2>1, <2>2 DEF GrantedByPolicy
  <1> QED BY <1>1, <1>2, PTL DEF Spec

\* Day and time of day of an instant.
LEMMA DayOf ==
    ASSUME NEW day \in Int, NEW time \in 0..DayLength-1, NEW t \in Nat,
           t = day * DayLength + time
    PROVE  t \div DayLength = day /\ t % DayLength = time
  <1>1. DayLength \in Nat \ {0}
    BY PolicyAssumption
  <1>2. t \div DayLength \in Int /\ t % DayLength \in 0..DayLength-1
    BY <1>1
  <1>3. t = (t \div DayLength) * DayLength + (t % DayLength)
    BY <1>1
  <1> DEFINE q == t \div DayLength
             m == t % DayLength
  <1> HIDE DEF q, m
  <1>4. q \in Int /\ m \in 0..DayLength-1 /\ t = q * DayLength + m
    BY <1>2, <1>3 DEF q, m
  <1>5. (q - day) * DayLength = time - m
    BY <1>1, <1>4
  <1>6. ~(q - day >= 1)
    <2> SUFFICES ASSUME q - day >= 1 PROVE FALSE
      OBVIOUS
    <2>1. (q - day - 1) * DayLength >= 0
      BY <1>1, <1>4
    <2>2. (q - day - 1) * DayLength = (q - day) * DayLength - DayLength
      BY <1>1, <1>4
    <2> QED BY <1>1, <1>4, <1>5, <2>1, <2>2
  <1>7. ~(day - q >= 1)
    <2> SUFFICES ASSUME day - q >= 1 PROVE FALSE
      OBVIOUS
    <2>1. (day - q - 1) * DayLength >= 0
      BY <1>1, <1>4
    <2>2. (day - q - 1) * DayLength = 0 - (q - day) * DayLength - DayLength
      BY <1>1, <1>4
    <2> QED BY <1>1, <1>4, <1>5, <2>1, <2>2
  <1>8. q = day /\ m = time
    BY <1>1, <1>4, <1>5, <1>6, <1>7
  <1> QED BY <1>8 DEF q, m

\* An instant less than a day after another is on the same day or the next.
LEMMA Later ==
    ASSUME NEW t \in Nat, NEW k \in 0..DayLength-1
    PROVE  LET day == t \div DayLength
               time == t % DayLength
           IN  /\ day \in Int /\ time \in 0..DayLength-1
               /\ time + k < DayLength =>
                    (t + k) \div DayLength = day /\ (t + k) % DayLength = time + k
               /\ time + k >= DayLength =>
                    (t + k) \div DayLength = day + 1 /\ (t + k) % DayLength = time + k - DayLength
  <1> DEFINE day == t \div DayLength
             time == t % DayLength
  <1>1. DayLength \in Nat \ {0}
    BY PolicyAssumption
  <1>2. day \in Int /\ time \in 0..DayLength-1 /\ t = day * DayLength + time
    BY <1>1
  <1> HIDE DEF day, time
  <1>3. ASSUME time + k < DayLength
        PROVE  (t + k) \div DayLength = day /\ (t + k) % DayLength = time + k
    <2>1. time + k \in 0..DayLength-1 /\ t + k \in Nat /\ t + k = day * DayLength + (time + k)
      BY <1>1, <1>2, <1>3
    <2> QED BY <1>2, <2>1, DayOf
  <1>4. ASSUME time + k >= DayLength
        PROVE  (t + k) \div DayLength = day + 1 /\ (t + k) % DayLength = time + k - DayLength
    <2>1. time + k - DayLength \in 0..DayLength-1 /\ day + 1 \in Int /\ t + k \in Nat
      BY <1>1, <1>2, <1>4
    <2>2. (day + 1) * DayLength = day * DayLength + DayLength
      BY <1>1, <1>2
    <2>3. t + k = (day + 1) * DayLength + (time + k - DayLength)
      BY <1>1, <1>2, <1>4, <2>2
    <2> QED BY <2>1, <2>3, DayOf
  <1> QED BY <1>2, <1>3, <1>4 DEF day, time

\* Both ends of a window on one side of the boundaries: all of it is.
LEMMA OneSide ==
    ASSUME NEW m \in Nat, NEW w \in 1..MaxWalltime, NEW t \in m..(m + w - 1),
           IsWeekdayDaytime(m) = IsWeekdayDaytime(m + w - 1)
    PROVE  IsWeekdayDaytime(t) = IsWeekdayDaytime(m)
  <1> DEFINE k == t - m
             e == w - 1
             day == m \div DayLength
             time == m % DayLength
             Works(d) == d % 7 < 5
             Light(h) == h \in DayStart..(DayEnd - 1)
  <1>1. /\ DayLength \in Nat /\ DayStart \in Nat /\ DayEnd \in Nat /\ MaxWalltime \in Nat
        /\ DayStart < DayEnd /\ DayEnd <= DayLength
        /\ MaxWalltime <= DayEnd - DayStart
        /\ MaxWalltime <= DayLength - (DayEnd - DayStart)
    BY PolicyAssumption
  <1>2. k \in 0..e /\ e \in 0..DayLength-1 /\ e < MaxWalltime /\ k \in 0..DayLength-1
    BY <1>1
  <1>3. day \in Int /\ time \in 0..DayLength-1
    BY <1>2, Later
  <1>4. m + k = t /\ m + e = m + w - 1
    BY <1>1
  <1>5. IsWeekdayDaytime(m) <=> Works(day) /\ Light(time)
    BY DEF IsWeekdayDaytime
  <1>6. /\ time + k < DayLength => (IsWeekdayDaytime(t) <=> Works(day) /\ Light(time + k))
        /\ time + k >= DayLength =>
            (IsWeekdayDaytime(t) <=> Works(day + 1) /\ Light(time + k - DayLength))
    BY <1>2, <1>4, Later DEF IsWeekdayDaytime
  <1>7. /\ time + e < DayLength => (IsWeekdayDaytime(m + w - 1) <=> Works(day) /\ Light(time + e))
        /\ time + e >= DayLength =>
            (IsWeekdayDaytime(m + w - 1) <=> Works(day + 1) /\ Light(time + e - DayLength))
    BY <1>2, <1>4, Later DEF IsWeekdayDaytime
  <1>8. \A h \in Int : Light(h) <=> DayStart <= h /\ h < DayEnd
    BY <1>1
  <1>bool. IsWeekdayDaytime(m) \in BOOLEAN /\ IsWeekdayDaytime(t) \in BOOLEAN
           /\ IsWeekdayDaytime(m + w - 1) \in BOOLEAN
    BY DEF IsWeekdayDaytime
  <1>both. IsWeekdayDaytime(m) <=> IsWeekdayDaytime(m + w - 1)
    OBVIOUS
  <1> HIDE DEF k, e, day, time, Works, Light
  <1>9. ASSUME IsWeekdayDaytime(m) PROVE IsWeekdayDaytime(t)
    <2>1. Works(day) /\ DayStart <= time /\ time < DayEnd
      BY <1>3, <1>5, <1>8, <1>9
    <2>2. ~(time + e >= DayLength)
      BY <1>1, <1>2, <1>3, <1>7, <1>8, <1>9, <1>both, <2>1
    <2>3. time + e < DayEnd
      BY <1>1, <1>2, <1>3, <1>7, <1>8, <1>9, <1>both, <2>2
    <2>4. time + k < DayLength /\ DayStart <= time + k /\ time + k < DayEnd
      BY <1>1, <1>2, <1>3, <2>1, <2>3
    <2> QED BY <1>2, <1>3, <1>6, <1>8, <2>1, <2>4
  <1>10. ASSUME ~IsWeekdayDaytime(m), IsWeekdayDaytime(t) PROVE FALSE
    <2>1. CASE time + k < DayLength
      <3>1. Works(day) /\ DayStart <= time + k /\ time + k < DayEnd
        BY <1>2, <1>3, <1>6, <1>8, <1>10, <2>1
      <3>2. time < DayStart
        BY <1>1, <1>2, <1>3, <1>5, <1>8, <1>10, <3>1
      <3>3. time + e < DayEnd /\ time + e < DayLength /\ DayStart <= time + e
        BY <1>1, <1>2, <1>3, <3>1, <3>2
      <3> QED BY <1>2, <1>3, <1>7, <1>8, <1>10, <1>both, <3>1, <3>3
    <2>2. CASE time + k >= DayLength
      <3>1. Works(day + 1) /\ DayStart <= time + k - DayLength
        BY <1>1, <1>2, <1>3, <1>6, <1>8, <1>10, <2>2
      <3>2. time + e >= DayLength /\ DayStart <= time + e - DayLength
            /\ time + e - DayLength < DayEnd
        BY <1>1, <1>2, <1>3, <2>2, <3>1
      <3> QED BY <1>1, <1>2, <1>3, <1>7, <1>8, <1>10, <1>both, <3>1, <3>2
    <2> QED BY <1>1, <1>2, <1>3, <2>1, <2>2
  <1> QED BY <1>9, <1>10, <1>bool

\* A limit state of 0 means that the usage is below the limits that are set.
LEMMA Below ==
    ASSUME NEW u, u.used \in Nat, u.soft \in Nat, u.hard \in Nat, LimitState(u) <= 0
    PROVE  \A limit \in {u.soft, u.hard} \ {0} : u.used < limit
  <1>1. ~(u.hard # 0 /\ u.used >= u.hard) /\ ~(u.soft # 0 /\ u.used >= u.soft)
    BY DEF LimitState
  <1> QED BY <1>1

LEMMA MaxOfStates ==
    ASSUME NEW S \in SUBSET (0..2), S # {}
    PROVE  Max(S) \in S /\ \A n \in S : n <= Max(S)
  <1>1. PICK n \in S : \A k \in S : n >= k
    <2>1. CASE 2 \in S
      BY <2>1
    <2>2. CASE 2 \notin S /\ 1 \in S
      BY <2>2
    <2>3. CASE 2 \notin S /\ 1 \notin S
      <3>1. \A k \in S : k = 0
        BY <2>3
      <3>2. 0 \in S
        BY <3>1
      <3> QED BY <3>1, <3>2
    <2> QED BY <2>1, <2>2, <2>3
  <1>2. Max(S) \in S /\ \A k \in S : Max(S) >= k
    BY <1>1 DEF Max
  <1> QED BY <1>2

\* A clear quota names a home file system, and all of them are below.
LEMMA ClearQuota ==
    ASSUME NEW lines, HomeQuota(lines) = "clear",
           \A l \in lines : l.home =>
               \A u \in {l.blocks, l.files} : {u.used, u.soft, u.hard} \subseteq Nat
    PROVE  /\ \E l \in lines : l.home
           /\ \A l \in lines : l.home =>
                \A u \in {l.blocks, l.files} :
                    \A limit \in {u.soft, u.hard} \ {0} : u.used < limit
  <1> DEFINE home == {l \in lines : l.home}
             state(l) == Max({LimitState(l.blocks), LimitState(l.files)})
             states == {state(l) : l \in home}
  <1>1. home # {} /\ ~(Max(states) > 0)
    BY DEF HomeQuota
  <1>2. \A u : LimitState(u) \in 0..2
    BY DEF LimitState
  <1>3. \A l \in home : /\ state(l) \in 0..2
                        /\ LimitState(l.blocks) <= state(l)
                        /\ LimitState(l.files) <= state(l)
    <2> SUFFICES ASSUME NEW l \in home
                 PROVE  /\ state(l) \in 0..2
                        /\ LimitState(l.blocks) <= state(l)
                        /\ LimitState(l.files) <= state(l)
      OBVIOUS
    <2> DEFINE S == {LimitState(l.blocks), LimitState(l.files)}
    <2>1. S \in SUBSET (0..2) /\ S # {}
      BY <1>2
    <2> HIDE DEF S
    <2>2. Max(S) \in S /\ \A n \in S : n <= Max(S)
      BY <2>1, MaxOfStates
    <2>3. Max(S) \in 0..2
      BY <2>1, <2>2
    <2> QED BY <2>2, <2>3 DEF S
  <1> HIDE DEF state
  <1>4. states \in SUBSET (0..2) /\ states # {}
    BY <1>1, <1>3
  <1> HIDE DEF states
  <1>5. Max(states) \in 0..2 /\ \A n \in states : n <= Max(states)
    BY <1>4, MaxOfStates
  <1>6. \A l \in home : state(l) <= 0
    BY <1>1, <1>3, <1>5 DEF states
  <1>7. \A l \in home : LimitState(l.blocks) <= 0 /\ LimitState(l.files) <= 0
    <2> SUFFICES ASSUME NEW l \in home
                 PROVE  LimitState(l.blocks) <= 0 /\ LimitState(l.files) <= 0
      OBVIOUS
    <2>1. LimitState(l.blocks) \in Int /\ LimitState(l.files) \in Int
      BY <1>2
    <2> QED BY <1>3, <1>6, <2>1
  <1>8. ASSUME NEW l \in home, NEW u \in {l.blocks, l.files}
        PROVE  \A limit \in {u.soft, u.hard} \ {0} : u.used < limit
    <2>1. u.used \in Nat /\ u.soft \in Nat /\ u.hard \in Nat
      BY <1>8
    <2>2. LimitState(u) <= 0
      BY <1>7, <1>8
    <2> QED BY <2>1, <2>2, Below
  <1> QED BY <1>1, <1>8

\* However the evidence looks, a job waits only with a window that lies on one
\* side of the day boundaries at each of its instants, though the policy looks
\* at its two ends only, on fresh evidence, without another job, and with every
\* home quota below its limits (evaluate_policy, _walltime_blocks, _home_quota).
THEOREM Granted == Spec => []GrantedWithinPolicy
  <1>1. GrantedByPolicy => GrantedWithinPolicy
    <2> SUFFICES ASSUME granted # Nothing, granted \in Allowed PROVE GrantedWithinPolicy
      BY DEF GrantedByPolicy, GrantedWithinPolicy
    <2> DEFINE r == granted
               m == r.moment
               w == r.walltime
               window == m..(m + w - 1)
    <2>1. r \in Requests /\ ~Blocks(r) /\ ~Unknown(r)
      BY DEF Allowed, EvaluatePolicy
    <2>2. m \in Nat /\ w \in 1..MaxWalltime /\ MaxWalltime \in Nat
      BY <2>1, RequestsAssumption, PolicyAssumption DEF Blocks, WalltimeBlocks
    <2>3. IsWeekdayDaytime(m) = IsWeekdayDaytime(m + w - 1)
      BY <2>1 DEF Blocks, WalltimeBlocks
    <2>4. \A t \in window : IsWeekdayDaytime(t) = IsWeekdayDaytime(m)
      BY <2>2, <2>3, OneSide
    <2>5. window # {} /\ w <= MaxWalltime
      <3>1. m \in window
        BY <2>2
      <3> QED BY <2>2, <3>1
    <2>6. ~IsWeekdayDaytime(m) \/ r.allowDaytime
      BY <2>1 DEF Blocks
    <2>7. \/ \A t \in window : ~IsWeekdayDaytime(t)
          \/ r.allowDaytime /\ \A t \in window : IsWeekdayDaytime(t)
      <3> HIDE DEF window, m
      <3>1. CASE IsWeekdayDaytime(m)
        BY <2>4, <2>6, <3>1
      <3>2. CASE ~IsWeekdayDaytime(m)
        BY <2>4, <3>2
      <3> QED BY <3>1, <3>2
    <2>8. m - MaxEvidenceAge <= r.captured /\ r.captured <= m
      <3>1. r.captured \in Nat /\ m - r.captured \in 0..MaxEvidenceAge /\ MaxEvidenceAge \in Nat
        BY <2>1, RequestsAssumption, PolicyAssumption DEF Unknown, PolicyEvidenceIsFresh
      <3> QED BY <2>2, <3>1
    <2>9. r.jobs = 0
      <3>1. r.jobs \in Nat /\ ~(r.jobs >= 1)
        BY <2>1, RequestsAssumption DEF Blocks, Unknown
      <3> QED BY <3>1
    <2>10. r.quota # Absent /\ HomeQuota(r.quota) = "clear"
      BY <2>1 DEF Blocks, Unknown, HomeQuota
    <2>11. \A l \in r.quota : l.home =>
               \A u \in {l.blocks, l.files} : {u.used, u.soft, u.hard} \subseteq Nat
      BY <2>1, <2>10, RequestsAssumption
    <2>12. /\ \E l \in r.quota : l.home
           /\ \A l \in r.quota : l.home =>
                \A u \in {l.blocks, l.files} :
                    \A limit \in {u.soft, u.hard} \ {0} : u.used < limit
      BY <2>10, <2>11, ClearQuota
    <2> QED BY <2>5, <2>7, <2>8, <2>9, <2>12 DEF GrantedWithinPolicy
  <1> QED BY <1>1, AlwaysGrantedByPolicy, PTL

-----------------------------------------------------------------------------
(* What a text is labelled with *)

\* A nonempty set of naturals has a smallest member.
LEMMA Smallest ==
    ASSUME NEW S \in SUBSET Nat, S # {}
    PROVE  \E n \in S : \A m \in S : n <= m
  <1> DEFINE below == {p \in Nat \X Nat : p[1] < p[2]}
  <1>1. IsWellFoundedOn(below, Nat)
    BY NatLessThanWellFounded DEF OpToRel
  <1> HIDE DEF below
  <1>2. PICK n \in S : \A m \in S : ~(<<m, n>> \in below)
    BY <1>1, WFMin
  <1>3. \A m \in S : ~(m < n)
    BY <1>2 DEF below
  <1> QED BY <1>3

\* Scores have a highest one, finitely many or not, because none is above a bound.
LEMMA Greatest ==
    ASSUME NEW bound \in Nat, NEW S \in SUBSET (0..bound), S # {}
    PROVE  \E n \in S : \A m \in S : m <= n
  <1> DEFINE gaps == {bound - m : m \in S}
  <1>1. gaps \in SUBSET Nat /\ gaps # {}
    <2>1. \A m \in S : bound - m \in Nat
      OBVIOUS
    <2> QED BY <2>1
  <1>2. PICK gap \in gaps : \A g \in gaps : gap <= g
    BY <1>1, Smallest
  <1>3. PICK n \in S : gap = bound - n
    OBVIOUS
  <1>4. \A m \in S : gap <= bound - m
    BY <1>2
  <1> QED BY <1>3, <1>4

LEMMA MaxIs ==
    ASSUME NEW bound \in Nat, NEW S \in SUBSET (0..bound), S # {}
    PROVE  Max(S) \in S /\ \A m \in S : m <= Max(S)
  <1>1. \E n \in S : \A m \in S : n >= m
    BY Greatest
  <1> QED BY <1>1 DEF Max

\* Clamping every score and taking the best is taking the best and clamping it.
LEMMA BestClamped ==
    ASSUME NEW S \in SUBSET (0..(One + Tolerance)), S # {}
    PROVE  /\ Max({Clamped(s) : s \in S}) = Min({One} \cup {Max(S)})
           /\ Max({Clamped(s) : s \in S}) \in 0..One
  <1> DEFINE best == Max(S)
             clamped == {Clamped(s) : s \in S}
  <1>1. One \in Nat /\ Tolerance \in Nat
    BY DetectionAssumption
  <1>2. best \in S /\ \A s \in S : s <= best
    BY <1>1, MaxIs
  <1>3. clamped \in SUBSET (0..One) /\ clamped # {}
    <2>1. \A s \in S : s \in Nat
      BY <1>1
    <2>2. \A s \in S : Clamped(s) \in 0..One
      BY <1>1, <2>1 DEF Clamped
    <2> QED BY <2>2
  <1>4. Max(clamped) \in clamped /\ \A s \in clamped : s <= Max(clamped)
    <2> HIDE DEF clamped
    <2> QED BY <1>1, <1>3, MaxIs
  <1> HIDE DEF best
  <1>5. Clamped(best) \in clamped
    BY <1>2
  <1>6. PICK s \in S : Max(clamped) = Clamped(s)
    BY <1>4
  <1>7. Max(clamped) = Clamped(best)
    <2>1. Clamped(best) <= Max(clamped)
      BY <1>4, <1>5
    <2>2. s <= best /\ s \in Nat /\ best \in Nat
      BY <1>1, <1>2
    <2> HIDE DEF clamped
    <2> QED BY <1>1, <1>6, <2>1, <2>2 DEF Clamped
  <1>8. Clamped(best) = Min({One} \cup {best})
    <2>1. best \in Nat
      BY <1>1, <1>2
    <2>2. Clamped(best) \in {One} \cup {best} /\ \A y \in {One} \cup {best} : Clamped(best) <= y
      BY <1>1, <2>1 DEF Clamped
    <2>3. \A x \in {One} \cup {best} :
            (\A y \in {One} \cup {best} : x <= y) => x = Clamped(best)
      BY <1>1, <2>1 DEF Clamped
    <2> QED BY <2>2, <2>3 DEF Min
  <1> QED BY <1>3, <1>4, <1>7, <1>8 DEF best

\* GlotLID's scores as the code merges them are the best of a code, at most One.
LEMMA MergedScores ==
    ASSUME NEW text, IsText(text)
    PROVE  /\ Merged(text.glotlid) = [c \in {l.code : l \in text.glotlid} |->
                Min({One} \cup {Max({l.score : l \in {k \in text.glotlid : k.code = c}})})]
           /\ Nothing \notin DOMAIN Merged(text.glotlid)
           /\ \A c \in DOMAIN Merged(text.glotlid) : Merged(text.glotlid)[c] \in 0..One
  <1> DEFINE codes == {l.code : l \in text.glotlid}
             scoresOf(c) == {l.score : l \in {k \in text.glotlid : k.code = c}}
             clampedOf(c) == {Clamped(l.score) : l \in {k \in text.glotlid : k.code = c}}
  <1>1. ASSUME NEW c \in codes
        PROVE  /\ Max(clampedOf(c)) = Min({One} \cup {Max(scoresOf(c))})
               /\ Max(clampedOf(c)) \in 0..One
    <2>1. scoresOf(c) \in SUBSET (0..(One + Tolerance)) /\ scoresOf(c) # {}
      BY DEF IsText
    <2>2. clampedOf(c) = {Clamped(s) : s \in scoresOf(c)}
      OBVIOUS
    <2> HIDE DEF scoresOf, clampedOf
    <2> QED BY <2>1, <2>2, BestClamped
  <1>2. Nothing \notin codes
    BY DEF IsText
  <1>3. Merged(text.glotlid) = [c \in codes |-> Max(clampedOf(c))]
    BY DEF Merged
  <1>4. [c \in codes |-> Max(clampedOf(c))] = [c \in codes |-> Min({One} \cup {Max(scoresOf(c))})]
    <2> HIDE DEF codes, clampedOf, scoresOf
    <2> QED BY <1>1
  <1>5. Merged(text.glotlid) = [c \in codes |-> Min({One} \cup {Max(scoresOf(c))})]
    <2> HIDE DEF codes, clampedOf, scoresOf
    <2> QED BY <1>3, <1>4
  <1>6. \A c \in DOMAIN Merged(text.glotlid) : Merged(text.glotlid)[c] \in 0..One
    <2> HIDE DEF codes, clampedOf, scoresOf
    <2> QED BY <1>1, <1>3
  <1> QED BY <1>2, <1>3, <1>5, <1>6

\* Scores as the detector accepts them.
Scores(scores) ==
    /\ Nothing \notin DOMAIN scores
    /\ \A c \in DOMAIN scores : scores[c] \in 0..One

\* What the first two of the ranked scores say.
LEMMA Ranked ==
    ASSUME NEW scores, Scores(scores), DOMAIN scores # {}
    PROVE  LET details == ScoreDetails(scores)
           IN  /\ details.code \in DOMAIN scores /\ details.code # Nothing
               /\ details.top \in 0..One
               /\ \/ details.runnerUp = Nothing /\ details.margin = Nothing
                  \/ /\ details.runnerUp \in 0..One /\ details.runnerUp <= details.top
                     /\ details.margin \in 0..One
                     /\ details.margin = details.top - details.runnerUp
               /\ Settled(scores) =
                    IF details.margin # Nothing /\ details.margin <= TieEpsilon THEN {}
                    ELSE {details.code}
  <1> DEFINE codes == DOMAIN scores
             values == {scores[c] : c \in codes}
             first == CHOOSE c \in codes : \A d \in codes : scores[d] <= scores[c]
             others == {scores[d] : d \in codes \ {first}}
  <1>1. One \in Nat /\ TieEpsilon \in 0..One /\ Nothing \notin Int
    BY DetectionAssumption
  <1>2. values \in SUBSET (0..One) /\ values # {}
    BY DEF Scores
  <1>3. \E c \in codes : \A d \in codes : scores[d] <= scores[c]
    <2>1. PICK n \in values : \A m \in values : m <= n
      <3> HIDE DEF values
      <3> QED BY <1>1, <1>2, Greatest
    <2> QED BY <2>1
  <1>4. first \in codes /\ \A d \in codes : scores[d] <= scores[first]
    <2> HIDE DEF codes
    <2> QED BY <1>3
  <1> HIDE DEF first
  <1>5. \A d \in codes : scores[d] \in 0..One /\ scores[d] \in Int
    BY <1>1 DEF Scores
  <1>6. CASE others = {}
    <2>1. ScoreDetails(scores) = [code |-> first, top |-> scores[first],
                                  runnerUp |-> Nothing, margin |-> Nothing]
      BY <1>6 DEF ScoreDetails, first
    <2>2. codes = {first}
      BY <1>4, <1>6
    <2>3. Settled(scores) = {first}
      BY <2>2 DEF Settled
    <2> QED BY <1>4, <1>5, <2>1, <2>3 DEF Scores
  <1>7. CASE others # {}
    <2> DEFINE second == Max(others)
    <2>1. second \in others /\ \A s \in others : s <= second
      <3>1. others \in SUBSET (0..One)
        BY <1>5
      <3> HIDE DEF others
      <3> QED BY <1>1, <1>7, <3>1, MaxIs
    <2>2. PICK next \in codes \ {first} : second = scores[next]
      BY <2>1
    <2>3. second \in 0..One /\ second <= scores[first] /\ second # Nothing
      BY <1>1, <1>4, <1>5, <2>2
    <2>4. ScoreDetails(scores) = [code |-> first, top |-> scores[first],
                                  runnerUp |-> second, margin |-> scores[first] - second]
      BY <1>7, <2>3 DEF ScoreDetails, first
    <2>5. \A d \in codes \ {first} : scores[d] <= second
      BY <2>1
    <2> HIDE DEF second, others
    <2>6. scores[first] \in 0..One /\ scores[first] - second \in 0..One
      BY <1>1, <1>4, <1>5, <2>3
    <2>7. Settled(scores) = IF scores[first] - second <= TieEpsilon THEN {} ELSE {first}
      <3>1. \A d \in codes \ {first} : d \notin Settled(scores)
        <4> SUFFICES ASSUME NEW d \in codes \ {first} PROVE ~(scores[d] - scores[first] > TieEpsilon)
          BY <1>4 DEF Settled
        <4> QED BY <1>1, <1>4, <1>5
      <3>2. first \in Settled(scores) <=> ~(scores[first] - second <= TieEpsilon)
        <4>1. first \in Settled(scores) <=>
                \A d \in codes \ {first} : scores[first] - scores[d] > TieEpsilon
          BY <1>4 DEF Settled
        <4>2. ASSUME \A d \in codes \ {first} : scores[first] - scores[d] > TieEpsilon
              PROVE  ~(scores[first] - second <= TieEpsilon)
          BY <1>1, <1>4, <1>5, <2>2, <4>2
        <4>3. ASSUME ~(scores[first] - second <= TieEpsilon), NEW d \in codes \ {first}
              PROVE  scores[first] - scores[d] > TieEpsilon
          BY <1>1, <1>4, <1>5, <2>3, <2>5, <4>3
        <4> QED BY <4>1, <4>2, <4>3
      <3>3. Settled(scores) \subseteq codes
        BY DEF Settled
      <3> QED BY <3>1, <3>2, <3>3
    <2>8. scores[first] - second # Nothing
      BY <1>1, <2>6
    <2> QED BY <1>4, <2>3, <2>4, <2>6, <2>7, <2>8 DEF Scores
  <1> QED BY <1>6, <1>7

\* A text is long enough for a model to be asked.
Long(text) == ~text.blank /\ text.letters >= MinAlphabeticChars

LEMMA AskedIfLong ==
    ASSUME NEW text, IsText(text)
    PROVE  /\ Long(text) => InitialReason(text) = "none"
           /\ ~Long(text) => InitialReason(text) \in {"empty_or_whitespace", "no_letters", "too_short"}
  <1>1. /\ text.blank \in BOOLEAN /\ text.letters \in Nat
        /\ MinAlphabeticChars \in Nat /\ MinAlphabeticChars >= 1
    BY DetectionAssumption DEF IsText
  <1>2. CASE text.blank
    BY <1>1, <1>2 DEF InitialReason, Long
  <1>3. CASE ~text.blank /\ text.letters = 0
    BY <1>1, <1>3 DEF InitialReason, Long
  <1>4. CASE ~text.blank /\ text.letters \in 1..(MinAlphabeticChars - 1)
    BY <1>1, <1>4 DEF InitialReason, Long
  <1>5. CASE ~text.blank /\ text.letters >= MinAlphabeticChars
    BY <1>1, <1>5 DEF InitialReason, Long
  <1> QED BY <1>1, <1>2, <1>3, <1>4, <1>5

\* One detector, over whatever scores and mixed languages: its answer is
\* consistent, and it names a language exactly when it settles on one.
LEMMA DetectorAnswers ==
    ASSUME NEW text, IsText(text), NEW scores, Scores(scores), NEW codes
    PROVE  LET r == Detector(text, scores, codes)
               settled == IF HasMixedEvidence(text, codes) THEN {} ELSE Settled(scores)
           IN  /\ ResultIsConsistent(r)
               /\ r.status = "detected" => Long(text) /\ settled = {r.code}
               /\ r.status # "detected" => r.code = Nothing /\ (Long(text) => settled = {})
               /\ Long(text) => r.status # "non_linguistic"
  <1> DEFINE r == Detector(text, scores, codes)
             settled == IF HasMixedEvidence(text, codes) THEN {} ELSE Settled(scores)
  <1>1. One \in Nat /\ TieEpsilon \in 0..One /\ Nothing \notin Int
    BY DetectionAssumption
  <1>2. CASE ~Long(text)
    <2>1. /\ r = NoLanguage(r.status, r.reason)
          /\ r.status \in {"uncertain", "non_linguistic"}
      BY <1>2, AskedIfLong DEF Detector, InitialResult, NoLanguage
    <2>2. ResultIsConsistent(r)
      <3> HIDE DEF r
      <3> QED BY <2>1 DEF NoLanguage, ResultIsConsistent, InRange, Statuses
    <2>3. r.code = Nothing
      <3> HIDE DEF r
      <3> QED BY <2>1 DEF NoLanguage
    <2> QED BY <1>2, <2>1, <2>2, <2>3
  <1>3. CASE Long(text) /\ DOMAIN scores = {}
    <2>1. r = NoLanguage("uncertain", "no_confidence_values")
      BY <1>3, AskedIfLong DEF Detector, ScoreResult
    <2>2. Settled(scores) = {}
      BY <1>3 DEF Settled
    <2> HIDE DEF r
    <2>3. ResultIsConsistent(r)
      BY <2>1 DEF NoLanguage, ResultIsConsistent, InRange, Statuses
    <2>4. r.status = "uncertain" /\ r.code = Nothing
      BY <2>1 DEF NoLanguage
    <2> QED BY <2>2, <2>3, <2>4 DEF r
  <1>4. CASE Long(text) /\ DOMAIN scores # {}
    <2> DEFINE details == ScoreDetails(scores)
               tied == details.margin # Nothing /\ details.margin <= TieEpsilon
               mixed == HasMixedEvidence(text, codes)
               good == ~tied /\ ~mixed
    <2>1. r = ScoreResult(text, scores, codes)
      BY <1>4, AskedIfLong DEF Detector
    <2>2. ScoreReason(text, details.margin, codes) = "detected" <=> good
      <3> HIDE DEF details
      <3> QED BY DEF ScoreReason
    <2>3. /\ r.top = details.top /\ r.runnerUp = details.runnerUp /\ r.margin = details.margin
          /\ good => r.code = details.code /\ r.status = "detected"
          /\ ~good => r.code = Nothing /\ r.status = "uncertain"
      <3> HIDE DEF good
      <3> QED BY <1>4, <2>1, <2>2 DEF ScoreResult
    <2>4. /\ details.code \in DOMAIN scores /\ details.code # Nothing
          /\ details.top \in 0..One
          /\ \/ details.runnerUp = Nothing /\ details.margin = Nothing
             \/ /\ details.runnerUp \in 0..One /\ details.runnerUp <= details.top
                /\ details.margin \in 0..One
                /\ details.margin = details.top - details.runnerUp
          /\ Settled(scores) = IF tied THEN {} ELSE {details.code}
      BY <1>4, Ranked
    <2> HIDE DEF details, r
    <2>5. ResultIsConsistent(r)
      BY <1>1, <2>3, <2>4 DEF ResultIsConsistent, InRange, Statuses
    <2>6. r.status = "detected" => settled = {r.code}
      <3> HIDE DEF tied, mixed
      <3> QED BY <2>3, <2>4 DEF mixed
    <2>7. r.status # "detected" => r.code = Nothing /\ settled = {}
      <3> HIDE DEF tied, mixed
      <3> QED BY <2>3, <2>4 DEF mixed
    <2>8. r.status # "non_linguistic"
      BY <2>3
    <2> QED BY <1>4, <2>5, <2>6, <2>7, <2>8 DEF r
  <1> QED BY <1>2, <1>3, <1>4

\* What RowsAreJustified says of one row.
Justified(row) ==
    LET text == row.text
        long == ~text.blank /\ text.letters >= MinAlphabeticChars
        glotlid == [c \in {l.code : l \in text.glotlid} |->
            Min({One} \cup {Max({l.score : l \in {k \in text.glotlid : k.code = c}})})]
        lingua == IF HasMixedEvidence(text, text.mixed) THEN {} ELSE Settled(text.lingua)
        codes == IF ~long THEN {} ELSE IF lingua # {} THEN lingua ELSE Settled(glotlid)
    IN  /\ RowIsValid(row)
        /\ {row.language.code} \ {Nothing} = codes
        /\ row.split.sentences =
                IF codes # {} /\ codes \subseteq SplitterLanguages THEN text.sentences ELSE 0

\* Both detectors and the splitter behind one another.
LEMMA CascadeAnswers ==
    ASSUME NEW text, IsText(text)
    PROVE  LET r == Cascade(text)
               lingua == IF HasMixedEvidence(text, text.mixed) THEN {} ELSE Settled(text.lingua)
               codes == IF ~Long(text) THEN {}
                        ELSE IF lingua # {} THEN lingua ELSE Settled(Merged(text.glotlid))
           IN  /\ ResultIsConsistent(r)
               /\ r.status = "detected" => codes = {r.code} /\ r.code # Nothing
               /\ r.status # "detected" => codes = {} /\ r.code = Nothing
  <1> DEFINE primary == Detector(text, text.lingua, text.mixed)
             fallback == Detector(text, Merged(text.glotlid), {})
             lingua == IF HasMixedEvidence(text, text.mixed) THEN {} ELSE Settled(text.lingua)
             glotlid == Settled(Merged(text.glotlid))
             r == Cascade(text)
  <1>1. Scores(text.lingua) /\ Scores(Merged(text.glotlid))
    BY MergedScores DEF IsText, Scores
  <1>2. ~HasMixedEvidence(text, {})
    <2>1. Cardinality({}) = 0
      BY FS_EmptySet
    <2> QED BY <2>1 DEF HasMixedEvidence
  <1>3. /\ ResultIsConsistent(primary)
        /\ primary.status = "detected" => Long(text) /\ lingua = {primary.code}
        /\ primary.status # "detected" =>
                primary.code = Nothing /\ (Long(text) => lingua = {})
        /\ Long(text) => primary.status # "non_linguistic"
    BY <1>1, DetectorAnswers
  <1>4. /\ ResultIsConsistent(fallback)
        /\ fallback.status = "detected" => Long(text) /\ glotlid = {fallback.code}
        /\ fallback.status # "detected" =>
                fallback.code = Nothing /\ (Long(text) => glotlid = {})
    BY <1>1, <1>2, DetectorAnswers
  <1>5. r = IF primary.status = "uncertain" /\ fallback.status = "detected"
            THEN [fallback EXCEPT !.reason = "fallback_glotlid_v3"] ELSE primary
    BY DEF Cascade
  <1>6. /\ fallback = [code |-> fallback.code, top |-> fallback.top,
                       runnerUp |-> fallback.runnerUp, margin |-> fallback.margin,
                       status |-> fallback.status, reason |-> fallback.reason]
        /\ primary = [code |-> primary.code, top |-> primary.top,
                      runnerUp |-> primary.runnerUp, margin |-> primary.margin,
                      status |-> primary.status, reason |-> primary.reason]
    BY DEF Detector, InitialResult, ScoreResult, NoLanguage
  <1>7. /\ ResultIsConsistent(primary) => primary.status \in Statuses
        /\ primary.status = "detected" => primary.code # Nothing
        /\ fallback.status = "detected" => fallback.code # Nothing
    BY <1>3, <1>4 DEF ResultIsConsistent
  <1> HIDE DEF primary, fallback, lingua, glotlid, r
  <1>8. CASE primary.status = "uncertain" /\ fallback.status = "detected"
    <2>1. r = [code |-> fallback.code, top |-> fallback.top, runnerUp |-> fallback.runnerUp,
               margin |-> fallback.margin, status |-> fallback.status,
               reason |-> "fallback_glotlid_v3"]
      BY <1>5, <1>6, <1>8
    <2>2. ResultIsConsistent(r)
      BY <1>4, <2>1 DEF ResultIsConsistent, InRange
    <2>3. Long(text) /\ lingua = {} /\ glotlid = {r.code} /\ r.code # Nothing
      BY <1>3, <1>4, <1>7, <1>8, <2>1
    <2>4. r.status = "detected"
      BY <1>8, <2>1
    <2> QED BY <2>2, <2>3, <2>4 DEF r, lingua, glotlid
  <1>9. CASE ~(primary.status = "uncertain" /\ fallback.status = "detected")
    <2>1. r = primary
      BY <1>5, <1>9
    <2>2. r.status = "detected" => Long(text) /\ lingua = {r.code} /\ r.code # Nothing
      BY <1>3, <1>7, <2>1
    <2>3. r.status # "detected" =>
            r.code = Nothing /\ (Long(text) => lingua = {} /\ glotlid = {})
      BY <1>3, <1>4, <1>7, <1>9, <2>1 DEF Statuses
    <2>4. ResultIsConsistent(r)
      BY <1>3, <2>1
    <2> QED BY <2>2, <2>3, <2>4 DEF r, lingua, glotlid
  <1> QED BY <1>8, <1>9

\* Whatever the models answer within their range, the row is justified.
LEMMA AnnotationIsJustified ==
    ASSUME NEW text, IsText(text)
    PROVE  Justified(Annotation(text))
  <1> DEFINE r == Cascade(text)
             split == SplitFor(text, r)
             lingua == IF HasMixedEvidence(text, text.mixed) THEN {} ELSE Settled(text.lingua)
             codes == IF ~Long(text) THEN {}
                      ELSE IF lingua # {} THEN lingua ELSE Settled(Merged(text.glotlid))
  <1>1. /\ ResultIsConsistent(r)
        /\ r.status = "detected" => codes = {r.code} /\ r.code # Nothing
        /\ r.status # "detected" => codes = {} /\ r.code = Nothing
    BY CascadeAnswers
  <1> HIDE DEF r, codes
  <1>2. /\ split.status \in SplitStatuses
        /\ split.sentences > 0 => split.status = "split"
        /\ split.sentences = IF codes # {} /\ codes \subseteq SplitterLanguages
                             THEN text.sentences ELSE 0
    <2>1. CASE r.status # "detected"
      BY <1>1, <2>1 DEF SplitFor, SplitStatuses
    <2>2. CASE r.status = "detected" /\ r.code \notin SplitterLanguages
      BY <1>1, <2>2 DEF SplitFor, SplitStatuses
    <2>3. CASE r.status = "detected" /\ r.code \in SplitterLanguages
      BY <1>1, <2>3 DEF SplitFor, SplitStatuses
    <2> QED BY <2>1, <2>2, <2>3
  <1>3. {r.code} \ {Nothing} = codes
    BY <1>1
  <1>4. Annotation(text) = [text |-> text, language |-> r, split |-> split]
    BY DEF Annotation, r
  <1>5. RowIsValid(Annotation(text))
    <2> HIDE DEF split
    <2> QED BY <1>1, <1>2, <1>4 DEF RowIsValid
  <1>6. Merged(text.glotlid) = [c \in {l.code : l \in text.glotlid} |->
            Min({One} \cup {Max({l.score : l \in {k \in text.glotlid : k.code = c}})})]
    BY MergedScores
  <1>7. Annotation(text).text = text /\ Annotation(text).language = r
        /\ Annotation(text).split = split
    BY <1>4
  <1> HIDE DEF split
  <1> QED BY <1>2, <1>3, <1>5, <1>6, <1>7 DEF Justified, codes, Long

\* The rows a worker holds are annotations of texts with scores in range.
RowsKnow(place) ==
    worker[place] # Nothing /\ worker[place].step = "annotated" =>
        \A row \in worker[place].rows : \E text : IsText(text) /\ row = Annotation(text)

\* A worker only annotates a batch that the file it opened has.
LEMMA AnnotateBatchKnows ==
    ASSUME Frozen, NEW place \in Places, AnnotateBatch(place)
    PROVE  RowsKnow(place)'
  <1>1. worker[place].file \in Versions /\ Len(worker[place].done) + 1 \in 1..Batches
    <2>1. WorkerKnows(place)
      BY DEF Frozen
    <2>2. worker[place].file \in Versions /\ worker[place].done \in Seq(Parts)
      BY <2>1 DEF WorkerKnows, AnnotateBatch, Good
    <2>3. Len(worker[place].done) \in Nat
      BY <2>2
    <2> QED BY <2>2, <2>3 DEF AnnotateBatch
  <1> DEFINE version == worker[place].file
             batch == Len(worker[place].done) + 1
  <1>2. worker'[place].rows = Annotations[version][batch]
    BY DEF Frozen, TypeOK, AnnotateBatch
  <1> HIDE DEF version, batch
  <1>3. Annotations[version][batch] = {Annotation(t) : t \in TextsOf(version, batch)}
    BY <1>1 DEF Annotations, version, batch
  <1>4. \A t \in TextsOf(version, batch) : IsText(t)
    BY <1>1, TextsAssumption DEF version, batch
  <1> QED BY <1>2, <1>3, <1>4 DEF RowsKnow

LEMMA AlwaysRowsKnow == Spec => [](\A place \in Places : RowsKnow(place))
  <1>1. Init => \A place \in Places : RowsKnow(place)
    BY DEF Init, RowsKnow
  <1>2. ASSUME Frozen, \A place \in Places : RowsKnow(place), [Next]_vars
        PROVE  (\A place \in Places : RowsKnow(place))'
    <2> SUFFICES ASSUME NEW p \in Places PROVE RowsKnow(p)'
      OBVIOUS
    <2>1. ASSUME worker'[p] = worker[p] PROVE RowsKnow(p)'
      BY <1>2, <2>1 DEF RowsKnow
    <2>2. ASSUME NEW place \in Places, Run(place) PROVE RowsKnow(p)'
      <3>1. CASE AnnotateBatch(place)
        <4>1. CASE p = place
          BY <1>2, <3>1, <4>1, AnnotateBatchKnows
        <4>2. CASE p # place
          BY <2>1, <3>1, <4>2, <1>2 DEF AnnotateBatch, Frozen, TypeOK
        <4> QED BY <4>1, <4>2
      <3>2. CASE ~AnnotateBatch(place)
        <4>1. CASE p = place
          <5>1. worker'[p] # Nothing => worker'[p].step # "annotated"
            BY <1>2, <2>2, <3>2, <4>1 DEF Run, Starts, VerifyProjectIdentity, BuildDetector,
               VerifySource, OpenSource, CommitBatch, Stops, Frozen, TypeOK
          <5> QED BY <5>1 DEF RowsKnow
        <4>2. CASE p # place
          <5>1. worker'[p] = worker[p]
            BY <1>2, <2>2, <3>2, <4>2 DEF Run, Starts, VerifyProjectIdentity, BuildDetector,
               VerifySource, OpenSource, CommitBatch, Stops, Frozen, TypeOK
          <5> QED BY <2>1, <5>1
        <4> QED BY <4>1, <4>2
      <3> QED BY <3>1, <3>2
    <2>3. ASSUME ~(\E place \in Places : Run(place)) PROVE worker' = worker
      BY <1>2, <2>3 DEF Next, vars, FingerprintProject, InspectSource, PrepareSnapshot, Staging, VerifyStageInputs,
         SelectPayload, CopyProject, CopySource, SealPayload, VerifyTransfer, Sends, StageEnds,
         Submit, Collect, ReplaceSource, UpdateProject
    <2> QED BY <2>1, <2>2, <2>3
  <1> QED BY <1>1, <1>2, AlwaysFrozen, PTL DEF Spec

\* For any texts, scores, gates and bounds: a worker never refuses its own rows,
\* and a row names a language exactly when Lingua settles on it for a long text
\* that is not mixed, or else GlotLID does (FallbackLanguageDetector,
\* GatedSentenceSplitter, _validate_annotation_row).
THEOREM Justifies == Spec => []RowsAreJustified
  <1>1. (\A place \in Places : RowsKnow(place)) => RowsAreJustified
    <2> SUFFICES ASSUME \A place \in Places : RowsKnow(place),
                        NEW place \in Places, worker[place] # Nothing,
                        worker[place].step = "annotated", NEW row \in worker[place].rows
                 PROVE  Justified(row)
      BY DEF RowsAreJustified, Justified
    <2>1. PICK text : IsText(text) /\ row = Annotation(text)
      BY DEF RowsKnow
    <2> QED BY <2>1, AnnotationIsJustified
  <1> QED BY <1>1, AlwaysRowsKnow, PTL
=============================================================================
