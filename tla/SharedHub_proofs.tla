------------------------- MODULE SharedHub_proofs --------------------------
(* Theorems about SharedHub, for any versions, exports and bounds.         *)
EXTENDS SharedHub, TLAPS

-----------------------------------------------------------------------------
(* The inductive invariant *)

\* What a release knows of the revision it pinned, and of its own card.  The
\* statistics lie between the pinned data and the local data of now, so an
\* unchanged inventory makes all three equal.
ReleaseInv ==
    /\ releasePc # "idle" => hub[parent].data = inventory
    /\ releasePc = "synced" =>
        readme = hub[parent].card /\ inventory <= localData
    /\ releasePc = "computed" =>
        inventory <= readme.stats /\ readme.stats <= localData
    /\ releasePc \in {"computed", "match", "commit"} =>
        readme.section = hub[parent].card.section
    /\ releasePc \in {"match", "commit", "verify"} => readme.stats = inventory
    /\ releasePc = "commit" /\ Unmoved(parent) => Latest.card # readme

\* What the language publisher knows between its intent and its record.
LanguageInv ==
    /\ languagePc # "idle" =>
        /\ record # NoExport
        /\ record.plan = export
        /\ record.status # "drifted"
    /\ languagePc = "commit" =>
        /\ record.status = "ambiguous"
        /\ current <= baseline
        /\ Unmoved(current) /\ Latest.language = export => export \in confirmed

IInv ==
    /\ TypeOK
    /\ ReleaseInv
    /\ LanguageInv
    /\ ReleasedStatsDescribeData
    /\ NoLostUpdate
    /\ ReleaseCommitsNews
    /\ UnverifiedUploadIsKnown

USE DEF ReleasePoints, LanguagePoints
-----------------------------------------------------------------------------
(* The dataset grows by at most one commit *)

LEMMA AppendFacts ==
  ASSUME NEW S, NEW seq \in Seq(S), NEW x \in S
  PROVE  /\ Append(seq, x) \in Seq(S)
         /\ Len(Append(seq, x)) = Len(seq) + 1
         /\ \A i \in 1..Len(seq) : Append(seq, x)[i] = seq[i]
         /\ Append(seq, x)[Len(seq) + 1] = x
  OBVIOUS

\* The head is a snapshot, and so is what a writer makes of it.
LEMMA LatestFacts ==
  ASSUME TypeOK
  PROVE  /\ Len(hub) \in Nat \ {0}
         /\ Latest \in Snapshot
         /\ Latest.data \in Versions /\ Latest.card \in Card
         /\ \A i \in 1..Len(hub) : hub[i] \in Snapshot
<1>1. Len(hub) \in Nat \ {0} /\ hub \in Seq(Snapshot)
  BY BoundsAssumption DEF TypeOK
<1>2. \A i \in 1..Len(hub) : hub[i] \in Snapshot
  BY <1>1
<1> QED
  BY <1>1, <1>2 DEF Latest, Snapshot

\* What each kind of commit appends.
RunCommit == \E d \in Versions :
    \/ Commit([Latest EXCEPT !.data = d, !.by = "run"])
    \/ Commit([Latest EXCEPT !.card = [stats |-> d, section |-> NoExport],
                             !.by = "run"])
ReleaseCommit ==
    /\ releasePc = "commit"
    /\ Unmoved(parent)
    /\ Commit([Latest EXCEPT !.card = readme, !.by = "release"])
LanguageCommit ==
    /\ languagePc = "commit"
    /\ Unmoved(current)
    /\ Commit(WithExport(hub[current].card))

LEMMA HubSteps ==
  ASSUME [Next]_vars
  PROVE  \/ UNCHANGED hub
         \/ CanCommit /\ RunCommit
         \/ CanCommit /\ ReleaseCommit
         \/ CanCommit /\ LanguageCommit
  BY DEF Next, vars, RunCommit, ReleaseCommit, LanguageCommit, RunUploadsData,
         RunUploadsCard, LocalDataChanges, ReleasePrepares, ReleaseComputes,
         ReleaseChecks, ReleaseRefusesChange, ReleaseStops, ReleaseMatches,
         ReleaseDiffers, ReleaseCommits, ReleaseCommitFails,
         ReleaseRefusesParent, ReleaseVerifies, ReleaseRefusesRemote,
         ReleaseReports, ReleaseKilled, ExportAgain, Plan, PublishResumes,
         PublishDrifted, PublishBegins, LanguageCommits, LanguageCommitFails,
         LanguageVerifies, LanguageKilled

\* run-and-publish never touches the language files.
LEMMA RunSnapshots ==
  ASSUME TypeOK, RunCommit
  PROVE  \E x \in Snapshot : /\ Commit(x)
                             /\ x.by = "run"
                             /\ x.language = Latest.language
<1>1. PICK d \in Versions :
        \/ Commit([Latest EXCEPT !.data = d, !.by = "run"])
        \/ Commit([Latest EXCEPT !.card = [stats |-> d, section |-> NoExport],
                                 !.by = "run"])
  BY DEF RunCommit
<1>2. CASE Commit([Latest EXCEPT !.data = d, !.by = "run"])
  <2> DEFINE x == [Latest EXCEPT !.data = d, !.by = "run"]
  <2>1. x \in Snapshot /\ x.by = "run" /\ x.language = Latest.language
    BY LatestFacts DEF Snapshot, Writers
  <2> QED
    BY <1>2, <2>1
<1>3. CASE Commit([Latest EXCEPT !.card = [stats |-> d, section |-> NoExport],
                                 !.by = "run"])
  <2> DEFINE x == [Latest EXCEPT !.card = [stats |-> d, section |-> NoExport],
                                 !.by = "run"]
  <2>1. x \in Snapshot /\ x.by = "run" /\ x.language = Latest.language
    BY LatestFacts DEF Snapshot, Card, Writers
  <2> QED
    BY <1>3, <2>1
<1> QED
  BY <1>1, <1>2, <1>3

\* A commit appends a snapshot and leaves all earlier revisions alone.
LEMMA HubGrows ==
  ASSUME TypeOK, [Next]_vars
  PROVE  /\ hub' \in Seq(Snapshot)
         /\ Len(hub') \in 1..MaxCommits
         /\ Len(hub) <= Len(hub')
         /\ \A i \in 1..Len(hub) : hub'[i] = hub[i]
<1>0. /\ hub \in Seq(Snapshot) /\ Len(hub) \in 1..MaxCommits
      /\ MaxCommits \in Nat
  BY BoundsAssumption DEF TypeOK
<1>1. CASE UNCHANGED hub
  BY <1>0, <1>1
<1>2. ASSUME NEW x \in Snapshot, CanCommit, Commit(x)
      PROVE  /\ hub' \in Seq(Snapshot)
             /\ Len(hub') \in 1..MaxCommits
             /\ Len(hub) <= Len(hub')
             /\ \A i \in 1..Len(hub) : hub'[i] = hub[i]
  <2>1. hub' = Append(hub, x) /\ Len(hub) < MaxCommits
    BY <1>2 DEF Commit, CanCommit
  <2> QED
    BY <1>0, <2>1, AppendFacts
<1>3. CASE CanCommit /\ RunCommit
  BY <1>2, <1>3, RunSnapshots
<1>4. CASE CanCommit /\ ReleaseCommit
  <2>1. [Latest EXCEPT !.card = readme, !.by = "release"] \in Snapshot
    BY LatestFacts DEF TypeOK, Snapshot, Writers
  <2> QED
    BY <1>2, <1>4, <2>1 DEF ReleaseCommit
<1>5. CASE CanCommit /\ LanguageCommit
  <2>1. hub[current].card \in Card
    BY LatestFacts DEF TypeOK, Snapshot
  <2>2. WithExport(hub[current].card) \in Snapshot
    BY <2>1, LatestFacts DEF TypeOK, WithExport, Snapshot, Card, Writers
  <2> QED
    BY <1>2, <1>5, <2>2 DEF LanguageCommit
<1> QED
  BY <1>1, <1>3, <1>4, <1>5, HubSteps

-----------------------------------------------------------------------------
(* Each conjunct is kept by every step *)

LEMMA InitInv == Init => IInv
<1> SUFFICES ASSUME Init PROVE IInv
  OBVIOUS
<1>1. PICK d \in Versions :
        hub = <<[data |-> d, card |-> [stats |-> d, section |-> NoExport],
                 language |-> NoExport, by |-> "run"]>>
  BY DEF Init
<1> DEFINE first == [data |-> d, card |-> [stats |-> d, section |-> NoExport],
                     language |-> NoExport, by |-> "run"]
<1>2. first \in Snapshot
  BY DEF Snapshot, Card, Writers
<1>3. hub \in Seq(Snapshot) /\ Len(hub) = 1 /\ Latest = first
  BY <1>1, <1>2 DEF Latest
<1>4. TypeOK
  BY <1>3, BoundsAssumption DEF Init, TypeOK, Card
<1>5. ReleaseInv /\ LanguageInv /\ ReleasedStatsDescribeData
  BY DEF Init, ReleaseInv, LanguageInv, ReleasedStatsDescribeData
<1>6. NoLostUpdate /\ ReleaseCommitsNews
  BY <1>3 DEF NoLostUpdate, ReleaseCommitsNews
<1>7. UnverifiedUploadIsKnown
  BY <1>3 DEF UnverifiedUploadIsKnown
<1> QED
  BY <1>4, <1>5, <1>6, <1>7 DEF IInv

LEMMA TypeStep ==
  ASSUME TypeOK, [Next]_vars
  PROVE  TypeOK'
<1>0. /\ hub' \in Seq(Snapshot) /\ Len(hub') \in 1..MaxCommits
      /\ Len(hub) <= Len(hub') /\ Len(hub) \in 1..MaxCommits
      /\ Latest.card \in Card
      /\ MaxCommits \in Nat /\ MaxExports \in Nat /\ MaxFaults \in Nat
  BY HubGrows, LatestFacts, BoundsAssumption DEF TypeOK
<1>1. CASE RunUploadsData \/ RunUploadsCard
  <2>1. UNCHANGED <<release, language, faults>>
    BY <1>1 DEF RunUploadsData, RunUploadsCard
  <2> QED
    BY <1>0, <2>1 DEF TypeOK, release, language
<1>2. CASE LocalDataChanges
  BY <1>0, <1>2 DEF LocalDataChanges, TypeOK, language
<1>3. CASE ReleasePrepares \/ ReleaseComputes \/ ReleaseChecks \/ ReleaseMatches
           \/ ReleaseDiffers \/ ReleaseVerifies
  BY <1>0, <1>3
     DEF ReleasePrepares, RemoteCard, ReleaseComputes, ReleaseChecks, ReleaseMatches,
         ReleaseDiffers, ReleaseVerifies, TypeOK, Card, language
<1>4. CASE ReleaseRefusesChange \/ ReleaseRefusesParent \/ ReleaseRefusesRemote
           \/ ReleaseReports \/ ReleaseKilled
  BY <1>0, <1>4
     DEF ReleaseRefusesChange, ReleaseRefusesParent, ReleaseRefusesRemote,
         ReleaseReports, ReleaseKilled, ReleaseStops, TypeOK, language
<1>5. CASE ReleaseCommits \/ ReleaseCommitFails
  BY <1>0, <1>5 DEF ReleaseCommits, ReleaseCommitFails, TypeOK, language
<1>6. CASE ExportAgain \/ Plan
  <2>1. exports' \in 0..MaxExports
    BY <1>0, <1>6 DEF ExportAgain, Plan, TypeOK
  <2> QED
    BY <1>0, <1>6, <2>1 DEF ExportAgain, Plan, TypeOK, release
<1>7. CASE PublishResumes \/ PublishDrifted \/ PublishBegins
  BY <1>0, <1>7
     DEF PublishResumes, PublishDrifted, PublishBegins, Intent, TypeOK, Outcome,
         Statuses, release
<1>8. CASE LanguageCommits \/ LanguageCommitFails
  <2>1. /\ UNCHANGED <<release, export, baseline, current, confirmed, exports>>
        /\ languagePc' \in LanguagePoints
        /\ faults' \in 0..MaxFaults
    BY <1>0, <1>8 DEF LanguageCommits, LanguageCommitFails, TypeOK
  <2>2. record' \in Outcome \cup {NoExport}
    BY <1>8 DEF LanguageCommits, LanguageCommitFails, TypeOK, Outcome, Statuses
  <2> QED
    BY <1>0, <2>1, <2>2 DEF TypeOK, release
<1>9. CASE LanguageVerifies \/ LanguageKilled
  BY <1>0, <1>9
     DEF LanguageVerifies, ViewerLists, LanguageKilled, TypeOK, Outcome, Statuses, release
<1>10. CASE UNCHANGED vars
  BY <1>0, <1>10 DEF vars, TypeOK, release, language
<1> QED
  BY <1>1, <1>2, <1>3, <1>4, <1>5, <1>6, <1>7, <1>8, <1>9, <1>10 DEF Next

\* The steps of the other writers change nothing a release has read.
LEMMA ReleaseStep ==
  ASSUME IInv, [Next]_vars
  PROVE  ReleaseInv' /\ ReleasedStatsDescribeData'
<1> USE DEF IInv, ReleaseInv, ReleasedStatsDescribeData
<1>0. /\ \A i \in 1..Len(hub) : hub'[i] = hub[i]
      /\ Len(hub) <= Len(hub') /\ Len(hub) \in Nat \ {0} /\ Len(hub') \in Nat
      /\ parent \in 1..Len(hub) /\ revision \in 1..Len(hub)
      /\ inventory \in Nat /\ localData \in Nat /\ readme.stats \in Nat
      /\ readme \in Card
  <2>1. /\ Len(hub') \in 1..MaxCommits /\ MaxCommits \in Nat
        /\ Len(hub) <= Len(hub') /\ Len(hub) \in Nat \ {0}
        /\ \A i \in 1..Len(hub) : hub'[i] = hub[i]
    BY HubGrows, LatestFacts, BoundsAssumption
  <2>2. inventory \in Nat /\ localData \in Nat /\ readme.stats \in Nat
    BY VersionsAssumption DEF TypeOK, Card
  <2> QED
    BY SMTT(30), <2>1, <2>2 DEF TypeOK
<1>h. /\ hub'[parent] = hub[parent] /\ hub'[revision] = hub[revision]
      /\ Unmoved(parent)' /\ parent' = parent =>
            Unmoved(parent) /\ Latest' = Latest
  BY <1>0 DEF Unmoved, Latest
<1>1. CASE UNCHANGED release
  BY <1>0, <1>h, <1>1 DEF release
<1>2. CASE LocalDataChanges
  <2>1. localData' \in Nat /\ localData < localData'
    BY <1>2, VersionsAssumption DEF LocalDataChanges
  <2> QED
    BY <1>0, <1>h, <1>2, <2>1 DEF LocalDataChanges
<1>3. CASE ReleasePrepares
  BY <1>0, <1>3 DEF ReleasePrepares, RemoteCard, InventoryMatches, Latest
<1>4. CASE ReleaseComputes
  <2>1. readme' = [stats |-> localData, section |-> readme.section]
    BY <1>0, <1>4 DEF ReleaseComputes, Card
  <2> QED
    <3>1. /\ releasePc = "synced" /\ releasePc' = "computed"
          /\ UNCHANGED <<localData, parent, inventory, revision>>
      BY <1>4 DEF ReleaseComputes
    <3>2. readme'.stats = localData /\ readme'.section = hub[parent].card.section
      BY <2>1, <3>1
    <3> QED
      BY <1>0, <1>h, <3>1, <3>2
<1>5. CASE ReleaseChecks
  BY <1>0, <1>h, <1>5 DEF ReleaseChecks
<1>6. CASE ReleaseMatches \/ ReleaseVerifies
  BY <1>0, <1>h, <1>6
     DEF ReleaseMatches, ReleaseVerifies, MetadataMatches, InventoryMatches
<1>7. CASE ReleaseDiffers
  BY <1>0, <1>h, <1>7 DEF ReleaseDiffers, MetadataMatches, Latest
<1>8. CASE ReleaseCommits
  BY <1>0, <1>h, <1>8 DEF ReleaseCommits
<1>9. CASE releasePc' = "idle"
  BY <1>9
<1> QED
  BY <1>1, <1>2, <1>3, <1>4, <1>5, <1>6, <1>7, <1>8, <1>9
     DEF Next, vars, RunUploadsData, RunUploadsCard, ReleaseRefusesChange,
         ReleaseStops, ReleaseCommitFails, ReleaseRefusesParent,
         ReleaseRefusesRemote, ReleaseReports, ReleaseKilled, ExportAgain, Plan,
         PublishResumes, PublishDrifted, PublishBegins, LanguageCommits,
         LanguageCommitFails, LanguageVerifies, LanguageKilled

\* Only the last commit is new; a release or a language publication makes it
\* from the very commit before.
LEMMA HistoryStep ==
  ASSUME IInv, [Next]_vars
  PROVE  NoLostUpdate' /\ ReleaseCommitsNews'
<1> USE DEF IInv
<1>0. hub \in Seq(Snapshot) /\ Len(hub) \in Nat \ {0}
  BY LatestFacts DEF TypeOK
<1>1. CASE UNCHANGED hub
  BY <1>1 DEF NoLostUpdate, ReleaseCommitsNews
<1>2. ASSUME NEW x \in Snapshot, Commit(x),
             x.by = "release" =>
                x.card.section = Latest.card.section /\ x.card # Latest.card,
             x.by = "language" => x.card.stats = Latest.card.stats
      PROVE  NoLostUpdate' /\ ReleaseCommitsNews'
  <2>1. /\ Len(hub') = Len(hub) + 1
        /\ \A i \in 1..Len(hub) : hub'[i] = hub[i]
        /\ hub'[Len(hub) + 1] = x
    BY <1>0, <1>2, AppendFacts DEF Commit
  <2>2. ASSUME NEW i \in 2..Len(hub')
        PROVE  \/ i \in 2..Len(hub) /\ hub'[i] = hub[i] /\ hub'[i - 1] = hub[i - 1]
               \/ hub'[i] = x /\ hub'[i - 1] = Latest
    <3>1. CASE i = Len(hub) + 1
      BY <1>0, <2>1, <3>1 DEF Latest
    <3>2. CASE i # Len(hub) + 1
      BY <1>0, <2>1, <3>2
    <3> QED
      BY <3>1, <3>2
  <2>3. NoLostUpdate'
    BY <1>2, <2>2 DEF NoLostUpdate
  <2>4. ReleaseCommitsNews'
    BY <1>2, <2>2 DEF ReleaseCommitsNews
  <2> QED
    BY <2>3, <2>4
<1>3. CASE RunCommit
  BY <1>2, <1>3, RunSnapshots
<1>4. CASE ReleaseCommit
  <2> DEFINE x == [Latest EXCEPT !.card = readme, !.by = "release"]
  <2>1. x \in Snapshot /\ x.by = "release" /\ x.card = readme
    BY LatestFacts DEF TypeOK, Snapshot, Writers
  <2>2. readme.section = Latest.card.section /\ readme # Latest.card
    BY <1>4 DEF ReleaseCommit, ReleaseInv, Unmoved, Latest
  <2> QED
    BY <1>2, <1>4, <2>1, <2>2 DEF ReleaseCommit
<1>5. CASE LanguageCommit
  <2> DEFINE x == WithExport(hub[current].card)
  <2>1. hub[current].card = Latest.card
    BY <1>5 DEF LanguageCommit, Unmoved, Latest
  <2>2. x \in Snapshot /\ x.by = "language" /\ x.card.stats = Latest.card.stats
    BY <2>1, LatestFacts DEF TypeOK, WithExport, Snapshot, Card, Writers
  <2> QED
    BY <1>2, <1>5, <2>2 DEF LanguageCommit
<1> QED
  BY <1>1, <1>3, <1>4, <1>5, HubSteps

\* The files on the Hub change with a language commit only.
LEMMA LanguageFiles ==
  ASSUME TypeOK, [Next]_vars
  PROVE  \/ UNCHANGED hub
         \/ Len(hub') = Len(hub) + 1 /\ Latest'.language = Latest.language
            /\ Latest'.by # "language"
         \/ Len(hub') = Len(hub) + 1 /\ Latest'.language = export
            /\ Latest'.by = "language" /\ LanguageCommit
<1>0. hub \in Seq(Snapshot) /\ Len(hub) \in Nat \ {0} /\ Latest \in Snapshot
  BY LatestFacts DEF TypeOK
<1>1. ASSUME NEW x \in Snapshot, Commit(x)
      PROVE  Len(hub') = Len(hub) + 1 /\ Latest' = x
  BY <1>0, <1>1, AppendFacts DEF Commit, Latest
<1>2. CASE RunCommit
  BY <1>1, <1>2, RunSnapshots
<1>3. CASE ReleaseCommit
  <2> DEFINE x == [Latest EXCEPT !.card = readme, !.by = "release"]
  <2>1. x \in Snapshot /\ x.by = "release" /\ x.language = Latest.language
    BY LatestFacts DEF TypeOK, Snapshot, Writers
  <2> QED
    BY <1>1, <1>3, <2>1 DEF ReleaseCommit
<1>4. CASE LanguageCommit
  <2> DEFINE x == WithExport(hub[current].card)
  <2>1. hub[current].card \in Card
    BY LatestFacts DEF TypeOK, Snapshot
  <2>2. x \in Snapshot /\ x.by = "language" /\ x.language = export
    BY <2>1, LatestFacts DEF TypeOK, WithExport, Snapshot, Card, Writers
  <2> QED
    BY <1>1, <1>4, <2>2 DEF LanguageCommit
<1> QED
  BY <1>2, <1>3, <1>4, HubSteps

\* The publisher goes ahead only if nothing of its export is on the Hub
\* unverified.
LEMMA BeginsClean ==
  ASSUME IInv, MayPublish, ~Resumed
  PROVE  Latest.language \in confirmed \cup {NoExport}
  BY DEF IInv, MayPublish, Resumed, Unresolved, UnverifiedUploadIsKnown

LEMMA LanguageStep ==
  ASSUME IInv, [Next]_vars
  PROVE  LanguageInv' /\ UnverifiedUploadIsKnown'
<1> USE DEF IInv, LanguageInv, UnverifiedUploadIsKnown
<1>0. /\ Len(hub) \in Nat \ {0} /\ current \in 1..Len(hub)
      /\ baseline \in 1..Len(hub) /\ confirmed \subseteq Exports
      /\ export \in Exports
      /\ [status |-> "ambiguous", plan |-> export] # NoExport
      /\ [status |-> "unverified", plan |-> export] # NoExport
      /\ [status |-> "verified", plan |-> export] # NoExport
  BY LatestFacts, NoExportAssumption DEF TypeOK, Outcome, Statuses
<1>1. CASE UNCHANGED language
  <2>1. CASE UNCHANGED hub
    BY <1>1, <2>1 DEF language, Unmoved, Latest, Unresolved
  <2>2. CASE Len(hub') = Len(hub) + 1 /\ Latest'.language = Latest.language
    BY <1>0, <1>1, <2>2 DEF language, Unmoved, Unresolved
  <2>3. CASE /\ Len(hub') = Len(hub) + 1
             /\ Latest'.language = export
             /\ LanguageCommit
    BY <1>0, <1>1, <2>3 DEF LanguageCommit, language, Unmoved, Unresolved
  <2> QED
    BY <2>1, <2>2, <2>3, LanguageFiles
<1>2. CASE ExportAgain
  BY <1>0, <1>2 DEF ExportAgain, Unresolved, Latest
<1>3. CASE Plan
  BY <1>0, <1>3 DEF Plan, Unresolved, Unmoved, Latest
<1>4. CASE PublishResumes
  BY <1>4 DEF PublishResumes, Resumed, Unresolved, Latest
<1>5. CASE PublishDrifted
  <2>1. Latest'.language \in confirmed' \cup {NoExport}
    BY <1>5, BeginsClean DEF PublishDrifted, Latest
  <2> QED
    BY <1>5, <2>1 DEF PublishDrifted, MayPublish
<1>6. CASE PublishBegins
  <2>1. Latest'.language \in confirmed' \cup {NoExport} /\ export # NoExport
    BY <1>0, <1>6, BeginsClean, NoExportAssumption DEF PublishBegins, Latest
  <2> QED
    BY <1>0, <1>6, <2>1
       DEF PublishBegins, Intent, Drifted, Unmoved, Latest
<1>7. CASE LanguageCommits
  <2>1. LanguageCommit
    BY <1>7 DEF LanguageCommits, LanguageCommit
  <2>2. Latest'.language \in {Latest.language, export}
    BY LanguageFiles DEF Latest
  <2> QED
    BY <1>0, <1>7, <2>1, <2>2 DEF LanguageCommits, Unresolved
<1>8. CASE LanguageCommitFails
  <2>1. Latest'.language \in {Latest.language, export}
    BY LanguageFiles DEF Latest
  <2> QED
    BY <1>0, <1>8, <2>1 DEF LanguageCommitFails, Unresolved
<1>9. CASE LanguageVerifies
  BY <1>0, <1>9 DEF LanguageVerifies, ExportOnHub, Unresolved, Latest
<1>10. CASE LanguageKilled
  BY <1>10 DEF LanguageKilled, Unresolved, Latest
<1> QED
  BY <1>1, <1>2, <1>3, <1>4, <1>5, <1>6, <1>7, <1>8, <1>9, <1>10
     DEF Next, vars, RunUploadsData, RunUploadsCard, LocalDataChanges,
         ReleasePrepares, ReleaseComputes, ReleaseChecks, ReleaseRefusesChange,
         ReleaseStops, ReleaseMatches, ReleaseDiffers, ReleaseCommits,
         ReleaseCommitFails, ReleaseRefusesParent, ReleaseVerifies,
         ReleaseRefusesRemote, ReleaseReports, ReleaseKilled

-----------------------------------------------------------------------------
(* Theorems *)

LEMMA Inductive == Spec => []IInv
<1>1. Init => IInv
  BY InitInv
<1>2. IInv /\ [Next]_vars => IInv'
  BY TypeStep, ReleaseStep, LanguageStep, HistoryStep DEF IInv
<1> QED
  BY <1>1, <1>2, PTL DEF Spec

\* Every variable keeps its type.
THEOREM TypeCorrect == Spec => []TypeOK
<1>1. IInv => TypeOK
  BY DEF IInv
<1> QED
  BY <1>1, Inductive, PTL

\* The statistics of a reported revision describe the data of that revision,
\* however many commits come in between.
THEOREM ReleaseTruthful == Spec => []ReleasedStatsDescribeData
<1>1. IInv => ReleasedStatsDescribeData
  BY DEF IInv
<1> QED
  BY <1>1, Inductive, PTL

\* Release and language publication never undo each other's part of the card,
\* and a release commits only what differs.
THEOREM CardKept == Spec => [](NoLostUpdate /\ ReleaseCommitsNews)
<1>1. IInv => NoLostUpdate /\ ReleaseCommitsNews
  BY DEF IInv
<1> QED
  BY <1>1, Inductive, PTL

\* An upload of unknown outcome is in the state file until it is verified.
THEOREM UploadsKnown == Spec => []UnverifiedUploadIsKnown
<1>1. IInv => UnverifiedUploadIsKnown
  BY DEF IInv
<1> QED
  BY <1>1, Inductive, PTL

\* No language upload is repeated before it was verified, and none goes on
\* top of a revision that was not planned on.
THEOREM SentOnce == Spec => SentOnceOnBaseline
<1> DEFINE Once == Len(hub') > Len(hub) /\ hub'[Len(hub')].by = "language" =>
                    /\ Len(hub) = baseline
                    /\ Latest.language \notin {export} \ confirmed
<1>1. IInv /\ [Next]_vars => Once
  <2> SUFFICES ASSUME IInv, [Next]_vars, Len(hub') > Len(hub),
                      hub'[Len(hub')].by = "language"
               PROVE  /\ Len(hub) = baseline
                      /\ Latest.language \notin {export} \ confirmed
    OBVIOUS
  <2>1. LanguageCommit
    BY LanguageFiles, LatestFacts DEF IInv, Latest
  <2> QED
    BY <2>1, LatestFacts DEF LanguageCommit, IInv, LanguageInv, TypeOK, Unmoved
<1> QED
  BY <1>1, Inductive, PTL DEF Spec, SentOnceOnBaseline, Once
=============================================================================
