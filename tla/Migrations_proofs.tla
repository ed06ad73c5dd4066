-------------------------- MODULE Migrations_proofs --------------------------
(* Theorems about Migrations, for any features, artifacts and bounds: what  *)
(* the files of earlier releases are worth after any sequence of migrations, *)
(* builds, deduplications and kills.                                         *)
EXTENDS Migrations, FiniteSetTheorems, WellFoundedInduction, TLAPS

-----------------------------------------------------------------------------
(* The inductive invariant.  What a pair says of its extract is stated for  *)
(* values, not for the state, so that a step that leaves a pair alone        *)
(* leaves the statement alone.                                               *)

\* Objects by the outcome of the transformation.
With(outcome, features) == {o \in DOMAIN features : Outcome(features[o]) = outcome}
None(features) == With("none", features)
NoText(features) == With("no_nonempty_description", features)

\* The rows come from the features, as they were or canonical.
Derived(rows, features) ==
    /\ DOMAIN rows \subseteq None(features) \cup NoText(features)
    /\ \A o \in DOMAIN rows : rows[o] \in {Stored(features[o]), RowOf(features[o])}

\* Every feature of the recorded extract is counted once, and under its own
\* reason unless that is the missing text or a duplicate.
Booked(m) ==
    /\ m.emitted = Cardinality(DOMAIN m.source.features)
    /\ m.emitted = m.included + Total(m.rejected)
    /\ \A r \in Reasons \ {"no_nonempty_description", "duplicate"} :
            m.rejected[r] = Rejected(m.source.features, r)

\* What counts as a duplicate is a feature with a row that is not there.
DuplicatesBooked(m, rows) ==
    m.rejected["duplicate"] = Cardinality(None(m.source.features) \ DOMAIN rows)

AllValid(rows) == \A o \in DOMAIN rows : ValidText(rows[o])

ReusablePair(source, table, m) ==
    /\ m.schema = "current" /\ m.source = source /\ m.output = table
    /\ AllValid(table.rows)

\* A pair on disk.  Rows of its extract are missing only from a pair that is
\* reused as it is: a build that replaces the Parquet finds no duplicate booked.
Sound(source, table, m, staged) ==
    /\ Booked(m)
    /\ table.schema = "map" => m.schema = "old"
    /\ RequiresRepair(table.rows) => m.included = Size(table)
    /\ m.source = source => Derived(table.rows, source.features)
    /\ m.source = source /\ ~staged =>
        /\ DuplicatesBooked(m, table.rows)
        /\ \/ None(source.features) \subseteq DOMAIN table.rows
           \/ ReusablePair(source, table, m)

\* A pair in the stage of a pass with this input.
PassSound(input, entry) ==
    LET table == entry.parquet
        m == entry.manifest
    IN  /\ Booked(m) /\ DuplicatesBooked(m, table.rows)
        /\ table.schema = "list" /\ m.schema = "current" /\ m.output = table
        /\ AllValid(table.rows) /\ Derived(table.rows, m.source.features)
        /\ DOMAIN table.rows \subseteq DOMAIN input.rows
        /\ \A o \in DOMAIN table.rows : table.rows[o] = input.rows[o]

Disk ==
    /\ \A a \in Artifacts : Sound(raw[a], parquet[a], manifest[a], Staged(a))
    /\ \A a \in DOMAIN dedup.files : PassSound(dedup.inputs[a], dedup.files[a])

\* An extract that changes is one no manifest has recorded.
Stamps ==
    /\ \A a \in Artifacts : raw[a].stamp <= changes /\ manifest[a].source.stamp <= changes
    /\ \A a \in DOMAIN dedup.files : dedup.files[a].manifest.source.stamp <= changes

Settled(a) == Agrees(a) /\ ~RequiresRepair(parquet[a].rows)

\* What the commands rely on between two of their steps.
Working ==
    /\ \A a \in Artifacts : work[a] # Nothing => Turn(a)
    /\ pool => cmd = "text"
    /\ cmd = "idle" => todo = {}

SchemaMemory ==
    cmd = "schema" => \A a \in Artifacts : work[a] # Nothing => parquet[a].schema = "list"

TextMemory ==
    cmd = "text" =>
        /\ \A a \in Artifacts : work[a] # Nothing =>
            /\ ~RequiresRepair(parquet[a].rows)
            /\ work[a] \in Int /\ manifest[a].included - work[a] = Size(parquet[a])
        /\ ~failed => \A a \in Artifacts \ todo : Settled(a)

BuildMemory ==
    cmd = "build" => \A a \in Artifacts :
        /\ a \notin todo => ReusablePair(raw[a], parquet[a], manifest[a])
        /\ work[a] # Nothing =>
            parquet[a] = [schema |-> "list", rows |-> BuiltRows(raw[a].features)]

PromoteMemory ==
    cmd = "promote" =>
        /\ todo \subseteq DOMAIN dedup.files
        /\ \A a \in DOMAIN dedup.files :
            /\ a \notin todo =>
                parquet[a] = dedup.files[a].parquet /\ manifest[a] = dedup.files[a].manifest
            /\ a \in todo /\ work[a] = Nothing =>
                parquet[a] \in {dedup.inputs[a], dedup.files[a].parquet}
            /\ work[a] # Nothing => parquet[a] = dedup.files[a].parquet

Memory == Working /\ SchemaMemory /\ TextMemory /\ BuildMemory /\ PromoteMemory

StaysRepaired == repaired => work = NoWork /\ \A a \in Artifacts : Settled(a)

Migrating == TypeOK /\ Disk /\ Stamps /\ Memory /\ StaysRepaired

-----------------------------------------------------------------------------
(* Texts and rows *)

\* The three implementations of the text contract agree on a stored row.
LEMMA ContractsAgree ==
    ASSUME NEW row, IsRow(row)
    PROVE  /\ Successful(row) <=> SqlSuccessful(row)
           /\ Successful(row) <=> ValidText(row)
  <1>1. \A t \in Texts : SqlText(t) <=> IsTrimmed(t)
    BY DEF Texts, SqlText, SqlTrim, IsTrimmed
  <1>2. row.base \in Texts /\ \A k \in DOMAIN row.localized : row.localized[k] \in Texts
    BY DEF IsRow
  <1>3. Successful(row) <=> SqlSuccessful(row)
    <2> DEFINE L == DOMAIN row.localized
    <2>1. SqlText(row.base) <=> IsTrimmed(row.base)
      BY <1>1, <1>2
    <2>2. \A k \in L : SqlText(row.localized[k]) <=> IsTrimmed(row.localized[k])
      BY <1>1, <1>2
    <2>3. row.base = "null" => ~IsTrimmed(row.base)
      BY DEF IsTrimmed
    <2>4. (\E k \in L : SqlText(row.localized[k])) => L # {}
      OBVIOUS
    <2>5. (L # {} /\ \A k \in L : SqlText(row.localized[k])) => \E k \in L : SqlText(row.localized[k])
      OBVIOUS
    <2>6. (\A k \in L : IsTrimmed(row.localized[k]))
            <=> ~(\E k \in L : ~SqlText(row.localized[k]))
      BY <2>2
    <2> HIDE DEF L
    <2> QED BY <2>1, <2>3, <2>4, <2>5, <2>6 DEF Successful, SqlSuccessful, L
  <1>4. Successful(row) <=> ValidText(row)
    BY <1>2 DEF Successful, ValidText, IsNonempty, IsTrimmed
  <1> QED BY <1>3, <1>4

LEMMA CanonicalOf ==
    ASSUME NEW row, IsRow(row)
    PROVE  CanonicalText(row) = [base |-> Trimmed(row.base),
                                 localized |-> TrimmedEntries(row.localized),
                                 version |-> row.version]
  <1>1. row = [base |-> row.base, localized |-> row.localized, version |-> row.version]
    BY DEF IsRow
  <1>2. CanonicalText(row)
            = [row EXCEPT !.base = Trimmed(row.base), !.localized = TrimmedEntries(row.localized)]
    BY <1>1 DEF CanonicalText
  <1> QED BY <1>1, <1>2

\* The canonical form of a row is a row, and canonical.
LEMMA CanonicalIsRow ==
    ASSUME NEW row, IsRow(row)
    PROVE  /\ IsRow(CanonicalText(row))
           /\ CanonicalText(CanonicalText(row)) = CanonicalText(row)
  <1> DEFINE kept == {k \in DOMAIN row.localized : IsNonempty(row.localized[k])}
             c == CanonicalText(row)
  <1>1. TrimmedEntries(row.localized) = [k \in kept |-> "clean"]
    BY DEF TrimmedEntries, Trimmed
  <1>2. c = [base |-> Trimmed(row.base), localized |-> [k \in kept |-> "clean"],
             version |-> row.version]
    BY <1>1, CanonicalOf
  <1>3. Trimmed(row.base) \in {"clean", "null"} /\ Trimmed(Trimmed(row.base)) = Trimmed(row.base)
    BY DEF Trimmed, IsNonempty
  <1>4. TrimmedEntries(c.localized) = c.localized
    BY <1>2 DEF TrimmedEntries, Trimmed, IsNonempty
  <1>5. IsRow(c)
    BY <1>2, <1>3 DEF IsRow, Texts
  <1>6. CanonicalText(c) = c
    BY <1>2, <1>3, <1>4 DEF CanonicalText
  <1> QED BY <1>5, <1>6

\* A row with description text is canonical.
LEMMA SuccessfulIsCanonical ==
    ASSUME NEW row, IsRow(row), Successful(row)
    PROVE  CanonicalText(row) = row
  <1>1. Trimmed(row.base) = row.base
    BY DEF Successful, Trimmed, IsTrimmed, IsNonempty
  <1>2. \A k \in DOMAIN row.localized : row.localized[k] = "clean"
    BY DEF Successful, IsTrimmed
  <1>3. row.localized = [k \in DOMAIN row.localized |-> "clean"]
    BY <1>2 DEF IsRow
  <1>4. TrimmedEntries(row.localized) = row.localized
    BY <1>3 DEF TrimmedEntries, Trimmed, IsNonempty
  <1> QED BY <1>1, <1>4 DEF CanonicalText, IsRow

\* A feature is a row, or it is rejected for one of the reasons of a build.
LEMMA Outcomes ==
    ASSUME NEW f
    PROVE  Outcome(f) \in {"none", "unsupported_osm_type", "invalid_osm_id",
                "no_nonempty_description", "invalid_geometry", "non_polygon_geometry",
                "nonpositive_area"}
  BY DEF Outcome, EarlyReason, IdentityReason, TransformReason, GeometryReason

\* The stored texts of a feature are a row; canonical, it has description text
\* when the feature gives a row and none when its text is missing.
LEMMA FeatureRow ==
    ASSUME NEW features \in FeatureTables, NEW o \in DOMAIN features
    PROVE  LET f == features[o]
           IN  /\ IsRow(Stored(f)) /\ IsRow(RowOf(f))
               /\ CanonicalText(Stored(f)) = RowOf(f) /\ CanonicalText(RowOf(f)) = RowOf(f)
               /\ Outcome(f) = "none" => Successful(RowOf(f))
               /\ Outcome(f) = "no_nonempty_description" => ~Successful(RowOf(f))
  <1> DEFINE f == features[o]
             kept == {k \in DOMAIN f.localized : IsNonempty(f.localized[k])}
  <1>1. IsFeature(f) /\ f.version \in Versions
    BY FeaturesAssumption DEF Versions
  <1>2. IsRow(Stored(f))
    BY <1>1 DEF Stored, IsRow, IsFeature
  <1>3. IsRow(RowOf(f)) /\ CanonicalText(RowOf(f)) = RowOf(f)
    BY <1>2, CanonicalIsRow DEF RowOf
  <1>4. RowOf(f) = [base |-> Trimmed(f.base), localized |-> [k \in kept |-> "clean"],
                    version |-> f.version]
    <2>1. TrimmedEntries(f.localized) = [k \in kept |-> "clean"]
      BY DEF TrimmedEntries, Trimmed
    <2>2. CanonicalText(Stored(f))
            = [base |-> Trimmed(Stored(f).base), localized |-> TrimmedEntries(Stored(f).localized),
               version |-> Stored(f).version]
      BY <1>2, CanonicalOf
    <2>3. Stored(f).base = f.base /\ Stored(f).localized = f.localized /\ Stored(f).version = f.version
      BY DEF Stored
    <2> QED BY <2>1, <2>2, <2>3 DEF RowOf
  <1>5. Successful(RowOf(f)) <=> HasText(f)
    BY <1>4 DEF Successful, HasText, Trimmed, IsTrimmed, IsNonempty
  <1>6. Outcome(f) = "none" => HasText(f)
    BY DEF Outcome, EarlyReason
  <1>7. Outcome(f) = "no_nonempty_description" => ~HasText(f)
    <2> SUFFICES ASSUME HasText(f) PROVE Outcome(f) # "no_nonempty_description"
      OBVIOUS
    <2>1. EarlyReason(f) # "no_nonempty_description"
      BY DEF EarlyReason, IdentityReason
    <2>2. Trimmed(f.base) # "null" \/ DOMAIN TrimmedEntries(f.localized) # {}
      BY DEF HasText, Trimmed, TrimmedEntries, IsNonempty
    <2>3. TransformReason(f) # "no_nonempty_description"
      BY <2>2 DEF TransformReason, IdentityReason, GeometryReason
    <2> QED BY <2>1, <2>3 DEF Outcome
  <1> QED BY <1>2, <1>3, <1>5, <1>6, <1>7 DEF RowOf

-----------------------------------------------------------------------------
(* Counting *)

LEMMA Disjoint ==
    ASSUME NEW S, NEW T, IsFiniteSet(S), IsFiniteSet(T), S \cap T = {}
    PROVE  /\ IsFiniteSet(S \cup T)
           /\ Cardinality(S \cup T) = Cardinality(S) + Cardinality(T)
           /\ Cardinality(S) \in Nat /\ Cardinality(T) \in Nat
  <1>1. Cardinality(S \cap T) = 0
    BY FS_EmptySet
  <1>2. Cardinality(S) \in Nat /\ Cardinality(T) \in Nat
    BY FS_CardinalityType
  <1>3. /\ IsFiniteSet(S \cup T)
        /\ Cardinality(S \cup T) = Cardinality(S) + Cardinality(T) - Cardinality(S \cap T)
    BY FS_Union
  <1> QED BY <1>1, <1>2, <1>3

\* A subset and what is left of it.
LEMMA Split ==
    ASSUME NEW S, IsFiniteSet(S), NEW T, T \subseteq S
    PROVE  /\ IsFiniteSet(T) /\ IsFiniteSet(S \ T)
           /\ Cardinality(T) \in Nat /\ Cardinality(S \ T) \in Nat
           /\ Cardinality(S) = Cardinality(T) + Cardinality(S \ T)
  <1>1. IsFiniteSet(T) /\ IsFiniteSet(S \ T)
    BY FS_Subset
  <1>2. T \cap (S \ T) = {} /\ T \cup (S \ T) = S
    OBVIOUS
  <1> HIDE <1>1
  <1>3. ASSUME NEW U, U = S \ T PROVE
            /\ Cardinality(T) \in Nat /\ Cardinality(U) \in Nat
            /\ Cardinality(S) = Cardinality(T) + Cardinality(U)
    BY <1>1, <1>2, <1>3, Disjoint
  <1> QED BY <1>1, <1>3

\* Every feature has one outcome, and none is rejected as a duplicate.
LEMMA Partition ==
    ASSUME NEW features \in FeatureTables
    PROVE  /\ \A r : IsFiniteSet(With(r, features)) /\ Rejected(features, r) \in Nat
           /\ \A r : Rejected(features, r) = Cardinality(With(r, features))
           /\ Rejected(features, "duplicate") = 0
           /\ Cardinality(DOMAIN features) \in Nat
           /\ Cardinality(DOMAIN features) =
                Cardinality(None(features)) + Cardinality(NoText(features))
                + Rejected(features, "unsupported_osm_type")
                + Rejected(features, "invalid_osm_id")
                + Rejected(features, "invalid_geometry")
                + Rejected(features, "non_polygon_geometry")
                + Rejected(features, "nonpositive_area")
  <1> DEFINE W(r) == With(r, features)
             c(r) == Cardinality(W(r))
  <1>1. IsFiniteSet(DOMAIN features)
    BY FeaturesAssumption
  <1>2. \A r : IsFiniteSet(W(r)) /\ c(r) \in Nat
    <2>1. \A r : W(r) \subseteq DOMAIN features
      BY DEF With
    <2>2. \A r : IsFiniteSet(W(r))
      BY <1>1, <2>1, FS_Subset
    <2> QED BY <2>2, FS_CardinalityType
  <1>3. \A r : Rejected(features, r) = c(r)
    BY DEF Rejected, With
  <1>4. W("duplicate") = {}
    BY Outcomes DEF With
  <1>5. c("duplicate") = 0
    BY <1>4, FS_EmptySet
  <1>6. \A r, q : r # q => W(r) \cap W(q) = {}
    BY DEF With
  <1> DEFINE S1 == W("none") \cup W("no_nonempty_description")
             S2 == S1 \cup W("unsupported_osm_type")
             S3 == S2 \cup W("invalid_osm_id")
             S4 == S3 \cup W("invalid_geometry")
             S5 == S4 \cup W("non_polygon_geometry")
             S6 == S5 \cup W("nonpositive_area")
  <1>7. S6 = DOMAIN features
    BY Outcomes DEF With
  <1> HIDE DEF W
  <1>11. IsFiniteSet(S1) /\ Cardinality(S1) = c("none") + c("no_nonempty_description")
    BY <1>2, <1>6, Disjoint
  <1>12. IsFiniteSet(S2) /\ Cardinality(S2) = Cardinality(S1) + c("unsupported_osm_type")
    <2>1. S1 \cap W("unsupported_osm_type") = {}
      BY <1>6
    <2> HIDE DEF S1
    <2> QED BY <1>2, <1>11, <2>1, Disjoint
  <1>13. IsFiniteSet(S3) /\ Cardinality(S3) = Cardinality(S2) + c("invalid_osm_id")
    <2>1. S2 \cap W("invalid_osm_id") = {}
      BY <1>6
    <2> HIDE DEF S2
    <2> QED BY <1>2, <1>12, <2>1, Disjoint
  <1>14. IsFiniteSet(S4) /\ Cardinality(S4) = Cardinality(S3) + c("invalid_geometry")
    <2>1. S3 \cap W("invalid_geometry") = {}
      BY <1>6
    <2> HIDE DEF S3
    <2> QED BY <1>2, <1>13, <2>1, Disjoint
  <1>15. IsFiniteSet(S5) /\ Cardinality(S5) = Cardinality(S4) + c("non_polygon_geometry")
    <2>1. S4 \cap W("non_polygon_geometry") = {}
      BY <1>6
    <2> HIDE DEF S4
    <2> QED BY <1>2, <1>14, <2>1, Disjoint
  <1>16. IsFiniteSet(S6) /\ Cardinality(S6) = Cardinality(S5) + c("nonpositive_area")
    <2>1. S5 \cap W("nonpositive_area") = {}
      BY <1>6
    <2> HIDE DEF S5
    <2> QED BY <1>2, <1>15, <2>1, Disjoint
  <1>17. Cardinality(DOMAIN features) = c("none") + c("no_nonempty_description")
            + c("unsupported_osm_type") + c("invalid_osm_id") + c("invalid_geometry")
            + c("non_polygon_geometry") + c("nonpositive_area")
    <2> HIDE DEF S1, S2, S3, S4, S5, S6, c
    <2> QED BY <1>2, <1>7, <1>11, <1>12, <1>13, <1>14, <1>15, <1>16
  <1>18. Cardinality(DOMAIN features) \in Nat
    BY <1>1, FS_CardinalityType
  <1> QED BY <1>2, <1>3, <1>5, <1>17, <1>18 DEF None, NoText, W

\* Rows that are there and rows that are missing.
LEMMA MissingRows ==
    ASSUME NEW features \in FeatureTables, NEW D,
           D \subseteq None(features) \cup NoText(features)
    PROVE  /\ IsFiniteSet(D) /\ Cardinality(D) \in Nat
           /\ Cardinality(None(features) \ D) \in Nat
           /\ Cardinality(NoText(features) \ D) \in Nat
           /\ Cardinality(None(features)) + Cardinality(NoText(features)) =
                Cardinality(D) + Cardinality(None(features) \ D)
                               + Cardinality(NoText(features) \ D)
  <1> DEFINE N == None(features)
             B == NoText(features)
  <1>1. IsFiniteSet(N) /\ IsFiniteSet(B) /\ N \cap B = {}
    BY Partition DEF None, NoText, With
  <1> HIDE DEF N, B
  <1>2. /\ IsFiniteSet(N \cup B)
        /\ Cardinality(N \cup B) = Cardinality(N) + Cardinality(B)
    BY <1>1, Disjoint
  <1>3. /\ IsFiniteSet(D) /\ Cardinality(D) \in Nat /\ IsFiniteSet((N \cup B) \ D)
        /\ Cardinality(N \cup B) = Cardinality(D) + Cardinality((N \cup B) \ D)
    BY <1>2, Split DEF N, B
  <1>4. /\ IsFiniteSet(N \ D) /\ IsFiniteSet(B \ D)
        /\ (N \ D) \cap (B \ D) = {} /\ (N \cup B) \ D = (N \ D) \cup (B \ D)
    BY <1>1, Split, FS_Difference
  <1>5. /\ Cardinality((N \cup B) \ D) = Cardinality(N \ D) + Cardinality(B \ D)
        /\ Cardinality(N \ D) \in Nat /\ Cardinality(B \ D) \in Nat
    BY <1>4, Disjoint
  <1>6. Cardinality(N) \in Nat /\ Cardinality(B) \in Nat
    BY <1>1, FS_CardinalityType
  <1> QED BY <1>2, <1>3, <1>5, <1>6 DEF N, B

-----------------------------------------------------------------------------
(* Tables *)

LEMMA ValidIsSettled ==
    ASSUME NEW t, IsTable(t), AllValid(t.rows)
    PROVE  ~RequiresRepair(t.rows)
  <1>1. \A o \in DOMAIN t.rows : IsRow(t.rows[o]) /\ Successful(t.rows[o])
    BY ContractsAgree DEF IsTable, AllValid
  <1>2. \A o \in DOMAIN t.rows : CanonicalText(t.rows[o]) = t.rows[o]
    BY <1>1, SuccessfulIsCanonical
  <1> QED BY <1>1, <1>2 DEF RequiresRepair

LEMMA SettledIsValid ==
    ASSUME NEW t, IsTable(t), ~RequiresRepair(t.rows)
    PROVE  AllValid(t.rows)
  <1>1. \A o \in DOMAIN t.rows : IsRow(t.rows[o]) /\ Successful(t.rows[o])
    BY DEF IsTable, RequiresRepair
  <1> QED BY <1>1, ContractsAgree DEF AllValid

\* What a build writes.
LEMMA BuiltTable ==
    ASSUME NEW features \in FeatureTables
    PROVE  LET t == [schema |-> "list", rows |-> BuiltRows(features)]
           IN  /\ IsTable(t) /\ AllValid(t.rows) /\ Derived(t.rows, features)
               /\ DOMAIN t.rows = None(features)
  <1> DEFINE t == [schema |-> "list", rows |-> BuiltRows(features)]
  <1>1. DOMAIN t.rows = None(features) /\ t.rows = [o \in None(features) |-> RowOf(features[o])]
    BY DEF BuiltRows, None, With
  <1>2. \A o \in None(features) : IsRow(RowOf(features[o])) /\ Successful(RowOf(features[o]))
    BY FeatureRow DEF None, With
  <1>3. IsFiniteSet(None(features))
    BY Partition DEF None
  <1>4. IsTable(t)
    BY <1>1, <1>2, <1>3 DEF IsTable
  <1>5. AllValid(t.rows)
    BY <1>1, <1>2, ContractsAgree DEF AllValid
  <1>6. Derived(t.rows, features)
    BY <1>1 DEF Derived
  <1> QED BY <1>1, <1>4, <1>5, <1>6

\* What earlier releases wrote.
LEMMA LegacyTable ==
    ASSUME NEW features \in FeatureTables, NEW blank \in BOOLEAN,
           NEW schema \in {"map", "list"}
    PROVE  LET t == [schema |-> schema, rows |-> LegacyRows(features, blank)]
           IN  /\ IsTable(t) /\ Derived(t.rows, features)
               /\ None(features) \subseteq DOMAIN t.rows
  <1> DEFINE t == [schema |-> schema, rows |-> LegacyRows(features, blank)]
             kept == {o \in DOMAIN features :
                        \/ Outcome(features[o]) = "none"
                        \/ blank /\ Outcome(features[o]) = "no_nonempty_description"}
  <1>1. t.rows = [o \in kept |-> Stored(features[o])]
    BY DEF LegacyRows
  <1>2. kept \subseteq None(features) \cup NoText(features) /\ None(features) \subseteq kept
    BY DEF None, NoText, With
  <1>3. \A o \in kept : IsRow(Stored(features[o]))
    BY FeatureRow
  <1>4. IsFiniteSet(kept)
    BY <1>2, MissingRows
  <1>5. IsTable(t)
    BY <1>1, <1>3, <1>4 DEF IsTable
  <1> QED BY <1>1, <1>2, <1>5 DEF Derived

\* Fewer rows of a table.
LEMMA SmallerTable ==
    ASSUME NEW t, IsTable(t), NEW rows, NEW K, K \subseteq DOMAIN t.rows,
           DOMAIN rows = K, rows = [o \in K |-> rows[o]], \A o \in K : IsRow(rows[o])
    PROVE  /\ IsTable([t EXCEPT !.rows = rows])
           /\ [t EXCEPT !.rows = rows].rows = rows
           /\ [t EXCEPT !.rows = rows].schema = t.schema
           /\ Cardinality(K) \in Nat /\ Cardinality(DOMAIN t.rows \ K) \in Nat
           /\ Cardinality(DOMAIN t.rows) = Cardinality(K) + Cardinality(DOMAIN t.rows \ K)
  <1>1. IsFiniteSet(DOMAIN t.rows)
    BY DEF IsTable
  <1>2. /\ IsFiniteSet(K) /\ Cardinality(K) \in Nat /\ Cardinality(DOMAIN t.rows \ K) \in Nat
        /\ Cardinality(DOMAIN t.rows) = Cardinality(K) + Cardinality(DOMAIN t.rows \ K)
    BY <1>1, Split
  <1>3. [t EXCEPT !.rows = rows] = [schema |-> t.schema, rows |-> rows]
    BY DEF IsTable
  <1> QED BY <1>2, <1>3 DEF IsTable

\* What migrate-text makes of a table.
LEMMA RepairedTable ==
    ASSUME NEW t, IsTable(t)
    PROVE  LET rows == RepairedRows(t.rows)
               u == [t EXCEPT !.rows = rows]
           IN  /\ DOMAIN rows = {o \in DOMAIN t.rows : Successful(CanonicalText(t.rows[o]))}
               /\ \A o \in DOMAIN rows : rows[o] = CanonicalText(t.rows[o])
               /\ IsTable(u) /\ u.rows = rows /\ u.schema = t.schema
               /\ AllValid(rows)
               /\ Size(t) = Size(u) + Cardinality(DOMAIN t.rows \ DOMAIN rows)
               /\ Size(u) \in Nat /\ Cardinality(DOMAIN t.rows \ DOMAIN rows) \in Nat
  <1> DEFINE rows == RepairedRows(t.rows)
             K == {o \in DOMAIN t.rows : Successful(CanonicalText(t.rows[o]))}
  <1>1. rows = [o \in K |-> CanonicalText(t.rows[o])]
    BY DEF RepairedRows, Restrict
  <1>2. \A o \in DOMAIN t.rows : IsRow(CanonicalText(t.rows[o]))
    BY CanonicalIsRow DEF IsTable
  <1>3. AllValid(rows)
    BY <1>1, <1>2, ContractsAgree DEF AllValid
  <1> HIDE DEF rows
  <1>4. DOMAIN rows = K /\ rows = [o \in K |-> rows[o]] /\ \A o \in K : IsRow(rows[o])
    BY <1>1, <1>2
  <1>5. K \subseteq DOMAIN t.rows
    OBVIOUS
  <1> HIDE DEF K
  <1>6. /\ IsTable([t EXCEPT !.rows = rows])
        /\ [t EXCEPT !.rows = rows].rows = rows
        /\ [t EXCEPT !.rows = rows].schema = t.schema
        /\ Cardinality(K) \in Nat /\ Cardinality(DOMAIN t.rows \ K) \in Nat
        /\ Cardinality(DOMAIN t.rows) = Cardinality(K) + Cardinality(DOMAIN t.rows \ K)
    BY <1>4, <1>5, SmallerTable
  <1> QED BY <1>1, <1>3, <1>4, <1>6 DEF Size, rows, K

\* The repair drops no row that a build would write.
LEMMA RepairKeepsDerived ==
    ASSUME NEW features \in FeatureTables, NEW t, IsTable(t), Derived(t.rows, features)
    PROVE  LET rows == RepairedRows(t.rows)
           IN  /\ Derived(rows, features)
               /\ None(features) \ DOMAIN rows = None(features) \ DOMAIN t.rows
  <1> DEFINE rows == RepairedRows(t.rows)
  <1>1. /\ DOMAIN rows = {o \in DOMAIN t.rows : Successful(CanonicalText(t.rows[o]))}
        /\ \A o \in DOMAIN rows : rows[o] = CanonicalText(t.rows[o])
    BY RepairedTable
  <1>2. \A o \in DOMAIN t.rows : o \in DOMAIN features
    BY DEF Derived, None, NoText, With
  <1>3. \A o \in DOMAIN t.rows : CanonicalText(t.rows[o]) = RowOf(features[o])
    BY <1>2, FeatureRow DEF Derived
  <1>4. \A o \in None(features) : Successful(RowOf(features[o]))
    BY FeatureRow DEF None, With
  <1>5. Derived(rows, features)
    BY <1>1, <1>3 DEF Derived
  <1> QED BY <1>1, <1>3, <1>4, <1>5

\* Rows with description text are rows a build would write.
LEMMA ValidRowsAreBuilt ==
    ASSUME NEW features \in FeatureTables, NEW t, IsTable(t), AllValid(t.rows),
           Derived(t.rows, features)
    PROVE  /\ DOMAIN t.rows \subseteq None(features)
           /\ t.rows = Restrict(BuiltRows(features), DOMAIN t.rows)
  <1>1. \A o \in DOMAIN t.rows : IsRow(t.rows[o]) /\ Successful(t.rows[o])
    BY ContractsAgree DEF IsTable, AllValid
  <1>2. \A o \in DOMAIN t.rows : CanonicalText(t.rows[o]) = t.rows[o]
    BY <1>1, SuccessfulIsCanonical
  <1>3. \A o \in DOMAIN t.rows : o \in DOMAIN features
    BY DEF Derived, None, NoText, With
  <1>4. \A o \in DOMAIN t.rows : t.rows[o] = RowOf(features[o])
    BY <1>2, <1>3, FeatureRow DEF Derived
  <1>5. \A o \in DOMAIN t.rows : o \notin NoText(features)
    BY <1>1, <1>3, <1>4, FeatureRow DEF NoText, With
  <1>6. DOMAIN t.rows \subseteq None(features)
    BY <1>5 DEF Derived
  <1>7. \A o \in None(features) : BuiltRows(features)[o] = RowOf(features[o])
    BY DEF BuiltRows, None, With
  <1>8. t.rows = [o \in DOMAIN t.rows |-> t.rows[o]]
    BY DEF IsTable
  <1>9. t.rows = [o \in DOMAIN t.rows |-> BuiltRows(features)[o]]
    BY <1>4, <1>6, <1>7, <1>8
  <1> QED BY <1>6, <1>9 DEF Restrict

-----------------------------------------------------------------------------
(* Manifests *)

Extracts == [features : FeatureTables, stamp : 0..MaxChanges]

\* The counts of a finished build add up.
LEMMA BookedManifest ==
    ASSUME NEW source \in Extracts, NEW t, IsTable(t), NEW schema \in {"old", "current"},
           Derived(t.rows, source.features), None(source.features) \subseteq DOMAIN t.rows
    PROVE  LET m == ManifestOf(source, t, schema)
           IN  /\ IsManifest(m) /\ Booked(m) /\ DuplicatesBooked(m, t.rows)
               /\ m.source = source /\ m.output = t /\ m.schema = schema
               /\ m.included = Size(t)
  <1> DEFINE F == source.features
             D == DOMAIN t.rows
             m == ManifestOf(source, t, schema)
             R == CountsOf(F, t.rows)
  <1>1. F \in FeatureTables
    BY DEF Extracts
  <1>2. D \subseteq None(F) \cup NoText(F)
    BY DEF Derived
  <1>3. /\ Cardinality(D) \in Nat /\ Cardinality(NoText(F) \ D) \in Nat
        /\ Cardinality(None(F)) + Cardinality(NoText(F)) =
            Cardinality(D) + Cardinality(None(F) \ D) + Cardinality(NoText(F) \ D)
    BY <1>1, <1>2, MissingRows
  <1>4. None(F) \ D = {} /\ Cardinality(None(F) \ D) = 0
    BY FS_EmptySet
  <1>5. NoText(F) \ D = {o \in DOMAIN F \ DOMAIN t.rows : Outcome(F[o]) = "no_nonempty_description"}
    BY DEF NoText, With
  <1>6. /\ R \in [Reasons -> Int]
        /\ R["no_nonempty_description"] = Cardinality(NoText(F) \ D)
        /\ \A r \in Reasons \ {"no_nonempty_description"} : R[r] = Rejected(F, r)
    <2>1. \A r \in Reasons : R[r] = IF r = "no_nonempty_description"
                THEN Cardinality(NoText(F) \ D) ELSE Rejected(F, r)
      BY <1>5 DEF CountsOf
    <2>2. R = [r \in Reasons |-> R[r]]
      BY DEF CountsOf
    <2>3. \A r : Rejected(F, r) \in Int
      BY <1>1, Partition
    <2> HIDE DEF R
    <2> QED BY <1>3, <2>1, <2>2, <2>3 DEF Reasons
  <1>7. m = [source |-> source, output |-> t, schema |-> schema,
             emitted |-> Cardinality(DOMAIN F), included |-> Cardinality(D), rejected |-> R]
    BY DEF ManifestOf, Size
  <1> HIDE DEF R, m
  <1>8. /\ \A r : Rejected(F, r) \in Nat
        /\ Rejected(F, "duplicate") = 0 /\ Cardinality(DOMAIN F) \in Nat
        /\ Cardinality(DOMAIN F) =
                Cardinality(None(F)) + Cardinality(NoText(F))
                + Rejected(F, "unsupported_osm_type") + Rejected(F, "invalid_osm_id")
                + Rejected(F, "invalid_geometry") + Rejected(F, "non_polygon_geometry")
                + Rejected(F, "nonpositive_area")
    BY <1>1, Partition
  <1>9. Cardinality(DOMAIN F) = Cardinality(D) + Total(R)
    <2>1. /\ R["unsupported_osm_type"] = Rejected(F, "unsupported_osm_type")
          /\ R["invalid_osm_id"] = Rejected(F, "invalid_osm_id")
          /\ R["invalid_geometry"] = Rejected(F, "invalid_geometry")
          /\ R["non_polygon_geometry"] = Rejected(F, "non_polygon_geometry")
          /\ R["nonpositive_area"] = Rejected(F, "nonpositive_area")
          /\ R["duplicate"] = 0
      BY <1>6, <1>8 DEF Reasons
    <2> QED BY <1>3, <1>4, <1>6, <1>8, <2>1 DEF Total
  <1>10. IsManifest(m)
    <2>1. source \in [features : FeatureTables, stamp : 0..MaxChanges]
      BY DEF Extracts
    <2> QED BY <1>3, <1>6, <1>7, <1>8, <2>1 DEF IsManifest
  <1>11. Booked(m)
    BY <1>6, <1>7, <1>9 DEF Booked
  <1>12. DuplicatesBooked(m, t.rows)
    BY <1>4, <1>6, <1>7, <1>8 DEF DuplicatesBooked, Reasons
  <1> QED BY <1>7, <1>10, <1>11, <1>12 DEF m, Size

\* Booking dropped rows moves them from the included to the rejected.
LEMMA RepairedManifest ==
    ASSUME NEW m, IsManifest(m), NEW t, IsTable(t), NEW d \in Int
    PROVE  LET n == Repaired(m, t, d)
           IN  /\ IsManifest(n) /\ n.source = m.source /\ n.schema = m.schema
               /\ n.output = t /\ n.included = m.included - d
               /\ n.rejected["duplicate"] = m.rejected["duplicate"]
               /\ Booked(m) => Booked(n)
  <1> DEFINE n == Repaired(m, t, d)
             R == [m.rejected EXCEPT !["no_nonempty_description"] = @ + d]
  <1>1. m = [source |-> m.source, output |-> m.output, schema |-> m.schema,
             emitted |-> m.emitted, included |-> m.included, rejected |-> m.rejected]
    BY DEF IsManifest
  <1>2. n = [source |-> m.source, output |-> t, schema |-> m.schema,
             emitted |-> m.emitted, included |-> m.included - d, rejected |-> R]
    <2>1. [m.rejected EXCEPT !["no_nonempty_description"]
                = m.rejected["no_nonempty_description"] + d] = R
      OBVIOUS
    <2>2. n = [m EXCEPT !.output = t, !.included = m.included - d, !.rejected = R]
      BY <1>1, <2>1 DEF Repaired
    <2> HIDE DEF n, R
    <2> QED BY <1>1, <2>2
  <1>3. m.rejected \in [Reasons -> Int] /\ m.included \in Int /\ m.emitted \in Int
    BY DEF IsManifest
  <1>4. /\ R \in [Reasons -> Int]
        /\ R["no_nonempty_description"] = m.rejected["no_nonempty_description"] + d
        /\ \A r \in Reasons \ {"no_nonempty_description"} : R[r] = m.rejected[r]
    BY <1>3 DEF Reasons
  <1> HIDE DEF n, R
  <1>5. IsManifest(n)
    BY <1>2, <1>3, <1>4 DEF IsManifest
  <1>6. R["duplicate"] = m.rejected["duplicate"]
    BY <1>4 DEF Reasons
  <1>7. Total(R) = Total(m.rejected) + d
    <2>1. /\ R["unsupported_osm_type"] = m.rejected["unsupported_osm_type"]
          /\ R["invalid_osm_id"] = m.rejected["invalid_osm_id"]
          /\ R["invalid_geometry"] = m.rejected["invalid_geometry"]
          /\ R["non_polygon_geometry"] = m.rejected["non_polygon_geometry"]
          /\ R["nonpositive_area"] = m.rejected["nonpositive_area"]
      BY <1>4 DEF Reasons
    <2>2. \A r \in Reasons : m.rejected[r] \in Int
      BY <1>3
    <2> QED BY <1>4, <1>6, <2>1, <2>2 DEF Total, Reasons
  <1>8. Total(m.rejected) \in Int
    BY <1>3 DEF Total, Reasons
  <1>9. ASSUME Booked(m) PROVE Booked(n)
    BY <1>2, <1>3, <1>4, <1>7, <1>8, <1>9 DEF Booked
  <1> QED BY <1>2, <1>5, <1>6, <1>9 DEF n

\* A manifest that books its rows and its duplicates counts everything else.
LEMMA ExactCounts ==
    ASSUME NEW m, IsManifest(m), NEW t, IsTable(t), Booked(m), m.included = Size(t),
           Derived(t.rows, m.source.features), DuplicatesBooked(m, t.rows)
    PROVE  LET F == m.source.features
               Missing(reason) ==
                Cardinality({o \in DOMAIN F \ DOMAIN t.rows : Outcome(F[o]) = reason})
           IN  \A r \in Reasons :
                m.rejected[r] = Missing(IF r = "duplicate" THEN "none" ELSE r)
  <1> DEFINE F == m.source.features
             D == DOMAIN t.rows
             R == m.rejected
             Gone(reason) == {o \in DOMAIN F \ D : Outcome(F[o]) = reason}
  <1>1. F \in FeatureTables /\ R \in [Reasons -> Int] /\ m.included \in Int
    BY DEF IsManifest
  <1>2. D \subseteq None(F) \cup NoText(F)
    BY DEF Derived
  <1>3. Gone("none") = None(F) \ D /\ Gone("no_nonempty_description") = NoText(F) \ D
    BY DEF None, NoText, With
  <1>4. \A r \in Reasons \ {"no_nonempty_description", "duplicate"} : Gone(r) = With(r, F)
    BY <1>2 DEF None, NoText, With, Reasons
  <1>5. /\ \A r : Rejected(F, r) = Cardinality(With(r, F)) /\ Rejected(F, r) \in Nat
        /\ Cardinality(DOMAIN F) =
                Cardinality(None(F)) + Cardinality(NoText(F))
                + Rejected(F, "unsupported_osm_type") + Rejected(F, "invalid_osm_id")
                + Rejected(F, "invalid_geometry") + Rejected(F, "non_polygon_geometry")
                + Rejected(F, "nonpositive_area")
    BY <1>1, Partition
  <1>6. /\ Cardinality(D) \in Nat /\ Cardinality(NoText(F) \ D) \in Nat
        /\ Cardinality(None(F) \ D) \in Nat
        /\ Cardinality(None(F)) + Cardinality(NoText(F)) =
            Cardinality(D) + Cardinality(None(F) \ D) + Cardinality(NoText(F) \ D)
    BY <1>1, <1>2, MissingRows
  <1>7. \A r \in Reasons \ {"no_nonempty_description", "duplicate"} :
            R[r] = Rejected(F, r) /\ R[r] = Cardinality(Gone(r))
    BY <1>4, <1>5 DEF Booked
  <1>8. R["duplicate"] = Cardinality(Gone("none"))
    BY <1>3 DEF DuplicatesBooked
  <1>9. Cardinality(DOMAIN F) = Cardinality(D) + Total(R)
    BY DEF Booked, Size
  <1>10. R["no_nonempty_description"] = Cardinality(NoText(F) \ D)
    <2>1. /\ R["unsupported_osm_type"] = Rejected(F, "unsupported_osm_type")
          /\ R["invalid_osm_id"] = Rejected(F, "invalid_osm_id")
          /\ R["invalid_geometry"] = Rejected(F, "invalid_geometry")
          /\ R["non_polygon_geometry"] = Rejected(F, "non_polygon_geometry")
          /\ R["nonpositive_area"] = Rejected(F, "nonpositive_area")
          /\ R["duplicate"] = Cardinality(None(F) \ D)
          /\ R["no_nonempty_description"] \in Int
      BY <1>1, <1>3, <1>7, <1>8 DEF Reasons
    <2> HIDE DEF R, D, F, Gone
    <2>2. Total(R) = Rejected(F, "unsupported_osm_type") + Rejected(F, "invalid_osm_id")
            + R["no_nonempty_description"] + Rejected(F, "invalid_geometry")
            + Rejected(F, "non_polygon_geometry") + Rejected(F, "nonpositive_area")
            + Cardinality(None(F) \ D)
      BY <2>1 DEF Total
    <2>3. Cardinality(None(F)) \in Nat /\ Cardinality(NoText(F)) \in Nat
      BY <1>1, Partition, FS_CardinalityType DEF None, NoText
    <2>4. /\ Rejected(F, "unsupported_osm_type") \in Nat /\ Rejected(F, "invalid_osm_id") \in Nat
          /\ Rejected(F, "invalid_geometry") \in Nat /\ Rejected(F, "non_polygon_geometry") \in Nat
          /\ Rejected(F, "nonpositive_area") \in Nat
      BY <1>5
    <2>5. Cardinality(DOMAIN F) = Cardinality(D) + Cardinality(None(F) \ D)
                + Cardinality(NoText(F) \ D)
                + Rejected(F, "unsupported_osm_type") + Rejected(F, "invalid_osm_id")
                + Rejected(F, "invalid_geometry") + Rejected(F, "non_polygon_geometry")
                + Rejected(F, "nonpositive_area")
      BY <1>5, <1>6, <2>3, <2>4
    <2> DEFINE others == Rejected(F, "unsupported_osm_type") + Rejected(F, "invalid_osm_id")
                + Rejected(F, "invalid_geometry") + Rejected(F, "non_polygon_geometry")
                + Rejected(F, "nonpositive_area")
    <2>6. others \in Nat
      BY <2>4
    <2>7. Total(R) = others + R["no_nonempty_description"] + Cardinality(None(F) \ D)
      BY <1>6, <2>1, <2>2, <2>4
    <2>8. Cardinality(DOMAIN F) = Cardinality(D) + Cardinality(None(F) \ D)
                + Cardinality(NoText(F) \ D) + others
      BY <1>6, <2>4, <2>5
    <2> HIDE DEF others
    <2> QED BY <1>6, <1>9, <2>1, <2>6, <2>7, <2>8
  <1>11. \A r \in Reasons :
            R[r] = Cardinality(Gone(IF r = "duplicate" THEN "none" ELSE r))
    <2> TAKE r \in Reasons
    <2>1. CASE r = "duplicate"
      BY <1>8, <2>1
    <2>2. CASE r = "no_nonempty_description"
      <3>1. R[r] = Cardinality(Gone(r))
        BY <1>3, <1>10, <2>2
      <3> QED BY <2>2, <3>1
    <2>3. CASE r \notin {"duplicate", "no_nonempty_description"}
      <3>1. R[r] = Cardinality(Gone(r))
        BY <1>7, <2>3
      <3> QED BY <2>3, <3>1
    <2> QED BY <2>1, <2>2, <2>3
  <1> QED BY <1>11

\* A pair in the stage: the rows that lost to another file are booked as
\* duplicates.
LEMMA StagedPair ==
    ASSUME NEW t, IsTable(t), NEW m, IsManifest(m), NEW K, K \subseteq DOMAIN t.rows,
           t.schema = "list", m.schema = "current", m.output = t, m.included = Size(t),
           AllValid(t.rows), Derived(t.rows, m.source.features),
           Booked(m), DuplicatesBooked(m, t.rows)
    PROVE  LET e == Deduplicated(t, m, K)
           IN  /\ e = [parquet |-> e.parquet, manifest |-> e.manifest]
               /\ IsTable(e.parquet) /\ IsManifest(e.manifest)
               /\ e.manifest.source = m.source /\ PassSound(t, e)
  <1> DEFINE rows == Restrict(t.rows, K)
             table == [t EXCEPT !.rows = rows]
             lost == Size(t) - Size(table)
             n == [m EXCEPT !.output = table, !.included = @ - lost,
                            !.rejected["duplicate"] = @ + lost]
             R == [m.rejected EXCEPT !["duplicate"] = m.rejected["duplicate"] + lost]
             F == m.source.features
             D == DOMAIN t.rows
  <1>1. /\ DOMAIN rows = K /\ rows = [o \in K |-> rows[o]]
        /\ \A o \in K : rows[o] = t.rows[o] /\ IsRow(rows[o])
    BY DEF Restrict, IsTable
  <1> HIDE DEF rows
  <1>2. /\ IsTable(table) /\ table.rows = rows /\ table.schema = "list"
        /\ Cardinality(K) \in Nat /\ Cardinality(D \ K) \in Nat
        /\ Cardinality(D) = Cardinality(K) + Cardinality(D \ K)
    <2>1. \A o \in K : IsRow(rows[o])
      BY <1>1
    <2>2. /\ IsTable(table) /\ table.rows = rows /\ table.schema = t.schema
          /\ Cardinality(K) \in Nat /\ Cardinality(D \ K) \in Nat
          /\ Cardinality(D) = Cardinality(K) + Cardinality(D \ K)
      BY <1>1, <2>1, SmallerTable
    <2> QED BY <2>2
  <1>3. lost = Cardinality(D \ K) /\ lost \in Nat
    BY <1>1, <1>2 DEF Size
  <1> HIDE DEF table
  <1>4. m = [source |-> m.source, output |-> m.output, schema |-> m.schema,
             emitted |-> m.emitted, included |-> m.included, rejected |-> m.rejected]
    BY DEF IsManifest
  <1>5. m.rejected \in [Reasons -> Int] /\ m.included \in Int /\ m.emitted \in Int
    BY DEF IsManifest
  <1> HIDE DEF lost
  <1>6. n = [source |-> m.source, output |-> table, schema |-> m.schema,
             emitted |-> m.emitted, included |-> m.included - lost, rejected |-> R]
    <2>1. n = [m EXCEPT !.output = table, !.included = m.included - lost, !.rejected = R]
      BY <1>4
    <2> HIDE DEF n, R
    <2> QED BY <1>4, <2>1
  <1>7. /\ R \in [Reasons -> Int]
        /\ R["duplicate"] = m.rejected["duplicate"] + lost
        /\ \A r \in Reasons \ {"duplicate"} : R[r] = m.rejected[r]
    BY <1>3, <1>5 DEF Reasons
  <1> HIDE DEF n, R
  <1>8. IsManifest(n)
    BY <1>2, <1>3, <1>5, <1>6, <1>7 DEF IsManifest
  <1>9. Total(R) = Total(m.rejected) + lost
    <2>1. /\ R["unsupported_osm_type"] = m.rejected["unsupported_osm_type"]
          /\ R["invalid_osm_id"] = m.rejected["invalid_osm_id"]
          /\ R["no_nonempty_description"] = m.rejected["no_nonempty_description"]
          /\ R["invalid_geometry"] = m.rejected["invalid_geometry"]
          /\ R["non_polygon_geometry"] = m.rejected["non_polygon_geometry"]
          /\ R["nonpositive_area"] = m.rejected["nonpositive_area"]
      BY <1>7 DEF Reasons
    <2>2. \A r \in Reasons : m.rejected[r] \in Int
      BY <1>5
    <2> QED BY <1>3, <1>7, <2>1, <2>2 DEF Total, Reasons
  <1>10. Total(m.rejected) \in Int
    BY <1>5 DEF Total, Reasons
  <1>11. Booked(n)
    BY <1>3, <1>5, <1>6, <1>7, <1>9, <1>10 DEF Booked
  <1>12. DuplicatesBooked(n, rows)
    <2>1. F \in FeatureTables /\ D \subseteq None(F)
      BY ValidRowsAreBuilt DEF IsManifest
    <2>2. D \ K = (None(F) \ K) \ (None(F) \ D) /\ None(F) \ D \subseteq None(F) \ K
      BY <2>1
    <2>3. IsFiniteSet(None(F) \ K)
      BY <2>1, Partition, FS_Difference DEF None
    <2>4. /\ Cardinality(None(F) \ K) = Cardinality(None(F) \ D) + Cardinality(D \ K)
          /\ Cardinality(None(F) \ D) \in Nat
      <3> DEFINE S == None(F) \ K
                 T == None(F) \ D
      <3>1. T \subseteq S /\ S \ T = D \ K /\ IsFiniteSet(S)
        BY <2>2, <2>3
      <3> HIDE DEF S, T
      <3>2. Cardinality(T) \in Nat /\ Cardinality(S) = Cardinality(T) + Cardinality(S \ T)
        BY <3>1, Split
      <3> QED BY <3>1, <3>2 DEF S, T
    <2> QED BY <1>1, <1>3, <1>6, <1>7, <2>4 DEF DuplicatesBooked
  <1>13. AllValid(rows) /\ Derived(rows, F)
    BY <1>1 DEF AllValid, Derived
  <1>14. PassSound(t, [parquet |-> table, manifest |-> n])
    BY <1>1, <1>2, <1>6, <1>11, <1>12, <1>13 DEF PassSound
  <1>15. n.source = m.source
    BY <1>6
  <1>16. Deduplicated(t, m, K) = [parquet |-> table, manifest |-> n]
    BY DEF Deduplicated, n, lost, table, rows
  <1> QED BY <1>2, <1>8, <1>14, <1>15, <1>16

-----------------------------------------------------------------------------
(* Canonical rows *)

\* Entries [at, object, row] as the files of a dataset give them.
IsRelation(R) ==
    \A x \in R :
        /\ x.at \in Nat /\ x.row.version \in Versions
        /\ \A y \in R : x.at = y.at /\ x.object = y.object => x = y

LEMMA Smallest ==
    ASSUME NEW S \in SUBSET Nat, S # {}
    PROVE  \E n \in S : \A m \in S : n <= m
  <1> DEFINE below == {p \in Nat \X Nat : p[1] < p[2]}
  <1>1. IsWellFoundedOn(below, Nat)
    BY NatLessThanWellFounded DEF OpToRel
  <1> HIDE DEF below
  <1>2. PICK n \in S : \A m \in S : ~(<<m, n>> \in below)
    BY <1>1, WFMin
  <1>3. \A m \in S : ~(m < n)
    BY <1>2 DEF below
  <1> QED BY <1>3

\* Of the entries of one object one is ahead of all the others: the highest
\* version exists because versions are bounded, and of those the first name.
LEMMA Winner ==
    ASSUME NEW R, IsRelation(R), NEW x \in R
    PROVE  \E b \in R : /\ b.object = x.object
                       /\ \A y \in R : y.object = x.object /\ y # b => Ahead(b, y)
  <1> DEFINE C == {y \in R : y.object = x.object}
  <1>1. PICK top \in Versions \cup {0} : \A v \in Versions : v <= top
    BY VersionsAssumption
  <1>2. top \in Nat /\ \A y \in C : y.row.version \in Nat /\ y.row.version <= top /\ y.at \in Nat
    <2>1. top \in Nat
      BY VersionsAssumption
    <2>2. \A y \in C : y.row.version \in Versions /\ y.at \in Nat
      BY DEF IsRelation
    <2> QED BY <1>1, <2>1, <2>2, VersionsAssumption
  <1> DEFINE gaps == {top - y.row.version : y \in C}
  <1>3. gaps \in SUBSET Nat /\ gaps # {}
    BY <1>2
  <1>4. PICK gap \in gaps : \A g \in gaps : gap <= g
    BY <1>3, Smallest
  <1> DEFINE highest == {y \in C : top - y.row.version = gap}
             names == {y.at : y \in highest}
  <1>5. names \in SUBSET Nat /\ names # {}
    BY <1>2, <1>4
  <1>6. PICK name \in names : \A n \in names : name <= n
    BY <1>5, Smallest
  <1>7. PICK b \in highest : b.at = name
    BY <1>6
  <1>8. ASSUME NEW y \in C, y # b PROVE Ahead(b, y)
    <2>1. gap <= top - y.row.version /\ gap = top - b.row.version
      BY <1>4, <1>7
    <2>2. y.at # b.at
      BY <1>7, <1>8 DEF IsRelation
    <2>3. top - y.row.version = gap => b.at <= y.at
      <3>1. ASSUME top - y.row.version = gap PROVE y.at \in names
        BY <3>1
      <3> QED BY <3>1, <1>6, <1>7
    <2>4. /\ b.row.version \in Nat /\ y.row.version \in Nat
          /\ b.at \in Nat /\ y.at \in Nat
      BY <1>2, <1>7
    <2> HIDE DEF gaps, highest, names
    <2> QED BY <1>2, <2>1, <2>2, <2>3, <2>4 DEF Ahead
  <1> QED BY <1>7, <1>8

\* An entry that is ahead of another one is not behind it.
LEMMA AheadIsStrict ==
    ASSUME NEW R, IsRelation(R), NEW x \in R, NEW y \in R, Ahead(x, y)
    PROVE  ~Ahead(y, x)
  <1>1. x.row.version \in Nat /\ y.row.version \in Nat /\ x.at \in Nat /\ y.at \in Nat
    BY VersionsAssumption DEF IsRelation
  <1> QED BY <1>1 DEF Ahead

\* The first entries are the ones select_canonical_row picks.
LEMMA FirstIsSelected ==
    ASSUME NEW R, IsRelation(R)
    PROVE  FirstOf(R) = {Selected({y \in R : y.object = x.object}) : x \in R}
  <1> DEFINE C(x) == {y \in R : y.object = x.object}
  <1>1. ASSUME NEW x \in R
        PROVE  /\ Selected(C(x)) \in FirstOf(R)
               /\ x \in FirstOf(R) => Selected(C(x)) = x
    <2> DEFINE Best(z) == \A y \in C(x) \ {z} : Ahead(z, y)
    <2>1. \E z \in C(x) : Best(z)
      BY Winner
    <2>2. Selected(C(x)) = CHOOSE z \in C(x) : Best(z)
      BY DEF Selected
    <2>3. Selected(C(x)) \in C(x) /\ Best(Selected(C(x)))
      <3> HIDE DEF Best
      <3> QED BY <2>1, <2>2
    <2> DEFINE s == Selected(C(x))
    <2> HIDE DEF s
    <2>4. s \in R /\ s.object = x.object
      BY <2>3 DEF s
    <2>5. \A y \in R : y.object = s.object /\ y # s => Ahead(s, y)
      BY <2>3, <2>4 DEF s
    <2>6. s \in FirstOf(R)
      BY <2>4, <2>5 DEF FirstOf
    <2>7. ASSUME x \in FirstOf(R), s # x PROVE FALSE
      <3>1. Ahead(x, s)
        BY <2>4, <2>7 DEF FirstOf
      <3>2. Ahead(s, x)
        BY <2>4, <2>5, <2>7
      <3> QED BY <2>4, <3>1, <3>2, AheadIsStrict
    <2> QED BY <2>6, <2>7 DEF s
  <1>2. FirstOf(R) \subseteq R
    BY DEF FirstOf
  <1> HIDE DEF C
  <1>3. FirstOf(R) = {Selected(C(x)) : x \in R}
    BY <1>1, <1>2
  <1> QED BY <1>3 DEF C

\* The one-pass view flags the first of the rows with text.
LEMMA FlaggedIsFirst ==
    ASSUME NEW R
    PROVE  {v.entry : v \in {w \in OnePassView(R) : w.text}}
                = FirstOf({x \in R : SqlSuccessful(x.row)})
  <1> DEFINE good == {x \in R : SqlSuccessful(x.row)}
             ranked == FirstOf(R)
             textRanked == FirstOf(good) \cup FirstOf(R \ good)
             shown == ranked \cup (good \cap textRanked)
             E(x) == [entry |-> x, text |-> x \in good /\ x \in textRanked]
  <1>1. OnePassView(R) = {E(x) : x \in shown}
    BY DEF OnePassView
  <1>2. FirstOf(good) \subseteq good /\ FirstOf(R \ good) \cap good = {}
    BY DEF FirstOf
  <1> HIDE DEF good, ranked, textRanked
  <1>3. {v.entry : v \in {w \in OnePassView(R) : w.text}}
            = {x \in shown : x \in good /\ x \in textRanked}
    <2>1. \A x \in shown : E(x).entry = x /\ (E(x).text <=> x \in good /\ x \in textRanked)
      OBVIOUS
    <2> HIDE DEF E, shown
    <2>2. ASSUME NEW x, x \in {v.entry : v \in {w \in OnePassView(R) : w.text}}
          PROVE  x \in {z \in shown : z \in good /\ z \in textRanked}
      <3>1. PICK w \in OnePassView(R) : w.text /\ x = w.entry
        BY <2>2
      <3>2. PICK z \in shown : w = E(z)
        BY <1>1, <3>1
      <3> QED BY <2>1, <3>1, <3>2
    <2>3. ASSUME NEW x \in shown, x \in good, x \in textRanked
          PROVE  x \in {v.entry : v \in {w \in OnePassView(R) : w.text}}
      <3>1. E(x) \in OnePassView(R) /\ E(x).text /\ E(x).entry = x
        BY <1>1, <2>1, <2>3
      <3>2. E(x) \in {w \in OnePassView(R) : w.text}
        BY <3>1
      <3> QED BY <3>1, <3>2
    <2> QED BY <2>2, <2>3
  <1>4. {x \in shown : x \in good /\ x \in textRanked} = FirstOf(good)
    BY <1>2 DEF textRanked
  <1> QED BY <1>3, <1>4 DEF good

-----------------------------------------------------------------------------
(* Pairs: what each write makes of a sound pair *)

LEMMA SoundWhenStaged ==
    ASSUME NEW source, NEW t, NEW m, Sound(source, t, m, FALSE)
    PROVE  Sound(source, t, m, TRUE)
  BY DEF Sound

\* A pair as an earlier release left it.
LEMMA SoundLegacy ==
    ASSUME NEW source \in Extracts, NEW blank \in BOOLEAN, NEW schema \in {"map", "list"},
           NEW version \in {"old", "current"}, schema = "map" => version = "old"
    PROVE  LET t == [schema |-> schema, rows |-> LegacyRows(source.features, blank)]
               m == ManifestOf(source, t, version)
           IN  IsTable(t) /\ IsManifest(m) /\ m.source = source /\ Sound(source, t, m, FALSE)
  <1> DEFINE t == [schema |-> schema, rows |-> LegacyRows(source.features, blank)]
             m == ManifestOf(source, t, version)
  <1>1. /\ IsTable(t) /\ Derived(t.rows, source.features)
        /\ None(source.features) \subseteq DOMAIN t.rows
    BY LegacyTable DEF Extracts
  <1>2. t.schema = schema
    OBVIOUS
  <1> HIDE DEF t
  <1>3. /\ IsManifest(m) /\ Booked(m) /\ DuplicatesBooked(m, t.rows)
        /\ m.source = source /\ m.output = t /\ m.schema = version
        /\ m.included = Size(t)
    BY <1>1, BookedManifest
  <1> HIDE DEF m
  <1>4. Sound(source, t, m, FALSE)
    BY <1>1, <1>2, <1>3 DEF Sound
  <1> QED BY <1>1, <1>3, <1>4 DEF t, m

\* _migrate_parquet
LEMMA SoundAsLists ==
    ASSUME NEW source, NEW t, IsTable(t), NEW m, NEW staged \in BOOLEAN,
           Sound(source, t, m, staged), t.schema = "map"
    PROVE  LET u == [t EXCEPT !.schema = "list"]
           IN  IsTable(u) /\ u.rows = t.rows /\ u.schema = "list" /\ Sound(source, u, m, staged)
  <1> DEFINE u == [t EXCEPT !.schema = "list"]
  <1>1. u = [schema |-> "list", rows |-> t.rows]
    BY DEF IsTable
  <1> HIDE DEF u
  <1>2. IsTable(u)
    BY <1>1 DEF IsTable
  <1>3. ~ReusablePair(source, t, m)
    BY DEF Sound, ReusablePair
  <1>4. Size(u) = Size(t)
    BY <1>1 DEF Size
  <1>5. Sound(source, u, m, staged)
    BY <1>1, <1>3, <1>4 DEF Sound
  <1> QED BY <1>1, <1>2, <1>5 DEF u

\* _migrate_one_artifact
LEMMA SoundVersioned ==
    ASSUME NEW source, NEW t, IsTable(t), NEW m, IsManifest(m), NEW staged \in BOOLEAN,
           Sound(source, t, m, staged), t.schema = "list"
    PROVE  LET n == Versioned(m, t)
           IN  /\ IsManifest(n) /\ n.source = m.source /\ n.included = m.included
               /\ n.output = t /\ Sound(source, t, n, staged)
  <1> DEFINE n == Versioned(m, t)
  <1>1. n = [source |-> m.source, output |-> t, schema |-> "current",
             emitted |-> m.emitted, included |-> m.included, rejected |-> m.rejected]
    <2>1. m = [source |-> m.source, output |-> m.output, schema |-> m.schema,
               emitted |-> m.emitted, included |-> m.included, rejected |-> m.rejected]
      BY DEF IsManifest
    <2>2. n = [m EXCEPT !.schema = "current", !.output = t]
      BY DEF Versioned
    <2> HIDE DEF n
    <2> QED BY <2>1, <2>2
  <1> HIDE DEF n
  <1>2. IsManifest(n)
    BY <1>1 DEF IsManifest
  <1>3. Booked(n) /\ (DuplicatesBooked(m, t.rows) => DuplicatesBooked(n, t.rows))
    BY <1>1 DEF Sound, Booked, DuplicatesBooked
  <1>4. ReusablePair(source, t, m) => ReusablePair(source, t, n)
    BY <1>1 DEF ReusablePair
  <1>5. Sound(source, t, n, staged)
    BY <1>1, <1>3, <1>4 DEF Sound
  <1> QED BY <1>1, <1>2, <1>5 DEF n

\* _migrate_parquet_text
LEMMA SoundCanonical ==
    ASSUME NEW source \in Extracts, NEW t, IsTable(t), NEW m, NEW staged \in BOOLEAN,
           Sound(source, t, m, staged), RequiresRepair(t.rows)
    PROVE  Sound(source, [t EXCEPT !.rows = RepairedRows(t.rows)], m, staged)
  <1> DEFINE rows == RepairedRows(t.rows)
             u == [t EXCEPT !.rows = rows]
             F == source.features
  <1>1. IsTable(u) /\ u.rows = rows /\ u.schema = t.schema /\ AllValid(rows)
    BY RepairedTable
  <1> HIDE DEF u, rows
  <1>2. ~RequiresRepair(u.rows)
    BY <1>1, ValidIsSettled
  <1>3. ~ReusablePair(source, t, m)
    BY ValidIsSettled DEF ReusablePair
  <1>4. ASSUME m.source = source
        PROVE  Derived(rows, F) /\ None(F) \ DOMAIN rows = None(F) \ DOMAIN t.rows
    BY <1>4, RepairKeepsDerived DEF Sound, Extracts, rows
  <1>5. ASSUME m.source = source, ~staged
        PROVE  DuplicatesBooked(m, rows) /\ None(F) \subseteq DOMAIN rows
    <2>1. DuplicatesBooked(m, t.rows) /\ None(F) \subseteq DOMAIN t.rows
      BY <1>3, <1>5 DEF Sound
    <2>2. None(F) \ DOMAIN rows = {}
      BY <1>4, <1>5, <2>1
    <2>3. DuplicatesBooked(m, rows)
      BY <1>4, <1>5, <2>1 DEF DuplicatesBooked
    <2> QED BY <2>2, <2>3
  <1>6. Sound(source, u, m, staged)
    BY <1>1, <1>2, <1>4, <1>5 DEF Sound
  <1> QED BY <1>6 DEF u, rows

\* _repaired_manifest
LEMMA SoundRepaired ==
    ASSUME NEW source, NEW t, IsTable(t), NEW m, IsManifest(m), NEW staged \in BOOLEAN,
           NEW d \in Int, Sound(source, t, m, staged), ~RequiresRepair(t.rows)
    PROVE  Sound(source, t, Repaired(m, t, d), staged)
  <1> DEFINE n == Repaired(m, t, d)
  <1>1. /\ IsManifest(n) /\ n.source = m.source /\ n.schema = m.schema
        /\ n.output = t /\ n.rejected["duplicate"] = m.rejected["duplicate"]
        /\ Booked(m) => Booked(n)
    BY RepairedManifest
  <1> HIDE DEF n
  <1>2. DuplicatesBooked(m, t.rows) => DuplicatesBooked(n, t.rows)
    BY <1>1 DEF DuplicatesBooked
  <1>3. ReusablePair(source, t, m) => ReusablePair(source, t, n)
    BY <1>1 DEF ReusablePair
  <1>4. Sound(source, t, n, staged)
    BY <1>1, <1>2, <1>3 DEF Sound
  <1> QED BY <1>4 DEF n

\* _build_fresh, the writer's half
LEMMA SoundBuilt ==
    ASSUME NEW source \in Extracts, NEW t, NEW m, NEW staged \in BOOLEAN,
           Sound(source, t, m, staged), ~ReusablePair(source, t, m)
    PROVE  Sound(source, [schema |-> "list", rows |-> BuiltRows(source.features)], m, staged)
  <1> DEFINE u == [schema |-> "list", rows |-> BuiltRows(source.features)]
             F == source.features
  <1>1. /\ IsTable(u) /\ AllValid(u.rows) /\ Derived(u.rows, F) /\ DOMAIN u.rows = None(F)
    BY BuiltTable DEF Extracts
  <1>2. u.schema = "list"
    OBVIOUS
  <1> HIDE DEF u
  <1>3. ~RequiresRepair(u.rows)
    BY <1>1, ValidIsSettled
  <1>4. ASSUME m.source = source, ~staged PROVE DuplicatesBooked(m, u.rows)
    <2>1. DuplicatesBooked(m, t.rows) /\ None(F) \subseteq DOMAIN t.rows
      BY <1>4 DEF Sound
    <2>2. None(F) \ DOMAIN t.rows = None(F) \ DOMAIN u.rows
      BY <1>1, <2>1
    <2> QED BY <1>4, <2>1, <2>2 DEF DuplicatesBooked
  <1>5. Sound(source, u, m, staged)
    BY <1>1, <1>2, <1>3, <1>4 DEF Sound
  <1> QED BY <1>5 DEF u

\* _build_fresh, the manifest
LEMMA SoundFinished ==
    ASSUME NEW source \in Extracts, NEW t,
           t = [schema |-> "list", rows |-> BuiltRows(source.features)]
    PROVE  LET m == ManifestOf(source, t, "current")
           IN  /\ IsManifest(m) /\ m.source = source
               /\ ReusablePair(source, t, m)
               /\ \A staged \in BOOLEAN : Sound(source, t, m, staged)
  <1> DEFINE F == source.features
             m == ManifestOf(source, t, "current")
  <1>1. /\ IsTable(t) /\ AllValid(t.rows) /\ Derived(t.rows, F) /\ DOMAIN t.rows = None(F)
    BY BuiltTable DEF Extracts
  <1>2. t.schema = "list"
    OBVIOUS
  <1>3. ~RequiresRepair(t.rows)
    BY <1>1, ValidIsSettled
  <1>4. /\ IsManifest(m) /\ Booked(m) /\ DuplicatesBooked(m, t.rows)
        /\ m.source = source /\ m.output = t /\ m.schema = "current"
    BY <1>1, BookedManifest
  <1> HIDE DEF m
  <1>5. ReusablePair(source, t, m)
    BY <1>1, <1>4 DEF ReusablePair
  <1>6. \A staged \in BOOLEAN : Sound(source, t, m, staged)
    BY <1>1, <1>2, <1>3, <1>4 DEF Sound
  <1> QED BY <1>4, <1>5, <1>6 DEF m

\* _promote_artifact, of the Parquet
LEMMA SoundPromoting ==
    ASSUME NEW source, NEW t, NEW m, NEW input, NEW entry, IsTable(entry.parquet),
           PassSound(input, entry), t \in {input, entry.parquet}, Sound(source, t, m, TRUE)
    PROVE  Sound(source, entry.parquet, m, TRUE)
  <1>1. entry.parquet.schema = "list" /\ ~RequiresRepair(entry.parquet.rows)
    BY ValidIsSettled DEF PassSound
  <1>2. m.source = source => Derived(entry.parquet.rows, source.features)
    BY DEF PassSound, Sound, Derived
  <1> QED BY <1>1, <1>2 DEF Sound

\* _promote_artifact, of the manifest
LEMMA SoundPromoted ==
    ASSUME NEW source, NEW input, NEW entry, IsTable(entry.parquet),
           PassSound(input, entry), NEW staged \in BOOLEAN
    PROVE  Sound(source, entry.parquet, entry.manifest, staged)
  <1>1. entry.parquet.schema = "list" /\ ~RequiresRepair(entry.parquet.rows)
    BY ValidIsSettled DEF PassSound
  <1>2. entry.manifest.source = source =>
            ReusablePair(source, entry.parquet, entry.manifest)
    BY DEF PassSound, ReusablePair
  <1>3. /\ Booked(entry.manifest) /\ DuplicatesBooked(entry.manifest, entry.parquet.rows)
        /\ Derived(entry.parquet.rows, entry.manifest.source.features)
    BY DEF PassSound
  <1> QED BY <1>1, <1>2, <1>3 DEF Sound

\* A replaced extract is not the recorded one.
LEMMA SoundReplaced ==
    ASSUME NEW source, NEW other, NEW t, NEW m, NEW staged \in BOOLEAN,
           Sound(source, t, m, staged), m.source # other
    PROVE  Sound(other, t, m, staged)
  BY DEF Sound

-----------------------------------------------------------------------------
(* Steps: the files *)

DiskTypes ==
    /\ raw \in [Artifacts -> Extracts]
    /\ parquet = [a \in Artifacts |-> parquet[a]] /\ \A a \in Artifacts : IsTable(parquet[a])
    /\ manifest = [a \in Artifacts |-> manifest[a]] /\ \A a \in Artifacts : IsManifest(manifest[a])
    /\ IsPass(dedup)

MemoryTypes ==
    /\ cmd \in {"idle", "schema", "text", "build", "promote"}
    /\ pool \in BOOLEAN /\ failed \in BOOLEAN /\ repaired \in BOOLEAN
    /\ todo \subseteq Artifacts
    /\ work \in [Artifacts -> Int \cup {Nothing}]
    /\ kills \in 0..MaxKills /\ changes \in 0..MaxChanges

LEMMA TypeParts == TypeOK <=> DiskTypes /\ MemoryTypes
  BY DEF TypeOK, DiskTypes, MemoryTypes, Extracts

Files == DiskTypes /\ Disk /\ Stamps

SamePass == dedup'.files = dedup.files /\ dedup'.inputs = dedup.inputs /\ IsPass(dedup')

WritesParquet(a, t) ==
    /\ parquet' = [parquet EXCEPT ![a] = t]
    /\ UNCHANGED <<raw, manifest, changes>> /\ SamePass

WritesManifest(a, m) ==
    /\ manifest' = [manifest EXCEPT ![a] = m]
    /\ UNCHANGED <<raw, parquet, changes>> /\ SamePass

\* The pass keeps what it says when it loses a staged file.
LEMMA PassKept ==
    ASSUME IsPass(dedup), NEW x, dedup' = [dedup EXCEPT !.left = @ \ {x}]
    PROVE  SamePass
  <1>1. dedup = [inputs |-> dedup.inputs, files |-> dedup.files, left |-> dedup.left]
    BY DEF IsPass
  <1>2. dedup' = [inputs |-> dedup.inputs, files |-> dedup.files, left |-> dedup.left \ {x}]
    BY <1>1
  <1>3. dedup'.inputs = dedup.inputs /\ dedup'.files = dedup.files
        /\ dedup'.left \subseteq dedup.left
    BY <1>2
  <1>4. IsPass(dedup')
    BY <1>2, <1>3 DEF IsPass
  <1> QED BY <1>3, <1>4 DEF SamePass

LEMMA NothingWritten ==
    ASSUME Files, UNCHANGED <<raw, parquet, manifest, dedup, changes>>
    PROVE  Files'
  BY DEF Files, DiskTypes, Disk, Stamps, Staged

LEMMA ParquetWritten ==
    ASSUME Files, NEW a \in Artifacts, NEW t, IsTable(t), WritesParquet(a, t),
           Sound(raw[a], t, manifest[a], Staged(a))
    PROVE  Files' /\ parquet'[a] = t /\ \A b \in Artifacts : b # a => parquet'[b] = parquet[b]
  <1>1. /\ parquet'[a] = t /\ \A b \in Artifacts : b # a => parquet'[b] = parquet[b]
        /\ parquet' = [b \in Artifacts |-> parquet'[b]]
    BY DEF Files, DiskTypes, WritesParquet
  <1>2. DiskTypes'
    BY <1>1 DEF Files, DiskTypes, WritesParquet, SamePass
  <1>3. Disk'
    BY <1>1 DEF Files, Disk, Staged, WritesParquet, SamePass
  <1>4. Stamps'
    BY DEF Files, Stamps, WritesParquet, SamePass
  <1> QED BY <1>1, <1>2, <1>3, <1>4 DEF Files

LEMMA ManifestWritten ==
    ASSUME Files, NEW a \in Artifacts, NEW m, IsManifest(m), WritesManifest(a, m),
           Sound(raw[a], parquet[a], m, Staged(a)), m.source.stamp <= changes
    PROVE  Files' /\ manifest'[a] = m /\ \A b \in Artifacts : b # a => manifest'[b] = manifest[b]
  <1>1. /\ manifest'[a] = m /\ \A b \in Artifacts : b # a => manifest'[b] = manifest[b]
        /\ manifest' = [b \in Artifacts |-> manifest'[b]]
    BY DEF Files, DiskTypes, WritesManifest
  <1>2. DiskTypes'
    BY <1>1 DEF Files, DiskTypes, WritesManifest, SamePass
  <1>3. Disk'
    BY <1>1 DEF Files, Disk, Staged, WritesManifest, SamePass
  <1>4. Stamps'
    BY <1>1 DEF Files, Stamps, WritesManifest, SamePass
  <1> QED BY <1>1, <1>2, <1>3, <1>4 DEF Files

\* What is known of the pair of an artifact.
LEMMA PairOf ==
    ASSUME Files, NEW a \in Artifacts
    PROVE  /\ IsTable(parquet[a]) /\ IsManifest(manifest[a]) /\ raw[a] \in Extracts
           /\ Sound(raw[a], parquet[a], manifest[a], Staged(a))
           /\ Staged(a) \in BOOLEAN
           /\ manifest[a].source.stamp <= changes /\ raw[a].stamp <= changes
           /\ dedup' = dedup => SamePass
  BY DEF Files, DiskTypes, Disk, Stamps, Staged, SamePass

LEMMA SchemaParquetKeeps ==
    ASSUME Files, NEW a \in Artifacts, SchemaParquet(a)
    PROVE  Files' /\ parquet'[a].rows = parquet[a].rows
           /\ \A b \in Artifacts : b # a => parquet'[b] = parquet[b]
  <1> DEFINE t == [parquet[a] EXCEPT !.schema = "list"]
  <1>1. parquet[a].schema = "map" /\ dedup' = dedup
    BY DEF SchemaParquet
  <1>2. IsTable(t) /\ t.rows = parquet[a].rows /\ Sound(raw[a], t, manifest[a], Staged(a))
    BY <1>1, PairOf, SoundAsLists
  <1>3. WritesParquet(a, t)
    <2>1. parquet' = [parquet EXCEPT ![a] = t]
      BY DEF SchemaParquet, Files, DiskTypes
    <2> QED BY <1>1, <2>1, PairOf DEF SchemaParquet, WritesParquet, bounds
  <1> HIDE DEF t
  <1> QED BY <1>2, <1>3, ParquetWritten

LEMMA SchemaManifestKeeps ==
    ASSUME Files, NEW a \in Artifacts, SchemaManifest(a)
    PROVE  Files' /\ manifest'[a].included = manifest[a].included
           /\ \A b \in Artifacts : b # a => manifest'[b] = manifest[b]
  <1>1. parquet[a].schema = "list" /\ dedup' = dedup
        /\ UNCHANGED <<raw, parquet, changes>>
    BY DEF SchemaManifest, bounds
  <1>2. CASE UNCHANGED manifest
    BY <1>1, <1>2, NothingWritten
  <1>3. CASE manifest' = [manifest EXCEPT ![a] = Versioned(@, parquet[a])]
    <2> DEFINE m == Versioned(manifest[a], parquet[a])
    <2>1. /\ IsManifest(m) /\ m.source = manifest[a].source
          /\ m.included = manifest[a].included
          /\ Sound(raw[a], parquet[a], m, Staged(a))
      <3>1. /\ IsTable(parquet[a]) /\ IsManifest(manifest[a]) /\ Staged(a) \in BOOLEAN
            /\ Sound(raw[a], parquet[a], manifest[a], Staged(a))
        BY PairOf
      <3>2. parquet[a].schema = "list"
        BY <1>1
      <3> QED BY <3>1, <3>2, SoundVersioned
    <2>2. manifest' = [manifest EXCEPT ![a] = m]
      BY <1>3 DEF Files, DiskTypes
    <2>3. WritesManifest(a, m)
      BY <1>1, <2>2, PairOf DEF WritesManifest
    <2>4. m.source.stamp <= changes
      BY <2>1, PairOf
    <2> HIDE DEF m
    <2> QED BY <2>1, <2>3, <2>4, ManifestWritten
  <1> QED BY <1>2, <1>3 DEF SchemaManifest

LEMMA RepairParquetKeeps ==
    ASSUME Files, MemoryTypes, NEW a \in Artifacts, RepairParquet(a)
    PROVE  /\ Files' /\ ~RequiresRepair(parquet'[a].rows)
           /\ work'[a] \in Int /\ manifest[a].included - work'[a] = Size(parquet'[a])
           /\ \A b \in Artifacts : b # a => parquet'[b] = parquet[b]
  <1> DEFINE rows == RepairedRows(parquet[a].rows)
             t == [parquet[a] EXCEPT !.rows = rows]
  <1>1. dedup' = dedup /\ UNCHANGED <<raw, manifest, changes>>
        /\ RequiresRepair(parquet[a].rows)
    BY DEF RepairParquet, bounds
  <1>2. /\ IsTable(t) /\ t.rows = rows /\ AllValid(rows)
        /\ Size(parquet[a]) = Size(t) + Cardinality(DOMAIN parquet[a].rows \ DOMAIN rows)
        /\ Size(t) \in Nat /\ Cardinality(DOMAIN parquet[a].rows \ DOMAIN rows) \in Nat
    BY PairOf, RepairedTable
  <1>3. Sound(raw[a], t, manifest[a], Staged(a))
    BY <1>1, PairOf, SoundCanonical
  <1>4. manifest[a].included = Size(parquet[a])
    BY <1>1, PairOf DEF Sound
  <1>5. /\ parquet' = [parquet EXCEPT ![a].rows = rows]
        /\ work' = [work EXCEPT ![a] = Cardinality(DOMAIN parquet[a].rows \ DOMAIN rows)]
    BY DEF RepairParquet
  <1>6. parquet' = [parquet EXCEPT ![a] = t]
    BY <1>5 DEF Files, DiskTypes
  <1>7. WritesParquet(a, t)
    BY <1>1, <1>6, PairOf DEF WritesParquet
  <1> HIDE DEF t, rows
  <1>8. Files' /\ parquet'[a] = t /\ \A b \in Artifacts : b # a => parquet'[b] = parquet[b]
    BY <1>2, <1>3, <1>7, ParquetWritten
  <1>9. ~RequiresRepair(parquet'[a].rows)
    BY <1>2, <1>8, ValidIsSettled
  <1>10. work'[a] = Cardinality(DOMAIN parquet[a].rows \ DOMAIN rows)
    BY <1>5 DEF MemoryTypes
  <1>11. manifest[a].included - work'[a] = Size(parquet'[a])
    BY <1>2, <1>4, <1>8, <1>10
  <1> QED BY <1>2, <1>8, <1>9, <1>10, <1>11

LEMMA RepairManifestKeeps ==
    ASSUME Files, MemoryTypes, TextMemory, NEW a \in Artifacts, RepairManifest(a)
    PROVE  /\ Files' /\ manifest'[a].output = parquet[a]
           /\ manifest'[a].included = Size(parquet[a])
           /\ \A b \in Artifacts : b # a => manifest'[b] = manifest[b]
  <1> DEFINE m == Repaired(manifest[a], parquet[a], work[a])
  <1>1. /\ manifest' = [manifest EXCEPT ![a] = m]
        /\ dedup' = dedup /\ UNCHANGED <<raw, parquet, changes>>
        /\ cmd = "text" /\ work[a] # Nothing
    BY DEF RepairManifest, bounds
  <1>2. /\ ~RequiresRepair(parquet[a].rows) /\ work[a] \in Int
        /\ manifest[a].included - work[a] = Size(parquet[a])
    BY <1>1 DEF TextMemory
  <1>3. /\ IsTable(parquet[a]) /\ IsManifest(manifest[a]) /\ Staged(a) \in BOOLEAN
        /\ Sound(raw[a], parquet[a], manifest[a], Staged(a))
        /\ manifest[a].source.stamp <= changes
    BY PairOf
  <1>4. /\ IsManifest(m) /\ m.source = manifest[a].source /\ m.output = parquet[a]
        /\ m.included = Size(parquet[a])
    BY <1>2, <1>3, RepairedManifest
  <1>5. Sound(raw[a], parquet[a], m, Staged(a))
    BY <1>2, <1>3, SoundRepaired
  <1>6. WritesManifest(a, m)
    BY <1>1, PairOf DEF WritesManifest
  <1> HIDE DEF m
  <1>7. Files' /\ manifest'[a] = m /\ \A b \in Artifacts : b # a => manifest'[b] = manifest[b]
    BY <1>3, <1>4, <1>5, <1>6, ManifestWritten
  <1> QED BY <1>4, <1>7

LEMMA HealKeeps ==
    ASSUME Files, NEW a \in Artifacts, Heal(a)
    PROVE  /\ Files' /\ manifest'[a].output = parquet[a]
           /\ manifest'[a].included = Size(parquet[a])
           /\ \A b \in Artifacts : b # a => manifest'[b] = manifest[b]
  <1>1. /\ dedup' = dedup /\ UNCHANGED <<raw, parquet, changes>>
        /\ ~RequiresRepair(parquet[a].rows)
    BY DEF Heal, bounds
  <1>2. CASE Agrees(a) /\ UNCHANGED manifest
    BY <1>1, <1>2, NothingWritten DEF Agrees
  <1>3. CASE manifest' = [manifest EXCEPT ![a] = Healed(@, parquet[a])]
    <2> DEFINE d == manifest[a].included - Size(parquet[a])
               m == Repaired(manifest[a], parquet[a], d)
    <2>1. /\ IsTable(parquet[a]) /\ IsManifest(manifest[a]) /\ Staged(a) \in BOOLEAN
          /\ Sound(raw[a], parquet[a], manifest[a], Staged(a))
          /\ manifest[a].source.stamp <= changes
      BY PairOf
    <2>2. manifest[a].included \in Int /\ Size(parquet[a]) \in Nat /\ d \in Int
      BY <2>1, FS_CardinalityType DEF IsTable, IsManifest, Size
    <2> HIDE DEF d
    <2>3. /\ IsManifest(m) /\ m.source = manifest[a].source /\ m.output = parquet[a]
          /\ m.included = manifest[a].included - d
      <3>1. IsManifest(manifest[a]) /\ IsTable(parquet[a]) /\ d \in Int
        BY <2>1, <2>2
      <3> QED BY <3>1, RepairedManifest
    <2>4. Sound(raw[a], parquet[a], m, Staged(a))
      BY <1>1, <2>1, <2>2, SoundRepaired
    <2>5. WritesManifest(a, m)
      BY <1>1, <1>3, PairOf DEF WritesManifest, Healed, d
    <2> HIDE DEF m
    <2>6. Files' /\ manifest'[a] = m /\ \A b \in Artifacts : b # a => manifest'[b] = manifest[b]
      BY <2>1, <2>3, <2>4, <2>5, ManifestWritten
    <2> QED BY <2>2, <2>3, <2>6 DEF d
  <1> QED BY <1>2, <1>3 DEF Heal

LEMMA BuildParquetKeeps ==
    ASSUME Files, NEW a \in Artifacts, BuildParquet(a)
    PROVE  /\ Files'
           /\ parquet'[a] = [schema |-> "list", rows |-> BuiltRows(raw[a].features)]
           /\ \A b \in Artifacts : b # a => parquet'[b] = parquet[b]
  <1> DEFINE t == [schema |-> "list", rows |-> BuiltRows(raw[a].features)]
  <1>1. /\ parquet' = [parquet EXCEPT ![a] = t]
        /\ dedup' = dedup /\ UNCHANGED <<raw, manifest, changes>>
        /\ ~Reusable(a)
    BY DEF BuildParquet, bounds
  <1>2. /\ raw[a] \in Extracts /\ Staged(a) \in BOOLEAN
        /\ Sound(raw[a], parquet[a], manifest[a], Staged(a))
    BY PairOf
  <1>3. ~ReusablePair(raw[a], parquet[a], manifest[a])
    BY <1>1 DEF Reusable, ReusablePair, AllValid
  <1>4. IsTable(t)
    BY <1>2, BuiltTable DEF Extracts
  <1>5. Sound(raw[a], t, manifest[a], Staged(a))
    BY <1>2, <1>3, SoundBuilt
  <1>6. WritesParquet(a, t)
    BY <1>1, PairOf DEF WritesParquet
  <1> HIDE DEF t
  <1>7. Files' /\ parquet'[a] = t /\ \A b \in Artifacts : b # a => parquet'[b] = parquet[b]
    BY <1>4, <1>5, <1>6, ParquetWritten
  <1> QED BY <1>7 DEF t

LEMMA BuildManifestKeeps ==
    ASSUME Files, BuildMemory, NEW a \in Artifacts, BuildManifest(a)
    PROVE  /\ Files' /\ ReusablePair(raw[a], parquet[a], manifest'[a])
           /\ \A b \in Artifacts : b # a => manifest'[b] = manifest[b]
  <1> DEFINE m == ManifestOf(raw[a], parquet[a], "current")
  <1>1. /\ manifest' = [manifest EXCEPT ![a] = m]
        /\ dedup' = dedup /\ UNCHANGED <<raw, parquet, changes>>
        /\ cmd = "build" /\ work[a] # Nothing
    BY DEF BuildManifest, bounds
  <1>2. /\ raw[a] \in Extracts /\ Staged(a) \in BOOLEAN /\ raw[a].stamp <= changes
        /\ parquet[a] = [schema |-> "list", rows |-> BuiltRows(raw[a].features)]
    BY <1>1, PairOf DEF BuildMemory
  <1>3. /\ IsManifest(m) /\ m.source = raw[a] /\ ReusablePair(raw[a], parquet[a], m)
        /\ \A staged \in BOOLEAN : Sound(raw[a], parquet[a], m, staged)
    BY <1>2, SoundFinished
  <1>4. WritesManifest(a, m)
    BY <1>1, PairOf DEF WritesManifest
  <1> HIDE DEF m
  <1>5. Files' /\ manifest'[a] = m /\ \A b \in Artifacts : b # a => manifest'[b] = manifest[b]
    BY <1>2, <1>3, <1>4, ManifestWritten
  <1> QED BY <1>3, <1>5

LEMMA PromoteParquetKeeps ==
    ASSUME Files, PromoteMemory, NEW a \in Artifacts, PromoteParquet(a)
    PROVE  /\ Files' /\ SamePass /\ parquet'[a] = dedup.files[a].parquet
           /\ \A b \in Artifacts : b # a => parquet'[b] = parquet[b]
  <1> DEFINE t == dedup.files[a].parquet
  <1>1. /\ parquet' = [parquet EXCEPT ![a] = t]
        /\ dedup' = [dedup EXCEPT !.left = @ \ {<<a, "parquet">>}]
        /\ UNCHANGED <<raw, manifest, changes>>
        /\ cmd = "promote" /\ work[a] = Nothing /\ a \in todo
    BY DEF PromoteParquet, bounds, First
  <1>2. SamePass
    BY <1>1, PassKept DEF Files, DiskTypes
  <1>3. a \in DOMAIN dedup.files /\ parquet[a] \in {dedup.inputs[a], dedup.files[a].parquet}
    BY <1>1 DEF PromoteMemory
  <1>4. IsTable(t) /\ PassSound(dedup.inputs[a], dedup.files[a])
    BY <1>3 DEF Files, DiskTypes, IsPass, Disk
  <1>5. Sound(raw[a], parquet[a], manifest[a], TRUE)
    BY <1>3, PairOf DEF Staged
  <1>6. Sound(raw[a], t, manifest[a], TRUE)
    BY <1>3, <1>4, <1>5, SoundPromoting
  <1>7. Sound(raw[a], t, manifest[a], Staged(a))
    BY <1>3, <1>6 DEF Staged
  <1>8. WritesParquet(a, t)
    BY <1>1, <1>2 DEF WritesParquet
  <1> HIDE DEF t
  <1>9. Files' /\ parquet'[a] = t /\ \A b \in Artifacts : b # a => parquet'[b] = parquet[b]
    BY <1>4, <1>7, <1>8, ParquetWritten
  <1> QED BY <1>2, <1>9 DEF t

LEMMA PromoteManifestKeeps ==
    ASSUME Files, PromoteMemory, NEW a \in Artifacts, PromoteManifest(a)
    PROVE  /\ Files' /\ SamePass /\ manifest'[a] = dedup.files[a].manifest
           /\ \A b \in Artifacts : b # a => manifest'[b] = manifest[b]
  <1> DEFINE m == dedup.files[a].manifest
  <1>1. /\ manifest' = [manifest EXCEPT ![a] = m]
        /\ dedup' = [dedup EXCEPT !.left = @ \ {<<a, "manifest">>}]
        /\ UNCHANGED <<raw, parquet, changes>>
        /\ cmd = "promote" /\ work[a] # Nothing /\ a \in todo
    BY DEF PromoteManifest, bounds, First
  <1>2. SamePass
    BY <1>1, PassKept DEF Files, DiskTypes
  <1>3. a \in DOMAIN dedup.files /\ parquet[a] = dedup.files[a].parquet
    BY <1>1 DEF PromoteMemory
  <1>4. /\ IsTable(dedup.files[a].parquet) /\ IsManifest(m)
        /\ PassSound(dedup.inputs[a], dedup.files[a]) /\ m.source.stamp <= changes
    BY <1>3 DEF Files, DiskTypes, IsPass, Disk, Stamps
  <1>5. Sound(raw[a], parquet[a], m, Staged(a))
    BY <1>3, <1>4, SoundPromoted DEF Staged
  <1>6. WritesManifest(a, m)
    BY <1>1, <1>2 DEF WritesManifest
  <1> HIDE DEF m
  <1>7. Files' /\ manifest'[a] = m /\ \A b \in Artifacts : b # a => manifest'[b] = manifest[b]
    BY <1>4, <1>5, <1>6, ManifestWritten
  <1> QED BY <1>2, <1>7 DEF m

\* Every file of a completed pass is what the pass staged.
LEMMA CompletePassKeeps ==
    ASSUME Files, PromoteMemory, CompletePass
    PROVE  Files' /\ UNCHANGED <<parquet, manifest>>
  <1>1. /\ cmd = "promote" /\ todo = {} /\ dedup' = NoPass
        /\ UNCHANGED <<raw, parquet, manifest, changes>>
    BY DEF CompletePass, bounds
  <1>2. IsPass(NoPass) /\ DOMAIN NoPass.files = {}
    BY DEF IsPass, NoPass, NoWork
  <1>3. DiskTypes'
    BY <1>1, <1>2 DEF Files, DiskTypes
  <1>4. Disk'
    <2>1. ASSUME NEW a \in Artifacts PROVE Sound(raw[a], parquet[a], manifest[a], FALSE)
      <3>1. CASE a \in DOMAIN dedup.files
        <4>1. parquet[a] = dedup.files[a].parquet /\ manifest[a] = dedup.files[a].manifest
          BY <1>1, <3>1 DEF PromoteMemory
        <4>2. IsTable(dedup.files[a].parquet) /\ PassSound(dedup.inputs[a], dedup.files[a])
          BY <3>1 DEF Files, DiskTypes, IsPass, Disk
        <4> QED BY <4>1, <4>2, SoundPromoted
      <3>2. CASE a \notin DOMAIN dedup.files
        BY <3>2, PairOf DEF Staged
      <3> QED BY <3>1, <3>2
    <2>2. \A a \in Artifacts : Staged(a)' = FALSE
      BY <1>1, <1>2 DEF Staged
    <2>3. \A a \in Artifacts : Sound(raw[a], parquet[a], manifest[a], Staged(a))'
      BY <1>1, <2>1, <2>2
    <2>4. \A a \in DOMAIN dedup'.files : PassSound(dedup.inputs[a], dedup.files[a])'
      BY <1>1, <1>2
    <2> QED BY <2>3, <2>4 DEF Disk
  <1>5. Stamps'
    BY <1>1, <1>2 DEF Files, Stamps
  <1> QED BY <1>1, <1>3, <1>4, <1>5 DEF Files

\* An extract is replaced by one that no manifest has recorded.
LEMMA ChangeKeeps ==
    ASSUME Files, MemoryTypes, NEW a \in Artifacts, ChangeExtract(a)
    PROVE  Files'
  <1>1. PICK features \in FeatureTables :
            raw' = [raw EXCEPT ![a] = [features |-> features, stamp |-> changes + 1]]
    BY DEF ChangeExtract
  <1>2. /\ changes' = changes + 1 /\ changes < MaxChanges /\ changes \in 0..MaxChanges
        /\ UNCHANGED <<parquet, manifest, dedup>>
    BY DEF ChangeExtract, disk, MemoryTypes
  <1>3. /\ raw'[a] = [features |-> features, stamp |-> changes + 1]
        /\ \A b \in Artifacts : b # a => raw'[b] = raw[b]
        /\ raw' = [b \in Artifacts |-> raw'[b]]
    BY <1>1 DEF Files, DiskTypes
  <1>4. changes \in Nat /\ MaxChanges \in Nat
    BY <1>2, MigrationBoundsAssumption
  <1>5. raw'[a] \in Extracts
    BY <1>2, <1>3, <1>4 DEF Extracts
  <1>6. DiskTypes'
    BY <1>2, <1>3, <1>5 DEF Files, DiskTypes
  <1>7. \A b \in Artifacts : manifest[b].source.stamp \in Nat /\ raw[b].stamp \in Nat
    BY <1>4 DEF Files, DiskTypes, IsManifest, Extracts
  <1>8. manifest[a].source # raw'[a]
    <2>1. manifest[a].source.stamp <= changes
      BY DEF Files, Stamps
    <2>2. manifest[a].source.stamp # raw'[a].stamp
      BY <1>3, <1>4, <1>7, <2>1
    <2> QED BY <2>2
  <1>9. Disk'
    <2>1. \A b \in Artifacts : Sound(raw'[b], parquet[b], manifest[b], Staged(b))
      BY <1>3, <1>8, PairOf, SoundReplaced
    <2> QED BY <1>2, <2>1 DEF Files, Disk, Staged
  <1>10. Stamps'
    <2>1. \A b \in Artifacts : raw'[b].stamp <= changes + 1 /\ manifest[b].source.stamp <= changes + 1
      BY <1>3, <1>4, <1>7 DEF Files, Stamps
    <2>2. \A b \in DOMAIN dedup.files : dedup.files[b].manifest.source.stamp <= changes + 1
      <3>1. \A b \in DOMAIN dedup.files : dedup.files[b].manifest.source.stamp \in Nat
        BY <1>4 DEF Files, DiskTypes, IsPass, IsManifest
      <3> QED BY <1>4, <3>1 DEF Files, Stamps
    <2> QED BY <1>2, <2>1, <2>2 DEF Stamps
  <1> QED BY <1>6, <1>9, <1>10 DEF Files

\* No pass is staged: what loses a row is staged, and the files stay.
LEMMA StageKeeps ==
    ASSUME Files, BuildMemory, StageDuplicates, Shrunk # {}
    PROVE  /\ Files' /\ todo' = DOMAIN dedup'.files /\ dedup'.inputs = parquet
           /\ UNCHANGED <<parquet, manifest>>
  <1>1. /\ cmd = "build" /\ todo = {} /\ dedup = NoPass
        /\ \A a \in Artifacts : Finalized(a)
        /\ UNCHANGED <<raw, parquet, manifest, changes>>
        /\ dedup' = [inputs |-> parquet, files |-> [a \in Shrunk |-> StagedEntry(a)],
                     left |-> Shrunk \X {"parquet", "manifest"}]
        /\ todo' = Shrunk
    BY DEF StageDuplicates, bounds
  <1>2. Shrunk \subseteq Artifacts
    BY DEF Shrunk
  <1>3. ASSUME NEW a \in Artifacts PROVE Sound(raw[a], parquet[a], manifest[a], FALSE)
    <2>1. Staged(a) = FALSE
      BY <1>1 DEF Staged, NoPass
    <2> QED BY <2>1, PairOf
  <1>4. ASSUME NEW a \in Artifacts
        PROVE  LET e == StagedEntry(a)
               IN  /\ e = [parquet |-> e.parquet, manifest |-> e.manifest]
                   /\ IsTable(e.parquet) /\ IsManifest(e.manifest)
                   /\ e.manifest.source = manifest[a].source
                   /\ PassSound(parquet[a], e)
    <2> DEFINE t == parquet[a]
               m == manifest[a]
               K == Kept(a)
    <2>1. StagedEntry(a) = Deduplicated(t, m, K)
      BY DEF StagedEntry
    <2>2. K \subseteq DOMAIN t.rows
      BY DEF Kept, FirstOf, Relation
    <2>3. ReusablePair(raw[a], t, m) /\ IsTable(t) /\ IsManifest(m)
      BY <1>1, PairOf DEF BuildMemory
    <2>4. m.output = t /\ m.included = Size(t) /\ m.schema = "current" /\ AllValid(t.rows)
      BY <1>1, <2>3 DEF Finalized, Agrees, ReusablePair
    <2>5. Booked(m) /\ DuplicatesBooked(m, t.rows) /\ Derived(t.rows, m.source.features)
      BY <1>3, <2>3 DEF Sound, ReusablePair
    <2>6. t.schema = "list"
      BY <1>3, <2>3 DEF Sound, ReusablePair, IsTable
    <2> HIDE DEF t, m, K
    <2> QED BY <2>1, <2>2, <2>3, <2>4, <2>5, <2>6, StagedPair DEF t, m
  <1> DEFINE files == [a \in Shrunk |-> StagedEntry(a)]
  <1>5. \A a \in Shrunk : files[a] = StagedEntry(a)
    OBVIOUS
  <1>6. DOMAIN files = Shrunk /\ files = [a \in Shrunk |-> files[a]]
    OBVIOUS
  <1> HIDE DEF files
  <1>7. /\ dedup'.inputs = parquet /\ dedup'.files = files
        /\ dedup' = [inputs |-> parquet, files |-> files, left |-> Shrunk \X {"parquet", "manifest"}]
    BY <1>1 DEF files
  <1>8. \A a \in Shrunk :
            /\ files[a] = [parquet |-> files[a].parquet, manifest |-> files[a].manifest]
            /\ IsTable(files[a].parquet) /\ IsManifest(files[a].manifest)
            /\ files[a].manifest.source = manifest[a].source
            /\ PassSound(parquet[a], files[a])
    BY <1>2, <1>4, <1>5
  <1>9. IsPass(dedup')
    <2>1. files \in [DOMAIN files -> [parquet : {files[a].parquet : a \in DOMAIN files},
                                     manifest : {files[a].manifest : a \in DOMAIN files}]]
      BY <1>6, <1>8
    <2>2. \A a \in Shrunk : IsTable(parquet[a])
      BY <1>2, PairOf
    <2>3. Shrunk \X {"parquet", "manifest"} \in SUBSET (Artifacts \X {"parquet", "manifest"})
      BY <1>2
    <2>4. dedup' \in [inputs : {parquet}, files : {files},
                     left : SUBSET (Artifacts \X {"parquet", "manifest"})]
      BY <1>7, <2>3
    <2> QED BY <1>2, <1>6, <1>7, <1>8, <2>1, <2>2, <2>4 DEF IsPass
  <1>10. DiskTypes'
    BY <1>1, <1>9 DEF Files, DiskTypes
  <1>11. Disk'
    <2>1. \A a \in Artifacts : \A staged \in BOOLEAN : Sound(raw[a], parquet[a], manifest[a], staged)
      BY <1>3, SoundWhenStaged
    <2>2. \A a \in Artifacts : Staged(a)' \in BOOLEAN
      BY DEF Staged
    <2>3. \A a \in Artifacts : Sound(raw[a], parquet[a], manifest[a], Staged(a))'
      BY <1>1, <2>1, <2>2
    <2>4. \A a \in DOMAIN dedup'.files : PassSound(dedup.inputs[a], dedup.files[a])'
      BY <1>6, <1>7, <1>8
    <2> QED BY <2>3, <2>4 DEF Disk
  <1>12. Stamps'
    BY <1>1, <1>2, <1>6, <1>7, <1>8 DEF Files, Stamps
  <1> QED BY <1>1, <1>6, <1>7, <1>10, <1>11, <1>12 DEF Files

\* Every step keeps the files sound.
LEMMA FilesNext ==
    ASSUME Files, MemoryTypes, Memory, [Next]_vars
    PROVE  Files'
  <1>1. CASE UNCHANGED <<raw, parquet, manifest, dedup, changes>>
    BY <1>1, NothingWritten
  <1>2. CASE SchemaStep
    <2> SUFFICES ASSUME NEW a \in Artifacts,
                        SchemaParquet(a) \/ SchemaRefused(a) \/ SchemaManifest(a)
                 PROVE  Files'
      BY <1>2 DEF SchemaStep
    <2>1. SchemaRefused(a) => UNCHANGED <<raw, parquet, manifest, dedup, changes>>
      BY DEF SchemaRefused, disk, bounds
    <2> QED BY <1>1, <2>1, SchemaParquetKeeps, SchemaManifestKeeps
  <1>3. CASE TextStep
    <2> SUFFICES ASSUME NEW a \in Artifacts,
                        RepairParquet(a) \/ RepairManifest(a) \/ Heal(a) \/ HealRefused(a)
                 PROVE  Files'
      BY <1>3 DEF TextStep
    <2>1. HealRefused(a) => UNCHANGED <<raw, parquet, manifest, dedup, changes>>
      BY DEF HealRefused, disk, bounds
    <2> QED BY <1>1, <2>1, RepairParquetKeeps, RepairManifestKeeps, HealKeeps DEF Memory
  <1>4. ASSUME NEW a \in Artifacts,
               \/ Reuse(a) \/ BuildParquet(a) \/ BuildManifest(a)
               \/ PromoteParquet(a) \/ PromoteManifest(a) \/ PromotionFails(a)
        PROVE  Files'
    <2>1. Reuse(a) \/ PromotionFails(a) => UNCHANGED <<raw, parquet, manifest, dedup, changes>>
      BY DEF Reuse, PromotionFails, disk, bounds
    <2> QED BY <1>1, <1>4, <2>1, BuildParquetKeeps, BuildManifestKeeps, PromoteParquetKeeps,
               PromoteManifestKeeps DEF Memory
  <1>5. CASE StageDuplicates
    <2>1. CASE Shrunk # {}
      BY <1>5, <2>1, StageKeeps DEF Memory
    <2>2. CASE Shrunk = {}
      <3>1. UNCHANGED <<raw, parquet, manifest, dedup, changes>>
        BY <1>5, <2>2 DEF StageDuplicates, bounds
      <3> QED BY <3>1, <1>1
    <2> QED BY <2>1, <2>2
  <1>6. CASE CompletePass
    BY <1>6, CompletePassKeeps DEF Memory
  <1>7. CASE DeduplicationRefused \/ ResumeStaged \/ EndMigration \/ Kill
               \/ StartSchema \/ StartText \/ StartBuild \/ UNCHANGED vars
    <2>1. UNCHANGED <<raw, parquet, manifest, dedup, changes>>
      BY <1>7 DEF DeduplicationRefused, ResumeStaged, EndMigration, Kill, StartSchema,
                  StartText, StartBuild, Begin, vars, disk, bounds
    <2> QED BY <2>1, <1>1
  <1>8. ASSUME NEW a \in Artifacts, ChangeExtract(a) PROVE Files'
    BY <1>8, ChangeKeeps
  <1> QED
    BY <1>2, <1>3, <1>4, <1>5, <1>6, <1>7, <1>8 DEF Next, CommandStep, BuildStep

-----------------------------------------------------------------------------
(* Steps: the memory of the commands *)

LEMMA MemoryTypesNext ==
    ASSUME Files, MemoryTypes, [Next]_vars
    PROVE  MemoryTypes'
  <1>1. ASSUME NEW success \in BOOLEAN, Finish(success), UNCHANGED changes,
               kills' \in 0..MaxKills
        PROVE  MemoryTypes'
    BY <1>1 DEF MemoryTypes, Finish, NoWork
  <1>2. ASSUME UNCHANGED bounds, cmd' \in {"idle", "schema", "text", "build", "promote"},
               pool' \in BOOLEAN, failed' \in BOOLEAN, repaired' \in BOOLEAN,
               todo' \subseteq Artifacts,
               \/ UNCHANGED work
               \/ \E a \in Artifacts : \E w \in Int \cup {Nothing} : work' = [work EXCEPT ![a] = w]
        PROVE  MemoryTypes'
    BY <1>2 DEF MemoryTypes, bounds
  <1>3. CASE SchemaStep
    <2> SUFFICES ASSUME NEW a \in Artifacts,
                        SchemaParquet(a) \/ SchemaRefused(a) \/ SchemaManifest(a)
                 PROVE  MemoryTypes'
      BY <1>3 DEF SchemaStep
    <2>1. CASE SchemaParquet(a)
      <3>1. work' = [work EXCEPT ![a] = 0] /\ 0 \in Int \cup {Nothing}
        BY <2>1 DEF SchemaParquet
      <3> QED BY <1>2, <2>1, <3>1 DEF SchemaParquet, MemoryTypes
    <2>2. CASE SchemaRefused(a)
      BY <1>2, <2>2 DEF SchemaRefused, Raise, MemoryTypes
    <2>3. CASE SchemaManifest(a)
      <3>1. work' = [work EXCEPT ![a] = Nothing] /\ Nothing \in Int \cup {Nothing}
        BY <2>3 DEF SchemaManifest
      <3> QED BY <1>2, <2>3, <3>1 DEF SchemaManifest, Visited, MemoryTypes
    <2> QED BY <2>1, <2>2, <2>3
  <1>4. CASE TextStep
    <2> SUFFICES ASSUME NEW a \in Artifacts,
                        RepairParquet(a) \/ RepairManifest(a) \/ Heal(a) \/ HealRefused(a)
                 PROVE  MemoryTypes'
      BY <1>4 DEF TextStep
    <2>1. CASE RepairParquet(a)
      <3>1. Cardinality(DOMAIN parquet[a].rows \ DOMAIN RepairedRows(parquet[a].rows)) \in Int
        <4>1. IsTable(parquet[a])
          BY PairOf
        <4>2. Cardinality(DOMAIN parquet[a].rows \ DOMAIN RepairedRows(parquet[a].rows)) \in Nat
          BY <4>1, RepairedTable
        <4> QED BY <4>2
      <3> QED BY <1>2, <2>1, <3>1 DEF RepairParquet, MemoryTypes
    <2>2. CASE RepairManifest(a) \/ Heal(a) \/ HealRefused(a)
      BY <1>2, <2>2 DEF RepairManifest, Heal, HealRefused, Raise, Visited, MemoryTypes
    <2> QED BY <2>1, <2>2
  <1>5. ASSUME NEW a \in Artifacts,
               \/ Reuse(a) \/ BuildParquet(a) \/ BuildManifest(a)
               \/ PromoteParquet(a) \/ PromoteManifest(a)
        PROVE  MemoryTypes'
    <2>1. CASE Reuse(a)
      BY <1>2, <2>1 DEF Reuse, Visited, MemoryTypes
    <2>2. CASE BuildParquet(a) \/ PromoteParquet(a)
      <3>1. work' = [work EXCEPT ![a] = 0] /\ 0 \in Int \cup {Nothing}
        BY <2>2 DEF BuildParquet, PromoteParquet
      <3> QED BY <1>2, <2>2, <3>1 DEF BuildParquet, PromoteParquet, MemoryTypes
    <2>3. CASE BuildManifest(a) \/ PromoteManifest(a)
      <3>1. work' = [work EXCEPT ![a] = Nothing] /\ Nothing \in Int \cup {Nothing}
        BY <2>3 DEF BuildManifest, PromoteManifest
      <3> QED BY <1>2, <2>3, <3>1 DEF BuildManifest, PromoteManifest, Visited, MemoryTypes
    <2> QED BY <1>5, <2>1, <2>2, <2>3
  <1>6. ASSUME NEW a \in Artifacts, PromotionFails(a) PROVE MemoryTypes'
    BY <1>1, <1>6 DEF PromotionFails, bounds, MemoryTypes
  <1>7. CASE StageDuplicates
    <2>1. Shrunk \subseteq Artifacts
      BY DEF Shrunk
    <2> QED BY <1>1, <1>2, <1>7, <2>1 DEF StageDuplicates, bounds, MemoryTypes
  <1>8. CASE CompletePass \/ DeduplicationRefused
    BY <1>1, <1>8 DEF CompletePass, DeduplicationRefused, bounds, MemoryTypes
  <1>9. CASE ResumeStaged
    <2>1. DOMAIN dedup.files \subseteq Artifacts
      BY DEF Files, DiskTypes, IsPass
    <2> QED BY <1>1, <1>2, <1>9, <2>1 DEF ResumeStaged, bounds, MemoryTypes
  <1>10. CASE EndMigration
    <2>1. (IF cmd = "text" /\ ~failed THEN TRUE ELSE repaired) \in BOOLEAN
      BY DEF MemoryTypes
    <2> QED BY <1>1, <1>10, <2>1 DEF EndMigration, bounds, MemoryTypes
  <1>11. CASE Kill
    <2>1. kills' \in 0..MaxKills
      BY <1>11, MigrationBoundsAssumption DEF Kill, MemoryTypes
    <2> QED BY <1>1, <1>11, <2>1 DEF Kill, MemoryTypes
  <1>12. CASE StartSchema \/ StartText \/ StartBuild
    BY <1>2, <1>12 DEF StartSchema, StartText, StartBuild, Begin, MemoryTypes
  <1>13. CASE UNCHANGED vars
    BY <1>13 DEF vars, memory, bounds, MemoryTypes
  <1>14. ASSUME NEW a \in Artifacts, ChangeExtract(a) PROVE MemoryTypes'
    BY <1>14, MigrationBoundsAssumption DEF ChangeExtract, memory, MemoryTypes
  <1> QED
    BY <1>3, <1>4, <1>5, <1>6, <1>7, <1>8, <1>9, <1>10, <1>11, <1>12, <1>13, <1>14
       DEF Next, CommandStep, BuildStep

\* A plain run works on one artifact; nobody works when nothing is left.
LEMMA OneAtATime ==
    ASSUME MemoryTypes, Working
    PROVE  /\ todo = {} => \A a \in Artifacts : work[a] = Nothing
           /\ \A a, b \in Artifacts : ~pool /\ work[b] # Nothing /\ Turn(a) => a = b
           /\ \A a \in Artifacts : Turn(a) => a \in todo
           /\ \A a \in Artifacts : First(a) /\ ~pool => Turn(a)
  BY ArtifactsAssumption DEF Working, Turn, First, MemoryTypes

LEMMA WorkingNext ==
    ASSUME MemoryTypes, Working, SchemaMemory, [Next]_vars
    PROVE  Working'
  <1> USE DEF Working
  <1>1. ASSUME NEW success, Finish(success) PROVE Working'
    BY <1>1 DEF Finish, NoWork
  <1>2. ASSUME NEW command, Begin(command), command # "idle", pool' => command = "text"
        PROVE  Working'
    BY <1>2, OneAtATime DEF Begin, disk
  <1>3. ASSUME NEW a \in Artifacts, a \in todo, UNCHANGED <<cmd, pool>>, cmd # "idle", Turn(a),
               work' = [work EXCEPT ![a] = Nothing] \/ (UNCHANGED work /\ work[a] = Nothing),
               Visited(a)
        PROVE  Working'
    <2>1. work'[a] = Nothing /\ \A b \in Artifacts : b # a => work'[b] = work[b]
      BY <1>3 DEF MemoryTypes
    <2>2. ASSUME NEW b \in Artifacts, work'[b] # Nothing PROVE Turn(b)'
      <3>1. b # a /\ work[b] # Nothing
        BY <2>1, <2>2
      <3>2. pool /\ b \in todo
        BY <1>3, <3>1, OneAtATime DEF Turn, MemoryTypes
      <3> QED BY <1>3, <3>1, <3>2 DEF Turn, Visited
    <2> QED BY <1>3, <2>2
  <1>4. ASSUME NEW a \in Artifacts, UNCHANGED <<cmd, pool, todo>>, cmd # "idle", Turn(a),
               NEW w, work' = [work EXCEPT ![a] = w]
        PROVE  Working'
    <2>1. \A b \in Artifacts : b # a => work'[b] = work[b]
      BY <1>4 DEF MemoryTypes
    <2> QED BY <1>4, <2>1 DEF Turn, First
  <1>5. ASSUME NEW a \in Artifacts, UNCHANGED <<cmd, pool, work>>, cmd # "idle", Turn(a),
               work[a] = Nothing, Raise(a)
        PROVE  Working'
    <2>1. ASSUME NEW b \in Artifacts, work[b] # Nothing PROVE pool /\ b \in todo /\ b # a
      BY <1>5, <2>1, OneAtATime DEF Turn, MemoryTypes
    <2> QED BY <1>5, <2>1 DEF Turn, Raise
  <1>6. cmd # "text" => ~pool
    OBVIOUS
  <1>7. CASE SchemaStep
    <2> SUFFICES ASSUME NEW a \in Artifacts,
                        SchemaParquet(a) \/ SchemaRefused(a) \/ SchemaManifest(a)
                 PROVE  Working'
      BY <1>7 DEF SchemaStep
    <2>1. Turn(a) /\ a \in todo /\ cmd = "schema"
      BY <1>6, OneAtATime DEF SchemaParquet, SchemaRefused, SchemaManifest, First
    <2>2. CASE SchemaParquet(a)
      BY <1>4, <2>1, <2>2 DEF SchemaParquet
    <2>3. CASE SchemaRefused(a)
      <3>1. work[a] = Nothing
        BY <2>1, <2>3 DEF SchemaRefused, SchemaMemory
      <3> QED BY <1>5, <2>1, <2>3, <3>1 DEF SchemaRefused
    <2>4. CASE SchemaManifest(a)
      BY <1>3, <2>1, <2>4 DEF SchemaManifest
    <2> QED BY <2>2, <2>3, <2>4
  <1>8. CASE TextStep
    <2> SUFFICES ASSUME NEW a \in Artifacts,
                        RepairParquet(a) \/ RepairManifest(a) \/ Heal(a) \/ HealRefused(a)
                 PROVE  Working'
      BY <1>8 DEF TextStep
    <2>1. Turn(a) /\ a \in todo /\ cmd = "text"
      BY OneAtATime DEF RepairParquet, RepairManifest, Heal, HealRefused
    <2>2. CASE RepairParquet(a)
      BY <1>4, <2>1, <2>2 DEF RepairParquet
    <2>3. CASE RepairManifest(a)
      BY <1>3, <2>1, <2>3 DEF RepairManifest
    <2>4. CASE Heal(a)
      BY <1>3, <2>1, <2>4 DEF Heal
    <2>5. CASE HealRefused(a)
      BY <1>5, <2>1, <2>5 DEF HealRefused
    <2> QED BY <2>2, <2>3, <2>4, <2>5
  <1>9. ASSUME NEW a \in Artifacts,
               \/ Reuse(a) \/ BuildParquet(a) \/ BuildManifest(a)
               \/ PromoteParquet(a) \/ PromoteManifest(a)
        PROVE  Working'
    <2>1. Turn(a) /\ a \in todo /\ cmd # "idle"
      BY <1>6, <1>9, OneAtATime
         DEF Reuse, BuildParquet, BuildManifest, PromoteParquet, PromoteManifest, First
    <2>2. CASE Reuse(a)
      BY <1>3, <2>1, <2>2 DEF Reuse
    <2>3. CASE BuildParquet(a)
      BY <1>4, <2>1, <2>3 DEF BuildParquet
    <2>4. CASE BuildManifest(a)
      BY <1>3, <2>1, <2>4 DEF BuildManifest
    <2>5. CASE PromoteParquet(a)
      BY <1>4, <2>1, <2>5 DEF PromoteParquet
    <2>6. CASE PromoteManifest(a)
      BY <1>3, <2>1, <2>6 DEF PromoteManifest
    <2> QED BY <1>9, <2>2, <2>3, <2>4, <2>5, <2>6
  <1>10. CASE CompletePass \/ DeduplicationRefused \/ EndMigration \/ Kill
              \/ \E a \in Artifacts : PromotionFails(a)
    BY <1>1, <1>10 DEF CompletePass, DeduplicationRefused, EndMigration, Kill, PromotionFails
  <1>11. CASE StageDuplicates \/ ResumeStaged
    <2>1. todo = {} /\ cmd = "build"
      BY <1>11 DEF StageDuplicates, ResumeStaged
    <2>2. \A a \in Artifacts : work[a] = Nothing
      BY <2>1, OneAtATime
    <2>3. CASE UNCHANGED <<pool, work>> /\ cmd' = "promote"
      BY <2>1, <2>2, <2>3
    <2> QED BY <1>1, <1>11, <2>3 DEF StageDuplicates, ResumeStaged
  <1>12. CASE StartSchema \/ StartText \/ StartBuild
    <2>1. cmd = "idle" /\ ~pool
      BY <1>12 DEF StartSchema, StartText, StartBuild, Begin
    <2> QED BY <1>2, <1>12, <2>1 DEF StartSchema, StartText, StartBuild
  <1>13. CASE UNCHANGED vars \/ \E a \in Artifacts : ChangeExtract(a)
    <2>1. UNCHANGED <<cmd, memory>>
      BY <1>13 DEF vars, ChangeExtract
    <2> QED BY <2>1 DEF memory, Turn, First
  <1> QED
    BY <1>7, <1>8, <1>9, <1>10, <1>11, <1>12, <1>13 DEF Next, CommandStep, BuildStep

\* A step that ends a command, or that runs one, and which.
LEMMA Commands ==
    ASSUME [Next]_vars
    PROVE  /\ cmd' = "schema" =>
                StartSchema \/ SchemaStep \/ UNCHANGED vars
           /\ cmd' = "text" =>
                StartText \/ TextStep \/ UNCHANGED vars
           /\ cmd' = "build" =>
                \/ StartBuild \/ UNCHANGED vars
                \/ \E a \in Artifacts : Reuse(a) \/ BuildParquet(a) \/ BuildManifest(a)
           /\ cmd' = "promote" =>
                \/ StageDuplicates \/ ResumeStaged \/ UNCHANGED vars
                \/ \E a \in Artifacts : PromoteParquet(a) \/ PromoteManifest(a)
  <1>1. StartSchema => cmd' = "schema"
    BY DEF StartSchema, Begin
  <1>2. StartText => cmd' = "text"
    BY DEF StartText, Begin
  <1>3. StartBuild => cmd' = "build"
    BY DEF StartBuild, Begin
  <1>4. SchemaStep => cmd' = "schema"
    BY DEF SchemaStep, SchemaParquet, SchemaRefused, SchemaManifest
  <1>5. TextStep => cmd' = "text"
    BY DEF TextStep, RepairParquet, RepairManifest, Heal, HealRefused
  <1>6. \A a \in Artifacts : Reuse(a) \/ BuildParquet(a) \/ BuildManifest(a) => cmd' = "build"
    BY DEF Reuse, BuildParquet, BuildManifest
  <1>7. \A a \in Artifacts : PromoteParquet(a) \/ PromoteManifest(a) => cmd' = "promote"
    BY DEF PromoteParquet, PromoteManifest
  <1>8. StageDuplicates \/ ResumeStaged => cmd' \in {"idle", "promote"}
    BY DEF StageDuplicates, ResumeStaged, Finish
  <1>9. EndMigration \/ DeduplicationRefused \/ CompletePass \/ Kill
            \/ (\E a \in Artifacts : PromotionFails(a)) => cmd' = "idle"
    BY DEF EndMigration, DeduplicationRefused, CompletePass, Kill, PromotionFails, Finish
  <1>10. (\E a \in Artifacts : ChangeExtract(a)) => cmd' = "idle"
    BY DEF ChangeExtract
  <1> QED
    BY <1>1, <1>2, <1>3, <1>4, <1>5, <1>6, <1>7, <1>8, <1>9, <1>10
       DEF Next, CommandStep, BuildStep

LEMMA SchemaMemoryNext ==
    ASSUME Files, MemoryTypes, Working, SchemaMemory, [Next]_vars
    PROVE  SchemaMemory'
  <1> SUFFICES ASSUME cmd' = "schema" PROVE SchemaMemory'
    BY DEF SchemaMemory
  <1>1. CASE StartSchema
    <2>1. cmd = "idle" /\ UNCHANGED work
      BY <1>1 DEF StartSchema, Begin
    <2> QED BY <2>1, OneAtATime DEF Working, SchemaMemory
  <1>2. ASSUME NEW a \in Artifacts, SchemaParquet(a) PROVE SchemaMemory'
    <2>1. /\ parquet'[a].schema = "list"
          /\ \A b \in Artifacts : b # a => parquet'[b] = parquet[b] /\ work'[b] = work[b]
      BY <1>2 DEF SchemaParquet, Files, DiskTypes, MemoryTypes, IsTable
    <2> QED BY <1>2, <2>1 DEF SchemaMemory, SchemaParquet
  <1>3. ASSUME NEW a \in Artifacts, SchemaRefused(a) \/ SchemaManifest(a)
        PROVE  SchemaMemory'
    BY <1>3 DEF SchemaMemory, SchemaRefused, SchemaManifest, disk, MemoryTypes
  <1>4. CASE UNCHANGED vars
    BY <1>4 DEF SchemaMemory, vars, disk, memory
  <1> QED BY <1>1, <1>2, <1>3, <1>4, Commands DEF SchemaStep

LEMMA TextMemoryNext ==
    ASSUME Files, MemoryTypes, Working, TextMemory, [Next]_vars
    PROVE  TextMemory'
  <1> SUFFICES ASSUME cmd' = "text" PROVE TextMemory'
    BY DEF TextMemory
  <1>1. CASE StartText
    <2>1. cmd = "idle" /\ UNCHANGED work
      BY <1>1 DEF StartText, Begin
    <2>2. \A a \in Artifacts : work'[a] = Nothing
      BY <2>1, OneAtATime DEF Working
    <2>3. todo' = Artifacts
      BY <1>1 DEF StartText, Begin
    <2> QED BY <2>2, <2>3 DEF TextMemory
  <1>2. ASSUME NEW a \in Artifacts, RepairParquet(a) PROVE TextMemory'
    <2>1. /\ ~RequiresRepair(parquet'[a].rows)
          /\ work'[a] \in Int /\ manifest[a].included - work'[a] = Size(parquet'[a])
          /\ \A b \in Artifacts : b # a => parquet'[b] = parquet[b]
      BY <1>2, RepairParquetKeeps
    <2>2. \A b \in Artifacts : b # a => work'[b] = work[b]
      BY <1>2 DEF RepairParquet, MemoryTypes
    <2>3. cmd = "text" /\ a \in todo /\ UNCHANGED <<manifest, todo, failed>>
      BY <1>2, OneAtATime DEF RepairParquet
    <2> QED BY <2>1, <2>2, <2>3 DEF TextMemory, Settled, Agrees
  <1>3. ASSUME NEW a \in Artifacts, RepairManifest(a) PROVE TextMemory'
    <2>1. /\ manifest'[a].output = parquet[a] /\ manifest'[a].included = Size(parquet[a])
          /\ \A b \in Artifacts : b # a => manifest'[b] = manifest[b]
      BY <1>3, RepairManifestKeeps
    <2>2. /\ \A b \in Artifacts : b # a => work'[b] = work[b]
          /\ work'[a] = Nothing
      BY <1>3 DEF RepairManifest, MemoryTypes
    <2>3. cmd = "text" /\ UNCHANGED <<parquet, failed>> /\ todo' = todo \ {a}
          /\ ~RequiresRepair(parquet[a].rows)
      BY <1>3 DEF RepairManifest, Visited, TextMemory
    <2> QED BY <2>1, <2>2, <2>3 DEF TextMemory, Settled, Agrees
  <1>4. ASSUME NEW a \in Artifacts, Heal(a) PROVE TextMemory'
    <2>1. /\ manifest'[a].output = parquet[a] /\ manifest'[a].included = Size(parquet[a])
          /\ \A b \in Artifacts : b # a => manifest'[b] = manifest[b]
      BY <1>4, HealKeeps
    <2>2. cmd = "text" /\ UNCHANGED <<parquet, failed, work>> /\ todo' = todo \ {a}
          /\ ~RequiresRepair(parquet[a].rows) /\ work[a] = Nothing
      BY <1>4 DEF Heal, Visited
    <2> QED BY <2>1, <2>2 DEF TextMemory, Settled, Agrees
  <1>5. ASSUME NEW a \in Artifacts, HealRefused(a) PROVE TextMemory'
    BY <1>5 DEF TextMemory, HealRefused, Raise, disk
  <1>6. CASE UNCHANGED vars
    BY <1>6 DEF TextMemory, vars, disk, memory, Settled, Agrees
  <1> QED BY <1>1, <1>2, <1>3, <1>4, <1>5, <1>6, Commands DEF TextStep

LEMMA BuildMemoryNext ==
    ASSUME Files, MemoryTypes, Working, BuildMemory, [Next]_vars
    PROVE  BuildMemory'
  <1> SUFFICES ASSUME cmd' = "build" PROVE BuildMemory'
    BY DEF BuildMemory
  <1>1. CASE StartBuild
    <2>1. cmd = "idle" /\ UNCHANGED work /\ todo' = Artifacts
      BY <1>1 DEF StartBuild, Begin
    <2> QED BY <2>1, OneAtATime DEF Working, BuildMemory
  <1>2. ASSUME NEW a \in Artifacts, Reuse(a) PROVE BuildMemory'
    <2>1. ReusablePair(raw[a], parquet[a], manifest[a])
      BY <1>2 DEF Reuse, Reusable, ReusablePair, AllValid
    <2>2. cmd = "build" /\ todo' = todo \ {a} /\ UNCHANGED <<raw, parquet, manifest, work>>
      BY <1>2 DEF Reuse, Visited, disk
    <2> QED BY <2>1, <2>2 DEF BuildMemory
  <1>3. ASSUME NEW a \in Artifacts, BuildParquet(a) PROVE BuildMemory'
    <2>1. /\ parquet'[a] = [schema |-> "list", rows |-> BuiltRows(raw[a].features)]
          /\ \A b \in Artifacts : b # a => parquet'[b] = parquet[b]
      BY <1>3, BuildParquetKeeps
    <2>2. \A b \in Artifacts : b # a => work'[b] = work[b]
      BY <1>3 DEF BuildParquet, MemoryTypes
    <2>3. cmd = "build" /\ a \in todo /\ UNCHANGED <<raw, manifest, todo>>
      BY <1>3 DEF BuildParquet, First
    <2> QED BY <2>1, <2>2, <2>3 DEF BuildMemory
  <1>4. ASSUME NEW a \in Artifacts, BuildManifest(a) PROVE BuildMemory'
    <2>1. /\ ReusablePair(raw[a], parquet[a], manifest'[a])
          /\ \A b \in Artifacts : b # a => manifest'[b] = manifest[b]
      BY <1>4, BuildManifestKeeps
    <2>2. /\ \A b \in Artifacts : b # a => work'[b] = work[b]
          /\ work'[a] = Nothing
      BY <1>4 DEF BuildManifest, MemoryTypes
    <2>3. cmd = "build" /\ todo' = todo \ {a} /\ UNCHANGED <<raw, parquet>>
      BY <1>4 DEF BuildManifest, Visited
    <2> QED BY <2>1, <2>2, <2>3 DEF BuildMemory
  <1>5. CASE UNCHANGED vars
    BY <1>5 DEF BuildMemory, vars, disk, memory
  <1> QED BY <1>1, <1>2, <1>3, <1>4, <1>5, Commands

LEMMA PromoteMemoryNext ==
    ASSUME Files, MemoryTypes, Working, BuildMemory, PromoteMemory, [Next]_vars
    PROVE  PromoteMemory'
  <1> SUFFICES ASSUME cmd' = "promote" PROVE PromoteMemory'
    BY DEF PromoteMemory
  <1>1. CASE StageDuplicates
    <2>1. Shrunk # {} /\ todo = {} /\ UNCHANGED work
      BY <1>1 DEF StageDuplicates, Finish
    <2>2. /\ todo' = DOMAIN dedup'.files /\ dedup'.inputs = parquet
          /\ UNCHANGED <<parquet, manifest>>
      BY <1>1, <2>1, StageKeeps
    <2>3. \A a \in Artifacts : work'[a] = Nothing
      BY <2>1, OneAtATime
    <2>4. DOMAIN dedup'.files \subseteq Artifacts
      <3>1. dedup'.files = [a \in Shrunk |-> StagedEntry(a)]
        BY <1>1, <2>1 DEF StageDuplicates
      <3> QED BY <3>1 DEF Shrunk
    <2> QED BY <2>2, <2>3, <2>4 DEF PromoteMemory
  <1>2. CASE ResumeStaged
    <2>1. /\ Drifted = {} /\ todo = {} /\ todo' = DOMAIN dedup.files
          /\ UNCHANGED <<work, parquet, manifest, dedup>>
      BY <1>2 DEF ResumeStaged, Finish, disk
    <2>2. \A a \in Artifacts : work'[a] = Nothing
      BY <2>1, OneAtATime
    <2>3. DOMAIN dedup.files \subseteq Artifacts
      BY DEF Files, DiskTypes, IsPass
    <2>4. \A a \in DOMAIN dedup.files : parquet[a] \in {dedup.inputs[a], dedup.files[a].parquet}
      BY <2>1, <2>3 DEF Drifted
    <2> QED BY <2>1, <2>2, <2>3, <2>4 DEF PromoteMemory
  <1>3. ASSUME NEW a \in Artifacts, PromoteParquet(a) PROVE PromoteMemory'
    <2>1. cmd = "promote" /\ a \in todo /\ UNCHANGED <<manifest, todo>>
      BY <1>3 DEF PromoteParquet, First
    <2>2. /\ SamePass /\ parquet'[a] = dedup.files[a].parquet
          /\ \A b \in Artifacts : b # a => parquet'[b] = parquet[b]
      BY <1>3, PromoteParquetKeeps
    <2>3. \A b \in Artifacts : b # a => work'[b] = work[b]
      BY <1>3 DEF PromoteParquet, MemoryTypes
    <2>4. DOMAIN dedup.files \subseteq Artifacts
      BY DEF Files, DiskTypes, IsPass
    <2> QED BY <2>1, <2>2, <2>3, <2>4 DEF PromoteMemory, SamePass
  <1>4. ASSUME NEW a \in Artifacts, PromoteManifest(a) PROVE PromoteMemory'
    <2>1. /\ cmd = "promote" /\ a \in todo /\ todo' = todo \ {a} /\ UNCHANGED parquet
          /\ work[a] # Nothing
      BY <1>4 DEF PromoteManifest, First, Visited
    <2>2. /\ SamePass /\ manifest'[a] = dedup.files[a].manifest
          /\ \A b \in Artifacts : b # a => manifest'[b] = manifest[b]
      BY <1>4, PromoteManifestKeeps
    <2>3. work'[a] = Nothing /\ \A b \in Artifacts : b # a => work'[b] = work[b]
      BY <1>4 DEF PromoteManifest, MemoryTypes
    <2>4. DOMAIN dedup.files \subseteq Artifacts
      BY DEF Files, DiskTypes, IsPass
    <2> QED BY <2>1, <2>2, <2>3, <2>4 DEF PromoteMemory, SamePass
  <1>5. CASE UNCHANGED vars
    BY <1>5 DEF PromoteMemory, vars, disk, memory
  <1> QED BY <1>1, <1>2, <1>3, <1>4, <1>5, Commands

LEMMA RepairedNext ==
    ASSUME Files, MemoryTypes, Working, TextMemory, StaysRepaired, [Next]_vars
    PROVE  /\ StaysRepaired'
           /\ repaired /\ cmd = "text" => UNCHANGED <<parquet, manifest>>
  <1>1. ASSUME repaired' => repaired, UNCHANGED <<parquet, manifest>>,
               UNCHANGED work \/ work' = NoWork
        PROVE  StaysRepaired'
    BY <1>1 DEF StaysRepaired, Settled, Agrees
  <1>2. ASSUME repaired, NEW a \in Artifacts
        PROVE  /\ work[a] = Nothing /\ Settled(a)
               /\ work = [work EXCEPT ![a] = Nothing]
    BY <1>2 DEF StaysRepaired, NoWork
  <1>3. ASSUME repaired, NEW a \in Artifacts
        PROVE  /\ ~RepairParquet(a) /\ ~RepairManifest(a)
               /\ ~BuildManifest(a) /\ ~PromoteManifest(a)
               /\ Heal(a) => UNCHANGED <<parquet, manifest, work>>
    BY <1>2, <1>3 DEF RepairParquet, RepairManifest, BuildManifest, PromoteManifest, Heal, Settled
  <1>4. ASSUME ~repaired' PROVE StaysRepaired'
    BY <1>4 DEF StaysRepaired
  <1>5. CASE SchemaStep
    <2> SUFFICES ASSUME NEW a \in Artifacts,
                        SchemaParquet(a) \/ SchemaRefused(a) \/ SchemaManifest(a)
                 PROVE  StaysRepaired' /\ cmd # "text"
      BY <1>5 DEF SchemaStep
    <2>1. cmd # "text"
      BY DEF SchemaParquet, SchemaRefused, SchemaManifest
    <2>2. CASE SchemaParquet(a)
      BY <1>4, <2>2 DEF SchemaParquet
    <2>3. CASE SchemaRefused(a)
      BY <1>1, <2>3 DEF SchemaRefused, disk
    <2>4. CASE SchemaManifest(a)
      <3>1. CASE ~repaired'
        BY <1>4, <2>1, <3>1
      <3>2. CASE repaired'
        <4>1. UNCHANGED <<manifest, repaired, parquet>> /\ work' = [work EXCEPT ![a] = Nothing]
          BY <2>4, <3>2 DEF SchemaManifest
        <4>2. UNCHANGED work
          BY <1>2, <3>2, <4>1
        <4> QED BY <1>1, <2>1, <4>1, <4>2
      <3> QED BY <3>1, <3>2
    <2> QED BY <2>1, <2>2, <2>3, <2>4
  <1>6. CASE TextStep
    <2> SUFFICES ASSUME NEW a \in Artifacts,
                        RepairParquet(a) \/ RepairManifest(a) \/ Heal(a) \/ HealRefused(a)
                 PROVE  StaysRepaired' /\ (repaired => UNCHANGED <<parquet, manifest>>)
      BY <1>6 DEF TextStep
    <2>1. repaired' => repaired
      BY DEF RepairParquet, RepairManifest, Heal, HealRefused
    <2>2. ASSUME repaired PROVE UNCHANGED <<parquet, manifest, work>>
      BY <1>3, <2>2 DEF HealRefused, disk
    <2> QED BY <1>1, <1>4, <2>1, <2>2
  <1>7. ASSUME NEW a \in Artifacts,
               \/ Reuse(a) \/ BuildParquet(a) \/ BuildManifest(a)
               \/ PromoteParquet(a) \/ PromoteManifest(a)
        PROVE  StaysRepaired' /\ cmd # "text"
    <2>1. cmd # "text"
      BY <1>7 DEF Reuse, BuildParquet, BuildManifest, PromoteParquet, PromoteManifest
    <2>2. CASE Reuse(a)
      BY <1>1, <2>2 DEF Reuse, disk
    <2>3. CASE BuildParquet(a) \/ PromoteParquet(a)
      BY <1>4, <2>3 DEF BuildParquet, PromoteParquet
    <2>4. CASE BuildManifest(a) \/ PromoteManifest(a)
      <3>1. ~repaired /\ UNCHANGED repaired
        BY <1>3, <2>4 DEF BuildManifest, PromoteManifest
      <3> QED BY <1>4, <2>1, <3>1
    <2> QED BY <1>7, <2>1, <2>2, <2>3, <2>4
  <1>8. CASE EndMigration
    <2>1. /\ cmd \in {"schema", "text"} /\ todo = {} /\ work' = NoWork
          /\ repaired' = (IF cmd = "text" /\ ~failed THEN TRUE ELSE repaired)
          /\ UNCHANGED <<parquet, manifest>>
      BY <1>8 DEF EndMigration, Finish, disk
    <2>2. CASE cmd = "text" /\ ~failed
      <3>1. \A a \in Artifacts : Settled(a)
        BY <2>1, <2>2 DEF TextMemory
      <3> QED BY <2>1, <3>1 DEF StaysRepaired, Settled, Agrees
    <2>3. CASE ~(cmd = "text" /\ ~failed)
      BY <1>1, <2>1, <2>3
    <2> QED BY <2>1, <2>2, <2>3
  <1>9. CASE \/ CompletePass \/ DeduplicationRefused \/ Kill \/ ResumeStaged \/ StageDuplicates
             \/ \E a \in Artifacts : PromotionFails(a)
    <2>1. UNCHANGED <<parquet, manifest, repaired>> /\ (UNCHANGED work \/ work' = NoWork)
      BY <1>9 DEF CompletePass, DeduplicationRefused, Kill, ResumeStaged, StageDuplicates,
                  PromotionFails, Finish, disk
    <2> QED BY <1>1, <2>1
  <1>10. CASE StartSchema \/ StartText \/ StartBuild \/ UNCHANGED vars
              \/ \E a \in Artifacts : ChangeExtract(a)
    <2>1. UNCHANGED <<parquet, manifest, repaired, work>>
      BY <1>10 DEF StartSchema, StartText, StartBuild, Begin, vars, ChangeExtract, disk, memory
    <2> QED BY <1>1, <2>1
  <1> QED
    BY <1>5, <1>6, <1>7, <1>8, <1>9, <1>10 DEF Next, CommandStep, BuildStep

-----------------------------------------------------------------------------
(* Theorems *)

LEMMA InitMigrating == Init => Migrating
  <1> SUFFICES ASSUME Init PROVE Migrating
    OBVIOUS
  <1>1. /\ raw \in [Artifacts -> [features : FeatureTables, stamp : {0}]]
        /\ dedup = NoPass /\ cmd = "idle" /\ pool = FALSE /\ todo = {} /\ work = NoWork
        /\ failed = FALSE /\ repaired = FALSE /\ kills = 0 /\ changes = 0
    BY DEF Init
  <1>2. PICK schema \in [Artifacts -> {"map", "list"}], version \in {"old", "current"},
             blank \in BOOLEAN :
            /\ parquet = [a \in Artifacts |->
                    [schema |-> schema[a], rows |-> LegacyRows(raw[a].features, blank)]]
            /\ manifest = [a \in Artifacts |->
                    ManifestOf(raw[a], parquet[a], IF schema[a] = "map" THEN "old" ELSE version)]
    BY DEF Init
  <1>3. raw \in [Artifacts -> Extracts] /\ \A a \in Artifacts : raw[a].stamp = 0
    BY <1>1, MigrationBoundsAssumption DEF Extracts
  <1>4. ASSUME NEW a \in Artifacts
        PROVE  /\ IsTable(parquet[a]) /\ IsManifest(manifest[a])
               /\ manifest[a].source = raw[a]
               /\ Sound(raw[a], parquet[a], manifest[a], FALSE)
    <2> DEFINE s == schema[a]
               v == IF s = "map" THEN "old" ELSE version
    <2>1. s \in {"map", "list"} /\ v \in {"old", "current"} /\ (s = "map" => v = "old")
      OBVIOUS
    <2>2. /\ parquet[a] = [schema |-> s, rows |-> LegacyRows(raw[a].features, blank)]
          /\ manifest[a] = ManifestOf(raw[a], parquet[a], v)
      BY <1>2
    <2>3. raw[a] \in Extracts
      BY <1>3
    <2> HIDE DEF s, v
    <2> DEFINE t == [schema |-> s, rows |-> LegacyRows(raw[a].features, blank)]
               m == ManifestOf(raw[a], t, v)
    <2>4. IsTable(t) /\ IsManifest(m) /\ m.source = raw[a] /\ Sound(raw[a], t, m, FALSE)
      BY <2>1, <2>3, SoundLegacy
    <2> HIDE DEF t, m
    <2>5. parquet[a] = t /\ manifest[a] = m
      BY <2>2 DEF t, m
    <2> QED BY <2>4, <2>5
  <1>5. IsPass(NoPass) /\ DOMAIN NoPass.files = {}
    BY DEF IsPass, NoPass, NoWork
  <1>6. /\ parquet = [a \in Artifacts |-> parquet[a]]
        /\ manifest = [a \in Artifacts |-> manifest[a]]
    BY <1>2
  <1>7. DiskTypes
    BY <1>1, <1>3, <1>4, <1>5, <1>6 DEF DiskTypes
  <1>8. MemoryTypes
    <2>1. work \in [Artifacts -> Int \cup {Nothing}]
      BY <1>1 DEF NoWork
    <2>2. kills \in 0..MaxKills /\ changes \in 0..MaxChanges
      BY <1>1, MigrationBoundsAssumption
    <2> QED BY <1>1, <2>1, <2>2 DEF MemoryTypes
  <1>9. Disk
    <2>1. \A a \in Artifacts : Staged(a) = FALSE
      BY <1>1, <1>5 DEF Staged
    <2>2. \A a \in Artifacts : Sound(raw[a], parquet[a], manifest[a], Staged(a))
      BY <1>4, <2>1
    <2> QED BY <1>1, <1>5, <2>2 DEF Disk
  <1>10. Stamps
    <2>1. \A a \in Artifacts : raw[a].stamp = 0 /\ manifest[a].source.stamp = 0
      BY <1>3, <1>4
    <2>2. 0 <= 0
      OBVIOUS
    <2>3. DOMAIN dedup.files = {}
      BY <1>1, <1>5
    <2> QED BY <1>1, <2>1, <2>2, <2>3 DEF Stamps
  <1>11. Memory /\ StaysRepaired
    BY <1>1 DEF Memory, Working, SchemaMemory, TextMemory, BuildMemory, PromoteMemory,
                StaysRepaired, NoWork
  <1> QED BY <1>7, <1>8, <1>9, <1>10, <1>11, TypeParts DEF Migrating

LEMMA NextMigrating == Migrating /\ [Next]_vars => Migrating'
  <1> SUFFICES ASSUME Migrating, [Next]_vars PROVE Migrating'
    OBVIOUS
  <1>1. Files /\ MemoryTypes /\ Memory /\ StaysRepaired
    BY TypeParts DEF Migrating, Files
  <1>2. Files'
    BY <1>1, FilesNext
  <1>3. MemoryTypes'
    BY <1>1, MemoryTypesNext
  <1>4. Memory'
    BY <1>1, WorkingNext, SchemaMemoryNext, TextMemoryNext, BuildMemoryNext, PromoteMemoryNext
       DEF Memory
  <1>5. StaysRepaired'
    BY <1>1, RepairedNext DEF Memory
  <1>6. TypeOK'
    BY <1>2, <1>3, TypeParts DEF Files, TypeOK, DiskTypes, MemoryTypes, Extracts
  <1> QED BY <1>2, <1>4, <1>5, <1>6 DEF Files, Migrating

\* The inductive invariant, types included.
LEMMA AlwaysMigrating == Spec => []Migrating
  BY InitMigrating, NextMigrating, PTL DEF Spec

\* The files, the staged pass and the memory of a command have their types.
THEOREM MigrationTypes == Spec => []TypeOK
  <1>1. Migrating => TypeOK
    BY DEF Migrating
  <1> QED BY <1>1, AlwaysMigrating, PTL

\* A manifest that vouches for its Parquet counts each feature of its extract
\* once and under the right reason, however often commands were killed and
\* pairs healed (_repaired_manifest, _heal_interrupted_repair, RunCounts).
THEOREM CountsStayExact == Spec => []CountsAreExact
  <1>1. ASSUME Migrating PROVE CountsAreExact
    <2> SUFFICES ASSUME NEW a \in Artifacts,
                        manifest[a].output = parquet[a], manifest[a].source = raw[a],
                        ~Staged(a), manifest[a].included = Size(parquet[a])
                 PROVE  LET features == raw[a].features
                            missing == DOMAIN features \ DOMAIN parquet[a].rows
                            Missing(reason) ==
                                Cardinality({o \in missing : Outcome(features[o]) = reason})
                        IN  \A r \in Reasons :
                                manifest[a].rejected[r]
                                    = Missing(IF r = "duplicate" THEN "none" ELSE r)
      BY DEF CountsAreExact
    <2>1. /\ IsTable(parquet[a]) /\ IsManifest(manifest[a])
          /\ Sound(raw[a], parquet[a], manifest[a], Staged(a))
      BY <1>1, PairOf, TypeParts DEF Migrating, Files
    <2>2. /\ Booked(manifest[a]) /\ DuplicatesBooked(manifest[a], parquet[a].rows)
          /\ Derived(parquet[a].rows, manifest[a].source.features)
      BY <2>1 DEF Sound
    <2> QED BY <2>1, <2>2, ExactCounts
  <1> QED BY <1>1, AlwaysMigrating, PTL

\* What migrate-text left repaired is valid pair by pair, counts add up, and
\* the rows are those a build would write (text_migration.py:9-12).
THEOREM RepairedIsWhatABuildWrites == Spec => []RepairedIsRebuilt
  <1>1. ASSUME Migrating PROVE RepairedIsRebuilt
    <2> SUFFICES ASSUME repaired, NEW a \in Artifacts
                 PROVE  /\ ValidatesAlone(a)
                        /\ manifest[a].source = raw[a] =>
                            parquet[a].rows = Restrict(BuiltRows(raw[a].features),
                                                       DOMAIN parquet[a].rows)
      BY DEF RepairedIsRebuilt
    <2>1. /\ IsTable(parquet[a]) /\ IsManifest(manifest[a]) /\ raw[a] \in Extracts
          /\ Sound(raw[a], parquet[a], manifest[a], Staged(a))
      BY <1>1, PairOf, TypeParts DEF Migrating, Files
    <2>2. Agrees(a) /\ ~RequiresRepair(parquet[a].rows)
      BY <1>1 DEF Migrating, StaysRepaired, Settled
    <2>3. AllValid(parquet[a].rows)
      BY <2>1, <2>2, SettledIsValid
    <2>4. ValidatesAlone(a)
      BY <2>1, <2>2, <2>3 DEF ValidatesAlone, Finalized, AllValid, Sound, Booked
    <2>5. ASSUME manifest[a].source = raw[a]
          PROVE  parquet[a].rows = Restrict(BuiltRows(raw[a].features), DOMAIN parquet[a].rows)
      BY <2>1, <2>3, <2>5, ValidRowsAreBuilt DEF Sound, Extracts
    <2> QED BY <2>4, <2>5
  <1> QED BY <1>1, AlwaysMigrating, PTL

\* The text contract reads the same in Python, in DuckDB and in the GeoParquet
\* validation, and both ways to select the canonical rows agree, while rows of
\* any release lie side by side (canonical_rows_with_text_flag_sql).
THEOREM ViewsAlwaysAgree == Spec => []ViewsAgree
  <1>1. ASSUME Migrating PROVE ViewsAgree
    <2>1. \A a \in Artifacts : IsTable(parquet[a])
      BY <1>1 DEF Migrating, TypeOK
    <2>2. \A x \in Relation : x.at \in Artifacts /\ IsRow(x.row)
                                /\ x.row = parquet[x.at].rows[x.object]
                                /\ x = [at |-> x.at, object |-> x.object, row |-> x.row]
      <3> SUFFICES ASSUME NEW x \in Relation
                   PROVE  /\ x.at \in Artifacts /\ IsRow(x.row)
                          /\ x.row = parquet[x.at].rows[x.object]
                          /\ x = [at |-> x.at, object |-> x.object, row |-> x.row]
        OBVIOUS
      <3>1. PICK a \in Artifacts : \E o \in DOMAIN parquet[a].rows :
                x = [at |-> a, object |-> o, row |-> parquet[a].rows[o]]
        BY DEF Relation
      <3>2. PICK o \in DOMAIN parquet[a].rows :
                x = [at |-> a, object |-> o, row |-> parquet[a].rows[o]]
        BY <3>1
      <3>3. IsRow(parquet[a].rows[o])
        BY <2>1 DEF IsTable
      <3> QED BY <3>2, <3>3
    <2>3. \A x \in Relation :
            /\ Successful(x.row) <=> SqlSuccessful(x.row)
            /\ Successful(x.row) <=> ValidText(x.row)
      BY <2>2, ContractsAgree
    <2>4. IsRelation(Relation)
      <3>1. \A x \in Relation : x.at \in Nat /\ x.row.version \in Versions
        BY <2>2, ArtifactsAssumption DEF IsRow
      <3>2. ASSUME NEW x \in Relation, NEW y \in Relation, x.at = y.at, x.object = y.object
            PROVE  x = y
        BY <2>2, <3>2
      <3> QED BY <3>1, <3>2 DEF IsRelation
    <2> DEFINE good == {x \in Relation : Successful(x.row)}
               flagged == {v.entry : v \in {w \in OnePassView(Relation) : w.text}}
    <2>5. good = {x \in Relation : SqlSuccessful(x.row)}
      BY <2>3
    <2>6. IsRelation(good)
      BY <2>4 DEF IsRelation
    <2>7. flagged = FirstOf(good)
      BY <2>5, FlaggedIsFirst
    <2>8. CanonicalWithText(Relation) = FirstOf(good)
      BY <2>5 DEF CanonicalWithText
    <2> HIDE DEF good, flagged
    <2>9. FirstOf(good) = {Selected({y \in good : y.object = x.object}) : x \in good}
      BY <2>6, FirstIsSelected
    <2> QED BY <2>3, <2>7, <2>8, <2>9 DEF ViewsAgree, good, flagged
  <1> QED BY <1>1, AlwaysMigrating, PTL

\* After a migrate-text that succeeded, another one writes nothing
\* (docs/operations.md:106-107).
THEOREM SecondRepairWritesNothing == Spec => RepairIsIdempotent
  <1>1. ASSUME Migrating, [Next]_vars
        PROVE  [repaired /\ cmd = "text" => UNCHANGED <<parquet, manifest>>]_vars
    BY <1>1, RepairedNext, TypeParts DEF Migrating, Files, Memory
  <1> QED BY <1>1, AlwaysMigrating, PTL DEF Spec, RepairIsIdempotent

=============================================================================
