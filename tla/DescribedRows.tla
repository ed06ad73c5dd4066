---------------------------- MODULE DescribedRows ----------------------------
(***************************************************************************)
(* What becomes of one OSM feature and of its description texts: the       *)
(* rejection reasons of a build, the canonical form of a stored row, the   *)
(* three implementations of the text contract (Python predicate, DuckDB    *)
(* predicate, GeoParquet validation) and the two ways the canonical rows   *)
(* of a relation are selected.  Pure operators, no state.                  *)
(*                                                                         *)
(* A text is one of five kinds: no value, no character, whitespace only,   *)
(* text with whitespace around it, text without.  Localized texts are a    *)
(* function of their keys.  A geometry is what the decoder and the area    *)
(* make of it.  Names and the remaining columns are carried through        *)
(* unchanged everywhere and left out.                                      *)
(***************************************************************************)
EXTENDS Integers, FiniteSets

Texts == {"null", "empty", "blank", "padded", "clean"}
Shapes == {"polygon", "not polygon", "undecodable", "invalid", "flat"}
Reasons == {"unsupported_osm_type", "invalid_osm_id", "no_nonempty_description",
            "invalid_geometry", "non_polygon_geometry", "nonpositive_area",
            "duplicate"}

-----------------------------------------------------------------------------
(* Texts *)

IsNonempty(t) == t \in {"padded", "clean"}
IsTrimmed(t) == t = "clean"

\* trimmed_nonempty_text: str.strip, or no value when nothing is left.
Trimmed(t) == IF IsNonempty(t) THEN "clean" ELSE "null"

\* _canonical_localized and _localized_items: blank entries are dropped.
TrimmedEntries(values) ==
    [k \in {l \in DOMAIN values : IsNonempty(values[l])} |-> Trimmed(values[k])]

CanonicalText(row) ==
    [row EXCEPT !.base = Trimmed(@), !.localized = TrimmedEntries(@)]

\* has_successful_description_text: no bad value, and at least one value.
Successful(row) ==
    /\ row.base = "null" \/ IsTrimmed(row.base)
    /\ \A k \in DOMAIN row.localized : IsTrimmed(row.localized[k])
    /\ row.base # "null" \/ DOMAIN row.localized # {}

\* DuckDB's trim with the code points str.strip removes.
SqlTrim(t) == CASE t = "blank" -> "empty" [] t = "padded" -> "clean" [] OTHER -> t
SqlText(t) == t # "null" /\ t # "empty" /\ t = SqlTrim(t)

\* successful_description_text_sql; a comparison with NULL is not true.
SqlSuccessful(row) ==
    /\ \/ SqlText(row.base)
       \/ \E k \in DOMAIN row.localized : SqlText(row.localized[k])
    /\ row.base = "null" \/ SqlText(row.base)
    /\ ~\E k \in DOMAIN row.localized : ~SqlText(row.localized[k])

\* _validate_description_values of a strict validation raises nothing.
ValidText(row) ==
    /\ row.base # "null" => IsNonempty(row.base) /\ IsTrimmed(row.base)
    /\ \A k \in DOMAIN row.localized :
        IsNonempty(row.localized[k]) /\ IsTrimmed(row.localized[k])
    /\ Successful(row)

-----------------------------------------------------------------------------
(* Features *)

HasText(f) ==
    IsNonempty(f.base) \/ \E k \in DOMAIN f.localized : IsNonempty(f.localized[k])

IdentityReason(f) ==
    CASE f.kind \notin {"way", "relation"} -> "unsupported_osm_type"
      [] f.kind \in {"way", "relation"} /\ f.id <= 0 -> "invalid_osm_id"
      [] OTHER -> "none"

\* early_rejection_reason: what the hot path decides without a geometry.
EarlyReason(f) ==
    IF IdentityReason(f) # "none" THEN IdentityReason(f)
    ELSE IF HasText(f) THEN "none" ELSE "no_nonempty_description"

\* _decode_polygon, then _validate_positive_area.
GeometryReason(f) ==
    CASE f.shape \in {"undecodable", "invalid"} -> "invalid_geometry"
      [] f.shape = "not polygon" -> "non_polygon_geometry"
      [] f.shape = "flat" -> "nonpositive_area"
      [] OTHER -> "none"

\* transform_record, which repeats the early decisions on trimmed values.
TransformReason(f) ==
    IF IdentityReason(f) # "none" THEN IdentityReason(f)
    ELSE IF Trimmed(f.base) = "null" /\ DOMAIN TrimmedEntries(f.localized) = {}
         THEN "no_nonempty_description"
         ELSE GeometryReason(f)

\* _transform_one: why a feature gives no row, or "none".
Outcome(f) == IF EarlyReason(f) # "none" THEN EarlyReason(f) ELSE TransformReason(f)

Stored(f) == [base |-> f.base, localized |-> f.localized, version |-> f.version]

\* descriptions_from_tags as part of _record_payload.
RowOf(f) == CanonicalText(Stored(f))

Rejected(features, reason) ==
    Cardinality({o \in DOMAIN features : Outcome(features[o]) = reason})

BuiltRows(features) ==
    [o \in {x \in DOMAIN features : Outcome(features[x]) = "none"} |->
        RowOf(features[o])]

-----------------------------------------------------------------------------
(* Canonical rows of a relation: entries [at, object, row], at most one per *)
(* file and object; a version of 0 is a missing one, which ranks last.      *)

Ahead(x, y) ==
    \/ x.row.version > y.row.version
    \/ x.row.version = y.row.version /\ x.at < y.at

FirstOf(relation) ==
    {x \in relation :
        \A y \in relation : y.object = x.object /\ y # x => Ahead(x, y)}

\* canonical_rows_sql, with the text filter before the ranking.
CanonicalWithText(relation) == FirstOf({x \in relation : SqlSuccessful(x.row)})

\* Mutant: text is asked of the plain winner alone.
OnePassView_AfterRank(relation) ==
    {[entry |-> x, text |-> SqlSuccessful(x.row)] : x \in FirstOf(relation)}

\* canonical_rows_with_text_flag_sql: both rankings in one pass, the second
\* partitioned by the text predicate too.
OnePassView(relation) ==
    LET good == {x \in relation : SqlSuccessful(x.row)}
        ranked == FirstOf(relation)
        textRanked == FirstOf(good) \cup FirstOf(relation \ good)
    IN  {[entry |-> x, text |-> x \in good /\ x \in textRanked] :
            x \in ranked \cup (good \cap textRanked)}

\* select_canonical_row of one object's rows.
Selected(candidates) == CHOOSE x \in candidates : \A y \in candidates \ {x} : Ahead(x, y)
=============================================================================
