------------------------------- MODULE Detection -------------------------------
(***************************************************************************)
(* What a description's text is labelled with: the gates before a model is *)
(* asked, Lingua's ranking with its tie and mixed-language refusals,       *)
(* GlotLID as a fallback for what Lingua leaves uncertain, the gate before *)
(* the sentence splitter, and the validation of the annotation row.        *)
(*                                                                         *)
(* A text is what these steps can tell apart: its letters, whether it is   *)
(* blank, and the answers of the two models and of the splitter, which are *)
(* external.  Scores are integers of One; GlotLID's softmax may exceed One *)
(* by Tolerance.                                                           *)
(***************************************************************************)
EXTENDS Integers, FiniteSets, FiniteSetsExt

CONSTANTS
    MinAlphabeticChars,     \* LanguagePolicy.min_alphabetic_chars
    TieEpsilon,             \* LanguagePolicy.tie_epsilon
    One,                    \* the score 1.0
    Tolerance,              \* SCORE_ROUNDING_TOLERANCE
    SplitterLanguages,      \* codes that sat_language_for maps
    Nothing                 \* None

ASSUME DetectionAssumption ==
    /\ MinAlphabeticChars \in Nat \ {0} /\ One \in Nat /\ Tolerance \in Nat
    /\ TieEpsilon \in 0..One
    /\ Nothing \notin Int

\* A text whose models answered with scores that are not refused.
IsText(t) ==
    /\ t.blank \in BOOLEAN /\ t.letters \in Nat /\ t.sentences \in Nat
    /\ Nothing \notin DOMAIN t.lingua /\ \A c \in DOMAIN t.lingua : t.lingua[c] \in 0..One
    /\ \A l \in t.glotlid : l.code # Nothing /\ l.score \in 0..(One + Tolerance)

Statuses == {"detected", "uncertain", "non_linguistic"}
SplitStatuses == {"split", "unsupported_language", "not_detected"}

NoLanguage(status, reason) ==
    [code |-> Nothing, top |-> Nothing, runnerUp |-> Nothing, margin |-> Nothing,
     status |-> status, reason |-> reason]

\* The result before a model is asked; "none": ask.
InitialReason(text) ==
    CASE text.blank -> "empty_or_whitespace"
      [] ~text.blank /\ text.letters = 0 -> "no_letters"
      [] ~text.blank /\ text.letters \in 1..(MinAlphabeticChars - 1) -> "too_short"
      [] OTHER -> "none"

InitialResult(text) ==
    NoLanguage(IF InitialReason(text) = "too_short" THEN "uncertain" ELSE "non_linguistic",
               InitialReason(text))

\* The first two of the ranked scores.  Which of two equals comes first does
\* not matter: their margin is a tie.
ScoreDetails(scores) ==
    LET first == CHOOSE c \in DOMAIN scores : \A d \in DOMAIN scores : scores[d] <= scores[c]
        others == {scores[d] : d \in DOMAIN scores \ {first}}
        second == IF others = {} THEN Nothing ELSE Max(others)
    IN  [code |-> first, top |-> scores[first], runnerUp |-> second,
         margin |-> IF second = Nothing THEN Nothing ELSE scores[first] - second]

\* Distinct languages of a text long enough to hold two.
HasMixedEvidence(text, codes) ==
    text.letters >= 2 * MinAlphabeticChars /\ Cardinality(codes) > 1

ScoreReason(text, margin, codes) ==
    CASE margin # Nothing /\ margin <= TieEpsilon -> "tie"
      [] ~(margin # Nothing /\ margin <= TieEpsilon) /\ HasMixedEvidence(text, codes) ->
            "mixed_text"
      [] OTHER -> "detected"

ScoreResult(text, scores, codes) ==
    IF DOMAIN scores = {} THEN NoLanguage("uncertain", "no_confidence_values")
    ELSE LET details == ScoreDetails(scores)
             reason == ScoreReason(text, details.margin, codes)
             good == reason = "detected"
         IN  [code |-> IF good THEN details.code ELSE Nothing,
             top |-> details.top, runnerUp |-> details.runnerUp, margin |-> details.margin,
             status |-> IF good THEN "detected" ELSE "uncertain", reason |-> reason]

\* LanguageDetector.__call__
Detector(text, scores, codes) ==
    IF InitialReason(text) # "none" THEN InitialResult(text)
    ELSE ScoreResult(text, scores, codes)

\* Mutant: a softmax that is rounded above 1.0 is kept.
Clamped_Kept(score) == score

Clamped(score) == IF score > One THEN One ELSE score

\* A code predicted in several scripts counts once, with its best score.
Merged(labels) ==
    [c \in {l.code : l \in labels} |->
        Max({Clamped(l.score) : l \in {k \in labels : k.code = c}})]

\* GlotLID answers for what Lingua leaves uncertain, and only if it is sure.
Cascade(text) ==
    LET primary == Detector(text, text.lingua, text.mixed)
        fallback == Detector(text, Merged(text.glotlid), {})
    IN  IF primary.status = "uncertain" /\ fallback.status = "detected"
        THEN [fallback EXCEPT !.reason = "fallback_glotlid_v3"]
        ELSE primary

SplitFor(text, result) ==
    CASE result.status # "detected" -> [status |-> "not_detected", sentences |-> 0]
      [] result.status = "detected" /\ result.code \notin SplitterLanguages ->
            [status |-> "unsupported_language", sentences |-> 0]
      [] OTHER -> [status |-> "split", sentences |-> text.sentences]

Annotation(text) ==
    [text |-> text, language |-> Cascade(text), split |-> SplitFor(text, Cascade(text))]

-----------------------------------------------------------------------------
(* What a part is refused for *)

InRange(score) == score = Nothing \/ score \in 0..One

\* LanguageResult.__post_init__
ResultIsConsistent(r) ==
    /\ r.status \in Statuses
    /\ InRange(r.top) /\ InRange(r.runnerUp) /\ InRange(r.margin)
    /\ IF r.status = "detected" THEN r.code # Nothing /\ r.top # Nothing
       ELSE r.code = Nothing
    /\ r.status = "non_linguistic" => {r.top, r.runnerUp, r.margin} = {Nothing}
    /\ r.runnerUp # Nothing => r.top # Nothing /\ r.runnerUp <= r.top
    /\ r.margin # Nothing =>
        r.top # Nothing /\ r.runnerUp # Nothing /\ r.margin = r.top - r.runnerUp

\* _validate_annotation_row
RowIsValid(a) ==
    /\ ResultIsConsistent(a.language)
    /\ a.split.status \in SplitStatuses
    /\ a.split.sentences > 0 => a.split.status = "split"
=============================================================================
