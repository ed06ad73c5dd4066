----------------------------- MODULE MCMigrations -----------------------------
(* Model values and bounds for the model checking of Migrations. *)
EXTENDS Migrations, TLC

CONSTANTS o1, o2, o3

Feature(base, localized, version) ==
    [kind |-> "way", id |-> 1, base |-> base, localized |-> localized,
     shape |-> "polygon", version |-> version]

\* Features whose text is padded, blank in part, or blank altogether.
Untidy ==
    (o1 :> Feature("padded", <<>>, 1))
    @@ (o2 :> Feature("blank", [en |-> "empty"], 2))
    @@ (o3 :> Feature("null", [en |-> "blank", de |-> "padded"], 1))

\* Clean features, and one of each kind that gives no row.
Mixed ==
    (o1 :> Feature("clean", <<>>, 2))
    @@ (o2 :> Feature("clean", [en |-> "clean"], 0))
    @@ (o3 :> [Feature("clean", <<>>, 1) EXCEPT !.shape = "flat"])

Blanks ==
    (o1 :> Feature("null", [en |-> "blank"], 3))
    @@ (o2 :> [Feature("clean", <<>>, 1) EXCEPT !.kind = "node"])
    @@ (o3 :> Feature("clean", [en |-> "blank"], 1))

MCFeatureTables == {Untidy, Mixed, Blanks}
=============================================================================
