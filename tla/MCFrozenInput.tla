---------------------------- MODULE MCFrozenInput ----------------------------
(* Texts, requests and bounds for the model checking of FrozenInput. *)
EXTENDS FrozenInput, TLC

CONSTANTS en, br

Label(code, script, score) == [code |-> code, script |-> script, score |-> score]

Text(letters, lingua, mixed, glotlid) ==
    [letters |-> letters, blank |-> FALSE, sentences |-> 2,
     lingua |-> lingua, mixed |-> mixed, glotlid |-> glotlid]

\* A text per gate: blank, without letters, too short; settled, tied and mixed
\* for Lingua; and for GlotLID settled, tied after rounding, or silent.
Blank == [Text(0, <<>>, {}, {}) EXCEPT !.blank = TRUE]
Digits == Text(0, en :> 3, {}, {})
Short == Text(1, en :> 3, {}, {Label(en, "Latn", 3)})
Plain == Text(2, (en :> 3) @@ (br :> 1), {en}, {Label(br, "Latn", 3)})
Alone == Text(2, br :> 2, {}, {})
Tied == Text(2, (en :> 2) @@ (br :> 2), {},
             {Label(br, "Latn", 4), Label(br, "Cyrl", 2), Label(en, "Latn", 2)})
ShortMix == Text(2, (en :> 3) @@ (br :> 2), {en, br}, {})
Mixed == Text(4, (en :> 3) @@ (br :> 2), {en, br}, {Label(en, "Latn", 3)})
MixedTie == Text(4, (en :> 3) @@ (br :> 2), {en, br}, {Label(en, "Latn", 4), Label(br, "Latn", 3)})
Unknowable == Text(3, <<>>, {}, {})

MCTextsOf(version, batch) ==
    IF version = 0
    THEN IF batch = 1 THEN {Blank, Short, Plain, Tied, Mixed} ELSE {Digits, MixedTie}
    ELSE IF batch = 1 THEN {Alone, ShortMix} ELSE {Unknowable, Tied}

\* Days of eight ticks, light from 3 to 6; 39 is the end of a Friday.
Usage(shape, total) == [shape |-> shape, total |-> total, jobs |-> 1]
Limits(used, soft, hard) == [used |-> used, soft |-> soft, hard |-> hard]
Line(home, parsed, blocks) ==
    [home |-> home, parsed |-> parsed, blocks |-> blocks, files |-> Limits(1, 0, 0)]

Quotas ==
    {{}, {Line(TRUE, FALSE, Limits(1, 2, 3))},
     {Line(TRUE, TRUE, Limits(2, 2, 3)), Line(TRUE, TRUE, Limits(9, 0, 0))},
     {Line(TRUE, TRUE, Limits(1, 2, 3)), Line(FALSE, TRUE, Limits(3, 2, 3))}}

MCRequests ==
    {[moment |-> m, captured |-> c, walltime |-> w, allowDaytime |-> d,
      jobs |-> j, usage |-> u, quota |-> q] :
        m \in {2, 4, 6, 39}, c \in {Absent, 0, 2, 4, 6, 38, 40}, w \in {0, 2, 3},
        d \in BOOLEAN, j \in {Absent, 0, 1},
        u \in {Absent, Usage("current", 0), Usage("legacy", 2)},
        q \in {Absent} \cup Quotas}
=============================================================================
