----------------------- MODULE ExactlyOnceAnnotation -----------------------
(***************************************************************************)
(* What the language worker promises of one shard, said without files,     *)
(* batches or kills: input rows are consumed in order, and each described  *)
(* row that is consumed is annotated in exactly one part, the one named    *)
(* after the first row consumed with it; nothing consumed is ever given    *)
(* back or annotated again.  LanguageWorker implements this module.        *)
(***************************************************************************)
EXTENDS Naturals

CONSTANTS
    Rows,       \* how many input rows the shard has
    Described   \* the rows that carry a description

VARIABLES
    consumed,   \* rows 0 .. consumed - 1 are done
    holders     \* per described row the parts that annotate it

Init ==
    /\ consumed = 0
    /\ holders = [r \in Described |-> {}]

Consume(upto) ==
    /\ consumed < upto
    /\ consumed' = upto
    /\ holders' = [r \in Described |->
                    IF consumed <= r /\ r < upto THEN {consumed} ELSE holders[r]]

Next == \E upto \in 0..Rows : Consume(upto)

Spec == Init /\ [][Next]_<<consumed, holders>>
=============================================================================
