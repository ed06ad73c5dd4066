--------------------------- MODULE RegionalTables ---------------------------
(***************************************************************************)
(* What the local half of run-and-publish promises, said without files,    *)
(* stages or crashes: there is one table per regional extract, a table may *)
(* be built again from its extract at any time, rows enter a table in no   *)
(* other way, a row may leave a table only as a duplicate of a better row  *)
(* that stays in another one, and the tables are announced to the          *)
(* publisher only when no object is in two of them.  LocalDataset          *)
(* implements this module.                                                 *)
(***************************************************************************)
EXTENDS Naturals

CONSTANTS
    Sources,    \* extracts; the order of the numbers is the order of names
    Objects,    \* OSM objects, one per (osm_type, osm_id)
    Ranks,      \* (version, timestamp) of a row, missing values lowest
    NoFile      \* a table that is not there

VARIABLES
    extracts,   \* per extract the rows it holds now, or NoFile
    tables,     \* per extract its rows, or NoFile
    announced   \* the tables stand ready for publication

Rows == UNION {[D -> Ranks] : D \in SUBSET Objects}

Has(s, o) == tables[s] # NoFile /\ o \in DOMAIN tables[s]

\* The row of s wins over the row of t: higher rank, then smaller name.
Beats(s, t, o) ==
    \/ tables[s][o] > tables[t][o]
    \/ tables[s][o] = tables[t][o] /\ s < t

Unique ==
    \A s, t \in Sources, o \in Objects : Has(s, o) /\ Has(t, o) => s = t

Init ==
    /\ extracts \in [Sources -> Rows \cup {NoFile}]
    /\ tables = [s \in Sources |-> NoFile]
    /\ announced = FALSE

\* The world replaces, adds or removes an extract.
Replace(s) ==
    /\ \E rows \in Rows \cup {NoFile} : extracts' = [extracts EXCEPT ![s] = rows]
    /\ UNCHANGED <<tables, announced>>

Rebuild(s) ==
    /\ extracts[s] # NoFile
    /\ tables' = [tables EXCEPT ![s] = extracts[s]]
    /\ announced' = FALSE
    /\ UNCHANGED extracts

DropDuplicates(s) ==
    /\ tables[s] # NoFile
    /\ \E kept \in SUBSET DOMAIN tables[s] :
        /\ \A o \in DOMAIN tables[s] \ kept :
            \E t \in Sources : Has(t, o) /\ Beats(t, s, o)
        /\ tables' = [tables EXCEPT ![s] = [o \in kept |-> tables[s][o]]]
    /\ announced' = FALSE
    /\ UNCHANGED extracts

Announce ==
    /\ Unique
    /\ announced' = TRUE
    /\ UNCHANGED <<extracts, tables>>

Withdraw ==
    /\ announced' = FALSE
    /\ UNCHANGED <<extracts, tables>>

Next ==
    \/ \E s \in Sources : Replace(s) \/ Rebuild(s) \/ DropDuplicates(s)
    \/ Announce
    \/ Withdraw

Spec == Init /\ [][Next]_<<extracts, tables, announced>>
=============================================================================
