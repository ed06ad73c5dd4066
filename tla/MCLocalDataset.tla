--------------------------- MODULE MCLocalDataset ---------------------------
(* Model values and bounds for the model checking of LocalDataset. *)
EXTENDS LocalDataset

CONSTANTS o1, o2

\* Few extracts that still differ in every way that matters: empty, one
\* object in an old and in a new version, and both objects.
MCExtracts ==
    {[o \in {} |-> 1], [o \in {o1} |-> 1], [o \in {o1} |-> 2], [o \in {o2} |-> 2],
     [o \in {o1, o2} |-> 1]}

\* Every point but the one between the two halves of a build.
AllButManifest == Points \ {"manifest"}

\* Every point of a running process.
Anywhere == Points \ {"idle"}
=============================================================================
