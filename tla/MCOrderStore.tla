---------------------------- MODULE MCOrderStore ----------------------------
\* Instances of OrderStore for TLC.
EXTENDS OrderStore, TLC

\* Revisions of different lengths: a refresh may overtake more than one version.
MCSize == [t \in Times |-> IF t = 2 THEN 2 ELSE 1]

Symmetry == Permutations(Drains)
=============================================================================
