---------------------------- MODULE MCInboxDrain ----------------------------
\* Instances of InboxDrain for TLC.
EXTENDS InboxDrain, TLC

Symmetry == Permutations(Workers) \cup Permutations(Messages)
=============================================================================
