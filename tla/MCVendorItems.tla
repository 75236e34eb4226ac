--------------------------- MODULE MCVendorItems ---------------------------
\* Instances of VendorItems for TLC.
EXTENDS VendorItems, TLC

CONSTANTS c1, c2, n1, n2, custom

MCCategoryName == [c \in Categories |-> n2]
MCFilings == {<<>>, <<c1>>, <<c2, c1>>}
Symmetry == Permutations(Drains) \cup Permutations(ItemData)
=============================================================================
