------------------------------- MODULE MCList -------------------------------
(* Two lists and five nodes; the nodes are interchangeable.          *)
EXTENDS List, TLC

CONSTANTS n1, n2, n3, n4, n5, l1, l2

MCNodes == {n1, n2, n3, n4, n5}
MCLists == {l1, l2}
MCSymmetry == Permutations(MCNodes)

KernelHabits == {}
RemovesLast == {"remove last"}
Transfers == {"transfer"}
RemovesEnds == {"remove ends"}
=============================================================================
