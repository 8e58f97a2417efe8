------------------------- MODULE MCRotationReceipts -------------------------
(* An instance of RotationReceipts for TLC: two handlers, two pages.        *)
EXTENDS RotationReceipts, TLC

CONSTANTS t1, t2, page1, page2
MCThreads == {t1, t2}
MCRequests == {page1, page2}
Symmetry == Permutations(MCThreads) \cup Permutations(MCRequests)
=============================================================================
