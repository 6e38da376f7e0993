---------------------------- MODULE MC_IoLatency ----------------------------
EXTENDS IoLatency

CONSTANTS c1, c2, k1, k2

\* Two sectors of one disk.
MCDevOf == [k \in {k1, k2} |-> 8]

\* A request at k1 may complete in two parts, the rest at sector k2.
MCPartialTo == (k1 :> k2)

MCSymmetry == Permutations({c1, c2})
=============================================================================
