---------------------------- MODULE MC_TcpConnLat ----------------------------
EXTENDS TcpConnLat

CONSTANTS c1, c2, x1, x2

MCCPUs == {c1, c2}
MCAddrs == {x1, x2}

\* CPUs are interchangeable, and so are socket addresses.
MCSymmetry ==
    {[y \in MCCPUs \cup MCAddrs |-> IF y \in MCCPUs THEN s[y] ELSE t[y]] :
        s \in Permutations(MCCPUs), t \in Permutations(MCAddrs)}
=============================================================================
