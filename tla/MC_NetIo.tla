------------------------------ MODULE MC_NetIo ------------------------------
EXTENDS NetIo

CONSTANTS a, b

MCThreads == {a, b}

\* Two threads of one process.
MCTgid == (a :> 1) @@ (b :> 1)

\* Two connections to one host, dport 80 and 443 in network byte order.
MCEndpoints == {<<10, 20480>>, <<10, 47873>>}

\* a and b are threads of one process: interchangeable.
MCSymmetry == Permutations(MCThreads)
=============================================================================
