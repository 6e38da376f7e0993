----------------------------- MODULE MC_MemStall -----------------------------
EXTENDS MemStall, TLC

CONSTANTS a, b, d

MCThreads == {a, b, d}

\* a and b are threads of one process, d is a process of its own.
MCTgid == (a :> 1) @@ (b :> 1) @@ (d :> 2)

MCSymmetry == Permutations({a, b})
=============================================================================
