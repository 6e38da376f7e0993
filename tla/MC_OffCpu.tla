------------------------------ MODULE MC_OffCpu ------------------------------
EXTENDS OffCpu

CONSTANTS c1, c2, a, b, d

MCCPUs == {c1, c2}
MCTasks == {a, b, d}

\* a and b are threads of one process, d is a process of its own.
MultiTgid == (a :> 2) @@ (b :> 2) @@ (d :> 3)

\* CPUs are interchangeable; so are the threads a and b of one process.
ThreadSymmetry ==
    {[x \in MCCPUs \cup {a, b} |-> IF x \in MCCPUs THEN s[x] ELSE t[x]] :
        s \in Permutations(MCCPUs), t \in Permutations({a, b})}
=============================================================================
