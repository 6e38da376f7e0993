----------------------------- MODULE MC_LockWait -----------------------------
EXTENDS LockWait

CONSTANTS a, b

MCThreads == {a, b}

\* Two single-threaded processes.
SingleTgid == (a :> 1) @@ (b :> 2)

\* Two threads of one process.
MultiTgid == (a :> 1) @@ (b :> 1)

\* FUTEX_WAIT | FUTEX_PRIVATE_FLAG, FUTEX_WAKE | FUTEX_PRIVATE_FLAG,
\* FUTEX_LOCK_PI: the op words glibc's mutexes and condition variables pass.
MCOps == {128, 129, 6}

MCSymmetry == Permutations(MCThreads)
=============================================================================
