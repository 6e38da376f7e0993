-------------------------- MODULE MC_SyscallDissect --------------------------
(***************************************************************************)
(* Model of syscalldissect.c for TLC: process 1 has two tasks, which share *)
(* the sc_start key, process 2 one task.  Times are scaled so that the     *)
(* clamp (U32Max) lies below the staleness ceiling, as 0xFFFFFFFF ns lies  *)
(* below 30 s, and the clock can pass the ceiling.                         *)
(***************************************************************************)
EXTENDS SyscallDissect

CONSTANTS t1, t2, t3

MCThreads == {t1, t2, t3}
MCTgid == (t1 :> 1) @@ (t2 :> 1) @@ (t3 :> 2)

\* t1 and t2 are interchangeable tasks of the same process.
MCSymmetry == Permutations({t1, t2})

\* One syscall number, and -1, which sys_exit reports once a tracer has
\* cancelled the call; (__u32)-1 is a key of its own.  The word range is
\* cut to what TLC's integers hold.
MCNrs == {0, -1}
MCU32Wrap == 2^30
=============================================================================
