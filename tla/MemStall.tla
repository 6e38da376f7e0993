------------------------------ MODULE MemStall ------------------------------
(***************************************************************************)
(* pgfault.c and directreclaim.c on the same tasks and the same clock.     *)
(* A task that faults runs handle_mm_fault between the kprobe and the      *)
(* kretprobe; the allocation it makes there can enter direct reclaim, so   *)
(* mm_vmscan_direct_reclaim_begin/end nest inside the fault.  A task can   *)
(* also reclaim from an allocation outside any fault (a syscall).  A task  *)
(* runs one thing at a time: its fault exit handler does not run while it  *)
(* is reclaiming, and it takes no fault while reclaiming.                  *)
(*                                                                         *)
(* The two programs have separate maps and share no state but the clock;   *)
(* what the composition adds is the interleaving of both with the threads *)
(* of the other processes, and the ordering of a nested reclaim inside a   *)
(* fault.                                                                  *)
(***************************************************************************)
EXTENDS Naturals

CONSTANTS
    Threads, Tgid,
    FaultStartCap, FaultAccumCap, FaultCeiling, MaxFaults,
    ReclaimStartCap, ReclaimAccumCap, ReclaimCeiling, MaxReclaims,
    MaxTime,
    MaxStalls   \* bound on faults and reclaims together

VARIABLES
    clock,
    pgfault_start, pgfault_accum, fpc, major, fent, fstale, fdelta, nfaults, missed,
    fapplied, majors,
    reclaim_start, reclaim_accum, rpc, rent, rstale, rdelta, nreclaims, rapplied

F == INSTANCE PgFault WITH
        pc <- fpc, ent <- fent, stale <- fstale, delta <- fdelta, applied <- fapplied,
        StartCap <- FaultStartCap, AccumCap <- FaultAccumCap, Ceiling <- FaultCeiling

R == INSTANCE DirectReclaim WITH
        pc <- rpc, ent <- rent, stale <- rstale, delta <- rdelta, applied <- rapplied,
        StartCap <- ReclaimStartCap, AccumCap <- ReclaimAccumCap, Ceiling <- ReclaimCeiling

fvars == <<pgfault_start, pgfault_accum, fpc, major, fent, fstale, fdelta, nfaults, missed,
           fapplied, majors>>

rvars == <<reclaim_start, reclaim_accum, rpc, rent, rstale, rdelta, nreclaims, rapplied>>

vars == <<clock, fvars, rvars>>

Init == F!Init /\ R!Init

\* The fault path of t runs while t is not reclaiming.
FaultStep(t) ==
    /\ rpc[t] = "user"
    /\ \/ nfaults + nreclaims < MaxStalls /\ F!FaultEnter(t)
       \/ F!FaultExitNoStart(t)
       \/ \E m \in BOOLEAN : F!FaultExitLookup(t, m)
       \/ F!ReadStart(t) \/ F!DeleteStart(t) \/ F!AccumHit(t) \/ F!AccumMiss(t)
       \/ F!InsertAccum(t) \/ F!MissReturn(t)
    /\ UNCHANGED rvars

\* Reclaim runs at user level or nested in handle_mm_fault, never inside
\* the fault's exit handler.
ReclaimStep(t) ==
    /\ fpc[t] \in {"user", "fault"}
    /\ \/ nfaults + nreclaims < MaxStalls /\ R!ReclaimBegin(t)
       \/ R!ReclaimEndNoStart(t) \/ R!ReclaimEndLookup(t)
       \/ R!ReadStart(t) \/ R!DeleteStart(t) \/ R!AccumHit(t) \/ R!AccumMiss(t)
       \/ R!InsertAccum(t)
    /\ UNCHANGED fvars

Tick == F!Tick /\ R!Tick

Next == Tick \/ \E t \in Threads : FaultStep(t) \/ ReclaimStep(t)

Spec == Init /\ [][Next]_vars

-----------------------------------------------------------------------------
(* Properties: those of the two programs, on the composed behaviours.      *)

TypeOK == F!TypeOK /\ R!TypeOK

\* See PgFault: pgfault_accum holds exactly the merged fault durations and
\* majors, with threads racing on the first insert.
FaultAccumReflectsSamples == F!FaultAccumReflectsSamples

\* See PgFault: once no thread is in a fault, pgfault_start holds no entry
\* but those of processes a missed kretprobe left behind.
NoLeakedFault == F!NoLeakedFault

\* See DirectReclaim: reclaim_accum holds exactly the merged stalls.
ReclaimAccumReflectsSamples == R!ReclaimAccumReflectsSamples

\* See DirectReclaim: once no thread reclaims, reclaim_start is empty, also
\* when reclaims nest in faults whose kretprobe is missed.
NoLeakedReclaim == R!NoLeakedReclaim
=============================================================================
