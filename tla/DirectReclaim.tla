--------------------------- MODULE DirectReclaim ---------------------------
(***************************************************************************)
(* directreclaim.c: direct reclaim stall time per process.                 *)
(* mm_vmscan_direct_reclaim_begin stores the entry time in                 *)
(* reclaim_start[tgid]; mm_vmscan_direct_reclaim_end looks it up, computes *)
(* the duration, deletes the entry, drops durations above 30 s and adds    *)
(* the rest to reclaim_accum[tgid] (stall_ns, count).  The two tracepoints *)
(* of one reclaim always both fire (reclaim does not nest: PF_MEMALLOC),   *)
(* but threads of one process reclaim concurrently under one tgid key.     *)
(***************************************************************************)
EXTENDS Naturals, FiniteSets, Bags, BagsExt, TLC, HashMap

CONSTANTS
    Threads,      \* tasks that enter direct reclaim
    Tgid,         \* [Threads -> Nat]: the process of each task
    StartCap,     \* max_entries of reclaim_start
    AccumCap,     \* max_entries of reclaim_accum
    Ceiling,      \* 30000000000 ns
    MaxTime,      \* bound on the clock
    MaxReclaims   \* bound on the number of reclaims

ASSUME 0 \notin {Tgid[t] : t \in Threads}
ASSUME 0 < Ceiling /\ Ceiling < MaxTime

Pids == {Tgid[t] : t \in Threads}

VARIABLES
    clock,          \* bpf_ktime_get_ns()
    reclaim_start,  \* pairing map: tgid -> entry time
    reclaim_accum,  \* accumulation map: tgid -> [stall_ns, count]
    pc,             \* where each task is
    ent,            \* the reclaim_start value the end handler looked up
    stale,          \* that element was replaced or deleted since
    delta,          \* the duration the end handler computed
    nreclaims,      \* reclaims so far
    applied         \* ghost: tgid -> bag of merged durations

vars == <<clock, reclaim_start, reclaim_accum, pc, ent, stale, delta, nreclaims,
          applied>>

Goto(t, to) == pc' = [pc EXCEPT ![t] = to]

Return(t) == /\ Goto(t, "user")
             /\ delta' = [delta EXCEPT ![t] = 0]

Invalidate(k) == [u \in Threads |-> stale[u] \/ (pc[u] = "read" /\ Tgid[u] = k)]

TypeOK ==
    /\ clock \in 0..MaxTime
    /\ DOMAIN reclaim_start \subseteq Pids
    /\ DOMAIN reclaim_accum \subseteq Pids
    /\ \A p \in DOMAIN reclaim_accum :
          reclaim_accum[p] \in [stall_ns : Nat, count : Nat]
    /\ pc \in [Threads -> {"user", "reclaim", "read", "delete", "accum", "insert"}]
    /\ delta \in [Threads -> 0..MaxTime]

Init ==
    /\ clock = 0
    /\ reclaim_start = EmptyMap
    /\ reclaim_accum = EmptyMap
    /\ pc = [t \in Threads |-> "user"]
    /\ ent = [t \in Threads |-> 0]
    /\ stale = [t \in Threads |-> FALSE]
    /\ delta = [t \in Threads |-> 0]
    /\ nreclaims = 0
    /\ applied = [p \in Pids |-> EmptyBag]

-----------------------------------------------------------------------------
\* handle_reclaim_begin: reclaim_start[pid] = now, BPF_ANY.
ReclaimBegin(t) ==
    /\ pc[t] = "user"
    /\ nreclaims < MaxReclaims
    /\ reclaim_start' = UpdateAny(reclaim_start, Tgid[t], clock, StartCap)
    /\ stale' = Invalidate(Tgid[t])
    /\ nreclaims' = nreclaims + 1
    /\ Goto(t, "reclaim")
    /\ UNCHANGED <<clock, reclaim_accum, ent, delta, applied>>

(* handle_reclaim_end                                                      *)

\* tsp = bpf_map_lookup_elem(&reclaim_start, &pid); if (!tsp) return 0;
ReclaimEndNoStart(t) ==
    /\ pc[t] = "reclaim"
    /\ Tgid[t] \notin DOMAIN reclaim_start
    /\ Goto(t, "user")
    /\ UNCHANGED <<clock, reclaim_start, reclaim_accum, ent, stale, delta, nreclaims,
                   applied>>

ReclaimEndLookup(t) ==
    /\ pc[t] = "reclaim"
    /\ Tgid[t] \in DOMAIN reclaim_start
    /\ ent' = [ent EXCEPT ![t] = reclaim_start[Tgid[t]]]
    /\ stale' = [stale EXCEPT ![t] = FALSE]
    /\ Goto(t, "read")
    /\ UNCHANGED <<clock, reclaim_start, reclaim_accum, delta, nreclaims, applied>>

\* delta = bpf_ktime_get_ns() - *tsp; a stale pointer reads the old value
\* or a recycled element's.
ReadStart(t) ==
    /\ pc[t] = "read"
    /\ \E v \in IF stale[t] THEN {ent[t]} \cup Stored(reclaim_start) ELSE {ent[t]} :
          delta' = [delta EXCEPT ![t] = clock - v]
    /\ stale' = [stale EXCEPT ![t] = FALSE]
    /\ Goto(t, "delete")
    /\ UNCHANGED <<clock, reclaim_start, reclaim_accum, ent, nreclaims, applied>>

\* Mutant: the delete made only for durations under the ceiling.
DeleteStartAfterCheck(t) ==
    /\ pc[t] = "delete"
    /\ IF delta[t] > Ceiling
       THEN Return(t) /\ UNCHANGED <<reclaim_start, stale>>
       ELSE /\ reclaim_start' = DeleteElem(reclaim_start, Tgid[t])
            /\ stale' = Invalidate(Tgid[t])
            /\ Goto(t, "accum") /\ UNCHANGED delta
    /\ UNCHANGED <<clock, reclaim_accum, ent, nreclaims, applied>>

\* bpf_map_delete_elem(&reclaim_start, &pid); if (delta > 30s) return 0;
DeleteStart(t) ==
    /\ pc[t] = "delete"
    /\ reclaim_start' = DeleteElem(reclaim_start, Tgid[t])
    /\ stale' = Invalidate(Tgid[t])
    /\ IF delta[t] > Ceiling
       THEN Return(t)
       ELSE Goto(t, "accum") /\ UNCHANGED delta
    /\ UNCHANGED <<clock, reclaim_accum, ent, nreclaims, applied>>

\* val = lookup(&reclaim_accum, &pid); if (val) fetch-and-add stall_ns
\* and count.  Records are never deleted: the pointer stays valid.
AccumHit(t) ==
    /\ pc[t] = "accum"
    /\ Tgid[t] \in DOMAIN reclaim_accum
    /\ reclaim_accum' = [reclaim_accum EXCEPT ![Tgid[t]].stall_ns = @ + delta[t],
                                              ![Tgid[t]].count = @ + 1]
    /\ applied' = [applied EXCEPT ![Tgid[t]] = BagAdd(@, delta[t])]
    /\ Return(t)
    /\ UNCHANGED <<clock, reclaim_start, ent, stale, nreclaims>>

AccumMiss(t) ==
    /\ pc[t] = "accum"
    /\ Tgid[t] \notin DOMAIN reclaim_accum
    /\ Goto(t, "insert")
    /\ UNCHANGED <<clock, reclaim_start, reclaim_accum, ent, stale, delta, nreclaims,
                   applied>>

\* Mutant: the first record written with BPF_ANY.
InsertAccumAny(t) ==
    /\ pc[t] = "insert"
    /\ reclaim_accum' = UpdateAny(reclaim_accum, Tgid[t],
                                  [stall_ns |-> delta[t], count |-> 1], AccumCap)
    /\ applied' = IF UpdateSucceeds(reclaim_accum, Tgid[t], AccumCap)
                  THEN [applied EXCEPT ![Tgid[t]] = BagAdd(@, delta[t])] ELSE applied
    /\ Return(t)
    /\ UNCHANGED <<clock, reclaim_start, ent, stale, nreclaims>>

\* new_val = {delta, 1}, BPF_NOEXIST.
InsertAccum(t) ==
    /\ pc[t] = "insert"
    /\ reclaim_accum' = UpdateNoExist(reclaim_accum, Tgid[t],
                                      [stall_ns |-> delta[t], count |-> 1], AccumCap)
    /\ applied' = IF InsertSucceeds(reclaim_accum, Tgid[t], AccumCap)
                  THEN [applied EXCEPT ![Tgid[t]] = BagAdd(@, delta[t])] ELSE applied
    /\ Return(t)
    /\ UNCHANGED <<clock, reclaim_start, ent, stale, nreclaims>>

Tick ==
    /\ clock < MaxTime
    /\ clock' = clock + 1
    /\ UNCHANGED <<reclaim_start, reclaim_accum, pc, ent, stale, delta, nreclaims,
                   applied>>

Next ==
    \/ Tick
    \/ \E t \in Threads :
          \/ ReclaimBegin(t) \/ ReclaimEndNoStart(t) \/ ReclaimEndLookup(t)
          \/ ReadStart(t) \/ DeleteStart(t) \/ AccumHit(t) \/ AccumMiss(t)
          \/ InsertAccum(t)

Spec == Init /\ [][Next]_vars

-----------------------------------------------------------------------------
(* Properties                                                              *)

\* Every reclaim_accum record accounts exactly for the stalls merged into
\* it, with threads of the process racing on the first BPF_NOEXIST insert:
\* count is their number and stall_ns their sum; a merged stall is never
\* overwritten, and no process has a record without one.
ReclaimAccumReflectsSamples ==
    \A p \in Pids :
        IF p \in DOMAIN reclaim_accum
        THEN /\ reclaim_accum[p].count = BagCardinality(applied[p])
             /\ reclaim_accum[p].stall_ns = SumBag(applied[p])
        ELSE applied[p] = EmptyBag

\* Once no thread is reclaiming, reclaim_start is empty: every begin, stale
\* or not, is deleted by an end, whatever threads of a process interleave,
\* so the pairing map cannot fill up with leftovers.
NoLeakedReclaim ==
    (\A t \in Threads : pc[t] = "user") => reclaim_start = EmptyMap
=============================================================================
