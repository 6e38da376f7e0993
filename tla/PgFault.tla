------------------------------ MODULE PgFault -------------------------------
(***************************************************************************)
(* pgfault.c: page fault latency per process.  A kprobe on                 *)
(* handle_mm_fault stores the entry time in pgfault_start[tgid]; the       *)
(* kretprobe looks it up, computes the duration, deletes the entry, drops  *)
(* durations above 5 s, and adds the rest to pgfault_accum[tgid]           *)
(* (total_ns, count, and major_count when ret has VM_FAULT_MAJOR).         *)
(*                                                                         *)
(* Threads of one process fault concurrently and share the tgid key.  A    *)
(* kretprobe can be missed (all maxactive return instances in use), so a   *)
(* fault can end without the exit handler running.                         *)
(***************************************************************************)
EXTENDS Naturals, FiniteSets, Bags, BagsExt, TLC, HashMap

CONSTANTS
    Threads,    \* tasks that take page faults
    Tgid,       \* [Threads -> Nat]: the process of each task
    StartCap,   \* max_entries of pgfault_start
    AccumCap,   \* max_entries of pgfault_accum
    Ceiling,    \* 5000000000 ns
    MaxTime,    \* bound on the clock
    MaxFaults   \* bound on the number of faults

ASSUME 0 \notin {Tgid[t] : t \in Threads}
ASSUME 0 < Ceiling /\ Ceiling < MaxTime

Pids == {Tgid[t] : t \in Threads}

VARIABLES
    clock,          \* bpf_ktime_get_ns()
    pgfault_start,  \* pairing map: tgid -> entry time
    pgfault_accum,  \* accumulation map: tgid -> [total_ns, count, major_count]
    pc,             \* where each task is
    major,          \* ret & VM_FAULT_MAJOR of the fault being returned from
    ent,            \* the pgfault_start value the exit handler looked up
    stale,          \* that element was replaced or deleted since
    delta,          \* the duration the exit handler computed
    nfaults,        \* faults so far
    missed,         \* ghost: processes a kretprobe of which was missed
    applied,        \* ghost: tgid -> bag of merged durations
    majors          \* ghost: tgid -> number of merged major faults

vars == <<clock, pgfault_start, pgfault_accum, pc, major, ent, stale, delta,
          nfaults, missed, applied, majors>>

Goto(t, to) == pc' = [pc EXCEPT ![t] = to]

Return(t) == /\ Goto(t, "user")
             /\ delta' = [delta EXCEPT ![t] = 0]

Invalidate(k) == [u \in Threads |-> stale[u] \/ (pc[u] = "read" /\ Tgid[u] = k)]

\* struct pgfault_val { total_ns; count; major_count }
Val(total, cnt, maj) == [total_ns |-> total, count |-> cnt, major_count |-> maj]

TypeOK ==
    /\ clock \in 0..MaxTime
    /\ DOMAIN pgfault_start \subseteq Pids
    /\ \A p \in DOMAIN pgfault_start : pgfault_start[p] \in 0..MaxTime
    /\ DOMAIN pgfault_accum \subseteq Pids
    /\ \A p \in DOMAIN pgfault_accum :
          pgfault_accum[p] \in [total_ns : Nat, count : Nat, major_count : Nat]
    /\ pc \in [Threads -> {"user", "fault", "read", "delete", "accum", "insert"}]
    /\ major \in [Threads -> BOOLEAN]
    /\ delta \in [Threads -> 0..MaxTime]
    /\ nfaults \in 0..MaxFaults
    /\ missed \subseteq Pids

Init ==
    /\ clock = 0
    /\ pgfault_start = EmptyMap
    /\ pgfault_accum = EmptyMap
    /\ pc = [t \in Threads |-> "user"]
    /\ major = [t \in Threads |-> FALSE]
    /\ ent = [t \in Threads |-> 0]
    /\ stale = [t \in Threads |-> FALSE]
    /\ delta = [t \in Threads |-> 0]
    /\ nfaults = 0
    /\ missed = {}
    /\ applied = [p \in Pids |-> EmptyBag]
    /\ majors = [p \in Pids |-> 0]

-----------------------------------------------------------------------------
(* handle_fault_enter: pgfault_start[pid] = now, BPF_ANY.                  *)

FaultEnter(t) ==
    /\ pc[t] = "user"
    /\ nfaults < MaxFaults
    /\ pgfault_start' = UpdateAny(pgfault_start, Tgid[t], clock, StartCap)
    /\ stale' = Invalidate(Tgid[t])
    /\ nfaults' = nfaults + 1
    /\ Goto(t, "fault")
    /\ UNCHANGED <<clock, pgfault_accum, major, ent, delta, missed, applied, majors>>

(* handle_fault_exit, with ret the fault's result.                         *)

\* tsp = bpf_map_lookup_elem(&pgfault_start, &pid); if (!tsp) return 0;
FaultExitNoStart(t) ==
    /\ pc[t] = "fault"
    /\ Tgid[t] \notin DOMAIN pgfault_start
    /\ Goto(t, "user")
    /\ UNCHANGED <<clock, pgfault_start, pgfault_accum, major, ent, stale, delta,
                   nfaults, missed, applied, majors>>

FaultExitLookup(t, isMajor) ==
    /\ pc[t] = "fault"
    /\ Tgid[t] \in DOMAIN pgfault_start
    /\ major' = [major EXCEPT ![t] = isMajor]
    /\ ent' = [ent EXCEPT ![t] = pgfault_start[Tgid[t]]]
    /\ stale' = [stale EXCEPT ![t] = FALSE]
    /\ Goto(t, "read")
    /\ UNCHANGED <<clock, pgfault_start, pgfault_accum, delta, nfaults, missed,
                   applied, majors>>

\* Mutant: the operands of the subtraction swapped.
ReadStartSwapped(t) ==
    /\ pc[t] = "read"
    /\ \E v \in IF stale[t] THEN {ent[t]} \cup Stored(pgfault_start) ELSE {ent[t]} :
          delta' = [delta EXCEPT ![t] = v - clock]
    /\ stale' = [stale EXCEPT ![t] = FALSE]
    /\ Goto(t, "delete")
    /\ UNCHANGED <<clock, pgfault_start, pgfault_accum, major, ent, nfaults, missed,
                   applied, majors>>

\* delta = bpf_ktime_get_ns() - *tsp; a stale pointer reads the old value
\* or a recycled element's.
ReadStart(t) ==
    /\ pc[t] = "read"
    /\ \E v \in IF stale[t] THEN {ent[t]} \cup Stored(pgfault_start) ELSE {ent[t]} :
          delta' = [delta EXCEPT ![t] = clock - v]
    /\ stale' = [stale EXCEPT ![t] = FALSE]
    /\ Goto(t, "delete")
    /\ UNCHANGED <<clock, pgfault_start, pgfault_accum, major, ent, nfaults, missed,
                   applied, majors>>

\* Mutant: the stale test made before the delete, leaving stale entries.
DeleteStartAfterCheck(t) ==
    /\ pc[t] = "delete"
    /\ IF delta[t] > Ceiling
       THEN Return(t) /\ UNCHANGED <<pgfault_start, stale>>
       ELSE /\ pgfault_start' = DeleteElem(pgfault_start, Tgid[t])
            /\ stale' = Invalidate(Tgid[t])
            /\ Goto(t, "accum") /\ UNCHANGED delta
    /\ UNCHANGED <<clock, pgfault_accum, major, ent, nfaults, missed, applied, majors>>

\* bpf_map_delete_elem(&pgfault_start, &pid); if (delta > 5s) return 0;
DeleteStart(t) ==
    /\ pc[t] = "delete"
    /\ pgfault_start' = DeleteElem(pgfault_start, Tgid[t])
    /\ stale' = Invalidate(Tgid[t])
    /\ IF delta[t] > Ceiling
       THEN Return(t)
       ELSE Goto(t, "accum") /\ UNCHANGED delta
    /\ UNCHANGED <<clock, pgfault_accum, major, ent, nfaults, missed, applied, majors>>

\* val = lookup(&pgfault_accum, &pid); if (val) the fetch-and-adds of
\* total_ns, count and, for a major fault, major_count.  Records are never
\* deleted, so the pointer stays valid for the adds.
AccumHit(t) ==
    LET p == Tgid[t] IN
    /\ pc[t] = "accum"
    /\ p \in DOMAIN pgfault_accum
    /\ pgfault_accum' = [pgfault_accum EXCEPT
                           ![p] = Val(@.total_ns + delta[t], @.count + 1,
                                      @.major_count + IF major[t] THEN 1 ELSE 0)]
    /\ applied' = [applied EXCEPT ![p] = BagAdd(@, delta[t])]
    /\ majors' = [majors EXCEPT ![p] = @ + IF major[t] THEN 1 ELSE 0]
    /\ Return(t)
    /\ UNCHANGED <<clock, pgfault_start, major, ent, stale, nfaults, missed>>

AccumMiss(t) ==
    /\ pc[t] = "accum"
    /\ Tgid[t] \notin DOMAIN pgfault_accum
    /\ Goto(t, "insert")
    /\ UNCHANGED <<clock, pgfault_start, pgfault_accum, major, ent, stale, delta,
                   nfaults, missed, applied, majors>>

\* The insert, with the mutant that starts major_count at 1 for every
\* first fault.
Insert(t, firstMajor) ==
    LET p == Tgid[t] IN
    /\ pc[t] = "insert"
    /\ pgfault_accum' = UpdateNoExist(pgfault_accum, p, Val(delta[t], 1, firstMajor), AccumCap)
    /\ IF InsertSucceeds(pgfault_accum, p, AccumCap)
       THEN /\ applied' = [applied EXCEPT ![p] = BagAdd(@, delta[t])]
            /\ majors' = [majors EXCEPT ![p] = @ + IF major[t] THEN 1 ELSE 0]
       ELSE UNCHANGED <<applied, majors>>
    /\ Return(t)
    /\ UNCHANGED <<clock, pgfault_start, major, ent, stale, nfaults, missed>>

\* Mutant: major_count = 1 whatever ret says.
InsertAccumMajorOne(t) == Insert(t, 1)

\* new_val = {delta, 1, is_major ? 1 : 0}, BPF_NOEXIST.
InsertAccum(t) == Insert(t, IF major[t] THEN 1 ELSE 0)

-----------------------------------------------------------------------------
(* Environment: time passes; a fault returns with its kretprobe missed.    *)

Tick ==
    /\ clock < MaxTime
    /\ clock' = clock + 1
    /\ UNCHANGED <<pgfault_start, pgfault_accum, pc, major, ent, stale, delta,
                   nfaults, missed, applied, majors>>

MissReturn(t) ==
    /\ pc[t] = "fault"
    /\ missed' = missed \cup {Tgid[t]}
    /\ Goto(t, "user")
    /\ UNCHANGED <<clock, pgfault_start, pgfault_accum, major, ent, stale, delta,
                   nfaults, applied, majors>>

Next ==
    \/ Tick
    \/ \E t \in Threads :
          \/ FaultEnter(t) \/ FaultExitNoStart(t)
          \/ \E m \in BOOLEAN : FaultExitLookup(t, m)
          \/ ReadStart(t) \/ DeleteStart(t) \/ AccumHit(t) \/ AccumMiss(t)
          \/ InsertAccum(t) \/ MissReturn(t)

Spec == Init /\ [][Next]_vars

-----------------------------------------------------------------------------
(* Properties                                                              *)

\* Every pgfault_accum record accounts exactly for the faults merged into
\* it, with threads of the process racing on the first insert: count is
\* their number, total_ns the sum of their durations and major_count the
\* number of major ones.  No process has a record without a merged fault.
FaultAccumReflectsSamples ==
    \A p \in Pids :
        IF p \in DOMAIN pgfault_accum
        THEN /\ pgfault_accum[p].count = BagCardinality(applied[p])
             /\ pgfault_accum[p].total_ns = SumBag(applied[p])
             /\ pgfault_accum[p].major_count = majors[p]
        ELSE applied[p] = EmptyBag /\ majors[p] = 0

\* Once no thread is in a fault, pgfault_start holds entries only of
\* processes one of whose kretprobes was missed: every entry, stale or not,
\* is deleted by the return that reads it, whatever threads interleave.
NoLeakedFault ==
    (\A t \in Threads : pc[t] = "user") => DOMAIN pgfault_start \subseteq missed
=============================================================================
