------------------------------ MODULE LockWait ------------------------------
(***************************************************************************)
(* lockwait.c: futex wait time per process.  sys_enter_futex stores the   *)
(* entry time in futex_start[tgid] for the waiting ops only (FUTEX_WAIT,  *)
(* FUTEX_WAIT_BITSET, FUTEX_LOCK_PI, after masking the flag bits);         *)
(* sys_exit_futex, for every futex call, looks the entry up, deletes it,   *)
(* drops zero and over-30 s durations and adds the rest to                 *)
(* futex_accum[tgid] (total_wait_ns, count).                               *)
(*                                                                         *)
(* The exit handler is split, as in SyscallDissect, at the map calls where *)
(* another CPU can step in: lookup, read of *tsp, delete, accumulation     *)
(* lookup, BPF_NOEXIST insert.                                             *)
(***************************************************************************)
EXTENDS Naturals, FiniteSets, TLC, HashMap

CONSTANTS
    Threads,    \* tasks that call futex()
    Tgid,       \* [Threads -> Nat]: the process of each task
    Ops,        \* futex op words the tasks pass (flag bits included)
    StartCap,   \* max_entries of futex_start
    AccumCap,   \* max_entries of futex_accum
    Ceiling,    \* 30000000000 ns
    MaxTime,    \* bound on the clock
    MaxCalls    \* bound on the number of futex calls

ASSUME 0 \notin {Tgid[t] : t \in Threads}
ASSUME 0 < Ceiling /\ Ceiling < MaxTime

Pids == {Tgid[t] : t \in Threads}

NoTime == MaxTime + 1

\* #define FUTEX_WAIT 0, FUTEX_WAIT_BITSET 9, FUTEX_LOCK_PI 6
WaitOps == {0, 9, 6}

\* op = (int)(ctx->op & 0x7F)
IsWait(o) == (o % 128) \in WaitOps

VARIABLES
    clock,        \* bpf_ktime_get_ns()
    futex_start,  \* pairing map: tgid -> entry time
    futex_accum,  \* accumulation map: tgid -> [total_wait_ns, count]
    pc,           \* where each task is
    op,           \* the op of each task's current futex call
    ent,          \* the futex_start value the exit handler looked up
    stale,        \* that element was replaced or deleted since
    delta,        \* the duration the exit handler computed
    ncalls,       \* futex calls so far
    enterAt,      \* ghost: entry time of the task's own call, if stored
    pairedWith    \* ghost: the start the task's exit handler read

vars == <<clock, futex_start, futex_accum, pc, op, ent, stale, delta, ncalls,
          enterAt, pairedWith>>

Goto(t, to) == pc' = [pc EXCEPT ![t] = to]

Return(t) == /\ Goto(t, "user")
             /\ delta' = [delta EXCEPT ![t] = 0]

Invalidate(k) == [u \in Threads |-> stale[u] \/ (pc[u] = "read" /\ Tgid[u] = k)]

TypeOK ==
    /\ clock \in 0..MaxTime
    /\ DOMAIN futex_start \subseteq Pids
    /\ \A p \in DOMAIN futex_start : futex_start[p] \in 0..MaxTime
    /\ DOMAIN futex_accum \subseteq Pids
    /\ \A p \in DOMAIN futex_accum :
          /\ futex_accum[p] \in [total_wait_ns : Nat, count : 1..MaxCalls]
          \* every merged wait lies in 1..Ceiling
          /\ futex_accum[p].total_wait_ns \in
                futex_accum[p].count..(futex_accum[p].count * Ceiling)
    /\ pc \in [Threads -> {"user", "insys", "read", "delete", "accum", "insert"}]
    /\ op \in [Threads -> Ops]
    /\ delta \in [Threads -> 0..MaxTime]
    /\ ncalls \in 0..MaxCalls

Init ==
    /\ clock = 0
    /\ futex_start = EmptyMap
    /\ futex_accum = EmptyMap
    /\ pc = [t \in Threads |-> "user"]
    /\ op = [t \in Threads |-> CHOOSE o \in Ops : ~IsWait(o)]
    /\ ent = [t \in Threads |-> 0]
    /\ stale = [t \in Threads |-> FALSE]
    /\ delta = [t \in Threads |-> 0]
    /\ ncalls = 0
    /\ enterAt = [t \in Threads |-> NoTime]
    /\ pairedWith = [t \in Threads |-> NoTime]

-----------------------------------------------------------------------------
(* handle_futex_enter                                                      *)

\* The enter handler, with the mutant that stores every call's entry time
\* (the op filter dropped).
Enter(t, o, filtered) ==
    LET rec == ~filtered \/ IsWait(o) IN
    /\ pc[t] = "user"
    /\ ncalls < MaxCalls
    /\ futex_start' = IF rec THEN UpdateAny(futex_start, Tgid[t], clock, StartCap)
                      ELSE futex_start
    /\ stale' = IF rec THEN Invalidate(Tgid[t]) ELSE stale
    /\ enterAt' = [enterAt EXCEPT ![t] =
                     IF IsWait(o) /\ UpdateSucceeds(futex_start, Tgid[t], StartCap)
                     THEN clock ELSE NoTime]
    /\ op' = [op EXCEPT ![t] = o]
    /\ ncalls' = ncalls + 1
    /\ Goto(t, "insys")
    /\ UNCHANGED <<clock, futex_accum, ent, delta, pairedWith>>

\* Mutant: no op filter at the entry.
FutexEnterAnyOp(t, o) == Enter(t, o, FALSE)

\* if (op != FUTEX_WAIT && op != FUTEX_WAIT_BITSET && op != FUTEX_LOCK_PI)
\*     return 0;  futex_start[pid] = now, BPF_ANY.
FutexEnter(t, o) == Enter(t, o, TRUE)

-----------------------------------------------------------------------------
(* handle_futex_exit: no op filter.                                        *)

\* tsp = bpf_map_lookup_elem(&futex_start, &pid); if (!tsp) return 0;
ExitNoStart(t) ==
    /\ pc[t] = "insys"
    /\ Tgid[t] \notin DOMAIN futex_start
    /\ pairedWith' = [pairedWith EXCEPT ![t] = NoTime]
    /\ Goto(t, "user")
    /\ UNCHANGED <<clock, futex_start, futex_accum, op, ent, stale, delta, ncalls,
                   enterAt>>

ExitLookup(t) ==
    /\ pc[t] = "insys"
    /\ Tgid[t] \in DOMAIN futex_start
    /\ ent' = [ent EXCEPT ![t] = futex_start[Tgid[t]]]
    /\ stale' = [stale EXCEPT ![t] = FALSE]
    /\ Goto(t, "read")
    /\ UNCHANGED <<clock, futex_start, futex_accum, op, delta, ncalls, enterAt,
                   pairedWith>>

\* delta = bpf_ktime_get_ns() - *tsp; a stale pointer reads the old value
\* or a recycled element's.
ReadStart(t) ==
    /\ pc[t] = "read"
    /\ \E v \in IF stale[t] THEN {ent[t]} \cup Stored(futex_start) ELSE {ent[t]} :
          /\ delta' = [delta EXCEPT ![t] = clock - v]
          /\ pairedWith' = [pairedWith EXCEPT ![t] = v]
    /\ stale' = [stale EXCEPT ![t] = FALSE]
    /\ Goto(t, "delete")
    /\ UNCHANGED <<clock, futex_start, futex_accum, op, ent, ncalls, enterAt>>

\* Mutant: zero durations kept (the delta == 0 test dropped).
DeleteStartKeepsZero(t) ==
    /\ pc[t] = "delete"
    /\ futex_start' = DeleteElem(futex_start, Tgid[t])
    /\ stale' = Invalidate(Tgid[t])
    /\ IF delta[t] > Ceiling
       THEN Return(t)
       ELSE Goto(t, "accum") /\ UNCHANGED delta
    /\ UNCHANGED <<clock, futex_accum, op, ent, ncalls, enterAt, pairedWith>>

\* Mutant: the delete moved after the duration test, so an entry whose
\* duration is dropped stays in futex_start.
DeleteStartAfterCheck(t) ==
    /\ pc[t] = "delete"
    /\ IF delta[t] = 0 \/ delta[t] > Ceiling
       THEN Return(t) /\ UNCHANGED <<futex_start, stale>>
       ELSE /\ futex_start' = DeleteElem(futex_start, Tgid[t])
            /\ stale' = Invalidate(Tgid[t])
            /\ Goto(t, "accum") /\ UNCHANGED delta
    /\ UNCHANGED <<clock, futex_accum, op, ent, ncalls, enterAt, pairedWith>>

\* bpf_map_delete_elem(&futex_start, &pid);
\* if (delta == 0 || delta > 30s) return 0;
DeleteStart(t) ==
    /\ pc[t] = "delete"
    /\ futex_start' = DeleteElem(futex_start, Tgid[t])
    /\ stale' = Invalidate(Tgid[t])
    /\ IF delta[t] = 0 \/ delta[t] > Ceiling
       THEN Return(t)
       ELSE Goto(t, "accum") /\ UNCHANGED delta
    /\ UNCHANGED <<clock, futex_accum, op, ent, ncalls, enterAt, pairedWith>>

\* val = lookup(&futex_accum, &pid); if (val) two fetch-and-adds.  Records
\* are never deleted, so the pointer stays valid for the adds.
AccumHit(t) ==
    /\ pc[t] = "accum"
    /\ Tgid[t] \in DOMAIN futex_accum
    /\ futex_accum' = [futex_accum EXCEPT ![Tgid[t]].total_wait_ns = @ + delta[t],
                                          ![Tgid[t]].count = @ + 1]
    /\ Return(t)
    /\ UNCHANGED <<clock, futex_start, op, ent, stale, ncalls, enterAt, pairedWith>>

AccumMiss(t) ==
    /\ pc[t] = "accum"
    /\ Tgid[t] \notin DOMAIN futex_accum
    /\ Goto(t, "insert")
    /\ UNCHANGED <<clock, futex_start, futex_accum, op, ent, stale, delta, ncalls,
                   enterAt, pairedWith>>

\* new_val = {delta, 1}, BPF_NOEXIST.
InsertAccum(t) ==
    /\ pc[t] = "insert"
    /\ futex_accum' = UpdateNoExist(futex_accum, Tgid[t],
                                    [total_wait_ns |-> delta[t], count |-> 1], AccumCap)
    /\ Return(t)
    /\ UNCHANGED <<clock, futex_start, op, ent, stale, ncalls, enterAt, pairedWith>>

Tick ==
    /\ clock < MaxTime
    /\ clock' = clock + 1
    /\ UNCHANGED <<futex_start, futex_accum, pc, op, ent, stale, delta, ncalls,
                   enterAt, pairedWith>>

Next ==
    \/ Tick
    \/ \E t \in Threads :
          \/ \E o \in Ops : FutexEnter(t, o)
          \/ ExitNoStart(t) \/ ExitLookup(t) \/ ReadStart(t) \/ DeleteStart(t)
          \/ AccumHit(t) \/ AccumMiss(t) \/ InsertAccum(t)

Spec == Init /\ [][Next]_vars

-----------------------------------------------------------------------------
(* Properties                                                              *)

\* A task about to merge a futex duration is returning from a waiting op
\* whose own entry time it read: the op filter at the entry and the delete
\* of the consumed entry together keep a FUTEX_WAKE (or any other op) from
\* being measured, and keep an old entry from being paired twice.
FutexSampleIsOwnWait ==
    \A t \in Threads : pc[t] \in {"accum", "insert"} => pairedWith[t] = enterAt[t]

\* The spec (section 4.5): a handler filters the events it does not care
\* about.  Only the return from a waiting futex op ends a measured wait:
\* no task merges a duration when returning from another op.
SampleEndsAtWaitExit ==
    \A t \in Threads : pc[t] \in {"accum", "insert"} => IsWait(op[t])

-----------------------------------------------------------------------------
(* Refinement of LatencyPairing                                            *)

\* The exit handler has computed its duration and will merge it.
Pending(t) ==
    \/ pc[t] = "delete" /\ delta[t] \in 1..Ceiling
    \/ pc[t] \in {"accum", "insert"}

\* The durations key k's exit handlers hold for merging, as a bag.
PendingBag(k) ==
    LET P == {t \in Threads : Tgid[t] = k /\ Pending(t)}
    IN  [d \in {delta[t] : t \in P} |-> Cardinality({t \in P : delta[t] = d})]

\* An entry is consumed once its exit handler has read *tsp; the delete
\* that follows is the end of that consumption.
Consumed == {Tgid[t] : t \in {u \in Threads : pc[u] = "delete"}}

Pairing == INSTANCE LatencyPairing WITH
    Keys <- Pids, MinDelta <- 1, MaxDelta <- Ceiling,
    now <- clock,
    start <- [k \in DOMAIN futex_start \ Consumed |-> futex_start[k]],
    pending <- [k \in Pids |-> PendingBag(k)],
    accum <- [k \in DOMAIN futex_accum |->
                [total |-> futex_accum[k].total_wait_ns, count |-> futex_accum[k].count]]

\* When every process is single-threaded, lockwait.c implements the
\* pairing probe class of the spec: sys_enter_futex of a waiting op is a
\* begin, the read of *tsp in sys_exit_futex consumes that begin once and
\* for good (the delete that follows leaves nothing behind, whatever the
\* duration), the zero and 30 s tests keep exactly the durations in
\* 1..Ceiling, and the fetch-and-adds or the BPF_NOEXIST insert merge each
\* kept duration into futex_accum as one atomic upsert would.
PairingRefined == Pairing!Spec
=============================================================================
