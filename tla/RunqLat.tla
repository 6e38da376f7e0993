------------------------------ MODULE RunqLat ------------------------------
(***************************************************************************)
(* runqlat.c: run queue latency per process.  sched_wakeup stores the      *)
(* wakeup time in rq_start under the woken task's ctx->pid; the            *)
(* sched_switch handler looks up rq_start under next->tgid, computes the   *)
(* wait, deletes the entry, drops waits above 10 s and folds the rest into *)
(* rqlat_accum under the tgid (total, count, clamped racy max).            *)
(*                                                                         *)
(* Tasks carry a task id (what sched_wakeup reports as pid) and a thread   *)
(* group id; they equal only for a process's leader.  A task sleeps, is    *)
(* woken (runnable), is switched in (running), and either sleeps again or  *)
(* is preempted back to runnable without a wakeup.  The switch handler     *)
(* runs on the CPU switching the task in and is split like the exit        *)
(* handler of SyscallDissect.                                              *)
(***************************************************************************)
EXTENDS Integers, FiniteSets, TLC, HashMap

CONSTANTS
    Tasks,      \* the tasks
    Tid,        \* [Tasks -> Nat]: task->pid, what sched_wakeup reports
    Tgid,       \* [Tasks -> Nat]: task->tgid
    StartCap,   \* max_entries of rq_start
    AccumCap,   \* max_entries of rqlat_accum
    Ceiling,    \* the staleness ceiling, 10000000000 ns in the code
    U32Max,     \* 0xFFFFFFFF, the largest value of the __u32 max_ns field
    MaxTime,    \* bound on the clock
    MaxWakeups  \* bound on the number of sched_wakeup events

NoTime == -1

\* The idle task (pid 0) is never woken by sched_wakeup and its switch-in
\* is dropped by "if (pid == 0) return 0": it is left out.
ASSUME \A x \in Tasks : Tid[x] # 0 /\ Tgid[x] # 0
ASSUME U32Max < Ceiling /\ Ceiling < MaxTime

VARIABLES
    clock,        \* bpf_ktime_get_ns(), in abstract units
    rq_start,     \* pairing map: pid -> wakeup time
    rqlat_accum,  \* accumulation map: tgid -> rqlat_val
    sched,        \* each task: "sleeping", "runnable" or "running"
    hpc,          \* where the switch handler for each task is
    ent,          \* the rq_start value its lookup found
    stale,        \* that element was replaced or deleted after the lookup
    delta,        \* the wait it computed
    wokenAt,      \* ghost: when the task was last woken (NoTime if preempted)
    paired,       \* ghost: the wakeup time the last switch-in of the task read
    nwakeups      \* ghost: sched_wakeup events so far

vars == <<clock, rq_start, rqlat_accum, sched, hpc, ent, stale, delta,
          wokenAt, paired, nwakeups>>

Pids == {Tid[x] : x \in Tasks} \cup {Tgid[x] : x \in Tasks}

\* delta > 0xFFFFFFFF ? 0xFFFFFFFF : (__u32)delta
Clamp32(d) == IF d > U32Max THEN U32Max ELSE d

Goto(x, to) == hpc' = [hpc EXCEPT ![x] = to]

\* The switch handler returns and the task runs.
Finish(x) == /\ Goto(x, "idle")
             /\ delta' = [delta EXCEPT ![x] = 0]

Invalidate(k) == [y \in Tasks |-> stale[y] \/ (hpc[y] = "read" /\ Tgid[y] = k)]

\* struct rqlat_val {__u64 total_ns; __u32 count; __u32 max_ns}
RqlatVal == [total_ns : Nat, count : Nat, max_ns : 0..U32Max]

TypeOK ==
    /\ clock \in 0..MaxTime
    /\ DOMAIN rq_start \subseteq Pids
    /\ \A p \in DOMAIN rq_start : rq_start[p] \in 0..MaxTime
    /\ DOMAIN rqlat_accum \subseteq Pids
    /\ \A p \in DOMAIN rqlat_accum :
          rqlat_accum[p] \in RqlatVal
    /\ sched \in [Tasks -> {"sleeping", "runnable", "running"}]
    /\ hpc \in [Tasks -> {"idle", "lookup", "read", "delete", "accum",
                          "count", "maxcmp", "maxstore", "insert"}]
    /\ stale \in [Tasks -> BOOLEAN]
    /\ delta \in [Tasks -> 0..MaxTime]
    /\ wokenAt \in [Tasks -> {NoTime} \cup 0..MaxTime]
    /\ paired \in [Tasks -> {NoTime} \cup 0..MaxTime]
    /\ nwakeups \in 0..MaxWakeups

Init ==
    /\ clock = 0
    /\ rq_start = EmptyMap
    /\ rqlat_accum = EmptyMap
    /\ sched = [x \in Tasks |-> "sleeping"]
    /\ hpc = [x \in Tasks |-> "idle"]
    /\ ent = [x \in Tasks |-> 0]
    /\ stale = [x \in Tasks |-> FALSE]
    /\ delta = [x \in Tasks |-> 0]
    /\ wokenAt = [x \in Tasks |-> NoTime]
    /\ paired = [x \in Tasks |-> NoTime]
    /\ nwakeups = 0

-----------------------------------------------------------------------------
(* handle_sched_wakeup: rq_start[ctx->pid] = now, BPF_ANY.                 *)

\* Mutant: the wakeup keyed by the waking CPU's current task, as the other
\* handlers key their events, instead of by the woken task ctx->pid.
SchedWakeupByCurrent(x) ==
    /\ sched[x] = "sleeping"
    /\ nwakeups < MaxWakeups
    /\ nwakeups' = nwakeups + 1
    /\ sched' = [sched EXCEPT ![x] = "runnable"]
    /\ \E w \in Tasks \ {x} :
          /\ rq_start' = UpdateAny(rq_start, Tgid[w], clock, StartCap)
          /\ stale' = Invalidate(Tgid[w])
    /\ wokenAt' = [wokenAt EXCEPT ![x] = clock]
    /\ UNCHANGED <<clock, rqlat_accum, hpc, ent, delta, paired>>

SchedWakeup(x) ==
    /\ sched[x] = "sleeping"
    /\ nwakeups < MaxWakeups
    /\ nwakeups' = nwakeups + 1
    /\ sched' = [sched EXCEPT ![x] = "runnable"]
    /\ rq_start' = UpdateAny(rq_start, Tid[x], clock, StartCap)
    /\ stale' = Invalidate(Tid[x])
    /\ wokenAt' = [wokenAt EXCEPT ![x] = clock]
    /\ UNCHANGED <<clock, rqlat_accum, hpc, ent, delta, paired>>

(* The scheduler switches a runnable task in; the switch handler for it    *)
(* runs before it does.  The task switched out needs no step of its own:   *)
(* handle_sched_switch_rqlat only reads next.                              *)

SwitchIn(x) ==
    /\ sched[x] = "runnable"
    /\ hpc[x] = "idle"
    /\ sched' = [sched EXCEPT ![x] = "running"]
    /\ paired' = [paired EXCEPT ![x] = NoTime]
    /\ Goto(x, "lookup")
    /\ UNCHANGED <<clock, rq_start, rqlat_accum, ent, stale, delta, wokenAt, nwakeups>>

\* pid = next->tgid; tsp = lookup(&rq_start, &pid); if (!tsp) return 0;
SwitchNoStart(x) ==
    /\ hpc[x] = "lookup"
    /\ Tgid[x] \notin DOMAIN rq_start
    /\ Finish(x)
    /\ UNCHANGED <<clock, rq_start, rqlat_accum, sched, ent, stale, wokenAt, paired, nwakeups>>

SwitchLookup(x) ==
    /\ hpc[x] = "lookup"
    /\ Tgid[x] \in DOMAIN rq_start
    /\ ent' = [ent EXCEPT ![x] = rq_start[Tgid[x]]]
    /\ stale' = [stale EXCEPT ![x] = FALSE]
    /\ Goto(x, "read")
    /\ UNCHANGED <<clock, rq_start, rqlat_accum, sched, delta, wokenAt, paired, nwakeups>>

\* delta = bpf_ktime_get_ns() - *tsp, through a possibly recycled element
SwitchRead(x) ==
    /\ hpc[x] = "read"
    /\ \E v \in IF stale[x] THEN {ent[x]} \cup Stored(rq_start) ELSE {ent[x]} :
          /\ delta' = [delta EXCEPT ![x] = clock - v]
          /\ paired' = [paired EXCEPT ![x] = v]
    /\ ent' = [ent EXCEPT ![x] = 0]
    /\ stale' = [stale EXCEPT ![x] = FALSE]
    /\ Goto(x, "delete")
    /\ UNCHANGED <<clock, rq_start, rqlat_accum, sched, wokenAt, nwakeups>>

\* Mutant: the ceiling test off by one (delta >= 10s).
SwitchDeleteAtCeiling(x) ==
    /\ hpc[x] = "delete"
    /\ rq_start' = DeleteElem(rq_start, Tgid[x])
    /\ stale' = Invalidate(Tgid[x])
    /\ IF delta[x] >= Ceiling
       THEN Finish(x)
       ELSE Goto(x, "accum") /\ UNCHANGED delta
    /\ UNCHANGED <<clock, rqlat_accum, sched, ent, wokenAt, paired, nwakeups>>

\* Mutant: the delete moved after the 10 s test, so a stale entry stays.
SwitchDeleteAfterCheck(x) ==
    /\ hpc[x] = "delete"
    /\ IF delta[x] > Ceiling
       THEN Finish(x) /\ UNCHANGED <<rq_start, stale>>
       ELSE /\ rq_start' = DeleteElem(rq_start, Tgid[x])
            /\ stale' = Invalidate(Tgid[x])
            /\ Goto(x, "accum") /\ UNCHANGED delta
    /\ UNCHANGED <<clock, rqlat_accum, sched, ent, wokenAt, paired, nwakeups>>

\* bpf_map_delete_elem(&rq_start, &pid); if (delta > 10s) return 0;
SwitchDelete(x) ==
    /\ hpc[x] = "delete"
    /\ rq_start' = DeleteElem(rq_start, Tgid[x])
    /\ stale' = Invalidate(Tgid[x])
    /\ IF delta[x] > Ceiling
       THEN Finish(x)
       ELSE Goto(x, "accum") /\ UNCHANGED delta
    /\ UNCHANGED <<clock, rqlat_accum, sched, ent, wokenAt, paired, nwakeups>>

\* val = lookup(&rqlat_accum, &pid); __sync_fetch_and_add(&val->total_ns, delta)
AccumHit(x) ==
    /\ hpc[x] = "accum"
    /\ Tgid[x] \in DOMAIN rqlat_accum
    /\ rqlat_accum' = [rqlat_accum EXCEPT ![Tgid[x]].total_ns = @ + delta[x]]
    /\ Goto(x, "count")
    /\ UNCHANGED <<clock, rq_start, sched, ent, stale, delta, wokenAt, paired, nwakeups>>

AccumMiss(x) ==
    /\ hpc[x] = "accum"
    /\ Tgid[x] \notin DOMAIN rqlat_accum
    /\ Goto(x, "insert")
    /\ UNCHANGED <<clock, rq_start, rqlat_accum, sched, ent, stale, delta, wokenAt, paired, nwakeups>>

\* __sync_fetch_and_add(&val->count, 1)
MergeCount(x) ==
    /\ hpc[x] = "count"
    /\ rqlat_accum' = [rqlat_accum EXCEPT ![Tgid[x]].count = @ + 1]
    /\ Goto(x, "maxcmp")
    /\ UNCHANGED <<clock, rq_start, sched, ent, stale, delta, wokenAt, paired, nwakeups>>

\* if (delta32 > val->max_ns)
MaxCompare(x) ==
    /\ hpc[x] = "maxcmp"
    /\ IF Clamp32(delta[x]) > rqlat_accum[Tgid[x]].max_ns
       THEN Goto(x, "maxstore") /\ UNCHANGED delta
       ELSE Finish(x)
    /\ UNCHANGED <<clock, rq_start, rqlat_accum, sched, ent, stale, wokenAt, paired, nwakeups>>

\* Mutant: the wait stored into the 32-bit field without the clamp.
MaxStoreUnclamped(x) ==
    /\ hpc[x] = "maxstore"
    /\ rqlat_accum' = [rqlat_accum EXCEPT ![Tgid[x]].max_ns = delta[x]]
    /\ Finish(x)
    /\ UNCHANGED <<clock, rq_start, sched, ent, stale, wokenAt, paired, nwakeups>>

\* val->max_ns = delta32
MaxStore(x) ==
    /\ hpc[x] = "maxstore"
    /\ rqlat_accum' = [rqlat_accum EXCEPT ![Tgid[x]].max_ns = Clamp32(delta[x])]
    /\ Finish(x)
    /\ UNCHANGED <<clock, rq_start, sched, ent, stale, wokenAt, paired, nwakeups>>

\* new_val = {total_ns = delta, count = 1, max_ns = delta32}, BPF_NOEXIST
InsertAccum(x) ==
    /\ hpc[x] = "insert"
    /\ rqlat_accum' = UpdateNoExist(rqlat_accum, Tgid[x],
                        [total_ns |-> delta[x], count |-> 1, max_ns |-> Clamp32(delta[x])],
                        AccumCap)
    /\ Finish(x)
    /\ UNCHANGED <<clock, rq_start, sched, ent, stale, wokenAt, paired, nwakeups>>

-----------------------------------------------------------------------------
(* Environment: time passes; a running task blocks, or is preempted and    *)
(* goes back to the run queue without a sched_wakeup.                      *)

Tick ==
    /\ clock < MaxTime
    /\ clock' = clock + 1
    /\ UNCHANGED <<rq_start, rqlat_accum, sched, hpc, ent, stale, delta, wokenAt, paired, nwakeups>>

Block(x) ==
    /\ sched[x] = "running" /\ hpc[x] = "idle"
    /\ sched' = [sched EXCEPT ![x] = "sleeping"]
    /\ UNCHANGED <<clock, rq_start, rqlat_accum, hpc, ent, stale, delta, wokenAt, paired, nwakeups>>

Preempt(x) ==
    /\ sched[x] = "running" /\ hpc[x] = "idle"
    /\ sched' = [sched EXCEPT ![x] = "runnable"]
    /\ wokenAt' = [wokenAt EXCEPT ![x] = NoTime]
    /\ UNCHANGED <<clock, rq_start, rqlat_accum, hpc, ent, stale, delta, paired, nwakeups>>

Next ==
    \/ Tick
    \/ \E x \in Tasks :
          \/ SchedWakeup(x) \/ SwitchIn(x) \/ SwitchNoStart(x) \/ SwitchLookup(x)
          \/ SwitchRead(x) \/ SwitchDelete(x) \/ AccumHit(x) \/ AccumMiss(x)
          \/ MergeCount(x) \/ MaxCompare(x) \/ MaxStore(x) \/ InsertAccum(x)
          \/ Block(x) \/ Preempt(x)

Spec == Init /\ [][Next]_vars

\* The steps of handle_sched_switch_rqlat for task x.
SwitchHandler(x) ==
    \/ SwitchNoStart(x) \/ SwitchLookup(x) \/ SwitchRead(x) \/ SwitchDelete(x)
    \/ AccumHit(x) \/ AccumMiss(x) \/ MergeCount(x) \/ MaxCompare(x)
    \/ MaxStore(x) \/ InsertAccum(x)

\* A runnable task is eventually picked (CFS starves no SCHED_OTHER
\* task), and a BPF program, once started, runs to its end: it never
\* sleeps, and the verifier bounds it.  Wakeups, blocking, preemption and
\* time are the workload's and get no fairness.
Fairness == \A x \in Tasks : WF_vars(SwitchIn(x)) /\ WF_vars(SwitchHandler(x))

FairSpec == Spec /\ Fairness

-----------------------------------------------------------------------------
(* Properties                                                              *)

\* The spec (section 8): begin(k, t1) followed by end(k, t2) yields one
\* sample of t2 - t1.  A task woken by sched_wakeup and then switched in
\* has, once the switch handler returns, paired its own run queue wait:
\* the rq_start value its switch-in read is the time of its own last
\* wakeup, not a missing entry, another task's wakeup or an older one.
SwitchMeasuresOwnWait ==
    \A x \in Tasks :
        (sched[x] = "running" /\ hpc[x] = "idle" /\ wokenAt[x] # NoTime)
            => paired[x] = wokenAt[x]

\* Every rq_start entry is eventually deleted: the wakeup it records is
\* consumed by the task's next switch-in, whether the wait is merged or
\* dropped by the 10 s test, so a process whose wakeups and switches
\* meet under one key never leaks entries into the 10240-entry map.
RqStartDrains == \A k \in Pids : (k \in DOMAIN rq_start) ~> (k \notin DOMAIN rq_start)

-----------------------------------------------------------------------------
(* Refinement of LatencyPairing                                            *)

\* The switch handler has computed its wait and has not counted it yet.
Pending(x) ==
    \/ hpc[x] = "delete" /\ delta[x] <= Ceiling
    \/ hpc[x] \in {"accum", "insert", "count"}

\* The waits key k's switch handlers hold for merging, as a bag.
PendingBag(k) ==
    LET P == {x \in Tasks : Tgid[x] = k /\ Pending(x)}
    IN  [d \in {delta[x] : x \in P} |-> Cardinality({x \in P : delta[x] = d})]

\* The part of total_ns added by handlers between their two fetch-and-adds.
Uncounted(k) ==
    LET C == {x \in Tasks : Tgid[x] = k /\ hpc[x] = "count"}
    IN  IF C = {} THEN 0 ELSE delta[CHOOSE x \in C : TRUE]

\* A wakeup is consumed once the switch handler has read *tsp.
Consumed == {Tgid[x] : x \in {y \in Tasks : hpc[y] = "delete"}}

Pairing == INSTANCE LatencyPairing WITH
    Keys <- Pids, MinDelta <- 0, MaxDelta <- Ceiling,
    now <- clock,
    start <- [k \in DOMAIN rq_start \ Consumed |-> rq_start[k]],
    pending <- [k \in Pids |-> PendingBag(k)],
    accum <- [k \in DOMAIN rqlat_accum |->
                [total |-> rqlat_accum[k].total_ns - Uncounted(k),
                 count |-> rqlat_accum[k].count]]

\* With single-threaded processes (task id = tgid), runqlat.c implements
\* the pairing probe class of the spec: sched_wakeup begins, the switch-in
\* consumes that wakeup once, the 10 s test keeps exactly the waits up to
\* the ceiling, and the two fetch-and-adds or the BPF_NOEXIST insert merge
\* each kept wait as one atomic upsert would (max_ns is left to TypeOK).
PairingRefined == Pairing!Spec
=============================================================================
