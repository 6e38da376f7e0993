------------------------------- MODULE OffCpu -------------------------------
(***************************************************************************)
(* offcpu.c: involuntary off-CPU time per process.  One handler on the     *)
(* sched_switch tracepoint does both halves of the pairing: it stores the  *)
(* switch-out time of prev in offcpu_start[prev tgid] (unless prev went to *)
(* an interruptible sleep), then looks up offcpu_start[next tgid], and if  *)
(* the duration is below 30 s adds it to offcpu_accum[next tgid] before    *)
(* deleting the entry.                                                     *)
(*                                                                         *)
(* The handler runs inside __schedule with the run queue of its CPU        *)
(* locked: prev stays on its CPU (on_cpu) until the handler returns, and   *)
(* next has been picked, so neither task is switched anywhere else during  *)
(* the handler.  Handlers of different CPUs interleave at every map call.  *)
(***************************************************************************)
EXTENDS Integers, FiniteSets, Bags, BagsExt, TLC, HashMap

CONSTANTS
    CPUs,       \* processors
    Tasks,      \* user tasks
    Idle,       \* the idle task (tgid 0)
    Tgid,       \* [Tasks -> Nat]: the thread group of each task
    StartCap,   \* max_entries of offcpu_start
    AccumCap,   \* max_entries of offcpu_accum
    Ceiling,    \* 30000000000 ns
    Wrap,       \* 2^64: now - *tsp is a __u64 difference
    MaxTime,    \* bound on the clock
    MaxSwitches \* bound on the number of context switches

ASSUME Idle \notin Tasks
ASSUME \A x \in Tasks : Tgid[x] > 1
ASSUME 0 < Ceiling /\ Ceiling < MaxTime /\ MaxTime < Wrap

NoTime == -1

\* The value of __state & 0xff the switch-out leaves prev in.
States == {"RUNNING", "INTERRUPTIBLE", "UNINTERRUPTIBLE"}

Pids == {Tgid[x] : x \in Tasks}

TgidOf(x) == IF x = Idle THEN 0 ELSE Tgid[x]

VARIABLES
    clock,        \* bpf_ktime_get_ns()
    offcpu_start, \* pairing map: tgid -> switch-out time
    offcpu_accum, \* accumulation map: tgid -> [total_ns, count]
    status,       \* scheduler state of each task: "run", "ready", "sleep"
    cur,          \* the task each CPU runs (next, once the switch began)
    prev,         \* the task a CPU's handler is switching out
    prevTo,       \* where prev goes once the switch completes
    hpc,          \* where each CPU's handler is
    now,          \* the handler's now
    ent,          \* the offcpu_start value the handler looked up
    stale,        \* that element was replaced or deleted since
    delta,        \* now - *tsp
    nswitches,    \* context switches so far
    offAt,        \* ghost: when each task last went involuntarily off CPU
    paired,       \* ghost: the start the task's last switch-in read
    applied       \* ghost: tgid -> bag of merged durations

vars == <<clock, offcpu_start, offcpu_accum, status, cur, prev, prevTo, hpc,
          now, ent, stale, delta, nswitches, offAt, paired, applied>>

sched == <<status, cur, prev, prevTo>>

Invalidate(k) ==
    [c \in CPUs |-> stale[c] \/ (hpc[c] = "read" /\ TgidOf(cur[c]) = k)]

\* The switch completes: prev may now be woken or picked elsewhere, and
\* the handler's locals are gone.
Finish(c) ==
    /\ hpc' = [hpc EXCEPT ![c] = "idle"]
    /\ status' = IF prev[c] = Idle THEN status
                 ELSE [status EXCEPT ![prev[c]] = prevTo[c]]
    /\ delta' = [delta EXCEPT ![c] = 0]
    /\ UNCHANGED <<cur, prev, prevTo>>

\* Types, and the bound the 30 s test (delta < 30000000000ULL) puts on
\* each merged sample: every duration added to offcpu_accum is below the
\* ceiling, even when now - *tsp wrapped through a recycled element.
TypeOK ==
    /\ clock \in 1..MaxTime
    /\ DOMAIN offcpu_start \subseteq Pids
    /\ \A p \in DOMAIN offcpu_start : offcpu_start[p] \in 1..MaxTime
    /\ DOMAIN offcpu_accum \subseteq Pids
    /\ \A p \in DOMAIN offcpu_accum :
          offcpu_accum[p] \in [total_ns : 0..(Ceiling * MaxSwitches), count : Nat]
    /\ \A p \in DOMAIN applied : BagToSet(applied[p]) \subseteq 0..(Ceiling - 1)
    /\ status \in [Tasks -> {"run", "ready", "sleep"}]
    /\ cur \in [CPUs -> Tasks \cup {Idle}]
    /\ hpc \in [CPUs -> {"idle", "lookup", "read", "accum", "insert", "delete"}]
    /\ delta \in [CPUs -> 0..(Wrap - 1)]
    /\ nswitches \in 0..MaxSwitches

\* Every task starts runnable on some run queue; the CPUs run idle.
Init ==
    /\ clock = 1
    /\ offcpu_start = EmptyMap
    /\ offcpu_accum = EmptyMap
    /\ status = [x \in Tasks |-> "ready"]
    /\ cur = [c \in CPUs |-> Idle]
    /\ prev = [c \in CPUs |-> Idle]
    /\ prevTo = [c \in CPUs |-> "ready"]
    /\ hpc = [c \in CPUs |-> "idle"]
    /\ now = [c \in CPUs |-> 0]
    /\ ent = [c \in CPUs |-> 0]
    /\ stale = [c \in CPUs |-> FALSE]
    /\ delta = [c \in CPUs |-> 0]
    /\ nswitches = 0
    /\ offAt = [x \in Tasks |-> NoTime]
    /\ paired = [x \in Tasks |-> NoTime]
    /\ applied = [p \in Pids |-> EmptyBag]
-----------------------------------------------------------------------------
(* handle_sched_switch, in the steps another CPU can interleave with.      *)

\* The switch-out half, with the mutant that records every switch-out,
\* voluntary sleeps included (the prev_state test dropped).  offAt keeps
\* the true meaning in both: the involuntary switch-out time, if stored.
SwitchOut(c, nxt, st, records) ==
    LET p   == cur[c]
        rec == TgidOf(p) > 1 /\ records
    IN
    /\ hpc[c] = "idle"
    /\ nswitches < MaxSwitches
    /\ nxt \in {x \in Tasks : status[x] = "ready"} \cup {Idle}
    /\ nxt # p
    /\ p = Idle => st = "RUNNING"
    /\ offcpu_start' = IF rec THEN UpdateAny(offcpu_start, TgidOf(p), clock, StartCap)
                       ELSE offcpu_start
    /\ stale' = IF rec THEN Invalidate(TgidOf(p)) ELSE stale
    /\ offAt' = IF p = Idle THEN offAt
                ELSE [offAt EXCEPT ![p] =
                        IF st # "INTERRUPTIBLE" /\ UpdateSucceeds(offcpu_start, Tgid[p], StartCap)
                        THEN clock ELSE NoTime]
    /\ cur' = [cur EXCEPT ![c] = nxt]
    /\ prev' = [prev EXCEPT ![c] = p]
    /\ prevTo' = [prevTo EXCEPT ![c] = IF st = "RUNNING" THEN "ready" ELSE "sleep"]
    /\ status' = IF nxt = Idle THEN status ELSE [status EXCEPT ![nxt] = "run"]
    /\ now' = [now EXCEPT ![c] = clock]
    /\ hpc' = [hpc EXCEPT ![c] = "lookup"]
    /\ nswitches' = nswitches + 1
    /\ UNCHANGED <<clock, offcpu_accum, ent, delta, paired, applied>>

\* Mutant: the switch-out time stored whatever prev's state.
SwitchBeginAnyState(c, nxt, st) == SwitchOut(c, nxt, st, TRUE)

\* now = bpf_ktime_get_ns(); if (prev_pid > 1 && prev_state !=
\* TASK_INTERRUPTIBLE) offcpu_start[prev_pid] = now, BPF_ANY.
SwitchBegin(c, nxt, st) == SwitchOut(c, nxt, st, st # "INTERRUPTIBLE")

\* if (next_pid > 1) { tsp = lookup(&offcpu_start, &next_pid); if (tsp ...
LookupMiss(c) ==
    LET k == TgidOf(cur[c]) IN
    /\ hpc[c] = "lookup"
    /\ k <= 1 \/ k \notin DOMAIN offcpu_start
    /\ Finish(c)
    /\ paired' = IF cur[c] = Idle THEN paired ELSE [paired EXCEPT ![cur[c]] = NoTime]
    /\ UNCHANGED <<clock, offcpu_start, offcpu_accum, now, ent, stale, nswitches, offAt, applied>>

LookupHit(c) ==
    LET k == TgidOf(cur[c]) IN
    /\ hpc[c] = "lookup"
    /\ k > 1 /\ k \in DOMAIN offcpu_start
    /\ ent' = [ent EXCEPT ![c] = offcpu_start[k]]
    /\ stale' = [stale EXCEPT ![c] = FALSE]
    /\ hpc' = [hpc EXCEPT ![c] = "read"]
    /\ UNCHANGED <<clock, offcpu_start, offcpu_accum, sched, now, delta, nswitches,
                   offAt, paired, applied>>

\* Mutant: the 30 s test dropped, so a wrapped difference is merged.
ReadStartNoCeiling(c) ==
    /\ hpc[c] = "read"
    /\ \E v \in IF stale[c] THEN {ent[c]} \cup Stored(offcpu_start) ELSE {ent[c]} :
          LET d == (now[c] - v) % Wrap IN
          /\ v > 0
          /\ delta' = [delta EXCEPT ![c] = d]
          /\ paired' = [paired EXCEPT ![cur[c]] = v]
          /\ hpc' = [hpc EXCEPT ![c] = "accum"]
    /\ stale' = [stale EXCEPT ![c] = FALSE]
    /\ UNCHANGED <<clock, offcpu_start, offcpu_accum, sched, now, ent, nswitches,
                   offAt, applied>>

\* Mutant: the delete moved into the 30 s branch, so a hit whose duration
\* fails the test leaves the entry in place.
ReadStartKeepStale(c) ==
    /\ hpc[c] = "read"
    /\ \E v \in IF stale[c] THEN {ent[c]} \cup Stored(offcpu_start) ELSE {ent[c]} :
          LET d == (now[c] - v) % Wrap IN
          /\ v > 0
          /\ paired' = [paired EXCEPT ![cur[c]] = v]
          /\ IF d < Ceiling
             THEN /\ delta' = [delta EXCEPT ![c] = d]
                  /\ hpc' = [hpc EXCEPT ![c] = "accum"]
                  /\ UNCHANGED <<status, cur, prev, prevTo>>
             ELSE Finish(c)
    /\ stale' = [stale EXCEPT ![c] = FALSE]
    /\ UNCHANGED <<clock, offcpu_start, offcpu_accum, now, ent, nswitches, offAt, applied>>

\* if (tsp && *tsp > 0) { delta = now - *tsp; if (delta < 30s) ... }
\* A stale pointer reads the old value or a recycled element's (see
\* SyscallDissect).  ktime is positive once tracing runs, so *tsp > 0.
ReadStart(c) ==
    /\ hpc[c] = "read"
    /\ \E v \in IF stale[c] THEN {ent[c]} \cup Stored(offcpu_start) ELSE {ent[c]} :
          LET d == (now[c] - v) % Wrap IN
          /\ v > 0
          /\ delta' = [delta EXCEPT ![c] = d]
          /\ paired' = [paired EXCEPT ![cur[c]] = v]
          /\ hpc' = [hpc EXCEPT ![c] = IF d < Ceiling THEN "accum" ELSE "delete"]
    /\ stale' = [stale EXCEPT ![c] = FALSE]
    /\ UNCHANGED <<clock, offcpu_start, offcpu_accum, sched, now, ent, nswitches,
                   offAt, applied>>

\* val = lookup(&offcpu_accum, &next_pid); if (val) two fetch-and-adds.
\* Records are never deleted, so the pointer stays valid for the adds.
AccumHit(c) ==
    LET k == TgidOf(cur[c]) IN
    /\ hpc[c] = "accum"
    /\ k \in DOMAIN offcpu_accum
    /\ offcpu_accum' = [offcpu_accum EXCEPT ![k].total_ns = @ + delta[c],
                                            ![k].count = @ + 1]
    /\ applied' = [applied EXCEPT ![k] = BagAdd(@, delta[c])]
    /\ hpc' = [hpc EXCEPT ![c] = "delete"]
    /\ UNCHANGED <<clock, offcpu_start, sched, now, ent, stale, delta, nswitches,
                   offAt, paired>>

AccumMiss(c) ==
    /\ hpc[c] = "accum"
    /\ TgidOf(cur[c]) \notin DOMAIN offcpu_accum
    /\ hpc' = [hpc EXCEPT ![c] = "insert"]
    /\ UNCHANGED <<clock, offcpu_start, offcpu_accum, sched, now, ent, stale, delta,
                   nswitches, offAt, paired, applied>>

\* Mutant: the first record written with BPF_ANY.
InsertAccumAny(c) ==
    LET k == TgidOf(cur[c]) IN
    /\ hpc[c] = "insert"
    /\ offcpu_accum' = UpdateAny(offcpu_accum, k, [total_ns |-> delta[c], count |-> 1], AccumCap)
    /\ applied' = IF UpdateSucceeds(offcpu_accum, k, AccumCap)
                  THEN [applied EXCEPT ![k] = BagAdd(@, delta[c])] ELSE applied
    /\ hpc' = [hpc EXCEPT ![c] = "delete"]
    /\ UNCHANGED <<clock, offcpu_start, sched, now, ent, stale, delta, nswitches,
                   offAt, paired>>

\* new_val = {delta, 1}, BPF_NOEXIST.
InsertAccum(c) ==
    LET k == TgidOf(cur[c]) IN
    /\ hpc[c] = "insert"
    /\ offcpu_accum' = UpdateNoExist(offcpu_accum, k, [total_ns |-> delta[c], count |-> 1], AccumCap)
    /\ applied' = IF InsertSucceeds(offcpu_accum, k, AccumCap)
                  THEN [applied EXCEPT ![k] = BagAdd(@, delta[c])] ELSE applied
    /\ hpc' = [hpc EXCEPT ![c] = "delete"]
    /\ UNCHANGED <<clock, offcpu_start, sched, now, ent, stale, delta, nswitches,
                   offAt, paired>>

\* bpf_map_delete_elem(&offcpu_start, &next_pid), whether or not the
\* duration passed the ceiling.
DeleteStart(c) ==
    /\ hpc[c] = "delete"
    /\ offcpu_start' = DeleteElem(offcpu_start, TgidOf(cur[c]))
    /\ stale' = Invalidate(TgidOf(cur[c]))
    /\ Finish(c)
    /\ UNCHANGED <<clock, offcpu_accum, now, ent, nswitches, offAt, paired, applied>>

-----------------------------------------------------------------------------
(* Environment: time passes; a sleeping task is woken.                     *)

Tick ==
    /\ clock < MaxTime
    /\ clock' = clock + 1
    /\ UNCHANGED <<offcpu_start, offcpu_accum, sched, hpc, now, ent, stale, delta,
                   nswitches, offAt, paired, applied>>

Wakeup(x) ==
    /\ status[x] = "sleep"
    /\ status' = [status EXCEPT ![x] = "ready"]
    /\ UNCHANGED <<clock, offcpu_start, offcpu_accum, cur, prev, prevTo, hpc, now, ent,
                   stale, delta, nswitches, offAt, paired, applied>>

Next ==
    \/ Tick
    \/ \E x \in Tasks : Wakeup(x)
    \/ \E c \in CPUs :
          \/ \E nxt \in Tasks \cup {Idle}, st \in States : SwitchBegin(c, nxt, st)
          \/ LookupMiss(c) \/ LookupHit(c) \/ ReadStart(c) \/ AccumHit(c)
          \/ AccumMiss(c) \/ InsertAccum(c) \/ DeleteStart(c)

Spec == Init /\ [][Next]_vars

-----------------------------------------------------------------------------
(* Properties                                                              *)

\* x runs and no handler is switching it in or out.
SwitchedIn(x) ==
    /\ status[x] = "run"
    /\ \A c \in CPUs : hpc[c] # "idle" => x \notin {cur[c], prev[c]}

\* A task that is alone in its process and back on a CPU was paired with
\* its own switch-out: the start its switch-in read is the time it was
\* preempted or put into an uninterruptible sleep, and nothing at all after
\* an interruptible sleep (the prev_state filter of handle_sched_switch and
\* the delete of the consumed entry together make this so), while threads
\* of another process share and recycle map elements on the other CPU.
\* (Threads of one process share the tgid key and may pair with each
\* other's switch-outs by design.)
OffCpuMeasuresOwnWait ==
    \A x \in Tasks :
        ({y \in Tasks : TgidOf(y) = TgidOf(x)} = {x} /\ SwitchedIn(x))
            => paired[x] = offAt[x]

\* x is off CPU, or a handler is switching it out or in right now.
OffOrSwitching(x) ==
    status[x] # "run" \/ \E c \in CPUs : hpc[c] # "idle" /\ x \in {cur[c], prev[c]}

\* Every offcpu_start entry is the involuntary switch-out time of a thread
\* of its process that has not been switched back in: handle_sched_switch
\* deletes the entry on every hit, whether or not the duration passes the
\* 30 s test, and a switch between two threads of one process (which
\* stores and at once consumes the entry) leaves none behind, so no entry
\* outlives its wait for a later switch-in to pair with.
OffStartHeldByWaiter ==
    \A p \in DOMAIN offcpu_start :
        \E x \in Tasks : /\ Tgid[x] = p
                       /\ offAt[x] = offcpu_start[p]
                       /\ OffOrSwitching(x)

\* Every offcpu_accum record accounts exactly for the durations merged
\* into it, even when two CPUs switch in threads of one process at once and
\* race on the lookup-miss / BPF_NOEXIST insert; no key has a record
\* without a merged sample.
OffAccumReflectsSamples ==
    \A p \in Pids :
        IF p \in DOMAIN offcpu_accum
        THEN /\ offcpu_accum[p].count = BagCardinality(applied[p])
             /\ offcpu_accum[p].total_ns = SumBag(applied[p])
        ELSE applied[p] = EmptyBag
====
