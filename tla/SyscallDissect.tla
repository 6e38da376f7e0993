--------------------------- MODULE SyscallDissect ---------------------------
(***************************************************************************)
(* syscalldissect.c: per-process syscall time.  sys_enter stores the entry *)
(* time in the pairing map sc_start under the task's tgid; sys_exit looks  *)
(* the entry up, computes the duration, deletes the entry, drops durations *)
(* above the 30 s ceiling and folds the rest into the accumulation map     *)
(* sc_accum under <<tgid, syscall nr>> (total, count, clamped racy max).   *)
(*                                                                         *)
(* Each task runs its own handlers, and handlers of different tasks run    *)
(* concurrently on different CPUs.  The exit handler is split where the    *)
(* code gives another CPU room to step in: after the lookup of sc_start    *)
(* (the element may be replaced, deleted or recycled before *tsp is read), *)
(* after the read (the delete is a separate call), after the lookup of     *)
(* sc_accum, and between the fetch-and-adds and the compare and store of   *)
(* max_ns.  Steps that touch no shared state in between are merged.       *)
(***************************************************************************)
EXTENDS Integers, FiniteSets, Bags, BagsExt, TLC, HashMap

CONSTANTS
    Threads,    \* tasks that make system calls
    Tgid,       \* [Threads -> Nat]: the thread group (process id) of each task
    Nrs,        \* syscall numbers as sys_exit reports them (ctx->id, a long;
                \* -1 once a tracer has cancelled the call)
    U32Wrap,    \* 2^32, the range of a __u32
    StartCap,   \* max_entries of sc_start
    AccumCap,   \* max_entries of sc_accum
    Ceiling,    \* the staleness ceiling, 30000000000 ns in the code
    U32Max,     \* 0xFFFFFFFF, the largest value of the __u32 max_ns field
    MaxTime,    \* bound on the clock
    MaxBegins   \* bound on the number of sys_enter events

Pids == {Tgid[t] : t \in Threads}

\* Raw syscall tracepoints fire in task context; no task has tgid 0, so
\* the handlers' "if (pid == 0) return 0" never triggers here.
ASSUME 0 \notin Pids
ASSUME U32Max < Ceiling /\ Ceiling < MaxTime

VARIABLES
    clock,      \* bpf_ktime_get_ns(), in abstract units
    sc_start,   \* pairing map: tgid -> [ts |-> entry time, id |-> begin id]
    sc_accum,   \* accumulation map: <<tgid, nr>> -> sc_val
    pc,         \* where each task is
    nr,         \* the syscall number each task is in (ctx->id)
    ent,        \* the sc_start element the exit handler looked up
    stale,      \* that element was replaced or deleted after the lookup
    delta,      \* the duration the exit handler computed
    nbegins,    \* ghost: syscalls so far; numbers the begins
    mine,       \* ghost: the begin id of each task's current syscall
    uses,       \* ghost: begin id -> how many exit handlers read it
    applied     \* ghost: accumulation key -> bag of merged durations

vars == <<clock, sc_start, sc_accum, pc, nr, ent, stale, delta,
          nbegins, mine, uses, applied>>

\* __u32 nr = (__u32)ctx->id: two's-complement truncation.
SyscallNr(id) == id % U32Wrap

AccKeys == Pids \X {SyscallNr(n) : n \in Nrs}

\* struct sc_key { pid, syscall_nr }
AccKey(t) == <<Tgid[t], SyscallNr(nr[t])>>

\* The begin id of a syscall that has no sys_enter.
NoBegin == MaxBegins

\* delta > 0xFFFFFFFF ? 0xFFFFFFFF : (__u32)delta
Clamp32(d) == IF d > U32Max THEN U32Max ELSE d

Goto(t, to) == pc' = [pc EXCEPT ![t] = to]

NoEnt == [ts |-> 0, id |-> 0]

\* The handler returns: its stack variables are gone.
Return(t) == /\ Goto(t, "user")
             /\ delta' = [delta EXCEPT ![t] = 0]

\* Every handler that still holds a pointer into sc_start for key k sees
\* its element replaced or freed by a write or delete of k.
Invalidate(k) == [u \in Threads |-> stale[u] \/ (pc[u] = "read" /\ Tgid[u] = k)]

\* struct sc_val {__u64 total_ns; __u32 count; __u32 max_ns}
ScVal == [total_ns : Nat, count : Nat, max_ns : 0..U32Max]

TypeOK ==
    /\ clock \in 0..MaxTime
    /\ DOMAIN sc_start \subseteq Pids
    /\ \A p \in DOMAIN sc_start : sc_start[p] \in [ts : 0..MaxTime, id : 0..MaxBegins]
    /\ DOMAIN sc_accum \subseteq AccKeys
    /\ \A k \in DOMAIN sc_accum :
          sc_accum[k] \in ScVal
    /\ pc \in [Threads -> {"user", "insys", "read", "delete", "lookup",
                           "count", "maxcmp", "maxstore", "insert", "dead"}]
    /\ nr \in [Threads -> Nrs]
    /\ stale \in [Threads -> BOOLEAN]
    /\ delta \in [Threads -> 0..MaxTime]
    /\ nbegins \in 0..MaxBegins
    /\ uses \in [0..MaxBegins -> Nat]

Init ==
    /\ clock = 0
    /\ sc_start = EmptyMap
    /\ sc_accum = EmptyMap
    /\ pc = [t \in Threads |-> "user"]
    /\ nr \in [Threads -> Nrs]
    /\ ent = [t \in Threads |-> NoEnt]
    /\ stale = [t \in Threads |-> FALSE]
    /\ delta = [t \in Threads |-> 0]
    /\ nbegins = 0
    /\ mine = [t \in Threads |-> NoBegin]
    /\ uses = [i \in 0..MaxBegins |-> 0]
    /\ applied = [k \in AccKeys |-> EmptyBag]

-----------------------------------------------------------------------------
(* handle_sys_enter: sc_start[tgid] = now, BPF_ANY.                        *)

SysEnter(t, n) ==
    /\ pc[t] = "user"
    /\ nbegins < MaxBegins
    /\ sc_start' = UpdateAny(sc_start, Tgid[t], [ts |-> clock, id |-> nbegins], StartCap)
    /\ stale' = Invalidate(Tgid[t])
    /\ nr' = [nr EXCEPT ![t] = n]
    /\ mine' = [mine EXCEPT ![t] = nbegins]
    /\ nbegins' = nbegins + 1
    /\ Goto(t, "insys")
    /\ UNCHANGED <<clock, sc_accum, ent, delta, uses, applied>>

(* handle_sys_exit, in the steps another CPU can interleave with.          *)

\* tsp = bpf_map_lookup_elem(&sc_start, &pid); if (!tsp) return 0;
SysExitNoStart(t) ==
    /\ pc[t] = "insys"
    /\ Tgid[t] \notin DOMAIN sc_start
    /\ Goto(t, "user")
    /\ UNCHANGED <<clock, sc_start, sc_accum, nr, ent, stale, delta, nbegins, mine, uses, applied>>

SysExitLookup(t) ==
    /\ pc[t] = "insys"
    /\ Tgid[t] \in DOMAIN sc_start
    /\ ent' = [ent EXCEPT ![t] = sc_start[Tgid[t]]]
    /\ stale' = [stale EXCEPT ![t] = FALSE]
    /\ Goto(t, "read")
    /\ UNCHANGED <<clock, sc_start, sc_accum, nr, delta, nbegins, mine, uses, applied>>

\* delta = bpf_ktime_get_ns() - *tsp.  The map is preallocated: once the
\* element was replaced or deleted it went back to the free list and may
\* hold the value of any later update, so a stale read returns the old
\* value or any value now stored.
ReadStart(t) ==
    /\ pc[t] = "read"
    /\ \E v \in IF stale[t] THEN {ent[t]} \cup Stored(sc_start) ELSE {ent[t]} :
          /\ delta' = [delta EXCEPT ![t] = clock - v.ts]
          /\ uses' = [uses EXCEPT ![v.id] = @ + 1]
    /\ ent' = [ent EXCEPT ![t] = NoEnt]
    /\ stale' = [stale EXCEPT ![t] = FALSE]
    /\ Goto(t, "delete")
    /\ UNCHANGED <<clock, sc_start, sc_accum, nr, nbegins, mine, applied>>

\* Mutant: the delete placed after the staleness check, so a stale
\* entry is left in sc_start.
DeleteStartAfterCheck(t) ==
    /\ pc[t] = "delete"
    /\ IF delta[t] > Ceiling
       THEN Return(t) /\ UNCHANGED <<sc_start, stale>>
       ELSE /\ sc_start' = DeleteElem(sc_start, Tgid[t])
            /\ stale' = Invalidate(Tgid[t])
            /\ Goto(t, "lookup") /\ UNCHANGED delta
    /\ UNCHANGED <<clock, sc_accum, nr, ent, nbegins, mine, uses, applied>>

\* bpf_map_delete_elem(&sc_start, &pid); if (delta > 30s) return 0;
DeleteStart(t) ==
    /\ pc[t] = "delete"
    /\ sc_start' = DeleteElem(sc_start, Tgid[t])
    /\ stale' = Invalidate(Tgid[t])
    /\ IF delta[t] > Ceiling
       THEN Return(t)
       ELSE Goto(t, "lookup") /\ UNCHANGED delta
    /\ UNCHANGED <<clock, sc_accum, nr, ent, nbegins, mine, uses, applied>>

\* val = lookup(&sc_accum, &key); if (val) __sync_fetch_and_add(&val->total_ns, delta)
AccumHit(t) ==
    /\ pc[t] = "lookup"
    /\ AccKey(t) \in DOMAIN sc_accum
    /\ sc_accum' = [sc_accum EXCEPT ![AccKey(t)].total_ns = @ + delta[t]]
    /\ applied' = [applied EXCEPT ![AccKey(t)] = BagAdd(@, delta[t])]
    /\ Goto(t, "count")
    /\ UNCHANGED <<clock, sc_start, nr, ent, stale, delta, nbegins, mine, uses>>

AccumMiss(t) ==
    /\ pc[t] = "lookup"
    /\ AccKey(t) \notin DOMAIN sc_accum
    /\ Goto(t, "insert")
    /\ UNCHANGED <<clock, sc_start, sc_accum, nr, ent, stale, delta, nbegins, mine, uses, applied>>

\* __sync_fetch_and_add(&val->count, 1)
MergeCount(t) ==
    /\ pc[t] = "count"
    /\ sc_accum' = [sc_accum EXCEPT ![AccKey(t)].count = @ + 1]
    /\ Goto(t, "maxcmp")
    /\ UNCHANGED <<clock, sc_start, nr, ent, stale, delta, nbegins, mine, uses, applied>>

\* if (delta32 > val->max_ns): a plain load, not atomic with the store
MaxCompare(t) ==
    /\ pc[t] = "maxcmp"
    /\ IF Clamp32(delta[t]) > sc_accum[AccKey(t)].max_ns
       THEN Goto(t, "maxstore") /\ UNCHANGED delta
       ELSE Return(t)
    /\ UNCHANGED <<clock, sc_start, sc_accum, nr, ent, stale, nbegins, mine, uses, applied>>

\* Mutant: the duration stored into the 32-bit field without the clamp.
MaxStoreUnclamped(t) ==
    /\ pc[t] = "maxstore"
    /\ sc_accum' = [sc_accum EXCEPT ![AccKey(t)].max_ns = delta[t]]
    /\ Return(t)
    /\ UNCHANGED <<clock, sc_start, nr, ent, stale, nbegins, mine, uses, applied>>

\* val->max_ns = delta32, whatever another CPU stored meanwhile
MaxStore(t) ==
    /\ pc[t] = "maxstore"
    /\ sc_accum' = [sc_accum EXCEPT ![AccKey(t)].max_ns = Clamp32(delta[t])]
    /\ Return(t)
    /\ UNCHANGED <<clock, sc_start, nr, ent, stale, nbegins, mine, uses, applied>>

\* Mutant: the new record written with BPF_ANY, replacing a record another
\* CPU inserted (and others merged into) since this handler's lookup missed.
InsertAccumAny(t) ==
    /\ pc[t] = "insert"
    /\ sc_accum' = UpdateAny(sc_accum, AccKey(t),
                     [total_ns |-> delta[t], count |-> 1, max_ns |-> Clamp32(delta[t])],
                     AccumCap)
    /\ applied' = IF AccKey(t) \in DOMAIN sc_accum \/ ~IsFull(sc_accum, AccumCap)
                  THEN [applied EXCEPT ![AccKey(t)] = BagAdd(@, delta[t])]
                  ELSE applied
    /\ Return(t)
    /\ UNCHANGED <<clock, sc_start, nr, ent, stale, nbegins, mine, uses>>

\* new_val = {total_ns = delta, count = 1, max_ns = delta32}, BPF_NOEXIST:
\* lost when another CPU inserted the key first or the map is full.
InsertAccum(t) ==
    /\ pc[t] = "insert"
    /\ sc_accum' = UpdateNoExist(sc_accum, AccKey(t),
                     [total_ns |-> delta[t], count |-> 1, max_ns |-> Clamp32(delta[t])],
                     AccumCap)
    /\ applied' = IF InsertSucceeds(sc_accum, AccKey(t), AccumCap)
                  THEN [applied EXCEPT ![AccKey(t)] = BagAdd(@, delta[t])]
                  ELSE applied
    /\ Return(t)
    /\ UNCHANGED <<clock, sc_start, nr, ent, stale, nbegins, mine, uses>>

-----------------------------------------------------------------------------
(* Environment: time passes; a task exits (exit_group) inside a syscall,   *)
(* so its sys_exit never fires.                                            *)

Tick ==
    /\ clock < MaxTime
    /\ clock' = clock + 1
    /\ UNCHANGED <<sc_start, sc_accum, pc, nr, ent, stale, delta, nbegins, mine, uses, applied>>

\* A syscall that seccomp (SECCOMP_RET_ERRNO, RET_TRAP) or PTRACE_SYSEMU
\* skips: syscall_trace_enter returns before trace_sys_enter, so
\* handle_sys_enter never runs, but the exit work still fires sys_exit.
SeccompSkip(t, n) ==
    /\ pc[t] = "user"
    /\ nbegins < MaxBegins
    /\ nr' = [nr EXCEPT ![t] = n]
    /\ mine' = [mine EXCEPT ![t] = NoBegin]
    /\ nbegins' = nbegins + 1
    /\ Goto(t, "insys")
    /\ UNCHANGED <<clock, sc_start, sc_accum, ent, stale, delta, uses, applied>>

Die(t) ==
    /\ pc[t] = "insys"
    /\ Goto(t, "dead")
    /\ UNCHANGED <<clock, sc_start, sc_accum, nr, ent, stale, delta, nbegins, mine, uses, applied>>

Next ==
    \/ Tick
    \/ \E t \in Threads :
          \/ \E n \in Nrs : SysEnter(t, n) \/ SeccompSkip(t, n)
          \/ SysExitNoStart(t) \/ SysExitLookup(t) \/ ReadStart(t)
          \/ DeleteStart(t) \/ AccumHit(t) \/ AccumMiss(t) \/ MergeCount(t)
          \/ MaxCompare(t) \/ MaxStore(t) \/ InsertAccum(t) \/ Die(t)

Spec == Init /\ [][Next]_vars

-----------------------------------------------------------------------------
(* Properties                                                              *)

\* No handler is between the fetch-and-adds of a record and its max update.
Quiet(k) == \A t \in Threads : pc[t] \in {"count", "maxcmp", "maxstore"} => AccKey(t) # k

\* Every record of sc_accum accounts exactly for the durations merged into
\* it: count is their number, total_ns their sum, and max_ns the clamped
\* value of one of them, even when sys_exit handlers of several CPUs race
\* on the lookup-miss / BPF_NOEXIST insert and on the load/store of max_ns.
\* A merged sample is never lost again, and no key has a record without one.
AccumReflectsSamples ==
    \A k \in AccKeys :
        IF k \in DOMAIN sc_accum
        THEN Quiet(k) =>
               /\ sc_accum[k].count = BagCardinality(applied[k])
               /\ sc_accum[k].total_ns = SumBag(applied[k])
               /\ sc_accum[k].max_ns \in {Clamp32(d) : d \in BagToSet(applied[k])}
        ELSE applied[k] = EmptyBag

\* Once no syscall is in flight and no handler is running, sc_start holds
\* entries only for processes a task of which died inside a syscall: every
\* sys_enter entry is consumed by a sys_exit, stale or not, so the pairing
\* map does not fill up with leftovers of live processes.
Quiescent == \A t \in Threads : pc[t] \in {"user", "dead"}

NoLeakedStart ==
    Quiescent => DOMAIN sc_start \subseteq {Tgid[t] : t \in {u \in Threads : pc[u] = "dead"}}

\* t is the only task of its process.
SingleThreaded(t) == \A u \in Threads : Tgid[u] = Tgid[t] => u = t

\* In the step where the sys_exit handler of a single-threaded process
\* reads *tsp, it consumes the begin of the very syscall that is
\* returning, and a syscall with no sys_enter (skipped by seccomp) consumes
\* nothing: sys_exit deletes sc_start[tgid] whether or not the duration
\* passes the 30 s test, so no entry is left over for a later exit.
SysExitPairsOwnEnter ==
    [][\A t \in Threads :
          (SingleThreaded(t) /\ pc[t] = "read" /\ pc'[t] = "delete")
              => uses'[mine[t]] = uses[mine[t]] + 1]_vars

\* The spec (section 2, Pairing Table): a begin record is consumed exactly
\* once by the matching end.  No two sys_exit handlers compute a duration
\* from the same sys_enter entry.
BeginConsumedOnce == \A i \in DOMAIN uses : uses[i] <= 1
=============================================================================
