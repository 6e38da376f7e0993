# TLA+ models of the xtop eBPF collector

The repository's sources (`src/collector/ebpf/bpf/*.c`, 22 files, 1674
lines) are eBPF programs attached to kernel tracepoints and kprobes. Each
program pairs a *begin* event with an *end* event through a pairing hash
map, and/or folds samples into an accumulation hash map that an external
reader later walks. The reader, the loader and the rest of xtop are not
in this repository.

## 1. Inventory

### Components and their state

| Component | State | Operations |
|---|---|---|
| Pairing table (`sc_start`, `rq_start`, `offcpu_start`, `pgfault_start`, `reclaim_start`, `futex_start`, `conn_inflight`, `inflight`, `recv_inflight`) | key → begin timestamp (sometimes with a socket endpoint) | begin: `bpf_map_update_elem(BPF_ANY)`; end: lookup, read through the element pointer, delete |
| Accumulation table (`*_accum`, `*_counts`) | key → record of `total_ns`, `count`, `max_ns` (and sometimes `min_us`, descriptive fields) | lookup hit: atomic fetch-and-add, then merge; miss: build a record and insert with `BPF_NOEXIST` |
| Merge policies | fields of a record | sums and counts use atomic `__sync_fetch_and_add`; max and min use a plain compare-then-store; descriptive fields are last-write-wins |
| Histogram bucketer (`iolatency.c`) | 16 slots per device | `log2_slot(us)`, then `slots[slot & 15]++` |
| Staleness guard | — | drops deltas above a ceiling (30 s for syscalls and off-CPU, 10 s for the run queue, 5 s for page faults); `tcpconnlat` and `iolatency` have no ceiling |
| Counting handlers (cgthrottle, kfreeskb, sockstate, tcpreset, tcpretrans, modload, execsnoop, ptracedetect, oomkill, wbstall, swapevict, netthroughput, tcprtt) | accumulation records | one-step upsert per event |

### How the components interact

A begin handler and an end handler of the same entity (task, tgid,
socket, or device and sector) meet in a pairing table. The end handler
computes `now - ts`, deletes the entry, applies the staleness guard and
merges the sample into an accumulation table. Handlers run on every CPU
at once with no lock. The hash maps are preallocated, so the only
atomicity is per map call, plus the atomic adds. Several handlers key
their events by `tgid`, so every thread of a process shares one key.

### Hard behaviours (hazards; each is listed in PROJECT.json at its line)

- **Split end step.** Lookup, read of `*tsp` and delete are three calls.
  Two ends that share a key can both read one begin. A concurrent begin
  can replace the element, and the freed element can be recycled, between
  the lookup and the read.
- **First insert race.** Two CPUs miss on a new key and both insert with
  `BPF_NOEXIST`. The loser's sample is lost.
- **Racy max and min.** The compare-then-store can overwrite a larger max
  with a smaller one.
- **Numeric edges.** The 32-bit clamp of `max_ns`. A `now` taken before a
  concurrent rewrite makes `now - ts` underflow. The edges of the log2
  histogram buckets.
- **Crash and missed returns.** A task that exits inside a syscall never
  fires `sys_exit`, and its `sc_start` entry leaks. A kretprobe
  (`handle_mm_fault`, `tcp_recvmsg`) is missed when its `maxactive`
  instances are all in use, and its begin entry stays.
- **Key mismatch.** `runqlat.c` stores a wakeup under the thread id and
  looks it up under the tgid.
- **Full maps.** An insert into a full map is dropped silently.

### Properties that make each component correct

- **Pairing:** a begin is consumed at most once. An end pairs with the
  begin of its own entity. Entries of entities that ended do not stay.
- **Accumulation:** a record accounts exactly for the samples merged into
  it: count and total are the bag of merged samples, and `max_ns` is one
  of them, clamped.
- **Bucketer:** the slot is floor(log2(us)), saturated at 15.

## 2. Modules and how they correspond to the code

- **`HashMap.tla`** models the kernel's hash map calls as operators on
  functions:
  - `UpdateAny` is `BPF_ANY`: it fails only when the key is new and the
    map is full;
  - `UpdateNoExist` is `BPF_NOEXIST`;
  - `DeleteElem` deletes a key;
  - `Stored` is the set of values an element pointer can be recycled to.
- **`SyscallDissect.tla`** models `syscalldissect.c`.
  - Tasks (`Threads`) have a `pc`.
  - `SysEnter` is `handle_sys_enter`.
  - `handle_sys_exit` is split into the steps where another CPU can
    interleave:
    - `SysExitLookup` / `SysExitNoStart`: the sc_start lookup;
    - `ReadStart`: `*tsp`. It reads a stale or recycled value if the
      element was invalidated;
    - `DeleteStart`: the delete, then the 30 s ceiling;
    - `AccumHit` / `AccumMiss`: the accumulation lookup;
    - `MergeCount`: the two fetch-and-adds;
    - `MaxCompare` / `MaxStore`: the racy max;
    - `InsertAccum`: the `BPF_NOEXIST` insert.
  - `SeccompSkip` is a syscall that seccomp (`RET_ERRNO`, `RET_TRAP`)
    or `PTRACE_SYSEMU` skips. The kernel returns before `sys_enter`
    fires, but `sys_exit` still fires, so the exit consumes whatever
    `sc_start` holds for the tgid.
  - Syscall ids (`Nrs`) are `ctx->id`, a long: 0 and -1, the id a
    cancelled call reports. `SyscallNr` is the `(__u32)` cast of the
    accumulation key, modulo `U32Wrap`.
  - `Die` is a task exiting inside a syscall. `Tick` advances the clock.
  - Ghost variables:
    - `nbegins` numbers begins;
    - `mine` is the begin of each task's current syscall (none after a
      skipped one);
    - `uses` counts the reads of each begin;
    - `applied` is the bag of samples merged per key.
- **`RunqLat.tla`** models `runqlat.c`.
  - Tasks move between `sleeping`, `runnable` and `running`. `Block` and
    `Preempt` are the scheduler's environment steps.
  - `SchedWakeup` models `handle_sched_wakeup`.
  - The switch-in part of `handle_sched_switch_rqlat` is split like the
    exit handler above.
  - Ghost variables: `wokenAt` is the time of the task's last wakeup;
    `paired` is the timestamp its last switch-in read.
- **`Log2Slot.tla`** models `log2_slot` of `iolatency.c`.
  - `Halvings` is the unrolled loop, as a `RECURSIVE` operator.
  - `SlotIndex` is `slot & (HIST_SLOTS-1)`.
  - `RefSlot` is the reference floor(log2), defined by `CHOOSE`.

- **`OffCpu.tla`** models `offcpu.c`.
  - One `sched_switch` handler both begins and ends, per CPU, with `prev`
    and `next` model values (the idle task is `Idle`).
  - `SwitchBegin` stores `offcpu_start[tgid(prev)]`, and only when
    `prev_state` is not `TASK_INTERRUPTIBLE`.
  - `now` is read before the lookup, so `ReadStart` computes
    `(now - v) % Wrap`: a start written by another CPU after `now` was
    read wraps to a huge value, and the 30 s test drops it.
  - The rest of the handler is `LookupHit` / `LookupMiss`, then
    `ReadStart`, `DeleteStart`, `AccumHit` / `AccumMiss` and
    `InsertAccum`.
  - `Tick` advances the clock, and `Wakeup` makes a sleeping task
    runnable.
- **`LockWait.tla`** models `lockwait.c`.
  - `FutexEnter` filters the op (masked with `0x7F`) and stores only the
    waiting ops.
  - The exit handler has no op filter. It is split into `ExitLookup`,
    `ReadStart`, `DeleteStart` (drops `0` and `> 30 s`), `AccumHit` /
    `AccumMiss` and `InsertAccum`.
- **`PgFault.tla`** models `pgfault.c`.
  - It has the same split as `LockWait`.
  - `FaultExitLookup` takes the major/minor flag from the return value.
  - `MissReturn` is a kretprobe that the kernel drops (its `maxactive`
    is exhausted), which leaves the entry behind.
- **`DirectReclaim.tla`** models `directreclaim.c`, with the same split.
- **`MemStall.tla`** composes `PgFault` and `DirectReclaim`.
  - It uses two `INSTANCE ... WITH` declarations. Their task-local
    variables are renamed apart (`fpc`, `rpc`, ...), and they share one
    clock and one set of threads.
  - Direct reclaim runs inside a page fault. So a thread steps its
    reclaim only while its fault handler is at user level or waiting in
    the kernel (`fault`). It steps its fault handler only while it is not
    reclaiming.
  - A shared budget `MaxStalls` bounds the faults and reclaims together.
- **`TcpConnLat.tla`** models `tcpconnlat.c`.
  - Sockets live at addresses (`Addrs`). The kernel's socket life is a
    set of environment actions, not mapped to code:
    - `SocketAlloc`;
    - `TcpV6Connect`, which has no probe;
    - `SetStateOther`: failed connects, passive opens and frees.
  - `TcpV4Connect` is the kprobe.
  - `SetStateEstablished` is the `SYN_SENT -> ESTABLISHED` branch. Its
    lookup, read and delete are one step, because a socket's state
    changes are serialised by its lock.
  - The merge is split into `AccumHit` / `AccumMiss`, `MaxCompare` /
    `MaxStore` (the 32-bit clamp) and `InsertAccum`.
- **`IoLatency.tla`** models `iolatency.c`.
  - `BlockRqIssue` writes `inflight[(dev, sector)]`, and the pid may be 0.
  - `pending` counts the requests in flight per key.
  - The completion is split into `CompleteLookup`, `ReadStart`,
    `DeleteStart`, `AccumHit`, `MaxCompare` / `MaxStore` and
    `InsertAccum`.
    - In `ReadStart`, `start_ns` and `pid` are two loads that may each
      see a recycled element.
    - `DeleteStart` drops `delta == 0` and `pid == 0`.
  - The histogram slot is `Log2Slot!SlotIndex(delta / 1000)`, through
    `INSTANCE`. One tick is 2000 ns, so the durations of the runs fall
    in slots 1 and 2.
  - A request may complete in parts. `blk_update_request` fires the
    tracepoint at the current sector for each part, then advances the
    sector. `PartialTo` gives the key the rest continues at; `Remains(k)`
    is `"done"` or that key, and `Retire` moves the pending request there.

- **`Sentinel.tla`** models the counting handlers, which do no
  pairing: `cgthrottle.c`, `kfreeskb.c`, `sockstate.c`, `tcpreset.c`,
  `tcpretrans.c`, `modload.c`, `execsnoop.c`, `ptracedetect.c`,
  `oomkill.c`, `wbstall.c`, `swapevict.c` and `tcprtt.c`.
  - `accum[t]` is the table `t`. `hpc[c]` is the handler running on
    CPU `c`.
  - `Upsert` is the lookup that every handler makes.
    - A hit, with its fetch-and-adds, is one step: records are never
      deleted, so the value pointer stays valid.
    - A miss goes to `InsertAccum`, the `BPF_NOEXIST` insert. That insert
      fails if another CPU inserted the key in between, or if the table
      is full.
  - There is one action per handler, with the handler's filters as
    guards (`reason != 0`, `pid != 0`, the suspicious ptrace requests).
  - The tracepoint records are inputs, with only the fields that the
    handlers read: `KfreeSkbArgs`, `SetStateArgs` and `PtraceArgs`. The
    handlers' conversions of those fields are modelled as operators:
    - `StateKey` is the `(__u16)` of the two states;
    - `PtraceRequest` and `PtraceTarget` are `(__u64)request` and
      `(__u32)pid`.

    A ptrace `pid` of -1 becomes a key of its own, the largest `__u32`.
    `U32Wrap` and `U64Wrap` are the word ranges, cut to 2^30 in the run
    to fit TLC's integers.
  - `Decl` holds each table's declaration: the key set, the counters of
    its value struct, and `max_entries`. The 256-entry tables are `drop`,
    `state`, `mod` and `ptrace`, and their capacity is `SmallCap`. The
    1024- and 10240-entry tables have capacity `Cap`. `TypeOK` checks
    every table against its declaration.
  - `MarkVictim` (oomkill) writes with `BPF_ANY` in one step.
  - `ModKey` is the `memcpy` of the first `KeyLen` bytes of the module
    name. With `KeyLen = 1`, the two names in the run collide on one key.
  - tcprtt is split into:
    - `TcpRcvEstablished`: `srtt_us >> 3`, the zero filter, and the sum
      and count;
    - `RttMinCompare` / `RttMinStore`: `min_us`, with 0 meaning unset;
    - `RttMaxCompare` / `RttMaxStore`.
  - The descriptive fields are plain last-write-wins stores that no
    property is about, so they are left out. These are the last
    endpoint, `ts`, `comm`, `filename`, `ppid`, `uid`, `request` and
    `last_pid`.
  - Ghost variables: `applied` is the bag of merged samples per key, and
    `rttFirst` is the first srtt merged per endpoint.
- **`LatencyPairing.tla`** is the abstract specification of a
  latency-pairing probe class (spec sections 4.1–4.4), for keys that one
  producer at a time begins and ends. It promises:
  - `Begin` writes the entry (last begin wins, and a full table drops
    it);
  - `End` consumes the entry in one step. Only a duration in
    `MinDelta..MaxDelta` goes on to `pending`;
  - `Merge` is one atomic upsert, or a drop on a full table.

  `LockWait` maps onto it as follows:
  - an entry whose exit handler has already read `*tsp` counts as
    consumed, although it is still in `futex_start`;
  - `pending` is the bag of durations held by exit handlers that will
    merge them.

  `RunqLat` maps onto it the same way, with `MinDelta = 0`. Its
  fetch-and-add of `total_ns` comes before the one of `count`. So a task
  between the two adds still counts as pending, and its delta is left
  out of the mapped total.

  `PairingRefined` (`Pairing!Spec`) is checked in `lockwait_single` and
  `runqlat_single`. With
  two threads of one process the refinement fails, because a begin
  written between another thread's read and delete is lost. That is the
  shared-tgid behaviour of findings 1 and 3.
- **`NetIo.tla`** models `sockio.c` and `netthroughput.c`. Both attach
  to the same `tcp_sendmsg` and `tcp_cleanup_rbuf` kprobes, so a send or
  a receive runs both handlers, one after the other.
  - `TcpSendmsg` / `TcpCleanupRbuf` read the byte count. They then go
    through:
    - `SockLookup` / `SockInsert`: `sockio_accum`, keyed by
      `(tgid, daddr, ntohs(dport))`. `Bswap16` is the `bpf_ntohs`
      conversion;
    - `NetLookup` / `NetInsert`: `net_accum`, keyed by tgid.
  - `TcpRecvmsgEnter` stores `recv_inflight[tgid]` with the endpoint.
    The last begin of a process wins, and a second thread's entry
    overwrites the first's.
  - The kretprobe is split like the other end handlers:
    - `ExitNoStart` / `ExitLookup`;
    - `ReadStart`, where the element may have been recycled;
    - `DeleteStart`, with the 30 s ceiling;
    - `WaitLookup` / `WaitInsert`;
    - `MaxCompare` / `MaxStore`, with the 32-bit clamp of
      `max_recv_ns`.
  - `MissReturn` is a `tcp_recvmsg` kretprobe that the kernel drops
    (its `maxactive` instances are held by tasks blocked in the call),
    as in `PgFault`. The entry stays, and the ghost set `missed` records
    the process.
  - A thread's local variables are meaningless while it is at user
    level. `View` drops them there, and the run uses symmetry over the
    two threads.
The MC modules (`MC_*.tla`) fix tasks as model values and give the thread
group maps. `PROJECT.json` "map" gives the source lines of every
definition.

### Abstraction

- Time is abstract ticks. The ceiling, the 32-bit maximum and the clock
  bound are scaled down, keeping their order: `U32Max < Ceiling < MaxTime`.
  This order makes the clamp, the stale drop and the in-range case all
  reachable.
- Keys are small integers, and map capacities are 1–2 entries, so "map
  full" is reached.
- The recycled-element read is a nondeterministic choice: the old value,
  or any value currently stored.
- Each value struct is a record set that `TypeOK` checks, such as
  `ScVal`, `RqlatVal`, `NetVal` and Sentinel's `Decl`. Its 32-bit fields
  range over `0..U32Max`.

## 3. Runs

| Run | Config | Result | What it shows |
|---|---|---|---|
| syscalldissect | `MC_SyscallDissect.cfg` | pass (4.4 M states) | Three tasks: two share a process, one is a different process. Syscall ids 0 and -1, skipped syscalls, maps of capacity 2, three begins, and a clock up to 3 with ceiling 2 and clamp 1. `AccumReflectsSamples`: whenever no handler is mid-merge on a key, its count and total equal the bag of merged samples and `max_ns` is one of them, clamped. `SysExitPairsOwnEnter` (an action property): a `sys_exit` of a task alone in its process consumes exactly the begin of its own `sys_enter`, even when an earlier skipped syscall ran an exit with no enter. `NoLeakedStart`: when every task is idle, `sc_start` holds only entries of tasks that died in a syscall. |
| syscalldissect_double | `MC_SyscallDissect_double.cfg` | violation | `BeginConsumedOnce` fails: two threads of one process both read one begin (finding 1). |
| runqlat_single | `MC_RunqLat.cfg` | pass (123 k states) | Two single-threaded processes and four wakeups, under `FairSpec`. `SwitchMeasuresOwnWait`: once its switch handler returns, a running task whose wakeup is still current read exactly that wakeup time from `rq_start` (`paired = wokenAt`), not a missing entry, another task's wakeup or an older one. `PairingRefined`: `runqlat.c` implements `LatencyPairing`. `RqStartDrains`: every `rq_start` entry is eventually deleted, because the switch-in deletes it whatever the 10 s test decides. |
| runqlat_threads | `MC_RunqLat_threads.cfg` | violation | The same property with two threads of one process: the non-leader's wakeup is stored under its task id and never found (finding 2). |
| offcpu | `MC_OffCpu.cfg` | pass (513 k states) | Two threads `a` and `b` of one process and a process `d` on two CPUs. `OffCpuMeasuresOwnWait`: the single-threaded task, once back on a CPU, paired with its own involuntary switch-out, and with nothing after an interruptible sleep. `OffAccumReflectsSamples`: records are exact despite the first-insert race between the two threads. `OffStartHeldByWaiter`: every `offcpu_start` entry is the involuntary switch-out time of a thread of its process that is still off CPU, even across switches between two threads of one process. `TypeOK` includes that every merged sample (the ghost bag `applied`) lies in 0..Ceiling-1, so a wrapped `now - *tsp` is never merged; it also bounds each record's `total_ns` by `Ceiling * MaxSwitches`. |
| lockwait_single | `MC_LockWait.cfg` | pass (116 k states) | Single-threaded processes. `FutexSampleIsOwnWait`: every merged duration comes from the task's own waiting call, measured from its own entry. `PairingRefined`: `lockwait.c` implements `LatencyPairing`. |
| lockwait_wake | `MC_LockWait_wake.cfg` | violation | Two threads of one process. `SampleEndsAtWaitExit` fails: a `FUTEX_WAKE` return consumes the waiter's entry (finding 3). |
| tcpconnlat | `MC_TcpConnLat.cfg` | pass (1.3 M states) | Two addresses, IPv4 and IPv6 sockets, two CPUs, and three connects that may fail, with sockets freed and reused. `ConnSampleIsOwnConnect`: an IPv4 socket's merged latency comes from its own connect. `ConnAccumReflectsSamples`: records are exact, with the 32-bit clamp. |
| iolatency | `MC_IoLatency.cfg` | pass (145 k states, `FairSpec`, no symmetry) | Two CPUs complete requests, two sectors have overlapping requests, a request at one sector may complete in two parts with the rest at the other, and issues come from pid 0. `IoHistReflectsSamples`: count, total, every log2 slot and `max_ns` match the durations merged. `BucketIsLog2`: `log2_slot` gives the saturated floor(log2) bucket for every microsecond value up to 70 000 (`BucketBound`). That covers every bucket boundary up to 2^16 and the saturation at 15. Every quiet record's slots agree with that reference bucket of its samples. `InflightDrains`: every `inflight` entry is eventually deleted, including the pid 0 and zero-length completions the handler drops. |
| memstall | `MC_MemStall.cfg` | pass (1.8 M states) | Two threads `a` and `b` of one process, and a process `d`. Faults and reclaims nest, kretprobes may be missed, and the clock is shared. `FaultAccumReflectsSamples` and `ReclaimAccumReflectsSamples`: count, total and `major_count` match the merged samples. `NoLeakedFault`: when every thread is in user mode, only processes with a missed return have entries left. `NoLeakedReclaim`: `reclaim_start` is empty when no thread reclaims. |
| sentinel | `MC_Sentinel.cfg` | pass (49 k states) | Two CPUs run all twelve counting handlers, with up to three events, 256-entry tables of one entry and the others of two, and a ptrace pid of -1. `SentinelReflectsEvents`: each record's `count`, `total_pages`, `read_pages`/`write_pages` and `sum_us` equal the bag of events merged into it, and only keys with a merged event have records. `RttMinMaxBracket`: tcprtt's racy `min_us` and `max_us` are always merged samples, and they bracket the endpoint's first sample. |
| netio | `MC_NetIo.cfg` | pass (2.9 M states) | Threads `a` and `b` of one process send and receive on two endpoints, with maps of capacity 1–2, and a `tcp_recvmsg` kretprobe may be missed. `AccumReflectsSamples`: the tx and rx bytes of `sockio_accum` and `net_accum`, and `recv_count` / `total_recv_ns`, equal the merged samples. `max_recv_ns` is a clamped merged wait unless a max update is pending. `RecvStartNotLeaked`: when no thread of a process is inside `tcp_recvmsg`, `recv_inflight` has an entry for it only if one of its kretprobes was missed. |

Each property of a passing run has a mutant in PROJECT.json, and TLC
catches it:
- an unclamped max breaks `TypeOK`;
- `BPF_ANY` for the first insert breaks `AccumReflectsSamples`;
- a delete skipped when the element is stale breaks `NoLeakedStart`;
- a wakeup stored under the waker's key breaks `SwitchMeasuresOwnWait`;
- a loop without the final clamp breaks `BucketIsLog2`;
- storing the start after an interruptible sleep breaks `OffCpuMeasuresOwnWait`;
- the missing 30 s test breaks `OffCpu` `TypeOK`;
- entries stored for every futex op break `FutexSampleIsOwnWait`;
- a kept zero duration breaks `LockWait` `TypeOK`;
- a `futex_start` delete moved after the duration test breaks `LockWait` `PairingRefined`;
- a ceiling test of `>=` instead of `>` breaks `RunqLat` `PairingRefined`;
- a delete done only after the staleness check (so stale entries stay) breaks `NoLeakedFault` and `NoLeakedReclaim`;
- `v - now` instead of `now - v` breaks `PgFault` `TypeOK`;
- `BPF_ANY` for the first insert breaks `OffAccumReflectsSamples`, `ReclaimAccumReflectsSamples` and `ConnAccumReflectsSamples`;
- a first record with `major_count = 1` breaks `FaultAccumReflectsSamples`;
- pairing on any old state breaks `ConnSampleIsOwnConnect`;
- an unclamped store breaks `TcpConnLat` `TypeOK`;
- a first record without its slot breaks `IoHistReflectsSamples`;
- the pid 0 filter dropped breaks `IoLatency` `TypeOK`;
- the `reason == 0` filter dropped breaks `Sentinel` `TypeOK`;
- a writeback hit that adds one page instead of `nr_pages` breaks `SentinelReflectsEvents`;
- a reversed `min_us` comparison breaks `RttMinMaxBracket`;
- `recv_inflight` keyed by thread id instead of tgid breaks `NetIo` `TypeOK`;
- a `max_recv_ns` truncated to 32 bits instead of clamped breaks `NetIo` `AccumReflectsSamples`;
- a delete done only after the staleness check breaks `RecvStartNotLeaked`;
- a `rq_start` delete done only when the 10 s test keeps the delta breaks `RqStartDrains`;
- an `inflight` delete done only after the zero and pid 0 tests breaks `InflightDrains`;
- an `offcpu_start` delete moved into the 30 s branch breaks `OffStartHeldByWaiter`;
- a `sc_start` delete done only after the 30 s test breaks `SysExitPairsOwnEnter`: a skipped syscall's exit leaves the too-old entry, and the next exit of the task consumes it instead of its own begin.

### Observations that are not runs

- **No staleness ceiling in `tcpconnlat.c:87` and `iolatency.c:97`.**
  Spec sections 4.4 and 8 say every latency-pairing probe class discards
  a duration above its ceiling. These two handlers merge any delta, and
  the code shows this at one line.
- **Address reuse in tcpconnlat.** The entry of a failed connect is never
  deleted, and `handle_set_state` never reads `family`. An IPv6 socket
  that takes the address of a failed IPv4 connect is therefore paired
  with the leftover entry: removing the IPv4 restriction from
  `ConnSampleIsOwnConnect` makes TLC show this. The spec (section 9)
  leaves the address-reuse hazard open on purpose.
- **The racy max.** It can keep a smaller `max_ns`, and the spec says it
  is best-effort. The accumulation properties therefore only require
  `max_ns` to be one of the merged samples.

- **Colliding module keys in `modload.c:30`.** The key is the first 8
  bytes of the name. Two modules whose names share those bytes count
  into one record, and that record keeps only the first module's name.
  The model shows this with `KeyLen = 1`. `SentinelReflectsEvents` still
  holds, because it is stated per key: the code does count exactly the
  events it keys. But the spec's data model (section 3) says that "two
  logically distinct events must never collide in the key space", and
  this code breaks that for names that share 8 bytes.
- **Last begin wins in `sockio.c:119`.** `recv_inflight` is keyed by
  tgid, so two threads of one process that wait in `tcp_recvmsg` at the
  same time share one entry. The first exit consumes the later begin.
  The second exit finds nothing, and its wait is lost. The spec
  (section 3) accepts this as last-begin-wins. No entry is leaked,
  though: `RecvStartNotLeaked` holds.
- **The 0 sentinel of tcprtt's `min_us`.** A record is created with
  `min_us = srtt`, and `srtt == 0` is filtered out. So 0 never stands
  for a real sample, and `RttMinMaxBracket` holds.

### Fairness and deadlock

A BPF program runs to completion: it cannot block or sleep, and the
verifier bounds its loops. So weak fairness of each CPU's handler steps is
justified wherever a liveness property is checked. Two kernel guarantees
justify fairness of the end events too:
- In `RunqLat`, `WF_vars(SwitchIn(x))` holds because a runnable task is
  eventually picked, since CFS starves no task.
- In `IoLatency`, `WF_vars(Complete(k))` holds because the block layer
  completes every request it issued.

These two runs use `FairSpec == Spec /\ Fairness`. `iolatency` checks
without symmetry, which is not sound for liveness.

Nothing makes a futex wait return, a `recv` return, a syscall exit or a
connect complete. So the other modules assume no fairness, and only their
safety and refinement properties are checked. `PairingRefined` is a `[][Next]_vars` formula, and `SysExitPairsOwnEnter`
is a `[][A]_vars` action property; none needs fairness.

Deadlock checking is off (`CHECK_DEADLOCK FALSE`) because the bounded
models stop on purpose: the clock, begin and event bounds run out, and
then no event can happen.

## 4. Not modelled and why

- **The attachment manager, the reader and exporter, enrichment and the
  CLI** are Go code outside `src/collector/ebpf/bpf/`. The spec
  describes the reader's torn snapshot (a walk that sees records mid
  update). Its code is not in this repository.
- **Ring buffers and perf output** are not used by these programs.
- **The tracepoint records that feed only descriptive fields** are not
  modelled, because the model leaves those fields out. These are the
  `inet_sock_set_state` record of `tcpconnlat.c` (`daddr`) and
  `tcp_retransmit_skb` (`sport`, `dport`, `daddr`). tcpconnlat's state
  filter is modelled by the socket transitions instead.
- **Descriptive last-write-wins fields** are left out (see `Sentinel`
  above). No property distinguishes their values.
- **Liveness where nothing forces the end event.** A `sys_exit`, a
  futex or `recv` return, or a connect reaching `ESTABLISHED` may never
  come. So the pairing entries of those modules have no "eventually
  deleted" property. Their leaks are checked as safety instead, at the
  states where no task is inside the call (`NoLeakedStart`,
  `RecvStartNotLeaked`, `NoLeakedFault`).

## 5. Plan for later sittings

1. **More refinements of `LatencyPairing`.** The single-threaded
   configurations of `SyscallDissect` and `MemStall`, through
   mappings like the one in `LockWait`. They need configurations of
   their own, and the run budget is full.
2. **Larger instances** of `Sentinel`: three CPUs, and more keys for
   each 256-entry table.
3. **A composition of sockio with tcpconnlat on one socket.**
