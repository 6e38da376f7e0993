------------------------------ MODULE Sentinel ------------------------------
(***************************************************************************)
(* The single-shot handlers: one event, one upsert into an accumulation    *)
(* table, no pairing.  cgthrottle.c, kfreeskb.c, sockstate.c, tcpreset.c,  *)
(* tcpretrans.c, modload.c, execsnoop.c, ptracedetect.c, wbstall.c,        *)
(* swapevict.c (two handlers on one record) and tcprtt.c share one shape:  *)
(*   val = lookup(&map, &key);                                             *)
(*   if (val) { fetch-and-add the counters; overwrite descriptive fields } *)
(*   else { build new_val; update(&map, &key, &new_val, BPF_NOEXIST); }    *)
(* oomkill.c writes its record with BPF_ANY.  tcprtt.c also keeps min_us   *)
(* and max_us by plain compare-then-store, min_us using 0 as "unset".      *)
(*                                                                         *)
(* A hit with its fetch-and-adds is one step: records are never deleted,   *)
(* so the pointer stays valid.  A miss and its insert are two steps, so    *)
(* two CPUs can race on a first insert.  The descriptive fields (last      *)
(* endpoint, ts, comm, filename, ppid, uid, request, last_pid) are plain   *)
(* last-write-wins stores no property is about; they are left out.        *)
(***************************************************************************)
EXTENDS Naturals, Sequences, FiniteSets, Bags, BagsExt, TLC, HashMap

CONSTANTS
    CPUs,        \* processors running handlers
    Pids,        \* current tgids; 0 for the idle task or a kernel thread
    Cgroups,     \* bpf_get_current_cgroup_id() values
    Reasons,     \* skb drop reasons; 0 is SKB_DROP_REASON_NOT_SPECIFIED
    StatePairs,  \* (oldstate, newstate) pairs of inet_sock_set_state
    Names,       \* module names, as sequences of nonzero bytes
    KeyLen,      \* bytes of the name copied into the modload key (8)
    Requests,    \* ptrace requests (long)
    PtracePids,  \* the pid argument of ptrace (long)
    U32Wrap,     \* 2^32, the range of a __u32
    U64Wrap,     \* 2^64, the range of a __u64
    Targets,     \* OOM victim pids
    Pages,       \* nr_pages of writeback_wait
    RawSrtt,     \* tcp_sock->srtt_us values (units of 1/8 us)
    Endpoints,   \* (daddr, dport) of received segments
    SmallCap,    \* max_entries of the 256-entry tables
    Cap,         \* max_entries of the 1024- and 10240-entry tables
    MaxEvents    \* bound on the number of events handled

\* PTRACE_POKETEXT, PTRACE_POKEDATA, PTRACE_SETREGS, PTRACE_ATTACH, PTRACE_SEIZE
Suspicious == {4, 5, 13, 16, 16902}

\* __u64 key = 0; memcpy(&key, name, 8): the name, zero-padded, cut at 8.
ModKey(n) == [i \in 1..KeyLen |-> IF i <= Len(n) THEN n[i] ELSE 0]

(* The tracepoint records, with only the fields the handlers read.        *)

\* struct kfree_skb_args: unsigned int reason.
KfreeSkbArgs == [reason : Reasons]

\* struct inet_sock_set_state_args: int oldstate, int newstate.
SetStateArgs == {[oldstate |-> st[1], newstate |-> st[2]] : st \in StatePairs}

\* struct sys_enter_ptrace_args: long request, long pid.
PtraceArgs == [request : Requests, pid : PtracePids]

\* (__u64)ctx->request and (__u32)ctx->pid: two's-complement truncation.
PtraceRequest(ctx) == ctx.request % U64Wrap
PtraceTarget(ctx) == ctx.pid % U32Wrap

\* struct state_key {(__u16)oldstate, (__u16)newstate}.
StateKey(ctx) == <<ctx.oldstate % 65536, ctx.newstate % 65536>>

(* The tables' declarations: the key, the counters of the value struct   *)
(* (its last-seen fields are left out) and max_entries.                    *)

\* struct throttle_val {count}; throttle_accum: __u64 cgroup id, 1024
ThrottleAccum == [key |-> Cgroups, val |-> [count : Nat], cap |-> Cap]

\* struct drop_val {count}; drop_accum: __u32 reason, 256
DropAccum == [key |-> Reasons, val |-> [count : Nat], cap |-> SmallCap]

\* struct state_key {__u16 oldstate, newstate}; struct state_val {count}; 256
StateAccum == [key |-> (0..65535) \X (0..65535), val |-> [count : Nat], cap |-> SmallCap]

\* struct reset_val {count, last_daddr, last_dport}; reset_accum: __u32 pid
ResetAccum == [key |-> Pids, val |-> [count : Nat], cap |-> Cap]

\* struct retrans_val {count, last_sport, last_dport, last_daddr}; __u32 pid
RetransAccum == [key |-> Pids, val |-> [count : Nat], cap |-> Cap]

\* struct mod_val {count, ts, name[56]}; mod_accum: __u64 name prefix, 256
ModAccum == [key |-> [1..KeyLen -> Nat], val |-> [count : Nat, name : Names],
             cap |-> SmallCap]

\* struct exec_val {count, ts, ppid, uid, comm, filename}; __u32 pid
ExecAccum == [key |-> Pids, val |-> [count : Nat], cap |-> Cap]

\* struct ptrace_key {tracer_pid, target_pid}; ptrace_val {count, ts,
\* request, tracer_comm}; 256
PtraceAccum == [key |-> Pids \X (0..(U32Wrap - 1)), val |-> [count : Nat], cap |-> SmallCap]

\* struct oom_val {ts, total_vm, anon_rss}; oom_accum: __u32 pid, 1024
OomAccum == [key |-> Targets, val |-> [total_vm : Nat, anon_rss : Nat], cap |-> Cap]

\* struct wb_val {count, total_pages}; wb_accum: __u32 pid
WbAccum == [key |-> Pids, val |-> [count : Nat, total_pages : Nat], cap |-> Cap]

\* struct swap_val {read_pages, write_pages}; swap_accum: __u32 pid
SwapAccum == [key |-> Pids, val |-> [read_pages : Nat, write_pages : Nat], cap |-> Cap]

\* struct rtt_key {daddr, dport, pad}; rtt_val {sum_us, count, min_us,
\* max_us, last_pid}
RttAccum == [key |-> Endpoints,
             val |-> [sum_us : Nat, count : Nat, min_us : Nat, max_us : Nat], cap |-> Cap]

Decl == [throttle |-> ThrottleAccum, drop |-> DropAccum, state |-> StateAccum,
         reset |-> ResetAccum, retrans |-> RetransAccum, mod |-> ModAccum,
         exec |-> ExecAccum, ptrace |-> PtraceAccum, oom |-> OomAccum, wb |-> WbAccum,
         swap |-> SwapAccum, rtt |-> RttAccum]

Tables == DOMAIN Decl

VARIABLES
    accum,     \* table -> (key -> record)
    hpc,       \* where each CPU's handler is
    htab,      \* the table the handler writes
    hkey,      \* the key it writes
    hnew,      \* new_val it inserts after a miss
    hs,        \* its sample: 1 for a count, nr_pages, "r"/"w", srtt, a name
    nevents,   \* events handled so far
    applied,   \* ghost: table -> (key -> bag of samples merged)
    rttFirst   \* ghost: endpoint -> srtt of the sample that created the record

vars == <<accum, hpc, htab, hkey, hnew, hs, nevents, applied, rttFirst>>

Applied(t, k) == IF k \in DOMAIN applied[t] THEN applied[t][k] ELSE EmptyBag

\* applied[t][k] gains sample s.
Merged(t, k, s) ==
    applied' = [applied EXCEPT ![t] = (k :> BagAdd(Applied(t, k), s)) @@ @]

Idle(c) == hpc' = [hpc EXCEPT ![c] = "idle"]

TypeOK ==
    /\ DOMAIN accum = Tables
    /\ DOMAIN accum["drop"] \subseteq Reasons \ {0}
    /\ DOMAIN accum["exec"] \cup DOMAIN accum["wb"] \cup DOMAIN accum["swap"]
          \subseteq Pids \ {0}
    /\ \A k \in DOMAIN accum["ptrace"] : k[1] # 0
    /\ \A k \in DOMAIN accum["rtt"] : accum["rtt"][k].min_us > 0
    /\ \A t \in Tables : /\ DOMAIN accum[t] \subseteq Decl[t].key
                        /\ \A k \in DOMAIN accum[t] : accum[t][k] \in Decl[t].val
                        /\ Cardinality(DOMAIN accum[t]) <= Decl[t].cap
    /\ hpc \in [CPUs -> {"idle", "insert", "mincmp", "minstore", "maxcmp", "maxstore"}]
    /\ nevents \in 0..MaxEvents

Init ==
    /\ accum = [t \in Tables |-> EmptyMap]
    /\ hpc = [c \in CPUs |-> "idle"]
    /\ htab = [c \in CPUs |-> "throttle"]
    /\ hkey = [c \in CPUs |-> 0]
    /\ hnew = [c \in CPUs |-> [count |-> 0]]
    /\ hs = [c \in CPUs |-> 0]
    /\ nevents = 0
    /\ applied = [t \in Tables |-> EmptyMap]
    /\ rttFirst = EmptyMap

-----------------------------------------------------------------------------
(* The upsert every counting handler makes.                               *)

\* lookup(&map, &key): a hit replaces the record by hit (the record after
\* the fetch-and-adds) and goes on with the step after it (idle, or
\* tcprtt's min update); a miss goes to the BPF_NOEXIST insert of new.
Upsert(c, t, k, s, hit, after, new) ==
    /\ hpc[c] = "idle"
    /\ nevents < MaxEvents
    /\ nevents' = nevents + 1
    /\ htab' = [htab EXCEPT ![c] = t]
    /\ hkey' = [hkey EXCEPT ![c] = k]
    /\ hs' = [hs EXCEPT ![c] = s]
    /\ IF k \in DOMAIN accum[t]
       THEN /\ accum' = [accum EXCEPT ![t][k] = hit]
            /\ Merged(t, k, s)
            /\ hpc' = [hpc EXCEPT ![c] = after]
            /\ UNCHANGED hnew
       ELSE /\ hnew' = [hnew EXCEPT ![c] = new]
            /\ hpc' = [hpc EXCEPT ![c] = "insert"]
            /\ UNCHANGED <<accum, applied>>
    /\ UNCHANGED rttFirst

\* The record of key k of table t, with count + 1.
Inc(t, k) == [accum[t][k] EXCEPT !.count = @ + 1]

\* The upsert of a plain counter: count + 1, or a new {.count = 1}.
CountEvent(c, t, k) == Upsert(c, t, k, 1, Inc(t, k), "idle", [count |-> 1])

\* handle_throttle_cfs_rq: throttle_accum[cgroup id].count
ThrottleCfsRq(c, g) == CountEvent(c, "throttle", g)

\* Mutant: the reason == 0 filter dropped.
KfreeSkbAnyReason(c, ctx) == CountEvent(c, "drop", ctx.reason)

\* handle_kfree_skb: if (reason == 0) return 0; drop_accum[reason].count
KfreeSkb(c, ctx) == ctx.reason # 0 /\ CountEvent(c, "drop", ctx.reason)

\* handle_sock_set_state: state_accum[{(u16)old, (u16)new}].count
SockSetState(c, ctx) == CountEvent(c, "state", StateKey(ctx))

\* handle_tcp_send_reset: reset_accum[pid].count; no pid filter.
TcpSendReset(c, p) == CountEvent(c, "reset", p)

\* handle_tcp_retransmit: retrans_accum[pid].count; pid 0 (timer) kept.
TcpRetransmit(c, p) == CountEvent(c, "retrans", p)

\* handle_do_init_module: mod_accum[first 8 bytes of name], with the whole
\* name copied into a new record only.
DoInitModule(c, n) ==
    Upsert(c, "mod", ModKey(n), n, Inc("mod", ModKey(n)), "idle", [count |-> 1, name |-> n])

\* handle_sched_process_exec: if (pid == 0) return 0; exec_accum[pid].count
SchedProcessExec(c, p) == p # 0 /\ CountEvent(c, "exec", p)

\* handle_sys_enter_ptrace: only the suspicious requests, tracer pid != 0;
\* ptrace_accum[{tracer, target}].count
SysEnterPtrace(c, p, ctx) ==
    /\ PtraceRequest(ctx) \in Suspicious /\ p # 0
    /\ CountEvent(c, "ptrace", <<p, PtraceTarget(ctx)>>)

\* Mutant: a hit adds one page instead of nr_pages.
WritebackWaitOnePage(c, p, n) ==
    /\ p # 0
    /\ Upsert(c, "wb", p, n,
              [accum["wb"][p] EXCEPT !.count = @ + 1, !.total_pages = @ + 1],
              "idle", [count |-> 1, total_pages |-> n])

\* handle_writeback_wait: if (pid == 0) return 0; wb_accum[pid]: count and
\* total_pages by fetch-and-add.
WritebackWait(c, p, n) ==
    /\ p # 0
    /\ Upsert(c, "wb", p, n,
              [accum["wb"][p] EXCEPT !.count = @ + 1, !.total_pages = @ + n],
              "idle", [count |-> 1, total_pages |-> n])

\* handle_swap_readpage / handle_swap_writepage: if (pid == 0) return 0;
\* swap_accum[pid].read_pages or .write_pages; a miss inserts {1, 0} or {0, 1}.
SwapPage(c, p, rw) ==
    /\ p # 0
    /\ Upsert(c, "swap", p, rw,
              IF rw = "r" THEN [accum["swap"][p] EXCEPT !.read_pages = @ + 1]
                          ELSE [accum["swap"][p] EXCEPT !.write_pages = @ + 1],
              "idle", [read_pages |-> IF rw = "r" THEN 1 ELSE 0,
                       write_pages |-> IF rw = "w" THEN 1 ELSE 0])

\* handle_mark_victim: oom_accum[pid] = {ts, 0, 0}, BPF_ANY, in one step.
MarkVictim(c, v) ==
    /\ hpc[c] = "idle"
    /\ nevents < MaxEvents
    /\ nevents' = nevents + 1
    /\ accum' = [accum EXCEPT !["oom"] = UpdateAny(@, v, [total_vm |-> 0, anon_rss |-> 0],
                                                    OomAccum.cap)]
    /\ UNCHANGED <<hpc, htab, hkey, hnew, hs, applied, rttFirst>>

\* Mutant: the insert made with BPF_ANY, overwriting a racing insert.
InsertAccumAny(c) ==
    LET t == htab[c]
        k == hkey[c]
    IN /\ hpc[c] = "insert"
       /\ accum' = [accum EXCEPT ![t] = UpdateAny(@, k, hnew[c], Decl[t].cap)]
       /\ IF InsertSucceeds(accum[t], k, Decl[t].cap)
          THEN /\ Merged(t, k, hs[c])
               /\ rttFirst' = IF t = "rtt" THEN (k :> hs[c]) @@ rttFirst ELSE rttFirst
          ELSE UNCHANGED <<applied, rttFirst>>
       /\ Idle(c)
       /\ UNCHANGED <<htab, hkey, hnew, hs, nevents>>

\* The BPF_NOEXIST insert after a miss; it fails if another CPU inserted
\* the key in between or the table is full.
InsertAccum(c) ==
    LET t == htab[c]
        k == hkey[c]
    IN /\ hpc[c] = "insert"
       /\ accum' = [accum EXCEPT ![t] = UpdateNoExist(@, k, hnew[c], Decl[t].cap)]
       /\ IF InsertSucceeds(accum[t], k, Decl[t].cap)
          THEN /\ Merged(t, k, hs[c])
               /\ rttFirst' = IF t = "rtt" THEN (k :> hs[c]) @@ rttFirst ELSE rttFirst
          ELSE UNCHANGED <<applied, rttFirst>>
       /\ Idle(c)
       /\ UNCHANGED <<htab, hkey, hnew, hs, nevents>>

-----------------------------------------------------------------------------
(* handle_tcp_rcv_established                                              *)

\* srtt = srtt_us >> 3; if (srtt == 0) return 0; lookup(&rtt_accum, &ep):
\* a hit adds sum_us and count and goes on to the min and max updates.
TcpRcvEstablished(c, raw, e) ==
    LET srtt == raw \div 8 IN
    /\ srtt # 0
    /\ Upsert(c, "rtt", e, srtt,
              [accum["rtt"][e] EXCEPT !.sum_us = @ + srtt, !.count = @ + 1], "mincmp",
              [sum_us |-> srtt, count |-> 1, min_us |-> srtt, max_us |-> srtt])

\* Mutant: the min comparison reversed.
RttMinCompareSwapped(c) ==
    /\ hpc[c] = "mincmp"
    /\ LET m == accum["rtt"][hkey[c]].min_us
       IN hpc' = [hpc EXCEPT ![c] = IF hs[c] > m \/ m = 0 THEN "minstore" ELSE "maxcmp"]
    /\ UNCHANGED <<accum, htab, hkey, hnew, hs, nevents, applied, rttFirst>>

\* if (srtt < val->min_us || val->min_us == 0)
RttMinCompare(c) ==
    /\ hpc[c] = "mincmp"
    /\ LET m == accum["rtt"][hkey[c]].min_us
       IN hpc' = [hpc EXCEPT ![c] = IF hs[c] < m \/ m = 0 THEN "minstore" ELSE "maxcmp"]
    /\ UNCHANGED <<accum, htab, hkey, hnew, hs, nevents, applied, rttFirst>>

\*     val->min_us = srtt;
RttMinStore(c) ==
    /\ hpc[c] = "minstore"
    /\ accum' = [accum EXCEPT !["rtt"][hkey[c]].min_us = hs[c]]
    /\ hpc' = [hpc EXCEPT ![c] = "maxcmp"]
    /\ UNCHANGED <<htab, hkey, hnew, hs, nevents, applied, rttFirst>>

\* if (srtt > val->max_us); then the last_pid store (left out).
RttMaxCompare(c) ==
    /\ hpc[c] = "maxcmp"
    /\ hpc' = [hpc EXCEPT ![c] = IF hs[c] > accum["rtt"][hkey[c]].max_us
                                 THEN "maxstore" ELSE "idle"]
    /\ UNCHANGED <<accum, htab, hkey, hnew, hs, nevents, applied, rttFirst>>

\*     val->max_us = srtt;
RttMaxStore(c) ==
    /\ hpc[c] = "maxstore"
    /\ accum' = [accum EXCEPT !["rtt"][hkey[c]].max_us = hs[c]]
    /\ Idle(c)
    /\ UNCHANGED <<htab, hkey, hnew, hs, nevents, applied, rttFirst>>

-----------------------------------------------------------------------------
Next ==
    \E c \in CPUs :
        \/ \E g \in Cgroups : ThrottleCfsRq(c, g)
        \/ \E ctx \in KfreeSkbArgs : KfreeSkb(c, ctx)
        \/ \E ctx \in SetStateArgs : SockSetState(c, ctx)
        \/ \E p \in Pids : TcpSendReset(c, p) \/ TcpRetransmit(c, p)
                           \/ SchedProcessExec(c, p)
                           \/ \E n \in Pages : WritebackWait(c, p, n)
                           \/ \E rw \in {"r", "w"} : SwapPage(c, p, rw)
                           \/ \E ctx \in PtraceArgs : SysEnterPtrace(c, p, ctx)
        \/ \E n \in Names : DoInitModule(c, n)
        \/ \E v \in Targets : MarkVictim(c, v)
        \/ \E raw \in RawSrtt, e \in Endpoints : TcpRcvEstablished(c, raw, e)
        \/ InsertAccum(c)
        \/ RttMinCompare(c) \/ RttMinStore(c) \/ RttMaxCompare(c) \/ RttMaxStore(c)

Spec == Init /\ [][Next]_vars

-----------------------------------------------------------------------------
(* Properties                                                              *)

\* The events a record counts: its count, or read_pages + write_pages.
Tally(t, r) == IF t = "swap" THEN r.read_pages + r.write_pages ELSE r.count

CountTables == Tables \ {"oom"}

\* The keys each counting table can hold.
KeysOf == [t \in CountTables |->
             CASE t = "throttle" -> Cgroups
               [] t = "drop" -> Reasons
               [] t = "state" -> {StateKey(ctx) : ctx \in SetStateArgs}
               [] t = "mod" -> {ModKey(n) : n \in Names}
               [] t = "ptrace" -> Pids \X {PtraceTarget(ctx) : ctx \in PtraceArgs}
               [] t = "rtt" -> Endpoints
               [] OTHER -> Pids]

\* Every counting record is exactly the fold of the events merged into it,
\* with CPUs racing on first inserts and swap reads racing swap writes on
\* one record: the count is their number, total_pages and sum_us their
\* sum, read_pages and write_pages the reads and the writes; no key has a
\* record without a merged event.
SentinelReflectsEvents ==
    \A t \in CountTables :
        /\ DOMAIN applied[t] = DOMAIN accum[t]
        /\ \A k \in DOMAIN accum[t] :
              LET r == accum[t][k]
                  B == applied[t][k]
              IN /\ Tally(t, r) = BagCardinality(B)
                 /\ t = "wb" => r.total_pages = SumBag(B)
                 /\ t = "rtt" => r.sum_us = SumBag(B)
                 /\ t = "swap" => r.read_pages = CopiesIn("r", B)

\* tcprtt's min_us and max_us, updated by racy compare-then-store, with 0
\* meaning "unset" for min_us: both are always RTTs merged for the
\* endpoint, and they bracket the RTT that created the record (a smaller
\* min may be overwritten by a larger one, never by one above that first
\* sample, and a 0 is never taken for "unset" once set).
RttMinMaxBracket ==
    \A e \in DOMAIN accum["rtt"] :
        LET r == accum["rtt"][e]
            S == BagToSet(applied["rtt"][e])
        IN /\ r.min_us \in S /\ r.max_us \in S
           /\ r.min_us <= rttFirst[e] /\ rttFirst[e] <= r.max_us
=============================================================================
