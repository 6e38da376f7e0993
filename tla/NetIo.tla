------------------------------- MODULE NetIo -------------------------------
(***************************************************************************)
(* sockio.c and netthroughput.c, the two programs on the TCP send and      *)
(* receive paths.  Both attach to kprobe/tcp_sendmsg and                   *)
(* kprobe/tcp_cleanup_rbuf, so one send or one receive fires both, one     *)
(* after the other on the task's CPU (sockio first here; the order of two  *)
(* programs on one kprobe is their attach order, and nothing below depends *)
(* on it).  sockio adds the bytes to sockio_accum[{tgid, daddr, dport}],   *)
(* netthroughput to net_accum[tgid].  sockio also pairs kprobe and         *)
(* kretprobe of tcp_recvmsg through recv_inflight[tgid] = {ts, daddr,      *)
(* dport} and merges the wait into the same sockio_accum record: a         *)
(* compound record whose tx, rx and wait parts are inserted by whichever   *)
(* comes first, each with BPF_NOEXIST.  tcp_cleanup_rbuf runs inside       *)
(* tcp_recvmsg, between its kprobe and its kretprobe.                      *)
(*                                                                         *)
(* Each upsert is a lookup step (a hit and its fetch-and-adds are atomic:  *)
(* records are never deleted) and, on a miss, an insert step.  The exit    *)
(* handler is split at its map calls; a pointer into recv_inflight whose   *)
(* element was deleted or replaced since the lookup is stale and reads     *)
(* the old value or a recycled element's, as in LockWait.  Every modelled  *)
(* task has a tgid other than 0, so the pid == 0 filters never fire.       *)
(***************************************************************************)
EXTENDS Naturals, FiniteSets, Bags, BagsExt, TLC, HashMap

CONSTANTS
    Threads,    \* tasks that send and receive
    Tgid,       \* [Threads -> Nat]: the process of each task
    Endpoints,  \* <<daddr, dport>> of the sockets, dport in network order
    Sizes,      \* size argument of tcp_sendmsg
    Copied,     \* copied argument of tcp_cleanup_rbuf (0 or less: nothing read)
    StartCap,   \* max_entries of recv_inflight
    AccumCap,   \* max_entries of sockio_accum and of net_accum
    Ceiling,    \* 30000000000 ns
    U32Max,     \* 0xFFFFFFFF, the largest max_recv_ns
    MaxTime,    \* bound on the clock
    MaxCalls    \* bound on the number of send and receive calls

ASSUME 0 \notin {Tgid[t] : t \in Threads}
ASSUME 0 < U32Max /\ U32Max < Ceiling /\ Ceiling < MaxTime

AnyEndpoint == CHOOSE e \in Endpoints : TRUE

\* dport = __builtin_bswap16(skc_dport)
Bswap16(x) == ((x % 256) * 256) + ((x \div 256) % 256)

\* struct sockio_key { pid, daddr, dport }
SockKey(p, e) == <<p, e[1], Bswap16(e[2])>>

\* delta > 0xFFFFFFFF ? 0xFFFFFFFF : (__u32)delta
Clamp32(d) == IF d > U32Max THEN U32Max ELSE d

VARIABLES
    clock,          \* bpf_ktime_get_ns()
    recv_inflight,  \* pairing map: tgid -> [ts, ep]
    sockio_accum,   \* {tgid, daddr, dport} -> sockio_val
    net_accum,      \* tgid -> net_val
    pc,             \* where each task is
    dir,            \* "tx" in tcp_sendmsg, "rx" in tcp_cleanup_rbuf
    ep,             \* the endpoint of the task's socket
    size,           \* bytes of the current send or cleanup
    ent,            \* the recv_inflight value the exit handler looked up
    stale,          \* that element was replaced or deleted since
    delta,          \* the wait the exit handler computed
    rkey,           \* the sockio key the exit handler built from *rs
    ncalls,         \* calls so far
    missed,         \* ghost: processes a tcp_recvmsg kretprobe of which was missed
    sockSamples,    \* ghost: sockio key -> bags of merged tx, rx and waits
    netSamples      \* ghost: tgid -> bags of merged tx and rx

vars == <<clock, recv_inflight, sockio_accum, net_accum, pc, dir, ep, size, ent,
          stale, delta, rkey, ncalls, missed, sockSamples, netSamples>>

Pids == {Tgid[t] : t \in Threads}

NoSamples == [tx |-> EmptyBag, rx |-> EmptyBag, wait |-> EmptyBag]

\* The ghost bags of table g at key k gain sample s in part f.
AddSample(g, k, f, s) ==
    (k :> [IF k \in DOMAIN g THEN g[k] ELSE NoSamples
           EXCEPT ![f] = BagAdd(@, s)]) @@ g

Goto(t, to) == pc' = [pc EXCEPT ![t] = to]

Invalidate(k) == [u \in Threads |-> stale[u] \/ (pc[u] = "read" /\ Tgid[u] = k)]

\* Where a task goes once netthroughput's program has returned.
AfterNet(t) == IF dir[t] = "tx" THEN "user" ELSE "inrecv_done"

\* struct net_val {tx_bytes, rx_bytes}; net_accum: __u32 tgid -> net_val
NetVal == [tx_bytes : Nat, rx_bytes : Nat]

TypeOK ==
    /\ clock \in 0..MaxTime
    /\ DOMAIN recv_inflight \subseteq Pids
    /\ DOMAIN net_accum \subseteq Pids
    /\ \A p \in DOMAIN net_accum : net_accum[p] \in NetVal
    /\ Cardinality(DOMAIN net_accum) <= AccumCap
    /\ Cardinality(DOMAIN sockio_accum) <= AccumCap
    /\ \A k \in DOMAIN sockio_accum : sockio_accum[k].max_recv_ns \in 0..U32Max
    /\ pc \in [Threads -> {"user", "sock", "sockins", "net", "netins", "inrecv",
                           "inrecv_done", "read", "delete", "waccum", "wins",
                           "maxcmp", "maxstore"}]
    /\ ncalls \in 0..MaxCalls
    /\ missed \subseteq Pids

Init ==
    /\ clock = 0
    /\ recv_inflight = EmptyMap
    /\ sockio_accum = EmptyMap
    /\ net_accum = EmptyMap
    /\ pc = [t \in Threads |-> "user"]
    /\ dir = [t \in Threads |-> "tx"]
    /\ ep = [t \in Threads |-> AnyEndpoint]
    /\ size = [t \in Threads |-> 0]
    /\ ent = [t \in Threads |-> [ts |-> 0, ep |-> AnyEndpoint]]
    /\ stale = [t \in Threads |-> FALSE]
    /\ delta = [t \in Threads |-> 0]
    /\ rkey = [t \in Threads |-> SockKey(Tgid[t], AnyEndpoint)]
    /\ ncalls = 0
    /\ missed = {}
    /\ sockSamples = EmptyMap
    /\ netSamples = EmptyMap

-----------------------------------------------------------------------------
(* kprobe/tcp_sendmsg and kprobe/tcp_cleanup_rbuf: add_tx / add_rx of      *)
(* sockio, then add_bytes of netthroughput.                                *)

\* tcp_sendmsg(sk, msg, size) is called; both programs fire.
TcpSendmsg(t, e, n) ==
    /\ pc[t] = "user"
    /\ ncalls < MaxCalls
    /\ ncalls' = ncalls + 1
    /\ dir' = [dir EXCEPT ![t] = "tx"]
    /\ ep' = [ep EXCEPT ![t] = e]
    /\ size' = [size EXCEPT ![t] = n]
    /\ Goto(t, "sock")
    /\ UNCHANGED <<missed, clock, recv_inflight, sockio_accum, net_accum, ent, stale, delta,
                   rkey, sockSamples, netSamples>>

\* tcp_cleanup_rbuf(sk, copied), inside tcp_recvmsg: if (copied <= 0)
\* return 0, in both programs.
TcpCleanupRbuf(t, n) ==
    /\ pc[t] = "inrecv"
    /\ IF n <= 0
       THEN Goto(t, "inrecv_done") /\ UNCHANGED <<dir, size>>
       ELSE /\ dir' = [dir EXCEPT ![t] = "rx"]
            /\ size' = [size EXCEPT ![t] = n]
            /\ Goto(t, "sock")
    /\ UNCHANGED <<missed, clock, recv_inflight, sockio_accum, net_accum, ep, ent, stale, delta,
                   rkey, ncalls, sockSamples, netSamples>>

\* The sockio field a send or a cleanup adds to.
Field(t) == IF dir[t] = "tx" THEN "tx_bytes" ELSE "rx_bytes"

\* add_tx / add_rx: key = {pid, daddr, bswap16(dport)}; val = lookup; if
\* (val) __sync_fetch_and_add(&val->tx_bytes or rx_bytes, size).
SockLookup(t) ==
    LET k == SockKey(Tgid[t], ep[t]) IN
    /\ pc[t] = "sock"
    /\ IF k \in DOMAIN sockio_accum
       THEN /\ sockio_accum' = [sockio_accum EXCEPT ![k][Field(t)] = @ + size[t]]
            /\ sockSamples' = AddSample(sockSamples, k, dir[t], size[t])
            /\ Goto(t, "net")
       ELSE Goto(t, "sockins") /\ UNCHANGED <<sockio_accum, sockSamples>>
    /\ UNCHANGED <<missed, clock, recv_inflight, net_accum, dir, ep, size, ent, stale, delta,
                   rkey, ncalls, netSamples>>

\* else new_val = { .tx_bytes or .rx_bytes = size }, BPF_NOEXIST.
SockInsert(t) ==
    LET k == SockKey(Tgid[t], ep[t])
        new == [[tx_bytes |-> 0, rx_bytes |-> 0, recv_wait_ns |-> 0, recv_count |-> 0,
                 max_recv_ns |-> 0] EXCEPT ![Field(t)] = size[t]]
    IN /\ pc[t] = "sockins"
       /\ sockio_accum' = UpdateNoExist(sockio_accum, k, new, AccumCap)
       /\ sockSamples' = IF InsertSucceeds(sockio_accum, k, AccumCap)
                         THEN AddSample(sockSamples, k, dir[t], size[t]) ELSE sockSamples
       /\ Goto(t, "net")
       /\ UNCHANGED <<missed, clock, recv_inflight, net_accum, dir, ep, size, ent, stale, delta,
                      rkey, ncalls, netSamples>>

\* add_bytes(pid, tx, rx): val = lookup(&net_accum, &pid); if (val) two
\* fetch-and-adds, one of them of 0.
NetLookup(t) ==
    LET p == Tgid[t] IN
    /\ pc[t] = "net"
    /\ IF p \in DOMAIN net_accum
       THEN /\ net_accum' = [net_accum EXCEPT ![p][Field(t)] = @ + size[t]]
            /\ netSamples' = AddSample(netSamples, p, dir[t], size[t])
            /\ Goto(t, AfterNet(t))
       ELSE Goto(t, "netins") /\ UNCHANGED <<net_accum, netSamples>>
    /\ UNCHANGED <<missed, clock, recv_inflight, sockio_accum, dir, ep, size, ent, stale, delta,
                   rkey, ncalls, sockSamples>>

\* else new_val = { .tx_bytes = tx, .rx_bytes = rx }, BPF_NOEXIST.
NetInsert(t) ==
    LET p == Tgid[t]
        new == [[tx_bytes |-> 0, rx_bytes |-> 0] EXCEPT ![Field(t)] = size[t]]
    IN /\ pc[t] = "netins"
       /\ net_accum' = UpdateNoExist(net_accum, p, new, AccumCap)
       /\ netSamples' = IF InsertSucceeds(net_accum, p, AccumCap)
                        THEN AddSample(netSamples, p, dir[t], size[t]) ELSE netSamples
       /\ Goto(t, AfterNet(t))
       /\ UNCHANGED <<missed, clock, recv_inflight, sockio_accum, dir, ep, size, ent, stale, delta,
                      rkey, ncalls, sockSamples>>

-----------------------------------------------------------------------------
(* kprobe and kretprobe of tcp_recvmsg                                     *)

\* Mutant: __u32 pid = bpf_get_current_pid_tgid(), the thread id, as key.
TcpRecvmsgEnterTid(t, e) ==
    /\ pc[t] = "user"
    /\ ncalls < MaxCalls
    /\ ncalls' = ncalls + 1
    /\ recv_inflight' = UpdateAny(recv_inflight, t, [ts |-> clock, ep |-> e], StartCap)
    /\ stale' = Invalidate(t)
    /\ ep' = [ep EXCEPT ![t] = e]
    /\ Goto(t, "inrecv")
    /\ UNCHANGED <<missed, clock, sockio_accum, net_accum, dir, size, ent, delta, rkey, sockSamples, netSamples>>

\* handle_tcp_recvmsg_enter: recv_inflight[pid] = {now, daddr, dport},
\* BPF_ANY (a sibling thread's pending entry is overwritten).
TcpRecvmsgEnter(t, e) ==
    LET p == Tgid[t] IN
    /\ pc[t] = "user"
    /\ ncalls < MaxCalls
    /\ ncalls' = ncalls + 1
    /\ recv_inflight' = UpdateAny(recv_inflight, p, [ts |-> clock, ep |-> e], StartCap)
    /\ stale' = Invalidate(p)
    /\ ep' = [ep EXCEPT ![t] = e]
    /\ Goto(t, "inrecv")
    /\ UNCHANGED <<missed, clock, sockio_accum, net_accum, dir, size, ent, delta, rkey, sockSamples, netSamples>>

\* handle_tcp_recvmsg_exit: rs = lookup(&recv_inflight, &pid); if (!rs)
\* return 0;
ExitNoStart(t) ==
    /\ pc[t] = "inrecv_done"
    /\ Tgid[t] \notin DOMAIN recv_inflight
    /\ Goto(t, "user")
    /\ UNCHANGED <<missed, clock, recv_inflight, sockio_accum, net_accum, dir, ep, size, ent,
                   stale, delta, rkey, ncalls, sockSamples, netSamples>>

ExitLookup(t) ==
    /\ pc[t] = "inrecv_done"
    /\ Tgid[t] \in DOMAIN recv_inflight
    /\ ent' = [ent EXCEPT ![t] = recv_inflight[Tgid[t]]]
    /\ stale' = [stale EXCEPT ![t] = FALSE]
    /\ Goto(t, "read")
    /\ UNCHANGED <<missed, clock, recv_inflight, sockio_accum, net_accum, dir, ep, size, delta,
                   rkey, ncalls, sockSamples, netSamples>>

\* delta = now - rs->ts; daddr = rs->daddr; dport = rs->dport.  A stale
\* pointer reads the old value or a recycled element's.
ReadStart(t) ==
    /\ pc[t] = "read"
    /\ \E v \in IF stale[t] THEN {ent[t]} \cup Stored(recv_inflight) ELSE {ent[t]} :
          /\ delta' = [delta EXCEPT ![t] = clock - v.ts]
          /\ rkey' = [rkey EXCEPT ![t] = SockKey(Tgid[t], v.ep)]
    /\ stale' = [stale EXCEPT ![t] = FALSE]
    /\ Goto(t, "delete")
    /\ UNCHANGED <<missed, clock, recv_inflight, sockio_accum, net_accum, dir, ep, size, ent,
                   ncalls, sockSamples, netSamples>>

\* Mutant: the 30 s check made before the delete, returning without it.
DeleteStartAfterCheck(t) ==
    /\ pc[t] = "delete"
    /\ IF delta[t] > Ceiling
       THEN Goto(t, "user") /\ UNCHANGED <<recv_inflight, stale>>
       ELSE /\ recv_inflight' = DeleteElem(recv_inflight, Tgid[t])
            /\ stale' = Invalidate(Tgid[t])
            /\ Goto(t, "waccum")
    /\ UNCHANGED <<missed, clock, sockio_accum, net_accum, dir, ep, size, ent, delta, rkey,
                   ncalls, sockSamples, netSamples>>

\* bpf_map_delete_elem(&recv_inflight, &pid); if (delta > 30s) return 0;
DeleteStart(t) ==
    /\ pc[t] = "delete"
    /\ recv_inflight' = DeleteElem(recv_inflight, Tgid[t])
    /\ stale' = Invalidate(Tgid[t])
    /\ Goto(t, IF delta[t] > Ceiling THEN "user" ELSE "waccum")
    /\ UNCHANGED <<missed, clock, sockio_accum, net_accum, dir, ep, size, ent, delta, rkey,
                   ncalls, sockSamples, netSamples>>

\* val = lookup(&sockio_accum, &key); if (val) fetch-and-add recv_wait_ns
\* and recv_count, then the max update.
WaitLookup(t) ==
    LET k == rkey[t] IN
    /\ pc[t] = "waccum"
    /\ IF k \in DOMAIN sockio_accum
       THEN /\ sockio_accum' = [sockio_accum EXCEPT ![k].recv_wait_ns = @ + delta[t],
                                                    ![k].recv_count = @ + 1]
            /\ sockSamples' = AddSample(sockSamples, k, "wait", delta[t])
            /\ Goto(t, "maxcmp")
       ELSE Goto(t, "wins") /\ UNCHANGED <<sockio_accum, sockSamples>>
    /\ UNCHANGED <<missed, clock, recv_inflight, net_accum, dir, ep, size, ent, stale, delta,
                   rkey, ncalls, netSamples>>

\* Mutant: max_recv_ns = (__u32)delta, wrapping instead of clamping.
Trunc32(d) == d % (U32Max + 1)

WaitInsertWraps(t) ==
    LET k == rkey[t]
        new == [tx_bytes |-> 0, rx_bytes |-> 0, recv_wait_ns |-> delta[t],
                recv_count |-> 1, max_recv_ns |-> Trunc32(delta[t])]
    IN /\ pc[t] = "wins"
       /\ sockio_accum' = UpdateNoExist(sockio_accum, k, new, AccumCap)
       /\ sockSamples' = IF InsertSucceeds(sockio_accum, k, AccumCap)
                         THEN AddSample(sockSamples, k, "wait", delta[t]) ELSE sockSamples
       /\ Goto(t, "user")
       /\ UNCHANGED <<missed, clock, recv_inflight, net_accum, dir, ep, size, ent, stale, delta,
                      rkey, ncalls, netSamples>>

\* else new_val = {.recv_wait_ns = delta, .recv_count = 1,
\* .max_recv_ns = delta32}, BPF_NOEXIST.
WaitInsert(t) ==
    LET k == rkey[t]
        new == [tx_bytes |-> 0, rx_bytes |-> 0, recv_wait_ns |-> delta[t],
                recv_count |-> 1, max_recv_ns |-> Clamp32(delta[t])]
    IN /\ pc[t] = "wins"
       /\ sockio_accum' = UpdateNoExist(sockio_accum, k, new, AccumCap)
       /\ sockSamples' = IF InsertSucceeds(sockio_accum, k, AccumCap)
                         THEN AddSample(sockSamples, k, "wait", delta[t]) ELSE sockSamples
       /\ Goto(t, "user")
       /\ UNCHANGED <<missed, clock, recv_inflight, net_accum, dir, ep, size, ent, stale, delta,
                      rkey, ncalls, netSamples>>

\* if (delta32 > val->max_recv_ns)
MaxCompare(t) ==
    /\ pc[t] = "maxcmp"
    /\ Goto(t, IF Clamp32(delta[t]) > sockio_accum[rkey[t]].max_recv_ns
               THEN "maxstore" ELSE "user")
    /\ UNCHANGED <<missed, clock, recv_inflight, sockio_accum, net_accum, dir, ep, size, ent,
                   stale, delta, rkey, ncalls, sockSamples, netSamples>>

\*     val->max_recv_ns = delta32;
MaxStore(t) ==
    /\ pc[t] = "maxstore"
    /\ sockio_accum' = [sockio_accum EXCEPT ![rkey[t]].max_recv_ns = Clamp32(delta[t])]
    /\ Goto(t, "user")
    /\ UNCHANGED <<missed, clock, recv_inflight, net_accum, dir, ep, size, ent, stale, delta,
                   rkey, ncalls, sockSamples, netSamples>>

\* tcp_recvmsg returns but its kretprobe does not fire: the return
\* instance was not taken at entry because all maxactive instances were
\* held by tasks blocked in tcp_recvmsg.  handle_tcp_recvmsg_exit does
\* not run, and recv_inflight[tgid] stays.
MissReturn(t) ==
    /\ pc[t] = "inrecv_done"
    /\ missed' = missed \cup {Tgid[t]}
    /\ Goto(t, "user")
    /\ UNCHANGED <<clock, recv_inflight, sockio_accum, net_accum, dir, ep, size, ent,
                   stale, delta, rkey, ncalls, sockSamples, netSamples>>

Tick ==
    /\ clock < MaxTime
    /\ clock' = clock + 1
    /\ UNCHANGED <<missed, recv_inflight, sockio_accum, net_accum, pc, dir, ep, size, ent, stale,
                   delta, rkey, ncalls, sockSamples, netSamples>>

\* The state with the locals of tasks at user level left out: they are
\* written before they are read again.
Locals(t) == <<dir[t], ep[t], size[t], ent[t], stale[t], delta[t], rkey[t]>>

View == <<clock, recv_inflight, sockio_accum, net_accum, pc, ncalls, missed, sockSamples, netSamples,
          [t \in Threads |-> IF pc[t] = "user" THEN <<>> ELSE Locals(t)]>>

Next ==
    \/ Tick
    \/ \E t \in Threads :
          \/ \E e \in Endpoints, n \in Sizes : TcpSendmsg(t, e, n)
          \/ \E e \in Endpoints : TcpRecvmsgEnter(t, e)
          \/ \E n \in Copied : TcpCleanupRbuf(t, n)
          \/ SockLookup(t) \/ SockInsert(t) \/ NetLookup(t) \/ NetInsert(t)
          \/ ExitNoStart(t) \/ ExitLookup(t) \/ ReadStart(t) \/ DeleteStart(t)
          \/ WaitLookup(t) \/ WaitInsert(t) \/ MaxCompare(t) \/ MaxStore(t)
          \/ MissReturn(t)

Spec == Init /\ [][Next]_vars

-----------------------------------------------------------------------------
(* Properties                                                              *)

Samples(g, k) == IF k \in DOMAIN g THEN g[k] ELSE NoSamples

\* A thread has merged a wait into record k and not yet updated its max.
MaxPending(k) == \E t \in Threads : pc[t] \in {"maxcmp", "maxstore"} /\ rkey[t] = k

\* Both tables hold exactly what was merged into them, through the races
\* of tx, rx and recv-wait first inserts on one compound sockio record:
\* tx_bytes and rx_bytes are the sums of the sends and reads merged,
\* recv_wait_ns the sum and recv_count the number of waits, max_recv_ns
\* one of the waits clamped to 32 bits once its max update is done (the
\* racy update may lose the largest); and no record exists without a
\* merged sample.
AccumReflectsSamples ==
    /\ DOMAIN sockSamples = DOMAIN sockio_accum
    /\ DOMAIN netSamples = DOMAIN net_accum
    /\ \A k \in DOMAIN sockio_accum :
          LET r == sockio_accum[k]
              S == sockSamples[k]
          IN /\ r.tx_bytes = SumBag(S.tx) /\ r.rx_bytes = SumBag(S.rx)
             /\ r.recv_wait_ns = SumBag(S.wait)
             /\ r.recv_count = BagCardinality(S.wait)
             /\ r.recv_count = 0 => r.max_recv_ns = 0
             /\ r.recv_count > 0 /\ ~MaxPending(k)
                   => r.max_recv_ns \in {Clamp32(w) : w \in BagToSet(S.wait)}
    /\ \A p \in DOMAIN net_accum :
          /\ net_accum[p].tx_bytes = SumBag(netSamples[p].tx)
          /\ net_accum[p].rx_bytes = SumBag(netSamples[p].rx)

\* A task not inside tcp_recvmsg: at user level or in tcp_sendmsg.
OutsideRecv(t) ==
    \/ pc[t] = "user"
    \/ dir[t] = "tx" /\ pc[t] \in {"sock", "sockins", "net", "netins"}

\* The tcp_recvmsg entry of a process is consumed by the exit of one of its
\* threads whatever the threads' interleaving and however stale the wait:
\* once no thread of a process is inside tcp_recvmsg, recv_inflight holds
\* an entry for it only if one of its kretprobes was missed, so entries
\* pile up towards max_entries only through missed returns.
RecvStartNotLeaked ==
    \A p \in Pids :
        (\A t \in Threads : Tgid[t] = p => OutsideRecv(t))
            => p \notin DOMAIN recv_inflight \/ p \in missed
=============================================================================
