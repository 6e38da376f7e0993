----------------------------- MODULE TcpConnLat -----------------------------
(***************************************************************************)
(* tcpconnlat.c: TCP connect latency per process.  A kprobe on             *)
(* tcp_v4_connect stores {ts, pid} in conn_inflight under the socket's     *)
(* address; the inet_sock_set_state tracepoint, on a SYN_SENT ->           *)
(* ESTABLISHED transition, looks the address up, computes the duration,    *)
(* deletes the entry and merges the duration into connlat_accum[pid]      *)
(* (total_ns, count, clamped racy max_ns, and the last pid and daddr,      *)
(* which this model leaves out).  There is no staleness ceiling, and an    *)
(* entry is deleted only by that one transition.                           *)
(*                                                                         *)
(* Sockets live at a small set of addresses that are freed and reused.     *)
(* The lookup, read and delete of one socket's entry happen in its own     *)
(* state-change handler, with the socket locked, so they form one step;    *)
(* the merge into connlat_accum races with the handlers of other sockets   *)
(* of the same process on other CPUs.                                      *)
(***************************************************************************)
EXTENDS Naturals, FiniteSets, Bags, BagsExt, TLC, HashMap

CONSTANTS
    CPUs,         \* processors running state-change handlers
    Addrs,        \* socket addresses (struct sock *)
    Pids,         \* processes that open sockets
    Families,     \* address families the sockets use: subset of {"v4", "v6"}
    InflightCap,  \* max_entries of conn_inflight
    AccumCap,     \* max_entries of connlat_accum
    Ceiling,      \* the 30 s staleness ceiling of the other pairing handlers
    U32Max,       \* 0xFFFFFFFF
    MaxTime,      \* bound on the clock
    MaxConnects   \* bound on the number of connect calls

ASSUME 0 \notin Pids
ASSUME U32Max < MaxTime /\ Ceiling < MaxTime

NoTime == MaxTime + 1

VARIABLES
    clock,          \* bpf_ktime_get_ns()
    conn_inflight,  \* pairing map: address -> [ts, pid]
    connlat_accum,  \* accumulation map: pid -> [total_ns, count, max_ns]
    sk,             \* the socket at each address: [st, fam, pid]
    hpc,            \* where each CPU's state-change handler is
    hpid,           \* start->pid the handler read
    delta,          \* now - start->ts
    nconnects,      \* connect calls so far
    connAt,         \* ghost: time of the connect of the socket now at an address
    ownSample,      \* ghost: the handler's sample is its socket's own connect
    hfam,           \* ghost: the family of the socket the handler established
    applied         \* ghost: pid -> bag of merged durations

vars == <<clock, conn_inflight, connlat_accum, sk, hpc, hpid, delta, nconnects,
          connAt, ownSample, hfam, applied>>

\* Socket states the handler and the model tell apart.
SkStates == {"free", "closed", "synsent", "established"}

\* delta > 0xFFFFFFFF ? 0xFFFFFFFF : (__u32)delta
Clamp32(d) == IF d > U32Max THEN U32Max ELSE d

TypeOK ==
    /\ clock \in 0..MaxTime
    /\ DOMAIN conn_inflight \subseteq Addrs
    /\ \A x \in DOMAIN conn_inflight : conn_inflight[x] \in [ts : 0..MaxTime, pid : Pids]
    /\ DOMAIN connlat_accum \subseteq Pids
    /\ \A p \in DOMAIN connlat_accum :
          connlat_accum[p] \in [total_ns : Nat, count : Nat, max_ns : 0..U32Max]
    /\ sk \in [Addrs -> [st : SkStates, fam : Families, pid : Pids]]
    /\ hpc \in [CPUs -> {"idle", "accum", "maxcmp", "maxstore", "insert"}]
    /\ nconnects \in 0..MaxConnects

Init ==
    /\ clock = 0
    /\ conn_inflight = EmptyMap
    /\ connlat_accum = EmptyMap
    /\ sk = [x \in Addrs |-> [st |-> "free", fam |-> CHOOSE f \in Families : TRUE,
                                pid |-> CHOOSE p \in Pids : TRUE]]
    /\ hpc = [c \in CPUs |-> "idle"]
    /\ hpid = [c \in CPUs |-> CHOOSE p \in Pids : TRUE]
    /\ delta = [c \in CPUs |-> 0]
    /\ nconnects = 0
    /\ connAt = [x \in Addrs |-> NoTime]
    /\ ownSample = [c \in CPUs |-> TRUE]
    /\ hfam = [c \in CPUs |-> "v4"]
    /\ applied = [p \in Pids |-> EmptyBag]

-----------------------------------------------------------------------------
(* The sockets' life, as the kernel drives it.                             *)

\* socket(): a new socket of process p at a free address.
SocketAlloc(x, f, p) ==
    /\ sk[x].st = "free"
    /\ sk' = [sk EXCEPT ![x] = [st |-> "closed", fam |-> f, pid |-> p]]
    /\ connAt' = [connAt EXCEPT ![x] = NoTime]
    /\ UNCHANGED <<clock, conn_inflight, connlat_accum, hpc, hpid, delta, nconnects,
                   ownSample, hfam, applied>>

\* handle_tcp_v4_connect: conn_inflight[sk] = {now, pid}, BPF_ANY; then
\* tcp_v4_connect sends the SYN (SYN_SENT) or fails before it.
TcpV4Connect(x, ok) ==
    /\ sk[x].st = "closed" /\ sk[x].fam = "v4"
    /\ nconnects < MaxConnects
    /\ conn_inflight' = UpdateAny(conn_inflight, x, [ts |-> clock, pid |-> sk[x].pid],
                                  InflightCap)
    /\ connAt' = [connAt EXCEPT ![x] =
                    IF UpdateSucceeds(conn_inflight, x, InflightCap) THEN clock ELSE NoTime]
    /\ sk' = [sk EXCEPT ![x].st = IF ok THEN "synsent" ELSE "closed"]
    /\ nconnects' = nconnects + 1
    /\ UNCHANGED <<clock, connlat_accum, hpc, hpid, delta, ownSample, hfam, applied>>

\* tcp_v6_connect: no kprobe.
TcpV6Connect(x) ==
    /\ sk[x].st = "closed" /\ sk[x].fam = "v6"
    /\ nconnects < MaxConnects
    /\ sk' = [sk EXCEPT ![x].st = "synsent"]
    /\ nconnects' = nconnects + 1
    /\ UNCHANGED <<clock, conn_inflight, connlat_accum, hpc, hpid, delta, connAt,
                   ownSample, hfam, applied>>

\* A transition the handler filters out (oldstate != SYN_SENT or newstate
\* != ESTABLISHED): a refused or timed-out connect (SYN_SENT -> CLOSE), a
\* passive open (SYN_RECV -> ESTABLISHED), or a close.
SetStateOther(x, to) ==
    /\ \/ sk[x].st = "synsent" /\ to = "closed"
       \/ sk[x].st = "free" /\ to = "established"
       \/ sk[x].st \in {"closed", "established"} /\ to = "free"
    /\ sk' = [sk EXCEPT ![x].st = to]
    /\ connAt' = IF to = "free" THEN [connAt EXCEPT ![x] = NoTime] ELSE connAt
    /\ UNCHANGED <<clock, conn_inflight, connlat_accum, hpc, hpid, delta, nconnects,
                   ownSample, hfam, applied>>

-----------------------------------------------------------------------------
(* handle_set_state on SYN_SENT -> ESTABLISHED, on CPU c.                  *)

\* start = lookup(&conn_inflight, &sk_key); if (!start) return 0;
SetStateNoStart(c, x) ==
    /\ hpc[c] = "idle"
    /\ sk[x].st = "synsent"
    /\ x \notin DOMAIN conn_inflight
    /\ sk' = [sk EXCEPT ![x].st = "established"]
    /\ UNCHANGED <<clock, conn_inflight, connlat_accum, hpc, hpid, delta, nconnects,
                   connAt, ownSample, hfam, applied>>

\* The pairing step, with the mutant that tests only newstate.
Established(c, x, from) ==
    /\ hpc[c] = "idle"
    /\ sk[x].st \in from
    /\ x \in DOMAIN conn_inflight
    /\ sk' = [sk EXCEPT ![x].st = "established"]
    /\ delta' = [delta EXCEPT ![c] = clock - conn_inflight[x].ts]
    /\ hpid' = [hpid EXCEPT ![c] = conn_inflight[x].pid]
    /\ ownSample' = [ownSample EXCEPT ![c] = (conn_inflight[x].ts = connAt[x])]
    /\ hfam' = [hfam EXCEPT ![c] = sk[x].fam]
    /\ conn_inflight' = DeleteElem(conn_inflight, x)
    /\ hpc' = [hpc EXCEPT ![c] = "accum"]
    /\ UNCHANGED <<clock, connlat_accum, nconnects, connAt, applied>>

\* Mutant: only newstate == TCP_ESTABLISHED tested, so a passive open
\* (SYN_RECV -> ESTABLISHED) pairs too.
SetStateAnyOld(c, x) == Established(c, x, {"synsent", "free"})

\* if (oldstate != TCP_SYN_SENT || newstate != TCP_ESTABLISHED) return 0;
\* delta = now - start->ts; pid = start->pid; delete(&conn_inflight, &sk_key)
SetStateEstablished(c, x) == Established(c, x, {"synsent"})

\* val = lookup(&connlat_accum, &pid); if (val) fetch-and-add total_ns
\* and count.  Records are never deleted: the pointer stays valid.
AccumHit(c) ==
    LET p == hpid[c] IN
    /\ hpc[c] = "accum"
    /\ p \in DOMAIN connlat_accum
    /\ connlat_accum' = [connlat_accum EXCEPT ![p].total_ns = @ + delta[c],
                                              ![p].count = @ + 1]
    /\ applied' = [applied EXCEPT ![p] = BagAdd(@, delta[c])]
    /\ hpc' = [hpc EXCEPT ![c] = "maxcmp"]
    /\ UNCHANGED <<clock, conn_inflight, sk, hpid, delta, nconnects, connAt, ownSample,
                   hfam>>

AccumMiss(c) ==
    /\ hpc[c] = "accum"
    /\ hpid[c] \notin DOMAIN connlat_accum
    /\ hpc' = [hpc EXCEPT ![c] = "insert"]
    /\ UNCHANGED <<clock, conn_inflight, connlat_accum, sk, hpid, delta, nconnects,
                   connAt, ownSample, hfam, applied>>

\* if (delta32 > val->max_ns): a plain load; last_pid and daddr are then
\* stored unconditionally (left out).
MaxCompare(c) ==
    /\ hpc[c] = "maxcmp"
    /\ hpc' = [hpc EXCEPT ![c] =
                 IF Clamp32(delta[c]) > connlat_accum[hpid[c]].max_ns
                 THEN "maxstore" ELSE "idle"]
    /\ UNCHANGED <<clock, conn_inflight, connlat_accum, sk, hpid, delta, nconnects,
                   connAt, ownSample, hfam, applied>>

\* Mutant: the 64-bit delta stored into the 32-bit field unclamped.
MaxStoreUnclamped(c) ==
    /\ hpc[c] = "maxstore"
    /\ connlat_accum' = [connlat_accum EXCEPT ![hpid[c]].max_ns = delta[c]]
    /\ hpc' = [hpc EXCEPT ![c] = "idle"]
    /\ UNCHANGED <<clock, conn_inflight, sk, hpid, delta, nconnects, connAt,
                   ownSample, hfam, applied>>

\* val->max_ns = delta32
MaxStore(c) ==
    /\ hpc[c] = "maxstore"
    /\ connlat_accum' = [connlat_accum EXCEPT ![hpid[c]].max_ns = Clamp32(delta[c])]
    /\ hpc' = [hpc EXCEPT ![c] = "idle"]
    /\ UNCHANGED <<clock, conn_inflight, sk, hpid, delta, nconnects, connAt,
                   ownSample, hfam, applied>>

\* The insert, with the mutant that writes it with BPF_ANY.
Insert(c, noexist) ==
    LET p  == hpid[c]
        v  == [total_ns |-> delta[c], count |-> 1, max_ns |-> Clamp32(delta[c])]
        ok == IF noexist THEN InsertSucceeds(connlat_accum, p, AccumCap)
              ELSE UpdateSucceeds(connlat_accum, p, AccumCap)
    IN
    /\ hpc[c] = "insert"
    /\ connlat_accum' = IF ok THEN (p :> v) @@ connlat_accum ELSE connlat_accum
    /\ applied' = IF ok THEN [applied EXCEPT ![p] = BagAdd(@, delta[c])] ELSE applied
    /\ hpc' = [hpc EXCEPT ![c] = "idle"]
    /\ UNCHANGED <<clock, conn_inflight, sk, hpid, delta, nconnects, connAt, ownSample,
                   hfam>>

\* Mutant: new_val written with BPF_ANY.
InsertAccumAny(c) == Insert(c, FALSE)

\* new_val = {delta, 1, delta32, pid, daddr}, BPF_NOEXIST.
InsertAccum(c) == Insert(c, TRUE)

Tick ==
    /\ clock < MaxTime
    /\ clock' = clock + 1
    /\ UNCHANGED <<conn_inflight, connlat_accum, sk, hpc, hpid, delta, nconnects,
                   connAt, ownSample, hfam, applied>>

Next ==
    \/ Tick
    \/ \E x \in Addrs :
          \/ \E f \in Families, p \in Pids : SocketAlloc(x, f, p)
          \/ \E ok \in BOOLEAN : TcpV4Connect(x, ok)
          \/ TcpV6Connect(x)
          \/ \E to \in SkStates : SetStateOther(x, to)
          \/ \E c \in CPUs : SetStateNoStart(c, x) \/ SetStateEstablished(c, x)
    \/ \E c \in CPUs :
          AccumHit(c) \/ AccumMiss(c) \/ MaxCompare(c) \/ MaxStore(c) \/ InsertAccum(c)

Spec == Init /\ [][Next]_vars

-----------------------------------------------------------------------------
(* Properties                                                              *)

Merging(c) == hpc[c] \in {"accum", "insert"}

\* A handler merging the connect latency of an IPv4 socket measured it
\* from that very socket's own connect, even though addresses are freed and
\* reused, connects fail and leave their entries, and passive sockets reach
\* ESTABLISHED at reused addresses.  (An IPv6 socket has no connect probe:
\* whatever it pairs with is a leftover of an IPv4 socket at its address,
\* the reuse hazard the spec leaves open in section 9.)
ConnSampleIsOwnConnect ==
    \A c \in CPUs : (Merging(c) /\ hfam[c] = "v4") => ownSample[c]

\* No handler is between the fetch-and-adds of a record and its max update.
Quiet(p) == \A c \in CPUs : hpc[c] \in {"maxcmp", "maxstore"} => hpid[c] # p

\* Every connlat_accum record accounts exactly for the latencies merged
\* into it, with several CPUs racing on the first insert and on the max:
\* count and total_ns are their number and sum, max_ns one of them clamped.
ConnAccumReflectsSamples ==
    \A p \in Pids :
        IF p \in DOMAIN connlat_accum
        THEN Quiet(p) =>
               /\ connlat_accum[p].count = BagCardinality(applied[p])
               /\ connlat_accum[p].total_ns = SumBag(applied[p])
               /\ connlat_accum[p].max_ns \in {Clamp32(d) : d \in BagToSet(applied[p])}
        ELSE applied[p] = EmptyBag
=============================================================================
