------------------------------ MODULE IoLatency ------------------------------
(***************************************************************************)
(* iolatency.c: block I/O latency per process.  block_rq_issue stores      *)
(* {pid, start_ns} in inflight under the request's (dev, sector);          *)
(* block_rq_complete looks the key up, reads start_ns and pid, deletes the *)
(* entry, drops zero durations and pid 0, and merges the duration into     *)
(* iolat_hist[pid]: total_ns, count and a slot of the log2 histogram by    *)
(* fetch-and-add, max_ns by a racy compare and store, and dev only in the  *)
(* first record.  There is no staleness ceiling.                           *)
(*                                                                         *)
(* Completions run in interrupt context on any CPU, concurrently with      *)
(* issues on other CPUs; two requests for one (dev, sector) can be in      *)
(* flight at once, and the second issue replaces the first's entry.        *)
(***************************************************************************)
EXTENDS Naturals, FiniteSets, FiniteSetsExt, Bags, BagsExt, TLC, HashMap

CONSTANTS
    CPUs,         \* processors running completion handlers
    Keys,         \* (dev, sector) pairs requests go to
    DevOf,        \* [Keys -> Devs]: the dev field of a key
    PartialTo,    \* key -> the key the rest of a request continues at after
                  \* a partial completion (the sector advanced past it)
    Pids,         \* tgids current at issue time; 0 when issued from idle
    InflightCap,  \* max_entries of inflight
    AccumCap,     \* max_entries of iolat_hist
    NsPerTick,    \* nanoseconds per clock tick
    MaxTime,      \* bound on the clock
    MaxIssues,    \* bound on the number of requests
    BucketBound   \* largest microsecond value the bucketer is checked on

LS == INSTANCE Log2Slot

Slots == 0..(LS!HIST_SLOTS - 1)

\* The slot a duration of d ns is counted in: log2_slot(delta / 1000),
\* indexed with & (HIST_SLOTS - 1).
Bucket(d) == LS!SlotIndex(d \div 1000)

VARIABLES
    clock,        \* bpf_ktime_get_ns() / NsPerTick
    inflight,     \* pairing map: key -> [pid, start_ns]
    iolat_hist,   \* accumulation map: pid -> iolat_val
    pending,      \* requests issued and not yet completed, per key
    hpc,          \* where each CPU's completion handler is
    hkey,         \* the key the handler completes
    ent,          \* the inflight value the handler looked up
    stale,        \* that element was replaced or deleted since
    delta,        \* now - start->start_ns, in ns
    hpid,         \* start->pid
    nissues,      \* requests issued so far
    applied       \* ghost: pid -> bag of merged durations

vars == <<clock, inflight, iolat_hist, pending, hpc, hkey, ent, stale, delta, hpid,
          nissues, applied>>

NoStart == [pid |-> 0, start_ns |-> 0]

Invalidate(k) == [c \in CPUs |-> stale[c] \/ (hpc[c] = "read" /\ hkey[c] = k)]

\* The handler returns; its locals are gone.
Done(c) == /\ hpc' = [hpc EXCEPT ![c] = "idle"]
           /\ delta' = [delta EXCEPT ![c] = 0]
           /\ hpid' = [hpid EXCEPT ![c] = 0]

\* struct iolat_val {total_ns, max_ns, count, slots[16], dev}
NewVal(d, dev) ==
    [total_ns |-> d, max_ns |-> d, count |-> 1, dev |-> dev,
     slots |-> [i \in Slots |-> IF i = Bucket(d) THEN 1 ELSE 0]]

TypeOK ==
    /\ clock \in 0..MaxTime
    /\ DOMAIN inflight \subseteq Keys
    /\ \A k \in DOMAIN inflight :
          inflight[k] \in [pid : Pids, start_ns : 0..(MaxTime * NsPerTick)]
    /\ DOMAIN iolat_hist \subseteq Pids \ {0}
    /\ \A p \in DOMAIN iolat_hist :
          iolat_hist[p] \in [total_ns : Nat, max_ns : Nat, count : Nat,
                             dev : {DevOf[k] : k \in Keys}, slots : [Slots -> Nat]]
    /\ pending \in [Keys -> 0..MaxIssues]
    /\ hpc \in [CPUs -> {"idle", "read", "delete", "accum", "maxcmp", "maxstore",
                         "insert"}]
    /\ nissues \in 0..MaxIssues

Init ==
    /\ clock = 1
    /\ inflight = EmptyMap
    /\ iolat_hist = EmptyMap
    /\ pending = [k \in Keys |-> 0]
    /\ hpc = [c \in CPUs |-> "idle"]
    /\ hkey = [c \in CPUs |-> CHOOSE k \in Keys : TRUE]
    /\ ent = [c \in CPUs |-> NoStart]
    /\ stale = [c \in CPUs |-> FALSE]
    /\ delta = [c \in CPUs |-> 0]
    /\ hpid = [c \in CPUs |-> 0]
    /\ nissues = 0
    /\ applied = [p \in Pids |-> EmptyBag]

-----------------------------------------------------------------------------
\* handle_block_rq_issue: inflight[{dev, sector}] = {pid, now}, BPF_ANY.
BlockRqIssue(k, p) ==
    /\ nissues < MaxIssues
    /\ inflight' = UpdateAny(inflight, k, [pid |-> p, start_ns |-> clock * NsPerTick],
                             InflightCap)
    /\ stale' = Invalidate(k)
    /\ pending' = [pending EXCEPT ![k] = @ + 1]
    /\ nissues' = nissues + 1
    /\ UNCHANGED <<clock, iolat_hist, hpc, hkey, ent, delta, hpid, applied>>

(* handle_block_rq_complete, on CPU c, for one pending request of key k.  *)
(* blk_update_request fires the tracepoint at the request's current       *)
(* sector for every part of it that completes, then advances the sector: *)
(* a partial completion leaves the rest pending at PartialTo[k]; rest is  *)
(* that key, or "done" when the request has ended.                        *)

Remains(k) == {"done"} \cup {PartialTo[j] : j \in DOMAIN PartialTo \cap {k}}

Retire(k, rest) ==
    pending' = [j \in Keys |-> pending[j] - (IF j = k THEN 1 ELSE 0)
                                          + (IF j = rest THEN 1 ELSE 0)]

\* start = bpf_map_lookup_elem(&inflight, &key); if (!start) return 0;
CompleteNoStart(c, k, rest) ==
    /\ hpc[c] = "idle"
    /\ pending[k] > 0
    /\ k \notin DOMAIN inflight
    /\ Retire(k, rest)
    /\ UNCHANGED <<clock, inflight, iolat_hist, hpc, hkey, ent, stale, delta, hpid,
                   nissues, applied>>

CompleteLookup(c, k, rest) ==
    /\ hpc[c] = "idle"
    /\ pending[k] > 0
    /\ k \in DOMAIN inflight
    /\ Retire(k, rest)
    /\ hkey' = [hkey EXCEPT ![c] = k]
    /\ ent' = [ent EXCEPT ![c] = inflight[k]]
    /\ stale' = [stale EXCEPT ![c] = FALSE]
    /\ hpc' = [hpc EXCEPT ![c] = "read"]
    /\ UNCHANGED <<clock, inflight, iolat_hist, delta, hpid, nissues, applied>>

\* delta = now - start->start_ns; pid = start->pid.  Two loads through a
\* pointer into a preallocated map: once the element was replaced it may
\* be recycled in between, so each field comes from the old value or any
\* value stored now.
ReadStart(c) ==
    /\ hpc[c] = "read"
    /\ LET vals == IF stale[c] THEN {ent[c]} \cup Stored(inflight) ELSE {ent[c]}
       IN \E v1, v2 \in vals :
             /\ delta' = [delta EXCEPT ![c] = clock * NsPerTick - v1.start_ns]
             /\ hpid' = [hpid EXCEPT ![c] = v2.pid]
    /\ ent' = [ent EXCEPT ![c] = NoStart]
    /\ stale' = [stale EXCEPT ![c] = FALSE]
    /\ hpc' = [hpc EXCEPT ![c] = "delete"]
    /\ UNCHANGED <<clock, inflight, iolat_hist, pending, hkey, nissues, applied>>

\* Mutant: the pid == 0 test dropped, so requests issued from the idle
\* task are credited to pid 0.
DeleteStartKeepsPidZero(c) ==
    /\ hpc[c] = "delete"
    /\ inflight' = DeleteElem(inflight, hkey[c])
    /\ stale' = Invalidate(hkey[c])
    /\ IF delta[c] = 0
       THEN Done(c)
       ELSE hpc' = [hpc EXCEPT ![c] = "accum"] /\ UNCHANGED <<delta, hpid>>
    /\ UNCHANGED <<clock, iolat_hist, pending, hkey, ent, nissues, applied>>

\* Mutant: the delete moved after the zero and pid tests, so the entry
\* of a request issued from pid 0 stays.
DeleteStartAfterCheck(c) ==
    /\ hpc[c] = "delete"
    /\ IF delta[c] = 0 \/ hpid[c] = 0
       THEN Done(c) /\ UNCHANGED <<inflight, stale>>
       ELSE /\ inflight' = DeleteElem(inflight, hkey[c])
            /\ stale' = Invalidate(hkey[c])
            /\ hpc' = [hpc EXCEPT ![c] = "accum"] /\ UNCHANGED <<delta, hpid>>
    /\ UNCHANGED <<clock, iolat_hist, pending, hkey, ent, nissues, applied>>

\* bpf_map_delete_elem(&inflight, &key); if (delta == 0 || pid == 0) return 0;
DeleteStart(c) ==
    /\ hpc[c] = "delete"
    /\ inflight' = DeleteElem(inflight, hkey[c])
    /\ stale' = Invalidate(hkey[c])
    /\ IF delta[c] = 0 \/ hpid[c] = 0
       THEN Done(c)
       ELSE hpc' = [hpc EXCEPT ![c] = "accum"] /\ UNCHANGED <<delta, hpid>>
    /\ UNCHANGED <<clock, iolat_hist, pending, hkey, ent, nissues, applied>>

\* val = lookup(&iolat_hist, &pid); if (val) fetch-and-add total_ns,
\* count and slots[slot & 15].  Records are never deleted.
AccumHit(c) ==
    LET p == hpid[c] IN
    /\ hpc[c] = "accum"
    /\ p \in DOMAIN iolat_hist
    /\ iolat_hist' = [iolat_hist EXCEPT ![p].total_ns = @ + delta[c],
                                        ![p].count = @ + 1,
                                        ![p].slots[Bucket(delta[c])] = @ + 1]
    /\ applied' = [applied EXCEPT ![p] = BagAdd(@, delta[c])]
    /\ hpc' = [hpc EXCEPT ![c] = "maxcmp"]
    /\ UNCHANGED <<clock, inflight, pending, hkey, ent, stale, delta, hpid, nissues>>

AccumMiss(c) ==
    /\ hpc[c] = "accum"
    /\ hpid[c] \notin DOMAIN iolat_hist
    /\ hpc' = [hpc EXCEPT ![c] = "insert"]
    /\ UNCHANGED <<clock, inflight, iolat_hist, pending, hkey, ent, stale, delta, hpid,
                   nissues, applied>>

\* if (delta > val->max_ns): a plain load of the 64-bit max
MaxCompare(c) ==
    /\ hpc[c] = "maxcmp"
    /\ IF delta[c] > iolat_hist[hpid[c]].max_ns
       THEN hpc' = [hpc EXCEPT ![c] = "maxstore"] /\ UNCHANGED <<delta, hpid>>
       ELSE Done(c)
    /\ UNCHANGED <<clock, inflight, iolat_hist, pending, hkey, ent, stale, nissues,
                   applied>>

\* val->max_ns = delta
MaxStore(c) ==
    /\ hpc[c] = "maxstore"
    /\ iolat_hist' = [iolat_hist EXCEPT ![hpid[c]].max_ns = delta[c]]
    /\ Done(c)
    /\ UNCHANGED <<clock, inflight, pending, hkey, ent, stale, nissues, applied>>

\* Mutant: new_val.slots[slot] = 1 forgotten.
InsertAccumNoSlot(c) ==
    LET p == hpid[c] IN
    /\ hpc[c] = "insert"
    /\ iolat_hist' = UpdateNoExist(iolat_hist, p,
                       [NewVal(delta[c], DevOf[hkey[c]]) EXCEPT !.slots = [i \in Slots |-> 0]],
                       AccumCap)
    /\ applied' = IF InsertSucceeds(iolat_hist, p, AccumCap)
                  THEN [applied EXCEPT ![p] = BagAdd(@, delta[c])] ELSE applied
    /\ Done(c)
    /\ UNCHANGED <<clock, inflight, pending, hkey, ent, stale, nissues>>

\* new_val = {delta, delta, 1, slots[slot & 15] = 1, dev}, BPF_NOEXIST.
InsertAccum(c) ==
    LET p == hpid[c] IN
    /\ hpc[c] = "insert"
    /\ iolat_hist' = UpdateNoExist(iolat_hist, p, NewVal(delta[c], DevOf[hkey[c]]), AccumCap)
    /\ applied' = IF InsertSucceeds(iolat_hist, p, AccumCap)
                  THEN [applied EXCEPT ![p] = BagAdd(@, delta[c])] ELSE applied
    /\ Done(c)
    /\ UNCHANGED <<clock, inflight, pending, hkey, ent, stale, nissues>>

Tick ==
    /\ clock < MaxTime
    /\ clock' = clock + 1
    /\ UNCHANGED <<inflight, iolat_hist, pending, hpc, hkey, ent, stale, delta, hpid,
                   nissues, applied>>

Next ==
    \/ Tick
    \/ \E k \in Keys, p \in Pids : BlockRqIssue(k, p)
    \/ \E c \in CPUs :
          \/ \E k \in Keys : \E rest \in Remains(k) :
                CompleteNoStart(c, k, rest) \/ CompleteLookup(c, k, rest)
          \/ ReadStart(c) \/ DeleteStart(c) \/ AccumHit(c) \/ AccumMiss(c)
          \/ MaxCompare(c) \/ MaxStore(c) \/ InsertAccum(c)

Spec == Init /\ [][Next]_vars

\* A completion of a request of key k starts on some CPU.
Complete(k) ==
    \E c \in CPUs, rest \in Remains(k) : CompleteNoStart(c, k, rest) \/ CompleteLookup(c, k, rest)

\* The steps of handle_block_rq_complete on CPU c, after its lookup.
CompleteHandler(c) ==
    \/ ReadStart(c) \/ DeleteStart(c) \/ AccumHit(c) \/ AccumMiss(c)
    \/ MaxCompare(c) \/ MaxStore(c) \/ InsertAccum(c)

\* The block layer ends every request it issued (an error or a timeout
\* ends in block_rq_complete too), and a BPF program runs to its end.
\* Issues and time are the workload's and get no fairness.
Fairness ==
    /\ \A k \in Keys : WF_vars(Complete(k))
    /\ \A c \in CPUs : WF_vars(CompleteHandler(c))

FairSpec == Spec /\ Fairness

-----------------------------------------------------------------------------
(* Properties                                                              *)

\* No handler is between the fetch-and-adds of p's record and its max.
Quiet(p) == \A c \in CPUs : hpc[c] \in {"maxcmp", "maxstore"} => hpid[c] # p

\* How many of the durations merged for p fall in histogram slot i.
InSlot(p, i) ==
    MapThenSumSet(LAMBDA d : applied[p][d],
                  {d \in BagToSet(applied[p]) : Bucket(d) = i})

\* Every iolat_hist record is the histogram of the durations merged into
\* it: count and total_ns are their number and sum, each slot counts the
\* durations whose log2 bucket it is (so the slots add up to count), and
\* max_ns is one of them -- with completions of several CPUs racing on the
\* first insert and on the max, and issues replacing in-flight entries.
IoHistReflectsSamples ==
    \A p \in Pids :
        IF p \in DOMAIN iolat_hist
        THEN Quiet(p) =>
               /\ iolat_hist[p].count = BagCardinality(applied[p])
               /\ iolat_hist[p].total_ns = SumBag(applied[p])
               /\ \A i \in Slots : iolat_hist[p].slots[i] = InSlot(p, i)
               /\ iolat_hist[p].max_ns \in BagToSet(applied[p])
        ELSE applied[p] = EmptyBag

\* log2_slot agrees with the saturated floor(log2) on every input up to
\* BucketBound (a constant formula, which TLC evaluates once).
BucketTableIsLog2 == \A x \in 0..BucketBound : LS!SlotIndex(x) = LS!RefSlot(x)

\* How many of the durations merged for p have floor(log2(us)) bucket i.
InRefSlot(p, i) ==
    MapThenSumSet(LAMBDA d : applied[p][d],
                  {d \in BagToSet(applied[p]) : LS!RefSlot(d \div 1000) = i})

\* log2_slot of the completion handler puts a duration of us microseconds
\* in the saturated floor(log2(us)) bucket: 0 and 1 go to bucket 0, 2 to
\* 1, 4 to 2, and every value from 2^15 on to bucket 15, never wrapping
\* back to bucket 0 through the & (HIST_SLOTS - 1) index mask.  So each
\* slot of every quiet iolat_hist record counts exactly the merged
\* durations of that log2 bucket, and the bucketer does so for every
\* input up to BucketBound, not only the durations the model produces.
BucketIsLog2 ==
    /\ BucketTableIsLog2
    /\ \A p \in DOMAIN iolat_hist :
          Quiet(p) => \A i \in Slots : iolat_hist[p].slots[i] = InRefSlot(p, i)

\* Every inflight entry is eventually deleted: each issue's entry is
\* consumed by a completion of its (dev, sector), also when a second issue
\* overwrote it, when another CPU's completion deleted it between lookup
\* and delete, and when the request came from pid 0 and is not merged.
\* So an entry is left behind, for a later request to pair with across
\* the missing staleness ceiling, only by a request whose issue or
\* completion the tracepoints never saw.
InflightDrains == \A k \in Keys : (k \in DOMAIN inflight) ~> (k \notin DOMAIN inflight)
=============================================================================
