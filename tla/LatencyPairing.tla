--------------------------- MODULE LatencyPairing ---------------------------
(***************************************************************************)
(* What a latency-pairing probe class promises (spec sections 4.1-4.4),   *)
(* for keys that one producer at a time begins and ends:                  *)
(*   - begin(key, now) writes the pairing entry, last-begin-wins, unless   *)
(*     the pairing table is full;                                          *)
(*   - end(key, now) consumes the entry atomically: the duration is now    *)
(*     minus the entry's time, and only a duration in MinDelta..MaxDelta   *)
(*     (the staleness guard) goes on to be merged;                         *)
(*   - the merge is an atomic upsert into the accumulation table: a hit    *)
(*     adds to total and count, a miss inserts {d, 1}, and a miss on a     *)
(*     full table drops the sample.                                        *)
(* pending holds the durations consumed and not yet merged, so the end and *)
(* the merge are two steps, as the handlers' calls are.                    *)
(***************************************************************************)
EXTENDS Naturals, Bags, HashMap

CONSTANTS
    Keys,       \* pairing and accumulation keys
    StartCap,   \* capacity of the pairing table
    AccumCap,   \* capacity of the accumulation table
    MinDelta,   \* the smallest duration kept
    MaxDelta    \* the staleness ceiling: the largest duration kept

VARIABLES
    now,        \* the monotonic clock
    start,      \* pairing table: key -> begin time
    pending,    \* key -> bag of consumed durations not merged yet
    accum       \* accumulation table: key -> [total, count]

vars == <<now, start, pending, accum>>

Init ==
    /\ now = 0
    /\ start = EmptyMap
    /\ pending = [k \in Keys |-> EmptyBag]
    /\ accum = EmptyMap

Begin(k) ==
    /\ start' = UpdateAny(start, k, now, StartCap)
    /\ UNCHANGED <<now, pending, accum>>

End(k) ==
    LET d == now - start[k] IN
    /\ k \in DOMAIN start
    /\ start' = DeleteElem(start, k)
    /\ pending' = IF d \in MinDelta..MaxDelta
                  THEN [pending EXCEPT ![k] = @ (+) SetToBag({d})]
                  ELSE pending
    /\ UNCHANGED <<now, accum>>

\* One pending duration d of key k is upserted, or dropped on a full table.
Merge(k, d) ==
    /\ BagIn(d, pending[k])
    /\ pending' = [pending EXCEPT ![k] = @ (-) SetToBag({d})]
    /\ accum' = IF k \in DOMAIN accum
                THEN [accum EXCEPT ![k] = [total |-> @.total + d, count |-> @.count + 1]]
                ELSE UpdateNoExist(accum, k, [total |-> d, count |-> 1], AccumCap)
    /\ UNCHANGED <<now, start>>

Tick ==
    /\ now' = now + 1
    /\ UNCHANGED <<start, pending, accum>>

Next ==
    \/ Tick
    \/ \E k \in Keys :
          \/ Begin(k)
          \/ End(k)
          \/ \E d \in BagToSet(pending[k]) : Merge(k, d)

Spec == Init /\ [][Next]_vars
=============================================================================
