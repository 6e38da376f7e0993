------------------------------ MODULE Log2Slot ------------------------------
(***************************************************************************)
(* The histogram bucketer of iolatency.c: log2_slot(us) halves the value   *)
(* while it is above 1, at most HIST_SLOTS - 1 times, and the handler      *)
(* increments slots[slot & (HIST_SLOTS - 1)].  RefSlot is the reference   *)
(* it is checked against (BucketIsLog2 of IoLatency, for every input up    *)
(* to a bound).                                                            *)
(***************************************************************************)
EXTENDS Naturals

HIST_SLOTS == 16

\* One pass of the unrolled loop per i in 0 .. HIST_SLOTS - 2:
\* if (v > 1) { v >>= 1; slot++; }
RECURSIVE Halvings(_, _)
Halvings(v, i) ==
    IF i = HIST_SLOTS - 1 THEN 0
    ELSE IF v > 1 THEN 1 + Halvings(v \div 2, i + 1)
    ELSE Halvings(v, i + 1)

\* Mutant: the loop runs HIST_SLOTS times and the final clamp is missing.
log2_slot_unclamped(x) ==
    LET RECURSIVE Loop(_, _)
        Loop(v, i) == IF i = HIST_SLOTS THEN 0
                      ELSE IF v > 1 THEN 1 + Loop(v \div 2, i + 1)
                      ELSE Loop(v, i + 1)
    IN Loop(x, 0)

\* if (slot >= HIST_SLOTS) slot = HIST_SLOTS - 1;
log2_slot(x) ==
    LET slot == Halvings(x, 0)
    IN IF slot >= HIST_SLOTS THEN HIST_SLOTS - 1 ELSE slot

\* The index the handler increments: slots[slot & (HIST_SLOTS - 1)].
SlotIndex(x) == log2_slot(x) % HIST_SLOTS

\* Reference: floor(log2(x)) for x >= 1 (0 for x = 0), saturated at 15.
RefSlot(x) ==
    IF x < 2 THEN 0
    ELSE LET k == CHOOSE k \in 0..64 : 2^k <= x /\ x < 2^(k + 1)
         IN IF k > HIST_SLOTS - 1 THEN HIST_SLOTS - 1 ELSE k
=============================================================================
