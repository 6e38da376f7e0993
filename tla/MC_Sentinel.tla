----------------------------- MODULE MC_Sentinel -----------------------------
EXTENDS Sentinel, Integers

CONSTANTS c1, c2

\* One socket state change, TCP_SYN_SENT (2) -> TCP_ESTABLISHED (1).
MCStatePairs == {<<2, 1>>}

\* Two module names, as bytes, that agree on their first byte: with a
\* 1-byte key (KeyLen = 1, for the 8 bytes of the code) they collide.
MCNames == {<<1, 2>>, <<1, 3>>}

\* A ptrace target pid, and -1, which (__u32) turns into the largest __u32.
MCPtracePids == {5, -1}

\* The word ranges, cut to what TLC's integers hold; the pids and requests
\* used are far below them, so the truncations act as in the code.
MCU32Wrap == 2^30
MCU64Wrap == 2^30
=============================================================================
