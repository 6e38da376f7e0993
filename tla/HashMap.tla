------------------------------ MODULE HashMap ------------------------------
(***************************************************************************)
(* The kernel's BPF_MAP_TYPE_HASH map, as every handler of the collector   *)
(* uses it: a finite function from keys to values whose domain never       *)
(* grows past the map's max_entries.  These are the semantics of the       *)
(* kernel helpers bpf_map_update_elem / bpf_map_delete_elem, which are not *)
(* code of this repository; each handler module calls them at the lines    *)
(* its own actions map.  A map with no entries is the empty function.      *)
(***************************************************************************)
EXTENDS FiniteSets, TLC
LOCAL INSTANCE Functions

EmptyMap == [k \in {} |-> 0]

\* The map holds max_entries keys: a new key cannot be inserted.
IsFull(m, cap) == Cardinality(DOMAIN m) >= cap

\* The values stored in the map (elements a stale pointer can land on
\* once the preallocated element it pointed to has been recycled).
Stored(m) == Range(m)

\* bpf_map_update_elem(map, &k, &v, BPF_ANY): replace the value of a
\* present key, insert an absent key unless the map is full (-E2BIG).
UpdateSucceeds(m, k, cap) == k \in DOMAIN m \/ ~IsFull(m, cap)

UpdateAny(m, k, v, cap) ==
    IF UpdateSucceeds(m, k, cap) THEN (k :> v) @@ m ELSE m

\* bpf_map_update_elem(map, &k, &v, BPF_NOEXIST): insert an absent key
\* unless the map is full; a present key is left alone (-EEXIST).
InsertSucceeds(m, k, cap) == k \notin DOMAIN m /\ ~IsFull(m, cap)

UpdateNoExist(m, k, v, cap) ==
    IF InsertSucceeds(m, k, cap) THEN (k :> v) @@ m ELSE m

\* bpf_map_delete_elem(map, &k): remove the key if present.
DeleteElem(m, k) == Restrict(m, DOMAIN m \ {k})
=============================================================================
