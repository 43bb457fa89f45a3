----------------------------- MODULE LeaseCache -----------------------------
(***************************************************************************)
(* What the chunk cache of tt-storage promises its callers, without its    *)
(* recency bookkeeping: a `get` that hits leases the chunk until the       *)
(* matching `release`, and an `insert` makes room by dropping chunks that  *)
(* nobody leases, no more of them than it needs.  ChunkCache implements    *)
(* it and StreamingStore is built on it.                                   *)
(***************************************************************************)
EXTENDS Integers, FiniteSets, FiniteSetsExt

CONSTANTS
    Keys,           \* chunk names
    Size,           \* bytes of each chunk
    Capacity        \* capacity_bytes

VARIABLE refs       \* leases of each chunk, Absent when it is not cached

Absent == -1

Resident(c) == {k \in Keys : c[k] # Absent}
Bytes(S) == MapThenSumSet(LAMBDA k : Size[k], S)

(* Room is made for k by dropping E out of the chunks other than k.        *)
Fits(c, k, E) == Bytes(Resident(c) \ (E \cup {k})) + Size[k] <= Capacity

Evictable(c, k) == {j \in Resident(c) \ {k} : c[j] = 0}

(* The eviction loop stops as soon as k fits, or when nothing unleased is  *)
(* left: without its last victim k did not fit.                            *)
Evictions(c, k) ==
    {E \in SUBSET Evictable(c, k) :
        /\ Fits(c, k, E) \/ E = Evictable(c, k)
        /\ E # {} => \E e \in E : ~Fits(c, k, E \ {e})}

Lease(c, k) == [c EXCEPT ![k] = @ + 1]
Return(c, k) == [c EXCEPT ![k] = IF @ > 0 THEN @ - 1 ELSE @]
Insert(c, k, E) == [j \in Keys |-> IF j = k THEN 0
                                   ELSE IF j \in E THEN Absent ELSE c[j]]

Init == refs = [k \in Keys |-> Absent]

Get(k) == refs[k] # Absent /\ refs' = Lease(refs, k)
Release(k) == refs' = Return(refs, k)
Add(k) == \E E \in Evictions(refs, k) : refs' = Insert(refs, k, E)

Next == \E k \in Keys : Get(k) \/ Release(k) \/ Add(k)

Spec == Init /\ [][Next]_refs
=============================================================================
