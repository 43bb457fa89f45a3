----------------------------- MODULE ChunkCache -----------------------------
(***************************************************************************)
(* The chunk cache (crates/tt-storage/src/cache.rs): a map of entries with *)
(* a lease count and a generation, and a recency queue of (key,            *)
(* generation) pairs in which an entry's older pairs go stale.  Every      *)
(* operation holds the one mutex, so each is one step.                     *)
(*                                                                         *)
(* DenseLimit (32 in the code) and CompactFloor (64) are parameters so     *)
(* that both sides of each are reached with a few keys.                    *)
(***************************************************************************)
EXTENDS Integers, Sequences, FiniteSets, SequencesExt

CONSTANTS Keys, Size, Capacity,
          DenseLimit,       \* up to this many entries `get` removes the old pair
          CompactFloor,     \* queue length below which stale pairs are kept
          MaxGeneration,    \* bound on the run
          MaxRefs           \* bound on the leases of one chunk

CacheAssumption ==
    /\ Size \in [Keys -> Nat] /\ Capacity \in Nat
    /\ DenseLimit \in Nat /\ CompactFloor \in Nat

VARIABLES map,              \* key -> [refs, gen], or NoEntry
          order,            \* recency queue, oldest pair first
          generation,
          live_bytes

vars == <<map, order, generation, live_bytes>>

NoEntry == [refs |-> -1, gen |-> 0]
Cached == {k \in Keys : map[k] # NoEntry}

Init ==
    /\ map = [k \in Keys |-> NoEntry]
    /\ order = <<>>
    /\ generation = 0
    /\ live_bytes = 0

Current(m, pair) == m[pair[1]] # NoEntry /\ m[pair[1]].gen = pair[2]

-----------------------------------------------------------------------------

(* A miss only advances the generation.                                    *)
GetMiss(k) ==
    /\ generation < MaxGeneration
    /\ k \notin Cached
    /\ generation' = generation + 1
    /\ UNCHANGED <<map, order, live_bytes>>

(* Drop the first pair of k when the map is small, add the new pair, and   *)
(* drop all stale pairs when the queue has outgrown the map.               *)
Touch(m, k, g) ==
    LET dropped == IF Cardinality(Cached) <= DenseLimit
                   THEN RemoveFirstMatch(order, LAMBDA pair : pair[1] = k)
                   ELSE order
        queue == Append(dropped, <<k, g>>)
        bound == Max({4 * Cardinality(Cached), CompactFloor})
    IN  IF Len(queue) > bound
        THEN SelectSeq(queue, LAMBDA pair : Current(m, pair))
        ELSE queue

(* Mutant: the queue is compacted against the map as it was before. *)
GetHitStale(k) ==
    /\ generation < MaxGeneration
    /\ k \in Cached /\ map[k].refs < MaxRefs
    /\ generation' = generation + 1
    /\ map' = [map EXCEPT ![k] = [refs |-> @.refs + 1, gen |-> generation + 1]]
    /\ order' = Touch(map, k, generation + 1)
    /\ UNCHANGED live_bytes

GetHit(k) ==
    /\ generation < MaxGeneration
    /\ k \in Cached /\ map[k].refs < MaxRefs
    /\ generation' = generation + 1
    /\ map' = [map EXCEPT ![k] = [refs |-> @.refs + 1, gen |-> generation + 1]]
    /\ order' = Touch(map', k, generation + 1)
    /\ UNCHANGED live_bytes

(* Mutant: a leased entry is dropped like any other. *)
EvictTurnLeased(s, pair, nbytes) ==
    IF s.live + nbytes <= Capacity \/ s.candidates = 0
    THEN [s EXCEPT !.rest = Append(@, pair)]
    ELSE IF ~Current(s.map, pair)
    THEN s
    ELSE [s EXCEPT !.candidates = @ - 1,
                   !.live = @ - Size[pair[1]],
                   !.map[pair[1]] = NoEntry]

(* One turn of the eviction loop on the front pair: stop when the chunk    *)
(* fits or every entry was looked at; skip a stale pair; put a leased one  *)
(* at the back; drop the entry otherwise.                                  *)
EvictTurn(s, pair, nbytes) ==
    IF s.live + nbytes <= Capacity \/ s.candidates = 0
    THEN [s EXCEPT !.rest = Append(@, pair)]
    ELSE IF ~Current(s.map, pair)
    THEN s
    ELSE IF s.map[pair[1]].refs > 0
    THEN [s EXCEPT !.candidates = @ - 1, !.back = Append(@, pair)]
    ELSE [s EXCEPT !.candidates = @ - 1,
                   !.live = @ - Size[pair[1]],
                   !.map[pair[1]] = NoEntry]

(* The loop over the queue.  It meets each pair once: a leased pair that   *)
(* was put at the back is reached only when no candidate is left.          *)
Evict(m, live, nbytes) ==
    FoldLeft(LAMBDA s, pair : EvictTurn(s, pair, nbytes),
             [map |-> m, live |-> live, rest |-> <<>>, back |-> <<>>,
              candidates |-> Cardinality({k \in Keys : m[k] # NoEntry})],
             order)

(* Replacing an entry first takes its bytes out, whoever leases it.        *)
Insert(k) ==
    /\ generation < MaxGeneration
    /\ LET without == IF k \in Cached THEN live_bytes - Size[k] ELSE live_bytes
           room == Evict([map EXCEPT ![k] = NoEntry], without, Size[k])
       IN  /\ map' = [room.map EXCEPT ![k] = [refs |-> 0, gen |-> generation + 1]]
           /\ order' = room.rest \o room.back \o <<<<k, generation + 1>>>>
           /\ live_bytes' = room.live + Size[k]
    /\ generation' = generation + 1

Release(k) ==
    /\ map' = [map EXCEPT ![k].refs = IF @ > 0 THEN @ - 1 ELSE @]
    /\ UNCHANGED <<order, generation, live_bytes>>

Next == \E k \in Keys : GetMiss(k) \/ GetHit(k) \/ Insert(k) \/ Release(k)

Spec == Init /\ [][Next]_vars

-----------------------------------------------------------------------------
(* Properties                                                              *)

(* Type invariant.                                                         *)
TypeOK ==
    /\ \A k \in Keys : map[k] = NoEntry
                       \/ map[k] \in [refs : 0..MaxRefs, gen : 1..MaxGeneration]
    /\ \A n \in DOMAIN order : order[n] \in Keys \X (1..MaxGeneration)
    /\ generation \in 0..MaxGeneration
    /\ live_bytes \in Nat

(* Every cached entry has exactly one current pair in the recency queue.   *)
(* Without it the eviction loop of `insert` would find the queue empty     *)
(* with candidates left and never end, or would drop an entry unseen.      *)
(* live_bytes is the size of what is cached.                               *)
EveryEntryQueuedOnce ==
    /\ TypeOK /\ live_bytes = FoldSet(LAMBDA k, sum : sum + Size[k], 0, Cached)
    /\ \A k \in Cached :
         Cardinality({n \in DOMAIN order : order[n] = <<k, map[k].gen>>}) = 1

(* The cache keeps the promises of LeaseCache: leased chunks survive every *)
(* insert, victims are unleased and no more than needed.                   *)
Leases == INSTANCE LeaseCache WITH refs <- [k \in Keys |-> map[k].refs]
ImplementsLeaseCache == Leases!Spec
=============================================================================
