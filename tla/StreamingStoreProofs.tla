------------------------ MODULE StreamingStoreProofs ------------------------
(***************************************************************************)
(* Leases and reads of the chunk store, for any number of chunks, callers  *)
(* and workers and any queue limit: no lease outlives its holder whatever  *)
(* dies, and while workers neither panic nor fail to start the leases of a *)
(* chunk are exactly its holders and each pending read is served once.     *)
(***************************************************************************)
EXTENDS StreamingStore, FiniteSetTheorems, SequenceTheorems, TLAPS

(* The provers a leaf is tried with, unless it names its own.              *)
USE SMT, Zenon, SMTT(30)

CallerLabels == {"idle", "check", "lock", "ensure", "wait", "asleep", "after", "errors", "hold"}
WorkerLabels == {"unborn", "check", "asleep", "read", "loaded", "settle", "signal", "leaving",
                 "exited"}
Pairs == {NoPair, InMap, Done} \cup {HeldBy(s) : s \in Signallers}

(* A caller is idle or has a key; every lease has a holder.                *)
CallersOK ==
    /\ refs \in [Keys -> -1..Cardinality(Callers)]
    /\ pc \in [Callers -> CallerLabels] /\ key \in [Callers -> Keys \cup {NoKey}]
    /\ \A t \in Callers : key[t] # NoKey <=> pc[t] # "idle"
    /\ \A k \in Keys : Cached(k) => refs[k] <= Cardinality(Holders(k))

(* A worker has a key while it reads; close goes on once closed is set.    *)
RestOK ==
    /\ queue \in Seq(Keys)
    /\ inflight \subseteq Keys /\ waiters \subseteq Keys /\ errors \subseteq Keys
    /\ closed \in BOOLEAN
    /\ handles \subseteq Threads /\ Cardinality(handles) <= WorkerCount
    /\ wpc \in [Threads -> WorkerLabels] /\ wkey \in [Threads -> Keys \cup {NoKey}]
    /\ \A w \in Threads : wkey[w] # NoKey <=> wpc[w] \in {"read", "loaded", "settle"}
    /\ sub \in [Callers -> Pairs]
    /\ prefetcher \in {"idle", "lock", "ensure", "fail", "signal"}
    /\ closer \in {"idle", "drain", "signal", "take", "join", "closed"}
    /\ closer \in {"drain", "signal", "take", "join"} => closed

Safe == CallersOK /\ RestOK

-----------------------------------------------------------------------------
LEMMA FiniteHolders ==
    ASSUME NEW k
    PROVE  /\ IsFiniteSet(Holders(k)) /\ Cardinality(Holders(k)) \in Nat
           /\ Cardinality(Holders(k)) <= Cardinality(Callers)
           /\ Cardinality(Callers) \in Nat
<1>1. Holders(k) \subseteq Callers
  BY DEF Holders
<1> QED
  BY <1>1, StoreAssumption, FS_Subset, FS_CardinalityType

LEMMA FiniteThreads ==
    /\ IsFiniteSet(Threads) /\ \A w \in Threads : w \in Nat
    /\ \A S \in SUBSET Threads : IsFiniteSet(S) /\ Cardinality(S) \in Nat
<1>1. 2 * WorkerCount \in Nat
  BY StoreAssumption
<1>2. IsFiniteSet(Threads)
  BY <1>1, FS_Interval DEF Threads
<1>3. \A w \in Threads : w \in Nat
  BY <1>1 DEF Threads
<1>4. \A S \in SUBSET Threads : IsFiniteSet(S) /\ Cardinality(S) \in Nat
  BY <1>2, FS_Subset, FS_CardinalityType
<1> QED
  BY <1>2, <1>3, <1>4

(* ensure_workers starts no more workers than it counted.                  *)
LEMMA BornBounded ==
    ASSUME NEW n \in Nat
    PROVE  Born(n) \subseteq Unborn /\ IsFiniteSet(Born(n)) /\ Cardinality(Born(n)) <= n
<1> DEFINE Below(w) == {v \in Unborn : v < w}
           rank == [w \in Born(n) |-> Cardinality(Below(w))]
<1>1. Born(n) \subseteq Unborn /\ Unborn \subseteq Threads
      /\ \A w \in Unborn : w \in Nat
  BY FiniteThreads DEF Born, Unborn
<1>2. \A w \in Unborn : IsFiniteSet(Below(w)) /\ Cardinality(Below(w)) \in Nat
  BY <1>1, FiniteThreads
<1>3. rank \in [Born(n) -> 0..(n - 1)]
  BY <1>1, <1>2 DEF Born
<1>4. ASSUME NEW v \in Born(n), NEW w \in Born(n), v < w PROVE rank[v] < rank[w]
  <2>0. v \in Nat /\ w \in Nat /\ v \in Unborn /\ w \in Unborn
    BY <1>1
  <2>1. v \notin Below(v) /\ \A x \in Below(v) \cup {v} : x \in Below(w)
    BY <1>1, <1>4, <2>0
  <2>2. Cardinality(Below(v) \cup {v}) = Cardinality(Below(v)) + 1
    BY <1>1, <1>2, <2>1, FS_AddElement, ZenonT(30)
  <2>3. Cardinality(Below(v) \cup {v}) <= Cardinality(Below(w))
    BY <1>1, <1>2, <2>1, FS_Subset
  <2> HIDE DEF Below
  <2> QED
    BY <1>1, <1>2, <2>2, <2>3
<1> HIDE DEF rank
<1>5. \A v, w \in Born(n) : rank[v] = rank[w] => v = w
  BY <1>1, <1>3, <1>4
<1>6. rank \in Injection(Born(n), 0..(n - 1))
  BY <1>3, <1>5 DEF Injection, IsInjective
<1>7. IsFiniteSet(0..(n - 1)) /\ Cardinality(0..(n - 1)) = n
  BY FS_Interval
<1>8. IsFiniteSet(Born(n))
  BY <1>1, FiniteThreads
<1> QED
  BY <1>1, <1>6, <1>7, <1>8, FS_Injection

-----------------------------------------------------------------------------
(* A caller that neither begins nor ends to hold its chunk.                *)
LEMMA MoveOK ==
    ASSUME Safe, NEW t \in Callers, NEW l \in CallerLabels \ {"hold"}, pc[t] # "hold",
           pc' = [pc EXCEPT ![t] = l], key' \in [Callers -> Keys \cup {NoKey}],
           \A u \in Callers : u # t => key'[u] = key[u],
           key'[t] # NoKey <=> l # "idle", UNCHANGED refs
    PROVE  CallersOK' /\ \A k \in Keys : Holders(k)' = Holders(k)
<1>1. /\ pc' \in [Callers -> CallerLabels] /\ pc'[t] = l
      /\ \A u \in Callers : u # t => pc'[u] = pc[u]
  BY DEF Safe, CallersOK
<1>2. \A k \in Keys : Holders(k)' = Holders(k)
  BY <1>1 DEF Holders
<1> QED
  BY <1>1, <1>2 DEF Safe, CallersOK, Cached

(* Callers that stay where they are, over an unchanged cache.              *)
LEMMA StayOK ==
    ASSUME Safe, UNCHANGED <<refs, pc, key>>
    PROVE  CallersOK' /\ \A k \in Keys : Holders(k)' = Holders(k)
<1>1. \A k \in Keys : Holders(k)' = Holders(k)
  BY DEF Holders
<1> QED
  BY <1>1 DEF Safe, CallersOK, Cached

(* A hit adds one lease and one holder.                                    *)
LEMMA HitOK ==
    ASSUME Safe, NEW t \in Callers, pc[t] \notin {"idle", "hold"}, NEW k \in Keys, k = key[t],
           Cached(k), Hit(t)
    PROVE  /\ CallersOK'
           /\ refs'[k] = refs[k] + 1 /\ Cardinality(Holders(k)') = Cardinality(Holders(k)) + 1
           /\ \A j \in Keys : j # k => refs'[j] = refs[j] /\ Holders(j)' = Holders(j)
           /\ \A j \in Keys : Cached(j)' <=> Cached(j)
<1>1. /\ refs' = [refs EXCEPT ![k] = refs[k] + 1] /\ key' = key /\ refs[k] \in Nat
      /\ pc' = [pc EXCEPT ![t] = "hold"] /\ "hold" \in CallerLabels
  BY FiniteHolders DEF Hit, Cache!Lease, Safe, CallersOK, Cached, Cache!Absent, CallerLabels
<1>2. /\ pc' \in [Callers -> CallerLabels] /\ pc'[t] = "hold"
      /\ \A u \in Callers : u # t => pc'[u] = pc[u]
  BY <1>1 DEF Safe, CallersOK
<1>3. /\ Holders(k)' = Holders(k) \cup {t} /\ t \notin Holders(k)
      /\ \A j \in Keys : j # k => Holders(j)' = Holders(j)
  BY <1>1, <1>2 DEF Holders
<1>4. /\ Cardinality(Holders(k)') = Cardinality(Holders(k)) + 1
      /\ Cardinality(Holders(k)) \in Nat
  BY <1>3, FiniteHolders, FS_AddElement, Zenon
<1>5. /\ Cardinality(Callers) \in Nat /\ Cardinality(Holders(k)') <= Cardinality(Callers)
  <2>1. Holders(k)' \subseteq Callers
    BY DEF Holders
  <2> QED
    BY <2>1, StoreAssumption, FS_Subset, FS_CardinalityType
<1>6. /\ refs'[k] = refs[k] + 1 /\ \A j \in Keys : j # k => refs'[j] = refs[j]
  BY <1>1 DEF Safe, CallersOK
<1>7. refs[k] + 1 <= Cardinality(Holders(k)') /\ refs[k] + 1 \in -1..Cardinality(Callers)
  <2>1. refs[k] <= Cardinality(Holders(k))
    BY DEF Safe, CallersOK
  <2> QED
    BY <1>1, <1>4, <1>5, <2>1
<1>8. refs' \in [Keys -> -1..Cardinality(Callers)]
  BY <1>1, <1>7 DEF Safe, CallersOK
<1>9. \A j \in Keys : Cached(j)' <=> Cached(j)
  BY <1>1, <1>6 DEF Cached, Cache!Absent
<1>10. \A u \in Callers : key'[u] # NoKey <=> pc'[u] # "idle"
  BY <1>1, <1>2, StoreAssumption DEF Safe, CallersOK
<1>11. ASSUME NEW j \in Keys, Cached(j)' PROVE refs'[j] <= Cardinality(Holders(j)')
  <2>1. CASE j = k
    BY <1>6, <1>7, <2>1
  <2>2. CASE j # k
    BY <1>3, <1>6, <1>9, <1>11, <2>2 DEF Safe, CallersOK
  <2> QED
    BY <2>1, <2>2
<1>12. CallersOK'
  BY <1>1, <1>2, <1>8, <1>10, <1>11 DEF Safe, CallersOK
<1> QED
  BY <1>3, <1>4, <1>6, <1>9, <1>12

(* A release takes one holder away, and its lease if it still has one.     *)
LEMMA ReleaseOK ==
    ASSUME Safe, NEW t \in Callers, Release(t), NEW k \in Keys, k = key[t]
    PROVE  /\ CallersOK'
           /\ refs'[k] = IF refs[k] > 0 THEN refs[k] - 1 ELSE refs[k]
           /\ t \in Holders(k) /\ Cardinality(Holders(k)') = Cardinality(Holders(k)) - 1
           /\ \A j \in Keys : j # k => refs'[j] = refs[j] /\ Holders(j)' = Holders(j)
           /\ \A j \in Keys : Cached(j)' <=> Cached(j)
<1> DEFINE r == IF refs[k] > 0 THEN refs[k] - 1 ELSE refs[k]
<1>1. /\ refs' = [refs EXCEPT ![k] = r] /\ pc[t] = "hold" /\ "idle" \in CallerLabels
      /\ pc' = [pc EXCEPT ![t] = "idle"] /\ key' = [key EXCEPT ![t] = NoKey]
  BY DEF Release, Leave, Cache!Return, CallerLabels
<1>2. /\ pc' \in [Callers -> CallerLabels] /\ key' \in [Callers -> Keys \cup {NoKey}]
      /\ pc'[t] = "idle" /\ key'[t] = NoKey
      /\ \A u \in Callers : u # t => pc'[u] = pc[u] /\ key'[u] = key[u]
  BY <1>1 DEF Safe, CallersOK
<1>3. /\ Holders(k)' = Holders(k) \ {t} /\ t \in Holders(k)
      /\ \A j \in Keys : j # k => Holders(j)' = Holders(j)
  BY <1>1, <1>2 DEF Holders
<1>4. /\ Cardinality(Holders(k)') = Cardinality(Holders(k)) - 1
      /\ Cardinality(Holders(k)) \in Nat /\ Cardinality(Holders(k)) # 0
  BY <1>3, FiniteHolders, FS_RemoveElement, FS_EmptySet, ZenonT(30)
<1>5. /\ refs[k] \in -1..Cardinality(Callers) /\ Cardinality(Callers) \in Nat
      /\ (refs[k] # -1 => refs[k] <= Cardinality(Holders(k)))
  BY FiniteHolders DEF Safe, CallersOK, Cached, Cache!Absent
<1>6. /\ r \in -1..Cardinality(Callers) /\ (r = -1 <=> refs[k] = -1)
      /\ (r # -1 => r <= Cardinality(Holders(k)'))
  BY <1>4, <1>5
<1> HIDE DEF r
<1>7. /\ refs' \in [Keys -> -1..Cardinality(Callers)]
      /\ refs'[k] = r /\ \A j \in Keys : j # k => refs'[j] = refs[j]
  BY <1>1, <1>6 DEF Safe, CallersOK
<1>8. \A j \in Keys : Cached(j)' <=> Cached(j)
  BY <1>6, <1>7 DEF Cached, Cache!Absent
<1>9. \A u \in Callers : key'[u] # NoKey <=> pc'[u] # "idle"
  BY <1>2 DEF Safe, CallersOK
<1>10. ASSUME NEW j \in Keys, Cached(j)' PROVE refs'[j] <= Cardinality(Holders(j)')
  <2>1. CASE j = k
    BY <1>6, <1>7, <1>10, <2>1 DEF Cached, Cache!Absent
  <2>2. CASE j # k
    BY <1>3, <1>7, <1>8, <1>10, <2>2 DEF Safe, CallersOK
  <2> QED
    BY <2>1, <2>2
<1>11. CallersOK'
  BY <1>2, <1>7, <1>9, <1>10 DEF CallersOK
<1> QED
  BY <1>3, <1>4, <1>7, <1>8, <1>11 DEF r

(* An insert leases nothing, and evicts only what nobody leases.           *)
LEMMA InsertOK ==
    ASSUME Safe, NEW k \in Keys, NEW E \in Cache!Evictions(refs, k),
           refs' = Cache!Insert(refs, k, E), UNCHANGED <<pc, key>>
    PROVE  /\ CallersOK' /\ \A j \in Keys : Holders(j)' = Holders(j)
           /\ refs'[k] = 0
           /\ \A j \in Keys \ {k} : refs'[j] = refs[j] \/ (refs[j] = 0 /\ ~Cached(j)')
<1>1. \A j \in Keys : Holders(j)' = Holders(j)
  BY DEF Holders
<1>2. \A j \in E : refs[j] = 0
  BY DEF Cache!Evictions, Cache!Evictable
<1>3. refs' = [j \in Keys |-> IF j = k THEN 0 ELSE IF j \in E THEN -1 ELSE refs[j]]
  BY DEF Cache!Insert, Cache!Absent
<1>4. /\ refs'[k] = 0
      /\ \A j \in Keys \ {k} : refs'[j] = refs[j] \/ (refs[j] = 0 /\ ~Cached(j)')
  BY <1>2, <1>3 DEF Cached, Cache!Absent
<1>5. \A j \in Keys : Cardinality(Holders(j)) \in Nat /\ Cardinality(Callers) \in Nat
  BY FiniteHolders
<1>6. refs' \in [Keys -> -1..Cardinality(Callers)]
  BY <1>3, <1>5 DEF Safe, CallersOK
<1>7. ASSUME NEW j \in Keys, Cached(j)' PROVE refs'[j] <= Cardinality(Holders(j)')
  BY <1>1, <1>4, <1>5, <1>7 DEF Safe, CallersOK, Cached
<1> QED
  BY <1>1, <1>4, <1>6, <1>7 DEF Safe, CallersOK

-----------------------------------------------------------------------------
(* Workers that are started or woken have no key; there are at most        *)
(* io_workers handles.                                                     *)
LEMMA WokenOK ==
    ASSUME Safe, NEW W \in SUBSET (Asleep(wpc) \cup Unborn), wpc' = Woken(wpc, W), UNCHANGED wkey
    PROVE  /\ wpc' \in [Threads -> WorkerLabels]
           /\ \A w \in Threads : wkey'[w] # NoKey <=> wpc'[w] \in {"read", "loaded", "settle"}
           /\ \A w \in Threads : wpc'[w] # wpc[w] => wpc'[w] = "check"
<1>1. \A w \in Threads : wpc'[w] = IF w \in W THEN "check" ELSE wpc[w]
  BY DEF Woken
<1>2. \A w \in W : w \in Threads /\ wpc[w] \in {"asleep", "unborn"}
  BY DEF Asleep, Unborn
<1>3. wpc' \in [Threads -> WorkerLabels]
  BY <1>1 DEF Woken, Safe, RestOK, WorkerLabels
<1> QED
  BY <1>1, <1>2, <1>3 DEF Safe, RestOK

LEMMA HandlesOK ==
    ASSUME Safe, NEW n \in 0..WorkerCount, NEW ok, EnsureWorkers(n, ok),
           handles' = handles \cup Born(n)
    PROVE  handles' \subseteq Threads /\ Cardinality(handles') <= WorkerCount
<1>1. /\ handles \subseteq Threads /\ Born(n) \subseteq Threads
      /\ Cardinality(handles) \in Nat /\ Cardinality(Born(n)) \in Nat
      /\ IsFiniteSet(handles) /\ IsFiniteSet(Born(n)) /\ IsFiniteSet(handles \cap Born(n))
      /\ Cardinality(handles \cap Born(n)) \in Nat /\ n \in Nat /\ Cardinality(Born(n)) <= n
  BY StoreAssumption, BornBounded, FiniteThreads DEF Safe, RestOK, Unborn
<1>2. n = 0 \/ n <= WorkerCount - Cardinality(handles)
  BY <1>1, StoreAssumption DEF EnsureWorkers, Missing
<1>3. Cardinality(handles') = Cardinality(handles) + Cardinality(Born(n))
                              - Cardinality(handles \cap Born(n))
  BY <1>1, FS_Union
<1>4. Cardinality(handles) <= WorkerCount /\ WorkerCount \in Nat
  BY StoreAssumption DEF Safe, RestOK
<1> QED
  BY <1>1, <1>2, <1>3, <1>4

LEMMA PairsOK ==
    ASSUME Safe, NEW s \in Signallers, NEW K, Detach(s, K) \/ Signal(s)
    PROVE  sub' \in [Callers -> Pairs]
<1>1. HeldBy(s) \in Pairs /\ Done \in Pairs /\ \A t \in Callers : sub[t] \in Pairs
  BY DEF Pairs, Safe, RestOK
<1> QED
  BY <1>1 DEF Detach, Signal

LEMMA WorkersKept ==
    ASSUME Safe, UNCHANGED workers
    PROVE  /\ handles' \subseteq Threads /\ Cardinality(handles') <= WorkerCount
           /\ wpc' \in [Threads -> WorkerLabels] /\ wkey' \in [Threads -> Keys \cup {NoKey}]
           /\ \A w \in Threads : wkey'[w] # NoKey <=> wpc'[w] \in {"read", "loaded", "settle"}
BY DEF workers, Safe, RestOK

(* The part of RestOK that is not about workers, pairs and the queue.      *)
LEMMA CallerRestOK ==
    ASSUME Safe, NEW t \in Callers, UNCHANGED <<closed, closing, prefetching>>,
           \/ CheckCache(t) \/ TestDone(t) \/ WakeUp(t) \/ LookAfterWait(t) \/ TakeError(t)
           \/ Release(t) \/ JoinOrRequest(t) \/ \E k \in AcquireKeys : Call(t, k)
    PROVE  RestOK'
<1>1. UNCHANGED workers
  BY DEF CheckCache, TestDone, WakeUp, LookAfterWait, TakeError, Release, JoinOrRequest, Call
<1>2. sub' \in [Callers -> Pairs]
  <2>1. NoPair \in Pairs /\ InMap \in Pairs /\ sub \in [Callers -> Pairs]
    BY DEF Pairs, Safe, RestOK
  <2>2. \/ UNCHANGED sub \/ sub' = [sub EXCEPT ![t] = NoPair] \/ sub' = [sub EXCEPT ![t] = InMap]
    BY DEF CheckCache, TestDone, WakeUp, LookAfterWait, TakeError, Release, JoinOrRequest, Call,
           Leave, Hit, Join, Request
  <2> QED
    BY <2>1, <2>2
<1>3. /\ queue' \in Seq(Keys) /\ inflight' \subseteq Keys /\ waiters' \subseteq Keys
      /\ errors' \subseteq Keys
  <2>1. CASE UNCHANGED <<queue, inflight, waiters>> /\ errors' \subseteq errors
    BY <2>1 DEF Safe, RestOK
  <2>2. CASE pc[t] = "lock" /\ Request(t)
    <3>1. key[t] \in Keys
      BY <2>2 DEF Safe, CallersOK
    <3> QED
      BY <2>2, <3>1 DEF Request, Safe, RestOK
  <2> QED
    BY <2>1, <2>2 DEF CheckCache, TestDone, WakeUp, LookAfterWait, TakeError, Release,
                      JoinOrRequest, Call, Join, state
<1> QED
  BY <1>1, <1>2, <1>3, WorkersKept, Zenon DEF Safe, RestOK, closing, prefetching

(* One turn of prefetch's loop, on a queue, the reads under way and the    *)
(* pairs.                                                                  *)
Registers == [queue : Seq(Keys), inflight : SUBSET Keys, waiters : SUBSET Keys]

LEMMA OfferOK ==
    ASSUME NEW s \in Registers, NEW k \in Keys
    PROVE  Offer(s, k) \in Registers
BY DEF Offer, Registers

LEMMA OfferedOK ==
    ASSUME Safe, NEW asked \in Keys \X Keys
    PROVE  Offered(asked) \in Registers
<1>1. asked[1] \in Keys /\ asked[2] \in Keys
  OBVIOUS
<1>2. [queue |-> queue, inflight |-> inflight, waiters |-> waiters] \in Registers
  BY DEF Safe, RestOK, Registers
<1> QED
  BY <1>1, <1>2, OfferOK DEF Offered

LEMMA PrefetchOK ==
    ASSUME Safe, CallPrefetch \/ PrefetcherStep
    PROVE  RestOK' /\ UNCHANGED <<refs, pc, key, closed>>
<1>1. CASE CallPrefetch
  BY <1>1, WorkersKept DEF CallPrefetch, Safe, RestOK, state, callers, closing
<1>2. CASE \E asked \in Keys \X Keys : QueuePrefetch(asked)
  <2>1. PICK asked \in Keys \X Keys : QueuePrefetch(asked)
    BY <1>2
  <2>2. queue' \in Seq(Keys) /\ inflight' \subseteq Keys /\ waiters' \subseteq Keys
    BY <2>1, OfferedOK DEF QueuePrefetch, Registers
  <2> QED
    BY <2>1, <2>2, WorkersKept DEF QueuePrefetch, Safe, RestOK, callers, closing
<1>3. CASE EnsureForPrefetch
  <2>1. PICK n \in 0..WorkerCount, ok \in BOOLEAN :
          /\ EnsureWorkers(n, ok) /\ handles' = handles \cup Born(n)
          /\ wpc' = Woken(wpc, Born(n) \cup IF ok THEN Asleep(wpc) ELSE {})
          /\ prefetcher' \in {"idle", "fail"}
    BY <1>3 DEF EnsureForPrefetch
  <2>2. Born(n) \cup (IF ok THEN Asleep(wpc) ELSE {}) \in SUBSET (Asleep(wpc) \cup Unborn)
    BY <2>1, StoreAssumption DEF Born
  <2> QED
    BY <1>3, <2>1, <2>2, WokenOK, HandlesOK, Zenon
    DEF EnsureForPrefetch, Safe, RestOK, callers, closing, state
<1>4. CASE FailPending
  <2>1. sub' \in [Callers -> Pairs]
    BY <1>4, PairsOK, Zenon DEF FailPending, Signallers
  <2>2. queue' \in Seq(Keys)
    BY <1>4 DEF FailPending
  <2> QED
    BY <1>4, <2>1, <2>2, WorkersKept DEF FailPending, Safe, RestOK, closing
<1>5. CASE SignalFailed
  <2>1. sub' \in [Callers -> Pairs]
    BY <1>5, PairsOK DEF SignalFailed, Signallers
  <2> QED
    BY <1>5, <2>1, WorkersKept DEF SignalFailed, Safe, RestOK, closing, state
<1> QED
  BY <1>1, <1>2, <1>3, <1>4, <1>5, Zenon DEF PrefetcherStep

LEMMA CloserOK ==
    ASSUME Safe, Close \/ CloserStep
    PROVE  RestOK' /\ UNCHANGED <<refs, pc, key>>
<1>1. CASE Close
  BY <1>1, WorkersKept DEF Close, Safe, RestOK, state, callers, prefetching
<1>2. CASE DropQueue
  <2>1. sub' \in [Callers -> Pairs]
    BY <1>2, PairsOK DEF DropQueue, Signallers
  <2>2. queue' \in Seq(Keys)
    BY <1>2 DEF DropQueue
  <2> QED
    BY <1>2, <2>1, <2>2, WorkersKept DEF DropQueue, Safe, RestOK, prefetching
<1>3. CASE SignalClosed
  <2>1. sub' \in [Callers -> Pairs]
    BY <1>3, PairsOK DEF SignalClosed, Signallers
  <2> QED
    BY <1>3, <2>1, WokenOK DEF SignalClosed, Safe, RestOK, prefetching, state
<1>4. CASE TakeHandles
  <2>1. Cardinality({}) <= WorkerCount
    BY FS_EmptySet, StoreAssumption
  <2> QED
    BY <1>4, <2>1 DEF TakeHandles, Safe, RestOK, state, callers, prefetching
<1>5. CASE JoinWorkers
  BY <1>5, WorkersKept DEF JoinWorkers, Safe, RestOK, state, callers, prefetching
<1> QED
  BY <1>1, <1>2, <1>3, <1>4, <1>5, Zenon DEF CloserStep

LEMMA WorkerRestOK ==
    ASSUME Safe, NEW w \in Threads, WorkerStep(w) \/ Panic(w)
    PROVE  RestOK' /\ UNCHANGED <<pc, key, closed>>
<1>1. CASE TakeWork(w)
  <2>1. CASE queue # <<>>
    <3>1. Head(queue) \in Keys /\ Tail(queue) \in Seq(Keys) /\ Head(queue) # NoKey
      BY <2>1, StoreAssumption DEF Safe, RestOK
    <3>2. /\ wkey' = [wkey EXCEPT ![w] = Head(queue)] /\ queue' = Tail(queue)
          /\ wpc' = [wpc EXCEPT ![w] = "read"]
      BY <1>1, <2>1 DEF TakeWork
    <3> QED
      BY <1>1, <3>1, <3>2
      DEF TakeWork, Safe, RestOK, WorkerLabels, callers, prefetching, closing
  <2>2. CASE queue = <<>>
    BY <1>1, <2>2 DEF TakeWork, Safe, RestOK, WorkerLabels, callers, prefetching, closing
  <2> QED
    BY <2>1, <2>2
<1>2. CASE ReadOk(w)
  BY <1>2 DEF ReadOk, Safe, RestOK, WorkerLabels, callers, prefetching, closing, state
<1>3. CASE ReadFails(w)
  BY <1>3 DEF ReadFails, Safe, RestOK, WorkerLabels, callers, prefetching, closing
<1>4. CASE ClearError(w)
  BY <1>4 DEF ClearError, Safe, RestOK, WorkerLabels, callers, prefetching, closing
<1>5. CASE Settle(w)
  <2>1. sub' \in [Callers -> Pairs]
    BY <1>5, PairsOK DEF Settle, Signallers
  <2> QED
    BY <1>5, <2>1 DEF Settle, Safe, RestOK, WorkerLabels, prefetching, closing
<1>6. CASE SignalRead(w)
  <2>1. sub' \in [Callers -> Pairs]
    BY <1>6, PairsOK DEF SignalRead, Signallers
  <2> QED
    BY <1>6, <2>1 DEF SignalRead, Safe, RestOK, WorkerLabels, prefetching, closing, state
<1>7. CASE Exit(w)
  BY <1>7 DEF Exit, Safe, RestOK, WorkerLabels, callers, prefetching, closing, state
<1>8. CASE Panic(w)
  BY <1>8 DEF Panic, Safe, RestOK, WorkerLabels, callers, prefetching, closing, state
<1> QED
  BY <1>1, <1>2, <1>3, <1>4, <1>5, <1>6, <1>7, <1>8, Zenon DEF WorkerStep

LEMMA EnsureRestOK ==
    ASSUME Safe, NEW t \in Callers, EnsureForAcquire(t)
    PROVE  /\ RestOK'
           /\ \A w \in Threads : wpc'[w] # wpc[w] => wpc'[w] = "check"
<1>1. PICK n \in 0..WorkerCount, ok \in BOOLEAN :
        /\ EnsureWorkers(n, ok) /\ handles' = handles \cup Born(n)
        /\ \/ /\ \E W \in SUBSET Asleep(wpc) : wpc' = Woken(wpc, W \cup Born(n))
              /\ UNCHANGED sub
           \/ wpc' = Woken(wpc, Born(n)) /\ sub' = [sub EXCEPT ![t] = NoPair]
  BY Zenon DEF EnsureForAcquire, Leave
<1>2. Born(n) \in SUBSET Unborn
  BY DEF Born
<1>3. PICK W \in SUBSET (Asleep(wpc) \cup Unborn) : wpc' = Woken(wpc, W)
  BY <1>1, <1>2, Zenon
<1>4. UNCHANGED wkey
  BY DEF EnsureForAcquire
<1>5. sub' \in [Callers -> Pairs]
  BY <1>1, Zenon DEF Safe, RestOK, Pairs
<1> QED
  BY <1>1, <1>3, <1>4, <1>5, WokenOK, HandlesOK, Zenon
  DEF EnsureForAcquire, Safe, RestOK, prefetching, closing, state

(* What a caller's step does to pc and key: it hits, or stays without a    *)
(* chunk.                                                                  *)
LEMMA CallerMoves ==
    ASSUME Safe, NEW t \in Callers, CallerStep(t) \/ \E k \in AcquireKeys : Call(t, k)
    PROVE  \/ /\ pc[t] \notin {"idle", "hold"} /\ Cached(key[t]) /\ Hit(t)
              /\ UNCHANGED <<state, workers, prefetching>>
           \/ /\ pc[t] # "hold" /\ UNCHANGED refs
              /\ \E l \in CallerLabels \ {"hold"} :
                   /\ pc' = [pc EXCEPT ![t] = l]
                   /\ key' \in [Callers -> Keys \cup {NoKey}]
                   /\ \A u \in Callers : u # t => key'[u] = key[u]
                   /\ key'[t] # NoKey <=> l # "idle"
<1> DEFINE Moves(l) == /\ pc' = [pc EXCEPT ![t] = l]
                       /\ key' \in [Callers -> Keys \cup {NoKey}]
                       /\ \A u \in Callers : u # t => key'[u] = key[u]
                       /\ key'[t] # NoKey <=> l # "idle"
<1>1. /\ key \in [Callers -> Keys \cup {NoKey}] /\ (key[t] # NoKey <=> pc[t] # "idle")
      /\ NoKey \notin Keys
  BY StoreAssumption DEF Safe, CallersOK
<1>2. ASSUME Leave(t) PROVE Moves("idle") /\ "idle" \in CallerLabels \ {"hold"}
  BY <1>1, <1>2 DEF Leave, CallerLabels
<1>3. ASSUME NEW l \in CallerLabels \ {"hold", "idle"}, pc' = [pc EXCEPT ![t] = l],
             UNCHANGED key, pc[t] # "idle"
      PROVE  Moves(l)
  BY <1>1, <1>3
<1>4. {"check", "lock", "ensure", "wait", "asleep", "after", "errors"}
        \subseteq CallerLabels \ {"hold", "idle"}
  BY DEF CallerLabels
<1>5. ASSUME NEW k \in AcquireKeys, Call(t, k) PROVE Moves("check")
  BY <1>1, <1>5, StoreAssumption, ZenonT(30) DEF Call
<1> DEFINE Went == \/ /\ pc[t] \notin {"idle", "hold"} /\ Cached(key[t]) /\ Hit(t)
                      /\ UNCHANGED <<state, workers, prefetching>>
                   \/ /\ pc[t] # "hold" /\ UNCHANGED refs
                      /\ \E l \in CallerLabels \ {"hold"} : Moves(l)
<1> SUFFICES Went
  OBVIOUS
<1> HIDE DEF Moves
<1>6. CASE CheckCache(t)
  BY <1>2, <1>3, <1>4, <1>6, ZenonT(30) DEF CheckCache
<1>7. CASE JoinOrRequest(t)
  BY <1>3, <1>4, <1>7 DEF JoinOrRequest, Join, Request
<1>8. CASE EnsureForAcquire(t)
  BY <1>2, <1>3, <1>4, <1>8, Zenon DEF EnsureForAcquire
<1>9. CASE TestDone(t)
  BY <1>2, <1>3, <1>4, <1>9 DEF TestDone
<1>10. CASE WakeUp(t)
  BY <1>2, <1>3, <1>4, <1>10, Zenon DEF WakeUp
<1>11. CASE LookAfterWait(t)
  BY <1>2, <1>3, <1>4, <1>11, Zenon DEF LookAfterWait
<1>12. CASE TakeError(t)
  BY <1>2, <1>3, <1>4, <1>12 DEF TakeError
<1>13. CASE \E k \in AcquireKeys : Call(t, k)
  BY <1>4, <1>5, <1>13, Zenon DEF Call
<1> QED
  BY <1>6, <1>7, <1>8, <1>9, <1>10, <1>11, <1>12, <1>13, ZenonT(30) DEF CallerStep

LEMMA SafeInit == ASSUME Init PROVE Safe
<1>1. refs = [k \in Keys |-> -1]
  BY DEF Init, Cache!Init, Cache!Absent
<1>2. CallersOK
  <2>1. refs \in [Keys -> -1..Cardinality(Callers)]
    BY <1>1, FiniteHolders
  <2> QED
    BY <1>1, <2>1 DEF Init, CallersOK, CallerLabels, Cached, Cache!Absent
<1>3. RestOK
  <2>1. Cardinality({}) <= WorkerCount
    BY FS_EmptySet, StoreAssumption
  <2>2. queue \in Seq(Keys)
    BY DEF Init
  <2>3. closer \in {"idle", "closed"}
    BY StoreAssumption DEF Init
  <2> QED
    BY <2>1, <2>2, <2>3, Zenon DEF Init, RestOK, WorkerLabels, Pairs
<1> QED
  BY <1>2, <1>3 DEF Safe

LEMMA SafeStep == ASSUME Safe, [Next]_vars PROVE Safe'
<1>1. CASE UNCHANGED vars
  <2>1. UNCHANGED <<refs, queue, inflight, waiters, errors, closed, handles, wpc, wkey,
                    pc, key, sub, prefetcher, closer>>
    BY <1>1 DEF vars, state, workers, callers, prefetching, closing
  <2> QED
    BY <2>1, StayOK DEF Safe, RestOK
<1>2. ASSUME NEW t \in Callers, CallerStep(t) \/ \E k \in AcquireKeys : Call(t, k)
      PROVE  Safe'
  <2>1. RestOK'
    <3>1. CASE EnsureForAcquire(t)
      BY <3>1, EnsureRestOK
    <3>2. CASE ~EnsureForAcquire(t)
      <4>1. UNCHANGED <<closed, closing, prefetching>>
        BY <1>2, <3>2, Zenon DEF CallerStep, CheckCache, JoinOrRequest, TestDone, WakeUp,
                          LookAfterWait, TakeError, Call
      <4> QED
        BY <1>2, <3>2, <4>1, CallerRestOK, Zenon DEF CallerStep
    <3> QED
      BY <3>1, <3>2
  <2>2. CallersOK'
    <3>1. CASE pc[t] \notin {"idle", "hold"} /\ Cached(key[t]) /\ Hit(t)
      <4>1. PICK k \in Keys : k = key[t]
        BY <3>1 DEF Safe, CallersOK
      <4> QED
        BY <3>1, <4>1, HitOK
    <3> QED
      BY <1>2, <3>1, CallerMoves, MoveOK, ZenonT(30)
  <2> QED
    BY <2>1, <2>2 DEF Safe
<1>3. ASSUME NEW t \in Callers, Release(t) PROVE Safe'
  <2>1. PICK k \in Keys : k = key[t]
    BY <1>3 DEF Release, Safe, CallersOK
  <2>2. CallersOK'
    BY <1>3, <2>1, ReleaseOK
  <2>3. RestOK'
    BY <1>3, CallerRestOK, Zenon DEF Release
  <2> QED
    BY <2>2, <2>3 DEF Safe
<1>4. CASE CallPrefetch \/ PrefetcherStep
  BY <1>4, PrefetchOK, StayOK DEF Safe
<1>5. ASSUME NEW w \in Threads, WorkerStep(w) \/ Panic(w) PROVE Safe'
  <2>1. CASE ReadOk(w)
    <3>1. wkey[w] \in Keys
      BY <2>1 DEF ReadOk, Safe, RestOK
    <3>2. PICK E \in Cache!Evictions(refs, wkey[w]) : refs' = Cache!Insert(refs, wkey[w], E)
      BY <2>1 DEF ReadOk
    <3> QED
      BY <1>5, <3>1, <3>2, WorkerRestOK, InsertOK, ZenonT(30) DEF Safe
  <2>2. CASE ~ReadOk(w)
    <3>1. UNCHANGED refs
      BY <1>5, <2>2 DEF WorkerStep, TakeWork, ReadFails, ClearError, Settle, SignalRead, Exit,
                        Panic
    <3> QED
      BY <1>5, <3>1, WorkerRestOK, StayOK, ZenonT(30) DEF Safe
  <2> QED
    BY <2>1, <2>2, Zenon
<1>6. CASE Close \/ CloserStep
  BY <1>6, CloserOK, StayOK DEF Safe
<1> QED
  BY <1>1, <1>2, <1>3, <1>4, <1>5, <1>6, ZenonT(30) DEF Next

(* StreamingStore: whatever reads fail, workers die, spawns fail and       *)
(* whenever the store is closed, a chunk is pinned by at most its holders, *)
(* so acquire and release leave no lease behind.                           *)
THEOREM NoLeaseOutlivesItsHolder == Spec => []NoPhantomLease
<1>1. Spec => []Safe
  BY SafeInit, SafeStep, PTL DEF Spec
<1>2. ASSUME Safe PROVE NoPhantomLease
  BY <1>2 DEF Safe, CallersOK, RestOK, NoPhantomLease, TypeOK, CallerLabels, WorkerLabels, Pairs
<1> QED
  BY <1>1, <1>2, PTL

-----------------------------------------------------------------------------
(* Without panics and failed spawns, until close: the pairs are the reads  *)
(* under way, a read is queued once or one worker has it, and its chunk is *)
(* not cached before that worker inserts it.                               *)
Reading(k) == \E w \in Threads : wkey[w] = k

Served(q, i, ws) ==
    /\ ws = i
    /\ \A m, n \in DOMAIN q : q[m] = q[n] => m = n
    /\ \A n \in DOMAIN q : ~Reading(q[n]) /\ ~Cached(q[n])
    /\ \A k \in Keys : k \in i <=> InQueue(q, k) \/ Reading(k)

Reads ==
    /\ Served(queue, inflight, waiters)
    /\ \A w \in Threads : wpc[w] \notin {"leaving", "exited"}
    /\ prefetcher # "fail"
    /\ \A v, w \in Threads : wkey[v] = wkey[w] /\ wkey[v] # NoKey => v = w
    /\ \A w \in Threads : wpc[w] = "read" => ~Cached(wkey[w])

Leases == \A k \in Keys : IF Cached(k) THEN refs[k] = Cardinality(Holders(k))
                          ELSE Holders(k) = {}

Exact == Safe /\ (~closed => Reads /\ Leases)

Faultless == ~SpawnMayFail /\ ~MayPanic

LEMMA LeasesKept ==
    ASSUME Leases, UNCHANGED refs, \A k \in Keys : Holders(k)' = Holders(k)
    PROVE  Leases'
BY DEF Leases, Cached

(* Steps that leave the reads alone and cache nothing.                     *)
LEMMA ReadsKept ==
    ASSUME Safe, Reads, UNCHANGED <<queue, inflight, waiters, wkey>>, prefetcher' # "fail",
           \A w \in Threads : wpc'[w] = wpc[w] \/ wpc'[w] \notin {"read", "leaving", "exited"},
           \A k \in Keys : Cached(k)' => Cached(k)
    PROVE  Reads'
<1>1. \A k : Reading(k)' <=> Reading(k)
  BY DEF Reading
<1>2. \A n \in DOMAIN queue : queue[n] \in Keys
  BY DEF Safe, RestOK
<1>3. Served(queue, inflight, waiters)'
  BY <1>1, <1>2, Zenon DEF Reads, Served, InQueue
<1>4. ASSUME NEW w \in Threads, wpc'[w] = "read" PROVE ~Cached(wkey[w])'
  <2>1. wpc[w] = "read" /\ wkey'[w] = wkey[w]
    BY <1>4
  <2>2. PICK k \in Keys : k = wkey[w]
    BY <2>1, Zenon DEF Safe, RestOK
  <2>3. ~Cached(k) /\ ~Cached(k)'
    BY <2>1, <2>2, Zenon DEF Reads
  <2> QED
    BY <2>1, <2>2, <2>3 DEF Cached
<1> QED
  BY <1>3, <1>4 DEF Reads

(* Queueing a key that nobody has: at the front or at the back.            *)
LEMMA ServedMore ==
    ASSUME Safe, NEW q \in Seq(Keys), NEW i, Served(q, i, i), NEW k \in Keys, k \notin i,
           ~Cached(k), NEW r \in {<<k>> \o q, Append(q, k)}
    PROVE  Served(r, i \cup {k}, i \cup {k})
<1>1. ~InQueue(q, k) /\ ~Reading(k)
  BY DEF Served
<1>2. /\ r \in Seq(Keys) /\ \A j \in Keys : InQueue(r, j) <=> j = k \/ InQueue(q, j)
      /\ \A m, n \in DOMAIN r : r[m] = r[n] => m = n
      /\ \A n \in DOMAIN r : r[n] = k \/ \E m \in DOMAIN q : r[n] = q[m]
  <2>1. CASE r = <<k>> \o q
    <3>1. /\ Len(r) = Len(q) + 1 /\ r \in Seq(Keys) /\ r[1] = k
          /\ \A n \in 1..Len(q) : r[n + 1] = q[n]
          /\ DOMAIN r = 1..Len(r) /\ DOMAIN q = 1..Len(q) /\ Len(q) \in Nat
      BY <2>1
    <3>2. \A n \in DOMAIN r : n = 1 \/ (n - 1 \in DOMAIN q /\ r[n] = q[n - 1])
      BY <3>1
    <3>3. \A n \in DOMAIN q : n + 1 \in DOMAIN r
      BY <3>1
    <3>4. \A j \in Keys : InQueue(r, j) <=> j = k \/ InQueue(q, j)
      <4>1. \A j \in Keys : InQueue(r, j) => j = k \/ InQueue(q, j)
        BY <3>1, <3>2 DEF InQueue
      <4>2. InQueue(r, k)
        BY <3>1 DEF InQueue
      <4>3. \A j \in Keys : InQueue(q, j) => InQueue(r, j)
        BY <3>1, <3>3, Zenon DEF InQueue
      <4> QED
        BY <4>1, <4>2, <4>3, ZenonT(30)
    <3>5. \A m, n \in DOMAIN r : r[m] = r[n] => m = n
      <4>1. \A n \in DOMAIN r : n \in Nat
        BY <3>1
      <4>2. \A n \in DOMAIN r : n # 1 => r[n] # k
        BY <1>1, <3>2 DEF InQueue
      <4>3. \A m, n \in DOMAIN q : q[m] = q[n] => m = n
        BY DEF Served
      <4> QED
        BY <3>1, <3>2, <4>1, <4>2, <4>3
    <3> QED
      BY <3>1, <3>2, <3>4, <3>5, ZenonT(30)
  <2>2. CASE r = Append(q, k)
    <3>1. /\ Len(r) = Len(q) + 1 /\ r \in Seq(Keys) /\ r[Len(q) + 1] = k
          /\ \A n \in 1..Len(q) : r[n] = q[n]
          /\ DOMAIN r = 1..Len(r) /\ DOMAIN q = 1..Len(q) /\ Len(q) \in Nat
      BY <2>2
    <3>2. \A n \in DOMAIN r : n = Len(q) + 1 \/ (n \in DOMAIN q /\ r[n] = q[n])
      BY <3>1
    <3> QED
      BY <1>1, <3>1, <3>2 DEF InQueue, Served
  <2> QED
    BY <2>1, <2>2, Zenon
<1>3. \A n \in DOMAIN r : ~Reading(r[n]) /\ ~Cached(r[n])
  BY <1>1, <1>2, Zenon DEF Served
<1>4. \A j \in Keys : j \in i \cup {k} <=> InQueue(r, j) \/ Reading(j)
  BY <1>1, <1>2, Zenon DEF Served
<1> QED
  BY <1>2, <1>3, <1>4 DEF Served

LEMMA ExactCaller ==
    ASSUME Exact, ~closed, NEW t \in Callers,
           CallerStep(t) \/ \E k \in AcquireKeys : Call(t, k)
    PROVE  Reads' /\ Leases'
<1>0. Safe /\ Reads /\ Leases /\ prefetcher # "fail"
  BY DEF Exact, Reads
<1>1. CASE /\ pc[t] \notin {"idle", "hold"} /\ Cached(key[t]) /\ Hit(t)
           /\ UNCHANGED <<state, workers, prefetching>>
  <2>1. PICK k \in Keys : k = key[t]
    BY <1>0, <1>1 DEF Safe, CallersOK
  <2>2. /\ refs'[k] = refs[k] + 1 /\ Cardinality(Holders(k)') = Cardinality(Holders(k)) + 1
        /\ \A j \in Keys : j # k => refs'[j] = refs[j] /\ Holders(j)' = Holders(j)
        /\ \A j \in Keys : Cached(j)' <=> Cached(j)
    BY <1>0, <1>1, <2>1, HitOK, ZenonT(30)
  <2>3. Leases'
    BY <1>0, <1>1, <2>1, <2>2, ZenonT(30) DEF Leases
  <2>4. UNCHANGED <<queue, inflight, waiters, wkey, wpc, prefetcher>>
    BY <1>1, Zenon DEF state, workers, prefetching
  <2> QED
    BY <1>0, <2>2, <2>3, <2>4, ReadsKept, ZenonT(30)
<1>2. CASE ~(/\ pc[t] \notin {"idle", "hold"} /\ Cached(key[t]) /\ Hit(t)
             /\ UNCHANGED <<state, workers, prefetching>>)
  <2>1. UNCHANGED refs /\ Leases' /\ \A k \in Keys : Cached(k)' <=> Cached(k)
    BY <1>0, <1>2, CallerMoves, MoveOK, LeasesKept, ZenonT(30) DEF Cached
  <2>2. CASE pc[t] = "lock" /\ ~Cached(key[t]) /\ key[t] \notin waiters /\ Request(t)
             /\ UNCHANGED <<workers, prefetching>>
    <3>1. PICK k \in Keys : k = key[t]
      BY <1>0, <2>2 DEF Safe, CallersOK
    <3>2. /\ queue \in Seq(Keys) /\ Served(queue, inflight, inflight) /\ k \notin inflight
          /\ waiters = inflight
      BY <1>0, <2>2, <3>1, ZenonT(30) DEF Reads, Served, Safe, RestOK
    <3>3. /\ Served(<<k>> \o queue, inflight \cup {k}, inflight \cup {k})
          /\ queue' = <<k>> \o queue /\ inflight' = inflight \cup {k} /\ waiters' = inflight'
      BY <1>0, <2>2, <3>1, <3>2, ServedMore DEF Request
    <3>4. Served(queue, inflight, waiters)'
      BY <2>1, <2>2, <3>3, ZenonT(30) DEF Served, Cached, Reading, workers
    <3> QED
      BY <1>0, <2>1, <2>2, <3>4, ZenonT(30) DEF Reads, Cached, workers, prefetching
  <2>3. CASE UNCHANGED <<queue, inflight, waiters, wkey, wpc, prefetcher>>
    BY <1>0, <2>1, <2>3, ReadsKept, Zenon
  <2>4. CASE EnsureForAcquire(t)
    <3>1. \A w \in Threads : wpc'[w] # wpc[w] => wpc'[w] = "check"
      BY <1>0, <2>4, EnsureRestOK
    <3>2. UNCHANGED <<queue, inflight, waiters, wkey, prefetcher>>
      BY <2>4, Zenon DEF EnsureForAcquire, state, prefetching
    <3> QED
      BY <1>0, <2>1, <3>1, <3>2, ReadsKept, ZenonT(30)
  <2> QED
    BY <1>2, <2>1, <2>2, <2>3, <2>4, ZenonT(30)
    DEF CallerStep, CheckCache, JoinOrRequest, TestDone, WakeUp, LookAfterWait, TakeError, Call,
        Join, state, workers, prefetching
<1> QED
  BY <1>1, <1>2

LEMMA ExactRelease ==
    ASSUME Exact, ~closed, NEW t \in Callers, Release(t)
    PROVE  Reads' /\ Leases'
<1>0. Safe /\ Reads /\ Leases /\ prefetcher # "fail"
  BY DEF Exact, Reads
<1>1. PICK k \in Keys : k = key[t]
  BY <1>0, Zenon DEF Release, Safe, CallersOK
<1>2. /\ refs'[k] = IF refs[k] > 0 THEN refs[k] - 1 ELSE refs[k]
      /\ t \in Holders(k) /\ Cardinality(Holders(k)') = Cardinality(Holders(k)) - 1
      /\ \A j \in Keys : j # k => refs'[j] = refs[j] /\ Holders(j)' = Holders(j)
      /\ \A j \in Keys : Cached(j)' <=> Cached(j)
  BY <1>0, <1>1, ReleaseOK, Zenon
<1>3. Cached(k) /\ refs[k] = Cardinality(Holders(k)) /\ refs[k] \in Nat /\ refs[k] # 0
  BY <1>0, <1>2, FiniteHolders, FS_EmptySet, ZenonT(30) DEF Leases
<1>4. Leases'
  BY <1>0, <1>2, <1>3 DEF Leases
<1>5. UNCHANGED <<queue, inflight, waiters, wkey, wpc, prefetcher>>
  BY DEF Release, state, workers, prefetching
<1> QED
  BY <1>0, <1>2, <1>4, <1>5, ReadsKept, ZenonT(30)

LEMMA ExactPrefetch ==
    ASSUME Faultless, Exact, ~closed, CallPrefetch \/ PrefetcherStep
    PROVE  Reads' /\ Leases'
<1>0. Safe /\ Reads /\ Leases /\ prefetcher # "fail"
  BY DEF Exact, Reads
<1>1. UNCHANGED <<refs, pc, key>> /\ Leases' /\ \A k \in Keys : Cached(k)' => Cached(k)
  BY <1>0, PrefetchOK, StayOK, LeasesKept, Zenon DEF Cached
<1>2. CASE CallPrefetch
  BY <1>0, <1>1, <1>2, ReadsKept, ZenonT(30) DEF CallPrefetch, state, workers
<1>3. CASE \E asked \in Keys \X Keys : QueuePrefetch(asked)
  <2>1. PICK asked \in Keys \X Keys : QueuePrefetch(asked)
    BY <1>3
  <2> DEFINE Good(s) == s \in Registers /\ Served(s.queue, s.inflight, s.waiters)
  <2>2. ASSUME NEW s, Good(s), NEW k \in Keys PROVE Good(Offer(s, k))
    <3>1. CASE Offer(s, k) = s
      BY <2>2, <3>1, Zenon
    <3>2. CASE Offer(s, k) # s
      <4>1. /\ ~Cached(k) /\ k \notin s.inflight
            /\ Offer(s, k) = [queue |-> Append(s.queue, k), inflight |-> s.inflight \cup {k},
                              waiters |-> s.waiters \cup {k}]
        BY <3>2 DEF Offer
      <4>2. s.queue \in Seq(Keys) /\ s.waiters = s.inflight
        BY <2>2 DEF Registers, Served
      <4>3. Served(Append(s.queue, k), s.inflight \cup {k}, s.inflight \cup {k})
        BY <1>0, <2>2, <4>1, <4>2, ServedMore, ZenonT(30)
      <4>4. /\ Offer(s, k).queue = Append(s.queue, k)
            /\ Offer(s, k).inflight = s.inflight \cup {k}
            /\ Offer(s, k).waiters = s.inflight \cup {k}
        BY <4>1, <4>2
      <4>5. Offer(s, k) \in Registers
        BY <2>2, OfferOK, ZenonT(30)
      <4> QED
        BY <4>3, <4>4, <4>5, ZenonT(30)
    <3> QED
      BY <3>1, <3>2
  <2>3. Good([queue |-> queue, inflight |-> inflight, waiters |-> waiters])
    BY <1>0 DEF Reads, Safe, RestOK, Registers
  <2>4. Good(Offered(asked))
    <3>1. asked[1] \in Keys /\ asked[2] \in Keys
      OBVIOUS
    <3> HIDE DEF Good
    <3> QED
      BY <2>2, <2>3, <3>1 DEF Offered
  <2>5. Served(queue', inflight', waiters')
    BY <2>1, <2>4, Zenon DEF QueuePrefetch
  <2>6. Served(queue, inflight, waiters)'
    BY <1>1, <2>1, <2>5, Zenon DEF QueuePrefetch, workers, Served, Cached, Reading
  <2> QED
    BY <1>0, <1>1, <2>1, <2>6 DEF Reads, QueuePrefetch, workers, Cached
<1>4. CASE EnsureForPrefetch
  <2>1. PICK n \in 0..WorkerCount, ok \in BOOLEAN :
          /\ EnsureWorkers(n, ok)
          /\ wpc' = Woken(wpc, Born(n) \cup IF ok THEN Asleep(wpc) ELSE {})
          /\ prefetcher' = IF ok THEN "idle" ELSE "fail"
    BY <1>4 DEF EnsureForPrefetch
  <2>2. ~\E w \in handles : Finished(w)
    BY <1>0 DEF Reads, Finished, Safe, RestOK
  <2>3. ok
    BY <2>1, <2>2 DEF EnsureWorkers, Faultless
  <2>4. Born(n) \cup (IF ok THEN Asleep(wpc) ELSE {}) \in SUBSET (Asleep(wpc) \cup Unborn)
    BY DEF Born
  <2>5. UNCHANGED <<queue, inflight, waiters, wkey>>
    BY <1>4, Zenon DEF EnsureForPrefetch, state
  <2>6. \A w \in Threads : wpc'[w] # wpc[w] => wpc'[w] = "check"
    BY <1>0, <2>1, <2>4, <2>5, WokenOK, Zenon
  <2> QED
    BY <1>0, <1>1, <2>1, <2>3, <2>5, <2>6, ReadsKept, ZenonT(30)
<1>5. CASE FailPending
  BY <1>0, <1>5, Zenon DEF FailPending
<1>6. CASE SignalFailed
  BY <1>0, <1>1, <1>6, ReadsKept, Zenon DEF SignalFailed, state, workers
<1> QED
  BY <1>2, <1>3, <1>4, <1>5, <1>6, ZenonT(30) DEF PrefetcherStep

LEMMA ExactTake ==
    ASSUME Exact, ~closed, NEW w \in Threads, TakeWork(w)
    PROVE  Reads' /\ Leases'
<1>0. Safe /\ Reads /\ Leases /\ prefetcher # "fail" /\ wpc[w] = "check" /\ wkey[w] = NoKey
  BY DEF Exact, Reads, TakeWork, Safe, RestOK
<1>1. UNCHANGED <<refs, pc, key, prefetcher, inflight, waiters>>
  BY Zenon DEF TakeWork, callers, prefetching
<1>2. Leases' /\ \A k \in Keys : Cached(k)' <=> Cached(k)
  BY <1>0, <1>1, StayOK, LeasesKept, Zenon DEF Cached
<1>3. CASE queue = <<>>
  BY <1>0, <1>1, <1>2, <1>3, ReadsKept, Zenon DEF TakeWork, Safe, RestOK
<1>4. CASE queue # <<>>
  <2>1. PICK h \in Keys : h = Head(queue)
    BY <1>0, <1>4 DEF Safe, RestOK
  <2>2. /\ queue' = Tail(queue) /\ wkey' = [wkey EXCEPT ![w] = h]
        /\ wpc' = [wpc EXCEPT ![w] = "read"]
    BY <1>4, <2>1, Zenon DEF TakeWork
  <2>3. /\ h = queue[1] /\ 1 \in DOMAIN queue /\ DOMAIN queue = 1..Len(queue)
        /\ DOMAIN queue' = 1..(Len(queue) - 1) /\ Len(queue) \in Nat
        /\ \A n \in 1..(Len(queue) - 1) : queue'[n] = queue[n + 1]
    BY <1>0, <1>4, <2>1, <2>2 DEF Safe, RestOK
  <2>4. /\ \A m, n \in DOMAIN queue : queue[m] = queue[n] => m = n
        /\ \A n \in DOMAIN queue : ~Reading(queue[n]) /\ ~Cached(queue[n])
        /\ \A k \in Keys : k \in inflight <=> InQueue(queue, k) \/ Reading(k)
        /\ waiters = inflight
    BY <1>0, Zenon DEF Reads, Served
  <2>5. /\ wkey'[w] = h /\ \A v \in Threads : v # w => wkey'[v] = wkey[v] /\ wpc'[v] = wpc[v]
        /\ wpc'[w] = "read" /\ h # NoKey
    BY <1>0, <2>2, StoreAssumption, Zenon DEF Safe, RestOK
  <2>6. \A k \in Keys : Reading(k)' <=> k = h \/ Reading(k)
    BY <1>0, <2>5, StoreAssumption, Zenon DEF Reading
  <2>7. \A n \in DOMAIN queue' : /\ n + 1 \in DOMAIN queue /\ queue'[n] = queue[n + 1]
                                 /\ n \in Nat /\ n + 1 # 1
    BY <2>3
  <2>8. \A n \in DOMAIN queue' : queue'[n] # h /\ queue'[n] \in Keys
    <3> SUFFICES ASSUME NEW n \in DOMAIN queue' PROVE queue'[n] # h /\ queue'[n] \in Keys
      OBVIOUS
    <3>1. /\ n + 1 \in DOMAIN queue /\ queue'[n] = queue[n + 1] /\ n + 1 # 1
          /\ 1 \in DOMAIN queue /\ h = queue[1]
      BY <2>3, <2>7, Zenon
    <3>2. queue[n + 1] = queue[1] => n + 1 = 1
      BY <2>4, <3>1, ZenonT(30)
    <3>3. queue[n + 1] \in Keys
      BY <1>0, <3>1 DEF Safe, RestOK
    <3> QED
      BY <3>1, <3>2, <3>3, Zenon
  <2>9. \A k \in Keys : InQueue(queue, k) <=> k = h \/ InQueue(queue', k)
    <3>1. \A n \in DOMAIN queue : n = 1 \/ (n - 1 \in DOMAIN queue' /\ queue'[n - 1] = queue[n])
      BY <2>3
    <3> QED
      BY <2>3, <2>7, <3>1, ZenonT(30) DEF InQueue
  <2>10. \A m, n \in DOMAIN queue' : queue'[m] = queue'[n] => m = n
    BY <2>4, <2>7
  <2>11. ASSUME NEW n \in DOMAIN queue' PROVE ~Reading(queue[n])' /\ ~Cached(queue[n])'
    <3>1. PICK k \in Keys : k = queue'[n]
      BY <2>8, Zenon
    <3>2. ~Reading(k) /\ ~Cached(k) /\ k # h
      BY <2>4, <2>7, <2>8, <3>1, Zenon
    <3>3. ~Reading(k)' /\ ~Cached(k)'
      BY <1>2, <2>6, <3>2, Zenon
    <3> QED
      BY <3>1, <3>3 DEF Reading, Cached
  <2>12. \A k \in Keys : k \in inflight' <=> InQueue(queue', k) \/ Reading(k)'
    BY <1>1, <2>4, <2>6, <2>9, Zenon
  <2>13. Served(queue, inflight, waiters)'
    BY <1>1, <2>4, <2>10, <2>11, <2>12, Zenon DEF Served, InQueue
  <2>14. \A u, v \in Threads : wkey'[u] = wkey'[v] /\ wkey'[u] # NoKey => u = v
    <3>1. ~Reading(h)
      BY <2>3, <2>4, ZenonT(30)
    <3>2. \A v \in Threads : wkey[v] # h
      BY <3>1 DEF Reading
    <3>3. \A u, v \in Threads : wkey[u] = wkey[v] /\ wkey[u] # NoKey => u = v
      BY <1>0, ZenonT(30) DEF Reads
    <3> QED
      BY <2>5, <3>2, <3>3, ZenonT(30)
  <2>15. ASSUME NEW v \in Threads, wpc'[v] = "read" PROVE ~Cached(wkey[v])'
    <3>1. CASE v = w
      <4>1. wkey'[v] = h /\ ~Cached(h)
        BY <2>3, <2>4, <2>5, <3>1, Zenon
      <4> QED
        BY <1>1, <4>1, Zenon DEF Cached
    <3>2. CASE v # w
      <4>1. wkey'[v] = wkey[v] /\ wpc[v] = "read"
        BY <2>5, <2>15, <3>2
      <4>2. ~Cached(wkey[v])
        BY <1>0, <4>1, Zenon DEF Reads
      <4> QED
        BY <1>1, <4>1, <4>2, Zenon DEF Cached
    <3> QED
      BY <3>1, <3>2, Zenon
  <2>16. \A v \in Threads : wpc'[v] \notin {"leaving", "exited"}
    BY <1>0, <2>5, Zenon DEF Reads
  <2> QED
    BY <1>0, <1>1, <1>2, <2>13, <2>14, <2>15, <2>16, ZenonT(30) DEF Reads
<1> QED
  BY <1>3, <1>4, ZenonT(30)

LEMMA ExactRead ==
    ASSUME Exact, ~closed, NEW w \in Threads, ReadOk(w)
    PROVE  Reads' /\ Leases'
<1>0. Safe /\ Reads /\ Leases /\ prefetcher # "fail" /\ wpc[w] = "read"
  BY Zenon DEF Exact, Reads, ReadOk
<1>1. PICK k \in Keys : k = wkey[w]
  BY <1>0 DEF Safe, RestOK
<1>2. UNCHANGED <<pc, key, prefetcher, queue, inflight, waiters, wkey>>
  BY DEF ReadOk, callers, prefetching, state
<1>3. /\ \A j \in Keys : Holders(j)' = Holders(j)
      /\ refs'[k] = 0
      /\ \A j \in Keys \ {k} : refs'[j] = refs[j] \/ (refs[j] = 0 /\ ~Cached(j)')
  <2>1. PICK E \in Cache!Evictions(refs, k) : refs' = Cache!Insert(refs, k, E)
    BY <1>1 DEF ReadOk
  <2> QED
    BY <1>0, <1>2, <2>1, InsertOK, Zenon
<1>4. ~Cached(k) /\ \A j \in Keys \ {k} : Cached(j)' => Cached(j)
  BY <1>0, <1>1, <1>3, ZenonT(30) DEF Reads, Cached, Cache!Absent
<1>5. Leases'
  <2>1. ASSUME NEW j \in Keys PROVE IF Cached(j)' THEN refs'[j] = Cardinality(Holders(j)')
                                    ELSE Holders(j)' = {}
    <3>1. CASE j = k
      <4>1. Holders(k) = {}
        BY <1>0, <1>4, Zenon DEF Leases
      <4>2. Cached(k)'
        BY <1>3 DEF Cached, Cache!Absent
      <4> QED
        BY <1>3, <3>1, <4>1, <4>2, FS_EmptySet, Zenon
    <3>2. CASE j # k /\ refs'[j] = refs[j]
      BY <1>0, <1>3, <3>2, Zenon DEF Leases, Cached
    <3>3. CASE j # k /\ refs[j] = 0 /\ ~Cached(j)'
      <4>1. Cardinality(Holders(j)) = 0
        BY <1>0, <3>3 DEF Leases, Cached, Cache!Absent
      <4> QED
        BY <1>3, <3>3, <4>1, FiniteHolders, FS_EmptySet, Zenon
    <3> QED
      BY <1>3, <3>1, <3>2, <3>3, Zenon
  <2> QED
    BY <2>1, Zenon DEF Leases
<1>6. /\ wpc'[w] = "loaded" /\ \A v \in Threads : v # w => wpc'[v] = wpc[v]
  BY <1>0, Zenon DEF ReadOk, Safe, RestOK
<1>7. Served(queue, inflight, waiters)'
  <2>1. \A j : Reading(j)' <=> Reading(j)
    BY <1>2 DEF Reading
  <2>2. \A n \in DOMAIN queue : queue[n] \in Keys \ {k}
    BY <1>0, <1>1 DEF Reads, Served, Reading, Safe, RestOK
  <2> QED
    BY <1>0, <1>2, <1>4, <2>1, <2>2, Zenon DEF Reads, Served, InQueue
<1>8. ASSUME NEW v \in Threads, wpc'[v] = "read" PROVE ~Cached(wkey[v])'
  <2>1. v # w /\ wpc[v] = "read"
    BY <1>6, <1>8, Zenon
  <2>2. PICK j \in Keys : j = wkey[v]
    BY <1>0, <2>1, Zenon DEF Safe, RestOK
  <2>3. j # k
    BY <1>0, <1>1, <2>1, <2>2, StoreAssumption, Zenon DEF Reads
  <2>4. ~Cached(j)'
    BY <1>0, <1>4, <2>1, <2>2, <2>3, Zenon DEF Reads
  <2> QED
    BY <1>2, <2>2, <2>4, Zenon DEF Cached
<1>9. \A v \in Threads : wpc'[v] \notin {"leaving", "exited"}
  BY <1>0, <1>6, Zenon DEF Reads
<1> QED
  BY <1>0, <1>2, <1>5, <1>7, <1>8, <1>9, ZenonT(30) DEF Reads

LEMMA ExactSettle ==
    ASSUME Exact, ~closed, NEW w \in Threads, Settle(w)
    PROVE  Reads' /\ Leases'
<1>0. Safe /\ Reads /\ Leases /\ prefetcher # "fail" /\ wpc[w] = "settle"
  BY DEF Exact, Reads, Settle
<1>1. PICK k \in Keys : k = wkey[w]
  BY <1>0, Zenon DEF Safe, RestOK
<1>2. /\ UNCHANGED <<refs, pc, key, prefetcher, queue>>
      /\ inflight' = inflight \ {k} /\ waiters' = waiters \ {k}
  BY <1>1 DEF Settle, prefetching
<1>3. Leases' /\ \A j \in Keys : Cached(j)' <=> Cached(j)
  BY <1>0, <1>2, StayOK, LeasesKept, ZenonT(30) DEF Cached
<1>4. /\ wpc'[w] = "signal" /\ wkey'[w] = NoKey
      /\ \A v \in Threads : v # w => wpc'[v] = wpc[v] /\ wkey'[v] = wkey[v]
  BY <1>0 DEF Settle, Safe, RestOK
<1>5. \A j \in Keys : Reading(j)' <=> Reading(j) /\ j # k
  BY <1>0, <1>1, <1>4, StoreAssumption, ZenonT(30) DEF Reads, Reading
<1>6. /\ Reading(k) /\ ~InQueue(queue, k) /\ \A n \in DOMAIN queue : queue[n] \in Keys
  BY <1>0, <1>1 DEF Reads, Served, Reading, InQueue, Safe, RestOK
<1>7. Served(queue, inflight, waiters)'
  <2>1. \A j \in Keys : j \in inflight' <=> InQueue(queue, j) \/ Reading(j)'
    BY <1>0, <1>2, <1>5, <1>6, ZenonT(30) DEF Reads, Served
  <2> QED
    BY <1>0, <1>2, <1>3, <1>5, <1>6, <2>1, ZenonT(30) DEF Reads, Served, InQueue
<1>8. ASSUME NEW v \in Threads, wpc'[v] = "read" PROVE ~Cached(wkey[v])'
  BY <1>0, <1>2, <1>4, <1>8, Zenon DEF Reads, Cached
<1>9. /\ \A v \in Threads : wpc'[v] \notin {"leaving", "exited"}
      /\ \A u, v \in Threads : wkey'[u] = wkey'[v] /\ wkey'[u] # NoKey => u = v
  BY <1>0, <1>4, Zenon DEF Reads
<1> QED
  BY <1>0, <1>2, <1>3, <1>7, <1>8, <1>9, ZenonT(30) DEF Reads

LEMMA ExactWorker ==
    ASSUME Faultless, Exact, ~closed, NEW w \in Threads, WorkerStep(w) \/ Panic(w)
    PROVE  Reads' /\ Leases'
<1>0. Safe /\ Reads /\ Leases /\ prefetcher # "fail"
  BY Zenon DEF Exact, Reads
<1>1. CASE ReadFails(w) \/ ClearError(w) \/ SignalRead(w)
  <2>1. UNCHANGED <<refs, pc, key, prefetcher, queue, inflight, waiters, wkey>>
    BY <1>1, Zenon DEF ReadFails, ClearError, SignalRead, callers, prefetching, state
  <2>2. Leases' /\ \A k \in Keys : Cached(k)' => Cached(k)
    BY <1>0, <2>1, StayOK, LeasesKept, Zenon DEF Cached
  <2>3. \A v \in Threads : wpc'[v] = wpc[v] \/ wpc'[v] \notin {"read", "leaving", "exited"}
    BY <1>0, <1>1, Zenon DEF ReadFails, ClearError, SignalRead, Safe, RestOK
  <2> QED
    BY <1>0, <2>1, <2>2, <2>3, ReadsKept, Zenon
<1>2. ~Exit(w) /\ ~Panic(w)
  BY <1>0 DEF Exit, Panic, Reads, Faultless
<1> QED
  BY <1>1, <1>2, ExactTake, ExactRead, ExactSettle, Zenon DEF WorkerStep

LEMMA ExactInit == ASSUME Init PROVE Exact
<1>1. Safe
  BY SafeInit
<1>2. /\ refs = [k \in Keys |-> -1] /\ queue = <<>> /\ inflight = {} /\ waiters = {}
      /\ \A w \in Threads : wpc[w] = "unborn" /\ wkey[w] = NoKey
      /\ \A t \in Callers : pc[t] = "idle"
      /\ prefetcher = "idle"
  BY Zenon DEF Init, Cache!Init, Cache!Absent
<1>3. Reads
  BY <1>2, StoreAssumption DEF Reads, Served, InQueue, Reading
<1>4. Leases
  BY <1>2, Zenon DEF Leases, Holders, Cached, Cache!Absent
<1> QED
  BY <1>1, <1>3, <1>4 DEF Exact

LEMMA ExactStep == ASSUME Faultless, Exact, [Next]_vars PROVE Exact'
<1>1. Safe'
  BY SafeStep DEF Exact
<1>2. SUFFICES ASSUME ~closed' PROVE Reads' /\ Leases'
  BY <1>1 DEF Exact
<1>3. CASE UNCHANGED vars
  <2>1. UNCHANGED <<refs, queue, inflight, waiters, closed, wpc, wkey, pc, key, prefetcher>>
    BY <1>3, Zenon DEF vars, state, workers, callers, prefetching
  <2>2. Safe /\ Reads /\ Leases /\ prefetcher # "fail"
    BY <1>2, <2>1, Zenon DEF Exact, Reads
  <2>3. Leases' /\ \A k \in Keys : Cached(k)' => Cached(k)
    BY <2>1, <2>2, StayOK, LeasesKept, Zenon DEF Cached
  <2> QED
    BY <2>1, <2>2, <2>3, ReadsKept, Zenon
<1>4. CASE Close \/ CloserStep
  BY <1>2, <1>4 DEF Close, CloserStep, DropQueue, SignalClosed, TakeHandles, JoinWorkers,
                    Exact, Safe, RestOK
<1>5. CASE \E t \in Callers : CallerStep(t) \/ Release(t) \/ \E k \in AcquireKeys : Call(t, k)
  <2>1. PICK t \in Callers : CallerStep(t) \/ Release(t) \/ \E k \in AcquireKeys : Call(t, k)
    BY <1>5
  <2>2. closed' = closed
    BY <2>1, Zenon DEF CallerStep, CheckCache, JoinOrRequest, EnsureForAcquire, TestDone, WakeUp,
                LookAfterWait, TakeError, Release, Call
  <2> QED
    BY <1>2, <2>1, <2>2, ExactCaller, ExactRelease, Zenon
<1>6. CASE CallPrefetch \/ PrefetcherStep
  BY <1>2, <1>6, PrefetchOK, ExactPrefetch DEF Exact
<1>7. CASE \E w \in Threads : WorkerStep(w) \/ Panic(w)
  BY <1>2, <1>7, WorkerRestOK, ExactWorker DEF Exact
<1> QED
  BY <1>3, <1>4, <1>5, <1>6, <1>7, Zenon DEF Next

(* StreamingStore: while no worker panics and every spawn succeeds, read   *)
(* errors and evictions included, and until close, the leases of a chunk   *)
(* are exactly the callers between acquire and release, a chunk is read or *)
(* queued at most once, and whoever joins a read waits for one that is     *)
(* queued or running.                                                      *)
THEOREM ReadsAndLeasesAreExact ==
    ASSUME Faultless
    PROVE  Spec => []ReadsAndLeasesExact
<1>1. Exact /\ [Next]_vars => Exact'
  BY ExactStep
<1>2. ASSUME Exact PROVE ReadsAndLeasesExact
  <2>1. LeasesMatchHolders
    BY <1>2, Zenon DEF Exact, Leases, LeasesMatchHolders
  <2>2. PendingIsServed
    BY <1>2 DEF Exact, Reads, Served, PendingIsServed, Queued, Readers, Reading, Safe, RestOK
  <2>3. ASSUME ~closed, NEW k \in Keys
        PROVE  Cardinality(Readers(k)) + Cardinality({n \in DOMAIN queue : queue[n] = k}) <= 1
    <3> DEFINE P == {n \in DOMAIN queue : queue[n] = k}
    <3>1. Reads /\ k # NoKey
      BY <1>2, <2>3, StoreAssumption, Zenon DEF Exact
    <3>2. Readers(k) = {} \/ \E w \in Threads : Readers(k) = {w}
      BY <3>1 DEF Reads, Readers
    <3>3. P = {} \/ \E n \in DOMAIN queue : P = {n}
      <4>1. \A m, n \in DOMAIN queue : queue[m] = queue[n] => m = n
        BY <3>1, Zenon DEF Reads, Served
      <4> QED
        BY <4>1
    <3>4. Readers(k) = {} \/ P = {}
      BY <3>1 DEF Reads, Served, Readers, Reading
    <3>5. Cardinality({}) = 0 /\ \A x : Cardinality({x}) = 1
      BY FS_EmptySet, FS_Singleton, Zenon
    <3> HIDE DEF P
    <3>6. Cardinality(Readers(k)) \in {0, 1} /\ Cardinality(P) \in {0, 1}
      BY <3>2, <3>3, <3>5, Zenon
    <3>7. Cardinality(Readers(k)) = 0 \/ Cardinality(P) = 0
      BY <3>4, <3>5
    <3>8. Cardinality(Readers(k)) + Cardinality(P) <= 1
      BY <3>6, <3>7
    <3> QED
      BY <3>8 DEF P
  <2> QED
    BY <2>1, <2>2, <2>3, Zenon DEF ReadsAndLeasesExact, OneReadPerKey
<1> QED
  BY <1>1, <1>2, ExactInit, PTL DEF Spec
=============================================================================
