--------------------------- MODULE StreamingStore ---------------------------
(***************************************************************************)
(* The pack-backed parameter store (crates/tt-storage/src/streaming.rs):   *)
(* callers that acquire and release chunks, callers that prefetch, a pool  *)
(* of lazily spawned I/O workers and `close`, over one state mutex, one    *)
(* condition variable for the workers and one per pending read.            *)
(*                                                                         *)
(* Each action is one lock region, or one step between two of them.  The   *)
(* cache is LeaseCache: which unleased chunk is evicted is left open.      *)
(*                                                                         *)
(* A pending read's (done flag, condvar) pair is not an object of its own: *)
(* waiters is the set of keys that have one in the map, and sub[t] says    *)
(* where the pair that caller t holds is: still in the map, taken out by   *)
(* the process that will signal it, or signalled.                          *)
(***************************************************************************)
EXTENDS Integers, Sequences, FiniteSets

CONSTANTS Keys, Size, Capacity,
          AcquireKeys,      \* keys the callers ask for; the others are only prefetched
          Callers,          \* threads in acquire_bytes / release
          WorkerCount,      \* io_workers
          QueueLimit,       \* queue_limit
          Faulty,           \* keys whose pread may fail
          SpawnMayFail,     \* whether thread::Builder::spawn may return an error
          MayPanic,         \* whether a worker may panic in pread
          MayClose,         \* whether close is called
          MaxAcquires,      \* bound: acquires of each caller
          MaxPrefetches,    \* bound: prefetch calls
          NoKey

ASSUME StoreAssumption ==
    /\ IsFiniteSet(Callers) /\ WorkerCount \in Nat \ {0}
    /\ AcquireKeys \subseteq Keys /\ NoKey \notin Keys
    /\ SpawnMayFail \in BOOLEAN /\ MayPanic \in BOOLEAN /\ MayClose \in BOOLEAN

VARIABLES refs,             \* the cache
          queue, inflight, waiters, errors,     \* State
          closed,
          handles,          \* JoinHandles in self.workers
          wpc, wkey,        \* worker threads: program counter and key
          pc, key, sub, acquires,               \* callers
          prefetcher,       \* program counter of the prefetching thread
          prefetches,
          closer,           \* program counter of the closing thread
          joining           \* handles it has taken

state == <<queue, inflight, waiters, errors>>
workers == <<handles, wpc, wkey>>
callers == <<pc, key, sub, acquires>>
prefetching == <<prefetcher, prefetches>>
closing == <<closer, joining>>
vars == <<refs, state, closed, workers, callers, prefetching, closing>>

Cache == INSTANCE LeaseCache

(* After close has taken the handles a second set of workers can be born.  *)
Threads == 1..(2 * WorkerCount)
Prefetcher == 0
Closer == -1
Signallers == Threads \cup {Prefetcher, Closer}

(* Where a caller's pair is.                                               *)
NoPair == <<"none", 0>>
InMap == <<"map", 0>>
HeldBy(s) == <<"held", s>>
Done == <<"done", 0>>

Cached(k) == refs[k] # Cache!Absent

Init ==
    /\ Cache!Init
    /\ queue = <<>> /\ inflight = {} /\ waiters = {} /\ errors = {}
    /\ closed = FALSE
    /\ handles = {}
    /\ wpc = [w \in Threads |-> "unborn"] /\ wkey = [w \in Threads |-> NoKey]
    /\ pc = [t \in Callers |-> "idle"] /\ key = [t \in Callers |-> NoKey]
    /\ sub = [t \in Callers |-> NoPair] /\ acquires = [t \in Callers |-> 0]
    /\ prefetcher = "idle" /\ prefetches = 0
    /\ closer = IF MayClose THEN "idle" ELSE "closed"
    /\ joining = {}

-----------------------------------------------------------------------------
(* Condition variables and threads                                         *)

(* Signaller s takes the pairs of the keys K out of the map ...            *)
Detach(s, K) ==
    sub' = [t \in Callers |-> IF sub[t] = InMap /\ key[t] \in K THEN HeldBy(s)
                              ELSE sub[t]]

(* ... and then sets their done flags.                                     *)
Signal(s) == sub' = [t \in Callers |-> IF sub[t] = HeldBy(s) THEN Done ELSE sub[t]]

Asleep(pcs) == {w \in Threads : pcs[w] = "asleep"}
Woken(pcs, W) == [w \in Threads |-> IF w \in W THEN "check" ELSE pcs[w]]

Finished(w) == wpc[w] = "exited"
Missing == WorkerCount - Cardinality(handles)
Unborn == {w \in Threads : wpc[w] = "unborn"}

(* ensure_workers gives n new workers.  It fails at once when a worker has *)
(* finished, and at the first spawn that fails.                            *)
EnsureWorkers(n, ok) ==
    IF \E w \in handles : Finished(w)
    THEN n = 0 /\ ~ok
    ELSE n \in 0..Missing /\ (ok <=> n = Missing) /\ (~ok => SpawnMayFail)

Born(n) == {w \in Unborn : Cardinality({v \in Unborn : v < w}) < n}

-----------------------------------------------------------------------------
(* acquire_bytes and release                                               *)

Leave(t) ==
    /\ pc' = [pc EXCEPT ![t] = "idle"]
    /\ key' = [key EXCEPT ![t] = NoKey]
    /\ sub' = [sub EXCEPT ![t] = NoPair]

Hit(t) ==
    /\ refs' = Cache!Lease(refs, key[t])
    /\ pc' = [pc EXCEPT ![t] = "hold"]
    /\ sub' = [sub EXCEPT ![t] = NoPair]
    /\ UNCHANGED key

Call(t, k) ==
    /\ pc[t] = "idle" /\ acquires[t] < MaxAcquires
    /\ acquires' = [acquires EXCEPT ![t] = @ + 1]
    /\ pc' = [pc EXCEPT ![t] = "check"]
    /\ key' = [key EXCEPT ![t] = k]
    /\ UNCHANGED <<refs, state, closed, workers, sub, prefetching, closing>>

(* The top of the loop: closed, cached, or on to the state lock.           *)
CheckCache(t) ==
    /\ pc[t] = "check"
    /\ \/ closed /\ Leave(t) /\ UNCHANGED refs
       \/ ~closed /\ Cached(key[t]) /\ Hit(t)
       \/ /\ ~closed /\ ~Cached(key[t])
          /\ pc' = [pc EXCEPT ![t] = "lock"]
          /\ UNCHANGED <<refs, key, sub>>
    /\ UNCHANGED <<state, closed, workers, acquires, prefetching, closing>>

(* Register a read of the key, at the front of the queue.                  *)
Request(t) ==
    /\ inflight' = inflight \cup {key[t]}
    /\ waiters' = waiters \cup {key[t]}
    /\ queue' = <<key[t]>> \o queue
    /\ sub' = [sub EXCEPT ![t] = InMap]
    /\ pc' = [pc EXCEPT ![t] = "ensure"]
    /\ UNCHANGED <<refs, key, errors>>

(* Wait for the read of the key that is under way.                         *)
Join(t) ==
    /\ sub' = [sub EXCEPT ![t] = InMap]
    /\ pc' = [pc EXCEPT ![t] = "wait"]
    /\ UNCHANGED <<refs, key, state>>

(* Mutant: a read that is under way is not joined. *)
JoinOrRequestAlways(t) ==
    /\ pc[t] = "lock"
    /\ \/ Cached(key[t]) /\ Hit(t) /\ UNCHANGED state
       \/ ~Cached(key[t]) /\ Request(t)
    /\ UNCHANGED <<closed, workers, acquires, prefetching, closing>>

(* Under the state lock: look again, join the pending read or request one. *)
JoinOrRequest(t) ==
    /\ pc[t] = "lock"
    /\ \/ Cached(key[t]) /\ Hit(t) /\ UNCHANGED state
       \/ ~Cached(key[t]) /\ key[t] \in waiters /\ Join(t)
       \/ ~Cached(key[t]) /\ key[t] \notin waiters /\ Request(t)
    /\ UNCHANGED <<closed, workers, acquires, prefetching, closing>>

(* Workers are spawned and one sleeper is notified; on an error the `?`    *)
(* returns with the request still registered and nobody notified.          *)
EnsureForAcquire(t) ==
    /\ pc[t] = "ensure"
    /\ \E n \in 0..WorkerCount, ok \in BOOLEAN :
        /\ EnsureWorkers(n, ok)
        /\ handles' = handles \cup Born(n)
        /\ IF ok
           THEN /\ \E W \in SUBSET Asleep(wpc) :
                    /\ Cardinality(W) = IF Asleep(wpc) = {} THEN 0 ELSE 1
                    /\ wpc' = Woken(wpc, W \cup Born(n))
                /\ pc' = [pc EXCEPT ![t] = "wait"]
                /\ UNCHANGED <<key, sub>>
           ELSE wpc' = Woken(wpc, Born(n)) /\ Leave(t)
    /\ UNCHANGED <<refs, state, closed, wkey, acquires, prefetching, closing>>

(* The wait loop tests done, then closed, then sleeps on the pair.         *)
TestDone(t) ==
    /\ pc[t] = "wait"
    /\ \/ /\ sub[t] = Done
          /\ pc' = [pc EXCEPT ![t] = "after"]
          /\ sub' = [sub EXCEPT ![t] = NoPair]
          /\ UNCHANGED key
       \/ sub[t] # Done /\ closed /\ Leave(t)
       \/ /\ sub[t] # Done /\ ~closed
          /\ pc' = [pc EXCEPT ![t] = "asleep"]
          /\ UNCHANGED <<key, sub>>
    /\ UNCHANGED <<refs, state, closed, workers, acquires, prefetching, closing>>

(* Only the signal of its pair wakes it.                                   *)
WakeUp(t) ==
    /\ pc[t] = "asleep" /\ sub[t] = Done
    /\ pc' = [pc EXCEPT ![t] = "wait"]
    /\ UNCHANGED <<refs, state, closed, workers, key, sub, acquires,
                   prefetching, closing>>

(* After the wait: the chunk is cached, or was evicted or never read.      *)
LookAfterWait(t) ==
    /\ pc[t] = "after"
    /\ \/ Cached(key[t]) /\ Hit(t)
       \/ /\ ~Cached(key[t])
          /\ pc' = [pc EXCEPT ![t] = "errors"]
          /\ UNCHANGED <<refs, key, sub>>
    /\ UNCHANGED <<state, closed, workers, acquires, prefetching, closing>>

(* One of the waiting callers takes the error of the read; the others, and *)
(* those whose chunk was evicted, start over.                              *)
TakeError(t) ==
    /\ pc[t] = "errors"
    /\ errors' = errors \ {key[t]}
    /\ \/ key[t] \in errors /\ Leave(t)
       \/ /\ key[t] \notin errors
          /\ pc' = [pc EXCEPT ![t] = "check"]
          /\ UNCHANGED <<key, sub>>
    /\ UNCHANGED <<refs, queue, inflight, waiters, closed, workers, acquires,
                   prefetching, closing>>

Release(t) ==
    /\ pc[t] = "hold"
    /\ refs' = Cache!Return(refs, key[t])
    /\ Leave(t)
    /\ UNCHANGED <<state, closed, workers, acquires, prefetching, closing>>

-----------------------------------------------------------------------------
(* prefetch                                                                *)

(* closed is read before the state lock is taken.                          *)
CallPrefetch ==
    /\ prefetcher = "idle" /\ prefetches < MaxPrefetches
    /\ prefetches' = prefetches + 1
    /\ prefetcher' = IF closed THEN "idle" ELSE "lock"
    /\ UNCHANGED <<refs, state, closed, workers, callers, closing>>

InQueue(q, k) == \E n \in DOMAIN q : q[n] = k

(* One turn of the loop over the keys asked for: a key that is neither     *)
(* cached nor pending is queued while the queue has room.                  *)
Offer(s, k) ==
    IF Len(s.queue) >= QueueLimit \/ Cached(k) \/ k \in s.inflight \/ InQueue(s.queue, k)
    THEN s
    ELSE [queue |-> Append(s.queue, k), inflight |-> s.inflight \cup {k},
          waiters |-> s.waiters \cup {k}]

Offered(asked) ==
    Offer(Offer([queue |-> queue, inflight |-> inflight, waiters |-> waiters], asked[1]),
          asked[2])

(* Mutant: the probe of the cache is not released. *)
QueuePrefetchKeepsProbe(asked) ==
    LET s == Offered(asked) IN
    /\ prefetcher = "lock"
    /\ queue' = s.queue /\ inflight' = s.inflight /\ waiters' = s.waiters
    /\ prefetcher' = IF s.queue = queue THEN "idle" ELSE "ensure"
    /\ refs' = IF Cached(asked[1]) THEN Cache!Lease(refs, asked[1]) ELSE refs
    /\ UNCHANGED <<errors, closed, workers, callers, prefetches, closing>>

(* Two keys are asked for at a time.                                       *)
QueuePrefetch(asked) ==
    LET s == Offered(asked) IN
    /\ prefetcher = "lock"
    /\ queue' = s.queue /\ inflight' = s.inflight /\ waiters' = s.waiters
    /\ prefetcher' = IF s.queue = queue THEN "idle" ELSE "ensure"
    /\ UNCHANGED <<refs, errors, closed, workers, callers, prefetches, closing>>

EnsureForPrefetch ==
    /\ prefetcher = "ensure"
    /\ \E n \in 0..WorkerCount, ok \in BOOLEAN :
        /\ EnsureWorkers(n, ok)
        /\ handles' = handles \cup Born(n)
        /\ wpc' = Woken(wpc, Born(n) \cup IF ok THEN Asleep(wpc) ELSE {})
        /\ prefetcher' = IF ok THEN "idle" ELSE "fail"
    /\ UNCHANGED <<refs, state, closed, wkey, callers, prefetches, closing>>

(* fail_pending: every pending read of the store is given up.              *)
FailPending ==
    /\ prefetcher = "fail"
    /\ queue' = <<>> /\ inflight' = {} /\ waiters' = {}
    /\ errors' = errors \cup waiters
    /\ Detach(Prefetcher, Keys)
    /\ prefetcher' = "signal"
    /\ UNCHANGED <<refs, closed, workers, pc, key, acquires, prefetches, closing>>

SignalFailed ==
    /\ prefetcher = "signal"
    /\ Signal(Prefetcher)
    /\ prefetcher' = "idle"
    /\ UNCHANGED <<refs, state, closed, workers, pc, key, acquires, prefetches,
                   closing>>

-----------------------------------------------------------------------------
(* worker_loop                                                             *)

(* Under the state lock: take the front of the queue, return when closed,  *)
(* or sleep.                                                               *)
TakeWork(w) ==
    /\ wpc[w] = "check"
    /\ \/ /\ queue # <<>>
          /\ wkey' = [wkey EXCEPT ![w] = Head(queue)]
          /\ queue' = Tail(queue)
          /\ wpc' = [wpc EXCEPT ![w] = "read"]
       \/ /\ queue = <<>>
          /\ wpc' = [wpc EXCEPT ![w] = IF closed THEN "leaving" ELSE "asleep"]
          /\ UNCHANGED <<queue, wkey>>
    /\ UNCHANGED <<refs, inflight, waiters, errors, closed, handles, callers,
                   prefetching, closing>>

ReadOk(w) ==
    /\ wpc[w] = "read"
    /\ \E E \in Cache!Evictions(refs, wkey[w]) :
        refs' = Cache!Insert(refs, wkey[w], E)
    /\ wpc' = [wpc EXCEPT ![w] = "loaded"]
    /\ UNCHANGED <<state, closed, handles, wkey, callers, prefetching, closing>>

ClearError(w) ==
    /\ wpc[w] = "loaded"
    /\ errors' = errors \ {wkey[w]}
    /\ wpc' = [wpc EXCEPT ![w] = "settle"]
    /\ UNCHANGED <<refs, queue, inflight, waiters, closed, handles, wkey,
                   callers, prefetching, closing>>

(* Mutant: a failed read leaves its pair in the map. *)
ReadFailsUnsettled(w) ==
    /\ wpc[w] = "read" /\ wkey[w] \in Faulty
    /\ errors' = errors \cup {wkey[w]}
    /\ wpc' = [wpc EXCEPT ![w] = "check"]
    /\ wkey' = [wkey EXCEPT ![w] = NoKey]
    /\ UNCHANGED <<refs, queue, inflight, waiters, closed, handles,
                   callers, prefetching, closing>>

ReadFails(w) ==
    /\ wpc[w] = "read" /\ wkey[w] \in Faulty
    /\ errors' = errors \cup {wkey[w]}
    /\ wpc' = [wpc EXCEPT ![w] = "settle"]
    /\ UNCHANGED <<refs, queue, inflight, waiters, closed, handles, wkey,
                   callers, prefetching, closing>>

Panic(w) ==
    /\ MayPanic /\ wpc[w] = "read"
    /\ wpc' = [wpc EXCEPT ![w] = "leaving"]
    /\ wkey' = [wkey EXCEPT ![w] = NoKey]
    /\ UNCHANGED <<refs, state, closed, handles, callers, prefetching, closing>>

(* The read is no longer pending; its pair, if still in the map, is taken. *)
Settle(w) ==
    /\ wpc[w] = "settle"
    /\ inflight' = inflight \ {wkey[w]}
    /\ waiters' = waiters \ {wkey[w]}
    /\ Detach(w, {wkey[w]})
    /\ wpc' = [wpc EXCEPT ![w] = "signal"]
    /\ wkey' = [wkey EXCEPT ![w] = NoKey]
    /\ UNCHANGED <<refs, queue, errors, closed, handles, pc, key, acquires,
                   prefetching, closing>>

SignalRead(w) ==
    /\ wpc[w] = "signal"
    /\ Signal(w)
    /\ wpc' = [wpc EXCEPT ![w] = "check"]
    /\ UNCHANGED <<refs, state, closed, handles, wkey, pc, key, acquires,
                   prefetching, closing>>

Exit(w) ==
    /\ wpc[w] = "leaving"
    /\ wpc' = [wpc EXCEPT ![w] = "exited"]
    /\ UNCHANGED <<refs, state, closed, handles, wkey, callers, prefetching,
                   closing>>

-----------------------------------------------------------------------------
(* close                                                                   *)

Close ==
    /\ closer = "idle"
    /\ closed' = TRUE
    /\ closer' = "drain"
    /\ UNCHANGED <<refs, state, workers, callers, prefetching, joining>>

DropQueue ==
    /\ closer = "drain"
    /\ queue' = <<>> /\ inflight' = {} /\ waiters' = {}
    /\ Detach(Closer, Keys)
    /\ closer' = "signal"
    /\ UNCHANGED <<refs, errors, closed, workers, pc, key, acquires, prefetching, joining>>

(* Mutant: only the workers are woken, not the waiting callers. *)
SignalWorkersOnly ==
    /\ closer = "signal"
    /\ wpc' = Woken(wpc, Asleep(wpc))
    /\ closer' = "take"
    /\ UNCHANGED <<refs, state, closed, handles, wkey, callers, prefetching, joining>>

(* Mutant: only the waiting callers are woken, not the workers. *)
SignalCallersOnly ==
    /\ closer = "signal"
    /\ Signal(Closer)
    /\ closer' = "take"
    /\ UNCHANGED <<refs, state, closed, workers, pc, key, acquires, prefetching, joining>>

SignalClosed ==
    /\ closer = "signal"
    /\ wpc' = Woken(wpc, Asleep(wpc))
    /\ Signal(Closer)
    /\ closer' = "take"
    /\ UNCHANGED <<refs, state, closed, handles, wkey, pc, key, acquires,
                   prefetching, joining>>

(* From here on ensure_workers finds no handle and spawns a second set.    *)
TakeHandles ==
    /\ closer = "take"
    /\ closer' = "join"
    /\ joining' = handles
    /\ handles' = {}
    /\ UNCHANGED <<refs, state, closed, wpc, wkey, callers, prefetching>>

JoinWorkers ==
    /\ closer = "join"
    /\ \A w \in joining : Finished(w)
    /\ closer' = "closed"
    /\ joining' = {}
    /\ UNCHANGED <<refs, state, closed, workers, callers, prefetching>>

-----------------------------------------------------------------------------

CallerStep(t) ==
    \/ CheckCache(t) \/ JoinOrRequest(t) \/ EnsureForAcquire(t) \/ TestDone(t)
    \/ WakeUp(t) \/ LookAfterWait(t) \/ TakeError(t)

PrefetcherStep ==
    \/ \E asked \in Keys \X Keys : QueuePrefetch(asked)
    \/ EnsureForPrefetch \/ FailPending \/ SignalFailed

WorkerStep(w) ==
    \/ TakeWork(w) \/ ReadOk(w) \/ ReadFails(w) \/ ClearError(w) \/ Settle(w)
    \/ SignalRead(w) \/ Exit(w)

CloserStep == DropQueue \/ SignalClosed \/ TakeHandles \/ JoinWorkers

Next ==
    \/ \E t \in Callers : CallerStep(t) \/ Release(t) \/ \E k \in AcquireKeys : Call(t, k)
    \/ CallPrefetch \/ PrefetcherStep
    \/ \E w \in Threads : WorkerStep(w) \/ Panic(w)
    \/ Close \/ CloserStep

(* Every thread is scheduled and every pread returns.  Nobody is obliged   *)
(* to call, to release or to close.                                        *)
Fairness ==
    /\ \A t \in Callers : WF_vars(CallerStep(t))
    /\ WF_vars(PrefetcherStep)
    /\ \A w \in Threads : WF_vars(WorkerStep(w))
    /\ WF_vars(CloserStep)

Spec == Init /\ [][Next]_vars /\ Fairness

-----------------------------------------------------------------------------
(* Properties                                                              *)

Holders(k) == {t \in Callers : pc[t] = "hold" /\ key[t] = k}
Readers(k) == {w \in Threads : wkey[w] = k}
Queued(k) == InQueue(queue, k)

(* Type invariant.                                                         *)
TypeOK ==
    /\ refs \in [Keys -> -1..Cardinality(Callers)]
    /\ queue \in Seq(Keys)
    /\ inflight \subseteq Keys /\ waiters \subseteq Keys /\ errors \subseteq Keys
    /\ closed \in BOOLEAN
    /\ handles \subseteq Threads /\ Cardinality(handles) <= WorkerCount
    /\ wpc \in [Threads -> {"unborn", "check", "asleep", "read", "loaded", "settle", "signal",
                            "leaving", "exited"}]
    /\ wkey \in [Threads -> Keys \cup {NoKey}]
    /\ pc \in [Callers -> {"idle", "check", "lock", "ensure", "wait", "asleep", "after",
                           "errors", "hold"}]
    /\ key \in [Callers -> Keys \cup {NoKey}]
    /\ sub \in [Callers -> {NoPair, InMap, Done} \cup {HeldBy(s) : s \in Signallers}]
    /\ prefetcher \in {"idle", "lock", "ensure", "fail", "signal"}
    /\ closer \in {"idle", "drain", "signal", "take", "join", "closed"}

(* A chunk is leased by exactly the callers between a successful acquire   *)
(* and its release, so no leased chunk is evicted and none stays pinned.   *)
LeasesMatchHolders ==
    ~closed => \A k \in Keys : IF Cached(k) THEN refs[k] = Cardinality(Holders(k))
                                            ELSE Holders(k) = {}

(* No lease outlives its holder, even when workers die, spawns fail and    *)
(* the store is closed: a chunk can lose a pin early, but is never pinned  *)
(* by nobody, which would keep its bytes for the life of the store.  The   *)
(* state stays well typed.                                                 *)
NoPhantomLease ==
    TypeOK /\ \A k \in Keys : Cached(k) => refs[k] <= Cardinality(Holders(k))

(* inflight is shared: no chunk is read twice at the same time, and none   *)
(* is queued while it is read or queued.                                   *)
OneReadPerKey ==
    ~closed => \A k \in Keys :
        Cardinality(Readers(k)) + Cardinality({n \in DOMAIN queue : queue[n] = k}) <= 1

(* A pair in the waiter map belongs to a read that is queued or running,   *)
(* so the callers that join it are waiting for something.                  *)
PendingIsServed ==
    ~closed => \A k \in waiters : k \in inflight /\ (Queued(k) \/ Readers(k) # {})

(* A chunk is leased by exactly its holders, none is read twice at the     *)
(* same time, and the callers that join a read wait for one that is queued *)
(* or running.                                                             *)
ReadsAndLeasesExact == LeasesMatchHolders /\ OneReadPerKey /\ PendingIsServed

(* Every acquire returns, with the chunk or an error, also when its chunk  *)
(* is evicted before it looks or the store is closed while it waits.       *)
AcquireReturns ==
    \A t \in Callers : (pc[t] \notin {"idle", "hold"}) ~> (pc[t] \in {"idle", "hold"})

(* close returns: every worker it joins sees the flag and exits.           *)
CloseReturns == (closer # "idle") ~> (closer = "closed")
=============================================================================
