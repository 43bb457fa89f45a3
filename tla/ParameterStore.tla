--------------------------- MODULE ParameterStore ---------------------------
(***************************************************************************)
(* StreamingParameterStore (runtime/tensor_store.py): the decoded tensors  *)
(* of a model pack, kept under a RAM budget and shared by the concurrent   *)
(* forwards of one module.                                                 *)
(*                                                                         *)
(* A forward reaches the store through the callbacks of                    *)
(* runtime/native_bridge/run.py: parameter_load_cb acquires a parameter    *)
(* when the schedule loads it, handle_release_cb releases it once for      *)
(* every resource label the schedule evicts it from.  Native I/O runs      *)
(* between two critical sections of the store's lock, so one action is one *)
(* critical section.  An event of _inflight is represented by the set of   *)
(* threads that wait for it.                                               *)
(***************************************************************************)
EXTENDS Naturals, FiniteSets

CONSTANTS
  Forwards,   \* forwards, one loading thread each
  Keys,       \* pack blocks
  Size,       \* their bytes
  Budget,     \* _budget
  Schedules,  \* the sets of parameters a schedule may load
  Labels,     \* resources a loaded parameter is evicted from: staging, or staging and device
  None

VARIABLES
  cache,      \* _cache: the decoded tensors ...
  older,      \* ... and its order: <<j, k>> when j was used less recently than k
  pinned,     \* _pinned
  staging,    \* keys of _staging
  inflight,   \* _inflight: key -> waiting threads, or None
  closed,
  pc, key,    \* forward -> step, and the parameter it is loading
  todo,       \* forward -> parameters its schedule has not loaded yet
  held        \* forward -> parameters it has loaded and not evicted

lru == <<cache, older>>
vars == <<lru, pinned, staging, inflight, closed, pc, key, todo, held>>

(* A pack has finitely many blocks, of a known size each.                  *)
ParameterAssumption == IsFiniteSet(Keys) /\ Size \in [Keys -> Nat] /\ Budget \in Nat

Goto(f, l) == pc' = [pc EXCEPT ![f] = l]

(* How many bytes the blocks S have in the pack, which is what the store   *)
(* counts: a set of bytes of its own for each block.                       *)
Block(k) == {k} \X (1 .. Size[k])
Bytes(S) == Cardinality(UNION {Block(k) : k \in S})

(* move_to_end of k, new or not.                                           *)
Touch(k) ==
  /\ cache' = cache \cup {k}
  /\ older' = {p \in older : k \notin {p[1], p[2]}} \cup ((cache \ {k}) \X {k})

(* Mutant: bytes being read are not counted. *)
DecodedOnly(c, s) == Bytes(c)

(* _resident_bytes *)
Resident(c, s) == Bytes(c) + Bytes(s)

(* _evict_if_needed: unpinned entries go, from the least recently used one,*)
(* as long as the incoming bytes do not fit.  So an unpinned entry is      *)
(* spared when they fit without the unpinned entries older than it.        *)
Spared(pins, incoming) ==
  {k \in cache : LET before == {j \in cache : pins[j] = 0 /\ <<j, k>> \in older}
                 IN  pins[k] # 0 \/ Resident(cache \ before, staging) + incoming <= Budget}
Keep(spared) == cache' = spared /\ older' = older \cap (spared \X spared)

Pin(f, k) ==
  /\ pinned' = [pinned EXCEPT ![k] = @ + 1]
  /\ held' = [held EXCEPT ![f] = @ \cup {k}]
  /\ Goto(f, "run")

(* The threads an event of key k releases. *)
Woken(waiting) ==
  [f \in Forwards |-> IF f \in waiting THEN (IF pc[f] = "waitAcquire" THEN "wokenAcquire" ELSE "wokenLoad")
                                       ELSE pc[f]]

----------------------------------------------------------------------------
(* acquire: a hit pins; a load in flight is awaited. *)
Acquire(f, k) ==
  /\ pc[f] = "run" /\ k \in todo[f]
  /\ todo' = [todo EXCEPT ![f] = @ \ {k}]
  /\ key' = [key EXCEPT ![f] = k]
  /\ CASE k \in cache -> Touch(k) /\ Pin(f, k) /\ UNCHANGED inflight
       [] k \notin cache /\ inflight[k] # None ->
            /\ inflight' = [inflight EXCEPT ![k] = @ \cup {f}]
            /\ Goto(f, "waitAcquire")
            /\ UNCHANGED <<lru, pinned, held>>
       [] OTHER -> Goto(f, "load") /\ UNCHANGED <<lru, inflight, pinned, held>>
  /\ UNCHANGED <<staging, closed>>

(* A waiter whose load failed, or was evicted again, loads for itself. *)
AcquireAgain(f) ==
  /\ pc[f] = "wokenAcquire"
  /\ IF key[f] \in cache
     THEN Touch(key[f]) /\ Pin(f, key[f])
     ELSE Goto(f, "load") /\ UNCHANGED <<lru, pinned, held>>
  /\ UNCHANGED <<staging, inflight, closed, key, todo>>

(* The head of _load: reserve the bytes, or wait for the thread that did.  *)
(* The reservation is refused when pinned and staging bytes leave no room. *)
Reserve(f) ==
  /\ pc[f] = "load"
  /\ LET k == key[f]
         room == Spared(pinned, Size[k])
     IN  CASE closed -> Goto(f, "failed") /\ UNCHANGED <<lru, staging, inflight>>
           [] ~closed /\ k \in cache -> Goto(f, "pin") /\ UNCHANGED <<lru, staging, inflight>>
           [] ~closed /\ k \notin cache /\ k \in staging ->
                /\ inflight' = [inflight EXCEPT ![k] = IF @ = None THEN {f} ELSE @ \cup {f}]
                /\ Goto(f, "waitLoad")
                /\ UNCHANGED <<lru, staging>>
           [] OTHER ->
                /\ Keep(room)
                /\ IF Resident(room, staging) + Size[k] > Budget
                   THEN Goto(f, "failed") /\ UNCHANGED <<staging, inflight>>
                   ELSE /\ staging' = staging \cup {k}
                        /\ inflight' = [inflight EXCEPT ![k] = IF @ = None THEN {} ELSE @]
                        /\ Goto(f, "read")
  /\ UNCHANGED <<pinned, closed, key, todo, held>>

LoadAgain(f) ==
  /\ pc[f] = "wokenLoad"
  /\ Goto(f, IF key[f] \in cache THEN "pin" ELSE "failed")
  /\ UNCHANGED <<lru, pinned, staging, inflight, closed, key, todo, held>>

(* Native read and decode, then the commit; either part may fail. *)
Commit(f) ==
  /\ pc[f] = "read"
  /\ staging' = staging \ {key[f]}
  /\ \/ /\ ~closed
        /\ Touch(key[f])
        /\ Goto(f, "signal")
     \/ /\ UNCHANGED lru
        /\ Goto(f, "signalFailed")
  /\ UNCHANGED <<pinned, inflight, closed, key, todo, held>>

(* Mutant: only a load that succeeded wakes its waiters. *)
SignalSuccess(f) ==
  /\ pc[f] \in {"signal", "signalFailed"}
  /\ LET w == IF inflight[key[f]] = None \/ pc[f] = "signalFailed" THEN {} ELSE inflight[key[f]]
     IN  pc' = [Woken(w) EXCEPT ![f] = IF @ = "signal" THEN "pin" ELSE "failed"]
  /\ inflight' = [inflight EXCEPT ![key[f]] = None]
  /\ UNCHANGED <<lru, pinned, staging, closed, key, todo, held>>

(* The finally of _load, in a critical section of its own. *)
Signal(f) ==
  /\ pc[f] \in {"signal", "signalFailed"}
  /\ LET w == IF inflight[key[f]] = None THEN {} ELSE inflight[key[f]]
     IN  pc' = [Woken(w) EXCEPT ![f] = IF @ = "signal" THEN "pin" ELSE "failed"]
  /\ inflight' = [inflight EXCEPT ![key[f]] = None]
  /\ UNCHANGED <<lru, pinned, staging, closed, key, todo, held>>

(* acquire pins what _load returned only after taking the lock again. *)
PinLoaded(f) ==
  /\ pc[f] = "pin"
  /\ Pin(f, key[f])
  /\ UNCHANGED <<lru, staging, inflight, closed, key, todo>>

(* handle_release_cb: one release for each evicted label. *)
Release(f, k) ==
  /\ pc[f] = "run" /\ k \in held[f]
  /\ held' = [held EXCEPT ![f] = @ \ {k}]
  /\ pinned' = [pinned EXCEPT ![k] = IF @ > Labels THEN @ - Labels ELSE 0]
  /\ Keep(Spared(pinned', 0))
  /\ UNCHANGED <<staging, inflight, closed, pc, key, todo>>

Finish(f) ==
  /\ pc[f] = "run" /\ todo[f] = {} /\ held[f] = {}
  /\ Goto(f, "done")
  /\ UNCHANGED <<lru, pinned, staging, inflight, closed, key, todo, held>>

(* A forward that raises or is cancelled drops its execution context; its  *)
(* pins stay.                                                              *)
Abandon(f) ==
  /\ pc[f] \in {"run", "failed"}
  /\ held' = [held EXCEPT ![f] = {}]
  /\ Goto(f, "ended")
  /\ UNCHANGED <<lru, pinned, staging, inflight, closed, key, todo>>

Close ==
  /\ ~closed
  /\ closed' = TRUE
  /\ pc' = Woken(UNION {inflight[k] : k \in {j \in Keys : inflight[j] # None}})
  /\ inflight' = [k \in Keys |-> None]
  /\ staging' = {} /\ cache' = {} /\ older' = {}
  /\ UNCHANGED <<pinned, key, todo, held>>

Over == (\A f \in Forwards : pc[f] \in {"done", "ended"}) /\ closed /\ UNCHANGED vars

Init ==
  /\ cache = {} /\ older = {} /\ staging = {} /\ closed = FALSE
  /\ pinned = [k \in Keys |-> 0]
  /\ inflight = [k \in Keys |-> None]
  /\ pc = [f \in Forwards |-> "run"]
  /\ key = [f \in Forwards |-> None]
  /\ todo \in [Forwards -> Schedules]
  /\ held = [f \in Forwards |-> {}]

Step(f) ==
  \/ \E k \in Keys : Acquire(f, k) \/ Release(f, k)
  \/ AcquireAgain(f) \/ Reserve(f) \/ LoadAgain(f) \/ Commit(f) \/ Signal(f) \/ PinLoaded(f)
  \/ Finish(f) \/ Abandon(f)

Next == (\E f \in Forwards : Step(f)) \/ Close \/ Over

Spec == Init /\ [][Next]_vars /\ \A f \in Forwards : WF_vars(Step(f))

----------------------------------------------------------------------------
(* The store's own ledger: decoded and staging bytes never exceed the      *)
(* budget, and no parameter is read by two threads at a time, whatever     *)
(* fails, waits or is closed in between.                                   *)
LedgerWithinBudget ==
  /\ Bytes(cache) + Bytes(staging) <= Budget
  /\ \A k \in Keys : Cardinality({f \in Forwards : pc[f] = "read" /\ key[f] = k}) <= 1

(* Every forward comes out of acquire, with its tensor or an error: the    *)
(* event of a load is set by every exit of that load, or by close.         *)
AcquireReturns == <>(\A f \in Forwards : pc[f] \in {"done", "ended"})
=============================================================================
