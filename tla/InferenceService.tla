-------------------------- MODULE InferenceService --------------------------
(***************************************************************************)
(* The inference service (serve/app.py) on top of its ModelManager:        *)
(* infer, cancel, start and stop, the thread pool that runs the forwards   *)
(* and the done callback of their futures.                                 *)
(*                                                                         *)
(* A request of ModelManager is one call of infer; the one unloader is the *)
(* thread that calls start and stop.  An action is one lock region of the  *)
(* service or of the manager, or one step of the executor between them.    *)
(* Metrics and request records are left out, and with them how a forward   *)
(* ends: it returns, raises or notices that its token was cancelled.       *)
(***************************************************************************)
EXTENDS ModelManager

CONSTANTS Rids,             \* request ids
          MaxQueue,         \* max_queue_depth
          PoolThreads,      \* workers of a thread pool
          MaxStarts         \* bound: calls of start

(* stop frees the slots of one model manager, from one thread.             *)
ASSUME ServiceAssumption ==
    /\ MaxQueue \in Nat /\ PoolThreads \in Nat \ {0} /\ MaxStarts \in Nat
    /\ None \notin Requests /\ Cardinality(Unloaders) = 1

VARIABLES ready,            \* _ready and not _shutting_down
          pool, pools, shut,        \* _pool, pools made so far, pools shut down
          reserved,         \* _reserved_request_ids
          active,           \* _active: request id -> call, or None
          queue_depth,
          pc, rid,          \* infer: program counter and request id
          poolOf, fut,      \* its pool and its future
          token,            \* cancelled cancel tokens
          callback,         \* progress of _finished
          canceller,        \* call that cancel() has looked up
          ctl, starts,      \* the thread that starts and stops
          stopPool, ctodo   \* pool it shuts down, calls it has yet to cancel

manager == <<slots, calls, requests, unloaders>>
service == <<ready, pool, pools, shut, reserved, active, queue_depth>>
infers == <<pc, rid, poolOf, fut, token, callback>>
control == <<ctl, starts, stopPool, ctodo>>
serviceVars == <<manager, service, infers, canceller, control>>

Stopper == CHOOSE u \in Unloaders : TRUE

ServiceInit ==
    /\ Init
    /\ ready = FALSE /\ pool = 0 /\ pools = 0 /\ shut = {}
    /\ reserved = {} /\ active = [r \in Rids |-> None] /\ queue_depth = 0
    /\ pc = [c \in Requests |-> "idle"]
    /\ rid = [c \in Requests |-> None]
    /\ poolOf = [c \in Requests |-> 0]
    /\ fut = [c \in Requests |-> "none"]
    /\ token = {}
    /\ callback = [c \in Requests |-> "none"]
    /\ canceller = None
    /\ ctl = "stopped" /\ starts = 0 /\ stopPool = 0 /\ ctodo = {}

-----------------------------------------------------------------------------
(* infer, up to the submission                                             *)

Goto(c, s) == pc' = [pc EXCEPT ![c] = s]
Dequeue == queue_depth' = IF queue_depth = 0 THEN 0 ELSE queue_depth - 1

(* The first lock region; a request that fails its tests raises at once.   *)
Admit(c, r) ==
    /\ pc[c] = "idle"
    /\ ready /\ active[r] = None /\ r \notin reserved
    /\ queue_depth < MaxQueue
    /\ reserved' = reserved \cup {r}
    /\ queue_depth' = queue_depth + 1
    /\ rid' = [rid EXCEPT ![c] = r]
    /\ Goto(c, "acquire")
    /\ UNCHANGED <<manager, ready, pool, pools, shut, active, poolOf, fut, token,
                   callback, canceller, control>>

AcquireSlot(c, m) ==
    /\ pc[c] = "acquire"
    /\ Acquire(c, m)
    /\ Goto(c, "pool")
    /\ UNCHANGED <<service, rid, poolOf, fut, token, callback,
                   canceller, control>>

(* Mutant: a call waits for a model instead of failing. *)
AcquireWaits(c, m) ==
    /\ pc[c] = "acquire" /\ models[m] # None
    /\ in_flight[models[m]] >= limit[models[m]]
    /\ Goto(c, "undo")
    /\ UNCHANGED <<manager, service, rid, poolOf, fut, token, callback, canceller,
                   control>>

(* The model is not loaded or at its limit.                                *)
AcquireFails(c, m) ==
    /\ pc[c] = "acquire"
    /\ (models[m] # None => in_flight[models[m]] >= limit[models[m]])
    /\ Goto(c, "undo")
    /\ UNCHANGED <<manager, service, rid, poolOf, fut, token,
                   callback, canceller, control>>

(* _ensure_pool: a pool is made if there is none, ready or not.            *)
EnsurePool(c) ==
    /\ pc[c] = "pool"
    /\ pools' = IF pool = 0 THEN pools + 1 ELSE pools
    /\ pool' = IF pool = 0 THEN pools + 1 ELSE pool
    /\ poolOf' = [poolOf EXCEPT ![c] = pool']
    /\ Goto(c, "submit")
    /\ UNCHANGED <<manager, ready, shut, reserved, active, queue_depth, rid,
                   fut, token, callback, canceller, control>>

(* release_slot of the generation the call acquired, if it still has it    *)
(* or not: a second call would find another request's count.               *)
ReleaseHeld(c) ==
    /\ LET g == IF hold[c] # None THEN hold[c] ELSE released[c] IN
        /\ ReleaseSlot(g)
        /\ released' = [released EXCEPT ![c] = g]
    /\ hold' = [hold EXCEPT ![c] = None]
    /\ UNCHANGED <<models, model, limit, retired, warm, closes, looked, unloaders>>

(* A pool that was shut down since raises, and the slot is given back.     *)
Submit(c) ==
    /\ pc[c] = "submit"
    /\ \/ /\ poolOf[c] \notin shut
          /\ fut' = [fut EXCEPT ![c] = "pending"]
          /\ Goto(c, "register")
          /\ UNCHANGED manager
       \/ /\ poolOf[c] \in shut
          /\ ReleaseHeld(c)
          /\ Goto(c, "undo")
          /\ UNCHANGED fut
    /\ UNCHANGED <<service, rid, poolOf, token, callback, canceller,
                   control>>

(* Mutant: the error paths keep the place in the queue. *)
UndoKeepsDepth(c) ==
    /\ pc[c] = "undo"
    /\ reserved' = reserved \ {rid[c]}
    /\ Goto(c, "done")
    /\ UNCHANGED <<manager, ready, pool, pools, shut, active, queue_depth, rid,
                   poolOf, fut, token, callback, canceller, control>>

(* The lock region of the two error paths.                                 *)
Undo(c) ==
    /\ pc[c] = "undo"
    /\ reserved' = reserved \ {rid[c]}
    /\ Dequeue
    /\ Goto(c, "done")
    /\ UNCHANGED <<manager, ready, pool, pools, shut, active, rid, poolOf, fut,
                   token, callback, canceller, control>>

Register(c) ==
    /\ pc[c] = "register"
    /\ active' = [active EXCEPT ![rid[c]] = c]
    /\ reserved' = reserved \ {rid[c]}
    /\ Goto(c, "attach")
    /\ UNCHANGED <<manager, ready, pool, pools, shut, queue_depth, rid, poolOf,
                   fut, token, callback, canceller, control>>

(* add_done_callback and task_registered.set(): a future that is cancelled *)
(* by now runs the callback here, and its task never runs.                 *)
Attach(c) ==
    /\ pc[c] = "attach"
    /\ callback' = [callback EXCEPT ![c] = "attached"]
    /\ Goto(c, "wait")
    /\ UNCHANGED <<manager, service, rid, poolOf, fut, token,
                   canceller, control>>

-----------------------------------------------------------------------------
(* infer, waiting for the result                                           *)

Ended(c) == fut[c] \in {"done", "cancelled"}

(* The forward's result or exception, or the CancelledError of a future    *)
(* that was cancelled; which one is recorded is left out.                  *)
Result(c) ==
    /\ pc[c] = "wait" /\ Ended(c)
    /\ Goto(c, "done")
    /\ UNCHANGED <<manager, service, rid, poolOf, fut, token, callback,
                   canceller, control>>

(* The timeout cancels the token, never the future ...                     *)
Timeout(c) ==
    /\ pc[c] = "wait" /\ ~Ended(c)
    /\ token' = token \cup {c}
    /\ Goto(c, "grace")
    /\ UNCHANGED <<manager, service, rid, poolOf, fut, callback,
                   canceller, control>>

(* ... and the caller is told after the grace period, whatever came of it. *)
GraceEnds(c) ==
    /\ pc[c] = "grace"
    /\ Goto(c, "done")
    /\ UNCHANGED <<manager, service, rid, poolOf, fut, token, callback,
                   canceller, control>>

-----------------------------------------------------------------------------
(* The thread pool                                                         *)

(* Calls whose task or done callback occupies a thread of pool p.          *)
Occupied(p) ==
    {c \in Requests : /\ poolOf[c] = p
                      /\ \/ fut[c] \in {"running", "forward", "released"}
                         \/ fut[c] = "done" /\ callback[c] # "over"}

Pick(c) ==
    /\ fut[c] = "pending"
    /\ Cardinality(Occupied(poolOf[c])) < PoolThreads
    /\ fut' = [fut EXCEPT ![c] = "running"]
    /\ UNCHANGED <<manager, service, pc, rid, poolOf, token,
                   callback, canceller, control>>

(* Mutant: the event is cleared when the caller gives up. *)
BeginForwardWhileWaiting(c) ==
    /\ fut[c] = "running"
    /\ pc[c] = "wait"
    /\ fut' = [fut EXCEPT ![c] = "forward"]
    /\ UNCHANGED <<manager, service, pc, rid, poolOf, token,
                   callback, canceller, control>>

(* _run: task_registered.wait(), task_started.set().                       *)
BeginForward(c) ==
    /\ fut[c] = "running"
    /\ pc[c] \in {"wait", "grace", "done"}
    /\ fut' = [fut EXCEPT ![c] = "forward"]
    /\ UNCHANGED <<manager, service, pc, rid, poolOf, token,
                   callback, canceller, control>>

(* The forward returns, raises or notices its token; `finally` releases.   *)
EndForward(c) ==
    /\ fut[c] = "forward"
    /\ ReleaseHeld(c)
    /\ fut' = [fut EXCEPT ![c] = "released"]
    /\ UNCHANGED <<service, pc, rid, poolOf, token, callback, canceller,
                   control>>

SetResult(c) ==
    /\ fut[c] = "released"
    /\ fut' = [fut EXCEPT ![c] = "done"]
    /\ UNCHANGED <<manager, service, pc, rid, poolOf, token,
                   callback, canceller, control>>

(* _finished with the condition to release left open.  It runs in the      *)
(* worker, in the thread that cancelled the future or in infer itself.     *)
FinishedIf(c, release) ==
    /\ callback[c] = "attached" /\ Ended(c)
    /\ callback' = [callback EXCEPT ![c] = "unlist"]
    /\ IF release THEN ReleaseHeld(c) ELSE UNCHANGED manager
    /\ UNCHANGED <<service, pc, rid, poolOf, fut, token, canceller,
                   control>>

(* Mutant: the callback releases the slot of a task that ran, too. *)
FinishedAlways(c) == FinishedIf(c, TRUE)

(* A future that was cancelled never started: nobody else releases.        *)
Finished(c) == FinishedIf(c, fut[c] = "cancelled")

Unlist(c) ==
    /\ callback[c] = "unlist"
    /\ callback' = [callback EXCEPT ![c] = "over"]
    /\ active' = [active EXCEPT ![rid[c]] = None]
    /\ reserved' = reserved \ {rid[c]}
    /\ Dequeue
    /\ UNCHANGED <<manager, ready, pool, pools, shut, pc, rid, poolOf,
                   fut, token, canceller, control>>

-----------------------------------------------------------------------------
(* cancel, start and stop                                                  *)

(* future.cancel() works on futures that no worker has picked.             *)
Cancelled(C) == [c \in Requests |-> IF c \in C /\ fut[c] = "pending"
                                    THEN "cancelled" ELSE fut[c]]

Cancel(r) ==
    /\ canceller = None /\ active[r] # None
    /\ canceller' = active[r]
    /\ UNCHANGED <<manager, service, infers, control>>

(* token.cancel() and future.cancel(), after the lock was left.            *)
CancelLooked ==
    /\ canceller # None
    /\ token' = token \cup {canceller}
    /\ fut' = Cancelled({canceller})
    /\ canceller' = None
    /\ UNCHANGED <<manager, service, pc, rid, poolOf, callback,
                   control>>

Start ==
    /\ ctl = "stopped" /\ starts < MaxStarts
    /\ starts' = starts + 1
    /\ ctl' = "up"
    /\ ready' = TRUE
    /\ pools' = IF pool = 0 THEN pools + 1 ELSE pools
    /\ pool' = IF pool = 0 THEN pools + 1 ELSE pool
    /\ UNCHANGED <<manager, shut, reserved, active, queue_depth, infers,
                   canceller, stopPool, ctodo>>

(* The lock region of stop.                                                *)
Stop ==
    /\ ctl = "up"
    /\ ctl' = "cancel"
    /\ ready' = FALSE
    /\ reserved' = {}
    /\ stopPool' = pool
    /\ pool' = 0
    /\ ctodo' = {active[r] : r \in Rids} \ {None}
    /\ UNCHANGED <<manager, pools, shut, active, queue_depth, infers, canceller,
                   starts>>

StopCancels(c) ==
    /\ ctl = "cancel" /\ c \in ctodo
    /\ ctodo' = ctodo \ {c}
    /\ token' = token \cup {c}
    /\ fut' = Cancelled({c})
    /\ UNCHANGED <<manager, service, pc, rid, poolOf, callback,
                   canceller, ctl, starts, stopPool>>

(* pool.shutdown(cancel_futures=True): what is queued is cancelled.        *)
ShutPool ==
    /\ ctl = "cancel" /\ ctodo = {}
    /\ ctl' = "join"
    /\ shut' = shut \cup {stopPool}
    /\ fut' = Cancelled({c \in Requests : poolOf[c] = stopPool})
    /\ UNCHANGED <<manager, ready, pool, pools, reserved, active, queue_depth,
                   pc, rid, poolOf, token, callback, canceller,
                   starts, stopPool, ctodo>>

(* The pool's threads are joined; then models.shutdown().                  *)
JoinPool ==
    /\ ctl = "join" /\ Occupied(stopPool) = {}
    /\ ctl' = "models"
    /\ Shutdown(Stopper)
    /\ UNCHANGED <<service, infers, canceller, starts, stopPool, ctodo>>

StopEnds ==
    /\ ctl = "models" /\ upc[Stopper] = "idle"
    /\ ctl' = "stopped"
    /\ UNCHANGED <<manager, service, infers, canceller, starts, stopPool, ctodo>>

-----------------------------------------------------------------------------

InferStep(c) ==
    \/ \E m \in Models : AcquireSlot(c, m) \/ AcquireFails(c, m)
    \/ EnsurePool(c) \/ Submit(c) \/ Undo(c) \/ Register(c) \/ Attach(c)
    \/ Result(c) \/ Timeout(c) \/ GraceEnds(c)

PoolStep(c) ==
    \/ Pick(c) \/ BeginForward(c) \/ EndForward(c) \/ SetResult(c)
    \/ Finished(c) \/ Unlist(c)

StopStep == (\E c \in Requests : StopCancels(c)) \/ ShutPool \/ JoinPool \/ StopEnds

(* What the manager does on its own: a load, unloads and closes in progress.*)
ManagerStep ==
    /\ \/ \E m \in Models, g \in Gens, n \in 1..MaxLimit : Load(m, g, n)
       \/ UnloaderStep(Stopper)
       \/ \E g \in Gens : CloseModule(g)
    /\ UNCHANGED <<service, infers, canceller, control>>

ServiceNext ==
    \/ \E c \in Requests : \/ \E r \in Rids : Admit(c, r)
                           \/ InferStep(c) \/ PoolStep(c)
    \/ (\E r \in Rids : Cancel(r)) \/ CancelLooked
    \/ Start \/ Stop \/ StopStep
    \/ ManagerStep

(* Threads run on, forwards return and timeouts expire.  Nobody is obliged *)
(* to call infer, cancel, start or stop, or to load a model.               *)
ServiceFairness ==
    /\ \A c \in Requests : /\ WF_serviceVars(InferStep(c))
                          /\ WF_serviceVars(PoolStep(c))
    /\ WF_serviceVars(StopStep) /\ WF_serviceVars(CancelLooked)
    /\ WF_serviceVars(UnloaderStep(Stopper)
                       /\ UNCHANGED <<service, infers, canceller, control>>)
    /\ \A g \in Gens :
        WF_serviceVars(CloseModule(g)
                       /\ UNCHANGED <<service, infers, canceller, control>>)

ServiceSpec == ServiceInit /\ [][ServiceNext]_serviceVars /\ ServiceFairness

-----------------------------------------------------------------------------
(* Properties                                                              *)

(* A call is over when it has left the queue: its callback has run, or it  *)
(* raised before it was submitted.                                         *)
Over(c) == callback[c] = "over" \/ (pc[c] = "done" /\ fut[c] = "none")
InQueue == {c \in Requests : pc[c] # "idle" /\ ~Over(c)}

(* Type invariant of the service's own state.                              *)
ServiceTypeOK ==
    /\ ready \in BOOLEAN /\ reserved \subseteq Rids /\ token \subseteq Requests
    /\ pool \in 0..pools /\ shut \subseteq 1..pools
    /\ active \in [Rids -> Requests \cup {None}]
    /\ queue_depth \in 0..MaxQueue
    /\ \A c \in Requests :
        /\ pc[c] \in {"idle", "acquire", "pool", "submit", "undo", "register",
                      "attach", "wait", "grace", "done"}
        /\ fut[c] \in {"none", "pending", "running", "forward", "released",
                       "done", "cancelled"}
        /\ callback[c] \in {"none", "attached", "unlist", "over"}

(* The queue depth counts the calls that were admitted and are not over,   *)
(* on every path through errors, timeouts, cancellation and stop: it never *)
(* drifts, so the service neither rejects for ever nor overfills; and a    *)
(* call that is over holds no model slot.  The state is well typed.        *)
AccountingExact ==
    /\ ServiceTypeOK /\ queue_depth = Cardinality(InQueue)
    /\ \A c \in Requests : Over(c) => hold[c] = None

(* Queue depth, slots and in-flight counts of the service and its manager  *)
(* are those of the calls that are not over.                               *)
ServiceExact == AccountingExact /\ InFlightExact

(* The service uses its manager as the manager demands: every step is one  *)
(* of the manager's or leaves it alone, each slot released exactly once.   *)
KeepsManagerContract == Init /\ [][Next]_vars

(* infer returns to its caller, with a result or an error.                 *)
InferReturns == \A c \in Requests : (pc[c] # "idle") ~> (pc[c] = "done")

(* stop returns, also when requests slip in while it runs.                 *)
StopReturns == (ctl = "cancel") ~> (ctl = "stopped")
=============================================================================
