---------------------------- MODULE WorkerPools ----------------------------
(***************************************************************************)
(* The two pools of worker processes a forward may send a region to:       *)
(* DeviceWorkerSupervisor (runtime/device_workers.py), one process per     *)
(* device that is restarted when it dies, and ProcessWorkerPool            *)
(* (runtime/process_workers.py), interchangeable processes that share one  *)
(* queue and are given up together.                                        *)
(*                                                                         *)
(* Both have the same shape: submit registers a future under the lock and  *)
(* puts the task on a queue, a process runs it, a collector thread takes   *)
(* results and settles futures, and looks for dead processes when there    *)
(* are none.  The thread that submitted waits for its future without a     *)
(* timeout (ScheduleExecutor._exec_compute).                               *)
(* A lane is a task queue with the processes that serve it.                *)
(***************************************************************************)
EXTENDS Naturals, Sequences, FiniteSets

CONSTANTS
  Callers,      \* threads that submit, one task each at a time
  Workers,      \* process slots
  LaneOf,       \* process slot -> lane
  Restarting,   \* TRUE: DeviceWorkerSupervisor, FALSE: ProcessWorkerPool
  MaxRestarts,  \* max_restarts
  MaxPending,   \* max_pending_per_device, max_pending
  MaxCrashes,   \* bound on the processes that die
  MaxSubmits,   \* bound on the tasks of one caller
  None

Lanes == {LaneOf[w] : w \in Workers}
Tasks == Callers \X (1 .. MaxSubmits)

VARIABLES
  at,        \* caller -> where its submit is
  task,      \* caller -> the task it submits, or None
  lane,      \* task -> the lane it goes to, or None
  future,    \* task -> "none", "waiting", "done", "failed"
  pending,   \* _pending: tasks with an entry
  queue,     \* lane -> its tasks, or None when _task_qs has no queue for it
  alive,     \* the processes that live
  work,      \* process -> the task it runs, or None
  results,   \* _result_q
  restarts,  \* lane -> restarts so far
  broken,    \* _broken_reason is set
  collector, \* "running" or "exited"
  closed,    \* _closed
  shut,      \* shutdown has settled what was pending
  crashes

vars == <<at, task, lane, future, pending, queue, alive, work, results, restarts,
          broken, collector, closed, shut, crashes>>

Of(l) == {t \in pending : lane[t] = l}
Fail(ts) == future' = [t \in Tasks |-> IF t \in ts THEN "failed" ELSE future[t]]

DeadLanes == {l \in Lanes : \A w \in Workers : LaneOf[w] = l => w \notin alive}
Spent(l) == restarts[l] >= MaxRestarts

(* Mutant: a lane whose restarts are spent is skipped as a whole.          *)
OfRestartable == UNION {Of(l) : l \in {d \in DeadLanes : ~Spent(d)}}
Abandoned == UNION {Of(l) : l \in DeadLanes}

(* ensure_healthy: what waits on a dead device fails, its queue goes, and  *)
(* it gets a new process and queue unless its restarts are spent.          *)
EnsureHealthy ==
  LET again == {l \in DeadLanes : ~Spent(l)}
  IN /\ Fail(Abandoned)
     /\ pending' = pending \ Abandoned
     /\ queue' = [l \in Lanes |-> IF l \in again THEN <<>>
                                  ELSE IF l \in DeadLanes THEN None ELSE queue[l]]
     /\ work' = [w \in Workers |-> IF LaneOf[w] \in again THEN None ELSE work[w]]
     /\ alive' = alive \cup {w \in Workers : LaneOf[w] \in again}
     /\ restarts' = [l \in Lanes |-> IF l \in again THEN restarts[l] + 1 ELSE restarts[l]]

-----------------------------------------------------------------------------
(* submit: the checks before the lock, with ensure_healthy for devices,    *)
(* which refuses the call when any device is out of restarts.              *)
Submit(c, n, l) ==
  /\ at[c] = "idle" /\ task[c] = None
  /\ future[<<c, n>>] = "none" /\ \A k \in 1 .. n - 1 : future[<<c, k>>] # "none"
  /\ task' = [task EXCEPT ![c] = <<c, n>>]
  /\ lane' = [lane EXCEPT ![<<c, n>>] = l]
  /\ IF closed \/ broken \/ (Restarting /\ queue[l] = None)
     THEN /\ at' = [at EXCEPT ![c] = "refused"]
          /\ UNCHANGED <<future, pending, queue, alive, work, restarts>>
     ELSE IF Restarting
     THEN /\ EnsureHealthy
          /\ at' = [at EXCEPT ![c] = IF \E d \in DeadLanes : Spent(d) THEN "refused" ELSE "register"]
     ELSE /\ at' = [at EXCEPT ![c] = "register"]
          /\ UNCHANGED <<future, pending, queue, alive, work, restarts>>
  /\ UNCHANGED <<results, broken, collector, closed, shut, crashes>>

(* Under the lock: the future is registered, or refused for backpressure.  *)
Register(c) ==
  LET t == task[c]
      full == Cardinality(IF Restarting THEN Of(lane[t]) ELSE pending) >= MaxPending
  IN /\ at[c] = "register"
     /\ at' = [at EXCEPT ![c] = IF full THEN "refused" ELSE "put"]
     /\ pending' = IF full THEN pending ELSE pending \cup {t}
     /\ future' = IF full THEN future ELSE [future EXCEPT ![t] = "waiting"]
     /\ UNCHANGED <<task, lane, queue, alive, work, results, restarts, broken, collector, closed, shut, crashes>>

(* put_nowait: a queue that is full, closed or gone takes the entry back.  *)
Put(c) ==
  LET t == task[c]
      q == queue[lane[t]]
      refused == q = None \/ shut \/ (q # None /\ Len(q) >= MaxPending)
  IN /\ at[c] = "put"
     /\ at' = [at EXCEPT ![c] = IF refused THEN "refused" ELSE "wait"]
     /\ queue' = IF refused THEN queue ELSE [queue EXCEPT ![lane[t]] = Append(q, t)]
     /\ pending' = IF refused THEN pending \ {t} ELSE pending
     /\ UNCHANGED <<task, lane, future, alive, work, results, restarts, broken, collector, closed, shut, crashes>>

(* The caller has its outputs or an exception, and goes on.                *)
Return(c) ==
  /\ at[c] = "refused" \/ (at[c] = "wait" /\ future[task[c]] \in {"done", "failed"})
  /\ future' = IF at[c] = "refused" THEN [future EXCEPT ![task[c]] = "failed"] ELSE future
  /\ at' = [at EXCEPT ![c] = "idle"]
  /\ task' = [task EXCEPT ![c] = None]
  /\ UNCHANGED <<lane, pending, queue, alive, work, results, restarts, broken, collector, closed, shut, crashes>>

-----------------------------------------------------------------------------
(* _worker_loop *)
Take(w) ==
  LET q == queue[LaneOf[w]]
  IN /\ w \in alive /\ work[w] = None /\ q # None /\ q # <<>>
     /\ work' = [work EXCEPT ![w] = Head(q)]
     /\ queue' = [queue EXCEPT ![LaneOf[w]] = Tail(q)]
     /\ UNCHANGED <<at, task, lane, future, pending, alive, results, restarts, broken, collector, closed, shut, crashes>>

Answer(w) ==
  /\ w \in alive /\ work[w] # None
  /\ results' = Append(results, work[w])
  /\ work' = [work EXCEPT ![w] = None]
  /\ UNCHANGED <<at, task, lane, future, pending, alive, queue, restarts, broken, collector, closed, shut, crashes>>

Crash(w) ==
  /\ w \in alive /\ crashes < MaxCrashes /\ ~closed
  /\ alive' = alive \ {w}
  /\ crashes' = crashes + 1
  /\ UNCHANGED <<at, task, lane, future, pending, queue, work, results, restarts, broken, collector, closed, shut>>

-----------------------------------------------------------------------------
(* _collect, _collect_results: a result whose entry is gone is ignored.    *)
Collect ==
  /\ collector = "running" /\ results # <<>>
  /\ LET t == Head(results)
     IN /\ pending' = pending \ {t}
        /\ future' = IF t \in pending THEN [future EXCEPT ![t] = "done"] ELSE future
  /\ results' = Tail(results)
  /\ UNCHANGED <<at, task, lane, queue, alive, work, restarts, broken, collector, closed, shut, crashes>>

(* No result in the poll interval: devices are restarted ...               *)
CollectHealth ==
  /\ Restarting /\ collector = "running" /\ results = <<>> /\ ~closed
  /\ DeadLanes # {}
  /\ EnsureHealthy
  /\ UNCHANGED <<at, task, lane, results, broken, collector, closed, shut, crashes>>

(* ... the process pool is given up (_mark_broken).                        *)
MarkBroken ==
  /\ ~Restarting /\ collector = "running" /\ results = <<>> /\ ~closed
  /\ alive # Workers
  /\ broken' = TRUE /\ collector' = "exited"
  /\ Fail(pending) /\ pending' = {}
  /\ UNCHANGED <<at, task, lane, queue, alive, work, results, restarts, closed, shut, crashes>>

(* shutdown, which the executor calls when no submit is under way: the     *)
(* processes end by themselves or are terminated, the collector drains the *)
(* results, and what is still pending fails.                               *)
Shutdown ==
  /\ ~closed /\ \A c \in Callers : at[c] \in {"idle", "wait"}
  /\ closed' = TRUE
  /\ UNCHANGED <<at, task, lane, future, pending, queue, alive, work, results, restarts, broken, collector, shut, crashes>>

Stop(w) ==
  /\ closed /\ w \in alive
  /\ alive' = alive \ {w}
  /\ UNCHANGED <<at, task, lane, future, pending, queue, work, results, restarts, broken, collector, closed, shut, crashes>>

Settle ==
  /\ closed /\ ~shut /\ alive = {}
  /\ shut' = TRUE
  /\ Fail(pending) /\ pending' = {}
  /\ UNCHANGED <<at, task, lane, queue, alive, work, results, restarts, broken, collector, closed, crashes>>

Over == shut /\ (\A c \in Callers : at[c] = "idle") /\ UNCHANGED vars

-----------------------------------------------------------------------------
Init ==
  /\ at = [c \in Callers |-> "idle"] /\ task = [c \in Callers |-> None]
  /\ lane = [t \in Tasks |-> None] /\ future = [t \in Tasks |-> "none"]
  /\ pending = {} /\ queue = [l \in Lanes |-> <<>>]
  /\ work = [w \in Workers |-> None] /\ alive = Workers /\ results = <<>>
  /\ restarts = [l \in Lanes |-> 0]
  /\ broken = FALSE /\ collector = "running" /\ closed = FALSE /\ shut = FALSE
  /\ crashes = 0

Call(c) == Register(c) \/ Put(c) \/ Return(c)
Process(w) == Take(w) \/ Answer(w) \/ Stop(w)
Common ==
  \/ \E c \in Callers : Call(c) \/ \E n \in 1 .. MaxSubmits, l \in Lanes : Submit(c, n, l)
  \/ \E w \in Workers : Process(w) \/ Crash(w)
  \/ Collect \/ Shutdown \/ Settle \/ Over

(* Threads and live processes make progress; nothing obliges a caller to   *)
(* submit, a process to die or anybody to shut the pool down.              *)
Fairness ==
  /\ \A c \in Callers : WF_vars(Call(c))
  /\ \A w \in Workers : WF_vars(Process(w))
  /\ WF_vars(Settle)

(* DeviceWorkerSupervisor *)
Next == Common \/ CollectHealth
Spec == Init /\ [][Next]_vars /\ Fairness /\ WF_vars(Collect \/ CollectHealth)

(* ProcessWorkerPool *)
ProcessNext == Common \/ MarkBroken
ProcessSpec == Init /\ [][ProcessNext]_vars /\ Fairness /\ WF_vars(Collect \/ MarkBroken)
=============================================================================
