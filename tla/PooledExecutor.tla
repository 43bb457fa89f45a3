--------------------------- MODULE PooledExecutor ---------------------------
(***************************************************************************)
(* The pooled schedule executor (crates/tt-runtime/src/executor/pooled.rs  *)
(* with waves.rs, capacity.rs::order_key and workers.rs).                  *)
(*                                                                         *)
(* One dispatcher thread walks a schedule with dependency counters.  Ready *)
(* instructions go to three worker pools, run in a batched wave on the     *)
(* dispatcher itself, or run inline.  Every job reports through one        *)
(* bounded completion channel that only the dispatcher receives from.      *)
(* Instructions of an ordered (accelerator) resource carry an order key;   *)
(* at most one per key is launched, the others wait in that key's queue.   *)
(*                                                                         *)
(* Instruction bodies are abstracted to their outcome (ok, error, panic).  *)
(* The schedule and the callbacks supplied are chosen in Init.             *)
(***************************************************************************)
EXTENDS Integers, Sequences, FiniteSets, Functions

CONSTANTS
    Instr,          \* 1..n, in schedule order
    Keys,           \* order keys ("stream:cuda:0::copy0", ...)
    None,           \* no order key; no failure
    Plans,          \* the schedules to execute (records op, deps, key)
    Modes,          \* which callbacks ExecuteOptions carries
    MaxInflight,    \* options.max_inflight
    MinChannel,     \* the code's floor of 8 on the completion channel
    PoolWorkers,    \* [cpu, io, xfer] -> number of worker threads
    StallLimit,     \* ticks of 50 ms before Stalled, None without a watchdog
    MayPanic,       \* may a job body panic?
    MayCancel       \* may the caller raise the cancel flag?

Pools == {"cpu", "io", "xfer"}

OpKinds == {"Compute", "NativeCompute", "Transfer", "Load", "ParamLoad",
            "Spill", "ParamEvict", "Release", "Event"}

ASSUME InstrAssumption == IsFiniteSet(Instr) /\ Instr = 1..Cardinality(Instr)

ASSUME PlanAssumption ==
    /\ \A p \in Plans :
          /\ p.op \in [Instr -> OpKinds]
          /\ p.key \in [Instr -> Keys \cup {None}]
          /\ \A i \in Instr : p.deps[i] \subseteq 1..(i - 1)
    /\ Modes \subseteq [region : BOOLEAN, release : BOOLEAN, pload : BOOLEAN]

ASSUME NoneAssumption ==
    None \notin Keys \cup {"Cancelled", "Instruction", "Stalled", "ok", "err"}

ASSUME LimitAssumption ==
    /\ MaxInflight \in Nat \ {0} /\ MinChannel \in Nat
    /\ PoolWorkers \in [Pools -> Nat \ {0}]
    /\ StallLimit \in Nat \cup {None}

VARIABLES
    plan, mode,     \* the schedule and the callbacks of this call
    pc,             \* where the dispatcher is in its loop
    remaining,      \* unmet dependency count of each instruction
    ready,          \* VecDeque of ready instructions
    wave,           \* a batched wave that ran, its dependents not yet unlocked
    queues,         \* resource_queues: order key -> waiting instructions
    busy,           \* resource_busy
    inflight,       \* completions the dispatcher still expects
    finished,       \* instructions finished (forced to total on an error)
    done,           \* schedule_done
    failure,        \* None or why the run stops
    submitting,     \* jobs of the current launch not yet accepted by a pool
    pool,           \* job queue of each pool (a job is a sequence of Instr)
    running,        \* jobs in the hands of a worker, with their outcome
    idle,           \* worker threads of each pool waiting for a job
    shut,           \* pools whose shutdown flag is set
    channel,        \* the bounded completion channel
    hand,           \* a completion received while waiting, to be sent back
    stall,          \* 50 ms ticks on the stall clock
    cancel,         \* the context's cancel flag
    lost            \* instructions whose completion a panic swallowed

plan_vars == <<plan, mode>>
work_vars == <<pool, running, idle, channel, lost>>
disp_vars == <<remaining, ready, wave, queues, busy, inflight, finished, done,
               failure, submitting, hand, stall>>
vars == <<plan_vars, pc, disp_vars, work_vars, shut, cancel>>

Total == Cardinality(Instr)
ChannelCap == IF MaxInflight > MinChannel THEN MaxInflight ELSE MinChannel

-----------------------------------------------------------------------------
(* Reading an instruction, and taking some of a queue in order             *)

(* The entries of s at positions K, and those of s that are in S.          *)
At(s, K) ==
    [n \in 1..Cardinality(K) |->
       s[CHOOSE m \in K : Cardinality({j \in K : j <= m}) = n]]
Keep(s, S) == At(s, {n \in DOMAIN s : s[n] \in S})
Without(s, S) == At(s, {n \in DOMAIN s : s[n] \notin S})

order_key(i) == plan.key[i]

is_batched_handle_release(i) == plan.op[i] \in {"Release", "ParamEvict"}
is_batched_parameter_load(i) == plan.op[i] = "ParamLoad"
IsCompute(i) == plan.op[i] \in {"Compute", "NativeCompute"}

(* What the I/O preference looks for: Prefetch, Transfer, Load or Evict    *)
(* that is not a batched release.                                          *)
PrefersIo(i) == plan.op[i] \in {"Transfer", "Load", "ParamLoad", "Spill"}

work_kind(i) ==
    CASE IsCompute(i) -> "cpu"
      [] plan.op[i] \in {"Load", "ParamLoad", "Spill", "ParamEvict"} -> "io"
      [] plan.op[i] = "Transfer" -> "xfer"
      [] plan.op[i] \in {"Release", "Event"} -> "inline"

-----------------------------------------------------------------------------
(* Unlocking dependents                                                    *)

Busy(k) == k # None /\ k \in busy

dependents(i) == {j \in Instr : i \in plan.deps[j]}

(* Instruction i is done: every dependent loses one unmet dependency, and  *)
(* one that has none left goes behind its order key when that key is held, *)
(* else to `ready` (enqueue_ready).  r and q are `ready` and the queues as *)
(* the caller leaves them.                                                 *)
UnlockSome(i, freed, r, q, held) ==
    /\ remaining' = [j \in Instr |->
                       IF j \in dependents(i) /\ remaining[j] > 0
                       THEN remaining[j] - 1 ELSE remaining[j]]
    /\ ready' = r \o Keep([j \in 1..Total |-> j],
                          {j \in freed : order_key(j) \notin held})
    /\ queues' = [k \in Keys |->
                    q[k] \o Keep([j \in 1..Total |-> j],
                                 {j \in freed : order_key(j) \in held \cap {k}})]
    /\ done' = done \cup {i}
    /\ finished' = finished + 1

(* Mutant: a dependent is enqueued by its first finished dependency. *)
UnlockEarly(i, r, q, held) == UnlockSome(i, dependents(i), r, q, held)

Unlock(i, r, q, held) ==
    UnlockSome(i, {j \in dependents(i) : remaining[j] <= 1}, r, q, held)

-----------------------------------------------------------------------------
(* The start of execute_schedule_pooled.  `ready` is collected from a hash *)
(* map, so its first order is arbitrary.                                   *)

Init ==
    /\ plan \in Plans
    /\ mode \in Modes
    /\ pc = "top"
    /\ remaining = [i \in Instr |-> Cardinality(plan.deps[i])]
    /\ LET first == {i \in Instr : plan.deps[i] = {}}
       IN  ready \in Bijection(1..Cardinality(first), first)
    /\ wave = <<>> /\ queues = [k \in Keys |-> <<>>]
    /\ busy = {}
    /\ inflight = 0 /\ finished = 0 /\ done = {}
    /\ failure = None
    /\ submitting = <<>>
    /\ pool = [p \in Pools |-> <<>>]
    /\ running = [p \in Pools |-> {}]
    /\ idle = PoolWorkers
    /\ shut = {}
    /\ channel = <<>> /\ hand = <<>>
    /\ stall = 0
    /\ cancel = FALSE
    /\ lost = {}

(* `while finished < total`, and the cancel check at the top of the body.  *)
LoopTop ==
    /\ pc = "top"
    /\ IF finished >= Total
       THEN pc' = "join" /\ UNCHANGED failure
       ELSE IF cancel
            THEN pc' = "join" /\ failure' = "Cancelled"
            ELSE pc' = "drain" /\ UNCHANGED failure
    /\ UNCHANGED <<plan_vars, remaining, ready, wave, queues, busy, inflight,
                   finished, done, submitting, hand, stall, work_vars, shut,
                   cancel>>

-----------------------------------------------------------------------------
(* Draining completions                                                    *)

(* A success frees the order key, hands ONE queued instruction back to     *)
(* `ready`, and unlocks the dependents.                                    *)
DrainOk ==
    /\ pc = "drain"
    /\ channel # <<>> /\ Head(channel).ok
    /\ LET i == Head(channel).inst
           k == order_key(i)
           pop == k # None /\ queues[k] # <<>>
       IN  /\ busy' = busy \ {k}
           /\ Unlock(i, IF pop THEN Append(ready, Head(queues[k])) ELSE ready,
                     IF pop THEN [queues EXCEPT ![k] = Tail(@)] ELSE queues,
                     busy \ {k})
    /\ inflight' = IF inflight = 0 THEN 0 ELSE inflight - 1
    /\ channel' = Tail(channel)
    /\ UNCHANGED <<plan_vars, pc, wave, failure, submitting, hand, stall, pool,
                   running, idle, lost, shut, cancel>>

DrainErrAs(why, next) ==
    /\ pc = "drain"
    /\ channel # <<>> /\ ~Head(channel).ok
    /\ failure' = why
    /\ finished' = Total
    /\ inflight' = IF inflight = 0 THEN 0 ELSE inflight - 1
    /\ channel' = Tail(channel)
    /\ pc' = next
    /\ UNCHANGED <<plan_vars, remaining, ready, wave, queues, busy, done, submitting,
                   hand, stall, pool, running, idle, lost, shut, cancel>>

(* Mutant: the error ends the loop but is not kept. *)
DrainErrForgotten == DrainErrAs(None, "join")

DrainErr == DrainErrAs("Instruction", "join")

DrainEmpty ==
    /\ pc = "drain" /\ channel = <<>>
    /\ pc' = "launch"
    /\ UNCHANGED <<plan_vars, disp_vars, work_vars, shut, cancel>>

-----------------------------------------------------------------------------
(* Launching, one branch of the inner loop per action, in the code's order *)

CanLaunch == pc = "launch" /\ inflight < MaxInflight

(* What the callbacks of this call batch, what is launched first, and what *)
(* the region callback takes in waves.                                     *)
Releases == {i \in Instr : mode.release /\ is_batched_handle_release(i)}
ParameterLoads == {i \in Instr : mode.pload /\ is_batched_parameter_load(i)}
IoFirst == {i \in Instr : PrefersIo(i)}
Computes == {i \in Instr : IsCompute(i)}

HasReady(S) == Range(ready) \cap S # {}
Waves == HasReady(Releases \cup ParameterLoads)

(* A wave runs on the dispatcher, in ready order, without order keys and   *)
(* without the completion channel; one failure fails the whole run.        *)
RunWave(S) ==
    /\ ready' = Without(ready, S)
    /\ \/ /\ wave' = Keep(ready, S)
          /\ pc' = "unlock"
          /\ UNCHANGED <<failure, finished>>
       \/ /\ failure' = "Instruction"
          /\ finished' = Total
          /\ pc' = "wait"
          /\ UNCHANGED wave
    /\ UNCHANGED <<plan_vars, remaining, queues, busy, inflight, done,
                   submitting, hand, stall, work_vars, shut, cancel>>

ReleaseWave ==
    /\ CanLaunch
    /\ HasReady(Releases)
    /\ RunWave(Releases)

ParameterLoadWave ==
    /\ CanLaunch
    /\ ~HasReady(Releases) /\ HasReady(ParameterLoads)
    /\ RunWave(ParameterLoads)

(* The instructions of the wave are finished one after the other.          *)
FinishWave ==
    /\ pc = "unlock"
    /\ Unlock(Head(wave), ready, queues, busy)
    /\ wave' = Tail(wave)
    /\ pc' = IF Len(wave) = 1 THEN "launch" ELSE "unlock"
    /\ UNCHANGED <<plan_vars, busy, inflight, failure, submitting, hand, stall,
                   work_vars, shut, cancel>>

(* Instruction i has been taken out of ready, which leaves rest: it goes   *)
(* behind its key if that is busy, else the key is marked busy and the job *)
(* is handed to its pool (inline work runs at once).                       *)
Launch(i, rest) ==
    LET k == order_key(i)
    IN  /\ ready' = rest
        /\ IF Busy(k)
           THEN /\ queues' = [queues EXCEPT ![k] = Append(@, i)]
                /\ UNCHANGED <<busy, submitting, pc>>
           ELSE /\ busy' = IF k = None THEN busy ELSE busy \cup {k}
                /\ submitting' = <<<<i>>>>
                /\ pc' = IF work_kind(i) = "inline" THEN "inline" ELSE "submit"
                /\ UNCHANGED queues
        /\ UNCHANGED <<plan_vars, remaining, wave, inflight, finished, done,
                       failure, hand, stall, work_vars, shut, cancel>>

(* The first ready I/O instruction is preferred to everything but waves.   *)
LaunchIo ==
    /\ CanLaunch /\ ~Waves
    /\ HasReady(IoFirst)
    /\ LET i == Head(Keep(ready, IoFirst)) IN Launch(i, Without(ready, {i}))

(* Mutant: two Computes of one stream fit into the same wave. *)
BlockedByBusyOnly(n) ==
    /\ order_key(ready[n]) # None
    /\ order_key(ready[n]) \in busy

(* take_ready_compute_wave: every ready Compute whose key is free, the     *)
(* first one per key; the others go behind their key.                      *)
Blocked(n) ==
    /\ order_key(ready[n]) # None
    /\ \/ order_key(ready[n]) \in busy
       \/ \E m \in 1..(n - 1) : /\ IsCompute(ready[m])
                               /\ order_key(ready[m]) = order_key(ready[n])

Taken == {n \in DOMAIN ready : ready[n] \in Computes /\ ~Blocked(n)}
PutBack == {n \in DOMAIN ready : ready[n] \in Computes /\ Blocked(n)}

take_ready_compute_wave ==
    /\ ready' = Without(ready, Computes)
    /\ queues' = [k \in Keys |->
                    queues[k] \o At(ready, {n \in PutBack : order_key(ready[n]) = k})]
    /\ busy' = busy \cup ({order_key(ready[n]) : n \in Taken} \ {None})

(* Native launches become one job each; all Python regions of the wave     *)
(* share ONE job, which reports one completion per instruction.            *)
Singly(s) == [n \in DOMAIN s |-> <<s[n]>>]
Jobs(native, regions) ==
    IF regions = <<>> THEN Singly(native) ELSE Append(Singly(native), regions)
TakenOf(op) == At(ready, {n \in Taken : plan.op[ready[n]] = op})

ComputeWave ==
    /\ CanLaunch /\ ~Waves /\ ~HasReady(IoFirst)
    /\ mode.region
    /\ Taken # {}
    /\ take_ready_compute_wave
    /\ submitting' = Jobs(TakenOf("NativeCompute"), TakenOf("Compute"))
    /\ pc' = "submit"
    /\ UNCHANGED <<plan_vars, remaining, wave, inflight, finished, done, failure,
                   hand, stall, work_vars, shut, cancel>>

(* Whatever is left: pop the front.  When every ready Compute is blocked,  *)
(* take_ready_compute_wave has moved them behind their keys first.         *)
LaunchNext ==
    /\ CanLaunch /\ ~Waves /\ ~HasReady(IoFirst)
    /\ ready # <<>>
    /\ mode.region => ~HasReady(Computes)
    /\ Launch(Head(ready), Tail(ready))

(* A region run whose ready Computes are all blocked: they are queued.     *)
QueueBlockedComputes ==
    /\ CanLaunch /\ ~Waves /\ ~HasReady(IoFirst)
    /\ mode.region /\ HasReady(Computes)
    /\ Taken = {}
    /\ take_ready_compute_wave
    /\ UNCHANGED <<plan_vars, pc, remaining, wave, inflight, finished, done,
                   failure, submitting, hand, stall, work_vars, shut, cancel>>

EndLaunch ==
    /\ pc = "launch"
    /\ inflight >= MaxInflight \/ ready = <<>>
    /\ pc' = "wait"
    /\ UNCHANGED <<plan_vars, disp_vars, work_vars, shut, cancel>>

(* WorkerPool::submit blocks while the pool's queue is full.               *)
SubmitCounting(owed) ==
    /\ pc = "submit"
    /\ LET job == Head(submitting)
           p == work_kind(job[1])
       IN  /\ Len(pool[p]) < MaxInflight
           /\ pool' = [pool EXCEPT ![p] = Append(@, job)]
           /\ inflight' = inflight + owed
    /\ submitting' = Tail(submitting)
    /\ pc' = IF Len(submitting) = 1 THEN "launch" ELSE "submit"
    /\ UNCHANGED <<plan_vars, remaining, ready, wave, queues, busy, finished, done,
                   failure, hand, stall, running, idle, channel, lost, shut,
                   cancel>>

(* Mutant: a wave counts as one completion. *)
SubmitCountsJobs == SubmitCounting(1)

Submit == SubmitCounting(Len(Head(submitting)))

(* An inline job runs on the dispatcher, which then sends the completion   *)
(* to itself through the bounded channel.                                  *)
RunInline ==
    /\ pc = "inline"
    /\ Len(channel) < ChannelCap
    /\ \E ok \in BOOLEAN :
          channel' = Append(channel, [inst |-> submitting[1][1], ok |-> ok])
    /\ inflight' = inflight + 1
    /\ submitting' = <<>>
    /\ pc' = "launch"
    /\ UNCHANGED <<plan_vars, remaining, ready, wave, queues, busy, finished, done,
                   failure, hand, stall, pool, running, idle, lost, shut, cancel>>

-----------------------------------------------------------------------------
(* Waiting for a completion, with the stall watchdog                       *)

MustWait == /\ ready = <<>>
            /\ inflight > 0 \/ finished < Total

SkipWait ==
    /\ pc = "wait" /\ ~MustWait
    /\ stall' = 0
    /\ pc' = "top"
    /\ UNCHANGED <<plan_vars, remaining, ready, wave, queues, busy, inflight,
                   finished, done, failure, submitting, hand, work_vars, shut,
                   cancel>>

(* The completion that ends the wait is sent back, to be drained.          *)
WaitReceive ==
    /\ pc = "wait" /\ MustWait
    /\ channel # <<>>
    /\ hand' = <<Head(channel)>>
    /\ channel' = Tail(channel)
    /\ stall' = 0
    /\ pc' = "resend"
    /\ UNCHANGED <<plan_vars, remaining, ready, wave, queues, busy, inflight,
                   finished, done, failure, submitting, pool, running, idle,
                   lost, shut, cancel>>

Resend ==
    /\ pc = "resend"
    /\ Len(channel) < ChannelCap
    /\ channel' = Append(channel, hand[1])
    /\ hand' = <<>>
    /\ pc' = "top"
    /\ UNCHANGED <<plan_vars, remaining, ready, wave, queues, busy, inflight,
                   finished, done, failure, submitting, stall, pool, running,
                   idle, lost, shut, cancel>>

WaitTimeoutAfter(stalled) ==
    /\ pc = "wait" /\ MustWait
    /\ channel = <<>>
    /\ IF stalled
       THEN failure' = "Stalled" /\ pc' = "join" /\ UNCHANGED stall
       ELSE /\ stall' = IF StallLimit = None \/ stall > StallLimit THEN stall
                        ELSE stall + 1
            /\ pc' = "top" /\ UNCHANGED failure
    /\ UNCHANGED <<plan_vars, remaining, ready, wave, queues, busy, inflight,
                   finished, done, submitting, hand, work_vars, shut, cancel>>

(* Mutant: a wait without a watchdog. *)
WaitTimeoutNoWatchdog == WaitTimeoutAfter(FALSE)

WaitTimeout == WaitTimeoutAfter(StallLimit # None /\ stall >= StallLimit)

(* cpu_pool.join(); io_pool.join(); xfer_pool.join(): each sets its flag   *)
(* and waits for its threads before the next one starts.                   *)
PoolOrder == <<"cpu", "io", "xfer">>

Shutdown ==
    /\ pc = "join"
    /\ Cardinality(shut) < 3
    /\ \A p \in shut : idle[p] = 0 /\ running[p] = {}
    /\ shut' = shut \cup {PoolOrder[Cardinality(shut) + 1]}
    /\ UNCHANGED <<plan_vars, pc, disp_vars, work_vars, cancel>>

Return ==
    /\ pc = "join"
    /\ shut = Pools
    /\ \A p \in Pools : idle[p] = 0 /\ running[p] = {}
    /\ pc' = "returned"
    /\ UNCHANGED <<plan_vars, disp_vars, work_vars, shut, cancel>>

-----------------------------------------------------------------------------
(* Worker threads                                                          *)

(* worker_loop: take the next queued job.  A thread already in recv when   *)
(* the flag is set may still take one.                                     *)
TakeJob(p) ==
    /\ idle[p] > 0 /\ pool[p] # <<>>
    /\ idle' = [idle EXCEPT ![p] = @ - 1]
    /\ running' = [running EXCEPT
                     ![p] = @ \cup {[insts |-> Head(pool[p]), outcome |-> None]}]
    /\ pool' = [pool EXCEPT ![p] = Tail(@)]
    /\ UNCHANGED <<plan_vars, pc, disp_vars, channel, lost, shut, cancel>>

(* The flag is set: an idle thread, woken by a no-op job, leaves.          *)
LeaveIdle(p) ==
    /\ p \in shut /\ idle[p] > 0
    /\ idle' = [idle EXCEPT ![p] = @ - 1]
    /\ UNCHANGED <<plan_vars, pc, disp_vars, pool, running, channel, lost, shut,
                   cancel>>

(* The body of the job: one outcome for all of it.                         *)
RunJob(p, job) ==
    /\ job.outcome = None
    /\ \E outcome \in {"ok", "err"} :
          running' = [running EXCEPT
                        ![p] = (@ \ {job})
                               \cup {[job EXCEPT !.outcome = outcome]}]
    /\ UNCHANGED <<plan_vars, pc, disp_vars, pool, idle, channel, lost, shut,
                   cancel>>

BackToLoop(p) == idle' = IF p \in shut THEN idle
                         ELSE [idle EXCEPT ![p] = @ + 1]

(* catch_unwind keeps the thread, the job's completions are never sent.    *)
Panic(p, job) ==
    /\ MayPanic
    /\ job.outcome = None
    /\ running' = [running EXCEPT ![p] = @ \ {job}]
    /\ lost' = lost \cup Range(job.insts)
    /\ BackToLoop(p)
    /\ UNCHANGED <<plan_vars, pc, disp_vars, pool, channel, shut, cancel>>

(* done_tx.send blocks while the channel is full.  In a successful wave an *)
(* instruction on a mock (hence ordered) resource can fail on its own.     *)
SendCompletion(p, job) ==
    /\ job.outcome # None
    /\ Len(channel) < ChannelCap
    /\ LET i == Head(job.insts)
       IN  \E ok \in BOOLEAN :
             /\ job.outcome = "err" => ~ok
             /\ job.outcome = "ok" /\ order_key(i) = None => ok
             /\ channel' = Append(channel, [inst |-> i, ok |-> ok])
    /\ IF Len(job.insts) = 1
       THEN /\ running' = [running EXCEPT ![p] = @ \ {job}]
            /\ BackToLoop(p)
       ELSE /\ running' = [running EXCEPT
                             ![p] = (@ \ {job}) \cup
                                    {[job EXCEPT !.insts = Tail(@)]}]
            /\ UNCHANGED idle
    /\ UNCHANGED <<plan_vars, pc, disp_vars, pool, lost, shut, cancel>>

(* request_cancel, from another thread, at any moment.                     *)
RequestCancel ==
    /\ MayCancel /\ ~cancel
    /\ cancel' = TRUE
    /\ UNCHANGED <<plan_vars, pc, disp_vars, work_vars, shut>>

Finished == pc = "returned" /\ UNCHANGED vars

Dispatcher ==
    \/ LoopTop
    \/ DrainOk \/ DrainErr \/ DrainEmpty
    \/ ReleaseWave \/ ParameterLoadWave \/ FinishWave \/ LaunchIo
    \/ ComputeWave \/ QueueBlockedComputes \/ LaunchNext \/ EndLaunch
    \/ Submit \/ RunInline
    \/ SkipWait \/ WaitReceive \/ Resend \/ WaitTimeout
    \/ Shutdown \/ Return

Worker(p) ==
    \/ TakeJob(p)
    \/ LeaveIdle(p)
    \/ \E job \in running[p] :
          RunJob(p, job) \/ Panic(p, job) \/ SendCompletion(p, job)

Next ==
    \/ Dispatcher
    \/ \E p \in Pools : Worker(p)
    \/ RequestCancel
    \/ Finished

(* The operating system schedules every thread: the dispatcher, and the    *)
(* workers of each pool, are weakly fair.  A worker that can send is never *)
(* starved by its pool mates because a pool's work is finite.              *)
Spec ==
    /\ Init /\ [][Next]_vars
    /\ WF_vars(Dispatcher)
    /\ \A p \in Pools : WF_vars(Worker(p))

-----------------------------------------------------------------------------
(* Where instructions are                                                  *)

Insts(jobs) == UNION {Range(jobs[n]) : n \in DOMAIN jobs}
Reported(completions) == {completions[n].inst : n \in DOMAIN completions}

InBlocked == {i \in Instr : remaining[i] > 0}
InReady == Range(ready)
InQueues == UNION {Range(queues[k]) : k \in Keys}
InWave == Range(wave)
InSubmitting == Insts(submitting)
InPools == UNION {Insts(pool[p]) : p \in Pools}
InRunning == UNION {UNION {Range(job.insts) : job \in running[p]} : p \in Pools}
InChannel == Reported(channel)
InHand == Reported(hand)

Places ==
    [blocked |-> InBlocked, ready |-> InReady, queues |-> InQueues,
     wave |-> InWave, submitting |-> InSubmitting, pool |-> InPools,
     running |-> InRunning, channel |-> InChannel, hand |-> InHand,
     done |-> done, lost |-> lost]

Outstanding == InPools \cup InRunning \cup InChannel \cup InHand
Launched == Outstanding \cup InSubmitting

Count(S) == Cardinality(S)

-----------------------------------------------------------------------------
(* Properties                                                              *)

(* Type invariant.  Counters stay in range; the completion channel never   *)
(* exceeds its capacity and no pool holds more threads than it was given.  *)
TypeOK ==
    /\ plan \in Plans /\ mode \in Modes
    /\ pc \in {"top", "drain", "launch", "unlock", "submit", "inline", "wait",
               "resend", "join", "returned"}
    /\ remaining \in [Instr -> 0..Total]
    /\ ready \in Seq(Instr) /\ wave \in Seq(Instr)
    /\ DOMAIN queues = Keys /\ \A k \in Keys : queues[k] \in Seq(Instr)
    /\ busy \subseteq Keys
    /\ inflight \in 0..Total /\ finished \in 0..Total
    /\ done \subseteq Instr /\ lost \subseteq Instr
    /\ failure \in {None, "Cancelled", "Instruction", "Stalled"}
    /\ Len(channel) <= ChannelCap /\ Len(hand) <= 1
    /\ \A p \in Pools : /\ Len(pool[p]) <= MaxInflight
                        /\ idle[p] + Count(running[p]) <= PoolWorkers[p]
    /\ shut \subseteq Pools /\ cancel \in BOOLEAN
    /\ stall \in 0..(IF StallLimit = None THEN 0 ELSE StallLimit)

(* An instruction is ready, queued, launched or done only when everything  *)
(* it depends on has completed (the dependency counters of pooled.rs).     *)
DependenciesFirst ==
    LET places == Places IN
    \A z \in DOMAIN places \ {"blocked"} : \A i \in places[z] : plan.deps[i] \subseteq done

(* No queue, job or channel holds an instruction twice.                    *)
Apart(jobs) ==
    \A m, n \in DOMAIN jobs : \A x \in DOMAIN jobs[m], y \in DOMAIN jobs[n] :
        jobs[m][x] = jobs[n][y] => m = n /\ x = y

HeldOnce ==
    /\ IsInjective(ready) /\ IsInjective(wave)
    /\ \A k \in Keys : IsInjective(queues[k]) /\ \A i \in Range(queues[k]) : order_key(i) = k
    /\ Apart(submitting)
    /\ \A p \in Pools :
         /\ Apart(pool[p]) /\ \A i \in Insts(pool[p]) : work_kind(i) = p
         /\ \A a, b \in running[p] : \A x \in DOMAIN a.insts, y \in DOMAIN b.insts :
               a.insts[x] = b.insts[y] => a = b /\ x = y
         /\ \A job \in running[p] : \A i \in Range(job.insts) : work_kind(i) = p
    /\ \A m, n \in DOMAIN channel : channel[m].inst = channel[n].inst => m = n

(* No instruction is dropped or scheduled twice: each one is held in one   *)
(* place at a time - blocked on a dependency, in exactly one queue, job or *)
(* channel slot, done, or lost to a panic - and until the run fails in     *)
(* exactly one, and `finished` counts the done ones.  `inflight` is always *)
(* the number of completions owed to the dispatcher.                       *)
WorkConserved ==
    /\ TypeOK /\ HeldOnce
    /\ LET places == Places IN
         /\ \A y, z \in DOMAIN places : y # z => places[y] \cap places[z] = {}
         /\ failure = None => Instr \subseteq UNION {places[z] : z \in DOMAIN places}
    /\ failure = None => finished = Count(done)
    /\ inflight = Count(Outstanding) + Count(lost)

(* Stream order: at most one launched instruction per order key, the key   *)
(* is busy exactly while one is launched (or was lost), and no batched     *)
(* release or parameter load, which runs without taking its key, is ready  *)
(* while that key is busy.                                                 *)
OneLaunchedPerKey ==
    failure = None =>
        /\ LET launched == Launched \cup lost IN \A k \in Keys :
              LET holders == {i \in launched : plan.key[i] = k}
              IN  Count(holders) = (IF k \in busy THEN 1 ELSE 0)
        /\ \A i \in Range(ready) \cap (Releases \cup ParameterLoads) :
              order_key(i) \notin busy

(* Ok(report) means that every instruction of the schedule ran.            *)
ReportMeansComplete ==
    pc = "returned" /\ failure = None => done = Instr

(* No instruction is lost or launched twice, one at a time runs per order  *)
(* key, and a report means that all of them ran.                           *)
LaunchesExact == WorkConserved /\ OneLaunchedPerKey /\ ReportMeansComplete
=============================================================================
