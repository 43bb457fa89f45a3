----------------------------- MODULE Specialize -----------------------------
(* specialize_for_machine: from the planner's finalists to one compiled plan.  *)
(* Every finalist gets a prefetch distance, schedule variants are built        *)
(* breadth first, all variants are simulated in a batch, pinned variants that  *)
(* the simulator refuses on host memory are rebuilt with pageable staging and  *)
(* simulated in a second batch, and the best feasible variant is compiled,     *)
(* checked against memory and given a worker count.                            *)
(* What a build or a simulation answers is a choice of the environment.        *)
EXTENDS Integers, Sequences, FiniteSetsExt, SequencesExt

CONSTANTS
  Jobs,         \* the specialisations considered (see below)
  MaxDistance,  \* max_distance of the prefetch search (8 in the code)
  MaxBuildFailures, \* bound on the schedule builds that fail in one behaviour
  None

(* A job holds finalists, each with the depth hide that hides its reads (0: it *)
(* streams no state) and its analytic rank; des, how many of them are          *)
(* simulated; requested, adaptive: the prefetch asked for; slots: the state    *)
(* working sets the RAM budget holds (0: no budget); streaming, staged: the    *)
(* model streams, through pinned staging; memory: the objective is memory;     *)
(* kernels, regions, host: what is to be compiled, and where; overlap: what    *)
(* decides on concurrent regions.                                              *)
VARIABLES
  job,       \* the request, chosen once
  pc,        \* the step specialize_for_machine is at
  next,      \* position in the build order, then in the recovery loop
  variants,  \* schedule variants built: finalist, prefetch, pageable
  pages,     \* pageable_batch of the recovery loop
  outcomes,  \* simulator answers, parallel to variants
  failures,  \* build failures so far
  simulated, \* history: every variant with the answer the simulator gave it
  plan,      \* the plan returned: variant, simulation, bindings, workers
  compiled   \* the regions compiled so far

vars == <<job, pc, next, variants, pages, outcomes, failures, simulated, plan, compiled>>

(* What the simulator can say of a variant: an objective score, or a refusal   *)
(* for host or pinned memory, or a refusal for anything else.                  *)
HostPressure == 0
OtherRefusal == -1
Answers == {1, 2, HostPressure, OtherRefusal}
Feasible(answer) == answer > 0

(* refine_prefetch_distance for one finalist.                                  *)
refine_prefetch_distance(j, f) ==
  LET requested == j.requested
      hide == j.finalists[f].hide
  IN CASE requested = 0 -> 0
       [] requested > 0 /\ j.adaptive /\ j.slots > 0 /\ hide > 0 ->
            Min({MaxDistance, j.slots - 1, Max({requested, hide})})
       [] requested > 0 /\ j.adaptive /\ j.slots > 0 /\ hide = 0 -> 0
       [] OTHER -> requested

(* _prefetch_variants: the estimate first, then 0, 1 and its neighbours.       *)
_prefetch_variants(j, f) ==
  LET est == Min({refine_prefetch_distance(j, f), MaxDistance})
      above == Min({MaxDistance, est + 1})
      first(s) == SelectSeq([i \in DOMAIN s |-> [at |-> i, d |-> s[i]]],
                            LAMBDA e : \A k \in 1 .. e.at - 1 : s[k] # e.d)
      kept == first(<<est, 0, 1, est - 1, above>>)
  IN IF ~j.streaming \/ est = 0 THEN <<0>> ELSE [i \in DOMAIN kept |-> kept[i].d]

Cap(j) == Max({1, j.des * 3})
Budget(j) == Min({Len(j.finalists), Max({1, j.des})})

Variant(f, d, page) == [fin |-> f, pref |-> d, page |-> page]

(* The finalists' primary variants, then the second ones, and so on: the order *)
(* the two build loops try them in.                                            *)
Rounds(j) ==
  FlattenSeq([r \in 1 .. 5 |->
    LET having == SelectSeq([f \in 1 .. Budget(j) |-> f],
                            LAMBDA f : r <= Len(_prefetch_variants(j, f)))
    IN [i \in DOMAIN having |->
         Variant(having[i], _prefetch_variants(j, having[i])[r], FALSE)]])

(* Mutant: one finalist's prefetch distances before the next finalist's.       *)
FinalistByFinalist(j) ==
  FlattenSeq([f \in 1 .. Budget(j) |->
    [r \in DOMAIN _prefetch_variants(j, f) |->
      Variant(f, _prefetch_variants(j, f)[r], FALSE)]])

BuildOrder(j) == Rounds(j)

-----------------------------------------------------------------------------

Init ==
  /\ job \in Jobs
  /\ pc = "plan" /\ next = 1
  /\ variants = <<>> /\ pages = <<>> /\ outcomes = <<>>
  /\ failures = 0 /\ simulated = {} /\ plan = None /\ compiled = {}

Raise == pc' = "raised"

(* A graph that computes nothing gets an empty plan and schedule.              *)
Passthrough ==
  /\ pc = "plan" /\ job.regions = {}
  /\ pc' = "returned"
  /\ UNCHANGED <<job, next, variants, pages, outcomes, failures, simulated, plan, compiled>>

(* plan_execution raises without an eligible device, a kernel for every        *)
(* region, a subset of devices or a feasible placement.                        *)
plan_execution(j) == j.finalists # <<>>

(* The finalists, each with its prefetch distance.                             *)
PlanExecution ==
  /\ pc = "plan" /\ job.regions # {}
  /\ IF plan_execution(job) THEN pc' = "build" ELSE Raise
  /\ UNCHANGED <<job, next, variants, pages, outcomes, failures, simulated, plan, compiled>>

(* _try_build: a schedule that cannot be built or does not validate is skipped *)
TryBuild(ok) ==
  /\ ok \/ failures < MaxBuildFailures
  /\ failures' = IF ok THEN failures ELSE failures + 1

BuildVariant ==
  /\ pc = "build"
  /\ next <= Len(BuildOrder(job)) /\ Len(variants) < Cap(job)
  /\ \E ok \in BOOLEAN :
       /\ TryBuild(ok)
       /\ variants' = IF ok THEN Append(variants, BuildOrder(job)[next]) ELSE variants
  /\ next' = next + 1
  /\ UNCHANGED <<job, pc, pages, outcomes, simulated, plan, compiled>>

(* The first batch.  A simulator refusal is an answer like any other.          *)
SimulateVariants ==
  /\ pc = "build"
  /\ next > Len(BuildOrder(job)) \/ Len(variants) >= Cap(job)
  /\ IF variants = <<>>
     THEN Raise /\ UNCHANGED <<next, outcomes, simulated>>
     ELSE /\ outcomes' \in [DOMAIN variants -> Answers]
          /\ simulated' = {<<variants[i], outcomes'[i]>> : i \in DOMAIN variants}
          /\ next' = 1
          /\ pc' = IF job.staged /\ job.streaming THEN "recover" ELSE "select"
  /\ UNCHANGED <<job, variants, pages, failures, plan, compiled>>

(* Mutant: recovery only while the variant cap has room.                       *)
SpareSlots == Cap(job) - Len(variants)
RecoveryCap == Max({1, Budget(job)})

(* One turn of the recovery loop.                                              *)
Recover ==
  /\ pc = "recover"
  /\ next <= Len(outcomes) /\ Len(pages) < RecoveryCap
  /\ LET v == variants[next]
         refused == /\ outcomes[next] = HostPressure
                    /\ ~v.page
                    /\ \A i \in DOMAIN pages : pages[i].fin # v.fin
     IN IF refused
        THEN \E ok \in BOOLEAN :
               /\ TryBuild(ok)
               /\ pages' = IF ok THEN Append(pages, Variant(v.fin, v.pref, TRUE)) ELSE pages
        ELSE UNCHANGED <<pages, failures>>
  /\ next' = next + 1
  /\ UNCHANGED <<job, pc, variants, outcomes, simulated, plan, compiled>>

(* Mutant: the recovered variants take the front of the list, their answers    *)
(* the back.                                                                   *)
ExtendFront(batch) == variants' = batch \o variants
ExtendVariants(batch) == variants' = variants \o batch

(* The second batch, appended to both lists.                                   *)
SimulatePages ==
  /\ pc = "recover"
  /\ next > Len(outcomes) \/ Len(pages) >= RecoveryCap
  /\ \E answers \in [DOMAIN pages -> Answers] :
       /\ outcomes' = outcomes \o answers
       /\ simulated' = simulated \cup {<<pages[i], answers[i]>> : i \in DOMAIN pages}
  /\ ExtendVariants(pages)
  /\ pc' = "select"
  /\ UNCHANGED <<job, next, pages, failures, plan, compiled>>

-----------------------------------------------------------------------------

(* _des_candidate_sort_key without the score: analytic rank, finalist rank,    *)
(* distance from the analytic prefetch, prefetch (smaller for the memory       *)
(* objective, larger otherwise), position.                                     *)
TieKey(i) ==
  LET v == variants[i]
      d == v.pref - refine_prefetch_distance(job, v.fin)
  IN <<job.finalists[v.fin].rank, v.fin, IF d < 0 THEN -d ELSE d,
       IF job.memory THEN v.pref ELSE -v.pref, i>>

Before(a, b) == \E k \in DOMAIN a : a[k] < b[k] /\ \A m \in 1 .. k - 1 : a[m] = b[m]

Scored == {i \in DOMAIN outcomes : Feasible(outcomes[i])}

(* Mutant: the analytic rank decides before the simulated score.               *)
ByAnalyticRank(S) == CHOOSE i \in S : \A k \in S \ {i} : Before(TieKey(i), TieKey(k))

(* _select_des_winner: least score, ties by TieKey.                            *)
_select_des_winner(S) ==
  LET best == {i \in S : \A k \in S : outcomes[i] <= outcomes[k]}
  IN CHOOSE i \in best : \A k \in best \ {i} : Before(TieKey(i), TieKey(k))

(* The rest of _select_finalist_by_simulation.                                 *)
Select ==
  /\ pc = "select"
  /\ IF Scored = {}
     THEN Raise /\ UNCHANGED plan
     ELSE LET i == _select_des_winner(Scored)
          IN /\ plan' = [variant |-> variants[i], sim |-> outcomes[i],
                         bindings |-> {}, workers |-> 0]
             /\ pc' = "compile"
  /\ UNCHANGED <<job, next, variants, pages, outcomes, failures, simulated, compiled>>

(* One placement: a binding of its region to its device, no binding when       *)
(* kernels are not compiled (the probe before fusion), or an exception.        *)
_compile_one_placement(r) ==
  \/ /\ compiled' = compiled \cup {r}
     /\ plan' = IF job.kernels THEN [plan EXCEPT !.bindings = @ \cup {r}] ELSE plan
     /\ UNCHANGED pc
  \/ Raise /\ UNCHANGED <<compiled, plan>>

(* _compile_plan_placements: accelerator placements one after the other, then  *)
(* the CPU ones, on a pool unless compile_workers is 1, so that they may       *)
(* finish in any order.  An exception ends the specialisation.                 *)
CompileRegion ==
  /\ pc = "compile"
  /\ \E r \in job.regions \ compiled :
       /\ r \in job.host /\ job.kernels => job.regions \ job.host \subseteq compiled
       /\ _compile_one_placement(r)
  /\ UNCHANGED <<job, next, variants, pages, outcomes, failures, simulated>>

(* concurrency_budget                                                          *)
concurrency_budget(o) ==
  CASE o.cpu > 0 /\ o.accel > 0 -> Max({2, o.accel + 1})
    [] o.cpu > 0 /\ o.accel = 0 -> Max({2, o.cpu})
    [] OTHER -> Max({1, o.accel})

(* _candidates: worker and intra-op thread splits.                             *)
_candidates(workers, threads) ==
  LET counts == {w \in {workers, 2} : 2 <= w /\ w <= workers}
      splits(w) == {Max({1, threads \div w}), threads}
  IN UNION {{<<w, t>> : t \in splits(w)} : w \in counts}

(* _decide_concurrency with measure_concurrency_benefit: 1, or the workers of  *)
(* the fastest split if it is fast enough on the widest level and on the whole *)
(* graph.                                                                      *)
_decide_concurrency(o) ==
  LET budget == concurrency_budget(o)
      hetero == o.cpu > 0 /\ o.accel > 0 /\ o.width >= 2 /\ budget > 1
      measurable == budget > 1 /\ o.width >= 2
  IN CASE ~o.allow -> {1}
       [] o.allow /\ o.forced > 0 -> {o.forced}
       [] o.allow /\ o.forced = 0 /\ ~o.inputs -> {1}
       [] o.allow /\ o.forced = 0 /\ o.inputs /\ hetero -> {Min({budget, Max({2, o.width})})}
       [] o.allow /\ o.forced = 0 /\ o.inputs /\ ~hetero /\ ~measurable -> {1}
       [] OTHER -> {1} \cup {c[1] : c \in _candidates(Min({budget, o.width}), o.threads)}

(* The simulated peak against the VRAM budget, which the simulator did not     *)
(* know.                                                                       *)
CheckMemory ==
  /\ pc = "compile" /\ compiled = job.regions
  /\ Raise \/ pc' = "finish"
  /\ UNCHANGED <<job, next, variants, pages, outcomes, failures, simulated, plan, compiled>>

(* The worker count, and the artifact.                                         *)
Return ==
  /\ pc = "finish" /\ pc' = "returned"
  /\ \E w \in _decide_concurrency(job.overlap) : plan' = [plan EXCEPT !.workers = w]
  /\ UNCHANGED <<job, next, variants, pages, outcomes, failures, simulated, compiled>>

Done == pc \in {"raised", "returned"} /\ UNCHANGED vars

Next ==
  \/ Passthrough \/ PlanExecution \/ BuildVariant \/ SimulateVariants \/ Recover \/ SimulatePages
  \/ Select \/ CompileRegion \/ CheckMemory \/ Return \/ Done

Spec == Init /\ [][Next]_vars

-----------------------------------------------------------------------------

Returned == pc = "returned" /\ plan # None

(* The plan that specialize_for_machine returns carries the schedule variant   *)
(* and the simulation of one and the same candidate, feasible and with no      *)
(* better one among all that were simulated, recovered variants included: the  *)
(* parallel lists variants and outcomes of _select_finalist_by_simulation stay *)
(* aligned across the recovery batch.                                          *)
ReturnedPlanIsTheWinner ==
  Returned =>
    /\ <<plan.variant, plan.sim>> \in simulated
    /\ Feasible(plan.sim)
    /\ \A s \in simulated : Feasible(s[2]) => plan.sim <= s[2]
    /\ plan.bindings = IF job.kernels THEN job.regions ELSE {}

(* "Pinned fill must not starve pageable recovery": when selection starts, a   *)
(* finalist with a pinned variant refused for host memory has been simulated   *)
(* with pageable staging too, unless a build of it failed; and once at most.   *)
RefusedPinnedIsRetried ==
  pc = "select" /\ job.staged /\ job.streaming =>
    \A f \in 1 .. Budget(job) :
      LET again == {s \in simulated : s[1].fin = f /\ s[1].page}
      IN /\ Cardinality(again) <= 1
         /\ (failures = 0 /\ <<f, HostPressure>> \in {<<s[1].fin, s[2]>> : s \in simulated})
              => again # {}

(* "Never spend multiple slots on one placement while another gets zero": when *)
(* no build failed, the simulated batch holds the primary variant of every     *)
(* selected finalist, and a finalist is ahead of another that still has        *)
(* variants to offer by one at most.                                           *)
SlotsAreShared ==
  pc = "select" /\ failures = 0 =>
    LET count(f) == Cardinality({s \in simulated : s[1].fin = f /\ ~s[1].page})
    IN \A f, g \in 1 .. Budget(job) :
         \/ count(g) >= count(f) - 1 /\ count(g) > 0
         \/ count(g) = Len(_prefetch_variants(job, g))

(* "Explicit prefetch_distance=0 is a hard disable ... Adaptive overlap sizing *)
(* must not re-enable it": neither the refinement nor the variants around it.  *)
DisabledStaysDisabled == Returned /\ job.requested = 0 => plan.variant.pref = 0
=============================================================================
