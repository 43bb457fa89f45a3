----------------------------- MODULE DirectPath -----------------------------
(***************************************************************************)
(* The direct execution of a resident plan (runtime/direct_path.py and     *)
(* GraphExecutor._run_dataflow_direct): the schedule is collapsed once     *)
(* into waves of regions with placed parameters, and every forward runs    *)
(* the waves with one region inline and its siblings on a pool.  Forwards  *)
(* run concurrently; what they share is the placed copy of a parameter,    *)
(* which a forward refreshes when the source was updated in place.         *)
(***************************************************************************)
EXTENDS Integers, Sequences, FiniteSetsExt, SequencesExt

CONSTANTS
  Programs,    \* programs with their schedules, see below
  Forwards,
  MaxUpdates,  \* bound on the in-place updates of the parameter
  MaxFailures  \* bound on the regions that raise

(* A program p: regions, a sequence of records [id, dev, ins, outs]        *)
(* in program order; inputs and outputs, value names; insts, the schedule  *)
(* in topological order as records [op, region, deps] with deps the        *)
(* positions an instruction waits for.                                     *)

VARIABLES
  p,        \* the program, chosen once
  plan,     \* its direct plan, built once: see BuildPlan
  source,   \* version of the parameter
  copy,     \* DirectParameter: the version its value has, and source_version
  updates,
  failures,
  pc,       \* forward -> step
  local,    \* forward -> version and value between the steps of resolve
  wave,     \* forward -> index of the wave
  st,       \* forward -> region id -> idle, queued, running, done, failed, cancelled
  values    \* forward -> names present in `values`

vars == <<p, plan, source, copy, updates, failures, pc, local, wave, st, values>>

-----------------------------------------------------------------------------
Region(id) == CHOOSE r \in Range(p.regions) : r.id = id
Ids == {r.id : r \in Range(p.regions)}

(* _compute_region_dependencies: upstream Computes through transfers and   *)
(* events.                                                                 *)
Upstream ==
  LET up[i \in DOMAIN p.insts] ==
        UNION {IF p.insts[d].op = "Compute" THEN {p.insts[d].region} ELSE up[d] : d \in p.insts[i].deps}
  IN [r \in Ids |-> UNION {up[i] \ {r} : i \in {j \in DOMAIN p.insts : p.insts[j].region = r}}]

(* Wave n: regions whose dependencies are all in earlier waves.            *)
WaveOf ==
  LET done[n \in 0 .. Cardinality(Ids)] ==
        IF n = 0 THEN {} ELSE done[n - 1] \cup {r \in Ids : Upstream[r] \subseteq done[n - 1]}
  IN [r \in Ids |-> Min({n \in 1 .. Cardinality(Ids) : r \in done[n]} \cup {Cardinality(Ids) + 1})]

Waves == Max({WaveOf[r] : r \in Ids})
InWave(n) == {r \in Ids : WaveOf[r] = n}

Produced == UNION {r.outs : r \in Range(p.regions)}

Ops == Range([i \in DOMAIN p.insts |-> p.insts[i].op])
Ancillary == {"Transfer", "Event", "Release"}

(* The plans a direct path is built for; any other runs the schedule.  One *)
(* Compute among transfers and events ...                                  *)
_single_compute ==
  /\ Ops \subseteq Ancillary \cup {"Compute"}
  /\ Cardinality({i \in DOMAIN p.insts : p.insts[i].op = "Compute"}) = 1

(* ... or CPU and accelerator regions that form waves, two of them at      *)
(* least side by side.                                                     *)
_build_dataflow_direct_plan ==
  /\ Ops \subseteq Ancillary \cup {"Compute"}
  /\ {"cpu", "cuda"} \subseteq {r.dev : r \in Range(p.regions)}
  /\ \A k \in DOMAIN p.regions :
       p.regions[k].ins \subseteq p.inputs \cup UNION {p.regions[j].outs : j \in 1 .. k - 1}
  /\ Waves <= Cardinality(Ids)
  /\ \E n \in 1 .. Waves : Cardinality(InWave(n)) >= 2
  /\ p.outputs \subseteq Produced

build_direct_plan ==
  IF _single_compute
  THEN UNION {r.ins : r \in Range(p.regions)} \subseteq p.inputs /\ p.outputs \subseteq Produced
  ELSE _build_dataflow_direct_plan

Users(v) == {r \in Ids : v \in Region(r).ins}

(* Mutant: a value lives until the wave that produced it ends.             *)
LastProduction(v) == Max({WaveOf[r] : r \in {q \in Ids : v \in Region(q).outs}} \cup {0})

(* last_use *)
LastUse(v) == Max({WaveOf[r] : r \in Users(v) \cup {q \in Ids : v \in Region(q).outs}} \cup {0})
ReleaseAfter(n) == {v \in p.inputs \cup Produced : LastUse(v) = n /\ v \notin p.outputs}

(* The region of a wave the caller runs itself: the first accelerator one. *)
Inline(n) ==
  LET order == SelectSeq(p.regions, LAMBDA r : WaveOf[r.id] = n)
      accel == SelectSeq(order, LAMBDA r : r.dev = "cuda")
  IN IF accel # <<>> THEN accel[1].id ELSE order[1].id

(* A DataflowDirectPlan: the waves, what is dropped after each, and which  *)
(* region of each runs inline.                                             *)
BuildPlan ==
  [waves |-> [n \in 1 .. Waves |-> InWave(n)],
   release |-> [n \in 1 .. Waves |-> ReleaseAfter(n)],
   inline |-> [n \in 1 .. Waves |-> Inline(n)]]

-----------------------------------------------------------------------------
Keep == UNCHANGED <<p, plan, updates>>
Go(f, step) == pc' = [pc EXCEPT ![f] = step]

(* In-place update by the owner of the model.                              *)
Update ==
  /\ updates < MaxUpdates
  /\ source' = source + 1 /\ updates' = updates + 1
  /\ UNCHANGED <<p, plan, copy, failures, pc, local, wave, st, values>>

Begin(f) ==
  /\ pc[f] = "idle"
  /\ Go(f, "resolve")
  /\ wave' = [wave EXCEPT ![f] = 1]
  /\ values' = [values EXCEPT ![f] = p.inputs]
  /\ UNCHANGED <<source, copy, failures, local, st>> /\ Keep

(* DirectParameter.resolve, in the steps another thread can come between.  *)
ReadVersion(f) ==
  /\ pc[f] = "resolve"
  /\ IF copy.seen = source THEN Go(f, "launch") /\ UNCHANGED local
     ELSE Go(f, "to") /\ local' = [local EXCEPT ![f].version = source]
  /\ UNCHANGED <<source, copy, failures, wave, st, values>> /\ Keep

CopySource(f) ==
  /\ pc[f] = "to" /\ Go(f, "value")
  /\ local' = [local EXCEPT ![f].value = source]
  /\ UNCHANGED <<source, copy, failures, wave, st, values>> /\ Keep

StoreValue(f) ==
  /\ pc[f] = "value" /\ Go(f, "version")
  /\ copy' = [copy EXCEPT !.value = local[f].value]
  /\ UNCHANGED <<source, failures, local, wave, st, values>> /\ Keep

StoreVersion(f) ==
  /\ pc[f] = "version" /\ Go(f, "launch")
  /\ copy' = [copy EXCEPT !.seen = local[f].version]
  /\ UNCHANGED <<source, failures, local, wave, st, values>> /\ Keep

(* One wave: siblings to the pool, one region inline.                      *)
Launch(f) ==
  /\ pc[f] = "launch" /\ Go(f, "wave")
  /\ st' = [st EXCEPT ![f] = [r \in Ids |->
             IF r = plan.inline[wave[f]] THEN "running"
             ELSE IF r \in plan.waves[wave[f]] THEN "queued" ELSE st[f][r]]]
  /\ UNCHANGED <<source, copy, failures, local, wave, values>> /\ Keep

PoolStart(f, r) ==
  /\ st[f][r] = "queued"
  /\ st' = [st EXCEPT ![f][r] = "running"]
  /\ UNCHANGED <<source, copy, failures, pc, local, wave, values>> /\ Keep

(* The call of a region.  The inline one's outputs are in `values` at      *)
(* once, the others' when their futures are collected.                     *)
Finish(f, r) ==
  /\ st[f][r] = "running"
  /\ \/ /\ Region(r).ins \subseteq values[f]
        /\ st' = [st EXCEPT ![f][r] = "done"]
        /\ values' = IF r = plan.inline[wave[f]] THEN [values EXCEPT ![f] = @ \cup Region(r).outs] ELSE values
        /\ UNCHANGED failures
     \/ /\ failures < MaxFailures \/ ~(Region(r).ins \subseteq values[f])
        /\ st' = [st EXCEPT ![f][r] = "failed"]
        /\ failures' = IF Region(r).ins \subseteq values[f] THEN failures + 1 ELSE failures
        /\ UNCHANGED values
  /\ UNCHANGED <<source, copy, pc, local, wave>> /\ Keep

EndWave(f) ==
  /\ pc[f] = "wave" /\ \A r \in plan.waves[wave[f]] : st[f][r] = "done"
  /\ values' = [values EXCEPT ![f] =
        (@ \cup UNION {Region(r).outs : r \in plan.waves[wave[f]]}) \ plan.release[wave[f]]]
  /\ wave' = [wave EXCEPT ![f] = @ + 1]
  /\ Go(f, IF wave[f] = Len(plan.waves) THEN "returned" ELSE "launch")
  /\ UNCHANGED <<source, copy, failures, local, st>> /\ Keep

(* The inline region raised, or it is done and a sibling's future has the  *)
(* exception: what is queued is cancelled, what runs is waited for.        *)
Abort(f) ==
  /\ pc[f] = "wave"
  /\ \/ st[f][plan.inline[wave[f]]] = "failed"
     \/ st[f][plan.inline[wave[f]]] = "done" /\ \E r \in plan.waves[wave[f]] : st[f][r] = "failed"
  /\ st' = [st EXCEPT ![f] = [r \in Ids |-> IF st[f][r] = "queued" THEN "cancelled" ELSE st[f][r]]]
  /\ Go(f, "waiting")
  /\ UNCHANGED <<source, copy, failures, local, wave, values>> /\ Keep

(* Mutant: the exception is raised without waiting for the pool.           *)
RaiseAtOnce(f) ==
  /\ pc[f] = "waiting" /\ Go(f, "raised")
  /\ UNCHANGED <<source, copy, failures, local, wave, st, values>> /\ Keep

Raise(f) ==
  /\ pc[f] = "waiting" /\ \A r \in Ids : st[f][r] # "running"
  /\ Go(f, "raised")
  /\ UNCHANGED <<source, copy, failures, local, wave, st, values>> /\ Keep

Over == (\A f \in Forwards : pc[f] \in {"returned", "raised"}) /\ UNCHANGED vars

-----------------------------------------------------------------------------
Init ==
  /\ p \in Programs /\ build_direct_plan /\ plan = BuildPlan
  /\ source = 0 /\ copy = [value |-> 0, seen |-> 0] /\ updates = 0 /\ failures = 0
  /\ pc = [f \in Forwards |-> "idle"] /\ wave = [f \in Forwards |-> 0]
  /\ local = [f \in Forwards |-> [version |-> 0, value |-> 0]]
  /\ st = [f \in Forwards |-> [r \in Ids |-> "idle"]]
  /\ values = [f \in Forwards |-> {}]

Step(f) ==
  \/ Begin(f) \/ ReadVersion(f) \/ CopySource(f) \/ StoreValue(f) \/ StoreVersion(f)
  \/ Launch(f) \/ EndWave(f) \/ Abort(f) \/ Raise(f)
  \/ \E r \in Ids : PoolStart(f, r) \/ Finish(f, r)

Next == Update \/ Over \/ \E f \in Forwards : Step(f)
Spec == Init /\ [][Next]_vars

-----------------------------------------------------------------------------
(* The waves of the schedule's instruction graph order everything the data *)
(* flow needs: a region that runs finds each of its inputs, produced in an *)
(* earlier wave and not yet released, and a forward that returns has all   *)
(* of the program's outputs.                                               *)
InputsPresent ==
  \A f \in Forwards :
    /\ \A r \in Ids : st[f][r] \in {"queued", "running"} => Region(r).ins \subseteq values[f]
    /\ pc[f] = "returned" => p.outputs \subseteq values[f]

(* No region of a forward is still to run, or running, when the forward    *)
(* has returned or raised: its executor may be closed after that.          *)
NothingOutlivesForward ==
  \A f \in Forwards : pc[f] \in {"returned", "raised"} =>
    \A r \in Ids : st[f][r] \notin {"queued", "running"}
=============================================================================
