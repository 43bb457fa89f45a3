--------------------------- MODULE CompilePipeline ---------------------------
(***************************************************************************)
(* compile: run the original module when that is clearly best, otherwise   *)
(* export and compile_exported_program: lower, choose between fused,       *)
(* concurrent, streamed, GPU-prefix and fused-CPU candidates by timing     *)
(* them, write the bundle back, build the parameter store.  Planning and   *)
(* timing are external here: a specialisation lands on any devices its     *)
(* configuration and the machine allow, a timing is any of Times or fails. *)
(***************************************************************************)
EXTENDS FitPolicy

CONSTANTS Requests,    \* compile calls, see Request below
          Times,       \* latencies a timing or a prediction may give
          PerByte,     \* predicted host-to-device time per byte
          Inf          \* a failed timing: larger than 1.5 times any of Times

(* A request holds the configuration c of FitPolicy and                    *)
(*   machine   bytes of each accelerator,   host    bytes of RAM and disk, *)
(*   named     the accelerators are cuda, rocm or xpu ones,                *)
(*   params    bytes of the model,          atom    of its largest tensor, *)
(*   shape     one (cannot be split), chain, wide, or fine (wide only when *)
(*             cut finely),                                                *)
(*   eager     the original module came along,  examples  inputs did,      *)
(*   bundle    an artifact directory was given.                            *)
VARIABLES req,
          pc,
          cur,       \* program and portable: "single" or "multi"
          spec,      \* specialized: the lowering it is of and its devices
          guard,     \* validation["fused_cpu_baseline"]
          timed,     \* the running comparison: candidate to latest timing
          disk,      \* the bundle: portable.json and specialized/
          built      \* lowerings specialised so far

vars == <<req, pc, cur, spec, guard, timed, disk, built>>

c == req.c
None2 == [low |-> "none", dev |-> "none"]

-----------------------------------------------------------------------------
(* _lower_to_portable writes the portable it makes when given the bundle.  *)
Lowering(force) == IF force \/ req.shape = "one" THEN "single" ELSE "multi"

Piece ==
  LET cap == region_state_budget(c, req.machine, req.params)
      half == req.params \div 2
  IN Larger(req.atom, IF cap = None THEN half ELSE Smaller(half, cap))

Largest(low) == IF low = "single" THEN req.params ELSE Piece

Beyond == exceeds_accelerator_region_budget(c, req.machine, req.params)
ForceSingle == should_force_single_region(c, req.machine, req.params)

(* What specialize_for_machine may place lowering low on under cfg.        *)
Placements(low, cfg) ==
  LET cap == accelerator_vram_capacity_bytes(cfg, req.machine)
      gpu == cap # None /\ Largest(low) <= cap
  IN {[low |-> low, dev |-> d] : d \in
        (IF cfg.cpu THEN {"cpu"} ELSE {}) \cup (IF gpu THEN {"gpu"} ELSE {})
        \cup (IF cfg.cpu /\ gpu /\ low = "multi" THEN {"mixed"} ELSE {})}

bindings_use_accelerator(s) == req.named /\ s.dev \in {"gpu", "mixed"}

fusion_eligible ==
  /\ cur = "multi" /\ ~c.training /\ c.ram = None
  /\ c.concurrent /\ c.workers = 0 /\ ~ForceSingle /\ req.examples

-----------------------------------------------------------------------------
(* Timings.  A failed one raises, or under the safe variants counts as     *)
(* infinitely slow; without a dataflow plan time_executor gives that too.  *)
time_executor(dataflow) == Times \cup (IF dataflow THEN {Inf} ELSE {})

safe_time_executor == Times \cup {Inf}

time_eager_module == Times

(* Decisions over timings.                                                 *)

prefer_cpu_baseline(cpu_s, streamed_s) ==
  cpu_s # Inf /\ (streamed_s = Inf \/ cpu_s * 100 <= streamed_s * 102)

select_beyond_vram_winner(cpu_s, streamed_s, overflow_s) ==
  IF streamed_s = Inf /\ overflow_s = Inf
  THEN IF cpu_s # Inf THEN "cpu" ELSE "streamed"
  ELSE IF prefer_cpu_baseline(cpu_s, Smaller(streamed_s, overflow_s)) THEN "cpu"
  ELSE IF overflow_s <= streamed_s THEN "overflow" ELSE "streamed"

DataflowEnabled(schedule_s, dataflow_s) == dataflow_s * 102 <= schedule_s * 100

ConcurrentTime(schedule_s, dataflow_s) ==
  IF DataflowEnabled(schedule_s, dataflow_s) THEN dataflow_s ELSE schedule_s

choose_fusion_candidate(fused_s, schedule_s, dataflow_s, hetero) ==
  LET conc == ConcurrentTime(schedule_s, dataflow_s)
  IN /\ fused_s * (IF hetero THEN 110 ELSE 102) <= conc * 100
     /\ ~(/\ hetero /\ DataflowEnabled(schedule_s, dataflow_s)
          /\ schedule_s * 10 >= 15 * dataflow_s
          /\ conc * 102 <= fused_s * 110)

-----------------------------------------------------------------------------
Goto(l) == pc' = l

(* Only a bundle directory is written to. *)
Write(portable, s) ==
  disk' = IF req.bundle THEN [portable |-> portable, spec |-> s] ELSE disk

Raise == Goto("raised") /\ UNCHANGED <<req, cur, spec, guard, timed, disk, built>>

(* compile without a bundle: the original module on the host when it       *)
(* clearly beats streaming, on the accelerator when it fits; moving it     *)
(* there may fail, and then so does the compile.                           *)
Frontend ==
  LET vram == IF c.vram # None THEN c.vram
              ELSE IF req.machine = {} THEN None ELSE Min(req.machine)
      sizes == <<req.atom, req.params - req.atom>>
      eager(dev) == [low |-> "eager", dev |-> dev]
  IN /\ pc = "call"
     /\ \E cpu_s \in Times \cup {Inf}, moves \in BOOLEAN :
          LET host == /\ req.eager /\ ~req.bundle /\ cpu_s # Inf
                      /\ should_prefer_eager_cpu_without_export(c, vram, sizes,
                           {{1}, {2}}, cpu_s, PerByte)
              device == /\ req.eager /\ ~req.bundle /\ ~host
                        /\ req.named /\ req.machine # {}    \* torch.cuda.is_available
                        /\ should_prefer_eager_gpu_without_export(c, vram, req.params)
          IN /\ spec' = IF host THEN eager("cpu") ELSE IF device THEN eager("gpu") ELSE spec
             /\ cur' = IF host \/ device THEN "eager" ELSE cur
             /\ Goto(IF device /\ ~moves THEN "raised"
                     ELSE IF host \/ device THEN "returned" ELSE "start")
     /\ UNCHANGED <<req, guard, timed, disk, built>>

(* The first lowering and _check_early_fit.                                *)
Start ==
  LET devices == TotalOf([a \in req.machine |->
                    IF c.vram # None THEN Smaller(a, c.vram) ELSE a], req.machine)
      allowed == devices + req.host.ram
                  + (IF c.streaming /\ c.ram # None THEN req.host.disk ELSE 0)
  IN /\ pc = "start"
     /\ cur' = Lowering(ForceSingle)
     /\ Write(Lowering(ForceSingle), disk.spec)
     /\ Goto(IF req.params > allowed THEN "raised" ELSE "branch")
     /\ UNCHANGED <<req, spec, guard, timed, built>>

Compared(names, latencies) == timed' = [n \in names |-> latencies[n]]

(* specialize_for_machine of cur; a failure propagates.                    *)
Plain ==
  /\ pc = "branch" /\ ~fusion_eligible
  /\ \E s \in Placements(cur, c) : spec' = s /\ Write(disk.portable, s)
  /\ built' = built \cup {cur}
  /\ Goto(IF req.examples /\ ~c.training THEN "bakeoff" ELSE "finish")
  /\ UNCHANGED <<req, cur, guard, timed>>

(* Lower to one region, specialise it, save both, then the CPU bakeoff.    *)
FuseSingle ==
  /\ cur' = "single"
  /\ \E s \in Placements("single", c) :
       spec' = s /\ Write("single", s)
  /\ built' = built \cup {"single"}
  /\ Goto("bakeoff")
  /\ UNCHANGED <<req, guard, timed>>

Sequential ==
  /\ pc = "branch" /\ fusion_eligible /\ req.shape = "chain"
  /\ IF Beyond
     THEN Goto("beyond") /\ UNCHANGED <<req, cur, spec, guard, timed, disk, built>>
     ELSE FuseSingle

(* Mutant: one worker is enough to fuse, whatever the region budget says. *)
FuseOnOneWorker(workers) == workers = 1

PreferFused(workers) == workers = 1 /\ ~Beyond

(* Wide graphs: lower coarsely, keep the coarse program if it is wide too, *)
(* probe without compiling, then fuse, stream or time the three ways.      *)
Wide ==
  /\ pc = "branch" /\ fusion_eligible /\ req.shape # "chain"
  /\ \E probe \in Placements("multi", c), decided \in {1, 2} :
       LET workers == IF decided = 1 /\ probe.dev = "mixed" THEN 2 ELSE decided
       IN IF PreferFused(workers) THEN FuseSingle
          ELSE /\ Goto(IF Beyond THEN "beyond" ELSE "three")
               /\ Write(IF req.shape = "fine" THEN "coarse" ELSE "multi", disk.spec)
               /\ UNCHANGED <<req, cur, spec, guard, timed, built>>

(* Concurrent schedule, concurrent dataflow and fused, timed in full: a    *)
(* failing timing raises, a missing dataflow plan is never the choice.     *)
ThreeWay ==
  /\ pc = "three"
  /\ \E conc \in Placements("multi", c), fused \in Placements("single", c),
        schedule_s \in time_executor(FALSE), dataflow_s \in time_executor(TRUE),
        fused_s \in time_executor(FALSE) :
       LET hetero == conc.dev = "mixed"
           prefer == choose_fusion_candidate(fused_s, schedule_s, dataflow_s, hetero)
       IN /\ spec' = IF prefer THEN fused ELSE conc
          /\ cur' = spec'.low
          /\ Write("single", spec')
          /\ Compared({"single", "multi"},
               [single |-> fused_s, multi |-> ConcurrentTime(schedule_s, dataflow_s)])
          /\ Goto(IF prefer THEN "bakeoff" ELSE "finish")
  /\ built' = built \cup {"single", "multi"}
  /\ UNCHANGED <<req, guard>>

-----------------------------------------------------------------------------
(* The fused CPU candidate is lowered outside the bundle.                  *)
TakeCpu ==
  /\ cur' = "single" /\ spec' = [low |-> "single", dev |-> "cpu"]
  /\ guard' = TRUE
  /\ built' = built \cup {"single"}
  /\ Goto("finish")

KeepSpec == UNCHANGED <<cur, spec, guard, built>> /\ Goto("finish")

(* bakeoff_fused_cpu_against_accelerator.  The original module's timing is *)
(* not guarded; without one the CPU candidate is built and timed safely.   *)
Bakeoff ==
  /\ pc = "bakeoff"
  /\ IF ~c.cpu \/ ~c.gpu \/ ~bindings_use_accelerator(spec)
     THEN KeepSpec /\ UNCHANGED timed
     ELSE \E cpu_s \in IF req.eager THEN time_eager_module ELSE safe_time_executor,
             accel_s \in safe_time_executor :
            /\ Compared({"cpu", spec.low}, [n \in {"cpu", spec.low} |->
                 IF n = "cpu" THEN cpu_s ELSE accel_s])
            /\ IF prefer_cpu_baseline(cpu_s, accel_s) THEN TakeCpu ELSE KeepSpec
  /\ UNCHANGED <<req, disk>>

-----------------------------------------------------------------------------
(* select_sequential_beyond_vram_plan. *)

BeyondCpu ==
  /\ pc = "beyond"
  /\ \E cpu_s \in Times \cup {Inf} :
       /\ req.eager /\ ~c.cpu => cpu_s = Inf
       /\ Compared({"cpu"}, [cpu |-> cpu_s])
  /\ Goto("probe")
  /\ UNCHANGED <<req, cur, spec, guard, disk, built>>

(* The prediction, 0 when there is none, and the H2D bound may together    *)
(* rule the accelerator out.                                               *)
BeyondProbe ==
  /\ pc = "probe"
  /\ \E predicted \in Times \cup {0}, h2d \in Times \cup {Inf} :
       LET cpu_s == timed["cpu"]
           clear(t) == cpu_s * 15 < t * 10
       IN IF /\ c.cpu /\ cpu_s # Inf /\ req.named
             /\ predicted > 0 /\ clear(predicted) /\ clear(h2d)
          THEN TakeCpu
          ELSE Goto("stream") /\ UNCHANGED <<cur, spec, guard, built>>
  /\ UNCHANGED <<req, timed, disk>>

BeyondStream ==
  /\ pc = "stream"
  /\ \E s \in Placements(cur, [c EXCEPT !.cpu = FALSE]) :
       IF c.cpu /\ ~bindings_use_accelerator(s) THEN TakeCpu
       ELSE /\ spec' = s /\ built' = built \cup {cur}
            /\ Goto(IF c.cpu THEN "race" ELSE "finish")
            /\ UNCHANGED <<cur, guard>>
  /\ UNCHANGED <<req, timed, disk>>

(* _maybe_gpu_prefix_overflow: an interior cut of the hoist budget.  The   *)
(* regions of a split are of one size, the last one of what is left.       *)
PrefixInterior ==
  LET budget == accelerator_hoist_budget_bytes(c, req.machine)
      size == Largest(cur)
      count == (req.params + size - 1) \div size
      sizes == [i \in 1..count |-> Smaller(size, req.params - (i - 1) * size)]
      on_gpu == gpu_prefix_count([i \in 1..count |-> {i}], sizes, budget)
  IN budget # None /\ on_gpu \in 1..(count - 1)

Choose(winner) ==
  CASE winner = "cpu" -> TakeCpu
    [] winner = "overflow" -> /\ spec' = [low |-> "multi", dev |-> "mixed"]
                              /\ Goto("finish") /\ UNCHANGED <<cur, guard, built>>
    [] OTHER -> KeepSpec

BeyondRace ==
  /\ pc = "race"
  /\ \E streamed_s \in safe_time_executor,
        overflow_s \in IF PrefixInterior THEN safe_time_executor ELSE {Inf} :
       LET winner == select_beyond_vram_winner(timed["cpu"], streamed_s, overflow_s)
       IN /\ Compared({"cpu", "streamed", "overflow"},
               [cpu |-> timed["cpu"], streamed |-> streamed_s, overflow |-> overflow_s])
          /\ IF winner = "cpu" /\ req.eager
             THEN Goto("retime") /\ UNCHANGED <<cur, spec, guard, built>>
             ELSE Choose(winner)
  /\ UNCHANGED <<req, disk>>

(* Specialising slows the host: the winner is timed again, and a failure   *)
(* there loses.                                                            *)
(* Mutant: the earlier timing stands when the second one fails. *)
KeepEarlier(post) == IF post = Inf THEN timed["cpu"] ELSE post

PostTime(post) == post

BeyondRetime ==
  /\ pc = "retime"
  /\ \E post \in time_eager_module \cup {Inf} :
       /\ timed' = [timed EXCEPT !["cpu"] = post]
       /\ Choose(select_beyond_vram_winner(PostTime(post), timed["streamed"],
                                           timed["overflow"]))
  /\ UNCHANGED <<req, disk>>

-----------------------------------------------------------------------------
(* Mutant: the candidates' own saves are trusted. *)
NoFinalSave == UNCHANGED disk

FinalSave == Write(cur, spec)

(* The final save, then the store: none when the original module runs the  *)
(* fused CPU plan, unless installing it fails.                             *)
Finish ==
  /\ pc = "finish"
  /\ FinalSave
  /\ \E installs \in BOOLEAN :
       LET store == ~(guard /\ req.eager /\ installs)
       IN Goto(IF /\ store /\ needs_parameter_streaming(c, req.params)
                  /\ Largest(cur) > c.ram
               THEN "refused" ELSE "returned")
  /\ UNCHANGED <<req, cur, spec, guard, timed, built>>

(* Lowering, planning or compiling regions may fail in any stage.          *)
Fails == pc \notin {"call", "start", "finish", "returned", "refused", "raised"} /\ Raise

Done == pc \in {"returned", "refused", "raised"} /\ UNCHANGED vars

Init ==
  /\ req \in Requests
  /\ pc = "call" /\ cur = "none" /\ spec = None2 /\ guard = FALSE
  /\ timed = << >> /\ built = {}
  /\ disk = [portable |-> "none", spec |-> None2]

Next ==
  \/ Frontend \/ Start \/ Plain \/ Sequential \/ Wide \/ ThreeWay \/ Bakeoff
  \/ BeyondCpu \/ BeyondProbe \/ BeyondStream \/ BeyondRace \/ BeyondRetime
  \/ Finish \/ Fails \/ Done

Spec == Init /\ [][Next]_vars

-----------------------------------------------------------------------------
(* Candidates write portable.json and specialized/ as they are lowered and *)
(* compiled, losers included; what a compile returns is what the bundle    *)
(* then holds (the trailing saves of compile_exported_program).            *)
SavedIsReturned ==
  (pc = "returned" /\ req.bundle) =>
    disk.portable = cur /\ disk.spec = spec /\ spec.low = cur

(* The candidate a comparison ends with.                                   *)
Chosen ==
  IF guard THEN "cpu"
  ELSE IF "streamed" \in DOMAIN timed
       THEN IF spec.dev = "mixed" THEN "overflow" ELSE "streamed"
  ELSE spec.low

(* Whatever fails or slows down between timings, the plan returned is, by  *)
(* the latest timings of the last comparison, one that ran and within 10%  *)
(* of the best that ran, unless none ran ("candidate failure selects the   *)
(* surviving baseline").                                                   *)
BestTimedWins ==
  (pc = "finish" /\ Chosen \in DOMAIN timed) =>
    LET ran == {n \in DOMAIN timed : timed[n] # Inf}
    IN ran = {} \/ (/\ Chosen \in ran
                    /\ \A n \in ran : timed[Chosen] * 100 <= timed[n] * 110)

(* A graph is fused into one accelerator region only when its parameters   *)
(* fit the accelerator's region budget, on every route to a single region; *)
(* the original module runs there only when they fit the device.           *)
FusedFitsAccelerator ==
  (pc = "returned" /\ spec.dev = "gpu") =>
    /\ cur = "single" /\ req.shape # "one" =>
         req.params <= accelerator_region_state_budget_bytes(c, req.machine)
    /\ cur = "eager" => req.params < accelerator_vram_capacity_bytes(c, req.machine)
=============================================================================
