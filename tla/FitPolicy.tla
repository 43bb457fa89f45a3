------------------------------ MODULE FitPolicy ------------------------------
(***************************************************************************)
(* The memory-fit decisions of compile/fit.py, the GPU-prefix cut of       *)
(* compile/overflow.py and the export-free choices of compile/eager_cpu.py *)
(* as operators.                                                           *)
(*                                                                         *)
(* A configuration c is a record with fields cpu, gpu, training, streaming *)
(* (allow_nvme_streaming), ram, vram, activation (bytes or None), prefetch,*)
(* concurrent and workers (max_concurrent_regions).  A machine is the set  *)
(* of the allocatable bytes of its accelerators (compute_class and memory  *)
(* affinity already resolved), so an empty set is a host without one.      *)
(***************************************************************************)
EXTENDS Integers, Sequences, FiniteSets, FiniteSetsExt, SequencesExt

CONSTANTS None,
          SafetyFloor      \* ACCELERATOR_HOIST_SAFETY_MIN_BYTES

Larger(a, b) == IF a >= b THEN a ELSE b
Smaller(a, b) == IF a <= b THEN a ELSE b

needs_parameter_streaming(c, state) ==
  c.ram # None /\ state > c.ram /\ c.streaming

(* The tightest eligible accelerator after the VRAM cap; None without one. *)
accelerator_vram_capacity_bytes(c, machine) ==
  LET capped(a) == IF c.vram = None THEN a
                   ELSE IF a > 0 THEN Smaller(a, c.vram) ELSE c.vram
      usable == {x \in {capped(a) : a \in machine} : x > 0}
  IN IF c.gpu /\ usable # {} THEN Min(usable) ELSE None

accelerator_region_state_budget_bytes(c, machine) ==
  LET cap == accelerator_vram_capacity_bytes(c, machine)
  IN IF cap = None THEN None ELSE Larger(1, (cap * 7) \div 10)

accelerator_hoist_safety_bytes(cap) ==
  Smaller(Larger(SafetyFloor, (cap * 8) \div 100), Larger(1, cap \div 8))

accelerator_hoist_budget_bytes(c, machine) ==
  LET cap == accelerator_vram_capacity_bytes(c, machine)
      reserve == IF c.activation = None THEN 0 ELSE c.activation
  IN IF cap = None THEN None
     ELSE Larger(1, cap - accelerator_hoist_safety_bytes(cap) - reserve)

(* free is the live free VRAM of the target devices, read at the call.     *)
clamp_hoist_budget_to_live_vram(budget, free) ==
  IF free = {} THEN Larger(1, budget)
  ELSE LET live(f) == Larger(0, f - accelerator_hoist_safety_bytes(Larger(1, f)))
       IN Larger(1, Smaller(Larger(1, budget), Min({live(f) : f \in free})))

(* The budget assumed before CUDA is touched: 90% of the device is free.   *)
optimistic_hoist_budget_without_cuda(c, vram) ==
  LET cap == IF c.gpu THEN c.vram ELSE None      \* machine = None
      reserve == IF c.activation = None THEN 0 ELSE c.activation
      budget == IF cap = None
                THEN Larger(1, vram - accelerator_hoist_safety_bytes(vram))
                ELSE Larger(1, cap - accelerator_hoist_safety_bytes(cap) - reserve)
      assumed == Larger(1, (vram * 90) \div 100)
      live == Larger(0, assumed - accelerator_hoist_safety_bytes(assumed))
  IN IF live > 0 THEN Larger(1, Smaller(budget, live)) ELSE Larger(1, budget)

should_hoist_resident_parameters(c, machine, state) ==
  LET budget == accelerator_hoist_budget_bytes(c, machine)
  IN ~c.training /\ (budget = None \/ state <= budget)

-----------------------------------------------------------------------------
(* select_persistent_parameter_ids.  sizes maps parameters to bytes;       *)
(* groups are the coalesced transfers.  Ties go in a fixed order.          *)

TotalOf(sizes, S) == FoldSet(LAMBDA p, sum : sizes[p] + sum, 0, S)

(* Largest first; a parameter that does not fit is skipped.                *)
Greedy(sizes, budget) ==
  LET order == SetToSortSeq({p \in DOMAIN sizes : sizes[p] > 0},
                 LAMBDA a, b : sizes[a] > sizes[b])
      take(sel, p) == IF TotalOf(sizes, sel) + sizes[p] > budget THEN sel
                      ELSE sel \cup {p}
  IN FoldLeft(take, {}, order)

Headroom(sizes, budget, groups, sel) ==
  \A g \in groups : TotalOf(sizes, g \ sel) <= budget - TotalOf(sizes, sel)

(* Residents are dropped smallest first until every group's remainder fits *)
(* beside those that stay.                                                 *)
Trim(sizes, budget, groups, sel) ==
  LET order == SetToSortSeq(sel,
                 LAMBDA a, b : sizes[a] < sizes[b])
      after(k) == {order[i] : i \in (k + 1)..Len(order)}
      enough == {k \in 0..Len(order) :
                   after(k) = {} \/ Headroom(sizes, budget, groups, after(k))}
  IN after(Min(enough))

select_persistent_parameter_ids(sizes, budget, groups) ==
  IF budget <= 0 THEN {}
  ELSE LET sel == Greedy(sizes, budget)
       IN IF groups = {} \/ sel = {} THEN sel
          ELSE Trim(sizes, budget, groups, sel)

estimate_partial_resident_stream_bytes(sizes, budget, groups) ==
  LET given == IF groups = {} THEN {{p} : p \in DOMAIN sizes} ELSE groups
      sel == select_persistent_parameter_ids(sizes, budget, given)
  IN TotalOf(sizes, DOMAIN sizes \ sel)

-----------------------------------------------------------------------------
(* Region budgets and the shape of the lowering. *)

streaming_region_budget(c, params) ==
  IF c.ram = None \/ (params > 0 /\ params <= c.ram) THEN None
  ELSE Larger(1, c.ram \div Larger(1, 1 + Larger(0, c.prefetch)))

region_state_budget(c, machine, params) ==
  LET limits == {streaming_region_budget(c, params),
                 accelerator_region_state_budget_bytes(c, machine)} \ {None}
  IN IF limits = {} THEN None ELSE Min(limits)

exceeds_accelerator_region_budget(c, machine, params) ==
  LET budget == accelerator_region_state_budget_bytes(c, machine)
  IN budget # None /\ params > budget

should_force_single_region(c, machine, params) ==
  /\ ~c.training
  /\ streaming_region_budget(c, params) = None
  /\ ~(c.concurrent /\ c.workers # 1)
  /\ ~exceeds_accelerator_region_budget(c, machine, params)

(* How many leading regions' distinct state fits the budget.               *)
gpu_prefix_count(regions, sizes, budget) ==
  LET state(n) == UNION {regions[i] : i \in 1..n}
      fits == {n \in 0..Len(regions) :
                 \A m \in 1..n : TotalOf(sizes, state(m)) <= budget}
  IN IF budget < 1 THEN 0 ELSE Max(fits)

-----------------------------------------------------------------------------
(* Export-free compile: run the original module on the host (cpu_s is its  *)
(* measured time, per_byte the H2D estimate) or on the accelerator.        *)

should_prefer_eager_gpu_without_export(c, vram, state) ==
  /\ ~c.training /\ c.gpu /\ state > 0 /\ vram # None
  /\ state <= optimistic_hoist_budget_without_cuda(c, vram)

should_prefer_eager_cpu_without_export(c, vram, sizes, groups, cpu_s, per_byte) ==
  LET state == TotalOf(sizes, DOMAIN sizes)
      budget == optimistic_hoist_budget_without_cuda(c, vram)
      streamed == estimate_partial_resident_stream_bytes(sizes, budget, groups)
      gpu_s == (streamed * per_byte * 125) \div 100
  IN /\ c.cpu /\ ~c.training /\ c.gpu
     /\ vram # None /\ state > vram
     /\ streamed > 0 /\ cpu_s * 115 < gpu_s * 100
=============================================================================
