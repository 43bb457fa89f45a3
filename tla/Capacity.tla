------------------------------ MODULE Capacity ------------------------------
(***************************************************************************)
(* The byte budgets a compiled module runs under: how they are resolved    *)
(* from the configuration and the machine (hardware/budget.py), what one   *)
(* forward is charged (runtime/capacity.py), the ledger that admits        *)
(* forwards, the serving layer's clamp on a model's concurrency, and the   *)
(* ledger a replan installs beside the one in use.                         *)
(***************************************************************************)
EXTENDS FitPolicy

CONSTANTS
  Settings,     \* configurations on machines, as below
  Forwards,     \* forwards that may be in flight
  Floor, ReserveMin, ReserveMax,  \* 128 MiB, 256 MiB, 2 GiB
  Display, Headless,              \* default VRAM headroom, 768 and 256 MiB
  SpillDefault,                   \* 1 GiB
  MaxReplans    \* bound on replans

VARIABLES
  s,         \* the setting, chosen once
  ledgers,   \* the ledger of every generation built, the last one current
  published, \* concurrency_limit of the served model, 0 before load
  lease,     \* forward -> the generation whose ledger it holds, or 0
  pc         \* "build", "ready", "failed"

vars == <<s, ledgers, published, lease, pc>>

(* A setting: FitPolicy's configuration c, host_memory_reserve_bytes,      *)
(* vram_headroom_bytes and max_total_spill_bytes; the cgroup and OS        *)
(* readings; the accelerators' memory (free is allocatable_bytes); the     *)
(* model's state bytes and its largest region's, its store (streaming,     *)
(* resident, export_free, none), whether the plan runs on CPUs only; the   *)
(* plan's predicted peaks; and the concurrency asked of the serving layer. *)

-----------------------------------------------------------------------------
(* hardware/budget.py *)

_read_cgroup_v2_memory(g) ==
  LET limits == {g.max, g.high} \ {None}
  IN IF limits = {} THEN None ELSE Larger(0, Min(limits) - g.current)

_read_cgroup_v1_memory(g) ==
  IF g.limit = None THEN None ELSE Larger(0, g.limit - g.usage)

_default_reserve(raw) == Larger(ReserveMin, Smaller(ReserveMax, raw \div 20))

(* The bytes allowed, and whether they are what remains right now: a       *)
(* ceiling from the caller is not.  The allowance has a floor.             *)
resolve_host_memory_budget(t) ==
  LET live == {_read_cgroup_v2_memory(t.v2), _read_cgroup_v1_memory(t.v1), t.os} \ {None}
      raw == IF t.c.ram # None THEN t.c.ram ELSE Min(live)
      reserve == IF t.reserve # None THEN t.reserve ELSE _default_reserve(raw)
  IN [allowed |-> Larger(Floor, raw - reserve), live |-> t.c.ram = None]

resolve_device_memory_budget(total, free, headroom) ==
  Larger(0, (IF free # None THEN free ELSE (total * 9) \div 10) - headroom)

-----------------------------------------------------------------------------
(* runtime/capacity.py *)

DeviceBudget(t) ==
  LET headroom(m) == IF m.virtual THEN 0
                     ELSE IF t.headroom # None THEN t.headroom
                     ELSE IF m.display THEN Display ELSE Headless
  IN IF t.c.vram # None THEN t.c.vram
     ELSE MapThenSumSet(LAMBDA m : resolve_device_memory_budget(m.total, m.free, headroom(m)), t.vram)

resolve_capacity_budgets(t) ==
  [host |-> resolve_host_memory_budget(t).allowed,
   device |-> DeviceBudget(t),
   disk |-> IF t.spill # None THEN t.spill
            ELSE IF t.c.activation # None THEN SpillDefault ELSE 0]

Streaming(t) ==
  CASE t.store = "export_free" -> FALSE
    [] t.store = "none" -> needs_parameter_streaming(t.c, t.state)
    [] OTHER -> t.store = "streaming"

_resident_device_parameter_bytes(t) ==
  LET budget == accelerator_hoist_budget_bytes(t.c, {m.free : m \in t.vram})
  IN IF Streaming(t) \/ t.cpu_only \/ t.state = 0 THEN 0
     ELSE IF budget = None THEN IF t.c.training THEN 0 ELSE t.state
     ELSE Smaller(t.state, budget)

(* The bytes of the current region and those prefetched behind it.         *)
Window(t) ==
  LET cap == IF t.c.ram # None THEN streaming_region_budget(t.c, t.state) ELSE None
  IN (IF cap # None THEN cap ELSE t.region) * (1 + t.c.prefetch)

estimate_request_capacity(t) ==
  LET resident == _resident_device_parameter_bytes(t)
      own == Larger(t.activations, Larger(0, t.host_peak - t.state))
      host == IF Streaming(t) THEN Larger(own, Window(t)) ELSE own
      device == IF t.cpu_only THEN 0
                ELSE IF resident > 0 THEN Larger(t.activations, Larger(0, t.device_peak - resident))
                ELSE IF t.device_peak = 0 THEN t.activations ELSE t.device_peak
      disk == IF t.c.activation = None THEN 0 ELSE Larger(t.activations, t.c.activation \div 8)
  IN [host |-> IF host + device + disk = 0 THEN 1 ELSE host, device |-> device, disk |-> disk]

Base(t) ==
  [host |-> IF Streaming(t) \/ resolve_host_memory_budget(t).live THEN 0 ELSE t.state,
   device |-> _resident_device_parameter_bytes(t), disk |-> 0]

Kinds == {"host", "device", "disk"}

(* Mutant: the shared parameters are not deducted.                         *)
WholeBudget(t) == resolve_capacity_budgets(t)

(* What CapacityLedger leaves for in-flight forwards.                      *)
Remaining(t) == [k \in Kinds |-> resolve_capacity_budgets(t)[k] - Base(t)[k]]

(* build_module_capacity_ledger: no ledger when the shared reservation     *)
(* alone is over a budget.                                                 *)
Buildable(t) == \A k \in Kinds : Base(t)[k] <= resolve_capacity_budgets(t)[k]
NewLedger(t) == [budget |-> Remaining(t), need |-> estimate_request_capacity(t),
                 used |-> [k \in Kinds |-> 0], inflight |-> 0]

(* Mutant: the limit of the most generous resource.                        *)
LoosestLimit(l) ==
  LET limits == {l.budget[k] \div l.need[k] : k \in {j \in Kinds : l.need[j] > 0}}
  IN Larger(0, Max(limits))

max_concurrent(l) ==
  LET limits == {l.budget[k] \div l.need[k] : k \in {j \in Kinds : l.need[j] > 0}}
  IN Larger(0, Min(limits))

try_acquire(l) ==
  \A k \in Kinds : (k # "host" /\ l.need[k] = 0) \/ l.used[k] + l.need[k] <= l.budget[k]

Charge(l, sign) ==
  [l EXCEPT !.used = [k \in Kinds |-> l.used[k] + sign * l.need[k]], !.inflight = @ + sign]

-----------------------------------------------------------------------------
Current == Len(ledgers)

(* CompiledModule.__init__ *)
Build ==
  /\ pc = "build"
  /\ IF Buildable(s) THEN pc' = "ready" /\ ledgers' = <<NewLedger(s)>>
     ELSE pc' = "failed" /\ UNCHANGED ledgers
  /\ UNCHANGED <<s, published, lease>>

(* ModelManager.load: refused for a ledger that admits nothing.            *)
Load ==
  /\ pc = "ready" /\ published = 0
  /\ max_concurrent(ledgers[Current]) >= 1
  /\ published' = Smaller(s.limit, max_concurrent(ledgers[Current]))
  /\ UNCHANGED <<s, ledgers, lease, pc>>

InFlight == {f \in Forwards : lease[f] # 0}

(* execute_request: the ledger is taken together with the generation, or   *)
(* the forward is turned away as backpressure ...                          *)
Acquire(f) ==
  /\ pc = "ready" /\ lease[f] = 0
  /\ published = 0 \/ Cardinality(InFlight) < published
  /\ IF try_acquire(ledgers[Current])
     THEN /\ ledgers' = [ledgers EXCEPT ![Current] = Charge(@, 1)]
          /\ lease' = [lease EXCEPT ![f] = Current]
     ELSE UNCHANGED <<ledgers, lease>>
  /\ UNCHANGED <<s, published, pc>>

(* ... and released to the ledger it was taken from.                       *)
Release(f) ==
  /\ lease[f] # 0
  /\ ledgers' = [ledgers EXCEPT ![lease[f]] = Charge(@, -1)]
  /\ lease' = [lease EXCEPT ![f] = 0]
  /\ UNCHANGED <<s, published, pc>>

Failed == pc = "failed" /\ UNCHANGED vars

(* CompiledModule.replan: a new ledger, of the same configuration.         *)
Replan ==
  /\ pc = "ready" /\ Current <= MaxReplans
  /\ ledgers' = Append(ledgers, NewLedger(s))
  /\ UNCHANGED <<s, published, lease, pc>>

-----------------------------------------------------------------------------
Init ==
  /\ s \in Settings
  /\ ledgers = <<>> /\ published = 0 /\ pc = "build"
  /\ lease = [f \in Forwards |-> 0]

Next == Build \/ Load \/ Replan \/ Failed \/ \E f \in Forwards : Acquire(f) \/ Release(f)
Spec == Init /\ [][Next]_vars

-----------------------------------------------------------------------------
(* "simultaneous requests cannot each assume the entire host/device/disk   *)
(* budget is available independently": what the forwards of a generation   *)
(* in flight need and the shared parameters together stay within the       *)
(* budgets the configuration resolves to, replans in between included.     *)
NeverOvercommitted ==
  pc = "ready" => \A g \in DOMAIN ledgers, k \in Kinds :
    Base(s)[k] + estimate_request_capacity(s)[k] * Cardinality({f \in Forwards : lease[f] = g})
      <= resolve_capacity_budgets(s)[k]

(* The concurrency a served model was clamped to is one its ledger honours *)
(* in every resource: a forward within it is never turned away.            *)
WithinLimitAdmitted ==
  published > Cardinality(InFlight) => try_acquire(ledgers[Current])
=============================================================================
