----------------------------- MODULE MCServing -----------------------------
(* The serving stack: the inference service with its model manager, the    *)
(* HTTP front end, and the capacity ledger that admits forwards.  part     *)
(* says which of them a behaviour is about; the others stay where they     *)
(* start.                                                                  *)
EXTENDS InferenceService, TLC

CONSTANTS Connections, Forwards

VARIABLES part,
  up, hstarts, permits, gen, at, req, code, wire, stalled,
  s, ledgers, published, lease, cpc

httpVars == <<up, hstarts, permits, gen, at, req, code, wire, stalled>>
capacityVars == <<s, ledgers, published, lease, cpc>>

ServiceSymmetry == Permutations(Requests) \cup Permutations(Rids)

-----------------------------------------------------------------------------
(* Every route of the server, with and without authentication, bodies that *)
(* are missing, too large, slow and invalid, and each outcome of a forward.*)
Sent(p, g, a, b, v, x) == [path |-> p, get |-> g, auth |-> a, body |-> b, valid |-> v, result |-> x]
HttpRequests ==
  {Sent("ready", TRUE, FALSE, "unsized", FALSE, x) : x \in {"ok", "no"}}
  \cup {Sent("metrics", TRUE, a, "unsized", FALSE, "ok") : a \in BOOLEAN}
  \cup {Sent("infer", FALSE, TRUE, b, FALSE, "ok") : b \in {"unsized", "large", "slow", "whole"}}
  \cup {Sent("infer", FALSE, TRUE, "whole", TRUE, x) : x \in {"ok", "huge", "cancelled", "refused"}}
  \cup {Sent("cancel", FALSE, TRUE, "whole", TRUE, "no"), Sent("other", FALSE, TRUE, "whole", TRUE, "ok")}

H == INSTANCE HttpServer WITH
       Requests <- HttpRequests, MaxConnections <- 1, MaxStarts <- 2, starts <- hstarts

ASSUME H!HttpAssumption

-----------------------------------------------------------------------------
(* Budgets in units of 64 MiB: configured and default, below and above the *)
(* floor and the model, on machines without, with one and with two         *)
(* accelerators, under a container limit or none.                          *)
Cfg(ram, vram, act) ==
  [cpu |-> TRUE, gpu |-> TRUE, training |-> FALSE, streaming |-> TRUE, ram |-> ram, vram |-> vram,
   activation |-> act, prefetch |-> 1, concurrent |-> FALSE, workers |-> 0]
Gpu(n, f, d) == [id |-> n, total |-> 48, free |-> f, display |-> d, virtual |-> FALSE]
CapacitySettings ==
  {[c |-> Cfg(ram, vram, act), reserve |-> res, headroom |-> None, spill |-> None,
    v2 |-> [max |-> mx, high |-> None, current |-> 8], v1 |-> [limit |-> None, usage |-> 0], os |-> 64,
    vram |-> gpus, state |-> st, store |-> IF ram # None /\ st > ram THEN "streaming" ELSE "resident",
    cpu_only |-> gpus = {}, host_peak |-> st + hp, device_peak |-> dp, activations |-> ac,
    region |-> 2, limit |-> 4] :
     ram \in {None, 2, 16, 40}, vram \in {None, 24}, act \in {None, 8}, res \in {None, 0}, mx \in {None, 40},
     gpus \in {{}, {Gpu(1, 30, TRUE)}, {Gpu(1, 40, FALSE), Gpu(2, 20, FALSE)}},
     st \in {8, 36}, hp \in {0, 6}, dp \in {0, 30}, ac \in {0, 3}}

L == INSTANCE Capacity WITH
       Settings <- CapacitySettings, Floor <- 2, ReserveMin <- 4, ReserveMax <- 32, Display <- 12,
       Headless <- 4, SpillDefault <- 16, SafetyFloor <- 4, MaxReplans <- 1, pc <- cpc

-----------------------------------------------------------------------------
MCInit ==
  /\ part \in {"service", "http", "capacity"}
  /\ ServiceInit
  /\ IF part = "http" THEN H!Init
     ELSE /\ up = 0 /\ hstarts = 0 /\ permits = 0 /\ gen = 0 /\ at = 0
          /\ req = 0 /\ code = 0 /\ wire = 0 /\ stalled = 0
  /\ IF part = "capacity" THEN L!Init
     ELSE s = 0 /\ ledgers = 0 /\ published = 0 /\ lease = 0 /\ cpc = 0

MCNext ==
  \/ part = "service" /\ ServiceNext /\ UNCHANGED <<part, httpVars, capacityVars>>
  \/ part = "http" /\ H!Next /\ UNCHANGED <<part, serviceVars, capacityVars>>
  \/ part = "capacity" /\ L!Next /\ UNCHANGED <<part, serviceVars, httpVars>>

MCSpec == MCInit /\ [][MCNext]_<<part, serviceVars, httpVars, capacityVars>>

(* HttpServer: the permits of a server are those of its open connections,  *)
(* and a client gets one answer.                                           *)
HttpExact == part = "http" => H!HttpExact

(* Capacity: forwards admitted together fit the budgets, and a forward     *)
(* within the published concurrency is admitted.                           *)
CapacityExact == part = "capacity" => L!NeverOvercommitted /\ L!WithinLimitAdmitted
=============================================================================
