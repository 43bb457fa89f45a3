------------------------------ MODULE MCMemory ------------------------------
(***************************************************************************)
(* Where the bytes of a model are: the residency store of one executor,    *)
(* its Python mirror, the placed copies and waves of the direct path, the  *)
(* spill files of its activations, and the chunk cache.  part says which   *)
(* of them a behaviour is about; the others stay where they start.         *)
(*                                                                         *)
(* p1 and p2 name whatever there are two of that take steps - threads,     *)
(* processes, forwards - and n1 and n2 allocations and run directories, so *)
(* one symmetry serves all parts.                                          *)
(***************************************************************************)
EXTENDS ResidencyStore, TLC

CONSTANTS p1, p2, n1, n2, gpu, gpu2, cpu, localhost, numa1, staging, disk, k1, k2, k3, NoHandle

VARIABLES part,
  up, swept, run, failed, value, step, spills, live, fs, orphaned,
  map, order, generation, cached_bytes,
  role, origin, ctx, syncs, drops, gone,
  program, plan, source, copy, updates, failures, dpc, local, wave, st, values

spillVars == <<up, swept, run, failed, value, step, spills, live, fs, orphaned>>
cacheVars == <<map, order, generation, cached_bytes>>
mirrorVars == <<role, origin, ctx, syncs, drops, gone>>
directVars == <<program, plan, source, copy, updates, failures, dpc, local, wave, st, values>>

Symmetry == Permutations({p1, p2}) \cup Permutations({n1, n2}) \cup Permutations({k2, k3})

(* gpu has a ceiling one large allocation fills; cpu has none.             *)
LimitDef == gpu :> 2

(* Three activations of one and two bytes.  The budget admits one large    *)
(* one; all three together exceed it by more than one of them.             *)
A == INSTANCE ActivationSpill WITH
       Procs <- {p1, p2}, Tensors <- {k1, k2, k3}, Runs <- {n1, n2}, Size <- (k1 :> 1) @@ (k2 :> 2) @@ (k3 :> 2),
       Budget <- 2, IoWorkers <- 2

(* Three chunks of one and two bytes in a cache of three.                  *)
C == INSTANCE ChunkCache WITH
       Keys <- {k1, k2, k3}, Size <- (k1 :> 2) @@ (k2 :> 1) @@ (k3 :> 1), Capacity <- 3, DenseLimit <- 1,
       CompactFloor <- 3, MaxGeneration <- 7, MaxRefs <- 2, live_bytes <- cached_bytes

ASSUME A!SizeAssumption /\ A!BudgetAssumption /\ C!CacheAssumption

M == INSTANCE TensorMirror WITH
       HostName <- cpu, Synonyms <- {localhost}, Numa <- {numa1}, Staging <- staging, Devices <- {gpu, gpu2},
       Disk <- disk, MaxHandles <- 6

(* Programs of the direct path: a diamond over two devices, a wide one     *)
(* whose first output is also an output of the program, a single region.   *)
Reg(i, d, ins, outs) == [id |-> i, dev |-> d, ins |-> ins, outs |-> outs]
In(o, r, deps) == [op |-> o, region |-> r, deps |-> deps]
Diamond ==
  [inputs |-> {"x"}, outputs |-> {"y"},
   regions |-> <<Reg("a", "cuda", {"x"}, {"va"}), Reg("b", "cpu", {"va"}, {"vb"}),
                 Reg("c", "cuda", {"va"}, {"vc"}), Reg("d", "cpu", {"va", "vb", "vc"}, {"y"})>>,
   insts |-> <<In("Compute", "a", {}), In("Transfer", "t", {1}), In("Event", "e", {2}), In("Compute", "b", {3}),
               In("Compute", "c", {1}), In("Transfer", "t", {5}), In("Compute", "d", {4, 6})>>]
Wide ==
  [inputs |-> {"x", "z"}, outputs |-> {"va", "y"},
   regions |-> <<Reg("a", "cpu", {"x"}, {"va"}), Reg("b", "cpu", {"z"}, {"vb"}),
                 Reg("c", "cuda", {"x"}, {"vc"}), Reg("d", "cuda", {"vb", "vc"}, {"y"})>>,
   insts |-> <<In("Compute", "a", {}), In("Compute", "b", {}), In("Compute", "c", {}), In("Transfer", "t", {2}),
               In("Compute", "d", {3, 4})>>]
Single ==
  [inputs |-> {"x"}, outputs |-> {"y"}, regions |-> <<Reg("a", "cuda", {"x"}, {"y", "w"})>>,
   insts |-> <<In("Compute", "a", {})>>]

D == INSTANCE DirectPath WITH
       Programs <- {Diamond, Wide, Single}, Forwards <- {p1, p2}, MaxUpdates <- 2, MaxFailures <- 1,
       p <- program, pc <- dpc

-----------------------------------------------------------------------------
MCInit ==
  /\ part \in {"store", "spill", "cache", "mirror", "direct"}
  /\ Init /\ C!Init
  /\ IF part = "spill" THEN A!Init
     ELSE /\ up = 0 /\ swept = 0 /\ run = 0 /\ failed = 0 /\ value = 0 /\ step = 0 /\ spills = 0
          /\ live = 0 /\ fs = 0 /\ orphaned = 0
  /\ IF part = "mirror" THEN M!Init
     ELSE /\ role = 0 /\ origin = 0 /\ ctx = 0 /\ syncs = 0 /\ drops = 0 /\ gone = 0
  /\ IF part = "direct" THEN D!Init
     ELSE /\ program = 0 /\ plan = 0 /\ source = 0 /\ copy = 0 /\ updates = 0 /\ failures = 0 /\ dpc = 0
          /\ local = 0 /\ wave = 0 /\ st = 0 /\ values = 0

MCNext ==
  \/ /\ part = "store" /\ Next
     /\ UNCHANGED <<part, spillVars, cacheVars, mirrorVars, directVars>>
  \/ /\ part = "spill" /\ A!Next
     /\ UNCHANGED <<part, vars, cacheVars, mirrorVars, directVars>>
  \/ /\ part = "cache" /\ C!Next
     /\ UNCHANGED <<part, vars, spillVars, mirrorVars, directVars>>
  \/ /\ part = "mirror" /\ M!Next
     /\ UNCHANGED <<part, vars, spillVars, cacheVars, directVars>>
  \/ /\ part = "direct" /\ D!Next
     /\ UNCHANGED <<part, vars, spillVars, cacheVars, mirrorVars>>
  \/ part \in {"cache", "mirror"} /\ UNCHANGED <<part, vars, spillVars, cacheVars, mirrorVars, directVars>>

MCSpec == MCInit /\ [][MCNext]_<<part, vars, spillVars, cacheVars, mirrorVars, directVars>>

-----------------------------------------------------------------------------
(* ActivationSpill: the spill budget is overshot by less than one spill    *)
(* per I/O worker, every activation of a forward can be recovered, and no  *)
(* file outlives its forward, crashes excepted.                            *)
SpillsAccounted == part = "spill" => A!OvershootBounded /\ A!Recoverable /\ A!NothingOutlivesItsForward

(* ActivationSpill: a sweep touches no directory of a forward in progress. *)
SweepSparesForwards == [][part = "spill" => A!SweepSpares]_spillVars

(* ChunkCache: each entry has exactly one current pair in the recency      *)
(* queue, and live_bytes is the size of what is cached.                    *)
RecencyQueueExact == C!EveryEntryQueuedOnce

(* ChunkCache: the cache keeps the promises of LeaseCache.                 *)
ImplementsLeaseCache == C!ImplementsLeaseCache

(* TensorMirror: what the native session believes resident, Python can     *)
(* produce; Python holds no value that nobody will release; activations,   *)
(* and only they, count against the activation budget.                     *)
MirrorAgrees == part = "mirror" => M!HandlesResolve /\ M!NoOrphanValue /\ M!ActivationBytesExact

(* DirectPath: a region finds its inputs, and a forward that has returned  *)
(* or raised leaves no region behind.                                      *)
WavesSound == part = "direct" => D!InputsPresent /\ D!NothingOutlivesForward
=============================================================================
