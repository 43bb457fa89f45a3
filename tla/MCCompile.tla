----------------------------- MODULE MCCompile -----------------------------
(***************************************************************************)
(* A compile, from the exported graph to the saved bundle: partitioning,   *)
(* linear sharding and buffer planning of the lowering, the race of        *)
(* lowerings in the pipeline, the choice of a plan for the machine, the    *)
(* schedule and every order it may run in, the pack file and the bundle.   *)
(* part says which of them a behaviour is about; the others do nothing.    *)
(***************************************************************************)
EXTENDS MCScheduleRun

CONSTANTS p1, p2, la, lb, NoLayer, Unbounded, None, w1, w2, b1, b2, b3, s1, s2, r1

VARIABLES part,
  graph, next, partition, opened, tail, size, billed, layer,
  nodes, pos, cache, rewritten, attrs, payload, lost, turn,
  flow, bytes, ran, buffer, damaged,
  req, pc, cur, spec, guard, timed, disk, built,
  job, zpc, znext, variants, pages, outcomes, failures, simulated, zplan, compiled,
  bpc, step, lock, dest, stage, backup, left, packs, seen, saves, replaced, crashed, published,
  lpc, tensors, align, attempt, reserve, offsets, written, file

partVars == <<graph, next, partition, opened, tail, size, billed, layer>>
shardVars == <<nodes, pos, cache, rewritten, attrs, payload, lost, turn>>
reuseVars == <<flow, bytes, ran, buffer, damaged>>
pipeVars == <<req, pc, cur, spec, guard, timed, disk, built>>
specVars == <<job, zpc, znext, variants, pages, outcomes, failures, simulated, zplan, compiled>>
bundleVars == <<bpc, step, lock, dest, stage, backup, left, packs, seen, saves, replaced,
                crashed, published>>
packVars == <<lpc, tensors, align, attempt, reserve, offsets, written, file>>

-----------------------------------------------------------------------------
(* Graphs of four nodes over two parameters, with and without block names, *)
(* with and without a cap on the bytes of a region.                        *)
P == INSTANCE RegionPartition WITH
       N <- 4, Parameters <- {p1, p2}, Bytes <- (p1 :> 1) @@ (p2 :> 2),
       LayerNames <- {(p1 :> la) @@ (p2 :> lb), (p1 :> NoLayer) @@ (p2 :> NoLayer)},
       NodeCaps <- {2}, StateCaps <- {2, Unbounded}, Returned <- {{}, {1}}, OutBytes <- 2, InBytes <- 1

ASSUME P!GraphAssumption

(* Three linear nodes over two weights and three biases, tied in any way;  *)
(* the cap splits the larger weight unevenly.                              *)
S == INSTANCE LinearSharding WITH
       Weights <- {w1, w2}, Biases <- {b1, b2, b3},
       Rows <- (w1 :> 5) @@ (w2 :> 3) @@ (b1 :> 5) @@ (b2 :> 5) @@ (b3 :> 3),
       WeightRow <- 2, BiasRow <- 1, Cap <- 7, MaxShards <- 4, Uses <- 3

(* Four regions with outputs of two sizes and any data flow.               *)
U == INSTANCE BufferReuse WITH Count <- 4, Sizes <- {1, 2}

-----------------------------------------------------------------------------
(* Compile calls for models below, near and above the host and the         *)
(* accelerator budget.  Timings: two within each other's noise margin, one *)
(* at the edge of it, one beyond.                                          *)
Configs ==
  {[cpu |-> d.cpu, gpu |-> d.gpu, training |-> t, streaming |-> TRUE, ram |-> ram, vram |-> vram,
    activation |-> None, prefetch |-> 1, concurrent |-> w.c, workers |-> w.w] :
     d \in {[cpu |-> TRUE, gpu |-> FALSE], [cpu |-> FALSE, gpu |-> TRUE], [cpu |-> TRUE, gpu |-> TRUE]},
     t \in BOOLEAN, ram \in {None, 6}, vram \in {None, 8},
     w \in {[c |-> FALSE, w |-> 0], [c |-> TRUE, w |-> 0], [c |-> TRUE, w |-> 2]}}
Requests ==
  [c : Configs, machine : {{}, {10}}, host : {[ram |-> 10, disk |-> 10]}, named : BOOLEAN,
   params : {4, 9, 12}, atom : {2}, shape : {"one", "chain", "wide", "fine"},
   eager : BOOLEAN, examples : BOOLEAN, bundle : BOOLEAN]

C == INSTANCE CompilePipeline WITH
       Requests <- Requests, Times <- {100, 101, 108, 160}, PerByte <- 20, Inf <- 10000, SafetyFloor <- 1

-----------------------------------------------------------------------------
(* Specialisations with one to three finalists, requested prefetch on and  *)
(* off, RAM for few or many working sets, pinned staging or not, regions   *)
(* without kernels, and each overlap hint.                                 *)
Finalist(hide, rank) == [hide |-> hide, rank |-> rank]
Plain == [allow |-> TRUE, forced |-> 0, inputs |-> TRUE, cpu |-> 4, accel |-> 0, width |-> 3, threads |-> 4]
Overlaps ==
  {Plain, [Plain EXCEPT !.allow = FALSE], [Plain EXCEPT !.forced = 2], [Plain EXCEPT !.inputs = FALSE],
   [Plain EXCEPT !.accel = 1], [Plain EXCEPT !.width = 1], [Plain EXCEPT !.cpu = 0, !.accel = 1]}
Job(finalists, des, requested, adaptive, slots, streaming, staged, memory) ==
  [finalists |-> finalists, des |-> des, requested |-> requested, adaptive |-> adaptive, slots |-> slots,
   streaming |-> streaming, staged |-> staged, memory |-> memory, kernels |-> TRUE, regions |-> {"r1"},
   host |-> {"r1"}, overlap |-> Plain]
Pair == Job(<<Finalist(1, 1), Finalist(1, 2)>>, 2, 1, TRUE, 3, FALSE, TRUE, FALSE)
Jobs ==
  {Job(<<Finalist(2, 1)>>, 1, 1, adaptive, 3, TRUE, staged, FALSE) : staged, adaptive \in BOOLEAN}
  \cup {Job(<<Finalist(1, 2), Finalist(2, 1)>>, 2, 1, TRUE, 2, TRUE, TRUE, FALSE),
        Job(<<Finalist(2, 2), Finalist(1, 1)>>, 2, 1, TRUE, 3, TRUE, FALSE, FALSE)}
  \cup {Job(<<Finalist(1, 1), Finalist(0, 2), Finalist(1, 3)>>, 2, requested, TRUE, 2, TRUE, TRUE, memory) :
          requested \in 0 .. 1, memory \in BOOLEAN}
  \cup {Job(<<>>, 2, 1, TRUE, 2, TRUE, TRUE, FALSE)}
  \cup {[Pair EXCEPT !.overlap = o, !.regions = r] : o \in Overlaps, r \in {{}, {"r1"}}}
  \cup {[Pair EXCEPT !.host = {"r1", "r2"}, !.regions = {"r1", "r2", "g"}, !.kernels = k1] : k1 \in BOOLEAN}

Z == INSTANCE Specialize WITH
       Jobs <- Jobs, MaxDistance <- 8, MaxBuildFailures <- 1, pc <- zpc, next <- znext, plan <- zplan

-----------------------------------------------------------------------------
(* Two models saved to one bundle, streamed from packs of one name.        *)
B == INSTANCE ArtifactStore WITH
       Writers <- {s1, s2}, Loaders <- {r1}, Streaming <- {s1, s2}, Shared <- TRUE, MaxSaves <- 2, pc <- bpc

(* Manifest entries that leave the first estimate of the header exact, too *)
(* small by a little and too small by more than one alignment.             *)
L == INSTANCE PackLayout WITH
       Sizes <- {0, 1, 100}, EntryBytes <- {310, 1340, 1500}, Alignments <- {1, 64, 4096}, MaxTensors <- 3,
       pc <- lpc

-----------------------------------------------------------------------------
MCInit ==
  /\ part \in {"schedule", "partition", "sharding", "reuse", "pipeline", "specialize", "bundle", "pack"}
  /\ IF part = "schedule" THEN Init
     ELSE /\ prog = 0 /\ phase = 0 /\ at = 0 /\ sched = 0 /\ plan = 0 /\ done = 0 /\ copies = 0
          /\ leases = 0 /\ files = 0 /\ fault = 0
  /\ IF part = "partition" THEN P!Init
     ELSE /\ graph = 0 /\ next = 0 /\ partition = 0 /\ opened = 0 /\ tail = 0 /\ size = 0
          /\ billed = 0 /\ layer = 0
  /\ IF part = "sharding" THEN S!Init
     ELSE /\ nodes = 0 /\ pos = 0 /\ cache = 0 /\ rewritten = 0 /\ attrs = 0 /\ payload = 0
          /\ lost = 0 /\ turn = 0
  /\ IF part = "reuse" THEN U!Init
     ELSE /\ flow = 0 /\ bytes = 0 /\ ran = 0 /\ buffer = 0 /\ damaged = 0
  /\ IF part = "pipeline" THEN C!Init
     ELSE /\ req = 0 /\ pc = 0 /\ cur = 0 /\ spec = 0 /\ guard = 0 /\ timed = 0 /\ disk = 0
          /\ built = 0
  /\ IF part = "specialize" THEN Z!Init
     ELSE /\ job = 0 /\ zpc = 0 /\ znext = 0 /\ variants = 0 /\ pages = 0 /\ outcomes = 0
          /\ failures = 0 /\ simulated = 0 /\ zplan = 0 /\ compiled = 0
  /\ IF part = "bundle" THEN B!Init
     ELSE /\ bpc = 0 /\ step = 0 /\ lock = 0 /\ dest = 0 /\ stage = 0 /\ backup = 0 /\ left = 0
          /\ packs = 0 /\ seen = 0 /\ saves = 0 /\ replaced = 0 /\ crashed = 0 /\ published = 0
  /\ IF part = "pack" THEN L!Init
     ELSE /\ lpc = 0 /\ tensors = 0 /\ align = 0 /\ attempt = 0 /\ reserve = 0 /\ offsets = 0
          /\ written = 0 /\ file = 0

MCNext ==
  \/ /\ part = "schedule" /\ Next
     /\ UNCHANGED <<part, partVars, shardVars, reuseVars, pipeVars, specVars, bundleVars, packVars>>
  \/ /\ part = "partition" /\ P!Next
     /\ UNCHANGED <<part, vars, shardVars, reuseVars, pipeVars, specVars, bundleVars, packVars>>
  \/ /\ part = "sharding" /\ S!Next
     /\ UNCHANGED <<part, vars, partVars, reuseVars, pipeVars, specVars, bundleVars, packVars>>
  \/ /\ part = "reuse" /\ U!Next
     /\ UNCHANGED <<part, vars, partVars, shardVars, pipeVars, specVars, bundleVars, packVars>>
  \/ /\ part = "pipeline" /\ C!Next
     /\ UNCHANGED <<part, vars, partVars, shardVars, reuseVars, specVars, bundleVars, packVars>>
  \/ /\ part = "specialize" /\ Z!Next
     /\ UNCHANGED <<part, vars, partVars, shardVars, reuseVars, pipeVars, bundleVars, packVars>>
  \/ /\ part = "bundle" /\ B!Next
     /\ UNCHANGED <<part, vars, partVars, shardVars, reuseVars, pipeVars, specVars, packVars>>
  \/ /\ part = "pack" /\ L!Next
     /\ UNCHANGED <<part, vars, partVars, shardVars, reuseVars, pipeVars, specVars, bundleVars>>
  \/ /\ part \in {"partition", "sharding", "reuse", "bundle", "pack"}      \* may have ended
     /\ UNCHANGED <<part, vars, partVars, shardVars, reuseVars, pipeVars, specVars, bundleVars, packVars>>

MCSpec == MCInit /\ [][MCNext]_<<part, vars, partVars, shardVars, reuseVars, pipeVars, specVars, bundleVars, packVars>>

-----------------------------------------------------------------------------
(* ScheduleRun: the builder's schedules pass its validator, no order the   *)
(* dependencies allow misses a copy, a finished forward keeps its outputs  *)
(* and nothing else, and staging holds one working set at a time.          *)
ScheduleSound == part = "schedule" => Accepted /\ NoMissingCopy /\ FinishesClean /\ StagingBounded

(* RegionPartition: regions run in data-flow order and fit the state cap,  *)
(* blocks stay apart, a level's regions are independent, and the estimate  *)
(* of the activation peak falls short by the user input at most.           *)
PartitionSound ==
  part = "partition" => /\ P!InputsAreProduced /\ P!RegionsFitStateCap /\ P!LayersNeverMerge
                        /\ P!LevelsIndependent /\ P!PeakBounded

(* LinearSharding: sharding and restoring is the identity on parameters    *)
(* and a partial restore drops no row.  BufferReuse: in program order no   *)
(* live activation is overwritten.                                         *)
RewritesSound ==
  /\ part = "sharding" => S!ShardingRoundTrips /\ S!RestorationLosesNothing
  /\ part = "reuse" => U!ReuseSafeInProgramOrder

(* CompilePipeline: the bundle holds what compile returns, no candidate    *)
(* loses to a slower one, and a fused lowering fits the accelerator.       *)
CompileSound == part = "pipeline" => C!SavedIsReturned /\ C!BestTimedWins /\ C!FusedFitsAccelerator

(* Specialize: the plan returned is the simulator's winner, pinned staging *)
(* that was refused is retried pageable, finalists share the simulation    *)
(* slots, and a disabled prefetch stays disabled.                          *)
SelectionSound ==
  part = "specialize" => /\ Z!ReturnedPlanIsTheWinner /\ Z!RefusedPinnedIsRetried
                         /\ Z!SlotsAreShared /\ Z!DisabledStaysDisabled

(* ArtifactStore: a published bundle is never lost, whichever step of a    *)
(* later save fails or dies, and a load is refused only when the bundle    *)
(* was replaced under it.  PackLayout: a pack that was written loads, its  *)
(* blocks disjoint.                                                        *)
SavedLoads ==
  /\ part = "bundle" => B!BundleSurvives /\ B!RejectedOnlyIfReplaced
  /\ part = "pack" => L!WrittenPackLoads
=============================================================================
