-------------------------- MODULE RegionPartition --------------------------
(***************************************************************************)
(* How an exported graph becomes a program of regions.                     *)
(*                                                                         *)
(* python/tensortorrent/compile/regions.py walks the compute nodes of an   *)
(* FX graph once, in graph order, and appends each one to the region of    *)
(* its producer or opens a new region (assign_partitions).  The split      *)
(* graph then gives every region its inputs, outputs, state and            *)
(* dependencies (build_region_program), compile/concurrency.py groups the  *)
(* regions by dependency depth, compile/measure.py runs them one after the *)
(* other to capture their inputs, and the program estimates the peak of    *)
(* its live activations.                                                   *)
(*                                                                         *)
(* A node is its position in the graph.  Operators, shapes and dtypes are  *)
(* abstracted to what the walk looks at: producers, the get_attr           *)
(* parameters read, their sizes and the repeating block they belong to,    *)
(* and whether the node indexes a multi-value producer.                    *)
(***************************************************************************)
EXTENDS Integers, FiniteSets, FiniteSetsExt

CONSTANTS
  N,          \* compute nodes of the graph
  Parameters,     \* parameters, one get_attr each
  Bytes,      \* their sizes
  LayerNames, \* ways to name them: parameter -> repeating block, or NoLayer
  NodeCaps,   \* values of max_region_nodes
  StateCaps,  \* values of max_region_state_bytes
  Returned,   \* sets of inner nodes a graph may also return
  OutBytes,   \* size of the value a node produces
  InBytes,    \* size of the user input
  NoLayer, Unbounded, None

GraphAssumption ==
  /\ N \in Nat \ {0}
  /\ NodeCaps \subseteq Nat \ {0}
  /\ Bytes \in [Parameters -> Nat]
  /\ Unbounded \notin Nat

Nodes == 1 .. N

VARIABLES
  graph,      \* the graph and the limits, fixed by Init
  next,       \* node the walk looks at
  partition,  \* node -> region
  opened,     \* regions opened so far (next_id)
  tail,       \* region -> its last node
  size,       \* region -> nodes in it
  billed,     \* region -> parameters charged to it
  layer       \* region -> repeating block, or NoLayer

vars == <<graph, next, partition, opened, tail, size, billed, layer>>

----------------------------------------------------------------------------
(* The exported graph.  It is in topological order, and a getitem node     *)
(* indexes exactly one producer and reads no parameter.                    *)

Topologies ==
  {f \in [Nodes -> SUBSET (1 .. (N - 1))] : \A n \in Nodes : f[n] \subseteq 1 .. (n - 1)}

Sinks(ins) == {n \in Nodes : \A m \in Nodes : n \notin ins[m]}

ExportedGraph(g) ==
  \E ins \in Topologies, attrs \in [Nodes -> SUBSET Parameters] :
  \E getitem \in SUBSET {n \in Nodes : Cardinality(ins[n]) = 1 /\ attrs[n] = {}} :
  \E more \in Returned, nodeCap \in NodeCaps, stateCap \in StateCaps, layerOf \in LayerNames :
  \E single \in {s \in BOOLEAN : s => stateCap = Unbounded} :
    g = [ins |-> ins, attrs |-> attrs, getitem |-> getitem, returned |-> Sinks(ins) \cup more,
         nodeCap |-> nodeCap, stateCap |-> stateCap,
         layerOf |-> layerOf, single |-> single]

Users(n) == {m \in Nodes : n \in graph.ins[m]}

(* The output node is a user too. *)
OnlyUser(p, n) == Users(p) = {n} /\ p \notin graph.returned

SizeOf(ps) == MapThenSumSet(LAMBDA p : Bytes[p], ps)

(* layer_group_key over the parameters a node reads: a block only when they *)
(* all belong to the same one.                                              *)
NodeLayer(n) ==
  LET keys == {graph.layerOf[p] : p \in graph.attrs[n]} \ {NoLayer}
  IN  IF Cardinality(keys) = 1 THEN CHOOSE k \in keys : TRUE ELSE NoLayer

----------------------------------------------------------------------------
(* assign_partitions *)

Only(s) == CHOOSE x \in s : TRUE

(* Mutant: the region of the first producer, whatever the others are. *)
FirstProducerRegion(n) == IF graph.ins[n] # {} THEN partition[Min(graph.ins[n])] ELSE None

(* The region of the single producer, if the node has exactly one. *)
ProducerRegion(n) ==
  IF Cardinality(graph.ins[n]) = 1 THEN partition[Only(graph.ins[n])] ELSE None

(* A node without a block of its own takes its producer region's. *)
LayerKey(n) ==
  IF NodeLayer(n) = NoLayer /\ ProducerRegion(n) # None
  THEN layer[ProducerRegion(n)]
  ELSE NodeLayer(n)

SizeOK(n, r) ==
  size[r] < graph.nodeCap \/ (LayerKey(n) # NoLayer /\ layer[r] = LayerKey(n))

(* Mutant: the node is measured against the cap alone. *)
FitsAlone(n, r) == graph.stateCap = Unbounded \/ SizeOf(graph.attrs[n]) <= graph.stateCap

FitsState(n, r) ==
  graph.stateCap = Unbounded \/ SizeOf(billed[r] \cup graph.attrs[n]) <= graph.stateCap

(* Mutant: blocks may be mixed. *)
AnyLayer(n, r) == TRUE

LayerOK(n, r) == LayerKey(n) = NoLayer \/ layer[r] \in {NoLayer, LayerKey(n)}

Joins(n) ==
  LET r == ProducerRegion(n)
      p == Only(graph.ins[n])
  IN  /\ r # None
      /\ \/ n \in graph.getitem
         \/ OnlyUser(p, n) /\ tail[r] = p /\ SizeOK(n, r) /\ FitsState(n, r) /\ LayerOK(n, r)

(* One turn of the loop over graph.nodes. *)
AssignNode ==
  /\ ~graph.single
  /\ next \in Nodes
  /\ LET n == next
         r == IF Joins(n) THEN ProducerRegion(n) ELSE opened + 1
         new == r = opened + 1
     IN  /\ partition' = [partition EXCEPT ![n] = r]
         /\ opened' = IF new THEN opened + 1 ELSE opened
         /\ tail' = [tail EXCEPT ![r] = n]
         /\ size' = [size EXCEPT ![r] = @ + 1]
         /\ billed' = [billed EXCEPT ![r] = @ \cup graph.attrs[n]]
         /\ layer' = [layer EXCEPT ![r] = IF new \/ @ = NoLayer THEN LayerKey(n) ELSE @]
  /\ next' = next + 1
  /\ UNCHANGED graph

(* force_single_region puts every compute node in one region. *)
AssignSingle ==
  /\ graph.single
  /\ next \in Nodes
  /\ partition' = [n \in Nodes |-> 1]
  /\ opened' = 1
  /\ next' = N + 1
  /\ UNCHANGED <<graph, tail, size, billed, layer>>

----------------------------------------------------------------------------
(* build_region_program: what the split graph gives each region.           *)

Partitioned == next = N + 1
Regions == 1 .. opened
NodesOf(r) == {n \in Nodes : partition[n] = r}
Outside(r) == Nodes \ NodesOf(r)

RegionInputs(r) == UNION {graph.ins[n] : n \in NodesOf(r)} \ NodesOf(r)
ReadsUserInput(r) == \E n \in NodesOf(r) : graph.ins[n] = {}
StateInputs(r) == UNION {graph.attrs[n] : n \in NodesOf(r)}
RegionOutputs(r) ==
  {n \in NodesOf(r) : n \in graph.returned \/ Users(n) \cap Outside(r) # {}}
DependsOn(r) == {partition[i] : i \in RegionInputs(r)}

UniqueStateBytes(r) == SizeOf(StateInputs(r))

(* capture_region_inputs runs the regions in program order; env holds what *)
(* the earlier ones produced.                                              *)
EnvBefore(r) == UNION {RegionOutputs(q) : q \in 1 .. (r - 1)}

(* Mutant: a region starts one level after the shallowest dependency. *)
AfterShallowest(ds) == IF ds = {} THEN 0 ELSE Min(ds) + 1

(* max(depth of the dependencies, default -1) + 1 *)
AfterDeepest(ds) == IF ds = {} THEN 0 ELSE Max(ds) + 1

(* dependency_levels: one pass in program order, so only dependencies      *)
(* already given a depth count.                                            *)
Depth[r \in Nat] ==
  AfterDeepest({Depth[d] : d \in {q \in DependsOn(r) : q < r}})
Level(k) == {r \in Regions : Depth[r] = k}

(* transitive_dependencies *)
Ancestors[r \in Nat] ==
  DependsOn(r) \cup UNION {Ancestors[d] : d \in {q \in DependsOn(r) : q < r}}

----------------------------------------------------------------------------
(* estimate_peak_activation_bytes.  Every value that is not state counts a *)
(* consumer per region that reads it and one if it is returned.  The bytes *)
(* of a region's outputs are added when it runs; when a value's last       *)
(* consumer has run its bytes are subtracted, and the user input is such a *)
(* value although nothing ever added its bytes.                            *)

Readers(n) == {r \in Regions : n \in RegionInputs(r)}
ReleasedBy(r) ==
  {n \in RegionInputs(r) : n \notin graph.returned /\ Max(Readers(n)) = r}
InputReaders == {r \in Regions : ReadsUserInput(r)}

Produced(r) == OutBytes * Cardinality(RegionOutputs(r))
Released(r) ==
  OutBytes * Cardinality(ReleasedBy(r))
    + (IF InputReaders # {} /\ Max(InputReaders) = r THEN InBytes ELSE 0)

Held(r) == MapThenSumSet(Produced, 1 .. r) - MapThenSumSet(Released, 1 .. (r - 1))
EstimatedPeak == Max({0} \cup {Held(r) : r \in Regions})

(* What sequential execution with last-use release really holds while      *)
(* region r runs: values produced so far that a later region, r itself or  *)
(* the caller still reads.                                                 *)
LiveDuring(r) ==
  OutBytes * Cardinality({n \in UNION {RegionOutputs(q) : q \in 1 .. r} :
                            n \in graph.returned \/ \E q \in Readers(n) : q >= r})

----------------------------------------------------------------------------
Init ==
  /\ ExportedGraph(graph)
  /\ next = 1
  /\ partition = [n \in Nodes |-> None]
  /\ opened = 0
  /\ tail = [r \in Nodes |-> None]
  /\ size = [r \in Nodes |-> 0]
  /\ billed = [r \in Nodes |-> {}]
  /\ layer = [r \in Nodes |-> NoLayer]

Next == AssignNode \/ AssignSingle

Spec == Init /\ [][Next]_vars

----------------------------------------------------------------------------
(* Regions run in the order they were opened, and that order respects the  *)
(* data flow: capture_region_inputs finds every input of a region already  *)
(* produced, whatever branches, joins and getitem nodes did to the walk.   *)
InputsAreProduced ==
  Partitioned => \A r \in Regions : RegionInputs(r) \subseteq EnvBefore(r)

(* "Weight streaming needs this: the streaming budget is only enforceable  *)
(* if regions are small enough to fit it": a region outgrows the cap only  *)
(* when the one node that opened it already does, charging a parameter two *)
(* nodes of the region share once.                                         *)
RegionsFitStateCap ==
  Partitioned /\ ~graph.single /\ graph.stateCap # Unbounded =>
    \A r \in Regions :
      UniqueStateBytes(r) <= Max({graph.stateCap, SizeOf(graph.attrs[Min(NodesOf(r))])})

(* "Different layer ids never merge": two nodes of one region that each    *)
(* read a single repeating block read the same one, across inherited keys. *)
LayersNeverMerge ==
  ~graph.single =>
    \A m, n \in 1 .. (next - 1) :
      partition[m] = partition[n] /\ NoLayer \notin {NodeLayer(m), NodeLayer(n)} =>
        NodeLayer(m) = NodeLayer(n)

(* "Regions sharing a level cannot depend on each other, directly or       *)
(* transitively", which is what lets a level run on several workers.       *)
LevelsIndependent ==
  Partitioned =>
    \A k \in 0 .. opened : \A r \in Level(k) : Level(k) \cap Ancestors[r] = {}

(* "Upper bound on live activation bytes under sequential last-use         *)
(* release" (estimate_peak_activation_bytes): up to the user input, which  *)
(* the estimate subtracts at its last use and never added.                 *)
PeakBounded ==
  Partitioned => Max({0} \cup {LiveDuring(r) : r \in Regions}) <= EstimatedPeak + InBytes
=============================================================================
