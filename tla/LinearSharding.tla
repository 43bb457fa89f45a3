--------------------------- MODULE LinearSharding ---------------------------
(***************************************************************************)
(* Oversized linear layers are rewritten into row shards, and the original *)
(* parameters are put together again when a state dict is taken.           *)
(*                                                                         *)
(* _shard_oversized_linear_nodes (compile/regions.py) visits the linear    *)
(* nodes in graph order; two nodes that use the same weight and bias share *)
(* one set of shards.  restore_sharded_state_dict later walks the list the *)
(* rewrite returned.  A tensor is the sequence of its rows.                *)
(***************************************************************************)
EXTENDS Integers, Sequences, FiniteSets, SequencesExt, FiniteSetsExt

CONSTANTS
  Weights, Biases, None,
  Rows,        \* rows of each weight and bias (out_features)
  WeightRow,   \* bytes of one weight row
  BiasRow,     \* bytes of one bias element
  Cap,         \* max_region_state_bytes
  MaxShards,   \* max_linear_shards
  Uses         \* number of linear nodes in the graph

VARIABLES
  nodes,      \* the linear nodes: weight and bias of each, fixed by Init
  pos,        \* node the rewrite looks at
  cache,      \* shard_cache: <<weight, bias, rows_per_shard>> -> node that installed
  rewritten,  \* the list _shard_oversized_linear_nodes returns
  attrs,      \* the tensors the rewritten graph reads: key -> rows
  payload,    \* the state dict under restoration
  lost,       \* shards whose tensor is absent or empty in the state dict
  turn        \* entry of rewritten that restoration looks at

vars == <<nodes, pos, cache, rewritten, attrs, payload, lost, turn>>

Tensor(t) == [i \in 1 .. Rows[t] |-> <<t, i>>]
With(f, g) == [k \in DOMAIN f \cup DOMAIN g |-> IF k \in DOMAIN g THEN g[k] ELSE f[k]]
Without(f, ks) == [k \in DOMAIN f \ ks |-> f[k]]

RowBytes(u) == WeightRow + (IF u.bias = None THEN 0 ELSE BiasRow)
RowsPerShard(u) == Max({1, Cap \div RowBytes(u)})
ShardCount(u) == (Rows[u.weight] + RowsPerShard(u) - 1) \div RowsPerShard(u)

(* The rewrite leaves a node alone when it is small enough, when not even  *)
(* one row fits, or when it would take too many shards.                    *)
Shardable(u) ==
  /\ Rows[u.weight] >= 2
  /\ Rows[u.weight] * RowBytes(u) > Cap
  /\ RowBytes(u) <= Cap
  /\ ShardCount(u) \in 2 .. MaxShards

(* Mutant: the slice keeps its full width past the last row. *)
UnclippedPiece(t, u, i) ==
  [j \in 1 .. RowsPerShard(u) |-> <<t, (i - 1) * RowsPerShard(u) + j>>]

(* weight[start:end] of the i-th shard. *)
Piece(t, u, i) ==
  SubSeq(Tensor(t), (i - 1) * RowsPerShard(u) + 1,
         Min({Rows[u.weight], i * RowsPerShard(u)}))

Key(node, i, part) == <<node, i, part>>
Parts(u) == IF u.bias = None THEN {"weight"} ELSE {"weight", "bias"}
Target(u, part) == IF part = "weight" THEN u.weight ELSE u.bias
Targets(u) == {Target(u, part) : part \in Parts(u)}

InstalledBy(node, u) ==
  [k \in {Key(node, i, part) : i \in 1 .. ShardCount(u), part \in Parts(u)} |->
     Piece(Target(u, k[3]), u, k[2])]

(* Tied nodes reuse the shards the first one installed. *)
CacheKey(u) == <<u.weight, u.bias, RowsPerShard(u)>>

ShardNode ==
  /\ pos <= Uses
  /\ Shardable(nodes[pos])
  /\ LET u == nodes[pos]
         hit == CacheKey(u) \in DOMAIN cache
         owner == IF hit THEN cache[CacheKey(u)] ELSE pos
     IN  /\ rewritten' = Append(rewritten, [use |-> u, owner |-> owner, reused |-> hit])
         /\ cache' = With(cache, [k \in {CacheKey(u)} |-> owner])
         /\ attrs' = IF hit THEN attrs ELSE With(attrs, InstalledBy(pos, u))
  /\ pos' = pos + 1
  /\ UNCHANGED <<nodes, payload, lost, turn>>

LeaveNode ==
  /\ pos <= Uses
  /\ ~Shardable(nodes[pos])
  /\ LET u == nodes[pos]
     IN  attrs' = With(attrs, [t \in Targets(u) |-> Tensor(t)])
  /\ pos' = pos + 1
  /\ UNCHANGED <<nodes, cache, rewritten, payload, lost, turn>>

(* The state dict of the compiled module holds what the graph reads; the   *)
(* tensors released to the pack are empty in it.                           *)
TakeStateDict ==
  /\ pos = Uses + 1
  /\ turn = 0
  /\ \E gone \in SUBSET (DOMAIN attrs \ (Weights \cup Biases)) :
       /\ Cardinality(gone) <= 1
       /\ lost' = gone
       /\ payload' = [k \in DOMAIN attrs |-> IF k \in gone THEN <<>> ELSE attrs[k]]
  /\ turn' = 1
  /\ UNCHANGED <<nodes, pos, cache, rewritten, attrs>>

ShardKeys(e, part) == {Key(e.owner, i, part) : i \in 1 .. ShardCount(e.use)}
HasAll(p, ks) == \A k \in ks : k \in DOMAIN p /\ p[k] # <<>>
Joined(p, e, part) ==
  FlattenSeq([i \in 1 .. ShardCount(e.use) |-> p[Key(e.owner, i, part)]])

(* Mutant: the shards are popped before it is known that all are there. *)
RestorePopped(p, e, part) ==
  LET q == Without(p, ShardKeys(e, part))
  IN  IF HasAll(p, ShardKeys(e, part)) THEN With(q, [t \in {Target(e.use, part)} |-> Joined(p, e, part)]) ELSE q

(* _cat_shard_pieces and the removal of the shards it joined. *)
RestorePart(p, e, part) ==
  IF HasAll(p, ShardKeys(e, part))
  THEN With(Without(p, ShardKeys(e, part)),
            [t \in {Target(e.use, part)} |-> Joined(p, e, part)])
  ELSE p

(* One entry: a weight that cannot be joined leaves its bias alone too. *)
RestoreEntry(p, e) ==
  IF e.reused \/ ~HasAll(p, ShardKeys(e, "weight")) THEN p
  ELSE LET q == RestorePart(p, e, "weight")
       IN  IF e.use.bias = None THEN q ELSE RestorePart(q, e, "bias")

Restore ==
  /\ turn \in 1 .. Len(rewritten)
  /\ payload' = RestoreEntry(payload, rewritten[turn])
  /\ turn' = turn + 1
  /\ UNCHANGED <<nodes, pos, cache, rewritten, attrs, lost>>

Init ==
  /\ nodes \in [1 .. Uses -> {u \in [weight : Weights, bias : Biases \cup {None}] :
                               u.bias # None => Rows[u.bias] = Rows[u.weight]}]
  /\ pos = 1
  /\ cache = <<>> /\ rewritten = <<>> /\ attrs = <<>> /\ payload = <<>>
  /\ lost = {}
  /\ turn = 0

Next == ShardNode \/ LeaveNode \/ TakeStateDict \/ Restore

Spec == Init /\ [][Next]_vars

----------------------------------------------------------------------------
Restored == turn = Len(rewritten) + 1

(* "Each shard consumes a disjoint row range": every shard the graph reads *)
(* fits the streaming cap, and whatever the budget, the number of rows and *)
(* the ties between layers, the state dict ends with each original         *)
(* parameter whole, in row order, under its own name and no shard left.    *)
ShardingRoundTrips ==
  /\ \A e \in Range(rewritten) : \A i \in 1 .. ShardCount(e.use) :
       Len(Piece(e.use.weight, e.use, i)) * RowBytes(e.use) <= Cap
  /\ Restored /\ lost = {} =>
       payload = [t \in UNION {Targets(u) : u \in Range(nodes)} |-> Tensor(t)]

(* "Shard keys are removed only after a successful concatenate so a        *)
(* partial failure never drops state": a row the state dict held before    *)
(* restoration is still in it, as a shard or in the joined parameter.      *)
RowsOf(p) == UNION {Range(p[k]) : k \in DOMAIN p}
RestorationLosesNothing ==
  turn > 0 => RowsOf(payload) = UNION {Range(attrs[k]) : k \in DOMAIN attrs \ lost}
=============================================================================
