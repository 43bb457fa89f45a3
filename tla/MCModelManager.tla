--------------------------- MODULE MCModelManager ---------------------------
(* Components whose callers or threads misbehave: the model manager with   *)
(* slots released twice or by model id, and the chunk store with workers   *)
(* that die and spawns that fail.  part says which of the two a behaviour  *)
(* is about; the other stays where it starts.                              *)
EXTENDS ModelManager, TLC

CONSTANTS k1, k2

VARIABLES part, refs, queue, inflight, waiters, errors, sclosed, handles, wpc, wkey,
          pc, key, sub, acquires, prefetcher, prefetches, closer, joining

(* One byte per chunk and a cache of one chunk: every second read evicts.  *)
S == INSTANCE StreamingStore WITH
       Keys <- {k1, k2}, AcquireKeys <- {k1}, Size <- [k \in {k1, k2} |-> 1], Capacity <- 1,
       Callers <- Requests, WorkerCount <- 1, QueueLimit <- 1, Faulty <- {k1, k2}, SpawnMayFail <- TRUE,
       MayPanic <- TRUE, MayClose <- TRUE, MaxAcquires <- 1, MaxPrefetches <- 1, NoKey <- None,
       closed <- sclosed

chunkVars == <<refs, queue, inflight, waiters, errors, sclosed, handles, wpc, wkey,
               pc, key, sub, acquires, prefetcher, prefetches, closer, joining>>

(* The two requests are the two callers of the chunk store.                *)
Symmetry == Permutations(Gens) \cup Permutations(Requests) \cup Permutations(Unloaders)

MCInit ==
  /\ part \in {"manager", "chunks"}
  /\ Init
  /\ IF part = "chunks" THEN S!Init
     ELSE /\ refs = 0 /\ queue = 0 /\ inflight = 0 /\ waiters = 0 /\ errors = 0 /\ sclosed = 0
          /\ handles = 0 /\ wpc = 0 /\ wkey = 0 /\ pc = 0 /\ key = 0 /\ sub = 0 /\ acquires = 0
          /\ prefetcher = 0 /\ prefetches = 0 /\ closer = 0 /\ joining = 0

MCNext ==
  \/ part = "manager" /\ Next /\ UNCHANGED <<part, chunkVars>>
  \/ part = "chunks" /\ S!Next /\ UNCHANGED <<part, vars>>

MCSpec == MCInit /\ [][MCNext]_<<part, vars, chunkVars>>

(* StreamingStore: no chunk stays pinned by nobody, whatever dies.         *)
NoPhantomLease == part = "chunks" => S!NoPhantomLease
=============================================================================
