-------------------------- MODULE MCPooledExecutor --------------------------
(***************************************************************************)
(* One run of the pooled executor, and the forwards, cancels, updates,     *)
(* releases and close of a graph executor.  part says which of the two a   *)
(* behaviour is about; the other stays where it starts.                    *)
(*                                                                         *)
(* Order keys follow the default stream ids of tt-ir/src/schedule.rs: one  *)
(* compute, copy, sync and lifetime stream per accelerator; host           *)
(* instructions have none.                                                 *)
(***************************************************************************)
EXTENDS PooledExecutor

CONSTANTS compute, copy, lifetime, sync,
          Forwards, Tokens

VARIABLES part, gpc, gate, runGate, gcancel, sticky, active, stopped, lock, version, cached,
          direct, hoisted, artifact, local, threads, canceller, releaser, closer, left

(* Two kinds of disturbance meet each pair of forwards.                    *)
MCDisturbances == {[updates |-> 1, cancels |-> 1, releases |-> 0],
                   [updates |-> 1, cancels |-> 0, releases |-> 1],
                   [updates |-> 0, cancels |-> 1, releases |-> 1]}

G == INSTANCE GraphExecutor WITH pc <- gpc, cancel <- gcancel, HasDirect <- TRUE,
                                 Disturbances <- MCDisturbances

graphVars == <<gpc, gate, runGate, gcancel, sticky, active, stopped, lock, version, cached,
               direct, hoisted, artifact, local, threads, canceller, releaser, closer, left>>

ASSUME G!GraphAssumption

Workers2 == [p \in Pools |-> IF p = "cpu" THEN 2 ELSE 1]

(* Hybrid runs supply every callback, instruction-callback runs none.      *)
Hybrid == [region |-> TRUE, release |-> TRUE, pload |-> TRUE]
Plain == [region |-> FALSE, release |-> FALSE, pload |-> FALSE]
BothModes == {Hybrid, Plain}

Plan(ops, deps, keys) == [op |-> ops, deps |-> deps, key |-> keys]

(* Four-instruction schedules in the shape the schedule builder emits: a   *)
(* host fan-out, a reload staged to the device, two transfers on one       *)
(* stream, and a parameter streamed in, used and evicted beside a spill.   *)
FanOut == Plan(<<"Compute", "Compute", "NativeCompute", "Release">>,
               <<{}, {}, {1}, {1, 2, 3}>>, <<None, None, None, lifetime>>)
Reload == Plan(<<"Load", "Transfer", "Compute", "Release">>,
               <<{}, {1}, {2}, {3}>>, <<None, copy, compute, lifetime>>)
TwoTransfers == Plan(<<"Transfer", "Transfer", "Compute", "ParamEvict">>,
                     <<{}, {}, {1, 2}, {3}>>, <<copy, copy, compute, lifetime>>)
SpillBeside == Plan(<<"ParamLoad", "Compute", "Spill", "ParamEvict">>,
                    <<{}, {1}, {2}, {2}>>, <<None, compute, None, lifetime>>)
Contended == Plan(<<"Compute", "Compute", "Event", "Compute">>,
                  <<{}, {}, {1}, {}>>, <<compute, compute, sync, compute>>)
(* stream_id is explicit, so a copy may share the stream of a Compute.      *)
SharedStream == Plan(<<"Transfer", "Compute", "Event", "Release">>,
                     <<{}, {}, {1}, {2, 3}>>, <<compute, compute, sync, lifetime>>)
BuilderPlans == {FanOut, Reload, TwoTransfers, SpillBeside, Contended,
                 SharedStream}

(* Beside them a fork and a join of three instructions, each with every    *)
(* choice of opcode and stream, and a release at the end.                  *)
Ops == {<<"Compute", compute>>, <<"Compute", None>>, <<"Transfer", copy>>,
        <<"ParamLoad", None>>}
ForkJoin ==
    {Plan(<<f[1][1], f[2][1], f[3][1], "Release">>, d,
          <<f[1][2], f[2][2], f[3][2], lifetime>>)
     : f \in [1..3 -> Ops], d \in {<<{}, {1}, {1}, {2, 3}>>, <<{}, {}, {1, 2}, {3}>>}}

(* A spill and two releases of one accelerator's lifetime stream.          *)
SpillThenReleases == {Plan(<<"Compute", "Spill", "Release", "Release">>,
                           <<{}, {}, {1}, {1}>>,
                           <<compute, lifetime, lifetime, lifetime>>)}
MCPlans == BuilderPlans \cup ForkJoin \cup SpillThenReleases

-----------------------------------------------------------------------------
MCInit ==
  /\ part \in {"pool", "graph"}
  /\ Init /\ G!Init
  /\ part # "pool" => plan = FanOut /\ mode = Hybrid /\ ready = <<1, 2>>
  /\ part # "graph" => hoisted /\ left.updates = 0

MCNext ==
  \/ part = "pool" /\ Next /\ UNCHANGED <<part, graphVars>>
  \/ part = "graph" /\ G!Next /\ UNCHANGED <<part, vars>>

(* The fairness of each module, on the part that runs.                     *)
Pool(A) == part = "pool" /\ A
Graph(A) == part = "graph" /\ A

MCFairness ==
  /\ WF_vars(Pool(Dispatcher)) /\ \A p \in Pools : WF_vars(Pool(Worker(p)))
  /\ \A f \in Forwards : WF_graphVars(Graph(G!Forward(f)))
  /\ WF_graphVars(Graph(G!Close)) /\ WF_graphVars(Graph(G!RequestSchedule))
  /\ WF_graphVars(Graph(G!ReleaseDrop \/ G!ReleaseInstall))

MCSpec == MCInit /\ [][MCNext]_<<part, vars, graphVars>> /\ MCFairness

(* GraphExecutor: forwards compute with current weights and with the       *)
(* artifact that goes with their device copies, and a close that has       *)
(* returned leaves nothing behind.                                         *)
ForwardsSound == G!WeightsAreCurrent /\ G!ArtifactMatchesCopies /\ G!CloseLeavesNothing

(* PooledExecutor: execute returns, with a report, a failure, a            *)
(* cancellation or a stall.  GraphExecutor: every forward ends and close   *)
(* returns.                                                                *)
ExecutorsReturn ==
  <>(CASE part = "pool" -> pc = "returned"
       [] part = "graph" -> (\A f \in Forwards : gpc[f] \in G!Ended) /\ closer = "closed")
=============================================================================
