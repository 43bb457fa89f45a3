-------------------------- MODULE MCStreamingStore --------------------------
(* The two stores a streamed parameter passes: the reads of the chunk      *)
(* store and, above it, the decoding of a parameter that several forwards  *)
(* want.  part says which of the two a behaviour is about; the other stays *)
(* where it starts.                                                        *)
EXTENDS StreamingStore

CONSTANTS k1, k2, t1, t2, a, b, Forwards, None

VARIABLES part, cache, older, pinned, staging, loads, pclosed, ppc, loading, todo, held

(* One byte per chunk and a cache of one chunk: every second read evicts.  *)
UnitSize == [k \in Keys |-> 1]

(* Each forward wants one of two parameters, and the budget is one.        *)
P == INSTANCE ParameterStore WITH
       Keys <- {a, b}, Size <- [p \in {a, b} |-> 1], Budget <- 1, Schedules <- {{a}, {b}}, Labels <- 1,
       inflight <- loads, closed <- pclosed, pc <- ppc, key <- loading

ASSUME P!ParameterAssumption

paramVars == <<cache, older, pinned, staging, loads, pclosed, ppc, loading, todo, held>>

MCInit ==
  /\ part \in {"chunks", "params"}
  /\ Init /\ P!Init
  /\ part # "params" => todo = [f \in Forwards |-> {a}]

MCNext ==
  \/ part = "chunks" /\ Next /\ UNCHANGED <<part, paramVars>>
  \/ part = "params" /\ P!Next /\ UNCHANGED <<part, vars>>

(* The fairness of each module, on the part that runs.                     *)
Chunks(A) == part = "chunks" /\ A
Params(A) == part = "params" /\ A

MCFairness ==
  /\ \A t \in Callers : WF_vars(Chunks(CallerStep(t)))
  /\ WF_vars(Chunks(PrefetcherStep))
  /\ \A w \in Threads : WF_vars(Chunks(WorkerStep(w)))
  /\ WF_vars(Chunks(CloserStep))
  /\ \A f \in Forwards : WF_paramVars(Params(P!Step(f)))

MCSpec == MCInit /\ [][MCNext]_<<part, vars, paramVars>> /\ MCFairness

(* ParameterStore: decoded and staging bytes stay within the budget, and   *)
(* no parameter is read by two forwards at a time.                         *)
LedgerWithinBudget == P!LedgerWithinBudget

(* ParameterStore: every forward comes out of acquire.                     *)
ParameterAcquireReturns == (part = "params") => P!AcquireReturns
=============================================================================
