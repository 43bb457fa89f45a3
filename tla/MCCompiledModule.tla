-------------------------- MODULE MCCompiledModule --------------------------
(* Calls that must come back although what serves them is replaced: the    *)
(* forwards of a compiled module over its generations, and the regions     *)
(* given to worker processes that die - a device's, which is restarted, or *)
(* one of the process pool, which is then given up.  part says which of    *)
(* these a behaviour is about; the others stay where they start.           *)
EXTENDS CompiledModule

CONSTANTS g1, g2, f2, s1,
          Callers, Workers, MaxRestarts, MaxPending, MaxCrashes, MaxSubmits

VARIABLES part, at, task, lane, future, pending, queue, alive, work, results, restarts, broken,
          collector, wclosed, shut, crashes

W == INSTANCE WorkerPools WITH LaneOf <- [w \in Workers |-> w], Restarting <- TRUE,
                               closed <- wclosed
Q == INSTANCE WorkerPools WITH LaneOf <- [w \in Workers |-> "shared"], Restarting <- FALSE,
                               closed <- wclosed

workerVars == <<at, task, lane, future, pending, queue, alive, work, results, restarts, broken,
                collector, wclosed, shut, crashes>>

(* Two generations; the initial plan has a direct path and a ledger with   *)
(* room for both forwards, the replacement's for one.  Two forwards meet   *)
(* replan and close; one forward also meets a reader and a cancel.         *)
NeedDef == [e \in Gens |-> [r \in Resources |-> IF e = g1 THEN 1 ELSE 2]]
BudgetDef == [e \in Gens |-> [r \in Resources |-> IF r = "host" THEN 3 ELSE 2]]
AbsenteesDef == {{s1, Canceller}, {f2}}

MCInit ==
  /\ part \in {"module", "devices", "processes"}
  /\ Init
  /\ IF part = "processes" THEN Q!Init ELSE W!Init
  /\ part # "module" => pc[f2] = "idle"

MCNext ==
  \/ part = "module" /\ Next /\ UNCHANGED <<part, workerVars>>
  \/ part = "devices" /\ W!Next /\ UNCHANGED <<part, vars>>
  \/ part = "processes" /\ Q!ProcessNext /\ UNCHANGED <<part, vars>>

(* The fairness of each module, on the part that runs.                     *)
Module(A) == part = "module" /\ A
Devices(A) == part = "devices" /\ A
Processes(A) == part = "processes" /\ A

MCFairness ==
  /\ \A f \in Forwards : WF_vars(Module(ForwardStep(f)))
  /\ \A t \in Readers : WF_vars(Module(EndRead(t)))
  /\ \A t \in Threads : WF_vars(Module(CloseStep(t)))
  /\ WF_vars(Module(Install \/ Publish)) /\ WF_vars(Module(CloseManager))
  /\ WF_vars(Module(CancelExecutor \/ CancelTokens))
  /\ \A c \in Callers : WF_workerVars(Devices(W!Call(c)) \/ Processes(Q!Call(c)))
  /\ \A w \in Workers : WF_workerVars(Devices(W!Process(w)) \/ Processes(Q!Process(w)))
  /\ WF_workerVars(Devices(W!Settle) \/ Processes(Q!Settle))
  /\ WF_workerVars(Devices(W!Collect \/ W!CollectHealth) \/ Processes(Q!Collect \/ Q!MarkBroken))

MCSpec == MCInit /\ [][MCNext]_<<part, vars, workerVars>> /\ MCFairness

(* WorkerPools: a region given to a worker process comes back, with        *)
(* outputs or an error, processes dying before, while and after it is      *)
(* queued included; except one that the process pool registers when it has *)
(* already been given up.                                                  *)
SubmittedReturns ==
  \A c \in Callers : at[c] = "wait" ~> (at[c] = "idle" \/ (broken /\ task[c] \in pending))
=============================================================================
