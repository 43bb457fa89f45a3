-------------------------- MODULE ActivationSpill --------------------------
(***************************************************************************)
(* Activation spill and reload (tt-runtime/src/executor/spill.rs), the     *)
(* spill files and session directories under them (tt-storage/src/spill.rs *)
(* and context.rs), and the set-up and clean-up of a forward's spill       *)
(* directory (runtime/native_bridge/spill.py, run.py).                     *)
(*                                                                         *)
(* Processes, named by pid, each run one forward at a time.  A forward     *)
(* spills and reloads activations on its I/O workers; a process may crash  *)
(* at any moment and leaves its directories behind.  A path is a sequence  *)
(* of names: <<"run", r>> (mkdtemp under the spill root), <<"session", p>> *)
(* (tt-spill-<pid>-<exec>) and <<"file", t>>.                              *)
(***************************************************************************)
EXTENDS Integers, Sequences, FiniteSets, FiniteSetsExt

CONSTANTS
    Procs,          \* process ids
    Tensors,        \* activations of a forward
    Runs,           \* names mkdtemp can return
    Size,           \* bytes of each activation
    Budget,         \* spill_budget_bytes
    IoWorkers,      \* options.io_workers
    None

SizeAssumption == Size \in [Tensors -> Nat]
BudgetAssumption == Budget \in Nat /\ IoWorkers \in Nat \ {0}

VARIABLES
    up,             \* live processes
    swept,          \* processes whose _ORPHAN_SWEEP_DONE is set
    run,            \* the run directory of the process's forward, or None
    failed,         \* processes whose current forward has failed
    value,          \* where each activation's bytes are
    step,           \* progress of the instruction working on each activation
    spills,         \* ExecutionStorageState.spills: activations with a path
    live,           \* spill_live_bytes
    fs,             \* paths that exist on disk
    orphaned        \* history: run directories of crashed processes

vars == <<up, swept, run, failed, value, step, spills, live, fs, orphaned>>
mem == <<value, step, spills, live>>
host == <<up, swept, run, failed, orphaned>>

(* "python": a tensor handle.  "bytes": in the hands of a spill or reload. *)
(* "file": only on disk.  "gone": dropped by a failed spill.               *)
Where == {"python", "bytes", "file", "gone"}
Steps == {"idle", "demat", "checked", "written", "accounted",
          "lookup", "materialized", "unaccounted"}

RunDir(r) == <<<<"run", r>>>>
SessionDir(p) == Append(RunDir(run[p]), <<"session", p>>)
SpillFile(p, t) == Append(SessionDir(p), <<"file", t>>)

Active(p) == {t \in Tensors : step[p][t] # "idle"}
Busy(p) == Cardinality(Active(p)) >= IoWorkers
InForward(p) == p \in up /\ run[p] # None

Init ==
    /\ up = {} /\ swept = {}
    /\ run = [p \in Procs |-> None]
    /\ failed = {}
    /\ value = [p \in Procs |-> [t \in Tensors |-> "python"]]
    /\ step = [p \in Procs |-> [t \in Tensors |-> "idle"]]
    /\ spills = [p \in Procs |-> {}]
    /\ live = [p \in Procs |-> 0]
    /\ fs = {} /\ orphaned = {}

-----------------------------------------------------------------------------
(* Processes and forwards                                                  *)

StartProcess(p) ==
    /\ p \notin up
    /\ up' = up \cup {p}
    /\ UNCHANGED <<swept, run, failed, mem, fs, orphaned>>

Crash(p) ==
    /\ p \in up
    /\ up' = up \ {p}
    /\ swept' = swept \ {p}
    /\ orphaned' = IF run[p] = None THEN orphaned ELSE orphaned \cup {run[p]}
    /\ run' = [run EXCEPT ![p] = None]
    /\ failed' = failed \ {p}
    /\ step' = [step EXCEPT ![p] = [t \in Tensors |-> "idle"]]
    /\ UNCHANGED <<value, spills, live, fs>>

(* Mutant: whatever is in the root is an orphan. *)
SweepAll(p) == {path[1] : path \in fs}

(* sweep_orphan_spill_sessions(root): remove the entries of the spill root *)
(* that are session directories of a dead process other than the caller.   *)
SweptEntries(p) ==
    {e \in {path[1] : path \in fs} :
        e[1] = "session" /\ e[2] # p /\ e[2] \notin up}

(* Once per process, before its first forward makes a run directory.       *)
SweepOrphans(p) ==
    /\ p \in up \ swept
    /\ swept' = swept \cup {p}
    /\ fs' = {path \in fs : path[1] \notin SweptEntries(p)}
    /\ UNCHANGED <<up, run, failed, mem, orphaned>>

(* _setup_native_spill: mkdtemp under the root, and a fresh context.       *)
BeginForward(p, r) ==
    /\ p \in swept /\ run[p] = None
    /\ RunDir(r) \notin fs
    /\ run' = [run EXCEPT ![p] = r]
    /\ fs' = fs \cup {RunDir(r)}
    /\ value' = [value EXCEPT ![p] = [t \in Tensors |-> "python"]]
    /\ spills' = [spills EXCEPT ![p] = {}]
    /\ live' = [live EXCEPT ![p] = 0]
    /\ UNCHANGED <<up, swept, failed, step, orphaned>>

(* Mutant: only a forward that succeeded cleans up. *)
RemovedOnSuccess(p) ==
    IF p \in failed THEN {} ELSE {path \in fs : path[1] = <<"run", run[p]>>}

(* The `finally` of run_schedule_native: rmtree of the run directory.      *)
Removed(p) == {path \in fs : path[1] = <<"run", run[p]>>}

EndForward(p) ==
    /\ InForward(p)
    /\ Active(p) = {}
    /\ fs' = fs \ Removed(p)
    /\ run' = [run EXCEPT ![p] = None]
    /\ failed' = failed \ {p}
    /\ UNCHANGED <<up, swept, mem, orphaned>>

-----------------------------------------------------------------------------
(* Spilling one activation                                                 *)

Goto(p, t, s) == step' = [step EXCEPT ![p][t] = s]
Hold(p, t, w) == value' = [value EXCEPT ![p][t] = w]

(* The instruction returns an error; the run fails and starts no more.     *)
Fail(p, t) ==
    /\ failed' = failed \cup {p}
    /\ Goto(p, t, "idle")

(* The dematerialize callback copies the bytes and drops the handle.       *)
Dematerialize(p, t) ==
    /\ InForward(p) /\ p \notin failed /\ ~Busy(p)
    /\ step[p][t] = "idle" /\ value[p][t] = "python"
    /\ Hold(p, t, "bytes") /\ Goto(p, t, "demat")
    /\ UNCHANGED <<host, spills, live, fs>>

(* Mutant: no budget. *)
NoBudgetCheck(p, t) ==
    /\ step[p][t] = "demat"
    /\ Goto(p, t, "checked")
    /\ UNCHANGED <<host, value, spills, live, fs>>

(* The budget check, under the storage lock, before the file is written.   *)
CheckBudget(p, t) ==
    /\ step[p][t] = "demat"
    /\ IF live[p] + Size[t] > Budget
       THEN Fail(p, t) /\ Hold(p, t, "gone")
       ELSE Goto(p, t, "checked") /\ UNCHANGED <<failed, value>>
    /\ UNCHANGED <<up, swept, run, orphaned, spills, live, fs>>

(* spill_session_dir and write_activation_spill: a temporary file renamed  *)
(* into place; an I/O error or a full disk removes it and fails.           *)
WriteSpill(p, t) ==
    /\ step[p][t] = "checked"
    /\ \/ /\ fs' = fs \cup {SessionDir(p), SpillFile(p, t)}
          /\ Goto(p, t, "written")
          /\ UNCHANGED <<failed, value>>
       \/ /\ fs' = fs \cup {SessionDir(p)}
          /\ Fail(p, t) /\ Hold(p, t, "gone")
    /\ UNCHANGED <<up, swept, run, orphaned, spills, live>>

(* The path and its bytes are recorded, under the storage lock.            *)
AccountSpill(p, t) ==
    /\ step[p][t] = "written"
    /\ spills' = [spills EXCEPT ![p] = @ \cup {t}]
    /\ live' = [live EXCEPT ![p] = @ + Size[t]]
    /\ Goto(p, t, "accounted")
    /\ UNCHANGED <<host, value, fs>>

(* The RAM copy is released and a copy is put on "disk"; a leased copy or  *)
(* a refused put fails the instruction after the file was written.         *)
FinishSpill(p, t) ==
    /\ step[p][t] = "accounted"
    /\ Hold(p, t, "file")
    /\ \/ Goto(p, t, "idle") /\ UNCHANGED failed
       \/ Fail(p, t)
    /\ UNCHANGED <<up, swept, run, orphaned, spills, live, fs>>

-----------------------------------------------------------------------------
(* Reloading one activation                                                *)

LookupSpill(p, t) ==
    /\ InForward(p) /\ p \notin failed /\ ~Busy(p)
    /\ step[p][t] = "idle" /\ value[p][t] = "file"
    /\ IF t \in spills[p] THEN Goto(p, t, "lookup") /\ UNCHANGED failed
                          ELSE Fail(p, t)
    /\ UNCHANGED <<up, swept, run, orphaned, value, spills, live, fs>>

(* Mutant: the file is unlinked before its bytes are materialized. *)
MaterializeUnlinked(p, t) ==
    /\ step[p][t] = "lookup"
    /\ SpillFile(p, t) \in fs
    /\ fs' = fs \ {SpillFile(p, t)}
    /\ Goto(p, t, "materialized")
    /\ UNCHANGED <<host, value, spills, live>>

(* read_activation_spill and the materialize callback; either can fail.    *)
Materialize(p, t) ==
    /\ step[p][t] = "lookup"
    /\ \/ /\ SpillFile(p, t) \in fs
          /\ Hold(p, t, "python") /\ Goto(p, t, "materialized")
          /\ UNCHANGED failed
       \/ Fail(p, t) /\ UNCHANGED value
    /\ UNCHANGED <<up, swept, run, orphaned, spills, live, fs>>

(* The path is forgotten and its bytes given back, under the storage lock. *)
UnaccountSpill(p, t) ==
    /\ step[p][t] = "materialized"
    /\ spills' = [spills EXCEPT ![p] = @ \ {t}]
    /\ live' = [live EXCEPT ![p] = IF @ > Size[t] THEN @ - Size[t] ELSE 0]
    /\ Goto(p, t, "unaccounted")
    /\ UNCHANGED <<host, value, fs>>

(* remove_activation_spill, then the copy is registered on its resource.   *)
RemoveSpill(p, t) ==
    /\ step[p][t] = "unaccounted"
    /\ fs' = fs \ {SpillFile(p, t)}
    /\ \/ Goto(p, t, "idle") /\ UNCHANGED failed
       \/ Fail(p, t)
    /\ UNCHANGED <<up, swept, run, orphaned, value, spills, live>>

Next ==
    \E p \in Procs :
        \/ StartProcess(p) \/ Crash(p) \/ SweepOrphans(p) \/ EndForward(p)
        \/ \E r \in Runs : BeginForward(p, r)
        \/ \E t \in Tensors :
              \/ Dematerialize(p, t) \/ CheckBudget(p, t) \/ WriteSpill(p, t)
              \/ AccountSpill(p, t) \/ FinishSpill(p, t)
              \/ LookupSpill(p, t) \/ Materialize(p, t)
              \/ UnaccountSpill(p, t) \/ RemoveSpill(p, t)

Spec == Init /\ [][Next]_vars

-----------------------------------------------------------------------------
(* Properties                                                              *)

(* Type invariant; byte counts never go negative or past what exists.      *)
TypeOK ==
    /\ swept \subseteq up /\ up \subseteq Procs /\ failed \subseteq up
    /\ run \in [Procs -> Runs \cup {None}]
    /\ value \in [Procs -> [Tensors -> Where]]
    /\ step \in [Procs -> [Tensors -> Steps]]
    /\ spills \in [Procs -> SUBSET Tensors]
    /\ live \in [Procs -> Nat]
    /\ \A p \in Procs : Cardinality(Active(p)) <= IoWorkers

(* spill_live_bytes is the sum over the recorded spill paths, "live        *)
(* (written, not yet reloaded) spill bytes", and spills that pass the      *)
(* check together overshoot the budget by at most one activation per       *)
(* further I/O worker: with one worker it is respected.                    *)
OvershootBounded ==
    TypeOK /\ \A p \in Procs :
        /\ live[p] = MapThenSumSet(LAMBDA t : Size[t], spills[p])
        /\ live[p] <= Budget + (IoWorkers - 1) * Max({Size[t] : t \in Tensors})

(* While a forward has not failed no activation is lost: it is a Python    *)
(* handle, it is in the hands of a spill or reload in progress, or it has  *)
(* a recorded path whose file exists.                                      *)
Recoverable ==
    \A p \in Procs, t \in Tensors :
        InForward(p) /\ p \notin failed =>
            \/ value[p][t] = "python"
            \/ value[p][t] = "bytes" /\ step[p][t] # "idle"
            \/ t \in spills[p] /\ SpillFile(p, t) \in fs

(* "Spill files must not outlive the execution": every path on disk is in  *)
(* the run directory of a forward in progress or of a crashed process.     *)
NothingOutlivesItsForward ==
    \A path \in fs :
        \/ \E p \in up : run[p] # None /\ path[1] = <<"run", run[p]>>
        \/ path[1][2] \in orphaned

(* A sweep touches no directory of a forward in progress.                  *)
SweepSpares ==
    swept' # swept =>
      \A p \in up, path \in fs :
         run[p] # None /\ path[1] = <<"run", run[p]>> => path \in fs'
SweepSparesForwards == [][SweepSpares]_vars

=============================================================================
