--------------------------- MODULE GraphExecutor ---------------------------
(***************************************************************************)
(* One executor generation: forwards, cancellation, resident weights,      *)
(* close.                                                                  *)
(*                                                                         *)
(* runtime/graph_executor.py admits concurrent forwards through a gate and *)
(* sends each one down the direct path or to runtime/schedule_executor.py, *)
(* which has a gate of its own, a sticky cancel flag, the list of tokens   *)
(* of the running forwards and a cache of device copies of the parameters. *)
(* runtime/native_bridge seeds those copies before a schedule runs; when   *)
(* they are hoisted, the native artifact has no transfer for them.  Out of *)
(* memory while seeding, and release_device_residency, rebuild the         *)
(* artifact with its transfers.                                            *)
(*                                                                         *)
(* One parameter stands for all; its version counts in-place updates.      *)
(***************************************************************************)
EXTENDS Naturals, FiniteSets

CONSTANTS
  Forwards,     \* calls of run()
  Tokens,       \* the forwards whose caller passes a cancel token
  Disturbances, \* bounds: numbers of in-place updates, calls of request_cancel
                \* and calls of release_device_residency that may come
  HasDirect,    \* a direct plan was built
  None

GraphAssumption == None \notin Nat \cup Forwards

VARIABLES
  pc,         \* forward -> where it is
  gate,       \* GraphExecutor._gate: forwards inside, and closed
  runGate,    \* ScheduleExecutor._run_gate
  cancel,     \* _cancel_requested and _cancel_generation
  sticky,     \* ScheduleExecutor._cancel
  active,     \* _active_cancels: forwards whose token is registered
  stopped,    \* forwards whose token is cancelled
  lock,       \* holder of _persistent_param_lock
  version,    \* of the parameter
  cached,     \* version held by _persistent_device_param_cache, or None
  direct,     \* version held by the direct plan's copy
  hoisted,    \* the parameter has a resident target and hoisting is on
  artifact,   \* "steady" without parameter transfers, or "full"
  local,      \* forward -> what it read: gen, entry version, copy, artifact
  threads,    \* intra-op pinch: owners, and whether the count is pinched
  canceller, releaser, closer,   \* where the three other actors are
  left        \* remaining updates, cancels, releases

vars == <<pc, gate, runGate, cancel, sticky, active, stopped, lock, version, cached,
          direct, hoisted, artifact, local, threads, canceller, releaser, closer, left>>

residency == <<lock, version, cached, direct, hoisted, artifact>>
cancelling == <<cancel, sticky, active, stopped>>
actors == <<canceller, releaser, closer, left>>

Ended == {"done", "failed", "cancelled", "refused", "missing"}

Set(f, field, v) == local' = [local EXCEPT ![f][field] = v]
Goto(f, l) == pc' = [pc EXCEPT ![f] = l]

(* InFlightGate *)
enter(g, f) == [g EXCEPT !.inside = @ \cup {f}]
leave(g, f) == [g EXCEPT !.inside = @ \ {f}]
idle(g) == g.inside = {}
mark_closed(g) == [g EXCEPT !.closed = TRUE]

(* The installed artifact drops the transfers of hoisted parameters. *)
_steady_state_schedule(h) == IF h THEN "steady" ELSE "full"

----------------------------------------------------------------------------
(* GraphExecutor.run *)

Enter(f) ==
  /\ pc[f] = "start"
  /\ IF gate.closed
     THEN Goto(f, "refused") /\ UNCHANGED <<gate, local>>
     ELSE /\ gate' = enter(gate, f)
          /\ local' = [local EXCEPT ![f].entry = version, ![f].alone = releaser # "install"]
          /\ Goto(f, "choose")
  /\ UNCHANGED <<runGate, cancelling, residency, threads, actors>>

(* The generation and the pending flag are read under the cancel lock; the *)
(* direct path can honour neither a token nor a pending cancel.  Only the  *)
(* schedule path pinches the intra-op threads.                             *)
Choose(f) ==
  /\ pc[f] = "choose"
  /\ LET goDirect == HasDirect /\ f \notin Tokens /\ ~cancel.requested
     IN  /\ Set(f, "gen", cancel.gen)
         /\ Goto(f, IF goDirect THEN "direct" ELSE "schedule")
         /\ threads' = IF goDirect THEN threads ELSE threads \cup {f}
  /\ UNCHANGED <<gate, runGate, cancelling, residency, actors>>

ClearIfUnchanged(f) ==
  IF cancel.gen = local[f].gen THEN [cancel EXCEPT !.requested = FALSE] ELSE cancel

(* _run_direct: DirectParameter.resolve refreshes the placed copy when the *)
(* source has a newer version.  A region that raises leaves the cancel     *)
(* flag as it is.                                                          *)
Refreshed == version

RunDirect(f) ==
  /\ pc[f] = "direct"
  /\ direct' = Refreshed
  /\ \/ /\ Set(f, "copy", direct')
        /\ cancel' = ClearIfUnchanged(f)
     \/ /\ local' = [local EXCEPT ![f].copy = direct', ![f].result = "failed"]
        /\ UNCHANGED cancel
  /\ Goto(f, "leave")
  /\ UNCHANGED <<gate, runGate, sticky, active, stopped, lock, version, cached, hoisted, artifact, threads, actors>>

(* Mutant: a forward that finds a pending cancel leaves it and tries again. *)
TryAgain(f) ==
  /\ pc[f] = "schedule"
  /\ IF runGate.closed
     THEN Goto(f, "leaveRun") /\ Set(f, "result", "refused") /\ UNCHANGED runGate
     ELSE IF sticky THEN Goto(f, "choose") /\ UNCHANGED <<runGate, local>>
     ELSE runGate' = enter(runGate, f) /\ Goto(f, "register") /\ UNCHANGED local
  /\ UNCHANGED <<gate, sticky, cancel, active, stopped, residency, threads, actors>>

(* ScheduleExecutor.run and the head of run_schedule_native: a sticky      *)
(* cancel is consumed by the first forward that finds it.                  *)
EnterSchedule(f) ==
  /\ pc[f] = "schedule"
  /\ IF runGate.closed
     THEN Goto(f, "leaveRun") /\ Set(f, "result", "refused") /\ UNCHANGED <<runGate, sticky>>
     ELSE /\ runGate' = enter(runGate, f)
          /\ sticky' = FALSE
          /\ IF sticky
             THEN Goto(f, "leaveRun") /\ Set(f, "result", "cancelled")
             ELSE Goto(f, "register") /\ UNCHANGED local
  /\ UNCHANGED <<gate, cancel, active, stopped, residency, threads, actors>>

Register(f) ==
  /\ pc[f] = "register"
  /\ active' = active \cup {f}
  /\ Goto(f, "seed")
  /\ UNCHANGED <<gate, runGate, cancel, sticky, stopped, residency, local, threads, actors>>

----------------------------------------------------------------------------
(* _register_persistent_residency, under _persistent_param_lock.  A cached *)
(* copy is used only when its signature is the source's current version.   *)

(* Mutant: any cached copy is taken for the current one. *)
AnyCopy == cached # None

UpToDate == cached = version

Seed(f) ==
  /\ pc[f] = "seed"
  /\ lock = None
  /\ IF hoisted
     THEN /\ cached' = IF UpToDate THEN cached ELSE version
          /\ Set(f, "copy", cached')
     ELSE /\ Set(f, "copy", None)
          /\ UNCHANGED cached
  /\ Goto(f, "fetch")
  /\ UNCHANGED <<gate, runGate, cancelling, lock, version, direct, hoisted, artifact, threads, actors>>

(* The artifact is read again after registration. *)
FetchArtifact(f) ==
  /\ pc[f] = "fetch"
  /\ Set(f, "artifact", artifact)
  /\ Goto(f, "execute")
  /\ UNCHANGED <<gate, runGate, cancelling, residency, threads, actors>>

(* A run that ends cancelled clears the sticky flag on its way out. *)
_reraise_pending(result) == sticky' = IF result = "cancelled" THEN FALSE ELSE sticky

(* The region handler checks the token.  Compute without a device copy and *)
(* without a transfer for it fails.                                        *)
Execute(f) ==
  /\ pc[f] = "execute"
  /\ \/ f \in stopped /\ Set(f, "result", "cancelled")
     \/ f \notin stopped /\ Set(f, "result", "failed")
     \/ /\ f \notin stopped
        /\ local' = [local EXCEPT
             ![f].result = IF local[f].artifact = "steady" /\ local[f].copy = None
                           THEN "missing" ELSE "done",
             ![f].copy = IF local[f].artifact = "full" THEN version ELSE @]
  /\ _reraise_pending(local'[f].result)
  /\ Goto(f, "leaveRun")
  /\ UNCHANGED <<gate, runGate, cancel, active, stopped, residency, threads, actors>>

(* The finally blocks, inside out: the token, the run gate,                *)
(* _clear_cancel_if_unchanged; then the thread count and the gate.         *)
LeaveRun(f) ==
  /\ pc[f] = "leaveRun"
  /\ active' = active \ {f}
  /\ runGate' = leave(runGate, f)
  /\ cancel' = ClearIfUnchanged(f)
  /\ Goto(f, "leave")
  /\ UNCHANGED <<gate, sticky, stopped, residency, local, threads, actors>>

Leave(f) ==
  /\ pc[f] = "leave"
  /\ threads' = threads \ {f}
  /\ gate' = leave(gate, f)
  /\ Goto(f, local[f].result)
  /\ UNCHANGED <<runGate, cancelling, residency, local, actors>>

----------------------------------------------------------------------------
(* request_cancel: the flag and the generation, then the schedule          *)
(* executor's flag with a snapshot of the tokens, then the tokens.         *)

Request ==
  /\ canceller = "idle"
  /\ left.cancels > 0
  /\ cancel' = [requested |-> TRUE, gen |-> cancel.gen + 1]
  /\ canceller' = "forward"
  /\ left' = [left EXCEPT !.cancels = @ - 1]
  /\ UNCHANGED <<pc, gate, runGate, sticky, active, stopped, residency, local, threads, releaser, closer>>

RequestSchedule ==
  /\ canceller = "forward"
  /\ sticky' = TRUE
  /\ stopped' = stopped \cup active
  /\ canceller' = "idle"
  /\ UNCHANGED <<pc, gate, runGate, cancel, active, residency, local, threads, releaser, closer, left>>

(* release_device_residency waits for an idle run gate, which stays open,  *)
(* then drops the copies, clears the targets and installs a new artifact.  *)
ReleaseCall ==
  /\ releaser = "idle"
  /\ left.releases > 0
  /\ closer \in {"open", "draining"}
  /\ releaser' = "waiting"
  /\ left' = [left EXCEPT !.releases = @ - 1]
  /\ UNCHANGED <<pc, gate, runGate, cancelling, residency, local, threads, canceller, closer>>

ReleaseDrop ==
  /\ releaser = "waiting"
  /\ idle(runGate)
  /\ cached' = None /\ hoisted' = FALSE
  /\ releaser' = "install"
  /\ local' = [f \in Forwards |-> [local[f] EXCEPT !.alone = FALSE]]
  /\ UNCHANGED <<pc, gate, runGate, cancelling, lock, version, direct, artifact, threads, canceller, closer, left>>

(* Mutant: the artifact that expects resident copies stays installed. *)
KeepArtifact ==
  /\ releaser = "install"
  /\ cached' = None
  /\ releaser' = "idle"
  /\ UNCHANGED <<pc, gate, runGate, cancelling, lock, version, direct, hoisted, artifact, local, threads,
                 canceller, closer, left>>

ReleaseInstall ==
  /\ releaser = "install"
  /\ artifact' = _steady_state_schedule(hoisted)
  /\ cached' = None
  /\ releaser' = "idle"
  /\ UNCHANGED <<pc, gate, runGate, cancelling, lock, version, direct, hoisted, local, threads, canceller, closer, left>>

(* GraphExecutor.close: drain the gate, then ScheduleExecutor.close, which *)
(* cancels, drains its own gate and drops the caches.                      *)
CloseGate ==
  /\ closer = "open"
  /\ gate' = mark_closed(gate)
  /\ closer' = "draining"
  /\ UNCHANGED <<pc, runGate, cancelling, residency, local, threads, canceller, releaser, left>>

(* Mutant: close does not wait for the forwards it admitted. *)
CloseWithoutDrain ==
  /\ closer = "draining"
  /\ sticky' = TRUE
  /\ stopped' = stopped \cup active
  /\ runGate' = mark_closed(runGate)
  /\ closer' = "drainingRun"
  /\ UNCHANGED <<pc, gate, cancel, active, residency, local, threads, canceller, releaser, left>>

CloseSchedule ==
  /\ closer = "draining"
  /\ idle(gate)
  /\ sticky' = TRUE
  /\ stopped' = stopped \cup active
  /\ runGate' = mark_closed(runGate)
  /\ closer' = "drainingRun"
  /\ UNCHANGED <<pc, gate, cancel, active, residency, local, threads, canceller, releaser, left>>

CloseFinish ==
  /\ closer = "drainingRun"
  /\ idle(runGate)
  /\ cached' = None
  /\ closer' = "closed"
  /\ UNCHANGED <<pc, gate, runGate, cancelling, lock, version, direct, hoisted, artifact, local, threads,
                 canceller, releaser, left>>

(* load_state_dict and optimizer steps write the source in place. *)
Update ==
  /\ left.updates > 0
  /\ version' = version + 1
  /\ left' = [left EXCEPT !.updates = @ - 1]
  /\ UNCHANGED <<pc, gate, runGate, cancelling, lock, cached, direct, hoisted, artifact, local, threads,
                 canceller, releaser, closer>>

----------------------------------------------------------------------------
Init ==
  /\ pc = [f \in Forwards |-> "start"]
  /\ gate = [inside |-> {}, closed |-> FALSE]
  /\ runGate = [inside |-> {}, closed |-> FALSE]
  /\ cancel = [requested |-> FALSE, gen |-> 0]
  /\ sticky = FALSE
  /\ active = {} /\ stopped = {}
  /\ lock = None
  /\ version = 0
  /\ hoisted \in BOOLEAN
  /\ cached = IF hoisted THEN 0 ELSE None     \* seeded by the direct plan
  /\ direct = 0
  /\ artifact = _steady_state_schedule(hoisted)
  /\ local = [f \in Forwards |-> [gen |-> 0, entry |-> 0, copy |-> None,
                                  artifact |-> None, alone |-> TRUE, result |-> "done"]]
  /\ threads = {}
  /\ canceller = "idle" /\ releaser = "idle" /\ closer = "open"
  /\ left \in Disturbances

Forward(f) ==
  \/ Enter(f) \/ Choose(f) \/ RunDirect(f)
  \/ EnterSchedule(f) \/ Register(f) \/ Seed(f)
  \/ FetchArtifact(f) \/ Execute(f) \/ LeaveRun(f) \/ Leave(f)

Close == CloseGate \/ CloseSchedule \/ CloseFinish

Finished ==
  /\ \A f \in Forwards : pc[f] \in Ended
  /\ closer = "closed"
  /\ UNCHANGED vars

Next ==
  \/ \E f \in Forwards : Forward(f)
  \/ Request \/ RequestSchedule \/ ReleaseCall \/ ReleaseDrop \/ ReleaseInstall \/ Close \/ Update
  \/ Finished

(* Each forward and the closer is a running thread. *)
Spec ==
  /\ Init /\ [][Next]_vars
  /\ \A f \in Forwards : WF_vars(Forward(f))
  /\ WF_vars(Close) /\ WF_vars(RequestSchedule) /\ WF_vars(ReleaseDrop \/ ReleaseInstall)

----------------------------------------------------------------------------
(* The same executor on a device that may run out of memory. *)

(* Moving the parameter fails: release_device_residency is called with the *)
(* lock held and from inside the run gate.                                 *)
SeedFails(f) ==
  /\ pc[f] = "seed"
  /\ lock = None
  /\ hoisted /\ ~UpToDate
  /\ lock' = f
  /\ Goto(f, "waitIdle")
  /\ UNCHANGED <<gate, runGate, cancelling, version, cached, direct, hoisted, artifact, local, threads, actors>>

(* wait_idle returns when no forward is inside the run gate; the runtime   *)
(* is then rebuilt to transfer and evict.                                  *)
FallBack(f) ==
  /\ pc[f] = "waitIdle"
  /\ idle(runGate)
  /\ cached' = None /\ hoisted' = FALSE /\ artifact' = _steady_state_schedule(FALSE) /\ lock' = None
  /\ Set(f, "copy", None)
  /\ Goto(f, "fetch")
  /\ UNCHANGED <<gate, runGate, cancelling, version, direct, threads, actors>>

OOMNext == Next \/ \E f \in Forwards : SeedFails(f) \/ FallBack(f)

OOMSpec ==
  /\ Init /\ [][OOMNext]_vars
  /\ \A f \in Forwards : WF_vars(Forward(f) \/ FallBack(f))
  /\ WF_vars(Close) /\ WF_vars(RequestSchedule) /\ WF_vars(ReleaseDrop \/ ReleaseInstall)

----------------------------------------------------------------------------
(* "Cache entries track source identity + version so load_state_dict       *)
(* invalidates them": no forward computes with weights older than the ones *)
(* in place when it entered, on either path.                               *)
WeightsAreCurrent ==
  \A f \in Forwards : pc[f] = "done" => local[f].copy >= local[f].entry

(* "The body re-reads after registration": a forward that no release       *)
(* overlaps never runs an artifact without the transfers of a parameter it *)
(* has no device copy of.                                                  *)
ArtifactMatchesCopies ==
  \A f \in Forwards : pc[f] = "missing" => ~local[f].alone

(* Close drains both gates: once it has returned no forward is inside, no  *)
(* token is registered, the intra-op thread count is restored and no       *)
(* device copy is held.                                                    *)
CloseLeavesNothing ==
  closer = "closed" =>
    /\ gate.inside \cup runGate.inside \cup active \cup threads = {}
    /\ cached = None
    /\ lock = None

(* Every forward ends - with outputs, cancelled, refused or failed - and   *)
(* close returns.  "OOM this generation - stream via transfer/evict"       *)
(* promises it of a forward that runs out of memory too.                   *)
ForwardsReturn == <>(\A f \in Forwards : pc[f] \in Ended)
=============================================================================
