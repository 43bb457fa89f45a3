---------------------------- MODULE ModelManager ----------------------------
(***************************************************************************)
(* Model generations of the serving layer (serve/model_manager.py).        *)
(*                                                                         *)
(* A generation is a ModelSlot: loading a model publishes a new one and    *)
(* retires the old, unloading retires the current one.  Requests hold the  *)
(* generation they acquired until release_slot, which may come after it    *)
(* was retired.  The flag slot.closed is set under the lock by whoever     *)
(* finds a retired generation idle; module.close() is called by that       *)
(* thread after it has left the lock (closing counts the calls due).       *)
(***************************************************************************)
EXTENDS Integers, FiniteSets

CONSTANTS Models,           \* model ids
          Gens,             \* generations (ModelSlot objects)
          Requests,         \* threads that acquire and release
          Unloaders,        \* threads in unload or shutdown
          MaxLimit,         \* largest concurrency_limit a load may ask for
          Misuse,           \* what else requests may do: release "twice", "by_id"
          None

ASSUME ManagerAssumption ==
    /\ MaxLimit \in Nat /\ Misuse \subseteq {"twice", "by_id"}
    /\ IsFiniteSet(Requests)
    /\ None \notin Gens /\ None \notin Models

VARIABLES models,           \* _models: model id -> generation or None
          retiredMap,       \* versions in _retired
          model,            \* model id of each generation, None before its load
          limit,            \* concurrency_limit
          in_flight,
          retired, closed,  \* flags of the slots
          closing,          \* close() calls due
          closes,           \* close() calls made
          hold,             \* generation each request holds
          released,         \* generation it released last
          looked,           \* slot a release by model id has looked up
          warm,
          upc, ugen, utodo, \* unloaders: pc, generation, ids left to unload
          umode             \* whether it is in unload or in shutdown

slots == <<models, retiredMap, model, limit, in_flight, retired, closed, warm>>
calls == <<closing, closes>>
requests == <<hold, released, looked>>
unloaders == <<upc, ugen, utodo, umode>>
vars == <<slots, calls, requests, unloaders>>

Init ==
    /\ models = [m \in Models |-> None]
    /\ retiredMap = {}
    /\ model = [g \in Gens |-> None]
    /\ limit = [g \in Gens |-> 0]
    /\ in_flight = [g \in Gens |-> 0]
    /\ retired = [g \in Gens |-> FALSE]
    /\ closed = [g \in Gens |-> FALSE]
    /\ closing = [g \in Gens |-> 0]
    /\ closes = [g \in Gens |-> 0]
    /\ hold = [r \in Requests |-> None]
    /\ released = [r \in Requests |-> None]
    /\ looked = [r \in Requests |-> None]
    /\ warm = [g \in Gens |-> FALSE]
    /\ upc = [u \in Unloaders |-> "idle"]
    /\ ugen = [u \in Unloaders |-> None]
    /\ utodo = [u \in Unloaders |-> {}]
    /\ umode = [u \in Unloaders |-> "unload"]

-----------------------------------------------------------------------------

(* Flag g closed and owe it a close().                                     *)
MarkClosed(g) ==
    /\ closed' = [closed EXCEPT ![g] = TRUE]
    /\ closing' = [closing EXCEPT ![g] = @ + 1]

(* load publishes g.  The old generation closes at once when it is idle.   *)
Load(m, g, n) ==
    /\ model[g] = None
    /\ model' = [model EXCEPT ![g] = m]
    /\ limit' = [limit EXCEPT ![g] = n]
    /\ models' = [models EXCEPT ![m] = g]
    /\ LET old == models[m] IN
        \/ /\ old = None
           /\ UNCHANGED <<retired, retiredMap, closed, closing>>
        \/ /\ old # None /\ in_flight[old] = 0
           /\ retired' = [retired EXCEPT ![old] = TRUE]
           /\ MarkClosed(old)
           /\ UNCHANGED retiredMap
        \/ /\ old # None /\ in_flight[old] > 0
           /\ retired' = [retired EXCEPT ![old] = TRUE]
           /\ retiredMap' = retiredMap \cup {old}
           /\ UNCHANGED <<closed, closing>>
    /\ UNCHANGED <<in_flight, warm, closes, requests, unloaders>>

(* Mutant: the concurrency limit is not enforced. *)
AcquireUnlimited(r, m) ==
    /\ hold[r] = None
    /\ models[m] # None
    /\ in_flight' = [in_flight EXCEPT ![models[m]] = @ + 1]
    /\ hold' = [hold EXCEPT ![r] = models[m]]
    /\ UNCHANGED <<models, retiredMap, model, limit, retired, closed, warm, calls,
                   released, looked, unloaders>>

Acquire(r, m) ==
    /\ hold[r] = None
    /\ models[m] # None
    /\ in_flight[models[m]] < limit[models[m]]
    /\ in_flight' = [in_flight EXCEPT ![models[m]] = @ + 1]
    /\ hold' = [hold EXCEPT ![r] = models[m]]
    /\ UNCHANGED <<models, retiredMap, model, limit, retired, closed, warm, calls,
                   released, looked, unloaders>>

(* release_slot: nothing at a count of zero; the last holder of a retired  *)
(* generation flags it closed.                                             *)
ReleaseSlot(g) ==
    \/ in_flight[g] = 0 /\ UNCHANGED <<in_flight, retiredMap, closed, closing>>
    \/ /\ in_flight[g] > 0
       /\ in_flight' = [in_flight EXCEPT ![g] = @ - 1]
       /\ IF retired[g] /\ in_flight[g] = 1 /\ ~closed[g]
          THEN MarkClosed(g) /\ retiredMap' = retiredMap \ {g}
          ELSE UNCHANGED <<retiredMap, closed, closing>>

Release(r) ==
    /\ hold[r] # None
    /\ ReleaseSlot(hold[r])
    /\ hold' = [hold EXCEPT ![r] = None]
    /\ released' = [released EXCEPT ![r] = hold[r]]
    /\ UNCHANGED <<models, model, limit, retired, warm, closes, looked, unloaders>>

(* The end of warm: the generation that ran the example is marked, if it   *)
(* is still the current one.                                               *)
MarkWarm(r) ==
    /\ released[r] # None /\ models[model[released[r]]] = released[r]
    /\ warm' = [warm EXCEPT ![released[r]] = TRUE]
    /\ released' = [released EXCEPT ![r] = None]
    /\ UNCHANGED <<models, retiredMap, model, limit, in_flight, retired, closed,
                   calls, hold, looked, unloaders>>

(* The second call of a timeout and a finally path.                        *)
ReleaseAgain(r) ==
    /\ "twice" \in Misuse /\ released[r] # None
    /\ ReleaseSlot(released[r])
    /\ released' = [released EXCEPT ![r] = None]
    /\ UNCHANGED <<models, model, limit, retired, warm, closes, hold, looked,
                   unloaders>>

(* release(model_id) looks the current generation up under the lock ...    *)
LookUp(r) ==
    /\ "by_id" \in Misuse /\ hold[r] # None /\ looked[r] = None
    /\ looked' = [looked EXCEPT ![r] = models[model[hold[r]]]]
    /\ hold' = [hold EXCEPT ![r] = None]
    /\ UNCHANGED <<slots, calls, released, unloaders>>

(* ... and releases it after having left the lock.                         *)
ReleaseLooked(r) ==
    /\ looked[r] # None
    /\ ReleaseSlot(looked[r])
    /\ looked' = [looked EXCEPT ![r] = None]
    /\ UNCHANGED <<models, model, limit, retired, warm, closes, hold, released,
                   unloaders>>

-----------------------------------------------------------------------------
(* unload, and shutdown, which unloads every model and then sweeps the     *)
(* retired ones                                                            *)

(* Mutant: a busy generation that is unloaded is not kept in _retired. *)
RetireUnlisted(u, m) ==
    LET g == models[m] IN
    /\ models' = [models EXCEPT ![m] = None]
    /\ retired' = [retired EXCEPT ![g] = TRUE]
    /\ upc' = [upc EXCEPT ![u] = "drain"]
    /\ ugen' = [ugen EXCEPT ![u] = g]
    /\ UNCHANGED <<retiredMap, model, limit, in_flight, closed, warm, calls, requests>>

(* Retire the current generation of m and start to drain it.               *)
Retire(u, m) ==
    LET g == models[m] IN
    /\ models' = [models EXCEPT ![m] = None]
    /\ retired' = [retired EXCEPT ![g] = TRUE]
    /\ retiredMap' = IF in_flight[g] > 0 THEN retiredMap \cup {g} ELSE retiredMap
    /\ upc' = [upc EXCEPT ![u] = "drain"]
    /\ ugen' = [ugen EXCEPT ![u] = g]
    /\ UNCHANGED <<model, limit, in_flight, closed, warm, calls, requests>>

Unload(u, m) ==
    /\ upc[u] = "idle" /\ models[m] # None
    /\ Retire(u, m)
    /\ umode' = [umode EXCEPT ![u] = "unload"]
    /\ UNCHANGED utodo

Shutdown(u) ==
    /\ upc[u] = "idle"
    /\ upc' = [upc EXCEPT ![u] = "next"]
    /\ umode' = [umode EXCEPT ![u] = "shutdown"]
    /\ utodo' = [utodo EXCEPT ![u] = {m \in Models : models[m] # None}]
    /\ UNCHANGED <<slots, calls, requests, ugen>>

(* An id that is gone by now is skipped (the error is suppressed).         *)
UnloadNext(u, m) ==
    /\ upc[u] = "next" /\ m \in utodo[u]
    /\ utodo' = [utodo EXCEPT ![u] = @ \ {m}]
    /\ \/ models[m] # None /\ Retire(u, m)
       \/ models[m] = None /\ UNCHANGED <<slots, calls, requests, upc, ugen>>
    /\ UNCHANGED umode

(* The drain ends when the generation is idle or its timeout has passed.   *)
Drained(u) ==
    /\ upc[u] = "drain"
    /\ upc' = [upc EXCEPT ![u] = "finish"]
    /\ UNCHANGED <<slots, calls, requests, ugen, utodo, umode>>

(* Where an unloader goes on from the end of one unload.                   *)
Onward(u) == IF umode[u] = "shutdown" THEN "next" ELSE "idle"

(* The second lock region of unload, with the condition to close left open.*)
FinishIf(u, close) ==
    /\ upc[u] = "finish"
    /\ IF close
       THEN MarkClosed(ugen[u]) /\ retiredMap' = retiredMap \ {ugen[u]}
       ELSE UNCHANGED <<closed, closing, retiredMap>>
    /\ upc' = [upc EXCEPT ![u] = Onward(u)]
    /\ ugen' = [ugen EXCEPT ![u] = None]
    /\ UNCHANGED <<models, model, limit, in_flight, retired, warm, closes, requests,
                   utodo, umode>>

(* Mutant: after the drain timeout the generation is closed anyway. *)
FinishUnloadForced(u) == FinishIf(u, ~closed[ugen[u]])

(* Mutant: the closed flag is not looked at after the drain. *)
FinishUnloadTwice(u) == FinishIf(u, in_flight[ugen[u]] = 0)

(* Mutant: an unload that found the generation idle forgets to close it. *)
FinishUnloadNever(u) == FinishIf(u, FALSE)

(* Close the generation unless a request uses it or its last one closed it.*)
FinishUnload(u) == FinishIf(u, in_flight[ugen[u]] = 0 /\ ~closed[ugen[u]])

(* The end of shutdown: close what is retired, idle and not closed.        *)
Sweep(u) ==
    LET idle == {g \in retiredMap : in_flight[g] = 0 /\ ~closed[g]} IN
    /\ upc[u] = "next" /\ utodo[u] = {}
    /\ closed' = [g \in Gens |-> closed[g] \/ g \in idle]
    /\ closing' = [g \in Gens |-> IF g \in idle THEN closing[g] + 1 ELSE closing[g]]
    /\ retiredMap' = retiredMap \ idle
    /\ upc' = [upc EXCEPT ![u] = "idle"]
    /\ UNCHANGED <<models, model, limit, in_flight, retired, warm, closes, requests,
                   ugen, utodo, umode>>

(* The thread that flagged g closed calls module.close().                  *)
CloseModule(g) ==
    /\ closing[g] > 0
    /\ closing' = [closing EXCEPT ![g] = @ - 1]
    /\ closes' = [closes EXCEPT ![g] = @ + 1]
    /\ UNCHANGED <<slots, requests, unloaders>>

-----------------------------------------------------------------------------

UnloaderStep(u) ==
    \/ \E m \in Models : UnloadNext(u, m)
    \/ Drained(u) \/ FinishUnload(u) \/ Sweep(u)

RequestStep(r) ==
    \/ \E m \in Models : Acquire(r, m)
    \/ MarkWarm(r) \/ ReleaseAgain(r) \/ LookUp(r) \/ ReleaseLooked(r)

Next ==
    \/ \E m \in Models, g \in Gens, n \in 1..MaxLimit : Load(m, g, n)
    \/ \E r \in Requests : Release(r) \/ RequestStep(r)
    \/ \E u \in Unloaders : Shutdown(u) \/ UnloaderStep(u) \/ \E m \in Models : Unload(u, m)
    \/ \E g \in Gens : CloseModule(g)

(* Requests end, drains are bounded by their timeout and threads run on.   *)
Fairness ==
    /\ \A r \in Requests : WF_vars(Release(r))
    /\ \A u \in Unloaders : WF_vars(UnloaderStep(u))
    /\ \A g \in Gens : WF_vars(CloseModule(g))

Spec == Init /\ [][Next]_vars /\ Fairness

-----------------------------------------------------------------------------
(* Properties                                                              *)

Holders(g) == {r \in Requests : hold[r] = g}

(* Type invariant.                                                         *)
TypeOK ==
    /\ models \in [Models -> Gens \cup {None}]
    /\ retiredMap \subseteq Gens
    /\ model \in [Gens -> Models \cup {None}]
    /\ limit \in [Gens -> Nat]
    /\ in_flight \in [Gens -> Nat]
    /\ retired \in [Gens -> BOOLEAN] /\ closed \in [Gens -> BOOLEAN]
    /\ warm \in [Gens -> BOOLEAN]
    /\ closing \in [Gens -> Nat] /\ closes \in [Gens -> Nat]
    /\ hold \in [Requests -> Gens \cup {None}]
    /\ released \in [Requests -> Gens \cup {None}]
    /\ looked \in [Requests -> Gens \cup {None}]
    /\ upc \in [Unloaders -> {"idle", "drain", "finish", "next"}]
    /\ ugen \in [Unloaders -> Gens \cup {None}]
    /\ utodo \in [Unloaders -> SUBSET Models]
    /\ umode \in [Unloaders -> {"unload", "shutdown"}]

(* A module is closed at most once, whichever of load, unload, shutdown    *)
(* and the last release gets to it, and only after it was unpublished.     *)
ClosedOnce ==
    \A g \in Gens :
        /\ closing[g] + closes[g] <= 1
        /\ closing[g] + closes[g] = 1 => \A m \in Models : models[m] # g

(* No generation is closed, or about to be, while a request holds it: "a   *)
(* timed-out drain never closes an in-use module".                         *)
NeverClosedInUse ==
    \A g \in Gens : closing[g] + closes[g] > 0 => Holders(g) = {}

(* in_flight counts the holders of exactly that generation, also across    *)
(* replacements, and stays within the concurrency limit.                   *)
InFlightExact ==
    \A g \in Gens : /\ in_flight[g] = Cardinality(Holders(g))
                    /\ in_flight[g] <= limit[g]

(* _retired holds only generations in use, so the sweep at the end of      *)
(* shutdown finds none that was forgotten; and every retired generation    *)
(* that is not closed is in use or in the hands of an unload.              *)
RetiredIsAccountedFor ==
    \A g \in Gens :
        /\ g \in retiredMap => retired[g] /\ ~closed[g] /\ in_flight[g] > 0
        /\ retired[g] /\ ~closed[g] => g \in retiredMap \/ \E u \in Unloaders : ugen[u] = g

(* Every generation that is replaced or unloaded is closed in the end.     *)
RetiredCloses == \A g \in Gens : retired[g] ~> closes[g] = 1
=============================================================================
