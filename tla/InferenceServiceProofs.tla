----------------------- MODULE InferenceServiceProofs -----------------------
(***************************************************************************)
(* The safety of model replacement for any number of models, generations,  *)
(* requests and unloading threads; then: the inference service uses its    *)
(* model manager as the manager demands, for any number of calls, request  *)
(* ids, pools, models and generations, so that what the manager promises   *)
(* holds within the service, and the queue depth is exact.                 *)
(***************************************************************************)
EXTENDS InferenceService, FiniteSetTheorems, TLAPS

(* The provers a leaf is tried with, unless it names its own.              *)
USE SMT, Zenon, SMTT(30)

-----------------------------------------------------------------------------
(* The model manager                                                       *)

(* What is published is neither retired nor somebody else's model.         *)
Published ==
    \A m \in Models : models[m] # None =>
        model[models[m]] = m /\ ~retired[models[m]]

(* The life of one generation: its close is owed or made exactly when its  *)
(* flag is set, and until then a retired one is in use or being unloaded.  *)
LifeOf(g) ==
    /\ model[g] = None => ~retired[g] /\ in_flight[g] = 0
    /\ closed[g] => retired[g] /\ in_flight[g] = 0
    /\ closing[g] + closes[g] = IF closed[g] THEN 1 ELSE 0
    /\ g \in retiredMap => retired[g] /\ ~closed[g] /\ in_flight[g] > 0
    /\ retired[g] /\ ~closed[g] /\ in_flight[g] > 0 => g \in retiredMap
    /\ retired[g] /\ ~closed[g] => g \in retiredMap \/ \E u \in Unloaders : ugen[u] = g

Life == \A g \in Gens : LifeOf(g)

(* An unloader between its two lock regions works on a retired generation. *)
Draining ==
    \A u \in Unloaders :
        /\ upc[u] \in {"drain", "finish"} <=> ugen[u] # None
        /\ ugen[u] # None => retired[ugen[u]]

(* What requests refer to has been loaded.                                 *)
Loaded ==
    \A r \in Requests :
        /\ hold[r] # None => model[hold[r]] # None
        /\ released[r] # None => model[released[r]] # None
        /\ looked[r] # None => model[looked[r]] # None

Inv == TypeOK /\ Published /\ Life /\ Draining /\ Loaded

(* The steps that ReleaseSlot takes part in preserve what they can break.  *)
LEMMA ReleaseSlotInv ==
    ASSUME Inv, NEW g \in Gens, model[g] # None, ReleaseSlot(g),
           UNCHANGED <<models, model, limit, retired, warm, closes, unloaders>>,
           hold' \in [Requests -> Gens \cup {None}],
           released' \in [Requests -> Gens \cup {None}],
           looked' \in [Requests -> Gens \cup {None}],
           Loaded'
    PROVE  Inv'
<1> DEFINE last == retired[g] /\ in_flight[g] = 1 /\ ~closed[g]
<1>0. \/ UNCHANGED <<in_flight, retiredMap, closed, closing>>
      \/ /\ in_flight[g] > 0 /\ last
         /\ in_flight' = [in_flight EXCEPT ![g] = @ - 1]
         /\ retiredMap' = retiredMap \ {g}
         /\ closed' = [closed EXCEPT ![g] = TRUE]
         /\ closing' = [closing EXCEPT ![g] = @ + 1]
      \/ /\ in_flight[g] > 0 /\ ~last
         /\ in_flight' = [in_flight EXCEPT ![g] = @ - 1]
         /\ UNCHANGED <<retiredMap, closed, closing>>
  BY DEF ReleaseSlot, MarkClosed
<1>a. in_flight[g] \in Nat /\ in_flight \in [Gens -> Nat] /\ closing \in [Gens -> Nat]
      /\ closed \in [Gens -> BOOLEAN] /\ retiredMap \subseteq Gens
  BY DEF Inv, TypeOK
<1>1. in_flight' \in [Gens -> Nat] /\ retiredMap' \subseteq Gens
      /\ closed' \in [Gens -> BOOLEAN] /\ closing' \in [Gens -> Nat]
  <2>1. CASE UNCHANGED <<in_flight, retiredMap, closed, closing>>
    BY <1>a, <2>1
  <2>2. CASE in_flight[g] > 0 /\ in_flight' = [in_flight EXCEPT ![g] = @ - 1]
    <3>1. in_flight[g] - 1 \in Nat
      BY <1>a, <2>2
    <3>2. in_flight' \in [Gens -> Nat]
      BY <1>a, <2>2, <3>1
    <3>3. closed' \in [Gens -> BOOLEAN]
      BY Zenon, <1>0, <1>a
    <3>4. closing' \in [Gens -> Nat]
      <4>1. closing[g] + 1 \in Nat
        BY <1>a
      <4> QED
        BY <1>0, <1>a, <4>1
    <3> QED
      BY <1>0, <1>a, <3>2, <3>3, <3>4
  <2> QED
    BY <1>0, <2>1, <2>2
<1>2. TypeOK'
  BY <1>1 DEF Inv, TypeOK, unloaders
<1>3. Published'
  BY DEF Inv, Published
<1>4. ASSUME NEW h \in Gens PROVE LifeOf(h)'
  <2>1. LifeOf(h) /\ in_flight[h] \in Nat /\ closing[h] \in Nat /\ closes[h] \in Nat
    BY DEF Inv, TypeOK, Life
  <2>2. CASE h # g
    <3>1. /\ in_flight'[h] = in_flight[h] /\ closed'[h] = closed[h]
          /\ closing'[h] = closing[h] /\ (h \in retiredMap' <=> h \in retiredMap)
      BY <1>0, <1>a, <2>2
    <3> QED
      BY <2>1, <3>1 DEF LifeOf, unloaders
  <2>3. CASE h = g
    BY <1>0, <1>a, <2>1, <2>3 DEF LifeOf, unloaders
  <2> QED
    BY <2>2, <2>3
<1>5. Draining'
  BY DEF Inv, Draining, unloaders
<1> QED
  BY <1>2, <1>3, <1>4, <1>5 DEF Inv, Life

(* The first lock region of unload, on its own or within shutdown.         *)
LEMMA RetireInv ==
    ASSUME Inv, NEW u \in Unloaders, NEW m \in Models, models[m] # None, Retire(u, m),
           upc[u] \in {"idle", "next"},
           utodo' \in [Unloaders -> SUBSET Models],
           umode' \in [Unloaders -> {"unload", "shutdown"}]
    PROVE  Inv'
<1> DEFINE g == models[m]
<1>1. g \in Gens /\ ~retired[g] /\ ~closed[g] /\ model[g] = m
  BY DEF Inv, TypeOK, Published, Life, LifeOf
<1>0. ugen[u] = None
  BY DEF Inv, TypeOK, Draining
<1>2. TypeOK'
  BY Zenon, <1>1 DEF Inv, TypeOK, Retire, calls, requests
<1>3. Published'
  BY <1>1, ManagerAssumption DEF Inv, TypeOK, Published, Retire
<1>4. ASSUME NEW h \in Gens PROVE LifeOf(h)'
  <2>1. LifeOf(h) /\ in_flight[h] \in Nat
    BY DEF Inv, TypeOK, Life
  <2>2. CASE h # g
    <3>1. retired'[h] = retired[h] /\ (h \in retiredMap' <=> h \in retiredMap)
      BY <1>1, <2>2 DEF Inv, TypeOK, Retire
    <3>2. ASSUME NEW v \in Unloaders, ugen[v] = h
          PROVE  ugen'[v] = h
      BY <1>0, <3>2, ManagerAssumption DEF Inv, TypeOK, Retire
    <3> QED
      BY Zenon, <2>1, <3>1, <3>2 DEF LifeOf, Retire, calls
  <2>3. CASE h = g
    <3>1. ugen'[u] = h /\ retired'[h] /\ ~closed'[h]
      BY <1>1, <2>3 DEF Inv, TypeOK, Retire
    <3>2. h \in retiredMap' <=> in_flight[h] > 0
      BY <1>1, <2>1, <2>3 DEF LifeOf, Retire
    <3> QED
      BY <1>1, <2>1, <2>3, <3>1, <3>2, ManagerAssumption DEF LifeOf, Retire, calls
  <2> QED
    BY <2>2, <2>3
<1>5. Draining'
  BY <1>1, ManagerAssumption DEF Inv, TypeOK, Draining, Retire
<1>6. Loaded'
  BY DEF Inv, Loaded, Retire, requests
<1> QED
  BY <1>2, <1>3, <1>4, <1>5, <1>6 DEF Inv, Life

(* Publishing a generation, with the three fates of the one it replaces.   *)
LEMMA LoadInv ==
    ASSUME Inv, NEW m \in Models, NEW g \in Gens, NEW n \in 1..MaxLimit, Load(m, g, n)
    PROVE  Inv'
<1> DEFINE old == models[m]
<1>0. model[g] = None /\ LifeOf(g)
  BY DEF Inv, Life, Load
<1>1. old # None => old \in Gens /\ old # g /\ ~retired[old] /\ ~closed[old]
  BY <1>0, ManagerAssumption DEF Inv, TypeOK, Published, Life, LifeOf
<1>2. TypeOK'
  <2>1. n \in Nat
    BY ManagerAssumption
  <2>2. /\ models' \in [Models -> Gens \cup {None}] /\ model' \in [Gens -> Models \cup {None}]
        /\ limit' \in [Gens -> Nat]
    BY <2>1 DEF Inv, TypeOK, Load
  <2>3. retired' \in [Gens -> BOOLEAN] /\ closed' \in [Gens -> BOOLEAN] /\ retiredMap' \subseteq Gens
    BY Zenon, <1>1 DEF Inv, TypeOK, Load, MarkClosed
  <2>4. closing' \in [Gens -> Nat]
    BY <1>1 DEF Inv, TypeOK, Load, MarkClosed
  <2> QED
    BY <2>2, <2>3, <2>4 DEF Inv, TypeOK, Load, requests, unloaders
<1>3. ASSUME NEW o \in Models, models'[o] # None
      PROVE  model'[models'[o]] = o /\ ~retired'[models'[o]]
  <2>1. CASE o = m
    BY <1>0, <1>1, <2>1 DEF Inv, TypeOK, LifeOf, Load
  <2>2. CASE o # m
    <3>1. models'[o] = models[o] /\ models[o] \in Gens /\ model[models[o]] = o /\ ~retired[models[o]]
      BY <1>3, <2>2 DEF Inv, TypeOK, Published, Load
    <3>2. models[o] # g /\ models[o] # old
      BY <1>0, <2>2, <3>1, ManagerAssumption DEF Inv, TypeOK, Published
    <3> QED
      BY <1>1, <3>1, <3>2 DEF Inv, TypeOK, Load
  <2> QED
    BY <2>1, <2>2
<1>4. ASSUME NEW h \in Gens PROVE LifeOf(h)'
  <2>1. LifeOf(h) /\ in_flight[h] \in Nat /\ closing[h] \in Nat /\ closes[h] \in Nat
    BY DEF Inv, TypeOK, Life
  <2>2. CASE h = old
    <3>1. /\ model'[h] = model[h] /\ retired'[h]
          /\ IF in_flight[h] = 0
             THEN closed'[h] /\ closing'[h] = closing[h] + 1 /\ retiredMap' = retiredMap
             ELSE closed'[h] = closed[h] /\ closing'[h] = closing[h] /\ h \in retiredMap'
      BY <1>1, <2>1, <2>2, ManagerAssumption DEF Inv, TypeOK, Load, MarkClosed
    <3>2. model[h] # None
      BY <1>1, <2>2, ManagerAssumption DEF Inv, TypeOK, Published
    <3> QED
      BY <1>1, <2>1, <2>2, <3>1, <3>2, ManagerAssumption DEF LifeOf, Load, unloaders
  <2>3. CASE h # old
    <3>1. /\ retired'[h] = retired[h] /\ closed'[h] = closed[h] /\ closing'[h] = closing[h]
          /\ (h \in retiredMap' <=> h \in retiredMap)
          /\ h # g => model'[h] = model[h]
      BY <1>1, <2>3 DEF Inv, TypeOK, Load, MarkClosed
    <3>2. CASE h # g
      BY <2>1, <3>1, <3>2 DEF LifeOf, Load, unloaders
    <3>3. CASE h = g
      BY <1>0, <2>1, <3>1, <3>3 DEF LifeOf, Load, unloaders
    <3> QED
      BY <3>2, <3>3
  <2> QED
    BY <2>2, <2>3
<1>5. Draining'
  BY <1>1 DEF Inv, TypeOK, Draining, Load, unloaders
<1>6. Loaded'
  BY ManagerAssumption DEF Inv, TypeOK, Loaded, Load, requests
<1> QED
  BY <1>2, <1>3, <1>4, <1>5, <1>6 DEF Inv, Life, Published

(* Every step preserves the invariant.                                     *)
LEMMA StepInv ==
    ASSUME Inv, [Next]_vars
    PROVE  Inv'
<1>1. ASSUME NEW m \in Models, NEW g \in Gens, NEW n \in 1..MaxLimit, Load(m, g, n)
      PROVE  Inv'
  BY <1>1, LoadInv
<1>2. ASSUME NEW r \in Requests, Release(r)
      PROVE  Inv'
  <2>1. hold[r] \in Gens /\ model[hold[r]] # None
    BY <1>2 DEF Inv, TypeOK, Loaded, Release
  <2>2. /\ hold' \in [Requests -> Gens \cup {None}]
        /\ released' \in [Requests -> Gens \cup {None}]
        /\ looked' \in [Requests -> Gens \cup {None}]
        /\ Loaded'
    BY <1>2, <2>1 DEF Inv, TypeOK, Loaded, Release
  <2> QED
    BY <1>2, <2>1, <2>2, ReleaseSlotInv DEF Release
<1>3. ASSUME NEW r \in Requests, NEW m \in Models, Acquire(r, m)
      PROVE  Inv'
  <2>1. models[m] \in Gens /\ model[models[m]] = m /\ ~retired[models[m]]
    BY <1>3 DEF Inv, TypeOK, Published, Acquire
  <2>2. TypeOK'
    BY <1>3, <2>1 DEF Inv, TypeOK, Acquire, calls, unloaders
  <2>3. Published' /\ Draining'
    BY <1>3 DEF Inv, Published, Draining, Acquire, unloaders
  <2>4. Life'
    BY <1>3, <2>1, ManagerAssumption DEF Inv, TypeOK, Life, LifeOf, Acquire, calls, unloaders
  <2>5. Loaded'
    BY <1>3, <2>1, ManagerAssumption DEF Inv, TypeOK, Loaded, Acquire
  <2> QED
    BY <2>2, <2>3, <2>4, <2>5 DEF Inv
<1>4. ASSUME NEW r \in Requests, MarkWarm(r)
      PROVE  Inv'
  BY <1>4 DEF Inv, TypeOK, Published, Life, LifeOf, Draining, Loaded, MarkWarm, calls, unloaders
<1>5. ASSUME NEW r \in Requests, ReleaseAgain(r)
      PROVE  Inv'
  <2>1. released[r] \in Gens /\ model[released[r]] # None
    BY <1>5 DEF Inv, TypeOK, Loaded, ReleaseAgain
  <2>2. /\ hold' \in [Requests -> Gens \cup {None}]
        /\ released' \in [Requests -> Gens \cup {None}]
        /\ looked' \in [Requests -> Gens \cup {None}]
        /\ Loaded'
    BY <1>5, <2>1 DEF Inv, TypeOK, Loaded, ReleaseAgain
  <2> QED
    BY <1>5, <2>1, <2>2, ReleaseSlotInv DEF ReleaseAgain
<1>6. ASSUME NEW r \in Requests, LookUp(r)
      PROVE  Inv'
  <2>1. hold[r] \in Gens /\ model[hold[r]] \in Models
    BY <1>6 DEF Inv, TypeOK, Loaded, LookUp
  <2>2. models[model[hold[r]]] # None => model[models[model[hold[r]]]] # None
    BY <2>1, ManagerAssumption DEF Inv, TypeOK, Published
  <2> QED
    BY <1>6, <2>1, <2>2
    DEF Inv, TypeOK, Published, Life, LifeOf, Draining, Loaded, LookUp, slots, calls, unloaders
<1>7. ASSUME NEW r \in Requests, ReleaseLooked(r)
      PROVE  Inv'
  <2>1. looked[r] \in Gens /\ model[looked[r]] # None
    BY <1>7 DEF Inv, TypeOK, Loaded, ReleaseLooked
  <2>2. /\ hold' \in [Requests -> Gens \cup {None}]
        /\ released' \in [Requests -> Gens \cup {None}]
        /\ looked' \in [Requests -> Gens \cup {None}]
        /\ Loaded'
    BY <1>7, <2>1 DEF Inv, TypeOK, Loaded, ReleaseLooked
  <2> QED
    BY <1>7, <2>1, <2>2, ReleaseSlotInv DEF ReleaseLooked
<1>8. ASSUME NEW u \in Unloaders, Shutdown(u)
      PROVE  Inv'
  BY <1>8 DEF Inv, TypeOK, Published, Life, LifeOf, Draining, Loaded, Shutdown, slots, calls, requests
<1>9. ASSUME NEW u \in Unloaders, NEW m \in Models, Unload(u, m)
      PROVE  Inv'
  <2>1. utodo' \in [Unloaders -> SUBSET Models] /\ umode' \in [Unloaders -> {"unload", "shutdown"}]
    BY <1>9 DEF Inv, TypeOK, Unload
  <2> QED
    BY <1>9, <2>1, RetireInv DEF Unload
<1>10. ASSUME NEW u \in Unloaders, NEW m \in Models, UnloadNext(u, m)
       PROVE  Inv'
  <2>1. utodo' \in [Unloaders -> SUBSET Models] /\ umode' \in [Unloaders -> {"unload", "shutdown"}]
    BY <1>10 DEF Inv, TypeOK, UnloadNext
  <2>2. CASE models[m] # None
    BY <1>10, <2>1, <2>2, RetireInv DEF UnloadNext
  <2>3. CASE models[m] = None
    BY <1>10, <2>1, <2>3
    DEF Inv, TypeOK, Published, Life, LifeOf, Draining, Loaded, UnloadNext, slots, calls, requests
  <2> QED
    BY <2>2, <2>3
<1>11. ASSUME NEW u \in Unloaders, Drained(u)
       PROVE  Inv'
  BY <1>11 DEF Inv, TypeOK, Published, Life, LifeOf, Draining, Loaded, Drained, slots, calls, requests
<1>12. ASSUME NEW u \in Unloaders, FinishUnload(u)
       PROVE  Inv'
  <2> DEFINE g == ugen[u]
  <2>1. g \in Gens /\ retired[g]
    BY <1>12 DEF Inv, TypeOK, Draining, FinishUnload, FinishIf
  <2>2. TypeOK'
    <3>1. closed' \in [Gens -> BOOLEAN] /\ retiredMap' \subseteq Gens
      BY Zenon, <1>12, <2>1 DEF Inv, TypeOK, FinishUnload, FinishIf, MarkClosed
    <3>2. closing' \in [Gens -> Nat]
      BY <1>12, <2>1 DEF Inv, TypeOK, FinishUnload, FinishIf, MarkClosed
    <3>3. upc' \in [Unloaders -> {"idle", "drain", "finish", "next"}]
          /\ ugen' \in [Unloaders -> Gens \cup {None}]
      BY <1>12 DEF Inv, TypeOK, FinishUnload, FinishIf, Onward
    <3> QED
      BY <1>12, <3>1, <3>2, <3>3 DEF Inv, TypeOK, FinishUnload, FinishIf, requests
  <2>3. Published' /\ Loaded'
    BY <1>12 DEF Inv, Published, Loaded, FinishUnload, FinishIf, requests
  <2>4. Life'
    <3>1. CASE in_flight[g] = 0 /\ ~closed[g]
      BY <1>12, <2>1, <3>1, ManagerAssumption
      DEF Inv, TypeOK, Life, LifeOf, FinishUnload, FinishIf, MarkClosed
    <3>2. CASE ~(in_flight[g] = 0 /\ ~closed[g])
      BY <1>12, <2>1, <3>2, ManagerAssumption DEF Inv, TypeOK, Life, LifeOf, FinishUnload, FinishIf
    <3> QED
      BY <3>1, <3>2
  <2>5. Draining'
    BY <1>12 DEF Inv, TypeOK, Draining, FinishUnload, FinishIf, Onward
  <2> QED
    BY <2>2, <2>3, <2>4, <2>5 DEF Inv
<1>13. ASSUME NEW u \in Unloaders, Sweep(u)
       PROVE  Inv'
  <2>1. {g \in retiredMap : in_flight[g] = 0 /\ ~closed[g]} = {}
    BY DEF Inv, TypeOK, Life, LifeOf
  <2>2. closed' = closed /\ closing' = closing /\ retiredMap' = retiredMap
    BY <1>13, <2>1 DEF Inv, TypeOK, Sweep
  <2> QED
    BY <1>13, <2>2 DEF Inv, TypeOK, Published, Life, LifeOf, Draining, Loaded, Sweep, requests
<1>14. ASSUME NEW g \in Gens, CloseModule(g)
       PROVE  Inv'
  <2>1. TypeOK'
    BY <1>14 DEF Inv, TypeOK, CloseModule, slots, requests, unloaders
  <2>2. Life'
    BY <1>14 DEF Inv, TypeOK, Life, LifeOf, CloseModule, slots, unloaders
  <2> QED
    BY Zenon, <1>14, <2>1, <2>2
    DEF Inv, Published, Draining, Loaded, CloseModule, slots, requests, unloaders
<1>15. CASE UNCHANGED vars
  BY <1>15
  DEF Inv, TypeOK, Published, Life, LifeOf, Draining, Loaded, vars, slots, calls, requests, unloaders
<1> QED
  BY <1>1, <1>2, <1>3, <1>4, <1>5, <1>6, <1>7, <1>8, <1>9, <1>10, <1>11, <1>12, <1>13,
     <1>14, <1>15
  DEF Next, RequestStep, UnloaderStep

(* The manager starts with nothing loaded.                                 *)
LEMMA InitInv == Init => Inv
BY DEF Init, Inv, TypeOK, Published, Life, LifeOf, Draining, Loaded

(* The inductive invariant holds of every behaviour, whatever the callers  *)
(* do with the slots they acquired.                                        *)
THEOREM Invariance == Spec => []Inv
<1>1. Inv /\ [Next]_vars => Inv'
  BY StepInv
<1> QED
  BY InitInv, <1>1, PTL DEF Spec

(* However load, unload, shutdown and the last release interleave, and     *)
(* even if slots are released twice or by model id, close() is called at   *)
(* most once for a generation, and never for one that is still published.  *)
THEOREM ClosesAtMostOnce == Spec => []ClosedOnce
<1>1. Inv => ClosedOnce
  <2>1. ASSUME Inv, NEW g \in Gens PROVE closing[g] + closes[g] <= 1
    BY <2>1 DEF Inv, TypeOK, Life, LifeOf
  <2>2. ASSUME Inv, NEW g \in Gens, closing[g] + closes[g] = 1, NEW m \in Models
        PROVE  models[m] # g
    BY <2>2, ManagerAssumption DEF Inv, TypeOK, Published, Life, LifeOf
  <2> QED
    BY <2>1, <2>2 DEF ClosedOnce
<1> QED
  BY Invariance, <1>1, PTL

(* No retired generation is forgotten: it is closed, in use, or in the     *)
(* hands of an unload.                                                     *)
THEOREM RetiredNotForgotten == Spec => []RetiredIsAccountedFor
<1>1. Inv => RetiredIsAccountedFor
  BY DEF Inv, Life, LifeOf, RetiredIsAccountedFor
<1> QED
  BY Invariance, <1>1, PTL

-----------------------------------------------------------------------------
(* Counting, for callers that release what they acquired exactly once.     *)

Counted ==
    /\ \A r \in Requests : looked[r] = None
    /\ \A g \in Gens : in_flight[g] = Cardinality(Holders(g)) /\ in_flight[g] <= limit[g]

(* A generation has finitely many holders, as there are requests.          *)
LEMMA HoldersFinite == ASSUME NEW g PROVE IsFiniteSet(Holders(g)) /\ Cardinality(Holders(g)) \in Nat
<1>1. Holders(g) \subseteq Requests
  BY DEF Holders
<1> QED
  BY <1>1, ManagerAssumption, FS_Subset, FS_CardinalityType

(* A step that leaves the holders and the counts alone.                    *)
LEMMA CountedUnchanged ==
    ASSUME Counted, UNCHANGED <<hold, looked, in_flight>>,
           \A g \in Gens : limit'[g] = limit[g] \/ in_flight[g] <= limit'[g]
    PROVE  Counted'
<1>1. \A g : Holders(g)' = Holders(g)
  BY DEF Holders
<1>2. ASSUME NEW g \in Gens
      PROVE  in_flight'[g] = Cardinality(Holders(g)') /\ in_flight'[g] <= limit'[g]
  BY <1>1 DEF Counted
<1> QED
  BY <1>2 DEF Counted

(* acquire adds its request to the holders of the published generation.    *)
LEMMA AcquireCounted ==
    ASSUME Inv, Counted, NEW r \in Requests, NEW m \in Models, Acquire(r, m)
    PROVE  Counted'
<1> DEFINE a == models[m]
<1>1. a \in Gens /\ hold[r] = None /\ a # None
  BY ManagerAssumption DEF Inv, TypeOK, Acquire
<1>2. ASSUME NEW g \in Gens
      PROVE  in_flight'[g] = Cardinality(Holders(g)') /\ in_flight'[g] <= limit'[g]
  <2>1. CASE g = a
    <3>1. Holders(g)' = Holders(g) \cup {r} /\ r \notin Holders(g)
      BY <1>1, <2>1 DEF Inv, TypeOK, Acquire, Holders
    <3>2. Cardinality(Holders(g)') = Cardinality(Holders(g)) + 1
      BY Zenon, <3>1, HoldersFinite, FS_AddElement
    <3>3. in_flight'[g] = in_flight[g] + 1 /\ in_flight[g] < limit[g] /\ limit' = limit
      BY <1>1, <2>1 DEF Inv, TypeOK, Acquire
    <3> QED
      BY <3>2, <3>3 DEF Counted, Inv, TypeOK
  <2>2. CASE g # a
    <3>1. Holders(g)' = Holders(g)
      BY <1>1, <2>2, ManagerAssumption, Zenon DEF Inv, TypeOK, Acquire, Holders
    <3> QED
      BY <1>1, <2>2, <3>1 DEF Counted, Inv, TypeOK, Acquire
  <2> QED
    BY <2>1, <2>2
<1> QED
  BY <1>2 DEF Counted, Acquire

(* release_slot takes its request out of the generation it acquired.       *)
LEMMA ReleaseCounted ==
    ASSUME Inv, Counted, NEW r \in Requests, Release(r)
    PROVE  Counted'
<1> DEFINE a == hold[r]
<1>1. a \in Gens /\ a # None
  BY DEF Inv, TypeOK, Release
<1>2. r \in Holders(a)
  BY DEF Holders
<1>3. Cardinality(Holders(a)) # 0
  BY <1>2, HoldersFinite, FS_EmptySet
<1>4. in_flight[a] \in Nat /\ in_flight[a] > 0
  BY <1>1, <1>3 DEF Counted, Inv, TypeOK
<1>5. in_flight' = [in_flight EXCEPT ![a] = @ - 1]
  BY <1>4 DEF Release, ReleaseSlot
<1>6. ASSUME NEW g \in Gens
      PROVE  in_flight'[g] = Cardinality(Holders(g)') /\ in_flight'[g] <= limit'[g]
  <2>1. CASE g = a
    <3>1. Holders(g)' = Holders(g) \ {r}
      BY <1>1, <2>1, ManagerAssumption DEF Inv, TypeOK, Release, Holders
    <3>2. Cardinality(Holders(g)') = Cardinality(Holders(g)) - 1
      BY ZenonT(30), <1>2, <2>1, <3>1, HoldersFinite, FS_RemoveElement
    <3> QED
      BY <1>1, <1>4, <1>5, <2>1, <3>2 DEF Counted, Inv, TypeOK, Release
  <2>2. CASE g # a
    <3>1. Holders(g)' = Holders(g)
      BY <1>1, <2>2, ManagerAssumption DEF Inv, TypeOK, Release, Holders
    <3> QED
      BY <1>1, <1>5, <2>2, <3>1 DEF Counted, Inv, TypeOK, Release
  <2> QED
    BY <2>1, <2>2
<1> QED
  BY <1>6 DEF Counted, Release

(* Every step keeps the counts exact.                                      *)
LEMMA StepCounted ==
    ASSUME Misuse = {}, Inv, Counted, [Next]_vars
    PROVE  Counted'
<1>1. ASSUME NEW m \in Models, NEW g \in Gens, NEW n \in 1..MaxLimit, Load(m, g, n)
      PROVE  Counted'
  <2>1. in_flight[g] = 0 /\ n >= 0
    BY <1>1, ManagerAssumption DEF Inv, Life, LifeOf, Load
  <2>2. \A h \in Gens : limit'[h] = limit[h] \/ in_flight[h] <= limit'[h]
    BY <1>1, <2>1, ManagerAssumption DEF Inv, TypeOK, Load
  <2> QED
    BY <1>1, <2>2, CountedUnchanged, Zenon DEF Load, requests
<1>2. ASSUME NEW r \in Requests, Release(r)
      PROVE  Counted'
  BY <1>2, ReleaseCounted
<1>3. ASSUME NEW r \in Requests, NEW m \in Models, Acquire(r, m)
      PROVE  Counted'
  BY <1>3, AcquireCounted, Zenon
<1>4. ASSUME NEW r \in Requests, MarkWarm(r)
      PROVE  Counted'
  BY <1>4, CountedUnchanged DEF MarkWarm
<1>5. ASSUME NEW r \in Requests, ReleaseAgain(r) \/ LookUp(r) \/ ReleaseLooked(r)
      PROVE  Counted'
  BY <1>5 DEF Counted, ReleaseAgain, LookUp, ReleaseLooked
<1>6. ASSUME NEW u \in Unloaders,
             \/ Shutdown(u) \/ Drained(u) \/ FinishUnload(u) \/ Sweep(u)
             \/ \E m \in Models : Unload(u, m) \/ UnloadNext(u, m)
      PROVE  Counted'
  <2>1. UNCHANGED <<hold, looked, in_flight, limit>>
    BY <1>6
    DEF Shutdown, Drained, FinishUnload, FinishIf, Sweep, Unload, UnloadNext, Retire, slots,
        requests
  <2> QED
    BY <2>1, CountedUnchanged, Zenon
<1>7. ASSUME NEW g \in Gens, CloseModule(g)
      PROVE  Counted'
  BY ZenonT(30), <1>7, CountedUnchanged DEF CloseModule, slots, requests
<1>8. CASE UNCHANGED vars
  BY <1>8, CountedUnchanged DEF vars, slots, requests
<1> QED
  BY <1>1, <1>2, <1>3, <1>4, <1>5, <1>6, <1>7, <1>8 DEF Next, RequestStep, UnloaderStep

(* Nobody holds anything at the start.                                     *)
LEMMA InitCounted == Init => Counted
<1> SUFFICES ASSUME Init PROVE Counted
  OBVIOUS
<1>1. ASSUME NEW g \in Gens PROVE in_flight[g] = Cardinality(Holders(g)) /\ in_flight[g] <= limit[g]
  <2>1. Holders(g) = {}
    BY ManagerAssumption DEF Init, Holders
  <2> QED
    BY <2>1, FS_EmptySet DEF Init
<1> QED
  BY <1>1 DEF Init, Counted

(* When every request releases its slot once, in_flight is the number of   *)
(* requests that hold the generation and within its concurrency limit.     *)
THEOREM CountsAreExact == Misuse = {} => (Spec => []InFlightExact)
<1> SUFFICES ASSUME Misuse = {} PROVE Spec => []InFlightExact
  OBVIOUS
<1>1. Inv /\ Counted /\ [Next]_vars => Counted'
  BY StepCounted, Zenon
<1>2. Counted => InFlightExact
  BY DEF Counted, InFlightExact
<1> QED
  BY InitCounted, Invariance, <1>1, <1>2, PTL DEF Spec

(* A closed generation is idle, and an idle one has no holder.             *)
LEMMA ExactNeverClosed ==
    ASSUME Inv, InFlightExact
    PROVE  NeverClosedInUse
<1> SUFFICES ASSUME NEW g \in Gens, closing[g] + closes[g] > 0
             PROVE  Holders(g) = {}
  BY DEF NeverClosedInUse
<1>1. in_flight[g] = 0
  BY DEF Inv, TypeOK, Life, LifeOf
<1> QED
  BY <1>1, HoldersFinite, FS_EmptySet DEF InFlightExact

(* "A timed-out drain never closes an in-use module": when every request   *)
(* releases its slot once, no generation is closed, or committed to be,    *)
(* while a request holds it.                                               *)
THEOREM NeverClosesInUse == Misuse = {} => (Spec => []NeverClosedInUse)
<1> SUFFICES ASSUME Misuse = {} PROVE Spec => []NeverClosedInUse
  OBVIOUS
<1>1. Inv /\ InFlightExact => NeverClosedInUse
  BY ExactNeverClosed
<1> QED
  BY CountsAreExact, Invariance, <1>1, PTL

-----------------------------------------------------------------------------
(* The service                                                             *)

Pcs == {"idle", "acquire", "pool", "submit", "undo", "register", "attach", "wait", "grace", "done"}
Futs == {"none", "pending", "running", "forward", "released", "done", "cancelled"}
Callbacks == {"none", "attached", "unlist", "over"}

(* A call holds a slot from its acquire until exactly one of the submit    *)
(* that fails, the end of its forward and the callback of a future that    *)
(* was cancelled.                                                          *)
Holding(p, f, k) ==
    \/ p \in {"pool", "submit"} \/ f \in {"pending", "running", "forward"}
    \/ f = "cancelled" /\ k \in {"none", "attached"}

(* How far a call, its future and its callback may be from each other.     *)
Fits(p, f, k) ==
    /\ p \in {"idle", "acquire", "pool", "submit", "undo"} => f = "none"
    /\ p \in {"register", "attach", "wait", "grace"} => f # "none"
    /\ k # "none" <=> p \in {"wait", "grace"} \/ (p = "done" /\ f # "none")
    /\ f \in {"forward", "released", "done"} => k # "none"
    /\ k \in {"unlist", "over"} => f \in {"done", "cancelled"}

CallOK(c) ==
    /\ Fits(pc[c], fut[c], callback[c])
    /\ hold[c] # None <=> Holding(pc[c], fut[c], callback[c])
    /\ pc[c] # "idle" => rid[c] \in Rids

CallTypes ==
    /\ pc \in [Requests -> Pcs] /\ rid \in [Requests -> Rids \cup {None}]
    /\ poolOf \in [Requests -> Nat] /\ fut \in [Requests -> Futs]
    /\ callback \in [Requests -> Callbacks] /\ token \subseteq Requests
    /\ canceller \in Requests \cup {None} /\ ctodo \subseteq Requests

(* stop always has a pool to shut down.                                    *)
ServiceTypes ==
    /\ ready \in BOOLEAN /\ reserved \subseteq Rids
    /\ pools \in Nat /\ pool \in 0..pools /\ shut \subseteq 1..pools
    /\ active \in [Rids -> Requests \cup {None}]
    /\ ctl = "up" => pool # 0
    /\ ctl = "cancel" => stopPool \in 1..pools

Depth == queue_depth \in 0..MaxQueue /\ queue_depth = Cardinality(InQueue)

Calls == \A c \in Requests : CallOK(c)

ServiceInv == CallTypes /\ ServiceTypes /\ Calls /\ Depth

-----------------------------------------------------------------------------
(* The manager's steps                                                     *)

LEMMA StopperIsOne == Stopper \in Unloaders
<1>1. \E u \in Unloaders : TRUE
  BY ServiceAssumption, FS_EmptySet
<1> QED
  BY <1>1 DEF Stopper

(* Every release of the service is one the manager expects: the call still *)
(* holds the slot.                                                         *)
LEMMA ReleasesOnce ==
    ASSUME Calls, NEW c \in Requests, Holding(pc[c], fut[c], callback[c]), ReleaseHeld(c)
    PROVE  Release(c)
<1>1. hold[c] # None
  BY DEF Calls, CallOK
<1> QED
  BY <1>1 DEF ReleaseHeld, Release

LEMMA ContractStep ==
    ASSUME ServiceInv, [ServiceNext]_serviceVars
    PROVE  [Next]_vars
<1>1. CASE UNCHANGED manager
  BY <1>1 DEF manager, vars
<1>2. ASSUME NEW c \in Requests, NEW r \in Rids, Admit(c, r) PROVE UNCHANGED manager
  BY <1>2 DEF Admit
<1>3. ASSUME NEW c \in Requests, InferStep(c) PROVE [Next]_vars
  <2>1. ASSUME NEW m \in Models, AcquireSlot(c, m) PROVE Next
    BY <2>1 DEF AcquireSlot, Next, RequestStep
  <2>2. CASE Submit(c) /\ ~UNCHANGED manager
    <3>1. pc[c] = "submit" /\ ReleaseHeld(c)
      BY <2>2 DEF Submit
    <3>2. Release(c)
      BY <3>1, ReleasesOnce DEF Holding, ServiceInv
    <3> QED
      BY <3>2 DEF Next
  <2>3. CASE \/ \E m \in Models : AcquireFails(c, m)
             \/ EnsurePool(c) \/ Undo(c) \/ Register(c) \/ Attach(c)
             \/ Result(c) \/ Timeout(c) \/ GraceEnds(c)
    <3>1. UNCHANGED manager
      BY <2>3 DEF AcquireFails, EnsurePool, Undo, Register, Attach, Result, Timeout, GraceEnds
    <3> QED
      BY <3>1, <1>1
  <2> QED
    BY <1>1, <1>3, <2>1, <2>2, <2>3 DEF InferStep
<1>4. ASSUME NEW c \in Requests, PoolStep(c) PROVE [Next]_vars
  <2>1. CASE EndForward(c)
    <3>1. Holding(pc[c], fut[c], callback[c]) /\ ReleaseHeld(c)
      BY <2>1 DEF EndForward, Holding
    <3> QED
      BY <3>1, ReleasesOnce DEF Next, ServiceInv
  <2>2. CASE Finished(c) /\ ~UNCHANGED manager
    <3>1. fut[c] = "cancelled" /\ callback[c] = "attached" /\ ReleaseHeld(c)
      BY <2>2 DEF Finished, FinishedIf
    <3>2. Holding(pc[c], fut[c], callback[c])
      BY <3>1 DEF Holding
    <3> QED
      BY <3>1, <3>2, ReleasesOnce DEF Next, ServiceInv
  <2>3. CASE Pick(c) \/ BeginForward(c) \/ SetResult(c) \/ Unlist(c)
    <3>1. UNCHANGED manager
      BY <2>3 DEF Pick, BeginForward, SetResult, Unlist
    <3> QED
      BY <3>1, <1>1
  <2> QED
    BY <1>1, <1>4, <2>1, <2>2, <2>3 DEF PoolStep
<1>5. CASE (\E r \in Rids : Cancel(r)) \/ CancelLooked \/ Start \/ Stop
  <2>1. UNCHANGED manager
    BY <1>5 DEF Cancel, CancelLooked, Start, Stop
  <2> QED
    BY <2>1, <1>1
<1>6. CASE StopStep
  <2>1. CASE JoinPool
    BY <2>1, StopperIsOne DEF JoinPool, Next
  <2>2. CASE (\E c \in Requests : StopCancels(c)) \/ ShutPool \/ StopEnds
    <3>1. UNCHANGED manager
      BY <2>2, Zenon DEF StopCancels, ShutPool, StopEnds
    <3> QED
      BY <3>1, <1>1
  <2> QED
    BY <1>6, <2>1, <2>2 DEF StopStep
<1>7. CASE ManagerStep
  BY <1>7, StopperIsOne DEF ManagerStep, Next
<1>8. CASE UNCHANGED serviceVars
  <2>1. UNCHANGED manager
    BY <1>8 DEF serviceVars
  <2> QED
    BY <2>1, <1>1
<1> QED
  BY <1>1, <1>2, <1>3, <1>4, <1>5, <1>6, <1>7, <1>8 DEF ServiceNext

-----------------------------------------------------------------------------
(* The service's own state                                                 *)

Queueing(p, f, k) == p # "idle" /\ k # "over" /\ ~(p = "done" /\ f = "none")

LEMMA QueueIs == InQueue = {c \in Requests : Queueing(pc[c], fut[c], callback[c])}
BY DEF InQueue, Over, Queueing

LEMMA QueueFinite == IsFiniteSet(InQueue) /\ Cardinality(InQueue) \in Nat
<1>1. InQueue \subseteq Requests
  BY DEF InQueue
<1> QED
  BY <1>1, ManagerAssumption, FS_Subset, FS_CardinalityType

(* A step of one call c, its future or its callback: the others stay, and  *)
(* the queue depth follows c in or out of the queue.                       *)
LEMMA CallStep ==
    ASSUME ServiceInv, NEW c \in Requests, CallTypes', ServiceTypes', CallOK(c)',
           \A d \in Requests : d # c =>
               /\ pc'[d] = pc[d] /\ fut'[d] = fut[d] /\ callback'[d] = callback[d]
               /\ rid'[d] = rid[d] /\ hold'[d] = hold[d],
           NEW was \in BOOLEAN, was <=> Queueing(pc[c], fut[c], callback[c]),
           NEW is \in BOOLEAN, is <=> Queueing(pc'[c], fut'[c], callback'[c]),
           \/ (was <=> is) /\ queue_depth' = queue_depth
           \/ ~was /\ is /\ queue_depth < MaxQueue /\ queue_depth' = queue_depth + 1
           \/ was /\ ~is /\ Dequeue
    PROVE  ServiceInv'
<1>1. Calls'
  <2> SUFFICES ASSUME NEW d \in Requests, d # c PROVE CallOK(d)'
    BY DEF Calls
  <2> QED
    BY DEF ServiceInv, Calls, CallOK
<1>2. /\ c \in InQueue <=> was
      /\ c \in InQueue' <=> is
      /\ InQueue' \ {c} = InQueue \ {c}
  <2>1. InQueue' = {d \in Requests : Queueing(pc'[d], fut'[d], callback'[d])}
    BY DEF InQueue, Over, Queueing
  <2>2. \A d \in Requests : d # c => (Queueing(pc'[d], fut'[d], callback'[d])
                                        <=> Queueing(pc[d], fut[d], callback[d]))
    BY Zenon
  <2> QED
    BY <2>1, <2>2, QueueIs
<1>3. queue_depth \in Nat /\ queue_depth = Cardinality(InQueue) /\ queue_depth <= MaxQueue
      /\ MaxQueue \in Nat
  BY ServiceAssumption DEF ServiceInv, Depth
<1>4. Depth'
  <2>1. CASE (was <=> is) /\ queue_depth' = queue_depth
    <3>1. InQueue' = InQueue
      BY <1>2, <2>1
    <3> QED
      BY <2>1, <3>1 DEF ServiceInv, Depth
  <2>2. CASE ~was /\ is /\ queue_depth < MaxQueue /\ queue_depth' = queue_depth + 1
    <3>1. InQueue' = InQueue \cup {c} /\ c \notin InQueue
      BY <1>2, <2>2
    <3>2. Cardinality(InQueue') = Cardinality(InQueue) + 1
      BY <3>1, QueueFinite, FS_AddElement, Zenon
    <3> QED
      BY <2>2, <3>2, <1>3 DEF Depth
  <2>3. CASE was /\ ~is /\ Dequeue
    <3>1. InQueue' = InQueue \ {c} /\ c \in InQueue
      BY <1>2, <2>3
    <3>2. Cardinality(InQueue') = Cardinality(InQueue) - 1 /\ Cardinality(InQueue') \in Nat
      BY <3>1, QueueFinite, FS_RemoveElement, FS_CardinalityType
    <3>3. queue_depth' = queue_depth - 1
      BY <1>3, <2>3, <3>2 DEF Dequeue
    <3> QED
      BY <1>3, <3>2, <3>3 DEF Depth
  <2> QED
    BY <2>1, <2>2, <2>3
<1> QED
  BY <1>1, <1>4 DEF ServiceInv

(* A step that leaves the calls alone.                                     *)
LEMMA OtherStep ==
    ASSUME ServiceInv, CallTypes', ServiceTypes',
           UNCHANGED <<pc, fut, callback, rid, hold, queue_depth>>
    PROVE  ServiceInv'
<1>1. Calls'
  BY DEF ServiceInv, Calls, CallOK
<1>2. Depth'
  BY DEF ServiceInv, Depth, InQueue, Over
<1> QED
  BY <1>1, <1>2 DEF ServiceInv

(* Futures of C that no worker has picked are cancelled.                   *)
LEMMA CancelStep ==
    ASSUME ServiceInv, CallTypes', ServiceTypes', NEW C, fut' = Cancelled(C),
           UNCHANGED <<pc, callback, rid, hold, queue_depth>>
    PROVE  ServiceInv'
<1>1. ASSUME NEW c \in Requests
      PROVE  fut'[c] = fut[c] \/ (fut[c] = "pending" /\ fut'[c] = "cancelled")
  BY DEF Cancelled
<1>2. ASSUME NEW c \in Requests
      PROVE  CallOK(c)' /\ (Queueing(pc'[c], fut'[c], callback'[c])
                              <=> Queueing(pc[c], fut[c], callback[c]))
  <2>1. CallOK(c) /\ callback[c] \in Callbacks
    BY DEF ServiceInv, Calls, CallTypes
  <2>2. CASE fut'[c] = fut[c]
    BY <2>1, <2>2 DEF CallOK
  <2>3. CASE fut[c] = "pending" /\ fut'[c] = "cancelled"
    <3>1. callback[c] \in {"none", "attached"}
      BY <2>1, <2>3 DEF CallOK, Fits, Callbacks
    <3> QED
      BY <2>1, <2>3, <3>1 DEF CallOK, Fits, Holding, Queueing
  <2> QED
    BY <1>1, <2>2, <2>3
<1>3. InQueue' = InQueue
  <2>1. InQueue' = {d \in Requests : Queueing(pc'[d], fut'[d], callback'[d])}
    BY DEF InQueue, Over, Queueing
  <2> QED
    BY <2>1, <1>2, QueueIs
<1>4. Depth'
  BY <1>3 DEF ServiceInv, Depth
<1> QED
  BY <1>2, <1>4 DEF ServiceInv, Calls

-----------------------------------------------------------------------------
(* infer                                                                   *)

(* The types a step of infer keeps by touching nothing but its own call.   *)
LEMMA PcStep ==
    ASSUME ServiceInv, NEW c \in Requests, NEW p \in Pcs, Goto(c, p)
    PROVE  /\ pc' \in [Requests -> Pcs] /\ pc'[c] = p
           /\ \A d \in Requests : d # c => pc'[d] = pc[d]
BY DEF ServiceInv, CallTypes, Goto

LEMMA AdmitOK ==
    ASSUME ServiceInv, NEW c \in Requests, NEW r \in Rids, Admit(c, r)
    PROVE  ServiceInv'
<1>1. "acquire" \in Pcs /\ Goto(c, "acquire")
  BY DEF Pcs, Admit
<1>2. /\ pc' \in [Requests -> Pcs] /\ pc'[c] = "acquire"
      /\ \A d \in Requests : d # c => pc'[d] = pc[d]
  BY <1>1, PcStep
<1>3. /\ rid' \in [Requests -> Rids \cup {None}] /\ rid'[c] = r
      /\ \A d \in Requests : d # c => rid'[d] = rid[d]
  BY DEF Admit, ServiceInv, CallTypes
<1>4. CallTypes' /\ ServiceTypes'
  BY <1>2, <1>3 DEF Admit, ServiceInv, CallTypes, ServiceTypes, control
<1>5. hold' = hold /\ fut' = fut /\ callback' = callback
  BY Zenon DEF Admit, manager, requests
<1>6. pc[c] = "idle" /\ CallOK(c)
  BY DEF Admit, ServiceInv, Calls
<1>7. fut[c] = "none" /\ callback[c] = "none" /\ hold[c] = None
  BY <1>6 DEF CallOK, Fits, Holding
<1>8. CallOK(c)'
  BY <1>2, <1>3, <1>5, <1>7 DEF CallOK, Fits, Holding
<1>9. ~Queueing(pc[c], fut[c], callback[c]) /\ Queueing(pc'[c], fut'[c], callback'[c])
  BY <1>2, <1>5, <1>6, <1>7, Zenon DEF Queueing
<1>10. queue_depth < MaxQueue /\ queue_depth' = queue_depth + 1
  BY DEF Admit
<1> QED
  BY <1>2, <1>3, <1>4, <1>5, <1>8, <1>9, <1>10, CallStep, Zenon

LEMMA AcquireOK ==
    ASSUME ServiceInv, Inv, NEW c \in Requests, NEW m \in Models, AcquireSlot(c, m)
    PROVE  ServiceInv'
<1>1. "pool" \in Pcs /\ Goto(c, "pool")
  BY DEF Pcs, AcquireSlot
<1>2. /\ pc' \in [Requests -> Pcs] /\ pc'[c] = "pool"
      /\ \A d \in Requests : d # c => pc'[d] = pc[d]
  BY <1>1, PcStep
<1>3. hold'[c] # None /\ \A d \in Requests : d # c => hold'[d] = hold[d]
  BY DEF AcquireSlot, Acquire, Inv, TypeOK
<1>4. UNCHANGED <<rid, fut, callback, queue_depth>>
  BY DEF AcquireSlot, service
<1>5. CallTypes' /\ ServiceTypes'
  BY <1>2, <1>4 DEF AcquireSlot, ServiceInv, CallTypes, ServiceTypes, service, control
<1>6. pc[c] = "acquire" /\ CallOK(c)
  BY DEF AcquireSlot, ServiceInv, Calls
<1>7. fut[c] = "none" /\ callback[c] = "none" /\ rid[c] \in Rids
  BY <1>6, Zenon DEF CallOK, Fits
<1>8. CallOK(c)'
  BY <1>2, <1>3, <1>4, <1>7, Zenon DEF CallOK, Fits, Holding
<1>9. Queueing(pc[c], fut[c], callback[c]) /\ Queueing(pc'[c], fut'[c], callback'[c])
  BY <1>2, <1>4, <1>6, <1>7 DEF Queueing
<1> QED
  BY <1>2, <1>3, <1>4, <1>5, <1>8, <1>9, CallStep, Zenon

(* A step of infer that only moves on.                                     *)
LEMMA MoveOn ==
    ASSUME ServiceInv, NEW c \in Requests, NEW p \in Pcs \ {"idle"}, Goto(c, p),
           UNCHANGED <<rid, fut, callback, hold, queue_depth>>,
           poolOf' \in [Requests -> Nat], token' \subseteq Requests, UNCHANGED <<canceller, ctodo>>,
           ServiceTypes', pc[c] # "idle",
           Fits(p, fut[c], callback[c]),
           Holding(p, fut[c], callback[c]) <=> Holding(pc[c], fut[c], callback[c]),
           Queueing(p, fut[c], callback[c]) <=> Queueing(pc[c], fut[c], callback[c])
    PROVE  ServiceInv'
<1>1. /\ pc' \in [Requests -> Pcs] /\ pc'[c] = p
      /\ \A d \in Requests : d # c => pc'[d] = pc[d]
  BY PcStep
<1>2. CallTypes'
  BY <1>1 DEF ServiceInv, CallTypes
<1>3. CallOK(c)'
  BY <1>1 DEF ServiceInv, Calls, CallOK
<1> QED
  BY <1>1, <1>2, <1>3, CallStep, ZenonT(30)

LEMMA MovesOK ==
    ASSUME ServiceInv, NEW c \in Requests,
           \/ \E m \in Models : AcquireFails(c, m)
           \/ EnsurePool(c) \/ Result(c) \/ Timeout(c) \/ GraceEnds(c)
    PROVE  ServiceInv'
<1>0. /\ CallOK(c) /\ pc[c] \in Pcs /\ callback[c] \in Callbacks
      /\ Fits(pc[c], fut[c], callback[c])
  BY DEF ServiceInv, Calls, CallTypes, CallOK
<1>1. UNCHANGED <<rid, fut, callback, hold, queue_depth, canceller, ctodo>>
  BY Zenon DEF AcquireFails, EnsurePool, Result, Timeout, GraceEnds, manager, requests, service, control
<1>2. ServiceTypes'
  <2>1. CASE ~EnsurePool(c)
    BY <2>1, Zenon DEF ServiceInv, ServiceTypes, AcquireFails, Result, Timeout, GraceEnds, service, control
  <2>2. CASE EnsurePool(c)
    <3>1. pools' \in Nat /\ pool' \in 0..pools' /\ (pool # 0 => pool' # 0) /\ pools <= pools'
      BY <2>2 DEF EnsurePool, ServiceInv, ServiceTypes
    <3> QED
      BY <2>2, <3>1 DEF EnsurePool, ServiceInv, ServiceTypes, control
  <2> QED
    BY <2>1, <2>2
<1>3. poolOf' \in [Requests -> Nat] /\ token' \subseteq Requests
  <2>1. pool' \in Nat
    BY <1>2 DEF ServiceTypes
  <2> QED
    BY <2>1 DEF ServiceInv, CallTypes, AcquireFails, EnsurePool, Result, Timeout, GraceEnds
<1>4. CASE \E m \in Models : AcquireFails(c, m)
  <2>1. pc[c] = "acquire" /\ Goto(c, "undo") /\ "undo" \in Pcs \ {"idle"}
    BY <1>4, ZenonT(30) DEF AcquireFails, Pcs
  <2>2. /\ Fits("undo", fut[c], callback[c])
        /\ Holding("undo", fut[c], callback[c]) <=> Holding(pc[c], fut[c], callback[c])
        /\ Queueing("undo", fut[c], callback[c]) <=> Queueing(pc[c], fut[c], callback[c])
    BY <1>0, <2>1 DEF Fits, Holding, Queueing
  <2> QED
    BY <1>1, <1>2, <1>3, <2>1, <2>2, MoveOn, ZenonT(30)
<1>5. CASE EnsurePool(c)
  <2>1. pc[c] = "pool" /\ Goto(c, "submit") /\ "submit" \in Pcs \ {"idle"}
    BY <1>5 DEF EnsurePool, Pcs
  <2>2. /\ Fits("submit", fut[c], callback[c])
        /\ Holding("submit", fut[c], callback[c]) <=> Holding(pc[c], fut[c], callback[c])
        /\ Queueing("submit", fut[c], callback[c]) <=> Queueing(pc[c], fut[c], callback[c])
    BY <1>0, <2>1 DEF Fits, Holding, Queueing
  <2> QED
    BY <1>1, <1>2, <1>3, <2>1, <2>2, MoveOn, Zenon
<1>6. CASE Timeout(c)
  <2>1. pc[c] = "wait" /\ Goto(c, "grace") /\ "grace" \in Pcs \ {"idle"}
    BY <1>6 DEF Timeout, Pcs
  <2>2. /\ Fits("grace", fut[c], callback[c])
        /\ Holding("grace", fut[c], callback[c]) <=> Holding(pc[c], fut[c], callback[c])
        /\ Queueing("grace", fut[c], callback[c]) <=> Queueing(pc[c], fut[c], callback[c])
    BY <1>0, <2>1 DEF Fits, Holding, Queueing
  <2> QED
    BY <1>1, <1>2, <1>3, <2>1, <2>2, MoveOn, Zenon
<1>7. CASE Result(c) \/ GraceEnds(c)
  <2>1. pc[c] \in {"wait", "grace"} /\ Goto(c, "done") /\ "done" \in Pcs \ {"idle"} /\ pc[c] # "idle"
    BY <1>7, ZenonT(30) DEF Result, GraceEnds, Pcs
  <2>2. /\ Fits("done", fut[c], callback[c])
        /\ Holding("done", fut[c], callback[c]) <=> Holding(pc[c], fut[c], callback[c])
        /\ Queueing("done", fut[c], callback[c]) <=> Queueing(pc[c], fut[c], callback[c])
    BY <1>0, <2>1 DEF Fits, Holding, Queueing
  <2> QED
    BY <1>1, <1>2, <1>3, <2>1, <2>2, MoveOn, Zenon
<1> QED
  BY <1>4, <1>5, <1>6, <1>7, ZenonT(30)

(* A step that moves a call from (p, f, k) to (q, g, j), with the slot it  *)
(* holds before and after.                                                 *)
LEMMA Change ==
    ASSUME ServiceInv, NEW c \in Requests, pc[c] # "idle",
           NEW q \in Pcs \ {"idle"}, NEW g \in Futs, NEW j \in Callbacks,
           pc' = [pc EXCEPT ![c] = q], fut' = [fut EXCEPT ![c] = g],
           callback' = [callback EXCEPT ![c] = j],
           UNCHANGED <<rid, poolOf, token, canceller, ctodo>>, ServiceTypes',
           Fits(q, g, j), hold'[c] # None <=> Holding(q, g, j),
           \A d \in Requests : d # c => hold'[d] = hold[d],
           \/ /\ Queueing(q, g, j) <=> Queueing(pc[c], fut[c], callback[c])
              /\ queue_depth' = queue_depth
           \/ ~Queueing(q, g, j) /\ Queueing(pc[c], fut[c], callback[c]) /\ Dequeue
    PROVE  ServiceInv'
<1>1. /\ pc' \in [Requests -> Pcs] /\ pc'[c] = q
      /\ fut' \in [Requests -> Futs] /\ fut'[c] = g
      /\ callback' \in [Requests -> Callbacks] /\ callback'[c] = j
      /\ \A d \in Requests : d # c => pc'[d] = pc[d] /\ fut'[d] = fut[d] /\ callback'[d] = callback[d]
  BY Zenon DEF ServiceInv, CallTypes
<1>2. CallTypes'
  BY <1>1, Zenon DEF ServiceInv, CallTypes
<1>3. CallOK(c)'
  BY <1>1, ZenonT(30) DEF ServiceInv, Calls, CallOK
<1>4. Queueing(q, g, j) <=> Queueing(pc'[c], fut'[c], callback'[c])
  BY <1>1
<1>5. \A d \in Requests : d # c =>
        /\ pc'[d] = pc[d] /\ fut'[d] = fut[d] /\ callback'[d] = callback[d]
        /\ rid'[d] = rid[d] /\ hold'[d] = hold[d]
  BY <1>1
<1>6. PICK was \in BOOLEAN : was <=> Queueing(pc[c], fut[c], callback[c])
  BY Zenon
<1>7. PICK is \in BOOLEAN : is <=> Queueing(q, g, j)
  BY Zenon
<1>8. is <=> Queueing(pc'[c], fut'[c], callback'[c])
  BY <1>4, <1>7, Zenon
<1>9. \/ (was <=> is) /\ queue_depth' = queue_depth
      \/ was /\ ~is /\ Dequeue
  BY <1>6, <1>7, ZenonT(30)
<1> QED
  BY <1>2, <1>3, <1>5, <1>6, <1>8, <1>9, CallStep, ZenonT(30)

(* What a function is when a step leaves it alone, as an update at c.      *)
LEMMA Left ==
    ASSUME ServiceInv, NEW c \in Requests
    PROVE  /\ UNCHANGED pc => pc' = [pc EXCEPT ![c] = pc[c]]
           /\ UNCHANGED fut => fut' = [fut EXCEPT ![c] = fut[c]]
           /\ UNCHANGED callback => callback' = [callback EXCEPT ![c] = callback[c]]
           /\ pc[c] \in Pcs /\ fut[c] \in Futs /\ callback[c] \in Callbacks
           /\ Fits(pc[c], fut[c], callback[c])
           /\ hold[c] # None <=> Holding(pc[c], fut[c], callback[c])
           /\ pc[c] # "idle" => rid[c] \in Rids
BY DEF ServiceInv, CallTypes, Calls, CallOK

LEMMA Freed ==
    ASSUME Inv, NEW c \in Requests, ReleaseHeld(c)
    PROVE  /\ hold'[c] = None /\ \A d \in Requests : d # c => hold'[d] = hold[d]
BY DEF ReleaseHeld, Inv, TypeOK

LEMMA SubmitOK ==
    ASSUME ServiceInv, Inv, NEW c \in Requests, Submit(c)
    PROVE  ServiceInv'
<1>1. pc[c] = "submit" /\ pc[c] # "idle" /\ UNCHANGED <<rid, poolOf, token, canceller, ctodo, callback, queue_depth>>
  BY DEF Submit, service, control
<1>2. ServiceTypes'
  BY DEF ServiceInv, ServiceTypes, Submit, service, control
<1>3. fut[c] = "none" /\ callback[c] = "none" /\ "none" \in Callbacks /\ "none" \in Futs
  BY <1>1, Left DEF Fits, Callbacks, Futs
<1>4. callback' = [callback EXCEPT ![c] = "none"]
  BY <1>1, <1>3, Left
<1>5. CASE fut' = [fut EXCEPT ![c] = "pending"] /\ Goto(c, "register") /\ UNCHANGED manager
  <2>1. "register" \in Pcs \ {"idle"} /\ "pending" \in Futs
    BY DEF Pcs, Futs
  <2>2. pc' = [pc EXCEPT ![c] = "register"] /\ hold' = hold
    BY <1>5 DEF Goto, manager, requests
  <2>3. hold[c] # None
    BY <1>1, Left DEF Holding
  <2>4. /\ Fits("register", "pending", "none") /\ Holding("register", "pending", "none")
        /\ Queueing("register", "pending", "none") /\ Queueing(pc[c], fut[c], callback[c])
    BY <1>1, <1>3 DEF Fits, Holding, Queueing
  <2> QED
    BY <1>1, <1>2, <1>3, <1>4, <1>5, <2>1, <2>2, <2>3, <2>4, Change, Zenon
<1>6. CASE ReleaseHeld(c) /\ Goto(c, "undo") /\ UNCHANGED fut
  <2>1. "undo" \in Pcs \ {"idle"}
    BY DEF Pcs
  <2>2. pc' = [pc EXCEPT ![c] = "undo"] /\ fut' = [fut EXCEPT ![c] = "none"]
    BY <1>3, <1>6, Left, Zenon DEF Goto
  <2>3. hold'[c] = None /\ \A d \in Requests : d # c => hold'[d] = hold[d]
    BY <1>6, Freed
  <2>4. /\ Fits("undo", "none", "none") /\ ~Holding("undo", "none", "none")
        /\ Queueing("undo", "none", "none") /\ Queueing(pc[c], fut[c], callback[c])
    BY <1>1, <1>3 DEF Fits, Holding, Queueing
  <2> QED
    BY <1>1, <1>2, <1>3, <1>4, <2>1, <2>2, <2>3, <2>4, Change, Zenon
<1> QED
  BY <1>5, <1>6 DEF Submit

LEMMA UndoOK ==
    ASSUME ServiceInv, NEW c \in Requests, Undo(c)
    PROVE  ServiceInv'
<1>1. /\ pc[c] = "undo" /\ pc[c] # "idle" /\ hold' = hold /\ Dequeue
      /\ UNCHANGED <<rid, poolOf, token, canceller, ctodo, callback, fut>>
      /\ pc' = [pc EXCEPT ![c] = "done"]
  BY Zenon DEF Undo, control, Goto, manager, requests
<1>2. ServiceTypes'
  BY Zenon DEF ServiceInv, ServiceTypes, Undo, control
<1>3. fut[c] = "none" /\ callback[c] = "none" /\ "none" \in Callbacks /\ "none" \in Futs
  BY <1>1, Left, Zenon DEF Fits, Callbacks, Futs
<1>4. callback' = [callback EXCEPT ![c] = "none"] /\ fut' = [fut EXCEPT ![c] = "none"]
  BY <1>1, <1>3, Left, Zenon
<1>5. hold'[c] = None
  BY <1>1, <1>3, Left, Zenon DEF Holding
<1>6. "done" \in Pcs \ {"idle"}
  BY DEF Pcs
<1>7. /\ Fits("done", "none", "none") /\ ~Holding("done", "none", "none")
      /\ ~Queueing("done", "none", "none") /\ Queueing(pc[c], fut[c], callback[c])
  BY <1>1, <1>3 DEF Fits, Holding, Queueing
<1> QED
  BY <1>1, <1>2, <1>3, <1>4, <1>5, <1>6, <1>7, Change, ZenonT(30)

LEMMA RegisterOK ==
    ASSUME ServiceInv, NEW c \in Requests, Register(c) \/ Attach(c)
    PROVE  ServiceInv'
<1>1. /\ pc[c] \in {"register", "attach"} /\ pc[c] # "idle" /\ hold' = hold
      /\ UNCHANGED <<rid, poolOf, token, canceller, ctodo, fut, queue_depth>>
  BY Zenon DEF Register, Attach, control, manager, requests, service
<1>2. fut[c] # "none" /\ callback[c] = "none" /\ fut[c] \in {"pending", "running", "cancelled"}
      /\ rid[c] \in Rids
  BY <1>1, Left DEF Fits, Futs
<1>3. fut' = [fut EXCEPT ![c] = fut[c]] /\ fut[c] \in Futs
  BY <1>1, Left
<1>4. hold[c] # None
  BY <1>2, Left DEF Holding
<1>5. CASE Register(c)
  <2>1. active' \in [Rids -> Requests \cup {None}]
    BY <1>2, <1>5, Zenon DEF Register, ServiceInv, ServiceTypes
  <2>2. ServiceTypes'
    BY <1>5, <2>1, ZenonT(30) DEF ServiceInv, ServiceTypes, Register, control
  <2>3. "attach" \in Pcs \ {"idle"} /\ "none" \in Callbacks
    BY DEF Pcs, Callbacks
  <2>4. pc' = [pc EXCEPT ![c] = "attach"] /\ callback' = [callback EXCEPT ![c] = "none"]
    BY <1>2, <1>5, Left, ZenonT(30) DEF Register, Goto
  <2>5. /\ Fits("attach", fut[c], "none") /\ Holding("attach", fut[c], "none")
        /\ Queueing("attach", fut[c], "none") /\ Queueing(pc[c], fut[c], callback[c])
    BY <1>1, <1>2 DEF Fits, Holding, Queueing
  <2> QED
    BY <1>1, <1>3, <1>4, <2>2, <2>3, <2>4, <2>5, Change, ZenonT(30)
<1>6. CASE Attach(c)
  <2>2. ServiceTypes'
    BY <1>6 DEF ServiceInv, ServiceTypes, Attach, service, control
  <2>3. "wait" \in Pcs \ {"idle"} /\ "attached" \in Callbacks
    BY DEF Pcs, Callbacks
  <2>4. pc' = [pc EXCEPT ![c] = "wait"] /\ callback' = [callback EXCEPT ![c] = "attached"]
    BY <1>6, Zenon DEF Attach, Goto
  <2>5. /\ Fits("wait", fut[c], "attached") /\ Holding("wait", fut[c], "attached")
        /\ Queueing("wait", fut[c], "attached") /\ Queueing(pc[c], fut[c], callback[c])
    BY <1>1, <1>2 DEF Fits, Holding, Queueing
  <2> QED
    BY <1>1, <1>3, <1>4, <2>2, <2>3, <2>4, <2>5, Change, Zenon
<1> QED
  BY <1>5, <1>6

-----------------------------------------------------------------------------
(* The pool, the callback, cancel, start and stop                          *)

(* A worker moves a future on.                                             *)
LEMMA FutureOK ==
    ASSUME ServiceInv, Inv, NEW c \in Requests,
           Pick(c) \/ BeginForward(c) \/ EndForward(c) \/ SetResult(c)
    PROVE  ServiceInv'
<1> DEFINE k == callback[c]
<1>1. UNCHANGED <<pc, rid, poolOf, token, canceller, ctodo, callback, queue_depth>>
  BY DEF Pick, BeginForward, EndForward, SetResult, service, control
<1>2. ServiceTypes'
  BY Zenon DEF ServiceInv, ServiceTypes, Pick, BeginForward, EndForward, SetResult, service, control
<1>3. /\ Fits(pc[c], fut[c], k) /\ k \in Callbacks
      /\ pc' = [pc EXCEPT ![c] = pc[c]] /\ callback' = [callback EXCEPT ![c] = k]
      /\ hold[c] # None <=> Holding(pc[c], fut[c], k)
  BY <1>1, Left
<1>4. fut[c] \in {"pending", "running", "forward", "released"} /\ fut[c] # "none"
  BY Zenon DEF Pick, BeginForward, EndForward, SetResult
<1>5. pc[c] # "idle" /\ pc[c] \in Pcs \ {"idle"} /\ pc[c] \notin {"pool", "submit"}
      /\ k \notin {"unlist", "over"}
  BY <1>3, <1>4, Left DEF Fits
<1>6. CASE Pick(c)
  <2>1. fut[c] = "pending" /\ fut' = [fut EXCEPT ![c] = "running"] /\ "running" \in Futs /\ hold' = hold
    BY <1>6, Zenon DEF Pick, Futs, manager, requests
  <2>2. /\ Fits(pc[c], "running", k) /\ Holding(pc[c], "running", k) /\ Holding(pc[c], fut[c], k)
        /\ Queueing(pc[c], "running", k) <=> Queueing(pc[c], fut[c], k)
    BY <1>3, <1>5, <2>1 DEF Fits, Holding, Queueing
  <2> QED
    BY <1>1, <1>2, <1>3, <1>5, <2>1, <2>2, Change, Zenon
<1>7. CASE BeginForward(c)
  <2>1. fut[c] = "running" /\ fut' = [fut EXCEPT ![c] = "forward"] /\ "forward" \in Futs /\ hold' = hold
        /\ pc[c] \in {"wait", "grace", "done"}
    BY <1>7 DEF BeginForward, Futs, manager, requests
  <2>2. /\ Fits(pc[c], "forward", k) /\ Holding(pc[c], "forward", k) /\ Holding(pc[c], fut[c], k)
        /\ Queueing(pc[c], "forward", k) <=> Queueing(pc[c], fut[c], k)
    BY <1>3, <1>5, <2>1 DEF Fits, Holding, Queueing
  <2> QED
    BY <1>1, <1>2, <1>3, <1>5, <2>1, <2>2, Change, Zenon
<1>8. CASE EndForward(c)
  <2>1. fut[c] = "forward" /\ fut' = [fut EXCEPT ![c] = "released"] /\ "released" \in Futs
    BY <1>8 DEF EndForward, Futs
  <2>2. hold'[c] = None /\ \A d \in Requests : d # c => hold'[d] = hold[d]
    BY <1>8, Freed, Zenon DEF EndForward
  <2>3. /\ Fits(pc[c], "released", k) /\ ~Holding(pc[c], "released", k)
        /\ Queueing(pc[c], "released", k) <=> Queueing(pc[c], fut[c], k)
    BY <1>3, <1>5, <2>1 DEF Fits, Holding, Queueing
  <2> QED
    BY <1>1, <1>2, <1>3, <1>5, <2>1, <2>2, <2>3, Change, Zenon
<1>9. CASE SetResult(c)
  <2>1. fut[c] = "released" /\ fut' = [fut EXCEPT ![c] = "done"] /\ "done" \in Futs /\ hold' = hold
    BY <1>9 DEF SetResult, Futs, manager, requests
  <2>2. /\ Fits(pc[c], "done", k) /\ ~Holding(pc[c], "done", k) /\ ~Holding(pc[c], fut[c], k)
        /\ Queueing(pc[c], "done", k) <=> Queueing(pc[c], fut[c], k)
    BY <1>3, <1>5, <2>1 DEF Fits, Holding, Queueing
  <2> QED
    BY <1>1, <1>2, <1>3, <1>5, <2>1, <2>2, Change, Zenon
<1> QED
  BY <1>6, <1>7, <1>8, <1>9, ZenonT(30)

LEMMA FinishedOK ==
    ASSUME ServiceInv, Inv, NEW c \in Requests, Finished(c) \/ Unlist(c)
    PROVE  ServiceInv'
<1> DEFINE f == fut[c]
<1>1. UNCHANGED <<pc, rid, poolOf, token, canceller, ctodo, fut>>
  BY Zenon DEF Finished, FinishedIf, Unlist, control
<1>2. /\ Fits(pc[c], f, callback[c]) /\ f \in Futs
      /\ pc' = [pc EXCEPT ![c] = pc[c]] /\ fut' = [fut EXCEPT ![c] = f]
      /\ hold[c] # None <=> Holding(pc[c], f, callback[c])
  BY <1>1, Left
<1>3. callback[c] \in {"attached", "unlist"} /\ callback[c] # "none" /\ f \in {"done", "cancelled"}
  BY <1>2 DEF Finished, FinishedIf, Unlist, Ended, Fits
<1>4. pc[c] # "idle" /\ pc[c] \in Pcs \ {"idle"} /\ pc[c] \in {"wait", "grace", "done"} /\ rid[c] \in Rids
  BY <1>2, <1>3, Left DEF Fits
<1>5. CASE Finished(c)
  <2>1. /\ callback[c] = "attached" /\ callback' = [callback EXCEPT ![c] = "unlist"]
        /\ "unlist" \in Callbacks /\ UNCHANGED queue_depth
    BY <1>5, Zenon DEF Finished, FinishedIf, Callbacks, service
  <2>2. ServiceTypes'
    BY <1>5 DEF ServiceInv, ServiceTypes, Finished, FinishedIf, service, control
  <2>3. hold'[c] = None /\ \A d \in Requests : d # c => hold'[d] = hold[d]
    <3>1. CASE f = "cancelled"
      BY <1>5, <3>1, Freed DEF Finished, FinishedIf
    <3>2. CASE f = "done"
      <4>1. hold' = hold
        BY <1>5, <3>2, Zenon DEF Finished, FinishedIf, manager, requests
      <4> QED
        BY <1>2, <1>4, <3>2, <4>1 DEF Holding
    <3> QED
      BY <1>3, <3>1, <3>2, Zenon
  <2>4. /\ Fits(pc[c], f, "unlist") /\ ~Holding(pc[c], f, "unlist")
        /\ Queueing(pc[c], f, "unlist") /\ Queueing(pc[c], f, callback[c])
    BY <1>2, <1>3, <1>4, <2>1 DEF Fits, Holding, Queueing
  <2> QED
    BY <1>1, <1>2, <1>4, <2>1, <2>2, <2>3, <2>4, Change, Zenon
<1>6. CASE Unlist(c)
  <2>1. /\ callback[c] = "unlist" /\ callback' = [callback EXCEPT ![c] = "over"]
        /\ "over" \in Callbacks /\ Dequeue /\ hold' = hold
    BY <1>6 DEF Unlist, Callbacks, manager, requests
  <2>2. ServiceTypes'
    <3>1. active' \in [Rids -> Requests \cup {None}]
      BY <1>6, Zenon DEF Unlist, ServiceInv, ServiceTypes
    <3> QED
      BY <1>6, <3>1, Zenon DEF ServiceInv, ServiceTypes, Unlist, control
  <2>3. /\ Fits(pc[c], f, "over") /\ ~Holding(pc[c], f, "over") /\ ~Holding(pc[c], f, callback[c])
        /\ ~Queueing(pc[c], f, "over") /\ Queueing(pc[c], f, callback[c])
    BY <1>2, <1>3, <1>4, <2>1 DEF Fits, Holding, Queueing
  <2> QED
    BY <1>1, <1>2, <1>4, <2>1, <2>2, <2>3, Change, ZenonT(30)
<1> QED
  BY <1>5, <1>6

LEMMA CancelsOK ==
    ASSUME ServiceInv, CancelLooked \/ ShutPool \/ \E c \in Requests : StopCancels(c)
    PROVE  ServiceInv'
<1>1. UNCHANGED <<pc, rid, poolOf, callback, queue_depth, hold>>
  BY ZenonT(30) DEF CancelLooked, ShutPool, StopCancels, manager, requests, service
<1>2. PICK C : fut' = Cancelled(C)
  BY Zenon DEF CancelLooked, ShutPool, StopCancels
<1>3. fut' \in [Requests -> Futs]
  BY <1>2 DEF Cancelled, ServiceInv, CallTypes, Futs
<1>4. token' \subseteq Requests /\ canceller' \in Requests \cup {None} /\ ctodo' \subseteq Requests
  BY Zenon DEF CancelLooked, ShutPool, StopCancels, ServiceInv, CallTypes, control
<1>5. CallTypes'
  BY <1>1, <1>3, <1>4 DEF ServiceInv, CallTypes
<1>6. ServiceTypes'
  <2>1. CASE ShutPool
    BY <2>1, Zenon DEF ShutPool, ServiceInv, ServiceTypes
  <2>2. CASE CancelLooked \/ \E c \in Requests : StopCancels(c)
    BY <2>2, ZenonT(30) DEF CancelLooked, StopCancels, ServiceInv, ServiceTypes, service, control
  <2> QED
    BY <2>1, <2>2
<1> QED
  BY <1>1, <1>2, <1>5, <1>6, CancelStep

LEMMA ControlOK ==
    ASSUME ServiceInv, (\E r \in Rids : Cancel(r)) \/ Start \/ Stop \/ JoinPool \/ StopEnds
    PROVE  ServiceInv'
<1>1. UNCHANGED <<pc, fut, callback, rid, poolOf, token, queue_depth, hold>>
  BY ZenonT(30) DEF Cancel, Start, Stop, JoinPool, StopEnds, Shutdown, manager, requests, service, infers
<1>2. canceller' \in Requests \cup {None} /\ ctodo' \subseteq Requests
  <2>0. canceller \in Requests \cup {None} /\ ctodo \subseteq Requests
        /\ active \in [Rids -> Requests \cup {None}]
    BY DEF ServiceInv, CallTypes, ServiceTypes
  <2>1. CASE \E r \in Rids : Cancel(r)
    BY <2>0, <2>1 DEF Cancel, control
  <2>2. CASE Stop
    BY <2>0, <2>2 DEF Stop
  <2>3. CASE Start \/ JoinPool \/ StopEnds
    BY <2>0, <2>3 DEF Start, JoinPool, StopEnds
  <2> QED
    BY <2>1, <2>2, <2>3
<1>3. CallTypes'
  BY <1>1, <1>2 DEF ServiceInv, CallTypes
<1>4. ServiceTypes'
  <2>1. CASE \E r \in Rids : Cancel(r)
    BY <2>1 DEF Cancel, ServiceInv, ServiceTypes, service, control
  <2>2. CASE Start
    <3>1. pools' \in Nat /\ pool' \in 0..pools' /\ pool' # 0 /\ pools <= pools'
      BY <2>2 DEF Start, ServiceInv, ServiceTypes
    <3> QED
      BY <2>2, <3>1 DEF Start, ServiceInv, ServiceTypes
  <2>3. CASE Stop
    <3>1. pool \in 1..pools /\ pools \in Nat /\ active \in [Rids -> Requests \cup {None}]
          /\ shut \subseteq 1..pools
      BY <2>3 DEF Stop, ServiceInv, ServiceTypes
    <3>2. ready' \in BOOLEAN
      BY <2>3, Zenon DEF Stop
    <3>3. /\ reserved' = {} /\ stopPool' = pool /\ pool' = 0 /\ ctl' = "cancel"
          /\ UNCHANGED <<pools, shut, active>>
      BY <2>3 DEF Stop
    <3> QED
      BY <3>1, <3>2, <3>3 DEF ServiceTypes
  <2>4. CASE JoinPool \/ StopEnds
    BY <2>4, Zenon DEF JoinPool, StopEnds, ServiceInv, ServiceTypes, service
  <2> QED
    BY <2>1, <2>2, <2>3, <2>4, Zenon
<1> QED
  BY <1>1, <1>3, <1>4, OtherStep

LEMMA ManagerOK ==
    ASSUME ServiceInv, ManagerStep \/ UNCHANGED serviceVars
    PROVE  ServiceInv'
<1>1. UNCHANGED hold
  BY Zenon DEF ManagerStep, Load, UnloaderStep, UnloadNext, Retire, Drained, FinishUnload, FinishIf, Sweep,
         CloseModule, requests, serviceVars, manager
<1>2. UNCHANGED <<service, infers, canceller, control>>
  BY DEF ManagerStep, serviceVars
<1>3. CallTypes' /\ ServiceTypes'
  BY <1>2 DEF ServiceInv, CallTypes, ServiceTypes, service, infers, control
<1> QED
  BY <1>1, <1>2, <1>3, OtherStep DEF service, infers

-----------------------------------------------------------------------------
LEMMA ServiceStep ==
    ASSUME ServiceInv, Inv, [ServiceNext]_serviceVars
    PROVE  ServiceInv'
<1>1. ASSUME NEW c \in Requests, (\E r \in Rids : Admit(c, r)) \/ InferStep(c) \/ PoolStep(c)
      PROVE  ServiceInv'
  BY <1>1, AdmitOK, AcquireOK, MovesOK, SubmitOK, UndoOK, RegisterOK, FutureOK, FinishedOK
  DEF InferStep, PoolStep
<1> QED
  BY <1>1, CancelsOK, ControlOK, ManagerOK, Zenon DEF ServiceNext, StopStep

LEMMA ServiceStart ==
    ASSUME ServiceInit
    PROVE  ServiceInv
<1>1. CallTypes
  BY DEF ServiceInit, CallTypes, Pcs, Futs, Callbacks
<1>2. ServiceTypes
  <2>1. ready \in BOOLEAN
    BY Zenon DEF ServiceInit
  <2>2. /\ reserved = {} /\ pools = 0 /\ pool = 0 /\ shut = {} /\ ctl = "stopped"
        /\ active \in [Rids -> Requests \cup {None}]
    BY DEF ServiceInit
  <2> QED
    BY <2>1, <2>2 DEF ServiceTypes
<1>3. Calls
  BY DEF ServiceInit, Init, Calls, CallOK, Fits, Holding
<1>4. Depth
  <2>1. InQueue = {}
    BY DEF ServiceInit, InQueue
  <2> QED
    BY <2>1, FS_EmptySet, ServiceAssumption DEF Depth, ServiceInit
<1> QED
  BY <1>1, <1>2, <1>3, <1>4 DEF ServiceInv

(* The service implements what the manager asks of its callers: on every   *)
(* path through errors, timeouts, cancellation and stop, each step of the  *)
(* service is a step of the manager or leaves it alone, so that a slot is  *)
(* released once, by the one that holds it.                                *)
THEOREM ServiceKeepsManagerContract == ServiceSpec => KeepsManagerContract
<1>1. ServiceInit => ServiceInv /\ Inv /\ Init
  BY ServiceStart, InitInv, Zenon DEF ServiceInit
<1>2. ServiceInv /\ [ServiceNext]_serviceVars => [Next]_vars
  BY ContractStep
<1>3. ServiceInv /\ Inv /\ [ServiceNext]_serviceVars => ServiceInv' /\ Inv'
  BY ServiceStep, ContractStep, StepInv
<1> QED
  BY <1>1, <1>2, <1>3, PTL DEF ServiceSpec, KeepsManagerContract

(* The queue depth is the number of calls that are admitted and not over,  *)
(* a call that is over holds no slot, and in_flight is the number of calls *)
(* that hold a generation: nothing drifts however infer, its future, its   *)
(* callback, cancel and stop interleave.                                   *)
THEOREM ServiceIsExact ==
    ASSUME Misuse = {}
    PROVE  ServiceSpec => []ServiceExact
<1>1. ServiceInit => ServiceInv /\ Inv /\ Counted
  BY ServiceStart, InitInv, InitCounted, Zenon DEF ServiceInit
<1>2. ServiceInv /\ Inv /\ Counted /\ [ServiceNext]_serviceVars => ServiceInv' /\ Inv' /\ Counted'
  BY ServiceStep, ContractStep, StepInv, StepCounted
<1>3. ServiceInv /\ Counted => ServiceExact
  <2> SUFFICES ASSUME ServiceInv, Counted PROVE ServiceExact
    OBVIOUS
  <2>1. ServiceTypeOK
    BY DEF ServiceTypeOK, ServiceInv, CallTypes, ServiceTypes, Depth, Pcs, Futs, Callbacks
  <2>2. ASSUME NEW c \in Requests, Over(c) PROVE hold[c] = None
    BY <2>2, Left DEF Over, Fits, Holding
  <2> QED
    BY <2>1, <2>2 DEF ServiceExact, AccountingExact, ServiceInv, Depth, Counted, InFlightExact
<1> QED
  BY <1>1, <1>2, <1>3, PTL DEF ServiceSpec

(* No model generation is closed while a forward of the service runs on    *)
(* it: what the manager promises well-behaved callers holds in the whole.  *)
THEOREM ServiceNeverClosesInUse ==
    ASSUME Misuse = {}
    PROVE  ServiceSpec => []NeverClosedInUse
<1>1. ServiceInit => ServiceInv /\ Inv /\ Counted
  BY ServiceStart, InitInv, InitCounted, Zenon DEF ServiceInit
<1>2. ServiceInv /\ Inv /\ Counted /\ [ServiceNext]_serviceVars => ServiceInv' /\ Inv' /\ Counted'
  BY ServiceStep, ContractStep, StepInv, StepCounted
<1>3. Inv /\ Counted => NeverClosedInUse
  BY ExactNeverClosed, ZenonT(30) DEF Counted, InFlightExact
<1> QED
  BY <1>1, <1>2, <1>3, PTL DEF ServiceSpec
=============================================================================
