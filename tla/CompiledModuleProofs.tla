------------------------ MODULE CompiledModuleProofs ------------------------
(***************************************************************************)
(* Leases and ledgers of a compiled module are exact, and no generation is *)
(* closed under a forward, for any number of forwards, readers,            *)
(* generations and resources.                                              *)
(***************************************************************************)
EXTENDS CompiledModule, FiniteSetTheorems, TLAPS

(* The provers a leaf is tried with, unless it names its own.              *)
USE SMT, Zenon, SMTT(30)

(* A forward between the lease of its generation and its release.          *)
Inside == {"leased", "direct", "sticky", "consume", "register", "seed", "body",
           "reraise", "clear", "release"}
Closing == {"close", "drain"}
Closers == Threads \ {Canceller}

(* Where each thread may be, and what it then has in hand.                 *)
Positions ==
    /\ \A f \in Forwards :
         /\ pc[f] \in {"idle", "give", "done"} \cup Inside \cup Closing
         /\ exe[f] # None <=> pc[f] \in Inside \cup {"drain"}
         /\ led[f] # None <=> pc[f] \notin {"idle", "done"}
         /\ pc[f] \in Inside => led[f] = exe[f]
    /\ \A t \in Readers :
         /\ pc[t] \in {"idle", "read", "done"} \cup Closing
         /\ exe[t] # None <=> pc[t] \in {"read", "drain"}
    /\ pc[Closer] \in {"idle", "retire", "done"} \cup Closing
    /\ mclosed => pc[Closer] \notin {"idle", "retire"}
    /\ pc[Canceller] \notin Closing

(* The state lock spans steps of the replanner only; while it is free the  *)
(* module's ledger is the one of the current generation.                   *)
Locking ==
    /\ pc[Replanner] \in {"idle", "built", "publish", "done"} \cup Closing
    /\ pc[Replanner] \in {"idle", "built", "done"} => state_lock = None
    /\ pc[Replanner] = "publish" => state_lock = Replanner
    /\ pc[Replanner] = "built" => exe[Replanner] # None
    /\ state_lock = None => ledger = current

Managed(e) == (e = current /\ ~mclosed) \/ e \in retired
Pending(e) == pc[Replanner] = "built" /\ exe[Replanner] = e

(* A generation that is given out, or waits to be, has not been closed.    *)
LifeOf(e) ==
    /\ Managed(e) \/ Pending(e) => ex[e].built /\ ex[e].closer_calls = 0
    /\ Managed(e) => ~Pending(e)
    /\ e \in retired => e # current \/ mclosed
    /\ ex[e].closer_calls # 0 => ex[e].built
    /\ ex[e].gate_closed \/ ex[e].closed => ex[e].closer_calls # 0
    /\ ex[e].closer_calls <= 1
    /\ references[e] # 0 => Managed(e)

Life == \A e \in Gens : LifeOf(e)

(* What a thread has still to close is in nobody else's hands.             *)
Owns(t) ==
    /\ pc[t] \in Closing <=> closing[t] # {}
    /\ pc[t] = "drain" => exe[t] \in closing[t] /\ ex[exe[t]].closer_calls # 0
    /\ \A e \in closing[t] :
         /\ ~Managed(e) /\ ~Pending(e) /\ ex[e].built
         /\ pc[t] = "close" \/ exe[t] # e => ex[e].closer_calls = 0
         /\ \A u \in Closers : e \in closing[u] => u = t

Ownership == \A t \in Closers : Owns(t)

Counts ==
    /\ \A e \in Gens :
         /\ references[e] = Cardinality(Holders(e))
         /\ \A r \in Resources :
              /\ used[e][r] = Need[e][r] * Cardinality(Debtors(e))
              /\ used[e][r] <= Budget[e][r]

Inv == TypeOK /\ Positions /\ Locking /\ Life /\ Ownership /\ Counts

-----------------------------------------------------------------------------
(* Sets of threads are finite, so their sizes are numbers.                 *)
LEMMA Finite ==
    ASSUME NEW e
    PROVE  /\ IsFiniteSet(Holders(e)) /\ Cardinality(Holders(e)) \in Nat
           /\ IsFiniteSet(Debtors(e)) /\ Cardinality(Debtors(e)) \in Nat
<1>1. IsFiniteSet(Forwards \cup Readers)
  BY ModuleAssumption, FS_Union, Zenon
<1>2. Holders(e) \subseteq Forwards \cup Readers /\ Debtors(e) \subseteq Forwards
  BY DEF Holders, Debtors
<1> QED
  BY <1>1, <1>2, ModuleAssumption, FS_Subset, FS_CardinalityType

(* What _close_executor_resources and its gate turn on is left alone.      *)
Kept == \A e \in Gens : /\ ex'[e].built = ex[e].built
                         /\ ex'[e].closer_calls = ex[e].closer_calls
                         /\ ex'[e].gate_closed = ex[e].gate_closed
                         /\ ex'[e].closed = ex[e].closed

(* One generation that a step leaves as it was.                            *)
LEMMA LifeKept ==
    ASSUME NEW e \in Gens, LifeOf(e), Managed(e)' <=> Managed(e), Pending(e)' <=> Pending(e),
           current' = current, mclosed' <=> mclosed, e \in retired' <=> e \in retired,
           references'[e] = references[e], ex'[e].built <=> ex[e].built,
           ex'[e].closer_calls = ex[e].closer_calls, ex'[e].gate_closed <=> ex[e].gate_closed,
           ex'[e].closed <=> ex[e].closed
    PROVE  LifeOf(e)'
  BY DEF LifeOf

(* What a thread has to close, and a step leaves to it.                    *)
StillOwned(e) ==
    /\ ~Managed(e)' /\ ~Pending(e)' /\ ex'[e].built = ex[e].built
    /\ ex'[e].closer_calls = ex[e].closer_calls
    /\ \A v \in Closers : e \in closing'[v] => e \in closing[v]

LEMMA OwnsKept ==
    ASSUME NEW u \in Closers, Owns(u), exe'[u] = exe[u], closing'[u] = closing[u],
           pc'[u] \in Closing <=> pc[u] \in Closing, pc'[u] = "drain" <=> pc[u] = "drain",
           pc'[u] = "close" <=> pc[u] = "close", \A e \in closing[u] : StillOwned(e)
    PROVE  Owns(u)'
<1>1. pc'[u] \in Closing <=> closing'[u] # {}
  BY DEF Owns
<1>2. pc'[u] = "drain" => exe'[u] \in closing'[u] /\ ex'[exe'[u]].closer_calls # 0
  BY DEF Owns, StillOwned
<1>3. ASSUME NEW e \in closing'[u]
      PROVE  /\ ~Managed(e)' /\ ~Pending(e)' /\ ex'[e].built
             /\ pc'[u] = "close" \/ exe'[u] # e => ex'[e].closer_calls = 0
             /\ \A v \in Closers : e \in closing'[v] => v = u
  BY DEF Owns, StillOwned
<1> QED
  BY <1>1, <1>2, <1>3 DEF Owns

(* A step inside GraphExecutor.run keeps every lease where it is.          *)
LEMMA InsideInv ==
    ASSUME Inv, NEW f \in Forwards, pc[f] \in Inside, NEW l \in Inside, Goto(f, l),
           UNCHANGED <<module, manager, exe, led, closing>>,
           ex' \in [Gens -> Executors], Kept
    PROVE  Inv'
<1>0. f \in Threads /\ f # Replanner /\ f # Closer /\ f # Canceller /\ f \notin Readers
  BY ThreadAssumption DEF Threads
<1>1. TypeOK'
  <2>1. l \in Labels
    BY DEF Inside, Labels
  <2>2. pc' \in [Threads -> Labels]
    BY <1>0, <2>1 DEF Inv, TypeOK, Goto
  <2> QED
    BY <2>2 DEF Inv, TypeOK, module, manager
<1>2. \A t \in Threads : t # f => pc'[t] = pc[t]
  BY <1>0 DEF Inv, TypeOK, Goto
<1>3. pc'[f] = l
  BY <1>0 DEF Inv, TypeOK, Goto
<1>4. Positions'
  BY <1>0, <1>2, <1>3 DEF Inv, Positions, Threads, Inside, Closing, module, manager
<1>5. Locking'
  BY <1>0, <1>2 DEF Inv, Locking, Threads, module, manager
<1>6. \A e \in Gens : (Managed(e)' <=> Managed(e)) /\ (Pending(e)' <=> Pending(e))
  BY <1>0, <1>2 DEF Managed, Pending, Threads, manager
<1>7. Life'
  BY <1>6 DEF Inv, Life, LifeOf, Kept, manager
<1>8. Ownership'
  <2>1. \A t \in Threads : pc'[t] \in Closing <=> pc[t] \in Closing
    BY <1>2, <1>3 DEF Inside, Closing
  <2>2. \A t \in Threads : (pc'[t] = "drain" <=> pc[t] = "drain") /\ (pc'[t] = "close" <=> pc[t] = "close")
    BY <1>2, <1>3 DEF Inside
  <2> QED
    BY <1>6, <2>1, <2>2 DEF Inv, TypeOK, Ownership, Owns, Kept, Closers, manager
<1>9. \A e : Holders(e)' = Holders(e) /\ Debtors(e)' = Debtors(e)
  BY <1>0, <1>2, <1>3 DEF Holders, Debtors, Inside, Threads
<1>10. Counts'
  BY <1>9 DEF Inv, Counts, module, manager
<1> QED
  BY <1>1, <1>4, <1>5, <1>7, <1>8, <1>10 DEF Inv

(* A thread with an executor in hand updates fields of it that have no     *)
(* part in closing it.                                                     *)
LEMMA UpdateKept ==
    ASSUME Inv, NEW e \in Gens, NEW x \in Executors, ex' = [ex EXCEPT ![e] = x],
           x.built = ex[e].built, x.closer_calls = ex[e].closer_calls,
           x.gate_closed = ex[e].gate_closed, x.closed = ex[e].closed
    PROVE  ex' \in [Gens -> Executors] /\ Kept
<1>1. ex \in [Gens -> Executors]
  BY DEF Inv, TypeOK
<1>2. ex' \in [Gens -> Executors]
  BY <1>1
<1>3. \A d \in Gens : ex'[d] = IF d = e THEN x ELSE ex[d]
  BY <1>1
<1> QED
  BY <1>2, <1>3 DEF Kept

LEMMA EnterExecutorInv == ASSUME Inv, NEW f \in Forwards, EnterExecutor(f) PROVE Inv'
<1> DEFINE e == exe[f]
<1>1. pc[f] \in Inside /\ pc[f] = "leased"
  BY DEF EnterExecutor, Inside
<1>2. e \in Gens /\ f \in Holders(e)
  BY <1>1, ThreadAssumption DEF Inv, TypeOK, Positions, Threads, Holders
<1>3. references[e] # 0
  BY <1>2, Finite, FS_EmptySet DEF Inv, Counts
<1>4. ~ex[e].closed /\ ~ex[e].gate_closed
  BY <1>2, <1>3 DEF Inv, Life, LifeOf
<1> DEFINE x == [ex[e] EXCEPT !.inflight = @ + 1]
<1>5. ex[e] \in Executors
  BY <1>2 DEF Inv, TypeOK
<1>6. x \in Executors /\ x.built = ex[e].built /\ x.closer_calls = ex[e].closer_calls
      /\ x.gate_closed = ex[e].gate_closed /\ x.closed = ex[e].closed
  BY <1>5 DEF Executors
<1>7. ex' = [ex EXCEPT ![e] = x]
  BY <1>4 DEF EnterExecutor
<1>8. ex' \in [Gens -> Executors] /\ Kept
  BY <1>2, <1>6, <1>7, UpdateKept, Zenon
<1>9. PICK l \in Inside : Goto(f, l)
  BY <1>4 DEF EnterExecutor, Inside
<1> QED
  BY <1>1, <1>8, <1>9, InsideInv DEF EnterExecutor

(* The lease a forward inside the executor works under.                    *)
LEMMA InsideHolds ==
    ASSUME Inv, NEW f \in Forwards, pc[f] \in Inside
    PROVE  exe[f] \in Gens /\ ex[exe[f]] \in Executors
BY ThreadAssumption DEF Inv, TypeOK, Positions, Threads, Inside

LEMMA ClearedKept ==
    ASSUME NEW x \in Executors, NEW b \in BOOLEAN
    PROVE  LET y == [x EXCEPT !.cancel_requested = b]
           IN  /\ y \in Executors /\ y.inflight = x.inflight
               /\ y.built = x.built /\ y.closer_calls = x.closer_calls
               /\ y.gate_closed = x.gate_closed /\ y.closed = x.closed
BY DEF Executors

LEMMA LeaveGateKept ==
    ASSUME Inv, NEW e \in Gens, NEW g, ex' = LeaveGate(e, g)
    PROVE  ex' \in [Gens -> Executors] /\ Kept
<1> DEFINE b == ex[e].cancel_requested /\ ex[e].cancel_generation # g
           y == [ex[e] EXCEPT !.cancel_requested = b]
           x == [y EXCEPT !.inflight = @ - 1]
<1>1. ex[e] \in Executors /\ ex \in [Gens -> Executors]
  BY DEF Inv, TypeOK
<1>2. ex' = [ex EXCEPT ![e] = x]
  BY <1>1, Zenon DEF LeaveGate, Cleared
<1>3. b \in BOOLEAN
  BY Zenon
<1> HIDE DEF b
<1>4. /\ y \in Executors
      /\ y.built = ex[e].built /\ y.closer_calls = ex[e].closer_calls
      /\ y.gate_closed = ex[e].gate_closed /\ y.closed = ex[e].closed
  BY Zenon, <1>1, <1>3, ClearedKept
<1> HIDE DEF y
<1>5. x \in Executors /\ x.built = ex[e].built /\ x.closer_calls = ex[e].closer_calls
      /\ x.gate_closed = ex[e].gate_closed /\ x.closed = ex[e].closed
  BY <1>4 DEF Executors
<1> QED
  BY <1>2, <1>5, UpdateKept, Zenon

(* The steps of GraphExecutor.run after its gate was entered.              *)
LEMMA InsideStepInv ==
    ASSUME Inv, NEW f \in Forwards,
           \/ RunDirect(f) \/ TestSticky(f) \/ ConsumeSticky(f) \/ RegisterToken(f)
           \/ Seed(f) \/ RunBody(f) \/ Reraise(f) \/ LeaveExecutor(f)
    PROVE  Inv'
<1> DEFINE e == exe[f]
<1>1. pc[f] \in Inside
  BY DEF RunDirect, TestSticky, ConsumeSticky, RegisterToken, Seed, RunBody, Reraise,
         LeaveExecutor, Inside
<1>2. e \in Gens /\ ex[e] \in Executors
  BY <1>1, InsideHolds
<1>3. PICK l \in Inside : Goto(f, l)
  BY DEF RunDirect, TestSticky, ConsumeSticky, RegisterToken, Seed, RunBody, Reraise,
         LeaveExecutor, Inside
<1>4. UNCHANGED <<module, manager, exe, led, closing>>
  BY DEF RunDirect, TestSticky, ConsumeSticky, RegisterToken, Seed, RunBody, Reraise,
         LeaveExecutor
<1>5. ex' \in [Gens -> Executors] /\ Kept
  <2>1. CASE RunDirect(f) \/ LeaveExecutor(f)
    <3>1. CASE ex' = LeaveGate(e, start_gen[f])
      BY <1>2, <3>1, LeaveGateKept
    <3>2. CASE ex' = [ex EXCEPT ![e].inflight = @ - 1]
      <4> DEFINE x == [ex[e] EXCEPT !.inflight = @ - 1]
      <4>1. x \in Executors /\ x.built = ex[e].built /\ x.closer_calls = ex[e].closer_calls
            /\ x.gate_closed = ex[e].gate_closed /\ x.closed = ex[e].closed
        BY <1>2 DEF Executors
      <4> QED
        BY <1>2, <3>2, <4>1, UpdateKept, Zenon
    <3> QED
      BY <2>1, <3>1, <3>2 DEF RunDirect, LeaveExecutor
  <2>2. CASE TestSticky(f)
    BY <2>2 DEF TestSticky, Inv, TypeOK, Kept
  <2>3. CASE ConsumeSticky(f)
    <3> DEFINE x == [ex[e] EXCEPT !.cancel = FALSE]
    <3>1. x \in Executors /\ x.built = ex[e].built /\ x.closer_calls = ex[e].closer_calls
          /\ x.gate_closed = ex[e].gate_closed /\ x.closed = ex[e].closed
      BY <1>2, Zenon DEF Executors
    <3>2. ex' = [ex EXCEPT ![e] = x]
      BY <2>3 DEF ConsumeSticky
    <3> QED
      BY <1>2, <3>1, <3>2, UpdateKept, Zenon
  <2>4. CASE RegisterToken(f)
    <3> DEFINE x == [ex[e] EXCEPT !.active = @ \cup {f}]
    <3>1. x \in Executors /\ x.built = ex[e].built /\ x.closer_calls = ex[e].closer_calls
          /\ x.gate_closed = ex[e].gate_closed /\ x.closed = ex[e].closed
      BY <1>2 DEF Executors
    <3>2. ex' = [ex EXCEPT ![e] = x]
      BY <2>4 DEF RegisterToken
    <3> QED
      BY <1>2, <3>1, <3>2, UpdateKept, Zenon
  <2>5. CASE Reraise(f)
    <3> DEFINE x == [ex[e] EXCEPT !.cancel = FALSE, !.active = @ \ {f}]
    <3>1. x \in Executors /\ x.built = ex[e].built /\ x.closer_calls = ex[e].closer_calls
          /\ x.gate_closed = ex[e].gate_closed /\ x.closed = ex[e].closed
      BY <1>2, Zenon DEF Executors
    <3>2. ex' = [ex EXCEPT ![e] = x]
      BY <2>5, Zenon DEF Reraise
    <3> QED
      BY <1>2, <3>1, <3>2, UpdateKept, Zenon
  <2>6. CASE Seed(f)
    <3>1. PICK oom \in {None} \cup {f} : ex' = [ex EXCEPT ![e].recovering = oom]
      BY <2>6, Zenon DEF Seed
    <3> DEFINE x == [ex[e] EXCEPT !.recovering = oom]
    <3>2. x \in Executors /\ x.built = ex[e].built /\ x.closer_calls = ex[e].closer_calls
          /\ x.gate_closed = ex[e].gate_closed /\ x.closed = ex[e].closed
      BY <1>2 DEF Executors
    <3> QED
      BY <1>2, <3>1, <3>2, UpdateKept, Zenon
  <2>7. CASE RunBody(f)
    <3> DEFINE x == Recovered(ex[e], f)
               y == Unregistered(x, f)
    <3>3. ex' = [ex EXCEPT ![e] = x] \/ ex' = [ex EXCEPT ![e] = y]
      BY <2>7 DEF RunBody
    <3>1. x \in Executors /\ x.built = ex[e].built /\ x.closer_calls = ex[e].closer_calls
          /\ x.gate_closed = ex[e].gate_closed /\ x.closed = ex[e].closed
      BY <1>2, Zenon DEF Executors, Recovered
    <3> HIDE DEF x
    <3>2. y \in Executors /\ y.built = ex[e].built /\ y.closer_calls = ex[e].closer_calls
          /\ y.gate_closed = ex[e].gate_closed /\ y.closed = ex[e].closed
      BY <3>1 DEF Executors, Unregistered
    <3> HIDE DEF y
    <3> QED
      BY <1>2, <3>1, <3>2, <3>3, UpdateKept
  <2> QED
    BY <2>1, <2>2, <2>3, <2>4, <2>5, <2>6, <2>7
<1> QED
  BY <1>1, <1>3, <1>4, <1>5, InsideInv

-----------------------------------------------------------------------------
(* A step after which the same threads hold, and owe, the same.            *)
LEMMA CountsSame ==
    ASSUME Counts, UNCHANGED <<references, used>>,
           \A e \in Gens : Holders(e)' = Holders(e) /\ Debtors(e)' = Debtors(e)
    PROVE  Counts'
BY DEF Counts

(* Acquire: the lease is of the current generation, which nobody closes.   *)
LEMMA LeaseInv ==
    ASSUME Inv, NEW t \in Forwards \cup Readers, pc[t] = "idle", ~mclosed, Lease(t, current),
           NEW l, Goto(t, l),
           UNCHANGED <<closed, state_lock, ledger, current, retired, mclosed, ex, closing>>,
           t \in Forwards => /\ l = "leased" /\ led' = [led EXCEPT ![t] = ledger]
                             /\ ledger = current,
           t \in Readers => l = "read" /\ led' = led,
           used' \in [Gens -> [Resources -> Int]],
           \A e \in Gens, r \in Resources :
              /\ used'[e][r] = Need[e][r] * Cardinality(Debtors(e)')
              /\ used'[e][r] <= Budget[e][r]
    PROVE  Inv'
<1>0. /\ t \in Threads /\ t # Replanner /\ t # Closer /\ t # Canceller
      /\ t \in Forwards <=> t \notin Readers
      /\ current \in Gens /\ current # None /\ l \in {"leased", "read"}
  BY ThreadAssumption, ModuleAssumption DEF Threads, Inv, TypeOK
<1>a. /\ pc' \in [Threads -> Labels] /\ exe' \in [Threads -> Gens \cup {None}]
      /\ led' \in [Forwards -> Gens \cup {None}]
  BY <1>0, Zenon DEF Inv, TypeOK, Goto, Lease, Labels
<1>b. references' \in [Gens -> Int]
  BY <1>0 DEF Inv, TypeOK, Lease
<1>1. TypeOK'
  BY <1>a, <1>b DEF Inv, TypeOK
<1>2. /\ \A u \in Threads : u # t => pc'[u] = pc[u] /\ exe'[u] = exe[u]
      /\ pc'[t] = l /\ exe'[t] = current
      /\ \A f \in Forwards : f # t => led'[f] = led[f]
      /\ t \in Forwards => led'[t] = current
  BY <1>0 DEF Inv, TypeOK, Goto, Lease
<1>3. Positions'
  BY <1>0, <1>2 DEF Inv, Positions, Threads, Inside, Closing
<1>4. Locking'
  BY <1>0, <1>2 DEF Inv, Locking, Threads
<1>5. \A e \in Gens : (Managed(e)' <=> Managed(e)) /\ (Pending(e)' <=> Pending(e))
  BY <1>0, <1>2 DEF Managed, Pending, Threads
<1>6. \A e \in Gens : references'[e] = IF e = current THEN references[e] + 1 ELSE references[e]
  BY <1>0 DEF Inv, TypeOK, Lease
<1>7. Life'
  BY <1>5, <1>6 DEF Inv, Life, LifeOf, Managed
<1>8. Ownership'
  <2>1. \A u \in Threads : /\ pc'[u] \in Closing <=> pc[u] \in Closing
                           /\ pc'[u] = "drain" <=> pc[u] = "drain"
                           /\ pc'[u] = "close" <=> pc[u] = "close"
                           /\ pc[u] \in Closing => exe'[u] = exe[u]
    BY <1>0, <1>2 DEF Closing
  <2>2. \A u \in Closers : pc[u] \notin Closing => closing[u] = {}
    BY DEF Inv, Ownership, Owns
  <2> QED
    BY <1>5, <2>1, <2>2 DEF Inv, TypeOK, Ownership, Owns, Closers, Closing
<1>9. Holders(current)' = Holders(current) \cup {t} /\ t \notin Holders(current)
  BY <1>0, <1>2 DEF Inv, Positions, Holders, Threads, Inside
<1>10. Cardinality(Holders(current)') = Cardinality(Holders(current)) + 1
  BY Zenon, <1>9, Finite, FS_AddElement
<1>11. \A e \in Gens : e # current => Holders(e)' = Holders(e)
  <2>1. exe[t] = None
    BY <1>0 DEF Inv, Positions, Inside
  <2> QED
    BY <1>0, <1>2, <2>1, ModuleAssumption DEF Holders, Threads
<1>12. Counts'
  BY <1>0, <1>6, <1>10, <1>11 DEF Inv, Counts
<1> QED
  BY <1>1, <1>3, <1>4, <1>7, <1>8, <1>12 DEF Inv

(* One forward more or less at a ledger is one need more or less.          *)
LEMMA OneMore ==
    ASSUME NEW n \in Nat, NEW c \in Nat
    PROVE  n * (c + 1) = n * c + n /\ (c # 0 => n * (c - 1) = n * c - n)
OBVIOUS

LEMMA BeginForwardInv == ASSUME Inv, NEW f \in Forwards, BeginForward(f) PROVE Inv'
<1> DEFINE e == ledger
<1>0. /\ f \in Threads /\ e = current /\ e \in Gens /\ led[f] = None /\ e # None
      /\ led \in [Forwards -> Gens \cup {None}] /\ used \in [Gens -> [Resources -> Int]]
  BY ModuleAssumption, Zenon DEF BeginForward, Inv, TypeOK, Positions, Locking, Threads
<1>1. /\ used' = [used EXCEPT ![e] = [r \in Resources |-> used[e][r] + Need[e][r]]]
      /\ led' = [led EXCEPT ![f] = e]
  BY DEF BeginForward, TakeLedger
<1>2. \A r \in Resources : Need[e][r] \in Nat /\ used[e][r] \in Int
  BY <1>0, ModuleAssumption
<1>3. used' \in [Gens -> [Resources -> Int]]
  BY <1>0, <1>1, <1>2
<1>4. ASSUME NEW d \in Gens, NEW r \in Resources
      PROVE  used'[d][r] = Need[d][r] * Cardinality(Debtors(d)') /\ used'[d][r] <= Budget[d][r]
  <2>1. CASE d = e
    <3>1. Debtors(d)' = Debtors(d) \cup {f} /\ f \notin Debtors(d)
      BY <1>0, <1>1, <2>1 DEF Debtors
    <3>2. Cardinality(Debtors(d)') = Cardinality(Debtors(d)) + 1 /\ Cardinality(Debtors(d)) \in Nat
      BY Zenon, <3>1, Finite, FS_AddElement
    <3>3. used'[d][r] = used[d][r] + Need[d][r] /\ used'[d][r] <= Budget[d][r]
      BY <1>0, <1>1, <2>1 DEF BeginForward, Fits
    <3>4. used[d][r] = Need[d][r] * Cardinality(Debtors(d))
      BY DEF Inv, Counts
    <3> QED
      BY <1>2, <2>1, <3>2, <3>3, <3>4, OneMore, ZenonT(30)
  <2>2. CASE d # e
    <3>1. Debtors(d)' = Debtors(d)
      BY <1>0, <1>1, <2>2, ModuleAssumption DEF Debtors
    <3> QED
      BY <1>0, <1>1, <2>2, <3>1 DEF Inv, Counts
  <2> QED
    BY <2>1, <2>2
<1>5. f \notin Readers
  BY ThreadAssumption
<1> QED
  BY <1>0, <1>1, <1>3, <1>4, <1>5, LeaseInv, Zenon DEF BeginForward

LEMMA BeginReadInv == ASSUME Inv, NEW t \in Readers, BeginRead(t) PROVE Inv'
<1>1. UNCHANGED <<led, used>> /\ t \notin Forwards
  BY ThreadAssumption DEF BeginRead, module
<1>2. \A e : Debtors(e)' = Debtors(e)
  BY <1>1 DEF Debtors
<1>3. used' \in [Gens -> [Resources -> Int]]
  BY <1>1 DEF Inv, TypeOK
<1>4. \A e \in Gens, r \in Resources :
        used'[e][r] = Need[e][r] * Cardinality(Debtors(e)') /\ used'[e][r] <= Budget[e][r]
  BY <1>1, <1>2 DEF Inv, Counts
<1> QED
  BY <1>1, <1>3, <1>4, LeaseInv DEF BeginRead, module

(* Release: the last lease of a retired generation makes its thread the    *)
(* one that closes it.                                                     *)
LEMMA ReleaseInv ==
    ASSUME Inv, NEW t \in Forwards \cup Readers, pc[t] \in Inside \cup {"read"},
           ReleaseLease(t), UNCHANGED <<module, ex, led>>
    PROVE  Inv'
<1>e. PICK e \in Gens : e = exe[t]
  BY ThreadAssumption DEF Inv, TypeOK, Positions, Threads, Inside, Closing
<1> DEFINE last == references[e] = 1
           es == IF last THEN retired \cap {e} ELSE {}
           l == IF es = {} THEN AfterClose(t) ELSE "close"
<1>0. /\ t \in Threads /\ t # Replanner /\ t # Closer /\ t # Canceller /\ t \in Closers
      /\ t \in Forwards <=> t \notin Readers
      /\ t \in Forwards <=> pc[t] \in Inside
  BY ThreadAssumption DEF Threads, Closers, Inv, Positions, Inside, Closing
<1>1. e # None /\ t \in Holders(e)
  BY <1>0, <1>e, ModuleAssumption, ZenonT(30) DEF Inv, TypeOK, Positions, Inside, Holders, Closing
<1>2. references[e] # 0 /\ Managed(e) /\ closing[t] = {}
  BY <1>0, <1>1, Finite, FS_EmptySet DEF Inv, Counts, Life, LifeOf, Ownership, Owns, Closing, Inside
<1>3. AfterClose(t) = IF t \in Forwards THEN "give" ELSE "done"
  BY <1>0 DEF AfterClose
<1>4. /\ references' = [references EXCEPT ![e] = @ - 1]
      /\ retired' = IF last THEN retired \ {e} ELSE retired
      /\ closing' = [closing EXCEPT ![t] = es] /\ pc' = [pc EXCEPT ![t] = l]
      /\ exe' = [exe EXCEPT ![t] = None] /\ UNCHANGED <<current, mclosed>>
  BY <1>e DEF ReleaseLease, LastLease, CloseAll, Goto
<1>5. l \in Labels /\ (l \in {"give", "done", "close"}) /\ (l = "close" <=> es # {})
      /\ (l = "give" => t \in Forwards) /\ (l = "done" => t \notin Forwards)
      /\ es \subseteq {e} /\ es \subseteq retired
  BY <1>3 DEF Labels
<1> HIDE DEF l, es
<1>6. TypeOK'
  <2>1. references' \in [Gens -> Int]
    BY <1>1, <1>4 DEF Inv, TypeOK
  <2>2. /\ pc' \in [Threads -> Labels] /\ exe' \in [Threads -> Gens \cup {None}]
        /\ closing' \in [Threads -> SUBSET Gens] /\ retired' \subseteq Gens
    BY <1>0, <1>1, <1>4, <1>5 DEF Inv, TypeOK
  <2> QED
    BY <1>4, <2>1, <2>2 DEF Inv, TypeOK, module
<1>7. /\ \A u \in Threads : u # t => pc'[u] = pc[u] /\ exe'[u] = exe[u] /\ closing'[u] = closing[u]
      /\ pc'[t] = l /\ exe'[t] = None /\ closing'[t] = es
  BY <1>0, <1>4 DEF Inv, TypeOK
<1>8. Positions'
  BY <1>0, <1>4, <1>5, <1>7 DEF Inv, Positions, Threads, Inside, Closing
<1>9. Locking'
  BY <1>0, <1>4, <1>7 DEF Inv, Locking, Threads, module
<1>10. \A d \in Gens : references'[d] = IF d = e THEN references[d] - 1 ELSE references[d]
  BY <1>1, <1>4 DEF Inv, TypeOK
<1>11. \A d \in Gens : /\ Pending(d)' <=> Pending(d)
                       /\ Managed(d)' => Managed(d)
                       /\ d # e \/ ~last => (Managed(d) => Managed(d)')
  BY <1>0, <1>4, <1>7 DEF Pending, Managed, Threads
<1>12. ASSUME NEW d \in Gens PROVE LifeOf(d)'
  <2>0. LifeOf(d) /\ references[d] \in Int
    BY DEF Inv, TypeOK, Life
  <2>1. CASE d = e /\ last
    BY <1>4, <1>10, <1>11, <2>0, <2>1 DEF LifeOf
  <2>2. CASE ~(d = e /\ last)
    BY <1>2, <1>4, <1>10, <1>11, <2>0, <2>2 DEF LifeOf
  <2> QED
    BY <2>1, <2>2
<1>13. ASSUME NEW u \in Closers PROVE Owns(u)'
  <2>1. CASE u # t
    <3>1. \A d \in closing[u] : d \in Gens /\ d \notin es
      BY <1>5 DEF Inv, TypeOK, Ownership, Owns, Managed, Closers
    <3>2. Owns(u) /\ u \in Threads
      BY Zenon DEF Inv, Ownership, Closers
    <3>3. pc'[u] = pc[u] /\ exe'[u] = exe[u] /\ closing'[u] = closing[u]
      BY <1>7, <2>1, <3>2
    <3>4. ASSUME NEW d \in closing[u] PROVE \A v \in Closers : d \in closing'[v] => v = u
      BY <1>0, <1>7, <3>1, <3>2 DEF Owns, Closers
    <3> QED
      BY <1>11, <3>1, <3>2, <3>3, <3>4 DEF Owns
  <2>2. CASE u = t
    <3>1. ASSUME NEW d \in es
          PROVE  /\ ~Managed(d)' /\ ~Pending(d)' /\ ex'[d].built /\ ex'[d].closer_calls = 0
                 /\ \A v \in Closers : d \in closing'[v] => v = u
      <4>1. d = e /\ last /\ e \in retired
        BY <1>5 DEF es
      <4>2. ~Managed(d)'
        BY <1>1, <1>4, <4>1, Zenon DEF Managed, Inv, Life, LifeOf
      <4>3. ~Pending(d)' /\ ex'[d].built /\ ex'[d].closer_calls = 0
        BY <1>1, <1>2, <1>11, <4>1 DEF Inv, Life, LifeOf
      <4>4. \A v \in Closers : v # t => d \notin closing[v]
        BY <1>1, <1>2, <4>1 DEF Inv, Ownership, Owns
      <4> QED
        BY <1>7, <2>2, <4>2, <4>3, <4>4 DEF Closers
    <3> QED
      BY <1>5, <1>7, <2>2, <3>1 DEF Owns, Closing
  <2> QED
    BY <2>1, <2>2, Zenon
<1>14. Holders(e)' = Holders(e) \ {t}
  <2>1. ASSUME NEW u \in Forwards \cup Readers, u # t
        PROVE  u \in Holders(e)' <=> u \in Holders(e)
    BY <1>7, <2>1 DEF Holders, Threads
  <2>2. t \notin Holders(e)'
    BY <1>1, <1>7 DEF Holders
  <2> QED
    BY <2>1, <2>2 DEF Holders
<1>15. ASSUME NEW d \in Gens, d # e PROVE Holders(d)' = Holders(d)
  <2>1. ASSUME NEW u \in Forwards \cup Readers, u # t
        PROVE  u \in Holders(d)' <=> u \in Holders(d)
    BY <1>7, <2>1 DEF Holders, Threads
  <2>2. t \notin Holders(d)' /\ t \notin Holders(d)
    BY <1>7, <1>e, <1>15, ModuleAssumption DEF Holders
  <2> QED
    BY <2>1, <2>2 DEF Holders
<1>16. \A d : Debtors(d)' = Debtors(d)
  BY DEF Debtors
<1>17. Cardinality(Holders(e)') = Cardinality(Holders(e)) - 1
  BY ZenonT(30), <1>1, <1>14, Finite, FS_RemoveElement
<1>18. Counts'
  BY <1>1, <1>10, <1>15, <1>16, <1>17 DEF Inv, Counts, module
<1> QED
  BY <1>6, <1>8, <1>9, <1>12, <1>13, <1>18 DEF Inv, Life, Ownership

(* The ledger gets back what the forward took from it, not what the module *)
(* would give now.                                                         *)
LEMMA EndForwardInv == ASSUME Inv, NEW f \in Forwards, EndForward(f) PROVE Inv'
<1>0. /\ f \in Threads /\ f # Replanner /\ f # Closer /\ f # Canceller /\ f \notin Readers
      /\ pc[f] = "give" /\ exe[f] = None
  BY ThreadAssumption DEF Threads, EndForward, Inv, Positions, Inside
<1>e. PICK e \in Gens : e = led[f]
  BY <1>0, Zenon DEF Inv, TypeOK, Positions
<1>1. /\ used' = [used EXCEPT ![e] = [r \in Resources |-> used[e][r] - Need[e][r]]]
      /\ led' = [led EXCEPT ![f] = None] /\ pc' = [pc EXCEPT ![f] = "idle"]
      /\ UNCHANGED <<closed, state_lock, ledger, manager, ex, exe, closing>>
  BY <1>e DEF EndForward, GiveLedger, OwnLedger, Goto
<1>2. \A r \in Resources : Need[e][r] \in Nat /\ used[e][r] \in Int
  BY ModuleAssumption DEF Inv, TypeOK
<1>3. TypeOK'
  <2>1. used' \in [Gens -> [Resources -> Int]]
    BY <1>1, <1>2 DEF Inv, TypeOK
  <2>2. pc' \in [Threads -> Labels] /\ led' \in [Forwards -> Gens \cup {None}]
    BY <1>0, <1>1 DEF Inv, TypeOK, Labels
  <2> QED
    BY <1>1, <2>1, <2>2 DEF Inv, TypeOK, manager
<1>4. /\ \A u \in Threads : u # f => pc'[u] = pc[u]
      /\ \A g \in Forwards : g # f => led'[g] = led[g]
      /\ pc'[f] = "idle" /\ led'[f] = None
  BY <1>0, <1>1 DEF Inv, TypeOK
<1>5. Positions'
  BY <1>0, <1>1, <1>4 DEF Inv, Positions, Threads, Inside, Closing, manager
<1>6. Locking'
  BY <1>0, <1>1, <1>4 DEF Inv, Locking, Threads, manager
<1>7. \A d \in Gens : (Managed(d)' <=> Managed(d)) /\ (Pending(d)' <=> Pending(d))
  BY <1>0, <1>1, <1>4, ZenonT(30) DEF Managed, Pending, Threads, manager
<1>8. Life'
  BY <1>1, <1>7 DEF Inv, Life, LifeOf, manager
<1>9. Ownership'
  <2>1. \A u \in Threads : /\ pc'[u] \in Closing <=> pc[u] \in Closing
                           /\ pc'[u] = "drain" <=> pc[u] = "drain"
                           /\ pc'[u] = "close" <=> pc[u] = "close"
    BY <1>0, <1>4 DEF Closing
  <2> QED
    <3>1. ASSUME NEW u \in Closers PROVE Owns(u)'
      <4>1. u \in Threads /\ Owns(u) /\ closing[u] \subseteq Gens
        BY DEF Inv, TypeOK, Ownership, Closers
      <4>2. ASSUME NEW d \in closing[u] PROVE StillOwned(d)
        <5>1. d \in Gens /\ ~Managed(d) /\ ~Pending(d)
          BY <4>1, ZenonT(30) DEF Owns
        <5> QED
          BY <1>1, <1>7, <5>1, ZenonT(30) DEF StillOwned
      <4> QED
        BY <1>1, <2>1, <4>1, <4>2, OwnsKept
    <3> QED
      BY <3>1, ZenonT(30) DEF Ownership
<1>10. \A d \in Gens : Holders(d)' = Holders(d)
  BY <1>0, <1>1, <1>4, ModuleAssumption DEF Holders, Threads
<1>11. ASSUME NEW d \in Gens, NEW r \in Resources
       PROVE  used'[d][r] = Need[d][r] * Cardinality(Debtors(d)') /\ used'[d][r] <= Budget[d][r]
  <2>0. /\ used[d][r] = Need[d][r] * Cardinality(Debtors(d)) /\ used[d][r] <= Budget[d][r]
        /\ Need[d][r] \in Nat /\ Budget[d][r] \in Nat /\ used[d][r] \in Int
    BY ModuleAssumption DEF Inv, TypeOK, Counts
  <2>1. CASE d = e
    <3>1. Debtors(d)' = Debtors(d) \ {f} /\ f \in Debtors(d)
      BY <1>e, <1>4, <2>1, ModuleAssumption DEF Debtors
    <3>2. Cardinality(Debtors(d)') = Cardinality(Debtors(d)) - 1 /\ Cardinality(Debtors(d)) \in Nat
      BY ZenonT(30), <3>1, Finite, FS_RemoveElement
    <3>3. Cardinality(Debtors(d)) # 0
      BY <3>1, Finite, FS_EmptySet
    <3>4. used'[d][r] = used[d][r] - Need[d][r]
      BY <1>1, <2>1 DEF Inv, TypeOK
    <3>5. Need[d][r] * (Cardinality(Debtors(d)) - 1) = Need[d][r] * Cardinality(Debtors(d)) - Need[d][r]
      BY <2>0, <3>2, <3>3, OneMore, Zenon
    <3> QED
      BY <2>0, <3>2, <3>4, <3>5
  <2>2. CASE d # e
    <3>1. Debtors(d)' = Debtors(d)
      BY <1>e, <1>4, <2>2, ModuleAssumption DEF Debtors
    <3>2. used'[d][r] = used[d][r]
      BY <1>1, <2>2 DEF Inv, TypeOK
    <3> QED
      BY <2>0, <3>1, <3>2, Zenon
  <2> QED
    BY <2>1, <2>2
<1>12. Counts'
  BY <1>1, <1>10, <1>11, ZenonT(30) DEF Inv, Counts, manager
<1> QED
  BY <1>3, <1>5, <1>6, <1>8, <1>9, <1>12 DEF Inv

(* The gate of one of the generations a thread has to close is shut.       *)
LEMMA CloseBeginInv == ASSUME Inv, NEW t \in Threads, CloseBegin(t) PROVE Inv'
<1>0. t \in Closers /\ Owns(t) /\ pc[t] = "close"
  BY DEF CloseBegin, Inv, Positions, Ownership, Closers, Closing
<1>1. PICK e \in closing[t] :
        /\ exe' = [exe EXCEPT ![t] = e]
        /\ ex' = [ex EXCEPT ![e].gate_closed = TRUE, ![e].closer_calls = @ + 1]
  BY Zenon DEF CloseBegin
<1>2. /\ pc' = [pc EXCEPT ![t] = "drain"] /\ UNCHANGED <<module, manager, led, closing>>
      /\ e \in Gens /\ ex[e] \in Executors /\ ex \in [Gens -> Executors]
  BY DEF CloseBegin, Goto, Inv, TypeOK
<1>3. /\ ~Managed(e) /\ ~Pending(e) /\ ex[e].built /\ ex[e].closer_calls = 0
      /\ \A u \in Closers : e \in closing[u] => u = t
  BY <1>0 DEF Owns
<1>4. /\ ex' \in [Gens -> Executors]
      /\ \A d \in Gens : d # e => ex'[d] = ex[d]
      /\ ex'[e].closer_calls = 1 /\ ex'[e].built
  BY <1>1, <1>2, <1>3 DEF Executors
<1>5. TypeOK'
  <2>1. pc' \in [Threads -> Labels] /\ exe' \in [Threads -> Gens \cup {None}]
    BY <1>1, <1>2 DEF Inv, TypeOK, Labels
  <2> QED
    BY <1>2, <1>4, <2>1 DEF Inv, TypeOK, module, manager
<1>6. /\ \A u \in Threads : u # t => pc'[u] = pc[u] /\ exe'[u] = exe[u]
      /\ pc'[t] = "drain" /\ exe'[t] = e /\ e # None
  BY <1>1, <1>2, ModuleAssumption DEF Inv, TypeOK
<1>7. Positions'
  BY <1>0, <1>2, <1>6, ZenonT(30) DEF Inv, Positions, Threads, Inside, Closing, manager
<1>8. Locking'
  BY <1>0, <1>2, <1>6 DEF Inv, Locking, Threads, Closing, module, manager
<1>9. \A d \in Gens : (Managed(d)' <=> Managed(d)) /\ (Pending(d)' <=> Pending(d))
  BY <1>0, <1>2, <1>6, ZenonT(30) DEF Managed, Pending, Threads, manager
<1>10. Life'
  BY <1>2, <1>3, <1>4, <1>9 DEF Inv, Life, LifeOf, manager
<1>11. ASSUME NEW u \in Closers PROVE Owns(u)'
  <2>1. Owns(u) /\ u \in Threads /\ closing'[u] = closing[u] /\ closing[u] \subseteq Gens
    BY <1>2, ZenonT(30) DEF Inv, TypeOK, Ownership, Closers
  <2>2. CASE u # t
    <3>1. \A d \in closing[u] : d # e
      BY <1>3, <2>2, Zenon
    <3> QED
      BY <1>2, <1>4, <1>6, <1>9, <2>1, <2>2, <3>1 DEF Owns
  <2>3. CASE u = t
    BY <1>0, <1>2, <1>4, <1>6, <1>9, <2>1, <2>3 DEF Owns, Closing
  <2> QED
    BY <2>2, <2>3
<1>12. \A d \in Gens : Holders(d)' = Holders(d) /\ Debtors(d)' = Debtors(d)
  BY <1>0, <1>2, <1>6 DEF Holders, Debtors, Threads
<1>13. Counts'
  BY <1>2, <1>12, CountsSame, Zenon DEF Inv, module, manager
<1> QED
  BY <1>5, <1>7, <1>8, <1>10, <1>11, <1>13 DEF Inv, Ownership

(* The executor is closed and the thread goes on to the next one, or on.   *)
LEMMA CloseFinishInv == ASSUME Inv, NEW t \in Threads, CloseFinish(t) PROVE Inv'
<1>0. t \in Closers /\ Owns(t) /\ pc[t] = "drain" /\ exe[t] \in closing[t]
  BY DEF CloseFinish, Inv, Positions, Ownership, Owns, Closers, Closing
<1>e. PICK e \in Gens : e = exe[t] /\ e \in closing[t]
  BY <1>0 DEF Inv, TypeOK
<1> DEFINE rest == closing[t] \ {e}
           l == IF rest = {} THEN AfterClose(t) ELSE "close"
<1>1. /\ ex' = [ex EXCEPT ![e].closed = TRUE, ![e].cancel = TRUE]
      /\ exe' = [exe EXCEPT ![t] = None]
      /\ closing' = [closing EXCEPT ![t] = rest] /\ pc' = [pc EXCEPT ![t] = l]
      /\ UNCHANGED <<module, manager, led>>
  BY <1>e DEF CloseFinish, CloseAll, Goto
<1>2. /\ rest # {} => l = "close"
      /\ rest = {} => /\ t \in Forwards => l = "give"
                      /\ t = Replanner => l = IF state_lock = Replanner THEN "publish" ELSE "idle"
                      /\ t \in Readers \cup {Closer} => l = "done"
      /\ rest = {} => l \in {"give", "publish", "idle", "done"}
  BY <1>0, ThreadAssumption DEF AfterClose, Closers, Threads
<1>3. l \in Labels /\ (l = "close" <=> rest # {}) /\ l # "drain" /\ l # "built"
  BY <1>2 DEF Labels
<1> HIDE DEF l
<1>4. /\ ex' \in [Gens -> Executors]
      /\ \A d \in Gens : /\ d # e => ex'[d] = ex[d]
                         /\ ex'[d].built = ex[d].built
                         /\ ex'[d].closer_calls = ex[d].closer_calls
                         /\ ex'[d].gate_closed = ex[d].gate_closed
  <2> DEFINE x == [ex[e] EXCEPT !.closed = TRUE, !.cancel = TRUE]
  <2>1. ex \in [Gens -> Executors] /\ ex[e] \in Executors
    BY DEF Inv, TypeOK
  <2>2. x \in Executors /\ x.built = ex[e].built /\ x.closer_calls = ex[e].closer_calls
        /\ x.gate_closed = ex[e].gate_closed
    BY <2>1, Zenon DEF Executors
  <2>3. ex' = [ex EXCEPT ![e] = x]
    BY <1>1, Zenon
  <2> HIDE DEF x
  <2> QED
    BY <2>1, <2>2, <2>3
<1>5. TypeOK'
  <2>1. /\ pc' \in [Threads -> Labels] /\ exe' \in [Threads -> Gens \cup {None}]
        /\ closing' \in [Threads -> SUBSET Gens]
    BY <1>1, <1>3 DEF Inv, TypeOK
  <2> QED
    BY <1>1, <1>4, <2>1 DEF Inv, TypeOK, module, manager
<1>6. /\ \A u \in Threads : u # t => pc'[u] = pc[u] /\ exe'[u] = exe[u] /\ closing'[u] = closing[u]
      /\ pc'[t] = l /\ exe'[t] = None /\ closing'[t] = rest
  BY <1>1 DEF Inv, TypeOK
<1>7. Positions'
  <2>1. ASSUME NEW f \in Forwards
        PROVE  /\ pc'[f] \in {"idle", "give", "done"} \cup Inside \cup Closing
               /\ exe'[f] # None <=> pc'[f] \in Inside \cup {"drain"}
               /\ led'[f] # None <=> pc'[f] \notin {"idle", "done"}
               /\ pc'[f] \in Inside => led'[f] = exe'[f]
    BY <1>0, <1>1, <1>2, <1>6 DEF Inv, Positions, Threads, Inside, Closing
  <2>2. ASSUME NEW r \in Readers
        PROVE  /\ pc'[r] \in {"idle", "read", "done"} \cup Closing
               /\ exe'[r] # None <=> pc'[r] \in {"read", "drain"}
    BY <1>0, <1>1, <1>2, <1>6 DEF Inv, Positions, Threads, Closing
  <2>3. /\ pc'[Closer] \in {"idle", "retire", "done"} \cup Closing
        /\ mclosed' => pc'[Closer] \notin {"idle", "retire"}
        /\ pc'[Canceller] \notin Closing
    BY <1>0, <1>1, <1>2, <1>6, ThreadAssumption
    DEF Inv, Positions, Threads, Closers, Closing, manager
  <2> QED
    BY <2>1, <2>2, <2>3 DEF Positions
<1>8. Locking'
  <2>1. state_lock \in {None, Replanner}
    BY DEF Inv, TypeOK
  <2> QED
    BY <1>0, <1>1, <1>2, <1>3, <1>6, <2>1 DEF Inv, Locking, Threads, Closing, module, manager
<1>9. \A d \in Gens : (Managed(d)' <=> Managed(d)) /\ (Pending(d)' <=> Pending(d))
  BY <1>0, <1>1, <1>3, <1>6 DEF Managed, Pending, Threads, manager
<1>10. Life'
  <2>1. LifeOf(e) /\ ex[e].closer_calls # 0
    BY <1>0, <1>e DEF Inv, Life, LifeOf, Owns, Closing
  <2> QED
    BY <1>1, <1>4, <1>9, <2>1 DEF Inv, Life, LifeOf, manager
<1>11. ASSUME NEW u \in Closers PROVE Owns(u)'
  <2>1. Owns(u) /\ u \in Threads /\ closing[u] \subseteq Gens
    BY DEF Inv, TypeOK, Ownership, Closers
  <2>2. \A v \in Closers : closing'[v] \subseteq closing[v]
    BY <1>6, Zenon DEF Closers
  <2>3. CASE u # t
    BY <1>4, <1>6, <1>9, <2>1, <2>2, <2>3 DEF Owns
  <2>4. CASE u = t
    <3>1. /\ pc'[t] \in Closing <=> closing'[t] # {}
          /\ pc'[t] # "drain"
      BY <1>3, <1>6 DEF Closing
    <3>2. ASSUME NEW d \in closing'[t]
          PROVE  /\ ~Managed(d)' /\ ~Pending(d)' /\ ex'[d].built
                 /\ ex'[d].closer_calls = 0
                 /\ \A v \in Closers : d \in closing'[v] => v = t
      <4>1. d \in closing[t] /\ d # e /\ d \in Gens
        BY <1>6, <2>1, <2>4
      <4>2. /\ ~Managed(d) /\ ~Pending(d) /\ ex[d].built
            /\ pc[t] = "close" \/ exe[t] # d => ex[d].closer_calls = 0
            /\ \A v \in Closers : d \in closing[v] => v = t
        BY <2>1, <2>4, <4>1 DEF Owns
      <4> QED
        BY <1>0, <1>e, <1>4, <1>9, <2>2, <4>1, <4>2, Zenon
    <3> QED
      BY <2>4, <3>1, <3>2, ZenonT(30) DEF Owns
  <2> QED
    BY <2>3, <2>4
<1>12. \A d \in Gens : Holders(d)' = Holders(d) /\ Debtors(d)' = Debtors(d)
  BY <1>0, <1>1, <1>6, ModuleAssumption DEF Holders, Debtors, Threads
<1>13. Counts'
  BY <1>1, <1>12, CountsSame DEF Inv, module, manager
<1> QED
  BY <1>5, <1>7, <1>8, <1>10, <1>11, <1>13 DEF Inv, Ownership

(* Threads whose steps move none of the leases or closes.                  *)
LEMMA AsideInv ==
    ASSUME Inv, NEW t \in {Closer, Canceller}, NEW l \in Labels, Goto(t, l),
           t = Closer => l = "retire" /\ pc[Closer] = "idle" /\ UNCHANGED <<exe, closing>>,
           t = Canceller => l \notin Closing,
           exe' \in [Threads -> Gens \cup {None}], closing' \in [Threads -> SUBSET Gens],
           \A u \in Threads \ {Canceller} : exe'[u] = exe[u] /\ closing'[u] = closing[u],
           UNCHANGED <<state_lock, ledger, used, manager, led>>, closed' \in BOOLEAN,
           ex' \in [Gens -> Executors], Kept
    PROVE  Inv'
<1>0. t \in Threads /\ t # Replanner /\ t \notin Forwards /\ t \notin Readers
  BY ThreadAssumption DEF Threads
<1>1. TypeOK'
  <2>1. pc' \in [Threads -> Labels]
    BY <1>0 DEF Inv, TypeOK, Goto
  <2> QED
    BY <2>1 DEF Inv, TypeOK, manager
<1>2. (\A u \in Threads : u # t => pc'[u] = pc[u]) /\ pc'[t] = l
  BY <1>0, Zenon DEF Inv, TypeOK, Goto
<1>3. Positions'
  BY <1>0, <1>2, ThreadAssumption, ZenonT(30) DEF Inv, Positions, Threads, Inside, Closing, manager
<1>4. Locking'
  BY <1>0, <1>2, ThreadAssumption, Zenon DEF Inv, Locking, Threads, manager
<1>5. \A e \in Gens : (Managed(e)' <=> Managed(e)) /\ (Pending(e)' <=> Pending(e))
  BY <1>0, <1>2, ThreadAssumption DEF Managed, Pending, Threads, manager
<1>6. Life'
  <2>1. ASSUME NEW e \in Gens PROVE LifeOf(e)'
    <3>1. /\ LifeOf(e) /\ ex'[e].built = ex[e].built /\ ex'[e].closer_calls = ex[e].closer_calls
          /\ ex'[e].gate_closed = ex[e].gate_closed /\ ex'[e].closed = ex[e].closed
      BY DEF Inv, Life, Kept
    <3>2. UNCHANGED <<current, references, retired, mclosed>>
      BY DEF manager
    <3> QED
      BY <1>5, <3>1, <3>2, LifeKept, ZenonT(30)
  <2> QED
    BY <2>1 DEF Life
<1>7. Ownership'
  <2>1. \A u \in Closers : /\ pc'[u] \in Closing <=> pc[u] \in Closing
                           /\ pc'[u] = "drain" <=> pc[u] = "drain"
                           /\ pc'[u] = "close" <=> pc[u] = "close"
    <3> SUFFICES ASSUME NEW u \in Closers
                 PROVE  /\ pc'[u] \in Closing <=> pc[u] \in Closing
                        /\ pc'[u] = "drain" <=> pc[u] = "drain"
                        /\ pc'[u] = "close" <=> pc[u] = "close"
      OBVIOUS
    <3>1. u \in Threads /\ u # Canceller
      BY Zenon DEF Closers
    <3>2. CASE u # t
      BY <1>2, <3>1, <3>2, Zenon
    <3>3. CASE u = t
      <4>1. pc'[u] = "retire" /\ pc[u] = "idle"
        BY <1>2, <3>1, <3>3
      <4> QED
        BY <4>1, Zenon DEF Closing
    <3> QED
      BY <3>2, <3>3, ZenonT(30)
  <2>2. \A u \in Closers : /\ exe'[u] = exe[u] /\ closing'[u] = closing[u]
                           /\ closing[u] \subseteq Gens
    BY Zenon DEF Inv, TypeOK, Closers
  <2> QED
    <3>1. ASSUME NEW u \in Closers PROVE Owns(u)'
      <4>1. Owns(u)
        BY Zenon DEF Inv, Ownership
      <4>2. ASSUME NEW d \in closing[u] PROVE StillOwned(d)
        <5>1. d \in Gens /\ ~Managed(d) /\ ~Pending(d)
          BY <2>2, <4>1 DEF Owns
        <5>2. ~Managed(d)' /\ ~Pending(d)'
          BY <1>5, <5>1, ZenonT(30)
        <5>3. ex'[d].built = ex[d].built /\ ex'[d].closer_calls = ex[d].closer_calls
          BY <5>1 DEF Kept
        <5>4. \A v \in Closers : d \in closing'[v] => d \in closing[v]
          BY <2>2, Zenon
        <5> QED
          BY <5>2, <5>3, <5>4, ZenonT(30) DEF StillOwned
      <4> QED
        BY <2>1, <2>2, <4>1, <4>2, OwnsKept
    <3> QED
      BY <3>1, ZenonT(30) DEF Ownership
<1>8. \A e \in Gens : Holders(e)' = Holders(e) /\ Debtors(e)' = Debtors(e)
  BY <1>0, <1>2, ThreadAssumption DEF Holders, Debtors, Threads
<1>9. Counts'
  BY <1>8, CountsSame DEF Inv, manager
<1> QED
  BY <1>1, <1>3, <1>4, <1>6, <1>7, <1>9, ZenonT(30) DEF Inv

LEMMA AsideStepInv ==
    ASSUME Inv, CloseModule \/ RequestCancel \/ CancelExecutor \/ CancelTokens
    PROVE  Inv'
<1>0. Canceller \in Threads /\ Closer \in Threads /\ Canceller # Closer
  BY ThreadAssumption DEF Threads
<1>1. CASE CloseModule
  <2>1. ex' \in [Gens -> Executors] /\ Kept
    BY <1>1 DEF CloseModule, Inv, TypeOK, Kept
  <2> QED
    BY <1>0, <1>1, <2>1, AsideInv, ZenonT(30) DEF CloseModule, Inv, TypeOK, Labels
<1>2. CASE RequestCancel
  <2>1. ex' \in [Gens -> Executors] /\ Kept
    BY <1>2 DEF RequestCancel, Inv, TypeOK, Kept
  <2>2. /\ closing' \in [Threads -> SUBSET Gens]
        /\ \A u \in Threads \ {Canceller} : exe'[u] = exe[u] /\ closing'[u] = closing[u]
    BY <1>0, <1>2 DEF RequestCancel, Inv, TypeOK
  <2> QED
    BY <1>0, <1>2, <2>1, <2>2, AsideInv, ZenonT(30)
    DEF RequestCancel, Inv, TypeOK, Labels, Closing, module, manager
<1>3. CASE CancelExecutor
  <2>1. PICK e \in closing[Canceller] :
          /\ exe' = [exe EXCEPT ![Canceller] = e]
          /\ ex' = [ex EXCEPT ![e].cancel_generation = @ + 1, ![e].cancel_requested = TRUE]
    BY <1>3, Zenon DEF CancelExecutor
  <2>2. e \in Gens /\ ex[e] \in Executors
    BY <1>0 DEF Inv, TypeOK
  <2> DEFINE y == [ex[e] EXCEPT !.cancel_generation = @ + 1]
             x == [y EXCEPT !.cancel_requested = TRUE]
  <2>3. ex' = [ex EXCEPT ![e] = x]
    BY <2>1, Zenon
  <2>4. y \in Executors /\ y.built = ex[e].built /\ y.closer_calls = ex[e].closer_calls
        /\ y.gate_closed = ex[e].gate_closed /\ y.closed = ex[e].closed
    BY <2>2 DEF Executors
  <2> HIDE DEF y
  <2>a. x \in Executors /\ x.built = ex[e].built /\ x.closer_calls = ex[e].closer_calls
        /\ x.gate_closed = ex[e].gate_closed /\ x.closed = ex[e].closed
    BY <2>4, ClearedKept, Zenon
  <2> HIDE DEF x
  <2>5. ex' \in [Gens -> Executors] /\ Kept
    BY <2>2, <2>3, <2>a, UpdateKept, Zenon
  <2>6. /\ exe' \in [Threads -> Gens \cup {None}]
        /\ \A u \in Threads \ {Canceller} : exe'[u] = exe[u]
    BY <1>0, <2>1, <2>2 DEF Inv, TypeOK
  <2> QED
    BY <1>0, <1>3, <2>5, <2>6, AsideInv, Zenon
    DEF CancelExecutor, Inv, TypeOK, Labels, Closing, module, manager
<1>4. CASE CancelTokens
  <2>1. ex' \in [Gens -> Executors] /\ Kept
    <3>1. CASE ex' = ex
      BY <3>1 DEF Inv, TypeOK, Kept
    <3>2. CASE exe[Canceller] \in Gens /\ ex' = [ex EXCEPT ![exe[Canceller]].cancel = TRUE]
      <4> DEFINE e == exe[Canceller]
                 x == [ex[e] EXCEPT !.cancel = TRUE]
      <4>0. ex[e] \in Executors
        BY <3>2 DEF Inv, TypeOK
      <4>1. x \in Executors /\ x.built = ex[e].built /\ x.closer_calls = ex[e].closer_calls
            /\ x.gate_closed = ex[e].gate_closed /\ x.closed = ex[e].closed
        BY <4>0, Zenon DEF Executors
      <4> QED
        BY <3>2, <4>1, UpdateKept, Zenon
    <3>3. exe[Canceller] \notin Gens => [ex EXCEPT ![exe[Canceller]].cancel = TRUE] = ex
      BY DEF Inv, TypeOK
    <3> QED
      BY <1>4, <3>1, <3>2, <3>3 DEF CancelTokens
  <2>2. /\ exe' \in [Threads -> Gens \cup {None}] /\ closing' \in [Threads -> SUBSET Gens]
        /\ \A u \in Threads \ {Canceller} : exe'[u] = exe[u] /\ closing'[u] = closing[u]
    BY <1>0, <1>4 DEF CancelTokens, Inv, TypeOK
  <2>3. PICK l \in Labels : Goto(Canceller, l) /\ l \notin Closing
    BY <1>4 DEF CancelTokens, Labels, Closing
  <2> QED
    BY <1>0, <1>4, <2>1, <2>2, <2>3, AsideInv DEF CancelTokens, Inv, TypeOK, module, manager
<1> QED
  BY <1>1, <1>2, <1>3, <1>4

-----------------------------------------------------------------------------
(* Steps of one of the threads that replan and close: what is the same for *)
(* all of them once leases, debts and the other threads are left alone.    *)
LEMMA ReplanPositions ==
    ASSUME Inv, NEW t \in {Replanner, Closer}, NEW l \in Labels, Goto(t, l),
           exe' \in [Threads -> Gens \cup {None}],
           \A u \in Threads : u # t => exe'[u] = exe[u],
           t = Closer => l \in {"done", "close"},
           t = Replanner => mclosed' = mclosed,
           UNCHANGED <<led, used, references>>
    PROVE  /\ pc' \in [Threads -> Labels]
           /\ \A u \in Threads : u # t => pc'[u] = pc[u]
           /\ pc'[t] = l
           /\ Positions' /\ Counts'
<1>0. /\ t \in Threads /\ t \notin Forwards \cup Readers /\ t # Canceller
      /\ Closer \in Threads /\ Canceller \in Threads /\ Closer # Replanner
  BY ThreadAssumption DEF Threads
<1>1. pc' \in [Threads -> Labels] /\ pc'[t] = l /\ \A u \in Threads : u # t => pc'[u] = pc[u]
  BY <1>0 DEF Inv, TypeOK, Goto
<1>2. Positions'
  <2>0. Positions /\ Forwards \cup Readers \subseteq Threads
    BY DEF Inv, Threads
  <2>1. \A u \in Forwards \cup Readers : pc'[u] = pc[u] /\ exe'[u] = exe[u]
    BY <1>0, <1>1, <2>0
  <2>2. pc'[Canceller] = pc[Canceller]
    BY <1>0, <1>1, Zenon
  <2>3. pc'[Closer] \in {"idle", "retire", "done"} \cup Closing
    BY <1>0, <1>1, <2>0, Zenon DEF Positions, Closing
  <2>4. mclosed' => pc'[Closer] \notin {"idle", "retire"}
    BY <1>0, <1>1, <2>0, ZenonT(30) DEF Positions
  <2> QED
    BY <2>0, <2>1, <2>2, <2>3, <2>4, ZenonT(30) DEF Positions
<1>3. \A e \in Gens : Holders(e)' = Holders(e) /\ Debtors(e)' = Debtors(e)
  BY <1>0, <1>1, Zenon DEF Holders, Debtors, Threads
<1>4. Counts'
  BY <1>3, CountsSame DEF Inv
<1> QED
  BY <1>1, <1>2, <1>4

LEMMA BuildReplacementInv == ASSUME Inv, BuildReplacement PROVE Inv'
<1>0. /\ Replanner \in Threads /\ Replanner \in Closers /\ Replanner # Closer
      /\ pc[Replanner] = "idle" /\ "built" \in Labels
  BY ThreadAssumption DEF Threads, Closers, BuildReplacement, Labels
<1>1. PICK e \in Gens : /\ ~ex[e].built /\ ex' = [ex EXCEPT ![e].built = TRUE]
                        /\ exe' = [exe EXCEPT ![Replanner] = e]
  BY Zenon DEF BuildReplacement
<1>2. /\ Goto(Replanner, "built") /\ UNCHANGED <<module, manager, led, closing>>
      /\ exe' \in [Threads -> Gens \cup {None}] /\ exe'[Replanner] = e /\ e # None
      /\ \A u \in Threads : u # Replanner => exe'[u] = exe[u]
  BY <1>0, <1>1, ModuleAssumption DEF BuildReplacement, Inv, TypeOK
<1>3. /\ ex' \in [Gens -> Executors] /\ ex'[e].built
      /\ \A d \in Gens : /\ d # e => ex'[d] = ex[d]
                         /\ ex'[d].closer_calls = ex[d].closer_calls
                         /\ ex'[d].gate_closed = ex[d].gate_closed
                         /\ ex'[d].closed = ex[d].closed
  <2> DEFINE x == [ex[e] EXCEPT !.built = TRUE]
  <2>1. ex \in [Gens -> Executors] /\ ex[e] \in Executors
    BY DEF Inv, TypeOK
  <2>2. x \in Executors /\ x.built /\ x.closer_calls = ex[e].closer_calls
        /\ x.gate_closed = ex[e].gate_closed /\ x.closed = ex[e].closed
    BY <2>1, Zenon DEF Executors
  <2>3. ex' = [ex EXCEPT ![e] = x]
    BY <1>1, Zenon
  <2> HIDE DEF x
  <2> QED
    BY <2>1, <2>2, <2>3
<1>4. /\ pc' \in [Threads -> Labels] /\ pc'[Replanner] = "built"
      /\ \A u \in Threads : u # Replanner => pc'[u] = pc[u]
      /\ Positions' /\ Counts'
  BY <1>0, <1>2, ReplanPositions, Zenon DEF module, manager
<1>5. TypeOK'
  BY <1>2, <1>3, <1>4 DEF Inv, TypeOK, module, manager
<1>6. Locking'
  BY <1>0, <1>2, <1>4, Zenon DEF Inv, Locking, Closing, module, manager
<1>7. /\ \A d \in Gens : Managed(d)' <=> Managed(d)
      /\ \A d \in Gens : Pending(d)' <=> d = e
      /\ \A d \in Gens : ~Pending(d)
      /\ ~Managed(e) /\ ex[e].closer_calls = 0
  BY <1>0, <1>1, <1>2, <1>4 DEF Managed, Pending, manager, Inv, Life, LifeOf
<1>8. Life'
  BY <1>2, <1>3, <1>7, ZenonT(30) DEF Inv, Life, LifeOf, manager
<1>9. ASSUME NEW u \in Closers PROVE Owns(u)'
  <2>1. Owns(u) /\ u \in Threads /\ closing'[u] = closing[u] /\ closing[u] \subseteq Gens
    BY <1>2 DEF Inv, TypeOK, Ownership, Closers
  <2>2. e \notin closing[u]
    BY <1>1, <2>1 DEF Owns
  <2>3. CASE u # Replanner
    <3>1. ASSUME NEW d \in closing[u] PROVE StillOwned(d)
      <4>1. d \in Gens /\ d # e /\ ~Managed(d)
        BY <2>1, <2>2 DEF Owns
      <4>2. ~Managed(d)' /\ ~Pending(d)'
        BY <1>7, <4>1
      <4>3. ex'[d].built = ex[d].built /\ ex'[d].closer_calls = ex[d].closer_calls
        BY <1>3, <4>1
      <4> QED
        BY <1>2, <4>2, <4>3 DEF StillOwned
    <3>2. pc'[u] = pc[u] /\ exe'[u] = exe[u]
      BY <1>2, <1>4, <2>1, <2>3
    <3> QED
      BY <2>1, <3>1, <3>2, OwnsKept, Zenon
  <2>4. CASE u = Replanner
    BY <1>0, <1>2, <1>4, <2>1, <2>4, ZenonT(30) DEF Owns, Closing
  <2> QED
    BY <2>3, <2>4
<1> QED
  BY <1>4, <1>5, <1>6, <1>8, <1>9, ZenonT(30) DEF Inv, Ownership

LEMMA PublishInv == ASSUME Inv, Publish PROVE Inv'
<1>0. /\ Replanner \in Threads /\ Replanner \in Closers /\ Replanner # Closer
      /\ pc[Replanner] = "publish" /\ "idle" \in Labels
  BY ThreadAssumption DEF Threads, Closers, Publish, Labels
<1>2. /\ Goto(Replanner, "idle") /\ UNCHANGED <<closed, used, manager, ex, led, closing>>
      /\ exe' \in [Threads -> Gens \cup {None}]
      /\ \A u \in Threads : u # Replanner => exe'[u] = exe[u]
      /\ ledger' = current /\ state_lock' = None
  BY <1>0, Zenon DEF Publish, Inv, TypeOK
<1>4. /\ pc' \in [Threads -> Labels] /\ pc'[Replanner] = "idle"
      /\ \A u \in Threads : u # Replanner => pc'[u] = pc[u]
      /\ Positions' /\ Counts'
  BY <1>0, <1>2, ReplanPositions, Zenon DEF manager
<1>5. TypeOK'
  BY <1>2, <1>4, Zenon DEF Inv, TypeOK, manager
<1>6. Locking'
  BY <1>0, <1>2, <1>4, Zenon DEF Locking, Closing, manager
<1>7. \A d \in Gens : (Managed(d)' <=> Managed(d)) /\ (Pending(d)' <=> Pending(d))
  BY <1>0, <1>2, <1>4 DEF Managed, Pending, manager
<1>8. Life'
  BY <1>2, <1>7, Zenon DEF Inv, Life, LifeOf, manager
<1>9. ASSUME NEW u \in Closers PROVE Owns(u)'
  <2>1. Owns(u) /\ u \in Threads /\ closing'[u] = closing[u] /\ closing[u] \subseteq Gens
    BY <1>2 DEF Inv, TypeOK, Ownership, Closers
  <2>3. CASE u # Replanner
    BY <1>2, <1>4, <1>7, <2>1, <2>3, ZenonT(30) DEF Owns
  <2>4. CASE u = Replanner
    BY <1>0, <1>2, <1>4, <2>1, <2>4, Zenon DEF Owns, Closing
  <2> QED
    BY <2>3, <2>4
<1> QED
  BY <1>4, <1>5, <1>6, <1>8, <1>9, Zenon DEF Inv, Ownership

(* A replacement that cannot be installed is handed to the replanner to    *)
(* close; one that is takes the place of a predecessor that is either      *)
(* retired, because it is leased, or handed to the replanner.              *)
LEMMA InstallInv == ASSUME Inv, Install PROVE Inv'
<1>0. /\ Replanner \in Threads /\ Replanner \in Closers /\ Replanner # Closer
      /\ pc[Replanner] = "built" /\ {"idle", "close", "publish"} \subseteq Labels
      /\ state_lock = None /\ Owns(Replanner) /\ closing[Replanner] = {}
  BY ThreadAssumption, Zenon DEF Threads, Closers, Install, Labels, Inv, Ownership, Owns, Closing
<1>e. PICK e \in Gens : e = exe[Replanner]
  BY <1>0, ZenonT(30) DEF Inv, TypeOK, Locking
<1>1. /\ Pending(e) /\ ~Managed(e) /\ ex[e].built /\ ex[e].closer_calls = 0
      /\ \A d \in Gens : Pending(d) => d = e
      /\ \A u \in Closers : e \notin closing[u]
  BY <1>0, <1>e, ZenonT(30) DEF Pending, Inv, Life, LifeOf, Ownership, Owns
<1>2. UNCHANGED <<closed, ledger, used, ex, led>>
  BY ZenonT(30) DEF Install
<1>3. CASE closed \/ mclosed
  <2>1. /\ Goto(Replanner, "close") /\ closing' = [closing EXCEPT ![Replanner] = {e}]
        /\ exe' = [exe EXCEPT ![Replanner] = None] /\ UNCHANGED <<state_lock, manager>>
    BY <1>3, <1>e DEF Install, CloseAll, Abandoned
  <2>2. /\ exe' \in [Threads -> Gens \cup {None}]
        /\ \A u \in Threads : u # Replanner => exe'[u] = exe[u] /\ closing'[u] = closing[u]
        /\ closing' \in [Threads -> SUBSET Gens] /\ closing'[Replanner] = {e}
        /\ exe'[Replanner] = None
    BY <1>0, <2>1, Zenon DEF Inv, TypeOK
  <2>3. /\ pc' \in [Threads -> Labels] /\ pc'[Replanner] = "close"
        /\ \A u \in Threads : u # Replanner => pc'[u] = pc[u]
        /\ Positions' /\ Counts'
    BY <1>0, <1>2, <2>1, <2>2, ReplanPositions, Zenon DEF manager
  <2>4. TypeOK'
    BY <1>2, <2>1, <2>2, <2>3, Zenon DEF Inv, TypeOK, manager
  <2>5. Locking'
    BY <1>0, <1>2, <2>1, <2>3 DEF Inv, Locking, Closing, manager
  <2>6. \A d \in Gens : (Managed(d)' <=> Managed(d)) /\ ~Pending(d)'
    BY <2>1, <2>3 DEF Managed, Pending, manager
  <2>7. Life'
    BY <1>2, <2>1, <2>6, ZenonT(30) DEF Inv, Life, LifeOf, manager
  <2>8. ASSUME NEW u \in Closers PROVE Owns(u)'
    <3>1. Owns(u) /\ u \in Threads /\ closing[u] \subseteq Gens
      BY DEF Inv, TypeOK, Ownership, Closers
    <3>2. CASE u # Replanner
      <4>1. ASSUME NEW d \in closing[u] PROVE StillOwned(d)
        <5>1. d \in Gens /\ ~Managed(d) /\ d # e
          BY <1>1, <3>1, Zenon DEF Owns
        <5>2. \A v \in Closers : d \in closing'[v] => d \in closing[v]
          BY <2>2, <5>1, Zenon DEF Closers
        <5> QED
          BY <1>2, <2>6, <5>1, <5>2, Zenon DEF StillOwned
      <4>2. pc'[u] = pc[u] /\ exe'[u] = exe[u] /\ closing'[u] = closing[u]
        BY <2>2, <2>3, <3>1, <3>2
      <4> QED
        BY <3>1, <4>1, <4>2, OwnsKept, Zenon
    <3>3. CASE u = Replanner
      BY <1>0, <1>1, <1>2, <2>2, <2>3, <2>6, <3>3, ZenonT(30) DEF Owns, Closers, Closing
    <3> QED
      BY <3>2, <3>3
  <2> QED
    BY <2>3, <2>4, <2>5, <2>7, <2>8, ZenonT(30) DEF Inv, Ownership
<1>4. CASE ~(closed \/ mclosed)
  <2>c. PICK c \in Gens : c = current
    BY DEF Inv, TypeOK
  <2> DEFINE es == IF references[c] > 0 THEN {} ELSE {c}
             l == IF references[c] > 0 THEN "publish" ELSE "close"
  <2>1. /\ current' = e /\ state_lock' = Replanner /\ UNCHANGED <<exe, references, mclosed>>
        /\ retired' = IF references[c] > 0 THEN retired \cup {c} ELSE retired
        /\ closing' = [closing EXCEPT ![Replanner] = es] /\ Goto(Replanner, l)
    BY <1>4, <1>e, <2>c DEF Install, CloseAll
  <2>2. /\ Managed(c) /\ c # e /\ c \notin retired /\ ex[c].built /\ ex[c].closer_calls = 0
        /\ \A u \in Closers : c \notin closing[u]
    BY <1>1, <1>4, <2>c, ZenonT(30) DEF Managed, Inv, Life, LifeOf, Ownership, Owns
  <2>3. /\ es \subseteq {c} /\ l \in Labels /\ (l = "close" <=> es # {}) /\ l \in {"close", "publish"}
        /\ references[c] > 0 <=> es = {}
    BY <1>0, ZenonT(30)
  <2> HIDE DEF es, l
  <2>4. /\ exe' \in [Threads -> Gens \cup {None}] /\ exe' = exe
        /\ \A u \in Threads : u # Replanner => closing'[u] = closing[u]
        /\ closing' \in [Threads -> SUBSET Gens] /\ closing'[Replanner] = es
        /\ retired' \subseteq Gens
    BY <1>0, <2>1, <2>3, Zenon DEF Inv, TypeOK
  <2>5. /\ pc' \in [Threads -> Labels] /\ pc'[Replanner] = l
        /\ \A u \in Threads : u # Replanner => pc'[u] = pc[u]
        /\ Positions' /\ Counts'
    BY <1>0, <1>2, <2>1, <2>3, <2>4, ReplanPositions, Zenon
  <2>6. TypeOK'
    BY <1>2, <2>1, <2>4, <2>5, Zenon DEF Inv, TypeOK
  <2>7. Locking'
    BY <1>0, <2>1, <2>3, <2>5, ThreadAssumption, ZenonT(30) DEF Locking, Closing
  <2>8. \A d \in Gens : /\ ~Pending(d)'
                        /\ Managed(d)' <=> d = e \/ d \in retired'
                        /\ Managed(d) <=> d = c \/ d \in retired
    BY <1>4, <2>c, <2>1, <2>3, <2>5, ZenonT(30) DEF Managed, Pending
  <2>9. ASSUME NEW d \in Gens PROVE LifeOf(d)'
    <3>0. references[c] = Cardinality(Holders(c)) /\ Cardinality(Holders(c)) \in Nat
      BY Finite, Zenon DEF Inv, Counts
    <3>1. LifeOf(d) /\ (references[c] # 0 => references[c] > 0)
      BY <3>0 DEF Inv, Life
    <3> QED
      BY <1>1, <1>2, <2>1, <2>2, <2>8, <3>1, ZenonT(30) DEF LifeOf, Managed
  <2>10. ASSUME NEW u \in Closers PROVE Owns(u)'
    <3>1. Owns(u) /\ u \in Threads /\ closing[u] \subseteq Gens
      BY Zenon DEF Inv, TypeOK, Ownership, Closers
    <3>2. CASE u # Replanner
      <4>1. ASSUME NEW d \in closing[u] PROVE StillOwned(d)
        <5>1. d \in Gens /\ ~Managed(d) /\ d # e /\ d # c
          BY <1>1, <2>2, <3>1, ZenonT(30) DEF Owns
        <5>2. \A v \in Closers : d \in closing'[v] => d \in closing[v]
          BY <2>3, <2>4, <5>1 DEF Closers
        <5>3. ~Managed(d)' /\ ~Pending(d)'
          BY <2>1, <2>8, <5>1, Zenon
        <5> QED
          BY <1>2, <5>2, <5>3, Zenon DEF StillOwned
      <4>2. pc'[u] = pc[u] /\ exe'[u] = exe[u] /\ closing'[u] = closing[u]
        BY <2>4, <2>5, <3>1, <3>2
      <4> QED
        BY <3>1, <4>1, <4>2, OwnsKept, Zenon
    <3>3. CASE u = Replanner
      <4>1. ASSUME NEW d \in es
            PROVE  /\ ~Managed(d)' /\ ~Pending(d)' /\ ex'[d].built /\ ex'[d].closer_calls = 0
                   /\ \A v \in Closers : d \in closing'[v] => v = u
        BY <1>2, <2>1, <2>2, <2>3, <2>4, <2>8, <3>3, ZenonT(30) DEF Closers
      <4> QED
        BY <1>0, <2>3, <2>4, <2>5, <3>3, <4>1, ZenonT(30) DEF Owns, Closing
    <3> QED
      BY <3>2, <3>3
  <2> QED
    BY <2>5, <2>6, <2>7, <2>9, <2>10, Zenon DEF Inv, Life, Ownership
<1> QED
  BY <1>3, <1>4

(* close retires what is leased and closes the rest.                       *)
LEMMA CloseManagerInv == ASSUME Inv, CloseManager PROVE Inv'
<1>0. /\ Closer \in Threads /\ Closer \in Closers /\ Closer # Replanner
      /\ pc[Closer] = "retire" /\ {"done", "close"} \subseteq Labels
      /\ ~mclosed /\ Owns(Closer) /\ closing[Closer] = {}
  BY ThreadAssumption, Zenon
  DEF Threads, Closers, CloseManager, Labels, Inv, Positions, Ownership, Owns, Closing
<1> DEFINE all == {current} \cup retired
           es == all \ Leased(all)
           l == IF es = {} THEN "done" ELSE "close"
<1>1. /\ mclosed' = TRUE /\ retired' = Leased(all) /\ UNCHANGED <<module, current, references>>
      /\ UNCHANGED <<ex, exe, led>>
      /\ closing' = [closing EXCEPT ![Closer] = es] /\ Goto(Closer, l)
  BY DEF CloseManager, CloseAll
<1>2. /\ all \subseteq Gens /\ \A d \in Gens : d \in all <=> Managed(d)
  BY <1>0 DEF Inv, TypeOK, Managed
<1>3. /\ \A d \in Gens : d \in retired' <=> Managed(d) /\ references[d] # 0
      /\ \A d \in es : d \in Gens /\ Managed(d) /\ references[d] = 0
      /\ l \in Labels /\ (l = "close" <=> es # {}) /\ l \in {"close", "done"}
  <2>1. \A d \in Gens : references[d] \in Nat
    BY Finite DEF Inv, Counts
  <2> QED
    BY <1>0, <1>1, <1>2, <2>1 DEF Leased
<1> HIDE DEF es, l, all
<1>4. /\ exe' \in [Threads -> Gens \cup {None}]
      /\ \A u \in Threads : u # Closer => closing'[u] = closing[u]
      /\ closing' \in [Threads -> SUBSET Gens] /\ closing'[Closer] = es
      /\ retired' \subseteq Gens
  BY <1>0, <1>1, <1>2, <1>3 DEF Inv, TypeOK, Leased
<1>5. /\ pc' \in [Threads -> Labels] /\ pc'[Closer] = l
      /\ \A u \in Threads : u # Closer => pc'[u] = pc[u]
      /\ Positions' /\ Counts'
  BY <1>0, <1>1, <1>3, <1>4, ReplanPositions, Zenon DEF module
<1>6. TypeOK'
  BY <1>1, <1>4, <1>5, Zenon DEF Inv, TypeOK, module
<1>7. Locking'
  <2>1. Replanner \in Threads
    BY DEF Threads
  <2> QED
    BY <1>0, <1>1, <1>5, <2>1 DEF Inv, Locking, module
<1>8. \A d \in Gens : /\ Pending(d)' <=> Pending(d)
                      /\ Managed(d)' <=> d \in retired'
  <2>1. Replanner \in Threads
    BY DEF Threads
  <2> QED
    BY <1>0, <1>1, <1>5, <2>1, ZenonT(30) DEF Managed, Pending
<1>9. Life'
  BY <1>1, <1>3, <1>8, Zenon DEF Inv, Life, LifeOf
<1>10. ASSUME NEW u \in Closers PROVE Owns(u)'
  <2>1. Owns(u) /\ u \in Threads /\ closing[u] \subseteq Gens
    BY DEF Inv, TypeOK, Ownership, Closers
  <2>2. CASE u # Closer
    BY <1>0, <1>1, <1>3, <1>4, <1>5, <1>8, <2>1, <2>2, ZenonT(30) DEF Owns, Closers
  <2>3. CASE u = Closer
    <3>1. ASSUME NEW d \in es
          PROVE  /\ ~Managed(d)' /\ ~Pending(d)' /\ ex'[d].built /\ ex'[d].closer_calls = 0
                 /\ \A v \in Closers : d \in closing'[v] => v = u
      <4>1. d \in Gens /\ Managed(d) /\ references[d] = 0 /\ LifeOf(d)
        BY <1>3, Zenon DEF Inv, Life
      <4>2. \A v \in Closers : d \notin closing[v]
        BY <4>1 DEF Inv, Ownership, Owns
      <4> QED
        BY <1>1, <1>3, <1>4, <1>8, <2>3, <4>1, <4>2, Zenon DEF LifeOf, Closers
    <3> QED
      BY <1>0, <1>3, <1>4, <1>5, <2>3, <3>1, ZenonT(30) DEF Owns, Closing
  <2> QED
    BY <2>2, <2>3
<1> QED
  BY <1>5, <1>6, <1>7, <1>9, <1>10, ZenonT(30) DEF Inv, Ownership

-----------------------------------------------------------------------------
LEMMA InitInv == ASSUME Init PROVE Inv
<1>1. PICK S \in Absentees : pc = [t \in Threads |-> IF t \in S THEN "done" ELSE "idle"]
  BY DEF Init
<1>2. \A t \in Threads : pc[t] \in {"done", "idle"} /\ exe[t] = None /\ closing[t] = {}
  BY <1>1 DEF Init
<1>3. \A e \in Gens : /\ ex[e] \in Executors /\ (e = Initial => ex[e].built)
                      /\ ex[e].closer_calls = 0 /\ ~ex[e].gate_closed /\ ~ex[e].closed
  <2>1. \A b \in BOOLEAN : /\ NewExecutor(b) \in Executors /\ (b => NewExecutor(b).built)
                           /\ NewExecutor(b).closer_calls = 0
                           /\ ~NewExecutor(b).gate_closed /\ ~NewExecutor(b).closed
    BY DEF NewExecutor, Executors
  <2>2. \A e \in Gens : ex[e] = NewExecutor(e = Initial)
    <3>1. ex = [e \in Gens |-> NewExecutor(e = Initial)]
      BY Zenon DEF Init
    <3> QED
      BY <3>1
  <2> QED
    BY <2>1, <2>2, ZenonT(30)
<1>4. TypeOK
  <2>1. pc \in [Threads -> Labels]
    BY <1>1 DEF Labels
  <2>2. ex \in [Gens -> Executors]
    BY <1>3 DEF Init
  <2>3. /\ used \in [Gens -> [Resources -> Int]] /\ references \in [Gens -> Int]
        /\ exe \in [Threads -> Gens \cup {None}] /\ led \in [Forwards -> Gens \cup {None}]
        /\ closing \in [Threads -> SUBSET Gens]
    BY DEF Init
  <2>4. /\ closed = FALSE /\ mclosed = FALSE /\ state_lock = None /\ retired = {}
        /\ ledger \in Gens /\ current \in Gens
    BY ModuleAssumption, Zenon DEF Init
  <2> QED
    BY <2>1, <2>2, <2>3, <2>4, Zenon DEF TypeOK
<1>5. Positions
  BY <1>2 DEF Init, Positions, Threads, Inside, Closing
<1>6. Locking
  BY <1>2, Zenon DEF Init, Locking, Threads
<1>7. ASSUME NEW e \in Gens PROVE LifeOf(e)
  <2>1. /\ current = Initial /\ retired = {} /\ references[e] = 0 /\ ~Pending(e)
    BY <1>2 DEF Init, Pending, Threads
  <2> QED
    BY <1>3, <2>1 DEF LifeOf, Managed
<1>8. Ownership
  BY <1>2, Zenon DEF Ownership, Owns, Closers, Closing
<1>9. Counts
  <2>1. ASSUME NEW e \in Gens PROVE Holders(e) = {} /\ Debtors(e) = {}
    BY <1>2, ModuleAssumption DEF Init, Holders, Debtors, Threads
  <2>2. \A e \in Gens, r \in Resources :
          /\ references[e] = 0 /\ used[e][r] = 0
          /\ Need[e][r] \in Nat /\ Budget[e][r] \in Nat
    BY ModuleAssumption DEF Init
  <2>3. \A e \in Gens : references[e] = 0
    BY DEF Init
  <2> QED
    BY <2>1, <2>2, <2>3, FS_EmptySet DEF Counts
<1> QED
  BY <1>4, <1>5, <1>6, <1>7, <1>8, <1>9 DEF Inv, Life

LEMMA StepInv == ASSUME Inv, [Next]_vars PROVE Inv'
<1>1. CASE UNCHANGED vars
  <2>1. UNCHANGED <<closed, state_lock, ledger, used, current, references, retired, mclosed,
                    ex, pc, exe, led, closing>>
    BY <1>1, Zenon DEF vars, module, manager
  <2>2. TypeOK' /\ Positions' /\ Locking'
    BY <2>1 DEF Inv, TypeOK, Positions, Locking
  <2>3. Life'
    BY <2>1, Zenon DEF Inv, Life, LifeOf, Managed, Pending
  <2>4. Ownership'
    BY <2>1, ZenonT(30) DEF Inv, Ownership, Owns, Managed, Pending
  <2>5. Counts'
    BY <2>1, CountsSame, ZenonT(30) DEF Inv, Holders, Debtors
  <2> QED
    BY <2>2, <2>3, <2>4, <2>5 DEF Inv
<1>2. CASE \E f \in Forwards : BeginForward(f) \/ ForwardStep(f)
  <2>1. PICK f \in Forwards : BeginForward(f) \/ ForwardStep(f)
    BY <1>2
  <2>2. CASE ReleaseExecutor(f)
    <3>1. pc[f] \in Inside
      BY <2>2, ZenonT(30) DEF ReleaseExecutor, Inv, Positions, Inside, Closing
    <3> QED
      BY <2>2, <3>1, ReleaseInv DEF ReleaseExecutor
  <2> QED
    BY <2>1, <2>2, BeginForwardInv, EnterExecutorInv, InsideStepInv, EndForwardInv
    DEF ForwardStep
<1>3. CASE \E t \in Readers : BeginRead(t) \/ EndRead(t)
  <2>1. PICK t \in Readers : BeginRead(t) \/ EndRead(t)
    BY <1>3
  <2> QED
    BY <2>1, BeginReadInv, ReleaseInv DEF EndRead
<1>4. CASE \E t \in Threads : CloseStep(t)
  BY <1>4, CloseBeginInv, CloseFinishInv DEF CloseStep
<1> QED
  BY <1>1, <1>2, <1>3, <1>4, BuildReplacementInv, InstallInv, PublishInv, AsideStepInv,
     CloseManagerInv DEF Next

(* The inductive invariant holds throughout: positions, the state lock,    *)
(* the life of every generation, who has to close it, and the counts.      *)
THEOREM Invariance == Spec => []Inv
BY InitInv, StepInv, PTL DEF Spec

(* _ExecutorGenerationManager and the capacity ledgers: lease counts and   *)
(* ledgers are exact through forwards, readers, replans, cancels and close *)
(* in any order, and no generation is closed, or its gate shut, under a    *)
(* thread that leases it.                                                  *)
THEOREM GenerationsAreExact == Spec => []GenerationsExact
<1>1. ASSUME Inv PROVE GenerationsExact
  <2>1. LeasesExact
    <3>1. ASSUME NEW f \in Forwards, exe[f] # None, f \in Holders(exe[f])
          PROVE  led[f] = exe[f]
      BY <1>1, <3>1 DEF Inv, Positions, Holders
    <3> QED
      BY <1>1, <3>1, ZenonT(30) DEF Inv, Counts, LeasesExact
  <2>2. NeverClosedInUse
    <3>1. \A f \in Forwards : pc[f] # "refused"
      BY <1>1, Zenon DEF Inv, Positions, Inside, Closing
    <3>2. ASSUME NEW e \in Gens, Holders(e) # {} PROVE ~ex[e].gate_closed /\ ~ex[e].closed
      <4>1. references[e] # 0
        BY <1>1, <3>2, Finite, FS_EmptySet, ZenonT(30) DEF Inv, Counts
      <4> QED
        BY <1>1, <4>1, Zenon DEF Inv, Life, LifeOf
    <3>3. ASSUME NEW e \in Gens
          PROVE  /\ ex[e].closer_calls <= 1
                 /\ e = current /\ ~mclosed => ex[e].closer_calls = 0
      BY <1>1 DEF Inv, Life, LifeOf, Managed
    <3> QED
      BY <3>1, <3>2, <3>3, Zenon DEF NeverClosedInUse
  <2> QED
    BY <1>1, <2>1, <2>2 DEF Inv, GenerationsExact
<1> QED
  BY <1>1, Invariance, PTL
=============================================================================
