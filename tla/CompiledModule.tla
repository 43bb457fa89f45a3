--------------------------- MODULE CompiledModule ---------------------------
(***************************************************************************)
(* CompiledModule: forwards that lease an executor generation and a place  *)
(* in its capacity ledger, live replanning that swaps the generation,      *)
(* state_dict readers, close, and the three layers of cancellation (the    *)
(* generation-scoped flag of GraphExecutor, the sticky flag of             *)
(* ScheduleExecutor, one token per forward).                               *)
(*                                                                         *)
(* A generation is a GraphExecutor with its parameter store and ledger.    *)
(* Threads that may hold or close generations share the program counter    *)
(* pc; the steps of one thread are the lock regions and unlocked accesses  *)
(* of the code.  What a schedule computes is left out: a run ends well,    *)
(* fails, or is cancelled.                                                 *)
(***************************************************************************)
EXTENDS Integers, FiniteSets

CONSTANTS Forwards,    \* threads that call forward
          Readers,     \* threads that call state_dict
          Replanner,   \* thread that calls apply_profile_feedback
          Closer,      \* thread that calls close
          Canceller,   \* thread that calls request_cancel
          Gens,        \* executor generations
          Initial,     \* the generation the module is compiled with
          Resources,   \* what a ledger counts: host, device, disk bytes
          Need,        \* Need[e][r]: bytes one forward takes under e's plan
          Budget,      \* Budget[e][r]: bytes e's ledger may hand out
          HasDirect,   \* generations with a direct plan
          Hoists,      \* generations whose hoisted parameters may not fit the device
          OwnToken,    \* forwards that bring a cancel token
          Absentees,   \* sets of threads: those of one of them never call
          MaxCancels,  \* bound on the calls of request_cancel
          None

ASSUME ModuleAssumption ==
    /\ Initial \in Gens
    /\ None \notin Gens
    /\ Need \in [Gens -> [Resources -> Nat]]
    /\ Budget \in [Gens -> [Resources -> Nat]]
    /\ HasDirect \subseteq Gens /\ Hoists \subseteq Gens
    /\ IsFiniteSet(Forwards) /\ IsFiniteSet(Readers)

Threads == Forwards \cup Readers \cup {Replanner, Closer, Canceller}

(* Each thread makes one kind of call.                                     *)
ASSUME ThreadAssumption ==
    /\ Forwards \cap Readers = {}
    /\ {Replanner, Closer, Canceller} \cap (Forwards \cup Readers) = {}
    /\ Replanner # Closer /\ Replanner # Canceller /\ Closer # Canceller
    /\ None \notin Threads

VARIABLES
    closed,      \* CompiledModule._closed
    state_lock,  \* _runtime_state_lock: its owner where it spans steps
    ledger,      \* _capacity_ledger: the generation it was built for
    used,        \* used[e][r]: bytes handed out by e's ledger
    current,     \* _ExecutorGenerationManager._current
    references,  \* _references
    retired,     \* _retired
    mclosed,     \* _ExecutorGenerationManager._closed
    ex,          \* ex[e]: the executor e
    pc, exe,     \* pc[t], and the generation t works on
    led,         \* led[f]: the ledger f has to give back
    closing,     \* closing[t]: generations t still has to close
    start_gen,   \* start_gen[f]: cancel generation f began with
    token,       \* token[f]: f's cancel token is cancelled
    cancels      \* calls of request_cancel

module == <<closed, state_lock, ledger, used>>
manager == <<current, references, retired, mclosed>>
run == <<start_gen, token>>
vars == <<module, manager, ex, pc, exe, led, closing, run, cancels>>

(* closer_calls counts how often _close_executor_resources was entered.   *)
NewExecutor(b) == [built |-> b, inflight |-> 0, gate_closed |-> FALSE,
                   closed |-> FALSE, closer_calls |-> 0,
                   cancel_generation |-> 0, cancel_requested |-> FALSE,
                   cancel |-> FALSE, active |-> {},
                   partial_hoist_oom |-> FALSE, recovering |-> None]

Init ==
    /\ closed = FALSE /\ state_lock = None /\ ledger = Initial
    /\ used = [e \in Gens |-> [r \in Resources |-> 0]]
    /\ current = Initial /\ references = [e \in Gens |-> 0]
    /\ retired = {} /\ mclosed = FALSE
    /\ ex = [e \in Gens |-> NewExecutor(e = Initial)]
    /\ \E S \in Absentees : pc = [t \in Threads |-> IF t \in S THEN "done" ELSE "idle"]
    /\ exe = [t \in Threads |-> None]
    /\ led = [f \in Forwards |-> None]
    /\ closing = [t \in Threads |-> {}]
    /\ start_gen = [f \in Forwards |-> 0]
    /\ token = [f \in Forwards |-> FALSE]
    /\ cancels = 0

Goto(t, l) == pc' = [pc EXCEPT ![t] = l]

(***************************************************************************)
(* The generation manager.  Close is a subroutine: thread t closes the     *)
(* generations es, outside the manager's lock, and goes on at AfterClose.  *)
(***************************************************************************)
AfterClose(t) ==
    CASE t \in Forwards -> "give"
      [] t = Replanner -> IF state_lock = Replanner THEN "publish" ELSE "idle"
      [] OTHER -> "done"

Lease(t, e) ==
    /\ references' = [references EXCEPT ![e] = @ + 1]
    /\ exe' = [exe EXCEPT ![t] = e]

CloseAll(t, es, l) ==
    /\ closing' = [closing EXCEPT ![t] = es]
    /\ Goto(t, IF es = {} THEN l ELSE "close")

(* Mutant: any release closes a retired generation. *)
AnyLease(e) == references[e] >= 1

LastLease(e) == references[e] = 1

(* release: the last lease of a retired generation closes it.              *)
ReleaseLease(t) ==
    LET e == exe[t]
        last == LastLease(e)
    IN  /\ references' = [references EXCEPT ![e] = @ - 1]
        /\ retired' = IF last THEN retired \ {e} ELSE retired
        /\ CloseAll(t, IF last THEN retired \cap {e} ELSE {}, AfterClose(t))
        /\ exe' = [exe EXCEPT ![t] = None]
        /\ UNCHANGED <<current, mclosed>>

(* GraphExecutor.close shuts the gate, waits for the runners, then closes  *)
(* the schedule executor, whose close requests a cancel, and the store.    *)
CloseBegin(t) ==
    /\ pc[t] = "close"
    /\ \E e \in closing[t] :
         /\ exe' = [exe EXCEPT ![t] = e]
         /\ ex' = [ex EXCEPT ![e].gate_closed = TRUE, ![e].closer_calls = @ + 1]
    /\ Goto(t, "drain")
    /\ UNCHANGED <<module, manager, led, closing, run, cancels>>

CloseFinish(t) ==
    LET e == exe[t] IN
    /\ pc[t] = "drain"
    /\ ex[e].inflight = 0
    /\ ex' = [ex EXCEPT ![e].closed = TRUE, ![e].cancel = TRUE]
    /\ exe' = [exe EXCEPT ![t] = None]
    /\ CloseAll(t, closing[t] \ {e}, AfterClose(t))
    /\ UNCHANGED <<module, manager, led, run, cancels>>

(***************************************************************************)
(* forward_with_cancel_token.                                              *)
(***************************************************************************)
(* Under _runtime_state_lock: ledger and generation are taken together.    *)
Fits(e) == \A r \in Resources : used[e][r] + Need[e][r] <= Budget[e][r]

TakeLedger(e) ==
    used' = [used EXCEPT ![e] = [r \in Resources |-> @[r] + Need[e][r]]]

GiveLedger(e) ==
    used' = [used EXCEPT ![e] = [r \in Resources |-> @[r] - Need[e][r]]]

BeginForward(f) ==
    /\ pc[f] = "idle"
    /\ state_lock = None
    /\ ~closed /\ ~mclosed
    /\ Fits(ledger)
    /\ TakeLedger(ledger)
    /\ Lease(f, current)
    /\ led' = [led EXCEPT ![f] = ledger]
    /\ Goto(f, "leased")
    /\ UNCHANGED <<closed, state_lock, ledger, current, retired, mclosed, ex,
                   closing, run, cancels>>

(* GraphExecutor.run: a closed executor refuses, the gate counts, and the  *)
(* path is chosen from the flag read under _cancel_lock.  A caller that    *)
(* brings a token or wants gradients takes the schedule path.              *)
EnterExecutor(f) ==
    LET e == exe[f] IN
    /\ pc[f] = "leased"
    /\ IF ex[e].closed \/ ex[e].gate_closed
       THEN Goto(f, "refused") /\ UNCHANGED <<ex, start_gen>>
       ELSE /\ ex' = [ex EXCEPT ![e].inflight = @ + 1]
            /\ start_gen' = [start_gen EXCEPT ![f] = ex[e].cancel_generation]
            /\ \/ /\ e \in HasDirect /\ f \notin OwnToken /\ ~ex[e].cancel_requested
                  /\ Goto(f, "direct")
               \/ Goto(f, "sticky")
    /\ UNCHANGED <<module, manager, exe, led, closing, token, cancels>>

(* _clear_cancel_if_unchanged.                                             *)
Cleared(e, g) ==
    [ex EXCEPT ![e].cancel_requested = @ /\ ex[e].cancel_generation # g]

(* Mutant: a run that ends does not leave the gate. *)
StayInGate(e, g) == Cleared(e, g)

LeaveGate(e, g) == [Cleared(e, g) EXCEPT ![e].inflight = @ - 1]

(* _run_direct clears the flag on success only.                            *)
RunDirect(f) ==
    LET e == exe[f] IN
    /\ pc[f] = "direct"
    /\ \/ ex' = LeaveGate(e, start_gen[f])
       \/ ex' = [ex EXCEPT ![e].inflight = @ - 1]
    /\ Goto(f, "release")
    /\ UNCHANGED <<module, manager, exe, led, closing, run, cancels>>

(* run_schedule_native: the flag is tested without a lock, and reset in a  *)
(* second access.                                                          *)
TestSticky(f) ==
    /\ pc[f] = "sticky"
    /\ Goto(f, IF ex[exe[f]].cancel THEN "consume" ELSE "register")
    /\ UNCHANGED <<module, manager, ex, exe, led, closing, run, cancels>>

ConsumeSticky(f) ==
    /\ pc[f] = "consume"
    /\ ex' = [ex EXCEPT ![exe[f]].cancel = FALSE]
    /\ Goto(f, "clear")
    /\ UNCHANGED <<module, manager, exe, led, closing, run, cancels>>

RegisterToken(f) ==
    /\ pc[f] = "register"
    /\ ex' = [ex EXCEPT ![exe[f]].active = @ \cup {f}]
    /\ Goto(f, "seed")
    /\ UNCHANGED <<module, manager, exe, led, closing, run, cancels>>

(* _register_persistent_residency, under _persistent_param_lock: moving    *)
(* the hoisted parameters to the device may exhaust its memory.  Then      *)
(* release_device_residency, with the lock held, waits until the gate      *)
(* counts no forward and rebuilds the artifact.                            *)
Seed(f) ==
    LET e == exe[f] IN
    /\ pc[f] = "seed"
    /\ ex[e].recovering = None
    /\ \E oom \in {None} \cup {f} :
         /\ oom = f => e \in Hoists /\ ~ex[e].partial_hoist_oom
         /\ ex' = [ex EXCEPT ![e].recovering = oom]
    /\ Goto(f, "body")
    /\ UNCHANGED <<module, manager, exe, led, closing, run, cancels>>

Rebuilt(f) == ex[exe[f]].recovering = f => ex[exe[f]].inflight = 0

Recovered(x, f) ==
    IF x.recovering = f THEN [x EXCEPT !.recovering = None, !.partial_hoist_oom = TRUE]
    ELSE x

Unregistered(x, f) == [x EXCEPT !.active = @ \ {f}]

(* The schedule runs, then the token is unregistered.  A cancelled token   *)
(* is noticed at the next callback, if there is one; a caller with a token *)
(* of its own may cancel it at any time.                                   *)
RunBody(f) ==
    /\ pc[f] = "body"
    /\ Rebuilt(f)
    /\ \/ /\ ex' = [ex EXCEPT ![exe[f]] = Unregistered(Recovered(@, f), f)]
          /\ Goto(f, "clear")
       \/ /\ token[f] \/ f \in OwnToken
          /\ ex' = [ex EXCEPT ![exe[f]] = Recovered(@, f)]
          /\ Goto(f, "reraise")
    /\ UNCHANGED <<module, manager, exe, led, closing, run, cancels>>

(* _reraise_pending clears the sticky flag on the way out.                 *)
Reraise(f) ==
    /\ pc[f] = "reraise"
    /\ ex' = [ex EXCEPT ![exe[f]].cancel = FALSE, ![exe[f]].active = @ \ {f}]
    /\ Goto(f, "clear")
    /\ UNCHANGED <<module, manager, exe, led, closing, run, cancels>>

LeaveExecutor(f) ==
    /\ pc[f] = "clear"
    /\ ex' = LeaveGate(exe[f], start_gen[f])
    /\ Goto(f, "release")
    /\ UNCHANGED <<module, manager, exe, led, closing, run, cancels>>

(* The finally block: the executor first, which may close it, then the     *)
(* ledger.                                                                 *)
ReleaseExecutor(f) ==
    /\ pc[f] \in {"release", "refused"}
    /\ ReleaseLease(f)
    /\ UNCHANGED <<module, ex, led, run, cancels>>

(* Mutant: the module's ledger at the end of the call, not at its start. *)
LatestLedger(f) == ledger

OwnLedger(f) == led[f]

EndForward(f) ==
    /\ pc[f] = "give"
    /\ GiveLedger(OwnLedger(f))
    /\ led' = [led EXCEPT ![f] = None]
    /\ start_gen' = [start_gen EXCEPT ![f] = 0]
    /\ token' = [token EXCEPT ![f] = FALSE]
    /\ Goto(f, "idle")
    /\ UNCHANGED <<closed, state_lock, ledger, manager, ex, exe, closing,
                   cancels>>

(***************************************************************************)
(* state_dict leases a generation and no ledger.                           *)
(***************************************************************************)
BeginRead(t) ==
    /\ pc[t] = "idle"
    /\ ~mclosed
    /\ Lease(t, current)
    /\ Goto(t, "read")
    /\ UNCHANGED <<module, current, retired, mclosed, ex, led, closing,
                   run, cancels>>

EndRead(t) ==
    /\ pc[t] = "read"
    /\ ReleaseLease(t)
    /\ UNCHANGED <<module, ex, led, run, cancels>>

(***************************************************************************)
(* apply_profile_feedback, under _replan_lock throughout.                  *)
(***************************************************************************)
BuildReplacement ==
    /\ pc[Replanner] = "idle"
    /\ ~closed
    /\ \E e \in Gens :
         /\ ~ex[e].built
         /\ ex' = [ex EXCEPT ![e].built = TRUE]
         /\ exe' = [exe EXCEPT ![Replanner] = e]
    /\ Goto(Replanner, "built")
    /\ UNCHANGED <<module, manager, led, closing, run, cancels>>

(* Mutant: a replacement that cannot be installed is dropped, not closed. *)
AbandonedOpen(e) == {}

(* What a refused swap closes.                                             *)
Abandoned(e) == {e}

(* Under _runtime_state_lock, which is held while an unleased predecessor  *)
(* is closed; a module closed meanwhile closes the replacement instead.    *)
Install ==
    LET e == exe[Replanner] IN
    /\ pc[Replanner] = "built"
    /\ state_lock = None
    /\ IF closed \/ mclosed
       THEN /\ CloseAll(Replanner, Abandoned(e), "idle")
            /\ exe' = [exe EXCEPT ![Replanner] = None]
            /\ UNCHANGED <<state_lock, manager>>
       ELSE /\ current' = e
            /\ state_lock' = Replanner
            /\ IF references[current] > 0
               THEN /\ retired' = retired \cup {current}
                    /\ CloseAll(Replanner, {}, "publish")
               ELSE /\ CloseAll(Replanner, {current}, "publish")
                    /\ UNCHANGED retired
            /\ UNCHANGED <<exe, references, mclosed>>
    /\ UNCHANGED <<closed, ledger, used, ex, led, run, cancels>>

Publish ==
    /\ pc[Replanner] = "publish"
    /\ ledger' = current
    /\ state_lock' = None
    /\ exe' = [exe EXCEPT ![Replanner] = None]
    /\ Goto(Replanner, "idle")
    /\ UNCHANGED <<closed, used, manager, ex, led, closing, run, cancels>>

(***************************************************************************)
(* close: refuse new work, then retire every generation.                   *)
(***************************************************************************)
CloseModule ==
    /\ pc[Closer] = "idle"
    /\ state_lock = None
    /\ ~closed
    /\ closed' = TRUE
    /\ Goto(Closer, "retire")
    /\ UNCHANGED <<state_lock, ledger, used, manager, ex, exe, led, closing,
                   run, cancels>>

Leased(es) == {e \in es : references[e] > 0}

CloseManager ==
    LET generations == {current} \cup retired
    IN  /\ pc[Closer] = "retire"
        /\ mclosed' = TRUE
        /\ retired' = Leased(generations)
        /\ CloseAll(Closer, generations \ Leased(generations), "done")
        /\ UNCHANGED <<module, current, references, ex, exe, led, run, cancels>>

(***************************************************************************)
(* request_cancel: every generation of a snapshot is cancelled in two      *)
(* steps, the executor's flag and the schedule executor's flag with the    *)
(* tokens registered at that moment.                                       *)
(***************************************************************************)
RequestCancel ==
    /\ pc[Canceller] = "idle"
    /\ cancels < MaxCancels
    /\ cancels' = cancels + 1
    /\ closing' = [closing EXCEPT ![Canceller] = {current} \cup retired]
    /\ Goto(Canceller, "cancel")
    /\ UNCHANGED <<module, manager, ex, exe, led, run>>

CancelExecutor ==
    /\ pc[Canceller] = "cancel"
    /\ \E e \in closing[Canceller] :
         /\ exe' = [exe EXCEPT ![Canceller] = e]
         /\ ex' = [ex EXCEPT ![e].cancel_generation = @ + 1,
                             ![e].cancel_requested = TRUE]
    /\ Goto(Canceller, "tokens")
    /\ UNCHANGED <<module, manager, led, closing, run, cancels>>

CancelTokens ==
    LET e == exe[Canceller]
        rest == closing[Canceller] \ {e}
    IN  /\ pc[Canceller] = "tokens"
        /\ IF ex[e].closed THEN UNCHANGED <<ex, token>>
           ELSE /\ ex' = [ex EXCEPT ![e].cancel = TRUE]
                /\ token' = [f \in Forwards |-> token[f] \/ f \in ex[e].active]
        /\ exe' = [exe EXCEPT ![Canceller] = None]
        /\ closing' = [closing EXCEPT ![Canceller] = rest]
        /\ Goto(Canceller, IF rest = {} THEN "idle" ELSE "cancel")
        /\ UNCHANGED <<module, manager, led, start_gen, cancels>>

-----------------------------------------------------------------------------
ForwardStep(f) ==
    \/ EnterExecutor(f) \/ RunDirect(f) \/ TestSticky(f) \/ ConsumeSticky(f)
    \/ RegisterToken(f) \/ Seed(f) \/ RunBody(f) \/ Reraise(f) \/ LeaveExecutor(f)
    \/ ReleaseExecutor(f) \/ EndForward(f)

CloseStep(t) == CloseBegin(t) \/ CloseFinish(t)

Next ==
    \/ \E f \in Forwards : BeginForward(f) \/ ForwardStep(f)
    \/ \E t \in Readers : BeginRead(t) \/ EndRead(t)
    \/ \E t \in Threads : CloseStep(t)
    \/ BuildReplacement \/ Install \/ Publish
    \/ CloseModule \/ CloseManager
    \/ RequestCancel \/ CancelExecutor \/ CancelTokens

(* A thread inside a call goes on; nobody has to begin one.                *)
Fairness ==
    /\ \A f \in Forwards : WF_vars(ForwardStep(f))
    /\ \A t \in Readers : WF_vars(EndRead(t))
    /\ \A t \in Threads : WF_vars(CloseStep(t))
    /\ WF_vars(Install \/ Publish)
    /\ WF_vars(CloseManager)
    /\ WF_vars(CancelExecutor \/ CancelTokens)

Spec == Init /\ [][Next]_vars /\ Fairness

-----------------------------------------------------------------------------
Executors ==
    [built : BOOLEAN, inflight : Int, gate_closed : BOOLEAN, closed : BOOLEAN,
     closer_calls : Nat, cancel_generation : Nat, cancel_requested : BOOLEAN,
     cancel : BOOLEAN, active : SUBSET Forwards, partial_hoist_oom : BOOLEAN,
     recovering : Forwards \cup {None}]

Labels ==
    {"idle", "leased", "direct", "sticky", "consume", "register", "seed", "body",
     "reraise", "clear", "refused", "release", "give", "read", "built", "publish",
     "retire", "close", "drain", "cancel", "tokens", "done"}

(* Type invariant.                                                         *)
TypeOK ==
    /\ closed \in BOOLEAN /\ mclosed \in BOOLEAN /\ state_lock \in {None, Replanner}
    /\ ledger \in Gens /\ current \in Gens /\ retired \subseteq Gens
    /\ used \in [Gens -> [Resources -> Int]]
    /\ references \in [Gens -> Int]
    /\ ex \in [Gens -> Executors]
    /\ pc \in [Threads -> Labels]
    /\ exe \in [Threads -> Gens \cup {None}]
    /\ led \in [Forwards -> Gens \cup {None}]
    /\ closing \in [Threads -> SUBSET Gens]

Holders(e) ==
    {t \in Forwards \cup Readers : exe[t] = e /\ pc[t] \notin {"close", "drain"}}
Debtors(e) == {f \in Forwards : led[f] = e}

(* A lease count is the number of threads between acquire and release of   *)
(* the generation; a ledger's usage is what the forwards that have to give *)
(* back to it took, within its budget; and a forward takes both from one   *)
(* generation, whatever replan runs beside it.                             *)
LeasesExact ==
    /\ \A e \in Gens :
         /\ references[e] = Cardinality(Holders(e))
         /\ \A r \in Resources :
              /\ used[e][r] = Need[e][r] * Cardinality(Debtors(e))
              /\ used[e][r] <= Budget[e][r]
    /\ \A f \in Forwards : exe[f] # None /\ f \in Holders(exe[f]) => led[f] = exe[f]

(* No generation is closed, and no gate shut, under a thread that leases   *)
(* it, so a forward that was admitted is never refused by its executor;    *)
(* each is closed at most once, and never the one new forwards are given.  *)
NeverClosedInUse ==
    /\ \A f \in Forwards : pc[f] # "refused"
    /\ \A e \in Gens :
         /\ Holders(e) # {} => ~ex[e].gate_closed /\ ~ex[e].closed
         /\ ex[e].closer_calls <= 1
         /\ e = current /\ ~mclosed => ex[e].closer_calls = 0

(* Ledgers hold exactly what the forwards in flight took, and no           *)
(* generation is closed under one; the state stays well typed.             *)
GenerationsExact == TypeOK /\ LeasesExact /\ NeverClosedInUse

(* A forward whose hoist ran out of memory waits, in its own recovery, for *)
(* the gate that counts it.                                                *)
SelfWait == \E e \in Gens : ex[e].recovering # None

(* What was built is closed in the end once the module is: the initial     *)
(* generation, every replacement installed, and one that came too late;    *)
(* only a failed hoist keeps one open.                                     *)
EveryGenerationCloses ==
    \A e \in Gens : (closed /\ ex[e].built) ~> (ex[e].closed \/ SelfWait)

(* Every call comes back, failed hoists aside: forwards and readers, and   *)
(* close, although it is a forward that may have to close the executor and *)
(* a swap closes one under the lock that forwards begin with.              *)
CallsReturn ==
    \A t \in Threads \ {Canceller} :
        pc[t] # "idle" ~> (pc[t] \in {"idle", "done"} \/ SelfWait)
=============================================================================
