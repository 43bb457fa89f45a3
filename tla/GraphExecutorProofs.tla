------------------------ MODULE GraphExecutorProofs ------------------------
(***************************************************************************)
(* Forwards of one executor generation compute with current weights and    *)
(* with an artifact that goes with their copies, close leaves nothing      *)
(* behind, and a forward that runs out of memory waits for itself.         *)
(***************************************************************************)
EXTENDS GraphExecutor, TLAPS

(* The provers a leaf is tried with, unless it names its own.              *)
USE SMT, Zenon, SMTT(30)

Running == {"register", "seed", "waitIdle", "fetch", "execute"}
Inside == {"choose", "direct", "schedule", "leaveRun", "leave"} \cup Running
Labels == {"start"} \cup Inside \cup Ended

Gates == [inside : SUBSET Forwards, closed : BOOLEAN]
Locals == [gen : Nat, entry : Nat, copy : Nat \cup {None},
           artifact : {"steady", "full", None}, alone : BOOLEAN, result : Ended]

TypeOK ==
    /\ pc \in [Forwards -> Labels]
    /\ gate \in Gates /\ runGate \in Gates
    /\ cancel \in [requested : BOOLEAN, gen : Nat]
    /\ version \in Nat /\ direct \in Nat /\ cached \in Nat \cup {None}
    /\ hoisted \in BOOLEAN /\ artifact \in {"steady", "full"}
    /\ local \in [Forwards -> Locals]
    /\ lock \in Forwards \cup {None}
    /\ active \subseteq Forwards /\ threads \subseteq Forwards
    /\ releaser \in {"idle", "waiting", "install"}
    /\ closer \in {"open", "draining", "drainingRun", "closed"}

(* What a forward has to give back is what its position says.  A forward   *)
(* refused by the run gate passes "leaveRun" without having entered it.    *)
Registered(f) ==
    /\ f \in gate.inside <=> pc[f] \in Inside
    /\ pc[f] \in Running => f \in runGate.inside
    /\ f \in runGate.inside \cup active => pc[f] \in Running \cup {"leaveRun"}
    /\ f \in threads => pc[f] \in Inside
    /\ lock = f => pc[f] = "waitIdle"

(* The gate, once drained, admits nobody.                                  *)
Drained ==
    /\ closer # "open" => gate.closed
    /\ closer \in {"drainingRun", "closed"} => gate.inside = {}
    /\ closer = "closed" => cached = None

(* A copy taken after the forward entered is as new as what it found then. *)
Fresh(f) ==
    /\ local[f].entry <= version
    /\ pc[f] \in {"fetch", "execute"} /\ local[f].copy # None
         => local[f].copy >= local[f].entry
    /\ pc[f] = "done" \/ (pc[f] \in {"leaveRun", "leave"} /\ local[f].result = "done")
         => local[f].copy \in Nat /\ local[f].copy >= local[f].entry

(* A forward that no release overlaps is inside only while the installed   *)
(* artifact goes with the hoisting it saw when it was seeded.              *)
Matched(f) ==
    /\ local[f].result = "missing" => pc[f] \in {"leaveRun", "leave", "missing"}
    /\ local[f].alone =>
         /\ pc[f] \in Inside => releaser # "install"
         /\ pc[f] = "fetch" /\ hoisted => local[f].copy # None
         /\ pc[f] = "execute" /\ local[f].artifact = "steady" => local[f].copy # None
         /\ pc[f] # "missing" /\ local[f].result # "missing"

Installed == releaser # "install" => artifact = _steady_state_schedule(hoisted)

Good(f) == /\ Registered(f) /\ Fresh(f) /\ Matched(f)
           /\ pc[f] = "execute" => local[f].artifact \in {"steady", "full"}

Inv == TypeOK /\ Drained /\ Installed /\ \A f \in Forwards : Good(f)

-----------------------------------------------------------------------------
(* A step of another forward, with the residency as it is.                 *)
LEMMA GoodKept ==
    ASSUME NEW g \in Forwards, Good(g), pc'[g] = pc[g], local'[g] = local[g],
           g \in gate'.inside <=> g \in gate.inside,
           g \in runGate'.inside <=> g \in runGate.inside,
           g \in active' => g \in active, g \in threads' => g \in threads,
           lock' = g => lock = g,
           UNCHANGED <<version, hoisted, releaser>>
    PROVE  Good(g)'
<1>1. Registered(g)'
  BY DEF Good, Registered
<1>2. Fresh(g)'
  BY DEF Good, Fresh
<1>3. Matched(g)'
  BY DEF Good, Matched
<1> QED
  BY <1>1, <1>2, <1>3 DEF Good

(* What a step of forward f leaves alone.                                  *)
Alone(f) ==
    /\ \A g \in Forwards \ {f} :
         /\ pc'[g] = pc[g] /\ local'[g] = local[g]
         /\ g \in gate'.inside <=> g \in gate.inside
         /\ g \in runGate'.inside <=> g \in runGate.inside
         /\ g \in active' => g \in active
         /\ g \in threads' => g \in threads
         /\ lock' = g => lock = g
    /\ UNCHANGED <<version, hoisted, artifact, releaser, closer>>
    /\ gate'.closed = gate.closed

LEMMA ForwardInv ==
    ASSUME Inv, NEW f \in Forwards, TypeOK', Alone(f), Good(f)',
           pc[f] \in Inside \/ ~gate.closed \/ UNCHANGED <<gate, cached>>
    PROVE  Inv'
<1>1. \A g \in Forwards : Good(g)'
  BY GoodKept DEF Inv, Alone
<1>2. closer \in {"drainingRun", "closed"} => UNCHANGED <<gate, cached>>
  BY DEF Inv, Drained, Good, Registered
<1>3. Drained'
  BY <1>2 DEF Inv, TypeOK, Drained, Alone
<1>4. Installed'
  BY DEF Inv, Installed, Alone
<1> QED
  BY <1>1, <1>3, <1>4 DEF Inv

LEMMA EnterInv == ASSUME Inv, NEW f \in Forwards, Enter(f) PROVE Inv'
<1>0. TypeOK /\ Good(f)
  BY DEF Inv
<1>1. TypeOK'
  <2>1. CASE gate.closed
    BY <1>0, <2>1 DEF Enter, TypeOK, Goto, Labels, Ended, cancelling, residency, actors
  <2>2. CASE ~gate.closed
    <3>1. local' \in [Forwards -> Locals]
      <4>1. CASE releaser = "install"
        <5>1. local' = [local EXCEPT ![f].entry = version, ![f].alone = FALSE]
          BY <2>2, <4>1, ZenonT(30) DEF Enter
        <5> QED
          BY <1>0, <5>1, ZenonT(30) DEF TypeOK, Locals
      <4>2. CASE releaser # "install"
        <5>1. local' = [local EXCEPT ![f].entry = version, ![f].alone = TRUE]
          BY <2>2, <4>2, ZenonT(30) DEF Enter
        <5> QED
          BY <1>0, <5>1, ZenonT(30) DEF TypeOK, Locals
      <4> QED
        BY <4>1, <4>2
    <3>2. gate' \in Gates /\ pc' \in [Forwards -> Labels]
      BY <1>0, <2>2 DEF Enter, TypeOK, Goto, enter, Gates, Labels, Inside
    <3> QED
      BY <1>0, <3>1, <3>2 DEF Enter, TypeOK, cancelling, residency, actors
  <2> QED
    BY <2>1, <2>2
<1>2. Alone(f)
  BY <1>0 DEF Enter, TypeOK, Alone, Goto, Labels, Inside, Running, Ended, Gates, Locals, enter, cancelling, residency, actors
<1>3. Registered(f)'
  BY <1>0 DEF Enter, TypeOK, Good, Registered, Goto, Labels, Inside, Running, Ended, Gates, Locals, enter, cancelling, residency, actors
<1>4. Fresh(f)'
  BY <1>0 DEF Enter, TypeOK, Good, Fresh, Goto, Labels, Inside, Running, Ended, Gates, Locals, enter, cancelling, residency, actors
<1>5. Matched(f)' /\ (pc'[f] = "execute" => local'[f].artifact \in {"steady", "full"})
  BY <1>0 DEF Enter, TypeOK, Good, Matched, Goto, Labels, Inside, Running, Ended, Gates, Locals, enter, cancelling, residency, actors
<1>6. ~gate.closed \/ UNCHANGED <<gate, cached>>
  BY DEF Enter, residency
<1> QED
  BY <1>1, <1>2, <1>3, <1>4, <1>5, <1>6, ForwardInv DEF Good

LEMMA ChooseInv == ASSUME Inv, NEW f \in Forwards, Choose(f) PROVE Inv'
<1>0. TypeOK /\ Good(f)
  BY DEF Inv
<1>1. TypeOK'
  BY <1>0 DEF Choose, Set, TypeOK, Goto, Labels, Inside, Running, Ended, Gates, Locals, cancelling, residency, actors
<1>2. Alone(f)
  BY <1>0 DEF Choose, Set, TypeOK, Alone, Goto, Labels, Inside, Running, Ended, Gates, Locals, cancelling, residency, actors
<1>3. Registered(f)'
  BY <1>0 DEF Choose, Set, TypeOK, Good, Registered, Goto, Labels, Inside, Running, Ended, Gates, Locals, cancelling, residency, actors
<1>4. Fresh(f)'
  BY <1>0 DEF Choose, Set, TypeOK, Good, Fresh, Goto, Labels, Inside, Running, Ended, Gates, Locals, cancelling, residency, actors
<1>5. Matched(f)' /\ (pc'[f] = "execute" => local'[f].artifact \in {"steady", "full"})
  BY <1>0 DEF Choose, Set, TypeOK, Good, Matched, Goto, Labels, Inside, Running, Ended, Gates, Locals, cancelling, residency, actors
<1>6. pc[f] \in Inside
  BY DEF Choose, Inside, Running
<1> QED
  BY <1>1, <1>2, <1>3, <1>4, <1>5, <1>6, ForwardInv DEF Good

LEMMA RunDirectInv == ASSUME Inv, NEW f \in Forwards, RunDirect(f) PROVE Inv'
<1>0. TypeOK /\ Good(f)
  BY DEF Inv
<1>1. TypeOK'
  <2>1. cancel' \in [requested : BOOLEAN, gen : Nat]
    BY <1>0, ZenonT(30) DEF RunDirect, TypeOK, ClearIfUnchanged
  <2>2. local' \in [Forwards -> Locals] /\ direct' \in Nat
    BY <1>0 DEF RunDirect, TypeOK, Set, Refreshed, Locals, Ended
  <2>3. pc' \in [Forwards -> Labels]
    BY <1>0 DEF RunDirect, TypeOK, Goto, Labels, Inside
  <2> QED
    BY <1>0, <2>1, <2>2, <2>3 DEF RunDirect, TypeOK, actors
<1>2. Alone(f)
  BY <1>0 DEF RunDirect, TypeOK, Alone, Goto, Labels, Inside, Running, Ended, Gates, Locals, Set, ClearIfUnchanged, Refreshed, actors
<1>3. Registered(f)'
  BY <1>0 DEF RunDirect, TypeOK, Good, Registered, Goto, Labels, Inside, Running, Ended, Gates, Locals, Set, ClearIfUnchanged, Refreshed, actors
<1>4. Fresh(f)'
  BY <1>0 DEF RunDirect, TypeOK, Good, Fresh, Goto, Labels, Inside, Running, Ended, Gates, Locals, Set, ClearIfUnchanged, Refreshed, actors
<1>5. Matched(f)' /\ (pc'[f] = "execute" => local'[f].artifact \in {"steady", "full"})
  BY <1>0 DEF RunDirect, TypeOK, Good, Matched, Goto, Labels, Inside, Running, Ended, Gates, Locals, Set, ClearIfUnchanged, Refreshed, actors
<1>6. pc[f] \in Inside
  BY DEF RunDirect, Inside, Running
<1> QED
  BY <1>1, <1>2, <1>3, <1>4, <1>5, <1>6, ForwardInv DEF Good

LEMMA EnterScheduleInv == ASSUME Inv, NEW f \in Forwards, EnterSchedule(f) PROVE Inv'
<1>0. TypeOK /\ Good(f)
  BY DEF Inv
<1>1. TypeOK'
  <2>1. local' \in [Forwards -> Locals]
    BY <1>0 DEF EnterSchedule, TypeOK, Set, Locals, Ended
  <2>2. runGate' \in Gates
    BY <1>0 DEF EnterSchedule, TypeOK, enter, Gates
  <2>3. pc' \in [Forwards -> Labels]
    BY <1>0 DEF EnterSchedule, TypeOK, Goto, Labels, Inside, Running
  <2> QED
    BY <1>0, <2>1, <2>2, <2>3 DEF EnterSchedule, TypeOK, residency, actors
<1>2. Alone(f)
  BY <1>0 DEF EnterSchedule, TypeOK, Alone, Goto, Labels, Inside, Running, Ended, Gates, Locals, Set, enter, residency, actors
<1>3. Registered(f)'
  BY <1>0 DEF EnterSchedule, TypeOK, Good, Registered, Goto, Labels, Inside, Running, Ended, Gates, Locals, Set, enter, residency, actors
<1>4. Fresh(f)'
  BY <1>0 DEF EnterSchedule, TypeOK, Good, Fresh, Goto, Labels, Inside, Running, Ended, Gates, Locals, Set, enter, residency, actors
<1>5. Matched(f)' /\ (pc'[f] = "execute" => local'[f].artifact \in {"steady", "full"})
  BY <1>0 DEF EnterSchedule, TypeOK, Good, Matched, Goto, Labels, Inside, Running, Ended, Gates, Locals, Set, enter, residency, actors
<1>6. pc[f] \in Inside
  BY DEF EnterSchedule, Inside, Running
<1> QED
  BY <1>1, <1>2, <1>3, <1>4, <1>5, <1>6, ForwardInv DEF Good

LEMMA RegisterInv == ASSUME Inv, NEW f \in Forwards, Register(f) PROVE Inv'
<1>0. TypeOK /\ Good(f)
  BY DEF Inv
<1>1. TypeOK'
  BY <1>0 DEF Register, TypeOK, Goto, Labels, Inside, Running, Ended, Gates, Locals, residency, actors
<1>2. Alone(f)
  BY <1>0 DEF Register, TypeOK, Alone, Goto, Labels, Inside, Running, Ended, Gates, Locals, residency, actors
<1>3. Registered(f)'
  BY <1>0 DEF Register, TypeOK, Good, Registered, Goto, Labels, Inside, Running, Ended, Gates, Locals, residency, actors
<1>4. Fresh(f)'
  BY <1>0 DEF Register, TypeOK, Good, Fresh, Goto, Labels, Inside, Running, Ended, Gates, Locals, residency, actors
<1>5. Matched(f)' /\ (pc'[f] = "execute" => local'[f].artifact \in {"steady", "full"})
  BY <1>0 DEF Register, TypeOK, Good, Matched, Goto, Labels, Inside, Running, Ended, Gates, Locals, residency, actors
<1>6. pc[f] \in Inside
  BY DEF Register, Inside, Running
<1> QED
  BY <1>1, <1>2, <1>3, <1>4, <1>5, <1>6, ForwardInv DEF Good

LEMMA SeedInv == ASSUME GraphAssumption, Inv, NEW f \in Forwards, Seed(f) PROVE Inv'
<1>0. TypeOK /\ Good(f) /\ Installed /\ None \notin Nat
  BY DEF Inv, GraphAssumption
<1>1. TypeOK'
  BY <1>0 DEF Seed, TypeOK, Goto, Labels, Inside, Running, Ended, Gates, Locals, Set, cancelling, actors, UpToDate
<1>2. Alone(f)
  BY <1>0 DEF Seed, TypeOK, Alone, Goto, Labels, Inside, Running, Ended, Gates, Locals, Set, cancelling, actors, UpToDate
<1>3. Registered(f)'
  BY <1>0 DEF Seed, TypeOK, Good, Registered, Goto, Labels, Inside, Running, Ended, Gates, Locals, Set, cancelling, actors, UpToDate
<1>4. Fresh(f)'
  BY <1>0 DEF Seed, TypeOK, Good, Fresh, Goto, Labels, Inside, Running, Ended, Gates, Locals, Set, cancelling, actors, UpToDate
<1>5. Matched(f)' /\ (pc'[f] = "execute" => local'[f].artifact \in {"steady", "full"})
  BY <1>0 DEF Seed, TypeOK, Good, Matched, Goto, Labels, Inside, Running, Ended, Gates, Locals, Set, cancelling, actors, UpToDate
<1>6. pc[f] \in Inside
  BY DEF Seed, Inside, Running
<1> QED
  BY <1>1, <1>2, <1>3, <1>4, <1>5, <1>6, ForwardInv DEF Good

LEMMA SeedFailsInv == ASSUME Inv, NEW f \in Forwards, SeedFails(f) PROVE Inv'
<1>0. TypeOK /\ Good(f)
  BY DEF Inv
<1>1. TypeOK'
  BY <1>0 DEF SeedFails, TypeOK, Goto, Labels, Inside, Running, Ended, Gates, Locals, cancelling, actors, UpToDate
<1>2. Alone(f)
  BY <1>0 DEF SeedFails, TypeOK, Alone, Goto, Labels, Inside, Running, Ended, Gates, Locals, cancelling, actors, UpToDate
<1>3. Registered(f)'
  BY <1>0 DEF SeedFails, TypeOK, Good, Registered, Goto, Labels, Inside, Running, Ended, Gates, Locals, cancelling, actors, UpToDate
<1>4. Fresh(f)'
  BY <1>0 DEF SeedFails, TypeOK, Good, Fresh, Goto, Labels, Inside, Running, Ended, Gates, Locals, cancelling, actors, UpToDate
<1>5. Matched(f)' /\ (pc'[f] = "execute" => local'[f].artifact \in {"steady", "full"})
  BY <1>0 DEF SeedFails, TypeOK, Good, Matched, Goto, Labels, Inside, Running, Ended, Gates, Locals, cancelling, actors, UpToDate
<1>6. pc[f] \in Inside
  BY DEF SeedFails, Inside, Running
<1> QED
  BY <1>1, <1>2, <1>3, <1>4, <1>5, <1>6, ForwardInv DEF Good

LEMMA FetchArtifactInv == ASSUME GraphAssumption, Inv, NEW f \in Forwards, FetchArtifact(f) PROVE Inv'
<1>0. TypeOK /\ Good(f) /\ Installed /\ None \notin Nat
  BY DEF Inv, GraphAssumption
<1>1. TypeOK'
  BY <1>0 DEF FetchArtifact, TypeOK, Goto, Labels, Inside, Running, Ended, Gates, Locals, Set, cancelling, residency, actors
<1>2. Alone(f)
  BY <1>0 DEF FetchArtifact, TypeOK, Alone, Goto, Labels, Inside, Running, Ended, Gates, Locals, Set, cancelling, residency, actors
<1>3. Registered(f)'
  BY <1>0 DEF FetchArtifact, TypeOK, Good, Registered, Goto, Labels, Inside, Running, Ended, Gates, Locals, Set, cancelling, residency, actors
<1>4. Fresh(f)'
  BY <1>0 DEF FetchArtifact, TypeOK, Good, Fresh, Goto, Labels, Inside, Running, Ended, Gates, Locals, Set, cancelling, residency, actors
<1>5. Matched(f)' /\ (pc'[f] = "execute" => local'[f].artifact \in {"steady", "full"})
  BY <1>0 DEF FetchArtifact, TypeOK, Good, Matched, Installed, _steady_state_schedule, Goto, Labels, Inside, Running, Ended, Gates, Locals, Set, cancelling, residency, actors
<1>6. pc[f] \in Inside
  BY DEF FetchArtifact, Inside, Running
<1> QED
  BY <1>1, <1>2, <1>3, <1>4, <1>5, <1>6, ForwardInv DEF Good

LEMMA ExecuteInv == ASSUME Inv, NEW f \in Forwards, Execute(f) PROVE Inv'
<1>0. TypeOK /\ Good(f)
  BY DEF Inv
<1>1. TypeOK'
  BY <1>0 DEF Execute, TypeOK, Goto, Labels, Inside, Running, Ended, Gates, Locals, Set, _reraise_pending, residency, actors
<1>2. Alone(f)
  BY <1>0 DEF Execute, TypeOK, Alone, Goto, Labels, Inside, Running, Ended, Gates, Locals, Set, _reraise_pending, residency, actors
<1>3. Registered(f)'
  BY <1>0 DEF Execute, TypeOK, Good, Registered, Goto, Labels, Inside, Running, Ended, Gates, Locals, Set, _reraise_pending, residency, actors
<1>4. Fresh(f)'
  BY <1>0 DEF Execute, TypeOK, Good, Fresh, Goto, Labels, Inside, Running, Ended, Gates, Locals, Set, _reraise_pending, residency, actors
<1>5. Matched(f)' /\ (pc'[f] = "execute" => local'[f].artifact \in {"steady", "full"})
  BY <1>0 DEF Execute, TypeOK, Good, Matched, Goto, Labels, Inside, Running, Ended, Gates, Locals, Set, _reraise_pending, residency, actors
<1>6. pc[f] \in Inside
  BY DEF Execute, Inside, Running
<1> QED
  BY <1>1, <1>2, <1>3, <1>4, <1>5, <1>6, ForwardInv DEF Good

LEMMA LeaveRunInv == ASSUME Inv, NEW f \in Forwards, LeaveRun(f) PROVE Inv'
<1>0. TypeOK /\ Good(f)
  BY DEF Inv
<1>1. TypeOK'
  BY <1>0, ZenonT(30) DEF LeaveRun, TypeOK, Goto, Labels, Inside, Running, Ended, Gates, Locals, leave, ClearIfUnchanged, residency, actors
<1>2. Alone(f)
  BY <1>0 DEF LeaveRun, TypeOK, Alone, Goto, Labels, Inside, Running, Ended, Gates, Locals, leave, ClearIfUnchanged, residency, actors
<1>3. Registered(f)'
  BY <1>0 DEF LeaveRun, TypeOK, Good, Registered, Goto, Labels, Inside, Running, Ended, Gates, Locals, leave, ClearIfUnchanged, residency, actors
<1>4. Fresh(f)'
  BY <1>0 DEF LeaveRun, TypeOK, Good, Fresh, Goto, Labels, Inside, Running, Ended, Gates, Locals, leave, ClearIfUnchanged, residency, actors
<1>5. Matched(f)' /\ (pc'[f] = "execute" => local'[f].artifact \in {"steady", "full"})
  BY <1>0 DEF LeaveRun, TypeOK, Good, Matched, Goto, Labels, Inside, Running, Ended, Gates, Locals, leave, ClearIfUnchanged, residency, actors
<1>6. pc[f] \in Inside
  BY DEF LeaveRun, Inside, Running
<1> QED
  BY <1>1, <1>2, <1>3, <1>4, <1>5, <1>6, ForwardInv DEF Good

LEMMA LeaveInv == ASSUME Inv, NEW f \in Forwards, Leave(f) PROVE Inv'
<1>0. TypeOK /\ Good(f)
  BY DEF Inv
<1>1. TypeOK'
  BY <1>0 DEF Leave, TypeOK, Goto, Labels, Inside, Running, Ended, Gates, Locals, leave, cancelling, residency, actors
<1>2. Alone(f)
  BY <1>0 DEF Leave, TypeOK, Alone, Goto, Labels, Inside, Running, Ended, Gates, Locals, leave, cancelling, residency, actors
<1>3. Registered(f)'
  BY <1>0 DEF Leave, TypeOK, Good, Registered, Goto, Labels, Inside, Running, Ended, Gates, Locals, leave, cancelling, residency, actors
<1>4. Fresh(f)'
  BY <1>0 DEF Leave, TypeOK, Good, Fresh, Goto, Labels, Inside, Running, Ended, Gates, Locals, leave, cancelling, residency, actors
<1>5. Matched(f)' /\ (pc'[f] = "execute" => local'[f].artifact \in {"steady", "full"})
  BY <1>0 DEF Leave, TypeOK, Good, Matched, Goto, Labels, Inside, Running, Ended, Gates, Locals, leave, cancelling, residency, actors
<1>6. pc[f] \in Inside
  BY DEF Leave, Inside, Running
<1> QED
  BY <1>1, <1>2, <1>3, <1>4, <1>5, <1>6, ForwardInv DEF Good

LEMMA RequestInv == ASSUME Inv, Request PROVE Inv'
<1>1. TypeOK' /\ Drained' /\ Installed'
  BY DEF Request, Inv, TypeOK, Drained, Installed, residency
<1>2. \A g \in Forwards : Good(g)'
  BY GoodKept DEF Request, Inv, residency
<1> QED
  BY <1>1, <1>2 DEF Inv

LEMMA RequestScheduleInv == ASSUME Inv, RequestSchedule PROVE Inv'
<1>1. TypeOK' /\ Drained' /\ Installed'
  BY DEF RequestSchedule, Inv, TypeOK, Drained, Installed, residency
<1>2. \A g \in Forwards : Good(g)'
  BY GoodKept DEF RequestSchedule, Inv, residency
<1> QED
  BY <1>1, <1>2 DEF Inv

LEMMA CloseGateInv == ASSUME Inv, CloseGate PROVE Inv'
<1>1. TypeOK' /\ Drained' /\ Installed'
  BY ZenonT(30) DEF CloseGate, Inv, TypeOK, Drained, Installed, residency, cancelling, mark_closed, Gates
<1>2. \A g \in Forwards : Good(g)'
  BY GoodKept DEF CloseGate, Inv, residency, cancelling, mark_closed, Gates
<1> QED
  BY <1>1, <1>2 DEF Inv

LEMMA CloseScheduleInv == ASSUME Inv, CloseSchedule PROVE Inv'
<1>1. TypeOK' /\ Drained' /\ Installed'
  BY ZenonT(30) DEF CloseSchedule, Inv, TypeOK, Drained, Installed, residency, cancelling, idle, mark_closed, Gates
<1>2. \A g \in Forwards : Good(g)'
  BY GoodKept DEF CloseSchedule, Inv, residency, cancelling, idle, mark_closed, Gates
<1> QED
  BY <1>1, <1>2 DEF Inv

LEMMA CloseFinishInv == ASSUME Inv, CloseFinish PROVE Inv'
<1>1. TypeOK' /\ Drained' /\ Installed'
  BY DEF CloseFinish, Inv, TypeOK, Drained, Installed, cancelling, residency
<1>2. \A g \in Forwards : Good(g)'
  BY GoodKept DEF CloseFinish, Inv, cancelling, residency
<1> QED
  BY <1>1, <1>2 DEF Inv

(* An update changes no copy; entries stay below the new version.          *)
LEMMA UpdateInv == ASSUME Inv, Update PROVE Inv'
<1>1. TypeOK' /\ Drained' /\ Installed'
  BY DEF Update, Inv, TypeOK, Drained, Installed, cancelling
<1>2. ASSUME NEW g \in Forwards PROVE Good(g)'
  <2>1. Registered(g)' /\ Matched(g)'
    BY DEF Update, Inv, Good, Registered, Matched, cancelling
  <2>2. Fresh(g)'
    BY DEF Update, Inv, TypeOK, Locals, Good, Fresh, cancelling
  <2> QED
    BY <2>1, <2>2 DEF Update, Inv, Good
<1> QED
  BY <1>1, <1>2 DEF Inv

LEMMA ReleaseCallInv == ASSUME Inv, ReleaseCall PROVE Inv'
<1>1. TypeOK' /\ Drained' /\ Installed'
  BY DEF ReleaseCall, Inv, TypeOK, Drained, Installed, cancelling, residency
<1>2. ASSUME NEW g \in Forwards PROVE Good(g)'
  BY DEF ReleaseCall, Inv, Good, Registered, Fresh, Matched, cancelling, residency
<1> QED
  BY <1>1, <1>2 DEF Inv

LEMMA ReleaseDropInv == ASSUME Inv, ReleaseDrop PROVE Inv'
<1>0. \A g \in Forwards : local'[g] = [local[g] EXCEPT !.alone = FALSE] /\ local[g] \in Locals
  BY DEF ReleaseDrop, Inv, TypeOK
<1>1. local' \in [Forwards -> Locals]
  BY <1>0, ZenonT(30) DEF ReleaseDrop, Locals
<1>2. TypeOK' /\ Drained' /\ Installed'
  BY <1>1, ZenonT(30) DEF ReleaseDrop, Inv, TypeOK, Drained, Installed, cancelling
<1>3. ASSUME NEW g \in Forwards PROVE Good(g)'
  <2>1. /\ ~local'[g].alone
        /\ local'[g].entry = local[g].entry /\ local'[g].copy = local[g].copy
        /\ local'[g].result = local[g].result /\ local'[g].artifact = local[g].artifact
    BY <1>0, ZenonT(30) DEF Locals
  <2>2. Good(g)
    BY DEF Inv
  <2>3. Registered(g)'
    BY <2>2 DEF ReleaseDrop, Good, Registered, cancelling
  <2>4. Fresh(g)' /\ Matched(g)'
    BY <2>1, <2>2 DEF ReleaseDrop, Good, Fresh, Matched
  <2> QED
    BY <2>1, <2>2, <2>3, <2>4 DEF ReleaseDrop, Good
<1> QED
  BY <1>2, <1>3 DEF Inv

LEMMA ReleaseInstallInv == ASSUME Inv, ReleaseInstall PROVE Inv'
<1>1. TypeOK' /\ Drained' /\ Installed'
  BY DEF ReleaseInstall, Inv, TypeOK, Drained, Installed, cancelling, _steady_state_schedule
<1>2. ASSUME NEW g \in Forwards PROVE Good(g)'
  BY DEF ReleaseInstall, Inv, Good, Registered, Fresh, Matched, cancelling
<1> QED
  BY <1>1, <1>2 DEF Inv

-----------------------------------------------------------------------------
LEMMA InitInv == ASSUME GraphAssumption, Init PROVE Inv
<1>1. TypeOK
  BY DEF Init, TypeOK, Labels, Gates, Locals, Ended, _steady_state_schedule
<1>2. Drained /\ Installed
  BY DEF Init, Drained, Installed
<1>3. ASSUME NEW f \in Forwards PROVE Good(f)
  BY DEF GraphAssumption, Init, Good, Registered, Fresh, Matched, Inside, Running
<1> QED
  BY <1>1, <1>2, <1>3 DEF Inv

(* A forward that waits for an idle run gate is inside that gate.          *)
LEMMA NoFallBack == ASSUME Inv, NEW f \in Forwards PROVE ~FallBack(f)
BY ZenonT(30) DEF Inv, Good, Registered, FallBack, idle, Running

LEMMA NextInv == ASSUME GraphAssumption, Inv, [OOMNext]_vars PROVE Inv'
<1>1. ASSUME NEW f \in Forwards, Forward(f) PROVE Inv'
  BY <1>1, EnterInv, ChooseInv, RunDirectInv, EnterScheduleInv, RegisterInv, SeedInv,
     FetchArtifactInv, ExecuteInv, LeaveRunInv, LeaveInv DEF Forward
<1>2. ASSUME NEW f \in Forwards, SeedFails(f) \/ FallBack(f) PROVE Inv'
  BY <1>2, SeedFailsInv, NoFallBack
<1>3. CASE Close
  BY <1>3, CloseGateInv, CloseScheduleInv, CloseFinishInv DEF Close
<1>4. CASE UNCHANGED vars
  <2>1. TypeOK' /\ Drained' /\ Installed'
    BY <1>4 DEF vars, Inv, TypeOK, Drained, Installed
  <2>2. \A g \in Forwards : Good(g)'
    BY <1>4, GoodKept DEF vars, Inv
  <2> QED
    BY <2>1, <2>2 DEF Inv
<1> QED
  BY <1>1, <1>2, <1>3, <1>4, RequestInv, RequestScheduleInv, ReleaseCallInv, ReleaseDropInv,
     ReleaseInstallInv, UpdateInv DEF OOMNext, Next, Finished

(* What the three properties of the module have in common with Inv.        *)
LEMMA InvSound == ASSUME Inv PROVE WeightsAreCurrent /\ ArtifactMatchesCopies /\ CloseLeavesNothing
<1>1. WeightsAreCurrent
  BY DEF Inv, Good, Fresh, WeightsAreCurrent
<1>2. ArtifactMatchesCopies
  BY DEF Inv, Good, Matched, ArtifactMatchesCopies
<1>3. CloseLeavesNothing
  BY DEF Inv, TypeOK, Gates, Drained, Good, Registered, CloseLeavesNothing, Inside, Running
<1> QED
  BY <1>1, <1>2, <1>3

(* For any number of forwards, updates, cancels and releases: no forward   *)
(* computes with weights older than those it found when it entered, none   *)
(* that no release overlaps runs an artifact without transfers for copies  *)
(* it does not have, and a close that has returned leaves no forward       *)
(* inside, no token, no pinched thread count and no device copy.           *)
THEOREM ForwardsAreSound ==
    ASSUME GraphAssumption
    PROVE  Spec => [](WeightsAreCurrent /\ ArtifactMatchesCopies /\ CloseLeavesNothing)
<1>1. Inv /\ [Next]_vars => Inv'
  BY NextInv DEF OOMNext
<1> QED
  BY <1>1, InitInv, InvSound, PTL DEF Spec

(* The same on a device that may run out of memory: the fallback breaks no *)
(* safety property, because it never comes about.                          *)
THEOREM OutOfMemoryIsSound ==
    ASSUME GraphAssumption
    PROVE  OOMSpec => [](WeightsAreCurrent /\ ArtifactMatchesCopies /\ CloseLeavesNothing)
BY NextInv, InitInv, InvSound, PTL DEF OOMSpec

(* Why not: release_device_residency is called from inside the run gate it *)
(* waits on, so a forward that runs out of memory while seeding never      *)
(* falls back.                                                             *)
NeverFallsBack == \A f \in Forwards : pc[f] = "waitIdle" => ~idle(runGate)

THEOREM OutOfMemoryNeverFallsBack ==
    ASSUME GraphAssumption PROVE OOMSpec => []NeverFallsBack
<1>1. Inv => NeverFallsBack
  BY DEF Inv, Good, Registered, NeverFallsBack, idle, Running
<1> QED
  BY <1>1, NextInv, InitInv, PTL DEF OOMSpec
=============================================================================
