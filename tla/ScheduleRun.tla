----------------------------- MODULE ScheduleRun -----------------------------
(***************************************************************************)
(* One forward of a built schedule: hoisting of resident parameters, the   *)
(* copies a forward starts from, and the instructions, run in any order    *)
(* their dependencies allow.  The residency store holds at most one copy   *)
(* of a tensor per resource; here it is the set of valid copies and the    *)
(* leases on them.  A failing instruction ends the forward.                *)
(***************************************************************************)
EXTENDS ScheduleBuild

VARIABLES done,     \* names of the completed instructions
          copies,   \* valid copies: pairs of a tensor and a resource
          leases,   \* leased copies: a function from such pairs to counts
          files,    \* tensors with an activation spill file
          fault     \* what ended the forward early: none, copy or budget

rvars == <<done, copies, leases, files, fault>>
vars == <<bvars, rvars>>

-----------------------------------------------------------------------------
Activations == UNION {Outs(i) : i \in Regions}
Resources == Devices \cup {Host, "disk"}
Places == (Activations \cup UserInputs \cup Params) \X Resources
ValidOn(t, r) == <<t, r>> \in copies

(* ScheduleExecutor._select_persistent_parameter_ids: every parameter  *)
(* when the state fits, else as many of the transferred ones as leave room *)
(* for each transfer's remainder.                                          *)
Fit == INSTANCE FitPolicy WITH None <- -1, SafetyFloor <- 0

TransferGroups == {sched[k].ins : k \in {j \in DOMAIN sched : sched[j].name[1] = "h2d"}}
_parameter_nbytes_from_schedule == [w \in UNION TransferGroups |-> Size[w]]

(* An accelerator of prog.vram bytes that nobody else uses.                *)
Config == [gpu |-> TRUE, training |-> FALSE, vram |-> -1, activation |-> -1]
live_hoist_budget_bytes ==
    Fit!clamp_hoist_budget_to_live_vram(Fit!accelerator_hoist_budget_bytes(Config, {prog.vram}),
                                        {prog.vram})

Persistent ==
    IF prog.streaming \/ prog.vram < 0 THEN {}
    ELSE IF Fit!should_hoist_resident_parameters(Config, {prog.vram}, Fit!TotalOf(Size, Params))
    THEN Params
    ELSE Fit!select_persistent_parameter_ids(_parameter_nbytes_from_schedule,
                                             live_hoist_budget_bytes, TransferGroups)

(* hoist_resident_parameter_transfers: drop or shrink the parameter        *)
(* transfers and evicts of the hoisted tensors, and the edges to them.     *)
Hoistable(inst) == inst.name[1] \in {"h2d", "evict"}
Hoisted(s) ==
    LET stay == Persistent
        gone == {s[k].name : k \in {j \in DOMAIN s :
                    Hoistable(s[j]) /\ s[j].ins \subseteq stay}}
        shrink(inst) == IF Hoistable(inst) /\ inst.ins \cap stay # {}
                        THEN [inst EXCEPT !.ins = @ \ stay, !.outs = inst.ins \ stay]
                        ELSE inst
        kept == SelectSeq(s, LAMBDA inst : inst.name \notin gone)
    IN  [k \in DOMAIN kept |-> [shrink(kept[k]) EXCEPT !.deps = @ \ gone]]

(* Destinations of a hoisted parameter: each gets an authoritative copy,   *)
(* in turn, so only the last stays valid; the host keeps none.             *)
HoistTargets(w) ==
    {sched[k].dst : k \in {j \in DOMAIN sched : sched[j].name[1] = "h2d" /\ w \in sched[j].ins}}

Resident(w) ==
    IF w \in Persistent /\ HoistTargets(w) # {}
    THEN {<<w, CHOOSE r \in HoistTargets(w) : TRUE>>}
    ELSE {<<w, Host>>}

(* Installing the schedule, which validates it, and publishing the user    *)
(* inputs and, when they are not streamed, the parameters.                 *)
Start ==
    /\ phase = "built"
    /\ sched' = Hoisted(sched)
    /\ phase' \in IF sched' = sched THEN {"run"} ELSE Verdicts(sched', "run")
    /\ copies' = (UserInputs \X {Host})
                   \cup SetIf(~prog.streaming, UNION {Resident(w) : w \in Params})
    /\ leases' = [c \in Places |-> 0]
    /\ UNCHANGED <<prog, at, plan, done, files, fault>>

-----------------------------------------------------------------------------
Missing(bad) == IF bad THEN "copy" ELSE "none"

Ready(inst) ==
    /\ phase = "run" /\ fault = "none"
    /\ inst.name \notin done /\ inst.deps \subseteq done

(* An instruction takes effect, or ends the forward.                       *)
Attempt(inst, why, cs, ls, fs) ==
    /\ Ready(inst)
    /\ IF why = "none"
       THEN /\ copies' = cs /\ leases' = ls /\ files' = fs
            /\ done' = done \cup {inst.name}
            /\ UNCHANGED <<bvars, fault>>
       ELSE /\ fault' = why
            /\ UNCHANGED <<bvars, done, copies, leases, files>>

(* The activation budget, as the region handler asserts it: over budget    *)
(* is an error when an activation that is neither protected nor due to be  *)
(* spilled is resident.  Spills are only struck off after the run.         *)
ActivationBytes(cs) ==
    MapThenSumSet(LAMBDA c : Size[c[1]],
                     {c \in cs : c[1] \in Activations /\ c[2] # "disk"})

SpillDue(finished) ==
    UNION {sched[k].ins : k \in {j \in DOMAIN sched :
              sched[j].name[1] = "spill" /\ sched[j].name \notin finished}}

BudgetBroken(cs, finished) ==
    /\ prog.budget >= 0 /\ ActivationBytes(cs) > prog.budget
    /\ \E c \in cs : /\ c[1] \in Activations \ (prog.outputs \cup SpillDue(finished))
                     /\ c[2] # "disk"

Compute(inst) ==
    LET made == copies \cup (inst.outs \X {inst.res})
    IN  /\ inst.op = "Compute"
        /\ Attempt(inst, IF \E t \in inst.ins : ~ValidOn(t, inst.res) THEN "copy"
                         ELSE IF BudgetBroken(made, {}) THEN "budget" ELSE "none",
                   made, leases, files)

(* A parameter not yet there is published on the load's host memory, as    *)
(* the authoritative copy: other copies of it go stale.                    *)
Load(inst) ==
    LET need == {t \in inst.outs : ~ValidOn(t, inst.dst)}
    IN  /\ inst.name[1] = "load"
        /\ Attempt(inst, "none",
                   {c \in copies : c[1] \notin need} \cup (need \X {inst.dst}),
                   leases, files)

(* Prefetch warms the chunk cache and touches no copy; a wait needs its    *)
(* event recorded.                                                         *)
Marker(inst) ==
    /\ inst.op \in {"Prefetch", "RecordEvent", "WaitEvent"}
    /\ Attempt(inst,
               Missing(inst.op = "WaitEvent" /\ ~\E n \in done : n[1] = "record" /\ n \in inst.deps),
               copies, leases, files)

(* A transfer leases the destination copy, made from the source's unless   *)
(* it is there already.                                                    *)
Transfer(inst) ==
    LET to == inst.ins \X {inst.dst}
    IN  /\ inst.op = "Transfer"
        /\ Attempt(inst, Missing(\E t \in inst.ins : ~ValidOn(t, inst.dst) /\ ~ValidOn(t, inst.src)),
                   copies \cup to,
                   [c \in Places |-> IF c \in to THEN leases[c] + 1 ELSE leases[c]],
                   files)

(* Releases and parameter evicts take the copy on their resource, or the   *)
(* spilled one; they first give back one lease.                            *)
Droppable(c) == c \in copies /\ leases[c] <= 1

Drop(inst) ==
    LET dropped == {IF ValidOn(t, inst.res) \/ ~ValidOn(t, "disk")
                    THEN <<t, inst.res>> ELSE <<t, "disk">> : t \in inst.ins}
    IN  /\ inst.op \in {"Release", "Evict"} /\ inst.name[1] # "spill"
        /\ Attempt(inst, Missing(\E c \in dropped : ~Droppable(c)), copies \ dropped,
                   [c \in Places |-> IF c \in dropped THEN 0 ELSE leases[c]], files)

(* A spill writes the file, drops the memory copy and puts the disk copy,  *)
(* which as an authoritative put makes every other copy stale.             *)
Spill(inst) ==
    /\ inst.name[1] = "spill"
    /\ Attempt(inst, Missing(\E t \in inst.ins : ~Droppable(<<t, inst.res>>)),
               {c \in copies : c[1] \notin inst.ins} \cup (inst.ins \X {"disk"}),
               [c \in Places |-> IF c[1] \in inst.ins THEN 0 ELSE leases[c]],
               files \cup inst.ins)

Reload(inst) ==
    /\ inst.name[1] = "reload"
    /\ Attempt(inst, Missing(~(inst.ins \subseteq files)), copies \cup (inst.ins \X {inst.dst}),
               leases, files \ inst.ins)

(* The forward's end: the budget again, now with every spill struck off,   *)
(* and the outputs.                                                        *)
Finish ==
    /\ phase = "run" /\ fault = "none" /\ done = Names(sched)
    /\ phase' = "done"
    /\ fault' = IF BudgetBroken(copies, done) THEN "budget" ELSE "none"
    /\ UNCHANGED <<prog, at, sched, plan, done, copies, leases, files>>

Stopped == (phase \in {"done", "refused"} \/ fault # "none") /\ UNCHANGED vars

Init ==
    /\ BuildInit
    /\ done = {} /\ copies = {} /\ leases = <<>> /\ files = {} /\ fault = "none"

Run(inst) ==
    \/ Compute(inst) \/ Load(inst) \/ Marker(inst) \/ Transfer(inst)
    \/ Drop(inst) \/ Spill(inst) \/ Reload(inst)

Next ==
    \/ Build /\ UNCHANGED rvars
    \/ Start
    \/ \E k \in DOMAIN sched : Run(sched[k])
    \/ Finish
    \/ Stopped

Spec == Init /\ [][Next]_vars

-----------------------------------------------------------------------------
(* The builder's schedules pass the validator it ends with.                *)
Accepted == phase # "refused"

(* No order the dependencies allow makes an instruction miss a copy, a     *)
(* spill file or an event, or drop a copy still leased (run_instruction).  *)
NoMissingCopy == fault # "copy"

(* The activation budget the spill planner planned for is kept by every    *)
(* order (_assert_activation_budget never raises).                         *)
BudgetKept == fault # "budget"

(* A finished forward has every graph output in memory, and holds no       *)
(* streamed parameter and, where it was produced, no other activation that *)
(* was consumed.                                                           *)
FinishesClean ==
    phase = "done" =>
        /\ \A t \in prog.outputs : \E r \in Devices \cup {Host} : ValidOn(t, r)
        /\ \A t \in Activations \ prog.outputs : Consumers(t) # {} =>
              \A r \in Home(t) : ~ValidOn(t, r)
        /\ prog.streaming => \A c \in copies : c[1] \notin Params

(* Streaming keeps one region's parameters in memory: none that region j   *)
(* is the first to use, while one whose last user comes before j is left   *)
(* ("Load waits for previous Evicts so live staging + VRAM stay bounded"). *)
StagingBounded ==
    prog.streaming => \A j \in Regions : \A i \in 1..(j - 1) :
        \A w \in State(j) \ UNION {State(k) : k \in 1..(j - 1)} : \A v \in LastUsed(i) :
            ~(\E c \in copies : c[1] = w) \/ ~(\E c \in copies : c[1] = v)
=============================================================================
