---------------------------- MODULE ScheduleBuild ----------------------------
(***************************************************************************)
(* Lowering a placed program to an executable schedule: region by region   *)
(* emission, releases, activation spills, liveness of releases, and the    *)
(* structural validator.  A machine here has one host memory and a set of  *)
(* accelerators; pinned memory, mock delays and attribute payloads are     *)
(* left out.  Regions are numbered in placement order, which is            *)
(* topological, and an instruction is named by what it does to what.       *)
(***************************************************************************)
EXTENDS Integers, Sequences, FiniteSets, SequencesExt, FiniteSetsExt

CONSTANTS Programs,   \* the placed programs to lower
          Host,       \* the host resource
          Devices,    \* accelerator resources
          Size        \* Size[t]: bytes of the tensor t

(* A region is [device, inputs, outs, state]: where it is placed, the      *)
(* activations and user inputs it reads, what it produces, its parameters. *)
(* A program is [regions, outputs, streaming, prefetch, budget, vram]:     *)
(* budget < 0 is no activation budget, vram the bytes of parameters that   *)
(* may stay on an accelerator between runs, < 0 when none do.              *)
ASSUME BuildAssumption ==
    /\ Host \notin Devices
    /\ \A p \in Programs : \A i \in DOMAIN p.regions :
         /\ p.regions[i].device \in Devices \cup {Host}
         /\ \A j \in i..Len(p.regions) :
              p.regions[i].inputs \cap p.regions[j].outs = {}

VARIABLES prog,    \* the program being lowered
          phase,   \* emit, spill, check, built or refused (then as the run goes)
          at,      \* the next region to emit, or the next instruction to plan
          sched,   \* the instructions so far, in list order
          plan     \* the spill planner: its output, the live tensors in the order
                   \* they became live, spill and reload operations by tensor

bvars == <<prog, phase, at, sched, plan>>

-----------------------------------------------------------------------------
Regions == DOMAIN prog.regions
Dev(i) == prog.regions[i].device
Ins(i) == prog.regions[i].inputs
Outs(i) == prog.regions[i].outs
State(i) == prog.regions[i].state
Producers(t) == {i \in Regions : t \in Outs(i)}
Consumers(t) == {i \in Regions : t \in Ins(i)}
Home(t) == IF Producers(t) = {} THEN {Host} ELSE {Dev(i) : i \in Producers(t)}
Params == UNION {State(i) : i \in Regions}
UserInputs == {t \in UNION {Ins(i) : i \in Regions} : Producers(t) = {}}

Inst(op, name, res, deps, ins, outs) ==
    [op |-> op, name |-> name, res |-> res, src |-> res, dst |-> res,
     deps |-> deps, ins |-> ins, outs |-> outs]
Move(op, name, src, dst, deps, ts) ==
    [op |-> op, name |-> name, res |-> dst, src |-> src, dst |-> dst,
     deps |-> deps, ins |-> ts, outs |-> ts]

Names(s) == {s[k].name : k \in DOMAIN s}
SeqIf(c, s) == IF c THEN s ELSE <<>>
SetIf(c, S) == IF c THEN S ELSE {}

-----------------------------------------------------------------------------
(* _ParameterEvictGate: the evicts recorded for region j; prior_deps takes *)
(* the nearest earlier region that has some, lead_gate one of the nearest  *)
(* at or before lead, the staging evict if there is one.                   *)
EvictsOf(j) == {<<"staging", j>>, <<"evict", j>>} \cap Names(sched)

(* Mutant: only the region just before, without walking past stateless ones. *)
AdjacentDeps(i) == EvictsOf(i - 1)

PriorDeps(i) ==
    LET js == {j \in 1..(i - 1) : EvictsOf(j) # {}}
    IN  IF js = {} THEN {} ELSE EvictsOf(Max(js))

LeadGate(lead) ==
    LET js == {j \in 1..lead : EvictsOf(j) # {}}
        j == Max(js)
    IN  IF js = {} THEN {}
        ELSE IF <<"staging", j>> \in EvictsOf(j) THEN {<<"staging", j>>}
        ELSE {<<"evict", j>>}

(* Host memory a parameter of region i is loaded into.                     *)
LoadHost(i) == IF Dev(i) \in Devices THEN Host ELSE Dev(i)

Streamed(i) == prog.streaming /\ State(i) # {}
Staged(i) == Streamed(i) /\ LoadHost(i) # Dev(i)
OnDevice(i) == ~prog.streaming /\ State(i) # {} /\ Dev(i) \in Devices
SameDeviceDeps(i) ==
    {<<"compute", j>> : j \in {k \in Regions : /\ Outs(k) \cap Ins(i) # {}
                                               /\ Dev(k) = Dev(i)}}

PrefetchOps(i) ==
    LET lead == i - prog.prefetch - 1
    IN  SeqIf(Streamed(i) /\ prog.prefetch > 0,
          <<Move("Prefetch", <<"prefetch", i>>, "disk", LoadHost(i),
                 ({<<"load", i - 1>>} \cap Names(sched)) \cup LeadGate(lead)
                    \cup {<<"compute", k>> : k \in {lead} \cap Regions},
                 State(i))>>)

LoadOps(i) ==
    SeqIf(Streamed(i),
      <<Move("Load", <<"load", i>>, "disk", LoadHost(i),
             (IF prog.prefetch > 0 THEN {<<"prefetch", i>>} ELSE SameDeviceDeps(i))
                \cup PriorDeps(i),
             State(i))>>)

(* _append_region_parameter_h2d: one transfer for the parameters no        *)
(* earlier transfer takes to the device.                                   *)
Unmoved(i) ==
    {w \in State(i) : \A k \in DOMAIN sched :
        ~(sched[k].name[1] = "h2d" /\ sched[k].dst = Dev(i) /\ w \in sched[k].outs)}

H2DOps(i) ==
    LET deps == IF Streamed(i) THEN {<<"load", i>>}
                ELSE IF prog.prefetch > 0 THEN LeadGate(i - prog.prefetch - 1)
                ELSE PriorDeps(i)
    IN  SeqIf((Staged(i) \/ OnDevice(i)) /\ Unmoved(i) # {},
          <<Move("Transfer", <<"h2d", i>>, Host, Dev(i), deps, Unmoved(i))>>)

(* Cross-device inputs: transfer, record and wait once per value and       *)
(* destination; every consumer on that device waits.                       *)
Remote(i) == {t \in Ins(i) : Dev(i) \notin Home(t)}

TransferOps(t, dev) ==
    LET src == CHOOSE r \in Home(t) : TRUE
        tname == <<"transfer", t, dev>>
        rname == <<"record", t, dev>>
    IN  <<Move("Transfer", tname, src, dev,
               {<<"compute", j>> : j \in Producers(t)}, {t}),
          Inst("RecordEvent", rname, src, {tname}, {t}, {}),
          Inst("WaitEvent", <<"wait", t, dev>>, dev, {rname}, {t}, {})>>

RemoteOps(i) ==
    FlattenSeq([k \in 1..Cardinality(Remote(i)) |->
        LET t == SetToSeq(Remote(i))[k]
        IN  SeqIf(<<"wait", t, Dev(i)>> \notin Names(sched), TransferOps(t, Dev(i)))])

ComputeOp(i) ==
    Inst("Compute", <<"compute", i>>, Dev(i),
         SameDeviceDeps(i)
           \cup SetIf(Streamed(i), {<<"load", i>>})
           \cup SetIf(H2DOps(i) # <<>>, {<<"h2d", i>>})
           \cup {<<"wait", t, Dev(i)>> : t \in Remote(i)},
         Ins(i) \cup State(i), Outs(i))

(* Parameters no later region lists are evicted from the device of their   *)
(* last user, and from the staging memory when they were streamed.         *)
(* Mutant: a parameter is evicted by every region that uses it. *)
EachUsed(i) == State(i)

(* Mutant: a parameter two regions share is evicted by neither. *)
UsedAlone(i) == State(i) \ UNION {State(j) : j \in Regions \ {i}}

LastUsed(i) == State(i) \ UNION {State(j) : j \in {k \in Regions : k > i}}

EvictOps(i) ==
    LET evict(name, res) ==
            <<Inst("Evict", <<name, i>>, res, {<<"compute", i>>}, LastUsed(i), {})>>
    IN  SeqIf(LastUsed(i) # {} /\ (prog.streaming \/ Dev(i) \in Devices),
          evict("evict", Dev(i)) \o
          SeqIf(Staged(i), evict("staging", LoadHost(i))))

(* One pass of build_executable_schedule's loop over the placements.       *)
EmitRegion ==
    /\ phase = "emit" /\ at \in Regions
    /\ sched' = sched \o PrefetchOps(at) \o LoadOps(at) \o H2DOps(at)
                      \o RemoteOps(at) \o <<ComputeOp(at)>> \o EvictOps(at)
    /\ at' = at + 1
    /\ UNCHANGED <<prog, phase, plan>>

(* A release per consumed activation that is not a graph output, after its *)
(* consumers and the events of its transfers.                              *)
ReleaseOp(t) ==
    Inst("Release", <<"release", t>>, CHOOSE r \in Home(t) : TRUE,
         {<<"compute", i>> : i \in Consumers(t)}
           \cup {sched[k].name : k \in {j \in DOMAIN sched :
                   sched[j].op \in {"RecordEvent", "WaitEvent"} /\ t \in sched[j].ins}},
         {t}, {})

EmitReleases ==
    LET released == {t \in UNION {Outs(i) : i \in Regions} \ prog.outputs : Consumers(t) # {}}
        names == SetToSeq(released)
    IN  /\ phase = "emit" /\ at \notin Regions
        /\ sched' = sched \o [k \in DOMAIN names |-> ReleaseOp(names[k])]
        /\ phase' = IF prog.budget >= 0 THEN "spill" ELSE "check"
        /\ at' = 1
        /\ UNCHANGED <<prog, plan>>

-----------------------------------------------------------------------------
(* plan_activation_spills: walk the list; reload what a compute needs and  *)
(* was spilled, then spill until the live activations fit the budget.  The *)
(* graph outputs and the user inputs are never spilled.                    *)
LiveBytes == FoldLeft(LAMBDA n, l : n + Size[l.tensor], 0, plan.live)
Spillable == {k \in DOMAIN plan.live : plan.live[k].tensor \notin prog.outputs}
OpFor(ops, t) == {o.op : o \in {x \in ops : x.tensor = t}}
Forget(ops, t) == {x \in ops : x.tensor # t}

NextUse(t) ==
    LET sites == {k \in at..Len(sched) : sched[k].op = "Compute" /\ t \in sched[k].ins}
    IN  IF sites = {} THEN Len(sched) + 1 ELSE Min(sites)

(* The last of the sorted candidates: the farthest next use, then the      *)
(* smaller tensor, then the one that became live later.                    *)
Farthest ==
    LET use(k) == NextUse(plan.live[k].tensor)
        size(k) == Size[plan.live[k].tensor]
    IN  CHOOSE k \in Spillable : \A j \in Spillable \ {k} :
            \/ use(j) < use(k)
            \/ use(j) = use(k) /\ size(j) > size(k)
            \/ use(j) = use(k) /\ size(j) = size(k) /\ j < k

OverBudget == LiveBytes > prog.budget /\ Spillable # {}

SpillOne ==
    LET l == plan.live[Farthest]
        by == plan.out[Max({k \in DOMAIN plan.out : plan.out[k].op = "Compute"})].name
        readers == {plan.out[k].name : k \in {j \in DOMAIN plan.out :
                       plan.out[j].op = "Compute" /\ l.tensor \in plan.out[j].ins}}
        name == <<"spill", l.tensor, by[2]>>
    IN  /\ phase = "spill" /\ OverBudget
        /\ plan' = [out |-> Append(plan.out,
                              Inst("Evict", name, l.res, {by} \cup readers, {l.tensor}, {})),
                    live |-> RemoveAt(plan.live, Farthest),
                    spilled |-> plan.spilled \cup {[tensor |-> l.tensor, op |-> name]},
                    reload |-> Forget(plan.reload, l.tensor)]
        /\ UNCHANGED <<prog, phase, at, sched>>

ReloadOps(t, i) ==
    <<Move("Load", <<"reload", t, i>>, "disk", LoadHost(i), OpFor(plan.spilled, t), {t})>>
    \o SeqIf(LoadHost(i) # Dev(i),
         <<Move("Transfer", <<"retransfer", t, i>>, LoadHost(i), Dev(i),
                {<<"reload", t, i>>}, {t})>>)

PlanCompute ==
    LET inst == sched[at]
        i == inst.name[2]
        back == SetToSeq({t \in inst.ins : OpFor(plan.spilled, t) # {}})
        ops == FlattenSeq([k \in DOMAIN back |-> ReloadOps(back[k], i)])
        fresh == {[tensor |-> back[k], op |-> Last(ReloadOps(back[k], i)).name] : k \in DOMAIN back}
        shared == UNION {OpFor(plan.reload, t) : t \in inst.ins}
        outs == SetToSeq(inst.outs)
    IN  /\ phase = "spill" /\ ~OverBudget
        /\ at <= Len(sched) /\ inst.op = "Compute"
        /\ plan' = [out |-> plan.out \o ops \o
                       <<[inst EXCEPT !.deps = @ \cup shared \cup Names(ops)]>>,
                    live |-> plan.live
                       \o [k \in DOMAIN back |-> [tensor |-> back[k], res |-> Dev(i)]]
                       \o [k \in DOMAIN outs |-> [tensor |-> outs[k], res |-> Dev(i)]],
                    spilled |-> {o \in plan.spilled : o.tensor \notin inst.ins},
                    reload |-> plan.reload \cup fresh]
        /\ at' = at + 1
        /\ UNCHANGED <<prog, phase, sched>>

PlanOther ==
    LET inst == sched[at]
        gone == SetIf(inst.op \in {"Release", "Evict"}, inst.ins)
    IN  /\ phase = "spill" /\ ~OverBudget
        /\ at <= Len(sched) /\ inst.op # "Compute"
        /\ plan' = [plan EXCEPT !.out = Append(@, inst),
                                !.live = SelectSeq(@, LAMBDA l : l.tensor \notin gone),
                                !.spilled = {o \in @ : inst.op = "Release" => o.tensor \notin gone}]
        /\ at' = at + 1
        /\ UNCHANGED <<prog, phase, sched>>

PlanEnd ==
    /\ phase = "spill" /\ ~OverBudget /\ at > Len(sched)
    /\ sched' = plan.out
    /\ phase' = "check"
    /\ UNCHANGED <<prog, at, plan>>

-----------------------------------------------------------------------------
(* Warshall's closure of the dependency relation: pairs of an instruction  *)
(* and one of its ancestors.                                               *)
Depends(s) ==
    UNION {{<<s[k].name, d>> : d \in s[k].deps \cap Names(s)} : k \in DOMAIN s}

Ancestors(s) ==
    FoldLeft(LAMBDA anc, via :
                anc \cup {<<p[1], q[2]>> : p \in {x \in anc : x[2] = via.name},
                                          q \in {x \in anc : x[1] = via.name}},
             Depends(s), s)

Readers(s, t) ==
    {s[k].name : k \in {j \in DOMAIN s : s[j].op # "Release" /\ t \in s[j].ins}}

(* Mutant: the releases are left as they were emitted. *)
WithoutLiveness(s) == s

(* apply_schedule_liveness: a release also waits for the maximal readers.  *)
WithLiveness(s) ==
    LET anc == Ancestors(s)
        maximal(t) == {n \in Readers(s, t) : \A m \in Readers(s, t) : <<m, n>> \notin anc}
    IN  [k \in DOMAIN s |->
            IF s[k].op = "Release"
            THEN [s[k] EXCEPT !.deps = @ \cup UNION {maximal(t) : t \in s[k].ins}]
            ELSE s[k]]

(* The validator's checks that depend on the schedule's shape.             *)
NamesKnown(s) ==
    /\ Cardinality(Names(s)) = Len(s)
    /\ \A k \in DOMAIN s : s[k].deps \subseteq Names(s)

Acyclic(s, anc) == \A n \in Names(s) : <<n, n>> \notin anc

WaitsPaired(s) ==
    \A k \in DOMAIN s : s[k].op = "WaitEvent" =>
        \E j \in DOMAIN s : s[j].op = "RecordEvent" /\ s[j].name \in s[k].deps

ReleasesLast(s, anc) ==
    \A k \in DOMAIN s : s[k].op = "Release" =>
        \A t \in s[k].ins : \A n \in Readers(s, t) : <<s[k].name, n>> \in anc

WellFormed(s, anc) ==
    NamesKnown(s) /\ Acyclic(s, anc) /\ WaitsPaired(s) /\ ReleasesLast(s, anc)

MakesLocal(inst, t, r) ==
    /\ t \in inst.outs /\ inst.dst = r
    /\ inst.op \in {"Compute", "Transfer", "Load"}

ProducedLocally(s) ==
    \A k \in DOMAIN s : s[k].op = "Compute" =>
        \A t \in s[k].ins : Producers(t) # {} =>
            \E j \in DOMAIN s : MakesLocal(s[j], t, s[k].res)

(* Instructions that complete a transfer of t to r.  When there are        *)
(* several, a hash table's order picks the one every reader must follow.   *)
Completions(s, t, r) ==
    {s[k].name : k \in {j \in DOMAIN s :
        \/ s[j].op = "WaitEvent" /\ s[j].res = r /\ t \in s[j].ins
        \/ s[j].op = "Transfer" /\ s[j].dst = r /\ t \in s[j].outs}}

Follows(s, anc, t, r, c) ==
    \A k \in DOMAIN s :
        s[k].op = "Compute" /\ s[k].res = r /\ t \in s[k].ins => <<s[k].name, c>> \in anc

Copied(s) ==
    {<<t, r>> \in UNION {s[k].outs \X {s[k].dst} : k \in DOMAIN s} : Completions(s, t, r) # {}}

MayAccept(s) ==
    LET anc == Ancestors(s)
    IN  /\ WellFormed(s, anc) /\ ProducedLocally(s)
        /\ \A c \in Copied(s) : \E n \in Completions(s, c[1], c[2]) : Follows(s, anc, c[1], c[2], n)

MayRefuse(s) ==
    LET anc == Ancestors(s)
    IN  \/ ~(WellFormed(s, anc) /\ ProducedLocally(s))
        \/ \E c \in Copied(s) : \E n \in Completions(s, c[1], c[2]) :
              ~Follows(s, anc, c[1], c[2], n)

Verdicts(s, ok) == SetIf(MayAccept(s), {ok}) \cup SetIf(MayRefuse(s), {"refused"})

(* The end of build_executable_schedule.                                   *)
Check ==
    /\ phase = "check"
    /\ sched' = WithLiveness(sched)
    /\ phase' \in Verdicts(sched', "built")
    /\ UNCHANGED <<prog, at, plan>>

BuildInit ==
    /\ prog \in Programs
    /\ phase = "emit" /\ at = 1 /\ sched = <<>>
    /\ plan = [out |-> <<>>, live |-> <<>>, spilled |-> {}, reload |-> {}]

Build == EmitRegion \/ EmitReleases \/ SpillOne \/ PlanCompute \/ PlanOther \/ PlanEnd \/ Check
=============================================================================
