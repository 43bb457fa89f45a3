---------------------------- MODULE MCScheduleRun ----------------------------
(***************************************************************************)
(* Small placed programs for ScheduleRun, on a host and two accelerators.  *)
(***************************************************************************)
EXTENDS ScheduleRun, TLC

CONSTANTS h, g, k              \* the host and two accelerators

MCHost == h
MCDevices == {g, k}
MCSize == [x |-> 1, a1 |-> 2, a2 |-> 1, a3 |-> 1, a4 |-> 1, w1 |-> 1, w2 |-> 2, w3 |-> 1]

Acts == <<"a1", "a2", "a3", "a4">>

Program(shape, devs, state, outs, streaming, prefetch, budget, vram) ==
    [regions |-> [i \in DOMAIN shape |-> [device |-> devs[i], inputs |-> shape[i],
                                          outs |-> {Acts[i]}, state |-> state[i]]],
     outputs |-> outs, streaming |-> streaming, prefetch |-> prefetch,
     budget |-> budget, vram |-> vram]

Shapes == {<<{"x"}, {"a1"}, {"a2"}>>,           \* chain
           <<{"x"}, {"a1"}, {"a1", "a2"}>>,     \* skip connection
           <<{"x"}, {"x"}, {"a1", "a2"}>>,      \* join of two branches
           <<{"x"}, {"a1"}, {"a1"}>>}           \* fork
Chains == {<<{"x"}, {"a1"}, {"a2"}, {"a1", "a3"}>>,
           <<{"x"}, {"a1"}, {"a1", "a2"}, {"a2", "a3"}>>,
           <<{"x"}, {"a1"}, {"a1", "a2"}, {"a1", "a3"}>>}

(* Parameters of their own, and tied ones.                                 *)
States == {<<{"w1"}, {"w2"}, {"w3"}>>, <<{"w1"}, {}, {"w2", "w3"}>>,
           <<{"w1"}, {"w2"}, {"w1"}>>, <<{}, {"w1"}, {"w1", "w2"}>>}

(* Region j reads, directly or through one more, what region i makes.      *)
Reads(p, i, j) == p.regions[i].outs \cap p.regions[j].inputs # {}
Feeds(p, i, j) ==
    \/ Reads(p, i, j)
    \/ \E m \in (i + 1)..(j - 1) : Reads(p, i, m) /\ Reads(p, m, j)

(* Parameters are tied only between regions on one device of which the     *)
(* later one reads from the earlier one.                                   *)
TiedInOrder(p) ==
    \A j \in DOMAIN p.regions : \A i \in 1..(j - 1) :
        p.regions[i].state \cap p.regions[j].state # {} =>
            Feeds(p, i, j) /\ p.regions[i].device = p.regions[j].device

Moving == {Program(shape, devs, state, {"a3"}, streaming, prefetch, -1, -1) :
              shape \in Shapes, devs \in [1..3 -> {h, g, k}], state \in States,
              streaming \in BOOLEAN, prefetch \in {0, 1}}
Hoisting == {Program(shape, devs, state, {"a3"}, FALSE, prefetch, -1, vram) :
              shape \in Shapes, devs \in [1..3 -> {h, g, k}], state \in States,
              prefetch \in {0, 1}, vram \in 3..4}
Spilling == {Program(shape, <<h, h, h, h>>, <<{"w1"}, {}, {"w2"}, {"w1"}>>, outs,
                     streaming, 0, budget, -1) :
              shape \in Chains, outs \in {{"a4"}, {"a2", "a4"}}, streaming \in BOOLEAN,
              budget \in 0..4}

MCPrograms == {p \in Moving \cup Hoisting : TiedInOrder(p)} \cup Spilling
=============================================================================
