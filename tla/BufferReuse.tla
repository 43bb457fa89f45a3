---------------------------- MODULE BufferReuse ----------------------------
(***************************************************************************)
(* Activation buffers shared by tensors whose live ranges do not overlap.  *)
(*                                                                         *)
(* At compile time ir/liveness.py derives a live range per activation from *)
(* the order of the instructions and runtime/buffer_reuse.py packs the     *)
(* activations into slots.  At run time every compute of a module with one *)
(* worker copies its output into the slot's buffer (ActivationAllocator),  *)
(* in whatever order the dispatcher picks among the ready regions.         *)
(*                                                                         *)
(* A region is its position in the program and produces one activation.    *)
(***************************************************************************)
EXTENDS Integers, Sequences, FiniteSets, SequencesExt, FiniteSetsExt

CONSTANTS
  Count,     \* number of regions
  Sizes      \* sizes of an activation

VARIABLES
  flow,      \* region -> regions it reads, fixed by Init
  bytes,     \* region -> size of its output
  ran,       \* regions executed, in order
  buffer,    \* slot -> activation its buffer holds
  damaged    \* activations overwritten before a reader of theirs ran

vars == <<flow, bytes, ran, buffer, damaged>>

Tensors == 1 .. Count
ConsumersOf(t) == {r \in Tensors : t \in flow[r]}
Output(t) == ConsumersOf(t) = {}

(* run_liveness_analysis: from the producer to the last reader; outputs    *)
(* stay live to the end.  A lowered program records no views, so every    *)
(* activation is an alias group of its own.                                *)
Interval(t) == <<t, IF Output(t) THEN Count ELSE Max(ConsumersOf(t))>>

(* Mutant: a range that ends where another starts does not overlap it. *)
TouchingIsApart(a, b) == ~(a[2] <= b[1] \/ b[2] <= a[1])

RangesOverlap(a, b) == ~(a[2] < b[1] \/ b[2] < a[1])

(* plan_buffer_reuse: largest first, into the first slot that is large     *)
(* enough and holds nothing live at the same time.  A slot is the sequence *)
(* of its tensors and as large as the first.                               *)
Candidates ==
  SetToSortSeq(Tensors, LAMBDA s, t : bytes[s] > bytes[t] \/ (bytes[s] = bytes[t] /\ s < t))

Admits(slot, t) ==
  /\ bytes[t] <= bytes[slot[1]]
  /\ \A i \in 1 .. Len(slot) : ~RangesOverlap(Interval(t), Interval(slot[i]))

Pack(slots, t) ==
  LET open == {i \in 1 .. Len(slots) : Admits(slots[i], t)}
  IN  IF open = {} THEN Append(slots, <<t>>)
      ELSE [slots EXCEPT ![Min(open)] = Append(@, t)]

ReusePlan == FoldLeft(Pack, <<>>, Candidates)
SlotOf(t) == CHOOSE i \in 1 .. Len(ReusePlan) : \E j \in 1 .. Len(ReusePlan[i]) : ReusePlan[i][j] = t

----------------------------------------------------------------------------
Done == Range(ran)

(* _exec_compute on a region whose dependencies are complete: read the     *)
(* inputs, then ActivationAllocator.acquire overwrites the slot.           *)
Run(r) ==
  /\ r \notin Done
  /\ flow[r] \subseteq Done
  /\ LET slot == SlotOf(r)
         old == buffer[slot]
     IN  /\ damaged' = IF old # 0 /\ (Output(old) \/ ~(ConsumersOf(old) \subseteq Done \cup {r}))
                       THEN damaged \cup {old} ELSE damaged
         /\ buffer' = [buffer EXCEPT ![slot] = r]
  /\ ran' = Append(ran, r)
  /\ UNCHANGED <<flow, bytes>>

Flows == {f \in [Tensors -> SUBSET (1 .. (Count - 1))] : \A r \in Tensors : f[r] \subseteq 1 .. (r - 1)}

Init ==
  /\ flow \in Flows
  /\ bytes \in [Tensors -> Sizes]
  /\ ran = <<>>
  /\ buffer = [s \in Tensors |-> 0]
  /\ damaged = {}

Next == \E r \in Tensors : Run(r)

Spec == Init /\ [][Next]_vars

----------------------------------------------------------------------------
(* "Buffer reuse from liveness must never overlap live activations", for a *)
(* forward whose regions run in program order: no output is copied over an *)
(* activation that a later region or the caller still reads.               *)
ReuseSafeInProgramOrder ==
  (\A i \in 1 .. Len(ran) : ran[i] = i) => damaged = {}

(* The same whatever ready region the dispatcher takes next. *)
NeverOverwritesLive == damaged = {}
=============================================================================
