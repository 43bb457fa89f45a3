---------------------------- MODULE TensorMirror ----------------------------
(***************************************************************************)
(* The Python values of one tensor during one forward, and the handles     *)
(* through which the Rust residency session refers to them.                *)
(*                                                                         *)
(* runtime/copies.py (CopyStore) keeps a value per resource label;         *)
(* runtime/handles.py (NativeResidencyBridge) mirrors each write into the  *)
(* session, giving it an opaque handle id, and keeps the values by handle. *)
(* runtime/execution_context.py pairs the two writes.  The session alone   *)
(* decides what is resident: a native Transfer or Release changes it       *)
(* first, and the callback of native_bridge/run.py follows on the same     *)
(* worker thread while other workers go on with other instructions.        *)
(*                                                                         *)
(* The session is reduced to the handle of each resident label.            *)
(***************************************************************************)
EXTENDS Naturals, FiniteSets, FiniteSetsExt

CONSTANTS
  HostName,   \* ctx.host_resource
  Synonyms,   \* "cpu" and "host", when the runtime host has another name
  Numa,       \* other host labels regions run on (_alias_target_resources)
  Staging,    \* pinned or NUMA label a streamed parameter is loaded to
  Devices,    \* accelerator labels
  Disk,       \* the label of a spilled activation
  MaxHandles, \* bound on handle ids
  None, NoHandle

Labels == {HostName, Staging, Disk} \cup Synonyms \cup Numa \cup Devices

VARIABLES
  role,    \* "input", "parameter", "streamed" or "activation"
  origin,  \* the label the tensor was first published on, or None
  ctx,     \* ExecutionContext: its copies and its bridge, below
  syncs,   \* transfers whose copy_sync callback has not run: <<src, dst>>
  drops,   \* releases whose handle_release callback has not run
  gone     \* labels the schedule has released

vars == <<role, origin, ctx, syncs, drops, gone>>

(* copies, the CopyStore: label -> [value, own], or None.                  *)
(* bridge: session, label -> handle, NoHandle or None; table, handle ->    *)
(* value; index, label -> handle; next, the next handle id.                *)

(* The value a transfer to label r makes: host labels share host storage. *)
Value(r) == IF r \in Devices THEN r ELSE "host"

Has(b, r) == b.session[r] # None
require_value(b, r) == b.table[b.session[r]]
Fresh(b, v) == [b EXCEPT !.table[b.next] = v, !.next = @ + 1]
InUse(index, h) == \E r \in Labels : index[r] = h

(* handles.drop of every listed handle that no index entry uses. *)
DropUnused(b, hs) ==
  [b EXCEPT !.table = [h \in DOMAIN @ |-> IF h \in hs /\ ~InUse(b.index, h) THEN None ELSE @[h]]]

(* _bind_dedicated_handle *)
_bind_dedicated_handle(b, r, v) ==
  LET c == [Fresh(b, v) EXCEPT !.session[r] = b.next, !.index[r] = b.next]
  IN  DropUnused(c, {b.session[r], b.index[r]})

(* A first copy that is authoritative makes the copies elsewhere stale.    *)
mirror_put(b, r, v, main) ==
  IF Has(b, r) THEN _bind_dedicated_handle(b, r, v)
  ELSE [Fresh(b, v) EXCEPT
          !.session = [x \in Labels |-> IF x = r THEN b.next ELSE IF main THEN None ELSE @[x]],
          !.index[r] = b.next]

mirror_alias(b, s, d) ==
  IF s = d \/ Has(b, d) THEN b
  ELSE [b EXCEPT !.session[d] = b.session[s],
                 !.index[d] = IF b.index[s] # None THEN b.index[s] ELSE @]

(* Mutant: the handle goes with the first label that lets go of it. *)
DropAlways(b, r) ==
  LET h == b.index[r]
  IN  [b EXCEPT !.index[r] = None, !.table = [k \in DOMAIN @ |-> IF k = h THEN None ELSE @[k]]]

(* Mutant: only the index forgets the handle.                              *)
ForgetIndex(b, r) == [b EXCEPT !.index[r] = None]

drop_python_only(b, r) == DropUnused([b EXCEPT !.index[r] = None], {b.index[r]})

_alias_host_compute_resources(b, s, D) == FoldSet(LAMBDA d, acc : mirror_alias(acc, s, d), b, D)

----------------------------------------------------------------------------
(* CopyStore *)
_install(c, r, v, own) == [c EXCEPT ![r] = [value |-> v, own |-> own]]
put(c, r, v, own) == _install(c, r, v, own)
replicate(c, r, v, own) == _install(c, r, v, own)
alias(c, s, d) == _install(c, d, c[s].value, c[s].own)
replace_handle(c, r, v) == _install(c, r, v, c[r].own)
drop(c, r) == [c EXCEPT ![r] = None]

(* Distinct storages of copies that belong to activations, one byte each.  *)
activation_live_bytes(c) ==
  Cardinality({c[r].value : r \in {x \in Labels \ {Disk} : c[x] # None /\ c[x].own = "activation"}})

(* ExecutionContext: every write goes to the value bag, then the mirror.   *)
publish_tensor(x, r, v, own) ==
  [copies |-> put(x.copies, r, v, own), bridge |-> mirror_put(x.bridge, r, v, TRUE)]
publish_replica(x, r, v, own) ==
  [copies |-> replicate(x.copies, r, v, own), bridge |-> mirror_put(x.bridge, r, v, FALSE)]
republish_value(x, r, v) ==
  [copies |-> replace_handle(x.copies, r, v), bridge |-> mirror_put(x.bridge, r, v, FALSE)]
alias_copy(x, s, d) ==
  [copies |-> alias(x.copies, s, d), bridge |-> mirror_alias(x.bridge, s, d)]
drop_copy(x, r) ==
  [copies |-> drop(x.copies, r), bridge |-> drop_python_only(x.bridge, r)]

AliasAll(x, s, D) == [x EXCEPT !.bridge = _alias_host_compute_resources(@, s, D)]
Resident(r) == Has(ctx.bridge, r)
InBag(r) == ctx.copies[r] # None
Room == ctx.bridge.next + 1 < MaxHandles

----------------------------------------------------------------------------
(* run_schedule_native publishes a caller's tensor on the device that will *)
(* read it when it is there already, else on the host and its other names. *)
RegisterInput(r) ==
  /\ role = "input" /\ origin = None
  /\ origin' = r
  /\ ctx' = LET x == publish_tensor(ctx, r, Value(r), "input")
            IN IF r = HostName
               THEN AliasAll(FoldSet(LAMBDA d, acc : alias_copy(acc, r, d), x, Synonyms), r, Numa)
               ELSE x
  /\ UNCHANGED <<role, syncs, drops, gone>>

(* _register_persistent_residency: a hoisted weight is published on its    *)
(* device only, any other on the host.                                     *)
RegisterResident(r) ==
  /\ role = "parameter" /\ origin = None
  /\ origin' = r
  /\ ctx' = LET x == publish_tensor(ctx, r, Value(r), "parameter")
            IN IF r = HostName THEN AliasAll(x, r, Numa) ELSE x
  /\ UNCHANGED <<role, syncs, drops, gone>>

(* parameter_load_cb: the Load's destination, then the runtime host label. *)
LoadParameter(dest) ==
  /\ role = "streamed" /\ origin = None
  /\ origin' = dest
  /\ ctx' = LET x == publish_tensor(ctx, dest, "host", "parameter")
            IN AliasAll(IF dest = HostName THEN x ELSE alias_copy(x, dest, HostName), dest, Numa)
  /\ UNCHANGED <<role, syncs, drops, gone>>

(* _exec_compute publishes a region's output where the region ran.         *)
Produce(r) ==
  /\ role = "activation" /\ origin = None
  /\ origin' = r
  /\ ctx' = publish_tensor(ctx, r, Value(r), "activation")
  /\ UNCHANGED <<role, syncs, drops, gone>>

(* Native Transfer: the destination becomes resident without a handle.     *)
Transfer(s, d) ==
  /\ d \in Devices \cup {HostName} \cup Numa
  /\ Resident(s) /\ s # Disk /\ ~Resident(d) /\ gone \cap {s, d} = {}
  /\ ctx' = [ctx EXCEPT !.bridge.session[d] = NoHandle]
  /\ syncs' = syncs \cup {<<s, d>>}
  /\ UNCHANGED <<role, origin, drops, gone>>

(* Who a transferred copy belongs to: its source, or any activation.       *)
OwnerOf(s) ==
  IF InBag(s) THEN ctx.copies[s].own
  ELSE IF \E r \in Labels : InBag(r) /\ ctx.copies[r].own = "activation" THEN "activation"
  ELSE "transfer"

(* Mutant: a transferred copy belongs to its transfer.                     *)
CopySyncAnonymous(s, d) ==
  /\ <<s, d>> \in syncs /\ Room
  /\ syncs' = syncs \ {<<s, d>>}
  /\ ctx' = IF InBag(d) \/ ~(InBag(s) \/ Resident(s)) THEN ctx
            ELSE publish_replica(ctx, d, Value(d), "transfer")
  /\ UNCHANGED <<role, origin, drops, gone>>

(* copy_sync_cb: the value of the source, moved and published as a replica *)
(* unless a region has published it in the meantime.                       *)
CopySync(s, d) ==
  /\ <<s, d>> \in syncs /\ Room
  /\ syncs' = syncs \ {<<s, d>>}
  /\ ctx' = IF InBag(d) \/ ~(InBag(s) \/ Resident(s)) THEN ctx
            ELSE publish_replica(ctx, d, Value(d), OwnerOf(s))
  /\ UNCHANGED <<role, origin, drops, gone>>

(* _exec_compute reads its input on the label it runs on; a label that is  *)
(* resident but not in the value bag is published from its handle.         *)
Compute(r) ==
  LET v == require_value(ctx.bridge, r)
  IN /\ Resident(r) /\ ctx.bridge.session[r] # NoHandle /\ r \notin gone /\ ~InBag(r)
     /\ Room
     /\ ctx' = IF InBag(HostName) THEN publish_replica(ctx, r, v, "transfer")
               ELSE publish_tensor(ctx, r, v, "transfer")
     /\ UNCHANGED <<role, origin, syncs, drops, gone>>

(* Evict and Release wait for the transfers that use the label.  The       *)
(* session lets go first, of the disk copy when only that one is left.     *)
ReleaseNative(r) ==
  LET target == IF ~Resident(r) /\ Resident(Disk) THEN Disk ELSE r
  IN /\ origin # None /\ r \in ({origin} \cup Devices) \ gone
     /\ Resident(target)
     /\ \A x \in syncs : r \notin {x[1], x[2]}
     /\ ctx' = [ctx EXCEPT !.bridge.session[target] = None]
     /\ gone' = gone \cup {r}
     /\ drops' = drops \cup {r}
     /\ UNCHANGED <<role, origin, syncs>>

(* handle_release_cb *)
HandleRelease(r) ==
  /\ r \in drops
  /\ drops' = drops \ {r}
  /\ ctx' = drop_copy(ctx, r)
  /\ UNCHANGED <<role, origin, syncs, gone>>

(* dematerialize_cb: an activation on the host is written out and its      *)
(* handle dropped; the session then knows it on disk, without a handle,    *)
(* and every other copy is stale.                                          *)
Spill ==
  /\ role = "activation" /\ origin = HostName
  /\ Resident(HostName) /\ HostName \notin gone /\ syncs = {}
  /\ ctx' = [drop_copy(ctx, HostName) EXCEPT
              !.bridge.session = [r \in Labels |-> IF r = Disk THEN NoHandle ELSE None]]
  /\ UNCHANGED <<role, origin, syncs, drops, gone>>

(* materialize_cb *)
Reload ==
  /\ Resident(Disk) /\ ~Resident(HostName) /\ HostName \notin gone
  /\ Room
  /\ ctx' = IF InBag(HostName) THEN republish_value(ctx, HostName, "host")
            ELSE publish_replica(ctx, HostName, "host", "activation")
  /\ UNCHANGED <<role, origin, syncs, drops, gone>>

Init ==
  /\ role \in {"input", "parameter", "streamed", "activation"}
  /\ origin = None
  /\ ctx = [copies |-> [r \in Labels |-> None],
            bridge |-> [session |-> [r \in Labels |-> None], table |-> [h \in 1..MaxHandles |-> None],
                        index |-> [r \in Labels |-> None], next |-> 1]]
  /\ syncs = {} /\ drops = {} /\ gone = {}

Next ==
  \/ \E r \in Devices \cup {HostName} : RegisterInput(r) \/ RegisterResident(r) \/ Produce(r)
  \/ LoadParameter(Staging) \/ LoadParameter(HostName)
  \/ \E s, d \in Labels : Transfer(s, d) \/ CopySync(s, d)
  \/ \E r \in Labels : Compute(r) \/ ReleaseNative(r) \/ HandleRelease(r)
  \/ Spill \/ Reload

Spec == Init /\ [][Next]_vars

----------------------------------------------------------------------------
(* A handle the session holds names a live value, whatever other labels    *)
(* share it or have let go of it, and it is the value the bag has for that *)
(* label.                                                                  *)
HandlesResolve ==
  LET b == ctx.bridge
  IN \A r \in Labels : Resident(r) /\ b.session[r] # NoHandle =>
       /\ b.table[b.session[r]] # None
       /\ InBag(r) => ctx.copies[r].value = b.table[b.session[r]]

(* A replica that outlives its Evict is device memory nobody can free: a   *)
(* value stays in the handle table only while a label refers to it that    *)
(* the schedule has not released or whose callback is still to run.        *)
NoOrphanValue ==
  \A h \in 1..MaxHandles : ctx.bridge.table[h] # None =>
    \E r \in Labels : ctx.bridge.index[r] = h /\ (r \notin gone \/ r \in drops)

(* The activation budget is enforced on activation_live_bytes: of an       *)
(* activation, it counts every storage the handle table keeps alive, and   *)
(* each once.                                                              *)
ActivationBytesExact ==
  LET held == {ctx.bridge.table[h] : h \in 1..MaxHandles} \ {None}
  IN role = "activation" => activation_live_bytes(ctx.copies) = Cardinality(held)
=============================================================================
