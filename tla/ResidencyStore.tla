---------------------------- MODULE ResidencyStore ----------------------------
(***************************************************************************)
(* The authoritative residency store of one execution (crates/tt-memory):  *)
(* an AllocationTable under one mutex, and per-tensor records of resident  *)
(* copies under another.  put, alias_same_allocation, replicate and        *)
(* release_copy cross both mutexes in several lock regions; each region is *)
(* one action here, and `op[th]` is the call thread th is in the middle    *)
(* of.  A call that returns an error before changing anything is the       *)
(* absence of a step.                                                      *)
(***************************************************************************)
EXTENDS Integers, FiniteSets

CONSTANTS Tensors, Resources, Allocs, Threads,
          Capacities,    \* allocation sizes, storage_nbytes.max(nbytes).max(1)
          Limit,         \* capacity_limits: a function on some of Resources
          None,          \* no allocation, resource or tensor
          MaxVersion,    \* bound on a tensor's logical version
          MaxLeases      \* bound on the leases of one copy

ASSUME SizesArePositive == Capacities \subseteq Nat \ {0}
ASSUME LimitsAreNat ==
    /\ DOMAIN Limit \subseteq Resources
    /\ \A r \in DOMAIN Limit : Limit[r] \in Nat
ASSUME NoneIsNone == None \notin Allocs \cup Resources \cup Tensors
ASSUME FiniteUniverse ==
    IsFiniteSet(Tensors) /\ IsFiniteSet(Resources) /\ IsFiniteSet(Threads)
ASSUME BoundsAreNat == MaxVersion \in Nat /\ MaxLeases \in Nat

VARIABLES
    allocs,             \* id -> PhysicalAllocation; reference_count 0 = absent
    live_bytes,
    peak_bytes,
    live_by_resource,
    version,            \* LogicalTensorRecord.version; 0 = no record
    meta_capacity,      \* the capacity the record's metadata implies
    copies,             \* <<tensor, resource>> -> ResidentCopy
    op                  \* thread -> the call it is executing

vars == <<allocs, live_bytes, peak_bytes, live_by_resource, version,
          meta_capacity, copies, op>>
tableVars == <<allocs, live_bytes, peak_bytes, live_by_resource>>
recordVars == <<version, meta_capacity, copies>>

Places == Tensors \X Resources

PhysicalAllocation ==
    [resource : Resources \cup {None}, capacity_bytes : Nat,
     reference_count : Nat]

NoAllocation == [resource |-> None, capacity_bytes |-> 0, reference_count |-> 0]

ResidentCopy ==
    [allocation : Allocs \cup {None}, version : Nat, active_leases : Nat,
     valid : BOOLEAN, authoritative : BOOLEAN]

NoCopy == [allocation |-> None, version |-> 0, active_leases |-> 0,
           valid |-> FALSE, authoritative |-> FALSE]

\* The calls that own a reference on their allocation that no copy holds yet
\* (or, for "release", no longer holds).
Owing == {"put_commit", "alias_commit", "replicate_commit", "release"}

\* A call between two lock regions: pc names the next one.
Call ==
    [pc : Owing \cup {"alias_capacity", "alias_register", "replicate_register"},
     tensor : Tensors, src : Resources, dst : Resources,
     allocation : Allocs, version : Nat, capacity : Nat]

NoCall == [pc |-> "idle", tensor |-> None, src |-> None, dst |-> None,
           allocation |-> None, version |-> 0, capacity |-> 0]

Init ==
    /\ allocs = [a \in Allocs |-> NoAllocation]
    /\ live_bytes = 0
    /\ peak_bytes = 0
    /\ live_by_resource = [r \in Resources |-> 0]
    /\ version = [t \in Tensors |-> 0]
    /\ meta_capacity = [t \in Tensors |-> 0]
    /\ copies = [p \in Places |-> NoCopy]
    /\ op = [th \in Threads |-> NoCall]

-----------------------------------------------------------------------------
(***************************************************************************)
(* AllocationTable.                                                        *)
(***************************************************************************)

Present(a) == allocs[a].reference_count > 0

\* Mutant: the ceiling is compared with the bytes already there.
RegisterOkBeforeAdding(a, r, cap) ==
    IF Present(a) THEN allocs[a].capacity_bytes = cap
    ELSE r \in DOMAIN Limit => live_by_resource[r] < Limit[r]

\* register refuses a known id with other metadata, and a new id whose bytes
\* would pass the resource's ceiling.
RegisterOk(a, r, cap) ==
    IF Present(a) THEN allocs[a].capacity_bytes = cap
    ELSE r \in DOMAIN Limit => live_by_resource[r] + cap <= Limit[r]

\* register: a known id gains a reference, whatever resource it is asked for;
\* a new one is charged to r.
Register(a, r, cap) ==
    /\ RegisterOk(a, r, cap)
    /\ IF Present(a)
         THEN /\ allocs' = [allocs EXCEPT ![a].reference_count = @ + 1]
              /\ UNCHANGED <<live_bytes, peak_bytes, live_by_resource>>
         ELSE /\ allocs' = [allocs EXCEPT ![a] =
                    [resource |-> r, capacity_bytes |-> cap, reference_count |-> 1]]
              /\ live_bytes' = live_bytes + cap
              /\ peak_bytes' = IF live_bytes + cap > peak_bytes
                                 THEN live_bytes + cap ELSE peak_bytes
              /\ live_by_resource' = [live_by_resource EXCEPT ![r] = @ + cap]

SaturatingSub(x, y) == IF x > y THEN x - y ELSE 0

\* Mutant: the per-resource total is not reduced.
ReleaseTotalOnly(a) ==
    /\ IF allocs[a].reference_count > 1
         THEN /\ allocs' = [allocs EXCEPT ![a].reference_count = @ - 1]
              /\ UNCHANGED live_bytes
         ELSE IF Present(a)
         THEN /\ allocs' = [allocs EXCEPT ![a] = NoAllocation]
              /\ live_bytes' = SaturatingSub(live_bytes, allocs[a].capacity_bytes)
         ELSE UNCHANGED <<allocs, live_bytes>>
    /\ UNCHANGED <<peak_bytes, live_by_resource>>

\* release: the last reference frees the bytes.  Releasing an absent id is an
\* error that the callers in ResidencyStore discard.
Release(a) ==
    /\ IF allocs[a].reference_count > 1
         THEN /\ allocs' = [allocs EXCEPT ![a].reference_count = @ - 1]
              /\ UNCHANGED <<live_bytes, live_by_resource>>
         ELSE IF Present(a)
         THEN LET freed == allocs[a].capacity_bytes
              IN  /\ allocs' = [allocs EXCEPT ![a] = NoAllocation]
                  /\ live_bytes' = SaturatingSub(live_bytes, freed)
                  /\ live_by_resource' = [live_by_resource EXCEPT
                        ![allocs[a].resource] = SaturatingSub(@, freed)]
         ELSE UNCHANGED <<allocs, live_bytes, live_by_resource>>
    /\ UNCHANGED peak_bytes

\* Dropping the reference the replaced copy at p held, or the extra one when
\* the same allocation is published again.
ReleaseReplaced(p) ==
    IF copies[p].allocation = None THEN UNCHANGED tableVars
    ELSE Release(copies[p].allocation)

-----------------------------------------------------------------------------
(***************************************************************************)
(* ResidencyStore.                                                         *)
(***************************************************************************)

Idle(th) == op[th] = NoCall
Finish(th) == op' = [op EXCEPT ![th] = NoCall]
Goto(th, pc) == op' = [op EXCEPT ![th].pc = pc]

PendingPuts(t) ==
    Cardinality({th \in Threads : op[th].pc = "put_commit" /\ op[th].tensor = t})

\* put_opaque registers the allocation before it takes the record lock ...
PutRegister(th, t, r, a, cap) ==
    /\ Idle(th)
    /\ version[t] + PendingPuts(t) < MaxVersion
    /\ Register(a, r, cap)
    /\ op' = [op EXCEPT ![th] =
          [pc |-> "put_commit", tensor |-> t, src |-> r, dst |-> r,
           allocation |-> a, version |-> 0, capacity |-> cap]]
    /\ UNCHANGED recordVars

\* Mutant: the copies on other resources keep their authority.
PutCommitKeepsAuthority(th) ==
    LET o == op[th]
        p == <<o.tensor, o.dst>>
        v == version[o.tensor] + 1
    IN  /\ o.pc = "put_commit"
        /\ version' = [version EXCEPT ![o.tensor] = v]
        /\ meta_capacity' = [meta_capacity EXCEPT ![o.tensor] = o.capacity]
        /\ ReleaseReplaced(p)
        /\ copies' = [q \in Places |->
              IF q = p
                THEN [allocation |-> o.allocation, version |-> v,
                      active_leases |-> 0, valid |-> TRUE, authoritative |-> TRUE]
              ELSE IF q[1] = o.tensor THEN [copies[q] EXCEPT !.valid = FALSE]
              ELSE copies[q]]
        /\ Finish(th)

\* ... under which it bumps the version, invalidates the copies on other
\* resources, and replaces the one on its own.
PutCommit(th) ==
    LET o == op[th]
        p == <<o.tensor, o.dst>>
        v == version[o.tensor] + 1
    IN  /\ o.pc = "put_commit"
        /\ version' = [version EXCEPT ![o.tensor] = v]
        /\ meta_capacity' = [meta_capacity EXCEPT ![o.tensor] = o.capacity]
        /\ ReleaseReplaced(p)
        /\ copies' = [q \in Places |->
              IF q = p
                THEN [allocation |-> o.allocation, version |-> v,
                      active_leases |-> 0, valid |-> TRUE, authoritative |-> TRUE]
              ELSE IF q[1] = o.tensor
                THEN [copies[q] EXCEPT !.valid = FALSE, !.authoritative = FALSE]
              ELSE copies[q]]
        /\ Finish(th)

\* alias_same_allocation snapshots the valid source copy, looks up its
\* capacity, bumps its allocation, and re-validates before publishing.
AliasGet(th, t, src, dst) ==
    /\ Idle(th)
    /\ src # dst
    /\ copies[<<t, src>>].valid
    /\ op' = [op EXCEPT ![th] =
          [pc |-> "alias_capacity", tensor |-> t, src |-> src, dst |-> dst,
           allocation |-> copies[<<t, src>>].allocation,
           version |-> copies[<<t, src>>].version, capacity |-> 0]]
    /\ UNCHANGED <<tableVars, recordVars>>

AliasCapacity(th) ==
    /\ op[th].pc = "alias_capacity"
    /\ op' = [op EXCEPT
          ![th].pc = "alias_register",
          ![th].capacity = IF Present(op[th].allocation)
                             THEN allocs[op[th].allocation].capacity_bytes ELSE 1]
    /\ UNCHANGED <<tableVars, recordVars>>

AliasRegister(th) ==
    LET o == op[th]
    IN  /\ o.pc = "alias_register"
        /\ \/ Register(o.allocation, o.dst, o.capacity) /\ Goto(th, "alias_commit")
           \/ /\ ~RegisterOk(o.allocation, o.dst, o.capacity)
              /\ Finish(th)
              /\ UNCHANGED tableVars
        /\ UNCHANGED recordVars

SourceStillCurrent(o) ==
    LET c == copies[<<o.tensor, o.src>>]
    IN  c.valid /\ c.version = o.version /\ c.allocation = o.allocation

\* Publishing a copy of version o.version, as alias and replicate do.
PublishSecondary(o) ==
    LET p == <<o.tensor, o.dst>>
    IN  /\ ReleaseReplaced(p)
        /\ copies' = [copies EXCEPT ![p] =
              [allocation |-> o.allocation, version |-> o.version,
               active_leases |-> 0, valid |-> TRUE, authoritative |-> FALSE]]

AliasCommit(th) ==
    LET o == op[th]
    IN  /\ o.pc = "alias_commit"
        /\ IF version[o.tensor] = o.version /\ SourceStillCurrent(o)
             THEN PublishSecondary(o) /\ Finish(th)
             ELSE Goto(th, "release") /\ UNCHANGED <<tableVars, copies>>
        /\ UNCHANGED <<version, meta_capacity>>

\* replicate reads version and metadata, lets the lock go to register a new
\* allocation, and publishes only if the version has not moved.
ReplicateRead(th, t, r, a) ==
    /\ Idle(th)
    /\ version[t] > 0
    /\ op' = [op EXCEPT ![th] =
          [pc |-> "replicate_register", tensor |-> t, src |-> r, dst |-> r,
           allocation |-> a, version |-> version[t],
           capacity |-> meta_capacity[t]]]
    /\ UNCHANGED <<tableVars, recordVars>>

ReplicateRegister(th) ==
    LET o == op[th]
    IN  /\ o.pc = "replicate_register"
        /\ \/ /\ Register(o.allocation, o.dst, o.capacity)
              /\ Goto(th, "replicate_commit")
           \/ /\ ~RegisterOk(o.allocation, o.dst, o.capacity)
              /\ Finish(th)
              /\ UNCHANGED tableVars
        /\ UNCHANGED recordVars

\* Mutant: the version is not looked at again under the second lock.
ReplicateCommitUnchecked(th) ==
    /\ op[th].pc = "replicate_commit"
    /\ PublishSecondary(op[th])
    /\ Finish(th)
    /\ UNCHANGED <<version, meta_capacity>>

\* Mutant: a version mismatch returns without releasing the new reference.
ReplicateCommitLeaks(th) ==
    LET o == op[th]
    IN  /\ o.pc = "replicate_commit"
        /\ IF version[o.tensor] = o.version THEN PublishSecondary(o)
             ELSE UNCHANGED <<tableVars, copies>>
        /\ Finish(th)
        /\ UNCHANGED <<version, meta_capacity>>

ReplicateCommit(th) ==
    LET o == op[th]
    IN  /\ o.pc = "replicate_commit"
        /\ IF version[o.tensor] = o.version
             THEN PublishSecondary(o) /\ Finish(th)
             ELSE Goto(th, "release") /\ UNCHANGED <<tableVars, copies>>
        /\ UNCHANGED <<version, meta_capacity>>

\* release_copy takes the copy out under the record lock ...
ReleaseCopy(th, t, r) ==
    /\ Idle(th)
    /\ copies[<<t, r>>].allocation # None
    /\ copies[<<t, r>>].active_leases = 0
    /\ copies' = [copies EXCEPT ![<<t, r>>] = NoCopy]
    /\ op' = [op EXCEPT ![th] =
          [pc |-> "release", tensor |-> t, src |-> r, dst |-> r,
           allocation |-> copies[<<t, r>>].allocation, version |-> 0, capacity |-> 0]]
    /\ UNCHANGED <<tableVars, version, meta_capacity>>

\* ... and releases its allocation after letting it go, as the error paths of
\* alias and replicate release the reference they had taken.
ReleaseAllocation(th) ==
    /\ op[th].pc = "release"
    /\ Release(op[th].allocation)
    /\ Finish(th)
    /\ UNCHANGED recordVars

AcquireLease(t, r) ==
    /\ copies[<<t, r>>].valid
    /\ copies[<<t, r>>].active_leases < MaxLeases
    /\ copies' = [copies EXCEPT ![<<t, r>>].active_leases = @ + 1]
    /\ UNCHANGED <<tableVars, version, meta_capacity, op>>

ReleaseLease(t, r) ==
    /\ copies[<<t, r>>].allocation # None
    /\ copies[<<t, r>>].active_leases > 0
    /\ copies' = [copies EXCEPT ![<<t, r>>].active_leases = @ - 1]
    /\ UNCHANGED <<tableVars, version, meta_capacity, op>>

Next ==
    \/ \E th \in Threads :
          \/ \E t \in Tensors, r \in Resources, a \in Allocs, cap \in Capacities :
                PutRegister(th, t, r, a, cap)
          \/ PutCommit(th)
          \/ \E t \in Tensors, src, dst \in Resources : AliasGet(th, t, src, dst)
          \/ AliasCapacity(th)
          \/ AliasRegister(th)
          \/ AliasCommit(th)
          \/ \E t \in Tensors, r \in Resources, a \in Allocs :
                ReplicateRead(th, t, r, a)
          \/ ReplicateRegister(th)
          \/ ReplicateCommit(th)
          \/ \E t \in Tensors, r \in Resources : ReleaseCopy(th, t, r)
          \/ ReleaseAllocation(th)
    \/ \E t \in Tensors, r \in Resources : AcquireLease(t, r) \/ ReleaseLease(t, r)

Spec == Init /\ [][Next]_vars

-----------------------------------------------------------------------------
TypeOK ==
    /\ allocs \in [Allocs -> PhysicalAllocation]
    /\ live_bytes \in Nat
    /\ peak_bytes \in Nat
    /\ live_by_resource \in [Resources -> Nat]
    /\ version \in [Tensors -> Nat]
    /\ meta_capacity \in [Tensors -> Nat]
    /\ copies \in [Places -> ResidentCopy]
    /\ op \in [Threads -> Call \cup {NoCall}]

CopiesOf(a) == {p \in Places : copies[p].allocation = a}
CallsOwing(a) == {th \in Threads : op[th].pc \in Owing /\ op[th].allocation = a}

\* Reference counts are exact: an allocation has one reference for every copy
\* that names it and one for every call between its register and its publish
\* or release.  So no error path of put, alias, replicate or release_copy
\* leaks a reference or drops one twice, however the calls interleave.
RefCountsExact ==
    \A a \in Allocs : allocs[a].reference_count
                        = Cardinality(CopiesOf(a)) + Cardinality(CallsOwing(a))

\* A valid copy carries the tensor's current version: replicate and alias
\* never publish data read before a put that has since committed.
ValidCopiesCurrent ==
    \A p \in Places : copies[p].valid => copies[p].version = version[p[1]]

\* At most one copy of a tensor is authoritative, and it is valid.
OneAuthoritative ==
    \A p, q \in Places :
        /\ copies[p].authoritative => copies[p].valid
        /\ (copies[p].authoritative /\ copies[q].authoritative /\ p[1] = q[1])
              => p = q

\* A resource never holds more registered bytes than its ceiling.
CapacityRespected == \A r \in DOMAIN Limit : live_by_resource[r] <= Limit[r]

\* The n bytes of allocation a, those of the allocations in S, and the
\* allocations on resource r.
Block(a, n) == {a} \X (1 .. n)
BytesOf(table, S) == UNION {Block(a, table[a].capacity_bytes) : a \in S}
On(table, r) == {a \in Allocs : table[a].resource = r}

\* The totals are the bytes that are registered, in all and on each resource,
\* and the peak is at least that: no path counts an allocation twice, forgets
\* one or subtracts more than it had added (release saturates at zero).
CountersExact ==
    /\ live_bytes = Cardinality(BytesOf(allocs, Allocs))
    /\ \A r \in Resources : live_by_resource[r] = Cardinality(BytesOf(allocs, On(allocs, r)))
    /\ live_bytes <= peak_bytes
====
