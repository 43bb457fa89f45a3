------------------------- MODULE ResidencyStoreProofs -------------------------
(***************************************************************************)
(* The invariants of ResidencyStore, for any number of tensors, resources, *)
(* allocation ids and threads.                                             *)
(***************************************************************************)
EXTENDS ResidencyStore, FiniteSetTheorems, TLAPS

(* The provers a leaf is tried with, unless it names its own.              *)
USE SMT, Zenon, SMTT(30)

\* What the other invariants need of the copies: a valid one has an
\* allocation, and none is newer than its tensor's record.
CopiesWellFormed ==
    \A p \in Places : /\ copies[p].valid => copies[p].allocation \in Allocs
                      /\ copies[p].version <= version[p[1]]

\* The invariant the induction goes through with.
IInv == /\ TypeOK
        /\ CopiesWellFormed
        /\ RefCountsExact
        /\ ValidCopiesCurrent
        /\ OneAuthoritative
        /\ CapacityRespected

USE SizesArePositive, LimitsAreNat, NoneIsNone, BoundsAreNat

-----------------------------------------------------------------------------
(* Types. *)

LEMMA RegisterType ==
    ASSUME TypeOK, NEW a \in Allocs, NEW r \in Resources, NEW cap \in Nat,
           Register(a, r, cap)
    PROVE  /\ allocs' \in [Allocs -> PhysicalAllocation]
           /\ live_bytes' \in Nat
           /\ peak_bytes' \in Nat
           /\ live_by_resource' \in [Resources -> Nat]
  BY DEF TypeOK, Register, PhysicalAllocation

LEMMA ReleaseType ==
    ASSUME TypeOK, NEW a \in Allocs, Release(a)
    PROVE  /\ allocs' \in [Allocs -> PhysicalAllocation]
           /\ live_bytes' \in Nat
           /\ peak_bytes' \in Nat
           /\ live_by_resource' \in [Resources -> Nat]
  <1>1. NoAllocation \in PhysicalAllocation
    BY DEF NoAllocation, PhysicalAllocation
  <1>2. CASE allocs[a].reference_count > 1
    BY <1>2 DEF TypeOK, Release, PhysicalAllocation
  <1>3. CASE ~(allocs[a].reference_count > 1) /\ Present(a)
    <2> DEFINE freed == allocs[a].capacity_bytes
    <2>1. freed \in Nat
      BY DEF TypeOK, PhysicalAllocation
    <2>2. \A x \in Nat : SaturatingSub(x, freed) \in Nat
      BY <2>1 DEF SaturatingSub
    <2>3. /\ allocs' = [allocs EXCEPT ![a] = NoAllocation]
          /\ live_bytes' = SaturatingSub(live_bytes, freed)
          /\ live_by_resource' = [live_by_resource EXCEPT
                ![allocs[a].resource] = SaturatingSub(@, freed)]
          /\ peak_bytes' = peak_bytes
      BY <1>3 DEF Release
    <2>4. QED
      BY Zenon, <1>1, <2>2, <2>3 DEF TypeOK
  <1>4. CASE ~(allocs[a].reference_count > 1) /\ ~Present(a)
    BY <1>4 DEF TypeOK, Release, PhysicalAllocation
  <1>5. QED
    BY <1>2, <1>3, <1>4

LEMMA ReleaseReplacedType ==
    ASSUME TypeOK, NEW p \in Places, ReleaseReplaced(p)
    PROVE  /\ allocs' \in [Allocs -> PhysicalAllocation]
           /\ live_bytes' \in Nat
           /\ peak_bytes' \in Nat
           /\ live_by_resource' \in [Resources -> Nat]
  <1>1. CASE copies[p].allocation = None
    BY <1>1 DEF ReleaseReplaced, TypeOK, tableVars
  <1>2. CASE copies[p].allocation # None
    <2>1. copies[p].allocation \in Allocs
      BY <1>2 DEF TypeOK, ResidentCopy
    <2>2. Release(copies[p].allocation)
      BY <1>2 DEF ReleaseReplaced
    <2>3. QED
      BY <2>1, <2>2, ReleaseType
  <1>3. QED
    BY <1>1, <1>2

LEMMA FieldTypes ==
    ASSUME TypeOK
    PROVE  /\ \A th \in Threads : op[th].pc # "idle" =>
                /\ op[th] \in Call
                /\ op[th].pc \in Owing \cup
                      {"alias_capacity", "alias_register", "replicate_register"}
                /\ op[th].tensor \in Tensors
                /\ op[th].src \in Resources
                /\ op[th].dst \in Resources
                /\ op[th].allocation \in Allocs
                /\ op[th].version \in Nat
                /\ op[th].capacity \in Nat
                /\ <<op[th].tensor, op[th].dst>> \in Places
                /\ <<op[th].tensor, op[th].src>> \in Places
           /\ \A p \in Places :
                /\ p[1] \in Tensors
                /\ p[2] \in Resources
                /\ p = <<p[1], p[2]>>
                /\ copies[p].allocation \in Allocs \cup {None}
                /\ copies[p].version \in Nat
                /\ copies[p].active_leases \in Nat
                /\ copies[p].valid \in BOOLEAN
                /\ copies[p].authoritative \in BOOLEAN
           /\ \A a \in Allocs :
                /\ allocs[a].reference_count \in Nat
                /\ allocs[a].capacity_bytes \in Nat
  <1>1. \A th \in Threads : op[th].pc # "idle" => op[th] \in Call
    BY DEF TypeOK, NoCall
  <1>2. \A o \in Call : /\ o.pc \in Owing \cup
                             {"alias_capacity", "alias_register", "replicate_register"}
                        /\ o.tensor \in Tensors
                        /\ o.src \in Resources
                        /\ o.dst \in Resources
                        /\ o.allocation \in Allocs
                        /\ o.version \in Nat
                        /\ o.capacity \in Nat
                        /\ <<o.tensor, o.dst>> \in Places
                        /\ <<o.tensor, o.src>> \in Places
    BY DEF Call, Places
  <1>3. \A p \in Places : /\ p[1] \in Tensors
                          /\ p[2] \in Resources
                          /\ p = <<p[1], p[2]>>
    BY DEF Places
  <1>4. \A p \in Places : copies[p] \in ResidentCopy
    BY DEF TypeOK
  <1>5. \A p \in Places : /\ copies[p].allocation \in Allocs \cup {None}
                          /\ copies[p].version \in Nat
                          /\ copies[p].active_leases \in Nat
                          /\ copies[p].valid \in BOOLEAN
                          /\ copies[p].authoritative \in BOOLEAN
    BY <1>4 DEF ResidentCopy
  <1>6. \A a \in Allocs : /\ allocs[a].reference_count \in Nat
                          /\ allocs[a].capacity_bytes \in Nat
    BY DEF TypeOK, PhysicalAllocation
  <1>7. QED
    BY <1>1, <1>2, <1>3, <1>5, <1>6

-----------------------------------------------------------------------------
(* Reference counts. *)

LEMMA RegisterCounts ==
    ASSUME TypeOK, NEW a \in Allocs, NEW r \in Resources, NEW cap \in Nat,
           Register(a, r, cap)
    PROVE  \A b \in Allocs : allocs'[b].reference_count =
              IF b = a THEN allocs[b].reference_count + 1
              ELSE allocs[b].reference_count
  <1>1. CASE Present(a)
    BY <1>1 DEF TypeOK, Register, PhysicalAllocation
  <1>2. CASE ~Present(a)
    <2>1. allocs[a].reference_count = 0
      BY <1>2, FieldTypes DEF Present
    <2>2. QED
      BY <1>2, <2>1 DEF TypeOK, Register
  <1>3. QED
    BY <1>1, <1>2

LEMMA ReleaseCounts ==
    ASSUME TypeOK, NEW a \in Allocs, Present(a), Release(a)
    PROVE  \A b \in Allocs : allocs'[b].reference_count =
              IF b = a THEN allocs[b].reference_count - 1
              ELSE allocs[b].reference_count
  <1>1. CASE allocs[a].reference_count > 1
    BY <1>1 DEF TypeOK, Release, PhysicalAllocation
  <1>2. CASE ~(allocs[a].reference_count > 1)
    <2>1. allocs[a].reference_count = 1
      BY <1>2, FieldTypes DEF Present
    <2>2. allocs' = [allocs EXCEPT ![a] = NoAllocation]
      BY <1>2 DEF Release
    <2>3. QED
      BY <2>1, <2>2 DEF TypeOK, NoAllocation
  <1>3. QED
    BY <1>1, <1>2

LEMMA CardAdd ==
    ASSUME NEW S, IsFiniteSet(S), NEW x, x \notin S
    PROVE  Cardinality(S \cup {x}) = Cardinality(S) + 1
  BY Zenon, FS_AddElement

LEMMA CardRemove ==
    ASSUME NEW S, IsFiniteSet(S), NEW x, x \in S
    PROVE  Cardinality(S \ {x}) = Cardinality(S) - 1
  BY Zenon, FS_RemoveElement

LEMMA HoldersFinite ==
    ASSUME NEW a
    PROVE  /\ IsFiniteSet(CopiesOf(a))
           /\ IsFiniteSet(CallsOwing(a))
           /\ Cardinality(CopiesOf(a)) \in Nat
           /\ Cardinality(CallsOwing(a)) \in Nat
  <1>1. IsFiniteSet(Places)
    BY FiniteUniverse, FS_Product DEF Places
  <1>2. CopiesOf(a) \subseteq Places /\ CallsOwing(a) \subseteq Threads
    BY DEF CopiesOf, CallsOwing
  <1>3. IsFiniteSet(CopiesOf(a)) /\ IsFiniteSet(CallsOwing(a))
    BY <1>1, <1>2, FiniteUniverse, FS_Subset
  <1>4. QED
    BY <1>3, FS_CardinalityType

\* An allocation that a copy or a call holds is present.
LEMMA HeldIsPresent ==
    ASSUME TypeOK, RefCountsExact, NEW a \in Allocs,
           CopiesOf(a) # {} \/ CallsOwing(a) # {}
    PROVE  Present(a)
  <1>1. Cardinality(CopiesOf(a)) > 0 \/ Cardinality(CallsOwing(a)) > 0
    BY HoldersFinite, FS_EmptySet
  <1>2. QED
    BY <1>1, HoldersFinite DEF RefCountsExact, Present

\* A step that moves no reference keeps the counts.
LEMMA SameHoldersKeepCounts ==
    ASSUME RefCountsExact, UNCHANGED allocs,
           \A p \in Places : copies'[p].allocation = copies[p].allocation,
           \A th \in Threads : (op'[th].pc \in Owing) <=> (op[th].pc \in Owing),
           \A th \in Threads : op[th].pc \in Owing
                                 => op'[th].allocation = op[th].allocation
    PROVE  RefCountsExact'
  <1>1. \A a : CopiesOf(a)' = CopiesOf(a) /\ CallsOwing(a)' = CallsOwing(a)
    BY DEF CopiesOf, CallsOwing
  <1>2. QED
    BY <1>1 DEF RefCountsExact

\* A call that registers a comes to owe one reference on it.
LEMMA RegisterKeepsCounts ==
    ASSUME TypeOK, RefCountsExact, NEW th \in Threads, NEW a \in Allocs,
           NEW r \in Resources, NEW cap \in Nat, Register(a, r, cap),
           UNCHANGED copies,
           op[th].pc \notin Owing, op'[th].pc \in Owing, op'[th].allocation = a,
           \A u \in Threads \ {th} : op'[u] = op[u]
    PROVE  RefCountsExact'
  <1> SUFFICES ASSUME NEW b \in Allocs
               PROVE  allocs'[b].reference_count
                      = Cardinality(CopiesOf(b)') + Cardinality(CallsOwing(b)')
    BY DEF RefCountsExact
  <1>1. CopiesOf(b)' = CopiesOf(b)
    BY DEF CopiesOf
  <1>2. CASE b = a
    <2>1. th \notin CallsOwing(b) /\ CallsOwing(b)' = CallsOwing(b) \cup {th}
      BY <1>2 DEF CallsOwing
    <2>2. Cardinality(CallsOwing(b)') = Cardinality(CallsOwing(b)) + 1
      BY <2>1, HoldersFinite, CardAdd
    <2>3. QED
      BY <1>1, <1>2, <2>2, RegisterCounts, HoldersFinite DEF RefCountsExact
  <1>3. CASE b # a
    <2>1. CallsOwing(b)' = CallsOwing(b)
      BY <1>3 DEF CallsOwing
    <2>2. QED
      BY <1>1, <1>3, <2>1, RegisterCounts DEF RefCountsExact
  <1>4. QED
    BY <1>2, <1>3

\* A call that releases what it owes.
LEMMA ReleaseKeepsCounts ==
    ASSUME TypeOK, RefCountsExact, NEW th \in Threads, op[th].pc \in Owing,
           op[th].allocation \in Allocs, Release(op[th].allocation),
           UNCHANGED copies, op'[th].pc \notin Owing,
           \A u \in Threads \ {th} : op'[u] = op[u]
    PROVE  RefCountsExact'
  <1> DEFINE a == op[th].allocation
  <1> SUFFICES ASSUME NEW b \in Allocs
               PROVE  allocs'[b].reference_count
                      = Cardinality(CopiesOf(b)') + Cardinality(CallsOwing(b)')
    BY DEF RefCountsExact
  <1>1. CopiesOf(b)' = CopiesOf(b)
    BY DEF CopiesOf
  <1>2. th \in CallsOwing(a)
    BY DEF CallsOwing
  <1>3. Present(a)
    BY <1>2, HeldIsPresent
  <1>4. CASE b = a
    <2>1. CallsOwing(b)' = CallsOwing(b) \ {th}
      BY <1>4 DEF CallsOwing
    <2>2. Cardinality(CallsOwing(b)') = Cardinality(CallsOwing(b)) - 1
      BY <1>2, <1>4, <2>1, HoldersFinite, CardRemove
    <2>3. QED
      BY <1>1, <1>3, <1>4, <2>2, ReleaseCounts, HoldersFinite DEF RefCountsExact
  <1>5. CASE b # a
    <2>1. CallsOwing(b)' = CallsOwing(b)
      BY <1>5 DEF CallsOwing
    <2>2. QED
      BY <1>1, <1>3, <1>5, <2>1, ReleaseCounts DEF RefCountsExact
  <1>6. QED
    BY <1>4, <1>5

\* A copy taken out hands its reference to the call that took it.
LEMMA TakeOutKeepsCounts ==
    ASSUME TypeOK, RefCountsExact, NEW th \in Threads, NEW p \in Places,
           copies[p].allocation # None, UNCHANGED allocs,
           copies'[p].allocation = None,
           \A q \in Places \ {p} : copies'[q] = copies[q],
           op[th].pc \notin Owing, op'[th].pc \in Owing,
           op'[th].allocation = copies[p].allocation,
           \A u \in Threads \ {th} : op'[u] = op[u]
    PROVE  RefCountsExact'
  <1> DEFINE a == copies[p].allocation
  <1> SUFFICES ASSUME NEW b \in Allocs
               PROVE  allocs[b].reference_count
                      = Cardinality(CopiesOf(b)') + Cardinality(CallsOwing(b)')
    BY DEF RefCountsExact
  <1>1. CASE b = a
    <2>1. p \in CopiesOf(b) /\ CopiesOf(b)' = CopiesOf(b) \ {p}
      BY <1>1 DEF CopiesOf
    <2>2. th \notin CallsOwing(b) /\ CallsOwing(b)' = CallsOwing(b) \cup {th}
      BY <1>1 DEF CallsOwing
    <2>3. Cardinality(CopiesOf(b)') = Cardinality(CopiesOf(b)) - 1
      BY <2>1, HoldersFinite, CardRemove
    <2>4. Cardinality(CallsOwing(b)') = Cardinality(CallsOwing(b)) + 1
      BY <2>2, HoldersFinite, CardAdd
    <2>5. QED
      BY <2>3, <2>4, HoldersFinite DEF RefCountsExact
  <1>2. CASE b # a
    <2>1. CopiesOf(b)' = CopiesOf(b)
      BY <1>2 DEF CopiesOf
    <2>2. CallsOwing(b)' = CallsOwing(b)
      BY <1>2 DEF CallsOwing
    <2>3. QED
      BY <2>1, <2>2 DEF RefCountsExact
  <1>3. QED
    BY <1>1, <1>2

\* A published copy takes over the call's reference, and the reference of the
\* copy it replaces is dropped.
LEMMA PublishKeepsCounts ==
    ASSUME TypeOK, RefCountsExact, NEW th \in Threads, NEW p \in Places,
           op[th].pc \in Owing, op[th].allocation \in Allocs,
           ReleaseReplaced(p),
           copies'[p].allocation = op[th].allocation,
           \A q \in Places \ {p} : copies'[q].allocation = copies[q].allocation,
           op'[th].pc \notin Owing,
           \A u \in Threads \ {th} : op'[u] = op[u]
    PROVE  RefCountsExact'
  <1> DEFINE a == op[th].allocation
             old == copies[p].allocation
  <1> SUFFICES ASSUME NEW b \in Allocs
               PROVE  allocs'[b].reference_count
                      = Cardinality(CopiesOf(b)') + Cardinality(CallsOwing(b)')
    BY DEF RefCountsExact
  <1>1. th \in CallsOwing(a)
    BY DEF CallsOwing
  <1>2. CallsOwing(b)' = IF b = a THEN CallsOwing(b) \ {th} ELSE CallsOwing(b)
    BY DEF CallsOwing
  <1>3. Cardinality(CallsOwing(b)') = IF b = a THEN Cardinality(CallsOwing(b)) - 1
                                      ELSE Cardinality(CallsOwing(b))
    <2>1. b = a => Cardinality(CallsOwing(b) \ {th}) = Cardinality(CallsOwing(b)) - 1
      BY <1>1, HoldersFinite, CardRemove
    <2>2. QED
      BY <1>2, <2>1
  <1>4. old \in Allocs \cup {None}
    BY FieldTypes
  <1>5. CASE old = None
    <2>1. allocs' = allocs
      BY <1>5 DEF ReleaseReplaced, tableVars
    <2>2. CASE b = a
      <3>1. p \notin CopiesOf(b) /\ CopiesOf(b)' = CopiesOf(b) \cup {p}
        BY <1>5, <2>2 DEF CopiesOf
      <3>2. Cardinality(CopiesOf(b)') = Cardinality(CopiesOf(b)) + 1
        BY <3>1, HoldersFinite, CardAdd
      <3>3. QED
        BY <1>3, <2>1, <2>2, <3>2, HoldersFinite DEF RefCountsExact
    <2>3. CASE b # a
      <3>1. CopiesOf(b)' = CopiesOf(b)
        BY <1>5, <2>3 DEF CopiesOf
      <3>2. QED
        BY <1>3, <2>1, <2>3, <3>1 DEF RefCountsExact
    <2>4. QED
      BY <2>2, <2>3
  <1>6. CASE old \in Allocs
    <2>1. p \in CopiesOf(old)
      BY DEF CopiesOf
    <2>2. Release(old)
      BY <1>6 DEF ReleaseReplaced
    <2>3. Present(old)
      BY <1>6, <2>1, HeldIsPresent
    <2>4. allocs'[b].reference_count = IF b = old THEN allocs[b].reference_count - 1
                                       ELSE allocs[b].reference_count
      BY <1>6, <2>2, <2>3, ReleaseCounts
    <2>5. CASE a = old
      <3>1. CopiesOf(b)' = CopiesOf(b)
        BY <2>5 DEF CopiesOf
      <3>2. QED
        BY <1>3, <2>4, <2>5, <3>1, HoldersFinite DEF RefCountsExact
    <2>6. CASE a # old /\ b = a
      <3>1. p \notin CopiesOf(b) /\ CopiesOf(b)' = CopiesOf(b) \cup {p}
        BY <2>6 DEF CopiesOf
      <3>2. Cardinality(CopiesOf(b)') = Cardinality(CopiesOf(b)) + 1
        BY <3>1, HoldersFinite, CardAdd
      <3>3. QED
        BY <1>3, <2>4, <2>6, <3>2, HoldersFinite DEF RefCountsExact
    <2>7. CASE a # old /\ b = old
      <3>1. p \in CopiesOf(b) /\ CopiesOf(b)' = CopiesOf(b) \ {p}
        BY <2>7 DEF CopiesOf
      <3>2. Cardinality(CopiesOf(b)') = Cardinality(CopiesOf(b)) - 1
        BY <3>1, HoldersFinite, CardRemove
      <3>3. QED
        BY <1>3, <2>4, <2>7, <3>2, HoldersFinite DEF RefCountsExact
    <2>8. CASE b # a /\ b # old
      <3>1. CopiesOf(b)' = CopiesOf(b)
        BY <2>8 DEF CopiesOf
      <3>2. QED
        BY <1>3, <2>4, <2>8, <3>1 DEF RefCountsExact
    <2>9. QED
      BY <2>5, <2>6, <2>7, <2>8
  <1>7. QED
    BY <1>4, <1>5, <1>6

-----------------------------------------------------------------------------
(* Ceilings. *)

LEMMA RegisterKeepsCeilings ==
    ASSUME TypeOK, CapacityRespected, NEW a \in Allocs, NEW r \in Resources,
           NEW cap \in Nat, Register(a, r, cap)
    PROVE  CapacityRespected'
  <1>1. CASE Present(a)
    BY <1>1 DEF Register, CapacityRespected
  <1>2. CASE ~Present(a)
    <2>1. r \in DOMAIN Limit => live_by_resource[r] + cap <= Limit[r]
      BY <1>2 DEF Register, RegisterOk
    <2>2. live_by_resource' = [live_by_resource EXCEPT ![r] = @ + cap]
      BY <1>2 DEF Register
    <2>3. QED
      BY <2>1, <2>2 DEF TypeOK, CapacityRespected
  <1>3. QED
    BY <1>1, <1>2

LEMMA ReleaseKeepsCeilings ==
    ASSUME TypeOK, CapacityRespected, NEW a \in Allocs, Release(a)
    PROVE  CapacityRespected'
  <1>1. \A x, y \in Nat : SaturatingSub(x, y) \in Nat /\ SaturatingSub(x, y) <= x
    BY DEF SaturatingSub
  <1>2. CASE live_by_resource' = live_by_resource
    BY <1>2 DEF CapacityRespected
  <1>3. CASE live_by_resource' = [live_by_resource EXCEPT
                ![allocs[a].resource] = SaturatingSub(@, allocs[a].capacity_bytes)]
    <2>1. \A r \in Resources : live_by_resource'[r] \in Nat
                                 /\ live_by_resource'[r] <= live_by_resource[r]
      BY <1>1, <1>3, FieldTypes DEF TypeOK
    <2>2. QED
      BY <2>1 DEF TypeOK, CapacityRespected
  <1>4. QED
    BY <1>2, <1>3 DEF Release

LEMMA ReplacingKeepsCeilings ==
    ASSUME TypeOK, CapacityRespected, NEW p \in Places, ReleaseReplaced(p)
    PROVE  CapacityRespected'
  <1>1. CASE copies[p].allocation = None
    BY <1>1 DEF ReleaseReplaced, tableVars, CapacityRespected
  <1>2. CASE copies[p].allocation # None
    BY <1>2, FieldTypes, ReleaseKeepsCeilings DEF ReleaseReplaced
  <1>3. QED
    BY <1>1, <1>2

-----------------------------------------------------------------------------
(* The initial states. *)

LEMMA InitIInv == Init => IInv
  <1> SUFFICES ASSUME Init PROVE IInv
    OBVIOUS
  <1>1. TypeOK
    BY DEF Init, TypeOK, PhysicalAllocation, NoAllocation, ResidentCopy, NoCopy
  <1>2. CopiesWellFormed /\ ValidCopiesCurrent /\ OneAuthoritative
    BY FieldTypes, <1>1
       DEF Init, NoCopy, CopiesWellFormed, ValidCopiesCurrent, OneAuthoritative
  <1>3. RefCountsExact
    <2> SUFFICES ASSUME NEW a \in Allocs
                 PROVE  allocs[a].reference_count
                        = Cardinality(CopiesOf(a)) + Cardinality(CallsOwing(a))
      BY DEF RefCountsExact
    <2>1. CopiesOf(a) = {}
      BY DEF Init, CopiesOf, NoCopy
    <2>2. CallsOwing(a) = {}
      BY DEF Init, CallsOwing, NoCall, Owing
    <2>3. Cardinality({}) = 0
      BY FS_EmptySet
    <2>4. QED
      BY <2>1, <2>2, <2>3 DEF Init, NoAllocation
  <1>4. CapacityRespected
    BY DEF Init, CapacityRespected
  <1>5. QED
    BY <1>1, <1>2, <1>3, <1>4 DEF IInv

-----------------------------------------------------------------------------
(* The steps, one lemma for each kind. *)

\* put, alias and replicate: a register that succeeds, or a call that only
\* moves its program counter, leaves the records alone.
LEMMA RecordsAlone ==
    ASSUME IInv, UNCHANGED recordVars
    PROVE  CopiesWellFormed' /\ ValidCopiesCurrent' /\ OneAuthoritative'
  BY DEF IInv, recordVars, CopiesWellFormed, ValidCopiesCurrent, OneAuthoritative

LEMMA PutRegisterStep ==
    ASSUME IInv, NEW th \in Threads, NEW t \in Tensors, NEW r \in Resources,
           NEW a \in Allocs, NEW cap \in Capacities, PutRegister(th, t, r, a, cap)
    PROVE  IInv'
  <1> DEFINE o == [pc |-> "put_commit", tensor |-> t, src |-> r, dst |-> r,
                   allocation |-> a, version |-> 0, capacity |-> cap]
  <1>1. cap \in Nat
    OBVIOUS
  <1>2. /\ Register(a, r, cap)
        /\ op' = [op EXCEPT ![th] = o]
        /\ op[th] = NoCall
        /\ UNCHANGED recordVars
    BY DEF PutRegister, Idle
  <1>3. o \in Call
    BY <1>1 DEF Call, Owing
  <1>4. TypeOK'
    BY <1>1, <1>2, <1>3, RegisterType DEF IInv, TypeOK, recordVars
  <1>5. RefCountsExact'
    BY <1>1, <1>2, RegisterKeepsCounts
       DEF IInv, TypeOK, recordVars, NoCall, Owing
  <1>6. CapacityRespected'
    BY <1>1, <1>2, RegisterKeepsCeilings DEF IInv
  <1>7. QED
    BY <1>2, <1>4, <1>5, <1>6, RecordsAlone DEF IInv

\* The two register steps of alias and replicate.
LEMMA RegisterStep ==
    ASSUME IInv, NEW th \in Threads,
           op[th].pc \in {"alias_register", "replicate_register"},
           NEW pc \in {"alias_commit", "replicate_commit"},
           \/ Register(op[th].allocation, op[th].dst, op[th].capacity)
                /\ Goto(th, pc)
           \/ Finish(th) /\ UNCHANGED tableVars,
           UNCHANGED recordVars
    PROVE  IInv'
  <1>1. /\ op[th] \in Call
        /\ op[th].allocation \in Allocs
        /\ op[th].dst \in Resources
        /\ op[th].capacity \in Nat
        /\ op[th].pc \notin Owing
    BY Zenon, FieldTypes DEF IInv, Owing
  <1>2. CASE Register(op[th].allocation, op[th].dst, op[th].capacity) /\ Goto(th, pc)
    <2>1. op' = [op EXCEPT ![th] = [op[th] EXCEPT !.pc = pc]]
      BY <1>2 DEF Goto
    <2>2. [op[th] EXCEPT !.pc = pc] \in Call
      BY <1>1 DEF Call, Owing
    <2>3. TypeOK'
      BY <1>1, <1>2, <2>1, <2>2, RegisterType DEF IInv, TypeOK, recordVars
    <2>4. op'[th].pc \in Owing /\ op'[th].allocation = op[th].allocation
      BY <1>1, <2>1 DEF IInv, TypeOK, Call, Owing
    <2>5. \A u \in Threads \ {th} : op'[u] = op[u]
      BY <2>1 DEF IInv, TypeOK
    <2>6. RefCountsExact'
      BY <1>1, <1>2, <2>4, <2>5, RegisterKeepsCounts DEF IInv, recordVars
    <2>7. CapacityRespected'
      BY <1>1, <1>2, RegisterKeepsCeilings DEF IInv
    <2>8. QED
      BY <2>3, <2>6, <2>7, RecordsAlone DEF IInv
  <1>3. CASE Finish(th) /\ UNCHANGED tableVars
    <2>1. TypeOK' /\ CapacityRespected'
      BY <1>3 DEF IInv, TypeOK, CapacityRespected, tableVars, recordVars, Finish
    <2>2. \A u \in Threads : /\ (op'[u].pc \in Owing) <=> (op[u].pc \in Owing)
                             /\ op[u].pc \in Owing => op'[u] = op[u]
      BY <1>1, <1>3 DEF IInv, TypeOK, Finish, NoCall, Owing
    <2>3. RefCountsExact'
      BY <1>3, <2>2, SameHoldersKeepCounts DEF IInv, recordVars, tableVars
    <2>4. QED
      BY <2>1, <2>3, RecordsAlone DEF IInv
  <1>4. QED
    BY <1>2, <1>3

\* A call that only changes its own state, and owes the same as before.
LEMMA CallOnlyStep ==
    ASSUME IInv, NEW th \in Threads, NEW o \in Call,
           op' = [op EXCEPT ![th] = o],
           o.pc \in Owing <=> op[th].pc \in Owing,
           o.pc \in Owing => o.allocation = op[th].allocation,
           UNCHANGED <<tableVars, recordVars>>
    PROVE  IInv'
  <1>1. TypeOK' /\ CapacityRespected'
    BY DEF IInv, TypeOK, CapacityRespected, tableVars, recordVars
  <1>2. RefCountsExact'
    <2>1. \A u \in Threads : (op'[u].pc \in Owing) <=> (op[u].pc \in Owing)
      BY DEF IInv, TypeOK
    <2>2. \A u \in Threads : op[u].pc \in Owing => op'[u].allocation = op[u].allocation
      BY DEF IInv, TypeOK
    <2>3. QED
      BY <2>1, <2>2, SameHoldersKeepCounts DEF IInv, tableVars, recordVars
  <1>3. QED
    BY <1>1, <1>2, RecordsAlone DEF IInv

LEMMA AliasGetStep ==
    ASSUME IInv, NEW th \in Threads, NEW t \in Tensors, NEW src \in Resources,
           NEW dst \in Resources, AliasGet(th, t, src, dst)
    PROVE  IInv'
  <1> DEFINE c == copies[<<t, src>>]
             o == [pc |-> "alias_capacity", tensor |-> t, src |-> src, dst |-> dst,
                   allocation |-> c.allocation, version |-> c.version, capacity |-> 0]
  <1>1. <<t, src>> \in Places
    BY DEF Places
  <1>2. c.valid /\ op[th] = NoCall /\ op' = [op EXCEPT ![th] = o]
    BY DEF AliasGet, Idle
  <1>3. c.allocation \in Allocs /\ c.version \in Nat
    BY <1>1, <1>2, FieldTypes DEF IInv, CopiesWellFormed
  <1>4. o \in Call
    BY <1>3 DEF Call
  <1>5. o.pc \notin Owing /\ op[th].pc \notin Owing
    BY <1>2 DEF NoCall, Owing
  <1>6. UNCHANGED <<tableVars, recordVars>>
    BY DEF AliasGet
  <1> HIDE DEF o
  <1>7. QED
    BY Zenon, <1>2, <1>4, <1>5, <1>6, CallOnlyStep

LEMMA AliasCapacityStep ==
    ASSUME IInv, NEW th \in Threads, AliasCapacity(th)
    PROVE  IInv'
  <1> DEFINE cap == IF Present(op[th].allocation)
                      THEN allocs[op[th].allocation].capacity_bytes ELSE 1
             o == [op[th] EXCEPT !.pc = "alias_register", !.capacity = cap]
  <1>1. op[th].pc = "alias_capacity" /\ op[th] \in Call /\ op[th].allocation \in Allocs
    BY Zenon, FieldTypes DEF IInv, AliasCapacity
  <1>2. cap \in Nat
    BY <1>1, FieldTypes DEF IInv
  <1>3. op' = [op EXCEPT ![th] = o]
    BY Zenon, <1>1 DEF AliasCapacity, IInv, TypeOK, Call
  <1>4. o \in Call /\ o.pc = "alias_register"
    BY Zenon, <1>1, <1>2 DEF Call
  <1>5. o.pc \notin Owing /\ op[th].pc \notin Owing
    BY <1>1, <1>4 DEF Owing
  <1>6. UNCHANGED <<tableVars, recordVars>>
    BY DEF AliasCapacity
  <1> HIDE DEF o
  <1>7. QED
    BY Zenon, <1>3, <1>4, <1>5, <1>6, CallOnlyStep

LEMMA ReplicateReadStep ==
    ASSUME IInv, NEW th \in Threads, NEW t \in Tensors, NEW r \in Resources,
           NEW a \in Allocs, ReplicateRead(th, t, r, a)
    PROVE  IInv'
  <1> DEFINE o == [pc |-> "replicate_register", tensor |-> t, src |-> r, dst |-> r,
                   allocation |-> a, version |-> version[t],
                   capacity |-> meta_capacity[t]]
  <1>1. o \in Call
    BY DEF IInv, TypeOK, Call
  <1>2. op[th] = NoCall /\ op' = [op EXCEPT ![th] = o]
    BY DEF ReplicateRead, Idle
  <1>3. o.pc \notin Owing /\ op[th].pc \notin Owing
    BY <1>2 DEF NoCall, Owing
  <1>4. UNCHANGED <<tableVars, recordVars>>
    BY DEF ReplicateRead
  <1> HIDE DEF o
  <1>5. QED
    BY Zenon, <1>1, <1>2, <1>3, <1>4, CallOnlyStep

\* A commit that finds the version moved goes on to release what it registered.
LEMMA StaleCommitStep ==
    ASSUME IInv, NEW th \in Threads,
           op[th].pc \in {"alias_commit", "replicate_commit"},
           Goto(th, "release"), UNCHANGED <<tableVars, recordVars>>
    PROVE  IInv'
  <1> DEFINE o == [op[th] EXCEPT !.pc = "release"]
  <1>1. op[th] \in Call
    BY Zenon, FieldTypes DEF IInv
  <1>2. o \in Call /\ o.pc = "release" /\ o.allocation = op[th].allocation
    BY <1>1 DEF Call, Owing
  <1>3. op' = [op EXCEPT ![th] = o]
    BY DEF Goto
  <1>4. o.pc \in Owing /\ op[th].pc \in Owing
    BY <1>2 DEF Owing
  <1> HIDE DEF o
  <1>5. QED
    BY Zenon, <1>2, <1>3, <1>4, CallOnlyStep

\* A commit that publishes a copy of the version it read, still current.
LEMMA PublishStep ==
    ASSUME IInv, NEW th \in Threads,
           op[th].pc \in {"alias_commit", "replicate_commit"},
           version[op[th].tensor] = op[th].version,
           PublishSecondary(op[th]), Finish(th),
           UNCHANGED <<version, meta_capacity>>
    PROVE  IInv'
  <1> DEFINE o == op[th]
             p == <<o.tensor, o.dst>>
             c == [allocation |-> o.allocation, version |-> o.version,
                   active_leases |-> 0, valid |-> TRUE, authoritative |-> FALSE]
  <1>1. o \in Call /\ p \in Places /\ o.allocation \in Allocs /\ o.version \in Nat
        /\ p[1] = o.tensor
    BY Zenon, FieldTypes DEF IInv
  <1>2. ReleaseReplaced(p) /\ copies' = [copies EXCEPT ![p] = c]
    BY DEF PublishSecondary
  <1>3. c \in ResidentCopy
    BY <1>1 DEF ResidentCopy
  <1>4. TypeOK'
    BY <1>1, <1>2, <1>3, ReleaseReplacedType, Zenon DEF IInv, TypeOK, Finish
  <1>5. /\ copies'[p] = c
        /\ \A q \in Places \ {p} : copies'[q] = copies[q]
    BY <1>1, <1>2, Zenon DEF IInv, TypeOK
  <1>6. RefCountsExact'
    <2>1. op'[th].pc \notin Owing /\ \A u \in Threads \ {th} : op'[u] = op[u]
      BY DEF IInv, TypeOK, Finish, NoCall, Owing
    <2>2. o.pc \in Owing
      BY DEF Owing
    <2>3. QED
      BY <1>1, <1>2, <1>5, <2>1, <2>2, PublishKeepsCounts DEF IInv
  <1>7. CopiesWellFormed' /\ ValidCopiesCurrent'
    BY <1>1, <1>5, FieldTypes DEF IInv, TypeOK, CopiesWellFormed, ValidCopiesCurrent
  <1>8. OneAuthoritative'
    BY <1>5 DEF IInv, OneAuthoritative
  <1>9. CapacityRespected'
    BY <1>1, <1>2, ReplacingKeepsCeilings DEF IInv
  <1>10. QED
    BY <1>4, <1>6, <1>7, <1>8, <1>9 DEF IInv

LEMMA PutCommitStep ==
    ASSUME IInv, NEW th \in Threads, PutCommit(th)
    PROVE  IInv'
  <1> DEFINE o == op[th]
             p == <<o.tensor, o.dst>>
             v == version[o.tensor] + 1
             c == [allocation |-> o.allocation, version |-> v,
                   active_leases |-> 0, valid |-> TRUE, authoritative |-> TRUE]
             stale(q) == [copies[q] EXCEPT !.valid = FALSE, !.authoritative = FALSE]
  <1>1. o.pc = "put_commit" /\ o \in Call /\ p \in Places /\ o.allocation \in Allocs
        /\ o.tensor \in Tensors /\ o.capacity \in Nat /\ p[1] = o.tensor
    BY Zenon, FieldTypes DEF IInv, PutCommit
  <1>2. v \in Nat /\ v = version[o.tensor] + 1 /\ version[o.tensor] \in Nat
    BY <1>1 DEF IInv, TypeOK
  <1>3. /\ version' = [version EXCEPT ![o.tensor] = v]
        /\ meta_capacity' = [meta_capacity EXCEPT ![o.tensor] = o.capacity]
        /\ ReleaseReplaced(p)
        /\ copies' = [q \in Places |-> IF q = p THEN c
                                       ELSE IF q[1] = o.tensor THEN stale(q)
                                       ELSE copies[q]]
        /\ Finish(th)
    BY Zenon DEF PutCommit
  <1>4. \A q \in Places :
           /\ stale(q) \in ResidentCopy
           /\ stale(q).allocation = copies[q].allocation
           /\ stale(q).version = copies[q].version
           /\ stale(q).valid = FALSE
           /\ stale(q).authoritative = FALSE
    BY ZenonT(30) DEF IInv, TypeOK, ResidentCopy
  <1>5. /\ c \in ResidentCopy
        /\ c.allocation = o.allocation
        /\ c.version = v
        /\ c.valid = TRUE
        /\ c.authoritative = TRUE
    BY <1>1, <1>2 DEF ResidentCopy
  <1> HIDE DEF c, stale
  <1>6. TypeOK'
    <2>1. copies' \in [Places -> ResidentCopy]
      BY <1>3, <1>4, <1>5, Zenon DEF IInv, TypeOK
    <2>2. QED
      BY <1>1, <1>2, <1>3, <2>1, ReleaseReplacedType, Zenon DEF IInv, TypeOK, Finish
  <1>7. /\ copies'[p] = c
        /\ \A q \in Places : q # p /\ q[1] = o.tensor => copies'[q] = stale(q)
        /\ \A q \in Places : q[1] # o.tensor => copies'[q] = copies[q]
    BY <1>1, <1>3, Zenon
  <1>8. RefCountsExact'
    <2>1. op'[th].pc \notin Owing /\ \A u \in Threads \ {th} : op'[u] = op[u]
      BY <1>3 DEF IInv, TypeOK, Finish, NoCall, Owing
    <2>2. o.pc \in Owing
      BY <1>1 DEF Owing
    <2>3. copies'[p].allocation = o.allocation
      BY <1>5, <1>7
    <2>4. \A q \in Places \ {p} : copies'[q].allocation = copies[q].allocation
      BY <1>4, <1>7, Zenon
    <2>5. QED
      BY <1>1, <1>3, <2>1, <2>2, <2>3, <2>4, PublishKeepsCounts DEF IInv
  <1>9. \A t \in Tensors : version'[t] = IF t = o.tensor THEN v ELSE version[t]
    BY <1>3, Zenon DEF IInv, TypeOK
  <1>10. CopiesWellFormed' /\ ValidCopiesCurrent'
    <2> SUFFICES ASSUME NEW q \in Places
                 PROVE  /\ copies'[q].valid => copies'[q].allocation \in Allocs
                        /\ copies'[q].version <= version'[q[1]]
                        /\ copies'[q].valid => copies'[q].version = version'[q[1]]
      BY DEF CopiesWellFormed, ValidCopiesCurrent
    <2>1. /\ q[1] \in Tensors /\ version[q[1]] \in Nat /\ copies[q].version \in Nat
          /\ copies[q].valid => copies[q].allocation \in Allocs
          /\ copies[q].version <= version[q[1]]
          /\ copies[q].valid => copies[q].version = version[q[1]]
      BY FieldTypes, Zenon DEF IInv, TypeOK, CopiesWellFormed, ValidCopiesCurrent
    <2>2. CASE q = p
      BY <1>1, <1>2, <1>5, <1>7, <1>9, <2>2
    <2>3. CASE q # p /\ q[1] = o.tensor
      BY <1>2, <1>4, <1>7, <1>9, <2>1, <2>3
    <2>4. CASE q[1] # o.tensor
      BY <1>7, <1>9, <2>1, <2>4, Zenon
    <2>5. QED
      BY <2>2, <2>3, <2>4
  <1>11. OneAuthoritative'
    <2>1. \A q \in Places : q[1] = o.tensor /\ copies'[q].authoritative => q = p
      BY <1>4, <1>7
    <2>2. \A q \in Places : copies'[q].authoritative => copies'[q].valid
      BY <1>4, <1>5, <1>7, Zenon DEF IInv, OneAuthoritative
    <2>3. QED
      BY <1>7, <2>1, <2>2 DEF IInv, OneAuthoritative
  <1>12. CapacityRespected'
    BY <1>1, <1>3, ReplacingKeepsCeilings DEF IInv
  <1>13. QED
    BY <1>6, <1>8, <1>10, <1>11, <1>12 DEF IInv

LEMMA ReleaseCopyStep ==
    ASSUME IInv, NEW th \in Threads, NEW t \in Tensors, NEW r \in Resources,
           ReleaseCopy(th, t, r)
    PROVE  IInv'
  <1> DEFINE p == <<t, r>>
             o == [pc |-> "release", tensor |-> t, src |-> r, dst |-> r,
                   allocation |-> copies[p].allocation, version |-> 0, capacity |-> 0]
  <1>1. p \in Places /\ p[1] = t
    BY DEF Places
  <1>2. /\ op[th] = NoCall
        /\ copies[p].allocation # None
        /\ copies' = [copies EXCEPT ![p] = NoCopy]
        /\ op' = [op EXCEPT ![th] = o]
        /\ UNCHANGED <<tableVars, version, meta_capacity>>
    BY DEF ReleaseCopy, Idle
  <1>3. copies[p].allocation \in Allocs
    BY <1>1, <1>2, FieldTypes DEF IInv
  <1>4. o \in Call /\ o.pc \in Owing /\ o.allocation = copies[p].allocation
    BY <1>3 DEF Call, Owing
  <1>5. NoCopy \in ResidentCopy
    BY DEF NoCopy, ResidentCopy
  <1> HIDE DEF o, p
  <1>6. TypeOK' /\ CapacityRespected'
    BY Zenon, <1>2, <1>4, <1>5 DEF IInv, TypeOK, tableVars, CapacityRespected
  <1>7. copies'[p] = NoCopy /\ \A q \in Places \ {p} : copies'[q] = copies[q]
    BY <1>1, <1>2, ZenonT(30) DEF IInv, TypeOK
  <1>8. RefCountsExact'
    <2>1. op'[th] = o /\ \A u \in Threads \ {th} : op'[u] = op[u]
      BY <1>2, Zenon DEF IInv, TypeOK
    <2>2. op[th].pc \notin Owing
      BY <1>2 DEF NoCall, Owing
    <2>3. copies'[p].allocation = None
      BY <1>7 DEF NoCopy
    <2>4. QED
      BY <1>1, <1>2, <1>4, <1>7, <2>1, <2>2, <2>3, TakeOutKeepsCounts
         DEF IInv, tableVars
  <1>9. CopiesWellFormed' /\ ValidCopiesCurrent' /\ OneAuthoritative'
    <2>1. /\ copies'[p].valid = FALSE
          /\ copies'[p].authoritative = FALSE
          /\ copies'[p].version = 0
      BY <1>7 DEF NoCopy
    <2>2. version' = version /\ version[p[1]] \in Nat
      BY <1>1, <1>2 DEF IInv, TypeOK
    <2>3. QED
      BY <1>1, <1>7, <2>1, <2>2
         DEF IInv, CopiesWellFormed, ValidCopiesCurrent, OneAuthoritative
  <1>10. QED
    BY <1>6, <1>8, <1>9 DEF IInv

LEMMA ReleaseAllocationStep ==
    ASSUME IInv, NEW th \in Threads, ReleaseAllocation(th)
    PROVE  IInv'
  <1>1. /\ op[th].pc = "release"
        /\ op[th].allocation \in Allocs
        /\ Release(op[th].allocation)
        /\ op' = [op EXCEPT ![th] = NoCall]
        /\ UNCHANGED recordVars
    BY Zenon, FieldTypes DEF IInv, ReleaseAllocation, Finish
  <1>2. TypeOK'
    BY <1>1, ReleaseType DEF IInv, TypeOK, recordVars
  <1>3. RefCountsExact'
    <2>1. op'[th].pc \notin Owing /\ \A u \in Threads \ {th} : op'[u] = op[u]
      BY <1>1 DEF IInv, TypeOK, NoCall, Owing
    <2>2. op[th].pc \in Owing
      BY <1>1 DEF Owing
    <2>3. QED
      BY <1>1, <2>1, <2>2, ReleaseKeepsCounts DEF IInv, recordVars
  <1>4. CapacityRespected'
    BY <1>1, ReleaseKeepsCeilings DEF IInv
  <1>5. QED
    BY <1>1, <1>2, <1>3, <1>4, RecordsAlone DEF IInv

\* A change of one copy's lease count disturbs nothing else.
LEMMA LeaseCountStep ==
    ASSUME IInv, NEW p \in Places, NEW n \in Nat,
           copies' = [copies EXCEPT ![p].active_leases = n],
           UNCHANGED <<tableVars, version, meta_capacity, op>>
    PROVE  IInv'
  <1>1. copies' \in [Places -> ResidentCopy]
    BY DEF IInv, TypeOK, ResidentCopy
  <1>2. \A q \in Places : /\ copies'[q].allocation = copies[q].allocation
                          /\ copies'[q].version = copies[q].version
                          /\ copies'[q].valid = copies[q].valid
                          /\ copies'[q].authoritative = copies[q].authoritative
    BY DEF IInv, TypeOK, ResidentCopy
  <1>3. TypeOK' /\ CapacityRespected'
    BY <1>1 DEF IInv, TypeOK, tableVars, CapacityRespected
  <1>4. RefCountsExact'
    BY <1>2, SameHoldersKeepCounts DEF IInv, tableVars
  <1>5. CopiesWellFormed' /\ ValidCopiesCurrent' /\ OneAuthoritative'
    BY <1>2 DEF IInv, CopiesWellFormed, ValidCopiesCurrent, OneAuthoritative
  <1>6. QED
    BY <1>3, <1>4, <1>5 DEF IInv

LEMMA LeaseStep ==
    ASSUME IInv, NEW t \in Tensors, NEW r \in Resources,
           AcquireLease(t, r) \/ ReleaseLease(t, r)
    PROVE  IInv'
  <1> DEFINE p == <<t, r>>
             n == copies[p].active_leases
  <1>1. p \in Places
    BY DEF Places
  <1>2. n \in Nat
    BY <1>1, FieldTypes DEF IInv
  <1>3. UNCHANGED <<tableVars, version, meta_capacity, op>>
    BY DEF AcquireLease, ReleaseLease
  <1>4. CASE AcquireLease(t, r)
    <2>1. copies' = [copies EXCEPT ![p].active_leases = n + 1]
      BY <1>4 DEF AcquireLease
    <2>2. n + 1 \in Nat
      BY <1>2
    <2> HIDE DEF p, n
    <2>3. QED
      BY Zenon, <1>1, <1>3, <2>1, <2>2, LeaseCountStep
  <1>5. CASE ReleaseLease(t, r)
    <2>1. copies' = [copies EXCEPT ![p].active_leases = n - 1]
      BY <1>5 DEF ReleaseLease
    <2>2. n - 1 \in Nat
      BY <1>2, <1>5 DEF ReleaseLease
    <2> HIDE DEF p, n
    <2>3. QED
      BY Zenon, <1>1, <1>3, <2>1, <2>2, LeaseCountStep
  <1>6. QED
    BY <1>4, <1>5

LEMMA StutterStep ==
    ASSUME IInv, UNCHANGED vars
    PROVE  IInv'
  <1>1. TypeOK' /\ CapacityRespected'
    BY DEF IInv, vars, TypeOK, CapacityRespected
  <1>2. RefCountsExact'
    BY SameHoldersKeepCounts DEF IInv, vars
  <1>3. QED
    BY <1>1, <1>2, RecordsAlone DEF IInv, vars, recordVars

\* Every step of the store keeps the invariant.
LEMMA NextIInv == IInv /\ [Next]_vars => IInv'
  <1> SUFFICES ASSUME IInv, [Next]_vars PROVE IInv'
    OBVIOUS
  <1>1. ASSUME NEW th \in Threads, NEW t \in Tensors, NEW r \in Resources,
               NEW a \in Allocs, NEW cap \in Capacities, PutRegister(th, t, r, a, cap)
        PROVE  IInv'
    BY <1>1, PutRegisterStep
  <1>2. ASSUME NEW th \in Threads, PutCommit(th) PROVE IInv'
    BY <1>2, PutCommitStep
  <1>3. ASSUME NEW th \in Threads, NEW t \in Tensors, NEW src \in Resources,
               NEW dst \in Resources, AliasGet(th, t, src, dst)
        PROVE  IInv'
    BY <1>3, AliasGetStep
  <1>4. ASSUME NEW th \in Threads, AliasCapacity(th) PROVE IInv'
    BY <1>4, AliasCapacityStep
  <1>5. ASSUME NEW th \in Threads, AliasRegister(th) PROVE IInv'
    BY <1>5, RegisterStep DEF AliasRegister
  <1>6. ASSUME NEW th \in Threads, AliasCommit(th) PROVE IInv'
    <2>1. CASE version[op[th].tensor] = op[th].version /\ SourceStillCurrent(op[th])
      BY <1>6, <2>1, PublishStep DEF AliasCommit
    <2>2. CASE ~(version[op[th].tensor] = op[th].version /\ SourceStillCurrent(op[th]))
      <3>1. UNCHANGED <<tableVars, recordVars>>
        BY <1>6, <2>2 DEF AliasCommit, recordVars
      <3>2. QED
        BY <1>6, <2>2, <3>1, StaleCommitStep DEF AliasCommit
    <2>3. QED
      BY <2>1, <2>2
  <1>7. ASSUME NEW th \in Threads, NEW t \in Tensors, NEW r \in Resources,
               NEW a \in Allocs, ReplicateRead(th, t, r, a)
        PROVE  IInv'
    BY <1>7, ReplicateReadStep
  <1>8. ASSUME NEW th \in Threads, ReplicateRegister(th) PROVE IInv'
    BY <1>8, RegisterStep DEF ReplicateRegister
  <1>9. ASSUME NEW th \in Threads, ReplicateCommit(th) PROVE IInv'
    <2>1. CASE version[op[th].tensor] = op[th].version
      BY <1>9, <2>1, PublishStep DEF ReplicateCommit
    <2>2. CASE version[op[th].tensor] # op[th].version
      <3>1. UNCHANGED <<tableVars, recordVars>>
        BY <1>9, <2>2 DEF ReplicateCommit, recordVars
      <3>2. QED
        BY <1>9, <2>2, <3>1, StaleCommitStep DEF ReplicateCommit
    <2>3. QED
      BY <2>1, <2>2
  <1>10. ASSUME NEW th \in Threads, NEW t \in Tensors, NEW r \in Resources,
                ReleaseCopy(th, t, r)
         PROVE  IInv'
    BY <1>10, ReleaseCopyStep
  <1>11. ASSUME NEW th \in Threads, ReleaseAllocation(th) PROVE IInv'
    BY <1>11, ReleaseAllocationStep
  <1>12. ASSUME NEW t \in Tensors, NEW r \in Resources,
                AcquireLease(t, r) \/ ReleaseLease(t, r)
         PROVE  IInv'
    BY <1>12, LeaseStep
  <1>13. CASE UNCHANGED vars
    BY <1>13, StutterStep
  <1>14. QED
    BY <1>1, <1>2, <1>3, <1>4, <1>5, <1>6, <1>7, <1>8, <1>9, <1>10, <1>11,
       <1>12, <1>13 DEF Next

-----------------------------------------------------------------------------
(* The byte totals. *)

\* Every step registers, releases or leaves the table alone.
LEMMA TableSteps ==
    ASSUME TypeOK, [Next]_vars
    PROVE  \/ UNCHANGED tableVars
           \/ \E a \in Allocs, r \in Resources, cap \in Nat : Register(a, r, cap)
           \/ \E a \in Allocs : Release(a)
  <1> DEFINE Moved == \/ UNCHANGED tableVars
                      \/ \E a \in Allocs, r \in Resources, cap \in Nat : Register(a, r, cap)
                      \/ \E a \in Allocs : Release(a)
  <1> SUFFICES Moved
    OBVIOUS
  <1>1. ASSUME NEW p \in Places, ReleaseReplaced(p) PROVE Moved
    <2>1. copies[p].allocation \in Allocs \cup {None}
      BY FieldTypes
    <2> QED
      BY <1>1, <2>1 DEF ReleaseReplaced
  <1>2. ASSUME NEW th \in Threads, NEW t \in Tensors, NEW r \in Resources, NEW a \in Allocs,
               NEW cap \in Capacities, PutRegister(th, t, r, a, cap)
        PROVE  Moved
    BY <1>2, Zenon DEF PutRegister
  <1>3. ASSUME NEW th \in Threads, op[th].pc # "idle"
        PROVE  /\ op[th].allocation \in Allocs /\ op[th].dst \in Resources
               /\ op[th].capacity \in Nat /\ <<op[th].tensor, op[th].dst>> \in Places
    BY <1>3, FieldTypes, Zenon
  <1> HIDE DEF Moved
  <1>4. ASSUME NEW th \in Threads, PutCommit(th) PROVE Moved
    BY <1>1, <1>3, <1>4, Zenon DEF PutCommit
  <1>5. ASSUME NEW th \in Threads, AliasRegister(th) \/ ReplicateRegister(th) PROVE Moved
    BY <1>3, <1>5, Zenon DEF AliasRegister, ReplicateRegister, Moved
  <1>6. ASSUME NEW th \in Threads, AliasCommit(th) \/ ReplicateCommit(th) PROVE Moved
    <2>1. op[th].pc # "idle"
      BY <1>6 DEF AliasCommit, ReplicateCommit
    <2>2. UNCHANGED tableVars \/ PublishSecondary(op[th])
      BY <1>6 DEF AliasCommit, ReplicateCommit
    <2>3. CASE PublishSecondary(op[th])
      BY <1>1, <1>3, <2>1, <2>3 DEF PublishSecondary
    <2> QED
      BY <2>2, <2>3, Zenon DEF Moved
  <1>7. ASSUME NEW th \in Threads, ReleaseAllocation(th) PROVE Moved
    BY <1>3, <1>7, Zenon DEF ReleaseAllocation, Moved
  <1>8. ASSUME \/ \E th \in Threads :
                     \/ \E t \in Tensors, src, dst \in Resources : AliasGet(th, t, src, dst)
                     \/ AliasCapacity(th)
                     \/ \E t \in Tensors, r \in Resources, a \in Allocs : ReplicateRead(th, t, r, a)
                     \/ \E t \in Tensors, r \in Resources : ReleaseCopy(th, t, r)
               \/ \E t \in Tensors, r \in Resources : AcquireLease(t, r) \/ ReleaseLease(t, r)
               \/ UNCHANGED vars
        PROVE  Moved
    BY <1>8, ZenonT(30) DEF Moved, AliasGet, AliasCapacity, ReplicateRead, ReleaseCopy, AcquireLease, ReleaseLease,
                vars, tableVars
  <1> QED
    BY <1>2, <1>4, <1>5, <1>6, <1>7, <1>8 DEF Next

\* One allocation more.
LEMMA OneMore ==
    ASSUME NEW B, NEW a, NEW n \in Nat, IsFiniteSet(B), B \cap Block(a, n) = {}
    PROVE  /\ IsFiniteSet(B \cup Block(a, n))
           /\ Cardinality(B \cup Block(a, n)) = Cardinality(B) + n
  <1> DEFINE X == Block(a, n)
  <1>0. X = {a} \X (1 .. n)
    BY DEF Block
  <1> HIDE DEF X
  <1>1. IsFiniteSet(1 .. n) /\ Cardinality(1 .. n) = n
    BY FS_Interval
  <1>2. IsFiniteSet({a}) /\ Cardinality({a}) = 1
    BY FS_Singleton, Zenon
  <1>3. IsFiniteSet(X) /\ Cardinality(X) = n
    <2>1. IsFiniteSet(X) /\ Cardinality(X) = Cardinality({a}) * Cardinality(1 .. n)
      BY <1>0, <1>1, <1>2, FS_Product
    <2> QED
      BY <1>1, <1>2, <2>1
  <1>4. B \cap X = {}
    BY DEF X
  <1>5. Cardinality(B) \in Nat
    BY FS_CardinalityType
  <1>6. IsFiniteSet(B \cup X) /\ Cardinality(B \cup X) = Cardinality(B) + n
    <2>1. IsFiniteSet(B \cup X) /\ Cardinality(B \cup X) = Cardinality(B) + Cardinality(X) - Cardinality(B \cap X)
      BY <1>3, FS_Union
    <2>2. Cardinality(B \cap X) = 0
      BY <1>4, FS_EmptySet
    <2> QED
      BY <1>3, <1>5, <2>1, <2>2
  <1> QED
    BY <1>6 DEF X

LEMMA BytesIn ==
    ASSUME NEW table, NEW S, NEW b
    PROVE  b \in BytesOf(table, S) <=> \E a \in S : b \in Block(a, table[a].capacity_bytes)
  BY DEF BytesOf

\* The sizes in S are the same but for that of allocation a.
SameBut(old, new, S, a) == \A x \in S : x # a => old[x].capacity_bytes = new[x].capacity_bytes

\* The bytes with allocation a among them, and without.
LEMMA BytesWith ==
    ASSUME NEW old, NEW new, NEW S, NEW T, NEW a, NEW n \in Nat, a \in T, T \ {a} = S \ {a},
           SameBut(old, new, S, a),
           new[a].capacity_bytes = n, a \in S => old[a].capacity_bytes = 0
    PROVE  /\ BytesOf(new, T) = BytesOf(old, S) \cup Block(a, n)
           /\ BytesOf(old, S) \cap Block(a, n) = {}
  <1>1. BytesOf(old, S) \cap Block(a, n) = {}
    <2>1. ASSUME NEW x \in S, NEW b, b \in Block(x, old[x].capacity_bytes), b \in Block(a, n) PROVE FALSE
      <3>1. x = a /\ b[2] \in 1 .. old[x].capacity_bytes
        BY <2>1 DEF Block
      <3> QED
        BY <3>1
    <2> QED
      BY <2>1, BytesIn
  <1>2. ASSUME NEW b PROVE b \in BytesOf(new, T) <=> b \in BytesOf(old, S) \/ b \in Block(a, n)
    <2>1. ASSUME NEW x \in T, x # a, b \in Block(x, new[x].capacity_bytes)
          PROVE  b \in BytesOf(old, S)
      <3>1. x \in S /\ old[x].capacity_bytes = new[x].capacity_bytes
        BY <2>1 DEF SameBut
      <3> QED
        BY <2>1, <3>1, BytesIn
    <2>2. ASSUME NEW x \in S, b \in Block(x, old[x].capacity_bytes)
          PROVE  b \in BytesOf(new, T)
      <3>1. CASE x = a
        <4>1. Block(x, old[x].capacity_bytes) = {}
          BY <3>1 DEF Block
        <4> QED
          BY <2>2, <4>1
      <3>2. CASE x # a
        <4>1. x \in T /\ old[x].capacity_bytes = new[x].capacity_bytes
          BY <3>2 DEF SameBut
        <4> QED
          BY <2>2, <4>1, BytesIn
      <3> QED
        BY <3>1, <3>2
    <2>3. b \in Block(a, n) => b \in BytesOf(new, T)
      BY BytesIn
    <2> QED
      BY <2>1, <2>2, <2>3, BytesIn
  <1> QED
    BY <1>1, <1>2

LEMMA BytesSame ==
    ASSUME NEW old, NEW new, NEW S,
           \A x \in S : old[x].capacity_bytes = new[x].capacity_bytes
    PROVE  BytesOf(new, S) = BytesOf(old, S)
  <1>1. ASSUME NEW b PROVE b \in BytesOf(new, S) <=> b \in BytesOf(old, S)
    BY BytesIn
  <1> QED
    BY <1>1, Zenon

\* The totals are exact, and what is absent has no bytes and is nowhere.
Charged ==
    /\ \A a \in Allocs : IF Present(a) THEN allocs[a].resource \in Resources
                         ELSE allocs[a].capacity_bytes = 0 /\ allocs[a].resource = None
    /\ IsFiniteSet(BytesOf(allocs, Allocs))
    /\ CountersExact

LEMMA OnFinite ==
    ASSUME Charged, NEW r
    PROVE  /\ IsFiniteSet(BytesOf(allocs, On(allocs, r)))
           /\ Cardinality(BytesOf(allocs, On(allocs, r))) \in Nat
           /\ Cardinality(BytesOf(allocs, On(allocs, r))) <= Cardinality(BytesOf(allocs, Allocs))
           /\ Cardinality(BytesOf(allocs, Allocs)) \in Nat
  <1>1. On(allocs, r) \subseteq Allocs
    BY DEF On
  <1>2. BytesOf(allocs, On(allocs, r)) \subseteq BytesOf(allocs, Allocs)
    BY <1>1, BytesIn
  <1> QED
    BY <1>2, FS_Subset, FS_CardinalityType DEF Charged

LEMMA RegisterCharges ==
    ASSUME TypeOK, Charged, NEW a \in Allocs, NEW r \in Resources, NEW cap \in Nat, Register(a, r, cap)
    PROVE  Charged'
  <1>0. allocs \in [Allocs -> PhysicalAllocation] /\ \A x \in Allocs : allocs[x].reference_count \in Nat
    BY FieldTypes DEF TypeOK
  <1>1. CASE Present(a)
    <2>1. allocs' = [allocs EXCEPT ![a].reference_count = @ + 1]
          /\ UNCHANGED <<live_bytes, peak_bytes, live_by_resource>>
      BY <1>1 DEF Register
    <2>2. \A x \in Allocs : /\ allocs'[x].capacity_bytes = allocs[x].capacity_bytes
                            /\ allocs'[x].resource = allocs[x].resource
                            /\ allocs'[x].reference_count > 0 <=> allocs[x].reference_count > 0
      BY <1>0, <1>1, <2>1 DEF PhysicalAllocation, Present
    <2>3. BytesOf(allocs', Allocs) = BytesOf(allocs, Allocs)
      BY <2>2, BytesSame
    <2>4. ASSUME NEW q \in Resources
          PROVE  On(allocs', q) = On(allocs, q) /\ BytesOf(allocs', On(allocs, q)) = BytesOf(allocs, On(allocs, q))
      <3>1. On(allocs', q) = On(allocs, q) /\ On(allocs, q) \subseteq Allocs
        BY <2>2 DEF On
      <3> QED
        BY <2>2, <3>1, BytesSame
    <2>5. CountersExact'
      BY <2>1, <2>3, <2>4, Zenon DEF Charged, CountersExact
    <2> QED
      BY <2>2, <2>3, <2>5 DEF Charged, Present
  <1>2. CASE ~Present(a)
    <2>1. /\ allocs' = [allocs EXCEPT ![a] = [resource |-> r, capacity_bytes |-> cap, reference_count |-> 1]]
          /\ live_bytes' = live_bytes + cap
          /\ peak_bytes' = IF live_bytes + cap > peak_bytes THEN live_bytes + cap ELSE peak_bytes
          /\ live_by_resource' = [live_by_resource EXCEPT ![r] = @ + cap]
      BY <1>2 DEF Register
    <2>2. /\ allocs'[a].capacity_bytes = cap /\ allocs'[a].resource = r /\ allocs'[a].reference_count = 1
          /\ \A x \in Allocs : x # a => allocs'[x] = allocs[x]
      BY <1>0, <2>1, Zenon
    <2>3. allocs[a].capacity_bytes = 0 /\ allocs[a].resource = None
      BY <1>2, Zenon DEF Charged
    <2>4. IsFiniteSet(BytesOf(allocs', Allocs))
          /\ Cardinality(BytesOf(allocs', Allocs)) = Cardinality(BytesOf(allocs, Allocs)) + cap
      <3>1. /\ BytesOf(allocs', Allocs) = BytesOf(allocs, Allocs) \cup Block(a, cap)
            /\ BytesOf(allocs, Allocs) \cap Block(a, cap) = {}
        <4>1. SameBut(allocs, allocs', Allocs, a)
          BY <2>2 DEF SameBut
        <4> QED
          BY <2>2, <2>3, <4>1, BytesWith
      <3> QED
        BY <3>1, OneMore DEF Charged
    <2>5. Cardinality(BytesOf(allocs', On(allocs', r))) = Cardinality(BytesOf(allocs, On(allocs, r))) + cap
      <3>1. a \in On(allocs', r) /\ On(allocs', r) \ {a} = On(allocs, r) \ {a} /\ a \notin On(allocs, r)
            /\ On(allocs, r) \subseteq Allocs
        BY <2>2, <2>3, Zenon DEF On
      <3>2. /\ BytesOf(allocs', On(allocs', r)) = BytesOf(allocs, On(allocs, r)) \cup Block(a, cap)
            /\ BytesOf(allocs, On(allocs, r)) \cap Block(a, cap) = {}
        <4>1. SameBut(allocs, allocs', On(allocs, r), a)
          BY <2>2, <3>1 DEF SameBut
        <4> QED
          BY <2>2, <3>1, <4>1, BytesWith
      <3>3. IsFiniteSet(BytesOf(allocs, On(allocs, r)))
        BY OnFinite, Zenon
      <3> QED
        <4>1. PICK B : B = BytesOf(allocs, On(allocs, r))
          OBVIOUS
        <4>2. Cardinality(B \cup Block(a, cap)) = Cardinality(B) + cap
          BY <3>2, <3>3, <4>1, OneMore, Zenon
        <4> QED
          BY <3>2, <4>1, <4>2
    <2>6. ASSUME NEW q \in Resources, q # r
          PROVE  Cardinality(BytesOf(allocs', On(allocs', q))) = Cardinality(BytesOf(allocs, On(allocs, q)))
      <3>1. On(allocs', q) = On(allocs, q) /\ On(allocs, q) \subseteq Allocs /\ a \notin On(allocs, q)
        BY <2>2, <2>3, <2>6 DEF On
      <3>2. \A x \in On(allocs, q) : allocs[x].capacity_bytes = allocs'[x].capacity_bytes
        BY <2>2, <3>1
      <3> QED
        BY <3>1, <3>2, BytesSame
    <2>7. /\ live_by_resource'[r] = live_by_resource[r] + cap
          /\ \A q \in Resources : q # r => live_by_resource'[q] = live_by_resource[q]
          /\ live_bytes \in Nat /\ peak_bytes \in Nat
      BY <2>1 DEF TypeOK
    <2>8. CountersExact'
      <3>1. live_bytes' <= peak_bytes'
        BY <2>1, <2>7
      <3> QED
        BY <2>1, <2>4, <2>5, <2>6, <2>7, <3>1, Zenon DEF Charged, CountersExact
    <2>9. ASSUME NEW x \in Allocs
          PROVE  IF Present(x)' THEN allocs'[x].resource \in Resources
                 ELSE allocs'[x].capacity_bytes = 0 /\ allocs'[x].resource = None
      BY <2>2 DEF Charged, Present
    <2> QED
      BY <2>4, <2>8, <2>9 DEF Charged
  <1> QED
    BY <1>1, <1>2

LEMMA ReleaseCharges ==
    ASSUME TypeOK, Charged, NEW a \in Allocs, Release(a)
    PROVE  Charged'
  <1>0. allocs \in [Allocs -> PhysicalAllocation] /\ \A x \in Allocs : allocs[x].reference_count \in Nat
    BY FieldTypes DEF TypeOK
  <1>1. CASE allocs[a].reference_count > 1 \/ ~Present(a)
    <2>1. /\ \/ allocs' = [allocs EXCEPT ![a].reference_count = @ - 1] /\ allocs[a].reference_count > 1
             \/ allocs' = allocs
          /\ UNCHANGED <<live_bytes, peak_bytes, live_by_resource>>
      BY <1>0, <1>1 DEF Release, Present
    <2>2. \A x \in Allocs : /\ allocs'[x].capacity_bytes = allocs[x].capacity_bytes
                            /\ allocs'[x].resource = allocs[x].resource
                            /\ allocs'[x].reference_count > 0 <=> allocs[x].reference_count > 0
      BY <1>0, <2>1 DEF PhysicalAllocation
    <2>3. BytesOf(allocs', Allocs) = BytesOf(allocs, Allocs)
      BY <2>2, BytesSame, Zenon
    <2>4. ASSUME NEW q \in Resources
          PROVE  On(allocs', q) = On(allocs, q) /\ BytesOf(allocs', On(allocs, q)) = BytesOf(allocs, On(allocs, q))
      <3>1. On(allocs', q) = On(allocs, q) /\ On(allocs, q) \subseteq Allocs
        BY <2>2 DEF On
      <3> QED
        BY <2>2, <3>1, BytesSame
    <2>5. CountersExact'
      BY <2>1, <2>3, <2>4, ZenonT(30) DEF Charged, CountersExact
    <2> QED
      BY <2>2, <2>3, <2>5 DEF Charged, Present
  <1>2. CASE ~(allocs[a].reference_count > 1) /\ Present(a)
    <2> DEFINE n == allocs[a].capacity_bytes
               r == allocs[a].resource
    <2>1. /\ allocs' = [allocs EXCEPT ![a] = NoAllocation]
          /\ live_bytes' = SaturatingSub(live_bytes, n)
          /\ live_by_resource' = [live_by_resource EXCEPT ![r] = SaturatingSub(@, n)]
          /\ peak_bytes' = peak_bytes
      BY <1>2 DEF Release
    <2>2. n \in Nat /\ r \in Resources
      BY <1>2, FieldTypes DEF Charged
    <2>3. /\ allocs'[a].capacity_bytes = 0 /\ allocs'[a].resource = None /\ allocs'[a].reference_count = 0
          /\ \A x \in Allocs : x # a => allocs'[x] = allocs[x]
      BY <1>0, <2>1 DEF NoAllocation
    <2> HIDE DEF n, r
    <2>4. IsFiniteSet(BytesOf(allocs', Allocs))
          /\ Cardinality(BytesOf(allocs, Allocs)) = Cardinality(BytesOf(allocs', Allocs)) + n
      <3>1. /\ BytesOf(allocs, Allocs) = BytesOf(allocs', Allocs) \cup Block(a, n)
            /\ BytesOf(allocs', Allocs) \cap Block(a, n) = {}
        <4>1. SameBut(allocs', allocs, Allocs, a)
          BY <2>3 DEF SameBut
        <4>2. allocs[a].capacity_bytes = n
          BY Zenon DEF n
        <4> QED
          BY <2>2, <2>3, <4>1, <4>2, BytesWith
      <3>2. IsFiniteSet(BytesOf(allocs', Allocs))
        BY <3>1, FS_Subset DEF Charged
      <3> QED
        <4>1. PICK B : B = BytesOf(allocs', Allocs)
          OBVIOUS
        <4>2. Cardinality(B \cup Block(a, n)) = Cardinality(B) + n
          BY <2>2, <3>1, <3>2, <4>1, OneMore, ZenonT(30)
        <4> QED
          BY <3>1, <3>2, <4>1, <4>2
    <2>5. Cardinality(BytesOf(allocs, On(allocs, r))) = Cardinality(BytesOf(allocs', On(allocs', r))) + n
          /\ Cardinality(BytesOf(allocs', On(allocs', r))) \in Nat
      <3>1. a \in On(allocs, r) /\ On(allocs, r) \ {a} = On(allocs', r) \ {a} /\ a \notin On(allocs', r)
            /\ On(allocs', r) \subseteq Allocs
        BY <2>2, <2>3, Zenon DEF On, r
      <3>2. /\ BytesOf(allocs, On(allocs, r)) = BytesOf(allocs', On(allocs', r)) \cup Block(a, n)
            /\ BytesOf(allocs', On(allocs', r)) \cap Block(a, n) = {}
        <4>1. SameBut(allocs', allocs, On(allocs', r), a)
          BY <2>3, <3>1 DEF SameBut
        <4>2. allocs[a].capacity_bytes = n
          BY DEF n
        <4> QED
          BY <2>2, <2>3, <3>1, <4>1, <4>2, BytesWith
      <3>3. IsFiniteSet(BytesOf(allocs', On(allocs', r)))
        BY <3>2, OnFinite, FS_Subset
      <3>4. Cardinality(BytesOf(allocs', On(allocs', r))) \in Nat
        BY <3>3, FS_CardinalityType, ZenonT(30)
      <3> QED
        BY <2>2, <3>2, <3>3, <3>4, OneMore
    <2>6. ASSUME NEW q \in Resources, q # r
          PROVE  Cardinality(BytesOf(allocs', On(allocs', q))) = Cardinality(BytesOf(allocs, On(allocs, q)))
      <3>1. On(allocs', q) = On(allocs, q) /\ On(allocs, q) \subseteq Allocs /\ a \notin On(allocs, q)
        BY <2>2, <2>3, <2>6 DEF On, r
      <3>2. \A x \in On(allocs, q) : allocs[x].capacity_bytes = allocs'[x].capacity_bytes
        BY <2>3, <3>1
      <3> QED
        BY <3>1, <3>2, BytesSame
    <2>7. /\ live_by_resource'[r] = SaturatingSub(live_by_resource[r], n)
          /\ \A q \in Resources : q # r => live_by_resource'[q] = live_by_resource[q]
          /\ live_bytes \in Nat /\ peak_bytes \in Nat /\ live_by_resource[r] \in Nat
      BY <2>1, <2>2, ZenonT(30) DEF TypeOK
    <2>8. CountersExact'
      <3>1. Cardinality(BytesOf(allocs', Allocs)) \in Nat
        BY <2>4, FS_CardinalityType, Zenon
      <3>2. live_bytes' = live_bytes - n /\ live_bytes' = Cardinality(BytesOf(allocs', Allocs))
        BY <2>1, <2>2, <2>4, <2>7, <3>1 DEF SaturatingSub, Charged, CountersExact
      <3>3. live_bytes' <= peak_bytes'
        BY <2>1, <2>2, <2>7, <3>2 DEF Charged, CountersExact
      <3>4. live_by_resource'[r] = Cardinality(BytesOf(allocs', On(allocs', r)))
        BY <2>2, <2>5, <2>7 DEF SaturatingSub, Charged, CountersExact
      <3> QED
        BY <2>2, <2>6, <2>7, <3>2, <3>3, <3>4 DEF Charged, CountersExact
    <2>9. ASSUME NEW x \in Allocs
          PROVE  IF Present(x)' THEN allocs'[x].resource \in Resources
                 ELSE allocs'[x].capacity_bytes = 0 /\ allocs'[x].resource = None
      BY <2>3 DEF Charged, Present
    <2> QED
      BY <2>4, <2>8, <2>9 DEF Charged
  <1> QED
    BY <1>1, <1>2

LEMMA InitCharged == Init => Charged
  <1> SUFFICES ASSUME Init PROVE Charged
    OBVIOUS
  <1>1. \A a \in Allocs : /\ allocs[a].capacity_bytes = 0 /\ allocs[a].resource = None
                          /\ allocs[a].reference_count = 0
    BY DEF Init, NoAllocation
  <1>2. ASSUME NEW S, S \subseteq Allocs PROVE BytesOf(allocs, S) = {}
    <2>1. \A a \in S : Block(a, allocs[a].capacity_bytes) = {}
      BY <1>1, <1>2 DEF Block
    <2> QED
      BY <2>1 DEF BytesOf
  <1>3. \A r : On(allocs, r) \subseteq Allocs
    BY DEF On
  <1>4. CountersExact
    BY <1>2, <1>3, FS_EmptySet DEF Init, CountersExact
  <1> QED
    BY <1>1, <1>2, <1>4, FS_EmptySet DEF Charged, Present

LEMMA NextCharged == IInv /\ Charged /\ [Next]_vars => Charged'
  <1> SUFFICES ASSUME IInv, Charged, [Next]_vars PROVE Charged'
    OBVIOUS
  <1>1. CASE UNCHANGED tableVars
    BY <1>1 DEF Charged, CountersExact, Present, tableVars
  <1> QED
    BY <1>1, TableSteps, RegisterCharges, ReleaseCharges DEF IInv

-----------------------------------------------------------------------------
(* The theorems. *)

\* The store's invariant holds in every reachable state.
THEOREM Invariance == Spec => []IInv
  BY InitIInv, NextIInv, PTL DEF Spec

\* Type correctness of the residency store.
THEOREM TypeCorrect == Spec => []TypeOK
  BY Invariance, PTL DEF IInv

\* Allocation reference counts equal the copies and calls that hold them,
\* through every interleaving of put, alias, replicate and release_copy.
THEOREM ReferenceCounting == Spec => []RefCountsExact
  BY Invariance, PTL DEF IInv

\* No valid copy is older than its tensor: replicate and alias re-check.
THEOREM NoStaleCopies == Spec => []ValidCopiesCurrent
  BY Invariance, PTL DEF IInv

\* One authoritative copy of each tensor at most.
THEOREM SingleAuthority == Spec => []OneAuthoritative
  BY Invariance, PTL DEF IInv

\* The registered bytes of a resource stay under its ceiling.
THEOREM CeilingsHold == Spec => []CapacityRespected
  BY Invariance, PTL DEF IInv

\* The store's byte totals, overall and per resource, are exactly the bytes of
\* the allocations that are registered, and the peak covers them: release,
\* which saturates at zero, never has to.
THEOREM TotalsExact == Spec => []CountersExact
  <1>1. Charged => CountersExact
    BY DEF Charged
  <1> QED
    BY InitCharged, Invariance, NextCharged, <1>1, PTL DEF Spec
====
