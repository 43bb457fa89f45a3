------------------------ MODULE ParameterStoreProofs ------------------------
(***************************************************************************)
(* The decoded tensors of a pack stay within the RAM budget, for every     *)
(* number of forwards, every pack and every budget.                        *)
(*                                                                         *)
(* The budget alone is not inductive: the commit of a load moves its bytes *)
(* from _staging to _cache, and keeps the sum only if the reservation of   *)
(* that load is still there.  So the invariant also says that a reading    *)
(* thread of an open store has its key in _staging, that it is alone with  *)
(* that key, and that no key is both staged and cached.                    *)
(***************************************************************************)
EXTENDS ParameterStore, FiniteSetTheorems, TLAPS

(* The provers a leaf is tried with, unless it names its own.              *)
USE SMT, Zenon, SMTT(30)

Steps == {"run", "waitAcquire", "wokenAcquire", "load", "waitLoad", "wokenLoad", "read", "signal",
          "signalFailed", "pin", "failed", "done", "ended"}
Labelled == pc \in [Forwards -> Steps] /\ key \in [Forwards -> Keys \cup {None}]

\* A thread past the head of acquire has a key.
Keyed == \A f \in Forwards : pc[f] \in {"waitAcquire", "wokenAcquire", "load", "read"} => key[f] \in Keys

\* What a reading thread has reserved.
Reserved ==
  /\ \A f \in Forwards : pc[f] = "read" /\ ~closed => key[f] \in staging
  /\ \A f, g \in Forwards : pc[f] = "read" /\ pc[g] = "read" /\ key[f] = key[g] => f = g

Ledger ==
  /\ cache \subseteq Keys /\ staging \subseteq Keys /\ cache \cap staging = {}
  /\ closed => cache = {} /\ staging = {}
  /\ Bytes(cache) + Bytes(staging) <= Budget

Inv == Labelled /\ Keyed /\ Reserved /\ Ledger

----------------------------------------------------------------------------
(* The bytes of a set of blocks.                                           *)

LEMMA BytesFinite ==
    ASSUME ParameterAssumption, NEW S \in SUBSET Keys
    PROVE  /\ IsFiniteSet(UNION {Block(k) : k \in S})
           /\ Bytes(S) \in Nat
  <1>1. \A k \in S : IsFiniteSet(Block(k))
    <2> TAKE k \in S
    <2>0. Size[k] \in Nat
      BY DEF ParameterAssumption
    <2>1. IsFiniteSet(1 .. Size[k])
      BY <2>0, FS_Interval
    <2>2. IsFiniteSet({k})
      BY FS_Singleton, Zenon
    <2> QED
      BY <2>1, <2>2, FS_Product, Zenon DEF Block
  <1>2. IsFiniteSet(S)
    BY FS_Subset DEF ParameterAssumption
  <1>3. IsFiniteSet({Block(k) : k \in S})
    <2> DEFINE T == {Block(k) : k \in S}
               blocks == [k \in S |-> Block(k)]
    <2>1. blocks \in Surjection(S, T)
      BY DEF Surjection
    <2> HIDE DEF T, blocks
    <2>2. IsFiniteSet(T)
      BY <1>2, <2>1, FS_Surjection
    <2> QED
      BY <2>2 DEF T
  <1>4. IsFiniteSet(UNION {Block(k) : k \in S})
    BY <1>1, <1>3, FS_UNION, Zenon
  <1> QED
    BY <1>4, FS_CardinalityType DEF Bytes

\* Fewer blocks have no more bytes.
LEMMA BytesMonotone ==
    ASSUME ParameterAssumption, NEW T \in SUBSET Keys, NEW S \in SUBSET T
    PROVE  Bytes(S) <= Bytes(T)
  <1>1. UNION {Block(k) : k \in S} \subseteq UNION {Block(k) : k \in T}
    OBVIOUS
  <1> QED
    BY <1>1, BytesFinite, FS_Subset DEF Bytes

\* One more block has the bytes of that block more.
LEMMA BytesOneMore ==
    ASSUME ParameterAssumption, NEW S \in SUBSET Keys, NEW k \in Keys, k \notin S
    PROVE  Bytes(S \cup {k}) = Bytes(S) + Size[k]
  <1> DEFINE B == UNION {Block(j) : j \in S}
             C == UNION {Block(j) : j \in S \cup {k}}
  <1>1. C = B \cup Block(k)
    OBVIOUS
  <1>2. B \cap Block(k) = {}
    BY DEF Block
  <1>3. Size[k] \in Nat
    BY DEF ParameterAssumption
  <1>4. IsFiniteSet(Block(k)) /\ Cardinality(Block(k)) = Size[k]
    <2>1. IsFiniteSet(1 .. Size[k]) /\ Cardinality(1 .. Size[k]) = Size[k]
      BY <1>3, FS_Interval
    <2>2. IsFiniteSet({k}) /\ Cardinality({k}) = 1
      BY FS_Singleton
    <2>3. IsFiniteSet(Block(k)) /\ Cardinality(Block(k)) = Cardinality({k}) * Cardinality(1 .. Size[k])
      BY <2>1, <2>2, FS_Product, Zenon DEF Block
    <2> QED
      BY <1>3, <2>1, <2>2, <2>3
  <1>5. IsFiniteSet(B) /\ Cardinality(B) \in Nat
    BY BytesFinite, FS_CardinalityType, Zenon
  <1> HIDE DEF B, C
  <1>6. Cardinality(C) = Cardinality(B) + Cardinality(Block(k)) - Cardinality({})
    BY <1>1, <1>2, <1>4, <1>5, FS_Union
  <1>7. Cardinality(C) = Cardinality(B) + Size[k]
    BY <1>3, <1>4, <1>5, <1>6, FS_EmptySet
  <1> QED
    BY <1>7 DEF Bytes, B, C


----------------------------------------------------------------------------
(* What the helpers of the actions do to the ledger.                       *)

\* Eviction spares a part of what is cached.
LEMMA SparedIsCached ==
    ASSUME NEW pins, NEW incoming
    PROVE  Spared(pins, incoming) \subseteq cache
  BY DEF Spared

\* With fewer entries and reservations the ledger holds.
LEMMA LedgerShrinks ==
    ASSUME ParameterAssumption, Ledger, NEW c, NEW s, c \subseteq cache, s \subseteq staging
    PROVE  /\ c \subseteq Keys /\ s \subseteq Keys /\ c \cap s = {}
           /\ Bytes(c) + Bytes(s) <= Budget
  <1>1. c \in SUBSET Keys /\ s \in SUBSET Keys /\ cache \in SUBSET Keys /\ staging \in SUBSET Keys /\ c \cap s = {}
    BY DEF Ledger
  <1>2. Bytes(c) <= Bytes(cache) /\ Bytes(s) <= Bytes(staging)
    BY <1>1, BytesMonotone
  <1>3. Bytes(c) \in Nat /\ Bytes(s) \in Nat /\ Bytes(cache) \in Nat /\ Bytes(staging) \in Nat
    BY <1>1, BytesFinite, Zenon
  <1>4. Bytes(cache) + Bytes(staging) <= Budget /\ Budget \in Nat
    BY DEF Ledger, ParameterAssumption
  <1> QED
    BY <1>1, <1>2, <1>3, <1>4

\* A forward that wakes is not reading, and has the key it waited with.
LEMMA WokenKeepsReaders ==
    ASSUME Labelled, Keyed, NEW w
    PROVE  /\ Woken(w) \in [Forwards -> Steps]
           /\ \A f \in Forwards : Woken(w)[f] = "read" => pc[f] = "read"
           /\ \A f \in Forwards :
                Woken(w)[f] \in {"waitAcquire", "wokenAcquire", "load", "read"} => key[f] \in Keys
  <1>1. Woken(w) \in [Forwards -> Steps]
    BY DEF Woken, Labelled, Steps
  <1>2. ASSUME NEW f \in Forwards
        PROVE  /\ Woken(w)[f] = "read" => pc[f] = "read"
               /\ Woken(w)[f] \in {"waitAcquire", "wokenAcquire", "load", "read"} => key[f] \in Keys
    <2>1. Woken(w)[f] = IF f \in w THEN IF pc[f] = "waitAcquire" THEN "wokenAcquire" ELSE "wokenLoad"
                                   ELSE pc[f]
      BY DEF Woken
    <2> QED
      BY <2>1 DEF Keyed
  <1> QED
    BY <1>1, <1>2


\* A step that starts no read, and keeps the reservations of an open store,
\* keeps the readers sound.
LEMMA NoNewReader ==
    ASSUME Reserved,
           \A f \in Forwards : pc'[f] = "read" => pc[f] = "read" /\ key'[f] = key[f],
           ~closed' => ~closed /\ staging \subseteq staging'
    PROVE  Reserved'
  BY DEF Reserved

\* A step that changes neither the entries nor the reservations of the store.
LEMMA SameLedger ==
    ASSUME Ledger, cache' = cache, staging' = staging, closed' <=> closed
    PROVE  Ledger'
  BY DEF Ledger

----------------------------------------------------------------------------
(* One lemma per action.                                                   *)

\* A move of one thread to a step that reads nothing.
LEMMA Moves ==
    ASSUME Labelled, Keyed, Reserved, NEW f \in Forwards, NEW l \in Steps, l # "read",
           pc' = [pc EXCEPT ![f] = l], closed' <=> closed, staging' = staging,
           \/ key' = key /\ (l \in {"waitAcquire", "wokenAcquire", "load"} => key[f] \in Keys)
           \/ \E k \in Keys : key' = [key EXCEPT ![f] = k]
    PROVE  Labelled' /\ Keyed' /\ Reserved'
  <1>1. Labelled'
    BY DEF Labelled
  <1>2. \A g \in Forwards : pc'[g] = IF g = f THEN l ELSE pc[g]
    BY DEF Labelled
  <1>3. \A g \in Forwards : g # f => key'[g] = key[g]
    BY DEF Labelled
  <1>4. l \in {"waitAcquire", "wokenAcquire", "load"} => key'[f] \in Keys
    BY DEF Labelled
  <1>5. Keyed'
    BY <1>2, <1>3, <1>4 DEF Keyed
  <1>6. Reserved'
    BY <1>2, <1>3, NoNewReader
  <1> QED
    BY <1>1, <1>5, <1>6

LEMMA AcquireStep ==
    ASSUME ParameterAssumption, Inv, NEW f \in Forwards, NEW k \in Keys, Acquire(f, k)
    PROVE  Inv'
  <1>1. key' = [key EXCEPT ![f] = k] /\ staging' = staging /\ (closed' <=> closed)
    BY DEF Acquire
  <1>2. cache' = cache
    BY DEF Acquire, Touch, lru
  <1>3. \E l \in {"run", "waitAcquire", "load"} : pc' = [pc EXCEPT ![f] = l]
    BY DEF Acquire, Pin, Goto
  <1>4. Labelled' /\ Keyed' /\ Reserved'
    <2>1. PICK l \in {"run", "waitAcquire", "load"} : pc' = [pc EXCEPT ![f] = l]
      BY <1>3, Zenon
    <2>2. l \in Steps /\ l # "read"
      BY DEF Steps
    <2> QED
      BY <1>1, <2>1, <2>2, Moves, Zenon DEF Inv
  <1>5. Ledger'
    BY <1>1, <1>2, SameLedger DEF Inv
  <1> QED
    BY <1>4, <1>5 DEF Inv

\* The steps that move one thread and leave the entries alone.
LEMMA QuietSteps ==
    ASSUME ParameterAssumption, Inv, NEW f \in Forwards,
           AcquireAgain(f) \/ LoadAgain(f) \/ PinLoaded(f) \/ Finish(f) \/ Abandon(f)
    PROVE  Inv'
  <1>1. key' = key /\ staging' = staging /\ (closed' <=> closed)
    BY DEF AcquireAgain, LoadAgain, PinLoaded, Finish, Abandon
  <1>2. cache' = cache
    BY Zenon DEF AcquireAgain, LoadAgain, PinLoaded, Finish, Abandon, Touch, lru
  <1>3. \E l \in {"run", "load", "pin", "failed", "done", "ended"} :
           pc' = [pc EXCEPT ![f] = l] /\ (l = "load" => pc[f] = "wokenAcquire")
    BY DEF AcquireAgain, LoadAgain, PinLoaded, Finish, Abandon, Pin, Goto
  <1>4. Labelled' /\ Keyed' /\ Reserved'
    <2>1. PICK l \in {"run", "load", "pin", "failed", "done", "ended"} :
             pc' = [pc EXCEPT ![f] = l] /\ (l = "load" => pc[f] = "wokenAcquire")
      BY <1>3, Zenon
    <2>2. l \in Steps /\ l # "read"
      BY DEF Steps
    <2>3. l \in {"waitAcquire", "wokenAcquire", "load"} => key[f] \in Keys
      BY <2>1 DEF Inv, Keyed
    <2> QED
      BY <1>1, <2>1, <2>2, <2>3, Moves, Zenon DEF Inv
  <1>5. Ledger'
    BY <1>1, <1>2, SameLedger DEF Inv
  <1> QED
    BY <1>4, <1>5 DEF Inv

LEMMA ReleaseStep ==
    ASSUME ParameterAssumption, Inv, NEW f \in Forwards, NEW k \in Keys, Release(f, k)
    PROVE  Inv'
  <1>1. key' = key /\ pc' = pc /\ staging' = staging /\ (closed' <=> closed)
    BY DEF Release
  <1>2. cache' \subseteq cache
    <2>1. cache' = Spared(pinned', 0)
      BY DEF Release, Keep
    <2> QED
      BY <2>1, SparedIsCached
  <1>3. Labelled' /\ Keyed' /\ Reserved'
    BY <1>1 DEF Inv, Labelled, Keyed, Reserved
  <1>4. Ledger'
    <2>1. /\ cache' \subseteq Keys /\ staging' \subseteq Keys /\ cache' \cap staging' = {}
          /\ Bytes(cache') + Bytes(staging') <= Budget
      BY <1>1, <1>2, LedgerShrinks DEF Inv
    <2>2. closed' => cache' = {} /\ staging' = {}
      BY <1>1, <1>2 DEF Inv, Ledger
    <2> QED
      BY <2>1, <2>2 DEF Ledger
  <1> QED
    BY <1>3, <1>4 DEF Inv

LEMMA SignalStep ==
    ASSUME ParameterAssumption, Inv, NEW f \in Forwards, Signal(f)
    PROVE  Inv'
  <1>1. key' = key /\ staging' = staging /\ (closed' <=> closed) /\ cache' = cache
    BY DEF Signal, lru
  <1>2. PICK w : pc' = [Woken(w) EXCEPT ![f] = IF @ = "signal" THEN "pin" ELSE "failed"]
    BY DEF Signal
  <1>3. /\ Woken(w) \in [Forwards -> Steps]
        /\ \A g \in Forwards : Woken(w)[g] = "read" => pc[g] = "read"
        /\ \A g \in Forwards :
             Woken(w)[g] \in {"waitAcquire", "wokenAcquire", "load", "read"} => key[g] \in Keys
    BY WokenKeepsReaders DEF Inv
  <1>4. /\ pc' \in [Forwards -> Steps]
        /\ \A g \in Forwards : pc'[g] = Woken(w)[g] \/ pc'[g] \in {"pin", "failed"}
    BY <1>2, <1>3 DEF Steps
  <1>5. Labelled' /\ Keyed'
    BY <1>1, <1>3, <1>4 DEF Inv, Labelled, Keyed
  <1>6. Reserved'
    <2>1. \A g \in Forwards : pc'[g] = "read" => pc[g] = "read" /\ key'[g] = key[g]
      BY <1>1, <1>3, <1>4
    <2> QED
      BY <1>1, <2>1, NoNewReader DEF Inv
  <1>7. Ledger'
    BY <1>1, SameLedger DEF Inv
  <1> QED
    BY <1>5, <1>6, <1>7 DEF Inv

LEMMA CloseStep ==
    ASSUME ParameterAssumption, Inv, Close
    PROVE  Inv'
  <1>1. key' = key /\ closed' /\ staging' = {} /\ cache' = {}
    BY DEF Close
  <1>2. PICK w : pc' = Woken(w)
    BY DEF Close
  <1>3. /\ Woken(w) \in [Forwards -> Steps]
        /\ \A g \in Forwards : Woken(w)[g] = "read" => pc[g] = "read"
        /\ \A g \in Forwards :
             Woken(w)[g] \in {"waitAcquire", "wokenAcquire", "load", "read"} => key[g] \in Keys
    BY WokenKeepsReaders DEF Inv
  <1>4. Labelled' /\ Keyed'
    BY <1>1, <1>2, <1>3 DEF Inv, Labelled, Keyed
  <1>5. Reserved'
    BY <1>1, <1>2, <1>3, NoNewReader DEF Inv
  <1>6. Ledger'
    BY <1>1, LedgerShrinks DEF Inv, Ledger
  <1> QED
    BY <1>4, <1>5, <1>6 DEF Inv

\* A granted reservation fits, and its thread is alone with its key.
LEMMA ReserveStep ==
    ASSUME ParameterAssumption, Inv, NEW f \in Forwards, Reserve(f)
    PROVE  Inv'
  <1> DEFINE k == key[f]
             room == Spared(pinned, Size[k])
  <1>0. k \in Keys
    BY DEF Reserve, Inv, Keyed
  <1>1. key' = key /\ (closed' <=> closed)
    BY DEF Reserve
  <1>2. CASE staging' = staging /\ cache' \subseteq cache
             /\ \E l \in {"failed", "pin", "waitLoad"} : pc' = [pc EXCEPT ![f] = l]
    <2>1. PICK l \in {"failed", "pin", "waitLoad"} : pc' = [pc EXCEPT ![f] = l]
      BY <1>2, Zenon
    <2>2. l \in Steps /\ l # "read" /\ l \notin {"waitAcquire", "wokenAcquire", "load"}
      BY DEF Steps
    <2>3. Labelled' /\ Keyed' /\ Reserved'
      BY <1>1, <1>2, <2>1, <2>2, Moves, Zenon DEF Inv
    <2>4. /\ cache' \subseteq Keys /\ staging' \subseteq Keys /\ cache' \cap staging' = {}
          /\ Bytes(cache') + Bytes(staging') <= Budget
      BY <1>2, LedgerShrinks DEF Inv
    <2>5. closed' => cache' = {} /\ staging' = {}
      BY <1>1, <1>2 DEF Inv, Ledger
    <2> QED
      BY <2>3, <2>4, <2>5 DEF Inv, Ledger
  <1>3. CASE /\ ~closed /\ k \notin cache /\ k \notin staging
             /\ cache' = room /\ staging' = staging \cup {k} /\ pc' = [pc EXCEPT ![f] = "read"]
             /\ ~(Resident(room, staging) + Size[k] > Budget)
    <2>1. room \subseteq cache
      BY SparedIsCached
    <2>2. \A g \in Forwards : pc'[g] = IF g = f THEN "read" ELSE pc[g]
      BY <1>3 DEF Inv, Labelled
    <2>3. Labelled'
      BY <1>1, <1>3 DEF Inv, Labelled, Steps
    <2>4. Keyed'
      BY <1>0, <1>1, <2>2 DEF Inv, Keyed
    <2>5. Reserved'
      BY <1>1, <1>3, <2>2 DEF Inv, Reserved
    <2>6. staging \in SUBSET Keys /\ room \in SUBSET Keys /\ room \cap staging = {}
      BY <2>1 DEF Inv, Ledger
    <2>7. Bytes(room) \in Nat /\ Bytes(staging) \in Nat /\ Size[k] \in Nat /\ Budget \in Nat
      BY <1>0, <2>6, BytesFinite, Zenon DEF ParameterAssumption
    <2>8. Bytes(staging \cup {k}) = Bytes(staging) + Size[k]
      BY <1>0, <1>3, <2>6, BytesOneMore
    <2>9. ~(Bytes(room) + Bytes(staging) + Size[k] > Budget)
      BY <1>3 DEF Resident
    <2>10. Bytes(cache') + Bytes(staging') <= Budget
      <3> HIDE DEF k, room
      <3> QED
        BY <1>3, <2>7, <2>8, <2>9
    <2>11. Ledger'
      BY <1>0, <1>1, <1>3, <2>1, <2>6, <2>10 DEF Ledger
    <2> QED
      BY <2>3, <2>4, <2>5, <2>11 DEF Inv
  <1> QED
    <2>1. room \subseteq cache
      BY SparedIsCached
    <2> HIDE DEF room
    <2>2. \/ staging' = staging /\ cache' = cache /\ \E l \in {"failed", "pin", "waitLoad"} : pc' = [pc EXCEPT ![f] = l]
          \/ staging' = staging /\ cache' = room /\ pc' = [pc EXCEPT ![f] = "failed"]
          \/ /\ ~closed /\ k \notin cache /\ k \notin staging
             /\ cache' = room /\ staging' = staging \cup {k} /\ pc' = [pc EXCEPT ![f] = "read"]
             /\ ~(Resident(room, staging) + Size[k] > Budget)
      BY DEF Reserve, Keep, Goto, lru, room
    <2> QED
      BY <1>2, <1>3, <2>1, <2>2

\* A commit moves the bytes it has reserved.
LEMMA CommitStep ==
    ASSUME ParameterAssumption, Inv, NEW f \in Forwards, Commit(f)
    PROVE  Inv'
  <1> DEFINE k == key[f]
  <1>0. pc[f] = "read" /\ k \in Keys
    BY DEF Commit, Inv, Keyed
  <1>1. key' = key /\ (closed' <=> closed) /\ staging' = staging \ {k}
    BY DEF Commit
  <1>2. PICK l \in {"signal", "signalFailed"} : pc' = [pc EXCEPT ![f] = l]
    BY DEF Commit, Goto
  <1>3. \A g \in Forwards : pc'[g] = IF g = f THEN l ELSE pc[g]
    BY <1>2 DEF Inv, Labelled
  <1>4. Labelled'
    BY <1>1, <1>2 DEF Inv, Labelled, Steps
  <1>5. Keyed'
    BY <1>1, <1>3 DEF Inv, Keyed
  <1>6. Reserved'
    BY <1>0, <1>1, <1>3 DEF Inv, Reserved
  <1>7. CASE cache' = cache
    <2>1. /\ cache' \subseteq Keys /\ staging' \subseteq Keys /\ cache' \cap staging' = {}
          /\ Bytes(cache') + Bytes(staging') <= Budget
      BY <1>1, <1>7, LedgerShrinks DEF Inv
    <2>2. closed' => cache' = {} /\ staging' = {}
      BY <1>1, <1>7 DEF Inv, Ledger
    <2> QED
      BY <1>4, <1>5, <1>6, <2>1, <2>2 DEF Inv, Ledger
  <1>8. CASE ~closed /\ cache' = cache \cup {k}
    <2>1. k \in staging /\ k \notin cache
      BY <1>0, <1>8 DEF Inv, Reserved, Ledger
    <2> DEFINE rest == staging \ {k}
    <2>2. rest \in SUBSET Keys /\ cache \in SUBSET Keys /\ k \notin rest /\ staging = rest \cup {k}
      BY <2>1 DEF Inv, Ledger
    <2> HIDE DEF rest
    <2>3. Bytes(staging) = Bytes(rest) + Size[k] /\ Bytes(cache \cup {k}) = Bytes(cache) + Size[k]
      BY <1>0, <2>1, <2>2, BytesOneMore
    <2>4. Bytes(rest) \in Nat /\ Bytes(cache) \in Nat /\ Size[k] \in Nat /\ Budget \in Nat
      BY <1>0, <2>2, BytesFinite, Zenon DEF ParameterAssumption
    <2>5. Bytes(cache) + Bytes(staging) <= Budget
      BY DEF Inv, Ledger
    <2>6. Bytes(cache \cup {k}) + Bytes(rest) <= Budget
      <3> HIDE DEF k
      <3> QED
        BY <2>3, <2>4, <2>5
    <2>7. Ledger'
      BY <1>0, <1>1, <1>8, <2>2, <2>6 DEF Inv, Ledger, rest
    <2> QED
      BY <1>4, <1>5, <1>6, <2>7 DEF Inv
  <1> QED
    BY <1>7, <1>8 DEF Commit, Touch, lru

----------------------------------------------------------------------------
LEMMA InitInv ==
    ASSUME ParameterAssumption, Init
    PROVE  Inv
  <1>1. Labelled /\ Keyed /\ Reserved
    BY DEF Init, Labelled, Keyed, Reserved, Steps
  <1>2. Bytes({}) = 0
    <2>1. UNION {Block(k) : k \in {}} = {}
      OBVIOUS
    <2> QED
      BY <2>1, FS_EmptySet DEF Bytes
  <1>3. Ledger
    BY <1>2 DEF Init, Ledger, ParameterAssumption
  <1> QED
    BY <1>1, <1>3 DEF Inv

LEMMA NextInv ==
    ASSUME ParameterAssumption, Inv, [Next]_vars
    PROVE  Inv'
  <1>1. CASE UNCHANGED vars \/ Over
    BY <1>1 DEF vars, lru, Over, Inv, Labelled, Keyed, Reserved, Ledger
  <1>2. CASE Close
    BY <1>2, CloseStep
  <1>3. CASE \E f \in Forwards : Step(f)
    <2>1. PICK f \in Forwards : Step(f)
      BY <1>3
    <2> QED
      BY <2>1, AcquireStep, QuietSteps, ReleaseStep, SignalStep, ReserveStep, CommitStep DEF Step
  <1> QED
    BY <1>1, <1>2, <1>3 DEF Next

LEMMA InvGivesLedger ==
    ASSUME Inv
    PROVE  LedgerWithinBudget
  <1>1. ASSUME NEW k \in Keys
        PROVE  Cardinality({f \in Forwards : pc[f] = "read" /\ key[f] = k}) <= 1
    <2> DEFINE R == {f \in Forwards : pc[f] = "read" /\ key[f] = k}
    <2>1. CASE R = {}
      BY <2>1, FS_EmptySet
    <2>2. CASE R # {}
      <3>1. PICK f : f \in R
        BY <2>2
      <3>2. R = {f}
        BY <3>1 DEF Inv, Reserved
      <3> QED
        <4>1. Cardinality({f}) = 1
          BY FS_Singleton, Zenon
        <4> HIDE DEF R
        <4>2. Cardinality(R) <= 1
          BY <3>2, <4>1
        <4> QED
          BY <4>2 DEF R
    <2> QED
      BY <2>1, <2>2
  <1> QED
    BY <1>1 DEF Inv, Ledger, LedgerWithinBudget

\* StreamingParameterStore: the decoded tensors and the bytes being read never
\* exceed the budget, each block counted with its bytes in the pack as the
\* store counts it, and no block is read by two threads at a time, for every
\* number of forwards, every pack, every budget and every schedule, whichever
\* loads fail or are abandoned and whenever the store is closed.
THEOREM LedgerStaysWithinBudget ==
    ASSUME ParameterAssumption
    PROVE  Spec => []LedgerWithinBudget
  <1>1. Init => Inv
    BY InitInv
  <1>2. Inv /\ [Next]_vars => Inv'
    BY NextInv
  <1>3. Inv => LedgerWithinBudget
    BY InvGivesLedger
  <1> QED
    BY <1>1, <1>2, <1>3, PTL DEF Spec
=============================================================================
