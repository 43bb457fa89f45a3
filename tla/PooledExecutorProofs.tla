------------------------ MODULE PooledExecutorProofs ------------------------
(***************************************************************************)
(* No schedule makes the pooled executor drop an instruction, run it twice *)
(* or too early, or launch two of one order key, for any schedule, set of  *)
(* callbacks, number of workers and capacity of the channel.               *)
(*                                                                         *)
(* The argument: every instruction is in one place at a time, a step moves *)
(* instructions from one place to another, and the counters follow the     *)
(* places.                                                                 *)
(***************************************************************************)
EXTENDS PooledExecutor, FiniteSetTheorems, TLAPS

(* The provers a leaf is tried with, unless it names its own.              *)
USE Zenon, SMT, SMTT(30)

-----------------------------------------------------------------------------
(* Queues of instructions                                                  *)

(* The queue s holds the instructions X, each of them once.                *)
Lists(s, X) == s \in Seq(Instr) /\ IsInjective(s) /\ Range(s) = X

LEMMA ListsSubset == ASSUME NEW s, NEW X, Lists(s, X) PROVE X \subseteq Instr
  BY DEF Lists, Range

LEMMA NoPositions == DOMAIN <<>> = {}
  OBVIOUS

LEMMA ListsEmpty == Lists(<<>>, {})
  BY DEF Lists, Range, IsInjective

LEMMA ListsLength ==
    ASSUME NEW s, NEW X, Lists(s, X)
    PROVE  /\ IsFiniteSet(X) /\ Cardinality(X) = Len(s) /\ Len(s) \in Nat
           /\ s = <<>> <=> X = {}
           /\ s = <<>> <=> Len(s) = 0
<1>1. s \in Bijection(1..Len(s), X) /\ Len(s) \in Nat /\ DOMAIN s = 1..Len(s)
  BY DEF Lists, Bijection, Injection, Surjection, IsInjective, Range
<1>2. IsFiniteSet(1..Len(s)) /\ Cardinality(1..Len(s)) = Len(s)
  <2>1. Len(s) \in Int /\ 1 \in Int
    BY <1>1
  <2>2. /\ IsFiniteSet(1..Len(s))
        /\ Cardinality(1..Len(s)) = IF 1 > Len(s) THEN 0 ELSE Len(s) - 1 + 1
    BY <2>1, FS_Interval, Zenon
  <2> QED
    BY <1>1, <2>2
<1>3. IsFiniteSet(X) /\ Cardinality(X) = Len(s)
  BY <1>1, <1>2, FS_Bijection DEF ExistsBijection
<1>4. s = <<>> <=> Len(s) = 0
  BY DEF Lists
<1> QED
  BY <1>1, <1>3, <1>4, FS_EmptySet

LEMMA ListsAppend ==
    ASSUME NEW s, NEW X, Lists(s, X), NEW i \in Instr \ X
    PROVE  Lists(Append(s, i), X \cup {i})
<1>1. /\ s \in Seq(Instr) /\ Append(s, i) \in Seq(Instr)
      /\ DOMAIN s = 1..Len(s) /\ DOMAIN Append(s, i) = 1..(Len(s) + 1)
      /\ Len(s) \in Nat
      /\ \A n \in 1..Len(s) : Append(s, i)[n] = s[n]
      /\ Append(s, i)[Len(s) + 1] = i
  BY DEF Lists
<1>2. \A n \in 1..Len(s) : s[n] # i
  BY <1>1 DEF Lists, Range
<1>3. IsInjective(Append(s, i))
  BY <1>1, <1>2 DEF Lists, IsInjective
<1>4. Range(Append(s, i)) = X \cup {i}
  BY <1>1 DEF Lists, Range
<1> QED
  BY <1>1, <1>3, <1>4 DEF Lists

LEMMA ListsTail ==
    ASSUME NEW s, NEW X, Lists(s, X), s # <<>>
    PROVE  Head(s) \in X /\ Lists(Tail(s), X \ {Head(s)}) /\ Len(Tail(s)) = Len(s) - 1
<1>1. /\ s \in Seq(Instr) /\ Tail(s) \in Seq(Instr) /\ Head(s) = s[1]
      /\ Len(s) \in Nat \ {0} /\ DOMAIN s = 1..Len(s) /\ DOMAIN Tail(s) = 1..(Len(s) - 1)
      /\ Len(Tail(s)) = Len(s) - 1
      /\ \A n \in 1..(Len(s) - 1) : Tail(s)[n] = s[n + 1]
  BY DEF Lists
<1>2. IsInjective(Tail(s))
  BY <1>1 DEF Lists, IsInjective
<1>3. Range(Tail(s)) = X \ {Head(s)}
  <2>1. \A n \in 1..Len(s) : n = 1 \/ (n - 1 \in 1..(Len(s) - 1) /\ Tail(s)[n - 1] = s[n])
    BY <1>1
  <2>2. \A n \in 1..(Len(s) - 1) : s[n + 1] # s[1]
    BY <1>1 DEF Lists, IsInjective
  <2>3. \A i \in X : \E n \in 1..Len(s) : s[n] = i
    BY <1>1 DEF Lists, Range
  <2>4. \A n \in 1..(Len(s) - 1) : n + 1 \in 1..Len(s) /\ s[n + 1] \in X
    BY <1>1 DEF Lists, Range
  <2>5. Range(Tail(s)) = {Tail(s)[n] : n \in 1..(Len(s) - 1)}
    BY <1>1 DEF Range
  <2>6. ASSUME NEW i \in X \ {s[1]} PROVE \E n \in 1..(Len(s) - 1) : Tail(s)[n] = i
    BY <2>1, <2>3
  <2>7. \A n \in 1..(Len(s) - 1) : Tail(s)[n] \in X \ {s[1]}
    BY <1>1, <2>2, <2>4
  <2> QED
    BY <1>1, <2>5, <2>6, <2>7
<1> QED
  BY <1>1, <1>2, <1>3 DEF Lists, Range

LEMMA ListsConcat ==
    ASSUME NEW s, NEW X, Lists(s, X), NEW t, NEW Y, Lists(t, Y), X \cap Y = {}
    PROVE  Lists(s \o t, X \cup Y)
<1> DEFINE u == s \o t
<1>1. /\ s \in Seq(Instr) /\ t \in Seq(Instr) /\ u \in Seq(Instr)
      /\ Len(s) \in Nat /\ Len(t) \in Nat
      /\ DOMAIN s = 1..Len(s) /\ DOMAIN t = 1..Len(t) /\ DOMAIN u = 1..(Len(s) + Len(t))
      /\ \A n \in 1..Len(s) : u[n] = s[n]
      /\ \A n \in 1..Len(t) : u[Len(s) + n] = t[n]
  BY DEF Lists
<1>2. \A n \in DOMAIN u : n \in 1..Len(s) \/ n - Len(s) \in 1..Len(t)
  BY <1>1
<1>3. \A n \in 1..Len(t) : Len(s) + n \in DOMAIN u /\ n \in Nat
  BY <1>1
<1> HIDE DEF u
<1>4. \A n \in DOMAIN u : \/ n \in 1..Len(s) /\ u[n] = s[n] /\ u[n] \in X
                          \/ n - Len(s) \in 1..Len(t) /\ u[n] = t[n - Len(s)] /\ u[n] \in Y
  BY <1>1, <1>2 DEF Lists, Range
<1>5. ASSUME NEW m \in DOMAIN u, NEW n \in DOMAIN u, u[m] = u[n] PROVE m = n
  <2>1. m \in Nat /\ n \in Nat
    BY <1>1
  <2>2. CASE u[m] \in X
    BY <1>1, <1>4, <1>5, <2>2 DEF Lists, IsInjective
  <2>3. CASE u[m] \in Y
    <3>1. m - Len(s) = n - Len(s)
      BY <1>1, <1>4, <1>5, <2>3 DEF Lists, IsInjective
    <3> QED
      BY <1>1, <2>1, <3>1
  <2> QED
    BY <1>4, <2>2, <2>3
<1>6. Range(u) = X \cup Y
  <2>1. Range(u) \subseteq X \cup Y
    BY <1>4 DEF Range
  <2>2. X \subseteq Range(u)
    <3>1. \A n \in 1..Len(s) : n \in DOMAIN u
      BY <1>1
    <3> QED
      BY <1>1, <3>1 DEF Lists, Range
  <2>3. Y \subseteq Range(u)
    BY <1>1, <1>3 DEF Lists, Range
  <2> QED
    BY <2>1, <2>2, <2>3
<1> QED
  BY <1>1, <1>5, <1>6 DEF Lists, IsInjective, u

(* At(s, K) lists the entries of s at the positions K: the number of       *)
(* positions of K up to m ranks K from 1 to its cardinality.               *)
LEMMA ListsAt ==
    ASSUME NEW s, NEW X, Lists(s, X), NEW K \in SUBSET DOMAIN s
    PROVE  Lists(At(s, K), {s[m] : m \in K})
<1> DEFINE Upto(m) == {j \in K : j <= m}
           N == Cardinality(K)
           rank == [m \in K |-> Cardinality(Upto(m))]
           Position(n) == CHOOSE m \in K : Cardinality({j \in K : j <= m}) = n
<1>1. s \in Seq(Instr) /\ Len(s) \in Nat /\ DOMAIN s = 1..Len(s) /\ K \subseteq Nat
  BY DEF Lists
<1>2. IsFiniteSet(K) /\ N \in Nat
  <2>1. IsFiniteSet(1..Len(s))
    BY <1>1, FS_Interval
  <2>2. IsFiniteSet(K)
    BY <1>1, <2>1, FS_Subset
  <2> QED
    BY <2>2, FS_CardinalityType
<1>3. ASSUME NEW m \in K
      PROVE  /\ Upto(m) \in SUBSET K /\ m \in Upto(m) /\ IsFiniteSet(Upto(m))
             /\ Cardinality(Upto(m)) \in 1..N
  <2>1. Upto(m) \in SUBSET K /\ m \in Upto(m)
    BY <1>1
  <2>2. IsFiniteSet(Upto(m)) /\ Cardinality(Upto(m)) <= N
    BY <1>2, <2>1, FS_Subset
  <2>3. Cardinality(Upto(m)) \in Nat /\ Cardinality(Upto(m)) # 0
    BY <2>1, <2>2, FS_CardinalityType, FS_EmptySet
  <2> QED
    BY <1>2, <2>1, <2>2, <2>3
<1>4. ASSUME NEW m \in K, NEW n \in K, m < n
      PROVE  Cardinality(Upto(m)) # Cardinality(Upto(n))
  <2>1. Upto(m) \in SUBSET Upto(n) /\ n \notin Upto(m) /\ n \in Upto(n)
    BY <1>1, <1>4
  <2> QED
    BY <1>3, <2>1, FS_Subset
<1>5. rank \in Injection(K, 1..N)
  <2>1. rank \in [K -> 1..N]
    BY <1>3
  <2>2. ASSUME NEW m \in K, NEW n \in K, rank[m] = rank[n] PROVE m = n
    <3>1. Cardinality(Upto(m)) = Cardinality(Upto(n)) /\ m \in Nat /\ n \in Nat
      BY <1>1, <2>2
    <3>2. ~(m < n) /\ ~(n < m)
      BY <1>4, <3>1
    <3> QED
      BY <3>1, <3>2
  <2> QED
    BY <2>1, <2>2 DEF Injection, IsInjective
<1>6. \A n \in 1..N : \E m \in K : Cardinality(Upto(m)) = n
  <2>1. IsFiniteSet(1..N) /\ Cardinality(1..N) = N
    <3>1. IsFiniteSet(1..N) /\ Cardinality(1..N) = IF 1 > N THEN 0 ELSE N - 1 + 1
      BY <1>2, FS_Interval
    <3> QED
      BY <1>2, <3>1
  <2>2. rank \in Surjection(K, 1..N)
    BY <1>5, <2>1, FS_Injection, Zenon
  <2> QED
    BY <2>2 DEF Surjection
<1>7. ASSUME NEW n \in 1..N
      PROVE  Position(n) \in K /\ Cardinality(Upto(Position(n))) = n
  BY <1>6
<1>8. ASSUME NEW m \in K PROVE Position(Cardinality(Upto(m))) = m
  <2> DEFINE k == Position(Cardinality(Upto(m)))
  <2>1. k \in K /\ Cardinality(Upto(k)) = Cardinality(Upto(m))
    BY <1>3, <1>7
  <2> HIDE DEF k
  <2>2. rank[k] = rank[m]
    BY <2>1
  <2>3. k = m
    BY <1>5, <2>1, <2>2 DEF Injection, IsInjective
  <2> QED
    BY <2>3 DEF k
<1> DEFINE t == At(s, K)
<1>9. t = [n \in 1..N |-> s[Position(n)]]
  BY DEF At
<1> HIDE DEF Position, Upto, N, rank, t
<1>10. t \in Seq(Instr) /\ DOMAIN t = 1..N
  <2>1. t \in [1..N -> Instr]
    BY <1>1, <1>7, <1>9
  <2> QED
    BY <1>2, <2>1
<1>11. IsInjective(t)
  <2>1. ASSUME NEW m \in 1..N, NEW n \in 1..N, t[m] = t[n] PROVE m = n
    <3>1. Position(m) = Position(n)
      BY <1>7, <1>9, <2>1 DEF Lists, IsInjective
    <3> QED
      BY <1>7, <3>1
  <2> QED
    BY <1>10, <2>1 DEF IsInjective
<1>12. Range(t) = {s[m] : m \in K}
  <2>1. \A n \in 1..N : t[n] \in {s[m] : m \in K}
    BY <1>7, <1>9
  <2>2. ASSUME NEW m \in K PROVE \E n \in 1..N : t[n] = s[m]
    BY <1>3, <1>8, <1>9
  <2> QED
    BY <1>10, <2>1, <2>2 DEF Range
<1> QED
  BY <1>10, <1>11, <1>12 DEF Lists, t

LEMMA ListsKeep ==
    ASSUME NEW s, NEW X, Lists(s, X), NEW S
    PROVE  Lists(Keep(s, S), X \cap S) /\ Lists(Without(s, S), X \ S)
<1> DEFINE K == {n \in DOMAIN s : s[n] \in S}
           L == {n \in DOMAIN s : s[n] \notin S}
<1>1. {s[m] : m \in K} = X \cap S /\ {s[m] : m \in L} = X \ S
  BY DEF Lists, Range
<1>2. Lists(At(s, K), {s[m] : m \in K}) /\ Lists(At(s, L), {s[m] : m \in L})
  <2>1. K \in SUBSET DOMAIN s /\ L \in SUBSET DOMAIN s
    OBVIOUS
  <2> HIDE DEF K, L
  <2> QED
    BY <2>1, ListsAt
<1> QED
  BY <1>1, <1>2 DEF Keep, Without

LEMMA TotalIsNat == IsFiniteSet(Instr) /\ Total \in Nat /\ Instr = 1..Total
  BY InstrAssumption, FS_CardinalityType DEF Total

(* The schedule itself, filtered: what Unlock appends.                     *)
LEMMA ListsSchedule ==
    ASSUME NEW S \in SUBSET Instr
    PROVE  Lists(Keep([j \in 1..Total |-> j], S), S)
<1> DEFINE id == [j \in 1..Total |-> j]
<1>1. Lists(id, Instr)
  <2>1. id \in [1..Total -> Instr]
    BY TotalIsNat
  <2>2. id \in Seq(Instr)
    BY <2>1, TotalIsNat
  <2> QED
    BY <2>1, <2>2, TotalIsNat DEF Lists, IsInjective, Range
<1>2. Instr \cap S = S
  OBVIOUS
<1> HIDE DEF id
<1>3. Lists(Keep(id, S), Instr \cap S)
  BY <1>1, ListsKeep
<1> QED
  BY <1>2, <1>3 DEF id

-----------------------------------------------------------------------------
(* Jobs, completions and the jobs in the hands of workers                  *)

Job == {s \in Seq(Instr) : s # <<>>}

(* The jobs are not empty and hold the instructions X, each of them once.  *)
Holds(jobs, X) ==
    /\ jobs \in Seq(Job)
    /\ \A n \in DOMAIN jobs : IsInjective(jobs[n])
    /\ \A m, n \in DOMAIN jobs : m # n => Range(jobs[m]) \cap Range(jobs[n]) = {}
    /\ Insts(jobs) = X

LEMMA HoldsEmpty == Holds(<<>>, {})
  BY DEF Holds, Insts

LEMMA HoldsApart ==
    ASSUME NEW jobs, NEW X, Holds(jobs, X)
    PROVE  Apart(jobs) /\ X \subseteq Instr
<1>1. \A n \in DOMAIN jobs : jobs[n] \in Seq(Instr)
  BY DEF Holds, Job
<1>2. ASSUME NEW m \in DOMAIN jobs, NEW n \in DOMAIN jobs,
             NEW x \in DOMAIN jobs[m], NEW y \in DOMAIN jobs[n], jobs[m][x] = jobs[n][y]
      PROVE  m = n /\ x = y
  <2>1. jobs[m][x] \in Range(jobs[m]) /\ jobs[m][x] \in Range(jobs[n])
    BY <1>2 DEF Range
  <2>2. m = n
    BY <2>1 DEF Holds
  <2> QED
    BY <1>2, <2>2 DEF Holds, IsInjective
<1>3. \A n \in DOMAIN jobs : Range(jobs[n]) \subseteq Instr
  BY <1>1 DEF Range
<1> QED
  BY <1>2, <1>3 DEF Holds, Apart, Insts

LEMMA HoldsAppend ==
    ASSUME NEW jobs, NEW X, Holds(jobs, X), NEW job \in Job,
           NEW Y, Lists(job, Y), X \cap Y = {}
    PROVE  Holds(Append(jobs, job), X \cup Y)
<1> DEFINE t == Append(jobs, job)
           N == Len(jobs)
<1>1. /\ N \in Nat /\ jobs \in Seq(Job) /\ DOMAIN jobs = 1..N
      /\ t \in Seq(Job) /\ DOMAIN t = 1..(N + 1)
      /\ \A n \in 1..N : t[n] = jobs[n]
      /\ t[N + 1] = job
  BY DEF Holds
<1>2. \A n \in 1..(N + 1) : n = N + 1 \/ n \in 1..N
  BY <1>1
<1>3. \A n \in 1..N : Range(jobs[n]) \subseteq X /\ n \in 1..(N + 1)
  BY <1>1 DEF Holds, Insts
<1>4. Range(job) = Y /\ IsInjective(job) /\ N + 1 \in 1..(N + 1)
  BY <1>1 DEF Lists
<1> HIDE DEF t, N
<1>5. \A n \in DOMAIN t : IsInjective(t[n])
  BY <1>1, <1>2, <1>4 DEF Holds
<1>6. \A m, n \in DOMAIN t : m # n => Range(t[m]) \cap Range(t[n]) = {}
  <2> SUFFICES ASSUME NEW m \in 1..(N + 1), NEW n \in 1..(N + 1), m # n
               PROVE  Range(t[m]) \cap Range(t[n]) = {}
    BY <1>1
  <2>1. CASE m = N + 1
    BY <1>1, <1>2, <1>3, <1>4, <2>1
  <2>2. CASE n = N + 1
    BY <1>1, <1>2, <1>3, <1>4, <2>2
  <2>3. CASE m \in 1..N /\ n \in 1..N
    BY <1>1, <2>3 DEF Holds
  <2> QED
    BY <1>2, <2>1, <2>2, <2>3
<1>7. Insts(t) = X \cup Y
  <2>1. Insts(t) \subseteq X \cup Y
    BY <1>1, <1>2, <1>3, <1>4 DEF Insts
  <2>2. X \subseteq Insts(t)
    BY <1>1, <1>3 DEF Insts, Holds
  <2>3. Y \subseteq Insts(t)
    BY <1>1, <1>4 DEF Insts
  <2> QED
    BY <2>1, <2>2, <2>3
<1> QED
  BY <1>1, <1>5, <1>6, <1>7 DEF Holds, t

LEMMA HoldsTail ==
    ASSUME NEW jobs, NEW X, Holds(jobs, X), jobs # <<>>
    PROVE  /\ Head(jobs) \in Job /\ Head(jobs) = jobs[1]
           /\ Lists(Head(jobs), Range(Head(jobs)))
           /\ Range(Head(jobs)) \subseteq X /\ Range(Head(jobs)) # {}
           /\ Holds(Tail(jobs), X \ Range(Head(jobs)))
<1> DEFINE t == Tail(jobs)
           N == Len(jobs)
           Y == Range(jobs[1])
<1>1. /\ N \in Nat \ {0} /\ jobs \in Seq(Job) /\ DOMAIN jobs = 1..N
      /\ t \in Seq(Job) /\ DOMAIN t = 1..(N - 1)
      /\ \A n \in 1..(N - 1) : t[n] = jobs[n + 1]
      /\ Head(jobs) = jobs[1]
  BY DEF Holds
<1>2. /\ \A n \in 1..N : n = 1 \/ (n - 1 \in 1..(N - 1) /\ t[n - 1] = jobs[n])
      /\ \A n \in 1..(N - 1) : n + 1 \in 1..N /\ n + 1 # 1
      /\ 1 \in 1..N
  BY <1>1
<1>3. jobs[1] \in Job /\ Lists(jobs[1], Y)
  BY <1>1, <1>2 DEF Holds, Lists, Job
<1>4. Y # {} /\ Y \subseteq X
  <2>1. Y # {}
    BY <1>3, ListsLength DEF Job
  <2> QED
    BY <1>1, <1>2, <2>1 DEF Holds, Insts
<1> HIDE DEF t, N, Y
<1>5. \A m, n \in DOMAIN t : m # n => Range(t[m]) \cap Range(t[n]) = {}
  <2> SUFFICES ASSUME NEW m \in 1..(N - 1), NEW n \in 1..(N - 1), m # n
               PROVE  Range(t[m]) \cap Range(t[n]) = {}
    BY <1>1
  <2>1. m + 1 # n + 1
    BY <1>1
  <2>2. m + 1 \in DOMAIN jobs /\ n + 1 \in DOMAIN jobs
    BY <1>1, <1>2
  <2>3. Range(jobs[m + 1]) \cap Range(jobs[n + 1]) = {}
    BY <2>1, <2>2, Zenon DEF Holds
  <2> QED
    BY <1>1, <2>3
<1>6. \A n \in DOMAIN t : IsInjective(t[n])
  BY <1>1, <1>2 DEF Holds
<1>7. Insts(t) = X \ Y
  <2>1. \A n \in 1..(N - 1) : Range(t[n]) \subseteq X /\ Range(t[n]) \cap Y = {}
    BY <1>1, <1>2 DEF Holds, Insts, Y
  <2>2. X \ Y \subseteq Insts(t)
    <3> SUFFICES ASSUME NEW i \in X, i \notin Y PROVE i \in Insts(t)
      OBVIOUS
    <3>1. PICK n \in 1..N : i \in Range(jobs[n])
      BY <1>1 DEF Holds, Insts
    <3>2. n # 1
      BY <3>1 DEF Y
    <3> QED
      BY <1>1, <1>2, <3>1, <3>2 DEF Insts
  <2> QED
    BY <1>1, <2>1, <2>2 DEF Insts
<1> QED
  BY <1>1, <1>3, <1>4, <1>5, <1>6, <1>7 DEF Holds, t, Y

LEMMA HoldsSingly ==
    ASSUME NEW s, NEW X, Lists(s, X)
    PROVE  Holds(Singly(s), X)
<1>1. /\ s \in Seq(Instr) /\ Len(s) \in Nat /\ DOMAIN s = 1..Len(s)
      /\ Singly(s) = [n \in 1..Len(s) |-> <<s[n]>>]
  BY DEF Lists, Singly
<1>2. \A n \in 1..Len(s) : /\ <<s[n]>> \in Job /\ IsInjective(<<s[n]>>)
                           /\ Range(<<s[n]>>) = {s[n]} /\ s[n] \in X
  BY <1>1 DEF Lists, Job, IsInjective, Range
<1>3. Singly(s) \in [1..Len(s) -> Job]
  BY <1>1, <1>2
<1>4. Singly(s) \in Seq(Job) /\ DOMAIN Singly(s) = 1..Len(s)
  BY <1>1, <1>3
<1>5. \A n \in 1..Len(s) : Range(Singly(s)[n]) = {s[n]} /\ IsInjective(Singly(s)[n])
  BY <1>1, <1>2
<1>6. Insts(Singly(s)) = X
  <2>1. X = {s[n] : n \in 1..Len(s)}
    BY <1>1 DEF Lists, Range
  <2>2. Insts(Singly(s)) = UNION {Range(Singly(s)[n]) : n \in 1..Len(s)}
    BY <1>4 DEF Insts
  <2>3. \A i : (\E n \in 1..Len(s) : i \in Range(Singly(s)[n])) <=> (\E n \in 1..Len(s) : i = s[n])
    BY <1>5
  <2> QED
    BY <2>1, <2>2, <2>3, Zenon
<1> QED
  BY <1>1, <1>4, <1>5, <1>6 DEF Holds, Lists, IsInjective

LEMMA HoldsWave ==
    ASSUME NEW s, NEW X, Lists(s, X), NEW t, NEW Y, Lists(t, Y), X \cap Y = {}
    PROVE  Holds(Jobs(s, t), X \cup Y)
<1>1. CASE t = <<>>
  <2>1. Y = {}
    BY <1>1, ListsLength
  <2> QED
    BY <1>1, <2>1, HoldsSingly DEF Jobs
<1>2. CASE t # <<>>
  <2>1. t \in Job
    BY <1>2 DEF Lists, Job
  <2> QED
    BY <1>2, <2>1, HoldsSingly, HoldsAppend DEF Jobs
<1> QED
  BY <1>1, <1>2

Completion == [inst : Instr, ok : BOOLEAN]

(* The completions c are those of the instructions X, one for each.        *)
Reports(c, X) ==
    /\ c \in Seq(Completion)
    /\ \A m, n \in DOMAIN c : c[m].inst = c[n].inst => m = n
    /\ Reported(c) = X

LEMMA ReportsEmpty == Reports(<<>>, {})
  BY DEF Reports, Reported

LEMMA ReportsSubset == ASSUME NEW c, NEW X, Reports(c, X) PROVE X \subseteq Instr
<1>1. \A n \in DOMAIN c : c[n] \in Completion
  BY DEF Reports
<1>2. \A x \in Completion : x.inst \in Instr
  BY DEF Completion
<1> QED
  BY <1>1, <1>2 DEF Reports, Reported

LEMMA ReportsAppend ==
    ASSUME NEW c, NEW X, Reports(c, X), NEW x \in Completion, x.inst \notin X
    PROVE  Reports(Append(c, x), X \cup {x.inst})
<1> DEFINE t == Append(c, x)
           N == Len(c)
<1>1. /\ N \in Nat /\ c \in Seq(Completion) /\ DOMAIN c = 1..N
      /\ t \in Seq(Completion) /\ DOMAIN t = 1..(N + 1)
      /\ \A n \in 1..N : t[n] = c[n]
      /\ t[N + 1] = x
  BY DEF Reports
<1>2. /\ \A n \in 1..(N + 1) : n = N + 1 \/ n \in 1..N
      /\ \A n \in 1..N : n \in 1..(N + 1)
      /\ N + 1 \in 1..(N + 1)
  BY <1>1
<1>3. \A n \in 1..N : c[n].inst \in X
  BY <1>1 DEF Reports, Reported
<1> HIDE DEF t, N
<1>4. ASSUME NEW m \in 1..(N + 1), NEW n \in 1..(N + 1), t[m].inst = t[n].inst
      PROVE  m = n
  BY <1>1, <1>2, <1>3, <1>4 DEF Reports
<1>5. Reported(t) = X \cup {x.inst}
  <2>1. Reported(t) \subseteq X \cup {x.inst}
    BY <1>1, <1>2, <1>3 DEF Reported
  <2>2. X \subseteq Reported(t)
    BY <1>1, <1>2 DEF Reports, Reported
  <2>3. x.inst \in Reported(t)
    BY <1>1, <1>2 DEF Reported
  <2> QED
    BY <2>1, <2>2, <2>3
<1> QED
  BY <1>1, <1>4, <1>5 DEF Reports, t

LEMMA ReportsTail ==
    ASSUME NEW c, NEW X, Reports(c, X), c # <<>>
    PROVE  /\ Head(c) \in Completion /\ Head(c).inst \in X
           /\ Reports(Tail(c), X \ {Head(c).inst})
           /\ Len(Tail(c)) = Len(c) - 1 /\ Len(c) \in Nat \ {0}
<1> DEFINE t == Tail(c)
           N == Len(c)
<1>1. /\ N \in Nat \ {0} /\ c \in Seq(Completion) /\ DOMAIN c = 1..N
      /\ t \in Seq(Completion) /\ DOMAIN t = 1..(N - 1) /\ Len(t) = N - 1
      /\ \A n \in 1..(N - 1) : t[n] = c[n + 1]
      /\ Head(c) = c[1] /\ c[1] \in Completion
  BY DEF Reports
<1>2. /\ \A n \in 1..N : n = 1 \/ (n - 1 \in 1..(N - 1) /\ t[n - 1] = c[n])
      /\ \A n \in 1..(N - 1) : n + 1 \in 1..N /\ n + 1 # 1
      /\ 1 \in 1..N
  BY <1>1
<1>3. c[1].inst \in X
  BY <1>1, <1>2 DEF Reports, Reported
<1> HIDE DEF t, N
<1>4. ASSUME NEW m \in 1..(N - 1), NEW n \in 1..(N - 1), t[m].inst = t[n].inst
      PROVE  m = n
  <2>1. /\ m + 1 \in DOMAIN c /\ n + 1 \in DOMAIN c
        /\ c[m + 1].inst = c[n + 1].inst
    BY <1>1, <1>2, <1>4
  <2>2. m + 1 = n + 1
    BY <2>1, Zenon DEF Reports
  <2> QED
    BY <1>1, <2>2
<1>5. ASSUME NEW n \in 1..(N - 1) PROVE t[n].inst \in X /\ t[n].inst # c[1].inst
  <2>1. n + 1 \in DOMAIN c /\ 1 \in DOMAIN c /\ n + 1 # 1 /\ t[n] = c[n + 1]
    BY <1>1, <1>2
  <2> QED
    BY <2>1, Zenon DEF Reports, Reported
<1>6. ASSUME NEW i \in X, i # c[1].inst PROVE \E n \in 1..(N - 1) : t[n].inst = i
  <2>1. PICK n \in 1..N : c[n].inst = i
    BY <1>1 DEF Reports, Reported
  <2> QED
    BY <1>2, <1>6, <2>1
<1>7. Reported(t) = {t[n].inst : n \in 1..(N - 1)}
  BY <1>1 DEF Reported
<1>8. Reported(t) = X \ {c[1].inst}
  BY <1>5, <1>6, <1>7
<1> QED
  BY <1>1, <1>3, <1>4, <1>8 DEF Reports, t, N

(* The jobs R in the hands of workers hold the instructions X, each once.  *)
Work == [insts : Job, outcome : {None, "ok", "err"}]

Runs(R, X) ==
    /\ R \in SUBSET Work /\ IsFiniteSet(R)
    /\ \A a \in R : IsInjective(a.insts)
    /\ \A a, b \in R : a # b => Range(a.insts) \cap Range(b.insts) = {}
    /\ UNION {Range(a.insts) : a \in R} = X

LEMMA RunsEmpty == Runs({}, {})
  BY FS_EmptySet DEF Runs

LEMMA RunsAdd ==
    ASSUME NEW R, NEW X, Runs(R, X), NEW a \in Work, NEW Y, Lists(a.insts, Y), X \cap Y = {}
    PROVE  /\ Runs(R \cup {a}, X \cup Y)
           /\ Cardinality(R) \in Nat /\ Cardinality(R \cup {a}) \in Nat
           /\ Cardinality(R \cup {a}) <= Cardinality(R) + 1
<1>1. Range(a.insts) = Y /\ IsInjective(a.insts)
  BY DEF Lists
<1>2. \A b \in R : Range(b.insts) \subseteq X
  BY DEF Runs
<1>3. /\ IsFiniteSet(R \cup {a})
      /\ Cardinality(R \cup {a}) = IF a \in R THEN Cardinality(R) ELSE Cardinality(R) + 1
      /\ Cardinality(R) \in Nat /\ Cardinality(R \cup {a}) \in Nat
  BY FS_AddElement, FS_CardinalityType DEF Runs
<1>4. \A b, d \in R \cup {a} : b # d => Range(b.insts) \cap Range(d.insts) = {}
  BY <1>1, <1>2 DEF Runs
<1>5. UNION {Range(b.insts) : b \in R \cup {a}} = X \cup Y
  BY <1>1 DEF Runs
<1>6. Cardinality(R \cup {a}) <= Cardinality(R) + 1
  BY <1>3
<1> QED
  BY <1>1, <1>3, <1>4, <1>5, <1>6 DEF Runs

LEMMA RunsRemove ==
    ASSUME NEW R, NEW X, Runs(R, X), NEW a \in R
    PROVE  /\ a \in Work /\ Lists(a.insts, Range(a.insts)) /\ a.insts \in Job
           /\ Range(a.insts) \subseteq X /\ Range(a.insts) # {}
           /\ Runs(R \ {a}, X \ Range(a.insts))
           /\ Cardinality(R) \in Nat /\ Cardinality(R \ {a}) = Cardinality(R) - 1
<1>1. a \in Work /\ Lists(a.insts, Range(a.insts)) /\ a.insts \in Job
  BY DEF Runs, Work, Job, Lists
<1>2. Range(a.insts) \subseteq X /\ Range(a.insts) # {}
  BY <1>1, ListsLength DEF Runs, Job
<1>3. IsFiniteSet(R \ {a}) /\ Cardinality(R \ {a}) = Cardinality(R) - 1 /\ Cardinality(R) \in Nat
  BY FS_RemoveElement, FS_CardinalityType DEF Runs
<1>4. UNION {Range(b.insts) : b \in R \ {a}} = X \ Range(a.insts)
  BY DEF Runs
<1> QED
  BY <1>1, <1>2, <1>3, <1>4 DEF Runs

-----------------------------------------------------------------------------
(* The inductive invariant                                                 *)

Zones == {"blocked", "ready", "queues", "wave", "submitting", "pool", "running",
          "channel", "hand", "done", "lost"}

Exclusive(P) == \A i \in Instr, y, z \in Zones : i \in P[y] /\ i \in P[z] => y = z
Everything(P) == UNION {P[z] : z \in Zones}

(* Each queue, job list, worker and channel holds an instruction once; a   *)
(* queue holds instructions of its own key and a pool those of its kind.   *)
Queues ==
    /\ Lists(ready, InReady) /\ Lists(wave, InWave)
    /\ DOMAIN queues = Keys
    /\ \A k \in Keys : /\ Lists(queues[k], Range(queues[k]))
                       /\ \A i \in Range(queues[k]) : order_key(i) = k

Submits ==
    /\ Holds(submitting, InSubmitting)
    /\ \A n \in DOMAIN submitting : \A i \in Range(submitting[n]) :
          work_kind(i) = work_kind(submitting[n][1])

InHands(p) == UNION {Range(job.insts) : job \in running[p]}

WorksAt(p) ==
    /\ Holds(pool[p], Insts(pool[p])) /\ Runs(running[p], InHands(p))
    /\ \A i \in Insts(pool[p]) \cup InHands(p) : work_kind(i) = p
    /\ Len(pool[p]) <= MaxInflight
    /\ idle[p] \in Nat /\ idle[p] + Cardinality(running[p]) <= PoolWorkers[p]

Works ==
    /\ DOMAIN pool = Pools /\ DOMAIN running = Pools /\ DOMAIN idle = Pools
    /\ \A p \in Pools : WorksAt(p)

Channels ==
    /\ Reports(channel, InChannel) /\ Reports(hand, InHand)
    /\ Len(channel) <= ChannelCap /\ Len(hand) <= 1

(* The dependency counters are exact, and so are the counts of finished    *)
(* instructions and of completions owed.                                   *)
Counted ==
    /\ remaining \in [Instr -> Nat] /\ done \in SUBSET Instr /\ lost \in SUBSET Instr
    /\ \A j \in Instr : remaining[j] = Cardinality(plan.deps[j] \ done)

Finishing == finished \in 0..Total /\ (failure = None => finished = Cardinality(done))

Owing == inflight = Cardinality(Outstanding) + Cardinality(lost)

(* Until the run fails every instruction is somewhere, and an order key is *)
(* busy while exactly one of its instructions is launched.                 *)
Complete == failure = None => Instr \subseteq Everything(Places)

OnePerKey(L, held) ==
    /\ \A i \in L : order_key(i) \in held \cup {None}
    /\ \A k \in held : \E i \in L : order_key(i) = k
    /\ \A i, j \in L : order_key(i) = order_key(j) /\ order_key(i) # None => i = j

Keyed ==
    failure = None =>
      /\ OnePerKey(Launched \cup lost, busy)
      /\ \A i \in InReady \cap (Releases \cup ParameterLoads) : order_key(i) \notin busy

(* Where the dispatcher stands tells what it has in hand, and whether the  *)
(* run has failed.                                                         *)
Labels == {"top", "drain", "launch", "unlock", "submit", "inline", "wait",
           "resend", "join", "returned"}

Control ==
    /\ pc \in Labels
    /\ pc = "submit" => submitting # <<>> /\ \A i \in InSubmitting : work_kind(i) \in Pools
    /\ pc = "inline" => \E i \in Instr : submitting = <<<<i>>>>
    /\ pc \notin {"submit", "inline"} => submitting = <<>>
    /\ pc = "unlock" <=> wave # <<>>
    /\ pc = "resend" <=> hand # <<>>
    /\ pc \in {"drain", "launch", "unlock", "submit", "inline"} => failure = None
    /\ failure # None => finished = Total \/ pc \in {"join", "returned"}
    /\ pc \in {"join", "returned"} /\ failure = None => finished = Total

Static ==
    /\ plan \in Plans /\ mode \in Modes /\ busy \in SUBSET Keys
    /\ failure \in {None, "Cancelled", "Instruction", "Stalled"}
    /\ shut \in SUBSET Pools /\ cancel \in BOOLEAN
    /\ stall \in 0..(IF StallLimit = None THEN 0 ELSE StallLimit)

Held == Queues /\ Submits /\ Works /\ Channels
Counts == Counted /\ Finishing /\ Owing
Placed == Exclusive(Places) /\ Complete

Inv == Static /\ Held /\ Counts /\ Placed /\ Keyed /\ Control

-----------------------------------------------------------------------------
(* Instructions moving between places                                      *)

LEMMA PlacesAre ==
    /\ Places["blocked"] = InBlocked /\ Places["ready"] = InReady
    /\ Places["queues"] = InQueues /\ Places["wave"] = InWave
    /\ Places["submitting"] = InSubmitting /\ Places["pool"] = InPools
    /\ Places["running"] = InRunning /\ Places["channel"] = InChannel
    /\ Places["hand"] = InHand /\ Places["done"] = done /\ Places["lost"] = lost
    /\ Places'["blocked"] = InBlocked' /\ Places'["ready"] = InReady'
    /\ Places'["queues"] = InQueues' /\ Places'["wave"] = InWave'
    /\ Places'["submitting"] = InSubmitting' /\ Places'["pool"] = InPools'
    /\ Places'["running"] = InRunning' /\ Places'["channel"] = InChannel'
    /\ Places'["hand"] = InHand' /\ Places'["done"] = done' /\ Places'["lost"] = lost'
  BY DEF Places

LEMMA ZonesKept ==
    /\ UNCHANGED remaining => InBlocked' = InBlocked
    /\ UNCHANGED ready => InReady' = InReady
    /\ UNCHANGED queues => InQueues' = InQueues
    /\ UNCHANGED wave => InWave' = InWave
    /\ UNCHANGED submitting => InSubmitting' = InSubmitting
    /\ UNCHANGED pool => InPools' = InPools
    /\ UNCHANGED running => InRunning' = InRunning
    /\ UNCHANGED channel => InChannel' = InChannel
    /\ UNCHANGED hand => InHand' = InHand
  BY DEF InBlocked, InReady, InQueues, InWave, InSubmitting, InPools, InRunning, InChannel, InHand

(* S moves from place a to place b.                                        *)
Shift(P, a, b, S) ==
    [z \in Zones |-> IF z = a THEN P[z] \ S ELSE IF z = b THEN P[z] \cup S ELSE P[z]]

LEMMA Shifted ==
    ASSUME NEW P, Exclusive(P), NEW a \in Zones, NEW b \in Zones, a # b,
           NEW S, S \subseteq P[a]
    PROVE  Exclusive(Shift(P, a, b, S)) /\ Everything(Shift(P, a, b, S)) = Everything(P)
<1> DEFINE Q == Shift(P, a, b, S)
<1>1. /\ Q[a] = P[a] \ S /\ Q[b] = P[b] \cup S
      /\ \A z \in Zones : z # a /\ z # b => Q[z] = P[z]
  BY DEF Shift
<1> HIDE DEF Q
<1>2. ASSUME NEW i \in Instr, NEW y \in Zones, NEW z \in Zones, i \in Q[y], i \in Q[z]
      PROVE  y = z
  <2>1. CASE i \in S
    <3>1. \A x \in Zones : i \in P[x] => x = a
      BY <2>1 DEF Exclusive
    <3>2. \A x \in Zones : i \in Q[x] => x = b
      BY <1>1, <2>1, <3>1
    <3> QED
      BY <1>2, <3>2
  <2>2. CASE i \notin S
    <3>1. \A x \in Zones : i \in Q[x] => i \in P[x]
      BY <1>1, <2>2
    <3> QED
      BY <1>2, <3>1 DEF Exclusive
  <2> QED
    BY <2>1, <2>2
<1>3. \A i : (\E z \in Zones : i \in Q[z]) <=> (\E z \in Zones : i \in P[z])
  <2> TAKE i
  <2>1. ASSUME NEW z \in Zones, i \in Q[z] PROVE \E x \in Zones : i \in P[x]
    BY <1>1, <2>1
  <2>2. ASSUME NEW z \in Zones, i \in P[z] PROVE \E x \in Zones : i \in Q[x]
    BY <1>1, <2>2
  <2> QED
    BY <2>1, <2>2
<1>4. Everything(Q) = Everything(P)
  BY <1>3, Zenon DEF Everything
<1> QED
  BY <1>2, <1>4 DEF Exclusive, Q

LEMMA SamePlaces ==
    ASSUME NEW P, Exclusive(P), NEW Q, \A z \in Zones : Q[z] = P[z]
    PROVE  Exclusive(Q) /\ Everything(Q) = Everything(P)
  BY DEF Exclusive, Everything

LEMMA FewerPlaces ==
    ASSUME NEW P, Exclusive(P), NEW Q, \A z \in Zones : Q[z] \subseteq P[z]
    PROVE  Exclusive(Q)
  BY DEF Exclusive

(* One move of a step: all other places stay as they are.                  *)
LEMMA OneMove ==
    ASSUME Placed, failure' = failure, NEW a \in Zones, NEW b \in Zones, a # b,
           NEW S, S \subseteq Places[a],
           Places'[a] = Places[a] \ S, Places'[b] = Places[b] \cup S,
           \A z \in Zones : z # a /\ z # b => Places'[z] = Places[z]
    PROVE  Placed'
<1> DEFINE Q == Shift(Places, a, b, S)
<1>1. \A z \in Zones : Places'[z] = Q[z]
  BY DEF Shift
<1>2. Exclusive(Q) /\ Everything(Q) = Everything(Places)
  BY Shifted, ZenonT(60) DEF Placed
<1> HIDE DEF Q
<1>3. Exclusive(Places') /\ Everything(Places') = Everything(Places)
  BY <1>1, <1>2, SamePlaces
<1>4. Exclusive(Places)' <=> Exclusive(Places')
  BY DEF Exclusive
<1>5. Everything(Places)' = Everything(Places')
  BY DEF Everything
<1> QED
  BY <1>3, <1>4, <1>5 DEF Placed, Complete

(* Two moves out of one place.                                             *)
LEMMA TwoMoves ==
    ASSUME Placed, failure' = failure,
           NEW a \in Zones, NEW b \in Zones, NEW c \in Zones, a # b, a # c, b # c,
           NEW S, NEW T, S \subseteq Places[a], T \subseteq Places[a], S \cap T = {},
           Places'[a] = Places[a] \ (S \cup T),
           Places'[b] = Places[b] \cup S, Places'[c] = Places[c] \cup T,
           \A z \in Zones : z # a /\ z # b /\ z # c => Places'[z] = Places[z]
    PROVE  Placed'
<1> DEFINE P == Shift(Places, a, b, S)
           Q == Shift(P, a, c, T)
<1>1. Exclusive(P) /\ Everything(P) = Everything(Places)
  BY Shifted, ZenonT(60) DEF Placed
<1>2. /\ P[a] = Places[a] \ S /\ P[b] = Places[b] \cup S
      /\ \A z \in Zones : z # a /\ z # b => P[z] = Places[z]
  BY DEF Shift
<1> HIDE DEF P
<1>3. T \subseteq P[a]
  BY <1>2
<1>4. Exclusive(Q) /\ Everything(Q) = Everything(P)
  BY <1>1, <1>3, Shifted
<1>5. /\ Q[a] = P[a] \ T /\ Q[c] = P[c] \cup T
      /\ \A z \in Zones : z # a /\ z # c => Q[z] = P[z]
  BY DEF Shift
<1> HIDE DEF Q
<1>6. Q[a] = Places[a] \ (S \cup T) /\ Q[b] = Places[b] \cup S /\ Q[c] = Places[c] \cup T
  BY <1>2, <1>5
<1>7. \A z \in Zones : Places'[z] = Q[z]
  BY <1>2, <1>5, <1>6
<1>8. Exclusive(Places') /\ Everything(Places') = Everything(Places)
  BY <1>1, <1>4, <1>7, SamePlaces
<1>9. Exclusive(Places)' <=> Exclusive(Places')
  BY DEF Exclusive
<1>10. Everything(Places)' = Everything(Places')
  BY DEF Everything
<1> QED
  BY <1>8, <1>9, <1>10 DEF Placed, Complete

LEMMA KindsKept ==
    ASSUME UNCHANGED <<plan, mode>>
    PROVE  /\ \A i : order_key(i)' = order_key(i) /\ work_kind(i)' = work_kind(i)
           /\ Releases' = Releases /\ ParameterLoads' = ParameterLoads
           /\ IoFirst' = IoFirst /\ Computes' = Computes
  BY DEF order_key, work_kind, Releases, ParameterLoads, IoFirst, Computes, IsCompute, PrefersIo,
         is_batched_handle_release, is_batched_parameter_load

LEMMA QueuesKept ==
    ASSUME Queues, UNCHANGED <<plan, mode, ready, wave, queues>> PROVE Queues'
  BY KindsKept DEF Queues, InReady, InWave

LEMMA SubmitsKept ==
    ASSUME Submits, UNCHANGED <<plan, mode, submitting>> PROVE Submits'
  BY KindsKept DEF Submits, InSubmitting

LEMMA WorksKept ==
    ASSUME Works, UNCHANGED <<plan, mode, pool, running, idle>> PROVE Works'
  BY KindsKept DEF Works, WorksAt, InHands

LEMMA ChannelsKept ==
    ASSUME Channels, UNCHANGED <<channel, hand>> PROVE Channels'
  BY DEF Channels, InChannel, InHand

LEMMA CountedKept ==
    ASSUME Counted, UNCHANGED <<plan, remaining, done, lost>> PROVE Counted'
  BY DEF Counted

LEMMA PlacedKept ==
    ASSUME Placed, UNCHANGED <<remaining, ready, queues, wave, submitting, pool, channel, hand, done, lost>>,
           InRunning' = InRunning, failure' = None => failure = None
    PROVE  Placed'
<1>1. \A z \in Zones : Places'[z] = Places[z]
  BY PlacesAre, ZonesKept DEF Zones
<1>2. Exclusive(Places') /\ Everything(Places') = Everything(Places)
  BY <1>1, SamePlaces DEF Placed
<1>3. Exclusive(Places)' <=> Exclusive(Places')
  BY DEF Exclusive
<1>4. Everything(Places)' = Everything(Places')
  BY DEF Everything
<1> QED
  BY <1>2, <1>3, <1>4 DEF Placed, Complete

(* Every place holds instructions of the schedule.                         *)
LEMMA PlacesInSchedule ==
    ASSUME Held, Counted
    PROVE  /\ InReady \subseteq Instr /\ InQueues \subseteq Instr /\ InWave \subseteq Instr
           /\ InSubmitting \subseteq Instr /\ InPools \subseteq Instr /\ InRunning \subseteq Instr
           /\ InChannel \subseteq Instr /\ InHand \subseteq Instr /\ InBlocked \subseteq Instr
           /\ Outstanding \subseteq Instr /\ IsFiniteSet(Outstanding) /\ IsFiniteSet(lost)
           /\ Cardinality(Outstanding) \in Nat /\ Cardinality(lost) \in Nat
<1>1. InReady \subseteq Instr /\ InWave \subseteq Instr /\ InSubmitting \subseteq Instr
  BY ListsSubset, HoldsApart DEF Held, Queues, Submits
<1>2. InQueues \subseteq Instr
  BY ListsSubset DEF Held, Queues, InQueues
<1>3. InPools \subseteq Instr
  BY HoldsApart DEF Held, Works, WorksAt, InPools
<1>4. InRunning \subseteq Instr
  <2>1. \A p \in Pools : \A job \in running[p] : Range(job.insts) \subseteq Instr
    BY RunsRemove, ListsSubset DEF Held, Works, WorksAt
  <2> QED
    BY <2>1 DEF InRunning
<1>5. InChannel \subseteq Instr /\ InHand \subseteq Instr
  BY ReportsSubset DEF Held, Channels
<1>6. Outstanding \in SUBSET Instr /\ lost \in SUBSET Instr
  BY <1>3, <1>4, <1>5 DEF Outstanding, Counted
<1>7. IsFiniteSet(Outstanding) /\ IsFiniteSet(lost)
  BY <1>6, TotalIsNat, FS_Subset
<1>8. Cardinality(Outstanding) \in Nat /\ Cardinality(lost) \in Nat
  BY <1>7, FS_CardinalityType
<1> QED
  BY <1>1, <1>2, <1>3, <1>4, <1>5, <1>6, <1>7, <1>8 DEF InBlocked

(* Two places have no instruction in common.                               *)
LEMMA Disjoint ==
    ASSUME Held, Counted, Placed, NEW y \in Zones, NEW z \in Zones, y # z
    PROVE  Places[y] \cap Places[z] = {}
<1>1. Places[y] \subseteq Instr
  BY PlacesInSchedule, PlacesAre DEF Zones, Counted
<1> QED
  BY <1>1 DEF Placed, Exclusive

(* Steps that move no instruction.                                         *)
LEMMA StandStill ==
    ASSUME Inv, UNCHANGED <<plan, mode, remaining, ready, wave, queues, busy, inflight, done,
                            submitting, hand, pool, running, idle, channel, lost>>,
           failure' = None => failure = None
    PROVE  Held' /\ Counted' /\ Owing' /\ Placed' /\ Keyed'
<1>1. Held'
  BY QueuesKept, SubmitsKept, WorksKept, ChannelsKept DEF Inv, Held
<1>2. Counted' /\ Placed'
  BY CountedKept, PlacedKept, ZonesKept DEF Inv, Counts
<1>3. Outstanding' = Outstanding /\ Launched' = Launched
  BY ZonesKept DEF Outstanding, Launched
<1>4. Owing'
  BY <1>3 DEF Inv, Counts, Owing
<1>5. Keyed'
  BY <1>3, ZonesKept, KindsKept DEF Inv, Keyed, OnePerKey
<1> QED
  BY <1>1, <1>2, <1>4, <1>5

LEMMA LoopTopInv == ASSUME Inv, LoopTop PROVE Inv'
<1>1. Held' /\ Counted' /\ Owing' /\ Placed' /\ Keyed'
  BY NoneAssumption, StandStill DEF LoopTop, plan_vars, work_vars
<1>2. Static' /\ Finishing'
  BY NoneAssumption DEF Inv, Static, Counts, Finishing, LoopTop, plan_vars
<1>3. finished >= Total <=> finished = Total
  BY TotalIsNat DEF Inv, Counts, Finishing
<1>4. Control'
  BY <1>3, NoneAssumption, ZonesKept, KindsKept DEF Inv, Control, Labels, LoopTop, plan_vars
<1> QED
  BY <1>1, <1>2, <1>4 DEF Inv, Counts

(* The dispatcher goes to l and nothing else happens.                      *)
LEMMA OnlyMoves ==
    ASSUME Inv, NEW l \in Labels, pc' = l,
           UNCHANGED <<plan_vars, disp_vars, work_vars, cancel>>, shut' \in SUBSET Pools,
           l = pc \/ <<pc, l>> \in {<<"drain", "launch">>, <<"launch", "wait">>, <<"join", "returned">>}
    PROVE  Inv'
<1>1. Held' /\ Counted' /\ Owing' /\ Placed' /\ Keyed'
  BY StandStill DEF plan_vars, disp_vars, work_vars
<1>2. Static' /\ Finishing'
  BY DEF Inv, Static, Counts, Finishing, plan_vars, disp_vars
<1>3. Control'
  BY ZonesKept, KindsKept DEF Inv, Control, Labels, plan_vars, disp_vars
<1> QED
  BY <1>1, <1>2, <1>3 DEF Inv, Counts

LEMMA PassInv == ASSUME Inv, DrainEmpty \/ EndLaunch \/ Return PROVE Inv'
<1>1. shut' \in SUBSET Pools
  BY DEF Inv, Static, DrainEmpty, EndLaunch, Return
<1>2. CASE DrainEmpty
  BY <1>1, <1>2, OnlyMoves DEF DrainEmpty, Labels
<1>3. CASE EndLaunch
  BY <1>1, <1>3, OnlyMoves DEF EndLaunch, Labels
<1>4. CASE Return
  BY <1>1, <1>4, OnlyMoves DEF Return, Labels
<1> QED
  BY <1>2, <1>3, <1>4

LEMMA ShutdownInv == ASSUME Inv, Shutdown PROVE Inv'
<1>1. Cardinality(shut) \in Nat
  <2>1. IsFiniteSet(Pools)
    <3>1. IsFiniteSet(({"cpu"} \cup {"io"}) \cup {"xfer"})
      BY FS_Singleton, FS_AddElement
    <3>2. Pools = ({"cpu"} \cup {"io"}) \cup {"xfer"}
      BY DEF Pools
    <3> QED
      BY <3>1, <3>2
  <2> QED
    BY <2>1, FS_Subset, FS_CardinalityType DEF Inv, Static
<1>2. PoolOrder[Cardinality(shut) + 1] \in Pools
  BY <1>1 DEF Shutdown, PoolOrder, Pools
<1>3. shut' \in SUBSET Pools
  BY <1>2 DEF Inv, Static, Shutdown
<1> QED
  BY <1>3, OnlyMoves DEF Shutdown, Inv, Control

LEMMA RequestCancelInv == ASSUME Inv, RequestCancel PROVE Inv'
<1>1. Held' /\ Counted' /\ Owing' /\ Placed' /\ Keyed'
  BY StandStill DEF RequestCancel, plan_vars, disp_vars, work_vars
<1>2. Static' /\ Finishing'
  BY DEF Inv, Static, Counts, Finishing, RequestCancel, plan_vars, disp_vars
<1>3. Control'
  BY ZonesKept, KindsKept DEF Inv, Control, RequestCancel, plan_vars, disp_vars
<1> QED
  BY <1>1, <1>2, <1>3 DEF Inv, Counts

LEMMA SkipWaitInv == ASSUME Inv, SkipWait PROVE Inv'
<1>1. Held' /\ Counted' /\ Owing' /\ Placed' /\ Keyed'
  BY StandStill DEF SkipWait, plan_vars, work_vars
<1>2. Static' /\ Finishing'
  BY LimitAssumption DEF Inv, Static, Counts, Finishing, SkipWait, plan_vars
<1>3. Control'
  BY ZonesKept, KindsKept DEF Inv, Control, Labels, SkipWait, plan_vars
<1> QED
  BY <1>1, <1>2, <1>3 DEF Inv, Counts

LEMMA WaitTimeoutInv == ASSUME Inv, WaitTimeout PROVE Inv'
<1>1. Held' /\ Counted' /\ Owing' /\ Placed' /\ Keyed'
  BY NoneAssumption, StandStill DEF WaitTimeout, WaitTimeoutAfter, plan_vars, work_vars
<1>2. stall' \in 0..(IF StallLimit = None THEN 0 ELSE StallLimit)
  BY LimitAssumption DEF Inv, Static, WaitTimeout, WaitTimeoutAfter
<1>3. Static' /\ Finishing'
  BY <1>2, NoneAssumption DEF Inv, Static, Counts, Finishing, WaitTimeout, WaitTimeoutAfter, plan_vars
<1>4. Control'
  BY NoneAssumption, ZonesKept, KindsKept
  DEF Inv, Control, Labels, WaitTimeout, WaitTimeoutAfter, plan_vars
<1> QED
  BY <1>1, <1>3, <1>4 DEF Inv, Counts

-----------------------------------------------------------------------------
(* Steps of the workers                                                    *)

LEMMA OwedOnce ==
    ASSUME NEW P, Exclusive(P), NEW O, NEW l,
           O = P["pool"] \cup P["running"] \cup P["channel"] \cup P["hand"], l = P["lost"],
           O \cup l \subseteq Instr
    PROVE  Cardinality(O) + Cardinality(l) = Cardinality(O \cup l)
<1>1. IsFiniteSet(O) /\ IsFiniteSet(l)
  BY TotalIsNat, FS_Subset
<1>2. O \cap l = {}
  BY DEF Exclusive, Zones
<1>3. Cardinality(O \cup l) = Cardinality(O) + Cardinality(l) - Cardinality(O \cap l)
  BY <1>1, FS_Union
<1>4. Cardinality(O) \in Nat /\ Cardinality(l) \in Nat
  BY <1>1, FS_CardinalityType
<1>5. Cardinality(O \cap l) = 0
  BY <1>2, FS_EmptySet
<1> QED
  BY <1>3, <1>4, <1>5

LEMMA ChannelCapIsNat == ChannelCap \in Nat
  BY LimitAssumption DEF ChannelCap

(* A worker's step keeps the invariant when it owes the same completions.  *)
LEMMA WorkerKeeps ==
    ASSUME Inv, UNCHANGED <<plan_vars, pc, disp_vars, shut, cancel>>,
           Works', Channels', Placed', Outstanding' \cup lost' = Outstanding \cup lost
    PROVE  Inv'
<1>1. Held'
  BY QueuesKept, SubmitsKept DEF Inv, Held, plan_vars, disp_vars
<1>2. Outstanding \cup lost \subseteq Instr
  BY PlacesInSchedule DEF Inv, Counts, Counted
<1>3. Counted'
  BY <1>2 DEF Inv, Counts, Counted, plan_vars, disp_vars
<1>4. Cardinality(Outstanding) + Cardinality(lost) = Cardinality(Outstanding \cup lost)
  BY <1>2, OwedOnce, PlacesAre DEF Inv, Placed, Outstanding
<1>5. Cardinality(Outstanding') + Cardinality(lost') = Cardinality(Outstanding' \cup lost')
  <2>1. Exclusive(Places')
    BY DEF Placed, Exclusive
  <2>2. Outstanding' = InPools' \cup InRunning' \cup InChannel' \cup InHand'
    BY DEF Outstanding
  <2> QED
    BY <1>2, <2>1, <2>2, OwedOnce, PlacesAre
<1>6. Owing'
  BY <1>4, <1>5 DEF Inv, Counts, Owing, disp_vars
<1>7. Static' /\ Finishing'
  BY DEF Inv, Static, Counts, Finishing, plan_vars, disp_vars
<1>8. Launched' \cup lost' = Launched \cup lost
  BY ZonesKept DEF Launched, disp_vars
<1>9. Keyed'
  BY <1>8, ZonesKept, KindsKept DEF Inv, Keyed, OnePerKey, plan_vars, disp_vars
<1>10. Control'
  BY ZonesKept, KindsKept DEF Inv, Control, plan_vars, disp_vars
<1> QED
  BY <1>1, <1>3, <1>6, <1>7, <1>9, <1>10 DEF Inv, Counts

LEMMA PoolsChange ==
    ASSUME Works, NEW p \in Pools, \A q \in Pools \ {p} : pool'[q] = pool[q],
           NEW S, \A i \in S : work_kind(i) = p
    PROVE  /\ Insts(pool'[p]) = Insts(pool[p]) \ S => InPools' = InPools \ S
           /\ Insts(pool'[p]) = Insts(pool[p]) \cup S => InPools' = InPools \cup S
<1>1. \A q \in Pools \ {p} : Insts(pool'[q]) = Insts(pool[q]) /\ Insts(pool[q]) \cap S = {}
  BY DEF Works, WorksAt
<1>2. InPools = UNION {Insts(pool[q]) : q \in Pools} /\ InPools' = UNION {Insts(pool'[q]) : q \in Pools}
  BY DEF InPools, Insts
<1> QED
  BY <1>1, <1>2

LEMMA RunningChange ==
    ASSUME Works, NEW p \in Pools, \A q \in Pools \ {p} : running'[q] = running[q],
           NEW S, \A i \in S : work_kind(i) = p
    PROVE  /\ InHands(p)' = InHands(p) \ S => InRunning' = InRunning \ S
           /\ InHands(p)' = InHands(p) \cup S => InRunning' = InRunning \cup S
           /\ InHands(p)' = InHands(p) => InRunning' = InRunning
<1>1. \A q \in Pools \ {p} : InHands(q)' = InHands(q) /\ InHands(q) \cap S = {}
  BY ZenonT(60) DEF Works, WorksAt, InHands
<1>2. InRunning = UNION {InHands(q) : q \in Pools} /\ InRunning' = UNION {InHands(q)' : q \in Pools}
  BY DEF InRunning, InHands
<1> QED
  BY <1>1, <1>2, ZenonT(60)

LEMMA WorksChange ==
    ASSUME Works, UNCHANGED <<plan, mode>>, NEW p \in Pools,
           DOMAIN pool' = Pools, DOMAIN running' = Pools, DOMAIN idle' = Pools,
           \A q \in Pools \ {p} : pool'[q] = pool[q] /\ running'[q] = running[q] /\ idle'[q] = idle[q],
           WorksAt(p)'
    PROVE  Works'
<1>1. \A q \in Pools \ {p} : WorksAt(q)'
  BY KindsKept DEF Works, WorksAt, InHands
<1> QED
  BY <1>1 DEF Works

LEMMA TakeJobInv == ASSUME Inv, NEW p \in Pools, TakeJob(p) PROVE Inv'
<1> DEFINE job == Head(pool[p])
           Y == Range(job)
           a == [insts |-> job, outcome |-> None]
<1>1. /\ Held /\ Counted /\ Placed /\ Works /\ WorksAt(p) /\ UNCHANGED <<plan, mode>>
      /\ DOMAIN pool = Pools /\ DOMAIN running = Pools /\ DOMAIN idle = Pools
  BY DEF Inv, Held, Counts, Works, TakeJob, plan_vars
<1>2. /\ job \in Job /\ Lists(job, Y) /\ Y \subseteq Insts(pool[p])
      /\ Holds(Tail(pool[p]), Insts(pool[p]) \ Y)
  BY <1>1, HoldsTail DEF TakeJob, WorksAt
<1>3. Y \cap InHands(p) = {}
  <2>1. InPools \cap InRunning = {}
    BY <1>1, Disjoint, PlacesAre DEF Zones
  <2> QED
    BY <1>2, <2>1 DEF InPools, InRunning, InHands
<1>4. a \in Work /\ a.insts = job
  BY <1>2 DEF Work
<1> HIDE DEF a, Y, job
<1>5. /\ Runs(running[p] \cup {a}, InHands(p) \cup Y)
      /\ Cardinality(running[p]) \in Nat /\ Cardinality(running[p] \cup {a}) \in Nat
      /\ Cardinality(running[p] \cup {a}) <= Cardinality(running[p]) + 1
  BY <1>1, <1>2, <1>3, <1>4, RunsAdd DEF WorksAt
<1>6. /\ pool'[p] = Tail(pool[p]) /\ running'[p] = running[p] \cup {a} /\ idle'[p] = idle[p] - 1
      /\ \A q \in Pools \ {p} : pool'[q] = pool[q] /\ running'[q] = running[q] /\ idle'[q] = idle[q]
      /\ DOMAIN pool' = Pools /\ DOMAIN running' = Pools /\ DOMAIN idle' = Pools
      /\ idle[p] > 0 /\ pool[p] # <<>>
  BY <1>1 DEF TakeJob, a, job
<1>7. Insts(pool'[p]) = Insts(pool[p]) \ Y /\ InHands(p)' = InHands(p) \cup Y
  <2>1. Insts(Tail(pool[p])) = Insts(pool[p]) \ Y
    BY <1>2 DEF Holds
  <2>2. InHands(p)' = UNION {Range(b.insts) : b \in running'[p]}
    BY DEF InHands
  <2> QED
    BY <1>5, <1>6, <2>1, <2>2 DEF Runs
<1>8. \A i \in Y : work_kind(i) = p
  BY <1>1, <1>2 DEF WorksAt
<1>9. Works'
  <2>1. Len(pool'[p]) <= MaxInflight
    BY <1>1, <1>6, LimitAssumption DEF WorksAt, Holds
  <2>2. idle'[p] \in Nat /\ idle'[p] + Cardinality(running'[p]) <= PoolWorkers[p]
    BY <1>1, <1>5, <1>6, LimitAssumption DEF WorksAt
  <2>3. Holds(pool'[p], Insts(pool'[p])) /\ Runs(running'[p], InHands(p)')
    BY <1>2, <1>5, <1>6, <1>7
  <2>4. \A i \in Insts(pool'[p]) \cup InHands(p)' : work_kind(i)' = p
    BY <1>1, <1>7, <1>8, KindsKept DEF WorksAt
  <2>5. WorksAt(p)'
    BY <2>1, <2>2, <2>3, <2>4 DEF WorksAt, Insts
  <2> QED
    BY <1>1, <1>6, <2>5, WorksChange
<1>10. InPools' = InPools \ Y /\ InRunning' = InRunning \cup Y
  <2>1. \A q \in Pools \ {p} : pool'[q] = pool[q]
    BY <1>6
  <2>2. \A q \in Pools \ {p} : running'[q] = running[q]
    BY <1>6
  <2>3. InPools' = InPools \ Y
    BY <1>1, <1>7, <1>8, <2>1, PoolsChange
  <2>4. InRunning' = InRunning \cup Y
    BY <1>1, <1>7, <1>8, <2>2, RunningChange
  <2> QED
    BY <2>3, <2>4
<1>11. Y \subseteq InPools
  BY <1>2 DEF InPools
<1>12. Placed'
  <2>1. \A z \in Zones : z # "pool" /\ z # "running" => Places'[z] = Places[z]
    BY PlacesAre, ZonesKept DEF Zones, TakeJob, disp_vars
  <2>2. "pool" \in Zones /\ "running" \in Zones /\ failure' = failure
    BY DEF Zones, TakeJob, disp_vars
  <2>3. /\ Y \subseteq Places["pool"] /\ Places'["pool"] = Places["pool"] \ Y
        /\ Places'["running"] = Places["running"] \cup Y
    BY <1>10, <1>11, PlacesAre
  <2> QED
    BY <1>1, <2>1, <2>2, <2>3, OneMove
<1>13. Outstanding' \cup lost' = Outstanding \cup lost
  BY <1>10, <1>11, ZonesKept DEF Outstanding, TakeJob, disp_vars
<1>14. Channels'
  BY ChannelsKept DEF Inv, Held, TakeJob, disp_vars
<1> QED
  BY <1>9, <1>12, <1>13, <1>14, WorkerKeeps DEF TakeJob

(* The workers of p now hold the jobs R, with the instructions H.          *)
LEMMA HandsChange ==
    ASSUME Works, UNCHANGED <<plan, mode, pool>>, NEW p \in Pools, NEW R, NEW H,
           running'[p] = R, DOMAIN running' = Pools, \A q \in Pools \ {p} : running'[q] = running[q],
           Runs(R, H), \A i \in H : work_kind(i) = p,
           DOMAIN idle' = Pools, \A q \in Pools \ {p} : idle'[q] = idle[q],
           idle'[p] \in Nat, idle'[p] + Cardinality(R) <= PoolWorkers[p]
    PROVE  /\ Works' /\ InHands(p)' = H
           /\ \A S : (\A i \in S : work_kind(i) = p) =>
                 /\ H = InHands(p) \ S => InRunning' = InRunning \ S
                 /\ H = InHands(p) => InRunning' = InRunning
<1>1. InHands(p)' = H
  <2>1. InHands(p)' = UNION {Range(b.insts) : b \in running'[p]}
    BY DEF InHands
  <2> QED
    BY <2>1 DEF Runs
<1>2. WorksAt(p)'
  <2>1. Holds(pool'[p], Insts(pool'[p])) /\ Len(pool'[p]) <= MaxInflight
    BY DEF Works, WorksAt
  <2>2. \A i \in Insts(pool'[p]) \cup InHands(p)' : work_kind(i)' = p
    BY <1>1, KindsKept DEF Works, WorksAt
  <2> QED
    BY <1>1, <2>1, <2>2 DEF WorksAt, Insts
<1>3. Works'
  <2>1. DOMAIN pool' = Pools /\ \A q \in Pools \ {p} : pool'[q] = pool[q]
    BY DEF Works
  <2> QED
    BY <1>2, <2>1, WorksChange
<1>4. ASSUME NEW S, \A i \in S : work_kind(i) = p
      PROVE  /\ H = InHands(p) \ S => InRunning' = InRunning \ S
             /\ H = InHands(p) => InRunning' = InRunning
  BY <1>1, <1>4, RunningChange
<1> QED
  BY <1>1, <1>3, <1>4

LEMMA BackToLoopOK ==
    ASSUME Works, NEW p \in Pools, BackToLoop(p), NEW R, Cardinality(R) \in Nat,
           Cardinality(running[p]) \in Nat, Cardinality(R) = Cardinality(running[p]) - 1
    PROVE  /\ DOMAIN idle' = Pools /\ \A q \in Pools \ {p} : idle'[q] = idle[q]
           /\ idle'[p] \in Nat /\ idle'[p] + Cardinality(R) <= PoolWorkers[p]
  BY LimitAssumption DEF BackToLoop, Works, WorksAt

LEMMA LeaveIdleInv == ASSUME Inv, NEW p \in Pools, LeaveIdle(p) PROVE Inv'
<1>1. Works /\ WorksAt(p) /\ UNCHANGED <<plan, mode, pool>> /\ DOMAIN idle = Pools
  BY DEF Inv, Held, Works, LeaveIdle, plan_vars
<1>2. Runs(running[p], InHands(p)) /\ \A i \in InHands(p) : work_kind(i) = p
  BY <1>1 DEF WorksAt
<1>3. running' = running /\ DOMAIN running = Pools
  BY <1>1 DEF LeaveIdle, Works
<1>4. Cardinality(running[p]) \in Nat
  BY <1>2, FS_CardinalityType DEF Runs
<1>5. /\ DOMAIN idle' = Pools /\ \A q \in Pools \ {p} : idle'[q] = idle[q]
      /\ idle'[p] \in Nat /\ idle'[p] + Cardinality(running[p]) <= PoolWorkers[p]
  BY <1>1, <1>4, LimitAssumption DEF LeaveIdle, WorksAt
<1>6. Works'
  BY <1>1, <1>2, <1>3, <1>5, HandsChange
<1>7. Channels'
  BY ChannelsKept DEF Inv, Held, LeaveIdle, disp_vars
<1>8. Placed'
  BY PlacedKept, ZonesKept DEF Inv, LeaveIdle, disp_vars
<1>9. Outstanding' \cup lost' = Outstanding \cup lost
  BY ZonesKept DEF Outstanding, LeaveIdle, disp_vars
<1> QED
  BY <1>6, <1>7, <1>8, <1>9, WorkerKeeps DEF LeaveIdle

LEMMA RunJobInv == ASSUME Inv, NEW p \in Pools, NEW job \in running[p], RunJob(p, job) PROVE Inv'
<1>1. Works /\ WorksAt(p) /\ UNCHANGED <<plan, mode, pool, idle>> /\ DOMAIN idle = Pools
  BY DEF Inv, Held, Works, RunJob, plan_vars
<1>2. PICK o \in {"ok", "err"} :
         running' = [running EXCEPT ![p] = (@ \ {job}) \cup {[job EXCEPT !.outcome = o]}]
  BY DEF RunJob
<1> DEFINE b == [job EXCEPT !.outcome = o]
           R == (running[p] \ {job}) \cup {b}
           Y == Range(job.insts)
<1>3. /\ job \in Work /\ Lists(job.insts, Y) /\ Y \subseteq InHands(p)
      /\ Runs(running[p] \ {job}, InHands(p) \ Y)
      /\ Cardinality(running[p]) \in Nat /\ Cardinality(running[p] \ {job}) = Cardinality(running[p]) - 1
  BY <1>1, RunsRemove DEF WorksAt
<1>4. b \in Work /\ b.insts = job.insts
  BY <1>3 DEF Work
<1>5. /\ running'[p] = R /\ DOMAIN running' = Pools
      /\ \A q \in Pools \ {p} : running'[q] = running[q]
  BY <1>1, <1>2 DEF Works
<1> HIDE DEF b, Y
<1>6. /\ Runs(R, (InHands(p) \ Y) \cup Y) /\ Cardinality(R) \in Nat
      /\ Cardinality(R) <= Cardinality(running[p] \ {job}) + 1
  <2>1. Lists(b.insts, Y) /\ (InHands(p) \ Y) \cap Y = {}
    BY <1>3, <1>4
  <2> QED
    BY <1>3, <1>4, <2>1, RunsAdd
<1>7. (InHands(p) \ Y) \cup Y = InHands(p)
  BY <1>3
<1>8. /\ DOMAIN idle' = Pools /\ \A q \in Pools \ {p} : idle'[q] = idle[q]
      /\ idle'[p] \in Nat /\ idle'[p] + Cardinality(R) <= PoolWorkers[p]
  BY <1>1, <1>3, <1>6, LimitAssumption DEF WorksAt
<1> HIDE DEF R
<1>9. Works' /\ InRunning' = InRunning
  <2>1. \A i \in InHands(p) : work_kind(i) = p
    BY <1>1 DEF WorksAt
  <2>2. Runs(R, InHands(p))
    BY <1>6, <1>7
  <2>3. /\ Works'
        /\ \A S : (\A i \in S : work_kind(i) = p) => InRunning' = InRunning
    BY <1>1, <1>5, <1>8, <2>1, <2>2, HandsChange
  <2>4. InRunning' = InRunning
    BY <2>1, <2>3
  <2> QED
    BY <2>3, <2>4
<1>10. Channels'
  BY ChannelsKept DEF Inv, Held, RunJob, disp_vars
<1>11. Placed'
  BY <1>9, PlacedKept DEF Inv, RunJob, disp_vars
<1>12. Outstanding' \cup lost' = Outstanding \cup lost
  BY <1>9, ZonesKept DEF Outstanding, RunJob, disp_vars
<1> QED
  BY <1>9, <1>10, <1>11, <1>12, WorkerKeeps DEF RunJob

LEMMA PanicInv == ASSUME Inv, NEW p \in Pools, NEW job \in running[p], Panic(p, job) PROVE Inv'
<1> DEFINE R == running[p] \ {job}
           Y == Range(job.insts)
<1>1. Works /\ WorksAt(p) /\ UNCHANGED <<plan, mode, pool>> /\ Placed
  BY DEF Inv, Held, Works, Panic, plan_vars
<1>2. /\ Y \subseteq InHands(p) /\ Runs(R, InHands(p) \ Y)
      /\ Cardinality(running[p]) \in Nat /\ Cardinality(R) = Cardinality(running[p]) - 1
  BY <1>1, RunsRemove DEF WorksAt
<1>3. Cardinality(R) \in Nat
  BY <1>2, FS_CardinalityType DEF Runs
<1>4. /\ running'[p] = R /\ DOMAIN running' = Pools
      /\ \A q \in Pools \ {p} : running'[q] = running[q]
  BY <1>1 DEF Panic, Works
<1> HIDE DEF R
<1>5. /\ DOMAIN idle' = Pools /\ \A q \in Pools \ {p} : idle'[q] = idle[q]
      /\ idle'[p] \in Nat /\ idle'[p] + Cardinality(R) <= PoolWorkers[p]
  BY <1>1, <1>2, <1>3, BackToLoopOK DEF Panic
<1>6. \A i \in InHands(p) : work_kind(i) = p
  BY <1>1 DEF WorksAt
<1>7. Works' /\ InRunning' = InRunning \ Y
  <2>1. \A i \in InHands(p) \ Y : work_kind(i) = p
    BY <1>6
  <2>2. /\ Works'
        /\ \A S : (\A i \in S : work_kind(i) = p) =>
              (InHands(p) \ Y = InHands(p) \ S => InRunning' = InRunning \ S)
    BY <1>1, <1>2, <1>4, <1>5, <2>1, HandsChange
  <2>3. \A i \in Y : work_kind(i) = p
    BY <1>2, <1>6
  <2> QED
    BY <2>2, <2>3
<1>8. Y \subseteq InRunning
  BY <1>2 DEF InRunning, InHands
<1>9. Placed'
  <2>1. \A z \in Zones : z # "running" /\ z # "lost" => Places'[z] = Places[z]
    BY PlacesAre, ZonesKept DEF Zones, Panic, disp_vars
  <2>2. "lost" \in Zones /\ "running" \in Zones /\ failure' = failure /\ lost' = lost \cup Y
    BY DEF Zones, Panic, disp_vars
  <2>3. /\ Y \subseteq Places["running"] /\ Places'["running"] = Places["running"] \ Y
        /\ Places'["lost"] = Places["lost"] \cup Y
    BY <1>7, <1>8, <2>2, PlacesAre
  <2> QED
    BY <1>1, <2>1, <2>2, <2>3, OneMove
<1>10. Outstanding' \cup lost' = Outstanding \cup lost
  <2>1. lost' = lost \cup Y
    BY DEF Panic
  <2> QED
    BY <1>7, <1>8, <2>1, ZonesKept DEF Outstanding, Panic, disp_vars
<1>11. Channels'
  BY ChannelsKept DEF Inv, Held, Panic, disp_vars
<1> QED
  BY <1>7, <1>9, <1>10, <1>11, WorkerKeeps DEF Panic

(* The first instruction i of a job is reported: the rest of the job, if   *)
(* any, stays with the worker.                                             *)
LEMMA SendWorks ==
    ASSUME Inv, NEW p \in Pools, NEW job \in running[p], SendCompletion(p, job)
    PROVE  /\ Head(job.insts) \in InHands(p) /\ work_kind(Head(job.insts)) = p
           /\ Works' /\ InRunning' = InRunning \ {Head(job.insts)}
<1> DEFINE i == Head(job.insts)
           Y == Range(job.insts)
<1>1. Works /\ WorksAt(p) /\ UNCHANGED <<plan, mode, pool>> /\ DOMAIN idle = Pools
  BY DEF Inv, Held, Works, SendCompletion, plan_vars
<1>2. /\ job \in Work /\ Lists(job.insts, Y) /\ job.insts \in Job /\ Y \subseteq InHands(p)
      /\ Runs(running[p] \ {job}, InHands(p) \ Y)
      /\ Cardinality(running[p]) \in Nat /\ Cardinality(running[p] \ {job}) = Cardinality(running[p]) - 1
  BY <1>1, RunsRemove DEF WorksAt
<1>3. job.insts # <<>> /\ Len(job.insts) \in Nat
  BY <1>2 DEF Job
<1>4. i \in Y /\ Lists(Tail(job.insts), Y \ {i}) /\ Len(Tail(job.insts)) = Len(job.insts) - 1
  BY <1>2, <1>3, ListsTail
<1>5. \A j \in InHands(p) : work_kind(j) = p
  BY <1>1 DEF WorksAt
<1>6. ASSUME NEW R, running' = [running EXCEPT ![p] = R], Runs(R, InHands(p) \ {i}),
             DOMAIN idle' = Pools, \A q \in Pools \ {p} : idle'[q] = idle[q],
             idle'[p] \in Nat, idle'[p] + Cardinality(R) <= PoolWorkers[p]
      PROVE  Works' /\ InRunning' = InRunning \ {i}
  <2>1. /\ running'[p] = R /\ DOMAIN running' = Pools
        /\ \A q \in Pools \ {p} : running'[q] = running[q]
    BY <1>1, <1>6 DEF Works
  <2>2. \A j \in InHands(p) \ {i} : work_kind(j) = p
    BY <1>5
  <2>3. /\ Works'
        /\ \A S : (\A j \in S : work_kind(j) = p) =>
              (InHands(p) \ {i} = InHands(p) \ S => InRunning' = InRunning \ S)
    BY <1>1, <1>6, <2>1, <2>2, HandsChange
  <2>4. \A j \in {i} : work_kind(j) = p
    BY <1>2, <1>4, <1>5
  <2> QED
    BY <2>3, <2>4
<1>7. CASE Len(job.insts) = 1
  <2> DEFINE R == running[p] \ {job}
  <2>1. Y = {i}
    <3>1. Tail(job.insts) = <<>>
      <4>1. Len(Tail(job.insts)) = 0
        BY <1>3, <1>4, <1>7
      <4> QED
        BY <1>4, <4>1, ListsLength
    <3>2. Y \ {i} = {}
      BY <1>4, <3>1, ListsLength
    <3> QED
      BY <1>4, <3>2
  <2>2. Cardinality(R) \in Nat
    BY <1>2, FS_CardinalityType DEF Runs
  <2>3. running' = [running EXCEPT ![p] = R] /\ BackToLoop(p)
    BY <1>7 DEF SendCompletion
  <2>4. /\ DOMAIN idle' = Pools /\ \A q \in Pools \ {p} : idle'[q] = idle[q]
        /\ idle'[p] \in Nat /\ idle'[p] + Cardinality(R) <= PoolWorkers[p]
    BY <1>1, <1>2, <2>2, <2>3, BackToLoopOK
  <2>5. Runs(R, InHands(p) \ {i})
    BY <1>2, <2>1
  <2> HIDE DEF R
  <2> QED
    BY <1>2, <1>4, <1>5, <1>6, <2>3, <2>4, <2>5
<1>8. CASE Len(job.insts) # 1
  <2> DEFINE b == [job EXCEPT !.insts = Tail(@)]
             R == (running[p] \ {job}) \cup {b}
  <2>1. b.insts = Tail(job.insts) /\ b \in Work
    <3>1. Tail(job.insts) \in Job
      <4>1. Len(Tail(job.insts)) # 0 /\ Tail(job.insts) \in Seq(Instr)
        BY <1>3, <1>4, <1>8 DEF Lists
      <4> QED
        BY <1>4, <4>1, ListsLength DEF Job
    <3> QED
      BY <1>2, <3>1 DEF Work
  <2>2. running' = [running EXCEPT ![p] = R] /\ idle' = idle
    BY <1>8 DEF SendCompletion
  <2> HIDE DEF b
  <2>3. /\ Runs(R, (InHands(p) \ Y) \cup (Y \ {i})) /\ Cardinality(R) \in Nat
        /\ Cardinality(R) <= Cardinality(running[p] \ {job}) + 1
    <3>1. Lists(b.insts, Y \ {i}) /\ (InHands(p) \ Y) \cap (Y \ {i}) = {}
      BY <1>4, <2>1
    <3> QED
      BY <1>2, <2>1, <3>1, RunsAdd
  <2>4. (InHands(p) \ Y) \cup (Y \ {i}) = InHands(p) \ {i}
    BY <1>2, <1>4
  <2>5. Runs(R, InHands(p) \ {i})
    BY <2>3, <2>4
  <2>6. /\ DOMAIN idle' = Pools /\ \A q \in Pools \ {p} : idle'[q] = idle[q]
        /\ idle'[p] \in Nat /\ idle'[p] + Cardinality(R) <= PoolWorkers[p]
    BY <1>1, <1>2, <2>2, <2>3, LimitAssumption DEF WorksAt
  <2> HIDE DEF R
  <2> QED
    BY <1>2, <1>4, <1>5, <1>6, <2>2, <2>5, <2>6
<1> QED
  BY <1>7, <1>8

LEMMA SendInv == ASSUME Inv, NEW p \in Pools, NEW job \in running[p], SendCompletion(p, job) PROVE Inv'
<1> DEFINE i == Head(job.insts)
<1>1. Held /\ Counted /\ Placed /\ Channels
  BY DEF Inv, Held, Counts
<1>2. i \in InRunning /\ Works' /\ InRunning' = InRunning \ {i}
  BY SendWorks, ZenonT(60) DEF InRunning, InHands
<1>3. i \in Instr /\ i \notin InChannel
  <2>1. InRunning \cap InChannel = {}
    BY <1>1, Disjoint, PlacesAre DEF Zones
  <2> QED
    BY <1>1, <1>2, <2>1, PlacesInSchedule
<1>4. PICK ok \in BOOLEAN : channel' = Append(channel, [inst |-> i, ok |-> ok])
  BY DEF SendCompletion
<1> DEFINE x == [inst |-> i, ok |-> ok]
<1>5. x \in Completion /\ x.inst = i
  BY <1>3 DEF Completion
<1> HIDE DEF i, x
<1>6. Reports(channel', InChannel \cup {i})
  BY <1>1, <1>3, <1>4, <1>5, ReportsAppend DEF Channels, x
<1>7. InChannel' = InChannel \cup {i}
  BY <1>6 DEF Reports, InChannel, Reported
<1>8. Channels'
  <2>1. Len(channel') <= ChannelCap
    <3>1. Len(channel') = Len(channel) + 1 /\ Len(channel) \in Nat
      BY <1>1, <1>4, <1>5 DEF Channels, Reports, x
    <3> QED
      BY <3>1, ChannelCapIsNat DEF SendCompletion
  <2> QED
    BY <1>1, <1>6, <1>7, <2>1 DEF Channels, SendCompletion, disp_vars, InHand
<1>9. Placed'
  <2>1. \A z \in Zones : z # "running" /\ z # "channel" => Places'[z] = Places[z]
    BY PlacesAre, ZonesKept DEF Zones, SendCompletion, disp_vars
  <2>2. "channel" \in Zones /\ "running" \in Zones /\ failure' = failure
    BY DEF Zones, SendCompletion, disp_vars
  <2>3. /\ {i} \subseteq Places["running"] /\ Places'["running"] = Places["running"] \ {i}
        /\ Places'["channel"] = Places["channel"] \cup {i}
    BY <1>2, <1>7, PlacesAre
  <2> QED
    BY <1>1, <2>1, <2>2, <2>3, OneMove
<1>10. Outstanding' \cup lost' = Outstanding \cup lost
  BY <1>2, <1>7, ZonesKept DEF Outstanding, SendCompletion, disp_vars
<1> QED
  BY <1>2, <1>8, <1>9, <1>10, WorkerKeeps DEF SendCompletion

-----------------------------------------------------------------------------
(* Steps of the dispatcher on its channel                                  *)

LEMMA WaitReceiveInv == ASSUME Inv, WaitReceive PROVE Inv'
<1> DEFINE x == Head(channel)
<1>1. Held /\ Counted /\ Placed /\ Channels /\ Control /\ UNCHANGED <<plan, mode>>
  BY DEF Inv, Held, Counts, WaitReceive, plan_vars
<1>2. /\ x \in Completion /\ x.inst \in InChannel /\ Reports(channel', InChannel \ {x.inst})
      /\ Len(channel') = Len(channel) - 1 /\ Len(channel) \in Nat \ {0}
  BY <1>1, ReportsTail DEF WaitReceive, Channels
<1>3. hand = <<>> /\ InHand = {}
  BY <1>1 DEF WaitReceive, Control, InHand, Reported
<1>4. Reports(hand', {x.inst}) /\ Len(hand') = 1 /\ hand' # <<>>
  <2>1. hand' = Append(<<>>, x)
    BY DEF WaitReceive
  <2>2. Reports(Append(<<>>, x), {} \cup {x.inst})
    BY <1>2, ReportsEmpty, ReportsAppend
  <2>3. Len(hand') = 1 /\ hand' # <<>>
    BY DEF WaitReceive
  <2> QED
    BY <2>1, <2>2, <2>3
<1>5. InChannel' = InChannel \ {x.inst} /\ InHand' = InHand \cup {x.inst}
  BY <1>2, <1>3, <1>4 DEF Reports, InChannel, InHand, Reported
<1> HIDE DEF x
<1>6. Channels'
  <2>1. Len(channel') <= ChannelCap /\ Len(hand') <= 1
    BY <1>1, <1>2, <1>4, ChannelCapIsNat DEF Channels
  <2> QED
    BY <1>2, <1>3, <1>4, <1>5, <2>1 DEF Channels
<1>7. Held' /\ Counted'
  BY <1>1, <1>6, QueuesKept, SubmitsKept, WorksKept, CountedKept DEF Held, WaitReceive
<1>8. Placed'
  <2>1. \A z \in Zones : z # "channel" /\ z # "hand" => Places'[z] = Places[z]
    BY PlacesAre, ZonesKept DEF Zones, WaitReceive
  <2>2. "channel" \in Zones /\ "hand" \in Zones /\ failure' = failure
    BY DEF Zones, WaitReceive
  <2>3. /\ {x.inst} \subseteq Places["channel"] /\ Places'["channel"] = Places["channel"] \ {x.inst}
        /\ Places'["hand"] = Places["hand"] \cup {x.inst}
    BY <1>2, <1>5, PlacesAre
  <2> QED
    BY <1>1, <2>1, <2>2, <2>3, OneMove
<1>9. Outstanding' = Outstanding /\ Launched' = Launched
  BY <1>2, <1>5, ZonesKept DEF Outstanding, Launched, WaitReceive
<1>10. Owing' /\ Finishing'
  BY <1>9 DEF Inv, Counts, Owing, Finishing, WaitReceive
<1>11. Keyed'
  BY <1>1, <1>9, ZonesKept, KindsKept DEF Inv, Keyed, OnePerKey, WaitReceive
<1>12. Static'
  BY LimitAssumption DEF Inv, Static, WaitReceive, plan_vars
<1>13. Control'
  BY <1>1, <1>4 DEF Control, Labels, WaitReceive
<1> QED
  BY <1>7, <1>8, <1>10, <1>11, <1>12, <1>13 DEF Inv, Counts

LEMMA ResendInv == ASSUME Inv, Resend PROVE Inv'
<1> DEFINE x == hand[1]
<1>1. Held /\ Counted /\ Placed /\ Channels /\ Control /\ UNCHANGED <<plan, mode>>
  BY DEF Inv, Held, Counts, Resend, plan_vars
<1>2. /\ hand # <<>> /\ Head(hand) = x
      /\ x \in Completion /\ x.inst \in InHand /\ InHand \ {x.inst} = {}
  <2>1. hand # <<>>
    BY <1>1 DEF Resend, Control
  <2>2. /\ Head(hand) \in Completion /\ Head(hand).inst \in InHand
        /\ Reports(Tail(hand), InHand \ {Head(hand).inst})
        /\ Len(Tail(hand)) = Len(hand) - 1 /\ Len(hand) \in Nat \ {0}
    BY <1>1, <2>1, ReportsTail DEF Channels
  <2>3. Tail(hand) = <<>> /\ Head(hand) = x
    BY <1>1, <2>1, <2>2 DEF Channels, Reports
  <2>4. InHand \ {Head(hand).inst} = {}
    BY <2>2, <2>3 DEF Reports, Reported
  <2> QED
    BY <2>1, <2>2, <2>3, <2>4
<1>3. x.inst \notin InChannel
  <2>1. InHand \cap InChannel = {}
    BY <1>1, Disjoint, PlacesAre DEF Zones
  <2> QED
    BY <1>2, <2>1
<1>4. Reports(channel', InChannel \cup {x.inst}) /\ channel' = Append(channel, x)
  BY <1>1, <1>2, <1>3, ReportsAppend DEF Channels, Resend
<1>5. InChannel' = InChannel \cup {x.inst} /\ InHand' = InHand \ {x.inst} /\ Reports(hand', InHand')
  <2>1. hand' = <<>>
    BY DEF Resend
  <2>2. InHand' = {}
    BY <2>1 DEF InHand, Reported
  <2> QED
    BY <1>2, <1>4, <2>1, <2>2, ReportsEmpty DEF Reports, InChannel, Reported
<1> HIDE DEF x
<1>6. Channels'
  <2>1. Len(channel') = Len(channel) + 1 /\ Len(channel) \in Nat
    BY <1>1, <1>2, <1>4 DEF Channels, Reports
  <2>2. Len(channel') <= ChannelCap /\ Len(hand') <= 1
    BY <2>1, ChannelCapIsNat DEF Resend
  <2> QED
    BY <1>4, <1>5, <2>2 DEF Channels
<1>7. Held' /\ Counted'
  BY <1>1, <1>6, QueuesKept, SubmitsKept, WorksKept, CountedKept DEF Held, Resend
<1>8. Placed'
  <2>1. \A z \in Zones : z # "hand" /\ z # "channel" => Places'[z] = Places[z]
    BY PlacesAre, ZonesKept DEF Zones, Resend
  <2>2. "channel" \in Zones /\ "hand" \in Zones /\ failure' = failure
    BY DEF Zones, Resend
  <2>3. /\ {x.inst} \subseteq Places["hand"] /\ Places'["hand"] = Places["hand"] \ {x.inst}
        /\ Places'["channel"] = Places["channel"] \cup {x.inst}
    BY <1>2, <1>5, PlacesAre
  <2> QED
    BY <1>1, <2>1, <2>2, <2>3, OneMove
<1>9. Outstanding' = Outstanding /\ Launched' = Launched
  BY <1>2, <1>5, ZonesKept DEF Outstanding, Launched, Resend
<1>10. Owing' /\ Finishing'
  BY <1>9 DEF Inv, Counts, Owing, Finishing, Resend
<1>11. Keyed'
  BY <1>1, <1>9, ZonesKept, KindsKept DEF Inv, Keyed, OnePerKey, Resend
<1>12. Static'
  BY DEF Inv, Static, Resend, plan_vars
<1>13. Control'
  BY <1>1 DEF Control, Labels, Resend
<1> QED
  BY <1>7, <1>8, <1>10, <1>11, <1>12, <1>13 DEF Inv, Counts

(* A failed instruction leaves the channel and is held nowhere.            *)
LEMMA DrainErrInv == ASSUME Inv, DrainErr PROVE Inv'
<1> DEFINE x == Head(channel)
<1>0. DrainErrAs("Instruction", "join")
  BY DEF DrainErr
<1>1. Held /\ Counted /\ Placed /\ Channels /\ Control /\ UNCHANGED <<plan, mode>>
  BY <1>0 DEF Inv, Held, Counts, DrainErrAs, plan_vars
<1>2. /\ x.inst \in InChannel /\ Reports(channel', InChannel \ {x.inst})
      /\ Len(channel') = Len(channel) - 1 /\ Len(channel) \in Nat \ {0}
  BY <1>0, <1>1, ReportsTail DEF DrainErrAs, Channels
<1> HIDE DEF x
<1>3. InChannel' = InChannel \ {x.inst}
  BY <1>2 DEF Reports, InChannel, Reported
<1>4. Channels'
  BY <1>0, <1>1, <1>2, <1>3, ChannelCapIsNat DEF Channels, DrainErrAs, InHand
<1>5. Held' /\ Counted'
  BY <1>0, <1>1, <1>4, QueuesKept, SubmitsKept, WorksKept, CountedKept DEF Held, DrainErrAs
<1>6. failure' # None /\ Finishing' /\ Keyed'
  BY <1>0, NoneAssumption, TotalIsNat DEF DrainErrAs, Finishing, Keyed
<1>7. Placed'
  <2>1. \A z \in Zones : Places'[z] \subseteq Places[z]
    BY <1>0, <1>3, PlacesAre, ZonesKept DEF Zones, DrainErrAs
  <2>2. Exclusive(Places')
    BY <1>1, <2>1, FewerPlaces DEF Placed
  <2> QED
    BY <1>6, <2>2 DEF Placed, Complete, Exclusive
<1>8. Outstanding' = Outstanding \ {x.inst} /\ x.inst \in Outstanding
  <2>1. x.inst \notin InPools /\ x.inst \notin InRunning /\ x.inst \notin InHand
    BY <1>1, <1>2, Disjoint, PlacesAre DEF Zones
  <2> QED
    BY <1>0, <1>2, <1>3, <2>1, ZonesKept DEF Outstanding, DrainErrAs
<1>9. Owing'
  <2>1. Cardinality(Outstanding') = Cardinality(Outstanding) - 1
    BY <1>1, <1>8, PlacesInSchedule, FS_RemoveElement
  <2>2. /\ Cardinality(Outstanding) \in Nat /\ Cardinality(lost) \in Nat
        /\ Cardinality(Outstanding) # 0
    BY <1>1, <1>8, PlacesInSchedule, FS_EmptySet
  <2> QED
    BY <1>0, <2>1, <2>2 DEF Inv, Counts, Owing, DrainErrAs
<1>10. Static'
  BY <1>0 DEF Inv, Static, DrainErrAs, plan_vars
<1>11. Control'
  BY <1>0, <1>1, NoneAssumption DEF Control, Labels, DrainErrAs
<1> QED
  BY <1>5, <1>6, <1>7, <1>9, <1>10, <1>11 DEF Inv, Counts

-----------------------------------------------------------------------------
(* Steps that hand out what was launched                                   *)

(* The completions of Y are owed from now on.                              *)
LEMMA OwingMore ==
    ASSUME Inv, NEW Y, Y \subseteq InSubmitting, Outstanding' = Outstanding \cup Y,
           lost' = lost, inflight' = inflight + Cardinality(Y)
    PROVE  Owing'
<1>1. Held /\ Counted /\ Placed /\ Owing
  BY DEF Inv, Counts
<1>2. Outstanding \cap Y = {}
  <2>1. /\ InSubmitting \cap InPools = {} /\ InSubmitting \cap InRunning = {}
        /\ InSubmitting \cap InChannel = {} /\ InSubmitting \cap InHand = {}
    BY <1>1, Disjoint, PlacesAre DEF Zones
  <2> QED
    BY <2>1 DEF Outstanding
<1>3. IsFiniteSet(Y) /\ IsFiniteSet(Outstanding)
  BY <1>1, PlacesInSchedule, TotalIsNat, FS_Subset
<1>4. /\ Cardinality(Outstanding \cup Y)
           = Cardinality(Outstanding) + Cardinality(Y) - Cardinality(Outstanding \cap Y)
      /\ Cardinality(Outstanding \cap Y) = 0
  BY <1>2, <1>3, FS_Union, FS_EmptySet
<1>5. Cardinality(Outstanding) \in Nat /\ Cardinality(Y) \in Nat /\ Cardinality(lost) \in Nat
  BY <1>1, <1>3, PlacesInSchedule, FS_CardinalityType
<1> QED
  BY <1>1, <1>4, <1>5 DEF Owing

LEMMA SubmitInv == ASSUME Inv, Submit PROVE Inv'
<1> DEFINE job == Head(submitting)
           Y == Range(job)
<1>0. SubmitCounting(Len(job))
  BY DEF Submit
<1>1. /\ Held /\ Counted /\ Placed /\ Submits /\ Works /\ Control /\ UNCHANGED <<plan, mode>>
      /\ pc = "submit" /\ submitting # <<>>
  BY <1>0 DEF Inv, Held, Counts, SubmitCounting, plan_vars, Control
<1>2. /\ job \in Job /\ job = submitting[1] /\ Lists(job, Y) /\ Y \subseteq InSubmitting /\ Y # {}
      /\ Holds(Tail(submitting), InSubmitting \ Y)
  BY <1>1, HoldsTail DEF Submits
<1>3. /\ Len(job) = Cardinality(Y) /\ job[1] \in Y
      /\ 1 \in DOMAIN submitting /\ Len(submitting) \in Nat \ {0}
  <2>1. Len(job) = Cardinality(Y)
    BY <1>2, ListsLength
  <2>2. job[1] \in Y
    BY <1>2 DEF Lists, Job, Range
  <2>3. 1 \in DOMAIN submitting /\ Len(submitting) \in Nat \ {0}
    BY <1>1 DEF Submits, Holds
  <2> QED
    BY <2>1, <2>2, <2>3
<1>4. PICK p \in Pools : p = work_kind(job[1]) /\ \A i \in Y : work_kind(i) = p
  <2>1. work_kind(job[1]) \in Pools
    BY <1>1, <1>2, <1>3 DEF Control
  <2>2. \A i \in Y : work_kind(i) = work_kind(job[1])
    BY <1>1, <1>2, <1>3 DEF Submits
  <2> QED
    BY <2>1, <2>2
<1>5. /\ submitting' = Tail(submitting) /\ inflight' = inflight + Cardinality(Y)
      /\ pool' = [pool EXCEPT ![p] = Append(@, job)] /\ Len(pool[p]) < MaxInflight
      /\ pc' = IF Len(submitting) = 1 THEN "launch" ELSE "submit"
      /\ UNCHANGED <<remaining, ready, wave, queues, busy, finished, done, failure, hand, stall,
                     running, idle, channel, lost, shut, cancel>>
  BY <1>0, <1>3, <1>4 DEF SubmitCounting
<1> HIDE DEF Y, job
<1>6. InSubmitting' = InSubmitting \ Y
  BY <1>2, <1>5 DEF Holds, InSubmitting, Insts
<1>7. Submits'
  <2>1. Holds(submitting', InSubmitting')
    BY <1>2, <1>5, <1>6
  <2>2. ASSUME NEW n \in DOMAIN submitting', NEW i \in Range(submitting'[n])
        PROVE  work_kind(i)' = work_kind(submitting[n][1])'
    <3>1. n + 1 \in DOMAIN submitting /\ submitting'[n] = submitting[n + 1]
      BY <1>1, <1>5 DEF Submits, Holds
    <3>2. work_kind(i) = work_kind(submitting[n + 1][1])
      BY <1>1, <2>2, <3>1 DEF Submits
    <3>3. \A j : work_kind(j)' = work_kind(j)
      BY <1>1, KindsKept
    <3>4. work_kind(submitting[n][1])' = work_kind(submitting'[n][1])
      BY <1>1 DEF work_kind, IsCompute
    <3> QED
      BY <3>1, <3>2, <3>3, <3>4
  <2> QED
    BY <2>1, <2>2 DEF Submits
<1>8. Insts(pool[p]) \cap Y = {}
  <2>1. InPools \cap InSubmitting = {}
    BY <1>1, Disjoint, PlacesAre DEF Zones
  <2> QED
    BY <1>2, <1>4, <2>1 DEF InPools
<1>9. /\ pool'[p] = Append(pool[p], job) /\ DOMAIN pool' = Pools
      /\ \A q \in Pools \ {p} : pool'[q] = pool[q]
  BY <1>1, <1>4, <1>5 DEF Works
<1>10. Holds(pool'[p], Insts(pool[p]) \cup Y) /\ Insts(pool'[p]) = Insts(pool[p]) \cup Y
  <2>1. Holds(pool[p], Insts(pool[p]))
    BY <1>1, <1>4 DEF Works, WorksAt
  <2>2. Holds(Append(pool[p], job), Insts(pool[p]) \cup Y)
    BY <1>2, <1>8, <2>1, HoldsAppend
  <2> QED
    BY <1>9, <2>2 DEF Holds
<1>11. Works'
  <2>1. Len(pool'[p]) <= MaxInflight
    <3>1. Len(pool'[p]) = Len(pool[p]) + 1 /\ Len(pool[p]) \in Nat
      BY <1>1, <1>2, <1>4, <1>9 DEF Works, WorksAt, Holds
    <3> QED
      BY <1>5, <3>1, LimitAssumption
  <2>2. \A i \in Insts(pool'[p]) \cup InHands(p) : work_kind(i) = p
    BY <1>1, <1>4, <1>10 DEF Works, WorksAt
  <2>3. InHands(p)' = InHands(p) /\ Insts(pool[p])' = Insts(pool'[p])
    BY <1>5 DEF InHands, Insts
  <2>4. WorksAt(p)'
    BY <1>1, <1>4, <1>5, <1>10, <2>1, <2>2, <2>3, KindsKept DEF Works, WorksAt
  <2>5. /\ DOMAIN running' = Pools /\ DOMAIN idle' = Pools
        /\ \A q \in Pools \ {p} : running'[q] = running[q] /\ idle'[q] = idle[q]
    BY <1>1, <1>5 DEF Works
  <2> QED
    BY <1>1, <1>4, <1>9, <2>4, <2>5, WorksChange
<1>12. InPools' = InPools \cup Y
  BY <1>1, <1>4, <1>9, <1>10, PoolsChange
<1>13. Held' /\ Counted'
  BY <1>1, <1>5, <1>7, <1>11, QueuesKept, ChannelsKept, CountedKept DEF Held
<1>14. Placed'
  <2>1. \A z \in Zones : z # "submitting" /\ z # "pool" => Places'[z] = Places[z]
    BY <1>5, PlacesAre, ZonesKept DEF Zones
  <2>2. "submitting" \in Zones /\ "pool" \in Zones /\ failure' = failure
    BY <1>5 DEF Zones
  <2>3. /\ Y \subseteq Places["submitting"] /\ Places'["submitting"] = Places["submitting"] \ Y
        /\ Places'["pool"] = Places["pool"] \cup Y
    BY <1>2, <1>6, <1>12, PlacesAre
  <2> QED
    BY <1>1, <2>1, <2>2, <2>3, OneMove
<1>15. Outstanding' = Outstanding \cup Y /\ Launched' = Launched
  BY <1>2, <1>5, <1>6, <1>12, ZonesKept DEF Outstanding, Launched
<1>16. Owing' /\ Finishing'
  BY <1>2, <1>5, <1>15, OwingMore DEF Inv, Counts, Finishing
<1>17. Keyed'
  BY <1>1, <1>5, <1>15, ZonesKept, KindsKept DEF Inv, Keyed, OnePerKey
<1>18. Static'
  BY <1>1, <1>5 DEF Inv, Static
<1>19. Control'
  <2>1. Len(submitting) = 1 => submitting' = <<>>
    BY <1>1, <1>5 DEF Submits, Holds
  <2>2. Len(submitting) # 1 => submitting' # <<>>
    <3>1. Len(submitting') = Len(submitting) - 1
      BY <1>1, <1>5 DEF Submits, Holds
    <3>2. Len(submitting) # 1 => Len(submitting') # 0
      BY <1>3, <3>1
    <3> QED
      BY <3>2
  <2>3. \A i \in InSubmitting' : work_kind(i)' \in Pools
    BY <1>1, <1>6, KindsKept DEF Control
  <2> QED
    BY <1>1, <1>5, <2>1, <2>2, <2>3 DEF Control, Labels
<1> QED
  BY <1>13, <1>14, <1>16, <1>17, <1>18, <1>19 DEF Inv, Counts

LEMMA RunInlineInv == ASSUME Inv, RunInline PROVE Inv'
<1>1. Held /\ Counted /\ Placed /\ Channels /\ Submits /\ Control /\ UNCHANGED <<plan, mode>>
  BY DEF Inv, Held, Counts, RunInline, plan_vars
<1>2. PICK i \in Instr : submitting = <<<<i>>>>
  BY <1>1 DEF RunInline, Control
<1>3. InSubmitting = {i}
  BY <1>2 DEF InSubmitting, Insts, Range
<1>4. PICK ok \in BOOLEAN : channel' = Append(channel, [inst |-> i, ok |-> ok])
  BY <1>2 DEF RunInline
<1> DEFINE x == [inst |-> i, ok |-> ok]
<1>5. x \in Completion /\ x.inst = i
  BY DEF Completion
<1> HIDE DEF x
<1>6. i \notin InChannel
  <2>1. InSubmitting \cap InChannel = {}
    BY <1>1, Disjoint, PlacesAre DEF Zones
  <2> QED
    BY <1>3, <2>1
<1>7. Reports(channel', InChannel \cup {i})
  BY <1>1, <1>4, <1>5, <1>6, ReportsAppend DEF Channels, x
<1>8. InChannel' = InChannel \cup {i} /\ InSubmitting' = InSubmitting \ {i} /\ submitting' = <<>>
  <2>1. submitting' = <<>>
    BY DEF RunInline
  <2>2. InSubmitting' = {}
    BY <2>1 DEF InSubmitting, Insts
  <2>3. InChannel' = InChannel \cup {i}
    BY <1>7 DEF Reports, InChannel, Reported
  <2> QED
    BY <1>3, <2>1, <2>2, <2>3
<1>9. Channels'
  <2>1. Len(channel') <= ChannelCap
    <3>1. Len(channel') = Len(channel) + 1 /\ Len(channel) \in Nat
      BY <1>1, <1>4, <1>5 DEF Channels, Reports, x
    <3> QED
      BY <3>1, ChannelCapIsNat DEF RunInline
  <2> QED
    BY <1>1, <1>7, <1>8, <2>1 DEF Channels, RunInline, InHand
<1>10. Submits'
  <2>1. InSubmitting' = {}
    BY <1>3, <1>8
  <2> QED
    BY <1>8, <2>1, HoldsEmpty DEF Submits
<1>11. Held' /\ Counted'
  BY <1>1, <1>9, <1>10, QueuesKept, WorksKept, CountedKept DEF Held, RunInline
<1>12. Placed'
  <2>1. \A z \in Zones : z # "submitting" /\ z # "channel" => Places'[z] = Places[z]
    BY PlacesAre, ZonesKept DEF Zones, RunInline
  <2>2. "submitting" \in Zones /\ "channel" \in Zones /\ failure' = failure
    BY DEF Zones, RunInline
  <2>3. /\ {i} \subseteq Places["submitting"] /\ Places'["submitting"] = Places["submitting"] \ {i}
        /\ Places'["channel"] = Places["channel"] \cup {i}
    BY <1>3, <1>8, PlacesAre
  <2> QED
    BY <1>1, <2>1, <2>2, <2>3, OneMove
<1>13. Outstanding' = Outstanding \cup {i} /\ Launched' = Launched
  BY <1>3, <1>8, ZonesKept DEF Outstanding, Launched, RunInline
<1>14. Owing' /\ Finishing'
  <2>1. Cardinality({i}) = 1
    BY FS_Singleton
  <2> QED
    BY <1>3, <1>13, <2>1, OwingMore DEF Inv, Counts, Finishing, RunInline
<1>15. Keyed'
  BY <1>1, <1>13, ZonesKept, KindsKept DEF Inv, Keyed, OnePerKey, RunInline
<1>16. Static'
  BY <1>1 DEF Inv, Static, RunInline
<1>17. Control'
  BY <1>1, <1>8 DEF Control, Labels, RunInline
<1> QED
  BY <1>11, <1>12, <1>14, <1>15, <1>16, <1>17 DEF Inv, Counts

-----------------------------------------------------------------------------
(* Finishing an instruction                                                *)

LEMMA DepsInSchedule ==
    ASSUME plan \in Plans, NEW j \in Instr
    PROVE  plan.deps[j] \in SUBSET Instr /\ IsFiniteSet(plan.deps[j] \ done)
<1>1. plan.deps[j] \subseteq 1..(j - 1)
  BY PlanAssumption
<1>2. 1..(j - 1) \subseteq Instr
  BY TotalIsNat
<1>3. plan.deps[j] \ done \in SUBSET Instr
  BY <1>1, <1>2
<1> QED
  BY <1>1, <1>2, <1>3, TotalIsNat, FS_Subset

(* The dependents that i frees were blocked on i alone.                    *)
LEMMA CountsDown ==
    ASSUME Counted, plan \in Plans, UNCHANGED <<plan, lost>>, NEW i \in Instr, i \notin done,
           done' = done \cup {i},
           remaining' = [j \in Instr |-> IF j \in dependents(i) /\ remaining[j] > 0
                                         THEN remaining[j] - 1 ELSE remaining[j]]
    PROVE  /\ Counted'
           /\ {j \in dependents(i) : remaining[j] <= 1} \subseteq InBlocked
           /\ InBlocked' = InBlocked \ {j \in dependents(i) : remaining[j] <= 1}
<1>1. ASSUME NEW j \in Instr
      PROVE  /\ remaining[j] \in Nat
             /\ j \in dependents(i) => /\ remaining[j] > 0
                                       /\ Cardinality(plan.deps[j] \ done') = remaining[j] - 1
             /\ j \notin dependents(i) => Cardinality(plan.deps[j] \ done') = remaining[j]
  <2>1. IsFiniteSet(plan.deps[j] \ done) /\ remaining[j] = Cardinality(plan.deps[j] \ done)
    BY DepsInSchedule DEF Counted
  <2>2. CASE j \in dependents(i)
    <3>1. /\ i \in plan.deps[j] \ done
          /\ plan.deps[j] \ done' = (plan.deps[j] \ done) \ {i}
      BY <2>2 DEF dependents
    <3>2. Cardinality(plan.deps[j] \ done') = remaining[j] - 1
      <4> DEFINE D == plan.deps[j] \ done
      <4>1. IsFiniteSet(D) /\ i \in D /\ Cardinality(D) = remaining[j]
        BY <2>1, <3>1
      <4> HIDE DEF D
      <4>2. Cardinality(D \ {i}) = Cardinality(D) - 1
        BY <4>1, FS_RemoveElement
      <4> QED
        BY <3>1, <4>1, <4>2 DEF D
    <3>3. remaining[j] \in Nat /\ remaining[j] # 0
      BY <2>1, <3>1, FS_CardinalityType, FS_EmptySet
    <3> QED
      BY <2>2, <3>2, <3>3
  <2>3. CASE j \notin dependents(i)
    <3>1. plan.deps[j] \ done' = plan.deps[j] \ done
      BY <2>3 DEF dependents
    <3> QED
      BY <2>1, <2>3, <3>1 DEF Counted
  <2> QED
    BY <2>2, <2>3
<1>2. ASSUME NEW j \in Instr
      PROVE  remaining'[j] = Cardinality(plan.deps[j] \ done') /\ remaining'[j] \in Nat
  BY <1>1
<1>3. Counted'
  <2>1. remaining' \in [Instr -> Nat]
    BY <1>2
  <2> QED
    BY <1>2, <2>1 DEF Counted
<1>4. ASSUME NEW j \in Instr
      PROVE  remaining'[j] > 0 <=> remaining[j] > 0 /\ ~(j \in dependents(i) /\ remaining[j] <= 1)
  <2>1. CASE j \in dependents(i)
    <3>1. remaining'[j] = remaining[j] - 1 /\ remaining[j] \in Nat /\ remaining[j] > 0
      BY <1>1, <2>1
    <3> QED
      BY <2>1, <3>1
  <2>2. CASE j \notin dependents(i)
    BY <2>2
  <2> QED
    BY <2>1, <2>2
<1>5. dependents(i) \subseteq Instr
  BY DEF dependents
<1> QED
  BY <1>1, <1>3, <1>4, <1>5 DEF InBlocked

(* What Unlock sends to ready and behind the order key k.                  *)
Freed(F, held) == {j \in F : order_key(j) \notin held}
Behind(F, held, k) == {j \in F : order_key(j) \in held \cap {k}}

(* Finishing i opens F: it is blocked no more, and behind X and q.         *)
Opens(i, F, X, q, held) ==
    /\ Counted' /\ InBlocked' = InBlocked \ F
    /\ Lists(ready', X \cup Freed(F, held))
    /\ DOMAIN queues' = Keys
    /\ \A k \in Keys : Lists(queues'[k], Range(q[k]) \cup Behind(F, held, k))
    /\ done' = done \cup {i} /\ finished' = finished + 1

LEMMA UnlockCounts ==
    ASSUME Counted, plan \in Plans, UNCHANGED <<plan, lost>>, NEW i \in Instr, i \notin done,
           NEW r, NEW q, NEW held, NEW X, Lists(r, X), X \cap InBlocked = {},
           \A k \in Keys : Lists(q[k], Range(q[k])) /\ Range(q[k]) \cap InBlocked = {},
           Unlock(i, r, q, held)
    PROVE  \E F \in SUBSET InBlocked : Opens(i, F, X, q, held)
<1> DEFINE F == {j \in dependents(i) : remaining[j] <= 1}
           All == [j \in 1..Total |-> j]
<1>1. /\ done' = done \cup {i} /\ finished' = finished + 1
      /\ remaining' = [j \in Instr |-> IF j \in dependents(i) /\ remaining[j] > 0
                                       THEN remaining[j] - 1 ELSE remaining[j]]
      /\ ready' = r \o Keep(All, Freed(F, held))
      /\ queues' = [k \in Keys |-> q[k] \o Keep(All, Behind(F, held, k))]
  BY DEF Unlock, UnlockSome, Freed, Behind
<1>2. Counted' /\ F \subseteq InBlocked /\ InBlocked' = InBlocked \ F
  BY <1>1, CountsDown
<1>3. F \subseteq Instr
  BY <1>2 DEF InBlocked
<1> HIDE DEF F
<1>4. Lists(ready', X \cup Freed(F, held))
  <2>1. Freed(F, held) \in SUBSET Instr /\ X \cap Freed(F, held) = {}
    BY <1>2, <1>3 DEF Freed, Behind
  <2>2. Lists(Keep(All, Freed(F, held)), Freed(F, held))
    BY <2>1, ListsSchedule
  <2> QED
    BY <1>1, <2>1, <2>2, ListsConcat
<1>5. ASSUME NEW k \in Keys PROVE Lists(queues'[k], Range(q[k]) \cup Behind(F, held, k))
  <2>1. Behind(F, held, k) \in SUBSET Instr /\ Range(q[k]) \cap Behind(F, held, k) = {}
    BY <1>2, <1>3 DEF Freed, Behind
  <2>2. queues'[k] = q[k] \o Keep(All, Behind(F, held, k))
    BY <1>1
  <2>3. Lists(Keep(All, Behind(F, held, k)), Behind(F, held, k))
    BY <2>1, ListsSchedule
  <2> QED
    BY <2>1, <2>2, <2>3, ListsConcat
<1>6. DOMAIN queues' = Keys
  BY <1>1
<1>7. Opens(i, F, X, q, held)
  BY <1>1, <1>2, <1>4, <1>5, <1>6 DEF Opens
<1> QED
  BY <1>2, <1>7

(* The moves when an instruction i of place a is done: H leaves the queues *)
(* for ready, F and G leave blocked for ready and for the queues.          *)
AfterUnlock(P, a, i, H, F, G) ==
    [z \in Zones |->
       CASE z = a -> P[z] \ {i}
         [] z = "done" -> P[z] \cup {i}
         [] z = "blocked" -> P[z] \ (F \cup G)
         [] z = "ready" -> P[z] \cup H \cup F
         [] z = "queues" -> (P[z] \ H) \cup G
         [] OTHER -> P[z]]

LEMMA AfterUnlockIs ==
    ASSUME NEW P, NEW a \in {"channel", "wave"}, NEW i, NEW H, NEW F, NEW G,
           NEW Q, Q = AfterUnlock(P, a, i, H, F, G)
    PROVE  /\ Q[a] = P[a] \ {i} /\ Q["done"] = P["done"] \cup {i}
           /\ Q["blocked"] = P["blocked"] \ (F \cup G) /\ Q["ready"] = P["ready"] \cup H \cup F
           /\ Q["queues"] = (P["queues"] \ H) \cup G
           /\ \A z \in Zones \ {a, "done", "blocked", "ready", "queues"} : Q[z] = P[z]
  BY DEF AfterUnlock, Zones

LEMMA Unlocked ==
    ASSUME NEW P, Exclusive(P), NEW a \in {"channel", "wave"}, NEW i \in P[a],
           NEW H \in SUBSET P["queues"], NEW F \in SUBSET P["blocked"],
           NEW G \in SUBSET P["blocked"], F \cap G = {}
    PROVE  /\ Exclusive(AfterUnlock(P, a, i, H, F, G))
           /\ Everything(AfterUnlock(P, a, i, H, F, G)) = Everything(P)
<1> DEFINE Q == AfterUnlock(P, a, i, H, F, G)
           P1 == Shift(P, a, "done", {i})
           P2 == Shift(P1, "queues", "ready", H)
           P3 == Shift(P2, "blocked", "ready", F)
           P4 == Shift(P3, "blocked", "queues", G)
<1>0. /\ a \in Zones /\ "done" \in Zones /\ "blocked" \in Zones /\ "ready" \in Zones
      /\ "queues" \in Zones /\ a \notin {"done", "blocked", "ready", "queues"}
  BY DEF Zones
<1>1. /\ P1["queues"] = P["queues"] /\ P1["blocked"] = P["blocked"] /\ P1["ready"] = P["ready"]
      /\ P1[a] = P[a] \ {i} /\ P1["done"] = P["done"] \cup {i}
      /\ \A z \in Zones \ {a, "done"} : P1[z] = P[z]
  BY <1>0 DEF Shift
<1>2. Exclusive(P1) /\ Everything(P1) = Everything(P)
  BY <1>0, Shifted
<1> HIDE DEF P1
<1>3. /\ P2["queues"] = P["queues"] \ H /\ P2["blocked"] = P["blocked"]
      /\ P2["ready"] = P["ready"] \cup H
      /\ \A z \in Zones \ {"queues", "ready"} : P2[z] = P1[z]
  BY <1>0, <1>1 DEF Shift
<1>4. Exclusive(P2) /\ Everything(P2) = Everything(P)
  BY <1>0, <1>1, <1>2, Shifted
<1> HIDE DEF P2
<1>5. /\ P3["queues"] = P["queues"] \ H /\ P3["blocked"] = P["blocked"] \ F
      /\ P3["ready"] = P["ready"] \cup H \cup F
      /\ \A z \in Zones \ {"blocked", "ready"} : P3[z] = P2[z]
  BY <1>0, <1>3 DEF Shift
<1>6. Exclusive(P3) /\ Everything(P3) = Everything(P)
  BY <1>0, <1>3, <1>4, Shifted
<1> HIDE DEF P3
<1>7. /\ P4["queues"] = (P["queues"] \ H) \cup G /\ P4["blocked"] = (P["blocked"] \ F) \ G
      /\ P4["ready"] = P["ready"] \cup H \cup F
      /\ \A z \in Zones \ {"blocked", "queues"} : P4[z] = P3[z]
  BY <1>0, <1>5 DEF Shift
<1>8. Exclusive(P4) /\ Everything(P4) = Everything(P)
  <2>1. G \subseteq P3["blocked"]
    BY <1>5
  <2> QED
    BY <1>0, <1>6, <2>1, Shifted
<1> HIDE DEF P4
<1>9. \A z \in Zones : Q[z] = P4[z]
  <2>0. /\ Q[a] = P[a] \ {i} /\ Q["done"] = P["done"] \cup {i}
        /\ Q["blocked"] = P["blocked"] \ (F \cup G) /\ Q["ready"] = P["ready"] \cup H \cup F
        /\ Q["queues"] = (P["queues"] \ H) \cup G
        /\ \A z \in Zones \ {a, "done", "blocked", "ready", "queues"} : Q[z] = P[z]
    BY AfterUnlockIs
  <2> HIDE DEF Q
  <2>1. Q["blocked"] = P4["blocked"] /\ Q["ready"] = P4["ready"] /\ Q["queues"] = P4["queues"]
    BY <1>7, <2>0
  <2>2. Q[a] = P4[a] /\ Q["done"] = P4["done"]
    BY <1>0, <1>1, <1>3, <1>5, <1>7, <2>0
  <2>3. \A z \in Zones \ {a, "done", "blocked", "ready", "queues"} : Q[z] = P4[z]
    BY <1>1, <1>3, <1>5, <1>7, <2>0
  <2> QED
    BY <2>1, <2>2, <2>3
<1> HIDE DEF Q
<1>10. Exclusive(Q) /\ Everything(Q) = Everything(P)
  BY <1>8, <1>9, SamePlaces
<1> QED
  BY <1>10 DEF Q

(* Instruction i leaves place a and is done; H was popped off the queues.  *)
LEMMA FinishOne ==
    ASSUME Inv, failure = None, UNCHANGED <<plan, mode, lost, failure>>,
           NEW a \in {"channel", "wave"}, NEW i \in Places[a], Places'[a] = Places[a] \ {i},
           \A z \in Zones \ {a, "done", "blocked", "ready", "queues"} : Places'[z] = Places[z],
           NEW H \in SUBSET InQueues, NEW r, NEW q, NEW held \in SUBSET Keys,
           Lists(r, InReady \cup H), \A k \in Keys : Lists(q[k], Range(queues[k]) \ H),
           Unlock(i, r, q, held)
    PROVE  /\ Counted' /\ Placed' /\ Finishing'
           /\ Lists(ready', InReady') /\ DOMAIN queues' = Keys
           /\ \A k \in Keys : /\ Lists(queues'[k], Range(queues'[k]))
                              /\ \A j \in Range(queues'[k]) : order_key(j) = k
           /\ \A j \in InReady' : j \in InReady \cup H \/ order_key(j) \notin held
<1>1. Held /\ Counted /\ Placed /\ Finishing /\ Queues /\ plan \in Plans
  BY DEF Inv, Held, Counts, Static
<1>2. a \in Zones /\ "done" \in Zones /\ "blocked" \in Zones /\ "ready" \in Zones /\ "queues" \in Zones
  BY DEF Zones
<1>3. i \in Instr /\ i \notin done
  <2>1. Places[a] \subseteq Instr
    BY <1>1, PlacesInSchedule, PlacesAre
  <2>2. Places[a] \cap Places["done"] = {}
    BY <1>1, <1>2, Disjoint
  <2> QED
    BY <2>1, <2>2, PlacesAre
<1>4. (InReady \cup H) \cap InBlocked = {} /\ InQueues \cap InBlocked = {}
  <2>1. InReady \cap InBlocked = {} /\ InQueues \cap InBlocked = {}
    BY <1>1, Disjoint, PlacesAre DEF Zones
  <2> QED
    BY <2>1
<1>5. \A k \in Keys : Range(q[k]) = Range(queues[k]) \ H
  BY DEF Lists
<1>6. \A k \in Keys : Lists(q[k], Range(q[k])) /\ Range(q[k]) \cap InBlocked = {}
  BY <1>4, <1>5 DEF InQueues
<1>6a. PICK F \in SUBSET InBlocked : Opens(i, F, InReady \cup H, q, held)
  BY <1>1, <1>3, <1>4, <1>6, UnlockCounts
<1>7. /\ Counted' /\ InBlocked' = InBlocked \ F
      /\ Lists(ready', (InReady \cup H) \cup Freed(F, held))
      /\ DOMAIN queues' = Keys
      /\ \A k \in Keys : Lists(queues'[k], Range(q[k]) \cup Behind(F, held, k))
      /\ done' = done \cup {i} /\ finished' = finished + 1
  BY <1>6a DEF Opens
<1> DEFINE Free == Freed(F, held)
           Back == F \ Free
<1>8. InReady' = InReady \cup H \cup Free
  <2>1. Range(ready') = (InReady \cup H) \cup Free
    BY <1>7 DEF Lists
  <2>2. InReady' = Range(ready')
    BY DEF InReady
  <2> QED
    BY <2>1, <2>2
<1>9. \A k \in Keys : Range(queues'[k]) = (Range(queues[k]) \ H) \cup Behind(F, held, k)
  BY <1>5, <1>7 DEF Lists
<1>10. InQueues' = (InQueues \ H) \cup Back
  <2>1. InQueues' = UNION {Range(queues'[k]) : k \in Keys}
    BY DEF InQueues
  <2>2. \A j : j \in InQueues' <=> \E k \in Keys : j \in Range(queues'[k])
    BY <2>1
  <2>3. \A j : j \in InQueues <=> \E k \in Keys : j \in Range(queues[k])
    BY DEF InQueues
  <2>4. ASSUME NEW j \in InQueues' PROVE j \in (InQueues \ H) \cup Back
    BY <1>9, <2>2, <2>3 DEF Freed, Behind
  <2>5. ASSUME NEW j \in InQueues \ H PROVE j \in InQueues'
    BY <1>9, <2>2, <2>3
  <2>6. ASSUME NEW j \in Back PROVE j \in InQueues'
    <3>1. order_key(j) \in Keys /\ j \in F /\ order_key(j) \in held \cap {order_key(j)}
      BY <2>6 DEF Freed
    <3>2. j \in Range(queues'[order_key(j)])
      BY <1>9, <3>1 DEF Behind
    <3> QED
      BY <2>2, <3>1, <3>2
  <2> QED
    BY <2>4, <2>5, <2>6
<1>11. Free \cap Back = {} /\ Free \cup Back = F
  BY DEF Freed
<1>12. \A j \in InReady' : j \in InReady \cup H \/ order_key(j) \notin held
  BY <1>8 DEF Freed
<1>13. \A k \in Keys : \A j \in Range(queues'[k]) : order_key(j) = k
  BY <1>1, <1>9, ZenonT(60) DEF Queues, Behind
<1> HIDE DEF Free, Back
<1>14. Exclusive(Places') /\ Everything(Places') = Everything(Places)
  <2>1. /\ Places'["done"] = Places["done"] \cup {i}
        /\ Places'["blocked"] = Places["blocked"] \ (Free \cup Back)
        /\ Places'["ready"] = Places["ready"] \cup H \cup Free
        /\ Places'["queues"] = (Places["queues"] \ H) \cup Back
    BY <1>7, <1>8, <1>10, <1>11, PlacesAre
  <2>2. /\ H \in SUBSET Places["queues"] /\ Free \in SUBSET Places["blocked"]
        /\ Back \in SUBSET Places["blocked"]
    BY <1>11, PlacesAre
  <2>3. Exclusive(Places)
    BY <1>1 DEF Placed
  <2> DEFINE Q == AfterUnlock(Places, a, i, H, Free, Back)
  <2>4. Exclusive(Q) /\ Everything(Q) = Everything(Places)
    BY <1>11, <2>2, <2>3, Unlocked
  <2>5. \A z \in Zones : Places'[z] = Q[z]
    <3>1. /\ Q[a] = Places[a] \ {i} /\ Q["done"] = Places["done"] \cup {i}
          /\ Q["blocked"] = Places["blocked"] \ (Free \cup Back)
          /\ Q["ready"] = Places["ready"] \cup H \cup Free
          /\ Q["queues"] = (Places["queues"] \ H) \cup Back
          /\ \A z \in Zones \ {a, "done", "blocked", "ready", "queues"} : Q[z] = Places[z]
      BY AfterUnlockIs
    <3> HIDE DEF Q
    <3> QED
      BY <2>1, <3>1
  <2> HIDE DEF Q
  <2> QED
    BY <2>4, <2>5, SamePlaces
<1>15. Placed'
  <2>1. Exclusive(Places)' <=> Exclusive(Places')
    BY DEF Exclusive
  <2>2. Everything(Places)' = Everything(Places')
    BY DEF Everything
  <2> QED
    BY <1>1, <1>14, <2>1, <2>2 DEF Placed, Complete
<1>16. Finishing'
  <2>1. done \in SUBSET Instr /\ done' \in SUBSET Instr
    BY <1>1, <1>7 DEF Counted
  <2>2. IsFiniteSet(done) /\ IsFiniteSet(done') /\ Cardinality(done') <= Total
    BY <2>1, TotalIsNat, FS_Subset DEF Total
  <2>3. Cardinality(done') = Cardinality(done) + 1
    BY <1>3, <1>7, <2>2, FS_AddElement
  <2>4. Cardinality(done') \in Nat
    BY <2>2, FS_CardinalityType
  <2> QED
    BY <1>1, <1>7, <2>2, <2>3, <2>4, TotalIsNat DEF Finishing
<1>17. Lists(ready', InReady') /\ \A k \in Keys : Lists(queues'[k], Range(queues'[k]))
  BY <1>7 DEF Lists, InReady
<1> QED
  BY <1>7, <1>12, <1>13, <1>15, <1>16, <1>17

LEMMA FinishWaveInv == ASSUME Inv, FinishWave PROVE Inv'
<1> DEFINE i == Head(wave)
<1>1. /\ Held /\ Counted /\ Placed /\ Queues /\ Control /\ UNCHANGED <<plan, mode>>
      /\ pc = "unlock" /\ failure = None /\ wave # <<>>
  BY DEF Inv, Held, Counts, FinishWave, plan_vars, Control
<1>2. /\ wave' = Tail(wave) /\ pc' = IF Len(wave) = 1 THEN "launch" ELSE "unlock"
      /\ Unlock(i, ready, queues, busy)
      /\ UNCHANGED <<busy, inflight, failure, submitting, hand, stall, pool, running, idle,
                     channel, lost, shut, cancel>>
  BY DEF FinishWave, work_vars
<1>3. i \in InWave /\ Lists(wave', InWave \ {i}) /\ Len(wave') = Len(wave) - 1 /\ Len(wave) \in Nat
  BY <1>1, <1>2, ListsTail, ListsLength DEF Queues
<1>4. InWave' = InWave \ {i}
  <2>1. InWave' = Range(wave')
    BY DEF InWave
  <2> QED
    BY <1>3, <2>1 DEF Lists
<1> HIDE DEF i
<1>5. /\ Counted' /\ Placed' /\ Finishing'
      /\ Lists(ready', InReady') /\ DOMAIN queues' = Keys
      /\ \A k \in Keys : /\ Lists(queues'[k], Range(queues'[k]))
                         /\ \A j \in Range(queues'[k]) : order_key(j) = k
      /\ \A j \in InReady' : j \in InReady \cup {} \/ order_key(j) \notin busy
  <2>1. \A z \in Zones \ {"wave", "done", "blocked", "ready", "queues"} : Places'[z] = Places[z]
    BY <1>2, PlacesAre, ZonesKept DEF Zones
  <2>2. i \in Places["wave"] /\ Places'["wave"] = Places["wave"] \ {i}
    BY <1>3, <1>4, PlacesAre
  <2>3. Lists(ready, InReady \cup {}) /\ \A k \in Keys : Lists(queues[k], Range(queues[k]) \ {})
    BY <1>1 DEF Queues
  <2>4. {} \in SUBSET InQueues /\ busy \in SUBSET Keys
    BY DEF Inv, Static
  <2>5. /\ failure = None /\ UNCHANGED <<plan, mode, lost, failure>>
        /\ Unlock(i, ready, queues, busy) /\ "wave" \in {"channel", "wave"}
    BY <1>1, <1>2
  <2> QED
    BY <2>1, <2>2, <2>3, <2>4, <2>5, FinishOne, ZenonT(90)
<1>6. Queues'
  BY <1>1, <1>3, <1>4, <1>5, KindsKept DEF Queues
<1>7. Held'
  BY <1>1, <1>2, <1>6, SubmitsKept, WorksKept, ChannelsKept DEF Held
<1>8. Outstanding' = Outstanding /\ Launched' = Launched
  BY <1>2, ZonesKept DEF Outstanding, Launched
<1>9. Owing'
  BY <1>2, <1>8 DEF Inv, Counts, Owing
<1>10. Keyed'
  BY <1>1, <1>2, <1>5, <1>8, KindsKept DEF Inv, Keyed, OnePerKey
<1>11. Static'
  BY <1>1, <1>2 DEF Inv, Static
<1>12. Control'
  <2>1. wave' = <<>> <=> Len(wave) = 1
    BY <1>3, ListsLength
  <2> QED
    BY <1>1, <1>2, <2>1 DEF Control, Labels
<1> QED
  BY <1>5, <1>7, <1>9, <1>10, <1>11, <1>12 DEF Inv, Counts

(* The instruction that is popped off the queue of a key that was freed.   *)
LEMMA Popped ==
    ASSUME Held, Counted, Placed, NEW k \in Keys \cup {None},
           NEW pop \in BOOLEAN, pop <=> k # None /\ queues[k] # <<>>
    PROVE  \E H \in SUBSET InQueues :
             /\ \A j \in H : order_key(j) = k
             /\ Lists(IF pop THEN Append(ready, Head(queues[k])) ELSE ready, InReady \cup H)
             /\ \A l \in Keys : Lists((IF pop THEN [queues EXCEPT ![k] = Tail(@)] ELSE queues)[l],
                                      Range(queues[l]) \ H)
<1>1. Queues
  BY DEF Held
<1>2. CASE pop
  <2> DEFINE h == Head(queues[k])
             q == [queues EXCEPT ![k] = Tail(@)]
  <2>1. k \in Keys /\ queues[k] # <<>> /\ Lists(queues[k], Range(queues[k]))
    BY <1>1, <1>2 DEF Queues
  <2>2. h \in Range(queues[k]) /\ Lists(Tail(queues[k]), Range(queues[k]) \ {h})
    BY <2>1, ListsTail
  <2>3. h \in InQueues /\ h \in Instr /\ h \notin InReady /\ order_key(h) = k
    <3>1. h \in InQueues /\ order_key(h) = k
      BY <1>1, <2>1, <2>2 DEF InQueues, Queues
    <3>2. InQueues \subseteq Instr /\ InQueues \cap InReady = {}
      BY PlacesInSchedule, Disjoint, PlacesAre DEF Zones
    <3> QED
      BY <3>1, <3>2
  <2>4. q[k] = Tail(queues[k]) /\ \A l \in Keys \ {k} : q[l] = queues[l]
    BY <1>1, <2>1 DEF Queues
  <2> HIDE DEF h, q
  <2>5. Lists(Append(ready, h), InReady \cup {h})
    BY <1>1, <2>3, ListsAppend DEF Queues
  <2>6. ASSUME NEW l \in Keys PROVE Lists(q[l], Range(queues[l]) \ {h})
    <3>1. CASE l = k
      BY <2>2, <2>4, <3>1
    <3>2. CASE l # k
      <4>1. Range(queues[l]) \ {h} = Range(queues[l])
        BY <1>1, <2>3, <3>2 DEF Queues
      <4> QED
        BY <1>1, <2>4, <3>2, <4>1 DEF Queues
    <3> QED
      BY <3>1, <3>2
  <2>7. {h} \in SUBSET InQueues /\ \A j \in {h} : order_key(j) = k
    BY <2>3
  <2> QED
    BY <1>2, <2>5, <2>6, <2>7 DEF h, q
<1>3. CASE ~pop
  <2>1. {} \in SUBSET InQueues /\ Lists(ready, InReady \cup {})
    BY <1>1 DEF Queues
  <2>2. \A l \in Keys : Lists(queues[l], Range(queues[l]) \ {})
    BY <1>1 DEF Queues
  <2> QED
    BY <1>3, <2>1, <2>2
<1> QED
  BY <1>2, <1>3

LEMMA DrainOkInv == ASSUME Inv, DrainOk PROVE Inv'
<1> DEFINE i == Head(channel).inst
           k == order_key(i)
           pop == k # None /\ queues[k] # <<>>
           r == IF pop THEN Append(ready, Head(queues[k])) ELSE ready
           q == IF pop THEN [queues EXCEPT ![k] = Tail(@)] ELSE queues
           held == busy \ {k}
<1>1. /\ Held /\ Counted /\ Placed /\ Queues /\ Channels /\ Control /\ UNCHANGED <<plan, mode>>
      /\ pc = "drain" /\ failure = None
  BY DEF Inv, Held, Counts, DrainOk, plan_vars, Control
<1>2. /\ channel # <<>> /\ channel' = Tail(channel) /\ busy' = held /\ Unlock(i, r, q, held)
      /\ inflight' = IF inflight = 0 THEN 0 ELSE inflight - 1
      /\ UNCHANGED <<pc, wave, failure, submitting, hand, stall, pool, running, idle, lost, shut, cancel>>
  BY DEF DrainOk
<1>3. /\ i \in InChannel /\ Reports(channel', InChannel \ {i})
      /\ Len(channel') = Len(channel) - 1 /\ Len(channel) \in Nat \ {0}
  BY <1>1, <1>2, ReportsTail DEF Channels
<1>4. InChannel' = InChannel \ {i}
  BY <1>3 DEF Reports, InChannel, Reported
<1>5. k \in Keys \cup {None} /\ held \in SUBSET Keys /\ pop \in BOOLEAN
  <2>1. i \in Instr
    BY <1>1, <1>3, PlacesInSchedule
  <2>2. k \in Keys \cup {None}
    BY <2>1, PlanAssumption DEF Inv, Static, order_key
  <2> QED
    BY <2>2 DEF Inv, Static
<1>6. PICK H \in SUBSET InQueues :
        /\ \A j \in H : order_key(j) = k
        /\ Lists(r, InReady \cup H) /\ \A l \in Keys : Lists(q[l], Range(queues[l]) \ H)
  BY <1>1, <1>5, Popped, ZenonT(60)
<1> HIDE DEF i, k, pop, r, q, held
<1>7. /\ Counted' /\ Placed' /\ Finishing'
      /\ Lists(ready', InReady') /\ DOMAIN queues' = Keys
      /\ \A l \in Keys : /\ Lists(queues'[l], Range(queues'[l]))
                         /\ \A j \in Range(queues'[l]) : order_key(j) = l
      /\ \A j \in InReady' : j \in InReady \cup H \/ order_key(j) \notin held
  <2>1. \A z \in Zones \ {"channel", "done", "blocked", "ready", "queues"} : Places'[z] = Places[z]
    BY <1>2, PlacesAre, ZonesKept DEF Zones
  <2>2. i \in Places["channel"] /\ Places'["channel"] = Places["channel"] \ {i}
    BY <1>3, <1>4, PlacesAre
  <2>3. /\ failure = None /\ UNCHANGED <<plan, mode, lost, failure>> /\ held \in SUBSET Keys
        /\ Unlock(i, r, q, held) /\ "channel" \in {"channel", "wave"}
    BY <1>1, <1>2, <1>5
  <2> QED
    BY <1>6, <2>1, <2>2, <2>3, FinishOne, ZenonT(90)
<1>8. Queues'
  <2>1. Lists(wave, InWave)' /\ \A j : order_key(j)' = order_key(j)
    BY <1>1, <1>2, KindsKept DEF Queues, InWave
  <2> QED
    BY <1>7, <2>1 DEF Queues
<1>9. Channels'
  BY <1>1, <1>2, <1>3, <1>4, ChannelCapIsNat DEF Channels, InHand
<1>10. Held'
  BY <1>1, <1>2, <1>8, <1>9, SubmitsKept, WorksKept DEF Held
<1>11. /\ Outstanding' = Outstanding \ {i} /\ i \in Outstanding
       /\ Launched' \cup lost' = (Launched \cup lost) \ {i} /\ i \in Launched
  <2>1. i \notin InPools /\ i \notin InRunning /\ i \notin InHand /\ i \notin InSubmitting /\ i \notin lost
    BY <1>1, <1>3, Disjoint, PlacesAre DEF Zones
  <2> QED
    BY <1>2, <1>3, <1>4, <2>1, ZonesKept DEF Outstanding, Launched
<1>12. Owing'
  <2>1. Cardinality(Outstanding') = Cardinality(Outstanding) - 1
    BY <1>1, <1>11, PlacesInSchedule, FS_RemoveElement
  <2>2. /\ Cardinality(Outstanding) \in Nat /\ Cardinality(lost) \in Nat
        /\ Cardinality(Outstanding) # 0
    BY <1>1, <1>11, PlacesInSchedule, FS_EmptySet
  <2> QED
    BY <1>2, <2>1, <2>2 DEF Inv, Counts, Owing
<1>13. Keyed'
  <2> DEFINE L == Launched \cup lost
  <2>1. OnePerKey(L, busy) /\ i \in L /\ None \notin busy
    BY <1>1, <1>11, NoneAssumption DEF Inv, Keyed, Static
  <2>2. /\ \A j \in L \ {i} : order_key(j) \in held \cup {None}
        /\ \A l \in held : \E j \in L \ {i} : order_key(j) = l
        /\ \A j, m \in L \ {i} : order_key(j) = order_key(m) /\ order_key(j) # None => j = m
    BY <2>1 DEF OnePerKey, held, k
  <2>3. \A j \in InReady' \cap (Releases \cup ParameterLoads) : order_key(j) \notin held
    BY <1>1, <1>6, <1>7 DEF Inv, Keyed, held
  <2> HIDE DEF L
  <2>4. Launched' \cup lost' = L \ {i}
    BY <1>11 DEF L
  <2>5. \A j : order_key(j)' = order_key(j)
    BY <1>1, KindsKept
  <2>6. OnePerKey(Launched \cup lost, busy)'
    BY <1>2, <2>2, <2>4, <2>5 DEF OnePerKey
  <2> QED
    BY <1>1, <1>2, <2>3, <2>5, <2>6, KindsKept DEF Keyed
<1>14. Static'
  BY <1>1, <1>2, <1>5 DEF Inv, Static
<1>15. Control'
  BY <1>1, <1>2 DEF Control, Labels
<1> QED
  BY <1>7, <1>10, <1>12, <1>13, <1>14, <1>15 DEF Inv, Counts

-----------------------------------------------------------------------------
(* Steps that take instructions out of ready                               *)

(* Where the dispatcher launches it has nothing else in hand.              *)
LEMMA EmptyHanded ==
    ASSUME Inv, pc = "launch"
    PROVE  /\ failure = None /\ wave = <<>> /\ hand = <<>> /\ submitting = <<>>
           /\ InWave = {} /\ InSubmitting = {}
<1>1. failure = None /\ wave = <<>> /\ hand = <<>> /\ submitting = <<>>
  BY DEF Inv, Control
<1> QED
  BY <1>1 DEF InWave, InSubmitting, Insts, Range

LEMMA RunWaveInv == ASSUME Inv, pc = "launch", NEW S, HasReady(S), RunWave(S) PROVE Inv'
<1>1. /\ Held /\ Counted /\ Placed /\ Queues /\ Control /\ Finishing /\ UNCHANGED <<plan, mode>>
      /\ failure = None /\ InWave = {} /\ wave = <<>> /\ hand = <<>> /\ submitting = <<>>
  BY EmptyHanded DEF Inv, Held, Counts, RunWave, plan_vars
<1>2. /\ ready' = Without(ready, S)
      /\ UNCHANGED <<remaining, queues, busy, inflight, done, submitting, hand, stall,
                     pool, running, idle, channel, lost, shut, cancel>>
  BY DEF RunWave, work_vars
<1>3. /\ Lists(Keep(ready, S), InReady \cap S) /\ Lists(ready', InReady \ S)
      /\ InReady \cap S # {}
  BY <1>1, <1>2, ListsKeep DEF Queues, HasReady, InReady
<1>4. InReady' = InReady \ (InReady \cap S) /\ Lists(ready', InReady')
  <2>1. InReady' = Range(ready')
    BY DEF InReady
  <2> QED
    BY <1>3, <2>1 DEF Lists
<1>5. Owing' /\ Counted' /\ Launched' = Launched
  <2>1. Outstanding' = Outstanding /\ Launched' = Launched
    BY <1>2, ZonesKept DEF Outstanding, Launched
  <2> QED
    BY <1>1, <1>2, <2>1, CountedKept DEF Inv, Counts, Owing
<1>6. CASE wave' = Keep(ready, S) /\ pc' = "unlock" /\ UNCHANGED <<failure, finished>>
  <2>1. InWave' = InReady \cap S /\ Lists(wave', InWave') /\ wave' # <<>>
    <3>1. InWave' = Range(wave')
      BY DEF InWave
    <3>2. Lists(wave', InReady \cap S)
      BY <1>3, <1>6
    <3>3. wave' # <<>>
      BY <1>3, <3>2, ListsLength
    <3> QED
      BY <3>1, <3>2, <3>3 DEF Lists
  <2>2. Queues'
    BY <1>1, <1>2, <1>4, <2>1, KindsKept DEF Queues
  <2>3. Held'
    BY <1>1, <1>2, <2>2, SubmitsKept, WorksKept, ChannelsKept DEF Held
  <2>4. Placed'
    <3>1. \A z \in Zones : z # "ready" /\ z # "wave" => Places'[z] = Places[z]
      BY <1>2, PlacesAre, ZonesKept DEF Zones
    <3>2. "ready" \in Zones /\ "wave" \in Zones /\ failure' = failure
      BY <1>6 DEF Zones
    <3> DEFINE X == InReady \cap S
    <3>3. /\ X \subseteq Places["ready"] /\ Places'["ready"] = Places["ready"] \ X
          /\ Places'["wave"] = Places["wave"] \cup X
      BY <1>1, <1>4, <2>1, PlacesAre
    <3> HIDE DEF X
    <3> QED
      BY <1>1, <3>1, <3>2, <3>3, OneMove
  <2>5. Finishing' /\ Static'
    BY <1>1, <1>2, <1>6 DEF Inv, Static, Finishing
  <2>6. Keyed'
    BY <1>1, <1>2, <1>4, <1>5, <1>6, KindsKept DEF Inv, Keyed, OnePerKey
  <2>7. Control'
    BY <1>1, <1>2, <1>6, <2>1 DEF Control, Labels
  <2> QED
    BY <1>5, <2>3, <2>4, <2>5, <2>6, <2>7 DEF Inv, Counts
<1>7. CASE failure' = "Instruction" /\ finished' = Total /\ pc' = "wait" /\ UNCHANGED wave
  <2>1. failure' # None
    BY <1>7, NoneAssumption
  <2>2. Queues'
    BY <1>1, <1>2, <1>4, <1>7, KindsKept DEF Queues, InWave
  <2>3. Held'
    BY <1>1, <1>2, <2>2, SubmitsKept, WorksKept, ChannelsKept DEF Held
  <2>4. Placed'
    <3>1. \A z \in Zones : Places'[z] \subseteq Places[z]
      BY <1>2, <1>4, <1>7, PlacesAre, ZonesKept DEF Zones
    <3>2. Exclusive(Places')
      BY <1>1, <3>1, FewerPlaces DEF Placed
    <3> QED
      BY <2>1, <3>2 DEF Placed, Complete, Exclusive
  <2>5. Finishing' /\ Static' /\ Keyed'
    <3>1. Finishing' /\ Keyed'
      BY <1>1, <1>2, <1>7, <2>1, TotalIsNat DEF Finishing, Keyed
    <3>2. Static'
      BY <1>1, <1>2, <1>7, <2>1 DEF Inv, Static
    <3> QED
      BY <3>1, <3>2
  <2>6. Control'
    BY <1>1, <1>2, <1>7 DEF Control, Labels
  <2> QED
    BY <1>5, <2>3, <2>4, <2>5, <2>6 DEF Inv, Counts
<1> QED
  BY <1>6, <1>7 DEF RunWave

LEMMA WavesInv == ASSUME Inv, ReleaseWave \/ ParameterLoadWave PROVE Inv'
<1>1. CASE ReleaseWave
  BY <1>1, RunWaveInv DEF ReleaseWave, CanLaunch
<1>2. CASE ParameterLoadWave
  BY <1>2, RunWaveInv DEF ParameterLoadWave, CanLaunch
<1> QED
  BY <1>1, <1>2

WithKey(B, k) == {j \in B : order_key(j) = k}

(* T is launched and B goes behind its keys, all of them from ready.  The  *)
(* keys of T were free and are taken; no two instructions of T share one.  *)
LEMMA LaunchSome ==
    ASSUME Inv, pc = "launch", ~Waves,
           UNCHANGED <<plan_vars, remaining, wave, inflight, finished, done, failure, hand, stall,
                       work_vars, shut, cancel>>,
           NEW T \in SUBSET InReady, NEW B \in SUBSET InReady, T \cap B = {},
           Lists(ready', InReady \ (T \cup B)), DOMAIN queues' = Keys,
           \A j \in B : order_key(j) \in Keys,
           \A k \in Keys : Lists(queues'[k], Range(queues[k]) \cup WithKey(B, k)),
           Holds(submitting', T),
           \A n \in DOMAIN submitting' : \A j \in Range(submitting'[n]) :
              work_kind(j) = work_kind(submitting'[n][1]),
           busy' = busy \cup ({order_key(j) : j \in T} \ {None}),
           \A j \in T : order_key(j) \in (Keys \ busy) \cup {None},
           \A j, m \in T : order_key(j) = order_key(m) /\ order_key(j) # None => j = m,
           Control'
    PROVE  Inv'
<1>1. /\ Held /\ Counted /\ Placed /\ Queues /\ Control /\ Finishing /\ UNCHANGED <<plan, mode>>
      /\ failure = None /\ InSubmitting = {}
      /\ UNCHANGED <<remaining, wave, inflight, finished, done, failure, hand, stall, pool, running,
                     idle, channel, lost, shut, cancel>>
  BY EmptyHanded DEF Inv, Held, Counts, plan_vars, work_vars
<1>2. \A j : order_key(j)' = order_key(j) /\ work_kind(j)' = work_kind(j)
  BY <1>1, KindsKept
<1>3. InReady' = InReady \ (T \cup B) /\ Lists(ready', InReady')
  <2>1. InReady' = Range(ready')
    BY DEF InReady
  <2> QED
    BY <2>1 DEF Lists
<1>4. \A k \in Keys : Range(queues'[k]) = Range(queues[k]) \cup WithKey(B, k)
  BY DEF Lists
<1>5. InQueues' = InQueues \cup B
  <2>1. InQueues' = UNION {Range(queues'[k]) : k \in Keys}
    BY DEF InQueues
  <2>2. \A j : j \in InQueues' <=> \E k \in Keys : j \in Range(queues'[k])
    BY <2>1
  <2>3. \A j : j \in InQueues <=> \E k \in Keys : j \in Range(queues[k])
    BY DEF InQueues
  <2>4. ASSUME NEW j \in InQueues' PROVE j \in InQueues \cup B
    BY <1>4, <2>2, <2>3 DEF WithKey
  <2>5. ASSUME NEW j \in InQueues PROVE j \in InQueues'
    BY <1>4, <2>2, <2>3
  <2>6. ASSUME NEW j \in B PROVE j \in InQueues'
    <3>1. order_key(j) \in Keys /\ j \in WithKey(B, order_key(j))
      BY DEF WithKey
    <3> QED
      BY <1>4, <2>2, <3>1
  <2> QED
    BY <2>4, <2>5, <2>6
<1>6. Queues'
  <2>1. \A k \in Keys : Lists(queues'[k], Range(queues'[k]))
    BY <1>4
  <2>2. ASSUME NEW k \in Keys, NEW j \in Range(queues'[k]) PROVE order_key(j) = k
    <3>1. CASE j \in Range(queues[k])
      BY <1>1, <3>1 DEF Queues
    <3>2. CASE j \in WithKey(B, k)
      BY <3>2 DEF WithKey
    <3> QED
      BY <1>4, <2>2, <3>1, <3>2
  <2>3. Lists(wave, InWave)'
    BY <1>1 DEF Queues, InWave
  <2> QED
    BY <1>2, <1>3, <2>1, <2>2, <2>3 DEF Queues
<1>7. InSubmitting' = InSubmitting \cup T
  <2>1. InSubmitting' = Insts(submitting')
    BY ZenonT(60) DEF InSubmitting, Insts
  <2> QED
    BY <1>1, <2>1 DEF Holds
<1>8. Submits'
  <2>1. InSubmitting' = T
    BY <1>1, <1>7
  <2>2. Holds(submitting', InSubmitting')
    BY <2>1
  <2>3. \A n \in DOMAIN submitting' : work_kind(submitting[n][1])' = work_kind(submitting'[n][1])
    BY <1>1 DEF work_kind, IsCompute
  <2> QED
    BY <1>2, <2>2, <2>3 DEF Submits
<1>9. Held' /\ Counted'
  BY <1>1, <1>6, <1>8, WorksKept, ChannelsKept, CountedKept DEF Held
<1>10. Placed'
  <2>1. /\ "ready" \in Zones /\ "queues" \in Zones /\ "submitting" \in Zones
        /\ "ready" # "queues" /\ "ready" # "submitting" /\ "queues" # "submitting"
    BY DEF Zones
  <2>2. \A z \in Zones : z # "ready" /\ z # "queues" /\ z # "submitting" => Places'[z] = Places[z]
    BY <1>1, PlacesAre, ZonesKept DEF Zones
  <2>3. B \subseteq Places["ready"] /\ T \subseteq Places["ready"] /\ B \cap T = {}
    BY PlacesAre
  <2>4. Places'["ready"] = Places["ready"] \ (B \cup T)
    BY <1>3, PlacesAre
  <2>5. /\ Places'["queues"] = Places["queues"] \cup B
        /\ Places'["submitting"] = Places["submitting"] \cup T
    BY <1>5, <1>7, PlacesAre
  <2> QED
    BY <1>1, <2>1, <2>2, <2>3, <2>4, <2>5, TwoMoves, ZenonT(90), SMTT(30)
<1>11. Outstanding' = Outstanding /\ Launched' = Launched \cup T
  BY <1>1, <1>7, ZonesKept DEF Outstanding, Launched
<1>12. Owing' /\ Finishing'
  BY <1>1, <1>11 DEF Inv, Counts, Owing, Finishing
<1>13. Keyed'
  <2> DEFINE L == Launched \cup lost
  <2>1. OnePerKey(L, busy) /\ None \notin busy
    BY <1>1, NoneAssumption DEF Inv, Keyed, Static
  <2> HIDE DEF L
  <2>2. \A j \in L \cup T : order_key(j) \in busy' \cup {None}
    BY <2>1 DEF OnePerKey
  <2>3. \A k \in busy' : \E j \in L \cup T : order_key(j) = k
    BY <2>1 DEF OnePerKey
  <2>4. \A j, m \in L \cup T : order_key(j) = order_key(m) /\ order_key(j) # None => j = m
    BY <2>1 DEF OnePerKey
  <2>5. Launched' \cup lost' = L \cup T
    BY <1>1, <1>11 DEF L
  <2>6. OnePerKey(Launched \cup lost, busy)'
    BY <1>2, <2>2, <2>3, <2>4, <2>5 DEF OnePerKey
  <2>7. InReady' \cap (Releases' \cup ParameterLoads') = {}
    BY <1>1, <1>3, KindsKept DEF Waves, HasReady, InReady
  <2> QED
    BY <2>6, <2>7 DEF Keyed
<1>14. Static'
  <2>1. busy' \in SUBSET Keys
    BY DEF Inv, Static
  <2> QED
    BY <1>1, <2>1 DEF Inv, Static
<1> QED
  BY <1>9, <1>10, <1>12, <1>13, <1>14 DEF Inv, Counts

LEMMA WorkKinds ==
    ASSUME plan \in Plans, NEW i \in Instr
    PROVE  /\ work_kind(i) \in Pools \cup {"inline"} /\ order_key(i) \in Keys \cup {None}
           /\ i \in Computes => work_kind(i) = "cpu"
<1>1. plan.op[i] \in OpKinds /\ plan.key[i] \in Keys \cup {None}
  BY PlanAssumption
<1> QED
  BY <1>1 DEF OpKinds, work_kind, order_key, Pools, Computes, IsCompute

LEMMA HoldsOne == ASSUME NEW i \in Instr PROVE Holds(<<<<i>>>>, {i})
<1>1. Append(<<>>, i) = <<i>> /\ <<i>> \in Job /\ Append(<<>>, <<i>>) = <<<<i>>>>
  BY DEF Job
<1>2. Lists(Append(<<>>, i), {} \cup {i})
  BY ListsEmpty, ListsAppend
<1>3. Lists(<<i>>, {i})
  BY <1>1, <1>2
<1>4. Holds(Append(<<>>, <<i>>), {} \cup {i})
  BY <1>1, <1>3, HoldsEmpty, HoldsAppend
<1> QED
  BY <1>1, <1>4

LEMMA LaunchInv ==
    ASSUME Inv, pc = "launch", ~Waves, NEW i \in InReady, NEW rest, Lists(rest, InReady \ {i}),
           Launch(i, rest)
    PROVE  Inv'
<1> DEFINE k == order_key(i)
<1>1. /\ Held /\ Counted /\ Placed /\ Queues /\ Control /\ UNCHANGED <<plan, mode>>
      /\ failure = None /\ submitting = <<>> /\ wave = <<>> /\ hand = <<>> /\ InSubmitting = {}
      /\ plan \in Plans /\ busy \in SUBSET Keys
  BY EmptyHanded DEF Inv, Held, Counts, Launch, plan_vars, Static
<1>2. /\ ready' = rest
      /\ UNCHANGED <<plan_vars, remaining, wave, inflight, finished, done, failure, hand, stall,
                     work_vars, shut, cancel>>
  BY DEF Launch
<1>3. i \in Instr /\ work_kind(i) \in Pools \cup {"inline"} /\ k \in Keys \cup {None}
  BY <1>1, PlacesInSchedule, WorkKinds
<1>4. CASE Busy(k)
  <2>1. /\ k \in Keys /\ queues' = [queues EXCEPT ![k] = Append(@, i)]
        /\ UNCHANGED <<busy, submitting, pc>>
    BY <1>1, <1>4 DEF Launch, Busy
  <2>2. i \notin InQueues
    BY <1>1, Disjoint, PlacesAre DEF Zones
  <2>3. WithKey({i}, k) = {i} /\ \A l \in Keys \ {k} : WithKey({i}, l) = {}
    BY DEF WithKey
  <2>4. DOMAIN queues' = Keys /\ queues'[k] = Append(queues[k], i) /\ \A l \in Keys \ {k} : queues'[l] = queues[l]
    BY <1>1, <2>1 DEF Queues
  <2> HIDE DEF k
  <2>5. ASSUME NEW l \in Keys PROVE Lists(queues'[l], Range(queues[l]) \cup WithKey({i}, l))
    <3>1. CASE l = k
      <4>1. Lists(queues[k], Range(queues[k])) /\ i \in Instr \ Range(queues[k])
        BY <1>1, <1>3, <2>1, <2>2, ZenonT(60) DEF Queues, InQueues
      <4>2. Lists(Append(queues[k], i), Range(queues[k]) \cup {i})
        BY <4>1, ListsAppend
      <4> QED
        BY <2>3, <2>4, <3>1, <4>2
    <3>2. CASE l # k
      <4>1. Range(queues[l]) \cup WithKey({i}, l) = Range(queues[l]) /\ queues'[l] = queues[l]
        BY <2>3, <2>4, <3>2
      <4> QED
        BY <1>1, <4>1 DEF Queues
    <3> QED
      BY <3>1, <3>2
  <2>6. /\ {} \in SUBSET InReady /\ {i} \in SUBSET InReady /\ {} \cap {i} = {}
        /\ Lists(ready', InReady \ ({} \cup {i})) /\ \A j \in {i} : order_key(j) \in Keys
    BY <1>2, <2>1 DEF k
  <2>7. /\ submitting' = <<>> /\ Holds(submitting', {})
        /\ \A n \in DOMAIN submitting' : \A j \in Range(submitting'[n]) :
              work_kind(j) = work_kind(submitting'[n][1])
    BY <1>1, <2>1, HoldsEmpty
  <2>8. busy' = busy \cup ({order_key(j) : j \in {}} \ {None})
    BY <2>1
  <2>9. Control'
    BY <1>1, <1>2, <2>1 DEF Control
  <2> QED
    BY <1>2, <2>4, <2>5, <2>6, <2>7, <2>8, <2>9, LaunchSome
<1>5. CASE ~Busy(k)
  <2>1. /\ busy' = IF k = None THEN busy ELSE busy \cup {k}
        /\ submitting' = <<<<i>>>> /\ queues' = queues
        /\ pc' = IF work_kind(i) = "inline" THEN "inline" ELSE "submit"
    BY <1>5 DEF Launch
  <2>2. k \in (Keys \ busy) \cup {None}
    BY <1>3, <1>5 DEF Busy
  <2>3. \A l \in Keys : Range(queues[l]) \cup WithKey({}, l) = Range(queues[l])
    BY DEF WithKey
  <2>4. DOMAIN queues' = Keys /\ \A l \in Keys : Lists(queues'[l], Range(queues[l]) \cup WithKey({}, l))
    BY <1>1, <2>1, <2>3 DEF Queues
  <2>5. Holds(submitting', {i}) /\ InSubmitting' = {i}
    <3>1. Holds(submitting', {i})
      BY <1>3, <2>1, HoldsOne
    <3> QED
      BY <3>1 DEF Holds, InSubmitting, Insts
  <2>6. \A n \in DOMAIN submitting' : \A j \in Range(submitting'[n]) :
           work_kind(j) = work_kind(submitting'[n][1])
    <3>1. ASSUME NEW n \in DOMAIN submitting', NEW j \in Range(submitting'[n])
          PROVE  j = i /\ submitting'[n][1] = i
      BY <2>1 DEF Range
    <3> QED
      BY <3>1
  <2>7. /\ {i} \in SUBSET InReady /\ {} \in SUBSET InReady /\ {i} \cap {} = {}
        /\ Lists(ready', InReady \ ({i} \cup {})) /\ \A j \in {} : order_key(j) \in Keys
    BY <1>2
  <2>8. /\ busy' = busy \cup ({order_key(j) : j \in {i}} \ {None})
        /\ \A j \in {i} : order_key(j) \in (Keys \ busy) \cup {None}
        /\ \A j, m \in {i} : order_key(j) = order_key(m) /\ order_key(j) # None => j = m
    BY <2>1, <2>2
  <2>9. Control'
    <3>1. \A j \in InSubmitting' : work_kind(j)' = work_kind(i)
      BY <1>1, <2>5, KindsKept
    <3>2. submitting' # <<>> /\ \E j \in Instr : submitting' = <<<<j>>>>
      BY <1>3, <2>1
    <3>3. pc' = "submit" => work_kind(i) \in Pools
      BY <1>3, <2>1
    <3> HIDE DEF k
    <3> QED
      BY <1>1, <1>2, <2>1, <3>1, <3>2, <3>3 DEF Control, Labels
  <2> HIDE DEF k
  <2> QED
    BY <1>2, <2>4, <2>5, <2>6, <2>7, <2>8, <2>9, LaunchSome
<1> QED
  BY <1>4, <1>5

LEMMA LaunchesInv == ASSUME Inv, LaunchIo \/ LaunchNext PROVE Inv'
<1>1. Lists(ready, InReady)
  BY DEF Inv, Held, Queues
<1>2. CASE LaunchIo
  <2> DEFINE s == Keep(ready, IoFirst)
             i == Head(s)
  <2>1. Lists(s, InReady \cap IoFirst) /\ InReady \cap IoFirst # {}
    BY <1>1, <1>2, ListsKeep DEF LaunchIo, HasReady, InReady
  <2>2. s # <<>>
    BY <2>1, ListsLength
  <2> HIDE DEF s
  <2>3. i \in InReady
    BY <2>1, <2>2, ListsTail
  <2>4. Launch(i, Without(ready, {i})) /\ pc = "launch" /\ ~Waves
    BY <1>2 DEF LaunchIo, CanLaunch, s
  <2> HIDE DEF i
  <2>5. Lists(Without(ready, {i}), InReady \ {i})
    BY <1>1, ListsKeep
  <2> QED
    BY <2>3, <2>4, <2>5, LaunchInv
<1>3. CASE LaunchNext
  <2>1. ready # <<>> /\ Launch(Head(ready), Tail(ready)) /\ pc = "launch" /\ ~Waves
    BY <1>3 DEF LaunchNext, CanLaunch
  <2>2. Head(ready) \in InReady /\ Lists(Tail(ready), InReady \ {Head(ready)})
    BY <1>1, <2>1, ListsTail
  <2> QED
    BY <2>1, <2>2, LaunchInv
<1> QED
  BY <1>2, <1>3

(* take_ready_compute_wave parts the ready Computes into those it takes,   *)
(* whose keys are free and distinct, and those it puts behind their keys.  *)
TakenSet == {ready[n] : n \in Taken}
PutBackSet == {ready[n] : n \in PutBack}

LEMMA Parted ==
    ASSUME Inv
    PROVE  /\ TakenSet \in SUBSET InReady /\ PutBackSet \in SUBSET InReady
           /\ TakenSet \cap PutBackSet = {} /\ TakenSet \cup PutBackSet = InReady \cap Computes
           /\ \A j \in PutBackSet : order_key(j) \in Keys
           /\ \A j \in TakenSet : order_key(j) \in (Keys \ busy) \cup {None}
           /\ \A j, m \in TakenSet : order_key(j) = order_key(m) /\ order_key(j) # None => j = m
<1>1. /\ Lists(ready, InReady) /\ plan \in Plans /\ InReady \subseteq Instr
      /\ DOMAIN ready \subseteq Nat \ {0}
      /\ \A m, n \in DOMAIN ready : ready[m] = ready[n] => m = n
      /\ InReady = {ready[n] : n \in DOMAIN ready}
  <2>1. Lists(ready, InReady) /\ plan \in Plans /\ InReady \subseteq Instr
    BY PlacesInSchedule DEF Inv, Held, Counts, Queues, Static
  <2> QED
    BY <2>1 DEF Lists, IsInjective, InReady, Range
<1>2. \A n \in DOMAIN ready : order_key(ready[n]) \in Keys \cup {None}
  BY <1>1, WorkKinds
<1>3. TakenSet \in SUBSET InReady /\ PutBackSet \in SUBSET InReady
  BY <1>1 DEF TakenSet, PutBackSet, Taken, PutBack
<1>4. TakenSet \cap PutBackSet = {}
  BY <1>1 DEF TakenSet, PutBackSet, Taken, PutBack
<1>5. TakenSet \cup PutBackSet = InReady \cap Computes
  BY <1>1 DEF TakenSet, PutBackSet, Taken, PutBack
<1>6. \A j \in PutBackSet : order_key(j) \in Keys
  BY <1>2 DEF PutBackSet, PutBack, Blocked
<1>7. \A j \in TakenSet : order_key(j) \in (Keys \ busy) \cup {None}
  BY <1>2 DEF TakenSet, Taken, Blocked
<1>8. ASSUME NEW m \in Taken, NEW n \in Taken, m < n, order_key(ready[m]) # None
      PROVE  order_key(ready[m]) # order_key(ready[n])
  <2>1. m \in 1..(n - 1) /\ IsCompute(ready[m]) /\ ~Blocked(n)
    BY <1>1, <1>8 DEF Taken, Computes
  <2> QED
    BY <1>8, <2>1 DEF Blocked
<1>9. ASSUME NEW j \in TakenSet, NEW l \in TakenSet, order_key(j) = order_key(l), order_key(j) # None
      PROVE  j = l
  <2>1. PICK m \in Taken, n \in Taken : j = ready[m] /\ l = ready[n]
    BY DEF TakenSet
  <2>2. m \in Nat /\ n \in Nat
    BY <1>1 DEF Taken
  <2>3. ~(m < n) /\ ~(n < m)
    BY <1>8, <1>9, <2>1
  <2> QED
    BY <2>1, <2>2, <2>3
<1> QED
  BY <1>3, <1>4, <1>5, <1>6, <1>7, <1>9

LEMMA TakeWave ==
    ASSUME Inv, take_ready_compute_wave
    PROVE  /\ Lists(ready', InReady \ (TakenSet \cup PutBackSet)) /\ DOMAIN queues' = Keys
           /\ \A k \in Keys : Lists(queues'[k], Range(queues[k]) \cup WithKey(PutBackSet, k))
           /\ busy' = busy \cup ({order_key(j) : j \in TakenSet} \ {None})
<1>1. /\ Held /\ Counted /\ Placed /\ Queues
      /\ Lists(ready, InReady) /\ PutBackSet \in SUBSET InReady
      /\ TakenSet \cup PutBackSet = InReady \cap Computes
  BY Parted DEF Inv, Held, Counts, Queues
<1>2. Lists(ready', InReady \ (TakenSet \cup PutBackSet))
  <2>1. Lists(ready', InReady \ Computes)
    BY <1>1, ListsKeep DEF take_ready_compute_wave
  <2>2. InReady \ Computes = InReady \ (TakenSet \cup PutBackSet)
    BY <1>1
  <2> QED
    BY <2>1, <2>2
<1>3. InReady \cap InQueues = {}
  BY <1>1, Disjoint, PlacesAre DEF Zones
<1>4. ASSUME NEW k \in Keys
      PROVE  Lists(queues'[k], Range(queues[k]) \cup WithKey(PutBackSet, k))
  <2> DEFINE K == {n \in PutBack : order_key(ready[n]) = k}
  <2>1. queues'[k] = queues[k] \o At(ready, K)
    BY DEF take_ready_compute_wave
  <2>2. K \in SUBSET DOMAIN ready
    BY DEF PutBack
  <2>3. {ready[n] : n \in K} = WithKey(PutBackSet, k)
    BY DEF WithKey, PutBackSet
  <2> HIDE DEF K
  <2>4. Lists(At(ready, K), {ready[n] : n \in K})
    BY <1>1, <2>2, ListsAt
  <2>5. Lists(At(ready, K), WithKey(PutBackSet, k))
    BY <2>3, <2>4
  <2>6. Lists(queues[k], Range(queues[k])) /\ Range(queues[k]) \cap WithKey(PutBackSet, k) = {}
    BY <1>1, <1>3 DEF Queues, InQueues, WithKey
  <2> QED
    BY <2>1, <2>5, <2>6, ListsConcat
<1>5. {order_key(ready[n]) : n \in Taken} = {order_key(j) : j \in TakenSet}
  BY DEF TakenSet
<1> QED
  BY <1>2, <1>4, <1>5 DEF take_ready_compute_wave

LEMMA QueueBlockedComputesInv == ASSUME Inv, QueueBlockedComputes PROVE Inv'
<1>1. /\ pc = "launch" /\ ~Waves /\ Taken = {} /\ take_ready_compute_wave /\ UNCHANGED <<pc, submitting>>
      /\ UNCHANGED <<plan_vars, remaining, wave, inflight, finished, done, failure, hand, stall,
                     work_vars, shut, cancel>>
  BY DEF QueueBlockedComputes, CanLaunch
<1>2. submitting = <<>> /\ TakenSet = {}
  BY <1>1, EmptyHanded DEF TakenSet
<1>3. Control'
  BY <1>1, <1>2 DEF Inv, Control, Labels, plan_vars
<1>4. /\ Holds(submitting', TakenSet)
      /\ \A n \in DOMAIN submitting' : \A j \in Range(submitting'[n]) :
            work_kind(j) = work_kind(submitting'[n][1])
  <2>1. submitting' = <<>>
    BY <1>1, <1>2
  <2> QED
    BY <1>2, <2>1, HoldsEmpty, NoPositions
<1> QED
  BY <1>1, <1>3, <1>4, Parted, TakeWave, LaunchSome

LEMMA ComputeWaveInv == ASSUME Inv, ComputeWave PROVE Inv'
<1> DEFINE N == {n \in Taken : plan.op[ready[n]] = "NativeCompute"}
           R == {n \in Taken : plan.op[ready[n]] = "Compute"}
           X == {ready[n] : n \in N}
           Y == {ready[n] : n \in R}
<1>1. /\ pc = "launch" /\ ~Waves /\ Taken # {} /\ take_ready_compute_wave /\ pc' = "submit"
      /\ submitting' = Jobs(At(ready, N), At(ready, R))
      /\ UNCHANGED <<plan_vars, remaining, wave, inflight, finished, done, failure, hand, stall,
                     work_vars, shut, cancel>>
  BY DEF ComputeWave, CanLaunch, TakenOf
<1>2. N \in SUBSET DOMAIN ready /\ R \in SUBSET DOMAIN ready /\ Lists(ready, InReady) /\ plan \in Plans
  BY DEF Taken, Inv, Held, Queues, Static
<1>3. X \cap Y = {} /\ X \cup Y = TakenSet
  <2>1. N \cup R = Taken
    BY DEF Taken, Computes, IsCompute
  <2>2. X \cup Y = TakenSet
    BY <2>1 DEF TakenSet
  <2>3. \A i \in X : plan.op[i] = "NativeCompute"
    OBVIOUS
  <2>4. \A i \in Y : plan.op[i] = "Compute"
    OBVIOUS
  <2> QED
    BY <2>2, <2>3, <2>4
<1> HIDE DEF N, R, X, Y
<1>4. Holds(submitting', TakenSet)
  <2>1. Lists(At(ready, N), X)
    BY <1>2, ListsAt DEF X
  <2>2. Lists(At(ready, R), Y)
    BY <1>2, ListsAt DEF Y
  <2>3. Holds(Jobs(At(ready, N), At(ready, R)), X \cup Y)
    BY <1>3, <2>1, <2>2, HoldsWave
  <2> QED
    BY <1>1, <1>3, <2>3
<1>5. \A j \in TakenSet : work_kind(j) = "cpu"
  <2>1. TakenSet \subseteq Instr /\ TakenSet \subseteq Computes
    BY Parted, PlacesInSchedule DEF Inv, Counts
  <2> QED
    BY <1>2, <2>1, WorkKinds
<1>6. ASSUME NEW n \in DOMAIN submitting', NEW j \in Range(submitting'[n])
      PROVE  work_kind(j) = work_kind(submitting'[n][1])
  <2>1. submitting'[n] \in Job /\ Range(submitting'[n]) \subseteq TakenSet
    BY <1>4 DEF Holds, Insts
  <2>2. submitting'[n][1] \in TakenSet
    <3>1. 1 \in DOMAIN submitting'[n]
      BY <2>1 DEF Job
    <3> QED
      BY <2>1, <3>1 DEF Range
  <2> QED
    BY <1>5, <1>6, <2>1, <2>2
<1>7. Control'
  <2>1. TakenSet # {}
    BY <1>1 DEF TakenSet
  <2>2. submitting' # <<>>
    BY <1>4, <2>1, HoldsEmpty DEF Holds
  <2>3. InSubmitting' = TakenSet
    BY <1>4 DEF Holds, InSubmitting, Insts
  <2>4. \A j \in InSubmitting' : work_kind(j)' \in Pools
    BY <1>1, <1>5, <2>3, KindsKept DEF Pools, plan_vars
  <2>5. failure = None /\ wave = <<>> /\ hand = <<>>
    BY <1>1, EmptyHanded
  <2> QED
    BY <1>1, <2>2, <2>4, <2>5 DEF Control, Labels
<1> QED
  BY <1>1, <1>4, <1>6, <1>7, Parted, TakeWave, LaunchSome

-----------------------------------------------------------------------------
(* The invariant holds throughout                                          *)

LEMMA InitInv == ASSUME Init PROVE Inv
<1> DEFINE first == {i \in Instr : plan.deps[i] = {}}
<1>1. /\ plan \in Plans /\ mode \in Modes /\ pc = "top" /\ done = {} /\ lost = {} /\ failure = None
      /\ remaining = [i \in Instr |-> Cardinality(plan.deps[i])]
      /\ ready \in Bijection(1..Cardinality(first), first)
      /\ wave = <<>> /\ queues = [k \in Keys |-> <<>>] /\ submitting = <<>> /\ channel = <<>> /\ hand = <<>>
      /\ pool = [p \in Pools |-> <<>>] /\ running = [p \in Pools |-> {}] /\ idle = PoolWorkers
      /\ busy = {} /\ inflight = 0 /\ finished = 0 /\ shut = {} /\ stall = 0 /\ cancel = FALSE
  BY DEF Init
<1>2. first \in SUBSET Instr /\ IsFiniteSet(first) /\ Cardinality(first) \in Nat
  <2>1. first \in SUBSET Instr
    OBVIOUS
  <2> HIDE DEF first
  <2> QED
    BY <2>1, TotalIsNat, FS_Subset, FS_CardinalityType
<1>3. InReady = first /\ Lists(ready, InReady)
  <2> HIDE DEF first
  <2>1. /\ ready \in [1..Cardinality(first) -> first] /\ IsInjective(ready)
        /\ \A i \in first : \E n \in 1..Cardinality(first) : ready[n] = i
    BY <1>1 DEF Bijection, Injection, Surjection
  <2>2. ready \in Seq(Instr)
    BY <1>2, <2>1
  <2>3. Range(ready) = first
    BY <2>1 DEF Range
  <2> QED
    BY <2>1, <2>2, <2>3 DEF Lists, InReady
<1>4. /\ InWave = {} /\ InQueues = {} /\ InSubmitting = {} /\ InPools = {} /\ InRunning = {}
      /\ InChannel = {} /\ InHand = {}
  <2>1. InWave = {} /\ InSubmitting = {} /\ InChannel = {} /\ InHand = {}
    BY <1>1 DEF InWave, InSubmitting, Insts, InChannel, InHand, Reported, Range
  <2>2. InQueues = {} /\ InPools = {}
    BY <1>1 DEF InQueues, Range, InPools, Insts
  <2>3. InRunning = {}
    BY <1>1 DEF InRunning
  <2> QED
    BY <2>1, <2>2, <2>3
<1>5. Queues
  <2>1. Lists(wave, InWave)
    BY <1>1, <1>4, ListsEmpty
  <2>2. \A k \in Keys : Lists(queues[k], {}) /\ Range(queues[k]) = {}
    BY <1>1, ListsEmpty DEF Lists
  <2> QED
    BY <1>1, <1>3, <2>1, <2>2 DEF Queues
<1>6. Submits /\ Channels
  BY <1>1, <1>4, HoldsEmpty, ReportsEmpty, ChannelCapIsNat DEF Submits, Channels
<1>7. Works
  <2>1. ASSUME NEW p \in Pools PROVE WorksAt(p)
    <3>1. pool[p] = <<>> /\ running[p] = {} /\ Insts(pool[p]) = {} /\ InHands(p) = {}
      BY <1>1 DEF Insts, InHands
    <3>2. idle[p] \in Nat /\ idle[p] + Cardinality(running[p]) <= PoolWorkers[p]
      BY <1>1, <3>1, LimitAssumption, FS_EmptySet
    <3>3. Len(pool[p]) <= MaxInflight
      BY <3>1, LimitAssumption
    <3>4. Holds(pool[p], Insts(pool[p])) /\ Runs(running[p], InHands(p))
      BY <3>1, HoldsEmpty, RunsEmpty
    <3> QED
      BY <3>1, <3>2, <3>3, <3>4 DEF WorksAt
  <2>2. DOMAIN pool = Pools /\ DOMAIN running = Pools /\ DOMAIN idle = Pools
    BY <1>1, LimitAssumption
  <2> QED
    BY <2>1, <2>2 DEF Works
<1>8. Counted
  <2>1. ASSUME NEW j \in Instr
        PROVE  remaining[j] = Cardinality(plan.deps[j] \ done) /\ remaining[j] \in Nat
    <3>1. plan.deps[j] \ done = plan.deps[j] /\ IsFiniteSet(plan.deps[j] \ done)
      BY <1>1, DepsInSchedule
    <3> QED
      BY <1>1, <3>1, FS_CardinalityType
  <2>2. remaining \in [Instr -> Nat]
    BY <1>1, <2>1
  <2> QED
    BY <1>1, <2>1, <2>2 DEF Counted
<1>9. Counts
  <2>1. Outstanding = {} /\ Cardinality({}) = 0
    BY <1>4, FS_EmptySet DEF Outstanding
  <2>2. Owing /\ Finishing
    BY <1>1, <2>1, TotalIsNat DEF Owing, Finishing
  <2> QED
    BY <1>8, <2>2 DEF Counts
<1>10. InBlocked = Instr \ first
  <2>1. ASSUME NEW j \in Instr PROVE remaining[j] > 0 <=> plan.deps[j] # {}
    <3>1. IsFiniteSet(plan.deps[j]) /\ remaining[j] = Cardinality(plan.deps[j])
      <4>1. plan.deps[j] \ done = plan.deps[j]
        BY <1>1
      <4> QED
        BY <1>1, <4>1, DepsInSchedule
    <3>2. Cardinality(plan.deps[j]) \in Nat /\ (Cardinality(plan.deps[j]) = 0 <=> plan.deps[j] = {})
      BY <3>1, FS_CardinalityType, FS_EmptySet
    <3> QED
      BY <3>1, <3>2
  <2> QED
    BY <2>1 DEF InBlocked
<1>11. Placed
  <2> HIDE DEF first
  <2>1. /\ Places["blocked"] = Instr \ first /\ Places["ready"] = first
        /\ \A z \in Zones : z # "blocked" /\ z # "ready" => Places[z] = {}
    BY <1>1, <1>3, <1>4, <1>10, PlacesAre DEF Zones
  <2>2. "blocked" \in Zones /\ "ready" \in Zones
    BY DEF Zones
  <2>3. Exclusive(Places)
    BY <2>1 DEF Exclusive
  <2>4. Instr \subseteq Everything(Places)
    BY <1>2, <2>1, <2>2 DEF Everything
  <2> QED
    BY <2>3, <2>4 DEF Placed, Complete
<1>12. Keyed
  <2>1. Launched = {}
    BY <1>4 DEF Launched, Outstanding
  <2> QED
    BY <1>1, <2>1 DEF Keyed, OnePerKey
<1>13. Static
  <2>1. stall \in 0..(IF StallLimit = None THEN 0 ELSE StallLimit)
    BY <1>1, LimitAssumption
  <2>2. busy \in SUBSET Keys /\ shut \in SUBSET Pools /\ cancel \in BOOLEAN
    BY <1>1
  <2> QED
    BY <1>1, <2>1, <2>2 DEF Static
<1>14. Control
  BY <1>1 DEF Control, Labels
<1> QED
  BY <1>5, <1>6, <1>7, <1>9, <1>11, <1>12, <1>13, <1>14 DEF Inv, Held

LEMMA UnchangedInv == ASSUME Inv, UNCHANGED vars PROVE Inv'
<1>1. UNCHANGED <<plan_vars, pc, disp_vars, work_vars, shut, cancel>>
  BY DEF vars
<1>2. pc \in Labels /\ shut' \in SUBSET Pools
  BY <1>1 DEF Inv, Control, Static
<1> QED
  BY <1>1, <1>2, OnlyMoves

LEMMA NextInv == ASSUME Inv, [Next]_vars PROVE Inv'
<1>1. CASE Dispatcher
  BY <1>1, LoopTopInv, DrainOkInv, DrainErrInv, PassInv, WavesInv, FinishWaveInv, LaunchesInv,
     ComputeWaveInv, QueueBlockedComputesInv, SubmitInv, RunInlineInv, SkipWaitInv, WaitReceiveInv,
     ResendInv, WaitTimeoutInv, ShutdownInv
  DEF Dispatcher
<1>2. ASSUME NEW p \in Pools, Worker(p) PROVE Inv'
  BY <1>2, TakeJobInv, LeaveIdleInv, RunJobInv, PanicInv, SendInv DEF Worker
<1>3. CASE RequestCancel
  BY <1>3, RequestCancelInv
<1>4. CASE UNCHANGED vars
  BY <1>4, UnchangedInv
<1> QED
  BY <1>1, <1>2, <1>3, <1>4 DEF Next, Finished

LEMMA InvHolds == Spec => []Inv
<1>1. Init => Inv
  BY InitInv
<1>2. Inv /\ [Next]_vars => Inv'
  BY NextInv
<1> QED
  BY <1>1, <1>2, PTL DEF Spec

-----------------------------------------------------------------------------
(* What the invariant means                                                *)

LEMMA PlacesDomain == DOMAIN Places = Zones
  BY DEF Places, Zones

LEMMA InvDependencies == ASSUME Inv PROVE DependenciesFirst
<1>1. Held /\ Counted /\ Placed /\ plan \in Plans
  BY DEF Inv, Counts, Static
<1>2. ASSUME NEW z \in Zones, z # "blocked", NEW i \in Places[z] PROVE plan.deps[i] \subseteq done
  <2>1. Places[z] \subseteq Instr
    BY <1>1, <1>2, PlacesInSchedule, PlacesAre DEF Zones, Counted
  <2>2. "blocked" \in Zones
    BY DEF Zones
  <2>3. Places[z] \cap InBlocked = {}
    BY <1>1, <1>2, <2>2, Disjoint, PlacesAre
  <2>4. i \in Instr /\ i \notin InBlocked
    BY <2>1, <2>3
  <2>5. remaining[i] = 0 /\ remaining[i] = Cardinality(plan.deps[i] \ done)
    BY <1>1, <2>4 DEF InBlocked, Counted
  <2>6. IsFiniteSet(plan.deps[i] \ done)
    BY <1>1, <2>4, DepsInSchedule
  <2>7. plan.deps[i] \ done = {}
    BY <2>5, <2>6, FS_EmptySet
  <2> QED
    BY <2>7
<1> QED
  BY <1>2, PlacesDomain DEF DependenciesFirst

LEMMA InvType == ASSUME Inv PROVE TypeOK
<1>1. Held /\ Counted /\ Placed /\ Static /\ Control /\ Queues /\ Works /\ Channels /\ Finishing /\ Owing
  BY DEF Inv, Counts, Held
<1>2. remaining \in [Instr -> 0..Total]
  <2>1. ASSUME NEW j \in Instr PROVE remaining[j] \in 0..Total
    <3>1. plan.deps[j] \ done \in SUBSET Instr /\ remaining[j] = Cardinality(plan.deps[j] \ done)
      BY <1>1, DepsInSchedule DEF Static, Counted
    <3>2. remaining[j] <= Total /\ remaining[j] \in Nat
      BY <1>1, <3>1, TotalIsNat, FS_Subset DEF Total, Counted
    <3> QED
      BY <3>2, TotalIsNat
  <2> QED
    BY <1>1, <2>1 DEF Counted
<1>3. inflight \in 0..Total
  <2> DEFINE O == Outstanding \cup lost
  <2>1. O \in SUBSET Instr
    BY <1>1, PlacesInSchedule DEF Counted
  <2>2. Cardinality(Outstanding) + Cardinality(lost) = Cardinality(O)
    BY <1>1, <2>1, OwedOnce, PlacesAre DEF Placed, Outstanding
  <2> HIDE DEF O
  <2>3. Cardinality(O) \in Nat /\ Cardinality(O) <= Total
    BY <2>1, TotalIsNat, FS_Subset, FS_CardinalityType DEF Total
  <2> QED
    BY <1>1, <2>2, <2>3, TotalIsNat DEF Owing
<1>4. \A p \in Pools : /\ Len(pool[p]) <= MaxInflight
                       /\ idle[p] + Count(running[p]) <= PoolWorkers[p]
  BY <1>1 DEF Works, WorksAt, Count
<1>5. /\ ready \in Seq(Instr) /\ wave \in Seq(Instr)
      /\ DOMAIN queues = Keys /\ \A k \in Keys : queues[k] \in Seq(Instr)
  BY <1>1 DEF Queues, Lists
<1>6. /\ pc \in {"top", "drain", "launch", "unlock", "submit", "inline", "wait",
                 "resend", "join", "returned"}
      /\ Len(channel) <= ChannelCap /\ Len(hand) <= 1 /\ finished \in 0..Total
  BY <1>1 DEF Control, Labels, Channels, Finishing
<1> QED
  BY <1>1, <1>2, <1>3, <1>4, <1>5, <1>6 DEF TypeOK, Static, Counted

LEMMA InvHeldOnce == ASSUME Inv PROVE HeldOnce
<1>1. Queues /\ Submits /\ Works /\ Channels
  BY DEF Inv, Held
<1>2. /\ IsInjective(ready) /\ IsInjective(wave)
      /\ \A k \in Keys : IsInjective(queues[k]) /\ \A i \in Range(queues[k]) : order_key(i) = k
  BY <1>1 DEF Queues, Lists
<1>3. Apart(submitting)
  BY <1>1, HoldsApart DEF Submits
<1>4. ASSUME NEW p \in Pools
      PROVE  /\ Apart(pool[p]) /\ \A i \in Insts(pool[p]) : work_kind(i) = p
             /\ \A a, b \in running[p] : \A x \in DOMAIN a.insts, y \in DOMAIN b.insts :
                   a.insts[x] = b.insts[y] => a = b /\ x = y
             /\ \A job \in running[p] : \A i \in Range(job.insts) : work_kind(i) = p
  <2>1. WorksAt(p)
    BY <1>1 DEF Works
  <2>2. Apart(pool[p]) /\ \A i \in Insts(pool[p]) : work_kind(i) = p
    BY <2>1, HoldsApart DEF WorksAt
  <2>3. ASSUME NEW a \in running[p], NEW b \in running[p],
               NEW x \in DOMAIN a.insts, NEW y \in DOMAIN b.insts, a.insts[x] = b.insts[y]
        PROVE  a = b /\ x = y
    <3>1. a.insts[x] \in Range(a.insts) /\ a.insts[x] \in Range(b.insts)
      BY <2>3 DEF Range
    <3>2. a = b
      BY <2>1, <3>1 DEF WorksAt, Runs
    <3> QED
      BY <2>1, <2>3, <3>2 DEF WorksAt, Runs, IsInjective
  <2>4. \A job \in running[p] : \A i \in Range(job.insts) : work_kind(i) = p
    BY <2>1 DEF WorksAt, InHands
  <2> QED
    BY <2>2, <2>3, <2>4
<1>5. \A m, n \in DOMAIN channel : channel[m].inst = channel[n].inst => m = n
  BY <1>1 DEF Channels, Reports
<1> QED
  BY <1>2, <1>3, <1>4, <1>5 DEF HeldOnce

LEMMA InvLaunches == ASSUME Inv PROVE LaunchesExact
<1>1. WorkConserved
  <2>1. failure = None => Instr \subseteq Everything(Places)
    BY DEF Inv, Placed, Complete
  <2>2. \A y, z \in DOMAIN Places : y # z => Places[y] \cap Places[z] = {}
    BY Disjoint, PlacesDomain DEF Inv, Counts
  <2>3. failure = None => Instr \subseteq UNION {Places[z] : z \in DOMAIN Places}
    BY <2>1, PlacesDomain DEF Everything
  <2>4. /\ failure = None => finished = Count(done)
        /\ inflight = Count(Outstanding) + Count(lost)
    BY DEF Inv, Counts, Finishing, Owing, Count
  <2> QED
    BY <2>2, <2>3, <2>4, InvType, InvHeldOnce DEF WorkConserved
<1>2. OneLaunchedPerKey
  <2> SUFFICES ASSUME failure = None
               PROVE  /\ \A k \in Keys : Count({i \in Launched \cup lost : plan.key[i] = k})
                                           = (IF k \in busy THEN 1 ELSE 0)
                      /\ \A i \in Range(ready) \cap (Releases \cup ParameterLoads) :
                            order_key(i) \notin busy
    BY DEF OneLaunchedPerKey
  <2> DEFINE L == Launched \cup lost
  <2>1. /\ OnePerKey(L, busy)
        /\ \A i \in Range(ready) \cap (Releases \cup ParameterLoads) : order_key(i) \notin busy
    BY DEF Inv, Keyed, InReady
  <2> HIDE DEF L
  <2>2. ASSUME NEW k \in Keys
        PROVE  Count({i \in L : plan.key[i] = k}) = (IF k \in busy THEN 1 ELSE 0)
    <3>1. k # None
      BY NoneAssumption
    <3>2. CASE k \in busy
      <4>1. PICK j \in L : order_key(j) = k
        BY <2>1, <3>2 DEF OnePerKey
      <4>2. {i \in L : plan.key[i] = k} = {j}
        BY <2>1, <3>1, <4>1 DEF OnePerKey, order_key
      <4> QED
        BY <3>2, <4>2, FS_Singleton DEF Count
    <3>3. CASE k \notin busy
      <4>1. {i \in L : plan.key[i] = k} = {}
        BY <2>1, <3>1, <3>3 DEF OnePerKey, order_key
      <4> QED
        BY <3>3, <4>1, FS_EmptySet DEF Count
    <3> QED
      BY <3>2, <3>3
  <2> QED
    BY <2>1, <2>2 DEF L
<1>3. ReportMeansComplete
  <2> SUFFICES ASSUME pc = "returned", failure = None PROVE done = Instr
    BY DEF ReportMeansComplete
  <2>1. Cardinality(done) = Cardinality(Instr) /\ done \in SUBSET Instr
    BY DEF Inv, Control, Counts, Finishing, Counted, Total
  <2> QED
    BY <2>1, TotalIsNat, FS_Subset
<1> QED
  BY <1>1, <1>2, <1>3 DEF LaunchesExact

(* For every schedule, set of callbacks, pool size and channel capacity:   *)
(* an instruction is ready, queued, launched or done only when everything  *)
(* it depends on is done (the dependency counters of pooled.rs).           *)
THEOREM DependenciesAlwaysFirst == Spec => []DependenciesFirst
<1>1. Inv => DependenciesFirst
  BY InvDependencies
<1> QED
  BY <1>1, InvHolds, PTL

(* For every schedule, set of callbacks, pool size and channel capacity,   *)
(* with panics and cancellation: each instruction is in one place at a     *)
(* time and none is dropped before a failure, `inflight` counts the        *)
(* completions owed, an order key is busy exactly while one instruction of *)
(* it is launched, and Ok(report) means that all of them ran.              *)
THEOREM LaunchesAreExact == Spec => []LaunchesExact
<1>1. Inv => LaunchesExact
  BY InvLaunches
<1> QED
  BY <1>1, InvHolds, PTL
=============================================================================
