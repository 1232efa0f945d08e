-------------------------- MODULE InProcessProofs --------------------------
(***************************************************************************)
(* Safety of what works inside one process, for every value of the         *)
(* constants: the event store, the bus, the saga, the LRU cache, the       *)
(* circuit breaker, the rate limiter and the cache before a data source.   *)
(***************************************************************************)
EXTENDS MCInProcess, Filter, SequencesExt, SequenceTheorems, FiniteSetTheorems, TLAPS

(***************************************************************************)
(* Sequences: what filter(), splice() and push() leave of an array.  The   *)
(* positions that pass a filter are told apart by their ranks.             *)
(***************************************************************************)
Rank(P, i) == Cardinality({j \in P : j <= i})

(* Positions are told apart by their ranks, and each rank is taken. *)
LEMMA Ranks ==
  ASSUME NEW P \in SUBSET Nat, IsFiniteSet(P)
  PROVE  /\ Cardinality(P) \in Nat
         /\ \A i \in P : Rank(P, i) \in 1 .. Cardinality(P)
         /\ \A i, k \in P : i < k => Rank(P, i) < Rank(P, k)
         /\ \A n \in 1 .. Cardinality(P) : \E i \in P : Rank(P, i) = n
<1> DEFINE Up(i) == {j \in P : j <= i}
           rank == [i \in P |-> Rank(P, i)]
<1>0. \A i \in P : i \in Nat
  OBVIOUS
<1>1. Cardinality(P) \in Nat
  BY FS_CardinalityType
<1>2. ASSUME NEW i \in P
      PROVE  IsFiniteSet(Up(i)) /\ Rank(P, i) \in 1 .. Cardinality(P)
  <2>1. IsFiniteSet(Up(i)) /\ Cardinality(Up(i)) <= Cardinality(P)
    BY FS_Subset
  <2>2. Cardinality(Up(i)) \in Nat /\ Cardinality(Up(i)) # 0
    <3>1. i \in Up(i)
      OBVIOUS
    <3> QED BY <2>1, <3>1, FS_CardinalityType, FS_EmptySet
  <2> QED BY <1>1, <2>1, <2>2 DEF Rank
<1>3. ASSUME NEW i \in P, NEW k \in P, i < k
      PROVE  Rank(P, i) < Rank(P, k)
  <2>0. i \in Nat /\ k \in Nat
    BY <1>0
  <2>1. Up(i) \in SUBSET Up(k)
    <3>1. ASSUME NEW j \in P, j <= i PROVE j <= k
      <4>1. j \in Nat
        BY <1>0
      <4> QED BY <1>3, <2>0, <3>1, <4>1
    <3> QED BY <3>1
  <2>3. k \in Up(k) /\ k \notin Up(i)
    BY <1>3, <2>0
  <2>2. Cardinality(Up(i)) <= Cardinality(Up(k)) /\ Cardinality(Up(i)) # Cardinality(Up(k))
    BY <1>2, <2>1, <2>3, FS_Subset
  <2> QED BY <1>1, <1>2, <2>2 DEF Rank
<1>4. rank \in Injection(P, 1 .. Cardinality(P))
  <2>1. rank \in [P -> 1 .. Cardinality(P)]
    BY <1>2
  <2>2. ASSUME NEW i \in P, NEW k \in P, rank[i] = rank[k] PROVE i = k
    <3>1. Rank(P, i) = Rank(P, k) /\ Rank(P, i) \in Nat /\ i \in Nat /\ k \in Nat
      <4>1. i \in Nat /\ k \in Nat
        BY <1>0
      <4>2. Rank(P, i) \in 1 .. Cardinality(P)
        BY <1>2
      <4> QED BY <1>1, <2>2, <4>1, <4>2
    <3>2. ~ i < k /\ ~ k < i
      BY <1>3, <3>1
    <3> QED BY <3>1, <3>2
  <2> QED BY <2>1, <2>2 DEF Injection, IsInjective
<1>5. rank \in Surjection(P, 1 .. Cardinality(P))
  <2>1. IsFiniteSet(1 .. Cardinality(P)) /\ Cardinality(1 .. Cardinality(P)) = Cardinality(P)
    BY <1>1, FS_Interval
  <2> QED BY <1>4, <2>1, FS_Injection
<1> QED BY <1>1, <1>2, <1>3, <1>5 DEF Surjection

(* Nth() enumerates the positions from below. *)
LEMMA NthPosition ==
  ASSUME NEW P \in SUBSET Nat, IsFiniteSet(P)
  PROVE  /\ Cardinality(P) \in Nat
         /\ \A n \in 1 .. Cardinality(P) : Nth(P, n) \in P
         /\ \A m, n \in 1 .. Cardinality(P) : m < n => Nth(P, m) < Nth(P, n)
         /\ \A i \in P : \E n \in 1 .. Cardinality(P) : Nth(P, n) = i
<1>0. Cardinality(P) \in Nat /\ \A i \in P : i \in Nat
  BY Ranks
<1>1. ASSUME NEW n \in 1 .. Cardinality(P)
      PROVE  Nth(P, n) \in P /\ Rank(P, Nth(P, n)) = n /\ Nth(P, n) \in Nat
  BY <1>0, Ranks DEF Nth, Rank
<1>2. ASSUME NEW m \in 1 .. Cardinality(P), NEW n \in 1 .. Cardinality(P), m < n
      PROVE  Nth(P, m) < Nth(P, n)
  <2>1. Nth(P, m) \in Nat /\ Nth(P, n) \in Nat /\ Nth(P, m) # Nth(P, n)
    BY <1>0, <1>1, <1>2
  <2>2. ~ Nth(P, n) < Nth(P, m)
    <3>1. Nth(P, n) < Nth(P, m) => Rank(P, Nth(P, n)) < Rank(P, Nth(P, m))
      BY <1>1, Ranks
    <3> QED BY <1>0, <1>1, <1>2, <3>1
  <2> QED BY <2>1, <2>2
<1>3. ASSUME NEW i \in P
      PROVE  \E n \in 1 .. Cardinality(P) : Nth(P, n) = i
  <2>1. Rank(P, i) \in 1 .. Cardinality(P)
    BY Ranks
  <2>2. Nth(P, Rank(P, i)) \in P /\ Rank(P, Nth(P, Rank(P, i))) = Rank(P, i)
    BY <1>1, <2>1
  <2>3. ~ Nth(P, Rank(P, i)) < i /\ ~ i < Nth(P, Rank(P, i))
    <3> DEFINE k == Nth(P, Rank(P, i))
    <3>1. k < i => Rank(P, k) < Rank(P, i)
      BY <2>2, Ranks
    <3>2. i < k => Rank(P, i) < Rank(P, k)
      BY <2>2, Ranks
    <3> QED BY <1>0, <2>1, <2>2, <3>1, <3>2
  <2> QED BY <1>0, <1>1, <2>1, <2>2, <2>3
<1> QED BY <1>1, <1>2, <1>3, Ranks

(* What filter() returns: the elements at the positions, in their order.   *)
LEMMA FilteredElements ==
  ASSUME NEW T, NEW s \in Seq(T), NEW P \in SUBSET (1 .. Len(s))
  PROVE  LET f == Filtered(s, P) IN
         /\ f \in Seq(T)
         /\ Len(f) = Cardinality(P) /\ Cardinality(P) \in Nat
         /\ \A n \in 1 .. Len(f) : Nth(P, n) \in P /\ f[n] = s[Nth(P, n)]
         /\ \A m, n \in 1 .. Len(f) : m < n => Nth(P, m) < Nth(P, n)
         /\ \A i \in P : \E n \in 1 .. Len(f) : Nth(P, n) = i
<1>1. P \in SUBSET Nat /\ IsFiniteSet(P)
  <2>1. Len(s) \in Nat /\ IsFiniteSet(1 .. Len(s))
    BY FS_Interval
  <2>2. \A i \in P : i \in Nat
    BY <2>1
  <2> QED BY <2>1, <2>2, FS_Subset
<1>2. /\ Cardinality(P) \in Nat
      /\ \A n \in 1 .. Cardinality(P) : Nth(P, n) \in P
  BY <1>1, NthPosition
<1>3. Filtered(s, P) \in [1 .. Cardinality(P) -> T]
  <2>1. \A n \in 1 .. Cardinality(P) : s[Nth(P, n)] \in T
    <3>1. ASSUME NEW i \in P PROVE s[i] \in T
      <4>1. i \in 1 .. Len(s)
        OBVIOUS
      <4> QED BY <4>1
    <3> QED BY <1>2, <3>1
  <2> QED BY <2>1 DEF Filtered
<1>4. Filtered(s, P) \in Seq(T) /\ Len(Filtered(s, P)) = Cardinality(P)
  BY <1>2, <1>3
<1>5. \A n \in 1 .. Cardinality(P) : Filtered(s, P)[n] = s[Nth(P, n)]
  BY DEF Filtered
<1> QED BY <1>1, <1>2, <1>4, <1>5, NthPosition

(* An array of which an end passes is cut off there. *)
LEMMA FilteredEnd ==
  ASSUME NEW T, NEW s \in Seq(T), NEW i \in 1 .. Len(s) + 1
  PROVE  Filtered(s, i .. Len(s)) = SubSeq(s, i, Len(s))
<1> DEFINE P == i .. Len(s)
           k == Len(s) - i + 1
<1>1. Len(s) \in Nat /\ i \in Nat /\ i >= 1 /\ k \in Nat
  OBVIOUS
<1>2. IsFiniteSet(P) /\ Cardinality(P) = k
  <2>1. IsFiniteSet(P) /\ Cardinality(P) = IF i > Len(s) THEN 0 ELSE Len(s) - i + 1
    <3>1. Len(s) \in Int /\ i \in Int
      BY <1>1
    <3> QED BY <3>1, FS_Interval
  <2> QED BY <1>1, <2>1
<1>3. P \in SUBSET Nat
  BY <1>1
<1>4. ASSUME NEW n \in 1 .. k
      PROVE  Nth(P, n) = i + n - 1
  <2> DEFINE j == i + n - 1
  <2>1. j \in P /\ j \in Nat /\ {l \in P : l <= j} = i .. j
    BY <1>1
  <2>2. Cardinality(i .. j) = n
    <3>1. Cardinality(i .. j) = IF i > j THEN 0 ELSE j - i + 1
      BY <1>1, <2>1, FS_Interval
    <3> QED BY <1>1, <3>1
  <2>3. Rank(P, j) = n
    BY <2>1, <2>2 DEF Rank
  <2>4. Nth(P, n) \in P /\ Rank(P, Nth(P, n)) = n
    BY <2>1, <2>3 DEF Nth, Rank
  <2> HIDE DEF P, j
  <2>5. /\ Nth(P, n) < j => Rank(P, Nth(P, n)) < Rank(P, j)
        /\ j < Nth(P, n) => Rank(P, j) < Rank(P, Nth(P, n))
    BY <1>2, <1>3, <2>1, <2>4, Ranks
  <2>6. Nth(P, n) = j
    <3>1. Nth(P, n) \in Nat
      BY <1>3, <2>4
    <3>2. ~ Nth(P, n) < j /\ ~ j < Nth(P, n)
      BY <2>3, <2>4, <2>5
    <3> QED BY <2>1, <3>1, <3>2
  <2> QED BY <2>6 DEF j
<1>5. Filtered(s, P) = [n \in 1 .. k |-> s[i + n - 1]]
  BY <1>2, <1>4 DEF Filtered
<1> QED BY <1>1, <1>5

(* What RemoveAt() leaves of a sequence without duplicates. *)
LEMMA Removed ==
  ASSUME NEW T, NEW s \in Seq(T), NEW i \in 1 .. Len(s)
  PROVE  LET t == RemoveAt(s, i) IN
         /\ t \in Seq(T) /\ Len(t) = Len(s) - 1
         /\ \A n \in 1 .. Len(t) : t[n] = s[IF n < i THEN n ELSE n + 1]
<1>1. Len(s) \in Nat /\ i \in Nat /\ i >= 1 /\ i <= Len(s)
  OBVIOUS
<1> DEFINE a == SubSeq(s, 1, i - 1)
           b == SubSeq(s, i + 1, Len(s))
<1>2. a \in Seq(T) /\ Len(a) = i - 1 /\ \A n \in 1 .. i - 1 : a[n] = s[n]
  BY <1>1
<1>3. b \in Seq(T) /\ Len(b) = Len(s) - i /\ \A n \in 1 .. Len(s) - i : b[n] = s[i + n]
  BY <1>1
<1> HIDE DEF a, b
<1>4. /\ a \o b \in Seq(T) /\ Len(a \o b) = Len(s) - 1
      /\ \A n \in 1 .. Len(s) - 1 :
           (a \o b)[n] = IF n <= i - 1 THEN a[n] ELSE b[n - (i - 1)]
  <2>0. a \in Seq(T) /\ b \in Seq(T)
    BY <1>2, <1>3
  <2>1. a \o b \in Seq(T) /\ Len(a \o b) = Len(a) + Len(b)
    BY <2>0
  <2>2. \A n \in 1 .. Len(a) + Len(b) :
          (a \o b)[n] = IF n <= Len(a) THEN a[n] ELSE b[n - Len(a)]
    BY <2>0
  <2>3. Len(a) + Len(b) = Len(s) - 1
    BY <1>1, <1>2, <1>3
  <2> QED BY <1>2, <2>1, <2>2, <2>3
<1>5. ASSUME NEW n \in 1 .. Len(s) - 1
      PROVE  (a \o b)[n] = s[IF n < i THEN n ELSE n + 1]
  <2>1. CASE n < i
    <3>1. n <= i - 1 /\ n \in 1 .. i - 1
      BY <1>1, <2>1
    <3> QED BY <1>2, <1>4, <2>1, <3>1
  <2>2. CASE ~ n < i
    <3>1. ~ n <= i - 1 /\ n - (i - 1) \in 1 .. Len(s) - i /\ i + (n - (i - 1)) = n + 1
      BY <1>1, <2>2
    <3> QED BY <1>3, <1>4, <2>2, <3>1
  <2> QED BY <2>1, <2>2
<1> QED BY <1>4, <1>5 DEF RemoveAt, a, b

LEMMA RemovedInjective ==
  ASSUME NEW T, NEW s \in Seq(T), NEW i \in 1 .. Len(s),
         \A m, n \in 1 .. Len(s) : m # n => s[m] # s[n]
  PROVE  LET t == RemoveAt(s, i) IN
         /\ \A m, n \in 1 .. Len(t) : m # n => t[m] # t[n]
         /\ ToSet(t) = ToSet(s) \ {s[i]}
<1> DEFINE t == RemoveAt(s, i)
           at(n) == IF n < i THEN n ELSE n + 1
<1>1. /\ Len(s) \in Nat /\ i \in Nat /\ Len(t) = Len(s) - 1
      /\ \A n \in 1 .. Len(t) : t[n] = s[at(n)]
  BY Removed
<1> HIDE DEF t
<1>2. \A n \in 1 .. Len(t) : at(n) \in 1 .. Len(s) /\ at(n) # i
  BY <1>1
<1>3. \A m, n \in 1 .. Len(t) : m # n => at(m) # at(n)
  BY <1>1
<1>4. \A k \in 1 .. Len(s) : k # i => \E n \in 1 .. Len(t) : at(n) = k
  <2> SUFFICES ASSUME NEW k \in 1 .. Len(s), k # i
               PROVE  \E n \in 1 .. Len(t) : at(n) = k
    OBVIOUS
  <2>1. CASE k < i
    <3>1. k \in 1 .. Len(t) /\ at(k) = k
      BY <1>1, <2>1
    <3> QED BY <3>1
  <2>2. CASE k > i
    <3>1. k - 1 \in 1 .. Len(t) /\ at(k - 1) = k
      BY <1>1, <2>2
    <3> QED BY <3>1
  <2> QED BY <1>1, <2>1, <2>2
<1> HIDE DEF at
<1>5. \A m, n \in 1 .. Len(t) : m # n => t[m] # t[n]
  BY <1>1, <1>2, <1>3
<1>6. ASSUME NEW x PROVE x \in ToSet(t) <=> x \in ToSet(s) \ {s[i]}
  <2>1. ASSUME NEW n \in 1 .. Len(t) PROVE t[n] \in ToSet(s) \ {s[i]}
    BY <1>1, <1>2, <2>1 DEF ToSet
  <2>2. ASSUME NEW k \in 1 .. Len(s), k # i PROVE s[k] \in ToSet(t)
    <3>1. PICK n \in 1 .. Len(t) : at(n) = k
      BY <1>4, <2>2
    <3>2. t[n] = s[k]
      BY <1>1, <3>1
    <3> QED BY <3>2 DEF ToSet
  <2> QED BY <2>1, <2>2 DEF ToSet
<1> QED BY <1>5, <1>6 DEF t

LEMMA Members ==
  ASSUME NEW T, NEW s \in Seq(T)
  PROVE  \A x : x \in ToSet(s) <=> \E n \in 1 .. Len(s) : s[n] = x
BY DEF ToSet

LEMMA Concatenated ==
  ASSUME NEW T, NEW s \in Seq(T), NEW t \in Seq(T)
  PROVE  LET u == s \o t IN
         /\ u \in Seq(T) /\ Len(u) = Len(s) + Len(t) /\ Len(s) \in Nat /\ Len(t) \in Nat
         /\ \A n \in 1 .. Len(s) : u[n] = s[n]
         /\ \A n \in 1 .. Len(t) : u[Len(s) + n] = t[n]
         /\ \A n \in 1 .. Len(u) :
              n \in 1 .. Len(s) \/ (n > Len(s) /\ n - Len(s) \in 1 .. Len(t))
         /\ ToSet(u) = ToSet(s) \cup ToSet(t)
<1> DEFINE u == s \o t
<1>1. u \in Seq(T) /\ Len(u) = Len(s) + Len(t) /\ Len(s) \in Nat /\ Len(t) \in Nat
  OBVIOUS
<1>2. \A n \in 1 .. Len(s) : u[n] = s[n]
  OBVIOUS
<1>3. \A n \in 1 .. Len(t) : u[Len(s) + n] = t[n]
  OBVIOUS
<1> HIDE DEF u
<1>4. \A n \in 1 .. Len(u) :
        n \in 1 .. Len(s) \/ (n > Len(s) /\ n - Len(s) \in 1 .. Len(t))
  BY <1>1
<1>5. /\ \A n \in 1 .. Len(s) : n \in 1 .. Len(u)
      /\ \A n \in 1 .. Len(t) : Len(s) + n \in 1 .. Len(u)
      /\ \A n \in 1 .. Len(u) : Len(s) + (n - Len(s)) = n
  BY <1>1
<1>6. ASSUME NEW x PROVE x \in ToSet(u) <=> x \in ToSet(s) \cup ToSet(t)
  <2>1. ASSUME NEW n \in 1 .. Len(u) PROVE u[n] \in ToSet(s) \cup ToSet(t)
    <3>1. CASE n \in 1 .. Len(s)
      BY <1>2, <3>1, Members
    <3>2. CASE n - Len(s) \in 1 .. Len(t)
      <4>1. u[n] = t[n - Len(s)]
        BY <1>3, <1>5, <3>2
      <4> QED BY <3>2, <4>1, Members
    <3> QED BY <1>4, <3>1, <3>2
  <2>2. ASSUME NEW n \in 1 .. Len(s) PROVE s[n] \in ToSet(u)
    BY <1>1, <1>2, <1>5, Members
  <2>3. ASSUME NEW n \in 1 .. Len(t) PROVE t[n] \in ToSet(u)
    BY <1>1, <1>3, <1>5, Members
  <2>4. /\ x \in ToSet(u) => \E n \in 1 .. Len(u) : u[n] = x
        /\ x \in ToSet(s) => \E n \in 1 .. Len(s) : s[n] = x
        /\ x \in ToSet(t) => \E n \in 1 .. Len(t) : t[n] = x
    BY <1>1, Members
  <2> QED BY <2>1, <2>2, <2>3, <2>4
<1>7. ToSet(u) = ToSet(s) \cup ToSet(t)
  BY <1>6
<1> QED BY <1>1, <1>2, <1>3, <1>4, <1>7 DEF u

LEMMA Added ==
  ASSUME NEW T, NEW s \in Seq(T), NEW e \in T
  PROVE  LET t == Append(s, e) IN
         /\ t \in Seq(T) /\ Len(t) = Len(s) + 1 /\ Len(s) \in Nat
         /\ \A n \in 1 .. Len(s) : t[n] = s[n]
         /\ t[Len(s) + 1] = e
         /\ \A n \in 1 .. Len(t) : n \in 1 .. Len(s) \/ n = Len(s) + 1
         /\ ToSet(t) = ToSet(s) \cup {e}
<1> DEFINE t == Append(s, e)
<1>1. /\ t \in Seq(T) /\ Len(t) = Len(s) + 1 /\ Len(s) \in Nat
      /\ \A n \in 1 .. Len(s) : t[n] = s[n]
      /\ t[Len(s) + 1] = e
  OBVIOUS
<1> HIDE DEF t
<1>2. /\ \A n \in 1 .. Len(t) : n \in 1 .. Len(s) \/ n = Len(s) + 1
      /\ \A n \in 1 .. Len(s) : n \in 1 .. Len(t)
      /\ Len(s) + 1 \in 1 .. Len(t)
  BY <1>1
<1>3. ASSUME NEW x PROVE x \in ToSet(t) <=> x \in ToSet(s) \cup {e}
  <2>1. ASSUME NEW n \in 1 .. Len(t) PROVE t[n] \in ToSet(s) \cup {e}
    BY <1>1, <1>2, Members
  <2>2. ASSUME NEW n \in 1 .. Len(s) PROVE s[n] \in ToSet(t)
    BY <1>1, <1>2, Members
  <2>3. e \in ToSet(t)
    BY <1>1, <1>2, Members
  <2>4. /\ x \in ToSet(t) => \E n \in 1 .. Len(t) : t[n] = x
        /\ x \in ToSet(s) => \E n \in 1 .. Len(s) : s[n] = x
    BY <1>1, Members
  <2> QED BY <2>1, <2>2, <2>3, <2>4
<1>4. ToSet(t) = ToSet(s) \cup {e}
  BY <1>3
<1> QED BY <1>1, <1>2, <1>4 DEF t

(* The modules below see the same operators. *)
LEMMA SameFilter ==
  \A s, P : /\ E!Filtered(s, P) = Filtered(s, P)
            /\ B!Filtered(s, P) = Filtered(s, P)
            /\ C!Filtered(s, P) = Filtered(s, P)
<1>1. \A P : /\ E!Cardinality(P) = Cardinality(P)
             /\ B!Cardinality(P) = Cardinality(P)
             /\ C!Cardinality(P) = Cardinality(P)
  BY DEF E!Cardinality, B!Cardinality, C!Cardinality, Cardinality
<1>2. \A P, n : /\ E!Nth(P, n) = Nth(P, n)
                /\ B!Nth(P, n) = Nth(P, n)
                /\ C!Nth(P, n) = Nth(P, n)
  BY <1>1 DEF E!Nth, B!Nth, C!Nth, Nth
<1> QED
  BY <1>1, <1>2 DEF E!Filtered, B!Filtered, C!Filtered, Filtered

LEMMA SameSequences ==
  \A s, i : /\ B!RemoveAt(s, i) = RemoveAt(s, i) /\ C!RemoveAt(s, i) = RemoveAt(s, i)
            /\ B!ToSet(s) = ToSet(s) /\ C!ToSet(s) = ToSet(s) /\ S!ToSet(s) = ToSet(s)
  BY DEF B!RemoveAt, C!RemoveAt, RemoveAt, B!ToSet, C!ToSet, S!ToSet, ToSet

-----------------------------------------------------------------------------
(***************************************************************************)
(* EventStore.  Streams only grow until clear(), by events whose ids and   *)
(* versions go on from the last one's.                                     *)
(***************************************************************************)
EInv == E!TypeOK /\ E!Ordered /\ E!CatchUpExact /\ E!DecidedOnPrefix

LEMMA PrefixElements ==
  ASSUME NEW T, NEW s \in Seq(T), NEW t \in Seq(T)
  PROVE  E!IsPrefix(s, t) <=> /\ Len(s) <= Len(t)
                              /\ \A i \in 1 .. Len(s) : s[i] = t[i]
<1>1. CASE Len(s) <= Len(t)
  <2>1. SubSeq(s, 1, Len(s)) = [i \in 1 .. Len(s) |-> s[i]]
    OBVIOUS
  <2>2. SubSeq(t, 1, Len(s)) = [i \in 1 .. Len(s) |-> t[i]]
    BY <1>1
  <2> QED BY <1>1, <2>1, <2>2 DEF E!IsPrefix
<1>2. CASE ~ Len(s) <= Len(t)
  BY <1>2 DEF E!IsPrefix
<1> QED BY <1>1, <1>2

LEMMA EventTypes ==
  /\ Stream # {} /\ (CHOOSE a \in Stream : TRUE) \in Stream
  /\ BatchSizes \subseteq Nat \ {0} /\ MaxEvents \in Nat /\ MaxClears \in Nat
  /\ E!AnyVersion = -2 /\ E!NewVersion = -1
BY EventAssumption
DEF E!StreamAssumption, E!BatchAssumption, E!BoundsAssumption, E!AnyVersion, E!NewVersion

LEMMA InitEInv == E!Init => EInv
<1> SUFFICES ASSUME E!Init PROVE EInv
  OBVIOUS
<1>1. E!TypeOK
  BY EventTypes DEF E!Init, E!TypeOK, E!Idle, E!Nothing
<1>2. E!Ordered
  BY DEF E!Init, E!Ordered
<1>3. E!CatchUpExact
  <2>1. ASSUME NEW r \in Follower
        PROVE  E!IsPrefix(follower[r].have, streams[follower[r].stream])
    <3>1. /\ follower[r].have = <<>> /\ follower[r].stream \in Stream
          /\ streams[follower[r].stream] = <<>>
      BY EventTypes DEF E!Init, E!Nothing
    <3> QED BY <3>1 DEF E!IsPrefix
  <2> QED BY <2>1 DEF E!CatchUpExact
<1>4. E!DecidedOnPrefix
  BY DEF E!Init, E!DecidedOnPrefix, E!Idle
<1> QED BY <1>1, <1>2, <1>3, <1>4 DEF EInv

LEMMA LengthBound ==
  ASSUME EInv, NEW a \in Stream
  PROVE  /\ Len(streams[a]) \in 0 .. idCounter
         /\ idCounter \in 0 .. MaxEvents /\ MaxEvents \in Nat
<1>1. /\ Len(streams[a]) \in Nat /\ idCounter \in 0 .. MaxEvents /\ MaxEvents \in Nat
  BY EventTypes DEF EInv, E!TypeOK
<1>2. CASE Len(streams[a]) = 0
  BY <1>1, <1>2
<1>3. CASE Len(streams[a]) # 0
  <2>1. streams[a][Len(streams[a])].id \in Len(streams[a]) .. idCounter
    BY <1>1, <1>3 DEF EInv, E!Ordered
  <2> QED BY <1>1, <2>1
<1> QED BY <1>2, <1>3

(* What append() leaves behind. *)
LEMMA Appended ==
  ASSUME EInv, NEW w \in Author, NEW n \in BatchSizes, E!Append_(w, n)
  PROVE  LET a == author[w].stream
             new == streams'[a]
         IN  /\ a \in Stream /\ n \in Nat \ {0}
             /\ streams' \in [Stream -> Seq(E!Event)]
             /\ idCounter' = idCounter + n /\ idCounter' \in 0 .. MaxEvents
             /\ Len(new) = Len(streams[a]) + n
             /\ \A i \in 1 .. Len(streams[a]) : new[i] = streams[a][i]
             /\ \A i \in Len(streams[a]) + 1 .. Len(new) :
                  new[i] = [id |-> idCounter + (i - Len(streams[a])), version |-> i - 1]
             /\ \A b \in Stream \ {a} : streams'[b] = streams[b]
<1> DEFINE a == author[w].stream
           old == streams[a]
           more == [i \in 1 .. n |-> [id |-> idCounter + i, version |-> E!VersionOf(a, i)]]
<1>1. /\ a \in Stream /\ n \in Nat \ {0} /\ old \in Seq(E!Event) /\ Len(old) \in Nat
      /\ idCounter \in 0 .. MaxEvents /\ MaxEvents \in Nat
  BY EventTypes DEF EInv, E!TypeOK
<1>2. /\ streams' = [streams EXCEPT ![a] = old \o more]
      /\ idCounter' = idCounter + n /\ idCounter + n <= MaxEvents
  BY DEF E!Append_
<1>3. Len(old) <= idCounter
  BY <1>1, LengthBound
<1>4. \A i \in 1 .. n : more[i] = [id |-> idCounter + i, version |-> Len(old) + i - 1]
  BY DEF E!VersionOf
<1>5. \A i \in 1 .. n : more[i] \in E!Event
  <2> TAKE i \in 1 .. n
  <2>1. idCounter + i \in 1 .. MaxEvents /\ Len(old) + i - 1 \in 0 .. MaxEvents
    BY <1>1, <1>2, <1>3
  <2> QED BY <1>4, <2>1 DEF E!Event
<1> HIDE DEF more, old, a
<1>6. more \in Seq(E!Event) /\ Len(more) = n
  <2>1. more = [i \in 1 .. n |-> more[i]]
    BY DEF more
  <2> QED BY <1>1, <1>5, <2>1
<1>7. /\ old \o more \in Seq(E!Event) /\ Len(old \o more) = Len(old) + n
      /\ \A i \in 1 .. Len(old) : (old \o more)[i] = old[i]
      /\ \A i \in Len(old) + 1 .. Len(old) + n : (old \o more)[i] = more[i - Len(old)]
  BY <1>1, <1>6
<1>8. \A i \in Len(old) + 1 .. Len(old) + n :
        (old \o more)[i] = [id |-> idCounter + (i - Len(old)), version |-> i - 1]
  <2> TAKE i \in Len(old) + 1 .. Len(old) + n
  <2>1. /\ i \in Nat /\ i - Len(old) \in 1 .. n
        /\ Len(old) + (i - Len(old)) - 1 = i - 1
    BY <1>1
  <2> QED BY <1>4, <1>7, <2>1
<1>9. /\ streams' \in [Stream -> Seq(E!Event)] /\ streams'[a] = old \o more
      /\ \A b \in Stream \ {a} : streams'[b] = streams[b]
  BY <1>1, <1>2, <1>7 DEF EInv, E!TypeOK
<1>10. idCounter' \in 0 .. MaxEvents
  BY <1>1, <1>2
<1> QED BY <1>1, <1>2, <1>7, <1>8, <1>9, <1>10 DEF a, old

LEMMA AppendOrdered ==
  ASSUME EInv, NEW w \in Author, NEW n \in BatchSizes, E!Append_(w, n)
  PROVE  E!Ordered'
<1> DEFINE a == author[w].stream
           len == Len(streams[a])
<1>1. /\ a \in Stream /\ n \in Nat \ {0} /\ len \in Nat /\ idCounter \in Nat
      /\ idCounter' = idCounter + n
      /\ Len(streams'[a]) = len + n
      /\ \A i \in 1 .. len : streams'[a][i] = streams[a][i]
      /\ \A i \in len + 1 .. len + n :
           /\ streams'[a][i].id = idCounter + (i - len)
           /\ streams'[a][i].version = i - 1
      /\ \A b \in Stream \ {a} : streams'[b] = streams[b]
  <2>1. /\ a \in Stream /\ len \in Nat /\ idCounter \in Nat
    BY Appended DEF EInv, E!TypeOK
  <2>2. /\ n \in Nat \ {0} /\ idCounter' = idCounter + n
        /\ Len(streams'[a]) = len + n
        /\ \A i \in 1 .. len : streams'[a][i] = streams[a][i]
        /\ \A b \in Stream \ {a} : streams'[b] = streams[b]
        /\ \A i \in len + 1 .. Len(streams'[a]) :
             streams'[a][i] = [id |-> idCounter + (i - len), version |-> i - 1]
    BY Appended
  <2> HIDE DEF a, len
  <2>3. ASSUME NEW i \in len + 1 .. len + n
        PROVE  /\ streams'[a][i].id = idCounter + (i - len)
               /\ streams'[a][i].version = i - 1
    <3>1. streams'[a][i] = [id |-> idCounter + (i - len), version |-> i - 1]
      BY <2>2
    <3> QED BY <3>1
  <2> QED BY <2>1, <2>2, <2>3
<1>2. \A b \in Stream : \A i \in 1 .. Len(streams[b]) :
        /\ streams[b][i].version = i - 1
        /\ streams[b][i].id \in i .. idCounter
        /\ \A j \in 1 .. i - 1 : streams[b][j].id < streams[b][i].id
  BY DEF EInv, E!Ordered
<1>3. \A b, c \in Stream : b # c =>
         \A i \in 1 .. Len(streams[b]), j \in 1 .. Len(streams[c]) :
            streams[b][i].id # streams[c][j].id
  BY DEF EInv, E!Ordered
<1>4. \A b \in Stream : streams[b] \in Seq(E!Event) /\ Len(streams[b]) \in Nat
  BY DEF EInv, E!TypeOK
<1>5. len <= idCounter
  BY <1>1, LengthBound
<1> HIDE DEF len, a
<1>6. ASSUME NEW i \in 1 .. Len(streams'[a])
      PROVE  /\ streams'[a][i].version = i - 1
             /\ streams'[a][i].id \in i .. idCounter'
             /\ \A j \in 1 .. i - 1 : streams'[a][j].id < streams'[a][i].id
  <2>1. CASE i <= len
    <3>1. i \in 1 .. len /\ Len(streams[a]) = len
      BY <1>1, <2>1 DEF len
    <3>2. \A j \in 1 .. i - 1 : j \in 1 .. len
      BY <1>1, <3>1
    <3>3. /\ streams'[a][i] = streams[a][i] /\ i \in Nat
          /\ \A j \in 1 .. i - 1 : streams'[a][j] = streams[a][j]
      BY <1>1, <3>1, <3>2
    <3>4. /\ streams[a][i].version = i - 1 /\ streams[a][i].id \in i .. idCounter
          /\ \A j \in 1 .. i - 1 : streams[a][j].id < streams[a][i].id
      BY <1>1, <1>2, <3>1
    <3>5. streams[a][i].id \in i .. idCounter + n
      BY <1>1, <3>3, <3>4
    <3> QED BY <1>1, <3>3, <3>4, <3>5
  <2>2. CASE i > len
    <3>1. i \in len + 1 .. len + n /\ i \in Nat
      BY <1>1, <2>2
    <3>2. streams'[a][i].id = idCounter + (i - len)
      BY <1>1, <3>1
    <3>3. ASSUME NEW j \in 1 .. i - 1 PROVE streams'[a][j].id < streams'[a][i].id
      <4>1. CASE j <= len
        <5>1. j \in 1 .. len /\ Len(streams[a]) = len
          BY <1>1, <4>1 DEF len
        <5>2. streams'[a][j].id \in j .. idCounter
          BY <1>1, <1>2, <5>1
        <5>3. streams'[a][j].id \in Int /\ streams'[a][j].id <= idCounter
          BY <1>1, <5>1, <5>2
        <5> QED BY <1>1, <3>1, <3>2, <5>3
      <4>2. CASE j > len
        <5>1. j \in len + 1 .. len + n /\ j \in Nat
          BY <1>1, <3>1, <4>2
        <5> QED BY <1>1, <3>1, <3>2, <5>1
      <4> QED BY <1>1, <4>1, <4>2
    <3> QED BY <1>1, <1>5, <3>1, <3>2, <3>3
  <2> QED BY <1>1, <2>1, <2>2
<1>7. ASSUME NEW b \in Stream, b # a,
             NEW i \in 1 .. Len(streams[b]), NEW j \in 1 .. Len(streams'[a])
      PROVE  streams[b][i].id # streams'[a][j].id
  <2>1. CASE j <= len
    <3>1. j \in 1 .. len /\ Len(streams[a]) = len
      BY <1>1, <2>1 DEF len
    <3>2. streams'[a][j] = streams[a][j]
      BY <1>1, <3>1
    <3> QED BY <1>1, <1>3, <1>7, <3>1, <3>2
  <2>2. CASE j > len
    <3>1. j \in len + 1 .. len + n
      BY <1>1, <2>2
    <3>2. streams[b][i].id \in i .. idCounter /\ i \in Nat
      BY <1>2, <1>4
    <3> QED BY <1>1, <3>1, <3>2
  <2> QED BY <1>1, <2>1, <2>2
<1>8. ASSUME NEW b \in Stream, NEW i \in 1 .. Len(streams'[b])
      PROVE  /\ streams'[b][i].version = i - 1
             /\ streams'[b][i].id \in i .. idCounter'
             /\ \A j \in 1 .. i - 1 : streams'[b][j].id < streams'[b][i].id
  <2>1. CASE b = a
    BY <1>6, <2>1
  <2>2. CASE b # a
    <3>1. streams'[b] = streams[b]
      BY <1>1, <2>2
    <3>2. streams[b][i].id \in i .. idCounter /\ i \in Nat
      BY <1>2, <1>4, <3>1
    <3> QED BY <1>1, <1>2, <3>1, <3>2
  <2> QED BY <2>1, <2>2
<1>9. ASSUME NEW b \in Stream, NEW c \in Stream, b # c,
             NEW i \in 1 .. Len(streams'[b]), NEW j \in 1 .. Len(streams'[c])
      PROVE  streams'[b][i].id # streams'[c][j].id
  <2>0. /\ b # a => streams'[b] = streams[b]
        /\ c # a => streams'[c] = streams[c]
    BY <1>1
  <2>1. CASE b = a
    BY <1>7, <1>9, <2>0, <2>1
  <2>2. CASE c = a
    BY <1>7, <1>9, <2>0, <2>2
  <2>3. CASE b # a /\ c # a
    BY <1>3, <1>9, <2>0, <2>3
  <2> QED BY <2>1, <2>2, <2>3
<1> QED BY <1>8, <1>9 DEF E!Ordered

(* Whoever is not concerned by a step keeps his prefix of a grown stream.  *)
Grown ==
    \A a \in Stream :
        /\ streams[a] \in Seq(E!Event) /\ streams'[a] \in Seq(E!Event)
        /\ Len(streams[a]) <= Len(streams'[a])
        /\ \A i \in 1 .. Len(streams[a]) : streams'[a][i] = streams[a][i]

LEMMA GrownPrefix ==
  ASSUME Grown, NEW a \in Stream, NEW s \in Seq(E!Event), E!IsPrefix(s, streams[a])
  PROVE  E!IsPrefix(s, streams'[a])
<1>1. /\ streams[a] \in Seq(E!Event) /\ streams'[a] \in Seq(E!Event)
      /\ Len(streams[a]) <= Len(streams'[a])
      /\ \A i \in 1 .. Len(streams[a]) : streams'[a][i] = streams[a][i]
  BY DEF Grown
<1>2. Len(s) <= Len(streams[a]) /\ \A i \in 1 .. Len(s) : s[i] = streams[a][i]
  BY <1>1, PrefixElements
<1>3. Len(s) <= Len(streams'[a]) /\ \A i \in 1 .. Len(s) : s[i] = streams'[a][i]
  BY <1>1, <1>2
<1> QED BY <1>1, <1>3, PrefixElements

LEMMA UnchangedGrown ==
  ASSUME EInv, UNCHANGED streams
  PROVE  Grown
BY DEF EInv, E!TypeOK, Grown

LEMMA AppendGrown ==
  ASSUME EInv, NEW w \in Author, NEW n \in BatchSizes, E!Append_(w, n)
  PROVE  Grown
<1> DEFINE a == author[w].stream
<1>1. /\ a \in Stream /\ n \in Nat \ {0}
      /\ streams' \in [Stream -> Seq(E!Event)]
      /\ Len(streams'[a]) = Len(streams[a]) + n
      /\ \A i \in 1 .. Len(streams[a]) : streams'[a][i] = streams[a][i]
      /\ \A b \in Stream \ {a} : streams'[b] = streams[b]
  BY Appended
<1>2. streams \in [Stream -> Seq(E!Event)]
  BY DEF EInv, E!TypeOK
<1> HIDE DEF a
<1> SUFFICES ASSUME NEW b \in Stream
             PROVE  /\ Len(streams[b]) <= Len(streams'[b])
                    /\ \A i \in 1 .. Len(streams[b]) : streams'[b][i] = streams[b][i]
  BY <1>1, <1>2 DEF Grown
<1>3. Len(streams[b]) \in Nat
  BY <1>2
<1>4. CASE b = a
  BY <1>1, <1>3, <1>4
<1>5. CASE b # a
  BY <1>1, <1>3, <1>5
<1> QED BY <1>4, <1>5

AuthorPrefix(w) ==
    author[w].state = "decided" /\ author[w].epoch = clears =>
        /\ E!IsPrefix(seen[w], streams[author[w].stream])
        /\ author[w].expected \in {Len(seen[w]) - 1, E!AnyVersion}

FollowerPrefix(r) ==
    follower[r].epoch = clears =>
        E!IsPrefix(follower[r].have, streams[follower[r].stream])

LEMMA KeptPrefixes ==
  ASSUME EInv, Grown, clears' = clears
  PROVE  /\ \A w \in Author : author'[w] = author[w] /\ seen'[w] = seen[w]
                => AuthorPrefix(w)'
         /\ \A r \in Follower : follower'[r] = follower[r] => FollowerPrefix(r)'
<1>1. ASSUME NEW w \in Author, author'[w] = author[w], seen'[w] = seen[w]
      PROVE  AuthorPrefix(w)'
  <2>1. author[w].stream \in Stream /\ seen[w] \in Seq(E!Event)
    BY DEF EInv, E!TypeOK
  <2>2. AuthorPrefix(w)
    BY DEF EInv, E!DecidedOnPrefix, AuthorPrefix
  <2> QED BY <1>1, <2>1, <2>2, GrownPrefix DEF AuthorPrefix
<1>2. ASSUME NEW r \in Follower, follower'[r] = follower[r]
      PROVE  FollowerPrefix(r)'
  <2>1. follower[r].stream \in Stream /\ follower[r].have \in Seq(E!Event)
    BY DEF EInv, E!TypeOK
  <2>2. FollowerPrefix(r)
    BY DEF EInv, E!CatchUpExact, FollowerPrefix
  <2> QED BY <1>2, <2>1, <2>2, GrownPrefix DEF FollowerPrefix
<1> QED BY <1>1, <1>2

LEMMA PrefixesSuffice ==
  ASSUME E!TypeOK', E!Ordered', \A w \in Author : AuthorPrefix(w)',
         \A r \in Follower : FollowerPrefix(r)'
  PROVE  EInv'
BY DEF EInv, E!CatchUpExact, E!DecidedOnPrefix, AuthorPrefix, FollowerPrefix

LEMMA DecideStep ==
  ASSUME EInv, NEW w \in Author, NEW a \in Stream, E!Decide(w, a)
  PROVE  EInv'
<1>1. PICK expected \in {E!CurrentVersion(a), E!AnyVersion} :
        author' = [author EXCEPT ![w] = [state |-> "decided", stream |-> a,
                                         expected |-> expected, epoch |-> clears]]
  BY DEF E!Decide
<1>2. /\ seen' = [seen EXCEPT ![w] = streams[a]]
      /\ UNCHANGED <<streams, idCounter, follower, clears>>
  BY DEF E!Decide
<1>3. /\ streams[a] \in Seq(E!Event) /\ Len(streams[a]) \in 0 .. MaxEvents
      /\ MaxEvents \in Nat /\ clears \in Nat
  <2>1. Len(streams[a]) \in 0 .. idCounter /\ idCounter \in 0 .. MaxEvents
        /\ MaxEvents \in Nat
    BY LengthBound
  <2> QED BY <2>1, EventTypes DEF EInv, E!TypeOK
<1>4. expected \in E!AnyVersion .. MaxEvents
  BY <1>3, EventTypes DEF E!CurrentVersion
<1>5. E!TypeOK'
  BY <1>1, <1>2, <1>3, <1>4 DEF EInv, E!TypeOK
<1>6. E!Ordered'
  BY <1>2 DEF EInv, E!Ordered
<1>7. Grown
  BY <1>2, UnchangedGrown
<1>8. AuthorPrefix(w)'
  <2>1. author'[w] = [state |-> "decided", stream |-> a, expected |-> expected,
                      epoch |-> clears]
    BY <1>1 DEF EInv, E!TypeOK
  <2>2. seen'[w] = streams[a]
    BY <1>2 DEF EInv, E!TypeOK
  <2>3. E!IsPrefix(streams[a], streams'[a])
    BY <1>2, <1>3, PrefixElements
  <2>4. expected \in {Len(streams[a]) - 1, E!AnyVersion}
    BY DEF E!CurrentVersion
  <2> QED BY <2>1, <2>2, <2>3, <2>4 DEF AuthorPrefix
<1>9. \A v \in Author : AuthorPrefix(v)'
  <2>1. \A v \in Author \ {w} : author'[v] = author[v] /\ seen'[v] = seen[v]
    BY <1>1, <1>2 DEF EInv, E!TypeOK
  <2> QED BY <1>2, <1>7, <1>8, <2>1, KeptPrefixes
<1>10. \A r \in Follower : FollowerPrefix(r)'
  BY <1>2, <1>7, KeptPrefixes
<1> QED BY <1>5, <1>6, <1>9, <1>10, PrefixesSuffice

(* append() and the VersionConflictError leave their writer idle. *)
LEMMA IdleStep ==
  ASSUME EInv, NEW w \in Author, Grown, E!Ordered',
         streams' \in [Stream -> Seq(E!Event)], idCounter' \in 0 .. MaxEvents,
         author' = [author EXCEPT ![w] = E!Idle], seen' = [seen EXCEPT ![w] = <<>>],
         UNCHANGED <<follower, clears>>
  PROVE  EInv'
<1>1. /\ E!Idle \in [state : {"idle", "decided"}, stream : Stream,
                      expected : E!AnyVersion .. MaxEvents, epoch : 0 .. clears]
      /\ E!Idle.state = "idle"
  BY EventTypes DEF E!Idle, EInv, E!TypeOK
<1>2. E!TypeOK'
  BY <1>1 DEF EInv, E!TypeOK
<1>3. \A v \in Author : AuthorPrefix(v)'
  <2>1. author'[w] = E!Idle
    BY DEF EInv, E!TypeOK
  <2>2. AuthorPrefix(w)'
    BY <1>1, <2>1 DEF AuthorPrefix
  <2>3. \A v \in Author \ {w} : author'[v] = author[v] /\ seen'[v] = seen[v]
    BY DEF EInv, E!TypeOK
  <2> QED BY <2>2, <2>3, KeptPrefixes
<1>4. \A r \in Follower : FollowerPrefix(r)'
  BY KeptPrefixes
<1> QED BY <1>2, <1>3, <1>4, PrefixesSuffice

LEMMA AppendStep ==
  ASSUME EInv, NEW w \in Author, NEW n \in BatchSizes, E!Append_(w, n)
  PROVE  EInv'
<1>1. streams' \in [Stream -> Seq(E!Event)] /\ idCounter' \in 0 .. MaxEvents
  BY Appended
<1>2. /\ author' = [author EXCEPT ![w] = E!Idle] /\ seen' = [seen EXCEPT ![w] = <<>>]
      /\ UNCHANGED <<follower, clears>>
  BY DEF E!Append_
<1> QED BY <1>1, <1>2, AppendGrown, AppendOrdered, IdleStep

LEMMA ConflictStep ==
  ASSUME EInv, NEW w \in Author, E!Conflict(w)
  PROVE  EInv'
<1>1. /\ author' = [author EXCEPT ![w] = E!Idle] /\ seen' = [seen EXCEPT ![w] = <<>>]
      /\ UNCHANGED <<streams, idCounter, follower, clears>>
  BY DEF E!Conflict
<1>2. streams' \in [Stream -> Seq(E!Event)] /\ idCounter' \in 0 .. MaxEvents
  BY <1>1 DEF EInv, E!TypeOK
<1>3. E!Ordered'
  BY <1>1 DEF EInv, E!Ordered
<1> QED BY <1>1, <1>2, <1>3, UnchangedGrown, IdleStep

(* What loadSince() adds to a prefix is the rest of the stream. *)
LEMMA CaughtUp ==
  ASSUME EInv, NEW a \in Stream, NEW have \in Seq(E!Event), have # <<>>,
         E!IsPrefix(have, streams[a])
  PROVE  have \o E!Since(a, E!Last(have).version) = streams[a]
<1> DEFINE s == streams[a]
           len == Len(have)
           P == {i \in 1 .. Len(s) : s[i].version > E!Last(have).version}
<1>1. s \in Seq(E!Event) /\ Len(s) \in Nat /\ len \in Nat \ {0}
  BY DEF EInv, E!TypeOK
<1>2. len <= Len(s) /\ \A i \in 1 .. len : have[i] = s[i]
  BY <1>1, PrefixElements
<1>3. \A i \in 1 .. Len(s) : s[i].version = i - 1
  BY DEF EInv, E!Ordered
<1>4. E!Last(have).version = len - 1
  BY <1>1, <1>2, <1>3 DEF E!Last
<1>5. P = len + 1 .. Len(s)
  BY <1>1, <1>2, <1>3, <1>4
<1>6. E!Since(a, E!Last(have).version) = Filtered(s, P)
  BY SameFilter DEF E!Since
<1> HIDE DEF s, len, P
<1>7. Filtered(s, P) = SubSeq(s, len + 1, Len(s))
  BY <1>1, <1>2, <1>5, FilteredEnd
<1>8. have \o SubSeq(s, len + 1, Len(s)) = s
  BY <1>1, <1>2 DEF len
<1> QED BY <1>6, <1>7, <1>8 DEF s

LEMMA ReadStep ==
  ASSUME EInv, NEW r \in Follower, UNCHANGED <<streams, idCounter, author, seen, clears>>,
         NEW read \in [stream : Stream, have : Seq(E!Event), epoch : 0 .. clears],
         follower' = [follower EXCEPT ![r] = read],
         read.epoch = clears => E!IsPrefix(read.have, streams[read.stream])
  PROVE  EInv'
<1>1. E!TypeOK'
  BY DEF EInv, E!TypeOK
<1>2. E!Ordered'
  BY DEF EInv, E!Ordered
<1>3. Grown
  BY UnchangedGrown
<1>4. \A q \in Follower : FollowerPrefix(q)'
  <2>1. follower'[r] = read
    BY DEF EInv, E!TypeOK
  <2>2. FollowerPrefix(r)'
    BY <2>1 DEF FollowerPrefix
  <2>3. \A q \in Follower \ {r} : follower'[q] = follower[q]
    BY DEF EInv, E!TypeOK
  <2> QED BY <1>3, <2>2, <2>3, KeptPrefixes
<1>5. \A w \in Author : AuthorPrefix(w)'
  BY <1>3, KeptPrefixes
<1> QED BY <1>1, <1>2, <1>4, <1>5, PrefixesSuffice

LEMMA LoadStep ==
  ASSUME EInv, NEW r \in Follower, NEW a \in Stream, E!Load(r, a)
  PROVE  EInv'
<1> DEFINE read == [stream |-> a, have |-> streams[a], epoch |-> clears]
<1>1. /\ follower' = [follower EXCEPT ![r] = read]
      /\ UNCHANGED <<streams, idCounter, author, seen, clears>>
  BY DEF E!Load
<1>2. /\ read \in [stream : Stream, have : Seq(E!Event), epoch : 0 .. clears]
      /\ streams[a] \in Seq(E!Event)
  BY EventTypes DEF EInv, E!TypeOK
<1>3. E!IsPrefix(read.have, streams[read.stream])
  BY <1>2, PrefixElements
<1> HIDE DEF read
<1> QED BY <1>1, <1>2, <1>3, ReadStep

LEMMA LoadSinceStep ==
  ASSUME EInv, NEW r \in Follower, E!LoadSince(r)
  PROVE  EInv'
<1> DEFINE have == follower[r].have
           a == follower[r].stream
           more == E!Since(a, E!Last(have).version)
           read == [follower[r] EXCEPT !.have = have \o more]
<1>1. /\ a \in Stream /\ have \in Seq(E!Event) /\ have # <<>>
      /\ streams[a] \in Seq(E!Event) /\ Len(streams[a]) \in Nat
  BY DEF E!LoadSince, EInv, E!TypeOK
<1>2. /\ follower' = [follower EXCEPT ![r] = read]
      /\ UNCHANGED <<streams, idCounter, author, seen, clears>>
  BY DEF E!LoadSince, EInv, E!TypeOK
<1>3. more \in Seq(E!Event)
  <2> DEFINE P == {i \in 1 .. Len(streams[a]) : streams[a][i].version > E!Last(have).version}
  <2>1. more = Filtered(streams[a], P)
    BY SameFilter DEF E!Since
  <2>2. P \in SUBSET (1 .. Len(streams[a]))
    OBVIOUS
  <2> HIDE DEF P
  <2> QED BY <1>1, <2>1, <2>2, FilteredElements
<1>4. have \o more \in Seq(E!Event)
  BY <1>1, <1>3
<1>5. /\ read \in [stream : Stream, have : Seq(E!Event), epoch : 0 .. clears]
      /\ read.have = have \o more /\ read.stream = a /\ read.epoch = follower[r].epoch
  BY <1>4 DEF EInv, E!TypeOK
<1>6. ASSUME read.epoch = clears
      PROVE  E!IsPrefix(read.have, streams[read.stream])
  <2>1. E!IsPrefix(have, streams[a])
    BY <1>5, <1>6 DEF EInv, E!CatchUpExact
  <2>2. have \o more = streams[a]
    BY <1>1, <2>1, CaughtUp
  <2> QED BY <1>1, <1>5, <2>2, PrefixElements
<1> HIDE DEF read
<1> QED BY <1>2, <1>5, <1>6, ReadStep

LEMMA ClearStep ==
  ASSUME EInv, E!Clear
  PROVE  EInv'
<1>1. /\ clears \in Nat /\ clears < MaxClears /\ MaxClears \in Nat
      /\ clears' = clears + 1 /\ streams' = [a \in Stream |-> <<>>]
      /\ UNCHANGED <<idCounter, author, follower, seen>>
  BY EventTypes DEF E!Clear, EInv, E!TypeOK
<1>2. E!TypeOK'
  <2>1. 0 .. clears \subseteq 0 .. clears'
    BY <1>1
  <2>2. clears' \in 0 .. MaxClears /\ streams' \in [Stream -> Seq(E!Event)]
    BY <1>1
  <2>3. /\ author \in [Author -> [state : {"idle", "decided"}, stream : Stream,
                        expected : E!AnyVersion .. MaxEvents, epoch : 0 .. clears']]
        /\ follower \in [Follower -> [stream : Stream, have : Seq(E!Event),
                                      epoch : 0 .. clears']]
    BY <2>1 DEF EInv, E!TypeOK
  <2> QED BY <1>1, <2>2, <2>3 DEF EInv, E!TypeOK
<1>3. E!Ordered'
  BY <1>1 DEF E!Ordered
<1>4. /\ \A w \in Author : author[w].epoch # clears'
      /\ \A r \in Follower : follower[r].epoch # clears'
  <2>1. \A e \in 0 .. clears : e # clears'
    BY <1>1
  <2> QED BY <2>1 DEF EInv, E!TypeOK
<1> QED BY <1>1, <1>2, <1>3, <1>4, PrefixesSuffice DEF AuthorPrefix, FollowerPrefix

LEMMA NextEInv == EInv /\ [E!Next]_eventVars => EInv'
<1> SUFFICES ASSUME EInv, [E!Next]_eventVars PROVE EInv'
  OBVIOUS
<1>1. CASE UNCHANGED eventVars
  BY <1>1 DEF eventVars, EInv, E!TypeOK, E!Ordered, E!CatchUpExact, E!DecidedOnPrefix
<1> QED
  BY <1>1, DecideStep, AppendStep, ConflictStep, LoadStep, LoadSinceStep, ClearStep
  DEF E!Next

(* An append that states a version finds the stream its writer has seen.   *)
LEMMA NoUpdateLost ==
  ASSUME EInv, [E!Next]_eventVars, NEW w \in Author,
         author[w].state = "decided", author[w].expected # E!AnyVersion,
         idCounter' > idCounter, author'[w] = E!Idle, author[w].epoch = clears
  PROVE  seen[w] = streams[author[w].stream]
<1> DEFINE a == author[w].stream
<1>1. /\ a \in Stream /\ streams[a] \in Seq(E!Event) /\ seen[w] \in Seq(E!Event)
      /\ idCounter \in Nat
  BY DEF EInv, E!TypeOK
<1>2. E!IsPrefix(seen[w], streams[a]) /\ author[w].expected = Len(seen[w]) - 1
  BY DEF EInv, E!DecidedOnPrefix
<1>3. PICK v \in Author, n \in BatchSizes : E!Append_(v, n)
  <2>1. CASE UNCHANGED eventVars
    BY <1>1, <2>1 DEF eventVars
  <2>2. ASSUME \/ \E v \in Author, b \in Stream : E!Decide(v, b)
               \/ \E v \in Author : E!Conflict(v)
               \/ \E r \in Follower : (\E b \in Stream : E!Load(r, b)) \/ E!LoadSince(r)
               \/ E!Clear
        PROVE  FALSE
    <3>1. UNCHANGED idCounter
      BY <2>2 DEF E!Decide, E!Conflict, E!Load, E!LoadSince, E!Clear
    <3> QED BY <1>1, <3>1
  <2> QED BY <2>1, <2>2 DEF E!Next
<1>4. v = w
  <2>1. author' = [author EXCEPT ![v] = E!Idle] /\ E!Idle.state = "idle"
    BY <1>3 DEF E!Append_, E!Idle
  <2>2. author \in [Author -> [state : {"idle", "decided"}, stream : Stream,
                        expected : E!AnyVersion .. MaxEvents, epoch : 0 .. clears]]
    BY DEF EInv, E!TypeOK
  <2>3. v # w => author'[w] = author[w]
    BY <2>1, <2>2
  <2> QED BY <2>1, <2>3
<1>5. E!VersionMatches(a, author[w].expected)
  BY <1>3, <1>4 DEF E!Append_
<1>6. Len(streams[a]) = Len(seen[w])
  BY <1>1, <1>2, <1>5, EventTypes DEF E!VersionMatches, E!CurrentVersion
<1>7. \A i \in 1 .. Len(seen[w]) : seen[w][i] = streams[a][i]
  BY <1>1, <1>2, PrefixElements
<1> HIDE DEF a
<1>8. seen[w] = streams[a]
  BY <1>1, <1>6, <1>7
<1> QED BY <1>8 DEF a

-----------------------------------------------------------------------------
(***************************************************************************)
(* Bus.  What was and will be called, in its order, grows only by what     *)
(* publish() queues, and that is for an event nobody was called with.      *)
(***************************************************************************)
BusInv ==
    /\ B!TypeOK /\ B!OncePerSubscriber /\ B!CalledInOrder
    /\ B!NothingEarly /\ B!ResolvedMeansHandled

Calls == started \o microtasks

LEMMA BusEventsNat == BusEvents \in Nat /\ B!Event = 1 .. BusEvents
BY MemoryAssumption DEF B!EventsAssumption, B!Event

LEMMA CallsType ==
  ASSUME BusInv
  PROVE  /\ started \in Seq(Subscription \X B!Event)
         /\ microtasks \in Seq(Subscription \X B!Event)
         /\ Calls \in Seq(Subscription \X B!Event)
<1>1. started \in Seq(Subscription \X B!Event) /\ microtasks \in Seq(Subscription \X B!Event)
  BY DEF BusInv, B!TypeOK
<1> QED BY <1>1 DEF Calls

LEMMA InitBusInv == B!Init => BusInv
<1> SUFFICES ASSUME B!Init PROVE BusInv
  OBVIOUS
<1>1. /\ subs = <<>> /\ started = <<>> /\ microtasks = <<>> /\ cancelled = {}
      /\ subscribed = {} /\ handling = {}
      /\ publish = [e \in B!Event |-> "none"] /\ due = [e \in B!Event |-> {}]
  BY DEF B!Init
<1>2. Calls = <<>> /\ ToSet(Calls) = {} /\ ToSet(subs) = {} /\ ToSet(microtasks) = {}
  BY <1>1 DEF Calls, ToSet
<1>3. B!TypeOK
  BY <1>1, <1>2, SameSequences DEF B!TypeOK
<1>4. B!OncePerSubscriber /\ B!CalledInOrder
  BY <1>1, <1>2, SameSequences DEF B!OncePerSubscriber, B!CalledInOrder, Calls
<1>5. B!NothingEarly /\ B!ResolvedMeansHandled
  BY <1>1, <1>2, SameSequences DEF B!NothingEarly, B!ResolvedMeansHandled, B!Published
<1> QED BY <1>3, <1>4, <1>5 DEF BusInv

LEMMA SubscribeStep ==
  ASSUME BusInv, NEW s \in Subscription, B!Subscribe(s)
  PROVE  BusInv'
<1>1. /\ subs \in Seq(Subscription) /\ cancelled \subseteq subscribed
      /\ \A m, n \in 1 .. Len(subs) : m # n => subs[m] # subs[n]
      /\ ToSet(subs) = subscribed \ cancelled /\ subscribed \subseteq Subscription
  BY SameSequences DEF BusInv, B!TypeOK
<1>2. /\ s \notin subscribed /\ subs' = Append(subs, s) /\ subscribed' = subscribed \cup {s}
      /\ UNCHANGED <<cancelled, microtasks, handling, publish, due, started>>
  BY DEF B!Subscribe
<1>3. /\ subs' \in Seq(Subscription) /\ Len(subs') = Len(subs) + 1 /\ Len(subs) \in Nat
      /\ \A n \in 1 .. Len(subs) : subs'[n] = subs[n]
      /\ subs'[Len(subs) + 1] = s
      /\ ToSet(subs') = ToSet(subs) \cup {s}
  <2>1. subs \in Seq(Subscription) /\ subs' = Append(subs, s)
    BY <1>1, <1>2
  <2> QED BY <2>1, Added
<1>4. \A n \in 1 .. Len(subs) : subs[n] # s
  BY <1>1, <1>2 DEF ToSet
<1>5. \A m, n \in 1 .. Len(subs') : m # n => subs'[m] # subs'[n]
  <2> SUFFICES ASSUME NEW m \in 1 .. Len(subs'), NEW n \in 1 .. Len(subs'), m # n
               PROVE  subs'[m] # subs'[n]
    OBVIOUS
  <2>1. CASE m = Len(subs) + 1
    BY <1>3, <1>4, <2>1
  <2>2. CASE n = Len(subs) + 1
    BY <1>3, <1>4, <2>2
  <2>3. CASE m # Len(subs) + 1 /\ n # Len(subs) + 1
    <3>1. m \in 1 .. Len(subs) /\ n \in 1 .. Len(subs)
      BY <1>3, <2>3
    <3> QED BY <1>1, <1>3, <3>1
  <2> QED BY <2>1, <2>2, <2>3
<1>7. B!TypeOK'
  <2>1. ToSet(subs') = subscribed' \ cancelled'
    BY <1>1, <1>2, <1>3
  <2> QED BY <1>1, <1>2, <1>3, <1>5, <2>1, SameSequences DEF BusInv, B!TypeOK
<1>8. UNCHANGED <<microtasks, handling, publish, due, started>>
  BY <1>2
<1>9. B!OncePerSubscriber' /\ B!CalledInOrder'
  BY <1>8 DEF BusInv, B!OncePerSubscriber, B!CalledInOrder
<1>10. B!NothingEarly' /\ B!ResolvedMeansHandled'
  BY <1>8 DEF BusInv, B!NothingEarly, B!ResolvedMeansHandled, B!Published
<1> QED BY <1>7, <1>9, <1>10 DEF BusInv

LEMMA UnsubscribeStep ==
  ASSUME BusInv, NEW s \in Subscription, B!Unsubscribe(s)
  PROVE  BusInv'
<1>1. /\ subs \in Seq(Subscription) /\ cancelled \subseteq subscribed
      /\ \A m, n \in 1 .. Len(subs) : m # n => subs[m] # subs[n]
      /\ ToSet(subs) = subscribed \ cancelled /\ subscribed \subseteq Subscription
  BY SameSequences DEF BusInv, B!TypeOK
<1>2. /\ s \in subscribed /\ cancelled' = cancelled \cup {s}
      /\ subs' = IF s \in ToSet(subs) THEN RemoveAt(subs, B!IndexOf(s)) ELSE subs
      /\ UNCHANGED <<microtasks, handling, publish, subscribed, due, started>>
  BY SameSequences DEF B!Unsubscribe, B!Spliced
<1>3. /\ subs' \in Seq(Subscription)
      /\ \A m, n \in 1 .. Len(subs') : m # n => subs'[m] # subs'[n]
      /\ ToSet(subs') = ToSet(subs) \ {s}
  <2>1. CASE s \in ToSet(subs)
    <3>1. B!IndexOf(s) \in 1 .. Len(subs) /\ subs[B!IndexOf(s)] = s
      BY <2>1 DEF B!IndexOf, ToSet
    <3>2. subs' = RemoveAt(subs, B!IndexOf(s))
      BY <1>2, <2>1
    <3> QED BY <1>1, <3>1, <3>2, Removed, RemovedInjective
  <2>2. CASE s \notin ToSet(subs)
    BY <1>1, <1>2, <2>2
  <2> QED BY <2>1, <2>2
<1>4. B!TypeOK'
  <2>1. ToSet(subs') = subscribed' \ cancelled' /\ cancelled' \subseteq subscribed'
    BY <1>1, <1>2, <1>3
  <2> QED BY <1>1, <1>2, <1>3, <2>1, SameSequences DEF BusInv, B!TypeOK
<1>5. UNCHANGED <<microtasks, handling, publish, due, started>>
  BY <1>2
<1>6. B!OncePerSubscriber' /\ B!CalledInOrder'
  BY <1>5 DEF BusInv, B!OncePerSubscriber, B!CalledInOrder
<1>7. B!NothingEarly' /\ B!ResolvedMeansHandled'
  BY <1>5 DEF BusInv, B!NothingEarly, B!ResolvedMeansHandled, B!Published
<1> QED BY <1>4, <1>6, <1>7 DEF BusInv

(* Nobody in the array was cancelled: publish() queues a call for each.    *)
LEMMA Queued ==
  ASSUME BusInv, NEW e \in B!Event, B!Publish(e)
  PROVE  LET new == [n \in 1 .. Len(subs) |-> <<subs[n], e>>] IN
         /\ microtasks' = microtasks \o new
         /\ new \in Seq(Subscription \X B!Event) /\ Len(new) = Len(subs)
         /\ Calls' = Calls \o new
<1> DEFINE new == [n \in 1 .. Len(subs) |-> <<subs[n], e>>]
<1>1. subs \in Seq(Subscription) /\ ToSet(subs) = subscribed \ cancelled
  BY SameSequences DEF BusInv, B!TypeOK
<1>2. {n \in 1 .. Len(subs) : subs[n] \notin cancelled} = 1 .. Len(subs)
  BY <1>1 DEF ToSet
<1>3. Filtered(subs, 1 .. Len(subs)) = subs
  <2>1. 1 \in 1 .. Len(subs) + 1 /\ SubSeq(subs, 1, Len(subs)) = subs
    BY <1>1
  <2> QED BY <1>1, <2>1, FilteredEnd
<1>4. microtasks' = microtasks \o new /\ started' = started
  BY <1>2, <1>3, SameFilter DEF B!Publish, B!Queued
<1>5. new \in Seq(Subscription \X B!Event) /\ Len(new) = Len(subs)
  BY <1>1
<1>6. started \in Seq(Subscription \X B!Event) /\ microtasks \in Seq(Subscription \X B!Event)
  BY CallsType
<1> HIDE DEF new
<1>7. Calls' = Calls \o new
  <2>1. started \o (microtasks \o new) = (started \o microtasks) \o new
    BY <1>5, <1>6
  <2> QED BY <1>4, <2>1 DEF Calls
<1> QED BY <1>4, <1>5, <1>7 DEF new

LEMMA PublishStep ==
  ASSUME BusInv, NEW e \in B!Event, B!Publish(e)
  PROVE  BusInv'
<1> DEFINE T == Subscription \X B!Event
           new == [n \in 1 .. Len(subs) |-> <<subs[n], e>>]
<1>1. /\ ~ B!Published(e) /\ \A d \in B!Event : d < e => B!Published(d)
      /\ publish' = [publish EXCEPT ![e] = "waiting"]
      /\ due' = [due EXCEPT ![e] = subscribed \ cancelled]
      /\ UNCHANGED <<subs, cancelled, handling, subscribed, started>>
  BY DEF B!Publish
<1>2. /\ subs \in Seq(Subscription) /\ ToSet(subs) = subscribed \ cancelled
      /\ \A m, n \in 1 .. Len(subs) : m # n => subs[m] # subs[n]
      /\ subscribed \subseteq Subscription
      /\ due \in [B!Event -> SUBSET Subscription]
      /\ publish \in [B!Event -> {"none", "waiting", "resolved"}]
  BY SameSequences DEF BusInv, B!TypeOK
<1>3. /\ microtasks' = microtasks \o new /\ Calls' = Calls \o new
      /\ new \in Seq(T) /\ Len(new) = Len(subs) /\ Calls \in Seq(T)
      /\ microtasks \in Seq(T)
  BY Queued, CallsType
<1>4. \A n \in 1 .. Len(subs) : new[n] = <<subs[n], e>>
  OBVIOUS
<1> HIDE DEF new
<1>5. /\ Len(Calls) \in Nat /\ Len(subs) \in Nat
      /\ Calls' \in Seq(T) /\ microtasks' \in Seq(T)
      /\ Len(Calls') = Len(Calls) + Len(subs)
      /\ \A n \in 1 .. Len(Calls) : Calls'[n] = Calls[n]
      /\ \A n \in Len(Calls) + 1 .. Len(Calls') : Calls'[n] = <<subs[n - Len(Calls)], e>>
  <2>1. /\ Calls \o new \in Seq(T) /\ microtasks \o new \in Seq(T)
        /\ Len(Calls \o new) = Len(Calls) + Len(new)
    BY <1>3, Concatenated
  <2>2. \A n \in 1 .. Len(Calls) : (Calls \o new)[n] = Calls[n]
    BY <1>3, Concatenated
  <2>3. ASSUME NEW n \in Len(Calls) + 1 .. Len(Calls) + Len(new)
        PROVE  (Calls \o new)[n] = <<subs[n - Len(Calls)], e>>
    <3>1. (Calls \o new)[n] = new[n - Len(Calls)] /\ n - Len(Calls) \in 1 .. Len(subs)
      BY <1>2, <1>3
    <3> QED BY <1>4, <3>1
  <2> QED BY <1>2, <1>3, <2>1, <2>2, <2>3
(* No call was for this event, nor for a later one. *)
<1>6. \A n \in 1 .. Len(Calls) : Calls[n] \in T /\ Calls[n][2] < e
  <2> SUFFICES ASSUME NEW n \in 1 .. Len(Calls)
               PROVE  Calls[n] \in T /\ Calls[n][2] < e
    OBVIOUS
  <2>1. Calls[n] \in T
    BY <1>3
  <2>2. PICK s \in Subscription, d \in B!Event : Calls[n] = <<s, d>>
    BY <2>1
  <2>3. <<s, d>> \in ToSet(Calls)
    BY <1>3, <2>2 DEF ToSet
  <2>4. B!Published(d)
    BY <2>3, SameSequences DEF BusInv, B!OncePerSubscriber, B!NothingEarly, Calls
  <2>5. d # e /\ ~ e < d
    BY <1>1, <2>4 DEF BusInv, B!NothingEarly
  <2> QED BY <2>1, <2>2, <2>5, BusEventsNat
<1>7. /\ e \in Nat
      /\ \A n \in 1 .. Len(Calls) : Calls'[n][2] \in Nat /\ Calls'[n][2] < e
      /\ \A n \in 1 .. Len(Calls') : n \notin 1 .. Len(Calls) =>
           /\ n - Len(Calls) \in 1 .. Len(subs)
           /\ Calls'[n] = <<subs[n - Len(Calls)], e>> /\ Calls'[n][2] = e
  <2>1. e \in Nat /\ \A x \in T : x[2] \in Nat
    BY BusEventsNat
  <2>3. \A n \in 1 .. Len(Calls) : Calls'[n][2] \in Nat /\ Calls'[n][2] < e
    BY <1>5, <1>6, <2>1
  <2>4. \A x : <<x, e>>[2] = e
    OBVIOUS
  <2>2. \A n \in 1 .. Len(Calls') : n \notin 1 .. Len(Calls) =>
           /\ n \in Len(Calls) + 1 .. Len(Calls')
           /\ n - Len(Calls) \in 1 .. Len(subs)
    BY <1>5
  <2> HIDE DEF T
  <2> QED BY <1>5, <2>1, <2>2, <2>3, <2>4
<1>8. B!TypeOK'
  <2>1. due' \in [B!Event -> SUBSET Subscription]
    BY <1>1, <1>2
  <2>2. publish' \in [B!Event -> {"none", "waiting", "resolved"}]
    BY <1>1, <1>2
  <2> QED BY <1>1, <1>5, <2>1, <2>2, SameSequences DEF BusInv, B!TypeOK
<1>9. B!OncePerSubscriber'
  <2>1. ASSUME NEW m \in 1 .. Len(Calls'), NEW n \in 1 .. Len(Calls'), m # n
        PROVE  Calls'[m] # Calls'[n]
    <3>1. CASE m \in 1 .. Len(Calls) /\ n \in 1 .. Len(Calls)
      <4>1. Calls[m] # Calls[n]
        BY <2>1, <3>1 DEF BusInv, B!OncePerSubscriber, Calls
      <4> QED BY <1>5, <3>1, <4>1
    <3>2. CASE m \in 1 .. Len(Calls) /\ n \notin 1 .. Len(Calls)
      <4>1. Calls'[m][2] \in Nat /\ Calls'[m][2] < e /\ Calls'[n][2] = e /\ e \in Nat
        BY <1>7, <3>2
      <4> QED BY <4>1
    <3>3. CASE m \notin 1 .. Len(Calls) /\ n \in 1 .. Len(Calls)
      <4>1. Calls'[n][2] \in Nat /\ Calls'[n][2] < e /\ Calls'[m][2] = e /\ e \in Nat
        BY <1>7, <3>3
      <4> QED BY <4>1
    <3>4. CASE m \notin 1 .. Len(Calls) /\ n \notin 1 .. Len(Calls)
      <4>1. /\ Calls'[m] = <<subs[m - Len(Calls)], e>> /\ Calls'[n] = <<subs[n - Len(Calls)], e>>
            /\ m - Len(Calls) \in 1 .. Len(subs) /\ n - Len(Calls) \in 1 .. Len(subs)
        BY <1>5, <1>7, <3>4
      <4>2. m - Len(Calls) # n - Len(Calls)
        BY <1>5, <2>1
      <4>3. subs[m - Len(Calls)] # subs[n - Len(Calls)]
        BY <1>2, <4>1, <4>2
      <4> QED BY <4>1, <4>3
    <3> QED BY <3>1, <3>2, <3>3, <3>4
  <2>2. ASSUME NEW d \in B!Event, NEW s \in Subscription
        PROVE  <<s, d>> \in ToSet(Calls') <=> s \in due'[d]
    <3>0. /\ <<s, d>> \in ToSet(Calls') <=> \E n \in 1 .. Len(Calls') : Calls'[n] = <<s, d>>
          /\ <<s, d>> \in ToSet(Calls) <=> \E n \in 1 .. Len(Calls) : Calls[n] = <<s, d>>
          /\ s \in ToSet(subs) <=> \E n \in 1 .. Len(subs) : subs[n] = s
      <4>1. Calls' \in Seq(T) /\ Calls \in Seq(T) /\ subs \in Seq(Subscription)
        BY <1>2, <1>3, <1>5
      <4> HIDE DEF T
      <4> QED BY <4>1, Members
    <3>1. <<s, d>> \in ToSet(Calls) <=> s \in due[d]
      BY SameSequences DEF BusInv, B!OncePerSubscriber, Calls
    <3>2. CASE d = e
      <4>1. due'[d] = ToSet(subs)
        BY <1>1, <1>2, <3>2
      <4>2. ASSUME NEW n \in 1 .. Len(Calls'), Calls'[n] = <<s, d>> PROVE s \in ToSet(subs)
        <5>1. n \notin 1 .. Len(Calls)
          BY <1>7, <3>2, <4>2
        <5>2. n - Len(Calls) \in 1 .. Len(subs) /\ subs[n - Len(Calls)] = s
          BY <1>5, <1>7, <4>2, <5>1
        <5> QED BY <3>0, <5>2
      <4>3. ASSUME NEW n \in 1 .. Len(subs), subs[n] = s PROVE <<s, d>> \in ToSet(Calls')
        <5>1. /\ n + Len(Calls) \in Len(Calls) + 1 .. Len(Calls')
              /\ n + Len(Calls) \in 1 .. Len(Calls')
              /\ (n + Len(Calls)) - Len(Calls) = n
          BY <1>5
        <5>2. Calls'[n + Len(Calls)] = <<s, d>>
          BY <1>5, <3>2, <4>3, <5>1
        <5> QED BY <3>0, <5>1, <5>2
      <4> QED BY <3>0, <4>1, <4>2, <4>3
    <3>3. CASE d # e
      <4>1. due'[d] = due[d]
        BY <1>1, <1>2, <3>3
      <4>2. ASSUME NEW n \in 1 .. Len(Calls'), Calls'[n] = <<s, d>>
            PROVE  n \in 1 .. Len(Calls) /\ Calls[n] = <<s, d>>
        <5>1. n \in 1 .. Len(Calls)
          <6>1. CASE n \notin 1 .. Len(Calls)
            <7>1. Calls'[n][2] = e
              BY <1>5, <1>7, <6>1
            <7> QED BY <3>3, <4>2, <7>1
          <6> QED BY <6>1
        <5> QED BY <1>5, <4>2, <5>1
      <4>3. ASSUME NEW n \in 1 .. Len(Calls), Calls[n] = <<s, d>>
            PROVE  n \in 1 .. Len(Calls') /\ Calls'[n] = <<s, d>>
        BY <1>5, <4>3
      <4> QED BY <3>0, <3>1, <4>1, <4>2, <4>3
    <3> QED BY <3>2, <3>3
  <2> QED BY <2>1, <2>2, SameSequences DEF B!OncePerSubscriber, Calls
<1>10. B!CalledInOrder'
  <2>1. ASSUME NEW m \in 1 .. Len(Calls'), NEW n \in 1 .. Len(Calls'),
               m < n, Calls'[m][1] = Calls'[n][1]
        PROVE  Calls'[m][2] < Calls'[n][2]
    <3>1. CASE m \in 1 .. Len(Calls) /\ n \in 1 .. Len(Calls)
      <4>1. Calls[m][1] = Calls[n][1]
        BY <1>5, <2>1, <3>1
      <4>2. Calls[m][2] < Calls[n][2]
        BY <2>1, <3>1, <4>1 DEF BusInv, B!CalledInOrder, Calls
      <4> QED BY <1>5, <3>1, <4>2
    <3>2. CASE m \in 1 .. Len(Calls) /\ n \notin 1 .. Len(Calls)
      <4>1. Calls'[m][2] < e /\ Calls'[n][2] = e
        BY <1>5, <1>6, <1>7, <3>2
      <4> QED BY <4>1
    <3>3. CASE m \notin 1 .. Len(Calls) /\ n \in 1 .. Len(Calls)
      BY <1>5, <2>1, <3>3
    <3>4. CASE m \notin 1 .. Len(Calls) /\ n \notin 1 .. Len(Calls)
      <4>1. /\ Calls'[m] = <<subs[m - Len(Calls)], e>> /\ Calls'[n] = <<subs[n - Len(Calls)], e>>
            /\ m - Len(Calls) \in 1 .. Len(subs) /\ n - Len(Calls) \in 1 .. Len(subs)
        BY <1>5, <1>7, <3>4
      <4>2. m - Len(Calls) # n - Len(Calls)
        BY <1>5, <2>1
      <4>3. subs[m - Len(Calls)] # subs[n - Len(Calls)]
        BY <1>2, <4>1, <4>2
      <4> QED BY <2>1, <4>1, <4>3
    <3> QED BY <3>1, <3>2, <3>3, <3>4
  <2> QED BY <2>1 DEF B!CalledInOrder, Calls
<1>11. B!NothingEarly'
  <2>1. /\ B!Published(e)' /\ \A d \in B!Event \ {e} : B!Published(d)' <=> B!Published(d)
        /\ \A d \in B!Event \ {e} : due'[d] = due[d]
    BY <1>1, <1>2 DEF B!Published
  <2>2. ASSUME NEW d \in B!Event, NEW c \in B!Event, d < c, B!Published(c)'
        PROVE  B!Published(d)'
    <3>1. CASE c = e
      BY <1>1, <2>1, <2>2, <3>1
    <3>2. CASE c # e
      BY <2>1, <2>2, <3>2 DEF BusInv, B!NothingEarly
    <3> QED BY <3>1, <3>2
  <2>3. ASSUME NEW d \in B!Event, due'[d] # {} PROVE B!Published(d)'
    BY <2>1, <2>3 DEF BusInv, B!NothingEarly
  <2>4. handling' \subseteq B!ToSet(started')
    BY <1>1, SameSequences DEF BusInv, B!NothingEarly
  <2> QED BY <2>2, <2>3, <2>4 DEF B!NothingEarly
<1>12. B!ResolvedMeansHandled'
  <2>1. ASSUME NEW c \in B!Event, publish'[c] = "resolved",
               NEW d \in handling' \cup ToSet(microtasks')
        PROVE  d[2] # c
    <3>1. c # e /\ publish[c] = "resolved"
      BY <1>1, <1>2, <2>1
    <3>2. \A x \in handling \cup ToSet(microtasks) : x[2] # c
      BY <3>1, SameSequences DEF BusInv, B!ResolvedMeansHandled
    <3>3. CASE d \in handling'
      BY <1>1, <3>2, <3>3
    <3>4. CASE d \in ToSet(microtasks')
      <4>1. d \in ToSet(microtasks) \cup ToSet(new)
        BY <1>3, <3>4, Concatenated
      <4>2. CASE d \in ToSet(new)
        <5>1. PICK n \in 1 .. Len(subs) : new[n] = d
          BY <1>3, <4>2, Members
        <5> QED BY <1>4, <3>1, <5>1
      <4> QED BY <3>2, <4>1, <4>2
    <3> QED BY <2>1, <3>3, <3>4
  <2> QED BY <2>1, SameSequences DEF B!ResolvedMeansHandled
<1> QED BY <1>8, <1>9, <1>10, <1>11, <1>12 DEF BusInv

LEMMA DeliverStep == ASSUME BusInv, B!Deliver PROVE BusInv'
<1> DEFINE T == Subscription \X B!Event
           h == Head(microtasks)
<1>1. /\ microtasks # <<>> /\ microtasks' = Tail(microtasks) /\ started' = Append(started, h)
      /\ handling' \in {handling, handling \cup {h}}
      /\ UNCHANGED <<subs, cancelled, publish, subscribed, due>>
  BY DEF B!Deliver
<1>2. started \in Seq(T) /\ microtasks \in Seq(T) /\ handling \subseteq T
  BY DEF BusInv, B!TypeOK
<1>3. h \in T /\ started' \in Seq(T) /\ microtasks' \in Seq(T) /\ Len(microtasks) \in Nat \ {0}
  BY <1>1, <1>2
<1> HIDE DEF T
<1>4. Calls' = Calls
  <2>1. microtasks = <<h>> \o Tail(microtasks)
    BY <1>1, <1>2
  <2>2. Append(started, h) = started \o <<h>>
    BY <1>2, <1>3
  <2>3. (started \o <<h>>) \o Tail(microtasks) = started \o (<<h>> \o Tail(microtasks))
    BY <1>1, <1>2, <1>3
  <2> QED BY <1>1, <2>1, <2>2, <2>3 DEF Calls
<1>5. ToSet(microtasks) = ToSet(microtasks') \cup {h}
  <2>1. microtasks = <<h>> \o Tail(microtasks)
    BY <1>1, <1>2
  <2>2. <<h>> \in Seq(T) /\ ToSet(<<h>>) = {h}
    BY <1>3 DEF ToSet
  <2>3. ToSet(<<h>> \o Tail(microtasks)) = ToSet(<<h>>) \cup ToSet(Tail(microtasks))
    <3>1. <<h>> \in Seq(T) /\ Tail(microtasks) \in Seq(T)
      BY <1>1, <1>3, <2>2
    <3> QED BY <3>1, Concatenated
  <2>4. ToSet(microtasks) = {h} \cup ToSet(Tail(microtasks))
    BY <2>1, <2>2, <2>3
  <2> QED BY <1>1, <2>4
<1>6. ToSet(started') = ToSet(started) \cup {h}
  <2>1. started \in Seq(T) /\ h \in T /\ started' = Append(started, h)
    BY <1>1, <1>2, <1>3
  <2> HIDE DEF h
  <2> QED BY <2>1, Added
<1>7. B!TypeOK'
  <2>1. handling' \subseteq T
    BY <1>1, <1>2, <1>3
  <2> QED BY <1>1, <1>3, <2>1, SameSequences DEF BusInv, B!TypeOK, T
<1>8. B!OncePerSubscriber' /\ B!CalledInOrder'
  <2>1. /\ B!ToSet(Calls) = B!ToSet(started \o microtasks) /\ Calls' = started' \o microtasks'
        /\ B!ToSet(Calls') = B!ToSet(Calls) /\ due' = due
    BY <1>1, <1>4 DEF Calls
  <2>2. /\ \A m, n \in 1 .. Len(Calls) : m # n => Calls[m] # Calls[n]
        /\ \A e \in B!Event, s \in Subscription : <<s, e>> \in B!ToSet(Calls) <=> s \in due[e]
        /\ \A m, n \in 1 .. Len(Calls) :
             m < n /\ Calls[m][1] = Calls[n][1] => Calls[m][2] < Calls[n][2]
    BY DEF BusInv, B!OncePerSubscriber, B!CalledInOrder, Calls
  <2> HIDE DEF h
  <2> QED BY <1>4, <2>1, <2>2 DEF B!OncePerSubscriber, B!CalledInOrder
<1>9. B!NothingEarly'
  <2>1. handling \subseteq ToSet(started)
    BY SameSequences DEF BusInv, B!NothingEarly
  <2>2. handling' \subseteq ToSet(started')
    BY <1>1, <1>6, <2>1
  <2>3. handling' \subseteq B!ToSet(started')
    BY <2>2, SameSequences
  <2> QED BY <1>1, <2>3 DEF BusInv, B!NothingEarly, B!Published
<1>10. B!ResolvedMeansHandled'
  <2>1. handling' \cup ToSet(microtasks') \subseteq handling \cup ToSet(microtasks)
    BY <1>1, <1>5
  <2> QED BY <1>1, <2>1, SameSequences DEF BusInv, B!ResolvedMeansHandled
<1> QED BY <1>7, <1>8, <1>9, <1>10 DEF BusInv

LEMMA BusOtherSteps ==
  /\ \A d : BusInv /\ B!Settle(d) => BusInv'
  /\ \A e \in B!Event : BusInv /\ B!Resolve(e) => BusInv'
<1>1. ASSUME NEW d, BusInv, B!Settle(d) PROVE BusInv'
  <2>1. /\ handling' \subseteq handling
        /\ UNCHANGED <<subs, cancelled, microtasks, publish, subscribed, due, started>>
    BY <1>1 DEF B!Settle
  <2>2. B!TypeOK' /\ B!OncePerSubscriber' /\ B!CalledInOrder'
    <3>1. B!TypeOK'
      BY <1>1, <2>1 DEF BusInv, B!TypeOK
    <3>2. B!OncePerSubscriber'
      BY <1>1, <2>1 DEF BusInv, B!OncePerSubscriber
    <3>3. B!CalledInOrder'
      BY <1>1, <2>1 DEF BusInv, B!CalledInOrder
    <3> QED BY <3>1, <3>2, <3>3
  <2>3. B!NothingEarly' /\ B!ResolvedMeansHandled'
    BY <1>1, <2>1 DEF BusInv, B!NothingEarly, B!ResolvedMeansHandled, B!Published
  <2> QED BY <2>2, <2>3 DEF BusInv
<1>2. ASSUME NEW e \in B!Event, BusInv, B!Resolve(e) PROVE BusInv'
  <2>1. /\ publish[e] = "waiting" /\ publish' = [publish EXCEPT ![e] = "resolved"]
        /\ B!AllSettled(e)
        /\ UNCHANGED <<subs, cancelled, microtasks, handling, subscribed, due, started>>
    BY <1>2 DEF B!Resolve
  <2>2. publish \in [B!Event -> {"none", "waiting", "resolved"}]
    BY <1>2 DEF BusInv, B!TypeOK
  <2>3. publish' \in [B!Event -> {"none", "waiting", "resolved"}]
    BY <2>1, <2>2
  <2>4. \A c \in B!Event : /\ B!Published(c)' <=> B!Published(c)
                           /\ publish'[c] = "resolved" => c = e \/ publish[c] = "resolved"
    BY <2>1, <2>2 DEF B!Published
  <2>5. B!TypeOK' /\ B!OncePerSubscriber' /\ B!CalledInOrder'
    <3>1. B!TypeOK'
      BY <1>2, <2>1, <2>3 DEF BusInv, B!TypeOK
    <3> QED BY <1>2, <2>1, <2>3, <3>1 DEF BusInv, B!OncePerSubscriber, B!CalledInOrder
  <2>6. B!NothingEarly'
    BY <1>2, <2>1, <2>4 DEF BusInv, B!NothingEarly
  <2>7. B!ResolvedMeansHandled'
    BY <1>2, <2>1, <2>4 DEF BusInv, B!ResolvedMeansHandled, B!AllSettled
  <2> QED BY <2>5, <2>6, <2>7 DEF BusInv
<1> QED BY <1>1, <1>2

LEMMA NextBusInv == BusInv /\ [B!Next]_busVars => BusInv'
<1>1. BusInv /\ B!Next => BusInv'
  BY SubscribeStep, UnsubscribeStep, PublishStep, DeliverStep, BusOtherSteps DEF B!Next
<1>2. BusInv /\ UNCHANGED busVars => BusInv'
  BY DEF BusInv, busVars, B!TypeOK, B!OncePerSubscriber, B!CalledInOrder,
         B!NothingEarly, B!ResolvedMeansHandled, B!Published
<1> QED BY <1>1, <1>2

-----------------------------------------------------------------------------
(***************************************************************************)
(* Saga.  RunOK says of one run, by its state, its loop variable and what  *)
(* it completed and undid, what the invariants say of all of them.         *)
(***************************************************************************)
SagaInv == S!TypeOK /\ S!LoopTrue /\ S!UndoneInReverse

Undoable(n) == {s \in 1 .. n : s \in Compensable}

SagaStates == {"idle", "executing", "compensating", "returned", "SagaError", "TypeError"}

RunOK(n, at, ix, done, und) ==
    /\ at \in SagaStates /\ ix \in 0 .. n + 1
    /\ done \in Seq(S!Step) /\ Len(done) <= n /\ \A k \in 1 .. Len(done) : done[k] = k
    /\ und \in Seq(S!Step) /\ \A k, l \in 1 .. Len(und) : k < l => und[k] > und[l]
    /\ at = "idle" => done = <<>>
    /\ at = "executing" => ix = Len(done) + 1 /\ ix <= n
    /\ at = "compensating" => ix \in 1 .. Len(done)
    /\ at \in {"SagaError", "TypeError"} => ToSet(und) = Undoable(Len(done))
    /\ at = "compensating" => ToSet(und) = {s \in Undoable(Len(done)) : s >= ix}
    /\ at \in {"idle", "executing", "returned"} => und = <<>>

SagaTypes ==
    /\ steps \in 0 .. SagaSteps
    /\ sagaState \in [Run -> SagaStates]
    /\ sagaIndex \in [Run -> Int]
    /\ completed \in [Run -> Seq(S!Step)]
    /\ cause \in [Run -> {"none", "error", "undefined"}]
    /\ undone \in [Run -> Seq(S!Step)]

LEMMA StepsNat ==
  /\ SagaSteps \in Nat /\ S!Step = 1 .. SagaSteps /\ Compensable \subseteq 1 .. SagaSteps
BY MemoryAssumption DEF S!StepsAssumption, S!Step

LEMMA UndoableSet ==
  ASSUME NEW done \in Seq(S!Step), \A k \in 1 .. Len(done) : done[k] = k
  PROVE  ToSet(done) \cap Compensable = Undoable(Len(done))
<1>1. \A x : x \in ToSet(done) <=> x \in 1 .. Len(done)
  BY Members
<1> QED BY <1>1 DEF Undoable

LEMMA RunsOK ==
  ASSUME SagaInv
  PROVE  SagaTypes /\ \A r \in Run : RunOK(steps, sagaState[r], sagaIndex[r], completed[r], undone[r])
<1>1. SagaTypes /\ \A r \in Run : sagaIndex[r] \in 0 .. steps + 1
  <2>1. sagaIndex \in [Run -> 0 .. steps + 1] /\ steps \in Nat
    BY StepsNat DEF SagaInv, S!TypeOK
  <2>2. sagaIndex \in [Run -> Int] /\ \A r \in Run : sagaIndex[r] \in 0 .. steps + 1
    BY <2>1
  <2> QED BY <2>2 DEF SagaInv, S!TypeOK, SagaTypes, SagaStates
<1>2. ASSUME NEW r \in Run
      PROVE  RunOK(steps, sagaState[r], sagaIndex[r], completed[r], undone[r])
  <2>1. /\ sagaState[r] \in SagaStates
        /\ completed[r] \in Seq(S!Step) /\ undone[r] \in Seq(S!Step)
    BY <1>1 DEF SagaTypes
  <2>2. Len(completed[r]) <= steps /\ \A k \in 1 .. Len(completed[r]) : completed[r][k] = k
    BY DEF SagaInv, S!TypeOK
  <2>3. ToSet(completed[r]) \cap Compensable = Undoable(Len(completed[r]))
    BY <2>1, <2>2, UndoableSet
  <2>4. S!ToUndo(r) = Undoable(Len(completed[r]))
    BY <2>3, SameSequences DEF S!ToUndo
  <2>5. /\ \A m, n \in 1 .. Len(undone[r]) : m < n => undone[r][m] > undone[r][n]
        /\ sagaState[r] \in {"SagaError", "TypeError"} => ToSet(undone[r]) = S!ToUndo(r)
        /\ sagaState[r] = "compensating" =>
              ToSet(undone[r]) = {s \in S!ToUndo(r) : s >= sagaIndex[r]}
        /\ sagaState[r] \in {"idle", "executing", "returned"} => undone[r] = <<>>
    BY SameSequences DEF SagaInv, S!UndoneInReverse, S!Threw
  <2>6. /\ sagaState[r] = "idle" => completed[r] = <<>>
        /\ sagaState[r] = "executing" =>
             sagaIndex[r] = Len(completed[r]) + 1 /\ sagaIndex[r] <= steps
        /\ sagaState[r] = "compensating" => sagaIndex[r] \in 1 .. Len(completed[r])
    BY DEF SagaInv, S!LoopTrue
  <2> QED BY <1>1, <2>1, <2>2, <2>4, <2>5, <2>6 DEF RunOK
<1> QED BY <1>1, <1>2

LEMMA OKRuns ==
  ASSUME SagaTypes',
         \A r \in Run : RunOK(steps', sagaState'[r], sagaIndex'[r], completed'[r], undone'[r])
  PROVE  SagaInv'
<1>1. S!TypeOK'
  <2>1. steps' \in 0 .. SagaSteps /\ sagaIndex' \in [Run -> 0 .. steps' + 1]
    BY DEF SagaTypes, RunOK
  <2>2. \A r \in Run : /\ Len(completed'[r]) <= steps'
                       /\ \A k \in 1 .. Len(completed'[r]) : completed'[r][k] = k
    BY DEF RunOK
  <2> QED BY <2>1, <2>2 DEF SagaTypes, SagaStates, S!TypeOK
<1>2. S!LoopTrue'
  BY DEF RunOK, S!LoopTrue
<1>3. ASSUME NEW r \in Run PROVE S!ToUndo(r)' = Undoable(Len(completed'[r]))
  <2>1. completed'[r] \in Seq(S!Step) /\ \A k \in 1 .. Len(completed'[r]) : completed'[r][k] = k
    BY DEF RunOK
  <2>2. ToSet(completed'[r]) \cap Compensable = Undoable(Len(completed'[r]))
    BY <2>1, UndoableSet
  <2>3. S!ToUndo(r)' = ToSet(completed'[r]) \cap Compensable
    BY SameSequences DEF S!ToUndo
  <2> QED BY <2>2, <2>3
<1>4. S!UndoneInReverse'
  <2>1. ASSUME NEW r \in Run
        PROVE  /\ \A m, n \in 1 .. Len(undone'[r]) : m < n => undone'[r][m] > undone'[r][n]
               /\ sagaState'[r] \in {"SagaError", "TypeError"} => B!ToSet(undone'[r]) = S!ToUndo(r)'
               /\ sagaState'[r] = "compensating" =>
                     B!ToSet(undone'[r]) = {s \in S!ToUndo(r)' : s >= sagaIndex'[r]}
               /\ sagaState'[r] \in {"idle", "executing", "returned"} => undone'[r] = <<>>
    BY <1>3, SameSequences DEF RunOK
  <2>2. \A s : B!ToSet(s) = S!ToSet(s)
    BY SameSequences
  <2> QED BY <2>1, <2>2 DEF S!UndoneInReverse, S!Threw
<1> QED BY <1>1, <1>2, <1>4 DEF SagaInv

LEMMA InitSagaInv == S!Init => SagaInv
<1> SUFFICES ASSUME S!Init PROVE SagaInv
  OBVIOUS
<1>1. /\ steps = 0 /\ sagaState = [r \in Run |-> "idle"] /\ sagaIndex = [r \in Run |-> 0]
      /\ completed = [r \in Run |-> <<>>] /\ cause = [r \in Run |-> "none"]
      /\ undone = [r \in Run |-> <<>>]
  BY DEF S!Init
<1>2. S!TypeOK
  BY <1>1, StepsNat DEF S!TypeOK
<1>3. S!LoopTrue
  BY <1>1 DEF S!LoopTrue
<1>4. S!UndoneInReverse
  BY <1>1 DEF S!UndoneInReverse, S!Threw
<1> QED BY <1>2, <1>3, <1>4 DEF SagaInv

(* A step of one run leaves the others alone. *)
LEMMA OneRun ==
  ASSUME SagaInv, NEW r \in Run, steps' = steps, cause' \in [Run -> {"none", "error", "undefined"}],
         NEW at, NEW ix, NEW done, NEW und,
         sagaState' = [sagaState EXCEPT ![r] = at], sagaIndex' = [sagaIndex EXCEPT ![r] = ix],
         completed' = [completed EXCEPT ![r] = done], undone' = [undone EXCEPT ![r] = und],
         RunOK(steps, at, ix, done, und)
  PROVE  SagaInv'
<1>1. SagaTypes /\ \A q \in Run : RunOK(steps, sagaState[q], sagaIndex[q], completed[q], undone[q])
  BY RunsOK
<1>2. at \in SagaStates /\ ix \in Int /\ done \in Seq(S!Step) /\ und \in Seq(S!Step)
  <2>1. steps \in Nat
    BY <1>1, StepsNat DEF SagaTypes
  <2> QED BY <2>1 DEF RunOK
<1>3. SagaTypes'
  BY <1>1, <1>2 DEF SagaTypes
<1>4. ASSUME NEW q \in Run
      PROVE  RunOK(steps', sagaState'[q], sagaIndex'[q], completed'[q], undone'[q])
  <2>1. CASE q = r
    <3>1. /\ sagaState'[r] = at /\ sagaIndex'[r] = ix /\ completed'[r] = done /\ undone'[r] = und
      BY <1>1 DEF SagaTypes
    <3> QED BY <2>1, <3>1
  <2>2. CASE q # r
    <3>1. /\ sagaState'[q] = sagaState[q] /\ sagaIndex'[q] = sagaIndex[q]
          /\ completed'[q] = completed[q] /\ undone'[q] = undone[q]
      BY <1>1, <2>2 DEF SagaTypes
    <3> QED BY <1>1, <3>1
  <2> QED BY <2>1, <2>2
<1> QED BY <1>3, <1>4, OKRuns

LEMMA ExecuteStep ==
  ASSUME SagaInv, NEW r \in Run, NEW done \in Seq(S!Step), Len(done) <= steps,
         \A k \in 1 .. Len(done) : done[k] = k, undone[r] = <<>>,
         S!Execute(r, Len(done) + 1), completed' = [completed EXCEPT ![r] = done],
         UNCHANGED <<steps, cause, undone>>
  PROVE  SagaInv' /\ (sagaState'[r] = "returned" => Len(completed'[r]) = steps)
<1> DEFINE ix == Len(done) + 1
           at == IF S!HasStep(ix) THEN "executing" ELSE "returned"
<1>1. SagaTypes
  BY RunsOK
<1>2. /\ sagaState' = [sagaState EXCEPT ![r] = at] /\ sagaIndex' = [sagaIndex EXCEPT ![r] = ix]
      /\ undone' = [undone EXCEPT ![r] = <<>>] /\ steps' = steps
      /\ cause' \in [Run -> {"none", "error", "undefined"}]
  BY <1>1 DEF S!Execute, SagaTypes
<1>3. steps \in Nat /\ Len(done) \in Nat /\ (S!HasStep(ix) <=> ix <= steps)
  BY <1>1, StepsNat DEF SagaTypes, S!HasStep
<1>4. RunOK(steps, at, ix, done, <<>>)
  BY <1>3 DEF RunOK, SagaStates
<1>5. SagaInv'
  <2> HIDE DEF at, ix
  <2> QED BY <1>2, <1>4, OneRun
<1>6. sagaState'[r] = at /\ completed'[r] = done
  BY <1>1, <1>2 DEF SagaTypes
<1>7. at = "returned" => Len(done) = steps
  BY <1>3
<1> QED BY <1>5, <1>6, <1>7

(* What is left to undo below the positions that were undone: none of it,  *)
(* or its last.                                                            *)
LEMMA CompensateStep ==
  ASSUME SagaInv, NEW r \in Run, NEW n \in 0 .. Len(completed[r]), NEW reason,
         ToSet(undone[r]) = {s \in Undoable(Len(completed[r])) : s > n},
         \A k, l \in 1 .. Len(undone[r]) : k < l => undone[r][k] > undone[r][l],
         S!Compensate(r, n, reason),
         UNCHANGED <<steps, completed>>, cause' \in [Run -> {"none", "error", "undefined"}]
  PROVE  SagaInv' /\ sagaState'[r] # "returned"
<1> DEFINE done == completed[r]
           und == undone[r]
<1>1. SagaTypes /\ RunOK(steps, sagaState[r], sagaIndex[r], done, und)
  BY RunsOK
<1>2. /\ done \in Seq(S!Step) /\ Len(done) \in Nat /\ Len(done) <= steps /\ steps \in Nat
      /\ \A k \in 1 .. Len(done) : done[k] = k
      /\ und \in Seq(S!Step) /\ n \in Nat /\ n <= Len(done)
  BY <1>1, StepsNat DEF RunOK, SagaTypes
<1>3. completed' = [completed EXCEPT ![r] = done] /\ steps' = steps
  BY <1>1 DEF SagaTypes
<1>4. S!Downwards(r, n) = Undoable(n)
  BY <1>2 DEF S!Downwards, Undoable
<1>5. CASE Undoable(n) = {}
  <2>1. /\ sagaState' = [sagaState EXCEPT ![r] = S!ThrowWith(reason)]
        /\ UNCHANGED <<sagaIndex, undone>>
    BY <1>4, <1>5 DEF S!Compensate
  <2>2. /\ sagaIndex' = [sagaIndex EXCEPT ![r] = sagaIndex[r]]
        /\ undone' = [undone EXCEPT ![r] = und]
    BY <1>1, <2>1 DEF SagaTypes
  <2>3. S!ThrowWith(reason) \in {"SagaError", "TypeError"}
    BY DEF S!ThrowWith
  <2>4. ToSet(und) = Undoable(Len(done))
    BY <1>2, <1>5 DEF Undoable
  <2>5. RunOK(steps, S!ThrowWith(reason), sagaIndex[r], done, und)
    BY <1>1, <1>2, <2>3, <2>4 DEF RunOK, SagaStates
  <2>6. SagaInv'
    <3> HIDE DEF done, und
    <3> QED BY <1>3, <2>1, <2>2, <2>5, OneRun
  <2>7. sagaState'[r] = S!ThrowWith(reason)
    BY <1>1, <2>1 DEF SagaTypes
  <2> QED BY <2>3, <2>6, <2>7
<1>6. CASE Undoable(n) # {}
  <2>1. PICK m \in Undoable(n) :
          /\ \A k \in Undoable(n) : k <= m
          /\ sagaState' = [sagaState EXCEPT ![r] = "compensating"]
          /\ sagaIndex' = [sagaIndex EXCEPT ![r] = m]
          /\ undone' = [undone EXCEPT ![r] = Append(@, completed[r][m])]
    BY <1>4, <1>6 DEF S!Compensate
  <2>2. m \in 1 .. n /\ m \in Compensable /\ m \in 1 .. Len(done) /\ m \in Nat /\ m \in S!Step
    BY <1>2, <2>1, StepsNat DEF Undoable
  <2>3. undone' = [undone EXCEPT ![r] = Append(und, m)]
    BY <1>1, <1>2, <2>1, <2>2 DEF SagaTypes
  <2>4. LET new == Append(und, m) IN
        /\ new \in Seq(S!Step) /\ Len(new) = Len(und) + 1 /\ Len(und) \in Nat
        /\ \A k \in 1 .. Len(und) : new[k] = und[k]
        /\ new[Len(und) + 1] = m
        /\ \A k \in 1 .. Len(new) : k \in 1 .. Len(und) \/ k = Len(und) + 1
        /\ ToSet(new) = ToSet(und) \cup {m}
    <3>1. und \in Seq(S!Step) /\ m \in S!Step
      BY <1>2, <2>2
    <3> HIDE DEF und
    <3> QED BY <3>1, Added
  <2> DEFINE new == Append(und, m)
  <2> HIDE DEF new, und, done
  <2>5. \A k \in 1 .. Len(und) : und[k] \in Nat /\ und[k] > n
    <3>1. ToSet(und) = {s \in Undoable(Len(done)) : s > n}
      BY DEF und, done
    <3>2. \A k \in 1 .. Len(und) : und[k] \in ToSet(und)
      BY <1>2, Members
    <3> QED BY <1>2, <3>1, <3>2 DEF Undoable
  <2>6. \A k, l \in 1 .. Len(new) : k < l => new[k] > new[l]
    <3> SUFFICES ASSUME NEW k \in 1 .. Len(new), NEW l \in 1 .. Len(new), k < l
                 PROVE  new[k] > new[l]
      OBVIOUS
    <3>0. k \in 1 .. Len(und)
      BY <2>4 DEF new
    <3>1. CASE l = Len(und) + 1
      <4>1. new[l] = m /\ new[k] = und[k]
        BY <2>4, <3>0, <3>1 DEF new
      <4> QED BY <1>2, <2>2, <2>5, <3>0, <4>1
    <3>2. CASE l # Len(und) + 1
      <4>1. l \in 1 .. Len(und)
        BY <2>4, <3>2 DEF new
      <4>2. und[k] > und[l]
        BY <3>0, <4>1 DEF und
      <4> QED BY <2>4, <3>0, <4>1, <4>2 DEF new
    <3> QED BY <3>1, <3>2
  <2>7. ToSet(new) = {s \in Undoable(Len(done)) : s >= m}
    <3>1. ToSet(new) = {s \in Undoable(Len(done)) : s > n} \cup {m}
      BY <2>4 DEF und, done, new
    <3>2. ASSUME NEW s \in Undoable(Len(done)) PROVE s >= m <=> s > n \/ s = m
      <4>1. s \in 1 .. Len(done) /\ s \in Compensable
        BY DEF Undoable
      <4>2. s <= n => s <= m
        <5>1. s <= n => s \in Undoable(n)
          BY <1>2, <4>1 DEF Undoable
        <5> QED BY <2>1, <5>1
      <4> QED BY <1>2, <2>2, <4>1, <4>2
    <3>3. m \in Undoable(Len(done))
      BY <2>2 DEF Undoable
    <3> QED BY <3>1, <3>2, <3>3
  <2>8. RunOK(steps, "compensating", m, done, new)
    <3>1. new \in Seq(S!Step) /\ m \in 0 .. steps + 1 /\ m \in 1 .. Len(done)
      BY <1>2, <2>2, <2>4 DEF new
    <3> QED BY <1>2, <2>6, <2>7, <3>1 DEF RunOK, SagaStates
  <2>9. undone' = [undone EXCEPT ![r] = new]
    BY <2>3 DEF new
  <2>10. SagaInv'
    BY <1>3, <2>1, <2>8, <2>9, OneRun
  <2>11. sagaState'[r] = "compensating"
    BY <1>1, <2>1 DEF SagaTypes
  <2> QED BY <2>10, <2>11
<1> QED BY <1>5, <1>6

(* Whatever a step of a run does, and what it means to return. *)
SagaStepKept(r) ==
    /\ SagaInv'
    /\ sagaState[r] # "returned" /\ sagaState'[r] = "returned" => Len(completed'[r]) = steps
    /\ \A q \in Run \ {r} : sagaState'[q] = sagaState[q]

LEMMA RunSteps ==
  ASSUME SagaInv, NEW r \in Run, S!CallRun(r) \/ S!Settles(r)
  PROVE  SagaStepKept(r)
<1> DEFINE done == completed[r]
           und == undone[r]
<1>1. SagaTypes /\ RunOK(steps, sagaState[r], sagaIndex[r], done, und)
  BY RunsOK
<1>2. /\ done \in Seq(S!Step) /\ Len(done) \in Nat /\ Len(done) <= steps /\ steps \in 0 .. SagaSteps
      /\ \A k \in 1 .. Len(done) : done[k] = k
      /\ \A k, l \in 1 .. Len(und) : k < l => und[k] > und[l]
  BY <1>1, StepsNat DEF RunOK, SagaTypes
<1>3. \A q \in Run \ {r} : sagaState'[q] = sagaState[q]
  BY <1>1 DEF S!CallRun, S!Settles, S!StepFulfils, S!StepRejects, S!CompensationSettles,
              S!AfterError, S!Compensate, S!Execute, SagaTypes
<1>4. CASE S!CallRun(r)
  <2>1. sagaState[r] = "idle" /\ S!Execute(r, 1) /\ UNCHANGED <<steps, completed, cause, undone>>
    BY <1>4 DEF S!CallRun
  <2>2. done = <<>> /\ und = <<>> /\ Len(done) + 1 = 1
    BY <1>1, <2>1 DEF RunOK
  <2>3. completed' = [completed EXCEPT ![r] = done] /\ S!Execute(r, Len(done) + 1)
    BY <1>1, <2>1, <2>2 DEF SagaTypes
  <2> HIDE DEF done
  <2> QED BY <1>2, <1>3, <2>1, <2>2, <2>3, ExecuteStep DEF SagaStepKept
<1>5. CASE S!StepFulfils(r)
  <2> DEFINE new == Append(done, sagaIndex[r])
  <2>1. /\ sagaState[r] = "executing" /\ completed' = [completed EXCEPT ![r] = new]
        /\ S!Execute(r, sagaIndex[r] + 1) /\ UNCHANGED <<steps, cause, undone>>
    BY <1>5 DEF S!StepFulfils, S!Pushed
  <2>2. sagaIndex[r] = Len(done) + 1 /\ sagaIndex[r] <= steps /\ und = <<>>
    BY <1>1, <2>1 DEF RunOK
  <2>3. sagaIndex[r] \in S!Step
    BY <1>2, <2>2, StepsNat
  <2>4. /\ new \in Seq(S!Step) /\ Len(new) = Len(done) + 1
        /\ \A k \in 1 .. Len(done) : new[k] = done[k]
        /\ new[Len(done) + 1] = sagaIndex[r]
        /\ \A k \in 1 .. Len(new) : k \in 1 .. Len(done) \/ k = Len(done) + 1
    BY <1>2, <2>3, Added
  <2> HIDE DEF new, done
  <2>5. \A k \in 1 .. Len(new) : new[k] = k
    BY <1>2, <2>2, <2>4
  <2>6. Len(new) <= steps /\ S!Execute(r, Len(new) + 1)
    BY <2>1, <2>2, <2>4
  <2> QED BY <1>3, <2>1, <2>2, <2>4, <2>5, <2>6, ExecuteStep DEF SagaStepKept
<1>6. CASE S!StepRejects(r)
  <2>1. PICK reason \in {"error", "undefined"} :
          /\ cause' = [cause EXCEPT ![r] = reason]
          /\ S!Compensate(r, Len(done), reason)
    BY <1>6 DEF S!StepRejects
  <2>2. sagaState[r] = "executing" /\ UNCHANGED <<steps, completed>>
    BY <1>6 DEF S!StepRejects
  <2>3. und = <<>>
    BY <1>1, <2>2 DEF RunOK
  <2>4. ToSet(und) = {s \in Undoable(Len(done)) : s > Len(done)}
    <3>1. ToSet(und) = {}
      BY <2>3 DEF ToSet
    <3>2. \A s \in Undoable(Len(done)) : ~ s > Len(done)
      BY <1>2 DEF Undoable
    <3> QED BY <3>1, <3>2
  <2>5. cause' \in [Run -> {"none", "error", "undefined"}] /\ Len(done) \in 0 .. Len(done)
    BY <1>1, <1>2, <2>1 DEF SagaTypes
  <2> QED BY <1>2, <1>3, <2>1, <2>2, <2>4, <2>5, CompensateStep DEF SagaStepKept
<1>7. CASE S!CompensationSettles(r)
  <2>1. /\ sagaState[r] = "compensating" /\ S!Compensate(r, sagaIndex[r] - 1, cause[r])
        /\ UNCHANGED <<steps, completed, cause>>
    BY <1>7 DEF S!CompensationSettles, S!AfterError
  <2>2. sagaIndex[r] \in 1 .. Len(done) /\ ToSet(und) = {s \in Undoable(Len(done)) : s >= sagaIndex[r]}
    BY <1>1, <2>1 DEF RunOK
  <2>3. ToSet(und) = {s \in Undoable(Len(done)) : s > sagaIndex[r] - 1}
    <3>1. \A s \in Undoable(Len(done)) : s >= sagaIndex[r] <=> s > sagaIndex[r] - 1
      BY <1>2, <2>2 DEF Undoable
    <3> QED BY <2>2, <3>1
  <2>4. sagaIndex[r] - 1 \in 0 .. Len(done) /\ cause' \in [Run -> {"none", "error", "undefined"}]
    BY <1>1, <1>2, <2>1, <2>2 DEF SagaTypes
  <2> QED BY <1>2, <1>3, <2>1, <2>3, <2>4, CompensateStep DEF SagaStepKept
<1> QED BY <1>4, <1>5, <1>6, <1>7 DEF S!Settles

LEMMA AddStepStep == ASSUME SagaInv, S!AddStep PROVE SagaInv' /\ UNCHANGED sagaState
<1>1. SagaTypes /\ \A q \in Run : RunOK(steps, sagaState[q], sagaIndex[q], completed[q], undone[q])
  BY RunsOK
<1>2. /\ steps < SagaSteps /\ steps' = steps + 1
      /\ UNCHANGED <<sagaState, sagaIndex, completed, cause, undone>>
  BY DEF S!AddStep
<1>3. SagaTypes'
  BY <1>1, <1>2, StepsNat DEF SagaTypes
<1>4. ASSUME NEW q \in Run
      PROVE  RunOK(steps', sagaState'[q], sagaIndex'[q], completed'[q], undone'[q])
  <2>1. steps \in Nat /\ RunOK(steps, sagaState[q], sagaIndex[q], completed[q], undone[q])
    BY <1>1, StepsNat DEF SagaTypes
  <2>2. Len(completed[q]) \in Nat
    BY <1>1 DEF SagaTypes
  <2> QED BY <1>2, <2>1, <2>2 DEF RunOK
<1> QED BY <1>2, <1>3, <1>4, OKRuns

LEMMA NextSagaInv == SagaInv /\ [S!Next]_sagaVars => SagaInv'
<1>1. SagaInv /\ S!Next => SagaInv'
  BY AddStepStep, RunSteps DEF S!Next, SagaStepKept
<1>2. SagaInv /\ UNCHANGED sagaVars => SagaInv'
  BY DEF SagaInv, sagaVars, S!TypeOK, S!LoopTrue, S!UndoneInReverse, S!ToUndo, S!Threw
<1> QED BY <1>1, <1>2

LEMMA SagaKeptStep ==
  ASSUME SagaInv, S!Next
  PROVE  \A r \in Run : sagaState[r] # "returned" /\ sagaState'[r] = "returned"
           => Len(completed'[r]) = steps
<1>1. CASE S!AddStep
  BY <1>1, AddStepStep
<1>2. ASSUME NEW q \in Run, S!CallRun(q) \/ S!Settles(q)
      PROVE  \A r \in Run : sagaState[r] # "returned" /\ sagaState'[r] = "returned"
               => Len(completed'[r]) = steps
  BY <1>2, RunSteps DEF SagaStepKept
<1> QED BY <1>1, <1>2 DEF S!Next

-----------------------------------------------------------------------------
(***************************************************************************)
(* LruCache.  Every operation thins the Map out and may append an entry,   *)
(* of a key that is not in it and is used at that moment.                  *)
(***************************************************************************)
LruInv == C!TypeOK /\ C!RecencyOrder

CacheKeys == CacheKey \cup {undefined}
Entries   == [key : CacheKeys, setAt : 0 .. LruTime]

KeysOf(s)  == {s[n].key : n \in 1 .. Len(s)}
OneEach(s) == \A m, n \in 1 .. Len(s) : m # n => s[m].key # s[n].key
NoTwice(u) == \A m, n \in 1 .. Len(u) : m # n => u[m] # u[n]

Recent(s, u) ==
    /\ KeysOf(s) \subseteq ToSet(u)
    /\ \A i, j \in 1 .. Len(s) : i < j =>
         \A m, n \in 1 .. Len(u) : u[m] = s[i].key /\ u[n] = s[j].key => m < n

Thinned(s, t) ==
    \E f \in [1 .. Len(t) -> 1 .. Len(s)] :
        /\ \A n \in 1 .. Len(t) : t[n] = s[f[n]]
        /\ \A m, n \in 1 .. Len(t) : m < n => f[m] < f[n]

LEMMA ThinnedKeeps ==
  ASSUME NEW s \in Seq(Entries), NEW t \in Seq(Entries), NEW u, Thinned(s, t), OneEach(s),
         Recent(s, u)
  PROVE  OneEach(t) /\ KeysOf(t) \subseteq KeysOf(s) /\ Recent(t, u)
<1>1. PICK f \in [1 .. Len(t) -> 1 .. Len(s)] :
        /\ \A n \in 1 .. Len(t) : t[n] = s[f[n]]
        /\ \A m, n \in 1 .. Len(t) : m < n => f[m] < f[n]
  BY DEF Thinned
<1>2. Len(s) \in Nat /\ Len(t) \in Nat /\ \A n \in 1 .. Len(t) : f[n] \in 1 .. Len(s)
  BY <1>1
<1>3. OneEach(t)
  <2>1. ASSUME NEW m \in 1 .. Len(t), NEW n \in 1 .. Len(t), m # n
        PROVE  f[m] # f[n]
    <3>1. m < n \/ n < m
      BY <1>2, <2>1
    <3> QED BY <1>1, <1>2, <3>1
  <2> QED BY <1>1, <1>2, <2>1 DEF OneEach
<1>4. KeysOf(t) \subseteq KeysOf(s)
  BY <1>1, <1>2 DEF KeysOf
<1>5. ASSUME NEW i \in 1 .. Len(t), NEW j \in 1 .. Len(t), i < j,
             NEW m \in 1 .. Len(u), NEW n \in 1 .. Len(u), u[m] = t[i].key, u[n] = t[j].key
      PROVE  m < n
  <2>1. f[i] < f[j] /\ t[i] = s[f[i]] /\ t[j] = s[f[j]]
    BY <1>1, <1>5
  <2> QED BY <1>2, <1>5, <2>1 DEF Recent
<1> QED BY <1>3, <1>4, <1>5 DEF Recent

LEMMA RemovedThinned ==
  ASSUME NEW s \in Seq(Entries), NEW i \in 1 .. Len(s), OneEach(s)
  PROVE  LET t == RemoveAt(s, i) IN
         /\ t \in Seq(Entries) /\ Len(t) = Len(s) - 1 /\ Len(s) \in Nat
         /\ Thinned(s, t) /\ KeysOf(t) = KeysOf(s) \ {s[i].key}
<1> DEFINE t == RemoveAt(s, i)
           f == [n \in 1 .. Len(t) |-> IF n < i THEN n ELSE n + 1]
<1>1. /\ t \in Seq(Entries) /\ Len(t) = Len(s) - 1 /\ Len(s) \in Nat /\ i \in Nat
      /\ \A n \in 1 .. Len(t) : t[n] = s[IF n < i THEN n ELSE n + 1]
  BY Removed
<1> HIDE DEF t
<1>2. \A n \in 1 .. Len(t) : f[n] \in 1 .. Len(s) /\ f[n] # i /\ t[n] = s[f[n]]
  BY <1>1
<1>3. \A m, n \in 1 .. Len(t) : m < n => f[m] < f[n]
  BY <1>1
<1>4. \A k \in 1 .. Len(s) : k # i => \E n \in 1 .. Len(t) : f[n] = k
  <2> SUFFICES ASSUME NEW k \in 1 .. Len(s), k # i PROVE \E n \in 1 .. Len(t) : f[n] = k
    OBVIOUS
  <2>1. CASE k < i
    <3>1. k \in 1 .. Len(t) /\ f[k] = k
      BY <1>1, <2>1
    <3> QED BY <3>1
  <2>2. CASE k > i
    <3>1. k - 1 \in 1 .. Len(t) /\ f[k - 1] = k
      BY <1>1, <2>2
    <3> QED BY <3>1
  <2> QED BY <1>1, <2>1, <2>2
<1>5. f \in [1 .. Len(t) -> 1 .. Len(s)]
  BY <1>1
<1> HIDE DEF f
<1>6. Thinned(s, t)
  BY <1>2, <1>3, <1>5 DEF Thinned
<1>7. ASSUME NEW k PROVE k \in KeysOf(t) <=> k \in KeysOf(s) \ {s[i].key}
  <2>1. ASSUME NEW n \in 1 .. Len(t) PROVE t[n].key \in KeysOf(s) \ {s[i].key}
    BY <1>2 DEF KeysOf, OneEach
  <2>2. ASSUME NEW m \in 1 .. Len(s), m # i PROVE s[m].key \in KeysOf(t)
    <3>1. PICK n \in 1 .. Len(t) : f[n] = m
      BY <1>4, <2>2
    <3> QED BY <1>2, <3>1 DEF KeysOf
  <2> QED BY <2>1, <2>2 DEF KeysOf
<1>8. KeysOf(t) = KeysOf(s) \ {s[i].key}
  BY <1>7
<1> QED BY <1>1, <1>6, <1>8 DEF t

LEMMA TailRemoved ==
  ASSUME NEW T, NEW s \in Seq(T), s # <<>>
  PROVE  Tail(s) = RemoveAt(s, 1) /\ 1 \in 1 .. Len(s) /\ Head(s) = s[1]
<1>1. Len(s) \in Nat \ {0}
  OBVIOUS
<1>2. SubSeq(s, 1, 1 - 1) = <<>> /\ SubSeq(s, 1 + 1, Len(s)) = Tail(s) /\ Tail(s) \in Seq(T)
  BY <1>1
<1>3. <<>> \o Tail(s) = Tail(s)
  BY <1>2
<1> QED BY <1>1, <1>2, <1>3 DEF RemoveAt

LEMMA FilteredThinned ==
  ASSUME NEW s \in Seq(Entries), NEW P \in SUBSET (1 .. Len(s))
  PROVE  LET t == Filtered(s, P) IN
         /\ t \in Seq(Entries) /\ Len(t) <= Len(s) /\ Len(t) \in Nat /\ Len(s) \in Nat
         /\ Thinned(s, t)
         /\ \A i \in P : s[i].key \in KeysOf(t)
<1> DEFINE t == Filtered(s, P)
           f == [n \in 1 .. Len(t) |-> Nth(P, n)]
<1>1. /\ t \in Seq(Entries) /\ Len(t) = Cardinality(P) /\ Len(t) \in Nat
      /\ \A n \in 1 .. Len(t) : Nth(P, n) \in P /\ t[n] = s[Nth(P, n)]
      /\ \A m, n \in 1 .. Len(t) : m < n => Nth(P, m) < Nth(P, n)
      /\ \A i \in P : \E n \in 1 .. Len(t) : Nth(P, n) = i
  BY FilteredElements
<1>2. Len(t) <= Len(s) /\ Len(s) \in Nat
  <2>1. Len(s) \in Nat
    OBVIOUS
  <2>2. IsFiniteSet(1 .. Len(s)) /\ Cardinality(1 .. Len(s)) = Len(s)
    <3>1. Cardinality(1 .. Len(s)) = IF 1 > Len(s) THEN 0 ELSE Len(s) - 1 + 1
      BY <2>1, FS_Interval
    <3> QED BY <2>1, <3>1, FS_Interval
  <2> QED BY <1>1, <2>1, <2>2, FS_Subset
<1> HIDE DEF t
<1>3. f \in [1 .. Len(t) -> 1 .. Len(s)] /\ \A n \in 1 .. Len(t) : f[n] = Nth(P, n)
  BY <1>1
<1>4. Thinned(s, t)
  <2> HIDE DEF f
  <2> QED BY <1>1, <1>3 DEF Thinned
<1>5. \A i \in P : s[i].key \in KeysOf(t)
  <2> TAKE i \in P
  <2>1. PICK n \in 1 .. Len(t) : Nth(P, n) = i
    BY <1>1
  <2> QED BY <1>1, <2>1 DEF KeysOf
<1> QED BY <1>1, <1>2, <1>4, <1>5 DEF t

(* A key is appended to the Map and used. *)
LEMMA UsedLast ==
  ASSUME NEW t \in Seq(Entries), NEW v \in Seq(CacheKeys), NEW e \in Entries,
         OneEach(t), NoTwice(v), Recent(t, v),
         e.key \notin KeysOf(t), e.key \notin ToSet(v)
  PROVE  LET s == Append(t, e)
             w == Append(v, e.key)
         IN  /\ s \in Seq(Entries) /\ Len(s) = Len(t) + 1 /\ OneEach(s)
             /\ KeysOf(s) = KeysOf(t) \cup {e.key}
             /\ w \in Seq(CacheKeys) /\ NoTwice(w) /\ Recent(s, w)
<1> DEFINE s == Append(t, e)
           k == e.key
           w == Append(v, k)
<1>0. k \in CacheKeys
  BY DEF Entries
<1>1. /\ s \in Seq(Entries) /\ Len(s) = Len(t) + 1 /\ Len(t) \in Nat
      /\ \A n \in 1 .. Len(t) : s[n] = t[n]
      /\ s[Len(t) + 1] = e
      /\ \A n \in 1 .. Len(s) : n \in 1 .. Len(t) \/ n = Len(t) + 1
  BY Added
<1>2. /\ w \in Seq(CacheKeys) /\ Len(w) = Len(v) + 1 /\ Len(v) \in Nat
      /\ \A n \in 1 .. Len(v) : w[n] = v[n]
      /\ w[Len(v) + 1] = k
      /\ \A n \in 1 .. Len(w) : n \in 1 .. Len(v) \/ n = Len(v) + 1
      /\ ToSet(w) = ToSet(v) \cup {k}
  <2> HIDE DEF k
  <2> QED BY <1>0, Added
<1> HIDE DEF s, w
<1>3. \A n \in 1 .. Len(t) : n \in 1 .. Len(s) /\ t[n].key \in KeysOf(t) /\ t[n].key # k
  BY <1>1 DEF KeysOf
<1>4. \A n \in 1 .. Len(v) : n \in 1 .. Len(w) /\ v[n] # k
  <2>1. \A n \in 1 .. Len(v) : v[n] \in ToSet(v)
    BY Members
  <2> QED BY <1>2, <2>1
<1>5. Len(t) + 1 \in 1 .. Len(s)
  BY <1>1
<1>6. OneEach(s)
  <2> SUFFICES ASSUME NEW m \in 1 .. Len(s), NEW n \in 1 .. Len(s), m # n
               PROVE  s[m].key # s[n].key
    BY DEF OneEach
  <2>1. CASE m \in 1 .. Len(t) /\ n \in 1 .. Len(t)
    BY <1>1, <2>1 DEF OneEach
  <2>2. CASE m = Len(t) + 1
    BY <1>1, <1>3, <2>2
  <2>3. CASE n = Len(t) + 1
    BY <1>1, <1>3, <2>3
  <2> QED BY <1>1, <2>1, <2>2, <2>3
<1>7. NoTwice(w)
  <2> SUFFICES ASSUME NEW m \in 1 .. Len(w), NEW n \in 1 .. Len(w), m # n
               PROVE  w[m] # w[n]
    BY DEF NoTwice
  <2>1. CASE m \in 1 .. Len(v) /\ n \in 1 .. Len(v)
    BY <1>2, <2>1 DEF NoTwice
  <2>2. CASE m = Len(v) + 1
    BY <1>2, <1>4, <2>2
  <2>3. CASE n = Len(v) + 1
    BY <1>2, <1>4, <2>3
  <2> QED BY <1>2, <2>1, <2>2, <2>3
<1>8. KeysOf(s) = KeysOf(t) \cup {k}
  <2>1. ASSUME NEW x PROVE x \in KeysOf(s) <=> x \in KeysOf(t) \cup {k}
    <3>1. ASSUME NEW n \in 1 .. Len(s) PROVE s[n].key \in KeysOf(t) \cup {k}
      BY <1>1, <1>3
    <3>2. ASSUME NEW n \in 1 .. Len(t) PROVE t[n].key \in KeysOf(s)
      BY <1>1, <1>3 DEF KeysOf
    <3>3. k \in KeysOf(s)
      BY <1>1, <1>5 DEF KeysOf
    <3> QED BY <3>1, <3>2, <3>3 DEF KeysOf
  <2> QED BY <2>1
<1>9. Recent(s, w)
  <2>1. KeysOf(s) \subseteq ToSet(w)
    BY <1>2, <1>8 DEF Recent
  <2>2. ASSUME NEW i \in 1 .. Len(s), NEW j \in 1 .. Len(s), i < j,
               NEW m \in 1 .. Len(w), NEW n \in 1 .. Len(w),
               w[m] = s[i].key, w[n] = s[j].key
        PROVE  m < n
    <3>1. i \in 1 .. Len(t) /\ s[i] = t[i] /\ w[m] # k
      BY <1>1, <1>3, <2>2
    <3>2. m \in 1 .. Len(v) /\ w[m] = v[m]
      BY <1>2, <3>1
    <3>3. CASE j = Len(t) + 1
      <4>1. n = Len(v) + 1
        BY <1>1, <1>2, <1>4, <2>2, <3>3
      <4> QED BY <1>2, <3>2, <4>1
    <3>4. CASE j \in 1 .. Len(t)
      <4>1. s[j] = t[j] /\ w[n] # k
        BY <1>1, <1>3, <2>2, <3>4
      <4>2. n \in 1 .. Len(v) /\ w[n] = v[n]
        BY <1>2, <4>1
      <4> QED BY <2>2, <3>1, <3>2, <3>4, <4>1, <4>2 DEF Recent
    <3> QED BY <1>1, <3>3, <3>4
  <2> QED BY <2>1, <2>2 DEF Recent
<1> QED BY <1>1, <1>2, <1>6, <1>7, <1>8, <1>9 DEF s, w

(* Taking a key that is not in the Map out of those used keeps the order.  *)
LEMMA Forgotten ==
  ASSUME NEW t, NEW u \in Seq(CacheKeys), NEW m \in 1 .. Len(u), NoTwice(u), Recent(t, u),
         u[m] \notin KeysOf(t)
  PROVE  LET v == RemoveAt(u, m) IN
         v \in Seq(CacheKeys) /\ NoTwice(v) /\ u[m] \notin ToSet(v) /\ Recent(t, v)
<1> DEFINE v == RemoveAt(u, m)
           at(n) == IF n < m THEN n ELSE n + 1
<1>1. /\ v \in Seq(CacheKeys) /\ Len(v) = Len(u) - 1 /\ Len(u) \in Nat /\ m \in Nat
      /\ \A n \in 1 .. Len(v) : v[n] = u[at(n)]
  BY Removed
<1>2. (\A i, j \in 1 .. Len(v) : i # j => v[i] # v[j]) /\ ToSet(v) = ToSet(u) \ {u[m]}
  BY RemovedInjective DEF NoTwice
<1> HIDE DEF v
<1>3. KeysOf(t) \subseteq ToSet(v)
  BY <1>2 DEF Recent
<1>4. ASSUME NEW i \in 1 .. Len(t), NEW j \in 1 .. Len(t), i < j,
             NEW k \in 1 .. Len(v), NEW n \in 1 .. Len(v), v[k] = t[i].key, v[n] = t[j].key
      PROVE  k < n
  <2>1. at(k) \in 1 .. Len(u) /\ at(n) \in 1 .. Len(u)
    BY <1>1
  <2>2. u[at(k)] = t[i].key /\ u[at(n)] = t[j].key
    BY <1>1, <1>4
  <2> HIDE DEF at
  <2>3. at(k) < at(n)
    BY <1>4, <2>1, <2>2 DEF Recent
  <2> QED BY <1>1, <2>3 DEF at
<1> QED BY <1>1, <1>2, <1>3, <1>4 DEF Recent, NoTwice, v

LEMMA LruTypes ==
  ASSUME LruInv
  PROVE  /\ store \in Seq(Entries) /\ OneEach(store) /\ lruNow \in 0 .. LruTime
         /\ used \in Seq(CacheKeys) /\ NoTwice(used) /\ gone \subseteq CacheKeys
         /\ Recent(store, used) /\ Len(store) \in Nat
<1>1. /\ store \in Seq(Entries) /\ OneEach(store) /\ lruNow \in 0 .. LruTime
      /\ used \in Seq(CacheKeys) /\ NoTwice(used) /\ gone \subseteq CacheKeys
  BY DEF LruInv, C!TypeOK, Entries, CacheKeys, OneEach, NoTwice
<1>2. Recent(store, used)
  BY SameSequences DEF LruInv, C!RecencyOrder, Recent, C!Keys, KeysOf
<1> QED BY <1>1, <1>2

LEMMA LruFrom ==
  ASSUME store' \in Seq(Entries), OneEach(store'), lruNow' \in 0 .. LruTime,
         used' \in Seq(CacheKeys), NoTwice(used'), gone' \subseteq CacheKeys,
         Recent(store', used')
  PROVE  LruInv'
<1>1. C!TypeOK'
  BY DEF C!TypeOK, Entries, CacheKeys, OneEach, NoTwice
<1>2. C!RecencyOrder'
  BY SameSequences DEF C!RecencyOrder, Recent, C!Keys, KeysOf
<1> QED BY <1>1, <1>2 DEF LruInv

LEMMA InitLruInv == C!Init => LruInv
<1> SUFFICES ASSUME C!Init PROVE LruInv
  OBVIOUS
<1>1. store = <<>> /\ lruNow = 0 /\ used = <<>> /\ gone = {}
  BY DEF C!Init
<1>2. LruTime \in Nat
  BY MemoryAssumption DEF C!TimeAssumption
<1>3. C!TypeOK
  BY <1>1, <1>2 DEF C!TypeOK
<1>4. C!RecencyOrder
  <2>1. C!Keys(store) = {}
    BY <1>1 DEF C!Keys
  <2> QED BY <1>1, <2>1 DEF C!RecencyOrder
<1> QED BY <1>3, <1>4 DEF LruInv

(* What Without() leaves, and what Entry() is. *)
LEMMA WithoutKey ==
  ASSUME LruInv, NEW k, k \in KeysOf(store)
  PROVE  LET t == C!Without(k) IN
         /\ C!Position(k) \in 1 .. Len(store)
         /\ C!Entry(k) \in Entries /\ C!Entry(k).key = k /\ k \in CacheKeys
         /\ C!Entry(k) = store[C!Position(k)]
         /\ t \in Seq(Entries) /\ Len(t) = Len(store) - 1
         /\ OneEach(t) /\ Recent(t, used) /\ KeysOf(t) = KeysOf(store) \ {k}
<1>1. C!Position(k) \in 1 .. Len(store) /\ store[C!Position(k)].key = k
  BY DEF KeysOf, C!Position
<1>2. /\ C!Entry(k) \in Entries /\ C!Entry(k).key = k /\ k \in CacheKeys
      /\ C!Entry(k) = store[C!Position(k)]
  <2>1. C!Entry(k) = store[C!Position(k)]
    BY DEF C!Entry
  <2>2. C!Entry(k) \in Entries
    BY <1>1, <2>1, LruTypes
  <2> QED BY <1>1, <2>1, <2>2 DEF Entries
<1>3. C!Without(k) = RemoveAt(store, C!Position(k))
  BY SameSequences DEF C!Without
<1> DEFINE p == C!Position(k)
           t == RemoveAt(store, p)
<1> HIDE DEF p
<1>4. store \in Seq(Entries) /\ OneEach(store) /\ Recent(store, used) /\ p \in 1 .. Len(store)
  BY <1>1, LruTypes DEF p
<1>5. /\ t \in Seq(Entries) /\ Len(t) = Len(store) - 1
      /\ Thinned(store, t) /\ KeysOf(t) = KeysOf(store) \ {store[p].key}
  BY <1>4, RemovedThinned
<1> HIDE DEF t
<1>6. OneEach(t) /\ Recent(t, used)
  BY <1>4, <1>5, ThinnedKeeps
<1>7. C!Without(k) = t /\ store[p].key = k
  BY <1>1, <1>3 DEF p, t
<1> QED BY <1>1, <1>2, <1>5, <1>6, <1>7

(* What MakeRoom leaves: all, unless the cache is full. *)
LEMMA RoomMade ==
  ASSUME LruInv
  PROVE  LET t == C!MakeRoom IN
         /\ t \in Seq(Entries) /\ OneEach(t) /\ Recent(t, used)
         /\ \/ t = store /\ (Len(store) < MaxSize \/ Head(store).key = undefined)
            \/ /\ Len(store) >= MaxSize /\ Len(t) = Len(store) - 1
               /\ KeysOf(t) = KeysOf(store) \ {Head(store).key}
<1>1. MaxSize \in Nat \ {0} /\ Len(store) \in Nat
  BY MemoryAssumption, LruTypes DEF C!MaxSizeAssumption
<1>2. CASE Len(store) >= MaxSize /\ Head(store).key # undefined
  <2>1. store \in Seq(Entries) /\ OneEach(store) /\ Recent(store, used) /\ store # <<>>
    BY <1>1, <1>2, LruTypes
  <2>2. Tail(store) = RemoveAt(store, 1) /\ 1 \in 1 .. Len(store) /\ Head(store) = store[1]
    BY <2>1, TailRemoved
  <2> DEFINE t == RemoveAt(store, 1)
  <2>3. /\ t \in Seq(Entries) /\ Len(t) = Len(store) - 1
        /\ Thinned(store, t) /\ KeysOf(t) = KeysOf(store) \ {store[1].key}
    BY <2>1, <2>2, RemovedThinned
  <2>4. C!MakeRoom = t
    BY <1>2, <2>2 DEF C!MakeRoom
  <2> HIDE DEF t
  <2>5. OneEach(t) /\ Recent(t, used)
    BY <2>1, <2>3, ThinnedKeeps
  <2> QED BY <1>2, <2>2, <2>3, <2>4, <2>5
<1>3. CASE ~ (Len(store) >= MaxSize /\ Head(store).key # undefined)
  <2>1. C!MakeRoom = store
    BY <1>3 DEF C!MakeRoom
  <2>2. Len(store) < MaxSize \/ Head(store).key = undefined
    BY <1>1, <1>3
  <2> QED BY <2>1, <2>2, LruTypes
<1> QED BY <1>2, <1>3

(* An entry whose key is not in the Map is appended, and its key used.     *)
LEMMA UseStep ==
  ASSUME LruInv, NEW t \in Seq(Entries), OneEach(t), Recent(t, used),
         NEW e \in Entries, e.key \notin KeysOf(t),
         store' = Append(t, e), C!Use(e.key), gone' \subseteq CacheKeys, UNCHANGED lruNow
  PROVE  LruInv' /\ KeysOf(store') = KeysOf(t) \cup {e.key} /\ Len(store') = Len(t) + 1
<1> DEFINE k == e.key
<1>1. used \in Seq(CacheKeys) /\ NoTwice(used) /\ lruNow \in 0 .. LruTime
  BY LruTypes
<1>2. \E v \in Seq(CacheKeys) :
        used' = Append(v, k) /\ NoTwice(v) /\ k \notin ToSet(v) /\ Recent(t, v)
  <2>1. CASE k \in ToSet(used)
    <3> DEFINE m == C!Used(k)
    <3>1. m \in 1 .. Len(used) /\ used[m] = k
      <4>1. \E n \in 1 .. Len(used) : used[n] = k
        BY <1>1, <2>1, Members
      <4> HIDE DEF k
      <4> QED BY <4>1 DEF C!Used
    <3>2. used' = Append(RemoveAt(used, m), k)
      BY <2>1, SameSequences DEF C!Use
    <3> HIDE DEF m, k
    <3>3. k \notin KeysOf(t)
      BY DEF k
    <3>4. LET v == RemoveAt(used, m) IN
          v \in Seq(CacheKeys) /\ NoTwice(v) /\ used[m] \notin ToSet(v) /\ Recent(t, v)
      BY <1>1, <3>1, <3>3, Forgotten
    <3> QED BY <3>1, <3>2, <3>4
  <2>2. CASE k \notin ToSet(used)
    <3>1. used' = Append(used, k)
      BY <2>2, SameSequences DEF C!Use
    <3> QED BY <1>1, <2>2, <3>1
  <2> QED BY <2>1, <2>2
<1>3. PICK v \in Seq(CacheKeys) :
        used' = Append(v, k) /\ NoTwice(v) /\ k \notin ToSet(v) /\ Recent(t, v)
  BY <1>2
<1>4. LET s == Append(t, e)
          w == Append(v, e.key)
      IN  /\ s \in Seq(Entries) /\ Len(s) = Len(t) + 1 /\ OneEach(s)
          /\ KeysOf(s) = KeysOf(t) \cup {e.key}
          /\ w \in Seq(CacheKeys) /\ NoTwice(w) /\ Recent(s, w)
  BY <1>3, UsedLast
<1>5. /\ store' \in Seq(Entries) /\ OneEach(store') /\ used' \in Seq(CacheKeys)
      /\ NoTwice(used') /\ Recent(store', used')
      /\ KeysOf(store') = KeysOf(t) \cup {e.key} /\ Len(store') = Len(t) + 1
  BY <1>3, <1>4
<1> QED BY <1>1, <1>5, LruFrom

(* What a step may take out of the cache, and when it may let it grow.     *)
EvictsFairly ==
    /\ \A k \in KeysOf(store) : k \notin KeysOf(store') /\ k \notin gone'
         => \/ C!Expired(C!Entry(k))
            \/ /\ Len(store) >= MaxSize
               /\ k = Head(store).key
               /\ KeysOf(store') \ KeysOf(store) # {}
    /\ Len(store') > Len(store) =>
         Len(store) < MaxSize \/ Head(store).key = undefined

LEMMA SameKeys == \A s : C!Keys(s) = KeysOf(s)
BY DEF C!Keys, KeysOf

(* An entry is removed because it has expired, or for good by delete().    *)
LEMMA WithoutStep ==
  ASSUME LruInv, NEW k, k \in KeysOf(store), store' = C!Without(k),
         UNCHANGED <<used, lruNow>>, gone' \subseteq CacheKeys,
         C!Expired(C!Entry(k)) \/ k \in gone'
  PROVE  LruInv' /\ EvictsFairly
<1>1. /\ store' \in Seq(Entries) /\ Len(store') = Len(store) - 1 /\ Len(store) \in Nat
      /\ OneEach(store') /\ Recent(store', used') /\ KeysOf(store') = KeysOf(store) \ {k}
  BY WithoutKey, LruTypes
<1>2. LruInv'
  BY <1>1, LruTypes, LruFrom
<1>3. EvictsFairly
  BY <1>1 DEF EvictsFairly
<1> QED BY <1>2, <1>3

LEMMA GetStep ==
  ASSUME LruInv, NEW k, C!Get(k)
  PROVE  LruInv' /\ EvictsFairly
<1>1. k \in KeysOf(store) /\ UNCHANGED <<lruNow, gone>> /\ gone' \subseteq CacheKeys
  BY SameKeys, LruTypes DEF C!Get
<1>2. CASE C!Expired(C!Entry(k)) /\ store' = C!Without(k) /\ UNCHANGED used
  BY <1>1, <1>2, WithoutStep
<1>3. CASE store' = C!ToTheEnd(k) /\ C!Use(k)
  <2> DEFINE t == C!Without(k)
             e == C!Entry(k)
  <2>1. /\ t \in Seq(Entries) /\ Len(t) = Len(store) - 1 /\ OneEach(t) /\ Recent(t, used)
        /\ KeysOf(t) = KeysOf(store) \ {k} /\ e \in Entries /\ e.key = k
    BY <1>1, WithoutKey
  <2>2. store' = Append(t, e)
    BY <1>3 DEF C!ToTheEnd
  <2> HIDE DEF t, e
  <2>3. e.key \notin KeysOf(t) /\ C!Use(e.key)
    BY <1>3, <2>1
  <2>4. LruInv' /\ KeysOf(store') = KeysOf(t) \cup {e.key} /\ Len(store') = Len(t) + 1
    BY <1>1, <2>1, <2>2, <2>3, UseStep
  <2>5. Len(store) \in Nat
    BY LruTypes
  <2>6. KeysOf(store') = KeysOf(store) /\ Len(store') = Len(store)
    BY <1>1, <2>1, <2>4, <2>5
  <2> QED BY <2>4, <2>5, <2>6 DEF EvictsFairly
<1> QED BY <1>2, <1>3 DEF C!Get

LEMMA SetStep ==
  ASSUME LruInv, NEW k \in CacheKeys, C!Set(k)
  PROVE  LruInv' /\ EvictsFairly
<1> DEFINE e == [key |-> k, setAt |-> lruNow]
<1>1. e \in Entries /\ e.key = k /\ Len(store) \in Nat
  BY LruTypes DEF Entries
<1>2. C!Use(e.key) /\ gone' \subseteq CacheKeys /\ gone' \subseteq gone /\ UNCHANGED lruNow
  BY LruTypes DEF C!Set
<1>3. CASE k \in KeysOf(store)
  <2> DEFINE t == C!Without(k)
  <2>1. store' = Append(t, e)
    BY <1>3, SameKeys DEF C!Set
  <2>2. /\ t \in Seq(Entries) /\ Len(t) = Len(store) - 1 /\ OneEach(t) /\ Recent(t, used)
        /\ KeysOf(t) = KeysOf(store) \ {k}
    BY <1>3, WithoutKey
  <2> HIDE DEF t, e
  <2>3. e.key \notin KeysOf(t)
    BY <1>1, <2>2
  <2>4. LruInv' /\ KeysOf(store') = KeysOf(t) \cup {e.key} /\ Len(store') = Len(t) + 1
    BY <1>1, <1>2, <2>1, <2>2, <2>3, UseStep
  <2>5. KeysOf(store') = KeysOf(store) /\ Len(store') = Len(store)
    BY <1>1, <1>3, <2>2, <2>4
  <2> QED BY <1>1, <2>4, <2>5 DEF EvictsFairly
<1>4. CASE k \notin KeysOf(store)
  <2> DEFINE t == C!MakeRoom
  <2>1. store' = Append(t, e)
    BY <1>4, SameKeys DEF C!Set
  <2>2. /\ t \in Seq(Entries) /\ OneEach(t) /\ Recent(t, used)
        /\ \/ t = store /\ (Len(store) < MaxSize \/ Head(store).key = undefined)
           \/ /\ Len(store) >= MaxSize /\ Len(t) = Len(store) - 1
              /\ KeysOf(t) = KeysOf(store) \ {Head(store).key}
    BY RoomMade
  <2> HIDE DEF t, e
  <2>3. e.key \notin KeysOf(t)
    BY <1>1, <1>4, <2>2
  <2>4. LruInv' /\ KeysOf(store') = KeysOf(t) \cup {k} /\ Len(store') = Len(t) + 1
    BY <1>1, <1>2, <2>1, <2>2, <2>3, UseStep
  <2>5. k \in KeysOf(store') \ KeysOf(store)
    BY <1>4, <2>4
  <2>6. EvictsFairly
    BY <1>1, <2>2, <2>4, <2>5 DEF EvictsFairly
  <2> QED BY <2>4, <2>6
<1> QED BY <1>3, <1>4

LEMMA LruOtherSteps ==
  ASSUME LruInv
  PROVE  /\ \A k \in CacheKeys : C!Has(k) \/ C!Delete(k) => LruInv' /\ EvictsFairly
         /\ C!Clear \/ C!EvictExpired \/ C!Tick => LruInv' /\ EvictsFairly
<1>1. ASSUME NEW k \in CacheKeys, C!Has(k) PROVE LruInv' /\ EvictsFairly
  <2>1. /\ k \in KeysOf(store) /\ C!Expired(C!Entry(k)) /\ store' = C!Without(k)
        /\ UNCHANGED <<used, lruNow>> /\ gone' \subseteq CacheKeys
    BY <1>1, SameKeys, LruTypes DEF C!Has
  <2> QED BY <2>1, WithoutStep
<1>2. ASSUME NEW k \in CacheKeys, C!Delete(k) PROVE LruInv' /\ EvictsFairly
  <2>1. /\ k \in KeysOf(store) /\ store' = C!Without(k)
        /\ UNCHANGED <<used, lruNow>> /\ gone' \subseteq CacheKeys /\ k \in gone'
    BY <1>2, SameKeys, LruTypes DEF C!Delete
  <2> QED BY <2>1, WithoutStep
<1>3. CASE C!Clear
  <2>1. /\ store' = <<>> /\ gone' = gone \cup KeysOf(store) /\ UNCHANGED <<lruNow, used>>
    BY <1>3, SameKeys DEF C!Clear
  <2>2. KeysOf(store') = {} /\ Len(store') = 0 /\ store' \in Seq(Entries)
    BY <2>1 DEF KeysOf
  <2>3. KeysOf(store) \subseteq CacheKeys
    <3>1. \A n \in 1 .. Len(store) : store[n] \in Entries
      BY LruTypes
    <3> QED BY <3>1 DEF KeysOf, Entries
  <2>4. OneEach(store') /\ Recent(store', used')
    BY <2>2 DEF OneEach, Recent
  <2>5. gone' \subseteq CacheKeys
    BY <2>1, <2>3, LruTypes
  <2>6. LruInv'
    BY <2>1, <2>2, <2>4, <2>5, LruTypes, LruFrom
  <2>7. EvictsFairly
    BY <2>1, <2>2, LruTypes DEF EvictsFairly
  <2> QED BY <2>6, <2>7
<1>4. CASE C!EvictExpired
  <2> DEFINE P == {i \in 1 .. Len(store) : ~ C!Expired(store[i])}
             t == Filtered(store, P)
  <2>1. store' = t /\ UNCHANGED <<lruNow, used, gone>>
    BY <1>4, SameFilter DEF C!EvictExpired
  <2>2. store \in Seq(Entries) /\ P \in SUBSET (1 .. Len(store)) /\ OneEach(store)
    BY LruTypes
  <2> HIDE DEF P
  <2>3. /\ t \in Seq(Entries) /\ Len(t) <= Len(store) /\ Len(t) \in Nat /\ Len(store) \in Nat
        /\ Thinned(store, t) /\ \A i \in P : store[i].key \in KeysOf(t)
    BY <2>2, FilteredThinned
  <2> HIDE DEF t
  <2>4. OneEach(t) /\ Recent(t, used)
    BY <2>2, <2>3, LruTypes, ThinnedKeeps
  <2>5. LruInv'
    BY <2>1, <2>3, <2>4, LruTypes, LruFrom
  <2>6. ASSUME NEW k \in KeysOf(store), k \notin KeysOf(store') PROVE C!Expired(C!Entry(k))
    <3>1. C!Position(k) \in 1 .. Len(store) /\ C!Entry(k) = store[C!Position(k)] /\ C!Entry(k).key = k
      BY WithoutKey
    <3>2. C!Position(k) \notin P
      BY <2>1, <2>3, <2>6, <3>1
    <3> QED BY <3>1, <3>2 DEF P
  <2>7. EvictsFairly
    BY <2>1, <2>3, <2>6 DEF EvictsFairly
  <2> QED BY <2>5, <2>7
<1>5. CASE C!Tick
  <2>1. lruNow < LruTime /\ lruNow' = lruNow + 1 /\ UNCHANGED <<store, used, gone>>
    BY <1>5 DEF C!Tick
  <2>2. LruTime \in Nat /\ lruNow \in 0 .. LruTime
    BY MemoryAssumption, LruTypes DEF C!TimeAssumption
  <2>3. lruNow' \in 0 .. LruTime
    BY <2>1, <2>2
  <2>4. LruInv'
    BY <2>1, <2>3, LruTypes, LruFrom
  <2>5. EvictsFairly
    BY <2>1, LruTypes DEF EvictsFairly
  <2> QED BY <2>4, <2>5
<1> QED BY <1>1, <1>2, <1>3, <1>4, <1>5

LEMMA LruSteps == LruInv /\ C!Next => LruInv' /\ EvictsFairly
BY GetStep, SetStep, LruOtherSteps DEF C!Next, CacheKeys

LEMMA NextLruInv == LruInv /\ [C!Next]_lruVars => LruInv'
<1>1. LruInv /\ UNCHANGED lruVars => LruInv'
  BY DEF LruInv, lruVars, C!TypeOK, C!RecencyOrder, C!Keys
<1> QED BY <1>1, LruSteps

-----------------------------------------------------------------------------
(***************************************************************************)
(* CircuitBreaker.  The action properties compare counters of the code     *)
(* with histories that the code does not keep; Streaks is the relation     *)
(* between the two that every step preserves.                              *)
(***************************************************************************)
Streaks ==
    /\ state = CLOSED => failures <= bad
    /\ state = HALF_OPEN => probes <= good
    /\ state = OPEN => age = rest
    /\ state # OPEN => rest = OpenTimeout

BInv == TypeOK /\ Streaks

USE ThresholdAssumption, TimeoutAssumption DEF States, CLOSED, OPEN, HALF_OPEN

-----------------------------------------------------------------------------
(* What transition() does to the list of notices. *)
LEMMA TransitionTypes ==
  ASSUME TypeOK, NEW to \in States, Transition(to)
  PROVE  state' = to /\ notices' \in Seq(States \X States)
<1>1. CASE to = state
  BY <1>1 DEF Transition, TypeOK
<1>2. CASE to # state
  <2>1. notices' = Append(notices, <<state, to>>) /\ <<state, to>> \in States \X States
    BY <1>2 DEF Transition, Notice, TypeOK
  <2>2. notices \in Seq(States \X States)
    BY DEF TypeOK
  <2>3. Append(notices, <<state, to>>) \in Seq(States \X States)
    BY <2>1, <2>2, AppendProperties
  <2> QED BY <2>1, <2>3 DEF Transition
<1> QED BY <1>1, <1>2

LEMMA InitBInv == Init => BInv
  BY DEF Init, BInv, TypeOK, Streaks

LEMMA NextBInv == BInv /\ [Next]_vars => BInv'
<1> SUFFICES ASSUME BInv, [Next]_vars PROVE BInv'
  OBVIOUS
<1> USE DEF BInv
<1>0. AfterOpen \in States /\ CLOSED \in States /\ OPEN \in States
  BY DEF AfterOpen, TypeOK
<1>1. ASSUME NEW c \in Call, Admit(c) PROVE BInv'
  <2>1. state' = AfterOpen /\ notices' \in Seq(States \X States)
    BY <1>0, <1>1, TransitionTypes DEF Admit
  <2> QED
    BY <1>1, <2>1 DEF Admit, AfterOpen, EntersHalfOpen, TimeoutElapsed, TypeOK, Streaks
<1>2. ASSUME NEW c \in Call, Succeed(c) PROVE BInv'
  <2>1. CASE SuccessWhenClosed
    BY <1>2, <2>1
    DEF Succeed, SuccessWhenClosed, FailuresAfterSuccess, Least, TypeOK, Streaks
  <2>2. CASE SuccessWhenOpen
    BY <1>2, <2>2 DEF Succeed, SuccessWhenOpen, Least, TypeOK, Streaks
  <2>3. CASE SuccessWhenHalfOpen
    <3>1. CASE probes + 1 >= SuccessThreshold
      <4>1. state' = CLOSED /\ notices' \in Seq(States \X States)
        BY <1>0, <2>3, <3>1, TransitionTypes DEF SuccessWhenHalfOpen
      <4> QED
        BY <1>2, <2>3, <3>1, <4>1
        DEF Succeed, SuccessWhenHalfOpen, Least, TypeOK, Streaks
    <3>2. CASE ~(probes + 1 >= SuccessThreshold)
      BY <1>2, <2>3, <3>2 DEF Succeed, SuccessWhenHalfOpen, Least, TypeOK, Streaks
    <3> QED BY <3>1, <3>2
  <2> QED BY <1>2, <2>1, <2>2, <2>3 DEF Succeed
<1>3. ASSUME NEW c \in Call, Fail(c) PROVE BInv'
  <2>1. CASE FailureWhenClosed
    <3>1. CASE failures + 1 >= FailureThreshold
      <4>1. state' = OPEN /\ notices' \in Seq(States \X States)
        BY <1>0, <2>1, <3>1, TransitionTypes DEF FailureWhenClosed
      <4> QED
        BY <1>3, <2>1, <3>1, <4>1 DEF Fail, FailureWhenClosed, Least, TypeOK, Streaks
    <3>2. CASE ~(failures + 1 >= FailureThreshold)
      BY <1>3, <2>1, <3>2 DEF Fail, FailureWhenClosed, Least, TypeOK, Streaks
    <3> QED BY <3>1, <3>2
  <2>2. CASE FailureWhenOpen
    BY <1>3, <2>2 DEF Fail, FailureWhenOpen, Least, TypeOK, Streaks
  <2>3. CASE FailureWhenHalfOpen
    <3>1. state' = OPEN /\ notices' \in Seq(States \X States)
      BY <1>0, <2>3, TransitionTypes DEF FailureWhenHalfOpen
    <3> QED
      BY <1>3, <2>3, <3>1
      DEF Fail, FailureWhenHalfOpen, AgeAfterProbeFailed, ProbesAfterProbeFailed,
          Least, TypeOK, Streaks
  <2> QED BY <1>3, <2>1, <2>2, <2>3 DEF Fail
<1>4. CASE QueryState
  <2>1. state' = AfterOpen /\ notices' \in Seq(States \X States)
    BY <1>0, <1>4, TransitionTypes DEF QueryState
  <2> QED
    BY <1>4, <2>1
    DEF QueryState, AfterOpen, EntersHalfOpen, TimeoutElapsed, TypeOK, Streaks
<1>5. CASE Reset
  <2>1. state' = CLOSED /\ notices' \in Seq(States \X States)
    BY <1>0, <1>5, TransitionTypes DEF Reset
  <2> QED
    BY <1>5, <2>1 DEF Reset, TypeOK, Streaks
<1>6. CASE Deliver
  <2>1. Head(notices) \in States \X States /\ Tail(notices) \in Seq(States \X States)
    BY <1>6, HeadTailProperties DEF Deliver, TypeOK
  <2> QED BY <1>6, <2>1 DEF Deliver, TypeOK, Streaks
<1>7. CASE Tick
  BY <1>7 DEF Tick, Least, TypeOK, Streaks
<1>8. CASE UNCHANGED vars
  BY <1>8 DEF vars, TypeOK, Streaks
<1> QED BY <1>1, <1>2, <1>3, <1>4, <1>5, <1>6, <1>7, <1>8 DEF Next

(* Types, counter bounds, and the streaks behind the counters.             *)
LEMMA BInvariance == Spec => []BInv
  BY InitBInv, NextBInv, PTL DEF Spec

(* Every variable keeps its type; a counter at its threshold has acted.    *)
THEOREM TypeCorrect == Spec => []TypeOK
  BY BInvariance, PTL DEF BInv

-----------------------------------------------------------------------------
(* The closed breaker opens only on FailureThreshold failures in a row.    *)
THEOREM TripStreak == Spec => TripsOnStreak
<1>1. ASSUME BInv, Next, state = CLOSED, state' = OPEN
      PROVE  bad' >= FailureThreshold
  <2>1. ASSUME NEW c \in Call, Fail(c) PROVE bad' >= FailureThreshold
    BY <1>1, <2>1
    DEF Fail, FailureWhenClosed, FailureWhenOpen, FailureWhenHalfOpen, Least,
        BInv, TypeOK, Streaks
  <2>2. ASSUME NEW c \in Call, Succeed(c) PROVE FALSE
    BY <1>1, <2>2
    DEF Succeed, SuccessWhenClosed, SuccessWhenOpen, SuccessWhenHalfOpen
  <2> QED
    BY <1>1, <2>1, <2>2
    DEF Next, Admit, QueryState, Reset, Deliver, Tick, Transition, AfterOpen
<1>2. BInv /\ [Next]_vars =>
        [state = CLOSED /\ state' = OPEN => bad' >= FailureThreshold]_vars
  BY <1>1 DEF vars
<1> QED BY BInvariance, <1>2, PTL DEF Spec, TripsOnStreak

(* Without reset(), the half-open breaker closes only on SuccessThreshold  *)
(* successes in a row.                                                     *)
THEOREM CloseStreak == Spec => ClosesOnStreak
<1>1. ASSUME BInv, Next, state = HALF_OPEN, state' = CLOSED, ~Reset
      PROVE  good' >= SuccessThreshold
  <2>1. ASSUME NEW c \in Call, Succeed(c) PROVE good' >= SuccessThreshold
    BY <1>1, <2>1
    DEF Succeed, SuccessWhenClosed, SuccessWhenOpen, SuccessWhenHalfOpen, Least,
        BInv, TypeOK, Streaks
  <2>2. ASSUME NEW c \in Call, Fail(c) PROVE FALSE
    BY <1>1, <2>2
    DEF Fail, FailureWhenClosed, FailureWhenOpen, FailureWhenHalfOpen, Transition
  <2> QED
    BY <1>1, <2>1, <2>2
    DEF Next, Admit, QueryState, Deliver, Tick, Transition, AfterOpen
<1>2. BInv /\ [Next]_vars =>
        [state = HALF_OPEN /\ state' = CLOSED /\ ~Reset
            => good' >= SuccessThreshold]_vars
  BY <1>1 DEF vars
<1> QED BY BInvariance, <1>2, PTL DEF Spec, ClosesOnStreak

(* No call starts within the timeout after a trip, but for reset().        *)
THEOREM TripRest == Spec => RestsAfterTrip
<1>1. ASSUME BInv, Next, NEW c \in Call, c \in running' \ running
      PROVE  rest >= OpenTimeout
  <2>1. ASSUME NEW d \in Call, Admit(d) PROVE rest >= OpenTimeout
    BY <2>1, <1>1 DEF Admit, AfterOpen, TimeoutElapsed, BInv, TypeOK, Streaks
  <2> QED
    BY <1>1, <2>1 DEF Next, Succeed, Fail, QueryState, Reset, Deliver, Tick
<1>2. BInv /\ [Next]_vars =>
        [\A c \in Call : c \in running' \ running => rest >= OpenTimeout]_vars
  BY <1>1 DEF vars
<1> QED BY BInvariance, <1>2, PTL DEF Spec, RestsAfterTrip

-----------------------------------------------------------------------------
(* Chains grow at their end and shrink at their head.                      *)
LEMMA ChainAppend ==
  ASSUME NEW T, NEW q \in Seq(T), NEW h, NEW s, NEW to,
         <<s, to>> \in T, s # to, Chain(q, h, s)
  PROVE  Chain(Append(q, <<s, to>>), h, to)
<1> DEFINE e == <<s, to>>
           n == Append(q, e)
<1>0. e[1] = s /\ e[2] = to
  OBVIOUS
<1>1. /\ n \in Seq(T)
      /\ Len(n) = Len(q) + 1
      /\ \A i \in 1 .. Len(q) : n[i] = q[i]
      /\ n[Len(q) + 1] = e
  BY AppendProperties
<1>2. Len(q) \in Nat /\ (q = <<>> <=> Len(q) = 0) /\ (n = <<>> <=> Len(n) = 0)
  BY <1>1, EmptySeq
<1> HIDE DEF e, n
<1>3. ASSUME NEW i \in 1 .. Len(n)
      PROVE  n[i][1] # n[i][2] /\ n[i][1] = IF i = 1 THEN h ELSE n[i - 1][2]
  <2>1. CASE i \in 1 .. Len(q)
    <3>1. n[i] = q[i] /\ (i # 1 => i - 1 \in 1 .. Len(q))
      BY <2>1, <1>1, <1>2
    <3>2. i # 1 => n[i - 1] = q[i - 1]
      BY <3>1, <1>1
    <3>3. q[i][1] # q[i][2] /\ q[i][1] = IF i = 1 THEN h ELSE q[i - 1][2]
      BY <2>1 DEF Chain
    <3> QED BY <3>1, <3>2, <3>3
  <2>2. CASE i = Len(n)
    BY <2>2, <1>0, <1>1, <1>2 DEF Chain
  <2> QED BY <1>1, <1>2, <2>1, <2>2
<1>4. Chain(n, h, to)
  BY <1>0, <1>1, <1>2, <1>3 DEF Chain
<1> QED BY <1>4 DEF n, e

LEMMA ChainTail ==
  ASSUME NEW T, NEW q \in Seq(T), NEW h, NEW s, q # <<>>, Chain(q, h, s)
  PROVE  Chain(Tail(q), Head(q)[2], s)
<1> DEFINE n == Tail(q)
<1>1. /\ n \in Seq(T)
      /\ Len(n) = Len(q) - 1
      /\ \A i \in 1 .. Len(n) : n[i] = q[i + 1]
  BY HeadTailProperties
<1>2. Len(q) \in Nat \ {0} /\ (n = <<>> <=> Len(n) = 0) /\ Head(q) = q[1]
  <2>1. Len(q) \in Nat \ {0}
    BY EmptySeq
  <2>2. n = <<>> <=> Len(n) = 0
    BY <1>1, EmptySeq
  <2> QED BY <2>1, <2>2
<1> HIDE DEF n
<1>3. ASSUME NEW i \in 1 .. Len(n)
      PROVE  n[i][1] # n[i][2] /\ n[i][1] = IF i = 1 THEN q[1][2] ELSE n[i - 1][2]
  <2>1. n[i] = q[i + 1] /\ i + 1 \in 1 .. Len(q) /\ i + 1 # 1 /\ (i + 1) - 1 = i
    BY <1>1, <1>2
  <2>2. q[i + 1][1] # q[i + 1][2] /\ q[i + 1][1] = q[i][2]
    BY <2>1 DEF Chain
  <2>3. i # 1 => n[i - 1] = q[i]
    BY <1>1, <1>2
  <2> QED BY <2>1, <2>2, <2>3
<1>4. s = IF n = <<>> THEN q[1][2] ELSE n[Len(n)][2]
  BY <1>1, <1>2 DEF Chain
<1>5. Chain(n, q[1][2], s)
  BY <1>3, <1>4 DEF Chain
<1> QED BY <1>2, <1>5 DEF n

LEMMA TransitionChain ==
  ASSUME TypeOK, NoticesChain, NEW to \in States, Transition(to), heard' = heard
  PROVE  NoticesChain'
<1>1. CASE to = state
  BY <1>1 DEF Transition, NoticesChain
<1>2. CASE to # state
  <2>1. notices \in Seq(States \X States) /\ <<state, to>> \in States \X States
    BY DEF TypeOK
  <2>2. Chain(Append(notices, <<state, to>>), heard, to)
    BY <1>2, <2>1, ChainAppend DEF NoticesChain
  <2>3. notices' = Append(notices, <<state, to>>) /\ state' = to
    BY <1>2 DEF Transition, Notice
  <2> QED BY <2>2, <2>3 DEF NoticesChain
<1> QED BY <1>1, <1>2

LEMMA DeliverChain ==
  ASSUME TypeOK, NoticesChain, Deliver
  PROVE  NoticesChain'
<1>1. notices \in Seq(States \X States) /\ notices # <<>>
  BY DEF TypeOK, Deliver
<1>2. Chain(Tail(notices), Head(notices)[2], state)
  BY <1>1, ChainTail DEF NoticesChain
<1> QED BY <1>2 DEF NoticesChain, Deliver

(* The listener hears every transition, in order, once.                    *)
THEOREM ListenerChain == Spec => []NoticesChain
<1>1. Init => NoticesChain
  BY EmptySeq DEF Init, NoticesChain, Chain
<1>2. BInv /\ NoticesChain /\ [Next]_vars => NoticesChain'
  <2> SUFFICES ASSUME BInv, NoticesChain, [Next]_vars PROVE NoticesChain'
    OBVIOUS
  <2>0. TypeOK /\ AfterOpen \in States /\ CLOSED \in States /\ OPEN \in States
    BY DEF BInv, TypeOK, AfterOpen
  <2>1. CASE UNCHANGED <<state, notices, heard>>
    BY <2>1 DEF NoticesChain
  <2>2. ASSUME NEW c \in Call, Admit(c) PROVE NoticesChain'
    BY <2>0, <2>2, TransitionChain DEF Admit
  <2>3. ASSUME NEW c \in Call, Succeed(c) PROVE NoticesChain'
    BY <2>0, <2>1, <2>3, TransitionChain
    DEF Succeed, SuccessWhenClosed, SuccessWhenOpen, SuccessWhenHalfOpen
  <2>4. ASSUME NEW c \in Call, Fail(c) PROVE NoticesChain'
    BY <2>0, <2>1, <2>4, TransitionChain
    DEF Fail, FailureWhenClosed, FailureWhenOpen, FailureWhenHalfOpen
  <2>5. CASE QueryState \/ Reset
    BY <2>0, <2>5, TransitionChain DEF QueryState, Reset
  <2>6. CASE Deliver
    BY <2>0, <2>6, DeliverChain
  <2> QED
    BY <2>1, <2>2, <2>3, <2>4, <2>5, <2>6 DEF Next, Tick, vars
<1> QED BY BInvariance, <1>1, <1>2, PTL DEF Spec

(* The breaker keeps its types and the chain of its notices.               *)
THEOREM Invariance == Spec => []BreakerSafety
  BY TypeCorrect, ListenerChain, PTL DEF BreakerSafety

(***************************************************************************)
(* RateLimiter.  What is left of the allowance of a window is at least     *)
(* what the bucket holds (RoomForBurst); a key that is forgotten returns   *)
(* with a full bucket, for which TtlMs of idleness has made room.          *)
(***************************************************************************)
HIDE TimeoutAssumption
HIDE ThresholdAssumption
HIDE DEF States, CLOSED, OPEN, HALF_OPEN
USE LimiterAssumption DEF L!RateAssumption, L!RequestAssumption, L!TimeAssumption

(* What the limiter multiplies.                                            *)
LEMMA ProductGrows ==
  ASSUME NEW a \in Int, NEW b \in Int, NEW r \in Nat, a <= b
  PROVE  a * r \in Int /\ b * r \in Int /\ a * r <= b * r
  OBVIOUS

LEMMA ProductSteps ==
  ASSUME NEW a \in Int, NEW b \in Int, NEW r \in Int
  PROVE  /\ (a + b) * r = a * r + b * r
         /\ (a - b) * r = a * r - b * r
         /\ r * (a + b) = r * a + r * b
         /\ 0 * r = 0 /\ 1 * r = r /\ r * 1 = r
  OBVIOUS

(* The level of a bucket is at most a burst, and the allowance of a window *)
(* grows with time, by Rate in each tick.                                  *)
LEMMA LevelTypes ==
  ASSUME L!TypeOK, NEW k \in Key
  PROVE  L!Level(k) \in Int /\ L!Level(k) <= Burst
<1>1. tokens[k] \in Int /\ lastFill[k] \in Int /\ now \in Int /\ skew \in Int
  BY DEF L!TypeOK
<1>2. ((now - skew) - lastFill[k]) * Rate \in Int
  BY <1>1
<1> QED BY <1>1, <1>2 DEF L!Level, L!Capped, L!Wall

LEMMA AllowanceGrows ==
  ASSUME L!TypeOK, NEW k \in Key, NEW a \in Int, NEW b \in Int, a <= b
  PROVE  /\ L!Allowance(k, a) \in Int
         /\ L!Allowance(k, a) <= L!Allowance(k, b)
         /\ L!Allowance(k, a + 1) = L!Allowance(k, a) + Rate
         /\ L!Allowance(k, since[k]) >= Burst
         /\ L!Allowance(k, since[k]) \in Int
<1>1. since[k] \in Int /\ resets[k] \in Nat /\ Burst * (1 + resets[k]) \in Int
  BY DEF L!TypeOK
<1>2. Burst * (1 + resets[k]) >= Burst
  BY <1>1, ProductGrows, ProductSteps
<1>3. (a - since[k]) * Rate <= (b - since[k]) * Rate /\ (a - since[k]) * Rate \in Int
  BY <1>1, ProductGrows
<1>4. ((a + 1) - since[k]) * Rate = (a - since[k]) * Rate + Rate
  <2>1. ((a + 1) - since[k]) * Rate = ((a - since[k]) + 1) * Rate
    BY <1>1
  <2> QED BY <1>1, <2>1, ProductSteps
<1>5. (since[k] - since[k]) * Rate = 0
  BY <1>1
<1>6. (b - since[k]) * Rate \in Int
  BY <1>1
<1> DEFINE p == Burst * (1 + resets[k])
           x == (a - since[k]) * Rate
           y == (b - since[k]) * Rate
           z == ((a + 1) - since[k]) * Rate
           o == (since[k] - since[k]) * Rate
<1>7. p \in Int /\ p >= Burst /\ x \in Int /\ y \in Int /\ x <= y /\ z = x + Rate /\ o = 0
  BY <1>1, <1>2, <1>3, <1>4, <1>5, <1>6
<1>8. /\ L!Allowance(k, a) = p + x /\ L!Allowance(k, b) = p + y
      /\ L!Allowance(k, a + 1) = p + z /\ L!Allowance(k, since[k]) = p + o
  BY DEF L!Allowance
<1> HIDE DEF p, x, y, z, o
<1> QED BY <1>7, <1>8

-----------------------------------------------------------------------------
LInv == L!TypeOK /\ L!RoomForBurst /\ L!RateBound /\ L!NoDebt

(* The part of RoomForBurst, RateBound and NoDebt that is about one key.   *)
Room(k) ==
    /\ since[k] <= now
    /\ k \in entries => lastSeen[k] = lastFill[k] /\ lastFill[k] <= now
    /\ L!TtlRefills =>
         /\ granted[k] + L!Level(k) <= L!Allowance(k, now)
         /\ k \in entries /\ granted[k] > 0 =>
              granted[k] <= L!Allowance(k, lastFill[k] + skew)
    /\ L!TtlRefills => granted[k] <= L!Allowance(k, now)
    /\ k \in entries /\ skew = 0 => tokens[k] >= 0

Rooms == L!TypeOK /\ \A k \in Key : Room(k)

LEMMA RoomIsAll == LInv <=> Rooms
<1>1. ASSUME LInv, NEW k \in Key PROVE Room(k)
  BY <1>1 DEF LInv, Room, L!RoomForBurst, L!RateBound, L!NoDebt
<1>2. ASSUME L!TypeOK, \A k \in Key : Room(k) PROVE LInv
  <2>1. L!RoomForBurst
    BY <1>2 DEF Room, L!RoomForBurst
  <2>2. L!RateBound
    BY <1>2 DEF Room, L!RateBound
  <2>3. L!NoDebt
    BY <1>2 DEF Room, L!NoDebt, L!TypeOK
  <2> QED BY <1>2, <2>1, <2>2, <2>3 DEF LInv
<1> QED BY <1>1, <1>2 DEF LInv, Rooms

LEMMA InitLInv == L!Init => LInv
<1> SUFFICES ASSUME L!Init PROVE LInv
  OBVIOUS
<1>1. L!TypeOK
  BY DEF L!Init, L!TypeOK
<1>2. ASSUME NEW k \in Key PROVE Room(k)
  <2>1. L!Allowance(k, since[k]) >= Burst /\ L!Allowance(k, since[k]) \in Int
    BY <1>1, AllowanceGrows
  <2>2. since[k] = 0 /\ now = 0 /\ granted[k] = 0 /\ k \notin entries
    BY DEF L!Init
  <2>3. L!Level(k) = Burst
    BY <2>2 DEF L!Level
  <2> QED BY <2>1, <2>2, <2>3 DEF Room
<1> QED BY <1>1, <1>2, RoomIsAll DEF Rooms

(* A key that a step leaves alone, while the clock stands still.           *)
Kept(k) ==
    /\ now' = now /\ skew' = skew
    /\ k \in entries' <=> k \in entries
    /\ tokens'[k] = tokens[k] /\ lastFill'[k] = lastFill[k]
    /\ lastSeen'[k] = lastSeen[k]
    /\ since'[k] = since[k] /\ granted'[k] = granted[k] /\ resets'[k] = resets[k]

LEMMA KeptRoom ==
  ASSUME NEW k \in Key, Room(k), Kept(k)
  PROVE  Room(k)'
<1>1. L!Wall' = L!Wall
  BY DEF Kept, L!Wall
<1>2. L!Level(k)' = L!Level(k)
  BY <1>1 DEF Kept, L!Level, L!Capped
<1>3. \A a : L!Allowance(k, a)' = L!Allowance(k, a)
  BY DEF Kept, L!Allowance
<1>4. /\ L!Allowance(k, now)' = L!Allowance(k, now)
      /\ L!Allowance(k, lastFill[k] + skew)' = L!Allowance(k, lastFill[k] + skew)
  BY <1>3 DEF Kept, L!Allowance
<1>5. L!TtlRefills' <=> L!TtlRefills
  BY DEF L!TtlRefills
<1> QED BY <1>2, <1>4, <1>5 DEF Kept, Room

(* A call takes from the bucket of a key what it is granted.               *)
LEMMA AllowNRoom ==
  ASSUME L!TypeOK, NEW k \in Key, \A j \in Key : Room(j),
         NEW n \in Request, L!AllowN(k, n)
  PROVE  L!TypeOK' /\ \A j \in Key : Room(j)'
<1>0. n \in Nat /\ L!Level(k) \in Int /\ L!Level(k) <= Burst
  BY LevelTypes
<1> DEFINE m == IF L!Allows(L!Level(k), n) THEN n ELSE 0
           level == L!Level(k) - m
<1>1. /\ m \in Nat /\ level \in Int /\ level + m = L!Level(k) /\ level <= Burst
      /\ m > 0 => level >= 0
  BY <1>0 DEF L!Allows
<1>2. /\ now' = now /\ skew' = skew /\ since' = since /\ resets' = resets
      /\ entries' = entries \cup {k}
      /\ tokens' = [tokens EXCEPT ![k] = level]
      /\ lastFill' = [lastFill EXCEPT ![k] = L!Wall]
      /\ lastSeen' = [lastSeen EXCEPT ![k] = L!Wall]
      /\ granted' = [granted EXCEPT ![k] = @ + m]
  BY <1>0 DEF L!AllowN, L!Touch, L!Allows, L!clock, L!TypeOK
<1> HIDE DEF m, level
<1>3. L!Wall \in Int /\ L!Wall = now - skew /\ now \in Int /\ skew \in Nat
  BY DEF L!Wall, L!TypeOK
<1>4. L!TypeOK'
  BY <1>1, <1>2, <1>3 DEF L!TypeOK
<1>5. ASSUME NEW j \in Key, j # k PROVE Room(j)'
  <2>1. Kept(j)
    BY <1>2, <1>5 DEF Kept, L!TypeOK
  <2> QED BY <2>1, KeptRoom
<1>6. Room(k)'
  <2>1. /\ k \in entries' /\ tokens'[k] = level /\ lastFill'[k] = L!Wall
        /\ lastSeen'[k] = L!Wall /\ granted'[k] = granted[k] + m
        /\ granted[k] \in Nat
    BY <1>2 DEF L!TypeOK
  <2>2. L!Wall' = L!Wall
    BY <1>2 DEF L!Wall
  <2>3. L!Level(k)' = level
    <3>1. (L!Wall - L!Wall) * Rate = 0
      BY <1>3
    <3>2. L!Level(k)' = L!Capped(level + (L!Wall - L!Wall) * Rate)
      BY <2>1, <2>2 DEF L!Level, L!Capped
    <3> QED BY <1>1, <3>1, <3>2 DEF L!Capped
  <2>4. L!Allowance(k, now)' = L!Allowance(k, now)
    BY <1>2 DEF L!Allowance
  <2>5. L!Allowance(k, lastFill[k] + skew)' = L!Allowance(k, now)
    <3>1. L!Wall + skew = now
      BY <1>3
    <3> QED BY <1>2, <2>1, <3>1 DEF L!Allowance
  <2>6. L!Allowance(k, now) \in Int
    <3>1. now \in Int /\ now <= now
      BY <1>3
    <3> QED BY <3>1, AllowanceGrows
  <2>7. L!TtlRefills' <=> L!TtlRefills
    BY DEF L!TtlRefills
  <2>8. L!TtlRefills => granted[k] + m + level <= L!Allowance(k, now)
    BY <1>0, <1>1, <2>1 DEF Room
  <2>9. L!TtlRefills => granted[k] + m <= L!Allowance(k, now)
    BY <1>0, <1>1, <2>1, <2>6, <2>8 DEF Room
  <2>10. skew = 0 => level >= 0
    <3>1. ASSUME skew = 0 PROVE L!Level(k) >= 0
      <4>1. CASE k \in entries
        <5>1. tokens[k] >= 0 /\ L!Wall - lastFill[k] >= 0 /\ tokens[k] \in Int
              /\ lastFill[k] \in Int
          BY <1>3, <3>1, <4>1 DEF Room, L!TypeOK
        <5>2. (L!Wall - lastFill[k]) * Rate \in Nat
          BY <1>3, <5>1, ProductGrows, ProductSteps
        <5> QED BY <4>1, <5>1, <5>2 DEF L!Level, L!Capped
      <4>2. CASE k \notin entries
        BY <4>2 DEF L!Level
      <4> QED BY <4>1, <4>2
    <3> QED BY <1>1, <3>1
  <2>11. since[k] <= now /\ L!Wall <= now
    BY <1>3 DEF Room
  <2> QED
    BY <1>2, <2>1, <2>3, <2>4, <2>5, <2>7, <2>8, <2>9, <2>10, <2>11 DEF Room
<1> QED BY <1>4, <1>5, <1>6

(* delete() makes room for one more burst.                                 *)
LEMMA DeleteRoom ==
  ASSUME L!TypeOK, NEW k \in Key, \A j \in Key : Room(j), L!Delete(k)
  PROVE  L!TypeOK' /\ \A j \in Key : Room(j)'
<1>1. /\ now' = now /\ skew' = skew /\ tokens' = tokens /\ lastFill' = lastFill
      /\ lastSeen' = lastSeen /\ since' = since /\ granted' = granted
      /\ entries' = entries \ {k} /\ resets' = [resets EXCEPT ![k] = @ + 1]
  BY DEF L!Delete, L!clock
<1>2. L!TypeOK'
  BY <1>1 DEF L!TypeOK
<1>3. ASSUME NEW j \in Key, j # k PROVE Room(j)'
  <2>1. Kept(j)
    BY <1>1, <1>3 DEF Kept, L!TypeOK
  <2> QED BY <2>1, KeptRoom
<1>4. Room(k)'
  <2>1. k \notin entries' /\ resets'[k] = resets[k] + 1 /\ resets[k] \in Nat
        /\ granted[k] \in Nat
    BY <1>1 DEF L!TypeOK
  <2>2. L!Level(k)' = Burst
    BY <2>1 DEF L!Level
  <2>3. L!Allowance(k, now) \in Int
    BY AllowanceGrows DEF L!TypeOK
  <2>4. L!Allowance(k, now)' = L!Allowance(k, now) + Burst
    <3>1. Burst * (1 + (resets[k] + 1)) = Burst * (1 + resets[k]) + Burst
      BY <2>1, ProductSteps
    <3> DEFINE a == Burst * (1 + (resets[k] + 1))
               b == Burst * (1 + resets[k])
               c == (now - since[k]) * Rate
    <3>2. a = b + Burst /\ a \in Int /\ b \in Int /\ c \in Int
      BY <2>1, <3>1 DEF L!TypeOK
    <3>3. L!Allowance(k, now)' = a + c /\ L!Allowance(k, now) = b + c
      BY <1>1, <2>1 DEF L!Allowance
    <3> HIDE DEF a, b, c
    <3> QED BY <3>2, <3>3
  <2>5. L!TtlRefills' <=> L!TtlRefills
    BY DEF L!TtlRefills
  <2> QED BY <1>1, <2>1, <2>2, <2>3, <2>4, <2>5 DEF Room
<1> QED BY <1>2, <1>3, <1>4

(* A key is forgotten when what it was granted and a full bucket fit in    *)
(* its allowance: in TtlMs the bucket was full again.                      *)
LEMMA EvictRoom ==
  ASSUME L!TypeOK, \A j \in Key : Room(j), L!Evict
  PROVE  L!TypeOK' /\ \A j \in Key : Room(j)'
<1>1. /\ now' = now /\ skew' = skew /\ tokens' = tokens /\ lastFill' = lastFill
      /\ lastSeen' = lastSeen /\ since' = since /\ granted' = granted
      /\ resets' = resets /\ entries' = {k \in entries : ~L!Idle(k)}
  BY DEF L!Evict, L!clock, L!history
<1>2. L!TypeOK'
  BY <1>1 DEF L!TypeOK
<1>3. ASSUME NEW k \in Key, ~(k \in entries /\ L!Idle(k)) PROVE Room(k)'
  <2>1. Kept(k)
    BY <1>1, <1>3 DEF Kept
  <2> QED BY <2>1, KeptRoom
<1>4. ASSUME NEW k \in Key, k \in entries, L!Idle(k) PROVE Room(k)'
  <2>0. /\ now \in Int /\ skew \in Nat /\ lastFill[k] \in Int /\ granted[k] \in Nat
        /\ since[k] \in Int
    BY DEF L!TypeOK
  <2>1. k \notin entries' /\ L!Level(k)' = Burst
    BY <1>1, <1>4 DEF L!Level
  <2>2. lastFill[k] + skew + (TtlMs + 1) <= now /\ since[k] <= now
    BY <1>4, <2>0 DEF L!Idle, L!Wall, Room
  <2>3. L!Allowance(k, now) \in Int /\ L!Allowance(k, now) >= Burst
    BY <2>0, <2>2, AllowanceGrows
  <2>4. ASSUME L!TtlRefills, granted[k] > 0
        PROVE  granted[k] + Burst <= L!Allowance(k, now)
    <3> DEFINE t == lastFill[k] + skew
    <3>1. t \in Int /\ granted[k] <= L!Allowance(k, t) /\ L!Allowance(k, t) \in Int
      BY <1>4, <2>0, <2>4, AllowanceGrows DEF Room
    <3>2. L!Allowance(k, t + (TtlMs + 1)) <= L!Allowance(k, now)
          /\ L!Allowance(k, t + (TtlMs + 1)) \in Int
      BY <2>0, <2>2, <3>1, AllowanceGrows
    <3>3. L!Allowance(k, t + (TtlMs + 1)) = L!Allowance(k, t) + (TtlMs + 1) * Rate
      <4>1. ((t + (TtlMs + 1)) - since[k]) * Rate
              = (t - since[k]) * Rate + (TtlMs + 1) * Rate
        <5>1. (t + (TtlMs + 1)) - since[k] = (t - since[k]) + (TtlMs + 1)
          BY <2>0, <3>1
        <5> HIDE DEF t
        <5> QED BY <2>0, <3>1, <5>1, ProductSteps
      <4> DEFINE a == ((t + (TtlMs + 1)) - since[k]) * Rate
                 b == (t - since[k]) * Rate
                 c == (TtlMs + 1) * Rate
                 p == Burst * (1 + resets[k])
      <4>2. a = b + c /\ b \in Int /\ c \in Int /\ p \in Int
        BY <2>0, <3>1, <4>1 DEF L!TypeOK
      <4>3. L!Allowance(k, t + (TtlMs + 1)) = p + a /\ L!Allowance(k, t) = p + b
        BY DEF L!Allowance
      <4> HIDE DEF a, b, c, p, t
      <4>4. p + (b + c) = (p + b) + c
        BY <4>2
      <4>5. L!Allowance(k, t + (TtlMs + 1)) = L!Allowance(k, t) + c
        BY <4>2, <4>3, <4>4
      <4> QED BY <4>5 DEF c
    <3> DEFINE c == (TtlMs + 1) * Rate
    <3>4. c >= Burst /\ c \in Int
      BY <2>4 DEF L!TtlRefills
    <3> HIDE DEF t
    <3>5. L!Allowance(k, t + (TtlMs + 1)) = L!Allowance(k, t) + c
      BY <3>3
    <3> HIDE DEF c
    <3> QED BY <2>0, <2>3, <3>1, <3>2, <3>4, <3>5
  <2>5. L!TtlRefills => granted[k] + Burst <= L!Allowance(k, now)
    BY <2>0, <2>3, <2>4
  <2>6. L!Allowance(k, now)' = L!Allowance(k, now) /\ (L!TtlRefills' <=> L!TtlRefills)
    BY <1>1 DEF L!Allowance, L!TtlRefills
  <2> QED BY <1>1, <2>0, <2>1, <2>2, <2>3, <2>5, <2>6 DEF Room
<1> QED BY <1>2, <1>3, <1>4

(* In a tick the bucket gains no more than the allowance.                  *)
LEMMA TickRoom ==
  ASSUME L!TypeOK, \A j \in Key : Room(j), L!Tick
  PROVE  L!TypeOK' /\ \A j \in Key : Room(j)'
<1>1. /\ now' = now + 1 /\ skew' = skew /\ entries' = entries /\ tokens' = tokens
      /\ lastFill' = lastFill /\ lastSeen' = lastSeen /\ since' = since
      /\ granted' = granted /\ resets' = resets /\ now < LimitTime
  BY DEF L!Tick, L!bucket, L!history
<1>2. L!TypeOK'
  BY <1>1 DEF L!TypeOK
<1>3. ASSUME NEW k \in Key PROVE Room(k)'
  <2>0. /\ now \in Int /\ skew \in Nat /\ lastFill[k] \in Int /\ granted[k] \in Nat
        /\ tokens[k] \in Int /\ L!Level(k) \in Int /\ since[k] \in Int
    BY LevelTypes DEF L!TypeOK
  <2>1. /\ L!Allowance(k, now) \in Int
        /\ L!Allowance(k, now)' = L!Allowance(k, now) + Rate
    <3>1. L!Allowance(k, now)' = L!Allowance(k, now + 1)
      BY <1>1 DEF L!Allowance
    <3> QED BY <2>0, <3>1, AllowanceGrows
  <2>2. L!Level(k)' <= L!Level(k) + Rate /\ L!Level(k)' \in Int
    <3>1. CASE k \in entries
      <4> DEFINE w == now - skew - lastFill[k]
                 x == w * Rate
                 y == (w + 1) * Rate
      <4>1. w \in Int /\ x \in Int /\ y = x + Rate
        <5>1. w \in Int
          BY <2>0
        <5> HIDE DEF w
        <5>2. (w + 1) * Rate = w * Rate + 1 * Rate /\ 1 * Rate = Rate
          BY <5>1, ProductSteps
        <5> QED BY <5>1, <5>2
      <4>2. L!Level(k) = L!Capped(tokens[k] + x) /\ k \in entries'
        BY <1>1, <3>1 DEF L!Level, L!Wall
      <4>3. L!Level(k)' = L!Capped(tokens[k] + y)
        <5>1. (now + 1) - skew - lastFill[k] = w + 1
          BY <2>0
        <5>2. L!Level(k)' = L!Capped(tokens[k] + ((now + 1) - skew - lastFill[k]) * Rate)
          BY <1>1, <3>1 DEF L!Level, L!Wall, L!Capped
        <5> HIDE DEF w
        <5> QED BY <5>1, <5>2
      <4> HIDE DEF w, x, y
      <4> QED BY <2>0, <4>1, <4>2, <4>3 DEF L!Capped
    <3>2. CASE k \notin entries
      BY <1>1, <3>2 DEF L!Level
    <3> QED BY <3>1, <3>2
  <2>3. /\ L!Allowance(k, lastFill[k] + skew)' = L!Allowance(k, lastFill[k] + skew)
        /\ L!TtlRefills' <=> L!TtlRefills
    BY <1>1 DEF L!Allowance, L!TtlRefills
  <2>4. L!TtlRefills => granted[k] + L!Level(k) <= L!Allowance(k, now)
                        /\ granted[k] <= L!Allowance(k, now)
    BY DEF Room
  <2>5. L!TtlRefills => granted[k] + L!Level(k)' <= L!Allowance(k, now)'
                        /\ granted[k] <= L!Allowance(k, now)'
    BY <2>0, <2>1, <2>2, <2>4
  <2> QED BY <1>1, <2>0, <2>3, <2>5 DEF Room
<1> QED BY <1>2, <1>3

(* A wall clock that is set back fills no bucket.                          *)
LEMMA SetBackRoom ==
  ASSUME L!TypeOK, \A j \in Key : Room(j), L!SetBack
  PROVE  L!TypeOK' /\ \A j \in Key : Room(j)'
<1>1. /\ now' = now /\ skew' = skew + 1 /\ entries' = entries /\ tokens' = tokens
      /\ lastFill' = lastFill /\ lastSeen' = lastSeen /\ since' = since
      /\ granted' = granted /\ resets' = resets /\ skew < MaxSkew
  BY DEF L!SetBack, L!bucket, L!history
<1>2. L!TypeOK'
  BY <1>1 DEF L!TypeOK
<1>3. ASSUME NEW k \in Key PROVE Room(k)'
  <2>0. /\ now \in Int /\ skew \in Nat /\ lastFill[k] \in Int /\ granted[k] \in Nat
        /\ tokens[k] \in Int /\ L!Level(k) \in Int
    BY LevelTypes DEF L!TypeOK
  <2>1. L!Level(k)' <= L!Level(k) /\ L!Level(k)' \in Int
    <3>1. CASE k \in entries
      <4> DEFINE w == now - skew - lastFill[k]
                 x == w * Rate
                 y == (w - 1) * Rate
      <4>1. w \in Int /\ x \in Int /\ y = x - Rate
        <5>1. w \in Int
          BY <2>0
        <5> HIDE DEF w
        <5>2. (w - 1) * Rate = w * Rate - 1 * Rate /\ 1 * Rate = Rate
          BY <5>1, ProductSteps
        <5> QED BY <5>1, <5>2
      <4>2. L!Level(k) = L!Capped(tokens[k] + x)
        BY <3>1 DEF L!Level, L!Wall
      <4>3. L!Level(k)' = L!Capped(tokens[k] + y)
        <5>1. now - (skew + 1) - lastFill[k] = w - 1
          BY <2>0
        <5>2. L!Level(k)' = L!Capped(tokens[k] + (now - (skew + 1) - lastFill[k]) * Rate)
          BY <1>1, <3>1 DEF L!Level, L!Wall, L!Capped
        <5> HIDE DEF w
        <5> QED BY <5>1, <5>2
      <4> HIDE DEF w, x, y
      <4> QED BY <2>0, <4>1, <4>2, <4>3 DEF L!Capped
    <3>2. CASE k \notin entries
      BY <1>1, <3>2 DEF L!Level
    <3> QED BY <3>1, <3>2
  <2>2. L!Allowance(k, now)' = L!Allowance(k, now) /\ (L!TtlRefills' <=> L!TtlRefills)
    BY <1>1 DEF L!Allowance, L!TtlRefills
  <2>3. /\ L!Allowance(k, lastFill[k] + skew) \in Int
        /\ L!Allowance(k, lastFill[k] + skew)' \in Int
        /\ L!Allowance(k, lastFill[k] + skew)' >= L!Allowance(k, lastFill[k] + skew)
    <3> DEFINE t == lastFill[k] + skew
               u == lastFill[k] + (skew + 1)
    <3>1. t \in Int /\ u \in Int /\ t <= u
      BY <2>0
    <3>2. L!Allowance(k, lastFill[k] + skew)' = L!Allowance(k, u)
      BY <1>1 DEF L!Allowance
    <3>3. L!Allowance(k, t) \in Int /\ L!Allowance(k, t) <= L!Allowance(k, u)
      BY <3>1, AllowanceGrows
    <3>4. L!Allowance(k, u) \in Int
      BY <3>1, AllowanceGrows
    <3> QED BY <3>2, <3>3, <3>4
  <2>4. L!TtlRefills => granted[k] + L!Level(k)' <= L!Allowance(k, now)'
    <3>1. L!Allowance(k, now) \in Int
      BY <2>0, AllowanceGrows
    <3> QED BY <2>0, <2>1, <2>2, <3>1 DEF Room
  <2>5. L!TtlRefills /\ k \in entries /\ granted[k] > 0 =>
          granted[k] <= L!Allowance(k, lastFill[k] + skew)'
    BY <2>0, <2>3 DEF Room
  <2> QED BY <1>1, <2>0, <2>2, <2>4, <2>5 DEF Room
<1> QED BY <1>2, <1>3

(* A window begins with nothing granted and room for a burst.              *)
LEMMA BeginWindowRoom ==
  ASSUME L!TypeOK, NEW k \in Key, \A j \in Key : Room(j), L!BeginWindow(k)
  PROVE  L!TypeOK' /\ \A j \in Key : Room(j)'
<1>1. /\ now' = now /\ skew' = skew /\ entries' = entries /\ tokens' = tokens
      /\ lastFill' = lastFill /\ lastSeen' = lastSeen
      /\ since' = [since EXCEPT ![k] = now] /\ granted' = [granted EXCEPT ![k] = 0]
      /\ resets' = [resets EXCEPT ![k] = 0]
  BY DEF L!BeginWindow, L!clock, L!bucket
<1>2. L!TypeOK'
  BY <1>1 DEF L!TypeOK
<1>3. ASSUME NEW j \in Key, j # k PROVE Room(j)'
  <2>1. Kept(j)
    BY <1>1, <1>3 DEF Kept, L!TypeOK
  <2> QED BY <2>1, KeptRoom
<1>4. Room(k)'
  <2>1. since'[k] = now /\ granted'[k] = 0 /\ resets'[k] = 0 /\ now \in Int
    BY <1>1 DEF L!TypeOK
  <2>2. L!Level(k)' = L!Level(k) /\ L!Level(k) \in Int /\ L!Level(k) <= Burst
    BY <1>1, LevelTypes DEF L!Level, L!Capped, L!Wall
  <2>3. L!Allowance(k, now)' = Burst
    <3>1. L!Allowance(k, now)' = Burst * (1 + 0) + (now - now) * Rate
      BY <1>1, <2>1 DEF L!Allowance
    <3>2. Burst * (1 + 0) = Burst /\ (now - now) * Rate = 0
      BY <2>1
    <3> QED BY <3>1, <3>2
  <2> QED BY <1>1, <2>1, <2>2, <2>3 DEF Room
<1> QED BY <1>2, <1>3, <1>4

LEMMA NextLInv == LInv /\ [L!Next]_limitVars => LInv'
<1>1. ASSUME Rooms, [L!Next]_limitVars PROVE Rooms'
  <2>0. L!TypeOK /\ \A j \in Key : Room(j)
    BY <1>1 DEF Rooms
  <2>1. L!TypeOK' /\ \A j \in Key : Room(j)'
    <3>1. CASE UNCHANGED limitVars
      <4>1. L!TypeOK' /\ \A k \in Key : Kept(k)
        BY <2>0, <3>1 DEF limitVars, Kept, L!TypeOK
      <4> QED BY <2>0, <4>1, KeptRoom
    <3> QED
      BY <1>1, <2>0, <3>1, AllowNRoom, DeleteRoom, EvictRoom, TickRoom,
         SetBackRoom, BeginWindowRoom DEF L!Next
  <2> QED BY <2>1 DEF Rooms
<1> QED BY <1>1, RoomIsAll, PTL

(***************************************************************************)
(* RedisCache.  An outdated value comes from a reader that loaded it no    *)
(* more than MaxLag before it stored it, when it was not outdated yet      *)
(* (Traced); whoever replaced it has still to delete it, or raced.         *)
(***************************************************************************)
RInv == R!TypeOK /\ R!Traced /\ R!StaleOnlyByRace

(* The cache of an owner that still waits for a delete(), or missed it.    *)
Pending(o) == o \in raced \/ \E w \in Writer : o \in writer[w]

(* Traced and StaleOnlyByRace for a reader and for a key.                  *)
Loaded(r) ==
    reader[r].at = "storing" =>
        /\ reader[r].since \in 0 .. cacheNow /\ cacheNow - reader[r].since <= MaxLag
        /\ reader[r].loaded \in 0 .. changes \cup {R!Null}
        /\ \A o \in reader[r].of :
             reader[r].loaded \in R!Version /\ reader[r].loaded # source[o] =>
               replaced[o][reader[r].loaded] >= reader[r].since /\ Pending(o)

Cached(o) ==
    /\ R!Hit(o) /\ TtlSeconds > 0 =>
         /\ cacheNow < redis[o].expires /\ redis[o].expires <= cacheNow + TtlSeconds
         /\ R!Stale(o) =>
              redis[o].expires <= replaced[o][redis[o].value] + MaxLag + TtlSeconds
    /\ R!Stale(o) => Pending(o)

Traces == /\ R!TypeOK
          /\ \A r \in Reader : Loaded(r)
          /\ \A o \in Owner : Cached(o)

HIDE LimiterAssumption
HIDE DEF L!RateAssumption, L!RequestAssumption, L!TimeAssumption
USE CacheAssumption DEF R!OwnerAssumption, R!TimeAssumption

(* The types, of what Redis holds and of what readers hold apart.          *)
RedisTypes ==
    redis \in [Owner -> [value : 0 .. changes \cup {R!Never, R!Null},
                        expires : R!Never .. CacheTime + TtlSeconds]]

ReaderTypes ==
    /\ reader \in [Reader -> R!Reading]
    /\ \A r \in Reader : IF reader[r].at = "idle" THEN reader[r] = R!Idle
                         ELSE \E o \in Owner : reader[r].of = {o}

LEMMA TypesKept ==
  ASSUME R!TypeOK, source' = source, changes' = changes, replaced' = replaced,
         RedisTypes', ReaderTypes', cacheNow' \in 0 .. CacheTime,
         \A o \in Owner : flushing'[o] \subseteq {o} \ NoPrefix,
         writer' \in [Writer -> SUBSET Owner], raced' \subseteq Owner
  PROVE  R!TypeOK'
  BY DEF R!TypeOK, RedisTypes, ReaderTypes

LEMMA TypesHeld ==
  ASSUME R!TypeOK
  PROVE  /\ RedisTypes /\ ReaderTypes /\ cacheNow \in 0 .. CacheTime
         /\ \A o \in Owner : flushing[o] \subseteq {o} \ NoPrefix
         /\ writer \in [Writer -> SUBSET Owner] /\ raced \subseteq Owner
         /\ redis' = redis /\ changes' = changes => RedisTypes'
         /\ reader' = reader => ReaderTypes'
  BY DEF R!TypeOK, RedisTypes, ReaderTypes

LEMMA TracesAreAll == RInv <=> Traces
<1>1. ASSUME RInv PROVE Traces
  <2>1. ASSUME NEW r \in Reader PROVE Loaded(r)
    BY <1>1, <2>1 DEF RInv, Loaded, Pending, R!Traced
  <2>2. ASSUME NEW o \in Owner PROVE Cached(o)
    BY <1>1, <2>2 DEF RInv, Cached, Pending, R!Traced, R!StaleOnlyByRace
  <2> QED BY <1>1, <2>1, <2>2 DEF RInv, Traces
<1>2. ASSUME Traces PROVE RInv
  <2>1. R!StaleOnlyByRace
    BY <1>2 DEF Traces, Cached, Pending, R!StaleOnlyByRace
  <2>2. R!Traced
    BY <1>2 DEF Traces, Loaded, Cached, Pending, R!Traced
  <2> QED BY <1>2, <2>1, <2>2 DEF RInv, Traces
<1> QED BY <1>1, <1>2

LEMMA InitRInv == R!Init => RInv
<1> SUFFICES ASSUME R!Init PROVE RInv
  OBVIOUS
<1>1. R!TypeOK
  BY DEF R!Init, R!TypeOK, R!Reading, R!Idle, R!Missing, R!Version, R!Never, R!Null
<1>2. ASSUME NEW r \in Reader PROVE Loaded(r)
  BY DEF R!Init, Loaded, R!Idle
<1>3. ASSUME NEW o \in Owner PROVE Cached(o)
  BY DEF R!Init, Cached, R!Hit, R!Stale, R!Missing, R!Version, R!Never
<1> QED BY <1>1, <1>2, <1>3, TracesAreAll DEF Traces

(* What is deleted is no hit, and what is not stays as it was.             *)
LEMMA DeletedMissing ==
  ASSUME R!TypeOK, NEW T, redis' = R!Deleted(T), changes' = changes
  PROVE  /\ RedisTypes'
         /\ \A o \in Owner : R!Hit(o)' => o \notin T /\ redis'[o] = redis[o]
  BY DEF R!TypeOK, RedisTypes, R!Deleted, R!Missing, R!Hit, R!Version, R!Never, R!Null

(* What a reader and a key keep when the step is not about them.           *)
LEMMA KeptLoaded ==
  ASSUME NEW r \in Reader, Loaded(r), reader'[r] = reader[r], cacheNow' = cacheNow,
         changes' = changes, source' = source, replaced' = replaced,
         \A o \in reader[r].of :
           reader[r].at = "storing" /\ reader[r].loaded # source[o] /\ Pending(o) =>
             Pending(o)'
  PROVE  Loaded(r)'
  BY DEF Loaded, R!Version, R!Null

LEMMA KeptCached ==
  ASSUME NEW o \in Owner, Cached(o), R!Hit(o)' => redis'[o] = redis[o],
         cacheNow' = cacheNow, source' = source, replaced' = replaced,
         R!Stale(o)' /\ Pending(o) => Pending(o)'
  PROVE  Cached(o)'
  BY DEF Cached, R!Hit, R!Stale, R!Version

-----------------------------------------------------------------------------
(* A reader that goes on, to nothing or to its loader.                     *)
LEMMA ReaderGoesOn ==
  ASSUME Traces, NEW r \in Reader, NEW rec \in R!Reading,
         reader' = [reader EXCEPT ![r] = rec], rec.at # "storing",
         IF rec.at = "idle" THEN rec = R!Idle ELSE \E o \in Owner : rec.of = {o},
         source' = source, changes' = changes, redis' = redis,
         cacheNow' = cacheNow, writer' = writer, flushing' = flushing,
         replaced' = replaced, raced' = raced
  PROVE  Traces'
<1>1. R!TypeOK'
  <2>1. ReaderTypes'
    BY DEF Traces, R!TypeOK, ReaderTypes
  <2> QED BY <2>1, TypesHeld, TypesKept DEF Traces
<1>2. ASSUME NEW q \in Reader PROVE Loaded(q)'
  <2>1. CASE q = r
    BY <2>1 DEF Traces, R!TypeOK, Loaded
  <2>2. CASE q # r
    BY <2>2, KeptLoaded DEF Traces, R!TypeOK, Pending
  <2> QED BY <2>1, <2>2
<1>3. ASSUME NEW o \in Owner PROVE Cached(o)'
  BY KeptCached DEF Traces, Pending
<1> QED BY <1>1, <1>2, <1>3 DEF Traces

LEMMA MissTraced ==
  ASSUME Traces, NEW r \in Reader, NEW o \in Owner, R!GetMisses(r, o)
  PROVE  Traces'
<1> DEFINE rec == [R!Idle EXCEPT !.at = "loading", !.of = {o}]
<1>1. rec \in R!Reading /\ rec.at = "loading" /\ rec.of = {o}
  <2>1. R!Idle \in R!Reading
    BY DEF Traces, R!TypeOK, R!Idle, R!Reading, R!Never, R!Null, R!Version
  <2> QED BY <2>1 DEF R!Reading
<1>2. /\ reader' = [reader EXCEPT ![r] = rec]
      /\ source' = source /\ changes' = changes /\ redis' = redis
      /\ cacheNow' = cacheNow /\ writer' = writer /\ flushing' = flushing
      /\ replaced' = replaced /\ raced' = raced
  BY DEF R!GetMisses
<1> HIDE DEF rec
<1> QED BY <1>1, <1>2, ReaderGoesOn

LEMMA GiveUpTraced ==
  ASSUME Traces, NEW r \in Reader, R!GivesUp(r)
  PROVE  Traces'
<1>1. R!Idle \in R!Reading /\ R!Idle.at = "idle"
  BY DEF Traces, R!TypeOK, R!Idle, R!Reading, R!Never, R!Null, R!Version
<1>2. /\ reader' = [reader EXCEPT ![r] = R!Idle]
      /\ source' = source /\ changes' = changes /\ redis' = redis
      /\ cacheNow' = cacheNow /\ writer' = writer /\ flushing' = flushing
      /\ replaced' = replaced /\ raced' = raced
  BY DEF R!GivesUp
<1> QED BY <1>1, <1>2, ReaderGoesOn

(* What a loader reads is the value.                                       *)
LEMMA LoadTraced ==
  ASSUME Traces, NEW r \in Reader, R!Load(r)
  PROVE  Traces'
<1>0. PICK o \in Owner : reader[r].of = {o} /\ reader[r].at = "loading"
  BY DEF R!Load, Traces, R!TypeOK
<1>1. PICK v \in {source[o], R!Null} :
        reader' = [reader EXCEPT ![r].at = "storing",
                                 ![r].loaded = v, ![r].since = cacheNow]
  BY <1>0 DEF R!Load
<1>2. /\ source' = source /\ changes' = changes /\ redis' = redis
      /\ cacheNow' = cacheNow /\ writer' = writer /\ flushing' = flushing
      /\ replaced' = replaced /\ raced' = raced
  BY DEF R!Load
<1>3. /\ v \in 0 .. changes \cup {R!Null} /\ v \in R!Version \cup {R!Never, R!Null}
      /\ v \in R!Version => v = source[o]
      /\ cacheNow \in 0 .. CacheTime /\ reader[r] \in R!Reading
  BY <1>1 DEF Traces, R!TypeOK, R!Version, R!Null
<1>4. /\ reader'[r] \in R!Reading /\ reader'[r].at = "storing"
      /\ reader'[r].of = {o} /\ reader'[r].loaded = v /\ reader'[r].since = cacheNow
      /\ \A q \in Reader : q # r => reader'[q] = reader[q]
      /\ reader' \in [Reader -> R!Reading]
  <2>1. reader \in [Reader -> R!Reading]
    BY DEF Traces, R!TypeOK
  <2>2. cacheNow \in R!Never .. CacheTime
    BY <1>3 DEF R!Never
  <2> QED BY <1>0, <1>1, <1>3, <2>1, <2>2 DEF R!Reading
<1>5. R!TypeOK'
  <2>1. ReaderTypes'
    <3>1. ASSUME NEW q \in Reader
          PROVE  IF reader'[q].at = "idle" THEN reader'[q] = R!Idle
                 ELSE \E p \in Owner : reader'[q].of = {p}
      <4>1. CASE q = r
        BY <1>4, <4>1
      <4>2. CASE q # r
        BY <1>4, <4>2, TypesHeld DEF Traces, ReaderTypes
      <4> QED BY <4>1, <4>2
    <3> QED BY <1>4, <3>1 DEF ReaderTypes
  <2> QED BY <1>2, <2>1, TypesHeld, TypesKept DEF Traces
<1>6. ASSUME NEW q \in Reader PROVE Loaded(q)'
  <2>1. CASE q = r
    BY <1>2, <1>3, <1>4, <2>1 DEF Loaded
  <2>2. CASE q # r
    BY <1>2, <1>4, <2>2, KeptLoaded DEF Traces, Pending
  <2> QED BY <2>1, <2>2
<1>7. ASSUME NEW p \in Owner PROVE Cached(p)'
  BY <1>2, KeptCached DEF Traces, Pending
<1> QED BY <1>5, <1>6, <1>7 DEF Traces

(* What a reader stores was the value MaxLag ago, and expires in time.     *)
LEMMA SetTraced ==
  ASSUME Traces, NEW r \in Reader, R!Set(r)
  PROVE  Traces'
<1>0. reader[r].at = "storing" /\ reader \in [Reader -> R!Reading]
  BY DEF R!Set, Traces, R!TypeOK
<1>00. PICK o \in Owner : reader[r].of = {o}
  BY <1>0 DEF Traces, R!TypeOK
<1>1. /\ reader[r].of = {o} /\ reader[r].at = "storing"
      /\ redis' = [redis EXCEPT ![o] = [value |-> reader[r].loaded,
                                        expires |-> R!Expiry]]
  BY <1>0, <1>00 DEF R!Set
<1>2. /\ source' = source /\ changes' = changes
      /\ cacheNow' = cacheNow /\ writer' = writer /\ flushing' = flushing
      /\ replaced' = replaced /\ raced' = raced
      /\ reader' = [reader EXCEPT ![r] = R!Idle]
  BY DEF R!Set
<1>3. R!Idle \in R!Reading /\ R!Idle.at = "idle"
  BY DEF Traces, R!TypeOK, R!Idle, R!Reading, R!Never, R!Null, R!Version
<1>4. Loaded(r) /\ reader[r].loaded \in 0 .. changes \cup {R!Null}
  BY <1>1 DEF Traces, Loaded
<1>5. R!Expiry \in R!Never .. CacheTime + TtlSeconds
  BY DEF R!Expiry, R!Never, Traces, R!TypeOK
<1>6. R!TypeOK'
  <2>1. RedisTypes'
    <3> DEFINE entry == [value |-> reader[r].loaded, expires |-> R!Expiry]
    <3>1. entry \in [value : 0 .. changes \cup {R!Never, R!Null},
                     expires : R!Never .. CacheTime + TtlSeconds]
      BY <1>4, <1>5
    <3> HIDE DEF entry
    <3>2. redis' = [redis EXCEPT ![o] = entry]
      BY <1>1 DEF entry
    <3> QED BY <1>2, <3>1, <3>2, TypesHeld DEF Traces, RedisTypes
  <2>2. ReaderTypes'
    BY <1>2, <1>3, TypesHeld DEF Traces, ReaderTypes
  <2> QED BY <1>2, <2>1, <2>2, TypesHeld, TypesKept DEF Traces
<1>7. ASSUME NEW q \in Reader PROVE Loaded(q)'
  <2>1. CASE q = r
    BY <1>2, <1>3, <2>1 DEF Traces, R!TypeOK, Loaded
  <2>2. CASE q # r
    BY <1>2, <2>2, KeptLoaded DEF Traces, R!TypeOK, Pending
  <2> QED BY <2>1, <2>2
<1>8. ASSUME NEW p \in Owner PROVE Cached(p)'
  <2>1. CASE p # o
    BY <1>1, <1>2, <2>1, KeptCached DEF Traces, R!TypeOK, Pending
  <2>2. CASE p = o
    <3>1. redis'[o].value = reader[r].loaded /\ redis'[o].expires = R!Expiry
      BY <1>1 DEF Traces, R!TypeOK
    <3>2. TtlSeconds > 0 => R!Expiry = cacheNow + TtlSeconds
      BY DEF R!Expiry
    <3>3. R!Stale(o)' => /\ reader[r].loaded \in R!Version
                         /\ reader[r].loaded # source[o]
      BY <1>2, <3>1 DEF R!Stale, R!Hit
    <3>4. R!Stale(o)' => /\ replaced[o][reader[r].loaded] >= reader[r].since
                         /\ Pending(o)
      BY <1>1, <1>4, <3>3 DEF Loaded
    <3>5. reader[r].since \in 0 .. cacheNow /\ cacheNow - reader[r].since <= MaxLag
          /\ cacheNow \in Nat
      BY <1>1, <1>4 DEF Loaded, Traces, R!TypeOK
    <3>6. reader[r].loaded \in R!Version => replaced[o][reader[r].loaded] \in Int
      BY DEF Traces, R!TypeOK, R!Never
    <3>7. Pending(o)' <=> Pending(o)
      BY <1>2 DEF Pending
    <3> QED BY <1>2, <2>2, <3>1, <3>2, <3>3, <3>4, <3>5, <3>6, <3>7 DEF Cached
  <2> QED BY <2>1, <2>2
<1> QED BY <1>6, <1>7, <1>8 DEF Traces

-----------------------------------------------------------------------------
(* A value that is replaced was read no later, and its writer has still to *)
(* delete it.                                                              *)
LEMMA ChangeTraced ==
  ASSUME Traces, NEW w \in Writer, NEW o \in Owner, R!Change(w, o)
  PROVE  Traces'
<1>1. /\ writer[w] = {} /\ changes < MaxChanges /\ changes' = changes + 1
      /\ source' = [source EXCEPT ![o] = changes + 1]
      /\ replaced' = [replaced EXCEPT ![o][source[o]] = cacheNow]
      /\ writer' = [writer EXCEPT ![w] = {o}]
      /\ redis' = redis /\ cacheNow' = cacheNow /\ reader' = reader
      /\ flushing' = flushing /\ raced' = raced
  BY DEF R!Change
<1>2. /\ changes \in Nat /\ changes + 1 \in R!Version /\ cacheNow \in 0 .. CacheTime
      /\ source \in [Owner -> 0 .. changes] /\ source[o] \in R!Version
      /\ replaced \in [Owner -> [R!Version -> R!Never .. CacheTime]]
      /\ writer \in [Writer -> SUBSET Owner]
  BY <1>1 DEF Traces, R!TypeOK, R!Version
<1>3. /\ source'[o] = changes + 1
      /\ \A p \in Owner : p # o => source'[p] = source[p] /\ replaced'[p] = replaced[p]
      /\ replaced'[o][source[o]] = cacheNow
      /\ \A v \in R!Version : v # source[o] => replaced'[o][v] = replaced[o][v]
      /\ replaced' \in [Owner -> [R!Version -> R!Never .. CacheTime]]
  BY <1>1, <1>2 DEF R!Never
<1>4. /\ Pending(o)'
      /\ \A p \in Owner : Pending(p) => Pending(p)'
  BY <1>1, <1>2 DEF Pending
<1>5. R!TypeOK'
  <2>1. source' \in [Owner -> 0 .. changes']
    BY <1>1, <1>2
  <2>2. redis' \in [Owner -> [value : 0 .. changes' \cup {R!Never, R!Null},
                              expires : R!Never .. CacheTime + TtlSeconds]]
    <3>1. 0 .. changes \cup {R!Never, R!Null} \subseteq 0 .. changes' \cup {R!Never, R!Null}
      BY <1>1, <1>2
    <3> QED BY <1>1, <3>1 DEF Traces, R!TypeOK
  <2>3. writer' \in [Writer -> SUBSET Owner]
    BY <1>1, <1>2
  <2> QED BY <1>1, <1>2, <1>3, <2>1, <2>2, <2>3 DEF Traces, R!TypeOK
<1>6. ASSUME NEW r \in Reader, reader[r].at = "storing" PROVE Loaded(r)'
  <2>1. /\ reader[r].since \in 0 .. cacheNow /\ cacheNow - reader[r].since <= MaxLag
        /\ reader[r].loaded \in 0 .. changes \cup {R!Null}
        /\ reader[r].of \subseteq Owner
    BY <1>6 DEF Traces, Loaded, R!TypeOK, R!Reading
  <2>2. reader[r].loaded \in 0 .. changes' \cup {R!Null}
    BY <1>1, <1>2, <2>1
  <2>3. ASSUME NEW p \in reader[r].of,
               reader[r].loaded \in R!Version, reader[r].loaded # source'[p]
        PROVE  replaced'[p][reader[r].loaded] >= reader[r].since /\ Pending(p)'
    <3>1. CASE reader[r].loaded # source[p]
      <4>1. replaced[p][reader[r].loaded] >= reader[r].since /\ Pending(p)
        BY <1>6, <2>3, <3>1 DEF Traces, Loaded
      <4>2. replaced'[p][reader[r].loaded] = replaced[p][reader[r].loaded]
        BY <1>3, <2>1, <2>3, <3>1
      <4> QED BY <1>4, <2>1, <4>1, <4>2
    <3>2. CASE reader[r].loaded = source[p]
      <4>1. p = o
        BY <1>3, <2>1, <2>3, <3>2
      <4> QED BY <1>2, <1>3, <1>4, <2>1, <3>2, <4>1
    <3> QED BY <3>1, <3>2
  <2> QED BY <1>1, <2>1, <2>2, <2>3 DEF Loaded
<1>7. ASSUME NEW p \in Owner PROVE Cached(p)'
  <2>1. CASE p # o
    <3>1. R!Stale(p)' <=> R!Stale(p)
      BY <1>1, <1>3, <2>1 DEF R!Stale, R!Hit, R!Version
    <3>2. R!Hit(p)' <=> R!Hit(p)
      BY <1>1 DEF R!Hit, R!Version
    <3> QED BY <1>1, <1>3, <1>4, <2>1, <3>1, <3>2 DEF Traces, Cached
  <2>2. CASE p = o
    <3>1. R!Hit(o)' <=> R!Hit(o)
      BY <1>1 DEF R!Hit, R!Version
    <3>2. redis[o].expires \in Int /\ cacheNow \in Int
      BY <1>2 DEF Traces, R!TypeOK, R!Never
    <3>3. R!Hit(o) /\ TtlSeconds > 0 =>
            /\ cacheNow < redis[o].expires /\ redis[o].expires <= cacheNow + TtlSeconds
            /\ R!Stale(o) =>
                 redis[o].expires <= replaced[o][redis[o].value] + MaxLag + TtlSeconds
      BY DEF Traces, Cached
    <3>4. ASSUME R!Hit(o), TtlSeconds > 0
          PROVE  redis[o].expires <= replaced'[o][redis[o].value] + MaxLag + TtlSeconds
      <4>1. CASE redis[o].value = source[o]
        BY <1>3, <3>2, <3>3, <3>4, <4>1
      <4>2. CASE redis[o].value # source[o]
        BY <1>3, <3>3, <3>4, <4>2 DEF R!Stale, R!Hit
      <4> QED BY <4>1, <4>2
    <3> QED BY <1>1, <1>4, <2>2, <3>1, <3>3, <3>4 DEF Cached
  <2> QED BY <2>1, <2>2
<1>8. ASSUME NEW r \in Reader PROVE Loaded(r)'
  BY <1>1, <1>6 DEF Loaded
<1> QED BY <1>5, <1>7, <1>8 DEF Traces

(* A step that only deletes from the cache, and leaves nobody behind who   *)
(* waited for it.                                                          *)
LEMMA DeletionTraced ==
  ASSUME Traces, NEW T, redis' = R!Deleted(T), R!TypeOK',
         source' = source, changes' = changes, cacheNow' = cacheNow,
         reader' = reader, replaced' = replaced,
         \A o \in Owner : Pending(o) /\ (o \in T => R!HoldsOld(o)) => Pending(o)'
  PROVE  Traces'
<1>1. ASSUME NEW r \in Reader PROVE Loaded(r)'
  <2>1. ASSUME NEW o \in reader[r].of, reader[r].at = "storing",
               reader[r].loaded # source[o], Pending(o)
        PROVE  Pending(o)'
    <3>1. o \in Owner /\ R!HoldsOld(o)
      BY <2>1 DEF Traces, R!TypeOK, R!Reading, R!HoldsOld
    <3> QED BY <2>1, <3>1
  <2> QED BY <2>1, KeptLoaded DEF Traces
<1>2. ASSUME NEW o \in Owner PROVE Cached(o)'
  <2>1. R!Hit(o)' => o \notin T /\ redis'[o] = redis[o]
    BY DeletedMissing DEF Traces
  <2>2. R!Stale(o)' /\ Pending(o) => Pending(o)'
    BY <2>1 DEF R!Stale
  <2> QED BY <2>1, <2>2, KeptCached DEF Traces
<1> QED BY <1>1, <1>2 DEF Traces

LEMMA DeleteTraced ==
  ASSUME Traces, NEW w \in Writer, R!Delete(w)
  PROVE  Traces'
<1>1. /\ redis' = R!Deleted(writer[w]) /\ writer' = [writer EXCEPT ![w] = {}]
      /\ raced' = {o \in raced \cup writer[w] : o \in writer[w] => R!HoldsOld(o)}
      /\ source' = source /\ changes' = changes /\ cacheNow' = cacheNow
      /\ reader' = reader /\ flushing' = flushing /\ replaced' = replaced
  BY DEF R!Delete
<1>2. R!TypeOK'
  <2>1. RedisTypes'
    BY <1>1, DeletedMissing DEF Traces
  <2>2. writer' \in [Writer -> SUBSET Owner] /\ raced' \subseteq Owner
    BY <1>1, TypesHeld DEF Traces
  <2> QED BY <1>1, <2>1, <2>2, TypesHeld, TypesKept DEF Traces
<1>3. ASSUME NEW o \in Owner, Pending(o), o \in writer[w] => R!HoldsOld(o)
      PROVE  Pending(o)'
  BY <1>1, <1>3 DEF Pending, Traces, R!TypeOK
<1> QED BY <1>1, <1>2, <1>3, DeletionTraced

LEMMA DeleteFailsTraced ==
  ASSUME Traces, NEW w \in Writer, R!DeleteFails(w)
  PROVE  Traces'
<1>1. /\ redis' = redis /\ writer' = [writer EXCEPT ![w] = {}]
      /\ raced' = raced \cup writer[w]
      /\ source' = source /\ changes' = changes /\ cacheNow' = cacheNow
      /\ reader' = reader /\ flushing' = flushing /\ replaced' = replaced
  BY DEF R!DeleteFails
<1>2. R!TypeOK'
  <2>1. writer' \in [Writer -> SUBSET Owner] /\ raced' \subseteq Owner
    BY <1>1, TypesHeld DEF Traces
  <2> QED BY <1>1, <2>1, TypesHeld, TypesKept DEF Traces
<1>3. \A o \in Owner : Pending(o) => Pending(o)'
  BY <1>1 DEF Pending, Traces, R!TypeOK
<1>4. ASSUME NEW r \in Reader PROVE Loaded(r)'
  <2>1. reader[r].of \subseteq Owner
    BY DEF Traces, R!TypeOK, R!Reading
  <2> QED BY <1>1, <1>3, <2>1, KeptLoaded DEF Traces
<1>5. ASSUME NEW o \in Owner PROVE Cached(o)'
  BY <1>1, <1>3, KeptCached DEF Traces
<1> QED BY <1>2, <1>4, <1>5 DEF Traces

LEMMA FlushTraced ==
  ASSUME Traces, NEW o \in Owner,
         R!FlushDb(o) \/ R!FlushKeys(o) \/ R!FlushDel(o)
  PROVE  Traces'
<1>1. /\ source' = source /\ changes' = changes /\ cacheNow' = cacheNow
      /\ reader' = reader /\ writer' = writer /\ replaced' = replaced /\ raced' = raced
  BY DEF R!FlushDb, R!FlushKeys, R!FlushDel
<1>2. \A p \in Owner : Pending(p) => Pending(p)'
  BY <1>1 DEF Pending
<1>3. CASE R!FlushKeys(o)
  <2>1. redis' = redis /\ flushing' = [flushing EXCEPT ![o] = {o}] /\ o \notin NoPrefix
    BY <1>3 DEF R!FlushKeys
  <2>2. R!TypeOK'
    <3>1. \A p \in Owner : flushing'[p] \subseteq {p} \ NoPrefix
      BY <2>1 DEF Traces, R!TypeOK
    <3> QED BY <1>1, <2>1, <3>1, TypesHeld, TypesKept DEF Traces
  <2>3. ASSUME NEW r \in Reader PROVE Loaded(r)'
    BY <1>1, <2>1, KeptLoaded DEF Traces, Pending
  <2>4. ASSUME NEW p \in Owner PROVE Cached(p)'
    BY <1>1, <2>1, KeptCached DEF Traces, Pending
  <2> QED BY <2>2, <2>3, <2>4 DEF Traces
<1>4. CASE R!FlushDb(o)
  <2>1. redis' = R!Deleted(Owner) /\ flushing' = flushing
    BY <1>4 DEF R!FlushDb
  <2>2. R!TypeOK'
    <3>1. RedisTypes'
      BY <1>1, <2>1, DeletedMissing DEF Traces
    <3> QED BY <1>1, <2>1, <3>1, TypesHeld, TypesKept DEF Traces
  <2> QED BY <1>1, <1>2, <2>1, <2>2, DeletionTraced
<1>5. CASE R!FlushDel(o)
  <2>1. redis' = R!Deleted(flushing[o]) /\ flushing' = [flushing EXCEPT ![o] = {}]
    BY <1>5 DEF R!FlushDel
  <2>2. R!TypeOK'
    <3>1. RedisTypes'
      BY <1>1, <2>1, DeletedMissing DEF Traces
    <3>2. \A p \in Owner : flushing'[p] \subseteq {p} \ NoPrefix
      BY <2>1 DEF Traces, R!TypeOK
    <3> QED BY <1>1, <2>1, <3>1, <3>2, TypesHeld, TypesKept DEF Traces
  <2> QED BY <1>1, <1>2, <2>1, <2>2, DeletionTraced
<1> QED BY <1>3, <1>4, <1>5

(* Nobody is late, and what has expired is not in the cache any more.      *)
LEMMA CacheTickTraced ==
  ASSUME Traces, R!Tick
  PROVE  Traces'
<1> DEFINE T == {o \in Owner : redis[o].expires = cacheNow'}
<1>1. /\ cacheNow < CacheTime /\ cacheNow' = cacheNow + 1 /\ redis' = R!Deleted(T)
      /\ \A r \in Reader :
           reader[r].at = "storing" => cacheNow - reader[r].since < MaxLag
      /\ source' = source /\ changes' = changes /\ reader' = reader
      /\ writer' = writer /\ flushing' = flushing /\ replaced' = replaced
      /\ raced' = raced
  BY DEF R!Tick
<1>2. \A o : Pending(o)' <=> Pending(o)
  BY <1>1 DEF Pending
<1>3. ASSUME NEW o \in Owner, R!Hit(o)'
      PROVE  redis[o].expires # cacheNow + 1 /\ redis'[o] = redis[o]
  BY <1>1, <1>3, DeletedMissing DEF Traces
<1>4. \A o \in Owner : R!Stale(o)' => R!Stale(o) /\ R!Hit(o)
  BY <1>1, <1>3 DEF R!Stale, R!Hit, R!Version
<1>5. R!TypeOK'
  <2> HIDE DEF T
  <2>1. RedisTypes'
    BY <1>1, DeletedMissing DEF Traces
  <2>2. cacheNow' \in 0 .. CacheTime
    BY <1>1, TypesHeld DEF Traces
  <2> QED BY <1>1, <2>1, <2>2, TypesHeld, TypesKept DEF Traces
<1>6. ASSUME NEW r \in Reader PROVE Loaded(r)'
  <2>1. cacheNow \in Nat
    BY DEF Traces, R!TypeOK
  <2> QED BY <1>1, <1>2, <2>1 DEF Traces, Loaded, R!Version
<1>7. ASSUME NEW o \in Owner PROVE Cached(o)'
  <2>1. redis[o].expires \in Int /\ cacheNow \in Nat
    BY DEF Traces, R!TypeOK, R!Never
  <2>2. R!Hit(o)' => R!Hit(o)
    BY <1>1, <1>3 DEF R!Hit, R!Version
  <2> QED BY <1>1, <1>2, <1>3, <1>4, <2>1, <2>2 DEF Traces, Cached
<1> QED BY <1>5, <1>6, <1>7 DEF Traces

LEMMA NextRInv == RInv /\ [R!Next]_cacheVars => RInv'
<1>1. ASSUME Traces, [R!Next]_cacheVars PROVE Traces'
  <2>1. CASE UNCHANGED cacheVars
    <3>1. /\ source' = source /\ changes' = changes /\ cacheNow' = cacheNow
          /\ redis' = redis /\ reader' = reader /\ writer' = writer
          /\ flushing' = flushing /\ replaced' = replaced /\ raced' = raced
      BY <2>1 DEF cacheVars
    <3>2. R!TypeOK'
      BY <1>1, <3>1 DEF Traces, R!TypeOK
    <3>3. ASSUME NEW r \in Reader PROVE Loaded(r)'
      BY <1>1, <3>1, KeptLoaded DEF Traces, Pending
    <3>4. ASSUME NEW o \in Owner PROVE Cached(o)'
      BY <1>1, <3>1, KeptCached DEF Traces, Pending
    <3> QED BY <3>2, <3>3, <3>4 DEF Traces
  <2>2. CASE R!Next
    BY <1>1, <2>2, MissTraced, GiveUpTraced, LoadTraced, SetTraced, ChangeTraced,
       DeleteTraced, DeleteFailsTraced, FlushTraced, CacheTickTraced DEF R!Next
  <2> QED BY <1>1, <2>1, <2>2
<1> QED BY <1>1, TracesAreAll, PTL

(* A value found in the cache has not expired, and it expires in time.     *)
LEMMA AgeBounded == RInv => R!StalenessBounded
<1> SUFFICES ASSUME RInv, TtlSeconds > 0, NEW o \in Owner, R!Stale(o)
             PROVE  cacheNow < replaced[o][redis[o].value] + MaxLag + TtlSeconds
  BY DEF R!StalenessBounded
<1>1. cacheNow \in Int /\ redis[o].expires \in Int
      /\ replaced[o][redis[o].value] \in Int
  BY DEF RInv, R!TypeOK, R!Stale, R!Hit, R!Never
<1>2. /\ cacheNow < redis[o].expires
      /\ redis[o].expires <= replaced[o][redis[o].value] + MaxLag + TtlSeconds
  BY DEF RInv, R!Traced, R!Stale
<1> QED BY <1>1, <1>2

-----------------------------------------------------------------------------
(***************************************************************************)
(* The instance, whose parts share nothing.                                *)
(***************************************************************************)
MemoryInv == EInv /\ BusInv /\ SagaInv /\ LruInv

LEMMA AllSteps ==
  [AllNext]_allVars =>
    /\ [L!Next]_limitVars /\ [R!Next]_cacheVars
    /\ [E!Next]_eventVars /\ [B!Next]_busVars /\ [S!Next]_sagaVars /\ [C!Next]_lruVars
BY DEF AllNext, GuardNext, MemoryNext, allVars, guardVars, memoryVars

LEMMA AllInvariance == AllSpec => [](LInv /\ RInv /\ MemoryInv)
<1>1. AllInit => LInv /\ RInv /\ MemoryInv
  BY InitLInv, InitRInv, InitEInv, InitBusInv, InitSagaInv, InitLruInv DEF AllInit, MemoryInv
<1>2. MemoryInv /\ [AllNext]_allVars => MemoryInv'
  BY AllSteps, NextEInv, NextBusInv, NextSagaInv, NextLruInv DEF MemoryInv
<1> QED BY <1>1, <1>2, AllSteps, NextLInv, NextRInv, PTL DEF AllSpec

(* In every window of time a key is granted at most a burst and what the   *)
(* rate adds, evictions included, if an idle key is kept until its bucket  *)
(* is full again, and no bucket is in debt unless the clock is set back.   *)
THEOREM Limits == AllSpec => []LimitsSafety
<1>1. LInv => LimitsSafety
  BY DEF LInv, LimitsSafety
<1> QED BY AllInvariance, <1>1, PTL

(* Whatever races with getOrSet(), an outdated value is gone from the      *)
(* cache in time, and without a race or a failed delete() there is none.   *)
THEOREM Staleness == AllSpec => []StalenessBounded
<1>1. RInv => StalenessBounded
  BY AgeBounded DEF RInv, StalenessBounded
<1> QED BY AllInvariance, <1>1, PTL

(* Streams are numbered without gaps and catch up exactly; each event is   *)
(* delivered once, in order, to those subscribed when it was published; a  *)
(* saga that throws has undone what it did, last step first; and the cache *)
(* lies in the order of use.                                               *)
THEOREM Memory == AllSpec => []MemorySafety
<1>1. MemoryInv => MemorySafety
  BY DEF MemoryInv, EInv, BusInv, SagaInv, LruInv, MemorySafety
<1> QED BY AllInvariance, <1>1, PTL

(* An append that states a version adds to the events its writer has seen; *)
(* a saga that returns has executed every step there is.                   *)
THEOREM Lossless == AllSpec => NothingLost
<1> DEFINE Update ==
             \A w \in Author :
               (/\ author[w].state = "decided" /\ author[w].expected # E!AnyVersion
                /\ idCounter' > idCounter /\ author'[w] = E!Idle
                /\ author[w].epoch = clears)
                 => seen[w] = streams[author[w].stream]
           SagaGoesOn ==
             /\ S!UndoneInReverse'
             /\ \A r \in Run : sagaState[r] # "returned" /\ sagaState'[r] = "returned"
                  => Len(completed'[r]) = steps
<1>1. MemoryInv /\ [AllNext]_allVars => [Update]_eventVars
  BY AllSteps, NoUpdateLost DEF MemoryInv
<1>2. MemoryInv /\ [AllNext]_allVars => [SagaGoesOn]_sagaVars
  BY AllSteps, NextSagaInv, SagaKeptStep DEF MemoryInv, SagaInv
<1>3. AllSpec => [][Update]_eventVars /\ [][SagaGoesOn]_sagaVars
  <2> HIDE DEF Update, SagaGoesOn
  <2> QED BY AllInvariance, <1>1, <1>2, PTL DEF AllSpec
<1> QED BY <1>3 DEF NothingLost, E!NoLostUpdate, S!SagaKept, E!vars, S!vars, eventVars, sagaVars

(* What the cache evicts has expired or is its oldest entry, and only the  *)
(* key `undefined' makes it outgrow its bound.                             *)
THEOREM Eviction == AllSpec => EvictsOldest
<1> DEFINE Oldest ==
             \A k \in C!Keys(store) : k \notin C!Keys(store') /\ k \notin gone'
               => \/ C!Expired(C!Entry(k))
                  \/ /\ Len(store) >= MaxSize
                     /\ k = Head(store).key
                     /\ C!Keys(store') \ C!Keys(store) # {}
           Bounded ==
             Len(store') > Len(store) =>
               Len(store) < MaxSize \/ Head(store).key = undefined
<1>1. MemoryInv /\ [AllNext]_allVars => [Oldest]_lruVars /\ [Bounded]_lruVars
  BY AllSteps, LruSteps, SameKeys DEF MemoryInv, EvictsFairly
<1>2. AllSpec => [][Oldest]_lruVars /\ [][Bounded]_lruVars
  <2> HIDE DEF Oldest, Bounded
  <2> QED BY AllInvariance, <1>1, PTL DEF AllSpec
<1> QED BY <1>2 DEF EvictsOldest, C!OnlyOldestEvicted, C!SizeBounded, C!vars, lruVars
=============================================================================
