--------------------------- MODULE SemaphoreProofs ---------------------------
(***************************************************************************)
(* Safety of Semaphore for every finite set of callers, every capacity and *)
(* every bound on excess releases.                                         *)
(*                                                                         *)
(* PermitsConserved is inductive only together with NobodyForgotten (the   *)
(* head of the queue does not hold a permit already) and the types; the    *)
(* type of `excess' in turn needs PermitsConserved, so all go together.    *)
(***************************************************************************)
EXTENDS Semaphore, FiniteSetTheorems, SequenceTheorems, TLAPS

-----------------------------------------------------------------------------
(* Appending to a queue someone it does not list. *)
LEMMA ListsAppend ==
  ASSUME NEW T, NEW q \in Seq(T), NEW S, NEW c \in T, c \notin S, Lists(q, S)
  PROVE  Append(q, c) \in Seq(T) /\ Lists(Append(q, c), S \cup {c})
<1> DEFINE a == Append(q, c)
<1>1. /\ a \in Seq(T)
      /\ Len(a) = Len(q) + 1
      /\ \A i \in 1 .. Len(q) : a[i] = q[i]
      /\ a[Len(q) + 1] = c
  BY AppendProperties
<1>2. Len(q) \in Nat
  OBVIOUS
<1>3. \A i \in 1 .. Len(q) : q[i] \in S
  BY DEF Lists
<1>4. S \cup {c} = {a[i] : i \in 1 .. Len(a)}
  <2>1. \A x \in S : \E i \in 1 .. Len(a) : x = a[i]
    BY <1>1, <1>2 DEF Lists
  <2>2. \A i \in 1 .. Len(a) : a[i] \in S \cup {c}
    BY <1>1, <1>2, <1>3
  <2>3. c = a[Len(a)] /\ Len(a) \in 1 .. Len(a)
    BY <1>1, <1>2
  <2> QED BY <2>1, <2>2, <2>3
<1>5. \A i, j \in 1 .. Len(a) : a[i] = a[j] => i = j
  BY <1>1, <1>2, <1>3 DEF Lists
<1> QED BY <1>1, <1>4, <1>5 DEF Lists

(* Removing the head of a queue. *)
LEMMA ListsTail ==
  ASSUME NEW T, NEW q \in Seq(T), NEW S, Lists(q, S), q # <<>>
  PROVE  /\ Head(q) \in S /\ Head(q) \in T
         /\ Tail(q) \in Seq(T)
         /\ Lists(Tail(q), S \ {Head(q)})
<1> DEFINE t == Tail(q)
<1>1. /\ t \in Seq(T)
      /\ Len(t) = Len(q) - 1
      /\ \A i \in 1 .. Len(t) : t[i] = q[i + 1]
      /\ Head(q) = q[1]
      /\ Len(q) \in Nat \ {0}
      /\ Head(q) \in T
  BY HeadTailProperties, EmptySeq
<1>2. Head(q) \in S
  BY <1>1 DEF Lists
<1>3. \A i, j \in 1 .. Len(t) : t[i] = t[j] => i = j
  BY <1>1 DEF Lists
<1>4. S \ {Head(q)} = {t[i] : i \in 1 .. Len(t)}
  <2>1. \A i \in 1 .. Len(t) : t[i] \in S \ {Head(q)}
    BY <1>1 DEF Lists
  <2>2. ASSUME NEW x \in S \ {Head(q)}
        PROVE  \E i \in 1 .. Len(t) : x = t[i]
    <3>1. PICK i \in 1 .. Len(q) : x = q[i]
      BY DEF Lists
    <3>2. i # 1 /\ i - 1 \in 1 .. Len(t)
      BY <1>1, <3>1
    <3> QED BY <1>1, <3>1, <3>2
  <2> QED BY <2>1, <2>2
<1> QED BY <1>1, <1>2, <1>3, <1>4 DEF Lists

-----------------------------------------------------------------------------
LEMMA HoldersFinite ==
  ASSUME TypeOK
  PROVE  IsFiniteSet(Holders) /\ Cardinality(Holders) \in Nat
<1>1. Holders \subseteq Client
  BY DEF Holders, In
<1> QED BY <1>1, ClientAssumption, FS_Subset, FS_CardinalityType

LEMMA InitIInv == Init => IInv
<1> SUFFICES ASSUME Init PROVE IInv
  OBVIOUS
<1>1. Holders = {} /\ In("waiting") = {} /\ In("granted") = {}
  BY DEF Init, Holders, In
<1>2. Cardinality(Holders) = 0
  BY <1>1, FS_EmptySet
<1>3. Len(<<>>) = 0
  OBVIOUS
<1>4. Lists(<<>>, {})
  BY <1>3 DEF Lists
<1>5. TypeOK
  BY CapacityAssumption DEF Init, TypeOK
<1>6. NobodyForgotten
  BY <1>1, <1>4 DEF Init, NobodyForgotten
<1>7. PermitsConserved
  BY <1>2, CapacityAssumption DEF Init, PermitsConserved
<1> QED
  BY <1>5, <1>6, <1>7 DEF Init, IInv, NoFreePermitWhileWaiting

LEMMA NextIInv == IInv /\ [Next]_vars => IInv'
<1> SUFFICES ASSUME IInv, [Next]_vars PROVE IInv'
  OBVIOUS
<1> USE CapacityAssumption, ExcessAssumption DEF IInv
<1>0. IsFiniteSet(Holders) /\ Cardinality(Holders) \in Nat
  BY HoldersFinite
<1>1. ASSUME NEW c \in Client, AcquireFree(c) PROVE IInv'
  <2> USE <1>1 DEF AcquireFree, Free
  <2>1. /\ In("waiting")' = In("waiting")
        /\ In("granted")' = In("granted") \cup {c}
        /\ c \notin In("granted")
        /\ Holders' = Holders \cup {c}
        /\ c \notin Holders
    BY DEF TypeOK, In, Holders
  <2>2. ready' \in Seq(Client) /\ NobodyForgotten'
    BY <2>1, ListsAppend DEF NobodyForgotten, TypeOK, Lists
  <2>3. TypeOK'
    BY <2>2 DEF TypeOK
  <2>4. PermitsConserved'
    <3>1. Cardinality(Holders') = Cardinality(Holders) + 1
      BY <1>0, <2>1, FS_AddElement
    <3> QED BY <1>0, <3>1 DEF PermitsConserved, TypeOK
  <2> QED BY <2>2, <2>3, <2>4 DEF NoFreePermitWhileWaiting, TypeOK
<1>2. ASSUME NEW c \in Client, AcquireWait(c) PROVE IInv'
  <2> USE <1>2 DEF AcquireWait, Free, Enqueued
  <2>1. /\ In("waiting")' = In("waiting") \cup {c}
        /\ c \notin In("waiting")
        /\ In("granted")' = In("granted")
        /\ Holders' = Holders
    BY DEF TypeOK, In, Holders
  <2>2. waiters' \in Seq(Client) /\ NobodyForgotten'
    BY <2>1, ListsAppend DEF NobodyForgotten, TypeOK, Lists
  <2>3. TypeOK'
    BY <2>2 DEF TypeOK
  <2> QED BY <2>1, <2>2, <2>3 DEF PermitsConserved, NoFreePermitWhileWaiting, TypeOK
<1>3. ASSUME NEW c \in Client, Resume(c) PROVE IInv'
  <2> USE <1>3 DEF Resume
  <2>0. /\ c \in In("granted") /\ Tail(ready) \in Seq(Client)
        /\ Lists(Tail(ready), In("granted") \ {c})
    BY ListsTail DEF NobodyForgotten, TypeOK
  <2>1. /\ In("waiting")' = In("waiting")
        /\ In("granted")' = In("granted") \ {c}
        /\ Holders' = Holders
    BY <2>0 DEF TypeOK, In, Holders
  <2>2. NobodyForgotten'
    BY <2>0, <2>1 DEF NobodyForgotten, Lists
  <2>3. TypeOK'
    BY <2>0 DEF TypeOK
  <2> QED BY <2>1, <2>2, <2>3 DEF PermitsConserved, NoFreePermitWhileWaiting, TypeOK
<1>4. ASSUME NEW c \in Client, TryAcquire(c) PROVE IInv'
  <2> USE <1>4 DEF TryAcquire, Free
  <2>1. /\ In("waiting")' = In("waiting")
        /\ In("granted")' = In("granted")
        /\ Holders' = Holders \cup {c}
        /\ c \notin Holders
    BY DEF TypeOK, In, Holders
  <2>2. NobodyForgotten'
    BY <2>1 DEF NobodyForgotten, Lists
  <2>3. TypeOK'
    BY DEF TypeOK
  <2>4. PermitsConserved'
    <3>1. Cardinality(Holders') = Cardinality(Holders) + 1
      BY <1>0, <2>1, FS_AddElement
    <3> QED BY <1>0, <3>1 DEF PermitsConserved, TypeOK
  <2> QED BY <2>2, <2>3, <2>4 DEF NoFreePermitWhileWaiting, TypeOK
<1>5. ASSUME NEW c \in Client, ReleaseHandOff(c) PROVE IInv'
  <2> USE <1>5 DEF ReleaseHandOff, HasWaiter, Dequeued, AfterHandOff
  <2> DEFINE h == Head(waiters)
  <2>0. /\ h \in In("waiting") /\ h \in Client /\ Tail(waiters) \in Seq(Client)
        /\ Lists(Tail(waiters), In("waiting") \ {h})
    BY ListsTail DEF NobodyForgotten, TypeOK
  <2>1. /\ In("waiting")' = In("waiting") \ {h}
        /\ In("granted")' = In("granted") \cup {h}
        /\ h \notin In("granted")
        /\ Holders' = (Holders \ {c}) \cup {h}
        /\ h \notin Holders
        /\ c \in Holders
    BY <2>0 DEF TypeOK, In, Holders
  <2>2. Append(ready, h) \in Seq(Client) /\ Lists(Append(ready, h), In("granted") \cup {h})
    BY <2>0, <2>1, ListsAppend DEF NobodyForgotten, TypeOK
  <2>3. NobodyForgotten'
    <3>1. waiters' = Tail(waiters) /\ ready' = Append(ready, h)
      OBVIOUS
    <3> HIDE DEF h
    <3>2. Lists(waiters', In("waiting")')
      BY ONLY <2>0, <2>1, <3>1
    <3>3. Lists(ready', In("granted")')
      BY ONLY <2>1, <2>2, <3>1
    <3> QED BY ONLY <3>2, <3>3 DEF NobodyForgotten, Lists
  <2>4. TypeOK'
    BY <2>0, <2>2 DEF TypeOK
  <2>5. Cardinality(Holders') = Cardinality(Holders)
    <3>1. /\ IsFiniteSet(Holders \ {c})
          /\ Cardinality(Holders \ {c}) = Cardinality(Holders) - 1
      BY <1>0, <2>1, FS_RemoveElement
    <3>2. Cardinality((Holders \ {c}) \cup {h}) = Cardinality(Holders \ {c}) + 1
      BY <2>1, <3>1, FS_AddElement
    <3> QED BY <1>0, <2>1, <3>1, <3>2
  <2> QED BY <2>3, <2>4, <2>5 DEF PermitsConserved, NoFreePermitWhileWaiting, TypeOK
<1>6. ASSUME NEW c \in Client, ReleaseFree(c) PROVE IInv'
  <2> USE <1>6 DEF ReleaseFree, HasWaiter, AtCapacity
  <2>1. /\ In("waiting")' = In("waiting")
        /\ In("granted")' = In("granted")
        /\ Holders' = Holders \ {c}
        /\ c \in Holders
    BY DEF TypeOK, In, Holders
  <2>2. NobodyForgotten'
    BY <2>1 DEF NobodyForgotten, Lists
  <2>3. TypeOK'
    BY DEF TypeOK
  <2>4. PermitsConserved'
    <3>1. Cardinality(Holders') = Cardinality(Holders) - 1
      BY <1>0, <2>1, FS_RemoveElement
    <3> QED BY <1>0, <3>1 DEF PermitsConserved, TypeOK
  <2> QED BY <2>2, <2>3, <2>4 DEF NoFreePermitWhileWaiting
<1>7. ASSUME NEW c \in Client, ReleaseThrow(c) PROVE IInv'
  <2> USE <1>7 DEF ReleaseThrow, HasWaiter, AtCapacity
  <2>1. /\ In("waiting")' = In("waiting")
        /\ In("granted")' = In("granted")
        /\ Holders' = Holders \ {c}
        /\ c \in Holders
    BY DEF TypeOK, In, Holders
  <2>2. NobodyForgotten'
    BY <2>1 DEF NobodyForgotten, Lists
  <2>3. Cardinality(Holders') = Cardinality(Holders) - 1 /\ Cardinality(Holders') \in Nat
    BY <1>0, <2>1, FS_RemoveElement, FS_CardinalityType
  <2>4. TypeOK'
    BY <1>0, <2>3 DEF TypeOK, PermitsConserved
  <2>5. PermitsConserved'
    <3>1. available + (Cardinality(Holders) - 1) = Capacity + (excess - 1)
      BY <1>0 DEF PermitsConserved, TypeOK
    <3> QED BY <2>3, <3>1 DEF PermitsConserved
  <2> QED BY <2>2, <2>4, <2>5 DEF NoFreePermitWhileWaiting
<1>8. CASE ExcessHandOff
  <2> USE <1>8 DEF ExcessHandOff, HasWaiter, Dequeued, AfterHandOff
  <2> DEFINE h == Head(waiters)
  <2>0. /\ h \in In("waiting") /\ h \in Client /\ Tail(waiters) \in Seq(Client)
        /\ Lists(Tail(waiters), In("waiting") \ {h})
    BY ListsTail DEF NobodyForgotten, TypeOK
  <2>1. /\ In("waiting")' = In("waiting") \ {h}
        /\ In("granted")' = In("granted") \cup {h}
        /\ h \notin In("granted")
        /\ Holders' = Holders \cup {h}
        /\ h \notin Holders
    BY <2>0 DEF TypeOK, In, Holders
  <2>2. Append(ready, h) \in Seq(Client) /\ Lists(Append(ready, h), In("granted") \cup {h})
    BY <2>0, <2>1, ListsAppend DEF NobodyForgotten, TypeOK
  <2>3. NobodyForgotten'
    <3>1. waiters' = Tail(waiters) /\ ready' = Append(ready, h)
      OBVIOUS
    <3> HIDE DEF h
    <3>2. Lists(waiters', In("waiting")')
      BY ONLY <2>0, <2>1, <3>1
    <3>3. Lists(ready', In("granted")')
      BY ONLY <2>1, <2>2, <3>1
    <3> QED BY ONLY <3>2, <3>3 DEF NobodyForgotten, Lists
  <2>4. TypeOK'
    BY <2>0, <2>2 DEF TypeOK
  <2>5. PermitsConserved'
    <3>1. Cardinality(Holders') = Cardinality(Holders) + 1
      BY <1>0, <2>1, FS_AddElement
    <3> QED BY <1>0, <3>1 DEF PermitsConserved, TypeOK
  <2> QED BY <2>3, <2>4, <2>5 DEF NoFreePermitWhileWaiting, TypeOK
<1>9. CASE ExcessFree
  <2> USE <1>9 DEF ExcessFree, HasWaiter, AtCapacity
  <2>1. /\ In("waiting")' = In("waiting")
        /\ In("granted")' = In("granted")
        /\ Holders' = Holders
    BY DEF In, Holders
  <2>2. NobodyForgotten'
    BY <2>1 DEF NobodyForgotten, Lists
  <2> QED
    BY <1>0, <2>1, <2>2 DEF TypeOK, PermitsConserved, NoFreePermitWhileWaiting
<1>10. CASE UNCHANGED vars
  BY <1>10 DEF vars, TypeOK, NobodyForgotten, Lists, In, Holders, PermitsConserved,
               NoFreePermitWhileWaiting
<1> QED
  BY <1>1, <1>2, <1>3, <1>4, <1>5, <1>6, <1>7, <1>8, <1>9, <1>10 DEF Next

-----------------------------------------------------------------------------
(* The types, no forgotten caller, conservation of permits, and no free    *)
(* permit beside a waiting caller, in every reachable state.               *)
THEOREM Invariance == Spec => []IInv
  BY InitIInv, NextIInv, PTL DEF Spec

(* acquire() and release() never let in more callers than there are        *)
(* permits, but for those that a release by a non-holder admitted.         *)
THEOREM Safety == Spec => []Exclusion
<1>1. IInv => Exclusion
  BY HoldersFinite, CapacityAssumption DEF IInv, TypeOK, PermitsConserved, Exclusion
<1> QED BY Invariance, <1>1, PTL

(* release() throws before the releases that returned outnumber the grants. *)
THEOREM OverRelease == Spec => []PanicsWhenOverReleased
<1>1. IInv => PanicsWhenOverReleased
  BY HoldersFinite, CapacityAssumption
  DEF IInv, TypeOK, PermitsConserved, PanicsWhenOverReleased
<1> QED BY Invariance, <1>1, PTL

-----------------------------------------------------------------------------
(* Those ahead of a caller are who they were when somebody joins the queue *)
(* behind him or leaves it at its head.                                    *)
Before(q, c) == {q[i] : i \in {i \in 1 .. Len(q) :
                    \E j \in 1 .. Len(q) : q[j] = c /\ i < j}}

LEMMA BeforeAppend ==
  ASSUME NEW T, NEW q \in Seq(T), NEW c \in T, NEW d \in T, c # d
  PROVE  Before(Append(q, d), c) \subseteq Before(q, c)
<1> DEFINE a == Append(q, d)
<1>1. /\ Len(a) = Len(q) + 1 /\ Len(q) \in Nat
      /\ \A i \in 1 .. Len(q) : a[i] = q[i]
      /\ a[Len(q) + 1] = d
  BY AppendProperties
<1> HIDE DEF a
<1> SUFFICES ASSUME NEW i \in 1 .. Len(a), NEW j \in 1 .. Len(a), a[j] = c, i < j
             PROVE  a[i] \in Before(q, c)
  BY DEF Before, a
<1>2. j # Len(q) + 1
  BY <1>1
<1>3. i \in 1 .. Len(q) /\ j \in 1 .. Len(q)
  BY <1>1, <1>2
<1> QED BY <1>1, <1>3 DEF Before

LEMMA BeforeTail ==
  ASSUME NEW T, NEW q \in Seq(T), q # <<>>, NEW c
  PROVE  /\ Before(Tail(q), c) \subseteq Before(q, c)
         /\ c # Head(q) /\ (\E i \in 1 .. Len(q) : q[i] = c) => Head(q) \in Before(q, c)
<1> DEFINE t == Tail(q)
<1>1. /\ Len(t) = Len(q) - 1 /\ Len(q) \in Nat \ {0}
      /\ \A i \in 1 .. Len(t) : t[i] = q[i + 1]
      /\ Head(q) = q[1]
  BY HeadTailProperties, EmptySeq
<1> HIDE DEF t
<1>2. ASSUME NEW i \in 1 .. Len(t), NEW j \in 1 .. Len(t), t[j] = c, i < j
      PROVE  t[i] \in Before(q, c)
  <2>1. /\ i + 1 \in 1 .. Len(q) /\ j + 1 \in 1 .. Len(q) /\ i + 1 < j + 1
        /\ q[j + 1] = c /\ t[i] = q[i + 1]
    BY <1>1, <1>2
  <2> QED BY <2>1 DEF Before
<1>3. Before(t, c) \subseteq Before(q, c)
  BY <1>2 DEF Before
<1>4. ASSUME c # Head(q), NEW i \in 1 .. Len(q), q[i] = c
      PROVE  Head(q) \in Before(q, c)
  <2>1. 1 \in 1 .. Len(q) /\ 1 < i
    BY <1>1, <1>4
  <2> QED BY <1>1, <1>4, <2>1 DEF Before
<1> QED BY <1>3, <1>4 DEF t

(* First come, first served: nobody gets in ahead of a caller that waits,  *)
(* nor a permit before him from behind, by acquire(), tryAcquire() or      *)
(* release().  A free permit would let tryAcquire() pass; there is none.   *)
THEOREM FirstServed == Spec => NobodyOvertakes
<1>1. ASSUME IInv, Next, NEW c \in Client, pc[c] = "waiting", pc'[c] = "waiting"
      PROVE  /\ Ahead(c)' \subseteq Ahead(c)
             /\ \A d \in Client :
                  pc[d] \in {"idle", "waiting"} /\ pc'[d] \in {"granted", "holding"}
                    => d \in Ahead(c)
  <2>0. /\ TypeOK /\ Lists(waiters, In("waiting")) /\ Lists(ready, In("granted"))
        /\ \E i \in 1 .. Len(waiters) : waiters[i] = c
    BY <1>1 DEF IInv, NobodyForgotten, Lists, In
  <2>1. waiters # <<>> /\ ~Free
    BY <1>1, <2>0, EmptySeq DEF IInv, NoFreePermitWhileWaiting, Free, TypeOK
  <2>2. Ahead(c) = Before(waiters, c) /\ Ahead(c)' = Before(waiters', c)
    BY DEF Ahead, Before
  <2>3. waiters \in Seq(Client) /\ pc \in [Client -> {"idle", "waiting", "granted", "holding"}]
    BY <2>0 DEF TypeOK
  <2>4. ASSUME NEW d \in Client, AcquireWait(d)
        PROVE  Ahead(c)' \subseteq Ahead(c) /\ \A e \in Client : pc'[e] \in {pc[e], "waiting"}
    <3>1. waiters' = Append(waiters, d) /\ d # c /\ pc' = [pc EXCEPT ![d] = "waiting"]
      BY <1>1, <2>4 DEF AcquireWait, Enqueued
    <3> QED BY <2>2, <2>3, <3>1, BeforeAppend
  <2>5. ASSUME NEW d \in Client, Resume(d)
        PROVE  Ahead(c)' = Ahead(c) /\ \A e \in Client : pc'[e] = pc[e] \/ pc[e] = "granted"
    <3>1. pc[d] = "granted"
      <4>1. Head(ready) \in In("granted")
        BY <2>0, <2>5, ListsTail DEF Resume, TypeOK
      <4> QED BY <2>5, <4>1 DEF Resume, In
    <3> QED BY <2>2, <2>3, <2>5, <3>1 DEF Resume
  <2>6. ASSUME waiters' = Tail(waiters),
               \A e \in Client : \/ e = Head(waiters) /\ pc'[e] = "granted"
                                 \/ pc'[e] = pc[e] \/ pc'[e] = "idle"
        PROVE  /\ Ahead(c)' \subseteq Ahead(c)
               /\ \A e \in Client :
                    pc[e] \in {"idle", "waiting"} /\ pc'[e] \in {"granted", "holding"}
                      => e \in Ahead(c)
    <3>1. Before(waiters', c) \subseteq Before(waiters, c)
      BY <2>1, <2>3, <2>6, BeforeTail
    <3>2. c # Head(waiters) => Head(waiters) \in Before(waiters, c)
      BY <2>0, <2>1, <2>3, BeforeTail
    <3> QED BY <1>1, <2>2, <2>3, <2>6, <3>1, <3>2
  <2>7. ASSUME NEW d \in Client, ReleaseHandOff(d)
        PROVE  \A e \in Client : \/ e = Head(waiters) /\ pc'[e] = "granted"
                                 \/ pc'[e] = pc[e] \/ pc'[e] = "idle"
    BY <2>3, <2>7 DEF ReleaseHandOff
  <2>8. ASSUME ExcessHandOff
        PROVE  \A e \in Client : \/ e = Head(waiters) /\ pc'[e] = "granted"
                                 \/ pc'[e] = pc[e] \/ pc'[e] = "idle"
    BY <2>3, <2>8 DEF ExcessHandOff
  <2>9. ASSUME NEW d \in Client, ReleaseFree(d) \/ ReleaseThrow(d)
        PROVE  FALSE
    BY <2>1, <2>9 DEF ReleaseFree, ReleaseThrow, HasWaiter
  <2>10. ~ExcessFree /\ \A d \in Client : ~AcquireFree(d) /\ ~TryAcquire(d)
    BY <2>1 DEF ExcessFree, HasWaiter, AcquireFree, TryAcquire
  <2>11. CASE \E d \in Client : AcquireWait(d)
    BY <2>3, <2>4, <2>11
  <2>12. CASE \E d \in Client : Resume(d)
    BY <2>3, <2>5, <2>12
  <2>13. CASE \E d \in Client : ReleaseHandOff(d)
    BY <2>6, <2>7, <2>13 DEF ReleaseHandOff, Dequeued
  <2>14. CASE ExcessHandOff
    BY <2>6, <2>8, <2>14 DEF ExcessHandOff, Dequeued
  <2> QED
    BY <1>1, <2>9, <2>10, <2>11, <2>12, <2>13, <2>14 DEF Next
<1>2. IInv /\ [Next]_vars =>
        [\A c \in Client : pc[c] = "waiting" /\ pc'[c] = "waiting" =>
            /\ Ahead(c)' \subseteq Ahead(c)
            /\ \A d \in Client :
                 pc[d] \in {"idle", "waiting"} /\ pc'[d] \in {"granted", "holding"}
                   => d \in Ahead(c)]_vars
  BY <1>1 DEF vars
<1> QED BY Invariance, <1>2, PTL DEF Spec, NobodyOvertakes
=============================================================================
