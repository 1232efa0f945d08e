-------------------------- MODULE WorkerPoolProofs --------------------------
(***************************************************************************)
(* Safety of WorkerPool for every finite set of tasks, every set of drain  *)
(* calls and every capacity.  The pool implements Semaphore, so the        *)
(* theorems of SemaphoreProofs hold of it; what is the pool's own is the   *)
(* order of the starts and what a drain can miss.                          *)
(***************************************************************************)
EXTENDS WorkerPool, FiniteSetTheorems, SequenceTheorems, TLAPS

SemP == INSTANCE SemaphoreProofs
          WITH Client <- Task, MaxExcess <- 0, pc <- clientPc, excess <- 0

-----------------------------------------------------------------------------
(* Every step of the pool is a step of its semaphore's specification: it   *)
(* never takes, returns or hands over a permit in a way of its own.        *)
THEOREM Refinement == Spec => UsesSemaphore
<1>1. Init => Sem!Init
  BY DEF Init, Sem!Init, clientPc, CallerState
<1>2. [Next]_vars => [Sem!Next]_(Sem!vars)
  <2> SUFFICES ASSUME [Next]_vars PROVE [Sem!Next]_(Sem!vars)
    OBVIOUS
  <2>1. ASSUME NEW t \in Task, Submit(t) \/ Start(t) \/ Settle(t)
        PROVE  Sem!Next
    BY <2>1 DEF Submit, Start, Settle, Sem!Next
  <2>2. ASSUME NEW d \in Drain, CallDrain(d) \/ DrainReturns(d)
        PROVE  UNCHANGED Sem!vars
    BY <2>2 DEF CallDrain, DrainReturns, semVars, Sem!vars, clientPc
  <2>3. CASE UNCHANGED vars
    BY <2>3 DEF vars, semVars, Sem!vars, clientPc
  <2> QED BY <2>1, <2>2, <2>3 DEF Next
<1> QED BY <1>1, <1>2, PTL DEF Spec, UsesSemaphore, Sem!Spec

(* Hence the pool inherits the semaphore's inductive invariant.  The two   *)
(* instances of Semaphore have the same definitions.                       *)
LEMMA SemInvariance == Spec => []SemP!IInv
<1>1. Sem!Init => SemP!Init
  BY DEF Sem!Init, SemP!Init
<1>2. [Sem!Next]_(Sem!vars) => [SemP!Next]_(SemP!vars)
  BY DEF
      Sem!Next, SemP!Next, Sem!AcquireFree, SemP!AcquireFree,
      Sem!AcquireWait, SemP!AcquireWait, Sem!Resume, SemP!Resume,
      Sem!TryAcquire, SemP!TryAcquire, Sem!ReleaseHandOff,
      SemP!ReleaseHandOff, Sem!ReleaseFree, SemP!ReleaseFree,
      Sem!ReleaseThrow, SemP!ReleaseThrow, Sem!ExcessHandOff,
      SemP!ExcessHandOff, Sem!ExcessFree, SemP!ExcessFree,
      Sem!Free, SemP!Free, Sem!Enqueued, SemP!Enqueued,
      Sem!HasWaiter, SemP!HasWaiter, Sem!Dequeued, SemP!Dequeued,
      Sem!AfterHandOff, SemP!AfterHandOff, Sem!AtCapacity,
      SemP!AtCapacity, Sem!vars, SemP!vars
<1>3. Sem!Spec => SemP!Spec
  BY <1>1, <1>2, PTL DEF Sem!Spec, SemP!Spec
<1>4. SemP!CapacityAssumption /\ SemP!ClientAssumption /\ SemP!ExcessAssumption
  BY CapacityAssumption, TaskAssumption
  DEF SemP!CapacityAssumption, SemP!ClientAssumption, SemP!ExcessAssumption,
      IsFiniteSet, SemP!IsFiniteSet
<1>5. SemP!Spec => []SemP!IInv
  BY <1>4, SemP!Invariance, PTL
<1> QED BY <1>3, <1>5, Refinement, PTL DEF UsesSemaphore

LEMMA Card == \A S : SemP!Cardinality(S) = Cardinality(S)
  BY DEF Cardinality, SemP!Cardinality

-----------------------------------------------------------------------------
(* No more than `concurrency' functions run at once.                       *)
THEOREM Concurrency == Spec => []ConcurrencyBound
<1>1. ASSUME SemP!IInv PROVE ConcurrencyBound
  <2>1. Running \subseteq SemP!Holders /\ SemP!Holders \subseteq Task
    BY DEF Running, SemP!Holders, SemP!In, clientPc, CallerState
  <2>2. /\ Cardinality(Running) <= Cardinality(SemP!Holders)
        /\ Cardinality(SemP!Holders) \in Nat
        /\ Cardinality(Running) \in Nat
    BY <2>1, TaskAssumption, FS_Subset, FS_CardinalityType
  <2>3. available \in Nat /\ available + Cardinality(SemP!Holders) = Capacity
    BY <1>1, Card, CapacityAssumption
    DEF SemP!IInv, SemP!PermitsConserved, SemP!TypeOK
  <2> QED BY <2>2, <2>3, CapacityAssumption DEF ConcurrencyBound
<1> QED BY SemInvariance, <1>1, PTL

-----------------------------------------------------------------------------
(* Between submission and start a task is first in `waiters', then in      *)
(* `ready': the three sequences and `started' are one queue.               *)
Pipeline == order = started \o (ready \o waiters)

OwnTypes ==
    /\ task \in [Task -> {"new", "waiting", "granted", "running", "ok", "failed"}]
    /\ pending \subseteq Task
    /\ drain \in [Drain -> {"idle", "waiting", "returned"}]
    /\ snapshot \in [Drain -> SUBSET Task]
    /\ order \in Seq(Task)
    /\ started \in Seq(Task)
    /\ late \subseteq Task

(* What a waiting drain does not wait for was submitted after its call.    *)
SnapshotsCover ==
    \A d \in Draining : (SubmittedTasks \ Settled) \ snapshot[d] \subseteq late

PoolInv == OwnTypes /\ Pipeline /\ EscapesOnlyIfLate /\ SnapshotsCover

(* The two moves along a queue made of sequences.                          *)
LEMMA AppendConcat ==
  ASSUME NEW T, NEW s \in Seq(T), NEW t \in Seq(T), NEW c \in T
  PROVE  s \o Append(t, c) = Append(s \o t, c)
<1>1. Append(t, c) \in Seq(T) /\ s \o t \in Seq(T)
  OBVIOUS
<1>2. s \o Append(t, c) \in Seq(T) /\ Append(s \o t, c) \in Seq(T)
  BY <1>1
<1>3. Len(s \o Append(t, c)) = Len(Append(s \o t, c))
  BY <1>1
<1>4. ASSUME NEW i \in 1 .. Len(s \o Append(t, c))
      PROVE  (s \o Append(t, c))[i] = Append(s \o t, c)[i]
  BY <1>1
<1> QED BY <1>2, <1>3, <1>4, SeqEqual

LEMMA MoveHead ==
  ASSUME NEW T, NEW s \in Seq(T), NEW t \in Seq(T), t # <<>>
  PROVE  Append(s, Head(t)) \o Tail(t) = s \o t
<1>1. /\ Head(t) \in T /\ Tail(t) \in Seq(T) /\ Append(s, Head(t)) \in Seq(T)
      /\ Len(Tail(t)) = Len(t) - 1 /\ Len(t) \in Nat \ {0}
      /\ \A i \in 1 .. Len(Tail(t)) : Tail(t)[i] = t[i + 1]
      /\ Head(t) = t[1]
  BY HeadTailProperties, EmptySeq
<1>2. Append(s, Head(t)) \o Tail(t) \in Seq(T) /\ s \o t \in Seq(T)
  BY <1>1
<1>3. Len(Append(s, Head(t)) \o Tail(t)) = Len(s \o t)
  BY <1>1
<1>4. ASSUME NEW i \in 1 .. Len(s \o t)
      PROVE  (Append(s, Head(t)) \o Tail(t))[i] = (s \o t)[i]
  <2>1. CASE i <= Len(s)
    BY <1>1, <2>1
  <2>2. CASE i = Len(s) + 1
    BY <1>1, <2>2
  <2>3. CASE i > Len(s) + 1
    BY <1>1, <2>3
  <2> QED BY <2>1, <2>2, <2>3
<1> QED BY <1>2, <1>3, <1>4, SeqEqual

LEMMA Assoc ==
  ASSUME NEW T, NEW s \in Seq(T), NEW t \in Seq(T), NEW u \in Seq(T)
  PROVE  (s \o t) \o u = s \o (t \o u)
  BY ConcatAssociative

LEMMA Assocs ==
  ASSUME NEW T, NEW u \in Seq(T)
  PROVE  \A s, t \in Seq(T) : (s \o t) \o u = s \o (t \o u)
  BY Assoc

LEMMA Shifts ==
  ASSUME NEW T
  PROVE  \A s, t, u \in Seq(T) :
            t # <<>> => Append(s, Head(t)) \o (Tail(t) \o u) = s \o (t \o u)
<1> SUFFICES ASSUME NEW s \in Seq(T), NEW t \in Seq(T), NEW u \in Seq(T), t # <<>>
             PROVE  Append(s, Head(t)) \o (Tail(t) \o u) = s \o (t \o u)
  OBVIOUS
<1>1. Append(s, Head(t)) \in Seq(T) /\ Tail(t) \in Seq(T)
  BY HeadTailProperties
<1>2. Append(s, Head(t)) \o Tail(t) = s \o t
  BY MoveHead
<1>3. \A a, b \in Seq(T) : (a \o b) \o u = a \o (b \o u)
  BY Assocs
<1>4. (s \o t) \o u = s \o (t \o u)
  BY <1>3
<1>5. (Append(s, Head(t)) \o Tail(t)) \o u = Append(s, Head(t)) \o (Tail(t) \o u)
  BY <1>1, <1>3
<1>6. (Append(s, Head(t)) \o Tail(t)) \o u = (s \o t) \o u
  BY <1>2
<1> QED BY <1>4, <1>5, <1>6

(* The pipeline of starts keeps its order when the head of ready starts.   *)
LEMMA PipelineStart ==
  started \in Seq(Task) /\ ready \in Seq(Task) /\ waiters \in Seq(Task)
     => (ready # <<>> => Append(started, Head(ready)) \o (Tail(ready) \o waiters)
                           = started \o (ready \o waiters))
  BY Shifts

(* What the pool's steps need to know of the semaphore's state.            *)
LEMMA SemFacts ==
  ASSUME SemP!IInv, OwnTypes
  PROVE  /\ waiters \in Seq(Task) /\ ready \in Seq(Task) /\ available \in Nat
         /\ waiters # <<>> => /\ available = 0
                             /\ Head(waiters) \in Task
                             /\ task[Head(waiters)] = "waiting"
         /\ ready # <<>> => /\ Head(ready) \in Task
                           /\ task[Head(ready)] = "granted"
<1>1. waiters \in Seq(Task) /\ ready \in Seq(Task) /\ available \in Nat
  BY CapacityAssumption DEF SemP!IInv, SemP!TypeOK
<1>2. ASSUME NEW q \in Seq(Task), q # <<>>
      PROVE  Head(q) \in Task /\ Head(q) \in {q[i] : i \in 1 .. Len(q)}
  BY <1>2, EmptySeq
<1>3. waiters # <<>> => clientPc[Head(waiters)] = "waiting"
  BY <1>1, <1>2 DEF SemP!IInv, SemP!NobodyForgotten, SemP!Lists, SemP!In
<1>4. ready # <<>> => clientPc[Head(ready)] = "granted"
  BY <1>1, <1>2 DEF SemP!IInv, SemP!NobodyForgotten, SemP!Lists, SemP!In
<1> QED
  BY <1>1, <1>2, <1>3, <1>4
  DEF SemP!IInv, SemP!NoFreePermitWhileWaiting, OwnTypes, clientPc, CallerState

LEMMA InitPoolInv == Init => PoolInv
<1> SUFFICES ASSUME Init PROVE PoolInv
  OBVIOUS
<1>1. SubmittedTasks = {}
  BY DEF Init, SubmittedTasks
<1>2. Pipeline
  BY ConcatEmptySeq, EmptySeq DEF Init, Pipeline
<1> QED
  BY <1>1, <1>2 DEF Init, PoolInv, OwnTypes, EscapesOnlyIfLate, SnapshotsCover

LEMMA NextPoolInv == PoolInv /\ SemP!IInv /\ [Next]_vars => PoolInv'
<1> SUFFICES ASSUME PoolInv, SemP!IInv, [Next]_vars PROVE PoolInv'
  OBVIOUS
<1> USE DEF PoolInv
<1>0. OwnTypes /\ SemP!IInv
  OBVIOUS
<1>1. ASSUME NEW t \in Task, Submit(t) PROVE PoolInv'
  <2>0. order' = Append(order, t) /\ order \in Seq(Task)
    BY <1>1 DEF Submit, OwnTypes
  <2>1. OwnTypes'
    BY <1>1 DEF Submit, OwnTypes
  <2>2. Pipeline'
    <3>1. CASE /\ started' = started /\ waiters' = waiters /\ waiters = <<>>
               /\ ready' = Append(ready, t)
      <4>1. /\ ready' \o waiters' = Append(ready, t)
            /\ ready \o waiters = ready
        BY <3>1, SemFacts, ConcatEmptySeq
      <4>2. started \o Append(ready, t) = Append(started \o ready, t)
        BY SemFacts, AppendConcat DEF OwnTypes
      <4> QED BY <2>0, <3>1, <4>1, <4>2 DEF Pipeline
    <3>2. CASE /\ started' = started /\ ready' = ready
               /\ waiters' = Append(waiters, t)
      <4>1. ready' \o waiters' = Append(ready \o waiters, t)
        BY <3>2, SemFacts, AppendConcat
      <4>2. ready \o waiters \in Seq(Task)
        BY SemFacts
      <4>3. started \in Seq(Task)
        BY DEF OwnTypes
      <4>4. started \o Append(ready \o waiters, t)
               = Append(started \o (ready \o waiters), t)
        BY <4>2, <4>3, AppendConcat
      <4> QED BY <2>0, <3>2, <4>1, <4>4 DEF Pipeline
    <3> QED
      BY <1>1, <3>1, <3>2, SemFacts
      DEF Submit, Sem!AcquireFree, Sem!AcquireWait, Sem!Free, Sem!Enqueued
  <2>3. SubmittedTasks' = SubmittedTasks \cup {t}
    <3>1. /\ Len(order') = Len(order) + 1 /\ Len(order) \in Nat
          /\ \A i \in 1 .. Len(order) : order'[i] = order[i]
          /\ order'[Len(order) + 1] = t
      BY <2>0
    <3>2. \A x \in SubmittedTasks \cup {t} : \E i \in 1 .. Len(order') : x = order'[i]
      BY <3>1 DEF SubmittedTasks
    <3>3. \A i \in 1 .. Len(order') : order'[i] \in SubmittedTasks \cup {t}
      BY <3>1 DEF SubmittedTasks
    <3> QED BY <3>2, <3>3 DEF SubmittedTasks
  <2>4. Settled' = Settled
    BY <1>1 DEF Submit, Settled, OwnTypes
  <2>5. EscapesOnlyIfLate'
    BY <1>1, <2>3, <2>4 DEF Submit, EscapesOnlyIfLate
  <2>6. SnapshotsCover'
    BY <1>1, <2>3, <2>4 DEF Submit, SnapshotsCover, Draining
  <2> QED BY <2>1, <2>2, <2>5, <2>6
<1>2. ASSUME NEW t \in Task, Start(t) PROVE PoolInv'
  <2>1. OwnTypes'
    BY <1>2 DEF Start, Sem!Resume, OwnTypes, poolVars
  <2>2. Pipeline'
    <3>1. started \in Seq(Task) /\ ready \in Seq(Task) /\ waiters \in Seq(Task)
      BY SemFacts DEF OwnTypes
    <3>2. ready # <<>> /\ ready' = Tail(ready) /\ waiters' = waiters
      BY <1>2 DEF Start, Sem!Resume
    <3>3. started' = Append(started, Head(ready)) /\ order' = order
      BY <1>2 DEF Start, Sem!Resume
    <3>4. Append(started, Head(ready)) \o (Tail(ready) \o waiters)
             = started \o (ready \o waiters)
      BY <3>1, <3>2, PipelineStart
    <3> QED BY <3>2, <3>3, <3>4 DEF Pipeline
  <2>3. Settled' = Settled /\ SubmittedTasks' = SubmittedTasks
    BY <1>2, SemFacts DEF Start, Sem!Resume, Settled, SubmittedTasks, OwnTypes
  <2> QED
    BY <1>2, <2>1, <2>2, <2>3 DEF Start, Sem!Resume, poolVars, EscapesOnlyIfLate, SnapshotsCover, Draining
<1>3. ASSUME NEW t \in Task, Settle(t) PROVE PoolInv'
  <2> USE <1>3 DEF Settle, poolVars, history
  <2>1. OwnTypes'
    BY DEF OwnTypes
  <2>2. Pipeline'
    <3>1. CASE waiters' = waiters /\ ready' = ready
      BY <3>1 DEF Pipeline
    <3>2. CASE /\ waiters # <<>> /\ waiters' = Tail(waiters)
               /\ ready' = Append(ready, Head(waiters))
      BY <3>2, SemFacts, MoveHead DEF Pipeline
    <3> QED
      BY <3>1, <3>2
      DEF Sem!ReleaseHandOff, Sem!ReleaseFree, Sem!HasWaiter, Sem!Dequeued
  <2>3. Settled \subseteq Settled' /\ SubmittedTasks' = SubmittedTasks
    BY SemFacts DEF Settled, SubmittedTasks, OwnTypes, Sem!HasWaiter
  <2> QED
    BY <2>1, <2>2, <2>3 DEF EscapesOnlyIfLate, SnapshotsCover, Draining
<1>4. ASSUME NEW d \in Drain, CallDrain(d) PROVE PoolInv'
  BY <1>4
  DEF CallDrain, semVars, history, OwnTypes, Pipeline, EscapesOnlyIfLate,
      SnapshotsCover, Draining, SubmittedTasks, Settled
<1>5. ASSUME NEW d \in Drain, DrainReturns(d) PROVE PoolInv'
  <2> USE <1>5 DEF DrainReturns, AllSettled, semVars, history
  <2>1. OwnTypes' /\ Pipeline'
    BY DEF OwnTypes, Pipeline
  <2>2. SubmittedTasks \ Settled \subseteq late
    BY DEF SnapshotsCover, Draining
  <2> QED
    BY <2>1, <2>2
    DEF EscapesOnlyIfLate, SnapshotsCover, Draining, SubmittedTasks, Settled
<1>6. CASE UNCHANGED vars
  BY <1>6
  DEF vars, semVars, poolVars, history, OwnTypes, Pipeline, EscapesOnlyIfLate,
      SnapshotsCover, Draining, SubmittedTasks, Settled
<1> QED BY <1>1, <1>2, <1>3, <1>4, <1>5, <1>6 DEF Next

LEMMA PoolInvariance == Spec => []PoolInv
  BY InitPoolInv, NextPoolInv, SemInvariance, PTL DEF Spec

-----------------------------------------------------------------------------
(* Every variable keeps its type.                                          *)
THEOREM TypeCorrect == Spec => []TypeOK
<1>1. SemP!IInv /\ PoolInv => TypeOK
  BY DEF SemP!IInv, SemP!TypeOK, PoolInv, OwnTypes, TypeOK
<1> QED BY <1>1, SemInvariance, PoolInvariance, PTL

(* Functions are called in the order in which they were submitted.         *)
THEOREM StartOrder == Spec => []StartsInOrder
<1>1. ASSUME SemP!IInv, PoolInv PROVE StartsInOrder
  <2>1. started \in Seq(Task) /\ ready \o waiters \in Seq(Task)
    BY <1>1, SemFacts DEF PoolInv, OwnTypes
  <2> QED
    BY <1>1, <2>1, ConcatProperties DEF PoolInv, Pipeline, StartsInOrder
<1> QED BY <1>1, SemInvariance, PoolInvariance, PTL

(* drain() can miss only tasks submitted while an earlier drain() waited.  *)
THEOREM DrainMisses == Spec => []EscapesOnlyIfLate
<1>1. PoolInv => EscapesOnlyIfLate
  BY DEF PoolInv
<1> QED BY <1>1, PoolInvariance, PTL

(* The pool keeps its types, its bound on running functions and the order  *)
(* of submission.                                                          *)
THEOREM Invariance == Spec => []PoolSafety
  BY TypeCorrect, Concurrency, StartOrder, PTL DEF PoolSafety
=============================================================================
