------------------------------ MODULE Semaphore ------------------------------
(***************************************************************************)
(* The counting semaphore of src/src/async/index.ts: a counter of free     *)
(* permits and a FIFO of waiting resolvers.  release() hands its permit to *)
(* the longest waiter instead of incrementing the counter.                 *)
(*                                                                         *)
(* An awaited acquire() continues in a microtask: between the grant of the *)
(* permit and the continuation other callbacks run.  `ready' is the part   *)
(* of the microtask queue that holds those continuations, in order.        *)
(***************************************************************************)
EXTENDS Naturals, Sequences, FiniteSets

CONSTANTS
    Client,      \* the callers of acquire(), tryAcquire() and release()
    Capacity,    \* the constructor's argument
    MaxExcess    \* bound: how far releases by non-holders may run ahead

ASSUME CapacityAssumption == Capacity \in Nat \ {0}
ASSUME ClientAssumption   == IsFiniteSet(Client)
ASSUME ExcessAssumption   == MaxExcess \in Nat

VARIABLES
    available,   \* this._available
    waiters,     \* this._waiters: the callers whose resolver is queued
    ready,       \* callers whose acquire() resolved and has not yet continued
    pc,          \* what each caller is doing
    excess       \* releases without a permit that did not throw, less those
                 \* that a holder's release paid back by throwing

vars == <<available, waiters, ready, pc, excess>>

Init ==
    /\ available = Capacity
    /\ waiters = <<>>
    /\ ready = <<>>
    /\ pc = [c \in Client |-> "idle"]
    /\ excess = 0

In(state) == {c \in Client : pc[c] = state}
Holders == In("granted") \cup In("holding")

-----------------------------------------------------------------------------
(* The tests and updates that acquire() and release() are made of; here    *)
(* and elsewhere an operator with a remark in brackets is a plausible      *)
(* mistake in the one after it, which a property below is shown to catch.  *)
Free == available > 0

QueueAtFront(c) == <<c>> \o waiters               \* [unshift for push]
Enqueued(c) == Append(waiters, c)

IgnoresWaiters == FALSE                           \* [always frees]
HasWaiter == waiters # <<>>

Dequeued == Tail(waiters)

AlsoFrees == available + 1                        \* [counts a hand-off twice]
AfterHandOff == available

AboveCapacity == available > Capacity             \* [> for >=]
AtCapacity == available >= Capacity

(* acquire(): a free permit is taken at once, else the resolver is queued. *)
AcquireFree(c) ==
    /\ pc[c] = "idle"
    /\ Free
    /\ available' = available - 1
    /\ ready' = Append(ready, c)
    /\ pc' = [pc EXCEPT ![c] = "granted"]
    /\ UNCHANGED <<waiters, excess>>

AcquireWait(c) ==
    /\ pc[c] = "idle"
    /\ ~Free
    /\ waiters' = Enqueued(c)
    /\ pc' = [pc EXCEPT ![c] = "waiting"]
    /\ UNCHANGED <<available, ready, excess>>

(* The continuation of `await acquire()': microtasks run in FIFO order.    *)
Resume(c) ==
    /\ ready # <<>>
    /\ c = Head(ready)
    /\ ready' = Tail(ready)
    /\ pc' = [pc EXCEPT ![c] = "holding"]
    /\ UNCHANGED <<available, waiters, excess>>

(* tryAcquire() is synchronous; it returns false, changing nothing, when   *)
(* no permit is free.                                                      *)
TryAcquire(c) ==
    /\ pc[c] = "idle"
    /\ Free
    /\ available' = available - 1
    /\ pc' = [pc EXCEPT ![c] = "holding"]
    /\ UNCHANGED <<waiters, ready, excess>>

(* release() by a holder: hand over, free, or throw (possible only after a *)
(* release by a non-holder).                                               *)
ReleaseHandOff(c) ==
    /\ pc[c] = "holding"
    /\ HasWaiter
    /\ waiters' = Dequeued
    /\ ready' = Append(ready, Head(waiters))
    /\ available' = AfterHandOff
    /\ pc' = [pc EXCEPT ![c] = "idle", ![Head(waiters)] = "granted"]
    /\ UNCHANGED excess

ReleaseFree(c) ==
    /\ pc[c] = "holding"
    /\ ~HasWaiter
    /\ ~AtCapacity
    /\ available' = available + 1
    /\ pc' = [pc EXCEPT ![c] = "idle"]
    /\ UNCHANGED <<waiters, ready, excess>>

ReleaseThrow(c) ==
    /\ pc[c] = "holding"
    /\ ~HasWaiter
    /\ AtCapacity
    /\ pc' = [pc EXCEPT ![c] = "idle"]
    /\ excess' = excess - 1
    /\ UNCHANGED <<available, waiters, ready>>

(* release() by a caller that holds nothing.  It throws, and changes       *)
(* nothing, exactly when nobody waits and every permit is free.            *)
ExcessHandOff ==
    /\ excess < MaxExcess
    /\ HasWaiter
    /\ waiters' = Dequeued
    /\ ready' = Append(ready, Head(waiters))
    /\ available' = AfterHandOff
    /\ pc' = [pc EXCEPT ![Head(waiters)] = "granted"]
    /\ excess' = excess + 1

ExcessFree ==
    /\ excess < MaxExcess
    /\ ~HasWaiter
    /\ ~AtCapacity
    /\ available' = available + 1
    /\ excess' = excess + 1
    /\ UNCHANGED <<waiters, ready, pc>>

Next ==
    \/ \E c \in Client :
        \/ AcquireFree(c)
        \/ AcquireWait(c)
        \/ Resume(c)
        \/ TryAcquire(c)
        \/ ReleaseHandOff(c)
        \/ ReleaseFree(c)
        \/ ReleaseThrow(c)
    \/ ExcessHandOff
    \/ ExcessFree

Spec == Init /\ [][Next]_vars

(* Microtasks run; a caller that was given the permit gives it back. *)
Release(c) == ReleaseHandOff(c) \/ ReleaseFree(c) \/ ReleaseThrow(c)
Fairness == \A c \in Client : WF_vars(Resume(c)) /\ WF_vars(Release(c))

FairSpec == Spec /\ Fairness

-----------------------------------------------------------------------------
(* The variables have their types.                                         *)
TypeOK ==
    /\ available \in 0 .. Capacity
    /\ waiters \in Seq(Client)
    /\ ready \in Seq(Client)
    /\ pc \in [Client -> {"idle", "waiting", "granted", "holding"}]
    /\ excess \in Nat

(* q lists the members of S, each once.                                    *)
Lists(q, S) ==
    /\ \A i, j \in 1 .. Len(q) : q[i] = q[j] => i = j
    /\ S = {q[i] : i \in 1 .. Len(q)}

(* No caller of acquire() is forgotten or resumed twice: the resolver      *)
(* queue holds exactly the callers that wait, and the microtask queue      *)
(* exactly those that were granted.                                        *)
NobodyForgotten == Lists(waiters, In("waiting")) /\ Lists(ready, In("granted"))

(* Permits are neither lost nor created, across hand-offs, barging         *)
(* tryAcquire() calls and the throw of release(): what is free and what is *)
(* held add up to the capacity, plus the releases nobody had a permit for. *)
PermitsConserved == available + Cardinality(Holders) = Capacity + excess

(* release() never leaves a permit free while a resolver is queued, so     *)
(* tryAcquire() cannot overtake a waiting acquire().                       *)
NoFreePermitWhileWaiting == waiters # <<>> => available = 0

(* The invariant that is inductive: what each part says of a queue or a    *)
(* count is kept only with the help of the others.                         *)
IInv == TypeOK /\ NobodyForgotten /\ PermitsConserved /\ NoFreePermitWhileWaiting

(* It implies the semaphore's promise: no more holders than permits, when  *)
(* nobody releases a permit he does not hold ...                           *)
Exclusion == Cardinality(Holders) <= Capacity + excess

(* ... and "Panics if called more times than acquire" (index.ts:100): the  *)
(* calls of release() that return never outnumber the permits granted.     *)
PanicsWhenOverReleased == excess <= Cardinality(Holders)

(* The callers that wait ahead of c. *)
Ahead(c) == {waiters[i] : i \in {i \in 1 .. Len(waiters) :
                \E j \in 1 .. Len(waiters) : waiters[j] = c /\ i < j}}

(* First come, first served: no step lets anybody in ahead of a caller     *)
(* that goes on waiting, and nobody behind him is granted before him.      *)
NobodyOvertakes ==
    [][\A c \in Client : pc[c] = "waiting" /\ pc'[c] = "waiting" =>
          /\ Ahead(c)' \subseteq Ahead(c)
          /\ \A d \in Client : pc[d] \in {"idle", "waiting"} /\ pc'[d] \in {"granted", "holding"}
                => d \in Ahead(c)]_vars

(* A waiting caller gets a permit, even though tryAcquire() callers and    *)
(* later acquire() callers go on competing for it.                         *)
WaiterServed == \A c \in Client : pc[c] = "waiting" ~> pc[c] = "holding"
=============================================================================
