----------------------------- MODULE WorkerPool -----------------------------
(***************************************************************************)
(* WorkerPool of src/src/pool/index.ts: submit() starts an async closure   *)
(* around a private Semaphore and remembers its promise in `pending';      *)
(* drain() waits for the promises that are in `pending' when it is called, *)
(* then empties the list.                                                  *)
(*                                                                         *)
(* The pool's own steps are composed with the actions of Semaphore; that   *)
(* every behaviour of the pool is a behaviour of Semaphore is checked as a *)
(* property and proved in WorkerPoolProofs.                                *)
(***************************************************************************)
EXTENDS Naturals, Sequences, FiniteSets

CONSTANTS
    Task,        \* the functions submitted
    Drain,       \* the calls of drain()
    Capacity     \* the constructor's `concurrency'

ASSUME CapacityAssumption == Capacity \in Nat \ {0}
ASSUME TaskAssumption     == IsFiniteSet(Task)

VARIABLES
    available, waiters, ready,   \* the private semaphore
    task,        \* task[t]: where the closure of t is
    pending,     \* this.pending, as a set: its order is never used
    drain,       \* drain[d]: where the call d is
    snapshot,    \* snapshot[d]: what Promise.allSettled was given
    order,       \* history: the tasks in the order of their submission
    started,     \* history: the tasks in the order in which fn() was called
    late         \* history: tasks submitted while a drain was waiting

semVars  == <<available, waiters, ready>>
poolVars == <<pending, drain, snapshot>>
history  == <<order, started, late>>
vars == <<semVars, task, poolVars, history>>

(* A closure as the semaphore sees it. *)
CallerState(s) == CASE s \in {"new", "ok", "failed"} -> "idle"
                    [] s = "running" -> "holding"
                    [] OTHER -> s

clientPc == [t \in Task |-> CallerState(task[t])]

Sem == INSTANCE Semaphore
         WITH Client <- Task, MaxExcess <- 0, pc <- clientPc, excess <- 0

Settled == {t \in Task : task[t] \in {"ok", "failed"}}
Running == {t \in Task : task[t] = "running"}
Draining == {d \in Drain : drain[d] = "waiting"}
SubmittedTasks == {order[i] : i \in 1 .. Len(order)}

Init ==
    /\ available = Capacity
    /\ waiters = <<>>
    /\ ready = <<>>
    /\ task = [t \in Task |-> "new"]
    /\ pending = {}
    /\ drain = [d \in Drain |-> "idle"]
    /\ snapshot = [d \in Drain |-> {}]
    /\ order = <<>>
    /\ started = <<>>
    /\ late = {}

-----------------------------------------------------------------------------
(* submit() runs up to `await this.semaphore.acquire()' and pushes the     *)
(* promise in the same callback.                                           *)
Submit(t) ==
    /\ task[t] = "new"
    /\ \/ /\ task' = [task EXCEPT ![t] = "granted"]
          /\ Sem!AcquireFree(t)
       \/ /\ task' = [task EXCEPT ![t] = "waiting"]
          /\ Sem!AcquireWait(t)
    /\ pending' = pending \cup {t}
    /\ order' = Append(order, t)
    /\ late' = IF Draining # {} THEN late \cup {t} ELSE late
    /\ UNCHANGED <<drain, snapshot, started>>

(* [fn() called without waiting for the permit] *)
StartUnpermitted(t) ==
    /\ task[t] \in {"waiting", "granted"}
    /\ task' = [task EXCEPT ![t] = "running"]
    /\ started' = Append(started, t)
    /\ UNCHANGED <<semVars, poolVars, order, late>>

(* The closure continues and calls fn(). *)
Start(t) ==
    /\ task' = [task EXCEPT ![t] = "running"]
    /\ Sem!Resume(t)
    /\ started' = Append(started, t)
    /\ UNCHANGED <<poolVars, order, late>>

(* fn() fulfilled, rejected or threw: `finally' releases, whatever happened. *)
Settle(t) ==
    /\ task[t] = "running"
    /\ \E result \in {"ok", "failed"} :
        \/ /\ Sem!HasWaiter
           /\ task' = [task EXCEPT ![t] = result, ![Head(waiters)] = "granted"]
           /\ Sem!ReleaseHandOff(t)
        \/ /\ task' = [task EXCEPT ![t] = result]
           /\ Sem!ReleaseFree(t)
    /\ UNCHANGED <<poolVars, history>>

(* drain() takes the list as it is. *)
CallDrain(d) ==
    /\ drain[d] = "idle"
    /\ drain' = [drain EXCEPT ![d] = "waiting"]
    /\ snapshot' = [snapshot EXCEPT ![d] = pending]
    /\ UNCHANGED <<semVars, task, pending, history>>

(* [Promise.race for Promise.allSettled] *)
FirstSettled(d) == snapshot[d] = {} \/ snapshot[d] \cap Settled # {}
AllSettled(d) == snapshot[d] \subseteq Settled

(* allSettled resolved: `this.pending.length = 0' drops the whole list,    *)
(* what was pushed since the call included.                                *)
DrainReturns(d) ==
    /\ drain[d] = "waiting"
    /\ AllSettled(d)
    /\ drain' = [drain EXCEPT ![d] = "returned"]
    /\ snapshot' = [snapshot EXCEPT ![d] = {}]
    /\ pending' = {}
    /\ UNCHANGED <<semVars, task, history>>

Next ==
    \/ \E t \in Task : Submit(t) \/ Start(t) \/ Settle(t)
    \/ \E d \in Drain : CallDrain(d) \/ DrainReturns(d)

Spec == Init /\ [][Next]_vars

(* Continuations run, and every submitted function settles. *)
Fairness ==
    /\ \A t \in Task : WF_vars(Start(t)) /\ WF_vars(Settle(t))
    /\ \A d \in Drain : WF_vars(DrainReturns(d))

FairSpec == Spec /\ Fairness

-----------------------------------------------------------------------------
(* The variables have their types. *)
TypeOK ==
    /\ available \in 0 .. Capacity
    /\ waiters \in Seq(Task)
    /\ ready \in Seq(Task)
    /\ task \in [Task -> {"new", "waiting", "granted", "running", "ok", "failed"}]
    /\ pending \subseteq Task
    /\ drain \in [Drain -> {"idle", "waiting", "returned"}]
    /\ snapshot \in [Drain -> SUBSET Task]
    /\ order \in Seq(Task)
    /\ started \in Seq(Task)
    /\ late \subseteq Task

(* No more than `concurrency' functions run at once. *)
ConcurrencyBound == Cardinality(Running) <= Capacity

(* Functions are started in the order of submission, though some closures  *)
(* get their permit at once and others by hand-off.                        *)
StartsInOrder == \A i \in 1 .. Len(started) : started[i] = order[i]

(* A task can escape the next drain() only because it was submitted while  *)
(* an earlier drain() was waiting.                                         *)
EscapesOnlyIfLate == (SubmittedTasks \ Settled) \ pending \subseteq late

(* What README.md:97 says of drain(), "wait for all pending tasks": no     *)
(* call returns while a task submitted before it was called is unsettled.  *)
(* The code does not keep it: see the run pool_drain_claim.                *)
DrainWaitsForAllPending ==
    [][\A d \in Drain : drain[d] = "idle" /\ drain'[d] = "waiting" =>
          SubmittedTasks \ Settled \subseteq snapshot'[d]]_vars

(* Every submitted task settles and every drain() returns: a failing task  *)
(* blocks neither the tasks behind it nor the drain.                       *)
AllSettle ==
    /\ \A t \in Task : t \in pending ~> t \in Settled
    /\ \A d \in Drain : drain[d] = "waiting" ~> drain[d] = "returned"

(* The pool uses its semaphore as Semaphore's callers must. *)
UsesSemaphore == Sem!Spec

(* The pool's invariant, together with the semaphore's. *)
PoolSafety == TypeOK /\ ConcurrencyBound /\ StartsInOrder
=============================================================================
