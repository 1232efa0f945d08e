-------------------------------- MODULE Saga --------------------------------
(***************************************************************************)
(* Saga of src/src/saga/index.ts: runs of one saga, which may overlap each *)
(* other and calls of addStep(), as a run's loop reads the shared list of  *)
(* steps anew in every round.                                              *)
(***************************************************************************)
EXTENDS Naturals, Sequences, SequencesExt

CONSTANTS
    MaxSteps,      \* bound: steps added
    Compensable,   \* the steps that have a compensate()
    Run            \* calls of run()

Step == 1 .. MaxSteps

StepsAssumption == MaxSteps \in Nat /\ Compensable \subseteq Step

VARIABLES
    steps,       \* this.steps.length
    state,       \* state[r]: "idle", "executing", "compensating", "returned",
                 \* "SagaError" or "TypeError"
    i,           \* i[r]: the loop variable of run(), then of compensate()
    completed,   \* completed[r]
    cause,       \* cause[r]: what the failed step rejected with, or "none"
    undone       \* history: steps whose compensate() was called by r

vars == <<steps, state, i, completed, cause, undone>>

Init ==
    /\ steps = 0
    /\ state = [r \in Run |-> "idle"]
    /\ i = [r \in Run |-> 0]
    /\ completed = [r \in Run |-> <<>>]
    /\ cause = [r \in Run |-> "none"]
    /\ undone = [r \in Run |-> <<>>]

AddStep ==
    /\ steps < MaxSteps
    /\ steps' = steps + 1
    /\ UNCHANGED <<state, i, completed, cause, undone>>

(* The loop of run(): execute the next step, or return the context.        *)
HasStep(n) == n <= steps

Execute(r, n) ==
    /\ i' = [i EXCEPT ![r] = n]
    /\ state' = [state EXCEPT ![r] = IF HasStep(n) THEN "executing" ELSE "returned"]

CallRun(r) ==
    /\ state[r] = "idle"
    /\ Execute(r, 1)
    /\ UNCHANGED <<steps, completed, cause, undone>>

Pushed(r) == Append(completed[r], i[r])

StepFulfils(r) ==
    /\ state[r] = "executing"
    /\ completed' = [completed EXCEPT ![r] = Pushed(r)]
    /\ Execute(r, i[r] + 1)
    /\ UNCHANGED <<steps, cause, undone>>

(* The loop of compensate(), down from index n of completed.  Behind it    *)
(* run() throws; the constructor of SagaError itself throws when the cause *)
(* is null or undefined and so has no message.                             *)
Downwards(r, n) ==
    {m \in 1 .. n : completed[r][m] \in Compensable}

ThrowWith(reason) == IF reason = "undefined" THEN "TypeError" ELSE "SagaError"

Compensate(r, n, reason) ==
    IF Downwards(r, n) = {}
      THEN /\ state' = [state EXCEPT ![r] = ThrowWith(reason)]
           /\ UNCHANGED <<i, undone>>
      ELSE \E m \in Downwards(r, n) :
           /\ \A k \in Downwards(r, n) : k <= m
           /\ state' = [state EXCEPT ![r] = "compensating"]
           /\ i' = [i EXCEPT ![r] = m]
           /\ undone' = [undone EXCEPT ![r] = Append(@, completed[r][m])]

StepRejects(r) ==
    /\ state[r] = "executing"
    /\ \E reason \in {"error", "undefined"} :
         /\ cause' = [cause EXCEPT ![r] = reason]
         /\ Compensate(r, Len(completed[r]), reason)
    /\ UNCHANGED <<steps, completed>>

(* compensate() of a step fulfils, or rejects: the loop goes on.           *)
Abandon(r) ==                                    \* [no catch in the loop]
    /\ state' = [state EXCEPT ![r] = "SagaError"]
    /\ UNCHANGED <<i, undone>>
AfterError(r) == Compensate(r, i[r] - 1, cause[r])

CompensationSettles(r) ==
    /\ state[r] = "compensating"
    /\ \E fails \in BOOLEAN :
         IF fails THEN AfterError(r) ELSE Compensate(r, i[r] - 1, cause[r])
    /\ UNCHANGED <<steps, completed, cause>>

Settles(r) == StepFulfils(r) \/ StepRejects(r) \/ CompensationSettles(r)

Next == AddStep \/ \E r \in Run : CallRun(r) \/ Settles(r)

Spec == Init /\ [][Next]_vars

-----------------------------------------------------------------------------
Threw(r) == state[r] \in {"SagaError", "TypeError"}

(* The variables have their types; a step completes once and in order.     *)
TypeOK ==
    /\ steps \in 0 .. MaxSteps
    /\ state \in [Run -> {"idle", "executing", "compensating", "returned",
                          "SagaError", "TypeError"}]
    /\ i \in [Run -> 0 .. steps + 1]
    /\ completed \in [Run -> Seq(Step)]
    /\ \A r \in Run : /\ Len(completed[r]) <= steps
                      /\ \A n \in 1 .. Len(completed[r]) : completed[r][n] = n
    /\ cause \in [Run -> {"none", "error", "undefined"}]
    /\ undone \in [Run -> Seq(Step)]

(* Where each loop of a run is: behind the completed steps, or at the last *)
(* of them that was compensated.                                           *)
LoopTrue ==
    \A r \in Run :
        /\ state[r] = "idle" => completed[r] = <<>>
        /\ state[r] = "executing" => i[r] = Len(completed[r]) + 1 /\ i[r] <= steps
        /\ state[r] = "compensating" => i[r] \in 1 .. Len(completed[r])

(* "Automatic LIFO compensation" (README.md:38): a run that throws has     *)
(* compensated, once each and last first, exactly the steps that completed *)
(* in it and can be compensated, though some compensations failed; and a   *)
(* run that does not throw compensates nothing.                            *)
ToUndo(r) == ToSet(completed[r]) \cap Compensable

UndoneInReverse ==
    \A r \in Run :
        /\ \A m, n \in 1 .. Len(undone[r]) : m < n => undone[r][m] > undone[r][n]
        /\ Threw(r) => ToSet(undone[r]) = ToUndo(r)
        /\ state[r] = "compensating" =>
              ToSet(undone[r]) = {s \in ToUndo(r) : s >= i[r]}
        /\ state[r] \in {"idle", "executing", "returned"} => undone[r] = <<>>

(* Whatever a step of the system does, that remains so; and a run that     *)
(* returns has executed every step there is at that moment, those that     *)
(* were added while it ran included.                                       *)
SagaKept ==
    [][/\ UndoneInReverse'
       /\ \A r \in Run : state[r] # "returned" /\ state'[r] = "returned"
            => Len(completed'[r]) = steps]_vars
=============================================================================
