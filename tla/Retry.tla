------------------------------- MODULE Retry -------------------------------
(***************************************************************************)
(* retry() and Backoff of src/src/retry/index.ts: one call of retry(),     *)
(* with any options out of a set.  Errors are numbered by the call of fn() *)
(* that rejected with them.                                                *)
(***************************************************************************)
EXTENDS Integers, Sequences

CONSTANTS
    MaxAttempts,   \* values of opts.maxAttempts
    InitialMs, Multiplier, MaxMs,    \* sets: arguments of exponential()
    TimerLimit     \* longest delay that setTimeout() keeps

RetryAssumption ==
    /\ MaxAttempts \subseteq Int
    /\ InitialMs \subseteq Nat /\ MaxMs \subseteq Nat
    /\ Multiplier \subseteq Nat \ {0} /\ TimerLimit \in Nat \ {0}

VARIABLES
    opts,         \* [maxAttempts, initial, multiplier, max, jitter]
    pc,           \* "start", "calling", "failed", "sleeping", "done"
    attempt,      \* the loop counter
    last,         \* the error of the last call, or 0
    result,       \* what retry() settled with
    outcomes,     \* history: how the calls of fn() settled
    hooks,        \* history: the arguments of onRetry()
    slept         \* history: how long each wait was

vars == <<opts, pc, attempt, last, result, outcomes, hooks, slept>>

Options == [maxAttempts : MaxAttempts, initial : InitialMs,
            multiplier : Multiplier, max : MaxMs, jitter : BOOLEAN]

None == [kind |-> "none", error |-> 0]

NoOptions == [maxAttempts |-> 0, initial |-> 0, multiplier |-> 1, max |-> 0,
              jitter |-> FALSE]

Init ==
    /\ opts = NoOptions
    /\ pc = "start"
    /\ attempt = 0 /\ last = 0
    /\ result = None
    /\ outcomes = <<>> /\ hooks = <<>> /\ slept = <<>>

-----------------------------------------------------------------------------
(* Math.pow(), as the recursion a proof can take apart.                    *)
Power(m, n) ==
    LET p[k \in Nat] == IF k = 0 THEN 1 ELSE m * p[k - 1] IN p[n]

(* Backoff.exponential(): truncated if maxMs > 0; fixed() is multiplier 1. *)
Uncapped(n) == opts.initial * Power(opts.multiplier, n)
Exponential(n) ==
    LET d == Uncapped(n)
    IN  IF opts.max > 0 /\ d > opts.max THEN opts.max ELSE d

(* withJitter(): anything from 0 up to, not including, the delay.          *)
Delays(n) ==
    IF ~opts.jitter THEN {Exponential(n)}
    ELSE IF Exponential(n) <= 0 THEN {0}
    ELSE {0, Exponential(n) - 1}

(* sleep(): setTimeout() takes a delay beyond its limit for one of 1 ms.   *)
Waits(d) == IF d > TimerLimit THEN 1 ELSE d

Settles(kind, error) ==
    /\ result' = [kind |-> kind, error |-> error]
    /\ pc' = "done"

Begin ==
    /\ pc = "start"
    /\ opts' \in Options
    /\ IF opts'.maxAttempts < 1
         THEN Settles("badOptions", 0)
         ELSE pc' = "calling" /\ UNCHANGED result
    /\ UNCHANGED <<attempt, last, outcomes, hooks, slept>>

Call == Len(outcomes) + 1
FnSettles(how) == pc = "calling" /\ outcomes' = Append(outcomes, how)

FnFulfils ==
    /\ FnSettles("ok")
    /\ Settles("value", Call)
    /\ UNCHANGED <<opts, attempt, last, hooks, slept>>

FnStops ==                                        \* fn() rejects with StopError
    /\ FnSettles("stop")
    /\ Settles("cause", Call)
    /\ UNCHANGED <<opts, attempt, last, hooks, slept>>

(* The last attempt is not followed by onRetry() and a wait.               *)
AlwaysMore == attempt <= opts.maxAttempts - 1
MoreAttempts == attempt < opts.maxAttempts - 1

FnRejects ==
    /\ FnSettles("error")
    /\ last' = Call
    /\ IF MoreAttempts
         THEN pc' = "failed" /\ UNCHANGED <<attempt, result>>
         ELSE /\ attempt' = attempt + 1
              /\ Settles("maxAttempts", Call)
    /\ UNCHANGED <<opts, hooks, slept>>

(* onRetry(), the backoff function and then the wait, if there is any.     *)
Backs ==
    /\ pc = "failed"
    /\ hooks' = Append(hooks, attempt + 1)
    /\ \E d \in Delays(attempt) :
         IF d > 0 THEN /\ slept' = Append(slept, Waits(d))
                       /\ pc' = "sleeping" /\ UNCHANGED attempt
                  ELSE /\ slept' = Append(slept, 0)
                       /\ pc' = "calling" /\ attempt' = attempt + 1
    /\ UNCHANGED <<opts, last, result, outcomes>>

(* What onRetry() or the backoff function throws, retry() rejects with.    *)
HookThrows ==
    /\ pc = "failed"
    /\ hooks' = Append(hooks, attempt + 1)
    /\ Settles("thrown", Call)
    /\ UNCHANGED <<opts, attempt, last, outcomes, slept>>

Wakes ==
    /\ pc = "sleeping"
    /\ pc' = "calling" /\ attempt' = attempt + 1
    /\ UNCHANGED <<opts, last, result, outcomes, hooks, slept>>

Next ==
    \/ Begin \/ FnFulfils \/ FnStops \/ FnRejects
    \/ Backs \/ HookThrows \/ Wakes

Spec == Init /\ [][Next]_vars

-----------------------------------------------------------------------------
TypeOK ==
    /\ opts \in Options \cup {NoOptions}
    /\ pc \in {"start", "calling", "failed", "sleeping", "done"}
    /\ attempt \in Nat /\ last \in Nat /\ result.error \in Nat
    /\ outcomes \in Seq({"ok", "stop", "error"})
    /\ hooks \in Seq(Nat)

N == Len(outcomes)

(* What retry() settles with, told from how the calls of fn() did: with    *)
(* the first value or cause of a StopError, at once; with a                *)
(* MaxAttemptsError that holds the last error when, and only when,         *)
(* maxAttempts calls were made and all rejected.  onRetry() is called      *)
(* between two calls, with the number of the first.                        *)
SettlesWith ==
    IF outcomes = <<>> THEN "badOptions"
    ELSE CASE outcomes[N] = "ok"    -> "value"
           [] outcomes[N] = "stop"  -> "cause"
           [] outcomes[N] = "error" -> IF N = opts.maxAttempts THEN "maxAttempts"
                                       ELSE "thrown"

ResultTold ==
    /\ pc = "done" => result.kind = SettlesWith
    /\ \A i \in 1 .. N - 1 : outcomes[i] = "error"
    /\ outcomes # <<>> => N <= opts.maxAttempts
    /\ result.kind = "maxAttempts" => last = N
    /\ hooks = [i \in 1 .. Len(hooks) |-> i]
    /\ pc = "calling" => Len(hooks) = attempt
    /\ pc = "done" => Len(hooks) = IF result.kind = "thrown" THEN N
                                   ELSE IF N = 0 THEN 0 ELSE N - 1

(* Until it settles every call has rejected, and the loop counter, the     *)
(* calls and the notices go together.                                      *)
LoopTrue ==
    /\ pc = "start" => outcomes = <<>> /\ hooks = <<>> /\ attempt = 0
    /\ pc # "done" => result.kind = "none"
    /\ pc \in {"calling", "failed", "sleeping"} =>
          /\ attempt < opts.maxAttempts
          /\ \A i \in 1 .. N : outcomes[i] = "error"
          /\ N = attempt + (IF pc = "calling" THEN 0 ELSE 1)
          /\ Len(hooks) = attempt + (IF pc = "sleeping" THEN 1 ELSE 0)
    /\ pc \in {"failed", "sleeping"} => MoreAttempts

(* There was one wait after each failed attempt but the last, as long as   *)
(* the backoff function said for the number of that attempt.               *)
SleptTold ==
    /\ slept \in Seq(Nat)
    /\ pc = "start" => slept = <<>>
    /\ pc \in {"calling", "failed", "sleeping"} =>
          Len(slept) = attempt + (IF pc = "sleeping" THEN 1 ELSE 0)
    /\ ~opts.jitter =>
          \A i \in 1 .. Len(slept) : slept[i] = Waits(Exponential(i - 1))

(* A capped backoff waits no shorter after a later failure, and never      *)
(* longer than maxMs.  Without a cap that ends where setTimeout() does: a  *)
(* delay beyond its limit is no delay.                                     *)
BackoffGrows ==
    \A i, j \in 1 .. Len(slept) :
        i < j /\ ~opts.jitter /\ opts.max \in 1 .. TimerLimit
            => slept[i] <= slept[j] /\ slept[j] <= opts.max
=============================================================================
