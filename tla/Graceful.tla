------------------------------ MODULE Graceful ------------------------------
(***************************************************************************)
(* GracefulShutdown of src/src/graceful/index.ts in one Node process.      *)
(*                                                                         *)
(* shutdown() calls the hooks that are registered when it is called, last  *)
(* first, and gives each of them timeoutMs.  A hook that takes longer is   *)
(* not stopped.  listen() makes each of two signals run a shutdown() of    *)
(* its own, once, and then exit the process.                               *)
(***************************************************************************)
EXTENDS Naturals, FiniteSets

CONSTANTS
    MaxHooks,   \* bound: hooks registered
    Manual,     \* calls of shutdown() by the application
    Signals     \* the signals sent, of SIGTERM and SIGINT

HooksAssumption == MaxHooks \in Nat
CallsAssumption == Manual \cap Signals = {}

Run  == Manual \cup Signals
Hook == 1 .. MaxHooks            \* in the order of registration

VARIABLES
    registered,   \* how many hooks are registered
    listening,    \* this.signalHandlersRegistered
    run,          \* run[r]: "idle", "running", "resolved" or "rejected"
    todo,         \* todo[r]: the hooks 1 .. todo[r] are not called yet
    snapshot,     \* snapshot[r]: how many hooks r found registered
    errors,       \* errors[r]: errors.length
    hook,         \* hook[r][h]: "none", "pending", "ok" or "failed"
    timedOut,     \* timedOut[r]: the hooks that were given up
    process       \* "up", "exit 0", "exit 1" or "killed"

setup  == <<registered, listening>>
loop   == <<run, todo, snapshot, errors>>
vars   == <<setup, loop, hook, timedOut, process>>

Current(r) == todo[r] + 1

Init ==
    /\ registered = 0
    /\ listening = FALSE
    /\ run = [r \in Run |-> "idle"]
    /\ todo = [r \in Run |-> 0]
    /\ snapshot = [r \in Run |-> 0]
    /\ errors = [r \in Run |-> 0]
    /\ hook = [r \in Run |-> [h \in Hook |-> "none"]]
    /\ timedOut = [r \in Run |-> {}]
    /\ process = "up"

-----------------------------------------------------------------------------
Register ==
    /\ process = "up"
    /\ registered < MaxHooks
    /\ registered' = registered + 1
    /\ UNCHANGED <<listening, loop, hook, timedOut, process>>

Listen ==
    /\ process = "up"
    /\ listening' = TRUE
    /\ UNCHANGED <<registered, loop, hook, timedOut, process>>

(* The loop goes on behind hook h: it calls the next hook, if there is one. *)
CallsBelow(r, h, state) ==
    /\ todo' = [todo EXCEPT ![r] = IF h > 1 THEN h - 2 ELSE 0]
    /\ hook' = IF h > 1 THEN [hook EXCEPT ![r] = [state EXCEPT ![h - 1] = "pending"]]
                        ELSE [hook EXCEPT ![r] = state]

ThrowIfErrors(n) == IF n > 0 THEN "rejected" ELSE "resolved"

(* ... or shutdown() ends, and a signal's handler exits the process.       *)
ExitOn(r, result) ==
    IF r \notin Signals THEN "up"
    ELSE IF result = "resolved" THEN "exit 0" ELSE "exit 1"

Continue(r, h, state, n) ==
    /\ errors' = [errors EXCEPT ![r] = n]
    /\ CallsBelow(r, h, state)
    /\ IF h > 1
         THEN /\ run' = [run EXCEPT ![r] = "running"]
              /\ UNCHANGED process
         ELSE /\ run' = [run EXCEPT ![r] = ThrowIfErrors(n)]
              /\ process' = ExitOn(r, ThrowIfErrors(n))

(* shutdown() copies the hooks and calls the last. *)
Shutdown(r) ==
    /\ run[r] = "idle"
    /\ snapshot' = [snapshot EXCEPT ![r] = registered]
    /\ Continue(r, registered + 1, hook[r], 0)
    /\ UNCHANGED <<setup, timedOut>>

CallShutdown(r) ==
    /\ process = "up"
    /\ r \in Manual
    /\ Shutdown(r)

Signal(r) ==
    /\ process = "up"
    /\ listening
    /\ r \in Signals
    /\ Shutdown(r)

(* The handler is registered with once(): the same signal, sent again,     *)
(* finds Node's default, which ends the process.                           *)
SignalAgain(r) ==
    /\ process = "up"
    /\ r \in Signals
    /\ run[r] # "idle"
    /\ process' = "killed"
    /\ UNCHANGED <<setup, loop, hook, timedOut>>

-----------------------------------------------------------------------------
Waiting(r, h) ==
    /\ run[r] = "running"
    /\ h = Current(r)
    /\ hook[r][h] = "pending"
    /\ h \notin timedOut[r]

StopOnFailure(r, h, state, n) ==                 \* [try around the loop]
    IF state[h] = "failed"
      THEN /\ errors' = [errors EXCEPT ![r] = n]
           /\ run' = [run EXCEPT ![r] = "rejected"]
           /\ hook' = [hook EXCEPT ![r] = state]
           /\ process' = ExitOn(r, "rejected")
           /\ UNCHANGED todo
      ELSE Continue(r, h, state, n)
AfterHook(r, h, state, n) == Continue(r, h, state, n)

(* The hook being waited for fulfils or rejects. *)
HookSettles(r, h) ==
    /\ process = "up"
    /\ Waiting(r, h)
    /\ \E result \in {"ok", "failed"} :
         AfterHook(r, h, [hook[r] EXCEPT ![h] = result],
                   IF result = "ok" THEN errors[r] ELSE errors[r] + 1)
    /\ UNCHANGED <<setup, snapshot, timedOut>>

(* Its timer fires first. *)
TimeoutCounted(r) == errors[r] + 1

NoTimeout(r, h) == FALSE                         \* [no Promise.race]
MayTimeOut(r, h) == Waiting(r, h)

HookTimesOut(r, h) ==
    /\ process = "up"
    /\ MayTimeOut(r, h)
    /\ timedOut' = [timedOut EXCEPT ![r] = @ \cup {h}]
    /\ Continue(r, h, hook[r], TimeoutCounted(r))
    /\ UNCHANGED <<setup, snapshot>>

(* A hook that was given up settles; nobody looks at it.                   *)
SettlesLate(r, h) ==
    /\ process = "up"
    /\ hook[r][h] = "pending"
    /\ h \in timedOut[r]
    /\ \E result \in {"ok", "failed"} : hook' = [hook EXCEPT ![r][h] = result]
    /\ UNCHANGED <<setup, loop, timedOut, process>>

Next ==
    \/ Register
    \/ Listen
    \/ \E r \in Run :
         \/ CallShutdown(r) \/ Signal(r) \/ SignalAgain(r)
         \/ \E h \in Hook : HookSettles(r, h) \/ HookTimesOut(r, h) \/ SettlesLate(r, h)

Spec == Init /\ [][Next]_vars

(* Timers fire.  Hooks need not settle. *)
Fairness == \A r \in Run : WF_vars(\E h \in Hook : HookTimesOut(r, h))

FairSpec == Spec /\ Fairness

-----------------------------------------------------------------------------
(* The variables have their types. *)
TypeOK ==
    /\ registered \in 0 .. MaxHooks
    /\ listening \in BOOLEAN
    /\ run \in [Run -> {"idle", "running", "resolved", "rejected"}]
    /\ todo \in [Run -> 0 .. MaxHooks]
    /\ snapshot \in [Run -> 0 .. MaxHooks]
    /\ errors \in [Run -> 0 .. MaxHooks] /\ \A r \in Run : errors[r] <= snapshot[r]
    /\ hook \in [Run -> [Hook -> {"none", "pending", "ok", "failed"}]]
    /\ timedOut \in [Run -> SUBSET Hook]
    /\ process \in {"up", "exit 0", "exit 1", "killed"}

(* One shutdown() runs its hooks last first, each when the one after it    *)
(* has settled or was given up; and when it ends it has called them all,   *)
(* whatever failed.                                                        *)
Over(r, h) == hook[r][h] \in {"ok", "failed"} \/ h \in timedOut[r]

LifoInEachRun ==
    \A r \in Run :
        /\ \A h, k \in 1 .. snapshot[r] :
             hook[r][h] # "none" /\ k > h => Over(r, k)
        /\ run[r] \in {"resolved", "rejected"} => \A h \in 1 .. snapshot[r] : Over(r, h)

(* The process exits with 0 only after a shutdown() in which every hook    *)
(* fulfilled in time, though another one may be under way.                 *)
ExitCodeTrue ==
    process = "exit 0" =>
        \E r \in Signals : \A h \in 1 .. snapshot[r] :
            hook[r][h] = "ok" /\ h \notin timedOut[r]

(* The loop of shutdown(): the hooks behind it are over, the one it has    *)
(* come to is under way, and those ahead of it are not called yet; without *)
(* an error so far all of those behind it fulfilled in time.               *)
InTime(r, h) == hook[r][h] = "ok" /\ h \notin timedOut[r]

RunTrue(r) ==
    /\ \A h \in Hook :
         h <= todo[r] \/ h > snapshot[r] => hook[r][h] = "none" /\ h \notin timedOut[r]
    /\ run[r] = "idle" => snapshot[r] = 0
    /\ run[r] = "running" =>
         /\ Current(r) <= snapshot[r] /\ errors[r] + Current(r) <= snapshot[r]
         /\ hook[r][Current(r)] = "pending" /\ Current(r) \notin timedOut[r]
         /\ \A h \in Hook : Current(r) < h /\ h <= snapshot[r] =>
              Over(r, h) /\ (errors[r] = 0 => InTime(r, h))
    /\ run[r] # "running" => todo[r] = 0
    /\ run[r] \in {"resolved", "rejected"} =>
         \A h \in Hook : h <= snapshot[r] =>
            Over(r, h) /\ (run[r] = "resolved" => InTime(r, h))

LoopTrue == \A r \in Run : RunTrue(r)

ExitIsTold ==
    process = "exit 0" => \E r \in Signals : run[r] = "resolved"

(* shutdown() ends though hooks may hang, and after a signal the process   *)
(* does.                                                                   *)
ShutdownEnds ==
    \A r \in Run :
        /\ run[r] = "running" ~> (run[r] # "running" \/ process # "up")
        /\ r \in Signals /\ run[r] = "running" ~> process # "up"
=============================================================================
