------------------------------ MODULE Debounce ------------------------------
(***************************************************************************)
(* debounce() of src/src/async/index.ts.  Calls are numbered, and the      *)
(* number stands for their arguments.  The event loop may be late with a   *)
(* timer, so that a call finds one that is due and has not gone off; and   *)
(* fn() may call the debounced function itself.                            *)
(***************************************************************************)
EXTENDS Naturals

CONSTANTS
    DelayMs,      \* in ticks
    MaxCalls,     \* bound: calls of the debounced function
    MaxTime       \* bound: ticks

DebounceAssumption == DelayMs \in Nat /\ MaxCalls \in Nat /\ MaxTime \in Nat

VARIABLES
    now,
    timer,        \* the handle: a timer's call, or 0 for null
    pending,      \* timers of the event loop: [call, due]
    calls,        \* calls so far
    lastCall,     \* history: when the last one was made
    fired         \* history: the call fn() was last called with, or 0

vars == <<now, timer, pending, calls, lastCall, fired>>

Init ==
    /\ now = 0
    /\ timer = 0 /\ pending = {}
    /\ calls = 0 /\ lastCall = 0 /\ fired = 0

(* One call: clear the timer there is, if the handle tells, and make a new *)
(* one for the arguments of this call.                                     *)
Rearmed(P, handle) ==
    {t \in P : t.call # handle} \cup {[call |-> calls + 1, due |-> now + DelayMs]}

Arm(P, handle) ==
    /\ calls < MaxCalls
    /\ pending' = Rearmed(P, handle)
    /\ timer' = calls + 1
    /\ calls' = calls + 1
    /\ lastCall' = now

Call ==
    /\ Arm(pending, timer)
    /\ UNCHANGED <<now, fired>>

(* The timer goes off: the handle is set to null, then fn() is called.     *)
NullAfterFn(t) ==                                 \* [timer = null after fn()]
    /\ calls < MaxCalls
    /\ pending' = Rearmed(pending \ {t}, timer)
    /\ timer' = 0
    /\ calls' = calls + 1
    /\ lastCall' = now
FnCallsAgain(t) == Arm(pending \ {t}, 0)

Due(t) == t \in pending /\ now >= t.due

Fire(t) ==
    /\ Due(t)
    /\ fired' = t.call
    /\ \/ /\ pending' = pending \ {t}
          /\ timer' = 0
          /\ UNCHANGED <<calls, lastCall>>
       \/ FnCallsAgain(t)
    /\ UNCHANGED now

Tick ==
    /\ now < MaxTime
    /\ now' = now + 1
    /\ UNCHANGED <<timer, pending, calls, lastCall, fired>>

Timer == [call : 1 .. MaxCalls, due : 0 .. MaxTime + DelayMs]

Next == Call \/ Tick \/ \E t \in Timer : Fire(t)

(* Time passes and timers go off at last.                                  *)
Fairness == WF_vars(Tick) /\ WF_vars(\E t \in Timer : Fire(t))

Spec == Init /\ [][Next]_vars /\ Fairness

-----------------------------------------------------------------------------
(* The variables have their types; there is one timer at most, and the     *)
(* handle is for it.                                                       *)
TypeOK ==
    /\ now \in 0 .. MaxTime /\ calls \in 0 .. MaxCalls
    /\ lastCall \in 0 .. MaxTime /\ fired \in 0 .. MaxCalls
    /\ pending \subseteq Timer
    /\ {t.call : t \in pending} = {timer} \ {0}

(* A timer that is pending is that of the last call, for which fn() has    *)
(* not been called.                                                        *)
ArmedForLast ==
    /\ timer \in {0, calls} /\ fired <= calls
    /\ \A t \in pending :
          t.call = calls /\ t.due = lastCall + DelayMs /\ fired < calls

(* "delays calling fn until delayMs has elapsed since the last call"       *)
(* (async/index.ts:328): whatever calls come when a timer is due, or from  *)
(* fn() itself, fn() gets the arguments of the last call, delayMs after    *)
(* it, and no call twice.                                                  *)
FiresAfterQuiet ==
    [][fired' # fired => /\ fired' = calls /\ fired' > fired
                         /\ now >= lastCall + DelayMs]_vars

(* The last call is not lost: fn() gets it, if the model's clock allows.   *)
LastCallFires ==
    calls > fired ~> (fired = calls \/ lastCall + DelayMs > MaxTime)
=============================================================================
