------------------------------ MODULE Throttle ------------------------------
(***************************************************************************)
(* throttle() of src/src/async/index.ts, under a wall clock that may be    *)
(* set back.                                                               *)
(***************************************************************************)
EXTENDS Integers

CONSTANTS
    IntervalMs,   \* in ticks
    MaxTime,      \* bound: ticks
    MaxSkew       \* bound: ticks the wall clock is set back in all

ThrottleAssumption ==
    IntervalMs \in Nat \ {0} /\ MaxTime \in Nat /\ MaxSkew \in Nat

VARIABLES
    time,         \* time that has passed
    skew,         \* ticks the wall clock was set back
    lastCall,     \* by the wall clock
    ran,          \* history: when fn() was called last, or Never
    ranBefore,    \* history: and the time before that
    skewThen      \* history: skew when fn() was called last

vars == <<time, skew, lastCall, ran, ranBefore, skewThen>>

Never == -IntervalMs

(* Date.now(): further from 0, the first lastCall, than any interval.      *)
Now == IntervalMs + MaxSkew + time - skew

Init ==
    /\ time = 0 /\ skew = 0 /\ lastCall = 0
    /\ ran = Never /\ ranBefore = Never - IntervalMs /\ skewThen = 0

Elapsed == Now - lastCall >= IntervalMs

(* A call that is let through; lastCall is set before fn() runs, so that   *)
(* whatever fn() does, calling this function included, is in its interval. *)
CallPasses ==
    /\ Elapsed
    /\ lastCall' = Now
    /\ ran' = time /\ ranBefore' = ran /\ skewThen' = skew
    /\ UNCHANGED <<time, skew>>

CountsDropped == Now                        \* [every call sets lastCall]
AfterDrop == lastCall

CallDropped ==
    /\ ~Elapsed
    /\ lastCall' = AfterDrop
    /\ UNCHANGED <<time, skew, ran, ranBefore, skewThen>>

Tick ==
    /\ time < MaxTime
    /\ time' = time + 1
    /\ UNCHANGED <<skew, lastCall, ran, ranBefore, skewThen>>

SetBack ==
    /\ skew < MaxSkew
    /\ skew' = skew + 1
    /\ UNCHANGED <<time, lastCall, ran, ranBefore, skewThen>>

Next == CallPasses \/ CallDropped \/ Tick \/ SetBack

Spec == Init /\ [][Next]_vars

-----------------------------------------------------------------------------
TypeOK ==
    /\ time \in 0 .. MaxTime /\ skew \in 0 .. MaxSkew
    /\ lastCall \in 0 .. IntervalMs + MaxSkew + MaxTime
    /\ {ran, ranBefore, skewThen} \subseteq Never - IntervalMs .. MaxTime + MaxSkew

(* lastCall is the time at which fn() ran, by the wall clock of then.      *)
LastTrue ==
    /\ skewThen \in 0 .. skew
    /\ IF ran = Never THEN lastCall = 0
       ELSE ran \in 0 .. time /\ lastCall = IntervalMs + MaxSkew + ran - skewThen

(* "at most once per intervalMs" (async/index.ts:352), by the time that    *)
(* really passes, though the wall clock is set back ...                    *)
Spaced == ran - ranBefore >= IntervalMs

(* ... and no longer than that: a call is dropped only within intervalMs   *)
(* of the last one that ran, and what the clock was set back since.        *)
DropsOnlyRecent ==
    ~Elapsed => /\ ran # Never
                /\ time - ran < IntervalMs + (skew - skewThen)
=============================================================================
