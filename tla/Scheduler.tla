----------------------------- MODULE Scheduler -----------------------------
(***************************************************************************)
(* Scheduler of src/src/sched/index.ts: jobs, timers, start() and stop().  *)
(* start() dispatches an interval job before it makes the job's timer, and *)
(* the handler runs up to its first await inside that call.  What it does  *)
(* to the scheduler there, it does in the middle of the loop of start():   *)
(* the module takes that loop one entry at a time, and while it is not at  *)
(* its end nothing runs but the loop and the handlers it calls.            *)
(*                                                                         *)
(* A handler that calls start() from inside start() recurs for ever and is *)
(* left out; `workers' of the constructor is not read by any method.       *)
(***************************************************************************)
EXTENDS Naturals, Sequences, FiniteSets

CONSTANTS
    MaxJobs,      \* bound: calls of every() and after()
    MaxStarts,    \* bound: calls of start()
    MaxOverlap    \* bound: runs of one job in progress

JobsAssumption ==
    MaxJobs \in Nat /\ MaxStarts \in Nat /\ MaxOverlap \in Nat \ {0}

VARIABLES
    once,         \* once[e]: entry e of this.jobs was made by after()
    pending,      \* timers of the event loop: [entry, start]
    timers,       \* this.timers, without those that went off
    loop,         \* entry the loop of start() has come to, or 0
    starts,       \* calls of start()
    active,       \* active[e]: handlers of entry e in progress
    stopped,      \* history: stop() was called, not by a handler that
                  \* start() was calling, and start() was not called since
    dispatched    \* history: dispatched[e][s]: entry e ran for start() s

vars == <<once, pending, timers, loop, starts, active, stopped, dispatched>>

Entry == 1 .. MaxJobs
Starts == 1 .. MaxStarts
Timer == [entry : Entry, start : Starts]

Init ==
    /\ once = <<>>
    /\ pending = {} /\ timers = {}
    /\ loop = 0 /\ starts = 0
    /\ active = [e \in Entry |-> 0]
    /\ stopped = FALSE
    /\ dispatched = [e \in Entry |-> [s \in Starts |-> FALSE]]

-----------------------------------------------------------------------------
(* every() and after(), from outside or from a handler: for ... of comes   *)
(* also to an entry that is pushed while it runs.                          *)
Add ==
    /\ Len(once) < MaxJobs
    /\ \E o \in BOOLEAN : once' = Append(once, o)
    /\ UNCHANGED <<pending, timers, loop, starts, active, stopped, dispatched>>

Room(e) == active[e] < MaxOverlap

(* dispatch(): the handler starts.                                         *)
Dispatch(e, s) ==
    /\ active' = [active EXCEPT ![e] = @ + 1]
    /\ dispatched' = [dispatched EXCEPT ![e][s] = TRUE]

MakeTimer(t) ==
    /\ pending' = pending \cup {t}
    /\ timers' = timers \cup {t}

(* start(): from outside of its own loop.                                  *)
Start ==
    /\ loop = 0
    /\ starts < MaxStarts
    /\ \A e \in Entry : Room(e)
    /\ starts' = starts + 1
    /\ loop' = 1
    /\ stopped' = FALSE
    /\ UNCHANGED <<once, pending, timers, active, dispatched>>

AtEntry == loop \in 1 .. Len(once)
Advance == loop' = loop + 1

(* An entry of after(): only its timer is made.                            *)
ScheduleOnce ==
    /\ AtEntry /\ once[loop]
    /\ MakeTimer([entry |-> loop, start |-> starts])
    /\ Advance
    /\ UNCHANGED <<once, starts, active, stopped, dispatched>>

(* An entry of every(): the handler is called, and may call stop(), before *)
(* the interval is made.                                                   *)
ClearAll == [pending |-> pending \ timers, timers |-> {}]
ClearNone == [pending |-> pending, timers |-> timers]

ScheduleEvery ==
    /\ AtEntry /\ ~once[loop]
    /\ Dispatch(loop, starts)
    /\ \E left \in {ClearNone, ClearAll} :
         LET t == [entry |-> loop, start |-> starts]
         IN  /\ pending' = left.pending \cup {t}
             /\ timers' = left.timers \cup {t}
    /\ Advance
    /\ UNCHANGED <<once, starts, stopped>>

LoopEnds ==
    /\ loop = Len(once) + 1
    /\ loop' = 0
    /\ UNCHANGED <<once, pending, timers, starts, active, stopped, dispatched>>

(* stop(), from outside or from a handler that a timer called.             *)
ForgetsOnce == {t \in timers : ~once[t.entry]}         \* [clearInterval only]
Cleared == timers

Stop ==
    /\ loop = 0
    /\ pending' = pending \ Cleared
    /\ timers' = {}
    /\ stopped' = TRUE
    /\ UNCHANGED <<once, loop, starts, active, dispatched>>

(* A timer goes off; an interval does not wait for the last run to end.    *)
Fire(t) ==
    /\ loop = 0
    /\ t \in pending
    /\ Room(t.entry)
    /\ Dispatch(t.entry, t.start)
    /\ pending' = IF once[t.entry] THEN pending \ {t} ELSE pending
    /\ timers' = IF once[t.entry] THEN timers \ {t} ELSE timers
    /\ UNCHANGED <<once, loop, starts, stopped>>

(* A handler fulfils, or rejects and is reported to onError; whatever that *)
(* throws ends in the catch() of the timer's callback.                     *)
Settle(e) ==
    /\ loop = 0
    /\ active[e] > 0
    /\ active' = [active EXCEPT ![e] = @ - 1]
    /\ UNCHANGED <<once, pending, timers, loop, starts, stopped, dispatched>>

Next ==
    \/ Add \/ Start \/ ScheduleOnce \/ ScheduleEvery \/ LoopEnds \/ Stop
    \/ \E t \in Timer : Fire(t)
    \/ \E e \in Entry : Settle(e)

(* start() is one callback; timers go off and handlers end.                *)
Fairness ==
    /\ WF_vars(ScheduleOnce \/ ScheduleEvery \/ LoopEnds)
    /\ \A t \in Timer : WF_vars(Fire(t))
    /\ \A e \in Entry : WF_vars(Settle(e))

Spec == Init /\ [][Next]_vars /\ Fairness

-----------------------------------------------------------------------------
(* The variables have their types; every timer that can go off is one      *)
(* stop() knows of.                                                        *)
TypeOK ==
    /\ once \in Seq(BOOLEAN) /\ Len(once) <= MaxJobs
    /\ timers \subseteq Timer /\ pending \subseteq timers
    /\ loop \in 0 .. MaxJobs + 1 /\ starts \in 0 .. MaxStarts
    /\ active \in [Entry -> 0 .. MaxOverlap]
    /\ stopped \in BOOLEAN
    /\ dispatched \in [Entry -> [Starts -> BOOLEAN]]

(* "stops running after stop()" (sched/sched.spec.ts:28): once stop() has  *)
(* been called, however often start() was called before, no handler is     *)
(* started until the next start().  A stop() by a handler that start() is  *)
(* calling is not such a call: the loop goes on and makes the timers of    *)
(* this entry and of the later ones.                                       *)
QuietAfterStop ==
    [][stopped => \A e \in Entry : active'[e] <= active[e]]_vars

(* "runs the handler once after the delay" (sched/sched.spec.ts:48): a job *)
(* of after() has no timer left once it ran for that call of start().      *)
OnceForEachStart ==
    \A t \in pending : once[t.entry] => ~dispatched[t.entry][t.start]

(* While start() is in its loop nothing goes off, so that it finds the     *)
(* entries that it has yet to come to as it found them when it was called; *)
(* and no job ran for a start() that is yet to come.                       *)
LoopAhead ==
    /\ loop <= Len(once) + 1
    /\ loop > 0 =>
         /\ starts > 0
         /\ \A e \in Entry : e >= loop =>
              Room(e) /\ ~dispatched[e][starts] /\ [entry |-> e, start |-> starts] \notin pending
    /\ \A e \in Entry, s \in Starts : s > starts => ~dispatched[e][s]
    /\ \A t \in timers : t.entry <= Len(once) /\ t.start <= starts

(* After stop() there is no timer, and start() is not under way. *)
StoppedIsIdle == stopped => timers = {} /\ loop = 0

(* A job that has a timer is run, and one of every() again and again,      *)
(* until stop() is called.                                                 *)
JobsRun ==
    \A t \in Timer : t \in pending ~> (t \notin pending \/ active[t.entry] > 0)
=============================================================================
