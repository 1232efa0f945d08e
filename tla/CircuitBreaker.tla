--------------------------- MODULE CircuitBreaker ---------------------------
(***************************************************************************)
(* CircuitBreaker of src/src/circuitbreaker/index.ts.                      *)
(*                                                                         *)
(* A call is admitted in one callback and its result is recorded in        *)
(* another, by which time other calls, the clock or reset() may have moved *)
(* the breaker: results are judged by the state they find, whatever state  *)
(* the call was admitted in.                                               *)
(*                                                                         *)
(* Time: the code only compares Date.now() - openedAt with openTimeoutMs,  *)
(* so `age' stands for that difference, in ticks, cut off at OpenTimeout.  *)
(* The clock is assumed not to be set back.                                *)
(***************************************************************************)
EXTENDS Naturals, Sequences

CONSTANTS
    Call,               \* slots for concurrent calls of execute(); reused
    FailureThreshold,   \* opts.failureThreshold
    SuccessThreshold,   \* opts.successThreshold
    OpenTimeout,        \* opts.openTimeoutMs, in ticks
    MaxNotices          \* bound: onStateChange timers outstanding at once

ASSUME ThresholdAssumption ==
    FailureThreshold \in Nat \ {0} /\ SuccessThreshold \in Nat \ {0}
ASSUME TimeoutAssumption == OpenTimeout \in Nat
ASSUME NoticesAssumption == MaxNotices \in Nat

CLOSED    == "closed"
OPEN      == "open"
HALF_OPEN == "half-open"
States == {CLOSED, OPEN, HALF_OPEN}

VARIABLES
    state, failures, probes,   \* _state, failures, probes
    age,         \* Date.now() - openedAt
    running,     \* the calls whose fn() has not settled
    notices,     \* timers set by transition(), as <<from, to>> in firing order
    heard,       \* history: the state last reported to onStateChange
    bad,         \* history: failures in a row since the last success or reset()
    good,        \* history: successes in a row since HALF_OPEN was entered
    rest         \* history: ticks since the breaker last opened and was not
                 \* reset(), cut off at OpenTimeout

vars == <<state, failures, probes, age, running, notices, heard, bad, good, rest>>

Init ==
    /\ state = CLOSED
    /\ failures = 0
    /\ probes = 0
    /\ age = OpenTimeout
    /\ running = {}
    /\ notices = <<>>
    /\ heard = CLOSED
    /\ bad = 0
    /\ good = 0
    /\ rest = OpenTimeout

Least(m, n) == IF m <= n THEN m ELSE n

-----------------------------------------------------------------------------
(* [the notice is made after the assignment of _state] *)
NoticeLate(to) == <<to, to>>
Notice(to) == <<state, to>>

(* transition(to): no notice when nothing changes. *)
Transition(to) ==
    /\ state' = to
    /\ IF to = state
         THEN UNCHANGED notices
         ELSE /\ Len(notices) < MaxNotices
              /\ notices' = Append(notices, Notice(to))

(* maybeTransitionFromOpen(): the state an admission or a query finds. *)
NeverElapsed == FALSE                            \* [timeout not looked at]
TimeoutElapsed == age >= OpenTimeout
AfterOpen == IF state = OPEN /\ TimeoutElapsed THEN HALF_OPEN ELSE state

EntersHalfOpen == state # HALF_OPEN /\ AfterOpen = HALF_OPEN

(* execute(), first part: fn() is called unless the breaker is open. *)
Admit(c) ==
    /\ c \notin running
    /\ AfterOpen # OPEN
    /\ Transition(AfterOpen)
    /\ running' = running \cup {c}
    /\ good' = IF EntersHalfOpen THEN 0 ELSE good
    /\ UNCHANGED <<failures, probes, age, heard, bad, rest>>

(* The getter `state'.  A rejected execute() does no more than this, and   *)
(* finds the breaker open, hence changes nothing.                          *)
QueryState ==
    /\ Transition(AfterOpen)
    /\ good' = IF EntersHalfOpen THEN 0 ELSE good
    /\ UNCHANGED <<failures, probes, age, running, heard, bad, rest>>

-----------------------------------------------------------------------------
(* recordSuccess(), when fn() fulfils. *)
KeepFailures == failures                         \* [no `failures = 0']
FailuresAfterSuccess == 0

SuccessWhenClosed ==
    /\ state = CLOSED
    /\ failures' = FailuresAfterSuccess
    /\ UNCHANGED <<state, probes, notices>>

SuccessWhenOpen ==
    /\ state = OPEN
    /\ UNCHANGED <<state, failures, probes, notices>>

SuccessWhenHalfOpen ==
    /\ state = HALF_OPEN
    /\ IF probes + 1 >= SuccessThreshold
         THEN /\ failures' = 0
              /\ probes' = 0
              /\ Transition(CLOSED)
         ELSE /\ probes' = probes + 1
              /\ UNCHANGED <<state, failures, notices>>

Succeed(c) ==
    /\ c \in running
    /\ running' = running \ {c}
    /\ \/ SuccessWhenClosed
       \/ SuccessWhenOpen
       \/ SuccessWhenHalfOpen
    /\ bad' = 0
    /\ good' = Least(good + 1, SuccessThreshold)
    /\ UNCHANGED <<age, heard, rest>>

(* recordFailure(), when fn() rejects or throws. *)
FailureWhenClosed ==
    /\ state = CLOSED
    /\ failures' = failures + 1
    /\ IF failures + 1 >= FailureThreshold
         THEN /\ age' = 0
              /\ rest' = 0
              /\ Transition(OPEN)
         ELSE UNCHANGED <<state, age, rest, notices>>
    /\ UNCHANGED probes

FailureWhenOpen ==
    /\ state = OPEN
    /\ UNCHANGED <<state, failures, probes, age, rest, notices>>

KeepAge == age                                   \* [openedAt not renewed]
AgeAfterProbeFailed == 0
KeepProbes == probes                             \* [no `probes = 0']
ProbesAfterProbeFailed == 0

FailureWhenHalfOpen ==
    /\ state = HALF_OPEN
    /\ failures' = 0
    /\ probes' = ProbesAfterProbeFailed
    /\ age' = AgeAfterProbeFailed
    /\ rest' = 0
    /\ Transition(OPEN)

Fail(c) ==
    /\ c \in running
    /\ running' = running \ {c}
    /\ \/ FailureWhenClosed
       \/ FailureWhenOpen
       \/ FailureWhenHalfOpen
    /\ bad' = Least(bad + 1, FailureThreshold)
    /\ good' = 0
    /\ UNCHANGED heard

(* reset() *)
Reset ==
    /\ Transition(CLOSED)
    /\ failures' = 0
    /\ probes' = 0
    /\ bad' = 0
    /\ rest' = OpenTimeout
    /\ UNCHANGED <<age, running, heard, good>>

-----------------------------------------------------------------------------
(* Timers of equal delay fire in the order in which they were set. *)
Deliver ==
    /\ notices # <<>>
    /\ heard' = Head(notices)[2]
    /\ notices' = Tail(notices)
    /\ UNCHANGED <<state, failures, probes, age, running, bad, good, rest>>

Tick ==
    /\ age' = Least(age + 1, OpenTimeout)
    /\ rest' = Least(rest + 1, OpenTimeout)
    /\ UNCHANGED <<state, failures, probes, running, notices, heard, bad, good>>

Next ==
    \/ \E c \in Call : Admit(c) \/ Succeed(c) \/ Fail(c)
    \/ QueryState
    \/ Reset
    \/ Deliver
    \/ Tick

Spec == Init /\ [][Next]_vars

(* The clock advances, timers fire, functions settle, and callers keep on  *)
(* calling.                                                                *)
Fairness ==
    /\ WF_vars(Tick) /\ WF_vars(Deliver)
    /\ \A c \in Call : WF_vars(Succeed(c) \/ Fail(c))
    /\ WF_vars(\E c \in Call : Admit(c))

FairSpec == Spec /\ Fairness

-----------------------------------------------------------------------------
(* The variables have their types and the counters their bounds: a counter *)
(* at its threshold has always tripped or closed the breaker, and probes   *)
(* are counted in HALF_OPEN only.                                          *)
TypeOK ==
    /\ state \in States
    /\ failures \in 0 .. FailureThreshold
    /\ probes \in 0 .. SuccessThreshold - 1
    /\ age \in 0 .. OpenTimeout
    /\ running \subseteq Call
    /\ notices \in Seq(States \X States)
    /\ heard \in States
    /\ bad \in 0 .. FailureThreshold
    /\ good \in 0 .. SuccessThreshold
    /\ rest \in 0 .. OpenTimeout
    /\ state = CLOSED => failures < FailureThreshold
    /\ state # HALF_OPEN => probes = 0

(* "consecutive failures required to trip" (index.ts:39): the closed       *)
(* breaker opens only when the last FailureThreshold results, since any    *)
(* reset(), were failures, including results of calls admitted before an   *)
(* earlier trip.                                                           *)
TripsOnStreak ==
    [][state = CLOSED /\ state' = OPEN => bad' >= FailureThreshold]_vars

(* "consecutive successes in HALF_OPEN to close" (index.ts:41): unless it  *)
(* is reset(), the breaker closes only when SuccessThreshold results in a  *)
(* row were successes since it became half-open.                           *)
ClosesOnStreak ==
    [][state = HALF_OPEN /\ state' = CLOSED /\ ~Reset => good' >= SuccessThreshold]_vars

(* After each trip nobody gets through for the whole timeout, unless       *)
(* reset() intervenes: late results of calls admitted earlier neither      *)
(* reopen the way nor shorten the pause.                                   *)
RestsAfterTrip ==
    [][\A c \in Call : c \in running' \ running => rest >= OpenTimeout]_vars

(* q leads from state h to state s by real changes. *)
Chain(q, h, s) ==
    /\ \A i \in 1 .. Len(q) :
         /\ q[i][1] # q[i][2]
         /\ q[i][1] = IF i = 1 THEN h ELSE q[i - 1][2]
    /\ s = IF q = <<>> THEN h ELSE q[Len(q)][2]

(* The notices form one chain from the state last heard to the present     *)
(* state, each a real change: the listener misses no transition and sees   *)
(* them in order.                                                          *)
NoticesChain == Chain(notices, heard, state)

(* An open breaker does not stay open, and a half-open one is decided,     *)
(* while callers keep calling.                                             *)
Recovers ==
    /\ state = OPEN ~> state # OPEN
    /\ state = HALF_OPEN ~> state # HALF_OPEN

(* The breaker's invariant. *)
BreakerSafety == TypeOK /\ NoticesChain
=============================================================================
