----------------------------- MODULE RedisLock -----------------------------
(***************************************************************************)
(* The Redis lock of src/src/lock/index.ts: calls of withLock() (or of     *)
(* Locker.withLock(), which retries) on one key, beside `bare' ones: pairs *)
(* of Locker's acquire() and release(), between which nobody renews.       *)
(*                                                                         *)
(* Time passes in ticks, of which `left' counts the key's time to live and *)
(* `beat' the time to the next keepalive.  Requests reach Redis in the     *)
(* order in which a call sent them, as they share a connection, and late.  *)
(* In a `prompt' behaviour requests, replies and timers are served within  *)
(* the tick in which they are due, and nothing fails.                      *)
(***************************************************************************)
EXTENDS Naturals, FiniteSets

CONSTANTS
    Call,          \* the calls
    Bares,         \* sets of calls, one of which is bare in a behaviour
    TtlMs,         \* their ttlMs, in ticks
    MinInterval,   \* the 100 ms below which no keepalive interval goes, in ticks
    RetryCount,    \* Locker's retryCount; 0 for the function withLock
    MaxFaults,     \* bound: lost replies, failed requests and crashes
    MaxInFlight    \* bound: renewals of one call on their way to Redis

ASSUME TtlAssumption == TtlMs \in Nat \ {0} /\ MinInterval \in Nat \ {0}
ASSUME BaresAssumption == Bares \subseteq SUBSET Call
ASSUME BoundsAssumption == {RetryCount, MaxFaults, MaxInFlight} \subseteq Nat

VARIABLES
    owner,     \* the token stored under the key, or Nobody
    left,      \* the key's remaining time to live, 0 if there is no key
    phase,     \* phase[c]: where the call is
    attempt,   \* attempt[c]: calls of RedisLock.acquire() so far
    reply,     \* reply[c]: the SET's answer on its way back
    beat,      \* beat[c]: ticks until the interval fires
    inFlight,  \* inFlight[c]: renewals sent and not yet executed
    lapsed,    \* history: calls that lost the key while they counted on it
    faults,    \* counts what MaxFaults bounds
    prompt,    \* whether the behaviour is one without delays, see above
    bare       \* the calls that are bare in the behaviour

key  == <<owner, left>>
call == <<phase, attempt, reply, beat, inFlight>>
kind == <<prompt, bare>>
vars == <<key, call, lapsed, faults, kind>>

(* Every acquire() draws a fresh uuid. *)
Token(c) == <<c, attempt[c]>>
Tokens == Call \X (1 .. RetryCount + 1)
Nobody == <<>>

Running == {c \in Call : phase[c] = "running"}
Ended   == {"returned", "refused", "failed", "crashed"}

(* The token is stored and the caller knows it, or will. *)
Owns(c) == owner = Token(c)
CountsOnIt(c) == phase[c] = "running" \/ (phase[c] = "answered" /\ reply[c] = "OK")

RenewsAtTtl(a) == TtlMs                          \* [one renewal per ttl]
AtLeastMin(a) == IF a < MinInterval THEN MinInterval ELSE a
RenewInterval == AtLeastMin(TtlMs \div 3)

Init ==
    /\ owner = Nobody
    /\ left = 0
    /\ phase = [c \in Call |-> "idle"]
    /\ attempt = [c \in Call |-> 0]
    /\ reply = [c \in Call |-> "none"]
    /\ beat = [c \in Call |-> 0]
    /\ inFlight = [c \in Call |-> 0]
    /\ lapsed = {}
    /\ faults = 0
    /\ prompt \in BOOLEAN
    /\ bare \in Bares

Fault == ~prompt /\ faults < MaxFaults /\ faults' = faults + 1

-----------------------------------------------------------------------------
(* acquire() sends SET NX: the first attempt, or the next one after the    *)
(* retry interval.                                                         *)
SendSet(c) ==
    /\ phase[c] \in {"idle", "sleeping"}
    /\ attempt[c] <= RetryCount
    /\ phase' = [phase EXCEPT ![c] = "setting"]
    /\ attempt' = [attempt EXCEPT ![c] = @ + 1]
    /\ UNCHANGED <<key, reply, beat, inFlight, lapsed, kind, faults>>

Overwrites == TRUE                               \* [SET without NX]
NotExists == owner = Nobody

(* Redis executes the SET. *)
Set(c) ==
    /\ phase[c] = "setting"
    /\ IF NotExists
         THEN /\ owner' = Token(c)
              /\ left' = TtlMs
              /\ reply' = [reply EXCEPT ![c] = "OK"]
         ELSE /\ reply' = [reply EXCEPT ![c] = "null"]
              /\ UNCHANGED key
    /\ phase' = [phase EXCEPT ![c] = "answered"]
    /\ UNCHANGED <<attempt, beat, inFlight, lapsed, kind, faults>>

(* The answer arrives: fn() is called and the interval is set; or the      *)
(* caller of acquire() has its token.                                      *)
Acquired(c) ==
    /\ phase[c] = "answered"
    /\ reply[c] = "OK"
    /\ phase' = [phase EXCEPT ![c] = "running"]
    /\ beat' = [beat EXCEPT ![c] = RenewInterval]
    /\ UNCHANGED <<key, attempt, reply, inFlight, lapsed, kind, faults>>

(* ... or the lock is held: retry, or throw LockNotAcquiredError.          *)
AfterRefusal(c) == IF attempt[c] <= RetryCount THEN "sleeping" ELSE "refused"

Refused(c) ==
    /\ phase[c] = "answered"
    /\ reply[c] = "null"
    /\ phase' = [phase EXCEPT ![c] = AfterRefusal(c)]
    /\ UNCHANGED <<key, attempt, reply, beat, inFlight, lapsed, kind, faults>>

(* The connection breaks after the SET.  The client sends it again on the  *)
(* next connection, where the key it set itself makes NX fail; or it gives *)
(* up, and acquire() rejects.  Either way nobody knows the stored token.   *)
SetReplyLost(c) ==
    /\ phase[c] = "answered"
    /\ Fault
    /\ \/ /\ reply' = [reply EXCEPT ![c] = IF owner = Nobody THEN "OK" ELSE "null"]
          /\ owner' = IF owner = Nobody THEN Token(c) ELSE owner
          /\ left' = IF owner = Nobody THEN TtlMs ELSE left
          /\ UNCHANGED phase
       \/ /\ phase' = [phase EXCEPT ![c] = "failed"]
          /\ UNCHANGED <<key, reply>>
    /\ UNCHANGED <<attempt, beat, inFlight, lapsed, kind>>

(* The interval fires.  It waits for no earlier renewal.                   *)
NotCleared(c) ==                                 \* [no clearInterval()]
    c \notin bare /\ phase[c] \in {"running", "releasing", "returned", "failed"}
Beating(c) == c \notin bare /\ phase[c] = "running"

Keepalive(c) ==
    /\ Beating(c)
    /\ beat[c] = 0
    /\ inFlight[c] < MaxInFlight
    /\ inFlight' = [inFlight EXCEPT ![c] = @ + 1]
    /\ beat' = [beat EXCEPT ![c] = RenewInterval]
    /\ UNCHANGED <<key, phase, attempt, reply, lapsed, kind, faults>>

(* The scripts compare the stored token with the call's.                   *)
AnyToken(c) == owner # Nobody                    \* [no GET == ARGV[1]]
Matches(c) == owner = Token(c)

(* Redis executes RENEW_SCRIPT; the call ignores the answer.               *)
Renew(c) ==
    /\ inFlight[c] > 0
    /\ inFlight' = [inFlight EXCEPT ![c] = @ - 1]
    /\ left' = IF Matches(c) THEN TtlMs ELSE left
    /\ UNCHANGED <<owner, phase, attempt, reply, beat, lapsed, kind, faults>>

(* fn() fulfils or rejects, or release() is called: the interval, if there *)
(* is one, is cleared, and the release is sent.                            *)
FnEnds(c) ==
    /\ phase[c] = "running"
    /\ phase' = [phase EXCEPT ![c] = "releasing"]
    /\ UNCHANGED <<key, attempt, reply, beat, inFlight, lapsed, kind, faults>>

(* Redis executes RELEASE_SCRIPT, after the renewals that were sent first; *)
(* withLock() returns or throws what fn() did.                             *)
Release(c) ==
    /\ phase[c] = "releasing"
    /\ inFlight[c] = 0
    /\ phase' = [phase EXCEPT ![c] = "returned"]
    /\ owner' = IF Matches(c) THEN Nobody ELSE owner
    /\ left' = IF Matches(c) THEN 0 ELSE left
    /\ UNCHANGED <<attempt, reply, beat, inFlight, lapsed, kind, faults>>

(* release() rejects before it is executed, and withLock() with it.        *)
ReleaseFails(c) ==
    /\ phase[c] = "releasing"
    /\ Fault
    /\ phase' = [phase EXCEPT ![c] = "failed"]
    /\ inFlight' = [inFlight EXCEPT ![c] = 0]
    /\ UNCHANGED <<key, attempt, reply, beat, lapsed, kind>>

(* The process dies; a renewal that rejects is enough, since nobody        *)
(* handles the rejection of the interval's async callback.                 *)
Crash(c) ==
    /\ phase[c] \notin Ended \cup {"idle"}
    /\ Fault
    /\ phase' = [phase EXCEPT ![c] = "crashed"]
    /\ inFlight' = [inFlight EXCEPT ![c] = 0]
    /\ UNCHANGED <<key, attempt, reply, beat, lapsed, kind>>

(* A tick.  The key expires when its time to live has passed.              *)
Served(c) ==
    /\ phase[c] \notin {"setting", "answered", "releasing"}
    /\ inFlight[c] = 0
    /\ Beating(c) => beat[c] > 0

Tick ==
    /\ prompt => \A c \in Call : Served(c)
    /\ left > 0 \/ \E c \in Call : Beating(c) /\ beat[c] > 0
    /\ left' = IF left > 0 THEN left - 1 ELSE 0
    /\ owner' = IF left' = 0 THEN Nobody ELSE owner
    /\ beat' = [c \in Call |-> IF Beating(c) /\ beat[c] > 0
                                 THEN beat[c] - 1 ELSE beat[c]]
    /\ lapsed' = IF left = 1 THEN lapsed \cup {c \in Call : CountsOnIt(c) /\ Owns(c)}
                             ELSE lapsed
    /\ UNCHANGED <<phase, attempt, reply, inFlight, faults, kind>>

Step(c) ==
    \/ SendSet(c) \/ Set(c) \/ Acquired(c) \/ Refused(c) \/ SetReplyLost(c)
    \/ Keepalive(c) \/ Renew(c) \/ FnEnds(c) \/ Release(c) \/ ReleaseFails(c)
    \/ Crash(c)

Next == Tick \/ \E c \in Call : Step(c)

Spec == Init /\ [][Next]_vars

(* Time passes, Redis answers, and fn() settles; who called acquire() may  *)
(* never call release().                                                   *)
Fairness ==
    /\ WF_vars(Tick)
    /\ \A c \in Call :
         /\ WF_vars(SendSet(c) /\ phase[c] = "sleeping")
         /\ WF_vars(Set(c)) /\ WF_vars(Acquired(c)) /\ WF_vars(Refused(c))
         /\ WF_vars(Renew(c)) /\ WF_vars(c \notin bare /\ FnEnds(c)) /\ WF_vars(Release(c))

FairSpec == Spec /\ Fairness

-----------------------------------------------------------------------------
(* The variables have their types, a key always has a time to live, and    *)
(* nobody sleeps after the last attempt.                                   *)
TypeOK ==
    /\ owner \in Tokens \cup {Nobody}
    /\ left \in 0 .. TtlMs
    /\ left = 0 <=> owner = Nobody
    /\ phase \in [Call -> {"idle", "setting", "answered", "sleeping", "running",
                           "releasing"} \cup Ended]
    /\ attempt \in [Call -> 0 .. RetryCount + 1]
    /\ \A c \in Call : /\ phase[c] # "idle" => attempt[c] > 0
                       /\ phase[c] = "sleeping" => attempt[c] <= RetryCount
    /\ reply \in [Call -> {"none", "OK", "null"}]
    /\ beat \in [Call -> 0 .. RenewInterval]
    /\ inFlight \in [Call -> 0 .. MaxInFlight]
    /\ lapsed \subseteq Call /\ bare \subseteq Call
    /\ faults \in 0 .. MaxFaults

(* Two calls run fn() at once only if one of them lost the key to its time *)
(* to live before.                                                         *)
ExclusionUnlessLapsed == Cardinality(Running \ lapsed) <= 1

(* A key is given more time, or taken away before its time is over, only   *)
(* by the call that stored it: a late renewal keeps no other call's key    *)
(* alive, and a release after the lease ran out takes nobody's lock away.  *)
OnlyHolderTouches ==
    [][/\ owner = owner' /\ left' > left =>
            \E c \in Call : Owns(c) /\ phase[c] \in {"running", "releasing"}
       /\ owner # Nobody /\ owner # owner' =>
            left = 1 \/ \E c \in Call : Owns(c) /\ phase[c] = "releasing"]_vars

(* When withLock() has returned or rethrown what fn() threw, its token is  *)
(* not stored, though renewals were on their way when fn() settled.        *)
ReturnedHoldsNothing == \A c \in Call : phase[c] = "returned" => ~Owns(c)

(* Whatever failed, the key becomes free again: no crash, lost reply or    *)
(* failed release locks the others out for good.                           *)
KeyFreed == \A t \in Tokens : owner = t ~> owner # t

(* Every call of withLock() ends, and every acquire(). *)
CallEnds ==
    \A c \in Call :
        phase[c] = "setting" ~>
            phase[c] \in Ended \/ (c \in bare /\ phase[c] = "running")

(* lock/index.ts:89: the keepalive "renews the TTL every ttlMs/3 ms".  If  *)
(* nothing is late, the key is held while fn() runs, with two thirds of    *)
(* the time to live left, so that nobody else gets in, not even through a  *)
(* bare call that is releasing what it has lost.  The minimum of 100 ms    *)
(* must be less than the time to live, and less than a third of it for     *)
(* the two thirds.                                                         *)
RenewedEveryThird ==
    prompt /\ MinInterval < TtlMs =>
        \A c \in Running \ bare :
            Owns(c) /\ (3 * MinInterval <= TtlMs => 3 * left >= 2 * TtlMs)

(* A call that counts on the lock holds it or has lost it to its time to   *)
(* live, and only such a call, or one that is giving it back, has renewals *)
(* on their way.                                                           *)
HeldOrLapsed ==
    \A c \in Call :
        /\ CountsOnIt(c) => Owns(c) \/ c \in lapsed
        /\ inFlight[c] > 0 => phase[c] \in {"running", "releasing"}

(* If nothing is late, an answer finds the time to live untouched, and the *)
(* key outlives the next renewal.                                          *)
InTime ==
    prompt => \A c \in Call :
        /\ phase[c] = "answered" /\ reply[c] = "OK" => Owns(c) /\ left = TtlMs
        /\ MinInterval < TtlMs /\ Beating(c) =>
             /\ Owns(c)
             /\ left + RenewInterval >=
                  TtlMs + IF inFlight[c] = 0 THEN beat[c] ELSE 0

(* The lock's invariant, inductive by its last two conjuncts. *)
LockSafety ==
    /\ TypeOK /\ ExclusionUnlessLapsed /\ ReturnedHoldsNothing /\ RenewedEveryThird
    /\ HeldOrLapsed /\ InTime

(* What must happen in the end. *)
Progress == KeyFreed /\ CallEnds
=============================================================================
