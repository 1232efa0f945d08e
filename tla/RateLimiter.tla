---------------------------- MODULE RateLimiter ----------------------------
(***************************************************************************)
(* RateLimiter and KeyedRateLimiter of src/src/ratelimit/index.ts: a token *)
(* bucket for each key, made when the key is first seen and forgotten when *)
(* it was idle for ttlMs.  A RateLimiter of its own is a key that is never *)
(* evicted.                                                                *)
(*                                                                         *)
(* Tokens are counted in parts, Token of which make a token; `rate' is the *)
(* number of parts a bucket gains in a tick.  Date.now() is `now - skew':  *)
(* the wall clock may be set back.  Rounding of floats is left out.        *)
(***************************************************************************)
EXTENDS Naturals, Integers

CONSTANTS
    Key,
    Token,       \* parts of a token
    Rate,        \* parts gained per tick
    Burst,       \* in parts
    TtlMs,       \* in ticks
    Request,     \* the n of allowN(n), in parts
    MaxTime,     \* bound: ticks
    MaxSkew,     \* bound: how far the wall clock is set back in all
    MaxResets    \* bound: deletions of a key in a window

RateAssumption == Token \in Nat \ {0} /\ Rate \in Nat /\ Burst \in Nat
RequestAssumption == Request \subseteq Nat
TimeAssumption == {TtlMs, MaxTime, MaxSkew, MaxResets} \subseteq Nat

VARIABLES
    now, skew,
    entries,     \* the keys in the map
    tokens, lastFill, lastSeen,  \* of each entry
    since,       \* history: when the window of the key began
    granted,     \* history: parts granted in the window
    resets       \* history: how often the key was deleted in the window

clock   == <<now, skew>>
bucket  == <<entries, tokens, lastFill, lastSeen>>
history == <<since, granted, resets>>
vars    == <<clock, bucket, history>>

Wall == now - skew

Init ==
    /\ now = 0
    /\ skew = 0
    /\ entries = {}
    /\ tokens = [k \in Key |-> 0]
    /\ lastFill = [k \in Key |-> 0]
    /\ lastSeen = [k \in Key |-> 0]
    /\ since = [k \in Key |-> 0]
    /\ granted = [k \in Key |-> 0]
    /\ resets = [k \in Key |-> 0]

-----------------------------------------------------------------------------
(* refill(): what a bucket holds after it.  A wall clock that was set back *)
(* takes tokens away.                                                      *)
Capped(b) == IF b > Burst THEN Burst ELSE b

(* getLimiter(): a new bucket is full. *)
Level(k) == IF k \in entries
              THEN Capped(tokens[k] + (Wall - lastFill[k]) * Rate)
              ELSE Burst

Allows(level, n) == level >= n

Touch(k, level) ==
    /\ entries' = entries \cup {k}
    /\ tokens' = [tokens EXCEPT ![k] = level]
    /\ lastFill' = [lastFill EXCEPT ![k] = Wall]
    /\ lastSeen' = [lastSeen EXCEPT ![k] = Wall]

(* allow(key) and allowN(key, n). *)
AllowN(k, n) ==
    /\ \/ /\ Allows(Level(k), n)
          /\ Touch(k, Level(k) - n)
          /\ granted' = [granted EXCEPT ![k] = @ + n]
       \/ /\ ~Allows(Level(k), n)
          /\ Touch(k, Level(k))
          /\ UNCHANGED granted
    /\ UNCHANGED <<clock, since, resets>>

Delete(k) ==
    /\ k \in entries
    /\ resets[k] < MaxResets
    /\ entries' = entries \ {k}
    /\ resets' = [resets EXCEPT ![k] = @ + 1]
    /\ UNCHANGED <<clock, tokens, lastFill, lastSeen, since, granted>>

EvictsSeen(k) == lastSeen[k] <= Wall     \* [lastSeen < now]
Idle(k) == lastSeen[k] < Wall - TtlMs

Evict ==
    /\ entries' = {k \in entries : ~Idle(k)}
    /\ UNCHANGED <<clock, tokens, lastFill, lastSeen, history>>

Tick ==
    /\ now < MaxTime
    /\ now' = now + 1
    /\ UNCHANGED <<skew, bucket, history>>

SetBack ==
    /\ skew < MaxSkew
    /\ skew' = skew + 1
    /\ UNCHANGED <<now, bucket, history>>

(* A window of time in which to count may begin at any moment.             *)
BeginWindow(k) ==
    /\ since' = [since EXCEPT ![k] = now]
    /\ granted' = [granted EXCEPT ![k] = 0]
    /\ resets' = [resets EXCEPT ![k] = 0]
    /\ UNCHANGED <<clock, bucket>>

Next ==
    \/ \E k \in Key :
         \/ \E n \in Request : AllowN(k, n)
         \/ Delete(k)
         \/ BeginWindow(k)
    \/ Evict \/ Tick \/ SetBack

Spec == Init /\ [][Next]_vars

-----------------------------------------------------------------------------
(* The variables have their types. *)
TypeOK ==
    /\ now \in 0 .. MaxTime
    /\ skew \in 0 .. MaxSkew
    /\ entries \subseteq Key
    /\ tokens \in [Key -> Int]
    /\ lastFill \in [Key -> Int]
    /\ lastSeen \in [Key -> Int]
    /\ since \in [Key -> 0 .. MaxTime]
    /\ granted \in [Key -> Nat]
    /\ resets \in [Key -> Nat]
    /\ \A k \in entries : tokens[k] <= Burst

(* In every window of time a key is granted at most a burst and what the   *)
(* rate adds, evictions included, provided that an idle key is kept until  *)
(* its bucket is full again; each delete() gives it one more burst.        *)
TtlRefills == (TtlMs + 1) * Rate >= Burst

Allowance(k, time) == Burst * (1 + resets[k]) + (time - since[k]) * Rate

RateBound == TtlRefills => \A k \in Key : granted[k] <= Allowance(k, now)

(* What is left of the allowance is at least what the bucket holds; and    *)
(* what was granted fitted in it when the key was last seen, or no later   *)
(* than the wall clock allows to think, so that a key that is forgotten    *)
(* has room for the full bucket it will begin with.                        *)
RoomForBurst ==
    \A k \in Key :
        /\ since[k] <= now
        /\ k \in entries => lastSeen[k] = lastFill[k] /\ lastFill[k] <= now
        /\ TtlRefills =>
             /\ granted[k] + Level(k) <= Allowance(k, now)
             /\ k \in entries /\ granted[k] > 0 =>
                  granted[k] <= Allowance(k, lastFill[k] + skew)

(* No bucket is in debt unless the wall clock was set back: a key is never *)
(* shut out for longer than it takes to gain what it asks for.             *)
NoDebt == skew = 0 => \A k \in entries : tokens[k] >= 0
=============================================================================
