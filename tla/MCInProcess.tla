----------------------------- MODULE MCInProcess -----------------------------
(***************************************************************************)
(* TLC instances of what works inside one process: what stands between     *)
(* callers and what they call (the circuit breaker, the rate limiter, the  *)
(* cache before a data source), and what keeps things in memory (the event *)
(* machinery EventStore, Bus and Saga, and LruCache).  They share nothing, *)
(* so a behaviour of this module is one of one of them, its `part', while  *)
(* the others stay as they are initially.  Each cfg chooses some Parts.    *)
(***************************************************************************)
EXTENDS CircuitBreaker

CONSTANTS
    Parts,
    Key, TtlMs, LimitTime, MaxSkew,            \* RateLimiter
    Token, Rate, Burst, Request, MaxResets,
    Owner, NoPrefix, Reader, Writer,           \* RedisCache
    TtlSeconds, MaxChanges, MaxLag, CacheTime,
    Stream, Author, Follower,                  \* EventStore: writers, readers
    BatchSizes, MaxEvents, MaxClears,
    Subscription, BusEvents,                   \* Bus: BusEvents calls of publish()
    SagaSteps, Compensable, Run,               \* Saga
    CacheKey, undefined,                       \* LruCache: keys
    MaxSize, LruTtl, LruTime

VARIABLES
    part,
    now, skew, entries, tokens, lastFill, lastSeen, since, granted, resets,
    source, changes, redis, cacheNow, reader, writer, flushing, replaced, raced,
    streams, idCounter, author, follower, seen, clears,
    subs, cancelled, microtasks, handling, publish, subscribed, due, started,
    steps, sagaState, sagaIndex, completed, cause, undone,
    store, lruNow, used, gone

limitVars == <<now, skew, entries, tokens, lastFill, lastSeen, since, granted, resets>>
cacheVars == <<source, changes, redis, cacheNow, reader, writer, flushing, replaced, raced>>
eventVars == <<streams, idCounter, author, follower, seen, clears>>
busVars   == <<subs, cancelled, microtasks, handling, publish, subscribed, due, started>>
sagaVars  == <<steps, sagaState, sagaIndex, completed, cause, undone>>
lruVars   == <<store, lruNow, used, gone>>

guardVars  == <<vars, limitVars, cacheVars>>
memoryVars == <<eventVars, busVars, sagaVars, lruVars>>
allVars == <<part, guardVars, memoryVars>>

L == INSTANCE RateLimiter WITH MaxTime <- LimitTime
R == INSTANCE RedisCache WITH MaxTime <- CacheTime, now <- cacheNow
E == INSTANCE EventStore
       WITH Writer <- Author, Reader <- Follower, writer <- author, reader <- follower
B == INSTANCE Bus WITH MaxEvents <- BusEvents, running <- handling
S == INSTANCE Saga WITH MaxSteps <- SagaSteps, state <- sagaState, i <- sagaIndex
C == INSTANCE LruCache
       WITH Key <- CacheKey \cup {undefined}, Undefined <- undefined,
            TtlMs <- LruTtl, MaxTime <- LruTime, now <- lruNow

ASSUME LimiterAssumption == L!RateAssumption /\ L!RequestAssumption /\ L!TimeAssumption
ASSUME CacheAssumption == R!OwnerAssumption /\ R!TimeAssumption
ASSUME EventAssumption == E!StreamAssumption /\ E!BatchAssumption /\ E!BoundsAssumption
ASSUME MemoryAssumption ==
    /\ B!EventsAssumption /\ S!StepsAssumption
    /\ C!MaxSizeAssumption /\ C!TimeAssumption

AllInit ==
    /\ part \in Parts
    /\ Init /\ L!Init /\ R!Init
    /\ E!Init /\ B!Init /\ S!Init /\ C!Init

GuardNext ==
    \/ part = "breaker" /\ Next   /\ UNCHANGED <<limitVars, cacheVars>>
    \/ part = "limiter" /\ L!Next /\ UNCHANGED <<vars, cacheVars>>
    \/ part = "cache"   /\ R!Next /\ UNCHANGED <<vars, limitVars>>

MemoryNext ==
    \/ part = "eventStore" /\ E!Next /\ UNCHANGED <<busVars, sagaVars, lruVars>>
    \/ part = "bus"  /\ B!Next /\ UNCHANGED <<eventVars, sagaVars, lruVars>>
    \/ part = "saga" /\ S!Next /\ UNCHANGED <<eventVars, busVars, lruVars>>
    \/ part = "lru"  /\ C!Next /\ UNCHANGED <<eventVars, busVars, sagaVars>>

AllNext ==
    /\ part' = part
    /\ \/ GuardNext /\ UNCHANGED memoryVars
       \/ MemoryNext /\ UNCHANGED guardVars

(* Fairness of CircuitBreaker; `part' never changes, so that it may stand  *)
(* in the actions, where TLC checks it faster than an implication.         *)
AllFairness ==
    /\ WF_vars(part = "breaker" /\ Tick)
    /\ WF_vars(part = "breaker" /\ Deliver)
    /\ \A c \in Call : WF_vars(part = "breaker" /\ (Succeed(c) \/ Fail(c)))
    /\ WF_vars(part = "breaker" /\ \E c \in Call : Admit(c))

AllSpec == AllInit /\ [][AllNext]_allVars /\ AllFairness

-----------------------------------------------------------------------------
(* The properties, stated and explained in the modules. *)
LimitsSafety == L!TypeOK /\ L!RoomForBurst /\ L!NoDebt /\ L!RateBound

(* How old a cached value may be, and how it can come to be old. *)
StalenessBounded ==
    R!TypeOK /\ R!Traced /\ R!StalenessBounded /\ R!StaleOnlyByRace

(* What is kept in memory is in order, and handed on as it was given.      *)
MemorySafety ==
    /\ E!TypeOK /\ B!TypeOK /\ S!TypeOK /\ C!TypeOK
    /\ E!Ordered /\ E!CatchUpExact /\ E!DecidedOnPrefix
    /\ B!OncePerSubscriber /\ B!CalledInOrder /\ B!NothingEarly /\ B!ResolvedMeansHandled
    /\ S!LoopTrue /\ S!UndoneInReverse
    /\ C!RecencyOrder

(* No update is lost to another one, no completed step to a failing one.   *)
NothingLost == E!NoLostUpdate /\ S!SagaKept

(* What leaves the cache, and when it may outgrow its bound. *)
EvictsOldest == C!OnlyOldestEvicted /\ C!SizeBounded
=============================================================================
