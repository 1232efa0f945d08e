----------------------------- MODULE MCStreams -----------------------------
(***************************************************************************)
(* TLC instance of what coordinates callbacks: Pipeline, Stream, FanOut    *)
(* and FanIn, which move items, and Barrier, Debounce and Throttle.  They  *)
(* share nothing, so a behaviour of this module is one of one of them, its *)
(* `part', while the others stay as they are initially.                    *)
(***************************************************************************)
EXTENDS Pipeline, TLC

CONSTANTS
    StreamItems, Passes, StreamTake,   \* Stream: items, filter(p), take(n)
    FanItems, Output,         \* FanOut: items and outputs
    a, b, c, Sources, ItemsOf, Rejecting,   \* FanIn: sources
    Participant, N, MaxWaits, \* Barrier
    DelayMs, MaxCalls, DebounceTime,        \* Debounce
    IntervalMs, ThrottleTime, MaxSkew       \* Throttle

VARIABLES
    part,
    producer, emitted, buffer, sResolver, sReader, staged, sReceived,
    pulled, source, buffers, resolvers, oReader, oReceived,
    iPulled, iSource, queue, activeCount, iResolver, iReader, iReceived,
    count, bResolvers, ready, pc, passed,
    now, timer, pending, calls, lastCallAt, fired,
    time, skew, lastCall, ran, ranBefore, skewThen

sVars == <<producer, emitted, buffer, sResolver, sReader, staged, sReceived>>
oVars == <<pulled, source, buffers, resolvers, oReader, oReceived>>
iVars == <<iPulled, iSource, queue, activeCount, iResolver, iReader, iReceived>>
bVars == <<count, bResolvers, ready, pc, passed>>
dVars == <<now, timer, pending, calls, lastCallAt, fired>>
tVars == <<time, skew, lastCall, ran, ranBefore, skewThen>>
itemVars == <<vars, sVars, oVars, iVars>>
timerVars == <<bVars, dVars, tVars>>
allVars == <<part, itemVars, timerVars>>

S == INSTANCE Stream
       WITH NItems <- StreamItems, TakeN <- StreamTake, MayReject <- TRUE,
            resolver <- sResolver, reader <- sReader, received <- sReceived

O == INSTANCE FanOut
       WITH NItems <- FanItems, MayReject <- TRUE,
            reader <- oReader, received <- oReceived

(* Sources of different lengths, one of them empty. *)
LengthOf == a :> 3 @@ b :> 2 @@ c :> 0

I == INSTANCE FanIn
       WITH Source <- Sources, NItems <- ItemsOf, MayReject <- Rejecting,
            pulled <- iPulled, source <- iSource,
            resolver <- iResolver, reader <- iReader, received <- iReceived

B == INSTANCE Barrier WITH resolvers <- bResolvers

D == INSTANCE Debounce WITH MaxTime <- DebounceTime, lastCall <- lastCallAt

T == INSTANCE Throttle WITH MaxTime <- ThrottleTime

ASSUME StreamAssumption == S!NItemsAssumption /\ S!MayRejectAssumption
ASSUME FanAssumption ==
    /\ O!NItemsAssumption /\ O!MayRejectAssumption
    /\ I!NItemsAssumption /\ I!SourceAssumption
ASSUME BarrierAssumption == B!NAssumption /\ B!WaitsAssumption
ASSUME TimerAssumption == D!DebounceAssumption /\ T!ThrottleAssumption

AllInit ==
    /\ part \in {"pipeline", "stream", "fanOut", "fanIn", "barrier", "debounce",
                "throttle"}
    /\ Init /\ S!Init /\ O!Init /\ I!Init /\ B!Init /\ D!Init /\ T!Init

AllNext ==
    /\ part' = part
    /\ \/ part = "pipeline" /\ Next   /\ UNCHANGED <<sVars, oVars, iVars, timerVars>>
       \/ part = "stream"   /\ S!Next /\ UNCHANGED <<vars, oVars, iVars, timerVars>>
       \/ part = "fanOut"   /\ O!Next /\ UNCHANGED <<vars, sVars, iVars, timerVars>>
       \/ part = "fanIn"    /\ I!Next /\ UNCHANGED <<vars, sVars, oVars, timerVars>>
       \/ part = "barrier"  /\ B!Next /\ UNCHANGED <<itemVars, dVars, tVars>>
       \/ part = "debounce" /\ D!Next /\ UNCHANGED <<itemVars, bVars, tVars>>
       \/ part = "throttle" /\ T!Next /\ UNCHANGED <<itemVars, bVars, dVars>>

(* Fairness of the modules; `part' never changes, so that it may stand in  *)
(* the actions, where TLC checks it faster than an implication.            *)
AllFairness ==
    /\ WF_sVars(part = "stream" /\ S!Fulfil)
    /\ WF_sVars(part = "stream" /\ S!Stage)
    /\ WF_sVars(part = "stream" /\ S!ConsumerAsks)
    /\ WF_sVars(part = "stream" /\ S!Continue)
    /\ WF_oVars(part = "fanOut" /\ (O!Broadcast \/ O!SourceDone))
    /\ \A o \in Output :
         /\ WF_oVars(part = "fanOut" /\ O!Continue(o))
         /\ WF_oVars(part = "fanOut" /\ oReader[o] = "between" /\ O!ConsumerAsks(o))
    /\ \A s \in Sources : WF_iVars(part = "fanIn" /\ (I!Push(s) \/ I!Done(s)))
    /\ WF_iVars(part = "fanIn" /\ I!Continue)
    /\ WF_iVars(part = "fanIn" /\ I!ConsumerAsks)
    /\ WF_bVars(part = "barrier" /\ \E p \in Participant : B!Pass(p))
    /\ WF_dVars(part = "debounce" /\ D!Tick)
    /\ WF_dVars(part = "debounce" /\ \E t \in D!Timer : D!Fire(t))

AllSpec == AllInit /\ [][AllNext]_allVars /\ AllFairness

-----------------------------------------------------------------------------
(* The properties, stated and explained in the modules. *)
StreamsSafety ==
    /\ TypeOK /\ S!TypeOK /\ O!TypeOK /\ I!TypeOK
    /\ EachOnce /\ RejectedGoesOn
    /\ S!NoLostWakeup /\ O!NoLostWakeup /\ I!NoLostWakeup
    /\ S!StartsAtNext /\ S!InOrder /\ O!CopyForEach /\ I!SourceOrderKept /\ I!Counted

(* What ends has ended with everything; a rejection is not taken for that. *)
EndMeansAll ==
    ResolvedIsComplete /\ S!EndedMeans /\ O!EndedMeansAll /\ I!EndedMeansExhausted

(* The throttled function runs at intervals, and what is dropped came too  *)
(* early; the barrier lifts for nobody before all are there.               *)
Spaced ==
    /\ B!TypeOK /\ D!TypeOK /\ T!TypeOK
    /\ T!Spaced /\ T!DropsOnlyRecent
    /\ B!Rendezvous /\ D!ArmedForLast /\ T!LastTrue

FiresAfterQuiet == D!FiresAfterQuiet

(* Who keeps asking gets to the end, unless something rejects; who waits   *)
(* at a barrier that lifts gets through; the last call is made.            *)
AllGoOn ==
    /\ S!StreamEnds /\ O!ReaderEnds /\ I!Terminates
    /\ B!LiftedPass /\ D!LastCallFires
=============================================================================
