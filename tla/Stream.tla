------------------------------- MODULE Stream -------------------------------
(***************************************************************************)
(* Stream.generate(fn), or fromArray(), with .filter(p).map(f).take(n), of *)
(* src/src/async/index.ts, read by a for-await loop, collect() or          *)
(* forEach().  streamFromProducer() is an async generator: it starts fn()  *)
(* at its first next() and takes from a buffer that emit() fills.  An item *)
(* that map() has made is known by the one it was made of.                 *)
(*                                                                         *)
(* A step is a callback; a resolved generator continues in a later one, by *)
(* when emit() may have been called again.                                 *)
(***************************************************************************)
EXTENDS Naturals, Sequences, SequencesExt

CONSTANTS
    NItems,      \* fn() emits 1 .. NItems, or some of them
    Passes,      \* the items that filter(p) lets through
    TakeN,       \* the n of take(n)
    MayReject    \* whether fn(), p() and f() may reject

NItemsAssumption == NItems \in Nat /\ TakeN \in Nat /\ Passes \subseteq Nat \ {0}
MayRejectAssumption == MayReject \in BOOLEAN

VARIABLES
    producer,    \* "idle", "running", "fulfilled" (done is true), "rejected"
    emitted,     \* calls of emit()
    buffer,
    resolver,    \* whether there is one
    reader,      \* the stream: "new", "between", "waiting", "woken",
                 \* "staged" (p or f has an item), "ended", "failed"
    staged,      \* the item that p or f has, or 0
    received     \* history: the items that take(n) has yielded

fn   == <<producer, emitted>>
vars == <<fn, buffer, resolver, reader, staged, received>>

Items(n) == [k \in 1 .. n |-> k]

Init ==
    /\ producer = "idle"
    /\ emitted = 0
    /\ buffer = <<>>
    /\ resolver = FALSE
    /\ reader = "new"
    /\ staged = 0 /\ received = <<>>

-----------------------------------------------------------------------------
Wake ==
    /\ reader' = IF resolver THEN "woken" ELSE reader
    /\ resolver' = FALSE

Pushed(item) == Append(buffer, item)

Emit ==
    /\ producer = "running"
    /\ emitted < NItems
    /\ emitted' = emitted + 1
    /\ buffer' = Pushed(emitted + 1)
    /\ Wake
    /\ UNCHANGED <<producer, staged, received>>

NoWake == UNCHANGED <<reader, resolver>>         \* [done does not resolve]
WakeOnDone == Wake

Fulfil ==
    /\ producer = "running"
    /\ producer' = "fulfilled"
    /\ WakeOnDone
    /\ UNCHANGED <<emitted, buffer, staged, received>>

(* fn() rejects: `done' stays false, and the generator does not learn of   *)
(* it, since it awaits producerPromise only when it is done.               *)
Reject ==
    /\ MayReject
    /\ producer = "running"
    /\ producer' = "rejected"
    /\ UNCHANGED <<emitted, buffer, resolver, reader, staged, received>>

(* The first next() calls fn() before it looks at the buffer; a stream     *)
(* fromArray() has all its items from the start.                           *)
Begin ==
    /\ reader = "new"
    /\ \/ producer' = "running" /\ UNCHANGED <<emitted, buffer>>
       \/ producer' = "fulfilled" /\ emitted' = NItems /\ buffer' = Items(NItems)
    /\ reader' = "woken"
    /\ UNCHANGED <<resolver, staged, received>>

(* The generator runs, to where it awaits or hands an item to p.           *)
AtEnd == producer = "fulfilled" /\ buffer = <<>>

Runs ==
    \/ /\ ~AtEnd
       /\ buffer # <<>>
       /\ buffer' = Tail(buffer)
       /\ reader' = "staged" /\ staged' = Head(buffer)
       /\ UNCHANGED resolver
    \/ /\ AtEnd
       /\ reader' = "ended"
       /\ UNCHANGED <<buffer, resolver, staged>>
    \/ /\ ~AtEnd
       /\ buffer = <<>>
       /\ reader' = "waiting"
       /\ resolver' = TRUE
       /\ UNCHANGED <<buffer, staged>>

ConsumerAsks == reader = "between" /\ Runs /\ UNCHANGED <<fn, received>>
Continue == reader = "woken" /\ Runs /\ UNCHANGED <<fn, received>>

(* take(n) has counted the items it has yielded, and looks at the count    *)
(* only when it has the next item.                                         *)
Enough == Len(received) >= TakeN

(* p and f have settled: the item is dropped and the next one asked for,   *)
(* or it is yielded, or it is the one that ends take(n).                   *)
Drops ==
    /\ staged \notin Passes
    /\ reader' = "woken"
    /\ UNCHANGED received
Yields ==
    /\ staged \in Passes
    /\ IF Enough
         THEN reader' = "ended" /\ UNCHANGED received
         ELSE reader' = "between" /\ received' = Append(received, staged)

Stage ==
    /\ reader = "staged"
    /\ Drops \/ Yields
    /\ staged' = 0
    /\ UNCHANGED <<fn, buffer, resolver>>

(* p or f rejects, and so does the consumer's loop.                        *)
StageRejects ==
    /\ MayReject
    /\ reader = "staged"
    /\ reader' = "failed"
    /\ staged' = 0
    /\ UNCHANGED <<fn, buffer, resolver, received>>

Next ==
    \/ Emit \/ Fulfil \/ Reject \/ Begin
    \/ ConsumerAsks \/ Continue \/ Stage \/ StageRejects

Spec == Init /\ [][Next]_vars

(* fn(), p() and f() settle, a woken generator runs, the consumer asks     *)
(* until the end.                                                          *)
Fairness ==
    /\ WF_vars(Fulfil) /\ WF_vars(Stage)
    /\ WF_vars(ConsumerAsks) /\ WF_vars(Continue)

FairSpec == Spec /\ Fairness

-----------------------------------------------------------------------------
(* The variables have their types; there is a resolver exactly while the   *)
(* generator waits.                                                        *)
TypeOK ==
    /\ producer \in {"idle", "running", "fulfilled", "rejected"}
    /\ emitted \in 0 .. NItems
    /\ buffer \in Seq(1 .. NItems)
    /\ reader \in {"new", "between", "waiting", "woken", "staged", "ended", "failed"}
    /\ staged \in 0 .. NItems /\ (staged # 0 <=> reader = "staged")
    /\ resolver <=> reader = "waiting"
    /\ received \in Seq(1 .. NItems)

(* fn() is started by the first next(), and by nothing before that.        *)
StartsAtNext ==
    /\ reader = "new" <=> producer = "idle"
    /\ producer = "idle" => emitted = 0

(* Items that have left the buffer, and those that p and f have done with. *)
Taken == emitted - Len(buffer)
Judged == IF staged = 0 THEN Taken ELSE Taken - 1

Letting(n) == Passes \cap 1 .. n

(* No item that filter() lets through is lost, doubled or overtaken on its *)
(* way, and take(n) "emits at most n items" (async/index.ts:165): those it *)
(* has yielded are in order, and none in between is missing.               *)
InOrder ==
    /\ \A k \in 1 .. Len(buffer) : buffer[k] = Taken + k
    /\ staged \in {0, Taken}
    /\ \A k \in 1 .. Len(received) - 1 : received[k] < received[k + 1]
    /\ \A item \in ToSet(received) :
          item <= Judged /\ item \in Passes /\ Letting(item) \subseteq ToSet(received)
    /\ reader \notin {"ended", "failed"} => Letting(Judged) \subseteq ToSet(received)
    /\ Len(received) <= TakeN

(* No wake-up is lost: the generator waits only for what may still come.   *)
NoLostWakeup == reader = "waiting" => buffer = <<>> /\ producer # "fulfilled"

(* The stream ends when fn() has fulfilled and all it emitted is yielded,  *)
(* or when take(n) has got one item more than it yields: having yielded n  *)
(* it still waits for another.  A rejection is never taken for the end.    *)
EndedMeans ==
    reader = "ended" =>
        \/ producer = "fulfilled" /\ Letting(emitted) \subseteq ToSet(received)
        \/ Len(received) = TakeN /\ ~(Letting(emitted) \subseteq ToSet(received))

(* The consumer gets to the end unless something rejects.                  *)
StreamEnds ==
    reader # "new" ~> reader \in {"ended", "failed"} \/ producer = "rejected"
=============================================================================
