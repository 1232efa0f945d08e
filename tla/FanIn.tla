------------------------------- MODULE FanIn -------------------------------
(***************************************************************************)
(* fanIn() of src/src/async/index.ts: an async generator that starts one   *)
(* loop per source at its first next(); the loops push into one queue, and *)
(* a counter tells how many of them are not exhausted.                     *)
(*                                                                         *)
(* As in FanOut, a step is a callback, and a resolved generator continues  *)
(* in a later one.                                                         *)
(***************************************************************************)
EXTENDS Naturals, Sequences, FiniteSets, SequencesExt

CONSTANTS
    Source,
    NItems,       \* NItems[s]: s yields <<s, 1>> .. <<s, NItems[s]>>
    MayReject     \* the sources that may reject before they are exhausted

SourceAssumption == IsFiniteSet(Source) /\ MayReject \subseteq Source
NItemsAssumption == NItems \in [Source -> Nat]

VARIABLES
    pulled,       \* pulled[s]: items taken from s
    source,       \* source[s]: "idle", "open", "done" or "rejected"
    queue,
    activeCount,
    resolver,     \* whether there is one
    reader,       \* the generator: "new", "between", "waiting", "woken",
                  \* "ended", or "left" by its consumer
    received      \* history: what it has yielded

loops == <<pulled, source>>
vars  == <<loops, queue, activeCount, resolver, reader, received>>

Item == UNION {{s} \X (1 .. NItems[s]) : s \in Source}

Init ==
    /\ pulled = [s \in Source |-> 0]
    /\ source = [s \in Source |-> "idle"]
    /\ queue = <<>>
    /\ activeCount = Cardinality(Source)
    /\ resolver = FALSE
    /\ reader = "new"
    /\ received = <<>>

-----------------------------------------------------------------------------
Wake ==
    /\ reader' = IF resolver THEN "woken" ELSE reader
    /\ resolver' = FALSE

Unshifted(item) == <<item>> \o queue        \* [unshift for push]
Pushed(item) == Append(queue, item)

(* A source yields an item. *)
Push(s) ==
    /\ source[s] = "open"
    /\ pulled[s] < NItems[s]
    /\ pulled' = [pulled EXCEPT ![s] = @ + 1]
    /\ queue' = Pushed(<<s, pulled[s] + 1>>)
    /\ Wake
    /\ UNCHANGED <<source, activeCount, received>>

WakeOnDone == Wake

Done(s) ==
    /\ source[s] = "open"
    /\ pulled[s] = NItems[s]
    /\ source' = [source EXCEPT ![s] = "done"]
    /\ activeCount' = activeCount - 1
    /\ WakeOnDone
    /\ UNCHANGED <<pulled, queue, received>>

(* A source rejects: done() is not called, and nobody handles the loop's   *)
(* promise.                                                                *)
StaysActive == activeCount

Rejects(s) ==
    /\ s \in MayReject
    /\ source[s] = "open"
    /\ source' = [source EXCEPT ![s] = "rejected"]
    /\ activeCount' = StaysActive
    /\ UNCHANGED <<pulled, queue, resolver, reader, received>>

(* The generator goes around its loops. *)
Exhausted == activeCount = 0 /\ queue = <<>>

Runs ==
    \/ /\ ~Exhausted
       /\ queue # <<>>
       /\ received' = Append(received, Head(queue))
       /\ queue' = Tail(queue)
       /\ reader' = "between"
       /\ UNCHANGED resolver
    \/ /\ Exhausted
       /\ reader' = "ended"
       /\ UNCHANGED <<queue, resolver, received>>
    \/ /\ ~Exhausted
       /\ queue = <<>>
       /\ reader' = "waiting"
       /\ resolver' = TRUE
       /\ UNCHANGED <<queue, received>>

(* The first next() starts the loops.  Their sources yield later.          *)
Begin ==
    /\ reader = "new"
    /\ source' = [s \in Source |-> "open"]
    /\ Runs
    /\ UNCHANGED <<pulled, activeCount>>

ConsumerAsks ==
    /\ reader = "between"
    /\ Runs
    /\ UNCHANGED <<loops, activeCount>>

Continue ==
    /\ reader = "woken"
    /\ Runs
    /\ UNCHANGED <<loops, activeCount>>

(* The consumer breaks out of its loop.  The sources are not told.         *)
ConsumerLeaves ==
    /\ reader = "between"
    /\ reader' = "left"
    /\ UNCHANGED <<loops, queue, activeCount, resolver, received>>

Next ==
    \/ \E s \in Source : Push(s) \/ Done(s) \/ Rejects(s)
    \/ Begin \/ ConsumerAsks \/ Continue \/ ConsumerLeaves

Spec == Init /\ [][Next]_vars

(* Sources go on; a woken generator runs; the consumer asks or leaves.     *)
Fairness ==
    /\ \A s \in Source : WF_vars(Push(s) \/ Done(s))
    /\ WF_vars(Continue) /\ WF_vars(ConsumerAsks)

FairSpec == Spec /\ Fairness

-----------------------------------------------------------------------------
(* The variables have their types; there is a resolver exactly while the   *)
(* generator waits.                                                        *)
TypeOK ==
    /\ pulled \in [Source -> Nat]
    /\ source \in [Source -> {"idle", "open", "done", "rejected"}]
    /\ queue \in Seq(Item)
    /\ activeCount \in 0 .. Cardinality(Source)
    /\ reader \in {"new", "between", "waiting", "woken", "ended", "left"}
    /\ resolver <=> reader = "waiting"
    /\ received \in Seq(Item)

(* The merged stream keeps the order of each source, loses nothing and     *)
(* doubles nothing: what the sources have yielded is received or queued.   *)
Merged == received \o queue

SourceOrderKept ==
    /\ ToSet(Merged) = {item \in Item : item[2] <= pulled[item[1]]}
    /\ \A j, k \in 1 .. Len(Merged) :
          j < k /\ Merged[j][1] = Merged[k][1] => Merged[j][2] < Merged[k][2]

(* The counter is that of the loops that have not called done(), be it     *)
(* because they have not begun, go on, or rejected.                        *)
Counted ==
    /\ activeCount = Cardinality({s \in Source : source[s] # "done"})
    /\ reader = "waiting" => activeCount # 0
    /\ reader = "ended" => activeCount = 0 /\ queue = <<>>
    /\ \A s \in Source : pulled[s] <= NItems[s]
                           /\ (source[s] = "done" => pulled[s] = NItems[s])
    /\ \A s \in Source : (reader = "new") = (source[s] = "idle")

(* No wake-up is lost: the generator waits only while the queue is empty   *)
(* and some source is not exhausted.                                       *)
NoLostWakeup ==
    reader = "waiting" => queue = <<>> /\ \E s \in Source : source[s] # "done"

(* The merged stream ends only when every source is exhausted and all      *)
(* items were yielded: a source that rejected does not end it silently.    *)
EndedMeansExhausted ==
    reader = "ended" => /\ \A s \in Source : source[s] = "done"
                        /\ ToSet(received) = Item

(* "Terminates when all inputs are exhausted" (async/index.ts:281), for a  *)
(* consumer that stays, unless a source rejects.                           *)
Terminates ==
    reader # "new" ~> \/ reader \in {"ended", "left"}
                      \/ \E s \in Source : source[s] = "rejected"
=============================================================================
