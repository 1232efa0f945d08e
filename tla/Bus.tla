--------------------------------- MODULE Bus ---------------------------------
(***************************************************************************)
(* Bus of src/src/pubsub/index.ts, on one topic: publish() takes the list  *)
(* of subscriptions as it is and leaves one microtask per handler, so that *)
(* other code, and other handlers, run before a handler does.              *)
(***************************************************************************)
EXTENDS Naturals, Sequences, FiniteSets, SequencesExt, Filter

CONSTANTS
    Subscription,  \* one for each call of subscribe()
    MaxEvents      \* bound: calls of publish()

Event == 1 .. MaxEvents

EventsAssumption == MaxEvents \in Nat

VARIABLES
    subs,        \* the array of the topic
    cancelled,   \* the subscriptions whose cancelled is true
    microtasks,  \* the deliveries <<subscription, event>> that are queued
    running,     \* the deliveries whose handler has not settled
    publish,     \* publish[e]: "none", "waiting", "resolved"
    subscribed,  \* history: the subscriptions made
    due,         \* history: due[e], who was subscribed when e was published
    started      \* history: the deliveries, in the order of the calls

vars == <<subs, cancelled, microtasks, running, publish, subscribed, due, started>>

Init ==
    /\ subs = <<>>
    /\ cancelled = {}
    /\ microtasks = <<>>
    /\ running = {}
    /\ publish = [e \in Event |-> "none"]
    /\ subscribed = {}
    /\ due = [e \in Event |-> {}]
    /\ started = <<>>

-----------------------------------------------------------------------------
Subscribe(s) ==
    /\ s \notin subscribed
    /\ subs' = Append(subs, s)
    /\ subscribed' = subscribed \cup {s}
    /\ UNCHANGED <<cancelled, microtasks, running, publish, due, started>>

(* The function that subscribe() returned, called once or more often.      *)
IndexOf(s) == CHOOSE n \in 1 .. Len(subs) : subs[n] = s
SpliceAnyway(s) ==                               \* [no idx !== -1]
    IF s \in ToSet(subs) THEN RemoveAt(subs, IndexOf(s))
    ELSE IF subs = <<>> THEN subs ELSE Front(subs)
Spliced(s) ==
    IF s \in ToSet(subs) THEN RemoveAt(subs, IndexOf(s)) ELSE subs

Unsubscribe(s) ==
    /\ s \in subscribed
    /\ cancelled' = cancelled \cup {s}
    /\ subs' = Spliced(s)
    /\ UNCHANGED <<microtasks, running, publish, subscribed, due, started>>

Published(e) == publish[e] # "none"

Queued(d) == microtasks \o d

Publish(e) ==
    /\ ~Published(e)
    /\ \A d \in Event : d < e => Published(d)
    /\ LET handlers ==
             Filtered(subs, {n \in 1 .. Len(subs) : subs[n] \notin cancelled})
       IN  microtasks' = Queued([n \in 1 .. Len(handlers) |-> <<handlers[n], e>>])
    /\ publish' = [publish EXCEPT ![e] = "waiting"]
    /\ due' = [due EXCEPT ![e] = subscribed \ cancelled]
    /\ UNCHANGED <<subs, cancelled, running, subscribed, started>>

(* The next microtask calls a handler, which returns, throws, or awaits.   *)
Deliver ==
    /\ microtasks # <<>>
    /\ microtasks' = Tail(microtasks)
    /\ started' = Append(started, Head(microtasks))
    /\ running' \in {running, running \cup {Head(microtasks)}}
    /\ UNCHANGED <<subs, cancelled, publish, subscribed, due>>

(* A handler that awaited fulfils, or rejects, which is caught.            *)
Settle(d) ==
    /\ d \in running
    /\ running' = running \ {d}
    /\ UNCHANGED <<subs, cancelled, microtasks, publish, subscribed, due, started>>

(* Promise.all() of an event's handlers. *)
AllSettled(e) == \A d \in running \cup ToSet(microtasks) : d[2] # e

Resolve(e) ==
    /\ publish[e] = "waiting"
    /\ AllSettled(e)
    /\ publish' = [publish EXCEPT ![e] = "resolved"]
    /\ UNCHANGED <<subs, cancelled, microtasks, running, subscribed, due, started>>

Next ==
    \/ \E s \in Subscription : Subscribe(s) \/ Unsubscribe(s)
    \/ \E e \in Event : Publish(e) \/ Resolve(e)
    \/ Deliver
    \/ \E d \in running : Settle(d)

Spec == Init /\ [][Next]_vars

-----------------------------------------------------------------------------
(* The variables have their types; the array holds just the subscriptions  *)
(* that were made and not cancelled, in the order they were made.          *)
TypeOK ==
    /\ subs \in Seq(Subscription)
    /\ \A m, n \in 1 .. Len(subs) : m # n => subs[m] # subs[n]
    /\ ToSet(subs) = subscribed \ cancelled
    /\ cancelled \subseteq subscribed /\ subscribed \subseteq Subscription
    /\ microtasks \in Seq(Subscription \X Event)
    /\ running \subseteq Subscription \X Event
    /\ publish \in [Event -> {"none", "waiting", "resolved"}]
    /\ due \in [Event -> SUBSET Subscription]
    /\ started \in Seq(Subscription \X Event)

(* Each event is delivered to those subscribed when it was published, once *)
(* each and to nobody else, whatever subscribes or unsubscribes (also      *)
(* twice) until its deliveries come.                                       *)
OncePerSubscriber ==
    LET all == started \o microtasks IN
    /\ \A m, n \in 1 .. Len(all) : m # n => all[m] # all[n]
    /\ \A e \in Event, s \in Subscription : <<s, e>> \in ToSet(all) <=> s \in due[e]

(* A subscriber's handler is called with the events in the order in which  *)
(* they were published, though publish() was not awaited.                  *)
CalledInOrder ==
    LET all == started \o microtasks IN
    \A m, n \in 1 .. Len(all) :
        m < n /\ all[m][1] = all[n][1] => all[m][2] < all[n][2]

(* Nothing is due, called or running for an event before publish().        *)
NothingEarly ==
    /\ \A d, e \in Event : d < e /\ Published(e) => Published(d)
    /\ \A e \in Event : due[e] # {} => Published(e)
    /\ running \subseteq ToSet(started)

(* publish() resolves only when every handler of the event has settled,    *)
(* though some of them failed.                                             *)
ResolvedMeansHandled ==
    \A e \in Event : publish[e] = "resolved" =>
        \A d \in running \cup ToSet(microtasks) : d[2] # e
=============================================================================
