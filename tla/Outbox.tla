------------------------------- MODULE Outbox -------------------------------
(***************************************************************************)
(* The transactional outbox of src/src/outbox/index.ts.                    *)
(*                                                                         *)
(* storeOutboxEvent() inserts an event in a transaction of the             *)
(* application.  Relays poll the table; a batch selects unpublished rows   *)
(* FOR UPDATE SKIP LOCKED, publishes them one after the other and marks    *)
(* them in the same transaction.  As in JobQueue, a batch whose session is *)
(* lost while it publishes goes on as a "zombie" without its locks: it     *)
(* learns of the loss only from the UPDATE after the last row.             *)
(*                                                                         *)
(* Events are numbered in the order of created_at, the time at which the   *)
(* storing transaction began.                                              *)
(***************************************************************************)
EXTENDS Naturals, FiniteSets

CONSTANTS
    NEvents,       \* how many events are stored
    Payloads,      \* sets of events whose payload, parsed from jsonb, is no
                   \* string: a behaviour has one of them
    Process,
    Client,        \* the clients of one process's pg pool
    BatchSize,
    MaxFaults,     \* bound: rejected publications, lost sessions, crashes, stops
    MaxIntervals   \* bound: live intervals of one relay

Event == 1 .. NEvents
Batch == Process \X Client

ASSUME EventsAssumption == NEvents \in Nat /\ Payloads \subseteq SUBSET Event
ASSUME ProcessAssumption == IsFiniteSet(Process) /\ IsFiniteSet(Client)
ASSUME BatchSizeAssumption == BatchSize \in Nat \ {0}
ASSUME BoundsAssumption == {MaxFaults, MaxIntervals} \subseteq Nat

VARIABLES
    event,       \* event[e]: the row and the transaction that stores it
    phase,       \* phase[b]: "idle", "connected", "publishing", "zombie"
    rows,        \* rows[b]: the selected rows not yet published
    ids,         \* ids[b]: all selected rows; b has them locked
    timer,       \* timer[p]: this.timer is set
    intervals,   \* intervals[p]: the intervals that fire
    sends,       \* history: how often the publisher accepted the event
    faults,      \* counts what MaxFaults bounds
    careless,    \* history: relays started while started
    parsed       \* which of Payloads it is; it does not change

worker == <<phase, rows, ids>>
relay  == <<timer, intervals, careless>>
vars   == <<event, worker, relay, sends, faults, parsed>>

Locked(b) == IF phase[b] = "publishing" THEN ids[b] ELSE {}
AllLocked == UNION {Locked(b) : b \in Batch}

Init ==
    /\ event = [e \in Event |-> "absent"]
    /\ phase = [b \in Batch |-> "idle"]
    /\ rows = [b \in Batch |-> {}]
    /\ ids = [b \in Batch |-> {}]
    /\ timer = [p \in Process |-> FALSE]
    /\ intervals = [p \in Process |-> 0]
    /\ sends = [e \in Event |-> 0]
    /\ faults = 0
    /\ careless = {}
    /\ parsed \in Payloads

Fault == faults < MaxFaults /\ faults' = faults + 1

-----------------------------------------------------------------------------
(* storeOutboxEvent() in a transaction that then commits or rolls back.    *)
Store(e) ==
    /\ event[e] = "absent"
    /\ e > 1 => event[e - 1] # "absent"
    /\ event' = [event EXCEPT ![e] = "uncommitted"]
    /\ UNCHANGED <<worker, relay, sends, faults, parsed>>

EndTransaction(e) ==
    /\ event[e] = "uncommitted"
    /\ \E end \in {"pending", "rolled back"} : event' = [event EXCEPT ![e] = end]
    /\ UNCHANGED <<worker, relay, sends, faults, parsed>>

(* start() does not ask whether there is a timer; stop() clears the last.  *)
Start(p) ==
    /\ intervals[p] < MaxIntervals
    /\ timer' = [timer EXCEPT ![p] = TRUE]
    /\ intervals' = [intervals EXCEPT ![p] = @ + 1]
    /\ careless' = IF timer[p] THEN careless \cup {p} ELSE careless
    /\ UNCHANGED <<event, parsed, worker, sends, faults>>

Cleared(p) == intervals' = [intervals EXCEPT ![p] = @ - 1]

Stop(p) ==
    /\ timer[p]
    /\ Fault
    /\ timer' = [timer EXCEPT ![p] = FALSE]
    /\ Cleared(p)
    /\ UNCHANGED <<event, parsed, worker, careless, sends>>

-----------------------------------------------------------------------------
(* An interval fires; it does not wait for the relay() before it.          *)
Poll(b) ==
    /\ intervals[b[1]] > 0
    /\ phase[b] = "idle"
    /\ phase' = [phase EXCEPT ![b] = "connected"]
    /\ UNCHANGED <<event, parsed, rows, ids, relay, sends, faults>>

(* The SELECT: the oldest unpublished rows that nobody has locked.         *)
NoSkipLocked == {e \in Event : event[e] = "pending"}  \* [no row locks]
Selectable == {e \in Event : event[e] = "pending"} \ AllLocked

OldestSelectable ==
    {S \in SUBSET Selectable :
        /\ Cardinality(S) = IF Cardinality(Selectable) < BatchSize
                              THEN Cardinality(Selectable) ELSE BatchSize
        /\ \A e \in S, d \in Selectable \ S : e < d}

Select(b) ==
    /\ phase[b] = "connected"
    /\ IF Selectable = {}
         THEN /\ phase' = [phase EXCEPT ![b] = "idle"]
              /\ UNCHANGED <<rows, ids>>
         ELSE \E S \in OldestSelectable :
                /\ phase' = [phase EXCEPT ![b] = "publishing"]
                /\ rows' = [rows EXCEPT ![b] = S]
                /\ ids' = [ids EXCEPT ![b] = S]
    /\ UNCHANGED <<event, parsed, relay, sends, faults>>

(* The loop has come to row e: the oldest of those not yet published.      *)
Publishing(b, e) ==
    /\ phase[b] \in {"publishing", "zombie"}
    /\ e \in rows[b]
    /\ \A d \in rows[b] : e <= d

(* The publisher accepts the row. *)
Publish(b, e) ==
    /\ Publishing(b, e)
    /\ e \notin parsed
    /\ sends' = [sends EXCEPT ![e] = @ + 1]
    /\ rows' = [rows EXCEPT ![b] = @ \ {e}]
    /\ UNCHANGED <<event, parsed, phase, ids, relay, faults>>

(* The catch branch: ROLLBACK, release of the client, console.error.       *)
NotReleased(b) ==                                     \* [no client.release()]
    /\ rows' = [rows EXCEPT ![b] = {}]
    /\ ids' = [ids EXCEPT ![b] = {}]
    /\ UNCHANGED phase
EndBatch(b) ==
    /\ phase' = [phase EXCEPT ![b] = "idle"]
    /\ rows' = [rows EXCEPT ![b] = {}]
    /\ ids' = [ids EXCEPT ![b] = {}]

(* Buffer.from() throws on what pg made of a jsonb that is no string.      *)
PayloadThrows(b, e) ==
    /\ Publishing(b, e)
    /\ e \in parsed
    /\ EndBatch(b)
    /\ UNCHANGED <<event, parsed, relay, sends, faults>>

(* publish() rejects, having delivered the message or not. *)
PublishRejects(b, e) ==
    /\ Publishing(b, e)
    /\ e \notin parsed
    /\ Fault
    /\ sends' \in {sends, [sends EXCEPT ![e] = @ + 1]}
    /\ EndBatch(b)
    /\ UNCHANGED <<event, parsed, relay>>

(* The UPDATE of all rows of the batch, and COMMIT. *)
MarkedEarly(b) == phase[b] = "publishing"             \* [UPDATE before publish]
AllSent(b) == phase[b] = "publishing" /\ rows[b] = {}

Commit(b) ==
    /\ AllSent(b)
    /\ event' = [e \in Event |-> IF e \in ids[b] THEN "published" ELSE event[e]]
    /\ EndBatch(b)
    /\ UNCHANGED <<relay, sends, faults, parsed>>

(* A query of the batch fails, or all do as the session is gone.           *)
QueryFails(b) ==
    /\ \/ phase[b] = "connected" /\ Fault
       \/ phase[b] = "publishing" /\ rows[b] = {} /\ Fault
       \/ phase[b] = "zombie" /\ rows[b] = {} /\ UNCHANGED faults
    /\ EndBatch(b)
    /\ UNCHANGED <<event, parsed, relay, sends>>

(* The session is lost while a row is being published.                     *)
SessionLost(b) ==
    /\ phase[b] = "publishing"
    /\ rows[b] # {}
    /\ Fault
    /\ phase' = [phase EXCEPT ![b] = "zombie"]
    /\ UNCHANGED <<event, parsed, rows, ids, relay, sends>>

(* The process dies, after its last publish() was delivered or before.     *)
Crash(p) ==
    /\ Fault
    /\ phase' = [b \in Batch |-> IF b[1] = p THEN "idle" ELSE phase[b]]
    /\ rows' = [b \in Batch |-> IF b[1] = p THEN {} ELSE rows[b]]
    /\ ids' = [b \in Batch |-> IF b[1] = p THEN {} ELSE ids[b]]
    /\ timer' = [timer EXCEPT ![p] = FALSE]
    /\ intervals' = [intervals EXCEPT ![p] = 0]
    /\ UNCHANGED <<event, parsed, careless, sends>>

Next ==
    \/ \E e \in Event : Store(e) \/ EndTransaction(e)
    \/ \E p \in Process : Start(p) \/ Stop(p) \/ Crash(p)
    \/ \E b \in Batch :
         \/ Poll(b) \/ Select(b) \/ Commit(b) \/ QueryFails(b) \/ SessionLost(b)
         \/ \E e \in Event : Publish(b, e) \/ PayloadThrows(b, e) \/ PublishRejects(b, e)

Spec == Init /\ [][Next]_vars

(* Relays are (re)started and poll; queries and publications are answered. *)
Fairness ==
    /\ \A e \in Event : WF_vars(EndTransaction(e))
    /\ \A p \in Process : WF_vars(intervals[p] = 0 /\ Start(p))
    /\ \A b \in Batch :
         /\ WF_vars(Poll(b)) /\ WF_vars(Select(b)) /\ WF_vars(Commit(b))
         /\ WF_vars(\E e \in Event : Publish(b, e) \/ PayloadThrows(b, e))
         /\ WF_vars(phase[b] = "zombie" /\ QueryFails(b))

FairSpec == Spec /\ Fairness

-----------------------------------------------------------------------------
(* The variables have their types; a batch has rows only while it runs.    *)
TypeOK ==
    /\ event \in [Event -> {"absent", "uncommitted", "rolled back", "pending",
                            "published"}]
    /\ phase \in [Batch -> {"idle", "connected", "publishing", "zombie"}]
    /\ rows \in [Batch -> SUBSET Event]
    /\ ids \in [Batch -> SUBSET Event]
    /\ \A b \in Batch : /\ rows[b] \subseteq ids[b]
                        /\ Cardinality(ids[b]) <= BatchSize
                        /\ phase[b] \in {"idle", "connected"} => ids[b] = {}
    /\ timer \in [Process -> BOOLEAN]
    /\ intervals \in [Process -> 0 .. MaxIntervals]
    /\ sends \in [Event -> Nat]
    /\ faults \in 0 .. MaxFaults
    /\ careless \subseteq Process /\ parsed \subseteq Event

(* Only events of committed transactions are published.                    *)
OnlyCommittedSent ==
    \A e \in Event : sends[e] > 0 => event[e] \in {"pending", "published"}

(* An event is marked only when the publisher has accepted it, whatever    *)
(* failed in between; so no event is lost.                                 *)
MarkedWasSent == \A e \in Event : event[e] = "published" => sends[e] > 0

(* A message is duplicated at most once for each fault: relays that        *)
(* overlap do not send each other's rows.  (Unless the payload of a later *)
(* event throws: the rows before it are then sent again at every poll.)    *)
DuplicatesBounded ==
    \A e \in Event : (\A d \in parsed : d <= e) => sends[e] <= 1 + faults

(* A marked event is never sent again, unless by a batch that has lost its *)
(* session.                                                                *)
MarkedNotResent ==
    [][\A e \in Event : event[e] = "published" /\ sends'[e] > sends[e]
          => \E b \in Batch : phase[b] = "zombie" /\ e \in ids[b]]_vars

(* A batch sends its rows oldest first, so that an event is overtaken only *)
(* by rows of other batches or when it became visible later.               *)
OldestFirst ==
    \A b \in Batch : \A e \in rows[b], d \in ids[b] \ rows[b] : d < e

(* stop() ends the polling unless start() was called twice before.         *)
StopStops == \A p \in Process : ~timer[p] /\ intervals[p] > 0 => p \in careless

(* "Transactional outbox pattern with PostgreSQL" (README.md:36): every    *)
(* event of a committed transaction is published in the end, where every   *)
(* payload is a string.                                                    *)
EveryEventPublished ==
    \A e \in Event : parsed = {} /\ event[e] = "pending" ~> event[e] = "published"

(* A batch that publishes is alone with its rows, none of which is marked; *)
(* what it has passed over was sent; what a zombie holds was committed.    *)
Sent(b) == ids[b] \ rows[b]

BatchesAreTrue ==
    \A b \in Batch :
        /\ phase[b] = "publishing" =>
             /\ \A e \in ids[b] : event[e] = "pending"
             /\ \A e \in Sent(b) : sends[e] > 0
             /\ \A d \in Batch \ {b} : phase[d] = "publishing" => ids[b] \cap ids[d] = {}
        /\ \A e \in ids[b] : event[e] \in {"pending", "published"}

(* Every publication is that of the mark, of the batch that has sent the   *)
(* row and will mark it, or due to a fault; a zombie may still use up its. *)
Zombies(e) == {b \in Batch : phase[b] = "zombie" /\ e \in rows[b]}
Final(e) ==
    IF event[e] = "published" \/ \E b \in Batch : phase[b] = "publishing" /\ e \in Sent(b)
      THEN 1 ELSE 0

EverySendCounted ==
    \A e \in Event : (\A d \in parsed : d <= e) =>
        sends[e] + Cardinality(Zombies(e)) <= Final(e) + faults

(* A relay that was not started twice has one interval while its timer is  *)
(* set, and none otherwise.                                                *)
OneInterval ==
    \A p \in Process :
        /\ timer[p] => intervals[p] > 0
        /\ p \notin careless => intervals[p] = IF timer[p] THEN 1 ELSE 0

(* The outbox's invariant, inductive by its last three conjuncts. *)
OutboxSafety ==
    /\ TypeOK /\ OnlyCommittedSent /\ MarkedWasSent /\ DuplicatesBounded
    /\ OldestFirst /\ StopStops
    /\ BatchesAreTrue /\ EverySendCounted /\ OneInterval
=============================================================================
