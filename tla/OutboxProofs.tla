---------------------------- MODULE OutboxProofs ----------------------------
(***************************************************************************)
(* Proofs about Outbox.                                                    *)
(*                                                                         *)
(* Core is the inductive invariant.  The count of duplicates is the hard   *)
(* part: a publication is paid for by the mark of the event, by the batch  *)
(* that will mark it, or by a fault, and a batch that loses its session    *)
(* has one publication of each of its remaining rows in hand.              *)
(***************************************************************************)
EXTENDS Outbox, FiniteSetTheorems, TLAPS

Core ==
    /\ TypeOK /\ OnlyCommittedSent /\ MarkedWasSent /\ OldestFirst
    /\ BatchesAreTrue /\ EverySendCounted /\ OneInterval

-----------------------------------------------------------------------------
(* A set of batches has a cardinality; fewer batches, a smaller one.       *)
LEMMA ZombiesFinite ==
    \A e \in Event :
        /\ IsFiniteSet(Zombies(e)) /\ Cardinality(Zombies(e)) \in Nat
        /\ IsFiniteSet(Zombies(e)') /\ Cardinality(Zombies(e)') \in Nat
<1>1. IsFiniteSet(Batch)
  BY ProcessAssumption, FS_Product DEF Batch
<1>2. ASSUME NEW Z \in SUBSET Batch
      PROVE  IsFiniteSet(Z) /\ Cardinality(Z) \in Nat
  BY <1>1, FS_Subset, FS_CardinalityType
<1>3. \A e \in Event : Zombies(e) \in SUBSET Batch /\ Zombies(e)' \in SUBSET Batch
  BY DEF Zombies
<1>4. QED
  BY <1>2, <1>3

(* The SELECT takes at most batchSize rows. *)
LEMMA Selected ==
    ASSUME NEW S \in OldestSelectable
    PROVE  /\ S \subseteq Event /\ Cardinality(S) <= BatchSize
           /\ \A e \in S : event[e] = "pending" /\ e \notin AllLocked
<1>1. S \subseteq Selectable /\ Selectable \in SUBSET Event
  BY DEF OldestSelectable, Selectable
<1>2. IsFiniteSet(Selectable)
  <2>1. IsFiniteSet(Event)
    BY EventsAssumption, FS_Interval DEF Event
  <2>2. QED
    BY <2>1, <1>1, FS_Subset
<1>3. Cardinality(Selectable) \in Nat
  BY <1>2, FS_CardinalityType
<1>4. Cardinality(S) = IF Cardinality(Selectable) < BatchSize
                         THEN Cardinality(Selectable) ELSE BatchSize
  BY DEF OldestSelectable
<1>5. Cardinality(S) <= BatchSize
  BY <1>3, <1>4, BatchSizeAssumption
<1>6. QED
  BY <1>1, <1>5 DEF Selectable

(* What nobody has locked is in no batch that publishes.                   *)
LEMMA NotLocked ==
    \A e : e \notin AllLocked =>
        \A b \in Batch : phase[b] = "publishing" => e \notin ids[b]
  BY DEF AllLocked, Locked

LEMMA EventsAreNumbers == Event \subseteq Nat /\ NEvents \in Nat
  BY EventsAssumption DEF Event

LEMMA BoundsAreNumbers == MaxFaults \in Nat /\ MaxIntervals \in Nat
  BY BoundsAssumption

-----------------------------------------------------------------------------
LEMMA InitTypes == Init => TypeOK
<1>1. Cardinality({}) = 0 /\ 0 <= BatchSize
  BY FS_EmptySet, BatchSizeAssumption
<1>2. QED
  BY <1>1, BoundsAreNumbers, EventsAssumption DEF Init, TypeOK

(* How a step may change the batches, as far as the types are concerned.   *)
LEMMA EndBatchTypes ==
    ASSUME TypeOK, NEW b \in Batch, EndBatch(b)
    PROVE  /\ phase' \in [Batch -> {"idle", "connected", "publishing", "zombie"}]
           /\ rows' \in [Batch -> SUBSET Event] /\ ids' \in [Batch -> SUBSET Event]
           /\ \A d \in Batch : /\ rows'[d] \subseteq ids'[d]
                               /\ Cardinality(ids'[d]) <= BatchSize
                               /\ phase'[d] \in {"idle", "connected"} => ids'[d] = {}
           /\ phase'[b] = "idle" /\ rows'[b] = {} /\ ids'[b] = {}
           /\ \A d \in Batch \ {b} :
                phase'[d] = phase[d] /\ rows'[d] = rows[d] /\ ids'[d] = ids[d]
<1>1. Cardinality({}) = 0 /\ 0 <= BatchSize
  BY FS_EmptySet, BatchSizeAssumption
<1>2. QED
  BY <1>1 DEF TypeOK, EndBatch

LEMMA NumberTypes ==
    ASSUME TypeOK
    PROVE  /\ sends \in [Event -> Nat] /\ \A e \in Event : sends[e] \in Nat
           /\ intervals \in [Process -> 0 .. MaxIntervals]
           /\ faults \in 0 .. MaxFaults /\ faults \in Nat
<1>1. /\ sends \in [Event -> Nat]
      /\ intervals \in [Process -> 0 .. MaxIntervals] /\ faults \in 0 .. MaxFaults
  BY DEF TypeOK
<1>2. QED
  BY <1>1, BoundsAreNumbers

LEMMA FaultTypes == ASSUME TypeOK, Fault PROVE faults' \in 0 .. MaxFaults
  BY NumberTypes, BoundsAreNumbers DEF Fault

LEMMA NextTypes == TypeOK /\ OneInterval /\ [Next]_vars => TypeOK'
<1> SUFFICES ASSUME TypeOK, OneInterval, [Next]_vars PROVE TypeOK'
  OBVIOUS
<1> USE DEF worker, relay
<1>1. ASSUME NEW e \in Event, Store(e) \/ EndTransaction(e) PROVE TypeOK'
  BY <1>1 DEF Store, EndTransaction, TypeOK
<1>2. ASSUME NEW p \in Process, Start(p) PROVE TypeOK'
  <2>1. intervals' \in [Process -> 0 .. MaxIntervals]
    BY <1>2, NumberTypes, BoundsAreNumbers DEF Start
  <2>2. QED
    BY <1>2, <2>1 DEF Start, TypeOK
<1>3. ASSUME NEW p \in Process, Stop(p) PROVE TypeOK'
  <2>1. intervals[p] > 0
    BY <1>3 DEF Stop, OneInterval
  <2>2. intervals' \in [Process -> 0 .. MaxIntervals]
    BY <1>3, <2>1, NumberTypes, BoundsAreNumbers DEF Stop, Cleared
  <2>3. faults' \in 0 .. MaxFaults
    BY <1>3, FaultTypes DEF Stop
  <2>4. QED
    BY <1>3, <2>2, <2>3 DEF Stop, TypeOK
<1>4. ASSUME NEW p \in Process, Crash(p) PROVE TypeOK'
  <2>1. Cardinality({}) = 0 /\ 0 <= BatchSize
    BY FS_EmptySet, BatchSizeAssumption
  <2>2. faults' \in 0 .. MaxFaults
    BY <1>4, FaultTypes DEF Crash
  <2>3. intervals' \in [Process -> 0 .. MaxIntervals]
    BY <1>4, NumberTypes, BoundsAreNumbers DEF Crash
  <2>4. QED
    BY <1>4, <2>1, <2>2, <2>3 DEF Crash, TypeOK
<1>5. ASSUME NEW b \in Batch, Poll(b) PROVE TypeOK'
  BY <1>5 DEF Poll, TypeOK
<1>6. ASSUME NEW b \in Batch, Select(b) PROVE TypeOK'
  <2>1. ASSUME NEW S \in OldestSelectable,
               phase' = [phase EXCEPT ![b] = "publishing"],
               rows' = [rows EXCEPT ![b] = S], ids' = [ids EXCEPT ![b] = S]
        PROVE  TypeOK'
    <3>1. S \subseteq Event /\ Cardinality(S) <= BatchSize
      BY Selected
    <3>2. QED
      BY <1>6, <2>1, <3>1 DEF Select, TypeOK
  <2>2. CASE phase' = [phase EXCEPT ![b] = "idle"] /\ UNCHANGED <<rows, ids>>
    BY <1>6, <2>2 DEF Select, TypeOK
  <2>3. QED
    BY <1>6, <2>1, <2>2 DEF Select
<1>7. ASSUME NEW b \in Batch, NEW e \in Event, Publish(b, e) PROVE TypeOK'
  <2>1. sends' \in [Event -> Nat]
    BY <1>7, NumberTypes DEF Publish
  <2>2. QED
    BY <1>7, <2>1 DEF Publish, Publishing, TypeOK
<1>8. ASSUME NEW b \in Batch, NEW e \in Event, PayloadThrows(b, e) PROVE TypeOK'
  BY <1>8, EndBatchTypes DEF PayloadThrows, TypeOK
<1>9. ASSUME NEW b \in Batch, NEW e \in Event, PublishRejects(b, e) PROVE TypeOK'
  <2>1. sends' \in [Event -> Nat]
    BY <1>9, NumberTypes DEF PublishRejects
  <2>2. faults' \in 0 .. MaxFaults
    BY <1>9, FaultTypes DEF PublishRejects
  <2>3. QED
    BY <1>9, <2>1, <2>2, EndBatchTypes DEF PublishRejects, TypeOK
<1>10. ASSUME NEW b \in Batch, Commit(b) PROVE TypeOK'
  BY <1>10, EndBatchTypes DEF Commit, TypeOK
<1>11. ASSUME NEW b \in Batch, QueryFails(b) PROVE TypeOK'
  <2>1. faults' \in 0 .. MaxFaults
    BY <1>11, FaultTypes DEF QueryFails, TypeOK
  <2>2. QED
    BY <1>11, <2>1, EndBatchTypes DEF QueryFails, TypeOK
<1>12. ASSUME NEW b \in Batch, SessionLost(b) PROVE TypeOK'
  <2>1. faults' \in 0 .. MaxFaults
    BY <1>12, FaultTypes DEF SessionLost
  <2>2. QED
    BY <1>12, <2>1 DEF SessionLost, TypeOK
<1>13. CASE UNCHANGED vars
  BY <1>13 DEF vars, TypeOK
<1>14. QED
  BY <1>1, <1>2, <1>3, <1>4, <1>5, <1>6, <1>7, <1>8, <1>9, <1>10, <1>11, <1>12, <1>13
  DEF Next
-----------------------------------------------------------------------------
(* What a publication is: of the oldest row of a batch that runs.          *)
LEMMA PublishingRow ==
    ASSUME TypeOK, OldestFirst, BatchesAreTrue,
           NEW b \in Batch, NEW e \in Event, Publishing(b, e)
    PROVE  /\ e \in ids[b] /\ e \notin Sent(b) /\ event[e] \in {"pending", "published"}
           /\ phase[b] = "publishing" => event[e] = "pending"
           /\ \A d \in Sent(b) : d < e
           /\ \A d \in rows[b] : e <= d
  BY DEF TypeOK, OldestFirst, BatchesAreTrue, Publishing, Sent

LEMMA NextOnlyCommitted == Core /\ [Next]_vars => OnlyCommittedSent'
<1> SUFFICES ASSUME Core, [Next]_vars PROVE OnlyCommittedSent'
  OBVIOUS
<1> USE DEF worker, relay
<1>1. TypeOK /\ OnlyCommittedSent /\ OldestFirst /\ BatchesAreTrue
  BY DEF Core
<1>2. ASSUME NEW e \in Event, Store(e) \/ EndTransaction(e) PROVE OnlyCommittedSent'
  BY <1>1, <1>2 DEF Store, EndTransaction, OnlyCommittedSent, TypeOK
<1>3. ASSUME NEW b \in Batch, NEW e \in Event, Publish(b, e) \/ PublishRejects(b, e)
      PROVE  OnlyCommittedSent'
  <2>1. event[e] \in {"pending", "published"}
    BY <1>1, <1>3, PublishingRow DEF Publish, PublishRejects
  <2>2. event' = event /\ \A d \in Event \ {e} : sends'[d] = sends[d]
    BY <1>1, <1>3, NumberTypes DEF Publish, PublishRejects
  <2>3. QED
    BY <1>1, <2>1, <2>2 DEF OnlyCommittedSent
<1>4. ASSUME NEW b \in Batch, Commit(b) PROVE OnlyCommittedSent'
  BY <1>1, <1>4 DEF Commit, OnlyCommittedSent, TypeOK
<1>5. CASE event' = event /\ sends' = sends
  BY <1>1, <1>5 DEF OnlyCommittedSent
<1>6. \/ event' = event /\ sends' = sends
      \/ \E e \in Event : Store(e) \/ EndTransaction(e)
      \/ \E b \in Batch : Commit(b) \/ \E e \in Event : Publish(b, e) \/ PublishRejects(b, e)
  BY DEF Next, Start, Stop, Crash, Poll, Select, PayloadThrows, QueryFails, SessionLost, vars
<1>7. QED
  BY <1>2, <1>3, <1>4, <1>5, <1>6

LEMMA NextMarkedWasSent == Core /\ [Next]_vars => MarkedWasSent'
<1> SUFFICES ASSUME Core, [Next]_vars PROVE MarkedWasSent'
  OBVIOUS
<1> USE DEF worker, relay
<1>1. TypeOK /\ MarkedWasSent /\ BatchesAreTrue
  BY DEF Core
<1>2. ASSUME NEW e \in Event, Store(e) \/ EndTransaction(e) PROVE MarkedWasSent'
  BY <1>1, <1>2 DEF Store, EndTransaction, MarkedWasSent, TypeOK
<1>3. ASSUME NEW b \in Batch, NEW e \in Event, Publish(b, e) \/ PublishRejects(b, e)
      PROVE  MarkedWasSent'
  <2>1. event' = event /\ \A d \in Event : sends'[d] = sends[d] \/ sends'[d] = sends[d] + 1
    BY <1>1, <1>3, NumberTypes DEF Publish, PublishRejects
  <2>2. \A d \in Event : sends[d] > 0 => sends'[d] > 0
    BY <1>1, <2>1, NumberTypes
  <2>3. QED
    BY <1>1, <2>1, <2>2 DEF MarkedWasSent
<1>4. ASSUME NEW b \in Batch, Commit(b) PROVE MarkedWasSent'
  <2>1. \A e \in ids[b] : sends[e] > 0
    BY <1>1, <1>4 DEF BatchesAreTrue, Commit, AllSent, Sent
  <2>2. QED
    BY <1>1, <1>4, <2>1 DEF Commit, MarkedWasSent
<1>5. CASE event' = event /\ sends' = sends
  BY <1>1, <1>5 DEF MarkedWasSent
<1>6. \/ event' = event /\ sends' = sends
      \/ \E e \in Event : Store(e) \/ EndTransaction(e)
      \/ \E b \in Batch : Commit(b) \/ \E e \in Event : Publish(b, e) \/ PublishRejects(b, e)
  BY DEF Next, Start, Stop, Crash, Poll, Select, PayloadThrows, QueryFails, SessionLost, vars
<1>7. QED
  BY <1>2, <1>3, <1>4, <1>5, <1>6

LEMMA NextOldestFirst == Core /\ [Next]_vars => OldestFirst'
<1> SUFFICES ASSUME Core, [Next]_vars PROVE OldestFirst'
  OBVIOUS
<1> USE DEF worker, relay
<1>1. TypeOK /\ OldestFirst /\ BatchesAreTrue
  BY DEF Core
<1>2. ASSUME NEW b \in Batch, NEW S, rows' = [rows EXCEPT ![b] = S], ids' = [ids EXCEPT ![b] = S]
      PROVE  OldestFirst'
  BY <1>1, <1>2 DEF OldestFirst, TypeOK
<1>3. ASSUME NEW b \in Batch, NEW e \in Event, Publish(b, e) PROVE OldestFirst'
  <2>1. ASSUME NEW d \in Event, d \in rows[b], d # e PROVE e < d
    BY <1>1, <1>3, <2>1, EventsAreNumbers, PublishingRow DEF Publish
  <2>2. ids' = ids /\ rows'[b] = rows[b] \ {e} /\ \A d \in Batch \ {b} : rows'[d] = rows[d]
    BY <1>1, <1>3 DEF Publish, TypeOK
  <2>3. rows[b] \subseteq Event
    BY <1>1 DEF TypeOK
  <2>4. QED
    BY <1>1, <2>1, <2>2, <2>3 DEF OldestFirst
<1>4. ASSUME NEW p \in Process, Crash(p) PROVE OldestFirst'
  BY <1>1, <1>4 DEF Crash, OldestFirst, TypeOK
<1>5. CASE rows' = rows /\ ids' = ids
  BY <1>1, <1>5 DEF OldestFirst
<1>6. \/ rows' = rows /\ ids' = ids
      \/ \E b \in Batch, S \in SUBSET Event :
           rows' = [rows EXCEPT ![b] = S] /\ ids' = [ids EXCEPT ![b] = S]
      \/ \E b \in Batch, e \in Event : Publish(b, e)
      \/ \E p \in Process : Crash(p)
  <2>1. ASSUME NEW b \in Batch, Select(b)
        PROVE  \/ rows' = rows /\ ids' = ids
               \/ \E S \in SUBSET Event :
                    rows' = [rows EXCEPT ![b] = S] /\ ids' = [ids EXCEPT ![b] = S]
    BY <2>1, Selected DEF Select
  <2>2. ASSUME NEW b \in Batch, EndBatch(b)
        PROVE  rows' = [rows EXCEPT ![b] = {}] /\ ids' = [ids EXCEPT ![b] = {}]
    BY <2>2 DEF EndBatch
  <2>3. QED
    BY <2>1, <2>2 DEF Next, Store, EndTransaction, Start, Stop, Poll, PayloadThrows,
      PublishRejects, Commit, QueryFails, SessionLost, vars
<1>7. QED
  BY <1>2, <1>3, <1>4, <1>5, <1>6

LEMMA NextOneInterval == Core /\ [Next]_vars => OneInterval'
<1> SUFFICES ASSUME Core, [Next]_vars PROVE OneInterval'
  OBVIOUS
<1>1. TypeOK /\ OneInterval
  BY DEF Core
<1>2. timer \in [Process -> BOOLEAN] /\ intervals \in [Process -> 0 .. MaxIntervals]
  BY <1>1 DEF TypeOK
<1>3. \A p \in Process : intervals[p] \in Nat
  BY <1>2, BoundsAreNumbers
<1>4. ASSUME NEW p \in Process, Start(p) PROVE OneInterval'
  BY <1>1, <1>2, <1>3, <1>4 DEF Start, OneInterval
<1>5. ASSUME NEW p \in Process, Stop(p) PROVE OneInterval'
  BY <1>1, <1>2, <1>3, <1>5 DEF Stop, Cleared, OneInterval
<1>6. ASSUME NEW p \in Process, Crash(p) PROVE OneInterval'
  BY <1>1, <1>2, <1>3, <1>6 DEF Crash, OneInterval
<1>7. CASE UNCHANGED relay
  BY <1>1, <1>7 DEF relay, OneInterval
<1>8. UNCHANGED relay \/ \E p \in Process : Start(p) \/ Stop(p) \/ Crash(p)
  BY DEF Next, Store, EndTransaction, Poll, Select, Publish, PayloadThrows,
    PublishRejects, Commit, QueryFails, SessionLost, vars, relay
<1>9. QED
  BY <1>4, <1>5, <1>6, <1>7, <1>8
-----------------------------------------------------------------------------
(* A step that starts no publication, touches no row that a batch may      *)
(* hold, and at most ends or abandons batches keeps what is said of them.  *)
LEMMA BatchesKept ==
    ASSUME TypeOK, BatchesAreTrue,
           \A e \in Event : event[e] \in {"pending", "published"} => event'[e] = event[e],
           \A e \in Event : sends[e] > 0 => sends'[e] > 0,
           \A d \in Batch : phase'[d] = "publishing" =>
               phase[d] = "publishing" /\ rows'[d] = rows[d],
           \A d \in Batch : ids'[d] = ids[d] \/ (ids'[d] = {} /\ phase'[d] # "publishing")
    PROVE  BatchesAreTrue'
<1>1. \A b \in Batch : ids[b] \subseteq Event
  BY DEF TypeOK
<1>2. QED
  BY <1>1 DEF BatchesAreTrue, Sent

LEMMA NextBatchesAreTrue == Core /\ [Next]_vars => BatchesAreTrue'
<1> SUFFICES ASSUME Core, [Next]_vars PROVE BatchesAreTrue'
  OBVIOUS
<1> USE DEF worker, relay
<1>1. TypeOK /\ OldestFirst /\ BatchesAreTrue
  BY DEF Core
<1>2. \A b \in Batch : ids[b] \subseteq Event /\ rows[b] \subseteq ids[b]
  BY <1>1 DEF TypeOK
<1>3. ASSUME NEW b \in Batch, NEW S \in OldestSelectable, Select(b),
             phase' = [phase EXCEPT ![b] = "publishing"],
             rows' = [rows EXCEPT ![b] = S], ids' = [ids EXCEPT ![b] = S]
      PROVE  BatchesAreTrue'
  <2>1. \A e \in S : event[e] = "pending" /\
          \A d \in Batch : phase[d] = "publishing" => e \notin ids[d]
    BY Selected, NotLocked
  <2>2. event' = event /\ sends' = sends
    BY <1>3 DEF Select
  <2>3. /\ phase'[b] = "publishing" /\ rows'[b] = S /\ ids'[b] = S
        /\ \A d \in Batch \ {b} :
             phase'[d] = phase[d] /\ rows'[d] = rows[d] /\ ids'[d] = ids[d]
    BY <1>1, <1>3 DEF TypeOK
  <2>4. QED
    BY <1>1, <2>1, <2>2, <2>3 DEF BatchesAreTrue, Sent
<1>4. ASSUME NEW b \in Batch, NEW e \in Event, Publish(b, e) PROVE BatchesAreTrue'
  <2>1. /\ event' = event /\ phase' = phase /\ ids' = ids
        /\ rows'[b] = rows[b] \ {e} /\ \A d \in Batch \ {b} : rows'[d] = rows[d]
    BY <1>1, <1>4 DEF Publish, TypeOK
  <2>2. sends'[e] > 0 /\ \A d \in Event : sends[d] > 0 => sends'[d] > 0
    BY <1>1, <1>4, NumberTypes DEF Publish
  <2>3. \A d \in Batch : \A f \in Sent(d)' : f \in Sent(d) \/ f = e
    BY <2>1 DEF Sent
  <2>4. \A d \in Batch : phase'[d] = "publishing" => \A f \in Sent(d)' : sends'[f] > 0
    BY <1>1, <1>2, <2>1, <2>2, <2>3 DEF BatchesAreTrue, Sent
  <2>5. QED
    BY <1>1, <2>1, <2>4 DEF BatchesAreTrue
<1>5. ASSUME NEW b \in Batch, Commit(b) PROVE BatchesAreTrue'
  <2>1. /\ phase'[b] = "idle" /\ ids'[b] = {}
        /\ \A d \in Batch \ {b} :
             phase'[d] = phase[d] /\ rows'[d] = rows[d] /\ ids'[d] = ids[d]
    BY <1>1, <1>5, EndBatchTypes DEF Commit
  <2>2. /\ \A e \in ids[b] : event'[e] = "published"
        /\ \A e \in Event \ ids[b] : event'[e] = event[e]
        /\ sends' = sends
    BY <1>2, <1>5 DEF Commit
  <2>3. \A d \in Batch \ {b} : phase[d] = "publishing" => ids[d] \cap ids[b] = {}
    BY <1>1, <1>5 DEF BatchesAreTrue, Commit, AllSent
  <2>4. ASSUME NEW d \in Batch, d # b, phase'[d] = "publishing"
        PROVE  /\ \A e \in ids'[d] : event'[e] = "pending"
               /\ \A e \in Sent(d)' : sends'[e] > 0
               /\ \A c \in Batch \ {d} : phase'[c] = "publishing" => ids'[d] \cap ids'[c] = {}
    <3>1. phase[d] = "publishing" /\ ids'[d] = ids[d] /\ Sent(d)' = Sent(d)
      BY <2>1, <2>4 DEF Sent
    <3>2. \A e \in ids[d] : e \in Event \ ids[b] /\ event[e] = "pending"
      BY <1>1, <1>2, <2>3, <2>4, <3>1 DEF BatchesAreTrue
    <3>3. \A c \in Batch \ {d} : phase'[c] = "publishing" => c # b
      BY <2>1
    <3>4. QED
      BY <1>1, <2>1, <2>2, <3>1, <3>2, <3>3 DEF BatchesAreTrue
  <2>5. ASSUME NEW d \in Batch, NEW e \in ids'[d]
        PROVE  event'[e] \in {"pending", "published"}
    BY <1>1, <1>2, <2>1, <2>2, <2>5 DEF BatchesAreTrue
  <2>6. QED
    BY <2>1, <2>4, <2>5 DEF BatchesAreTrue
<1>6. ASSUME NEW e \in Event, Store(e) \/ EndTransaction(e) PROVE BatchesAreTrue'
  <2>1. \A d \in Event : event[d] \in {"pending", "published"} => event'[d] = event[d]
    BY <1>1, <1>6 DEF Store, EndTransaction, TypeOK
  <2>2. QED
    BY <1>1, <1>6, <2>1, BatchesKept DEF Store, EndTransaction
<1>7. ASSUME NEW b \in Batch, EndBatch(b), event' = event,
             \A e \in Event : sends[e] > 0 => sends'[e] > 0
      PROVE  BatchesAreTrue'
  BY <1>1, <1>7, EndBatchTypes, BatchesKept
<1>8. ASSUME NEW b \in Batch, NEW e \in Event, PublishRejects(b, e) PROVE BatchesAreTrue'
  <2>1. \A d \in Event : sends[d] > 0 => sends'[d] > 0
    BY <1>1, <1>8, NumberTypes DEF PublishRejects
  <2>2. QED
    BY <1>7, <1>8, <2>1 DEF PublishRejects
<1>9. ASSUME NEW b \in Batch,
             QueryFails(b) \/ \E e \in Event : PayloadThrows(b, e)
      PROVE  BatchesAreTrue'
  BY <1>7, <1>9 DEF QueryFails, PayloadThrows
<1>10. ASSUME NEW b \in Batch, Poll(b) \/ SessionLost(b) PROVE BatchesAreTrue'
  <2>1. \A d \in Batch : phase'[d] = "publishing" => phase[d] = "publishing"
    BY <1>1, <1>10 DEF Poll, SessionLost, TypeOK
  <2>2. QED
    BY <1>1, <1>10, <2>1, BatchesKept DEF Poll, SessionLost
<1>11. ASSUME NEW b \in Batch, phase' = [phase EXCEPT ![b] = "idle"],
              UNCHANGED <<event, sends, rows, ids>>
       PROVE  BatchesAreTrue'
  <2>1. \A d \in Batch : phase'[d] = "publishing" => phase[d] = "publishing"
    BY <1>1, <1>11 DEF TypeOK
  <2>2. QED
    BY <1>1, <1>11, <2>1, BatchesKept
<1>12. ASSUME NEW p \in Process, Crash(p) PROVE BatchesAreTrue'
  BY <1>1, <1>12, BatchesKept DEF Crash
<1>13. CASE UNCHANGED <<event, sends, worker>>
  BY <1>1, <1>13, BatchesKept
<1>14. ASSUME NEW b \in Batch, Select(b) PROVE BatchesAreTrue'
  BY <1>3, <1>11, <1>14 DEF Select
<1>15. QED
  BY <1>4, <1>5, <1>6, <1>8, <1>9, <1>10, <1>12, <1>13, <1>14 DEF Next, Start, Stop, vars

-----------------------------------------------------------------------------
(* An event that no batch which publishes has behind it stays so, or is    *)
(* marked, unless a batch ends; then the fault that ended it pays.         *)
LEMMA CountKept ==
    ASSUME TypeOK, TypeOK', EverySendCounted, NEW e \in Event,
           UNCHANGED parsed, sends'[e] = sends[e],
           Zombies(e)' \subseteq Zombies(e),
           \/ faults' = faults /\ (Final(e) = 1 => Final(e)' = 1)
           \/ faults' = faults + 1
    PROVE  (\A d \in parsed' : d <= e) =>
               sends'[e] + Cardinality(Zombies(e)') <= Final(e)' + faults'
<1>1. /\ IsFiniteSet(Zombies(e)) /\ Cardinality(Zombies(e)) \in Nat
      /\ Cardinality(Zombies(e)') \in Nat
  BY ZombiesFinite
<1>2. Cardinality(Zombies(e)') <= Cardinality(Zombies(e))
  BY <1>1, FS_Subset
<1>3. Final(e) \in {0, 1} /\ Final(e)' \in {0, 1}
  BY DEF Final
<1>4. sends[e] \in Nat /\ faults \in Nat
  BY NumberTypes
<1>5. (\A d \in parsed : d <= e) =>
          sends[e] + Cardinality(Zombies(e)) <= Final(e) + faults
  BY DEF EverySendCounted
<1>6. QED
  BY <1>1, <1>2, <1>3, <1>4, <1>5

(* When a batch ends, it is no zombie any more; when it was publishing,    *)
(* what it had sent will be sent again.                                    *)
LEMMA EndedBatch ==
    ASSUME TypeOK, NEW b \in Batch, EndBatch(b), event' = event, NEW e \in Event
    PROVE  /\ Zombies(e)' = Zombies(e) \ {b}
           /\ phase[b] = "publishing" /\ e \notin Sent(b) => Final(e)' = Final(e)
           /\ phase[b] # "publishing" => Final(e)' = Final(e)
<1>1. /\ phase'[b] = "idle"
      /\ \A d \in Batch \ {b} :
           phase'[d] = phase[d] /\ rows'[d] = rows[d] /\ ids'[d] = ids[d]
  BY EndBatchTypes
<1>2. Zombies(e)' = Zombies(e) \ {b}
  BY <1>1 DEF Zombies
<1>3. ASSUME phase[b] = "publishing" => e \notin Sent(b)
      PROVE  Final(e)' = Final(e)
  BY <1>1, <1>3 DEF Final, Sent
<1>4. QED
  BY <1>2, <1>3

(* The publication of row e in a batch that publishes is the first since   *)
(* the batch selected it: nothing but a fault has paid for one.            *)
LEMMA NotYetFinal ==
    ASSUME TypeOK, OldestFirst, BatchesAreTrue,
           NEW b \in Batch, NEW e \in Event, Publishing(b, e), phase[b] = "publishing"
    PROVE  Final(e) = 0
<1>1. e \in ids[b] /\ e \notin Sent(b) /\ event[e] = "pending"
  BY PublishingRow
<1>2. \A d \in Batch : phase[d] = "publishing" /\ e \in Sent(d) => FALSE
  BY <1>1 DEF BatchesAreTrue, Sent
<1>3. QED
  BY <1>1, <1>2 DEF Final

LEMMA NextCounted == Core /\ TypeOK' /\ [Next]_vars => EverySendCounted'
<1> SUFFICES ASSUME Core, TypeOK', [Next]_vars, NEW e \in Event,
                    \A d \in parsed' : d <= e
             PROVE  sends'[e] + Cardinality(Zombies(e)') <= Final(e)' + faults'
  BY DEF EverySendCounted
<1> DEFINE Goal == sends'[e] + Cardinality(Zombies(e)') <= Final(e)' + faults'
<1> USE DEF worker, relay
<1>1. TypeOK /\ OldestFirst /\ BatchesAreTrue /\ EverySendCounted
  BY DEF Core
<1>2. parsed' = parsed
  BY DEF Next, Store, EndTransaction, Start, Stop, Crash, Poll, Select, Publish,
    PayloadThrows, PublishRejects, Commit, QueryFails, SessionLost, vars
<1>3. sends[e] + Cardinality(Zombies(e)) <= Final(e) + faults
  BY <1>1, <1>2 DEF EverySendCounted
<1>4. /\ IsFiniteSet(Zombies(e)) /\ Cardinality(Zombies(e)) \in Nat
      /\ IsFiniteSet(Zombies(e)') /\ Cardinality(Zombies(e)') \in Nat
  BY ZombiesFinite
<1>5. sends[e] \in Nat /\ faults \in Nat /\ Final(e) \in {0, 1} /\ Final(e)' \in {0, 1}
  BY <1>1, NumberTypes DEF Final
<1>6. ASSUME NEW f \in Event, Store(f) \/ EndTransaction(f) PROVE Goal
  <2>1. Zombies(e)' \subseteq Zombies(e) /\ (Final(e) = 1 => Final(e)' = 1)
    BY <1>1, <1>6 DEF Store, EndTransaction, Zombies, Final, Sent, TypeOK
  <2>2. QED
    BY <1>1, <1>2, <1>6, <2>1, CountKept DEF Store, EndTransaction
<1>7. ASSUME NEW b \in Batch, Poll(b) PROVE Goal
  <2>1. Zombies(e)' \subseteq Zombies(e) /\ (Final(e) = 1 => Final(e)' = 1)
    BY <1>1, <1>7 DEF Poll, Zombies, Final, Sent, TypeOK
  <2>2. QED
    BY <1>1, <1>2, <1>7, <2>1, CountKept DEF Poll
<1>8. ASSUME NEW b \in Batch, Select(b) PROVE Goal
  <2>1. phase[b] = "connected" /\ event' = event /\ sends' = sends /\ faults' = faults
    BY <1>8 DEF Select
  <2>2. /\ phase'[b] # "zombie"
        /\ \A d \in Batch \ {b} :
             phase'[d] = phase[d] /\ rows'[d] = rows[d] /\ ids'[d] = ids[d]
    BY <1>1, <1>8 DEF Select, TypeOK
  <2>3. Zombies(e)' \subseteq Zombies(e) /\ (Final(e) = 1 => Final(e)' = 1)
    BY <2>1, <2>2 DEF Zombies, Final, Sent
  <2>4. QED
    BY <1>1, <1>2, <2>1, <2>3, CountKept
<1>9. ASSUME NEW b \in Batch, NEW f \in Event, Publish(b, f) PROVE Goal
  <2>1. /\ event' = event /\ phase' = phase /\ ids' = ids /\ faults' = faults
        /\ rows'[b] = rows[b] \ {f} /\ \A d \in Batch \ {b} : rows'[d] = rows[d]
        /\ f \in rows[b] /\ phase[b] \in {"publishing", "zombie"}
    BY <1>1, <1>9 DEF Publish, Publishing, TypeOK
  <2>2. \A d \in Batch : rows'[d] \subseteq rows[d]
    BY <2>1
  <2>3. Zombies(e)' \subseteq Zombies(e)
    BY <2>1, <2>2 DEF Zombies
  <2>4. Final(e) = 1 => Final(e)' = 1
    BY <2>1, <2>2 DEF Final, Sent
  <2>5. CASE f # e
    <3>1. sends'[e] = sends[e]
      BY <1>1, <1>9, <2>5, NumberTypes DEF Publish
    <3>2. QED
      BY <1>1, <1>2, <2>1, <2>3, <2>4, <3>1, CountKept
  <2>6. CASE f = e /\ phase[b] = "publishing"
    <3>1. sends'[e] = sends[e] + 1
      BY <1>1, <1>9, <2>6, NumberTypes DEF Publish
    <3>2. Final(e) = 0
      BY <1>1, <1>9, <2>6, NotYetFinal DEF Publish
    <3>3. Final(e)' = 1
      <4>1. e \in ids[b] /\ e \notin rows'[b]
        BY <1>1, <2>1, <2>6 DEF TypeOK
      <4>2. QED
        BY <2>1, <2>6, <4>1 DEF Final, Sent
    <3>4. Cardinality(Zombies(e)') <= Cardinality(Zombies(e))
      BY <1>4, <2>3, FS_Subset
    <3>5. QED
      BY <1>3, <1>4, <1>5, <2>1, <3>1, <3>2, <3>3, <3>4
  <2>7. CASE f = e /\ phase[b] = "zombie"
    <3>1. sends'[e] = sends[e] + 1
      BY <1>1, <1>9, <2>7, NumberTypes DEF Publish
    <3>2. b \in Zombies(e) /\ Zombies(e)' = Zombies(e) \ {b}
      BY <2>1, <2>7 DEF Zombies
    <3>3. Cardinality(Zombies(e)') = Cardinality(Zombies(e)) - 1
      BY <1>4, <3>2, FS_RemoveElement
    <3>4. QED
      BY <1>3, <1>4, <1>5, <2>1, <2>4, <3>1, <3>3
  <2>8. QED
    BY <2>1, <2>5, <2>6, <2>7
<1>10. ASSUME NEW b \in Batch, NEW f \in Event, PayloadThrows(b, f) PROVE Goal
  <2>1. EndBatch(b) /\ event' = event /\ sends' = sends /\ faults' = faults /\ f \in parsed
    BY <1>10 DEF PayloadThrows
  <2>2. Zombies(e)' \subseteq Zombies(e)
    BY <1>1, <2>1, EndedBatch
  <2>3. e \notin Sent(b)
    <3>1. f <= e /\ (e \in Sent(b) => e < f)
      BY <1>1, <1>2, <1>10, <2>1, PublishingRow DEF PayloadThrows
    <3>2. QED
      BY <3>1, EventsAreNumbers
  <2>4. Final(e)' = Final(e)
    BY <1>1, <2>1, <2>3, EndedBatch
  <2>5. QED
    BY <1>1, <1>2, <2>1, <2>2, <2>4, CountKept
<1>11. ASSUME NEW b \in Batch, NEW f \in Event, PublishRejects(b, f) PROVE Goal
  <2>1. EndBatch(b) /\ event' = event /\ faults' = faults + 1
    BY <1>11 DEF PublishRejects, Fault
  <2>2. Zombies(e)' = Zombies(e) \ {b}
    BY <1>1, <2>1, EndedBatch
  <2>3. CASE sends'[e] = sends[e]
    BY <1>1, <1>2, <2>1, <2>2, <2>3, CountKept
  <2>4. CASE sends'[e] # sends[e]
    <3>1. f = e /\ sends'[e] = sends[e] + 1
      BY <1>1, <1>11, <2>4, NumberTypes DEF PublishRejects
    <3>2. Cardinality(Zombies(e)') <= Cardinality(Zombies(e))
      BY <1>4, <2>2, FS_Subset
    <3>3. CASE phase[b] = "publishing"
      <4>1. Final(e) = 0
        BY <1>1, <1>11, <3>1, <3>3, NotYetFinal DEF PublishRejects
      <4>2. QED
        BY <1>3, <1>4, <1>5, <2>1, <3>1, <3>2, <4>1
    <3>4. CASE phase[b] = "zombie"
      <4>1. Final(e)' = Final(e)
        BY <1>1, <2>1, <3>4, EndedBatch
      <4>2. QED
        BY <1>3, <1>4, <1>5, <2>1, <3>1, <3>2, <4>1
    <3>5. QED
      BY <1>11, <3>3, <3>4 DEF PublishRejects, Publishing
  <2>5. QED
    BY <2>3, <2>4
<1>12. ASSUME NEW b \in Batch, Commit(b) PROVE Goal
  <2>1. /\ EndBatch(b) /\ sends' = sends /\ faults' = faults
        /\ phase[b] = "publishing"
    BY <1>12 DEF Commit, AllSent
  <2>2. /\ phase'[b] = "idle"
        /\ \A d \in Batch \ {b} :
             phase'[d] = phase[d] /\ rows'[d] = rows[d] /\ ids'[d] = ids[d]
    BY <1>1, <2>1, EndBatchTypes
  <2>3. Zombies(e)' \subseteq Zombies(e)
    BY <2>2 DEF Zombies
  <2>4. /\ e \in ids[b] => event'[e] = "published"
        /\ e \notin ids[b] => event'[e] = event[e]
    BY <1>12 DEF Commit
  <2>5. Final(e) = 1 => Final(e)' = 1
    BY <2>2, <2>4 DEF Final, Sent
  <2>6. QED
    BY <1>1, <1>2, <2>1, <2>3, <2>5, CountKept
<1>13. ASSUME NEW b \in Batch, QueryFails(b) PROVE Goal
  <2>1. EndBatch(b) /\ event' = event /\ sends' = sends
    BY <1>13 DEF QueryFails
  <2>2. /\ Zombies(e)' \subseteq Zombies(e)
        /\ phase[b] # "publishing" => Final(e)' = Final(e)
    BY <1>1, <2>1, EndedBatch
  <2>3. faults' = faults + 1 \/ (phase[b] # "publishing" /\ faults' = faults)
    BY <1>13 DEF QueryFails, Fault
  <2>4. QED
    BY <1>1, <1>2, <2>1, <2>2, <2>3, CountKept
<1>14. ASSUME NEW b \in Batch, SessionLost(b) PROVE Goal
  <2>1. /\ faults' = faults + 1 /\ phase[b] = "publishing" /\ phase'[b] = "zombie"
        /\ UNCHANGED <<event, sends, rows, ids>>
        /\ \A d \in Batch \ {b} : phase'[d] = phase[d]
    BY <1>1, <1>14 DEF SessionLost, Fault, TypeOK
  <2>2. CASE e \notin rows[b]
    <3>1. Zombies(e)' \subseteq Zombies(e)
      BY <2>1, <2>2 DEF Zombies
    <3>2. QED
      BY <1>1, <1>2, <2>1, <3>1, CountKept
  <2>3. CASE e \in rows[b]
    <3>1. Zombies(e)' = Zombies(e) \cup {b}
      BY <2>1, <2>3 DEF Zombies
    <3>2. Cardinality(Zombies(e)') <= Cardinality(Zombies(e)) + 1
      BY <1>4, <3>1, FS_AddElement
    <3>3. Final(e)' = Final(e)
      BY <2>1, <2>3 DEF Final, Sent
    <3>4. QED
      BY <1>3, <1>4, <1>5, <2>1, <3>2, <3>3
  <2>4. QED
    BY <2>2, <2>3
<1>15. ASSUME NEW p \in Process, Crash(p) PROVE Goal
  <2>1. Zombies(e)' \subseteq Zombies(e)
    BY <1>15 DEF Crash, Zombies
  <2>2. sends' = sends /\ faults' = faults + 1
    BY <1>15 DEF Crash, Fault
  <2>3. QED
    BY <1>1, <1>2, <2>1, <2>2, CountKept
<1>16. ASSUME UNCHANGED <<event, worker, sends>>, faults' = faults \/ faults' = faults + 1
       PROVE  Goal
  <2>1. Zombies(e)' \subseteq Zombies(e) /\ Final(e)' = Final(e)
    BY <1>16 DEF Zombies, Final, Sent
  <2>2. QED
    BY <1>1, <1>2, <1>16, <2>1, CountKept
<1>17. ASSUME NEW p \in Process, Start(p) \/ Stop(p) PROVE Goal
  BY <1>16, <1>17 DEF Start, Stop, Fault
<1>18. ASSUME UNCHANGED vars PROVE Goal
  BY <1>16, <1>18 DEF vars
<1> HIDE DEF Goal
<1>19. Goal
  BY <1>6, <1>7, <1>8, <1>9, <1>10, <1>11, <1>12, <1>13, <1>14, <1>15, <1>17, <1>18
  DEF Next
<1>20. QED
  BY <1>19 DEF Goal

-----------------------------------------------------------------------------
(* What Core leaves out of OutboxSafety follows from it.                   *)
LEMMA CoreSuffices == Core => OutboxSafety
<1> SUFFICES ASSUME Core PROVE OutboxSafety
  OBVIOUS
<1>1. TypeOK /\ EverySendCounted /\ OneInterval
  BY DEF Core
<1>2. DuplicatesBounded
  <2>1. ASSUME NEW e \in Event, \A d \in parsed : d <= e PROVE sends[e] <= 1 + faults
    <3>1. sends[e] + Cardinality(Zombies(e)) <= Final(e) + faults
      BY <1>1, <2>1 DEF EverySendCounted
    <3>2. sends[e] \in Nat /\ faults \in Nat /\ Final(e) \in {0, 1}
      BY <1>1, NumberTypes DEF Final
    <3>3. Cardinality(Zombies(e)) \in Nat
      BY ZombiesFinite
    <3>4. QED
      BY <3>1, <3>2, <3>3
  <2>2. QED
    BY <2>1 DEF DuplicatesBounded
<1>3. StopStops
  <2>1. \A p \in Process : ~timer[p] /\ p \notin careless => intervals[p] = 0
    BY <1>1 DEF OneInterval
  <2>2. QED
    BY <2>1 DEF StopStops
<1>4. QED
  BY <1>2, <1>3 DEF Core, OutboxSafety

LEMMA InitCore == Init => Core
<1> SUFFICES ASSUME Init PROVE Core
  OBVIOUS
<1>1. TypeOK
  BY InitTypes
<1>2. OnlyCommittedSent /\ MarkedWasSent /\ OldestFirst /\ BatchesAreTrue
  BY DEF Init, OnlyCommittedSent, MarkedWasSent, OldestFirst, BatchesAreTrue
<1>3. OneInterval
  BY DEF Init, OneInterval
<1>4. EverySendCounted
  <2>1. ASSUME NEW e \in Event PROVE Zombies(e) = {} /\ Final(e) = 0
    BY DEF Init, Zombies, Final
  <2>2. Cardinality({}) = 0
    BY FS_EmptySet
  <2>3. QED
    BY <2>1, <2>2 DEF Init, EverySendCounted
<1>5. QED
  BY <1>1, <1>2, <1>3, <1>4 DEF Core

LEMMA NextCore == Core /\ [Next]_vars => Core'
<1> SUFFICES ASSUME Core, [Next]_vars PROVE Core'
  OBVIOUS
<1>1. TypeOK'
  BY NextTypes DEF Core
<1>2. QED
  BY <1>1, NextOnlyCommitted, NextMarkedWasSent, NextOldestFirst, NextBatchesAreTrue,
    NextCounted, NextOneInterval DEF Core

LEMMA Invariant == Spec => []Core
  BY InitCore, NextCore, PTL DEF Spec

(* The outbox's invariant: an event is published only after its commit and *)
(* marked only after its publication; each fault duplicates a message at   *)
(* most once; a batch goes oldest first; and stop() stops a relay that was *)
(* not started twice.                                                      *)
THEOREM Invariance == Spec => []OutboxSafety
  BY Invariant, CoreSuffices, PTL

-----------------------------------------------------------------------------
(* A row that is marked while a batch holds it without having lost its     *)
(* session does not exist: only a batch that lost it sends a marked event. *)
THEOREM NotResent == Spec => MarkedNotResent
<1>1. ASSUME Core, [Next]_vars,
             NEW e \in Event, event[e] = "published", sends'[e] > sends[e]
      PROVE  \E b \in Batch : phase[b] = "zombie" /\ e \in ids[b]
  <2>1. TypeOK /\ OldestFirst /\ BatchesAreTrue
    BY <1>1 DEF Core
  <2>2. sends' # sends
    BY <1>1, <2>1, NumberTypes
  <2>3. PICK b \in Batch, f \in Event : Publish(b, f) \/ PublishRejects(b, f)
    BY <1>1, <2>2 DEF Next, Store, EndTransaction, Start, Stop, Crash, Poll, Select,
      PayloadThrows, Commit, QueryFails, SessionLost, vars
  <2>4. f = e
    BY <1>1, <2>1, <2>3, NumberTypes DEF Publish, PublishRejects
  <2>5. Publishing(b, e)
    BY <2>3, <2>4 DEF Publish, PublishRejects
  <2>6. e \in ids[b] /\ phase[b] # "publishing"
    BY <1>1, <2>1, <2>5, PublishingRow
  <2>7. QED
    BY <2>5, <2>6 DEF Publishing
<1>2. Core /\ [Next]_vars =>
        [\A e \in Event : event[e] = "published" /\ sends'[e] > sends[e]
          => \E b \in Batch : phase[b] = "zombie" /\ e \in ids[b]]_vars
  BY <1>1
<1>3. QED
  BY <1>2, Invariant, PTL DEF Spec, MarkedNotResent
=============================================================================
