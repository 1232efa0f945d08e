----------------------------- MODULE EventStore -----------------------------
(***************************************************************************)
(* InMemoryEventStore of src/src/eventstore/index.ts, with writers that    *)
(* load a stream, decide and append with the version they saw, and readers *)
(* that catch up with loadSince().  The methods are async but await        *)
(* nothing, so each of them is one step; writers and readers await between *)
(* them.  An event is told apart by its id.                                *)
(***************************************************************************)
EXTENDS Integers, Sequences, SequencesExt, Filter

CONSTANTS
    Stream,
    Writer, Reader,
    BatchSizes,     \* lengths of the event arrays that are appended
    MaxEvents,      \* bound: events in all
    MaxClears       \* bound: calls of clear()

NewVersion == -1    \* EXPECTED_VERSION_NEW
AnyVersion == -2    \* EXPECTED_VERSION_ANY

StreamAssumption == Stream # {}
BatchAssumption == BatchSizes \subseteq Nat \ {0}
BoundsAssumption == MaxEvents \in Nat /\ MaxClears \in Nat

VARIABLES
    streams,      \* streams[a]: the events [id, version]; <<>> if absent
    idCounter,
    writer,       \* writer[w]: the stream and expectedVersion, or "idle"
    reader,       \* reader[r]: the stream it follows and what it has
    seen,         \* history: seen[w], the stream as w loaded it
    clears        \* history: calls of clear()

vars == <<streams, idCounter, writer, reader, seen, clears>>

Idle == [state |-> "idle", stream |-> CHOOSE a \in Stream : TRUE,
         expected |-> AnyVersion, epoch |-> 0]
Nothing == [stream |-> CHOOSE a \in Stream : TRUE, have |-> <<>>, epoch |-> 0]

CurrentVersion(a) == Len(streams[a]) - 1

Init ==
    /\ streams = [a \in Stream |-> <<>>]
    /\ idCounter = 0
    /\ writer = [w \in Writer |-> Idle]
    /\ reader = [r \in Reader |-> Nothing]
    /\ seen = [w \in Writer |-> <<>>]
    /\ clears = 0

-----------------------------------------------------------------------------
(* A writer loads a stream (or asks currentVersion()).  A stream that is   *)
(* not there it will append to as NewVersion; and it may waive the check.  *)
Decide(w, a) ==
    /\ writer[w].state = "idle"
    /\ \E expected \in {CurrentVersion(a), AnyVersion} :
         writer' = [writer EXCEPT ![w] =
                     [state |-> "decided", stream |-> a, expected |-> expected,
                      epoch |-> clears]]
    /\ seen' = [seen EXCEPT ![w] = streams[a]]
    /\ UNCHANGED <<streams, idCounter, reader, clears>>

NotEarlier(a, expected) ==                     \* [< for !==]
    expected = AnyVersion \/ CurrentVersion(a) >= expected
VersionMatches(a, expected) ==
    \/ expected = AnyVersion
    \/ expected = NewVersion /\ streams[a] = <<>>
    \/ expected >= 0 /\ CurrentVersion(a) = expected

VersionOf(a, i) == Len(streams[a]) + i - 1

(* append() of n events, all or none ...                                   *)
Append_(w, n) ==
    LET a == writer[w].stream IN
    /\ writer[w].state = "decided"
    /\ idCounter + n <= MaxEvents
    /\ VersionMatches(a, writer[w].expected)
    /\ streams' = [streams EXCEPT ![a] = @ \o
                    [i \in 1 .. n |-> [id |-> idCounter + i,
                                       version |-> VersionOf(a, i)]]]
    /\ idCounter' = idCounter + n
    /\ writer' = [writer EXCEPT ![w] = Idle]
    /\ seen' = [seen EXCEPT ![w] = <<>>]
    /\ UNCHANGED <<reader, clears>>

(* ... or VersionConflictError: the writer starts again.                   *)
Conflict(w) ==
    /\ writer[w].state = "decided"
    /\ ~VersionMatches(writer[w].stream, writer[w].expected)
    /\ writer' = [writer EXCEPT ![w] = Idle]
    /\ seen' = [seen EXCEPT ![w] = <<>>]
    /\ UNCHANGED <<streams, idCounter, reader, clears>>

(* A reader begins with load() and goes on with loadSince().               *)
Load(r, a) ==
    /\ streams[a] # <<>>
    /\ reader' = [reader EXCEPT ![r] = [stream |-> a, have |-> streams[a],
                                       epoch |-> clears]]
    /\ UNCHANGED <<streams, idCounter, writer, seen, clears>>

FromVersion(a, v) ==                           \* [>= for >]
    Filtered(streams[a], {i \in 1 .. Len(streams[a]) : streams[a][i].version >= v})
Since(a, v) ==
    Filtered(streams[a], {i \in 1 .. Len(streams[a]) : streams[a][i].version > v})

LoadSince(r) ==
    LET have == reader[r].have IN
    /\ have # <<>>
    /\ reader' = [reader EXCEPT
                    ![r].have = have \o Since(reader[r].stream, Last(have).version)]
    /\ UNCHANGED <<streams, idCounter, writer, seen, clears>>

Clear ==
    /\ clears < MaxClears
    /\ clears' = clears + 1
    /\ streams' = [a \in Stream |-> <<>>]
    /\ UNCHANGED <<idCounter, writer, reader, seen>>

Next ==
    \/ \E w \in Writer :
         \/ \E a \in Stream : Decide(w, a)
         \/ \E n \in BatchSizes : Append_(w, n)
         \/ Conflict(w)
    \/ \E r \in Reader : (\E a \in Stream : Load(r, a)) \/ LoadSince(r)
    \/ Clear

Spec == Init /\ [][Next]_vars

-----------------------------------------------------------------------------
Event == [id : 1 .. MaxEvents, version : 0 .. MaxEvents]

(* The variables have their types. *)
TypeOK ==
    /\ streams \in [Stream -> Seq(Event)]
    /\ idCounter \in 0 .. MaxEvents
    /\ writer \in [Writer -> [state : {"idle", "decided"}, stream : Stream,
                             expected : AnyVersion .. MaxEvents, epoch : 0 .. clears]]
    /\ reader \in [Reader -> [stream : Stream, have : Seq(Event), epoch : 0 .. clears]]
    /\ seen \in [Writer -> Seq(Event)]
    /\ clears \in 0 .. MaxClears

(* In every stream the versions are the positions, and ids grow; no two    *)
(* events of any streams share an id, nor will the next one.               *)
Ordered ==
    /\ \A a \in Stream : \A i \in 1 .. Len(streams[a]) :
         /\ streams[a][i].version = i - 1
         /\ streams[a][i].id \in i .. idCounter
         /\ \A j \in 1 .. i - 1 : streams[a][j].id < streams[a][i].id
    /\ \A a, b \in Stream : a # b =>
         \A i \in 1 .. Len(streams[a]), j \in 1 .. Len(streams[b]) :
            streams[a][i].id # streams[b][j].id

(* Optimistic concurrency: an append that states the version it saw adds   *)
(* to exactly the events its writer loaded, unless the store was cleared.  *)
NoLostUpdate ==
    [][\A w \in Writer :
          (/\ writer[w].state = "decided" /\ writer[w].expected # AnyVersion
           /\ idCounter' > idCounter /\ writer'[w] = Idle
           /\ writer[w].epoch = clears)
             => seen[w] = streams[writer[w].stream]]_vars

(* Until the store is cleared, streams only grow: what a writer has loaded *)
(* is a prefix of its stream, as long as the version it will state says.   *)
DecidedOnPrefix ==
    \A w \in Writer :
        writer[w].state = "decided" /\ writer[w].epoch = clears =>
            /\ IsPrefix(seen[w], streams[writer[w].stream])
            /\ writer[w].expected \in {Len(seen[w]) - 1, AnyVersion}

(* A reader that catches up with loadSince() has a prefix of the stream:   *)
(* it skips no event and gets none twice, whatever is appended between.    *)
CatchUpExact ==
    \A r \in Reader :
        reader[r].epoch = clears => IsPrefix(reader[r].have, streams[reader[r].stream])
=============================================================================
