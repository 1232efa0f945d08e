------------------------------- MODULE FanOut -------------------------------
(***************************************************************************)
(* fanOut() of src/src/async/index.ts: one loop drains the source into a   *)
(* buffer per output; each output is an async generator that takes from    *)
(* its buffer and, when that is empty, leaves a resolver for the loop.     *)
(*                                                                         *)
(* A step is a callback.  Resolving a waiting generator only schedules it: *)
(* it is "woken" and continues in a later callback.                        *)
(***************************************************************************)
EXTENDS Naturals, Sequences, SequencesExt

CONSTANTS
    NItems,      \* the source yields 1 .. NItems
    Output,
    MayReject    \* whether the source may reject before it is exhausted

NItemsAssumption == NItems \in Nat
MayRejectAssumption == MayReject \in BOOLEAN

VARIABLES
    pulled,      \* items the loop has taken from the source
    source,      \* "open", "done" (sourceDone) or "rejected"
    buffers,     \* buffers[o]
    resolvers,   \* resolvers[o]: whether there is one
    reader,      \* reader[o]: "new", "between", "waiting", "woken", "ended"
    received     \* history: what each output has yielded

vars == <<pulled, source, buffers, resolvers, reader, received>>

Init ==
    /\ pulled = 0
    /\ source = "open"
    /\ buffers = [o \in Output |-> <<>>]
    /\ resolvers = [o \in Output |-> FALSE]
    /\ reader = [o \in Output |-> "new"]
    /\ received = [o \in Output |-> <<>>]

(* resolvers[i]?.(); resolvers[i] = null, for every output.                *)
WakeAll ==
    /\ reader' = [o \in Output |-> IF resolvers[o] THEN "woken" ELSE reader[o]]
    /\ resolvers' = [o \in Output |-> FALSE]

(* The source yields an item: a copy for every output. *)
Copies(i) == [o \in Output |-> Append(buffers[o], i)]

Broadcast ==
    /\ source = "open"
    /\ pulled < NItems
    /\ pulled' = pulled + 1
    /\ buffers' = Copies(pulled + 1)
    /\ WakeAll
    /\ UNCHANGED <<source, received>>

WakeNobody == UNCHANGED <<reader, resolvers>>      \* [no second loop]
WakeAtEnd == WakeAll

SourceDone ==
    /\ source = "open"
    /\ pulled = NItems
    /\ source' = "done"
    /\ WakeAtEnd
    /\ UNCHANGED <<pulled, buffers, received>>

(* The source rejects: the loop's promise does, and nobody handles it.     *)
SourceRejects ==
    /\ MayReject
    /\ source = "open"
    /\ source' = "rejected"
    /\ UNCHANGED <<pulled, buffers, resolvers, reader, received>>

(* The generator of o runs: when its consumer asks for the next item, or   *)
(* when it was woken.                                                      *)
AtEnd(o) == source = "done" /\ buffers[o] = <<>>

Runs(o) ==
    \/ /\ ~AtEnd(o)
       /\ buffers[o] # <<>>
       /\ received' = [received EXCEPT ![o] = Append(@, Head(buffers[o]))]
       /\ buffers' = [buffers EXCEPT ![o] = Tail(@)]
       /\ reader' = [reader EXCEPT ![o] = "between"]
       /\ UNCHANGED resolvers
    \/ /\ AtEnd(o)
       /\ reader' = [reader EXCEPT ![o] = "ended"]
       /\ UNCHANGED <<buffers, resolvers, received>>
    \/ /\ ~AtEnd(o)
       /\ buffers[o] = <<>>
       /\ reader' = [reader EXCEPT ![o] = "waiting"]
       /\ resolvers' = [resolvers EXCEPT ![o] = TRUE]
       /\ UNCHANGED <<buffers, received>>

ConsumerAsks(o) ==
    /\ reader[o] \in {"new", "between"}
    /\ Runs(o)
    /\ UNCHANGED <<pulled, source>>

Continue(o) ==
    /\ reader[o] = "woken"
    /\ Runs(o)
    /\ UNCHANGED <<pulled, source>>

Next ==
    \/ Broadcast \/ SourceDone \/ SourceRejects
    \/ \E o \in Output : ConsumerAsks(o) \/ Continue(o)

Spec == Init /\ [][Next]_vars

(* The source goes on, woken generators run.  A consumer that has begun    *)
(* asks again; it need not begin.                                          *)
Fairness ==
    /\ WF_vars(Broadcast \/ SourceDone)
    /\ \A o \in Output :
         /\ WF_vars(Continue(o))
         /\ WF_vars(reader[o] = "between" /\ ConsumerAsks(o))

FairSpec == Spec /\ Fairness

-----------------------------------------------------------------------------
(* The variables have their types; there is a resolver exactly where a     *)
(* generator waits.                                                        *)
TypeOK ==
    /\ pulled \in 0 .. NItems
    /\ source \in {"open", "done", "rejected"}
    /\ buffers \in [Output -> Seq(1 .. NItems)]
    /\ resolvers \in [Output -> BOOLEAN]
    /\ reader \in [Output -> {"new", "between", "waiting", "woken", "ended"}]
    /\ received \in [Output -> Seq(1 .. NItems)]
    /\ \A o \in Output : resolvers[o] <=> reader[o] = "waiting"

(* Every output yields the items in order, and what it has not yielded yet *)
(* waits in its buffer: nothing is lost, doubled or overtaken, however the *)
(* others read.                                                            *)
Items(n) == [i \in 1 .. n |-> i]
CopyForEach == \A o \in Output : received[o] \o buffers[o] = Items(pulled)

(* No wake-up is lost: a generator that waits has an empty buffer, and the *)
(* source may still deliver or has rejected.                               *)
NoLostWakeup ==
    \A o \in Output :
        reader[o] = "waiting" => buffers[o] = <<>> /\ source # "done"

(* An output ends only when it has yielded every item; a rejected source   *)
(* is never taken for an exhausted one.                                    *)
EndedMeansAll ==
    /\ \A o \in Output : reader[o] = "ended" => source = "done" /\ received[o] = Items(NItems)
    /\ source = "done" => pulled = NItems

(* A consumer that keeps asking gets every item and the end, though other  *)
(* outputs are never read, unless the source rejects.                      *)
ReaderEnds ==
    \A o \in Output :
        reader[o] # "new" ~> reader[o] = "ended" \/ source = "rejected"
=============================================================================
