------------------------------ MODULE LruCache ------------------------------
(***************************************************************************)
(* LruCache of src/src/cache/index.ts.  The Map is the sequence of its     *)
(* entries in insertion order.  A value is told apart by the time it was   *)
(* set; the counters of stats() are left out.                              *)
(***************************************************************************)
EXTENDS Naturals, Sequences, SequencesExt, Filter

CONSTANTS
    Key,
    Undefined,    \* JavaScript's undefined, which may be a key
    MaxSize,
    TtlMs,        \* in ticks; 0 if there is none
    MaxTime       \* bound: ticks

MaxSizeAssumption == MaxSize \in Nat \ {0}
TimeAssumption == TtlMs \in Nat /\ MaxTime \in Nat

VARIABLES
    store,     \* the entries [key, setAt]
    now,
    used,      \* history: keys in the order of their last set() or hit
    gone       \* history: keys that were deleted, or cleared, since set

vars == <<store, now, used, gone>>

Init ==
    /\ store = <<>>
    /\ now = 0
    /\ used = <<>>
    /\ gone = {}

Keys(s) == {s[i].key : i \in 1 .. Len(s)}
Position(k) == CHOOSE i \in 1 .. Len(store) : store[i].key = k
Entry(k) == store[Position(k)]
Without(k) == RemoveAt(store, Position(k))

Expired(e) == TtlMs > 0 /\ now > e.setAt + TtlMs

Used(k) == CHOOSE i \in 1 .. Len(used) : used[i] = k
Use(k) ==
    used' = Append(IF k \in ToSet(used) THEN RemoveAt(used, Used(k)) ELSE used, k)

-----------------------------------------------------------------------------
(* get(): a miss changes nothing, an expired entry is removed, a hit moves *)
(* to the end of the Map and keeps its expiry.                             *)
StaysInPlace(k) == store                                 \* [no delete and set]
ToTheEnd(k) == Append(Without(k), Entry(k))

Get(k) ==
    /\ k \in Keys(store)
    /\ \/ /\ Expired(Entry(k))
          /\ store' = Without(k)
          /\ UNCHANGED used
       \/ /\ ~Expired(Entry(k))
          /\ store' = ToTheEnd(k)
          /\ Use(k)
    /\ UNCHANGED <<now, gone>>

(* has(): as get(), but a hit is no use.                                   *)
Has(k) ==
    /\ k \in Keys(store)
    /\ Expired(Entry(k))
    /\ store' = Without(k)
    /\ UNCHANGED <<now, used, gone>>

(* set(): replace, or evict the first entry if the cache is full, unless   *)
(* the first key is undefined.                                             *)
LateCheck == IF Len(store) > MaxSize /\ Head(store).key # Undefined
               THEN Tail(store) ELSE store               \* [> for >=]
MakeRoom == IF Len(store) >= MaxSize /\ Head(store).key # Undefined
              THEN Tail(store) ELSE store

Set(k) ==
    /\ store' = Append(IF k \in Keys(store) THEN Without(k) ELSE MakeRoom,
                       [key |-> k, setAt |-> now])
    /\ Use(k)
    /\ gone' = gone \ {k}
    /\ UNCHANGED now

Delete(k) ==
    /\ k \in Keys(store)
    /\ store' = Without(k)
    /\ gone' = gone \cup {k}
    /\ UNCHANGED <<now, used>>

Clear ==
    /\ store' = <<>>
    /\ gone' = gone \cup Keys(store)
    /\ UNCHANGED <<now, used>>

EvictExpired ==
    /\ store' = Filtered(store, {i \in 1 .. Len(store) : ~Expired(store[i])})
    /\ UNCHANGED <<now, used, gone>>

Tick ==
    /\ now < MaxTime
    /\ now' = now + 1
    /\ UNCHANGED <<store, used, gone>>

Next ==
    \/ \E k \in Key : Get(k) \/ Has(k) \/ Set(k) \/ Delete(k)
    \/ Clear \/ EvictExpired \/ Tick

Spec == Init /\ [][Next]_vars

-----------------------------------------------------------------------------
(* The variables have their types, and no key is stored twice.             *)
TypeOK ==
    /\ store \in Seq([key : Key, setAt : 0 .. MaxTime])
    /\ \A i, j \in 1 .. Len(store) : i # j => store[i].key # store[j].key
    /\ now \in 0 .. MaxTime
    /\ used \in Seq(Key)
    /\ \A i, j \in 1 .. Len(used) : i # j => used[i] # used[j]
    /\ gone \subseteq Key

(* A full cache grows only while the key `undefined' is the least recently *)
(* used one, as it is then not evicted ...                                 *)
SizeBounded ==
    [][Len(store') > Len(store) =>
          Len(store) < MaxSize \/ Head(store).key = Undefined]_vars

(* ... and by whatever sequence of operations, expiries and evictions it   *)
(* was filled, they lie in the order of their last use.                    *)
RecencyOrder ==
    /\ Keys(store) \subseteq ToSet(used)
    /\ \A i, j \in 1 .. Len(store) : i < j =>
         \A m, n \in 1 .. Len(used) :
            used[m] = store[i].key /\ used[n] = store[j].key => m < n

(* An entry that has not expired disappears only by delete() or clear(),   *)
(* or as the least recently used one when a new key meets a full cache;    *)
(* an expired entry elsewhere in the cache does not save it.               *)
OnlyOldestEvicted ==
    [][\A k \in Keys(store) : k \notin Keys(store') /\ k \notin gone'
          => \/ Expired(Entry(k))
             \/ /\ Len(store) >= MaxSize
                /\ k = Head(store).key
                /\ Keys(store') \ Keys(store) # {}]_vars
=============================================================================
