----------------------------- MODULE RedisCache -----------------------------
(***************************************************************************)
(* RedisCache of src/src/rediscache/index.ts, beside the data source its   *)
(* users put it in front of: readers call getOrSet(), writers change the   *)
(* source and call delete(), somebody calls flush().  Every Redis command  *)
(* is atomic; between two of them, and while a loader runs, anything may   *)
(* happen.  A value is the number of the change to the source that made    *)
(* it.  An owner is a cache with one key of its own; no prefix begins with *)
(* another one, the empty prefix apart.                                    *)
(***************************************************************************)
EXTENDS Integers

CONSTANTS
    Owner,
    NoPrefix,      \* the owners whose prefix is ''
    Reader, Writer,
    TtlSeconds,    \* of getOrSet(), in ticks; 0 if none is given
    MaxChanges,    \* bound: changes to the source
    MaxLag,        \* bound: ticks from a loader's read to the end of set()
    MaxTime        \* bound: ticks

OwnerAssumption == NoPrefix \subseteq Owner
TimeAssumption == {TtlSeconds, MaxChanges, MaxLag, MaxTime} \subseteq Nat

Version == 0 .. MaxChanges
Never == -1
Null == -2      \* a value that get() takes for a miss: null or undefined
Missing == [value |-> Never, expires |-> Never]
Idle == [at |-> "idle", of |-> {}, loaded |-> Never, since |-> Never]

VARIABLES
    source,       \* source[o]: the value o is to cache
    changes,      \* how often the source was changed
    redis,        \* redis[o]: what Redis holds at prefix + key, or Missing
    now,
    reader,       \* reader[r]: a call of getOrSet() and how far it is
    writer,       \* writer[w]: what it has changed and not deleted yet
    flushing,     \* flushing[o]: keys found by flush() and not deleted yet
    replaced,     \* history: replaced[o][v]: when v was, or Never
    raced         \* history: owners whose last delete() came while a reader
                  \* still held an older value, or did not come at all

vars == <<source, changes, redis, now, reader, writer, flushing, replaced, raced>>

Init ==
    /\ source = [o \in Owner |-> 0] /\ changes = 0
    /\ redis = [o \in Owner |-> Missing]
    /\ now = 0
    /\ reader = [r \in Reader |-> Idle]
    /\ writer = [w \in Writer |-> {}]
    /\ flushing = [o \in Owner |-> {}]
    /\ replaced = [o \in Owner |-> [v \in Version |-> Never]]
    /\ raced = {}

-----------------------------------------------------------------------------
(* get() answers with what can be parsed; a null is a miss to getOrSet().  *)
Hit(o) == redis[o].value \in Version

GetMisses(r, o) ==
    /\ reader[r].at = "idle"
    /\ ~Hit(o)
    /\ reader' = [reader EXCEPT ![r] = [Idle EXCEPT !.at = "loading", !.of = {o}]]
    /\ UNCHANGED <<source, changes, redis, now, writer, flushing, replaced, raced>>

(* The loader reads the source, which may have nothing.                    *)
Load(r) ==
    /\ reader[r].at = "loading"
    /\ \E o \in reader[r].of : \E v \in {source[o], Null} :
         reader' = [reader EXCEPT ![r].at = "storing",
                                  ![r].loaded = v, ![r].since = now]
    /\ UNCHANGED <<source, changes, redis, now, writer, flushing, replaced, raced>>

(* set(): with EX if there is a time to live.                              *)
NoExpiry == Never                                            \* [EX dropped]
Expiry == IF TtlSeconds > 0 THEN now + TtlSeconds ELSE Never

Set(r) ==
    /\ reader[r].at = "storing"
    /\ \E o \in reader[r].of :
         redis' = [redis EXCEPT ![o] = [value |-> reader[r].loaded,
                                        expires |-> Expiry]]
    /\ reader' = [reader EXCEPT ![r] = Idle]
    /\ UNCHANGED <<source, changes, now, writer, flushing, replaced, raced>>

(* A command or the loader rejects, or the process dies.                   *)
GivesUp(r) ==
    /\ reader[r].at # "idle"
    /\ reader' = [reader EXCEPT ![r] = Idle]
    /\ UNCHANGED <<source, changes, redis, now, writer, flushing, replaced, raced>>

-----------------------------------------------------------------------------
Change(w, o) ==
    /\ writer[w] = {}
    /\ changes < MaxChanges
    /\ changes' = changes + 1
    /\ source' = [source EXCEPT ![o] = changes + 1]
    /\ replaced' = [replaced EXCEPT ![o][source[o]] = now]
    /\ writer' = [writer EXCEPT ![w] = {o}]
    /\ UNCHANGED <<redis, now, reader, flushing, raced>>

HoldsOld(o) ==
    \E r \in Reader : /\ reader[r].at = "storing" /\ o \in reader[r].of
                      /\ reader[r].loaded # source[o]

OtherKey(S) == redis                          \* [prefix forgotten in delete]
Deleted(S) == [o \in Owner |-> IF o \in S THEN Missing ELSE redis[o]]

Delete(w) ==
    /\ writer[w] # {}
    /\ redis' = Deleted(writer[w])
    /\ raced' = {o \in raced \cup writer[w] : o \in writer[w] => HoldsOld(o)}
    /\ writer' = [writer EXCEPT ![w] = {}]
    /\ UNCHANGED <<source, changes, now, reader, flushing, replaced>>

DeleteFails(w) ==
    /\ writer[w] # {}
    /\ raced' = raced \cup writer[w]
    /\ writer' = [writer EXCEPT ![w] = {}]
    /\ UNCHANGED <<source, changes, redis, now, reader, flushing, replaced>>

-----------------------------------------------------------------------------
(* flush() without a prefix is FLUSHDB, and with one KEYS and then DEL of  *)
(* what was found.                                                         *)
FlushDb(o) ==
    /\ o \in NoPrefix
    /\ redis' = Deleted(Owner)
    /\ UNCHANGED <<source, changes, now, reader, writer, flushing, replaced, raced>>

FlushKeys(o) ==
    /\ o \notin NoPrefix
    /\ flushing[o] = {} /\ redis[o] # Missing
    /\ flushing' = [flushing EXCEPT ![o] = {o}]
    /\ UNCHANGED <<source, changes, redis, now, reader, writer, replaced, raced>>

FlushDel(o) ==
    /\ flushing[o] # {}
    /\ redis' = Deleted(flushing[o])
    /\ flushing' = [flushing EXCEPT ![o] = {}]
    /\ UNCHANGED <<source, changes, now, reader, writer, replaced, raced>>

(* Time passes, and Redis drops what expires; commands and loaders are no  *)
(* slower than MaxLag.                                                     *)
Tick ==
    /\ now < MaxTime
    /\ \A r \in Reader : reader[r].at = "storing" => now - reader[r].since < MaxLag
    /\ now' = now + 1
    /\ redis' = Deleted({o \in Owner : redis[o].expires = now'})
    /\ UNCHANGED <<source, changes, reader, writer, flushing, replaced, raced>>

Next ==
    \/ \E r \in Reader : \/ Load(r) \/ Set(r) \/ GivesUp(r)
                         \/ \E o \in Owner : GetMisses(r, o)
    \/ \E w \in Writer : \/ Delete(w) \/ DeleteFails(w)
                         \/ \E o \in Owner : Change(w, o)
    \/ \E o \in Owner : FlushDb(o) \/ FlushKeys(o) \/ FlushDel(o)
    \/ Tick

Spec == Init /\ [][Next]_vars

-----------------------------------------------------------------------------
Reading == [at : {"idle", "loading", "storing"}, of : SUBSET Owner,
            loaded : Version \cup {Never, Null}, since : Never .. MaxTime]

(* The variables have their types; a call of getOrSet() is for one key.    *)
TypeOK ==
    /\ source \in [Owner -> 0 .. changes] /\ changes \in Version
    /\ redis \in [Owner -> [value : 0 .. changes \cup {Never, Null},
                           expires : Never .. MaxTime + TtlSeconds]]
    /\ \A o \in Owner : flushing[o] \subseteq {o} \ NoPrefix
    /\ now \in 0 .. MaxTime
    /\ reader \in [Reader -> Reading]
    /\ \A r \in Reader : IF reader[r].at = "idle" THEN reader[r] = Idle
                         ELSE \E o \in Owner : reader[r].of = {o}
    /\ writer \in [Writer -> SUBSET Owner]
    /\ replaced \in [Owner -> [Version -> Never .. MaxTime]]
    /\ raced \subseteq Owner

Stale(o) == Hit(o) /\ redis[o].value # source[o]

(* getOrSet() may store what it loaded before the value was changed and    *)
(* deleted, and then nobody deletes it.  But whatever races with whatever, *)
(* a value is not found in the cache longer after its replacement than its *)
(* loader took to store it and its time to live together.                  *)
StalenessBounded ==
    TtlSeconds > 0 =>
        \A o \in Owner : Stale(o) =>
            now < replaced[o][redis[o].value] + MaxLag + TtlSeconds

(* That race and a failed delete() are the only ways to a stale value:     *)
(* when all writers have deleted what they changed, and none did so while  *)
(* an older value was on its way to the cache, it holds nothing outdated.  *)
StaleOnlyByRace ==
    \A o \in Owner : Stale(o) => o \in raced \/ \E w \in Writer : o \in writer[w]

(* What a reader has loaded was the value when it did so, at most MaxLag   *)
(* ago, and if it is not the value any more, somebody has still to delete  *)
(* it, or it is part of a race.  What is cached expires in time.           *)
Traced ==
    /\ \A r \in Reader : reader[r].at = "storing" =>
         /\ reader[r].since \in 0 .. now /\ now - reader[r].since <= MaxLag
         /\ reader[r].loaded \in 0 .. changes \cup {Null}
         /\ \A o \in reader[r].of :
              reader[r].loaded \in Version /\ reader[r].loaded # source[o] =>
                /\ replaced[o][reader[r].loaded] >= reader[r].since
                /\ o \in raced \/ \E w \in Writer : o \in writer[w]
    /\ \A o \in Owner : Hit(o) /\ TtlSeconds > 0 =>
         /\ now < redis[o].expires /\ redis[o].expires <= now + TtlSeconds
         /\ Stale(o) =>
              redis[o].expires <= replaced[o][redis[o].value] + MaxLag + TtlSeconds
=============================================================================
