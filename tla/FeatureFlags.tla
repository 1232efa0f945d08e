---------------------------- MODULE FeatureFlags ----------------------------
(***************************************************************************)
(* FeatureFlags of src/src/feature/index.ts.  The hash is any function     *)
(* from keys and entities to buckets.  A flag without an allow-list is one *)
(* with an empty one: no method tells them apart.                          *)
(***************************************************************************)
EXTENDS Integers

CONSTANTS
    Key, Entity,
    Bucket,        \* Bucket[k][e]: hashBucket(`${k}:${e}`, 100)
    Percentage,    \* values of flag.percentage, where there is one
    EnvKeys,       \* keys that process.env may hold with the prefix
    Undefined

BucketAssumption == Bucket \in [Key -> [Entity -> 0 .. 99]]
FlagAssumption ==
    Percentage \subseteq Int /\ Undefined \notin Int /\ EnvKeys \subseteq Key

VARIABLE flags     \* the Map: flags[k] is a flag, or Missing

Flag == [enabled : BOOLEAN, percentage : Percentage \cup {Undefined},
         allowList : SUBSET Entity]
Missing == [enabled |-> FALSE, percentage |-> Undefined, allowList |-> {}]
Plain(b) == [Missing EXCEPT !.enabled = b]

Init == flags = [k \in Key |-> Missing]

-----------------------------------------------------------------------------
Falsy(p) == p \in {Undefined, 0}

(* isEnabled(): neither percentage nor allow-list, or 100 per cent.        *)
IsEnabled(k) ==
    LET f == flags[k]
    IN  /\ f.enabled
        /\ \/ Falsy(f.percentage) /\ f.allowList = {}
           \/ f.percentage # Undefined /\ f.percentage >= 100

(* [the rollout is skipped where the percentage is falsy]                  *)
TruthyRollout(k, e) ==
    LET f == flags[k]
    IN  IF Falsy(f.percentage) THEN f.allowList = {}
        ELSE f.percentage > 0 /\ Bucket[k][e] < f.percentage

(* An entity that is not in the allow-list.                                *)
Rollout(k, e) ==
    LET f == flags[k]
    IN  IF f.percentage = Undefined THEN f.allowList = {}
        ELSE f.percentage > 0 /\ Bucket[k][e] < f.percentage

IsEnabledFor(k, e) ==
    flags[k].enabled /\ (e \in flags[k].allowList \/ Rollout(k, e))

(* [set() assigns to one object that equal flags share]                    *)
SetShared(k, f) ==
    LET same == {k} \cup {i \in Key : flags[i] = flags[k] /\ flags[i] # Missing}
    IN  flags' = [i \in Key |-> IF i \in same THEN f ELSE flags[i]]
(* set() with a flag or a boolean, which is a flag with nothing else.      *)
Set(k, f) == flags' = [flags EXCEPT ![k] = f]

(* delete(): to both questions a missing flag is a disabled one.           *)
Delete(k) == flags' = [flags EXCEPT ![k] = Missing]

(* fromEnv(), in place of what there was: plain flags for the keys that     *)
(* process.env has, on or off.                                             *)
FromEnv ==
    \E on \in SUBSET EnvKeys :
        flags' = [k \in Key |-> Plain(k \in on)]

Next == FromEnv \/ \E k \in Key : Delete(k) \/ \E f \in Flag : Set(k, f)

Spec == Init /\ [][Next]_flags

-----------------------------------------------------------------------------
(* Every key has a flag or none.                                           *)
TypeOK == flags \in [Key -> Flag]

(* "A value of 0 means allow-list only" (feature/index.ts:15): what is     *)
(* globally enabled is enabled for every entity.                           *)
GlobalMeansEveryone ==
    \A k \in Key : IsEnabled(k) => \A e \in Entity : IsEnabledFor(k, e)

(* The same where no percentage is 0: the two questions then agree.        *)
AnswersAgree ==
    \A k \in Key :
        IsEnabled(k) /\ flags[k].percentage # 0 =>
            \A e \in Entity : IsEnabledFor(k, e)

Wider(f, g) ==
    /\ f.enabled => g.enabled
    /\ f.percentage # Undefined /\ g.percentage # Undefined
    /\ f.percentage <= g.percentage /\ f.allowList \subseteq g.allowList

(* A rollout that is raised, step by step, takes the feature from nobody   *)
(* who had it, and changes neither answer about any other flag.            *)
RolloutKept ==
    [][\A k \in Key :
          flags'[k] # flags[k] /\ Wider(flags[k], flags'[k]) =>
             /\ \A e \in Entity : IsEnabledFor(k, e) => IsEnabledFor(k, e)'
             /\ \A i \in Key \ {k} :
                  /\ IsEnabled(i)' = IsEnabled(i)
                  /\ \A e \in Entity : IsEnabledFor(i, e)' = IsEnabledFor(i, e)]_flags
=============================================================================
