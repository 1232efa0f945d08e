------------------------------ MODULE Pipeline ------------------------------
(***************************************************************************)
(* process() of src/src/pipeline/index.ts: workers that share one index    *)
(* into the items and write into one array of results.                     *)
(*                                                                         *)
(* A worker runs from the end of one fn() to its call of the next without  *)
(* interruption.  A worker whose fn() rejects ends, and Promise.all() with *)
(* it; the others go on.                                                   *)
(***************************************************************************)
EXTENDS Naturals, FiniteSets

CONSTANTS
    NItems,
    Workers     \* the argument `workers'; 0 stands for any that is not positive

Item == 1 .. NItems

ASSUME NItemsAssumption == NItems \in Nat /\ Workers \in Nat

(* The number of workers, and the workers. *)
Uncapped == IF Workers > 0 THEN Workers ELSE NItems
w == IF Uncapped < NItems THEN Uncapped ELSE NItems
Worker == 1 .. w

VARIABLES
    index,      \* the next item, from 1
    at,         \* at[k]: the item whose fn() worker k awaits; 0 if not begun,
                \* NItems + 1 if it has ended
    results,    \* results[i]: the item whose result is stored, or 0
    outcome,    \* of process(): "pending", "resolved", "rejected"
    called,     \* history: called[i], how often fn() was called with i
    failed      \* history: the items whose fn() rejected

vars == <<index, at, results, outcome, called, failed>>

Ended == NItems + 1

Init ==
    /\ index = 1
    /\ at = [k \in Worker |-> 0]
    /\ results = [i \in Item |-> 0]
    /\ outcome = IF NItems = 0 THEN "resolved" ELSE "pending"
    /\ called = [i \in Item |-> 0]
    /\ failed = {}

(* The worker takes the next item, or ends. *)
Increments == index' = index + 1

Take(k) ==
    /\ IF index <= NItems
         THEN /\ at' = [at EXCEPT ![k] = index]
              /\ called' = [called EXCEPT ![index] = @ + 1]
         ELSE /\ at' = [at EXCEPT ![k] = Ended]
              /\ UNCHANGED called
    /\ Increments

(* process() calls the workers one after the other. *)
Begin(k) ==
    /\ at[k] = 0
    /\ \A j \in Worker : j < k => at[j] # 0
    /\ Take(k)
    /\ UNCHANGED <<results, outcome, failed>>

ItsItem(k) == at[k]

FnFulfils(k) ==
    /\ at[k] \in Item
    /\ \A j \in Worker : at[j] # 0
    /\ results' = [results EXCEPT ![ItsItem(k)] = at[k]]
    /\ Take(k)
    /\ UNCHANGED <<outcome, failed>>

Ends(k) ==
    /\ at' = [at EXCEPT ![k] = Ended]
    /\ UNCHANGED <<index, called>>

FnRejects(k) ==
    /\ at[k] \in Item
    /\ \A j \in Worker : at[j] # 0
    /\ failed' = failed \cup {at[k]}
    /\ outcome' = IF outcome = "pending" THEN "rejected" ELSE outcome
    /\ Ends(k)
    /\ UNCHANGED results

(* Promise.all() *)
AnyEnded == \E k \in Worker : at[k] = Ended      \* [Promise.race]
AllEnded == \A k \in Worker : at[k] = Ended

Resolve ==
    /\ outcome = "pending"
    /\ AllEnded
    /\ outcome' = "resolved"
    /\ UNCHANGED <<index, at, results, called, failed>>

Next ==
    \/ \E k \in Worker : Begin(k) \/ FnFulfils(k) \/ FnRejects(k)
    \/ Resolve

Spec == Init /\ [][Next]_vars

-----------------------------------------------------------------------------
Busy == {k \in Worker : at[k] \in Item}

(* The variables have their types, and a result lies where its item lay,   *)
(* whichever worker comes first.                                           *)
TypeOK ==
    /\ index \in 1 .. NItems + w + 1
    /\ at \in [Worker -> 0 .. NItems + 1]
    /\ \A i \in Item : results[i] \in {0, i}
    /\ outcome \in {"pending", "resolved", "rejected"}
    /\ called \in [Item -> Nat]
    /\ failed \subseteq Item

(* No item is handled twice, none is passed over by the shared index, and  *)
(* no failed one gets a result.                                            *)
EachOnce ==
    /\ \A i \in Item : called[i] = IF i < index THEN 1 ELSE 0
    /\ \A i \in failed : results[i] = 0

(* The array that process() resolves with has no holes.                    *)
ResolvedIsComplete ==
    outcome = "resolved" => \A i \in Item : results[i] = i

(* process() rejects at the first fn() that does, but nobody stops the     *)
(* other workers: each of the w workers ends with its own failure or with  *)
(* the items, so at most w items fail, and while a worker is left no item  *)
(* is given up.                                                            *)
RejectedGoesOn ==
    /\ outcome = "rejected" <=> failed # {}
    /\ Cardinality(failed) <= w
    /\ Cardinality(Busy) + Cardinality(failed) < w /\ (\A k \in Worker : at[k] # 0)
         => index > NItems
=============================================================================
