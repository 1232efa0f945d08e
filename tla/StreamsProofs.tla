---------------------------- MODULE StreamsProofs ----------------------------
(***************************************************************************)
(* Safety of what coordinates callbacks, for every number of items,        *)
(* workers, outputs, sources, participants and calls, whatever filter()    *)
(* lets through and however often the wall clock is set back.              *)
(*                                                                         *)
(* Pipeline: an item below the index is accounted for: it has its result,  *)
(* or it has failed, or one worker has it.  A worker ends with a failure   *)
(* or when the items have run out, and in that case it has moved the index *)
(* on: so the ended workers can be counted.                                *)
(***************************************************************************)
EXTENDS MCStreams, Integers, SequenceTheorems, FiniteSetTheorems, TLAPS

EndedWorkers == {k \in Worker : at[k] = Ended}

(* What lies behind the index. *)
Accounted ==
    \A i \in Item :
        \/ i >= index /\ called[i] = 0 /\ results[i] = 0 /\ i \notin failed
        \/ /\ i < index /\ called[i] = 1
           /\ results[i] = i \/ i \in failed \/ \E k \in Worker : at[k] = i

(* A worker has an item of its own, of which nothing is known yet.         *)
OwnItem ==
    \A k \in Worker : at[k] \in Item =>
        /\ at[k] < index /\ results[at[k]] = 0 /\ at[k] \notin failed
        /\ \A j \in Worker : at[j] = at[k] => j = k

RanOut == IF index > NItems THEN index - NItems - 1 ELSE 0
Counted == Cardinality(EndedWorkers) = Cardinality(failed) + RanOut

Outcome ==
    /\ outcome = "rejected" <=> failed # {}
    /\ outcome = "resolved" => AllEnded

Types ==
    /\ index \in Nat \ {0}
    /\ at \in [Worker -> 0 .. NItems + 1]
    /\ results \in [Item -> 0 .. NItems]
    /\ \A i \in Item : results[i] \in {0, i}
    /\ outcome \in {"pending", "resolved", "rejected"}
    /\ called \in [Item -> Nat]
    /\ failed \subseteq Item
    /\ \A i \in failed : results[i] = 0

IInv == Types /\ Accounted /\ OwnItem /\ Counted /\ Outcome

-----------------------------------------------------------------------------
LEMMA Numbers == /\ NItems \in Nat /\ w \in Nat /\ w <= NItems
                 /\ NItems > 0 => w > 0
BY NItemsAssumption DEF w, Uncapped

(* The sets that are counted are finite. *)
LEMMA Finite == /\ IsFiniteSet(Worker) /\ Cardinality(Worker) = w
                /\ IsFiniteSet(Item)
<1>1. 1 \in Int /\ w \in Int /\ NItems \in Int
  BY Numbers
<1>2. IsFiniteSet(1 .. w) /\ Cardinality(1 .. w) = w
  BY <1>1, Numbers, FS_Interval
<1>3. IsFiniteSet(1 .. NItems)
  BY <1>1, FS_Interval
<1> QED BY <1>2, <1>3 DEF Worker, Item

LEMMA Initially == Init => IInv
<1> SUFFICES ASSUME Init PROVE IInv
  OBVIOUS
<1> USE Numbers
<1>1. Types
  BY DEF Init, Types, Item
<1>2. Accounted /\ OwnItem
  BY DEF Init, Accounted, OwnItem, Item
<1>3. EndedWorkers = {}
  BY DEF Init, EndedWorkers, Ended
<1>4. Counted
  BY <1>3, FS_EmptySet DEF Init, Counted, RanOut
<1>5. Outcome
  <2>1. NItems = 0 => AllEnded
    BY DEF AllEnded, Worker
  <2> QED BY <2>1 DEF Init, Outcome
<1> QED BY <1>1, <1>2, <1>4, <1>5 DEF IInv

(* What a worker that takes the next item, or ends, changes.               *)
LEMMA TakeTypes ==
    ASSUME Types, NEW k \in Worker, Take(k)
    PROVE  /\ index' = index + 1 /\ index' \in Nat \ {0}
           /\ at' \in [Worker -> 0 .. NItems + 1]
           /\ called' \in [Item -> Nat]
<1> USE Numbers
<1>1. index \in Nat \ {0} /\ index' = index + 1 /\ NItems + 1 \in 0 .. NItems + 1
  BY DEF Take, Increments, Types
<1>2. CASE index <= NItems
  <2>1. index \in Item /\ index \in 0 .. NItems + 1
    BY <1>1, <1>2 DEF Item
  <2>2. at' = [at EXCEPT ![k] = index] /\ called' = [called EXCEPT ![index] = @ + 1]
    BY <1>2 DEF Take
  <2>3. called[index] + 1 \in Nat
    BY <2>1 DEF Types
  <2> QED BY <1>1, <2>1, <2>2, <2>3 DEF Types
<1>3. CASE ~(index <= NItems)
  <2>1. at' = [at EXCEPT ![k] = NItems + 1] /\ called' = called
    BY <1>3 DEF Take, Ended
  <2> QED BY <1>1, <2>1 DEF Types
<1> QED BY <1>2, <1>3

(* The item a worker takes is now accounted for; one it had before must    *)
(* have its result.                                                        *)
LEMMA TakeAccounted ==
    ASSUME Types, Accounted, NEW k \in Worker, Take(k), UNCHANGED failed,
           \A i \in Item : results'[i] = results[i] \/ (i = at[k] /\ results'[i] = i),
           at[k] \in Item => results'[at[k]] = at[k],
           at[k] \in Item => at[k] < index
    PROVE  Accounted'
<1> USE Numbers
<1>0. index \in Nat \ {0} /\ index' = index + 1
  BY DEF Take, Increments, Types
<1> SUFFICES ASSUME NEW i \in Item
             PROVE  \/ i >= index' /\ called'[i] = 0 /\ results'[i] = 0 /\ i \notin failed'
                    \/ /\ i < index' /\ called'[i] = 1
                       /\ results'[i] = i \/ i \in failed' \/ \E j \in Worker : at'[j] = i
  BY DEF Accounted
<1>1. i \in Nat \ {0} /\ i <= NItems
  BY DEF Item
<1>2. CASE i < index
  <2>1. called'[i] = called[i]
    BY <1>0, <1>2 DEF Take, Types
  <2>2. called[i] = 1 /\ (results[i] = i \/ i \in failed \/ \E j \in Worker : at[j] = i)
    BY <1>0, <1>1, <1>2 DEF Accounted
  <2>3. \A j \in Worker : j # k => at'[j] = at[j]
    BY DEF Take, Types
  <2>4. results'[i] = i \/ i \in failed' \/ \E j \in Worker : at'[j] = i
    BY <2>2, <2>3
  <2> QED BY <1>0, <1>1, <1>2, <2>1, <2>2, <2>4
<1>3. CASE i = index
  <2>1. called'[i] = called[i] + 1 /\ at'[k] = i
    BY <1>1, <1>3 DEF Take, Types
  <2>2. called[i] = 0
    BY <1>0, <1>3 DEF Accounted
  <2> QED BY <1>0, <1>3, <2>1, <2>2
<1>4. CASE i > index
  <2>1. called'[i] = called[i]
    BY <1>0, <1>1, <1>4 DEF Take, Types
  <2>2. called[i] = 0 /\ results[i] = 0 /\ i \notin failed
    BY <1>0, <1>1, <1>4 DEF Accounted
  <2>3. results'[i] = results[i]
    BY <1>0, <1>1, <1>4
  <2> QED BY <1>0, <1>1, <1>4, <2>1, <2>2, <2>3
<1> QED BY <1>0, <1>1, <1>2, <1>3, <1>4

(* A worker that takes the next item, or ends because there is none.       *)
LEMMA CountAfterTake ==
    ASSUME IInv, NEW k \in Worker, at[k] # Ended, Take(k), UNCHANGED failed
    PROVE  Counted'
<1> USE Numbers
<1>1. index' = index + 1 /\ index \in Nat
  BY DEF Take, Increments, IInv, Types
<1>2. CASE index <= NItems
  <2>1. EndedWorkers' = EndedWorkers
    BY <1>2 DEF Take, EndedWorkers, Ended, IInv, Types
  <2> QED BY <1>1, <1>2, <2>1 DEF IInv, Counted, RanOut
<1>3. CASE index > NItems
  <2>1. EndedWorkers' = EndedWorkers \cup {k} /\ k \notin EndedWorkers
    BY <1>3 DEF Take, EndedWorkers, Ended, IInv, Types
  <2>2. IsFiniteSet(EndedWorkers)
    BY Finite, FS_Subset DEF EndedWorkers
  <2>3. Cardinality(EndedWorkers') = Cardinality(EndedWorkers) + 1
    BY <2>1, <2>2, FS_AddElement
  <2>4. IsFiniteSet(failed)
    BY Finite, FS_Subset DEF IInv, Types
  <2>5. Cardinality(failed) \in Nat /\ Cardinality(EndedWorkers) \in Nat
    BY <2>2, <2>4, FS_CardinalityType
  <2> QED BY <1>1, <1>3, <2>3, <2>5 DEF IInv, Counted, RanOut
<1> QED BY <1>1, <1>2, <1>3

LEMMA Step == IInv /\ [Next]_vars => IInv'
<1> SUFFICES ASSUME IInv, [Next]_vars PROVE IInv'
  OBVIOUS
<1> USE Numbers
<1>1. ASSUME NEW k \in Worker, Begin(k) PROVE IInv'
  <2>1. at[k] = 0 /\ Take(k) /\ UNCHANGED <<results, outcome, failed>>
    BY <1>1 DEF Begin
  <2>2. Types'
    BY <2>1, TakeTypes DEF IInv, Types
  <2>3. Accounted'
    <3>1. at[k] \notin Item /\ UNCHANGED failed
      BY <2>1 DEF Item
    <3>2. \A i \in Item : results'[i] = results[i]
      BY <2>1
    <3> QED BY <2>1, <3>1, <3>2, TakeAccounted DEF IInv
  <2>4. OwnItem'
    BY <2>1 DEF IInv, Types, Accounted, OwnItem, Take, Increments, Item, Ended
  <2>5. Counted'
    BY <2>1, CountAfterTake DEF Ended
  <2>6. Outcome'
    BY <2>1 DEF IInv, Outcome, AllEnded, Ended
  <2> QED BY <2>2, <2>3, <2>4, <2>5, <2>6 DEF IInv
<1>2. ASSUME NEW k \in Worker, FnFulfils(k) PROVE IInv'
  <2>1. at[k] \in Item /\ Take(k) /\ UNCHANGED <<outcome, failed>>
    BY <1>2 DEF FnFulfils
  <2>2. results' = [results EXCEPT ![at[k]] = at[k]]
    BY <1>2 DEF FnFulfils, ItsItem
  <2>3. Types'
    <3>1. /\ results \in [Item -> 0 .. NItems] /\ at[k] \in 0 .. NItems
          /\ \A i \in Item : results[i] \in {0, i}
      BY <2>1 DEF IInv, Types, Item
    <3>2. /\ results' \in [Item -> 0 .. NItems]
          /\ \A i \in Item : results'[i] = IF i = at[k] THEN i ELSE results[i]
      BY <2>1, <2>2, <3>1
    <3>3. at[k] \notin failed /\ failed \subseteq Item /\ failed' = failed
      BY <2>1 DEF IInv, Types, OwnItem
    <3>4. \A i \in failed' : results'[i] = 0
      BY <3>2, <3>3 DEF IInv, Types
    <3> QED BY <2>1, <3>1, <3>2, <3>3, <3>4, TakeTypes DEF IInv, Types
  <2>4. Accounted'
    BY <2>1, <2>2 DEF IInv, Types, Accounted, OwnItem, Take, Increments, Item, Ended
  <2>5. OwnItem'
    BY <2>1, <2>2 DEF IInv, Types, Accounted, OwnItem, Take, Increments, Item, Ended
  <2>6. Counted'
    BY <2>1, CountAfterTake DEF Ended, Item
  <2>7. Outcome'
    BY <2>1 DEF IInv, Outcome, AllEnded, Ended, Item
  <2> QED BY <2>3, <2>4, <2>5, <2>6, <2>7 DEF IInv
<1>3. ASSUME NEW k \in Worker, FnRejects(k) PROVE IInv'
  <2>1. /\ at[k] \in Item
        /\ failed' = failed \cup {at[k]}
        /\ outcome' = IF outcome = "pending" THEN "rejected" ELSE outcome
        /\ at' = [at EXCEPT ![k] = Ended]
        /\ UNCHANGED <<index, called, results>>
    BY <1>3 DEF FnRejects, Ends
  <2>2. Types'
    <3>1. at' \in [Worker -> 0 .. NItems + 1]
      BY <2>1 DEF IInv, Types, Ended
    <3>2. results[at[k]] = 0
      BY <2>1 DEF IInv, OwnItem
    <3> QED BY <2>1, <3>1, <3>2 DEF IInv, Types
  <2>3. Accounted'
    BY <2>1 DEF IInv, Types, Accounted, OwnItem, Item, Ended
  <2>4. OwnItem'
    BY <2>1 DEF IInv, Types, OwnItem, Item, Ended
  <2>5. Counted'
    <3>1. /\ EndedWorkers' = EndedWorkers \cup {k} /\ k \notin EndedWorkers
          /\ at[k] \notin failed
      BY <2>1 DEF EndedWorkers, Ended, IInv, Types, OwnItem, Item
    <3>2. IsFiniteSet(EndedWorkers) /\ IsFiniteSet(failed)
      BY Finite, FS_Subset DEF EndedWorkers, IInv, Types
    <3>3. /\ Cardinality(EndedWorkers') = Cardinality(EndedWorkers) + 1
          /\ Cardinality(failed') = Cardinality(failed) + 1
      BY <2>1, <3>1, <3>2, FS_AddElement
    <3>4. Cardinality(failed) \in Nat
      BY <3>2, FS_CardinalityType
    <3> QED BY <2>1, <3>3, <3>4 DEF IInv, Types, Counted, RanOut
  <2>6. Outcome'
    <3>1. outcome # "resolved"
      BY <2>1 DEF IInv, Outcome, AllEnded, Ended, Item
    <3> QED BY <2>1, <3>1 DEF IInv, Types, Outcome
  <2> QED BY <2>2, <2>3, <2>4, <2>5, <2>6 DEF IInv
<1>4. CASE Resolve
  <2>1. Types' /\ Accounted' /\ OwnItem' /\ Counted'
    BY <1>4 DEF Resolve, IInv, Types, Accounted, OwnItem, Counted, RanOut, EndedWorkers
  <2>2. Outcome'
    BY <1>4 DEF Resolve, IInv, Outcome, AllEnded
  <2> QED BY <2>1, <2>2 DEF IInv
<1>5. CASE UNCHANGED vars
  BY <1>5 DEF vars, IInv, Types, Accounted, OwnItem, Counted, RanOut, EndedWorkers,
              Outcome, AllEnded
<1> QED BY <1>1, <1>2, <1>3, <1>4, <1>5 DEF Next

(* The inductive invariant, from which the theorems below follow.          *)
THEOREM Invariance == Spec => []IInv
BY Initially, Step, PTL DEF Spec

-----------------------------------------------------------------------------
(* The workers that have ended are as many as failed or ran out of items.  *)
LEMMA EndedBound ==
    ASSUME IInv
    PROVE  /\ IsFiniteSet(failed) /\ Cardinality(failed) \in Nat
           /\ Cardinality(failed) + RanOut <= w
           /\ RanOut \in Nat
<1>1. IsFiniteSet(EndedWorkers) /\ Cardinality(EndedWorkers) <= w
  BY Finite, FS_Subset DEF EndedWorkers
<1>2. IsFiniteSet(failed) /\ Cardinality(failed) \in Nat
  BY Finite, FS_Subset, FS_CardinalityType DEF IInv, Types
<1> QED BY <1>1, <1>2, Numbers DEF IInv, Types, Counted, RanOut

(* Every variable keeps its type, and a result lies where its item lay.    *)
LEMMA Typed == IInv => TypeOK
  BY EndedBound, Numbers DEF IInv, Types, TypeOK, RanOut

(* ... in every behaviour of process().                                    *)
THEOREM TypeCorrect == Spec => []TypeOK
  BY Typed, Invariance, PTL

(* Each item below the index is handled once, no other one is.             *)
LEMMA HandledOnce == IInv => EachOnce
  BY Numbers DEF IInv, Types, Accounted, EachOnce, Item

(* ... whatever order the workers go in.                                   *)
THEOREM Once == Spec => []EachOnce
  BY HandledOnce, Invariance, PTL

(* The array that process() resolves with has no holes.                    *)
LEMMA NoHoles == IInv => ResolvedIsComplete
<1>1. ASSUME IInv, outcome = "resolved", NEW i \in Item PROVE results[i] = i
  <2>1. failed = {} /\ \A k \in Worker : at[k] = Ended
    BY <1>1 DEF IInv, Outcome, AllEnded
  <2>2. EndedWorkers = Worker
    BY <2>1 DEF EndedWorkers
  <2>3. RanOut = w
    BY <1>1, <2>1, <2>2, Finite, FS_EmptySet, EndedBound, Numbers DEF IInv, Counted
  <2>4. index > NItems
    BY <2>3, Numbers DEF RanOut, Item
  <2>5. i < index /\ ~\E k \in Worker : at[k] = i
    BY <1>1, <2>1, <2>4, Numbers DEF Item, Ended, IInv, Types
  <2> QED BY <1>1, <2>1, <2>5, Numbers DEF IInv, Types, Accounted, Item
<1> QED BY <1>1 DEF ResolvedIsComplete

(* ... so that who awaits process() has a result for every item.           *)
THEOREM Complete == Spec => []ResolvedIsComplete
  BY NoHoles, Invariance, PTL

(* After a rejection the other workers go on until the items run out.      *)
LEMMA OthersGoOn == IInv => RejectedGoesOn
<1>1. ASSUME IInv, \A k \in Worker : at[k] # 0, index <= NItems
      PROVE  Cardinality(Busy) + Cardinality(failed) = w
  <2>1. Busy \cup EndedWorkers = Worker /\ Busy \cap EndedWorkers = {}
    <3>1. \A k \in Worker : at[k] \in 0 .. NItems + 1 /\ at[k] # 0
      BY <1>1 DEF IInv, Types
    <3>2. \A k \in Worker : at[k] \in Item <=> at[k] # NItems + 1
      BY <3>1, Numbers DEF Item
    <3> QED BY <3>2 DEF Busy, EndedWorkers, Ended
  <2>2. IsFiniteSet(Busy) /\ IsFiniteSet(EndedWorkers)
    BY Finite, FS_Subset DEF Busy, EndedWorkers
  <2>3. Cardinality(Busy) + Cardinality(EndedWorkers) = w
    <3>1. Cardinality(Busy \cup EndedWorkers)
            = Cardinality(Busy) + Cardinality(EndedWorkers)
                - Cardinality(Busy \cap EndedWorkers)
      BY <2>2, FS_Union
    <3>2. Cardinality(Busy \cap EndedWorkers) = 0
      BY <2>1, FS_EmptySet
    <3>3. Cardinality(Busy) \in Nat /\ Cardinality(EndedWorkers) \in Nat
      BY <2>2, FS_CardinalityType
    <3>4. Cardinality(Busy \cup EndedWorkers) = w
      BY <2>1, Finite
    <3> QED BY <3>1, <3>2, <3>3, <3>4
  <2>4. Cardinality(EndedWorkers) = Cardinality(failed)
    BY <1>1, EndedBound, Numbers DEF IInv, Types, Counted, RanOut
  <2> QED BY <2>3, <2>4
<1>2. ASSUME IInv PROVE RejectedGoesOn
  <2>1. outcome = "rejected" <=> failed # {}
    BY <1>2 DEF IInv, Outcome
  <2>2. Cardinality(failed) <= w
    BY <1>2, EndedBound, Numbers
  <2>3. ASSUME Cardinality(Busy) + Cardinality(failed) < w, \A k \in Worker : at[k] # 0
        PROVE  index > NItems
    <3>1. CASE index <= NItems
      BY <1>1, <1>2, <2>3, <3>1, Numbers
    <3> QED BY <1>2, <3>1, Numbers DEF IInv, Types
  <2> QED BY <2>1, <2>2, <2>3 DEF RejectedGoesOn
<1> QED BY <1>2

(* ... though nobody awaits their results any more.                        *)
THEOREM GoesOn == Spec => []RejectedGoesOn
  BY OthersGoOn, Invariance, PTL

-----------------------------------------------------------------------------
(* A queue that is read from the front, and what was read: an item that    *)
(* moves from the one to the other changes nothing of the two together.    *)
LEMMA ReadOne ==
    ASSUME NEW X, NEW read \in Seq(X), NEW rest \in Seq(X), rest # <<>>
    PROVE  Append(read, Head(rest)) \o Tail(rest) = read \o rest
<1> DEFINE h == Head(rest)
<1>1. h \in X /\ Tail(rest) \in Seq(X) /\ Len(Tail(rest)) = Len(rest) - 1
      /\ \A i \in 1 .. Len(Tail(rest)) : Tail(rest)[i] = rest[i + 1]
  BY HeadTailProperties
<1>2. h = rest[1] /\ Len(rest) \in Nat /\ Len(read) \in Nat /\ Len(rest) # 0
  BY EmptySeq, LenProperties
<1>3. Append(read, h) \in Seq(X) /\ Len(Append(read, h)) = Len(read) + 1
      /\ (\A i \in 1 .. Len(read) : Append(read, h)[i] = read[i])
      /\ Append(read, h)[Len(read) + 1] = h
  BY <1>1, AppendProperties
<1> DEFINE l == Append(read, h)
<1> DEFINE r == Tail(rest)
<1> HIDE DEF h, l, r
<1>4. l \o r \in Seq(X) /\ Len(l \o r) = Len(l) + Len(r)
      /\ \A i \in 1 .. Len(l) + Len(r) :
            (l \o r)[i] = IF i <= Len(l) THEN l[i] ELSE r[i - Len(l)]
  BY <1>1, <1>3, ConcatProperties DEF l, r
<1>5. read \o rest \in Seq(X) /\ Len(read \o rest) = Len(read) + Len(rest)
      /\ \A i \in 1 .. Len(read) + Len(rest) :
            (read \o rest)[i] = IF i <= Len(read) THEN read[i] ELSE rest[i - Len(read)]
  BY ConcatProperties
<1>6. Len(l) = Len(read) + 1 /\ Len(r) = Len(rest) - 1
  BY <1>1, <1>3 DEF l, r
<1>7. Len(l \o r) = Len(read \o rest)
  BY <1>2, <1>4, <1>5, <1>6
<1>8. ASSUME NEW i \in 1 .. Len(l \o r) PROVE (l \o r)[i] = (read \o rest)[i]
  <2>1. CASE i <= Len(read)
    BY <1>2, <1>3, <1>4, <1>5, <1>6, <2>1 DEF l
  <2>2. CASE i = Len(read) + 1
    BY <1>2, <1>3, <1>4, <1>5, <1>6, <2>2 DEF l
  <2>3. CASE i > Len(read) + 1
    <3>1. i - Len(l) \in 1 .. Len(r) /\ i - Len(l) + 1 = i - Len(read)
      BY <1>2, <1>4, <1>6, <2>3
    <3>2. r[i - Len(l)] = rest[i - Len(read)]
      BY <1>1, <3>1 DEF r
    <3>3. QED
      BY <1>2, <1>4, <1>5, <1>6, <2>3, <3>2
  <2>4. QED
    BY <1>2, <1>4, <1>6, <2>1, <2>2, <2>3
<1>9. QED
  BY <1>4, <1>5, <1>7, <1>8, SeqEqual DEF l, r, h

LEMMA WriteOne ==
    ASSUME NEW X, NEW read \in Seq(X), NEW rest \in Seq(X), NEW item \in X
    PROVE  read \o Append(rest, item) = Append(read \o rest, item)
<1>1. <<item>> \in Seq(X)
  OBVIOUS
<1>2. Append(rest, item) = rest \o <<item>>
  BY AppendIsConcat
<1>3. read \o rest \in Seq(X)
  BY ConcatProperties
<1>4. Append(read \o rest, item) = (read \o rest) \o <<item>>
  BY <1>3, AppendIsConcat
<1>5. QED
  BY <1>1, <1>2, <1>4, ConcatAssociative

(* The numbers in their order.                                             *)
LEMMA ItemsGrow ==
    ASSUME NEW n \in Nat
    PROVE  /\ O!Items(n) \in Seq(1 .. n) /\ Len(O!Items(n)) = n
           /\ Append(O!Items(n), n + 1) = O!Items(n + 1)
<1> DEFINE s == O!Items(n)
<1> DEFINE u == O!Items(n + 1)
<1>1. s \in Seq(1 .. n) /\ Len(s) = n /\ \A k \in 1 .. n : s[k] = k
  BY DEF O!Items
<1>2. u \in Seq(1 .. n + 1) /\ Len(u) = n + 1 /\ \A k \in 1 .. n + 1 : u[k] = k
  BY DEF O!Items
<1>3. s \in Seq(1 .. n + 1)
  BY <1>1, SeqMonotonic
<1> HIDE DEF s, u
<1> DEFINE v == Append(s, n + 1)
<1>4. v \in Seq(1 .. n + 1) /\ Len(v) = n + 1
      /\ (\A k \in 1 .. n : v[k] = s[k]) /\ v[n + 1] = n + 1
  BY <1>1, <1>3, AppendProperties
<1> HIDE DEF v
<1>5. \A k \in 1 .. n + 1 : v[k] = u[k]
  BY <1>1, <1>2, <1>4
<1>6. v = u
  BY <1>2, <1>4, <1>5, SeqEqual
<1>7. QED
  BY <1>1, <1>6 DEF s, u, v

-----------------------------------------------------------------------------
(* FanOut: the source is done when all items were broadcast.               *)
FanOutInv == O!TypeOK /\ O!CopyForEach /\ O!NoLostWakeup /\ O!EndedMeansAll

LEMMA FanOutNumbers == FanItems \in Nat
  BY FanAssumption DEF O!NItemsAssumption

LEMMA InitFanOut == O!Init => FanOutInv
<1> SUFFICES ASSUME O!Init PROVE FanOutInv
  OBVIOUS
<1>1. O!TypeOK
  BY FanOutNumbers DEF O!Init, O!TypeOK
<1>2. O!CopyForEach
  <2>1. O!Items(0) = <<>>
    BY ItemsGrow, EmptySeq
  <2>2. <<>> \o <<>> = <<>>
    BY ConcatEmptySeq, EmptySeq
  <2>3. QED
    BY <2>1, <2>2 DEF O!Init, O!CopyForEach
<1>3. O!NoLostWakeup /\ O!EndedMeansAll
  BY DEF O!Init, O!NoLostWakeup, O!EndedMeansAll
<1>4. QED
  BY <1>1, <1>2, <1>3 DEF FanOutInv

(* The generator of one output runs.                                       *)
LEMMA OutputRuns ==
    ASSUME FanOutInv, NEW o \in Output,
           oReader[o] \in {"new", "between", "woken"}, O!Runs(o), UNCHANGED <<pulled, source>>
    PROVE  FanOutInv'
<1> USE FanOutNumbers
<1>0. O!TypeOK /\ O!CopyForEach /\ O!NoLostWakeup /\ O!EndedMeansAll
  BY DEF FanOutInv
<1>1. pulled' = pulled /\ source' = source /\ pulled \in Nat
  BY <1>0 DEF O!TypeOK
<1>2. CASE ~O!AtEnd(o) /\ buffers[o] # <<>>
  <2>1. /\ oReceived' = [oReceived EXCEPT ![o] = Append(@, Head(buffers[o]))]
        /\ buffers' = [buffers EXCEPT ![o] = Tail(@)]
        /\ oReader' = [oReader EXCEPT ![o] = "between"]
        /\ resolvers' = resolvers
    BY <1>2 DEF O!Runs
  <2>2. /\ oReceived[o] \in Seq(1 .. FanItems) /\ buffers[o] \in Seq(1 .. FanItems)
        /\ oReceived'[o] = Append(oReceived[o], Head(buffers[o]))
        /\ buffers'[o] = Tail(buffers[o])
    BY <1>0, <2>1 DEF O!TypeOK
  <2>3. /\ oReceived'[o] \in Seq(1 .. FanItems) /\ buffers'[o] \in Seq(1 .. FanItems)
        /\ oReceived'[o] \o buffers'[o] = oReceived[o] \o buffers[o]
    <3> DEFINE Known == 1 .. FanItems
    <3> DEFINE read == oReceived[o]
    <3> DEFINE rest == buffers[o]
    <3>1. read \in Seq(Known) /\ rest \in Seq(Known) /\ rest # <<>>
      BY <1>2, <2>2
    <3> HIDE DEF Known, read, rest
    <3>2. Head(rest) \in Known /\ Tail(rest) \in Seq(Known)
      BY <3>1, HeadTailProperties
    <3>3. Append(read, Head(rest)) \in Seq(Known)
      BY <3>1, <3>2, AppendProperties
    <3>4. Append(read, Head(rest)) \o Tail(rest) = read \o rest
      BY <3>1, ReadOne
    <3>5. QED
      BY <2>2, <3>2, <3>3, <3>4 DEF Known, read, rest
  <2>4. O!TypeOK'
    BY <1>0, <1>1, <2>1, <2>3 DEF O!TypeOK
  <2>5. ASSUME NEW p \in Output PROVE oReceived'[p] \o buffers'[p] = O!Items(pulled)
    <3>1. CASE p = o
      BY <1>0, <2>3, <3>1 DEF O!CopyForEach
    <3>2. CASE p # o
      BY <1>0, <2>1, <3>2 DEF O!CopyForEach, O!TypeOK
    <3>3. QED
      BY <3>1, <3>2
  <2>6. O!CopyForEach'
    BY <1>1, <2>5 DEF O!CopyForEach, O!Items
  <2>7. O!NoLostWakeup' /\ O!EndedMeansAll'
    BY <1>0, <1>1, <2>1 DEF O!TypeOK, O!NoLostWakeup, O!EndedMeansAll, O!Items
  <2>8. QED
    BY <2>4, <2>6, <2>7 DEF FanOutInv
<1>3. CASE O!AtEnd(o)
  <2>1. /\ oReader' = [oReader EXCEPT ![o] = "ended"]
        /\ buffers' = buffers /\ resolvers' = resolvers /\ oReceived' = oReceived
        /\ source = "done" /\ buffers[o] = <<>>
    BY <1>3 DEF O!Runs, O!AtEnd
  <2>2. O!TypeOK' /\ O!CopyForEach' /\ O!NoLostWakeup'
    BY <1>0, <1>1, <2>1 DEF O!TypeOK, O!CopyForEach, O!NoLostWakeup, O!Items
  <2>3. oReceived[o] = O!Items(FanItems)
    <3>1. oReceived[o] \o <<>> = oReceived[o]
      BY <1>0, ConcatEmptySeq DEF O!TypeOK
    <3>2. QED
      BY <1>0, <2>1, <3>1 DEF O!CopyForEach, O!EndedMeansAll
  <2>4. O!EndedMeansAll'
    BY <1>0, <1>1, <2>1, <2>3 DEF O!TypeOK, O!EndedMeansAll, O!Items
  <2>5. QED
    BY <2>2, <2>4 DEF FanOutInv
<1>4. CASE ~O!AtEnd(o) /\ buffers[o] = <<>>
  <2>1. /\ oReader' = [oReader EXCEPT ![o] = "waiting"]
        /\ resolvers' = [resolvers EXCEPT ![o] = TRUE]
        /\ buffers' = buffers /\ oReceived' = oReceived
        /\ source # "done"
    BY <1>4 DEF O!Runs, O!AtEnd
  <2>2. O!TypeOK'
    BY <1>0, <1>1, <2>1 DEF O!TypeOK
  <2>3. O!CopyForEach' /\ O!EndedMeansAll'
    BY <1>0, <1>1, <2>1 DEF O!TypeOK, O!CopyForEach, O!EndedMeansAll, O!Items
  <2>4. O!NoLostWakeup'
    BY <1>0, <1>1, <1>4, <2>1 DEF O!TypeOK, O!NoLostWakeup
  <2>5. QED
    BY <2>2, <2>3, <2>4 DEF FanOutInv
<1>5. QED
  BY <1>2, <1>3, <1>4 DEF O!Runs

(* The loop wakes all generators that wait.                                *)
LEMMA OutputsWake ==
    ASSUME O!TypeOK, O!WakeAll
    PROVE  /\ oReader' \in [Output -> {"new", "between", "waiting", "woken", "ended"}]
           /\ resolvers' \in [Output -> BOOLEAN]
           /\ \A o \in Output : oReader'[o] # "waiting" /\ ~resolvers'[o]
                /\ (oReader'[o] = "ended" => oReader[o] = "ended")
  BY DEF O!TypeOK, O!WakeAll

LEMMA NextFanOut == FanOutInv /\ [O!Next]_oVars => FanOutInv'
<1> SUFFICES ASSUME FanOutInv, [O!Next]_oVars PROVE FanOutInv'
  OBVIOUS
<1> USE FanOutNumbers
<1>0. O!TypeOK /\ O!CopyForEach /\ O!NoLostWakeup /\ O!EndedMeansAll
  BY DEF FanOutInv
<1>1. CASE O!Broadcast
  <2>1. /\ pulled' = pulled + 1 /\ pulled' \in 1 .. FanItems /\ pulled \in Nat
        /\ source = "open" /\ source' = source
        /\ buffers' = [o \in Output |-> Append(buffers[o], pulled + 1)]
        /\ oReceived' = oReceived /\ O!WakeAll
    BY <1>0, <1>1 DEF O!Broadcast, O!Copies, O!TypeOK
  <2>2. ASSUME NEW o \in Output
        PROVE  /\ buffers'[o] \in Seq(1 .. FanItems)
               /\ oReceived'[o] \o buffers'[o] = O!Items(pulled + 1)
    <3> DEFINE Known == 1 .. FanItems
    <3> DEFINE read == oReceived[o]
    <3> DEFINE rest == buffers[o]
    <3> DEFINE item == pulled + 1
    <3>1. read \in Seq(Known) /\ rest \in Seq(Known) /\ item \in Known
      BY <1>0, <2>1 DEF O!TypeOK
    <3>2. buffers'[o] = Append(rest, item) /\ oReceived'[o] = read
      BY <2>1
    <3>3. read \o rest = O!Items(pulled) /\ Append(O!Items(pulled), item) = O!Items(item)
      BY <1>0, <2>1, ItemsGrow DEF O!CopyForEach
    <3> HIDE DEF Known, read, rest, item
    <3>4. Append(rest, item) \in Seq(Known)
      BY <3>1, AppendProperties
    <3>5. read \o Append(rest, item) = Append(read \o rest, item)
      BY <3>1, WriteOne
    <3>6. QED
      BY <3>2, <3>3, <3>4, <3>5 DEF Known, item
  <2>3. O!TypeOK'
    BY <1>0, <2>1, <2>2, OutputsWake DEF O!TypeOK
  <2>4. O!CopyForEach'
    BY <2>1, <2>2 DEF O!CopyForEach, O!Items
  <2>5. O!NoLostWakeup' /\ O!EndedMeansAll'
    BY <1>0, <2>1, OutputsWake DEF O!NoLostWakeup, O!EndedMeansAll
  <2>6. QED
    BY <2>3, <2>4, <2>5 DEF FanOutInv
<1>2. CASE O!SourceDone
  <2>1. /\ source = "open" /\ pulled = FanItems /\ source' = "done" /\ O!WakeAll
        /\ pulled' = pulled /\ buffers' = buffers /\ oReceived' = oReceived
    BY <1>2 DEF O!SourceDone, O!WakeAtEnd
  <2>2. O!TypeOK'
    BY <1>0, <2>1, OutputsWake DEF O!TypeOK
  <2>3. O!CopyForEach' /\ O!NoLostWakeup' /\ O!EndedMeansAll'
    BY <1>0, <2>1, OutputsWake DEF O!CopyForEach, O!NoLostWakeup, O!EndedMeansAll, O!Items
  <2>4. QED
    BY <2>2, <2>3 DEF FanOutInv
<1>3. CASE O!SourceRejects
  BY <1>0, <1>3 DEF O!SourceRejects, FanOutInv, O!TypeOK, O!CopyForEach, O!NoLostWakeup,
    O!EndedMeansAll, O!Items
<1>4. ASSUME NEW o \in Output, O!ConsumerAsks(o) \/ O!Continue(o) PROVE FanOutInv'
  BY <1>4, OutputRuns DEF O!ConsumerAsks, O!Continue
<1>5. CASE UNCHANGED oVars
  BY <1>0, <1>5 DEF oVars, FanOutInv, O!TypeOK, O!CopyForEach, O!NoLostWakeup,
    O!EndedMeansAll, O!Items
<1>6. QED
  BY <1>1, <1>2, <1>3, <1>4, <1>5 DEF O!Next

-----------------------------------------------------------------------------
(* Stream: what has left the buffer was judged, but for the staged item.   *)
StreamInv ==
    S!TypeOK /\ S!StartsAtNext /\ S!InOrder /\ S!NoLostWakeup /\ S!EndedMeans

LEMMA StreamNumbers ==
    StreamItems \in Nat /\ StreamTake \in Nat /\ Passes \subseteq Nat \ {0}
  BY StreamAssumption DEF S!NItemsAssumption

LEMMA StreamTypes ==
    ASSUME StreamInv
    PROVE  /\ emitted \in Nat /\ emitted <= StreamItems
           /\ buffer \in Seq(1 .. StreamItems) /\ Len(buffer) \in Nat
           /\ sReceived \in Seq(1 .. StreamItems) /\ Len(sReceived) \in Nat
           /\ staged \in Nat /\ staged <= StreamItems
           /\ S!Taken \in Nat /\ S!Taken <= emitted /\ Len(buffer) = emitted - S!Taken
           /\ S!Judged = IF staged = 0 THEN S!Taken ELSE S!Taken - 1
           /\ S!Judged \in Nat
<1>1. S!TypeOK /\ S!InOrder
  BY DEF StreamInv
<1>2. /\ emitted \in Nat /\ emitted <= StreamItems
      /\ buffer \in Seq(1 .. StreamItems) /\ Len(buffer) \in Nat
      /\ sReceived \in Seq(1 .. StreamItems) /\ Len(sReceived) \in Nat
      /\ staged \in Nat /\ staged <= StreamItems
  BY <1>1, StreamNumbers, LenProperties DEF S!TypeOK
<1>3. S!Taken = emitted - Len(buffer)
  BY DEF S!Taken
<1>4. S!Taken >= 0
  <2>1. CASE Len(buffer) = 0
    BY <1>2, <1>3, <2>1
  <2>2. CASE Len(buffer) # 0
    <3>1. 1 \in 1 .. Len(buffer)
      BY <1>2, <2>2
    <3>2. buffer[1] \in 1 .. StreamItems
      BY <1>2, <3>1, ElementOfSeq
    <3>3. buffer[1] = S!Taken + 1
      BY <1>1, <3>1 DEF S!InOrder
    <3>4. QED
      BY <1>2, <1>3, <3>2, <3>3
  <2>3. QED
    BY <2>1, <2>2
<1>5. S!Judged = IF staged = 0 THEN S!Taken ELSE S!Taken - 1
  BY DEF S!Judged
<1>6. staged \in {0, S!Taken}
  BY <1>1 DEF S!InOrder
<1>7. QED
  BY <1>2, <1>3, <1>4, <1>5, <1>6

LEMMA InitStream == S!Init => StreamInv
<1> SUFFICES ASSUME S!Init PROVE StreamInv
  OBVIOUS
<1> USE StreamNumbers
<1>1. S!TypeOK /\ S!StartsAtNext /\ S!NoLostWakeup /\ S!EndedMeans
  BY DEF S!Init, S!TypeOK, S!StartsAtNext, S!NoLostWakeup, S!EndedMeans
<1>2. Len(buffer) = 0 /\ Len(sReceived) = 0 /\ emitted = 0 /\ staged = 0
  BY DEF S!Init
<1>3. S!Taken = 0 /\ S!Judged = 0
  BY <1>2 DEF S!Taken, S!Judged
<1>4. S!Letting(S!Judged) = {} /\ S!ToSet(sReceived) = {}
  BY <1>3 DEF S!Letting, S!ToSet, S!Init
<1>5. S!InOrder
  BY <1>2, <1>3, <1>4 DEF S!InOrder
<1>6. QED
  BY <1>1, <1>5 DEF StreamInv

(* What was yielded stays as it is, and nothing more has been judged or,   *)
(* at the end, is asked about.                                             *)
LEMMA StreamKeeps ==
    ASSUME StreamInv, sReceived' = sReceived,
           (\A k \in 1 .. Len(buffer') : buffer'[k] = S!Taken' + k),
           staged' \in {0, S!Taken'}, S!Judged' >= S!Judged, S!Judged' \in Nat,
           \/ S!Judged' = S!Judged /\ (sReader \in {"ended", "failed"} => sReader' = sReader)
           \/ sReader' \in {"ended", "failed"}
    PROVE  S!InOrder'
<1>1. S!InOrder
  BY DEF StreamInv
<1>2. /\ \A k \in 1 .. Len(sReceived) - 1 : sReceived[k] < sReceived[k + 1]
      /\ \A item \in S!ToSet(sReceived) :
            item <= S!Judged /\ item \in Passes
            /\ S!Letting(item) \subseteq S!ToSet(sReceived)
      /\ sReader \notin {"ended", "failed"} => S!Letting(S!Judged) \subseteq S!ToSet(sReceived)
      /\ Len(sReceived) <= StreamTake
  BY <1>1 DEF S!InOrder
<1>3. S!ToSet(sReceived)' = S!ToSet(sReceived)
  BY DEF S!ToSet
<1>4. \A item \in S!ToSet(sReceived) : item \in Nat
  BY StreamTypes, StreamNumbers, <1>2
<1>5. \A item \in S!ToSet(sReceived) : item <= S!Judged'
  BY <1>2, <1>4, StreamTypes
<1>6. QED
  BY <1>2, <1>3, <1>5 DEF S!InOrder, S!Letting

(* The generator is woken or not: what it waited for may have come.        *)
LEMMA StreamWakes ==
    ASSUME S!TypeOK, S!Wake
    PROVE  /\ sReader' \in {"new", "between", "waiting", "woken", "staged", "ended", "failed"}
           /\ sReader' # "waiting" /\ sResolver' = FALSE
           /\ \A r \in {"new", "staged", "ended", "failed"} : sReader' = r <=> sReader = r
  BY DEF S!TypeOK, S!Wake

LEMMA StreamEmits == StreamInv /\ S!Emit => StreamInv'
<1> SUFFICES ASSUME StreamInv, S!Emit PROVE StreamInv'
  OBVIOUS
<1> USE StreamNumbers
<1>0. S!TypeOK /\ S!StartsAtNext /\ S!InOrder /\ S!NoLostWakeup /\ S!EndedMeans
  BY DEF StreamInv
<1>1. /\ producer = "running" /\ emitted < StreamItems /\ emitted' = emitted + 1
      /\ buffer' = Append(buffer, emitted + 1) /\ S!Wake
      /\ producer' = producer /\ staged' = staged /\ sReceived' = sReceived
  BY DEF S!Emit, S!Pushed
<1>2. /\ buffer' \in Seq(1 .. StreamItems) /\ Len(buffer') = Len(buffer) + 1
      /\ \A k \in 1 .. Len(buffer) : buffer'[k] = buffer[k]
      /\ buffer'[Len(buffer) + 1] = emitted + 1
  <2>1. emitted + 1 \in 1 .. StreamItems /\ buffer \in Seq(1 .. StreamItems)
    BY <1>1, StreamTypes
  <2>2. QED
    BY <1>1, <2>1, AppendProperties
<1>3. S!Taken' = S!Taken /\ S!Judged' = S!Judged
  <2>1. S!Taken' = emitted' - Len(buffer') /\ S!Taken = emitted - Len(buffer)
    BY DEF S!Taken
  <2>2. S!Taken' = S!Taken
    BY <1>1, <1>2, <2>1, StreamTypes
  <2>3. QED
    BY <1>1, <2>2 DEF S!Judged
<1>4. S!TypeOK'
  <2>1. emitted' \in 0 .. StreamItems /\ staged' \in 0 .. StreamItems
    BY <1>1, StreamTypes
  <2>2. staged' # 0 <=> sReader' = "staged"
    BY <1>0, <1>1, StreamWakes DEF S!TypeOK
  <2>3. sResolver' <=> sReader' = "waiting"
    BY <1>0, <1>1, StreamWakes
  <2>4. QED
    BY <1>0, <1>1, <1>2, <2>1, <2>2, <2>3, StreamWakes DEF S!TypeOK
<1>5. S!InOrder'
  <2>1. ASSUME NEW k \in 1 .. Len(buffer') PROVE buffer'[k] = S!Taken' + k
    <3>1. CASE k <= Len(buffer)
      <4>1. k \in 1 .. Len(buffer)
        BY <1>2, <3>1, StreamTypes
      <4>2. QED
        BY <1>0, <1>2, <1>3, <4>1 DEF S!InOrder
    <3>2. CASE k = Len(buffer) + 1
      <4>1. k = emitted - S!Taken + 1
        BY <3>2, StreamTypes
      <4>2. buffer'[k] = emitted + 1
        BY <1>2, <3>2
      <4>3. QED
        BY <1>3, <4>1, <4>2, StreamTypes
    <3>3. QED
      BY <1>2, <3>1, <3>2, StreamTypes
  <2>2. staged' \in {0, S!Taken'}
    BY <1>0, <1>1, <1>3 DEF S!InOrder
  <2>3. S!Judged' \in Nat /\ S!Judged' >= S!Judged
    BY <1>3, StreamTypes
  <2>4. sReader \in {"ended", "failed"} => sReader' = sReader
    BY <1>0, <1>1, StreamWakes
  <2>5. QED
    BY <1>1, <1>3, <2>1, <2>2, <2>3, <2>4, StreamKeeps
<1>6. S!StartsAtNext' /\ S!NoLostWakeup'
  BY <1>0, <1>1, StreamWakes DEF S!StartsAtNext, S!NoLostWakeup
<1>7. S!EndedMeans'
  <2> SUFFICES ASSUME sReader' = "ended" PROVE S!EndedMeans'
    BY DEF S!EndedMeans
  <2>1. sReader = "ended"
    BY <1>0, <1>1, StreamWakes
  <2>2. Len(sReceived) = StreamTake /\ ~(S!Letting(emitted) \subseteq S!ToSet(sReceived))
    BY <1>0, <1>1, <2>1 DEF S!EndedMeans
  <2>3. S!Letting(emitted) \subseteq S!Letting(emitted')
    BY <1>1, StreamTypes DEF S!Letting
  <2>4. S!ToSet(sReceived)' = S!ToSet(sReceived)
    BY <1>1 DEF S!ToSet
  <2>5. ~(S!Letting(emitted') \subseteq S!ToSet(sReceived)')
    BY <2>2, <2>3, <2>4
  <2>6. QED
    BY <1>1, <2>2, <2>5 DEF S!EndedMeans, S!Letting
<1>8. QED
  BY <1>4, <1>5, <1>6, <1>7 DEF StreamInv

(* fn() settles: nothing that was emitted changes.                         *)
LEMMA StreamSettles == StreamInv /\ (S!Fulfil \/ S!Reject) => StreamInv'
<1> SUFFICES ASSUME StreamInv, S!Fulfil \/ S!Reject PROVE StreamInv'
  OBVIOUS
<1>0. S!TypeOK /\ S!StartsAtNext /\ S!InOrder /\ S!NoLostWakeup /\ S!EndedMeans
  BY DEF StreamInv
<1>1. /\ producer = "running" /\ producer' \in {"fulfilled", "rejected"}
      /\ emitted' = emitted /\ buffer' = buffer /\ staged' = staged
      /\ sReceived' = sReceived
  BY DEF S!Fulfil, S!Reject
<1>2. /\ sReader' \in {"new", "between", "waiting", "woken", "staged", "ended", "failed"}
      /\ (sResolver' <=> sReader' = "waiting")
      /\ (\A r \in {"new", "staged", "ended", "failed"} : sReader' = r <=> sReader = r)
      /\ (sReader' = "waiting" => sReader = "waiting" /\ producer' # "fulfilled")
  <2>1. CASE S!Fulfil
    BY <1>0, <2>1, StreamWakes DEF S!Fulfil, S!WakeOnDone
  <2>2. CASE S!Reject
    BY <1>0, <2>2 DEF S!Reject, S!TypeOK
  <2>3. QED
    BY <2>1, <2>2
<1>3. S!Taken' = S!Taken /\ S!Judged' = S!Judged /\ S!ToSet(sReceived)' = S!ToSet(sReceived)
  BY <1>1 DEF S!Taken, S!Judged, S!ToSet
<1>4. S!TypeOK' /\ S!StartsAtNext' /\ S!NoLostWakeup'
  BY <1>0, <1>1, <1>2 DEF S!TypeOK, S!StartsAtNext, S!NoLostWakeup
<1>5. S!InOrder'
  BY <1>0, <1>1, <1>2, <1>3 DEF S!InOrder, S!Letting
<1>6. S!EndedMeans'
  BY <1>0, <1>1, <1>2, <1>3 DEF S!EndedMeans, S!Letting
<1>7. QED
  BY <1>4, <1>5, <1>6 DEF StreamInv

(* Before the first next() nothing was emitted, and nothing is anywhere.   *)
LEMMA StreamBegins == StreamInv /\ S!Begin => StreamInv'
<1> SUFFICES ASSUME StreamInv, S!Begin PROVE StreamInv'
  OBVIOUS
<1> USE StreamNumbers
<1>0. S!TypeOK /\ S!StartsAtNext /\ S!InOrder /\ S!NoLostWakeup /\ S!EndedMeans
  BY DEF StreamInv
<1>1. /\ sReader = "new" /\ sReader' = "woken" /\ emitted = 0
      /\ sResolver' = sResolver /\ staged' = staged /\ sReceived' = sReceived
  BY <1>0 DEF S!Begin, S!StartsAtNext
<1>2. Len(buffer) = 0 /\ S!Taken = 0 /\ staged = 0 /\ S!Judged = 0
  BY <1>0, <1>1, StreamTypes DEF S!TypeOK
<1>3. CASE producer' = "running" /\ UNCHANGED <<emitted, buffer>>
  <2>1. S!Taken' = S!Taken /\ S!Judged' = S!Judged
    BY <1>1, <1>3 DEF S!Taken, S!Judged
  <2>2. S!TypeOK' /\ S!StartsAtNext' /\ S!NoLostWakeup' /\ S!EndedMeans'
    BY <1>0, <1>1, <1>2, <1>3
    DEF S!TypeOK, S!StartsAtNext, S!NoLostWakeup, S!EndedMeans
  <2>3. S!InOrder'
    <3>1. \A k \in 1 .. Len(buffer') : buffer'[k] = S!Taken' + k
      BY <1>0, <1>3, <2>1 DEF S!InOrder
    <3>2. QED
      BY <1>1, <1>2, <2>1, <3>1, StreamKeeps
  <2>4. QED
    BY <2>2, <2>3 DEF StreamInv
<1>4. CASE /\ producer' = "fulfilled" /\ emitted' = StreamItems
           /\ buffer' = S!Items(StreamItems)
  <2>1. /\ buffer' \in Seq(1 .. StreamItems) /\ Len(buffer') = StreamItems
        /\ \A k \in 1 .. StreamItems : buffer'[k] = k
    BY <1>4 DEF S!Items
  <2>2. S!Taken' = 0
    BY <1>4, <2>1 DEF S!Taken
  <2>3. S!Judged' = 0
    BY <1>1, <1>2, <2>2 DEF S!Judged
  <2>4. S!TypeOK' /\ S!StartsAtNext' /\ S!NoLostWakeup' /\ S!EndedMeans'
    BY <1>0, <1>1, <1>2, <1>4, <2>1
    DEF S!TypeOK, S!StartsAtNext, S!NoLostWakeup, S!EndedMeans
  <2>5. S!InOrder'
    <3>1. \A k \in 1 .. Len(buffer') : buffer'[k] = S!Taken' + k
      BY <2>1, <2>2
    <3>2. staged' \in {0, S!Taken'} /\ S!Judged' >= S!Judged /\ S!Judged' \in Nat
          /\ S!Judged' = S!Judged /\ sReader \notin {"ended", "failed"}
      BY <1>1, <1>2, <2>2, <2>3
    <3>3. QED
      BY <1>1, <3>1, <3>2, StreamKeeps
  <2>6. QED
    BY <2>4, <2>5 DEF StreamInv
<1>5. QED
  BY <1>3, <1>4 DEF S!Begin

(* The generator runs: the next item is staged, or it has ended, or waits. *)
LEMMA StreamRuns ==
    ASSUME StreamInv, sReader \in {"between", "woken"}, S!Runs,
           UNCHANGED <<producer, emitted, sReceived>>
    PROVE  StreamInv'
<1> USE StreamNumbers
<1>0. S!TypeOK /\ S!StartsAtNext /\ S!InOrder /\ S!NoLostWakeup /\ S!EndedMeans
  BY DEF StreamInv
<1>1. producer' = producer /\ emitted' = emitted /\ sReceived' = sReceived /\ staged = 0
  BY <1>0 DEF S!TypeOK
<1>2. S!Judged = S!Taken /\ ~sResolver
  BY <1>0, <1>1, StreamTypes DEF S!TypeOK
<1>3. CASE ~S!AtEnd /\ buffer # <<>>
  <2>1. /\ buffer' = Tail(buffer) /\ sReader' = "staged" /\ staged' = Head(buffer)
        /\ sResolver' = sResolver
    BY <1>3 DEF S!Runs
  <2>2. /\ buffer' \in Seq(1 .. StreamItems) /\ Len(buffer') = Len(buffer) - 1
        /\ \A k \in 1 .. Len(buffer') : buffer'[k] = buffer[k + 1]
    BY <1>3, <2>1, StreamTypes, HeadTailProperties
  <2>3. Len(buffer) # 0 /\ 1 \in 1 .. Len(buffer)
    BY <1>3, StreamTypes, EmptySeq
  <2>4. staged' = S!Taken + 1
    <3>1. Head(buffer) = buffer[1]
      OBVIOUS
    <3>2. QED
      BY <1>0, <2>1, <2>3, <3>1 DEF S!InOrder
  <2>5. S!Taken' = S!Taken + 1
    <3>1. S!Taken' = emitted' - Len(buffer') /\ S!Taken = emitted - Len(buffer)
      BY DEF S!Taken
    <3>2. QED
      BY <1>1, <2>2, <3>1, StreamTypes
  <2>6. S!Judged' = S!Taken
    <3>1. S!Judged' = IF staged' = 0 THEN S!Taken' ELSE S!Taken' - 1
      BY DEF S!Judged
    <3>2. QED
      BY <2>4, <2>5, <3>1, StreamTypes
  <2>7. staged' \in 1 .. StreamItems
    BY <1>1, <2>1, <2>3, <2>4, StreamTypes
  <2>8. S!TypeOK' /\ S!StartsAtNext' /\ S!NoLostWakeup' /\ S!EndedMeans'
    BY <1>0, <1>1, <1>2, <2>1, <2>2, <2>7
    DEF S!TypeOK, S!StartsAtNext, S!NoLostWakeup, S!EndedMeans
  <2>9. S!InOrder'
    <3>1. ASSUME NEW k \in 1 .. Len(buffer') PROVE buffer'[k] = S!Taken' + k
      <4>1. k + 1 \in 1 .. Len(buffer)
        BY <2>2, StreamTypes
      <4>2. buffer[k + 1] = S!Taken + (k + 1)
        BY <1>0, <4>1 DEF S!InOrder
      <4>3. QED
        BY <2>2, <2>5, <4>2, StreamTypes
    <3>2. staged' \in {0, S!Taken'} /\ S!Judged' >= S!Judged /\ S!Judged' \in Nat
          /\ S!Judged' = S!Judged
      BY <1>2, <2>4, <2>5, <2>6, StreamTypes
    <3>3. QED
      BY <1>1, <3>1, <3>2, StreamKeeps
  <2>10. QED
    BY <2>8, <2>9 DEF StreamInv
<1>4. ASSUME buffer' = buffer, staged' = staged PROVE S!InOrder'
  <2>1. S!Taken' = S!Taken /\ S!Judged' = S!Judged
    BY <1>1, <1>4 DEF S!Taken, S!Judged
  <2>2. /\ \A k \in 1 .. Len(buffer') : buffer'[k] = S!Taken' + k
        /\ staged' \in {0, S!Taken'}
    BY <1>0, <1>4, <2>1 DEF S!InOrder
  <2>3. QED
    BY <1>1, <2>1, <2>2, StreamKeeps, StreamTypes
<1>5. CASE S!AtEnd
  <2>1. /\ sReader' = "ended" /\ buffer' = buffer /\ sResolver' = sResolver
        /\ staged' = staged /\ producer = "fulfilled" /\ buffer = <<>>
    BY <1>5 DEF S!Runs, S!AtEnd
  <2>2. S!TypeOK' /\ S!StartsAtNext' /\ S!NoLostWakeup'
    BY <1>0, <1>1, <1>2, <2>1 DEF S!TypeOK, S!StartsAtNext, S!NoLostWakeup
  <2>3. S!Judged = emitted
    BY <1>2, <2>1, StreamTypes, EmptySeq
  <2>4. S!Letting(emitted) \subseteq S!ToSet(sReceived)
    BY <1>0, <2>3 DEF S!InOrder
  <2>5. S!EndedMeans'
    BY <1>1, <2>1, <2>4 DEF S!EndedMeans, S!Letting, S!ToSet
  <2>6. QED
    BY <1>4, <2>1, <2>2, <2>5 DEF StreamInv
<1>6. CASE ~S!AtEnd /\ buffer = <<>>
  <2>1. /\ sReader' = "waiting" /\ sResolver' = TRUE /\ buffer' = buffer /\ staged' = staged
        /\ producer # "fulfilled"
    BY <1>6 DEF S!Runs, S!AtEnd
  <2>2. S!TypeOK' /\ S!StartsAtNext' /\ S!NoLostWakeup' /\ S!EndedMeans'
    BY <1>0, <1>1, <1>6, <2>1 DEF S!TypeOK, S!StartsAtNext, S!NoLostWakeup, S!EndedMeans
  <2>3. QED
    BY <1>4, <2>1, <2>2 DEF StreamInv
<1>7. QED
  BY <1>3, <1>5, <1>6 DEF S!Runs

(* p and f reject: the item has left the stream, which has failed.         *)
LEMMA StreamFails == StreamInv /\ S!StageRejects => StreamInv'
<1> SUFFICES ASSUME StreamInv, S!StageRejects PROVE StreamInv'
  OBVIOUS
<1> USE StreamNumbers
<1>0. S!TypeOK /\ S!StartsAtNext /\ S!InOrder /\ S!NoLostWakeup /\ S!EndedMeans
  BY DEF StreamInv
<1>1. /\ sReader = "staged" /\ sReader' = "failed" /\ staged' = 0 /\ buffer' = buffer
      /\ producer' = producer /\ emitted' = emitted /\ sResolver' = sResolver
      /\ sReceived' = sReceived
  BY DEF S!StageRejects, S!fn
<1>2. S!Taken' = S!Taken /\ S!Judged' = S!Taken
  BY <1>1 DEF S!Taken, S!Judged
<1>3. S!TypeOK' /\ S!StartsAtNext' /\ S!NoLostWakeup' /\ S!EndedMeans'
  BY <1>0, <1>1 DEF S!TypeOK, S!StartsAtNext, S!NoLostWakeup, S!EndedMeans
<1>4. S!InOrder'
  <2>1. \A k \in 1 .. Len(buffer') : buffer'[k] = S!Taken' + k
    BY <1>0, <1>1, <1>2 DEF S!InOrder
  <2>2. S!Judged' >= S!Judged /\ S!Judged' \in Nat
    BY <1>2, StreamTypes
  <2>3. QED
    BY <1>1, <2>1, <2>2, StreamKeeps
<1>5. QED
  BY <1>3, <1>4 DEF StreamInv

(* The item is judged: dropped, yielded, or the one too many.              *)
LEMMA StreamJudges == StreamInv /\ S!Stage => StreamInv'
<1> SUFFICES ASSUME StreamInv, S!Stage PROVE StreamInv'
  OBVIOUS
<1> USE StreamNumbers
<1>0. S!TypeOK /\ S!StartsAtNext /\ S!InOrder /\ S!NoLostWakeup /\ S!EndedMeans
  BY DEF StreamInv
<1>1. /\ sReader = "staged" /\ staged' = 0 /\ buffer' = buffer
      /\ producer' = producer /\ emitted' = emitted /\ sResolver' = sResolver
      /\ S!Drops \/ S!Yields
  BY DEF S!Stage, S!fn
<1>2. staged # 0 /\ staged = S!Taken /\ staged \in 1 .. StreamItems /\ sResolver = FALSE
  BY <1>0, <1>1, StreamTypes DEF S!TypeOK, S!InOrder
<1>3. S!Taken' = S!Taken /\ S!Judged' = staged /\ S!Judged = staged - 1
  BY <1>1, <1>2, StreamTypes DEF S!Taken, S!Judged
<1>4. /\ \A k \in 1 .. Len(buffer') : buffer'[k] = S!Taken' + k
      /\ staged' \in {0, S!Taken'} /\ S!Judged' >= S!Judged /\ S!Judged' \in Nat
  BY <1>0, <1>1, <1>2, <1>3, StreamTypes DEF S!InOrder
<1>5. S!Letting(staged - 1) \subseteq S!ToSet(sReceived)
  BY <1>0, <1>1, <1>3 DEF S!InOrder
<1>6. S!Letting(staged) = S!Letting(staged - 1) \cup (Passes \cap {staged})
  BY <1>2 DEF S!Letting
<1>7. CASE S!Drops
  <2>1. staged \notin Passes /\ sReader' = "woken" /\ sReceived' = sReceived
    BY <1>7 DEF S!Drops
  <2>2. S!TypeOK' /\ S!StartsAtNext' /\ S!NoLostWakeup' /\ S!EndedMeans'
    BY <1>0, <1>1, <1>2, <2>1 DEF S!TypeOK, S!StartsAtNext, S!NoLostWakeup, S!EndedMeans
  <2>3. S!ToSet(sReceived)' = S!ToSet(sReceived)
    BY <2>1 DEF S!ToSet
  <2>4. S!Letting(staged) \subseteq S!ToSet(sReceived)
    BY <1>5, <1>6, <2>1
  <2>5. S!Letting(S!Judged)' \subseteq S!ToSet(sReceived)'
    BY <1>3, <2>3, <2>4 DEF S!Letting
  <2>6. \A item \in S!ToSet(sReceived) :
           /\ item <= S!Judged' /\ item \in Passes
           /\ S!Letting(item) \subseteq S!ToSet(sReceived)
    <3>1. \A item \in S!ToSet(sReceived) :
             /\ item <= S!Judged /\ item \in Passes
             /\ S!Letting(item) \subseteq S!ToSet(sReceived)
      BY <1>0 DEF S!InOrder
    <3>2. QED
      <4>1. ASSUME NEW item \in S!ToSet(sReceived) PROVE item <= S!Judged'
        <5>1. item \in Nat /\ item <= staged - 1
          BY <1>3, <3>1
        <5>2. QED
          BY <1>2, <1>3, <5>1
      <4>2. QED
        BY <3>1, <4>1
  <2>7. S!InOrder'
    BY <1>0, <1>4, <2>1, <2>3, <2>5, <2>6 DEF S!InOrder, S!Letting
  <2>8. QED
    BY <2>2, <2>7 DEF StreamInv
<1>8. CASE S!Yields /\ S!Enough
  <2>1. staged \in Passes /\ sReader' = "ended" /\ sReceived' = sReceived
        /\ Len(sReceived) >= StreamTake
    BY <1>8 DEF S!Yields, S!Enough
  <2>2. S!TypeOK' /\ S!StartsAtNext' /\ S!NoLostWakeup'
    BY <1>0, <1>1, <1>2, <2>1 DEF S!TypeOK, S!StartsAtNext, S!NoLostWakeup
  <2>3. S!InOrder'
    BY <1>1, <1>4, <2>1, StreamKeeps
  <2>4. staged \notin S!ToSet(sReceived)
    <3>1. \A item \in S!ToSet(sReceived) : item <= staged - 1
      BY <1>0, <1>3 DEF S!InOrder
    <3>2. QED
      BY <1>2, <3>1
  <2>5. staged \in S!Letting(emitted)
    BY <1>2, <2>1, StreamTypes DEF S!Letting
  <2>6. Len(sReceived) = StreamTake
    BY <1>0, <2>1, StreamTypes DEF S!InOrder
  <2>7. S!EndedMeans'
    BY <1>1, <2>1, <2>4, <2>5, <2>6 DEF S!EndedMeans, S!Letting, S!ToSet
  <2>8. QED
    BY <2>2, <2>3, <2>7 DEF StreamInv
<1>9. CASE S!Yields /\ ~S!Enough
  <2>1. staged \in Passes /\ sReader' = "between" /\ sReceived' = Append(sReceived, staged)
        /\ Len(sReceived) < StreamTake
    BY <1>9, StreamTypes DEF S!Yields, S!Enough
  <2>2. /\ sReceived' \in Seq(1 .. StreamItems) /\ Len(sReceived') = Len(sReceived) + 1
        /\ \A k \in 1 .. Len(sReceived) : sReceived'[k] = sReceived[k]
        /\ sReceived'[Len(sReceived) + 1] = staged
    BY <1>2, <2>1, StreamTypes, AppendProperties
  <2>3. S!TypeOK' /\ S!StartsAtNext' /\ S!NoLostWakeup' /\ S!EndedMeans'
    BY <1>0, <1>1, <1>2, <2>1, <2>2
    DEF S!TypeOK, S!StartsAtNext, S!NoLostWakeup, S!EndedMeans
  <2>4. S!ToSet(sReceived)' = S!ToSet(sReceived) \cup {staged}
    <3>1. /\ DOMAIN sReceived = 1 .. Len(sReceived)
          /\ DOMAIN sReceived' = 1 .. Len(sReceived) + 1
      BY <2>2, StreamTypes, LenProperties
    <3>2. S!ToSet(sReceived)' = {sReceived'[k] : k \in 1 .. Len(sReceived) + 1}
      BY <3>1 DEF S!ToSet
    <3>3. S!ToSet(sReceived) = {sReceived[k] : k \in 1 .. Len(sReceived)}
      BY <3>1 DEF S!ToSet
    <3>4. 1 .. Len(sReceived) + 1 = 1 .. Len(sReceived) \cup {Len(sReceived) + 1}
      BY StreamTypes
    <3>5. QED
      BY <2>2, <3>2, <3>3, <3>4
  <2>5. \A item \in S!ToSet(sReceived) :
           /\ item <= staged - 1 /\ item \in Passes
           /\ S!Letting(item) \subseteq S!ToSet(sReceived)
    BY <1>0, <1>3 DEF S!InOrder
  <2>6. S!Letting(staged) \subseteq S!ToSet(sReceived)'
    BY <1>5, <1>6, <2>4
  <2>7. \A item \in S!ToSet(sReceived)' :
           /\ item <= S!Judged' /\ item \in Passes
           /\ S!Letting(item) \subseteq S!ToSet(sReceived)'
    <3> SUFFICES ASSUME NEW item \in S!ToSet(sReceived)'
                 PROVE  /\ item <= S!Judged' /\ item \in Passes
                        /\ S!Letting(item) \subseteq S!ToSet(sReceived)'
      OBVIOUS
    <3>1. CASE item = staged
      BY <1>2, <1>3, <2>1, <2>6, <3>1
    <3>2. CASE item \in S!ToSet(sReceived)
      <4>1. item \in Nat /\ item <= staged - 1
        BY <2>5, <3>2
      <4>2. item <= S!Judged'
        BY <1>2, <1>3, <4>1
      <4>3. QED
        BY <2>4, <2>5, <3>2, <4>2
    <3>3. QED
      BY <2>4, <3>1, <3>2
  <2>8. ASSUME NEW k \in 1 .. Len(sReceived') - 1
        PROVE  sReceived'[k] < sReceived'[k + 1]
    <3>1. k \in 1 .. Len(sReceived)
      BY <2>2, StreamTypes
    <3>2. CASE k = Len(sReceived)
      <4>1. sReceived[k] \in S!ToSet(sReceived)
        BY <3>1, StreamTypes, LenProperties DEF S!ToSet
      <4>2. sReceived[k] \in 1 .. StreamItems
        BY <3>1, StreamTypes, ElementOfSeq
      <4>3. QED
        BY <1>2, <2>2, <2>5, <3>1, <3>2, <4>1, <4>2
    <3>3. CASE k # Len(sReceived)
      <4>1. k \in 1 .. Len(sReceived) - 1 /\ k + 1 \in 1 .. Len(sReceived)
        BY <3>1, <3>3, StreamTypes
      <4>2. QED
        BY <1>0, <2>2, <3>1, <4>1 DEF S!InOrder
    <3>4. QED
      BY <3>2, <3>3
  <2>9. Len(sReceived') <= StreamTake
    BY <2>1, <2>2, StreamTypes
  <2>10. S!Letting(S!Judged)' \subseteq S!ToSet(sReceived)'
    BY <1>3, <2>6 DEF S!Letting
  <2>11. S!InOrder'
    BY <1>4, <2>7, <2>8, <2>9, <2>10 DEF S!InOrder, S!Letting
  <2>12. QED
    BY <2>3, <2>11 DEF StreamInv
<1>10. QED
  BY <1>1, <1>7, <1>8, <1>9

LEMMA NextStream == StreamInv /\ [S!Next]_sVars => StreamInv'
<1> SUFFICES ASSUME StreamInv, [S!Next]_sVars PROVE StreamInv'
  OBVIOUS
<1>1. CASE S!ConsumerAsks \/ S!Continue
  BY <1>1, StreamRuns DEF S!ConsumerAsks, S!Continue, S!fn
<1>2. CASE UNCHANGED sVars
  BY <1>2 DEF sVars, StreamInv, S!TypeOK, S!StartsAtNext, S!InOrder, S!NoLostWakeup,
    S!EndedMeans, S!Taken, S!Judged, S!Letting, S!ToSet
<1>3. QED
  BY <1>1, <1>2, StreamEmits, StreamSettles, StreamBegins, StreamFails, StreamJudges
  DEF S!Next

-----------------------------------------------------------------------------
(* FanIn: activeCount is the number of loops that have not called done(),  *)
(* and what the sources have yielded is received or queued, in order.      *)
FanInInv ==
    /\ I!TypeOK /\ I!SourceOrderKept /\ I!Counted
    /\ I!NoLostWakeup /\ I!EndedMeansExhausted

(* The instance counts as FiniteSets does.                                 *)
LEMMA SameCount ==
    \A C : (I!IsFiniteSet(C) <=> IsFiniteSet(C)) /\ I!Cardinality(C) = Cardinality(C)
<1>1. \A C : I!IsFiniteSet(C) <=> IsFiniteSet(C)
  BY DEF I!IsFiniteSet, IsFiniteSet
<1>2. \A C : I!Cardinality(C) = Cardinality(C)
  BY DEF I!Cardinality, Cardinality
<1>3. QED
  BY <1>1, <1>2

LEMMA FanInNumbers ==
    IsFiniteSet(Sources) /\ Rejecting \subseteq Sources /\ ItemsOf \in [Sources -> Nat]
  BY FanAssumption, SameCount DEF I!SourceAssumption, I!NItemsAssumption

(* An item is a source and a number.                                       *)
LEMMA ItemParts ==
    /\ \A item \in I!Item : /\ item[1] \in Sources /\ item[2] \in 1 .. ItemsOf[item[1]]
                            /\ item = <<item[1], item[2]>>
    /\ \A s \in Sources : \A n \in 1 .. ItemsOf[s] : <<s, n>> \in I!Item
<1>1. ASSUME NEW item \in I!Item
      PROVE  /\ item[1] \in Sources /\ item[2] \in 1 .. ItemsOf[item[1]]
             /\ item = <<item[1], item[2]>>
  <2>1. PICK s \in Sources : item \in {s} \X (1 .. ItemsOf[s])
    BY DEF I!Item
  <2>2. QED
    BY <2>1
<1>2. ASSUME NEW s \in Sources, NEW n \in 1 .. ItemsOf[s] PROVE <<s, n>> \in I!Item
  <2>1. <<s, n>> \in {s} \X (1 .. ItemsOf[s])
    OBVIOUS
  <2>2. {s} \X (1 .. ItemsOf[s]) \in {{t} \X (1 .. ItemsOf[t]) : t \in Sources}
    OBVIOUS
  <2>3. QED
    BY <2>1, <2>2 DEF I!Item
<1>3. QED
  BY <1>1, <1>2

LEMMA LoopsCounted ==
    ASSUME NEW C \in SUBSET Sources
    PROVE  /\ IsFiniteSet(C) /\ Cardinality(C) \in 0 .. Cardinality(Sources)
           /\ Cardinality(C) = 0 <=> C = {}
           /\ \A s \in C : Cardinality(C \ {s}) = Cardinality(C) - 1
<1>1. IsFiniteSet(C) /\ Cardinality(C) <= Cardinality(Sources)
  BY FanInNumbers, FS_Subset
<1>2. Cardinality(C) \in Nat /\ Cardinality(Sources) \in Nat
  BY <1>1, FanInNumbers, FS_CardinalityType
<1>3. Cardinality(C) = 0 <=> C = {}
  BY <1>1, FS_EmptySet
<1>4. \A s \in C : Cardinality(C \ {s}) = Cardinality(C) - 1
  BY <1>1, FS_RemoveElement
<1>5. QED
  BY <1>1, <1>2, <1>3, <1>4

Active == {s \in Sources : iSource[s] # "done"}

WaitsForItems == iReader = "waiting" => queue = <<>>

(* The wake-up and the end are right when the counter and the order are.   *)
LEMMA CountTells ==
    I!TypeOK /\ I!SourceOrderKept /\ I!Counted /\ WaitsForItems => FanInInv
<1> SUFFICES ASSUME I!TypeOK, I!SourceOrderKept, I!Counted, WaitsForItems
             PROVE  FanInInv
  OBVIOUS
<1>1. activeCount = Cardinality(Active) /\ Active \in SUBSET Sources
  BY SameCount DEF I!Counted, Active
<1>2. I!NoLostWakeup
  <2> SUFFICES ASSUME iReader = "waiting"
               PROVE  \E s \in Sources : iSource[s] # "done"
    BY DEF I!NoLostWakeup, WaitsForItems
  <2>1. activeCount # 0
    BY DEF I!Counted
  <2>2. Active # {}
    BY <1>1, <2>1, LoopsCounted
  <2>3. QED
    BY <2>2 DEF Active
<1>3. I!EndedMeansExhausted
  <2> SUFFICES ASSUME iReader = "ended"
               PROVE  /\ \A s \in Sources : iSource[s] = "done"
                      /\ I!ToSet(iReceived) = I!Item
    BY DEF I!EndedMeansExhausted
  <2>1. activeCount = 0 /\ queue = <<>>
    BY DEF I!Counted
  <2>2. Active = {}
    BY <1>1, <2>1, LoopsCounted
  <2>3. \A s \in Sources : iSource[s] = "done"
    BY <2>2 DEF Active
  <2>4. \A s \in Sources : iPulled[s] = ItemsOf[s]
    BY <2>3 DEF I!Counted
  <2>5. I!Merged = iReceived
    BY <2>1, ConcatEmptySeq DEF I!Merged, I!TypeOK
  <2>6. I!ToSet(iReceived) = {item \in I!Item : item[2] <= iPulled[item[1]]}
    BY <2>5 DEF I!SourceOrderKept
  <2>7. \A item \in I!Item : item[2] <= iPulled[item[1]]
    BY <2>4, ItemParts, FanInNumbers
  <2>8. QED
    BY <2>3, <2>6, <2>7
<1>4. QED
  BY <1>2, <1>3 DEF FanInInv

LEMMA InitFanIn == I!Init => FanInInv
<1> SUFFICES ASSUME I!Init PROVE FanInInv
  OBVIOUS
<1>1. /\ iPulled = [s \in Sources |-> 0] /\ iSource = [s \in Sources |-> "idle"]
      /\ queue = <<>> /\ activeCount = Cardinality(Sources) /\ iResolver = FALSE
      /\ iReader = "new" /\ iReceived = <<>>
  BY SameCount DEF I!Init
<1>2. I!TypeOK
  <2>1. activeCount \in 0 .. I!Cardinality(Sources)
    BY <1>1, LoopsCounted, SameCount
  <2>2. QED
    BY <1>1, <2>1 DEF I!TypeOK
<1>3. I!Merged = <<>>
  BY <1>1, ConcatEmptySeq, EmptySeq DEF I!Merged
<1>4. I!SourceOrderKept
  <2>1. {item \in I!Item : item[2] <= iPulled[item[1]]} = {}
    <3> SUFFICES ASSUME NEW item \in I!Item PROVE ~(item[2] <= iPulled[item[1]])
      OBVIOUS
    <3>1. item[1] \in Sources /\ item[2] \in 1 .. ItemsOf[item[1]] /\ ItemsOf[item[1]] \in Nat
      BY ItemParts, FanInNumbers
    <3>2. QED
      BY <1>1, <3>1
  <2>2. I!ToSet(<<>>) = {}
    BY DEF I!ToSet
  <2>3. QED
    BY <1>3, <2>1, <2>2 DEF I!SourceOrderKept
<1>5. I!Counted
  <2>1. {s \in Sources : iSource[s] # "done"} = Sources
    BY <1>1
  <2>2. QED
    <3>1. \A s \in Sources : iPulled[s] <= ItemsOf[s] /\ iSource[s] = "idle"
      BY <1>1, FanInNumbers
    <3>2. activeCount = I!Cardinality({s \in Sources : iSource[s] # "done"})
      BY <1>1, <2>1, SameCount
    <3>3. QED
      BY <1>1, <3>1, <3>2 DEF I!Counted
<1>6. QED
  BY <1>1, <1>2, <1>4, <1>5, CountTells DEF WaitsForItems

(* The generator runs, at its first next(), when it is asked, or woken.    *)
LEMMA MergedRuns ==
    ASSUME FanInInv, I!Runs, iReader \in {"new", "between", "woken"},
           iPulled' = iPulled, activeCount' = activeCount,
           \/ iReader = "new" /\ iSource' = [s \in Sources |-> "open"]
           \/ iReader # "new" /\ iSource' = iSource
    PROVE  FanInInv'
<1>0. I!TypeOK /\ I!SourceOrderKept /\ I!Counted /\ I!NoLostWakeup
  BY DEF FanInInv
<1>1. queue \in Seq(I!Item) /\ iReceived \in Seq(I!Item) /\ ~iResolver
  BY <1>0 DEF I!TypeOK
<1>2. iSource' \in [Sources -> {"idle", "open", "done", "rejected"}]
  BY <1>0 DEF I!TypeOK
<1>3. \A s \in Sources : iSource'[s] = "done" <=> iSource[s] = "done"
  BY <1>0 DEF I!Counted
<1>4. \A s \in Sources : iSource'[s] # "idle"
  BY <1>0 DEF I!Counted
<1>5. I!Cardinality({s \in Sources : iSource'[s] # "done"}) = activeCount
  <2>1. {s \in Sources : iSource'[s] # "done"} = {s \in Sources : iSource[s] # "done"}
    BY <1>3
  <2>2. QED
    BY <1>0, <2>1 DEF I!Counted
<1>6. \A s \in Sources : iPulled[s] <= ItemsOf[s]
                          /\ (iSource'[s] = "done" => iPulled[s] = ItemsOf[s])
  BY <1>0, <1>3 DEF I!Counted
<1>7. ASSUME iReader' \in {"between", "waiting", "ended"},
             iReader' = "waiting" => activeCount # 0,
             iReader' = "ended" => activeCount = 0 /\ queue' = <<>>
      PROVE  I!Counted'
  BY <1>4, <1>5, <1>6, <1>7 DEF I!Counted
<1>8. CASE ~I!Exhausted /\ queue # <<>>
  <2>1. /\ iReceived' = Append(iReceived, Head(queue)) /\ queue' = Tail(queue)
        /\ iReader' = "between" /\ iResolver' = iResolver
    BY <1>8 DEF I!Runs, I!Exhausted
  <2>2. /\ iReceived' \in Seq(I!Item) /\ queue' \in Seq(I!Item)
        /\ iReceived' \o queue' = iReceived \o queue
    BY <1>1, <1>8, <2>1, HeadTailProperties, AppendProperties, ReadOne
  <2>3. I!TypeOK'
    BY <1>0, <1>1, <1>2, <2>1, <2>2 DEF I!TypeOK
  <2>4. I!SourceOrderKept'
    BY <1>0, <2>2 DEF I!SourceOrderKept, I!Merged, I!ToSet
  <2>5. I!Counted'
    BY <1>7, <2>1
  <2>6. WaitsForItems'
    BY <2>1 DEF WaitsForItems
  <2>7. QED
    BY <2>3, <2>4, <2>5, <2>6, CountTells, PTL
<1>9. CASE I!Exhausted
  <2>1. /\ iReader' = "ended" /\ queue' = queue /\ iResolver' = iResolver
        /\ iReceived' = iReceived /\ activeCount = 0 /\ queue = <<>>
    BY <1>9 DEF I!Runs, I!Exhausted
  <2>2. I!TypeOK'
    BY <1>0, <1>1, <1>2, <2>1 DEF I!TypeOK
  <2>3. I!SourceOrderKept'
    BY <1>0, <2>1 DEF I!SourceOrderKept, I!Merged, I!ToSet
  <2>4. I!Counted'
    BY <1>7, <2>1
  <2>5. WaitsForItems'
    BY <2>1 DEF WaitsForItems
  <2>6. QED
    BY <2>2, <2>3, <2>4, <2>5, CountTells, PTL
<1>10. CASE ~I!Exhausted /\ queue = <<>>
  <2>1. /\ iReader' = "waiting" /\ iResolver' = TRUE /\ queue' = queue
        /\ iReceived' = iReceived /\ activeCount # 0
    BY <1>10 DEF I!Runs, I!Exhausted
  <2>2. I!TypeOK'
    BY <1>0, <1>1, <1>2, <2>1 DEF I!TypeOK
  <2>3. I!SourceOrderKept'
    BY <1>0, <2>1 DEF I!SourceOrderKept, I!Merged, I!ToSet
  <2>4. I!Counted'
    BY <1>7, <2>1
  <2>5. WaitsForItems'
    BY <1>10, <2>1 DEF WaitsForItems
  <2>6. QED
    BY <2>2, <2>3, <2>4, <2>5, CountTells, PTL
<1>11. QED
  BY <1>8, <1>9, <1>10

(* A loop that goes on tells the generator that there is something.        *)
LEMMA MergedWakes ==
    ASSUME I!TypeOK, I!Wake
    PROVE  /\ iReader' \in {"new", "between", "woken", "ended", "left"} /\ iResolver' = FALSE
           /\ \A r \in {"new", "ended"} : iReader' = r <=> iReader = r
  BY DEF I!TypeOK, I!Wake

(* While a source is open, the generator has begun and has not ended.      *)
LEMMA OpenCounts ==
    ASSUME FanInInv, NEW s \in Sources, iSource[s] = "open"
    PROVE  activeCount # 0 /\ iReader \notin {"new", "ended"}
<1>1. I!Counted
  BY DEF FanInInv
<1>2. Active \in SUBSET Sources /\ s \in Active /\ activeCount = Cardinality(Active)
  BY <1>1, SameCount DEF Active, I!Counted
<1>3. activeCount # 0
  BY <1>2, LoopsCounted
<1>4. QED
  BY <1>1, <1>3 DEF I!Counted

LEMMA NextFanIn == FanInInv /\ [I!Next]_iVars => FanInInv'
<1> SUFFICES ASSUME FanInInv, [I!Next]_iVars PROVE FanInInv'
  OBVIOUS
<1>0. I!TypeOK /\ I!SourceOrderKept /\ I!Counted /\ I!NoLostWakeup
      /\ queue \in Seq(I!Item) /\ iReceived \in Seq(I!Item)
  BY DEF FanInInv, I!TypeOK
<1>1. ASSUME NEW s \in Sources, I!Push(s) PROVE FanInInv'
  <2> DEFINE item == <<s, iPulled[s] + 1>>
  <2>1. /\ iSource[s] = "open" /\ iPulled[s] < ItemsOf[s]
        /\ iPulled' = [iPulled EXCEPT ![s] = @ + 1] /\ queue' = Append(queue, item)
        /\ I!Wake /\ iSource' = iSource /\ activeCount' = activeCount
        /\ iReceived' = iReceived
    BY <1>1 DEF I!Push, I!Pushed
  <2>2. iPulled[s] \in Nat /\ iPulled[s] + 1 \in 1 .. ItemsOf[s]
    <3>1. iPulled[s] \in Nat /\ ItemsOf[s] \in Nat
      BY <1>0, FanInNumbers DEF I!TypeOK
    <3>2. QED
      BY <2>1, <3>1
  <2>3. item \in I!Item /\ item[1] = s /\ item[2] = iPulled[s] + 1
    BY <2>2, ItemParts
  <2>4. queue' \in Seq(I!Item) /\ I!Merged' = Append(I!Merged, item)
        /\ I!Merged \in Seq(I!Item)
    <3> HIDE DEF item
    <3>1. queue' \in Seq(I!Item)
      BY <1>0, <2>1, <2>3, AppendProperties
    <3>2. iReceived \o Append(queue, item) = Append(iReceived \o queue, item)
      BY <1>0, <2>3, WriteOne
    <3>3. iReceived \o queue \in Seq(I!Item)
      BY <1>0, ConcatProperties
    <3>4. QED
      BY <2>1, <3>1, <3>2, <3>3 DEF I!Merged
  <2>5. /\ Len(I!Merged') = Len(I!Merged) + 1 /\ Len(I!Merged) \in Nat
        /\ \A k \in 1 .. Len(I!Merged) : I!Merged'[k] = I!Merged[k]
        /\ I!Merged'[Len(I!Merged) + 1] = item
        /\ I!Merged' \in Seq(I!Item)
    BY <2>3, <2>4, AppendProperties, LenProperties
  <2>6. I!TypeOK'
    <3>1. iPulled' \in [Sources -> Nat]
      BY <1>0, <2>1, <2>2 DEF I!TypeOK
    <3>2. iReader' \in {"new", "between", "woken", "ended", "left"} /\ iResolver' = FALSE
      BY <1>0, <2>1, MergedWakes
    <3>3. QED
      BY <1>0, <2>1, <2>4, <3>1, <3>2 DEF I!TypeOK
  <2>7. I!ToSet(I!Merged)' = I!ToSet(I!Merged) \cup {item}
    <3>1. DOMAIN I!Merged = 1 .. Len(I!Merged) /\ DOMAIN I!Merged' = 1 .. Len(I!Merged) + 1
      BY <2>4, <2>5, LenProperties
    <3>2. I!ToSet(I!Merged)' = {I!Merged'[k] : k \in 1 .. Len(I!Merged) + 1}
      BY <3>1 DEF I!ToSet
    <3>3. I!ToSet(I!Merged) = {I!Merged[k] : k \in 1 .. Len(I!Merged)}
      BY <3>1 DEF I!ToSet
    <3>4. 1 .. Len(I!Merged) + 1 = 1 .. Len(I!Merged) \cup {Len(I!Merged) + 1}
      BY <2>5
    <3>5. QED
      BY <2>5, <3>2, <3>3, <3>4
  <2>8. {x \in I!Item : x[2] <= iPulled'[x[1]]}
          = {x \in I!Item : x[2] <= iPulled[x[1]]} \cup {item}
    <3>1. ASSUME NEW x \in I!Item
          PROVE  x[2] <= iPulled'[x[1]] <=> (x[2] <= iPulled[x[1]] \/ x = item)
      <4>1. x[1] \in Sources /\ x[2] \in Nat /\ x = <<x[1], x[2]>>
            /\ iPulled[x[1]] \in Nat
        BY <1>0, ItemParts, FanInNumbers DEF I!TypeOK
      <4>2. CASE x[1] = s
        <5>1. iPulled'[x[1]] = iPulled[x[1]] + 1
          BY <1>0, <2>1, <4>2 DEF I!TypeOK
        <5>2. x = item <=> x[2] = iPulled[x[1]] + 1
          BY <4>1, <4>2
        <5>3. QED
          BY <4>1, <5>1, <5>2
      <4>3. CASE x[1] # s
        <5>1. iPulled'[x[1]] = iPulled[x[1]]
          BY <1>0, <2>1, <4>1, <4>3 DEF I!TypeOK
        <5>2. x # item
          BY <2>3, <4>3
        <5>3. QED
          BY <5>1, <5>2
      <4>4. QED
        BY <4>2, <4>3
    <3>2. QED
      BY <2>3, <3>1
  <2>9. ASSUME NEW j \in 1 .. Len(I!Merged'), NEW k \in 1 .. Len(I!Merged'),
               j < k, I!Merged'[j][1] = I!Merged'[k][1]
        PROVE  I!Merged'[j][2] < I!Merged'[k][2]
    <3>1. j \in 1 .. Len(I!Merged) /\ I!Merged'[j] = I!Merged[j]
      BY <2>5, <2>9
    <3>2. CASE k = Len(I!Merged) + 1
      <4>1. I!Merged[j] \in I!ToSet(I!Merged)
        BY <2>4, <3>1, LenProperties DEF I!ToSet
      <4>2. I!Merged[j] \in I!Item /\ I!Merged[j][2] <= iPulled[I!Merged[j][1]]
        BY <1>0, <4>1 DEF I!SourceOrderKept
      <4>3. I!Merged[j][1] = s
        BY <2>3, <2>5, <2>9, <3>1, <3>2
      <4>4. I!Merged[j][2] \in Nat
        BY <4>2, ItemParts, FanInNumbers
      <4>5. QED
        BY <2>2, <2>3, <2>5, <3>1, <3>2, <4>2, <4>3, <4>4
    <3>3. CASE k # Len(I!Merged) + 1
      <4>1. k \in 1 .. Len(I!Merged) /\ I!Merged'[k] = I!Merged[k]
        BY <2>5, <3>3
      <4>2. QED
        BY <1>0, <2>9, <3>1, <4>1 DEF I!SourceOrderKept
    <3>4. QED
      BY <3>2, <3>3
  <2>10. I!SourceOrderKept'
    <3>1. I!ToSet(I!Merged)' = {x \in I!Item : x[2] <= iPulled'[x[1]]}
      BY <1>0, <2>7, <2>8 DEF I!SourceOrderKept
    <3>2. QED
      BY <2>9, <3>1 DEF I!SourceOrderKept, I!Item
  <2>11. I!Counted'
    <3>1. iReader' # "waiting" /\ iReader' # "ended" /\ iReader' # "new" /\ iReader # "new"
      BY <1>0, <2>1, OpenCounts, MergedWakes
    <3>2. activeCount = I!Cardinality({r \in Sources : iSource[r] # "done"})
          /\ \A r \in Sources : iSource[r] # "idle"
      BY <1>0, <3>1 DEF I!Counted
    <3>3. ASSUME NEW r \in Sources
          PROVE  iPulled'[r] <= ItemsOf[r] /\ (iSource[r] = "done" => iPulled'[r] = ItemsOf[r])
      <4>1. CASE r = s
        BY <1>0, <2>1, <2>2, <4>1 DEF I!TypeOK
      <4>2. CASE r # s
        BY <1>0, <2>1, <4>2 DEF I!TypeOK, I!Counted
      <4>3. QED
        BY <4>1, <4>2
    <3>4. QED
      BY <2>1, <3>1, <3>2, <3>3 DEF I!Counted
  <2>12. WaitsForItems'
    BY <1>0, <2>1, MergedWakes DEF WaitsForItems
  <2>13. QED
    BY <2>6, <2>10, <2>11, <2>12, CountTells, PTL
<1>2. ASSUME NEW s \in Sources, I!Done(s) PROVE FanInInv'
  <2>1. /\ iSource[s] = "open" /\ iPulled[s] = ItemsOf[s]
        /\ iSource' = [iSource EXCEPT ![s] = "done"] /\ activeCount' = activeCount - 1
        /\ I!Wake /\ iPulled' = iPulled /\ queue' = queue /\ iReceived' = iReceived
    BY <1>2 DEF I!Done, I!WakeOnDone
  <2>2. iReader' # "waiting" /\ iReader' # "ended" /\ iReader' # "new" /\ iReader # "new"
    BY <1>0, <2>1, OpenCounts, MergedWakes
  <2>3. activeCount' = Cardinality({r \in Sources : iSource'[r] # "done"})
    <3>1. {r \in Sources : iSource'[r] # "done"} = Active \ {s}
      BY <1>0, <2>1 DEF Active, I!TypeOK
    <3>2. s \in Active /\ Active \in SUBSET Sources /\ activeCount = Cardinality(Active)
      BY <1>0, <2>1, SameCount DEF Active, I!Counted
    <3>3. QED
      BY <2>1, <3>1, <3>2, LoopsCounted
  <2>4. activeCount' \in 0 .. Cardinality(Sources)
    BY <2>3, LoopsCounted
  <2>5. I!TypeOK'
    <3>1. activeCount' \in 0 .. I!Cardinality(Sources)
      BY <2>4, SameCount
    <3>2. QED
      BY <1>0, <2>1, <3>1, MergedWakes DEF I!TypeOK
  <2>6. I!SourceOrderKept'
    BY <1>0, <2>1 DEF I!SourceOrderKept, I!Merged, I!ToSet
  <2>7. I!Counted'
    <3>1. \A r \in Sources : /\ iSource'[r] # "idle" /\ iPulled[r] <= ItemsOf[r]
                             /\ (iSource'[r] = "done" => iPulled[r] = ItemsOf[r])
      BY <1>0, <2>1, <2>2 DEF I!Counted, I!TypeOK
    <3>2. activeCount' = I!Cardinality({r \in Sources : iSource'[r] # "done"})
      BY <2>3, SameCount
    <3>3. QED
      BY <2>1, <2>2, <3>1, <3>2 DEF I!Counted
  <2>8. WaitsForItems'
    BY <2>2 DEF WaitsForItems
  <2>9. QED
    BY <2>5, <2>6, <2>7, <2>8, CountTells, PTL
<1>3. ASSUME NEW s \in Sources, I!Rejects(s) PROVE FanInInv'
  <2>1. /\ iSource[s] = "open" /\ iSource' = [iSource EXCEPT ![s] = "rejected"]
        /\ activeCount' = activeCount /\ iPulled' = iPulled /\ queue' = queue
        /\ iResolver' = iResolver /\ iReader' = iReader /\ iReceived' = iReceived
    BY <1>3 DEF I!Rejects, I!StaysActive
  <2>2. I!TypeOK' /\ I!SourceOrderKept'
    <3>1. I!Merged' = I!Merged /\ I!ToSet(I!Merged)' = I!ToSet(I!Merged)
      BY <2>1 DEF I!Merged, I!ToSet
    <3>2. I!SourceOrderKept'
      BY <1>0, <2>1, <3>1 DEF I!SourceOrderKept
    <3>3. I!TypeOK'
      BY <1>0, <2>1 DEF I!TypeOK
    <3>4. QED
      BY <3>2, <3>3
  <2>3. {r \in Sources : iSource'[r] # "done"} = {r \in Sources : iSource[r] # "done"}
    BY <1>0, <2>1 DEF I!TypeOK
  <2>4. iReader # "new"
    BY <2>1, OpenCounts
  <2>5. \A r \in Sources : /\ iSource'[r] # "idle" /\ iPulled[r] <= ItemsOf[r]
                           /\ (iSource'[r] = "done" => iPulled[r] = ItemsOf[r])
    BY <1>0, <2>1, <2>4 DEF I!Counted, I!TypeOK
  <2>6. activeCount = I!Cardinality({r \in Sources : iSource'[r] # "done"})
    BY <1>0, <2>3 DEF I!Counted
  <2>7. I!Counted'
    BY <1>0, <2>1, <2>4, <2>5, <2>6 DEF I!Counted
  <2>8. WaitsForItems'
    BY <1>0, <2>1 DEF WaitsForItems, I!NoLostWakeup
  <2>9. QED
    BY <2>2, <2>7, <2>8, CountTells, PTL
<1>4. CASE I!Begin
  BY <1>4, MergedRuns DEF I!Begin
<1>5. CASE I!ConsumerAsks \/ I!Continue
  BY <1>5, MergedRuns DEF I!ConsumerAsks, I!Continue, I!loops
<1>6. ASSUME UNCHANGED <<iPulled, iSource, queue, activeCount, iResolver, iReceived>>,
             iReader' = iReader \/ (iReader = "between" /\ iReader' = "left")
      PROVE  FanInInv'
  <2>1. I!TypeOK'
    BY <1>0, <1>6 DEF I!TypeOK
  <2>2. I!SourceOrderKept'
    <3>1. iPulled' = iPulled /\ queue' = queue /\ iReceived' = iReceived
      BY <1>6
    <3>2. I!Merged' = I!Merged /\ I!ToSet(I!Merged)' = I!ToSet(I!Merged)
      BY <3>1 DEF I!Merged, I!ToSet
    <3>3. QED
      BY <1>0, <3>1, <3>2 DEF I!SourceOrderKept
  <2>3. I!Counted'
    <3>1. \A s \in Sources : (iReader' = "new") = (iSource'[s] = "idle")
      BY <1>0, <1>6 DEF I!Counted
    <3>2. QED
      BY <1>0, <1>6, <3>1 DEF I!Counted
  <2>4. WaitsForItems'
    BY <1>0, <1>6 DEF WaitsForItems, I!NoLostWakeup
  <2>5. QED
    BY <2>1, <2>2, <2>3, <2>4, CountTells, PTL
<1>7. CASE I!ConsumerLeaves \/ UNCHANGED iVars
  BY <1>6, <1>7 DEF I!ConsumerLeaves, I!loops, iVars
<1>8. QED
  BY <1>1, <1>2, <1>3, <1>4, <1>5, <1>7 DEF I!Next

-----------------------------------------------------------------------------
(* Debounce: the one timer there may be is for the last call.              *)
DebounceInv == D!TypeOK /\ D!ArmedForLast

LEMMA DebounceNumbers == DelayMs \in Nat /\ MaxCalls \in Nat /\ DebounceTime \in Nat
  BY TimerAssumption DEF D!DebounceAssumption

LEMMA InitDebounce == D!Init => DebounceInv
<1> SUFFICES ASSUME D!Init PROVE DebounceInv
  OBVIOUS
<1>1. now = 0 /\ timer = 0 /\ pending = {} /\ calls = 0 /\ lastCallAt = 0 /\ fired = 0
  BY DEF D!Init
<1>2. D!TypeOK
  BY <1>1, DebounceNumbers DEF D!TypeOK
<1>3. D!ArmedForLast
  BY <1>1 DEF D!ArmedForLast
<1>4. QED
  BY <1>2, <1>3 DEF DebounceInv

LEMMA DebounceTypes ==
    ASSUME DebounceInv
    PROVE  /\ now \in Nat /\ now <= DebounceTime /\ calls \in Nat /\ calls <= MaxCalls
           /\ lastCallAt \in Nat /\ lastCallAt <= DebounceTime
           /\ fired \in Nat /\ fired <= calls /\ pending \subseteq D!Timer
           /\ timer \in {0, calls}
           /\ \A t \in pending : t.call = timer /\ t.call = calls /\ t.call # 0
                                /\ t.due = lastCallAt + DelayMs /\ fired < calls
<1>1. D!TypeOK /\ D!ArmedForLast
  BY DEF DebounceInv
<1>2. ASSUME NEW t \in pending PROVE t.call = timer /\ t.call # 0
  <2>1. t.call \in {u.call : u \in pending}
    OBVIOUS
  <2>2. t.call \in {timer} \ {0}
    BY <1>1, <2>1 DEF D!TypeOK
  <2>3. QED
    BY <2>2
<1>3. QED
  BY <1>1, <1>2, DebounceNumbers DEF D!TypeOK, D!ArmedForLast

(* A new timer, when the old one, if there was one, is gone.               *)
LEMMA Rearms ==
    ASSUME DebounceInv, calls < MaxCalls, now' = now, fired' \in 0 .. calls,
           calls' = calls + 1, timer' = calls + 1, lastCallAt' = now,
           pending' = {[call |-> calls + 1, due |-> now + DelayMs]}
    PROVE  DebounceInv'
<1> DEFINE new == [call |-> calls + 1, due |-> now + DelayMs]
<1>1. new \in D!Timer
  BY DebounceTypes, DebounceNumbers DEF D!Timer
<1>2. {t.call : t \in pending'} = {timer'} \ {0}
  <2>1. {t.call : t \in pending'} = {new.call}
    OBVIOUS
  <2>2. new.call = timer' /\ timer' # 0
    BY DebounceTypes
  <2>3. QED
    BY <2>1, <2>2
<1>3. D!TypeOK'
  BY <1>1, <1>2, DebounceTypes, DebounceNumbers DEF D!TypeOK
<1>4. D!ArmedForLast'
  BY DebounceTypes DEF D!ArmedForLast
<1>5. QED
  BY <1>3, <1>4 DEF DebounceInv

LEMMA Fires ==
    ASSUME DebounceInv, NEW t \in D!Timer, D!Fire(t)
    PROVE  /\ DebounceInv'
           /\ fired' = calls /\ fired' > fired /\ now >= lastCallAt + DelayMs
<1>1. /\ t \in pending /\ now >= t.due /\ fired' = t.call /\ now' = now
      /\ t.call = calls /\ t.call = timer /\ t.call # 0 /\ fired < calls
      /\ t.due = lastCallAt + DelayMs
  BY DebounceTypes DEF D!Fire, D!Due
<1>2. pending = {t}
  <2> SUFFICES ASSUME NEW u \in pending PROVE u = t
    BY <1>1
  <2>1. u.call = t.call /\ u.due = t.due /\ u \in D!Timer
    BY <1>1, DebounceTypes
  <2>2. QED
    BY <2>1 DEF D!Timer
<1>3. CASE pending' = pending \ {t} /\ timer' = 0 /\ UNCHANGED <<calls, lastCallAt>>
  <2>1. /\ pending' = {} /\ timer' = 0 /\ calls' = calls /\ lastCallAt' = lastCallAt
        /\ fired' = calls /\ now' = now
    BY <1>1, <1>2, <1>3
  <2>2. D!TypeOK'
    <3>1. {u.call : u \in pending'} = {timer'} \ {0}
      <4>1. {u.call : u \in pending'} = {}
        BY <2>1
      <4>2. QED
        BY <4>1, <2>1
    <3>2. /\ now' \in 0 .. DebounceTime /\ calls' \in 0 .. MaxCalls
          /\ lastCallAt' \in 0 .. DebounceTime /\ fired' \in 0 .. MaxCalls
      BY <2>1, DebounceTypes, DebounceNumbers
    <3>3. QED
      BY <2>1, <3>1, <3>2 DEF D!TypeOK
  <2>3. D!ArmedForLast'
    <3>1. fired' <= calls' /\ timer' \in {0, calls'}
      BY <2>1, DebounceTypes
    <3>2. QED
      BY <2>1, <3>1 DEF D!ArmedForLast
  <2>4. QED
    BY <1>1, <2>2, <2>3, DebounceTypes DEF DebounceInv
<1>4. CASE D!FnCallsAgain(t)
  <2>1. /\ calls < MaxCalls /\ calls' = calls + 1 /\ timer' = calls + 1 /\ lastCallAt' = now
        /\ pending' = {[call |-> calls + 1, due |-> now + DelayMs]}
    BY <1>2, <1>4 DEF D!FnCallsAgain, D!Arm, D!Rearmed
  <2>2. fired' \in 0 .. calls
    BY <1>1, DebounceTypes
  <2>3. QED
    BY <1>1, <2>1, <2>2, Rearms, DebounceTypes
<1>5. QED
  BY <1>3, <1>4 DEF D!Fire

LEMMA NextDebounce == DebounceInv /\ [D!Next]_dVars => DebounceInv'
<1> SUFFICES ASSUME DebounceInv, [D!Next]_dVars PROVE DebounceInv'
  OBVIOUS
<1>1. CASE D!Call
  <2>1. /\ calls < MaxCalls /\ calls' = calls + 1 /\ timer' = calls + 1
        /\ lastCallAt' = now /\ now' = now /\ fired' = fired
        /\ pending' = {t \in pending : t.call # timer}
                        \cup {[call |-> calls + 1, due |-> now + DelayMs]}
    BY <1>1 DEF D!Call, D!Arm, D!Rearmed
  <2>2. {t \in pending : t.call # timer} = {}
    BY DebounceTypes
  <2>3. fired' \in 0 .. calls
    BY <2>1, DebounceTypes
  <2>4. QED
    BY <2>1, <2>2, <2>3, Rearms
<1>2. CASE D!Tick
  <2>1. now' \in 0 .. DebounceTime /\ UNCHANGED <<timer, pending, calls, lastCallAt, fired>>
    BY <1>2, DebounceTypes, DebounceNumbers DEF D!Tick
  <2>2. QED
    BY <2>1 DEF DebounceInv, D!TypeOK, D!ArmedForLast
<1>3. CASE UNCHANGED dVars
  BY <1>3 DEF dVars, DebounceInv, D!TypeOK, D!ArmedForLast
<1>4. QED
  BY <1>1, <1>2, <1>3, Fires DEF D!Next

-----------------------------------------------------------------------------
(* Throttle: lastCall is the wall clock's time of the last run, and the    *)
(* clock only falls back behind what really passes.                        *)
ThrottleInv == T!TypeOK /\ T!LastTrue /\ T!Spaced /\ T!DropsOnlyRecent

LEMMA ThrottleNumbers ==
    IntervalMs \in Nat \ {0} /\ ThrottleTime \in Nat /\ MaxSkew \in Nat
  BY TimerAssumption DEF T!ThrottleAssumption

LEMMA ThrottleTypes ==
    ASSUME T!TypeOK
    PROVE  /\ time \in Nat /\ time <= ThrottleTime /\ skew \in Nat /\ skew <= MaxSkew
           /\ lastCall \in Int
           /\ ran \in Int /\ ranBefore \in Int /\ skewThen \in Int
  BY ThrottleNumbers DEF T!TypeOK, T!Never

(* Given when fn() ran last, what the clock says settles the rest.         *)
LEMMA RecentDrops == T!TypeOK /\ T!LastTrue => T!DropsOnlyRecent
  BY ThrottleNumbers, ThrottleTypes DEF T!LastTrue, T!DropsOnlyRecent, T!Elapsed, T!Now,
    T!Never

LEMMA InitThrottle == T!Init => ThrottleInv
<1> SUFFICES ASSUME T!Init PROVE ThrottleInv
  OBVIOUS
<1>1. T!TypeOK
  BY ThrottleNumbers DEF T!Init, T!TypeOK, T!Never
<1>2. T!LastTrue /\ T!Spaced
  BY ThrottleNumbers DEF T!Init, T!LastTrue, T!Spaced, T!Never
<1>3. QED
  BY <1>1, <1>2, RecentDrops DEF ThrottleInv

LEMMA NextThrottle == ThrottleInv /\ [T!Next]_tVars => ThrottleInv'
<1> SUFFICES ASSUME ThrottleInv, [T!Next]_tVars PROVE ThrottleInv'
  OBVIOUS
<1>1. T!TypeOK /\ T!LastTrue /\ T!Spaced
  BY DEF ThrottleInv
<1>2. CASE T!CallPasses
  <2>1. /\ lastCall' = IntervalMs + MaxSkew + time - skew
        /\ ran' = time /\ ranBefore' = ran /\ skewThen' = skew
        /\ time' = time /\ skew' = skew
    BY <1>2 DEF T!CallPasses, T!Now
  <2>2. T!TypeOK'
    BY <1>1, <2>1, ThrottleNumbers, ThrottleTypes DEF T!TypeOK, T!Never
  <2>3. T!LastTrue'
    BY <1>1, <2>1, ThrottleNumbers, ThrottleTypes DEF T!LastTrue, T!Never
  <2>4. T!Spaced'
    BY <1>1, <1>2, <2>1, ThrottleNumbers, ThrottleTypes
    DEF T!CallPasses, T!Elapsed, T!Now, T!LastTrue, T!Spaced, T!Never
  <2>5. QED
    <3>1. T!DropsOnlyRecent'
      BY <2>2, <2>3, RecentDrops, PTL
    <3>2. QED
      BY <2>2, <2>3, <2>4, <3>1 DEF ThrottleInv
<1>3. CASE T!CallDropped
  BY <1>1, <1>3 DEF T!CallDropped, T!AfterDrop, ThrottleInv, T!TypeOK, T!LastTrue, T!Spaced,
    T!DropsOnlyRecent, T!Elapsed, T!Now
<1>4. CASE T!Tick \/ T!SetBack
  <2>1. /\ time' \in 0 .. ThrottleTime /\ time' >= time
        /\ skew' \in 0 .. MaxSkew /\ skew' >= skew
        /\ UNCHANGED <<lastCall, ran, ranBefore, skewThen>>
    BY <1>4, ThrottleNumbers, ThrottleTypes, <1>1 DEF T!Tick, T!SetBack
  <2>2. T!TypeOK' /\ T!Spaced'
    BY <1>1, <2>1 DEF T!TypeOK, T!Spaced
  <2>3. T!LastTrue'
    BY <1>1, <2>1, ThrottleTypes DEF T!LastTrue
  <2>4. T!DropsOnlyRecent'
    BY <2>2, <2>3, RecentDrops, PTL
  <2>5. QED
    BY <2>2, <2>3, <2>4 DEF ThrottleInv
<1>5. CASE UNCHANGED tVars
  BY <1>5 DEF tVars, ThrottleInv, T!TypeOK, T!LastTrue, T!Spaced, T!DropsOnlyRecent,
    T!Elapsed, T!Now
<1>6. QED
  BY <1>2, <1>3, <1>4, <1>5 DEF T!Next

-----------------------------------------------------------------------------
(* Barrier: who waits is in resolvers, which the last one in empties.      *)
BarrierInv == B!TypeOK /\ B!Rendezvous

LEMMA BarrierNumbers == N \in Nat \ {0} /\ MaxWaits \in Nat
  BY BarrierAssumption DEF B!NAssumption, B!WaitsAssumption

LEMMA InitBarrier == B!Init => BarrierInv
  BY BarrierNumbers DEF B!Init, BarrierInv, B!TypeOK, B!Rendezvous

LEMMA NextBarrier == BarrierInv /\ [B!Next]_bVars => BarrierInv'
<1> SUFFICES ASSUME BarrierInv, [B!Next]_bVars PROVE BarrierInv'
  OBVIOUS
<1>1. B!TypeOK /\ B!Rendezvous
  BY DEF BarrierInv
<1> DEFINE Waits(p) == pc[p] = "waiting"
<1>2. ASSUME NEW p \in Participant, B!WaitBlocks(p) PROVE BarrierInv'
  <2>1. /\ count' = count + 1 /\ count < MaxWaits /\ count' < N
        /\ bResolvers' = Append(bResolvers, p) /\ pc' = [pc EXCEPT ![p] = "waiting"]
        /\ ready' = ready /\ passed' = passed
    BY <1>1, <1>2, BarrierNumbers DEF B!WaitBlocks, B!Calls, B!AllIn, B!TypeOK
  <2>2. B!TypeOK'
    BY <1>1, <2>1, BarrierNumbers DEF B!TypeOK
  <2>3. Len(bResolvers') = Len(bResolvers) + 1 /\ Len(bResolvers) \in Nat
        /\ Len(ready) \in Nat /\ Len(passed) \in Nat
    BY <1>1, <2>1, LenProperties DEF B!TypeOK
  <2>4. ASSUME NEW q \in Participant, pc'[q] = "waiting"
        PROVE  \E i \in DOMAIN bResolvers' : bResolvers'[i] = q
    <3>1. CASE q = p
      <4>1. Len(bResolvers') \in DOMAIN bResolvers' /\ bResolvers'[Len(bResolvers')] = p
        BY <1>1, <2>1, <2>3 DEF B!TypeOK
      <4>2. QED
        BY <3>1, <4>1
    <3>2. CASE q # p
      <4>1. pc[q] = "waiting"
        BY <1>1, <2>1, <2>4, <3>2 DEF B!TypeOK
      <4>2. PICK i \in DOMAIN bResolvers : bResolvers[i] = q
        BY <1>1, <4>1 DEF B!Rendezvous
      <4>3. i \in DOMAIN bResolvers' /\ bResolvers'[i] = q
        BY <1>1, <2>1, <4>2 DEF B!TypeOK
      <4>4. QED
        BY <4>3
    <3>3. QED
      BY <3>1, <3>2
  <2>5. ready' = <<>> /\ passed' = <<>>
    BY <1>1, <2>1, BarrierNumbers DEF B!TypeOK, B!Rendezvous
  <2>6. count' = Len(bResolvers') + Len(ready') + Len(passed')
    BY <1>1, <2>1, <2>3 DEF B!TypeOK, B!Rendezvous
  <2>7. ~(count' >= N)
    BY <1>1, <2>1, BarrierNumbers DEF B!TypeOK
  <2>8. QED
    BY <2>2, <2>4, <2>5, <2>6, <2>7 DEF BarrierInv, B!Rendezvous
<1>3. ASSUME NEW p \in Participant, B!WaitLifts(p) PROVE BarrierInv'
  <2>1. /\ count' = count + 1 /\ count < MaxWaits /\ count' >= N
        /\ bResolvers' = <<>> /\ ready' = Append(ready \o bResolvers, p)
        /\ pc' = [q \in Participant |->
                    IF q = p \/ \E i \in DOMAIN bResolvers : bResolvers[i] = q
                      THEN "lifted" ELSE pc[q]]
        /\ passed' = passed
    BY <1>1, <1>3, BarrierNumbers DEF B!WaitLifts, B!Calls, B!AllIn, B!TypeOK
  <2>2. ready \o bResolvers \in Seq(Participant)
        /\ Len(ready \o bResolvers) = Len(ready) + Len(bResolvers)
    BY <1>1, ConcatProperties DEF B!TypeOK
  <2>3. ready' \in Seq(Participant) /\ Len(ready') = Len(ready) + Len(bResolvers) + 1
    BY <2>1, <2>2, LenProperties
  <2>4. B!TypeOK'
    BY <1>1, <2>1, <2>3, BarrierNumbers DEF B!TypeOK
  <2>5. \A q \in Participant : pc'[q] # "waiting"
    BY <1>1, <2>1 DEF B!TypeOK, B!Rendezvous
  <2>6. count' = Len(bResolvers') + Len(ready') + Len(passed')
    BY <1>1, <2>1, <2>3, LenProperties DEF B!TypeOK, B!Rendezvous
  <2>7. QED
    BY <2>1, <2>4, <2>5, <2>6 DEF BarrierInv, B!Rendezvous
<1>4. ASSUME NEW p \in Participant, B!Pass(p) PROVE BarrierInv'
  <2>1. /\ ready # <<>> /\ ready' = Tail(ready) /\ pc' = [pc EXCEPT ![p] = "out"]
        /\ passed' = Append(passed, p) /\ count' = count /\ bResolvers' = bResolvers
    BY <1>4 DEF B!Pass
  <2>2. Len(ready') = Len(ready) - 1 /\ Len(passed') = Len(passed) + 1
        /\ ready' \in Seq(Participant) /\ passed' \in Seq(Participant)
    BY <1>1, <1>4, <2>1, LenProperties, HeadTailProperties DEF B!TypeOK
  <2>3. B!TypeOK'
    BY <1>1, <2>1, <2>2 DEF B!TypeOK
  <2>4. \A q \in Participant : pc'[q] = "waiting" => pc[q] = "waiting"
    BY <1>1, <2>1 DEF B!TypeOK
  <2>5. count' = Len(bResolvers') + Len(ready') + Len(passed')
    BY <1>1, <2>1, <2>2, LenProperties DEF B!TypeOK, B!Rendezvous
  <2>6. QED
    BY <1>1, <2>1, <2>3, <2>4, <2>5 DEF BarrierInv, B!Rendezvous
<1>5. CASE UNCHANGED bVars
  BY <1>1, <1>5 DEF bVars, BarrierInv, B!TypeOK, B!Rendezvous
<1>6. QED
  BY <1>2, <1>3, <1>4, <1>5 DEF B!Next

-----------------------------------------------------------------------------
(* All of them side by side.                                               *)

Invs ==
    /\ IInv /\ StreamInv /\ FanOutInv /\ FanInInv
    /\ BarrierInv /\ DebounceInv /\ ThrottleInv

(* A step of MCStreams is one of a part or leaves it alone.                *)
LEMMA Parts ==
    [AllNext]_allVars =>
        /\ [Next]_vars /\ [S!Next]_sVars /\ [O!Next]_oVars /\ [I!Next]_iVars
        /\ [B!Next]_bVars /\ [D!Next]_dVars /\ [T!Next]_tVars
  BY DEF AllNext, allVars, itemVars, timerVars

LEMMA Invariants == AllSpec => []Invs
<1>1. AllInit => Invs
  BY Initially, InitStream, InitFanOut, InitFanIn, InitBarrier, InitDebounce, InitThrottle
  DEF AllInit, Invs
<1>2. Invs /\ [AllNext]_allVars => Invs'
  BY Parts, Step, NextStream, NextFanOut, NextFanIn, NextBarrier, NextDebounce, NextThrottle
  DEF Invs
<1>3. QED
  BY <1>1, <1>2, PTL DEF AllSpec

(* What process(), a stream, fanOut() and fanIn() hand on is what they     *)
(* were given: nothing is lost, doubled or overtaken, nobody sleeps over   *)
(* an item, and a rejection stops no other worker.                         *)
THEOREM Safety == AllSpec => []StreamsSafety
<1>1. Invs => StreamsSafety
  BY Typed, HandledOnce, OthersGoOn DEF Invs, StreamInv, FanOutInv, FanInInv, StreamsSafety
<1>2. QED
  BY <1>1, Invariants, PTL

(* What ends has yielded everything, or all that take(n) lets through; a   *)
(* source or a worker that rejected is never taken for one at its end.     *)
THEOREM EndTrue == AllSpec => []EndMeansAll
<1>1. Invs => EndMeansAll
  BY NoHoles DEF Invs, StreamInv, FanOutInv, FanInInv, EndMeansAll
<1>2. QED
  BY <1>1, Invariants, PTL

(* A throttled function runs at intervals by the time that really passes,  *)
(* whatever the wall clock says; a barrier lifts for nobody before all are *)
(* there and leaves nobody behind.                                         *)
THEOREM Timing == AllSpec => []Spaced
<1>1. Invs => Spaced
  BY DEF Invs, BarrierInv, DebounceInv, ThrottleInv, Spaced
<1>2. QED
  BY <1>1, Invariants, PTL

(* The debounced function is called with the arguments of the last call,   *)
(* delayMs after it, and for no call twice, though timers go off late and  *)
(* fn() calls it again.                                                    *)
THEOREM Quiet == AllSpec => FiresAfterQuiet
<1>1. ASSUME DebounceInv, [D!Next]_dVars, fired' # fired
      PROVE  fired' = calls /\ fired' > fired /\ now >= lastCallAt + DelayMs
  <2>1. PICK t \in D!Timer : D!Fire(t)
    BY <1>1 DEF D!Next, D!Call, D!Tick, dVars
  <2>2. QED
    BY <1>1, <2>1, Fires
<1>2. Invs /\ [AllNext]_allVars =>
        [fired' # fired => /\ fired' = calls /\ fired' > fired
                           /\ now >= lastCallAt + DelayMs]_dVars
  BY <1>1, Parts DEF Invs
<1>3. QED
  BY <1>2, Invariants, PTL
  DEF AllSpec, FiresAfterQuiet, D!FiresAfterQuiet, D!vars, dVars
=============================================================================
