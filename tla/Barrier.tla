------------------------------ MODULE Barrier ------------------------------
(***************************************************************************)
(* Barrier of src/src/async/index.ts.  A participant may call wait() again *)
(* when it has passed, and there may be more participants than n; the      *)
(* count is never set back, so the barrier lifts once and for all.  As     *)
(* with Semaphore, a resolved promise and the continuation of the          *)
(* participant are a microtask apart.                                      *)
(***************************************************************************)
EXTENDS Naturals, Sequences

CONSTANTS
    Participant,
    N,             \* the n of the constructor
    MaxWaits       \* bound: calls of wait()

NAssumption == N \in Nat \ {0}
WaitsAssumption == MaxWaits \in Nat

VARIABLES
    count,        \* this.count: calls of wait()
    resolvers,    \* this.resolvers, as the participants they belong to
    ready,        \* participants whose continuation is a queued microtask
    pc,           \* pc[p]: "out", "waiting" or "lifted"
    passed        \* history: participants in the order they passed

vars == <<count, resolvers, ready, pc, passed>>

Init ==
    /\ count = 0
    /\ resolvers = <<>> /\ ready = <<>>
    /\ pc = [p \in Participant |-> "out"]
    /\ passed = <<>>

(* this.count++ comes first: the caller counts itself.                     *)
OthersIn == count >= N                          \* [tested before count++]
AllIn == count + 1 >= N

Calls(p) == pc[p] = "out" /\ count < MaxWaits /\ count' = count + 1

WaitBlocks(p) ==
    /\ Calls(p)
    /\ ~AllIn
    /\ resolvers' = Append(resolvers, p)
    /\ pc' = [pc EXCEPT ![p] = "waiting"]
    /\ UNCHANGED <<ready, passed>>

(* The last one in, or a later one: release all waiters, in their order,   *)
(* and go on behind them.                                                  *)
WaitLifts(p) ==
    /\ Calls(p)
    /\ AllIn
    /\ ready' = Append(ready \o resolvers, p)
    /\ resolvers' = <<>>
    /\ pc' = [q \in Participant |->
                IF q = p \/ \E i \in DOMAIN resolvers : resolvers[i] = q
                  THEN "lifted" ELSE pc[q]]
    /\ UNCHANGED passed

Pass(p) ==
    /\ ready # <<>> /\ p = Head(ready)
    /\ ready' = Tail(ready)
    /\ pc' = [pc EXCEPT ![p] = "out"]
    /\ passed' = Append(passed, p)
    /\ UNCHANGED <<count, resolvers>>

Next == \E p \in Participant : WaitBlocks(p) \/ WaitLifts(p) \/ Pass(p)

(* Microtasks run; nobody has to come to the barrier.                      *)
Fairness == WF_vars(\E p \in Participant : Pass(p))

Spec == Init /\ [][Next]_vars /\ Fairness

-----------------------------------------------------------------------------
TypeOK ==
    /\ count \in 0 .. MaxWaits
    /\ resolvers \in Seq(Participant) /\ ready \in Seq(Participant)
    /\ pc \in [Participant -> {"out", "waiting", "lifted"}]
    /\ passed \in Seq(Participant)

(* "all block until the last one arrives, at which point all are released" *)
(* (async/index.ts:373): nobody has passed before wait() was called n      *)
(* times, and from then on nobody is left behind in the barrier.           *)
Rendezvous ==
    /\ ready # <<>> \/ passed # <<>> => count >= N
    /\ \A p \in Participant :
          pc[p] = "waiting" => \E i \in DOMAIN resolvers : resolvers[i] = p
    /\ count >= N => resolvers = <<>> /\ \A p \in Participant : pc[p] # "waiting"
    /\ count = Len(resolvers) + Len(ready) + Len(passed)

(* When n calls of wait() were made, all who called it get through.        *)
LiftedPass == count >= N ~> Len(passed) >= N
=============================================================================
