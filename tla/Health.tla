------------------------------- MODULE Health -------------------------------
(***************************************************************************)
(* HealthRegistry of src/src/health/index.ts: calls of isHealthy(), or of  *)
(* the controller's health(), that overlap each other and register().      *)
(* checkAll() starts the checkers there are and, when all have settled,    *)
(* writes the results into one record by the checkers' names.              *)
(***************************************************************************)
EXTENDS Naturals, FiniteSets

CONSTANTS
    NCheckers,     \* bound: checkers registered
    Name,          \* Name[c]: the name of checker c
    Call           \* calls of isHealthy()

Checker == 1 .. NCheckers         \* in the order of registration
Names == {Name[c] : c \in Checker}

CheckersAssumption == NCheckers \in Nat
NameAssumption == DOMAIN Name = Checker

VARIABLES
    registered,   \* this.checkers.length
    snapshot,     \* snapshot[k]: the checkers 1 .. snapshot[k] are asked
    settled,      \* settled[k][c]: "none" or what check() settled with
    report        \* report[k]: "none", "waiting", "true" or "false"

vars == <<registered, snapshot, settled, report>>

Init ==
    /\ registered = 0
    /\ snapshot = [k \in Call |-> 0]
    /\ settled = [k \in Call |-> [c \in Checker |-> "none"]]
    /\ report = [k \in Call |-> "none"]

Register ==
    /\ registered < NCheckers
    /\ registered' = registered + 1
    /\ UNCHANGED <<snapshot, settled, report>>

Ask(k) ==
    /\ report[k] = "none"
    /\ snapshot' = [snapshot EXCEPT ![k] = registered]
    /\ report' = [report EXCEPT ![k] = "waiting"]
    /\ UNCHANGED <<registered, settled>>

(* A checker may reject; PingChecker makes an unhealthy result of that.    *)
PingResults == {"healthy", "unhealthy"}

CheckSettles(k, c) ==
    /\ report[k] = "waiting"
    /\ c \in 1 .. snapshot[k]
    /\ settled[k][c] = "none"
    /\ \E result \in PingResults \cup {"rejected"} :
         settled' = [settled EXCEPT ![k][c] = result]
    /\ UNCHANGED <<registered, snapshot, report>>

(* The record that checkAll() builds.  A later checker of the same name    *)
(* replaces an earlier one's result; one that rejected goes under the name *)
(* at its index.                                                           *)
Asked(k) == 1 .. snapshot[k]
Namesakes(k, n) == {c \in Asked(k) : Name[c] = n}

OnlyFulfilled(k) ==                              \* [Promise.all().catch]
    {n \in Names : \E c \in Namesakes(k, n) : settled[k][c] # "rejected"}
Reported(k) == {n \in Names : Namesakes(k, n) # {}}

Unhealthy(k, n) ==
    \E c \in Namesakes(k, n) : /\ \A d \in Namesakes(k, n) : d <= c
                               /\ settled[k][c] # "healthy"

AllSettled(k) == \A c \in Asked(k) : settled[k][c] # "none"

Overall(k) == \A n \in Reported(k) : ~Unhealthy(k, n)

Answer(k) ==
    /\ report[k] = "waiting"
    /\ AllSettled(k)
    /\ report' = [report EXCEPT ![k] = IF Overall(k) THEN "true" ELSE "false"]
    /\ UNCHANGED <<registered, snapshot, settled>>

Next ==
    \/ Register
    \/ \E k \in Call : Ask(k) \/ Answer(k) \/ \E c \in Checker : CheckSettles(k, c)

Spec == Init /\ [][Next]_vars

-----------------------------------------------------------------------------
Answered(k) == report[k] \in {"true", "false"}

(* The variables have their types; an answer waits for every checker that  *)
(* was asked, and for no other.                                            *)
TypeOK ==
    /\ registered \in 0 .. NCheckers
    /\ snapshot \in [Call -> 0 .. NCheckers]
    /\ report \in [Call -> {"none", "waiting", "true", "false"}]
    /\ settled \in [Call -> [Checker -> {"none", "healthy", "unhealthy", "rejected"}]]
    /\ \A k \in Call, c \in Checker :
         /\ c > snapshot[k] \/ report[k] = "none" => settled[k][c] = "none"
         /\ Answered(k) /\ c <= snapshot[k] => settled[k][c] # "none"

(* "Returns true only if every checker reports healthy" (health/index.ts:  *)
(* 69), of the checkers registered when it was asked, a rejection counting *)
(* as unhealthy; but of checkers that share a name only the last one.      *)
TrueOnlyIfHealthy ==
    \A k \in Call : report[k] = "true" =>
        \A c \in Asked(k) :
            (\A d \in Asked(k) : d > c => Name[d] # Name[c])
                => settled[k][c] = "healthy"

(* The registry is called unhealthy only if some checker is, whatever is   *)
(* registered while the others are being asked.                            *)
FalseOnlyIfUnhealthy ==
    \A k \in Call : report[k] = "false" =>
        \E c \in Asked(k) : settled[k][c] \in {"unhealthy", "rejected"}
=============================================================================
